----------------------------- MODULE ClaimGraph -----------------------------
(***************************************************************************)
(* The typed queries of claim/src/gamma.rs over the set of claims that the *)
(* index holds.  A claim is a record: its id, its type, the key it speaks  *)
(* of (a task, a session), a value (a task's status, a phase), the owner   *)
(* and the acceptance state of a task, and the id of the one claim it       *)
(* supersedes.  Ids are numbers: only their equality and their sort order  *)
(* matter to the code, which compares the hex digits of a hash.            *)
(***************************************************************************)
EXTENDS Naturals, FiniteSets

NoClaim == 0         \* sup of a claim that supersedes nothing
NoOwner == "nobody"  \* owner of a task that no session holds

Ids(C) == {c.id : c \in C}
Superseding(C) == {c \in C : c.sup # NoClaim}
SupersededIds(C) == {c.sup : c \in Superseding(C)}

\* The claims a query returns are sorted by id; most callers take the first.
First(S) == CHOOSE c \in S : \A d \in S : c.id <= d.id

LiveHeads(C, type) ==
  LET superseded == SupersededIds(C)
  IN  {c \in C : c.type = type /\ c.id \notin superseded}

\* Openers are live and supersede nothing, which tells them from closers.
LiveOpeners(C, session) ==
  {c \in LiveHeads(C, "session") : c.key = session /\ c.sup = NoClaim}

\* Only edges between phase claims of the same session count here.
PhaseHeads(C, session) ==
  LET phases == {c \in C : c.type = "phase" /\ c.key = session}
  IN  {c \in phases : c.id \notin SupersededIds(phases)}

HasPhase(C, session) == PhaseHeads(C, session) # {}
CurrentPhase(C, session) == First(PhaseHeads(C, session))

Heads(C, type, key) == {c \in LiveHeads(C, type) : c.key = key}
TaskHeads(C, task) == Heads(C, "task", task)
FindTask(C, task) == First(TaskHeads(C, task))

\* Supersedes edges whose target is not in the logs.
Dangling(C) == {c \in Superseding(C) : c.sup \notin Ids(C)}

\* Claims superseded by several live claims: what `conflicts` lists.
Diamonds(C) ==
  {i \in SupersededIds(C) :
     \E c, d \in Superseding(C) :
       c # d /\ c.sup = i /\ d.sup = i /\ {c.id, d.id} \cap SupersededIds(C) = {}}
=============================================================================
