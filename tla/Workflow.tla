------------------------------ MODULE Workflow ------------------------------
(***************************************************************************)
(* The commands of one clone: session start and close (cmd_session.rs),    *)
(* phase set and the phase gate (cmd_phase.rs, main.rs) and the task board *)
(* (cmd_task.rs), run by several processes on one claims directory.        *)
(*                                                                         *)
(* A command is a process.  A gated one first opens the index, reads its   *)
(* session's phase and closes the index again; its handler then opens the  *)
(* index once more, reads, and appends at most one claim that supersedes   *)
(* the head it read.  The index file is under redb's exclusive lock from   *)
(* the handler's first read until the append drops the handle, and a       *)
(* command that finds it locked fails.  GammaIndex shows that an index so  *)
(* opened holds everything published before, hence read' = claims below.   *)
(***************************************************************************)
EXTENDS ClaimGraph, Phases

CONSTANTS
  Proc,              \* processes
  Session,           \* session ids
  Task,              \* task ids, of one tree and spec
  NoTask,            \* the task of a command about something else
  NoArg,             \* the argument of a command that has none
  CommandsOf,        \* CommandsOf[p]: the commands that p may run
  MaxClaims,         \* bound on the number of claims
  NoProc             \* the index is not locked

Status == {"pending", "in_progress", "done", "blocked", "waiting", "cancelled"}
TaskOp == {"add", "claim", "done", "block", "wait", "cancel",
           "update", "acceptance", "reset", "bulk_reset"}

Command ==
  [op : TaskOp \cup {"start", "close", "phase"},
   session : Session,
   task : Task \cup {NoTask},
   arg : Phase \cup Session \cup {"verify", "skip", NoArg},
   force : BOOLEAN]

ASSUME WorkflowAssumption ==
  /\ CommandsOf \in [Proc -> SUBSET Command]
  /\ MaxClaims \in Nat
  /\ NoProc \notin Proc
  /\ NoOwner \notin Session
  /\ Session # {}
  /\ \A p \in Proc : \A c \in CommandsOf[p] :
       /\ c.op \in TaskOp \ {"bulk_reset"} => c.task \in Task
       /\ c.op = "phase" => c.arg \in Phase

VARIABLES
  claims,            \* the claims in the logs
  lock,              \* the process that has the index open
  pc, cmd,           \* each process's control point and command
  read,              \* the claims in the index a process has open
  todo               \* tasks a bulk reset has still to reset

vars == <<claims, lock, pc, cmd, read, todo>>

Claim ==
  [id : 1..MaxClaims, type : {"session", "phase", "task"},
   key : Session \cup Task, val : Phase \cup Status \cup {"session"},
   owner : Session \cup {NoOwner}, acc : {"none", "declared", "checked"}, sup : 0..MaxClaims]

Idle == [op |-> "close", session |-> CHOOSE s \in Session : TRUE,
         task |-> NoTask, arg |-> NoArg, force |-> FALSE]

\* Types: the logs hold session, phase and task claims, and a bulk reset lists
\* tasks.
TypeOK ==
  /\ claims \subseteq Claim
  /\ lock \in Proc \cup {NoProc}
  /\ pc \in [Proc -> {"idle", "open", "held", "reset", "reopen"}]
  /\ cmd \in [Proc -> Command]
  /\ read \in [Proc -> SUBSET Claim]
  /\ todo \in [Proc -> SUBSET Task]

Init ==
  /\ claims = {}
  /\ lock = NoProc
  /\ pc = [p \in Proc |-> "idle"]
  /\ cmd = [p \in Proc |-> Idle]
  /\ read = [p \in Proc |-> {}]
  /\ todo = [p \in Proc |-> {}]

PhaseOf(C, session) ==
  IF HasPhase(C, session) THEN CurrentPhase(C, session).val ELSE "orient"

\* A bulk reset is a `task reset` to the gate.
Gated(c) == c.op \in TaskOp /\ ~c.force
Allowed(c, C) == ~PhaseForbids(PhaseOf(C, c.session), <<"task", c.op>>)

NewClaim(type, key, val, sup) ==
  [id |-> Cardinality(claims) + 1, type |-> type, key |-> key, val |-> val,
   owner |-> NoOwner, acc |-> "none", sup |-> sup]

Goto(p, at) == pc' = [pc EXCEPT ![p] = at]

\* SynthStore::append, which drops the cached index with its lock.
AppendClaim(p, c) ==
  /\ Cardinality(claims) < MaxClaims
  /\ claims' = claims \cup {c}
  /\ lock' = NoProc
  /\ read' = [read EXCEPT ![p] = {}]

\* The process ends, after an append or with an error.
Exit(p) ==
  /\ cmd' = [cmd EXCEPT ![p] = Idle]
  /\ todo' = [todo EXCEPT ![p] = {}]
  /\ Goto(p, "idle")

Reply(p, c) == AppendClaim(p, c) /\ Exit(p)

Bail(p) ==
  /\ lock' = IF lock = p THEN NoProc ELSE lock
  /\ read' = [read EXCEPT ![p] = {}]
  /\ Exit(p)
  /\ UNCHANGED claims

-----------------------------------------------------------------------------
(* Opening the index *)

\* The phase gate opens a store of its own and drops it before the handler
\* runs.  A command that the phase forbids, or that finds the index locked,
\* ends here without a trace.
Gate(p, c) ==
  /\ pc[p] = "idle"
  /\ Gated(c)
  /\ lock = NoProc
  /\ Allowed(c, claims)
  /\ cmd' = [cmd EXCEPT ![p] = c]
  /\ Goto(p, "open")
  /\ UNCHANGED <<claims, lock, read, todo>>

\* Mutant: the index is opened without an exclusive lock.
OpenShared(p, at) ==
  /\ lock' = p
  /\ read' = [read EXCEPT ![p] = claims]
  /\ Goto(p, at)

OpenIndex(p, at) ==
  /\ lock = NoProc
  /\ lock' = p
  /\ read' = [read EXCEPT ![p] = claims]
  /\ Goto(p, at)

\* The first read of a command that has passed the gate, or needs not to.
Open(p) == pc[p] = "open" /\ OpenIndex(p, "held") /\ UNCHANGED <<claims, cmd, todo>>

OpenUngated(p, c) ==
  /\ pc[p] = "idle"
  /\ ~Gated(c) /\ c.op # "start"
  /\ OpenIndex(p, "held")
  /\ cmd' = [cmd EXCEPT ![p] = c]
  /\ UNCHANGED <<claims, todo>>

Reopen(p) == pc[p] = "reopen" /\ OpenIndex(p, "reset") /\ UNCHANGED <<claims, cmd, todo>>

\* Another process has the index open: the command fails.
FindLocked(p) ==
  /\ pc[p] \in {"open", "reopen"}
  /\ lock # NoProc
  /\ Bail(p)

-----------------------------------------------------------------------------
(* Handlers: sessions and phases *)

Handling(p, op) == pc[p] = "held" /\ cmd[p].op = op

\* session start appends without reading anything.
SessionStart(p, c) ==
  /\ pc[p] = "idle"
  /\ c.op = "start"
  /\ Cardinality(claims) < MaxClaims
  /\ claims' = claims \cup {NewClaim("session", c.session, "session", NoClaim)}
  /\ UNCHANGED <<lock, pc, cmd, read, todo>>

\* The newest live opener of that name, or the one that --start-id selects.
SessionClose(p) ==
  /\ Handling(p, "close")
  /\ LET s == cmd[p].session
         openers == LiveOpeners(read[p], s)
     IN  IF openers = {} THEN Bail(p)
         ELSE \E o \in openers : Reply(p, NewClaim("session", s, "session", o.id))

PhaseSet(p) ==
  /\ Handling(p, "phase")
  /\ LET s == cmd[p].session
         to == cmd[p].arg
     IN  IF ~HasPhase(read[p], s)
         THEN Reply(p, NewClaim("phase", s, to, NoClaim))
         ELSE LET prior == CurrentPhase(read[p], s)
              IN  IF cmd[p].force \/ to \in Transitions(prior.val)
                  THEN Reply(p, NewClaim("phase", s, to, prior.id))
                  ELSE Bail(p)

-----------------------------------------------------------------------------
(* Handlers: tasks *)

Known(p) == TaskHeads(read[p], cmd[p].task) # {}
Head(p) == FindTask(read[p], cmd[p].task)

\* live_tasks copies a head's properties except owner and acceptance.
Revise(p, status) == NewClaim("task", cmd[p].task, status, Head(p).id)

\* Mutant: task add does not look for a live task of that id.
TaskAddBlind(p) ==
  /\ Handling(p, "add")
  /\ Reply(p, NewClaim("task", cmd[p].task, "pending", NoClaim))

TaskAdd(p) ==
  /\ Handling(p, "add")
  /\ IF Known(p) THEN Bail(p)
     ELSE Reply(p, NewClaim("task", cmd[p].task, "pending", NoClaim))

TaskClaim(p) ==
  /\ Handling(p, "claim")
  /\ IF Known(p) /\ Head(p).val = "pending"
     THEN Reply(p, [Revise(p, "in_progress") EXCEPT !.owner = cmd[p].session])
     ELSE Bail(p)

\* The outcomes of running the acceptance checks of the properties a handler
\* has: there is nothing to run when they hold no acceptance.  A done claim
\* marked "checked" remembers, for DoneVerified, that its checks have passed.
Verify(c) == IF c.acc # "none" THEN {"passed", "failed"} ELSE {"nothing to run"}

TaskDone(p) ==
  /\ Handling(p, "done")
  /\ IF ~Known(p) THEN Bail(p)
     ELSE LET done == Revise(p, "done")
          IN  \E outcome \in IF cmd[p].arg = "skip" THEN {"skipped"} ELSE Verify(done) :
                CASE outcome = "failed" -> Bail(p)
                  [] outcome = "passed" -> Reply(p, [done EXCEPT !.acc = "checked"])
                  [] OTHER              -> Reply(p, done)

\* block, wait, cancel and update, none of which looks at the status.
TaskRevise(p) ==
  /\ pc[p] = "held"
  /\ cmd[p].op \in {"block", "wait", "cancel", "update"}
  /\ IF ~Known(p) THEN Bail(p)
     ELSE LET status == CASE cmd[p].op = "block"  -> "blocked"
                          [] cmd[p].op = "wait"   -> "waiting"
                          [] cmd[p].op = "cancel" -> "cancelled"
                          [] cmd[p].op = "update" -> Head(p).val
          IN  Reply(p, Revise(p, status))

\* Adds to the criteria it has read from the head's document.
TaskAcceptance(p) ==
  /\ Handling(p, "acceptance")
  /\ IF Known(p) THEN Reply(p, [Revise(p, Head(p).val) EXCEPT !.acc = "declared"])
     ELSE Bail(p)

TaskReset(p) ==
  /\ Handling(p, "reset")
  /\ IF Known(p) THEN Reply(p, Revise(p, "pending")) ELSE Bail(p)

\* Mutant: reset --session lists the tasks in progress of every session.
BulkListAll(p) ==
  /\ Handling(p, "bulk_reset")
  /\ todo' = [todo EXCEPT ![p] =
                {c.key : c \in {d \in LiveHeads(read[p], "task") : d.val = "in_progress"}}]
  /\ Goto(p, "reset")
  /\ UNCHANGED <<claims, lock, cmd, read>>

\* Mutant: the list holds the ids of the claims instead of those of the tasks.
BulkListIds(p) ==
  /\ Handling(p, "bulk_reset")
  /\ todo' = [todo EXCEPT ![p] =
                {c.id : c \in {d \in LiveHeads(read[p], "task") :
                                 d.val = "in_progress" /\ d.owner = cmd[p].arg}}]
  /\ Goto(p, "reset")
  /\ UNCHANGED <<claims, lock, cmd, read>>

\* reset --session lists the tasks in progress that the session owns ...
BulkList(p) ==
  /\ Handling(p, "bulk_reset")
  /\ todo' = [todo EXCEPT ![p] =
                {c.key : c \in {d \in LiveHeads(read[p], "task") :
                                  d.val = "in_progress" /\ d.owner = cmd[p].arg}}]
  /\ Goto(p, "reset")
  /\ UNCHANGED <<claims, lock, cmd, read>>

\* Mutant: the index stays open after an append, as it was.
BulkResetCached(p, k) ==
  /\ pc[p] = "reset"
  /\ k \in todo[p]
  /\ TaskHeads(read[p], k) # {}
  /\ Cardinality(claims) < MaxClaims
  /\ claims' = claims \cup {NewClaim("task", k, "pending", FindTask(read[p], k).id)}
  /\ todo' = [todo EXCEPT ![p] = @ \ {k}]
  /\ UNCHANGED <<lock, pc, cmd, read>>

\* ... and resets each as it then finds it; every append drops the index,
\* which the next find_task opens anew.
BulkReset(p, k) ==
  /\ pc[p] = "reset"
  /\ k \in todo[p]
  /\ TaskHeads(read[p], k) # {}
  /\ AppendClaim(p, NewClaim("task", k, "pending", FindTask(read[p], k).id))
  /\ todo' = [todo EXCEPT ![p] = @ \ {k}]
  /\ Goto(p, IF todo[p] = {k} THEN "reset" ELSE "reopen")
  /\ UNCHANGED cmd

BulkEnd(p) == pc[p] = "reset" /\ todo[p] = {} /\ Bail(p)

Handle(p) ==
  \/ SessionClose(p) \/ PhaseSet(p)
  \/ TaskAdd(p) \/ TaskClaim(p) \/ TaskDone(p) \/ TaskRevise(p)
  \/ TaskAcceptance(p) \/ TaskReset(p)
  \/ BulkList(p) \/ (\E k \in Task : BulkReset(p, k)) \/ BulkEnd(p)

\* A killed process loses its lock; redb and the log survive it unchanged.
Kill(p) == pc[p] # "idle" /\ Bail(p)

Start(p, c) == Gate(p, c) \/ OpenUngated(p, c) \/ SessionStart(p, c)

Next ==
  \E p \in Proc :
    \/ \E c \in CommandsOf[p] : Start(p, c)
    \/ Open(p) \/ Reopen(p) \/ FindLocked(p) \/ Handle(p) \/ Kill(p)

Spec == Init /\ [][Next]_vars

-----------------------------------------------------------------------------
(* Properties *)

\* What a step of p's handler has appended.
AppendedBy(p) ==
  IF pc[p] \in {"held", "reset"} /\ <<pc[p], todo[p]>>' # <<pc[p], todo[p]>>
  THEN claims' \ claims ELSE {}

\* Every task has one live head and every session at most one live phase: the
\* commands of one clone never fork a chain, nor close a session twice, nor add
\* a task twice (gamma.rs:522-524 takes this for granted).
OneHead ==
  /\ \A c, d \in Superseding(claims) : c.sup = d.sup => c = d
  /\ \A k \in Task : Cardinality(TaskHeads(claims, k)) <= 1
  /\ \A s \in Session : Cardinality(PhaseHeads(claims, s)) <= 1

\* `task claim` is atomic: of the processes that race for a task one gets it,
\* and a task is claimed only while the logs say that it is pending
\* (docs/state-machine.md:26-28).
TaskClaimAtomic ==
  [][\A c \in claims' \ claims :
       c.owner # NoOwner =>
         \A t \in TaskHeads(claims, c.key) : t.id = c.sup /\ t.val = "pending"]_vars

\* Who acts on the index sees all there is: no other claim gets between a
\* handler's read and its append but session openers, which need no lock, and
\* after an append of its own the process looks again (store.rs:378).
HeldIsCurrent ==
  \A p \in Proc : pc[p] = "held" \/ lock = p =>
    \A c \in claims \ read[p] : c.type = "session" /\ c.sup = NoClaim

\* A phase set that is not forced supersedes the phase that its session is in
\* when the claim is appended, and is a step of the table from there, whichever
\* processes set phases.  The first phase of a session can be any: there the
\* code looks at no table (cmd_phase.rs:104-108; against skill.rs:458).
PhaseSteps ==
  [][\A p \in Proc : cmd[p].op = "phase" /\ ~cmd[p].force =>
       \A c \in AppendedBy(p) :
         \/ PhaseHeads(claims, cmd[p].session) = {}
         \/ \E prior \in PhaseHeads(claims, cmd[p].session) :
              c.sup = prior.id /\ c.val \in Transitions(prior.val)]_vars

\* No task command takes effect in a phase that forbids it, unless forced
\* (skill.rs:444-445).
PhaseGateHolds ==
  [][\A p \in Proc :
       Gated(cmd[p]) /\ AppendedBy(p) # {} => Allowed(cmd[p], claims)]_vars

\* A task with acceptance criteria is completed without --skip-verify only
\* through a check of them (cli.rs:434).
DoneVerified ==
  [][\A p \in Proc : cmd[p].op = "done" /\ cmd[p].arg # "skip" =>
       \A c \in AppendedBy(p), t \in TaskHeads(claims, cmd[p].task) :
         t.acc = "declared" => c.acc = "checked"]_vars

\* reset --session spares the others' work: it touches no task that the session
\* has not had in progress itself (cli.rs:450).  It does touch one that has been
\* completed or claimed by another since the tasks were listed.
BulkResetSpares ==
  [][\A p \in Proc : cmd[p].op = "bulk_reset" =>
       \A c \in AppendedBy(p) : \E t \in claims :
         t.key = c.key /\ t.val = "in_progress" /\ t.owner = cmd[p].arg]_vars
=============================================================================
