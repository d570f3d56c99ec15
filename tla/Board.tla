-------------------------------- MODULE Board --------------------------------
(***************************************************************************)
(* The board of a project on clones that exchange their logs: the tasks of *)
(* one spec with their dependencies, specs with the snapshot they were     *)
(* agreed against, and trees.  Every command is a step of Clones.  Tasks   *)
(* and specs are looked up by their id among the live heads, sorted by     *)
(* claim id, and the first is taken; maps from a task's id keep the last.  *)
(* Dependencies are those of one (tree, spec); specs and trees are named.  *)
(***************************************************************************)
EXTENDS Clones, TLC

CONSTANTS
  Task, Plan, Tree,  \* ids of tasks and specs, names of trees
  Time,              \* what the clocks show; those of the clones agree
  MaxDeps,           \* bound on the dependencies a task declares
  NewStatus,         \* bound: what the status commands set
  Node               \* bound: tasks of the graphs that SearchExact is about

Status == {"pending", "in_progress", "done", "blocked", "waiting", "cancelled",
           "active", "closed"}

ASSUME BoardAssumption ==
  /\ Task \cup Plan \cup Tree \subseteq Key
  /\ {"task", "spec", "tree"} \subseteq Type
  /\ NewStatus \subseteq Status
  /\ IsFiniteSet(Node)
  /\ \A st \in Status, deps \in SUBSET Task, snap \in SUBSET Id, t \in Time :
       [status |-> st, deps |-> deps, snap |-> snap, at |-> t] \in Body

\* Every claim is later than those made before, on whichever clone.
Now == 1 + Cardinality(UNION {Ids(claims[a]) : a \in Clone})

Data(st, deps, snap) == [status |-> st, deps |-> deps, snap |-> snap, at |-> Now]

DepSets(tasks) == {deps \in SUBSET tasks : Cardinality(deps) <= MaxDeps}
-----------------------------------------------------------------------------
(* Tasks *)

Last(S) == CHOOSE c \in S : \A d \in S : d.id <= c.id

LiveTasks(C) == {c.key : c \in LiveHeads(C, "task")}

\* Status and dependencies by task id.
StatusOf(C) == [k \in LiveTasks(C) |-> Last(TaskHeads(C, k)).body.status]
DepsOf(C) == [k \in LiveTasks(C) |-> Last(TaskHeads(C, k)).body.deps]

Done(C, d) == d \in LiveTasks(C) /\ StatusOf(C)[d] = "done"

\* Mutant: only tasks that never had a dependency are listed.
ReadyStrict(C) ==
  {c \in LiveHeads(C, "task") : c.body.status = "pending" /\ c.body.deps = {}}

\* What `task ready` and `status` list.
Ready(C) ==
  {c \in LiveHeads(C, "task") :
     c.body.status = "pending" /\ \A d \in c.body.deps : Done(C, d)}

\* What `check` reports as dangling dependencies.
Unresolved(C) == {c \in LiveHeads(C, "task") : ~ c.body.deps \subseteq LiveTasks(C)}

\* Mutant: the search looks at the dependencies of the new one and no further.
ReachedNext(G, d) == {d} \cup (IF d \in DOMAIN G THEN G[d] ELSE {})

\* The walk of the cycle search from d: all tasks it comes to along G.
Reached(G, d) ==
  LET round[n \in 0..Cardinality(DOMAIN G)] ==
        IF n = 0 THEN {d}
        ELSE round[n-1] \cup UNION {G[e] : e \in round[n-1] \cap DOMAIN G}
  IN  round[Cardinality(DOMAIN G)]

\* A new dependency of k leads back to k in G, which has the new ones.
ClosesCycle(G, k) == \E d \in G[k] : k \in Reached(G, d)

\* task add looks for the id, not at the dependencies: they may be unknown, or
\* the task itself.
TaskAdd(a, k, i, deps) ==
  /\ TaskHeads(claims[a], k) = {}
  /\ Add(a, "task", k, i, Data("pending", deps, {}))

\* The task found is superseded by one with this status and dependencies.
TaskRevise(a, k, i, st, deps) ==
  Supersede(a, FindTask(claims[a], k), i, Data(st, deps, {}))

TaskClaim(a, k, i) ==
  /\ k \in LiveTasks(claims[a])
  /\ LET found == FindTask(claims[a], k).body
     IN  found.status = "pending" /\ TaskRevise(a, k, i, "in_progress", found.deps)

\* done, block, wait, cancel and reset, whatever the status was; and an update
\* of other fields, which keeps it.
TaskStatus(a, k, i) ==
  /\ k \in LiveTasks(claims[a])
  /\ LET found == FindTask(claims[a], k).body
     IN  \E st \in NewStatus \cup {found.status} :
           TaskRevise(a, k, i, st, found.deps)

\* Mutant: the walk is along the dependencies from before the update.
TaskUpdateStale(a, k, i, deps) ==
  /\ k \in LiveTasks(claims[a]) \ deps
  /\ deps \subseteq LiveTasks(claims[a])
  /\ ~ ClosesCycle(DepsOf(claims[a]), k)
  /\ TaskRevise(a, k, i, FindTask(claims[a], k).body.status, deps)

\* task update --depends_on.  A cancelled dependency is worth a warning only.
TaskUpdate(a, k, i, deps) ==
  /\ k \in LiveTasks(claims[a]) \ deps
  /\ deps \subseteq LiveTasks(claims[a])
  /\ ~ ClosesCycle([DepsOf(claims[a]) EXCEPT ![k] = deps], k)
  /\ TaskRevise(a, k, i, FindTask(claims[a], k).body.status, deps)
-----------------------------------------------------------------------------
(* Specs *)

\* spec add does not look whether there is such a spec.
SpecAdd(a, k, i) == Add(a, "spec", k, i, Data("active", {}, {}))

\* spec update copies the head without its snapshot; --agree-snapshot, which
\* takes any claim ids, sets one.  Pins are of live task claims here.
SpecUpdate(a, k, i, snap) ==
  /\ Heads(claims[a], "spec", k) # {}
  /\ LET found == First(Heads(claims[a], "spec", k))
     IN  Supersede(a, found, i, Data(found.body.status, {}, snap))

Pins(C) == {{}} \cup {{c.id} : c \in LiveHeads(C, "task")}

\* Mutant: the edges are read from the superseded claim to the later one.
AtRiskReversed(C) ==
  {s.key : s \in {s \in C : s.type = "spec" /\
     \E n \in Superseding(C) : n.id \in s.body.snap /\ n.body.at > s.body.at}}

\* The plan-at-risk overlay: specs of which some version, superseded or not,
\* pins a claim that a claim later than that version supersedes.
AtRisk(C) ==
  {s.key : s \in {s \in C : s.type = "spec" /\
     \E n \in Superseding(C) : n.sup \in s.body.snap /\ n.body.at > s.body.at}}
-----------------------------------------------------------------------------
(* Trees *)

\* tree add does not look either, and stores no status.
TreeAdd(a, k, i) == Add(a, "tree", k, i, Data("active", {}, {}))

Open(C, k) == {c \in Heads(C, "tree", k) : c.body.status # "closed"}

\* The one open tree of that name, or the one --start-id tells.
TreeClose(a, k, i) ==
  \E h \in Open(claims[a], k) : Supersede(a, h, i, Data("closed", {}, {}))
-----------------------------------------------------------------------------
Command(a, i) ==
  \/ \E k \in Task :
       \/ \E deps \in DepSets(Task) : TaskAdd(a, k, i, deps) \/ TaskUpdate(a, k, i, deps)
       \/ TaskClaim(a, k, i)
       \/ TaskStatus(a, k, i)
  \/ \E k \in Plan :
       \/ SpecAdd(a, k, i)
       \/ \E snap \in Pins(claims[a]) : SpecUpdate(a, k, i, snap)
  \/ \E k \in Tree : TreeAdd(a, k, i) \/ TreeClose(a, k, i)

BoardNext ==
  \E a \in Clone :
    \/ Now \in Time /\ \E i \in Id : Command(a, i)
    \/ \E b \in Clone : Pull(a, b)

BoardSpec == Init /\ [][BoardNext]_claims
-----------------------------------------------------------------------------
(* Properties *)

\* No tasks that all depend on one of them.
Acyclic(G) ==
  \A S \in SUBSET DOMAIN G : S # {} => \E k \in S : G[k] \cap S = {}

\* k is on a cycle: whoever collects the dependencies of k and those of all that
\* he has collected, collects k.
OnCycle(G, k) ==
  \A S \in SUBSET (DOMAIN G \ {k}) :
    G[k] \cap DOMAIN G \subseteq S => \E e \in S : ~ G[e] \cap DOMAIN G \subseteq S

\* With the tasks a clone has, and whatever others may be added, dependencies
\* installed for k are refused by the search when they put k on a cycle, and only
\* then, also where other tasks form cycles (cmd_task.rs:587-622).
SearchExact ==
  \A a \in Clone : LET known == DepsOf(claims[a]) IN
    \A others \in [Node \ DOMAIN known -> DepSets(Node)] :
      LET G == [k \in Node \cup DOMAIN known |->
                  IF k \in DOMAIN known THEN known[k] ELSE others[k]]
      IN  \A k \in Node : ClosesCycle(G, k) <=> OnCycle(G, k)

\* task update never makes the dependencies cyclic that were not, whatever the
\* clone has merged (cmd_task.rs:544-549).
UpdateKeepsAcyclic ==
  [][\A a \in Clone :
       ~ Acyclic(DepsOf(claims'[a])) /\ Acyclic(DepsOf(claims[a]))
         => ~ \E k \in Task, i \in Id, deps \in DepSets(Task) :
                TaskUpdate(a, k, i, deps)]_claims

\* Work never runs dry by itself: where tasks are only pending or done, `check`
\* finds no dangling dependency and there is no cycle, some pending task is
\* listed as ready, forked or not (cmd_task.rs:364-396).
NoStarvation ==
  \A a \in Clone :
    LET tasks == LiveHeads(claims[a], "task")
        waiting == {c \in tasks : c.body.status = "pending"}
    IN  /\ waiting # {}
        /\ \A c \in tasks \ waiting : c.body.status = "done"
        /\ Unresolved(claims[a]) = {}
        /\ Acyclic(DepsOf(claims[a]))
        => Ready(claims[a]) # {}

\* What becomes of a flag: a spec once flagged stays flagged in its clone,
\* whatever update, even one with an empty snapshot, and whatever merge comes
\* (gamma.rs:656-720, which reads every version of the spec; against
\* cli.rs:332-338, where an empty snapshot clears).
FlagsPersist == [][\A a \in Clone : AtRisk(claims[a]) \subseteq AtRisk(claims'[a])]_claims

\* A command that supersedes a claim which a spec of its clone pins gets that
\* spec flagged there (README.md:218-220).
RevisionsFlagged ==
  [][\A a \in Clone : \A n \in claims'[a] \ claims[a], s \in claims[a] :
       (\A c \in Clone : n \notin claims[c]) /\ n.sup \in s.body.snap
         => s.key \in AtRisk(claims'[a])]_claims
=============================================================================
