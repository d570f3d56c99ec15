----------------------------- MODULE MCWorkflow -----------------------------
(* Workflow with two processes, and the commands each run is about. *)
EXTENDS Workflow, TLC

CONSTANTS p1, p2, s1, s2, t1, t2

Cmd(op, session, task, arg, force) ==
  [op |-> op, session |-> session, task |-> task, arg |-> arg, force |-> force]

Sessions(S) == {Cmd(op, s, NoTask, NoArg, FALSE) : op \in {"start", "close"}, s \in S}
Phases(S, to, force) == {Cmd("phase", s, NoTask, n, f) : s \in S, n \in to, f \in force}
Tasks(ops, S, K, force) == {Cmd(op, s, k, NoArg, f) : op \in ops, s \in S, k \in K, f \in force}
Dones(S, K, how) == {Cmd("done", s, k, h, FALSE) : s \in S, k \in K, h \in how}
BulkResets(S, of, force) == {Cmd("bulk_reset", s, NoTask, o, f) : s \in S, o \in of, f \in force}

\* Two processes in one session: one moves its phase, the other adds a task.
OneSession ==
  p1 :> Phases({s1}, {"plan", "agree"}, {FALSE})
  @@ p2 :> Tasks({"add"}, {s1}, {t1}, {FALSE})

\* Both processes run every command, in either session; a second task is there
\* for the bulk reset.
Everything ==
  Sessions({s1}) \cup Phases({s1}, {"plan", "agree", "execute"}, {FALSE})
  \cup Phases({s1}, {"reflect"}, {TRUE})
  \cup Tasks({"add", "claim", "block", "wait", "cancel", "update", "acceptance", "reset"},
             {s1}, {t1}, {TRUE})
  \cup Tasks({"claim"}, {s2}, {t1}, {TRUE})
  \cup Dones({s1}, {t1}, {"verify", "skip"}) \cup BulkResets({s2}, {s1}, {TRUE})
AnyCommand ==
  [p \in {p1, p2} |-> Everything \cup (IF p = p1 THEN Tasks({"add", "claim"}, {s1}, {t2}, {TRUE})
                                     ELSE {})]

\* A single process, unforced where the documents say no force is needed.
TaskHand == [p \in {p1, p2} |-> IF p = p2 THEN {} ELSE
  Tasks({"add", "claim", "cancel", "update", "acceptance"}, {s1}, {t1}, {TRUE})
  \cup {Cmd("done", s1, t1, "verify", TRUE)}]
=============================================================================
