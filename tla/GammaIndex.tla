----------------------------- MODULE GammaIndex -----------------------------
(***************************************************************************)
(* The redb index over the claim logs (claim/src/gamma.rs, heads.rs) as    *)
(* the command processes of src/store.rs use it.  Each process appends to  *)
(* the log of its own asserter and answers queries from the index, which   *)
(* it opens under redb's exclusive file lock: count the lines of every     *)
(* log, compare the counts with those of the last build, and rebuild from  *)
(* the logs in one transaction when they differ.  Appends take no lock, so *)
(* they land between any two of these steps.                               *)
(*                                                                         *)
(* LogWriter justifies the grain: a log is replaced by rename, so whoever  *)
(* opens it reads one version of it to the end, and an append is a read of *)
(* the log followed by the publication of a version one line longer.       *)
(***************************************************************************)
EXTENDS Naturals, Integers, Sequences, SequencesExt

CONSTANTS
  Proc,              \* command processes
  Dir,               \* asserter directories, numbered in lexicographic order
  Home,              \* Home[p] is the directory of p's asserter
  Line,              \* claim documents
  MaxLen,            \* bound on the length of a log
  NoProc,            \* the index is not locked
  NeverBuilt         \* the index holds no heads signal yet

ASSUME GammaAssumption ==
  /\ Dir \subseteq Nat
  /\ Home \in [Proc -> Dir]
  /\ MaxLen \in Nat
  /\ NoProc \notin Proc
  /\ NeverBuilt \notin [Dir -> Int]

\* One process per asserter at a time: what skill.rs tells agents to arrange.
OneWriterPerLog == \A p, q \in Proc : Home[p] = Home[q] => p = q

VARIABLES
  log,               \* the lines of each log.jsonl
  made,              \* the asserter directories that exist
  stored,            \* the heads signal in the index's meta table
  indexed,           \* the lines the index was built from, per directory
  lock,              \* the process that has the index open
  pc,                \* each process's control point
  existing,          \* the log as an append in progress has read it
  todo,              \* directories still to count or to read
  heads,             \* the heads signal being computed
  loaded,            \* the lines a rebuild has read so far
  since              \* history: the logs when p began to open the index

vars == <<log, made, stored, indexed, lock, pc, existing, todo, heads, loaded, since>>

\* A heads signal: a line count per directory, absent directories apart.
\* The code hashes it with blake3, taken here to be injective.
Absent == -1
Signal == [Dir -> Nat \cup {Absent}]
NoHeads == [d \in Dir |-> Absent]
Logs == [Dir -> Seq(Line)]
NoLogs == [d \in Dir |-> <<>>]

CurrentHeads == [d \in Dir |-> IF d \in made THEN Len(log[d]) ELSE Absent]

\* Types: a signal gives a count, or its absence, for every directory, and logs
\* hold lines.
TypeOK ==
  /\ log \in Logs
  /\ made \subseteq Dir
  /\ stored \in Signal \cup {NeverBuilt}
  /\ indexed \in Logs
  /\ lock \in Proc \cup {NoProc}
  /\ pc \in [Proc -> {"run", "append", "count", "load"}]
  /\ existing \in [Proc -> Seq(Line)]
  /\ todo \in [Proc -> SUBSET Dir]
  /\ heads \in [Proc -> Signal]
  /\ loaded \in [Proc -> Logs]
  /\ since \in [Proc -> Logs]

Init ==
  /\ log = NoLogs
  /\ made = {}
  /\ stored = NeverBuilt
  /\ indexed = NoLogs
  /\ lock = NoProc
  /\ pc = [p \in Proc |-> "run"]
  /\ existing = [p \in Proc |-> <<>>]
  /\ todo = [p \in Proc |-> {}]
  /\ heads = [p \in Proc |-> NoHeads]
  /\ loaded = [p \in Proc |-> NoLogs]
  /\ since = [p \in Proc |-> NoLogs]

Goto(p, at) == pc' = [pc EXCEPT ![p] = at]

\* Dropping the handle, and with it what was remembered about its opening.
DropHandle(p) ==
  /\ lock' = IF lock = p THEN NoProc ELSE lock
  /\ since' = [since EXCEPT ![p] = NoLogs]

\* The locals of a sync go out of scope.
EndSync(p) ==
  /\ heads' = [heads EXCEPT ![p] = NoHeads]
  /\ loaded' = [loaded EXCEPT ![p] = NoLogs]
  /\ Goto(p, "run")


\* Directories are walked in sorted order.
IsNext(d, S) == d \in S /\ \A e \in S : d <= e

-----------------------------------------------------------------------------
(* SynthStore::append through LogWriter::append *)

\* The asserter directory is created if missing and its log is read.
StartAppend(p) ==
  /\ pc[p] = "run"
  /\ Len(log[Home[p]]) < MaxLen
  /\ made' = made \cup {Home[p]}
  /\ existing' = [existing EXCEPT ![p] = log[Home[p]]]
  /\ Goto(p, "append")
  /\ UNCHANGED <<log, stored, indexed, lock, todo, heads, loaded, since>>

\* The rename publishes what was read plus one line; then the cached index
\* handle, stale by that line, is dropped.
Publish(p, l) ==
  /\ pc[p] = "append"
  /\ log' = [log EXCEPT ![Home[p]] = Append(existing[p], l)]
  /\ existing' = [existing EXCEPT ![p] = <<>>]
  /\ DropHandle(p)
  /\ Goto(p, "run")
  /\ UNCHANGED <<made, stored, indexed, todo, heads, loaded>>

-----------------------------------------------------------------------------
(* Gamma::open: lock, count, compare, rebuild *)

\* Mutant: the index is opened without an exclusive lock.
OpenShared(p) ==
  /\ pc[p] = "run"
  /\ lock' = p
  /\ todo' = [todo EXCEPT ![p] = made]
  /\ heads' = [heads EXCEPT ![p] = NoHeads]
  /\ since' = [since EXCEPT ![p] = log]
  /\ Goto(p, "count")
  /\ UNCHANGED <<log, made, stored, indexed, existing, loaded>>

\* The first read of a process that has no handle.  When the file is locked
\* Database::create fails and so does the command: nothing changes.
OpenIndex(p) ==
  /\ pc[p] = "run"
  /\ lock = NoProc
  /\ lock' = p
  /\ todo' = [todo EXCEPT ![p] = made]
  /\ heads' = [heads EXCEPT ![p] = NoHeads]
  /\ since' = [since EXCEPT ![p] = log]
  /\ Goto(p, "count")
  /\ UNCHANGED <<log, made, stored, indexed, existing, loaded>>

CountDir(p, d) ==
  /\ pc[p] = "count"
  /\ IsNext(d, todo[p])
  /\ heads' = [heads EXCEPT ![p][d] = Len(log[d])]
  /\ todo' = [todo EXCEPT ![p] = @ \ {d}]
  /\ UNCHANGED <<log, made, stored, indexed, lock, pc, existing, loaded, since>>

\* Mutant: an index that was ever built is kept.
KeepBuilt(p) ==
  /\ pc[p] = "count"
  /\ todo[p] = {}
  /\ stored # NeverBuilt
  /\ EndSync(p)
  /\ UNCHANGED <<log, made, stored, indexed, lock, existing, todo, since>>

\* The signal has not moved: the index is taken to be current.
KeepIndex(p) ==
  /\ pc[p] = "count"
  /\ todo[p] = {}
  /\ stored = heads[p]
  /\ EndSync(p)
  /\ UNCHANGED <<log, made, stored, indexed, lock, existing, todo, since>>

\* The signal has moved: one transaction clears the tables and lists the logs.
BeginRebuild(p) ==
  /\ pc[p] = "count"
  /\ todo[p] = {}
  /\ stored # heads[p]
  /\ todo' = [todo EXCEPT ![p] = made]
  /\ loaded' = [loaded EXCEPT ![p] = NoLogs]
  /\ Goto(p, "load")
  /\ UNCHANGED <<log, made, stored, indexed, lock, existing, heads, since>>

LoadDir(p, d) ==
  /\ pc[p] = "load"
  /\ IsNext(d, todo[p])
  /\ loaded' = [loaded EXCEPT ![p][d] = log[d]]
  /\ todo' = [todo EXCEPT ![p] = @ \ {d}]
  /\ UNCHANGED <<log, made, stored, indexed, lock, pc, existing, heads, since>>

\* Mutant: the signal is computed after the logs were read.
CommitLateHeads(p) ==
  /\ pc[p] = "load"
  /\ todo[p] = {}
  /\ stored' = CurrentHeads
  /\ indexed' = loaded[p]
  /\ EndSync(p)
  /\ UNCHANGED <<log, made, lock, existing, todo, since>>

\* Mutant: the transaction commits what it has read so far.
CommitEarly(p) ==
  /\ pc[p] = "load"
  /\ stored' = heads[p]
  /\ indexed' = loaded[p]
  /\ todo' = [todo EXCEPT ![p] = {}]
  /\ EndSync(p)
  /\ UNCHANGED <<log, made, lock, existing, since>>

\* Mutant: the transaction waits for the logs to be as they were counted.
CommitIfQuiet(p) ==
  /\ pc[p] = "load"
  /\ todo[p] = {}
  /\ heads[p] = CurrentHeads
  /\ stored' = heads[p]
  /\ indexed' = loaded[p]
  /\ EndSync(p)
  /\ UNCHANGED <<log, made, lock, existing, todo, since>>

\* The transaction commits the tables with the signal computed before it.
Commit(p) ==
  /\ pc[p] = "load"
  /\ todo[p] = {}
  /\ stored' = heads[p]
  /\ indexed' = loaded[p]
  /\ EndSync(p)
  /\ UNCHANGED <<log, made, lock, existing, todo, since>>

\* The command is done and its handle is dropped.
CloseIndex(p) ==
  /\ pc[p] = "run"
  /\ lock = p
  /\ DropHandle(p)
  /\ UNCHANGED <<log, made, stored, indexed, pc, existing, todo, heads, loaded>>

\* A killed process loses its lock, its append and its open transaction.
Kill(p) ==
  /\ pc[p] # "run" \/ lock = p
  /\ DropHandle(p)
  /\ existing' = [existing EXCEPT ![p] = <<>>]
  /\ todo' = [todo EXCEPT ![p] = {}]
  /\ EndSync(p)
  /\ UNCHANGED <<log, made, stored, indexed>>

Sync(p) ==
  \/ \E d \in Dir : CountDir(p, d) \/ LoadDir(p, d)
  \/ KeepIndex(p)
  \/ BeginRebuild(p)
  \/ Commit(p)

Next ==
  \E p \in Proc :
    \/ StartAppend(p)
    \/ \E l \in Line : Publish(p, l)
    \/ OpenIndex(p)
    \/ Sync(p)
    \/ CloseIndex(p)
    \/ Kill(p)

Spec == Init /\ [][Next]_vars

\* An open that is not killed runs its loops to their end.
FairSpec == Spec /\ \A p \in Proc : WF_vars(Sync(p))
-----------------------------------------------------------------------------
(* Properties *)

\* The claim of gamma.rs:91-93: an index whose stored signal is the current
\* one holds exactly the lines of the logs, although the signal only counts
\* lines and was computed, one directory after another, before they were read.
IndexMatchesHeads == stored = CurrentHeads => indexed = log

\* A process that has the index open sees every line that any process had
\* published before it began to open it, its own included, and no line that
\* is not in the logs.
FreshSnapshot ==
  \A p \in Proc : lock = p /\ pc[p] \in {"run", "append"} =>
    \A d \in Dir : IsPrefix(since[p][d], indexed[d]) /\ IsPrefix(indexed[d], log[d])

\* SyncInv, below, is how the properties above are kept, step by step, by every
\* process: the counts, the lines read and the index all trail the append-only
\* logs, and what was read trails less than what was counted before it.

\* Only a directory that exists has a log.
LogsMade == \A d \in Dir : d \notin made => log[d] = <<>>

\* An append that has read the log is still the last to have touched it.
AppendsFresh ==
  \A p \in Proc : pc[p] = "append" => Home[p] \in made /\ existing[p] = log[Home[p]]

\* The index trails the logs, and its signal counts no line that it lacks.
IndexBehind ==
  \A d \in Dir :
    /\ IsPrefix(indexed[d], log[d])
    /\ stored # NeverBuilt => stored[d] <= Len(indexed[d])

\* A process that counts or reads holds the write lock of the index, and only
\* reads directories that exist.
SyncLocked ==
  \A p \in Proc :
    /\ pc[p] \in {"count", "load"} => lock = p /\ todo[p] \subseteq made
    /\ lock = p => \A d \in Dir : IsPrefix(since[p][d], log[d])

\* Counting: no count exceeds its log, and each covers what was published
\* before the opening began.
CountBehind ==
  \A p \in Proc : pc[p] = "count" => \A d \in Dir :
    /\ heads[p][d] <= Len(log[d])
    /\ d \notin todo[p] => since[p][d] = <<>> \/ Len(since[p][d]) <= heads[p][d]

\* Reading: what is read covers what was counted, indexed, or published before.
LoadBehind ==
  \A p \in Proc : pc[p] = "load" => \A d \in Dir :
    /\ heads[p][d] <= Len(log[d])
    /\ IsPrefix(loaded[p][d], log[d])
    /\ d \notin todo[p] =>
         /\ heads[p][d] <= Len(loaded[p][d])
         /\ IsPrefix(since[p][d], loaded[p][d])
         /\ IsPrefix(indexed[d], loaded[p][d])

\* The whole of it: the invariant that the proofs are by induction on.
SyncInv ==
  /\ TypeOK /\ LogsMade /\ AppendsFresh /\ IndexBehind
  /\ SyncLocked /\ CountBehind /\ LoadBehind /\ FreshSnapshot

\* A rebuild never takes the index back: what one command has seen, every
\* later command sees.
IndexGrows == [][\A d \in Dir : IsPrefix(indexed[d], indexed'[d])]_vars

\* Opening the index ends even though appends go on meanwhile.
OpenTerminates == \A p \in Proc : pc[p] \in {"count", "load"} ~> pc[p] = "run"
=============================================================================
