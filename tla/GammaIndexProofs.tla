-------------------------- MODULE GammaIndexProofs --------------------------
(***************************************************************************)
(* Proofs about GammaIndex for any number of processes, directories and    *)
(* lines: with one writer per log, an index whose signal is current holds  *)
(* the logs, and whoever opens it sees all that was published before.      *)
(***************************************************************************)
EXTENDS GammaIndex, Prefixes, TLAPS

-----------------------------------------------------------------------------

\* What the proofs below use of IsPrefix, on logs.
LEMMA LogPrefix ==
  /\ \A s \in Seq(Line) : Len(s) \in Nat /\ IsPrefix(s, s) /\ IsPrefix(<<>>, s)
  /\ \A s, t \in Seq(Line) : IsPrefix(s, t) => Len(s) <= Len(t)
  /\ \A s, t \in Seq(Line) : IsPrefix(s, t) /\ Len(t) <= Len(s) => s = t
  /\ \A s \in Seq(Line) : IsPrefix(s, <<>>) => s = <<>>
  /\ \A s, t, u \in Seq(Line) : IsPrefix(s, t) /\ IsPrefix(t, u) => IsPrefix(s, u)
  /\ \A s, t, u \in Seq(Line) :
       IsPrefix(s, u) /\ IsPrefix(t, u) /\ Len(s) <= Len(t) => IsPrefix(s, t)
  /\ \A s \in Seq(Line), l \in Line :
       Append(s, l) \in Seq(Line) /\ IsPrefix(s, Append(s, l))
  /\ <<>> \in Seq(Line) /\ Len(<<>>) = 0
BY PrefixLength, PrefixReflexive, PrefixEmpty, PrefixEqual, PrefixTransitive,
   PrefixComparable, PrefixAppend, LenProperties, EmptySeq

-----------------------------------------------------------------------------
(* Type correctness *)

\* The signals the code computes are signals, never the mark of an index
\* that was not built.
LEMMA SignalType ==
  ASSUME TypeOK
  PROVE  CurrentHeads \in Signal /\ NoHeads \in Signal /\ NoLogs \in Logs
BY LogPrefix DEF TypeOK, CurrentHeads, NoHeads, NoLogs, Signal, Logs, Absent

\* The initial state is well typed.
LEMMA InitType == Init => TypeOK
BY LogPrefix DEF Init, TypeOK, NoHeads, NoLogs, Signal, Logs, Absent

\* Every step keeps the types.
LEMMA StepType == TypeOK /\ [Next]_vars => TypeOK'
<1> SUFFICES ASSUME TypeOK, [Next]_vars  PROVE TypeOK'
  OBVIOUS
<1> USE GammaAssumption
<1>1. ASSUME NEW p \in Proc, StartAppend(p)  PROVE TypeOK'
  BY <1>1 DEF TypeOK, StartAppend, Goto, Logs
<1>2. ASSUME NEW p \in Proc, NEW l \in Line, Publish(p, l)  PROVE TypeOK'
  <2>1. Append(existing[p], l) \in Seq(Line)
    BY LogPrefix DEF TypeOK
  <2> QED
    BY <1>2, <2>1, LogPrefix, SignalType DEF TypeOK, Publish, DropHandle, Goto, Logs
<1>3. ASSUME NEW p \in Proc, OpenIndex(p)  PROVE TypeOK'
  BY <1>3, SignalType DEF TypeOK, OpenIndex, Goto
<1>4. ASSUME NEW p \in Proc, NEW d \in Dir, CountDir(p, d)  PROVE TypeOK'
  <2>1. Len(log[d]) \in Nat
    BY LogPrefix DEF TypeOK, Logs
  <2> QED  BY <1>4, <2>1 DEF TypeOK, CountDir, Signal
<1>5. ASSUME NEW p \in Proc, KeepIndex(p)  PROVE TypeOK'
  BY <1>5, SignalType DEF TypeOK, KeepIndex, EndSync, Goto
<1>6. ASSUME NEW p \in Proc, BeginRebuild(p)  PROVE TypeOK'
  BY <1>6, SignalType DEF TypeOK, BeginRebuild, Goto
<1>7. ASSUME NEW p \in Proc, NEW d \in Dir, LoadDir(p, d)  PROVE TypeOK'
  BY <1>7 DEF TypeOK, LoadDir, Logs
<1>8. ASSUME NEW p \in Proc, Commit(p)  PROVE TypeOK'
  BY <1>8, SignalType DEF TypeOK, Commit, EndSync, Goto
<1>9. ASSUME NEW p \in Proc, CloseIndex(p)  PROVE TypeOK'
  BY <1>9, SignalType DEF TypeOK, CloseIndex, DropHandle
<1>10. ASSUME NEW p \in Proc, Kill(p)  PROVE TypeOK'
  BY <1>10, SignalType, LogPrefix DEF TypeOK, Kill, DropHandle, EndSync, Goto
<1>11. CASE UNCHANGED vars
  BY <1>11 DEF TypeOK, vars
<1> QED
  BY <1>1, <1>2, <1>3, <1>4, <1>5, <1>6, <1>7, <1>8, <1>9, <1>10, <1>11
  DEF Next, Sync

\* Every variable keeps its type, whatever the processes share.
THEOREM TypeCorrect == Spec => []TypeOK
BY InitType, StepType, PTL DEF Spec

-----------------------------------------------------------------------------
(* The index and the logs, one writer per log *)

\* Nothing was counted or read in the initial state.
LEMMA InitSync == Init => SyncInv
<1> SUFFICES ASSUME Init  PROVE SyncInv
  OBVIOUS
<1>1. \A d \in Dir : log[d] = <<>> /\ indexed[d] = <<>>
  BY DEF Init, NoLogs
<1> QED
  BY <1>1, InitType, LogPrefix, GammaAssumption
  DEF Init, SyncInv, LogsMade, AppendsFresh, IndexBehind, SyncLocked,
      CountBehind, LoadBehind, FreshSnapshot

\* An append grows the one log of its process and disturbs no other append;
\* whoever counts or reads meanwhile stays behind.
LEMMA PublishSync ==
  ASSUME OneWriterPerLog, SyncInv, TypeOK', NEW p \in Proc, NEW l \in Line, Publish(p, l)
  PROVE  SyncInv'
<1> USE GammaAssumption
<1>1. TypeOK /\ existing[p] = log[Home[p]] /\ Home[p] \in made /\ Home[p] \in Dir
  BY DEF SyncInv, AppendsFresh, Publish, TypeOK
<1>2. log' = [log EXCEPT ![Home[p]] = Append(log[Home[p]], l)]
  BY <1>1 DEF Publish
<1>3. \A d \in Dir : /\ IsPrefix(log[d], log'[d])
                     /\ log[d] \in Seq(Line) /\ log'[d] \in Seq(Line)
                     /\ d # Home[p] => log'[d] = log[d]
  BY <1>1, <1>2, LogPrefix DEF TypeOK, Logs
<1>4. \A d \in Dir : /\ Len(log[d]) \in Nat /\ Len(log'[d]) \in Nat
                     /\ Len(log[d]) <= Len(log'[d])
                     /\ \A s \in Seq(Line) : IsPrefix(s, log[d]) => IsPrefix(s, log'[d])
  <2> TAKE d \in Dir
  <2> HIDE DEF TypeOK
  <2> QED  BY <1>3, LogPrefix
<1>5. /\ \A q \in Proc : q # p => pc'[q] = pc[q] /\ since'[q] = since[q]
      /\ pc'[p] = "run" /\ lock' # p
      /\ \A q \in Proc : q # p => (lock' = q <=> lock = q)
      /\ \A q \in Proc, d \in Dir : /\ since[q][d] \in Seq(Line) /\ loaded[q][d] \in Seq(Line)
                                    /\ indexed[d] \in Seq(Line) /\ heads[q][d] \in Int
      /\ UNCHANGED <<made, stored, indexed, todo, heads, loaded>>
  BY <1>1 DEF Publish, DropHandle, Goto, TypeOK, Logs, Signal, Absent
<1>6. LogsMade'
  BY <1>1, <1>3, <1>5 DEF SyncInv, LogsMade
<1>7. AppendsFresh'
  BY <1>1, <1>3 DEF SyncInv, AppendsFresh, Publish, Goto, OneWriterPerLog, TypeOK
<1>8. IndexBehind'
  BY <1>4, <1>5 DEF SyncInv, IndexBehind
<1>9. SyncLocked'
  BY <1>4, <1>5 DEF SyncInv, SyncLocked
<1>10. CountBehind'
  BY <1>4, <1>5 DEF SyncInv, CountBehind
<1>11. LoadBehind'
  BY <1>4, <1>5 DEF SyncInv, LoadBehind
<1>12. FreshSnapshot'
  BY <1>4, <1>5 DEF SyncInv, FreshSnapshot
<1> QED  BY <1>6, <1>7, <1>8, <1>9, <1>10, <1>11, <1>12 DEF SyncInv

\* The types the remaining lemmas use, one element at a time.
LEMMA Elements ==
  ASSUME TypeOK
  PROVE  /\ \A d \in Dir : /\ log[d] \in Seq(Line) /\ Len(log[d]) \in Nat
                           /\ indexed[d] \in Seq(Line) /\ Len(indexed[d]) \in Nat
         /\ \A q \in Proc, d \in Dir :
              /\ since[q][d] \in Seq(Line) /\ Len(since[q][d]) \in Nat
              /\ loaded[q][d] \in Seq(Line) /\ Len(loaded[q][d]) \in Nat
              /\ heads[q][d] \in Nat \cup {Absent}
         /\ stored # NeverBuilt => \A d \in Dir : stored[d] \in Nat \cup {Absent}
BY LogPrefix DEF TypeOK, Logs, Signal

\* Reading the log changes nothing the index depends on.
LEMMA StartAppendSync ==
  ASSUME SyncInv, NEW p \in Proc, StartAppend(p)
  PROVE  SyncInv'
<1> USE GammaAssumption DEF SyncInv, StartAppend, Goto
<1>1. TypeOK /\ TypeOK'
  BY StepType DEF Next
<1>2. LogsMade'
  BY DEF LogsMade
<1>3. AppendsFresh'
  BY <1>1 DEF AppendsFresh, TypeOK
<1>4. IndexBehind'
  BY DEF IndexBehind
<1>5. SyncLocked'
  BY <1>1 DEF SyncLocked, TypeOK
<1>6. CountBehind' /\ LoadBehind'
  BY <1>1 DEF CountBehind, LoadBehind, TypeOK
<1>7. FreshSnapshot'
  BY <1>1 DEF FreshSnapshot, TypeOK
<1> QED  BY <1>1, <1>2, <1>3, <1>4, <1>5, <1>6, <1>7

\* The lock was free, so nobody else is syncing; p has counted nothing yet.
LEMMA OpenSync ==
  ASSUME SyncInv, NEW p \in Proc, OpenIndex(p)
  PROVE  SyncInv'
<1> USE GammaAssumption DEF SyncInv, OpenIndex, Goto
<1>1. TypeOK /\ TypeOK'
  BY StepType DEF Next
<1>2. /\ \A q \in Proc : q # p => pc'[q] = pc[q] /\ pc[q] \notin {"count", "load"}
      /\ pc'[p] = "count" /\ since'[p] = log /\ todo'[p] = made
      /\ \A d \in Dir : heads'[p][d] = Absent
  BY <1>1 DEF SyncLocked, TypeOK, NoHeads
<1>3. LogsMade' /\ IndexBehind'
  BY DEF LogsMade, IndexBehind
<1>4. AppendsFresh'
  BY <1>1 DEF AppendsFresh, TypeOK
<1>5. SyncLocked'
  BY <1>1, <1>2, LogPrefix, Elements DEF SyncLocked
<1>6. CountBehind'
  BY <1>1, <1>2, Elements DEF CountBehind, LogsMade, Absent
<1>7. LoadBehind' /\ FreshSnapshot'
  BY <1>1, <1>2 DEF LoadBehind, FreshSnapshot
<1> QED  BY <1>1, <1>3, <1>4, <1>5, <1>6, <1>7

\* What is counted covers what was there when the opening began.
LEMMA CountSync ==
  ASSUME SyncInv, NEW p \in Proc, NEW d \in Dir, CountDir(p, d)
  PROVE  SyncInv'
<1> USE GammaAssumption DEF SyncInv, CountDir
<1>1. TypeOK /\ TypeOK'
  BY StepType DEF Next, Sync
<1>2. LogsMade' /\ IndexBehind' /\ AppendsFresh' /\ FreshSnapshot'
  BY DEF LogsMade, IndexBehind, AppendsFresh, FreshSnapshot
<1>3. SyncLocked'
  BY <1>1 DEF SyncLocked, TypeOK
<1>4. Len(since[p][d]) <= Len(log[d])
  BY <1>1, LogPrefix, Elements DEF SyncLocked
<1>5. CountBehind'
  BY <1>1, <1>4, Elements DEF CountBehind, TypeOK, Signal
<1>6. LoadBehind'
  BY <1>1 DEF LoadBehind, TypeOK
<1> QED  BY <1>1, <1>2, <1>3, <1>5, <1>6

\* Equal signals: the index is as long as what was counted, hence no shorter
\* than what was there, and both are prefixes of the logs.
LEMMA KeepSync ==
  ASSUME SyncInv, NEW p \in Proc, KeepIndex(p)
  PROVE  SyncInv'
<1> USE GammaAssumption DEF SyncInv, KeepIndex, EndSync, Goto
<1>1. TypeOK /\ TypeOK' /\ lock = p
  BY StepType DEF Next, Sync, SyncLocked
<1>2. LogsMade' /\ IndexBehind'
  BY DEF LogsMade, IndexBehind
<1>3. AppendsFresh' /\ SyncLocked' /\ CountBehind' /\ LoadBehind'
  BY <1>1 DEF AppendsFresh, SyncLocked, CountBehind, LoadBehind, TypeOK
<1>4. stored # NeverBuilt
  BY <1>1 DEF TypeOK, Signal, Absent
<1>5. ASSUME NEW d \in Dir  PROVE IsPrefix(since[p][d], indexed[d])
  <2>1. IsPrefix(since[p][d], log[d]) /\ IsPrefix(indexed[d], log[d])
    BY <1>1 DEF SyncLocked, IndexBehind
  <2>2. /\ since[p][d] = <<>> \/ Len(since[p][d]) <= heads[p][d]
        /\ heads[p][d] <= Len(indexed[d])
    BY <1>4 DEF CountBehind, IndexBehind
  <2>3. /\ Len(since[p][d]) \in Nat /\ Len(indexed[d]) \in Nat
        /\ heads[p][d] \in Int
    BY <1>1, Elements DEF Absent
  <2>4. since[p][d] = <<>> \/ Len(since[p][d]) <= Len(indexed[d])
    BY <2>2, <2>3
  <2> QED  BY <1>1, <2>1, <2>4, Elements, LogPrefix
<1>6. FreshSnapshot'
  BY <1>1, <1>5 DEF FreshSnapshot, IndexBehind, TypeOK
<1> QED  BY <1>1, <1>2, <1>3, <1>6

\* Directories missing from the second listing are still empty.
LEMMA BeginRebuildSync ==
  ASSUME SyncInv, NEW p \in Proc, BeginRebuild(p)
  PROVE  SyncInv'
<1> USE GammaAssumption DEF SyncInv, BeginRebuild, Goto
<1>1. TypeOK /\ TypeOK' /\ lock = p
  BY StepType DEF Next, Sync, SyncLocked
<1>2. LogsMade' /\ IndexBehind'
  BY DEF LogsMade, IndexBehind
<1>3. AppendsFresh' /\ SyncLocked' /\ CountBehind' /\ FreshSnapshot'
  BY <1>1 DEF AppendsFresh, SyncLocked, CountBehind, FreshSnapshot, TypeOK
<1>4. ASSUME NEW d \in Dir
      PROVE  /\ heads[p][d] <= Len(log[d])
             /\ IsPrefix(<<>>, log[d])
             /\ d \notin made => /\ heads[p][d] <= Len(<<>>)
                                 /\ IsPrefix(since[p][d], <<>>)
                                 /\ IsPrefix(indexed[d], <<>>)
  BY <1>1, Elements, LogPrefix DEF CountBehind, LogsMade, SyncLocked, IndexBehind
<1>5. LoadBehind'
  <2>1. /\ \A q \in Proc : q # p => pc'[q] = pc[q] /\ loaded'[q] = loaded[q] /\ todo'[q] = todo[q]
        /\ todo'[p] = made /\ \A d \in Dir : loaded'[p][d] = <<>>
    BY <1>1 DEF TypeOK, NoLogs
  <2> QED  BY <1>4, <2>1 DEF LoadBehind
<1> QED  BY <1>1, <1>2, <1>3, <1>5

\* A log is read after it was counted and after the index was built.
LEMMA LoadSync ==
  ASSUME SyncInv, NEW p \in Proc, NEW d \in Dir, LoadDir(p, d)
  PROVE  SyncInv'
<1> USE GammaAssumption DEF SyncInv, LoadDir
<1>1. TypeOK /\ TypeOK' /\ lock = p
  BY StepType DEF Next, Sync, SyncLocked
<1>2. LogsMade' /\ IndexBehind' /\ AppendsFresh' /\ FreshSnapshot'
  BY DEF LogsMade, IndexBehind, AppendsFresh, FreshSnapshot
<1>3. SyncLocked' /\ CountBehind'
  BY <1>1 DEF SyncLocked, CountBehind, TypeOK
<1>4. /\ IsPrefix(since[p][d], log[d]) /\ IsPrefix(indexed[d], log[d])
      /\ IsPrefix(log[d], log[d])
  BY <1>1, LogPrefix, Elements DEF SyncLocked, IndexBehind
<1>5. LoadBehind'
  BY <1>1, <1>4 DEF LoadBehind, TypeOK, Logs
<1> QED  BY <1>1, <1>2, <1>3, <1>5

\* The transaction replaces the index by one that reaches further.
LEMMA CommitSync ==
  ASSUME SyncInv, NEW p \in Proc, Commit(p)
  PROVE  /\ SyncInv'
         /\ \A d \in Dir : IsPrefix(indexed[d], indexed'[d])
<1> USE GammaAssumption DEF SyncInv, Commit, EndSync, Goto
<1>1. TypeOK /\ TypeOK' /\ lock = p
  BY StepType DEF Next, Sync, SyncLocked
<1>2. \A d \in Dir : /\ IsPrefix(loaded[p][d], log[d])
                     /\ heads[p][d] <= Len(loaded[p][d])
                     /\ IsPrefix(since[p][d], loaded[p][d])
                     /\ IsPrefix(indexed[d], loaded[p][d])
  BY DEF LoadBehind
<1>3. LogsMade' /\ IndexBehind'
  BY <1>2 DEF LogsMade, IndexBehind
<1>4. \A q \in Proc : q # p => lock # q /\ pc[q] \notin {"count", "load"}
  BY <1>1 DEF SyncLocked
<1>5. AppendsFresh' /\ SyncLocked' /\ CountBehind' /\ LoadBehind'
  BY <1>1, <1>4 DEF AppendsFresh, SyncLocked, CountBehind, LoadBehind, TypeOK
<1>6. FreshSnapshot'
  BY <1>1, <1>2, <1>4 DEF FreshSnapshot
<1> QED  BY <1>1, <1>2, <1>3, <1>5, <1>6

\* Giving up the handle, in order or not, leaves the stored index as it was.
LEMMA DropSync ==
  ASSUME SyncInv, NEW p \in Proc, CloseIndex(p) \/ Kill(p)
  PROVE  SyncInv'
<1> USE GammaAssumption DEF SyncInv
<1>1. TypeOK /\ TypeOK'
  BY StepType DEF Next
<1>2. /\ UNCHANGED <<log, made, stored, indexed>>
      /\ lock' # p
      /\ pc'[p] = "run"
      /\ \A q \in Proc : q # p =>
           /\ pc'[q] = pc[q] /\ existing'[q] = existing[q] /\ todo'[q] = todo[q]
           /\ heads'[q] = heads[q] /\ loaded'[q] = loaded[q] /\ since'[q] = since[q]
           /\ lock' = q <=> lock = q
  <2>1. CASE CloseIndex(p)
    BY <1>1, <2>1 DEF CloseIndex, DropHandle, TypeOK
  <2>2. CASE Kill(p)
    BY <1>1, <2>2 DEF Kill, DropHandle, EndSync, Goto, TypeOK
  <2> QED  BY <2>1, <2>2
<1>3. LogsMade' /\ IndexBehind' /\ AppendsFresh' /\ SyncLocked'
  BY <1>2 DEF LogsMade, IndexBehind, AppendsFresh, SyncLocked
<1>4. CountBehind' /\ LoadBehind' /\ FreshSnapshot'
  BY <1>2 DEF CountBehind, LoadBehind, FreshSnapshot
<1> QED  BY <1>1, <1>3, <1>4

\* Every step keeps the invariant: one lemma above for each action.
LEMMA StepSync == OneWriterPerLog /\ SyncInv /\ [Next]_vars => SyncInv'
<1> SUFFICES ASSUME OneWriterPerLog, SyncInv, [Next]_vars  PROVE SyncInv'
  OBVIOUS
<1>1. TypeOK'
  BY StepType DEF SyncInv
<1>2. CASE UNCHANGED vars
  BY <1>2 DEF SyncInv, TypeOK, LogsMade, AppendsFresh, IndexBehind, SyncLocked,
              CountBehind, LoadBehind, FreshSnapshot, vars
<1> QED
  BY <1>1, <1>2, PublishSync, StartAppendSync, OpenSync, CountSync, KeepSync,
     BeginRebuildSync, LoadSync, CommitSync, DropSync
  DEF Next, Sync

\* With one writer per log, counts, reads and the index always trail the
\* logs: the inductive invariant of Gamma::sync.
THEOREM SyncInvariant ==
  ASSUME OneWriterPerLog
  PROVE  Spec => []SyncInv
BY InitSync, StepSync, PTL DEF Spec

\* With one writer per log, an index whose stored line counts are the current
\* ones holds exactly the lines of the logs: counting lines is enough of a
\* staleness check (gamma.rs:91-93).
THEOREM HeadsSuffice ==
  ASSUME OneWriterPerLog
  PROVE  Spec => []IndexMatchesHeads
<1>1. SyncInv => IndexMatchesHeads
  <2> SUFFICES ASSUME SyncInv, stored = CurrentHeads  PROVE indexed = log
    BY DEF IndexMatchesHeads
  <2>1. TypeOK /\ stored # NeverBuilt
    BY SignalType, GammaAssumption DEF SyncInv, Signal, Absent
  <2>2. ASSUME NEW d \in Dir  PROVE indexed[d] = log[d]
    <3>1. IsPrefix(indexed[d], log[d]) /\ stored[d] <= Len(indexed[d])
      BY <2>1 DEF SyncInv, IndexBehind
    <3>2. CASE d \in made
      BY <2>1, <3>1, <3>2, Elements, LogPrefix DEF CurrentHeads
    <3>3. CASE d \notin made
      BY <2>1, <3>1, <3>3, Elements, LogPrefix DEF SyncInv, LogsMade
    <3> QED  BY <3>2, <3>3
  <2> QED  BY <2>1, <2>2 DEF TypeOK, Logs
<1> QED  BY <1>1, SyncInvariant, PTL

\* With one writer per log, whoever has the index open sees every line that
\* was published before it opened it.
THEOREM SnapshotsFresh ==
  ASSUME OneWriterPerLog
  PROVE  Spec => []FreshSnapshot
<1>1. SyncInv => FreshSnapshot
  BY DEF SyncInv
<1> QED  BY <1>1, SyncInvariant, PTL

\* With one writer per log, no step takes the index back.
THEOREM IndexNeverShrinks ==
  ASSUME OneWriterPerLog
  PROVE  Spec => IndexGrows
<1>1. SyncInv /\ [Next]_vars => [\A d \in Dir : IsPrefix(indexed[d], indexed'[d])]_vars
  <2> SUFFICES ASSUME SyncInv, Next  PROVE \A d \in Dir : IsPrefix(indexed[d], indexed'[d])
    OBVIOUS
  <2>1. CASE \E p \in Proc : Commit(p)
    BY <2>1, CommitSync
  <2>2. ASSUME indexed' = indexed  PROVE \A d \in Dir : IsPrefix(indexed[d], indexed'[d])
    BY <2>2, Elements, LogPrefix DEF SyncInv
  <2>3. indexed' = indexed \/ \E p \in Proc : Commit(p)
    BY DEF Next, Sync, StartAppend, Publish, OpenIndex, CountDir, KeepIndex,
           BeginRebuild, LoadDir, CloseIndex, Kill
  <2> QED  BY <2>1, <2>2, <2>3
<1> QED  BY <1>1, SyncInvariant, PTL DEF Spec, IndexGrows
=============================================================================
