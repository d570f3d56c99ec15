------------------------------ MODULE CliProofs ------------------------------
(***************************************************************************)
(* Proofs about Cli for any processes, invocations, manifests and foreign  *)
(* documents.  First what the rejection layer and the gates let through;   *)
(* then the documents: the wire form and the way back, what commands and   *)
(* imports write, revisions, readers, shapes.                              *)
(***************************************************************************)
EXTENDS Cli, SequenceTheorems, TLAPS

-----------------------------------------------------------------------------
(* The inductive invariant *)

Types ==
  /\ sticky \in Ref \cup {NoRef}
  /\ pc \in [Process -> Busy \cup Ended]
  /\ cmd \in [Process -> Invocation]
  /\ under \in [Process -> Ref \cup {NoRef}]
  /\ seen \in [Process -> SUBSET (Ref \cup {NoRef})]
  /\ granted \in [Process -> BOOLEAN]

\* The log is a sequence, of whatever documents.
LogIsSeq == \E S : log \in Seq(S)

UseKey == <<"surface", "use">>

\* A process resolves a reference that has been in force since it began.
Resolving(p) == pc[p] = "resolve" => under[p] \in seen[p]

\* A filtered command is past the layer only if a reference in force permits it.
Passed(p) == pc[p] \in {"gates", "run", "write"} /\ Filtered(cmd[p].key) => granted[p]

\* A switch of the surface is never filtered, and does not fail over a builtin.
Switches(p) ==
  cmd[p].key = UseKey =>
    /\ pc[p] \notin {"layer", "resolve", "rejected"}
    /\ cmd[p].arg \in Builtin => pc[p] # "failed"

\* Only a switch of the surface writes the setting.
Setting(p) == pc[p] = "write" => cmd[p].key = UseKey

\* The session gate has let the command through, or does not apply to it.
Gated(p) ==
  pc[p] = "run" =>
    StoreFree(cmd[p].key) \/ NoAttribution(cmd[p].key) \/ SessionGiven(cmd[p])

IInv ==
  /\ Types /\ LogIsSeq
  /\ \A p \in Process : Resolving(p) /\ Passed(p) /\ Switches(p) /\ Setting(p) /\ Gated(p)

-----------------------------------------------------------------------------
(* Who is at work, and what it has observed *)

\* What Observe makes of one process.
LEMMA Observed ==
  ASSUME Types, Observe, NEW p \in Process
  PROVE  LET now == ActiveRef(cmd[p].override, cmd[p].env)'
             refs == (IF pc[p] \in Ended THEN {} ELSE seen[p]) \cup {now}
         IN  /\ seen'[p] = IF pc'[p] \in Busy THEN refs ELSE {}
             /\ granted'[p] <=> /\ pc'[p] \in Busy
                                /\ \/ pc[p] \in Busy /\ granted[p]
                                   \/ \E r \in refs : Permits(r, cmd[p].key)'
BY DEF Observe

\* What a process observes keeps the types.
LEMMA ObserveTypes ==
  ASSUME Types, Observe,
         sticky' \in Ref \cup {NoRef}, pc' \in [Process -> Busy \cup Ended],
         cmd' \in [Process -> Invocation], under' \in [Process -> Ref \cup {NoRef}]
  PROVE  Types'
<1>1. ASSUME NEW p \in Process
      PROVE  ActiveRef(cmd[p].override, cmd[p].env)' \in Ref \cup {NoRef}
  <2>1. cmd'[p] \in Invocation
    OBVIOUS
  <2> QED  BY <2>1, CliAssumption DEF ActiveRef
<1>2. seen' \in [Process -> SUBSET (Ref \cup {NoRef})]
  BY <1>1 DEF Observe, Types
<1>3. granted' \in [Process -> BOOLEAN]
  BY DEF Observe
<1> QED  BY <1>2, <1>3 DEF Types

LEMMA ActiveIsRef ==
  ASSUME Types, NEW p \in Process
  PROVE  ActiveRef(cmd[p].override, cmd[p].env) \in Ref \cup {NoRef}
<1>1. cmd[p] \in Invocation
  BY DEF Types
<1> QED  BY <1>1, CliAssumption DEF ActiveRef, Types

\* Whatever is appended, the log stays a sequence.
LEMMA AppendIsSeq ==
  ASSUME LogIsSeq, NEW e
  PROVE  /\ \E S : Append(log, e) \in Seq(S)
         /\ Append(log, e)[Len(Append(log, e))] = e
<1>1. PICK S : log \in Seq(S)
  BY DEF LogIsSeq
<1>2. log \in Seq(S \cup {e})
  BY <1>1, SeqMonotonic
<1>3. e \in S \cup {e}
  OBVIOUS
<1>4. /\ Append(log, e) \in Seq(S \cup {e})
      /\ Len(Append(log, e)) = Len(log) + 1
      /\ Append(log, e)[Len(log) + 1] = e
  BY Zenon, <1>2, <1>3, AppendProperties
<1> QED  BY Zenon, <1>4

-----------------------------------------------------------------------------
(* One step *)

\* What the other processes see of a step of p: nothing.
Alone(p) ==
  \A q \in Process \ {p} : pc'[q] = pc[q] /\ cmd'[q] = cmd[q] /\ under'[q] = under[q]

\* A step moves one process at most, and the others stay where they are.
LEMMA StepIsAlone ==
  ASSUME Types, NEW p \in Process, Step(p)
  PROVE  Alone(p)
<1> USE DEF Types, Alone, Goto
<1>1. ASSUME NEW c \in Invocation, Begin(p, c)  PROVE Alone(p)
  BY <1>1 DEF Begin
<1>2. ASSUME ReadReference(p)  PROVE Alone(p)
  BY <1>2 DEF ReadReference
<1>3. CASE ResolveManifest(p)
  BY <1>3 DEF ResolveManifest
<1>4. CASE PassGates(p)
  BY <1>4 DEF PassGates
<1>5. CASE UseSurface(p)
  BY <1>5 DEF UseSurface
<1>6. CASE WriteSurface(p)
  BY <1>6 DEF WriteSurface
<1>7. ASSUME NEW type, NEW props, NEW sup, NEW by, Write(p, type, props, sup, by)
      PROVE  Alone(p)
  BY <1>7 DEF Write
<1>8. CASE RunAdd(p)
  BY <1>7, <1>8 DEF RunAdd
<1>9. CASE RunPhaseSet(p)
  BY <1>7, <1>9 DEF RunPhaseSet
<1>10. CASE RunRevise(p)
  BY <1>7, <1>10 DEF RunRevise
<1>11. CASE RunImport(p)
  BY <1>11 DEF RunImport
<1>12. CASE RunRead(p)
  BY <1>12 DEF RunRead
<1>13. CASE Kill(p)
  BY <1>13 DEF Kill
<1> QED
  BY <1>1, <1>2, <1>3, <1>4, <1>5, <1>6, <1>8, <1>9, <1>10, <1>11, <1>12, <1>13 DEF Step

\* What a write does to its process.
LEMMA Wrote ==
  ASSUME Types, LogIsSeq, NEW p \in Process,
         NEW type, NEW props, NEW sup, NEW by, Write(p, type, props, sup, by)
  PROVE  /\ UNCHANGED <<sticky, files, cmd, under>>
         /\ Goto(p, "ok") \/ Goto(p, "failed")
         /\ LogIsSeq'
         /\ log' # log => log'[Len(log')].by = by
<1>1. CASE Valid(type, props)
  <2> DEFINE e == [type |-> type, sup |-> sup, by |-> by, doc |-> Wire(props, sup)]
  <2>1. log' = Append(log, e)
    BY <1>1 DEF Write, AppendClaim
  <2>2. e.by = by
    OBVIOUS
  <2> HIDE DEF e
  <2>3. (\E S : log' \in Seq(S)) /\ log'[Len(log')] = e
    BY Zenon, <2>1, AppendIsSeq
  <2> QED  BY Zenon, <1>1, <2>2, <2>3 DEF Write, LogIsSeq
<1>2. CASE ~Valid(type, props)
  BY Zenon, <1>2 DEF Write, LogIsSeq
<1> QED  BY <1>1, <1>2

\* A handler ends, and changes neither surface nor command.
Handled(p) ==
  /\ pc[p] = "run" /\ cmd[p].key # UseKey
  /\ UNCHANGED <<sticky, files, cmd, under>>
  /\ Goto(p, "ok") \/ Goto(p, "failed")

\* No command that appends is free of the gates.
LEMMA AppendsAreGated ==
  ASSUME NEW key,
         \/ key \in Adds
         \/ \E type : key \in Revises(type)
         \/ key = <<"import">>
  PROVE  key # UseKey /\ ~StoreFree(key) /\ ~NoAttribution(key)
<1>1. CASE key \in Adds
  BY <1>1 DEF Adds, UseKey, StoreFree, NoAttribution, Keyless
<1>2. CASE \E type : key \in Revises(type)
  <2>1. \/ key \in {"task"} \X {"claim", "done", "block", "wait", "cancel", "reset",
                                "update", "acceptance"}
        \/ key \in {<<"spec", "update">>, <<"tree", "close">>, <<"session", "close">>}
    BY <1>2 DEF Revises
  <2> QED  BY <2>1 DEF UseKey, StoreFree, NoAttribution, Keyless
<1>3. CASE key = <<"import">>
  BY <1>3 DEF UseKey, StoreFree, NoAttribution, Keyless
<1> QED  BY <1>1, <1>2, <1>3

\* A claim is appended by a handler that is given its session, but for sessions
\* and imports.
LEMMA Attributes ==
  ASSUME IInv, NEW p \in Process,
         RunAdd(p) \/ RunPhaseSet(p) \/ RunRevise(p) \/ RunImport(p)
  PROVE  /\ Handled(p) /\ LogIsSeq'
         /\ log' # log /\ cmd[p].key[1] \notin {"session", "import"} /\ cmd[p].session # ""
              => log'[Len(log')].by = cmd[p].session
<1> DEFINE c == cmd[p]
<1>1. c \in Invocation /\ Types /\ LogIsSeq
  BY DEF IInv, Types
<1>2. pc[p] = "run"
  BY DEF RunAdd, RunPhaseSet, RunRevise, RunImport
<1>3. c.key # UseKey /\ ~StoreFree(c.key) /\ ~NoAttribution(c.key)
  <2>1. \/ c.key \in Adds
        \/ \E type : c.key \in Revises(type)
        \/ c.key = <<"import">>
    BY DEF RunAdd, RunPhaseSet, RunRevise, RunImport, Adds
  <2> HIDE DEF c
  <2> QED  BY Zenon, <2>1, AppendsAreGated
<1>4. SessionGiven(c)
  BY <1>2, <1>3 DEF IInv, Gated
<1>5. ASSUME c.key[1] \notin {"session", "import", "phase"} \/ c.session \in Free,
             c.key[1] \notin {"session", "import"}, c.session # ""
      PROVE  Asserter(c.session) = c.session
  <2>1. c.session \in Free \cup {"", NoSession}
    BY <1>1, CliAssumption
  <2> QED  BY <1>4, <1>5, <2>1 DEF SessionGiven, Asserter
<1>6. CASE RunAdd(p)
  <2>1. c.key \in Adds \ {<<"phase", "set">>}
    BY <1>6 DEF RunAdd
  <2>2. c.key[1] # "phase"
    BY <2>1 DEF Adds
  <2>3. PICK props \in Added(c.key, c.session, TextArg) :
           Write(p, c.key[1], props, 0,
                 IF c.key[1] = "session" THEN props.id ELSE Asserter(c.session))
    BY <1>6 DEF RunAdd
  <2> QED  BY <1>1, <1>2, <1>3, <1>5, <2>2, <2>3, Wrote DEF Handled
<1>7. CASE RunPhaseSet(p)
  <2>1. c.session \in Free
    BY <1>7 DEF RunPhaseSet
  <2>2. \E props, n : Write(p, "phase", props, n, Asserter(c.session))
    BY <1>7 DEF RunPhaseSet
  <2> QED  BY <1>1, <1>2, <1>3, <1>5, <2>1, <2>2, Wrote DEF Handled
<1>8. CASE RunRevise(p)
  <2>1. PICK type : c.key \in Revises(type)
    BY <1>8 DEF RunRevise
  <2>2. c.key[1] # "phase"
    BY <2>1 DEF Revises
  <2>3. \E t, props, n : Write(p, t, props, n, Asserter(c.session))
    BY <1>8 DEF RunRevise
  <2> QED  BY <1>1, <1>2, <1>3, <1>5, <2>2, <2>3, Wrote DEF Handled
<1>9. CASE RunImport(p)
  <2>1. c.key[1] = "import"
    BY <1>9 DEF RunImport
  <2>2. PICK e : log' = Append(log, e)
    BY <1>9 DEF RunImport, AppendClaim
  <2>3. \E S : log' \in Seq(S)
    BY Zenon, <1>1, <2>2, AppendIsSeq
  <2> QED  BY <1>2, <1>3, <1>9, <2>1, <2>3 DEF RunImport, Handled, LogIsSeq
<1> QED  BY <1>6, <1>7, <1>8, <1>9

\* Where a step leaves its process, and what it has passed to get there.
Kept(p) == Resolving(p) /\ Passed(p) /\ Switches(p) /\ Setting(p) /\ Gated(p)

\* A process that stays where it is has seen what it had seen.
LEMMA StayingKeeps ==
  ASSUME IInv, Observe, NEW q \in Process,
         pc'[q] = pc[q], cmd'[q] = cmd[q], under'[q] = under[q]
  PROVE  Kept(q)'
<1>1. Types
  BY DEF IInv
<1>2. Kept(q)
  BY DEF IInv, Kept
<1>3. Resolving(q)'
  BY <1>1, <1>2, Observed DEF Kept, Resolving, Busy, Ended
<1>4. Passed(q)'
  BY <1>1, <1>2, Observed DEF Kept, Passed, Busy
<1>5. Switches(q)' /\ Setting(q)' /\ Gated(q)'
  BY <1>2 DEF Kept, Switches, Setting, Gated, SessionGiven, StoreFree, NoAttribution
<1> QED  BY <1>3, <1>4, <1>5 DEF Kept

LEMMA UseKeyIsFree ==
  /\ ~Filtered(UseKey) /\ StoreFree(UseKey)
  /\ \A r \in Builtin : Resolve(r) # Broken
<1>1. ~Filtered(UseKey) /\ StoreFree(UseKey)
  BY DEF UseKey, Filtered, AlwaysAllowed, StoreFree
<1>2. ASSUME NEW r \in Builtin  PROVE Resolve(r) # Broken
  <2>1. \E i, e, a : Resolve(r) = [include |-> i, exclude |-> e, add |-> a]
    BY DEF Builtin, Resolve, BuiltinManifest, BaselineV25, CompositeCommands,
           OverlayFirstClass, SparqlExposed, Pruned, Including
  <2> QED  BY <2>1 DEF Broken
<1> QED  BY <1>1, <1>2

\* A process that begins has passed nothing yet.
LEMMA BeginKeeps ==
  ASSUME IInv, Observe, NEW p \in Process, NEW c \in Invocation, Begin(p, c)
  PROVE  Types' /\ LogIsSeq' /\ Kept(p)'
<1>1. Types /\ LogIsSeq
  BY DEF IInv
<1>2. /\ pc'[p] = IF Filtered(c.key) THEN "layer" ELSE "gates"
      /\ cmd'[p] = c
  BY <1>1 DEF Begin, Goto, Types
<1>3. Types'
  BY <1>1, ObserveTypes DEF Begin, Goto, Types, Busy
<1>4. LogIsSeq'
  BY <1>1 DEF Begin, LogIsSeq
<1>5. c.key = UseKey => ~Filtered(c.key)
  BY UseKeyIsFree
<1>6. Resolving(p)' /\ Passed(p)' /\ Switches(p)' /\ Setting(p)' /\ Gated(p)'
  BY <1>2, <1>5 DEF Resolving, Passed, Switches, Setting, Gated
<1> QED  BY <1>3, <1>4, <1>6 DEF Kept

\* The reference that a process reads is in force when it does.
LEMMA ReadKeeps ==
  ASSUME IInv, Observe, NEW p \in Process, ReadReference(p)
  PROVE  Types' /\ LogIsSeq' /\ Kept(p)'
<1> DEFINE r == ActiveRef(cmd[p].override, cmd[p].env)
<1>1. Types /\ LogIsSeq /\ Kept(p)
  BY DEF IInv, Kept
<1>2. /\ pc[p] = "layer" /\ under'[p] = r
      /\ pc'[p] = IF r = NoRef THEN "gates" ELSE "resolve"
      /\ cmd' = cmd /\ sticky' = sticky /\ log' = log
  BY <1>1 DEF ReadReference, Goto, Types
<1>3. r \in Ref \cup {NoRef}
  BY <1>1, ActiveIsRef
<1>4. Types'
  BY <1>1, <1>3, ObserveTypes DEF ReadReference, Goto, Types, Busy
<1>5. ActiveRef(cmd[p].override, cmd[p].env)' = r
  BY <1>2 DEF ActiveRef
<1> HIDE DEF r
<1>6. pc'[p] \in Busy
  BY <1>2 DEF Busy
<1>7. r \in seen'[p]
  BY <1>1, <1>5, <1>6, Observed
<1>8. r = NoRef => granted'[p]
  BY <1>1, <1>5, <1>6, Observed DEF Permits
<1>9. Resolving(p)' /\ Passed(p)' /\ Setting(p)' /\ Gated(p)'
  BY <1>2, <1>7, <1>8 DEF Resolving, Passed, Setting, Gated
<1>10. Switches(p)'
  BY <1>1, <1>2 DEF Kept, Switches
<1> QED  BY <1>2, <1>1, <1>4, <1>9, <1>10 DEF Kept, LogIsSeq

\* A command that the resolved manifest lets through was permitted by it.
LEMMA ResolveKeeps ==
  ASSUME IInv, Observe, NEW p \in Process, ResolveManifest(p)
  PROVE  Types' /\ LogIsSeq' /\ Kept(p)'
<1> DEFINE m == Resolve(under[p])
           at == IF m = Broken THEN "failed"
                 ELSE IF Permitted(cmd[p].key, m) THEN "gates" ELSE "rejected"
<1>1. Types /\ LogIsSeq /\ Kept(p)
  BY DEF IInv, Kept
<1>2. /\ pc[p] = "resolve" /\ pc'[p] = at
      /\ cmd' = cmd /\ files' = files /\ log' = log
  BY <1>1 DEF ResolveManifest, Goto, Types
<1>3. Types'
  BY <1>1, ObserveTypes DEF ResolveManifest, Goto, Types, Busy, Ended
<1>4. under[p] \in seen[p]
  BY <1>1, <1>2 DEF Kept, Resolving
<1>5. m' = m
  BY <1>2 DEF Resolve, ResolveManifest
<1>6. pc'[p] = "gates" => Permits(under[p], cmd[p].key)'
  <2>1. Resolve(under[p])' = m /\ under'[p] = under[p]
    BY <1>5 DEF ResolveManifest
  <2> QED  BY <1>2, <2>1 DEF Permits
<1>7. pc'[p] = "gates" => granted'[p]
  BY <1>1, <1>2, <1>4, <1>6, Observed DEF Busy, Ended, ResolveManifest
<1>8. Resolving(p)' /\ Passed(p)' /\ Setting(p)' /\ Gated(p)'
  BY <1>2, <1>7 DEF Resolving, Passed, Setting, Gated
<1>9. Switches(p)'
  BY <1>1, <1>2 DEF Kept, Switches
<1> QED  BY <1>2, <1>1, <1>3, <1>8, <1>9 DEF Kept, LogIsSeq

\* The session gate lets a command through only with its session; a switch of
\* the surface passes.
LEMMA GatesKeep ==
  ASSUME IInv, Observe, NEW p \in Process, PassGates(p)
  PROVE  Types' /\ LogIsSeq' /\ Kept(p)'
<1> DEFINE free == StoreFree(cmd[p].key) \/ NoAttribution(cmd[p].key)
<1>1. Types /\ LogIsSeq /\ Kept(p)
  BY DEF IInv, Kept
<1>2. /\ pc[p] = "gates" /\ pc'[p] \in {"run", "failed"}
      /\ pc'[p] = "run" => free \/ SessionGiven(cmd[p])
      /\ free => pc'[p] = "run"
      /\ cmd' = cmd /\ log' = log
  BY <1>1 DEF PassGates, Goto, Types
<1>3. Types'
  BY <1>1, ObserveTypes DEF PassGates, Goto, Types, Busy, Ended
<1>4. Filtered(cmd[p].key) => granted[p]
  BY <1>1, <1>2 DEF Kept, Passed
<1>5. pc'[p] = "run" /\ granted[p] => granted'[p]
  BY <1>1, <1>2, Observed DEF Busy
<1>6. Passed(p)'
  BY <1>2, <1>4, <1>5 DEF Passed
<1>7. Gated(p)'
  BY <1>2 DEF Gated, SessionGiven, StoreFree, NoAttribution
<1>8. Switches(p)' /\ Setting(p)' /\ Resolving(p)'
  <2>1. cmd[p].key = UseKey => free
    BY UseKeyIsFree
  <2> QED  BY <1>2, <2>1 DEF Switches, Setting, Resolving
<1> QED  BY <1>1, <1>2, <1>3, <1>6, <1>7, <1>8 DEF Kept, LogIsSeq

\* A builtin resolves whatever the files hold, so that the switch to it is
\* written.
LEMMA UseKeeps ==
  ASSUME IInv, Observe, NEW p \in Process, UseSurface(p) \/ WriteSurface(p)
  PROVE  Types' /\ LogIsSeq' /\ Kept(p)'
<1>1. Types /\ LogIsSeq /\ Kept(p) /\ cmd[p] \in Invocation
  BY DEF IInv, Kept, Types
<1>2. /\ pc'[p] \in {"write", "ok", "failed"}
      /\ cmd' = cmd /\ log' = log
  BY <1>1 DEF UseSurface, WriteSurface, Goto, Types
<1>3. cmd[p].arg \in Builtin /\ cmd[p].key = UseKey => pc'[p] # "failed"
  BY <1>1, UseKeyIsFree DEF UseSurface, WriteSurface, Goto, Types
<1>4. pc'[p] = "write" => cmd[p].key = UseKey
  BY <1>1 DEF UseSurface, WriteSurface, Goto, Types, UseKey
<1>5. Kept(p)'
  BY <1>2, <1>3, <1>4, UseKeyIsFree DEF Kept, Resolving, Passed, Switches, Setting, Gated
<1>6. sticky' \in Ref \cup {NoRef}
  <2>1. CASE UseSurface(p)
    BY <1>1, <2>1 DEF UseSurface, Truncate, Types
  <2>2. CASE WriteSurface(p)
    <3>1. cmd[p].arg \in Ref
      BY <1>1, <2>2, CliAssumption DEF WriteSurface, Kept, Setting, UseKey
    <3> QED  BY <2>2, <3>1 DEF WriteSurface, WriteSticky
  <2> QED  BY <2>1, <2>2
<1>7. Types'
  BY <1>1, <1>2, <1>6, ObserveTypes DEF UseSurface, WriteSurface, Goto, Types, Busy, Ended
<1> QED  BY <1>1, <1>2, <1>5, <1>7 DEF Kept, LogIsSeq

\* A handler that reads or appends ends its process, which is no switch.
LEMMA HandlersKeep ==
  ASSUME IInv, Observe, NEW p \in Process, Handled(p), LogIsSeq'
  PROVE  Types' /\ LogIsSeq' /\ Kept(p)'
<1>1. Types
  BY DEF IInv
<1>2. /\ pc'[p] \in {"ok", "failed"} /\ cmd' = cmd /\ cmd[p].key # UseKey
  BY <1>1 DEF Handled, Goto, Types
<1>3. Types'
  BY <1>1, ObserveTypes DEF Handled, Goto, Types, Busy, Ended
<1>4. Kept(p)'
  BY <1>2 DEF Kept, Resolving, Passed, Switches, Setting, Gated
<1> QED  BY <1>3, <1>4

\* A killed process has passed nothing.
LEMMA KillKeeps ==
  ASSUME IInv, Observe, NEW p \in Process, Kill(p)
  PROVE  Types' /\ LogIsSeq' /\ Kept(p)'
<1>1. Types /\ LogIsSeq
  BY DEF IInv
<1>2. pc'[p] = "idle" /\ cmd' = cmd /\ log' = log
  BY <1>1 DEF Kill, Goto, Types
<1>3. Types'
  BY <1>1, ObserveTypes DEF Kill, Goto, Types, Busy, Ended
<1>4. Kept(p)'
  BY <1>2 DEF Kept, Resolving, Passed, Switches, Setting, Gated
<1> QED  BY <1>1, <1>2, <1>3, <1>4 DEF LogIsSeq

\* A handler that reads leaves the log.
LEMMA ReadsAreHandled ==
  ASSUME IInv, NEW p \in Process, RunRead(p)
  PROVE  Handled(p) /\ LogIsSeq'
BY DEF RunRead, Handled, UseKey, IInv, LogIsSeq

\* Every step of a process, by its kind.
LEMMA StepKeeps ==
  ASSUME IInv, Observe, NEW p \in Process, Step(p)
  PROVE  IInv'
<1>1. Types' /\ LogIsSeq' /\ Kept(p)'
  BY Zenon, BeginKeeps, ReadKeeps, ResolveKeeps, GatesKeep, UseKeeps, HandlersKeep, KillKeeps,
     ReadsAreHandled, Attributes DEF Step
<1>2. ASSUME NEW q \in Process \ {p}  PROVE Kept(q)'
  BY StepIsAlone, StayingKeeps DEF Alone, IInv
<1>3. \A q \in Process : Kept(q)'
  BY <1>1, <1>2
<1> QED  BY <1>1, <1>3 DEF IInv, Kept

\* A claim that arrives, or an edit of a manifest, moves no process.
LEMMA OutsideKeeps ==
  ASSUME IInv, Observe,
         \/ \E c \in Foreign : Receive(c)
         \/ \E path \in Path, m \in Edited \cup {Broken} : Edit(path, m)
  PROVE  IInv'
<1>1. Types /\ LogIsSeq
  BY DEF IInv
<1>2. UNCHANGED <<sticky, pc, cmd, under>>
  BY DEF Receive, Edit, EditFile
<1>3. Types'
  BY <1>1, <1>2, ObserveTypes DEF Types
<1>4. LogIsSeq'
  <2>1. CASE \E c \in Foreign : Receive(c)
    <3>1. PICK c : log' = Append(log, c)
      BY <2>1 DEF Receive
    <3>2. \E S : log' \in Seq(S)
      BY Zenon, <1>1, <3>1, AppendIsSeq
    <3> QED  BY <3>2 DEF LogIsSeq
  <2>2. CASE \E path \in Path, m \in Edited \cup {Broken} : Edit(path, m)
    BY <1>1, <2>2 DEF Edit, LogIsSeq
  <2> QED  BY <2>1, <2>2
<1>5. \A q \in Process : Kept(q)'
  BY <1>2, StayingKeeps
<1> QED  BY <1>3, <1>4, <1>5 DEF IInv, Kept

-----------------------------------------------------------------------------
(* The theorems *)

LEMMA InitHolds == CliInit => IInv
<1> SUFFICES ASSUME CliInit PROVE IInv
  OBVIOUS
<1>1. LogIsSeq
  BY EmptySeq DEF CliInit, LogIsSeq
<1>2. Types
  <2>1. (CHOOSE c \in Invocation : TRUE) \in Invocation
    BY CliAssumption
  <2> QED  BY <2>1 DEF CliInit, SurfaceInit, Types, Busy, Ended
<1>3. \A p \in Process : pc[p] = "idle"
  BY DEF CliInit
<1> QED  BY <1>1, <1>2, <1>3 DEF IInv, Resolving, Passed, Switches, Setting, Gated

LEMMA StutterHolds == IInv /\ UNCHANGED cliVars => IInv'
BY DEF cliVars, IInv, Types, LogIsSeq, Resolving, Passed, Switches, Setting, Gated,
       SessionGiven, StoreFree, NoAttribution

\* The invariant on which the others rest: a process has observed the reference
\* that it resolves, and what it has passed is recorded in where it stands.
THEOREM Invariant == CliSpec => []IInv
<1>1. IInv /\ [CliNext]_cliVars => IInv'
  <2>1. ASSUME IInv, CliNext  PROVE IInv'
    BY Zenon, <2>1, StepKeeps, OutsideKeeps DEF CliNext
  <2> QED  BY <2>1, StutterHolds
<1> QED  BY <1>1, InitHolds, PTL DEF CliSpec

\* A command gets past the rejection layer only when, since it began, there was
\* no surface or one that permits it, whoever edits manifests or switches the
\* surface meanwhile (surface.rs, main.rs: the layer before dispatch).
THEOREM LayerConfines == CliSpec => []Confined
<1>1. IInv => Confined
  BY DEF IInv, Passed, Confined
<1> QED  BY <1>1, Invariant, PTL

\* A switch to a builtin surface always succeeds: the command is exempt from the
\* layer and from the gates, and a builtin resolves whatever the files hold.
THEOREM SwitchRecovers == CliSpec => []Recoverable
<1>1. IInv => Recoverable
  BY DEF IInv, Switches, Recoverable, UseKey
<1> QED  BY <1>1, Invariant, PTL

\* A claim of a command is attributed to the session it was given: no command
\* that appends is on the list of those that need none.
THEOREM SessionsAreAttributed == CliSpec => Attributed
<1> DEFINE Names(p) ==
             /\ log' # log /\ pc[p] = "run" /\ pc'[p] # "run"
             /\ cmd[p].key[1] \notin {"session", "import"} /\ cmd[p].session # ""
             => log'[Len(log')].by = cmd[p].session
<1>1. ASSUME IInv, CliNext, NEW p \in Process
      PROVE  Names(p)
  <2>1. Types
    BY <1>1 DEF IInv
  <2>2. CASE Step(p)
    <3>1. CASE RunAdd(p) \/ RunPhaseSet(p) \/ RunRevise(p) \/ RunImport(p)
      BY Zenon, <1>1, <3>1, Attributes
    <3>2. CASE ~(RunAdd(p) \/ RunPhaseSet(p) \/ RunRevise(p) \/ RunImport(p))
      <4>1. log' = log
        BY <2>2, <3>2 DEF Step, Begin, ReadReference, ResolveManifest, PassGates, UseSurface,
                          WriteSurface, RunRead, Kill
      <4> QED  BY Zenon, <4>1
    <3> QED  BY <3>1, <3>2
  <2>3. ASSUME NEW q \in Process \ {p}, Step(q)
        PROVE  Names(p)
    <3>1. pc'[p] = pc[p]
      BY <2>1, <2>3, StepIsAlone DEF Alone
    <3> QED  BY Zenon, <3>1
  <2>4. CASE ~\E q \in Process : Step(q)
    <3>1. pc'[p] = pc[p]
      BY <1>1, <2>4 DEF CliNext, Receive, Edit
    <3> QED  BY Zenon, <3>1
  <2> QED  BY <2>2, <2>3, <2>4
<1>2. IInv /\ [CliNext]_cliVars => [\A p \in Process : Names(p)]_cliVars
  BY Zenon, <1>1
<1> QED  BY <1>2, Invariant, PTL DEF CliSpec, Attributed

-----------------------------------------------------------------------------
(* Documents: the wire form, and what comes back from it *)

\* The fields that the commands write.
Field ==
  {"tree", "spec", "id", "name", "description", "goal", "constraints", "decisions", "status",
   "topics", "agree_snapshot", "summary", "owner", "gate", "depends_on", "files", "acceptance",
   "session_id", "date", "finding", "author", "impact", "action", "title", "kind", "blocked_by",
   "note", "linked_spec", "outcome", "wait_reason", "failure_note", "reset_reason"}

\* Their names come back as they went, and none is taken for the envelope's.
LEMMA FieldsComeBack ==
  ASSUME NEW f \in Field
  PROVE  Snake(LowerCamel(f)) = f /\ LowerCamel(f) # "supersedes"
<1>1. /\ DOMAIN Camel = {"depends_on", "agree_snapshot", "session_id", "blocked_by", "linked_spec",
                         "wait_reason", "failure_note", "reset_reason"}
      /\ Camel["depends_on"] = "dependsOn" /\ Camel["agree_snapshot"] = "agreeSnapshot"
      /\ Camel["session_id"] = "sessionId" /\ Camel["blocked_by"] = "blockedBy"
      /\ Camel["linked_spec"] = "linkedSpec" /\ Camel["wait_reason"] = "waitReason"
      /\ Camel["failure_note"] = "failureNote" /\ Camel["reset_reason"] = "resetReason"
  BY DEF Camel
<1>2. CASE f \in DOMAIN Camel
  <2>1. \A g \in DOMAIN Camel : Camel[g] = Camel[f] => g = f
    BY <1>1, <1>2
  <2>2. LowerCamel(f) = Camel[f] /\ Camel[f] # "supersedes"
    BY <1>1, <1>2 DEF LowerCamel
  <2> QED  BY <1>2, <2>1, <2>2 DEF Snake
<1>3. CASE f \notin DOMAIN Camel
  <2>1. \A g \in DOMAIN Camel : Camel[g] # f
    BY <1>1 DEF Field
  <2>2. LowerCamel(f) = f /\ f # "supersedes"
    BY <1>3 DEF LowerCamel, Field
  <2> QED  BY <2>1, <2>2 DEF Snake
<1> QED  BY <1>2, <1>3

\* A function from fields of a command to JSON values.
Proper(props) == props \in [DOMAIN props -> Value] /\ DOMAIN props \subseteq Field

\* The predicate of a field is in its document, and not of the envelope.
LEMMA WireHas ==
  ASSUME NEW props, NEW sup, DOMAIN props \subseteq Field
  PROVE  /\ DOMAIN Wire(props, sup) \ Envelope = {<<"synthesist", LowerCamel(f)>> : f \in DOMAIN props}
         /\ \A f \in DOMAIN props : Wire(props, sup)[<<"synthesist", LowerCamel(f)>>] = props[f]
<1> DEFINE K == {<<"synthesist", LowerCamel(f)>> : f \in DOMAIN props}
           E == Always \cup (IF sup = 0 THEN {} ELSE {Supersedes})
           name == [f \in DOMAIN props |-> <<"synthesist", LowerCamel(f)>>]
           P == Renamed(props, name)
<1>1. K \cap Envelope = {} /\ E \subseteq Envelope
  <2>1. ASSUME NEW f \in DOMAIN props
        PROVE  <<"synthesist", LowerCamel(f)>> \notin Envelope
    <3>1. LowerCamel(f) # "supersedes"
      BY FieldsComeBack
    <3> QED  BY <3>1 DEF Envelope, Always, Supersedes, Parent
  <2> QED  BY <2>1 DEF Envelope
<1>2. DOMAIN P = K
  BY DEF Renamed
<1>3. Wire(props, sup) = P ++ [k \in E |-> "envelope"]
  BY DEF Wire
<1> HIDE DEF P
<1>4. DOMAIN Wire(props, sup) = K \cup E /\ \A k \in K : Wire(props, sup)[k] = P[k]
  BY <1>2, <1>3 DEF ++
<1>5. ASSUME NEW f \in DOMAIN props
      PROVE  P[<<"synthesist", LowerCamel(f)>>] = props[f]
  <2> DEFINE g == CHOOSE g \in DOMAIN name : name[g] = <<"synthesist", LowerCamel(f)>>
  <2>1. P[<<"synthesist", LowerCamel(f)>>] = props[g]
    BY DEF P, Renamed
  <2>2. g \in DOMAIN props /\ <<"synthesist", LowerCamel(g)>> = <<"synthesist", LowerCamel(f)>>
    OBVIOUS
  <2> HIDE DEF g
  <2>3. LowerCamel(g) = LowerCamel(f)
    BY <2>2
  <2>4. g = f
    BY <2>2, <2>3, FieldsComeBack
  <2> QED  BY <2>1, <2>4
<1> QED  BY <1>1, <1>4, <1>5

\* Props come back from the wire form as they were.
LEMMA PropsComeBack ==
  ASSUME NEW props, Proper(props), NEW sup
  PROVE  BareProps(Wire(props, sup)) = props
<1> DEFINE W == Wire(props, sup)
           K == DOMAIN W \ Envelope
           name == [k \in K |-> Snake(k[2])]
           key(f) == <<"synthesist", LowerCamel(f)>>
<1>1. K = {key(f) : f \in DOMAIN props} /\ \A f \in DOMAIN props : W[key(f)] = props[f]
  BY WireHas DEF Proper
<1>2. BareProps(W) = Renamed(W, name)
  BY DEF BareProps
<1> HIDE DEF W
<1>3. ASSUME NEW f \in DOMAIN props
      PROVE  key(f) \in K /\ Snake(key(f)[2]) = f
  BY <1>1, FieldsComeBack DEF Proper
<1>4. {name[k] : k \in DOMAIN name} = DOMAIN props
  <2>1. \A f \in DOMAIN props : name[key(f)] = f
    BY <1>3
  <2>2. DOMAIN name = K
    OBVIOUS
  <2> HIDE DEF name, K
  <2>3. ASSUME NEW k \in K  PROVE name[k] \in DOMAIN props
    <3>1. PICK f \in DOMAIN props : k = key(f)
      BY <1>1
    <3> QED  BY <2>1, <3>1
  <2>4. ASSUME NEW f \in DOMAIN props  PROVE \E k \in K : name[k] = f
    BY <1>3, <2>1
  <2> QED  BY <2>2, <2>3, <2>4
<1>5. ASSUME NEW f \in DOMAIN props
      PROVE  W[CHOOSE k \in DOMAIN name : name[k] = f] = props[f]
  <2> DEFINE k == CHOOSE k \in DOMAIN name : name[k] = f
  <2>1. name[key(f)] = f /\ key(f) \in DOMAIN name
    BY <1>3
  <2>2. k \in K /\ name[k] = f
    BY <2>1
  <2> HIDE DEF k
  <2>3. PICK g \in DOMAIN props : k = key(g)
    BY <1>1, <2>2
  <2>4. g = f
    BY <1>3, <2>2, <2>3
  <2>5. W[k] = props[f]
    BY <1>1, <2>3, <2>4
  <2> QED  BY <2>5 DEF k
<1>6. Renamed(W, name) = [f \in DOMAIN props |-> props[f]]
  <2> HIDE DEF name
  <2> QED  BY <1>4, <1>5 DEF Renamed
<1>7. props = [f \in DOMAIN props |-> props[f]]
  BY DEF Proper
<1> QED  BY <1>2, <1>6, <1>7 DEF W

-----------------------------------------------------------------------------
(* What the commands write *)

\* Arrays and strings are values; what Members and Texts make is, too.
LEMMA MembersAreArrays ==
  ASSUME NEW v
  PROVE  Members(v) \in {"[x]", "[y]", "[]"} /\ Members(Members(v)) = Members(v)
BY DEF Members, Free

LEMMA TextsAre ==
  ASSUME NEW props, NEW F
  PROVE  /\ DOMAIN Texts(props, F) = {f \in F : Get(props, f) \in NonEmpty}
         /\ \A f \in DOMAIN Texts(props, F) : Texts(props, F)[f] = props[f] /\ props[f] \in NonEmpty
         /\ Text(props, "status") \in String
<1>1. \A f : Get(props, f) \in NonEmpty => props[f] \in NonEmpty
  BY DEF Get, NonEmpty, Free, SpecStatus, TaskStatus, OutcomeStatus, Phase
<1> QED  BY <1>1 DEF Texts, Text, Get, String

LEMMA TextsAreProper ==
  ASSUME NEW props, NEW F, F \subseteq Field
  PROVE  Proper(Texts(props, F))
<1> DEFINE t == Texts(props, F)
<1>1. /\ DOMAIN t = {f \in F : Get(props, f) \in NonEmpty}
      /\ \A f \in DOMAIN t : t[f] \in NonEmpty
  <2>1. \A f : Get(props, f) \in NonEmpty => props[f] \in NonEmpty
    BY DEF Get, NonEmpty, Free, SpecStatus, TaskStatus, OutcomeStatus, Phase
  <2> QED  BY <2>1 DEF Texts
<1>2. t = [f \in DOMAIN t |-> t[f]]
  BY DEF Texts
<1>3. NonEmpty \subseteq Value
  BY DEF Value, String
<1> HIDE DEF t
<1>4. Proper(t)
  BY <1>1, <1>2, <1>3 DEF Proper
<1> QED  BY <1>4 DEF t

LEMMA OverIsProper ==
  ASSUME NEW f, NEW g, Proper(f), Proper(g)
  PROVE  Proper(f ++ g)
<1>1. f ++ g = [x \in DOMAIN (f ++ g) |-> (f ++ g)[x]]
  BY DEF ++
<1>2. DOMAIN (f ++ g) \subseteq Field /\ \A x \in DOMAIN (f ++ g) : (f ++ g)[x] \in Value
  BY DEF ++, Proper
<1> DEFINE h == f ++ g
<1> HIDE DEF h
<1>3. h = [x \in DOMAIN h |-> h[x]] /\ DOMAIN h \subseteq Field /\ \A x \in DOMAIN h : h[x] \in Value
  BY <1>1, <1>2 DEF h
<1> QED  BY <1>3 DEF Proper, h

\* One field with a value, and records of fields with values.
LEMMA OneIsProper ==
  ASSUME NEW F, F \subseteq Field, NEW S, S \subseteq Value, NEW o \in One(F, S)
  PROVE  Proper(o)
<1>1. PICK f \in F : o \in [{f} -> S]
  BY DEF One
<1> QED  BY <1>1 DEF Proper

LEMMA WithIsProper ==
  ASSUME NEW From, NEW options, NEW props \in With(From, options),
         \A p \in From : Proper(p), \A o \in options : Proper(o)
  PROVE  Proper(props)
BY OverIsProper DEF With

\* What the arguments of the commands may be.
LEMMA ValuesAre ==
  /\ TextArg \subseteq Value /\ Free \subseteq Value /\ "" \in Value
  /\ SpecStatus \subseteq Value /\ TaskStatus \subseteq Value /\ OutcomeStatus \subseteq Value
  /\ Phase \subseteq Value
  /\ {"x", "y", "human", "active", "backlog", "pending", "in_progress", "waiting", "cancelled",
      "done", "blocked", "closed"} \subseteq Value
  /\ {"[]", "['']", "[x]", "[y]", "[half]", "[criterion]"} \subseteq Value
<1>1. TextArg \subseteq Value
  BY CliAssumption DEF Value
<1>2. /\ SpecStatus \subseteq Value /\ TaskStatus \subseteq Value /\ OutcomeStatus \subseteq Value
      /\ Phase \subseteq Value /\ Free \subseteq Value /\ "" \in Value
  BY DEF Value, String, NonEmpty
<1>3. /\ {"x", "y", "human", "active", "backlog", "pending", "in_progress", "waiting", "cancelled",
          "done", "blocked", "closed"} \subseteq Value
      /\ {"[]", "['']", "[x]", "[y]", "[half]", "[criterion]"} \subseteq Value
  BY DEF Value, String, NonEmpty, Free, SpecStatus, TaskStatus, Array, StringArray, Criteria
<1> QED  BY <1>1, <1>2, <1>3

LEMMA Pairs ==
  ASSUME NEW S, NEW T, NEW key \in S \X T
  PROVE  key = <<key[1], key[2]>> /\ key[1] \in S /\ key[2] \in T
OBVIOUS

LEMMA AddedIsProper ==
  ASSUME NEW key \in Adds, NEW session \in Free \cup {"", NoSession},
         key = <<"phase", "set">> => session \in Free,
         NEW props \in Added(key, session, TextArg)
  PROVE  Proper(props)
<1> USE ValuesAre
<1>1. CASE key = <<"tree", "add">>
  <2>1. props \in TreeAdded(TextArg)
    BY <1>1 DEF Added
  <2> QED  BY <2>1 DEF TreeAdded, Proper, Field
<1>2. CASE key = <<"spec", "add">>
  <2> DEFINE From == [tree : {"x"}, id : {"x"}, goal : TextArg \ {""}, status : {"active"}, topics : {"[x]"}]
  <2>1. props \in With(From, One({"constraints", "decisions"}, TextArg))
    BY <1>2 DEF Added, SpecAdded
  <2>2. \A p \in From : Proper(p)
    BY DEF Proper, Field
  <2>3. \A o \in One({"constraints", "decisions"}, TextArg) : Proper(o)
    BY OneIsProper DEF Field
  <2> HIDE DEF From
  <2> QED  BY <2>1, <2>2, <2>3, WithIsProper
<1>3. CASE key = <<"task", "add">>
  <2> DEFINE From == [tree : {"x"}, spec : {"x"}, id : {"x"}, summary : TextArg, status : {"pending"},
                      depends_on : {"[]", "['']"}, files : {"[]", "[x]"}]
             options == One({"description"}, TextArg) \cup [gate : {"human"}]
  <2>1. props \in With(From, options)
    BY <1>3 DEF Added, TaskAdded
  <2>2. \A p \in From : Proper(p)
    BY DEF Proper, Field
  <2>3. \A o \in One({"description"}, TextArg) : Proper(o)
    BY OneIsProper DEF Field
  <2>4. ASSUME NEW o \in [gate : {"human"}]  PROVE Proper(o)
    <3>1. DOMAIN o = {"gate"} /\ o = [f \in {"gate"} |-> o[f]] /\ o["gate"] = "human"
      OBVIOUS
    <3> QED  BY <3>1 DEF Proper, Field
  <2>5. \A o \in options : Proper(o)
    BY <2>3, <2>4
  <2> HIDE DEF From, options
  <2> QED  BY <2>1, <2>2, <2>5, WithIsProper
<1>4. CASE key = <<"discovery", "add">>
  <2> DEFINE From == [tree : {"x"}, spec : {"x"}, id : {"y"}, date : TextArg, finding : TextArg \ {""}]
  <2>1. props \in With(From, One({"author", "impact", "action"}, TextArg))
    BY <1>4 DEF Added, DiscoveryAdded
  <2>2. \A p \in From : Proper(p)
    BY DEF Proper, Field
  <2>3. \A o \in One({"author", "impact", "action"}, TextArg) : Proper(o)
    BY OneIsProper DEF Field
  <2> HIDE DEF From
  <2> QED  BY <2>1, <2>2, <2>3, WithIsProper
<1>5. CASE key = <<"campaign", "add">>
  <2> DEFINE From == [tree : {"x"}, spec : {"x"}, kind : {"active", "backlog"}]
             options == One({"summary", "title"}, TextArg \ {""}) \cup [blocked_by : {"[x]"}]
  <2>1. props \in With(From, options)
    BY <1>5 DEF Added, CampaignAdded
  <2>2. \A p \in From : Proper(p)
    BY DEF Proper, Field
  <2>3. \A o \in One({"summary", "title"}, TextArg \ {""}) : Proper(o)
    BY OneIsProper DEF Field
  <2>4. ASSUME NEW o \in [blocked_by : {"[x]"}]  PROVE Proper(o)
    <3>1. DOMAIN o = {"blocked_by"} /\ o = [f \in {"blocked_by"} |-> o[f]] /\ o["blocked_by"] = "[x]"
      OBVIOUS
    <3> QED  BY <3>1 DEF Proper, Field
  <2>5. \A o \in options : Proper(o)
    BY <2>3, <2>4
  <2> HIDE DEF From, options
  <2> QED  BY <2>1, <2>2, <2>5, WithIsProper
<1>6. CASE key = <<"outcome", "add">>
  <2> DEFINE From == [tree : {"x"}, spec : {"x"}, status : OutcomeStatus, date : TextArg]
  <2>1. props \in With(From, One({"note", "linked_spec"}, TextArg))
    BY <1>6 DEF Added, OutcomeAdded
  <2>2. \A p \in From : Proper(p)
    BY DEF Proper, Field
  <2>3. \A o \in One({"note", "linked_spec"}, TextArg) : Proper(o)
    BY OneIsProper DEF Field
  <2> HIDE DEF From
  <2> QED  BY <2>1, <2>2, <2>3, WithIsProper
<1>7. CASE key = <<"session", "start">>
  <2> DEFINE From == [id : TextArg \ {""}]
  <2>1. props \in With(From, One({"tree", "spec", "summary"}, TextArg))
    BY <1>7 DEF Added, SessionStarted
  <2>2. \A p \in From : Proper(p)
    BY DEF Proper, Field
  <2>3. \A o \in One({"tree", "spec", "summary"}, TextArg) : Proper(o)
    BY OneIsProper DEF Field
  <2> HIDE DEF From
  <2> QED  BY <2>1, <2>2, <2>3, WithIsProper
<1>8. CASE key = <<"phase", "set">>
  <2>1. props \in PhaseAdded(session) /\ session \in Free
    BY <1>8 DEF Added
  <2> QED  BY <2>1 DEF PhaseAdded, Proper, Field
<1>9. key \in {<<"tree", "add">>, <<"spec", "add">>, <<"task", "add">>, <<"discovery", "add">>,
               <<"campaign", "add">>, <<"outcome", "add">>, <<"session", "start">>, <<"phase", "set">>}
  <2> DEFINE S == {"tree", "spec", "task", "discovery", "campaign", "outcome"}
  <2>1. CASE key \in S \X {"add"}
    <3>1. key = <<key[1], key[2]>> /\ key[1] \in S /\ key[2] = "add"
      <4> HIDE DEF S
      <4> QED  BY <2>1, Pairs
    <3> QED  BY <3>1
  <2> QED  BY <2>1 DEF Adds
<1> QED  BY <1>1, <1>2, <1>3, <1>4, <1>5, <1>6, <1>7, <1>8, <1>9

\* The types that are revised, and by which commands.
LEMMA RevisesWhat ==
  ASSUME NEW type, NEW key \in Revises(type)
  PROVE  \/ /\ type = "task"
            /\ key \in {<<"task", "claim">>, <<"task", "done">>, <<"task", "block">>,
                        <<"task", "wait">>, <<"task", "cancel">>, <<"task", "reset">>,
                        <<"task", "update">>, <<"task", "acceptance">>}
         \/ type = "spec" /\ key = <<"spec", "update">>
         \/ type = "tree" /\ key = <<"tree", "close">>
         \/ type = "session" /\ key = <<"session", "close">>
<1>1. CASE type = "task"
  <2> DEFINE S == {"task"}
             T == {"claim", "done", "block", "wait", "cancel", "reset", "update", "acceptance"}
  <2>1. key \in S \X T
    BY <1>1 DEF Revises
  <2>2. key = <<key[1], key[2]>> /\ key[1] \in S /\ key[2] \in T
    <3> HIDE DEF S, T
    <3> QED  BY <2>1, Pairs
  <2> QED  BY <1>1, <2>2
<1>2. CASE type # "task"
  BY <1>2 DEF Revises
<1> QED  BY <1>1, <1>2

\* What an edit sets: none of the fields that a claim is found by.
EditField ==
  {"status", "owner", "wait_reason", "failure_note", "reset_reason", "summary", "description",
   "files", "depends_on", "acceptance", "goal", "constraints", "decisions", "outcome",
   "agree_snapshot"}
IsEdit(e) == Proper(e) /\ DOMAIN e \subseteq EditField

LEMMA RecordIsEdit ==
  ASSUME NEW e, NEW F, F \subseteq EditField, e = [f \in F |-> e[f]], \A f \in F : e[f] \in Value
  PROVE  IsEdit(e)
<1>1. EditField \subseteq Field
  BY DEF EditField, Field
<1>2. DOMAIN e = F
  OBVIOUS
<1>3. e \in [F -> Value]
  OBVIOUS
<1> QED  BY <1>1, <1>2, <1>3 DEF IsEdit, Proper

LEMMA NoEditIsEdit == IsEdit(NoEdit)
<1>1. NoEdit = [f \in {} |-> NoEdit[f]]
  BY DEF NoEdit
<1> QED  BY <1>1, RecordIsEdit

LEMMA OneIsEdit ==
  ASSUME NEW F, F \subseteq EditField, NEW S, S \subseteq Value, NEW e \in One(F, S)
  PROVE  IsEdit(e)
<1>1. PICK f \in F : e \in [{f} -> S]
  BY DEF One
<1>2. e = [g \in {f} |-> e[g]] /\ {f} \subseteq EditField /\ \A g \in {f} : e[g] \in Value
  BY <1>1
<1> QED  BY <1>2, RecordIsEdit

LEMMA TaskEdits ==
  ASSUME NEW old, NEW session \in Free \cup {""},
         NEW e \in ClaimEdits(old, session) \cup StatusEdits("done") \cup StatusEdits("blocked")
                   \cup WaitEdits(TextArg) \cup CancelEdits(TextArg) \cup ResetEdits(TextArg)
                   \cup TaskUpdateEdits(TextArg) \cup AcceptanceEdits(old)
  PROVE  IsEdit(e)
<1>1. ASSUME NEW v \in {"done", "blocked", "pending", "cancelled"}, e = [status |-> v]
      PROVE  IsEdit(e)
  <2>1. e = [f \in {"status"} |-> e[f]] /\ e["status"] \in Value
    BY <1>1, ValuesAre
  <2> QED  BY <2>1, RecordIsEdit DEF EditField
<1>2. CASE e \in ClaimEdits(old, session)
  <2>1. e = [status |-> "in_progress", owner |-> session]
    BY <1>2 DEF ClaimEdits
  <2>2. e = [f \in {"status", "owner"} |-> e[f]] /\ e["status"] \in Value /\ e["owner"] \in Value
    BY <2>1, ValuesAre
  <2> QED  BY <2>2, RecordIsEdit DEF EditField
<1>3. CASE e \in StatusEdits("done") \cup StatusEdits("blocked")
  BY <1>1, <1>3 DEF StatusEdits
<1>4. CASE e \in WaitEdits(TextArg)
  <2>1. PICK r \in TextArg : e = [status |-> "waiting", wait_reason |-> r]
    BY <1>4 DEF WaitEdits
  <2>2. e = [f \in {"status", "wait_reason"} |-> e[f]] /\ e["status"] \in Value /\ e["wait_reason"] \in Value
    BY <2>1, ValuesAre
  <2> QED  BY <2>2, RecordIsEdit DEF EditField
<1>5. CASE e \in CancelEdits(TextArg)
  <2>1. CASE e = [status |-> "cancelled"]
    BY <1>1, <2>1
  <2>2. ASSUME NEW r \in TextArg, e = [status |-> "cancelled", failure_note |-> r]  PROVE IsEdit(e)
    <3>1. e = [f \in {"status", "failure_note"} |-> e[f]] /\ e["status"] \in Value /\ e["failure_note"] \in Value
      BY <2>2, ValuesAre
    <3> QED  BY <3>1, RecordIsEdit DEF EditField
  <2> QED  BY <1>5, <2>1, <2>2 DEF CancelEdits, StatusEdits
<1>6. CASE e \in ResetEdits(TextArg)
  <2>1. CASE e = [status |-> "pending"]
    BY <1>1, <2>1
  <2>2. ASSUME NEW r \in TextArg, e = [status |-> "pending", reset_reason |-> r]  PROVE IsEdit(e)
    <3>1. e = [f \in {"status", "reset_reason"} |-> e[f]] /\ e["status"] \in Value /\ e["reset_reason"] \in Value
      BY <2>2, ValuesAre
    <3> QED  BY <3>1, RecordIsEdit DEF EditField
  <2> QED  BY <1>6, <2>1, <2>2 DEF ResetEdits, StatusEdits
<1>7. CASE e \in TaskUpdateEdits(TextArg)
  <2>1. CASE e \in One({"summary", "description"}, TextArg)
    BY <2>1, ValuesAre, OneIsEdit DEF EditField
  <2>2. CASE e \in One({"files"}, {"[]", "[x]"})
    <3>1. {"[]", "[x]"} \subseteq Value /\ {"files"} \subseteq EditField
      BY ValuesAre DEF EditField
    <3> QED  BY Zenon, <2>2, <3>1, OneIsEdit
  <2>3. CASE e = [depends_on |-> "[]"]
    <3>1. e = [f \in {"depends_on"} |-> e[f]] /\ e["depends_on"] \in Value
      BY <2>3, ValuesAre
    <3> QED  BY <3>1, RecordIsEdit DEF EditField
  <2>4. CASE e = NoEdit
    BY <2>4, NoEditIsEdit
  <2> QED  BY <1>7, <2>1, <2>2, <2>3, <2>4 DEF TaskUpdateEdits
<1>8. CASE e \in AcceptanceEdits(old)
  <2>1. PICK v \in {"[half]", "[criterion]"} : e = [acceptance |-> v]
    BY <1>8 DEF AcceptanceEdits
  <2>2. e = [f \in {"acceptance"} |-> e[f]] /\ e["acceptance"] \in {"[half]", "[criterion]"}
    BY <2>1
  <2>3. e["acceptance"] \in Value
    BY <2>2, ValuesAre
  <2> QED  BY <2>2, <2>3, RecordIsEdit DEF EditField
<1> QED  BY <1>2, <1>3, <1>4, <1>5, <1>6, <1>7, <1>8

LEMMA SpecEdits ==
  ASSUME NEW e \in SpecUpdateEdits(TextArg)
  PROVE  IsEdit(e)
<1>1. CASE e \in One({"goal", "constraints", "decisions", "outcome"}, TextArg)
  BY <1>1, ValuesAre, OneIsEdit DEF EditField
<1>2. CASE e \in One({"status"}, SpecStatus)
  <2>1. {"status"} \subseteq EditField /\ SpecStatus \subseteq Value
    BY ValuesAre DEF EditField
  <2> QED  BY Zenon, <1>2, <2>1, OneIsEdit
<1>3. CASE e \in One({"agree_snapshot"}, {"[]", "[x]"})
  <2>1. {"[]", "[x]"} \subseteq Value /\ {"agree_snapshot"} \subseteq EditField
    BY ValuesAre DEF EditField
  <2> QED  BY Zenon, <1>3, <2>1, OneIsEdit
<1> QED  BY <1>1, <1>2, <1>3 DEF SpecUpdateEdits

LEMMA EditIsProper ==
  ASSUME NEW type, NEW key \in Revises(type), NEW old, NEW session \in Free \cup {""},
         NEW e \in Edits(key, old, session, TextArg)
  PROVE  /\ type \in {"task", "spec", "tree", "session"}
         /\ Proper(e) /\ \A f \in FoundBy[type] : f \notin DOMAIN e
<1>1. type \in {"task", "spec", "tree", "session"}
  BY RevisesWhat
<1>2. FoundBy[type] \cap EditField = {}
  <2>1. /\ FoundBy["task"] = {"tree", "spec", "id"} /\ FoundBy["spec"] = {"tree", "id"}
        /\ FoundBy["tree"] = {"name"} /\ FoundBy["session"] = {"id"}
    BY DEF FoundBy
  <2>2. \A f \in {"tree", "spec", "id", "name"} : f \notin EditField
    BY DEF EditField
  <2> QED  BY <1>1, <2>1, <2>2
<1>3. IsEdit(e)
  <2>1. CASE key \in {<<"task", "claim">>, <<"task", "done">>, <<"task", "block">>,
                      <<"task", "wait">>, <<"task", "cancel">>, <<"task", "reset">>,
                      <<"task", "update">>, <<"task", "acceptance">>}
    <3>1. e \in ClaimEdits(old, session) \cup StatusEdits("done") \cup StatusEdits("blocked")
                \cup WaitEdits(TextArg) \cup CancelEdits(TextArg) \cup ResetEdits(TextArg)
                \cup TaskUpdateEdits(TextArg) \cup AcceptanceEdits(old)
      <4>1. CASE key = <<"task", "claim">>
        BY <4>1 DEF Edits
      <4>2. CASE key = <<"task", "done">>
        BY <4>2 DEF Edits
      <4>8. CASE key = <<"task", "block">>
        BY <4>8 DEF Edits
      <4>3. CASE key = <<"task", "wait">>
        BY <4>3 DEF Edits
      <4>4. CASE key = <<"task", "cancel">>
        BY <4>4 DEF Edits
      <4>5. CASE key = <<"task", "reset">>
        BY <4>5 DEF Edits
      <4>6. CASE key = <<"task", "update">>
        BY <4>6 DEF Edits
      <4>7. CASE key = <<"task", "acceptance">>
        BY <4>7 DEF Edits
      <4> QED  BY <2>1, <4>1, <4>2, <4>3, <4>4, <4>5, <4>6, <4>7, <4>8
    <3> QED  BY <3>1, TaskEdits
  <2>2. CASE key = <<"spec", "update">>
    BY <2>2, SpecEdits DEF Edits
  <2>3. CASE key = <<"tree", "close">>
    <3>1. e = [status |-> "closed"]
      BY <2>3 DEF Edits, TreeCloseEdits
    <3>2. e = [f \in {"status"} |-> e[f]] /\ e["status"] \in Value
      BY <3>1, ValuesAre
    <3> QED  BY <3>2, RecordIsEdit DEF EditField
  <2>4. CASE key = <<"session", "close">>
    <3>1. e = NoEdit
      BY <2>4 DEF Edits
    <3> QED  BY <3>1, NoEditIsEdit
  <2> QED  BY <2>1, <2>2, <2>3, <2>4, RevisesWhat
<1> QED  BY <1>1, <1>2, <1>3 DEF IsEdit

LEMMA RebuiltIsProper ==
  ASSUME NEW type \in {"task", "spec", "tree", "session"}, NEW props
  PROVE  Proper(Rebuilt(type, props))
<1>1. \A v : Members(v) \in Value
  BY MembersAreArrays, ValuesAre
<1>2. Text(props, "status") \in Value
  BY TextsAre DEF Value
<1>3. CASE type = "task"
  <2> DEFINE t == Texts(props, {"tree", "spec", "id", "summary", "description", "gate"})
             r == [status |-> Text(props, "status"), depends_on |-> Members(Get(props, "depends_on")),
                   files |-> Members(Get(props, "files"))]
  <2>1. Proper(t)
    BY TextsAreProper DEF Field
  <2>2. Proper(r)
    BY <1>1, <1>2 DEF Proper, Field
  <2>3. Rebuilt(type, props) = t ++ r
    BY <1>3 DEF Rebuilt, TaskProps
  <2> HIDE DEF t, r
  <2> QED  BY <2>1, <2>2, <2>3, OverIsProper
<1>4. CASE type = "spec"
  <2>1. Rebuilt(type, props) =
          Texts(props, {"tree", "id", "goal", "constraints", "decisions", "status", "outcome"})
    BY <1>4 DEF Rebuilt, SpecProps
  <2> QED  BY <2>1, TextsAreProper DEF Field
<1>5. CASE type = "tree"
  <2>1. Rebuilt(type, props) = Texts(props, {"name", "description"})
    BY <1>5 DEF Rebuilt, TreeProps
  <2> QED  BY <2>1, TextsAreProper DEF Field
<1>6. CASE type = "session"
  <2>1. Rebuilt(type, props) = Texts(props, {"id", "tree", "spec", "summary"})
    BY <1>6 DEF Rebuilt, SessionProps
  <2> QED  BY <2>1, TextsAreProper DEF Field
<1> QED  BY <1>3, <1>4, <1>5, <1>6

LEMMA RevisedIsProper ==
  ASSUME NEW type \in {"task", "spec", "tree", "session"}, NEW old, NEW e, Proper(e)
  PROVE  Proper(Revised(type, old, e))
<1> DEFINE topics == [f \in (IF type = "spec" THEN {"topics"} ELSE {}) |-> Members(old.id)]
<1>1. Proper(topics)
  BY MembersAreArrays, ValuesAre DEF Proper, Field
<1>2. Revised(type, old, e) = (e ++ Rebuilt(type, old)) ++ topics
  BY DEF Revised
<1> HIDE DEF topics
<1> QED  BY <1>1, <1>2, RebuiltIsProper, OverIsProper

-----------------------------------------------------------------------------
(* The log: what the commands wrote *)

\* A claim by a command is the wire form of props that the command validated.
Written(c) ==
  LET props == BareProps(c.doc)
  IN  /\ Valid(c.type, props) /\ Proper(props)
      /\ c.doc = Wire(props, c.sup)

\* What is known of claim c at position n.
Claim(c, n) ==
  /\ c.sup \in 0..(n - 1) /\ c.by \in String \cup {"elsewhere"}
  /\ \A k \in DOMAIN c.doc \ Envelope : c.doc[k] \in Value
  /\ c.by # "elsewhere" => Written(c)

LogInv ==
  /\ \E S : log \in Seq(S)
  /\ Len(log) <= MaxLog
  /\ \A n \in DOMAIN log : Claim(log[n], n)

\* What a command appends.
LEMMA WriteFits ==
  ASSUME NEW n \in Nat, NEW type, NEW props, NEW sup \in 0..(n - 1), NEW by \in String,
         Valid(type, props), Proper(props)
  PROVE  Claim([type |-> type, sup |-> sup, by |-> by, doc |-> Wire(props, sup)], n)
<1> DEFINE c == [type |-> type, sup |-> sup, by |-> by, doc |-> Wire(props, sup)]
<1>1. /\ c.type = type /\ c.sup = sup /\ c.by = by /\ c.doc = Wire(props, sup)
      /\ by # "elsewhere"
  BY DEF String, NonEmpty, Free, SpecStatus, TaskStatus, OutcomeStatus, Phase
<1> HIDE DEF c
<1>2. Written(c)
  BY <1>1, PropsComeBack DEF Written
<1>3. \A k \in DOMAIN c.doc \ Envelope : c.doc[k] \in Value
  <2>1. /\ DOMAIN c.doc \ Envelope = {<<"synthesist", LowerCamel(f)>> : f \in DOMAIN props}
        /\ \A f \in DOMAIN props : c.doc[<<"synthesist", LowerCamel(f)>>] = props[f]
    <3> DEFINE W == Wire(props, sup)
    <3>1. /\ DOMAIN W \ Envelope = {<<"synthesist", LowerCamel(f)>> : f \in DOMAIN props}
          /\ \A f \in DOMAIN props : W[<<"synthesist", LowerCamel(f)>>] = props[f]
      BY WireHas DEF Proper
    <3>2. c.doc = W
      BY <1>1
    <3> HIDE DEF W
    <3> QED  BY <3>1, <3>2
  <2>2. \A f \in DOMAIN props : props[f] \in Value
    BY DEF Proper
  <2> QED  BY <2>1, <2>2
<1>4. Claim(c, n)
  BY <1>1, <1>2, <1>3 DEF Claim
<1> QED  BY <1>4 DEF c

\* Renaming keeps values.
LEMMA RenamedKeeps ==
  ASSUME NEW doc, NEW name, NEW n \in DOMAIN Renamed(doc, name)
  PROVE  \E k \in DOMAIN name : Renamed(doc, name)[n] = doc[k]
<1> DEFINE k == CHOOSE k \in DOMAIN name : name[k] = n
<1>1. n \in {name[l] : l \in DOMAIN name} /\ Renamed(doc, name)[n] = doc[k]
  BY DEF Renamed
<1>2. k \in DOMAIN name
  BY <1>1
<1> QED  BY <1>1, <1>2

\* What an import appends.
LEMMA ImportFits ==
  ASSUME NEW n \in Nat \ {0}, NEW c \in Foreign
  PROVE  Claim([type |-> c.type, sup |-> 0, by |-> c.by, doc |-> Wire(ReplayedProps(c.doc), 0)], n)
<1> DEFINE p == ReplayedProps(c.doc)
           W == Wire(p, 0)
           P == Renamed(p, [f \in DOMAIN p |-> <<"synthesist", LowerCamel(f)>>])
           K == {l \in DOMAIN c.doc : l[1] \notin {"@", "prov"} /\ l \notin {Supersedes, Parent}}
<1>1. c.by = "elsewhere" /\ \A k \in DOMAIN c.doc \ Envelope : c.doc[k] \in Value
  BY CliAssumption
<1>2. \A f \in DOMAIN p : p[f] \in Value
  <2>1. ASSUME NEW l \in K  PROVE l \in DOMAIN c.doc \ Envelope
    BY <2>1 DEF Envelope, Always, Supersedes, Parent
  <2>2. p = Renamed(c.doc, [k \in K |-> Snake(k[2])])
    BY DEF ReplayedProps
  <2> HIDE DEF K, p
  <2>3. ASSUME NEW f \in DOMAIN p  PROVE p[f] \in Value
    <3> DEFINE name == [k \in K |-> Snake(k[2])]
    <3>1. DOMAIN name = K
      OBVIOUS
    <3> HIDE DEF name
    <3>2. PICK k \in DOMAIN name : p[f] = c.doc[k]
      BY <2>2, RenamedKeeps DEF name
    <3> QED  BY <1>1, <2>1, <3>1, <3>2
  <2> QED  BY <2>3
<1> HIDE DEF p
<1>3. \A k \in DOMAIN P : P[k] \in Value
  <2>1. ASSUME NEW k \in DOMAIN P  PROVE P[k] \in Value
    <3> DEFINE name == [f \in DOMAIN p |-> <<"synthesist", LowerCamel(f)>>]
    <3>1. DOMAIN name = DOMAIN p
      OBVIOUS
    <3> HIDE DEF name
    <3>2. P = Renamed(p, name)
      BY DEF name
    <3> HIDE DEF P
    <3>3. PICK f \in DOMAIN name : P[k] = p[f]
      BY <3>2, RenamedKeeps
    <3> QED  BY <1>2, <3>1, <3>3
  <2> QED  BY <2>1
<1>4. W = P ++ [k \in Always |-> "envelope"]
  <2>1. Always \cup {} = Always
    OBVIOUS
  <2> QED  BY <2>1 DEF Wire
<1> HIDE DEF P, W
<1>5. ASSUME NEW k \in DOMAIN W \ Envelope  PROVE W[k] \in Value
  <2>1. k \notin Always
    BY DEF Envelope
  <2>2. k \in DOMAIN P /\ W[k] = P[k]
    BY <1>4, <2>1 DEF ++
  <2> QED  BY <1>3, <2>2
<1> DEFINE d == [type |-> c.type, sup |-> 0, by |-> c.by, doc |-> W]
<1>6. d.sup = 0 /\ d.by = "elsewhere" /\ d.doc = W
  BY <1>1
<1> HIDE DEF d
<1>7. Claim(d, n)
  BY <1>5, <1>6 DEF Claim
<1> QED  BY <1>7 DEF d, W, p

\* What someone else appends.
LEMMA ForeignFits ==
  ASSUME NEW n \in Nat \ {0}, NEW c \in Foreign, c.sup <= n - 1
  PROVE  Claim(c, n)
<1>1. c.by = "elsewhere" /\ c.sup \in Nat /\ \A k \in DOMAIN c.doc \ Envelope : c.doc[k] \in Value
  BY CliAssumption
<1> QED  BY <1>1 DEF Claim

\* The log grows by one claim that fits.
LEMMA LogGrows ==
  ASSUME LogInv, Len(log) < MaxLog, NEW c, Claim(c, Len(log) + 1), log' = Append(log, c)
  PROVE  LogInv'
<1>1. PICK S : log \in Seq(S)
  BY DEF LogInv
<1> DEFINE T == S \cup {c}
           m == Len(log)
<1>2. log \in Seq(T) /\ c \in T
  BY <1>1, SeqMonotonic
<1>3. /\ log' \in Seq(T) /\ Len(log') = m + 1 /\ log'[m + 1] = c
      /\ \A n \in 1..m : log'[n] = log[n]
  BY <1>2, AppendProperties
<1>4. m \in Nat /\ DOMAIN log = 1..m /\ DOMAIN log' = 1..(m + 1) /\ MaxLog \in Nat
  BY <1>2, <1>3, LenProperties, CliAssumption
<1> HIDE DEF m, T
<1>5. ASSUME NEW n \in DOMAIN log'  PROVE Claim(log'[n], n)
  <2>1. CASE n = m + 1
    BY <1>3, <2>1 DEF m
  <2>2. CASE n # m + 1
    <3>1. n \in DOMAIN log /\ log'[n] = log[n]
      BY <1>3, <1>4, <2>2
    <3> QED  BY <3>1 DEF LogInv
  <2> QED  BY <2>1, <2>2
<1>6. Len(log') <= MaxLog
  BY <1>3, <1>4 DEF m
<1>7. \E U : log' \in Seq(U)
  BY <1>3
<1> QED  BY <1>5, <1>6, <1>7 DEF LogInv

\* A validated write.
LEMMA WriteKeeps ==
  ASSUME LogInv, NEW p, NEW type, NEW props, NEW sup \in 0..Len(log), NEW by \in String,
         Proper(props), Write(p, type, props, sup, by)
  PROVE  LogInv'
<1>1. CASE Valid(type, props)
  <2> DEFINE c == [type |-> type, sup |-> sup, by |-> by, doc |-> Wire(props, sup)]
  <2>1. log' = Append(log, c) /\ Len(log) < MaxLog
    BY <1>1 DEF Write, AppendClaim
  <2>2. Len(log) \in Nat
    BY LenProperties DEF LogInv
  <2>3. Len(log) + 1 \in Nat /\ (Len(log) + 1) - 1 = Len(log)
    BY <2>2
  <2>4. sup \in 0..((Len(log) + 1) - 1)
    BY <2>3
  <2>5. Claim(c, Len(log) + 1)
    BY <1>1, <2>3, <2>4, WriteFits
  <2> HIDE DEF c
  <2> QED  BY <2>1, <2>5, LogGrows
<1>2. CASE ~Valid(type, props)
  BY <1>2 DEF Write, LogInv
<1> QED  BY <1>1, <1>2

\* The handlers that append.
LEMMA CommandsKeep ==
  ASSUME Types, LogInv, NEW p \in Process,
         RunAdd(p) \/ RunPhaseSet(p) \/ RunRevise(p) \/ RunImport(p)
  PROVE  LogInv'
<1> DEFINE c == cmd[p]
<1>1. c \in Invocation /\ c.session \in Free \cup {"", NoSession}
  BY CliAssumption DEF Types
<1>2. Asserter(c.session) \in Free \cup {""} /\ Free \cup {""} \subseteq String
  BY DEF Asserter, String, NonEmpty
<1>3. Len(log) \in Nat /\ DOMAIN log = 1..Len(log) /\ 0 \in 0..Len(log)
      /\ \A n \in DOMAIN log : n \in 0..Len(log)
  BY LenProperties DEF LogInv
<1> HIDE DEF c
<1>4. CASE RunAdd(p)
  <2>1. c.key \in Adds /\ c.key # <<"phase", "set">>
    BY <1>4 DEF RunAdd, c
  <2> DEFINE by(props) == IF c.key[1] = "session" THEN props.id ELSE Asserter(c.session)
  <2>2. PICK props \in Added(c.key, c.session, TextArg) :
          Write(p, c.key[1], props, 0, by(props))
    BY <1>4 DEF RunAdd, c
  <2>3. Proper(props)
    BY <1>1, <2>1, AddedIsProper
  <2>4. by(props) \in String \/ ~Valid(c.key[1], props)
    <3>1. CASE c.key[1] = "session" /\ Valid(c.key[1], props)
      <4>1. Get(props, "id") \in NonEmpty
        <5>1. "id" \in DOMAIN Schema["session"] /\ Schema["session"]["id"] = NonEmpty
          BY DEF Schema, SessionFields, Required, Maybe, ++
        <5> QED  BY <3>1, <5>1 DEF Valid
      <4>2. props.id \in NonEmpty
        BY <4>1 DEF Get, NonEmpty, Free, SpecStatus, TaskStatus, OutcomeStatus, Phase
      <4> QED  BY <3>1, <4>2 DEF String
    <3>2. CASE c.key[1] # "session"
      BY <1>2, <3>2
    <3> QED  BY <3>1, <3>2
  <2>5. CASE ~Valid(c.key[1], props)
    BY <2>2, <2>5 DEF Write, LogInv
  <2> HIDE DEF by
  <2> QED  BY <1>3, <2>2, <2>3, <2>4, <2>5, WriteKeeps
<1>5. CASE RunPhaseSet(p)
  <2>1. c.key = <<"phase", "set">> /\ c.session \in Free
    BY <1>5 DEF RunPhaseSet, c
  <2>2. PICK props \in Added(c.key, c.session, TextArg), n \in 0..Len(log) :
          Write(p, "phase", props, n, Asserter(c.session))
    BY <1>3, <1>5 DEF RunPhaseSet, c
  <2>3. c.key \in Adds
    BY <2>1 DEF Adds
  <2>4. Proper(props)
    BY <1>1, <2>1, <2>3, AddedIsProper
  <2> QED  BY <1>2, <2>2, <2>4, WriteKeeps
<1>6. CASE RunRevise(p)
  <2>1. PICK n \in DOMAIN log :
          /\ c.key \in Revises(log[n].type)
          /\ \E e \in Edits(c.key, PropsOf(n), Asserter(c.session), TextArg) :
               Write(p, log[n].type, Revised(log[n].type, PropsOf(n), e), n, Asserter(c.session))
    BY <1>6 DEF RunRevise, c
  <2>2. PICK e \in Edits(c.key, PropsOf(n), Asserter(c.session), TextArg) :
          Write(p, log[n].type, Revised(log[n].type, PropsOf(n), e), n, Asserter(c.session))
    BY <2>1
  <2>3. log[n].type \in {"task", "spec", "tree", "session"} /\ Proper(e)
    BY <1>2, <2>1, <2>2, EditIsProper
  <2>4. Proper(Revised(log[n].type, PropsOf(n), e))
    BY <2>3, RevisedIsProper
  <2> QED  BY <1>2, <1>3, <2>2, <2>4, WriteKeeps
<1>7. CASE RunImport(p)
  <2>1. PICK f \in Foreign : AppendClaim(f.type, ReplayedProps(f.doc), 0, f.by)
    BY <1>7 DEF RunImport
  <2> DEFINE d == [type |-> f.type, sup |-> 0, by |-> f.by, doc |-> Wire(ReplayedProps(f.doc), 0)]
  <2>2. log' = Append(log, d) /\ Len(log) < MaxLog
    BY <2>1 DEF AppendClaim
  <2>3. Claim(d, Len(log) + 1)
    <3>1. Len(log) + 1 \in Nat \ {0}
      BY <1>3
    <3> QED  BY <3>1, ImportFits
  <2> HIDE DEF d
  <2> QED  BY <2>2, <2>3, LogGrows
<1> QED  BY <1>4, <1>5, <1>6, <1>7

LEMMA LogKeeps ==
  ASSUME Types, LogInv, CliNext
  PROVE  LogInv'
<1>1. ASSUME NEW c \in Foreign, Receive(c)  PROVE LogInv'
  <2>1. log' = Append(log, c) /\ Len(log) < MaxLog /\ c.sup <= Len(log)
    BY <1>1 DEF Receive
  <2>2. Len(log) \in Nat
    BY LenProperties DEF LogInv
  <2>3. Len(log) + 1 \in Nat \ {0} /\ c.sup <= (Len(log) + 1) - 1
    BY <2>1, <2>2
  <2>4. Claim(c, Len(log) + 1)
    BY <2>3, ForeignFits
  <2> QED  BY <2>1, <2>4, LogGrows
<1>2. ASSUME NEW p \in Process, RunAdd(p) \/ RunPhaseSet(p) \/ RunRevise(p) \/ RunImport(p)
      PROVE  LogInv'
  BY <1>2, CommandsKeep
<1>3. CASE log' = log
  BY <1>3 DEF LogInv
<1>4. ASSUME NEW p \in Process, Step(p), ~(RunAdd(p) \/ RunPhaseSet(p) \/ RunRevise(p) \/ RunImport(p))
      PROVE  log' = log
  BY <1>4 DEF Step, Begin, ReadReference, ResolveManifest, PassGates, UseSurface, WriteSurface,
              RunRead, Kill
<1>5. ASSUME NEW path, NEW m, Edit(path, m)  PROVE log' = log
  BY <1>5 DEF Edit
<1> QED  BY Zenon, <1>1, <1>2, <1>3, <1>4, <1>5 DEF CliNext

LEMMA LogHolds == CliSpec => []LogInv
<1>1. CliInit => LogInv
  <2> SUFFICES ASSUME CliInit PROVE LogInv
    OBVIOUS
  <2>1. log = <<>> /\ <<>> \in Seq({}) /\ Len(<<>>) = 0 /\ \A n \in DOMAIN <<>> : FALSE
    BY EmptySeq, LenProperties DEF CliInit
  <2>2. 0 <= MaxLog
    <3>1. MaxLog \in Nat
      BY CliAssumption
    <3> QED  BY <3>1
  <2> QED  BY <2>1, <2>2 DEF LogInv
<1>2. IInv /\ LogInv /\ [CliNext]_cliVars => LogInv'
  <2>1. ASSUME LogInv, UNCHANGED cliVars  PROVE LogInv'
    BY <2>1 DEF cliVars, LogInv
  <2> QED  BY <2>1, LogKeeps DEF IInv
<1> QED  BY <1>1, <1>2, Invariant, PTL DEF CliSpec

\* What the commands append passes `check` (cmd_check.rs reads the props out of
\* the document; store.rs validates them before they go in).
THEOREM WritesPassCheck == CliSpec => []WrittenPassCheck
<1>1. LogInv => WrittenPassCheck
  BY DEF LogInv, Claim, Written, WrittenPassCheck, Accepted, PropsOf
<1> QED  BY <1>1, LogHolds, PTL

\* Only an edit changes a manifest.
Manifests == files \in [Path -> Edited \cup {Broken}]

LEMMA ManifestsHold == CliSpec => []Manifests
<1>1. CliInit => Manifests
  BY DEF CliInit, SurfaceInit, Manifests
<1>2. Manifests /\ [CliNext]_cliVars => Manifests'
  <2> SUFFICES ASSUME Manifests, [CliNext]_cliVars PROVE Manifests'
    OBVIOUS
  <2>1. ASSUME NEW path \in Path, NEW m \in Edited \cup {Broken}, Edit(path, m)  PROVE Manifests'
    BY <2>1 DEF Edit, EditFile, Manifests
  <2>2. CASE files' = files
    BY <2>2 DEF Manifests
  <2>3. ASSUME NEW p \in Process, Step(p)  PROVE files' = files
    BY <2>3 DEF Step, Begin, ReadReference, ResolveManifest, PassGates, UseSurface, WriteSurface,
                RunAdd, RunPhaseSet, RunRevise, RunImport, RunRead, Kill, Write, Truncate, WriteSticky
  <2>4. ASSUME NEW c, Receive(c)  PROVE files' = files
    BY <2>4 DEF Receive
  <2> QED  BY <2>1, <2>2, <2>3, <2>4 DEF CliNext, cliVars
<1> QED  BY <1>1, <1>2, PTL DEF CliSpec

\* Every variable keeps its type, and so does what any reader takes out of a
\* document, whatever came from elsewhere.
THEOREM CliTypeCorrect == CliSpec => []CliTypeOK
<1>1. IInv /\ LogInv /\ Manifests => CliTypeOK
  <2> SUFFICES ASSUME IInv, LogInv, Manifests PROVE CliTypeOK
    OBVIOUS
  <2>1. ASSUME NEW n \in DOMAIN log, NEW f \in DOMAIN PropsOf(n)
        PROVE  PropsOf(n)[f] \in Value
    <3> DEFINE doc == log[n].doc
               name == [k \in DOMAIN doc \ Envelope |-> Snake(k[2])]
    <3>1. DOMAIN name = DOMAIN doc \ Envelope /\ \A k \in DOMAIN doc \ Envelope : doc[k] \in Value
      BY DEF LogInv, Claim
    <3>2. PropsOf(n) = Renamed(doc, name)
      BY DEF PropsOf, BareProps
    <3> HIDE DEF doc, name
    <3>3. PICK k \in DOMAIN name : PropsOf(n)[f] = doc[k]
      BY <3>2, RenamedKeeps
    <3> QED  BY <3>1, <3>3
  <2>2. \A n \in DOMAIN log : log[n].sup \in 0..(n - 1) /\ log[n].by \in String \cup {"elsewhere"}
    BY DEF LogInv, Claim
  <2> QED  BY <2>1, <2>2 DEF IInv, Types, LogInv, Manifests, CliTypeOK
<1> QED  BY <1>1, Invariant, LogHolds, ManifestsHold, PTL

-----------------------------------------------------------------------------
(* What the validators require *)

LEMMA TaskSchema ==
  /\ DOMAIN Schema["task"] = {"tree", "spec", "id", "summary", "description", "owner", "status",
                              "gate", "depends_on", "files", "acceptance"}
  /\ \A f \in {"tree", "spec", "id", "summary"} : Schema["task"][f] = NonEmpty
  /\ \A f \in {"description", "owner"} : Schema["task"][f] = Optional(String)
  /\ Schema["task"]["status"] = TaskStatus
  /\ Schema["task"]["gate"] = Optional({"human"})
  /\ \A f \in {"depends_on", "files"} : Schema["task"][f] = Optional(StringArray)
  /\ Schema["task"]["acceptance"] = Optional(Criteria)
<1>1. Schema["task"] = TaskFields
  BY DEF Schema
<1> QED  BY <1>1 DEF TaskFields, Required, Maybe, ++

LEMMA SpecSchema ==
  /\ DOMAIN Schema["spec"] = {"tree", "id", "goal", "constraints", "decisions", "status", "topics",
                              "agree_snapshot"}
  /\ \A f \in {"tree", "id", "goal"} : Schema["spec"][f] = NonEmpty
  /\ \A f \in {"constraints", "decisions"} : Schema["spec"][f] = Optional(String)
  /\ Schema["spec"]["status"] = SpecStatus
  /\ Schema["spec"]["topics"] = StringArray \ {"[]"}
  /\ Schema["spec"]["agree_snapshot"] = Optional(StringArray)
<1>1. Schema["spec"] = SpecFields
  BY DEF Schema
<1> QED  BY <1>1 DEF SpecFields, Required, Maybe, ++

LEMMA TreeSchema ==
  /\ DOMAIN Schema["tree"] = {"name", "description"}
  /\ Schema["tree"]["name"] = NonEmpty /\ Schema["tree"]["description"] = Optional(String)
BY DEF Schema, TreeFields, Required, Maybe, ++

LEMMA SessionSchema ==
  /\ DOMAIN Schema["session"] = {"id", "tree", "spec", "summary"}
  /\ Schema["session"]["id"] = NonEmpty
  /\ \A f \in {"tree", "spec", "summary"} : Schema["session"][f] = Optional(String)
BY DEF Schema, SessionFields, Required, Maybe, ++

\* Non-empty strings are strings, and strings are there.
LEMMA StringsAre ==
  /\ NonEmpty \subseteq String /\ "absent" \notin String /\ "null" \notin String
  /\ Free \subseteq NonEmpty /\ SpecStatus \subseteq NonEmpty /\ TaskStatus \subseteq NonEmpty
  /\ OutcomeStatus \subseteq NonEmpty /\ Phase \subseteq NonEmpty
  /\ {"human", "backlog", "active"} \subseteq NonEmpty /\ "" \notin NonEmpty
BY DEF String, NonEmpty, Free, SpecStatus, TaskStatus, OutcomeStatus, Phase

\* What a column holds in one function put over another, and in Texts.
LEMMA GetOver ==
  ASSUME NEW f, NEW g, NEW x
  PROVE  Get(f ++ g, x) = IF x \in DOMAIN f THEN f[x] ELSE Get(g, x)
BY DEF Get, ++

LEMMA OverTwice ==
  ASSUME NEW f, NEW g, NEW h
  PROVE  f ++ g ++ h = f ++ (g ++ h)
BY DEF ++

LEMMA GetTexts ==
  ASSUME NEW props, NEW F, NEW x
  PROVE  Get(Texts(props, F), x) =
           IF x \in F /\ Get(props, x) \in NonEmpty THEN Get(props, x) ELSE "absent"
<1>1. "absent" \notin NonEmpty
  BY StringsAre
<1> QED  BY <1>1 DEF Get, Texts

LEMMA GetTextsOver ==
  ASSUME NEW props, NEW F, NEW g, NEW x
  PROVE  Get(Texts(props, F) ++ g, x) =
           IF x \in F /\ Get(props, x) \in NonEmpty THEN Get(props, x) ELSE Get(g, x)
<1>1. "absent" \notin NonEmpty
  BY StringsAre
<1>2. DOMAIN Texts(props, F) = {f \in F : Get(props, f) \in NonEmpty}
  BY DEF Texts
<1>3. x \in F /\ Get(props, x) \in NonEmpty => Texts(props, F)[x] = Get(props, x)
  BY <1>1 DEF Texts, Get
<1> QED  BY <1>2, <1>3, GetOver

LEMMA GetStrings ==
  ASSUME NEW props, NEW F, NEW x
  PROVE  Get(Strings(props, F), x) =
           IF x \in F /\ Get(props, x) \in String THEN Get(props, x) ELSE "absent"
<1>1. "absent" \notin String
  BY StringsAre
<1>2. DOMAIN Strings(props, F) = {f \in F : Get(props, f) \in String}
  BY DEF Strings
<1>3. x \in F /\ Get(props, x) \in String => Strings(props, F)[x] = Get(props, x)
  BY <1>1 DEF Strings, Get
<1> QED  BY <1>2, <1>3 DEF Get

LEMMA GetStringsOver ==
  ASSUME NEW props, NEW F, NEW g, NEW x
  PROVE  Get(Strings(props, F) ++ g, x) =
           IF x \in F /\ Get(props, x) \in String THEN Get(props, x) ELSE Get(g, x)
<1>1. "absent" \notin String
  BY StringsAre
<1>2. DOMAIN Strings(props, F) = {f \in F : Get(props, f) \in String}
  BY DEF Strings
<1>3. x \in F /\ Get(props, x) \in String => Strings(props, F)[x] = Get(props, x)
  BY <1>1 DEF Strings, Get
<1> QED  BY <1>2, <1>3, GetOver

LEMMA GetLists ==
  ASSUME NEW props, NEW F, NEW x
  PROVE  Get(Lists(props, F), x) = IF x \in F THEN Members(Get(props, x)) ELSE "absent"
BY DEF Lists, Get

\* An accepted claim can be rebuilt and edited, whichever valid edit it is.
LEMMA RevisionIsValid ==
  ASSUME NEW type \in DOMAIN FoundBy, NEW old, Valid(type, old), Found(type, old), NEW e,
         \A f \in DOMAIN e \cap DOMAIN Schema[type] : e[f] \in Schema[type][f]
  PROVE  Valid(type, Revised(type, old, e))
<1> DEFINE new == Revised(type, old, e)
           topics == [f \in (IF type = "spec" THEN {"topics"} ELSE {}) |-> Members(old.id)]
           R == Rebuilt(type, old)
<1>1. type \in {"task", "spec", "tree", "session"} /\ type \in DOMAIN Schema /\ type # "outcome"
  BY DEF FoundBy, Schema
<1>2. ASSUME NEW x
      PROVE  Get(new, x) = IF x \in DOMAIN e THEN e[x]
                           ELSE IF x \in DOMAIN R THEN R[x] ELSE Get(topics, x)
  BY DEF Revised, Get, ++
<1> HIDE DEF new, R
<1>3. ASSUME NEW x \in DOMAIN Schema[type], x \notin DOMAIN e
      PROVE  Get(new, x) \in Schema[type][x]
  <2>0. Get(old, x) \in Schema[type][x]
    BY <1>3 DEF Valid
  <2>1. CASE type = "task"
    <3> DEFINE F == {"tree", "spec", "id", "summary", "description", "gate"}
               r == [status |-> Text(old, "status"), depends_on |-> Members(Get(old, "depends_on")),
                     files |-> Members(Get(old, "files"))]
    <3>1. R = Texts(old, F) ++ r
      BY <2>1 DEF R, Rebuilt, TaskProps
    <3>2. Get(new, x) = IF x \in F /\ Get(old, x) \in NonEmpty THEN Get(old, x) ELSE Get(r, x)
      BY <1>2, <1>3, <2>1, <3>1, StringsAre DEF Texts, ++, Get
    <3>3. CASE x \in F
      <4>1. Get(r, x) = "absent"
        BY <3>3 DEF Get
      <4> QED  BY <2>0, <2>1, <3>2, <3>3, <4>1, TaskSchema, StringsAre DEF Optional, String
    <3>4. CASE x = "status"
      <4>1. Get(old, "status") \in NonEmpty
        BY <2>0, <2>1, <3>4, TaskSchema, StringsAre
      <4>2. Get(new, x) = Get(old, "status")
        BY <3>2, <3>4, <4>1, StringsAre DEF Get, Text
      <4> QED  BY <2>0, <3>4, <4>2
    <3>5. CASE x \in {"depends_on", "files"}
      <4>1. Get(new, x) = Members(Get(old, x))
        BY <3>2, <3>5 DEF Get
      <4>2. {"[x]", "[y]", "[]"} \subseteq StringArray
        BY DEF StringArray
      <4> QED  BY <2>1, <3>5, <4>1, <4>2, MembersAreArrays, TaskSchema DEF Optional
    <3>6. CASE x \in {"owner", "acceptance"}
      <4>1. Get(new, x) = "absent"
        BY <3>2, <3>6 DEF Get
      <4> QED  BY <2>1, <3>6, <4>1, TaskSchema DEF Optional
    <3> QED  BY <1>3, <2>1, <3>3, <3>4, <3>5, <3>6, TaskSchema
  <2>2. CASE type = "spec"
    <3> DEFINE F == {"tree", "id", "goal", "constraints", "decisions", "status", "outcome"}
    <3>1. R = Texts(old, F)
      BY <2>2 DEF R, Rebuilt, SpecProps
    <3>2. Get(new, x) = IF x \in F /\ Get(old, x) \in NonEmpty THEN Get(old, x)
                        ELSE IF x = "topics" THEN Members(old.id) ELSE "absent"
      BY <1>2, <1>3, <2>2, <3>1, StringsAre DEF Texts, Get
    <3>3. CASE x \in {"tree", "id", "goal", "constraints", "decisions", "status"}
      BY <2>0, <2>2, <3>2, <3>3, SpecSchema, StringsAre DEF Optional, String
    <3>4. CASE x = "topics"
      <4>1. Get(old, "id") \in Free
        BY <2>2 DEF Found, FoundBy
      <4>2. old.id \in Free
        BY <4>1, StringsAre DEF Get
      <4>3. Members(old.id) \in {"[x]", "[y]"}
        BY <4>2 DEF Members, Free
      <4> QED  BY <2>2, <3>2, <3>4, <4>3, SpecSchema DEF StringArray
    <3>5. CASE x = "agree_snapshot"
      BY <2>2, <3>2, <3>5, SpecSchema DEF Optional
    <3> QED  BY <1>3, <2>2, <3>3, <3>4, <3>5, SpecSchema
  <2>3. CASE type = "tree"
    <3>1. R = Texts(old, {"name", "description"})
      BY <2>3 DEF R, Rebuilt, TreeProps
    <3>2. Get(new, x) = IF x \in {"name", "description"} /\ Get(old, x) \in NonEmpty THEN Get(old, x) ELSE "absent"
      BY <1>2, <1>3, <2>3, <3>1, StringsAre DEF Texts, Get
    <3> QED  BY <1>3, <2>0, <2>3, <3>2, TreeSchema, StringsAre DEF Optional, String
  <2>4. CASE type = "session"
    <3> DEFINE F == {"id", "tree", "spec", "summary"}
    <3>1. R = Texts(old, F)
      BY <2>4 DEF R, Rebuilt, SessionProps
    <3>2. Get(new, x) = IF x \in F /\ Get(old, x) \in NonEmpty THEN Get(old, x) ELSE "absent"
      BY <1>2, <1>3, <2>4, <3>1, StringsAre DEF Texts, Get
    <3> QED  BY <1>3, <2>0, <2>4, <3>2, SessionSchema, StringsAre DEF Optional, String
  <2> QED  BY <1>1, <2>1, <2>2, <2>3, <2>4
<1>4. ASSUME NEW x \in DOMAIN Schema[type]
      PROVE  Get(new, x) \in Schema[type][x]
  BY <1>2, <1>3
<1> QED  BY <1>1, <1>4 DEF Valid, new

\* A revision of claim n, and what it rests on.
LEMMA RevisionsAre ==
  ASSUME NEW n, NEW r \in Revisions(n)
  PROVE  \E key \in Revises(log[n].type) :
           /\ log[n].type \in DOMAIN FoundBy /\ Found(log[n].type, PropsOf(n))
           /\ r.edit \in Edits(key, PropsOf(n), "x", TextArg)
           /\ r.props = Revised(log[n].type, PropsOf(n), r.edit)
<1> DEFINE type == log[n].type
           old == PropsOf(n)
           By(key) == {[edit |-> e, props |-> Revised(type, old, e)] :
                         e \in Edits(key, old, "x", TextArg)}
<1>1. /\ type \in DOMAIN FoundBy /\ Found(type, old)
      /\ r \in UNION {By(key) : key \in Revises(type)}
  BY DEF Revisions
<1>2. PICK key \in Revises(type) : r \in By(key)
  <2> HIDE DEF By
  <2> QED  BY <1>1
<1>3. PICK e \in Edits(key, old, "x", TextArg) : r = [edit |-> e, props |-> Revised(type, old, e)]
  BY <1>2
<1>4. r.edit = e /\ r.props = Revised(type, old, e)
  BY <1>3
<1> HIDE DEF old, type
<1>5. /\ type \in DOMAIN FoundBy /\ Found(type, old)
      /\ r.edit \in Edits(key, old, "x", TextArg)
      /\ r.props = Revised(type, old, r.edit)
  BY <1>1, <1>4
<1> QED  BY <1>5 DEF type, old

\* No claim is stuck: one that check accepts can be revised by each command with
\* arguments that are valid (live_tasks, live_spec_heads and the like drop no
\* field that validate_props requires).
THEOREM CheckedClaimsAreUsable == CliSpec => []CheckedAreUsable
<1>1. CheckedAreUsable
  <2> SUFFICES ASSUME NEW n \in DOMAIN log, Accepted(n), NEW r \in Revisions(n),
                      \A f \in DOMAIN r.edit \cap DOMAIN Schema[log[n].type] :
                        r.edit[f] \in Schema[log[n].type][f]
               PROVE  Valid(log[n].type, r.props)
    BY DEF CheckedAreUsable
  <2>1. /\ log[n].type \in DOMAIN FoundBy /\ Found(log[n].type, PropsOf(n))
        /\ r.props = Revised(log[n].type, PropsOf(n), r.edit)
    BY RevisionsAre
  <2>2. Valid(log[n].type, PropsOf(n))
    BY <2>1 DEF Accepted, FoundBy, Schema
  <2> QED  BY <2>1, <2>2, RevisionIsValid
<1> QED  BY <1>1, PTL

-----------------------------------------------------------------------------
(* What export shows of a revision *)

LEMMA FreeIsNamed ==
  ASSUME NEW props, NEW f, Get(props, f) \in Free
  PROVE  Get(props, f) \in NonEmpty /\ Get(props, f) \in String /\ Get(props, f) = props[f]
BY StringsAre DEF Get

\* What export shows of a task.
TaskRow(props) ==
  Strings(props, Keys.task) ++ Texts(props, {"summary", "description", "gate"})
  ++ [status |-> Text(props, "status")] ++ Lists(props, {"depends_on", "files"})

LEMMA GetTaskRow ==
  ASSUME NEW props, NEW x
  PROVE  Get(TaskRow(props), x) =
           IF x \in {"tree", "spec", "id"} /\ Get(props, x) \in String THEN Get(props, x)
           ELSE IF x \in {"summary", "description", "gate"} /\ Get(props, x) \in NonEmpty
           THEN Get(props, x)
           ELSE IF x = "status" THEN Text(props, "status")
           ELSE IF x \in {"depends_on", "files"} THEN Members(Get(props, x)) ELSE "absent"
<1> DEFINE S == Strings(props, Keys.task)
           T == Texts(props, {"summary", "description", "gate"})
           s == [status |-> Text(props, "status")]
           L == Lists(props, {"depends_on", "files"})
<1>1. Keys.task = {"tree", "spec", "id"}
  BY DEF Keys
<1>2. TaskRow(props) = S ++ (T ++ (s ++ L))
  <2> HIDE DEF S, T, s, L
  <2>1. S ++ T ++ s ++ L = S ++ T ++ (s ++ L)
    BY OverTwice
  <2>2. S ++ T ++ (s ++ L) = S ++ (T ++ (s ++ L))
    BY OverTwice
  <2> QED  BY <2>1, <2>2 DEF TaskRow, S, T, s, L
<1>3. Get(S ++ (T ++ (s ++ L)), x) = IF x \in Keys.task /\ Get(props, x) \in String THEN Get(props, x)
                                     ELSE Get(T ++ (s ++ L), x)
  <2> HIDE DEF T, s, L
  <2> QED  BY GetStringsOver
<1>4. Get(T ++ (s ++ L), x) = IF x \in {"summary", "description", "gate"} /\ Get(props, x) \in NonEmpty
                              THEN Get(props, x) ELSE Get(s ++ L, x)
  <2> HIDE DEF s, L
  <2> QED  BY GetTextsOver
<1>5. Get(s ++ L, x) = IF x = "status" THEN Text(props, "status") ELSE Get(L, x)
  <2>1. DOMAIN s = {"status"} /\ s["status"] = Text(props, "status")
    OBVIOUS
  <2> HIDE DEF s, L
  <2> QED  BY <2>1, GetOver
<1>6. Get(L, x) = IF x \in {"depends_on", "files"} THEN Members(Get(props, x)) ELSE "absent"
  BY GetLists
<1> HIDE DEF S, T, s, L
<1> QED  BY <1>1, <1>2, <1>3, <1>4, <1>5, <1>6

LEMMA TaskIsKept ==
  ASSUME NEW old, Found("task", old), NEW e, \A f \in FoundBy["task"] : f \notin DOMAIN e,
         NEW before \in ProjectTask(old)
  PROVE  \E after \in ProjectTask(Revised("task", old, e)) :
           \A f \in (DOMAIN before \cup DOMAIN after) \ DOMAIN e : Get(before, f) = Get(after, f)
<1> DEFINE new == Revised("task", old, e)
           Names == {"tree", "spec", "id"}
<1>1. before = TaskRow(old)
  BY DEF ProjectTask, IfStrings, TaskRow
<1>2. Keys.task = Names /\ FoundBy["task"] = Names /\ \A f \in Names : Get(old, f) \in Free
  BY DEF Keys, FoundBy, Found
<1>3. ASSUME NEW x, x \notin DOMAIN e
      PROVE  Get(new, x) =
               IF x \in Names \cup {"summary", "description", "gate"} /\ Get(old, x) \in NonEmpty
               THEN Get(old, x)
               ELSE IF x = "status" THEN Text(old, "status")
               ELSE IF x \in {"depends_on", "files"} THEN Members(Get(old, x)) ELSE "absent"
  <2> DEFINE F == {"tree", "spec", "id", "summary", "description", "gate"}
             r == [status |-> Text(old, "status"), depends_on |-> Members(Get(old, "depends_on")),
                   files |-> Members(Get(old, "files"))]
             R == Texts(old, F) ++ r
             none == [f \in {} |-> Members(old.id)]
  <2>1. new = e ++ R ++ none
    BY DEF Revised, Rebuilt, TaskProps
  <2>2. Get(none, x) = "absent"
    BY DEF Get
  <2>3. Get(r, x) = IF x = "status" THEN Text(old, "status")
                    ELSE IF x \in {"depends_on", "files"} THEN Members(Get(old, x)) ELSE "absent"
    BY DEF Get
  <2>4. Get(R, x) = IF x \in F /\ Get(old, x) \in NonEmpty THEN Get(old, x) ELSE Get(r, x)
    BY GetTextsOver
  <2> HIDE DEF new, R, none, r
  <2>5. Get(new, x) = Get(R, x)
    BY <1>3, <2>1, <2>2 DEF Get, ++
  <2> QED  BY <2>3, <2>4, <2>5
<1> HIDE DEF new
<1>4. \A f \in Names : Get(new, f) = Get(old, f) /\ Get(new, f) \in String
  BY <1>2, <1>3, FreeIsNamed
<1>5. TaskRow(new) \in ProjectTask(new)
  BY <1>2, <1>4 DEF ProjectTask, IfStrings, TaskRow
<1>6. ASSUME NEW p, \A f \in Names : Get(p, f) \in String, NEW x
      PROVE  Get(TaskRow(p), x) =
               IF x \in Names THEN Get(p, x)
               ELSE IF x \in {"summary", "description", "gate"} /\ Get(p, x) \in NonEmpty THEN Get(p, x)
               ELSE IF x = "status" THEN Text(p, "status")
               ELSE IF x \in {"depends_on", "files"} THEN Members(Get(p, x)) ELSE "absent"
  BY <1>6, GetTaskRow
<1>7. \A f \in Names : Get(old, f) \in String
  BY <1>2, FreeIsNamed
<1>8. ASSUME NEW x, x \notin DOMAIN e
      PROVE  Get(TaskRow(old), x) = Get(TaskRow(new), x)
  <2>1. CASE x \in Names
    BY <1>4, <1>6, <1>7, <2>1
  <2>2. CASE x \in {"summary", "description", "gate"}
    <3>1. Get(new, x) = IF Get(old, x) \in NonEmpty THEN Get(old, x) ELSE "absent"
      BY <1>3, <1>8, <2>2
    <3> QED  BY <1>4, <1>6, <1>7, <2>2, <3>1, StringsAre
  <2>3. CASE x = "status"
    <3>1. Get(new, "status") = Text(old, "status")
      BY <1>3, <1>8, <2>3
    <3>2. Text(new, "status") = Text(old, "status")
      BY <3>1, StringsAre DEF Text, Get
    <3> QED  BY <1>4, <1>6, <1>7, <2>3, <3>2
  <2>4. CASE x \in {"depends_on", "files"}
    <3>1. Get(new, x) = Members(Get(old, x))
      BY <1>3, <1>8, <2>4
    <3> QED  BY <1>4, <1>6, <1>7, <2>4, <3>1, MembersAreArrays
  <2>5. CASE x \notin Names \cup {"summary", "description", "gate", "status", "depends_on", "files"}
    BY <1>4, <1>6, <1>7, <2>5
  <2> QED  BY <2>1, <2>2, <2>3, <2>4, <2>5
<1> QED  BY <1>1, <1>5, <1>8 DEF new

LEMMA SpecIsKept ==
  ASSUME NEW old, Found("spec", old), NEW e, \A f \in FoundBy["spec"] : f \notin DOMAIN e,
         NEW before \in ProjectSpec(old)
  PROVE  \E after \in ProjectSpec(Revised("spec", old, e)) :
           \A f \in (DOMAIN before \cup DOMAIN after) \ DOMAIN e : Get(before, f) = Get(after, f)
<1> DEFINE new == Revised("spec", old, e)
           Names == {"tree", "id"}
           Rest == {"goal", "constraints", "decisions", "status", "outcome"}
           row(p) == Strings(p, Keys.spec) ++ Texts(p, Rest)
<1>1. before = row(old)
  BY DEF ProjectSpec, IfStrings
<1>2. Keys.spec = Names /\ FoundBy["spec"] = Names /\ \A f \in Names : Get(old, f) \in Free
  BY DEF Keys, FoundBy, Found
<1>3. ASSUME NEW x, x \notin DOMAIN e, x # "topics"
      PROVE  Get(new, x) = IF x \in Names \cup Rest /\ Get(old, x) \in NonEmpty
                           THEN Get(old, x) ELSE "absent"
  BY <1>3, StringsAre DEF Revised, Rebuilt, SpecProps, Texts, ++, Get
<1> HIDE DEF new
<1>4. \A f \in Names : Get(new, f) = Get(old, f) /\ Get(new, f) \in String
  BY <1>2, <1>3, FreeIsNamed
<1>5. row(new) \in ProjectSpec(new)
  BY <1>2, <1>4 DEF ProjectSpec, IfStrings
<1>6. ASSUME NEW p, \A f \in Names : Get(p, f) \in String, NEW x
      PROVE  Get(row(p), x) =
               IF x \in Names THEN Get(p, x)
               ELSE IF x \in Rest /\ Get(p, x) \in NonEmpty THEN Get(p, x) ELSE "absent"
  BY <1>2, <1>6, StringsAre DEF Strings, Texts, ++, Get
<1>7. \A f \in Names : Get(old, f) \in String
  BY <1>2, FreeIsNamed
<1> HIDE DEF row
<1>8. ASSUME NEW x, x \notin DOMAIN e
      PROVE  Get(row(old), x) = Get(row(new), x)
  <2>1. CASE x \in Names
    BY <1>4, <1>6, <1>7, <2>1
  <2>2. CASE x \in Rest
    <3>1. Get(new, x) = IF Get(old, x) \in NonEmpty THEN Get(old, x) ELSE "absent"
      BY <1>3, <1>8, <2>2
    <3> QED  BY <1>4, <1>6, <1>7, <2>2, <3>1, StringsAre
  <2>3. CASE x \notin Names \cup Rest
    BY <1>4, <1>6, <1>7, <2>3
  <2> QED  BY <2>1, <2>2, <2>3
<1> QED  BY <1>1, <1>5, <1>8 DEF new

LEMMA TreeIsKept ==
  ASSUME NEW old, Found("tree", old), NEW e, DOMAIN e = {"status"}, NEW before \in ProjectTree(old)
  PROVE  \E after \in ProjectTree(Revised("tree", old, e)) :
           \A f \in (DOMAIN before \cup DOMAIN after) \ DOMAIN e : Get(before, f) = Get(after, f)
<1> DEFINE new == Revised("tree", old, e)
           row(p) == Texts(p, {"name", "description", "status"})
<1>1. before = row(old)
  BY DEF ProjectTree, IfNamed
<1>2. Keys.tree = {"name"} /\ Get(old, "name") \in NonEmpty
  BY StringsAre DEF Keys, FoundBy, Found
<1>3. ASSUME NEW x, x # "status"
      PROVE  Get(new, x) = IF x \in {"name", "description"} /\ Get(old, x) \in NonEmpty
                           THEN Get(old, x) ELSE "absent"
  BY <1>3, StringsAre DEF Revised, Rebuilt, TreeProps, Texts, ++, Get
<1> HIDE DEF new
<1>4. row(new) \in ProjectTree(new)
  BY <1>2, <1>3 DEF ProjectTree, IfNamed
<1>5. ASSUME NEW x, x # "status"
      PROVE  Get(row(old), x) = Get(row(new), x)
  <2>1. \A p : Get(row(p), x) = IF x \in {"name", "description"} /\ Get(p, x) \in NonEmpty
                                THEN Get(p, x) ELSE "absent"
    BY <1>5, GetTexts
  <2> HIDE DEF row
  <2> QED  BY <1>3, <1>5, <2>1
<1> HIDE DEF row
<1> QED  BY <1>1, <1>4, <1>5 DEF new

\* A revision changes nothing that export shows but the fields it sets, although
\* the command rebuilds the claim from a part of it.
THEOREM RevisionsKeepTheRest == CliSpec => []ShownIsKept
<1>1. ShownIsKept
  <2> SUFFICES ASSUME NEW n \in DOMAIN log, log[n].type # "session", NEW r \in Revisions(n),
                      NEW before \in Exported(log[n].type, PropsOf(n))
               PROVE  \E after \in Exported(log[n].type, BareProps(Wire(r.props, n))) :
                        \A f \in (DOMAIN before \cup DOMAIN after) \ DOMAIN r.edit :
                          Get(before, f) = Get(after, f)
    BY DEF ShownIsKept
  <2> DEFINE type == log[n].type
             old == PropsOf(n)
             e == r.edit
  <2>1. PICK key \in Revises(type) :
          /\ Found(type, old) /\ e \in Edits(key, old, "x", TextArg)
          /\ r.props = Revised(type, old, e)
    BY RevisionsAre
  <2>2. type \in {"task", "spec", "tree"} /\ Proper(e) /\ \A f \in FoundBy[type] : f \notin DOMAIN e
    <3>1. "x" \in Free \cup {""}
      BY DEF Free
    <3> QED  BY <2>1, <3>1, EditIsProper
  <2>3. BareProps(Wire(r.props, n)) = Revised(type, old, e)
    BY <2>1, <2>2, RevisedIsProper, PropsComeBack
  <2> HIDE DEF old, e
  <2>4. CASE type = "task"
    <3>1. \A p : Exported(type, p) = ProjectTask(p)
      BY <2>4 DEF Exported
    <3> QED  BY <2>1, <2>2, <2>3, <2>4, <3>1, TaskIsKept DEF old, e
  <2>5. CASE type = "spec"
    <3>1. \A p : Exported(type, p) = ProjectSpec(p)
      BY <2>5 DEF Exported
    <3> QED  BY <2>1, <2>2, <2>3, <2>5, <3>1, SpecIsKept DEF old, e
  <2>6. CASE type = "tree"
    <3>1. \A p : Exported(type, p) = ProjectTree(p)
      BY <2>6 DEF Exported
    <3>2. key = <<"tree", "close">>
      BY <2>1, <2>6, RevisesWhat
    <3>3. e = [status |-> "closed"]
      BY <2>1, <3>2 DEF Edits, TreeCloseEdits
    <3>4. DOMAIN e = {"status"}
      BY <3>3
    <3>5. Found("tree", old) /\ before \in ProjectTree(old)
      BY <2>1, <2>6, <3>1 DEF old
    <3>6. \E after \in ProjectTree(Revised("tree", old, e)) :
            \A f \in (DOMAIN before \cup DOMAIN after) \ DOMAIN e : Get(before, f) = Get(after, f)
      BY <3>4, <3>5, TreeIsKept
    <3> QED  BY <2>3, <2>6, <3>1, <3>6 DEF e
  <2> QED  BY <2>2, <2>4, <2>5, <2>6
<1> QED  BY <1>1, PTL

-----------------------------------------------------------------------------
(* What the readers show *)

Agreeing(type, props) ==
  \E row \in Exported(type, props) : \A other \in Others(type, props) :
    \E r \in other[1] : \A column \in other[2] : Agree(row, r, column)

LEMMA SameAgrees ==
  ASSUME NEW row, NEW r, NEW column, Get(row, column) = Get(r, column)
  PROVE  Agree(row, r, column)
BY DEF Agree

\* The rows of a claim whose names are there.
LEMMA NamedHasRow ==
  ASSUME NEW props, NEW F, \A f \in F : Get(props, f) \in NonEmpty, NEW row
  PROVE  IfNamed(props, F, row) = {row} /\ IfStrings(props, F, row) = {row}
BY StringsAre DEF IfNamed, IfStrings

LEMMA TreeReaders ==
  ASSUME NEW props, \A f \in Keys.tree : Get(props, f) \in NonEmpty
  PROVE  Agreeing("tree", props)
<1> DEFINE row == Texts(props, {"name", "description", "status"})
           described == IF "description" \in DOMAIN props THEN props.description ELSE "null"
           listed == Texts(props, Keys.tree)
                     ++ [status |-> OrActive(Get(props, "status")), description |-> described]
<1>1. Keys.tree = {"name"}
  BY DEF Keys
<1>2. Exported("tree", props) = {row} /\ ListTree(props) = {listed}
  BY NamedHasRow DEF Exported, ProjectTree, ListTree
<1>3. \A x \in {"name", "description", "status"} :
        Get(row, x) = IF Get(props, x) \in NonEmpty THEN Get(props, x) ELSE "absent"
  BY GetTexts
<1>4. /\ Get(listed, "name") = Get(props, "name")
      /\ Get(listed, "description") = described
      /\ Get(listed, "status") = OrActive(Get(props, "status"))
  BY <1>1, GetTextsOver DEF Get
<1>5. described = IF Get(props, "description") = "absent" /\ "description" \notin DOMAIN props
                  THEN "null" ELSE Get(props, "description")
  BY DEF Get
<1> HIDE DEF row, described, listed
<1>6. Agree(row, listed, "name") /\ Agree(row, listed, "description")
  <2>1. Get(row, "name") = Get(props, "name")
    BY <1>1, <1>3
  <2>2. "absent" \notin NonEmpty /\ "null" \notin NonEmpty
    BY StringsAre
  <2> QED  BY <1>3, <1>4, <1>5, <2>1, <2>2, SameAgrees DEF Agree
<1>7. Agree(row, listed, "status")
  BY <1>3, <1>4, StringsAre DEF Agree, OrActive
<1>8. Others("tree", props) = {<<{listed}, {"name", "status", "description"}>>}
  BY <1>2 DEF Others
<1> QED  BY <1>2, <1>6, <1>7, <1>8 DEF Agreeing

LEMMA SpecReaders ==
  ASSUME NEW props, \A f \in Keys.spec : Get(props, f) \in NonEmpty
  PROVE  Agreeing("spec", props)
<1> DEFINE Rest == {"goal", "constraints", "decisions", "status", "outcome"}
           All == {"tree", "id", "goal", "constraints", "decisions", "status", "outcome"}
           row == Strings(props, Keys.spec) ++ Texts(props, Rest)
           shown == SpecProps(props)
           listed == Texts(shown, {"id", "goal", "status", "outcome"})
<1>1. Keys.spec = {"tree", "id"}
  BY DEF Keys
<1>2. /\ Exported("spec", props) = {row} /\ ListSpec(props) = {listed}
      /\ ShowSpec(props) = {shown}
  BY NamedHasRow DEF Exported, ProjectSpec, ListSpec, ShowSpec
<1>3. ASSUME NEW x \in All
      PROVE  Get(row, x) = IF Get(props, x) \in NonEmpty THEN Get(props, x) ELSE "absent"
  <2>1. Get(row, x) = IF x \in Keys.spec /\ Get(props, x) \in String THEN Get(props, x)
                      ELSE Get(Texts(props, Rest), x)
    BY GetStringsOver
  <2>2. Get(Texts(props, Rest), x) =
          IF x \in Rest /\ Get(props, x) \in NonEmpty THEN Get(props, x) ELSE "absent"
    BY GetTexts
  <2> HIDE DEF row
  <2> QED  BY <1>1, <1>3, <2>1, <2>2, StringsAre
<1>4. ASSUME NEW x \in All
      PROVE  Get(shown, x) = IF Get(props, x) \in NonEmpty THEN Get(props, x) ELSE "absent"
  BY GetTexts DEF SpecProps
<1> HIDE DEF shown, row
<1>5. ASSUME NEW x \in {"id", "goal", "status", "outcome"}
      PROVE  Get(listed, x) = Get(shown, x)
  BY <1>4, GetTexts
<1> HIDE DEF listed
<1>6. /\ \A x \in {"id", "goal", "status", "outcome"} : Agree(row, listed, x)
      /\ \A x \in All : Agree(row, shown, x)
  BY <1>3, <1>4, <1>5, SameAgrees
<1>7. Others("spec", props) = {<<{listed}, {"id", "goal", "status", "outcome"}>>, <<{shown}, All>>}
  BY <1>2 DEF Others
<1> QED  BY <1>2, <1>6, <1>7 DEF Agreeing

LEMMA SessionReaders ==
  ASSUME NEW props, \A f \in Keys.session : Get(props, f) \in NonEmpty
  PROVE  Agreeing("session", props)
<1> DEFINE row == Texts(props, {"id", "tree", "spec", "summary"})
<1>1. /\ Exported("session", props) = {row} /\ ListSession(props) = {row}
      /\ ShowSession(props) = {row} /\ StatusSession(props) = {row}
  BY NamedHasRow DEF Exported, ProjectSession, ListSession, ShowSession, StatusSession
<1> HIDE DEF row
<1>2. Others("session", props) = {<<{row}, {"id", "tree", "spec", "summary"}>>}
  BY <1>1 DEF Others
<1> QED  BY <1>1, <1>2, SameAgrees DEF Agreeing

LEMMA PhaseReaders ==
  ASSUME NEW props, \A f \in Keys.phase : Get(props, f) \in NonEmpty
  PROVE  Agreeing("phase", props)
<1> DEFINE row == Strings(props, Keys.phase)
<1>1. "session_id" \in Keys.phase
  BY DEF Keys
<1>2. Exported("phase", props) = {row} /\ ShowPhase(props) = {row}
  BY <1>1, NamedHasRow DEF Exported, ProjectPhase, ShowPhase
<1> HIDE DEF row
<1>3. Others("phase", props) = {<<{row}, Keys.phase>>}
  BY <1>2 DEF Others
<1> QED  BY <1>2, <1>3, SameAgrees DEF Agreeing

LEMMA CampaignReaders ==
  ASSUME NEW props, \A f \in Keys.campaign : Get(props, f) \in NonEmpty
  PROVE  Agreeing("campaign", props)
<1> DEFINE row == Strings(props, Keys.campaign) ++ Texts(props, {"kind", "summary", "title"})
                  ++ Lists(props, {"blocked_by"})
<1>1. Exported("campaign", props) = {row} /\ ListCampaign(props) = {row}
  BY NamedHasRow DEF Exported, ProjectCampaign, ListCampaign
<1> HIDE DEF row
<1>2. Others("campaign", props) =
        {<<{row}, {"tree", "spec", "kind", "summary", "title", "blocked_by"}>>}
  BY <1>1 DEF Others
<1> QED  BY <1>1, <1>2, SameAgrees DEF Agreeing

LEMMA DiscoveryReaders ==
  ASSUME NEW props, \A f \in Keys.discovery : Get(props, f) \in NonEmpty
  PROVE  Agreeing("discovery", props)
<1> DEFINE row == Strings(props, Keys.discovery)
                  ++ Texts(props, {"date", "author", "finding", "impact", "action"})
           Shown == {"id", "date", "author", "finding", "impact", "action"}
           listed == Texts(props, Shown)
<1>1. Keys.discovery = {"tree", "spec", "id"}
  BY DEF Keys
<1>2. Exported("discovery", props) = {row} /\ ListDiscovery(props) = {listed}
  BY <1>1, NamedHasRow DEF Exported, ProjectDiscovery, ListDiscovery
<1>3. ASSUME NEW x \in Shown
      PROVE  Get(row, x) = Get(listed, x)
  <2> DEFINE Rest == {"date", "author", "finding", "impact", "action"}
  <2>1. Get(row, x) = IF x \in Keys.discovery /\ Get(props, x) \in String THEN Get(props, x)
                      ELSE Get(Texts(props, Rest), x)
    BY GetStringsOver
  <2>2. Get(Texts(props, Rest), x) =
          IF x \in Rest /\ Get(props, x) \in NonEmpty THEN Get(props, x) ELSE "absent"
    BY GetTexts
  <2>3. Get(listed, x) = IF Get(props, x) \in NonEmpty THEN Get(props, x) ELSE "absent"
    BY <1>3, GetTexts
  <2> HIDE DEF row, listed
  <2> QED  BY <1>1, <1>3, <2>1, <2>2, <2>3, StringsAre
<1> HIDE DEF row, listed
<1>4. Others("discovery", props) = {<<{listed}, Shown>>}
  BY <1>2 DEF Others
<1> QED  BY <1>2, <1>3, <1>4, SameAgrees DEF Agreeing

LEMMA OutcomeReaders ==
  ASSUME NEW props, \A f \in Keys.outcome : Get(props, f) \in NonEmpty
  PROVE  Agreeing("outcome", props)
<1> DEFINE row == Strings(props, Keys.outcome)
                  ++ Texts(props, {"status", "note", "linked_spec", "date"})
           own == [status |-> Text(props, "status"),
                   summary |-> Text(props, IF "summary" \in DOMAIN props THEN "summary" ELSE "note")]
           listed == Strings(props, Keys.outcome) ++ own
<1>1. Keys.outcome = {"tree", "spec"}
  BY DEF Keys
<1>2. Exported("outcome", props) = {row} /\ ListOutcome(props) = {listed}
  BY NamedHasRow DEF Exported, ProjectOutcome, ListOutcome
<1>3. ASSUME NEW x \in {"tree", "spec"}
      PROVE  Get(row, x) = Get(listed, x)
  <2>1. x \in Keys.outcome /\ Get(props, x) \in String
    BY <1>1, <1>3, StringsAre
  <2> QED  BY <2>1, GetStringsOver
<1>4. Get(row, "status") = IF Get(props, "status") \in NonEmpty THEN Get(props, "status") ELSE "absent"
  BY <1>1, GetStringsOver, GetTexts
<1>5. Get(listed, "status") = Text(props, "status")
  <2>1. Get(own, "status") = Text(props, "status")
    BY DEF Get
  <2> QED  BY <1>1, <2>1, GetStringsOver
<1> HIDE DEF row, listed
<1>6. Agree(row, listed, "status")
  BY <1>4, <1>5, StringsAre DEF Agree, Text, Get
<1>7. Others("outcome", props) = {<<{listed}, {"tree", "spec", "status"}>>}
  BY <1>2 DEF Others
<1> QED  BY <1>2, <1>3, <1>6, <1>7, SameAgrees DEF Agreeing

LEMMA TaskReaders ==
  ASSUME NEW props, \A f \in Keys.task : Get(props, f) \in NonEmpty
  PROVE  Agreeing("task", props)
<1> DEFINE Names == {"tree", "spec", "id"}
           row == TaskRow(props)
           listed == TaskProps(props)
           held == [f \in Keys.task \cup {"status"} |->
                      IF Get(props, f) \in String THEN props[f] ELSE ""]
           given == Texts(props, {"summary", "gate"})
           needs == Lists(props, {"depends_on"})
           picked == held ++ given ++ needs
<1>1. Keys.task = Names
  BY DEF Keys
<1>2. /\ Exported("task", props) = {row} /\ ListTask(props) = {listed}
      /\ StatusTask(props) = {picked}
  BY NamedHasRow DEF Exported, ProjectTask, ListTask, StatusTask, TaskRow
<1>3. ASSUME NEW x \in Names \cup {"summary", "description", "gate", "status", "depends_on", "files"}
      PROVE  Get(row, x) = Get(listed, x)
  <2> DEFINE F == {"tree", "spec", "id", "summary", "description", "gate"}
             r == [status |-> Text(props, "status"), depends_on |-> Members(Get(props, "depends_on")),
                   files |-> Members(Get(props, "files"))]
  <2>1. listed = Texts(props, F) ++ r
    BY DEF TaskProps
  <2>2. Get(r, x) = IF x = "status" THEN Text(props, "status")
                    ELSE IF x \in {"depends_on", "files"} THEN Members(Get(props, x)) ELSE "absent"
    BY DEF Get
  <2> HIDE DEF row, listed, r
  <2>3. Get(listed, x) = IF x \in F /\ Get(props, x) \in NonEmpty THEN Get(props, x) ELSE Get(r, x)
    BY <2>1, GetTextsOver
  <2>4. Get(row, x) =
          IF x \in Names /\ Get(props, x) \in String THEN Get(props, x)
          ELSE IF x \in {"summary", "description", "gate"} /\ Get(props, x) \in NonEmpty
          THEN Get(props, x)
          ELSE IF x = "status" THEN Text(props, "status")
          ELSE IF x \in {"depends_on", "files"} THEN Members(Get(props, x)) ELSE "absent"
    BY GetTaskRow DEF row
  <2>5. CASE x \in Names
    BY <1>1, <2>3, <2>4, <2>5, StringsAre
  <2>6. CASE x \notin Names
    BY <2>2, <2>3, <2>4, <2>6
  <2> QED  BY <2>5, <2>6
<1>4. ASSUME NEW x \in Names \cup {"status"}
      PROVE  Get(picked, x) = IF Get(props, x) \in String THEN Get(props, x) ELSE ""
  <2>1. x \in DOMAIN held /\ held[x] = IF Get(props, x) \in String THEN Get(props, x) ELSE ""
    BY <1>1, <1>4, StringsAre DEF Get
  <2> HIDE DEF held, given, needs
  <2>2. x \in DOMAIN (held ++ given) /\ (held ++ given)[x] = held[x]
    BY <2>1 DEF ++
  <2>3. Get(held ++ given ++ needs, x) = (held ++ given)[x]
    BY <2>2, GetOver
  <2> QED  BY <2>1, <2>2, <2>3
<1>5. ASSUME NEW x \in {"summary", "gate", "depends_on"}
      PROVE  Get(picked, x) = IF x = "depends_on" THEN Members(Get(props, x))
                              ELSE IF Get(props, x) \in NonEmpty THEN Get(props, x) ELSE "absent"
  <2>1. x \notin DOMAIN held
    BY <1>1, <1>5
  <2>2. Get(given ++ needs, x) = IF x \in {"summary", "gate"} /\ Get(props, x) \in NonEmpty
                                 THEN Get(props, x) ELSE Get(needs, x)
    BY GetTextsOver
  <2>3. Get(needs, x) = IF x \in {"depends_on"} THEN Members(Get(props, x)) ELSE "absent"
    BY GetLists
  <2> HIDE DEF held, given, needs
  <2>4. picked = held ++ (given ++ needs)
    BY OverTwice
  <2>5. Get(picked, x) = Get(given ++ needs, x)
    BY <2>1, <2>4, GetOver
  <2> QED  BY <1>5, <2>2, <2>3, <2>5
<1> HIDE DEF picked, listed
<1>6. ASSUME NEW x \in Names \cup {"summary", "gate", "depends_on"}
      PROVE  Get(row, x) = Get(picked, x)
  <2>1. CASE x \in Names
    <3>1. Get(props, x) \in String
      BY <1>1, <2>1, StringsAre
    <3> QED  BY <1>4, <2>1, <3>1, GetTaskRow
  <2>2. CASE x \in {"summary", "gate", "depends_on"}
    BY <1>5, <2>2, GetTaskRow
  <2> QED  BY <2>1, <2>2
<1>7. Agree(row, picked, "status")
  <2>1. Get(row, "status") = Text(props, "status")
    BY GetTaskRow
  <2>2. Get(picked, "status") = IF Get(props, "status") \in String THEN Get(props, "status") ELSE ""
    BY <1>4
  <2>3. CASE Get(props, "status") \in NonEmpty
    BY <2>1, <2>2, <2>3, SameAgrees, StringsAre DEF Text, Get
  <2>4. CASE Get(props, "status") \notin NonEmpty
    <3>1. Get(row, "status") = "" /\ Get(picked, "status") = ""
      BY <2>1, <2>2, <2>4 DEF Text, String
    <3> QED  BY <3>1, SameAgrees
  <2> QED  BY <2>3, <2>4
<1> HIDE DEF row
<1>8. Others("task", props) =
        {<<{listed}, Keys.task \cup {"status", "summary", "description", "gate", "depends_on", "files"}>>,
         <<{picked}, Keys.task \cup {"status", "summary", "gate", "depends_on"}>>}
  BY <1>2 DEF Others
<1> QED  BY <1>1, <1>2, <1>3, <1>6, <1>7, <1>8, SameAgrees DEF Agreeing

\* What export shows of a live claim whose names are there, the list and show
\* commands and the tasks and sessions of status show, too, and the same of it.
THEOREM ListsShowWhatExportShows == CliSpec => []ListsMatchExport
<1>1. ListsMatchExport
  <2> SUFFICES ASSUME NEW n \in DOMAIN log, log[n].type \in DOMAIN Keys,
                      \A f \in Keys[log[n].type] : Get(PropsOf(n), f) \in NonEmpty
               PROVE  Agreeing(log[n].type, PropsOf(n))
    BY DEF ListsMatchExport, Agreeing
  <2>1. log[n].type \in {"tree", "spec", "task", "discovery", "campaign", "outcome", "session", "phase"}
    BY DEF Keys
  <2> QED  BY <2>1, TreeReaders, SpecReaders, TaskReaders, DiscoveryReaders, CampaignReaders,
              OutcomeReaders, SessionReaders, PhaseReaders
<1> QED  BY <1>1, PTL

-----------------------------------------------------------------------------
(* The shapes and the validators *)

LEMMA DiscoverySchema ==
  /\ DOMAIN Schema["discovery"] = {"tree", "spec", "id", "date", "finding", "author", "impact", "action"}
  /\ \A f \in {"tree", "spec", "id", "date", "finding"} : Schema["discovery"][f] = NonEmpty
  /\ \A f \in {"author", "impact", "action"} : Schema["discovery"][f] = Optional(String)
BY DEF Schema, DiscoveryFields, Required, Maybe, ++

LEMMA CampaignSchema ==
  /\ DOMAIN Schema["campaign"] = {"tree", "spec", "summary", "title", "kind", "blocked_by"}
  /\ \A f \in {"tree", "spec"} : Schema["campaign"][f] = NonEmpty
  /\ \A f \in {"summary", "title"} : Schema["campaign"][f] = Optional(String)
  /\ Schema["campaign"]["kind"] = {"active", "backlog"}
  /\ Schema["campaign"]["blocked_by"] = Optional(StringArray)
<1>1. Schema["campaign"] = CampaignFields
  BY DEF Schema
<1> QED  BY <1>1 DEF CampaignFields, Required, Maybe, ++

LEMMA OutcomeSchema ==
  /\ DOMAIN Schema["outcome"] = {"tree", "spec", "note", "linked_spec", "date", "status"}
  /\ \A f \in {"tree", "spec"} : Schema["outcome"][f] = NonEmpty
  /\ \A f \in {"note", "linked_spec", "date"} : Schema["outcome"][f] = Optional(String)
  /\ Schema["outcome"]["status"] = OutcomeStatus
<1>1. Schema["outcome"] = OutcomeFields
  BY DEF Schema
<1> QED  BY <1>1 DEF OutcomeFields, Required, Maybe, ++

LEMMA PhaseSchema ==
  /\ DOMAIN Schema["phase"] = {"session_id", "name"}
  /\ Schema["phase"]["session_id"] = NonEmpty /\ Schema["phase"]["name"] = Phase
BY DEF Schema, PhaseFields, Required, ++

\* The properties P of a shape hold of props.
Fit(P, props) ==
  \A prop \in P :
    LET v == Get(props, prop.path)
    IN  /\ Occurs(v) >= MinCount(prop.card)
        /\ Single(prop.card) => v \notin Array
        /\ Occurs(v) = 1 => v \in prop.values

LEMMA FitParts ==
  ASSUME NEW P, NEW Q, NEW props
  PROVE  Fit(P \cup Q, props) <=> Fit(P, props) /\ Fit(Q, props)
BY DEF Fit

\* A string is one value, and no array.
LEMMA OneString ==
  ASSUME NEW v \in String
  PROVE  v \notin Array /\ Occurs(v) = 1
BY DEF String, NonEmpty, Free, SpecStatus, TaskStatus, OutcomeStatus, Phase, Array, StringArray, Occurs

LEMMA RequiredFit ==
  ASSUME NEW props, NEW f, NEW S, S \subseteq String, Get(props, f) \in S
  PROVE  Fit({Prop(f, "Required", S)}, props)
<1> DEFINE v == Get(props, f)
           prop == Prop(f, "Required", S)
<1>1. prop.path = f /\ prop.card = "Required" /\ prop.values = S
  BY DEF Prop
<1>2. v \notin Array /\ Occurs(v) = 1
  BY OneString
<1>3. MinCount("Required") = 1 /\ Single("Required")
  BY DEF MinCount, Single
<1> HIDE DEF prop
<1>4. Fit({prop}, props)
  BY <1>1, <1>2, <1>3 DEF Fit
<1> QED  BY <1>4 DEF prop

LEMMA OptionalFit ==
  ASSUME NEW props, NEW f, NEW S, S \subseteq String, Get(props, f) \in Optional(S)
  PROVE  Fit({Prop(f, "Optional", S)}, props)
<1> DEFINE v == Get(props, f)
           prop == Prop(f, "Optional", S)
<1>1. prop.path = f /\ prop.card = "Optional" /\ prop.values = S
  BY DEF Prop
<1>2. MinCount("Optional") = 0 /\ Single("Optional")
  BY DEF MinCount, Single
<1>3. v \notin Array /\ Occurs(v) \in {0, 1} /\ (Occurs(v) = 1 => v \in S)
  <2>1. CASE v \in S
    BY <2>1, OneString
  <2>2. CASE v \in {"absent", "null"}
    BY <2>2 DEF Occurs, Array, StringArray
  <2> QED  BY <2>1, <2>2 DEF Optional
<1> HIDE DEF prop
<1>4. Fit({prop}, props)
  BY <1>1, <1>2, <1>3 DEF Fit
<1> QED  BY <1>4 DEF prop

\* Any number of literals or IRIs.
LEMMA ManyFit ==
  ASSUME NEW props, NEW f, NEW S, StringArray \subseteq S,
         Get(props, f) \in Optional(StringArray)
  PROVE  Fit({Prop(f, "Many", S)}, props)
<1> DEFINE v == Get(props, f)
           prop == Prop(f, "Many", S)
<1>1. prop.path = f /\ prop.card = "Many" /\ prop.values = S
  BY DEF Prop
<1>2. MinCount("Many") = 0 /\ ~Single("Many")
  BY DEF MinCount, Single
<1>3. Occurs(v) \in {0, 1} /\ (Occurs(v) = 1 => v \in S)
  BY DEF Occurs, Optional
<1> HIDE DEF prop
<1>4. Fit({prop}, props)
  BY <1>1, <1>2, <1>3 DEF Fit
<1> QED  BY <1>4 DEF prop

LEMMA StringArrays ==
  StringArray \subseteq Literal /\ StringArray \subseteq Iri
BY DEF Literal, Iri, Value, Array

LEMMA StringsFit ==
  ASSUME NEW props, NEW F, \A f \in F : Get(props, f) \in NonEmpty
  PROVE  Fit(req_str(F), props)
<1> SUFFICES ASSUME NEW f \in F  PROVE Fit({Prop(f, "Required", String)}, props)
  BY DEF Fit, req_str
<1> QED  BY RequiredFit, StringsAre

LEMMA OptionsFit ==
  ASSUME NEW props, NEW F, \A f \in F : Get(props, f) \in Optional(String)
  PROVE  Fit(opt_str(F), props)
<1> SUFFICES ASSUME NEW f \in F  PROVE Fit({Prop(f, "Optional", String)}, props)
  BY DEF Fit, opt_str
<1> QED  BY OptionalFit

\* What the fields of valid properties hold.
LEMMA FieldHolds ==
  ASSUME NEW type, NEW props, Valid(type, props), NEW f \in DOMAIN Schema[type]
  PROVE  Get(props, f) \in Schema[type][f]
BY DEF Valid

LEMMA TreeConforms ==
  ASSUME NEW props, Valid("tree", props)
  PROVE  Conforms("tree", props)
<1> DEFINE At(f) == Get(props, f)
<1>1. ASSUME NEW f \in {"name", "description"}
      PROVE  At(f) \in Schema["tree"][f]
  BY <1>1, TreeSchema, FieldHolds
<1>2. \A f \in {"name"} : At(f) \in NonEmpty
  BY <1>1, TreeSchema
<1>3. \A f \in {"description"} : At(f) \in Optional(String)
  BY <1>1, TreeSchema
<1>4. Fit(req_str({"name"}), props)
  BY <1>2, StringsFit
<1>5. Fit(opt_str({"description"}), props)
  BY <1>3, OptionsFit
<1>6. shapes["tree"] = req_str({"name"}) \cup opt_str({"description"})
  BY DEF shapes
<1> HIDE DEF At
<1>7. Fit(shapes["tree"], props)
  BY <1>4, <1>5, <1>6, FitParts
<1> QED  BY <1>7 DEF Fit, Conforms

LEMMA SessionConforms ==
  ASSUME NEW props, Valid("session", props)
  PROVE  Conforms("session", props)
<1> DEFINE At(f) == Get(props, f)
<1>1. ASSUME NEW f \in {"id", "tree", "spec", "summary"}
      PROVE  At(f) \in Schema["session"][f]
  BY <1>1, SessionSchema, FieldHolds
<1>2. \A f \in {"id"} : At(f) \in NonEmpty
  BY <1>1, SessionSchema
<1>3. \A f \in {"tree", "spec", "summary"} : At(f) \in Optional(String)
  BY <1>1, SessionSchema
<1>4. Fit(req_str({"id"}), props)
  BY <1>2, StringsFit
<1>5. Fit(opt_str({"tree", "spec", "summary"}), props)
  BY <1>3, OptionsFit
<1>6. shapes["session"] = req_str({"id"}) \cup opt_str({"tree", "spec", "summary"})
  BY DEF shapes
<1> HIDE DEF At
<1>7. Fit(shapes["session"], props)
  BY <1>4, <1>5, <1>6, FitParts
<1> QED  BY <1>7 DEF Fit, Conforms

LEMMA DiscoveryConforms ==
  ASSUME NEW props, Valid("discovery", props)
  PROVE  Conforms("discovery", props)
<1> DEFINE At(f) == Get(props, f)
<1>1. ASSUME NEW f \in {"tree", "spec", "id", "date", "finding", "author", "impact", "action"}
      PROVE  At(f) \in Schema["discovery"][f]
  BY <1>1, DiscoverySchema, FieldHolds
<1>2. \A f \in {"tree", "spec", "id", "date", "finding"} : At(f) \in NonEmpty
  BY <1>1, DiscoverySchema
<1>3. \A f \in {"author", "impact", "action"} : At(f) \in Optional(String)
  BY <1>1, DiscoverySchema
<1>4. Fit(req_str({"tree", "spec", "id", "date", "finding"}), props)
  BY <1>2, StringsFit
<1>5. Fit(opt_str({"author", "impact", "action"}), props)
  BY <1>3, OptionsFit
<1>6. shapes["discovery"] = req_str({"tree", "spec", "id", "date", "finding"})
                        \cup opt_str({"author", "impact", "action"})
  BY DEF shapes
<1> HIDE DEF At
<1>7. Fit(shapes["discovery"], props)
  BY <1>4, <1>5, <1>6, FitParts
<1> QED  BY <1>7 DEF Fit, Conforms

LEMMA OutcomeConforms ==
  ASSUME NEW props, Valid("outcome", props)
  PROVE  Conforms("outcome", props)
<1> DEFINE At(f) == Get(props, f)
<1>1. ASSUME NEW f \in {"tree", "spec", "note", "linked_spec", "date", "status"}
      PROVE  At(f) \in Schema["outcome"][f]
  BY <1>1, OutcomeSchema, FieldHolds
<1>2. \A f \in {"tree", "spec"} : At(f) \in NonEmpty
  BY <1>1, OutcomeSchema
<1>3. \A f \in {"note", "linked_spec", "date"} : At(f) \in Optional(String)
  BY <1>1, OutcomeSchema
<1>4. Fit(req_str({"tree", "spec"}), props)
  BY <1>2, StringsFit
<1>5. Fit(opt_str({"note", "linked_spec", "date"}), props)
  BY <1>3, OptionsFit
<1>6. Fit(req_enum("status", OutcomeStatus), props)
  <2>1. At("status") \in OutcomeStatus
    BY <1>1, OutcomeSchema
  <2> QED  BY <2>1, RequiredFit, StringsAre DEF req_enum
<1>7. shapes["outcome"] = req_str({"tree", "spec"})
                        \cup req_enum("status", OutcomeStatus)
                        \cup opt_str({"note", "linked_spec", "date"})
  BY DEF shapes
<1> HIDE DEF At
<1>8. Fit(shapes["outcome"], props)
  BY <1>4, <1>5, <1>6, <1>7 DEF Fit
<1> QED  BY <1>8 DEF Fit, Conforms

LEMMA CampaignConforms ==
  ASSUME NEW props, Valid("campaign", props)
  PROVE  Conforms("campaign", props)
<1> DEFINE At(f) == Get(props, f)
<1>1. ASSUME NEW f \in {"tree", "spec", "summary", "title", "kind", "blocked_by"}
      PROVE  At(f) \in Schema["campaign"][f]
  BY <1>1, CampaignSchema, FieldHolds
<1>2. \A f \in {"tree", "spec"} : At(f) \in NonEmpty
  BY <1>1, CampaignSchema
<1>3. \A f \in {"summary", "title"} : At(f) \in Optional(String)
  BY <1>1, CampaignSchema
<1>4. Fit(req_str({"tree", "spec"}), props)
  BY <1>2, StringsFit
<1>5. Fit(opt_str({"summary", "title"}), props)
  BY <1>3, OptionsFit
<1>6. Fit(req_enum("kind", {"active", "backlog"}), props)
  <2>1. At("kind") \in {"active", "backlog"}
    BY <1>1, CampaignSchema
  <2> QED  BY <2>1, RequiredFit, StringsAre DEF req_enum
<1>7. Fit(many_literal({"blocked_by"}), props)
  <2>1. At("blocked_by") \in Optional(StringArray)
    BY <1>1, CampaignSchema
  <2>2. Fit({Prop("blocked_by", "Many", Literal)}, props)
    BY <2>1, ManyFit, StringArrays
  <2>3. many_literal({"blocked_by"}) = {Prop("blocked_by", "Many", Literal)}
    BY DEF many_literal
  <2> QED  BY <2>2, <2>3
<1>8. shapes["campaign"] = req_str({"tree", "spec"})
                        \cup req_enum("kind", {"active", "backlog"})
                        \cup opt_str({"summary", "title"})
                        \cup many_literal({"blocked_by"})
  BY DEF shapes
<1> HIDE DEF At
<1>9. Fit(shapes["campaign"], props)
  BY <1>4, <1>5, <1>6, <1>7, <1>8 DEF Fit
<1> QED  BY <1>9 DEF Fit, Conforms

LEMMA SpecConforms ==
  ASSUME NEW props, Valid("spec", props)
  PROVE  Conforms("spec", props)
<1> DEFINE At(f) == Get(props, f)
<1>1. ASSUME NEW f \in {"tree", "id", "goal", "constraints", "decisions", "status", "topics", "agree_snapshot"}
      PROVE  At(f) \in Schema["spec"][f]
  BY <1>1, SpecSchema, FieldHolds
<1>2. \A f \in {"tree", "id", "goal"} : At(f) \in NonEmpty
  BY <1>1, SpecSchema
<1>3. \A f \in {"constraints", "decisions"} : At(f) \in Optional(String)
  BY <1>1, SpecSchema
<1>4. Fit(req_str({"tree", "id", "goal"}), props)
  BY <1>2, StringsFit
<1>5. Fit(opt_str({"constraints", "decisions"}), props)
  BY <1>3, OptionsFit
<1>6. Fit(req_enum("status", SpecStatus), props)
  <2>1. At("status") \in SpecStatus
    BY <1>1, SpecSchema
  <2> QED  BY <2>1, RequiredFit, StringsAre DEF req_enum
<1>7. Fit(req_many_literal("topics"), props)
  <2> DEFINE prop == Prop("topics", "RequiredMany", Literal)
  <2>1. At("topics") \in StringArray \ {"[]"}
    BY <1>1, SpecSchema
  <2>2. Occurs(At("topics")) = 1 /\ At("topics") \in Literal
    BY <2>1 DEF Occurs, StringArray, Literal, Value, Array
  <2>3. prop.path = "topics" /\ prop.card = "RequiredMany" /\ prop.values = Literal
    BY DEF Prop
  <2>4. MinCount("RequiredMany") = 1 /\ ~Single("RequiredMany")
    BY DEF MinCount, Single
  <2>5. req_many_literal("topics") = {prop}
    BY DEF req_many_literal
  <2> HIDE DEF prop
  <2> QED  BY <2>2, <2>3, <2>4, <2>5 DEF Fit
<1>8. Fit(many_iri("agree_snapshot"), props)
  <2>1. At("agree_snapshot") \in Optional(StringArray)
    BY <1>1, SpecSchema
  <2> QED  BY <2>1, ManyFit, StringArrays DEF many_iri
<1>9. shapes["spec"] = req_str({"tree", "id", "goal"})
                        \cup req_enum("status", SpecStatus)
                        \cup opt_str({"constraints", "decisions"})
                        \cup req_many_literal("topics")
                        \cup many_iri("agree_snapshot")
  BY DEF shapes
<1> HIDE DEF At
<1>10. Fit(shapes["spec"], props)
  BY <1>4, <1>5, <1>6, <1>7, <1>8, <1>9 DEF Fit
<1> QED  BY <1>10 DEF Fit, Conforms

LEMMA TaskConforms ==
  ASSUME NEW props, Valid("task", props)
  PROVE  Conforms("task", props)
<1> DEFINE At(f) == Get(props, f)
<1>1. ASSUME NEW f \in {"tree", "spec", "id", "summary", "description", "owner", "status", "gate",
                 "depends_on", "files"}
      PROVE  At(f) \in Schema["task"][f]
  BY <1>1, TaskSchema, FieldHolds
<1>2. \A f \in {"tree", "spec", "id", "summary"} : At(f) \in NonEmpty
  BY <1>1, TaskSchema
<1>3. \A f \in {"description", "owner"} : At(f) \in Optional(String)
  BY <1>1, TaskSchema
<1>4. Fit(req_str({"tree", "spec", "id", "summary"}), props)
  BY <1>2, StringsFit
<1>5. Fit(opt_str({"description", "owner"}), props)
  BY <1>3, OptionsFit
<1>6. Fit(req_enum("status", TaskStatus), props)
  <2>1. At("status") \in TaskStatus
    BY <1>1, TaskSchema
  <2> QED  BY <2>1, RequiredFit, StringsAre DEF req_enum
<1>7. Fit(opt_enum("gate", {"human"}), props)
  <2>1. At("gate") \in Optional({"human"})
    BY <1>1, TaskSchema
  <2> QED  BY <2>1, OptionalFit, StringsAre DEF opt_enum
<1>8. Fit(many_literal({"depends_on", "files"}), props)
  <2>1. At("depends_on") \in Optional(StringArray) /\ At("files") \in Optional(StringArray)
    BY <1>1, TaskSchema
  <2>2. Fit({Prop("depends_on", "Many", Literal)}, props)
    BY <2>1, ManyFit, StringArrays
  <2>3. Fit({Prop("files", "Many", Literal)}, props)
    BY <2>1, ManyFit, StringArrays
  <2>4. many_literal({"depends_on", "files"}) =
          {Prop("depends_on", "Many", Literal)} \cup {Prop("files", "Many", Literal)}
    BY DEF many_literal
  <2> QED  BY <2>2, <2>3, <2>4, FitParts
<1>9. shapes["task"] = req_str({"tree", "spec", "id", "summary"})
                        \cup req_enum("status", TaskStatus)
                        \cup opt_enum("gate", {"human"})
                        \cup opt_str({"description", "owner"})
                        \cup many_literal({"depends_on", "files"})
  BY DEF shapes
<1> HIDE DEF At
<1>10. Fit(shapes["task"], props)
  BY <1>4, <1>5, <1>6, <1>7, <1>8, <1>9 DEF Fit
<1> QED  BY <1>10 DEF Fit, Conforms

LEMMA PhaseConforms ==
  ASSUME NEW props, Valid("phase", props)
  PROVE  Conforms("phase", props)
<1> DEFINE At(f) == Get(props, f)
<1>1. At("session_id") \in NonEmpty /\ At("name") \in Phase
  BY PhaseSchema, FieldHolds
<1>2. Fit(req_str({"session_id"}), props)
  BY <1>1, StringsFit
<1>3. Fit(req_enum("name", Phase), props)
  BY <1>1, RequiredFit, StringsAre DEF req_enum
<1>4. shapes["phase"] = req_str({"session_id"}) \cup req_enum("name", Phase)
  BY DEF shapes
<1> HIDE DEF At
<1>5. Fit(shapes["phase"], props)
  BY <1>2, <1>3, <1>4, FitParts
<1> QED  BY <1>5 DEF Fit, Conforms

\* The shapes of emit_shacl follow the validators: field by field, whatever
\* `check` accepts has the properties that the shape of its type asks for.
THEOREM ShapesFollow == CliSpec => []ShapesFollowSchema
<1>1. ShapesFollowSchema
  <2> SUFFICES ASSUME NEW n \in DOMAIN log, log[n].type \in DOMAIN Schema, Accepted(n)
               PROVE  Conforms(log[n].type, PropsOf(n))
    BY DEF ShapesFollowSchema
  <2>1. Valid(log[n].type, PropsOf(n))
    BY DEF Accepted
  <2>2. log[n].type \in {"tree", "spec", "task", "discovery", "campaign", "outcome", "session", "phase"}
    BY DEF Schema
  <2> QED  BY <2>1, <2>2, TreeConforms, SpecConforms, TaskConforms, DiscoveryConforms,
              CampaignConforms, OutcomeConforms, SessionConforms, PhaseConforms
<1> QED  BY <1>1, PTL
=============================================================================
