--------------------------- MODULE WorkflowProofs ---------------------------
(***************************************************************************)
(* Proofs about Workflow for any processes, sessions, tasks and commands.  *)
(***************************************************************************)
EXTENDS Workflow, TLAPS, FiniteSetTheorems

-----------------------------------------------------------------------------
(* The inductive invariant *)

\* Claims are numbered in the order of their appends, so that a new one has a
\* new id.
Numbered ==
  /\ IsFiniteSet(claims)
  /\ \A c \in claims : c.id <= Cardinality(claims)
  /\ \A c, d \in claims : c.id = d.id => c = d
  /\ \A c \in claims : c.type = "task" => c.key \in Task

\* A claim supersedes a claim about the same thing.
Linked ==
  \A c \in Superseding(claims) :
    \E d \in claims : d.id = c.sup /\ d.type = c.type /\ d.key = c.key

\* No claim is superseded twice, and what a task or a phase has is one head.
Straight ==
  /\ \A c, d \in Superseding(claims) : c.sup = d.sup => c = d
  /\ \A type \in {"task", "phase"} :
       \A c, d \in LiveHeads(claims, type) : c.key = d.key => c = d

Graph == Numbered /\ Linked /\ Straight

\* What has been appended since R was read opens sessions and nothing else.
Current(R) ==
  /\ R \subseteq claims
  /\ \A c \in claims \ R : c.type = "session" /\ c.sup = NoClaim

\* A handler works under the lock, and what it read under the lock is still all
\* there is of tasks, phases and edges.
Exclusive ==
  \A p \in Proc :
    /\ pc[p] = "held" => lock = p
    /\ lock = p => Current(read[p])
    /\ lock # p => read[p] = {}

\* A process that is at work has a command of its own; only a bulk reset goes on
\* after its first append.
Assigned ==
  \A p \in Proc :
    /\ pc[p] # "idle" => cmd[p] \in CommandsOf[p]
    /\ pc[p] \in {"reset", "reopen"} => cmd[p].op = "bulk_reset"

IInv == TypeOK /\ Graph /\ Exclusive /\ Assigned

-----------------------------------------------------------------------------
(* What an append does to the graph of the claims *)

\* A claim that a command may append: it opens a session, or is the first about
\* its task or phase, or supersedes a live head, and gives a task away only if
\* that is pending.
Extends(n) ==
  /\ Cardinality(claims) < MaxClaims
  /\ n \in Claim
  /\ n.id = Cardinality(claims) + 1
  /\ n.type = "task" => n.key \in Task
  /\ \/ n.sup = NoClaim /\ n.type = "session" /\ n.owner = NoOwner
     \/ n.sup = NoClaim /\ Heads(claims, n.type, n.key) = {} /\ n.owner = NoOwner
     \/ \E h \in Heads(claims, n.type, n.key) :
          /\ n.sup = h.id
          /\ n.owner # NoOwner => n.type = "task" /\ h.val = "pending"

\* Claims are counted from one, and 0 is no claim's id.
LEMMA ClaimIds ==
  ASSUME TypeOK, NEW c \in claims
  PROVE  c \in Claim /\ c.id \in Nat /\ c.id # NoClaim /\ c.sup \in Nat
<1>1. c \in Claim
  BY DEF TypeOK
<1>2. c.id \in 1..MaxClaims /\ c.sup \in 0..MaxClaims
  BY <1>1 DEF Claim
<1> QED  BY <1>1, <1>2, WorkflowAssumption DEF NoClaim

\* A new claim's id is new, and nothing supersedes it.
LEMMA NewId ==
  ASSUME TypeOK, Numbered, Linked, NEW n, Extends(n)
  PROVE  /\ n.id \in Nat /\ n.sup \in Nat /\ n.id # NoClaim
         /\ n \notin claims
         /\ \A c \in claims : c.id # n.id
         /\ \A c \in Superseding(claims) : c.sup # n.id
         /\ n.sup # n.id
<1>1. Cardinality(claims) \in Nat
  BY FS_CardinalityType DEF Numbered
<1>2. n.id = Cardinality(claims) + 1 /\ n \in Claim
  BY DEF Extends
<1>3. n.id \in Nat /\ n.id # NoClaim
  BY <1>1, <1>2 DEF NoClaim
<1>4. n.sup \in Nat
  BY <1>2, WorkflowAssumption DEF Claim
<1>5. ASSUME NEW c \in claims  PROVE c.id # n.id
  <2>1. c.id \in Nat /\ c.id <= Cardinality(claims)
    BY ClaimIds DEF Numbered
  <2> QED  BY <1>1, <1>2, <2>1
<1>6. ASSUME NEW c \in Superseding(claims)  PROVE c.sup # n.id
  BY <1>5 DEF Linked
<1>7. n.sup # n.id
  <2>1. n.sup = NoClaim \/ \E h \in Heads(claims, n.type, n.key) : n.sup = h.id
    BY DEF Extends
  <2> QED  BY <2>1, <1>3, <1>5 DEF Heads, LiveHeads
<1> QED  BY <1>3, <1>4, <1>5, <1>6, <1>7

LEMMA NumberedStep ==
  ASSUME TypeOK, Numbered, Linked, NEW n, Extends(n), claims' = claims \cup {n}
  PROVE  Numbered'
<1>1. /\ n \notin claims /\ n.id = Cardinality(claims) + 1
      /\ \A c \in claims : c.id # n.id
  BY NewId DEF Extends
<1>2. Cardinality(claims) \in Nat
  BY FS_CardinalityType DEF Numbered
<1>3. IsFiniteSet(claims \cup {n}) /\ Cardinality(claims \cup {n}) = Cardinality(claims) + 1
  BY <1>1, FS_AddElement DEF Numbered
<1>4. IsFiniteSet(claims') /\ Cardinality(claims') = Cardinality(claims) + 1
  BY <1>3
<1>5. ASSUME NEW c \in claims'  PROVE c.id <= Cardinality(claims')
  <2>1. CASE c = n
    BY <2>1, <1>1, <1>2, <1>4
  <2>2. CASE c \in claims
    <3>1. c.id \in Nat /\ c.id <= Cardinality(claims)
      BY <2>2, ClaimIds DEF Numbered
    <3> QED  BY <3>1, <1>2, <1>4
  <2> QED  BY <2>1, <2>2
<1>6. ASSUME NEW c \in claims', NEW d \in claims', c.id = d.id  PROVE c = d
  BY <1>1, <1>6 DEF Numbered
<1>7. ASSUME NEW c \in claims', c.type = "task"  PROVE c.key \in Task
  BY <1>7 DEF Numbered, Extends
<1> QED  BY <1>4, <1>5, <1>6, <1>7 DEF Numbered

LEMMA LinkedStep ==
  ASSUME TypeOK, Linked, NEW n, Extends(n), claims' = claims \cup {n}
  PROVE  Linked'
<1> SUFFICES ASSUME NEW c \in Superseding(claims)'
             PROVE  \E d \in claims' : d.id = c.sup /\ d.type = c.type /\ d.key = c.key
  BY DEF Linked
<1>1. CASE c = n
  <2>1. c.sup # NoClaim
    BY DEF Superseding
  <2>2. PICK h \in Heads(claims, n.type, n.key) : n.sup = h.id
    BY <1>1, <2>1 DEF Extends
  <2>3. h \in claims /\ h.type = n.type /\ h.key = n.key
    BY DEF Heads, LiveHeads
  <2> QED  BY <1>1, <2>2, <2>3
<1>2. CASE c # n
  <2>1. c \in Superseding(claims)
    BY <1>2 DEF Superseding
  <2>2. PICK d \in claims : d.id = c.sup /\ d.type = c.type /\ d.key = c.key
    BY <2>1 DEF Linked
  <2> QED  BY <2>2
<1> QED  BY <1>1, <1>2

\* What an append leaves live: what was, but for what it supersedes, and the
\* new claim.
LEMMA HeadsStep ==
  ASSUME TypeOK, Numbered, Linked, NEW n, Extends(n), claims' = claims \cup {n}, NEW type,
         NEW c, c \in LiveHeads(claims, type)'
  PROVE  \/ c = n /\ n.type = type
         \/ c \in LiveHeads(claims, type) /\ c.id # n.sup
<1>1. c \in claims' /\ c.type = type /\ c.id \notin SupersededIds(claims')
  BY DEF LiveHeads
<1>2. CASE c = n
  BY <1>1, <1>2
<1>3. CASE c # n
  <2>1. c \in claims
    BY <1>1, <1>3
  <2>2. SupersededIds(claims) \subseteq SupersededIds(claims')
    BY DEF SupersededIds, Superseding
  <2>3. c \in LiveHeads(claims, type)
    BY <1>1, <2>1, <2>2 DEF LiveHeads
  <2>4. c.id # n.sup
    <3>1. c.id # NoClaim
      BY <2>1, ClaimIds
    <3>2. n.sup # NoClaim => n.sup \in SupersededIds(claims')
      BY DEF SupersededIds, Superseding
    <3> QED  BY <1>1, <3>1, <3>2
  <2> QED  BY <2>3, <2>4
<1> QED  BY <1>2, <1>3

LEMMA StraightStep ==
  ASSUME TypeOK, Graph, NEW n, Extends(n), claims' = claims \cup {n}
  PROVE  Straight'
<1> USE DEF Graph
<1>1. ASSUME NEW c \in Superseding(claims)', NEW d \in Superseding(claims)', c.sup = d.sup
      PROVE  c = d
  <2>1. ASSUME NEW e \in Superseding(claims), n.sup # NoClaim  PROVE e.sup # n.sup
    <3>1. PICK h \in Heads(claims, n.type, n.key) : n.sup = h.id
      BY <2>1 DEF Extends
    <3>2. h.id \notin SupersededIds(claims)
      BY DEF Heads, LiveHeads
    <3> QED  BY <3>1, <3>2 DEF SupersededIds
  <2>2. c \in Superseding(claims) \/ (c = n /\ n.sup # NoClaim)
    BY DEF Superseding
  <2>3. d \in Superseding(claims) \/ (d = n /\ n.sup # NoClaim)
    BY DEF Superseding
  <2> QED  BY <1>1, <2>1, <2>2, <2>3 DEF Straight
<1>2. ASSUME NEW type \in {"task", "phase"},
             NEW c, c \in LiveHeads(claims, type)',
             NEW d, d \in LiveHeads(claims, type)', c.key = d.key
      PROVE  c = d
  <2>1. ASSUME NEW e, e \in LiveHeads(claims, type), e.id # n.sup, n.type = type, e.key = n.key
        PROVE  FALSE
    <3>1. e \in Heads(claims, n.type, n.key)
      BY <2>1 DEF Heads
    <3>2. PICK h \in Heads(claims, n.type, n.key) : n.sup = h.id
      BY <2>1, <3>1 DEF Extends
    <3>3. h \in LiveHeads(claims, type) /\ h.key = n.key
      BY <2>1 DEF Heads
    <3>4. h = e
      BY <2>1, <3>3 DEF Straight
    <3> QED  BY <2>1, <3>2, <3>4
  <2>2. (c = n /\ n.type = type) \/ (c \in LiveHeads(claims, type) /\ c.id # n.sup)
    BY <1>2, HeadsStep
  <2>3. (d = n /\ n.type = type) \/ (d \in LiveHeads(claims, type) /\ d.id # n.sup)
    BY <1>2, HeadsStep
  <2>4. CASE c \in LiveHeads(claims, type) /\ d \in LiveHeads(claims, type)
    BY <1>2, <2>4 DEF Straight
  <2> QED  BY <1>2, <2>1, <2>2, <2>3, <2>4
<1> QED  BY <1>1, <1>2 DEF Straight

LEMMA GraphStep ==
  ASSUME TypeOK, Graph, NEW n, Extends(n), claims' = claims \cup {n}
  PROVE  Graph'
BY NumberedStep, LinkedStep, StraightStep DEF Graph

\* An append keeps the types of the logs.
LEMMA ClaimsStep ==
  ASSUME TypeOK, NEW n, Extends(n), claims' = claims \cup {n}
  PROVE  (claims \subseteq Claim)'
BY DEF TypeOK, Extends

-----------------------------------------------------------------------------
(* What a handler sees *)

\* Phase edges never leave their session, so that the phase heads are the live
\* heads of type phase.
LEMMA PhaseHeadsAreHeads ==
  ASSUME TypeOK, Graph, NEW s
  PROVE  PhaseHeads(claims, s) = Heads(claims, "phase", s)
<1> DEFINE phases == {c \in claims : c.type = "phase" /\ c.key = s}
<1>1. ASSUME NEW c \in phases, c.id \in SupersededIds(claims)
      PROVE  c.id \in SupersededIds(phases)
  <2>1. PICK e \in Superseding(claims) : e.sup = c.id
    BY <1>1 DEF SupersededIds
  <2>2. PICK d \in claims : d.id = c.id /\ d.type = e.type /\ d.key = e.key
    BY <2>1 DEF Graph, Linked
  <2>3. d = c
    BY <2>2 DEF Graph, Numbered
  <2>4. e \in Superseding(phases)
    BY <2>2, <2>3 DEF Superseding
  <2> QED  BY <2>1, <2>4 DEF SupersededIds
<1>2. SupersededIds(phases) \subseteq SupersededIds(claims)
  BY DEF SupersededIds, Superseding
<1>3. PhaseHeads(claims, s) = {c \in phases : c.id \notin SupersededIds(phases)}
  BY DEF PhaseHeads
<1>4. Heads(claims, "phase", s) = {c \in phases : c.id \notin SupersededIds(claims)}
  BY DEF Heads, LiveHeads
<1> HIDE DEF phases
<1> QED  BY <1>1, <1>2, <1>3, <1>4

\* What was read under the lock answers every query a handler makes as the logs
\* would, whatever sessions have been opened since.
LEMMA ReadIsCurrent ==
  ASSUME TypeOK, NEW R, Current(R), NEW k
  PROVE  /\ LiveHeads(R, "task") = LiveHeads(claims, "task")
         /\ TaskHeads(R, k) = Heads(claims, "task", k)
         /\ PhaseHeads(R, k) = PhaseHeads(claims, k)
         /\ LiveOpeners(R, k) \subseteq Heads(claims, "session", k)
<1>1. Superseding(R) = Superseding(claims)
  BY DEF Superseding, Current
<1>2. SupersededIds(R) = SupersededIds(claims)
  BY <1>1 DEF SupersededIds
<1>3. LiveHeads(R, "task") = LiveHeads(claims, "task")
  BY <1>2 DEF LiveHeads, Current
<1>4. TaskHeads(R, k) = Heads(claims, "task", k)
  BY <1>3 DEF TaskHeads, Heads
<1>5. {c \in R : c.type = "phase" /\ c.key = k} = {c \in claims : c.type = "phase" /\ c.key = k}
  BY DEF Current
<1>6. PhaseHeads(R, k) = PhaseHeads(claims, k)
  BY <1>5 DEF PhaseHeads
<1>7. LiveOpeners(R, k) \subseteq Heads(claims, "session", k)
  BY <1>2 DEF LiveOpeners, LiveHeads, Heads, Current
<1> QED  BY <1>3, <1>4, <1>6, <1>7

\* The claim that sorts first is one of those found when there is one only.
LEMMA OnlyIsFirst ==
  ASSUME NEW S, NEW h \in S, h.id \in Nat, \A c \in S : c = h
  PROVE  First(S) = h
BY DEF First

\* A handler that finds a task finds its one head.
LEMMA FindsHead ==
  ASSUME TypeOK, Graph, NEW R, Current(R), NEW k, TaskHeads(R, k) # {}
  PROVE  /\ FindTask(R, k) \in Heads(claims, "task", k)
         /\ FindTask(R, k) \in Claim
         /\ \A h \in Heads(claims, "task", k) : h = FindTask(R, k)
<1>1. PICK h \in Heads(claims, "task", k) : TRUE
  BY ReadIsCurrent
<1>2. \A c \in Heads(claims, "task", k) : c = h
  BY DEF Heads, Graph, Straight
<1>3. h \in claims /\ h.id \in Nat /\ h \in Claim
  BY ClaimIds DEF Heads, LiveHeads
<1>4. First(Heads(claims, "task", k)) = h
  BY <1>2, <1>3, OnlyIsFirst
<1>5. FindTask(R, k) = h
  BY <1>4, ReadIsCurrent DEF FindTask
<1> QED  BY <1>2, <1>3, <1>5

\* A handler that finds a phase finds the one phase of its session.
LEMMA FindsPhase ==
  ASSUME TypeOK, Graph, NEW R, Current(R), NEW s, HasPhase(R, s)
  PROVE  /\ CurrentPhase(R, s) \in Heads(claims, "phase", s)
         /\ \A h \in PhaseHeads(claims, s) : h = CurrentPhase(R, s)
<1>1. PhaseHeads(R, s) = Heads(claims, "phase", s) /\ PhaseHeads(claims, s) = Heads(claims, "phase", s)
  BY ReadIsCurrent, PhaseHeadsAreHeads
<1>2. PICK h \in Heads(claims, "phase", s) : TRUE
  BY <1>1 DEF HasPhase
<1>3. \A c \in Heads(claims, "phase", s) : c = h
  BY DEF Heads, Graph, Straight
<1>4. h \in claims /\ h.id \in Nat
  BY ClaimIds DEF Heads, LiveHeads
<1>5. First(Heads(claims, "phase", s)) = h
  BY <1>3, <1>4, OnlyIsFirst
<1>6. CurrentPhase(R, s) = h
  BY <1>1, <1>5 DEF CurrentPhase
<1> QED  BY <1>1, <1>3, <1>6

-----------------------------------------------------------------------------
(* Every handler fails, or appends a claim that extends the graph *)

LEMMA HeldRead ==
  ASSUME IInv, NEW p \in Proc, pc[p] = "held"
  PROVE  /\ TypeOK /\ Graph /\ lock = p /\ Current(read[p])
         /\ cmd[p] \in CommandsOf[p] /\ cmd[p] \in Command
BY DEF IInv, Exclusive, Assigned, TypeOK

LEMMA NewIsClaim ==
  ASSUME TypeOK, Graph, Cardinality(claims) < MaxClaims,
         NEW type \in {"session", "phase", "task"}, NEW key \in Session \cup Task,
         NEW val \in Phase \cup Status \cup {"session"}, NEW sup \in 0..MaxClaims
  PROVE  NewClaim(type, key, val, sup) \in Claim
<1>1. Cardinality(claims) + 1 \in 1..MaxClaims
  <2>1. Cardinality(claims) \in Nat
    BY FS_CardinalityType DEF Graph, Numbered
  <2> QED  BY <2>1, WorkflowAssumption
<1> QED  BY <1>1 DEF NewClaim, Claim

\* `session close` supersedes a live opener.
LEMMA SessionCloseExtends ==
  ASSUME IInv, NEW p \in Proc, SessionClose(p)
  PROVE  Bail(p) \/ \E n : Extends(n) /\ Reply(p, n)
<1>1. pc[p] = "held"
  BY DEF SessionClose, Handling
<1>2. TypeOK /\ Graph /\ Current(read[p]) /\ cmd[p] \in Command
  BY <1>1, HeldRead
<1> DEFINE s == cmd[p].session
<1>3. s \in Session
  BY <1>2 DEF Command
<1>4. ASSUME NEW o \in LiveOpeners(read[p], s), Reply(p, NewClaim("session", s, "session", o.id))
      PROVE  Extends(NewClaim("session", s, "session", o.id))
  <2>1. Cardinality(claims) < MaxClaims
    BY <1>4 DEF Reply, AppendClaim
  <2>2. o \in Heads(claims, "session", s)
    BY <1>2, ReadIsCurrent
  <2>3. o.id \in 1..MaxClaims
    BY <1>2, <2>2, ClaimIds DEF Heads, LiveHeads, Claim
  <2>4. NewClaim("session", s, "session", o.id) \in Claim
    BY <1>2, <1>3, <2>1, <2>3, NewIsClaim, WorkflowAssumption
  <2> QED  BY <2>1, <2>2, <2>4 DEF Extends, NewClaim
<1> QED  BY <1>4 DEF SessionClose

\* `phase set` starts a session's phases, or supersedes its one phase, along the
\* transitions unless forced.
LEMMA PhaseSetExtends ==
  ASSUME IInv, NEW p \in Proc, PhaseSet(p)
  PROVE  \/ Bail(p)
         \/ \E n : /\ Extends(n) /\ Reply(p, n)
                   /\ ~cmd[p].force =>
                        \/ PhaseHeads(claims, cmd[p].session) = {}
                        \/ \E h \in PhaseHeads(claims, cmd[p].session) :
                             n.sup = h.id /\ n.val \in Transitions(h.val)
<1>1. pc[p] = "held" /\ cmd[p].op = "phase"
  BY DEF PhaseSet, Handling
<1>2. /\ TypeOK /\ Graph /\ Current(read[p])
      /\ cmd[p] \in Command /\ cmd[p] \in CommandsOf[p]
  BY <1>1, HeldRead
<1> DEFINE s == cmd[p].session
           to == cmd[p].arg
           prior == CurrentPhase(read[p], s)
<1>3. s \in Session /\ to \in Phase
  BY <1>1, <1>2, WorkflowAssumption DEF Command
<1>4. CASE ~HasPhase(read[p], s)
  <2> DEFINE n == NewClaim("phase", s, to, NoClaim)
  <2>1. Reply(p, n)
    BY <1>4 DEF PhaseSet
  <2>2. Cardinality(claims) < MaxClaims
    BY <2>1 DEF Reply, AppendClaim
  <2>3. n \in Claim
    BY <1>2, <1>3, <2>2, NewIsClaim, WorkflowAssumption DEF NoClaim
  <2>4. PhaseHeads(claims, s) = {}
    BY <1>2, <1>4, ReadIsCurrent DEF HasPhase
  <2>5. Heads(claims, "phase", s) = {}
    BY <1>2, <2>4, PhaseHeadsAreHeads
  <2>6. Extends(n)
    BY <2>2, <2>3, <2>5 DEF Extends, NewClaim
  <2> HIDE DEF n
  <2> QED  BY <2>1, <2>4, <2>6
<1>5. CASE HasPhase(read[p], s) /\ (cmd[p].force \/ to \in Transitions(prior.val))
  <2> DEFINE n == NewClaim("phase", s, to, prior.id)
  <2>1. Reply(p, n)
    BY <1>5 DEF PhaseSet
  <2>2. Cardinality(claims) < MaxClaims
    BY <2>1 DEF Reply, AppendClaim
  <2>3. prior \in Heads(claims, "phase", s) /\ prior \in PhaseHeads(claims, s)
    BY <1>2, <1>5, FindsPhase, PhaseHeadsAreHeads
  <2>4. prior.id \in 1..MaxClaims
    BY <1>2, <2>3, ClaimIds DEF Heads, LiveHeads, Claim
  <2>5. n \in Claim
    BY <1>2, <1>3, <2>2, <2>4, NewIsClaim, WorkflowAssumption
  <2>6. Extends(n)
    BY <2>2, <2>3, <2>5 DEF Extends, NewClaim
  <2>7. n.val = to /\ n.sup = prior.id
    BY DEF NewClaim
  <2> HIDE DEF n
  <2> QED  BY <1>5, <2>1, <2>3, <2>6, <2>7
<1>6. CASE HasPhase(read[p], s) /\ ~(cmd[p].force \/ to \in Transitions(prior.val))
  BY <1>6 DEF PhaseSet
<1> QED  BY <1>4, <1>5, <1>6

\* A command about a task names one.
LEMMA TaskNamed ==
  ASSUME IInv, NEW p \in Proc, pc[p] = "held", cmd[p].op \in TaskOp \ {"bulk_reset"}
  PROVE  cmd[p].task \in Task
BY HeldRead, WorkflowAssumption

\* A revision supersedes the task's one head, and gives nothing away.
LEMMA ReviseExtends ==
  ASSUME TypeOK, Graph, NEW p \in Proc, Current(read[p]), cmd[p].task \in Task, Known(p),
         Cardinality(claims) < MaxClaims, NEW status \in Phase \cup Status \cup {"session"}
  PROVE  /\ Extends(Revise(p, status))
         /\ \A a \in {"none", "declared", "checked"} : Extends([Revise(p, status) EXCEPT !.acc = a])
         /\ \A o \in Session : Head(p).val = "pending" =>
              Extends([Revise(p, status) EXCEPT !.owner = o])
<1> DEFINE k == cmd[p].task
           n == Revise(p, status)
<1>1. Head(p) \in Heads(claims, "task", k)
  BY FindsHead DEF Known, Head
<1>2. Head(p).id \in 1..MaxClaims
  BY <1>1, ClaimIds DEF Heads, LiveHeads, Claim
<1>3. n \in Claim
  <2>1. NewClaim("task", k, status, Head(p).id) \in Claim
    BY <1>2, NewIsClaim, WorkflowAssumption
  <2> QED  BY <2>1 DEF Revise
<1>4. n = [id |-> Cardinality(claims) + 1, type |-> "task", key |-> k, val |-> status,
           owner |-> NoOwner, acc |-> "none", sup |-> Head(p).id]
  BY DEF Revise, NewClaim
<1>5. Extends(n)
  BY <1>1, <1>3, <1>4 DEF Extends
<1>6. ASSUME NEW a \in {"none", "declared", "checked"}
      PROVE  Extends([n EXCEPT !.acc = a])
  <2>1. [n EXCEPT !.acc = a] \in Claim
    BY <1>3 DEF Claim
  <2>2. LET m == [n EXCEPT !.acc = a]
        IN  /\ m.id = n.id /\ m.type = n.type /\ m.key = n.key /\ m.sup = n.sup
            /\ m.owner = NoOwner
    BY <1>4
  <2> QED  BY <1>1, <1>4, <1>5, <2>1, <2>2 DEF Extends
<1>7. ASSUME NEW o \in Session, Head(p).val = "pending"
      PROVE  Extends([n EXCEPT !.owner = o])
  <2>1. [n EXCEPT !.owner = o] \in Claim
    BY <1>3 DEF Claim
  <2>2. LET m == [n EXCEPT !.owner = o]
        IN  /\ m.id = n.id /\ m.type = n.type /\ m.key = n.key /\ m.sup = n.sup
            /\ m.owner = o
    BY <1>4
  <2> QED  BY <1>1, <1>4, <1>5, <1>7, <2>1, <2>2 DEF Extends
<1> QED  BY <1>5, <1>6, <1>7

\* `task add` appends the first claim about a task.
LEMMA TaskAddExtends ==
  ASSUME IInv, NEW p \in Proc, TaskAdd(p)
  PROVE  Bail(p) \/ \E n : Extends(n) /\ Reply(p, n)
<1>1. pc[p] = "held" /\ cmd[p].op = "add"
  BY DEF TaskAdd, Handling
<1>2. TypeOK /\ Graph /\ Current(read[p]) /\ cmd[p].task \in Task
  BY <1>1, HeldRead, TaskNamed DEF TaskOp
<1> DEFINE n == NewClaim("task", cmd[p].task, "pending", NoClaim)
<1>3. CASE ~Known(p)
  <2>1. Reply(p, n)
    BY <1>3 DEF TaskAdd
  <2>2. Cardinality(claims) < MaxClaims
    BY <2>1 DEF Reply, AppendClaim
  <2>3. n \in Claim
    BY <1>2, <2>2, NewIsClaim, WorkflowAssumption DEF NoClaim, Status
  <2>4. Heads(claims, "task", cmd[p].task) = {}
    BY <1>2, <1>3, ReadIsCurrent DEF Known
  <2>5. Extends(n)
    BY <1>2, <2>2, <2>3, <2>4 DEF Extends, NewClaim
  <2> QED  BY <2>1, <2>5
<1> QED  BY <1>3 DEF TaskAdd

\* `task claim` gives away a task that is pending.
LEMMA TaskClaimExtends ==
  ASSUME IInv, NEW p \in Proc, TaskClaim(p)
  PROVE  Bail(p) \/ \E n : Extends(n) /\ Reply(p, n)
<1>1. pc[p] = "held" /\ cmd[p].op = "claim"
  BY DEF TaskClaim, Handling
<1>2. /\ TypeOK /\ Graph /\ Current(read[p]) /\ cmd[p].task \in Task
      /\ cmd[p].session \in Session
  BY <1>1, HeldRead, TaskNamed DEF TaskOp, Command
<1> DEFINE n == [Revise(p, "in_progress") EXCEPT !.owner = cmd[p].session]
<1>3. CASE Known(p) /\ Head(p).val = "pending"
  <2>1. Reply(p, n)
    BY <1>3 DEF TaskClaim
  <2>2. Cardinality(claims) < MaxClaims
    BY <2>1 DEF Reply, AppendClaim
  <2>3. Extends(n)
    BY <1>2, <1>3, <2>2, ReviseExtends DEF Status
  <2> QED  BY <2>1, <2>3
<1> QED  BY <1>3 DEF TaskClaim

LEMMA TaskDoneExtends ==
  ASSUME IInv, NEW p \in Proc, TaskDone(p)
  PROVE  Bail(p) \/ \E n : Extends(n) /\ Reply(p, n)
<1>1. pc[p] = "held" /\ cmd[p].op = "done"
  BY DEF TaskDone, Handling
<1>2. TypeOK /\ Graph /\ Current(read[p]) /\ cmd[p].task \in Task
  BY <1>1, HeldRead, TaskNamed DEF TaskOp
<1> DEFINE n == Revise(p, "done")
<1>3. CASE Known(p)
  <2>1. Bail(p) \/ Reply(p, n) \/ Reply(p, [n EXCEPT !.acc = "checked"])
    BY <1>3 DEF TaskDone
  <2>2. (\E m : Reply(p, m)) => Cardinality(claims) < MaxClaims
    BY DEF Reply, AppendClaim
  <2>3. Cardinality(claims) < MaxClaims => Extends(n) /\ Extends([n EXCEPT !.acc = "checked"])
    BY <1>2, <1>3, ReviseExtends DEF Status
  <2> HIDE DEF n
  <2> QED  BY <2>1, <2>2, <2>3
<1> QED  BY <1>3 DEF TaskDone

LEMMA TaskReviseExtends ==
  ASSUME IInv, NEW p \in Proc, TaskRevise(p)
  PROVE  Bail(p) \/ \E n : Extends(n) /\ Reply(p, n)
<1>1. pc[p] = "held" /\ cmd[p].op \in {"block", "wait", "cancel", "update"}
  BY DEF TaskRevise
<1>2. TypeOK /\ Graph /\ Current(read[p]) /\ cmd[p].task \in Task
  BY <1>1, HeldRead, TaskNamed DEF TaskOp
<1>3. CASE Known(p)
  <2>1. Head(p).val \in Phase \cup Status \cup {"session"}
    BY <1>2, <1>3, FindsHead DEF Known, Head, Claim
  <2>2. PICK status \in Phase \cup Status \cup {"session"} : Reply(p, Revise(p, status))
    BY <1>1, <1>3, <2>1 DEF TaskRevise, Status
  <2>3. Cardinality(claims) < MaxClaims
    BY <2>2 DEF Reply, AppendClaim
  <2>4. Extends(Revise(p, status))
    BY <1>2, <1>3, <2>3, ReviseExtends
  <2> QED  BY <2>2, <2>4
<1> QED  BY <1>3 DEF TaskRevise

LEMMA TaskAcceptanceExtends ==
  ASSUME IInv, NEW p \in Proc, TaskAcceptance(p)
  PROVE  Bail(p) \/ \E n : Extends(n) /\ Reply(p, n)
<1>1. pc[p] = "held" /\ cmd[p].op = "acceptance"
  BY DEF TaskAcceptance, Handling
<1>2. TypeOK /\ Graph /\ Current(read[p]) /\ cmd[p].task \in Task
  BY <1>1, HeldRead, TaskNamed DEF TaskOp
<1> DEFINE n == [Revise(p, Head(p).val) EXCEPT !.acc = "declared"]
<1>3. CASE Known(p)
  <2>1. Head(p).val \in Phase \cup Status \cup {"session"}
    BY <1>2, <1>3, FindsHead DEF Known, Head, Claim
  <2>2. Reply(p, n)
    BY <1>3 DEF TaskAcceptance
  <2>3. Cardinality(claims) < MaxClaims
    BY <2>2 DEF Reply, AppendClaim
  <2>4. Extends(n)
    BY <1>2, <1>3, <2>1, <2>3, ReviseExtends
  <2> QED  BY <2>2, <2>4
<1> QED  BY <1>3 DEF TaskAcceptance

LEMMA TaskResetExtends ==
  ASSUME IInv, NEW p \in Proc, TaskReset(p)
  PROVE  Bail(p) \/ \E n : Extends(n) /\ Reply(p, n)
<1>1. pc[p] = "held" /\ cmd[p].op = "reset"
  BY DEF TaskReset, Handling
<1>2. TypeOK /\ Graph /\ Current(read[p]) /\ cmd[p].task \in Task
  BY <1>1, HeldRead, TaskNamed DEF TaskOp
<1>3. CASE Known(p)
  <2>1. Reply(p, Revise(p, "pending"))
    BY <1>3 DEF TaskReset
  <2>2. Cardinality(claims) < MaxClaims
    BY <2>1 DEF Reply, AppendClaim
  <2>3. Extends(Revise(p, "pending"))
    BY <1>2, <1>3, <2>2, ReviseExtends DEF Status
  <2> QED  BY <2>1, <2>3
<1> QED  BY <1>3 DEF TaskReset

\* A handler that still has tasks to reset has the index open, unless another
\* process has it; then it finds nothing.
LEMMA BulkResetExtends ==
  ASSUME IInv, NEW p \in Proc, NEW k \in Task, BulkReset(p, k)
  PROVE  \E n : Extends(n) /\ AppendClaim(p, n) /\ lock = p
<1>1. TypeOK /\ Graph
  BY DEF IInv
<1>2. TaskHeads(read[p], k) # {} /\ Cardinality(claims) < MaxClaims
  BY DEF BulkReset, AppendClaim
<1>3. read[p] # {}
  BY <1>2 DEF TaskHeads, Heads, LiveHeads
<1>4. lock = p /\ Current(read[p])
  BY <1>3 DEF IInv, Exclusive
<1> DEFINE h == FindTask(read[p], k)
           n == NewClaim("task", k, "pending", h.id)
<1>5. h \in Heads(claims, "task", k)
  BY <1>1, <1>2, <1>4, FindsHead
<1>6. h.id \in 1..MaxClaims
  BY <1>1, <1>5, ClaimIds DEF Heads, LiveHeads, Claim
<1>7. n \in Claim
  BY <1>1, <1>2, <1>6, NewIsClaim, WorkflowAssumption DEF Status
<1>8. Extends(n)
  BY <1>2, <1>5, <1>7 DEF Extends, NewClaim
<1> QED  BY <1>4, <1>8 DEF BulkReset

\* `session start` opens a session.
LEMMA SessionStartExtends ==
  ASSUME IInv, NEW p \in Proc, NEW c \in CommandsOf[p], SessionStart(p, c)
  PROVE  \E n : /\ Extends(n) /\ n.type = "session" /\ n.sup = NoClaim
                /\ claims' = claims \cup {n} /\ UNCHANGED <<lock, pc, cmd, read, todo>>
<1> DEFINE n == NewClaim("session", c.session, "session", NoClaim)
<1>1. TypeOK /\ Graph /\ Cardinality(claims) < MaxClaims
  BY DEF IInv, SessionStart
<1>2. c.session \in Session
  BY WorkflowAssumption DEF Command
<1>3. n \in Claim
  BY <1>1, <1>2, NewIsClaim, WorkflowAssumption DEF NoClaim
<1>4. Extends(n) /\ n.type = "session" /\ n.sup = NoClaim
  BY <1>1, <1>3 DEF Extends, NewClaim
<1> QED  BY <1>4 DEF SessionStart

-----------------------------------------------------------------------------
(* Every step keeps the invariant *)

LEMMA IdleIsCommand == Idle \in Command
<1>1. (CHOOSE s \in Session : TRUE) \in Session
  BY WorkflowAssumption
<1> QED  BY <1>1 DEF Idle, Command

LEMMA SameGraph ==
  ASSUME Graph, UNCHANGED claims
  PROVE  Graph'
BY DEF Graph, Numbered, Linked, Straight, Superseding, LiveHeads, SupersededIds

LEMMA InitHolds == Init => IInv
<1> SUFFICES ASSUME Init  PROVE IInv
  OBVIOUS
<1>1. TypeOK
  BY IdleIsCommand DEF Init, TypeOK
<1>2. Graph
  BY FS_EmptySet DEF Init, Graph, Numbered, Linked, Straight, Superseding, LiveHeads
<1>3. Exclusive
  BY WorkflowAssumption DEF Init, Exclusive, Current
<1>4. Assigned
  BY DEF Init, Assigned
<1> QED  BY <1>1, <1>2, <1>3, <1>4 DEF IInv

\* A process that ends, with an error or killed, gives back its lock and no
\* other's.
LEMMA BailKeeps ==
  ASSUME IInv, NEW p \in Proc, Bail(p)
  PROVE  IInv'
<1> USE DEF IInv, Bail, Exit, Goto
<1>1. TypeOK'
  BY IdleIsCommand DEF TypeOK
<1>2. Graph'
  BY SameGraph
<1>3. Exclusive'
  <2> SUFFICES ASSUME NEW q \in Proc
               PROVE  /\ pc'[q] = "held" => lock' = q
                      /\ lock' = q => Current(read[q])'
                      /\ lock' # q => read'[q] = {}
    BY DEF Exclusive
  <2>1. CASE q = p
    BY <2>1, WorkflowAssumption DEF TypeOK
  <2>2. CASE q # p
    <3>1. pc'[q] = pc[q] /\ read'[q] = read[q] /\ (lock' = q <=> lock = q)
      BY <2>2, WorkflowAssumption DEF TypeOK
    <3> QED  BY <3>1 DEF Exclusive, Current
  <2> QED  BY <2>1, <2>2
<1>4. Assigned'
  BY DEF Assigned, TypeOK
<1> QED  BY <1>1, <1>2, <1>3, <1>4

\* An append under the lock gives the lock back.
LEMMA AppendKeeps ==
  ASSUME IInv, NEW p \in Proc, lock = p, NEW n, Extends(n), AppendClaim(p, n),
         NEW at \in {"idle", "reset", "reopen"}, Goto(p, at)
  PROVE  Graph' /\ Exclusive' /\ (claims \subseteq Claim)'
<1> USE DEF IInv
<1>1. claims' = claims \cup {n}
  BY DEF AppendClaim
<1>2. Graph' /\ (claims \subseteq Claim)'
  BY <1>1, GraphStep, ClaimsStep
<1>3. ASSUME NEW q \in Proc
      PROVE  lock' # q /\ pc'[q] # "held" /\ read'[q] = {}
  <2>1. CASE q = p
    BY <2>1, WorkflowAssumption DEF TypeOK, AppendClaim, Goto
  <2>2. CASE q # p
    BY <2>2, WorkflowAssumption DEF TypeOK, AppendClaim, Goto, Exclusive
  <2> QED  BY <2>1, <2>2
<1>4. Exclusive'
  BY <1>3 DEF Exclusive
<1> QED  BY <1>2, <1>4

LEMMA ReplyKeeps ==
  ASSUME IInv, NEW p \in Proc, lock = p, NEW n, Extends(n), Reply(p, n)
  PROVE  IInv'
<1> USE DEF IInv, Reply, Exit
<1>1. Graph' /\ Exclusive' /\ (claims \subseteq Claim)'
  BY AppendKeeps
<1>2. TypeOK'
  BY <1>1, IdleIsCommand DEF TypeOK, AppendClaim, Goto
<1>3. Assigned'
  BY DEF Assigned, TypeOK, Goto
<1> QED  BY <1>1, <1>2, <1>3

\* Opening the index reads all there is.
LEMMA OpenKeeps ==
  ASSUME IInv, NEW p \in Proc, NEW at \in {"held", "reset"}, OpenIndex(p, at),
         UNCHANGED <<claims, todo>>, cmd' \in [Proc -> Command],
         cmd'[p] \in CommandsOf[p], \A q \in Proc : q # p => cmd'[q] = cmd[q],
         at = "reset" => cmd'[p].op = "bulk_reset"
  PROVE  IInv'
<1> USE DEF IInv, OpenIndex, Goto
<1>1. TypeOK'
  BY DEF TypeOK
<1>2. Graph'
  BY SameGraph
<1>3. Exclusive'
  <2> SUFFICES ASSUME NEW q \in Proc
               PROVE  /\ pc'[q] = "held" => lock' = q
                      /\ lock' = q => Current(read[q])'
                      /\ lock' # q => read'[q] = {}
    BY DEF Exclusive
  <2>1. CASE q = p
    BY <2>1 DEF TypeOK, Current
  <2>2. CASE q # p
    <3>1. pc'[q] = pc[q] /\ read'[q] = read[q] /\ lock # q /\ lock' # q
      BY <2>2, WorkflowAssumption DEF TypeOK
    <3> QED  BY <3>1 DEF Exclusive
  <2> QED  BY <2>1, <2>2
<1>4. Assigned'
  BY DEF Assigned, TypeOK
<1> QED  BY <1>1, <1>2, <1>3, <1>4

\* A step that leaves claims, lock and index alone and takes no lock for
\* granted.
LEMMA MoveKeeps ==
  ASSUME IInv, NEW p \in Proc, NEW at \in {"open", "reset"}, Goto(p, at),
         UNCHANGED <<claims, lock, read>>, cmd' \in [Proc -> Command],
         todo' \in [Proc -> SUBSET Task],
         cmd'[p] \in CommandsOf[p], \A q \in Proc : q # p => cmd'[q] = cmd[q],
         at = "reset" => cmd'[p].op = "bulk_reset"
  PROVE  IInv'
<1> USE DEF IInv, Goto
<1>1. TypeOK'
  BY DEF TypeOK
<1>2. Graph'
  BY SameGraph
<1>3. Exclusive'
  BY DEF Exclusive, TypeOK, Current
<1>4. Assigned'
  BY DEF Assigned, TypeOK
<1> QED  BY <1>1, <1>2, <1>3, <1>4

\* A session that is opened while a handler is at work is none of its business.
LEMMA SessionStartKeeps ==
  ASSUME IInv, NEW p \in Proc, NEW c \in CommandsOf[p], SessionStart(p, c)
  PROVE  IInv'
<1> USE DEF IInv
<1>1. PICK n : /\ Extends(n) /\ n.type = "session" /\ n.sup = NoClaim
               /\ claims' = claims \cup {n} /\ UNCHANGED <<lock, pc, cmd, read, todo>>
  BY SessionStartExtends
<1>2. Graph' /\ (claims \subseteq Claim)'
  BY <1>1, GraphStep, ClaimsStep
<1>3. TypeOK'
  BY <1>1, <1>2 DEF TypeOK
<1>4. Exclusive'
  BY <1>1 DEF Exclusive, Current
<1>5. Assigned'
  BY <1>1 DEF Assigned
<1> QED  BY <1>2, <1>3, <1>4, <1>5

\* The list of a bulk reset holds tasks.
LEMMA BulkListKeeps ==
  ASSUME IInv, NEW p \in Proc, BulkList(p)
  PROVE  IInv'
<1>1. pc[p] = "held" /\ cmd[p].op = "bulk_reset"
  BY DEF BulkList, Handling
<1>2. TypeOK /\ Graph /\ Current(read[p]) /\ cmd[p] \in CommandsOf[p]
  BY <1>1, HeldRead
<1>3. \A c \in LiveHeads(read[p], "task") : c.key \in Task
  BY <1>2, ReadIsCurrent DEF LiveHeads, Graph, Numbered
<1>4. todo' \in [Proc -> SUBSET Task]
  BY <1>2, <1>3 DEF BulkList, TypeOK
<1>5. Goto(p, "reset") /\ UNCHANGED <<claims, lock, cmd, read>>
  BY DEF BulkList
<1> QED  BY <1>1, <1>2, <1>4, <1>5, MoveKeeps DEF TypeOK

LEMMA BulkResetKeeps ==
  ASSUME IInv, NEW p \in Proc, NEW k \in Task, BulkReset(p, k)
  PROVE  IInv'
<1> USE DEF IInv
<1>1. PICK n : Extends(n) /\ AppendClaim(p, n) /\ lock = p
  BY BulkResetExtends
<1>2. pc[p] = "reset" /\ UNCHANGED cmd /\ (Goto(p, "reset") \/ Goto(p, "reopen"))
  BY DEF BulkReset
<1>3. Graph' /\ Exclusive' /\ (claims \subseteq Claim)'
  BY <1>1, <1>2, AppendKeeps
<1>4. TypeOK'
  BY <1>1, <1>2, <1>3 DEF TypeOK, BulkReset, AppendClaim, Goto
<1>5. Assigned'
  BY <1>2 DEF Assigned, TypeOK, Goto
<1> QED  BY <1>3, <1>4, <1>5

\* The handlers of one append.
LEMMA HandlerReplies ==
  ASSUME IInv, NEW p \in Proc,
         \/ SessionClose(p) \/ PhaseSet(p)
         \/ TaskAdd(p) \/ TaskClaim(p) \/ TaskDone(p) \/ TaskRevise(p)
         \/ TaskAcceptance(p) \/ TaskReset(p)
  PROVE  Bail(p) \/ \E n : Extends(n) /\ Reply(p, n) /\ lock = p
<1>1. pc[p] = "held"
  BY DEF SessionClose, PhaseSet, TaskAdd, TaskClaim, TaskDone, TaskRevise,
         TaskAcceptance, TaskReset, Handling
<1>2. lock = p
  BY <1>1, HeldRead
<1>3. Bail(p) \/ \E n : Extends(n) /\ Reply(p, n)
  BY SessionCloseExtends, PhaseSetExtends, TaskAddExtends, TaskClaimExtends,
     TaskDoneExtends, TaskReviseExtends, TaskAcceptanceExtends, TaskResetExtends
<1> QED  BY <1>2, <1>3

LEMMA StepHolds == IInv /\ [Next]_vars => IInv'
<1> SUFFICES ASSUME IInv, [Next]_vars  PROVE IInv'
  OBVIOUS
<1>1. CASE UNCHANGED vars
  BY <1>1 DEF vars, IInv, TypeOK, Graph, Numbered, Linked, Straight, Superseding, LiveHeads,
              SupersededIds, Exclusive, Current, Assigned
<1>2. ASSUME NEW p \in Proc, NEW c \in CommandsOf[p], Gate(p, c)  PROVE IInv'
  <2>1. c \in Command
    BY WorkflowAssumption
  <2> QED  BY <1>2, <2>1, MoveKeeps DEF Gate, IInv, TypeOK
<1>3. ASSUME NEW p \in Proc, NEW c \in CommandsOf[p], OpenUngated(p, c)  PROVE IInv'
  <2>1. c \in Command
    BY WorkflowAssumption
  <2> QED  BY <1>3, <2>1, OpenKeeps DEF OpenUngated, IInv, TypeOK
<1>4. ASSUME NEW p \in Proc, NEW c \in CommandsOf[p], SessionStart(p, c)  PROVE IInv'
  BY <1>4, SessionStartKeeps
<1>5. ASSUME NEW p \in Proc, Open(p)  PROVE IInv'
  BY <1>5, OpenKeeps DEF Open, IInv, TypeOK, Assigned
<1>6. ASSUME NEW p \in Proc, Reopen(p)  PROVE IInv'
  BY <1>6, OpenKeeps DEF Reopen, IInv, TypeOK, Assigned
<1>7. ASSUME NEW p \in Proc, FindLocked(p)  PROVE IInv'
  BY <1>7, BailKeeps DEF FindLocked
<1>8. ASSUME NEW p \in Proc, Handle(p)  PROVE IInv'
  <2>1. CASE BulkList(p)
    BY <2>1, BulkListKeeps
  <2>2. CASE \E k \in Task : BulkReset(p, k)
    BY <2>2, BulkResetKeeps
  <2>3. CASE BulkEnd(p)
    BY <2>3, BailKeeps DEF BulkEnd
  <2>4. CASE \/ SessionClose(p) \/ PhaseSet(p)
             \/ TaskAdd(p) \/ TaskClaim(p) \/ TaskDone(p) \/ TaskRevise(p)
             \/ TaskAcceptance(p) \/ TaskReset(p)
    BY <2>4, HandlerReplies, ReplyKeeps, BailKeeps
  <2> QED  BY <1>8, <2>1, <2>2, <2>3, <2>4 DEF Handle
<1>9. ASSUME NEW p \in Proc, Kill(p)  PROVE IInv'
  BY <1>9, BailKeeps DEF Kill
<1> QED  BY <1>1, <1>2, <1>3, <1>4, <1>5, <1>6, <1>7, <1>8, <1>9 DEF Next, Start

\* The invariant holds in every state, whatever commands the processes run.
THEOREM Invariant == Spec => []IInv
BY InitHolds, StepHolds, PTL DEF Spec

\* The logs of one clone hold session, phase and task claims, numbered within
\* the bound, whatever commands its processes run.
THEOREM TypesHold == Spec => []TypeOK
<1>1. IInv => TypeOK
  BY DEF IInv
<1> QED  BY <1>1, Invariant, PTL

-----------------------------------------------------------------------------
(* One head *)

LEMMA AtMostOne ==
  ASSUME NEW S, \A c, d \in S : c = d
  PROVE  Cardinality(S) <= 1
<1>1. CASE S = {}
  BY <1>1, FS_EmptySet
<1>2. CASE S # {}
  <2>1. PICK c \in S : TRUE
    BY <1>2
  <2>2. S = {c}
    BY <2>1
  <2>3. Cardinality({c}) = 1
    BY FS_Singleton
  <2> QED  BY <2>2, <2>3
<1> QED  BY <1>1, <1>2

\* Commands of one clone never fork a chain: no claim is superseded twice, and
\* a task and a phase have one head, however the processes interleave.
THEOREM OneHeadHolds == Spec => []OneHead
<1>1. IInv => OneHead
  <2> SUFFICES ASSUME IInv  PROVE OneHead
    OBVIOUS
  <2>1. TypeOK /\ Graph
    BY DEF IInv
  <2>2. \A c, d \in Superseding(claims) : c.sup = d.sup => c = d
    BY <2>1 DEF Graph, Straight
  <2>3. ASSUME NEW k \in Task  PROVE Cardinality(TaskHeads(claims, k)) <= 1
    <3>1. \A c, d \in TaskHeads(claims, k) : c = d
      BY <2>1 DEF Graph, Straight, TaskHeads, Heads
    <3> QED  BY <3>1, AtMostOne
  <2>4. ASSUME NEW s \in Session  PROVE Cardinality(PhaseHeads(claims, s)) <= 1
    <3>1. PhaseHeads(claims, s) = Heads(claims, "phase", s)
      BY <2>1, PhaseHeadsAreHeads
    <3>2. \A c, d \in PhaseHeads(claims, s) : c = d
      BY <2>1, <3>1 DEF Graph, Straight, Heads
    <3> QED  BY <3>2, AtMostOne
  <2> QED  BY <2>2, <2>3, <2>4 DEF OneHead
<1> QED  BY <1>1, Invariant, PTL

\* Who acts on the index has read every claim but openers that came after.
THEOREM HeldIsCurrentHolds == Spec => []HeldIsCurrent
<1>1. IInv => HeldIsCurrent
  BY DEF IInv, Exclusive, Current, HeldIsCurrent
<1> QED  BY <1>1, Invariant, PTL

-----------------------------------------------------------------------------
(* What steps append *)

\* Whatever a step appends extends the graph as it was.
LEMMA Appended ==
  ASSUME IInv, [Next]_vars
  PROVE  UNCHANGED claims \/ \E n : Extends(n) /\ claims' = claims \cup {n}
<1>1. ASSUME NEW p \in Proc, Bail(p)  PROVE UNCHANGED claims
  BY <1>1 DEF Bail
<1>2. ASSUME NEW p \in Proc, NEW n, AppendClaim(p, n)  PROVE claims' = claims \cup {n}
  BY <1>2 DEF AppendClaim
<1>3. ASSUME NEW p \in Proc, NEW c \in CommandsOf[p], Start(p, c)
      PROVE  UNCHANGED claims \/ \E n : Extends(n) /\ claims' = claims \cup {n}
  BY <1>3, SessionStartExtends DEF Start, Gate, OpenUngated
<1>4. ASSUME NEW p \in Proc, Open(p) \/ Reopen(p) \/ FindLocked(p) \/ Kill(p)
      PROVE  UNCHANGED claims
  BY <1>1, <1>4 DEF Open, Reopen, FindLocked, Kill
<1>5. ASSUME NEW p \in Proc, Handle(p)
      PROVE  UNCHANGED claims \/ \E n : Extends(n) /\ claims' = claims \cup {n}
  <2>1. CASE BulkList(p) \/ BulkEnd(p)
    BY <1>1, <2>1 DEF BulkList, BulkEnd
  <2>2. CASE \E k \in Task : BulkReset(p, k)
    BY <1>2, <2>2, BulkResetExtends
  <2>3. CASE \/ SessionClose(p) \/ PhaseSet(p)
             \/ TaskAdd(p) \/ TaskClaim(p) \/ TaskDone(p) \/ TaskRevise(p)
             \/ TaskAcceptance(p) \/ TaskReset(p)
    BY <1>1, <1>2, <2>3, HandlerReplies DEF Reply
  <2> QED  BY <1>5, <2>1, <2>2, <2>3 DEF Handle
<1>6. CASE UNCHANGED vars
  BY <1>6 DEF vars
<1> QED  BY <1>3, <1>4, <1>5, <1>6 DEF Next

\* `task claim` is atomic: a task is given to a session only by a claim that
\* supersedes its one head, and only while that says the task is pending.
THEOREM TaskClaimIsAtomic == Spec => TaskClaimAtomic
<1>1. IInv /\ [Next]_vars =>
        [\A c \in claims' \ claims :
           c.owner # NoOwner =>
             \A t \in TaskHeads(claims, c.key) : t.id = c.sup /\ t.val = "pending"]_vars
  <2> SUFFICES ASSUME IInv, [Next]_vars, NEW c \in claims' \ claims, c.owner # NoOwner,
                      NEW t \in TaskHeads(claims, c.key)
               PROVE  t.id = c.sup /\ t.val = "pending"
    OBVIOUS
  <2>1. Extends(c)
    BY Appended
  <2>2. PICK h \in Heads(claims, c.type, c.key) : h.id = c.sup /\ c.type = "task" /\ h.val = "pending"
    BY <2>1 DEF Extends
  <2>3. h = t
    BY <2>2 DEF IInv, Graph, Straight, TaskHeads, Heads
  <2> QED  BY <2>2, <2>3
<1> QED  BY <1>1, Invariant, PTL DEF Spec, TaskClaimAtomic

\* A step of one process.
StepOf(p) ==
  \/ \E c \in CommandsOf[p] : Start(p, c)
  \/ Open(p) \/ Reopen(p) \/ FindLocked(p) \/ Handle(p) \/ Kill(p)

\* A process keeps its place, command and list while another makes a step.
LEMMA OthersKeep ==
  ASSUME TypeOK, NEW p \in Proc, NEW q \in Proc, q # p, StepOf(q)
  PROVE  pc'[p] = pc[p] /\ cmd'[p] = cmd[p] /\ todo'[p] = todo[p]
<1> USE DEF TypeOK, Goto, Bail, Reply, AppendClaim, Exit
<1>1. ASSUME NEW c \in CommandsOf[q], Start(q, c)
      PROVE  pc'[p] = pc[p] /\ cmd'[p] = cmd[p] /\ todo'[p] = todo[p]
  BY <1>1 DEF Start, Gate, OpenUngated, SessionStart, OpenIndex
<1>2. ASSUME Open(q) \/ Reopen(q) \/ FindLocked(q) \/ Kill(q)
      PROVE  pc'[p] = pc[p] /\ cmd'[p] = cmd[p] /\ todo'[p] = todo[p]
  BY <1>2 DEF Open, Reopen, FindLocked, Kill, OpenIndex
<1>3. ASSUME NEW n, Bail(q) \/ Reply(q, n)
      PROVE  pc'[p] = pc[p] /\ cmd'[p] = cmd[p] /\ todo'[p] = todo[p]
  BY <1>3
<1>4. ASSUME BulkList(q) \/ BulkEnd(q) \/ \E k \in Task : BulkReset(q, k)
      PROVE  pc'[p] = pc[p] /\ cmd'[p] = cmd[p] /\ todo'[p] = todo[p]
  BY <1>4 DEF BulkList, BulkEnd, BulkReset
<1>5. Handle(q) => \/ BulkList(q) \/ BulkEnd(q) \/ \E k \in Task : BulkReset(q, k)
                   \/ Bail(q) \/ \E n : Reply(q, n)
  <2> HIDE DEF Bail, Reply
  <2> QED  BY DEF Handle, SessionClose, PhaseSet, TaskAdd, TaskClaim, TaskDone, TaskRevise,
                  TaskAcceptance, TaskReset
<1> QED  BY <1>1, <1>2, <1>3, <1>4, <1>5 DEF StepOf

\* A phase set without force starts its session's phases, or supersedes the one
\* phase there is with a step of the table, whichever processes set phases.
THEOREM PhaseSetSteps == Spec => PhaseSteps
<1>1. IInv /\ [Next]_vars =>
        [\A p \in Proc : cmd[p].op = "phase" /\ ~cmd[p].force =>
           \A c \in AppendedBy(p) :
             \/ PhaseHeads(claims, cmd[p].session) = {}
             \/ \E prior \in PhaseHeads(claims, cmd[p].session) :
                  c.sup = prior.id /\ c.val \in Transitions(prior.val)]_vars
  <2> SUFFICES ASSUME IInv, Next, NEW p \in Proc, cmd[p].op = "phase", ~cmd[p].force,
                      NEW c \in AppendedBy(p)
               PROVE  \/ PhaseHeads(claims, cmd[p].session) = {}
                      \/ \E prior \in PhaseHeads(claims, cmd[p].session) :
                           c.sup = prior.id /\ c.val \in Transitions(prior.val)
    BY DEF vars, AppendedBy
  <2>1. /\ pc[p] \in {"held", "reset"} /\ <<pc'[p], todo'[p]>> # <<pc[p], todo[p]>>
        /\ c \in claims' \ claims
    BY DEF AppendedBy
  <2>2. pc[p] = "held"
    BY <2>1 DEF IInv, Assigned
  <2>3. PhaseSet(p)
    <3>1. PICK q \in Proc : StepOf(q)
      BY DEF Next, StepOf
    <3>2. q = p
      BY <2>1, <3>1, OthersKeep DEF StepOf, IInv
    <3>3. ~Bail(p) /\ claims' # claims
      BY <2>1 DEF Bail
    <3> QED
      BY <2>2, <3>1, <3>2, <3>3
      DEF StepOf, Start, Gate, OpenUngated, SessionStart, Open, Reopen, FindLocked, Kill, Handle,
          SessionClose, TaskAdd, TaskClaim, TaskDone, TaskRevise, TaskAcceptance, TaskReset,
          BulkList, BulkReset, BulkEnd, Handling
  <2>4. PICK n : /\ claims' = claims \cup {n}
                 /\ \/ PhaseHeads(claims, cmd[p].session) = {}
                    \/ \E h \in PhaseHeads(claims, cmd[p].session) :
                         n.sup = h.id /\ n.val \in Transitions(h.val)
    BY <2>1, <2>3, PhaseSetExtends DEF Bail, Reply, AppendClaim
  <2> QED  BY <2>1, <2>4
<1> QED  BY <1>1, Invariant, PTL DEF Spec, PhaseSteps

-----------------------------------------------------------------------------
(* The bulk reset *)

LEMMA StepsOfProcesses ==
  ASSUME Next
  PROVE  \E q \in Proc : StepOf(q)
BY DEF Next, StepOf

\* What a bulk reset has listed was in progress in the session it is for.
ListedWasHeld ==
  \A p \in Proc : pc[p] \in {"reset", "reopen"} => \A k \in todo[p] :
    \E t \in claims : t.key = k /\ t.val = "in_progress" /\ t.owner = cmd[p].arg

\* The list, as it is made.
LEMMA BulkListListed ==
  ASSUME IInv, NEW p \in Proc, BulkList(p), NEW k \in todo'[p]
  PROVE  \E t \in claims : t.key = k /\ t.val = "in_progress" /\ t.owner = cmd[p].arg
<1>1. TypeOK /\ Graph /\ Current(read[p])
  BY HeldRead DEF BulkList, Handling
<1>2. PICK c \in LiveHeads(claims, "task") :
        c.key = k /\ c.val = "in_progress" /\ c.owner = cmd[p].arg
  BY <1>1, ReadIsCurrent DEF BulkList, TypeOK
<1> QED  BY <1>2 DEF LiveHeads

\* The steps of a process that leave it resetting a list.
LEMMA ResettingSteps ==
  ASSUME TypeOK, NEW p \in Proc, StepOf(p), pc'[p] \in {"reset", "reopen"}
  PROVE  BulkList(p) \/ Reopen(p) \/ \E j \in Task : BulkReset(p, j)
<1> USE DEF Goto, TypeOK
<1>1. \A n : ~Bail(p) /\ ~Reply(p, n)
  BY DEF Bail, Reply, Exit
<1>2. ~(\E c \in CommandsOf[p] : Start(p, c)) /\ ~Open(p)
  <2>1. ASSUME NEW c \in CommandsOf[p], Start(p, c)  PROVE FALSE
    BY <2>1 DEF Start, Gate, OpenUngated, SessionStart, OpenIndex
  <2>2. ~Open(p)
    BY DEF Open, OpenIndex
  <2> QED  BY <2>1, <2>2
<1>3. Handle(p) => \/ BulkList(p) \/ BulkEnd(p) \/ \E j \in Task : BulkReset(p, j)
                   \/ Bail(p) \/ \E n : Reply(p, n)
  BY DEF Handle, SessionClose, PhaseSet, TaskAdd, TaskClaim, TaskDone, TaskRevise,
         TaskAcceptance, TaskReset
<1> QED  BY <1>1, <1>2, <1>3 DEF StepOf, FindLocked, Kill, BulkEnd

LEMMA ListedWasHeldStep ==
  ASSUME IInv, ListedWasHeld, [Next]_vars
  PROVE  ListedWasHeld'
<1>1. claims \subseteq claims'
  BY Appended
<1>2. CASE UNCHANGED vars
  BY <1>2 DEF vars, ListedWasHeld
<1>3. ASSUME NEW q \in Proc, StepOf(q), NEW p \in Proc, pc'[p] \in {"reset", "reopen"},
             NEW k \in todo'[p]
      PROVE  \E t \in claims' : t.key = k /\ t.val = "in_progress" /\ t.owner = cmd'[p].arg
  <2>1. TypeOK
    BY DEF IInv
  <2>2. CASE /\ pc[p] \in {"reset", "reopen"} /\ cmd'[p] = cmd[p]
             /\ todo'[p] \subseteq todo[p]
    BY <1>1, <1>3, <2>2 DEF ListedWasHeld
  <2>3. CASE p # q
    BY <1>3, <2>1, <2>2, <2>3, OthersKeep
  <2>4. CASE BulkList(p)
    BY <1>1, <1>3, <2>4, BulkListListed DEF BulkList
  <2>5. CASE Reopen(p)
    BY <2>2, <2>5 DEF Reopen
  <2>6. CASE \E j \in Task : BulkReset(p, j)
    BY <2>1, <2>2, <2>6 DEF BulkReset, TypeOK
  <2> QED  BY <1>3, <2>1, <2>3, <2>4, <2>5, <2>6, ResettingSteps
<1> QED  BY <1>2, <1>3, StepsOfProcesses DEF ListedWasHeld

\* A bulk reset touches no task that its session has not had in progress, though
\* it lets go of the index between the tasks, whatever the others do meanwhile.
THEOREM BulkResetsSpareOthers == Spec => BulkResetSpares
<1>1. Init => ListedWasHeld
  BY DEF Init, ListedWasHeld
<1>2. IInv /\ ListedWasHeld /\ [Next]_vars => ListedWasHeld'
  BY ListedWasHeldStep
<1>3. IInv /\ ListedWasHeld /\ [Next]_vars =>
        [\A p \in Proc : cmd[p].op = "bulk_reset" =>
           \A c \in AppendedBy(p) : \E t \in claims :
             t.key = c.key /\ t.val = "in_progress" /\ t.owner = cmd[p].arg]_vars
  <2> SUFFICES ASSUME IInv, ListedWasHeld, Next, NEW p \in Proc, cmd[p].op = "bulk_reset",
                      NEW c \in AppendedBy(p)
               PROVE  \E t \in claims :
                        t.key = c.key /\ t.val = "in_progress" /\ t.owner = cmd[p].arg
    BY DEF vars, AppendedBy
  <2>1. /\ pc[p] \in {"held", "reset"} /\ <<pc'[p], todo'[p]>> # <<pc[p], todo[p]>>
        /\ c \in claims' \ claims
    BY DEF AppendedBy
  <2>2. PICK q \in Proc : StepOf(q)
    BY StepsOfProcesses
  <2>3. q = p
    BY <2>1, <2>2, OthersKeep DEF IInv
  <2>4. ~Bail(p) /\ claims' # claims
    BY <2>1 DEF Bail
  <2>5. PICK k \in Task : BulkReset(p, k)
    BY <2>1, <2>2, <2>3, <2>4
    DEF StepOf, Start, Gate, OpenUngated, SessionStart, Open, Reopen, FindLocked, Kill, Handle,
        SessionClose, PhaseSet, TaskAdd, TaskClaim, TaskDone, TaskRevise, TaskAcceptance,
        TaskReset, BulkList, BulkEnd, Handling
  <2>6. c.key = k /\ k \in todo[p] /\ pc[p] = "reset"
    BY <2>1, <2>5 DEF BulkReset, AppendClaim, NewClaim
  <2> QED  BY <2>6 DEF ListedWasHeld
<1> QED  BY <1>1, <1>2, <1>3, Invariant, PTL DEF Spec, BulkResetSpares
=============================================================================
