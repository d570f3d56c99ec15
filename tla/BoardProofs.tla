----------------------------- MODULE BoardProofs -----------------------------
(***************************************************************************)
(* Proofs about Board for any clones, tasks, specs, trees and ids: its     *)
(* commands are steps of Clones, so what Clones promises holds of it; a    *)
(* spec is flagged when what it pins is revised, and stays flagged; work   *)
(* does not run dry; forks are never joined; and the cycle search finds    *)
(* the updates that close a cycle, and no others.                          *)
(***************************************************************************)
EXTENDS Board, TLAPS, FiniteSetTheorems, WellFoundedInduction

-----------------------------------------------------------------------------
(* Clones *)

\* The sort by id that a query ends with has a first claim, one of those
\* found, whenever any was found.
LEMMA FirstExists ==
  ASSUME NEW S, S # {}, \A c \in S : c.id \in Nat
  PROVE  \E c \in S : \A d \in S : c.id <= d.id
<1> DEFINE T == {c.id : c \in S}
           Less == OpToRel(<, Nat)
<1>1. T \subseteq Nat /\ T # {}
  OBVIOUS
<1>2. IsWellFoundedOn(Less, Nat)
  BY NatLessThanWellFounded
<1>3. \E m \in T : \A n \in T : <<n, m>> \notin Less
  <2> HIDE DEF Less, T
  <2> QED  BY <1>1, <1>2, WFMin
<1>4. PICK m \in T : \A n \in T : <<n, m>> \notin Less
  BY <1>3
<1>5. \A n \in T : m <= n
  <2> SUFFICES ASSUME NEW n \in T  PROVE m <= n
    OBVIOUS
  <2>1. m \in Nat /\ n \in Nat
    BY <1>1
  <2>2. ~ (n < m)
    BY <1>4, <2>1 DEF OpToRel
  <2> QED  BY <2>1, <2>2
<1>6. PICK c \in S : c.id = m
  OBVIOUS
<1> QED  BY <1>5, <1>6

LEMMA FirstIn ==
  ASSUME NEW S, S # {}, \A c \in S : c.id \in Nat
  PROVE  First(S) \in S
BY FirstExists DEF First

\* The last one too, since ids are bounded.
LEMMA LastIn ==
  ASSUME NEW S, S # {}, \A c \in S : c.id \in Id
  PROVE  \E c \in S : \A d \in S : d.id <= c.id
<1>1. PICK w \in Id : \A i \in Id : i <= w
  BY ClonesAssumption
<1>2. w \in Nat /\ \A c \in S : c.id \in Nat /\ c.id <= w
  BY <1>1, ClonesAssumption
<1> DEFINE T == {w - c.id : c \in S}
           Less == OpToRel(<, Nat)
<1>3. T \subseteq Nat /\ T # {}
  BY <1>2
<1>4. IsWellFoundedOn(Less, Nat)
  BY NatLessThanWellFounded
<1>5. \E m \in T : \A n \in T : <<n, m>> \notin Less
  <2> HIDE DEF Less, T
  <2> QED  BY <1>3, <1>4, WFMin
<1>6. PICK m \in T : \A n \in T : <<n, m>> \notin Less
  BY <1>5
<1>7. PICK c \in S : w - c.id = m
  BY <1>6
<1>8. ASSUME NEW d \in S  PROVE d.id <= c.id
  <2>1. w - d.id \in T
    OBVIOUS
  <2>2. w - d.id \in Nat /\ w - c.id \in Nat
    BY <1>3, <1>7, <2>1
  <2>3. ~ (w - d.id < w - c.id)
    BY <1>6, <1>7, <2>1, <2>2 DEF OpToRel
  <2> QED  BY <1>2, <2>2, <2>3
<1> QED  BY <1>8

\* A live head is a claim of its clone's logs.
LEMMA HeadsHere ==
  ASSUME NEW C, NEW type, NEW k
  PROVE  /\ Heads(C, type, k) \subseteq LiveHeads(C, type)
         /\ LiveHeads(C, type) \subseteq C
         /\ \A c \in Heads(C, type, k) : c.type = type /\ c.key = k
BY DEF Heads, LiveHeads

\* What the type says of one claim.
LEMMA ClaimHere ==
  ASSUME TypeOK, NEW a \in Clone, NEW c \in claims[a]
  PROVE  c \in Claim /\ c.id \in Id /\ c.id \in Nat
<1>1. c \in Claim
  BY DEF TypeOK
<1>2. c.id \in Id
  BY <1>1 DEF Claim
<1> QED  BY <1>1, <1>2, ClonesAssumption

-----------------------------------------------------------------------------
(* Type correctness *)

\* The claim that a step of Clones appends is well-formed, and supersedes
\* nothing or a claim of the clone's own logs.
LEMMA Appended ==
  ASSUME TypeOK, [Next]_claims
  PROVE  \/ \E a \in Clone : \E n \in Claim :
              /\ n.sup = NoClaim \/ n.sup \in Ids(claims[a])
              /\ claims' = [claims EXCEPT ![a] = @ \cup {n}]
         \/ \E a, b \in Clone : Pull(a, b)
         \/ UNCHANGED claims
<1>1. ASSUME NEW a \in Clone, NEW type \in Type, NEW k \in Key, NEW i \in Id,
             NEW body \in Body, Add(a, type, k, i, body)
      PROVE  \E n \in Claim :
               /\ n.sup = NoClaim \/ n.sup \in Ids(claims[a])
               /\ claims' = [claims EXCEPT ![a] = @ \cup {n}]
  <2> DEFINE n == [id |-> i, type |-> type, key |-> k, sup |-> NoClaim, body |-> body]
  <2>1. n \in Claim /\ n.sup = NoClaim
    BY DEF Claim
  <2>2. claims' = [claims EXCEPT ![a] = @ \cup {n}]
    BY <1>1 DEF Add, Append
  <2> QED  BY <2>1, <2>2
<1>2. ASSUME NEW a \in Clone, NEW h \in claims[a], NEW i \in Id,
             NEW body \in Body, Supersede(a, h, i, body)
      PROVE  \E n \in Claim :
               /\ n.sup = NoClaim \/ n.sup \in Ids(claims[a])
               /\ claims' = [claims EXCEPT ![a] = @ \cup {n}]
  <2> DEFINE n == [id |-> i, type |-> h.type, key |-> h.key, sup |-> h.id, body |-> body]
  <2>1. h \in Claim
    BY DEF TypeOK
  <2>2. n \in Claim /\ n.sup \in Ids(claims[a])
    BY <2>1 DEF Claim, Ids
  <2>3. claims' = [claims EXCEPT ![a] = @ \cup {n}]
    BY <1>2 DEF Supersede, Append
  <2> QED  BY <2>2, <2>3
<1> QED  BY <1>1, <1>2 DEF Next

\* A step appends a claim of this form, or copies some.
LEMMA StepType == TypeOK /\ [Next]_claims => TypeOK'
<1> SUFFICES ASSUME TypeOK, [Next]_claims  PROVE TypeOK'
  OBVIOUS
<1>1. ASSUME NEW a \in Clone, NEW n \in Claim,
             claims' = [claims EXCEPT ![a] = @ \cup {n}]
      PROVE  TypeOK'
  BY <1>1 DEF TypeOK
<1>2. ASSUME NEW a \in Clone, NEW b \in Clone, Pull(a, b)  PROVE TypeOK'
  BY <1>2 DEF TypeOK, Pull
<1>3. CASE UNCHANGED claims
  BY <1>3 DEF TypeOK
<1> QED  BY <1>1, <1>2, <1>3, Appended

\* The logs of every clone hold well-formed claims.
THEOREM TypeCorrect == Spec => []TypeOK
<1>1. Init => TypeOK
  BY DEF Init, TypeOK
<1> QED  BY <1>1, StepType, PTL DEF Spec

-----------------------------------------------------------------------------
(* No dangling edge *)

\* Appending a claim that supersedes nothing, or one that is there, leaves no
\* dangling edge.
LEMMA AppendDangles ==
  ASSUME NEW C, Dangling(C) = {}, NEW n, n.sup = NoClaim \/ n.sup \in Ids(C)
  PROVE  Dangling(C \cup {n}) = {}
BY DEF Dangling, Superseding, Ids

\* Merging two logs without a dangling edge makes none.
LEMMA MergeDangles ==
  ASSUME NEW C, NEW D, Dangling(C) = {}, Dangling(D) = {}
  PROVE  Dangling(C \cup D) = {}
BY DEF Dangling, Superseding, Ids

\* NoDangling is inductive, given the types.
LEMMA StepDangling == TypeOK /\ NoDangling /\ [Next]_claims => NoDangling'
<1> SUFFICES ASSUME TypeOK, NoDangling, [Next]_claims  PROVE NoDangling'
  OBVIOUS
<1> USE DEF NoDangling
<1>1. ASSUME NEW a \in Clone, NEW n \in Claim,
             n.sup = NoClaim \/ n.sup \in Ids(claims[a]),
             claims' = [claims EXCEPT ![a] = @ \cup {n}]
      PROVE  NoDangling'
  <2>1. Dangling(claims[a] \cup {n}) = {}
    BY <1>1, AppendDangles
  <2> QED  BY <1>1, <2>1 DEF TypeOK
<1>2. ASSUME NEW a \in Clone, NEW b \in Clone, Pull(a, b)  PROVE NoDangling'
  <2>1. Dangling(claims[a] \cup claims[b]) = {}
    BY MergeDangles
  <2> QED  BY <1>2, <2>1 DEF TypeOK, Pull
<1>3. CASE UNCHANGED claims
  BY <1>3
<1> QED  BY <1>1, <1>2, <1>3, Appended

\* However often clones append and merge, no clone's logs hold a supersedes
\* edge whose target they lack.
THEOREM NeverDangling == Spec => []NoDangling
<1>1. Init => NoDangling
  BY DEF Init, NoDangling, Dangling, Superseding, Ids
<1> QED  BY <1>1, StepDangling, TypeCorrect, PTL DEF Spec

-----------------------------------------------------------------------------
(* Board implements Clones *)

\* What a command writes is the data of a claim.
LEMMA DataBody ==
  ASSUME Now \in Time, NEW st \in Status, NEW deps \in SUBSET Task,
         NEW snap \in SUBSET Id
  PROVE  Data(st, deps, snap) \in Body
BY BoardAssumption DEF Data

\* What a claim of the board holds, beyond what Clones knows of it.
Shape(c) ==
  c.body.status \in Status /\ c.body.deps \in SUBSET Task /\ c.body.snap \in SUBSET Id
BoardType == TypeOK /\ \A a \in Clone : \A c \in claims[a] : Shape(c)

\* The task found is one of the live heads, and has the shape of a claim.
LEMMA Found ==
  ASSUME BoardType, NEW a \in Clone, NEW type, NEW k,
         Heads(claims[a], type, k) # {}
  PROVE  LET h == First(Heads(claims[a], type, k))
         IN  /\ h \in claims[a] /\ Shape(h)
             /\ h \in LiveHeads(claims[a], type) /\ h.type = type /\ h.key = k
<1>1. Heads(claims[a], type, k) \subseteq claims[a]
  BY HeadsHere
<1>2. \A c \in claims[a] : c.id \in Nat
  BY ClaimHere DEF BoardType
<1>3. First(Heads(claims[a], type, k)) \in Heads(claims[a], type, k)
  BY <1>1, <1>2, FirstIn
<1> QED  BY <1>1, <1>3, HeadsHere DEF BoardType

LEMMA FoundSpec ==
  ASSUME BoardType, NEW a \in Clone, NEW k \in Plan, Heads(claims[a], "spec", k) # {}
  PROVE  LET h == First(Heads(claims[a], "spec", k))
         IN  h \in claims[a] /\ h.type = "spec" /\ h.body.status \in Status
<1> DEFINE heads == Heads(claims[a], "spec", k)
<1>1. heads \subseteq claims[a] /\ \A c \in heads : c.type = "spec"
  BY HeadsHere
<1>2. \A c \in claims[a] : c.id \in Nat
  BY ClaimHere DEF BoardType
<1> HIDE DEF heads
<1>3. First(heads) \in heads
  BY <1>1, <1>2, FirstIn DEF heads
<1>4. First(heads) \in claims[a] /\ First(heads).type = "spec"
  BY <1>1, <1>3
<1>5. First(heads).body.status \in Status
  BY <1>4 DEF BoardType, Shape
<1> QED  BY <1>4, <1>5 DEF heads

LEMMA LiveTasksHaveHeads ==
  ASSUME NEW C, NEW k \in LiveTasks(C)
  PROVE  TaskHeads(C, k) # {}
BY DEF LiveTasks, TaskHeads, Heads

LEMMA FoundTask ==
  ASSUME BoardType, NEW a \in Clone, NEW k \in LiveTasks(claims[a])
  PROVE  /\ FindTask(claims[a], k) \in claims[a]
         /\ FindTask(claims[a], k).body.status \in Status
         /\ FindTask(claims[a], k).body.deps \in SUBSET Task
<1>1. Heads(claims[a], "task", k) # {}
  BY LiveTasksHaveHeads DEF TaskHeads
<1> QED  BY <1>1, Found DEF FindTask, TaskHeads, Shape

\* What a command does: it writes a claim that was nowhere yet, dated now, which
\* pins something only if it is of a spec, and takes the place of a live head of
\* the same thing, if of any.
Writes(a, n) ==
  /\ n \in Claim /\ Fresh(n.id) /\ Shape(n)
  /\ n.body.at = Now
  /\ n.body.snap # {} => n.type = "spec"
  /\ n.sup = NoClaim \/ \E h \in LiveHeads(claims[a], n.type) : h.id = n.sup /\ h.key = n.key
  /\ claims' = [claims EXCEPT ![a] = @ \cup {n}]

\* A claim that begins a chain is written so.
LEMMA AddStep ==
  ASSUME Now \in Time, NEW a \in Clone, NEW i \in Id, NEW k \in Task \cup Plan \cup Tree,
         NEW type \in {"task", "spec", "tree"},
         NEW st \in Status, NEW deps \in SUBSET Task, NEW snap \in SUBSET Id,
         snap # {} => type = "spec",
         Add(a, type, k, i, Data(st, deps, snap))
  PROVE  \E n : Writes(a, n)
<1> DEFINE n == [id |-> i, type |-> type, key |-> k, sup |-> NoClaim,
                 body |-> Data(st, deps, snap)]
<1>1. Data(st, deps, snap) \in Body /\ type \in Type /\ k \in Key
  BY DataBody, BoardAssumption
<1>2. n \in Claim
  BY <1>1 DEF Claim
<1>3. Shape(n) /\ n.body.at = Now /\ n.body.snap = snap
  BY DEF Shape, Data
<1>4. Fresh(i) /\ claims' = [claims EXCEPT ![a] = @ \cup {n}]
  BY DEF Add, Append
<1>5. Writes(a, n)
  BY <1>2, <1>3, <1>4 DEF Writes
<1> QED  BY <1>5

\* So is one that takes the place of a live head.
LEMMA SupersedeStep ==
  ASSUME BoardType, Now \in Time, NEW a \in Clone, NEW i \in Id, NEW h \in claims[a],
         NEW st \in Status, NEW deps \in SUBSET Task, NEW snap \in SUBSET Id,
         snap # {} => h.type = "spec",
         Supersede(a, h, i, Data(st, deps, snap))
  PROVE  \E n : Writes(a, n)
<1> DEFINE n == [id |-> i, type |-> h.type, key |-> h.key, sup |-> h.id,
                 body |-> Data(st, deps, snap)]
<1>1. Data(st, deps, snap) \in Body
  BY DataBody
<1>2. h \in Claim
  BY ClaimHere DEF BoardType
<1>3. n \in Claim
  BY <1>1, <1>2 DEF Claim
<1>4. Shape(n) /\ n.body.at = Now /\ n.body.snap = snap
  BY DEF Shape, Data
<1>5. Fresh(i) /\ claims' = [claims EXCEPT ![a] = @ \cup {n}]
      /\ h \in LiveHeads(claims[a], h.type)
  BY DEF Supersede, Append
<1>6. Writes(a, n)
  BY <1>3, <1>4, <1>5 DEF Writes
<1> QED  BY <1>6

\* A task command on a task that is found is such a step.
LEMMA ReviseStep ==
  ASSUME BoardType, Now \in Time, NEW a \in Clone, NEW i \in Id, NEW k \in Task,
         k \in LiveTasks(claims[a]), NEW st \in Status, NEW deps \in SUBSET Task,
         TaskRevise(a, k, i, st, deps)
  PROVE  \E n : Writes(a, n)
<1>1. FindTask(claims[a], k) \in claims[a]
  BY FoundTask
<1>2. Supersede(a, FindTask(claims[a], k), i, Data(st, deps, {}))
  BY DEF TaskRevise
<1>3. {} \in SUBSET Id
  OBVIOUS
<1> QED  BY <1>1, <1>2, <1>3, SupersedeStep

\* Every command writes one claim.
LEMMA CommandStep ==
  ASSUME BoardType, Now \in Time, NEW a \in Clone, NEW i \in Id, Command(a, i)
  PROVE  \E n : Writes(a, n)
<1> DEFINE Goal == \E n : Writes(a, n)
<1>1. ASSUME NEW k \in Task, NEW deps \in DepSets(Task), TaskAdd(a, k, i, deps)
      PROVE  Goal
  <2>1. deps \in SUBSET Task /\ "pending" \in Status /\ {} \in SUBSET Id
    BY DEF DepSets, Status
  <2>2. Add(a, "task", k, i, Data("pending", deps, {}))
    BY <1>1 DEF TaskAdd
  <2> QED  BY <2>1, <2>2, AddStep
<1>2. ASSUME NEW k \in Task, NEW deps \in DepSets(Task), TaskUpdate(a, k, i, deps)
      PROVE  Goal
  <2>1. k \in LiveTasks(claims[a]) /\ deps \in SUBSET Task
    BY <1>2 DEF TaskUpdate, DepSets
  <2>2. FindTask(claims[a], k).body.status \in Status
    BY <2>1, FoundTask
  <2>3. TaskRevise(a, k, i, FindTask(claims[a], k).body.status, deps)
    BY <1>2 DEF TaskUpdate
  <2> QED  BY <2>1, <2>2, <2>3, ReviseStep
<1>3. ASSUME NEW k \in Task, TaskClaim(a, k, i)  PROVE Goal
  <2>1. k \in LiveTasks(claims[a])
    BY <1>3 DEF TaskClaim
  <2>2. FindTask(claims[a], k).body.deps \in SUBSET Task /\ "in_progress" \in Status
    BY <2>1, FoundTask DEF Status
  <2>3. TaskRevise(a, k, i, "in_progress", FindTask(claims[a], k).body.deps)
    BY <1>3 DEF TaskClaim
  <2> QED  BY <2>1, <2>2, <2>3, ReviseStep
<1>4. ASSUME NEW k \in Task, TaskStatus(a, k, i)  PROVE Goal
  <2> DEFINE found == FindTask(claims[a], k).body
  <2>1. k \in LiveTasks(claims[a])
    BY <1>4 DEF TaskStatus
  <2>2. found.deps \in SUBSET Task /\ found.status \in Status
    BY <2>1, FoundTask
  <2>3. PICK st \in NewStatus \cup {found.status} :
          TaskRevise(a, k, i, st, found.deps)
    BY <1>4 DEF TaskStatus
  <2>4. st \in Status
    BY <2>2, BoardAssumption
  <2> QED  BY <2>1, <2>2, <2>3, <2>4, ReviseStep
<1>5. ASSUME NEW k \in Plan, SpecAdd(a, k, i)  PROVE Goal
  <2>1. "active" \in Status /\ {} \in SUBSET Id /\ {} \in SUBSET Task
    BY DEF Status
  <2>2. Add(a, "spec", k, i, Data("active", {}, {}))
    BY <1>5 DEF SpecAdd
  <2> QED  BY <2>1, <2>2, AddStep
<1>6. ASSUME NEW k \in Plan, NEW snap \in Pins(claims[a]), SpecUpdate(a, k, i, snap)
      PROVE  Goal
  <2> DEFINE found == First(Heads(claims[a], "spec", k))
  <2>1. found \in claims[a] /\ found.body.status \in Status /\ found.type = "spec"
    <3>1. Heads(claims[a], "spec", k) # {}
      BY <1>6 DEF SpecUpdate
    <3> QED  BY <3>1, FoundSpec
  <2>2. snap \in SUBSET Id
    <3>1. \A c \in LiveHeads(claims[a], "task") : c.id \in Id
      BY HeadsHere, ClaimHere DEF BoardType
    <3> QED  BY <3>1 DEF Pins
  <2>3. Supersede(a, found, i, Data(found.body.status, {}, snap))
    BY <1>6 DEF SpecUpdate
  <2>4. {} \in SUBSET Task
    OBVIOUS
  <2> QED  BY <2>1, <2>2, <2>3, <2>4, SupersedeStep
<1>7. ASSUME NEW k \in Tree, TreeAdd(a, k, i)  PROVE Goal
  <2>1. "active" \in Status /\ {} \in SUBSET Id /\ {} \in SUBSET Task
    BY DEF Status
  <2>2. Add(a, "tree", k, i, Data("active", {}, {}))
    BY <1>7 DEF TreeAdd
  <2> QED  BY <2>1, <2>2, AddStep
<1>8. ASSUME NEW k \in Tree, TreeClose(a, k, i)  PROVE Goal
  <2>1. PICK h \in Open(claims[a], k) : Supersede(a, h, i, Data("closed", {}, {}))
    BY <1>8 DEF TreeClose
  <2>2. h \in claims[a]
    BY HeadsHere DEF Open
  <2>3. "closed" \in Status /\ {} \in SUBSET Id /\ {} \in SUBSET Task
    BY DEF Status
  <2> QED  BY <2>1, <2>2, <2>3, SupersedeStep
<1> QED  BY <1>1, <1>2, <1>3, <1>4, <1>5, <1>6, <1>7, <1>8 DEF Command

\* Which is a step of Clones, and keeps the shape of claims.
LEMMA WritesStep ==
  ASSUME BoardType, NEW a \in Clone, NEW n, Writes(a, n)
  PROVE  Next /\ \A b \in Clone : \A c \in claims'[b] : Shape(c)
<1>1. n \in Claim /\ Fresh(n.id) /\ claims' = [claims EXCEPT ![a] = @ \cup {n}]
  BY DEF Writes
<1>2. n = [id |-> n.id, type |-> n.type, key |-> n.key, sup |-> n.sup, body |-> n.body]
      /\ n.id \in Id /\ n.type \in Type /\ n.key \in Key /\ n.body \in Body
  BY <1>1 DEF Claim
<1>3. ASSUME NEW h \in LiveHeads(claims[a], n.type), h.id = n.sup, h.key = n.key
      PROVE  Next
  <2>1. h \in claims[a] /\ h.type = n.type
    BY DEF LiveHeads
  <2>2. Supersede(a, h, n.id, n.body)
    BY <1>1, <1>2, <1>3, <2>1 DEF Supersede, Append
  <2> QED  BY <1>2, <2>1, <2>2 DEF Next
<1>4. Next
  <2>1. CASE n.sup = NoClaim
    <3>1. Add(a, n.type, n.key, n.id, n.body)
      BY <1>1, <1>2, <2>1 DEF Add, Append
    <3> QED  BY <1>2, <3>1 DEF Next
  <2> QED  BY <1>3, <2>1 DEF Writes
<1>5. \A b \in Clone : claims'[b] \subseteq claims[b] \cup {n}
  BY <1>1 DEF BoardType, TypeOK
<1> QED  BY <1>4, <1>5 DEF BoardType, Writes

\* A step of the board writes a claim, or copies some.
LEMMA BoardSteps ==
  ASSUME BoardType, [BoardNext]_claims
  PROVE  \/ \E a \in Clone : \E n : Writes(a, n)
         \/ \E a, b \in Clone : Pull(a, b)
         \/ UNCHANGED claims
BY CommandStep DEF BoardNext

LEMMA BoardStep ==
  ASSUME BoardType, [BoardNext]_claims
  PROVE  [Next]_claims /\ BoardType'
<1> DEFINE Shapes == \A b \in Clone : \A c \in claims'[b] : Shape(c)
<1>1. ASSUME NEW a \in Clone, NEW n, Writes(a, n)
      PROVE  Next /\ Shapes
  BY <1>1, WritesStep
<1>2. ASSUME NEW a \in Clone, NEW b \in Clone, Pull(a, b)
      PROVE  Next /\ Shapes
  <2>1. Next
    BY <1>2 DEF Next
  <2>2. Shapes
    BY <1>2 DEF Pull, BoardType, TypeOK
  <2> QED  BY <2>1, <2>2
<1>3. CASE UNCHANGED claims
  BY <1>3, StepType DEF BoardType, Shape
<1>4. ASSUME Next, Shapes  PROVE TypeOK' /\ BoardType'
  <2>1. TypeOK'
    BY <1>4, StepType DEF BoardType
  <2> QED  BY <1>4, <2>1 DEF BoardType, Shape
<1> QED  BY <1>1, <1>2, <1>3, <1>4, BoardSteps

LEMMA BoardInit == Init => BoardType
BY DEF Init, BoardType, TypeOK

\* The logs of every clone hold claims of the board, whatever is run and pulled.
LEMMA BoardTyped == BoardSpec => []BoardType
<1> QED  BY BoardInit, BoardStep, PTL DEF BoardSpec

\* In particular a command appends nothing but a claim of the board, which
\* supersedes heads of its own clone, and keeps the clock in its range.
THEOREM BoardTypeCorrect == BoardSpec => []TypeOK
<1>1. BoardType => TypeOK
  BY DEF BoardType
<1> QED  BY <1>1, BoardTyped, PTL

\* Every behaviour of the board is one of Clones: each command appends one claim
\* that supersedes nothing or a live head its clone has.
THEOREM BoardImplementsClones == BoardSpec => Spec
<1>1. BoardType /\ [BoardNext]_claims => [Next]_claims
  BY BoardStep
<1> QED  BY <1>1, BoardTyped, PTL DEF BoardSpec, Spec

\* No command and no pull on the board leaves a dangling supersedes edge.
THEOREM BoardNeverDangles == BoardSpec => []NoDangling
BY BoardImplementsClones, NeverDangling, PTL

-----------------------------------------------------------------------------
(* Flags *)

\* Logs only grow.
LEMMA Grows ==
  ASSUME TypeOK, [Next]_claims, NEW a \in Clone
  PROVE  claims[a] \subseteq claims'[a]
<1>1. ASSUME NEW b \in Clone, NEW n \in Claim,
             claims' = [claims EXCEPT ![b] = @ \cup {n}]
      PROVE  claims[a] \subseteq claims'[a]
  BY <1>1 DEF TypeOK
<1>2. ASSUME NEW b \in Clone, NEW d \in Clone, Pull(b, d)
      PROVE  claims[a] \subseteq claims'[a]
  BY <1>2 DEF TypeOK, Pull
<1> QED  BY <1>1, <1>2, Appended

\* More claims flag more specs.
LEMMA RiskGrows ==
  ASSUME NEW C, NEW D, C \subseteq D
  PROVE  AtRisk(C) \subseteq AtRisk(D)
<1>1. Superseding(C) \subseteq Superseding(D)
  BY DEF Superseding
<1> QED  BY <1>1 DEF AtRisk

\* A spec that plan-at-risk has flagged in a clone is flagged there for good, for
\* the versions that were flagged stay in the logs and are read: an empty snapshot
\* clears nothing, against what cli.rs:332-338 says.
THEOREM FlagsNeverCleared == BoardSpec => FlagsPersist
<1>1. ASSUME BoardType, [BoardNext]_claims
      PROVE  [\A a \in Clone : AtRisk(claims[a]) \subseteq AtRisk(claims'[a])]_claims
  <2>1. \A a \in Clone : claims[a] \subseteq claims'[a]
    BY <1>1, BoardStep, Grows DEF BoardType
  <2> QED  BY <2>1, RiskGrows
<1> QED  BY <1>1, BoardTyped, PTL DEF BoardSpec, FlagsPersist

-----------------------------------------------------------------------------
(* Work does not run dry *)

\* The claim that a task's id maps to is one of its heads.
LEMMA LastHere ==
  ASSUME BoardType, NEW a \in Clone, NEW k \in LiveTasks(claims[a])
  PROVE  /\ Last(TaskHeads(claims[a], k)) \in LiveHeads(claims[a], "task")
         /\ Last(TaskHeads(claims[a], k)).key = k
<1> DEFINE heads == TaskHeads(claims[a], k)
<1>1. heads # {}
  BY LiveTasksHaveHeads
<1>2. heads \subseteq LiveHeads(claims[a], "task") /\ heads \subseteq claims[a]
      /\ \A c \in heads : c.key = k
  BY HeadsHere DEF TaskHeads
<1>3. \A c \in heads : c.id \in Id
  BY <1>2, ClaimHere DEF BoardType
<1>4. \E c \in heads : \A d \in heads : d.id <= c.id
  <2> HIDE DEF heads
  <2> QED  BY <1>1, <1>3, LastIn
<1>5. Last(heads) \in heads
  BY <1>4 DEF Last
<1> QED  BY <1>2, <1>5

\* Take the tasks whose last head is pending.  If there is none, every
\* dependency is done.  Else one of them depends on none of them, since the
\* graph is acyclic, hence on tasks that are done, and is ready.
LEMMA Starves == BoardType => NoStarvation
<1> SUFFICES ASSUME BoardType, NEW a \in Clone,
                    NEW p \in LiveHeads(claims[a], "task"), p.body.status = "pending",
                    \A c \in LiveHeads(claims[a], "task") :
                      c.body.status = "pending" \/ c.body.status = "done",
                    Unresolved(claims[a]) = {},
                    Acyclic(DepsOf(claims[a]))
             PROVE  Ready(claims[a]) # {}
  BY DEF NoStarvation
<1> DEFINE C == claims[a]
           tasks == LiveHeads(C, "task")
           last(k) == Last(TaskHeads(C, k))
           stuck == {k \in LiveTasks(C) : last(k).body.status = "pending"}
<1>1. \A k \in LiveTasks(C) : last(k) \in tasks /\ last(k).key = k
  BY LastHere
<1>2. \A c \in tasks : c.body.deps \subseteq LiveTasks(C)
  BY DEF Unresolved
<1>3. ASSUME NEW c \in tasks, c.body.status = "pending", c.body.deps \cap stuck = {}
      PROVE  c \in Ready(C)
  <2>1. ASSUME NEW d \in c.body.deps  PROVE Done(C, d)
    <3>1. d \in LiveTasks(C) /\ d \notin stuck
      BY <1>2, <1>3
    <3>2. last(d).body.status = "done"
      BY <1>1, <3>1
    <3> QED  BY <3>1, <3>2 DEF Done, StatusOf
  <2> QED  BY <1>3, <2>1 DEF Ready
<1>4. CASE stuck = {}
  BY <1>3, <1>4
<1>5. CASE stuck # {}
  <2>1. stuck \in SUBSET DOMAIN DepsOf(C)
    BY DEF DepsOf
  <2>2. PICK k \in stuck : DepsOf(C)[k] \cap stuck = {}
    BY <1>5, <2>1 DEF Acyclic
  <2>3. DepsOf(C)[k] = last(k).body.deps
    BY DEF DepsOf
  <2>4. last(k) \in tasks /\ last(k).body.status = "pending"
    BY <1>1
  <2> QED  BY <1>3, <2>2, <2>3, <2>4
<1> QED  BY <1>4, <1>5

\* Whatever is forked and merged, a clone with pending tasks whose others are
\* done, no dangling dependency and no cycle has a task to offer.
THEOREM NeverStarves == BoardSpec => []NoStarvation
BY BoardTyped, Starves, PTL
-----------------------------------------------------------------------------
(* History *)

AllIds == UNION {Ids(claims[a]) : a \in Clone}

\* A claim has its id for itself and is no later than the clocks.
Named ==
  /\ IsFiniteSet(AllIds)
  /\ \A a \in Clone : \A c \in claims[a] :
       /\ c.body.at \in Nat /\ c.body.at <= Cardinality(AllIds)
       /\ c.body.snap # {} => c.type = "spec"
       /\ \A b \in Clone : \A d \in claims[b] : c.id = d.id => c = d

\* What a claim supersedes is in the same logs, an earlier claim of the same thing.
Precedes(p, c) == p.id = c.sup /\ p.type = c.type /\ p.key = c.key /\ p.body.at < c.body.at
Ordered ==
  \A a \in Clone : \A c \in Superseding(claims[a]) : \E p \in claims[a] : Precedes(p, c)

History == Named /\ Ordered

\* A command adds an id, and the clocks move on.
LEMMA WritesId ==
  ASSUME BoardType, Named, NEW a \in Clone, NEW n, Writes(a, n)
  PROVE  /\ n.id \notin AllIds
         /\ AllIds' = AllIds \cup {n.id}
         /\ IsFiniteSet(AllIds')
         /\ Cardinality(AllIds') = 1 + Cardinality(AllIds)
         /\ n.body.at = Cardinality(AllIds')
<1>1. n.id \notin AllIds
  BY DEF Writes, Fresh, AllIds
<1>2. AllIds' = AllIds \cup {n.id}
  <2>1. claims' = [claims EXCEPT ![a] = @ \cup {n}]
    BY DEF Writes
  <2>2. \A b \in Clone : Ids(claims'[b]) = IF b = a THEN Ids(claims[b]) \cup {n.id}
                                           ELSE Ids(claims[b])
    BY <2>1 DEF BoardType, TypeOK, Ids
  <2> QED  BY <2>2 DEF AllIds
<1>3. IsFiniteSet(AllIds \cup {n.id})
      /\ Cardinality(AllIds \cup {n.id}) = Cardinality(AllIds) + 1
  BY <1>1, FS_AddElement DEF Named
<1>4. Cardinality(AllIds) \in Nat
  BY FS_CardinalityType DEF Named
<1>5. n.body.at = 1 + Cardinality(AllIds)
  BY DEF Writes, Now, AllIds
<1> QED  BY <1>1, <1>2, <1>3, <1>4, <1>5

LEMMA PullIds ==
  ASSUME BoardType, NEW a \in Clone, NEW b \in Clone, Pull(a, b)
  PROVE  AllIds' = AllIds
<1>1. \A d \in Clone : Ids(claims'[d]) = IF d = a THEN Ids(claims[d]) \cup Ids(claims[b])
                                         ELSE Ids(claims[d])
  BY DEF BoardType, TypeOK, Ids, Pull
<1> QED  BY <1>1 DEF AllIds

LEMMA StepNamed ==
  ASSUME BoardType, Named, [BoardNext]_claims
  PROVE  Named'
<1>1. ASSUME NEW a \in Clone, NEW n, Writes(a, n)  PROVE Named'
  <2>1. n.id \notin AllIds /\ IsFiniteSet(AllIds')
        /\ Cardinality(AllIds') = 1 + Cardinality(AllIds)
        /\ n.body.at = Cardinality(AllIds')
    BY <1>1, WritesId
  <2>2. Cardinality(AllIds) \in Nat
    BY FS_CardinalityType DEF Named
  <2>3. \A b \in Clone : claims'[b] \subseteq claims[b] \cup {n}
    BY <1>1 DEF Writes, BoardType, TypeOK
  <2>4. ASSUME NEW b \in Clone, NEW c \in claims'[b]
        PROVE  /\ c.body.at \in Nat /\ c.body.at <= Cardinality(AllIds')
               /\ c.body.snap # {} => c.type = "spec"
    <3>1. CASE c = n
      BY <1>1, <2>1, <2>2, <3>1 DEF Writes
    <3>2. CASE c \in claims[b]
      BY <2>1, <2>2, <3>2 DEF Named
    <3> QED  BY <2>3, <3>1, <3>2
  <2>5. ASSUME NEW b \in Clone, NEW c \in claims'[b], NEW d \in Clone, NEW e \in claims'[d],
               c.id = e.id
        PROVE  c = e
    <3>1. \A x \in claims[b] : x.id # n.id
      BY <2>1 DEF AllIds, Ids
    <3>2. \A x \in claims[d] : x.id # n.id
      BY <2>1 DEF AllIds, Ids
    <3> QED  BY <2>3, <2>5, <3>1, <3>2 DEF Named
  <2> HIDE DEF AllIds
  <2> QED  BY <2>1, <2>4, <2>5 DEF Named
<1>2. ASSUME NEW a \in Clone, NEW b \in Clone, Pull(a, b)  PROVE Named'
  <2>1. AllIds' = AllIds
    BY <1>2, PullIds
  <2>2. \A d \in Clone : \A c \in claims'[d] : \E e \in Clone : c \in claims[e]
    BY <1>2 DEF Pull, BoardType, TypeOK
  <2> QED  BY <2>1, <2>2 DEF Named
<1>3. CASE UNCHANGED claims
  <2>1. AllIds' = AllIds
    BY <1>3 DEF AllIds, Ids
  <2> QED  BY <1>3, <2>1 DEF Named
<1> QED  BY <1>1, <1>2, <1>3, BoardSteps

LEMMA StepOrdered ==
  ASSUME BoardType, Named, Ordered, [BoardNext]_claims
  PROVE  Ordered'
<1>1. \A b \in Clone : claims[b] \subseteq claims'[b]
  BY BoardStep, Grows DEF BoardType
<1>2. ASSUME NEW b \in Clone, NEW c \in Superseding(claims'[b]), NEW d \in Clone,
             c \in claims[d], claims[d] \subseteq claims'[b]
      PROVE  \E p \in claims'[b] : Precedes(p, c)
  BY <1>2 DEF Ordered, Superseding
<1>3. ASSUME NEW a \in Clone, NEW n, Writes(a, n)  PROVE Ordered'
  <2>1. \A b \in Clone : b # a => claims'[b] = claims[b]
    BY <1>3 DEF Writes, BoardType, TypeOK
  <2>2. claims'[a] = claims[a] \cup {n}
    BY <1>3 DEF Writes, BoardType, TypeOK
  <2>3. ASSUME n.sup # NoClaim  PROVE \E p \in claims'[a] : Precedes(p, n)
    <3>1. PICK h \in LiveHeads(claims[a], n.type) : h.id = n.sup /\ h.key = n.key
      BY <1>3, <2>3 DEF Writes
    <3>2. h \in claims[a] /\ h.type = n.type
      BY DEF LiveHeads
    <3>3. h.body.at \in Nat /\ h.body.at <= Cardinality(AllIds)
      BY <3>2 DEF Named
    <3>4. Cardinality(AllIds) \in Nat /\ n.body.at = 1 + Cardinality(AllIds)
      BY <1>3, FS_CardinalityType DEF Named, Writes, Now, AllIds
    <3>5. Precedes(h, n)
      BY <3>1, <3>2, <3>3, <3>4 DEF Precedes
    <3> QED  BY <2>2, <3>2, <3>5
  <2>4. ASSUME NEW b \in Clone, NEW c \in Superseding(claims'[b])
        PROVE  \E p \in claims'[b] : Precedes(p, c)
    <3>1. CASE c \in claims[b]
      BY <1>1, <1>2, <3>1
    <3>2. CASE b = a /\ c = n
      BY <2>3, <3>2 DEF Superseding
    <3> QED  BY <2>1, <2>2, <3>1, <3>2 DEF Superseding
  <2> QED  BY <2>4 DEF Ordered, Precedes
<1>4. ASSUME NEW a \in Clone, NEW b \in Clone, Pull(a, b)  PROVE Ordered'
  <2>1. \A d \in Clone : d # a => claims'[d] = claims[d]
    BY <1>4 DEF Pull, BoardType, TypeOK
  <2>2. claims'[a] = claims[a] \cup claims[b]
    BY <1>4 DEF Pull, BoardType, TypeOK
  <2>3. ASSUME NEW d \in Clone, NEW c \in Superseding(claims'[d])
        PROVE  \E p \in claims'[d] : Precedes(p, c)
    BY <1>2, <2>1, <2>2 DEF Superseding
  <2> QED  BY <2>3 DEF Ordered, Precedes
<1>5. CASE UNCHANGED claims
  BY <1>5 DEF Ordered, Precedes
<1> QED  BY <1>3, <1>4, <1>5, BoardSteps

LEMMA HistoryInit == Init => History
<1> SUFFICES ASSUME Init  PROVE History
  OBVIOUS
<1>1. \A a \in Clone : claims[a] = {}
  BY DEF Init
<1>2. AllIds = {}
  BY <1>1 DEF AllIds, Ids
<1>3. IsFiniteSet(AllIds)
  BY <1>2, FS_EmptySet
<1> QED  BY <1>1, <1>3 DEF History, Named, Ordered, Superseding

LEMMA Recorded == BoardSpec => [](BoardType /\ History)
<1>1. Init => BoardType /\ History
  BY BoardInit, HistoryInit
<1>2. BoardType /\ History /\ [BoardNext]_claims => (BoardType /\ History)'
  BY BoardStep, StepNamed, StepOrdered DEF History
<1> QED  BY <1>1, <1>2, PTL DEF BoardSpec

-----------------------------------------------------------------------------
(* Revisions *)

\* The claim that a command writes is dated after the spec that pins what it
\* supersedes.
LEMMA WritesFlag ==
  ASSUME BoardType, History, NEW a \in Clone, NEW n, Writes(a, n),
         NEW s \in claims[a], n.sup \in s.body.snap
  PROVE  s.key \in AtRisk(claims'[a])
<1>1. s.type = "spec" /\ s.body.at \in Nat /\ s.body.at <= Cardinality(AllIds)
  BY DEF History, Named
<1>2. Cardinality(AllIds) \in Nat /\ n.body.at = 1 + Cardinality(AllIds)
  BY FS_CardinalityType DEF History, Named, Writes, Now, AllIds
<1>3. n.body.at > s.body.at
  BY <1>1, <1>2
<1>4. claims'[a] = claims[a] \cup {n}
  BY DEF Writes, BoardType, TypeOK
<1>5. n.sup # NoClaim
  <2>1. s.body.snap \in SUBSET Id
    BY DEF BoardType, Shape
  <2> QED  BY <2>1, ClonesAssumption
<1>6. n \in Superseding(claims'[a])
  BY <1>4, <1>5 DEF Superseding
<1> QED  BY <1>1, <1>3, <1>4, <1>6 DEF AtRisk

\* Whatever else is on the clones, a command that supersedes a claim that a spec
\* of its clone pins gets the spec flagged.
THEOREM RevisionsAreFlagged == BoardSpec => RevisionsFlagged
<1> DEFINE Flagged ==
      \A a \in Clone : \A n \in claims'[a] \ claims[a], s \in claims[a] :
        (\A c \in Clone : n \notin claims[c]) /\ n.sup \in s.body.snap
          => s.key \in AtRisk(claims'[a])
<1>1. ASSUME BoardType, History, [BoardNext]_claims  PROVE [Flagged]_claims
  <2>1. ASSUME NEW b \in Clone, NEW m, Writes(b, m)  PROVE Flagged
    <3>1. \A a \in Clone : \A n \in claims'[a] \ claims[a] : a = b /\ n = m
      BY <2>1 DEF Writes, BoardType, TypeOK
    <3> QED  BY <1>1, <2>1, <3>1, WritesFlag
  <2>2. ASSUME NEW b \in Clone, NEW d \in Clone, Pull(b, d)  PROVE Flagged
    <3>1. \A a \in Clone : \A n \in claims'[a] : \E c \in Clone : n \in claims[c]
      BY <1>1, <2>2 DEF Pull, BoardType, TypeOK
    <3> QED  BY <3>1
  <2> QED  BY <1>1, <2>1, <2>2, BoardSteps
<1> QED  BY <1>1, Recorded, PTL DEF BoardSpec, RevisionsFlagged
-----------------------------------------------------------------------------
(* Forks *)

\* Logs in which every edge leads to an earlier claim of the same thing, up to a
\* date w, and no two claims share an id.
Chained(C) == \A c \in Superseding(C) : \E p \in C : Precedes(p, c)
Sound(C, w) ==
  /\ C \subseteq Claim /\ IsFiniteSet(C) /\ Chained(C)
  /\ \A c \in C : c.body.at \in Nat /\ c.body.at <= w
  /\ \A c, d \in C : c.id = d.id => c = d

\* What h has become in the logs C: the claims that come after it in its chain.
Closed(C, X) == \A p \in X : \A c \in Superseding(C) : c.sup = p.id => c \in X
Became(C, h) == {x \in C : \A X \in SUBSET C : h \in X /\ Closed(C, X) => x \in X}

LEMMA BecameClosed ==
  ASSUME NEW C \in SUBSET Claim, NEW h \in C
  PROVE  h \in Became(C, h) /\ Closed(C, Became(C, h))
<1>1. h \in Became(C, h)
  BY DEF Became
<1>2. ASSUME NEW p \in Became(C, h), NEW c \in Superseding(C), c.sup = p.id
      PROVE  c \in Became(C, h)
  <2>1. ASSUME NEW X \in SUBSET C, h \in X, Closed(C, X)  PROVE c \in X
    BY <1>2, <2>1 DEF Became, Closed
  <2>2. c \in C
    BY DEF Superseding
  <2> QED  BY <2>1, <2>2 DEF Became
<1> QED  BY <1>1, <1>2 DEF Closed

\* The claim that an edge of sound logs leads to is the one with that id.
LEMMA SoundEdge ==
  ASSUME NEW w \in Nat, NEW C \in SUBSET Claim, Sound(C, w),
         NEW c \in Superseding(C), NEW p \in C, c.sup = p.id
  PROVE  Precedes(p, c)
<1>1. PICK q \in C : Precedes(q, c)
  BY DEF Sound, Chained
<1>2. q.id = p.id
  BY <1>1 DEF Precedes
<1> QED  BY <1>1, <1>2 DEF Sound

\* A later claim of a chain is of the same thing.
LEMMA BecameSame ==
  ASSUME NEW w \in Nat, NEW C \in SUBSET Claim, Sound(C, w), NEW h \in C,
         NEW x \in Became(C, h)
  PROVE  x.type = h.type /\ x.key = h.key
<1> DEFINE X == {y \in C : y.type = h.type /\ y.key = h.key}
<1>1. ASSUME NEW p \in X, NEW c \in Superseding(C), c.sup = p.id  PROVE c \in X
  <2>1. Precedes(p, c) /\ c \in C
    BY <1>1, SoundEdge DEF Superseding
  <2> QED  BY <2>1 DEF Precedes
<1>2. h \in X /\ X \in SUBSET C /\ Closed(C, X)
  BY <1>1 DEF Closed
<1>3. x \in X
  <2> HIDE DEF X
  <2> QED  BY <1>2 DEF Became
<1> QED  BY <1>3

\* The latest claim of a chain is live.
LEMMA BecameLive ==
  ASSUME NEW w \in Nat, NEW C \in SUBSET Claim, Sound(C, w), NEW h \in C
  PROVE  \E x \in Became(C, h) : x \in Heads(C, h.type, h.key)
<1> DEFINE T == {w - x.body.at : x \in Became(C, h)}
           Less == OpToRel(<, Nat)
<1>1. \A x \in Became(C, h) : x \in C /\ x.body.at \in Nat /\ x.body.at <= w
  BY DEF Became, Sound
<1>2. T \subseteq Nat /\ T # {}
  BY <1>1, BecameClosed
<1>3. \E m \in T : \A n \in T : <<n, m>> \notin Less
  <2>1. IsWellFoundedOn(Less, Nat)
    BY NatLessThanWellFounded
  <2> HIDE DEF Less, T
  <2> QED  BY <1>2, <2>1, WFMin
<1>4. PICK m \in T : \A n \in T : <<n, m>> \notin Less
  BY <1>3
<1>5. PICK x \in Became(C, h) : w - x.body.at = m
  BY <1>4
<1>6. x.id \notin SupersededIds(C)
  <2> SUFFICES ASSUME NEW c \in Superseding(C), c.sup = x.id  PROVE FALSE
    BY DEF SupersededIds
  <2>1. c \in Became(C, h)
    BY BecameClosed DEF Closed
  <2>2. x.body.at < c.body.at
    BY <1>1, SoundEdge DEF Precedes
  <2>3. w - c.body.at \in T /\ w - c.body.at \in Nat /\ w - x.body.at \in Nat
    BY <1>1, <2>1
  <2>4. w - c.body.at < w - x.body.at
    BY <1>1, <2>1, <2>2
  <2> QED  BY <1>4, <1>5, <2>3, <2>4 DEF OpToRel
<1>7. x.type = h.type /\ x.key = h.key
  BY BecameSame
<1> QED  BY <1>1, <1>6, <1>7 DEF Heads, LiveHeads

\* A live head of logs that have since grown has become nothing that these logs
\* had, but itself.
LEMMA BecameNew ==
  ASSUME NEW w \in Nat, NEW C \in SUBSET Claim, NEW D \in SUBSET Claim, C \subseteq D,
         Chained(C), Sound(D, w), NEW h \in C, h.id \notin SupersededIds(C),
         NEW x \in Became(D, h) \cap C
  PROVE  x = h
<1> DEFINE X == {h} \cup (D \ C)
<1>1. ASSUME NEW p \in X, NEW c \in Superseding(D), c.sup = p.id  PROVE c \in X
  <2> SUFFICES ASSUME c \in C  PROVE FALSE
    BY DEF Superseding
  <2>1. c \in Superseding(C)
    BY DEF Superseding
  <2>2. PICK q \in C : Precedes(q, c)
    BY <2>1 DEF Chained
  <2>3. q = p
    BY <1>1, <2>2 DEF Precedes, Sound
  <2>4. c.sup = h.id
    BY <1>1, <2>3
  <2> QED  BY <2>1, <2>4 DEF SupersededIds
<1>2. h \in X /\ X \in SUBSET D /\ Closed(D, X)
  BY <1>1 DEF Closed
<1>3. x \in X
  <2> HIDE DEF X
  <2> QED  BY <1>2 DEF Became
<1> QED  BY <1>3

\* What a head has become, other than itself, came after something it had become.
LEMMA BecameFrom ==
  ASSUME NEW C \in SUBSET Claim, NEW h \in C, NEW x \in Became(C, h), x # h
  PROVE  x \in Superseding(C) /\ \E p \in Became(C, h) : x.sup = p.id
<1> SUFFICES ASSUME ~ (x \in Superseding(C) /\ \E p \in Became(C, h) : x.sup = p.id)
             PROVE  FALSE
  OBVIOUS
<1> DEFINE X == Became(C, h) \ {x}
<1>1. ASSUME NEW p \in X, NEW c \in Superseding(C), c.sup = p.id  PROVE c \in X
  BY <1>1, BecameClosed DEF Closed
<1>2. h \in X /\ X \in SUBSET C /\ Closed(C, X)
  BY <1>1, BecameClosed DEF Closed, Became
<1>3. x \in X
  <2> HIDE DEF X
  <2> QED  BY <1>2 DEF Became
<1> QED  BY <1>3

\* Two heads never become one claim: it would have two that it supersedes.
LEMMA BecameApart ==
  ASSUME NEW w \in Nat, NEW C \in SUBSET Claim, NEW D \in SUBSET Claim, C \subseteq D,
         Chained(C), Sound(D, w),
         NEW g \in C, g.id \notin SupersededIds(C),
         NEW h \in C, h.id \notin SupersededIds(C), g # h
  PROVE  Became(D, g) \cap Became(D, h) = {}
<1> SUFFICES ASSUME Became(D, g) \cap Became(D, h) # {}  PROVE FALSE
  OBVIOUS
<1> DEFINE Both == Became(D, g) \cap Became(D, h)
           T == {x.body.at : x \in Both}
           Less == OpToRel(<, Nat)
<1>1. \A x \in Both : x \in D /\ x.body.at \in Nat
  BY DEF Became, Sound
<1>2. T \subseteq Nat /\ T # {}
  BY <1>1
<1>3. \E m \in T : \A n \in T : <<n, m>> \notin Less
  <2>1. IsWellFoundedOn(Less, Nat)
    BY NatLessThanWellFounded
  <2> HIDE DEF Less, T
  <2> QED  BY <1>2, <2>1, WFMin
<1>4. PICK m \in T : \A n \in T : <<n, m>> \notin Less
  BY <1>3
<1>5. PICK x \in Both : x.body.at = m
  BY <1>4
<1>6. x # g /\ x # h
  BY BecameNew
<1>7. PICK p \in Became(D, g) : x.sup = p.id
  BY <1>6, BecameFrom
<1>8. PICK q \in Became(D, h) : x.sup = q.id
  BY <1>6, BecameFrom
<1>9. x \in Superseding(D)
  BY <1>6, BecameFrom
<1>10. p \in D /\ q \in D
  BY DEF Became
<1>11. p = q
  BY <1>7, <1>8, <1>10 DEF Sound
<1>12. p.body.at < x.body.at
  BY <1>7, <1>9, <1>10, SoundEdge DEF Precedes
<1>13. p \in Both /\ p.body.at \in T
  BY <1>11
<1>14. p.body.at \in Nat /\ x.body.at \in Nat
  BY <1>1, <1>13
<1> QED  BY <1>4, <1>5, <1>12, <1>13, <1>14 DEF OpToRel

\* So logs that grow have no fewer heads of anything.
LEMMA HeadsGrow ==
  ASSUME NEW w \in Nat, NEW C \in SUBSET Claim, NEW D \in SUBSET Claim, C \subseteq D,
         Chained(C), Sound(D, w), NEW c \in C
  PROVE  Cardinality(Heads(C, c.type, c.key)) <= Cardinality(Heads(D, c.type, c.key))
<1> DEFINE S == Heads(C, c.type, c.key)
           T == Heads(D, c.type, c.key)
           f == [h \in S |-> CHOOSE x \in Became(D, h) : x \in T]
<1>1. \A h \in S : h \in C /\ h \in D /\ h.id \notin SupersededIds(C)
                   /\ h.type = c.type /\ h.key = c.key
  BY DEF Heads, LiveHeads
<1>2. ASSUME NEW h \in S  PROVE f[h] \in Became(D, h) /\ f[h] \in T
  <2>1. \E x \in Became(D, h) : x \in T
    BY <1>1, BecameLive
  <2> HIDE DEF T, S
  <2> QED  BY <2>1
<1>3. ASSUME NEW g \in S, NEW h \in S, f[g] = f[h]  PROVE g = h
  <2>1. f[g] \in Became(D, g) \cap Became(D, h)
    BY <1>2, <1>3
  <2> HIDE DEF f, S
  <2> QED  BY <1>1, <2>1, BecameApart
<1>4. f \in Injection(S, T)
  <2>1. f \in [S -> T]
    BY <1>2
  <2> HIDE DEF T, S
  <2> QED  BY <1>3, <2>1 DEF Injection, IsInjective
<1>5. IsFiniteSet(T)
  <2>1. T \in SUBSET D
    BY DEF Heads, LiveHeads
  <2> QED  BY <2>1, FS_Subset DEF Sound
<1> HIDE DEF f, S, T
<1> QED  BY <1>4, <1>5, FS_Injection DEF S, T

\* The logs of a clone are sound.
AllSound == \A a \in Clone : Sound(claims[a], Cardinality(AllIds))

LEMMA ClonesSound == BoardType /\ History => AllSound
<1> SUFFICES ASSUME BoardType, History, NEW a \in Clone
             PROVE  Sound(claims[a], Cardinality(AllIds))
  BY DEF AllSound
<1>1. claims[a] \subseteq Claim
  BY DEF BoardType, TypeOK
<1>2. Chained(claims[a])
  BY DEF History, Ordered, Chained
<1>3. IsFiniteSet(claims[a])
  <2> DEFINE f == [c \in claims[a] |-> c.id]
  <2>1. f \in [claims[a] -> AllIds]
    BY DEF AllIds, Ids
  <2>2. \A c, d \in claims[a] : f[c] = f[d] => c = d
    BY DEF History, Named
  <2>3. f \in Injection(claims[a], AllIds)
    BY <2>1, <2>2 DEF Injection, IsInjective
  <2> QED  BY <2>3, FS_Injection DEF History, Named
<1> QED  BY <1>1, <1>2, <1>3 DEF Sound, History, Named

\* However clones revise and merge, none ever has fewer live heads of a task, a
\* spec or a tree than it had: nothing gets lost, and no fork is joined, which is
\* what the code does, against cmd_conflicts.rs:6-7 and main.rs:298-300.
THEOREM ForksStay == BoardSpec => ForksPersist
<1> DEFINE Grown ==
      \A a \in Clone : \A c \in claims[a] :
        Cardinality(Heads(claims[a], c.type, c.key))
          <= Cardinality(Heads(claims'[a], c.type, c.key))
<1>1. ASSUME BoardType, History, BoardType', History', [BoardNext]_claims
      PROVE  [Grown]_claims
  <2> SUFFICES ASSUME NEW a \in Clone, NEW c \in claims[a]
               PROVE  Cardinality(Heads(claims[a], c.type, c.key))
                        <= Cardinality(Heads(claims'[a], c.type, c.key))
    OBVIOUS
  <2>1. claims[a] \subseteq claims'[a]
    BY <1>1, BoardStep, Grows DEF BoardType
  <2>2. Sound(claims[a], Cardinality(AllIds))
    BY <1>1, ClonesSound DEF AllSound
  <2>3. Sound(claims'[a], Cardinality(AllIds'))
    <3>1. AllSound'
      BY <1>1, ClonesSound, PTL
    <3> QED  BY <3>1 DEF AllSound, Sound, Chained, Precedes
  <2>4. Cardinality(AllIds') \in Nat
    BY <1>1, FS_CardinalityType DEF History, Named
  <2> HIDE DEF AllIds
  <2> QED  BY <2>1, <2>2, <2>3, <2>4, HeadsGrow DEF Sound
<1> QED  BY <1>1, Recorded, PTL DEF BoardSpec, ForksPersist
-----------------------------------------------------------------------------
(* The cycle search *)

\* One round of the walk, and the rounds up to m.
Onward(G, R) == R \cup UNION {G[e] : e \in R \cap DOMAIN G}
Rounds(G, d, m, f) == f = [n \in 0..m |-> IF n = 0 THEN {d} ELSE Onward(G, f[n-1])]

\* A property of the naturals up to a bound that passes from each to the next
\* holds of all, for the least exception would have a predecessor.
LEMMA UpTo ==
  ASSUME NEW m \in Nat, NEW T \in SUBSET (0..m), 0 \in T,
         \A n \in 0..m : n + 1 \in 0..m /\ n \in T => n + 1 \in T
  PROVE  T = 0..m
<1> SUFFICES ASSUME T # 0..m  PROVE FALSE
  OBVIOUS
<1> DEFINE U == (0..m) \ T
           Less == OpToRel(<, Nat)
<1>1. U \subseteq Nat /\ U # {}
  <2>1. \E n \in 0..m : n \notin T
    BY Zenon
  <2> QED  BY <2>1
<1>2. \E u \in U : \A v \in U : <<v, u>> \notin Less
  <2>1. IsWellFoundedOn(Less, Nat)
    BY NatLessThanWellFounded
  <2> HIDE DEF Less, U
  <2> QED  BY <1>1, <2>1, WFMin
<1>3. PICK u \in U : \A v \in U : <<v, u>> \notin Less
  BY <1>2
<1>4. u # 0 /\ u \in Nat /\ u - 1 \in 0..m
  OBVIOUS
<1>5. u - 1 \in U
  BY <1>4
<1>6. u - 1 \in Nat /\ u - 1 < u
  BY <1>4
<1> QED  BY <1>3, <1>4, <1>5, <1>6 DEF OpToRel

LEMMA RoundsAre ==
  ASSUME NEW G, NEW d, NEW m \in Nat, NEW f, Rounds(G, d, m, f)
  PROVE  f[0] = {d} /\ \A j \in 1..m : f[j] = Onward(G, f[j-1])
<1> DEFINE g == [n \in 0..m |-> IF n = 0 THEN {d} ELSE Onward(G, f[n-1])]
<1>1. f = g
  BY DEF Rounds
<1>2. g[0] = {d} /\ \A j \in 1..m : g[j] = Onward(G, f[j-1])
  OBVIOUS
<1> HIDE DEF g
<1> QED  BY <1>1, <1>2

LEMMA RoundsExist ==
  ASSUME NEW G, NEW d, NEW m \in Nat
  PROVE  \E f : Rounds(G, d, m, f)
<1> DEFINE T == {n \in 0..m : \E f : Rounds(G, d, n, f)}
<1>1. 0 \in T
  <2> DEFINE f == [n \in 0..0 |-> {d}]
  <2>1. Rounds(G, d, 0, f)
    BY DEF Rounds
  <2> QED  BY <2>1
<1>2. ASSUME NEW n \in 0..m, n + 1 \in 0..m, n \in T  PROVE n + 1 \in T
  <2>1. PICK f : Rounds(G, d, n, f)
    BY <1>2
  <2> DEFINE g == [j \in 0..(n+1) |-> IF j = n + 1 THEN Onward(G, f[n]) ELSE f[j]]
  <2>2. ASSUME NEW j \in 0..(n+1)
        PROVE  g[j] = IF j = 0 THEN {d} ELSE Onward(G, g[j-1])
    <3>1. CASE j = n + 1
      BY <3>1
    <3>2. CASE j # n + 1
      <4>1. j \in 0..n /\ g[j] = f[j] /\ (j # 0 => g[j-1] = f[j-1])
        BY <3>2
      <4>2. f[j] = IF j = 0 THEN {d} ELSE Onward(G, f[j-1])
        BY <2>1, <4>1 DEF Rounds
      <4> HIDE DEF g
      <4> QED  BY <4>1, <4>2
    <3> QED  BY <3>1, <3>2
  <2>3. Rounds(G, d, n + 1, g)
    <3>1. g = [j \in 0..(n+1) |-> g[j]]
      OBVIOUS
    <3> HIDE DEF g
    <3> QED  BY <2>2, <3>1 DEF Rounds
  <2> QED  BY <1>2, <2>3
<1>3. T = 0..m
  <2> HIDE DEF T
  <2>1. T \in SUBSET (0..m)
    BY DEF T
  <2> QED  BY <1>1, <1>2, <2>1, UpTo
<1> QED  BY <1>3

\* The walk has as many rounds as there are tasks.
LEMMA ReachedRounds ==
  ASSUME NEW G, NEW d, IsFiniteSet(DOMAIN G)
  PROVE  \E f : Rounds(G, d, Cardinality(DOMAIN G), f)
                /\ Reached(G, d) = f[Cardinality(DOMAIN G)]
<1> DEFINE K == Cardinality(DOMAIN G)
           round == CHOOSE f : f = [n \in 0..K |-> IF n = 0 THEN {d}
                      ELSE f[n-1] \cup UNION {G[e] : e \in f[n-1] \cap DOMAIN G}]
<1>1. K \in Nat
  BY FS_CardinalityType
<1>2. PICK f : Rounds(G, d, K, f)
  BY <1>1, RoundsExist
<1>3. Rounds(G, d, K, round)
  BY <1>2 DEF Rounds, Onward
<1>4. Reached(G, d) = round[K]
  BY DEF Reached
<1> QED  BY <1>3, <1>4
\* Where the walk comes to, it comes to all dependencies.
ClosedUnder(G, R) == \A e \in R \cap DOMAIN G : G[e] \subseteq R

\* Each round meets another task of the graph or the walk is over.
LEMMA RoundsMeet ==
  ASSUME NEW G, NEW d, IsFiniteSet(DOMAIN G), NEW f, Rounds(G, d, Cardinality(DOMAIN G), f)
  PROVE  \A n \in 0..Cardinality(DOMAIN G) :
           ClosedUnder(G, f[n]) \/ Cardinality(f[n] \cap DOMAIN G) > n
<1> DEFINE K == Cardinality(DOMAIN G)
           T == {j \in 0..K : ClosedUnder(G, f[j]) \/ Cardinality(f[j] \cap DOMAIN G) > j}
<1>1. K \in Nat
  BY FS_CardinalityType
<1>2. f[0] = {d} /\ \A j \in 1..K : f[j] = Onward(G, f[j-1])
  BY <1>1, RoundsAre
<1>3. 0 \in T
  <2>1. CASE d \in DOMAIN G
    <3>1. f[0] \cap DOMAIN G = {d}
      BY <1>2, <2>1
    <3>2. Cardinality({d}) = 1
      BY FS_Singleton
    <3> QED  BY <1>1, <3>1, <3>2
  <2>2. CASE d \notin DOMAIN G
    BY <1>1, <1>2, <2>2 DEF ClosedUnder
  <2> QED  BY <2>1, <2>2
<1>4. ASSUME NEW j \in 0..K, j + 1 \in 0..K, j \in T  PROVE j + 1 \in T
  <2>1. f[j+1] = Onward(G, f[j])
    <3>1. j + 1 \in 1..K /\ (j + 1) - 1 = j
      BY <1>4
    <3> QED  BY <1>2, <3>1
  <2> DEFINE was == f[j] \cap DOMAIN G
             is == f[j+1] \cap DOMAIN G
  <2>2. was \subseteq is
    BY <2>1 DEF Onward
  <2>3. CASE is = was
    <3>1. ClosedUnder(G, f[j+1])
      BY <2>1, <2>3 DEF ClosedUnder, Onward
    <3> QED  BY <1>4, <3>1
  <2>4. CASE ClosedUnder(G, f[j])
    <3>1. f[j+1] = f[j]
      BY <2>1, <2>4 DEF ClosedUnder, Onward
    <3> QED  BY <2>3, <3>1
  <2>5. CASE is # was /\ Cardinality(was) > j
    <3>1. IsFiniteSet(is)
      BY FS_Subset
    <3>2. IsFiniteSet(was) /\ Cardinality(was) <= Cardinality(is)
          /\ Cardinality(was) # Cardinality(is)
      <4> HIDE DEF was, is
      <4> QED  BY <2>2, <2>5, <3>1, FS_Subset
    <3>3. Cardinality(was) \in Nat /\ Cardinality(is) \in Nat
      BY <3>1, <3>2, FS_CardinalityType
    <3>4. Cardinality(is) > j + 1
      BY <2>5, <3>2, <3>3
    <3> QED  BY <1>4, <3>4
  <2> QED  BY <1>4, <2>3, <2>4, <2>5
<1>5. T = 0..K
  <2>1. T \in SUBSET (0..K)
    OBVIOUS
  <2> HIDE DEF T, K
  <2> QED  BY <1>1, <1>3, <1>4, <2>1, UpTo
<1> QED  BY <1>5

\* Reached is what d leads to: the least set with d that the dependencies of its
\* tasks do not leave.
LEMMA ReachedIsClosed ==
  ASSUME NEW G, NEW d, IsFiniteSet(DOMAIN G)
  PROVE  d \in Reached(G, d) /\ ClosedUnder(G, Reached(G, d))
<1> DEFINE K == Cardinality(DOMAIN G)
<1>1. K \in Nat
  BY FS_CardinalityType
<1>2. PICK f : Rounds(G, d, K, f) /\ Reached(G, d) = f[K]
  BY ReachedRounds
<1>3. ClosedUnder(G, f[K])
  <2>1. Cardinality(f[K] \cap DOMAIN G) <= K /\ Cardinality(f[K] \cap DOMAIN G) \in Nat
    BY FS_Subset, FS_CardinalityType
  <2>2. K \in 0..K
    BY <1>1
  <2>3. ClosedUnder(G, f[K]) \/ Cardinality(f[K] \cap DOMAIN G) > K
    BY <1>1, <1>2, <2>2, RoundsMeet
  <2> HIDE DEF K
  <2> QED  BY <1>1, <2>1, <2>3
<1>4. d \in f[K]
  <2> DEFINE T == {j \in 0..K : d \in f[j]}
  <2>1. f[0] = {d} /\ \A j \in 1..K : f[j] = Onward(G, f[j-1])
    BY <1>1, <1>2, RoundsAre
  <2>2. 0 \in T
    BY <1>1, <2>1
  <2>3. ASSUME NEW j \in 0..K, j + 1 \in 0..K, j \in T  PROVE j + 1 \in T
    <3>1. j + 1 \in 1..K /\ (j + 1) - 1 = j
      BY <1>1, <2>3
    <3>2. f[j+1] = Onward(G, f[j])
      BY <2>1, <3>1
    <3> QED  BY <2>3, <3>2 DEF Onward
  <2>4. T \in SUBSET (0..K)
    OBVIOUS
  <2>5. T = 0..K
    <3> HIDE DEF T, K
    <3> QED  BY <1>1, <2>2, <2>3, <2>4, UpTo
  <2> QED  BY <1>1, <2>5
<1> QED  BY <1>2, <1>3, <1>4

LEMMA ReachedIsLeast ==
  ASSUME NEW G, NEW d, IsFiniteSet(DOMAIN G), NEW R, d \in R, ClosedUnder(G, R)
  PROVE  Reached(G, d) \subseteq R
<1> DEFINE K == Cardinality(DOMAIN G)
<1>1. K \in Nat
  BY FS_CardinalityType
<1>2. PICK f : Rounds(G, d, K, f) /\ Reached(G, d) = f[K]
  BY ReachedRounds
<1> DEFINE T == {j \in 0..K : f[j] \subseteq R}
<1>3. f[0] = {d} /\ \A j \in 1..K : f[j] = Onward(G, f[j-1])
  BY <1>1, <1>2, RoundsAre
<1>4. 0 \in T
  BY <1>1, <1>3
<1>5. ASSUME NEW j \in 0..K, j + 1 \in 0..K, j \in T  PROVE j + 1 \in T
  <2>1. j + 1 \in 1..K /\ (j + 1) - 1 = j
    BY <1>1, <1>5
  <2>2. f[j+1] = Onward(G, f[j])
    BY <1>3, <2>1
  <2>3. f[j] \subseteq R
    BY <1>5
  <2>4. Onward(G, f[j]) \subseteq R
    BY <2>3 DEF Onward, ClosedUnder
  <2> QED  BY <1>5, <2>2, <2>4
<1>6. T \in SUBSET (0..K)
  OBVIOUS
<1>7. T = 0..K
  <2> HIDE DEF T, K
  <2> QED  BY <1>1, <1>4, <1>5, <1>6, UpTo
<1> QED  BY <1>1, <1>2, <1>7
\* A task that is not in the graph leads nowhere.
LEMMA ReachesInside ==
  ASSUME NEW G, NEW d, IsFiniteSet(DOMAIN G), NEW k \in DOMAIN G, k \in Reached(G, d)
  PROVE  d \in DOMAIN G
<1> SUFFICES ASSUME d \notin DOMAIN G  PROVE FALSE
  OBVIOUS
<1>1. ClosedUnder(G, {d})
  BY DEF ClosedUnder
<1>2. Reached(G, d) \subseteq {d}
  BY <1>1, ReachedIsLeast
<1> QED  BY <1>2

\* What is reached from a task, other than itself, is reached from one that it
\* depends on.
LEMMA ReachedThrough ==
  ASSUME NEW G, IsFiniteSet(DOMAIN G), NEW e \in DOMAIN G, NEW k \in Reached(G, e), k # e
  PROVE  \E f \in G[e] : k \in Reached(G, f)
<1> DEFINE R == {e} \cup UNION {Reached(G, f) : f \in G[e]}
<1>1. G[e] \subseteq R
  BY ReachedIsClosed
<1>2. ASSUME NEW f \in G[e], NEW x \in Reached(G, f) \cap DOMAIN G  PROVE G[x] \subseteq R
  <2>1. G[x] \subseteq Reached(G, f)
    BY ReachedIsClosed DEF ClosedUnder
  <2> QED  BY <2>1
<1>3. ClosedUnder(G, R)
  BY <1>1, <1>2 DEF ClosedUnder
<1>4. e \in R
  OBVIOUS
<1>5. k \in R
  <2> HIDE DEF R
  <2> QED  BY <1>3, <1>4, ReachedIsLeast
<1> QED  BY <1>5

\* Where there is no cycle but for the dependencies of k, the search finds that
\* these lead back to k if, and only if, there is a cycle.
LEMMA SearchFinds ==
  ASSUME NEW G, IsFiniteSet(DOMAIN G), NEW k \in DOMAIN G, k \notin G[k],
         Acyclic([G EXCEPT ![k] = {}])
  PROVE  ClosesCycle(G, k) <=> ~ Acyclic(G)
<1>1. ASSUME ClosesCycle(G, k)  PROVE ~ Acyclic(G)
  <2>1. PICK d \in G[k] : k \in Reached(G, d)
    BY <1>1 DEF ClosesCycle
  <2> DEFINE S == {e \in DOMAIN G : k \in Reached(G, e)}
  <2>2. d \in S
    BY <2>1, ReachesInside
  <2>3. ASSUME NEW e \in S  PROVE G[e] \cap S # {}
    <3>1. CASE e = k
      BY <2>1, <2>2, <3>1
    <3>2. CASE e # k
      <4>1. PICK f \in G[e] : k \in Reached(G, f)
        BY <3>2, ReachedThrough
      <4>2. f \in S
        BY <4>1, ReachesInside
      <4> QED  BY <4>2
    <3> QED  BY <3>1, <3>2
  <2>4. S \in SUBSET DOMAIN G /\ S # {}
    BY <2>2
  <2> QED  BY <2>3, <2>4 DEF Acyclic
<1>2. ASSUME ~ Acyclic(G), ~ ClosesCycle(G, k)  PROVE FALSE
  <2> DEFINE H == [G EXCEPT ![k] = {}]
  <2>1. PICK S \in SUBSET DOMAIN G : S # {} /\ \A e \in S : G[e] \cap S # {}
    BY <1>2 DEF Acyclic
  <2>2. ASSUME NEW T \in SUBSET DOMAIN G, T # {}, k \notin T  PROVE \E e \in T : G[e] \cap T = {}
    <3>1. PICK e \in T : H[e] \cap T = {}
      BY <2>2 DEF Acyclic
    <3>2. H[e] = G[e]
      BY <2>2
    <3> QED  BY <3>1, <3>2
  <2>3. k \in S
    BY <2>1, <2>2
  <2>4. PICK d \in G[k] : d \in S
    BY <2>1, <2>3
  <2>5. k \notin Reached(G, d) /\ d \in Reached(G, d)
    BY <1>2, ReachedIsClosed DEF ClosesCycle
  <2> DEFINE T == S \cap Reached(G, d)
  <2>6. PICK e \in T : G[e] \cap T = {}
    BY <2>2, <2>4, <2>5
  <2>7. PICK f \in G[e] : f \in S
    BY <2>1
  <2>8. f \in Reached(G, d)
    BY ReachedIsClosed DEF ClosedUnder
  <2> QED  BY <2>6, <2>7, <2>8
<1> QED  BY <1>1, <1>2
\* Whatever cycles there are, the search finds that the dependencies of k lead
\* back to k if, and only if, k is on one.
LEMMA SearchFindsCycles ==
  ASSUME NEW G, IsFiniteSet(DOMAIN G), NEW k \in DOMAIN G
  PROVE  ClosesCycle(G, k) <=> OnCycle(G, k)
<1>1. ASSUME ClosesCycle(G, k), NEW S \in SUBSET (DOMAIN G \ {k}),
             G[k] \cap DOMAIN G \subseteq S, \A e \in S : G[e] \cap DOMAIN G \subseteq S
      PROVE  FALSE
  <2>1. PICK d \in G[k] : k \in Reached(G, d)
    BY <1>1 DEF ClosesCycle
  <2>2. d \in S
    BY <1>1, <2>1, ReachesInside
  <2> DEFINE R == S \cup ((UNION {G[e] : e \in S}) \ DOMAIN G)
  <2>3. ClosedUnder(G, R)
    BY <1>1 DEF ClosedUnder
  <2>4. d \in R /\ k \notin R
    BY <1>1, <2>2
  <2> HIDE DEF R
  <2> QED  BY <2>1, <2>3, <2>4, ReachedIsLeast
<1>2. ASSUME ~ ClosesCycle(G, k), OnCycle(G, k)  PROVE FALSE
  <2> DEFINE S == {e \in DOMAIN G : \E d \in G[k] : e \in Reached(G, d)}
  <2>1. S \in SUBSET (DOMAIN G \ {k})
    BY <1>2 DEF ClosesCycle
  <2>2. G[k] \cap DOMAIN G \subseteq S
    BY ReachedIsClosed
  <2>3. ASSUME NEW e \in S  PROVE G[e] \cap DOMAIN G \subseteq S
    BY ReachedIsClosed DEF ClosedUnder
  <2> HIDE DEF S
  <2> QED  BY <1>2, <2>1, <2>2, <2>3 DEF OnCycle
<1> QED  BY <1>1, <1>2 DEF OnCycle
-----------------------------------------------------------------------------
(* Dependencies *)

\* A clone has finitely many tasks.
LEMMA TasksFinite ==
  ASSUME BoardType, History, NEW a \in Clone
  PROVE  IsFiniteSet(LiveTasks(claims[a])) /\ DOMAIN DepsOf(claims[a]) = LiveTasks(claims[a])
<1> DEFINE f == [k \in LiveTasks(claims[a]) |-> Last(TaskHeads(claims[a], k))]
<1>1. ASSUME NEW k \in LiveTasks(claims[a])  PROVE f[k] \in claims[a] /\ f[k].key = k
  <2>1. f[k] = Last(TaskHeads(claims[a], k))
    OBVIOUS
  <2>2. f[k] \in LiveHeads(claims[a], "task") /\ f[k].key = k
    BY <2>1, LastHere
  <2> HIDE DEF f
  <2> QED  BY <2>2 DEF LiveHeads
<1>2. f \in Injection(LiveTasks(claims[a]), claims[a])
  <2>1. f \in [LiveTasks(claims[a]) -> claims[a]]
    BY <1>1
  <2> HIDE DEF f
  <2> QED  BY <1>1, <2>1 DEF Injection, IsInjective
<1>3. IsFiniteSet(claims[a])
  BY ClonesSound DEF AllSound, Sound
<1> HIDE DEF f
<1> QED  BY <1>2, <1>3, FS_Injection DEF DepsOf

LEMMA SearchesExactly == BoardType /\ History => SearchExact
<1> SUFFICES ASSUME BoardType, History, NEW a \in Clone,
                    NEW others \in [Node \ DOMAIN DepsOf(claims[a]) -> DepSets(Node)]
             PROVE  LET known == DepsOf(claims[a])
                        G == [k \in Node \cup DOMAIN known |->
                                IF k \in DOMAIN known THEN known[k] ELSE others[k]]
                    IN  \A k \in Node : ClosesCycle(G, k) <=> OnCycle(G, k)
  BY DEF SearchExact
<1> DEFINE known == DepsOf(claims[a])
           G == [k \in Node \cup DOMAIN known |->
                   IF k \in DOMAIN known THEN known[k] ELSE others[k]]
<1>1. IsFiniteSet(DOMAIN known)
  BY TasksFinite
<1>2. IsFiniteSet(DOMAIN G)
  <2>1. DOMAIN G = Node \cup DOMAIN known
    OBVIOUS
  <2> QED  BY <1>1, <2>1, FS_Union, BoardAssumption
<1>3. Node \subseteq DOMAIN G
  OBVIOUS
<1>4. \A k \in Node : ClosesCycle(G, k) <=> OnCycle(G, k)
  <2> HIDE DEF G
  <2> QED  BY <1>2, <1>3, SearchFindsCycles
<1> QED  BY <1>4

\* Among the tasks of any clone and any others, the cycle search refuses new
\* dependencies when they put their task on a cycle and only then.
THEOREM SearchIsExact == BoardSpec => []SearchExact
BY Recorded, SearchesExactly, PTL

\* Dependencies that the search accepts close no cycle.
LEMMA AcceptedIsAcyclic ==
  ASSUME NEW G, IsFiniteSet(DOMAIN G), Acyclic(G), NEW k \in DOMAIN G, NEW deps,
         k \notin deps, ~ ClosesCycle([G EXCEPT ![k] = deps], k)
  PROVE  Acyclic([G EXCEPT ![k] = deps])
<1> DEFINE H == [G EXCEPT ![k] = deps]
           J == [H EXCEPT ![k] = {}]
<1>1. DOMAIN H = DOMAIN G /\ DOMAIN J = DOMAIN G /\ H[k] = deps
  OBVIOUS
<1>2. \A e \in DOMAIN G : J[e] \subseteq G[e]
  OBVIOUS
<1>3. Acyclic(J)
  <2> SUFFICES ASSUME NEW S \in SUBSET DOMAIN G, S # {}
               PROVE  \E e \in S : J[e] \cap S = {}
    BY <1>1 DEF Acyclic
  <2>1. PICK e \in S : G[e] \cap S = {}
    BY DEF Acyclic
  <2> HIDE DEF J
  <2> QED  BY <1>2, <2>1
<1> HIDE DEF H
<1> QED  BY <1>1, <1>3, SearchFinds DEF H

\* An update gives the task these dependencies, or, where a fork's other head
\* comes last, leaves it with those it had.
LEMMA UpdateDeps ==
  ASSUME BoardType, History, NEW a \in Clone, NEW k \in Task, NEW i \in Id, NEW deps,
         TaskUpdate(a, k, i, deps)
  PROVE  \/ DepsOf(claims'[a]) = DepsOf(claims[a])
         \/ DepsOf(claims'[a]) = [DepsOf(claims[a]) EXCEPT ![k] = deps]
<1> DEFINE C == claims[a]
           D == claims'[a]
           h == FindTask(C, k)
           n == [id |-> i, type |-> h.type, key |-> h.key, sup |-> h.id,
                 body |-> Data(h.body.status, deps, {})]
<1>1. /\ k \in LiveTasks(C) /\ Fresh(i)
      /\ claims' = [claims EXCEPT ![a] = @ \cup {n}]
  BY DEF TaskUpdate, TaskRevise, Supersede, Append
<1>2. D = C \cup {n}
  BY <1>1 DEF BoardType, TypeOK
<1>3. /\ h \in TaskHeads(C, k) /\ h \in C /\ h.type = "task" /\ h.key = k
      /\ \A c \in TaskHeads(C, k) : h.id <= c.id
  <2>1. TaskHeads(C, k) # {} /\ TaskHeads(C, k) \subseteq C
    BY <1>1, LiveTasksHaveHeads, HeadsHere DEF TaskHeads
  <2>2. \A c \in C : c.id \in Nat
    BY ClaimHere DEF BoardType
  <2>3. \E c \in TaskHeads(C, k) : \A d \in TaskHeads(C, k) : c.id <= d.id
    BY <2>1, <2>2, FirstExists
  <2>4. h \in TaskHeads(C, k) /\ \A c \in TaskHeads(C, k) : h.id <= c.id
    BY <2>3 DEF FindTask, First
  <2> QED  BY <2>1, <2>4, HeadsHere DEF TaskHeads
<1>4. /\ n.id = i /\ n.type = "task" /\ n.key = k /\ n.sup = h.id
      /\ n.sup # NoClaim /\ n.body.deps = deps
  <2>1. h.id \in Id
    BY <1>3, ClaimHere DEF BoardType
  <2> QED  BY <1>3, <2>1, ClonesAssumption DEF Data
<1> HIDE DEF n, h
<1>5. \A c \in C : c.id # i
  BY <1>1 DEF Fresh, Ids
<1>6. \A c \in Superseding(C) : c.sup # i
  <2> SUFFICES ASSUME NEW c \in Superseding(C)  PROVE c.sup # i
    OBVIOUS
  <2>1. PICK p \in C : p.id = c.sup
    BY DEF History, Ordered, Precedes
  <2> QED  BY <1>5, <2>1
<1>7. SupersededIds(D) = SupersededIds(C) \cup {h.id}
  BY <1>2, <1>4 DEF SupersededIds, Superseding
<1>8. \A c \in C : c.id = h.id => c = h
  BY <1>3 DEF History, Named
<1>9. n.id \notin SupersededIds(D)
  BY <1>3, <1>4, <1>5, <1>6, <1>7 DEF SupersededIds
<1>10. LiveHeads(D, "task") = (LiveHeads(C, "task") \ {h}) \cup {n}
  BY <1>2, <1>4, <1>7, <1>8, <1>9 DEF LiveHeads
<1>11. LiveTasks(D) = LiveTasks(C)
  <2>1. h \in LiveHeads(C, "task")
    BY <1>3 DEF TaskHeads, Heads
  <2> QED  BY <1>3, <1>4, <1>10, <2>1 DEF LiveTasks
<1>12. \A t \in LiveTasks(C) : t # k => TaskHeads(D, t) = TaskHeads(C, t)
  BY <1>3, <1>4, <1>10 DEF TaskHeads, Heads
<1>13. TaskHeads(D, k) = (TaskHeads(C, k) \ {h}) \cup {n}
  BY <1>3, <1>4, <1>10 DEF TaskHeads, Heads
<1>14. \/ Last(TaskHeads(D, k)) = n
       \/ Last(TaskHeads(D, k)) = Last(TaskHeads(C, k))
  <2> DEFINE S == TaskHeads(C, k)
  <2>1. S \subseteq C
    BY HeadsHere DEF TaskHeads
  <2>2. \A c \in S : c.id \in Id /\ c.id \in Nat
    BY <2>1, ClaimHere DEF BoardType
  <2>3. i \in Nat
    BY ClonesAssumption
  <2>4. \E c \in S : \A d \in S : d.id <= c.id
    <3> HIDE DEF S
    <3> QED  BY <1>3, <2>2, LastIn DEF S
  <2>5. Last(S) \in S /\ \A d \in S : d.id <= Last(S).id
    BY <2>4 DEF Last
  <2>6. \A c \in S : (\A d \in S : d.id <= c.id) => c = Last(S)
    <3> SUFFICES ASSUME NEW c \in S, \A d \in S : d.id <= c.id  PROVE c = Last(S)
      OBVIOUS
    <3>1. c.id = Last(S).id
      BY <2>2, <2>5
    <3> QED  BY <2>1, <2>5, <3>1 DEF History, Named
  <2> DEFINE T == TaskHeads(D, k)
  <2>7. \E c \in T : \A d \in T : d.id <= c.id
    <3>1. \A c \in T : c.id \in Id
      BY <1>4, <1>13, <2>2
    <3>2. T # {}
      BY <1>13
    <3> HIDE DEF T
    <3> QED  BY <3>1, <3>2, LastIn
  <2>8. Last(T) \in T /\ \A d \in T : d.id <= Last(T).id
    BY <2>7 DEF Last
  <2>9. CASE Last(T) \in S \ {h}
    <3>1. \A d \in S \ {h} : d.id <= Last(T).id
      BY <1>13, <2>8
    <3>2. h.id <= Last(T).id
      BY <1>3, <2>9
    <3>3. \A d \in S : d.id <= Last(T).id
      BY <3>1, <3>2
    <3> QED  BY <2>6, <2>9, <3>3
  <2> QED  BY <1>13, <2>8, <2>9
<1>15. DepsOf(D) = [t \in LiveTasks(C) |-> Last(TaskHeads(D, t)).body.deps]
  BY <1>11 DEF DepsOf
<1>16. DepsOf(C) = [t \in LiveTasks(C) |-> Last(TaskHeads(C, t)).body.deps]
  BY DEF DepsOf
<1>17. CASE Last(TaskHeads(D, k)) = Last(TaskHeads(C, k))
  <2>1. \A t \in LiveTasks(C) : Last(TaskHeads(D, t)) = Last(TaskHeads(C, t))
    BY <1>12, <1>17
  <2>2. DepsOf(D) = DepsOf(C)
    BY <1>15, <1>16, <2>1
  <2> QED  BY <2>2
<1>18. CASE Last(TaskHeads(D, k)) = n
  <2>1. \A t \in LiveTasks(C) :
          Last(TaskHeads(D, t)).body.deps
            = IF t = k THEN deps ELSE Last(TaskHeads(C, t)).body.deps
    BY <1>4, <1>12, <1>18
  <2>2. DepsOf(D) = [DepsOf(C) EXCEPT ![k] = deps]
    BY <1>15, <1>16, <2>1
  <2> QED  BY <2>2
<1> QED  BY <1>14, <1>17, <1>18

\* No update of a task makes dependencies cyclic that were not, on any clone,
\* whatever it has merged.
THEOREM UpdatesKeepAcyclic == BoardSpec => UpdateKeepsAcyclic
<1> DEFINE Kept ==
      \A a \in Clone :
        ~ Acyclic(DepsOf(claims'[a])) /\ Acyclic(DepsOf(claims[a]))
          => ~ \E k \in Task, i \in Id, deps \in DepSets(Task) :
                 TaskUpdate(a, k, i, deps)
<1>1. ASSUME BoardType, History  PROVE Kept
  <2> SUFFICES ASSUME NEW a \in Clone, Acyclic(DepsOf(claims[a])),
                      NEW k \in Task, NEW i \in Id, NEW deps \in DepSets(Task),
                      TaskUpdate(a, k, i, deps)
               PROVE  Acyclic(DepsOf(claims'[a]))
    OBVIOUS
  <2>1. /\ k \in LiveTasks(claims[a]) \ deps
        /\ ~ ClosesCycle([DepsOf(claims[a]) EXCEPT ![k] = deps], k)
    BY DEF TaskUpdate
  <2>2. IsFiniteSet(DOMAIN DepsOf(claims[a])) /\ k \in DOMAIN DepsOf(claims[a])
    BY <1>1, <2>1, TasksFinite
  <2>3. Acyclic([DepsOf(claims[a]) EXCEPT ![k] = deps])
    BY <2>1, <2>2, AcceptedIsAcyclic
  <2> QED  BY <1>1, <2>3, UpdateDeps
<1> QED  BY <1>1, Recorded, PTL DEF UpdateKeepsAcyclic
=============================================================================
