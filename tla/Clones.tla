------------------------------- MODULE Clones -------------------------------
(***************************************************************************)
(* What the claims promise, whatever a command is about.  Clones of one    *)
(* repository work offline and exchange their logs through git.  On each   *)
(* clone commands are serialised (Workflow), so here a command is one      *)
(* step: it appends a claim that supersedes nothing, or one that           *)
(* supersedes a live head of the same thing.  A pull merges append-only    *)
(* logs: the clone then holds the claims of both.  Two clones that         *)
(* superseded the same claim thereby fork its chain, which `synthesist     *)
(* conflicts` is there to list.  Board has the commands.                   *)
(***************************************************************************)
EXTENDS ClaimGraph

CONSTANTS
  Clone,             \* working copies
  Type,              \* claim types
  Key,               \* what claims speak of: task, spec and tree ids
  Body,              \* the data of a claim
  Id                 \* claim ids: hashes, so they come in no order

\* Hashes have a fixed width, so there is a greatest one.
ASSUME ClonesAssumption ==
  /\ Id \subseteq Nat \ {NoClaim}
  /\ \E w \in Id : \A i \in Id : i <= w

VARIABLE claims      \* the claims in the logs of each clone

\* The claims that logs may hold.
Claim == [id : Id, type : Type, key : Key, sup : Id \cup {NoClaim}, body : Body]

\* Types: every claim in the logs has an id and supersedes one id at most.
TypeOK == claims \in [Clone -> SUBSET Claim]

Init == claims = [a \in Clone |-> {}]

\* Ids hash the claim's content, asserter and time: no two clones share one.
Fresh(i) == \A a \in Clone : i \notin Ids(claims[a])

\* Mutant: a claim is written without an id.
AppendUnnamed(a, type, k, i, sup, body) ==
  /\ Fresh(i)
  /\ claims' = [claims EXCEPT ![a] = @ \cup
       {[id |-> NoClaim, type |-> type, key |-> k, sup |-> sup, body |-> body]}]

Append(a, type, k, i, sup, body) ==
  /\ Fresh(i)
  /\ claims' = [claims EXCEPT ![a] = @ \cup
       {[id |-> i, type |-> type, key |-> k, sup |-> sup, body |-> body]}]

\* A claim that begins a chain.
Add(a, type, k, i, body) == Append(a, type, k, i, NoClaim, body)

\* Mutant: the head superseded is one that another clone has.
SupersedeTheirs(a, h, i, body) ==
  \E b \in Clone : \E g \in Heads(claims[b], h.type, h.key) :
    Append(a, h.type, h.key, i, g.id, body)

\* A claim that takes the place of the live head h.
Supersede(a, h, i, body) ==
  /\ h \in LiveHeads(claims[a], h.type)
  /\ Append(a, h.type, h.key, i, h.id, body)

\* git pull of b's logs into a, keeping the lines of both sides.
Pull(a, b) == claims' = [claims EXCEPT ![a] = @ \cup claims[b]]

Next ==
  \E a \in Clone :
    \/ \E i \in Id, body \in Body :
         \/ \E type \in Type, k \in Key : Add(a, type, k, i, body)
         \/ \E h \in claims[a] : Supersede(a, h, i, body)
    \/ \E b \in Clone : Pull(a, b)

Spec == Init /\ [][Next]_claims
-----------------------------------------------------------------------------
(* Properties *)

\* Whatever a clone has pulled, its logs hold the target of every supersedes
\* edge they hold: `check` finds no dangling edge.
NoDangling == \A a \in Clone : Dangling(claims[a]) = {}

\* What the commands do with a fork: a claim names one claim it supersedes, so no
\* command and no merge ever lowers the number of live heads of a task, spec or
\* tree.  Nothing disappears, and no fork is ever joined: this is what the code
\* does, not what it promises, which ForksResolvable says.
ForksPersist ==
  [][\A a \in Clone : \A c \in claims[a] :
       Cardinality(Heads(claims[a], c.type, c.key))
         <= Cardinality(Heads(claims'[a], c.type, c.key))]_claims

\* Whenever `conflicts` would list rivals, a claim can be appended that supersedes
\* both (cmd_conflicts.rs:6-7, main.rs:298-300).
ForksResolvable ==
  \A a \in Clone : \A c, d \in LiveHeads(claims[a], "task") :
    c # d /\ c.sup = d.sup /\ c.sup # NoClaim =>
      \A i \in Id : Fresh(i) => \E s \in Id :
        LET n == [c EXCEPT !.id = i, !.sup = s]
        IN  {c.id, d.id} \subseteq SupersededIds(claims[a] \cup {n})

\* `conflicts` lists something for as long as a clone holds an unresolved fork
\* (skill.rs:491-493).
ForksListed ==
  \A a \in Clone : \A c, d \in Superseding(claims[a]) :
    c # d /\ c.sup = d.sup => Diamonds(claims[a]) # {}
=============================================================================
