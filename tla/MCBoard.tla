------------------------------ MODULE MCBoard ------------------------------
(***************************************************************************)
(* Runs of Board.  Each behaviour is about one part of the board, with as  *)
(* many claims as that part needs: dependencies (a fork, and an update on  *)
(* either side), the work on tasks, a spec and a task it pins, or a tree.  *)
(***************************************************************************)
EXTENDS Board

CONSTANTS t1, t2, t3, s1, r1

VARIABLE part

MCKey == Task \cup Plan \cup Tree
MCType == {"task", "spec", "tree"}
MCTime == 1..Cardinality(Id)
MCBody == [status : Status, deps : SUBSET Task, snap : SUBSET Id, at : MCTime]

\* Tasks differ by name only.  Claim ids do not: their order matters.
TaskSymmetry == Permutations(Task)

\* Bound: a new hash is the smallest or the greatest of those left.
NextIds ==
  LET free == Id \ UNION {Ids(claims[a]) : a \in Clone}
  IN  {i \in free : \/ \A j \in free : i <= j
                    \/ \A j \in free : j <= i}

CONSTANTS
  Adder,             \* bound: the clone that adds; every clone revises
  Room               \* bound: how many claims a behaviour about a part has

Dependencies ==
  \E i \in NextIds, k \in Task, deps \in DepSets(Task) :
    \/ TaskAdd(Adder, k, i, deps)
    \/ \E a \in Clone : TaskUpdate(a, k, i, deps)

Work ==
  \E i \in NextIds, k \in Task :
    \/ \E deps \in DepSets(Task) : TaskAdd(Adder, k, i, deps)
    \/ \E a \in Clone :
         \/ TaskClaim(a, k, i)
         \/ TaskStatus(a, k, i)

Plans ==
  \E k \in Plan :
    \/ SpecAdd(Adder, k, Now)
    \/ \E a \in Clone : \E snap \in Pins(claims[a]) : SpecUpdate(a, k, Now, snap)
    \/ TaskAdd(Adder, t1, Now, {})
    \/ \E a \in Clone : TaskStatus(a, t1, Now)

Trees ==
  \E i \in NextIds, k \in Tree :
    \/ TreeAdd(Adder, k, i)
    \/ \E a \in Clone : TreeClose(a, k, i)

MCNext ==
  /\ part' = part
  /\ \/ /\ Now <= Room[part]
        /\ \/ part = "dependencies" /\ Dependencies
           \/ part = "work" /\ Work
           \/ part = "plans" /\ Plans
           \/ part = "trees" /\ Trees
     \/ \E a, b \in Clone : Pull(a, b)

MCInit == part \in DOMAIN Room /\ Init

MCSpec == MCInit /\ [][MCNext]_<<claims, part>>

MCRoom == [dependencies |-> 5, work |-> 4, plans |-> 5, trees |-> 4]
=============================================================================
