------------------------------- MODULE Import -------------------------------
(***************************************************************************)
(* `synthesist import`: the rows of an export are put in an order where    *)
(* what is superseded comes first, and replayed one by one under new ids   *)
(* into a fresh store, each supersedes edge pointing at the new id of its  *)
(* target.  A row can be refused and an append can fail; a process that is *)
(* killed is a behaviour that stops there.  New ids are distinct: the      *)
(* clock moves between two appends.                                        *)
(***************************************************************************)
EXTENDS ClaimGraph, Asserters, SequencesExt

CONSTANT MaxId       \* ids of exports are at most this; new ids are above

VARIABLES
  rows,              \* the export: a sequence of rows id, sup, by
  order,             \* positions of the rows still to replay, in that order
  remap,             \* new ids of the rows written
  dangling, skipped, \* the counts that the command reports
  claims,            \* what the store holds
  imp                \* the control point of the import

impVars == <<rows, order, remap, dangling, skipped, claims, imp>>

Present(e) == {e[n].id : n \in DOMAIN e}

\* A row waits for its target when the export has one.
Ready(e, n, done) == e[n].sup \in Present(e) => e[n].sup \in {e[m].id : m \in ToSet(done)}

\* One pass over the rows after those of done: it emits the rows that are ready,
\* or whatever is left, in the order they come.
Pass(e, done, flush) ==
  LET after[n \in 0..Len(e)] ==
        IF n = 0 THEN done
        ELSE IF n \notin ToSet(after[n - 1]) /\ (flush \/ Ready(e, n, after[n - 1]))
             THEN Append(after[n - 1], n)
             ELSE after[n - 1]
  IN  after[Len(e)]

\* Mutant: a single pass, then the rest as it came.
TopoOnce(e) == Pass(e, Pass(e, <<>>, FALSE), TRUE)

\* Passes until none makes progress, then what is left in the order it came.
TopoOrder(e) ==
  LET passes[k \in 0..Len(e)] == IF k = 0 THEN <<>> ELSE Pass(e, passes[k - 1], FALSE)
  IN  Pass(e, passes[Len(e)], TRUE)

ImportInit ==
  /\ rows = <<>>
  /\ order = <<>>
  /\ remap = <<>>
  /\ dangling = 0
  /\ skipped = 0
  /\ claims = {}
  /\ imp = "none"

Start(e) ==
  /\ imp = "none"
  /\ rows' = e
  /\ order' = TopoOrder(e)
  /\ imp' = "replay"
  /\ UNCHANGED <<remap, dangling, skipped, claims>>

Row == rows[Head(order)]

\* Extracting a row normalises its asserter and parses the result.
Valid(row) == Parses(normalize_legacy(row.by))
NextId == MaxId + 1 + Cardinality(claims)

\* Mutant: a broken chain is taken for a passthrough.
BreaksNever(row) == FALSE

\* A target of this export that has no new id is a broken chain; one that the
\* export does not hold is passed through.
Target(row) == IF row.sup \in DOMAIN remap THEN remap[row.sup] ELSE row.sup
Breaks(row) == row.sup \notin DOMAIN remap /\ row.sup \in Present(rows)

Count(row) == dangling' = dangling + IF Breaks(row) THEN 1 ELSE 0
Advance == imp = "replay" /\ order # <<>> /\ order' = Tail(order)

\* The map with one id more; the last of two rows with one id counts.
Mapping(i, new) == [k \in DOMAIN remap \cup {i} |-> IF k = i THEN new ELSE remap[k]]

\* Mutant: the map takes the exporter's id to itself.
ReplayUnmapped ==
  /\ Advance
  /\ Valid(Row)
  /\ claims' = claims \cup {[id |-> NextId, type |-> "task", sup |-> Target(Row),
                             by |-> normalize_legacy(Row.by)]}
  /\ remap' = Mapping(Row.id, Row.id)
  /\ Count(Row)
  /\ UNCHANGED <<rows, skipped, imp>>

Replay ==
  /\ Advance
  /\ Valid(Row)
  /\ claims' = claims \cup {[id |-> NextId, type |-> "task", sup |-> Target(Row),
                             by |-> normalize_legacy(Row.by)]}
  /\ remap' = Mapping(Row.id, NextId)
  /\ Count(Row)
  /\ UNCHANGED <<rows, skipped, imp>>

\* A row that cannot be extracted, its asserter being no asserter.
Skip ==
  /\ Advance
  /\ ~Valid(Row)
  /\ skipped' = skipped + 1
  /\ UNCHANGED <<rows, remap, dangling, claims, imp>>

\* An append that fails is counted as skipped, its broken chain too.
ReplayFails ==
  /\ Advance
  /\ Valid(Row)
  /\ skipped' = skipped + 1
  /\ Count(Row)
  /\ UNCHANGED <<rows, remap, claims, imp>>

Finish ==
  /\ imp = "replay"
  /\ order = <<>>
  /\ imp' = "done"
  /\ UNCHANGED <<rows, order, remap, dangling, skipped, claims>>

ImportStep == Replay \/ Skip \/ ReplayFails \/ Finish
-----------------------------------------------------------------------------
(* Properties *)

\* No rows supersede themselves, be it through others: of any rows, there is one
\* that supersedes none of them.
Acyclic(e) ==
  \A S \in SUBSET DOMAIN e \ {{}} : \E n \in S : \A m \in S : e[n].sup # e[m].id

Distinct(e) == Cardinality(Present(e)) = Len(e)

\* No broken chain is reported as a clean import (cmd_import.rs:80-84), however
\* far the import got.
BreaksReported ==
  LET broken == {c \in Dangling(claims) : c.sup \in Present(rows)}
  IN  Cardinality(broken) <= dangling

\* An export of distinct claims without a cycle, none of which is refused, is
\* copied as it is: nothing dangles that did not, and as many claims are live.
CopiesHeads ==
  imp = "done" /\ skipped = 0 /\ Distinct(rows) /\ Acyclic(rows) =>
    LET exported == {[id |-> rows[n].id, type |-> "task", sup |-> rows[n].sup] : n \in DOMAIN rows}
    IN  /\ dangling = 0
        /\ Cardinality(claims) = Len(rows)
        /\ Cardinality(LiveHeads(claims, "task")) = Cardinality(LiveHeads(exported, "task"))
        /\ Cardinality(Dangling(claims)) = Cardinality(Dangling(exported))

=============================================================================
