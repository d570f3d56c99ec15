----------------------------- MODULE Migration -----------------------------
(***************************************************************************)
(* `synthesist migrate`: the claims of a v2 estate are written, one by one *)
(* in the order of its list, to the v3 logs; then the schema version is    *)
(* recorded.  The v2 files stay.  A migration may be killed anywhere, is   *)
(* then planned anew, and sessions may work on the logs in between.        *)
(*                                                                         *)
(* The logs are taken as one sequence of claims: each append is atomic     *)
(* (ClaimLog), and no other writer appends to the same log meanwhile.      *)
(***************************************************************************)
EXTENDS ClaimGraph, Asserters, Sequences

CONSTANTS
  MaxOld,            \* ids that the estate mentions are at most this
  MaxLines,          \* bound on the lines of the v3 logs
  Sessions           \* asserters of the sessions at work

ASSUME MigrationAssumption == MaxOld \in Nat /\ MaxLines \in Nat

VARIABLES
  estate,            \* the v2 claims: id, sup, asserter, and whether the
                     \* type is synthesist's own
  lines,             \* the v3 claims, in the order of the logs
  schema,            \* _schema.json: absent, cut short, or complete
  archive,           \* the backup: absent, cut short, or what state it holds
  mig, next          \* the control point of the migration, its next claim

migVars == <<estate, lines, schema, archive, mig, next>>

LineSet == {lines[n] : n \in DOMAIN lines}

Line(c) == [id |-> c.id, type |-> "task", sup |-> c.sup, by |-> normalize_legacy(c.by)]

\* Claims of lattice's types, and of asserters no normalisation repairs, stay.
Moves(c) == c.owned /\ Parses(normalize_legacy(c.by))
Moving == {Line(estate[n]) : n \in {m \in DOMAIN estate : Moves(estate[m])}}

Init ==
  /\ lines = <<>>
  /\ schema = "absent"
  /\ archive = "absent"
  /\ mig = "idle"
  /\ next = 1

Goto(at) == mig' = at

\* Mutant: an estate that has a log counts as migrated.
PlanByLog(backup) ==
  /\ mig = "idle"
  /\ schema = "absent"
  /\ Goto(IF lines # <<>> THEN "stamp" ELSE IF backup THEN "backup" ELSE "move")
  /\ UNCHANGED <<estate, lines, schema, archive, next>>

\* An estate has genesis.amc for good, so that the schema record alone tells
\* whether it has been migrated.  One that is cut short cannot be parsed, and
\* planning fails.
Plan(backup) ==
  /\ mig = "idle"
  /\ schema = "absent"
  /\ Goto(IF backup THEN "backup" ELSE "move")
  /\ UNCHANGED <<estate, lines, schema, archive, next>>

\* The archive of an earlier attempt is truncated, then claims/ is packed.
OpenArchive ==
  /\ mig = "backup"
  /\ archive' = "cut"
  /\ Goto("pack")
  /\ UNCHANGED <<estate, lines, schema, next>>

PackArchive ==
  /\ mig = "pack"
  /\ archive' = IF lines = <<>> THEN "v2" ELSE "mixed"
  /\ Goto("move")
  /\ UNCHANGED <<estate, lines, schema, next>>

\* One turn of the loop: the next claim is appended whether or not the logs
\* hold it already.
Move ==
  /\ mig = "move"
  /\ next <= Len(estate)
  /\ next' = next + 1
  /\ IF Moves(estate[next])
     THEN /\ Writable(Line(estate[next]).by)
          /\ Len(lines) < MaxLines
          /\ lines' = Append(lines, Line(estate[next]))
     ELSE UNCHANGED lines
  /\ UNCHANGED <<estate, schema, archive, mig>>

\* Mutant: the record is opened before the claims are moved.
OpenRecordEarly ==
  /\ mig = "move"
  /\ schema' = "cut"
  /\ Goto("stamp")
  /\ UNCHANGED <<estate, lines, archive, next>>

\* Writing the record truncates it first.
OpenRecord ==
  /\ mig = "move"
  /\ next > Len(estate)
  /\ schema' = "cut"
  /\ Goto("stamp")
  /\ UNCHANGED <<estate, lines, archive, next>>

WriteRecord ==
  /\ mig = "stamp"
  /\ schema' = "v3"
  /\ Goto("idle")
  /\ next' = 1
  /\ UNCHANGED <<estate, lines, archive>>

\* The process is killed, or an append or the archive fails: the migration
\* ends with what it has written.
Abort ==
  /\ mig # "idle"
  /\ Goto("idle")
  /\ next' = 1
  /\ UNCHANGED <<estate, lines, schema, archive>>

\* Between attempts, or after, a session's command supersedes a live claim.  The
\* log writer's guard alone judges its asserter.
Work ==
  /\ mig = "idle"
  /\ Len(lines) < MaxLines
  /\ \E c \in LiveHeads(LineSet, "task"), by \in {a \in Sessions : Writable(a)} :
       lines' = Append(lines, [id |-> MaxOld + 1 + Len(lines), type |-> "task",
                               sup |-> c.id, by |-> by])
  /\ UNCHANGED <<estate, schema, archive, mig, next>>

Migrate ==
  \/ \E backup \in BOOLEAN : Plan(backup)
  \/ OpenArchive \/ PackArchive
  \/ Move
  \/ OpenRecord \/ WriteRecord
  \/ Abort
-----------------------------------------------------------------------------
(* Properties *)

\* A schema record, even one cut short, stands only on an estate all of whose
\* claims have been moved: the detection that goes by it (v2_to_v3.rs:58-72)
\* never takes a half-migrated estate for a migrated one.
CompleteWhenStamped == schema # "absent" => Moving \subseteq LineSet

\* A migration that ends loses no head: what was live in the estate is live in
\* the logs, or was superseded there by a session that worked on it meanwhile.
HeadsSurvive ==
  schema = "v3" =>
    \A c \in LiveHeads(Moving, "task") :
      c \in LiveHeads(LineSet, "task") \/ \E d \in LineSet \ Moving : d.sup = c.id

\* A migration that ends has moved every claim of a known shape, under an
\* asserter of the strict grammar (asserter.rs:118-119).
LegacyKept ==
  schema = "v3" =>
    \A n \in DOMAIN estate : estate[n].owned /\ KnownShape(estate[n].by) =>
      \E l \in LineSet : l.id = estate[n].id /\ Parses(l.by)

\* A resumed migration writes no claim twice (v2_to_v3.rs:70-72).
NoDoubleWrite == Len(lines) = Cardinality(LineSet)
=============================================================================
