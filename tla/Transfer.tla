------------------------------ MODULE Transfer ------------------------------
(***************************************************************************)
(* The two ways out of v2: the estate is migrated in place, or its export  *)
(* is imported; and an export of the migrated estate, half-migrated or     *)
(* not, is imported elsewhere.                                             *)
(***************************************************************************)
EXTENDS Migration, Import

CONSTANT Estates     \* the estates to begin with

\* Ids are numbers up to MaxOld in an estate, and up to MaxId in an export.
ASSUME TransferAssumption ==
  /\ \A e \in Estates :
       /\ e \in Seq(ToSet(e))
       /\ \A n \in DOMAIN e :
            /\ e[n].id \in 1..MaxOld /\ e[n].sup \in 0..MaxOld
            /\ e[n].by \in Seq(ToSet(e[n].by))
  /\ MaxId \in Nat /\ MaxOld + MaxLines <= MaxId

vars == <<migVars, impVars>>

TypeOK ==
  /\ estate \in Estates
  /\ \A n \in DOMAIN lines : lines[n].id \in 1..MaxId /\ lines[n].sup \in 0..MaxId
  /\ schema \in {"absent", "cut", "v3"}
  /\ archive \in {"absent", "cut", "v2", "mixed"}
  /\ mig \in {"idle", "backup", "pack", "move", "stamp"}
  /\ next \in 1..Len(estate) + 1
  /\ \A n \in DOMAIN rows : rows[n].id \in 1..MaxId /\ rows[n].sup \in 0..MaxId
  /\ \A n \in DOMAIN order : order[n] \in DOMAIN rows
  /\ dangling \in 0..Len(rows) /\ skipped \in 0..Len(rows)
  /\ Ids(claims) \subseteq MaxId + 1 .. MaxId + Len(rows)
  /\ \A i \in DOMAIN remap : remap[i] \in Ids(claims)
  /\ imp \in {"none", "replay", "done"}

TransferInit ==
  /\ estate \in Estates
  /\ Init
  /\ ImportInit

\* `synthesist export`: every line of the logs, as often as it is there.
ExportLines == [n \in DOMAIN lines |-> [id |-> lines[n].id, sup |-> lines[n].sup, by |-> lines[n].by]]

\* The export of the v2 program has the rows of the estate.
ExportV2 ==
  [n \in DOMAIN estate |-> [id |-> estate[n].id, sup |-> estate[n].sup, by |-> estate[n].by]]

MigrationStep ==
  /\ imp = "none"
  /\ Migrate \/ Work
  /\ UNCHANGED impVars

\* An export reads the logs alone: the one in the middle of an attempt is that
\* of the attempt killed there.
ImportV3 ==
  /\ mig = "idle" /\ lines # <<>>
  /\ Start(ExportLines)
  /\ UNCHANGED migVars

\* The export of the v2 program is the same before the migration and after.
ImportV2 ==
  /\ mig = "idle" /\ lines = <<>>
  /\ Start(ExportV2)
  /\ UNCHANGED migVars
ImportGoesOn == ImportStep /\ UNCHANGED migVars

Next == MigrationStep \/ ImportV3 \/ ImportV2 \/ ImportGoesOn

Spec == TransferInit /\ [][Next]_vars
=============================================================================
