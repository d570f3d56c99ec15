----------------------------- MODULE Asserters -----------------------------
(***************************************************************************)
(* The asserter grammar of claim/src/asserter.rs.  An asserter is the      *)
(* sequence of its segments, what stands between colons.                   *)
(***************************************************************************)
EXTENDS Naturals, Sequences

CONSTANTS
  Unsafe,            \* segments with a separator or a control character
  Hyphened           \* what these are with hyphens in place of those

Class == {"user", "agent", "ingest"}
Dots == {".", ".."}

ASSUME AssertersAssumption ==
  /\ Unsafe \cap (Class \cup Dots \cup {"", "-", "local"}) = {}
  /\ DOMAIN Hyphened = Unsafe
  /\ \A s \in Unsafe : Hyphened[s] \notin Unsafe \cup Dots \cup {""}

segment_is_path_safe(seg) == seg \notin Dots \cup Unsafe

normalize_segment(seg) ==
  IF seg \in Dots THEN "-" ELSE IF seg \in Unsafe THEN Hyphened[seg] ELSE seg

Normalized(a) == [n \in DOMAIN a |-> IF n = 1 THEN a[1] ELSE normalize_segment(a[n])]

WithScope(a) == <<a[1], "local", a[2]>>

\* Mutant: the scope is put in, or else the segments are normalised.
normalize_legacy_scope(a) ==
  IF a[1] \notin Class THEN a
  ELSE IF Len(a) = 2 THEN WithScope(a) ELSE Normalized(a)

normalize_legacy(a) ==
  IF a[1] \notin Class THEN a
  ELSE Normalized(IF Len(a) = 2 THEN WithScope(a) ELSE a)

\* parse, as whether it succeeds.
Parses(a) ==
  /\ Len(a) \in 3..4
  /\ a[1] \in Class
  /\ \A n \in 2..Len(a) : a[n] # "" /\ segment_is_path_safe(a[n])
  /\ a[1] = "ingest" => Len(a) = 3

\* What the log writer makes a directory name of: it does not ask for a class,
\* nor for the number of segments, nor that they be non-empty.
Writable(a) == a # <<"">> /\ \A n \in DOMAIN a : segment_is_path_safe(a[n])

\* What a v2 estate is known to hold: an asserter with its scope or without,
\* whatever characters are in it.
KnownShape(a) ==
  /\ a[1] \in Class
  /\ Len(a) \in 2..4 /\ (a[1] = "ingest" => Len(a) # 4)
  /\ \A n \in DOMAIN a : a[n] # ""
=============================================================================
