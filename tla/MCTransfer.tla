---------------------------- MODULE MCTransfer -----------------------------
(***************************************************************************)
(* Transfer for every estate of one or two claims, whose targets are in    *)
(* the estate, in any order, or outside it, and of which one may be of     *)
(* another's type or have another asserter; and for every estate of three  *)
(* claims that all move.                                                   *)
(***************************************************************************)
EXTENDS Transfer

MCHyphened == [s \in {"a/b"} |-> "a-b"]

Plain == <<"user", "local", "x", "a-b">>

\* Legacy shapes, and such as stay behind.
Odd ==
  {<<"agent", "local", "x">>, <<"user", "a/b">>, <<"user", "local", "x", "a/b">>,
   <<"ingest", "..", "x">>}
  \cup {<<"">>, <<"x", "local", "x">>, <<"user", "", "x">>, <<"user">>,
        <<"ingest", "local", "x", "x">>, <<"user", "local", "x", "x", "x">>}

\* The session of the latter was started as a:b, which makes five segments.
MCSessions == {Plain, <<"user", "local", "x", "a", "b">>}

Claims(n, sups, kinds) ==
  {[id |-> n, sup |-> s, owned |-> k[1], by |-> k[2]] : s \in sups, k \in kinds}

EstatesOf(n, sups, kinds) ==
  {e \in [1..n -> UNION {Claims(m, sups, kinds) : m \in 1..n}] :
     /\ \A m \in 1..n : e[m].id = m
     /\ Cardinality({m \in 1..n : <<e[m].owned, e[m].by>> # <<TRUE, Plain>>}) <= 1}

SmallEstates ==
  LET clean == {<<TRUE, Plain>>}
      few == clean \cup {<<FALSE, Plain>>, <<TRUE, <<"">>>>, <<TRUE, <<"user", "a/b">>>>}
      mixed == clean \cup {<<FALSE, Plain>>} \cup ({TRUE} \X Odd)
  IN  EstatesOf(1, {0, 1, MaxOld}, mixed) \cup EstatesOf(2, {0, 1, 2, MaxOld}, few)
      \cup EstatesOf(3, 0..3, clean)
=============================================================================
