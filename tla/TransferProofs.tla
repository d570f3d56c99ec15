--------------------------- MODULE TransferProofs ---------------------------
(***************************************************************************)
(* Proofs about asserters, of any segments; about the migration of any     *)
(* estate, whenever it is killed and whatever sessions do in between; and  *)
(* about the import of any export.                                         *)
(***************************************************************************)
EXTENDS Transfer, SequenceTheorems, FiniteSetTheorems, WellFoundedInduction, TLAPS

-----------------------------------------------------------------------------
(* Asserters: normalisation changes nothing that the grammar accepts, and    *)
(* repairs every shape that a v2 estate is known to hold.                    *)

\* A normalised segment is safe in a path, and empty only if it was.
LEMMA SegmentSafe ==
  ASSUME NEW s, s # ""
  PROVE  normalize_segment(s) # "" /\ segment_is_path_safe(normalize_segment(s))
BY AssertersAssumption DEF normalize_segment, segment_is_path_safe, Dots, Class

\* Normalisation works segment by segment.
LEMMA NormalizedLen ==
  ASSUME NEW S, NEW b \in Seq(S)
  PROVE  /\ DOMAIN Normalized(b) = DOMAIN b
         /\ Len(Normalized(b)) = Len(b)
<1> DEFINE c == Normalized(b)
           T == {c[n] : n \in DOMAIN b}
<1>1. DOMAIN b = 1..Len(b) /\ Len(b) \in Nat
  BY LenProperties
<1>2. DOMAIN c = DOMAIN b /\ c = [n \in DOMAIN b |-> c[n]]
  BY DEF Normalized
<1> HIDE DEF c
<1>3. c \in Seq(T)
  BY <1>1, <1>2
<1>4. DOMAIN c = 1..Len(c) /\ Len(c) \in Nat
  BY <1>3, LenProperties
<1> QED  BY <1>1, <1>2, <1>4 DEF c

\* An asserter of the grammar, by its segments.
LEMMA ParsedSegments ==
  ASSUME NEW S, NEW a \in Seq(S), Parses(a)
  PROVE  /\ Len(a) > 2 /\ a[1] \in Class
         /\ \A n \in DOMAIN a : n = 1 \/ (a[n] # "" /\ segment_is_path_safe(a[n]))
<1> DEFINE k == Len(a)
<1>1. DOMAIN a = 1..k /\ k \in Nat
  BY LenProperties
<1>2. k \in 3..4 /\ a[1] \in Class
  BY Zenon DEF Parses
<1>3. \A n \in 2..k : a[n] # "" /\ segment_is_path_safe(a[n])
  BY Zenon DEF Parses
<1> HIDE DEF k
<1>4. k > 2
  BY <1>2
<1>5. \A n \in DOMAIN a : n = 1 \/ n \in 2..k
  BY <1>1
<1> QED  BY Zenon, <1>2, <1>3, <1>4, <1>5 DEF k

\* Asserters of the grammar are left as they are, so that an import keeps the
\* attribution of every claim of a v3 export (asserter.rs:141-143).
THEOREM NormalIsKept ==
  ASSUME NEW S, NEW a \in Seq(S), Parses(a)
  PROVE  normalize_legacy(a) = a
<1>1. \A n \in DOMAIN a : n = 1 \/ normalize_segment(a[n]) = a[n]
  BY ParsedSegments DEF normalize_segment, segment_is_path_safe
<1>2. Normalized(a) = [n \in DOMAIN a |-> a[n]]
  BY <1>1 DEF Normalized
<1>3. normalize_legacy(a) = Normalized(a)
  <2> DEFINE k == Len(a)
  <2>1. k > 2 /\ k \in Nat /\ a[1] \in Class
    BY ParsedSegments, LenProperties
  <2> HIDE DEF k
  <2>2. k # 2
    BY <2>1
  <2> QED  BY Zenon, <2>1, <2>2 DEF normalize_legacy, k
<1> QED  BY <1>2, <1>3

\* The two segments of an asserter without scope, and the three with it.
LEMMA PairDomain ==
  ASSUME NEW S, NEW a \in Seq(S), Len(a) = 2
  PROVE  1 \in DOMAIN a /\ 2 \in DOMAIN a /\ a[1] \in S /\ a[2] \in S
<1>1. DOMAIN a = 1..2
  BY LenProperties
<1>2. 1 \in DOMAIN a /\ 2 \in DOMAIN a
  BY <1>1
<1> QED  BY <1>1, <1>2

LEMMA Three ==
  ASSUME NEW T, NEW a, a[1] \in T, a[2] \in T, "local" \in T
  PROVE  /\ WithScope(a) \in Seq(T) /\ DOMAIN WithScope(a) = 1..3
         /\ Len(WithScope(a)) = 3 /\ WithScope(a)[1] = a[1]
         /\ WithScope(a)[2] = "local" /\ WithScope(a)[3] = a[2]
BY DEF WithScope

LEMMA UpToThree == 3 \in 3..4 /\ \A n \in 1..3 : n = 1 \/ n = 2 \/ n = 3
OBVIOUS

LEMMA Scoped ==
  ASSUME NEW S, NEW a \in Seq(S), Len(a) = 2, a[1] # "", a[2] # ""
  PROVE  /\ WithScope(a) \in Seq(S \cup {"local"}) /\ WithScope(a)[1] = a[1]
         /\ Len(WithScope(a)) \in 3..4 /\ Len(WithScope(a)) = 3
         /\ \A n \in DOMAIN WithScope(a) : WithScope(a)[n] # ""
<1> DEFINE b == WithScope(a)
           T == S \cup {"local"}
<1>1. ASSUME NEW x \in S, NEW y \in S
      PROVE  "local" \in T /\ x \in T /\ y \in T /\ "local" # ""
  OBVIOUS
<1>2. "local" \in T /\ a[1] \in T /\ a[2] \in T /\ "local" # ""
  BY Zenon, <1>1, PairDomain
<1> HIDE DEF T
<1>3. /\ b \in Seq(T) /\ DOMAIN b = 1..3 /\ Len(b) = 3
      /\ b[1] = a[1] /\ b[2] = "local" /\ b[3] = a[2]
  BY Zenon, <1>2, Three
<1> HIDE DEF b
<1>4. ASSUME NEW n \in DOMAIN b
      PROVE  b[n] # ""
  <2>1. n = 1 \/ n = 2 \/ n = 3
    BY Zenon, <1>3, UpToThree
  <2> QED  BY Zenon, <1>2, <1>3, <2>1
<1>5. Len(b) \in 3..4
  BY Zenon, <1>3, UpToThree
<1> QED  BY Zenon, <1>3, <1>4, <1>5 DEF T, b

\* Whatever a v2 estate is known to hold is in the grammar once it is
\* normalised, so that a migration drops none of it (asserter.rs:118-119).
THEOREM LegacyIsParsed ==
  ASSUME NEW S, NEW a \in Seq(S), KnownShape(a)
  PROVE  Parses(normalize_legacy(a))
<1> DEFINE k == Len(a)
           b == IF k = 2 THEN WithScope(a) ELSE a
<1>1. DOMAIN a = 1..k /\ k \in Nat
  BY LenProperties
<1>2. /\ a[1] \in Class
      /\ k \in 2..4 /\ (a[1] = "ingest" => k # 4)
      /\ \A n \in DOMAIN a : a[n] # ""
  BY Zenon DEF KnownShape
<1>3. normalize_legacy(a) = Normalized(b)
  BY Zenon, <1>2 DEF normalize_legacy
<1>4. k \in 2..4
  BY Zenon, <1>2
<1>5. /\ b \in Seq(S \cup {"local"}) /\ b[1] = a[1]
      /\ Len(b) \in 3..4 /\ (b[1] = "ingest" => Len(b) = 3)
      /\ \A n \in DOMAIN b : b[n] # ""
  <2>1. CASE k = 2
    <3>1. b = WithScope(a)
      BY Zenon, <2>1
    <3>2. a[1] # "" /\ a[2] # ""
      BY Zenon, <1>2, <2>1, PairDomain
    <3> QED  BY Zenon, <2>1, <3>1, <3>2, Scoped
  <2>2. CASE k # 2
    <3>1. b = a
      BY Zenon, <2>2
    <3> HIDE DEF k
    <3>2. k \in 3..4 /\ (k # 4 => k = 3)
      BY <1>4, <2>2
    <3>3. a \in Seq(S \cup {"local"})
      OBVIOUS
    <3> HIDE DEF b
    <3> QED  BY Zenon, <1>2, <3>1, <3>2, <3>3 DEF k
  <2> QED  BY Zenon, <2>1, <2>2
<1> DEFINE c == Normalized(b)
<1> HIDE DEF b
<1>6. DOMAIN c = DOMAIN b /\ Len(c) = Len(b)
  BY Zenon, <1>5, NormalizedLen
<1>7. DOMAIN b = 1..Len(b)
  BY Zenon, <1>5, LenProperties
<1>8. c[1] = b[1] /\ \A n \in 2..Len(b) : c[n] = normalize_segment(b[n])
  <2> DEFINE m == Len(b)
  <2>1. m \in 3..4 /\ DOMAIN b = 1..m
    BY Zenon, <1>5, <1>7
  <2> HIDE DEF m
  <2>2. c[1] = b[1] /\ \A n \in 2..m : c[n] = normalize_segment(b[n])
    BY <2>1 DEF Normalized
  <2> QED  BY Zenon, <2>2 DEF m
<1>9. \A n \in 2..Len(b) : c[n] # "" /\ segment_is_path_safe(c[n])
  <2> DEFINE m == Len(b)
  <2>1. \A n \in 2..m : b[n] # ""
    <3>1. DOMAIN b = 1..m
      BY Zenon, <1>7
    <3> HIDE DEF m
    <3>2. \A n \in 2..m : n \in DOMAIN b
      BY <3>1
    <3> QED  BY Zenon, <1>5, <3>2
  <2> QED  BY Zenon, <1>8, <2>1, SegmentSafe
<1>10. Len(c) \in 3..4 /\ c[1] \in Class /\ (c[1] = "ingest" => Len(c) = 3)
  BY Zenon, <1>2, <1>5, <1>6, <1>8
<1> QED  BY Zenon, <1>3, <1>6, <1>9, <1>10 DEF Parses

\* The log writer refuses no asserter of the grammar, so that a claim which was
\* accepted by an import or a migration is also written (asserter.rs:271-274).
THEOREM ParsedIsWritable ==
  ASSUME NEW S, NEW a \in Seq(S), Parses(a)
  PROVE  Writable(a)
<1>1. \A n \in DOMAIN a : segment_is_path_safe(a[n])
  BY ParsedSegments, AssertersAssumption DEF segment_is_path_safe, Class, Dots
<1>2. Len(a) # Len(<<"">>)
  <2> DEFINE k == Len(a)
  <2>1. k > 2 /\ k \in Nat /\ Len(<<"">>) = 1
    BY ParsedSegments, LenProperties
  <2> HIDE DEF k
  <2>2. k # Len(<<"">>)
    BY <2>1
  <2> QED  BY Zenon, <2>2 DEF k
<1> QED  BY Zenon, <1>1, <1>2 DEF Writable

-----------------------------------------------------------------------------
(* The migration *)

\* What it relies on.  The claims before the next one are in the logs; and so
\* are all, once the record is about to be written.
MigrationInv ==
  /\ estate \in Estates
  /\ \E S : lines \in Seq(S)
  /\ next \in 1..Len(estate) + 1
  /\ \A n \in DOMAIN estate : n < next /\ Moves(estate[n]) => Line(estate[n]) \in LineSet
  /\ schema # "absent" \/ mig = "stamp" => Moving \subseteq LineSet

\* What is in the logs stays there.
LEMMA LinesGrow ==
  ASSUME NEW S, lines \in Seq(S), NEW l, lines' = Append(lines, l)
  PROVE  /\ \E T : lines' \in Seq(T)
         /\ LineSet' = LineSet \cup {l}
<1> DEFINE T == S \cup {l}
           m == Len(lines)
<1>1. lines \in Seq(T) /\ l \in T
  BY SeqMonotonic
<1>2. /\ lines' \in Seq(T) /\ Len(lines') = m + 1
      /\ \A n \in 1..m : lines'[n] = lines[n]
      /\ lines'[m + 1] = l
  BY <1>1, AppendProperties
<1>3. m \in Nat /\ DOMAIN lines = 1..m /\ DOMAIN lines' = 1..(m + 1)
  BY <1>1, <1>2, LenProperties
<1> HIDE DEF m
<1>4. DOMAIN lines' = DOMAIN lines \cup {m + 1}
  BY <1>3
<1>5. \A n \in DOMAIN lines : lines'[n] = lines[n]
  BY <1>2, <1>3
<1>6. LineSet' = LineSet \cup {l}
  BY <1>2, <1>4, <1>5 DEF LineSet
<1> QED  BY Zenon, <1>2, <1>6

LEMMA EstateLength ==
  ASSUME MigrationInv
  PROVE  Len(estate) \in Nat /\ DOMAIN estate = 1..Len(estate) /\ next \in Nat
<1>1. estate \in Seq(ToSet(estate))
  BY TransferAssumption DEF MigrationInv
<1>2. Len(estate) \in Nat /\ DOMAIN estate = 1..Len(estate)
  BY <1>1, LenProperties
<1> DEFINE k == Len(estate)
<1>3. next \in 1..k + 1 /\ k \in Nat
  BY <1>2 DEF MigrationInv
<1> HIDE DEF k
<1>4. next \in Nat
  BY <1>3
<1> QED  BY <1>2, <1>4

\* The logs only grow while the estate stays.
Growing == LineSet \subseteq LineSet' /\ (\E S : lines' \in Seq(S)) /\ estate' = estate

LEMMA GrowingKeeps ==
  ASSUME MigrationInv, Growing, next' = next \/ next' = 1,
         schema' # "absent" \/ mig' = "stamp"
           => schema # "absent" \/ mig = "stamp" \/ next > Len(estate)
  PROVE  MigrationInv'
<1>1. Len(estate) \in Nat /\ DOMAIN estate = 1..Len(estate) /\ next \in Nat
  BY EstateLength
<1>2. estate' = estate /\ LineSet \subseteq LineSet' /\ \E S : lines' \in Seq(S)
  BY DEF Growing
<1> DEFINE k == Len(estate)
<1>3. next' \in 1..k + 1
  <2>1. k \in Nat /\ next \in 1..k + 1
    BY <1>1 DEF MigrationInv
  <2> HIDE DEF k
  <2> QED  BY <2>1
<1>4. \A n \in DOMAIN estate : n < next' /\ Moves(estate[n]) => Line(estate[n]) \in LineSet'
  <2>1. k \in Nat /\ DOMAIN estate = 1..k
    BY <1>1
  <2> HIDE DEF k
  <2>2. \A n \in DOMAIN estate : n < next' => n < next
    BY <2>1, <1>1
  <2> QED  BY <1>2, <2>2 DEF MigrationInv
<1>5. ASSUME schema' # "absent" \/ mig' = "stamp"
      PROVE  Moving \subseteq LineSet
  <2>1. CASE schema # "absent" \/ mig = "stamp"
    BY <2>1 DEF MigrationInv
  <2>2. CASE next > k
    <3>1. k \in Nat /\ DOMAIN estate = 1..k
      BY <1>1
    <3> HIDE DEF k
    <3>2. \A n \in DOMAIN estate : n < next
      BY <1>1, <2>2, <3>1
    <3> QED  BY <3>2 DEF Moving, MigrationInv
  <2> QED  BY <1>5, <2>1, <2>2
<1>6. Moving' = Moving
  BY <1>2 DEF Moving
<1> QED  BY <1>2, <1>3, <1>4, <1>5, <1>6 DEF MigrationInv

\* A turn of the loop.
LEMMA MoveKeeps ==
  ASSUME MigrationInv, Move
  PROVE  MigrationInv'
<1>1. Len(estate) \in Nat /\ DOMAIN estate = 1..Len(estate) /\ next \in Nat
  BY EstateLength
<1>2. PICK S : lines \in Seq(S)
  BY DEF MigrationInv
<1>3. /\ next' = next + 1 /\ next <= Len(estate)
      /\ UNCHANGED <<estate, schema, mig>>
  BY DEF Move
<1>4. /\ (\E T : lines' \in Seq(T)) /\ LineSet \subseteq LineSet'
      /\ Moves(estate[next]) => Line(estate[next]) \in LineSet'
  <2>1. CASE Moves(estate[next])
    <3>1. lines' = Append(lines, Line(estate[next]))
      BY <2>1 DEF Move
    <3>2. (\E T : lines' \in Seq(T)) /\ LineSet' = LineSet \cup {Line(estate[next])}
      BY Zenon, <1>2, <3>1, LinesGrow
    <3> QED  BY Zenon, <3>2
  <2>2. CASE ~Moves(estate[next])
    BY Zenon, <1>2, <2>2 DEF Move, LineSet
  <2> QED  BY <2>1, <2>2
<1>5. \A n \in DOMAIN estate : n < next' /\ Moves(estate[n]) => Line(estate[n]) \in LineSet'
  <2> DEFINE k == Len(estate)
  <2>1. k \in Nat /\ DOMAIN estate = 1..k
    BY <1>1
  <2> HIDE DEF k
  <2>2. \A n \in DOMAIN estate : n < next' => n < next \/ n = next
    BY <2>1, <1>1, <1>3
  <2> QED  BY <1>4, <2>2 DEF MigrationInv
<1>6. next' \in 1..Len(estate) + 1
  BY <1>1, <1>3
<1>7. schema' # "absent" \/ mig' = "stamp" => Moving' \subseteq LineSet'
  BY <1>3, <1>4 DEF MigrationInv, Moving
<1> QED  BY <1>3, <1>4, <1>5, <1>6, <1>7 DEF MigrationInv

\* The rest of the migration, and the sessions in between.
LEMMA MigrationKeeps ==
  ASSUME MigrationInv, Migrate \/ Work \/ UNCHANGED migVars
  PROVE  MigrationInv'
<1>1. CASE Move
  BY <1>1, MoveKeeps
<1>2. CASE Work
  <2>1. PICK S : lines \in Seq(S)
    BY DEF MigrationInv
  <2>2. PICK l : lines' = Append(lines, l)
    BY <1>2 DEF Work
  <2>3. Growing
    BY Zenon, <1>2, <2>1, <2>2, LinesGrow DEF Growing, Work
  <2> QED  BY <1>2, <2>3, GrowingKeeps DEF Work
<1>3. CASE (\E backup \in BOOLEAN : Plan(backup)) \/ OpenArchive \/ PackArchive
           \/ OpenRecord \/ WriteRecord \/ Abort \/ UNCHANGED migVars
  <2>1. UNCHANGED <<lines, estate>>
    BY <1>3 DEF Plan, OpenArchive, PackArchive, OpenRecord, WriteRecord, Abort, migVars
  <2>2. Growing
    BY <2>1 DEF Growing, LineSet, MigrationInv
  <2>3. /\ next' = next \/ next' = 1
        /\ schema' # "absent" \/ mig' = "stamp"
             => schema # "absent" \/ mig = "stamp" \/ next > Len(estate)
    BY <1>3 DEF Plan, OpenArchive, PackArchive, OpenRecord, WriteRecord, Abort, migVars, Goto
  <2> QED  BY <2>2, <2>3, GrowingKeeps
<1> QED  BY <1>1, <1>2, <1>3 DEF Migrate

LEMMA MigrationHolds == Spec => []MigrationInv
<1>1. TransferInit => MigrationInv
  <2> SUFFICES ASSUME TransferInit PROVE MigrationInv
    OBVIOUS
  <2>1. estate \in Seq(ToSet(estate))
    BY TransferAssumption DEF TransferInit
  <2>2. Len(estate) \in Nat /\ DOMAIN estate = 1..Len(estate)
    BY <2>1, LenProperties
  <2> DEFINE k == Len(estate)
  <2>3. next \in 1..k + 1
    <3>1. k \in Nat /\ next = 1
      BY <2>2 DEF TransferInit, Init
    <3> HIDE DEF k
    <3> QED  BY <3>1
  <2>4. \A n \in DOMAIN estate : ~(n < next)
    <3>1. DOMAIN estate = 1..k /\ k \in Nat /\ next = 1
      BY <2>2 DEF TransferInit, Init
    <3> HIDE DEF k
    <3> QED  BY <3>1
  <2> HIDE DEF k
  <2>5. \E S : lines \in Seq(S)
    BY EmptySeq DEF TransferInit, Init
  <2> QED  BY <2>3, <2>4, <2>5 DEF TransferInit, Init, MigrationInv, k
<1>2. MigrationInv /\ [Next]_vars => MigrationInv'
  BY MigrationKeeps DEF Next, MigrationStep, ImportV3, ImportV2, ImportGoesOn, vars
<1> QED  BY <1>1, <1>2, PTL DEF Spec

\* A schema record, cut short or not, stands only on an estate all of whose
\* claims are moved, whenever a migration was killed and resumed
\* (v2_to_v3.rs:58-72).
THEOREM RecordIsLast == Spec => []CompleteWhenStamped
<1>1. MigrationInv => CompleteWhenStamped
  BY DEF MigrationInv, CompleteWhenStamped
<1> QED  BY <1>1, MigrationHolds, PTL

\* A migration that ends loses no head but to a session that worked on it.
THEOREM MigrationKeepsHeads == Spec => []HeadsSurvive
<1>1. MigrationInv => HeadsSurvive
  <2> SUFFICES ASSUME MigrationInv, schema = "v3", NEW c \in LiveHeads(Moving, "task")
               PROVE  \/ c \in LiveHeads(LineSet, "task")
                      \/ \E d \in LineSet \ Moving : d.sup = c.id
    BY DEF HeadsSurvive
  <2>1. Moving \subseteq LineSet
    BY DEF MigrationInv
  <2>2. c \in Moving /\ c.type = "task" /\ \A d \in Moving : d.sup # NoClaim => d.sup # c.id
    BY DEF LiveHeads, SupersededIds, Superseding
  <2>3. CASE c \in LiveHeads(LineSet, "task")
    BY <2>3
  <2>4. CASE c \notin LiveHeads(LineSet, "task")
    <3>1. PICK d \in LineSet : d.sup # NoClaim /\ d.sup = c.id
      BY <2>1, <2>2, <2>4 DEF LiveHeads, SupersededIds, Superseding
    <3> QED  BY <2>2, <3>1
  <2> QED  BY <2>3, <2>4
<1> QED  BY <1>1, MigrationHolds, PTL

\* A migration that ends has moved every claim of a known shape under an asserter
\* of the grammar, so that none is left behind (asserter.rs:118-119).
THEOREM MigrationKeepsLegacy == Spec => []LegacyKept
<1>1. MigrationInv => LegacyKept
  <2> SUFFICES ASSUME MigrationInv, schema = "v3", NEW n \in DOMAIN estate,
                      estate[n].owned, KnownShape(estate[n].by)
               PROVE  \E l \in LineSet : l.id = estate[n].id /\ Parses(l.by)
    BY DEF LegacyKept
  <2>1. Moving \subseteq LineSet
    BY DEF MigrationInv
  <2>2. Parses(normalize_legacy(estate[n].by))
    <3>1. estate[n].by \in Seq(ToSet(estate[n].by))
      BY TransferAssumption DEF MigrationInv
    <3> QED  BY Zenon, <3>1, LegacyIsParsed
  <2>3. Line(estate[n]) \in LineSet
    BY Zenon, <2>1, <2>2 DEF Moving, Moves
  <2>4. /\ Line(estate[n]).id = estate[n].id
        /\ Line(estate[n]).by = normalize_legacy(estate[n].by)
    BY DEF Line
  <2> QED  BY Zenon, <2>2, <2>3, <2>4
<1> QED  BY <1>1, MigrationHolds, PTL

-----------------------------------------------------------------------------
(* Loops: a function of 0..m whose values are defined one from the other *)

\* A property of the naturals up to a bound that passes from each to the next
\* holds of all, for the least exception would have a predecessor.
LEMMA UpTo ==
  ASSUME NEW m \in Nat, NEW T \in SUBSET (0..m), 0 \in T,
         \A n \in 0..m : n + 1 \in 0..m /\ n \in T => n + 1 \in T
  PROVE  T = 0..m
<1> SUFFICES ASSUME T # 0..m  PROVE FALSE
  OBVIOUS
<1> DEFINE U == (0..m) \ T
           Less == OpToRel(<, Nat)
<1>1. U \subseteq Nat /\ U # {}
  <2>1. \E n \in 0..m : n \notin T
    BY Zenon
  <2> QED  BY <2>1
<1>2. \E u \in U : \A v \in U : <<v, u>> \notin Less
  <2>1. IsWellFoundedOn(Less, Nat)
    BY NatLessThanWellFounded
  <2> HIDE DEF Less, U
  <2> QED  BY <1>1, <2>1, WFMin
<1>3. PICK u \in U : \A v \in U : <<v, u>> \notin Less
  BY <1>2
<1>4. u # 0 /\ u \in Nat /\ u - 1 \in 0..m
  OBVIOUS
<1>5. u - 1 \in U
  BY <1>4
<1>6. u - 1 \in Nat /\ u - 1 < u
  BY <1>4
<1> QED  BY <1>3, <1>4, <1>5, <1>6 DEF OpToRel

\* A loop that goes from one value of S to the next, m times, and a run of it.
Loop(S, m, base, step) == m \in Nat /\ base \in S /\ step \in [(1..m) \X S -> S]
Run(S, m, base, step, f) ==
  f \in [0..m -> S] /\ f[0] = base /\ \A n \in 1..m : f[n] = step[<<n, f[n-1]>>]

LEMMA Recursion ==
  ASSUME NEW S, NEW m, NEW base, NEW step, Loop(S, m, base, step)
  PROVE  \E f : Run(S, m, base, step, f)
<1> USE DEF Loop
<1> DEFINE Runs(k, f) == f[0] = base /\ \A n \in 1..k : f[n] = step[<<n, f[n-1]>>]
           T == {k \in 0..m : \E f \in [0..k -> S] : Runs(k, f)}
<1>1. 0 \in T
  <2> DEFINE f == [n \in 0..0 |-> base]
  <2>1. f \in [0..0 -> S] /\ f[0] = base
    OBVIOUS
  <2> HIDE DEF f
  <2> QED  BY <2>1
<1>2. ASSUME NEW n \in 0..m, n + 1 \in 0..m, n \in T  PROVE n + 1 \in T
  <2>1. PICK g \in [0..n -> S] : Runs(n, g)
    BY <1>2
  <2>2. step[<<n+1, g[n]>>] \in S
    BY <1>2, <2>1
  <2> DEFINE v == step[<<n+1, g[n]>>]
             h == [j \in 0..(n+1) |-> IF j = n + 1 THEN v ELSE g[j]]
  <2>3. h \in [0..(n+1) -> S] /\ h[n+1] = v /\ \A j \in 0..n : h[j] = g[j]
    <3>1. n \in Nat /\ v \in S
      BY <2>2
    <3> HIDE DEF v
    <3> QED  BY <2>1, <3>1
  <2> HIDE DEF h
  <2>4. ASSUME NEW j \in 1..(n+1)
        PROVE  h[j] = step[<<j, h[j-1]>>]
    <3>1. CASE j = n + 1
      BY <2>3, <3>1
    <3>2. CASE j # n + 1
      BY <2>1, <2>3, <3>2
    <3> QED  BY <3>1, <3>2
  <2>5. Runs(n + 1, h)
    BY <2>1, <2>3, <2>4
  <2> HIDE DEF Runs
  <2> QED  BY <1>2, <2>3, <2>5
<1>3. T = 0..m
  <2> HIDE DEF T
  <2>1. T \in SUBSET (0..m)
    BY DEF T
  <2> QED  BY <1>1, <1>2, <2>1, UpTo
<1>4. m \in T
  <2> HIDE DEF T
  <2> QED  BY <1>3
<1>5. PICK f \in [0..m -> S] : Runs(m, f)
  BY <1>4
<1> QED  BY <1>5 DEF Run
-----------------------------------------------------------------------------
(* The sort of an import *)

\* What a pass makes of row n after those of d.
Emit(e, d, n, flush) ==
  IF n \notin ToSet(d) /\ (flush \/ Ready(e, n, d)) THEN Append(d, n) ELSE d

LEMMA EmitType ==
  ASSUME NEW S, NEW e \in Seq(S), NEW n \in DOMAIN e, NEW d \in Seq(DOMAIN e), NEW flush
  PROVE  Emit(e, d, n, flush) \in Seq(DOMAIN e)
BY AppendProperties DEF Emit

\* A pass is a loop over the rows.
PassRun(e, d, flush, f) ==
  /\ f \in [0..Len(e) -> Seq(DOMAIN e)]
  /\ f[0] = d /\ Pass(e, d, flush) = f[Len(e)]
  /\ \A n \in 1..Len(e) : f[n] = Emit(e, f[n-1], n, flush)

LEMMA PassRuns ==
  ASSUME NEW S, NEW e \in Seq(S), NEW d \in Seq(DOMAIN e), NEW flush
  PROVE  \E f : PassRun(e, d, flush, f)
<1> DEFINE m == Len(e)
           A == Seq(DOMAIN e)
           Runs(f) == f = [n \in 0..m |-> IF n = 0 THEN d ELSE Emit(e, f[n-1], n, flush)]
           step == [p \in (1..m) \X A |-> Emit(e, p[2], p[1], flush)]
           after == CHOOSE f : Runs(f)
<1>1. m \in Nat /\ DOMAIN e = 1..m
  BY LenProperties
<1>2. step \in [(1..m) \X A -> A]
  BY <1>1, EmitType
<1>3. \E f : Runs(f)
  <2> HIDE DEF m, A
  <2>1. Loop(A, m, d, step)
    BY <1>1, <1>2 DEF Loop, A
  <2> HIDE DEF step
  <2>2. PICK f : Run(A, m, d, step, f)
    BY Zenon, <2>1, Recursion
  <2>3. \A n \in 0..m : f[n] = IF n = 0 THEN d ELSE Emit(e, f[n-1], n, flush)
    <3>1. \A n \in 1..m : f[n-1] \in A
      BY <1>1, <2>2 DEF Run
    <3>2. \A n \in 1..m : f[n] = Emit(e, f[n-1], n, flush)
      BY <2>2, <3>1 DEF step, Run
    <3> QED  BY <1>1, <2>2, <3>2 DEF Run
  <2>4. f = [n \in 0..m |-> f[n]]
    BY <2>2 DEF Run
  <2>5. Runs(f)
    BY <2>3, <2>4
  <2> QED  BY <2>5
<1>4. Runs(after)
  <2> HIDE DEF Runs
  <2> QED  BY <1>3
<1>5. Pass(e, d, flush) = after[m]
  BY DEF Pass, Emit
<1> HIDE DEF after, step
<1>6. /\ DOMAIN after = 0..m /\ after[0] = d
      /\ \A n \in 1..m : after[n] = Emit(e, after[n-1], n, flush)
  <2> DEFINE g == [n \in 0..m |-> IF n = 0 THEN d ELSE Emit(e, after[n-1], n, flush)]
  <2>1. after = g
    BY <1>4
  <2>2. /\ DOMAIN g = 0..m /\ g[0] = d
        /\ \A n \in 1..m : g[n] = Emit(e, after[n-1], n, flush)
    BY <1>1
  <2> HIDE DEF g
  <2> QED  BY <2>1, <2>2
<1>7. \A n \in 0..m : after[n] \in A
  <2> DEFINE T == {n \in 0..m : after[n] \in A}
  <2>1. 0 \in T
    BY <1>1, <1>6
  <2>2. ASSUME NEW n \in 0..m, n + 1 \in 0..m, n \in T  PROVE n + 1 \in T
    <3>1. n + 1 \in DOMAIN e /\ after[n+1] = Emit(e, after[n], n+1, flush)
      BY <1>1, <1>6, <2>2
    <3> QED  BY <2>2, <3>1, EmitType
  <2>3. T = 0..m
    <3> HIDE DEF m
    <3>1. T \in SUBSET (0..m)
      OBVIOUS
    <3> HIDE DEF T
    <3> QED  BY <1>1, <2>1, <2>2, <3>1, UpTo
  <2> QED  BY <2>3
<1>8. after \in [0..m -> A]
  <2>1. after = [n \in 0..m |-> after[n]]
    BY <1>4
  <2> QED  BY <1>7, <2>1
<1> QED  BY <1>5, <1>6, <1>8 DEF PassRun

\* One turn of it.
LEMMA PassTurn ==
  ASSUME NEW S, NEW e \in Seq(S), NEW d, NEW flush, NEW f, PassRun(e, d, flush, f),
         NEW n \in 0..Len(e), n + 1 \in 0..Len(e)
  PROVE  /\ n + 1 \in DOMAIN e /\ f[n] \in Seq(DOMAIN e)
         /\ f[n+1] = Emit(e, f[n], n+1, flush)
<1>1. Len(e) \in Nat /\ DOMAIN e = 1..Len(e)
  BY LenProperties
<1>2. n + 1 \in 1..Len(e) /\ (n + 1) - 1 = n
  BY <1>1
<1>3. f[n+1] = Emit(e, f[(n+1)-1], n+1, flush)
  BY <1>2 DEF PassRun
<1>4. f[n] \in Seq(DOMAIN e)
  BY DEF PassRun
<1> QED  BY <1>1, <1>2, <1>3, <1>4

\* No row is emitted twice; and what a row waits for comes before it.
Once(e, d) == d \in Seq(DOMAIN e) /\ \A i, j \in DOMAIN d : d[i] = d[j] => i = j
TargetsFirst(e, d) ==
  \A i \in DOMAIN d : e[d[i]].sup \in Present(e) =>
    \E j \in 1..(i - 1) : e[d[j]].id = e[d[i]].sup

\* Sequences grow at their end.
LEMMA Appended ==
  ASSUME NEW R, NEW d \in Seq(R), NEW n \in R
  PROVE  /\ Append(d, n) \in Seq(R) /\ Len(d) \in Nat /\ DOMAIN d = 1..Len(d)
         /\ DOMAIN Append(d, n) = 1..(Len(d) + 1) /\ Len(Append(d, n)) = Len(d) + 1
         /\ Append(d, n)[Len(d) + 1] = n
         /\ \A i \in 1..Len(d) : Append(d, n)[i] = d[i]
<1>1. /\ Append(d, n) \in Seq(R) /\ Len(Append(d, n)) = Len(d) + 1
      /\ Append(d, n)[Len(d) + 1] = n
      /\ \A i \in 1..Len(d) : Append(d, n)[i] = d[i]
  BY AppendProperties
<1> QED  BY <1>1, LenProperties

LEMMA EmitOnce ==
  ASSUME NEW e, NEW d, Once(e, d), NEW n \in DOMAIN e, NEW flush
  PROVE  Once(e, Emit(e, d, n, flush))
<1>1. CASE Emit(e, d, n, flush) = d
  BY <1>1
<1>2. CASE n \notin ToSet(d) /\ Emit(e, d, n, flush) = Append(d, n)
  <2> DEFINE g == Append(d, n)
             m == Len(d)
  <2>1. d \in Seq(DOMAIN e)
    BY DEF Once
  <2>2. /\ g \in Seq(DOMAIN e) /\ m \in Nat /\ DOMAIN d = 1..m /\ DOMAIN g = 1..(m + 1)
        /\ g[m + 1] = n /\ \A i \in 1..m : g[i] = d[i]
    BY <2>1, Appended
  <2>3. \A i \in 1..m : d[i] # n
    BY <1>2, <2>2 DEF ToSet
  <2> HIDE DEF g, m
  <2>4. ASSUME NEW i \in 1..(m + 1), NEW j \in 1..(m + 1), g[i] = g[j]  PROVE i = j
    <3>1. i \in 1..m \/ i = m + 1
      BY <2>2
    <3>2. j \in 1..m \/ j = m + 1
      BY <2>2
    <3> QED  BY <2>2, <2>3, <2>4, <3>1, <3>2 DEF Once
  <2>5. Once(e, g)
    BY <2>2, <2>4 DEF Once
  <2> QED  BY <1>2, <2>5 DEF g
<1> QED  BY <1>1, <1>2 DEF Emit

LEMMA EmitTargetsFirst ==
  ASSUME NEW e, NEW d, d \in Seq(DOMAIN e), TargetsFirst(e, d), NEW n \in DOMAIN e,
         NEW flush, flush = FALSE
  PROVE  TargetsFirst(e, Emit(e, d, n, flush))
<1>1. CASE Emit(e, d, n, flush) = d
  BY <1>1
<1>2. CASE Ready(e, n, d) /\ Emit(e, d, n, flush) = Append(d, n)
  <2> DEFINE g == Append(d, n)
             m == Len(d)
  <2>1. /\ g \in Seq(DOMAIN e) /\ m \in Nat /\ DOMAIN d = 1..m /\ DOMAIN g = 1..(m + 1)
        /\ g[m + 1] = n /\ \A i \in 1..m : g[i] = d[i]
    BY Appended
  <2> HIDE DEF g, m
  <2>2. ASSUME NEW i \in 1..(m + 1), e[g[i]].sup \in Present(e)
        PROVE  \E j \in 1..(i - 1) : e[g[j]].id = e[g[i]].sup
    <3>1. CASE i = m + 1
      <4>1. PICK k \in ToSet(d) : e[n].sup = e[k].id
        BY <1>2, <2>1, <2>2, <3>1 DEF Ready
      <4>2. PICK j \in 1..m : d[j] = k
        BY <2>1, <4>1 DEF ToSet
      <4> QED  BY <2>1, <3>1, <4>1, <4>2
    <3>2. CASE i \in 1..m
      <4>1. g[i] = d[i] /\ i \in DOMAIN d
        BY <2>1, <3>2
      <4>2. PICK j \in 1..(i - 1) : e[d[j]].id = e[d[i]].sup
        BY <2>2, <4>1 DEF TargetsFirst
      <4>3. g[j] = d[j]
        BY <2>1, <3>2
      <4> QED  BY <4>1, <4>2, <4>3
    <3> QED  BY <2>1, <3>1, <3>2
  <2>3. TargetsFirst(e, g)
    BY <2>1, <2>2 DEF TargetsFirst
  <2> QED  BY <1>2, <2>3 DEF g
<1> QED  BY <1>1, <1>2 DEF Emit

\* No row is left that is ready.
Still(e, d) == \A n \in DOMAIN e : n \in ToSet(d) \/ ~Ready(e, n, d)

LEMMA PassOnce ==
  ASSUME NEW S, NEW e \in Seq(S), NEW d, Once(e, d), NEW flush
  PROVE  Once(e, Pass(e, d, flush))
<1>1. d \in Seq(DOMAIN e) /\ Len(e) \in Nat /\ DOMAIN e = 1..Len(e)
  BY LenProperties DEF Once
<1>2. PICK f : PassRun(e, d, flush, f)
  BY <1>1, PassRuns
<1> DEFINE T == {n \in 0..Len(e) : Once(e, f[n])}
<1>3. 0 \in T
  BY <1>1, <1>2 DEF PassRun
<1>4. ASSUME NEW n \in 0..Len(e), n + 1 \in 0..Len(e), n \in T  PROVE n + 1 \in T
  <2>1. n + 1 \in DOMAIN e /\ f[n+1] = Emit(e, f[n], n+1, flush)
    BY <1>2, <1>4, PassTurn
  <2> QED  BY <1>4, <2>1, EmitOnce
<1>5. T = 0..Len(e)
  <2>1. T \in SUBSET (0..Len(e))
    OBVIOUS
  <2> HIDE DEF T
  <2> QED  BY <1>1, <1>3, <1>4, <2>1, UpTo
<1>6. Len(e) \in T
  <2> HIDE DEF T
  <2> QED  BY <1>1, <1>5
<1> QED  BY <1>2, <1>6 DEF PassRun

\* A pass that emits what is ready emits something unless nothing is.
LEMMA PassGrows ==
  ASSUME NEW S, NEW e \in Seq(S), NEW d \in Seq(DOMAIN e), TargetsFirst(e, d),
         NEW flush, flush = FALSE
  PROVE  /\ TargetsFirst(e, Pass(e, d, flush))
         /\ \/ Pass(e, d, flush) = d /\ Still(e, d)
            \/ Len(Pass(e, d, flush)) > Len(d) /\ ~Still(e, d)
<1>1. Len(e) \in Nat /\ DOMAIN e = 1..Len(e) /\ Len(d) \in Nat
  BY LenProperties
<1>2. PICK f : PassRun(e, d, flush, f)
  BY PassRuns
<1> DEFINE Same(n) == f[n] = d /\ \A k \in 1..n : k \in ToSet(d) \/ ~Ready(e, k, d)
           More(n) == Len(f[n]) > Len(d) /\ ~Still(e, d)
           T == {n \in 0..Len(e) : TargetsFirst(e, f[n]) /\ (Same(n) \/ More(n))}
<1>3. 0 \in T
  BY <1>1, <1>2 DEF PassRun
<1>4. ASSUME NEW n \in 0..Len(e), n + 1 \in 0..Len(e), n \in T  PROVE n + 1 \in T
  <2>1. n + 1 \in DOMAIN e /\ f[n+1] = Emit(e, f[n], n+1, flush) /\ f[n] \in Seq(DOMAIN e)
    BY <1>2, <1>4, PassTurn
  <2>2. TargetsFirst(e, f[n+1])
    BY <1>4, <2>1, EmitTargetsFirst
  <2>3. \/ f[n+1] = f[n] /\ (n + 1 \in ToSet(f[n]) \/ ~Ready(e, n + 1, f[n]))
        \/ Len(f[n+1]) > Len(f[n]) /\ n + 1 \notin ToSet(f[n]) /\ Ready(e, n + 1, f[n])
    <3>1. /\ Len(f[n]) \in Nat
          /\ Len(Append(f[n], n + 1)) = Len(f[n]) + 1
      BY <2>1, Appended
    <3> QED  BY <2>1, <3>1 DEF Emit
  <2>4. Len(f[n]) \in Nat /\ Len(f[n+1]) \in Nat
    <3>1. f[n+1] \in Seq(DOMAIN e)
      BY <2>1, EmitType
    <3> QED  BY <2>1, <3>1, LenProperties
  <2>5. CASE Same(n)
    <3>1. CASE f[n+1] = f[n] /\ (n + 1 \in ToSet(f[n]) \/ ~Ready(e, n + 1, f[n]))
      <4>1. Same(n + 1)
        BY <2>5, <3>1
      <4> QED  BY <1>4, <2>2, <4>1
    <3>2. CASE Len(f[n+1]) > Len(f[n]) /\ n + 1 \notin ToSet(f[n]) /\ Ready(e, n + 1, f[n])
      <4>1. More(n + 1)
        BY <2>1, <2>5, <3>2 DEF Still
      <4> QED  BY <1>4, <2>2, <4>1
    <3> QED  BY <2>3, <3>1, <3>2
  <2>6. CASE More(n)
    <3>1. More(n + 1)
      BY <1>1, <2>3, <2>4, <2>6
    <3> QED  BY <1>4, <2>2, <3>1
  <2> QED  BY <1>4, <2>5, <2>6
<1>5. T = 0..Len(e)
  <2>1. T \in SUBSET (0..Len(e))
    OBVIOUS
  <2> HIDE DEF T
  <2> QED  BY <1>1, <1>3, <1>4, <2>1, UpTo
<1>6. Len(e) \in T
  <2> HIDE DEF T
  <2> QED  BY <1>1, <1>5
<1>7. Same(Len(e)) => Still(e, d)
  BY <1>1 DEF Still
<1> QED  BY <1>2, <1>6, <1>7 DEF PassRun

\* A pass adds nothing to an order of all rows.
LEMMA PassOfAll ==
  ASSUME NEW S, NEW e \in Seq(S), NEW d \in Seq(DOMAIN e), ToSet(d) = DOMAIN e,
         NEW flush
  PROVE  Pass(e, d, flush) = d
<1>1. Len(e) \in Nat /\ DOMAIN e = 1..Len(e)
  BY LenProperties
<1>2. PICK f : PassRun(e, d, flush, f)
  BY PassRuns
<1> DEFINE T == {n \in 0..Len(e) : f[n] = d}
<1>3. 0 \in T
  BY <1>1, <1>2 DEF PassRun
<1>4. ASSUME NEW n \in 0..Len(e), n + 1 \in 0..Len(e), n \in T  PROVE n + 1 \in T
  <2>1. n + 1 \in DOMAIN e /\ f[n+1] = Emit(e, f[n], n+1, flush)
    BY <1>2, <1>4, PassTurn
  <2> QED  BY <1>4, <2>1 DEF Emit
<1>5. T = 0..Len(e)
  <2>1. T \in SUBSET (0..Len(e))
    OBVIOUS
  <2> HIDE DEF T
  <2> QED  BY <1>1, <1>3, <1>4, <2>1, UpTo
<1>6. Len(e) \in T
  <2> HIDE DEF T
  <2> QED  BY <1>1, <1>5
<1> QED  BY <1>2, <1>6 DEF PassRun

LEMMA PassType ==
  ASSUME NEW S, NEW e \in Seq(S), NEW d \in Seq(DOMAIN e), NEW flush
  PROVE  Pass(e, d, flush) \in Seq(DOMAIN e)
<1>1. PICK f : PassRun(e, d, flush, f)
  BY PassRuns
<1>2. Len(e) \in 0..Len(e)
  BY LenProperties
<1> QED  BY <1>1, <1>2 DEF PassRun

\* The sort is a loop of passes, and one that emits the rest.
Sorting(e, no, yes, P) ==
  /\ P \in [0..Len(e) -> Seq(DOMAIN e)]
  /\ P[0] = <<>> /\ TopoOrder(e) = Pass(e, P[Len(e)], yes)
  /\ \A n \in 1..Len(e) : P[n] = Pass(e, P[n-1], no)

LEMMA SortRuns ==
  ASSUME NEW S, NEW e \in Seq(S), NEW no, no = FALSE, NEW yes, yes = TRUE
  PROVE  \E P : Sorting(e, no, yes, P)
<1> DEFINE m == Len(e)
           A == Seq(DOMAIN e)
           Runs(f) == f = [k \in 0..m |-> IF k = 0 THEN <<>> ELSE Pass(e, f[k-1], no)]
           step == [p \in (1..m) \X A |-> Pass(e, p[2], no)]
           passes == CHOOSE f : Runs(f)
<1>1. m \in Nat /\ DOMAIN e = 1..m /\ <<>> \in A
  BY LenProperties, EmptySeq
<1>2. step \in [(1..m) \X A -> A]
  BY PassType
<1>3. \E f : Runs(f)
  <2> HIDE DEF m, A
  <2>1. Loop(A, m, <<>>, step)
    BY <1>1, <1>2 DEF Loop
  <2> HIDE DEF step
  <2>2. PICK f : Run(A, m, <<>>, step, f)
    BY Zenon, <2>1, Recursion
  <2>3. \A n \in 0..m : f[n] = IF n = 0 THEN <<>> ELSE Pass(e, f[n-1], no)
    <3>1. \A n \in 1..m : f[n-1] \in A
      BY <1>1, <2>2 DEF Run
    <3>2. \A n \in 1..m : f[n] = Pass(e, f[n-1], no)
      BY <2>2, <3>1 DEF step, Run
    <3> QED  BY <1>1, <2>2, <3>2 DEF Run
  <2>4. f = [n \in 0..m |-> f[n]]
    BY <2>2 DEF Run
  <2>5. Runs(f)
    BY <2>3, <2>4
  <2> QED  BY <2>5
<1>4. Runs(passes)
  <2> HIDE DEF Runs
  <2> QED  BY <1>3
<1>5. TopoOrder(e) = Pass(e, passes[m], yes)
  BY Zenon DEF TopoOrder
<1> HIDE DEF passes, step
<1>6. /\ DOMAIN passes = 0..m /\ passes[0] = <<>>
      /\ \A n \in 1..m : passes[n] = Pass(e, passes[n-1], no)
  <2> DEFINE g == [k \in 0..m |-> IF k = 0 THEN <<>> ELSE Pass(e, passes[k-1], no)]
  <2>1. passes = g
    BY <1>4
  <2>2. /\ DOMAIN g = 0..m /\ g[0] = <<>>
        /\ \A n \in 1..m : g[n] = Pass(e, passes[n-1], no)
    BY <1>1
  <2> HIDE DEF g
  <2> QED  BY <2>1, <2>2
<1>7. \A n \in 0..m : passes[n] \in A
  <2> DEFINE T == {n \in 0..m : passes[n] \in A}
  <2>1. 0 \in T
    <3>1. 0 \in 0..m
      BY <1>1
    <3> HIDE DEF m, A
    <3>2. passes[0] \in A
      BY <1>1, <1>6
    <3> QED  BY <3>1, <3>2
  <2>2. ASSUME NEW n \in 0..m, n + 1 \in 0..m, n \in T  PROVE n + 1 \in T
    <3>1. n + 1 \in 1..m /\ (n + 1) - 1 = n
      BY <1>1, <2>2
    <3>2. passes[n+1] = Pass(e, passes[n], no)
      BY <1>6, <3>1
    <3> QED  BY <2>2, <3>2, PassType
  <2>3. T = 0..m
    <3> HIDE DEF m
    <3>1. T \in SUBSET (0..m)
      OBVIOUS
    <3> HIDE DEF T
    <3> QED  BY <1>1, <2>1, <2>2, <3>1, UpTo
  <2> QED  BY <2>3
<1>8. passes \in [0..m -> A]
  <2>1. passes = [n \in 0..m |-> passes[n]]
    BY <1>4
  <2> QED  BY <1>7, <2>1
<1> QED  BY <1>5, <1>6, <1>8 DEF Sorting

LEMMA SortTurn ==
  ASSUME NEW S, NEW e \in Seq(S), NEW no, NEW yes, NEW P, Sorting(e, no, yes, P),
         NEW n \in 0..Len(e), n + 1 \in 0..Len(e)
  PROVE  P[n] \in Seq(DOMAIN e) /\ P[n+1] = Pass(e, P[n], no)
<1>1. Len(e) \in Nat
  BY LenProperties
<1>2. n + 1 \in 1..Len(e) /\ (n + 1) - 1 = n
  BY <1>1
<1>3. P[n+1] = Pass(e, P[(n+1)-1], no)
  BY <1>2 DEF Sorting
<1>4. P[n] \in Seq(DOMAIN e)
  BY DEF Sorting
<1> QED  BY <1>2, <1>3, <1>4

LEMMA OnceEmpty ==
  ASSUME NEW e
  PROVE  Once(e, <<>>) /\ TargetsFirst(e, <<>>)
<1>1. <<>> \in Seq(DOMAIN e) /\ Len(<<>>) = 0 /\ \A i \in DOMAIN <<>> : FALSE
  BY EmptySeq, LenProperties
<1> QED  BY <1>1 DEF Once, TargetsFirst

\* The sort emits no row twice.
LEMMA SortOnce ==
  ASSUME NEW S, NEW e \in Seq(S)
  PROVE  Once(e, TopoOrder(e))
<1> DEFINE no == FALSE
           yes == TRUE
<1>1. no = FALSE /\ yes = TRUE /\ Len(e) \in Nat
  BY LenProperties
<1> HIDE DEF no, yes
<1>2. PICK P : Sorting(e, no, yes, P)
  BY <1>1, SortRuns
<1> DEFINE T == {n \in 0..Len(e) : Once(e, P[n])}
<1>3. 0 \in T
  BY <1>1, <1>2, OnceEmpty DEF Sorting
<1>4. ASSUME NEW n \in 0..Len(e), n + 1 \in 0..Len(e), n \in T  PROVE n + 1 \in T
  <2>1. P[n+1] = Pass(e, P[n], no)
    BY <1>2, <1>4, SortTurn
  <2> QED  BY <1>4, <2>1, PassOnce
<1>5. T = 0..Len(e)
  <2>1. T \in SUBSET (0..Len(e))
    OBVIOUS
  <2> HIDE DEF T
  <2> QED  BY <1>1, <1>3, <1>4, <2>1, UpTo
<1>6. Once(e, P[Len(e)])
  <2>1. Len(e) \in 0..Len(e)
    BY <1>1
  <2> QED  BY <1>5, <2>1
<1>7. TopoOrder(e) = Pass(e, P[Len(e)], yes)
  BY <1>2 DEF Sorting
<1> QED  BY <1>6, <1>7, PassOnce

\* There are k numbers up to k.
LEMMA UpToCount ==
  ASSUME NEW k \in Nat
  PROVE  IsFiniteSet(1..k) /\ Cardinality(1..k) = k
<1>1. IsFiniteSet(1..k) /\ Cardinality(1..k) = IF 1 > k THEN 0 ELSE k - 1 + 1
  BY FS_Interval
<1> QED  BY <1>1

\* Rows emitted once are no more than there are, and as many are all of them.
LEMMA OnceLength ==
  ASSUME NEW S, NEW e \in Seq(S), NEW d, Once(e, d)
  PROVE  /\ Len(d) \in Nat /\ Len(d) <= Len(e)
         /\ Len(d) = Len(e) => ToSet(d) = DOMAIN e
         /\ ToSet(d) = DOMAIN e => Len(d) = Len(e)
<1>1. /\ Len(e) \in Nat /\ DOMAIN e = 1..Len(e)
      /\ Len(d) \in Nat /\ DOMAIN d = 1..Len(d) /\ d \in [1..Len(d) -> DOMAIN e]
  BY LenProperties DEF Once
<1>2. d \in Injection(1..Len(d), DOMAIN e)
  BY <1>1 DEF Once, Injection, IsInjective
<1>3. /\ IsFiniteSet(1..Len(d)) /\ Cardinality(1..Len(d)) = Len(d)
      /\ IsFiniteSet(DOMAIN e) /\ Cardinality(DOMAIN e) = Len(e)
  BY <1>1, UpToCount
<1>4. /\ Len(d) <= Len(e)
      /\ Len(d) = Len(e) <=> d \in Surjection(1..Len(d), DOMAIN e)
  BY <1>2, <1>3, FS_Injection
<1>5. d \in Surjection(1..Len(d), DOMAIN e) <=> ToSet(d) = DOMAIN e
  BY <1>1 DEF Surjection, ToSet
<1> QED  BY <1>1, <1>4, <1>5

\* When no row is ready and none waits for itself, all are emitted.
LEMMA StillIsAll ==
  ASSUME NEW e, NEW d, d \in Seq(DOMAIN e), Still(e, d), Acyclic(e)
  PROVE  ToSet(d) = DOMAIN e
<1>1. ToSet(d) \subseteq DOMAIN e
  BY LenProperties DEF ToSet
<1>2. ASSUME DOMAIN e \ ToSet(d) # {}  PROVE FALSE
  <2>1. PICK n \in DOMAIN e \ ToSet(d) : \A m \in DOMAIN e \ ToSet(d) : e[n].sup # e[m].id
    BY <1>2 DEF Acyclic
  <2>2. ~Ready(e, n, d)
    BY <2>1 DEF Still
  <2>3. PICK m \in DOMAIN e : e[n].sup = e[m].id
    BY <2>2 DEF Ready, Present
  <2>4. m \in ToSet(d)
    BY <2>1, <2>3
  <2> QED  BY <2>2, <2>3, <2>4 DEF Ready
<1> QED  BY <1>1, <1>2

\* Without a cycle the sort emits every row, and what it waits for before it.
LEMMA SortComplete ==
  ASSUME NEW S, NEW e \in Seq(S), Acyclic(e)
  PROVE  TargetsFirst(e, TopoOrder(e)) /\ ToSet(TopoOrder(e)) = DOMAIN e
<1> DEFINE no == FALSE
           yes == TRUE
<1>1. no = FALSE /\ yes = TRUE /\ Len(e) \in Nat
  BY LenProperties
<1> HIDE DEF no, yes
<1>2. PICK P : Sorting(e, no, yes, P)
  BY <1>1, SortRuns
<1> DEFINE Good(n) ==
             /\ Once(e, P[n]) /\ TargetsFirst(e, P[n])
             /\ Len(P[n]) >= n \/ Still(e, P[n])
           T == {n \in 0..Len(e) : Good(n)}
<1>3. 0 \in T
  <2>1. Once(e, P[0]) /\ TargetsFirst(e, P[0]) /\ P[0] = <<>>
    BY <1>2, OnceEmpty DEF Sorting
  <2>2. Len(P[0]) = 0
    BY <2>1
  <2> QED  BY <1>1, <2>1, <2>2
<1>4. ASSUME NEW n \in 0..Len(e), n + 1 \in 0..Len(e), n \in T  PROVE n + 1 \in T
  <2>1. P[n+1] = Pass(e, P[n], no) /\ P[n] \in Seq(DOMAIN e)
    BY <1>2, <1>4, SortTurn
  <2>2. Once(e, P[n+1])
    BY <1>4, <2>1, PassOnce
  <2>3. /\ TargetsFirst(e, P[n+1])
        /\ \/ P[n+1] = P[n] /\ Still(e, P[n])
           \/ Len(P[n+1]) > Len(P[n]) /\ ~Still(e, P[n])
    BY <1>1, <1>4, <2>1, PassGrows
  <2>4. Len(P[n]) \in Nat /\ Len(P[n+1]) \in Nat
    BY <1>4, <2>2, OnceLength
  <2>5. Len(P[n+1]) >= n + 1 \/ Still(e, P[n+1])
    BY <1>1, <1>4, <2>3, <2>4
  <2> QED  BY <1>4, <2>2, <2>3, <2>5
<1>5. T = 0..Len(e)
  <2>1. T \in SUBSET (0..Len(e))
    OBVIOUS
  <2> HIDE DEF T
  <2> QED  BY <1>1, <1>3, <1>4, <2>1, UpTo
<1> DEFINE d == P[Len(e)]
<1>6. Once(e, d) /\ TargetsFirst(e, d) /\ (Len(d) >= Len(e) \/ Still(e, d))
  <2>1. Len(e) \in 0..Len(e)
    BY <1>1
  <2> QED  BY <1>5, <2>1
<1> HIDE DEF d
<1>7. d \in Seq(DOMAIN e)
  BY <1>6 DEF Once
<1>8. ToSet(d) = DOMAIN e
  <2>1. CASE Len(d) >= Len(e)
    BY <1>1, <1>6, <2>1, OnceLength
  <2>2. CASE Still(e, d)
    BY <1>7, <2>2, StillIsAll
  <2> QED  BY <1>6, <2>1, <2>2
<1>9. TopoOrder(e) = d
  <2>1. TopoOrder(e) = Pass(e, d, yes)
    BY <1>2 DEF Sorting, d
  <2> QED  BY <1>7, <1>8, <2>1, PassOfAll
<1> QED  BY <1>6, <1>8, <1>9

-----------------------------------------------------------------------------
(* The import *)

\* Claims whose target was in the export and has got no new id.
Broken == {c \in Dangling(claims) : c.sup \in Present(rows)}

\* What counting relies on: ids are mapped to claims that are there.
ImportInv ==
  /\ IsFiniteSet(claims) /\ dangling \in Nat
  /\ imp = "none" => claims = {}
  /\ \A i \in DOMAIN remap : remap[i] \in Ids(claims)
  /\ Cardinality(Broken) <= dangling

LEMMA BrokenFinite ==
  ASSUME IsFiniteSet(claims)
  PROVE  IsFiniteSet(Broken) /\ Cardinality(Broken) \in Nat
<1>1. Broken \in SUBSET claims
  BY DEF Broken, Dangling, Superseding
<1> QED  BY <1>1, FS_Subset, FS_CardinalityType

\* A row that is replayed adds a broken chain only when one is counted.
LEMMA ReplayKeeps ==
  ASSUME ImportInv, Replay
  PROVE  ImportInv'
<1> DEFINE c == [id |-> NextId, type |-> "task", sup |-> Target(Row),
                 by |-> normalize_legacy(Row.by)]
<1>1. /\ claims' = claims \cup {c}
      /\ remap' = Mapping(Row.id, NextId)
      /\ dangling' = dangling + IF Breaks(Row) THEN 1 ELSE 0
      /\ rows' = rows /\ imp' = "replay"
  BY DEF Replay, Count, Advance
<1>2. c.id = NextId /\ c.sup = Target(Row)
  OBVIOUS
<1> HIDE DEF c
<1>3. IsFiniteSet(claims') /\ IsFiniteSet(Broken) /\ Cardinality(Broken) \in Nat
  BY <1>1, BrokenFinite, FS_AddElement DEF ImportInv
<1>4. Ids(claims') = Ids(claims) \cup {NextId}
  BY <1>1, <1>2 DEF Ids
<1>5. ASSUME NEW i \in DOMAIN remap'
      PROVE  remap'[i] \in Ids(claims')
  <2>1. /\ DOMAIN remap' = {Row.id} \cup DOMAIN remap
        /\ remap'[Row.id] = NextId
        /\ \A k \in DOMAIN remap \ {Row.id} : remap'[k] = remap[k]
    BY <1>1 DEF Mapping
  <2>2. CASE i = Row.id
    BY Zenon, <1>4, <2>1, <2>2
  <2>3. CASE i # Row.id
    BY <1>4, <1>5, <2>1, <2>3 DEF ImportInv
  <2> QED  BY <2>2, <2>3
<1>6. ASSUME NEW b \in Broken', b # c
      PROVE  b \in Broken
  BY <1>1, <1>4, <1>6 DEF Broken, Dangling, Superseding, Present, Ids
<1>7. ~Breaks(Row) => c \notin Broken'
  <2> SUFFICES ASSUME ~Breaks(Row), c \in Broken'  PROVE FALSE
    OBVIOUS
  <2>1. c.sup \notin Ids(claims') /\ c.sup \in Present(rows)
    BY <1>1 DEF Broken, Dangling, Superseding, Present, Ids
  <2>2. CASE Row.sup \in DOMAIN remap
    BY <1>2, <1>4, <2>1, <2>2 DEF Target, ImportInv
  <2>3. CASE Row.sup \notin DOMAIN remap
    BY <1>2, <2>1, <2>3 DEF Target, Breaks
  <2> QED  BY <2>2, <2>3
<1>8. Cardinality(Broken') <= dangling' /\ dangling' \in Nat
  <2>1. CASE Breaks(Row)
    <3>1. Broken' \in SUBSET (Broken \cup {c})
      BY <1>6
    <3>2. /\ IsFiniteSet(Broken \cup {c})
          /\ Cardinality(Broken \cup {c}) <= Cardinality(Broken) + 1
          /\ Cardinality(Broken \cup {c}) \in Nat
      <4>1. /\ IsFiniteSet(Broken \cup {c})
            /\ Cardinality(Broken \cup {c}) =
                 IF c \in Broken THEN Cardinality(Broken) ELSE Cardinality(Broken) + 1
        BY <1>3, FS_AddElement
      <4> QED  BY <1>3, <4>1
    <3>3. Cardinality(Broken') <= Cardinality(Broken \cup {c}) /\ Cardinality(Broken') \in Nat
      BY <3>1, <3>2, FS_Subset, FS_CardinalityType
    <3> QED  BY <1>1, <1>3, <2>1, <3>2, <3>3 DEF ImportInv
  <2>2. CASE ~Breaks(Row)
    <3>1. Broken' \in SUBSET Broken
      BY <1>6, <1>7, <2>2
    <3>2. Cardinality(Broken') <= Cardinality(Broken) /\ Cardinality(Broken') \in Nat
      BY <1>3, <3>1, FS_Subset, FS_CardinalityType
    <3> QED  BY <1>1, <1>3, <2>2, <3>2 DEF ImportInv
  <2> QED  BY <2>1, <2>2
<1> QED  BY <1>1, <1>3, <1>5, <1>8 DEF ImportInv

\* The other steps map nothing and add no claim.
LEMMA ImportKeeps ==
  ASSUME ImportInv, ImportStep \/ (\E e : Start(e)) \/ UNCHANGED impVars
  PROVE  ImportInv'
<1>1. CASE Replay
  BY <1>1, ReplayKeeps
<1>2. CASE \E e : Start(e)
  <2>1. claims = {} /\ claims' = {} /\ remap' = remap /\ dangling' = dangling
    BY <1>2 DEF Start, ImportInv
  <2>2. Broken' = {} /\ Cardinality({}) = 0
    BY <2>1, FS_EmptySet DEF Broken, Dangling, Superseding
  <2> QED  BY <2>1, <2>2 DEF ImportInv
<1>3. CASE Skip \/ ReplayFails \/ Finish \/ UNCHANGED impVars
  <2>1. /\ UNCHANGED <<rows, remap, claims>>
        /\ imp' = "none" => imp = "none"
        /\ dangling' = dangling \/ dangling' = dangling + 1
    BY <1>3 DEF Skip, ReplayFails, Finish, Count, Advance, impVars, ImportInv
  <2>2. Broken' = Broken /\ Cardinality(Broken) \in Nat
    BY <2>1, BrokenFinite DEF Broken, Dangling, Superseding, Present, Ids, ImportInv
  <2> QED  BY <2>1, <2>2 DEF ImportInv
<1> QED  BY <1>1, <1>2, <1>3 DEF ImportStep

LEMMA ImportHolds == Spec => []ImportInv
<1>1. TransferInit => ImportInv
  <2> SUFFICES ASSUME TransferInit PROVE ImportInv
    OBVIOUS
  <2>1. claims = {} /\ remap = <<>> /\ dangling = 0
    BY DEF TransferInit, ImportInit
  <2>2. Broken = {} /\ IsFiniteSet({}) /\ Cardinality({}) = 0
    BY <2>1, FS_EmptySet DEF Broken, Dangling, Superseding
  <2> QED  BY <2>1, <2>2 DEF ImportInv
<1>2. ImportInv /\ [Next]_vars => ImportInv'
  BY ImportKeeps DEF Next, MigrationStep, ImportV3, ImportV2, ImportGoesOn, vars
<1> QED  BY <1>1, <1>2, PTL DEF Spec

\* However far an import got, and whatever rows it could not write, no broken
\* chain goes unreported (cmd_import.rs:80-84).
THEOREM ImportReportsBreaks == Spec => []BreaksReported
<1>1. ImportInv => BreaksReported
  BY DEF ImportInv, BreaksReported, Broken
<1> QED  BY <1>1, ImportHolds, PTL

-----------------------------------------------------------------------------
(* Ids, and how far an import is *)

\* The rows of an export: a sequence, of ids and targets up to MaxId.
Numbered(e) ==
  /\ e \in Seq(ToSet(e))
  /\ \A n \in DOMAIN e : e[n].id \in 1..MaxId /\ e[n].sup \in 0..MaxId

\* The ids in the logs are those of the estate, or new ones above.
LinesNumbered == Len(lines) <= MaxLines /\ Numbered(lines)

\* Each row is written, refused or still to come.
Progress ==
  /\ Numbered(rows) /\ Once(rows, order)
  /\ skipped \in Nat /\ dangling \in Nat
  /\ Cardinality(claims) + skipped + Len(order) <= Len(rows)
  /\ dangling + Len(order) <= Len(rows)
  /\ Ids(claims) \subseteq MaxId + 1 .. MaxId + Cardinality(claims)
  /\ imp = "none" => remap = <<>> /\ skipped = 0 /\ dangling = 0
  /\ imp = "done" => order = <<>>

\* A sequence given by its elements.
LEMMA Listed ==
  ASSUME NEW m \in Nat, NEW e, DOMAIN e = 1..m, e = [n \in 1..m |-> e[n]]
  PROVE  e \in Seq(ToSet(e)) /\ Len(e) = m
<1>1. ToSet(e) = {e[n] : n \in 1..m}
  BY DEF ToSet
<1> DEFINE A == ToSet(e)
<1>2. e \in [1..m -> A]
  BY <1>1
<1> HIDE DEF A
<1>3. e \in Seq(A)
  BY <1>2
<1>4. Len(e) \in Nat /\ 1..Len(e) = 1..m
  BY <1>3, LenProperties
<1> QED  BY <1>3, <1>4 DEF A

LEMMA EmptyOnce == Numbered(<<>>) /\ Once(<<>>, <<>>) /\ Len(<<>>) = 0
<1>1. <<>> \in Seq(ToSet(<<>>)) /\ Len(<<>>) = 0 /\ \A i \in DOMAIN <<>> : FALSE
  BY EmptySeq, LenProperties
<1> QED  BY <1>1, OnceEmpty DEF Numbered

\* What is left of an order when its first row is taken.
LEMMA TailOnce ==
  ASSUME NEW e, NEW d, Once(e, d), d # <<>>
  PROVE  /\ Once(e, Tail(d)) /\ Len(d) \in Nat \ {0} /\ Len(Tail(d)) = Len(d) - 1
         /\ DOMAIN d = 1..Len(d) /\ DOMAIN Tail(d) = 1..(Len(d) - 1)
         /\ \A i \in 1..(Len(d) - 1) : Tail(d)[i] = d[i+1]
         /\ Head(d) = d[1] /\ Head(d) \in DOMAIN e
         /\ ToSet(d) = ToSet(Tail(d)) \cup {Head(d)} /\ Head(d) \notin ToSet(Tail(d))
<1>1. d \in Seq(DOMAIN e)
  BY DEF Once
<1>2. Len(d) \in Nat \ {0} /\ DOMAIN d = 1..Len(d)
  BY <1>1, EmptySeq, LenProperties
<1>3. /\ Tail(d) \in Seq(DOMAIN e) /\ Len(Tail(d)) = Len(d) - 1
      /\ \A i \in 1..Len(Tail(d)) : Tail(d)[i] = d[i+1]
      /\ Head(d) = d[1] /\ Head(d) \in DOMAIN e
  BY <1>1, HeadTailProperties
<1> DEFINE t == Tail(d)
           m == Len(d)
           h == Head(d)
<1>4. /\ t \in Seq(DOMAIN e) /\ DOMAIN t = 1..(m - 1) /\ m \in Nat \ {0} /\ DOMAIN d = 1..m
      /\ \A i \in 1..(m - 1) : t[i] = d[i+1]
      /\ h = d[1]
  BY <1>2, <1>3, LenProperties
<1> HIDE DEF t, m, h
<1>5. \A i, j \in 1..m : d[i] = d[j] => i = j
  BY <1>4 DEF Once
<1>6. ASSUME NEW i \in 1..(m - 1), NEW j \in 1..(m - 1), t[i] = t[j]  PROVE i = j
  <2>1. d[i+1] = d[j+1] /\ i + 1 \in 1..m /\ j + 1 \in 1..m
    BY <1>4, <1>6
  <2>2. i + 1 = j + 1
    BY <1>5, <2>1
  <2> QED  BY <2>2
<1>7. Once(e, t)
  BY <1>4, <1>6 DEF Once
<1>8. ASSUME NEW i \in 1..m
      PROVE  d[i] = h \/ d[i] \in ToSet(t)
  <2>1. CASE i = 1
    BY <1>4, <2>1
  <2>2. CASE i # 1
    <3>1. i - 1 \in 1..(m - 1) /\ (i - 1) + 1 = i
      BY <1>4, <2>2
    <3>2. d[i] = t[i-1]
      BY <1>4, <3>1
    <3> QED  BY <1>4, <3>1, <3>2 DEF ToSet
  <2> QED  BY <2>1, <2>2
<1>9. ASSUME NEW i \in 1..(m - 1)
      PROVE  t[i] \in ToSet(d) /\ t[i] # h
  <2>1. t[i] = d[i+1] /\ i + 1 \in 1..m /\ i + 1 # 1 /\ 1 \in 1..m
    BY <1>4
  <2> QED  BY <1>4, <1>5, <2>1 DEF ToSet
<1>10. ToSet(d) = ToSet(t) \cup {h} /\ h \notin ToSet(t)
  <2>1. h \in ToSet(d)
    <3>1. 1 \in 1..m
      BY <1>4
    <3> QED  BY <1>4, <3>1 DEF ToSet
  <2>2. \A x \in ToSet(d) : x = h \/ x \in ToSet(t)
    <3>1. ToSet(d) = {d[i] : i \in 1..m}
      BY <1>4 DEF ToSet
    <3> QED  BY <1>8, <3>1
  <2>3. \A x \in ToSet(t) : x \in ToSet(d) /\ x # h
    <3>1. ToSet(t) = {t[i] : i \in 1..(m - 1)}
      BY <1>4 DEF ToSet
    <3> QED  BY <1>9, <3>1
  <2> QED  BY <2>1, <2>2, <2>3
<1> QED  BY <1>2, <1>3, <1>4, <1>7, <1>10 DEF t, m, h

\* The claim that the import writes has a new id.
LEMMA NextIdNew ==
  ASSUME IsFiniteSet(claims), Ids(claims) \subseteq MaxId + 1 .. MaxId + Cardinality(claims)
  PROVE  NextId \in Nat /\ NextId > MaxId /\ NextId \notin Ids(claims)
<1>1. Cardinality(claims) \in Nat /\ MaxId \in Nat
  BY FS_CardinalityType, TransferAssumption
<1> DEFINE k == Cardinality(claims)
<1> HIDE DEF k
<1>2. NextId = MaxId + 1 + k /\ k \in Nat
  BY <1>1 DEF NextId, k
<1>3. NextId \notin MaxId + 1 .. MaxId + k
  BY <1>1, <1>2
<1> QED  BY <1>1, <1>2, <1>3 DEF k

LEMMA ReplayCounts ==
  ASSUME Progress, ImportInv, Replay
  PROVE  Progress'
<1> DEFINE c == [id |-> NextId, type |-> "task", sup |-> Target(Row),
                 by |-> normalize_legacy(Row.by)]
           k == Cardinality(claims)
<1>1. /\ claims' = claims \cup {c} /\ c.id = NextId
      /\ dangling' = dangling + IF Breaks(Row) THEN 1 ELSE 0
      /\ order # <<>> /\ order' = Tail(order) /\ imp = "replay"
      /\ UNCHANGED <<rows, skipped, imp>>
  BY DEF Replay, Count, Advance
<1>2. c \notin claims /\ NextId \in Nat
  BY <1>1, NextIdNew DEF Progress, ImportInv, Ids
<1> HIDE DEF c
<1>3. Cardinality(claims') = k + 1 /\ k \in Nat /\ IsFiniteSet(claims)
  BY <1>1, <1>2, FS_AddElement, FS_CardinalityType DEF ImportInv
<1>4. Once(rows, order') /\ Len(order') = Len(order) - 1 /\ Len(order) \in Nat
  BY <1>1, TailOnce DEF Progress
<1>5. Len(rows) \in Nat
  BY LenProperties DEF Progress, Numbered
<1>6. Ids(claims') \subseteq MaxId + 1 .. MaxId + Cardinality(claims')
  <2>1. Ids(claims') = Ids(claims) \cup {NextId}
    BY <1>1 DEF Ids
  <2>2. MaxId \in Nat /\ NextId = MaxId + 1 + k
    BY TransferAssumption DEF NextId
  <2>3. Ids(claims) \subseteq MaxId + 1 .. MaxId + k
    BY DEF Progress
  <2> HIDE DEF k
  <2> QED  BY <1>3, <2>1, <2>2, <2>3
<1>7. Numbered(rows)'
  BY <1>1 DEF Progress, Numbered
<1>8. /\ Cardinality(claims') + skipped' + Len(order') <= Len(rows')
      /\ dangling' \in Nat /\ dangling' + Len(order') <= Len(rows')
  <2>1. k + skipped + Len(order) <= Len(rows) /\ dangling + Len(order) <= Len(rows)
        /\ skipped \in Nat /\ dangling \in Nat
    BY DEF Progress
  <2>2. dangling' = dangling \/ dangling' = dangling + 1
    BY <1>1, <2>1
  <2> HIDE DEF k
  <2> QED  BY <1>1, <1>3, <1>4, <1>5, <2>1, <2>2
<1> QED  BY <1>1, <1>4, <1>6, <1>7, <1>8 DEF Progress

LEMMA StartCounts ==
  ASSUME Progress, ImportInv, NEW e, Numbered(e), Start(e)
  PROVE  Progress'
<1>1. /\ rows' = e /\ order' = TopoOrder(e) /\ imp' = "replay" /\ claims = {}
      /\ skipped = 0 /\ dangling = 0
      /\ UNCHANGED <<remap, dangling, skipped, claims>>
  BY DEF Start, Progress, ImportInv
<1>2. Once(e, TopoOrder(e)) /\ Len(TopoOrder(e)) \in Nat /\ Len(TopoOrder(e)) <= Len(e)
  BY SortOnce, OnceLength DEF Numbered
<1>3. Cardinality(claims') = 0 /\ Ids(claims') = {}
  BY <1>1, FS_EmptySet DEF Ids
<1>4. Len(e) \in Nat
  BY LenProperties DEF Numbered
<1> QED  BY <1>1, <1>2, <1>3, <1>4 DEF Progress

LEMMA ProgressKeeps ==
  ASSUME Progress, ImportInv,
         ImportStep \/ (\E e : Numbered(e) /\ Start(e)) \/ UNCHANGED impVars
  PROVE  Progress'
<1>1. CASE Replay
  BY <1>1, ReplayCounts
<1>2. CASE \E e : Numbered(e) /\ Start(e)
  BY <1>2, StartCounts
<1>3. CASE Skip \/ ReplayFails
  <2>1. /\ order # <<>> /\ order' = Tail(order) /\ imp = "replay" /\ skipped' = skipped + 1
        /\ UNCHANGED <<rows, remap, claims, imp>>
        /\ dangling' = dangling \/ dangling' = dangling + 1
    BY <1>3 DEF Skip, ReplayFails, Count, Advance, Progress
  <2>2. Once(rows, order') /\ Len(order') = Len(order) - 1 /\ Len(order) \in Nat
    BY <2>1, TailOnce DEF Progress
  <2>3. Len(rows) \in Nat /\ Cardinality(claims) \in Nat
    BY LenProperties, FS_CardinalityType DEF Progress, Numbered, ImportInv
  <2>4. Numbered(rows)' /\ Ids(claims)' = Ids(claims)
    BY <2>1 DEF Progress, Numbered, Ids
  <2> QED  BY <2>1, <2>2, <2>3, <2>4 DEF Progress
<1>4. CASE Finish \/ UNCHANGED impVars
  <2>1. /\ UNCHANGED <<rows, order, remap, dangling, skipped, claims>>
        /\ imp' = imp \/ (imp' = "done" /\ order = <<>>)
    BY <1>4 DEF Finish, impVars
  <2>2. Numbered(rows)' /\ Ids(claims)' = Ids(claims)
    BY <2>1 DEF Progress, Numbered, Ids
  <2> QED  BY <2>1, <2>2 DEF Progress
<1> QED  BY <1>1, <1>2, <1>3, <1>4 DEF ImportStep

LEMMA NumberedAppend ==
  ASSUME NEW e, Numbered(e), NEW l, l.id \in 1..MaxId, l.sup \in 0..MaxId
  PROVE  Numbered(Append(e, l)) /\ Len(Append(e, l)) = Len(e) + 1
<1> DEFINE R == ToSet(e) \cup {l}
           g == Append(e, l)
           m == Len(e)
<1>1. e \in Seq(R) /\ l \in R
  <2>1. e \in Seq(ToSet(e))
    BY DEF Numbered
  <2> QED  BY <2>1, SeqMonotonic
<1> HIDE DEF R
<1>2. /\ g \in Seq(R) /\ m \in Nat /\ DOMAIN e = 1..m /\ DOMAIN g = 1..(m + 1) /\ Len(g) = m + 1
      /\ g[m + 1] = l /\ \A i \in 1..m : g[i] = e[i]
  BY <1>1, Appended
<1> HIDE DEF g, m
<1>3. g \in [1..(m + 1) -> R]
  BY <1>2, LenProperties
<1>4. g = [n \in 1..(m + 1) |-> g[n]] /\ m + 1 \in Nat
  BY <1>2, <1>3
<1>5. g \in Seq(ToSet(g))
  BY <1>2, <1>4, Listed
<1>6. ASSUME NEW n \in 1..(m + 1)
      PROVE  g[n].id \in 1..MaxId /\ g[n].sup \in 0..MaxId
  <2>1. CASE n = m + 1
    BY <1>2, <2>1
  <2>2. CASE n # m + 1
    <3>1. n \in 1..m
      BY <1>2, <2>2
    <3> QED  BY <1>2, <3>1 DEF Numbered
  <2> QED  BY <2>1, <2>2
<1>7. Numbered(g)
  BY <1>2, <1>5, <1>6 DEF Numbered
<1> QED  BY <1>2, <1>7 DEF g, m

\* What an estate mentions is numbered below what sessions add.
LEMMA EstateNumbered ==
  ASSUME MigrationInv
  PROVE  \A n \in DOMAIN estate : estate[n].id \in 1..MaxId /\ estate[n].sup \in 0..MaxId
<1>1. MaxOld \in Nat /\ MaxLines \in Nat /\ MaxId \in Nat /\ MaxOld <= MaxId
  BY TransferAssumption, MigrationAssumption
<1>2. \A n \in DOMAIN estate : estate[n].id \in 1..MaxOld /\ estate[n].sup \in 0..MaxOld
  BY TransferAssumption DEF MigrationInv
<1>3. ASSUME NEW x
      PROVE  /\ x \in 1..MaxOld => x \in 1..MaxId
             /\ x \in 0..MaxOld => x \in 0..MaxId
  BY <1>1
<1> QED  BY <1>2, <1>3

LEMMA LinesKeep ==
  ASSUME MigrationInv, LinesNumbered, Migrate \/ Work \/ UNCHANGED migVars
  PROVE  LinesNumbered'
<1>1. MaxOld \in Nat /\ MaxLines \in Nat /\ MaxId \in Nat /\ MaxOld + MaxLines <= MaxId
  BY TransferAssumption, MigrationAssumption
<1>2. Numbered(lines) /\ Len(lines) \in Nat /\ Len(lines) <= MaxLines
  BY LenProperties DEF LinesNumbered, Numbered
<1>3. CASE UNCHANGED lines
  BY <1>3 DEF LinesNumbered, Numbered
<1>4. ASSUME NEW l, lines' = Append(lines, l), l.id \in 1..MaxId, l.sup \in 0..MaxId,
             Len(lines) < MaxLines
      PROVE  LinesNumbered'
  <2>1. Numbered(Append(lines, l)) /\ Len(Append(lines, l)) = Len(lines) + 1
    BY <1>2, <1>4, NumberedAppend
  <2>2. Numbered(lines') /\ Len(lines') <= MaxLines
    BY <1>1, <1>2, <1>4, <2>1
  <2> QED  BY <2>2 DEF LinesNumbered, Numbered
<1>5. CASE Move
  <2>1. CASE Moves(estate[next])
    <3> DEFINE l == Line(estate[next])
    <3>1. next \in DOMAIN estate
      BY <1>5, EstateLength DEF Move, MigrationInv
    <3>2. l.id = estate[next].id /\ l.sup = estate[next].sup
      BY DEF Line
    <3>3. lines' = Append(lines, l) /\ Len(lines) < MaxLines
      BY <1>5, <2>1 DEF Move
    <3> HIDE DEF l
    <3> QED  BY <1>4, <3>1, <3>2, <3>3, EstateNumbered
  <2>2. CASE ~Moves(estate[next])
    BY <1>3, <1>5, <2>2 DEF Move
  <2> QED  BY <2>1, <2>2
<1>6. CASE Work
  <2>1. PICK c \in LiveHeads(LineSet, "task"), by \in Sessions :
          lines' = Append(lines, [id |-> MaxOld + 1 + Len(lines), type |-> "task",
                                  sup |-> c.id, by |-> by])
    BY <1>6 DEF Work
  <2>2. Len(lines) < MaxLines
    BY <1>6 DEF Work
  <2>3. PICK n \in DOMAIN lines : c = lines[n]
    BY <2>1 DEF LiveHeads, LineSet
  <2>4. c.id \in 0..MaxId
    BY <1>1, <1>2, <2>3 DEF Numbered
  <2>5. MaxOld + 1 + Len(lines) \in 1..MaxId
    BY <1>1, <1>2, <2>2
  <2> DEFINE l == [id |-> MaxOld + 1 + Len(lines), type |-> "task", sup |-> c.id, by |-> by]
  <2>6. lines' = Append(lines, l) /\ l.id \in 1..MaxId /\ l.sup \in 0..MaxId
    BY <2>1, <2>4, <2>5
  <2> HIDE DEF l
  <2> QED  BY <1>4, <2>2, <2>6
<1>7. CASE (\E backup \in BOOLEAN : Plan(backup)) \/ OpenArchive \/ PackArchive
           \/ OpenRecord \/ WriteRecord \/ Abort \/ UNCHANGED migVars
  BY <1>3, <1>7 DEF Plan, OpenArchive, PackArchive, OpenRecord, WriteRecord, Abort, migVars
<1> QED  BY <1>5, <1>6, <1>7 DEF Migrate

\* Both exports are numbered.
LEMMA ExportsNumbered ==
  ASSUME MigrationInv, LinesNumbered
  PROVE  Numbered(ExportLines) /\ Numbered(ExportV2)
<1>1. Numbered(ExportLines)
  <2> DEFINE m == Len(lines)
             e == ExportLines
  <2>1. m \in Nat /\ DOMAIN lines = 1..m
    BY LenProperties DEF LinesNumbered, Numbered
  <2> HIDE DEF m
  <2>2. /\ DOMAIN e = 1..m /\ e = [n \in 1..m |-> e[n]]
        /\ \A n \in 1..m : e[n].id = lines[n].id /\ e[n].sup = lines[n].sup
    BY <2>1 DEF ExportLines
  <2> HIDE DEF e
  <2>3. e \in Seq(ToSet(e))
    BY <2>1, <2>2, Listed
  <2>4. Numbered(e)
    BY <2>1, <2>2, <2>3 DEF LinesNumbered, Numbered
  <2> QED  BY <2>4 DEF e
<1>2. Numbered(ExportV2)
  <2> DEFINE m == Len(estate)
             e == ExportV2
  <2>1. m \in Nat /\ DOMAIN estate = 1..m
    BY EstateLength
  <2> HIDE DEF m
  <2>2. /\ DOMAIN e = 1..m /\ e = [n \in 1..m |-> e[n]]
        /\ \A n \in 1..m : e[n].id = estate[n].id /\ e[n].sup = estate[n].sup
    BY <2>1 DEF ExportV2
  <2> HIDE DEF e
  <2>3. e \in Seq(ToSet(e))
    BY <2>1, <2>2, Listed
  <2>4. Numbered(e)
    BY <2>1, <2>2, <2>3, EstateNumbered DEF Numbered
  <2> QED  BY <2>4 DEF e
<1> QED  BY <1>1, <1>2

\* The control points of the migration.
Points ==
  /\ schema \in {"absent", "cut", "v3"}
  /\ archive \in {"absent", "cut", "v2", "mixed"}
  /\ mig \in {"idle", "backup", "pack", "move", "stamp"}
  /\ imp \in {"none", "replay", "done"}

LEMMA PointsKeep ==
  ASSUME Points, Next \/ UNCHANGED vars
  PROVE  Points'
<1> USE DEF Points
<1>1. CASE MigrationStep
  BY <1>1 DEF MigrationStep, Migrate, Plan, OpenArchive, PackArchive, Move, OpenRecord,
              WriteRecord, Abort, Work, Goto, impVars
<1>2. CASE ImportV3 \/ ImportV2
  BY <1>2 DEF ImportV3, ImportV2, Start, migVars
<1>3. CASE ImportGoesOn
  BY <1>3 DEF ImportGoesOn, ImportStep, Replay, Skip, ReplayFails, Finish, Advance, migVars
<1>4. CASE UNCHANGED vars
  BY <1>4 DEF vars, migVars, impVars
<1> QED  BY <1>1, <1>2, <1>3, <1>4 DEF Next

TransferInv == MigrationInv /\ ImportInv /\ LinesNumbered /\ Progress /\ Points

LEMMA TransferHolds == Spec => []TransferInv
<1>1. TransferInit => LinesNumbered /\ Progress /\ Points
  <2> SUFFICES ASSUME TransferInit PROVE LinesNumbered /\ Progress /\ Points
    OBVIOUS
  <2>1. /\ lines = <<>> /\ rows = <<>> /\ order = <<>> /\ claims = {} /\ remap = <<>>
        /\ skipped = 0 /\ dangling = 0 /\ imp = "none"
    BY DEF TransferInit, Init, ImportInit
  <2>2. MaxLines \in Nat
    BY MigrationAssumption
  <2>3. LinesNumbered
    BY <2>1, <2>2, EmptyOnce DEF LinesNumbered
  <2>4. Cardinality(claims) = 0 /\ Ids(claims) = {}
    BY <2>1, FS_EmptySet DEF Ids
  <2>5. Progress
    BY <2>1, <2>4, EmptyOnce DEF Progress
  <2>6. Points
    BY <2>1 DEF Points, TransferInit, Init
  <2> QED  BY <2>3, <2>5, <2>6
<1>2. MigrationInv /\ ImportInv /\ LinesNumbered /\ Progress /\ Points /\ [Next]_vars
        => LinesNumbered' /\ Progress' /\ Points'
  <2> SUFFICES ASSUME MigrationInv, ImportInv, LinesNumbered, Progress, Points, [Next]_vars
               PROVE  LinesNumbered' /\ Progress' /\ Points'
    OBVIOUS
  <2>1. Migrate \/ Work \/ UNCHANGED migVars
    BY DEF Next, MigrationStep, ImportV3, ImportV2, ImportGoesOn, vars
  <2>2. ImportStep \/ (\E e : Numbered(e) /\ Start(e)) \/ UNCHANGED impVars
    BY ExportsNumbered DEF Next, MigrationStep, ImportV3, ImportV2, ImportGoesOn, vars
  <2> QED  BY <2>1, <2>2, LinesKeep, ProgressKeeps, PointsKeep
<1> QED  BY <1>1, <1>2, MigrationHolds, ImportHolds, PTL DEF Spec, TransferInv

\* The migration and the import keep to their types: what is written anew has an
\* id above every id that was read, and no more is counted than there are rows.
THEOREM TransferTypeCorrect == Spec => []TypeOK
<1>1. TransferInv => TypeOK
  <2> SUFFICES ASSUME TransferInv PROVE TypeOK
    OBVIOUS
  <2> DEFINE m == Len(rows)
             k == Cardinality(claims)
  <2>1. m \in Nat /\ k \in Nat /\ MaxId \in Nat
    BY LenProperties, FS_CardinalityType, TransferAssumption
       DEF TransferInv, Progress, Numbered, ImportInv
  <2>2. Len(order) \in Nat /\ \A n \in DOMAIN order : order[n] \in DOMAIN rows
    BY LenProperties DEF TransferInv, Progress, Once
  <2> HIDE DEF m, k
  <2>3. dangling \in 0..m /\ skipped \in 0..m /\ k <= m
    BY <2>1, <2>2 DEF TransferInv, Progress, m, k
  <2>4. MaxId + 1 .. MaxId + k \subseteq MaxId + 1 .. MaxId + m
    BY <2>1, <2>3
  <2>5. Ids(claims) \subseteq MaxId + 1 .. MaxId + m
    BY <2>4 DEF TransferInv, Progress, k
  <2>6. /\ \A n \in DOMAIN lines : lines[n].id \in 1..MaxId /\ lines[n].sup \in 0..MaxId
        /\ \A n \in DOMAIN rows : rows[n].id \in 1..MaxId /\ rows[n].sup \in 0..MaxId
    BY DEF TransferInv, LinesNumbered, Progress, Numbered
  <2>7. \A i \in DOMAIN remap : remap[i] \in Ids(claims)
    BY DEF TransferInv, ImportInv
  <2>8. estate \in Estates /\ next \in 1..Len(estate) + 1
    BY DEF TransferInv, MigrationInv
  <2>9. /\ schema \in {"absent", "cut", "v3"}
        /\ archive \in {"absent", "cut", "v2", "mixed"}
        /\ mig \in {"idle", "backup", "pack", "move", "stamp"}
        /\ imp \in {"none", "replay", "done"}
    BY DEF TransferInv, Points
  <2> QED  BY <2>2, <2>3, <2>5, <2>6, <2>7, <2>8, <2>9 DEF TypeOK, m
<1> QED  BY <1>1, TransferHolds, PTL

\* The sort of an import, of any rows that have no cycle: each row comes once,
\* after the row that it supersedes when the export has that one.
THEOREM SortIsTopological ==
  ASSUME NEW S, NEW e \in Seq(S), Acyclic(e)
  PROVE  /\ Once(e, TopoOrder(e)) /\ ToSet(TopoOrder(e)) = DOMAIN e
         /\ TargetsFirst(e, TopoOrder(e))
BY SortOnce, SortComplete

-----------------------------------------------------------------------------
(* What a full import copies *)

\* An import of distinct claims without a cycle, none of which was refused.
Clean == imp # "none" /\ skipped = 0 /\ Distinct(rows) /\ Acyclic(rows)

\* The rows that are written, and the claims that are made of them.
Replayed == DOMAIN rows \ ToSet(order)
ReplayedIds == {rows[n].id : n \in Replayed}
New(i) == IF i \in DOMAIN remap THEN remap[i] ELSE i
Copy(n) == [id |-> New(rows[n].id), type |-> "task", sup |-> New(rows[n].sup),
            by |-> normalize_legacy(rows[n].by)]

\* What a row supersedes is written before it, or to be written before it.
TargetsKnown ==
  /\ \A n \in Replayed : rows[n].sup \in Present(rows) => rows[n].sup \in ReplayedIds
  /\ \A i \in DOMAIN order : rows[order[i]].sup \in Present(rows) =>
       \/ rows[order[i]].sup \in ReplayedIds
       \/ \E j \in 1..(i - 1) : rows[order[j]].id = rows[order[i]].sup

\* What makes the copy complete: no id is taken twice, and each claim is the
\* copy of its row under the ids as they stand.
CopyInv ==
  Clean =>
    /\ dangling = 0
    /\ TargetsKnown
    /\ DOMAIN remap = ReplayedIds
    /\ \A i, j \in DOMAIN remap : remap[i] = remap[j] => i = j
    /\ claims = {Copy(n) : n \in Replayed}

\* Rows of distinct claims are told apart by their ids.
LEMMA DistinctIds ==
  ASSUME NEW S, NEW e \in Seq(S), Distinct(e)
  PROVE  \A m, n \in DOMAIN e : e[m].id = e[n].id => m = n
<1> DEFINE R == DOMAIN e
           f == [n \in R |-> e[n].id]
           T == Present(e)
<1>1. IsFiniteSet(R) /\ Cardinality(R) = Len(e)
  <2>1. Len(e) \in Nat /\ R = 1..Len(e)
    BY LenProperties
  <2> QED  BY <2>1, UpToCount
<1>2. f \in Surjection(R, T)
  BY DEF Surjection, Present
<1>3. Cardinality(R) = Cardinality(T)
  BY <1>1 DEF Distinct
<1>4. f \in Injection(R, T)
  <2> HIDE DEF R, T, f
  <2> QED  BY <1>1, <1>2, <1>3, FS_SurjSameCardinalityImpliesInj
<1> QED  BY <1>4 DEF Injection, IsInjective

\* As many are made of some rows as there are.
LEMMA SameNumber ==
  ASSUME NEW R, IsFiniteSet(R), NEW F, NEW T, T = {F[n] : n \in R},
         \A m, n \in R : F[m] = F[n] => m = n
  PROVE  Cardinality(T) = Cardinality(R)
<1> DEFINE f == [n \in R |-> F[n]]
<1>1. f \in Surjection(R, T)
  BY DEF Surjection
<1>2. f \in Injection(R, T)
  BY DEF Injection, IsInjective
<1> HIDE DEF f
<1> QED  BY <1>1, <1>2, FS_Surjection

LEMMA CopyStarts ==
  ASSUME ImportInv, Progress, NEW e, Numbered(e), Start(e)
  PROVE  CopyInv'
<1>1. /\ rows' = e /\ order' = TopoOrder(e) /\ claims' = {} /\ dangling' = 0 /\ remap' = <<>>
  BY DEF Start, Progress, ImportInv
<1>2. SUFFICES ASSUME Acyclic(e)
               PROVE  /\ TargetsKnown' /\ DOMAIN remap' = ReplayedIds'
                      /\ claims' = {Copy(n) : n \in Replayed}'
  <2>1. Clean' => Acyclic(e)
    BY <1>1 DEF Clean
  <2>2. DOMAIN remap' = {}
    BY <1>1
  <2> QED  BY <1>1, <1>2, <2>1, <2>2 DEF CopyInv
<1>3. TargetsFirst(e, TopoOrder(e)) /\ ToSet(TopoOrder(e)) = DOMAIN e
  BY <1>2, SortComplete DEF Numbered
<1>4. Replayed' = {}
  BY <1>1, <1>3 DEF Replayed
<1>5. ReplayedIds' = {}
  BY <1>4 DEF ReplayedIds
<1>6. TargetsKnown'
  BY <1>1, <1>3, <1>4 DEF TargetsKnown, TargetsFirst
<1>7. DOMAIN remap' = {}
  BY <1>1
<1>8. claims' = {Copy(n) : n \in Replayed}'
  BY <1>1, <1>4
<1> QED  BY <1>5, <1>6, <1>7, <1>8

\* A row that is replayed has its target written, and leaves the copies as they are.
LEMMA CopyGoesOn ==
  ASSUME ImportInv, Progress, CopyInv, Clean, Replay
  PROVE  CopyInv'
<1>0. PICK h, m, id, sup :
        h = Head(order) /\ m = Len(order) /\ id = rows[h].id /\ sup = rows[h].sup
  OBVIOUS
<1>1. /\ order # <<>> /\ order' = Tail(order) /\ rows' = rows
      /\ claims' = claims \cup {[id |-> NextId, type |-> "task", sup |-> Target(rows[h]),
                                 by |-> normalize_legacy(rows[h].by)]}
      /\ remap' = Mapping(id, NextId)
      /\ dangling' = dangling + IF Breaks(rows[h]) THEN 1 ELSE 0
  BY <1>0 DEF Replay, Count, Advance, Row
<1>2. /\ m \in Nat \ {0} /\ DOMAIN order = 1..m /\ DOMAIN order' = 1..(m - 1)
      /\ \A i \in 1..(m - 1) : order'[i] = order[i+1]
      /\ h = order[1] /\ h \in DOMAIN rows
      /\ ToSet(order) = ToSet(order') \cup {h} /\ h \notin ToSet(order')
  BY <1>0, <1>1, TailOnce DEF Progress
<1>3. /\ dangling = 0 /\ TargetsKnown /\ DOMAIN remap = ReplayedIds
      /\ \A i, j \in DOMAIN remap : remap[i] = remap[j] => i = j
      /\ claims = {Copy(n) : n \in Replayed}
  BY DEF CopyInv
<1>4. \A k, n \in DOMAIN rows : rows[k].id = rows[n].id => k = n
  BY DistinctIds DEF Clean, Progress, Numbered
<1>5. Replayed' = Replayed \cup {h} /\ h \notin Replayed
  BY <1>1, <1>2 DEF Replayed
<1>6. ReplayedIds' = ReplayedIds \cup {id} /\ id \notin ReplayedIds
  <2>1. ReplayedIds' = ReplayedIds \cup {id}
    BY <1>0, <1>1, <1>5 DEF ReplayedIds
  <2>2. id \notin ReplayedIds
    BY <1>0, <1>2, <1>4, <1>5 DEF ReplayedIds, Replayed
  <2> QED  BY <2>1, <2>2
<1>7. sup \in Present(rows) => sup \in ReplayedIds
  <2>1. 1 \in DOMAIN order /\ order[1] = h
    BY <1>2
  <2>2. ~ \E j \in 1..(1 - 1) : TRUE
    OBVIOUS
  <2> QED  BY <1>0, <1>3, <2>1, <2>2 DEF TargetsKnown
<1>8. /\ DOMAIN remap' = ReplayedIds' /\ remap'[id] = NextId
      /\ \A i \in DOMAIN remap : remap'[i] = remap[i]
  BY <1>1, <1>3, <1>6 DEF Mapping
<1>9. NextId \notin Ids(claims) /\ \A i \in DOMAIN remap : remap[i] \in Ids(claims)
  BY NextIdNew DEF ImportInv, Progress
<1>10. ASSUME NEW i \in DOMAIN remap', NEW j \in DOMAIN remap', remap'[i] = remap'[j]
       PROVE  i = j
  BY <1>3, <1>6, <1>8, <1>9, <1>10
<1>11. ~Breaks(rows[h])
  BY <1>0, <1>3, <1>7 DEF Breaks
<1>12. TargetsKnown'
  <2>1. \A n \in Replayed' : rows[n].sup \in Present(rows) => rows[n].sup \in ReplayedIds'
    BY <1>0, <1>3, <1>5, <1>6, <1>7 DEF TargetsKnown
  <2>2. ASSUME NEW i \in 1..(m - 1), rows[order'[i]].sup \in Present(rows),
               rows[order'[i]].sup \notin ReplayedIds'
        PROVE  \E j \in 1..(i - 1) : rows[order'[j]].id = rows[order'[i]].sup
    <3>1. i + 1 \in DOMAIN order /\ order[i+1] = order'[i]
      BY <1>2
    <3>2. PICK j \in 1..((i + 1) - 1) : rows[order[j]].id = rows[order[i+1]].sup
      BY <1>3, <1>6, <2>2, <3>1 DEF TargetsKnown
    <3>3. j # 1
      BY <1>0, <1>2, <1>6, <2>2, <3>1, <3>2
    <3>4. j - 1 \in 1..(i - 1) /\ j - 1 \in 1..(m - 1) /\ (j - 1) + 1 = j
      BY <1>2, <3>2, <3>3
    <3>5. order'[j - 1] = order[j]
      BY <1>2, <3>4
    <3> QED  BY <3>1, <3>2, <3>4, <3>5
  <2>3. Present(rows') = Present(rows)
    BY <1>1
  <2> QED  BY <1>1, <1>2, <2>1, <2>2, <2>3 DEF TargetsKnown
<1>13. ASSUME NEW n \in Replayed
       PROVE  Copy(n)' = Copy(n)
  <2>1. rows[n].id \in DOMAIN remap
    BY <1>3, <1>13 DEF ReplayedIds
  <2>2. rows[n].sup \in DOMAIN remap \/ rows[n].sup \notin DOMAIN remap'
    <3>1. rows[n].sup = id => rows[n].sup \in Present(rows)
      BY <1>0, <1>2 DEF Present
    <3> QED  BY <1>3, <1>6, <1>8, <1>13, <3>1 DEF TargetsKnown
  <2>3. New(rows[n].id)' = New(rows[n].id) /\ New(rows[n].sup)' = New(rows[n].sup)
    BY <1>1, <1>3, <1>6, <1>8, <2>1, <2>2 DEF New
  <2> QED  BY <1>1, <2>3 DEF Copy
<1>14. Copy(h)' = [id |-> NextId, type |-> "task", sup |-> Target(rows[h]),
                   by |-> normalize_legacy(rows[h].by)]
  <2>1. New(id)' = NextId
    BY <1>1, <1>6, <1>8 DEF New
  <2>2. New(sup)' = Target(rows[h])
    <3>1. CASE sup \in DOMAIN remap
      BY <1>1, <1>3, <1>6, <1>8, <1>0, <3>1 DEF New, Target
    <3>2. CASE sup \notin DOMAIN remap
      <4>1. sup \notin Present(rows)
        BY <1>3, <1>7, <3>2
      <4>2. sup # id
        BY <1>0, <1>2, <4>1 DEF Present
      <4> QED  BY <1>1, <1>3, <1>6, <1>8, <1>0, <3>2, <4>2 DEF New, Target
    <3> QED  BY <3>1, <3>2
  <2> QED  BY <1>0, <1>1, <2>1, <2>2 DEF Copy
<1>15. claims' = {Copy(n) : n \in Replayed}'
  BY Zenon, <1>1, <1>3, <1>5, <1>13, <1>14
<1>16. dangling' = 0
  BY <1>1, <1>3, <1>11
<1> QED  BY <1>8, <1>10, <1>12, <1>15, <1>16 DEF CopyInv

LEMMA CopyKeeps ==
  ASSUME ImportInv, Progress, CopyInv,
         ImportStep \/ (\E e : Numbered(e) /\ Start(e)) \/ UNCHANGED impVars
  PROVE  CopyInv'
<1>1. CASE Replay
  <2>1. CASE Clean
    BY <1>1, <2>1, CopyGoesOn
  <2>2. CASE ~Clean
    BY <1>1, <2>2 DEF CopyInv, Clean, Replay, Advance
  <2> QED  BY <2>1, <2>2
<1>2. CASE \E e : Numbered(e) /\ Start(e)
  BY <1>2, CopyStarts
<1>3. CASE Skip \/ ReplayFails
  <2>1. skipped' # 0
    BY <1>3 DEF Skip, ReplayFails, Progress
  <2> QED  BY <2>1 DEF CopyInv, Clean
<1>4. CASE Finish \/ UNCHANGED impVars
  <2>1. /\ UNCHANGED <<rows, order, remap, dangling, skipped, claims>>
        /\ imp' = imp \/ imp = "replay"
    BY <1>4 DEF Finish, impVars
  <2>2. Clean' => Clean
    BY <2>1 DEF Clean
  <2>3. /\ TargetsKnown' <=> TargetsKnown
        /\ ReplayedIds' = ReplayedIds
        /\ {Copy(n) : n \in Replayed}' = {Copy(n) : n \in Replayed}
    BY <2>1 DEF TargetsKnown, ReplayedIds, Replayed, Copy, New
  <2> QED  BY <2>1, <2>2, <2>3 DEF CopyInv
<1> QED  BY <1>1, <1>2, <1>3, <1>4 DEF ImportStep

\* The copy of all rows has the heads of the export, and its dangling edges.
LEMMA CopyComplete ==
  ASSUME ImportInv, Progress, CopyInv
  PROVE  CopiesHeads
<1> DEFINE R == DOMAIN rows
           X(n) == [id |-> rows[n].id, type |-> "task", sup |-> rows[n].sup]
           exported == {X(n) : n \in R}
           Live == {n \in R : \A m \in R : rows[m].sup # rows[n].id}
           Loose == {n \in R : rows[n].sup # 0 /\ rows[n].sup \notin Present(rows)}
<1>1. SUFFICES ASSUME imp = "done", Clean
               PROVE  /\ dangling = 0 /\ Cardinality(claims) = Len(rows)
                      /\ Cardinality(LiveHeads(claims, "task")) = Cardinality(LiveHeads(exported, "task"))
                      /\ Cardinality(Dangling(claims)) = Cardinality(Dangling(exported))
  BY DEF CopiesHeads, Clean
<1>2. Replayed = R
  <2>1. order = <<>> /\ \A i \in DOMAIN <<>> : FALSE
    BY <1>1, EmptySeq, LenProperties DEF Progress
  <2> QED  BY <2>1 DEF Replayed, ToSet
<1>3. /\ dangling = 0 /\ TargetsKnown /\ DOMAIN remap = Present(rows)
      /\ \A i, j \in DOMAIN remap : remap[i] = remap[j] => i = j
      /\ claims = {Copy(n) : n \in R}
  BY <1>1, <1>2 DEF CopyInv, ReplayedIds, Present
<1>4. \A k, n \in R : rows[k].id = rows[n].id => k = n
  BY <1>1, DistinctIds DEF Clean, Progress, Numbered
<1>5. IsFiniteSet(R) /\ Cardinality(R) = Len(rows)
  <2>1. Len(rows) \in Nat /\ R = 1..Len(rows)
    BY LenProperties DEF Progress, Numbered
  <2> QED  BY <2>1, UpToCount
<1>6. ASSUME NEW n \in R
      PROVE  /\ rows[n].id \in 1..MaxId /\ rows[n].sup \in 0..MaxId
             /\ rows[n].id \in DOMAIN remap
  BY <1>3 DEF Progress, Numbered, Present
\* New ids are above those of the export, and so tell what is copied.
<1>7. \A i \in DOMAIN remap : remap[i] \in Ids(claims) /\ remap[i] \notin 0..MaxId
  <2>1. MaxId \in Nat /\ Cardinality(claims) \in Nat
    BY TransferAssumption, FS_CardinalityType DEF ImportInv
  <2> QED  BY <2>1 DEF ImportInv, Progress
<1>8. ASSUME NEW n \in R
      PROVE  /\ Copy(n).id = remap[rows[n].id] /\ Copy(n).type = "task"
             /\ Copy(n).sup = IF rows[n].sup \in Present(rows) THEN remap[rows[n].sup] ELSE rows[n].sup
  BY <1>3, <1>6 DEF Copy, New
<1>9. Ids(claims) = {remap[rows[n].id] : n \in R}
  BY <1>3, <1>8 DEF Ids
<1>10. ASSUME NEW k \in R, NEW n \in R
       PROVE  /\ Copy(k).id = Copy(n).id => k = n
              /\ Copy(k).sup = Copy(n).id <=> rows[k].sup = rows[n].id
  <2>1. Copy(k).id = Copy(n).id => k = n
    BY <1>3, <1>4, <1>6, <1>8
  <2>2. CASE rows[k].sup \in Present(rows)
    <3>1. Copy(k).sup = remap[rows[k].sup] /\ Copy(n).id = remap[rows[n].id]
      BY <1>8, <2>2
    <3> QED  BY <1>3, <1>6, <2>1, <2>2, <3>1
  <2>3. CASE rows[k].sup \notin Present(rows)
    <3>1. Copy(k).sup = rows[k].sup /\ Copy(n).id = remap[rows[n].id]
      BY <1>8, <2>3
    <3>2. rows[k].sup # rows[n].id
      BY <2>3 DEF Present
    <3>3. rows[k].sup \in 0..MaxId /\ remap[rows[n].id] \notin 0..MaxId
      BY <1>6, <1>7
    <3> QED  BY <2>1, <3>1, <3>2, <3>3
  <2> QED  BY <2>1, <2>2, <2>3
<1>11. ASSUME NEW n \in R
       PROVE  Copy(n).sup = 0 <=> rows[n].sup = 0
  <2>1. 0 \in 0..MaxId
    BY TransferAssumption
  <2>2. rows[n].sup \in Present(rows) => rows[n].sup # 0
    BY <1>6 DEF Present
  <2> QED  BY <1>3, <1>7, <1>8, <2>1, <2>2
<1>12. ASSUME NEW n \in R
       PROVE  Copy(n).sup \in Ids(claims) <=> rows[n].sup \in Present(rows)
  BY <1>3, <1>6, <1>7, <1>8, <1>9
<1> DEFINE C == [n \in R |-> Copy(n)]
           E == [n \in R |-> X(n)]
<1>13. /\ \A k, n \in R : C[k] = C[n] => k = n
       /\ \A k, n \in R : E[k] = E[n] => k = n
  <2>1. \A n \in R : C[n] = Copy(n) /\ E[n] = X(n) /\ X(n).id = rows[n].id
    OBVIOUS
  <2> HIDE DEF C, E, X
  <2> QED  BY <1>4, <1>10, <2>1
<1>14. Cardinality(claims) = Len(rows)
  <2>1. claims = {C[n] : n \in R}
    BY <1>3
  <2> HIDE DEF C, R
  <2>2. Cardinality(claims) = Cardinality(R)
    BY <1>5, <1>13, <2>1, SameNumber
  <2> QED  BY <1>5, <2>2
<1>15. /\ LiveHeads(claims, "task") = {C[n] : n \in Live}
       /\ LiveHeads(exported, "task") = {E[n] : n \in Live}
  <2>1. LiveHeads(claims, "task") = {Copy(n) : n \in Live}
    BY <1>3, <1>6, <1>8, <1>10, <1>11 DEF LiveHeads, SupersededIds, Superseding, NoClaim
  <2>2. LiveHeads(exported, "task") = {X(n) : n \in Live}
    <3>1. \A n \in R : X(n).id = rows[n].id /\ X(n).type = "task" /\ X(n).sup = rows[n].sup
      OBVIOUS
    <3>2. \A n \in R : rows[n].id # 0
      BY <1>6
    <3> HIDE DEF X
    <3> QED  BY <3>1, <3>2 DEF LiveHeads, SupersededIds, Superseding, NoClaim
  <2> QED  BY <2>1, <2>2
<1>16. /\ Dangling(claims) = {C[n] : n \in Loose}
       /\ Dangling(exported) = {E[n] : n \in Loose}
  <2>1. Dangling(claims) = {Copy(n) : n \in Loose}
    BY <1>3, <1>11, <1>12 DEF Dangling, Superseding, NoClaim
  <2>2. \A n \in R : X(n).id = rows[n].id /\ X(n).sup = rows[n].sup
    OBVIOUS
  <2> HIDE DEF X
  <2>3. Ids(exported) = Present(rows)
    BY <2>2 DEF Ids, Present
  <2>4. Dangling(exported) = {X(n) : n \in Loose}
    BY <2>2, <2>3 DEF Dangling, Superseding, NoClaim
  <2> QED  BY <2>1, <2>4 DEF X
<1>17. IsFiniteSet(Live) /\ IsFiniteSet(Loose) /\ Live \subseteq R /\ Loose \subseteq R
  BY <1>5, FS_Subset
<1>18. /\ Cardinality(LiveHeads(claims, "task")) = Cardinality(Live)
       /\ Cardinality(LiveHeads(exported, "task")) = Cardinality(Live)
       /\ Cardinality(Dangling(claims)) = Cardinality(Loose)
       /\ Cardinality(Dangling(exported)) = Cardinality(Loose)
  <2> HIDE DEF C, E, Live, Loose, exported, R
  <2> QED  BY <1>13, <1>15, <1>16, <1>17, SameNumber
<1> QED  BY <1>3, <1>14, <1>18

\* An import that finishes without a row refused copies the export: as many
\* claims, as many of them live, and nothing dangles that did not.
THEOREM ImportCopiesHeads == Spec => []CopiesHeads
<1>1. TransferInit => CopyInv
  BY DEF TransferInit, ImportInit, CopyInv, Clean
<1>2. TransferInv /\ CopyInv /\ [Next]_vars => CopyInv'
  <2> SUFFICES ASSUME TransferInv, CopyInv, [Next]_vars PROVE CopyInv'
    OBVIOUS
  <2>1. ImportStep \/ (\E e : Numbered(e) /\ Start(e)) \/ UNCHANGED impVars
    BY ExportsNumbered
       DEF Next, MigrationStep, ImportV3, ImportV2, ImportGoesOn, vars, TransferInv
  <2> QED  BY <2>1, CopyKeeps DEF TransferInv
<1>3. TransferInv /\ CopyInv => CopiesHeads
  BY CopyComplete DEF TransferInv
<1> QED  BY <1>1, <1>2, <1>3, TransferHolds, PTL DEF Spec
=============================================================================
