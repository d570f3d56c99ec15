---------------------------- MODULE EstatesProofs ----------------------------
(***************************************************************************)
(* Proofs about Estates for any directories, processes and commands.       *)
(***************************************************************************)
EXTENDS Estates, Prefixes

-----------------------------------------------------------------------------
(* The inductive invariant *)

Run == [dir : Dir, cwd : Dir, given : Dir \cup {NoDir}, known : SUBSET Dir]

Types ==
  /\ estates \subseteq Dir /\ legacy \subseteq Dir
  /\ stage \in [Shell -> {"layer", "handler"}]
  /\ at \in [Shell -> Over \cup {"look", "walk", "bare", "act"}]
  /\ call \in [Shell -> Call]
  /\ cur \in [Shell -> Dir \cup {NoDir}]
  /\ checked \in [Shell -> Dir \cup {NoDir}] /\ target \in [Shell -> Dir \cup {NoDir}]
  /\ runs \subseteq Run
  /\ before \in [Shell -> [estates : SUBSET Dir, runs : SUBSET Run]]

\* Estates are never removed, so that what was found is there, and what was
\* there when a process began.
Lasting ==
  /\ \A p \in Shell :
       /\ {checked[p], target[p]} \subseteq estates \cup {NoDir}
       /\ before[p].estates \subseteq estates /\ before[p].runs \subseteq runs
       /\ at[p] = "act" => target[p] # NoDir
       /\ \A r \in before[p].runs : r.dir \in before[p].estates
  /\ \A r \in runs : r.dir \in estates

\* The estates that a search must not pass: those that were there when its
\* process began, and what the layer has found.
Sought(p) == Above(call[p].cwd) \cap (before[p].estates \cup {checked[p]})

\* The layer comes first, and has found nothing yet.
LayerFirst(p) ==
  stage[p] = "layer" =>
    checked[p] = NoDir /\ call[p].kind \in LayerKinds /\ at[p] # "act"

\* What a walk has passed was none of them.
Walking(p) ==
  at[p] = "walk" =>
    /\ Only(p) = NoDir
    /\ cur[p] \in Above(call[p].cwd)
    /\ Sought(p) \subseteq Above(cur[p])

\* Whoever creates an estate has been told where, or has found none.
Bare(p) ==
  at[p] = "bare" =>
    \/ call[p].kind = "init"
    \/ Discovers(p) /\ Given(call[p]) = NoDir /\ Sought(p) = {}

\* What the layer found is the nearest of the estates that were there when the
\* process began, or a nearer one.
LayerDone(p) ==
  LET c == call[p] IN
  stage[p] = "handler" /\ c.kind \in LayerKinds /\ at[p] \notin Over =>
    IF Given(c) = NoDir
    THEN IF checked[p] = NoDir THEN Above(c.cwd) \cap before[p].estates = {}
         ELSE /\ checked[p] \in Above(c.cwd)
              /\ Above(c.cwd) \cap before[p].estates \subseteq Above(checked[p])
    ELSE /\ checked[p] \in {NoDir, Given(c)}
         /\ checked[p] = NoDir => Given(c) \notin before[p].estates

\* The handler found the same estate or a newer one that is nearer.
SameEstate(p) ==
  LET c == call[p] IN
    /\ at[p] = "act" /\ c.kind \in LayerKinds
    /\ c.kind = "store" \/ Given(c) = NoDir
    => \/ target[p] = checked[p]
       \/ /\ target[p] \notin before[p].estates
          /\ checked[p] = NoDir \/ IsStrictPrefix(checked[p], target[p])

\* A result was left in the given directory, or, for want of an estate there, in
\* the nearest above or in a newer one that is nearer.
Placed(dir, cwd, given, known) ==
  \/ dir = given
  \/ /\ given \notin known
     /\ dir \in Above(cwd) /\ Above(cwd) \cap known \subseteq Above(dir)

\* What jig runs has such a place, and a walk for it is for want of an estate in
\* the given directory.
JigPlaced(p) ==
  LET c == call[p] IN
    /\ at[p] = "walk" /\ stage[p] = "handler" /\ c.kind \in {"jig", "aggregate"}
         => Given(c) \notin before[p].estates
    /\ at[p] = "act" /\ c.kind = "jig"
         => Placed(target[p], c.cwd, Given(c), before[p].estates)

\* aggregate has found the place of each run that had ended, or a newer one.
RunsFound(p) ==
  LET c == call[p] IN
  at[p] \in {"act", "ok"} /\ c.kind = "aggregate" =>
    \A r \in before[p].runs : r.cwd = c.cwd /\ r.given = Given(c) =>
      \/ target[p] = r.dir
      \/ target[p] \in estates \ r.known

Searching(p) ==
  /\ LayerFirst(p) /\ Walking(p) /\ Bare(p) /\ LayerDone(p) /\ SameEstate(p)
  /\ JigPlaced(p) /\ RunsFound(p)

IInv ==
  /\ Types /\ Lasting
  /\ \A r \in runs : Placed(r.dir, r.cwd, r.given, r.known)
  /\ \A p \in Shell : Searching(p)

-----------------------------------------------------------------------------
(* Directories above one another *)

LEMMA FrontIsAbove ==
  ASSUME NEW d \in Dir, d # <<>>
  PROVE  /\ Front(d) \in Dir /\ IsPrefix(Front(d), d) /\ Len(Front(d)) = Len(d) - 1
         /\ Len(d) \in Nat
<1>1. d \in Seq(Name) /\ Front(d) \in Dir /\ Front(d) \in Seq(Name)
  BY EstatesAssumption
<1>2. Len(d) \in Nat /\ Len(d) # 0
  BY <1>1, EmptySeq, LenProperties
<1> DEFINE n == Len(d)
           f == Front(d)
<1>3. n \in Nat /\ n # 0
  BY <1>2
<1>4. /\ f = SubSeq(d, 1, n - 1)
      /\ \A i \in 1..(n - 1) : i \in 1..n
  <2>1. f = SubSeq(d, 1, n - 1)
    BY DEF Front
  <2> HIDE DEF f, n
  <2> QED  BY <2>1, <1>3
<1>5. Len(f) = n - 1 /\ \A i \in 1..(n - 1) : f[i] = d[i]
  <2> DEFINE m == n - 1
  <2>1. /\ m \in Int /\ 1 \in Int /\ m - 1 + 1 = m /\ (~(1 <= m) => m = 0)
        /\ \A i \in 1..m : i \in 1..n /\ 1 + i - 1 = i
    <3> HIDE DEF n
    <3> QED  BY <1>3
  <2>2. \A i \in 1..m : d[i] \in Name
    <3>1. \A i \in 1..n : d[i] \in Name
      BY <1>1, LenProperties
    <3> HIDE DEF m, n
    <3> QED  BY <2>1, <3>1
  <2>3. Len(SubSeq(d, 1, m)) = m /\ \A i \in 1..m : SubSeq(d, 1, m)[i] = d[i]
    <3> HIDE DEF m, n
    <3>1. /\ Len(SubSeq(d, 1, m)) = IF 1 <= m THEN m - 1 + 1 ELSE 0
          /\ \A i \in 1..(m - 1 + 1) : SubSeq(d, 1, m)[i] = d[1 + i - 1]
      BY <2>1, <2>2, SubSeqProperties
    <3> QED  BY <2>1, <3>1
  <2> QED  BY <1>4, <2>3
<1>6. IsPrefix(f, d)
  <2>1. Len(f) <= Len(d)
    <3>1. Len(d) = n
      OBVIOUS
    <3> HIDE DEF n, f
    <3> QED  BY <1>3, <1>5, <3>1
  <2>2. f \in Seq(Name)
    BY <1>1
  <2> HIDE DEF f
  <2> QED  BY <1>1, <1>5, <2>1, <2>2, PrefixElements
<1> QED  BY <1>1, <1>2, <1>5, <1>6

\* A directory is above itself.
LEMMA AboveSelf ==
  ASSUME NEW d \in Dir
  PROVE  d \in Above(d) /\ Above(d) \subseteq Dir
BY PrefixReflexive, EstatesAssumption DEF Above

\* What is above a directory is that, or above the next.
LEMMA AboveFront ==
  ASSUME NEW d \in Dir, d # <<>>
  PROVE  /\ Front(d) \in Dir
         /\ \A e \in Above(d) : e = d \/ e \in Above(Front(d))
<1>1. Front(d) \in Dir /\ IsPrefix(Front(d), d) /\ Len(Front(d)) = Len(d) - 1 /\ Len(d) \in Nat
  BY FrontIsAbove
<1>2. ASSUME NEW e \in Above(d), e # d  PROVE e \in Above(Front(d))
  <2>1. e \in Dir /\ IsPrefix(e, d)
    BY DEF Above
  <2>2. e \in Seq(Name) /\ d \in Seq(Name) /\ Front(d) \in Seq(Name)
    BY <1>1, <2>1, EstatesAssumption
  <2>3. Len(e) \in Nat /\ Len(e) <= Len(d) /\ ~(Len(d) <= Len(e))
    BY <1>2, <2>1, <2>2, PrefixLength, PrefixEqual
  <2> DEFINE a == Len(e)
             b == Len(d)
             c == Len(Front(d))
  <2>4. a <= c
    <3>1. a \in Nat /\ b \in Nat /\ c = b - 1 /\ a <= b /\ ~(b <= a)
      BY <1>1, <2>3
    <3> HIDE DEF a, b, c
    <3> QED  BY <3>1
  <2>5. IsPrefix(e, Front(d))
    BY <1>1, <2>1, <2>2, <2>4, PrefixComparable
  <2> QED  BY <2>1, <2>5 DEF Above
<1> QED  BY <1>1, <1>2

LEMMA AboveTransitive ==
  ASSUME NEW d \in Dir, NEW e \in Above(d)
  PROVE  Above(e) \subseteq Above(d)
<1> SUFFICES ASSUME NEW f \in Above(e)  PROVE f \in Above(d)
  OBVIOUS
<1>1. f \in Dir /\ e \in Dir /\ IsPrefix(f, e) /\ IsPrefix(e, d)
  BY DEF Above
<1>2. f \in Seq(Name) /\ e \in Seq(Name) /\ d \in Seq(Name)
  BY <1>1, EstatesAssumption
<1> QED  BY <1>1, <1>2, PrefixTransitive DEF Above

\* Of two directories only one can be above the other.
LEMMA AboveOneWay ==
  ASSUME NEW d \in Dir, NEW e \in Above(d), d \in Above(e)
  PROVE  d = e
<1>1. e \in Dir /\ IsPrefix(e, d) /\ IsPrefix(d, e)
  BY DEF Above
<1>2. e \in Seq(Name) /\ d \in Seq(Name)
  BY <1>1, EstatesAssumption
<1> QED  BY <1>1, <1>2, PrefixLength, PrefixEqual

\* Above the root is the root.
LEMMA AboveRoot == Above(<<>>) \subseteq {<<>>}
<1> SUFFICES ASSUME NEW e \in Above(<<>>)  PROVE e = <<>>
  OBVIOUS
<1>1. e \in Dir /\ IsPrefix(e, <<>>)
  BY DEF Above
<1>2. e \in Seq(Name)
  BY <1>1, EstatesAssumption
<1> QED  BY <1>1, <1>2, PrefixEmpty

LEMMA AboveStrict ==
  ASSUME NEW d, NEW e \in Above(d), e # d
  PROVE  IsStrictPrefix(e, d)
BY DEF Above, IsStrictPrefix

-----------------------------------------------------------------------------
(* Finding and not finding *)

LEMMA Calls ==
  ASSUME Types, NEW p \in Shell
  PROVE  /\ call[p] \in Call /\ call[p].kind \in Kinds /\ call[p].cwd \in Dir
         /\ Given(call[p]) \in Dir \cup {NoDir} /\ call[p].flag \in Dir \cup {NoDir}
         /\ InitRoot(p) \in Dir
         /\ NoDir \notin Dir
<1>1. call[p] \in Call
  BY DEF Types
<1>2. Given(call[p]) \in Dir \cup {NoDir}
  BY <1>1, EstatesAssumption DEF Given
<1> QED  BY <1>1, <1>2, EstatesAssumption DEF InitRoot

\* What a search may find: what it looks at, or an estate above the working
\* directory that none of those sought is nearer than.
Findable(p, d) ==
  LET c == call[p]
      jigs == stage[p] = "handler" /\ c.kind \in {"jig", "aggregate"}
  IN  \/ Only(p) = d
      \/ jigs /\ d = Given(c)
      \/ /\ Only(p) = NoDir /\ d \in Above(c.cwd) /\ Sought(p) \subseteq Above(d)
         /\ jigs => Given(c) \notin before[p].estates

\* What the handler of a command finds, when nothing is given or the command is
\* one of the store's, is what the layer found, or is newer and nearer.
LEMMA FoundSame ==
  ASSUME Types, NEW p \in Shell, NEW d \in Dir, stage[p] = "handler", at[p] \notin Over,
         Searching(p), Findable(p, d), call[p].kind \in LayerKinds,
         call[p].kind = "store" \/ Given(call[p]) = NoDir
  PROVE  \/ d = checked[p]
         \/ /\ d \notin before[p].estates
            /\ checked[p] = NoDir \/ IsStrictPrefix(checked[p], d)
<1> DEFINE c == call[p]
<1>1. /\ c.kind \in Kinds /\ c.cwd \in Dir /\ NoDir \notin Dir
      /\ Given(c) \in Dir \cup {NoDir} /\ checked[p] \in Dir \cup {NoDir}
  BY Calls DEF Types
<1>2. IF Given(c) = NoDir
      THEN IF checked[p] = NoDir THEN Above(c.cwd) \cap before[p].estates = {}
           ELSE /\ checked[p] \in Above(c.cwd)
                /\ Above(c.cwd) \cap before[p].estates \subseteq Above(checked[p])
      ELSE /\ checked[p] \in {NoDir, Given(c)}
           /\ checked[p] = NoDir => Given(c) \notin before[p].estates
  BY DEF Searching, LayerDone
<1>3. CASE Given(c) # NoDir
  <2>1. Only(p) = Given(c) /\ c.kind = "store"
    BY <1>3 DEF Only, Discovers
  <2>2. d = Given(c)
    BY <1>1, <1>3, <2>1 DEF Findable
  <2> QED  BY <1>2, <1>3, <2>2
<1>4. CASE Given(c) = NoDir
  <2>1. d \in Above(c.cwd) /\ Sought(p) \subseteq Above(d)
    <3>1. CASE c.kind = "migrate"
      <4>1. Only(p) = c.cwd
        BY <3>1 DEF Only, Discovers
      <4>2. d = c.cwd
        BY <1>1, <3>1, <4>1 DEF Findable
      <4> QED  BY <1>1, <4>2, AboveSelf DEF Sought
    <3>2. CASE c.kind # "migrate"
      <4>1. c.flag = NoDir
        BY <1>4 DEF Given
      <4>2. Only(p) = NoDir
        BY <1>4, <3>2, <4>1 DEF Only, Discovers, LayerKinds
      <4> QED  BY <1>1, <1>4, <4>2 DEF Findable
    <3> QED  BY <3>1, <3>2
  <2>2. CASE checked[p] = NoDir
    BY <1>2, <1>4, <2>1, <2>2
  <2>3. CASE checked[p] # NoDir
    <3>1. checked[p] \in Above(d)
      BY <1>2, <1>4, <2>1, <2>3 DEF Sought
    <3>2. ASSUME d \in before[p].estates  PROVE d = checked[p]
      <4>1. d \in Above(checked[p])
        BY <1>2, <1>4, <2>1, <2>3, <3>2
      <4> QED  BY <1>1, <3>1, <4>1, AboveOneWay
    <3> QED  BY <3>1, <3>2, AboveStrict
  <2> QED  BY <2>2, <2>3
<1> QED  BY <1>3, <1>4

\* What jig and aggregate find has the place of a result.
LEMMA FoundPlace ==
  ASSUME Types, NEW p \in Shell, NEW d \in Dir, stage[p] = "handler",
         call[p].kind \in {"jig", "aggregate"}, Findable(p, d)
  PROVE  \/ d = Given(call[p])
         \/ /\ Given(call[p]) \notin before[p].estates
            /\ d \in Above(call[p].cwd) /\ Sought(p) \subseteq Above(d)
<1>1. Only(p) = NoDir
  BY DEF Only, Discovers
<1>2. NoDir \notin Dir
  BY EstatesAssumption
<1> QED  BY <1>1, <1>2 DEF Findable

\* Wherever a run had left its result, aggregate finds that place or a newer one.
LEMMA FoundRuns ==
  ASSUME Types, Lasting, NEW p \in Shell, NEW d \in Dir, stage[p] = "handler",
         call[p].kind = "aggregate", Findable(p, d),
         NEW r \in before[p].runs, Placed(r.dir, r.cwd, r.given, r.known),
         r.cwd = call[p].cwd, r.given = Given(call[p])
  PROVE  d = r.dir \/ d \notin r.known
<1>1. r.dir \in before[p].estates /\ call[p].cwd \in Dir
  BY Calls DEF Lasting
<1>2. CASE d = Given(call[p])
  BY <1>2 DEF Placed
<1>3. CASE /\ Given(call[p]) \notin before[p].estates
           /\ d \in Above(call[p].cwd) /\ Sought(p) \subseteq Above(d)
  <2>1. r.dir \in Above(call[p].cwd) /\ Above(call[p].cwd) \cap r.known \subseteq Above(r.dir)
    BY <1>1, <1>3 DEF Placed
  <2>2. r.dir \in Above(d)
    BY <1>1, <1>3, <2>1 DEF Sought
  <2>3. ASSUME d \in r.known  PROVE d = r.dir
    <3>1. d \in Above(r.dir)
      BY <1>3, <2>1, <2>3
    <3> QED  BY <2>2, <3>1, AboveOneWay
  <2> QED  BY <2>3
<1> QED  BY <1>2, <1>3, FoundPlace

\* What the layer may find is what LayerDone says of it.
LEMMA FoundFirst ==
  ASSUME Types, NEW p \in Shell, NEW d \in Dir, stage[p] = "layer", Findable(p, d)
  PROVE  IF Given(call[p]) = NoDir
         THEN d \in Above(call[p].cwd) /\ Above(call[p].cwd) \cap before[p].estates \subseteq Above(d)
         ELSE d = Given(call[p])
<1>1. Only(p) = Given(call[p]) /\ NoDir \notin Dir
  BY Calls DEF Only, Discovers
<1> QED  BY <1>1 DEF Findable, Sought

\* What a step of p leaves to the other processes.
Spares(p) ==
  /\ estates \subseteq estates' /\ runs \subseteq runs'
  /\ \A q \in Shell \ {p} :
       /\ stage'[q] = stage[q] /\ at'[q] = at[q] /\ call'[q] = call[q] /\ cur'[q] = cur[q]
       /\ checked'[q] = checked[q] /\ target'[q] = target[q] /\ before'[q] = before[q]

LEMMA OthersSearch ==
  ASSUME NEW p \in Shell, Spares(p), NEW q \in Shell \ {p}, Searching(q)
  PROVE  Searching(q)'
BY DEF Spares, Searching, LayerFirst, Walking, Bare, LayerDone, SameEstate, JigPlaced, RunsFound,
       Only, Discovers, Sought, InitRoot, Above, Placed

-----------------------------------------------------------------------------
(* Every step keeps the invariant *)

\* A step of p that makes no result: it is left to show what it does to p.
LEMMA StepOfOne ==
  ASSUME IInv, NEW p \in Shell, Spares(p), Types', Lasting', UNCHANGED runs, Searching(p)'
  PROVE  IInv'
<1>1. ASSUME NEW q \in Shell  PROVE Searching(q)'
  BY OthersSearch DEF IInv
<1>2. \A r \in runs' : Placed(r.dir, r.cwd, r.given, r.known)'
  BY DEF IInv, Placed, Above
<1> QED  BY <1>1, <1>2 DEF IInv

\* The search has found d.
LEMMA FoundKeeps ==
  ASSUME IInv, NEW p \in Shell, NEW d \in Dir, FoundIn(p, d), Findable(p, d), at[p] \notin Over,
         stage[p] = "layer" => call[p].kind # "init",
         estates \subseteq estates', estates' \subseteq Dir, d \in estates',
         cur' \in [Shell -> Dir \cup {NoDir}], \A q \in Shell \ {p} : cur'[q] = cur[q],
         UNCHANGED <<legacy, call, runs, before>>
  PROVE  IInv'
<1> USE DEF IInv
<1>1. Types'
  BY DEF Types, FoundIn, MoveTo, Over
<1>2. Spares(p)
  BY DEF Spares, Types, FoundIn, MoveTo
<1>3. Lasting'
  BY EstatesAssumption DEF Lasting, Types, FoundIn, MoveTo
<1>4. CASE stage[p] = "layer"
  <2>1. stage'[p] = "handler" /\ at'[p] = "look" /\ checked'[p] = d /\ d # NoDir
    BY <1>4, EstatesAssumption DEF FoundIn, MoveTo, Types
  <2>2. LayerDone(p)'
    BY <1>4, <2>1, FoundFirst DEF LayerDone, Above, Given
  <2>3. LayerFirst(p)' /\ Walking(p)' /\ Bare(p)' /\ SameEstate(p)' /\ JigPlaced(p)' /\ RunsFound(p)'
    BY <2>1 DEF LayerFirst, Walking, Bare, SameEstate, JigPlaced, RunsFound
  <2>4. Searching(p)'
    BY <2>2, <2>3 DEF Searching
  <2> QED  BY <1>1, <1>2, <1>3, <2>4, StepOfOne
<1>5. CASE stage[p] = "handler"
  <2>1. stage'[p] = "handler" /\ at'[p] = "act" /\ checked'[p] = checked[p] /\ target'[p] = d
    BY <1>5 DEF FoundIn, MoveTo, Types
  <2>2. LayerFirst(p)' /\ Walking(p)' /\ Bare(p)'
    BY <2>1 DEF LayerFirst, Walking, Bare
  <2>3. LayerDone(p)'
    BY <1>5, <2>1 DEF Searching, LayerDone, Over, Above, Given
  <2>4. SameEstate(p)'
    BY <1>5, <2>1, FoundSame DEF SameEstate, Given
  <2>5. JigPlaced(p)'
    BY <1>5, <2>1, FoundPlace DEF JigPlaced, Placed, Above, Given, Sought
  <2>6. RunsFound(p)'
    <3> SUFFICES ASSUME call[p].kind = "aggregate", NEW r \in before[p].runs,
                        r.cwd = call[p].cwd, r.given = Given(call[p])
                 PROVE  d = r.dir \/ d \in estates' \ r.known
      BY <2>1 DEF RunsFound, Given
    <3>1. Placed(r.dir, r.cwd, r.given, r.known)
      BY DEF Lasting
    <3> QED  BY <1>5, <3>1, FoundRuns
  <2>7. Searching(p)'
    BY <2>2, <2>3, <2>4, <2>5, <2>6 DEF Searching
  <2> QED  BY <1>1, <1>2, <1>3, <2>7, StepOfOne
<1> QED  BY <1>4, <1>5 DEF Types

\* The search has found nothing: of the layer, there was nothing to find; and
\* aggregate gives up only when there is no result to show.
LEMMA NotFoundKeeps ==
  ASSUME IInv, NEW p \in Shell, NotFound(p), at[p] \notin Over,
         stage[p] = "layer" =>
           IF Given(call[p]) = NoDir THEN Above(call[p].cwd) \cap before[p].estates = {}
           ELSE Given(call[p]) \notin before[p].estates,
         stage[p] = "handler" /\ call[p].kind = "aggregate" =>
           Given(call[p]) \notin before[p].estates /\ Sought(p) = {},
         UNCHANGED <<estates, legacy, call, cur, runs, before>>
  PROVE  IInv'
<1> USE DEF IInv
<1>1. Types'
  BY DEF Types, NotFound, MoveTo, Over
<1>2. Spares(p)
  BY DEF Spares, Types, NotFound, MoveTo
<1>3. Lasting'
  BY DEF Lasting, Types, NotFound, MoveTo
<1>4. /\ stage'[p] = "handler" /\ checked'[p] = checked[p] /\ target'[p] = target[p]
      /\ at'[p] = IF stage[p] = "layer" THEN "look"
                  ELSE IF call[p].kind = "aggregate" THEN "ok" ELSE "failed"
  BY DEF NotFound, MoveTo, Types
<1>5. LayerFirst(p)' /\ Walking(p)' /\ Bare(p)' /\ SameEstate(p)' /\ JigPlaced(p)'
  BY <1>4 DEF LayerFirst, Walking, Bare, SameEstate, JigPlaced
<1>6. LayerDone(p)'
  <2>1. CASE stage[p] = "layer"
    BY <1>4, <2>1 DEF Searching, LayerFirst, LayerDone, Above, Given
  <2>2. CASE stage[p] # "layer"
    BY <1>4, <2>2 DEF LayerDone, LayerKinds, Over
  <2> QED  BY <2>1, <2>2
<1>7. RunsFound(p)'
  <2>1. CASE stage[p] = "layer"
    BY <1>4, <2>1 DEF RunsFound
  <2>2. CASE stage[p] = "handler"
    <3> SUFFICES ASSUME call[p].kind = "aggregate", NEW r \in before[p].runs,
                        r.cwd = call[p].cwd, r.given = Given(call[p])
                 PROVE  FALSE
      BY <1>4, <2>2 DEF RunsFound, Given
    <3>1. Placed(r.dir, r.cwd, r.given, r.known) /\ r.dir \in before[p].estates
      BY DEF Lasting
    <3>2. Sought(p) = {} /\ r.dir # r.given
      BY <2>2, <3>1
    <3> QED  BY <3>1, <3>2 DEF Placed, Sought
  <2> QED  BY <2>1, <2>2 DEF Types
<1>8. Searching(p)'
  BY <1>5, <1>6, <1>7 DEF Searching
<1> QED  BY <1>1, <1>2, <1>3, <1>8, StepOfOne

\* The search goes on: it looks further up, or gets ready to create an estate.
LEMMA GoOnKeeps ==
  ASSUME IInv, NEW p \in Shell, NEW to \in {"walk", "bare"}, MoveTo(p, to),
         at[p] \in {"look", "walk"},
         cur' \in [Shell -> Dir \cup {NoDir}], \A q \in Shell \ {p} : cur'[q] = cur[q],
         UNCHANGED <<estates, legacy, stage, call, checked, target, runs, before>>,
         to = "walk" => /\ Only(p) = NoDir /\ cur'[p] \in Above(call[p].cwd)
                        /\ Sought(p) \subseteq Above(cur'[p])
                        /\ stage[p] = "handler" /\ call[p].kind \in {"jig", "aggregate"}
                             => Given(call[p]) \notin before[p].estates,
         to = "bare" => \/ call[p].kind = "init"
                        \/ Discovers(p) /\ Given(call[p]) = NoDir /\ Sought(p) = {}
  PROVE  IInv'
<1> USE DEF IInv
<1>1. Types'
  BY DEF Types, MoveTo
<1>2. Spares(p)
  BY DEF Spares, Types, MoveTo
<1>3. Lasting'
  BY DEF Lasting, Types, MoveTo
<1>4. at'[p] = to
  BY DEF MoveTo, Types
<1>5. /\ Sought(p)' = Sought(p) /\ Only(p)' = Only(p) /\ Discovers(p)' = Discovers(p)
      /\ Given(call[p])' = Given(call[p]) /\ \A d : Above(d)' = Above(d)
  BY DEF Sought, Only, Discovers, Given, Above, InitRoot
<1>6. LayerFirst(p)' /\ LayerDone(p)' /\ SameEstate(p)' /\ RunsFound(p)'
  BY <1>4, <1>5 DEF Searching, LayerFirst, LayerDone, SameEstate, RunsFound, Over
<1>7. Walking(p)'
  BY <1>4, <1>5 DEF Walking, Above
<1>8. Bare(p)' /\ JigPlaced(p)'
  BY <1>4, <1>5 DEF Bare, JigPlaced
<1>9. Searching(p)'
  BY <1>6, <1>7, <1>8 DEF Searching
<1> QED  BY <1>1, <1>2, <1>3, <1>9, StepOfOne

\* The root, when it is no estate, ends a walk that found nothing.
LEMMA RootReached ==
  ASSUME IInv, NEW p \in Shell, at[p] = "walk", cur[p] = <<>>, cur[p] \notin estates
  PROVE  Sought(p) = {}
<1>1. Sought(p) \subseteq Above(<<>>)
  BY DEF IInv, Searching, Walking
<1>2. Sought(p) \subseteq estates
  BY EstatesAssumption DEF Sought, IInv, Lasting, Above
<1> QED  BY <1>1, <1>2, AboveRoot

LEMMA LookThereKeeps ==
  ASSUME IInv, NEW p \in Shell, LookThere(p)
  PROVE  IInv'
<1>1. /\ at[p] = "look" /\ Only(p) # NoDir
      /\ UNCHANGED <<cur, estates, legacy, call, runs, before>>
  BY DEF LookThere, Rest
<1>2. CASE Only(p) \in estates /\ FoundIn(p, Only(p))
  <2>1. Only(p) \in Dir /\ Findable(p, Only(p))
    BY <1>2 DEF IInv, Types, Findable
  <2> QED  BY <1>1, <1>2, <2>1, FoundKeeps DEF IInv, Types, Over, Searching, LayerFirst, LayerKinds
<1>3. CASE Only(p) \notin estates /\ call[p].kind # "init" /\ NotFound(p)
  <2>1. stage[p] = "layer" => Only(p) = Given(call[p])
    BY DEF Only, Discovers
  <2>2. before[p].estates \subseteq estates
    BY DEF IInv, Lasting
  <2>3. stage[p] = "handler" => call[p].kind # "aggregate"
    BY <1>1 DEF Only, Discovers
  <2> QED  BY <1>1, <1>3, <2>1, <2>2, <2>3, NotFoundKeeps DEF Over
<1>4. CASE /\ Only(p) \notin estates /\ call[p].kind = "init"
           /\ MoveTo(p, "bare") /\ UNCHANGED <<stage, checked, target>>
  BY <1>1, <1>4, GoOnKeeps DEF IInv, Types
<1> QED  BY <1>2, <1>3, <1>4 DEF LookThere

LEMMA LookFirstKeeps ==
  ASSUME IInv, NEW p \in Shell, LookFirst(p)
  PROVE  IInv'
<1> DEFINE jigs == stage[p] = "handler" /\ call[p].kind \in {"jig", "aggregate"}
<1>1. /\ at[p] = "look" /\ Only(p) = NoDir
      /\ UNCHANGED <<estates, legacy, call, runs, before>>
  BY DEF LookFirst, Rest
<1>2. CASE jigs /\ Given(call[p]) \in estates
  <2>1. FoundIn(p, Given(call[p])) /\ UNCHANGED cur
    BY <1>2 DEF LookFirst
  <2>2. Given(call[p]) \in Dir /\ Findable(p, Given(call[p]))
    BY <1>2 DEF IInv, Types, Findable
  <2> QED  BY <1>1, <1>2, <2>1, <2>2, FoundKeeps DEF IInv, Types, Over
<1>3. CASE ~(jigs /\ Given(call[p]) \in estates)
  <2>1. StartWalk(p)
    BY <1>3 DEF LookFirst
  <2>2. call[p].cwd \in Dir
    BY Calls DEF IInv
  <2>3. cur'[p] = call[p].cwd
    BY <2>1 DEF StartWalk, IInv, Types
  <2>4. cur' \in [Shell -> Dir \cup {NoDir}] /\ \A q \in Shell \ {p} : cur'[q] = cur[q]
    BY <2>1, <2>2 DEF StartWalk, IInv, Types
  <2>5. cur'[p] \in Above(call[p].cwd) /\ Sought(p) \subseteq Above(cur'[p])
    BY <2>2, <2>3, AboveSelf DEF Sought
  <2>6. jigs => Given(call[p]) \notin before[p].estates
    BY <1>3 DEF IInv, Lasting
  <2> QED  BY <1>1, <2>1, <2>4, <2>5, <2>6, GoOnKeeps DEF StartWalk
<1> QED  BY <1>2, <1>3

LEMMA WalkKeeps ==
  ASSUME IInv, NEW p \in Shell, Walk(p)
  PROVE  IInv'
<1> DEFINE jigs == stage[p] = "handler" /\ call[p].kind \in {"jig", "aggregate"}
<1>1. /\ at[p] = "walk" /\ UNCHANGED <<estates, legacy, call, runs, before>>
  BY DEF Walk, Rest
<1>2. /\ Only(p) = NoDir /\ cur[p] \in Above(call[p].cwd) /\ Sought(p) \subseteq Above(cur[p])
      /\ jigs => Given(call[p]) \notin before[p].estates
      /\ call[p].cwd \in Dir /\ cur[p] \in Dir
  BY <1>1, Calls DEF IInv, Searching, Walking, JigPlaced, Above
<1>3. CASE cur[p] \in estates /\ FoundIn(p, cur[p]) /\ UNCHANGED cur
  <2>1. Findable(p, cur[p])
    BY <1>2 DEF Findable
  <2>2. stage[p] = "layer" => call[p].kind # "init"
    BY DEF IInv, Searching, LayerFirst, LayerKinds
  <2> QED  BY <1>1, <1>2, <1>3, <2>1, <2>2, FoundKeeps DEF IInv, Types, Over
<1>4. CASE /\ cur[p] \notin estates /\ cur[p] # <<>>
           /\ cur' = [cur EXCEPT ![p] = Front(cur[p])]
           /\ UNCHANGED <<stage, at, checked, target>>
  <2>1. Front(cur[p]) \in Dir /\ \A e \in Above(cur[p]) : e = cur[p] \/ e \in Above(Front(cur[p]))
    BY <1>2, <1>4, AboveFront
  <2>2. Sought(p) \subseteq estates
    BY EstatesAssumption DEF Sought, IInv, Lasting, Above
  <2>3. Sought(p) \subseteq Above(Front(cur[p]))
    BY <1>2, <1>4, <2>1, <2>2
  <2>4. Front(cur[p]) \in Above(cur[p])
    BY <1>2, <1>4, FrontIsAbove DEF Above
  <2>5. Front(cur[p]) \in Above(call[p].cwd)
    BY <1>2, <2>4, AboveTransitive
  <2>6. /\ cur'[p] = Front(cur[p]) /\ cur' \in [Shell -> Dir \cup {NoDir}]
        /\ \A q \in Shell \ {p} : cur'[q] = cur[q]
    BY <1>4, <2>1 DEF IInv, Types
  <2>7. MoveTo(p, "walk")
    BY <1>1, <1>4 DEF MoveTo, IInv, Types
  <2> QED  BY <1>1, <1>2, <1>4, <2>3, <2>5, <2>6, <2>7, GoOnKeeps
<1>5. CASE /\ cur[p] \notin estates /\ cur[p] = <<>> /\ UNCHANGED cur
           /\ IF Discovers(p) THEN MoveTo(p, "bare") /\ UNCHANGED <<stage, checked, target>>
              ELSE NotFound(p)
  <2>1. Sought(p) = {}
    BY <1>1, <1>5, RootReached
  <2>2. CASE Discovers(p)
    <3>1. Given(call[p]) = NoDir
      BY <1>2, <2>2 DEF Only
    <3> QED  BY <1>1, <1>5, <2>1, <2>2, <3>1, GoOnKeeps DEF IInv, Types
  <2>3. CASE ~Discovers(p)
    <3>1. stage[p] # "layer"
      BY <2>3 DEF Discovers
    <3> QED  BY <1>1, <1>2, <1>5, <2>1, <2>3, <3>1, NotFoundKeeps DEF Over
  <2> QED  BY <2>2, <2>3
<1> QED  BY <1>3, <1>4, <1>5 DEF Walk

LEMMA CreateEstateKeeps ==
  ASSUME IInv, NEW p \in Shell, CreateEstate(p)
  PROVE  IInv'
<1> DEFINE d == IF Discovers(p) THEN call[p].cwd ELSE InitRoot(p)
<1>1. at[p] = "bare" /\ UNCHANGED <<legacy, call, runs, before, cur>>
  BY DEF CreateEstate
<1>2. /\ d \in Dir /\ call[p].cwd \in Dir
      /\ stage[p] = "layer" => call[p].kind # "init"
  BY Calls DEF IInv, Searching, LayerFirst, LayerKinds
<1>3. \/ call[p].kind = "init"
      \/ Discovers(p) /\ Given(call[p]) = NoDir /\ Sought(p) = {}
  BY <1>1 DEF IInv, Searching, Bare
<1>4. CASE NotFound(p) /\ UNCHANGED estates
  <2>1. stage[p] = "layer" =>
          Given(call[p]) = NoDir /\ Above(call[p].cwd) \cap before[p].estates = {}
    BY <1>2, <1>3 DEF Sought
  <2>2. stage[p] = "handler" => call[p].kind # "aggregate"
    BY <1>3 DEF Discovers
  <2> QED  BY <1>1, <1>4, <2>1, <2>2, NotFoundKeeps DEF Over
<1>5. CASE estates' = estates \cup {d} /\ FoundIn(p, d)
  <2>1. Findable(p, d)
    <3>1. CASE call[p].kind = "init"
      <4>1. ~Discovers(p)
        BY <1>2, <3>1 DEF Discovers, IInv, Types
      <4> QED  BY <3>1, <4>1 DEF Findable, Only
    <3>2. CASE Discovers(p) /\ Given(call[p]) = NoDir /\ Sought(p) = {}
      <4>1. Only(p) = NoDir /\ call[p].cwd \in Above(call[p].cwd)
        BY <1>2, <3>2, AboveSelf DEF Only
      <4>2. ~(stage[p] = "handler" /\ call[p].kind \in {"jig", "aggregate"})
        BY <3>2 DEF Discovers
      <4> QED  BY <3>2, <4>1, <4>2 DEF Findable
    <3> QED  BY <1>3, <3>1, <3>2
  <2>2. estates' \subseteq Dir /\ d \in estates' /\ estates \subseteq estates'
    BY <1>2, <1>5 DEF IInv, Types
  <2> HIDE DEF d
  <2> QED  BY <1>1, <1>2, <1>5, <2>1, <2>2, FoundKeeps DEF IInv, Types, Over
<1> QED  BY <1>4, <1>5 DEF CreateEstate

LEMMA EnterKeeps ==
  ASSUME IInv, NEW p \in Shell, NEW c \in Call, Enter(p, c)
  PROVE  IInv'
<1> USE DEF IInv
<1>1. Types'
  BY DEF Types, Enter, MoveTo
<1>2. Spares(p) /\ UNCHANGED runs
  BY DEF Spares, Types, Enter, MoveTo
<1>3. /\ at'[p] = "look" /\ call'[p] = c /\ checked'[p] = NoDir /\ target'[p] = NoDir
      /\ stage'[p] = IF c.kind \in LayerKinds THEN "layer" ELSE "handler"
      /\ before'[p] = [estates |-> estates, runs |-> runs]
  BY DEF Enter, MoveTo, Types
<1>4. Lasting'
  <2>1. ASSUME NEW q \in Shell
        PROVE  /\ {checked'[q], target'[q]} \subseteq estates' \cup {NoDir}
               /\ before'[q].estates \subseteq estates' /\ before'[q].runs \subseteq runs'
               /\ at'[q] = "act" => target'[q] # NoDir
               /\ \A r \in before'[q].runs : r.dir \in before'[q].estates
    <3>1. estates' = estates /\ runs' = runs
      BY DEF Enter
    <3>2. CASE q = p
      BY <1>3, <3>1, <3>2 DEF Lasting
    <3>3. CASE q # p
      BY <1>2, <3>1, <3>3 DEF Lasting, Spares
    <3> QED  BY <3>2, <3>3
  <2> QED  BY <2>1 DEF Lasting, Enter
<1>5. Searching(p)'
  BY <1>3 DEF Searching, LayerFirst, Walking, Bare, LayerDone, SameEstate, JigPlaced, RunsFound
<1> QED  BY <1>1, <1>2, <1>4, <1>5, StepOfOne

LEMMA DieKeeps ==
  ASSUME IInv, NEW p \in Shell, Die(p)
  PROVE  IInv'
<1> USE DEF IInv
<1>1. Types'
  BY DEF Types, Die, MoveTo, Over
<1>2. Spares(p) /\ UNCHANGED runs
  BY DEF Spares, Types, Die, MoveTo
<1>3. at'[p] = "failed" /\ checked'[p] = checked[p] /\ stage'[p] = stage[p] /\ call'[p] = call[p]
  BY DEF Die, MoveTo, Types
<1>4. Lasting'
  BY DEF Lasting, Die, MoveTo, Types
<1>5. Searching(p)'
  BY <1>3 DEF Searching, LayerFirst, Walking, Bare, LayerDone, SameEstate, JigPlaced, RunsFound, Over
<1> QED  BY <1>1, <1>2, <1>4, <1>5, StepOfOne

LEMMA ActKeeps ==
  ASSUME IInv, NEW p \in Shell, Act(p)
  PROVE  IInv'
<1> DEFINE c == call[p]
           result == [dir |-> target[p], cwd |-> c.cwd, given |-> Given(c),
                      known |-> before[p].estates]
<1>1. /\ at[p] = "act" /\ MoveTo(p, "ok")
      /\ UNCHANGED <<estates, legacy, stage, call, cur, checked, target, before>>
      /\ runs' = IF c.kind = "jig" THEN runs \cup {result} ELSE runs
  BY DEF Act
<1>2. target[p] \in estates /\ estates \subseteq Dir
  BY <1>1 DEF IInv, Lasting, Types
<1>3. result \in Run
  BY <1>2, Calls DEF Run, IInv, Types
<1>4. c.kind = "jig" => Placed(result.dir, result.cwd, result.given, result.known)
  BY <1>1 DEF IInv, Searching, JigPlaced
<1>5. result.dir \in estates
  BY <1>2
<1> HIDE DEF result, c
<1>6. runs \subseteq runs' /\ runs' \subseteq runs \cup {result}
  BY <1>1
<1>7. Types'
  <2>1. runs' \subseteq Run
    BY <1>3, <1>6 DEF IInv, Types
  <2>2. at' \in [Shell -> Over \cup {"look", "walk", "bare", "act"}]
    BY <1>1 DEF IInv, Types, MoveTo, Over
  <2> QED  BY <1>1, <2>1, <2>2 DEF IInv, Types
<1>8. Spares(p)
  BY <1>1, <1>6 DEF Spares, IInv, Types, MoveTo
<1>9. Lasting'
  BY <1>1, <1>5, <1>6 DEF IInv, Lasting, MoveTo, Types
<1>10. at'[p] = "ok"
  BY <1>1 DEF MoveTo, IInv, Types
<1>11. Searching(p)'
  <2>1. LayerFirst(p)' /\ Walking(p)' /\ Bare(p)' /\ LayerDone(p)' /\ SameEstate(p)' /\ JigPlaced(p)'
    BY <1>1, <1>10
    DEF IInv, Searching, LayerFirst, Walking, Bare, LayerDone, SameEstate, JigPlaced, Over
  <2>2. RunsFound(p)'
    BY <1>1, <1>10 DEF IInv, Searching, RunsFound, Given
  <2> QED  BY <2>1, <2>2 DEF Searching
<1>12. \A q \in Shell : Searching(q)'
  BY <1>8, <1>11, OthersSearch DEF IInv
<1>13. \A r \in runs' : Placed(r.dir, r.cwd, r.given, r.known)'
  <2>1. ASSUME NEW r \in runs'  PROVE Placed(r.dir, r.cwd, r.given, r.known)
    <3>1. CASE r \in runs
      BY <3>1 DEF IInv
    <3>2. CASE r \notin runs
      BY <1>1, <1>4, <3>2
    <3> QED  BY <3>1, <3>2
  <2> QED  BY <2>1 DEF Placed, Above
<1> QED  BY <1>7, <1>9, <1>12, <1>13 DEF IInv

LEMMA InitHolds == EstatesInit => IInv
<1> SUFFICES ASSUME EstatesInit  PROVE IInv
  OBVIOUS
<1>1. (CHOOSE c \in Call : TRUE) \in Call
  BY EstatesAssumption
<1>2. Types
  BY <1>1 DEF EstatesInit, Types, Over
<1>3. Lasting
  BY DEF EstatesInit, Lasting
<1>4. ASSUME NEW p \in Shell  PROVE Searching(p)
  BY DEF EstatesInit, Searching, LayerFirst, Walking, Bare, LayerDone, SameEstate, JigPlaced,
         RunsFound, Over
<1> QED  BY <1>2, <1>3, <1>4 DEF EstatesInit, IInv

LEMMA StepHolds == IInv /\ [EstatesNext]_estateVars => IInv'
<1> SUFFICES ASSUME IInv, [EstatesNext]_estateVars  PROVE IInv'
  OBVIOUS
<1>1. CASE UNCHANGED estateVars
  <2>1. Types' /\ Lasting'
    BY <1>1 DEF estateVars, IInv, Types, Lasting
  <2>2. \A p \in Shell : Searching(p)'
    BY <1>1 DEF estateVars, IInv, Searching, LayerFirst, Walking, Bare, LayerDone, SameEstate,
                JigPlaced, RunsFound, Only, Discovers, Sought, InitRoot, Above, Placed, Given
  <2>3. \A r \in runs' : Placed(r.dir, r.cwd, r.given, r.known)'
    BY <1>1 DEF estateVars, IInv, Placed, Above
  <2> QED  BY <2>1, <2>2, <2>3 DEF IInv
<1>2. ASSUME NEW p \in Shell, (\E c \in Call : Enter(p, c)) \/ Search(p)  PROVE IInv'
  BY <1>2, EnterKeeps, LookThereKeeps, LookFirstKeeps, WalkKeeps, CreateEstateKeeps, ActKeeps,
     DieKeeps
  DEF Search
<1> QED  BY <1>1, <1>2 DEF EstatesNext

\* The invariant holds in every state, whatever the processes run and wherever
\* estates are.
THEOREM Invariant == EstatesSpec => []IInv
BY InitHolds, StepHolds, PTL DEF EstatesSpec

\* What a search has found is an estate, and stays one; a walk stays above the
\* working directory; and jig leaves its results in estates.
THEOREM TypesHold == EstatesSpec => []EstatesTypeOK
<1>1. IInv => EstatesTypeOK
  BY DEF IInv, Types, Lasting, Searching, Walking, Above, EstatesTypeOK
<1> QED  BY <1>1, Invariant, PTL

\* No command but init creates an estate below one that was there when it began,
\* though others create estates while it searches.
THEOREM NoneShadowed == EstatesSpec => []NotShadowed
<1>1. IInv => NotShadowed
  BY DEF IInv, Searching, Bare, Sought, NotShadowed
<1> QED  BY <1>1, Invariant, PTL

\* The rejection layer and the handler each search on their own.  For a command
\* of the store they still end in the same estate, or the handler in a nearer one
\* that has been created in between; for overlay, migrate and jig this is so
\* when neither --data-dir nor SYNTHESIST_DIR is given.
THEOREM OneEstateServes == EstatesSpec => []OneEstate
<1>1. IInv => OneEstate
  BY DEF IInv, Searching, SameEstate, OneEstate
<1> QED  BY <1>1, Invariant, PTL

\* jig aggregate shows each run that was made in its place before it began,
\* unless a nearer estate was created since that run.
THEOREM RunsAreShown == EstatesSpec => []RunsShown
<1>1. IInv => RunsShown
  BY DEF IInv, Searching, RunsFound, RunsShown
<1> QED  BY <1>1, Invariant, PTL
=============================================================================
