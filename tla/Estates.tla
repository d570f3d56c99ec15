------------------------------ MODULE Estates ------------------------------
(***************************************************************************)
(* Where the commands find their estate: the directory with claims/ that   *)
(* is given by --data-dir or SYNTHESIST_DIR, or the nearest one above the  *)
(* working directory.  A search looks at one directory after the other     *)
(* while other processes create estates.  The rejection layer searches,    *)
(* for the surface, and then the handler does, in its own way.             *)
(***************************************************************************)
EXTENDS Naturals, FiniteSets, SequencesExt

CONSTANTS
  Name,              \* names of directories
  Dir,               \* directories, as paths of names from the root
  NoDir,
  Shell,             \* processes
  Call,              \* what they run, where, under which settings
  MaxRuns            \* bound: results of jig runs

VARIABLES
  estates,           \* the directories that hold claims/
  legacy,            \* those that hold a v1 database, .synth/main.db
  stage, at, call,   \* each process's searcher, control point and command
  cur,               \* the directory that its search has come to
  checked, target,   \* the estate of the layer and that of the handler
  runs,              \* results in claims/_jig, with where they were made
  before             \* history: estates and runs when the process began

estateVars == <<estates, legacy, stage, at, call, cur, checked, target, runs, before>>

Kinds == {"init", "store", "surface", "overlay", "migrate", "jig", "aggregate"}

\* Of these the rejection layer filters those that have a key of their own.
LayerKinds == {"store", "overlay", "migrate", "jig"}

Over == {"idle", "ok", "failed"}

ASSUME EstatesAssumption ==
  /\ Dir \subseteq Seq(Name)
  /\ <<>> \in Dir /\ \A d \in Dir \ {<<>>} : Front(d) \in Dir
  /\ NoDir \notin Dir
  /\ Call # {}
  /\ \A c \in Call : /\ c.kind \in Kinds /\ c.cwd \in Dir
                     /\ c.flag \in Dir \cup {NoDir} /\ c.env \in Dir \cup {NoDir}
  /\ MaxRuns \in Nat

\* Types: what was found is an estate, and a search is in or above its directory.
EstatesTypeOK ==
  /\ estates \subseteq Dir /\ legacy \subseteq Dir
  /\ stage \in [Shell -> {"layer", "handler"}]
  /\ at \in [Shell -> Over \cup {"look", "walk", "bare", "act"}]
  /\ call \in [Shell -> Call]
  /\ \A p \in Shell : /\ at[p] = "walk" => IsPrefix(cur[p], call[p].cwd)
                      /\ {checked[p], target[p]} \subseteq estates \cup {NoDir}
                      /\ before[p].estates \subseteq estates /\ before[p].runs \subseteq runs
  /\ \A r \in runs : r.dir \in estates

Above(d) == {e \in Dir : IsPrefix(e, d)}

\* main puts --data-dir into SYNTHESIST_DIR.
Given(c) == IF c.flag # NoDir THEN c.flag ELSE c.env

\* SynthStore::discover searches for the layer, for the commands that use the
\* store, and for those about surfaces.
Discovers(p) == stage[p] = "layer" \/ call[p].kind \in {"store", "surface"}

\* init creates the estate where it is told to, or in the working directory.
InitRoot(p) == IF Given(call[p]) = NoDir THEN call[p].cwd ELSE Given(call[p])

\* Mutant: the layer searches from the working directory, whatever is given.
OnlyLater(p) ==
  IF stage[p] = "layer" THEN NoDir ELSE
  CASE call[p].kind \in {"store", "surface"} -> Given(call[p])
    [] call[p].kind = "overlay" -> call[p].flag
    [] call[p].kind = "init" -> InitRoot(p)
    [] call[p].kind = "migrate" -> call[p].cwd
    [] OTHER -> NoDir

\* The only directory that a search looks at, if there is no walk: overlay
\* ignores the environment, and migrate whatever is given.
Only(p) ==
  IF Discovers(p) THEN Given(call[p]) ELSE
  CASE call[p].kind = "overlay" -> call[p].flag
    [] call[p].kind = "init" -> InitRoot(p)
    [] call[p].kind = "migrate" -> call[p].cwd
    [] OTHER -> NoDir

MoveTo(p, to) == at' = [at EXCEPT ![p] = to]

FoundIn(p, d) ==
  \/ /\ stage[p] = "layer"
     /\ stage' = [stage EXCEPT ![p] = "handler"] /\ MoveTo(p, "look")
     /\ checked' = [checked EXCEPT ![p] = d]
     /\ UNCHANGED target
  \/ /\ stage[p] = "handler"
     /\ MoveTo(p, "act")
     /\ target' = [target EXCEPT ![p] = d]
     /\ UNCHANGED <<stage, checked>>

\* The layer goes on without a sticky surface, and aggregate shows an empty
\* table; the others fail.
NotFound(p) ==
  /\ stage' = [stage EXCEPT ![p] = "handler"]
  /\ MoveTo(p, IF stage[p] = "layer" THEN "look"
             ELSE IF call[p].kind = "aggregate" THEN "ok" ELSE "failed")
  /\ UNCHANGED <<checked, target>>
-----------------------------------------------------------------------------
Enter(p, c) ==
  /\ at[p] \in Over
  /\ call' = [call EXCEPT ![p] = c]
  /\ stage' = [stage EXCEPT ![p] = IF c.kind \in LayerKinds THEN "layer" ELSE "handler"]
  /\ MoveTo(p, "look")
  /\ checked' = [checked EXCEPT ![p] = NoDir] /\ target' = [target EXCEPT ![p] = NoDir]
  /\ before' = [before EXCEPT ![p] = [estates |-> estates, runs |-> runs]]
  /\ UNCHANGED <<estates, legacy, cur, runs>>

Rest == <<estates, legacy, call, runs, before>>

\* open_explicit, and the like of overlay, migrate and init.
LookThere(p) ==
  /\ at[p] = "look" /\ Only(p) # NoDir
  /\ \/ Only(p) \in estates /\ FoundIn(p, Only(p))
     \/ Only(p) \notin estates /\ call[p].kind # "init" /\ NotFound(p)
     \/ /\ Only(p) \notin estates /\ call[p].kind = "init"
        /\ MoveTo(p, "bare") /\ UNCHANGED <<stage, checked, target>>
  /\ UNCHANGED <<cur, Rest>>

StartWalk(p) ==
  /\ cur' = [cur EXCEPT ![p] = call[p].cwd] /\ MoveTo(p, "walk")
  /\ UNCHANGED <<stage, checked, target>>

\* Mutant: aggregate always walks.
LookFirstRun(p) ==
  /\ at[p] = "look" /\ Only(p) = NoDir
  /\ IF stage[p] = "handler" /\ call[p].kind = "jig" /\ Given(call[p]) \in estates
     THEN FoundIn(p, Given(call[p])) /\ UNCHANGED cur
     ELSE StartWalk(p)
  /\ UNCHANGED Rest

\* jig and aggregate walk, too, when what is given holds no estate.
LookFirst(p) ==
  /\ at[p] = "look" /\ Only(p) = NoDir
  /\ IF stage[p] = "handler" /\ call[p].kind \in {"jig", "aggregate"} /\ Given(call[p]) \in estates
     THEN FoundIn(p, Given(call[p])) /\ UNCHANGED cur
     ELSE StartWalk(p)
  /\ UNCHANGED Rest

\* Mutant: the walk ends below the root.
WalkShort(p) ==
  /\ at[p] = "walk"
  /\ \/ cur[p] \in estates /\ FoundIn(p, cur[p]) /\ UNCHANGED cur
     \/ /\ cur[p] \notin estates /\ Len(cur[p]) > 1
        /\ cur' = [cur EXCEPT ![p] = Front(cur[p])]
        /\ UNCHANGED <<stage, at, checked, target>>
     \/ /\ cur[p] \notin estates /\ Len(cur[p]) <= 1 /\ UNCHANGED cur
        /\ IF Discovers(p) THEN MoveTo(p, "bare") /\ UNCHANGED <<stage, checked, target>>
           ELSE NotFound(p)
  /\ UNCHANGED Rest

Walk(p) ==
  /\ at[p] = "walk"
  /\ \/ cur[p] \in estates /\ FoundIn(p, cur[p]) /\ UNCHANGED cur
     \/ /\ cur[p] \notin estates /\ cur[p] # <<>>
        /\ cur' = [cur EXCEPT ![p] = Front(cur[p])]
        /\ UNCHANGED <<stage, at, checked, target>>
     \/ /\ cur[p] \notin estates /\ cur[p] = <<>> /\ UNCHANGED cur
        /\ IF Discovers(p) THEN MoveTo(p, "bare") /\ UNCHANGED <<stage, checked, target>>
           ELSE NotFound(p)
  /\ UNCHANGED Rest

\* find_legacy_v1_db walks up, past any estate.
LegacyAbove(p, d) == Above(d) \cap legacy # {}

\* No estate was there: discover creates one in the working directory, and init
\* one where it looked, unless a v1 database is found.
CreateEstate(p) ==
  LET d == IF Discovers(p) THEN call[p].cwd ELSE InitRoot(p)
  IN  /\ at[p] = "bare"
      /\ \/ LegacyAbove(p, d) /\ NotFound(p) /\ UNCHANGED estates
         \/ ~LegacyAbove(p, d) /\ estates' = estates \cup {d} /\ FoundIn(p, d)
      /\ UNCHANGED <<legacy, call, runs, before, cur>>

\* The command itself: of what it does to the estate only jig's result is kept.
\* Where jig fails before, for want of a scenario, is as if it had been killed.
Act(p) ==
  LET c == call[p]
      result == [dir |-> target[p], cwd |-> c.cwd, given |-> Given(c),
                 known |-> before[p].estates]
  IN  /\ at[p] = "act"
      /\ runs' = IF c.kind = "jig" THEN runs \cup {result} ELSE runs
      /\ Cardinality(runs') <= MaxRuns
      /\ MoveTo(p, "ok")
      /\ UNCHANGED <<estates, legacy, stage, call, cur, checked, target, before>>

Die(p) ==
  /\ at[p] \notin Over
  /\ MoveTo(p, "failed")
  /\ UNCHANGED <<estates, legacy, stage, call, cur, checked, target, runs, before>>

EstatesInit ==
  /\ estates \in SUBSET Dir
  /\ legacy \in {{}} \cup {{d} : d \in Dir}
  /\ stage = [p \in Shell |-> "handler"] /\ at = [p \in Shell |-> "idle"]
  /\ call = [p \in Shell |-> CHOOSE c \in Call : TRUE]
  /\ cur = [p \in Shell |-> NoDir]
  /\ checked = [p \in Shell |-> NoDir] /\ target = [p \in Shell |-> NoDir]
  /\ runs = {}
  /\ before = [p \in Shell |-> [estates |-> {}, runs |-> {}]]

Search(p) ==
  \/ LookThere(p) \/ LookFirst(p) \/ Walk(p) \/ CreateEstate(p) \/ Act(p) \/ Die(p)

EstatesNext == \E p \in Shell : (\E c \in Call : Enter(p, c)) \/ Search(p)

EstatesSpec == EstatesInit /\ [][EstatesNext]_estateVars
-----------------------------------------------------------------------------
(* Properties *)

\* A command that does not find an estate creates one, but never below an
\* estate that was there when it began, which would hide that from then on.
\* Not so init, which creates one where it is told.
NotShadowed ==
  \A p \in Shell :
    at[p] = "bare" /\ call[p].kind # "init" => Above(call[p].cwd) \cap before[p].estates = {}

\* A command works in the estate of which the rejection layer asked for the
\* surface, or in a nearer one that was created since it began.  The commands
\* other than the store's resolve what is given in ways of their own: for them
\* this is so when nothing is given.
OneEstate ==
  \A p \in Shell : LET c == call[p] IN
    /\ at[p] = "act" /\ c.kind \in LayerKinds
    /\ c.kind = "store" \/ Given(c) = NoDir
    => \/ target[p] = checked[p]
       \/ /\ target[p] \notin before[p].estates
          /\ checked[p] = NoDir \/ IsStrictPrefix(checked[p], target[p])

\* jig aggregate shows every run that had ended when it began and that was made
\* in the same place, unless an estate was created since that run which is nearer.
RunsShown ==
  \A p \in Shell : LET c == call[p] IN
    at[p] = "ok" /\ c.kind = "aggregate" =>
      \A r \in before[p].runs : r.cwd = c.cwd /\ r.given = Given(c) =>
        \/ target[p] = r.dir
        \/ target[p] \in estates \ r.known
=============================================================================
