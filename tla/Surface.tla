------------------------------- MODULE Surface -------------------------------
(***************************************************************************)
(* Surfaces: which commands an estate permits.  A surface is a manifest;   *)
(* a command is under the one that --manifest names, else the environment, *)
(* else the estate's sticky setting, else under none.  A reference is the  *)
(* name of a builtin or a path.  A command is known by the words of its    *)
(* registry key.                                                           *)
(***************************************************************************)
EXTENDS Naturals

CONSTANTS
  Path,              \* paths of manifest files
  NoRef              \* no reference; a sticky file that is missing or blank

VARIABLES
  sticky,            \* the estate's sticky setting
  files              \* what the manifest files hold

\* The commands, by the enums of the command line.
TopKeys == {<<k>> : k \in {"status", "check", "conflicts", "init", "export", "import",
                            "skill", "version"}}
TreeKeys == {"tree"} \X {"add", "list", "show", "close"}
SpecKeys == {"spec"} \X {"add", "show", "update", "list"}
TaskKeys == {"task"} \X {"add", "list", "show", "update", "claim", "done", "reset",
                          "block", "wait", "cancel", "ready", "acceptance"}
DiscoveryKeys == {"discovery"} \X {"add", "list"}
CampaignKeys == {"campaign"} \X {"add", "list"}
OutcomeKeys == {"outcome"} \X {"add", "list"}
SessionKeys == {"session"} \X {"start", "close", "list", "status"}
PhaseKeys == {"phase"} \X {"show", "set"}
Migrations == {"migrate"} \X {"list", "run", "v2-to-v3"}
OverlayKeys == {"overlay"} \X {"list", "run"}
JigKeys == {"jig"} \X {"run", "list-scenarios", "list-manifests"}
SurfaceKeys == {"surface"} \X {"use", "list", "show"}

\* The commands of v2.5 but `surface`.
Core == TopKeys \cup TreeKeys \cup SpecKeys \cup TaskKeys \cup DiscoveryKeys \cup CampaignKeys
        \cup OutcomeKeys \cup SessionKeys \cup PhaseKeys \cup Migrations \cup {<<"migrate", "status">>}

\* REGISTRY, and its keys that are of the baseline.
BaselineKeys == Core \cup SurfaceKeys
Registry == BaselineKeys \cup OverlayKeys \cup JigKeys

\* What command_key gives no key; `jig aggregate` is the one of them that works.
Keyless ==
  {<<k>> : k \in {"stakeholder", "disposition", "signal", "stance"}}
  \cup ({"session"} \X {"merge", "discard"}) \cup {<<"jig", "aggregate">>}

\* Mutant: the surface commands are not exempt.
AlwaysAllowedNoSurface(key) == key[1] \in {"version", "init", "skill"}

\* A surface cannot reject these.
AlwaysAllowed(key) == key[1] \in {"surface", "version", "init", "skill"}

\* Files hold a manifest, or nothing that parses as one.
Manifest == [include : SUBSET Registry, exclude : SUBSET Registry, add : SUBSET Registry]
Broken == [broken |-> TRUE]

Including(include, add) == [include |-> include, exclude |-> {}, add |-> add]

Dropped == {<<"task", "block">>, <<"task", "wait">>, <<"phase", "show">>, <<"import">>, <<"export">>}

\* The builtins.
BaselineV25 == Including(Core, {})
CompositeCommands == Including(Core \ Migrations, {})
OverlayFirstClass == Including(Core \ Migrations, OverlayKeys)
SparqlExposed == Including(Core \ Migrations, OverlayKeys)
Pruned == [Including(Core \ (Migrations \cup Dropped), {}) EXCEPT !.exclude = Dropped]

Builtin == {"baseline-v25", "composite-commands", "overlay-first-class", "pruned", "sparql-exposed"}

\* BUILTINS
BuiltinManifest(name) ==
  CASE name = "baseline-v25" -> BaselineV25
    [] name = "composite-commands" -> CompositeCommands
    [] name = "overlay-first-class" -> OverlayFirstClass
    [] name = "pruned" -> Pruned
    [] name = "sparql-exposed" -> SparqlExposed

Ref == Builtin \cup Path

ASSUME SurfaceAssumption == Path \cap Builtin = {} /\ NoRef \notin Ref

\* A name is that of a builtin before it is a path.
Resolve(r) == IF r \in Builtin THEN BuiltinManifest(r) ELSE files[r]

Permitted(key, m) ==
  /\ key \notin m.exclude
  /\ \/ key \in m.add
     \/ key \in IF m.include = {} THEN BaselineKeys ELSE m.include

\* What the command is under, given its --manifest and its environment.
ActiveRef(override, env) ==
  IF override # NoRef THEN override ELSE IF env # NoRef THEN env ELSE sticky

\* The rejection layer knows the key.
Filtered(key) == key \in Registry /\ ~AlwaysAllowed(key)

\* Under reference r, or none, key is not rejected: a file that does not parse
\* permits nothing.
Permits(r, key) == r # NoRef => Resolve(r) # Broken /\ Permitted(key, Resolve(r))

SurfaceInit ==
  /\ sticky = NoRef
  /\ files \in [Path -> {Broken}]

\* Someone edits or removes a manifest file.
EditFile(path, m) ==
  /\ files' = [files EXCEPT ![path] = m]
  /\ UNCHANGED sticky

\* fs::write of the sticky file: truncated, then written.
Truncate == sticky' = NoRef /\ UNCHANGED files
WriteSticky(r) == sticky' = r /\ UNCHANGED files
=============================================================================
