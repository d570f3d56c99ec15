--------------------------------- MODULE Cli ---------------------------------
(***************************************************************************)
(* One run of the program after another, or several at once: the rejection *)
(* layer, the session gate, the phase gate and the handler, of main.rs.    *)
(* A handler that writes reads the documents and appends in one step here; *)
(* Workflow takes those steps apart.  Other handlers only read.  The       *)
(* estate also receives documents from elsewhere.                          *)
(***************************************************************************)
EXTENDS Surface, Views, Shapes, FiniteSets

CONSTANTS
  Process,           \* runs of the program at one time
  Invocation,        \* what may be run
  NoSession,         \* neither --session nor SYNTHESIST_SESSION
  TextArg,           \* bound: the texts given as arguments
  Foreign,           \* what comes from elsewhere: claims by "elsewhere"
  Edited             \* bound: what someone writes into a manifest file

VARIABLES
  pc, cmd,           \* each process's control point and invocation
  under,             \* the reference that the rejection layer read
  seen, granted      \* history: the references in force since the process
                     \* began, and whether one of them permitted its command

cliVars == <<sticky, files, log, pc, cmd, under, seen, granted>>

Busy == {"layer", "resolve", "gates", "run", "write"}
Ended == {"idle", "ok", "failed", "rejected"}

ASSUME CliAssumption ==
  /\ \A c \in Invocation :
       /\ c.key \in Registry \cup Keyless
       /\ c.arg \in Ref \cup {"absent"}
       /\ c.key = <<"surface", "use">> => c.arg \in Ref
       /\ c.override \in Ref \cup {NoRef} /\ c.env \in Ref \cup {NoRef}
       /\ c.session \in Free \cup {"", NoSession}
       /\ c.force \in BOOLEAN
  /\ Invocation # {} /\ NoSession \notin String
  /\ TextArg \subseteq String
  /\ \A c \in Foreign :
       /\ c.by = "elsewhere" /\ c.sup \in Nat
       /\ \A k \in DOMAIN c.doc \ Envelope : c.doc[k] \in Value
  /\ MaxLog \in Nat

\* Types, and that a superseded claim is an earlier one.
CliTypeOK ==
  /\ sticky \in Ref \cup {NoRef}
  /\ files \in [Path -> Edited \cup {Broken}]
  /\ pc \in [Process -> Busy \cup Ended]
  /\ cmd \in [Process -> Invocation]
  /\ under \in [Process -> Ref \cup {NoRef}]
  /\ seen \in [Process -> SUBSET (Ref \cup {NoRef})]
  /\ granted \in [Process -> BOOLEAN]
  /\ Len(log) <= MaxLog
  /\ \A n \in DOMAIN log :
       /\ log[n].sup \in 0..(n - 1)
       /\ log[n].by \in String \cup {"elsewhere"}
       /\ \A f \in DOMAIN PropsOf(n) : PropsOf(n)[f] \in Value

Goto(p, at) == pc' = [pc EXCEPT ![p] = at]

\* Each step notes for every process that is at work what it is now under.
Observe ==
  LET now(p) == ActiveRef(cmd[p].override, cmd[p].env)'
      refs(p) == (IF pc[p] \in Ended THEN {} ELSE seen[p]) \cup {now(p)}
      atWork(p) == pc'[p] \in Busy
  IN  /\ seen' = [p \in Process |-> IF atWork(p) THEN refs(p) ELSE {}]
      /\ granted' = [p \in Process |->
           /\ atWork(p)
           /\ \/ pc[p] \in Busy /\ granted[p]
              \/ \E r \in refs(p) : Permits(r, cmd[p].key)']

Begin(p, c) ==
  /\ pc[p] \in Ended
  /\ cmd' = [cmd EXCEPT ![p] = c]
  /\ Goto(p, IF Filtered(c.key) THEN "layer" ELSE "gates")
  /\ under' = [under EXCEPT ![p] = NoRef]
  /\ UNCHANGED <<sticky, files, log>>

\* active_reference: an estate without a surface filters nothing.
ReadReference(p) ==
  LET r == ActiveRef(cmd[p].override, cmd[p].env)
  IN  /\ pc[p] = "layer"
      /\ under' = [under EXCEPT ![p] = r]
      /\ Goto(p, IF r = NoRef THEN "gates" ELSE "resolve")
      /\ UNCHANGED <<sticky, files, log, cmd>>

\* Mutant: a manifest that does not resolve filters nothing.
ResolveOpen(p) ==
  LET m == Resolve(under[p])
  IN  /\ pc[p] = "resolve"
      /\ Goto(p, IF m # Broken /\ ~Permitted(cmd[p].key, m) THEN "rejected" ELSE "gates")
      /\ UNCHANGED <<sticky, files, log, cmd, under>>

ResolveManifest(p) ==
  LET m == Resolve(under[p])
  IN  /\ pc[p] = "resolve"
      /\ Goto(p, IF m = Broken THEN "failed"
                 ELSE IF Permitted(cmd[p].key, m) THEN "gates" ELSE "rejected")
      /\ UNCHANGED <<sticky, files, log, cmd, under>>

\* Commands that need no store, and those that are gone.
StoreFree(key) ==
  key[1] \in {"init", "surface", "skill", "version"} \/ key \in Keyless \ {<<"jig", "aggregate">>}

\* Mutant: all tree commands are taken for reads.
NoAttributionTree(key) == key[1] = "tree" \/ key \notin Writes \cup {<<"import">>}

\* The no_attribution list, which leaves out import and every command that
\* appends.
NoAttribution(key) ==
  \/ key[1] \in {"status", "check", "conflicts", "migrate", "export", "overlay", "jig"}
  \/ key \in {"tree", "spec", "task", "discovery", "campaign", "outcome", "session"} \X {"list"}
  \/ key \in {"tree", "spec", "task", "phase"} \X {"show"}
  \/ key \in {<<"task", "ready">>, <<"session", "status">>}

\* The session gate: an empty session is a session.
SessionGiven(c) == c.key[1] \in {"session", "phase", "import"} \/ c.session # NoSession

PhaseOf(session) ==
  LET heads == {n \in DOMAIN log : /\ log[n].type = "phase" /\ Live(n)
                                   /\ Get(PropsOf(n), "session_id") = session}
  IN  IF heads = {} THEN {"orient"} ELSE {Text(PropsOf(n), "name") : n \in heads}

\* The phase gate needs a session with a name.  With several live heads it is
\* any of them here.
PhasePasses(c, phase) ==
  \/ c.force \/ c.key[1] \in {"session", "phase", "import", "outcome"}
  \/ c.session \in Free /\ ~PhaseForbids(phase, c.key)

PassGates(p) ==
  LET c == cmd[p]
      free == StoreFree(c.key) \/ NoAttribution(c.key)
  IN  /\ pc[p] = "gates"
      /\ \E phase \in PhaseOf(c.session) :
           Goto(p, IF free \/ (SessionGiven(c) /\ PhasePasses(c, phase)) THEN "run" ELSE "failed")
      /\ UNCHANGED <<sticky, files, log, cmd, under>>
-----------------------------------------------------------------------------
(* Handlers *)

\* surface use resolves the reference and then writes the setting.
UseSurface(p) ==
  /\ pc[p] = "run" /\ cmd[p].key = <<"surface", "use">>
  /\ IF Resolve(cmd[p].arg) = Broken
     THEN Goto(p, "failed") /\ UNCHANGED <<sticky, files>>
     ELSE Goto(p, "write") /\ Truncate
  /\ UNCHANGED <<log, cmd, under>>

WriteSurface(p) ==
  /\ pc[p] = "write"
  /\ WriteSticky(cmd[p].arg)
  /\ Goto(p, "ok")
  /\ UNCHANGED <<log, cmd, under>>

\* discover_for: the session that a claim is attributed to.
Asserter(session) == IF session \in Free THEN session ELSE ""

AppendClaim(type, props, sup, by) ==
  /\ Len(log) < MaxLog
  /\ log' = Append(log, [type |-> type, sup |-> sup, by |-> by, doc |-> Wire(props, sup)])

\* SynthStore::append, which validates.
Write(p, type, props, sup, by) ==
  /\ IF Valid(type, props)
     THEN AppendClaim(type, props, sup, by) /\ Goto(p, "ok")
     ELSE UNCHANGED log /\ Goto(p, "failed")
  /\ UNCHANGED <<sticky, files, cmd, under>>

\* Task ids are looked for among the live tasks.
Taken(props) ==
  \E n \in DOMAIN log :
    /\ log[n].type = "task" /\ Live(n)
    /\ \A f \in FoundBy["task"] : Get(PropsOf(n), f) = props[f]

\* The commands that add, phase set aside: they supersede nothing.
RunAdd(p) ==
  LET c == cmd[p]
  IN  /\ pc[p] = "run" /\ c.key \in Adds \ {<<"phase", "set">>}
      /\ \E props \in Added(c.key, c.session, TextArg) :
           /\ c.key = <<"task", "add">> => ~Taken(props)
           /\ Write(p, c.key[1], props, 0,
                    IF c.key[1] = "session" THEN props.id ELSE Asserter(c.session))

\* The first phase is not checked.
RunPhaseSet(p) ==
  LET c == cmd[p]
      Heads == {n \in DOMAIN log : /\ log[n].type = "phase" /\ Live(n)
                                   /\ Get(PropsOf(n), "session_id") = c.session}
  IN  /\ pc[p] = "run" /\ c.key = <<"phase", "set">> /\ c.session \in Free
      /\ \E props \in Added(c.key, c.session, TextArg) :
           \/ Heads = {} /\ Write(p, "phase", props, 0, Asserter(c.session))
           \/ \E n \in Heads :
                /\ \/ c.force
                   \/ Text(PropsOf(n), "name") \in Phase
                        => props.name \in Transitions(Text(PropsOf(n), "name"))
                /\ Write(p, "phase", props, n, Asserter(c.session))

\* The commands that revise a live claim.  A session is closed by its opener.
RunRevise(p) ==
  LET c == cmd[p]
  IN  /\ pc[p] = "run"
      /\ \E n \in DOMAIN log :
           LET type == log[n].type
               old == PropsOf(n)
           IN  /\ c.key \in Revises(type)
               /\ Live(n) /\ Found(type, old)
               /\ type = "session" => log[n].sup = 0
               /\ \E e \in Edits(c.key, old, Asserter(c.session), TextArg) :
                    Write(p, type, Revised(type, old, e), n, Asserter(c.session))

\* import appends without validating; which rows and edges: Import.
RunImport(p) ==
  /\ pc[p] = "run" /\ cmd[p].key = <<"import">>
  /\ \E c \in Foreign : AppendClaim(c.type, ReplayedProps(c.doc), 0, c.by)
  /\ Goto(p, "ok")
  /\ UNCHANGED <<sticky, files, cmd, under>>

\* The other commands read; and any command may find nothing to do, or fail.
RunRead(p) ==
  LET c == cmd[p]
      broken == c.key = <<"surface", "show">> /\ ActiveRef(c.override, c.env) # NoRef
                /\ Resolve(ActiveRef(c.override, c.env)) = Broken
  IN  /\ pc[p] = "run" /\ c.key # <<"surface", "use">>
      /\ \/ /\ c.key \notin Writes \cup {<<"import">>} /\ ~broken
            /\ Goto(p, "ok")
         \/ /\ broken \/ c.key \in Writes \cup Keyless \cup {<<"import">>}
            /\ Goto(p, "failed")
      /\ UNCHANGED <<sticky, files, log, cmd, under>>

Kill(p) ==
  /\ pc[p] \in Busy
  /\ Goto(p, "idle")
  /\ UNCHANGED <<sticky, files, log, cmd, under>>

\* A claim arrives by git, or was there before: migrated, of an older version,
\* or of another program.  What it supersedes is in the log; edges into the void
\* are in Import.
Receive(c) ==
  /\ Len(log) < MaxLog
  /\ c.sup <= Len(log)
  /\ log' = Append(log, c)
  /\ UNCHANGED <<sticky, files, pc, cmd, under>>

Edit(path, m) ==
  /\ EditFile(path, m)
  /\ UNCHANGED <<log, pc, cmd, under>>

CliInit ==
  /\ SurfaceInit
  /\ log = <<>>
  /\ pc = [p \in Process |-> "idle"]
  /\ cmd \in [Process -> {CHOOSE c \in Invocation : TRUE}]
  /\ under = [p \in Process |-> NoRef]
  /\ seen = [p \in Process |-> {}]
  /\ granted = [p \in Process |-> FALSE]

Step(p) ==
  \/ \E c \in Invocation : Begin(p, c)
  \/ ReadReference(p) \/ ResolveManifest(p) \/ PassGates(p)
  \/ UseSurface(p) \/ WriteSurface(p)
  \/ RunAdd(p) \/ RunPhaseSet(p) \/ RunRevise(p) \/ RunImport(p) \/ RunRead(p)
  \/ Kill(p)

CliNext ==
  /\ \/ \E p \in Process : Step(p)
     \/ \E c \in Foreign : Receive(c)
     \/ \E path \in Path, m \in Edited \cup {Broken} : Edit(path, m)
  /\ Observe

CliSpec == CliInit /\ [][CliNext]_cliVars
-----------------------------------------------------------------------------
(* Properties *)

\* What the commands append passes `check`: what they validate before it
\* becomes a document is what check reads out of the document.
WrittenPassCheck ==
  \A n \in DOMAIN log : log[n].by # "elsewhere" => Accepted(n)

\* The revisions of claim n: what each sets, and the props of the result.
Revisions(n) ==
  LET type == log[n].type
      old == PropsOf(n)
  IN  IF Live(n) /\ type \in DOMAIN FoundBy /\ Found(type, old)
      THEN UNION {{[edit |-> e, props |-> Revised(type, old, e)] :
                     e \in Edits(key, old, "x", TextArg)} : key \in Revises(type)}
      ELSE {}

\* No claim is stuck: one that `check` accepts, whoever wrote it, can be revised
\* by each command with arguments that are themselves valid.
CheckedAreUsable ==
  \A n \in DOMAIN log :
    LET type == log[n].type
    IN  Accepted(n) => \A r \in Revisions(n) :
          (\A f \in DOMAIN r.edit \cap DOMAIN Schema[type] : r.edit[f] \in Schema[type][f])
            => Valid(type, r.props)

\* A revision changes nothing in what export shows of a claim but the fields it
\* sets, although it is rebuilt from a part of the claim and written through
\* the wire form.
ShownIsKept ==
  \A n \in DOMAIN log : log[n].type # "session" => \A r \in Revisions(n) :
    \A before \in Exported(log[n].type, PropsOf(n)) :
      \E after \in Exported(log[n].type, BareProps(Wire(r.props, n))) :
        \A f \in (DOMAIN before \cup DOMAIN after) \ DOMAIN r.edit :
          Get(before, f) = Get(after, f)

\* A live claim whose names are there is shown by export and by each list and
\* show command of its type, a task or session also by status; and in the
\* columns that they have in common they show the same of it.  Of the trees that
\* status lists nothing is said: it calls closed ones active.
ListsMatchExport ==
  \A n \in DOMAIN log :
    LET type == log[n].type
        props == PropsOf(n)
    IN  /\ type \in DOMAIN Keys /\ Live(n)
        /\ type = "session" => log[n].sup = 0
        /\ \A f \in Keys[type] : Get(props, f) \in NonEmpty
        => \E row \in Exported(type, props) : \A other \in Others(type, props) :
             \E r \in other[1] : \A column \in other[2] : Agree(row, r, column)

\* The shapes of emit_shacl follow the validators, whose lists of fields they
\* repeat: the properties of every claim of ours that `check` accepts, whoever
\* wrote it, are as often there and have the values that the shape of its type
\* asks for.  This is field by field, by the names both have; that documents
\* spell some of them in another way is not in it.
ShapesFollowSchema ==
  \A n \in DOMAIN log :
    log[n].type \in DOMAIN Schema /\ Accepted(n) => Conforms(log[n].type, PropsOf(n))

\* A command gets past the rejection layer only when, since it began, there was
\* no surface or one that permits it: neither edits of manifests nor a switch
\* of the surface in between lets one through that none permits.
Confined ==
  \A p \in Process : pc[p] \in {"gates", "run"} /\ Filtered(cmd[p].key) => granted[p]

\* Whatever the sticky setting, the environment and --manifest hold, a switch to
\* a builtin surface neither is rejected nor fails.
Recoverable ==
  \A p \in Process :
    cmd[p].key = <<"surface", "use">> /\ cmd[p].arg \in Builtin
      => pc[p] \notin {"rejected", "failed"}

\* A claim of a command is attributed to a session: exempt are session commands
\* and imports, and a session that was given as the empty string.
Attributed ==
  [][\A p \in Process : LET c == cmd[p] IN
       /\ log' # log /\ pc[p] = "run" /\ pc'[p] # "run"
       /\ c.key[1] \notin {"session", "import"} /\ c.session # ""
       => log'[Len(log')].by = c.session]_cliVars
=============================================================================
