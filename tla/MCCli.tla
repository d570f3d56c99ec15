------------------------------- MODULE MCCli -------------------------------
(***************************************************************************)
(* Runs of Cli and of Estates.  A behaviour is about surfaces, with two    *)
(* processes of which one switches them; or about the gates; or about      *)
(* documents: one that came from elsewhere or that a command added, and    *)
(* revisions of it; or about the estates that two processes find.          *)
(***************************************************************************)
EXTENDS Cli, Estates

CONSTANTS p1, p2, s1, s2, none

VARIABLE part

Run(key, arg, override, env, session, force) ==
  [key |-> key, arg |-> arg, override |-> override, env |-> env,
   session |-> session, force |-> force]

Plain(key) == Run(key, "absent", NoRef, NoRef, "x", TRUE)

\* One command of each kind of permission, gate and handler.
Commands ==
  {<<"status">>, <<"tree", "add">>, <<"task", "block">>, <<"outcome", "add">>,
   <<"session", "start">>, <<"phase", "set">>, <<"migrate", "run">>,
   <<"overlay", "run">>, <<"jig", "run">>, <<"jig", "aggregate">>, <<"surface", "show">>}

Commanding ==
  {Run(k, "absent", r[1], r[2], "x", TRUE) :
     k \in Commands, r \in {<<NoRef, NoRef>>, <<NoRef, "own">>, <<"pruned", "own">>}}
Switching == {Run(<<"surface", "use">>, r, NoRef, e, none, FALSE) :
                r \in {"baseline-v25", "sparql-exposed", "own"}, e \in {NoRef, "own"}}
Gating == {Run(k, "absent", NoRef, NoRef, s, f) :
             k \in Commands, s \in {none, "", "x"}, f \in BOOLEAN}
Writing == {Plain(k) : k \in Writes \cup {<<"import">>}}

MCInvocation == Commanding \cup Switching \cup Gating \cup Writing

\* A manifest of its own, which names no command that it does not need.
MCEdited ==
  {Including({}, {<<"jig", "run">>}),
   [include |-> {}, exclude |-> {<<"status">>, <<"jig", "run">>}, add |-> {<<"jig", "run">>}]}

SurfacePart ==
  \/ \E c \in Commanding : Begin(p1, c)
  \/ \E c \in Switching : Begin(p2, c)
  \/ \E p \in Process : \/ ReadReference(p) \/ ResolveManifest(p) \/ PassGates(p)
                        \/ UseSurface(p) \/ WriteSurface(p) \/ RunRead(p) \/ Kill(p)
  \/ \E path \in Path, m \in Edited \cup {Broken} : Edit(path, m)

\* Bound: only a phase comes before another claim.
GatePart ==
  \/ (log = <<>> \/ (Len(log) = 1 /\ log[1].type = "phase")) /\ \E c \in Gating : Begin(p1, c)
  \/ ReadReference(p1) \/ PassGates(p1) \/ RunAdd(p1) \/ RunPhaseSet(p1) \/ RunRead(p1)

\* Fields that no schema names.
Extra == [tree |-> {"status"}, spec |-> {"outcome"}, task |-> {"wait_reason", "failure_note"}]
Fields(type) == DOMAIN Schema[type] \cup (IF type \in DOMAIN Extra THEN Extra[type] ELSE {})

\* A document of the type with every field there.
Sample(type) ==
  [f \in Fields(type) |->
     CASE f = "acceptance" -> "[criterion]"
       [] f \in {"depends_on", "files", "topics", "agree_snapshot", "blocked_by"} -> "[x]"
       [] f = "status" -> CASE type = "task" -> "pending"
                            [] type = "outcome" -> "superseded_by" [] OTHER -> "active"
       [] f = "gate" -> "human"
       [] f = "kind" -> "backlog"
       [] f = "name" /\ type = "phase" -> "execute"
       [] OTHER -> "x"]

Odd == {"null", "number", "", "y", "[]", "['']", "[number]", "[half]", "closed", "blocked", "done"}

\* What may come from elsewhere: the sample, with one field odd or missing.
Near(type) ==
  {Sample(type)} \cup {[Sample(type) EXCEPT ![f] = v] : f \in Fields(type), v \in Odd}
  \cup {[g \in Fields(type) \ {f} |-> Sample(type)[g]] : f \in Fields(type)}

FromElsewhere(type, props, parent) ==
  [type |-> type, sup |-> 0, by |-> "elsewhere",
   doc |-> Wire(props, 0) ++ [k \in parent |-> "envelope"]]

MCForeign ==
  UNION {{FromElsewhere(t, props, {}) : props \in Near(t)} : t \in DOMAIN Schema}
  \cup {FromElsewhere(t, Sample(t), {Parent}) : t \in DOMAIN Schema}
  \cup {FromElsewhere("signal", [tree |-> "x"], {})}

\* Bound: what is neither a revision nor compares with the claim comes first.
DocumentPart ==
  \/ log = <<>> /\ \E c \in Writing : Begin(p1, c)
  \/ log = <<>> /\ pc[p1] = "idle" /\ \E c \in Foreign : Receive(c)
  \/ Len(log) = 1 /\ \E k \in Revises(log[1].type) \cup {<<"task", "add">>, <<"phase", "set">>} :
                       (k[2] \in {"add", "set"} => k[1] = log[1].type) /\ Begin(p1, Plain(k))
  \/ ReadReference(p1) \/ PassGates(p1)
  \/ RunAdd(p1) \/ RunPhaseSet(p1) \/ RunRevise(p1) \/ RunImport(p1) \/ RunRead(p1)

\* Directories one below the other, and the places where commands are run.
Deep == <<"a", "b">>
MCDir == {<<>>, <<"a">>, Deep}
In(kind, cwd, flag, env) == [kind |-> kind, cwd |-> cwd, flag |-> flag, env |-> env]
MCCall ==
  {In(k, d, NoDir, NoDir) : k \in Kinds, d \in {<<"a">>, Deep}}
  \cup {In(k, Deep, NoDir, <<"a">>) : k \in Kinds} \cup {In(k, Deep, <<>>, NoDir) : k \in Kinds}
  \cup {In("init", <<>>, NoDir, NoDir)}

\* Bound: one shell runs a command, and an aggregate after a jig run; the other
\* one command that may create an estate.
EstatePart ==
  \/ \E c \in MCCall :
       \/ at[s1] = "idle" /\ c.kind # "aggregate" /\ Enter(s1, c)
       \/ at[s1] = "ok" /\ call[s1].kind = "jig" /\ c.kind = "aggregate" /\ Enter(s1, c)
       \/ at[s2] = "idle" /\ c.kind \in {"init", "store"} /\ Enter(s2, c)
  \/ \E s \in Shell : Search(s)

MCInit ==
  /\ CliInit /\ EstatesInit
  /\ part \in {"surfaces", "gates", "documents", "estates"}
  /\ part # "estates" => estates = {} /\ legacy = {}

MCNext ==
  /\ part' = part
  /\ \/ /\ part = "surfaces" /\ SurfacePart /\ Observe /\ UNCHANGED estateVars
     \/ /\ part = "gates" /\ GatePart /\ Observe /\ UNCHANGED estateVars
     \/ /\ part = "documents" /\ DocumentPart /\ Observe /\ UNCHANGED estateVars
     \/ /\ part = "estates" /\ EstatePart /\ UNCHANGED cliVars

MCSpec == MCInit /\ [][MCNext]_<<cliVars, estateVars, part>>
=============================================================================
