-------------------------------- MODULE Views --------------------------------
(***************************************************************************)
(* What each reader shows of a live claim: export, the list and show       *)
(* commands, and status of tasks and sessions.  Each parses the document   *)
(* in code of its own.  A view is the set of the rows it makes of the      *)
(* claim: one, or none.  Left out are the order of rows, the columns of    *)
(* the envelope, and the trees that status lists: it says active of every  *)
(* live tree, closed ones, too, whatever the claim says.                   *)
(***************************************************************************)
EXTENDS Documents

\* Those of the fields F that are strings, empty or not.
Strings(props, F) == [f \in {g \in F : Get(props, g) \in String} |-> props[f]]

\* The row, when the fields F of the claim are strings; or non-empty ones.
IfStrings(props, F, row) == {r \in {row} : \A f \in F : Get(props, f) \in String}
IfNamed(props, F, row) == {r \in {row} : \A f \in F : Get(props, f) \in NonEmpty}

Keys == [tree |-> {"name"}, spec |-> {"tree", "id"}, task |-> {"tree", "spec", "id"},
         discovery |-> {"tree", "spec", "id"}, campaign |-> {"tree", "spec"},
         outcome |-> {"tree", "spec"}, session |-> {"id"}, phase |-> {"session_id", "name"}]

\* Statuses that are missing or empty are shown as active.
OrActive(status) == IF status \in NonEmpty THEN status ELSE "active"

\* The strings in arrays: depends_on, files, blocked_by.
Lists(props, F) == [f \in F |-> Members(Get(props, f))]
-----------------------------------------------------------------------------
(* export *)

ProjectTree(props) == IfNamed(props, Keys.tree, Texts(props, {"name", "description", "status"}))
ProjectSpec(props) ==
  IfStrings(props, Keys.spec,
    Strings(props, Keys.spec)
    ++ Texts(props, {"goal", "constraints", "decisions", "status", "outcome"}))
ProjectTask(props) ==
  IfStrings(props, Keys.task,
    Strings(props, Keys.task) ++ Texts(props, {"summary", "description", "gate"})
    ++ [status |-> Text(props, "status")] ++ Lists(props, {"depends_on", "files"}))
ProjectDiscovery(props) ==
  IfStrings(props, Keys.discovery,
    Strings(props, Keys.discovery) ++ Texts(props, {"date", "author", "finding", "impact", "action"}))
\* Mutant: a blocker given as a string, not an array, is not exported.
ProjectCampaignArrays(props) ==
  IfStrings(props, Keys.campaign,
    Strings(props, Keys.campaign) ++ Texts(props, {"kind", "summary", "title"})
    ++ [blocked_by |-> IF Get(props, "blocked_by") \in String THEN "[]"
                       ELSE Members(Get(props, "blocked_by"))])

ProjectCampaign(props) ==
  IfStrings(props, Keys.campaign,
    Strings(props, Keys.campaign) ++ Texts(props, {"kind", "summary", "title"})
    ++ Lists(props, {"blocked_by"}))

ProjectSession(props) == IfNamed(props, Keys.session, Texts(props, {"id", "tree", "spec", "summary"}))
ProjectPhase(props) == IfNamed(props, Keys.phase, Strings(props, Keys.phase))
ProjectOutcome(props) ==
  IfStrings(props, Keys.outcome,
    Strings(props, Keys.outcome) ++ Texts(props, {"status", "note", "linked_spec", "date"}))

Exported(type, props) ==
  CASE type = "tree" -> ProjectTree(props)
    [] type = "spec" -> ProjectSpec(props)
    [] type = "task" -> ProjectTask(props)
    [] type = "discovery" -> ProjectDiscovery(props)
    [] type = "campaign" -> ProjectCampaign(props)
    [] type = "session" -> ProjectSession(props)
    [] type = "phase" -> ProjectPhase(props)
    [] type = "outcome" -> ProjectOutcome(props)
-----------------------------------------------------------------------------
(* The list and show commands, of the claim's own tree and spec *)

\* A description is listed as it is, whatever it is.
ListTree(props) ==
  IfNamed(props, Keys.tree,
    Texts(props, Keys.tree)
    ++ [status |-> OrActive(Get(props, "status")),
        description |-> IF "description" \in DOMAIN props THEN props.description ELSE "null"])
ListSpec(props) ==
  IfNamed(props, Keys.spec, Texts(SpecProps(props), {"id", "goal", "status", "outcome"}))
ShowSpec(props) == IfNamed(props, Keys.spec, SpecProps(props))
ListTask(props) == IfNamed(props, Keys.task, TaskProps(props))
ListDiscovery(props) ==
  IfNamed(props, {"tree", "spec"}, Texts(props, {"id", "date", "author", "finding", "impact", "action"}))
ListCampaign(props) ==
  IfStrings(props, Keys.campaign,
    Strings(props, Keys.campaign) ++ Texts(props, {"kind", "summary", "title"})
    ++ Lists(props, {"blocked_by"}))
ListSession(props) == IfNamed(props, Keys.session, Texts(props, {"id", "tree", "spec", "summary"}))
ShowSession(props) == IfNamed(props, Keys.session, Texts(props, {"id", "tree", "spec", "summary"}))
ShowPhase(props) ==
  IfNamed(props, {"session_id"}, Strings(props, Keys.phase))

\* The note goes by the name of summary, unless the claim has one.
ListOutcome(props) ==
  IfNamed(props, Keys.outcome,
    Strings(props, Keys.outcome)
    ++ [status |-> Text(props, "status"),
        summary |-> Text(props, IF "summary" \in DOMAIN props THEN "summary" ELSE "note")])
-----------------------------------------------------------------------------
(* status: the tasks of which it picks the ready ones, and the sessions *)

StatusTask(props) ==
  {[f \in Keys.task \cup {"status"} |-> IF Get(props, f) \in String THEN props[f] ELSE ""]
   ++ Texts(props, {"summary", "gate"}) ++ Lists(props, {"depends_on"})}
StatusSession(props) == IfNamed(props, Keys.session, Texts(props, {"id", "tree", "spec", "summary"}))

\* Each view of a claim beside export, with the columns it has of those that
\* export shows.
Others(type, props) ==
  CASE type = "tree" -> {<<ListTree(props), {"name", "status", "description"}>>}
    [] type = "spec" -> {<<ListSpec(props), {"id", "goal", "status", "outcome"}>>,
                         <<ShowSpec(props), {"tree", "id", "goal", "constraints", "decisions",
                                             "status", "outcome"}>>}
    [] type = "task" -> {<<ListTask(props), Keys.task \cup {"status", "summary", "description",
                                                            "gate", "depends_on", "files"}>>,
                         <<StatusTask(props), Keys.task \cup {"status", "summary", "gate",
                                                              "depends_on"}>>}
    [] type = "discovery" -> {<<ListDiscovery(props), {"id", "date", "author", "finding", "impact",
                                                       "action"}>>}
    [] type = "campaign" -> {<<ListCampaign(props), {"tree", "spec", "kind", "summary", "title",
                                                     "blocked_by"}>>}
    [] type = "session" -> {<<v, {"id", "tree", "spec", "summary"}>> :
                              v \in {ListSession(props), ShowSession(props), StatusSession(props)}}
    [] type = "phase" -> {<<ShowPhase(props), Keys.phase>>}
    [] type = "outcome" -> {<<ListOutcome(props), {"tree", "spec", "status"}>>}

\* Two rows say the same of a column when what one of them shows there, if
\* anything, the other shows, too.  A tree without a status is active.
Agree(row, other, column) ==
  LET shown == IF column \in {"depends_on", "files", "blocked_by"} THEN {"[x]", "[y]"} ELSE NonEmpty
      a == Get(row, column)
      b == Get(other, column)
  IN  a \in shown \/ b \in shown => a = b \/ (column = "status" /\ {a, b} = {"absent", "active"})
=============================================================================
