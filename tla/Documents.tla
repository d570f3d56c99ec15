------------------------------ MODULE Documents ------------------------------
(***************************************************************************)
(* The documents of an estate: what the write path accepts, how props      *)
(* become a JSON-LD document and come back, what a revision carries over,  *)
(* what export shows and what import replays.  A JSON value is one of a    *)
(* few tokens; a value that is not there is "absent".  The wire key of a   *)
(* predicate is its prefix and its local name.  Ids and references between *)
(* documents are Board's and ClaimGraph's; here any live head is revised.  *)
(***************************************************************************)
EXTENDS Naturals, Sequences, Phases

CONSTANT MaxLog      \* bound on the claims of the log

VARIABLE log         \* the claims in the order of their appends

Free == {"x", "y"}   \* strings without a meaning of their own
SpecStatus == {"draft", "active", "done", "superseded"}
TaskStatus == {"pending", "in_progress", "done", "blocked", "waiting", "cancelled"}
OutcomeStatus == {"completed", "abandoned", "deferred", "superseded_by"}

NonEmpty == Free \cup SpecStatus \cup TaskStatus \cup OutcomeStatus \cup Phase
            \cup {"human", "backlog", "closed"}
String == NonEmpty \cup {""}

\* Arrays: of strings, of the empty string, of numbers, and of acceptance
\* criteria that are well formed or lack their command.
StringArray == {"[]", "[x]", "[y]", "['']"}
Criteria == {"[]", "[criterion]"}
Array == StringArray \cup {"[number]", "[criterion]", "[half]"}
Value == String \cup Array \cup {"null", "number"}

\* The function f, and what g has beside.
f ++ g == [x \in DOMAIN f \cup DOMAIN g |-> IF x \in DOMAIN f THEN f[x] ELSE g[x]]

Get(props, f) == IF f \in DOMAIN props THEN props[f] ELSE "absent"

\* The strings in an array; a string stands for the array of itself.
Members(v) == IF v \in {"[x]", "[y]"} THEN v
              ELSE IF v \in Free THEN [x |-> "[x]", y |-> "[y]"][v] ELSE "[]"

\* Those of the fields F that are non-empty strings.
Texts(props, F) == [f \in {g \in F : Get(props, g) \in NonEmpty} |-> props[f]]

Text(props, f) == IF Get(props, f) \in NonEmpty THEN props[f] ELSE ""
-----------------------------------------------------------------------------
(* Validation *)

Optional(S) == S \cup {"absent", "null"}
Required(F) == [f \in F |-> NonEmpty]
Maybe(F) == [f \in F |-> Optional(String)]

\* The validators: what each field of a type may hold.
TreeFields == Required({"name"}) ++ Maybe({"description"})
SpecFields ==
  Required({"tree", "id", "goal"}) ++ Maybe({"constraints", "decisions"})
  ++ [status |-> SpecStatus, topics |-> StringArray \ {"[]"},
      agree_snapshot |-> Optional(StringArray)]
TaskFields ==
  Required({"tree", "spec", "id", "summary"}) ++ Maybe({"description", "owner"})
  ++ [status |-> TaskStatus, gate |-> Optional({"human"}),
      depends_on |-> Optional(StringArray), files |-> Optional(StringArray),
      acceptance |-> Optional(Criteria)]
SessionFields == Required({"id"}) ++ Maybe({"tree", "spec", "summary"})
PhaseFields == Required({"session_id"}) ++ [name |-> Phase]
DiscoveryFields ==
  Required({"tree", "spec", "id", "date", "finding"}) ++ Maybe({"author", "impact", "action"})
CampaignFields ==
  Required({"tree", "spec"}) ++ Maybe({"summary", "title"})
  ++ [kind |-> {"active", "backlog"}, blocked_by |-> Optional(StringArray)]
OutcomeFields ==
  Required({"tree", "spec"}) ++ Maybe({"note", "linked_spec", "date"}) ++ [status |-> OutcomeStatus]

Schema ==
  [tree |-> TreeFields, spec |-> SpecFields, task |-> TaskFields, session |-> SessionFields,
   phase |-> PhaseFields, discovery |-> DiscoveryFields, campaign |-> CampaignFields,
   outcome |-> OutcomeFields]

\* validate_props.  Types that synthesist does not own have no validator.
Valid(type, props) ==
  /\ type \in DOMAIN Schema
  /\ \A f \in DOMAIN Schema[type] : Get(props, f) \in Schema[type][f]
  /\ type = "outcome" /\ props.status = "superseded_by" => Get(props, "linked_spec") \in String
-----------------------------------------------------------------------------
(* The wire form *)

\* snake_case names that are not their own lowerCamelCase.
Camel ==
  [depends_on |-> "dependsOn", agree_snapshot |-> "agreeSnapshot", session_id |-> "sessionId",
   blocked_by |-> "blockedBy", linked_spec |-> "linkedSpec", wait_reason |-> "waitReason",
   failure_note |-> "failureNote", reset_reason |-> "resetReason"]

LowerCamel(f) == IF f \in DOMAIN Camel THEN Camel[f] ELSE f
Snake(n) == IF \E f \in DOMAIN Camel : Camel[f] = n
            THEN CHOOSE f \in DOMAIN Camel : Camel[f] = n ELSE n

Always == {<<"@", "context">>, <<"@", "id">>, <<"@", "type">>,
           <<"prov", "generatedAtTime">>, <<"prov", "wasAttributedTo">>}
Supersedes == <<"synthesist", "supersedes">>
Parent == <<"nomograph", "parentAsserter">>
Envelope == Always \cup {Supersedes, Parent, <<"prov", "wasRevisionOf">>}

\* The values of doc under the names that name gives their keys.
Renamed(doc, name) ==
  [n \in {name[k] : k \in DOMAIN name} |-> doc[CHOOSE k \in DOMAIN name : name[k] = n]]

\* build_jsonld_doc; the envelope's values are left out.
Wire(props, sup) ==
  Renamed(props, [f \in DOMAIN props |-> <<"synthesist", LowerCamel(f)>>])
  ++ [k \in Always \cup (IF sup = 0 THEN {} ELSE {Supersedes}) |-> "envelope"]

\* Mutant: names are not turned back to snake_case.
BarePropsCamel(doc) == Renamed(doc, [k \in DOMAIN doc \ Envelope |-> k[2]])

\* Mutant: supersedes is taken for a property.
BarePropsSupersedes(doc) ==
  Renamed(doc, [k \in DOMAIN doc \ (Envelope \ {Supersedes}) |-> Snake(k[2])])

\* bare_props, v3_to_v2_props: the module prefix goes, whichever it is.
BareProps(doc) == Renamed(doc, [k \in DOMAIN doc \ Envelope |-> Snake(k[2])])

\* The props that import takes from a document.  Of the predicates outside
\* synthesist: only the parent asserter is ever written.
ReplayedProps(doc) ==
  Renamed(doc, [k \in {l \in DOMAIN doc : l[1] \notin {"@", "prov"} /\ l \notin {Supersedes, Parent}}
                  |-> Snake(k[2])])
-----------------------------------------------------------------------------
(* Claims and what the commands make of them *)

\* Claim n is live when no claim supersedes it.
Live(n) == \A m \in DOMAIN log : log[m].sup # n
PropsOf(n) == BareProps(log[n].doc)

\* Mutant: a revision loses the gate.
TaskPropsUngated(props) ==
  Texts(props, {"tree", "spec", "id", "summary", "description"})
  ++ [status |-> Text(props, "status"),
      depends_on |-> Members(Get(props, "depends_on")), files |-> Members(Get(props, "files"))]

\* live_tasks: what every task command starts from.
TaskProps(props) ==
  Texts(props, {"tree", "spec", "id", "summary", "description", "gate"})
  ++ [status |-> Text(props, "status"),
      depends_on |-> Members(Get(props, "depends_on")), files |-> Members(Get(props, "files"))]

\* live_spec_heads: what spec update starts from.
SpecProps(props) ==
  Texts(props, {"tree", "id", "goal", "constraints", "decisions", "status", "outcome"})

\* What tree close and session close start from.
TreeProps(props) == Texts(props, {"name", "description"})
SessionProps(props) == Texts(props, {"id", "tree", "spec", "summary"})

Rebuilt(type, props) ==
  CASE type = "task" -> TaskProps(props)
    [] type = "spec" -> SpecProps(props)
    [] type = "tree" -> TreeProps(props)
    [] type = "session" -> SessionProps(props)

\* What `check` says of claim n: foreign types are warned about only.
Accepted(n) == log[n].type \in DOMAIN Schema => Valid(log[n].type, PropsOf(n))

\* A command finds the claim by these fields.
FoundBy == [task |-> {"tree", "spec", "id"}, spec |-> {"tree", "id"},
            tree |-> {"name"}, session |-> {"id"}]
Found(type, props) == \A f \in FoundBy[type] : Get(props, f) \in Free

One(F, S) == UNION {[{f} -> S] : f \in F}   \* one of the fields F, from S
NoEdit == [f \in {} |-> ""]

\* What a revising command sets in a claim with these props, with one option
\* given of those that do not depend on each other; text is what its text
\* arguments may be.
ClaimEdits(props, session) ==
  {[status |-> "in_progress", owner |-> session] : s \in {Text(props, "status")} \cap {"pending"}}
StatusEdits(status) == {[status |-> status]}
WaitEdits(text) == {[status |-> "waiting", wait_reason |-> r] : r \in text}
CancelEdits(text) ==
  StatusEdits("cancelled") \cup {[status |-> "cancelled", failure_note |-> r] : r \in text}
ResetEdits(text) ==
  StatusEdits("pending") \cup {[status |-> "pending", reset_reason |-> r] : r \in text}
TaskUpdateEdits(text) ==   \* other dependencies: Board
  One({"summary", "description"}, text) \cup One({"files"}, {"[]", "[x]"})
  \cup {[depends_on |-> "[]"], NoEdit}
AcceptanceEdits(props) ==
  {[acceptance |-> IF Get(props, "acceptance") = "[half]" THEN "[half]" ELSE "[criterion]"]}
SpecUpdateEdits(text) ==
  One({"goal", "constraints", "decisions", "outcome"}, text) \cup One({"status"}, SpecStatus)
  \cup One({"agree_snapshot"}, {"[]", "[x]"})
TreeCloseEdits(props) == {[status |-> "closed"] : s \in {Text(props, "status")} \ {"closed"}}

Edits(key, props, session, text) ==
  CASE key = <<"task", "claim">> -> ClaimEdits(props, session)
    [] key = <<"task", "done">> -> StatusEdits("done")
    [] key = <<"task", "block">> -> StatusEdits("blocked")
    [] key = <<"task", "wait">> -> WaitEdits(text)
    [] key = <<"task", "cancel">> -> CancelEdits(text)
    [] key = <<"task", "reset">> -> ResetEdits(text)
    [] key = <<"task", "update">> -> TaskUpdateEdits(text)
    [] key = <<"task", "acceptance">> -> AcceptanceEdits(props)
    [] key = <<"spec", "update">> -> SpecUpdateEdits(text)
    [] key = <<"tree", "close">> -> TreeCloseEdits(props)
    [] key = <<"session", "close">> -> {NoEdit}

\* Mutant: no topics where the rebuilt props have none.
RevisedNoTopics(type, props, edit) == edit ++ Rebuilt(type, props)

\* The props of a revision.  A spec update gives the spec its default topics.
Revised(type, props, edit) ==
  edit ++ Rebuilt(type, props)
  ++ [f \in (IF type = "spec" THEN {"topics"} ELSE {}) |-> Members(props.id)]

Revises(type) ==
  CASE type = "task" -> {"task"} \X {"claim", "done", "block", "wait", "cancel", "reset",
                                     "update", "acceptance"}
    [] type = "spec" -> {<<"spec", "update">>}
    [] type = "tree" -> {<<"tree", "close">>}
    [] type = "session" -> {<<"session", "close">>}
    [] OTHER -> {}

\* From, and each of From with one of the options.
With(From, options) == From \cup {o ++ p : o \in options, p \in From}

\* The props that each command which adds may append.
TreeAdded(text) == [name : text, description : text]
SpecAdded(text) ==
  With([tree : {"x"}, id : {"x"}, goal : text \ {""}, status : {"active"}, topics : {"[x]"}],
       One({"constraints", "decisions"}, text))
TaskAdded(text) ==
  With([tree : {"x"}, spec : {"x"}, id : {"x"}, summary : text, status : {"pending"},
        depends_on : {"[]", "['']"}, files : {"[]", "[x]"}],
       One({"description"}, text) \cup [gate : {"human"}])
DiscoveryAdded(text) ==
  With([tree : {"x"}, spec : {"x"}, id : {"y"}, date : text, finding : text \ {""}],
       One({"author", "impact", "action"}, text))
CampaignAdded(text) ==
  With([tree : {"x"}, spec : {"x"}, kind : {"active", "backlog"}],
       One({"summary", "title"}, text \ {""}) \cup [blocked_by : {"[x]"}])
OutcomeAdded(text) ==
  With([tree : {"x"}, spec : {"x"}, status : OutcomeStatus, date : text],
       One({"note", "linked_spec"}, text))
SessionStarted(text) == With([id : text \ {""}], One({"tree", "spec", "summary"}, text))
PhaseAdded(session) == [session_id : {session}, name : Phase]

Added(key, session, text) ==
  CASE key = <<"tree", "add">> -> TreeAdded(text)
    [] key = <<"spec", "add">> -> SpecAdded(text)
    [] key = <<"task", "add">> -> TaskAdded(text)
    [] key = <<"discovery", "add">> -> DiscoveryAdded(text)
    [] key = <<"campaign", "add">> -> CampaignAdded(text)
    [] key = <<"outcome", "add">> -> OutcomeAdded(text)
    [] key = <<"session", "start">> -> SessionStarted(text)
    [] key = <<"phase", "set">> -> PhaseAdded(session)

Adds == {"tree", "spec", "task", "discovery", "campaign", "outcome"} \X {"add"}
        \cup {<<"session", "start">>, <<"phase", "set">>}
Writes == Adds \cup UNION {Revises(t) : t \in DOMAIN FoundBy}
=============================================================================
