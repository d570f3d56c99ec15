------------------------------- MODULE Shapes -------------------------------
(***************************************************************************)
(* The SHACL shapes that emit_shacl prints: for each type, how often a     *)
(* property may occur and what its values are; others may occur beside.    *)
(* Here a shape is about the properties of a claim, by the names that the  *)
(* validators give them.  Printed, it is about predicates of the document, *)
(* and those it names in snake_case, too, where documents have             *)
(* lowerCamelCase: see the README.                                         *)
(***************************************************************************)
EXTENDS Documents

Prop(path, card, values) == [path |-> path, card |-> card, values |-> values]

req_str(F) == {Prop(f, "Required", String) : f \in F}
opt_str(F) == {Prop(f, "Optional", String) : f \in F}
req_enum(f, S) == {Prop(f, "Required", S)}
opt_enum(f, S) == {Prop(f, "Optional", S)}

\* Literals and IRIs, of any number.  The context of a document makes IRIs of
\* the strings in agreeSnapshot.
Literal == Value
Iri == StringArray
req_many_literal(f) == {Prop(f, "RequiredMany", Literal)}
many_literal(F) == {Prop(f, "Many", Literal) : f \in F}
many_iri(f) == {Prop(f, "Many", Iri)}

shapes ==
  [tree |-> req_str({"name"}) \cup opt_str({"description"}),
   spec |-> req_str({"tree", "id", "goal"}) \cup req_enum("status", SpecStatus)
            \cup opt_str({"constraints", "decisions"})
            \cup req_many_literal("topics") \cup many_iri("agree_snapshot"),
   task |-> req_str({"tree", "spec", "id", "summary"}) \cup req_enum("status", TaskStatus)
            \cup opt_enum("gate", {"human"}) \cup opt_str({"description", "owner"})
            \cup many_literal({"depends_on", "files"}),
   discovery |-> req_str({"tree", "spec", "id", "date", "finding"})
                 \cup opt_str({"author", "impact", "action"}),
   session |-> req_str({"id"}) \cup opt_str({"tree", "spec", "summary"}),
   phase |-> req_str({"session_id"}) \cup req_enum("name", Phase),
   campaign |-> req_str({"tree", "spec"}) \cup req_enum("kind", {"active", "backlog"})
                \cup opt_str({"summary", "title"}) \cup many_literal({"blocked_by"}),
   outcome |-> req_str({"tree", "spec"}) \cup req_enum("status", OutcomeStatus)
               \cup opt_str({"note", "linked_spec", "date"})]

\* Mutant: an optional property is printed with a minimum, too.
MinCountOptional(card) == IF card = "Many" THEN 0 ELSE 1

\* The sh:minCount of a cardinality, and whether it has sh:maxCount 1.
MinCount(card) == IF card \in {"Required", "RequiredMany"} THEN 1 ELSE 0
Single(card) == card \in {"Required", "Optional"}

\* How many values a JSON-LD processor makes of a property: one, one for each
\* member of an array (here they have one at most), or none for null.
Occurs(v) == IF v \in {"absent", "null", "[]"} THEN 0 ELSE 1

\* Values of an array are checked one by one, and no enumeration is of arrays.
Conforms(type, props) ==
  \A prop \in shapes[type] :
    LET v == Get(props, prop.path)
    IN  /\ Occurs(v) >= MinCount(prop.card)
        /\ Single(prop.card) => v \notin Array
        /\ Occurs(v) = 1 => v \in prop.values
=============================================================================
