---------------------------- MODULE SchemaRelax ----------------------------
(***************************************************************************)
(* What a response body is held against: relax_for_responses                *)
(* (rustmistmcp-core/src/catalog.rs) and the bounds on JSON values           *)
(* (validate_value_bounds, rustmistmcp-core/src/request.rs).               *)
(*                                                                         *)
(* Schemas are JSON values, as they are in the catalog, so the walk sees a  *)
(* `properties` map as it sees a schema.  Constraints on numbers, lengths   *)
(* and formats are not relaxed and are left out, and so is $ref: the        *)
(* components it leads to are relaxed by the same walk.                    *)
(***************************************************************************)
EXTENDS JsonValue

CONSTANTS
  Schemas,            \* declared response schemas
  Bodies,             \* JSON bodies that Mist may answer with
  MAX_VALUE_DEPTH,    \* 32 in the code
  MAX_VALUE_MEMBERS   \* 1024 in the code

ASSUME BoundsAssumption == MAX_VALUE_DEPTH \in Nat /\ MAX_VALUE_MEMBERS \in Nat

VARIABLES
  phase,   \* of a response: "received", "bounded", "refused", "judged"
  schema, body,
  passed   \* the relaxed schema admits the body

relaxVars == <<phase, schema, body, passed>>

-----------------------------------------------------------------------------
(* validate_value_bounds *)

Members(j) == IF IsArr(j) THEN Len(j.e) ELSE Cardinality(DOMAIN Fields(j))

\* Mutant of ValidateValueBounds: the members of an array are not descended into.
BoundsOfObjectsOnly(j, depth) ==
  LET bounded[x \in JSON] ==
        [d \in Nat |->
           /\ d <= MAX_VALUE_DEPTH
           /\ Members(x) <= MAX_VALUE_MEMBERS
           /\ IsObj(x) => \A c \in Children(x) : bounded[c][d + 1]] IN
  bounded[j][depth]

\* The depth is checked at every value and the count at every container.  The
\* bounds on the bytes of strings and keys are left out.
validateValueBounds[j \in JSON] ==
  [depth \in Nat |->
     /\ depth <= MAX_VALUE_DEPTH
     /\ Members(j) <= MAX_VALUE_MEMBERS
     /\ \A c \in Children(j) : validateValueBounds[c][depth + 1]]
ValidateValueBounds(j, depth) == validateValueBounds[j][depth]

-----------------------------------------------------------------------------
(* relax_for_responses *)

\* The declared type names, one or several.
TypeNames(type) == IF type.t = "str" THEN <<type>> ELSE Elements(type)
Listed(name, type) == \E i \in DOMAIN TypeNames(type) : TypeNames(type)[i] = Str(name)

\* widen_type_to_admit_null; a `type` that is no name or list of names is the
\* schema of a property called "type", and is left to the walk.
WidenTypeToAdmitNull(type) ==
  IF type.t \in {"str", "arr"} /\ ~Listed("null", type)
    THEN Arr(Append(TypeNames(type), Str("null"))) ELSE type

\* widen_integer_to_admit_number
WidenIntegerToAdmitNumber(type) ==
  IF type.t \in {"str", "arr"} /\ Listed("integer", type) /\ ~Listed("number", type)
    THEN Arr(Append(TypeNames(type), Str("number"))) ELSE type

\* Mutant of RelaxKeywords: oneOf is left as it is.
RelaxKeywordsKeepsOneOf(f) ==
  LET dropped == {"enum", "required"} \cup
                 {k \in DOMAIN f \cap {"additionalProperties"} : f[k] = False} IN
  [k \in DOMAIN f \ dropped |->
     IF k = "type" THEN WidenIntegerToAdmitNumber(WidenTypeToAdmitNull(f[k])) ELSE f[k]]

\* Mutant of RelaxKeywords: the type goes the way of the vocabulary.
RelaxKeywordsDropsType(f) ==
  LET renamed == IF "oneOf" \in DOMAIN f THEN {"anyOf"} ELSE {}
      dropped == {"enum", "required", "oneOf", "additionalProperties", "type"} IN
  [k \in (DOMAIN f \ dropped) \cup renamed |-> IF k \in renamed THEN f["oneOf"] ELSE f[k]]

\* The keywords of one object: vocabulary is dropped, oneOf becomes anyOf and
\* takes its place, the type is widened.
RelaxKeywords(f) ==
  LET dropped == {"enum", "required", "oneOf"} \cup
                 {k \in DOMAIN f \cap {"additionalProperties"} : f[k] = False}
      renamed == IF "oneOf" \in DOMAIN f THEN {"anyOf"} ELSE {} IN
  [k \in (DOMAIN f \ dropped) \cup renamed |->
     CASE k \in renamed -> f["oneOf"]
       [] k = "type" -> WidenIntegerToAdmitNumber(WidenTypeToAdmitNull(f[k]))
       [] OTHER -> f[k]]

\* relax_for_responses: every object of the tree, whatever it is there for.  The
\* code changes the keywords before it walks on to the values, which comes to
\* the same: the walk leaves False and the names of types as they are.
relaxForResponses[j \in JSON] ==
  CASE IsObj(j) -> Obj(RelaxKeywords([k \in DOMAIN j.f |-> relaxForResponses[j.f[k]]]))
    [] IsArr(j) -> Arr([i \in DOMAIN j.e |-> relaxForResponses[j.e[i]]])
    [] OTHER -> j
RelaxForResponses(j) == relaxForResponses[j]

-----------------------------------------------------------------------------
(* external: the jsonschema crate *)

TypeOf(v) ==
  CASE v.t = "null" -> {"null"} [] v.t = "int" -> {"integer", "number"} [] v.t = "frac" -> {"number"}
    [] v.t \in {"false", "true"} -> {"boolean"} [] v.t = "str" -> {"string"} [] v.t = "arr" -> {"array"}
    [] OTHER -> {"object"}

Has(s, k) == k \in DOMAIN Fields(s)
Properties(s) == IF Has(s, "properties") THEN Fields(Fields(s)["properties"]) ELSE NoFields
Further(v, s) == DOMAIN Fields(v) \ DOMAIN Properties(s)
Branches(s, union) == IF Has(s, union) THEN Elements(Fields(s)[union]) ELSE <<>>

Typed(s, v) == Has(s, "type") => \E n \in TypeOf(v) : Listed(n, Fields(s)["type"])
Enumerated(s, v) ==
  Has(s, "enum") => LET e == Elements(Fields(s)["enum"]) IN \E i \in DOMAIN e : e[i] = v
Complete(s, v) ==
  Has(s, "required") /\ IsObj(v) =>
    LET e == Elements(Fields(s)["required"]) IN \A i \in DOMAIN e : \E k \in DOMAIN v.f : e[i] = Str(k)

\* The schema False admits nothing.
accepts[s \in JSON] ==
  [v \in JSON |->
     /\ s # False /\ Typed(s, v) /\ Enumerated(s, v) /\ Complete(s, v)
     /\ \A k \in DOMAIN Fields(v) \cap DOMAIN Properties(s) : accepts[Properties(s)[k]][Fields(v)[k]]
     /\ Has(s, "additionalProperties") =>
          \A k \in Further(v, s) : accepts[Fields(s)["additionalProperties"]][Fields(v)[k]]
     /\ Has(s, "items") => \A i \in DOMAIN Elements(v) : accepts[Fields(s)["items"]][Elements(v)[i]]
     /\ Has(s, "anyOf") =>
          \E i \in DOMAIN Branches(s, "anyOf") : accepts[Branches(s, "anyOf")[i]][v]
     /\ Has(s, "oneOf") =>
          \E i \in DOMAIN Branches(s, "oneOf") :
            /\ accepts[Branches(s, "oneOf")[i]][v]
            /\ \A j \in DOMAIN Branches(s, "oneOf") \ {i} : ~accepts[Branches(s, "oneOf")[j]][v]]
Accepts(s, v) == accepts[s][v]

-----------------------------------------------------------------------------
(* A response is validated *)

RelaxInit ==
  /\ phase = "received" /\ schema \in Schemas /\ body \in Bodies
  /\ passed = FALSE

\* validate_response_bounds
Bound ==
  /\ phase = "received"
  /\ phase' = IF ValidateValueBounds(body, 0) THEN "bounded" ELSE "refused"
  /\ UNCHANGED <<schema, body, passed>>

\* schema_matches, in the direction of a response.
JudgeResponse ==
  /\ phase = "bounded"
  /\ passed' = Accepts(RelaxForResponses(schema), body)
  /\ phase' = "judged"
  /\ UNCHANGED <<schema, body>>

RelaxNext == Bound \/ JudgeResponse

RelaxSpec == RelaxInit /\ [][RelaxNext]_relaxVars

-----------------------------------------------------------------------------
(* Properties *)

\* The longest way down through arrays and objects.
height[j \in JSON] ==
  IF Children(j) = {} THEN 0
  ELSE 1 + CHOOSE h \in {height[c] : c \in Children(j)} : \A c \in Children(j) : height[c] <= h

\* A body is refused for its size just when it nests deeper than the limit or
\* has a container, at any depth, with too many members: neither the last
\* admitted level nor what hides inside arrays is miscounted.
BoundsExact ==
  phase # "received" =>
    (phase = "refused") =
      (height[body] > MAX_VALUE_DEPTH \/ \E j \in Parts(body) : Members(j) > MAX_VALUE_MEMBERS)

\* No object of the schema has a property that is called like these keywords.
NamesNoKeyword(s, keywords) ==
  \A j \in Parts(s) : DOMAIN Properties(j) \cap keywords = {}

\* What holds of the pinned catalog: no property is called oneOf, one called
\* enum or required is never in an object with a schema for further properties,
\* and no schema has two unions.
AsInCatalog(s) ==
  /\ NamesNoKeyword(s, {"oneOf"})
  /\ \A j \in Parts(s) :
       /\ Has(j, "additionalProperties") =>
            \/ Fields(j)["additionalProperties"] = False
            \/ DOMAIN Properties(j) \cap {"enum", "required"} = {}
       /\ ~(Has(j, "oneOf") /\ Has(j, "anyOf"))

\* What a schema is relaxed to is among the values at hand.
ASSUME SchemasAssumption ==
  /\ Schemas \subseteq JSON /\ Bodies \subseteq JSON
  /\ \A s \in Schemas : AsInCatalog(s) /\ RelaxForResponses(s) \in JSON

\* "Each covering an additive vendor change": whatever the declared schema
\* admits, unions whose branches overlap once they are relaxed included, is
\* admitted after relaxation.
NothingDeclaredLost == phase = "judged" /\ Accepts(schema, body) => passed

\* The shape a schema declares: containers and the types of what is present
\* and not null, in some branch of a union; an integer may be fractional.
TypedLoosely(s, v) ==
  Has(s, "type") =>
    \/ v.t = "null"
    \/ \E n \in TypeOf(v) : Listed(n, Fields(s)["type"])
    \/ "number" \in TypeOf(v) /\ Listed("integer", Fields(s)["type"])

shaped[s \in JSON] ==
  [v \in JSON |->
     /\ TypedLoosely(s, v)
     /\ \A k \in DOMAIN Fields(v) \cap DOMAIN Properties(s) : shaped[Properties(s)[k]][Fields(v)[k]]
     /\ Has(s, "additionalProperties") =>
          \A k \in Further(v, s) : shaped[Fields(s)["additionalProperties"]][Fields(v)[k]]
     /\ Has(s, "items") => \A i \in DOMAIN Elements(v) : shaped[Fields(s)["items"]][Elements(v)[i]]
     /\ \A union \in {"oneOf", "anyOf"} : Has(s, union) =>
          \E i \in DOMAIN Branches(s, union) : shaped[Branches(s, union)[i]][v]]
Shaped(s, v) == shaped[s][v]

\* "What deliberately survives: containers, and the declared types of the
\* fields that are present and non-null": a body that passes has the declared
\* shape, at every depth.  A property called `enum` or `required` is taken for
\* the keyword and loses its schema; two components of the pinned catalog have
\* a property called `required`.
StructureSurvives ==
  phase = "judged" /\ passed /\ NamesNoKeyword(schema, {"enum", "required"}) => Shaped(schema, body)
=============================================================================
