-------------------------- MODULE SchemaValidation --------------------------
(***************************************************************************)
(* MistRequest::validate and MistResponse::validate                         *)
(* (rustmistmcp-core/src/request.rs): the checks a request and a response   *)
(* go through, in their order, as jobs of ValidatorCache.                  *)
(***************************************************************************)
EXTENDS ValidatorCache

CONSTANTS
  Messages,        \* the request or response that each job validates
  Ops,             \* catalogued operations
  Parameters,      \* per operation: its declared parameters, in order
  Body,            \* per operation: "none", "optional" or "required" JSON body
  Responses,       \* per operation: status -> declared media types, in order
  Oversized,       \* values beyond the bounds on depth, members or bytes
  MAX_PATH_VALUES, MAX_QUERY_VALUES

Locations == {"path", "query"}

\* The kinds of a MistResponseBody.
BodyKinds == {"Empty", "Json", "Text", "Binary"}

ASSUME ValidationAssumption ==
  /\ \A op \in Ops :
       /\ DOMAIN Parameters[op] = 1..Len(Parameters[op]) /\ Len(Parameters[op]) \in Nat
       /\ \A i \in DOMAIN Parameters[op] :
            Parameters[op][i].location \in Locations /\ Parameters[op][i].required \in BOOLEAN
       /\ Body[op] \in {"none", "optional", "required"}
       /\ \A status \in DOMAIN Responses[op] :
            LET declared == Responses[op][status] IN
            DOMAIN declared = 1..Len(declared) /\ Len(declared) \in Nat

\* SchemaSlot, with the operation it belongs to.
RequestBody(op) == [op |-> op, kind |-> "RequestBody", at |-> "", name |-> ""]
RequestParameter(op, location, name) ==
  [op |-> op, kind |-> "RequestParameter", at |-> location, name |-> name]
ResponseBody(op, status, media) ==
  [op |-> op, kind |-> "ResponseBody", at |-> status, name |-> media]

JsonMedia == {"application/json", "application/problem+json", "application/vnd.api+json"}
TextMedia == {"text/csv"}
OctetStream == "application/octet-stream"

-----------------------------------------------------------------------------
(* Requests: [op, path, query, json, cursor], path and query functions on   *)
(* the supplied names, json a value or None, cursor whether validate_for    *)
(* (module ReadDispatch) passes it or there is none.                        *)

Supplied(r, location) == IF location = "path" THEN r.path ELSE r.query
MaxValues(location) == IF location = "path" THEN MAX_PATH_VALUES ELSE MAX_QUERY_VALUES

\* validate_request_bounds
RequestBounds(r) ==
  /\ \A l \in Locations :
       /\ Cardinality(DOMAIN Supplied(r, l)) <= MaxValues(l)
       /\ \A n \in DOMAIN Supplied(r, l) : Supplied(r, l)[n] \notin Oversized
  /\ r.json \notin Oversized

\* The parameters that the catalog declares for a location.
Declared(op, location) == {i \in DOMAIN Parameters[op] : Parameters[op][i].location = location}
Names(op, location) == {Parameters[op][i].name : i \in Declared(op, location)}

\* One declared parameter: one of the other location is passed over.
ParameterStep(r, location, i) ==
  LET p     == Parameters[r.op][i]
      given == Supplied(r, location) IN
  CASE i \notin Declared(r.op, location) -> Flag(TRUE)
    [] i \in Declared(r.op, location) /\ p.name \in DOMAIN given ->
         <<Check(RequestParameter(r.op, location, p.name), given[p.name])>>
    [] OTHER -> Flag(~p.required)

\* Mutant of ParameterSteps: an undeclared parameter is passed on.
ParameterStepsLenient(r, location) ==
  [i \in DOMAIN Parameters[r.op] |-> ParameterStep(r, location, i)]

\* validate_parameter_set: nothing undeclared, then each declared parameter.
ParameterSteps(r, location) ==
  <<Flag(DOMAIN Supplied(r, location) \subseteq Names(r.op, location))>> \o
  [i \in DOMAIN Parameters[r.op] |-> ParameterStep(r, location, i)]

\* validate_json_body
BodyStep(r) ==
  IF r.json = None THEN Flag(Body[r.op] # "required")
  ELSE IF Body[r.op] = "none" THEN Flag(FALSE)
  ELSE <<Check(RequestBody(r.op), r.json)>>

\* MistRequest::validate
RequestSteps(r) ==
  <<Flag(RequestBounds(r)), Flag(r.op \in Ops)>> \o
  IF r.op \notin Ops THEN <<>>
  ELSE ParameterSteps(r, "path") \o ParameterSteps(r, "query") \o <<BodyStep(r), Flag(r.cursor)>>

-----------------------------------------------------------------------------
(* Responses: [op, status, body, value, fits, cursor], body the kind of the *)
(* MistResponseBody, fits whether text, bytes and the serialized whole are   *)
(* within their bounds.                                                     *)

\* validate_response_bounds
ResponseBounds(r) == r.fits /\ (r.body = "Json" => r.value \notin Oversized)

\* One alternative per media type declared for this status, in order; one that
\* is not JSON is passed over.
BodyAlternatives(r) ==
  LET declared == Responses[r.op][r.status] IN
  [i \in DOMAIN declared |->
     IF declared[i] \in JsonMedia THEN Check(ResponseBody(r.op, r.status, declared[i]), r.value)
     ELSE Settled(FALSE)]

\* validate_response_body
ResponseBodyStep(r) ==
  LET declared == Responses[r.op][r.status]
      media    == {declared[i] : i \in DOMAIN declared} IN
  CASE media = {} -> Flag(r.body = "Empty")
    [] media # {} /\ r.body = "Json" /\ media \cap JsonMedia # {} -> BodyAlternatives(r)
    [] media # {} /\ r.body = "Text" -> Flag(media \cap TextMedia # {})
    [] media # {} /\ r.body = "Binary" -> Flag(OctetStream \in media)
    [] OTHER -> Flag(FALSE)

\* MistResponse::validate
ResponseSteps(r) ==
  IF r.op \notin Ops THEN <<Flag(FALSE)>>
  ELSE IF r.status \notin DOMAIN Responses[r.op] THEN <<Flag(FALSE)>>
  ELSE <<Flag(ResponseBounds(r)), ResponseBodyStep(r), Flag(r.cursor)>>

-----------------------------------------------------------------------------
(* Jobs *)

IsRequest(message) == "json" \in DOMAIN message

\* A job of the cache is the validation of its message.  Whether a cursor passes
\* and whether a body fits is decided before the first schema.
ASSUME MessagesAssumption ==
  \A j \in Jobs :
    LET m == Messages[j] IN
    /\ Steps[j] = IF IsRequest(m) THEN RequestSteps(m) ELSE ResponseSteps(m)
    /\ m.cursor \in BOOLEAN
    /\ ~IsRequest(m) => m.fits \in BOOLEAN /\ m.body \in BodyKinds

-----------------------------------------------------------------------------
(* Properties *)

\* A request as the catalog declares it: nothing undeclared, nothing missing,
\* every value within the bounds and admitted by its own schema.
ValidRequest(r) ==
  /\ RequestBounds(r) /\ r.cursor /\ r.op \in Ops
  /\ \A l \in Locations, i \in DOMAIN Parameters[r.op] :
       LET p == Parameters[r.op][i] IN
       p.location = l =>
         IF p.name \in DOMAIN Supplied(r, l)
           THEN Valid(RequestParameter(r.op, l, p.name), Supplied(r, l)[p.name])
           ELSE ~p.required
  /\ \A l \in Locations : \A n \in DOMAIN Supplied(r, l) :
       \E i \in DOMAIN Parameters[r.op] :
         Parameters[r.op][i].name = n /\ Parameters[r.op][i].location = l
  /\ r.json # None => Body[r.op] # "none" /\ Valid(RequestBody(r.op), r.json)
  /\ Body[r.op] = "required" => r.json # None

\* A response as the catalog declares it for its status: no content where none
\* is declared, else a body of a declared medium, JSON under some schema.
ValidResponse(r) ==
  /\ ResponseBounds(r) /\ r.cursor /\ r.op \in Ops /\ r.status \in DOMAIN Responses[r.op]
  /\ LET declared == Responses[r.op][r.status]
         media    == {declared[i] : i \in DOMAIN declared} IN
     CASE r.body = "Empty"  -> media = {}
       [] r.body = "Json"   -> \E m \in media \cap JsonMedia : Valid(ResponseBody(r.op, r.status, m), r.value)
       [] r.body = "Text"   -> media \cap TextMedia # {}
       [] r.body = "Binary" -> OctetStream \in media

\* A request is let through to Mist, and a response through to the caller, just
\* when it is what the catalog declares, whatever else was validated before or
\* at the same time (MistRequest::validate, MistResponse::validate).
AcceptedAsDeclared ==
  \A t \in Threads : verdict[t] # "none" =>
    LET message == Messages[job[t]] IN
    (verdict[t] = "ok") = IF IsRequest(message) THEN ValidRequest(message) ELSE ValidResponse(message)
=============================================================================
