---------------------------- MODULE MCValidation ----------------------------
(* Model-checking instance of SchemaValidation: one operation with a path     *)
(* and a query parameter of the same name, a body, and two statuses that     *)
(* declare the same media types; one value per schema, so that every         *)
(* confusion of two schemas changes a verdict.                               *)
EXTENDS SchemaValidation, TLC

CONSTANTS op, unknown, pathVal, queryVal, bodyVal, okVal, altVal, newVal, errVal, hugeVal

MCParameters == op :> <<[name |-> "id", location |-> "path", required |-> TRUE],
                        [name |-> "id", location |-> "query", required |-> FALSE]>>
MCBody == op :> "required"
MCResponses ==
  op :> (("200" :> <<"application/json", "application/vnd.api+json", "text/csv">>) @@
         ("400" :> <<"application/json", "application/problem+json">>) @@ ("204" :> <<>>))

PathId  == RequestParameter(op, "path", "id")
QueryId == RequestParameter(op, "query", "id")
Json200 == ResponseBody(op, "200", "application/json")
Vnd200  == ResponseBody(op, "200", "application/vnd.api+json")
Json400 == ResponseBody(op, "400", "application/json")
Problem400 == ResponseBody(op, "400", "application/problem+json")

SlotTable == {PathId, QueryId, RequestBody(op), Json200, Vnd200, Json400, Problem400}

\* okVal is the answer as declared; newVal has a vocabulary only the relaxed
\* schema knows.
AdmitTable ==
  {<<PathId, d, pathVal>> : d \in Directions} \cup
  {<<QueryId, d, queryVal>> : d \in Directions} \cup
  {<<RequestBody(op), d, bodyVal>> : d \in Directions} \cup
  {<<Json200, d, okVal>> : d \in Directions} \cup
  {<<Vnd200, d, altVal>> : d \in Directions} \cup
  {<<Json400, d, errVal>> : d \in Directions} \cup
  {<<RequestBody(op), "Response", newVal>>, <<Json200, "Response", newVal>>}

\* A catalog from a file can hold a schema that does not compile.
MCBroken == {Problem400}

Nothing == [n \in {} |-> None]

Request(path, query, json) == [op |-> op, path |-> path, query |-> query, json |-> json, cursor |-> TRUE]
Id(v) == "id" :> v

Requests ==
  <<Request(Id(pathVal), Nothing, bodyVal), Request(Id(pathVal), Nothing, newVal),
    Request(Id(pathVal), Nothing, hugeVal), Request(Id(pathVal), Nothing, None),
    Request(Id(pathVal), Id(queryVal), bodyVal), Request(Id(pathVal), Id(pathVal), bodyVal),
    Request(Id(pathVal), "page" :> queryVal, bodyVal),
    [Request(Nothing, Nothing, bodyVal) EXCEPT !.cursor = FALSE],
    [Request(Nothing, Nothing, None) EXCEPT !.op = unknown]>>

Answer(status, body, v) ==
  [op |-> op, status |-> status, body |-> body, value |-> v, fits |-> TRUE, cursor |-> TRUE]

Answers ==
  <<Answer("200", "Json", okVal), Answer("200", "Json", altVal), Answer("200", "Json", newVal),
    Answer("400", "Json", okVal), Answer("400", "Json", errVal),
    Answer("200", "Text", None), Answer("200", "Binary", None), Answer("204", "Empty", None),
    Answer("500", "Json", okVal), [Answer("200", "Text", None) EXCEPT !.fits = FALSE]>>

MCMessages == Requests \o Answers
MCJobs == 1..Len(MCMessages)

\* TLC evaluates a definition that replaces a constant at every use, and one it
\* refers to only once: hence the tables and the names the cfg gives them.
StepTable ==
  [j \in MCJobs |-> LET m == MCMessages[j] IN
                    IF IsRequest(m) THEN RequestSteps(m) ELSE ResponseSteps(m)] \o <<>>
MCSteps == StepTable
MCAdmits == AdmitTable
MCSlots == SlotTable

ThreadSymmetry == Permutations(Threads)
=============================================================================
