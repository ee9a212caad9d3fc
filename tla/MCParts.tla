------------------------------ MODULE MCParts ------------------------------
(* The self-contained parts of the server, each over its bounded inputs: its  *)
(* algorithms and its start and stop.  They share no state: a behaviour       *)
(* exercises one of them, the others are off.                               *)
EXTENDS MCMergePatch, SchemaRelax, CatalogLoad, MCSimilarity, ToolSurface, Startup, TLC

MergeOff   == pc = "off" /\ before = Null /\ patch = Null /\ after = Null
RelaxOff   == phase = "off" /\ schema = Null /\ body = Null /\ passed = FALSE
LoadOff    == loadPc = "off" /\ document = [head |-> FALSE, operations |-> <<>>] /\ trusted = TRUE
                /\ position = 0 /\ index = [id \in {} |-> 0]
SimilarOff == similarPc = "off" /\ unknownId = <<>> /\ suggestions = <<>>
CallOff    == callPc = "off" /\ call = NoRequest /\ caller = NoCaller /\ request = NoRequest
                /\ reason = "" /\ found = {}
StartOff   == startPc = [p \in Processes |-> "off"] /\ exit = [p \in Processes |-> "done"]
                /\ line = [p \in Processes |-> NoLine] /\ keyFile = "absent"
                /\ usedKey = [p \in Processes |-> NoKey] /\ overlap = FALSE
                /\ hooks = [p \in Processes |-> {}] /\ pipeline = [p \in Processes |-> "off"]
                /\ files = [f \in TokenFiles |-> Absent] /\ store = [p \in Processes |-> "none"]
                /\ tokens = [p \in Processes |-> NoTokens] /\ edits = MaxEdits

PartsInit ==
  \/ Init /\ RelaxOff /\ LoadOff /\ SimilarOff /\ CallOff /\ StartOff
  \/ MergeOff /\ RelaxInit /\ LoadOff /\ SimilarOff /\ CallOff /\ StartOff
  \/ MergeOff /\ RelaxOff /\ LoadInit /\ SimilarOff /\ CallOff /\ StartOff
  \/ MergeOff /\ RelaxOff /\ LoadOff /\ SimilarInit /\ CallOff /\ StartOff
  \/ MergeOff /\ RelaxOff /\ LoadOff /\ SimilarOff /\ CallInit /\ StartOff
  \/ MergeOff /\ RelaxOff /\ LoadOff /\ SimilarOff /\ CallOff /\ StartInit

PartsNext ==
  \/ Next /\ UNCHANGED <<relaxVars, loadVars, similarVars, callVars, startVars>>
  \/ RelaxNext /\ UNCHANGED <<vars, loadVars, similarVars, callVars, startVars>>
  \/ LoadNext /\ UNCHANGED <<vars, relaxVars, similarVars, callVars, startVars>>
  \/ SimilarNext /\ UNCHANGED <<vars, relaxVars, loadVars, callVars, startVars>>
  \/ CallNext /\ UNCHANGED <<vars, relaxVars, loadVars, similarVars, startVars>>
  \/ StartNext /\ UNCHANGED <<vars, relaxVars, loadVars, similarVars, callVars>>

PartsSpec ==
  PartsInit /\ [][PartsNext]_<<vars, relaxVars, loadVars, similarVars, callVars, startVars>>

-----------------------------------------------------------------------------
(* Response schemas and bodies *)

Type(n) == "type" :> Str(n)
Choice == "enum" :> Arr(<<Str("a")>>)

Leaves == {Obj(f) : f \in {Type("string"), Type("string") @@ Choice, Type("integer"),
             "type" :> Arr(<<Str("integer"), Str("null")>>), Type("boolean")}}

\* An object with one property, open, closed or with a schema for the others,
\* and required or not.
ObjectSchemas(names, leaves, more) ==
  {Obj(Type("object") @@ ("properties" :> Obj(n :> l)) @@ further @@ required) :
     n \in names, l \in leaves, further \in {NoFields} \cup {"additionalProperties" :> m : m \in more},
     required \in {NoFields, "required" :> Arr(<<Str("x")>>)}}

Flat == Leaves \cup ObjectSchemas({"x", "type", "required"}, Leaves, {False})
          \cup ObjectSchemas({"x", "type"}, {Obj(Type("integer"))}, {True, Obj(Type("string"))})

MCSchemas ==
  Flat \cup
  {Obj(Type("array") @@ ("items" :> s)) : s \in Flat} \cup
  {Obj(u :> Arr(<<s, t>>)) : u \in {"oneOf", "anyOf"}, s, t \in Leaves \cup ObjectSchemas({"x"}, Leaves, {False})} \cup
  {Obj(Type("object") @@ ("properties" :> Obj("x" :> s))) : s \in Flat}

Scalars == {Null, False, Integer, Fraction, Str("a"), Str("b")}
Records(vals) == {Obj(n :> v) : n \in {"x", "type", "required", "new"}, v \in vals}

MCBodies ==
  Scalars \cup Records(Scalars) \cup {Obj(NoFields), Arr(<<>>), Arr(<<Null, Integer, Integer>>)} \cup
  {Arr(<<v>>) : v \in Scalars \cup Records(Scalars)} \cup
  {Obj("x" :> v) : v \in Records(Scalars)} \cup
  {Arr(<<Obj("x" :> Arr(<<Str("a")>>))>>), Obj("x" :> Arr(<<Arr(<<Null>>)>>))}

\* Both, what the schemas become, and everything inside them.
RECURSIVE Relaxed(_), Inside(_)
Relaxed(j) ==
  CASE IsObj(j) -> Obj(RelaxKeywords([k \in DOMAIN j.f |-> Relaxed(j.f[k])]))
    [] IsArr(j) -> Arr([i \in DOMAIN j.e |-> Relaxed(j.e[i])])
    [] OTHER -> j
Inside(j) == {j} \cup UNION {Inside(c) : c \in Children(j)}

JsonTable == MergeTable \cup UNION {Inside(j) : j \in MCBodies \cup MCSchemas \cup {Relaxed(s) : s \in MCSchemas}}
MCJSON == JsonTable
DepthTable == NestingOf(JsonTable)
MCNesting == DepthTable

-----------------------------------------------------------------------------
(* Catalogs of up to two operations *)

aBc == <<"a", "B", "c">>
ABc == <<"A", "B", "c">>   \* the same tool name as aBc
xyz == <<"x", "Y", "Z">>

MCUpperCase == ("A" :> "a") @@ ("B" :> "b") @@ ("Y" :> "y") @@ ("Z" :> "z")

Policies ==
  {[policy |-> "None", followUp |-> NoId, predicate |-> FALSE, reason |-> FALSE],
   [policy |-> "ApiAcknowledged", followUp |-> NoId, predicate |-> FALSE, reason |-> TRUE],
   [policy |-> "ApiAcknowledged", followUp |-> NoId, predicate |-> FALSE, reason |-> FALSE],
   [policy |-> "FollowUpRead", followUp |-> aBc, predicate |-> FALSE, reason |-> FALSE]} \cup
  {[policy |-> "FollowUpRead", followUp |-> id, predicate |-> TRUE, reason |-> FALSE] :
     id \in {aBc, xyz, NoId}}

Operation(id, key, method, action, p) ==
  [id |-> id, key |-> key, tool |-> ToolName(id), method |-> method, action |-> action,
   policy |-> p.policy, followUp |-> p.followUp, predicate |-> p.predicate, reason |-> p.reason,
   sound |-> TRUE, fingerprint |-> TRUE]

GoodOps ==
  {Operation(id, key, ma[1], ma[2], p) :
     id \in {aBc, ABc, xyz}, key \in 1..2, p \in Policies,
     ma \in {<<"GET", "OrdinaryRead">>, <<"GET", "Execute">>, <<"PUT", "Update">>, <<"DELETE", "Update">>}}

Plain == Operation(aBc, 1, "GET", "OrdinaryRead", CHOOSE p \in Policies : p.policy = "None")

MCDocuments ==
  [head: {TRUE}, operations: {<<o>> : o \in GoodOps} \cup {<<o, q>> : o, q \in GoodOps}] \cup
  [head: {FALSE}, operations: {<<Plain>>}] \cup
  [head: {TRUE}, operations: {<<[Plain EXCEPT !.sound = FALSE]>>, <<[Plain EXCEPT !.fingerprint = FALSE]>>,
                              <<[Plain EXCEPT !.tool = ToolName(xyz)]>>}]

-----------------------------------------------------------------------------
(* Tool calls against the pinned catalog (docs/mist-api/catalog.json): the     *)
(* operations that the named tools resolve to, with the path parameters and  *)
(* those query parameters that the kept arguments can reach, one operation   *)
(* of a service provider and one that is no read.                           *)

Read(path, query) ==
  [path |-> path, query |-> query, required |-> {}, capability |-> "OrdinaryRead", method |-> "GET"]
Privileged(op) == [op EXCEPT !.capability = "PrivilegedRead"]

OrgSearches == {"searchOrgDevices", "searchOrgAlarms", "searchOrgBgpStats", "searchOrgInventory",
                "searchOrgPeerPathStats", "searchOrgTunnelsStats"}

CatalogTable ==
  [op \in SleReads |-> Read({"site_id", "scope", "scope_id", "metric"}, {})] @@
  [op \in OrgReads |-> Read({"org_id"}, IF op \in OrgSearches THEN {"site_id", "type"} ELSE {})] @@
  [op \in SiteReads \ {"getSiteInsightMetrics"} |-> Read({"site_id"}, {"type"})] @@
  [op \in OrgPrivileged |->
     Privileged(Read({"org_id"}, IF op = "listOrgAuditLogs" THEN {"site_id"} ELSE {}))] @@
  [op \in SitePrivileged |-> Privileged(Read({"site_id"}, {}))] @@
  [op \in {"listGatewayApplications", "listAlarmDefinitions"} |-> Read({}, {})] @@
  ("getSelf" :> Privileged(Read({}, {}))) @@
  ("getSiteDevice" :> Privileged(Read({"site_id", "device_id"}, {}))) @@
  ("getSiteDeviceStats" :> Read({"site_id", "device_id"}, {})) @@
  ("listSiteSlesMetrics" :> Read({"site_id", "scope", "scope_id"}, {})) @@
  ("getSiteInsightMetrics" :> [Read({"site_id"}, {"metrics"}) EXCEPT !.required = {"metrics"}]) @@
  ("getSiteInsightMetricsForGateway" :>
     [Read({"site_id", "device_id"}, {"metrics"}) EXCEPT !.required = {"metrics"}]) @@
  ("getOrgNetwork" :> Read({"org_id", "network_id"}, {})) @@
  ("getOrgService" :> Read({"org_id", "service_id"}, {})) @@
  ("getOrgServicePolicy" :> Read({"org_id", "servicepolicy_id"}, {})) @@
  ("getOrgGatewayTemplate" :> Privileged(Read({"org_id", "gatewaytemplate_id"}, {}))) @@
  ("getOrgDeviceProfile" :> Privileged(Read({"org_id", "deviceprofile_id"}, {}))) @@
  ("getMspOrg" :> Read({"msp_id", "org_id"}, {})) @@
  ("listMspOrgs" :> Read({"msp_id"}, {})) @@
  ("rebootOrgDevices" :> [Read({"org_id"}, {}) EXCEPT !.capability = "Execute", !.method = "POST"])
MCCatalogOps == CatalogTable

MCCatalogOrder ==
  <<"listMspOrgs", "getMspOrg", "getOrg", "searchOrgAlarms", "listOrgAuditLogs", "listOrgGatewayTemplates",
    "getOrgNetwork", "rebootOrgDevices", "getSiteInfo", "getSiteDevice", "getSiteInsightMetrics", "getSelf",
    "listAlarmDefinitions">>

\* Two organizations, two sites, and an id that is no UUID.
MCCanonical == {"u1", "u2"}
Arguments(names) ==
  {a \in [names -> {"u1", "u2", "bad"}] : \A n \in names \ {"org_id", "site_id"} : a[n] = "u1"}

NamedCalls ==
  UNION {{[tool |-> tool, sel |-> sel, args |-> a, op |-> "", path |-> NoArgs, query |-> NoArgs] :
            sel \in Selectable(tool),
            a \in UNION {Arguments(Required(tool) \cup extra) : extra \in SUBSET Optional(tool)}} :
         tool \in NamedTools}

DispatcherCalls ==
  {[tool |-> d, sel |-> [mode |-> "Records"], args |-> NoArgs, op |-> op, path |-> p, query |-> q] :
     d \in DOMAIN Dispatchers, op \in {"getOrg", "searchOrgAlarms", "listOrgAuditLogs", "getSiteInfo", "getMspOrg",
                                       "getSelf", "rebootOrgDevices", "nowhere"},
     p \in {NoArgs} \cup Arguments({"org_id"}) \cup Arguments({"site_id"}) \cup {"org_id" :> "u1" @@ "msp_id" :> "u1"},
     q \in {NoArgs} \cup Arguments({"site_id"})}

CallTable == NamedCalls \cup DispatcherCalls
MCToolCalls == CallTable

MCSearches ==
  [text: {DOMAIN CatalogTable, {"getOrg", "getMspOrg", "getOrgNetwork"}, {}},
   capability: {"any", "OrdinaryRead", "PrivilegedRead"}, target: {"any", "none", "org_id", "site_id", "msp_id"},
   limit: {0, 1, 5, 50, 51}]

MCCallers ==
  [wildcard: BOOLEAN, tools: {{}, RESTRICTED_TOOLS, {"search_mist_operations", "invoke_mist_read"}},
   devices: {{}, {<<"org", "u1">>}, {<<"site", "u1">>}, {<<"org", "u1">>, <<"site", "u1">>}}, grant: BOOLEAN]

-----------------------------------------------------------------------------
(* Command lines of the server and of the token command *)

Line == [command |-> "serve", transport |-> "http", hmac |-> TRUE, redact |-> TRUE, otel |-> FALSE,
         auditFile |-> TRUE, evidence |-> TRUE, profile |-> ProfileChecks, tokens |-> "canonical",
         noAuth |-> FALSE, lab |-> FALSE, loopback |-> TRUE]

ServerLines ==
  {[Line EXCEPT !.auditFile = a, !.tokens = f] : a \in BOOLEAN, f \in {"canonical", "custom"}} \cup
  {[Line EXCEPT !.transport = "stdio", !.auditFile = a, !.evidence = e] : a, e \in BOOLEAN} \cup
  {[Line EXCEPT !.tokens = "none", !.noAuth = n, !.auditFile = a] : n, a \in BOOLEAN} \cup
  {[Line EXCEPT !.lab = TRUE, !.loopback = l] : l \in BOOLEAN} \cup
  {[Line EXCEPT !.otel = TRUE], [Line EXCEPT !.hmac = FALSE], [Line EXCEPT !.redact = FALSE],
   [Line EXCEPT !.profile = ProfileChecks \ {"orgs"}]}

\* A migrated store, one that is not, a broken one, and a custom one that is gone.
MCInitialFiles ==
  {[canonical |-> 2, legacy |-> 2, custom |-> 2], [canonical |-> Absent, legacy |-> 2, custom |-> Absent],
   [canonical |-> Broken, legacy |-> 2, custom |-> Absent], [canonical |-> Absent, legacy |-> Absent, custom |-> 2]}

MCCommandLines == ("p1" :> ServerLines) @@ ("p2" :> {[Line EXCEPT !.command = "token"]})
=============================================================================
