---------------------------- MODULE ToolSurface ----------------------------
(***************************************************************************)
(* A tool call from the HTTP body to the request: the scope preflight       *)
(* (rustmistmcp/src/http_transport.rs), the named read tools and the        *)
(* dispatchers (rustmistmcp/src/server/mod.rs), and the checks of           *)
(* dispatch_catalogued_read that the arguments go through; and the search   *)
(* for operations.  Module ReadDispatch has what follows, and continuations *)
(* by cursor.                                                              *)
(*                                                                         *)
(* Arguments are functions from names to values.  Of a tool's optional      *)
(* arguments only those that name an organization, a site, or a parameter   *)
(* that the operation requires are kept.                                   *)
(***************************************************************************)
EXTENDS Naturals, Sequences, FiniteSets, WanSelectors

CONSTANTS
  CatalogOps,    \* op -> [path, query, required, capability, method]: names and kind
  CatalogOrder,  \* the operations by key
  Canonical,     \* ids that are canonical UUIDs
  Callers,       \* [wildcard, tools, devices, grant]: tokens
  ToolCalls,     \* [tool, sel, args, op, path, query]
  Searches,      \* [text, capability, target, limit]
  NoCaller, NoRequest

VARIABLES
  callPc,    \* "raw", "received", "resolved", "sent", "refused"; "search", "found"
  call, caller,
  request,   \* [tool, op, path, query, capability] once resolved
  reason,    \* of a refusal
  found      \* operations that a search lists

callVars == <<callPc, call, caller, request, reason, found>>

NoArgs == [n \in {} |-> ""]
Reading == {"OrdinaryRead", "PrivilegedRead"}

RESTRICTED_TOOLS ==
  {"apply_mist_change_set", "approve_mist_change_set", "get_mist_change_set", "get_mist_device",
   "get_mist_self", "get_mist_wan_config", "invoke_mist_privileged_read", "list_mist_wan_config",
   "list_mist_wlans", "plan_mist_change", "search_mist_audit_logs"}

\* external: ScopeSet::allows_tool and ScopeSet::allows
AllowsTool(c, tool) == tool \in c.tools \/ (c.wildcard /\ tool \notin RESTRICTED_TOOLS)
Allows(c, subject) == subject \in c.devices

\* external: authorize_call without a target
MayCall(c, tool) == c # NoCaller => AllowsTool(c, tool)

-----------------------------------------------------------------------------
(* The tools *)

Tool(op, names, capability) == [op |-> op, names |-> names, capability |-> capability]

DeviceTools ==
  [get_mist_device       |-> Tool("getSiteDevice", {"site_id", "device_id"}, "PrivilegedRead"),
   get_mist_device_stats |-> Tool("getSiteDeviceStats", {"site_id", "device_id"}, "OrdinaryRead"),
   get_mist_insight      |-> Tool("getSiteInsightMetrics", {"site_id"}, "OrdinaryRead")]

GetTools ==
  [get_mist_org  |-> Tool("getOrg", {"org_id"}, "OrdinaryRead"),
   get_mist_rrm  |-> Tool("getSiteCurrentChannelPlanning", {"site_id"}, "OrdinaryRead"),
   get_mist_self |-> Tool("getSelf", {}, "PrivilegedRead"),
   get_mist_site |-> Tool("getSiteInfo", {"site_id"}, "OrdinaryRead"),
   get_mist_sle  |-> Tool("getSiteSleSummaryTrend", {"site_id", "scope", "scope_id", "metric"}, "OrdinaryRead")]

ListTools ==
  [list_mist_rogues      |-> Tool("listSiteRogueAPs", {"site_id"}, "OrdinaryRead"),
   list_mist_sites       |-> Tool("listOrgSites", {"org_id"}, "OrdinaryRead"),
   list_mist_sle_metrics |-> Tool("listSiteSlesMetrics", {"site_id", "scope", "scope_id"}, "OrdinaryRead"),
   list_mist_upgrades    |-> Tool("listSiteDeviceUpgrades", {"site_id"}, "OrdinaryRead")]

WlanTools == [list_mist_wlans |-> Tool("listSiteWlans", {"site_id"}, "PrivilegedRead")]

LogTools ==
  [list_mist_alarm_definitions |-> Tool("listAlarmDefinitions", {}, "OrdinaryRead"),
   search_mist_audit_logs      |-> Tool("listOrgAuditLogs", {"org_id"}, "PrivilegedRead")]

SearchTools ==
  [search_mist_clients   |-> Tool("searchSiteWirelessClients", {"site_id"}, "OrdinaryRead"),
   search_mist_events    |-> Tool("searchSiteSystemEvents", {"site_id"}, "OrdinaryRead"),
   search_mist_inventory |-> Tool("searchOrgInventory", {"org_id"}, "OrdinaryRead")]

TroubleshootTools == [troubleshoot_mist |-> Tool("listSiteTroubleshootCalls", {"site_id"}, "OrdinaryRead")]

\* Gateway templates and device profiles are privileged configuration.
ConfigCapability(object) ==
  IF object \in {"GatewayTemplate", "DeviceProfile"} THEN "PrivilegedRead" ELSE "OrdinaryRead"

As(resolved, capability) == Tool(resolved.op, resolved.names, capability)

\* Tools that take an organization or a site; the empty set is AmbiguousScope.
WanConfigList(c) ==
  {As(ListConfig(c.sel.object, s), ConfigCapability(c.sel.object)) : s \in ResolveScope(DOMAIN c.args)}
WanEdgeList(c) == {As(WanEdges(s), "OrdinaryRead") : s \in ResolveScope(DOMAIN c.args)}
AlarmSearch(c) == {As(Alarms(s, c.sel.mode), "OrdinaryRead") : s \in ResolveScope(DOMAIN c.args)}
BgpPeerSearch(c) == {As(BgpPeers(s, c.sel.mode), "OrdinaryRead") : s \in ResolveScope(DOMAIN c.args)}

SleImpactGet(c) == {As(SleImpact(c.sel.impact), "OrdinaryRead")}
WanEdgeStatsGet(c) == {As(WanEdgeStats("device_id" \in DOMAIN c.args), "OrdinaryRead")}
WanConfigGet(c) == {As(GetConfig(c.sel.object), ConfigCapability(c.sel.object))}
ApplicationList(c) ==
  IF c.sel.source = "Site" /\ "site_id" \notin DOMAIN c.args THEN {}
  ELSE {As(Applications(c.sel.source, c.sel.mode), "OrdinaryRead")}
StatsSearch(c) ==
  {As(CASE c.tool = "search_mist_tunnels" -> Tunnels(c.sel.mode)
        [] c.tool = "search_mist_peer_paths" -> PeerPaths(c.sel.mode)
        [] c.tool = "search_mist_service_path_events" -> ServicePathEvents(c.sel.mode), "OrdinaryRead")}

EitherScope == {"list_mist_wan_config", "list_mist_wan_edges", "search_mist_alarms", "search_mist_bgp_peers"}

\* What a named tool makes of a call, before its arguments are looked at.
ResolveTool(c) ==
  LET in(tools) == c.tool \in DOMAIN tools IN
  CASE in(DeviceTools) -> {DeviceTools[c.tool]} [] in(GetTools) -> {GetTools[c.tool]}
    [] in(ListTools) -> {ListTools[c.tool]} [] in(WlanTools) -> {WlanTools[c.tool]}
    [] in(LogTools) -> {LogTools[c.tool]} [] in(SearchTools) -> {SearchTools[c.tool]}
    [] in(TroubleshootTools) -> {TroubleshootTools[c.tool]}
    [] c.tool = "list_mist_wan_config" -> WanConfigList(c)
    [] c.tool = "list_mist_wan_edges" -> WanEdgeList(c)
    [] c.tool = "search_mist_alarms" -> AlarmSearch(c)
    [] c.tool = "search_mist_bgp_peers" -> BgpPeerSearch(c)
    [] c.tool = "get_mist_sle_impact" -> SleImpactGet(c)
    [] c.tool = "get_mist_wan_edge_stats" -> WanEdgeStatsGet(c)
    [] c.tool = "get_mist_wan_config" -> WanConfigGet(c)
    [] c.tool = "list_mist_applications" -> ApplicationList(c)
    [] OTHER -> StatsSearch(c)

\* The arguments of each tool that must be there, as deserialization demands.
Required(tool) ==
  CASE tool \in {"get_mist_device", "get_mist_device_stats"} -> {"site_id", "device_id"}
    [] tool = "get_mist_insight" -> {"site_id", "metrics"}
    [] tool = "list_mist_sle_metrics" -> {"site_id", "scope", "scope_id"}
    [] tool \in {"get_mist_sle", "get_mist_sle_impact"} -> {"site_id", "scope", "scope_id", "metric"}
    [] tool \in {"get_mist_org", "list_mist_sites", "search_mist_inventory", "search_mist_audit_logs",
                 "search_mist_tunnels", "search_mist_peer_paths"} -> {"org_id"}
    [] tool = "get_mist_wan_config" -> {"org_id", "object_id"}
    [] tool \in EitherScope \cup {"get_mist_self", "list_mist_alarm_definitions", "list_mist_applications"} -> {}
    [] OTHER -> {"site_id"}

Optional(tool) ==
  CASE tool \in EitherScope -> {"org_id", "site_id"}
    [] tool \in {"search_mist_inventory", "search_mist_audit_logs", "list_mist_applications"} -> {"site_id"}
    [] tool = "get_mist_wan_edge_stats" -> {"device_id", "metrics"}
    [] OTHER -> {}

\* What the argument structs serialize: the object id of a configuration read
\* under its own name, and the fixed device type of the WAN edge listing.
Serialized(c) ==
  CASE c.tool = "get_mist_wan_config" ->
         [n \in {"org_id", ObjectIdName[c.sel.object]} |->
            IF n = "org_id" THEN c.args["org_id"] ELSE c.args["object_id"]]
    [] c.tool = "list_mist_wan_edges" ->
         [n \in DOMAIN c.args \cup {"type"} |-> IF n = "type" THEN "gateway" ELSE c.args[n]]
    [] OTHER -> c.args

\* named_maps
NamedMaps(args, names) ==
  [path  |-> [n \in DOMAIN args \cap names |-> args[n]],
   query |-> [n \in DOMAIN args \ names |-> args[n]]]

\* The variants of the enumerations among a tool's arguments.
Modes == {"Records", "Count"}
Selectable(tool) ==
  CASE tool \in {"search_mist_alarms", "search_mist_bgp_peers", "search_mist_tunnels",
                 "search_mist_peer_paths", "search_mist_service_path_events"} -> [mode: Modes]
    [] tool = "list_mist_applications" -> [mode: Modes, source: {"Site", "Catalog"}]
    [] tool = "get_mist_sle_impact" -> [impact: {"Gateways", "Applications", "Summary"}]
    [] tool \in {"list_mist_wan_config", "get_mist_wan_config"} -> [object: DOMAIN ObjectIdName]
    [] OTHER -> [mode: {"Records"}]

NamedTools ==
  (UNION {DOMAIN DeviceTools, DOMAIN GetTools, DOMAIN ListTools, DOMAIN WlanTools, DOMAIN LogTools,
          DOMAIN SearchTools, DOMAIN TroubleshootTools, EitherScope}) \cup
  {"get_mist_sle_impact", "get_mist_wan_edge_stats", "get_mist_wan_config", "list_mist_applications",
   "search_mist_tunnels", "search_mist_peer_paths", "search_mist_service_path_events"}

Dispatchers == [invoke_mist_read |-> "OrdinaryRead", invoke_mist_privileged_read |-> "PrivilegedRead"]
IsNamed(c) == c.tool \notin DOMAIN Dispatchers

-----------------------------------------------------------------------------
(* Preflight and dispatch *)

\* canonical_target
CanonicalTarget(field, id) ==
  IF id \in Canonical THEN {<<IF field = "org_id" THEN "org" ELSE "site", id>>} ELSE {}

\* target_map_exceeds_scope
TargetMapExceedsScope(args, c) ==
  \E field \in {"org_id", "site_id"} \cap DOMAIN args :
    ~\E subject \in CanonicalTarget(field, args[field]) : Allows(c, subject)

\* Mutant of RequestExceedsScope: the maps of the dispatchers are not looked into.
RequestExceedsScopeTopLevel(k, c) == ~AllowsTool(c, k.tool) \/ TargetMapExceedsScope(k.args, c)

\* request_exceeds_scope: the arguments, and the path and query maps in them.
RequestExceedsScope(k, c) ==
  \/ ~AllowsTool(c, k.tool)
  \/ TargetMapExceedsScope(k.args, c)
  \/ TargetMapExceedsScope(k.path, c) \/ TargetMapExceedsScope(k.query, c)

NoTarget == <<"none", "">>

\* target_for, by the ids in the operation's path template: no target, one, or
\* a refusal.
TargetOf(names, path) ==
  CASE names \cap {"org_id", "site_id", "msp_id"} = {} -> {NoTarget}
    [] \E f \in {"org_id", "site_id"} : names \cap {"org_id", "site_id", "msp_id"} = {f} ->
         LET f == CHOOSE f \in {"org_id", "site_id"} : f \in names IN
         IF f \in DOMAIN path THEN CanonicalTarget(f, path[f]) ELSE {}
    [] OTHER -> {}

\* The checks of dispatch_catalogued_read, in order; "" where all pass.  A grant
\* covers everything here; its lists and the profile of allowed organizations
\* are in ReadDispatch.
Refusal(r, c) ==
  LET op == CatalogOps[r.op]
      target == TargetOf(op.path, r.path) IN
  CASE r.op \notin DOMAIN CatalogOps -> "unknown"
    [] r.op \in DOMAIN CatalogOps /\ target = {} -> "target"
    [] OTHER ->
       IF op.method # "GET" \/ op.capability # r.capability THEN "capability"
       ELSE IF c = NoCaller /\ op.capability = "PrivilegedRead" THEN "caller"
       ELSE IF c # NoCaller /\ (~AllowsTool(c, r.tool) \/ \E t \in target : t # NoTarget /\ ~Allows(c, t))
         THEN "scope"
       ELSE IF op.capability = "PrivilegedRead" /\ ~c.grant THEN "grant"
       ELSE IF DOMAIN r.path # op.path \/ ~(DOMAIN r.query \subseteq op.query)
               \/ ~(op.required \subseteq DOMAIN r.query) THEN "parameters"
       ELSE ""

\* external: reads of the pinned catalog (docs/mist-api/catalog.json), by the
\* parameters in their paths.
OrgReads ==
  {"getOrg", "listOrgSites", "listOrgNetworks", "listOrgServices", "listOrgServicePolicies",
   "searchOrgDevices", "searchOrgAlarms", "countOrgAlarms", "searchOrgBgpStats", "countOrgBgpStats",
   "searchOrgPeerPathStats", "countOrgPeerPathStats", "searchOrgTunnelsStats", "countOrgTunnelsStats",
   "searchOrgInventory"}
OrgPrivileged == {"listOrgGatewayTemplates", "listOrgDeviceProfiles", "listOrgAuditLogs"}
SiteReads ==
  {"getSiteCurrentChannelPlanning", "getSiteInfo", "getSiteGatewayMetrics", "getSiteInsightMetrics",
   "listSiteApps", "countSiteApps", "listSiteRogueAPs", "listSiteDeviceUpgrades",
   "listSiteNetworksDerived", "listSiteServicesDerived", "listSiteServicePoliciesDerived",
   "searchSiteDevices", "searchSiteAlarms", "countSiteAlarms", "searchSiteBgpStats", "countSiteBgpStats",
   "searchSiteWirelessClients", "searchSiteSystemEvents", "searchSiteServicePathEvents",
   "countSiteServicePathEvents", "listSiteTroubleshootCalls"}
SitePrivileged == {"listSiteWlans", "listSiteGatewayTemplatesDerived", "listSiteDeviceProfilesDerived"}
SleReads == {"getSiteSleSummaryTrend", "listSiteSleImpactedGateways", "listSiteSleImpactedApplications",
             "getSiteSleImpactSummary"}

IsRead(ops, path, capability) ==
  \A o \in ops :
    /\ o \in DOMAIN CatalogOps /\ CatalogOps[o].path = path
    /\ CatalogOps[o].method = "GET" /\ CatalogOps[o].capability = capability

ASSUME PinnedAssumption ==
  /\ IsRead(OrgReads, {"org_id"}, "OrdinaryRead") /\ IsRead(OrgPrivileged, {"org_id"}, "PrivilegedRead")
  /\ IsRead(SiteReads, {"site_id"}, "OrdinaryRead") /\ IsRead(SitePrivileged, {"site_id"}, "PrivilegedRead")
  /\ IsRead(SleReads, {"site_id", "scope", "scope_id", "metric"}, "OrdinaryRead")
  /\ IsRead({"listSiteSlesMetrics"}, {"site_id", "scope", "scope_id"}, "OrdinaryRead")
  /\ IsRead({"getSiteDeviceStats", "getSiteInsightMetricsForGateway"}, {"site_id", "device_id"}, "OrdinaryRead")
  /\ IsRead({"getSiteDevice"}, {"site_id", "device_id"}, "PrivilegedRead")
  /\ IsRead({"listGatewayApplications", "listAlarmDefinitions"}, {}, "OrdinaryRead")
  /\ IsRead({"getSelf"}, {}, "PrivilegedRead")
  /\ IsRead({"getOrgNetwork"}, {"org_id", "network_id"}, "OrdinaryRead")
  /\ IsRead({"getOrgService"}, {"org_id", "service_id"}, "OrdinaryRead")
  /\ IsRead({"getOrgServicePolicy"}, {"org_id", "servicepolicy_id"}, "OrdinaryRead")
  /\ IsRead({"getOrgGatewayTemplate"}, {"org_id", "gatewaytemplate_id"}, "PrivilegedRead")
  /\ IsRead({"getOrgDeviceProfile"}, {"org_id", "deviceprofile_id"}, "PrivilegedRead")

\* Deserialization has checked the arguments.  The load has checked methods
\* against capabilities (module CatalogLoad); the operations of the pinned catalog
\* that name two of an organization, a site and a service provider name the
\* service provider.
ASSUME SurfaceAssumption ==
  /\ NoCaller \notin [wildcard: BOOLEAN, tools: SUBSET DOMAIN Dispatchers,
                     devices: SUBSET ({"org", "site"} \X Canonical), grant: BOOLEAN]
  /\ \A c \in ToolCalls :
       /\ IsNamed(c) => /\ c.tool \in NamedTools /\ c.sel \in Selectable(c.tool)
                        /\ Required(c.tool) \subseteq DOMAIN c.args
  /\ \A s \in Searches : DOMAIN s = {"text", "capability", "target", "limit"}
  /\ \A i \in DOMAIN CatalogOrder : CatalogOrder[i] \in DOMAIN CatalogOps
  /\ \A o \in DOMAIN CatalogOps :
       /\ CatalogOps[o].required \subseteq CatalogOps[o].query
       /\ CatalogOps[o].capability \in Reading => CatalogOps[o].method = "GET"
       /\ ~({"org_id", "site_id"} \subseteq CatalogOps[o].path)

CallInit ==
  /\ call \in ToolCalls \cup Searches
  /\ callPc = IF "tool" \in DOMAIN call THEN "raw" ELSE "search"
  /\ caller \in Callers \cup {NoCaller}
  /\ request = NoRequest /\ reason = "" /\ found = {}

\* MistScopePreflight::check, for a call over HTTP with a token; without one
\* (stdio, or no authentication) there is none.
Preflight ==
  /\ callPc = "raw"
  /\ LET denied == caller # NoCaller /\ RequestExceedsScope(call, caller) IN
     /\ callPc' = IF denied THEN "refused" ELSE "received"
     /\ reason' = IF denied THEN "insufficient_scope" ELSE ""
  /\ UNCHANGED <<call, caller, request, found>>

\* A named tool, through dispatch_named.
CallNamed ==
  /\ callPc = "received" /\ IsNamed(call)
  /\ \/ \E r \in ResolveTool(call) :
          LET maps == NamedMaps(Serialized(call), r.names) IN
          /\ request' = [tool |-> call.tool, op |-> r.op, path |-> maps.path, query |-> maps.query,
                         capability |-> r.capability]
          /\ callPc' = "resolved" /\ UNCHANGED reason
     \/ /\ ResolveTool(call) = {}
        /\ callPc' = "refused" /\ reason' = "AmbiguousScope" /\ UNCHANGED request
  /\ UNCHANGED <<call, caller, found>>

\* invoke_mist_read and invoke_mist_privileged_read without a cursor.
CallDispatcher ==
  /\ callPc = "received" /\ ~IsNamed(call)
  /\ request' = [tool |-> call.tool, op |-> call.op, path |-> call.path, query |-> call.query,
                 capability |-> Dispatchers[call.tool]]
  /\ callPc' = "resolved"
  /\ UNCHANGED <<call, caller, reason, found>>

DispatchRead ==
  /\ callPc = "resolved"
  /\ reason' = Refusal(request, caller)
  /\ callPc' = IF reason' = "" THEN "sent" ELSE "refused"
  /\ UNCHANGED <<call, caller, request, found>>

-----------------------------------------------------------------------------
(* search_mist_operations *)

Selectors(op) ==
  LET ids == CatalogOps[op].path \cap {"org_id", "site_id", "msp_id"} IN
  IF ids = {} THEN {"none"} ELSE ids

\* Mutant of Listable: operations of service providers are listed too.
ListableMsp(s, op) ==
  /\ CatalogOps[op].capability \in Reading
  /\ s.capability \in {"any", CatalogOps[op].capability}
  /\ s.target = "any" \/ s.target \in Selectors(op)
  /\ op \in s.text

\* The filters, in order; the text is the set of operations that it occurs in.
Listable(s, op) ==
  /\ CatalogOps[op].capability \in Reading
  /\ "msp_id" \notin Selectors(op)
  /\ s.capability \in {"any", CatalogOps[op].capability}
  /\ s.target = "any" \/ s.target \in Selectors(op)
  /\ op \in s.text

\* The first operations that pass the filters, up to the limit.
Search ==
  /\ callPc = "search"
  /\ \/ /\ ~MayCall(caller, "search_mist_operations")
        /\ callPc' = "refused" /\ reason' = "scope" /\ UNCHANGED found
     \/ /\ MayCall(caller, "search_mist_operations")
        /\ IF call.limit \in 1..50
             THEN LET hits == {i \in DOMAIN CatalogOrder : Listable(call, CatalogOrder[i])} IN
                  /\ found' = {CatalogOrder[i] : i \in {h \in hits : Cardinality(hits \cap 1..h) <= call.limit}}
                  /\ callPc' = "found" /\ UNCHANGED reason
             ELSE /\ callPc' = "refused" /\ reason' = "InvalidSearch" /\ UNCHANGED found
  /\ UNCHANGED <<call, caller, request>>

CallNext == Preflight \/ CallNamed \/ CallDispatcher \/ DispatchRead \/ Search

CallSpec == CallInit /\ [][CallNext]_callVars

-----------------------------------------------------------------------------
(* Properties *)

\* Whatever selectors and scope a named tool is called with, the operation it
\* resolves to is in the catalog as a GET of the capability the tool asks for,
\* and the tool's arguments fill the operation's path: no combination is
\* refused by the tool's own tables (wan.rs: "resolve it to exactly one catalog
\* operation before dispatch").
NamedToolsFit ==
  request # NoRequest /\ IsNamed(call) =>
    /\ request.op \in DOMAIN CatalogOps
    /\ DOMAIN request.path = CatalogOps[request.op].path
    /\ reason \notin {"unknown", "capability"}
    /\ reason = "target" => \E n \in {"org_id", "site_id"} \cap DOMAIN call.args : call.args[n] \notin Canonical

\* Every organization and site that a request of a token names, as its target
\* or as a filter, is in the token's scope: the handler checks the target, the
\* preflight what the handler does not look at.
SentWithinScope ==
  callPc = "sent" /\ caller # NoCaller =>
    \A map \in {request.path, request.query} : \A f \in {"org_id", "site_id"} \cap DOMAIN map :
      \E subject \in CanonicalTarget(f, map[f]) : Allows(caller, subject)

\* What a search lists can be invoked through the dispatcher of its capability
\* by a caller with the scope for it ("search must not surface ... operations
\* that invoke_mist_read/invoke_mist_privileged_read cannot dispatch").
FoundIsInvocable ==
  \A o \in found, d \in DOMAIN Dispatchers, id \in Canonical :
    LET op == CatalogOps[o]
        r  == [tool |-> d, op |-> o, path |-> [n \in op.path |-> id],
               query |-> [n \in op.required |-> id], capability |-> Dispatchers[d]]
        entitled == [wildcard |-> FALSE, tools |-> {d}, grant |-> TRUE,
                     devices |-> {<<k, id>> : k \in {"org", "site"}}] IN
    Dispatchers[d] = op.capability => Refusal(r, entitled) = ""
=============================================================================
