---------------------------- MODULE WanSelectors ----------------------------
(***************************************************************************)
(* Selector resolution of the collapsed WAN edge tools                      *)
(* (rustmistmcp/src/server/wan.rs): scope, mode and object lead to one      *)
(* catalogued operation and to the arguments that it carries in its path.   *)
(***************************************************************************)

Resolved(op, names) == [op |-> op, names |-> names]

\* resolve_scope: exactly one of the two; the empty set is ScopeError.
ResolveScope(given) ==
  CASE given \cap {"org_id", "site_id"} = {"org_id"} -> {"Org"}
    [] given \cap {"org_id", "site_id"} = {"site_id"} -> {"Site"}
    [] OTHER -> {}

ScopeNames == [Org |-> {"org_id"}, Site |-> {"site_id"}]

WanEdges(scope) ==
  Resolved([Org |-> "searchOrgDevices", Site |-> "searchSiteDevices"][scope], ScopeNames[scope])

\* Mutant of WanEdgeStats: the device is left out of the path.
WanEdgeStatsSitePath(perDevice) ==
  Resolved(IF perDevice THEN "getSiteInsightMetricsForGateway" ELSE "getSiteGatewayMetrics", {"site_id"})

WanEdgeStats(perDevice) ==
  IF perDevice THEN Resolved("getSiteInsightMetricsForGateway", {"site_id", "device_id"})
  ELSE Resolved("getSiteGatewayMetrics", {"site_id"})

Tunnels(mode) ==
  Resolved([Records |-> "searchOrgTunnelsStats", Count |-> "countOrgTunnelsStats"][mode], {"org_id"})

PeerPaths(mode) ==
  Resolved([Records |-> "searchOrgPeerPathStats", Count |-> "countOrgPeerPathStats"][mode], {"org_id"})

BgpPeers(scope, mode) ==
  Resolved([Org  |-> [Records |-> "searchOrgBgpStats", Count |-> "countOrgBgpStats"],
            Site |-> [Records |-> "searchSiteBgpStats", Count |-> "countSiteBgpStats"]][scope][mode],
           ScopeNames[scope])

Alarms(scope, mode) ==
  Resolved([Org  |-> [Records |-> "searchOrgAlarms", Count |-> "countOrgAlarms"],
            Site |-> [Records |-> "searchSiteAlarms", Count |-> "countSiteAlarms"]][scope][mode],
           ScopeNames[scope])

ServicePathEvents(mode) ==
  Resolved([Records |-> "searchSiteServicePathEvents", Count |-> "countSiteServicePathEvents"][mode],
           {"site_id"})

SleImpact(impact) ==
  Resolved([Gateways |-> "listSiteSleImpactedGateways", Applications |-> "listSiteSleImpactedApplications",
            Summary |-> "getSiteSleImpactSummary"][impact],
           {"site_id", "scope", "scope_id", "metric"})

\* The constant catalog has no scope and no count.
Applications(source, mode) ==
  IF source = "Catalog" THEN Resolved("listGatewayApplications", {})
  ELSE Resolved([Records |-> "listSiteApps", Count |-> "countSiteApps"][mode], {"site_id"})

ListConfig(object, scope) ==
  Resolved(
    [Org  |-> [Network |-> "listOrgNetworks", Service |-> "listOrgServices",
               ServicePolicy |-> "listOrgServicePolicies", GatewayTemplate |-> "listOrgGatewayTemplates",
               DeviceProfile |-> "listOrgDeviceProfiles"],
     Site |-> [Network |-> "listSiteNetworksDerived", Service |-> "listSiteServicesDerived",
               ServicePolicy |-> "listSiteServicePoliciesDerived",
               GatewayTemplate |-> "listSiteGatewayTemplatesDerived",
               DeviceProfile |-> "listSiteDeviceProfilesDerived"]][scope][object],
    ScopeNames[scope])

ObjectIdName ==
  [Network |-> "network_id", Service |-> "service_id", ServicePolicy |-> "servicepolicy_id",
   GatewayTemplate |-> "gatewaytemplate_id", DeviceProfile |-> "deviceprofile_id"]

GetConfig(object) ==
  Resolved([Network |-> "getOrgNetwork", Service |-> "getOrgService", ServicePolicy |-> "getOrgServicePolicy",
            GatewayTemplate |-> "getOrgGatewayTemplate", DeviceProfile |-> "getOrgDeviceProfile"][object],
           [Network |-> {"org_id", "network_id"}, Service |-> {"org_id", "service_id"},
            ServicePolicy |-> {"org_id", "servicepolicy_id"},
            GatewayTemplate |-> {"org_id", "gatewaytemplate_id"},
            DeviceProfile |-> {"org_id", "deviceprofile_id"}][object])
=============================================================================
