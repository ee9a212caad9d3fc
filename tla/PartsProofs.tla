----------------------------- MODULE PartsProofs -----------------------------
(***************************************************************************)
(* Proofs about the parts around the dispatch and the changes.  The load of *)
(* a catalog, for any documents, and the tool calls and searches that use   *)
(* one, for any catalog, tokens and arguments.  The start of the processes: *)
(* the audit key, the signal hooks, the evidence spool and the token store, *)
(* for any number of processes and any command lines.  The suggestions for  *)
(* an unknown operation id, for any catalog, any id and any limits.         *)
(***************************************************************************)
EXTENDS CatalogLoad, ToolSurface, Startup, Similarity, FiniteSetTheorems, SequenceTheorems,
        TLAPS

-----------------------------------------------------------------------------
(* The index *)

\* The index leads from the id of each operation scanned so far to its place.
IndexHeld ==
  /\ position \in Nat \ {0} /\ document \in Documents
  /\ \A id \in DOMAIN index :
       index[id] \in DOMAIN Operations /\ index[id] < position /\ Operations[index[id]].id = id
  /\ \A i \in DOMAIN Operations : i < position =>
       Operations[i].id \in DOMAIN index /\ index[Operations[i].id] = i

\* A catalog is loaded after the last operation and the check of its policies.
LoadInv ==
  /\ IndexHeld
  /\ loadPc = "loaded" =>
       position > Len(Operations) /\ \A i \in DOMAIN Operations : ValidateVerification(Operations[i])

\* The positions of a document.
LEMMA OperationPositions ==
  ASSUME document \in Documents
  PROVE  DOMAIN Operations = 1..Len(Operations) /\ Len(Operations) \in Nat
<1> DEFINE D == {Operations[i] : i \in DOMAIN Operations}
<1>1. Operations \in Seq(D)
  BY DocumentsAssumption DEF Operations
<1> HIDE DEF D
<1> QED
  BY <1>1

\* One operation more: its id is new, so no earlier entry is replaced.
LEMMA ScanHeld == ASSUME LoadInv, ScanOperation PROVE LoadInv'
<1> USE DEF LoadInv
<1> DEFINE id == Operations[position].id
<1>1. /\ UNCHANGED <<loadPc, document>> /\ position' = position + 1 /\ loadPc = "scan"
      /\ DOMAIN index' = DOMAIN index \cup {id}
      /\ \A x \in DOMAIN index \cup {id} : index'[x] = IF x = id THEN position ELSE index[x]
  BY DEF ScanOperation
<1>2. position \in DOMAIN Operations
  BY OperationPositions DEF ScanOperation, IndexHeld
<1>3. \A h \in DOMAIN Operations : h < position => Operations[h].id # id
  BY OperationPositions DEF ScanOperation, Unique, IndexHeld
<1>4. Operations' = Operations
  BY <1>1 DEF Operations
<1>5. position' \in Nat \ {0} /\ document' \in Documents
  BY <1>1 DEF IndexHeld
<1> HIDE DEF id
<1>6. ASSUME NEW x \in DOMAIN index'
      PROVE  index'[x] \in DOMAIN Operations /\ index'[x] < position' /\ Operations[index'[x]].id = x
  <2>1. CASE x = id
    BY <1>1, <1>2, <2>1 DEF id, IndexHeld
  <2>2. CASE x # id
    <3>1. x \in DOMAIN index /\ index'[x] = index[x]
      BY <1>1, <2>2
    <3>2. index[x] \in DOMAIN Operations /\ index[x] < position /\ Operations[index[x]].id = x
      BY <3>1 DEF IndexHeld
    <3> QED
      BY <1>1, <3>1, <3>2, OperationPositions DEF IndexHeld
  <2> QED
    BY <2>1, <2>2
<1>7. ASSUME NEW i \in DOMAIN Operations, i < position'
      PROVE  Operations[i].id \in DOMAIN index' /\ index'[Operations[i].id] = i
  <2>1. CASE i = position
    BY <1>1, <2>1 DEF id
  <2>2. CASE i # position
    <3>1. i < position
      BY <1>1, <1>7, <2>2, OperationPositions DEF IndexHeld
    <3>2. Operations[i].id \in DOMAIN index /\ index[Operations[i].id] = i /\ Operations[i].id # id
      BY <1>3, <3>1 DEF IndexHeld
    <3> QED
      BY <1>1, <3>2
  <2> QED
    BY <2>1, <2>2
<1> QED
  BY <1>1, <1>4, <1>5, <1>6, <1>7 DEF IndexHeld

\* LoadInv holds in every state of a load.
THEOREM LoadInductive == LoadSpec => []LoadInv
<1>1. LoadInit => LoadInv
  BY OperationPositions DEF LoadInit, LoadInv, IndexHeld
<1>2. LoadInv /\ [LoadNext]_loadVars => LoadInv'
  <2> SUFFICES ASSUME LoadInv, [LoadNext]_loadVars PROVE LoadInv'
    OBVIOUS
  <2>1. CASE ScanOperation
    BY <2>1, ScanHeld
  <2>2. ASSUME UNCHANGED <<document, position, index>> PROVE IndexHeld'
    BY <2>2 DEF LoadInv, IndexHeld, Operations
  <2>3. CASE CheckHead \/ RefuseOperation
    BY <2>2, <2>3 DEF CheckHead, RefuseOperation, LoadInv
  <2>4. CASE FinishLoad
    <3>1. Operations' = Operations /\ index' = index /\ position' = position
      BY <2>4 DEF FinishLoad, Operations
    <3>2. loadPc' = "loaded" => \A i \in DOMAIN Operations : ValidateVerification(Operations[i])
      BY <2>4 DEF FinishLoad
    <3>3. \A op : ValidateVerification(op)' <=> ValidateVerification(op)
      BY <3>1 DEF ValidateVerification, Lookup
    <3>4. position > Len(Operations)
      BY <2>4 DEF FinishLoad
    <3> QED
      BY <2>2, <2>4, <3>1, <3>2, <3>3, <3>4 DEF FinishLoad, LoadInv
  <2>5. CASE UNCHANGED loadVars
    <3>1. Operations' = Operations /\ UNCHANGED <<document, position, index, loadPc>>
      BY <2>5 DEF loadVars, Operations
    <3>2. \A op : ValidateVerification(op)' <=> ValidateVerification(op)
      BY <3>1 DEF ValidateVerification, Lookup
    <3> QED
      BY <2>2, <3>1, <3>2 DEF LoadInv
  <2> QED
    BY <2>1, <2>3, <2>4, <2>5 DEF LoadNext
<1> QED
  BY <1>1, <1>2, PTL DEF LoadSpec

\* In a loaded catalog the id of each operation leads to that operation and to
\* no other (Catalog::operation).
THEOREM LookupExact ==
  LoadSpec => [](loadPc = "loaded" => \A i \in DOMAIN Operations : Lookup(Operations[i].id) = {Operations[i]})
<1>1. LoadInv => (loadPc = "loaded" => \A i \in DOMAIN Operations : Lookup(Operations[i].id) = {Operations[i]})
  <2> SUFFICES ASSUME LoadInv, loadPc = "loaded", NEW i \in DOMAIN Operations
               PROVE  Lookup(Operations[i].id) = {Operations[i]}
    OBVIOUS
  <2>1. i < position
    BY OperationPositions DEF LoadInv, IndexHeld
  <2> QED
    BY <2>1 DEF LoadInv, IndexHeld, Lookup
<1> QED
  BY <1>1, LoadInductive, PTL

\* Every operation of a loaded catalog that changes something says how the
\* change is confirmed: by a GET of this catalog or by a reason
\* (validate_verification, through the index of parse).
THEOREM ConfirmedByCatalog == LoadSpec => []MutationsVerifiable
<1>1. LoadInv => MutationsVerifiable
  <2> SUFFICES ASSUME LoadInv, loadPc = "loaded", NEW i \in DOMAIN Operations,
                      Operations[i].action \notin Reads, ~Operations[i].reason
               PROVE  \E h \in DOMAIN Operations :
                        Operations[h].id = Operations[i].followUp /\ Operations[h].method = "GET"
    BY DEF MutationsVerifiable
  <2>1. PICK read \in Lookup(Operations[i].followUp) : read.method = "GET"
    BY DEF LoadInv, ValidateVerification
  <2>2. Operations[i].followUp \in DOMAIN index /\ read = Operations[index[Operations[i].followUp]]
    BY DEF Lookup
  <2> QED
    BY <2>1, <2>2 DEF LoadInv, IndexHeld
<1> QED
  BY <1>1, LoadInductive, PTL

-----------------------------------------------------------------------------
(* The tables of the named tools *)

\* What r leads to is in the catalog as the tool expects it, and its path asks for
\* one target at most, for no service provider, and only for what is given.
Fits(r, given) ==
  /\ IsRead({r.op}, r.names, r.capability)
  /\ "msp_id" \notin r.names /\ ~({"org_id", "site_id"} \subseteq r.names)
  /\ r.names \subseteq given

\* A row fits that names one of the catalogued reads with its path.
LEMMA RowFits ==
  ASSUME NEW ops, NEW names, NEW capability, NEW op \in ops, NEW given,
         IsRead(ops, names, capability), names \subseteq given,
         "msp_id" \notin names, "org_id" \notin names \/ "site_id" \notin names
  PROVE  Fits(Tool(op, names, capability), given)
BY DEF Fits, IsRead, Tool

\* The tools for devices.
LEMMA DeviceFits == \A tool \in DOMAIN DeviceTools : Fits(DeviceTools[tool], Required(tool))
<1> USE PinnedAssumption, RowFits
<1>1. Fits(DeviceTools["get_mist_device"], Required("get_mist_device"))
  BY DEF DeviceTools, Required, EitherScope
<1>2. Fits(DeviceTools["get_mist_device_stats"], Required("get_mist_device_stats"))
  BY DEF DeviceTools, Required, EitherScope
<1>3. Fits(DeviceTools["get_mist_insight"], Required("get_mist_insight"))
  BY DEF DeviceTools, Required, EitherScope, SiteReads
<1> QED BY <1>1, <1>2, <1>3 DEF DeviceTools

\* The tools for single objects.
LEMMA GetFits == \A tool \in DOMAIN GetTools : Fits(GetTools[tool], Required(tool))
<1> USE PinnedAssumption, RowFits
<1>1. Fits(GetTools["get_mist_org"], Required("get_mist_org"))
  BY DEF GetTools, Required, EitherScope, OrgReads
<1>2. Fits(GetTools["get_mist_rrm"], Required("get_mist_rrm"))
  BY DEF GetTools, Required, EitherScope, SiteReads
<1>3. Fits(GetTools["get_mist_self"], Required("get_mist_self"))
  BY DEF GetTools, Required, EitherScope
<1>4. Fits(GetTools["get_mist_site"], Required("get_mist_site"))
  BY DEF GetTools, Required, EitherScope, SiteReads
<1>5. Fits(GetTools["get_mist_sle"], Required("get_mist_sle"))
  BY DEF GetTools, Required, EitherScope, SleReads
<1> QED BY <1>1, <1>2, <1>3, <1>4, <1>5 DEF GetTools

\* The tools for lists.
LEMMA ListFits == \A tool \in DOMAIN ListTools : Fits(ListTools[tool], Required(tool))
<1> USE PinnedAssumption, RowFits
<1>1. Fits(ListTools["list_mist_rogues"], Required("list_mist_rogues"))
  BY DEF ListTools, Required, EitherScope, SiteReads
<1>2. Fits(ListTools["list_mist_sites"], Required("list_mist_sites"))
  BY DEF ListTools, Required, EitherScope, OrgReads
<1>3. Fits(ListTools["list_mist_sle_metrics"], Required("list_mist_sle_metrics"))
  BY DEF ListTools, Required, EitherScope
<1>4. Fits(ListTools["list_mist_upgrades"], Required("list_mist_upgrades"))
  BY DEF ListTools, Required, EitherScope, SiteReads
<1> QED BY <1>1, <1>2, <1>3, <1>4 DEF ListTools

\* The tools for WLANs.
LEMMA WlanFits == \A tool \in DOMAIN WlanTools : Fits(WlanTools[tool], Required(tool))
<1> USE PinnedAssumption, RowFits
<1>1. Fits(WlanTools["list_mist_wlans"], Required("list_mist_wlans"))
  BY DEF WlanTools, Required, EitherScope, SitePrivileged
<1> QED BY <1>1 DEF WlanTools

\* The tools for logs.
LEMMA LogFits == \A tool \in DOMAIN LogTools : Fits(LogTools[tool], Required(tool))
<1> USE PinnedAssumption, RowFits
<1>1. Fits(LogTools["list_mist_alarm_definitions"], Required("list_mist_alarm_definitions"))
  BY DEF LogTools, Required, EitherScope
<1>2. Fits(LogTools["search_mist_audit_logs"], Required("search_mist_audit_logs"))
  BY DEF LogTools, Required, EitherScope, OrgPrivileged
<1> QED BY <1>1, <1>2 DEF LogTools

\* The tools for searches.
LEMMA SearchFits == \A tool \in DOMAIN SearchTools : Fits(SearchTools[tool], Required(tool))
<1> USE PinnedAssumption, RowFits
<1>1. Fits(SearchTools["search_mist_clients"], Required("search_mist_clients"))
  BY DEF SearchTools, Required, EitherScope, SiteReads
<1>2. Fits(SearchTools["search_mist_events"], Required("search_mist_events"))
  BY DEF SearchTools, Required, EitherScope, SiteReads
<1>3. Fits(SearchTools["search_mist_inventory"], Required("search_mist_inventory"))
  BY DEF SearchTools, Required, EitherScope, OrgReads
<1> QED BY <1>1, <1>2, <1>3 DEF SearchTools

\* The tools for troubleshooting.
LEMMA TroubleshootFits == \A tool \in DOMAIN TroubleshootTools : Fits(TroubleshootTools[tool], Required(tool))
<1> USE PinnedAssumption, RowFits
<1>1. Fits(TroubleshootTools["troubleshoot_mist"], Required("troubleshoot_mist"))
  BY DEF TroubleshootTools, Required, EitherScope, SiteReads
<1> QED BY <1>1 DEF TroubleshootTools

\* A scope that resolves is given by its id.
LEMMA ScopeGiven ==
  ASSUME NEW given, NEW s \in ResolveScope(given)
  PROVE  s \in {"Org", "Site"} /\ ScopeNames[s] \subseteq given
<1>1. ResolveScope(given) =
        IF given \cap {"org_id", "site_id"} = {"org_id"} THEN {"Org"}
        ELSE IF given \cap {"org_id", "site_id"} = {"site_id"} THEN {"Site"} ELSE {}
  BY DEF ResolveScope
<1> QED BY <1>1 DEF ScopeNames


\* The lists of configuration, in either scope.
LEMMA ListConfigFits ==
  ASSUME NEW object \in DOMAIN ObjectIdName, NEW s \in {"Org", "Site"}
  PROVE  Fits(As(ListConfig(object, s), ConfigCapability(object)), ScopeNames[s])
<1> USE PinnedAssumption, RowFits DEF As, ListConfig, ConfigCapability, Resolved, ScopeNames
<1>1. object \in {"Network", "Service", "ServicePolicy", "GatewayTemplate", "DeviceProfile"}
  BY DEF ObjectIdName
<1>2. CASE s = "Org" /\ object \in {"Network", "Service", "ServicePolicy"}
  BY <1>2 DEF OrgReads
<1>3. CASE s = "Org" /\ object \in {"GatewayTemplate", "DeviceProfile"}
  BY <1>3 DEF OrgPrivileged
<1>4. CASE s = "Site" /\ object \in {"Network", "Service", "ServicePolicy"}
  BY <1>4 DEF SiteReads
<1>5. CASE s = "Site" /\ object \in {"GatewayTemplate", "DeviceProfile"}
  BY <1>5 DEF SitePrivileged
<1> QED BY <1>1, <1>2, <1>3, <1>4, <1>5

\* Devices, alarms and BGP peers of an organization or a site.
LEMMA ScopedFits ==
  ASSUME NEW s \in {"Org", "Site"}, NEW mode \in Modes
  PROVE  /\ Fits(As(WanEdges(s), "OrdinaryRead"), ScopeNames[s])
         /\ Fits(As(Alarms(s, mode), "OrdinaryRead"), ScopeNames[s])
         /\ Fits(As(BgpPeers(s, mode), "OrdinaryRead"), ScopeNames[s])
<1> USE PinnedAssumption, RowFits DEF As, Resolved, ScopeNames, Modes
<1>1. CASE s = "Org"
  <2>1. Fits(As(WanEdges("Org"), "OrdinaryRead"), ScopeNames["Org"])
    BY DEF WanEdges, OrgReads
  <2>2. Fits(As(Alarms("Org", mode), "OrdinaryRead"), ScopeNames["Org"])
    BY DEF Alarms, OrgReads
  <2>3. Fits(As(BgpPeers("Org", mode), "OrdinaryRead"), ScopeNames["Org"])
    BY DEF BgpPeers, OrgReads
  <2> QED BY <1>1, <2>1, <2>2, <2>3
<1>2. CASE s = "Site"
  <2>1. Fits(As(WanEdges("Site"), "OrdinaryRead"), ScopeNames["Site"])
    BY DEF WanEdges, SiteReads
  <2>2. Fits(As(Alarms("Site", mode), "OrdinaryRead"), ScopeNames["Site"])
    BY DEF Alarms, SiteReads
  <2>3. Fits(As(BgpPeers("Site", mode), "OrdinaryRead"), ScopeNames["Site"])
    BY DEF BgpPeers, SiteReads
  <2> QED BY <1>2, <2>1, <2>2, <2>3
<1> QED BY <1>1, <1>2

\* Tunnels and peer paths of an organization, service paths of a site.
LEMMA StatsFits ==
  ASSUME NEW mode \in Modes
  PROVE  /\ Fits(As(Tunnels(mode), "OrdinaryRead"), {"org_id"})
         /\ Fits(As(PeerPaths(mode), "OrdinaryRead"), {"org_id"})
         /\ Fits(As(ServicePathEvents(mode), "OrdinaryRead"), {"site_id"})
<1> USE PinnedAssumption, RowFits DEF As, Resolved, Modes
<1>1. Fits(As(Tunnels(mode), "OrdinaryRead"), {"org_id"})
  BY DEF Tunnels, OrgReads
<1>2. Fits(As(PeerPaths(mode), "OrdinaryRead"), {"org_id"})
  BY DEF PeerPaths, OrgReads
<1>3. Fits(As(ServicePathEvents(mode), "OrdinaryRead"), {"site_id"})
  BY DEF ServicePathEvents, SiteReads
<1> QED BY <1>1, <1>2, <1>3

\* The impact of a service level, the statistics of an edge, the applications.
LEMMA SiteFits ==
  /\ \A impact \in {"Gateways", "Applications", "Summary"} :
       Fits(As(SleImpact(impact), "OrdinaryRead"), {"site_id", "scope", "scope_id", "metric"})
  /\ Fits(As(WanEdgeStats(TRUE), "OrdinaryRead"), {"site_id", "device_id"})
  /\ Fits(As(WanEdgeStats(FALSE), "OrdinaryRead"), {"site_id"})
  /\ \A mode \in Modes : Fits(As(Applications("Site", mode), "OrdinaryRead"), {"site_id"})
  /\ \A mode \in Modes : Fits(As(Applications("Catalog", mode), "OrdinaryRead"), {})
<1> USE PinnedAssumption, RowFits DEF As, Resolved, Modes
<1>1. \A impact \in {"Gateways", "Applications", "Summary"} :
        Fits(As(SleImpact(impact), "OrdinaryRead"), {"site_id", "scope", "scope_id", "metric"})
  BY DEF SleImpact, SleReads
<1>2. Fits(As(WanEdgeStats(TRUE), "OrdinaryRead"), {"site_id", "device_id"})
  BY DEF WanEdgeStats
<1>3. Fits(As(WanEdgeStats(FALSE), "OrdinaryRead"), {"site_id"})
  BY DEF WanEdgeStats, SiteReads
<1>4. \A mode \in Modes : Fits(As(Applications("Site", mode), "OrdinaryRead"), {"site_id"})
  BY DEF Applications, SiteReads
<1>5. \A mode \in Modes : Fits(As(Applications("Catalog", mode), "OrdinaryRead"), {})
  BY DEF Applications
<1> QED BY <1>1, <1>2, <1>3, <1>4, <1>5

\* One object of the configuration.
LEMMA GetConfigFits ==
  ASSUME NEW object \in DOMAIN ObjectIdName
  PROVE  Fits(As(GetConfig(object), ConfigCapability(object)), {"org_id", ObjectIdName[object]})
<1> USE PinnedAssumption, RowFits DEF As, GetConfig, ConfigCapability, Resolved, ObjectIdName
<1>1. object \in {"Network", "Service", "ServicePolicy", "GatewayTemplate", "DeviceProfile"}
  OBVIOUS
<1>2. CASE object = "Network"
  BY <1>2
<1>3. CASE object = "Service"
  BY <1>3
<1>4. CASE object = "ServicePolicy"
  BY <1>4
<1>5. CASE object = "GatewayTemplate"
  BY <1>5
<1>6. CASE object = "DeviceProfile"
  BY <1>6
<1> QED BY <1>1, <1>2, <1>3, <1>4, <1>5, <1>6

\* More given fits as well.
LEMMA FitsMore == ASSUME NEW r, NEW given, Fits(r, given), NEW more, given \subseteq more PROVE Fits(r, more)
BY DEF Fits

\* What the arguments of a call are serialized to has those that it must have.
LEMMA RequiredSerialized ==
  ASSUME NEW c \in ToolCalls, IsNamed(c)
  PROVE  /\ c.tool # "get_mist_wan_config" => DOMAIN c.args \subseteq DOMAIN Serialized(c)
         /\ c.tool = "get_mist_wan_config" => DOMAIN Serialized(c) = {"org_id", ObjectIdName[c.sel.object]}
         /\ c.tool \in NamedTools /\ c.sel \in Selectable(c.tool) /\ Required(c.tool) \subseteq DOMAIN c.args
<1>1. CASE c.tool = "get_mist_wan_config"
  BY <1>1, SurfaceAssumption DEF Serialized
<1>2. CASE c.tool = "list_mist_wan_edges"
  BY <1>2, SurfaceAssumption DEF Serialized
<1>3. CASE c.tool \notin {"get_mist_wan_config", "list_mist_wan_edges"}
  BY <1>3, SurfaceAssumption DEF Serialized
<1> QED BY <1>1, <1>2, <1>3

\* The tools of each table, and the others.
LEMMA ToolNames ==
  /\ DOMAIN DeviceTools = {"get_mist_device", "get_mist_device_stats", "get_mist_insight"}
  /\ DOMAIN GetTools = {"get_mist_org", "get_mist_rrm", "get_mist_self", "get_mist_site", "get_mist_sle"}
  /\ DOMAIN ListTools = {"list_mist_rogues", "list_mist_sites", "list_mist_sle_metrics", "list_mist_upgrades"}
  /\ DOMAIN WlanTools = {"list_mist_wlans"}
  /\ DOMAIN LogTools = {"list_mist_alarm_definitions", "search_mist_audit_logs"}
  /\ DOMAIN SearchTools = {"search_mist_clients", "search_mist_events", "search_mist_inventory"}
  /\ DOMAIN TroubleshootTools = {"troubleshoot_mist"}
BY DEF DeviceTools, GetTools, ListTools, WlanTools, LogTools, SearchTools, TroubleshootTools

\* Every tool but those of the tables.
SelectorTools ==
  EitherScope \cup
  {"get_mist_sle_impact", "get_mist_wan_edge_stats", "get_mist_wan_config", "list_mist_applications",
   "search_mist_tunnels", "search_mist_peer_paths", "search_mist_service_path_events"}

\* A call of a tool of the tables resolves to its row.
LEMMA TableRow ==
  ASSUME NEW c, c.tool \in NamedTools, c.tool \notin SelectorTools
  PROVE  \E r : ResolveTool(c) = {r} /\ Fits(r, Required(c.tool))
<1>1. \/ c.tool \in DOMAIN DeviceTools \/ c.tool \in DOMAIN GetTools \/ c.tool \in DOMAIN ListTools
      \/ c.tool \in DOMAIN WlanTools \/ c.tool \in DOMAIN LogTools \/ c.tool \in DOMAIN SearchTools
      \/ c.tool \in DOMAIN TroubleshootTools
  <2> DEFINE tables == {DOMAIN DeviceTools, DOMAIN GetTools, DOMAIN ListTools, DOMAIN WlanTools,
                        DOMAIN LogTools, DOMAIN SearchTools, DOMAIN TroubleshootTools, EitherScope}
             others == {"get_mist_sle_impact", "get_mist_wan_edge_stats", "get_mist_wan_config",
                        "list_mist_applications", "search_mist_tunnels", "search_mist_peer_paths",
                        "search_mist_service_path_events"}
  <2>1. NamedTools = (UNION tables) \cup others /\ SelectorTools = EitherScope \cup others
    BY Zenon DEF NamedTools, SelectorTools
  <2> HIDE DEF others
  <2>2. c.tool \in UNION tables /\ c.tool \notin EitherScope
    BY <2>1, Zenon
  <2> QED BY <2>2, Zenon
<1>2. CASE c.tool \in DOMAIN DeviceTools
  BY <1>2, ToolNames, DeviceFits DEF ResolveTool
<1>3. CASE c.tool \in DOMAIN GetTools
  BY <1>3, ToolNames, GetFits DEF ResolveTool
<1>4. CASE c.tool \in DOMAIN ListTools
  BY <1>4, ToolNames, ListFits DEF ResolveTool
<1>5. CASE c.tool \in DOMAIN WlanTools
  BY <1>5, ToolNames, WlanFits DEF ResolveTool
<1>6. CASE c.tool \in DOMAIN LogTools
  BY <1>6, ToolNames, LogFits DEF ResolveTool
<1>7. CASE c.tool \in DOMAIN SearchTools
  BY <1>7, ToolNames, SearchFits DEF ResolveTool
<1>8. CASE c.tool \in DOMAIN TroubleshootTools
  BY <1>8, ToolNames, TroubleshootFits DEF ResolveTool
<1> QED BY <1>1, <1>2, <1>3, <1>4, <1>5, <1>6, <1>7, <1>8

\* Another tool than those of the tables resolves by its selectors and arguments.
LEMMA SelectorRow ==
  ASSUME NEW c, c.tool \in SelectorTools
  PROVE  ResolveTool(c) =
           CASE c.tool = "list_mist_wan_config" -> WanConfigList(c)
             [] c.tool = "list_mist_wan_edges" -> WanEdgeList(c)
             [] c.tool = "search_mist_alarms" -> AlarmSearch(c)
             [] c.tool = "search_mist_bgp_peers" -> BgpPeerSearch(c)
             [] c.tool = "get_mist_sle_impact" -> SleImpactGet(c)
             [] c.tool = "get_mist_wan_edge_stats" -> WanEdgeStatsGet(c)
             [] c.tool = "get_mist_wan_config" -> WanConfigGet(c)
             [] c.tool = "list_mist_applications" -> ApplicationList(c)
             [] OTHER -> StatsSearch(c)
<1>1. /\ c.tool \notin DOMAIN DeviceTools /\ c.tool \notin DOMAIN GetTools /\ c.tool \notin DOMAIN ListTools
      /\ c.tool \notin DOMAIN WlanTools /\ c.tool \notin DOMAIN LogTools /\ c.tool \notin DOMAIN SearchTools
      /\ c.tool \notin DOMAIN TroubleshootTools
  BY ToolNames DEF SelectorTools, EitherScope
<1> QED BY <1>1 DEF ResolveTool

\* Whatever a named tool resolves to fits, with the arguments that it serializes.
LEMMA ResolvedFits ==
  ASSUME NEW c \in ToolCalls, IsNamed(c), NEW r \in ResolveTool(c)
  PROVE  Fits(r, DOMAIN Serialized(c))
<1> DEFINE given == DOMAIN Serialized(c)
<1>1. c.tool \in NamedTools /\ c.sel \in Selectable(c.tool) /\ Required(c.tool) \subseteq DOMAIN c.args
  BY RequiredSerialized
<1>2. c.tool # "get_mist_wan_config" => Required(c.tool) \subseteq given /\ DOMAIN c.args \subseteq given
  BY RequiredSerialized
<1>3. CASE c.tool \notin SelectorTools
  <2>1. c.tool # "get_mist_wan_config"
    BY <1>3 DEF SelectorTools
  <2>2. Fits(r, Required(c.tool))
    BY <1>1, <1>3, TableRow
  <2> QED BY <1>2, <2>1, <2>2, FitsMore
<1>4. CASE c.tool = "list_mist_wan_config"
  <2>1. c.sel \in [object: DOMAIN ObjectIdName]
    BY <1>1, <1>4 DEF Selectable
  <2>2. PICK s \in ResolveScope(DOMAIN c.args) :
          r = As(ListConfig(c.sel.object, s), ConfigCapability(c.sel.object))
    BY <1>4, SelectorRow DEF SelectorTools, EitherScope, WanConfigList
  <2>3. Fits(r, ScopeNames[s]) /\ ScopeNames[s] \subseteq given
    BY <1>2, <1>4, <2>1, <2>2, ScopeGiven, ListConfigFits
  <2> QED BY <2>3, FitsMore
<1>5. CASE c.tool \in {"list_mist_wan_edges", "search_mist_alarms", "search_mist_bgp_peers"}
  <2>1. c.tool # "list_mist_wan_edges" => c.sel.mode \in Modes
    BY <1>1, <1>5 DEF Selectable
  <2>2. PICK s \in ResolveScope(DOMAIN c.args) :
          \/ r = As(WanEdges(s), "OrdinaryRead")
          \/ c.sel.mode \in Modes /\ r = As(Alarms(s, c.sel.mode), "OrdinaryRead")
          \/ c.sel.mode \in Modes /\ r = As(BgpPeers(s, c.sel.mode), "OrdinaryRead")
    BY <1>5, <2>1, SelectorRow DEF SelectorTools, EitherScope, WanEdgeList, AlarmSearch, BgpPeerSearch
  <2>3. "Records" \in Modes
    BY DEF Modes
  <2>4. Fits(r, ScopeNames[s]) /\ ScopeNames[s] \subseteq given
    BY <1>2, <1>5, <2>2, <2>3, ScopeGiven, ScopedFits
  <2> QED BY <2>4, FitsMore
<1>6. CASE c.tool = "get_mist_sle_impact"
  <2>1. c.sel.impact \in {"Gateways", "Applications", "Summary"}
    BY <1>1, <1>6 DEF Selectable
  <2>2. r = As(SleImpact(c.sel.impact), "OrdinaryRead")
    BY <1>6, SelectorRow DEF SelectorTools, SleImpactGet
  <2>3. Required(c.tool) = {"site_id", "scope", "scope_id", "metric"}
    BY <1>6 DEF Required, EitherScope
  <2> QED BY <1>2, <1>6, <2>1, <2>2, <2>3, SiteFits, FitsMore
<1>7. CASE c.tool = "get_mist_wan_edge_stats"
  <2>1. r = As(WanEdgeStats("device_id" \in DOMAIN c.args), "OrdinaryRead")
    BY <1>7, SelectorRow DEF SelectorTools, WanEdgeStatsGet
  <2>2. Required(c.tool) = {"site_id"}
    BY <1>7 DEF Required, EitherScope
  <2>3. CASE "device_id" \in DOMAIN c.args
    <3>1. r = As(WanEdgeStats(TRUE), "OrdinaryRead")
      BY <2>1, <2>3
    <3>2. {"site_id", "device_id"} \subseteq given
      BY <1>2, <1>7, <2>2, <2>3
    <3> QED BY <3>1, <3>2, SiteFits, FitsMore
  <2>4. CASE "device_id" \notin DOMAIN c.args
    <3>1. r = As(WanEdgeStats(FALSE), "OrdinaryRead")
      BY <2>1, <2>4 DEF WanEdgeStats
    <3>2. {"site_id"} \subseteq given
      BY <1>2, <1>7, <2>2
    <3> QED BY <3>1, <3>2, SiteFits, FitsMore
  <2> QED BY <2>3, <2>4
<1>8. CASE c.tool = "get_mist_wan_config"
  <2>1. c.sel \in [object: DOMAIN ObjectIdName]
    BY <1>1, <1>8 DEF Selectable
  <2>2. r = As(GetConfig(c.sel.object), ConfigCapability(c.sel.object))
    BY <1>8, SelectorRow DEF SelectorTools, WanConfigGet
  <2> QED BY <1>8, <2>1, <2>2, RequiredSerialized, GetConfigFits
<1>9. CASE c.tool = "list_mist_applications"
  <2>1. c.sel.mode \in Modes /\ c.sel.source \in {"Site", "Catalog"}
    BY <1>1, <1>9 DEF Selectable
  <2>2. /\ r = As(Applications(c.sel.source, c.sel.mode), "OrdinaryRead")
        /\ c.sel.source = "Site" => "site_id" \in DOMAIN c.args
    BY <1>9, SelectorRow DEF SelectorTools, ApplicationList
  <2>3. CASE c.sel.source = "Site"
    <3>1. {"site_id"} \subseteq given
      BY <1>2, <1>9, <2>2, <2>3
    <3> QED BY <2>1, <2>2, <2>3, <3>1, SiteFits, FitsMore
  <2>4. CASE c.sel.source = "Catalog"
    BY <2>1, <2>2, <2>4, SiteFits, FitsMore
  <2> QED BY <2>1, <2>3, <2>4
<1>10. CASE c.tool \in {"search_mist_tunnels", "search_mist_peer_paths", "search_mist_service_path_events"}
  <2>1. c.sel.mode \in Modes
    BY <1>1, <1>10 DEF Selectable
  <2>2. r = As(CASE c.tool = "search_mist_tunnels" -> Tunnels(c.sel.mode)
                 [] c.tool = "search_mist_peer_paths" -> PeerPaths(c.sel.mode)
                 [] c.tool = "search_mist_service_path_events" -> ServicePathEvents(c.sel.mode), "OrdinaryRead")
    BY <1>10, SelectorRow DEF SelectorTools, StatsSearch
  <2>3. Required(c.tool) = IF c.tool = "search_mist_service_path_events" THEN {"site_id"} ELSE {"org_id"}
    BY <1>10 DEF Required, EitherScope
  <2>4. Fits(r, Required(c.tool))
    BY <1>10, <2>1, <2>2, <2>3, StatsFits
  <2> QED BY <1>2, <1>10, <2>4, FitsMore
<1> QED BY <1>3, <1>4, <1>5, <1>6, <1>7, <1>8, <1>9, <1>10 DEF SelectorTools, EitherScope

\* An organization or a site among the arguments is serialized as it is.
LEMMA TargetSerialized ==
  ASSUME NEW c \in ToolCalls, IsNamed(c), NEW n \in {"org_id", "site_id"}, n \in DOMAIN Serialized(c)
  PROVE  n \in DOMAIN c.args /\ Serialized(c)[n] = c.args[n]
<1>1. CASE c.tool = "get_mist_wan_config"
  <2>1. c.sel.object \in DOMAIN ObjectIdName
    <3>1. c.sel \in Selectable(c.tool)
      BY RequiredSerialized
    <3> QED BY <1>1, <3>1 DEF Selectable
  <2>2. ObjectIdName[c.sel.object] \notin {"org_id", "site_id"}
    BY <2>1 DEF ObjectIdName
  <2>3. "org_id" \in DOMAIN c.args
    <3>1. "org_id" \in Required(c.tool)
      BY <1>1 DEF Required, EitherScope
    <3> QED BY <3>1, RequiredSerialized
  <2> DEFINE S == [k \in {"org_id", ObjectIdName[c.sel.object]} |->
                     IF k = "org_id" THEN c.args["org_id"] ELSE c.args["object_id"]]
  <2>4. Serialized(c) = S
    BY <1>1 DEF Serialized
  <2>5. n = "org_id" /\ S["org_id"] = c.args["org_id"]
    BY <2>2, <2>4
  <2> HIDE DEF S
  <2> QED BY <2>3, <2>4, <2>5
<1>2. CASE c.tool = "list_mist_wan_edges"
  <2> DEFINE S == [k \in DOMAIN c.args \cup {"type"} |-> IF k = "type" THEN "gateway" ELSE c.args[k]]
  <2>1. Serialized(c) = S
    BY <1>2 DEF Serialized
  <2>2. n \in DOMAIN S => n \in DOMAIN c.args /\ S[n] = c.args[n]
    OBVIOUS
  <2> HIDE DEF S
  <2> QED BY <2>1, <2>2
<1>3. CASE c.tool \notin {"get_mist_wan_config", "list_mist_wan_edges"}
  BY <1>3 DEF Serialized
<1> QED BY <1>1, <1>2, <1>3

\* The request that a call of a named tool becomes.
Requested(c, r) ==
  [tool |-> c.tool, op |-> r.op, path |-> NamedMaps(Serialized(c), r.names).path,
   query |-> NamedMaps(Serialized(c), r.names).query, capability |-> r.capability]

\* dispatch_catalogued_read refuses it for its operation or its capability never,
\* and for its target only where the caller gave an id that is not canonical.
LEMMA RequestFits ==
  ASSUME NEW c \in ToolCalls, IsNamed(c), NEW r \in ResolveTool(c), NEW q, q = Requested(c, r), NEW token
  PROVE  /\ q.op \in DOMAIN CatalogOps
         /\ DOMAIN q.path = CatalogOps[q.op].path
         /\ Refusal(q, token) \notin {"unknown", "capability"}
         /\ Refusal(q, token) = "target" =>
              \E n \in {"org_id", "site_id"} \cap DOMAIN c.args : c.args[n] \notin Canonical
<1> DEFINE S == Serialized(c)
           targets == r.names \cap {"org_id", "site_id", "msp_id"}
           op == CatalogOps[r.op]
<1>1. /\ r.op \in DOMAIN CatalogOps /\ op.path = r.names
      /\ op.method = "GET" /\ op.capability = r.capability
      /\ "msp_id" \notin r.names /\ ~({"org_id", "site_id"} \subseteq r.names)
      /\ r.names \subseteq DOMAIN S
  BY ResolvedFits DEF Fits, IsRead
<1>2. /\ q.op = r.op /\ q.capability = r.capability /\ q.tool = c.tool
      /\ q.path = [n \in DOMAIN S \cap r.names |-> S[n]]
  BY DEF Requested, NamedMaps
<1> HIDE DEF S
<1>3. DOMAIN q.path = r.names /\ \A n \in r.names : q.path[n] = S[n]
  BY <1>1, <1>2
<1>4. ASSUME TargetOf(op.path, q.path) = {}
      PROVE  \E n \in {"org_id", "site_id"} \cap DOMAIN c.args : c.args[n] \notin Canonical
  <2>1. targets # {}
    BY <1>1, <1>4 DEF TargetOf
  <2>2. PICK f \in {"org_id", "site_id"} : targets = {f}
    BY <1>1, <2>1
  <2>3. f = CHOOSE n \in {"org_id", "site_id"} : n \in r.names
    BY <2>2
  <2>4. TargetOf(op.path, q.path) = IF f \in DOMAIN q.path THEN CanonicalTarget(f, q.path[f]) ELSE {}
    BY <1>1, <2>2, <2>3 DEF TargetOf
  <2>5. f \in DOMAIN q.path /\ CanonicalTarget(f, q.path[f]) = {}
    BY <1>3, <1>4, <2>2, <2>4
  <2>6. q.path[f] \notin Canonical
    BY <2>5 DEF CanonicalTarget
  <2>7. f \in DOMAIN c.args /\ c.args[f] = q.path[f]
    BY <1>1, <1>3, <2>2, TargetSerialized DEF S
  <2> QED BY <2>6, <2>7
<1>5. /\ Refusal(q, token) \notin {"unknown", "capability"}
      /\ Refusal(q, token) = "target" => TargetOf(op.path, q.path) = {}
  BY <1>1, <1>2 DEF Refusal
<1> QED BY <1>1, <1>2, <1>3, <1>4, <1>5

\* A request of a named tool is what its tables make of the call, and refused as
\* dispatch_catalogued_read refuses it.
FitInv ==
  /\ callPc \in {"raw", "received"} => call \in ToolCalls /\ request = NoRequest /\ reason = ""
  /\ callPc = "search" => request = NoRequest
  /\ request # NoRequest /\ IsNamed(call) =>
       /\ call \in ToolCalls
       /\ \E r \in ResolveTool(call) : request = Requested(call, r)
       /\ callPc \in {"resolved", "sent", "refused"}
       /\ reason \in {"", Refusal(request, caller)}

\* Every selector and every scope of the named read tools leads to a read of the
\* pinned catalog that is what the tool asks for, with its path filled: the tables
\* of wan.rs and of the tool handlers refuse no call of theirs, whatever the
\* tokens, the ids and the other arguments.
THEOREM ToolsFit == CallSpec => []NamedToolsFit
<1>1. CallInit => FitInv
  <2> SUFFICES ASSUME CallInit PROVE FitInv
    OBVIOUS
  <2>1. callPc = (IF "tool" \in DOMAIN call THEN "raw" ELSE "search") /\ call \in ToolCalls \cup Searches
    BY DEF CallInit
  <2>2. call \in Searches => "tool" \notin DOMAIN call
    BY SurfaceAssumption
  <2> QED BY <2>1, <2>2 DEF CallInit, FitInv
<1>2. FitInv /\ [CallNext]_callVars => FitInv'
  <2> SUFFICES ASSUME FitInv, [CallNext]_callVars PROVE FitInv'
    OBVIOUS
  <2>1. CASE Preflight
    BY <2>1 DEF Preflight, FitInv
  <2>2. CASE CallNamed
    <3>1. /\ callPc = "received" /\ call' = call /\ caller' = caller
          /\ call \in ToolCalls /\ request = NoRequest /\ reason = "" /\ IsNamed(call)
      BY <2>2 DEF CallNamed, FitInv
    <3>2. CASE ResolveTool(call) = {}
      BY <2>2, <3>1, <3>2 DEF CallNamed, FitInv
    <3>3. CASE ResolveTool(call) # {}
      <4>1. /\ \E r \in ResolveTool(call) : request' = Requested(call, r)
            /\ callPc' = "resolved" /\ reason' = reason
        BY <2>2, <3>3 DEF CallNamed, Requested
      <4> QED BY <3>1, <4>1 DEF FitInv, IsNamed
    <3> QED BY <3>2, <3>3
  <2>3. CASE CallDispatcher
    BY <2>3 DEF CallDispatcher, FitInv, IsNamed
  <2>4. CASE DispatchRead
    BY <2>4 DEF DispatchRead, FitInv, IsNamed
  <2>5. CASE Search
    BY <2>5 DEF Search, FitInv
  <2>6. CASE UNCHANGED callVars
    BY <2>6 DEF callVars, FitInv
  <2> QED BY <2>1, <2>2, <2>3, <2>4, <2>5, <2>6 DEF CallNext
<1>3. FitInv => NamedToolsFit
  <2> SUFFICES ASSUME FitInv, request # NoRequest, IsNamed(call)
               PROVE  /\ request.op \in DOMAIN CatalogOps
                      /\ DOMAIN request.path = CatalogOps[request.op].path
                      /\ reason \notin {"unknown", "capability"}
                      /\ reason = "target" =>
                           \E n \in {"org_id", "site_id"} \cap DOMAIN call.args : call.args[n] \notin Canonical
    BY DEF NamedToolsFit
  <2>1. PICK r \in ResolveTool(call) : request = Requested(call, r)
    BY DEF FitInv
  <2>2. call \in ToolCalls /\ reason \in {"", Refusal(request, caller)}
    BY DEF FitInv
  <2> QED BY <2>1, <2>2, RequestFits
<1> QED BY <1>1, <1>2, <1>3, PTL DEF CallSpec

-----------------------------------------------------------------------------
(* The scope of a request *)

\* What the preflight lets pass.
InScopeArgs(args) == ~TargetMapExceedsScope(args, caller)

\* A call past the preflight has every id in the scope of its token, and so has
\* the request that becomes of it.
ScopeHeld ==
  /\ callPc \in {"raw", "received"} => call \in ToolCalls
  /\ callPc = "received" /\ caller # NoCaller =>
       InScopeArgs(call.args) /\ InScopeArgs(call.path) /\ InScopeArgs(call.query)
  /\ callPc \in {"resolved", "sent"} /\ caller # NoCaller =>
       InScopeArgs(request.path) /\ InScopeArgs(request.query)

\* Splitting the arguments into path and query loses no check.
LEMMA SplitInScope ==
  ASSUME NEW args, NEW names, InScopeArgs(args)
  PROVE  InScopeArgs(NamedMaps(args, names).path) /\ InScopeArgs(NamedMaps(args, names).query)
<1>1. InScopeArgs([n \in DOMAIN args \cap names |-> args[n]])
  BY DEF InScopeArgs, TargetMapExceedsScope
<1>2. InScopeArgs([n \in DOMAIN args \ names |-> args[n]])
  BY DEF InScopeArgs, TargetMapExceedsScope
<1> QED
  BY <1>1, <1>2 DEF NamedMaps

\* Serialization adds no organization and no site, and renames neither.
LEMMA SerializedInScope ==
  ASSUME NEW c \in ToolCalls, IsNamed(c), InScopeArgs(c.args)
  PROVE  InScopeArgs(Serialized(c))
BY TargetSerialized DEF InScopeArgs, TargetMapExceedsScope

\* Every id that a request of a token names is in the token's scope: what the
\* preflight saw is what is sent, whichever tool resolves it (MistScopePreflight,
\* dispatch_named, invoke_dispatcher).
THEOREM RequestsInScope == CallSpec => []SentWithinScope
<1>1. CallInit => ScopeHeld
  <2> SUFFICES ASSUME CallInit PROVE ScopeHeld
    OBVIOUS
  <2>1. callPc = (IF "tool" \in DOMAIN call THEN "raw" ELSE "search") /\ call \in ToolCalls \cup Searches
    BY DEF CallInit
  <2>2. call \in Searches => "tool" \notin DOMAIN call
    BY SurfaceAssumption
  <2> QED
    BY <2>1, <2>2 DEF ScopeHeld
<1>2. ScopeHeld /\ [CallNext]_callVars => ScopeHeld'
  <2> SUFFICES ASSUME ScopeHeld, [CallNext]_callVars PROVE ScopeHeld'
    OBVIOUS
  <2>1. \A args : caller' = caller => (InScopeArgs(args)' <=> InScopeArgs(args))
    BY DEF InScopeArgs, TargetMapExceedsScope
  <2>2. CASE Preflight
    <3>1. /\ call' = call /\ caller' = caller /\ callPc = "raw"
          /\ callPc' = "refused" \/ callPc' = "received"
          /\ callPc' = "received" /\ caller # NoCaller => ~RequestExceedsScope(call, caller)
      BY <2>2 DEF Preflight
    <3>2. ~RequestExceedsScope(call, caller) =>
            InScopeArgs(call.args) /\ InScopeArgs(call.path) /\ InScopeArgs(call.query)
      BY DEF RequestExceedsScope, InScopeArgs
    <3> QED
      BY <2>1, <3>1, <3>2 DEF ScopeHeld
  <2>3. CASE CallNamed
    <3>1. /\ call' = call /\ caller' = caller
          /\ callPc = "received" /\ IsNamed(call) /\ callPc' \in {"resolved", "refused"}
      BY <2>3 DEF CallNamed
    <3>2. ASSUME callPc' = "resolved", caller # NoCaller
          PROVE  InScopeArgs(request'.path) /\ InScopeArgs(request'.query)
      <4>1. PICK r \in ResolveTool(call) :
              request' = [tool |-> call.tool, op |-> r.op, path |-> NamedMaps(Serialized(call), r.names).path,
                          query |-> NamedMaps(Serialized(call), r.names).query, capability |-> r.capability]
        BY <2>3, <3>2 DEF CallNamed
      <4>2. InScopeArgs(Serialized(call))
        BY <3>1, <3>2, SerializedInScope DEF ScopeHeld
      <4> QED
        BY <4>1, <4>2, SplitInScope
    <3> QED
      BY <2>1, <3>1, <3>2 DEF ScopeHeld
  <2>4. CASE CallDispatcher
    <3>1. /\ call' = call /\ caller' = caller /\ callPc = "received" /\ callPc' = "resolved"
          /\ request'.path = call.path /\ request'.query = call.query
      BY <2>4 DEF CallDispatcher
    <3> QED
      BY <2>1, <3>1 DEF ScopeHeld
  <2>5. CASE DispatchRead
    <3>1. /\ call' = call /\ caller' = caller /\ request' = request
          /\ callPc = "resolved" /\ callPc' \in {"sent", "refused"}
      BY <2>5 DEF DispatchRead
    <3> QED
      BY <2>1, <3>1 DEF ScopeHeld
  <2>6. CASE Search
    BY <2>6 DEF Search, ScopeHeld
  <2>7. CASE UNCHANGED callVars
    BY <2>1, <2>7 DEF callVars, ScopeHeld
  <2> QED
    BY <2>2, <2>3, <2>4, <2>5, <2>6, <2>7 DEF CallNext
<1>3. ScopeHeld => SentWithinScope
  BY DEF ScopeHeld, SentWithinScope, InScopeArgs, TargetMapExceedsScope
<1> QED
  BY <1>1, <1>2, <1>3, PTL DEF CallSpec

-----------------------------------------------------------------------------
(* What a search lists *)

\* A read without a service provider in its path.
Invocable(o) ==
  /\ o \in DOMAIN CatalogOps
  /\ CatalogOps[o].capability \in Reading
  /\ "msp_id" \notin CatalogOps[o].path

\* The checks of dispatch_catalogued_read, one by one, for a caller that is
\* entitled to the operation.
LEMMA InvocableNotRefused ==
  ASSUME NEW o, Invocable(o), NEW d \in DOMAIN Dispatchers, NEW id \in Canonical,
         Dispatchers[d] = CatalogOps[o].capability,
         NEW r, r = [tool |-> d, op |-> o, path |-> [n \in CatalogOps[o].path |-> id],
                     query |-> [n \in CatalogOps[o].required |-> id], capability |-> Dispatchers[d]],
         NEW entitled, entitled = [wildcard |-> FALSE, tools |-> {d}, grant |-> TRUE,
                                   devices |-> {<<k, id>> : k \in {"org", "site"}}]
  PROVE  Refusal(r, entitled) = ""
<1> DEFINE op == CatalogOps[o]
<1>1. /\ r.op = o /\ r.tool = d /\ r.capability = op.capability
      /\ DOMAIN r.path = op.path /\ \A n \in op.path : r.path[n] = id
      /\ DOMAIN r.query = op.required
  OBVIOUS
<1>2. entitled.tools = {d} /\ entitled.grant /\ \A k \in {"org", "site"} : <<k, id>> \in entitled.devices
  OBVIOUS
<1>3. op.method = "GET" /\ op.required \subseteq op.query /\ ~({"org_id", "site_id"} \subseteq op.path)
  BY SurfaceAssumption DEF Invocable
<1>4. entitled # NoCaller
  <2>1. entitled \in [wildcard: BOOLEAN, tools: SUBSET DOMAIN Dispatchers,
                      devices: SUBSET ({"org", "site"} \X Canonical), grant: BOOLEAN]
    <3>1. {<<k, id>> : k \in {"org", "site"}} \subseteq {"org", "site"} \X Canonical
      OBVIOUS
    <3> DEFINE devices == {<<k, id>> : k \in {"org", "site"}}
    <3> HIDE DEF devices
    <3>2. [wildcard |-> FALSE, tools |-> {d}, grant |-> TRUE, devices |-> devices] \in
            [wildcard: BOOLEAN, tools: SUBSET DOMAIN Dispatchers,
             devices: SUBSET ({"org", "site"} \X Canonical), grant: BOOLEAN]
      BY <3>1 DEF devices
    <3> QED
      BY <3>2 DEF devices
  <2> QED
    BY <2>1, SurfaceAssumption
<1>5. /\ TargetOf(op.path, r.path) # {}
      /\ \A t \in TargetOf(op.path, r.path) : t = NoTarget \/ Allows(entitled, t)
  <2>1. CASE op.path \cap {"org_id", "site_id", "msp_id"} = {}
    BY <2>1 DEF TargetOf
  <2>2. CASE op.path \cap {"org_id", "site_id", "msp_id"} # {}
    <3>1. \E f \in {"org_id", "site_id"} : op.path \cap {"org_id", "site_id", "msp_id"} = {f}
      BY <1>3, <2>2 DEF Invocable
    <3> DEFINE g == CHOOSE f \in {"org_id", "site_id"} : f \in op.path
    <3>2. g \in {"org_id", "site_id"} /\ g \in op.path
      BY <3>1
    <3> HIDE DEF g
    <3>3. TargetOf(op.path, r.path) = CanonicalTarget(g, id)
      BY <1>1, <2>2, <3>1, <3>2 DEF TargetOf, g
    <3>4. CanonicalTarget(g, id) = {<<IF g = "org_id" THEN "org" ELSE "site", id>>}
      BY DEF CanonicalTarget
    <3>5. g = "org_id" \/ g = "site_id"
      BY <3>2
    <3>6. \A t \in CanonicalTarget(g, id) : t \in entitled.devices
      BY <1>2, <3>4, <3>5
    <3>7. CanonicalTarget(g, id) # {}
      BY <3>4
    <3> QED
      BY <3>3, <3>6, <3>7 DEF Allows
  <2> QED
    BY <2>1, <2>2
<1>6. AllowsTool(entitled, r.tool)
  BY <1>1, <1>2 DEF AllowsTool
<1> HIDE DEF op
<1>7. o \in DOMAIN CatalogOps
  BY DEF Invocable
<1> QED
  BY <1>1, <1>2, <1>3, <1>4, <1>5, <1>6, <1>7 DEF Refusal, op

\* What a search lists can be invoked through the dispatcher of its capability
\* by a caller with the scope for it, in any catalog of which no operation names
\* both an organization and a site (search_mist_operations).
THEOREM ListedInvocable == CallSpec => []FoundIsInvocable
<1> DEFINE AllInvocable == \A o \in found : Invocable(o)
<1>1. CallInit => AllInvocable
  BY DEF CallInit
<1>2. AllInvocable /\ [CallNext]_callVars => AllInvocable'
  <2> SUFFICES ASSUME AllInvocable, [CallNext]_callVars PROVE AllInvocable'
    OBVIOUS
  <2>1. CASE found' = found
    BY <2>1 DEF Invocable
  <2>2. CASE Search
    <3>1. \A o \in found' : o \in found \/ \E i \in DOMAIN CatalogOrder : o = CatalogOrder[i] /\ Listable(call, o)
      BY <2>2 DEF Search
    <3>2. \A o : Listable(call, o) => CatalogOps[o].capability \in Reading /\ "msp_id" \notin CatalogOps[o].path
      BY DEF Listable, Selectors
    <3>3. \A o \in found' : Invocable(o)
      BY <3>1, <3>2, SurfaceAssumption DEF Invocable
    <3> QED
      BY <3>3 DEF Invocable
  <2> QED
    BY <2>1, <2>2 DEF CallNext, Preflight, CallNamed, CallDispatcher, DispatchRead, callVars
<1>3. AllInvocable => FoundIsInvocable
  <2> SUFFICES ASSUME AllInvocable, NEW o \in found, NEW d \in DOMAIN Dispatchers, NEW id \in Canonical,
                      Dispatchers[d] = CatalogOps[o].capability
               PROVE  Refusal([tool |-> d, op |-> o, path |-> [n \in CatalogOps[o].path |-> id],
                               query |-> [n \in CatalogOps[o].required |-> id], capability |-> Dispatchers[d]],
                              [wildcard |-> FALSE, tools |-> {d}, grant |-> TRUE,
                               devices |-> {<<k, id>> : k \in {"org", "site"}}]) = ""
    BY DEF FoundIsInvocable
  <2>1. Invocable(o)
    OBVIOUS
  <2> QED
    BY <2>1, InvocableNotRefused, ZenonT(40)
<1> QED
  BY <1>1, <1>2, <1>3, PTL DEF CallSpec

-----------------------------------------------------------------------------
(* Processes: the four safety properties of module Startup are proved from  *)
(* one inductive invariant, StartInv.                                      *)

Steps == {"off", "key", "truncate", "write", "audit", "command"} \cup Configured
Exits == {"none", "refused", "served", "done", "HUP", "TERM"}

\* One type invariant: what each variable can hold.
StartTypes ==
  /\ startPc \in [Processes -> Steps]
  /\ exit \in [Processes -> Exits]
  /\ line \in [Processes -> Lines \cup {NoLine}]
  /\ keyFile \in Processes \cup {"absent", "empty"}
  /\ usedKey \in [Processes -> Processes \cup {"absent", "empty", NoKey}]
  /\ overlap \in BOOLEAN
  /\ hooks \in [Processes -> SUBSET {"audit", "tokens", "term"}]
  /\ pipeline \in [Processes -> {"off", "running", "flushed", "unflushed"}]
  /\ files \in [TokenFiles -> Nat]
  /\ store \in [Processes -> TokenFiles \cup {"none"}]
  /\ tokens \in [Processes -> (TokenFiles \X Nat) \cup {NoTokens}]
  /\ edits \in Nat

\* p is between the check of the key file and the key that it writes.
Provisions(p) == exit[p] = "none" /\ startPc[p] \in {"truncate", "write"}

\* While no two processes provision at once, the one that does found no key, so
\* no record is signed yet, and a process that is about to sign finds a key.
KeyHeld ==
  ~overlap =>
    /\ \A p, q \in Processes : Provisions(p) /\ Provisions(q) => p = q
    /\ \A p \in Processes : Provisions(p) => keyFile \in {"absent", "empty"}
    /\ \A p \in Processes : At(p, "audit") /\ line[p].hmac => keyFile \in Processes
    /\ \A p \in Processes : usedKey[p] # NoKey => usedKey[p] \in Processes /\ keyFile = usedKey[p]

Listening == {"bind", "serving", "stopping"}
AsConfigured(p) == store[p] = line[p].tokens \/ (store[p] = "legacy" /\ line[p].tokens = "canonical")

\* The hooks a process has by the step it is at, and what each exit says of them.
HooksHeld ==
  \A p \in Processes :
    /\ startPc[p] \in Configured /\ line[p].auditFile => "audit" \in hooks[p]
    /\ startPc[p] \in Listening /\ store[p] # "none" => "tokens" \in hooks[p]
    /\ startPc[p] \in {"serving", "stopping"} => "term" \in hooks[p] \/ line[p].transport = "stdio"
    /\ exit[p] = "HUP" => {"audit", "tokens"} \cap hooks[p] = {}
    /\ exit[p] = "TERM" => "term" \notin hooks[p]
    /\ exit[p] = "served" => pipeline[p] # "running"

\* A store is bound, and tokens are in force, from Listen on and only as the
\* command line says.
TokensHeld ==
  \A p \in Processes :
    /\ startPc[p] \notin Listening => store[p] = "none" /\ tokens[p] = NoTokens /\ "tokens" \notin hooks[p]
    /\ "tokens" \in hooks[p] => AsConfigured(p) /\ store[p] \in TokenFiles
    /\ tokens[p] # NoTokens => "tokens" \in hooks[p] /\ tokens[p][1] = store[p] /\ Loadable(tokens[p][2])

StartInv == StartTypes /\ KeyHeld /\ HooksHeld /\ TokensHeld

-----------------------------------------------------------------------------
(* Every step keeps the invariant *)

\* The initial states satisfy the invariant.
LEMMA InitHeld == StartInit => StartInv
<1> SUFFICES ASSUME StartInit PROVE StartInv
  OBVIOUS
<1> USE StartAssumption DEF StartInit
<1>1. StartTypes
  BY DEF StartTypes, Steps, Exits, Configured
<1>2. KeyHeld
  BY DEF KeyHeld, Provisions, At
<1>3. HooksHeld
  BY DEF HooksHeld, Configured, Listening
<1>4. TokensHeld
  BY DEF TokensHeld, Listening
<1> QED
  BY <1>1, <1>2, <1>3, <1>4 DEF StartInv

\* Every step keeps the types.
LEMMA TypesStep == StartInv /\ StartNext => StartTypes'
<1> SUFFICES ASSUME StartInv, StartNext PROVE StartTypes'
  OBVIOUS
<1> USE StartAssumption DEF StartInv
<1>1. ASSUME NEW p \in Processes, Launch(p) PROVE StartTypes'
  BY <1>1 DEF Launch, StartTypes, Steps, Exits, Configured, At, Go, Leave
<1>2. ASSUME NEW p \in Processes, CheckKey(p) PROVE StartTypes'
  BY <1>2 DEF CheckKey, StartTypes, Steps, Exits, Configured, At, Go, Leave
<1>3. ASSUME NEW p \in Processes, TruncateKey(p) PROVE StartTypes'
  BY <1>3 DEF TruncateKey, StartTypes, Steps, Exits, Configured, At, Go, Leave
<1>4. ASSUME NEW p \in Processes, WriteKey(p) PROVE StartTypes'
  BY <1>4 DEF WriteKey, StartTypes, Steps, Exits, Configured, At, Go, Leave
<1>5. ASSUME NEW p \in Processes, InitAudit(p) PROVE StartTypes'
  BY <1>5 DEF InitAudit, StartTypes, Steps, Exits, Configured, At, Go, Leave
<1>6. ASSUME NEW p \in Processes, Command(p) PROVE StartTypes'
  BY <1>6 DEF Command, StartTypes, Steps, Exits, Configured, At, Go, Leave
<1>7. ASSUME NEW p \in Processes, Configure(p) PROVE StartTypes'
  BY <1>7 DEF Configure, StartTypes, Steps, Exits, Configured, At, Go, Leave
<1>8. ASSUME NEW p \in Processes, Construct(p) PROVE StartTypes'
  BY <1>8 DEF Construct, StartTypes, Steps, Exits, Configured, At, Go, Leave
<1>9. ASSUME NEW p \in Processes, Listen(p) PROVE StartTypes'
  <2>1. startPc' \in [Processes -> Steps] /\ exit' \in [Processes -> Exits]
    BY <1>9 DEF Listen, StartTypes, Steps, Exits, Configured, Go, Leave
  <2>3. CASE UNCHANGED <<hooks, store, tokens>>
    BY <1>9, <2>1, <2>3 DEF Listen, StartTypes
  <2>4. CASE line[p].tokens \in TokenFiles
    <3>1. ResolveTokens(line[p].tokens) \in TokenFiles
      BY <2>4 DEF ResolveTokens, TokenFiles
    <3>2. files[ResolveTokens(line[p].tokens)] \in Nat
      BY <3>1 DEF StartTypes
    <3> QED
      BY <1>9, <2>1, <2>3, <3>1, <3>2 DEF Listen, StartTypes
  <2> QED
    BY <1>9, <2>3, <2>4 DEF Listen
<1>10. ASSUME NEW p \in Processes, Bind(p) PROVE StartTypes'
  BY <1>10 DEF Bind, StartTypes, Steps, Exits, Configured, At, Go, Leave
<1>11. ASSUME NEW p \in Processes, ServeEnds(p) PROVE StartTypes'
  BY <1>11 DEF ServeEnds, StartTypes, Steps, Exits, Configured, At, Go, Leave
<1>12. ASSUME NEW p \in Processes, Stop(p) PROVE StartTypes'
  BY <1>12 DEF Stop, StartTypes, Steps, Exits, Configured, At, Go, Leave
<1>13. ASSUME NEW p \in Processes, Hangup(p) PROVE StartTypes'
  <2>1. startPc' \in [Processes -> Steps] /\ exit' \in [Processes -> Exits]
    BY <1>13 DEF Hangup, StartTypes, Steps, Exits, Leave
  <2>2. CASE UNCHANGED tokens
    BY <1>13, <2>1, <2>2 DEF Hangup, StartTypes
  <2>3. CASE "tokens" \in hooks[p] /\ Reload(p)
    <3>1. store[p] \in TokenFiles
      BY <2>3 DEF TokensHeld
    <3>2. files[store[p]] \in Nat
      BY <3>1 DEF StartTypes
    <3> QED
      BY <1>13, <2>1, <2>3, <3>1, <3>2 DEF Hangup, Reload, StartTypes
  <2> QED
    BY <1>13, <2>2, <2>3 DEF Hangup
<1>14. ASSUME NEW p \in Processes, Terminate(p) PROVE StartTypes'
  BY <1>14 DEF Terminate, StartTypes, Steps, Exits, Configured, Running, Go, Leave
<1>15. ASSUME EditTokens PROVE StartTypes'
  BY <1>15 DEF EditTokens, StartTypes, Steps, Exits, Configured, Absent, Broken, TokenFiles
<1> QED
  BY <1>1, <1>2, <1>3, <1>4, <1>5, <1>6, <1>7, <1>8, <1>9, <1>10, <1>11, <1>12, <1>13, <1>14, <1>15 DEF StartNext

\* Every step keeps KeyHeld: only the sole process that provisions changes the key file.
LEMMA KeyStep == StartInv /\ StartNext => KeyHeld'
<1> SUFFICES ASSUME StartInv, StartNext PROVE KeyHeld'
  OBVIOUS
<1> USE StartAssumption DEF StartInv
<1>1. ASSUME NEW p \in Processes, Launch(p) PROVE KeyHeld'
  BY <1>1 DEF Launch, KeyHeld, Provisions, StartTypes, At, Go, Leave
<1>2. ASSUME NEW p \in Processes, CheckKey(p) PROVE KeyHeld'
  <2>1. /\ UNCHANGED <<exit, line, keyFile, usedKey>> /\ At(p, "key")
        /\ \A q \in Processes \ {p} : startPc'[q] = startPc[q]
    BY <1>2 DEF CheckKey, StartTypes, Go
  <2>2. startPc'[p] \in {"audit", "truncate"} /\ (~overlap' => ~overlap)
    BY <1>2 DEF CheckKey, StartTypes, Go
  <2>3. startPc'[p] = "truncate" /\ ~overlap' =>
          keyFile \in {"absent", "empty"} /\ \A q \in Processes \ {p} : ~Provisions(q)
    BY <1>2 DEF CheckKey, StartTypes, Go, Provisions
  <2>4. startPc'[p] = "audit" /\ line[p].hmac => keyFile \in Processes
    BY <1>2 DEF CheckKey, StartTypes, Go
  <2>5. \A q \in Processes \ {p} : (Provisions(q)' <=> Provisions(q)) /\ (At(q, "audit")' <=> At(q, "audit"))
    BY <2>1 DEF Provisions, At
  <2>6. (Provisions(p)' => startPc'[p] = "truncate") /\ (At(p, "audit")' => startPc'[p] = "audit")
    BY <2>2 DEF Provisions, At
  <2> QED
    BY <2>1, <2>2, <2>3, <2>4, <2>5, <2>6 DEF KeyHeld
<1>3. ASSUME NEW p \in Processes, TruncateKey(p) PROVE KeyHeld'
  BY <1>3 DEF TruncateKey, KeyHeld, Provisions, StartTypes, At, Go, Leave
<1>4. ASSUME NEW p \in Processes, WriteKey(p) PROVE KeyHeld'
  BY <1>4 DEF WriteKey, KeyHeld, Provisions, StartTypes, At, Go, Leave
<1>5. ASSUME NEW p \in Processes, InitAudit(p) PROVE KeyHeld'
  BY <1>5 DEF InitAudit, KeyHeld, Provisions, StartTypes, At, Go, Leave
<1>6. ASSUME NEW p \in Processes, Command(p) PROVE KeyHeld'
  BY <1>6 DEF Command, KeyHeld, Provisions, StartTypes, At, Go, Leave
<1>7. ASSUME NEW p \in Processes, Configure(p) PROVE KeyHeld'
  BY <1>7 DEF Configure, KeyHeld, Provisions, StartTypes, At, Go, Leave
<1>8. ASSUME NEW p \in Processes, Construct(p) PROVE KeyHeld'
  BY <1>8 DEF Construct, KeyHeld, Provisions, StartTypes, At, Go, Leave
<1>9. ASSUME NEW p \in Processes, Listen(p) PROVE KeyHeld'
  BY <1>9 DEF Listen, KeyHeld, Provisions, StartTypes, At, ResolveTokens, Loadable, Go, Leave
<1>10. ASSUME NEW p \in Processes, Bind(p) PROVE KeyHeld'
  BY <1>10 DEF Bind, KeyHeld, Provisions, StartTypes, At, Go, Leave
<1>11. ASSUME NEW p \in Processes, ServeEnds(p) PROVE KeyHeld'
  BY <1>11 DEF ServeEnds, KeyHeld, Provisions, StartTypes, At, Go, Leave
<1>12. ASSUME NEW p \in Processes, Stop(p) PROVE KeyHeld'
  BY <1>12 DEF Stop, KeyHeld, Provisions, StartTypes, At, Go, Leave
<1>13. ASSUME NEW p \in Processes, Hangup(p) PROVE KeyHeld'
  BY <1>13 DEF Hangup, KeyHeld, Provisions, At, StartTypes, Running, Go, Leave
<1>14. ASSUME NEW p \in Processes, Terminate(p) PROVE KeyHeld'
  BY <1>14 DEF Terminate, KeyHeld, Provisions, At, StartTypes, Running, Go, Leave
<1>15. ASSUME EditTokens PROVE KeyHeld'
  BY <1>15 DEF EditTokens, KeyHeld, Provisions, StartTypes, At
<1> QED
  BY <1>1, <1>2, <1>3, <1>4, <1>5, <1>6, <1>7, <1>8, <1>9, <1>10, <1>11, <1>12, <1>13, <1>14, <1>15 DEF StartNext

\* Every step keeps HooksHeld: each hook is there before the step it protects.
LEMMA HooksStep == StartInv /\ StartNext => HooksHeld'
<1> SUFFICES ASSUME StartInv, StartNext PROVE HooksHeld'
  OBVIOUS
<1> USE StartAssumption DEF StartInv
<1>1. ASSUME NEW p \in Processes, Launch(p) PROVE HooksHeld'
  BY <1>1 DEF Launch, HooksHeld, Configured, Listening, StartTypes, TokensHeld, At, Go, Leave
<1>2. ASSUME NEW p \in Processes, CheckKey(p) PROVE HooksHeld'
  BY <1>2 DEF CheckKey, HooksHeld, Configured, Listening, StartTypes, TokensHeld, At, Go, Leave
<1>3. ASSUME NEW p \in Processes, TruncateKey(p) PROVE HooksHeld'
  BY <1>3 DEF TruncateKey, HooksHeld, Configured, Listening, StartTypes, TokensHeld, At, Go, Leave
<1>4. ASSUME NEW p \in Processes, WriteKey(p) PROVE HooksHeld'
  BY <1>4 DEF WriteKey, HooksHeld, Configured, Listening, StartTypes, TokensHeld, At, Go, Leave
<1>5. ASSUME NEW p \in Processes, InitAudit(p) PROVE HooksHeld'
  BY <1>5 DEF InitAudit, HooksHeld, Configured, Listening, StartTypes, TokensHeld, At, Go, Leave
<1>6. ASSUME NEW p \in Processes, Command(p) PROVE HooksHeld'
  BY <1>6 DEF Command, HooksHeld, Configured, Listening, StartTypes, TokensHeld, At, Go, Leave
<1>7. ASSUME NEW p \in Processes, Configure(p) PROVE HooksHeld'
  BY <1>7 DEF Configure, HooksHeld, Configured, Listening, StartTypes, TokensHeld, At, Go, Leave
<1>8. ASSUME NEW p \in Processes, Construct(p) PROVE HooksHeld'
  BY <1>8 DEF Construct, HooksHeld, Configured, Listening, StartTypes, TokensHeld, At, Go, Leave
<1>9. ASSUME NEW p \in Processes, Listen(p) PROVE HooksHeld'
  BY <1>9 DEF Listen, HooksHeld, Configured, Listening, StartTypes, TokensHeld, At, ResolveTokens, Loadable, Go, Leave
<1>10. ASSUME NEW p \in Processes, Bind(p) PROVE HooksHeld'
  BY <1>10 DEF Bind, HooksHeld, Configured, Listening, StartTypes, TokensHeld, At, Go, Leave
<1>11. ASSUME NEW p \in Processes, ServeEnds(p) PROVE HooksHeld'
  BY <1>11 DEF ServeEnds, HooksHeld, Configured, Listening, StartTypes, TokensHeld, At, Go, Leave
<1>12. ASSUME NEW p \in Processes, Stop(p) PROVE HooksHeld'
  BY <1>12 DEF Stop, HooksHeld, Configured, Listening, StartTypes, TokensHeld, At, Go, Leave
<1>13. ASSUME NEW p \in Processes, Hangup(p) PROVE HooksHeld'
  BY <1>13 DEF Hangup, HooksHeld, Configured, Listening, StartTypes, TokensHeld, Running, Reload, Loadable, Go, Leave
<1>14. ASSUME NEW p \in Processes, Terminate(p) PROVE HooksHeld'
  BY <1>14 DEF Terminate, HooksHeld, Configured, Listening, StartTypes, TokensHeld, Running, Go, Leave
<1>15. ASSUME EditTokens PROVE HooksHeld'
  BY <1>15 DEF EditTokens, HooksHeld, Configured, Listening, StartTypes, TokensHeld, AsConfigured
<1> QED
  BY <1>1, <1>2, <1>3, <1>4, <1>5, <1>6, <1>7, <1>8, <1>9, <1>10, <1>11, <1>12, <1>13, <1>14, <1>15 DEF StartNext

\* Every step keeps TokensHeld: a reload reads the file the store was bound to.
LEMMA TokensStep == StartInv /\ StartNext => TokensHeld'
<1> SUFFICES ASSUME StartInv, StartNext PROVE TokensHeld'
  OBVIOUS
<1> USE StartAssumption DEF StartInv
<1>1. ASSUME NEW p \in Processes, Launch(p) PROVE TokensHeld'
  BY <1>1 DEF Launch, TokensHeld, AsConfigured, Listening, Configured, Steps, StartTypes, TokenFiles, At, Go, Leave
<1>2. ASSUME NEW p \in Processes, CheckKey(p) PROVE TokensHeld'
  BY <1>2 DEF CheckKey, TokensHeld, AsConfigured, Listening, Configured, Steps, StartTypes, TokenFiles, At, Go, Leave
<1>3. ASSUME NEW p \in Processes, TruncateKey(p) PROVE TokensHeld'
  BY <1>3 DEF TruncateKey, TokensHeld, AsConfigured, Listening, Configured, Steps, StartTypes, TokenFiles, At, Go, Leave
<1>4. ASSUME NEW p \in Processes, WriteKey(p) PROVE TokensHeld'
  BY <1>4 DEF WriteKey, TokensHeld, AsConfigured, Listening, Configured, Steps, StartTypes, TokenFiles, At, Go, Leave
<1>5. ASSUME NEW p \in Processes, InitAudit(p) PROVE TokensHeld'
  BY <1>5 DEF InitAudit, TokensHeld, AsConfigured, Listening, Configured, Steps, StartTypes, TokenFiles, At, Go, Leave
<1>6. ASSUME NEW p \in Processes, Command(p) PROVE TokensHeld'
  BY <1>6 DEF Command, TokensHeld, AsConfigured, Listening, Configured, Steps, StartTypes, TokenFiles, At, Go, Leave
<1>7. ASSUME NEW p \in Processes, Configure(p) PROVE TokensHeld'
  BY <1>7 DEF Configure, TokensHeld, AsConfigured, Listening, Configured, Steps, StartTypes, TokenFiles, At, Go, Leave
<1>8. ASSUME NEW p \in Processes, Construct(p) PROVE TokensHeld'
  BY <1>8 DEF Construct, TokensHeld, AsConfigured, Listening, Configured, Steps, StartTypes, TokenFiles, At, Go, Leave
<1>9. ASSUME NEW p \in Processes, Listen(p) PROVE TokensHeld'
  BY <1>9 DEF Listen, TokensHeld, AsConfigured, Listening, Configured, Steps, StartTypes, TokenFiles, At, ResolveTokens, Loadable, Go, Leave
<1>10. ASSUME NEW p \in Processes, Bind(p) PROVE TokensHeld'
  BY <1>10 DEF Bind, TokensHeld, AsConfigured, Listening, Configured, Steps, StartTypes, TokenFiles, At, Go, Leave
<1>11. ASSUME NEW p \in Processes, ServeEnds(p) PROVE TokensHeld'
  BY <1>11 DEF ServeEnds, TokensHeld, AsConfigured, Listening, Configured, Steps, StartTypes, TokenFiles, At, Go, Leave
<1>12. ASSUME NEW p \in Processes, Stop(p) PROVE TokensHeld'
  BY <1>12 DEF Stop, TokensHeld, AsConfigured, Listening, Configured, Steps, StartTypes, TokenFiles, At, Go, Leave
<1>13. ASSUME NEW p \in Processes, Hangup(p) PROVE TokensHeld'
  BY <1>13 DEF Hangup, TokensHeld, AsConfigured, Listening, Configured, Steps, StartTypes, TokenFiles, Running, Reload, Loadable, Go, Leave
<1>14. ASSUME NEW p \in Processes, Terminate(p) PROVE TokensHeld'
  BY <1>14 DEF Terminate, TokensHeld, AsConfigured, Listening, Configured, Steps, StartTypes, TokenFiles, Running, Go, Leave
<1>15. ASSUME EditTokens PROVE TokensHeld'
  BY <1>15 DEF EditTokens, TokensHeld, AsConfigured, Listening, Configured, Steps, StartTypes, TokenFiles
<1> QED
  BY <1>1, <1>2, <1>3, <1>4, <1>5, <1>6, <1>7, <1>8, <1>9, <1>10, <1>11, <1>12, <1>13, <1>14, <1>15 DEF StartNext

\* A stuttering step keeps the invariant.
LEMMA StutterHeld == StartInv /\ UNCHANGED startVars => StartInv'
  BY DEF StartInv, StartTypes, KeyHeld, HooksHeld, TokensHeld, Provisions, At, AsConfigured, startVars

-----------------------------------------------------------------------------
(* Theorems *)

\* StartInv holds in every state that processes started, signalled and
\* restarted in any order can reach.
THEOREM StartInductive == StartSpec => []StartInv
<1>1. StartInv /\ [StartNext]_startVars => StartInv'
  BY TypesStep, KeyStep, HooksStep, TokensStep, StutterHeld DEF StartInv
<1> QED
  BY <1>1, InitHeld, PTL DEF StartSpec

\* A key that audit records were signed with is never rotated, whatever crashes
\* and restarts come between the steps of ensure_audit_hmac_key, unless two
\* processes found it missing at once.
THEOREM KeyNeverRotated == StartSpec => []SignedKeyKept
<1>1. StartInv => SignedKeyKept
  BY DEF StartInv, KeyHeld, SignedKeyKept
<1> QED
  BY <1>1, StartInductive, PTL

\* SIGHUP never kills a server with an audit file or with tokens
\* (install_audit_reopen_handler, install_token_reload_handler).
THEOREM HangupSurvived == StartSpec => []RotationSurvived
<1>1. StartInv => RotationSurvived
  BY DEF StartInv, HooksHeld, RotationSurvived, Listening
<1> QED
  BY <1>1, StartInductive, PTL

\* However serving ends the spool is flushed, and SIGTERM ends HTTP serving that
\* way.
THEOREM SpoolFlushed == StartSpec => []SpoolDelivered
<1>1. StartInv => SpoolDelivered
  BY DEF StartInv, HooksHeld, SpoolDelivered
<1> QED
  BY <1>1, StartInductive, PTL

\* The tokens in force come from the configured file, over every edit and
\* reload; only the canonical path falls back (resolve_tokens_with).
THEOREM TokensConfigured == StartSpec => []TokensAsConfigured
<1>1. StartInv => TokensAsConfigured
  BY DEF StartInv, TokensHeld, AsConfigured, TokensAsConfigured
<1> QED
  BY <1>1, StartInductive, PTL
-----------------------------------------------------------------------------
(* Suggestions: the table of distances *)

Words == Seq(Nat)

\* The body of the recursion over the cells of two words: of cell p, and of the
\* cells of all pairs of words at once.
CellBody(g, x, y, p) ==
  IF p[1] = 0 THEN p[2] ELSE IF p[2] = 0 THEN p[1]
  ELSE Least(g[<<p[1] - 1, p[2]>>] + 1,
         Least(g[<<p[1], p[2] - 1>>] + 1,
               g[<<p[1] - 1, p[2] - 1>>] + IF x[p[1]] = y[p[2]] THEN 0 ELSE 1))

CellSet == Words \X Words \X Nat \X Nat
CellRank(q) == q[3] + q[4]
CellsBody(g, q) ==
  IF q[3] = 0 THEN q[4] ELSE IF q[4] = 0 THEN q[3]
  ELSE Least(g[<<q[1], q[2], q[3] - 1, q[4]>>] + 1,
         Least(g[<<q[1], q[2], q[3], q[4] - 1>>] + 1,
               g[<<q[1], q[2], q[3] - 1, q[4] - 1>>] + IF q[1][q[3]] = q[2][q[4]] THEN 0 ELSE 1))
ByCells == INSTANCE RankedRecursion WITH S <- CellSet, Rank <- CellRank, Body <- CellsBody

\* The cells of two words are what the recursion says.
LEMMA CellsDefined ==
  ASSUME NEW x \in Words, NEW y \in Words
  PROVE  Cells(x, y) = [p \in (0..Len(x)) \X (0..Len(y)) |-> CellBody(Cells(x, y), x, y, p)]
<1> DEFINE P == (0..Len(x)) \X (0..Len(y))
<1>1. ByCells!Ranked
  BY DEF ByCells!Ranked, CellSet, CellRank
<1>2. ByCells!Local
  <2> SUFFICES ASSUME NEW q \in CellSet, NEW g, NEW h,
                      \A r \in CellSet : CellRank(r) < CellRank(q) => g[r] = h[r]
               PROVE  CellsBody(g, q) = CellsBody(h, q)
    BY DEF ByCells!Local
  <2>1. PICK a \in Words, b \in Words, i \in Nat, j \in Nat : q = <<a, b, i, j>>
    BY DEF CellSet
  <2>2. CASE i = 0 \/ j = 0
    BY <2>1, <2>2 DEF CellsBody
  <2>3. CASE i # 0 /\ j # 0
    <3>1. /\ <<a, b, i - 1, j>> \in CellSet /\ <<a, b, i, j - 1>> \in CellSet
          /\ <<a, b, i - 1, j - 1>> \in CellSet
      BY <2>3 DEF CellSet
    <3>2. /\ CellRank(<<a, b, i - 1, j>>) < CellRank(q) /\ CellRank(<<a, b, i, j - 1>>) < CellRank(q)
          /\ CellRank(<<a, b, i - 1, j - 1>>) < CellRank(q)
      BY <2>1, <2>3 DEF CellRank
    <3>3. /\ g[<<a, b, i - 1, j>>] = h[<<a, b, i - 1, j>>] /\ g[<<a, b, i, j - 1>>] = h[<<a, b, i, j - 1>>]
          /\ g[<<a, b, i - 1, j - 1>>] = h[<<a, b, i - 1, j - 1>>]
      BY <3>1, <3>2
    <3> QED BY <2>1, <2>3, <3>3 DEF CellsBody
  <2> QED BY <2>2, <2>3
<1>3. PICK f : f = [q \in CellSet |-> CellsBody(f, q)]
  BY <1>1, <1>2, ByCells!RecursionDefines
<1> DEFINE g == [p \in P |-> f[<<x, y, p[1], p[2]>>]]
<1>4. ASSUME NEW p \in P PROVE g[p] = CellBody(g, x, y, p)
  <2>1. PICK i \in 0..Len(x), j \in 0..Len(y) : p = <<i, j>>
    OBVIOUS
  <2>2. Len(x) \in Nat /\ Len(y) \in Nat /\ i \in Nat /\ j \in Nat
    BY DEF Words
  <2>3. <<x, y, i, j>> \in CellSet
    BY <2>2 DEF CellSet
  <2>4. g[p] = CellsBody(f, <<x, y, i, j>>)
    BY <1>3, <2>1, <2>3
  <2>5. CASE i = 0 \/ j = 0
    BY <2>1, <2>4, <2>5 DEF CellsBody, CellBody
  <2>6. CASE i # 0 /\ j # 0
    <3>1. <<i - 1, j>> \in P /\ <<i, j - 1>> \in P /\ <<i - 1, j - 1>> \in P
      BY <2>2, <2>6
    <3>2. /\ g[<<i - 1, j>>] = f[<<x, y, i - 1, j>>] /\ g[<<i, j - 1>>] = f[<<x, y, i, j - 1>>]
          /\ g[<<i - 1, j - 1>>] = f[<<x, y, i - 1, j - 1>>]
      BY <3>1
    <3> HIDE DEF g
    <3> QED BY <2>1, <2>4, <2>6, <3>2 DEF CellsBody, CellBody
  <2> QED BY <2>5, <2>6
<1>5. g = [p \in P |-> CellBody(g, x, y, p)]
  BY <1>4
<1>6. Cells(x, y) = CHOOSE c : c = [p \in P |-> CellBody(c, x, y, p)]
  BY DEF Cells, CellBody
<1> HIDE DEF g, P
<1>7. (CHOOSE c : c = [p \in P |-> CellBody(c, x, y, p)])
        = [p \in P |-> CellBody(CHOOSE c : c = [p2 \in P |-> CellBody(c, x, y, p2)], x, y, p)]
  BY <1>5
<1>8. Cells(x, y) = [p \in P |-> CellBody(Cells(x, y), x, y, p)]
  BY <1>6, <1>7
<1> QED BY <1>8 DEF P

\* One of them.
Cell(x, y, i, j) == Cells(x, y)[<<i, j>>]

\* What holds of a cell if it holds of the cells above and to the left of it
\* holds of all.
LEMMA GridInduction ==
  ASSUME NEW m \in Nat, NEW n \in Nat, NEW T,
         \A i \in 0..m, j \in 0..n :
           (\A k \in 0..i, l \in 0..j : k + l < i + j => <<k, l>> \in T) => <<i, j>> \in T
  PROVE  \A i \in 0..m, j \in 0..n : <<i, j>> \in T
<1> DEFINE N == {r \in Nat : \E i \in 0..m, j \in 0..n : r = i + j /\ <<i, j>> \notin T}
<1> SUFFICES ASSUME NEW i0 \in 0..m, NEW j0 \in 0..n, <<i0, j0>> \notin T PROVE FALSE
  OBVIOUS
<1>0. N # {}
  <2>1. i0 + j0 \in Nat
    OBVIOUS
  <2>2. i0 + j0 \in N
    BY <2>1
  <2> QED BY <2>2
<1>1. PICK r \in N : \A s \in N : r <= s
  <2>1. N \in SUBSET Nat
    OBVIOUS
  <2> HIDE DEF N
  <2> QED BY <1>0, <2>1, ByCells!LeastNatural
<1>2. PICK i \in 0..m, j \in 0..n : r = i + j /\ <<i, j>> \notin T
  OBVIOUS
<1>3. ASSUME NEW k \in 0..i, NEW l \in 0..j, k + l < i + j PROVE <<k, l>> \in T
  <2>1. k \in 0..m /\ l \in 0..n /\ k + l \in Nat /\ ~(r <= k + l)
    BY <1>2, <1>3
  <2>2. k + l \notin N
    <3> HIDE DEF N
    <3> QED BY <1>1, <2>1
  <2> QED BY <2>1, <2>2
<1> QED BY <1>2, <1>3

\* Induction over the natural numbers.
LEMMA CountUp ==
  ASSUME NEW T \in SUBSET Nat, 0 \in T, \A k \in T : k + 1 \in T
  PROVE  \A k \in Nat : k \in T
<1> SUFFICES ASSUME Nat \ T # {} PROVE FALSE
  OBVIOUS
<1>1. PICK n \in Nat \ T : \A m \in Nat \ T : n <= m
  BY ByCells!LeastNatural
<1>2. n # 0 /\ n - 1 \in Nat /\ ~(n <= n - 1)
  OBVIOUS
<1>3. n - 1 \in T
  BY <1>1, <1>2
<1>4. (n - 1) + 1 = n
  OBVIOUS
<1> QED BY <1>3, <1>4

\* The least of two is one of them.
LEMMA LeastOf ==
  ASSUME NEW a \in Nat, NEW b \in Nat
  PROVE  /\ Least(a, b) \in Nat /\ Least(a, b) <= a /\ Least(a, b) <= b
         /\ Least(a, b) = a \/ Least(a, b) = b
BY DEF Least

\* One cell.
LEMMA CellOf ==
  ASSUME NEW x \in Words, NEW y \in Words, NEW i \in 0..Len(x), NEW j \in 0..Len(y)
  PROVE  Cell(x, y, i, j) =
           IF i = 0 THEN j ELSE IF j = 0 THEN i
           ELSE Least(Cell(x, y, i - 1, j) + 1,
                  Least(Cell(x, y, i, j - 1) + 1,
                        Cell(x, y, i - 1, j - 1) + IF x[i] = y[j] THEN 0 ELSE 1))
<1>1. <<i, j>> \in (0..Len(x)) \X (0..Len(y))
  OBVIOUS
<1>2. Cells(x, y)[<<i, j>>] = CellBody(Cells(x, y), x, y, <<i, j>>)
  <2> DEFINE P == (0..Len(x)) \X (0..Len(y))
             c == Cells(x, y)
  <2>1. c = [p \in P |-> CellBody(c, x, y, p)]
    BY CellsDefined
  <2> HIDE DEF P, c
  <2>2. \A p \in P : c[p] = CellBody(c, x, y, p)
    BY <2>1
  <2> QED BY <1>1, <2>2 DEF P, c
<1> QED BY <1>2 DEF CellBody, Cell

\* The cells of the first row and of the first column.
LEMMA Edges ==
  ASSUME NEW x \in Words, NEW y \in Words
  PROVE  /\ \A j \in 0..Len(y) : Cell(x, y, 0, j) = j
         /\ \A i \in 0..Len(x) : Cell(x, y, i, 0) = i
<1>1. Len(x) \in Nat /\ Len(y) \in Nat
  BY DEF Words
<1>2. ASSUME NEW j \in 0..Len(y) PROVE Cell(x, y, 0, j) = j
  <2>1. 0 \in 0..Len(x)
    BY <1>1
  <2> QED BY <2>1, CellOf
<1>3. ASSUME NEW i \in 0..Len(x) PROVE Cell(x, y, i, 0) = i
  <2>1. 0 \in 0..Len(y)
    BY <1>1
  <2> QED BY <2>1, CellOf
<1> QED BY <1>2, <1>3

\* Cells are counts.
LEMMA CellType ==
  ASSUME NEW x \in Words, NEW y \in Words
  PROVE  \A i \in 0..Len(x), j \in 0..Len(y) : Cell(x, y, i, j) \in Nat
<1> DEFINE P == (0..Len(x)) \X (0..Len(y))
           T == {p \in P : Cell(x, y, p[1], p[2]) \in Nat}
<1>1. Len(x) \in Nat /\ Len(y) \in Nat
  BY DEF Words
<1>2. ASSUME NEW i \in 0..Len(x), NEW j \in 0..Len(y),
             \A k \in 0..i, l \in 0..j : k + l < i + j => <<k, l>> \in T
      PROVE  <<i, j>> \in T
  <2>1. CASE i = 0 \/ j = 0
    BY <2>1, Edges
  <2>2. CASE i # 0 /\ j # 0
    <3>1. i - 1 \in 0..i /\ j - 1 \in 0..j /\ i \in 0..i /\ j \in 0..j
      BY <1>1, <2>2
    <3>2. <<i - 1, j>> \in T /\ <<i, j - 1>> \in T /\ <<i - 1, j - 1>> \in T
      <4> HIDE DEF T
      <4>1. (i - 1) + j < i + j /\ i + (j - 1) < i + j /\ (i - 1) + (j - 1) < i + j
        BY <1>1, <2>2
      <4> QED BY <1>2, <3>1, <4>1
    <3>3. Cell(x, y, i - 1, j) \in Nat /\ Cell(x, y, i, j - 1) \in Nat /\ Cell(x, y, i - 1, j - 1) \in Nat
      BY <3>2
    <3>4. Cell(x, y, i, j) \in Nat
      <4> HIDE DEF T
      <4> DEFINE across == Cell(x, y, i - 1, j - 1) + IF x[i] = y[j] THEN 0 ELSE 1
                 l == Least(Cell(x, y, i, j - 1) + 1, across)
      <4>1. Cell(x, y, i, j) = Least(Cell(x, y, i - 1, j) + 1, l)
        BY <2>2, CellOf
      <4>2. across \in Nat
        BY <3>3
      <4> HIDE DEF across
      <4>3. Cell(x, y, i, j - 1) + 1 \in Nat /\ Cell(x, y, i - 1, j) + 1 \in Nat
        BY <3>3
      <4>4. l \in Nat
        BY <4>2, <4>3, LeastOf, Zenon
      <4> HIDE DEF l
      <4> QED BY <4>1, <4>3, <4>4, LeastOf, Zenon
    <3> QED BY <3>4
  <2> QED BY <2>1, <2>2
<1>3. \A i \in 0..Len(x), j \in 0..Len(y) : <<i, j>> \in T
  <2> HIDE DEF T
  <2>1. \A i \in 0..Len(x), j \in 0..Len(y) :
          (\A k \in 0..i, l \in 0..j : k + l < i + j => <<k, l>> \in T) => <<i, j>> \in T
    BY <1>2
  <2> QED BY <1>1, <2>1, GridInduction
<1> QED BY <1>3

\* A cell d with its neighbours, for letters a and b.
Adjoins(d, up, left, diagonal, a, b) ==
  /\ d \in Nat /\ up \in Nat /\ left \in Nat /\ diagonal \in Nat
  /\ d <= up + 1 /\ d <= left + 1 /\ d <= diagonal + 1
  /\ a = b => d <= diagonal
  /\ d = up + 1 \/ d = left + 1 \/ d = diagonal + 1 \/ (a = b /\ d = diagonal)

\* A cell is at most what each of its neighbours leads to, and one of these.
LEMMA Inner ==
  ASSUME NEW x \in Words, NEW y \in Words, NEW i \in 1..Len(x), NEW j \in 1..Len(y)
  PROVE  Adjoins(Cell(x, y, i, j), Cell(x, y, i - 1, j), Cell(x, y, i, j - 1), Cell(x, y, i - 1, j - 1), x[i], y[j])
<1>1. Len(x) \in Nat /\ Len(y) \in Nat
  BY DEF Words
<1>2. i \in 0..Len(x) /\ j \in 0..Len(y) /\ i - 1 \in 0..Len(x) /\ j - 1 \in 0..Len(y) /\ i # 0 /\ j # 0
  BY <1>1
<1>3. /\ Cell(x, y, i - 1, j) \in Nat /\ Cell(x, y, i, j - 1) \in Nat /\ Cell(x, y, i - 1, j - 1) \in Nat
      /\ Cell(x, y, i, j) \in Nat
  BY <1>2, CellType
<1>4. Cell(x, y, i, j) =
        Least(Cell(x, y, i - 1, j) + 1,
          Least(Cell(x, y, i, j - 1) + 1, Cell(x, y, i - 1, j - 1) + IF x[i] = y[j] THEN 0 ELSE 1))
  BY <1>2, CellOf
<1> DEFINE d == Cell(x, y, i, j)
           up == Cell(x, y, i - 1, j)
           left == Cell(x, y, i, j - 1)
           diagonal == Cell(x, y, i - 1, j - 1)
           across == diagonal + IF x[i] = y[j] THEN 0 ELSE 1
           l == Least(left + 1, across)
<1>5. d \in Nat /\ up \in Nat /\ left \in Nat /\ diagonal \in Nat /\ d = Least(up + 1, l)
  BY <1>3, <1>4
<1> HIDE DEF d, up, left, diagonal
<1>6. across \in Nat /\ (x[i] = y[j] => across = diagonal) /\ (x[i] # y[j] => across = diagonal + 1)
  BY <1>5
<1> HIDE DEF across
<1>7. l \in Nat /\ l <= left + 1 /\ l <= across /\ (l = left + 1 \/ l = across)
  BY <1>5, <1>6, LeastOf
<1> HIDE DEF l
<1>8. d <= up + 1 /\ d <= l /\ (d = up + 1 \/ d = l)
  BY <1>5, <1>7, LeastOf
<1>9. Adjoins(d, up, left, diagonal, x[i], y[j])
  BY <1>5, <1>6, <1>7, <1>8 DEF Adjoins
<1> QED BY <1>9 DEF d, up, left, diagonal

-----------------------------------------------------------------------------
(* What one edit does to the distance *)

\* A cell whose neighbours are at most one more is at most one more itself, if
\* the letters or the cells across are the same.
LEMMA AdjoinsGrows ==
  ASSUME NEW d, NEW up, NEW left, NEW diagonal, NEW a, NEW b,
         NEW d2, NEW up2, NEW left2, NEW diagonal2, NEW b2,
         Adjoins(d, up, left, diagonal, a, b), Adjoins(d2, up2, left2, diagonal2, a, b2),
         up2 <= up + 1, left2 <= left + 1, diagonal2 <= diagonal + 1,
         b2 = b \/ diagonal2 = diagonal
  PROVE  d2 <= d + 1
BY DEF Adjoins

\* A cell with the same neighbours and letters is the same.
LEMMA AdjoinsSame ==
  ASSUME NEW d, NEW up, NEW left, NEW diagonal, NEW a, NEW b, NEW d2,
         Adjoins(d, up, left, diagonal, a, b), Adjoins(d2, up, left, diagonal, a, b)
  PROVE  d2 = d
BY DEF Adjoins

\* Words that begin alike have the same first columns.
LEMMA PrefixAgrees ==
  ASSUME NEW x \in Words, NEW y \in Words, NEW z \in Words, NEW n \in Nat,
         n <= Len(y), n <= Len(z), \A k \in 1..n : y[k] = z[k]
  PROVE  \A i \in 0..Len(x), j \in 0..n : Cell(x, y, i, j) = Cell(x, z, i, j)
<1> DEFINE P == (0..Len(x)) \X (0..n)
           T == {p \in P : Cell(x, y, p[1], p[2]) = Cell(x, z, p[1], p[2])}
<1>1. Len(x) \in Nat /\ Len(y) \in Nat /\ Len(z) \in Nat
  BY DEF Words
<1>2. ASSUME NEW i \in 0..Len(x), NEW j \in 0..n,
             \A k \in 0..i, l \in 0..j : k + l < i + j => <<k, l>> \in T
      PROVE  <<i, j>> \in T
  <2>1. CASE i = 0 \/ j = 0
    <3>1. j \in 0..Len(y) /\ j \in 0..Len(z)
      BY <1>1
    <3>2. Cell(x, y, i, j) = Cell(x, z, i, j)
      <4> HIDE DEF T
      <4> QED BY <2>1, <3>1, Edges
    <3> QED BY <3>2
  <2>2. CASE i # 0 /\ j # 0
    <3>1. i - 1 \in 0..i /\ j - 1 \in 0..j /\ i \in 0..i /\ j \in 0..j
      BY <1>1, <2>2
    <3>2. <<i - 1, j>> \in T /\ <<i, j - 1>> \in T /\ <<i - 1, j - 1>> \in T
      <4> HIDE DEF T
      <4>1. (i - 1) + j < i + j /\ i + (j - 1) < i + j /\ (i - 1) + (j - 1) < i + j
        BY <1>1, <2>2
      <4> QED BY <1>2, <3>1, <4>1
    <3>3. /\ Cell(x, y, i - 1, j) = Cell(x, z, i - 1, j) /\ Cell(x, y, i, j - 1) = Cell(x, z, i, j - 1)
          /\ Cell(x, y, i - 1, j - 1) = Cell(x, z, i - 1, j - 1)
      BY <3>2
    <3> HIDE DEF T
    <3>4. i \in 1..Len(x) /\ j \in 1..Len(y) /\ j \in 1..Len(z) /\ y[j] = z[j]
      BY <1>1, <2>2
    <3>5. /\ Adjoins(Cell(x, y, i, j), Cell(x, y, i - 1, j), Cell(x, y, i, j - 1), Cell(x, y, i - 1, j - 1), x[i], y[j])
          /\ Adjoins(Cell(x, z, i, j), Cell(x, z, i - 1, j), Cell(x, z, i, j - 1), Cell(x, z, i - 1, j - 1), x[i], z[j])
      BY <3>4, Inner
    <3>6. Cell(x, y, i, j) = Cell(x, z, i, j)
      BY <3>3, <3>4, <3>5, AdjoinsSame
    <3> QED BY <3>6 DEF T
  <2> QED BY <2>1, <2>2
<1>3. \A i \in 0..Len(x), j \in 0..n : <<i, j>> \in T
  <2> HIDE DEF T
  <2>1. \A i \in 0..Len(x), j \in 0..n :
          (\A k \in 0..i, l \in 0..j : k + l < i + j => <<k, l>> \in T) => <<i, j>> \in T
    BY <1>2
  <2> QED BY <1>1, <2>1, GridInduction
<1> QED BY <1>3

\* A word is at distance 0 from itself.
LEMMA SameWord ==
  ASSUME NEW x \in Words
  PROVE  Cell(x, x, Len(x), Len(x)) = 0
<1> DEFINE T == {i \in Nat : i <= Len(x) => Cell(x, x, i, i) = 0}
<1>1. Len(x) \in Nat
  BY DEF Words
<1>2. 0 \in T
  BY <1>1, Edges
<1>3. ASSUME NEW i \in T PROVE i + 1 \in T
  <2>1. SUFFICES ASSUME i + 1 <= Len(x) PROVE Cell(x, x, i + 1, i + 1) = 0
    OBVIOUS
  <2>2. Cell(x, x, i, i) = 0 /\ i \in Nat
    BY <1>1, <2>1
  <2> HIDE DEF T
  <2>3. i + 1 \in 1..Len(x) /\ (i + 1) - 1 = i
    BY <1>1, <2>1, <2>2
  <2>4. Adjoins(Cell(x, x, i + 1, i + 1), Cell(x, x, (i + 1) - 1, i + 1), Cell(x, x, i + 1, (i + 1) - 1),
             Cell(x, x, (i + 1) - 1, (i + 1) - 1), x[i + 1], x[i + 1])
    BY <2>3, Inner
  <2>5. Cell(x, x, (i + 1) - 1, (i + 1) - 1) = 0
    BY <2>2, <2>3
  <2> QED BY <2>4, <2>5 DEF Adjoins
<1>4. \A i \in Nat : i \in T
  <2>1. T \in SUBSET Nat
    OBVIOUS
  <2> HIDE DEF T
  <2> QED BY <1>2, <1>3, <2>1, CountUp
<1> QED BY <1>1, <1>4

\* A row further adds one at most.
LEMMA StepDown ==
  ASSUME NEW x \in Words, NEW y \in Words
  PROVE  \A i \in 1..Len(x), j \in 0..Len(y) : Cell(x, y, i, j) <= Cell(x, y, i - 1, j) + 1
<1> SUFFICES ASSUME NEW i \in 1..Len(x), NEW j \in 0..Len(y)
             PROVE  Cell(x, y, i, j) <= Cell(x, y, i - 1, j) + 1
  OBVIOUS
<1>1. Len(x) \in Nat /\ Len(y) \in Nat
  BY DEF Words
<1>2. CASE j = 0
  <2>1. i \in 0..Len(x) /\ i - 1 \in 0..Len(x)
    BY <1>1
  <2>2. Cell(x, y, i, 0) = i /\ Cell(x, y, i - 1, 0) = i - 1
    BY <2>1, Edges
  <2> QED BY <1>1, <1>2, <2>2
<1>3. CASE j # 0
  <2>1. j \in 1..Len(y)
    BY <1>1, <1>3
  <2> QED BY <2>1, Inner DEF Adjoins
<1> QED BY <1>2, <1>3

\* The same for a column further.
LEMMA StepRight ==
  ASSUME NEW x \in Words, NEW y \in Words
  PROVE  \A i \in 0..Len(x), j \in 1..Len(y) : Cell(x, y, i, j) <= Cell(x, y, i, j - 1) + 1
<1> SUFFICES ASSUME NEW i \in 0..Len(x), NEW j \in 1..Len(y)
             PROVE  Cell(x, y, i, j) <= Cell(x, y, i, j - 1) + 1
  OBVIOUS
<1>1. Len(x) \in Nat /\ Len(y) \in Nat
  BY DEF Words
<1>2. CASE i = 0
  <2>1. j \in 0..Len(y) /\ j - 1 \in 0..Len(y)
    BY <1>1
  <2>2. Cell(x, y, 0, j) = j /\ Cell(x, y, 0, j - 1) = j - 1
    BY <2>1, Edges
  <2> QED BY <1>1, <1>2, <2>2
<1>3. CASE i # 0
  <2>1. i \in 1..Len(x)
    BY <1>1, <1>3
  <2> QED BY <2>1, Inner DEF Adjoins
<1> QED BY <1>2, <1>3

\* Neighbours differ by one at most.
LEMMA Neighbours ==
  ASSUME NEW x \in Words, NEW y \in Words
  PROVE  \A i \in 0..Len(x), j \in 1..Len(y) : Cell(x, y, i, j - 1) <= Cell(x, y, i, j) + 1
<1>1. Len(x) \in Nat /\ Len(y) \in Nat
  BY DEF Words
<1> DEFINE T == {i \in Nat : i <= Len(x) =>
                   \A j \in 1..Len(y) : Cell(x, y, i, j - 1) <= Cell(x, y, i, j) + 1}
<1>2. 0 \in T
  <2>1. ASSUME NEW j \in 1..Len(y) PROVE Cell(x, y, 0, j - 1) <= Cell(x, y, 0, j) + 1
    <3>1. j \in 0..Len(y) /\ j - 1 \in 0..Len(y)
      BY <1>1
    <3>2. Cell(x, y, 0, j - 1) = j - 1 /\ Cell(x, y, 0, j) = j
      BY <3>1, Edges
    <3> QED BY <1>1, <3>2
  <2> QED BY <2>1
<1>3. ASSUME NEW i \in T PROVE i + 1 \in T
  <2> SUFFICES ASSUME i + 1 <= Len(x), NEW j \in 1..Len(y)
               PROVE  Cell(x, y, i + 1, j - 1) <= Cell(x, y, i + 1, j) + 1
    OBVIOUS
  <2>1. Cell(x, y, i, j - 1) <= Cell(x, y, i, j) + 1 /\ i \in Nat
    BY <1>1
  <2> HIDE DEF T
  <2>2. i + 1 \in 1..Len(x) /\ (i + 1) - 1 = i
    BY <1>1, <2>1
  <2>3. Adjoins(Cell(x, y, i + 1, j), Cell(x, y, i, j), Cell(x, y, i + 1, j - 1), Cell(x, y, i, j - 1), x[i + 1], y[j])
    <3>1. Adjoins(Cell(x, y, i + 1, j), Cell(x, y, (i + 1) - 1, j), Cell(x, y, i + 1, j - 1),
               Cell(x, y, (i + 1) - 1, j - 1), x[i + 1], y[j])
      BY <2>2, Inner
    <3> QED BY <2>2, <3>1
  <2>4. Cell(x, y, i + 1, j - 1) <= Cell(x, y, i, j - 1) + 1
    <3>1. j - 1 \in 0..Len(y)
      BY <1>1
    <3>2. Cell(x, y, i + 1, j - 1) <= Cell(x, y, (i + 1) - 1, j - 1) + 1
      BY <2>2, <3>1, StepDown
    <3> QED BY <2>2, <3>2
  <2> QED BY <2>1, <2>3, <2>4 DEF Adjoins
<1>4. \A i \in Nat : i \in T
  <2>1. T \in SUBSET Nat
    OBVIOUS
  <2> HIDE DEF T
  <2> QED BY <1>2, <1>3, <2>1, CountUp
<1> QED BY <1>1, <1>4

\* Replacing the letter at p.
LEMMA Replaced ==
  ASSUME NEW x \in Words, NEW s \in Words, NEW w \in Words, NEW p \in 1..Len(s),
         Len(w) = Len(s), \A k \in 1..Len(s) : k # p => w[k] = s[k]
  PROVE  \A i \in 0..Len(x), j \in 0..Len(s) : Cell(x, w, i, j) <= Cell(x, s, i, j) + 1
<1> DEFINE P == (0..Len(x)) \X (0..Len(s))
           T == {q \in P : Cell(x, w, q[1], q[2]) <= Cell(x, s, q[1], q[2]) + 1}
<1>1. Len(x) \in Nat /\ Len(s) \in Nat /\ p \in Nat
  BY DEF Words
<1>2. \A i \in 0..Len(x), j \in 0..(p - 1) : Cell(x, s, i, j) = Cell(x, w, i, j)
  <2>1. p - 1 \in Nat /\ p - 1 <= Len(s) /\ p - 1 <= Len(w) /\ \A k \in 1..(p - 1) : s[k] = w[k]
    BY <1>1
  <2> QED BY <2>1, PrefixAgrees
<1>3. ASSUME NEW i \in 0..Len(x), NEW j \in 0..Len(s),
             \A k \in 0..i, l \in 0..j : k + l < i + j => <<k, l>> \in T
      PROVE  <<i, j>> \in T
  <2>1. CASE i = 0 \/ j = 0
    <3>1. Cell(x, w, i, j) = Cell(x, s, i, j) /\ Cell(x, s, i, j) \in Nat
      <4> HIDE DEF T
      <4>1. Cell(x, s, i, j) \in Nat
        BY CellType
      <4>2. CASE i = 0
        BY <4>1, <4>2, Edges
      <4>3. CASE j = 0
        <5>1. Cell(x, w, i, 0) = i /\ Cell(x, s, i, 0) = i
          BY Edges
        <5> QED BY <4>1, <4>3, <5>1
      <4> QED BY <2>1, <4>2, <4>3
    <3> QED BY <3>1
  <2>2. CASE i # 0 /\ j # 0
    <3>1. i - 1 \in 0..i /\ j - 1 \in 0..j /\ i \in 0..i /\ j \in 0..j
      BY <1>1, <2>2
    <3>2. <<i - 1, j>> \in T /\ <<i, j - 1>> \in T /\ <<i - 1, j - 1>> \in T
      <4> HIDE DEF T
      <4>1. (i - 1) + j < i + j /\ i + (j - 1) < i + j /\ (i - 1) + (j - 1) < i + j
        BY <1>1, <2>2
      <4> QED BY <1>3, <3>1, <4>1
    <3>3. /\ Cell(x, w, i - 1, j) <= Cell(x, s, i - 1, j) + 1 /\ Cell(x, w, i, j - 1) <= Cell(x, s, i, j - 1) + 1
          /\ Cell(x, w, i - 1, j - 1) <= Cell(x, s, i - 1, j - 1) + 1
      BY <3>2
    <3> HIDE DEF T
    <3>4. i \in 1..Len(x) /\ j \in 1..Len(s) /\ j \in 1..Len(w)
      BY <1>1, <2>2
    <3>5. /\ Adjoins(Cell(x, w, i, j), Cell(x, w, i - 1, j), Cell(x, w, i, j - 1), Cell(x, w, i - 1, j - 1), x[i], w[j])
          /\ Adjoins(Cell(x, s, i, j), Cell(x, s, i - 1, j), Cell(x, s, i, j - 1), Cell(x, s, i - 1, j - 1), x[i], s[j])
      BY <3>4, Inner
    <3>6. w[j] = s[j] \/ Cell(x, w, i - 1, j - 1) = Cell(x, s, i - 1, j - 1)
      <4>1. CASE j # p
        BY <3>4, <4>1
      <4>2. CASE j = p
        <5>1. i - 1 \in 0..Len(x) /\ j - 1 \in 0..(p - 1)
          BY <1>1, <3>4, <4>2
        <5> QED BY <1>2, <5>1
      <4> QED BY <4>1, <4>2
    <3>7. Cell(x, w, i, j) <= Cell(x, s, i, j) + 1
      BY <3>3, <3>5, <3>6, AdjoinsGrows
    <3> QED BY <3>7 DEF T
  <2> QED BY <2>1, <2>2
<1>4. \A i \in 0..Len(x), j \in 0..Len(s) : <<i, j>> \in T
  <2> HIDE DEF T
  <2>1. \A i \in 0..Len(x), j \in 0..Len(s) :
          (\A k \in 0..i, l \in 0..j : k + l < i + j => <<k, l>> \in T) => <<i, j>> \in T
    BY <1>3
  <2> QED BY <1>1, <2>1, GridInduction, ZenonT(30)
<1> QED BY <1>1, <1>4

\* Inserting a letter at p.
LEMMA Inserted ==
  ASSUME NEW x \in Words, NEW s \in Words, NEW w \in Words, NEW p \in 1..(Len(s) + 1),
         Len(w) = Len(s) + 1, \A k \in 1..(p - 1) : w[k] = s[k], \A k \in p..Len(s) : w[k + 1] = s[k]
  PROVE  \A i \in 0..Len(x), j \in (p - 1)..Len(s) : Cell(x, w, i, j + 1) <= Cell(x, s, i, j) + 1
<1> DEFINE P == (0..Len(x)) \X (0..Len(s))
           T == {q \in P : p - 1 <= q[2] => Cell(x, w, q[1], q[2] + 1) <= Cell(x, s, q[1], q[2]) + 1}
<1>1. Len(x) \in Nat /\ Len(s) \in Nat /\ p \in Nat
  BY DEF Words
<1>2. \A i \in 0..Len(x), j \in 0..(p - 1) : Cell(x, s, i, j) = Cell(x, w, i, j)
  <2>1. p - 1 \in Nat /\ p - 1 <= Len(s) /\ p - 1 <= Len(w) /\ \A k \in 1..(p - 1) : s[k] = w[k]
    BY <1>1
  <2> QED BY <2>1, PrefixAgrees
<1>3. ASSUME NEW i \in 0..Len(x), NEW j \in 0..Len(s),
             \A k \in 0..i, l \in 0..j : k + l < i + j => <<k, l>> \in T
      PROVE  <<i, j>> \in T
  <2>1. CASE j < p - 1
    BY <1>1, <2>1
  <2>2. CASE j = p - 1
    <3>1. j + 1 \in 1..Len(w) /\ (j + 1) - 1 = j /\ j \in 0..(p - 1)
      BY <1>1, <2>2
    <3>2. Cell(x, w, i, j + 1) <= Cell(x, s, i, j) + 1
      <4> HIDE DEF T
      <4>1. Cell(x, w, i, j + 1) <= Cell(x, w, i, (j + 1) - 1) + 1
        BY <3>1, StepRight
      <4>2. Cell(x, w, i, j) = Cell(x, s, i, j)
        BY <1>2, <3>1
      <4> QED BY <3>1, <4>1, <4>2
    <3> QED BY <3>2
  <2>3. CASE i = 0 /\ p - 1 < j
    <3>1. Cell(x, w, i, j + 1) <= Cell(x, s, i, j) + 1
      <4> HIDE DEF T
      <4>1. j + 1 \in 0..Len(w)
        BY <1>1
      <4>2. Cell(x, w, 0, j + 1) = j + 1 /\ Cell(x, s, 0, j) = j
        BY <4>1, Edges
      <4> QED BY <1>1, <2>3, <4>2
    <3> QED BY <3>1
  <2>4. CASE i # 0 /\ p - 1 < j
    <3>1. i - 1 \in 0..i /\ j - 1 \in 0..j /\ i \in 0..i /\ j \in 0..j
      BY <1>1, <2>4
    <3>2. <<i - 1, j>> \in T /\ <<i, j - 1>> \in T /\ <<i - 1, j - 1>> \in T
      <4> HIDE DEF T
      <4>1. (i - 1) + j < i + j /\ i + (j - 1) < i + j /\ (i - 1) + (j - 1) < i + j
        BY <1>1, <2>4
      <4> QED BY <1>3, <3>1, <4>1
    <3>3. /\ Cell(x, w, i - 1, j + 1) <= Cell(x, s, i - 1, j) + 1
          /\ Cell(x, w, i, (j - 1) + 1) <= Cell(x, s, i, j - 1) + 1
          /\ Cell(x, w, i - 1, (j - 1) + 1) <= Cell(x, s, i - 1, j - 1) + 1
      <4>1. p - 1 <= j - 1 /\ p - 1 <= j
        BY <1>1, <2>4
      <4> QED BY <3>2, <4>1
    <3> HIDE DEF T
    <3>4. /\ i \in 1..Len(x) /\ j \in 1..Len(s) /\ j + 1 \in 1..Len(w) /\ (j + 1) - 1 = j /\ (j - 1) + 1 = j
          /\ j \in p..Len(s)
      BY <1>1, <2>4
    <3>5. /\ Adjoins(Cell(x, w, i, j + 1), Cell(x, w, i - 1, j + 1), Cell(x, w, i, j), Cell(x, w, i - 1, j), x[i], w[j + 1])
          /\ Adjoins(Cell(x, s, i, j), Cell(x, s, i - 1, j), Cell(x, s, i, j - 1), Cell(x, s, i - 1, j - 1), x[i], s[j])
      <4>1. Adjoins(Cell(x, w, i, j + 1), Cell(x, w, i - 1, j + 1), Cell(x, w, i, (j + 1) - 1),
                 Cell(x, w, i - 1, (j + 1) - 1), x[i], w[j + 1])
        BY <3>4, Inner
      <4>2. Adjoins(Cell(x, s, i, j), Cell(x, s, i - 1, j), Cell(x, s, i, j - 1), Cell(x, s, i - 1, j - 1), x[i], s[j])
        BY <3>4, Inner
      <4> QED BY <3>4, <4>1, <4>2
    <3>6. w[j + 1] = s[j]
      BY <3>4
    <3>7. Cell(x, w, i, j + 1) <= Cell(x, s, i, j) + 1
      <4>1. Cell(x, w, i, j) <= Cell(x, s, i, j - 1) + 1 /\ Cell(x, w, i - 1, j) <= Cell(x, s, i - 1, j - 1) + 1
        BY <3>3, <3>4
      <4> QED BY <3>3, <3>5, <3>6, <4>1, AdjoinsGrows
    <3> QED BY <3>7 DEF T
  <2> QED BY <1>1, <2>1, <2>2, <2>3, <2>4
<1>4. \A i \in 0..Len(x), j \in 0..Len(s) : <<i, j>> \in T
  <2> HIDE DEF T
  <2>1. \A i \in 0..Len(x), j \in 0..Len(s) :
          (\A k \in 0..i, l \in 0..j : k + l < i + j => <<k, l>> \in T) => <<i, j>> \in T
    BY <1>3
  <2> QED BY <1>1, <2>1, GridInduction, ZenonT(30)
<1>5. ASSUME NEW i \in 0..Len(x), NEW j \in (p - 1)..Len(s) PROVE Cell(x, w, i, j + 1) <= Cell(x, s, i, j) + 1
  <2>1. j \in 0..Len(s) /\ (p - 1) <= j
    BY <1>1
  <2>2. <<i, j>> \in T
    BY <1>4, <2>1
  <2> QED BY <2>1, <2>2
<1> QED BY <1>5

\* Removing the letter at p.
LEMMA Removed ==
  ASSUME NEW x \in Words, NEW s \in Words, NEW w \in Words, NEW p \in 1..Len(s),
         Len(w) = Len(s) - 1, \A k \in 1..(p - 1) : w[k] = s[k], \A k \in (p + 1)..Len(s) : w[k - 1] = s[k]
  PROVE  \A i \in 0..Len(x), j \in p..Len(s) : Cell(x, w, i, j - 1) <= Cell(x, s, i, j) + 1
<1> DEFINE P == (0..Len(x)) \X (0..Len(s))
           T == {q \in P : p <= q[2] => Cell(x, w, q[1], q[2] - 1) <= Cell(x, s, q[1], q[2]) + 1}
<1>1. Len(x) \in Nat /\ Len(s) \in Nat /\ p \in Nat
  BY DEF Words
<1>2. \A i \in 0..Len(x), j \in 0..(p - 1) : Cell(x, s, i, j) = Cell(x, w, i, j)
  <2>1. p - 1 \in Nat /\ p - 1 <= Len(s) /\ p - 1 <= Len(w) /\ \A k \in 1..(p - 1) : s[k] = w[k]
    BY <1>1
  <2> QED BY <2>1, PrefixAgrees
<1>3. ASSUME NEW i \in 0..Len(x), NEW j \in 0..Len(s),
             \A k \in 0..i, l \in 0..j : k + l < i + j => <<k, l>> \in T
      PROVE  <<i, j>> \in T
  <2>1. CASE j < p
    BY <1>1, <2>1
  <2>2. CASE j = p
    <3>1. j - 1 \in 0..(p - 1) /\ j \in 1..Len(s)
      BY <1>1, <2>2
    <3>2. Cell(x, w, i, j - 1) <= Cell(x, s, i, j) + 1
      <4> HIDE DEF T
      <4>1. Cell(x, s, i, j - 1) <= Cell(x, s, i, j) + 1
        BY <3>1, Neighbours
      <4>2. Cell(x, w, i, j - 1) = Cell(x, s, i, j - 1)
        BY <1>2, <3>1
      <4> QED BY <4>1, <4>2
    <3> QED BY <3>2
  <2>3. CASE i = 0 /\ p < j
    <3>1. Cell(x, w, i, j - 1) <= Cell(x, s, i, j) + 1
      <4> HIDE DEF T
      <4>1. j - 1 \in 0..Len(w)
        BY <1>1, <2>3
      <4>2. Cell(x, w, 0, j - 1) = j - 1 /\ Cell(x, s, 0, j) = j
        BY <4>1, Edges
      <4> QED BY <1>1, <2>3, <4>2
    <3> QED BY <3>1
  <2>4. CASE i # 0 /\ p < j
    <3>1. i - 1 \in 0..i /\ j - 1 \in 0..j /\ i \in 0..i /\ j \in 0..j
      BY <1>1, <2>4
    <3>2. <<i - 1, j>> \in T /\ <<i, j - 1>> \in T /\ <<i - 1, j - 1>> \in T
      <4> HIDE DEF T
      <4>1. (i - 1) + j < i + j /\ i + (j - 1) < i + j /\ (i - 1) + (j - 1) < i + j
        BY <1>1, <2>4
      <4> QED BY <1>3, <3>1, <4>1
    <3>3. /\ Cell(x, w, i - 1, j - 1) <= Cell(x, s, i - 1, j) + 1
          /\ Cell(x, w, i, (j - 1) - 1) <= Cell(x, s, i, j - 1) + 1
          /\ Cell(x, w, i - 1, (j - 1) - 1) <= Cell(x, s, i - 1, j - 1) + 1
      <4>1. p <= j - 1 /\ p <= j
        BY <1>1, <2>4
      <4> QED BY <3>2, <4>1
    <3> HIDE DEF T
    <3>4. i \in 1..Len(x) /\ j \in 1..Len(s) /\ j - 1 \in 1..Len(w) /\ j \in (p + 1)..Len(s)
      BY <1>1, <2>4
    <3>5. /\ Adjoins(Cell(x, w, i, j - 1), Cell(x, w, i - 1, j - 1), Cell(x, w, i, (j - 1) - 1),
                  Cell(x, w, i - 1, (j - 1) - 1), x[i], w[j - 1])
          /\ Adjoins(Cell(x, s, i, j), Cell(x, s, i - 1, j), Cell(x, s, i, j - 1), Cell(x, s, i - 1, j - 1), x[i], s[j])
      BY <3>4, Inner
    <3>6. w[j - 1] = s[j]
      BY <3>4
    <3>7. Cell(x, w, i, j - 1) <= Cell(x, s, i, j) + 1
      BY <3>3, <3>5, <3>6, AdjoinsGrows
    <3> QED BY <3>7 DEF T
  <2> QED BY <1>1, <2>1, <2>2, <2>3, <2>4
<1>4. \A i \in 0..Len(x), j \in 0..Len(s) : <<i, j>> \in T
  <2> HIDE DEF T
  <2>1. \A i \in 0..Len(x), j \in 0..Len(s) :
          (\A k \in 0..i, l \in 0..j : k + l < i + j => <<k, l>> \in T) => <<i, j>> \in T
    BY <1>3
  <2> QED BY <1>1, <2>1, GridInduction, ZenonT(30)
<1>5. ASSUME NEW i \in 0..Len(x), NEW j \in p..Len(s) PROVE Cell(x, w, i, j - 1) <= Cell(x, s, i, j) + 1
  <2>1. j \in 0..Len(s) /\ p <= j
    BY <1>1
  <2>2. <<i, j>> \in T
    BY <1>4, <2>1
  <2> QED BY <2>1, <2>2
<1> QED BY <1>5

-----------------------------------------------------------------------------
(* Edits *)

\* A word without its letter at p.
LEMMA RemoveAtOf ==
  ASSUME NEW s \in Words, NEW p \in 1..Len(s)
  PROVE  /\ RemoveAt(s, p) \in Words /\ Len(RemoveAt(s, p)) = Len(s) - 1
         /\ \A k \in 1..(Len(s) - 1) : RemoveAt(s, p)[k] = IF k < p THEN s[k] ELSE s[k + 1]
<1> DEFINE u == SubSeq(s, 1, p - 1)
           v == SubSeq(s, p + 1, Len(s))
<1>1. Len(s) \in Nat /\ p \in Nat /\ \A k \in 1..Len(s) : s[k] \in Nat
  BY DEF Words
<1>2. u \in Seq(Nat) /\ Len(u) = p - 1 /\ \A k \in 1..(p - 1) : u[k] = s[k]
  <2>1. \A k \in 1..(p - 1) : s[k] \in Nat
    BY <1>1
  <2>2. /\ u \in Seq(Nat) /\ Len(u) = IF 1 <= p - 1 THEN (p - 1) - 1 + 1 ELSE 0
        /\ \A k \in 1..((p - 1) - 1 + 1) : u[k] = s[1 + k - 1]
    BY <1>1, <2>1, SubSeqProperties
  <2> HIDE DEF u
  <2> QED BY <1>1, <2>2
<1>3. v \in Seq(Nat) /\ Len(v) = Len(s) - p /\ \A k \in 1..(Len(s) - p) : v[k] = s[p + k]
  <2>1. \A k \in (p + 1)..Len(s) : s[k] \in Nat
    BY <1>1
  <2>2. /\ v \in Seq(Nat) /\ Len(v) = IF p + 1 <= Len(s) THEN Len(s) - (p + 1) + 1 ELSE 0
        /\ \A k \in 1..(Len(s) - (p + 1) + 1) : v[k] = s[(p + 1) + k - 1]
    BY <1>1, <2>1, SubSeqProperties
  <2> HIDE DEF v
  <2> QED BY <1>1, <2>2
<1>4. RemoveAt(s, p) = u \o v
  BY DEF RemoveAt
<1> HIDE DEF u, v
<1>5. /\ u \o v \in Seq(Nat) /\ Len(u \o v) = Len(u) + Len(v)
      /\ \A k \in 1..(Len(u) + Len(v)) : (u \o v)[k] = IF k <= Len(u) THEN u[k] ELSE v[k - Len(u)]
  BY <1>2, <1>3, ConcatProperties
<1>6. ASSUME NEW k \in 1..(Len(s) - 1) PROVE RemoveAt(s, p)[k] = IF k < p THEN s[k] ELSE s[k + 1]
  <2>1. RemoveAt(s, p)[k] = IF k <= p - 1 THEN u[k] ELSE v[k - (p - 1)]
    <3>1. k \in 1..(Len(u) + Len(v))
      BY <1>1, <1>2, <1>3
    <3>2. (u \o v)[k] = IF k <= Len(u) THEN u[k] ELSE v[k - Len(u)]
      BY <1>5, <3>1
    <3> QED BY <1>2, <1>4, <3>2
  <2>2. CASE k < p
    BY <1>1, <1>2, <2>1, <2>2
  <2>3. CASE ~(k < p)
    <3>1. k - (p - 1) \in 1..(Len(s) - p) /\ p + (k - (p - 1)) = k + 1
      BY <1>1, <2>3
    <3> QED BY <1>1, <1>3, <2>1, <2>3, <3>1
  <2> QED BY <2>2, <2>3
<1>7. Len(u) + Len(v) = Len(s) - 1
  BY <1>1, <1>2, <1>3
<1>8. u \o v \in Seq(Nat) /\ Len(u \o v) = Len(s) - 1
  BY <1>5, <1>7
<1> QED BY <1>4, <1>6, <1>8 DEF Words

\* v is s with the letter c at p, and what was there from p on behind it.
LetterAt(s, p, c, v) ==
  /\ v \in Words /\ Len(v) = Len(s) + 1
  /\ \A k \in 1..(Len(s) + 1) : v[k] = IF k < p THEN s[k] ELSE IF k = p THEN c ELSE s[k - 1]

\* A word with another letter at p.
LEMMA InsertAtOf ==
  ASSUME NEW s \in Words, NEW p \in 1..(Len(s) + 1), NEW c \in Nat
  PROVE  LetterAt(s, p, c, InsertAt(s, p, c))
<1> DEFINE u == SubSeq(s, 1, p - 1)
           m == <<c>>
           v == SubSeq(s, p, Len(s))
           um == u \o m
<1>1. Len(s) \in Nat /\ p \in Nat /\ \A k \in 1..Len(s) : s[k] \in Nat
  BY DEF Words
<1>2. u \in Seq(Nat) /\ Len(u) = p - 1 /\ \A k \in 1..(p - 1) : u[k] = s[k]
  <2>1. \A k \in 1..(p - 1) : s[k] \in Nat
    BY <1>1
  <2>2. /\ u \in Seq(Nat) /\ Len(u) = IF 1 <= p - 1 THEN (p - 1) - 1 + 1 ELSE 0
        /\ \A k \in 1..((p - 1) - 1 + 1) : u[k] = s[1 + k - 1]
    BY <1>1, <2>1, SubSeqProperties
  <2> HIDE DEF u
  <2> QED BY <1>1, <2>2
<1>3. v \in Seq(Nat) /\ Len(v) = Len(s) - p + 1 /\ \A k \in 1..(Len(s) - p + 1) : v[k] = s[p + k - 1]
  <2>1. \A k \in p..Len(s) : s[k] \in Nat
    BY <1>1
  <2>2. /\ v \in Seq(Nat) /\ Len(v) = IF p <= Len(s) THEN Len(s) - p + 1 ELSE 0
        /\ \A k \in 1..(Len(s) - p + 1) : v[k] = s[p + k - 1]
    BY <1>1, <2>1, SubSeqProperties
  <2> HIDE DEF v
  <2> QED BY <1>1, <2>2
<1>4. m \in Seq(Nat) /\ Len(m) = 1 /\ m[1] = c
  OBVIOUS
<1>5. InsertAt(s, p, c) = um \o v
  BY DEF InsertAt
<1> HIDE DEF u, v, m
<1>6. um \in Seq(Nat) /\ Len(um) = p /\ \A k \in 1..p : um[k] = IF k <= p - 1 THEN u[k] ELSE m[k - (p - 1)]
  <2>1. /\ um \in Seq(Nat) /\ Len(um) = Len(u) + Len(m)
        /\ \A k \in 1..(Len(u) + Len(m)) : um[k] = IF k <= Len(u) THEN u[k] ELSE m[k - Len(u)]
    BY <1>2, <1>4, ConcatProperties
  <2> HIDE DEF um
  <2>2. Len(u) + Len(m) = p
    BY <1>1, <1>2, <1>4
  <2> QED BY <1>2, <2>1, <2>2
<1> HIDE DEF um
<1>7. /\ um \o v \in Seq(Nat) /\ Len(um \o v) = Len(um) + Len(v)
      /\ \A k \in 1..(Len(um) + Len(v)) : (um \o v)[k] = IF k <= Len(um) THEN um[k] ELSE v[k - Len(um)]
  BY <1>3, <1>6, ConcatProperties
<1>8. ASSUME NEW k \in 1..(Len(s) + 1)
      PROVE  InsertAt(s, p, c)[k] = IF k < p THEN s[k] ELSE IF k = p THEN c ELSE s[k - 1]
  <2>1. InsertAt(s, p, c)[k] = IF k <= p THEN um[k] ELSE v[k - p]
    <3>1. k \in 1..(Len(um) + Len(v))
      BY <1>1, <1>3, <1>6
    <3>2. (um \o v)[k] = IF k <= Len(um) THEN um[k] ELSE v[k - Len(um)]
      BY <1>7, <3>1
    <3> QED BY <1>5, <1>6, <3>2
  <2>2. CASE k < p
    <3>1. k \in 1..(p - 1) /\ k \in 1..p /\ k <= p - 1 /\ k <= p
      BY <1>1, <2>2
    <3>2. um[k] = u[k] /\ u[k] = s[k]
      BY <1>2, <1>6, <3>1
    <3> QED BY <2>1, <2>2, <3>1, <3>2
  <2>3. CASE k = p
    <3>1. k \in 1..p /\ ~(k <= p - 1) /\ k - (p - 1) = 1
      BY <1>1, <2>3
    <3>2. um[k] = m[1]
      BY <1>6, <3>1
    <3> QED BY <1>1, <1>4, <2>1, <2>3, <3>2
  <2>4. CASE p < k
    <3>1. k - p \in 1..(Len(s) - p + 1) /\ p + (k - p) - 1 = k - 1 /\ ~(k <= p) /\ ~(k < p) /\ k # p
      BY <1>1, <2>4
    <3>2. v[k - p] = s[p + (k - p) - 1]
      BY <1>3, <3>1
    <3> QED BY <2>1, <3>1, <3>2
  <2> QED BY <1>1, <2>2, <2>3, <2>4
<1>9. um \o v \in Seq(Nat) /\ Len(um \o v) = Len(s) + 1
  BY <1>1, <1>3, <1>6, <1>7
<1> QED BY <1>5, <1>8, <1>9 DEF Words, LetterAt

\* A word with its letter at p replaced.
LEMMA ReplaceAtOf ==
  ASSUME NEW s \in Words, NEW p \in 1..Len(s), NEW c \in Nat
  PROVE  /\ ReplaceAt(s, p, c) \in Words /\ Len(ReplaceAt(s, p, c)) = Len(s)
         /\ \A k \in 1..Len(s) : ReplaceAt(s, p, c)[k] = IF k = p THEN c ELSE s[k]
BY ExceptSeq DEF Words, ReplaceAt

\* The three kinds of words that are one edit away.
LEMMA EditKinds ==
  ASSUME NEW s \in Words, NEW letters \in SUBSET Nat, NEW w
  PROVE  w \in OneEdit(s, letters) <=>
           \/ \E p \in 1..Len(s) : w = RemoveAt(s, p)
           \/ \E p \in 1..(Len(s) + 1), c \in letters : w = InsertAt(s, p, c)
           \/ \E p \in 1..Len(s), c \in letters : w = ReplaceAt(s, p, c)
<1>1. DOMAIN s = 1..Len(s)
  BY DEF Words
<1> QED BY <1>1 DEF OneEdit

\* The distance of two words.
Distance(x, y) == Cell(x, y, Len(x), Len(y))

\* It is a count.
LEMMA DistanceType ==
  ASSUME NEW x \in Words, NEW y \in Words
  PROVE  Distance(x, y) \in Nat
<1>1. Len(x) \in 0..Len(x) /\ Len(y) \in 0..Len(y)
  BY DEF Words
<1> QED BY <1>1, CellType DEF Distance

\* One edit changes the distance to any word by one at most.
LEMMA EditCounts ==
  ASSUME NEW x \in Words, NEW s \in Words, NEW letters \in SUBSET Nat, NEW w \in OneEdit(s, letters)
  PROVE  w \in Words /\ Distance(x, w) <= Distance(x, s) + 1
<1>1. Len(x) \in 0..Len(x) /\ Len(s) \in 0..Len(s) /\ Len(s) \in Nat
  BY DEF Words
<1>2. ASSUME NEW p \in 1..Len(s), w = RemoveAt(s, p)
      PROVE  w \in Words /\ Distance(x, w) <= Distance(x, s) + 1
  <2>1. w \in Words /\ Len(w) = Len(s) - 1 /\ \A k \in 1..(Len(s) - 1) : w[k] = IF k < p THEN s[k] ELSE s[k + 1]
    BY <1>2, RemoveAtOf
  <2>2. ASSUME NEW k \in 1..(p - 1) PROVE w[k] = s[k]
    <3>1. k \in 1..(Len(s) - 1) /\ k < p
      BY <1>1
    <3> QED BY <2>1, <3>1
  <2>3. ASSUME NEW k \in (p + 1)..Len(s) PROVE w[k - 1] = s[k]
    <3>1. k - 1 \in 1..(Len(s) - 1) /\ ~(k - 1 < p) /\ (k - 1) + 1 = k
      BY <1>1
    <3> QED BY <2>1, <3>1
  <2>4. \A i \in 0..Len(x), j \in p..Len(s) : Cell(x, w, i, j - 1) <= Cell(x, s, i, j) + 1
    BY <2>1, <2>2, <2>3, Removed
  <2>5. Len(s) \in p..Len(s)
    BY <1>1
  <2> QED BY <1>1, <2>1, <2>4, <2>5 DEF Distance
<1>3. ASSUME NEW p \in 1..(Len(s) + 1), NEW c \in letters, w = InsertAt(s, p, c)
      PROVE  w \in Words /\ Distance(x, w) <= Distance(x, s) + 1
  <2>1. /\ w \in Words /\ Len(w) = Len(s) + 1
        /\ \A k \in 1..(Len(s) + 1) : w[k] = IF k < p THEN s[k] ELSE IF k = p THEN c ELSE s[k - 1]
    BY <1>3, InsertAtOf DEF LetterAt
  <2>2. ASSUME NEW k \in 1..(p - 1) PROVE w[k] = s[k]
    <3>1. k \in 1..(Len(s) + 1) /\ k < p
      BY <1>1
    <3> QED BY <2>1, <3>1
  <2>3. ASSUME NEW k \in p..Len(s) PROVE w[k + 1] = s[k]
    <3>1. k + 1 \in 1..(Len(s) + 1) /\ ~(k + 1 < p) /\ k + 1 # p /\ (k + 1) - 1 = k
      BY <1>1
    <3> QED BY <2>1, <3>1
  <2>4. \A i \in 0..Len(x), j \in (p - 1)..Len(s) : Cell(x, w, i, j + 1) <= Cell(x, s, i, j) + 1
    BY <2>1, <2>2, <2>3, Inserted
  <2>5. Len(s) \in (p - 1)..Len(s)
    BY <1>1
  <2> QED BY <1>1, <2>1, <2>4, <2>5 DEF Distance
<1>4. ASSUME NEW p \in 1..Len(s), NEW c \in letters, w = ReplaceAt(s, p, c)
      PROVE  w \in Words /\ Distance(x, w) <= Distance(x, s) + 1
  <2>1. w \in Words /\ Len(w) = Len(s) /\ \A k \in 1..Len(s) : w[k] = IF k = p THEN c ELSE s[k]
    BY <1>4, ReplaceAtOf
  <2>2. \A k \in 1..Len(s) : k # p => w[k] = s[k]
    BY <2>1
  <2>3. \A i \in 0..Len(x), j \in 0..Len(s) : Cell(x, w, i, j) <= Cell(x, s, i, j) + 1
    BY <2>1, <2>2, Replaced
  <2> QED BY <1>1, <2>1, <2>3 DEF Distance
<1>5. \/ \E p \in 1..Len(s) : w = RemoveAt(s, p)
      \/ \E p \in 1..(Len(s) + 1), c \in letters : w = InsertAt(s, p, c)
      \/ \E p \in 1..Len(s), c \in letters : w = ReplaceAt(s, p, c)
  BY EditKinds
<1> QED BY <1>2, <1>3, <1>4, <1>5

-----------------------------------------------------------------------------
(* The words within a number of edits *)

WithinSet == Words \X (SUBSET Nat) \X Nat \X Nat
WithinRank(q) == q[4]
WithinBody(g, q) ==
  IF q[4] = 0 THEN {q[1]}
  ELSE g[<<q[1], q[2], q[3], q[4] - 1>>] \cup
       {w \in UNION {OneEdit(s, q[2]) : s \in g[<<q[1], q[2], q[3], q[4] - 1>>]} : Len(w) <= q[3]}
ByEdits == INSTANCE RankedRecursion WITH S <- WithinSet, Rank <- WithinRank, Body <- WithinBody

\* The recursion for one word.
EditsBody(g, a, letters, longest, k) ==
  IF k = 0 THEN {a}
  ELSE g[k - 1] \cup {w \in UNION {OneEdit(s, letters) : s \in g[k - 1]} : Len(w) <= longest}

\* The words within k edits are what the recursion says.
LEMMA WithinDefined ==
  ASSUME NEW a \in Words, NEW letters \in SUBSET Nat, NEW longest \in Nat
  PROVE  Within(a, letters, longest) =
           [k \in Nat |-> EditsBody(Within(a, letters, longest), a, letters, longest, k)]
<1>1. ByEdits!Ranked
  BY DEF ByEdits!Ranked, WithinSet, WithinRank
<1>2. ByEdits!Local
  <2> SUFFICES ASSUME NEW q \in WithinSet, NEW g, NEW h,
                      \A r \in WithinSet : WithinRank(r) < WithinRank(q) => g[r] = h[r]
               PROVE  WithinBody(g, q) = WithinBody(h, q)
    BY DEF ByEdits!Local
  <2>1. PICK b \in Words, l \in SUBSET Nat, m \in Nat, k \in Nat : q = <<b, l, m, k>>
    BY DEF WithinSet
  <2>2. CASE k = 0
    BY <2>1, <2>2 DEF WithinBody
  <2>3. CASE k # 0
    <3>1. <<b, l, m, k - 1>> \in WithinSet
      <4>1. k - 1 \in Nat
        BY <2>3
      <4> QED BY <4>1, Zenon DEF WithinSet
    <3>2. WithinRank(<<b, l, m, k - 1>>) < WithinRank(q)
      BY <2>1, <2>3 DEF WithinRank
    <3>3. g[<<b, l, m, k - 1>>] = h[<<b, l, m, k - 1>>]
      BY <3>1, <3>2
    <3> QED BY <2>1, <2>3, <3>3 DEF WithinBody
  <2> QED BY <2>2, <2>3
<1>3. PICK f : f = [q \in WithinSet |-> WithinBody(f, q)]
  BY <1>1, <1>2, ByEdits!RecursionDefines
<1> DEFINE g == [k \in Nat |-> f[<<a, letters, longest, k>>]]
<1>4. ASSUME NEW k \in Nat PROVE g[k] = EditsBody(g, a, letters, longest, k)
  <2>1. <<a, letters, longest, k>> \in WithinSet
    BY DEF WithinSet
  <2>2. g[k] = WithinBody(f, <<a, letters, longest, k>>)
    BY <1>3, <2>1
  <2>3. CASE k = 0
    <3> HIDE DEF g
    <3> QED BY <2>2, <2>3 DEF WithinBody, EditsBody
  <2>4. CASE k # 0
    <3>1. g[k - 1] = f[<<a, letters, longest, k - 1>>]
      BY <2>4
    <3> HIDE DEF g
    <3> QED BY <2>2, <2>4, <3>1 DEF WithinBody, EditsBody
  <2> QED BY <2>3, <2>4
<1>5. g = [k \in Nat |-> EditsBody(g, a, letters, longest, k)]
  BY <1>4
<1>6. Within(a, letters, longest) =
        CHOOSE c : c = [k \in Nat |-> EditsBody(c, a, letters, longest, k)]
  BY DEF Within, EditsBody
<1> HIDE DEF g
<1> QED BY <1>5, <1>6

\* The words that k edits make.
Made(a, letters, longest, k) == Within(a, letters, longest)[k]

\* No edits.
LEMMA WithinNone ==
  ASSUME NEW a \in Words, NEW letters \in SUBSET Nat, NEW longest \in Nat
  PROVE  Made(a, letters, longest, 0) = {a}
<1>1. Made(a, letters, longest, 0) = EditsBody(Within(a, letters, longest), a, letters, longest, 0)
  BY WithinDefined DEF Made
<1> QED BY <1>1 DEF EditsBody

\* One edit more.
LEMMA WithinMore ==
  ASSUME NEW a \in Words, NEW letters \in SUBSET Nat, NEW longest \in Nat, NEW k \in Nat
  PROVE  \A w : w \in Made(a, letters, longest, k + 1) <=>
                \/ w \in Made(a, letters, longest, k)
                \/ Len(w) <= longest /\ \E s \in Made(a, letters, longest, k) : w \in OneEdit(s, letters)
<1>1. k + 1 \in Nat /\ k + 1 # 0 /\ (k + 1) - 1 = k
  OBVIOUS
<1>2. Made(a, letters, longest, k + 1) = EditsBody(Within(a, letters, longest), a, letters, longest, k + 1)
  BY <1>1, WithinDefined DEF Made
<1>3. Made(a, letters, longest, k + 1) =
        Made(a, letters, longest, k) \cup
        {w \in UNION {OneEdit(s, letters) : s \in Made(a, letters, longest, k)} : Len(w) <= longest}
  BY <1>1, <1>2 DEF EditsBody, Made
<1> QED BY <1>3

\* One more edit at the end.
LEMMA WithinLast ==
  ASSUME NEW a \in Words, NEW letters \in SUBSET Nat, NEW longest \in Nat, NEW k \in Nat,
         NEW s \in Made(a, letters, longest, k), NEW w \in OneEdit(s, letters), Len(w) <= longest
  PROVE  w \in Made(a, letters, longest, k + 1)
BY WithinMore

\* What k edits make are words whose distance is at most k.
LEMMA WithinDistance ==
  ASSUME NEW a \in Words, NEW letters \in SUBSET Nat, NEW longest \in Nat
  PROVE  \A k \in Nat : \A w \in Made(a, letters, longest, k) : w \in Words /\ Distance(a, w) <= k
<1> DEFINE T == {k \in Nat : \A w \in Made(a, letters, longest, k) : w \in Words /\ Distance(a, w) <= k}
<1>1. 0 \in T
  <2>1. ASSUME NEW w \in Made(a, letters, longest, 0) PROVE w \in Words /\ Distance(a, w) <= 0
    <3>1. w = a
      BY WithinNone
    <3> QED BY <3>1, SameWord DEF Distance
  <2> QED BY <2>1
<1>2. ASSUME NEW k \in T PROVE k + 1 \in T
  <2>1. k \in Nat /\ \A w \in Made(a, letters, longest, k) : w \in Words /\ Distance(a, w) <= k
    OBVIOUS
  <2>2. ASSUME NEW w \in Made(a, letters, longest, k + 1) PROVE w \in Words /\ Distance(a, w) <= k + 1
    <3> HIDE DEF T
    <3>1. CASE w \in Made(a, letters, longest, k)
      <4>1. w \in Words /\ Distance(a, w) <= k
        BY <2>1, <3>1
      <4>2. Distance(a, w) \in Nat
        BY <4>1, DistanceType
      <4> QED BY <2>1, <4>1, <4>2
    <3>2. CASE \E s \in Made(a, letters, longest, k) : w \in OneEdit(s, letters)
      <4>1. PICK s \in Made(a, letters, longest, k) : w \in OneEdit(s, letters)
        BY <3>2
      <4>2. s \in Words /\ Distance(a, s) <= k
        BY <2>1, <4>1
      <4>3. w \in Words /\ Distance(a, w) <= Distance(a, s) + 1
        BY <4>1, <4>2, EditCounts
      <4>4. Distance(a, s) \in Nat /\ Distance(a, w) \in Nat
        BY <4>2, <4>3, DistanceType
      <4> QED BY <2>1, <4>2, <4>3, <4>4
    <3> QED BY <2>1, <2>2, <3>1, <3>2, WithinMore
  <2> QED BY <2>1, <2>2
<1>3. T \in SUBSET Nat
  OBVIOUS
<1>4. \A k \in Nat : k \in T
  <2> HIDE DEF T
  <2> QED BY <1>1, <1>2, <1>3, CountUp
<1> QED BY <1>4

\* Longer words in between are no hindrance.
LEMMA WithinLonger ==
  ASSUME NEW a \in Words, NEW letters \in SUBSET Nat, NEW longest \in Nat, NEW longer \in Nat, longest <= longer
  PROVE  \A k \in Nat : Made(a, letters, longest, k) \subseteq Made(a, letters, longer, k)
<1> DEFINE T == {k \in Nat : Made(a, letters, longest, k) \subseteq Made(a, letters, longer, k)}
<1>1. 0 \in T
  BY WithinNone
<1>2. ASSUME NEW k \in T PROVE k + 1 \in T
  <2>1. k \in Nat /\ Made(a, letters, longest, k) \subseteq Made(a, letters, longer, k)
    OBVIOUS
  <2>2. ASSUME NEW w \in Made(a, letters, longest, k + 1) PROVE w \in Made(a, letters, longer, k + 1)
    <3> HIDE DEF T
    <3>1. CASE w \in Made(a, letters, longest, k)
      BY <2>1, <3>1, WithinMore
    <3>2. CASE Len(w) <= longest /\ \E s \in Made(a, letters, longest, k) : w \in OneEdit(s, letters)
      <4>1. PICK s \in Made(a, letters, longest, k) : w \in OneEdit(s, letters)
        BY <3>2
      <4>2. s \in Words
        BY <2>1, <4>1, WithinDistance
      <4>3. w \in Words
        BY <4>1, <4>2, EditCounts
      <4>4. Len(w) <= longer
        BY <3>2, <4>3 DEF Words
      <4> QED BY <2>1, <4>1, <4>4, WithinLast
    <3> QED BY <2>1, <2>2, <3>1, <3>2, WithinMore
  <2> QED BY <2>1, <2>2
<1>3. T \in SUBSET Nat
  OBVIOUS
<1>4. \A k \in Nat : k \in T
  <2> HIDE DEF T
  <2> QED BY <1>1, <1>2, <1>3, CountUp
<1> QED BY <1>4

\* One more edit at the beginning.
LEMMA WithinFirst ==
  ASSUME NEW a \in Words, NEW letters \in SUBSET Nat, NEW longest \in Nat,
         NEW b \in OneEdit(a, letters), b \in Words, Len(b) <= longest
  PROVE  \A k \in Nat : Made(b, letters, longest, k) \subseteq Made(a, letters, longest, k + 1)
<1> DEFINE T == {k \in Nat : Made(b, letters, longest, k) \subseteq Made(a, letters, longest, k + 1)}
<1>1. 0 \in T
  <2>1. 0 \in Nat /\ a \in Made(a, letters, longest, 0)
    <3>1. Made(a, letters, longest, 0) = {a}
      BY WithinNone
    <3> QED BY <3>1
  <2>2. b \in Made(a, letters, longest, 0 + 1)
    BY <2>1, WithinLast
  <2>3. Made(b, letters, longest, 0) = {b}
    BY WithinNone
  <2> QED BY <2>2, <2>3
<1>2. ASSUME NEW k \in T PROVE k + 1 \in T
  <2>1. k \in Nat /\ Made(b, letters, longest, k) \subseteq Made(a, letters, longest, k + 1)
    OBVIOUS
  <2>2. ASSUME NEW w \in Made(b, letters, longest, k + 1) PROVE w \in Made(a, letters, longest, (k + 1) + 1)
    <3> HIDE DEF T
    <3>1. CASE w \in Made(b, letters, longest, k)
      <4>1. w \in Made(a, letters, longest, k + 1) /\ k + 1 \in Nat
        BY <2>1, <3>1
      <4> QED BY <4>1, WithinMore
    <3>2. CASE Len(w) <= longest /\ \E s \in Made(b, letters, longest, k) : w \in OneEdit(s, letters)
      <4>1. PICK s \in Made(b, letters, longest, k) : w \in OneEdit(s, letters)
        BY <3>2
      <4>2. s \in Made(a, letters, longest, k + 1) /\ k + 1 \in Nat
        BY <2>1, <4>1
      <4> QED BY <3>2, <4>1, <4>2, WithinLast
    <3> QED BY <2>1, <2>2, <3>1, <3>2, WithinMore
  <2> QED BY <2>1, <2>2
<1>3. T \in SUBSET Nat
  OBVIOUS
<1>4. \A k \in Nat : k \in T
  <2> HIDE DEF T
  <2> QED BY <1>1, <1>2, <1>3, CountUp
<1> QED BY <1>4

\* A letter more at the end.
LEMMA AppendOf ==
  ASSUME NEW s \in Words, NEW c \in Nat
  PROVE  /\ Append(s, c) \in Words /\ Len(Append(s, c)) = Len(s) + 1
         /\ Append(s, c)[Len(s) + 1] = c /\ \A k \in 1..Len(s) : Append(s, c)[k] = s[k]
BY DEF Words

\* Words with the same letters are the same.
LEMMA SameLetters ==
  ASSUME NEW s \in Words, NEW t \in Words, Len(s) = Len(t), \A k \in 1..Len(s) : s[k] = t[k]
  PROVE  s = t
BY SeqEqual DEF Words

\* An edit of a word is an edit of the word with a letter more.
LEMMA EditAppended ==
  ASSUME NEW s \in Words, NEW letters \in SUBSET Nat, NEW w \in OneEdit(s, letters), NEW c \in Nat
  PROVE  Append(w, c) \in OneEdit(Append(s, c), letters)
<1> DEFINE t == Append(s, c)
<1>1. Len(s) \in Nat /\ t \in Words /\ Len(t) = Len(s) + 1 /\ t[Len(s) + 1] = c /\ \A k \in 1..Len(s) : t[k] = s[k]
  BY AppendOf DEF Words
<1> HIDE DEF t
<1>2. ASSUME NEW p \in 1..Len(s), w = RemoveAt(s, p) PROVE Append(w, c) \in OneEdit(t, letters)
  <2>1. /\ w \in Words /\ Len(w) = Len(s) - 1
        /\ \A k \in 1..(Len(s) - 1) : w[k] = IF k < p THEN s[k] ELSE s[k + 1]
    BY <1>2, RemoveAtOf
  <2>2. p \in 1..Len(t)
    BY <1>1
  <2> DEFINE v == RemoveAt(t, p)
             a == Append(w, c)
  <2>3. v \in Words /\ Len(v) = Len(s) /\ \A k \in 1..Len(s) : v[k] = IF k < p THEN t[k] ELSE t[k + 1]
    <3>1. v \in Words /\ Len(v) = Len(t) - 1 /\ \A k \in 1..(Len(t) - 1) : v[k] = IF k < p THEN t[k] ELSE t[k + 1]
      BY <1>1, <2>2, RemoveAtOf
    <3>2. Len(t) - 1 = Len(s)
      BY <1>1
    <3> HIDE DEF v
    <3> QED BY <3>1, <3>2
  <2>4. a \in Words /\ Len(a) = Len(s) /\ a[Len(s)] = c /\ \A k \in 1..(Len(s) - 1) : a[k] = w[k]
    <3>1. /\ a \in Words /\ Len(a) = Len(w) + 1 /\ a[Len(w) + 1] = c /\ \A k \in 1..Len(w) : a[k] = w[k]
      BY <2>1, AppendOf
    <3>2. Len(w) + 1 = Len(s)
      BY <1>1, <2>1
    <3> HIDE DEF a
    <3> QED BY <2>1, <3>1, <3>2
  <2>5. v \in OneEdit(t, letters)
    BY <1>1, <2>2, EditKinds
  <2> HIDE DEF v, a
  <2>6. ASSUME NEW k \in 1..Len(s) PROVE a[k] = v[k]
    <3>1. CASE k = Len(s)
      <4>1. ~(k < p)
        BY <1>1, <3>1
      <4> QED BY <1>1, <2>3, <2>4, <3>1, <4>1
    <3>2. CASE k # Len(s)
      <4>1. k \in 1..(Len(s) - 1) /\ k + 1 \in 1..Len(s)
        BY <1>1, <3>2
      <4> QED BY <1>1, <2>1, <2>3, <2>4, <4>1
    <3> QED BY <3>1, <3>2
  <2>7. a = v
    BY <2>3, <2>4, <2>6, SameLetters
  <2> QED BY <2>5, <2>7 DEF a
<1>3. ASSUME NEW p \in 1..(Len(s) + 1), NEW e \in letters, w = InsertAt(s, p, e)
      PROVE  Append(w, c) \in OneEdit(t, letters)
  <2>1. /\ w \in Words /\ Len(w) = Len(s) + 1
        /\ \A k \in 1..(Len(s) + 1) : w[k] = IF k < p THEN s[k] ELSE IF k = p THEN e ELSE s[k - 1]
    BY <1>3, InsertAtOf DEF LetterAt
  <2>2. p \in 1..(Len(t) + 1) /\ Len(t) + 1 = Len(s) + 2
    BY <1>1
  <2> DEFINE v == InsertAt(t, p, e)
             a == Append(w, c)
  <2>3. /\ v \in Words /\ Len(v) = Len(s) + 2
        /\ \A k \in 1..(Len(s) + 2) : v[k] = IF k < p THEN t[k] ELSE IF k = p THEN e ELSE t[k - 1]
    <3>1. /\ v \in Words /\ Len(v) = Len(t) + 1
          /\ \A k \in 1..(Len(t) + 1) : v[k] = IF k < p THEN t[k] ELSE IF k = p THEN e ELSE t[k - 1]
      <4>1. e \in Nat
        OBVIOUS
      <4>2. LetterAt(t, p, e, v)
        BY <1>1, <2>2, <4>1, InsertAtOf
      <4> QED BY <4>2 DEF LetterAt
    <3> HIDE DEF v
    <3> QED BY <2>2, <3>1
  <2>4. a \in Words /\ Len(a) = Len(s) + 2 /\ a[Len(s) + 2] = c /\ \A k \in 1..(Len(s) + 1) : a[k] = w[k]
    <3>1. /\ a \in Words /\ Len(a) = Len(w) + 1 /\ a[Len(w) + 1] = c /\ \A k \in 1..Len(w) : a[k] = w[k]
      BY <2>1, AppendOf
    <3>2. Len(w) + 1 = Len(s) + 2
      BY <1>1, <2>1
    <3> HIDE DEF a
    <3> QED BY <2>1, <3>1, <3>2
  <2>5. v \in OneEdit(t, letters)
    BY <1>1, <2>2, EditKinds
  <2> HIDE DEF v, a
  <2>6. ASSUME NEW k \in 1..(Len(s) + 2) PROVE a[k] = v[k]
    <3>1. CASE k = Len(s) + 2
      <4>1. ~(k < p) /\ k # p /\ k - 1 = Len(s) + 1
        BY <1>1, <3>1
      <4> QED BY <1>1, <2>3, <2>4, <3>1, <4>1
    <3>2. CASE k # Len(s) + 2
      <4>1. k \in 1..(Len(s) + 1)
        BY <1>1, <3>2
      <4>2. a[k] = IF k < p THEN s[k] ELSE IF k = p THEN e ELSE s[k - 1]
        BY <2>1, <2>4, <4>1
      <4>3. k < p => k \in 1..Len(s)
        BY <1>1, <4>1
      <4>4. ~(k < p) /\ k # p => k - 1 \in 1..Len(s)
        BY <1>1, <4>1
      <4> QED BY <1>1, <2>3, <4>2, <4>3, <4>4
    <3> QED BY <3>1, <3>2
  <2>7. a = v
    BY <2>3, <2>4, <2>6, SameLetters
  <2> QED BY <2>5, <2>7 DEF a
<1>4. ASSUME NEW p \in 1..Len(s), NEW e \in letters, w = ReplaceAt(s, p, e)
      PROVE  Append(w, c) \in OneEdit(t, letters)
  <2>1. w \in Words /\ Len(w) = Len(s) /\ \A k \in 1..Len(s) : w[k] = IF k = p THEN e ELSE s[k]
    BY <1>4, ReplaceAtOf
  <2>2. p \in 1..Len(t) /\ p # Len(s) + 1
    BY <1>1
  <2> DEFINE v == ReplaceAt(t, p, e)
             a == Append(w, c)
  <2>3. v \in Words /\ Len(v) = Len(s) + 1 /\ \A k \in 1..(Len(s) + 1) : v[k] = IF k = p THEN e ELSE t[k]
    <3>1. v \in Words /\ Len(v) = Len(t) /\ \A k \in 1..Len(t) : v[k] = IF k = p THEN e ELSE t[k]
      BY <1>1, <2>2, ReplaceAtOf
    <3> HIDE DEF v
    <3> QED BY <1>1, <3>1
  <2>4. a \in Words /\ Len(a) = Len(s) + 1 /\ a[Len(s) + 1] = c /\ \A k \in 1..Len(s) : a[k] = w[k]
    <3>1. /\ a \in Words /\ Len(a) = Len(w) + 1 /\ a[Len(w) + 1] = c /\ \A k \in 1..Len(w) : a[k] = w[k]
      BY <2>1, AppendOf
    <3> HIDE DEF a
    <3> QED BY <2>1, <3>1
  <2>5. v \in OneEdit(t, letters)
    BY <1>1, <2>2, EditKinds
  <2> HIDE DEF v, a
  <2>6. ASSUME NEW k \in 1..(Len(s) + 1) PROVE a[k] = v[k]
    <3>1. CASE k = Len(s) + 1
      BY <1>1, <2>2, <2>3, <2>4, <3>1
    <3>2. CASE k # Len(s) + 1
      <4>1. k \in 1..Len(s)
        BY <1>1, <3>2
      <4> QED BY <1>1, <2>1, <2>3, <2>4, <4>1
    <3> QED BY <3>1, <3>2
  <2>7. a = v
    BY <2>3, <2>4, <2>6, SameLetters
  <2> QED BY <2>5, <2>7 DEF a
<1>5. \/ \E p \in 1..Len(s) : w = RemoveAt(s, p)
      \/ \E p \in 1..(Len(s) + 1), e \in letters : w = InsertAt(s, p, e)
      \/ \E p \in 1..Len(s), e \in letters : w = ReplaceAt(s, p, e)
  BY EditKinds
<1> QED BY <1>2, <1>3, <1>4, <1>5 DEF t

\* The same edits lead between words that both have a letter more.
LEMMA WithinAppended ==
  ASSUME NEW a \in Words, NEW letters \in SUBSET Nat, NEW longest \in Nat, NEW c \in Nat
  PROVE  \A k \in Nat : \A w \in Made(a, letters, longest, k) :
           Append(w, c) \in Made(Append(a, c), letters, longest + 1, k)
<1> DEFINE T == {k \in Nat : \A w \in Made(a, letters, longest, k) :
                   Append(w, c) \in Made(Append(a, c), letters, longest + 1, k)}
<1>1. Append(a, c) \in Words /\ longest + 1 \in Nat
  BY AppendOf
<1>2. 0 \in T
  BY <1>1, WithinNone
<1>3. ASSUME NEW k \in T PROVE k + 1 \in T
  <2>1. /\ k \in Nat
        /\ \A w \in Made(a, letters, longest, k) : Append(w, c) \in Made(Append(a, c), letters, longest + 1, k)
    OBVIOUS
  <2>2. ASSUME NEW w \in Made(a, letters, longest, k + 1)
        PROVE  Append(w, c) \in Made(Append(a, c), letters, longest + 1, k + 1)
    <3> HIDE DEF T
    <3>1. CASE w \in Made(a, letters, longest, k)
      <4>1. Append(w, c) \in Made(Append(a, c), letters, longest + 1, k)
        BY <2>1, <3>1
      <4> QED BY <1>1, <2>1, <4>1, WithinMore
    <3>2. CASE Len(w) <= longest /\ \E s \in Made(a, letters, longest, k) : w \in OneEdit(s, letters)
      <4>1. PICK s \in Made(a, letters, longest, k) : w \in OneEdit(s, letters)
        BY <3>2
      <4>2. s \in Words
        BY <2>1, <4>1, WithinDistance
      <4>3. w \in Words
        BY <4>1, <4>2, EditCounts
      <4>4. Append(w, c) \in OneEdit(Append(s, c), letters)
        BY <4>1, <4>2, EditAppended
      <4>5. Len(Append(w, c)) <= longest + 1
        <5>1. Len(Append(w, c)) = Len(w) + 1 /\ Len(w) \in Nat
          BY <4>3, AppendOf DEF Words
        <5> QED BY <3>2, <5>1
      <4>6. Append(s, c) \in Made(Append(a, c), letters, longest + 1, k)
        BY <2>1, <4>1
      <4> QED BY <1>1, <2>1, <4>4, <4>5, <4>6, WithinLast
    <3> QED BY <2>1, <2>2, <3>1, <3>2, WithinMore
  <2> QED BY <2>1, <2>2
<1>4. T \in SUBSET Nat
  OBVIOUS
<1>5. \A k \in Nat : k \in T
  <2> HIDE DEF T
  <2> QED BY <1>2, <1>3, <1>4, CountUp
<1> QED BY <1>5

-----------------------------------------------------------------------------
(* As many edits as the cell says *)

Prefix(s, n) == SubSeq(s, 1, n)

\* The first letters of a word.
LEMMA PrefixOf ==
  ASSUME NEW s \in Words, NEW n \in 0..Len(s)
  PROVE  Prefix(s, n) \in Words /\ Len(Prefix(s, n)) = n /\ \A k \in 1..n : Prefix(s, n)[k] = s[k]
<1>1. Len(s) \in Nat /\ \A k \in 1..Len(s) : s[k] \in Nat
  BY DEF Words
<1>2. \A k \in 1..n : s[k] \in Nat
  BY <1>1
<1>3. /\ SubSeq(s, 1, n) \in Seq(Nat) /\ Len(SubSeq(s, 1, n)) = IF 1 <= n THEN n - 1 + 1 ELSE 0
      /\ \A k \in 1..(n - 1 + 1) : SubSeq(s, 1, n)[k] = s[1 + k - 1]
  BY <1>1, <1>2, SubSeqProperties
<1> QED BY <1>1, <1>3 DEF Prefix, Words

\* The whole of it.
LEMMA PrefixWhole == ASSUME NEW s \in Words PROVE Prefix(s, Len(s)) = s
<1>1. Len(s) \in 0..Len(s)
  BY DEF Words
<1>2. Prefix(s, Len(s)) \in Words /\ Len(Prefix(s, Len(s))) = Len(s) /\ \A k \in 1..Len(s) : Prefix(s, Len(s))[k] = s[k]
  BY <1>1, PrefixOf
<1> QED BY <1>2, SameLetters

\* One letter more of it.
LEMMA PrefixGrows ==
  ASSUME NEW s \in Words, NEW n \in 1..Len(s)
  PROVE  n - 1 \in 0..Len(s) /\ s[n] \in Nat /\ Prefix(s, n) = Append(Prefix(s, n - 1), s[n])
<1>1. Len(s) \in Nat /\ s[n] \in Nat /\ n \in 0..Len(s) /\ n - 1 \in 0..Len(s)
  BY DEF Words
<1> DEFINE v == Prefix(s, n)
           u == Prefix(s, n - 1)
           a == Append(u, s[n])
<1>2. v \in Words /\ Len(v) = n /\ \A k \in 1..n : v[k] = s[k]
  BY <1>1, PrefixOf
<1>3. u \in Words /\ Len(u) = n - 1 /\ \A k \in 1..(n - 1) : u[k] = s[k]
  BY <1>1, PrefixOf
<1>4. a \in Words /\ Len(a) = Len(u) + 1 /\ a[Len(u) + 1] = s[n] /\ \A k \in 1..Len(u) : a[k] = u[k]
  BY <1>1, <1>3, AppendOf
<1> HIDE DEF v, u, a
<1>5. Len(a) = n /\ a[n] = s[n] /\ \A k \in 1..(n - 1) : a[k] = s[k]
  BY <1>1, <1>3, <1>4
<1>6. ASSUME NEW k \in 1..n PROVE v[k] = a[k]
  <2>1. k = n \/ k \in 1..(n - 1)
    BY <1>1
  <2> QED BY <1>2, <1>5, <2>1
<1>7. v = a
  BY <1>2, <1>4, <1>5, <1>6, SameLetters
<1> QED BY <1>1, <1>7 DEF v, u, a

\* The three edits at the end of a word.
LEMMA EditsAtEnd ==
  ASSUME NEW s \in Words, NEW letters \in SUBSET Nat, NEW c \in Nat
  PROVE  /\ s \in OneEdit(Append(s, c), letters)
         /\ c \in letters => Append(s, c) \in OneEdit(s, letters)
         /\ \A e \in letters : Append(s, e) \in OneEdit(Append(s, c), letters)
<1> DEFINE t == Append(s, c)
           n == Len(s) + 1
<1>1. /\ Len(s) \in Nat /\ t \in Words /\ Len(t) = n /\ t[n] = c /\ \A k \in 1..Len(s) : t[k] = s[k]
  BY AppendOf DEF Words
<1> HIDE DEF t
<1>2. n \in 1..Len(t) /\ n \in 1..(Len(s) + 1) /\ Len(t) - 1 = Len(s) /\ n \in Nat
  BY <1>1
<1>3. s \in OneEdit(t, letters)
  <2> DEFINE v == RemoveAt(t, n)
  <2>1. v \in Words /\ Len(v) = Len(t) - 1 /\ \A k \in 1..(Len(t) - 1) : v[k] = IF k < n THEN t[k] ELSE t[k + 1]
    BY <1>1, <1>2, RemoveAtOf
  <2>2. v \in OneEdit(t, letters)
    BY <1>1, <1>2, EditKinds
  <2> HIDE DEF v
  <2>3. ASSUME NEW k \in 1..Len(s) PROVE v[k] = s[k]
    <3>1. k < n /\ k \in 1..(Len(t) - 1)
      BY <1>1, <1>2
    <3> QED BY <1>1, <2>1, <3>1
  <2>4. v = s
    BY <1>2, <2>1, <2>3, SameLetters
  <2> QED BY <2>2, <2>4
<1>4. ASSUME c \in letters PROVE t \in OneEdit(s, letters)
  <2> DEFINE v == InsertAt(s, n, c)
  <2>1. /\ v \in Words /\ Len(v) = Len(s) + 1
        /\ \A k \in 1..(Len(s) + 1) : v[k] = IF k < n THEN s[k] ELSE IF k = n THEN c ELSE s[k - 1]
    BY <1>2, InsertAtOf DEF LetterAt
  <2>2. v \in OneEdit(s, letters)
    BY <1>2, <1>4, EditKinds
  <2> HIDE DEF v
  <2>3. ASSUME NEW k \in 1..Len(t) PROVE v[k] = t[k]
    <3>1. k \in 1..(Len(s) + 1) /\ (k = n \/ (k < n /\ k \in 1..Len(s)))
      BY <1>1
    <3> QED BY <1>1, <2>1, <3>1
  <2>4. v = t
    BY <1>1, <2>1, <2>3, SameLetters
  <2> QED BY <2>2, <2>4
<1>5. ASSUME NEW e \in letters PROVE Append(s, e) \in OneEdit(t, letters)
  <2> DEFINE v == ReplaceAt(t, n, e)
             a == Append(s, e)
  <2>1. v \in Words /\ Len(v) = Len(t) /\ \A k \in 1..Len(t) : v[k] = IF k = n THEN e ELSE t[k]
    BY <1>1, <1>2, ReplaceAtOf
  <2>2. v \in OneEdit(t, letters)
    BY <1>1, <1>2, EditKinds
  <2>3. a \in Words /\ Len(a) = n /\ a[n] = e /\ \A k \in 1..Len(s) : a[k] = s[k]
    BY AppendOf
  <2> HIDE DEF v, a
  <2>4. ASSUME NEW k \in 1..Len(t) PROVE v[k] = a[k]
    <3>1. k = n \/ (k # n /\ k \in 1..Len(s))
      BY <1>1
    <3> QED BY <1>1, <2>1, <2>3, <3>1
  <2>5. v = a
    BY <1>1, <2>1, <2>3, <2>4, SameLetters
  <2> QED BY <2>2, <2>5 DEF a
<1> QED BY <1>3, <1>4, <1>5 DEF t

\* The beginning of y is within as many edits of the beginning of x as the cell
\* of the two says, and no word in between is longer than the longer of them.
Reaches(x, y, i, j) ==
  Prefix(y, j) \in Made(Prefix(x, i), Range(y), Most(i, j), Cell(x, y, i, j))

\* The letters of a word.
LEMMA LettersOf ==
  ASSUME NEW y \in Words
  PROVE  Range(y) \in SUBSET Nat /\ \A j \in 1..Len(y) : y[j] \in Range(y)
BY DEF Words, Range

\* A cell that comes from the one above: the last letter of x is removed first.
LEMMA ReachDown ==
  ASSUME NEW x \in Words, NEW y \in Words, NEW i \in 1..Len(x), NEW j \in 0..Len(y),
         Cell(x, y, i, j) = Cell(x, y, i - 1, j) + 1, Reaches(x, y, i - 1, j)
  PROVE  Reaches(x, y, i, j)
<1> DEFINE a == Prefix(x, i)
           b == Prefix(x, i - 1)
           w == Prefix(y, j)
           k == Cell(x, y, i - 1, j)
<1>1. Len(x) \in Nat /\ Len(y) \in Nat /\ i \in 0..Len(x) /\ i - 1 \in 0..Len(x)
  BY DEF Words
<1>2. a \in Words /\ b \in Words /\ Len(b) = i - 1
  BY <1>1, PrefixOf
<1>3. b \in OneEdit(a, Range(y))
  BY <1>2, PrefixGrows, EditsAtEnd, LettersOf
<1>4. Most(i - 1, j) \in Nat /\ Most(i, j) \in Nat /\ Most(i - 1, j) <= Most(i, j) /\ i - 1 <= Most(i, j)
  BY <1>1 DEF Most
<1>5. k \in Nat
  BY <1>1, CellType
<1>6. w \in Made(b, Range(y), Most(i - 1, j), k)
  BY DEF Reaches
<1> HIDE DEF a, b, w, k
<1>7. w \in Made(b, Range(y), Most(i, j), k)
  BY <1>2, <1>4, <1>5, <1>6, WithinLonger, LettersOf
<1>8. w \in Made(a, Range(y), Most(i, j), k + 1)
  BY <1>2, <1>3, <1>4, <1>5, <1>7, WithinFirst, LettersOf
<1> QED BY <1>8 DEF a, w, k, Reaches

\* A cell that comes from the one to the left: the last letter of y is inserted last.
LEMMA ReachRight ==
  ASSUME NEW x \in Words, NEW y \in Words, NEW i \in 0..Len(x), NEW j \in 1..Len(y),
         Cell(x, y, i, j) = Cell(x, y, i, j - 1) + 1, Reaches(x, y, i, j - 1)
  PROVE  Reaches(x, y, i, j)
<1> DEFINE a == Prefix(x, i)
           v == Prefix(y, j - 1)
           w == Prefix(y, j)
           k == Cell(x, y, i, j - 1)
<1>1. Len(x) \in Nat /\ Len(y) \in Nat /\ j \in 0..Len(y) /\ j - 1 \in 0..Len(y)
  BY DEF Words
<1>2. a \in Words /\ v \in Words /\ w \in Words /\ Len(w) = j
  BY <1>1, PrefixOf
<1>3. w \in OneEdit(v, Range(y))
  <2>1. w = Append(v, y[j]) /\ y[j] \in Nat
    BY PrefixGrows
  <2>2. Range(y) \in SUBSET Nat /\ y[j] \in Range(y)
    BY LettersOf
  <2> HIDE DEF v, w
  <2> QED BY <1>2, <2>1, <2>2, EditsAtEnd
<1>4. Most(i, j - 1) \in Nat /\ Most(i, j) \in Nat /\ Most(i, j - 1) <= Most(i, j) /\ j <= Most(i, j)
  BY <1>1 DEF Most
<1>5. k \in Nat
  BY <1>1, CellType
<1>6. v \in Made(a, Range(y), Most(i, j - 1), k)
  BY DEF Reaches
<1> HIDE DEF a, v, w, k
<1>7. v \in Made(a, Range(y), Most(i, j), k)
  BY <1>2, <1>4, <1>5, <1>6, WithinLonger, LettersOf
<1>8. w \in Made(a, Range(y), Most(i, j), k + 1)
  BY <1>2, <1>3, <1>4, <1>5, <1>7, WithinLast, LettersOf
<1> QED BY <1>8 DEF a, w, k, Reaches

\* A cell that comes from the one across: both words get their letter, and the
\* one of x is replaced if they differ.
LEMMA ReachAcross ==
  ASSUME NEW x \in Words, NEW y \in Words, NEW i \in 1..Len(x), NEW j \in 1..Len(y),
         \/ Cell(x, y, i, j) = Cell(x, y, i - 1, j - 1) + 1
         \/ Cell(x, y, i, j) = Cell(x, y, i - 1, j - 1) /\ x[i] = y[j],
         Reaches(x, y, i - 1, j - 1)
  PROVE  Reaches(x, y, i, j)
<1> DEFINE a == Prefix(x, i)
           b == Prefix(x, i - 1)
           v == Prefix(y, j - 1)
           w == Prefix(y, j)
           k == Cell(x, y, i - 1, j - 1)
           m == Most(i, j)
<1>1. Len(x) \in Nat /\ Len(y) \in Nat /\ i \in 0..Len(x) /\ j \in 0..Len(y) /\ i - 1 \in 0..Len(x) /\ j - 1 \in 0..Len(y)
  BY DEF Words
<1>2. a \in Words /\ b \in Words /\ v \in Words /\ w \in Words /\ Len(w) = j
  BY <1>1, PrefixOf
<1>3. a = Append(b, x[i]) /\ w = Append(v, y[j]) /\ x[i] \in Nat /\ y[j] \in Nat /\ y[j] \in Range(y)
  BY PrefixGrows, LettersOf
<1>4. Most(i - 1, j - 1) \in Nat /\ m \in Nat /\ Most(i - 1, j - 1) + 1 = m /\ j <= m
  BY <1>1 DEF Most
<1>5. k \in Nat
  BY <1>1, CellType
<1>6. v \in Made(b, Range(y), Most(i - 1, j - 1), k)
  BY DEF Reaches
<1>7. Cell(x, y, i, j) = k + 1 \/ (Cell(x, y, i, j) = k /\ x[i] = y[j])
  OBVIOUS
<1> HIDE DEF a, b, v, w, k, m
<1>8. Append(v, x[i]) \in Made(a, Range(y), m, k)
  <2>1. Append(v, x[i]) \in Made(Append(b, x[i]), Range(y), Most(i - 1, j - 1) + 1, k)
    BY <1>2, <1>3, <1>4, <1>5, <1>6, WithinAppended, LettersOf
  <2> QED BY <1>3, <1>4, <2>1
<1>9. CASE Cell(x, y, i, j) = k + 1
  <2>1. w \in OneEdit(Append(v, x[i]), Range(y))
    BY <1>2, <1>3, EditsAtEnd, LettersOf
  <2>2. w \in Made(a, Range(y), m, k + 1)
    BY <1>2, <1>4, <1>5, <1>8, <2>1, WithinLast, LettersOf
  <2> QED BY <1>9, <2>2 DEF a, w, m, Reaches
<1>10. CASE Cell(x, y, i, j) = k /\ x[i] = y[j]
  BY <1>3, <1>8, <1>10 DEF a, w, m, Reaches
<1> QED BY <1>7, <1>9, <1>10

\* Every cell is reached, and none is more than the longer word has letters.
LEMMA CellsReached ==
  ASSUME NEW x \in Words, NEW y \in Words
  PROVE  \A i \in 0..Len(x), j \in 0..Len(y) : Reaches(x, y, i, j) /\ Cell(x, y, i, j) <= Most(i, j)
<1> DEFINE P == (0..Len(x)) \X (0..Len(y))
           T == {q \in P : Reaches(x, y, q[1], q[2]) /\ Cell(x, y, q[1], q[2]) <= Most(q[1], q[2])}
<1>1. Len(x) \in Nat /\ Len(y) \in Nat
  BY DEF Words
<1>2. ASSUME NEW i \in 0..Len(x), NEW j \in 0..Len(y),
             \A k \in 0..i, l \in 0..j : k + l < i + j => <<k, l>> \in T
      PROVE  <<i, j>> \in T
  <2> SUFFICES Reaches(x, y, i, j) /\ Cell(x, y, i, j) <= Most(i, j)
    OBVIOUS
  <2>1. CASE i = 0 /\ j = 0
    <3> HIDE DEF T
    <3>1. Cell(x, y, 0, 0) = 0
      BY <1>1, Edges
    <3>2. Prefix(x, 0) \in Words /\ Prefix(y, 0) \in Words /\ Len(Prefix(x, 0)) = 0 /\ Len(Prefix(y, 0)) = 0
      BY <1>1, PrefixOf
    <3>3. Prefix(x, 0) = Prefix(y, 0)
      <4>1. \A k \in 1..0 : Prefix(x, 0)[k] = Prefix(y, 0)[k]
        OBVIOUS
      <4> QED BY <3>2, <4>1, SameLetters
    <3>4. Most(0, 0) = 0
      BY DEF Most
    <3>5. Prefix(y, 0) \in Made(Prefix(x, 0), Range(y), 0, 0)
      BY <3>2, <3>3, WithinNone, LettersOf
    <3> QED BY <2>1, <3>1, <3>4, <3>5 DEF Reaches
  <2>2. CASE i # 0 /\ j = 0
    <3>1. i - 1 \in 0..i /\ (i - 1) + j < i + j /\ j \in 0..j /\ i \in 1..Len(x)
      BY <1>1, <2>2
    <3>2. <<i - 1, j>> \in T
      <4> HIDE DEF T
      <4> QED BY <1>2, <3>1
    <3>3. Reaches(x, y, i - 1, j)
      BY <3>2
    <3> HIDE DEF T
    <3>4. Cell(x, y, i, j) = i /\ Cell(x, y, i - 1, j) = i - 1
      BY <1>1, <2>2, Edges
    <3>5. Most(i, j) = i
      BY <2>2 DEF Most
    <3>6. Cell(x, y, i, j) = Cell(x, y, i - 1, j) + 1
      BY <1>1, <3>4
    <3>7. Reaches(x, y, i, j)
      BY <3>1, <3>3, <3>6, ReachDown
    <3> QED BY <1>1, <3>4, <3>5, <3>7
  <2>3. CASE i = 0 /\ j # 0
    <3>1. j - 1 \in 0..j /\ i + (j - 1) < i + j /\ i \in 0..i /\ j \in 1..Len(y)
      BY <1>1, <2>3
    <3>2. <<i, j - 1>> \in T
      <4> HIDE DEF T
      <4> QED BY <1>2, <3>1
    <3>3. Reaches(x, y, i, j - 1)
      BY <3>2
    <3> HIDE DEF T
    <3>4. Cell(x, y, i, j) = j /\ Cell(x, y, i, j - 1) = j - 1
      BY <1>1, <2>3, Edges
    <3>5. Most(i, j) = j
      BY <2>3 DEF Most
    <3>6. Cell(x, y, i, j) = Cell(x, y, i, j - 1) + 1
      BY <1>1, <3>4
    <3>7. Reaches(x, y, i, j)
      BY <3>1, <3>3, <3>6, ReachRight
    <3> QED BY <1>1, <3>4, <3>5, <3>7
  <2>4. CASE i # 0 /\ j # 0
    <3>1. i - 1 \in 0..i /\ j - 1 \in 0..j /\ i \in 0..i /\ j \in 0..j /\ i \in 1..Len(x) /\ j \in 1..Len(y)
      BY <1>1, <2>4
    <3>2. <<i - 1, j>> \in T /\ <<i, j - 1>> \in T /\ <<i - 1, j - 1>> \in T
      <4> HIDE DEF T
      <4>1. (i - 1) + j < i + j /\ i + (j - 1) < i + j /\ (i - 1) + (j - 1) < i + j
        BY <1>1, <2>4
      <4> QED BY <1>2, <3>1, <4>1
    <3>3. /\ Reaches(x, y, i - 1, j) /\ Reaches(x, y, i, j - 1) /\ Reaches(x, y, i - 1, j - 1)
          /\ Cell(x, y, i - 1, j - 1) <= Most(i - 1, j - 1)
      BY <3>2
    <3> HIDE DEF T
    <3>4. Adjoins(Cell(x, y, i, j), Cell(x, y, i - 1, j), Cell(x, y, i, j - 1), Cell(x, y, i - 1, j - 1), x[i], y[j])
      BY <3>1, Inner
    <3>5. Reaches(x, y, i, j)
      <4>1. CASE Cell(x, y, i, j) = Cell(x, y, i - 1, j) + 1
        BY <3>1, <3>3, <4>1, ReachDown
      <4>2. CASE Cell(x, y, i, j) = Cell(x, y, i, j - 1) + 1
        BY <3>1, <3>3, <4>2, ReachRight
      <4>3. CASE \/ Cell(x, y, i, j) = Cell(x, y, i - 1, j - 1) + 1
                 \/ Cell(x, y, i, j) = Cell(x, y, i - 1, j - 1) /\ x[i] = y[j]
        BY <3>1, <3>3, <4>3, ReachAcross
      <4> QED BY <3>4, <4>1, <4>2, <4>3 DEF Adjoins
    <3>6. Cell(x, y, i, j) <= Most(i, j)
      <4>1. Most(i, j) = Most(i - 1, j - 1) + 1 /\ Most(i - 1, j - 1) \in Nat
        BY <1>1, <2>4 DEF Most
      <4>2. /\ Cell(x, y, i, j) \in Nat /\ Cell(x, y, i - 1, j - 1) \in Nat
            /\ Cell(x, y, i, j) <= Cell(x, y, i - 1, j - 1) + 1
        BY <3>4 DEF Adjoins
      <4> QED BY <3>3, <4>1, <4>2
    <3> QED BY <3>5, <3>6
  <2> QED BY <2>1, <2>2, <2>3, <2>4
<1>3. \A i \in 0..Len(x), j \in 0..Len(y) : <<i, j>> \in T
  <2> HIDE DEF T
  <2>1. \A i \in 0..Len(x), j \in 0..Len(y) :
          (\A k \in 0..i, l \in 0..j : k + l < i + j => <<k, l>> \in T) => <<i, j>> \in T
    BY <1>2
  <2> QED BY <1>1, <2>1, GridInduction
<1> QED BY <1>3

\* The last cell is the least number of edits that lead from x to y: the two
\* rolling rows of levenshtein_distance lose nothing, for words of any length.
THEOREM DistanceExact ==
  ASSUME NEW x \in Words, NEW y \in Words
  PROVE  Distance(x, y) = EditDistance(x, y)
<1> DEFINE m == Most(Len(x), Len(y))
           K == {k \in 0..m : y \in Within(x, Range(y), m)[k]}
           d == Distance(x, y)
<1>1. Len(x) \in Nat /\ Len(y) \in Nat /\ m \in Nat
  BY DEF Words, Most
<1>2. Len(x) \in 0..Len(x) /\ Len(y) \in 0..Len(y)
  BY <1>1
<1>3. d \in Nat
  BY DistanceType
<1>4. d \in K
  <2>1. Reaches(x, y, Len(x), Len(y)) /\ Cell(x, y, Len(x), Len(y)) <= Most(Len(x), Len(y))
    BY <1>2, CellsReached
  <2>2. y \in Made(x, Range(y), m, d) /\ d <= m
    BY <1>1, <2>1, PrefixWhole DEF Reaches, Distance
  <2> QED BY <1>1, <1>3, <2>2 DEF Made
<1>5. ASSUME NEW k \in K PROVE d <= k
  <2>1. k \in Nat /\ y \in Made(x, Range(y), m, k)
    BY <1>1 DEF Made
  <2> HIDE DEF m, K, d
  <2>2. Distance(x, y) <= k
    BY <1>1, <2>1, WithinDistance, LettersOf
  <2> QED BY <2>2 DEF d
<1>6. EditDistance(x, y) = Min(K)
  BY DEF EditDistance
<1>7. K \subseteq Nat
  BY <1>1
<1> HIDE DEF K, d
<1>8. Min(K) = d
  <2>1. Min(K) = CHOOSE k \in K : \A l \in K : k =< l
    BY DEF Min
  <2>2. \E k \in K : \A l \in K : k =< l
    BY <1>4, <1>5
  <2>3. Min(K) \in K /\ \A l \in K : Min(K) =< l
    BY <2>1, <2>2
  <2>4. Min(K) <= d /\ d <= Min(K) /\ Min(K) \in Nat
    BY <1>4, <1>5, <1>7, <2>3
  <2> QED BY <1>3, <2>4
<1> QED BY <1>6, <1>8 DEF d

-----------------------------------------------------------------------------
(* Scores *)

\* A word in lower case is one.
LEMMA FoldedOf == ASSUME NEW s \in Words PROVE Folded(s) \in Words
BY WordsAssumption DEF Folded, Words

\* The distance the code computes is the least number of edits between the
\* folded words.
LEMMA LevenshteinExact ==
  ASSUME NEW a \in Words, NEW b \in Words
  PROVE  /\ LevenshteinDistance(a, b) \in Nat
         /\ LevenshteinDistance(a, b) = EditDistance(Folded(a), Folded(b))
<1>1. Folded(a) \in Words /\ Folded(b) \in Words
  BY FoldedOf
<1>2. LevenshteinDistance(a, b) = Distance(Folded(a), Folded(b))
  BY DEF LevenshteinDistance, Distance, Cell
<1> QED BY <1>1, <1>2, DistanceType, DistanceExact

\* A bounded set of natural numbers has a largest.
LEMMA MaxOf ==
  ASSUME NEW N \in Nat, NEW S \in SUBSET (0..N), S # {}
  PROVE  Max(S) \in S
<1> DEFINE T == {N - n : n \in S}
<1>1. T \in SUBSET Nat /\ T # {}
  <2>1. \A n \in S : N - n \in Nat
    OBVIOUS
  <2> QED BY <2>1
<1>2. PICK t \in T : \A u \in T : t <= u
  <2> HIDE DEF T
  <2> QED BY <1>1, ByCells!LeastNatural
<1>3. PICK n \in S : t = N - n
  OBVIOUS
<1>4. ASSUME NEW m \in S PROVE n >= m
  <2>1. N - m \in T /\ n \in Nat /\ m \in Nat
    OBVIOUS
  <2>2. N - n <= N - m
    BY <1>2, <1>3, <2>1
  <2> QED BY <2>1, <2>2
<1>5. Max(S) = CHOOSE x \in S : \A y \in S : x >= y
  BY DEF Max
<1> QED BY <1>4, <1>5

\* Words have a first part in common, if only the empty one.
LEMMA CommonPrefixType ==
  ASSUME NEW u \in Words, NEW c \in Words
  PROVE  CommonPrefix(u, c) \in Nat
<1> DEFINE N == Least(Len(Folded(u)), Len(Folded(c)))
           S == {n \in 0..N : SubSeq(Folded(u), 1, n) = SubSeq(Folded(c), 1, n)}
<1>1. N \in Nat
  BY FoldedOf DEF Words, Least
<1>2. Folded(u) \in Words /\ Folded(c) \in Words /\ 0 \in 0..Len(Folded(u)) /\ 0 \in 0..Len(Folded(c))
  BY FoldedOf DEF Words
<1>3. Prefix(Folded(u), 0) = Prefix(Folded(c), 0)
  <2>1. /\ Prefix(Folded(u), 0) \in Words /\ Len(Prefix(Folded(u), 0)) = 0
        /\ Prefix(Folded(c), 0) \in Words /\ Len(Prefix(Folded(c), 0)) = 0
    BY <1>2, PrefixOf
  <2>2. \A k \in 1..0 : Prefix(Folded(u), 0)[k] = Prefix(Folded(c), 0)[k]
    OBVIOUS
  <2> QED BY <2>1, <2>2, SameLetters
<1>4. 0 \in S
  BY <1>1, <1>3 DEF Prefix
<1>5. CommonPrefix(u, c) = Max(S)
  BY DEF CommonPrefix
<1>6. S \in SUBSET (0..N)
  OBVIOUS
<1> HIDE DEF S, N
<1>7. Max(S) \in S
  BY <1>1, <1>4, <1>6, MaxOf
<1>8. Max(S) \in 0..N
  BY <1>6, <1>7
<1> QED BY <1>1, <1>5, <1>8

\* A word takes at least as many bytes as it has letters, if only none.
LEMMA BytesType ==
  ASSUME NEW s \in Words
  PROVE  Bytes(s) \in Nat
<1> DEFINE T == {0, 128, 2048, 65536}
           N == 65536
           P == (1..Len(s)) \X T
           B == {b \in P : s[b[1]] >= b[2]}
<1>1. IsFiniteSet(1..Len(s))
  BY FS_Interval DEF Words
<1>2. IsFiniteSet(T)
  <2>1. T \in SUBSET (0..N) /\ N \in Int
    OBVIOUS
  <2> HIDE DEF T, N
  <2>2. IsFiniteSet(0..N)
    BY <2>1, FS_Interval
  <2> QED BY <2>1, <2>2, FS_Subset
<1>3. IsFiniteSet(P)
  <2> HIDE DEF T
  <2> QED BY <1>1, <1>2, FS_Product
<1>4. Bytes(s) = Cardinality(B) /\ B \in SUBSET P
  BY DEF Bytes
<1> HIDE DEF B, P, T
<1> QED BY <1>3, <1>4, FS_Subset, FS_CardinalityType

LEMMA MaxLenType ==
  ASSUME NEW u \in Words, NEW c \in Words
  PROVE  MaxLen(u, c) \in Nat
BY BytesType DEF MaxLen, Most

\* An ASCII word takes a byte for each letter.
LEMMA AsciiBytes ==
  ASSUME NEW s \in Words, Ascii(s)
  PROVE  Bytes(s) = Len(s)
<1> DEFINE B == {b \in (1..Len(s)) \X {0, 128, 2048, 65536} : s[b[1]] >= b[2]}
<1>1. Len(s) \in Nat /\ DOMAIN s = 1..Len(s) /\ \A i \in 1..Len(s) : s[i] \in Nat /\ s[i] < 128
  BY DEF Words, Ascii
<1>2. B = (1..Len(s)) \X {0}
  BY <1>1
<1>3. IsFiniteSet(1..Len(s)) /\ Cardinality(1..Len(s)) = Len(s)
  <2>1. \A n \in Nat : IsFiniteSet(1..n) /\ Cardinality(1..n) = n
    BY FS_Interval
  <2> QED BY <1>1, <2>1, Zenon
<1>4. IsFiniteSet({0}) /\ Cardinality({0}) = 1
  BY FS_Singleton
<1>5. Cardinality((1..Len(s)) \X {0}) = Len(s) * 1
  <2>1. Cardinality((1..Len(s)) \X {0}) = Cardinality(1..Len(s)) * Cardinality({0})
    BY <1>3, <1>4, FS_Product, Zenon
  <2> QED BY <1>3, <1>4, <2>1
<1>6. Bytes(s) = Cardinality(B)
  BY DEF Bytes
<1> HIDE DEF B
<1>7. Len(s) * 1 = Len(s)
  <2>1. \A n \in Nat : n * 1 = n
    OBVIOUS
  <2> QED BY <1>1, <2>1, Zenon
<1> QED BY <1>2, <1>5, <1>6, <1>7

\* No cut falls inside a letter of an ASCII word.
LEMMA AsciiSliceable ==
  ASSUME NEW s \in Words, Ascii(s)
  PROVE  Sliceable(s)
<1> SUFFICES ASSUME ~(Bytes(s) < SuffixLength) PROVE Tails(s) # {}
  BY DEF Sliceable
<1> DEFINE n == SuffixLength
           m == Len(s) - n + 1
           t == SubSeq(s, m, Len(s))
<1>1. Len(s) \in Nat /\ DOMAIN s = 1..Len(s) /\ \A i \in 1..Len(s) : s[i] \in Nat /\ s[i] < 128
  BY DEF Words, Ascii
<1>2. n \in Nat /\ n <= Len(s) /\ m \in 1..(Len(s) + 1)
  BY <1>1, AsciiBytes, WordsAssumption
<1>3. /\ t \in Words /\ Len(t) = n
      /\ \A i \in 1..n : t[i] = s[m + i - 1]
  <2>1. \A i \in m..Len(s) : s[i] \in Nat
    BY <1>1, <1>2
  <2>2. /\ SubSeq(s, m, Len(s)) \in Seq(Nat)
        /\ Len(SubSeq(s, m, Len(s))) = IF m <= Len(s) THEN Len(s) - m + 1 ELSE 0
        /\ \A i \in 1..(Len(s) - m + 1) : SubSeq(s, m, Len(s))[i] = s[m + i - 1]
    BY <1>1, <1>2, <2>1, SubSeqProperties
  <2> QED BY <1>1, <1>2, <2>2 DEF Words
<1>4. t \in Suffixes(s)
  <2>1. CASE m \in 1..Len(s)
    BY <2>1 DEF Suffixes
  <2>2. CASE m = Len(s) + 1
    <3>1. t = <<>>
      BY <1>1, <2>2, SubSeqEmpty
    <3> QED BY <3>1 DEF Suffixes
  <2> QED BY <1>1, <1>2, <2>1, <2>2
<1> HIDE DEF t
<1>5. Ascii(t)
  <2>1. DOMAIN t = 1..n
    BY <1>3 DEF Words
  <2>2. ASSUME NEW i \in 1..n PROVE t[i] < 128
    <3>1. m + i - 1 \in 1..Len(s)
      BY <1>1, <1>2
    <3> QED BY <1>1, <1>3, <3>1
  <2> QED BY <2>1, <2>2 DEF Ascii
<1>6. Bytes(t) = n
  BY <1>3, <1>5, AsciiBytes
<1> QED BY <1>4, <1>6 DEF Tails

\* A fraction that is not negative.
IsScore(s) == s.num \in Nat /\ s.den \in Nat /\ s.den > 0

\* The score of a candidate is one: two empty words do not differ.
LEMMA ScoreType ==
  ASSUME NEW u \in Words, NEW c \in Words, Candidate(u, c)
  PROVE  IsScore(SimilarityScore(u, c))
<1> DEFINE d == LevenshteinDistance(u, c)
           len == MaxLen(u, c)
           p == CommonPrefix(u, c)
           t == TokenSimilarityBoost(u, c)
           num == 20 * d - 10 * p - t * len
<1>1. len \in Nat
  BY MaxLenType
<1>2. d \in Nat
  BY LevenshteinExact
<1>3. p \in Nat
  BY CommonPrefixType
<1>4. t \in Nat
  BY DEF TokenSimilarityBoost
<1>5. d # 0 /\ 100 * d <= 65 * len
  BY DEF Candidate
<1>6. SimilarityScore(u, c) = [num |-> IF num > 0 THEN num ELSE 0, den |-> 20 * len]
  BY DEF SimilarityScore
<1> HIDE DEF d, len, p, t
<1>7. t * len \in Nat
  BY <1>1, <1>4
<1>8. num \in Int
  BY <1>2, <1>3, <1>7
<1>9. 20 * len \in Nat /\ 20 * len > 0
  BY <1>1, <1>2, <1>5
<1> HIDE DEF num
<1> QED BY <1>6, <1>8, <1>9 DEF IsScore

\* At least as good as one that is at least as good as a third.
LEMMA BetterTransitive ==
  ASSUME NEW r, NEW s, NEW t, IsScore(r), IsScore(s), IsScore(t), ~Better(s, r), ~Better(t, s)
  PROVE  ~Better(t, r)
<1> DEFINE a == r.num
           b == r.den
           c == s.num
           d == s.den
           e == t.num
           f == t.den
<1>1. a \in Nat /\ b \in Nat /\ c \in Nat /\ d \in Nat /\ e \in Nat /\ f \in Nat /\ b > 0 /\ d > 0 /\ f > 0
  BY DEF IsScore
<1>2. ~(c * b < a * d) /\ ~(e * d < c * f)
  BY DEF Better
<1> HIDE DEF a, b, c, d, e, f
<1>3. a * d <= c * b /\ c * f <= e * d
  BY <1>1, <1>2
<1>4. a * f <= e * b
  BY <1>1, <1>3
<1>5. ~(e * b < a * f)
  BY <1>1, <1>4
<1> QED BY <1>5 DEF Better, a, b, e, f

\* Of two scores one is not better.
LEMMA BetterOneWay ==
  ASSUME NEW r, NEW s, IsScore(r), IsScore(s)
  PROVE  ~(Better(r, s) /\ Better(s, r))
<1>1. r.num * s.den \in Nat /\ s.num * r.den \in Nat
  BY DEF IsScore
<1> QED BY <1>1 DEF Better

-----------------------------------------------------------------------------
(* The order of the ids *)

\* The letter at n decides that a stands before b.
Decides(a, b, n) ==
  /\ n \in 1..Len(b) /\ Len(a) >= n - 1 /\ \A i \in 1..(n - 1) : a[i] = b[i]
  /\ Len(a) = n - 1 \/ (n \in 1..Len(a) /\ a[n] < b[n])

\* An id stands before another exactly if a letter decides it.
LEMMA BeforeDecides ==
  ASSUME NEW a \in Words, NEW b \in Words
  PROVE  IdBefore(a, b) <=> \E n \in Nat : Decides(a, b, n)
<1>1. Len(a) \in Nat /\ Len(b) \in Nat
  BY DEF Words
<1>2. ASSUME IdBefore(a, b) PROVE \E n \in Nat : Decides(a, b, n)
  <2>1. PICK n \in 1..Len(b) :
          /\ Len(a) >= n - 1 /\ \A i \in 1..(n - 1) : a[i] = b[i]
          /\ Len(a) = n - 1 \/ a[n] < b[n]
    BY <1>2 DEF IdBefore
  <2>2. n \in Nat /\ (Len(a) = n - 1 \/ n \in 1..Len(a))
    BY <1>1, <2>1
  <2>3. Decides(a, b, n)
    BY <2>1, <2>2 DEF Decides
  <2> QED BY <2>2, <2>3
<1>3. ASSUME NEW n \in Nat, Decides(a, b, n) PROVE IdBefore(a, b)
  BY <1>3 DEF Decides, IdBefore
<1> QED BY <1>2, <1>3

\* No id stands before itself.
LEMMA NotBeforeItself == ASSUME NEW a \in Words PROVE ~IdBefore(a, a)
<1>1. Len(a) \in Nat /\ \A n \in 1..Len(a) : a[n] \in Nat
  BY DEF Words
<1>2. ASSUME NEW n \in Nat, Decides(a, a, n) PROVE FALSE
  <2>1. n \in 1..Len(a) /\ (Len(a) = n - 1 \/ a[n] < a[n])
    BY <1>2 DEF Decides
  <2>2. a[n] \in Nat
    BY <1>1, <2>1
  <2> QED BY <1>1, <2>1, <2>2
<1> QED BY <1>2, BeforeDecides

\* An id before one before a third: the first letter that decides of the two.
LEMMA BeforeTransitive ==
  ASSUME NEW a \in Words, NEW b \in Words, NEW c \in Words, IdBefore(a, b), IdBefore(b, c)
  PROVE  IdBefore(a, c)
<1>1. PICK n \in Nat : Decides(a, b, n)
  BY BeforeDecides
<1>2. PICK m \in Nat : Decides(b, c, m)
  BY BeforeDecides
<1>3. /\ n \in 1..Len(b) /\ Len(a) >= n - 1 /\ \A i \in 1..(n - 1) : a[i] = b[i]
      /\ Len(a) = n - 1 \/ (n \in 1..Len(a) /\ a[n] < b[n])
  BY <1>1 DEF Decides
<1>4. /\ m \in 1..Len(c) /\ Len(b) >= m - 1 /\ \A i \in 1..(m - 1) : b[i] = c[i]
      /\ Len(b) = m - 1 \/ (m \in 1..Len(b) /\ b[m] < c[m])
  BY <1>2 DEF Decides
<1>5. Len(a) \in Nat /\ Len(b) \in Nat /\ Len(c) \in Nat
  BY DEF Words
<1>6. CASE n < m
  <2>1. n \in 1..Len(c) /\ n \in 1..(m - 1) /\ \A i \in 1..(n - 1) : i \in 1..(m - 1)
    BY <1>3, <1>4, <1>5, <1>6
  <2>2. b[n] = c[n] /\ \A i \in 1..(n - 1) : a[i] = c[i]
    BY <1>3, <1>4, <2>1
  <2>3. Decides(a, c, n)
    BY <1>3, <2>1, <2>2 DEF Decides
  <2> QED BY <2>3, BeforeDecides
<1>7. CASE m < n
  <2>1. m \in 1..(n - 1) /\ m \in 1..Len(a) /\ Len(b) # m - 1 /\ \A i \in 1..(m - 1) : i \in 1..(n - 1)
    BY <1>3, <1>4, <1>5, <1>7
  <2>2. a[m] = b[m] /\ \A i \in 1..(m - 1) : a[i] = c[i]
    BY <1>3, <1>4, <2>1
  <2>3. a[m] < c[m] /\ Len(a) >= m - 1
    BY <1>4, <1>5, <2>1, <2>2
  <2>4. Decides(a, c, m)
    BY <1>4, <2>1, <2>2, <2>3 DEF Decides
  <2> QED BY <2>4, BeforeDecides
<1>8. CASE m = n
  <2>1. b[n] \in Nat /\ c[n] \in Nat /\ b[n] < c[n]
    <3>1. n \in 1..Len(b) /\ n \in 1..Len(c) /\ Len(b) # n - 1
      BY <1>3, <1>4, <1>5, <1>8
    <3>2. b[n] \in Nat /\ c[n] \in Nat
      BY <3>1 DEF Words
    <3> QED BY <1>4, <1>8, <3>1, <3>2
  <2>2. Len(a) = n - 1 \/ (n \in 1..Len(a) /\ a[n] < c[n])
    <3>1. CASE n \in 1..Len(a) /\ a[n] < b[n]
      <4>1. a[n] \in Nat
        BY <3>1 DEF Words
      <4> QED BY <2>1, <3>1, <4>1
    <3> QED BY <1>3, <3>1
  <2>3. \A i \in 1..(n - 1) : a[i] = c[i]
    BY <1>3, <1>4, <1>8
  <2>4. Decides(a, c, n)
    BY <1>3, <1>4, <1>8, <2>2, <2>3 DEF Decides
  <2> QED BY <2>4, BeforeDecides
<1> QED BY <1>6, <1>7, <1>8

\* Of two ids one stands before the other.
LEMMA BeforeTotal ==
  ASSUME NEW a \in Words, NEW b \in Words, a # b
  PROVE  IdBefore(a, b) \/ IdBefore(b, a)
<1>1. Len(a) \in Nat /\ Len(b) \in Nat
  BY DEF Words
<1> DEFINE N == {n \in 1..Len(a) : n \in 1..Len(b) /\ a[n] # b[n]}
<1>2. CASE N = {}
  <2>1. \A n \in 1..Len(a) : n \in 1..Len(b) => a[n] = b[n]
    BY <1>2
  <2>2. Len(a) # Len(b)
    <3>1. ASSUME Len(a) = Len(b) PROVE a = b
      BY <2>1, <3>1, SameLetters
    <3> QED BY <3>1
  <2>3. CASE Len(a) < Len(b)
    <3>1. /\ Len(a) + 1 \in Nat /\ Len(a) + 1 \in 1..Len(b) /\ Len(a) = (Len(a) + 1) - 1
          /\ \A i \in 1..((Len(a) + 1) - 1) : i \in 1..Len(a) /\ i \in 1..Len(b)
      BY <1>1, <2>3
    <3>2. Decides(a, b, Len(a) + 1)
      BY <1>1, <2>1, <3>1 DEF Decides
    <3> QED BY <3>1, <3>2, BeforeDecides
  <2>4. CASE Len(b) < Len(a)
    <3>1. /\ Len(b) + 1 \in Nat /\ Len(b) + 1 \in 1..Len(a) /\ Len(b) = (Len(b) + 1) - 1
          /\ \A i \in 1..((Len(b) + 1) - 1) : i \in 1..Len(a) /\ i \in 1..Len(b)
      BY <1>1, <2>4
    <3>2. Decides(b, a, Len(b) + 1)
      BY <1>1, <2>1, <3>1 DEF Decides
    <3> QED BY <3>1, <3>2, BeforeDecides
  <2> QED BY <1>1, <2>2, <2>3, <2>4
<1>3. CASE N # {}
  <2>1. N \in SUBSET Nat
    OBVIOUS
  <2>2. PICK n \in N : \A m \in N : n <= m
    <3> HIDE DEF N
    <3> QED BY <1>3, <2>1, ByCells!LeastNatural
  <2>3. n \in 1..Len(a) /\ n \in 1..Len(b) /\ a[n] # b[n] /\ n \in Nat
    OBVIOUS
  <2>4. ASSUME NEW i \in 1..(n - 1) PROVE a[i] = b[i]
    <3>1. i \in 1..Len(a) /\ i \in 1..Len(b) /\ ~(n <= i)
      BY <1>1, <2>3
    <3> QED BY <2>2, <3>1
  <2>5. a[n] \in Nat /\ b[n] \in Nat
    BY <2>3 DEF Words
  <2> HIDE DEF N
  <2>6. Len(a) >= n - 1 /\ Len(b) >= n - 1
    BY <1>1, <2>3
  <2>7. CASE a[n] < b[n]
    <3>1. Decides(a, b, n)
      BY <2>3, <2>4, <2>6, <2>7 DEF Decides
    <3> QED BY <2>3, <3>1, BeforeDecides
  <2>8. CASE b[n] < a[n]
    <3>1. Decides(b, a, n)
      BY <2>3, <2>4, <2>6, <2>8 DEF Decides
    <3> QED BY <2>3, <3>1, BeforeDecides
  <2> QED BY <2>3, <2>5, <2>7, <2>8
<1> QED BY <1>2, <1>3

-----------------------------------------------------------------------------
(* The ranking *)

\* The candidates are finitely many words, and have scores.
LEMMA CandidatesOf ==
  ASSUME NEW u \in Words
  PROVE  /\ IsFiniteSet(Candidates(u)) /\ Cardinality(Candidates(u)) \in Nat
         /\ \A c \in Candidates(u) : c \in Words /\ IsScore(SimilarityScore(u, c))
<1>1. Candidates(u) \in SUBSET Catalogued /\ IsFiniteSet(Catalogued) /\ Catalogued \subseteq Words
  BY WordsAssumption DEF Candidates, Words
<1>2. IsFiniteSet(Candidates(u))
  BY <1>1, FS_Subset
<1>3. ASSUME NEW c \in Candidates(u) PROVE c \in Words /\ IsScore(SimilarityScore(u, c))
  <2>1. c \in Words /\ Candidate(u, c)
    BY <1>1 DEF Candidates
  <2> QED BY <2>1, ScoreType
<1> QED BY <1>2, <1>3, FS_CardinalityType

\* No candidate ranks before itself.
LEMMA NotRankedItself ==
  ASSUME NEW u \in Words, NEW a \in Candidates(u)
  PROVE  ~Ranked(u, a, a)
<1>1. a \in Words /\ IsScore(SimilarityScore(u, a))
  BY CandidatesOf
<1> QED BY <1>1, BetterOneWay, NotBeforeItself DEF Ranked

\* A candidate ranks before those that rank after one it ranks before.
LEMMA RankedTransitive ==
  ASSUME NEW u \in Words, NEW a \in Candidates(u), NEW b \in Candidates(u), NEW c \in Candidates(u),
         Ranked(u, a, b), Ranked(u, b, c)
  PROVE  Ranked(u, a, c)
<1> DEFINE r == SimilarityScore(u, a)
           s == SimilarityScore(u, b)
           t == SimilarityScore(u, c)
<1>1. a \in Words /\ b \in Words /\ c \in Words /\ IsScore(r) /\ IsScore(s) /\ IsScore(t)
  BY CandidatesOf
<1>2. /\ Better(r, s) \/ (~Better(s, r) /\ IdBefore(a, b))
      /\ Better(s, t) \/ (~Better(t, s) /\ IdBefore(b, c))
  BY DEF Ranked
<1> HIDE DEF r, s, t
<1>3. ~Better(s, r) /\ ~Better(t, s)
  BY <1>1, <1>2, BetterOneWay
<1>4. ~Better(t, r)
  BY <1>1, <1>3, BetterTransitive
<1>5. CASE Better(r, s)
  <2>1. Better(r, t)
    BY <1>1, <1>3, <1>5, BetterTransitive
  <2> QED BY <2>1 DEF Ranked, r, t
<1>6. CASE Better(s, t)
  <2>1. Better(r, t)
    BY <1>1, <1>3, <1>6, BetterTransitive
  <2> QED BY <2>1 DEF Ranked, r, t
<1>7. CASE IdBefore(a, b) /\ IdBefore(b, c)
  <2>1. IdBefore(a, c)
    BY <1>1, <1>7, BeforeTransitive
  <2> QED BY <1>4, <2>1 DEF Ranked, r, t
<1> QED BY <1>2, <1>5, <1>6, <1>7

\* Of two candidates one ranks before the other.
LEMMA RankedTotal ==
  ASSUME NEW u \in Words, NEW a \in Candidates(u), NEW b \in Candidates(u), a # b
  PROVE  Ranked(u, a, b) \/ Ranked(u, b, a)
<1>1. a \in Words /\ b \in Words
  BY CandidatesOf
<1>2. IdBefore(a, b) \/ IdBefore(b, a)
  BY <1>1, BeforeTotal
<1> QED BY <1>2 DEF Ranked

\* The place of a candidate is that of one of them.
LEMMA PlaceType ==
  ASSUME NEW u \in Words, NEW c \in Candidates(u)
  PROVE  Place(u, c) \in 0..(Cardinality(Candidates(u)) - 1)
<1> DEFINE C == Candidates(u)
           A == {d \in C : Ranked(u, d, c)}
<1>1. IsFiniteSet(C) /\ Cardinality(C) \in Nat
  BY CandidatesOf
<1>2. A \in SUBSET C /\ c \in C /\ c \notin A
  BY NotRankedItself
<1>3. Place(u, c) = Cardinality(A)
  BY DEF Place
<1> HIDE DEF A, C
<1>4. IsFiniteSet(A) /\ Cardinality(A) <= Cardinality(C) /\ (Cardinality(C) = Cardinality(A) => C = A)
  BY <1>1, <1>2, FS_Subset
<1>5. Cardinality(A) \in Nat /\ Cardinality(A) # Cardinality(C)
  BY <1>2, <1>4, FS_CardinalityType
<1>6. Cardinality(A) \in 0..(Cardinality(C) - 1)
  BY <1>1, <1>4, <1>5
<1> QED BY <1>3, <1>6 DEF C

\* The candidates have their places in the order of the ranking.
LEMMA PlaceOrder ==
  ASSUME NEW u \in Words, NEW a \in Candidates(u), NEW b \in Candidates(u), Ranked(u, a, b)
  PROVE  Place(u, a) < Place(u, b)
<1> DEFINE C == Candidates(u)
           A == {d \in C : Ranked(u, d, a)}
           B == {d \in C : Ranked(u, d, b)}
<1>1. IsFiniteSet(C)
  BY CandidatesOf
<1>2. A \in SUBSET B
  BY RankedTransitive
<1>3. a \in B /\ a \notin A
  BY NotRankedItself
<1>4. B \in SUBSET C
  OBVIOUS
<1>5. Place(u, a) = Cardinality(A) /\ Place(u, b) = Cardinality(B)
  BY DEF Place
<1> HIDE DEF A, B, C
<1>6. IsFiniteSet(B)
  BY <1>1, <1>4, FS_Subset
<1>7. IsFiniteSet(A) /\ Cardinality(A) <= Cardinality(B) /\ (Cardinality(B) = Cardinality(A) => B = A)
  BY <1>2, <1>6, FS_Subset
<1>8. Cardinality(A) \in Nat /\ Cardinality(B) \in Nat /\ Cardinality(A) # Cardinality(B)
  BY <1>3, <1>6, <1>7, FS_CardinalityType
<1> QED BY <1>5, <1>7, <1>8

\* No two candidates share a place.
LEMMA PlaceOnce ==
  ASSUME NEW u \in Words, NEW a \in Candidates(u), NEW b \in Candidates(u), Place(u, a) = Place(u, b)
  PROVE  a = b
<1> SUFFICES ASSUME a # b PROVE FALSE
  OBVIOUS
<1>1. Place(u, a) < Place(u, b) \/ Place(u, b) < Place(u, a)
  BY RankedTotal, PlaceOrder
<1>2. Place(u, a) \in Int /\ Place(u, b) \in Int
  BY PlaceType
<1> QED BY <1>1, <1>2

\* Every place is taken.
LEMMA PlaceTaken ==
  ASSUME NEW u \in Words, NEW k \in 0..(Cardinality(Candidates(u)) - 1)
  PROVE  \E c \in Candidates(u) : Place(u, c) = k
<1> DEFINE C == Candidates(u)
           n == Cardinality(C)
           I == 0..(n - 1)
           f == [c \in C |-> Place(u, c)]
<1>1. IsFiniteSet(C) /\ n \in Nat
  BY CandidatesOf
<1>2. f \in [C -> I]
  BY PlaceType
<1>3. \A a, b \in C : f[a] = f[b] => a = b
  BY PlaceOnce
<1>4. IsFiniteSet(I) /\ Cardinality(I) = n
  <2>1. 0 \in Int /\ n - 1 \in Int
    BY <1>1
  <2>2. IsFiniteSet(0..(n - 1)) /\ Cardinality(0..(n - 1)) = IF 0 > n - 1 THEN 0 ELSE (n - 1) - 0 + 1
    BY <2>1, FS_Interval
  <2> HIDE DEF n
  <2> QED BY <1>1, <2>2
<1>5. k \in I
  OBVIOUS
<1> HIDE DEF I
<1>6. f \in Injection(C, I)
  <2> HIDE DEF f, C
  <2> QED BY <1>2, <1>3 DEF Injection, IsInjective
<1>7. f \in Surjection(C, I)
  <2> HIDE DEF f
  <2> QED BY <1>4, <1>6, FS_Injection
<1>8. PICK c \in C : f[c] = k
  <2> HIDE DEF f
  <2> QED BY <1>5, <1>7 DEF Surjection
<1> QED BY <1>8

\* What find_similar_operations returns: in each position the candidate of that place.
LEMMA FoundOf ==
  ASSUME NEW u \in Words
  PROVE  LET m == Least(Cardinality(Candidates(u)), MAX_SUGGESTIONS)
             r == FindSimilarOperations(u) IN
         /\ m \in Nat /\ DOMAIN r = 1..m /\ Len(r) = m
         /\ \A i \in 1..m : /\ r[i].id \in Candidates(u) /\ Place(u, r[i].id) = i - 1
                            /\ r[i].distance = LevenshteinDistance(u, r[i].id)
<1> DEFINE n == Cardinality(Candidates(u))
           m == Least(n, MAX_SUGGESTIONS)
           r == FindSimilarOperations(u)
           chosen(i) == CHOOSE c \in Candidates(u) : Place(u, c) = i - 1
<1>1. n \in Nat /\ MAX_SUGGESTIONS \in Nat
  BY CandidatesOf, WordsAssumption
<1>2. m \in Nat /\ m <= n
  BY <1>1 DEF Least
<1>3. r = [i \in 1..m |-> [id |-> chosen(i), distance |-> LevenshteinDistance(u, chosen(i))]]
  BY DEF FindSimilarOperations
<1>4. ASSUME NEW i \in 1..m PROVE chosen(i) \in Candidates(u) /\ Place(u, chosen(i)) = i - 1
  <2>1. i - 1 \in 0..(n - 1)
    BY <1>1, <1>2
  <2>2. \E c \in Candidates(u) : Place(u, c) = i - 1
    BY <2>1, PlaceTaken
  <2> QED BY <2>2
<1> HIDE DEF m, n, r, chosen
<1>5. DOMAIN r = 1..m /\ Len(r) = m
  BY <1>2, <1>3
<1>6. ASSUME NEW i \in 1..m PROVE r[i].id = chosen(i) /\ r[i].distance = LevenshteinDistance(u, chosen(i))
  BY <1>3
<1>7. \A i \in 1..m : /\ r[i].id \in Candidates(u) /\ Place(u, r[i].id) = i - 1
                      /\ r[i].distance = LevenshteinDistance(u, r[i].id)
  BY <1>4, <1>6
<1> QED BY <1>2, <1>5, <1>7 DEF m, n, r

\* The suggestions are those for the unknown id, and only an id with a suffix
\* that cannot be cut goes without.
Answered ==
  /\ unknownId \in Unknown
  /\ similarPc = "answered" => suggestions = FindSimilarOperations(unknownId)
  /\ similarPc = "panicked" => ~Scorable(unknownId)

\* Every suffix of ASCII words can be cut.
LEMMA AsciiScorable ==
  ASSUME NEW u \in Words, \A s \in Catalogued \cup {u} : Ascii(Folded(s))
  PROVE  Scorable(u)
<1>1. Catalogued \subseteq Words
  BY WordsAssumption DEF Words
<1>2. \A s \in Catalogued \cup {u} : Sliceable(Folded(s))
  BY <1>1, FoldedOf, AsciiSliceable
<1> QED BY <1>2 DEF Scorable

LEMMA PanickedBest == ASSUME Answered, similarPc = "panicked" PROVE BestSuggested
<1>1. unknownId \in Words /\ ~Scorable(unknownId)
  BY WordsAssumption DEF Answered, Words
<1>2. \E s \in Catalogued \cup {unknownId} : ~Ascii(Folded(s))
  BY <1>1, AsciiScorable
<1> QED BY <1>2 DEF BestSuggested

\* They are the best there are.
LEMMA AnsweredBest == ASSUME Answered, similarPc = "answered" PROVE BestSuggested
<1> DEFINE u == unknownId
           n == Cardinality(Candidates(u))
           m == Least(n, MAX_SUGGESTIONS)
           edit(c) == EditDistance(Folded(u), Folded(c))
           chosen == {suggestions[i].id : i \in DOMAIN suggestions}
<1>1. u \in Words /\ Catalogued \subseteq Words
  BY WordsAssumption DEF Answered, Words
<1>2. suggestions = FindSimilarOperations(u)
  BY DEF Answered
<1>3. /\ m \in Nat /\ DOMAIN suggestions = 1..m /\ Len(suggestions) = m
      /\ \A i \in 1..m : /\ suggestions[i].id \in Candidates(u) /\ Place(u, suggestions[i].id) = i - 1
                         /\ suggestions[i].distance = LevenshteinDistance(u, suggestions[i].id)
  BY <1>1, <1>2, FoundOf
<1>4. n \in Nat /\ MAX_SUGGESTIONS \in Nat /\ (m = n \/ m = MAX_SUGGESTIONS)
  BY <1>1, CandidatesOf, WordsAssumption DEF Least
<1> HIDE DEF m, n, u
<1>5. ASSUME NEW i \in DOMAIN suggestions PROVE suggestions[i].distance = edit(suggestions[i].id)
  <2>1. suggestions[i].id \in Words
    BY <1>1, <1>3, CandidatesOf
  <2> QED BY <1>1, <1>3, <2>1, LevenshteinExact
<1>6. ASSUME NEW c \in Catalogued \ chosen, ~(edit(c) = 0), ~(100 * edit(c) > 65 * MaxLen(u, c))
      PROVE  /\ Len(suggestions) = MAX_SUGGESTIONS
             /\ \A s \in chosen : ~Better(SimilarityScore(u, c), SimilarityScore(u, s))
  <2>1. c \in Words
    BY <1>1
  <2>2. c \in Candidates(u)
    <3>1. LevenshteinDistance(u, c) = edit(c) /\ LevenshteinDistance(u, c) \in Nat
      BY <1>1, <2>1, LevenshteinExact
    <3>2. MaxLen(u, c) \in Nat
      BY <1>1, <2>1, MaxLenType
    <3>3. Candidate(u, c)
      <4> HIDE DEF edit
      <4> QED BY <1>6, <3>1, <3>2 DEF Candidate
    <3> QED BY <3>3 DEF Candidates
  <2>3. Place(u, c) \in 0..(n - 1)
    BY <1>1, <2>2, PlaceType DEF n
  <2>4. ~(Place(u, c) < m)
    <3> SUFFICES ASSUME Place(u, c) < m PROVE FALSE
      OBVIOUS
    <3> DEFINE i == Place(u, c) + 1
    <3>1. i \in 1..m /\ i - 1 = Place(u, c)
      BY <1>3, <1>4, <2>3
    <3>2. suggestions[i].id = c
      BY <1>1, <1>3, <2>2, <3>1, PlaceOnce
    <3>3. c \in chosen
      BY <1>3, <3>1, <3>2
    <3> QED BY <1>6, <3>3
  <2>5. m = MAX_SUGGESTIONS
    BY <1>3, <1>4, <2>3, <2>4
  <2>6. ASSUME NEW s \in chosen PROVE ~Better(SimilarityScore(u, c), SimilarityScore(u, s))
    <3>1. PICK i \in 1..m : s = suggestions[i].id
      BY <1>3
    <3>2. s \in Candidates(u) /\ Place(u, s) = i - 1
      BY <1>3, <3>1
    <3>3. ~(Place(u, c) < Place(u, s))
      BY <1>3, <1>4, <2>3, <2>4, <3>2
    <3> QED BY <1>1, <2>2, <3>2, <3>3, PlaceOrder DEF Ranked
  <2> QED BY <1>3, <2>5, <2>6
<1> HIDE DEF edit, chosen
<1>7. \A c \in Catalogued \ chosen :
        \/ edit(c) = 0
        \/ 100 * edit(c) > 65 * MaxLen(u, c)
        \/ /\ Len(suggestions) = MAX_SUGGESTIONS
           /\ \A s \in chosen : ~Better(SimilarityScore(u, c), SimilarityScore(u, s))
  BY <1>6
<1> QED BY <1>5, <1>7 DEF BestSuggested, edit, chosen, u

\* The suggestions for an unknown operation id are the best there are
\* (find_similar_operations), for any catalog, any id and any limits: where
\* the search answers, the distances reported are the least numbers of edits,
\* and no id within the ratio that scores better than a suggested one is left
\* out; and it answers wherever the ids are ASCII in lower case.
THEOREM SuggestedBest == SimilarSpec => []BestSuggested
<1>1. SimilarInit => Answered
  BY DEF SimilarInit, Answered
<1>2. Answered /\ [SimilarNext]_similarVars => Answered'
  <2> SUFFICES ASSUME Answered, [SimilarNext]_similarVars PROVE Answered'
    OBVIOUS
  <2>1. CASE Suggest
    BY <2>1 DEF Answered, Suggest
  <2>2. CASE Panic
    BY <2>2 DEF Answered, Panic, Scorable
  <2>3. CASE UNCHANGED similarVars
    BY <2>3 DEF Answered, similarVars, Scorable
  <2> QED BY <2>1, <2>2, <2>3 DEF SimilarNext
<1>3. Answered => BestSuggested
  <2>1. CASE similarPc \notin {"answered", "panicked"}
    BY <2>1 DEF BestSuggested
  <2> QED BY <2>1, AnsweredBest, PanickedBest
<1> QED BY <1>1, <1>2, <1>3, PTL DEF SimilarSpec
=============================================================================
