---------------------------- MODULE SiteDiscovery ----------------------------
(***************************************************************************)
(* Startup and periodic discovery of the site map                          *)
(* (rustmistmcp/src/site_discovery.rs), and MistHandler::replace_sites.     *)
(*                                                                         *)
(* A site belongs to one organization for good, so a map from sites to     *)
(* organizations is modelled by the set of its sites.  Tenants change      *)
(* between the pages of a pass, as an await separates two requests.        *)
(***************************************************************************)
EXTENDS Naturals, FiniteSets, SequencesExt

CONSTANTS
  Sites,             \* entries that listOrgSites may return
  Invalid,           \* those without a canonical string id
  OrgOf,             \* the organization of each entry
  AllowedOrgs,       \* allowed_orgs, in order
  MAX_TOTAL_SITES, PAGE_LIMIT, MAX_PAGES_PER_ORG,
  MaxChanges,        \* bound: sites added to or removed from a tenant
  MaxFailures        \* bound: failed requests

OrgSet == {AllowedOrgs[i] : i \in 1..Len(AllowedOrgs)}

\* validate_allowed_orgs: at least one organization and no duplicates.
\* "Generous headroom over the 4096-site total": 64 pages of 100.
ASSUME DiscoveryAssumption ==
  /\ IsFiniteSet(Sites) /\ Invalid \subseteq Sites
  /\ AllowedOrgs \in Seq(OrgSet) /\ AllowedOrgs # <<>>
  /\ \A i, j \in DOMAIN AllowedOrgs : AllowedOrgs[i] = AllowedOrgs[j] => i = j
  /\ OrgOf \in [Sites -> OrgSet]
  /\ PAGE_LIMIT \in Nat \ {0} /\ MAX_PAGES_PER_ORG \in Nat /\ MAX_TOTAL_SITES \in Nat
  /\ MAX_PAGES_PER_ORG * PAGE_LIMIT > MAX_TOTAL_SITES

VARIABLES
  known,       \* MistHandler.sites
  pc,          \* "page", "install", or "wait" for the next tick
  pass,        \* "startup" or "refresh"
  previous,    \* the snapshot taken when the pass began
  org, page,   \* position of the pass: index into AllowedOrgs, page number
  found,       \* the map being assembled
  incomplete,  \* incomplete_orgs
  tenant,      \* external: what listOrgSites lists for each organization
  changed,     \* history: organizations whose tenant changed during the pass
  oversized,   \* history: the last map handed to replace_sites was too large
  changes, failures

scan == <<pass, previous, org, page, found, incomplete>>
vars == <<known, pc, scan, tenant, changed, oversized, changes, failures>>

Of(S, o) == {s \in S : OrgOf[s] = o}

\* main starts a first pass before it serves; its outcome replaces an empty map.
Init ==
  /\ known = {} /\ previous = {} /\ found = {}
  /\ pc = "page" /\ pass = "startup"
  /\ org = 1 /\ page = 1
  /\ incomplete = {} /\ changed = {}
  /\ tenant \in [OrgSet -> UNION {SetToSeqs(S) : S \in SUBSET Sites}]
  /\ \A o \in OrgSet : Range(tenant[o]) \subseteq Of(Sites, o)
  /\ oversized = FALSE
  /\ changes = 0 /\ failures = 0

-----------------------------------------------------------------------------
(* discover_sites and discover_org_sites *)

\* external: the page a request gets is cut from the tenant as it is now.
Page(o, k) ==
  SubSeq(tenant[o], (k - 1) * PAGE_LIMIT + 1,
         IF k * PAGE_LIMIT < Len(tenant[o]) THEN k * PAGE_LIMIT ELSE Len(tenant[o]))

\* The sites that the first i entries of a page add: valid and not in the map yet.
Fresh(entries, i) == {entries[j] : j \in 1..i} \ (Invalid \cup found)

Fits(entries, i) == Cardinality(Fresh(entries, i)) <= MAX_TOTAL_SITES - Cardinality(found)

\* Insert entry by entry until the cap would be exceeded.
Inserted(entries) == UNION {Fresh(entries, i) : i \in {j \in 0..Len(entries) : Fits(entries, j)}}

\* The organization is done: the next one, or the end of the pass.
NextOrg ==
  IF org < Len(AllowedOrgs)
    THEN org' = org + 1 /\ page' = 1 /\ UNCHANGED pc
    ELSE pc' = "install" /\ UNCHANGED <<org, page>>

\* Mutant of LastPage: a full page ends the listing too.
LastPageAlways(entries) == Len(entries) <= PAGE_LIMIT

\* A short page is the last one; so is the last page the bound allows.
LastPage(entries) == Len(entries) < PAGE_LIMIT \/ page = MAX_PAGES_PER_ORG

\* One page; at the cap the organization stops with Truncated.
FetchPage ==
  LET o == AllowedOrgs[org]
      entries == Page(o, page) IN
  /\ pc = "page"
  /\ found' = found \cup Inserted(entries)
  /\ CASE ~Fits(entries, Len(entries)) -> incomplete' = incomplete \cup {o} /\ NextOrg
       [] Fits(entries, Len(entries)) /\ LastPage(entries) -> NextOrg /\ UNCHANGED incomplete
       [] OTHER -> page' = page + 1 /\ UNCHANGED <<org, pc, incomplete>>
  /\ UNCHANGED <<known, pass, previous, tenant, changed, oversized, changes, failures>>

\* Any error: what earlier pages inserted stays in the map, the org is marked.
FetchFails ==
  /\ pc = "page"
  /\ failures < MaxFailures
  /\ failures' = failures + 1
  /\ incomplete' = incomplete \cup {AllowedOrgs[org]}
  /\ NextOrg
  /\ UNCHANGED <<known, pass, previous, found, tenant, changed, oversized, changes>>

-----------------------------------------------------------------------------
(* merge_refresh, replace_sites and the refresh loop *)

\* Mutant of MergeRefresh: the pass is trusted for every organization.
MergeRefreshTrusting == found

\* An incomplete organization keeps exactly its previous entries.
MergeRefresh ==
  {s \in found : OrgOf[s] \notin incomplete} \cup {s \in previous : OrgOf[s] \in incomplete}

\* validate_sites: the ids and organizations are valid by now, so only the size.
ValidSites(S) == Cardinality(S) <= MAX_TOTAL_SITES

\* At startup nothing is merged; later the map is merged, validated, swapped.
Install ==
  LET candidate == IF pass = "startup" THEN found ELSE MergeRefresh IN
  /\ pc = "install"
  /\ known' = IF ValidSites(candidate) THEN candidate ELSE known
  /\ oversized' = ~ValidSites(candidate)
  /\ pc' = "wait"
  /\ UNCHANGED <<scan, tenant, changed, changes, failures>>

\* The ticker fires: snapshot the map and start over.
StartRefresh ==
  /\ pc = "wait"
  /\ pc' = "page" /\ pass' = "refresh"
  /\ previous' = known
  /\ org' = 1 /\ page' = 1
  /\ found' = {} /\ incomplete' = {} /\ changed' = {}
  /\ UNCHANGED <<known, tenant, oversized, changes, failures>>

\* external: an administrator adds a site, anywhere in the listing, or removes one.
TenantChange(o) ==
  /\ changes < MaxChanges
  /\ changes' = changes + 1
  /\ changed' = changed \cup {o}
  /\ \/ \E s \in Of(Sites, o) \ Range(tenant[o]), i \in 1..(Len(tenant[o]) + 1) :
          tenant' = [tenant EXCEPT ![o] = InsertAt(@, i, s)]
     \/ \E i \in DOMAIN tenant[o] : tenant' = [tenant EXCEPT ![o] = RemoveAt(@, i)]
  /\ UNCHANGED <<known, pc, scan, oversized, failures>>

Pass == FetchPage \/ FetchFails \/ Install \/ StartRefresh

Next == Pass \/ \E o \in OrgSet : TenantChange(o)

Spec == Init /\ [][Next]_vars

\* The loop is never stopped while the server runs, and its ticker keeps firing.
FairSpec == Spec /\ WF_vars(Pass)

-----------------------------------------------------------------------------
(* Properties *)

Listed(o) == Range(tenant[o]) \ Invalid

\* "A failed request or a truncated pass never replaces a complete set with a
\* partial or empty one": a refresh changes no entry of an organization that
\* failed or was truncated (merge_refresh).
FailedOrgKeepsSites ==
  [][pc = "install" /\ pass = "refresh" =>
       \A o \in incomplete : Of(known', o) = Of(known, o)]_vars

\* The page bound reaches to the end of a listing, or the listing has only valid
\* entries, so that the cap comes first; skipped entries use up pages, too.
WithinPages(o) == Len(tenant[o]) <= MAX_PAGES_PER_ORG * PAGE_LIMIT \/ Range(tenant[o]) \cap Invalid = {}

\* A pass that installs its map has the exact list of every organization it
\* completed, additions and removals included, however the pages were cut,
\* if that tenant did not change between the pages (discover_org_sites): no
\* listing of valid entries is cut short and still taken for complete.
CompletePassExact ==
  [][pc = "install" /\ pc' = "wait" /\ ~oversized' =>
       \A o \in OrgSet \ (incomplete \cup changed) : WithinPages(o) => Of(known', o) = Listed(o)]_vars

\* "Newly added or removed sites are picked up without a restart": once tenants
\* and the network are quiet the map becomes, and stays, what Mist lists, if
\* that fits under the cap.
Converges ==
  LET all == UNION {Listed(o) : o \in OrgSet} IN
  <>[](Cardinality(all) <= MAX_TOTAL_SITES /\ (\A o \in OrgSet : WithinPages(o)) => known = all)

\* The doc of MAX_TOTAL_SITES: "the map handed to replace_sites never exceeds it
\* and is never rejected outright for being oversized" (site_discovery.rs:30).
NeverRejectedOversized == ~oversized
=============================================================================
