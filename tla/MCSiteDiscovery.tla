--------------------------- MODULE MCSiteDiscovery ---------------------------
(* Model-checking instance of SiteDiscovery: two organizations, the entries  *)
(* a1.. of the first, more than its pages can hold, and b1 of the second.    *)
EXTENDS SiteDiscovery

CONSTANTS a1, a2, a3, a4, a5, b1, orgA, orgB

MCSites == {a1, a2, a3, a4, a5, b1}
MCOrgOf == [s \in MCSites |-> IF s = b1 THEN orgB ELSE orgA]
MCAllowedOrgs == <<orgA, orgB>>
=============================================================================
