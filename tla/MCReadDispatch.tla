---------------------------- MODULE MCReadDispatch ----------------------------
(* Model-checking instance of ReadDispatch: a paged list of an organization's *)
(* records and a privileged search of a site's.                             *)
EXTENDS ReadDispatch, TLC

CONSTANTS listOrg, searchSite

MCCapability == (listOrg :> "OrdinaryRead") @@ (searchSite :> "PrivilegedRead")
MCSelector   == (listOrg :> "Org") @@ (searchSite :> "Site")
MCPagination == (listOrg :> "PageLimit") @@ (searchSite :> "SearchAfter")
=============================================================================
