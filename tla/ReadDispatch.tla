----------------------------- MODULE ReadDispatch -----------------------------
(***************************************************************************)
(* Catalogued reads and their continuations: invoke_dispatcher and          *)
(* dispatch_catalogued_read (server/mod.rs), MistCursor                     *)
(* (rustmistmcp-core/src/pagination.rs) and the cursor that execute_as      *)
(* derives from a response (rustmistmcp-core/src/client.rs).               *)
(*                                                                         *)
(* A cursor is untrusted transport state: a caller may present any cursor, *)
(* for any operation, at any time.  A request that is refused leaves no    *)
(* trace in this state, so a refusal is a guard that does not hold.        *)
(***************************************************************************)
EXTENDS Naturals, Sequences, FiniteSets

CONSTANTS
  Callers,      \* tasks of MCP clients that call the read tools
  Ops,          \* catalogued GET operations
  Capability,   \* "OrdinaryRead" or "PrivilegedRead" of each operation
  Selector,     \* target selector of each operation: "Org" or "Site"
  Pagination,   \* "PageLimit", "SearchAfter" or "None"
  AllowedOrgs, OtherOrgs, SiteIds,
  Origins,      \* Mist regions the server can be configured with
  MaxItems,     \* bound: records a target can have
  MAX_LIMIT,    \* the largest page limit accepted (100)
  MaxEdits,     \* bound: additions and removals of records in Mist
  MaxReloads,   \* bound: token reloads, restarts and site refreshes
  None

Orgs == AllowedOrgs \cup OtherOrgs
Targets == Orgs \cup SiteIds
Limits == 0..(MAX_LIMIT + 1)

\* MistCursor with the request context it carries, of any size.
CursorShape == [op: Ops, origin: Origins, mode: {"PageLimit", "SearchAfter"},
                value: Nat, path: Targets, target: Targets, limit: Nat]

ASSUME DispatchAssumption ==
  /\ Orgs \cap SiteIds = {} /\ AllowedOrgs \cap OtherOrgs = {}
  /\ None \notin Targets \cup Origins \cup Ops \cup Nat \cup CursorShape
  /\ Capability \in [Ops -> {"OrdinaryRead", "PrivilegedRead"}]
  /\ Selector \in [Ops -> {"Org", "Site"}]
  /\ Pagination \in [Ops -> {"PageLimit", "SearchAfter", "None"}]
  /\ MAX_LIMIT \in Nat \ {0}
  /\ MaxItems \in Nat

VARIABLES
  known,     \* MistHandler.sites (module SiteDiscovery)
  token,     \* per caller: scope and MistGrant of its token; None: no token
  origin,    \* the configured Mist region
  listing,   \* external: the records of each target, oldest first
  call,      \* the request each caller has on the wire, or None
  walk,      \* history: the pages a caller has followed cursor by cursor
  edits, reloads

vars == <<known, token, origin, listing, call, walk, edits, reloads>>

\* A grant names operations and subjects; its actions follow from both.
Grant == [ops: SUBSET Ops, subjects: SUBSET Targets]
Token == [scope: SUBSET Targets, grant: Grant \cup {None}]
\* The cursors a caller can present: any of them.
Cursor == [op: Ops, origin: Origins, mode: {"PageLimit", "SearchAfter"},
           value: 1..(MaxItems + 1), path: Targets, target: Targets, limit: Limits]
Request == [op: Ops, target: Targets, limit: 1..MAX_LIMIT, cursor: Cursor \cup {None}]

\* `next` is the cursor of the last page, None after the final one.
NoWalk == [sources |-> {}, next |-> None, got |-> <<>>, clean |-> FALSE, done |-> FALSE]

Init ==
  /\ known = SiteIds
  /\ token \in [Callers ->
       {None, [scope |-> Targets, grant |-> [ops |-> Ops, subjects |-> Targets]]}]
  /\ origin \in Origins
  /\ \E n \in 0..MaxItems : listing = [x \in Targets |-> [i \in 1..n |-> i]]
  /\ call = [t \in Callers |-> None]
  /\ walk = [t \in Callers |-> NoWalk]
  /\ edits = 0 /\ reloads = 0

-----------------------------------------------------------------------------
(* Authorization *)

\* target_for: the path must name a target of the kind the operation selects.
TargetFor(op, path) ==
  IF path \in (IF Selector[op] = "Org" THEN Orgs ELSE SiteIds) THEN path ELSE None

\* external: authorize_call, the token's tool and target scope.
InScope(t, target) == token[t] # None => target \in token[t].scope

\* authorize_grant: without a grant only ordinary reads; with one, exact lists.
AuthorizeGrant(t, op, target) ==
  IF token[t] = None \/ token[t].grant = None
    THEN Capability[op] = "OrdinaryRead"
    ELSE op \in token[t].grant.ops /\ target \in token[t].grant.subjects

\* The server's own profile: allowlisted organizations and their known sites.
InProfile(target) == target \in AllowedOrgs \cup known

\* Mutant of Authorised: a continuation rides on the check of its first page.
AuthorisedOnce(t, op, target, cursor) ==
  cursor # None \/ (InScope(t, target) /\ AuthorizeGrant(t, op, target) /\ InProfile(target))

\* The checks of dispatch_catalogued_read, with or without a cursor.
Authorised(t, op, target, cursor) ==
  /\ token[t] = None => Capability[op] # "PrivilegedRead"
  /\ InScope(t, target)
  /\ AuthorizeGrant(t, op, target)
  /\ InProfile(target)

\* Mutant of ValidateFor: the region is not compared.
ValidateForAnyOrigin(c, op) == c.op = op /\ c.mode = Pagination[op]

\* MistCursor::validate_for: bound to one operation, region and pagination mode.
ValidateFor(c, op) == c.op = op /\ c.origin = origin /\ c.mode = Pagination[op]

\* validate_page_limit; a query without a limit gets Mist's default, one of these.
ValidatePageLimit(limit) == limit \in 1..MAX_LIMIT

-----------------------------------------------------------------------------
(* dispatch_catalogued_read, up to the request on the wire *)

Dispatch(t, op, target, limit, cursor) ==
  /\ call[t] = None
  /\ target # None
  /\ Authorised(t, op, target, cursor)
  /\ ValidatePageLimit(limit)
  /\ cursor # None => ValidateFor(cursor, op)
  /\ call' = [call EXCEPT ![t] =
       [op |-> op, target |-> target, limit |-> limit, cursor |-> cursor]]
  /\ UNCHANGED <<known, token, origin, listing, walk, edits, reloads>>

\* invoke_dispatcher without a cursor.
Read(t) ==
  \E op \in Ops, path \in Targets, limit \in Limits :
    Dispatch(t, op, TargetFor(op, path), limit, None)

\* With one, the path and the query come out of it; its stored target must be
\* the one its path leads to.
Continue(t) ==
  \E op \in Ops, c \in Cursor :
    /\ TargetFor(op, c.path) = c.target
    /\ Dispatch(t, op, c.target, c.limit, c)

-----------------------------------------------------------------------------
(* The response *)

Start(r) == IF r.cursor = None THEN 0 ELSE r.cursor.value

\* external: how many records come before the page that Mist answers with, by
\* page number or after a record.
Skipped(r) ==
  LET all == listing[r.target] IN
  CASE r.cursor = None -> 0
    [] r.cursor # None /\ Pagination[r.op] = "PageLimit" -> (Start(r) - 1) * r.limit
    [] OTHER -> CHOOSE k \in 0..Len(all) : \A i \in 1..Len(all) : all[i] <= Start(r) <=> i <= k

\* external: the page itself; an operation without pages answers with everything.
PageOf(r) ==
  LET all  == listing[r.target]
      last == Skipped(r) + r.limit IN
  IF Pagination[r.op] = "None" THEN all
  ELSE SubSeq(all, Skipped(r) + 1, IF last < Len(all) THEN last ELSE Len(all))

\* Mutant of NextValue: one page too many or too few at an exact multiple.
NextValueOffByOne(r) ==
  LET k == IF r.cursor = None THEN 1 ELSE r.cursor.value IN
  IF (k + 1) * r.limit > Len(listing[r.target]) THEN None ELSE k + 1

\* derive_next_cursor: X-Page-Page * X-Page-Limit below X-Page-Total, or the
\* search_after of the body's `next`, which Mist sends while records remain.
NextValue(r) ==
  LET k    == IF r.cursor = None THEN 1 ELSE r.cursor.value
      page == PageOf(r)
      all  == listing[r.target] IN
  CASE Pagination[r.op] = "PageLimit" -> IF k * r.limit >= Len(all) THEN None ELSE k + 1
    [] Pagination[r.op] = "SearchAfter" ->
         IF page = <<>> \/ page[Len(page)] = all[Len(all)] THEN None ELSE page[Len(page)]
    [] OTHER -> None

\* The cursor handed to the caller, with the context of its request attached.
NextCursor(r) ==
  IF NextValue(r) = None THEN None
  ELSE [op |-> r.op, origin |-> origin, mode |-> Pagination[r.op], value |-> NextValue(r),
        path |-> r.target, target |-> r.target, limit |-> r.limit]

\* History: a first page starts a walk, the cursor of the last page extends it,
\* any other cursor abandons it.
Followed(t, r) ==
  LET source == <<r.op, r.target, origin>>
      w == walk[t] IN
  CASE r.cursor = None ->
         [sources |-> {source}, next |-> NextCursor(r), got |-> PageOf(r),
          clean |-> TRUE, done |-> NextCursor(r) = None]
    [] r.cursor # None /\ r.cursor = w.next ->
         [sources |-> w.sources \cup {source}, next |-> NextCursor(r), got |-> w.got \o PageOf(r),
          clean |-> w.clean, done |-> NextCursor(r) = None]
    [] OTHER -> NoWalk

\* The answer is turned into an envelope; an error ends the call without one.
Respond(t) ==
  /\ call[t] # None
  /\ call' = [call EXCEPT ![t] = None]
  /\ \/ walk' = [walk EXCEPT ![t] = Followed(t, call[t])]
     \/ UNCHANGED walk
  /\ UNCHANGED <<known, token, origin, listing, edits, reloads>>

-----------------------------------------------------------------------------
(* external: Mist's records, the operator *)

\* The newest record is added, or the oldest removed, which shifts every page.
RecordsChange(x) ==
  LET all == listing[x]
      newest == IF all = <<>> THEN 0 ELSE all[Len(all)] IN
  /\ edits < MaxEdits
  /\ edits' = edits + 1
  /\ \/ newest < MaxItems /\ listing' = [listing EXCEPT ![x] = Append(all, newest + 1)]
     \/ all # <<>> /\ listing' = [listing EXCEPT ![x] = Tail(all)]
  /\ walk' = [t \in Callers |->
       IF \A s \in walk[t].sources : s[2] # x THEN walk[t] ELSE [walk[t] EXCEPT !.clean = FALSE]]
  /\ UNCHANGED <<known, token, origin, call, reloads>>

\* SIGHUP reloads the tokens; a call on the wire is not recalled.
ReloadTokens(t) ==
  /\ token[t] # None
  /\ reloads < MaxReloads
  /\ reloads' = reloads + 1
  /\ \E scope \in {{}, Targets} :
     \E grant \in {None, [ops |-> {}, subjects |-> Targets], [ops |-> Ops, subjects |-> {}]} :
       token' = [token EXCEPT ![t] = [scope |-> scope, grant |-> grant]]
  /\ UNCHANGED <<known, origin, listing, call, walk, edits>>

\* A site refresh drops a site, or the server restarts against another region.
Reconfigure ==
  /\ reloads < MaxReloads
  /\ reloads' = reloads + 1
  /\ \/ /\ \E S \in SUBSET SiteIds : known' = S
        /\ UNCHANGED <<origin, call>>
     \/ /\ origin' \in Origins
        /\ call' = [t \in Callers |-> None]
        /\ UNCHANGED known
  /\ UNCHANGED <<token, listing, walk, edits>>

Next ==
  \/ \E t \in Callers : Read(t) \/ Continue(t) \/ Respond(t)
  \/ \E x \in Targets : RecordsChange(x)
  \/ \E t \in Callers : ReloadTokens(t)
  \/ Reconfigure

Spec == Init /\ [][Next]_vars

-----------------------------------------------------------------------------
(* Properties *)

\* What a caller is entitled to at this moment, from the token and the profile.
Entitled(t, r) ==
  /\ r.target \in AllowedOrgs \cup known
  /\ token[t] # None => r.target \in token[t].scope
  /\ Capability[r.op] = "PrivilegedRead" =>
       /\ token[t] # None
       /\ token[t].grant # None
       /\ r.op \in token[t].grant.ops /\ r.target \in token[t].grant.subjects

\* "Revalidated and reauthorized before use": no request leaves, first page or
\* continuation, that the caller is not entitled to when it leaves, whatever
\* cursor it presents and however long ago that cursor was issued.
EveryPageReauthorised ==
  [][\A t \in Callers : call[t] = None /\ call'[t] # None => Entitled(t, call'[t])]_vars

\* The pages a caller collects by following cursors all come from one
\* operation, one target and one Mist region, across reloads and restarts.
WalkHasOneSource == \A t \in Callers : Cardinality(walk[t].sources) <= 1

\* A finished walk over records that did not change meanwhile has every record
\* once and in order, whatever the page size and wherever the list ends.
WalkExact ==
  \A t \in Callers : walk[t].done /\ walk[t].clean =>
    \A s \in walk[t].sources : walk[t].got = listing[s[2]]
=============================================================================
