# A TLA+ verification of rustmistmcp

rustmistmcp is an MCP server for the Juniper Mist API. It offers catalogued,
authorized reads to language-model clients, and writes to WAN-edge
configuration objects only through change sets that are planned, approved by a
second person, applied and verified. This project models the parts of the
server that keep state, interleave or compute, checks them with TLC on small instances,
and proves the central safety properties with TLAPS for every instance.

`server/` below stands for `crates/rustmistmcp/src/server/`, `core/` for
`crates/rustmistmcp-core/src/`.

## 1. Inventory

| Component | State | Operations | What is hard about it |
|---|---|---|---|
| Change-set lifecycle (`server/mod.rs`, `server/change_set.rs`) | the record store and its state file, the evidence log, a guard per object | `plan_mist_change`, `approve_mist_change_set`, `apply_mist_change_set`, the lab-mode waiver | concurrent applies, other Mist administrators, timeouts of writes that still land, crashes between any two of intent, claim, write, receipt and settlement |
| Mist client (`core/client.rs`) | a semaphore | `execute_as`, 429 retries | permits held over sleeps, many exits, `Retry-After` chosen by the peer |
| Hourly budget (`core/rate_limit.rs`) | window start and counter under a mutex | `try_acquire`, `status` | the window rolls over between two locked operations; two pools in one counter |
| Site discovery (`site_discovery.rs`, `main.rs`) | the map site -> organization behind an `RwLock` | a startup pass, periodic refresh passes, `replace_sites` | one organization of several fails; pages shift while they are read; a cap over all organizations |
| Merge patch (`server/wan_write.rs`) | none | `merge_patch`, two recursive refusals | nulls and arrays at depth, values that change kind |
| Catalogued reads (`server/mod.rs`, `core/request.rs`, `core/grant.rs`, `core/target.rs`) | the token snapshot, the allowlist, the site map | `dispatch_catalogued_read`, `invoke_dispatcher`, the named read tools | authorization against state that changes between two pages |
| Cursors (`core/pagination.rs`) | none on the server: the client carries it | `new`, `with_request_context`, `validate_for` | an untrusted value that comes back at any time, for any operation |
| Catalog (`core/catalog.rs`) | the operations and an index by id, fixed after the load | `from_json`, `operation`, `relax_for_responses` | duplicates that only show in folded names, references forward in the file, a rewrite of schemas that cannot tell keywords from property names |
| Validator cache and schema checks (`core/catalog.rs`, `core/request.rs`) | compiled validators behind an `RwLock` | `cached_validator`, `MistRequest::validate`, `MistResponse::validate` | two misses at once, one key for several schemas, a poisoned lock, schemas that do not compile |
| Named read tools, dispatchers, operation search (`server/mod.rs`, `server/wan.rs`) | none | some thirty tools, `invoke_mist_read`, `invoke_mist_privileged_read`, `search_mist_operations` | hand-written tables against a generated catalog; scope given twice or as a filter |
| Scope preflight (`http_transport.rs`) | none | `MistScopePreflight::check` | it and the handler each see a part of the ids |
| Operation-id suggestions (`server/similarity.rs`) | none | `find_similar_operations` | distance, bonus and ratio interact; letters and bytes are mixed, and a suffix is cut at a byte of the caller's id |
| Start, signals, stop (`main.rs`, `http_transport.rs`, `cli.rs`, `core/config.rs`) | the audit key file, the token files, the signal hooks, the evidence spool | start, serve, reload on SIGHUP, shut down | a signal or a crash at any step, two processes at once, files that change under a running server |
| Execute classification (`core/execute_class.rs`) | none | `execute_class` | nothing: three constant lists that no other code reads yet |

How they interact: every tool handler authorizes and then calls the client,
which draws on the semaphore and the budget. An apply reads the object twice
through the same read path. Discovery shares the client (as a `Standard`
caller) and replaces the site map that the read path consults. A restart
reloads records from the state file, forgets guards and calls, and may come
with another allowlist. The coordinator (record store, claim, guard,
recovery), the evidence recorder and token handling live in the external
`mecmcp-*` crates; the models take from them what the code here relies on, and
the map marks those definitions external.

What makes each part correct:

* lifecycle: nothing is written without a second human (or the waiver), an
  approval buys one write, an object is not overwritten by a plan made from
  another state, and after any crash the record, the marker and the evidence
  are consistent with what may have happened;
* client and budget: humans keep their reserve, permits are never lost, the
  number of requests Mist sees is bounded, calls end;
* discovery: a failure never loses sites, a complete pass is exact, the map
  catches up;
* merge: what is staged is the RFC 7386 merge, and refused content never gets
  in;
* reads: every page is authorized against the present token, grant and profile,
  a cursor never leads to another source, and a walk returns each record once;
* validation: a request or response is judged by its own schemas and by no
  others, whatever the cache holds, and relaxation loses no declared response;
* catalog: an id leads to one operation, and every mutation can be confirmed;
* tools: every combination of selectors fits the catalog, no id leaves the token's scope, and what a search lists can be invoked;
* process: the audit key in use is never replaced, rotation and reload never
  kill the server, the spool is flushed, and tokens come from the configured
  file.

`PROJECT.json` lists the hazards one by one with the line they are at and the
properties aimed at them.

## 2. Modules

| Module | Models |
|---|---|
| `ChangeSet` | the lifecycle, one step per await or persistent effect |
| `ApprovalLedger` | the abstract promise of the lifecycle: propose, grant, claim, write once, close |
| `ChangeSetProofs` | two inductive invariants of `ChangeSet`, one about what may be written and one about what is left behind, nine theorems, and the refinement of `ApprovalLedger` |
| `MistClient` | `execute_as` with semaphore, budget and retries |
| `MistClientProofs` | the budget invariant and the reserve theorem; the semaphore, and the requests on the wire |
| `SiteDiscovery` | discovery passes, merge, swap |
| `SiteDiscoveryProofs` | its inductive invariant and two theorems |
| `MergePatch` | refusals and merge over JSON values, with RFC 7386 as the reference definition |
| `ReadDispatch` | authorization, dispatch and continuation of reads |
| `ReadDispatchProofs` | its inductive invariant and three theorems |
| `ValidatorCache` | `cached_validator` and `schema_matches` under threads: look up, build outside the lock, insert, judge |
| `SchemaValidation` | the checks of `MistRequest::validate` and `MistResponse::validate`, in order, as jobs of `ValidatorCache` |
| `ValidatorCacheProofs` | the inductive invariant of `ValidatorCache` with three theorems, and the verdicts of `SchemaValidation` |
| `JsonValue` | JSON values with their nesting, shared by `MergePatch` and `SchemaRelax` |
| `SchemaRelax` | the bounds on values and the relaxation of response schemas, with the meaning of the schema keywords it touches |
| `RankedRecursion` | no code: that a recursive function whose calls go to values of lower rank exists, and induction over ranks |
| `JsonProofs` | the merge, the refusals, the bounds and the relaxation, for JSON values of any size: five theorems |
| `CatalogLoad` | the load of a catalog: head, operations one by one, index, follow-up reads |
| `Similarity` | edit distance, score and ranking of suggestions, with the panic of a suffix cut inside a letter |
| `WanSelectors` | the tables of `server/wan.rs` |
| `ToolSurface` | preflight, named tools, dispatchers, the checks of `dispatch_catalogued_read` on arguments, and the search; uses `WanSelectors` |
| `Startup` | the steps of `main` for several processes, with signals and edits of the token files |
| `PartsProofs` | the index of `CatalogLoad`; the tables, the scope of requests and the results of searches in `ToolSurface`; the inductive invariant of `Startup` and four theorems; the edit distance, the ranking and the suggestions of `Similarity` |
| `MC*` | constants and symmetries for TLC; `MCParts` joins the modules that share no state |

Every module writes the mutated forms of its actions next to them (`Mutant of
...`): each is the definition with one plausible slip, and TLC finds the
property violated when it takes the original's place.

### ChangeSet

`state`, `plan`, `approver` and `handleless` are the fields of
`ChangeSetRecord` that a handler reads; `pc` and `call` are the running
handlers with their locals; `guard` is the coordinator's device guard;
`evidence` is the log, per change set; `mist` and `wire` are Mist's objects and
the fate of the write request of each change set. `sends`, `answered`, `held`,
`raced`, `drifted` and `stateFault` are history variables that only the
properties read.

An apply goes through `guard -> fetch -> drift -> intent -> claim -> write ->
await -> verify -> receipt -> settle`, with the branches of the code: a create
skips the drift check; a mismatch goes to `drift_claim` and `drift_settle`; an
organization that is no longer allowed, an intent that cannot be persisted, a
claim that is refused end the call; a request that fails before it is sent, a
timeout and a final 429 or 410 settle without a receipt; a create without an
id in its answer emits a failure receipt. The steps are cut at every await, so
other calls, Mist, other administrators and a crash come in between. A record
store operation may fail at any time (`Faults`), which the error paths of the
code ignore and the model therefore does too.

Abstractions: configurations are opaque values (`MergePatch` looks inside);
fingerprint and digest equality is value equality; `insert_change_set` may
refuse at any time, which covers its limits and its refusal of a second
unresolved record for one object; plan and approval expire at the same tick.

### MistClient

One process per call of `execute_as`. `Locked` is one operation under the
window mutex, with `reset_if_elapsed`; `Charge` is `try_acquire` and `Deny` the
second lock that fills in the error. `standard` and `reserved` split the
counter by pool for the properties. Time is a tick count up to `WINDOW`.

### SiteDiscovery

`org` and `page` are the loop variables of `discover_sites` and
`discover_org_sites`, `found` and `incomplete` the result under construction,
`known` the handler's map. The tenants change between any two pages.
`Inserted` says what the loop over a page adds: the fresh entries of the
longest prefix that fits under the cap.

`CompletePassExact` and `Converges` have the hypothesis `WithinPages`. A
listing that is cut by `MAX_PAGES_PER_ORG` is taken for complete, so the pass is
exact only if the bound does not cut. The comment on the constant argues that
64 pages of 100 are more than the cap of 4096 sites, and that is right as long
as every entry counts against the cap: the cap comes first then. Entries that
are skipped (no id, or no canonical one) use up pages and not the cap, so a
tenant with more than 64 pages of them would be cut short silently. The attempt
to prove the property without the hypothesis showed this, and TLC has the
counterexample on the instance of `sites_pass`: five entries, one invalid, two
pages of two. No comment promises anything about such tenants.

### MergePatch

The refusals and the merge are recursive functions on `JSON`, the set of the
values at hand, which is closed under taking parts; in the run every patch meets
every object of a bounded universe. The scalar "[REDACTED]" stands for every
string that contains it, since the code's check is a substring match.
`RefusedNeverStaged` is about values a patch sets; a patch that deletes or
replaces a field around an existing `mist_configured` is not refused by the code
and is outside that property. `StagedIsMergePatch` compares with RFC 7386 but
for null fields. Two kinds of them remain: those of a subtree that the object
did not have, which `merge_patch` copies as they are, and those that Mist's own
object held, which neither touches. Without the second kind (`before` free of
nulls) what is staged, without its nulls, is the RFC's result itself.

### ReadDispatch

A request that passes every check goes on the wire (`Read`, `Continue`); its
answer comes later (`Respond`), after tokens, sites, region or records may have
changed. Callers present any cursor at all. `walk` follows, for the
properties, the pages a caller gets when it uses each page's cursor for the
next. What Mist answers (`Skipped`, `PageOf`) is external: a page number
skips the pages before it, a `search_after` value the records up to it.

### ValidatorCache and SchemaValidation

A job is a sequence of steps, each a list of alternatives; an alternative is a
plain check or a value against a schema slot. `SchemaValidation` computes the
steps of a request (bounds, parameters in declared order, body) and of a
response (bounds, status, the declared media types one after the other). A
thread takes one job at a time through `check -> build -> insert -> judge`; the
read lock and the write lock are separate steps, so two threads can miss
together. A slot in `Broken` does not compile, and `Poison` is a panic of some
holder, after which neither lock is taken. `AcceptedAsDeclared` compares the
verdict with what the catalog declares for the message, stated without steps.

### SchemaRelax

Schemas are JSON values like any other, which is what makes the walk of
`relax_for_responses` interesting: a property called `required` or `enum` is
taken for the keyword. `StructureSurvives` therefore leaves such schemas out
(two components of the pinned catalog have a property `required`); for them the
relaxed schema checks less than the doc says. `NothingDeclaredLost` has no such
exception, but needs what holds of the pinned catalog (`AsInCatalog`): no
property is called `oneOf`, since its schema would become that of `anyOf`; one
called `enum` or `required` does not stand beside a schema for further
properties, which would then apply to it; and no schema has `oneOf` and `anyOf`
both, since the first replaces the second. The attempt to prove the property
without these hypotheses led to each of them; each holds of every response schema and every
component in the catalog the server ships.

### ToolSurface

Arguments are functions from names to values; of the optional ones only those
that name an organization, a site or a required parameter are kept. The
catalog of the run is the part of `docs/mist-api/catalog.json` that the named
tools resolve to, with its path parameters, its `site_id` and `type` filters
and its capabilities (`PinnedAssumption` has what the tools rely on). Not in it: continuations by cursor, whose query the
preflight does not see, and JSON-RPC batches. The results of a search are a
set, the first matches in the catalog's order. One sentence of the tools' own
help does not match the table: `WanObjectArg` calls device profiles "Org scope
only", while `list_config` has a site operation for them and the tool takes it.

### Startup

The steps are cut where a signal makes a difference: at each hook installed,
each file touched, and the start and end of serving. The processes share the
audit key file; the token command runs through the same provisioning. A step
that can fail for reasons of its own (TLS, the listener, the state file) may
fail at any time. `SignedKeyKept` makes one exception, a race that the code
does have: two first starts at once both find the key missing, and the second
replaces the key the first has already read. Two more behaviours that no
comment promises against and that the model shows: a start that fails after
the evidence pipeline came up leaves without the flush, and a store that fell
back to the legacy token file stays bound to it until the restart.

## 3. Runs

| Run | Shows |
|---|---|
| `lifecycle_race` | two calls, two change sets, one object, two edits from outside: `ApprovalSpentOnce`, `StrandedOnlyAfterFault`, `DriftedNeverWritten`, `NoLostUpdate` |
| `lifecycle_crash` | updates and creates with every fault, one crash, another allowlist: `TypeOK`, `WriteAuthorised`, `UnmarkedNeverSent`, `ReceiptMatchesState`, `AppliedWasHeld`, and the refinement `ImplementsLedger` |
| `lifecycle_lab` | lab mode without a recorder, with failing state writes and a plan that expires while an approval or an apply waits, under fairness: `ApplyReturns` (that the waiver is the only other approval is the theorem `Authorisation`) |
| `client_budget` | three callers, two permits, a window that rolls over, under fairness: `TypeOK`, `HumanHeadroom`, `PermitsConserved`, `WireBounded`, `CallReturns` |
| `sites_pass` | two organizations, two pages of two at most, a cap of three, an entry that is skipped, failures and changes, under fairness: `FailedOrgKeepsSites`, `CompletePassExact`, `Converges` |
| `parts` | every input of each self-contained part. `MergePatch`, 161,000 pairs of object and patch: `StagedIsMergePatch`, `RefusedNeverStaged`. `SchemaRelax`: `BoundsExact`, `NothingDeclaredLost`, `StructureSurvives`. `CatalogLoad`: `MutationsVerifiable`. `Similarity`: `BestSuggested`. `ToolSurface`: `NamedToolsFit`, `SentWithinScope`, `FoundIsInvocable`. `Startup`: `SignedKeyKept`, `RotationSurvived`, `SpoolDelivered`, `TokensAsConfigured` |
| `validation` | two threads, three validations out of nineteen messages, a broken schema, a poisoned lock: `CacheTypeOK`, `VerdictExact`, `NoRecompile`, `AcceptedAsDeclared` |
| `read_walk` | both pagination modes, both capabilities, two regions: `WalkHasOneSource`, `WalkExact`, `EveryPageReauthorised` |

Four runs end in a violation, each of a sentence in the code's own comments:

* `answered_write_receipt`: "Every terminal path after a *received* response
  has to emit one" (`server/mod.rs:2932`). A final 429 and a 410 are responses
  that the client reports as errors, and they leave no receipt.
* `definite_failure_receipt`: a failure receipt records "that a write which
  reached Mist **definitively** did not succeed" (`server/mod.rs:2926`). It is
  also emitted when only the verification read failed.
* `sites_oversized`: the map "never exceeds it and is never rejected outright
  for being oversized" (`site_discovery.rs:31`). Entries carried over for an
  incomplete organization come on top of the cap.
* `patch_null`: "`null` deletes a field rather than setting it to null"
  (`server/wan_write.rs:190`). Inside an object that the target does not have
  yet, nulls are copied.

One more comment is not what the code does, and its model shows it without a
run of its own: "Check for similar suffixes (last 5 chars)"
(`server/similarity.rs:100`) stands over a slice of the last five bytes. Those
are fewer letters where a letter takes several bytes, and the slice panics where
the cut falls inside one (`Panic`, which the run `parts` reaches).

### Bounds

* `ChangeSets`, `Calls`: two of each are needed for a race (two applies of one
  change set, or of two over one object); the crash runs have one change set,
  since recovery treats records one by one. `ImplementsLedger` and
  `WriteAuthorised` speak of one change set at a time; the proofs cover any
  number.
* `Values`: two, enough to tell `before`, `after` and "moved back" apart.
* `MaxEdits`, `MaxCrashes`, `MaxTime`: two edits let an object move and move
  back; one crash at every point of the lifecycle; one tick after which a plan
  is expired (in `lifecycle_lab`; the other runs leave the clock still, and the
  proofs cover every clock).
* `HourlyLimit = 2`, `HumanReserve = 1`, three callers: both pools can be spent
  within a window while another call is on the wire. `MaxHeader` exceeds
  `MaxRetryWait`, so the cap on `Retry-After` matters.
* Sites: an organization with up to five entries, one of them invalid, and two
  pages of two has full and short pages, listings that end at a page boundary
  and listings that the page bound cuts; the cap of three is hit by either
  organization. One change and two failures hit every point of a pass.
* JSON: two keys and depth three, which reaches a null inside an object inside
  an array and a value that changes kind at each level.
* Records: up to three with page limits one and two, so an exact multiple, a
  short last page and an empty listing all occur.

* Validation: one operation with a path and a query parameter of one name, a
  body, and two statuses with two media types each has every pair of slots that
  could be confused; three calls let two threads miss together and a third hit.
* Schemas: unions of two branches, an object or array level above and below,
  properties called `type` and `required`; bodies one level deeper than the
  limit of two, and one member more than the limit of two.
* Catalogs of two operations: every way two can collide, and a follow-up that
  comes later, is missing, or is no GET.
* Ids of up to four letters over a, b and A, and of up to two or three with an
  accented e (two bytes), a dotted capital I (two letters of three bytes in
  lower case) and the Kelvin sign (three bytes, one in lower case); suffixes of
  two bytes: the whole formula of the score is exercised, with the ratio on both
  sides, and the cut at the start of a letter and inside one.
* Tool calls: every named tool with every selector, each id in scope, out of
  scope or malformed, and the dispatchers with ids in path and query.
* Processes: a server with every combination of transport, audit file, evidence
  and token file that the steps tell apart, beside a token command; one edit of
  a token file, since a reload only sees the present content.

Deadlock is checked except in the runs where the system may really stop: every
part of `parts` and the plan of `patch_null` end with their result, validations
end after `MaxCalls`, and a caller whose token lost its scope gets nothing more
in `ReadDispatch`.

### Fairness

* `ChangeSet`: a started call is polled to its end (weak fairness of its
  steps), since every await in the handler has a deadline in the HTTP client or
  is local I/O, and the device guard is a fair lock (strong fairness of taking
  it). Nothing is assumed of Mist, approvers or callers.
* `MistClient`: polling, the clock, and tokio's first-in first-out semaphore,
  which the model has as a queue.
* `SiteDiscovery`: the refresh loop goes on. That tenants and network become
  quiet follows from the bounds on changes and failures.

## 4. Proofs

Every theorem is for all values of the constants that the module's assumptions
admit. Most assumptions are about the shape of the constants. Those that say
more:

* `DiscoveryAssumption`: no organization is listed twice, which
  `validate_allowed_orgs` checks, and the pages reach beyond the cap, as the
  constants in `site_discovery.rs` do;
* `SurfaceAssumption`: arguments are as deserialization leaves them, reads are
  GETs as the load of the catalog checks, and no operation names an organization
  and a site, which is true of the pinned catalog;
* `PinnedAssumption`: path parameters, method and capability of the operations
  that named tools resolve to, as `docs/mist-api/catalog.json` has them;
* `JsonAssumption`, `MergeAssumption`, `SchemasAssumption`: JSON values are finite
  trees, the sets of values are closed under parts, merge and relaxation, and
  schemas are as in the catalog (`AsInCatalog`, above);
* `MessagesAssumption`: the job of a message has the steps that
  `SchemaValidation` computes for it;
* `WordsAssumption`: ids and what lower case makes of them are sequences of
  numbers, the code points, and the catalog has finitely many. Nothing restricts
  ids to ASCII, and lower case may be any function of words.

### The lifecycle

`ChangeSetProofs` proves that `IInv` is an invariant, and from it

* `TypeCorrect`: `Spec => []TypeOK`,
* `SpentOnce`: `Spec => []ApprovalSpentOnce`,
* `Authorisation`: `Spec => []WriteAuthorised`,
* `MarkerTruthful`: `Spec => []UnmarkedNeverSent`,
* `LedgerRefined`: `Spec => ImplementsLedger`.

None of the middle three is inductive. That a write is issued at most once needs
to know that at "write" nothing was sent yet (`ClaimOwned`), that a claim takes
the record out of `approved` for good (`SentUnderClaim`: what was sent is in
`applying`, `applied` or `failed`), and that two calls past `fetch` on one
change set are on one device and so are the same call (`CallBound` and
`GuardHeld`). That the intent precedes the write is carried by `ClaimOwned`
from `claim` on. `AuthorisedPastPlanned` says that only an entitled approval
leads out of `planned`. Crash recovery keeps all of it because a record without
the marker has not been sent. The proof has one step per action and under it
one per conjunct the action touches; `lifecycle_crash` and `lifecycle_race`
check the consequences of `IInv`.

The refinement maps a record to its entry in the ledger (`LedgerView`; a
record that is `applied` or `failed` is closed) and has one step per action: an action that
moves a record moves its entry (`LedgerMoves`), every other one is a stutter
(`LedgerStutter`). `IInv` is needed where the ledger's guard says more than the
code's: that the entry is granted when it is claimed, and claimed and unwritten
when the write leaves.

Its second part proves another invariant, `HInv`, relative to `IInv`,
and from it

* `StrandedByFaultOnly`: `Spec => []StrandedOnlyAfterFault`,
* `DriftIsFinal`: `Spec => []DriftedNeverWritten`,
* `ReceiptsTruthful`: `Spec => []ReceiptMatchesState`,
* `AppliedObserved`: `Spec => []AppliedWasHeld`,
* `UpdatesNotLost`: `Spec => NoLostUpdate`, an action property.

All five rest on the device guard: past the fetch of the record one call at
most works on the change sets of a device (`SoleWorker`), so the state that
this call saw is still there when it acts (`ApprovalKept`), a claim has its
call beside it (`ClaimWorked`), a drifted record is on its way to `failed`
(`DriftSpent`), a success receipt has nobody beside it who could settle
otherwise (`ReceiptSettles`), and from the drift check to the arrival of the
write only an outsider can have changed the object (`UnchangedSinceCheck`).
`ClaimWorked` and `DriftSpent` hold up to the first crash or failed state write,
as the properties they serve do; the others hold throughout.

### The client

`MistClientProofs` proves `BudgetConsistent` (the two pools add up, `Standard`
stays within the limit less the reserve) and from it `HumansKeepReserve`
(`Spec => []HumanHeadroom`), for every limit and reserve; then `ClientInductive`
for `ClientInv`, and from it `ClientTypeCorrect` (`TypeOK`), `PermitsNeverLost`
(`PermitsConserved`) and `RequestsBounded` (`WireBounded`). `WireBounded` is not
inductive: a request that is sent must have been counted before. `WireAccounted`
adds the requests that calls in progress may still send (`Pending`, one per
call and remaining attempt), so that a charge pays for all its attempts at once
and sending moves one from pending to sent; the calls that outlive their window
are at most as many as the permits, which is where `PermitsConserved` comes in.

### Discovery

`SiteDiscoveryProofs` proves `DiscoveryInductive` for `DiscoveryInv`, and from
it `FailedOrgsKept` (`Spec => FailedOrgKeepsSites`) and `CompletedExact`
(`Spec => CompletePassExact`), for any organizations, page sizes, page bounds
and caps. The invariant follows the scan: an organization to come has nothing
in the map (`ToCome`), the one under way has the valid entries of its full pages
(`Underway`), one that is through has its list unless it failed, was truncated,
or changed (`Through`). Two facts carry it: pages of a listing that stays are
consecutive and lose nothing at their boundaries (`PageEntries`), and
`MAX_PAGES_PER_ORG` full pages of valid entries are more than the map may hold,
so the cap stops the scan before the page bound does. `FailedOrgsKept` needs
that the snapshot is still the map in force at the end of the pass, since no
other step writes it (`SnapshotHeld`).

### Reads

`ReadDispatchProofs` proves `DispatchInductive` for `DispatchInv`, and from it
`PagesReauthorised` (`Spec => EveryPageReauthorised`), `OneSource`
(`Spec => []WalkHasOneSource`) and `WalksExact` (`Spec => []WalkExact`), for any
cursors that callers may present. A continuation on the wire agrees with its
cursor and with the region in force (`CallsBound`), and the cursor of a walk with
the source of all its pages (`WalksBound`). For exactness, a walk has collected
the first records of its listing, and its cursor stands behind exactly those
(`Reached`, `Behind`): by count under `page`, by the last record under
`search_after`, which needs that records are in order and without gaps
(`Consecutive`). The proof is the argument that the next cursor points neither
one page too far nor one too near at an exact multiple of the page size.

### Catalog and tools

`PartsProofs` proves of a load that the index leads from each id to its
operation and to no other (`LookupExact`) and that every mutation of a loaded
catalog can be confirmed (`ConfirmedByCatalog`: `LoadSpec => []MutationsVerifiable`),
from `LoadInv`, which says that the index has the operations scanned so far. Of a
tool call it proves `RequestsInScope` (`CallSpec => []SentWithinScope`): the
preflight sees the arguments before serialization and the split into path and
query, and neither adds, renames or drops an organization or a site
(`TargetSerialized`, `SplitInScope`). `ListedInvocable`
(`CallSpec => []FoundIsInvocable`) goes through the checks of
`dispatch_catalogued_read` for everything that the filters of a search let
through.

`ToolsFit` (`CallSpec => []NamedToolsFit`) compares the tables of `server/wan.rs`
and of the tool handlers with the pinned catalog: for every named tool, every
selector that its arguments admit and either scope, the operation exists, takes
the path parameters that the tool fills in, and has the capability the tool asks
for. The proof has one step per table, and under it one per row; what remains
after that is that the checks of `dispatch_catalogued_read` can only refuse the
call for its target, its page or its scope.

### The process

`PartsProofs` proves `StartInductive` for `StartInv`, and from it
`KeyNeverRotated` (`SignedKeyKept`), `HangupSurvived` (`RotationSurvived`),
`SpoolFlushed` (`SpoolDelivered`) and `TokensConfigured` (`TokensAsConfigured`),
for any number of processes and any command lines. `KeyHeld` has the argument
for the key: while no two processes provision at once, the one that does found
no key, so nothing is signed yet. `HooksHeld` and `TokensHeld` say which hooks
and which store a process has at each step.

### The validator cache

`ValidatorCacheProofs` proves `CacheTypeCorrect`, `VerdictsAreOwn`
(`Spec => []VerdictExact`) and `CompiledOncePerThread` (`Spec => []NoRecompile`)
for any number of threads, slots, messages and steps. `VerdictExact` looks at
finished validations only; its invariant says of a cache entry that it is the
validator of the slot it is filed under (`CacheSound`), and of a thread at work
that all steps behind it passed, all alternatives behind it failed, and what it
holds is the validator of its current slot (`Working`). `NoRecompile` needs
that what a thread compiled is in the cache but for the moment before it
inserts it, unless the lock is poisoned (`Filed`). The key being the whole slot
is used in one lemma (`KeysAreSlots`), which is where a coarser key would fail.

`DeclaredAccepted` (`Spec => []AcceptedAsDeclared`) adds what the steps of a
message amount to. By `VerdictExact` a verdict is the conjunction over the steps
of the disjunction over their alternatives; one lemma per kind of step says what
it contributes (a parameter of the other location passes, a declared one is held
to its own slot, a body is held to one of the declared JSON media types), and the
lemmas about requests and responses put them together into the
declaration, which is stated without steps.

### Recursion over JSON

`RankedRecursion` proves that every set of ranked values on which a predicate is
somewhere true has a value of least rank (`LeastRank`), and that a recursive
definition which only looks at values of lower rank has exactly one solution
(`RecursionDefines`), in the steps usual for such theorems: solutions on the
values below a rank agree, and exist, by the least counterexample.
`JsonProofs` instantiates it for each recursive function of `MergePatch`,
`SchemaRelax` and `JsonValue`, with the nesting of a value as its rank. A lemma
`...Of` unfolds each function once, and `JsonInduction` is the induction its
other lemmas use. The theorems:

* `MergedAsRFC7386` (`StagedIsMergePatch`): both merges agree field by field once
  their nulls are dropped, by induction over the patch;
* `NoRefusedContent` (`RefusedNeverStaged`): each part and each
  `mist_configured` field of a merge comes from the object or from the patch;
* `BoundsAreExact` (`BoundsExact`): the walk with its depth counter fails just
  when the height or some container is beyond the limit;
* `DeclaredAdmitted` (`NothingDeclaredLost`) and `ShapeKept`
  (`StructureSurvives`): by induction over the schema, keyword by keyword.

None of the five bounds the values: what TLC checks on two keys and depth three
holds for any number of keys and any nesting.

### Suggestions

`SuggestedBest` (`SimilarSpec => []BestSuggested`) is proved in `PartsProofs` for
any catalog, any unknown id, any lower case and any limits. Where the search
answers, the answer is the best; and it answers whenever the unknown id and the
catalogued ones are ASCII in lower case, which those of the pinned catalog are.
An unknown id with other letters may go without: `token_similarity_boost` slices
the lowercased id five bytes from its end, and where that byte lies inside a
letter the slice panics. `find_similar_operations` scores every catalogued id
that differs in more than case, so one such id is enough; the call unwinds
(`Panic`) and neither suggestions nor the error are composed. `Scorable` is the
exact condition, and `AsciiSliceable` shows that ASCII words meet it: they take
a byte for each letter (`AsciiBytes`), so the cut falls between two.

Letters and bytes are kept apart as in the code: the distance and the common
prefix count letters of the lowercased ids, the ratio and the score divide by
the length in bytes of the ids as they were given (`MaxLen`), and the suffix is
one of bytes of the lowercased id. `Bytes` counts a byte for each letter and one
more for each of the three code points from which UTF-8 takes another.

The proof that an answer is the best has two parts.

`DistanceExact` says that the last cell of the table of `levenshtein_distance` is
the least number of insertions, deletions and replacements that lead from one word
to the other. `RankedRecursion` unfolds the table (`CellOf`) and the sets of words
that k edits make (`WithinMore`). One direction is that an edit changes the distance to
any word by one at most (`EditCounts`), so k edits cannot lead further than
distance k: a lemma for each kind of edit compares two tables cell by cell
(`Replaced`, `Inserted`, `Removed`), from the columns that both words share on.
The other is that every cell is reached by as many edits as it says, with no word
in between longer than the longer of the two (`CellsReached`): removing the last
letter first, inserting the last letter last, or making the same edits with a letter
more on both words (`ReachDown`, `ReachRight`, `ReachAcross`). Both go by
induction over the grid (`GridInduction`).

The ranking is a strict total order of the candidates: scores compare as
fractions, which is transitive because a candidate's length is not zero
(`ScoreType`), and ids that tie are ordered by their bytes (`BeforeTransitive`,
`BeforeTotal`). So every candidate has a place of its own, all places are taken
(`PlaceOnce`, `PlaceTaken`), the list holds exactly the first places (`FoundOf`),
and what is left out does not score better.

### Only model-checked

* Liveness, which is out of the prover's reach: `ApplyReturns`, `CallReturns`,
  `Converges`.
* The four violated comments: a counterexample is all there is to show.

## 5. Not modelled

* What a panic does to a call beyond its own handler. `Similarity` has the one
  that a caller's id can bring about; `ReadDispatch` and `ToolSurface` take an
  unknown operation id to be answered with its error.
* Execute classification: constant lists without a caller, compared with the
  catalog by the repository's own tests.
* The evaluation of JSON Schema beyond the keywords that relaxation touches,
  `$ref` and the components registry; the text of validation errors.
* The tools that answer from constants (`get_mist_operation_schema`,
  `list_mist_orgs`, `list_tools`), and `get_mist_change_set`, which only reads.
* Output redaction, audit lines, formatting of results.
* TLS, the crypto provider, host and origin policy, request limits and the
  router, which are code of the `mecmcp` crates; batches in the preflight.
* Encoding limits of cursors, and limits in bytes.
* A restart that changes lab mode.

## 6. Plan

1. A composition of `ReadDispatch` and `SiteDiscovery`: a site that left the
   tenant becomes unreachable after a complete pass.
2. A restart that changes lab mode, and continuations by cursor in
   `ToolSurface`.
