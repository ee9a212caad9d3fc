------------------------------ MODULE ChangeSet ------------------------------
(***************************************************************************)
(* The change-set lifecycle of the Mist MCP server: plan_mist_change,      *)
(* approve_mist_change_set and apply_mist_change_set (server/mod.rs), and   *)
(* stage_plan (server/change_set.rs).                                      *)
(*                                                                         *)
(* Each tool call is a process with a program counter; a step ends where   *)
(* the handler awaits or persists something, so calls interleave and the   *)
(* server may crash between any two steps.  External to the repository,    *)
(* and modelled from its use here: the coordinator of mecmcp-changeset     *)
(* (record store, claim, device guard, recovery), the evidence recorder of *)
(* mecmcp-audit, and Mist itself with its other administrators.            *)
(***************************************************************************)
EXTENDS Naturals, FiniteSets

CONSTANTS
  ChangeSets,   \* the change-set ids that stage_plan may draw
  Calls,        \* concurrent tool calls
  Principals,   \* token names (and "stdio")
  Humans,       \* the principals whose verified actor type is Human
  Devices,      \* object_key values: one per object, one per kind for creates
  Existing,     \* the device keys that name an object Mist already holds
  Orgs,         \* organization ids
  HomeOrg,      \* the organization an existing object belongs to
  Values,       \* configurations an object can have
  None,         \* null: no value, no call, no change set
  LabMode,      \* --lab-mode: the approval is waived when the plan is staged
  EvidenceOn,   \* an evidence recorder is configured
  Faults,       \* which of "state", "evidence" and "crash" faults may happen
  PlanTTL,      \* ticks until a plan expires (expires_at_unix = now + 3600)
  MaxTime,      \* bound: the last tick of the clock
  MaxEdits,     \* bound: edits by other Mist administrators
  MaxCrashes    \* bound: crashes of this server

ASSUME SetsAssumption ==
  /\ Humans \subseteq Principals
  /\ Existing \subseteq Devices
  /\ HomeOrg \in [Existing -> Orgs]
  /\ Orgs # {}
  /\ Faults \subseteq {"state", "evidence", "crash"}
  /\ LabMode \in BOOLEAN
  /\ EvidenceOn \in BOOLEAN

ASSUME BoundsAssumption ==
  PlanTTL \in Nat /\ MaxTime \in Nat /\ MaxEdits \in Nat /\ MaxCrashes \in Nat

ASSUME DistinctAssumption ==
  /\ None \notin ChangeSets \cup Calls \cup Principals \cup Values
  /\ None \notin Devices \cup Orgs
  /\ Devices \cap ChangeSets = {}
  /\ "waived" \notin Principals

VARIABLES
  state,       \* ChangeSetRecord.state; "absent" before the record is inserted
  plan,        \* the immutable part of the ChangeSetRecord
  approver,    \* None, the approving principal, or "waived"
  handleless,  \* ChangeSetRecord.apply_without_handle
  pc, call,    \* the running tool calls: where they are, their locals
  guard,       \* device_guard: the call that holds each device key
  evidence,    \* entries of the evidence log, per change set
  mist,        \* external: the objects Mist holds
  wire,        \* external: what became of the write request of a change set
  allowed,     \* allowed_orgs of the running configuration
  now,         \* wall clock
  sends,       \* history: number of write requests issued per change set
  answered,    \* history: writes whose response arrived
  held,        \* history: targets seen equal to `after` since the write left
  raced,       \* history: targets changed behind the apply's drift check
  drifted,     \* history: change sets whose drift check found a mismatch
  stateFault,  \* history: a write of the record store failed
  edits, crashes

record == <<state, plan, approver, handleless>>
calls  == <<pc, call, guard>>
world  == <<mist, wire>>
history == <<sends, answered, held, raced, drifted, stateFault>>
bounds == <<edits, crashes>>

vars == <<record, calls, evidence, world, allowed, now, history, bounds>>

-----------------------------------------------------------------------------
(* Types *)

States == {"absent", "planned", "approved", "applying", "applied", "failed"}

PlanPCs  == {"plan_read", "stage", "waive"}
GuardPCs == {"fetch", "drift", "drift_claim", "drift_settle", "intent", "claim",
             "write", "await", "verify", "failure_receipt", "receipt", "settle"}
PCs == {"idle", "guard"} \cup PlanPCs \cup GuardPCs

Plan == [owner: Principals, device: Devices, org: Orgs,
         before: Values \cup {None}, after: Values, expires: Nat]

Call == [cs: ChangeSets \cup {None}, device: Devices \cup {None},
         org: Orgs \cup {None}, who: Principals \cup {None},
         before: Values \cup {None}, verified: BOOLEAN]

NoCall == [cs |-> None, device |-> None, org |-> None, who |-> None,
           before |-> None, verified |-> FALSE]

Receipts == {"receipt_applied", "receipt_failed"}
Entries  == {"proposal", "approval", "apply_intent"} \cup Receipts

Objects == Devices \cup ChangeSets   \* a create's object is named by its change set

RecordTypeOK ==
  /\ state \in [ChangeSets -> States]
  /\ plan \in [ChangeSets -> Plan \cup {None}]
  /\ approver \in [ChangeSets -> Principals \cup {None, "waived"}]
  /\ handleless \in [ChangeSets -> BOOLEAN]

CallTypeOK ==
  /\ pc \in [Calls -> PCs]
  /\ call \in [Calls -> Call]
  /\ guard \in [Devices -> Calls \cup {None}]

WorldTypeOK ==
  /\ evidence \in [ChangeSets -> SUBSET Entries]
  /\ mist \in [Objects -> Values \cup {None}]
  /\ wire \in [ChangeSets -> {"unsent", "inflight", "applied", "rejected"}]
  /\ allowed \subseteq Orgs
  /\ now \in Nat

HistoryTypeOK ==
  /\ sends \in [ChangeSets -> Nat]
  /\ answered \subseteq ChangeSets
  /\ held \subseteq ChangeSets
  /\ raced \subseteq ChangeSets
  /\ drifted \subseteq ChangeSets
  /\ stateFault \in BOOLEAN
  /\ edits \in Nat
  /\ crashes \in Nat

TypeOK == RecordTypeOK /\ CallTypeOK /\ WorldTypeOK /\ HistoryTypeOK

Init ==
  /\ state = [c \in ChangeSets |-> "absent"]
  /\ plan = [c \in ChangeSets |-> None]
  /\ approver = [c \in ChangeSets |-> None]
  /\ handleless = [c \in ChangeSets |-> FALSE]
  /\ pc = [p \in Calls |-> "idle"]
  /\ call = [p \in Calls |-> NoCall]
  /\ guard = [d \in Devices |-> None]
  /\ evidence = [c \in ChangeSets |-> {}]
  /\ \E m \in [Existing -> Values] :
       mist = [o \in Objects |-> IF o \in Existing THEN m[o] ELSE None]
  /\ wire = [c \in ChangeSets |-> "unsent"]
  /\ allowed = Orgs
  /\ now = 0
  /\ sends = [c \in ChangeSets |-> 0]
  /\ answered = {} /\ held = {} /\ raced = {} /\ drifted = {}
  /\ stateFault = FALSE
  /\ edits = 0 /\ crashes = 0

-----------------------------------------------------------------------------
(* Helpers *)

\* The verb is read back from the fingerprint: "create" iff `before` was null.
IsCreate(c) == plan[c].before = None

\* The object a change set writes and verifies.
Target(c) == IF IsCreate(c) THEN c ELSE plan[c].device

Goto(p, label) ==
  /\ pc' = [pc EXCEPT ![p] = label]
  /\ UNCHANGED <<call, guard>>

\* Mutant of Return: _guard outlives the handler.
ReturnLeaksGuard(p) ==
  /\ pc' = [pc EXCEPT ![p] = "idle"]
  /\ call' = [call EXCEPT ![p] = NoCall]
  /\ UNCHANGED guard

\* The handler returns: locals are dropped and _guard is released.
Return(p) ==
  /\ pc' = [pc EXCEPT ![p] = "idle"]
  /\ call' = [call EXCEPT ![p] = NoCall]
  /\ guard' = [d \in Devices |-> IF guard[d] = p THEN None ELSE guard[d]]

Record(c, entry) == evidence' = [evidence EXCEPT ![c] = @ \cup {entry}]

\* A locked operation of the record store that needs c to be in `from` and is
\* refused, or whose write of the state file fails: the record stays as it was.
StoreRefuses(c, from) ==
  /\ state[c] # from \/ "state" \in Faults
  /\ stateFault' = (stateFault \/ state[c] = from)
  /\ UNCHANGED record

\* History bookkeeping for a change of the object o to v in Mist.
Holding(m, sent) ==
  {c \in ChangeSets : sent[c] > 0 /\ m[Target(c)] = plan[c].after}

\* Change sets of o past their drift check, whose handler is still running.
PastDriftCheck(o) ==
  {c \in ChangeSets : \E p \in Calls :
     /\ call[p].cs = c
     /\ pc[p] \in {"intent", "claim", "write", "await"}
     /\ ~IsCreate(c) /\ plan[c].device = o}

-----------------------------------------------------------------------------
(* plan_mist_change and stage_plan *)

\* Requests refused for their patch or their organization change nothing.
PlanStart(p) ==
  \E who \in Principals, d \in Devices, org \in allowed, verb \in {"create", "update"} :
    /\ pc[p] = "idle"
    /\ verb = "update" => d \in Existing
    /\ call' = [call EXCEPT ![p] = [NoCall EXCEPT !.who = who, !.device = d, !.org = org]]
    /\ pc' = [pc EXCEPT ![p] = IF verb = "update" THEN "plan_read" ELSE "stage"]
    /\ UNCHANGED <<record, guard, evidence, world, allowed, now, history, bounds>>

\* The read of the current object; any error ends the call.
PlanRead(p) ==
  LET d == call[p].device IN
  /\ pc[p] = "plan_read"
  /\ \/ /\ mist[d] # None
        /\ call[p].org = HomeOrg[d]
        /\ call' = [call EXCEPT ![p].before = mist[d]]
        /\ pc' = [pc EXCEPT ![p] = "stage"]
        /\ UNCHANGED guard
     \/ Return(p)
  /\ UNCHANGED <<record, evidence, world, allowed, now, history, bounds>>

\* `after` is the merge of `before` and the patch (module MergePatch): any value.
\* insert_change_set may refuse (capacity, size, an unresolved record, I/O).
Stage(p) ==
  /\ pc[p] = "stage"
  /\ \/ \E c \in ChangeSets, after \in Values :
          /\ state[c] = "absent"
          /\ state' = [state EXCEPT ![c] = "planned"]
          /\ plan' = [plan EXCEPT ![c] =
               [owner |-> call[p].who, device |-> call[p].device, org |-> call[p].org,
                before |-> call[p].before, after |-> after, expires |-> now + PlanTTL]]
          /\ IF EvidenceOn THEN Record(c, "proposal") ELSE UNCHANGED evidence
          /\ IF LabMode
               THEN /\ pc' = [pc EXCEPT ![p] = "waive"]
                    /\ call' = [call EXCEPT ![p].cs = c]
                    /\ UNCHANGED guard
               ELSE Return(p)
     \/ Return(p) /\ UNCHANGED <<state, plan, evidence>>
  /\ UNCHANGED <<approver, handleless, world, allowed, now, history, bounds>>

\* external: ChangesetCoordinator::waive_approval, reached only in lab mode.
Waive(p) ==
  LET c == call[p].cs IN
  /\ pc[p] = "waive"
  /\ Return(p)
  /\ \/ /\ state[c] = "planned"
        /\ state' = [state EXCEPT ![c] = "approved"]
        /\ approver' = [approver EXCEPT ![c] = "waived"]
        /\ UNCHANGED <<plan, handleless, stateFault>>
     \/ StoreRefuses(c, "planned")
  /\ UNCHANGED <<evidence, world, allowed, now, bounds,
                 sends, answered, held, raced, drifted>>

-----------------------------------------------------------------------------
(* approve_mist_change_set *)

\* Mutant of MayApprove: the kind of actor is not looked at.
MayApproveAnyActor(c, who) == who # plan[c].owner

\* The caller may approve: distinct from the owner, and a verified human.
MayApprove(c, who) == who # plan[c].owner /\ who \in Humans

\* external: ChangesetCoordinator::approve_change_set, one locked operation.
Approve(c, who) ==
  /\ state[c] = "planned"
  /\ MayApprove(c, who)
  /\ now <= plan[c].expires
  /\ state' = [state EXCEPT ![c] = "approved"]
  /\ approver' = [approver EXCEPT ![c] = who]
  /\ IF EvidenceOn THEN Record(c, "approval") ELSE UNCHANGED evidence
  /\ UNCHANGED <<plan, handleless, calls, world, allowed, now, history, bounds>>

-----------------------------------------------------------------------------
(* apply_mist_change_set *)

ApplyStart(p) ==
  \E c \in ChangeSets, d \in Devices :
    /\ pc[p] = "idle"
    /\ state[c] # "absent"
    /\ call' = [call EXCEPT ![p] = [NoCall EXCEPT !.cs = c, !.device = d]]
    /\ pc' = [pc EXCEPT ![p] = "guard"]
    /\ UNCHANGED <<record, guard, evidence, world, allowed, now, history, bounds>>

\* Mutant of AcquireGuard: the guard is taken whoever holds it.
AcquireGuardUnchecked(p) ==
  /\ pc[p] = "guard"
  /\ guard' = [guard EXCEPT ![call[p].device] = p]
  /\ pc' = [pc EXCEPT ![p] = "fetch"]
  /\ UNCHANGED <<record, call, evidence, world, allowed, now, history, bounds>>

\* Step 1: the device guard, awaited and then held until the handler returns.
AcquireGuard(p) ==
  LET d == call[p].device IN
  /\ pc[p] = "guard"
  /\ guard[d] = None
  /\ guard' = [guard EXCEPT ![d] = p]
  /\ pc' = [pc EXCEPT ![p] = "fetch"]
  /\ UNCHANGED <<record, call, evidence, world, allowed, now, history, bounds>>

\* Steps 2 and 3: the record must be for this device, approved and unexpired.
Applicable(p) ==
  LET c == call[p].cs IN
  /\ plan[c].device = call[p].device
  /\ state[c] = "approved"
  /\ now <= plan[c].expires

Fetch(p) ==
  /\ pc[p] = "fetch"
  /\ IF Applicable(p)
       THEN Goto(p, IF IsCreate(call[p].cs) THEN "intent" ELSE "drift")
       ELSE Return(p)
  /\ UNCHANGED <<record, evidence, world, allowed, now, history, bounds>>

\* Step 4: re-read the object; a read error ends the call, a mismatch spends
\* the approval, a match goes on to the write.
DriftRead(p) ==
  LET c == call[p].cs
      d == plan[c].device IN
  /\ pc[p] = "drift"
  /\ \/ /\ mist[d] # None
        /\ \/ /\ mist[d] = plan[c].before
              /\ Goto(p, "intent")
              /\ UNCHANGED drifted
           \/ /\ mist[d] # plan[c].before
              /\ Goto(p, "drift_claim")
              /\ drifted' = drifted \cup {c}
        /\ raced' = raced \ {c}
     \/ Return(p) /\ UNCHANGED <<drifted, raced>>
  /\ UNCHANGED <<record, evidence, world, allowed, now, bounds,
                 sends, answered, held, stateFault>>

\* external: claim_change_set_for_apply, the only edge Approved -> Applying.
\* Without a handle the record is marked so that recovery leaves it alone.
ClaimForApply(c, withoutHandle) ==
  /\ state[c] = "approved"
  /\ state' = [state EXCEPT ![c] = "applying"]
  /\ handleless' = [handleless EXCEPT ![c] = withoutHandle]
  /\ UNCHANGED <<plan, approver, stateFault>>

\* Mutant of DriftClaim: the drift is reported and the approval kept.
DriftClaimKeepsApproval(p) ==
  /\ pc[p] = "drift_claim"
  /\ Return(p)
  /\ UNCHANGED <<record, evidence, world, allowed, now, bounds, history>>

\* ApplyHandle::Expected: nothing was sent, so a crash here must read as Failed.
DriftClaim(p) ==
  LET c == call[p].cs IN
  /\ pc[p] = "drift_claim"
  /\ \/ ClaimForApply(c, FALSE) /\ Goto(p, "drift_settle")
     \/ StoreRefuses(c, "approved") /\ Return(p)
  /\ UNCHANGED <<evidence, world, allowed, now, bounds,
                 sends, answered, held, raced, drifted>>

\* external: update_change_set, a legal Applying -> Applied or Failed edge.
UpdateChangeSet(c, new) ==
  \/ /\ state[c] = "applying"
     /\ state' = [state EXCEPT ![c] = new]
     /\ UNCHANGED <<plan, approver, handleless, stateFault>>
  \/ StoreRefuses(c, "applying")

DriftSettle(p) ==
  /\ pc[p] = "drift_settle"
  /\ UpdateChangeSet(call[p].cs, "failed")
  /\ Return(p)
  /\ UNCHANGED <<evidence, world, allowed, now, bounds,
                 sends, answered, held, raced, drifted>>

\* The allowlist is checked again, then the intent is persisted or the apply
\* refused, while the change set is still Approved.
Intent(p) ==
  LET c == call[p].cs IN
  /\ pc[p] = "intent"
  /\ \/ /\ plan[c].org \in allowed
        /\ Goto(p, "claim")
        /\ IF EvidenceOn THEN Record(c, "apply_intent") ELSE UNCHANGED evidence
     \/ /\ \/ plan[c].org \notin allowed
           \/ EvidenceOn /\ "evidence" \in Faults
        /\ Return(p)
        /\ UNCHANGED evidence
  /\ UNCHANGED <<record, world, allowed, now, history, bounds>>

\* Mutant of Claim: ApplyHandle::Expected for a write that has no handle.
ClaimExpectsHandle(p) ==
  LET c == call[p].cs IN
  /\ pc[p] = "claim"
  /\ \/ ClaimForApply(c, FALSE) /\ Goto(p, "write")
     \/ StoreRefuses(c, "approved") /\ Return(p)
  /\ UNCHANGED <<evidence, world, allowed, now, bounds,
                 sends, answered, held, raced, drifted>>

\* Step 5: ApplyHandle::None, a Mist write has no handle to poll.
Claim(p) ==
  LET c == call[p].cs IN
  /\ pc[p] = "claim"
  /\ \/ ClaimForApply(c, TRUE) /\ Goto(p, "write")
     \/ StoreRefuses(c, "approved") /\ Return(p)
  /\ UNCHANGED <<evidence, world, allowed, now, bounds,
                 sends, answered, held, raced, drifted>>

\* Step 6: execute_as either fails before anything leaves (budget, connect) or
\* puts the request on the wire.
SendWrite(p) ==
  LET c == call[p].cs IN
  /\ pc[p] = "write"
  /\ \/ /\ wire' = [wire EXCEPT ![c] = "inflight"]
        /\ sends' = [sends EXCEPT ![c] = @ + 1]
        /\ held' = held \cup Holding(mist, sends')
        /\ Goto(p, "await")
     \/ /\ Goto(p, "settle")
        /\ UNCHANGED <<wire, sends, held>>
  /\ UNCHANGED <<record, evidence, mist, allowed, now, bounds,
                 answered, raced, drifted, stateFault>>

\* The response arrives.  A 429 left after the retries and a 410 are errors of
\* execute_as: no receipt.  A create needs an id in the body, which only an
\* accepted one carries; the status of an update is not looked at.
WriteAnswered(p) ==
  LET c == call[p].cs IN
  /\ pc[p] = "await"
  /\ wire[c] \in {"applied", "rejected"}
  /\ answered' = answered \cup {c}
  /\ \/ wire[c] = "rejected" /\ Goto(p, "settle")
     \/ IsCreate(c) /\ Goto(p, "failure_receipt")
     \/ IsCreate(c) /\ wire[c] = "applied" /\ Goto(p, "verify")
     \/ ~IsCreate(c) /\ Goto(p, "verify")
  /\ UNCHANGED <<record, evidence, world, allowed, now, bounds,
                 sends, held, raced, drifted, stateFault>>

\* Timeout or read error: Failed without a receipt, the outcome is unknown.
WriteTimeout(p) ==
  /\ pc[p] = "await"
  /\ Goto(p, "settle")
  /\ UNCHANGED <<record, evidence, world, allowed, now, history, bounds>>

\* Mutant of Verify: a successful read counts as verified.
VerifyAnyRead(p) ==
  /\ pc[p] = "verify"
  /\ \E readOk \in BOOLEAN : call' = [call EXCEPT ![p].verified = readOk]
  /\ pc' = [pc EXCEPT ![p] = "receipt"]
  /\ UNCHANGED <<record, guard, evidence, world, allowed, now, history, bounds>>

\* Step 7: verified iff the re-read succeeds and returns exactly `after`.
Verify(p) ==
  LET c == call[p].cs IN
  /\ pc[p] = "verify"
  /\ \E readOk \in BOOLEAN :
       call' = [call EXCEPT ![p].verified = readOk /\ mist[Target(c)] = plan[c].after]
  /\ pc' = [pc EXCEPT ![p] = "receipt"]
  /\ UNCHANGED <<record, guard, evidence, world, allowed, now, history, bounds>>

\* A receipt that cannot be persisted is only logged.
EmitReceipt(c, entry) ==
  \/ EvidenceOn /\ Record(c, entry)
  \/ (EvidenceOn => "evidence" \in Faults) /\ UNCHANGED evidence

\* Mutant of Receipt: an answered write is receipted as a success.
ReceiptIgnoresVerify(p) ==
  /\ pc[p] = "receipt"
  /\ EmitReceipt(call[p].cs, "receipt_applied")
  /\ Goto(p, "settle")
  /\ UNCHANGED <<record, world, allowed, now, history, bounds>>

Receipt(p) ==
  /\ pc[p] = "receipt"
  /\ EmitReceipt(call[p].cs,
       IF call[p].verified THEN "receipt_applied" ELSE "receipt_failed")
  /\ Goto(p, "settle")
  /\ UNCHANGED <<record, world, allowed, now, history, bounds>>

FailureReceipt(p) ==
  /\ pc[p] = "failure_receipt"
  /\ EmitReceipt(call[p].cs, "receipt_failed")
  /\ Goto(p, "settle")
  /\ UNCHANGED <<record, world, allowed, now, history, bounds>>

\* Mutant of Settle: a failed write goes back to Approved for a retry.
SettleForRetry(p) ==
  /\ pc[p] = "settle"
  /\ UpdateChangeSet(call[p].cs, IF call[p].verified THEN "applied" ELSE "approved")
  /\ Return(p)
  /\ UNCHANGED <<evidence, world, allowed, now, bounds,
                 sends, answered, held, raced, drifted>>

\* Mutant of Settle: the error paths return without update_change_set.
SettleOnlySuccess(p) ==
  /\ pc[p] = "settle"
  /\ IF call[p].verified THEN UpdateChangeSet(call[p].cs, "applied")
                         ELSE UNCHANGED <<record, stateFault>>
  /\ Return(p)
  /\ UNCHANGED <<evidence, world, allowed, now, bounds,
                 sends, answered, held, raced, drifted>>

\* Mutant of Settle: an unverified write gets a state of its own.
SettleUnverified(p) ==
  /\ pc[p] = "settle"
  /\ UpdateChangeSet(call[p].cs, IF call[p].verified THEN "applied" ELSE "unverified")
  /\ Return(p)
  /\ UNCHANGED <<evidence, world, allowed, now, bounds,
                 sends, answered, held, raced, drifted>>

\* Step 8, and the `let _ = update_change_set` of the error paths.
Settle(p) ==
  /\ pc[p] = "settle"
  /\ UpdateChangeSet(call[p].cs, IF call[p].verified THEN "applied" ELSE "failed")
  /\ Return(p)
  /\ UNCHANGED <<evidence, world, allowed, now, bounds,
                 sends, answered, held, raced, drifted>>

-----------------------------------------------------------------------------
(* external: Mist, its other administrators, the clock *)

\* A handler waits for the answer to c's write.
Awaited(c) == \E p \in Calls : pc[p] = "await" /\ call[p].cs = c

\* Mist carries out a request, possibly long after its caller gave up on it.
MistApply(c) ==
  LET o == Target(c) IN
  /\ wire[c] = "inflight"
  /\ ~IsCreate(c) => mist[o] # None
  /\ mist' = [mist EXCEPT ![o] = plan[c].after]
  /\ wire' = [wire EXCEPT ![c] = "applied"]
  /\ held' = held \cup Holding(mist', sends)
  /\ raced' = IF Awaited(c) THEN raced ELSE raced \cup (PastDriftCheck(o) \ {c})
  /\ UNCHANGED <<record, calls, evidence, allowed, now, bounds,
                 sends, answered, drifted, stateFault>>

MistReject(c) ==
  /\ wire[c] = "inflight"
  /\ wire' = [wire EXCEPT ![c] = "rejected"]
  /\ UNCHANGED <<record, calls, evidence, mist, allowed, now, history, bounds>>

\* Another administrator edits (or deletes) an object that exists.
ExternalEdit(o) ==
  \E v \in Values \cup {None} :
    /\ edits < MaxEdits
    /\ mist[o] # None
    /\ v # mist[o]
    /\ mist' = [mist EXCEPT ![o] = v]
    /\ held' = held \cup Holding(mist', sends)
    /\ raced' = raced \cup PastDriftCheck(o)
    /\ edits' = edits + 1
    /\ UNCHANGED <<record, calls, evidence, wire, allowed, now, crashes,
                   sends, answered, drifted, stateFault>>

Tick ==
  /\ now < MaxTime
  /\ now' = now + 1
  /\ UNCHANGED <<record, calls, evidence, world, allowed, history, bounds>>

\* The process dies and is started again, perhaps with another allowlist.  The
\* record store and the evidence log survive.  external: recovery settles an
\* interrupted apply that had a handle to expect, and leaves the others.
Recovered(c) ==
  IF state[c] = "applying" /\ ~handleless[c] THEN "failed" ELSE state[c]

CrashRestart ==
  /\ "crash" \in Faults
  /\ crashes < MaxCrashes
  /\ crashes' = crashes + 1
  /\ state' = [c \in ChangeSets |-> Recovered(c)]
  /\ pc' = [p \in Calls |-> "idle"]
  /\ call' = [p \in Calls |-> NoCall]
  /\ guard' = [d \in Devices |-> None]
  /\ allowed' \in (SUBSET Orgs) \ {{}}
  /\ UNCHANGED <<plan, approver, handleless, evidence, world, now, history, edits>>

-----------------------------------------------------------------------------
(* Specification *)

PlanStep(p)  == PlanRead(p) \/ Stage(p) \/ Waive(p)

ApplyStep(p) ==
  \/ Fetch(p) \/ DriftRead(p) \/ DriftClaim(p) \/ DriftSettle(p)
  \/ Intent(p) \/ Claim(p) \/ SendWrite(p) \/ WriteAnswered(p) \/ WriteTimeout(p)
  \/ Verify(p) \/ Receipt(p) \/ FailureReceipt(p) \/ Settle(p)

Next ==
  \/ \E p \in Calls :
       PlanStart(p) \/ PlanStep(p) \/ ApplyStart(p) \/ AcquireGuard(p) \/ ApplyStep(p)
  \/ \E c \in ChangeSets : \E who \in Principals : Approve(c, who)
  \/ \E c \in ChangeSets : MistApply(c) \/ MistReject(c)
  \/ \E o \in Objects : ExternalEdit(o)
  \/ Tick
  \/ CrashRestart

Spec == Init /\ [][Next]_vars

\* A started call is polled until it returns (every await has a deadline), and
\* the guard is a fair mutex.  Nothing forces a caller, Mist or an approver.
Fairness ==
  \A p \in Calls : WF_vars(PlanStep(p) \/ ApplyStep(p)) /\ SF_vars(AcquireGuard(p))

FairSpec == Spec /\ Fairness

-----------------------------------------------------------------------------
(* Properties *)

\* Whoever authorised c: a human other than its owner, or the lab-mode waiver.
Authorised(c) ==
  \/ approver[c] \in Humans /\ approver[c] # plan[c].owner
  \/ approver[c] = "waived" /\ LabMode

\* No write leaves the server for a change set unless a second human approved
\* it (or lab mode waived that) and the apply intent was already persisted
\* (apply_mist_change_set, "Persisted *before* that happens").
WriteAuthorised ==
  \A c \in ChangeSets : sends[c] > 0 =>
    Authorised(c) /\ (EvidenceOn => "apply_intent" \in evidence[c])

\* An approval buys one write: however many applies run, are retried, or are
\* cut off by a crash, apply_mist_change_set issues a change set's write once.
ApprovalSpentOnce == \A c \in ChangeSets : sends[c] <= 1

\* The apply_without_handle marker is truthful: a record that failed or is
\* applying without it, crash recovery's Failed included, never sent anything.
UnmarkedNeverSent ==
  \A c \in ChangeSets :
    state[c] \in {"applying", "failed"} /\ ~handleless[c] => sends[c] = 0

\* Applied is an observation: the target really held `after` at some moment
\* since the write left (the re-read of step 7 happens after the write).
AppliedWasHeld == \A c \in ChangeSets : state[c] = "applied" => c \in held

\* A success receipt and a Failed record for one change set never coexist
\* unless storing the outcome failed, and then the record is still Applying.
ReceiptMatchesState ==
  \A c \in ChangeSets :
    "receipt_applied" \in evidence[c] => state[c] \in {"applying", "applied"}

\* Only a crash or a failed state write strands a record in Applying with no
\* call working on it ("stranded with no Mist write and no way forward").
StrandedOnlyAfterFault ==
  crashes = 0 /\ ~stateFault =>
    \A c \in ChangeSets : state[c] = "applying" =>
      \E p \in Calls : call[p].cs = c /\ pc[p] \in GuardPCs

\* "A drifted plan must not be retried": once a drift check has found the object
\* moved, that change set is never written, even if the object moves back.
DriftedNeverWritten ==
  crashes = 0 /\ ~stateFault => \A c \in drifted : sends[c] = 0

\* The server never overwrites its own work: when Mist carries out an update
\* whose handler is waiting, the object still has the planned `before`, unless
\* another administrator (or an abandoned request) changed it after the check.
NoLostUpdate ==
  [][\A c \in ChangeSets :
       /\ wire[c] = "inflight" /\ wire'[c] = "applied"
       /\ Awaited(c) /\ ~IsCreate(c) /\ c \notin raced
       => mist[plan[c].device] = plan[c].before]_vars

-----------------------------------------------------------------------------
(* The inductive invariant behind WriteAuthorised, ApprovalSpentOnce,       *)
(* UnmarkedNeverSent and ImplementsLedger.                                 *)

\* Where the apply still owns the claim it made without a handle.
ClaimedPCs == {"write", "await", "verify", "failure_receipt", "receipt", "settle"}

\* A call between taking and releasing the guard is the holder of its device.
GuardHeld == \A p \in Calls :
  pc[p] \in GuardPCs => call[p].device \in Devices /\ guard[call[p].device] = p

\* The locals each kind of call carries while it runs.
CallBound == \A p \in Calls :
  /\ pc[p] \in {"plan_read", "stage"} =>
       /\ call[p].who \in Principals
       /\ call[p].device \in Devices
       /\ call[p].org \in Orgs
  /\ pc[p] = "plan_read" => call[p].device \in Existing
  /\ pc[p] \in {"waive", "guard"} \cup GuardPCs =>
       call[p].cs \in ChangeSets /\ state[call[p].cs] # "absent"
  /\ pc[p] = "waive" => LabMode
  /\ pc[p] = "guard" => call[p].device \in Devices
  /\ pc[p] \in GuardPCs \ {"fetch"} => plan[call[p].cs].device = call[p].device

\* A record has a plan from the moment it is inserted.
Planned == \A c \in ChangeSets : state[c] # "absent" => plan[c] \in Plan

\* Past Planned, somebody entitled to do so authorised the change set.
AuthorisedPastPlanned ==
  \A c \in ChangeSets : state[c] \notin {"absent", "planned"} => Authorised(c)

\* What a running apply knows of the record it claimed.
ClaimOwned == \A p \in Calls :
  /\ pc[p] \in ClaimedPCs => state[call[p].cs] = "applying" /\ handleless[call[p].cs]
  /\ pc[p] = "drift_settle" =>
       /\ state[call[p].cs] = "applying"
       /\ ~handleless[call[p].cs]
  /\ pc[p] = "write" => sends[call[p].cs] = 0
  /\ pc[p] \in {"claim"} \cup ClaimedPCs =>
       (EvidenceOn => "apply_intent" \in evidence[call[p].cs])

\* A write left at most once, under a claim without a handle, intent recorded.
SentUnderClaim == \A c \in ChangeSets :
  /\ sends[c] <= 1
  /\ wire[c] # "unsent" => sends[c] > 0
  /\ sends[c] > 0 =>
       /\ state[c] \in {"applying", "applied", "failed"}
       /\ handleless[c]
       /\ (EvidenceOn => "apply_intent" \in evidence[c])

\* One inductive statement: who holds the guard, who owns a claim, what was
\* authorised and what was sent, in every state apply_mist_change_set reaches.
IInv ==
  /\ TypeOK /\ GuardHeld /\ CallBound /\ Planned /\ AuthorisedPastPlanned
  /\ ClaimOwned /\ SentUnderClaim

-----------------------------------------------------------------------------
\* The record store seen as the ledger of module ApprovalLedger.
LedgerState(s) ==
  CASE s = "absent"   -> "none"
    [] s = "planned"  -> "proposed"
    [] s = "approved" -> "granted"
    [] s = "applying" -> "claimed"
    [] OTHER          -> "closed"

Ledger == INSTANCE ApprovalLedger WITH
  ledger <- [c \in ChangeSets |-> LedgerState(state[c])],
  owner  <- [c \in ChangeSets |-> IF state[c] = "absent" THEN None ELSE plan[c].owner],
  grant  <- approver,
  writes <- sends

\* The lifecycle tools implement the approval ledger, crashes and I/O faults
\* included: every step of a call, of Mist or of recovery is a ledger step.
ImplementsLedger == Ledger!LedgerSpec

\* Every apply that waits for the device guard is answered in the end, whatever
\* the other calls on that device do and whether or not Mist answers.
ApplyReturns == \A p \in Calls : pc[p] = "guard" ~> pc[p] = "idle"

\* The doc of failure_receipt: "Every terminal path after a *received* response
\* has to emit one" (mod.rs:2932).
AnsweredWriteHasReceipt ==
  crashes = 0 =>
    \A c \in answered :
      \/ evidence[c] \cap Receipts # {}
      \/ \E p \in Calls : call[p].cs = c /\ pc[p] \in GuardPCs \ {"settle"}

\* The doc of failure_receipt: a failure receipt records "that a write which
\* reached Mist **definitively** did not succeed" (mod.rs:2926).
FailureReceiptDefinite ==
  \A c \in ChangeSets : "receipt_failed" \in evidence[c] => wire[c] # "applied"
=============================================================================
