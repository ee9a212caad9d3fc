--------------------------- MODULE ChangeSetProofs ---------------------------
(***************************************************************************)
(* Proofs about ChangeSet, for every set of change sets, calls, objects and *)
(* values, and every bound, in two parts.                                  *)
(*                                                                         *)
(* The lifecycle: IInv is inductive, and it implies the safety properties   *)
(* of the lifecycle and the refinement of ApprovalLedger.  One lemma per    *)
(* action, one step per conjunct of IInv.                                  *)
(*                                                                         *)
(* What the lifecycle leaves behind: HInv, inductive relative to IInv, says *)
(* what Applied and a success receipt mean, which claims can be stranded,   *)
(* that a drifted plan is never written and that no update of this server   *)
(* is lost.                                                                *)
(***************************************************************************)
EXTENDS ChangeSet, TLAPS

\* The initial state satisfies the inductive invariant.
LEMMA InitIInv == Init => IInv
<1> SUFFICES ASSUME Init PROVE IInv
  OBVIOUS
<1> USE SetsAssumption, DistinctAssumption DEF Init
<1>1. TypeOK
  BY DEF TypeOK, RecordTypeOK, CallTypeOK, WorldTypeOK, HistoryTypeOK, Objects, States, PCs, NoCall, Call, Entries
<1>2. GuardHeld /\ CallBound /\ Planned /\ AuthorisedPastPlanned
  BY DEF GuardHeld, CallBound, Planned, AuthorisedPastPlanned, GuardPCs
<1>3. ClaimOwned /\ SentUnderClaim
  BY DEF ClaimOwned, ClaimedPCs, SentUnderClaim
<1> QED BY <1>1, <1>2, <1>3 DEF IInv

\* NoCall is a legal value of a call's locals.
LEMMA NoCallType == NoCall \in Call
  BY DEF NoCall, Call

\* Moving a call to another label keeps the types of the call state.
LEMMA GotoType ==
  ASSUME TypeOK, NEW p \in Calls, NEW label \in PCs, Goto(p, label)
  PROVE  CallTypeOK'
  BY DEF TypeOK, CallTypeOK, Goto

\* Returning from a handler keeps the types of the call state.
LEMMA ReturnType ==
  ASSUME TypeOK, NEW p \in Calls, Return(p)
  PROVE  CallTypeOK'
<1>1. pc' \in [Calls -> PCs] /\ call' \in [Calls -> Call]
  BY NoCallType DEF TypeOK, CallTypeOK, Return, PCs
<1>2. guard' \in [Devices -> Calls \cup {None}]
  BY DEF TypeOK, CallTypeOK, Return
<1> QED BY <1>1, <1>2 DEF CallTypeOK

\* plan_mist_change enters with an allowed organization.
LEMMA PlanStartInv ==
  ASSUME IInv, NEW p \in Calls, PlanStart(p)
  PROVE  IInv'
<1> USE DEF IInv
<1>1. RecordTypeOK'
  BY DEF PlanStart, TypeOK, RecordTypeOK, record
<1>2. CallTypeOK'
  <2>1. PICK who \in Principals, d \in Devices, org \in allowed :
          call' = [call EXCEPT ![p] = [NoCall EXCEPT !.who = who, !.device = d, !.org = org]]
    BY ZenonT(60) DEF PlanStart
  <2>2. [NoCall EXCEPT !.who = who, !.device = d, !.org = org] \in Call
    BY DEF NoCall, Call, TypeOK, WorldTypeOK
  <2>3. pc' \in [Calls -> PCs] /\ guard' = guard
    BY DEF PlanStart, TypeOK, CallTypeOK, PCs, PlanPCs
  <2> QED BY <2>1, <2>2, <2>3 DEF TypeOK, CallTypeOK
<1>3. WorldTypeOK' /\ HistoryTypeOK'
  BY DEF PlanStart, TypeOK, WorldTypeOK, HistoryTypeOK, world, history, bounds
<1>4. GuardHeld'
  BY DEF PlanStart, calls, GuardHeld, TypeOK, CallTypeOK, GuardPCs, CallBound
<1>5. CallBound'
  <2>1. PICK who \in Principals, d \in Devices, org \in allowed, verb \in {"create", "update"} :
          /\ verb = "update" => d \in Existing
          /\ call' = [call EXCEPT ![p] = [NoCall EXCEPT !.who = who, !.device = d, !.org = org]]
          /\ pc' = [pc EXCEPT ![p] = IF verb = "update" THEN "plan_read" ELSE "stage"]
    BY ZenonT(60) DEF PlanStart
  <2>2. state' = state /\ plan' = plan
    BY DEF PlanStart, record
  <2>3. call'[p].who = who /\ call'[p].device = d /\ call'[p].org = org /\ org \in Orgs
    BY <2>1 DEF TypeOK, CallTypeOK, WorldTypeOK, NoCall
  <2>4. ASSUME NEW q \in Calls, q # p PROVE call'[q] = call[q] /\ pc'[q] = pc[q]
    BY <2>1, <2>4 DEF TypeOK, CallTypeOK
  <2>5. pc'[p] \in {"plan_read", "stage"} /\ (pc'[p] = "plan_read" => d \in Existing)
    BY <2>1 DEF TypeOK, CallTypeOK
  <2> QED BY <2>2, <2>3, <2>4, <2>5 DEF CallBound, GuardPCs
<1>6. Planned' /\ AuthorisedPastPlanned'
  BY DEF PlanStart, record, Planned, AuthorisedPastPlanned, Authorised, TypeOK, RecordTypeOK, CallBound
<1>7. ClaimOwned'
  BY DEF PlanStart, record, calls, history, ClaimOwned, ClaimedPCs, GuardHeld, CallBound, GuardPCs, SentUnderClaim, WorldTypeOK, HistoryTypeOK, TypeOK, RecordTypeOK, CallTypeOK
<1>8. SentUnderClaim'
  BY DEF PlanStart, record, history, world, SentUnderClaim, ClaimOwned, ClaimedPCs, CallBound, GuardPCs, WorldTypeOK, HistoryTypeOK, TypeOK, RecordTypeOK, CallTypeOK
<1> QED BY <1>1, <1>2, <1>3, <1>4, <1>5, <1>6, <1>7, <1>8 DEF TypeOK

\* The plan's read of the current object.
LEMMA PlanReadInv ==
  ASSUME IInv, NEW p \in Calls, PlanRead(p)
  PROVE  IInv'
<1> USE DEF IInv
<1>1. RecordTypeOK'
  BY DEF PlanRead, TypeOK, RecordTypeOK, record
<1>2. CallTypeOK'
  <2>1. CASE Return(p)
    BY <2>1, ReturnType DEF TypeOK, CallTypeOK
  <2>2. CASE ~Return(p)
    <3>1. /\ call' = [call EXCEPT ![p].before = mist[call[p].device]]
          /\ pc' = [pc EXCEPT ![p] = "stage"]
          /\ UNCHANGED guard
      BY <2>2 DEF PlanRead
    <3>2. call[p].device \in Devices
      BY DEF PlanRead, CallBound
    <3>3. mist[call[p].device] \in Values \cup {None}
      BY <3>2 DEF TypeOK, WorldTypeOK, Objects
    <3>4. call' \in [Calls -> Call]
      BY <3>1, <3>3 DEF TypeOK, CallTypeOK, Call
    <3>5. pc' \in [Calls -> PCs]
      BY <3>1 DEF TypeOK, CallTypeOK, PCs, PlanPCs
    <3> QED BY <3>1, <3>4, <3>5 DEF TypeOK, CallTypeOK
  <2> QED BY <2>1, <2>2
<1>3. WorldTypeOK' /\ HistoryTypeOK'
  BY DEF PlanRead, TypeOK, WorldTypeOK, HistoryTypeOK, world, history, bounds
<1>4. GuardHeld'
  BY DEF PlanRead, Return, calls, GuardHeld, TypeOK, CallTypeOK, GuardPCs, CallBound
<1>5. CallBound'
  <2>1. CASE Return(p)
    BY <2>1 DEF PlanRead, Return, record, CallBound, TypeOK, CallTypeOK, GuardPCs
  <2>2. CASE ~Return(p)
    <3>1. call' = [call EXCEPT ![p].before = mist[call[p].device]]
          /\ pc' = [pc EXCEPT ![p] = "stage"] /\ pc[p] = "plan_read"
      BY <2>2 DEF PlanRead
    <3>2. state' = state /\ plan' = plan
      BY DEF PlanRead, record
    <3>3. call'[p].who = call[p].who /\ call'[p].device = call[p].device
          /\ call'[p].org = call[p].org
      BY <3>1 DEF TypeOK, CallTypeOK, Call
    <3>4. ASSUME NEW q \in Calls, q # p PROVE call'[q] = call[q] /\ pc'[q] = pc[q]
      BY <3>1, <3>4 DEF TypeOK, CallTypeOK
    <3>5. pc'[p] = "stage"
      BY <3>1 DEF TypeOK, CallTypeOK
    <3> QED BY <3>1, <3>2, <3>3, <3>4, <3>5 DEF CallBound, GuardPCs
  <2> QED BY <2>1, <2>2
<1>6. Planned' /\ AuthorisedPastPlanned'
  BY DEF PlanRead, record, Planned, AuthorisedPastPlanned, Authorised, TypeOK, RecordTypeOK, CallBound
<1>7. ClaimOwned'
  BY DEF PlanRead, Return, record, calls, history, ClaimOwned, ClaimedPCs, GuardHeld, CallBound, GuardPCs, SentUnderClaim, WorldTypeOK, HistoryTypeOK, TypeOK, RecordTypeOK, CallTypeOK
<1>8. SentUnderClaim'
  BY DEF PlanRead, record, history, world, SentUnderClaim, ClaimOwned, ClaimedPCs, CallBound, GuardPCs, WorldTypeOK, HistoryTypeOK, TypeOK, RecordTypeOK, CallTypeOK
<1> QED BY <1>1, <1>2, <1>3, <1>4, <1>5, <1>6, <1>7, <1>8 DEF TypeOK

\* stage_plan inserts the record.
LEMMA StageInv ==
  ASSUME IInv, NEW p \in Calls, Stage(p)
  PROVE  IInv'
<1> USE DEF IInv
<1>1. RecordTypeOK'
  <2>1. CASE UNCHANGED <<state, plan>>
    BY <2>1 DEF Stage, TypeOK, RecordTypeOK
  <2>2. CASE ~UNCHANGED <<state, plan>>
    <3>1. PICK c \in ChangeSets, after \in Values :
            /\ state' = [state EXCEPT ![c] = "planned"]
            /\ plan' = [plan EXCEPT ![c] =
                 [owner |-> call[p].who, device |-> call[p].device, org |-> call[p].org,
                  before |-> call[p].before, after |-> after, expires |-> now + PlanTTL]]
      BY <2>2 DEF Stage
    <3>2. call[p].who \in Principals /\ call[p].device \in Devices /\ call[p].org \in Orgs
      BY DEF Stage, CallBound
    <3>3. call[p].before \in Values \cup {None}
      BY DEF TypeOK, CallTypeOK, Call
    <3>4. now + PlanTTL \in Nat
      BY BoundsAssumption DEF TypeOK, WorldTypeOK
    <3>5. plan' \in [ChangeSets -> Plan \cup {None}]
      BY <3>1, <3>2, <3>3, <3>4 DEF TypeOK, RecordTypeOK, Plan
    <3>6. state' \in [ChangeSets -> States]
      BY <3>1 DEF TypeOK, RecordTypeOK, States
    <3> QED BY <3>5, <3>6 DEF Stage, TypeOK, RecordTypeOK
  <2> QED BY <2>1, <2>2
<1>2. CallTypeOK'
  <2>1. CASE Return(p)
    BY <2>1, ReturnType DEF TypeOK, CallTypeOK
  <2>2. CASE ~Return(p)
    <3>1. PICK c \in ChangeSets : /\ call' = [call EXCEPT ![p].cs = c]
                                 /\ pc' = [pc EXCEPT ![p] = "waive"]
                                 /\ UNCHANGED guard
      BY <2>2 DEF Stage
    <3>2. pc' \in [Calls -> PCs]
      BY <3>1 DEF TypeOK, CallTypeOK, PCs, PlanPCs
    <3>3. call' \in [Calls -> Call]
      BY <3>1 DEF TypeOK, CallTypeOK, Call
    <3> QED BY <3>1, <3>2, <3>3 DEF TypeOK, CallTypeOK
  <2> QED BY <2>1, <2>2
<1>3. WorldTypeOK' /\ HistoryTypeOK'
  BY DEF Stage, Record, TypeOK, WorldTypeOK, HistoryTypeOK, world, history, bounds, Entries, Receipts
<1>4. GuardHeld'
  BY DEF Stage, Return, calls, GuardHeld, TypeOK, CallTypeOK, GuardPCs, CallBound
<1>5. CallBound'
  <2>1. \A c \in ChangeSets : state[c] # "absent" => state'[c] # "absent" /\ plan'[c] = plan[c]
    BY DEF Stage, TypeOK, RecordTypeOK
  <2>2. CASE Return(p)
    <3>1. \A q \in Calls : q # p => call'[q] = call[q] /\ pc'[q] = pc[q]
      BY <2>2 DEF Return, TypeOK, CallTypeOK
    <3>2. pc'[p] = "idle"
      BY <2>2 DEF Return, TypeOK, CallTypeOK
    <3> QED BY <2>1, <3>1, <3>2 DEF CallBound, GuardPCs
  <2>3. CASE ~Return(p)
    <3>1. PICK c \in ChangeSets : /\ state' = [state EXCEPT ![c] = "planned"]
                                 /\ call' = [call EXCEPT ![p].cs = c]
                                 /\ pc' = [pc EXCEPT ![p] = "waive"]
                                 /\ LabMode
      BY <2>3 DEF Stage
    <3>2. call'[p].cs = c /\ pc'[p] = "waive" /\ state'[c] = "planned"
      BY <3>1 DEF TypeOK, CallTypeOK, RecordTypeOK, Call
    <3>3. \A q \in Calls : q # p => call'[q] = call[q] /\ pc'[q] = pc[q]
      BY <3>1 DEF TypeOK, CallTypeOK
    <3> QED BY <2>1, <3>1, <3>2, <3>3 DEF CallBound, GuardPCs
  <2> QED BY <2>2, <2>3
<1>6. Planned' /\ AuthorisedPastPlanned'
  BY BoundsAssumption DEF Stage, record, Planned, AuthorisedPastPlanned, Authorised, TypeOK, RecordTypeOK, CallBound, Plan, Call, CallTypeOK, WorldTypeOK
<1>7. ClaimOwned'
  BY DEF Stage, Return, record, calls, Record, history, ClaimOwned, ClaimedPCs, GuardHeld, CallBound, GuardPCs, SentUnderClaim, WorldTypeOK, HistoryTypeOK, TypeOK, RecordTypeOK, CallTypeOK
<1>8. SentUnderClaim'
  BY DEF Stage, record, Record, history, world, SentUnderClaim, ClaimOwned, ClaimedPCs, CallBound, GuardPCs, WorldTypeOK, HistoryTypeOK, TypeOK, RecordTypeOK, CallTypeOK
<1> QED BY <1>1, <1>2, <1>3, <1>4, <1>5, <1>6, <1>7, <1>8 DEF TypeOK

\* The lab-mode waiver is the only authorisation without an approver.
LEMMA WaiveInv ==
  ASSUME IInv, NEW p \in Calls, Waive(p)
  PROVE  IInv'
<1> USE DEF IInv
<1>1. RecordTypeOK'
  BY DEF Waive, StoreRefuses, TypeOK, RecordTypeOK, States, record
<1>2. CallTypeOK'
  BY ReturnType DEF Waive, TypeOK
<1>3. WorldTypeOK' /\ HistoryTypeOK'
  BY DEF Waive, StoreRefuses, TypeOK, WorldTypeOK, HistoryTypeOK, world, history, bounds
<1>4. GuardHeld'
  BY DEF Waive, Return, calls, GuardHeld, TypeOK, CallTypeOK, GuardPCs, CallBound
<1>5. CallBound'
  BY DEF Waive, Return, StoreRefuses, record, calls, CallBound, TypeOK, RecordTypeOK, CallTypeOK, GuardPCs
<1>6. Planned' /\ AuthorisedPastPlanned'
  BY DEF Waive, StoreRefuses, record, Planned, AuthorisedPastPlanned, Authorised, TypeOK, RecordTypeOK, CallBound
<1>7. ClaimOwned'
  BY DEF Waive, Return, StoreRefuses, record, calls, history, ClaimOwned, ClaimedPCs, GuardHeld, CallBound, GuardPCs, SentUnderClaim, WorldTypeOK, HistoryTypeOK, TypeOK, RecordTypeOK, CallTypeOK
<1>8. SentUnderClaim'
  BY DEF Waive, StoreRefuses, record, history, world, SentUnderClaim, ClaimOwned, ClaimedPCs, CallBound, GuardPCs, WorldTypeOK, HistoryTypeOK, TypeOK, RecordTypeOK, CallTypeOK
<1> QED BY <1>1, <1>2, <1>3, <1>4, <1>5, <1>6, <1>7, <1>8 DEF TypeOK

\* The coordinator accepts an approval only from another human.
LEMMA ApproveInv ==
  ASSUME IInv, NEW c \in ChangeSets, NEW who \in Principals, Approve(c, who)
  PROVE  IInv'
<1> USE DEF IInv
<1>1. RecordTypeOK'
  BY DEF Approve, MayApprove, Record, TypeOK, RecordTypeOK, States, record
<1>2. CallTypeOK'
  BY DEF Approve, TypeOK, PCs, GuardPCs, PlanPCs, CallTypeOK, calls, Call
<1>3. WorldTypeOK' /\ HistoryTypeOK'
  BY DEF Approve, Record, TypeOK, WorldTypeOK, HistoryTypeOK, world, history, bounds, Entries, Receipts
<1>4. GuardHeld'
  BY DEF Approve, calls, GuardHeld, TypeOK, CallTypeOK, GuardPCs, CallBound
<1>5. CallBound'
  BY DEF Approve, MayApprove, record, calls, CallBound, TypeOK, RecordTypeOK, CallTypeOK, GuardPCs
<1>6. Planned' /\ AuthorisedPastPlanned'
  BY DEF Approve, MayApprove, record, Planned, AuthorisedPastPlanned, Authorised, TypeOK, RecordTypeOK, CallBound
<1>7. ClaimOwned'
  BY DEF Approve, MayApprove, record, calls, Record, history, ClaimOwned, ClaimedPCs, GuardHeld, CallBound, GuardPCs, SentUnderClaim, WorldTypeOK, HistoryTypeOK, TypeOK, RecordTypeOK, CallTypeOK
<1>8. SentUnderClaim'
  BY DEF Approve, MayApprove, record, Record, history, world, SentUnderClaim, ClaimOwned, ClaimedPCs, CallBound, GuardPCs, WorldTypeOK, HistoryTypeOK, TypeOK, RecordTypeOK, CallTypeOK
<1> QED BY <1>1, <1>2, <1>3, <1>4, <1>5, <1>6, <1>7, <1>8 DEF TypeOK

\* apply_mist_change_set enters.
LEMMA ApplyStartInv ==
  ASSUME IInv, NEW p \in Calls, ApplyStart(p)
  PROVE  IInv'
<1> USE DEF IInv
<1>1. RecordTypeOK'
  BY DEF ApplyStart, TypeOK, RecordTypeOK, record
<1>2. CallTypeOK'
  <2>1. PICK c \in ChangeSets, d \in Devices :
          call' = [call EXCEPT ![p] = [NoCall EXCEPT !.cs = c, !.device = d]]
    BY DEF ApplyStart
  <2>2. [NoCall EXCEPT !.cs = c, !.device = d] \in Call
    BY DEF NoCall, Call
  <2>3. pc' \in [Calls -> PCs] /\ guard' = guard
    BY DEF ApplyStart, TypeOK, CallTypeOK, PCs
  <2> QED BY <2>1, <2>2, <2>3 DEF TypeOK, CallTypeOK
<1>3. WorldTypeOK' /\ HistoryTypeOK'
  BY DEF ApplyStart, TypeOK, WorldTypeOK, HistoryTypeOK, world, history, bounds
<1>4. GuardHeld'
  BY DEF ApplyStart, calls, GuardHeld, TypeOK, CallTypeOK, GuardPCs, CallBound
<1>5. CallBound'
  BY DEF ApplyStart, record, calls, NoCall, CallBound, TypeOK, RecordTypeOK, CallTypeOK, GuardPCs
<1>6. Planned' /\ AuthorisedPastPlanned'
  BY DEF ApplyStart, record, Planned, AuthorisedPastPlanned, Authorised, TypeOK, RecordTypeOK, CallBound
<1>7. ClaimOwned'
  BY DEF ApplyStart, record, calls, history, ClaimOwned, ClaimedPCs, GuardHeld, CallBound, GuardPCs, SentUnderClaim, WorldTypeOK, HistoryTypeOK, TypeOK, RecordTypeOK, CallTypeOK
<1>8. SentUnderClaim'
  BY DEF ApplyStart, record, history, world, SentUnderClaim, ClaimOwned, ClaimedPCs, CallBound, GuardPCs, WorldTypeOK, HistoryTypeOK, TypeOK, RecordTypeOK, CallTypeOK
<1> QED BY <1>1, <1>2, <1>3, <1>4, <1>5, <1>6, <1>7, <1>8 DEF TypeOK

\* The guard is free when it is taken.
LEMMA AcquireGuardInv ==
  ASSUME IInv, NEW p \in Calls, AcquireGuard(p)
  PROVE  IInv'
<1> USE DEF IInv
<1>1. RecordTypeOK'
  BY DEF AcquireGuard, TypeOK, RecordTypeOK, record
<1>2. CallTypeOK'
  BY DEF AcquireGuard, TypeOK, PCs, GuardPCs, PlanPCs, CallTypeOK, calls, Call
<1>3. WorldTypeOK' /\ HistoryTypeOK'
  BY DEF AcquireGuard, TypeOK, WorldTypeOK, HistoryTypeOK, world, history, bounds
<1>4. GuardHeld'
  <2>1. call' = call /\ guard[call[p].device] = None /\ call[p].device \in Devices
    BY DEF AcquireGuard, CallBound
  <2>2. guard'[call[p].device] = p
        /\ \A d \in Devices : d # call[p].device => guard'[d] = guard[d]
    BY <2>1 DEF AcquireGuard, TypeOK, CallTypeOK
  <2>3. \A q \in Calls : q # p => pc'[q] = pc[q]
    BY DEF AcquireGuard, TypeOK, CallTypeOK
  <2>4. None \notin Calls
    BY DistinctAssumption
  <2> QED BY <2>1, <2>2, <2>3, <2>4 DEF GuardHeld
<1>5. CallBound'
  BY DEF AcquireGuard, record, calls, CallBound, TypeOK, RecordTypeOK, CallTypeOK, GuardPCs
<1>6. Planned' /\ AuthorisedPastPlanned'
  BY DEF AcquireGuard, record, Planned, AuthorisedPastPlanned, Authorised, TypeOK, RecordTypeOK, CallBound
<1>7. ClaimOwned'
  BY DEF AcquireGuard, record, calls, history, ClaimOwned, ClaimedPCs, GuardHeld, CallBound, GuardPCs, SentUnderClaim, WorldTypeOK, HistoryTypeOK, TypeOK, RecordTypeOK, CallTypeOK
<1>8. SentUnderClaim'
  BY DEF AcquireGuard, record, history, world, SentUnderClaim, ClaimOwned, ClaimedPCs, CallBound, GuardPCs, WorldTypeOK, HistoryTypeOK, TypeOK, RecordTypeOK, CallTypeOK
<1> QED BY <1>1, <1>2, <1>3, <1>4, <1>5, <1>6, <1>7, <1>8 DEF TypeOK

\* The record is for the locked device and approved.
LEMMA FetchInv ==
  ASSUME IInv, NEW p \in Calls, Fetch(p)
  PROVE  IInv'
<1> USE DEF IInv
<1>1. RecordTypeOK'
  BY DEF Fetch, TypeOK, RecordTypeOK, record
<1>2. CallTypeOK'
  BY GotoType, ReturnType DEF Fetch, TypeOK, PCs, GuardPCs, PlanPCs
<1>3. WorldTypeOK' /\ HistoryTypeOK'
  BY DEF Fetch, TypeOK, WorldTypeOK, HistoryTypeOK, world, history, bounds
<1>4. GuardHeld'
  BY DEF Fetch, Goto, Return, calls, GuardHeld, TypeOK, CallTypeOK, GuardPCs, CallBound
<1>5. CallBound'
  BY DEF Fetch, Applicable, Goto, Return, record, calls, IsCreate, CallBound, TypeOK, RecordTypeOK, CallTypeOK, GuardPCs
<1>6. Planned' /\ AuthorisedPastPlanned'
  BY DEF Fetch, Applicable, record, Planned, AuthorisedPastPlanned, Authorised, TypeOK, RecordTypeOK, CallBound
<1>7. ClaimOwned'
  BY DEF Fetch, Applicable, Goto, Return, record, calls, history, ClaimOwned, ClaimedPCs, GuardHeld, CallBound, GuardPCs, SentUnderClaim, WorldTypeOK, HistoryTypeOK, TypeOK, RecordTypeOK, CallTypeOK
<1>8. SentUnderClaim'
  BY DEF Fetch, Applicable, record, history, world, SentUnderClaim, ClaimOwned, ClaimedPCs, CallBound, GuardPCs, WorldTypeOK, HistoryTypeOK, TypeOK, RecordTypeOK, CallTypeOK
<1> QED BY <1>1, <1>2, <1>3, <1>4, <1>5, <1>6, <1>7, <1>8 DEF TypeOK

\* The drift check changes no record.
LEMMA DriftReadInv ==
  ASSUME IInv, NEW p \in Calls, DriftRead(p)
  PROVE  IInv'
<1> USE DEF IInv
<1>1. RecordTypeOK'
  BY DEF DriftRead, TypeOK, RecordTypeOK, record
<1>2. CallTypeOK'
  BY GotoType, ReturnType DEF DriftRead, TypeOK, PCs, GuardPCs, PlanPCs
<1>3. WorldTypeOK' /\ HistoryTypeOK'
  <2>1. call[p].cs \in ChangeSets
    BY DEF DriftRead, CallBound, GuardPCs
  <2>2. drifted' \subseteq ChangeSets /\ raced' \subseteq ChangeSets
    BY <2>1 DEF DriftRead, TypeOK, HistoryTypeOK
  <2> QED BY <2>2 DEF DriftRead, TypeOK, WorldTypeOK, HistoryTypeOK, world, bounds
<1>4. GuardHeld'
  BY DEF DriftRead, Goto, Return, calls, GuardHeld, TypeOK, CallTypeOK, GuardPCs, CallBound
<1>5. CallBound'
  BY DEF DriftRead, Goto, Return, record, calls, CallBound, TypeOK, RecordTypeOK, CallTypeOK, GuardPCs
<1>6. Planned' /\ AuthorisedPastPlanned'
  BY DEF DriftRead, record, Planned, AuthorisedPastPlanned, Authorised, TypeOK, RecordTypeOK, CallBound
<1>7. ClaimOwned'
  BY DEF DriftRead, Goto, Return, record, calls, history, ClaimOwned, ClaimedPCs, GuardHeld, CallBound, GuardPCs, SentUnderClaim, WorldTypeOK, HistoryTypeOK, TypeOK, RecordTypeOK, CallTypeOK
<1>8. SentUnderClaim'
  BY DEF DriftRead, record, history, world, SentUnderClaim, ClaimOwned, ClaimedPCs, CallBound, GuardPCs, WorldTypeOK, HistoryTypeOK, TypeOK, RecordTypeOK, CallTypeOK
<1> QED BY <1>1, <1>2, <1>3, <1>4, <1>5, <1>6, <1>7, <1>8 DEF TypeOK

\* The drift path claims with a handle to expect.
LEMMA DriftClaimInv ==
  ASSUME IInv, NEW p \in Calls, DriftClaim(p)
  PROVE  IInv'
<1> USE DEF IInv
<1>1. RecordTypeOK'
  BY DEF DriftClaim, ClaimForApply, StoreRefuses, TypeOK, RecordTypeOK, States, record
<1>2. CallTypeOK'
  BY GotoType, ReturnType DEF DriftClaim, TypeOK, PCs, GuardPCs, PlanPCs
<1>3. WorldTypeOK' /\ HistoryTypeOK'
  BY DEF DriftClaim, ClaimForApply, StoreRefuses, TypeOK, WorldTypeOK, HistoryTypeOK, world, history, bounds
<1>4. GuardHeld'
  <2>1. CASE Return(p)
    BY <2>1 DEF Return, GuardHeld, TypeOK, CallTypeOK, GuardPCs
  <2>2. CASE ~Return(p)
    BY <2>2 DEF DriftClaim, Goto, GuardHeld, TypeOK, CallTypeOK, GuardPCs
  <2> QED BY <2>1, <2>2
<1>5. CallBound'
  BY DEF DriftClaim, ClaimForApply, StoreRefuses, Goto, Return, record, calls, CallBound, TypeOK, RecordTypeOK, CallTypeOK, GuardPCs
<1>6. Planned' /\ AuthorisedPastPlanned'
  BY DEF DriftClaim, ClaimForApply, StoreRefuses, record, Planned, AuthorisedPastPlanned, Authorised, TypeOK, RecordTypeOK, CallBound
<1>7. ClaimOwned'
  BY DEF DriftClaim, ClaimForApply, StoreRefuses, Goto, Return, record, calls, history, ClaimOwned, ClaimedPCs, GuardHeld, CallBound, GuardPCs, SentUnderClaim, WorldTypeOK, HistoryTypeOK, TypeOK, RecordTypeOK, CallTypeOK
<1>8. SentUnderClaim'
  BY DEF DriftClaim, ClaimForApply, StoreRefuses, record, history, world, SentUnderClaim, ClaimOwned, ClaimedPCs, CallBound, GuardPCs, WorldTypeOK, HistoryTypeOK, TypeOK, RecordTypeOK, CallTypeOK
<1> QED BY <1>1, <1>2, <1>3, <1>4, <1>5, <1>6, <1>7, <1>8 DEF TypeOK

\* The drift path settles a claim under which nothing was sent.
LEMMA DriftSettleInv ==
  ASSUME IInv, NEW p \in Calls, DriftSettle(p)
  PROVE  IInv'
<1> USE DEF IInv
<1>1. RecordTypeOK'
  BY DEF DriftSettle, UpdateChangeSet, StoreRefuses, TypeOK, RecordTypeOK, States, record
<1>2. CallTypeOK'
  BY ReturnType DEF DriftSettle, TypeOK
<1>3. WorldTypeOK' /\ HistoryTypeOK'
  BY DEF DriftSettle, UpdateChangeSet, StoreRefuses, TypeOK, WorldTypeOK, HistoryTypeOK, world, history, bounds
<1>4. GuardHeld'
  BY DEF DriftSettle, Return, calls, GuardHeld, TypeOK, CallTypeOK, GuardPCs, CallBound
<1>5. CallBound'
  BY DEF DriftSettle, UpdateChangeSet, StoreRefuses, Return, record, calls, CallBound, TypeOK, RecordTypeOK, CallTypeOK, GuardPCs
<1>6. Planned' /\ AuthorisedPastPlanned'
  BY DEF DriftSettle, UpdateChangeSet, StoreRefuses, record, Planned, AuthorisedPastPlanned, Authorised, TypeOK, RecordTypeOK, CallBound
<1>7. ClaimOwned'
  BY DEF DriftSettle, UpdateChangeSet, StoreRefuses, Return, record, calls, history, ClaimOwned, ClaimedPCs, GuardHeld, CallBound, GuardPCs, SentUnderClaim, WorldTypeOK, HistoryTypeOK, TypeOK, RecordTypeOK, CallTypeOK
<1>8. SentUnderClaim'
  BY DEF DriftSettle, UpdateChangeSet, StoreRefuses, record, history, world, SentUnderClaim, ClaimOwned, ClaimedPCs, CallBound, GuardPCs, WorldTypeOK, HistoryTypeOK, TypeOK, RecordTypeOK, CallTypeOK
<1> QED BY <1>1, <1>2, <1>3, <1>4, <1>5, <1>6, <1>7, <1>8 DEF TypeOK

\* The intent is on record before the claim.
LEMMA IntentInv ==
  ASSUME IInv, NEW p \in Calls, Intent(p)
  PROVE  IInv'
<1> USE DEF IInv
<1>1. RecordTypeOK'
  BY DEF Intent, Record, TypeOK, RecordTypeOK, record
<1>2. CallTypeOK'
  BY GotoType, ReturnType DEF Intent, TypeOK, PCs, GuardPCs, PlanPCs
<1>3. WorldTypeOK' /\ HistoryTypeOK'
  BY DEF Intent, Record, TypeOK, WorldTypeOK, HistoryTypeOK, world, history, bounds, Entries, Receipts
<1>4. GuardHeld'
  BY DEF Intent, Goto, Return, calls, GuardHeld, TypeOK, CallTypeOK, GuardPCs, CallBound
<1>5. CallBound'
  BY DEF Intent, Goto, Return, record, calls, CallBound, TypeOK, RecordTypeOK, CallTypeOK, GuardPCs
<1>6. Planned' /\ AuthorisedPastPlanned'
  BY DEF Intent, record, Planned, AuthorisedPastPlanned, Authorised, TypeOK, RecordTypeOK, CallBound
<1>7. ClaimOwned'
  BY DEF Intent, Goto, Return, record, calls, Record, history, ClaimOwned, ClaimedPCs, GuardHeld, CallBound, GuardPCs, SentUnderClaim, WorldTypeOK, HistoryTypeOK, TypeOK, RecordTypeOK, CallTypeOK
<1>8. SentUnderClaim'
  BY DEF Intent, record, Record, history, world, SentUnderClaim, ClaimOwned, ClaimedPCs, CallBound, GuardPCs, WorldTypeOK, HistoryTypeOK, TypeOK, RecordTypeOK, CallTypeOK
<1> QED BY <1>1, <1>2, <1>3, <1>4, <1>5, <1>6, <1>7, <1>8 DEF TypeOK

\* The write path claims without a handle; a claimable record was never sent.
LEMMA ClaimInv ==
  ASSUME IInv, NEW p \in Calls, Claim(p)
  PROVE  IInv'
<1> USE DEF IInv
<1>1. RecordTypeOK'
  BY DEF Claim, ClaimForApply, StoreRefuses, TypeOK, RecordTypeOK, States, record
<1>2. CallTypeOK'
  BY GotoType, ReturnType DEF Claim, TypeOK, PCs, GuardPCs, PlanPCs
<1>3. WorldTypeOK' /\ HistoryTypeOK'
  BY DEF Claim, ClaimForApply, StoreRefuses, TypeOK, WorldTypeOK, HistoryTypeOK, world, history, bounds
<1>4. GuardHeld'
  <2>1. CASE Return(p)
    BY <2>1 DEF Return, GuardHeld, TypeOK, CallTypeOK, GuardPCs
  <2>2. CASE ~Return(p)
    BY <2>2 DEF Claim, Goto, GuardHeld, TypeOK, CallTypeOK, GuardPCs
  <2> QED BY <2>1, <2>2
<1>5. CallBound'
  BY DEF Claim, ClaimForApply, StoreRefuses, Goto, Return, record, calls, CallBound, TypeOK, RecordTypeOK, CallTypeOK, GuardPCs
<1>6. Planned' /\ AuthorisedPastPlanned'
  BY DEF Claim, ClaimForApply, StoreRefuses, record, Planned, AuthorisedPastPlanned, Authorised, TypeOK, RecordTypeOK, CallBound
<1>7. ClaimOwned'
  BY DEF Claim, ClaimForApply, StoreRefuses, Goto, Return, record, calls, history, ClaimOwned, ClaimedPCs, GuardHeld, CallBound, GuardPCs, SentUnderClaim, WorldTypeOK, HistoryTypeOK, TypeOK, RecordTypeOK, CallTypeOK
<1>8. SentUnderClaim'
  BY DEF Claim, ClaimForApply, StoreRefuses, record, history, world, SentUnderClaim, ClaimOwned, ClaimedPCs, CallBound, GuardPCs, WorldTypeOK, HistoryTypeOK, TypeOK, RecordTypeOK, CallTypeOK
<1> QED BY <1>1, <1>2, <1>3, <1>4, <1>5, <1>6, <1>7, <1>8 DEF TypeOK

\* The only step that issues a write.
LEMMA SendWriteInv ==
  ASSUME IInv, NEW p \in Calls, SendWrite(p)
  PROVE  IInv'
<1> USE DEF IInv
<1>1. RecordTypeOK'
  BY DEF SendWrite, TypeOK, RecordTypeOK, record
<1>2. CallTypeOK'
  BY GotoType DEF SendWrite, TypeOK, PCs, GuardPCs, PlanPCs
<1>3. WorldTypeOK' /\ HistoryTypeOK'
  BY DEF SendWrite, TypeOK, WorldTypeOK, HistoryTypeOK, world, history, bounds, Holding
<1>4. GuardHeld'
  BY DEF SendWrite, Goto, calls, GuardHeld, TypeOK, CallTypeOK, GuardPCs, CallBound
<1>5. CallBound'
  BY DEF SendWrite, Goto, record, calls, CallBound, TypeOK, RecordTypeOK, CallTypeOK, GuardPCs
<1>6. Planned' /\ AuthorisedPastPlanned'
  BY DEF SendWrite, record, Planned, AuthorisedPastPlanned, Authorised, TypeOK, RecordTypeOK, CallBound
<1>7. ClaimOwned'
  BY DEF SendWrite, Goto, record, calls, history, ClaimOwned, ClaimedPCs, GuardHeld, CallBound, GuardPCs, SentUnderClaim, WorldTypeOK, HistoryTypeOK, TypeOK, RecordTypeOK, CallTypeOK
<1>8. SentUnderClaim'
  BY DEF SendWrite, record, history, world, SentUnderClaim, ClaimOwned, ClaimedPCs, CallBound, GuardPCs, WorldTypeOK, HistoryTypeOK, TypeOK, RecordTypeOK, CallTypeOK
<1> QED BY <1>1, <1>2, <1>3, <1>4, <1>5, <1>6, <1>7, <1>8 DEF TypeOK

\* An answer changes no record.
LEMMA WriteAnsweredInv ==
  ASSUME IInv, NEW p \in Calls, WriteAnswered(p)
  PROVE  IInv'
<1> USE DEF IInv
<1>1. RecordTypeOK'
  BY DEF WriteAnswered, TypeOK, RecordTypeOK, record
<1>2. CallTypeOK'
  BY GotoType DEF WriteAnswered, TypeOK, PCs, GuardPCs, PlanPCs
<1>3. WorldTypeOK' /\ HistoryTypeOK'
  <2>1. call[p].cs \in ChangeSets
    BY DEF WriteAnswered, CallBound, GuardPCs
  <2> QED BY <2>1 DEF WriteAnswered, TypeOK, WorldTypeOK, HistoryTypeOK, world, bounds
<1>4. GuardHeld'
  BY DEF WriteAnswered, Goto, calls, GuardHeld, TypeOK, CallTypeOK, GuardPCs, CallBound
<1>5. CallBound'
  BY DEF WriteAnswered, Goto, record, calls, CallBound, TypeOK, RecordTypeOK, CallTypeOK, GuardPCs
<1>6. Planned' /\ AuthorisedPastPlanned'
  BY DEF WriteAnswered, record, Planned, AuthorisedPastPlanned, Authorised, TypeOK, RecordTypeOK, CallBound
<1>7. ClaimOwned'
  BY DEF WriteAnswered, Goto, record, calls, history, ClaimOwned, ClaimedPCs, GuardHeld, CallBound, GuardPCs, SentUnderClaim, WorldTypeOK, HistoryTypeOK, TypeOK, RecordTypeOK, CallTypeOK
<1>8. SentUnderClaim'
  BY DEF WriteAnswered, record, history, world, SentUnderClaim, ClaimOwned, ClaimedPCs, CallBound, GuardPCs, WorldTypeOK, HistoryTypeOK, TypeOK, RecordTypeOK, CallTypeOK
<1> QED BY <1>1, <1>2, <1>3, <1>4, <1>5, <1>6, <1>7, <1>8 DEF TypeOK

\* A timeout changes no record.
LEMMA WriteTimeoutInv ==
  ASSUME IInv, NEW p \in Calls, WriteTimeout(p)
  PROVE  IInv'
<1> USE DEF IInv
<1>1. RecordTypeOK'
  BY DEF WriteTimeout, TypeOK, RecordTypeOK, record
<1>2. CallTypeOK'
  BY GotoType DEF WriteTimeout, TypeOK, PCs, GuardPCs, PlanPCs
<1>3. WorldTypeOK' /\ HistoryTypeOK'
  BY DEF WriteTimeout, TypeOK, WorldTypeOK, HistoryTypeOK, world, history, bounds
<1>4. GuardHeld'
  BY DEF WriteTimeout, Goto, calls, GuardHeld, TypeOK, CallTypeOK, GuardPCs, CallBound
<1>5. CallBound'
  BY DEF WriteTimeout, Goto, record, calls, CallBound, TypeOK, RecordTypeOK, CallTypeOK, GuardPCs
<1>6. Planned' /\ AuthorisedPastPlanned'
  BY DEF WriteTimeout, record, Planned, AuthorisedPastPlanned, Authorised, TypeOK, RecordTypeOK, CallBound
<1>7. ClaimOwned'
  BY DEF WriteTimeout, Goto, record, calls, history, ClaimOwned, ClaimedPCs, GuardHeld, CallBound, GuardPCs, SentUnderClaim, WorldTypeOK, HistoryTypeOK, TypeOK, RecordTypeOK, CallTypeOK
<1>8. SentUnderClaim'
  BY DEF WriteTimeout, record, history, world, SentUnderClaim, ClaimOwned, ClaimedPCs, CallBound, GuardPCs, WorldTypeOK, HistoryTypeOK, TypeOK, RecordTypeOK, CallTypeOK
<1> QED BY <1>1, <1>2, <1>3, <1>4, <1>5, <1>6, <1>7, <1>8 DEF TypeOK

\* The verifying read changes no record.
LEMMA VerifyInv ==
  ASSUME IInv, NEW p \in Calls, Verify(p)
  PROVE  IInv'
<1> USE DEF IInv
<1>1. RecordTypeOK'
  BY DEF Verify, TypeOK, RecordTypeOK, record
<1>2. CallTypeOK'
  <2>1. PICK ok \in BOOLEAN : call' = [call EXCEPT ![p].verified = ok]
    <3>1. PICK readOk \in BOOLEAN : call' = [call EXCEPT ![p].verified =
            readOk /\ mist[Target(call[p].cs)] = plan[call[p].cs].after]
      BY DEF Verify
    <3> QED BY <3>1
  <2>2. call' \in [Calls -> Call]
    BY <2>1 DEF TypeOK, CallTypeOK, Call
  <2> QED BY <2>2 DEF Verify, TypeOK, CallTypeOK, PCs, GuardPCs
<1>3. WorldTypeOK' /\ HistoryTypeOK'
  BY DEF Verify, TypeOK, WorldTypeOK, HistoryTypeOK, world, history, bounds
<1>4. GuardHeld'
  BY DEF Verify, calls, GuardHeld, TypeOK, CallTypeOK, GuardPCs, CallBound
<1>5. CallBound'
  BY DEF Verify, record, calls, CallBound, TypeOK, RecordTypeOK, CallTypeOK, GuardPCs
<1>6. Planned' /\ AuthorisedPastPlanned'
  BY DEF Verify, record, Planned, AuthorisedPastPlanned, Authorised, TypeOK, RecordTypeOK, CallBound
<1>7. ClaimOwned'
  BY DEF Verify, record, calls, history, ClaimOwned, ClaimedPCs, GuardHeld, CallBound, GuardPCs, SentUnderClaim, WorldTypeOK, HistoryTypeOK, TypeOK, RecordTypeOK, CallTypeOK
<1>8. SentUnderClaim'
  BY DEF Verify, record, history, world, SentUnderClaim, ClaimOwned, ClaimedPCs, CallBound, GuardPCs, WorldTypeOK, HistoryTypeOK, TypeOK, RecordTypeOK, CallTypeOK
<1> QED BY <1>1, <1>2, <1>3, <1>4, <1>5, <1>6, <1>7, <1>8 DEF TypeOK

\* Evidence only grows.
LEMMA ReceiptInv ==
  ASSUME IInv, NEW p \in Calls, Receipt(p)
  PROVE  IInv'
<1> USE DEF IInv
<1>1. RecordTypeOK'
  BY DEF Receipt, EmitReceipt, Record, TypeOK, RecordTypeOK, record
<1>2. CallTypeOK'
  BY GotoType DEF Receipt, TypeOK, PCs, GuardPCs, PlanPCs
<1>3. WorldTypeOK' /\ HistoryTypeOK'
  BY DEF Receipt, EmitReceipt, Record, TypeOK, WorldTypeOK, HistoryTypeOK, world, history, bounds, Entries, Receipts
<1>4. GuardHeld'
  BY DEF Receipt, Goto, calls, GuardHeld, TypeOK, CallTypeOK, GuardPCs, CallBound
<1>5. CallBound'
  BY DEF Receipt, Goto, record, calls, CallBound, TypeOK, RecordTypeOK, CallTypeOK, GuardPCs
<1>6. Planned' /\ AuthorisedPastPlanned'
  BY DEF Receipt, record, Planned, AuthorisedPastPlanned, Authorised, TypeOK, RecordTypeOK, CallBound
<1>7. ClaimOwned'
  BY DEF Receipt, Goto, record, calls, EmitReceipt, Record, history, ClaimOwned, ClaimedPCs, GuardHeld, CallBound, GuardPCs, SentUnderClaim, WorldTypeOK, HistoryTypeOK, TypeOK, RecordTypeOK, CallTypeOK
<1>8. SentUnderClaim'
  BY DEF Receipt, record, EmitReceipt, Record, history, world, SentUnderClaim, ClaimOwned, ClaimedPCs, CallBound, GuardPCs, WorldTypeOK, HistoryTypeOK, TypeOK, RecordTypeOK, CallTypeOK
<1> QED BY <1>1, <1>2, <1>3, <1>4, <1>5, <1>6, <1>7, <1>8 DEF TypeOK

\* Evidence only grows.
LEMMA FailureReceiptInv ==
  ASSUME IInv, NEW p \in Calls, FailureReceipt(p)
  PROVE  IInv'
<1> USE DEF IInv
<1>1. RecordTypeOK'
  BY DEF FailureReceipt, EmitReceipt, Record, TypeOK, RecordTypeOK, record
<1>2. CallTypeOK'
  BY GotoType DEF FailureReceipt, TypeOK, PCs, GuardPCs, PlanPCs
<1>3. WorldTypeOK' /\ HistoryTypeOK'
  BY DEF FailureReceipt, EmitReceipt, Record, TypeOK, WorldTypeOK, HistoryTypeOK, world, history, bounds, Entries, Receipts
<1>4. GuardHeld'
  BY DEF FailureReceipt, Goto, calls, GuardHeld, TypeOK, CallTypeOK, GuardPCs, CallBound
<1>5. CallBound'
  BY DEF FailureReceipt, Goto, record, calls, CallBound, TypeOK, RecordTypeOK, CallTypeOK, GuardPCs
<1>6. Planned' /\ AuthorisedPastPlanned'
  BY DEF FailureReceipt, record, Planned, AuthorisedPastPlanned, Authorised, TypeOK, RecordTypeOK, CallBound
<1>7. ClaimOwned'
  BY DEF FailureReceipt, Goto, record, calls, EmitReceipt, Record, history, ClaimOwned, ClaimedPCs, GuardHeld, CallBound, GuardPCs, SentUnderClaim, WorldTypeOK, HistoryTypeOK, TypeOK, RecordTypeOK, CallTypeOK
<1>8. SentUnderClaim'
  BY DEF FailureReceipt, record, EmitReceipt, Record, history, world, SentUnderClaim, ClaimOwned, ClaimedPCs, CallBound, GuardPCs, WorldTypeOK, HistoryTypeOK, TypeOK, RecordTypeOK, CallTypeOK
<1> QED BY <1>1, <1>2, <1>3, <1>4, <1>5, <1>6, <1>7, <1>8 DEF TypeOK

\* The call that settles a claim is the one that made it.
LEMMA SettleInv ==
  ASSUME IInv, NEW p \in Calls, Settle(p)
  PROVE  IInv'
<1> USE DEF IInv
<1>1. RecordTypeOK'
  BY DEF Settle, UpdateChangeSet, StoreRefuses, TypeOK, RecordTypeOK, States, record
<1>2. CallTypeOK'
  BY ReturnType DEF Settle, TypeOK
<1>3. WorldTypeOK' /\ HistoryTypeOK'
  BY DEF Settle, UpdateChangeSet, StoreRefuses, TypeOK, WorldTypeOK, HistoryTypeOK, world, history, bounds
<1>4. GuardHeld'
  BY DEF Settle, Return, calls, GuardHeld, TypeOK, CallTypeOK, GuardPCs, CallBound
<1>5. CallBound'
  BY DEF Settle, UpdateChangeSet, StoreRefuses, Return, record, calls, CallBound, TypeOK, RecordTypeOK, CallTypeOK, GuardPCs
<1>6. Planned' /\ AuthorisedPastPlanned'
  BY DEF Settle, UpdateChangeSet, StoreRefuses, record, Planned, AuthorisedPastPlanned, Authorised, TypeOK, RecordTypeOK, CallBound
<1>7. ClaimOwned'
  BY DEF Settle, UpdateChangeSet, StoreRefuses, Return, record, calls, history, ClaimOwned, ClaimedPCs, GuardHeld, CallBound, GuardPCs, SentUnderClaim, WorldTypeOK, HistoryTypeOK, TypeOK, RecordTypeOK, CallTypeOK
<1>8. SentUnderClaim'
  BY DEF Settle, UpdateChangeSet, StoreRefuses, record, history, world, SentUnderClaim, ClaimOwned, ClaimedPCs, CallBound, GuardPCs, WorldTypeOK, HistoryTypeOK, TypeOK, RecordTypeOK, CallTypeOK
<1> QED BY <1>1, <1>2, <1>3, <1>4, <1>5, <1>6, <1>7, <1>8 DEF TypeOK

\* Mist changes no record.
LEMMA MistApplyInv ==
  ASSUME IInv, NEW c \in ChangeSets, MistApply(c)
  PROVE  IInv'
<1> USE DEF IInv
<1>1. RecordTypeOK'
  BY DEF MistApply, TypeOK, RecordTypeOK, record
<1>2. CallTypeOK'
  BY DEF MistApply, TypeOK, PCs, GuardPCs, PlanPCs, CallTypeOK, calls, Call
<1>3. WorldTypeOK' /\ HistoryTypeOK'
  <2>1. wire' \in [ChangeSets -> {"unsent", "inflight", "applied", "rejected"}]
    BY DEF MistApply, TypeOK, WorldTypeOK
  <2>2. plan[c] \in Plan
    BY DEF MistApply, SentUnderClaim, Planned
  <2>3. mist' \in [Objects -> Values \cup {None}]
    BY <2>2 DEF MistApply, TypeOK, WorldTypeOK, Plan, Objects
  <2>4. held' \subseteq ChangeSets /\ raced' \subseteq ChangeSets
    BY DEF MistApply, TypeOK, HistoryTypeOK, Holding, PastDriftCheck
  <2> QED BY <2>1, <2>3, <2>4 DEF MistApply, TypeOK, WorldTypeOK, HistoryTypeOK, bounds
<1>4. GuardHeld'
  BY DEF MistApply, calls, GuardHeld, TypeOK, CallTypeOK, GuardPCs, CallBound
<1>5. CallBound'
  BY DEF MistApply, record, calls, CallBound, TypeOK, RecordTypeOK, CallTypeOK, GuardPCs
<1>6. Planned' /\ AuthorisedPastPlanned'
  BY DEF MistApply, record, Planned, AuthorisedPastPlanned, Authorised, TypeOK, RecordTypeOK, CallBound
<1>7. ClaimOwned'
  BY DEF MistApply, record, calls, history, ClaimOwned, ClaimedPCs, GuardHeld, CallBound, GuardPCs, SentUnderClaim, WorldTypeOK, HistoryTypeOK, TypeOK, RecordTypeOK, CallTypeOK
<1>8. SentUnderClaim'
  BY DEF MistApply, record, history, world, SentUnderClaim, ClaimOwned, ClaimedPCs, CallBound, GuardPCs, WorldTypeOK, HistoryTypeOK, TypeOK, RecordTypeOK, CallTypeOK
<1> QED BY <1>1, <1>2, <1>3, <1>4, <1>5, <1>6, <1>7, <1>8 DEF TypeOK

\* Mist changes no record.
LEMMA MistRejectInv ==
  ASSUME IInv, NEW c \in ChangeSets, MistReject(c)
  PROVE  IInv'
<1> USE DEF IInv
<1>1. RecordTypeOK'
  BY DEF MistReject, TypeOK, RecordTypeOK, record
<1>2. CallTypeOK'
  BY DEF MistReject, TypeOK, PCs, GuardPCs, PlanPCs, CallTypeOK, calls, Call
<1>3. WorldTypeOK' /\ HistoryTypeOK'
  BY DEF MistReject, TypeOK, WorldTypeOK, HistoryTypeOK, world, history, bounds
<1>4. GuardHeld'
  BY DEF MistReject, calls, GuardHeld, TypeOK, CallTypeOK, GuardPCs, CallBound
<1>5. CallBound'
  BY DEF MistReject, record, calls, CallBound, TypeOK, RecordTypeOK, CallTypeOK, GuardPCs
<1>6. Planned' /\ AuthorisedPastPlanned'
  BY DEF MistReject, record, Planned, AuthorisedPastPlanned, Authorised, TypeOK, RecordTypeOK, CallBound
<1>7. ClaimOwned'
  BY DEF MistReject, record, calls, history, ClaimOwned, ClaimedPCs, GuardHeld, CallBound, GuardPCs, SentUnderClaim, WorldTypeOK, HistoryTypeOK, TypeOK, RecordTypeOK, CallTypeOK
<1>8. SentUnderClaim'
  BY DEF MistReject, record, history, world, SentUnderClaim, ClaimOwned, ClaimedPCs, CallBound, GuardPCs, WorldTypeOK, HistoryTypeOK, TypeOK, RecordTypeOK, CallTypeOK
<1> QED BY <1>1, <1>2, <1>3, <1>4, <1>5, <1>6, <1>7, <1>8 DEF TypeOK

\* Other administrators change no record.
LEMMA ExternalEditInv ==
  ASSUME IInv, NEW o \in Objects, ExternalEdit(o)
  PROVE  IInv'
<1> USE DEF IInv
<1>1. RecordTypeOK'
  BY DEF ExternalEdit, TypeOK, RecordTypeOK, record
<1>2. CallTypeOK'
  BY DEF ExternalEdit, TypeOK, PCs, GuardPCs, PlanPCs, CallTypeOK, calls, Call
<1>3. WorldTypeOK' /\ HistoryTypeOK'
  BY DEF ExternalEdit, TypeOK, WorldTypeOK, HistoryTypeOK, world, history, bounds, Holding, PastDriftCheck
<1>4. GuardHeld'
  BY DEF ExternalEdit, calls, GuardHeld, TypeOK, CallTypeOK, GuardPCs, CallBound
<1>5. CallBound'
  BY DEF ExternalEdit, record, calls, CallBound, TypeOK, RecordTypeOK, CallTypeOK, GuardPCs
<1>6. Planned' /\ AuthorisedPastPlanned'
  BY DEF ExternalEdit, record, Planned, AuthorisedPastPlanned, Authorised, TypeOK, RecordTypeOK, CallBound
<1>7. ClaimOwned'
  BY DEF ExternalEdit, record, calls, history, ClaimOwned, ClaimedPCs, GuardHeld, CallBound, GuardPCs, SentUnderClaim, WorldTypeOK, HistoryTypeOK, TypeOK, RecordTypeOK, CallTypeOK
<1>8. SentUnderClaim'
  BY DEF ExternalEdit, record, history, world, SentUnderClaim, ClaimOwned, ClaimedPCs, CallBound, GuardPCs, WorldTypeOK, HistoryTypeOK, TypeOK, RecordTypeOK, CallTypeOK
<1> QED BY <1>1, <1>2, <1>3, <1>4, <1>5, <1>6, <1>7, <1>8 DEF TypeOK

\* Time changes no record.
LEMMA TickInv ==
  ASSUME IInv, Tick
  PROVE  IInv'
<1> USE DEF IInv
<1>1. RecordTypeOK'
  BY DEF Tick, TypeOK, RecordTypeOK, record
<1>2. CallTypeOK'
  BY DEF Tick, TypeOK, PCs, GuardPCs, PlanPCs, CallTypeOK, calls, Call
<1>3. WorldTypeOK' /\ HistoryTypeOK'
  BY DEF Tick, TypeOK, WorldTypeOK, HistoryTypeOK, world, history, bounds
<1>4. GuardHeld'
  BY DEF Tick, calls, GuardHeld, TypeOK, CallTypeOK, GuardPCs, CallBound
<1>5. CallBound'
  BY DEF Tick, record, calls, CallBound, TypeOK, RecordTypeOK, CallTypeOK, GuardPCs
<1>6. Planned' /\ AuthorisedPastPlanned'
  BY DEF Tick, record, Planned, AuthorisedPastPlanned, Authorised, TypeOK, RecordTypeOK, CallBound
<1>7. ClaimOwned'
  BY DEF Tick, record, calls, history, ClaimOwned, ClaimedPCs, GuardHeld, CallBound, GuardPCs, SentUnderClaim, WorldTypeOK, HistoryTypeOK, TypeOK, RecordTypeOK, CallTypeOK
<1>8. SentUnderClaim'
  BY DEF Tick, record, history, world, SentUnderClaim, ClaimOwned, ClaimedPCs, CallBound, GuardPCs, WorldTypeOK, HistoryTypeOK, TypeOK, RecordTypeOK, CallTypeOK
<1> QED BY <1>1, <1>2, <1>3, <1>4, <1>5, <1>6, <1>7, <1>8 DEF TypeOK

\* Recovery drops the calls and settles only unmarked claims.
LEMMA CrashRestartInv ==
  ASSUME IInv, CrashRestart
  PROVE  IInv'
<1> USE DEF IInv
<1>1. RecordTypeOK'
  BY DEF CrashRestart, Recovered, TypeOK, RecordTypeOK, States, record
<1>2. CallTypeOK'
  BY NoCallType DEF CrashRestart, TypeOK, PCs, GuardPCs, PlanPCs, CallTypeOK, calls, Call
<1>3. WorldTypeOK' /\ HistoryTypeOK'
  BY DEF CrashRestart, TypeOK, WorldTypeOK, HistoryTypeOK, world, history, bounds
<1>4. GuardHeld'
  BY DEF CrashRestart, calls, GuardHeld, TypeOK, CallTypeOK, GuardPCs, CallBound
<1>5. CallBound'
  BY DEF CrashRestart, Recovered, record, calls, CallBound, TypeOK, RecordTypeOK, CallTypeOK, GuardPCs
<1>6. Planned' /\ AuthorisedPastPlanned'
  BY DEF CrashRestart, Recovered, record, Planned, AuthorisedPastPlanned, Authorised, TypeOK, RecordTypeOK, CallBound
<1>7. ClaimOwned'
  BY DEF CrashRestart, Recovered, record, calls, history, ClaimOwned, ClaimedPCs, GuardHeld, CallBound, GuardPCs, SentUnderClaim, WorldTypeOK, HistoryTypeOK, TypeOK, RecordTypeOK, CallTypeOK
<1>8. SentUnderClaim'
  BY DEF CrashRestart, Recovered, record, history, world, SentUnderClaim, ClaimOwned, ClaimedPCs, CallBound, GuardPCs, WorldTypeOK, HistoryTypeOK, TypeOK, RecordTypeOK, CallTypeOK
<1> QED BY <1>1, <1>2, <1>3, <1>4, <1>5, <1>6, <1>7, <1>8 DEF TypeOK

\* Every step of the lifecycle, of Mist and of recovery preserves IInv.
LEMMA NextIInv == IInv /\ [Next]_vars => IInv'
<1> SUFFICES ASSUME IInv, [Next]_vars PROVE IInv'
  OBVIOUS
<1>1. CASE UNCHANGED vars
  BY <1>1 DEF vars, record, calls, world, history, bounds, IInv, TypeOK,
    RecordTypeOK, CallTypeOK, WorldTypeOK, HistoryTypeOK, GuardHeld, CallBound,
    Planned, AuthorisedPastPlanned, Authorised, ClaimOwned, SentUnderClaim
<1>2. ASSUME NEW p \in Calls, PlanStart(p) \/ PlanStep(p) PROVE IInv'
  BY <1>2, PlanStartInv, PlanReadInv, StageInv, WaiveInv DEF PlanStep
<1>3. ASSUME NEW p \in Calls, ApplyStart(p) \/ AcquireGuard(p) PROVE IInv'
  BY <1>3, ApplyStartInv, AcquireGuardInv
<1>4. ASSUME NEW p \in Calls, ApplyStep(p) PROVE IInv'
  BY <1>4, FetchInv, DriftReadInv, DriftClaimInv, DriftSettleInv, IntentInv, ClaimInv,
    SendWriteInv, WriteAnsweredInv, WriteTimeoutInv, VerifyInv, ReceiptInv,
    FailureReceiptInv, SettleInv DEF ApplyStep
<1>5. ASSUME NEW c \in ChangeSets, NEW who \in Principals, Approve(c, who) PROVE IInv'
  BY <1>5, ApproveInv
<1>6. ASSUME NEW c \in ChangeSets, MistApply(c) \/ MistReject(c) PROVE IInv'
  BY <1>6, MistApplyInv, MistRejectInv
<1>7. ASSUME NEW o \in Objects, ExternalEdit(o) PROVE IInv'
  BY <1>7, ExternalEditInv
<1>8. CASE Tick \/ CrashRestart
  BY <1>8, TickInv, CrashRestartInv
<1> QED
  BY <1>1, <1>2, <1>3, <1>4, <1>5, <1>6, <1>7, <1>8 DEF Next

\* IInv holds in every reachable state of the lifecycle.
THEOREM Inductive == Spec => []IInv
  BY InitIInv, NextIInv, PTL DEF Spec

\* Every variable of the lifecycle keeps its type.
THEOREM TypeCorrect == Spec => []TypeOK
<1>1. IInv => TypeOK
  BY DEF IInv
<1> QED BY <1>1, Inductive, PTL

\* apply_mist_change_set issues a change set's write at most once, whatever
\* the number of calls, crashes, retries and faults.
THEOREM SpentOnce == Spec => []ApprovalSpentOnce
<1>1. IInv => ApprovalSpentOnce
  BY DEF IInv, SentUnderClaim, ApprovalSpentOnce
<1> QED BY <1>1, Inductive, PTL

\* No write leaves without a second human's approval (or the lab-mode waiver)
\* and a persisted apply intent.
THEOREM Authorisation == Spec => []WriteAuthorised
<1>1. IInv => WriteAuthorised
  BY DEF IInv, SentUnderClaim, AuthorisedPastPlanned, WriteAuthorised, TypeOK, HistoryTypeOK
<1> QED BY <1>1, Inductive, PTL

\* A record that is applying or failed without the apply_without_handle marker
\* never sent a request, so recovering it as Failed is the truth.
THEOREM MarkerTruthful == Spec => []UnmarkedNeverSent
<1>1. IInv => UnmarkedNeverSent
  BY DEF IInv, SentUnderClaim, UnmarkedNeverSent, TypeOK, HistoryTypeOK
<1> QED BY <1>1, Inductive, PTL

-----------------------------------------------------------------------------
(* The lifecycle implements the approval ledger.                            *)

\* The ledger's view of the record store.
LedgerView == [c \in ChangeSets |-> LedgerState(state[c])]
OwnerView  == [c \in ChangeSets |-> IF state[c] = "absent" THEN None ELSE plan[c].owner]

\* A step that leaves the records and the count of writes alone is a stutter.
LEMMA LedgerStutter ==
  ASSUME UNCHANGED <<state, plan, approver, sends>>
  PROVE  UNCHANGED Ledger!lvars
  BY DEF Ledger!lvars

\* A record that moves on moves its ledger entry, and keeps its owner unless it
\* is inserted.
LEMMA LedgerMoves ==
  ASSUME TypeOK, NEW c \in ChangeSets, state[c] # "absent", NEW new \in States \ {"absent"},
         state' = [state EXCEPT ![c] = new], plan' = plan
  PROVE  /\ LedgerView' = [LedgerView EXCEPT ![c] = LedgerState(new)]
         /\ OwnerView' = OwnerView
<1>1. \A b \in ChangeSets : state'[b] = IF b = c THEN new ELSE state[b]
  BY DEF TypeOK, RecordTypeOK
<1>2. LedgerView' = [LedgerView EXCEPT ![c] = LedgerState(new)]
  <2>1. LedgerView' = [b \in ChangeSets |-> LedgerState(state'[b])]
    BY DEF LedgerView
  <2>2. \A b \in ChangeSets : LedgerState(state'[b]) = IF b = c THEN LedgerState(new) ELSE LedgerView[b]
    BY <1>1 DEF LedgerView
  <2> QED BY <2>1, <2>2 DEF LedgerView
<1>3. OwnerView' = OwnerView
  BY <1>1 DEF OwnerView
<1> QED BY <1>2, <1>3

\* stage_plan proposes, with the caller as the owner.
LEMMA StageLedger ==
  ASSUME IInv, NEW p \in Calls, Stage(p)
  PROVE  [Ledger!LedgerNext]_(Ledger!lvars)
<1> USE DEF IInv
<1>1. CASE UNCHANGED <<state, plan>>
  BY <1>1, LedgerStutter DEF Stage, history
<1>2. CASE ~UNCHANGED <<state, plan>>
  <2>1. PICK c \in ChangeSets, after \in Values :
          /\ state[c] = "absent"
          /\ state' = [state EXCEPT ![c] = "planned"]
          /\ plan' = [plan EXCEPT ![c] =
               [owner |-> call[p].who, device |-> call[p].device, org |-> call[p].org,
                before |-> call[p].before, after |-> after, expires |-> now + PlanTTL]]
    BY <1>2 DEF Stage
  <2>2. call[p].who \in Principals
    BY DEF Stage, CallBound
  <2>3. \A b \in ChangeSets : state'[b] = IF b = c THEN "planned" ELSE state[b]
    BY <2>1 DEF TypeOK, RecordTypeOK
  <2>4. plan'[c].owner = call[p].who /\ \A b \in ChangeSets : b # c => plan'[b] = plan[b]
    BY <2>1 DEF TypeOK, RecordTypeOK
  <2>5. LedgerView[c] = "none" /\ LedgerView' = [LedgerView EXCEPT ![c] = "proposed"]
    <3>1. LedgerView[c] = "none" /\ LedgerState(state'[c]) = "proposed"
      BY <2>1, <2>3 DEF LedgerView, LedgerState
    <3>2. \A b \in ChangeSets : b # c => LedgerState(state'[b]) = LedgerView[b]
      BY <2>3 DEF LedgerView
    <3>3. LedgerView' = [b \in ChangeSets |-> LedgerState(state'[b])]
      BY DEF LedgerView
    <3> QED BY <3>1, <3>2, <3>3 DEF LedgerView
  <2>6. OwnerView' = [OwnerView EXCEPT ![c] = call[p].who]
    BY <2>3, <2>4 DEF OwnerView
  <2>7. UNCHANGED <<approver, sends>>
    BY DEF Stage, history
  <2>8. Ledger!Propose(c)
    BY <2>2, <2>5, <2>6, <2>7 DEF Ledger!Propose, Ledger!Move, LedgerView, OwnerView
  <2> QED BY <2>8 DEF Ledger!LedgerNext
<1> QED BY <1>1, <1>2

\* An approval grants: the approver is a human and not the owner.
LEMMA ApproveLedger ==
  ASSUME IInv, NEW c \in ChangeSets, NEW who \in Principals, Approve(c, who)
  PROVE  [Ledger!LedgerNext]_(Ledger!lvars)
<1> USE DEF IInv
<1>1. state[c] = "planned" /\ state' = [state EXCEPT ![c] = "approved"] /\ UNCHANGED <<plan, sends>>
  BY DEF Approve, history
<1>2. LedgerView[c] = "proposed" /\ LedgerView' = [LedgerView EXCEPT ![c] = "granted"]
      /\ OwnerView' = OwnerView
  BY <1>1, LedgerMoves DEF LedgerView, LedgerState, States
<1>3. who \in Humans \ {OwnerView[c]} /\ approver' = [approver EXCEPT ![c] = who]
  BY <1>1 DEF Approve, MayApprove, OwnerView
<1>4. Ledger!Grant(c)
  BY <1>1, <1>2, <1>3 DEF Ledger!Grant, Ledger!Move, LedgerView, OwnerView
<1> QED BY <1>4 DEF Ledger!LedgerNext

\* The waiver grants where lab mode allows it, or is refused and stutters.
LEMMA WaiveLedger ==
  ASSUME IInv, NEW p \in Calls, Waive(p)
  PROVE  [Ledger!LedgerNext]_(Ledger!lvars)
<1> USE DEF IInv
<1> DEFINE c == call[p].cs
<1>1. CASE StoreRefuses(c, "planned")
  BY <1>1, LedgerStutter DEF Waive, StoreRefuses, record
<1>2. CASE ~StoreRefuses(c, "planned")
  <2>1. /\ state[c] = "planned" /\ state' = [state EXCEPT ![c] = "approved"]
        /\ approver' = [approver EXCEPT ![c] = "waived"] /\ UNCHANGED <<plan, sends>>
    BY <1>2 DEF Waive
  <2>2. c \in ChangeSets /\ LabMode
    BY DEF Waive, CallBound
  <2>3. LedgerView[c] = "proposed" /\ LedgerView' = [LedgerView EXCEPT ![c] = "granted"]
        /\ OwnerView' = OwnerView
    BY <2>1, <2>2, LedgerMoves DEF LedgerView, LedgerState, States
  <2>4. Ledger!Grant(c)
    BY <2>1, <2>2, <2>3 DEF Ledger!Grant, Ledger!Move, LedgerView, OwnerView
  <2> QED BY <2>2, <2>4 DEF Ledger!LedgerNext
<1> QED BY <1>1, <1>2

\* Both claims of apply_mist_change_set take a granted entry, once.
LEMMA ClaimLedger ==
  ASSUME IInv, NEW p \in Calls, Claim(p) \/ DriftClaim(p)
  PROVE  [Ledger!LedgerNext]_(Ledger!lvars)
<1> USE DEF IInv
<1> DEFINE c == call[p].cs
<1>1. CASE StoreRefuses(c, "approved")
  BY <1>1, LedgerStutter DEF Claim, DriftClaim, StoreRefuses, record
<1>2. CASE ~StoreRefuses(c, "approved")
  <2>1. /\ state[c] = "approved" /\ state' = [state EXCEPT ![c] = "applying"]
        /\ UNCHANGED <<plan, approver, sends>>
    BY <1>2 DEF Claim, DriftClaim, ClaimForApply
  <2>2. c \in ChangeSets
    BY DEF Claim, DriftClaim, CallBound, GuardPCs
  <2>3. LedgerView[c] = "granted" /\ LedgerView' = [LedgerView EXCEPT ![c] = "claimed"]
        /\ OwnerView' = OwnerView
    BY <2>1, <2>2, LedgerMoves DEF LedgerView, LedgerState, States
  <2>4. Ledger!Claim(c)
    BY <2>1, <2>3 DEF Ledger!Claim, Ledger!Move, LedgerView, OwnerView
  <2> QED BY <2>2, <2>4 DEF Ledger!LedgerNext
<1> QED BY <1>1, <1>2

\* The write leaves under a claim, and it is the first.
LEMMA SendWriteLedger ==
  ASSUME IInv, NEW p \in Calls, SendWrite(p)
  PROVE  [Ledger!LedgerNext]_(Ledger!lvars)
<1> USE DEF IInv
<1> DEFINE c == call[p].cs
<1>1. c \in ChangeSets /\ state[c] = "applying" /\ sends[c] = 0
  BY DEF SendWrite, CallBound, GuardPCs, ClaimOwned, ClaimedPCs
<1>2. UNCHANGED <<state, plan, approver>>
  BY DEF SendWrite, record
<1>3. CASE sends' = sends
  BY <1>2, <1>3, LedgerStutter
<1>4. CASE sends' # sends
  <2>1. sends' = [sends EXCEPT ![c] = 1]
    BY <1>1, <1>4 DEF SendWrite, TypeOK, HistoryTypeOK
  <2>2. LedgerView[c] = "claimed" /\ LedgerView' = LedgerView /\ OwnerView' = OwnerView
    BY <1>1, <1>2 DEF LedgerView, OwnerView, LedgerState
  <2>3. Ledger!Write(c)
    BY <1>1, <1>2, <2>1, <2>2 DEF Ledger!Write, LedgerView, OwnerView
  <2> QED BY <1>1, <2>3 DEF Ledger!LedgerNext
<1> QED BY <1>3, <1>4

\* Both ends of an apply close the entry that its claim opened.
LEMMA SettleLedger ==
  ASSUME IInv, NEW p \in Calls, Settle(p) \/ DriftSettle(p)
  PROVE  [Ledger!LedgerNext]_(Ledger!lvars)
<1> USE DEF IInv
<1> DEFINE c == call[p].cs
<1>1. CASE StoreRefuses(c, "applying")
  BY <1>1, LedgerStutter DEF Settle, DriftSettle, StoreRefuses, record
<1>2. CASE ~StoreRefuses(c, "applying")
  <2>1. PICK new \in {"applied", "failed"} :
          /\ state[c] = "applying" /\ state' = [state EXCEPT ![c] = new]
          /\ UNCHANGED <<plan, approver, sends>>
    BY <1>2 DEF Settle, DriftSettle, UpdateChangeSet
  <2>2. c \in ChangeSets
    BY DEF Settle, DriftSettle, CallBound, GuardPCs
  <2>3. LedgerView[c] = "claimed" /\ LedgerState(new) = "closed"
    BY <2>1, <2>2 DEF LedgerView, LedgerState
  <2>4. LedgerView' = [LedgerView EXCEPT ![c] = "closed"] /\ OwnerView' = OwnerView
    <3>1. state[c] # "absent" /\ new \in States \ {"absent"}
      BY <2>1 DEF States
    <3> QED BY <2>1, <2>2, <2>3, <3>1, LedgerMoves
  <2>5. Ledger!Close(c)
    BY <2>1, <2>3, <2>4 DEF Ledger!Close, Ledger!Move, LedgerView, OwnerView
  <2> QED BY <2>2, <2>5 DEF Ledger!LedgerNext
<1> QED BY <1>1, <1>2

\* Recovery closes claims without a handle to expect, which never wrote.
LEMMA CrashLedger ==
  ASSUME IInv, CrashRestart
  PROVE  [Ledger!LedgerNext]_(Ledger!lvars)
<1> USE DEF IInv
<1> DEFINE S == {c \in ChangeSets : state[c] = "applying" /\ ~handleless[c]}
<1>1. \A c \in ChangeSets : state'[c] = IF c \in S THEN "failed" ELSE state[c]
  BY DEF CrashRestart, Recovered
<1>2. UNCHANGED <<plan, approver, sends>>
  BY DEF CrashRestart, history
<1>3. \A c \in S : LedgerView[c] = "claimed" /\ sends[c] = 0
  BY DEF LedgerView, LedgerState, SentUnderClaim, TypeOK, HistoryTypeOK
<1>4. LedgerView' = [c \in ChangeSets |-> IF c \in S THEN "closed" ELSE LedgerView[c]]
  BY <1>1 DEF LedgerView, LedgerState
<1>5. OwnerView' = OwnerView
  BY <1>1, <1>2 DEF OwnerView
<1>6. S \in SUBSET {c \in ChangeSets : LedgerView[c] = "claimed" /\ sends[c] = 0}
  BY <1>3
<1>7. Ledger!Recover
  BY <1>2, <1>4, <1>5, <1>6 DEF Ledger!Recover, LedgerView, OwnerView
<1> QED BY <1>7 DEF Ledger!LedgerNext

\* The lifecycle tools implement ApprovalLedger: whatever calls interleave,
\* fail or are cut off, each step is a step of the ledger or invisible to it.
THEOREM LedgerRefined == Spec => ImplementsLedger
<1>1. Init => Ledger!LedgerInit
  BY DEF Init, Ledger!LedgerInit, LedgerState
<1>2. IInv /\ [Next]_vars => [Ledger!LedgerNext]_(Ledger!lvars)
  <2> SUFFICES ASSUME IInv, [Next]_vars PROVE [Ledger!LedgerNext]_(Ledger!lvars)
    OBVIOUS
  <2>1. CASE UNCHANGED vars
    BY <2>1, LedgerStutter DEF vars, record, history
  <2>2. ASSUME NEW p \in Calls,
               PlanStart(p) \/ PlanRead(p) \/ ApplyStart(p) \/ AcquireGuard(p) \/ Fetch(p)
        PROVE  UNCHANGED Ledger!lvars
    <3>1. UNCHANGED <<record, history>>
      BY <2>2, Zenon DEF PlanStart, PlanRead, ApplyStart, AcquireGuard, Fetch
    <3> QED BY <3>1, LedgerStutter DEF record, history
  <2>3. ASSUME NEW p \in Calls,
               \/ DriftRead(p) \/ Intent(p) \/ WriteAnswered(p) \/ WriteTimeout(p)
               \/ Verify(p) \/ Receipt(p) \/ FailureReceipt(p)
        PROVE  UNCHANGED Ledger!lvars
    BY <2>3, LedgerStutter DEF DriftRead, Intent, WriteAnswered, WriteTimeout, Verify, Receipt,
      FailureReceipt, record, history
  <2>4. ASSUME NEW p \in Calls, Stage(p) \/ Waive(p) \/ Claim(p) \/ DriftClaim(p)
        PROVE  [Ledger!LedgerNext]_(Ledger!lvars)
    BY <2>4, StageLedger, WaiveLedger, ClaimLedger
  <2>5. ASSUME NEW p \in Calls, SendWrite(p) \/ Settle(p) \/ DriftSettle(p)
        PROVE  [Ledger!LedgerNext]_(Ledger!lvars)
    BY <2>5, SendWriteLedger, SettleLedger
  <2>6. ASSUME NEW c \in ChangeSets, NEW who \in Principals, Approve(c, who)
        PROVE  [Ledger!LedgerNext]_(Ledger!lvars)
    BY <2>6, ApproveLedger
  <2>7. ASSUME NEW c \in ChangeSets, MistApply(c) \/ MistReject(c) PROVE UNCHANGED Ledger!lvars
    BY <2>7, LedgerStutter DEF MistApply, MistReject, record, history
  <2>8. ASSUME NEW o \in Objects, ExternalEdit(o) PROVE UNCHANGED Ledger!lvars
    BY <2>8, LedgerStutter DEF ExternalEdit, record
  <2>9. CASE Tick
    BY <2>9, LedgerStutter DEF Tick, record, history
  <2>10. CASE CrashRestart
    BY <2>10, CrashLedger
  <2> QED
    BY <2>1, <2>2, <2>3, <2>4, <2>5, <2>6, <2>7, <2>8, <2>9, <2>10 DEF Next, PlanStep, ApplyStep
<1> QED BY <1>1, <1>2, Inductive, PTL DEF Spec, ImplementsLedger, Ledger!LedgerSpec

-----------------------------------------------------------------------------
(* What the lifecycle leaves behind.                                        *)
(*                                                                         *)
(* HInv is the inductive invariant, relative to IInv.  The device guard     *)
(* carries the argument: past the fetch of the record, one call at most     *)
(* works on a change set (SoleWorker), so what it saw of the record still   *)
(* holds when it uses it.                                                  *)

\* Past the fetch, the record is for the device whose guard the call holds.
WorkPCs == GuardPCs \ {"fetch"}

\* Between the fetch and the claim the approval the call saw is still there.
ApprovalKept == \A p \in Calls :
  pc[p] \in {"drift", "drift_claim", "intent", "claim"} => state[call[p].cs] = "approved"

\* A call that waits for, or has got, an answer has sent the write.
SentBeforeAnswer == \A p \in Calls :
  pc[p] \in {"await", "verify", "failure_receipt", "receipt"} => sends[call[p].cs] > 0

\* `held` keeps up with Mist: no moment at which a sent `after` is there is missed.
HeldTracked == \A c \in ChangeSets :
  sends[c] > 0 /\ mist[Target(c)] = plan[c].after => c \in held

\* A call believes its write verified only once the target was seen to hold `after`.
VerifiedHeld == \A p \in Calls :
  call[p].verified => pc[p] \in {"receipt", "settle"} /\ call[p].cs \in held

\* Behind a success receipt there is a marked claim, and whoever still owns it
\* is about to settle it as Applied.
ReceiptSettles == \A c \in ChangeSets : "receipt_applied" \in evidence[c] =>
  /\ state[c] \in {"applying", "applied"}
  /\ handleless[c]
  /\ \A p \in Calls : call[p].cs = c /\ pc[p] \in ClaimedPCs =>
       pc[p] = "settle" /\ call[p].verified

\* Without a crash or a failed state write, the call that made a claim is there.
ClaimWorked ==
  crashes = 0 /\ ~stateFault =>
    \A c \in ChangeSets : state[c] = "applying" =>
      \E p \in Calls : call[p].cs = c /\ pc[p] \in ClaimedPCs \cup {"drift_settle"}

\* Without them, too, a drifted change set is being failed, or has failed.
DriftSpent ==
  crashes = 0 /\ ~stateFault =>
    \A c \in drifted :
      /\ sends[c] = 0
      /\ \/ state[c] = "failed"
         \/ \E p \in Calls : call[p].cs = c /\ pc[p] \in {"drift_claim", "drift_settle"}

\* From its drift check until Mist carries out its write, the object of an
\* update is as planned, unless somebody else is known to have changed it.
UnchangedSinceCheck == \A p \in Calls :
  LET c == call[p].cs IN
  /\ pc[p] \in {"intent", "claim", "write", "await"}
  /\ pc[p] = "await" => wire[c] # "applied"
  /\ ~IsCreate(c)
  /\ c \notin raced
  => mist[plan[c].device] = plan[c].before

\* The inductive invariant of this module, relative to IInv.
HInv ==
  /\ ApprovalKept /\ SentBeforeAnswer /\ HeldTracked /\ VerifiedHeld
  /\ AppliedWasHeld /\ ReceiptSettles /\ ClaimWorked /\ DriftSpent /\ UnchangedSinceCheck

-----------------------------------------------------------------------------

\* Past the fetch, the calls of one device are one call.
SoleWorker == \A p, q \in Calls :
  pc[p] \in WorkPCs /\ pc[q] \in WorkPCs /\ call[p].device = call[q].device => p = q

\* The guard makes it so: both are its holder.
LEMMA Sole == IInv => SoleWorker
  BY DEF IInv, GuardHeld, SoleWorker, WorkPCs

\* A planning call works on no change set.
LEMMA PlanStartHist ==
  ASSUME IInv, HInv, SoleWorker, NEW p \in Calls, PlanStart(p)
  PROVE  HInv'
<1> USE DEF IInv, HInv, SoleWorker, WorkPCs
<1>1. ApprovalKept'
  BY DEF PlanStart, NoCall, ApprovalKept, CallBound, GuardPCs, TypeOK, RecordTypeOK,
    CallTypeOK, record
<1>2. SentBeforeAnswer'
  BY DEF PlanStart, NoCall, SentBeforeAnswer, CallBound, GuardPCs, HistoryTypeOK,
    history, TypeOK, RecordTypeOK, CallTypeOK, record
<1>3. HeldTracked'
  BY DEF PlanStart, NoCall, HeldTracked, Target, IsCreate, SentUnderClaim,
    HistoryTypeOK, WorldTypeOK, history, world, TypeOK, RecordTypeOK, CallTypeOK, record
<1>4. VerifiedHeld'
  BY DEF PlanStart, NoCall, VerifiedHeld, SentBeforeAnswer, HeldTracked, CallBound,
    GuardPCs, history, TypeOK, RecordTypeOK, CallTypeOK, record
<1>5. AppliedWasHeld'
  BY DEF PlanStart, NoCall, AppliedWasHeld, VerifiedHeld, CallBound, GuardPCs,
    HistoryTypeOK, history, TypeOK, RecordTypeOK, CallTypeOK, record
<1>6. ReceiptSettles'
  BY DEF PlanStart, NoCall, ReceiptSettles, CallBound, GuardPCs, ClaimedPCs, ClaimOwned,
    WorldTypeOK, Entries, Receipts, TypeOK, RecordTypeOK, CallTypeOK, record
<1>7. ClaimWorked'
  BY DEF PlanStart, NoCall, ClaimWorked, ApprovalKept, CallBound, GuardPCs, ClaimedPCs,
    ClaimOwned, HistoryTypeOK, history, bounds, TypeOK, RecordTypeOK, CallTypeOK, record
<1>8. DriftSpent'
  BY DEF PlanStart, NoCall, DriftSpent, ApprovalKept, CallBound, GuardPCs, ClaimedPCs,
    ClaimOwned, SentUnderClaim, HistoryTypeOK, history, bounds, TypeOK, RecordTypeOK,
    CallTypeOK, record
<1>9. UnchangedSinceCheck'
  BY DEF PlanStart, NoCall, UnchangedSinceCheck, IsCreate, CallBound, GuardPCs,
    SentUnderClaim, HistoryTypeOK, WorldTypeOK, history, world, TypeOK, RecordTypeOK,
    CallTypeOK, record
<1> QED BY <1>1, <1>2, <1>3, <1>4, <1>5, <1>6, <1>7, <1>8, <1>9

\* A planning call works on no change set.
LEMMA PlanReadHist ==
  ASSUME IInv, HInv, SoleWorker, NEW p \in Calls, PlanRead(p)
  PROVE  HInv'
<1> USE DEF IInv, HInv, SoleWorker, WorkPCs
<1>1. ApprovalKept'
  BY DEF PlanRead, Return, NoCall, ApprovalKept, CallBound, GuardPCs, TypeOK,
    RecordTypeOK, CallTypeOK, record
<1>2. SentBeforeAnswer'
  BY DEF PlanRead, Return, NoCall, SentBeforeAnswer, CallBound, GuardPCs, HistoryTypeOK,
    history, TypeOK, RecordTypeOK, CallTypeOK, record
<1>3. HeldTracked'
  BY DEF PlanRead, Return, NoCall, HeldTracked, Target, IsCreate, SentUnderClaim,
    HistoryTypeOK, WorldTypeOK, history, world, TypeOK, RecordTypeOK, CallTypeOK, record
<1>4. VerifiedHeld'
  <2>1. ~call[p].verified
    BY DEF PlanRead, VerifiedHeld
  <2>2. ~call'[p].verified
    BY <2>1 DEF PlanRead, Return, NoCall, TypeOK, CallTypeOK, Call
  <2>3. \A q \in Calls : q # p => call'[q] = call[q] /\ pc'[q] = pc[q]
    BY DEF PlanRead, Return, TypeOK, CallTypeOK
  <2> QED BY <2>2, <2>3 DEF PlanRead, VerifiedHeld, history
<1>5. AppliedWasHeld'
  BY DEF PlanRead, Return, NoCall, AppliedWasHeld, VerifiedHeld, CallBound, GuardPCs,
    HistoryTypeOK, history, TypeOK, RecordTypeOK, CallTypeOK, record
<1>6. ReceiptSettles'
  BY DEF PlanRead, Return, NoCall, ReceiptSettles, CallBound, GuardPCs, ClaimedPCs,
    ClaimOwned, WorldTypeOK, Entries, Receipts, TypeOK, RecordTypeOK, CallTypeOK, record
<1>7. ClaimWorked'
  BY DEF PlanRead, Return, NoCall, ClaimWorked, ApprovalKept, CallBound, GuardPCs,
    ClaimedPCs, ClaimOwned, HistoryTypeOK, history, bounds, TypeOK, RecordTypeOK,
    CallTypeOK, record
<1>8. DriftSpent'
  BY DEF PlanRead, Return, NoCall, DriftSpent, ApprovalKept, CallBound, GuardPCs,
    ClaimedPCs, ClaimOwned, SentUnderClaim, HistoryTypeOK, history, bounds, TypeOK,
    RecordTypeOK, CallTypeOK, record
<1>9. UnchangedSinceCheck'
  BY DEF PlanRead, Return, NoCall, UnchangedSinceCheck, IsCreate, CallBound, GuardPCs,
    SentUnderClaim, HistoryTypeOK, WorldTypeOK, history, world, TypeOK, RecordTypeOK,
    CallTypeOK, record
<1> QED BY <1>1, <1>2, <1>3, <1>4, <1>5, <1>6, <1>7, <1>8, <1>9

\* stage_plan adds a record nobody works on yet.
LEMMA StageHist ==
  ASSUME IInv, HInv, SoleWorker, NEW p \in Calls, Stage(p)
  PROVE  HInv'
<1> USE DEF IInv, HInv, SoleWorker, WorkPCs
<1>1. ApprovalKept'
  BY DEF Stage, Return, NoCall, Record, ApprovalKept, CallBound, GuardPCs, TypeOK,
    RecordTypeOK, CallTypeOK, record
<1>2. SentBeforeAnswer'
  BY DEF Stage, Return, NoCall, Record, SentBeforeAnswer, CallBound, GuardPCs,
    HistoryTypeOK, history, TypeOK, RecordTypeOK, CallTypeOK, record
<1>3. HeldTracked'
  BY DEF Stage, Return, NoCall, Record, HeldTracked, Target, IsCreate, SentUnderClaim,
    HistoryTypeOK, WorldTypeOK, history, world, TypeOK, RecordTypeOK, CallTypeOK, record
<1>4. VerifiedHeld'
  <2>1. ~call[p].verified
    BY DEF Stage, VerifiedHeld
  <2>2. ~call'[p].verified
    BY <2>1 DEF Stage, Return, NoCall, TypeOK, CallTypeOK, Call
  <2>3. \A q \in Calls : q # p => call'[q] = call[q] /\ pc'[q] = pc[q]
    BY DEF Stage, Return, TypeOK, CallTypeOK
  <2> QED BY <2>2, <2>3 DEF Stage, VerifiedHeld, history
<1>5. AppliedWasHeld'
  BY DEF Stage, Return, NoCall, Record, AppliedWasHeld, VerifiedHeld, CallBound,
    GuardPCs, HistoryTypeOK, history, TypeOK, RecordTypeOK, CallTypeOK, record
<1>6. ReceiptSettles'
  BY SMTT(40) DEF Stage, Return, NoCall, Record, ReceiptSettles, CallBound, GuardPCs, ClaimedPCs,
    ClaimOwned, WorldTypeOK, Entries, Receipts, TypeOK, RecordTypeOK, CallTypeOK, record
<1>7. ClaimWorked'
  BY DEF Stage, Return, NoCall, Record, ClaimWorked, ApprovalKept, CallBound, GuardPCs,
    ClaimedPCs, ClaimOwned, HistoryTypeOK, history, bounds, TypeOK, RecordTypeOK,
    CallTypeOK, record
<1>8. DriftSpent'
  BY DEF Stage, Return, NoCall, Record, DriftSpent, ApprovalKept, CallBound, GuardPCs,
    ClaimedPCs, ClaimOwned, SentUnderClaim, HistoryTypeOK, history, bounds, TypeOK,
    RecordTypeOK, CallTypeOK, record
<1>9. UnchangedSinceCheck'
  <2>1. \A q \in Calls : q # p => call'[q] = call[q] /\ pc'[q] = pc[q]
    BY DEF Stage, Return, TypeOK, CallTypeOK
  <2>2. pc'[p] \in {"idle", "waive"}
    BY DEF Stage, Return, TypeOK, CallTypeOK
  <2>3. \A c \in ChangeSets : state[c] # "absent" => plan'[c] = plan[c]
    BY DEF Stage, TypeOK, RecordTypeOK
  <2>4. \A q \in Calls : pc[q] \in {"intent", "claim", "write", "await"} =>
          call[q].cs \in ChangeSets /\ state[call[q].cs] # "absent"
    BY DEF CallBound, GuardPCs
  <2>5. UNCHANGED <<mist, wire, raced>>
    BY DEF Stage, world, history
  <2> QED BY <2>1, <2>2, <2>3, <2>4, <2>5 DEF UnchangedSinceCheck, IsCreate
<1> QED BY <1>1, <1>2, <1>3, <1>4, <1>5, <1>6, <1>7, <1>8, <1>9

\* The waiver moves a planned record only.
LEMMA WaiveHist ==
  ASSUME IInv, HInv, SoleWorker, NEW p \in Calls, Waive(p)
  PROVE  HInv'
<1> USE DEF IInv, HInv, SoleWorker, WorkPCs
<1>1. ApprovalKept'
  BY DEF Waive, Return, NoCall, StoreRefuses, ApprovalKept, CallBound, GuardPCs, TypeOK,
    RecordTypeOK, CallTypeOK, record
<1>2. SentBeforeAnswer'
  BY DEF Waive, Return, NoCall, StoreRefuses, SentBeforeAnswer, CallBound, GuardPCs,
    HistoryTypeOK, history, TypeOK, RecordTypeOK, CallTypeOK, record
<1>3. HeldTracked'
  BY DEF Waive, Return, NoCall, StoreRefuses, HeldTracked, Target, IsCreate,
    SentUnderClaim, HistoryTypeOK, WorldTypeOK, history, world, TypeOK, RecordTypeOK,
    CallTypeOK, record
<1>4. VerifiedHeld'
  BY DEF Waive, Return, NoCall, StoreRefuses, VerifiedHeld, SentBeforeAnswer,
    HeldTracked, CallBound, GuardPCs, history, TypeOK, RecordTypeOK, CallTypeOK, record
<1>5. AppliedWasHeld'
  BY DEF Waive, Return, NoCall, StoreRefuses, AppliedWasHeld, VerifiedHeld, CallBound,
    GuardPCs, HistoryTypeOK, history, TypeOK, RecordTypeOK, CallTypeOK, record
<1>6. ReceiptSettles'
  BY DEF Waive, Return, NoCall, StoreRefuses, ReceiptSettles, CallBound, GuardPCs,
    ClaimedPCs, ClaimOwned, WorldTypeOK, Entries, Receipts, TypeOK, RecordTypeOK,
    CallTypeOK, record
<1>7. ClaimWorked'
  BY DEF Waive, Return, NoCall, StoreRefuses, ClaimWorked, ApprovalKept, CallBound,
    GuardPCs, ClaimedPCs, ClaimOwned, HistoryTypeOK, history, bounds, TypeOK,
    RecordTypeOK, CallTypeOK, record
<1>8. DriftSpent'
  BY DEF Waive, Return, NoCall, StoreRefuses, DriftSpent, ApprovalKept, CallBound,
    GuardPCs, ClaimedPCs, ClaimOwned, SentUnderClaim, HistoryTypeOK, history, bounds,
    TypeOK, RecordTypeOK, CallTypeOK, record
<1>9. UnchangedSinceCheck'
  BY DEF Waive, Return, NoCall, StoreRefuses, UnchangedSinceCheck, IsCreate, CallBound,
    GuardPCs, SentUnderClaim, HistoryTypeOK, WorldTypeOK, history, world, TypeOK,
    RecordTypeOK, CallTypeOK, record
<1> QED BY <1>1, <1>2, <1>3, <1>4, <1>5, <1>6, <1>7, <1>8, <1>9

\* An approval moves a planned record only.
LEMMA ApproveHist ==
  ASSUME IInv, HInv, SoleWorker, NEW c \in ChangeSets, NEW who \in Principals, Approve(c, who)
  PROVE  HInv'
<1> USE DEF IInv, HInv, SoleWorker, WorkPCs
<1>1. ApprovalKept'
  BY DEF Approve, MayApprove, Record, calls, ApprovalKept, CallBound, GuardPCs, TypeOK,
    RecordTypeOK, CallTypeOK, record
<1>2. SentBeforeAnswer'
  BY DEF Approve, MayApprove, Record, calls, SentBeforeAnswer, CallBound, GuardPCs,
    HistoryTypeOK, history, TypeOK, RecordTypeOK, CallTypeOK, record
<1>3. HeldTracked'
  BY DEF Approve, MayApprove, Record, calls, HeldTracked, Target, IsCreate,
    SentUnderClaim, HistoryTypeOK, WorldTypeOK, history, world, TypeOK, RecordTypeOK,
    CallTypeOK, record
<1>4. VerifiedHeld'
  BY DEF Approve, MayApprove, Record, calls, VerifiedHeld, SentBeforeAnswer,
    HeldTracked, CallBound, GuardPCs, history, TypeOK, RecordTypeOK, CallTypeOK, record
<1>5. AppliedWasHeld'
  BY DEF Approve, MayApprove, Record, calls, AppliedWasHeld, VerifiedHeld, CallBound,
    GuardPCs, HistoryTypeOK, history, TypeOK, RecordTypeOK, CallTypeOK, record
<1>6. ReceiptSettles'
  BY DEF Approve, MayApprove, Record, calls, ReceiptSettles, CallBound, GuardPCs,
    ClaimedPCs, ClaimOwned, WorldTypeOK, Entries, Receipts, TypeOK, RecordTypeOK,
    CallTypeOK, record
<1>7. ClaimWorked'
  BY DEF Approve, MayApprove, Record, calls, ClaimWorked, ApprovalKept, CallBound,
    GuardPCs, ClaimedPCs, ClaimOwned, HistoryTypeOK, history, bounds, TypeOK,
    RecordTypeOK, CallTypeOK, record
<1>8. DriftSpent'
  BY DEF Approve, MayApprove, Record, calls, DriftSpent, ApprovalKept, CallBound,
    GuardPCs, ClaimedPCs, ClaimOwned, SentUnderClaim, HistoryTypeOK, history, bounds,
    TypeOK, RecordTypeOK, CallTypeOK, record
<1>9. UnchangedSinceCheck'
  BY DEF Approve, MayApprove, Record, calls, UnchangedSinceCheck, IsCreate, CallBound,
    GuardPCs, SentUnderClaim, HistoryTypeOK, WorldTypeOK, history, world, TypeOK,
    RecordTypeOK, CallTypeOK, record
<1> QED BY <1>1, <1>2, <1>3, <1>4, <1>5, <1>6, <1>7, <1>8, <1>9

\* A call that queues for the guard works on nothing yet.
LEMMA ApplyStartHist ==
  ASSUME IInv, HInv, SoleWorker, NEW p \in Calls, ApplyStart(p)
  PROVE  HInv'
<1> USE DEF IInv, HInv, SoleWorker, WorkPCs
<1>1. ApprovalKept'
  BY DEF ApplyStart, NoCall, ApprovalKept, CallBound, GuardPCs, TypeOK, RecordTypeOK,
    CallTypeOK, record
<1>2. SentBeforeAnswer'
  BY DEF ApplyStart, NoCall, SentBeforeAnswer, CallBound, GuardPCs, HistoryTypeOK,
    history, TypeOK, RecordTypeOK, CallTypeOK, record
<1>3. HeldTracked'
  BY DEF ApplyStart, NoCall, HeldTracked, Target, IsCreate, SentUnderClaim,
    HistoryTypeOK, WorldTypeOK, history, world, TypeOK, RecordTypeOK, CallTypeOK, record
<1>4. VerifiedHeld'
  BY DEF ApplyStart, NoCall, VerifiedHeld, SentBeforeAnswer, HeldTracked, CallBound,
    GuardPCs, history, TypeOK, RecordTypeOK, CallTypeOK, record
<1>5. AppliedWasHeld'
  BY DEF ApplyStart, NoCall, AppliedWasHeld, VerifiedHeld, CallBound, GuardPCs,
    HistoryTypeOK, history, TypeOK, RecordTypeOK, CallTypeOK, record
<1>6. ReceiptSettles'
  BY DEF ApplyStart, NoCall, ReceiptSettles, CallBound, GuardPCs, ClaimedPCs,
    ClaimOwned, WorldTypeOK, Entries, Receipts, TypeOK, RecordTypeOK, CallTypeOK, record
<1>7. ClaimWorked'
  BY DEF ApplyStart, NoCall, ClaimWorked, ApprovalKept, CallBound, GuardPCs, ClaimedPCs,
    ClaimOwned, HistoryTypeOK, history, bounds, TypeOK, RecordTypeOK, CallTypeOK, record
<1>8. DriftSpent'
  BY DEF ApplyStart, NoCall, DriftSpent, ApprovalKept, CallBound, GuardPCs, ClaimedPCs,
    ClaimOwned, SentUnderClaim, HistoryTypeOK, history, bounds, TypeOK, RecordTypeOK,
    CallTypeOK, record
<1>9. UnchangedSinceCheck'
  BY DEF ApplyStart, NoCall, UnchangedSinceCheck, IsCreate, CallBound, GuardPCs,
    SentUnderClaim, HistoryTypeOK, WorldTypeOK, history, world, TypeOK, RecordTypeOK,
    CallTypeOK, record
<1> QED BY <1>1, <1>2, <1>3, <1>4, <1>5, <1>6, <1>7, <1>8, <1>9

\* Taking the guard changes no record.
LEMMA AcquireGuardHist ==
  ASSUME IInv, HInv, SoleWorker, NEW p \in Calls, AcquireGuard(p)
  PROVE  HInv'
<1> USE DEF IInv, HInv, SoleWorker, WorkPCs
<1>1. ApprovalKept'
  BY DEF AcquireGuard, ApprovalKept, CallBound, GuardPCs, TypeOK, RecordTypeOK,
    CallTypeOK, record
<1>2. SentBeforeAnswer'
  BY DEF AcquireGuard, SentBeforeAnswer, CallBound, GuardPCs, HistoryTypeOK, history,
    TypeOK, RecordTypeOK, CallTypeOK, record
<1>3. HeldTracked'
  BY DEF AcquireGuard, HeldTracked, Target, IsCreate, SentUnderClaim, HistoryTypeOK,
    WorldTypeOK, history, world, TypeOK, RecordTypeOK, CallTypeOK, record
<1>4. VerifiedHeld'
  BY DEF AcquireGuard, VerifiedHeld, SentBeforeAnswer, HeldTracked, CallBound, GuardPCs,
    history, TypeOK, RecordTypeOK, CallTypeOK, record
<1>5. AppliedWasHeld'
  BY DEF AcquireGuard, AppliedWasHeld, VerifiedHeld, CallBound, GuardPCs, HistoryTypeOK,
    history, TypeOK, RecordTypeOK, CallTypeOK, record
<1>6. ReceiptSettles'
  BY DEF AcquireGuard, ReceiptSettles, CallBound, GuardPCs, ClaimedPCs, ClaimOwned,
    WorldTypeOK, Entries, Receipts, TypeOK, RecordTypeOK, CallTypeOK, record
<1>7. ClaimWorked'
  BY DEF AcquireGuard, ClaimWorked, ApprovalKept, CallBound, GuardPCs, ClaimedPCs,
    ClaimOwned, HistoryTypeOK, history, bounds, TypeOK, RecordTypeOK, CallTypeOK, record
<1>8. DriftSpent'
  BY DEF AcquireGuard, DriftSpent, ApprovalKept, CallBound, GuardPCs, ClaimedPCs,
    ClaimOwned, SentUnderClaim, HistoryTypeOK, history, bounds, TypeOK, RecordTypeOK,
    CallTypeOK, record
<1>9. UnchangedSinceCheck'
  BY DEF AcquireGuard, UnchangedSinceCheck, IsCreate, CallBound, GuardPCs,
    SentUnderClaim, HistoryTypeOK, WorldTypeOK, history, world, TypeOK, RecordTypeOK,
    CallTypeOK, record
<1> QED BY <1>1, <1>2, <1>3, <1>4, <1>5, <1>6, <1>7, <1>8, <1>9

\* The fetch finds the approval that ApprovalKept keeps.
LEMMA FetchHist ==
  ASSUME IInv, HInv, SoleWorker, NEW p \in Calls, Fetch(p)
  PROVE  HInv'
<1> USE DEF IInv, HInv, SoleWorker, WorkPCs
<1>1. ApprovalKept'
  BY DEF Fetch, Applicable, Goto, Return, NoCall, ApprovalKept, CallBound, GuardPCs,
    TypeOK, RecordTypeOK, CallTypeOK, record
<1>2. SentBeforeAnswer'
  BY DEF Fetch, Applicable, Goto, Return, NoCall, SentBeforeAnswer, CallBound, GuardPCs,
    HistoryTypeOK, history, TypeOK, RecordTypeOK, CallTypeOK, record
<1>3. HeldTracked'
  BY DEF Fetch, Applicable, Goto, Return, NoCall, HeldTracked, Target, IsCreate,
    SentUnderClaim, HistoryTypeOK, WorldTypeOK, history, world, TypeOK, RecordTypeOK,
    CallTypeOK, record
<1>4. VerifiedHeld'
  BY DEF Fetch, Applicable, Goto, Return, NoCall, VerifiedHeld, SentBeforeAnswer,
    HeldTracked, CallBound, GuardPCs, history, TypeOK, RecordTypeOK, CallTypeOK, record
<1>5. AppliedWasHeld'
  BY DEF Fetch, Applicable, Goto, Return, NoCall, AppliedWasHeld, VerifiedHeld,
    CallBound, GuardPCs, HistoryTypeOK, history, TypeOK, RecordTypeOK, CallTypeOK,
    record
<1>6. ReceiptSettles'
  BY DEF Fetch, Applicable, Goto, Return, NoCall, ReceiptSettles, CallBound, GuardPCs,
    ClaimedPCs, ClaimOwned, WorldTypeOK, Entries, Receipts, TypeOK, RecordTypeOK,
    CallTypeOK, record
<1>7. ClaimWorked'
  BY DEF Fetch, Applicable, Goto, Return, NoCall, ClaimWorked, ApprovalKept, CallBound,
    GuardPCs, ClaimedPCs, ClaimOwned, HistoryTypeOK, history, bounds, TypeOK,
    RecordTypeOK, CallTypeOK, record
<1>8. DriftSpent'
  BY DEF Fetch, Applicable, Goto, Return, NoCall, DriftSpent, ApprovalKept, CallBound,
    GuardPCs, ClaimedPCs, ClaimOwned, SentUnderClaim, HistoryTypeOK, history, bounds,
    TypeOK, RecordTypeOK, CallTypeOK, record
<1>9. UnchangedSinceCheck'
  BY DEF Fetch, Applicable, Goto, Return, NoCall, UnchangedSinceCheck, IsCreate,
    CallBound, GuardPCs, SentUnderClaim, HistoryTypeOK, WorldTypeOK, history, world,
    TypeOK, RecordTypeOK, CallTypeOK, record
<1> QED BY <1>1, <1>2, <1>3, <1>4, <1>5, <1>6, <1>7, <1>8, <1>9

\* The drift check sees the planned `before`, or marks the change set drifted.
LEMMA DriftReadHist ==
  ASSUME IInv, HInv, SoleWorker, NEW p \in Calls, DriftRead(p)
  PROVE  HInv'
<1> USE DEF IInv, HInv, SoleWorker, WorkPCs
<1>1. ApprovalKept'
  BY DEF DriftRead, Goto, Return, NoCall, ApprovalKept, CallBound, GuardPCs, TypeOK,
    RecordTypeOK, CallTypeOK, record
<1>2. SentBeforeAnswer'
  BY DEF DriftRead, Goto, Return, NoCall, SentBeforeAnswer, CallBound, GuardPCs,
    HistoryTypeOK, history, TypeOK, RecordTypeOK, CallTypeOK, record
<1>3. HeldTracked'
  BY DEF DriftRead, Goto, Return, NoCall, HeldTracked, Target, IsCreate, SentUnderClaim,
    HistoryTypeOK, WorldTypeOK, history, world, TypeOK, RecordTypeOK, CallTypeOK, record
<1>4. VerifiedHeld'
  BY DEF DriftRead, Goto, Return, NoCall, VerifiedHeld, SentBeforeAnswer, HeldTracked,
    CallBound, GuardPCs, history, TypeOK, RecordTypeOK, CallTypeOK, record
<1>5. AppliedWasHeld'
  BY DEF DriftRead, Goto, Return, NoCall, AppliedWasHeld, VerifiedHeld, CallBound,
    GuardPCs, HistoryTypeOK, history, TypeOK, RecordTypeOK, CallTypeOK, record
<1>6. ReceiptSettles'
  BY DEF DriftRead, Goto, Return, NoCall, ReceiptSettles, CallBound, GuardPCs,
    ClaimedPCs, ClaimOwned, WorldTypeOK, Entries, Receipts, TypeOK, RecordTypeOK,
    CallTypeOK, record
<1>7. ClaimWorked'
  BY DEF DriftRead, Goto, Return, NoCall, ClaimWorked, ApprovalKept, CallBound,
    GuardPCs, ClaimedPCs, ClaimOwned, HistoryTypeOK, history, bounds, TypeOK,
    RecordTypeOK, CallTypeOK, record
<1>8. DriftSpent'
  BY DEF DriftRead, Goto, Return, NoCall, DriftSpent, ApprovalKept, CallBound, GuardPCs,
    ClaimedPCs, ClaimOwned, SentUnderClaim, HistoryTypeOK, history, bounds, TypeOK,
    RecordTypeOK, CallTypeOK, record
<1>9. UnchangedSinceCheck'
  <2> SUFFICES ASSUME NEW q \in Calls,
                      pc'[q] \in {"intent", "claim", "write", "await"},
                      (pc[q] = "await" => wire[call[q].cs] # "applied")',
                      ~IsCreate(call[q].cs)', (call[q].cs \notin raced)'
               PROVE  (mist[plan[call[q].cs].device] = plan[call[q].cs].before)'
    BY DEF UnchangedSinceCheck
  <2>0. UNCHANGED <<mist, plan, wire>>
    BY DEF DriftRead, record, world
  <2>1. CASE q = p
    BY <2>0, <2>1 DEF DriftRead, Goto, Return, TypeOK, CallTypeOK
  <2>2. CASE q # p
    <3>1. pc'[q] = pc[q] /\ call'[q] = call[q]
      BY <2>2 DEF DriftRead, Goto, Return, TypeOK, CallTypeOK
    <3>2. call[q].cs # call[p].cs
      BY <2>2, <3>1 DEF DriftRead, CallBound, GuardPCs
    <3>3. call[q].cs \notin raced
      BY <3>1, <3>2 DEF DriftRead
    <3> QED BY <2>0, <3>1, <3>3 DEF UnchangedSinceCheck, IsCreate
  <2> QED BY <2>1, <2>2
<1> QED BY <1>1, <1>2, <1>3, <1>4, <1>5, <1>6, <1>7, <1>8, <1>9

\* The drift path claims the approval it saw, so only a fault refuses it.
LEMMA DriftClaimHist ==
  ASSUME IInv, HInv, SoleWorker, NEW p \in Calls, DriftClaim(p)
  PROVE  HInv'
<1> USE DEF IInv, HInv, SoleWorker, WorkPCs
<1>1. ApprovalKept'
  BY DEF DriftClaim, ClaimForApply, StoreRefuses, Goto, Return, NoCall, ApprovalKept,
    CallBound, GuardPCs, TypeOK, RecordTypeOK, CallTypeOK, record
<1>2. SentBeforeAnswer'
  BY DEF DriftClaim, ClaimForApply, StoreRefuses, Goto, Return, NoCall,
    SentBeforeAnswer, CallBound, GuardPCs, HistoryTypeOK, history, TypeOK, RecordTypeOK,
    CallTypeOK, record
<1>3. HeldTracked'
  BY DEF DriftClaim, ClaimForApply, StoreRefuses, Goto, Return, NoCall, HeldTracked,
    Target, IsCreate, SentUnderClaim, HistoryTypeOK, WorldTypeOK, history, world,
    TypeOK, RecordTypeOK, CallTypeOK, record
<1>4. VerifiedHeld'
  BY DEF DriftClaim, ClaimForApply, StoreRefuses, Goto, Return, NoCall, VerifiedHeld,
    SentBeforeAnswer, HeldTracked, CallBound, GuardPCs, history, TypeOK, RecordTypeOK,
    CallTypeOK, record
<1>5. AppliedWasHeld'
  BY DEF DriftClaim, ClaimForApply, StoreRefuses, Goto, Return, NoCall, AppliedWasHeld,
    VerifiedHeld, CallBound, GuardPCs, HistoryTypeOK, history, TypeOK, RecordTypeOK,
    CallTypeOK, record
<1>6. ReceiptSettles'
  BY DEF DriftClaim, ClaimForApply, StoreRefuses, Goto, Return, NoCall, ReceiptSettles,
    CallBound, GuardPCs, ClaimedPCs, ClaimOwned, WorldTypeOK, Entries, Receipts, TypeOK,
    RecordTypeOK, CallTypeOK, record
<1>7. ClaimWorked'
  BY DEF DriftClaim, ClaimForApply, StoreRefuses, Goto, Return, NoCall, ClaimWorked,
    ApprovalKept, CallBound, GuardPCs, ClaimedPCs, ClaimOwned, HistoryTypeOK, history,
    bounds, TypeOK, RecordTypeOK, CallTypeOK, record
<1>8. DriftSpent'
  <2> DEFINE c == call[p].cs
  <2>1. c \in ChangeSets /\ state[c] = "approved"
    BY DEF DriftClaim, CallBound, GuardPCs, ApprovalKept
  <2>2. CASE StoreRefuses(c, "approved")
    BY <2>1, <2>2 DEF StoreRefuses, DriftSpent
  <2>3. CASE ~StoreRefuses(c, "approved")
    <3>1. ClaimForApply(c, FALSE) /\ Goto(p, "drift_settle") /\ pc[p] = "drift_claim"
      BY <2>3 DEF DriftClaim
    <3>2. \A q \in Calls : pc[q] \in {"drift_claim", "drift_settle"} =>
            pc'[q] \in {"drift_claim", "drift_settle"} /\ call'[q] = call[q]
      BY <3>1 DEF Goto, TypeOK, CallTypeOK
    <3>3. \A b \in ChangeSets : state[b] = "failed" => state'[b] = "failed"
      BY <2>1, <3>1 DEF ClaimForApply, TypeOK, RecordTypeOK
    <3>4. UNCHANGED <<crashes, stateFault, sends, drifted>>
      BY <3>1 DEF DriftClaim, ClaimForApply, bounds
    <3> QED BY <3>2, <3>3, <3>4 DEF DriftSpent, TypeOK, HistoryTypeOK
  <2> QED BY <2>2, <2>3
<1>9. UnchangedSinceCheck'
  BY DEF DriftClaim, ClaimForApply, StoreRefuses, Goto, Return, NoCall,
    UnchangedSinceCheck, IsCreate, CallBound, GuardPCs, SentUnderClaim, HistoryTypeOK,
    WorldTypeOK, history, world, TypeOK, RecordTypeOK, CallTypeOK, record
<1> QED BY <1>1, <1>2, <1>3, <1>4, <1>5, <1>6, <1>7, <1>8, <1>9

\* The drift path fails a claim of its own.
LEMMA DriftSettleHist ==
  ASSUME IInv, HInv, SoleWorker, NEW p \in Calls, DriftSettle(p)
  PROVE  HInv'
<1> USE DEF IInv, HInv, SoleWorker, WorkPCs
<1>1. ApprovalKept'
  BY DEF DriftSettle, UpdateChangeSet, StoreRefuses, Return, NoCall, ApprovalKept,
    CallBound, GuardPCs, TypeOK, RecordTypeOK, CallTypeOK, record
<1>2. SentBeforeAnswer'
  BY DEF DriftSettle, UpdateChangeSet, StoreRefuses, Return, NoCall, SentBeforeAnswer,
    CallBound, GuardPCs, HistoryTypeOK, history, TypeOK, RecordTypeOK, CallTypeOK,
    record
<1>3. HeldTracked'
  BY DEF DriftSettle, UpdateChangeSet, StoreRefuses, Return, NoCall, HeldTracked,
    Target, IsCreate, SentUnderClaim, HistoryTypeOK, WorldTypeOK, history, world,
    TypeOK, RecordTypeOK, CallTypeOK, record
<1>4. VerifiedHeld'
  BY DEF DriftSettle, UpdateChangeSet, StoreRefuses, Return, NoCall, VerifiedHeld,
    SentBeforeAnswer, HeldTracked, CallBound, GuardPCs, history, TypeOK, RecordTypeOK,
    CallTypeOK, record
<1>5. AppliedWasHeld'
  BY DEF DriftSettle, UpdateChangeSet, StoreRefuses, Return, NoCall, AppliedWasHeld,
    VerifiedHeld, CallBound, GuardPCs, HistoryTypeOK, history, TypeOK, RecordTypeOK,
    CallTypeOK, record
<1>6. ReceiptSettles'
  BY DEF DriftSettle, UpdateChangeSet, StoreRefuses, Return, NoCall, ReceiptSettles,
    CallBound, GuardPCs, ClaimedPCs, ClaimOwned, WorldTypeOK, Entries, Receipts, TypeOK,
    RecordTypeOK, CallTypeOK, record
<1>7. ClaimWorked'
  <2> DEFINE c == call[p].cs
  <2>1. c \in ChangeSets /\ state[c] = "applying"
    BY DEF DriftSettle, CallBound, GuardPCs, ClaimOwned
  <2>2. CASE StoreRefuses(c, "applying")
    BY <2>1, <2>2 DEF StoreRefuses, ClaimWorked
  <2>3. CASE ~StoreRefuses(c, "applying")
    <3>1. state' = [state EXCEPT ![c] = "failed"] /\ UNCHANGED <<crashes, stateFault>>
      BY <2>3 DEF DriftSettle, UpdateChangeSet, bounds
    <3>2. \A q \in Calls : q # p => call'[q] = call[q] /\ pc'[q] = pc[q]
      BY DEF DriftSettle, Return, TypeOK, CallTypeOK
    <3> QED BY <2>1, <3>1, <3>2 DEF ClaimWorked, TypeOK, RecordTypeOK
  <2> QED BY <2>2, <2>3
<1>8. DriftSpent'
  <2> DEFINE c == call[p].cs
  <2>1. c \in ChangeSets /\ state[c] = "applying"
    BY DEF DriftSettle, CallBound, GuardPCs, ClaimOwned
  <2>2. CASE StoreRefuses(c, "applying")
    BY <2>1, <2>2 DEF StoreRefuses, DriftSpent
  <2>3. CASE ~StoreRefuses(c, "applying")
    <3>1. state' = [state EXCEPT ![c] = "failed"]
          /\ UNCHANGED <<crashes, stateFault, drifted, sends>>
      BY <2>3 DEF DriftSettle, UpdateChangeSet, bounds
    <3>2. \A q \in Calls : q # p => call'[q] = call[q] /\ pc'[q] = pc[q]
      BY DEF DriftSettle, Return, TypeOK, CallTypeOK
    <3> QED BY <2>1, <3>1, <3>2 DEF DriftSpent, TypeOK, RecordTypeOK, HistoryTypeOK
  <2> QED BY <2>2, <2>3
<1>9. UnchangedSinceCheck'
  BY DEF DriftSettle, UpdateChangeSet, StoreRefuses, Return, NoCall,
    UnchangedSinceCheck, IsCreate, CallBound, GuardPCs, SentUnderClaim, HistoryTypeOK,
    WorldTypeOK, history, world, TypeOK, RecordTypeOK, CallTypeOK, record
<1> QED BY <1>1, <1>2, <1>3, <1>4, <1>5, <1>6, <1>7, <1>8, <1>9

\* The intent is recorded while the approval is still there.
LEMMA IntentHist ==
  ASSUME IInv, HInv, SoleWorker, NEW p \in Calls, Intent(p)
  PROVE  HInv'
<1> USE DEF IInv, HInv, SoleWorker, WorkPCs
<1>1. ApprovalKept'
  BY DEF Intent, Goto, Return, Record, NoCall, ApprovalKept, CallBound, GuardPCs,
    TypeOK, RecordTypeOK, CallTypeOK, record
<1>2. SentBeforeAnswer'
  BY DEF Intent, Goto, Return, Record, NoCall, SentBeforeAnswer, CallBound, GuardPCs,
    HistoryTypeOK, history, TypeOK, RecordTypeOK, CallTypeOK, record
<1>3. HeldTracked'
  BY DEF Intent, Goto, Return, Record, NoCall, HeldTracked, Target, IsCreate,
    SentUnderClaim, HistoryTypeOK, WorldTypeOK, history, world, TypeOK, RecordTypeOK,
    CallTypeOK, record
<1>4. VerifiedHeld'
  BY DEF Intent, Goto, Return, Record, NoCall, VerifiedHeld, SentBeforeAnswer,
    HeldTracked, CallBound, GuardPCs, history, TypeOK, RecordTypeOK, CallTypeOK, record
<1>5. AppliedWasHeld'
  BY DEF Intent, Goto, Return, Record, NoCall, AppliedWasHeld, VerifiedHeld, CallBound,
    GuardPCs, HistoryTypeOK, history, TypeOK, RecordTypeOK, CallTypeOK, record
<1>6. ReceiptSettles'
  BY DEF Intent, Goto, Return, Record, NoCall, ReceiptSettles, CallBound, GuardPCs,
    ClaimedPCs, ClaimOwned, WorldTypeOK, Entries, Receipts, TypeOK, RecordTypeOK,
    CallTypeOK, record
<1>7. ClaimWorked'
  BY DEF Intent, Goto, Return, Record, NoCall, ClaimWorked, ApprovalKept, CallBound,
    GuardPCs, ClaimedPCs, ClaimOwned, HistoryTypeOK, history, bounds, TypeOK,
    RecordTypeOK, CallTypeOK, record
<1>8. DriftSpent'
  BY DEF Intent, Goto, Return, Record, NoCall, DriftSpent, ApprovalKept, CallBound,
    GuardPCs, ClaimedPCs, ClaimOwned, SentUnderClaim, HistoryTypeOK, history, bounds,
    TypeOK, RecordTypeOK, CallTypeOK, record
<1>9. UnchangedSinceCheck'
  BY DEF Intent, Goto, Return, Record, NoCall, UnchangedSinceCheck, IsCreate, CallBound,
    GuardPCs, SentUnderClaim, HistoryTypeOK, WorldTypeOK, history, world, TypeOK,
    RecordTypeOK, CallTypeOK, record
<1> QED BY <1>1, <1>2, <1>3, <1>4, <1>5, <1>6, <1>7, <1>8, <1>9

\* The claim takes the approval the call saw.
LEMMA ClaimHist ==
  ASSUME IInv, HInv, SoleWorker, NEW p \in Calls, Claim(p)
  PROVE  HInv'
<1> USE DEF IInv, HInv, SoleWorker, WorkPCs
<1>1. ApprovalKept'
  BY DEF Claim, ClaimForApply, StoreRefuses, Goto, Return, NoCall, ApprovalKept,
    CallBound, GuardPCs, TypeOK, RecordTypeOK, CallTypeOK, record
<1>2. SentBeforeAnswer'
  BY DEF Claim, ClaimForApply, StoreRefuses, Goto, Return, NoCall, SentBeforeAnswer,
    CallBound, GuardPCs, HistoryTypeOK, history, TypeOK, RecordTypeOK, CallTypeOK,
    record
<1>3. HeldTracked'
  BY DEF Claim, ClaimForApply, StoreRefuses, Goto, Return, NoCall, HeldTracked, Target,
    IsCreate, SentUnderClaim, HistoryTypeOK, WorldTypeOK, history, world, TypeOK,
    RecordTypeOK, CallTypeOK, record
<1>4. VerifiedHeld'
  BY DEF Claim, ClaimForApply, StoreRefuses, Goto, Return, NoCall, VerifiedHeld,
    SentBeforeAnswer, HeldTracked, CallBound, GuardPCs, history, TypeOK, RecordTypeOK,
    CallTypeOK, record
<1>5. AppliedWasHeld'
  BY DEF Claim, ClaimForApply, StoreRefuses, Goto, Return, NoCall, AppliedWasHeld,
    VerifiedHeld, CallBound, GuardPCs, HistoryTypeOK, history, TypeOK, RecordTypeOK,
    CallTypeOK, record
<1>6. ReceiptSettles'
  BY DEF Claim, ClaimForApply, StoreRefuses, Goto, Return, NoCall, ReceiptSettles,
    CallBound, GuardPCs, ClaimedPCs, ClaimOwned, WorldTypeOK, Entries, Receipts, TypeOK,
    RecordTypeOK, CallTypeOK, record
<1>7. ClaimWorked'
  BY DEF Claim, ClaimForApply, StoreRefuses, Goto, Return, NoCall, ClaimWorked,
    ApprovalKept, CallBound, GuardPCs, ClaimedPCs, ClaimOwned, HistoryTypeOK, history,
    bounds, TypeOK, RecordTypeOK, CallTypeOK, record
<1>8. DriftSpent'
  BY DEF Claim, ClaimForApply, StoreRefuses, Goto, Return, NoCall, DriftSpent,
    ApprovalKept, CallBound, GuardPCs, ClaimedPCs, ClaimOwned, SentUnderClaim,
    HistoryTypeOK, history, bounds, TypeOK, RecordTypeOK, CallTypeOK, record
<1>9. UnchangedSinceCheck'
  BY DEF Claim, ClaimForApply, StoreRefuses, Goto, Return, NoCall, UnchangedSinceCheck,
    IsCreate, CallBound, GuardPCs, SentUnderClaim, HistoryTypeOK, WorldTypeOK, history,
    world, TypeOK, RecordTypeOK, CallTypeOK, record
<1> QED BY <1>1, <1>2, <1>3, <1>4, <1>5, <1>6, <1>7, <1>8, <1>9

\* The write leaves under the claim of its call.
LEMMA SendWriteHist ==
  ASSUME IInv, HInv, SoleWorker, NEW p \in Calls, SendWrite(p)
  PROVE  HInv'
<1> USE DEF IInv, HInv, SoleWorker, WorkPCs
<1>1. ApprovalKept'
  BY DEF SendWrite, Goto, Holding, ApprovalKept, CallBound, GuardPCs, TypeOK,
    RecordTypeOK, CallTypeOK, record
<1>2. SentBeforeAnswer'
  BY DEF SendWrite, Goto, Holding, SentBeforeAnswer, CallBound, GuardPCs, HistoryTypeOK,
    history, TypeOK, RecordTypeOK, CallTypeOK, record
<1>3. HeldTracked'
  BY DEF SendWrite, Goto, Holding, HeldTracked, Target, IsCreate, SentUnderClaim,
    HistoryTypeOK, WorldTypeOK, history, world, TypeOK, RecordTypeOK, CallTypeOK, record
<1>4. VerifiedHeld'
  BY DEF SendWrite, Goto, Holding, VerifiedHeld, SentBeforeAnswer, HeldTracked,
    CallBound, GuardPCs, history, TypeOK, RecordTypeOK, CallTypeOK, record
<1>5. AppliedWasHeld'
  BY DEF SendWrite, Goto, Holding, AppliedWasHeld, VerifiedHeld, CallBound, GuardPCs,
    HistoryTypeOK, history, TypeOK, RecordTypeOK, CallTypeOK, record
<1>6. ReceiptSettles'
  BY DEF SendWrite, Goto, Holding, ReceiptSettles, CallBound, GuardPCs, ClaimedPCs,
    ClaimOwned, WorldTypeOK, Entries, Receipts, TypeOK, RecordTypeOK, CallTypeOK, record
<1>7. ClaimWorked'
  BY DEF SendWrite, Goto, Holding, ClaimWorked, ApprovalKept, CallBound, GuardPCs,
    ClaimedPCs, ClaimOwned, HistoryTypeOK, history, bounds, TypeOK, RecordTypeOK,
    CallTypeOK, record
<1>8. DriftSpent'
  BY DEF SendWrite, Goto, Holding, DriftSpent, ApprovalKept, CallBound, GuardPCs,
    ClaimedPCs, ClaimOwned, SentUnderClaim, HistoryTypeOK, history, bounds, TypeOK,
    RecordTypeOK, CallTypeOK, record
<1>9. UnchangedSinceCheck'
  BY DEF SendWrite, Goto, Holding, UnchangedSinceCheck, IsCreate, CallBound, GuardPCs,
    SentUnderClaim, HistoryTypeOK, WorldTypeOK, history, world, TypeOK, RecordTypeOK,
    CallTypeOK, record
<1> QED BY <1>1, <1>2, <1>3, <1>4, <1>5, <1>6, <1>7, <1>8, <1>9

\* An answer reaches the call that sent the write.
LEMMA WriteAnsweredHist ==
  ASSUME IInv, HInv, SoleWorker, NEW p \in Calls, WriteAnswered(p)
  PROVE  HInv'
<1> USE DEF IInv, HInv, SoleWorker, WorkPCs
<1>1. ApprovalKept'
  BY DEF WriteAnswered, Goto, ApprovalKept, CallBound, GuardPCs, TypeOK, RecordTypeOK,
    CallTypeOK, record
<1>2. SentBeforeAnswer'
  BY DEF WriteAnswered, Goto, SentBeforeAnswer, CallBound, GuardPCs, HistoryTypeOK,
    history, TypeOK, RecordTypeOK, CallTypeOK, record
<1>3. HeldTracked'
  BY DEF WriteAnswered, Goto, HeldTracked, Target, IsCreate, SentUnderClaim,
    HistoryTypeOK, WorldTypeOK, history, world, TypeOK, RecordTypeOK, CallTypeOK, record
<1>4. VerifiedHeld'
  BY DEF WriteAnswered, Goto, VerifiedHeld, SentBeforeAnswer, HeldTracked, CallBound,
    GuardPCs, history, TypeOK, RecordTypeOK, CallTypeOK, record
<1>5. AppliedWasHeld'
  BY DEF WriteAnswered, Goto, AppliedWasHeld, VerifiedHeld, CallBound, GuardPCs,
    HistoryTypeOK, history, TypeOK, RecordTypeOK, CallTypeOK, record
<1>6. ReceiptSettles'
  BY DEF WriteAnswered, Goto, ReceiptSettles, CallBound, GuardPCs, ClaimedPCs,
    ClaimOwned, WorldTypeOK, Entries, Receipts, TypeOK, RecordTypeOK, CallTypeOK, record
<1>7. ClaimWorked'
  BY DEF WriteAnswered, Goto, ClaimWorked, ApprovalKept, CallBound, GuardPCs,
    ClaimedPCs, ClaimOwned, HistoryTypeOK, history, bounds, TypeOK, RecordTypeOK,
    CallTypeOK, record
<1>8. DriftSpent'
  BY DEF WriteAnswered, Goto, DriftSpent, ApprovalKept, CallBound, GuardPCs, ClaimedPCs,
    ClaimOwned, SentUnderClaim, HistoryTypeOK, history, bounds, TypeOK, RecordTypeOK,
    CallTypeOK, record
<1>9. UnchangedSinceCheck'
  BY DEF WriteAnswered, Goto, UnchangedSinceCheck, IsCreate, CallBound, GuardPCs,
    SentUnderClaim, HistoryTypeOK, WorldTypeOK, history, world, TypeOK, RecordTypeOK,
    CallTypeOK, record
<1> QED BY <1>1, <1>2, <1>3, <1>4, <1>5, <1>6, <1>7, <1>8, <1>9

\* A timeout changes nothing but the call.
LEMMA WriteTimeoutHist ==
  ASSUME IInv, HInv, SoleWorker, NEW p \in Calls, WriteTimeout(p)
  PROVE  HInv'
<1> USE DEF IInv, HInv, SoleWorker, WorkPCs
<1>1. ApprovalKept'
  BY DEF WriteTimeout, Goto, ApprovalKept, CallBound, GuardPCs, TypeOK, RecordTypeOK,
    CallTypeOK, record
<1>2. SentBeforeAnswer'
  BY DEF WriteTimeout, Goto, SentBeforeAnswer, CallBound, GuardPCs, HistoryTypeOK,
    history, TypeOK, RecordTypeOK, CallTypeOK, record
<1>3. HeldTracked'
  BY DEF WriteTimeout, Goto, HeldTracked, Target, IsCreate, SentUnderClaim,
    HistoryTypeOK, WorldTypeOK, history, world, TypeOK, RecordTypeOK, CallTypeOK, record
<1>4. VerifiedHeld'
  BY DEF WriteTimeout, Goto, VerifiedHeld, SentBeforeAnswer, HeldTracked, CallBound,
    GuardPCs, history, TypeOK, RecordTypeOK, CallTypeOK, record
<1>5. AppliedWasHeld'
  BY DEF WriteTimeout, Goto, AppliedWasHeld, VerifiedHeld, CallBound, GuardPCs,
    HistoryTypeOK, history, TypeOK, RecordTypeOK, CallTypeOK, record
<1>6. ReceiptSettles'
  BY DEF WriteTimeout, Goto, ReceiptSettles, CallBound, GuardPCs, ClaimedPCs,
    ClaimOwned, WorldTypeOK, Entries, Receipts, TypeOK, RecordTypeOK, CallTypeOK, record
<1>7. ClaimWorked'
  BY DEF WriteTimeout, Goto, ClaimWorked, ApprovalKept, CallBound, GuardPCs, ClaimedPCs,
    ClaimOwned, HistoryTypeOK, history, bounds, TypeOK, RecordTypeOK, CallTypeOK, record
<1>8. DriftSpent'
  BY DEF WriteTimeout, Goto, DriftSpent, ApprovalKept, CallBound, GuardPCs, ClaimedPCs,
    ClaimOwned, SentUnderClaim, HistoryTypeOK, history, bounds, TypeOK, RecordTypeOK,
    CallTypeOK, record
<1>9. UnchangedSinceCheck'
  BY DEF WriteTimeout, Goto, UnchangedSinceCheck, IsCreate, CallBound, GuardPCs,
    SentUnderClaim, HistoryTypeOK, WorldTypeOK, history, world, TypeOK, RecordTypeOK,
    CallTypeOK, record
<1> QED BY <1>1, <1>2, <1>3, <1>4, <1>5, <1>6, <1>7, <1>8, <1>9

\* Verified is what the re-read saw, after the write left.
LEMMA VerifyHist ==
  ASSUME IInv, HInv, SoleWorker, NEW p \in Calls, Verify(p)
  PROVE  HInv'
<1> USE DEF IInv, HInv, SoleWorker, WorkPCs
<1>1. ApprovalKept'
  BY DEF Verify, ApprovalKept, CallBound, GuardPCs, TypeOK, RecordTypeOK, CallTypeOK,
    record
<1>2. SentBeforeAnswer'
  BY DEF Verify, SentBeforeAnswer, CallBound, GuardPCs, HistoryTypeOK, history, TypeOK,
    RecordTypeOK, CallTypeOK, record
<1>3. HeldTracked'
  BY DEF Verify, HeldTracked, Target, IsCreate, SentUnderClaim, HistoryTypeOK,
    WorldTypeOK, history, world, TypeOK, RecordTypeOK, CallTypeOK, record
<1>4. VerifiedHeld'
  <2> DEFINE c == call[p].cs
  <2>1. PICK readOk \in BOOLEAN :
          call' = [call EXCEPT ![p].verified = readOk /\ mist[Target(c)] = plan[c].after]
    BY DEF Verify
  <2>2. c \in ChangeSets /\ sends[c] > 0
    BY DEF Verify, CallBound, GuardPCs, SentBeforeAnswer
  <2>3. call'[p].verified => mist[Target(c)] = plan[c].after
    BY <2>1, Zenon DEF TypeOK, CallTypeOK, Call
  <2>4. call'[p].cs = c /\ pc'[p] = "receipt"
    BY <2>1 DEF Verify, TypeOK, CallTypeOK, Call
  <2>5. \A q \in Calls : q # p => call'[q] = call[q] /\ pc'[q] = pc[q]
    BY <2>1 DEF Verify, TypeOK, CallTypeOK
  <2> QED BY <2>2, <2>3, <2>4, <2>5 DEF Verify, VerifiedHeld, HeldTracked, history
<1>5. AppliedWasHeld'
  BY DEF Verify, AppliedWasHeld, VerifiedHeld, CallBound, GuardPCs, HistoryTypeOK,
    history, TypeOK, RecordTypeOK, CallTypeOK, record
<1>6. ReceiptSettles'
  BY DEF Verify, ReceiptSettles, CallBound, GuardPCs, ClaimedPCs, ClaimOwned,
    WorldTypeOK, Entries, Receipts, TypeOK, RecordTypeOK, CallTypeOK, record
<1>7. ClaimWorked'
  BY DEF Verify, ClaimWorked, ApprovalKept, CallBound, GuardPCs, ClaimedPCs, ClaimOwned,
    HistoryTypeOK, history, bounds, TypeOK, RecordTypeOK, CallTypeOK, record
<1>8. DriftSpent'
  BY DEF Verify, DriftSpent, ApprovalKept, CallBound, GuardPCs, ClaimedPCs, ClaimOwned,
    SentUnderClaim, HistoryTypeOK, history, bounds, TypeOK, RecordTypeOK, CallTypeOK,
    record
<1>9. UnchangedSinceCheck'
  BY DEF Verify, UnchangedSinceCheck, IsCreate, CallBound, GuardPCs, SentUnderClaim,
    HistoryTypeOK, WorldTypeOK, history, world, TypeOK, RecordTypeOK, CallTypeOK, record
<1> QED BY <1>1, <1>2, <1>3, <1>4, <1>5, <1>6, <1>7, <1>8, <1>9

\* A success receipt is issued by the owner of the claim, once verified.
LEMMA ReceiptHist ==
  ASSUME IInv, HInv, SoleWorker, NEW p \in Calls, Receipt(p)
  PROVE  HInv'
<1> USE DEF IInv, HInv, SoleWorker, WorkPCs
<1>1. ApprovalKept'
  BY DEF Receipt, EmitReceipt, Record, Goto, ApprovalKept, CallBound, GuardPCs, TypeOK,
    RecordTypeOK, CallTypeOK, record
<1>2. SentBeforeAnswer'
  BY DEF Receipt, EmitReceipt, Record, Goto, SentBeforeAnswer, CallBound, GuardPCs,
    HistoryTypeOK, history, TypeOK, RecordTypeOK, CallTypeOK, record
<1>3. HeldTracked'
  BY DEF Receipt, EmitReceipt, Record, Goto, HeldTracked, Target, IsCreate,
    SentUnderClaim, HistoryTypeOK, WorldTypeOK, history, world, TypeOK, RecordTypeOK,
    CallTypeOK, record
<1>4. VerifiedHeld'
  BY DEF Receipt, EmitReceipt, Record, Goto, VerifiedHeld, SentBeforeAnswer,
    HeldTracked, CallBound, GuardPCs, history, TypeOK, RecordTypeOK, CallTypeOK, record
<1>5. AppliedWasHeld'
  BY DEF Receipt, EmitReceipt, Record, Goto, AppliedWasHeld, VerifiedHeld, CallBound,
    GuardPCs, HistoryTypeOK, history, TypeOK, RecordTypeOK, CallTypeOK, record
<1>6. ReceiptSettles'
  BY DEF Receipt, EmitReceipt, Record, Goto, ReceiptSettles, CallBound, GuardPCs,
    ClaimedPCs, ClaimOwned, WorldTypeOK, Entries, Receipts, TypeOK, RecordTypeOK,
    CallTypeOK, record
<1>7. ClaimWorked'
  BY DEF Receipt, EmitReceipt, Record, Goto, ClaimWorked, ApprovalKept, CallBound,
    GuardPCs, ClaimedPCs, ClaimOwned, HistoryTypeOK, history, bounds, TypeOK,
    RecordTypeOK, CallTypeOK, record
<1>8. DriftSpent'
  BY DEF Receipt, EmitReceipt, Record, Goto, DriftSpent, ApprovalKept, CallBound,
    GuardPCs, ClaimedPCs, ClaimOwned, SentUnderClaim, HistoryTypeOK, history, bounds,
    TypeOK, RecordTypeOK, CallTypeOK, record
<1>9. UnchangedSinceCheck'
  BY DEF Receipt, EmitReceipt, Record, Goto, UnchangedSinceCheck, IsCreate, CallBound,
    GuardPCs, SentUnderClaim, HistoryTypeOK, WorldTypeOK, history, world, TypeOK,
    RecordTypeOK, CallTypeOK, record
<1> QED BY <1>1, <1>2, <1>3, <1>4, <1>5, <1>6, <1>7, <1>8, <1>9

\* A failure receipt says nothing of success.
LEMMA FailureReceiptHist ==
  ASSUME IInv, HInv, SoleWorker, NEW p \in Calls, FailureReceipt(p)
  PROVE  HInv'
<1> USE DEF IInv, HInv, SoleWorker, WorkPCs
<1>1. ApprovalKept'
  BY DEF FailureReceipt, EmitReceipt, Record, Goto, ApprovalKept, CallBound, GuardPCs,
    TypeOK, RecordTypeOK, CallTypeOK, record
<1>2. SentBeforeAnswer'
  BY DEF FailureReceipt, EmitReceipt, Record, Goto, SentBeforeAnswer, CallBound,
    GuardPCs, HistoryTypeOK, history, TypeOK, RecordTypeOK, CallTypeOK, record
<1>3. HeldTracked'
  BY DEF FailureReceipt, EmitReceipt, Record, Goto, HeldTracked, Target, IsCreate,
    SentUnderClaim, HistoryTypeOK, WorldTypeOK, history, world, TypeOK, RecordTypeOK,
    CallTypeOK, record
<1>4. VerifiedHeld'
  BY DEF FailureReceipt, EmitReceipt, Record, Goto, VerifiedHeld, SentBeforeAnswer,
    HeldTracked, CallBound, GuardPCs, history, TypeOK, RecordTypeOK, CallTypeOK, record
<1>5. AppliedWasHeld'
  BY DEF FailureReceipt, EmitReceipt, Record, Goto, AppliedWasHeld, VerifiedHeld,
    CallBound, GuardPCs, HistoryTypeOK, history, TypeOK, RecordTypeOK, CallTypeOK,
    record
<1>6. ReceiptSettles'
  BY DEF FailureReceipt, EmitReceipt, Record, Goto, ReceiptSettles, CallBound, GuardPCs,
    ClaimedPCs, ClaimOwned, WorldTypeOK, Entries, Receipts, TypeOK, RecordTypeOK,
    CallTypeOK, record
<1>7. ClaimWorked'
  BY DEF FailureReceipt, EmitReceipt, Record, Goto, ClaimWorked, ApprovalKept,
    CallBound, GuardPCs, ClaimedPCs, ClaimOwned, HistoryTypeOK, history, bounds, TypeOK,
    RecordTypeOK, CallTypeOK, record
<1>8. DriftSpent'
  BY DEF FailureReceipt, EmitReceipt, Record, Goto, DriftSpent, ApprovalKept, CallBound,
    GuardPCs, ClaimedPCs, ClaimOwned, SentUnderClaim, HistoryTypeOK, history, bounds,
    TypeOK, RecordTypeOK, CallTypeOK, record
<1>9. UnchangedSinceCheck'
  BY DEF FailureReceipt, EmitReceipt, Record, Goto, UnchangedSinceCheck, IsCreate,
    CallBound, GuardPCs, SentUnderClaim, HistoryTypeOK, WorldTypeOK, history, world,
    TypeOK, RecordTypeOK, CallTypeOK, record
<1> QED BY <1>1, <1>2, <1>3, <1>4, <1>5, <1>6, <1>7, <1>8, <1>9

\* The owner settles its claim; only a fault leaves it Applying.
LEMMA SettleHist ==
  ASSUME IInv, HInv, SoleWorker, NEW p \in Calls, Settle(p)
  PROVE  HInv'
<1> USE DEF IInv, HInv, SoleWorker, WorkPCs
<1>1. ApprovalKept'
  BY DEF Settle, UpdateChangeSet, StoreRefuses, Return, NoCall, ApprovalKept, CallBound,
    GuardPCs, TypeOK, RecordTypeOK, CallTypeOK, record
<1>2. SentBeforeAnswer'
  BY DEF Settle, UpdateChangeSet, StoreRefuses, Return, NoCall, SentBeforeAnswer,
    CallBound, GuardPCs, HistoryTypeOK, history, TypeOK, RecordTypeOK, CallTypeOK,
    record
<1>3. HeldTracked'
  BY DEF Settle, UpdateChangeSet, StoreRefuses, Return, NoCall, HeldTracked, Target,
    IsCreate, SentUnderClaim, HistoryTypeOK, WorldTypeOK, history, world, TypeOK,
    RecordTypeOK, CallTypeOK, record
<1>4. VerifiedHeld'
  BY DEF Settle, UpdateChangeSet, StoreRefuses, Return, NoCall, VerifiedHeld,
    SentBeforeAnswer, HeldTracked, CallBound, GuardPCs, history, TypeOK, RecordTypeOK,
    CallTypeOK, record
<1>5. AppliedWasHeld'
  BY DEF Settle, UpdateChangeSet, StoreRefuses, Return, NoCall, AppliedWasHeld,
    VerifiedHeld, CallBound, GuardPCs, HistoryTypeOK, history, TypeOK, RecordTypeOK,
    CallTypeOK, record
<1>6. ReceiptSettles'
  BY DEF Settle, UpdateChangeSet, StoreRefuses, Return, NoCall, ReceiptSettles,
    CallBound, GuardPCs, ClaimedPCs, ClaimOwned, WorldTypeOK, Entries, Receipts, TypeOK,
    RecordTypeOK, CallTypeOK, record
<1>7. ClaimWorked'
  BY DEF Settle, UpdateChangeSet, StoreRefuses, Return, NoCall, ClaimWorked,
    ApprovalKept, CallBound, GuardPCs, ClaimedPCs, ClaimOwned, HistoryTypeOK, history,
    bounds, TypeOK, RecordTypeOK, CallTypeOK, record
<1>8. DriftSpent'
  BY DEF Settle, UpdateChangeSet, StoreRefuses, Return, NoCall, DriftSpent,
    ApprovalKept, CallBound, GuardPCs, ClaimedPCs, ClaimOwned, SentUnderClaim,
    HistoryTypeOK, history, bounds, TypeOK, RecordTypeOK, CallTypeOK, record
<1>9. UnchangedSinceCheck'
  BY DEF Settle, UpdateChangeSet, StoreRefuses, Return, NoCall, UnchangedSinceCheck,
    IsCreate, CallBound, GuardPCs, SentUnderClaim, HistoryTypeOK, WorldTypeOK, history,
    world, TypeOK, RecordTypeOK, CallTypeOK, record
<1> QED BY <1>1, <1>2, <1>3, <1>4, <1>5, <1>6, <1>7, <1>8, <1>9

\* Mist changes the object of a call that waits, or marks the others raced.
LEMMA MistApplyHist ==
  ASSUME IInv, HInv, SoleWorker, NEW c \in ChangeSets, MistApply(c)
  PROVE  HInv'
<1> USE DEF IInv, HInv, SoleWorker, WorkPCs
<1>1. ApprovalKept'
  BY DEF MistApply, Holding, PastDriftCheck, Awaited, calls, ApprovalKept, CallBound,
    GuardPCs, TypeOK, RecordTypeOK, CallTypeOK, record
<1>2. SentBeforeAnswer'
  BY DEF MistApply, Holding, PastDriftCheck, Awaited, calls, SentBeforeAnswer,
    CallBound, GuardPCs, HistoryTypeOK, history, TypeOK, RecordTypeOK, CallTypeOK,
    record
<1>3. HeldTracked'
  BY DEF MistApply, Holding, PastDriftCheck, Awaited, calls, HeldTracked, Target,
    IsCreate, SentUnderClaim, HistoryTypeOK, WorldTypeOK, history, world, TypeOK,
    RecordTypeOK, CallTypeOK, record
<1>4. VerifiedHeld'
  BY DEF MistApply, Holding, PastDriftCheck, Awaited, calls, VerifiedHeld,
    SentBeforeAnswer, HeldTracked, CallBound, GuardPCs, history, TypeOK, RecordTypeOK,
    CallTypeOK, record
<1>5. AppliedWasHeld'
  BY DEF MistApply, Holding, PastDriftCheck, Awaited, calls, AppliedWasHeld,
    VerifiedHeld, CallBound, GuardPCs, HistoryTypeOK, history, TypeOK, RecordTypeOK,
    CallTypeOK, record
<1>6. ReceiptSettles'
  BY DEF MistApply, Holding, PastDriftCheck, Awaited, calls, ReceiptSettles, CallBound,
    GuardPCs, ClaimedPCs, ClaimOwned, WorldTypeOK, Entries, Receipts, TypeOK,
    RecordTypeOK, CallTypeOK, record
<1>7. ClaimWorked'
  BY DEF MistApply, Holding, PastDriftCheck, Awaited, calls, ClaimWorked, ApprovalKept,
    CallBound, GuardPCs, ClaimedPCs, ClaimOwned, HistoryTypeOK, history, bounds, TypeOK,
    RecordTypeOK, CallTypeOK, record
<1>8. DriftSpent'
  BY DEF MistApply, Holding, PastDriftCheck, Awaited, calls, DriftSpent, ApprovalKept,
    CallBound, GuardPCs, ClaimedPCs, ClaimOwned, SentUnderClaim, HistoryTypeOK, history,
    bounds, TypeOK, RecordTypeOK, CallTypeOK, record
<1>9. UnchangedSinceCheck'
  <2> SUFFICES ASSUME NEW p \in Calls,
                      pc[p] \in {"intent", "claim", "write", "await"},
                      pc[p] = "await" => wire'[call[p].cs] # "applied",
                      ~IsCreate(call[p].cs), call[p].cs \notin raced'
               PROVE  mist'[plan[call[p].cs].device] = plan[call[p].cs].before
    BY DEF MistApply, record, calls, UnchangedSinceCheck, IsCreate
  <2> DEFINE b == call[p].cs
             d == plan[b].device
  <2>1. b \in ChangeSets /\ plan[b] \in Plan /\ d \in Devices /\ d = call[p].device
    BY DEF CallBound, GuardPCs, Planned, Plan
  <2>2. b # c
    <3>1. sends[c] > 0 /\ state[c] \in {"applying", "applied", "failed"} /\ wire'[c] = "applied"
      BY DEF MistApply, SentUnderClaim, TypeOK, WorldTypeOK
    <3> QED BY <3>1 DEF ApprovalKept, ClaimOwned
  <2>3. b \notin raced /\ wire'[b] = wire[b]
    BY <2>1, <2>2 DEF MistApply, TypeOK, WorldTypeOK
  <2>4. mist[d] = plan[b].before
    BY <2>3 DEF UnchangedSinceCheck
  <2>5. Target(c) # d
    <3> SUFFICES ASSUME Target(c) = d PROVE FALSE
      OBVIOUS
    <3>1. ~IsCreate(c) /\ plan[c].device = d
      BY <2>1, DistinctAssumption DEF Target
    <3>2. CASE Awaited(c)
      <4>1. PICK q \in Calls : pc[q] = "await" /\ call[q].cs = c
        BY <3>2 DEF Awaited
      <4>2. call[q].device = d
        BY <4>1, <3>1 DEF CallBound, GuardPCs
      <4> QED BY <2>1, <2>2, <4>1, <4>2 DEF GuardPCs
    <3>3. CASE ~Awaited(c)
      <4>1. b \in PastDriftCheck(d)
        BY <2>1 DEF PastDriftCheck
      <4> QED BY <2>2, <3>3, <4>1 DEF MistApply
    <3> QED BY <3>2, <3>3
  <2> QED BY <2>1, <2>4, <2>5 DEF MistApply, TypeOK, WorldTypeOK, Objects
<1> QED BY <1>1, <1>2, <1>3, <1>4, <1>5, <1>6, <1>7, <1>8, <1>9

\* A rejected write changes no object.
LEMMA MistRejectHist ==
  ASSUME IInv, HInv, SoleWorker, NEW c \in ChangeSets, MistReject(c)
  PROVE  HInv'
<1> USE DEF IInv, HInv, SoleWorker, WorkPCs
<1>1. ApprovalKept'
  BY DEF MistReject, calls, ApprovalKept, CallBound, GuardPCs, TypeOK, RecordTypeOK,
    CallTypeOK, record
<1>2. SentBeforeAnswer'
  BY DEF MistReject, calls, SentBeforeAnswer, CallBound, GuardPCs, HistoryTypeOK,
    history, TypeOK, RecordTypeOK, CallTypeOK, record
<1>3. HeldTracked'
  BY DEF MistReject, calls, HeldTracked, Target, IsCreate, SentUnderClaim,
    HistoryTypeOK, WorldTypeOK, history, world, TypeOK, RecordTypeOK, CallTypeOK, record
<1>4. VerifiedHeld'
  BY DEF MistReject, calls, VerifiedHeld, SentBeforeAnswer, HeldTracked, CallBound,
    GuardPCs, history, TypeOK, RecordTypeOK, CallTypeOK, record
<1>5. AppliedWasHeld'
  BY DEF MistReject, calls, AppliedWasHeld, VerifiedHeld, CallBound, GuardPCs,
    HistoryTypeOK, history, TypeOK, RecordTypeOK, CallTypeOK, record
<1>6. ReceiptSettles'
  BY DEF MistReject, calls, ReceiptSettles, CallBound, GuardPCs, ClaimedPCs, ClaimOwned,
    WorldTypeOK, Entries, Receipts, TypeOK, RecordTypeOK, CallTypeOK, record
<1>7. ClaimWorked'
  BY DEF MistReject, calls, ClaimWorked, ApprovalKept, CallBound, GuardPCs, ClaimedPCs,
    ClaimOwned, HistoryTypeOK, history, bounds, TypeOK, RecordTypeOK, CallTypeOK, record
<1>8. DriftSpent'
  BY DEF MistReject, calls, DriftSpent, ApprovalKept, CallBound, GuardPCs, ClaimedPCs,
    ClaimOwned, SentUnderClaim, HistoryTypeOK, history, bounds, TypeOK, RecordTypeOK,
    CallTypeOK, record
<1>9. UnchangedSinceCheck'
  BY DEF MistReject, calls, UnchangedSinceCheck, IsCreate, CallBound, GuardPCs,
    SentUnderClaim, HistoryTypeOK, WorldTypeOK, history, world, TypeOK, RecordTypeOK,
    CallTypeOK, record
<1> QED BY <1>1, <1>2, <1>3, <1>4, <1>5, <1>6, <1>7, <1>8, <1>9

\* An edit behind a drift check is marked.
LEMMA ExternalEditHist ==
  ASSUME IInv, HInv, SoleWorker, NEW o \in Objects, ExternalEdit(o)
  PROVE  HInv'
<1> USE DEF IInv, HInv, SoleWorker, WorkPCs
<1>1. ApprovalKept'
  BY DEF ExternalEdit, Holding, PastDriftCheck, calls, ApprovalKept, CallBound,
    GuardPCs, TypeOK, RecordTypeOK, CallTypeOK, record
<1>2. SentBeforeAnswer'
  BY DEF ExternalEdit, Holding, PastDriftCheck, calls, SentBeforeAnswer, CallBound,
    GuardPCs, HistoryTypeOK, history, TypeOK, RecordTypeOK, CallTypeOK, record
<1>3. HeldTracked'
  BY DEF ExternalEdit, Holding, PastDriftCheck, calls, HeldTracked, Target, IsCreate,
    SentUnderClaim, HistoryTypeOK, WorldTypeOK, history, world, TypeOK, RecordTypeOK,
    CallTypeOK, record
<1>4. VerifiedHeld'
  BY DEF ExternalEdit, Holding, PastDriftCheck, calls, VerifiedHeld, SentBeforeAnswer,
    HeldTracked, CallBound, GuardPCs, history, TypeOK, RecordTypeOK, CallTypeOK, record
<1>5. AppliedWasHeld'
  BY DEF ExternalEdit, Holding, PastDriftCheck, calls, AppliedWasHeld, VerifiedHeld,
    CallBound, GuardPCs, HistoryTypeOK, history, TypeOK, RecordTypeOK, CallTypeOK,
    record
<1>6. ReceiptSettles'
  BY DEF ExternalEdit, Holding, PastDriftCheck, calls, ReceiptSettles, CallBound,
    GuardPCs, ClaimedPCs, ClaimOwned, WorldTypeOK, Entries, Receipts, TypeOK,
    RecordTypeOK, CallTypeOK, record
<1>7. ClaimWorked'
  BY DEF ExternalEdit, Holding, PastDriftCheck, calls, ClaimWorked, ApprovalKept,
    CallBound, GuardPCs, ClaimedPCs, ClaimOwned, HistoryTypeOK, history, bounds, TypeOK,
    RecordTypeOK, CallTypeOK, record
<1>8. DriftSpent'
  BY DEF ExternalEdit, Holding, PastDriftCheck, calls, DriftSpent, ApprovalKept,
    CallBound, GuardPCs, ClaimedPCs, ClaimOwned, SentUnderClaim, HistoryTypeOK, history,
    bounds, TypeOK, RecordTypeOK, CallTypeOK, record
<1>9. UnchangedSinceCheck'
  BY DEF ExternalEdit, Holding, PastDriftCheck, calls, UnchangedSinceCheck, IsCreate,
    CallBound, GuardPCs, SentUnderClaim, HistoryTypeOK, WorldTypeOK, history, world,
    TypeOK, RecordTypeOK, CallTypeOK, record
<1> QED BY <1>1, <1>2, <1>3, <1>4, <1>5, <1>6, <1>7, <1>8, <1>9

\* Time changes no record.
LEMMA TickHist ==
  ASSUME IInv, HInv, SoleWorker, Tick
  PROVE  HInv'
<1> USE DEF IInv, HInv, SoleWorker, WorkPCs
<1>1. ApprovalKept'
  BY DEF Tick, calls, ApprovalKept, CallBound, GuardPCs, TypeOK, RecordTypeOK,
    CallTypeOK, record
<1>2. SentBeforeAnswer'
  BY DEF Tick, calls, SentBeforeAnswer, CallBound, GuardPCs, HistoryTypeOK, history,
    TypeOK, RecordTypeOK, CallTypeOK, record
<1>3. HeldTracked'
  BY DEF Tick, calls, HeldTracked, Target, IsCreate, SentUnderClaim, HistoryTypeOK,
    WorldTypeOK, history, world, TypeOK, RecordTypeOK, CallTypeOK, record
<1>4. VerifiedHeld'
  BY DEF Tick, calls, VerifiedHeld, SentBeforeAnswer, HeldTracked, CallBound, GuardPCs,
    history, TypeOK, RecordTypeOK, CallTypeOK, record
<1>5. AppliedWasHeld'
  BY DEF Tick, calls, AppliedWasHeld, VerifiedHeld, CallBound, GuardPCs, HistoryTypeOK,
    history, TypeOK, RecordTypeOK, CallTypeOK, record
<1>6. ReceiptSettles'
  BY DEF Tick, calls, ReceiptSettles, CallBound, GuardPCs, ClaimedPCs, ClaimOwned,
    WorldTypeOK, Entries, Receipts, TypeOK, RecordTypeOK, CallTypeOK, record
<1>7. ClaimWorked'
  BY DEF Tick, calls, ClaimWorked, ApprovalKept, CallBound, GuardPCs, ClaimedPCs,
    ClaimOwned, HistoryTypeOK, history, bounds, TypeOK, RecordTypeOK, CallTypeOK, record
<1>8. DriftSpent'
  BY DEF Tick, calls, DriftSpent, ApprovalKept, CallBound, GuardPCs, ClaimedPCs,
    ClaimOwned, SentUnderClaim, HistoryTypeOK, history, bounds, TypeOK, RecordTypeOK,
    CallTypeOK, record
<1>9. UnchangedSinceCheck'
  BY DEF Tick, calls, UnchangedSinceCheck, IsCreate, CallBound, GuardPCs,
    SentUnderClaim, HistoryTypeOK, WorldTypeOK, history, world, TypeOK, RecordTypeOK,
    CallTypeOK, record
<1> QED BY <1>1, <1>2, <1>3, <1>4, <1>5, <1>6, <1>7, <1>8, <1>9

\* A crash drops the calls; recovery fails unmarked claims only.
LEMMA CrashRestartHist ==
  ASSUME IInv, HInv, SoleWorker, CrashRestart
  PROVE  HInv'
<1> USE DEF IInv, HInv, SoleWorker, WorkPCs
<1>1. ApprovalKept'
  BY DEF CrashRestart, Recovered, NoCall, ApprovalKept, CallBound, GuardPCs, TypeOK,
    RecordTypeOK, CallTypeOK, record
<1>2. SentBeforeAnswer'
  BY DEF CrashRestart, Recovered, NoCall, SentBeforeAnswer, CallBound, GuardPCs,
    HistoryTypeOK, history, TypeOK, RecordTypeOK, CallTypeOK, record
<1>3. HeldTracked'
  BY DEF CrashRestart, Recovered, NoCall, HeldTracked, Target, IsCreate, SentUnderClaim,
    HistoryTypeOK, WorldTypeOK, history, world, TypeOK, RecordTypeOK, CallTypeOK, record
<1>4. VerifiedHeld'
  BY DEF CrashRestart, Recovered, NoCall, VerifiedHeld, SentBeforeAnswer, HeldTracked,
    CallBound, GuardPCs, history, TypeOK, RecordTypeOK, CallTypeOK, record
<1>5. AppliedWasHeld'
  BY DEF CrashRestart, Recovered, NoCall, AppliedWasHeld, VerifiedHeld, CallBound,
    GuardPCs, HistoryTypeOK, history, TypeOK, RecordTypeOK, CallTypeOK, record
<1>6. ReceiptSettles'
  BY DEF CrashRestart, Recovered, NoCall, ReceiptSettles, CallBound, GuardPCs,
    ClaimedPCs, ClaimOwned, WorldTypeOK, Entries, Receipts, TypeOK, RecordTypeOK,
    CallTypeOK, record
<1>7. ClaimWorked'
  BY DEF CrashRestart, Recovered, NoCall, ClaimWorked, ApprovalKept, CallBound,
    GuardPCs, ClaimedPCs, ClaimOwned, HistoryTypeOK, history, bounds, TypeOK,
    RecordTypeOK, CallTypeOK, record
<1>8. DriftSpent'
  BY DEF CrashRestart, Recovered, NoCall, DriftSpent, ApprovalKept, CallBound, GuardPCs,
    ClaimedPCs, ClaimOwned, SentUnderClaim, HistoryTypeOK, history, bounds, TypeOK,
    RecordTypeOK, CallTypeOK, record
<1>9. UnchangedSinceCheck'
  BY DEF CrashRestart, Recovered, NoCall, UnchangedSinceCheck, IsCreate, CallBound,
    GuardPCs, SentUnderClaim, HistoryTypeOK, WorldTypeOK, history, world, TypeOK,
    RecordTypeOK, CallTypeOK, record
<1> QED BY <1>1, <1>2, <1>3, <1>4, <1>5, <1>6, <1>7, <1>8, <1>9

\* Nothing has been claimed, sent or receipted at the start.
LEMMA InitHist == Init => HInv
<1> SUFFICES ASSUME Init PROVE HInv
  OBVIOUS
<1>1. ApprovalKept /\ SentBeforeAnswer /\ HeldTracked /\ VerifiedHeld
  BY DEF Init, ApprovalKept, SentBeforeAnswer, HeldTracked, VerifiedHeld, NoCall
<1>2. AppliedWasHeld /\ ReceiptSettles /\ ClaimWorked /\ DriftSpent /\ UnchangedSinceCheck
  BY DEF Init, AppliedWasHeld, ReceiptSettles, ClaimWorked, DriftSpent, UnchangedSinceCheck
<1> QED BY <1>1, <1>2 DEF HInv

\* Every step of the lifecycle, of Mist and of recovery preserves HInv.
LEMMA NextHist == IInv /\ HInv /\ [Next]_vars => HInv'
<1> SUFFICES ASSUME IInv, HInv, [Next]_vars PROVE HInv'
  OBVIOUS
<1>0. SoleWorker
  BY Sole
<1>1. CASE UNCHANGED vars
  BY <1>1 DEF vars, record, calls, world, history, bounds, HInv, ApprovalKept,
    SentBeforeAnswer, HeldTracked, VerifiedHeld, AppliedWasHeld, ReceiptSettles, ClaimWorked,
    DriftSpent, UnchangedSinceCheck, Target, IsCreate
<1>2. ASSUME NEW p \in Calls, PlanStart(p) \/ PlanStep(p) PROVE HInv'
  BY <1>0, <1>2, PlanStartHist, PlanReadHist, StageHist, WaiveHist DEF PlanStep
<1>3. ASSUME NEW p \in Calls, ApplyStart(p) \/ AcquireGuard(p) PROVE HInv'
  BY <1>0, <1>3, ApplyStartHist, AcquireGuardHist
<1>4. ASSUME NEW p \in Calls, ApplyStep(p) PROVE HInv'
  BY <1>0, <1>4, FetchHist, DriftReadHist, DriftClaimHist, DriftSettleHist, IntentHist,
    ClaimHist, SendWriteHist, WriteAnsweredHist, WriteTimeoutHist, VerifyHist, ReceiptHist,
    FailureReceiptHist, SettleHist DEF ApplyStep
<1>5. ASSUME NEW c \in ChangeSets, NEW who \in Principals, Approve(c, who) PROVE HInv'
  BY <1>0, <1>5, ApproveHist
<1>6. ASSUME NEW c \in ChangeSets, MistApply(c) \/ MistReject(c) PROVE HInv'
  BY <1>0, <1>6, MistApplyHist, MistRejectHist
<1>7. ASSUME NEW o \in Objects, ExternalEdit(o) PROVE HInv'
  BY <1>0, <1>7, ExternalEditHist
<1>8. CASE Tick \/ CrashRestart
  BY <1>0, <1>8, TickHist, CrashRestartHist
<1> QED
  BY <1>1, <1>2, <1>3, <1>4, <1>5, <1>6, <1>7, <1>8 DEF Next

\* HInv holds in every reachable state of the lifecycle.
THEOREM HistoryInductive == Spec => []HInv
  BY Inductive, InitHist, NextHist, PTL DEF Spec

\* Only a crash or a failed write of the record store leaves a record in
\* Applying with no call working on it (apply_mist_change_set settles every
\* claim it makes, on every path).
THEOREM StrandedByFaultOnly == Spec => []StrandedOnlyAfterFault
<1>1. HInv => StrandedOnlyAfterFault
  BY DEF HInv, ClaimWorked, StrandedOnlyAfterFault, ClaimedPCs, GuardPCs
<1> QED BY <1>1, HistoryInductive, PTL

\* A plan whose drift check failed is never written, even if the object moves
\* back and however many other applies of it run ("must not be retried").
THEOREM DriftIsFinal == Spec => []DriftedNeverWritten
<1>1. HInv => DriftedNeverWritten
  BY DEF HInv, DriftSpent, DriftedNeverWritten
<1> QED BY <1>1, HistoryInductive, PTL

\* A success receipt never stands beside a Failed record, crashes, failed
\* state writes and recovery included.
THEOREM ReceiptsTruthful == Spec => []ReceiptMatchesState
<1>1. HInv => ReceiptMatchesState
  BY DEF HInv, ReceiptSettles, ReceiptMatchesState
<1> QED BY <1>1, HistoryInductive, PTL

\* Applied is an observation: the target held `after` at some moment since the
\* write left (step 7 of apply_mist_change_set).
THEOREM AppliedObserved == Spec => []AppliedWasHeld
<1>1. HInv => AppliedWasHeld
  BY DEF HInv
<1> QED BY <1>1, HistoryInductive, PTL

\* When Mist carries out an update whose handler waits, the object still has the
\* planned `before`, unless it was changed from outside after the drift check:
\* two applies of this server never overwrite each other.
THEOREM UpdatesNotLost == Spec => NoLostUpdate
<1>1. HInv => \A c \in ChangeSets :
        wire[c] = "inflight" /\ Awaited(c) /\ ~IsCreate(c) /\ c \notin raced
        => mist[plan[c].device] = plan[c].before
  BY DEF HInv, UnchangedSinceCheck, Awaited
<1>2. HInv /\ [Next]_vars =>
        [\A c \in ChangeSets :
           /\ wire[c] = "inflight" /\ wire'[c] = "applied"
           /\ Awaited(c) /\ ~IsCreate(c) /\ c \notin raced
           => mist[plan[c].device] = plan[c].before]_vars
  BY <1>1
<1> QED BY <1>2, HistoryInductive, PTL DEF Spec, NoLostUpdate
=============================================================================
