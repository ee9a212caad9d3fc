--------------------------- MODULE MistClientProofs ---------------------------
(***************************************************************************)
(* Proofs about MistClient for every set of callers, number of permits and  *)
(* retries, and every budget: the reserve of RateLimitBudget is kept for    *)
(* humans, no exit of execute_as loses a permit, and the requests on the    *)
(* wire stay within what the budget and the retries account for.           *)
(***************************************************************************)
EXTENDS MistClient, FiniteSetTheorems, TLAPS

\* The clamp of RateLimitBudget::new leaves a standard pool that is not negative.
LEMMA ReserveClamped == Reserve \in Nat /\ Reserve <= HourlyLimit
  BY ClientAssumption DEF Reserve

\* A locked operation that grants at most one unit within the caller's pool
\* keeps the pools consistent, whether or not it starts a new window.
LEMMA LockedKeepsBudget ==
  ASSUME BudgetInv, NEW grant \in BOOLEAN, NEW prio \in Priorities,
         grant => UsedNow < Cap(prio), Locked(grant, prio), priority' \in [Callers -> Priorities]
  PROVE  BudgetInv'
<1> USE ClientAssumption, ReserveClamped
<1>1. UsedNow \in Nat /\ UsedNow <= used
  BY DEF UsedNow, BudgetInv
<1>2. CASE grant /\ prio = "Standard"
  BY <1>1, <1>2 DEF Locked, BudgetInv, Cap, UsedNow
<1>3. CASE grant /\ prio = "Reserved"
  BY <1>1, <1>3 DEF Locked, BudgetInv, Cap, UsedNow
<1>4. CASE ~grant
  BY <1>1, <1>4 DEF Locked, BudgetInv, UsedNow
<1> QED BY <1>2, <1>3, <1>4 DEF Priorities

\* A step that leaves the window alone keeps BudgetInv.
LEMMA BudgetUnchanged ==
  ASSUME BudgetInv, UNCHANGED <<used, standard, reserved>>, age' \in Nat,
         priority' \in [Callers -> Priorities]
  PROVE  BudgetInv'
  BY DEF BudgetInv

\* The pools are consistent at the start and after every step of any caller.
THEOREM BudgetConsistent == Spec => []BudgetInv
<1>1. Init => BudgetInv
  BY ClientAssumption, ReserveClamped DEF Init, BudgetInv, Priorities
<1>2. BudgetInv /\ [Next]_vars => BudgetInv'
  <2> SUFFICES ASSUME BudgetInv, [Next]_vars PROVE BudgetInv'
    OBVIOUS
  <2>1. CASE UNCHANGED vars
    BY <2>1 DEF vars, local, budget, BudgetInv
  <2>2. ASSUME NEW p \in Callers, Enter(p) PROVE BudgetInv'
    BY <2>2, BudgetUnchanged DEF Enter, budget, CallPriorityFor, Priorities, BudgetInv
  <2>3. ASSUME NEW p \in Callers, Charge(p) PROVE BudgetInv'
    <3>1. priority[p] \in Priorities /\ priority' = priority
      BY <2>3 DEF Charge, local, BudgetInv
    <3>2. Locked(UsedNow < Cap(priority[p]), priority[p])
      BY <2>3 DEF Charge
    <3>3. (UsedNow < Cap(priority[p])) \in BOOLEAN
      OBVIOUS
    <3>4. priority' \in [Callers -> Priorities]
      BY <3>1 DEF BudgetInv
    <3> QED BY <3>1, <3>2, <3>3, <3>4, LockedKeepsBudget
  <2>4. ASSUME NEW p \in Callers, Deny(p) PROVE BudgetInv'
    <3>1. priority[p] \in Priorities /\ priority' \in [Callers -> Priorities]
      BY <2>4 DEF Deny, Finish, BudgetInv, Priorities
    <3> QED BY <2>4, <3>1, LockedKeepsBudget DEF Deny
  <2>5. CASE BudgetStatus
    BY <2>5, LockedKeepsBudget DEF BudgetStatus, local, BudgetInv, Priorities
  <2>6. ASSUME NEW p \in Callers, AcquirePermit(p) \/ Build(p) \/ Send(p) PROVE BudgetInv'
    BY <2>6 DEF AcquirePermit, Build, Send, Finish, budget, local, BudgetInv, Priorities
  <2>7. ASSUME NEW p \in Callers, Answered(p) \/ RateLimited(p) \/ Wake(p) PROVE BudgetInv'
    BY <2>7 DEF Answered, RateLimited, Wake, Finish, budget, local, BudgetInv, Priorities
  <2>8. CASE Tick
    BY <2>8, BudgetUnchanged DEF Tick, BudgetInv
  <2> QED
    BY <2>1, <2>2, <2>3, <2>4, <2>5, <2>6, <2>7, <2>8 DEF Next, Step
<1> QED BY <1>1, <1>2, PTL DEF Spec

\* A verified human is refused only when humans have spent the reserve
\* themselves, whatever the agents sharing the token do (try_acquire).
THEOREM HumansKeepReserve == Spec => []HumanHeadroom
<1>1. BudgetInv => HumanHeadroom
  BY ClientAssumption, ReserveClamped DEF BudgetInv, HumanHeadroom, Cap
<1> QED BY <1>1, BudgetConsistent, PTL

-----------------------------------------------------------------------------
(* The semaphore and the wire.                                              *)

\* The calls that hold a permit.
Holders == {p \in Callers : pc[p] \in HoldPCs}

\* A call that waits for a permit is in the semaphore's queue.
WaitersQueued == \A p \in Callers :
  pc[p] = "permit" => \E i \in 1..Len(queue) : queue[i] = p

\* Retries are counted from the first request of the call.
RetriesFresh == \A p \in Callers :
  pc[p] \in {"idle", "permit", "charge", "denied", "build"} => retries[p] = 0

\* The requests the calls in progress may still send, the i-th of each.
Pending ==
  {x \in Callers \X (0..Max429Retries) :
     \/ pc[x[1]] \in {"build", "send", "sleep"} /\ x[2] >= retries[x[1]]
     \/ pc[x[1]] = "await" /\ x[2] > retries[x[1]]}

\* WireBounded with what is still to come: the requests sent in this window and
\* those the calls in progress may still send.
WireAccounted ==
  wired + Cardinality(Pending) <= (Max429Retries + 1) * (used + MaxConcurrency)

\* The inductive invariant of the semaphore and the wire, relative to BudgetInv.
ClientInv ==
  /\ TypeOK /\ WaitersQueued /\ RetriesFresh
  /\ IsFiniteSet(Holders) /\ PermitsConserved /\ WireAccounted

\* A power of two is a natural number: it counts the subsets of 1..n.
LEMMA PowerNat == ASSUME NEW n \in Nat PROVE 2^n \in Nat
<1>1. IsFiniteSet(1..n) /\ Cardinality(1..n) = n
  BY FS_Interval
<1>2. IsFiniteSet(SUBSET (1..n)) /\ Cardinality(SUBSET (1..n)) = 2^n
  BY <1>1, FS_SUBSET, Zenon
<1> QED BY <1>2, FS_CardinalityType, Zenon

\* The sleep before a retry never exceeds max_retry_wait, whatever Mist asks for.
LEMMA RetryWaitCapped ==
  ASSUME NEW header \in -1..MaxHeader, NEW n \in Nat
  PROVE  RetryWait(header, n) \in 0..MaxRetryWait
<1> DEFINE wait == IF header < 0 THEN 2^n ELSE header
<1>1. wait \in Nat
  BY PowerNat, ClientAssumption
<1>2. RetryWait(header, n) = IF wait > MaxRetryWait THEN MaxRetryWait ELSE wait
  BY Zenon DEF RetryWait
<1> HIDE DEF wait
<1> QED BY <1>1, <1>2, ClientAssumption

\* Products of naturals are naturals.
LEMMA ProductNat == \A a, b \in Nat : a * b \in Nat
  OBVIOUS

\* The bound of WireBounded is a natural number.
LEMMA BoundNat == ASSUME NEW u \in Nat PROVE (Max429Retries + 1) * (u + MaxConcurrency) \in Nat
<1>1. Max429Retries + 1 \in Nat /\ u + MaxConcurrency \in Nat
  BY ClientAssumption
<1> QED BY <1>1, ProductNat, Zenon

\* The requests of one call are numbered from 0.
LEMMA RequestNumbers ==
  IsFiniteSet(0..Max429Retries) /\ Cardinality(0..Max429Retries) = Max429Retries + 1
<1>1. 0 \in Int /\ Max429Retries \in Int /\ ~(0 > Max429Retries)
      /\ Max429Retries - 0 + 1 = Max429Retries + 1
  BY ClientAssumption
<1>2. /\ IsFiniteSet(0..Max429Retries)
      /\ Cardinality(0..Max429Retries) =
           IF 0 > Max429Retries THEN 0 ELSE Max429Retries - 0 + 1
  BY <1>1, FS_Interval, Zenon
<1> QED BY <1>1, <1>2, Zenon

\* The number of holders, as long as they are finitely many.
LEMMA HolderCount ==
  ASSUME ClientInv
  PROVE  /\ Cardinality(Holders) \in Nat
         /\ permits + Cardinality(Holders) = MaxConcurrency
  BY FS_CardinalityType DEF ClientInv, PermitsConserved, Holders

\* A step that leaves the holders and the free permits alone keeps their sum.
LEMMA PermitsUntouched ==
  ASSUME ClientInv, Holders' = Holders, permits' = permits
  PROVE  IsFiniteSet(Holders') /\ PermitsConserved'
  BY DEF ClientInv, PermitsConserved, Holders

\* Every exit of execute_as gives its permit back and drops the locals.
LEMMA Finished ==
  ASSUME ClientInv, NEW p \in Callers, pc[p] \in HoldPCs, Finish(p)
  PROVE  /\ pc' \in [Callers -> PCs] /\ priority' \in [Callers -> Priorities]
         /\ retries' \in [Callers -> 0..Max429Retries] /\ delay' \in [Callers -> 0..MaxRetryWait]
         /\ permits' \in 0..MaxConcurrency /\ queue' \in Seq(Callers)
         /\ WaitersQueued' /\ RetriesFresh'
         /\ IsFiniteSet(Holders') /\ PermitsConserved'
         /\ Pending' \subseteq Pending
<1> USE DEF ClientInv
<1>1. /\ pc' \in [Callers -> PCs] /\ priority' \in [Callers -> Priorities]
      /\ retries' \in [Callers -> 0..Max429Retries] /\ delay' \in [Callers -> 0..MaxRetryWait]
      /\ queue' \in Seq(Callers)
  BY ClientAssumption DEF Finish, TypeOK, PCs, Priorities
<1>2. WaitersQueued' /\ RetriesFresh'
  BY DEF Finish, TypeOK, WaitersQueued, RetriesFresh
<1>3. Holders' = Holders \ {p} /\ p \in Holders
  BY DEF Finish, TypeOK, Holders, HoldPCs
<1>4. IsFiniteSet(Holders') /\ Cardinality(Holders') = Cardinality(Holders) - 1
  BY <1>3, FS_RemoveElement
<1>5. permits' = permits + 1 /\ permits' \in 0..MaxConcurrency
  BY <1>4, HolderCount, FS_CardinalityType, ClientAssumption DEF Finish, TypeOK
<1>6. PermitsConserved'
  <2>1. Cardinality(Holders) \in Nat /\ permits \in Nat
    BY HolderCount DEF TypeOK
  <2>2. permits' + Cardinality(Holders') = MaxConcurrency
    BY <1>4, <1>5, <2>1, HolderCount, ClientAssumption
  <2> QED BY <2>2, Zenon DEF PermitsConserved, Holders
<1>7. Pending' \subseteq Pending
  BY DEF Finish, TypeOK, Pending
<1> QED BY <1>1, <1>2, <1>4, <1>5, <1>6, <1>7

\* Where a window starts nothing has been sent in it, and the calls that outlive
\* the old one can send no more than the permits allow.
LEMMA WindowStarts ==
  ASSUME wired' = 0, used' \in Nat, permits' \in Nat, IsFiniteSet(Holders'), PermitsConserved'
  PROVE  WireAccounted'
<1> DEFINE R == 0..Max429Retries
<1>1. IsFiniteSet(R) /\ Cardinality(R) = Max429Retries + 1
  BY RequestNumbers
<1>2. Pending' \subseteq Holders' \X R
  BY DEF Pending, Holders, HoldPCs, PCs
<1>3. IsFiniteSet(Holders' \X R) /\ Cardinality(Holders' \X R) = Cardinality(Holders') * Cardinality(R)
  BY <1>1, FS_Product
<1>4. Cardinality(Holders') \in Nat /\ Cardinality(Holders') <= MaxConcurrency
  BY FS_CardinalityType, ClientAssumption DEF PermitsConserved, Holders
<1>5. Cardinality(Pending') \in Nat /\ Cardinality(Pending') <= Cardinality(Holders' \X R)
  BY <1>2, <1>3, FS_Subset, FS_CardinalityType
<1>6. \A h, c, u, k \in Nat : h <= c => h * k <= k * (u + c)
  OBVIOUS
<1>7. Cardinality(Holders') * Cardinality(R) <= (Max429Retries + 1) * (used' + MaxConcurrency)
  <2> DEFINE held == Cardinality(Holders')
             k == Max429Retries + 1
  <2>1. held \in Nat /\ held <= MaxConcurrency /\ Cardinality(R) = k
    BY <1>1, <1>4
  <2>2. k \in Nat /\ MaxConcurrency \in Nat /\ used' \in Nat
    BY ClientAssumption
  <2> HIDE DEF held, k
  <2>3. held * k <= k * (used' + MaxConcurrency)
    BY <1>6, <2>1, <2>2
  <2> QED
    BY <2>1, <2>3 DEF held, k
<1>8. 0 + Cardinality(Pending') <= (Max429Retries + 1) * (used' + MaxConcurrency)
  <2>1. (Max429Retries + 1) * (used' + MaxConcurrency) \in Nat
    BY BoundNat, Zenon
  <2>2. Cardinality(Holders') * Cardinality(R) \in Nat
    BY <1>1, <1>4, ClientAssumption, ProductNat
  <2> HIDE DEF R
  <2> QED BY <1>3, <1>5, <1>7, <2>1, <2>2
<1> QED BY <1>8, Zenon DEF WireAccounted

\* The pending requests are finitely many.
LEMMA PendingCount ==
  ASSUME ClientInv
  PROVE  IsFiniteSet(Pending) /\ Cardinality(Pending) \in Nat
<1>1. Pending \subseteq Holders \X (0..Max429Retries)
  BY DEF Pending, Holders, HoldPCs, PCs
<1>2. IsFiniteSet(Holders \X (0..Max429Retries))
  BY RequestNumbers, FS_Product, Zenon DEF ClientInv
<1> QED BY <1>1, <1>2, FS_Subset, FS_CardinalityType

\* A step that sends nothing and gives no call more to send keeps the account.
LEMMA WireUntouched ==
  ASSUME ClientInv, Pending' \subseteq Pending, wired' = wired, used' = used
  PROVE  WireAccounted'
<1>1. Cardinality(Pending') \in Nat /\ Cardinality(Pending') <= Cardinality(Pending)
  BY PendingCount, FS_Subset, FS_CardinalityType
<1>2. wired \in Nat /\ wired + Cardinality(Pending) <= (Max429Retries + 1) * (used + MaxConcurrency)
  BY DEF ClientInv, TypeOK, WireAccounted
<1>3. (Max429Retries + 1) * (used + MaxConcurrency) \in Nat
  BY BoundNat DEF ClientInv, TypeOK
<1> QED BY <1>1, <1>2, <1>3, PendingCount DEF WireAccounted

\* execute_as queues for a permit.
LEMMA EnterClient ==
  ASSUME ClientInv, NEW p \in Callers, Enter(p)
  PROVE  ClientInv'
<1> USE DEF ClientInv
<1>1. TypeOK'
  <2>1. pc' \in [Callers -> PCs] /\ queue' \in Seq(Callers)
    BY DEF Enter, TypeOK, PCs
  <2>2. priority' \in [Callers -> Priorities]
    BY DEF Enter, TypeOK, CallPriorityFor, Priorities
  <2> QED BY <2>1, <2>2 DEF Enter, TypeOK, budget
<1>2. WaitersQueued'
  <2>1. Len(queue') = Len(queue) + 1 /\ queue'[Len(queue) + 1] = p
        /\ \A i \in 1..Len(queue) : queue'[i] = queue[i]
    BY DEF Enter, TypeOK
  <2>2. Len(queue) \in Nat
    BY DEF TypeOK
  <2>3. \A q \in Callers : q # p => pc'[q] = pc[q]
    BY DEF Enter, TypeOK
  <2>4. 1..Len(queue) \subseteq 1..Len(queue') /\ Len(queue) + 1 \in 1..Len(queue')
    BY <2>1, <2>2
  <2> QED BY <2>1, <2>3, <2>4 DEF WaitersQueued
<1>3. RetriesFresh'
  BY DEF Enter, TypeOK, RetriesFresh
<1>4. Holders' = Holders /\ Pending' = Pending
  BY DEF Enter, TypeOK, Holders, HoldPCs, Pending
<1>5. IsFiniteSet(Holders') /\ PermitsConserved' /\ WireAccounted'
  BY <1>4, PermitsUntouched, WireUntouched DEF Enter, budget
<1> QED BY <1>1, <1>2, <1>3, <1>5

\* The longest waiter takes a free permit.
LEMMA AcquireClient ==
  ASSUME ClientInv, NEW p \in Callers, AcquirePermit(p)
  PROVE  ClientInv'
<1> USE DEF ClientInv
<1>1. queue # <<>> /\ queue[1] = p /\ queue' \in Seq(Callers) /\ Len(queue') = Len(queue) - 1
      /\ \A i \in 1..Len(queue') : queue'[i] = queue[i + 1]
  <2>1. PICK i \in 1..Len(queue) : queue[i] = p
    BY DEF AcquirePermit, WaitersQueued
  <2>2. queue # <<>>
    BY <2>1 DEF TypeOK
  <2> QED BY <2>2 DEF AcquirePermit, TypeOK
<1>2. TypeOK'
  <2>1. pc' \in [Callers -> PCs] /\ permits' \in 0..MaxConcurrency
    BY ClientAssumption DEF AcquirePermit, TypeOK, PCs
  <2> QED BY <1>1, <2>1 DEF AcquirePermit, TypeOK, local, budget
<1>3. WaitersQueued'
  <2> SUFFICES ASSUME NEW q \in Callers, pc'[q] = "permit"
               PROVE  \E i \in 1..Len(queue') : queue'[i] = q
    BY DEF WaitersQueued
  <2>1. q # p /\ pc[q] = "permit"
    BY DEF AcquirePermit, TypeOK
  <2>2. PICK i \in 1..Len(queue) : queue[i] = q
    BY <2>1 DEF WaitersQueued
  <2>3. i - 1 \in 1..Len(queue') /\ (i - 1) + 1 = i
    BY <1>1, <2>1, <2>2, SMTT(40) DEF TypeOK
  <2> QED BY <1>1, <2>2, <2>3
<1>4. RetriesFresh'
  BY DEF AcquirePermit, TypeOK, RetriesFresh, local
<1>5. Holders' = Holders \cup {p} /\ p \notin Holders /\ Pending' = Pending
  BY DEF AcquirePermit, TypeOK, Holders, HoldPCs, PCs, Pending, local
<1>6. IsFiniteSet(Holders') /\ Cardinality(Holders') = Cardinality(Holders) + 1
  BY <1>5, FS_AddElement
<1>7. PermitsConserved'
  <2>1. permits' + Cardinality(Holders') = MaxConcurrency
    BY <1>6, HolderCount, ClientAssumption DEF AcquirePermit, TypeOK
  <2> QED BY <2>1, Zenon DEF PermitsConserved, Holders
<1>8. WireAccounted'
  BY <1>5, WireUntouched DEF AcquirePermit, budget
<1> QED BY <1>2, <1>3, <1>4, <1>6, <1>7, <1>8

\* A locked operation of the budget keeps its variables in range.
LEMMA LockedType ==
  ASSUME TypeOK, BudgetInv', NEW grant, NEW prio, Locked(grant, prio)
  PROVE  used' \in 0..HourlyLimit /\ age' \in 0..WINDOW /\ standard' \in Nat /\ reserved' \in Nat
  BY ClientAssumption DEF TypeOK, BudgetInv, Locked

\* The one charge of the call adds its requests to the account, and pays for them.
LEMMA ChargeClient ==
  ASSUME ClientInv, BudgetInv', NEW p \in Callers, Charge(p)
  PROVE  ClientInv'
<1> USE DEF ClientInv
<1> DEFINE granted == UsedNow < Cap(priority[p])
<1>1. TypeOK'
  <2>1. used' \in 0..HourlyLimit /\ age' \in 0..WINDOW /\ standard' \in Nat /\ reserved' \in Nat
    BY LockedType, Zenon DEF Charge
  <2>2. pc' \in [Callers -> PCs]
    BY DEF Charge, TypeOK, PCs
  <2> QED BY <2>1, <2>2 DEF Charge, TypeOK, local, sem
<1>2. WaitersQueued' /\ RetriesFresh'
  BY DEF Charge, TypeOK, WaitersQueued, RetriesFresh, local, sem
<1>3. Holders' = Holders
  BY DEF Charge, TypeOK, Holders, HoldPCs, PCs
<1>4. IsFiniteSet(Holders') /\ PermitsConserved'
  BY <1>3, PermitsUntouched DEF Charge, sem
<1>5. WireAccounted'
  <2>1. CASE Elapsed
    BY <1>1, <1>4, <2>1, WindowStarts DEF Charge, TypeOK
  <2>2. CASE ~Elapsed /\ ~granted
    <3>1. Pending' = Pending
      BY <2>2 DEF Charge, TypeOK, Pending, local
    <3>2. used' = used /\ wired' = wired
      BY <2>2 DEF Charge, Locked, UsedNow, TypeOK
    <3> QED BY <3>1, <3>2, WireUntouched
  <2>3. CASE ~Elapsed /\ granted
    <3> DEFINE own == {p} \X (0..Max429Retries)
    <3>1. retries[p] = 0 /\ pc'[p] = "build" /\ retries' = retries
      BY <2>3 DEF Charge, TypeOK, RetriesFresh, local
    <3>2. Pending' \subseteq Pending \cup own
      BY <3>1 DEF Charge, TypeOK, Pending
    <3>3. IsFiniteSet(own) /\ Cardinality(own) = 1 * (Max429Retries + 1)
      <4>1. IsFiniteSet({p}) /\ Cardinality({p}) = 1
        BY FS_Singleton, Zenon
      <4>2. IsFiniteSet(own) /\ Cardinality(own) = Cardinality({p}) * Cardinality(0..Max429Retries)
        BY <4>1, RequestNumbers, FS_Product, Zenon
      <4> QED BY <4>1, <4>2, RequestNumbers, Zenon
    <3>4. IsFiniteSet(Pending \cup own)
          /\ Cardinality(Pending \cup own) = Cardinality(Pending) + Cardinality(own) - Cardinality(Pending \cap own)
      BY <3>3, PendingCount, FS_Union
    <3>5. Cardinality(Pending \cap own) \in Nat
      BY PendingCount, FS_Intersection, FS_CardinalityType
    <3>6. Cardinality(Pending') \in Nat /\ Cardinality(Pending') <= Cardinality(Pending \cup own)
      BY <3>2, <3>4, FS_Subset, FS_CardinalityType
    <3>7. used' = used + 1 /\ wired' = wired
      BY <2>3 DEF Charge, Locked, UsedNow, TypeOK
    <3>8. \A k, u, c \in Nat : k * ((u + 1) + c) = k * (u + c) + k
      OBVIOUS
    <3>9. /\ (Max429Retries + 1) * (used' + MaxConcurrency)
               = (Max429Retries + 1) * (used + MaxConcurrency) + (Max429Retries + 1)
          /\ (Max429Retries + 1) * (used + MaxConcurrency) \in Nat
      <4>1. Max429Retries + 1 \in Nat /\ used \in Nat /\ MaxConcurrency \in Nat
        BY ClientAssumption DEF TypeOK
      <4> QED BY <3>7, <3>8, <4>1, BoundNat, Zenon
    <3>10. Cardinality(Pending') <= Cardinality(Pending) + (Max429Retries + 1)
      BY <3>3, <3>4, <3>5, <3>6, PendingCount, ClientAssumption
    <3> HIDE DEF own, granted
    <3> QED BY <3>6, <3>7, <3>9, <3>10, PendingCount, ClientAssumption, SMTT(40) DEF WireAccounted, TypeOK
  <2> QED BY <2>1, <2>2, <2>3
<1> QED BY <1>1, <1>2, <1>4, <1>5

\* A refused call has nothing to send.
LEMMA DenyClient ==
  ASSUME ClientInv, BudgetInv', NEW p \in Callers, Deny(p)
  PROVE  ClientInv'
<1> USE DEF ClientInv
<1>1. pc[p] \in HoldPCs /\ Finish(p)
  BY DEF Deny, HoldPCs, PCs
<1>2. used' \in 0..HourlyLimit /\ age' \in 0..WINDOW /\ standard' \in Nat /\ reserved' \in Nat
  BY LockedType DEF Deny
<1>3. wired' \in Nat
  BY DEF Deny, TypeOK
<1>4. TypeOK'
  BY <1>1, <1>2, <1>3, Finished DEF TypeOK
<1>5. WireAccounted'
  <2>1. CASE Elapsed
    BY <1>1, <1>4, <2>1, WindowStarts, Finished, SMTT(40) DEF Deny, TypeOK
  <2>2. CASE ~Elapsed
    <3>1. used' = used /\ wired' = wired
      BY <2>2 DEF Deny, Locked, UsedNow, TypeOK
    <3> QED BY <1>1, <3>1, Finished, WireUntouched
  <2> QED BY <2>1, <2>2
<1> QED BY <1>1, <1>4, <1>5, Finished

\* An exit that leaves the window alone.
LEMMA ExitClient ==
  ASSUME ClientInv, NEW p \in Callers, pc[p] \in HoldPCs, Finish(p), UNCHANGED <<budget, wired>>
  PROVE  ClientInv'
<1> USE DEF ClientInv
<1>1. TypeOK'
  BY Finished DEF TypeOK, budget
<1>2. WireAccounted'
  BY Finished, WireUntouched DEF budget
<1> QED BY <1>1, <1>2, Finished

\* A running call moves on: it keeps its permit, and has no more to send.
LEMMA MoveClient ==
  ASSUME ClientInv, NEW p \in Callers, NEW label \in HoldPCs, pc[p] \in HoldPCs,
         pc' = [pc EXCEPT ![p] = label], RetriesFresh', Pending' \subseteq Pending,
         retries' \in [Callers -> 0..Max429Retries], delay' \in [Callers -> 0..MaxRetryWait],
         UNCHANGED <<priority, sem, budget, wired>>
  PROVE  ClientInv'
<1> USE DEF ClientInv
<1>1. TypeOK'
  BY DEF TypeOK, HoldPCs, sem, budget
<1>2. WaitersQueued' /\ Holders' = Holders
  BY DEF TypeOK, WaitersQueued, Holders, HoldPCs, sem
<1>3. IsFiniteSet(Holders') /\ PermitsConserved'
  BY <1>2, PermitsUntouched DEF sem
<1>4. WireAccounted'
  BY WireUntouched DEF budget
<1> QED BY <1>1, <1>2, <1>3, <1>4

\* A request is prepared, or refused after it was charged.
LEMMA BuildClient ==
  ASSUME ClientInv, NEW p \in Callers, Build(p)
  PROVE  ClientInv'
<1>1. pc[p] \in HoldPCs
  BY DEF Build, HoldPCs, PCs
<1>2. CASE Finish(p)
  BY <1>1, <1>2, ExitClient DEF Build
<1>3. CASE ~Finish(p)
  <2>1. pc' = [pc EXCEPT ![p] = "send"] /\ UNCHANGED <<local, sem, budget, wired>> /\ pc[p] = "build"
    BY <1>3 DEF Build
  <2>2. RetriesFresh' /\ Pending' \subseteq Pending
    BY <2>1 DEF ClientInv, TypeOK, RetriesFresh, Pending, local
  <2> QED BY <1>1, <2>1, <2>2, MoveClient DEF ClientInv, TypeOK, local, HoldPCs, PCs
<1> QED BY <1>2, <1>3

\* A request leaves: one more on the wire, one less to come.
LEMMA SendClient ==
  ASSUME ClientInv, NEW p \in Callers, Send(p)
  PROVE  ClientInv'
<1> USE DEF ClientInv
<1>1. TypeOK'
  BY DEF Send, TypeOK, PCs, local, sem, budget
<1>2. WaitersQueued' /\ RetriesFresh' /\ Holders' = Holders
  BY DEF Send, TypeOK, WaitersQueued, RetriesFresh, Holders, HoldPCs, PCs, local, sem
<1>3. IsFiniteSet(Holders') /\ PermitsConserved'
  BY <1>2, PermitsUntouched DEF Send, sem
<1>4. WireAccounted'
  <2> DEFINE x == <<p, retries[p]>>
  <2>1. x \in Pending
    BY DEF Send, TypeOK, Pending
  <2>2. Pending' \subseteq Pending \ {x}
    BY DEF Send, TypeOK, Pending, local
  <2>3. IsFiniteSet(Pending \ {x}) /\ Cardinality(Pending \ {x}) = Cardinality(Pending) - 1
    BY <2>1, PendingCount, FS_RemoveElement
  <2>4. Cardinality(Pending') \in Nat /\ Cardinality(Pending') <= Cardinality(Pending) - 1
    BY <2>2, <2>3, FS_Subset, FS_CardinalityType
  <2>5. (Max429Retries + 1) * (used + MaxConcurrency) \in Nat
    BY BoundNat DEF TypeOK
  <2>6. wired' = wired + 1 /\ used' = used
    BY DEF Send, budget
  <2> HIDE DEF x
  <2> QED BY <2>4, <2>5, <2>6, PendingCount, SMTT(40) DEF WireAccounted, TypeOK
<1> QED BY <1>1, <1>2, <1>3, <1>4

\* A final answer ends the call; a 429 uses up one retry, or ends it as well.
LEMMA AnswerClient ==
  ASSUME ClientInv, NEW p \in Callers, Answered(p) \/ RateLimited(p)
  PROVE  ClientInv'
<1>1. pc[p] = "await" /\ pc[p] \in HoldPCs /\ UNCHANGED <<budget, wired>>
  BY DEF Answered, RateLimited, HoldPCs, PCs
<1>2. CASE Finish(p)
  BY <1>1, <1>2, ExitClient
<1>3. CASE ~Finish(p)
  <2>1. PICK header \in -1..MaxHeader :
          delay' = [delay EXCEPT ![p] = RetryWait(header, retries[p])]
    BY <1>3 DEF Answered, RateLimited
  <2>2. /\ retries[p] < Max429Retries
        /\ retries' = [retries EXCEPT ![p] = @ + 1]
        /\ pc' = [pc EXCEPT ![p] = "sleep"]
        /\ UNCHANGED <<priority, sem>>
    BY <1>3 DEF Answered, RateLimited
  <2>3. retries[p] \in 0..Max429Retries
    BY DEF ClientInv, TypeOK
  <2>4. RetryWait(header, retries[p]) \in 0..MaxRetryWait
    BY <2>3, RetryWaitCapped
  <2>5. retries' \in [Callers -> 0..Max429Retries] /\ delay' \in [Callers -> 0..MaxRetryWait]
    BY <2>1, <2>2, <2>3, <2>4, ClientAssumption DEF ClientInv, TypeOK
  <2>6. RetriesFresh'
    BY <2>2 DEF ClientInv, TypeOK, RetriesFresh
  <2>7. Pending' \subseteq Pending
    BY <1>1, <2>2, <2>3, ClientAssumption DEF ClientInv, TypeOK, Pending
  <2> QED BY <1>1, <2>2, <2>5, <2>6, <2>7, MoveClient DEF HoldPCs, PCs
<1> QED BY <1>2, <1>3

\* A call wakes up to send again.
LEMMA WakeClient ==
  ASSUME ClientInv, NEW p \in Callers, Wake(p)
  PROVE  ClientInv'
<1>1. pc[p] = "sleep" /\ pc' = [pc EXCEPT ![p] = "send"] /\ UNCHANGED <<local, sem, budget, wired>>
  BY DEF Wake
<1>2. RetriesFresh' /\ Pending' \subseteq Pending
  BY <1>1 DEF ClientInv, TypeOK, RetriesFresh, Pending, local
<1> QED BY <1>1, <1>2, MoveClient DEF ClientInv, TypeOK, local, HoldPCs, PCs

\* A status query or a tick concerns no call.
LEMMA ClockClient ==
  ASSUME ClientInv, BudgetInv', BudgetStatus \/ Tick
  PROVE  ClientInv'
<1> USE DEF ClientInv
<1>1. TypeOK'
  <2>1. CASE BudgetStatus
    <3>1. used' \in 0..HourlyLimit /\ age' \in 0..WINDOW /\ standard' \in Nat /\ reserved' \in Nat
      BY <2>1, LockedType DEF BudgetStatus
    <3> QED BY <2>1, <3>1 DEF BudgetStatus, TypeOK, local, sem
  <2>2. CASE Tick
    <3>1. age' \in 0..WINDOW
      BY <2>2, ClientAssumption DEF Tick, Elapsed, TypeOK
    <3>2. delay' \in [Callers -> 0..MaxRetryWait]
      BY <2>2, ClientAssumption DEF Tick, TypeOK
    <3> QED BY <2>2, <3>1, <3>2 DEF Tick, TypeOK, sem
  <2> QED BY <2>1, <2>2
<1>2. WaitersQueued' /\ RetriesFresh' /\ Holders' = Holders /\ Pending' = Pending
  BY DEF BudgetStatus, Tick, WaitersQueued, RetriesFresh, Holders, Pending, local, sem
<1>3. IsFiniteSet(Holders') /\ PermitsConserved'
  BY <1>2, PermitsUntouched DEF BudgetStatus, Tick, sem
<1>4. WireAccounted'
  <2>1. CASE BudgetStatus
    BY <1>1, <1>3, <2>1, WindowStarts DEF BudgetStatus, TypeOK
  <2>2. CASE Tick
    BY <1>2, <2>2, WireUntouched DEF Tick
  <2> QED BY <2>1, <2>2
<1> QED BY <1>1, <1>2, <1>3, <1>4

\* ClientInv holds in every reachable state, for any interleaving of callers.
THEOREM ClientInductive == Spec => []ClientInv
<1>1. Init => ClientInv
  <2> SUFFICES ASSUME Init PROVE ClientInv
    OBVIOUS
  <2>1. TypeOK
    BY ClientAssumption DEF Init, TypeOK, PCs, Priorities
  <2>2. WaitersQueued /\ RetriesFresh
    BY DEF Init, WaitersQueued, RetriesFresh
  <2>3. Holders = {} /\ Pending = {}
    BY DEF Init, Holders, HoldPCs, Pending
  <2>4. IsFiniteSet(Holders) /\ Cardinality(Holders) = 0 /\ Cardinality(Pending) = 0
    BY <2>3, FS_EmptySet
  <2>5. PermitsConserved
    <3>1. permits + Cardinality(Holders) = MaxConcurrency
      BY <2>4, ClientAssumption DEF Init
    <3> QED BY <3>1, Zenon DEF PermitsConserved, Holders
  <2>6. WireAccounted
    BY <2>4, ProductNat, ClientAssumption DEF Init, WireAccounted
  <2> QED BY <2>1, <2>2, <2>4, <2>5, <2>6 DEF ClientInv
<1>2. ClientInv /\ BudgetInv' /\ [Next]_vars => ClientInv'
  <2> SUFFICES ASSUME ClientInv, BudgetInv', [Next]_vars PROVE ClientInv'
    OBVIOUS
  <2>1. CASE UNCHANGED vars
    BY <2>1 DEF vars, local, sem, budget, ClientInv, TypeOK, WaitersQueued, RetriesFresh,
      Holders, PermitsConserved, Pending, WireAccounted
  <2>2. ASSUME NEW p \in Callers, Enter(p) \/ AcquirePermit(p) PROVE ClientInv'
    BY <2>2, EnterClient, AcquireClient
  <2>3. ASSUME NEW p \in Callers, Charge(p) \/ Deny(p) \/ Build(p) \/ Send(p) PROVE ClientInv'
    BY <2>3, ChargeClient, DenyClient, BuildClient, SendClient
  <2>4. ASSUME NEW p \in Callers, Answered(p) \/ RateLimited(p) \/ Wake(p) PROVE ClientInv'
    BY <2>4, AnswerClient, WakeClient
  <2>5. CASE BudgetStatus \/ Tick
    BY <2>5, ClockClient
  <2> QED BY <2>1, <2>2, <2>3, <2>4, <2>5 DEF Next, Step
<1> QED BY <1>1, <1>2, BudgetConsistent, PTL DEF Spec

\* Every variable of the client keeps its type: in particular a free permit is
\* never created, and no sleep exceeds max_retry_wait.
THEOREM ClientTypeCorrect == Spec => []TypeOK
<1>1. ClientInv => TypeOK
  BY DEF ClientInv
<1> QED BY <1>1, ClientInductive, PTL

\* No exit of execute_as loses or doubles a permit, so at most max_concurrency
\* calls are past the semaphore, for any number of callers.
THEOREM PermitsNeverLost == Spec => []PermitsConserved
<1>1. ClientInv => PermitsConserved
  BY DEF ClientInv
<1> QED BY <1>1, ClientInductive, PTL

\* What Mist sees in one window is bounded by the charged units and the
\* permits, times the requests of one call, retries and overlapping windows
\* included.
THEOREM RequestsBounded == Spec => []WireBounded
<1>1. ClientInv => WireBounded
  <2> SUFFICES ASSUME ClientInv PROVE WireBounded
    OBVIOUS
  <2>1. (Max429Retries + 1) * (used + MaxConcurrency) \in Nat
    BY BoundNat DEF ClientInv, TypeOK
  <2> QED BY <2>1, PendingCount DEF ClientInv, TypeOK, WireAccounted, WireBounded
<1> QED BY <1>1, ClientInductive, PTL
=============================================================================
