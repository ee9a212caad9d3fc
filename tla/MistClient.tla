------------------------------ MODULE MistClient ------------------------------
(***************************************************************************)
(* HttpMistClient::execute_as (rustmistmcp-core/src/client.rs) and the      *)
(* hourly budget it charges (rustmistmcp-core/src/rate_limit.rs): a fair    *)
(* semaphore, one budget unit per logical call with a reserve for verified *)
(* humans, and bounded retries of HTTP 429.                                *)
(*                                                                         *)
(* Time is kept as the age of the budget window, which saturates at WINDOW, *)
(* and as what is left of each sleep, so no bound on the clock is needed.   *)
(***************************************************************************)
EXTENDS Integers, FiniteSets, Sequences

CONSTANTS
  Callers,         \* tasks that call execute_as
  MaxConcurrency,  \* max_concurrency: permits of the semaphore
  HourlyLimit,     \* hourly_call_budget
  HumanReserve,    \* human_reserve as configured, before the clamp
  Max429Retries,   \* max_429_retries
  MaxRetryWait,    \* max_retry_wait, in ticks
  MaxHeader,       \* bound: the largest Retry-After a response carries
  WINDOW           \* the hourly window, in ticks

ASSUME ClientAssumption ==
  /\ MaxConcurrency \in Nat \ {0}
  /\ HourlyLimit \in Nat
  /\ HumanReserve \in Nat
  /\ Max429Retries \in Nat
  /\ MaxRetryWait \in Nat
  /\ MaxHeader \in Nat
  /\ WINDOW \in Nat \ {0}

VARIABLES
  pc,        \* where each execute_as is
  priority,  \* its CallPriority
  retries,   \* retries_used
  delay,     \* ticks its backoff sleep still takes
  queue,     \* external: FIFO waiters of the semaphore
  permits,   \* external: free permits of the semaphore
  used,      \* Window.used
  age,       \* elapsed time of the window, saturating at WINDOW
  standard,  \* history: standard calls granted in this window
  reserved,  \* history: reserved calls granted in this window
  wired      \* history: requests sent since this window started

budget == <<used, age, standard, reserved>>
sem    == <<queue, permits>>
local  == <<priority, retries, delay>>
vars   == <<pc, local, sem, budget, wired>>

PCs == {"idle", "permit", "charge", "denied", "build", "send", "await", "sleep"}
HoldPCs == PCs \ {"idle", "permit"}
Priorities == {"Standard", "Reserved"}
Actors == {"human", "agent", "unknown", "absent"}

\* RateLimitBudget::new clamps the reserve so that the standard pool is not negative.
Reserve == IF HumanReserve > HourlyLimit THEN HourlyLimit ELSE HumanReserve

TypeOK ==
  /\ pc \in [Callers -> PCs]
  /\ priority \in [Callers -> Priorities]
  /\ retries \in [Callers -> 0..Max429Retries]
  /\ delay \in [Callers -> 0..MaxRetryWait]
  /\ queue \in Seq(Callers)
  /\ permits \in 0..MaxConcurrency
  /\ used \in 0..HourlyLimit
  /\ age \in 0..WINDOW
  /\ standard \in Nat
  /\ reserved \in Nat
  /\ wired \in Nat

Init ==
  /\ pc = [p \in Callers |-> "idle"]
  /\ priority = [p \in Callers |-> "Standard"]
  /\ retries = [p \in Callers |-> 0]
  /\ delay = [p \in Callers |-> 0]
  /\ queue = <<>>
  /\ permits = MaxConcurrency
  /\ used = 0 /\ age = 0
  /\ standard = 0 /\ reserved = 0 /\ wired = 0

-----------------------------------------------------------------------------
(* The budget *)

\* Only a verified human draws on the reserve.
CallPriorityFor(actor) == IF actor = "human" THEN "Reserved" ELSE "Standard"

\* Mutant of Cap: every caller may spend the whole hour.
CapWithoutReserve(prio) == HourlyLimit

Cap(prio) == IF prio = "Standard" THEN HourlyLimit - Reserve ELSE HourlyLimit

\* reset_if_elapsed: the first locked operation after the window starts another.
Elapsed == age >= WINDOW
UsedNow == IF Elapsed THEN 0 ELSE used

\* One locked operation of the budget that grants a unit to `prio`, or none.
Locked(grant, prio) ==
  LET fresh(n) == IF Elapsed THEN 0 ELSE n
      one(b)   == IF b THEN 1 ELSE 0 IN
  /\ used' = UsedNow + one(grant)
  /\ age' = fresh(age)
  /\ standard' = fresh(standard) + one(grant /\ prio = "Standard")
  /\ reserved' = fresh(reserved) + one(grant /\ prio = "Reserved")

-----------------------------------------------------------------------------
(* execute_as *)

Enter(p) ==
  /\ pc[p] = "idle"
  /\ \E actor \in Actors : priority' = [priority EXCEPT ![p] = CallPriorityFor(actor)]
  /\ pc' = [pc EXCEPT ![p] = "permit"]
  /\ queue' = Append(queue, p)
  /\ UNCHANGED <<retries, delay, permits, budget, wired>>

\* external: a permit goes to the task that has waited longest.
AcquirePermit(p) ==
  /\ pc[p] = "permit"
  /\ permits > 0
  /\ Head(queue) = p
  /\ queue' = Tail(queue)
  /\ permits' = permits - 1
  /\ pc' = [pc EXCEPT ![p] = "charge"]
  /\ UNCHANGED <<local, budget, wired>>

\* try_acquire, once per logical call.
Charge(p) ==
  LET granted == UsedNow < Cap(priority[p]) IN
  /\ pc[p] = "charge"
  /\ Locked(granted, priority[p])
  /\ pc' = [pc EXCEPT ![p] = IF granted THEN "build" ELSE "denied"]
  /\ wired' = IF Elapsed THEN 0 ELSE wired
  /\ UNCHANGED <<local, sem>>

\* Mutant of Finish: a path out of execute_as forgets its permit.
FinishLeaksPermit(p) ==
  /\ pc' = [pc EXCEPT ![p] = "idle"]
  /\ retries' = [retries EXCEPT ![p] = 0]
  /\ delay' = [delay EXCEPT ![p] = 0]
  /\ priority' = [priority EXCEPT ![p] = "Standard"]
  /\ UNCHANGED <<queue, permits>>

\* execute_as returns, Ok or Err; its locals and _permit are dropped.
Finish(p) ==
  /\ pc' = [pc EXCEPT ![p] = "idle"]
  /\ retries' = [retries EXCEPT ![p] = 0]
  /\ delay' = [delay EXCEPT ![p] = 0]
  /\ priority' = [priority EXCEPT ![p] = "Standard"]
  /\ permits' = permits + 1
  /\ UNCHANGED queue

\* The error is filled in from status(), a second lock of the window.
Deny(p) ==
  /\ pc[p] = "denied"
  /\ Locked(FALSE, priority[p])
  /\ wired' = IF Elapsed THEN 0 ELSE wired
  /\ Finish(p)

\* build_url, the method and the body: an error here is charged all the same.
Build(p) ==
  /\ pc[p] = "build"
  /\ \/ Finish(p)
     \/ pc' = [pc EXCEPT ![p] = "send"] /\ UNCHANGED <<local, sem>>
  /\ UNCHANGED <<budget, wired>>

Send(p) ==
  /\ pc[p] = "send"
  /\ wired' = wired + 1
  /\ pc' = [pc EXCEPT ![p] = "await"]
  /\ UNCHANGED <<local, sem, budget>>

\* A transport error, a 410 or any status but 429 ends the call.
Answered(p) ==
  /\ pc[p] = "await"
  /\ Finish(p)
  /\ UNCHANGED <<budget, wired>>

\* Mutant of RetryWait: Mist decides how long the call sleeps.
RetryWaitUncapped(header, n) == IF header < 0 THEN 2^n ELSE header

\* What the sleep takes: Retry-After if there is one, else the backoff, capped.
RetryWait(header, n) ==
  LET wait == IF header < 0 THEN 2^n ELSE header IN
  IF wait > MaxRetryWait THEN MaxRetryWait ELSE wait

\* Mutant of RateLimited: the retry is not counted.
RateLimitedUncounted(p) ==
  /\ pc[p] = "await"
  /\ \E header \in -1..MaxHeader :
       delay' = [delay EXCEPT ![p] = RetryWait(header, retries[p])]
  /\ pc' = [pc EXCEPT ![p] = "sleep"]
  /\ UNCHANGED <<priority, retries, sem, budget, wired>>

RateLimited(p) ==
  /\ pc[p] = "await"
  /\ \/ retries[p] >= Max429Retries /\ Finish(p)
     \/ /\ retries[p] < Max429Retries
        /\ \E header \in -1..MaxHeader :
             delay' = [delay EXCEPT ![p] = RetryWait(header, retries[p])]
        /\ retries' = [retries EXCEPT ![p] = @ + 1]
        /\ pc' = [pc EXCEPT ![p] = "sleep"]
        /\ UNCHANGED <<priority, sem>>
  /\ UNCHANGED <<budget, wired>>

Wake(p) ==
  /\ pc[p] = "sleep"
  /\ delay[p] = 0
  /\ pc' = [pc EXCEPT ![p] = "send"]
  /\ UNCHANGED <<local, sem, budget, wired>>

\* budget_status: headroom for a tool's output; it may start a new window.
BudgetStatus ==
  /\ Elapsed
  /\ Locked(FALSE, "Standard")
  /\ wired' = 0
  /\ UNCHANGED <<pc, local, sem>>

\* external: a tick of the clock.
Tick ==
  /\ age' = IF Elapsed THEN age ELSE age + 1
  /\ delay' = [p \in Callers |-> IF delay[p] > 0 THEN delay[p] - 1 ELSE 0]
  /\ UNCHANGED <<pc, priority, retries, sem, used, standard, reserved, wired>>

Step(p) ==
  \/ Charge(p) \/ Deny(p) \/ Build(p) \/ Send(p)
  \/ Answered(p) \/ RateLimited(p) \/ Wake(p)

Next ==
  \/ \E p \in Callers : Enter(p) \/ AcquirePermit(p) \/ Step(p)
  \/ BudgetStatus
  \/ Tick

Spec == Init /\ [][Next]_vars

\* Running tasks are polled, requests have a deadline, the clock advances.
Fairness ==
  /\ \A p \in Callers : WF_vars(AcquirePermit(p)) /\ WF_vars(Step(p))
  /\ WF_vars(Tick)

FairSpec == Spec /\ Fairness

-----------------------------------------------------------------------------
(* Properties *)

\* "A human always has headroom even when the standard pool is spent": a
\* Reserved call can be refused only when Reserved calls themselves have used
\* up at least the reserve in this window (try_acquire).
HumanHeadroom ==
  ~Elapsed /\ used >= Cap("Reserved") => reserved >= Reserve

\* Every permit is free or held by exactly one running call, whichever of the
\* exits of execute_as the earlier calls took; so at most max_concurrency
\* calls are past the semaphore.
PermitsConserved ==
  permits + Cardinality({p \in Callers : pc[p] \in HoldPCs}) = MaxConcurrency

\* What Mist sees in one window: the retries are not charged and a call may
\* outlive the window that charged it, but the requests sent since the window
\* started stay within max_429_retries + 1 times the units charged and the
\* permits.
WireBounded ==
  wired <= (Max429Retries + 1) * (used + MaxConcurrency)

\* Every call gets its permit and returns, however many others keep coming,
\* whatever Retry-After Mist sends and even if it answers nothing but 429.
CallReturns == \A p \in Callers : pc[p] = "permit" ~> pc[p] = "idle"

\* Inductive: the pools add up, and Standard calls stay out of the reserve.
\* It is what makes HumanHeadroom hold of try_acquire.
BudgetInv ==
  /\ used \in Nat /\ standard \in Nat /\ reserved \in Nat /\ age \in Nat
  /\ priority \in [Callers -> Priorities]
  /\ used = standard + reserved
  /\ used <= HourlyLimit
  /\ standard <= HourlyLimit - Reserve
=============================================================================
