------------------------ MODULE ValidatorCacheProofs ------------------------
(***************************************************************************)
(* ValidatorCache for any number of threads, slots and jobs: every verdict  *)
(* is the one of the job's own schemas, and no thread compiles twice.      *)
(***************************************************************************)
EXTENDS SchemaValidation, SequenceTheorems, TLAPS

\* An entry is the validator of the slot it is filed under.
CacheSound ==
  \A s \in Slots : cache[s] # None =>
    s \notin Broken /\ cache[s] = [slot |-> s, dir |-> DirectionOf(s)]

\* A thread at work: it has passed the steps behind it, it has failed the
\* alternatives behind it, and what it holds is the current slot's validator.
Placed(t) ==
  /\ job[t] \in Jobs
  /\ step[t] \in DOMAIN Steps[job[t]]
  /\ alt[t] \in DOMAIN Steps[job[t]][step[t]]
Behind(t) ==
  /\ \A i \in 1..(step[t] - 1) : \E a \in DOMAIN Steps[job[t]][i] : Passes(Steps[job[t]][i][a])
  /\ \A a \in 1..(alt[t] - 1) : ~Passes(Steps[job[t]][step[t]][a])
Holding(t) ==
  /\ pc[t] \in {"build", "insert", "judge"} => Current(t).t = "schema"
  /\ pc[t] \in {"insert", "judge"} =>
       /\ Current(t).slot \notin Broken
       /\ held[t] = [slot |-> Current(t).slot, dir |-> DirectionOf(Current(t).slot)]
Working(t) ==
  /\ pc[t] # "idle" => verdict[t] = "none" /\ Placed(t) /\ Behind(t) /\ Holding(t)
  /\ verdict[t] = "ok" => Conforms(job[t])
  /\ verdict[t] = "refused" => ~Conforms(job[t])
  /\ verdict[t] # "none" => job[t] \in Jobs

\* What a thread has compiled is in the cache, but for the moment before it
\* files it; and it goes to compile only what it has not.
Filed(t) ==
  /\ \A s \in built[t] : poisoned \/ cache[s] # None \/ (pc[t] = "insert" /\ Current(t).slot = s)
  /\ pc[t] = "build" => poisoned \/ Current(t).slot \notin built[t]

IInv ==
  /\ CacheTypeOK
  /\ CacheSound
  /\ \A t \in Threads : Working(t) /\ Filed(t)

-----------------------------------------------------------------------------

\* ValidatorKey is the slot itself, so the cache has one entry per slot.
LEMMA KeysAreSlots == Keys = Slots
BY DEF Keys, ValidatorKey

\* The direction of a slot is one of the two.
LEMMA DirectionTyped == \A s : DirectionOf(s) \in Directions
BY DEF DirectionOf, Directions

\* The alternative a thread is at is one of the declared kinds.
LEMMA CurrentTyped ==
  ASSUME NEW t \in Threads, Placed(t)
  PROVE  /\ Steps[job[t]] \in Seq(Seq(Alternatives))
         /\ Steps[job[t]][step[t]] \in Seq(Alternatives)
         /\ Current(t) \in Alternatives
         /\ Current(t).t = "flag" => Current(t).ok \in BOOLEAN
         /\ Current(t).t = "schema" => Current(t).slot \in Slots
         /\ step[t] \in 1..Len(Steps[job[t]])
         /\ alt[t] \in 1..Len(Steps[job[t]][step[t]])
<1>1. Steps[job[t]] \in Seq(Seq(Alternatives))
  BY CacheAssumption DEF Placed
<1>2. Steps[job[t]][step[t]] \in Seq(Alternatives)
  BY <1>1 DEF Placed
<1>3. Current(t) \in Alternatives
  BY <1>2 DEF Placed, Current
<1>4. /\ Current(t).t = "flag" => Current(t).ok \in BOOLEAN
      /\ Current(t).t = "schema" => Current(t).slot \in Slots
  BY <1>3 DEF Alternatives
<1>5. /\ step[t] \in 1..Len(Steps[job[t]])
      /\ alt[t] \in 1..Len(Steps[job[t]][step[t]])
  BY <1>1, <1>2 DEF Placed
<1> QED BY <1>1, <1>2, <1>3, <1>4, <1>5

\* Positions in a sequence of length n: the one after i, and those before n.
LEMMA Positions ==
  ASSUME NEW n \in Nat, NEW i \in 1..n, i # n
  PROVE  i + 1 \in 1..n /\ i \in 1..(n - 1)
OBVIOUS

\* Deciding an alternative by what it really is keeps the thread's invariant:
\* it moves on, or it ends with the right verdict.
LEMMA DecideCorrect ==
  ASSUME NEW t \in Threads, CacheTypeOK, Working(t), pc[t] # "idle",
         NEW ok \in BOOLEAN, ok <=> Passes(Current(t)),
         Decide(t, ok), job' = job
  PROVE  /\ Working(t)'
         /\ pc'[t] \in {"idle", "check"}
<1> DEFINE j == job[t]
<1>0. /\ Placed(t) /\ Behind(t) /\ verdict[t] = "none"
  BY DEF Working
<1>1. /\ Steps[j] \in Seq(Seq(Alternatives)) /\ Steps[j][step[t]] \in Seq(Alternatives)
      /\ step[t] \in 1..Len(Steps[j]) /\ alt[t] \in 1..Len(Steps[j][step[t]])
  BY <1>0, CurrentTyped
<1>2. /\ DOMAIN Steps[j] = 1..Len(Steps[j])
      /\ DOMAIN Steps[j][step[t]] = 1..Len(Steps[j][step[t]])
      /\ Len(Steps[j]) \in Nat /\ Len(Steps[j][step[t]]) \in Nat
  BY <1>1
<1>3. CASE ok /\ step[t] # Len(Steps[j])
  <2>1. /\ step' = [step EXCEPT ![t] = step[t] + 1] /\ alt' = [alt EXCEPT ![t] = 1]
        /\ pc' = [pc EXCEPT ![t] = "check"] /\ verdict' = verdict
    BY <1>3 DEF Decide
  <2>2. step'[t] = step[t] + 1 /\ alt'[t] = 1 /\ pc'[t] = "check" /\ verdict'[t] = "none" /\ job'[t] = j
    BY <2>1, <1>0 DEF CacheTypeOK
  <2>3. step[t] + 1 \in DOMAIN Steps[j]
    BY <1>1, <1>2, <1>3, Positions, Zenon
  <2>4. Steps[j][step[t] + 1] # <<>> /\ Steps[j][step[t] + 1] \in Seq(Alternatives)
    BY <2>3, <1>0, <1>1, CacheAssumption DEF Placed
  <2>5. Placed(t)'
    BY <2>2, <2>3, <2>4, <1>0 DEF Placed
  <2>6. Passes(Steps[j][step[t]][alt[t]])
    BY <1>3 DEF Current
  <2>7. Behind(t)'
    <3>1. \A i \in 1..step[t] : \E a \in DOMAIN Steps[j][i] : Passes(Steps[j][i][a])
      <4> TAKE i \in 1..step[t]
      <4>1. CASE i = step[t]
        BY <4>1, <2>6, <1>0 DEF Placed
      <4>2. CASE i # step[t]
        <5>1. i \in 1..(step[t] - 1)
          BY <4>2, <1>1
        <5> QED BY <5>1, <1>0 DEF Behind
      <4> QED BY <4>1, <4>2
    <3>2. step'[t] - 1 = step[t] /\ alt'[t] - 1 = 0
      BY <2>2, <1>1
    <3> QED BY <3>1, <3>2, <2>2 DEF Behind, Passes, Valid
  <2> QED BY <2>2, <2>5, <2>7 DEF Working, Holding
<1>4. CASE ~ok /\ alt[t] # Len(Steps[j][step[t]])
  <2>1. /\ alt' = [alt EXCEPT ![t] = alt[t] + 1] /\ step' = step
        /\ pc' = [pc EXCEPT ![t] = "check"] /\ verdict' = verdict
    BY <1>4 DEF Decide
  <2>2. alt'[t] = alt[t] + 1 /\ step'[t] = step[t] /\ pc'[t] = "check" /\ verdict'[t] = "none" /\ job'[t] = j
    BY <2>1, <1>0 DEF CacheTypeOK
  <2>3. Placed(t)'
    <3>1. alt[t] + 1 \in DOMAIN Steps[j][step[t]]
      BY <1>1, <1>2, <1>4, Positions, Zenon
    <3> QED BY <3>1, <2>2, <1>0 DEF Placed
  <2>4. ~Passes(Steps[j][step[t]][alt[t]])
    BY <1>4, Zenon DEF Current
  <2>5. Behind(t)'
    <3>1. \A a \in 1..alt[t] : ~Passes(Steps[j][step[t]][a])
      <4> TAKE a \in 1..alt[t]
      <4>1. CASE a = alt[t]
        BY <4>1, <2>4
      <4>2. CASE a # alt[t]
        <5>1. a \in 1..(alt[t] - 1)
          BY <4>2, <1>1
        <5> QED BY <5>1, <1>0 DEF Behind
      <4> QED BY <4>1, <4>2
    <3>2. alt'[t] - 1 = alt[t]
      BY <2>2, <1>1
    <3>3. \A i \in 1..(step[t] - 1) : \E a \in DOMAIN Steps[j][i] : Passes(Steps[j][i][a])
      BY <1>0 DEF Behind
    <3>4. /\ \A i \in 1..(step'[t] - 1) : \E a \in DOMAIN Steps[job'[t]][i] :
                                            Passes(Steps[job'[t]][i][a])
          /\ \A a \in 1..(alt'[t] - 1) : ~Passes(Steps[job'[t]][step'[t]][a])
      BY <3>1, <3>2, <3>3, <2>2, Zenon
    <3> QED BY <3>4 DEF Behind, Passes, Valid
  <2> QED BY <2>2, <2>3, <2>5 DEF Working, Holding
<1>5. CASE (ok /\ step[t] = Len(Steps[j])) \/ (~ok /\ alt[t] = Len(Steps[j][step[t]]))
  <2>1. /\ verdict' = [verdict EXCEPT ![t] = IF ok THEN "ok" ELSE "refused"]
        /\ pc' = [pc EXCEPT ![t] = "idle"]
    BY <1>5 DEF Decide
  <2>2. /\ verdict'[t] = IF ok THEN "ok" ELSE "refused"
        /\ pc'[t] = "idle" /\ job'[t] = j
    BY <2>1 DEF CacheTypeOK
  <2>3. CASE ok
    <3>1. step[t] \in Nat /\ DOMAIN Steps[j] = 1..step[t]
      BY <1>5, <2>3, <1>2
    <3>2. \A i \in 1..step[t] : \E a \in DOMAIN Steps[j][i] : Passes(Steps[j][i][a])
      <4> TAKE i \in 1..step[t]
      <4>1. CASE i = step[t]
        BY <4>1, <2>3, <1>0 DEF Placed, Current
      <4>2. CASE i # step[t]
        <5>1. i \in 1..(step[t] - 1)
          BY <4>2, <1>1
        <5> QED BY <5>1, <1>0 DEF Behind
      <4> QED BY <4>1, <4>2
    <3>3. Conforms(j)
      BY <3>1, <3>2, SMTT(40) DEF Conforms
    <3>4. job'[t] \in Jobs
      BY <2>2, <1>0 DEF Placed
    <3> QED BY <3>3, <3>4, <2>2, <2>3, ZenonT(40) DEF Working, Conforms, Passes, Valid
  <2>4. CASE ~ok
    <3>1. alt[t] \in Nat /\ DOMAIN Steps[j][step[t]] = 1..alt[t]
      BY <1>5, <2>4, <1>2
    <3>2. \A a \in 1..alt[t] : ~Passes(Steps[j][step[t]][a])
      <4> TAKE a \in 1..alt[t]
      <4>1. CASE a = alt[t]
        BY <4>1, <2>4 DEF Current
      <4>2. CASE a # alt[t]
        <5>1. a \in 1..(alt[t] - 1)
          BY <4>2, <1>1
        <5> QED BY <5>1, <1>0 DEF Behind
      <4> QED BY <4>1, <4>2
    <3>3. ~Conforms(j)
      BY <3>1, <3>2, <1>0 DEF Conforms, Placed
    <3>4. job'[t] \in Jobs
      BY <2>2, <1>0 DEF Placed
    <3> QED BY <3>3, <3>4, <2>2, <2>4 DEF Working, Conforms, Passes, Valid
  <2> QED BY <2>3, <2>4
<1> QED BY <1>3, <1>4, <1>5

\* Types through Decide.
LEMMA DecideTyped ==
  ASSUME NEW t \in Threads, CacheTypeOK, NEW ok \in BOOLEAN, Decide(t, ok),
         UNCHANGED <<cache, poisoned, job, built, calls>>
  PROVE  CacheTypeOK'
<1>1. held' \in [Threads -> Validators \cup {None}]
  BY DEF Decide, CacheTypeOK
<1>2. /\ pc' \in [Threads -> {"idle", "check", "build", "insert", "judge"}]
      /\ step' \in [Threads -> Nat] /\ alt' \in [Threads -> Nat]
  <2>1. pc' \in {[pc EXCEPT ![t] = "check"], [pc EXCEPT ![t] = "idle"]}
    BY DEF Decide
  <2>2. step' \in {step, [step EXCEPT ![t] = step[t] + 1]}
    BY DEF Decide
  <2>3. alt' \in {alt, [alt EXCEPT ![t] = 1], [alt EXCEPT ![t] = alt[t] + 1]}
    BY DEF Decide
  <2> QED BY <2>1, <2>2, <2>3 DEF CacheTypeOK
<1>3. verdict' \in [Threads -> {"none", "ok", "refused"}]
  BY DEF Decide, CacheTypeOK
<1> QED BY <1>1, <1>2, <1>3 DEF CacheTypeOK

\* What a step of one thread leaves alone in another.
Untouched(u) ==
  /\ pc'[u] = pc[u] /\ job'[u] = job[u] /\ step'[u] = step[u] /\ alt'[u] = alt[u]
  /\ held'[u] = held[u] /\ verdict'[u] = verdict[u] /\ built'[u] = built[u]

\* Entries and the poison of the lock stay.
CacheGrows ==
  /\ poisoned => poisoned'
  /\ \A s \in Slots : cache[s] # None => cache'[s] # None

\* A thread that is not touched keeps its invariant.
LEMMA UntouchedKeeps ==
  ASSUME NEW u \in Threads, CacheTypeOK, Working(u), Filed(u), Untouched(u), CacheGrows
  PROVE  Working(u)' /\ Filed(u)'
<1>1. Current(u)' = Current(u)
  BY DEF Current, Untouched
<1>2. Working(u)'
  <2>1. Placed(u)' = Placed(u)
    BY DEF Untouched, Placed
  <2>2. Behind(u)' = Behind(u)
    BY DEF Untouched, Behind, Passes, Valid
  <2>3. Holding(u)' = Holding(u)
    BY <1>1 DEF Untouched, Holding
  <2>4. Conforms(job[u])' = Conforms(job[u])
    BY DEF Untouched, Conforms, Passes, Valid
  <2> QED BY <2>1, <2>2, <2>3, <2>4 DEF Untouched, Working
<1>3. built[u] \subseteq Slots
  BY DEF CacheTypeOK
<1>4. Filed(u)'
  BY <1>1, <1>3 DEF Untouched, Filed, CacheGrows
<1> QED BY <1>2, <1>4

\* A decision, as a step of the whole system.
LEMMA DecideStep ==
  ASSUME IInv, NEW t \in Threads, pc[t] # "idle", NEW ok \in BOOLEAN,
         ok <=> Passes(Current(t)), pc[t] # "insert",
         Decide(t, ok), UNCHANGED <<cache, poisoned, job, built, calls>>
  PROVE  IInv'
<1>1. CacheTypeOK'
  BY DecideTyped DEF IInv
<1>2. CacheSound'
  BY DEF IInv, CacheSound
<1>3. Working(t)' /\ pc'[t] \in {"idle", "check"}
  BY DecideCorrect DEF IInv
<1>4. Filed(t)'
  BY <1>3 DEF IInv, Filed
<1>5. \A u \in Threads : u # t => Untouched(u)
  BY DEF Decide, Untouched, IInv, CacheTypeOK
<1>6. CacheGrows
  BY DEF CacheGrows
<1>7. \A u \in Threads : u # t => Working(u)' /\ Filed(u)'
  BY <1>5, <1>6, UntouchedKeeps DEF IInv
<1> QED BY <1>1, <1>2, <1>3, <1>4, <1>7 DEF IInv

-----------------------------------------------------------------------------
(* One lemma per action *)

\* Nothing is cached and nobody works.
LEMMA InitInv == Init => IInv
<1> SUFFICES ASSUME Init PROVE IInv
  OBVIOUS
<1>1. CacheTypeOK
  <2>1. cache \in [Keys -> Validators \cup {None}] /\ held \in [Threads -> Validators \cup {None}]
    BY DEF Init
  <2>2. calls \in 0..MaxCalls
    BY CacheAssumption DEF Init
  <2>3. job \in [Threads -> Jobs \cup {None}] /\ built \in [Threads -> SUBSET Slots]
    BY DEF Init
  <2> QED BY <2>1, <2>2, <2>3 DEF Init, CacheTypeOK
<1>2. CacheSound
  BY KeysAreSlots DEF Init, CacheSound
<1>3. \A t \in Threads : Working(t) /\ Filed(t)
  BY DEF Init, Working, Filed
<1> QED BY <1>1, <1>2, <1>3 DEF IInv

\* A validation starts at its first alternative, or ends at once.
LEMMA BeginInv ==
  ASSUME IInv, NEW t \in Threads, NEW j \in Jobs, Begin(t, j)
  PROVE  IInv'
<1>0. CacheTypeOK /\ CacheSound /\ Working(t) /\ Filed(t)
  BY DEF IInv
<1>1. CacheTypeOK'
  BY <1>0, CacheAssumption DEF Begin, CacheTypeOK
<1>2. CacheSound'
  BY <1>0 DEF Begin, CacheSound
<1>3. /\ job'[t] = j /\ step'[t] = 1 /\ alt'[t] = 1 /\ pc[t] = "idle" /\ built' = built
      /\ pc'[t] = IF Steps[j] = <<>> THEN "idle" ELSE "check"
      /\ verdict'[t] = IF Steps[j] = <<>> THEN "ok" ELSE "none"
  BY <1>0 DEF Begin, CacheTypeOK
<1>4. Steps[j] \in Seq(Seq(Alternatives))
  BY CacheAssumption
<1>5. Working(t)'
  <2>1. CASE Steps[j] = <<>>
    BY <2>1, <1>3 DEF Working, Conforms
  <2>2. CASE Steps[j] # <<>>
    <3>1. 1 \in DOMAIN Steps[j]
      BY <2>2, <1>4
    <3>2. Steps[j][1] # <<>> /\ Steps[j][1] \in Seq(Alternatives)
      BY <3>1, <1>4, CacheAssumption
    <3>3. Placed(t)'
      BY <3>1, <3>2, <1>3 DEF Placed
    <3>4. Behind(t)'
      BY <1>3 DEF Behind
    <3> QED BY <3>3, <3>4, <2>2, <1>3 DEF Working, Holding
  <2> QED BY <2>1, <2>2
<1>6. Filed(t)'
  BY <1>0, <1>3 DEF Filed, Begin
<1>7. CacheGrows /\ \A u \in Threads : u # t => Untouched(u)
  BY <1>0 DEF Begin, CacheGrows, Untouched, CacheTypeOK
<1>8. \A u \in Threads : u # t => Working(u)' /\ Filed(u)'
  BY <1>7, UntouchedKeeps DEF IInv
<1> QED BY <1>1, <1>2, <1>5, <1>6, <1>8 DEF IInv

\* A flag is decided by what it says.
LEMMA CheckFlagInv ==
  ASSUME IInv, NEW t \in Threads, CheckFlag(t)
  PROVE  IInv'
<1>1. pc[t] = "check" /\ Current(t).t = "flag"
  BY DEF CheckFlag
<1>2. Placed(t)
  BY <1>1 DEF IInv, Working
<1>3. Current(t).ok \in BOOLEAN
  BY <1>1, <1>2, CurrentTyped
<1>4. Current(t).ok <=> Passes(Current(t))
  BY <1>1 DEF Passes
<1> QED BY <1>1, <1>3, <1>4, DecideStep DEF CheckFlag

\* A schema that does not compile admits nothing.
LEMMA BuildFailsInv ==
  ASSUME IInv, NEW t \in Threads, BuildFails(t)
  PROVE  IInv'
<1>1. pc[t] = "build" /\ Current(t).t = "schema" /\ Current(t).slot \in Broken
  BY DEF BuildFails, OnSchema
<1>2. FALSE <=> Passes(Current(t))
  BY <1>1 DEF Passes, Valid
<1> QED BY <1>1, <1>2, DecideStep DEF BuildFails

\* The verdict on a value is that of the current slot's validator.
LEMMA JudgeInv ==
  ASSUME IInv, NEW t \in Threads, Judge(t)
  PROVE  IInv'
<1> DEFINE ok == <<held[t].slot, held[t].dir, Current(t).value>> \in Admits
<1>1. pc[t] = "judge" /\ Current(t).t = "schema"
  BY DEF Judge, OnSchema
<1>2. Holding(t)
  BY <1>1 DEF IInv, Working
<1>3. held[t].slot = Current(t).slot /\ held[t].dir = DirectionOf(Current(t).slot)
  BY <1>1, <1>2 DEF Holding
<1>4. ok <=> Passes(Current(t))
  BY <1>1, <1>2, <1>3 DEF Passes, Valid, Holding
<1>5. ok \in BOOLEAN
  OBVIOUS
<1> HIDE DEF ok
<1>6. Decide(t, ok) /\ UNCHANGED <<cache, poisoned, job, built, calls>>
  BY DEF Judge, ok
<1> QED BY <1>1, <1>4, <1>5, <1>6, DecideStep

\* An entry is the validator of the slot that is looked up.
LEMMA HitInv ==
  ASSUME IInv, NEW t \in Threads, Hit(t)
  PROVE  IInv'
<1> DEFINE s == Current(t).slot
<1>0. CacheTypeOK /\ CacheSound /\ Working(t) /\ Filed(t)
  BY DEF IInv
<1>1. pc[t] = "check" /\ Current(t).t = "schema" /\ cache[s] # None
  BY DEF Hit, OnSchema, ValidatorKey
<1>2. Placed(t) /\ Behind(t) /\ verdict[t] = "none"
  BY <1>0, <1>1 DEF Working
<1>3. s \in Slots
  BY <1>1, <1>2, CurrentTyped
<1>4. cache[s] = [slot |-> s, dir |-> DirectionOf(s)] /\ s \notin Broken
  BY <1>0, <1>1, <1>3 DEF CacheSound
<1>5. /\ pc'[t] = "judge" /\ held'[t] = cache[s] /\ job' = job /\ step' = step /\ alt' = alt
      /\ verdict' = verdict /\ built' = built /\ cache' = cache /\ poisoned' = poisoned
  BY <1>0 DEF Hit, CacheTypeOK, ValidatorKey
<1>6. Current(t)' = Current(t)
  BY <1>5 DEF Current
<1>7. CacheTypeOK' /\ CacheSound'
  <2>1. cache[s] \in Validators \cup {None}
    BY <1>0, <1>3, KeysAreSlots DEF CacheTypeOK
  <2> QED BY <2>1, <1>0 DEF Hit, CacheTypeOK, CacheSound, ValidatorKey
<1>8. Working(t)'
  <2>1. Placed(t)' /\ Behind(t)'
    BY <1>2, <1>5 DEF Placed, Behind, Passes, Valid
  <2>2. Holding(t)'
    BY <1>1, <1>4, <1>5, <1>6 DEF Holding
  <2> QED BY <2>1, <2>2, <1>2, <1>5, SMTT(40) DEF Working
<1>9. Filed(t)'
  BY <1>0, <1>1, <1>5 DEF Filed
<1>10. CacheGrows /\ \A u \in Threads : u # t => Untouched(u)
  BY <1>0 DEF Hit, CacheGrows, Untouched, CacheTypeOK
<1>11. \A u \in Threads : u # t => Working(u)' /\ Filed(u)'
  BY <1>10, UntouchedKeeps DEF IInv
<1> QED BY <1>7, <1>8, <1>9, <1>11 DEF IInv
\* A thread that misses has not compiled this slot, unless the lock is poisoned.
LEMMA MissInv ==
  ASSUME IInv, NEW t \in Threads, Miss(t)
  PROVE  IInv'
<1> DEFINE s == Current(t).slot
<1>0. CacheTypeOK /\ CacheSound /\ Working(t) /\ Filed(t)
  BY DEF IInv
<1>1. pc[t] = "check" /\ Current(t).t = "schema" /\ (poisoned \/ cache[s] = None)
  BY DEF Miss, OnSchema, ValidatorKey
<1>2. Placed(t) /\ Behind(t) /\ verdict[t] = "none"
  BY <1>0, <1>1 DEF Working
<1>3. pc'[t] = "build" /\ UNCHANGED <<cache, poisoned, job, step, alt, held, verdict, built, calls>>
  BY <1>0 DEF Miss, CacheTypeOK
<1>4. Current(t)' = Current(t)
  BY <1>3 DEF Current
<1>5. CacheTypeOK' /\ CacheSound'
  BY <1>0 DEF Miss, CacheTypeOK, CacheSound
<1>6. Working(t)'
  <2>1. Placed(t)' /\ Behind(t)'
    BY <1>2, <1>3 DEF Placed, Behind, Passes, Valid
  <2>2. Holding(t)'
    BY <1>1, <1>3, <1>4 DEF Holding
  <2> QED BY <2>1, <2>2, <1>2, <1>3, SMTT(40) DEF Working
<1>7. Filed(t)'
  BY <1>0, <1>1, <1>3, <1>4 DEF Filed
<1>8. CacheGrows /\ \A u \in Threads : u # t => Untouched(u)
  BY <1>0 DEF Miss, CacheGrows, Untouched, CacheTypeOK
<1>9. \A u \in Threads : u # t => Working(u)' /\ Filed(u)'
  BY <1>8, UntouchedKeeps DEF IInv
<1> QED BY <1>5, <1>6, <1>7, <1>9 DEF IInv

\* The validator is built from the current slot, in its direction.
LEMMA BuildInv ==
  ASSUME IInv, NEW t \in Threads, Build(t)
  PROVE  IInv'
<1> DEFINE s == Current(t).slot
           v == [slot |-> s, dir |-> DirectionOf(s)]
<1>0. CacheTypeOK /\ CacheSound /\ Working(t) /\ Filed(t)
  BY DEF IInv
<1>1. pc[t] = "build" /\ Current(t).t = "schema" /\ s \notin Broken
  BY DEF Build, OnSchema
<1>2. Placed(t) /\ Behind(t) /\ verdict[t] = "none"
  BY <1>0, <1>1 DEF Working
<1>3. s \in Slots /\ v \in Validators
  BY <1>1, <1>2, CurrentTyped, DirectionTyped DEF Validators
<1>4. /\ pc' = [pc EXCEPT ![t] = "insert"] /\ held' = [held EXCEPT ![t] = v]
      /\ built' = [built EXCEPT ![t] = built[t] \cup {s}]
      /\ UNCHANGED <<cache, poisoned, job, step, alt, verdict, calls>>
  BY DEF Build
<1>5. pc'[t] = "insert" /\ held'[t] = v /\ built'[t] = built[t] \cup {s}
  BY <1>0, <1>4 DEF CacheTypeOK
<1>6. Current(t)' = Current(t)
  BY <1>4 DEF Current
<1>7. CacheTypeOK' /\ CacheSound'
  <2>1. built' \in [Threads -> SUBSET Slots] /\ held' \in [Threads -> Validators \cup {None}]
    BY <1>0, <1>3, <1>4 DEF CacheTypeOK
  <2> QED BY <2>1, <1>0, <1>4 DEF CacheTypeOK, CacheSound
<1>8. Working(t)'
  <2>1. Placed(t)' /\ Behind(t)'
    BY <1>2, <1>4 DEF Placed, Behind, Passes, Valid
  <2>2. Holding(t)'
    BY <1>1, <1>5, <1>6 DEF Holding
  <2> QED BY <2>1, <2>2, <1>2, <1>4, <1>5, SMTT(40) DEF Working
<1>9. Filed(t)'
  BY <1>0, <1>1, <1>4, <1>5, <1>6 DEF Filed
<1>10. CacheGrows /\ \A u \in Threads : u # t => Untouched(u)
  BY <1>0, <1>4 DEF CacheGrows, Untouched, CacheTypeOK
<1>11. \A u \in Threads : u # t => Working(u)' /\ Filed(u)'
  BY <1>10, UntouchedKeeps DEF IInv
<1> QED BY <1>7, <1>8, <1>9, <1>11 DEF IInv

\* An entry is added once and never replaced.
LEMMA InsertInv ==
  ASSUME IInv, NEW t \in Threads, Insert(t)
  PROVE  IInv'
<1> DEFINE s == Current(t).slot
<1>0. CacheTypeOK /\ CacheSound /\ Working(t) /\ Filed(t)
  BY DEF IInv
<1>1. pc[t] = "insert" /\ Current(t).t = "schema"
  BY DEF Insert, OnSchema
<1>2. Placed(t) /\ Behind(t) /\ verdict[t] = "none" /\ Holding(t)
  BY <1>0, <1>1 DEF Working
<1>3. s \in Slots /\ s \notin Broken /\ held[t] = [slot |-> s, dir |-> DirectionOf(s)]
  BY <1>1, <1>2, CurrentTyped DEF Holding
<1>4. held[t] \in Validators /\ held[t] # None
  BY <1>3, DirectionTyped, CacheAssumption DEF Validators
<1>5. /\ cache' = IF poisoned \/ cache[s] # None THEN cache ELSE [cache EXCEPT ![s] = held[t]]
      /\ pc' = [pc EXCEPT ![t] = "judge"]
      /\ UNCHANGED <<poisoned, job, step, alt, held, verdict, built, calls>>
  BY SMTT(40) DEF Insert, ValidatorKey
<1>6. pc'[t] = "judge" /\ Current(t)' = Current(t)
  BY <1>0, <1>5 DEF CacheTypeOK, Current
<1>7. cache \in [Slots -> Validators \cup {None}]
  BY <1>0, KeysAreSlots DEF CacheTypeOK
<1>8. CacheTypeOK'
  <2>1. cache' \in [Keys -> Validators \cup {None}]
    BY <1>3, <1>4, <1>5, <1>7, KeysAreSlots
  <2> QED BY <2>1, <1>0, <1>5 DEF CacheTypeOK
<1>9. CacheSound'
  BY <1>0, <1>3, <1>5, <1>7 DEF CacheSound
<1>10. Working(t)'
  <2>1. Placed(t)' /\ Behind(t)'
    BY <1>2, <1>5 DEF Placed, Behind, Passes, Valid
  <2>2. Holding(t)'
    BY <1>1, <1>2, <1>5, <1>6 DEF Holding
  <2> QED BY <2>1, <2>2, <1>2, <1>5, <1>6, SMTT(40) DEF Working
<1>11. CacheGrows
  BY <1>3, <1>4, <1>5, <1>7 DEF CacheGrows
<1>12. poisoned' \/ cache'[s] # None
  BY <1>3, <1>4, <1>5, <1>7
<1>13. Filed(t)'
  <2>1. built'[t] = built[t] /\ built[t] \subseteq Slots
    BY <1>0, <1>5 DEF CacheTypeOK
  <2>2. \A x \in built[t] : poisoned' \/ cache'[x] # None
    BY <2>1, <1>0, <1>11, <1>12 DEF Filed, CacheGrows
  <2> QED BY <2>1, <2>2, <1>6 DEF Filed
<1>14. \A u \in Threads : u # t => Untouched(u)
  BY <1>0, <1>5 DEF Untouched, CacheTypeOK
<1>15. \A u \in Threads : u # t => Working(u)' /\ Filed(u)'
  BY <1>11, <1>14, UntouchedKeeps DEF IInv
<1> QED BY <1>8, <1>9, <1>10, <1>13, <1>15 DEF IInv

\* A poisoned lock invalidates no entry and no thread.
LEMMA PoisonInv ==
  ASSUME IInv, Poison
  PROVE  IInv'
<1>1. CacheTypeOK' /\ CacheSound'
  BY DEF IInv, Poison, CacheTypeOK, CacheSound
<1>2. CacheGrows /\ \A u \in Threads : Untouched(u)
  BY DEF Poison, CacheGrows, Untouched
<1>3. \A u \in Threads : Working(u)' /\ Filed(u)'
  BY <1>2, UntouchedKeeps DEF IInv
<1> QED BY <1>1, <1>3 DEF IInv

-----------------------------------------------------------------------------
(* Theorems *)

\* A stuttering step changes nothing the invariant speaks of.
LEMMA StutterInv == IInv /\ UNCHANGED vars => IInv'
<1> SUFFICES ASSUME IInv, UNCHANGED vars PROVE IInv'
  OBVIOUS
<1>1. CacheTypeOK' /\ CacheSound'
  BY DEF IInv, vars, CacheTypeOK, CacheSound
<1>2. CacheGrows /\ \A u \in Threads : Untouched(u)
  BY DEF vars, CacheGrows, Untouched
<1>3. \A u \in Threads : Working(u)' /\ Filed(u)'
  BY <1>2, UntouchedKeeps DEF IInv
<1> QED BY <1>1, <1>3 DEF IInv

\* The invariant is inductive: every action of Next and every stutter keep it.
THEOREM CacheInvariant == Spec => []IInv
<1>1. Init => IInv
  BY InitInv
<1>2. IInv /\ [Next]_vars => IInv'
  <2> SUFFICES ASSUME IInv, [Next]_vars PROVE IInv'
    OBVIOUS
  <2>1. CASE \E t \in Threads : \E j \in Jobs : Begin(t, j)
    BY <2>1, BeginInv
  <2>2. CASE \E t \in Threads : ThreadStep(t)
    BY <2>2, CheckFlagInv, HitInv, MissInv, BuildInv, BuildFailsInv, InsertInv, JudgeInv DEF ThreadStep
  <2>3. CASE Poison
    BY <2>3, PoisonInv
  <2>4. CASE UNCHANGED vars
    BY <2>4, StutterInv
  <2> QED BY <2>1, <2>2, <2>3, <2>4 DEF Next
<1> QED BY <1>1, <1>2, PTL DEF Spec

\* Types of the cache and of every thread's state.
THEOREM CacheTypeCorrect == Spec => []CacheTypeOK
<1>1. IInv => CacheTypeOK
  BY DEF IInv
<1> QED BY <1>1, CacheInvariant, PTL

\* For any catalog, any number of threads and any interleaving, a validation
\* ends with the verdict of its own schemas in their own direction.
THEOREM VerdictsAreOwn == Spec => []VerdictExact
<1>1. IInv => VerdictExact
  BY DEF IInv, Working, VerdictExact
<1> QED BY <1>1, CacheInvariant, PTL

\* Concurrent misses apart, a schema is compiled once per thread.
THEOREM CompiledOncePerThread == Spec => []NoRecompile
<1>1. IInv => NoRecompile
  BY DEF IInv, Filed, NoRecompile, OnSchema
<1> QED BY <1>1, CacheInvariant, PTL
-----------------------------------------------------------------------------

\* Every step of a sequence of steps is met: Conforms, of any steps.
Met(steps) == \A i \in DOMAIN steps : \E a \in DOMAIN steps[i] : Passes(steps[i][a])

\* A settled alternative passes as it was settled.
LEMMA SettledPasses == ASSUME NEW ok \in BOOLEAN PROVE Passes(Settled(ok)) = ok
BY DEF Passes, Settled

\* A check of a value passes when its schema admits the value.
LEMMA CheckPasses ==
  ASSUME NEW slot, NEW v PROVE Passes(Check(slot, v)) <=> Valid(slot, v)
BY DEF Passes, Check

\* A flag is a step that is met when it is set.
LEMMA FlagMet ==
  ASSUME NEW ok \in BOOLEAN
  PROVE  (\E a \in DOMAIN Flag(ok) : Passes(Flag(ok)[a])) <=> ok
BY SettledPasses DEF Flag

\* A sequence of steps, whatever they are.
IsSequence(steps) == \E n \in Nat : steps = [i \in 1..n |-> steps[i]]

\* Two sequences of steps, one after the other.
LEMMA MetBoth ==
  ASSUME NEW A, NEW B, IsSequence(A), IsSequence(B)
  PROVE  IsSequence(A \o B) /\ (Met(A \o B) <=> Met(A) /\ Met(B))
<1> PICK m \in Nat : A = [i \in 1..m |-> A[i]]
  BY DEF IsSequence
<1> PICK n \in Nat : B = [i \in 1..n |-> B[i]]
  BY DEF IsSequence
<1> DEFINE T == {A[i] : i \in 1..m} \cup {B[i] : i \in 1..n}
<1>1. A \in [1..m -> T] /\ B \in [1..n -> T]
  OBVIOUS
<1> HIDE DEF T
<1>2. A \in Seq(T) /\ B \in Seq(T) /\ Len(A) = m /\ Len(B) = n
  <2>1. A \in Seq(T) /\ DOMAIN A = 1..m
    BY <1>1
  <2>2. B \in Seq(T) /\ DOMAIN B = 1..n
    BY <1>1
  <2> QED BY <2>1, <2>2, LenProperties
<1>3. /\ A \o B \in Seq(T) /\ Len(A \o B) = m + n
      /\ \A i \in 1..(m + n) : (A \o B)[i] = IF i <= m THEN A[i] ELSE B[i - m]
  BY <1>2, ConcatProperties
<1>4. DOMAIN A = 1..m /\ DOMAIN B = 1..n /\ DOMAIN (A \o B) = 1..(m + n)
  BY <1>1, <1>3
<1>5. ASSUME Met(A), Met(B) PROVE Met(A \o B)
  <2> SUFFICES ASSUME NEW i \in 1..(m + n)
               PROVE  \E a \in DOMAIN (A \o B)[i] : Passes((A \o B)[i][a])
    BY <1>4 DEF Met
  <2>1. CASE i <= m
    <3>1. i \in 1..m /\ (A \o B)[i] = A[i]
      BY <1>3, <2>1
    <3> QED BY <3>1, <1>4, <1>5 DEF Met
  <2>2. CASE i > m
    <3>1. i - m \in 1..n /\ (A \o B)[i] = B[i - m]
      BY <1>3, <2>2
    <3> QED BY <3>1, <1>4, <1>5 DEF Met
  <2>3. i <= m \/ i > m
    OBVIOUS
  <2> QED BY <2>1, <2>2, <2>3, Zenon
<1>6. ASSUME Met(A \o B) PROVE Met(A) /\ Met(B)
  <2>1. ASSUME NEW i \in 1..m PROVE \E a \in DOMAIN A[i] : Passes(A[i][a])
    <3>1. i \in 1..(m + n) /\ (A \o B)[i] = A[i]
      BY <1>3
    <3> QED BY <3>1, <1>4, <1>6 DEF Met
  <2>2. ASSUME NEW i \in 1..n PROVE \E a \in DOMAIN B[i] : Passes(B[i][a])
    <3>1. i + m \in 1..(m + n) /\ (i + m) - m = i /\ ~(i + m <= m)
      OBVIOUS
    <3>2. (A \o B)[i + m] = B[i]
      BY <1>3, <3>1
    <3> QED BY <3>1, <3>2, <1>4, <1>6 DEF Met
  <2> QED BY <2>1, <2>2, <1>4 DEF Met
<1>7. IsSequence(A \o B)
  <2>1. A \o B = [i \in 1..(m + n) |-> (A \o B)[i]] /\ m + n \in Nat
    BY <1>3
  <2> QED BY <2>1 DEF IsSequence
<1> QED BY <1>5, <1>6, <1>7

\* The steps of one location: nothing undeclared is supplied, and each declared
\* parameter has a valid value or may be missing.
LEMMA ParametersMet ==
  ASSUME NEW r, r.op \in Ops, NEW l \in Locations
  PROVE  LET given == Supplied(r, l) IN
         /\ IsSequence(ParameterSteps(r, l))
         /\ Met(ParameterSteps(r, l)) <=>
              /\ DOMAIN given \subseteq Names(r.op, l)
              /\ \A i \in Declared(r.op, l) :
                   LET p == Parameters[r.op][i] IN
                   IF p.name \in DOMAIN given
                     THEN Valid(RequestParameter(r.op, l, p.name), given[p.name])
                     ELSE ~p.required
<1> DEFINE given == Supplied(r, l)
           params == Parameters[r.op]
           n == Len(params)
           A == <<Flag(DOMAIN given \subseteq Names(r.op, l))>>
           B == [i \in DOMAIN params |-> ParameterStep(r, l, i)]
           Fine(i) == IF params[i].name \in DOMAIN given
                        THEN Valid(RequestParameter(r.op, l, params[i].name), given[params[i].name])
                        ELSE ~params[i].required
<1>1. n \in Nat /\ DOMAIN params = 1..n
  BY ValidationAssumption
<1>2. IsSequence(A)
  <2>1. A = [i \in 1..1 |-> A[i]] /\ 1 \in Nat
    OBVIOUS
  <2> HIDE DEF A
  <2> QED BY <2>1, Zenon DEF IsSequence
<1>3. IsSequence(B)
  <2>1. B = [i \in 1..n |-> B[i]]
    BY <1>1
  <2> HIDE DEF B
  <2> QED BY <1>1, <2>1, Zenon DEF IsSequence
<1>4. Met(A) <=> DOMAIN given \subseteq Names(r.op, l)
  <2>1. DOMAIN A = {1} /\ A[1] = Flag(DOMAIN given \subseteq Names(r.op, l))
    OBVIOUS
  <2> HIDE DEF A
  <2>2. (DOMAIN given \subseteq Names(r.op, l)) \in BOOLEAN
    OBVIOUS
  <2> QED BY <2>1, <2>2, FlagMet, Zenon DEF Met
<1>5. ASSUME NEW i \in DOMAIN params
      PROVE  (\E a \in DOMAIN B[i] : Passes(B[i][a])) <=> (i \in Declared(r.op, l) => Fine(i))
  <2>1. B[i] = ParameterStep(r, l, i)
    OBVIOUS
  <2>2. CASE i \notin Declared(r.op, l)
    <3>1. B[i] = Flag(TRUE)
      BY <2>1, <2>2 DEF ParameterStep
    <3> QED BY <3>1, <2>2, FlagMet, Zenon
  <2>3. CASE i \in Declared(r.op, l) /\ params[i].name \in DOMAIN given
    <3> DEFINE c == Check(RequestParameter(r.op, l, params[i].name), given[params[i].name])
    <3>1. B[i] = <<c>>
      BY <2>1, <2>3 DEF ParameterStep
    <3>2. Passes(c) <=> Fine(i)
      BY <2>3, CheckPasses
    <3> HIDE DEF c, B, Fine
    <3>3. DOMAIN B[i] = {1} /\ B[i][1] = c
      BY <3>1
    <3> QED BY <3>2, <3>3, <2>3, Zenon
  <2>4. CASE i \in Declared(r.op, l) /\ params[i].name \notin DOMAIN given
    <3>1. B[i] = Flag(~params[i].required)
      BY <2>1, <2>4 DEF ParameterStep
    <3>2. (~params[i].required) \in BOOLEAN
      OBVIOUS
    <3> QED BY <3>1, <3>2, <2>4, FlagMet, Zenon
  <2> QED BY <2>2, <2>3, <2>4, Zenon
<1>6. Met(B) <=> \A i \in Declared(r.op, l) : Fine(i)
  <2>1. DOMAIN B = DOMAIN params /\ Declared(r.op, l) \subseteq DOMAIN params
    BY DEF Declared
  <2> HIDE DEF B, Fine, params
  <2> QED BY <2>1, <1>5, Zenon DEF Met
<1>7. ParameterSteps(r, l) = A \o B
  BY Zenon DEF ParameterSteps
<1> HIDE DEF A, B, Fine
<1>8. IsSequence(A \o B) /\ (Met(A \o B) <=> Met(A) /\ Met(B))
  BY <1>2, <1>3, MetBoth, Zenon
<1> QED BY <1>4, <1>6, <1>7, <1>8, Zenon DEF Fine

\* One step is met: one of its alternatives passes.
StepMet(s) == \E a \in DOMAIN s : Passes(s[a])

\* Two steps in a row.
LEMMA PairMet ==
  ASSUME NEW s1, NEW s2
  PROVE  /\ Met(<<s1, s2>>) <=> StepMet(s1) /\ StepMet(s2)
         /\ IsSequence(<<s1, s2>>)
<1> DEFINE s == <<s1, s2>>
<1>1. DOMAIN s = {1, 2} /\ s[1] = s1 /\ s[2] = s2 /\ s = [i \in 1..2 |-> s[i]]
  OBVIOUS
<1> HIDE DEF s
<1>2. Met(s) <=> StepMet(s1) /\ StepMet(s2)
  BY <1>1, Zenon DEF Met, StepMet
<1>3. IsSequence(s)
  BY <1>1 DEF IsSequence
<1> QED BY <1>2, <1>3 DEF s

\* Three steps in a row.
LEMMA TripleMet ==
  ASSUME NEW s1, NEW s2, NEW s3
  PROVE  Met(<<s1, s2, s3>>) <=> StepMet(s1) /\ StepMet(s2) /\ StepMet(s3)
<1> DEFINE s == <<s1, s2, s3>>
<1>1. DOMAIN s = {1, 2, 3} /\ s[1] = s1 /\ s[2] = s2 /\ s[3] = s3
  OBVIOUS
<1> HIDE DEF s
<1>2. Met(s) <=> StepMet(s1) /\ StepMet(s2) /\ StepMet(s3)
  BY <1>1, Zenon DEF Met, StepMet
<1> QED BY <1>2 DEF s

\* The JSON body of a request (validate_json_body).
LEMMA BodyMet ==
  ASSUME NEW r, r.op \in Ops
  PROVE  StepMet(BodyStep(r)) <=>
           /\ r.json # None => Body[r.op] # "none" /\ Valid(RequestBody(r.op), r.json)
           /\ Body[r.op] = "required" => r.json # None
<1>1. CASE r.json = None
  <2>1. BodyStep(r) = Flag(Body[r.op] # "required") /\ (Body[r.op] # "required") \in BOOLEAN
    BY <1>1 DEF BodyStep
  <2> QED BY <2>1, <1>1, FlagMet, Zenon DEF StepMet
<1>2. CASE r.json # None /\ Body[r.op] = "none"
  <2>1. BodyStep(r) = Flag(FALSE) /\ FALSE \in BOOLEAN
    BY <1>2 DEF BodyStep
  <2> QED BY <2>1, <1>2, FlagMet, Zenon DEF StepMet
<1>3. CASE r.json # None /\ Body[r.op] # "none"
  <2> DEFINE c == Check(RequestBody(r.op), r.json)
             s == <<c>>
  <2>1. BodyStep(r) = s
    BY <1>3 DEF BodyStep
  <2>2. Passes(c) <=> Valid(RequestBody(r.op), r.json)
    BY CheckPasses
  <2> HIDE DEF c
  <2>3. DOMAIN s = {1} /\ s[1] = c
    OBVIOUS
  <2> HIDE DEF s
  <2> QED BY <2>1, <2>2, <2>3, <1>3, Zenon DEF StepMet
<1> QED BY <1>1, <1>2, <1>3

\* A request conforms when it is as the catalog declares it.
LEMMA RequestMet ==
  ASSUME NEW r, r.cursor \in BOOLEAN
  PROVE  Met(RequestSteps(r)) <=> ValidRequest(r)
<1> DEFINE H == <<Flag(RequestBounds(r)), Flag(r.op \in Ops)>>
           P == ParameterSteps(r, "path")
           Q == ParameterSteps(r, "query")
           Z == <<BodyStep(r), Flag(r.cursor)>>
<1>1. /\ Met(H) <=> RequestBounds(r) /\ r.op \in Ops
      /\ IsSequence(H)
  <2>1. RequestBounds(r) \in BOOLEAN /\ (r.op \in Ops) \in BOOLEAN
    BY DEF RequestBounds
  <2> QED BY <2>1, PairMet, FlagMet, Zenon DEF StepMet
<1>2. CASE r.op \notin Ops
  <2>1. RequestSteps(r) = H \o <<>>
    BY <1>2 DEF RequestSteps
  <2>2. IsSequence(<<>>)
    <3>1. <<>> = [i \in 1..0 |-> <<>>[i]] /\ 0 \in Nat
      OBVIOUS
    <3> QED BY <3>1 DEF IsSequence
  <2> HIDE DEF H
  <2>3. Met(H \o <<>>) => Met(H)
    BY <2>2, <1>1, MetBoth, Zenon
  <2> QED BY <2>1, <2>3, <1>1, <1>2, Zenon DEF ValidRequest
<1>3. CASE r.op \in Ops
  <2> DEFINE Judged(l) ==
        /\ DOMAIN Supplied(r, l) \subseteq Names(r.op, l)
        /\ \A i \in Declared(r.op, l) :
             LET p == Parameters[r.op][i] IN
             IF p.name \in DOMAIN Supplied(r, l)
               THEN Valid(RequestParameter(r.op, l, p.name), Supplied(r, l)[p.name])
               ELSE ~p.required
  <2>1. /\ IsSequence(P) /\ (Met(P) <=> Judged("path"))
        /\ IsSequence(Q) /\ (Met(Q) <=> Judged("query"))
    <3>1. "path" \in Locations /\ "query" \in Locations
      BY DEF Locations
    <3> QED BY <1>3, <3>1, ParametersMet
  <2>2. /\ Met(Z) <=> StepMet(BodyStep(r)) /\ r.cursor
        /\ IsSequence(Z)
    BY PairMet, FlagMet, Zenon DEF StepMet
  <2>3. RequestSteps(r) = H \o ((P \o Q) \o Z)
    BY <1>3, Zenon DEF RequestSteps
  <2> HIDE DEF H, P, Q, Z, Judged
  <2>4. IsSequence(P \o Q) /\ (Met(P \o Q) <=> Met(P) /\ Met(Q))
    BY <2>1, MetBoth, Zenon
  <2>5. IsSequence((P \o Q) \o Z) /\ (Met((P \o Q) \o Z) <=> Met(P \o Q) /\ Met(Z))
    BY <2>2, <2>4, MetBoth, Zenon
  <2>6. Met(H \o ((P \o Q) \o Z)) <=> Met(H) /\ Met((P \o Q) \o Z)
    BY <1>1, <2>5, MetBoth, Zenon
  <2>7. Judged("path") /\ Judged("query") <=>
          /\ \A l \in Locations, i \in DOMAIN Parameters[r.op] :
               LET p == Parameters[r.op][i] IN
               p.location = l =>
                 IF p.name \in DOMAIN Supplied(r, l)
                   THEN Valid(RequestParameter(r.op, l, p.name), Supplied(r, l)[p.name])
                   ELSE ~p.required
          /\ \A l \in Locations : \A m \in DOMAIN Supplied(r, l) :
               \E i \in DOMAIN Parameters[r.op] :
                 Parameters[r.op][i].name = m /\ Parameters[r.op][i].location = l
    BY DEF Judged, Locations, Declared, Names
  <2>8. ValidRequest(r) <=>
          /\ RequestBounds(r) /\ r.cursor /\ r.op \in Ops
          /\ Judged("path") /\ Judged("query")
          /\ StepMet(BodyStep(r))
    BY <2>7, <1>3, BodyMet, Zenon DEF ValidRequest
  <2> QED BY <2>1, <2>2, <2>3, <2>4, <2>5, <2>6, <2>8, <1>1, <1>3, Zenon
<1> QED BY <1>2, <1>3

\* The body of a response (validate_response_body): none where none is
\* declared, else one of a declared medium, JSON under some schema.
LEMMA ResponseBodyMet ==
  ASSUME NEW r, r.op \in Ops, r.status \in DOMAIN Responses[r.op], r.body \in BodyKinds
  PROVE  LET declared == Responses[r.op][r.status]
             media    == {declared[i] : i \in DOMAIN declared} IN
         StepMet(ResponseBodyStep(r)) <=>
           CASE r.body = "Empty"  -> media = {}
             [] r.body = "Json"   -> \E m \in media \cap JsonMedia :
                                       Valid(ResponseBody(r.op, r.status, m), r.value)
             [] r.body = "Text"   -> media \cap TextMedia # {}
             [] r.body = "Binary" -> OctetStream \in media
<1> DEFINE declared == Responses[r.op][r.status]
           media    == {declared[i] : i \in DOMAIN declared}
           Goal == CASE r.body = "Empty"  -> media = {}
                     [] r.body = "Json"   -> \E m \in media \cap JsonMedia :
                                               Valid(ResponseBody(r.op, r.status, m), r.value)
                     [] r.body = "Text"   -> media \cap TextMedia # {}
                     [] r.body = "Binary" -> OctetStream \in media
<1>1. CASE media = {}
  <2>1. ResponseBodyStep(r) = Flag(r.body = "Empty") /\ (r.body = "Empty") \in BOOLEAN
    BY <1>1 DEF ResponseBodyStep
  <2>2. StepMet(ResponseBodyStep(r)) <=> r.body = "Empty"
    BY <2>1, FlagMet, Zenon DEF StepMet
  <2>3. Goal <=> r.body = "Empty"
    BY <1>1 DEF BodyKinds
  <2> QED BY <2>2, <2>3
<1>2. CASE media # {} /\ r.body = "Json" /\ media \cap JsonMedia # {}
  <2> DEFINE A == BodyAlternatives(r)
  <2>1. ResponseBodyStep(r) = A
    BY <1>2 DEF ResponseBodyStep
  <2>2. DOMAIN A = DOMAIN declared
    BY DEF BodyAlternatives
  <2>3. ASSUME NEW i \in DOMAIN declared
        PROVE  Passes(A[i]) <=> /\ declared[i] \in JsonMedia
                                /\ Valid(ResponseBody(r.op, r.status, declared[i]), r.value)
    <3>1. CASE declared[i] \in JsonMedia
      <4>1. A[i] = Check(ResponseBody(r.op, r.status, declared[i]), r.value)
        BY <3>1 DEF BodyAlternatives
      <4> QED BY <4>1, <3>1, CheckPasses, Zenon
    <3>2. CASE declared[i] \notin JsonMedia
      <4>1. A[i] = Settled(FALSE) /\ FALSE \in BOOLEAN
        BY <3>2 DEF BodyAlternatives
      <4> QED BY <4>1, <3>2, SettledPasses, Zenon
    <3> QED BY <3>1, <3>2
  <2> HIDE DEF A
  <2>4. StepMet(A) <=> \E m \in media \cap JsonMedia :
                         Valid(ResponseBody(r.op, r.status, m), r.value)
    <3> HIDE DEF declared
    <3> QED BY <2>2, <2>3, Zenon DEF StepMet
  <2>5. Goal <=> \E m \in media \cap JsonMedia :
                   Valid(ResponseBody(r.op, r.status, m), r.value)
    BY <1>2
  <2> QED BY <2>1, <2>4, <2>5, Zenon
<1>3. CASE media # {} /\ r.body = "Text"
  <2>1. ResponseBodyStep(r) = Flag(media \cap TextMedia # {}) /\ (media \cap TextMedia # {}) \in BOOLEAN
    BY <1>3 DEF ResponseBodyStep
  <2>2. Goal <=> media \cap TextMedia # {}
    BY <1>3
  <2> QED BY <2>1, <2>2, FlagMet, Zenon DEF StepMet
<1>4. CASE media # {} /\ r.body = "Binary"
  <2>1. ResponseBodyStep(r) = Flag(OctetStream \in media) /\ (OctetStream \in media) \in BOOLEAN
    BY <1>4 DEF ResponseBodyStep
  <2>2. Goal <=> OctetStream \in media
    BY <1>4
  <2> QED BY <2>1, <2>2, FlagMet, Zenon DEF StepMet
<1>5. CASE /\ media # {}
           /\ r.body = "Empty" \/ (r.body = "Json" /\ media \cap JsonMedia = {})
  <2>1. ResponseBodyStep(r) = Flag(FALSE) /\ FALSE \in BOOLEAN
    BY <1>5 DEF ResponseBodyStep
  <2>2. ~Goal
    BY <1>5
  <2> QED BY <2>1, <2>2, FlagMet, Zenon DEF StepMet
<1> QED BY <1>1, <1>2, <1>3, <1>4, <1>5 DEF BodyKinds

\* A response conforms when it is as the catalog declares it.
LEMMA ResponseMet ==
  ASSUME NEW r, r.cursor \in BOOLEAN, r.fits \in BOOLEAN, r.body \in BodyKinds
  PROVE  Met(ResponseSteps(r)) <=> ValidResponse(r)
<1> DEFINE no == <<Flag(FALSE)>>
<1>1. ~Met(no)
  <2>1. DOMAIN no = {1} /\ no[1] = Flag(FALSE) /\ FALSE \in BOOLEAN
    OBVIOUS
  <2> HIDE DEF no
  <2> QED BY <2>1, FlagMet, Zenon DEF Met
<1>2. CASE r.op \notin Ops
  <2>1. ResponseSteps(r) = no
    BY <1>2 DEF ResponseSteps
  <2> QED BY <2>1, <1>1, <1>2, Zenon DEF ValidResponse
<1>3. CASE r.op \in Ops /\ r.status \notin DOMAIN Responses[r.op]
  <2>1. ResponseSteps(r) = no
    BY <1>3 DEF ResponseSteps
  <2> QED BY <2>1, <1>1, <1>3, Zenon DEF ValidResponse
<1>4. CASE r.op \in Ops /\ r.status \in DOMAIN Responses[r.op]
  <2>1. ResponseSteps(r) = <<Flag(ResponseBounds(r)), ResponseBodyStep(r), Flag(r.cursor)>>
    BY <1>4 DEF ResponseSteps
  <2>2. ResponseBounds(r) \in BOOLEAN
    BY DEF ResponseBounds
  <2>3. Met(ResponseSteps(r)) <=>
          ResponseBounds(r) /\ StepMet(ResponseBodyStep(r)) /\ r.cursor
    <3>1. /\ StepMet(Flag(ResponseBounds(r))) <=> ResponseBounds(r)
          /\ StepMet(Flag(r.cursor)) <=> r.cursor
      BY <2>2, FlagMet, Zenon DEF StepMet
    <3> QED BY <2>1, <3>1, TripleMet, Zenon
  <2> QED BY <2>3, <1>4, ResponseBodyMet DEF ValidResponse
<1> QED BY <1>2, <1>3, <1>4

\* For any catalog and any number of concurrent validations, a request is let
\* through to Mist, and a response to its caller, just when it is what the
\* catalog declares (MistRequest::validate, MistResponse::validate).
THEOREM DeclaredAccepted == Spec => []AcceptedAsDeclared
<1>1. ASSUME NEW j \in Jobs
      PROVE  Conforms(j) <=> LET m == Messages[j] IN
                             IF IsRequest(m) THEN ValidRequest(m) ELSE ValidResponse(m)
  <2>1. Conforms(j) <=> Met(Steps[j])
    BY DEF Conforms, Met
  <2> DEFINE m == Messages[j]
  <2>2. /\ Steps[j] = IF IsRequest(m) THEN RequestSteps(m) ELSE ResponseSteps(m)
        /\ m.cursor \in BOOLEAN
        /\ ~IsRequest(m) => m.fits \in BOOLEAN /\ m.body \in BodyKinds
    BY MessagesAssumption, Zenon
  <2> HIDE DEF m
  <2>3. CASE IsRequest(m)
    <3>1. Steps[j] = RequestSteps(m)
      BY <2>2, <2>3
    <3>2. Met(Steps[j]) <=> ValidRequest(m)
      <4>1. m.cursor \in BOOLEAN
        BY <2>2
      <4>2. Met(RequestSteps(m)) <=> ValidRequest(m)
        BY <4>1, RequestMet
      <4> QED BY <3>1, <4>2
    <3> QED BY <2>1, <2>3, <3>2 DEF m
  <2>4. CASE ~IsRequest(m)
    <3>1. Steps[j] = ResponseSteps(m)
      BY <2>2, <2>4
    <3>2. Met(Steps[j]) <=> ValidResponse(m)
      <4>1. m.cursor \in BOOLEAN /\ m.fits \in BOOLEAN /\ m.body \in BodyKinds
        BY <2>2, <2>4
      <4>2. Met(ResponseSteps(m)) <=> ValidResponse(m)
        BY <4>1, ResponseMet
      <4> QED BY <3>1, <4>2
    <3> QED BY <2>1, <2>4, <3>2 DEF m
  <2> QED BY <2>3, <2>4, Zenon
<1>2. IInv => AcceptedAsDeclared
  <2> SUFFICES ASSUME IInv, NEW t \in Threads, verdict[t] # "none"
               PROVE  LET m == Messages[job[t]] IN
                      (verdict[t] = "ok") = IF IsRequest(m) THEN ValidRequest(m) ELSE ValidResponse(m)
    BY Zenon DEF AcceptedAsDeclared
  <2>1. /\ verdict[t] \in {"ok", "refused"} /\ job[t] \in Jobs
        /\ (verdict[t] = "ok") <=> Conforms(job[t])
    BY DEF IInv, CacheTypeOK, Working
  <2>2. (verdict[t] = "ok") <=> LET m == Messages[job[t]] IN
                                IF IsRequest(m) THEN ValidRequest(m) ELSE ValidResponse(m)
    BY <2>1, <1>1, Zenon
  <2> QED BY <2>2, Zenon DEF ValidRequest, ValidResponse
<1> QED BY <1>2, CacheInvariant, PTL
=============================================================================
