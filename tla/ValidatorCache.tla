--------------------------- MODULE ValidatorCache ---------------------------
(***************************************************************************)
(* Schema checks against the loaded catalog, by concurrent requests: the    *)
(* cache of compiled validators (rustmistmcp-core/src/catalog.rs) and the   *)
(* way schema_matches uses it (rustmistmcp-core/src/request.rs).            *)
(*                                                                         *)
(* A job is what one MistRequest::validate or MistResponse::validate has to *)
(* check: steps that must all pass, each a sequence of alternatives of      *)
(* which one must.  An alternative is a flag (a check without a schema) or  *)
(* a value to hold against the schema declared at a slot.  Module           *)
(* SchemaValidation says which steps a request and a response have.         *)
(***************************************************************************)
EXTENDS Naturals, Sequences, FiniteSets

CONSTANTS
  Threads,   \* tasks that validate
  Slots,     \* declared schemas: an operation and the place within it
  Values,    \* JSON values
  Admits,    \* <<slot, direction, value>>: what each schema admits each way
  Broken,    \* slots whose schema does not compile
  Jobs,      \* the requests and responses to validate
  Steps,     \* the steps of each job
  MaxCalls,  \* bound: validations started
  None

Directions == {"Request", "Response"}
Settled(ok) == [t |-> "flag", ok |-> ok]
Flag(ok) == <<Settled(ok)>>
Check(slot, v) == [t |-> "schema", slot |-> slot, value |-> v]
Alternatives == [t: {"flag"}, ok: BOOLEAN] \cup [t: {"schema"}, slot: Slots, value: Values]

\* SchemaSlot: requests are judged as declared, responses after relaxation.
DirectionOf(slot) == IF slot.kind = "ResponseBody" THEN "Response" ELSE "Request"

\* Mutant of ValidatorKey: a parameter by its name, a response by its media
\* type, without the location or the status.
ValidatorKeyByName(slot) == [slot EXCEPT !.at = ""]

\* ValidatorKey: the operation and the whole slot.
ValidatorKey(slot) == slot

Keys == {ValidatorKey(s) : s \in Slots}

\* A compiled validator is what its root was built from.
Validators == [slot: Slots, dir: Directions]

ASSUME CacheAssumption ==
  /\ Steps \in [Jobs -> Seq(Seq(Alternatives))]
  /\ \A j \in Jobs : \A i \in DOMAIN Steps[j] : Steps[j][i] # <<>>
  /\ None \notin Validators \cup Jobs
  /\ MaxCalls \in Nat

VARIABLES
  cache,      \* key -> validator, None where there is no entry
  poisoned,   \* a thread panicked while it held the cache's lock
  pc, job,    \* per thread: where it is, what it validates
  step, alt,  \* per thread: the current step and alternative
  held,       \* per thread: the validator it got or built
  verdict,    \* per thread: of its last job
  built,      \* history: the slots each thread has compiled
  calls

vars == <<cache, poisoned, pc, job, step, alt, held, verdict, built, calls>>

CacheTypeOK ==
  /\ cache \in [Keys -> Validators \cup {None}]
  /\ poisoned \in BOOLEAN
  /\ pc \in [Threads -> {"idle", "check", "build", "insert", "judge"}]
  /\ job \in [Threads -> Jobs \cup {None}]
  /\ step \in [Threads -> Nat] /\ alt \in [Threads -> Nat]
  /\ held \in [Threads -> Validators \cup {None}]
  /\ verdict \in [Threads -> {"none", "ok", "refused"}]
  /\ built \in [Threads -> SUBSET Slots]
  /\ calls \in 0..MaxCalls

Init ==
  /\ cache = [k \in Keys |-> None]
  /\ poisoned = FALSE
  /\ pc = [t \in Threads |-> "idle"]
  /\ job = [t \in Threads |-> None]
  /\ step = [t \in Threads |-> 1] /\ alt = [t \in Threads |-> 1]
  /\ held = [t \in Threads |-> None]
  /\ verdict = [t \in Threads |-> "none"]
  /\ built = [t \in Threads |-> {}]
  /\ calls = 0

Current(t) == Steps[job[t]][step[t]][alt[t]]
OnSchema(t, at) == pc[t] = at /\ Current(t).t = "schema"

-----------------------------------------------------------------------------
(* One validation *)

\* validate is called.
Begin(t, j) ==
  /\ pc[t] = "idle" /\ calls < MaxCalls
  /\ calls' = calls + 1
  /\ job' = [job EXCEPT ![t] = j]
  /\ step' = [step EXCEPT ![t] = 1] /\ alt' = [alt EXCEPT ![t] = 1]
  /\ verdict' = [verdict EXCEPT ![t] = IF Steps[j] = <<>> THEN "ok" ELSE "none"]
  /\ pc' = [pc EXCEPT ![t] = IF Steps[j] = <<>> THEN "idle" ELSE "check"]
  /\ UNCHANGED <<cache, poisoned, held, built>>

\* The current alternative is decided.  The first that passes settles its
\* step; a step none of whose alternatives passes refuses the job.
Decide(t, ok) ==
  LET lastStep == step[t] = Len(Steps[job[t]])
      lastAlt  == alt[t] = Len(Steps[job[t]][step[t]]) IN
  /\ held' = [held EXCEPT ![t] = None]
  /\ \/ /\ ok /\ ~lastStep
        /\ step' = [step EXCEPT ![t] = @ + 1] /\ alt' = [alt EXCEPT ![t] = 1]
        /\ pc' = [pc EXCEPT ![t] = "check"]
        /\ UNCHANGED verdict
     \/ /\ ~ok /\ ~lastAlt
        /\ alt' = [alt EXCEPT ![t] = @ + 1]
        /\ pc' = [pc EXCEPT ![t] = "check"]
        /\ UNCHANGED <<step, verdict>>
     \/ /\ (ok /\ lastStep) \/ (~ok /\ lastAlt)
        /\ verdict' = [verdict EXCEPT ![t] = IF ok THEN "ok" ELSE "refused"]
        /\ pc' = [pc EXCEPT ![t] = "idle"]
        /\ UNCHANGED <<step, alt>>

\* A check that needs no schema.
CheckFlag(t) ==
  /\ pc[t] = "check" /\ Current(t).t = "flag"
  /\ Decide(t, Current(t).ok)
  /\ UNCHANGED <<cache, poisoned, job, built, calls>>

\* cached_validator, under the read lock: an entry is used as it is.
Hit(t) ==
  /\ OnSchema(t, "check")
  /\ ~poisoned /\ cache[ValidatorKey(Current(t).slot)] # None
  /\ held' = [held EXCEPT ![t] = cache[ValidatorKey(Current(t).slot)]]
  /\ pc' = [pc EXCEPT ![t] = "judge"]
  /\ UNCHANGED <<cache, poisoned, job, step, alt, verdict, built, calls>>

\* No entry, or a poisoned lock.
Miss(t) ==
  /\ OnSchema(t, "check")
  /\ poisoned \/ cache[ValidatorKey(Current(t).slot)] = None
  /\ pc' = [pc EXCEPT ![t] = "build"]
  /\ UNCHANGED <<cache, poisoned, job, step, alt, held, verdict, built, calls>>

\* build_root and the compilation, outside any lock.
Build(t) ==
  LET slot == Current(t).slot IN
  /\ OnSchema(t, "build") /\ slot \notin Broken
  /\ held' = [held EXCEPT ![t] = [slot |-> slot, dir |-> DirectionOf(slot)]]
  /\ built' = [built EXCEPT ![t] = @ \cup {slot}]
  /\ pc' = [pc EXCEPT ![t] = "insert"]
  /\ UNCHANGED <<cache, poisoned, job, step, alt, verdict, calls>>

\* Mutant of BuildFails: the failure is kept as the slot's entry.
BuildFailsFrozen(t) ==
  /\ OnSchema(t, "build") /\ Current(t).slot \in Broken
  /\ cache' = [cache EXCEPT ![ValidatorKey(Current(t).slot)] = [slot |-> None, dir |-> "Request"]]
  /\ Decide(t, FALSE)
  /\ UNCHANGED <<poisoned, job, built, calls>>

\* The schema does not compile: nothing is cached, the alternative fails.
BuildFails(t) ==
  /\ OnSchema(t, "build") /\ Current(t).slot \in Broken
  /\ Decide(t, FALSE)
  /\ UNCHANGED <<cache, poisoned, job, built, calls>>

\* Mutant of Insert: the validator is used and not kept.
InsertForgets(t) ==
  /\ OnSchema(t, "insert")
  /\ pc' = [pc EXCEPT ![t] = "judge"]
  /\ UNCHANGED <<cache, poisoned, job, step, alt, held, verdict, built, calls>>

\* Under the write lock the first entry stays; this thread goes on with the
\* validator it built, whoever was first.
Insert(t) ==
  LET key == ValidatorKey(Current(t).slot) IN
  /\ OnSchema(t, "insert")
  /\ cache' = IF poisoned \/ cache[key] # None THEN cache
              ELSE [cache EXCEPT ![key] = held[t]]
  /\ pc' = [pc EXCEPT ![t] = "judge"]
  /\ UNCHANGED <<poisoned, job, step, alt, held, verdict, built, calls>>

\* schema_matches: the errors of the value under the validator, none or some.
Judge(t) ==
  /\ OnSchema(t, "judge")
  /\ Decide(t, <<held[t].slot, held[t].dir, Current(t).value>> \in Admits)
  /\ UNCHANGED <<cache, poisoned, job, built, calls>>

\* external: a panic of another thread under the lock.
Poison ==
  /\ ~poisoned
  /\ poisoned' = TRUE
  /\ UNCHANGED <<cache, pc, job, step, alt, held, verdict, built, calls>>

ThreadStep(t) ==
  \/ CheckFlag(t) \/ Hit(t) \/ Miss(t) \/ Build(t) \/ BuildFails(t)
  \/ Insert(t) \/ Judge(t)

Next ==
  \/ \E t \in Threads : \E j \in Jobs : Begin(t, j)
  \/ \E t \in Threads : ThreadStep(t)
  \/ Poison

Spec == Init /\ [][Next]_vars

-----------------------------------------------------------------------------
(* Properties *)

\* A slot's schema, compiled in the slot's own direction, admits the value.
Valid(slot, v) == slot \notin Broken /\ <<slot, DirectionOf(slot), v>> \in Admits

Passes(a) == IF a.t = "flag" THEN a.ok ELSE Valid(a.slot, a.value)

\* What the verdict on a job has to be, with no cache in sight.
Conforms(j) ==
  \A i \in DOMAIN Steps[j] : \E a \in DOMAIN Steps[j][i] : Passes(Steps[j][i][a])

\* However validations interleave on the shared cache, each verdict is the one
\* its own schemas give: no parameter, status, media type or direction is
\* answered for by the validator of another ("a wrong verdict, not a slow
\* one", the doc of SchemaSlot).
VerdictExact ==
  \A t \in Threads :
    /\ verdict[t] = "ok" => Conforms(job[t])
    /\ verdict[t] = "refused" => ~Conforms(job[t])

\* What remains of "built at most once" (cached_validator) when two threads may
\* miss together: while the lock is sound, no thread compiles a schema that it
\* has compiled before.
NoRecompile ==
  \A t \in Threads :
    OnSchema(t, "build") /\ Current(t).slot \in built[t] => poisoned
=============================================================================
