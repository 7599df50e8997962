----------------------------- MODULE Client_proofs -----------------------------
(***************************************************************************)
(* What the loops around the API keep to: the retries of one sdk_call, for *)
(* every budget; the waiting for what a call has set off, for every        *)
(* timeout, delay and duration of a poll; the pages of a list and the      *)
(* cache of the inventory, for every page size, filter and account.        *)
(***************************************************************************)
EXTENDS SdkCall, Waiter, Inventory, SequenceTheorems, FiniteSetTheorems,
        WellFoundedInduction, TLAPS

-----------------------------------------------------------------------------
(* The retries of one call.                                                *)

LEMMA BudgetNat == Budget \in Nat /\ Budget >= 1
  BY CallAssumption DEF Budget

\* The delay before a retry is between one and ten seconds (_default_backoff).
LEMMA BackoffBounded ==
  ASSUME NEW a \in Nat, a >= 1
  PROVE  Backoff(a) \in Nat /\ Backoff(a) <= 10
<1>1. CASE a >= 5
  BY <1>1 DEF Backoff
<1>2. CASE a = 1 \/ a = 2 \/ a = 3 \/ a = 4
  BY <1>2 DEF Backoff
<1> QED
  BY <1>1, <1>2

(***************************************************************************)
(* What ties the counter of the loop to the trail: every entry before the  *)
(* end of the call is a failure that was counted.                          *)
(***************************************************************************)
IInv ==
  /\ TypeOK
  /\ pc \in {"call", "sleep"} =>
       /\ Len(trail) = attempt
       /\ attempt < Budget
       /\ attempt > 0 => Retry
       /\ applied <= attempt
       /\ \A i \in 1..Len(trail) : trail[i].status = "error"
  /\ pc = "sleep" => attempt >= 1
  /\ pc = "call"  => slept <= 10 * attempt
  /\ pc = "sleep" => slept <= 10 * (attempt - 1)
  /\ Ended => slept <= 10 * (Budget - 1)
  /\ Ended =>
       /\ Len(Attempts) >= 1
       /\ Len(Attempts) <= Budget
       /\ applied <= Len(Attempts)
       /\ Retried(lastCode) => Len(Attempts) = Budget
       /\ lastCode = "ok" =>
            /\ applied >= 1
            /\ \A i \in 1..Len(Attempts) :
                 (Attempts[i].status = "ok") <=> (i = Len(Attempts))

LEMMA InitInv == Init => IInv
  BY BudgetNat DEF Init, IInv, TypeOK, Ended, Entry

\* Recording an attempt appends its entry and leaves the others as they are.
LEMMA RecordAppends ==
  ASSUME trail \in Seq(Entry), NEW s \in {"ok", "error"}, Record(s)
  PROVE  /\ trail' \in Seq(Entry)
         /\ Len(trail') = Len(trail) + 1
         /\ trail'[Len(trail) + 1].status = s
         /\ \A i \in 1..Len(trail) : trail'[i] = trail[i]
  BY DEF Record, Entry

LEMMA StepInv == IInv /\ [Next]_vars => IInv'
<1> SUFFICES ASSUME IInv, [Next]_vars PROVE IInv'
  OBVIOUS
<1> USE BudgetNat, CallAssumption
<1>0. TypeOK
  BY DEF IInv
<1>1. CASE Succeed
  <2>1. /\ trail' \in Seq(Entry)
        /\ Len(trail') = Len(trail) + 1
        /\ trail'[Len(trail) + 1].status = "ok"
        /\ \A i \in 1..Len(trail) : trail'[i] = trail[i]
    BY <1>0, <1>1, RecordAppends DEF Succeed, TypeOK
  <2>2. TypeOK'
    BY <1>0, <1>1, <2>1 DEF Succeed, TypeOK
  <2>3. Attempts' = trail' /\ Ended' /\ pc' = "returned" /\ lastCode' = "ok"
    BY <1>1 DEF Succeed, Attempts, Ended
  <2>4. ~Retried("ok")
    BY DEF Retried, IsRetryable, IsRateLimited, RateLimitedCodes, TransientCodes
  <2>5. /\ Len(trail) = attempt /\ attempt < Budget /\ applied <= attempt
        /\ \A i \in 1..Len(trail) : trail[i].status = "error"
        /\ slept <= 10 * attempt
    BY <1>1 DEF Succeed, IInv
  <2>6. applied' = applied + 1 /\ slept' = slept
    BY <1>1 DEF Succeed
  <2>7. slept' <= 10 * (Budget - 1)
    BY <1>0, <2>5, <2>6 DEF TypeOK
  <2>8. \A i \in 1..Len(trail') : (trail'[i].status = "ok") <=> (i = Len(trail'))
    BY <1>0, <2>1, <2>5 DEF TypeOK
  <2> QED
    BY <1>0, <2>1, <2>2, <2>3, <2>4, <2>5, <2>6, <2>7, <2>8 DEF IInv, TypeOK
<1>2. ASSUME NEW code \in ErrorCodes, NEW done \in BOOLEAN, FailForGood(code, done)
      PROVE  IInv'
  <2>1. /\ trail' \in Seq(Entry)
        /\ Len(trail') = Len(trail) + 1
    BY <1>0, <1>2, RecordAppends DEF FailForGood, Error, TypeOK
  <2>2. TypeOK'
    BY <1>0, <1>2, <2>1 DEF FailForGood, Error, TypeOK
  <2>3. Attempts' = trail' /\ Ended' /\ pc' = "raised" /\ lastCode' = code
    BY <1>2 DEF FailForGood, Error, Attempts, Ended
  <2>4. code # "ok"
    BY DEF ErrorCodes, NotFoundCodes, RateLimitedCodes, TransientCodes,
           DeniedCodes, OtherCodes, NoCode
  <2>5. /\ Len(trail) = attempt /\ attempt < Budget /\ applied <= attempt
        /\ attempt > 0 => Retry
        /\ slept <= 10 * attempt
    BY <1>2 DEF FailForGood, Error, IInv
  <2>6. applied' <= applied + 1 /\ slept' = slept
    BY <1>0, <1>2 DEF FailForGood, Error, TypeOK
  <2>7. slept' <= 10 * (Budget - 1)
    BY <1>0, <2>5, <2>6 DEF TypeOK
  <2>8. Retried(code) => Len(trail') = Budget
    <3>1. CASE ~Retry
      BY <1>0, <3>1, <2>1, <2>5 DEF TypeOK, Budget
    <3>2. CASE Retry /\ attempt + 1 > Retries
      BY <1>0, <3>2, <2>1, <2>5 DEF TypeOK, Budget
    <3> QED
      BY <3>1, <3>2, <1>2 DEF FailForGood
  <2> QED
    BY <1>0, <2>1, <2>2, <2>3, <2>4, <2>5, <2>6, <2>7, <2>8 DEF IInv, TypeOK
<1>3. ASSUME NEW code \in ErrorCodes, NEW done \in BOOLEAN, FailAndRetry(code, done)
      PROVE  IInv'
  <2>1. /\ trail' \in Seq(Entry)
        /\ Len(trail') = Len(trail) + 1
        /\ trail'[Len(trail) + 1].status = "error"
        /\ \A i \in 1..Len(trail) : trail'[i] = trail[i]
    BY <1>0, <1>3, RecordAppends DEF FailAndRetry, Error, TypeOK
  <2>2. TypeOK'
    BY <1>0, <1>3, <2>1 DEF FailAndRetry, Error, TypeOK
  <2>3. ~Ended' /\ pc' = "sleep" /\ attempt' = attempt + 1 /\ Retry
    BY <1>3 DEF FailAndRetry, Ended
  <2>4. /\ Len(trail) = attempt /\ applied <= attempt
        /\ \A i \in 1..Len(trail) : trail[i].status = "error"
        /\ slept <= 10 * attempt
    BY <1>3 DEF FailAndRetry, Error, IInv
  <2>5. applied' <= applied + 1 /\ slept' = slept
    BY <1>0, <1>3 DEF FailAndRetry, Error, TypeOK
  <2>6. attempt' < Budget
    BY <1>0, <1>3 DEF FailAndRetry, Budget, TypeOK
  <2>7. \A i \in 1..Len(trail') : trail'[i].status = "error"
    BY <1>0, <2>1, <2>4 DEF TypeOK
  <2> QED
    BY <1>0, <2>1, <2>2, <2>3, <2>4, <2>5, <2>6, <2>7 DEF IInv, TypeOK
<1>4. CASE Sleep
  <2>1. Backoff(attempt) \in Nat /\ Backoff(attempt) <= 10
    BY <1>0, <1>4, BackoffBounded DEF Sleep, IInv, TypeOK
  <2>2. TypeOK'
    BY <1>0, <1>4, <2>1 DEF Sleep, TypeOK
  <2>3. pc' = "call" /\ ~Ended'
    BY <1>4 DEF Sleep, Ended
  <2>4. slept' <= 10 * attempt
    BY <1>0, <1>4, <2>1 DEF Sleep, IInv, TypeOK
  <2> QED
    BY <1>0, <1>4, <2>2, <2>3, <2>4 DEF Sleep, IInv
<1>5. CASE Exit
  <2>1. TypeOK'
    BY <1>0, <1>5 DEF Exit, TypeOK
  <2>2. Attempts' = Attempts /\ Ended /\ Ended' /\ pc' = "exited"
    BY <1>5 DEF Exit, Attempts, Ended
  <2> QED
    BY <1>5, <2>1, <2>2 DEF Exit, IInv
<1>6. CASE UNCHANGED vars
  BY <1>6 DEF vars, IInv, TypeOK, Ended, Attempts
<1> QED
  BY <1>1, <1>2, <1>3, <1>4, <1>5, <1>6 DEF Next

LEMMA Invariance == Spec => []IInv
  BY InitInv, StepInv, PTL DEF Spec

\* sdk_call keeps its counters, trail and payload well-formed.
THEOREM TypeCorrect == Spec => []TypeOK
<1>1. IInv => TypeOK
  BY DEF IInv
<1> QED
  BY <1>1, Invariance, PTL

\* For every value of retries: a call never makes more than its budget of
\* attempts, and one that ends with a transient error made all of them.
THEOREM GivesUpOnTimeAlways == Spec => []GivesUpOnTime
<1>1. IInv => GivesUpOnTime
  <2> SUFFICES ASSUME IInv PROVE GivesUpOnTime
    OBVIOUS
  <2>1. CASE Ended
    BY <2>1 DEF IInv, GivesUpOnTime
  <2>2. CASE ~Ended
    <3>1. Len(Attempts) <= Budget
      BY <2>2, BudgetNat DEF IInv, TypeOK, Ended, Attempts
    <3> QED
      BY <2>2, <3>1 DEF GivesUpOnTime
  <2> QED
    BY <2>1, <2>2
<1> QED
  BY <1>1, Invariance, PTL

\* For every value of retries: a call that returned took effect at least once
\* and at most once per audited attempt, and only its last attempt succeeded.
THEOREM AtLeastOnceAuditedAlways == Spec => []AtLeastOnceAudited
<1>1. IInv => AtLeastOnceAudited
  <2> SUFFICES ASSUME IInv PROVE AtLeastOnceAudited
    OBVIOUS
  <2>1. CASE Ended
    BY <2>1 DEF IInv, AtLeastOnceAudited
  <2>2. CASE ~Ended
    <3>1. applied <= Len(Attempts)
      BY <2>2 DEF IInv, TypeOK, Ended, Attempts
    <3> QED
      BY <2>2, <3>1 DEF AtLeastOnceAudited
  <2> QED
    BY <2>1, <2>2
<1> QED
  BY <1>1, Invariance, PTL

\* For every value of retries the loop sleeps ten seconds per retry at most.
THEOREM SleepBudgetAlways == Spec => []SleepBudget
<1>1. IInv => SleepBudget
  BY BudgetNat DEF IInv, TypeOK, SleepBudget, Ended
<1> QED
  BY <1>1, Invariance, PTL

LEMMA PromiseStep == IInv /\ [Next]_vars => [Promise!Next]_(Promise!vars)
<1> SUFFICES ASSUME IInv, [Next]_vars PROVE [Promise!Next]_(Promise!vars)
  OBVIOUS
<1> USE BudgetNat, CallAssumption
<1>0. TypeOK
  BY DEF IInv
<1>1. CASE Succeed
  <2>1. Len(trail') = Len(trail) + 1
    BY <1>0, <1>1, RecordAppends DEF Succeed, TypeOK
  <2>2. /\ ~Ended /\ Ended' /\ lastCode' = "ok" /\ applied' = applied + 1
        /\ Attempts = trail /\ Attempts' = trail' /\ Len(trail) < Budget
    BY <1>1 DEF Succeed, Ended, Attempts, IInv
  <2> QED
    BY <2>1, <2>2 DEF Promise!Next, Promise!Attempt
<1>2. ASSUME NEW code \in ErrorCodes, NEW done \in BOOLEAN,
             FailForGood(code, done) \/ FailAndRetry(code, done)
      PROVE  Promise!Next
  <2>1. Len(trail') = Len(trail) + 1
    BY <1>0, <1>2, RecordAppends DEF FailForGood, FailAndRetry, Error, TypeOK
  <2>2. code # "ok"
    BY DEF ErrorCodes, NotFoundCodes, RateLimitedCodes, TransientCodes,
           DeniedCodes, OtherCodes, NoCode
  <2>3. /\ ~Ended /\ applied' \in {applied, applied + 1} /\ lastCode' = code
        /\ Attempts = trail /\ Attempts' = trail' /\ Len(trail) < Budget
    BY <1>2 DEF FailForGood, FailAndRetry, Error, Ended, Attempts, IInv
  <2> QED
    BY <2>1, <2>2, <2>3 DEF Promise!Next, Promise!Attempt
<1>3. CASE Sleep
  BY <1>3 DEF Sleep, Ended, Attempts, Promise!vars
<1>4. CASE Exit
  BY <1>4 DEF Exit, Ended, Attempts, Promise!vars
<1>5. CASE UNCHANGED vars
  BY <1>5 DEF vars, Ended, Attempts, Promise!vars
<1> QED
  BY <1>1, <1>2, <1>3, <1>4, <1>5 DEF Next

\* For every value of retries, the retry loop implements AtLeastOnce: its
\* initial state is one of the promise and every step is a step of it or a
\* stutter.  (That the call ends, the other half of KeepsPromise, is left to
\* TLC.)
THEOREM ImplementsPromise == Spec => Promise!Safety
<1>1. Init => Promise!Init
  BY DEF Init, Promise!Init, Ended, Attempts
<1> QED
  BY <1>1, PromiseStep, Invariance, PTL DEF Spec, Promise!Safety

-----------------------------------------------------------------------------
(* A wait.                                                                 *)

USE DEF kind, delay, Clocked, external

\* A call or a sleep in progress has not taken longer than it may.
Paced ==
  /\ at \in {"poll", "reply", "report"} => clock <= sent + MaxPoll
  /\ at = "sleep" => clock <= sent + delay /\ waited <= sent
  /\ at = "start" => clock = 0

\* Between two polls: the latest one was not long ago, and a resource that is
\* there now got there after it.
Watched ==
  /\ at = "reply" => /\ sent <= read
                     /\ value = "open" /\ resource = "met" => since >= read
  /\ at \in {"sleep", "test", "report"} /\ resource = "met" => since >= read
  /\ at = "sleep" => sent <= read + MaxPoll
  /\ at = "test" => clock <= read + MaxPoll + delay
  /\ at = "report" => wait.timeout <= sent /\ sent <= read + MaxPoll + delay
  /\ NoEarlyTimeout

\* How far past the deadline a loop on poll_until can be.
Punctual ==
  Clocked /\ wait.timeout > 0 =>
    /\ at \in {"poll", "reply"} => sent < wait.timeout
    /\ at = "sleep" => sent < wait.timeout + MaxPoll
    /\ at = "test" => clock < wait.timeout + MaxPoll + delay
    /\ at = "report" => sent < wait.timeout + MaxPoll + delay
    /\ at = "start" => sent = 0
    /\ clock < wait.timeout + 2 * MaxPoll + delay

\* What was observed of a deletion or of a task that has ended stays so.
Truthful ==
  /\ ~Clocked /\ at = "reply" => /\ value = "met" => resource = "met"
                                 /\ value = "failed" => resource = "failed"
  /\ OutcomeIsTrue

WaitInv == WaitTypeOK /\ Paced /\ Watched /\ Punctual /\ Truthful

LEMMA WaitTyped ==
  ASSUME wait \in Waits
  PROVE  /\ wait.timeout \in Int /\ wait.delay \in Nat /\ wait.check \in BOOLEAN
         /\ wait.kind \in Kinds /\ MaxPoll \in Nat
  BY WaiterAssumption DEF Wait

LEMMA WaitInitInv == WaitInit => WaitInv
<1> SUFFICES ASSUME WaitInit PROVE WaitInv
  OBVIOUS
<1>1. WaitTypeOK
  BY WaiterAssumption DEF WaitInit, WaitTypeOK
<1>2. Paced /\ Watched /\ Punctual /\ Truthful
  BY WaitTyped DEF WaitInit, Paced, Watched, Punctual, Truthful, NoEarlyTimeout, OutcomeIsTrue
<1> QED
  BY <1>1, <1>2 DEF WaitInv

LEMMA ChangePreserves == ASSUME WaitInv, Change PROVE WaitInv'
<1> USE WaitTyped DEF WaitInv, Change
<1>1. WaitTypeOK'
  BY WaiterAssumption DEF WaitTypeOK
<1>2. Paced' /\ Punctual'
  BY DEF WaitTypeOK, Paced, Punctual
<1>3. Watched'
  BY DEF WaitTypeOK, Watched, NoEarlyTimeout
<1>4. Truthful'
  BY DEF WaitTypeOK, Truthful, OutcomeIsTrue, Kinds
<1> QED
  BY <1>1, <1>2, <1>3, <1>4

LEMMA TickPreserves == ASSUME WaitInv, Tick PROVE WaitInv'
<1> USE WaitTyped DEF WaitInv, Tick
<1>1. WaitTypeOK'
  BY DEF WaitTypeOK
<1>2. Paced'
  BY DEF WaitTypeOK, Paced
<1>3. Punctual'
  BY DEF WaitTypeOK, Paced, Punctual
<1>4. Watched'
  BY DEF WaitTypeOK, Watched, NoEarlyTimeout
<1>5. Truthful'
  BY DEF WaitTypeOK, Truthful, OutcomeIsTrue
<1> QED
  BY <1>1, <1>2, <1>3, <1>4, <1>5

LEMMA BeginPreserves == ASSUME WaitInv, Start \/ Test PROVE WaitInv'
<1> USE WaitTyped DEF WaitInv, Start, Test, Go, Finish
<1>1. WaitTypeOK'
  BY DEF WaitTypeOK
<1>2. Paced'
  BY DEF WaitTypeOK, Paced
<1>3. Punctual'
  BY DEF WaitTypeOK, Paced, Punctual, InTime
<1>4. Watched'
  BY DEF WaitTypeOK, Paced, Watched, NoEarlyTimeout, InTime
<1>5. Truthful'
  BY DEF WaitTypeOK, Truthful, OutcomeIsTrue
<1> QED
  BY <1>1, <1>2, <1>3, <1>4, <1>5

LEMMA PollPreserves == ASSUME WaitInv, Poll \/ PollFails PROVE WaitInv'
<1> USE WaitTyped DEF WaitInv, Poll, PollFails, Go, Finish
<1>1. WaitTypeOK'
  BY DEF WaitTypeOK
<1>2. Paced'
  BY DEF WaitTypeOK, Paced
<1>3. Punctual'
  BY DEF WaitTypeOK, Paced, Punctual
<1>4. Watched'
  BY DEF WaitTypeOK, Watched, NoEarlyTimeout
<1>5. Truthful'
  BY DEF WaitTypeOK, Truthful, OutcomeIsTrue
<1> QED
  BY <1>1, <1>2, <1>3, <1>4, <1>5

LEMMA JudgePreserves == ASSUME WaitInv, Judge PROVE WaitInv'
<1> USE WaitTyped DEF WaitInv, Judge, Go, Finish
<1>1. WaitTypeOK'
  BY DEF WaitTypeOK
<1>2. Paced'
  BY DEF WaitTypeOK, Paced
<1>3. Punctual'
  BY DEF WaitTypeOK, Paced, Punctual
<1>4. Watched'
  BY DEF WaitTypeOK, Paced, Watched, NoEarlyTimeout
<1>5. Truthful'
  BY DEF WaitTypeOK, Truthful, OutcomeIsTrue
<1> QED
  BY <1>1, <1>2, <1>3, <1>4, <1>5

LEMMA EndPreserves == ASSUME WaitInv, Wake \/ Report PROVE WaitInv'
<1> USE WaitTyped DEF WaitInv, Wake, Report, Go, Finish
<1>1. WaitTypeOK'
  BY DEF WaitTypeOK, Paced
<1>2. Paced'
  BY DEF WaitTypeOK, Paced
<1>3. Punctual'
  BY DEF WaitTypeOK, Paced, Punctual
<1>4. Watched'
  BY DEF WaitTypeOK, Paced, Watched, NoEarlyTimeout
<1>5. Truthful'
  BY DEF WaitTypeOK, Truthful, OutcomeIsTrue
<1> QED
  BY <1>1, <1>2, <1>3, <1>4, <1>5

LEMMA WaitStepInv == WaitInv /\ [WaitNext]_waitVars => WaitInv'
<1> SUFFICES ASSUME WaitInv, [WaitNext]_waitVars PROVE WaitInv'
  OBVIOUS
<1>1. CASE Step
  BY <1>1, BeginPreserves, PollPreserves, JudgePreserves, EndPreserves DEF Step
<1>2. CASE Tick
  BY <1>2, TickPreserves
<1>3. CASE Change
  BY <1>3, ChangePreserves
<1>4. CASE UNCHANGED waitVars
  BY <1>4 DEF waitVars, WaitInv, WaitTypeOK, Paced, Watched, Punctual, Truthful, NoEarlyTimeout,
     OutcomeIsTrue
<1> QED
  BY <1>1, <1>2, <1>3, <1>4 DEF WaitNext

LEMMA WaitInvariance == WaitSpec => []WaitInv
BY WaitInitInv, WaitStepInv, PTL DEF WaitSpec

-----------------------------------------------------------------------------
\* The variables keep their shapes, and a wait has an outcome when it is over.
THEOREM WaitTypeCorrect == WaitSpec => []WaitTypeOK
<1>1. WaitInv => WaitTypeOK
  BY DEF WaitInv
<1> QED BY <1>1, WaitInvariance, PTL

\* A deletion or a task is reported done only when it is.
THEOREM OutcomeIsTrueAlways == WaitSpec => []OutcomeIsTrue
<1>1. WaitInv => OutcomeIsTrue
  BY DEF WaitInv, Truthful
<1> QED BY <1>1, WaitInvariance, PTL

\* No wait times out before its time, nor on a resource that was ready one
\* delay and one poll before.
THEOREM NoEarlyTimeoutAlways == WaitSpec => []NoEarlyTimeout
<1>1. WaitInv => NoEarlyTimeout
  BY DEF WaitInv, Watched
<1> QED BY <1>1, WaitInvariance, PTL

\* A wait on poll_until exceeds its timeout by less than two polls and a delay.
THEOREM EndsOnTimeAlways == WaitSpec => []EndsOnTime
<1>1. WaitInv => EndsOnTime
  BY DEF WaitInv, Punctual, EndsOnTime
<1> QED BY <1>1, WaitInvariance, PTL

-----------------------------------------------------------------------------
(* The inventory: the runs of tc_inventory and their cache.                *)

(***************************************************************************)
(* What is in the cache: the inventory of a fetch that was completed, by a *)
(* run whose cache was on and whose options make that key.                 *)
(***************************************************************************)
Filled(k) ==
  \E f \in fetches :
    /\ f.by \in DOMAIN script /\ f.results = cache[k]
    /\ UseCache(script[f.by]) /\ CacheKey(script[f.by]) = k

FInv ==
  /\ script \in Seq(Run) /\ run \in Nat \ {0} /\ DOMAIN shown = DOMAIN script
  /\ mode = "walk" => run <= Len(script)
  /\ \A k \in DOMAIN cache : Filled(k)
  /\ ServedOwn

LEMMA InScript ==
  ASSUME FInv, run <= Len(script)
  PROVE  run \in DOMAIN script
BY DEF FInv

LEMMA InitFInv == InventoryInit => FInv
  BY InventoryAssumption DEF InventoryInit, FInv, ServedOwn

\* Runs with the same key ask the account the same: the key tells apart whatever
\* the listings and the entries depend on.
LEMMA SameKeySameQuery ==
  ASSUME NEW q, NEW r, CacheKey(q) = CacheKey(r)
  PROVE  Query(q) = Query(r)
<1>1. /\ q.path = r.path /\ Resolved(q.sources) = Resolved(r.sources)
      /\ q.regions = r.regions /\ q.filters = r.filters /\ q.dedupe = r.dedupe
  BY DEF CacheKey
<1>2. Plan(q) = Plan(r)
  BY <1>1 DEF Plan
<1> QED
  BY <1>1, <1>2 DEF Query

\* A run that ends: what it shows is accounted for, and nothing else changes.
LEMMA EndsKeeps ==
  ASSUME FInv, run <= Len(script), NEW how, NEW results, Ends(how, results),
         UNCHANGED script, fetches \subseteq fetches',
         \A k \in DOMAIN cache' : Filled(k)',
         how \in {"fetched", "cached"} =>
           \E f \in fetches' :
             /\ f.results = results
             /\ \/ f.by = run
                \/ /\ UseCache(script[run]) /\ UseCache(script[f.by])
                   /\ Query(script[run]) = Query(script[f.by])
  PROVE  FInv'
<1>1. /\ run \in DOMAIN script /\ shown' = [shown EXCEPT ![run] = <<[how |-> how, results |-> results]>>]
      /\ run' = run + 1 /\ mode' = "idle"
  BY InScript DEF Ends
<1>2. run' \in Nat \ {0} /\ DOMAIN shown' = DOMAIN script'
  BY <1>1 DEF FInv
<1>3. ServedOwn'
  <2>1. SUFFICES ASSUME NEW r \in DOMAIN script, shown'[r] # <<>>,
                        shown'[r][1].how \in {"fetched", "cached"}
                 PROVE  \E f \in fetches' :
                          /\ f.results = shown'[r][1].results
                          /\ \/ f.by = r
                             \/ /\ UseCache(script[r]) /\ UseCache(script[f.by])
                                /\ Query(script[r]) = Query(script[f.by])
    BY DEF ServedOwn
  <2>2. CASE r = run
    <3>1. shown'[r] = <<[how |-> how, results |-> results]>>
      BY <1>1, <2>2 DEF FInv
    <3>2. shown'[r][1].how = how /\ shown'[r][1].results = results
      BY <3>1
    <3> QED
      BY <3>2, <2>1, <2>2
  <2>3. CASE r # run
    <3>1. shown'[r] = shown[r]
      BY <1>1, <2>3 DEF FInv
    <3> QED
      BY <3>1, <2>1 DEF FInv, ServedOwn
  <2> QED
    BY <2>2, <2>3
<1> QED
  BY <1>1, <1>2, <1>3 DEF FInv

LEMMA ParseKeepsFInv ==
  ASSUME FInv, Parse
  PROVE  FInv'
<1>0. /\ run <= Len(script) /\ UNCHANGED <<script, cache, fetches>>
      /\ This = script[run] /\ run \in DOMAIN script
  BY InScript DEF Parse, This
<1>1. \A k \in DOMAIN cache' : Filled(k)'
  BY <1>0 DEF FInv, Filled
<1>2. CASE Ends("refused", <<>>)
  BY <1>0, <1>1, <1>2, EndsKeeps
<1>3. CASE /\ UseCache(This) /\ CacheKey(This) \in DOMAIN cache
           /\ Ends("cached", cache[CacheKey(This)])
  <2>1. PICK f \in fetches :
          /\ f.by \in DOMAIN script /\ f.results = cache[CacheKey(This)]
          /\ UseCache(script[f.by]) /\ CacheKey(script[f.by]) = CacheKey(This)
    BY <1>3 DEF FInv, Filled
  <2>2. Query(script[run]) = Query(script[f.by])
    BY <2>1, <1>0, SameKeySameQuery
  <2> QED
    BY <1>0, <1>1, <1>3, <2>1, <2>2, EndsKeeps
<1>4. CASE UNCHANGED <<run, shown>>
  BY <1>0, <1>1, <1>4 DEF FInv, ServedOwn
<1> QED
  BY <1>2, <1>3, <1>4 DEF Parse

LEMMA PageKeepsFInv ==
  ASSUME FInv, Page
  PROVE  FInv'
<1>0. /\ run <= Len(script) /\ UNCHANGED script
      /\ This = script[run] /\ run \in DOMAIN script
  BY InScript DEF Page, FInv, This
<1>1. CASE Ends("repeated", <<>>) /\ UNCHANGED <<cache, fetches>>
  <2>1. \A k \in DOMAIN cache' : Filled(k)'
    BY <1>0, <1>1 DEF FInv, Filled
  <2> QED
    BY <1>0, <1>1, <2>1, EndsKeeps
<1>2. CASE UNCHANGED <<run, mode, cache, shown, fetches>>
  BY <1>0, <1>2 DEF FInv, Filled, ServedOwn
<1>3. ASSUME NEW found,
             cache' = IF UseCache(This)
                      THEN [k \in DOMAIN cache \cup {CacheKey(This)} |->
                              IF k = CacheKey(This) THEN found ELSE cache[k]]
                      ELSE cache,
             fetches' = fetches \cup {[by |-> run, results |-> found]},
             Ends("fetched", found)
      PROVE  FInv'
  <2> DEFINE new == [by |-> run, results |-> found]
  <2>1. new \in fetches' /\ fetches \subseteq fetches' /\ new.by = run /\ new.results = found
    BY <1>3
  <2> HIDE DEF new
  <2>2. ASSUME NEW k \in DOMAIN cache'
        PROVE  Filled(k)'
    <3>1. CASE UseCache(This) /\ k = CacheKey(This)
      <4>1. cache'[k] = found
        BY <1>3, <3>1
      <4> QED
        BY <4>1, <3>1, <2>1, <1>0 DEF Filled
    <3>2. CASE ~(UseCache(This) /\ k = CacheKey(This))
      <4>1. k \in DOMAIN cache /\ cache'[k] = cache[k]
        BY <1>3, <3>2, <2>2
      <4> QED
        BY <4>1, <2>1, <1>0 DEF FInv, Filled
    <3> QED
      BY <3>1, <3>2
  <2> QED
    BY <1>0, <1>3, <2>1, <2>2, EndsKeeps
<1> QED
  BY <1>1, <1>2, <1>3 DEF Page

LEMMA StepFInv == FInv /\ [InventoryNext]_inventoryVars => FInv'
<1> SUFFICES ASSUME FInv, [InventoryNext]_inventoryVars
             PROVE  FInv'
  OBVIOUS
<1>1. CASE Fail
  <2>1. /\ run <= Len(script) /\ UNCHANGED <<script, cache, fetches>> /\ Ends("failed", <<>>)
    BY <1>1 DEF Fail, FInv
  <2>2. \A k \in DOMAIN cache' : Filled(k)'
    BY <2>1 DEF FInv, Filled
  <2> QED
    BY <2>1, <2>2, EndsKeeps
<1>2. CASE UNCHANGED <<script, run, mode, cache, shown, fetches>>
  BY <1>2 DEF FInv, Filled, ServedOwn
<1>3. ASSUME NEW l \in Listing, ListChange(l)
      PROVE  UNCHANGED <<script, run, mode, cache, shown, fetches>>
  BY <1>3 DEF ListChange
<1> QED
  BY ParseKeepsFInv, PageKeepsFInv, <1>1, <1>2, <1>3 DEF InventoryNext, inventoryVars

(***************************************************************************)
(* What a run shows was fetched to the end for what it asks, by itself or, *)
(* where the cache may answer, by an earlier run with the same query, for  *)
(* every script of options, every account and every list API.              *)
(***************************************************************************)
THEOREM ServedOwnAlways == InventorySpec => []ServedOwn
<1>1. InventoryInit => FInv
  BY InitFInv
<1>2. FInv /\ [InventoryNext]_inventoryVars => FInv'
  BY StepFInv
<1>3. FInv => ServedOwn
  BY DEF FInv
<1> QED
  BY <1>1, <1>2, <1>3, PTL DEF InventorySpec

-----------------------------------------------------------------------------
(* Positions and ranks: what Pick takes out of a sequence.                 *)

Below == {ss \in Nat \X Nat : ss[1] < ss[2]}

LEMMA BelowWF == IsWellFoundedOn(Below, Nat)
  BY NatLessThanWellFounded DEF OpToRel, Below

\* A non-empty set of numbers has a least one.
LEMMA HasLeast ==
  ASSUME NEW T \in SUBSET Nat, T # {}
  PROVE  \E x \in T : \A y \in T : x <= y
<1>1. PICK x \in T : \A y \in T : ~ (<<y, x>> \in Below)
  BY BelowWF, WFMin
<1>2. ASSUME NEW y \in T PROVE x <= y
  <2>1. <<y, x>> \notin Below /\ x \in Nat /\ y \in Nat
    BY <1>1
  <2>2. ~(y < x)
    BY <2>1 DEF Below
  <2> QED
    BY <2>1, <2>2
<1> QED
  BY <1>2

\* How many of the positions P are not past n.
Rank(P, n) == Cardinality({k \in P : k <= n})

LEMMA RankType ==
  ASSUME NEW N \in Nat, NEW P \in SUBSET (1 .. N)
  PROVE  /\ IsFiniteSet(P) /\ Cardinality(P) \in Nat
         /\ \A n : IsFiniteSet({k \in P : k <= n}) /\ Rank(P, n) \in Nat
<1>1. IsFiniteSet(1 .. N)
  BY FS_Interval
<1>2. \A Q \in SUBSET (1 .. N) : IsFiniteSet(Q) /\ Cardinality(Q) \in Nat
  BY <1>1, FS_Subset, FS_CardinalityType
<1> QED
  BY <1>2 DEF Rank

LEMMA RankEnds ==
  ASSUME NEW N \in Nat, NEW P \in SUBSET (1 .. N)
  PROVE  Rank(P, 0) = 0 /\ Rank(P, N) = Cardinality(P)
<1>0. \A k \in P : k \in Nat /\ 1 <= k /\ k <= N
  OBVIOUS
<1>1. {k \in P : k <= N} = P
  BY <1>0
<1>2. ASSUME NEW k \in P, k <= 0 PROVE FALSE
  BY <1>0, <1>2
<1>3. {k \in P : k <= 0} = {}
  BY <1>2
<1> QED
  BY <1>1, <1>3, FS_EmptySet DEF Rank

LEMMA RankStep ==
  ASSUME NEW N \in Nat, NEW P \in SUBSET (1 .. N), NEW n \in Nat
  PROVE  Rank(P, n + 1) = IF n + 1 \in P THEN Rank(P, n) + 1 ELSE Rank(P, n)
<1> DEFINE Q == {k \in P : k <= n}
<1>0. \A k \in P : k \in Nat /\ (k <= n + 1 <=> k <= n \/ k = n + 1)
  OBVIOUS
<1>1. IsFiniteSet(Q)
  BY RankType
<1>2. CASE n + 1 \in P
  <2>1. n + 1 \notin Q
    OBVIOUS
  <2>2. ASSUME NEW k PROVE k \in {i \in P : i <= n + 1} <=> k \in Q \cup {n + 1}
    BY <1>0, <1>2
  <2>3. {k \in P : k <= n + 1} = Q \cup {n + 1}
    BY <2>2
  <2> QED
    BY <1>1, <1>2, <2>1, <2>3, FS_AddElement DEF Rank
<1>3. CASE n + 1 \notin P
  <2>1. {k \in P : k <= n + 1} = Q
    BY <1>0, <1>3
  <2> QED
    BY <1>3, <2>1 DEF Rank
<1> QED
  BY <1>2, <1>3

LEMMA RankMono ==
  ASSUME NEW N \in Nat, NEW P \in SUBSET (1 .. N), NEW m \in P, NEW n \in P, m < n
  PROVE  Rank(P, m) < Rank(P, n)
<1> DEFINE Q == {k \in P : k <= m}
           R == {k \in P : k <= n}
<1>1. IsFiniteSet(R) /\ Q \in SUBSET R /\ n \in R /\ n \notin Q /\ IsFiniteSet(Q)
  <2>1. IsFiniteSet(R) /\ IsFiniteSet(Q)
    BY RankType
  <2>2. \A k \in P : k \in Nat
    OBVIOUS
  <2>3. n \in R /\ n \notin Q /\ \A k \in Q : k \in R
    BY <2>2
  <2> QED
    BY <2>1, <2>3
<1>2. Cardinality(Q) <= Cardinality(R) /\ Cardinality(R) # Cardinality(Q)
  BY <1>1, FS_Subset
<1> QED
  BY <1>1, <1>2, FS_CardinalityType DEF Rank

\* The positions, by rank.
Place(P, m) == CHOOSE n \in P : Rank(P, n) = m

LEMMA PlaceIs ==
  ASSUME NEW N \in Nat, NEW P \in SUBSET (1 .. N), NEW m \in 1 .. Cardinality(P)
  PROVE  Place(P, m) \in P /\ Rank(P, Place(P, m)) = m
<1> DEFINE T == {n \in Nat : Rank(P, n) >= m}
<1>1. N \in T /\ 0 \notin T /\ Cardinality(P) \in Nat
  <2>1. Rank(P, 0) = 0 /\ Rank(P, N) = Cardinality(P) /\ Cardinality(P) \in Nat
    BY RankEnds, RankType
  <2> QED
    BY <2>1
<1>2. PICK n \in T : \A y \in T : n <= y
  BY <1>1, HasLeast
<1>3. n \in Nat /\ n # 0 /\ n - 1 \in Nat /\ n - 1 \notin T
  <2>1. n \in Nat /\ n # 0
    BY <1>1, <1>2
  <2>2. n - 1 \in Nat /\ n - 1 < n
    BY <2>1
  <2> HIDE DEF T
  <2>3. ASSUME n - 1 \in T PROVE FALSE
    BY <1>2, <2>1, <2>2, <2>3
  <2> QED
    BY <2>1, <2>2, <2>3
<1>4. Rank(P, n - 1) < m /\ Rank(P, n) >= m /\ Rank(P, n) \in Nat /\ Rank(P, n - 1) \in Nat
  <2>1. Rank(P, n) \in Nat /\ Rank(P, n - 1) \in Nat
    BY RankType
  <2>2. Rank(P, n) >= m /\ ~(Rank(P, n - 1) >= m)
    BY <1>2, <1>3
  <2> QED
    BY <2>1, <2>2
<1>5. Rank(P, (n - 1) + 1) = IF (n - 1) + 1 \in P THEN Rank(P, n - 1) + 1 ELSE Rank(P, n - 1)
  BY <1>3, RankStep
<1>6. (n - 1) + 1 = n
  BY <1>3
<1>7. n \in P /\ Rank(P, n) = m
  BY <1>4, <1>5, <1>6, <1>1
<1> QED
  BY <1>7 DEF Place

LEMMA PlaceUnique ==
  ASSUME NEW N \in Nat, NEW P \in SUBSET (1 .. N), NEW m \in 1 .. Cardinality(P),
         NEW n \in P, Rank(P, n) = m
  PROVE  Place(P, m) = n
<1> DEFINE p == Place(P, m)
<1>1. p \in P /\ Rank(P, p) = m
  BY PlaceIs
<1> HIDE DEF p
<1>2. p \in Nat /\ n \in Nat /\ Rank(P, n) \in Nat
  BY <1>1, RankType
<1>3. ASSUME p < n PROVE FALSE
  <2>1. Rank(P, p) < Rank(P, n)
    BY <1>1, <1>3, RankMono
  <2> QED
    BY <1>1, <1>2, <2>1
<1>4. ASSUME n < p PROVE FALSE
  <2>1. Rank(P, n) < Rank(P, p)
    BY <1>1, <1>4, RankMono
  <2> QED
    BY <1>1, <1>2, <2>1
<1> QED
  BY <1>2, <1>3, <1>4 DEF p

\* In order, and each position once.
LEMMA PlaceMono ==
  ASSUME NEW N \in Nat, NEW P \in SUBSET (1 .. N),
         NEW m \in 1 .. Cardinality(P), NEW n \in 1 .. Cardinality(P), Place(P, m) = Place(P, n)
  PROVE  m = n
BY PlaceIs

LEMMA PickAt ==
  ASSUME NEW s, NEW P
  PROVE  Pick(s, P) = [m \in 1 .. Cardinality(P) |-> s[Place(P, m)]]
BY DEF Pick, Place, Rank

LEMMA PickSeq ==
  ASSUME NEW S, NEW s \in Seq(S), NEW P \in SUBSET DOMAIN s
  PROVE  /\ Pick(s, P) \in Seq(S) /\ Len(Pick(s, P)) = Cardinality(P)
         /\ \A m \in 1 .. Cardinality(P) : Place(P, m) \in P /\ Pick(s, P)[m] = s[Place(P, m)]
         /\ (P # {} => Pick(s, P) # <<>>)
<1>1. Len(s) \in Nat /\ P \in SUBSET (1 .. Len(s))
  OBVIOUS
<1>2. \A m \in 1 .. Cardinality(P) : Place(P, m) \in P
  BY <1>1, PlaceIs
<1>3. Cardinality(P) \in Nat /\ IsFiniteSet(P)
  BY <1>1, RankType
<1> DEFINE k == Pick(s, P)
<1>4. k = [m \in 1 .. Cardinality(P) |-> s[Place(P, m)]]
  BY PickAt
<1> HIDE DEF k
<1>5. k \in Seq(S)
  BY <1>1, <1>2, <1>3, <1>4
<1>6. Len(k) = Cardinality(P)
  BY <1>3, <1>4, <1>5
<1>7. P # {} => k # <<>>
  BY <1>3, <1>6, FS_EmptySet
<1> QED
  BY <1>2, <1>4, <1>5, <1>6, <1>7 DEF k

LEMMA PickInjective ==
  ASSUME NEW S, NEW s \in Seq(S), NEW P \in SUBSET DOMAIN s, IsInjective(s)
  PROVE  IsInjective(Pick(s, P))
<1> DEFINE k == Pick(s, P)
<1>1. /\ k \in Seq(S) /\ Len(k) = Cardinality(P)
      /\ \A m \in 1 .. Cardinality(P) : Place(P, m) \in P /\ k[m] = s[Place(P, m)]
  BY PickSeq
<1> HIDE DEF k
<1>2. Len(s) \in Nat /\ P \in SUBSET (1 .. Len(s)) /\ DOMAIN k = 1 .. Cardinality(P)
  BY <1>1
<1>3. SUFFICES ASSUME NEW m \in 1 .. Cardinality(P), NEW n \in 1 .. Cardinality(P), k[m] = k[n]
               PROVE  m = n
  BY <1>2 DEF IsInjective, k
<1>4. s[Place(P, m)] = s[Place(P, n)] /\ Place(P, m) \in DOMAIN s /\ Place(P, n) \in DOMAIN s
  BY <1>1, <1>3
<1>5. Place(P, m) = Place(P, n)
  BY <1>4 DEF IsInjective
<1> QED
  BY <1>2, <1>5, PlaceMono

LEMMA PrefixIs ==
  ASSUME NEW S, NEW a \in Seq(S), NEW b \in Seq(S)
  PROVE  IsPrefix(a, b) <=> Len(a) <= Len(b) /\ \A n \in 1 .. Len(a) : a[n] = b[n]
<1>1. SubSeq(a, 1, Len(a)) = a
  OBVIOUS
<1>2. ASSUME Len(a) <= Len(b)
      PROVE  (a = SubSeq(b, 1, Len(a))) <=> \A n \in 1 .. Len(a) : a[n] = b[n]
  <2> DEFINE c == SubSeq(b, 1, Len(a))
  <2>1. c \in Seq(S) /\ Len(c) = Len(a) /\ \A n \in 1 .. Len(a) : c[n] = b[n]
    BY <1>2
  <2> HIDE DEF c
  <2>2. (a = c) <=> \A n \in 1 .. Len(a) : a[n] = c[n]
    BY <2>1
  <2> QED
    BY <2>1, <2>2 DEF c
<1> QED
  BY <1>1, <1>2 DEF IsPrefix

\* A sequence that grows at its end only: so does what is picked out of it.
LEMMA PickPrefix ==
  ASSUME NEW S, NEW a \in Seq(S), NEW b \in Seq(S), IsPrefix(a, b),
         NEW Q \in SUBSET DOMAIN b
  PROVE  IsPrefix(Pick(a, {n \in Q : n <= Len(a)}), Pick(b, Q))
<1> DEFINE P == {n \in Q : n <= Len(a)}
           u == Pick(a, P)
           v == Pick(b, Q)
<1>1. Len(a) <= Len(b) /\ \A n \in 1 .. Len(a) : a[n] = b[n]
  BY PrefixIs
<1>2. /\ Len(a) \in Nat /\ Len(b) \in Nat
      /\ P \in SUBSET (1 .. Len(a)) /\ P \in SUBSET DOMAIN a /\ Q \in SUBSET (1 .. Len(b))
  OBVIOUS
<1>3. /\ u \in Seq(S) /\ Len(u) = Cardinality(P)
      /\ \A m \in 1 .. Cardinality(P) : Place(P, m) \in P /\ u[m] = a[Place(P, m)]
  BY <1>2, PickSeq
<1>4. /\ v \in Seq(S) /\ Len(v) = Cardinality(Q)
      /\ \A m \in 1 .. Cardinality(Q) : Place(Q, m) \in Q /\ v[m] = b[Place(Q, m)]
  BY PickSeq
<1>5. Cardinality(P) <= Cardinality(Q) /\ Cardinality(P) \in Nat /\ Cardinality(Q) \in Nat
  <2>1. IsFiniteSet(Q) /\ P \in SUBSET Q
    BY <1>2, RankType
  <2> QED
    BY <2>1, <1>2, RankType, FS_Subset
<1> HIDE DEF u, v
<1>6. ASSUME NEW m \in 1 .. Len(u) PROVE u[m] = v[m]
  <2>1. Place(P, m) \in P /\ Rank(P, Place(P, m)) = m
    BY <1>2, <1>3, PlaceIs
  <2> DEFINE n == Place(P, m)
  <2>2. n \in Q /\ n <= Len(a) /\ n \in 1 .. Len(a)
    BY <2>1, <1>2
  <2> HIDE DEF n
  <2>3. {k \in P : k <= n} = {k \in Q : k <= n}
    <3>1. \A k \in Q : k \in Nat /\ (k <= n => k <= Len(a))
      BY <2>2, <1>2
    <3> QED
      BY <3>1
  <2>4. Rank(Q, n) = m
    BY <2>1, <2>3 DEF Rank, n
  <2>5. m \in 1 .. Cardinality(Q)
    BY <1>3, <1>5
  <2>6. Place(Q, m) = n
    BY <2>2, <2>4, <2>5, <1>2, PlaceUnique
  <2>7. u[m] = a[n] /\ v[m] = b[n]
    BY <1>3, <1>4, <2>5, <2>6 DEF n
  <2> QED
    BY <2>2, <2>7, <1>1
<1>7. IsPrefix(u, v)
  BY <1>3, <1>4, <1>5, <1>6, PrefixIs
<1> QED
  BY <1>7 DEF u, v

-----------------------------------------------------------------------------
(* The listings of a run.                                                  *)

LEMMA ResolvedIs ==
  ASSUME NEW S, NEW names \in Seq(S), names # <<>>
  PROVE  Resolved(names) \in Seq(S) /\ Resolved(names) # <<>>
<1> DEFINE P == {n \in DOMAIN names : \A m \in 1 .. n - 1 : names[m] # names[n]}
<1>1. P \in SUBSET DOMAIN names /\ 1 \in P
  OBVIOUS
<1> HIDE DEF P
<1>2. Pick(names, P) \in Seq(S) /\ Pick(names, P) # <<>>
  BY <1>1, PickSeq
<1> QED
  BY <1>2 DEF Resolved, P

\* A position of a grid, row by row.
LEMMA GridPosition ==
  ASSUME NEW rows \in Nat, NEW count \in Nat \ {0}, NEW n \in 1 .. rows * count
  PROVE  /\ 1 + ((n - 1) \div count) \in 1 .. rows
         /\ 1 + ((n - 1) % count) \in 1 .. count
<1> DEFINE q == (n - 1) \div count
           m == (n - 1) % count
<1>1. q \in Nat /\ m \in Nat /\ m < count /\ n - 1 = count * q + m /\ rows * count \in Nat
  OBVIOUS
<1> HIDE DEF q, m
<1>2. count * q < rows * count
  BY <1>1
<1>3. ASSUME q >= rows PROVE FALSE
  <2>1. PICK d \in Nat : q = rows + d
    BY <1>1, <1>3
  <2>2. count * q = rows * count + count * d /\ count * d \in Nat
    BY <2>1
  <2> QED
    BY <1>1, <1>2, <2>2
<1> QED
  BY <1>1, <1>3 DEF q, m

LEMMA PlanIs ==
  ASSUME NEW r \in Run, ~Refused(r)
  PROVE  Plan(r) \in Seq(Listing) /\ Plan(r) # <<>>
<1>1. /\ r.sources \in Seq(Sources \cup {"unknown"}) /\ r.sources # <<>>
      /\ \A n \in DOMAIN r.sources : r.sources[n] # "unknown"
      /\ r.regions \in Seq(Regions) /\ r.regions # <<>>
  BY DEF Refused, Run, ToSet
<1>2. r.sources \in Seq(Sources)
  <2>1. \A n \in 1 .. Len(r.sources) : r.sources[n] \in Sources
    BY <1>1
  <2> QED
    BY <1>1, <2>1
<1> DEFINE specs == Resolved(r.sources)
           count == Len(specs)
           rows == Len(r.regions)
           listing(n) == [region |-> r.regions[1 + ((n - 1) \div count)],
                          source |-> specs[1 + ((n - 1) % count)], cluster |-> None]
<1>3. specs \in Seq(Sources) /\ specs # <<>>
  BY <1>1, <1>2, ResolvedIs
<1> HIDE DEF specs
<1>4. count \in Nat \ {0} /\ rows \in Nat \ {0}
  BY <1>1, <1>3
<1>5. rows * count \in Nat /\ rows * count >= 1
  <2>1. PICK d \in Nat : rows = d + 1
    BY <1>4
  <2>2. rows * count = d * count + count /\ d * count \in Nat
    BY <1>4, <2>1
  <2> QED
    BY <1>4, <2>2
<1>6. ASSUME NEW n \in 1 .. rows * count
      PROVE  listing(n) \in Listing
  <2>1. 1 + ((n - 1) \div count) \in 1 .. rows /\ 1 + ((n - 1) % count) \in 1 .. count
    BY <1>4, GridPosition
  <2>2. /\ r.regions[1 + ((n - 1) \div count)] \in Regions
        /\ specs[1 + ((n - 1) % count)] \in Sources
    BY <1>1, <1>3, <2>1
  <2> QED
    BY <2>2 DEF Listing, Sources
<1>7. Plan(r) = [n \in 1 .. rows * count |-> listing(n)]
  BY DEF Plan, specs
<1> HIDE DEF count, rows, listing
<1>8. [n \in 1 .. rows * count |-> listing(n)] \in Seq(Listing)
  BY <1>5, <1>6
<1>9. Len([n \in 1 .. rows * count |-> listing(n)]) = rows * count
  BY <1>5, <1>8
<1> QED
  BY <1>5, <1>7, <1>8, <1>9

\* A sequence after another.
Joins(S, a, b, ab) ==
  /\ ab \in Seq(S) /\ Len(ab) = Len(a) + Len(b)
  /\ \A n \in 1 .. Len(a) : ab[n] = a[n]
  /\ \A n \in 1 .. Len(b) : ab[Len(a) + n] = b[n]

LEMMA Joined ==
  ASSUME NEW S, NEW a \in Seq(S), NEW b \in Seq(S)
  PROVE  Joins(S, a, b, a \o b)
BY DEF Joins

-----------------------------------------------------------------------------
(* The pages of a list.                                                    *)

\* The rows an API serves at most in a page.
Served == Least(PageSize, api.cap)

LEMMA WholePrefix ==
  ASSUME NEW S, NEW a \in Seq(S), NEW b \in Seq(S), IsPrefix(a, b), Len(a) >= Len(b)
  PROVE  a = b
<1>1. Len(a) <= Len(b) /\ \A n \in 1 .. Len(a) : a[n] = b[n]
  BY PrefixIs
<1>2. Len(a) = Len(b)
  BY <1>1
<1> QED
  BY <1>1, <1>2, SeqEqual

\* The k rows after the first from, or those there are.
PageOf(V, from, k) ==
  LET to == Least(from + k, Len(V)) IN IF from < to THEN SubSeq(V, from + 1, to) ELSE <<>>

\* A page that begins where the rows so far end.
NextIs(S, V, got, batch, k) ==
  /\ batch \in Seq(S) /\ got \o batch \in Seq(S) /\ IsPrefix(got \o batch, V)
  /\ Len(batch) = Least(k, Len(V) - Len(got))
  /\ Len(got \o batch) = Len(got) + Len(batch) /\ Len(got) <= Len(V)
  /\ batch = <<>> => got = V
  /\ batch # <<>> => Len(got) + 1 \in 1 .. Len(V) /\ batch[1] = V[Len(got) + 1]
  /\ Len(got \o batch) >= Len(V) => got \o batch = V

LEMMA NextPage ==
  ASSUME NEW S, NEW V \in Seq(S), NEW got \in Seq(S), IsPrefix(got, V),
         NEW k \in Nat \ {0}, NEW batch, batch = PageOf(V, Len(got), k)
  PROVE  NextIs(S, V, got, batch, k)
<1> DEFINE from == Len(got)
           to == Least(from + k, Len(V))
           all == got \o batch
<1>1. /\ from \in Nat /\ Len(V) \in Nat /\ from <= Len(V)
      /\ \A n \in 1 .. from : got[n] = V[n]
  BY PrefixIs
<1>2. to \in Nat /\ from <= to /\ to <= Len(V) /\ (from = to <=> from = Len(V))
      /\ to - from = Least(k, Len(V) - from)
  BY <1>1 DEF Least
<1>3. /\ batch \in Seq(S) /\ Len(batch) = to - from
      /\ \A n \in 1 .. Len(batch) : batch[n] = V[from + n]
  <2>1. CASE from < to
    <3>1. batch = SubSeq(V, from + 1, to)
      BY <2>1 DEF PageOf
    <3>2. /\ SubSeq(V, from + 1, to) \in Seq(S) /\ Len(SubSeq(V, from + 1, to)) = to - from
          /\ \A n \in 1 .. to - from : SubSeq(V, from + 1, to)[n] = V[from + n]
      BY <1>1, <1>2, <2>1
    <3> QED
      BY <3>1, <3>2
  <2>2. CASE ~(from < to)
    <3>1. batch = <<>> /\ to - from = 0
      BY <1>1, <1>2, <2>2 DEF PageOf
    <3> QED
      BY <3>1, EmptySeq
  <2> QED
    BY <2>1, <2>2
<1>4. /\ all \in Seq(S) /\ Len(all) = from + Len(batch)
      /\ \A n \in 1 .. from : all[n] = got[n]
      /\ \A n \in 1 .. Len(batch) : all[from + n] = batch[n]
  BY <1>1, <1>3
<1> HIDE DEF from, to, all
<1>5. \A n \in 1 .. Len(all) : all[n] = V[n]
  <2>1. ASSUME NEW n \in 1 .. Len(all) PROVE all[n] = V[n]
    <3>1. CASE n \in 1 .. from
      BY <1>1, <1>4, <3>1
    <3>2. CASE n \notin 1 .. from
      <4>1. PICK m \in 1 .. Len(batch) : n = from + m
        <5>1. n - from \in 1 .. Len(batch) /\ from + (n - from) = n
          BY <1>1, <1>2, <1>3, <1>4, <3>2
        <5> QED
          BY <5>1
      <4> QED
        BY <1>3, <1>4, <4>1
    <3> QED
      BY <3>1, <3>2
  <2> QED
    BY <2>1
<1>6. Len(all) <= Len(V)
  BY <1>1, <1>2, <1>3, <1>4
<1>7. IsPrefix(all, V)
  BY <1>4, <1>5, <1>6, PrefixIs
<1>8. Len(all) >= Len(V) => all = V
  BY <1>4, <1>7, WholePrefix
<1>9. ASSUME batch = <<>> PROVE got = V
  <2>1. Len(batch) = 0
    BY <1>3, <1>9, EmptySeq
  <2>2. from = Len(V)
    BY <1>1, <1>2, <1>3, <2>1
  <2>3. Len(got) = Len(V)
    BY <2>2 DEF from
  <2> QED
    BY <2>3, WholePrefix
<1>10. ASSUME batch # <<>>
       PROVE  from + 1 \in 1 .. Len(V) /\ batch[1] = V[from + 1]
  <2>1. Len(batch) \in Nat /\ Len(batch) # 0
    BY <1>3, <1>10
  <2> QED
    BY <1>1, <1>2, <1>3, <2>1
<1> QED
  BY <1>1, <1>2, <1>3, <1>4, <1>7, <1>8, <1>9, <1>10 DEF from, to, all, NextIs

\* Prefixes compose, and of two prefixes the shorter is one of the longer.
LEMMA PrefixOfPrefix ==
  ASSUME NEW S, NEW a \in Seq(S), NEW b \in Seq(S), NEW c \in Seq(S)
  PROVE  /\ IsPrefix(a, b) /\ IsPrefix(b, c) => IsPrefix(a, c)
         /\ IsPrefix(a, c) /\ IsPrefix(b, c) /\ Len(a) <= Len(b) => IsPrefix(a, b)
         /\ IsPrefix(a, a) /\ IsPrefix(<<>>, a)
<1>1. ASSUME IsPrefix(a, b), IsPrefix(b, c) PROVE IsPrefix(a, c)
  <2>1. /\ Len(a) <= Len(b) /\ \A n \in 1 .. Len(a) : a[n] = b[n]
        /\ Len(b) <= Len(c) /\ \A n \in 1 .. Len(b) : b[n] = c[n]
    BY <1>1, PrefixIs
  <2>2. Len(a) <= Len(c) /\ \A n \in 1 .. Len(a) : a[n] = c[n]
    BY <2>1
  <2> QED
    BY <2>2, PrefixIs
<1>2. ASSUME IsPrefix(a, c), IsPrefix(b, c), Len(a) <= Len(b) PROVE IsPrefix(a, b)
  <2>1. /\ \A n \in 1 .. Len(a) : a[n] = c[n]
        /\ \A n \in 1 .. Len(b) : b[n] = c[n]
    BY <1>2, PrefixIs
  <2>2. \A n \in 1 .. Len(a) : a[n] = b[n]
    BY <1>2, <2>1
  <2> QED
    BY <1>2, <2>2, PrefixIs
<1>3. IsPrefix(a, a)
  BY PrefixIs
<1>4. IsPrefix(<<>>, a)
  <2>1. <<>> \in Seq(S) /\ Len(<<>>) = 0
    OBVIOUS
  <2>2. Len(<<>>) <= Len(a) /\ \A n \in 1 .. Len(<<>>) : <<>>[n] = a[n]
    BY <2>1
  <2> QED
    BY <2>1, <2>2, PrefixIs
<1> QED
  BY <1>1, <1>2, <1>3, <1>4

LEMMA PrefixInjective ==
  ASSUME NEW S, NEW a \in Seq(S), NEW b \in Seq(S), IsPrefix(a, b), IsInjective(b)
  PROVE  IsInjective(a)
<1>1. Len(a) <= Len(b) /\ \A n \in 1 .. Len(a) : a[n] = b[n]
  BY PrefixIs
<1> QED
  BY <1>1 DEF IsInjective

-----------------------------------------------------------------------------
(***************************************************************************)
(* A walk in progress.  Of a list that so far has only grown at its end    *)
(* the rows walked are the first ones, and the page before is among them;  *)
(* of an API that ignores Offset there was one page, a full one.           *)
(***************************************************************************)
Row == Ids \cup Clusters
WalkType == [items : Seq(Row), offset : Nat, previous : Seq(Row), total : Int,
             began : Seq(Row), moved : BOOLEAN]

Kept(w, V) ==
  /\ w.items = <<>> => w.previous = <<>> /\ w.began = <<>> /\ w.total = -1
  /\ w.items # <<>> =>
       /\ w.began # <<>> /\ IsPrefix(w.began, V)
       /\ w.total = IF api.counts THEN Len(w.began) ELSE -1
       /\ api.honours =>
            /\ IsPrefix(w.items, V)
            /\ \E n \in 1 .. Len(w.items) : w.previous[1] = w.items[n]
       /\ ~api.honours => Len(V) >= Served /\ w.previous = SubSeq(V, 1, Served)

OnTheWay(w, l) ==
  /\ w.items \in Seq(Rows(l)) /\ w.previous \in Seq(Rows(l)) /\ w.began \in Seq(Rows(l))
  /\ w.offset = Len(w.items)

GInv ==
  /\ script \in Seq(Run) /\ api \in Api /\ run \in Nat \ {0} /\ DOMAIN shown = DOMAIN script
  /\ \A l \in Listing : world[l] \in Seq(Rows(l)) /\ IsInjective(world[l])
  /\ DOMAIN world = Listing
  /\ walk \in WalkType
  /\ mode = "walk" =>
       /\ run <= Len(script) /\ todo \in Seq(Listing) /\ todo # <<>>
       /\ OnTheWay(walk, Head(todo))
       /\ ~walk.moved => Kept(walk, Visible(Head(todo)))

LEMMA ServedNat ==
  ASSUME api \in Api
  PROVE  Served \in Nat \ {0} /\ Served <= PageSize /\ (api.cap >= PageSize => Served = PageSize)
BY InventoryAssumption DEF Served, Least, Api

LEMMA RowsIn == \A l \in Listing : Rows(l) \subseteq Row
  BY DEF Rows, Row

LEMMA FreshIs ==
  ASSUME NEW l \in Listing, NEW V
  PROVE  Fresh \in WalkType /\ OnTheWay(Fresh, l) /\ Kept(Fresh, V)
BY DEF Fresh, WalkType, OnTheWay, Kept

LEMMA VisibleIs ==
  ASSUME NEW l \in Listing, world[l] \in Seq(Rows(l)), IsInjective(world[l])
  PROVE  Visible(l) \in Seq(Rows(l)) /\ IsInjective(Visible(l))
<1> DEFINE P == {n \in DOMAIN world[l] : world[l][n] \in Shows[This.filters[l.source]]}
<1>1. P \in SUBSET DOMAIN world[l]
  OBVIOUS
<1>2. Visible(l) = Pick(world[l], P)
  BY DEF Visible
<1> HIDE DEF P
<1> QED
  BY <1>1, <1>2, PickSeq, PickInjective

LEMMA TurnedIs ==
  ASSUME NEW w \in WalkType, NEW reply
  PROVE  /\ Turned(w, reply).items = w.items \o reply.batch
         /\ Turned(w, reply).offset = w.offset + Len(reply.batch)
         /\ Turned(w, reply).previous = reply.batch
         /\ Turned(w, reply).total = IF w.total = -1 THEN reply.total ELSE w.total
         /\ Turned(w, reply).began = IF w.offset = 0 /\ w.total = -1
                                     THEN Visible(Head(todo)) ELSE w.began
         /\ Turned(w, reply).moved = w.moved
         /\ (/\ reply.batch \in Seq(Row) /\ reply.total \in Int /\ Visible(Head(todo)) \in Seq(Row))
            => Turned(w, reply) \in WalkType
<1> DEFINE items == w.items \o reply.batch
           offset == w.offset + Len(reply.batch)
           batch == reply.batch
           began == IF w.offset = 0 /\ w.total = -1 THEN Visible(Head(todo)) ELSE w.began
           total == IF w.total = -1 THEN reply.total ELSE w.total
<1>1. ASSUME reply.batch \in Seq(Row), reply.total \in Int, Visible(Head(todo)) \in Seq(Row)
      PROVE  /\ items \in Seq(Row) /\ offset \in Nat /\ batch \in Seq(Row)
             /\ began \in Seq(Row) /\ total \in Int
  BY <1>1 DEF WalkType
<1>2. Turned(w, reply) = [w EXCEPT !.items = items, !.offset = offset, !.previous = batch,
                                   !.total = total, !.began = began]
  BY DEF Turned
<1> HIDE DEF items, offset, batch, began, total
<1>3. /\ Turned(w, reply).items = items /\ Turned(w, reply).offset = offset
      /\ Turned(w, reply).previous = batch /\ Turned(w, reply).total = total
      /\ Turned(w, reply).began = began /\ Turned(w, reply).moved = w.moved
  BY <1>2 DEF WalkType
<1>4. ASSUME items \in Seq(Row), offset \in Nat, batch \in Seq(Row), began \in Seq(Row),
             total \in Int
      PROVE  Turned(w, reply) \in WalkType
  BY <1>2, <1>4 DEF WalkType
<1> QED
  BY <1>1, <1>3, <1>4 DEF items, offset, batch, began, total

LEMMA ReplyIs ==
  ASSUME GInv, NEW l \in Listing, NEW offset \in Nat
  PROVE  LET V == Visible(l)
             from == IF api.honours THEN offset ELSE 0
         IN  /\ Reply(l, offset).batch = PageOf(V, from, Served)
             /\ Reply(l, offset).batch \in Seq(Rows(l))
             /\ Reply(l, offset).total = IF api.counts THEN Len(V) ELSE -1
             /\ Reply(l, offset).total \in Int
<1> DEFINE V == Visible(l)
           from == IF api.honours THEN offset ELSE 0
           to == Least(from + Served, Len(V))
           batch == IF from < to THEN SubSeq(V, from + 1, to) ELSE <<>>
<1>1. Reply(l, offset).batch = batch /\ Reply(l, offset).total = IF api.counts THEN Len(V) ELSE -1
  BY DEF Reply, Served
<1>2. V \in Seq(Rows(l)) /\ Len(V) \in Nat
  <2>1. V \in Seq(Rows(l))
    BY VisibleIs DEF GInv
  <2> HIDE DEF V
  <2> QED
    BY <2>1
<1>3. from \in Nat /\ to \in Int /\ to <= Len(V)
  <2>1. from \in Nat /\ Served \in Nat
    BY ServedNat DEF GInv
  <2> HIDE DEF from, V
  <2> QED
    BY <1>2, <2>1 DEF Least
<1> HIDE DEF V, from, to
<1>4. batch \in Seq(Rows(l))
  BY <1>2, <1>3
<1> QED
  BY <1>1, <1>2, <1>4 DEF V, from, to, batch, PageOf

\* What a page is to the rows that have been walked.
LEMMA PageIs ==
  ASSUME GInv, mode = "walk", ~walk.moved
  PROVE  LET l == Head(todo)
             V == Visible(l)
             batch == Reply(l, walk.offset).batch
         IN  /\ l \in Listing /\ V \in Seq(Rows(l)) /\ IsInjective(V) /\ batch \in Seq(Rows(l))
             /\ api.honours => NextIs(Rows(l), V, walk.items, batch, Served)
             /\ ~api.honours =>
                  /\ IsPrefix(batch, V) /\ Len(batch) = Least(Served, Len(V))
                  /\ Len(V) >= Served => batch = SubSeq(V, 1, Served)
<1> DEFINE l == Head(todo)
           V == Visible(l)
           batch == Reply(l, walk.offset).batch
           got == walk.items
<1>1. l \in Listing /\ got \in Seq(Rows(l)) /\ walk.offset = Len(got) /\ walk.offset \in Nat
  BY DEF GInv, OnTheWay, WalkType
<1>2. V \in Seq(Rows(l)) /\ IsInjective(V) /\ Served \in Nat \ {0}
  BY <1>1, VisibleIs, ServedNat DEF GInv
<1>3. batch \in Seq(Rows(l))
  BY <1>1, ReplyIs
<1>4. api.honours => batch = PageOf(V, Len(got), Served)
  BY <1>1, ReplyIs
<1>5. ~api.honours => batch = PageOf(V, 0, Served)
  BY <1>1, ReplyIs
<1>6. api.honours => IsPrefix(got, V)
  <2>1. Kept(walk, V)
    BY DEF GInv
  <2>2. got = <<>> => IsPrefix(got, V)
    BY <1>2, PrefixOfPrefix
  <2> QED
    BY <2>1, <2>2 DEF Kept
<1> HIDE DEF l, V, batch, got
<1>7. ASSUME api.honours
      PROVE  NextIs(Rows(l), V, got, batch, Served)
  BY <1>1, <1>2, <1>4, <1>6, <1>7, NextPage
<1>8. ASSUME ~api.honours
      PROVE  /\ IsPrefix(batch, V) /\ Len(batch) = Least(Served, Len(V))
             /\ Len(V) >= Served => batch = SubSeq(V, 1, Served)
  <2> DEFINE none == <<>>
  <2>1. none \in Seq(Rows(l)) /\ IsPrefix(none, V) /\ Len(none) = 0
    BY <1>2, PrefixOfPrefix
  <2>2. none \o batch = batch /\ Len(V) - 0 = Len(V) /\ Len(V) \in Nat
    BY <1>2, <1>3
  <2> HIDE DEF none
  <2>3. batch = PageOf(V, Len(none), Served)
    BY <1>5, <1>8, <2>1
  <2>4. IsPrefix(none \o batch, V) /\ Len(batch) = Least(Served, Len(V) - Len(none))
    <3>1. NextIs(Rows(l), V, none, batch, Served)
      BY <1>1, <1>2, <2>1, <2>3, NextPage
    <3>2. IsPrefix(none \o batch, V) /\ Len(batch) = Least(Served, Len(V) - Len(none))
      BY <3>1 DEF NextIs
    <3> QED
      BY <3>2
  <2>5. ASSUME Len(V) >= Served PROVE batch = SubSeq(V, 1, Served)
    <3>1. Least(0 + Served, Len(V)) = Served /\ 0 < Served
      <4>1. \A s \in Nat \ {0}, n \in Nat : n >= s => Least(0 + s, n) = s /\ 0 < s
        BY DEF Least
      <4>2. Served \in Nat \ {0} /\ Len(V) \in Nat
        BY <1>2, <2>2
      <4> QED
        BY <2>5, <4>1, <4>2
    <3>2. PageOf(V, 0, Served) = SubSeq(V, 0 + 1, Served)
      BY <3>1, Zenon DEF PageOf
    <3>3. 0 + 1 = 1
      OBVIOUS
    <3> QED
      BY <1>5, <1>8, <3>2, <3>3, Zenon
  <2> QED
    BY <2>1, <2>2, <2>4, <2>5
<1> QED
  BY <1>1, <1>2, <1>3, <1>7, <1>8 DEF l, V, batch, got

\* A list walked page by page: no page is taken for the one before.
LEMMA NoPageTwice ==
  ASSUME GInv, mode = "walk", ~walk.moved, api.honours
  PROVE  ~Repeated(walk, Reply(Head(todo), walk.offset))
<1> DEFINE l == Head(todo)
           V == Visible(l)
           reply == Reply(l, walk.offset)
           batch == reply.batch
<1>1. /\ V \in Seq(Rows(l)) /\ IsInjective(V) /\ batch \in Seq(Rows(l))
      /\ NextIs(Rows(l), V, walk.items, batch, Served)
  BY PageIs
<1>2. Kept(walk, V) /\ walk.items \in Seq(Rows(l))
  BY DEF GInv, OnTheWay
<1> HIDE DEF l, V, reply
<1>3. SUFFICES ASSUME batch # <<>>, batch = walk.previous
               PROVE  FALSE
  BY DEF Repeated, l, reply
<1>4. walk.items # <<>>
  BY <1>2, <1>3 DEF Kept
<1>5. PICK n \in 1 .. Len(walk.items) : batch[1] = walk.items[n] /\ IsPrefix(walk.items, V)
  BY <1>2, <1>3, <1>4 DEF Kept
<1>6. batch[1] = V[Len(walk.items) + 1] /\ Len(walk.items) + 1 \in 1 .. Len(V)
  BY <1>1, <1>3 DEF NextIs
<1>7. Len(walk.items) <= Len(V) /\ walk.items[n] = V[n]
  BY <1>1, <1>2, <1>5, PrefixIs
<1>8. n \in 1 .. Len(V) /\ n # Len(walk.items) + 1 /\ DOMAIN V = 1 .. Len(V)
  BY <1>1, <1>2, <1>5, <1>7
<1> QED
  BY <1>1, <1>5, <1>6, <1>7, <1>8 DEF IsInjective

\* An API that ignores Offset: the second page is the first.
LEMMA SecondPageIsFirst ==
  ASSUME GInv, mode = "walk", ~walk.moved, ~api.honours, walk.items # <<>>
  PROVE  Repeated(walk, Reply(Head(todo), walk.offset))
<1> DEFINE l == Head(todo)
           V == Visible(l)
           reply == Reply(l, walk.offset)
           batch == reply.batch
<1>1. /\ V \in Seq(Rows(l)) /\ batch \in Seq(Rows(l))
      /\ Len(batch) = Least(Served, Len(V)) /\ (Len(V) >= Served => batch = SubSeq(V, 1, Served))
  BY PageIs
<1>2. Kept(walk, V) /\ Served \in Nat \ {0}
  BY ServedNat DEF GInv
<1> HIDE DEF l, V, reply
<1>3. Len(V) >= Served /\ batch = walk.previous
  BY <1>1, <1>2 DEF Kept
<1>4. Len(batch) # 0
  BY <1>1, <1>2, <1>3 DEF Least
<1>5. batch # <<>>
  BY <1>1, <1>4
<1> QED
  BY <1>3, <1>5 DEF Repeated, l, reply

\* What a page adds to a walk that goes on.
LEMMA KeptOn ==
  ASSUME GInv, mode = "walk", ~walk.moved, NEW reply, reply = Reply(Head(todo), walk.offset),
         NEW w, w = Turned(walk, reply), ~Repeated(walk, reply), ~Complete(w, reply)
  PROVE  Kept(w, Visible(Head(todo)))
<1> DEFINE l == Head(todo)
           V == Visible(l)
           batch == reply.batch
           got == walk.items
<1>1. /\ l \in Listing /\ V \in Seq(Rows(l)) /\ IsInjective(V) /\ batch \in Seq(Rows(l))
      /\ api.honours => NextIs(Rows(l), V, got, batch, Served)
      /\ ~api.honours =>
           /\ IsPrefix(batch, V) /\ Len(batch) = Least(Served, Len(V))
           /\ Len(V) >= Served => batch = SubSeq(V, 1, Served)
  BY PageIs
<1>2. /\ Kept(walk, V) /\ got \in Seq(Rows(l)) /\ walk.offset = Len(got) /\ walk \in WalkType
      /\ walk.began \in Seq(Rows(l))
  BY DEF GInv, OnTheWay
<1>3. reply.total = IF api.counts THEN Len(V) ELSE -1
  BY <1>1, <1>2, ReplyIs DEF WalkType
<1>4. /\ w.items = got \o batch /\ w.previous = batch
      /\ w.total = IF walk.total = -1 THEN reply.total ELSE walk.total
      /\ w.began = IF walk.offset = 0 /\ walk.total = -1 THEN V ELSE walk.began
  BY <1>2, TurnedIs
<1> HIDE DEF l, V, batch, got
<1>5. batch # <<>> /\ Len(batch) \in Nat \ {0} /\ Len(got) \in Nat /\ Len(V) \in Nat
  BY <1>1, <1>2 DEF Complete, batch
<1>6. Served \in Nat \ {0} /\ Served <= PageSize
  BY ServedNat DEF GInv
<1>7. w.items # <<>> /\ Len(w.items) = Len(got) + Len(batch) /\ w.items \in Seq(Rows(l))
  <2>1. got \o batch \in Seq(Rows(l)) /\ Len(got \o batch) = Len(got) + Len(batch)
    BY <1>1, <1>2, ConcatProperties
  <2>2. Len(w.items) # 0
    BY <1>4, <1>5, <2>1
  <2> QED
    BY <1>4, <2>1, <2>2, EmptySeq
<1>8. IsPrefix(w.items, V) \/ ~api.honours
  BY <1>1, <1>4 DEF NextIs
<1>9. CASE got = <<>>
  <2>1. w.total = reply.total /\ w.began = V
    BY <1>2, <1>4, <1>9 DEF Kept, got
  <2>2. w.items = batch
    BY <1>1, <1>4, <1>9
  <2>3. Len(batch) <= Len(V)
    BY <1>1, <1>2, <1>5, <1>6, <1>9 DEF NextIs, Least
  <2>4. V # <<>> /\ IsPrefix(V, V)
    BY <1>1, <1>5, <2>3, PrefixOfPrefix
  <2>5. ASSUME api.honours PROVE w.previous[1] = w.items[1] /\ 1 \in 1 .. Len(w.items)
    BY <1>4, <1>5, <1>7, <2>2
  <2>6. ASSUME ~api.honours PROVE Len(V) >= Served /\ w.previous = SubSeq(V, 1, Served)
    <3>1. Len(batch) = Least(Served, Len(V))
      BY <1>1, <2>6
    <3>2. IF w.total # -1 THEN Len(batch) < w.total ELSE Len(batch) >= PageSize
      <4>1. IF w.total # -1 THEN ~(Len(batch) >= w.total) ELSE ~(Len(batch) < PageSize)
        BY <2>2 DEF Complete, batch
      <4>2. w.total \in Int /\ PageSize \in Nat
        BY <1>3, <1>5, <2>1, InventoryAssumption
      <4> QED
        BY <1>5, <4>1, <4>2
    <3>3. Len(V) >= Served
      BY <1>3, <1>5, <1>6, <2>1, <3>1, <3>2, InventoryAssumption DEF Least
    <3> QED
      BY <1>1, <1>4, <2>6, <3>3
  <2>7. w.total = IF api.counts THEN Len(w.began) ELSE -1
    BY <1>3, <2>1
  <2>8. ASSUME api.honours
        PROVE  /\ IsPrefix(w.items, V)
               /\ \E n \in 1 .. Len(w.items) : w.previous[1] = w.items[n]
    BY <1>8, <2>5, <2>8
  <2> QED
    BY <1>7, <2>1, <2>4, <2>6, <2>7, <2>8 DEF Kept, V, l
<1>10. CASE got # <<>>
  <2>1. api.honours
    BY <1>10, SecondPageIsFirst DEF got
  <2>2. /\ walk.began # <<>> /\ IsPrefix(walk.began, V)
        /\ walk.total = IF api.counts THEN Len(walk.began) ELSE -1
    BY <1>2, <1>10 DEF Kept, got
  <2>3. Len(got) # 0 /\ Len(walk.began) \in Nat
    BY <1>2, <1>10
  <2>4. w.began = walk.began /\ w.total = walk.total
    BY <1>2, <1>3, <1>4, <2>2, <2>3
  <2>5. Len(got) + 1 \in 1 .. Len(w.items) /\ w.previous[1] = w.items[Len(got) + 1]
    <3>1. 1 \in 1 .. Len(batch) /\ \A n \in 1 .. Len(batch) : (got \o batch)[Len(got) + n] = batch[n]
      BY <1>1, <1>2, <1>5
    <3>2. Len(got) + 1 \in 1 .. Len(w.items)
      BY <1>5, <1>7
    <3> QED
      BY <1>4, <3>1, <3>2
  <2>6. \E n \in 1 .. Len(w.items) : w.previous[1] = w.items[n]
    BY <2>5
  <2> QED
    BY <1>7, <1>8, <2>1, <2>2, <2>4, <2>6 DEF Kept, V, l
<1> QED
  BY <1>9, <1>10

\* A walk that is over: every row once and, of an API that honours Offset and
\* either reports a total or serves as many rows as it was asked for, all of them.
LEMMA WalkedAll ==
  ASSUME GInv, mode = "walk", ~walk.moved, NEW reply, reply = Reply(Head(todo), walk.offset),
         NEW w, w = Turned(walk, reply), ~Repeated(walk, reply), Complete(w, reply)
  PROVE  LET rows == Visible(Head(todo))
             had  == IF walk.began = <<>> THEN rows ELSE walk.began
         IN  /\ IsInjective(w.items)
             /\ api.honours /\ (api.counts \/ api.cap >= PageSize) =>
                  IsPrefix(had, w.items) /\ IsPrefix(w.items, rows)
<1> DEFINE l == Head(todo)
           V == Visible(l)
           batch == reply.batch
           got == walk.items
           had == IF walk.began = <<>> THEN V ELSE walk.began
<1>1. /\ l \in Listing /\ V \in Seq(Rows(l)) /\ IsInjective(V) /\ batch \in Seq(Rows(l))
      /\ api.honours => NextIs(Rows(l), V, got, batch, Served)
      /\ ~api.honours => IsPrefix(batch, V)
  BY PageIs
<1>2. /\ Kept(walk, V) /\ got \in Seq(Rows(l)) /\ walk.offset = Len(got) /\ walk \in WalkType
      /\ walk.began \in Seq(Rows(l))
  BY DEF GInv, OnTheWay
<1>3. reply.total = IF api.counts THEN Len(V) ELSE -1
  BY <1>1, <1>2, ReplyIs DEF WalkType
<1>4. /\ w.items = got \o batch
      /\ w.total = IF walk.total = -1 THEN reply.total ELSE walk.total
  BY <1>2, TurnedIs
<1>5. ~api.honours => got = <<>>
  BY SecondPageIsFirst
<1>6. api.honours /\ api.cap >= PageSize => Served = PageSize
  BY ServedNat DEF GInv
<1>7. Served \in Nat \ {0} /\ PageSize \in Nat \ {0}
  BY ServedNat, InventoryAssumption DEF GInv
<1> HIDE DEF l, V, batch, got
<1>8. w.items \in Seq(Rows(l)) /\ IsPrefix(w.items, V)
  <2>1. CASE api.honours
    BY <1>1, <1>4, <2>1 DEF NextIs
  <2>2. CASE ~api.honours
    <3>1. w.items = batch
      BY <1>1, <1>4, <1>5, <2>2
    <3> QED
      BY <1>1, <2>2, <3>1
  <2> QED
    BY <2>1, <2>2
<1>9. IsInjective(w.items)
  BY <1>1, <1>8, PrefixInjective
<1>10. had \in Seq(Rows(l)) /\ IsPrefix(had, V)
  <2>1. IsPrefix(V, V)
    BY <1>1, PrefixOfPrefix
  <2> QED
    BY <1>1, <1>2, <2>1 DEF Kept
<1>11. ASSUME api.honours, api.counts \/ api.cap >= PageSize
       PROVE  Len(w.items) >= Len(had)
  <2>1. /\ Len(batch) = Least(Served, Len(V) - Len(got)) /\ Len(w.items) = Len(got) + Len(batch)
        /\ Len(got) <= Len(V) /\ (batch = <<>> => got = V)
    BY <1>1, <1>4, <1>11 DEF NextIs
  <2>2. Len(got) \in Nat /\ Len(V) \in Nat /\ Len(batch) \in Nat /\ Len(had) \in Nat
        /\ Len(had) <= Len(V)
    <3>1. Len(had) <= Len(V)
      BY <1>1, <1>10, PrefixIs
    <3> QED
      BY <1>1, <1>2, <1>10, <3>1
  <2> HIDE DEF had
  <2>3. CASE batch = <<>>
    BY <2>1, <2>2, <2>3
  <2>4. CASE w.total # -1 /\ Len(w.items) >= w.total
    <3>1. api.counts
      BY <1>2, <1>3, <1>4, <2>4 DEF Kept, got
    <3>2. w.total >= Len(had)
      <4>1. CASE got = <<>>
        <5>1. w.total = Len(V)
          BY <1>2, <1>3, <1>4, <3>1, <4>1 DEF Kept, got
        <5> QED
          BY <2>2, <5>1
      <4>2. CASE got # <<>>
        <5>1. walk.total = Len(walk.began) /\ walk.began # <<>> /\ Len(walk.began) \in Nat
          BY <1>2, <3>1, <4>2 DEF Kept, got
        <5>2. w.total = Len(had)
          BY <1>4, <5>1 DEF had
        <5> QED
          BY <2>2, <5>2
      <4> QED
        BY <4>1, <4>2
    <3>3. w.total \in Int
      BY <1>2, <1>3, <1>4, <2>2 DEF WalkType
    <3> QED
      BY <2>1, <2>2, <2>4, <3>2, <3>3
  <2>5. CASE w.total = -1 /\ Len(batch) < PageSize
    <3>1. ~api.counts
      <4>1. ASSUME api.counts PROVE FALSE
        <5>1. CASE got = <<>>
          <6>1. w.total = Len(V)
            BY <1>2, <1>3, <1>4, <4>1, <5>1 DEF Kept, got
          <6> QED
            BY <2>2, <2>5, <6>1
        <5>2. CASE got # <<>>
          <6>1. walk.total = Len(walk.began) /\ Len(walk.began) \in Nat
            BY <1>2, <4>1, <5>2 DEF Kept, got
          <6> QED
            BY <1>4, <2>5, <6>1
        <5> QED
          BY <5>1, <5>2
      <4> QED
        BY <4>1
    <3>2. Served = PageSize
      BY <1>6, <1>11, <3>1
    <3>3. Len(batch) = Len(V) - Len(got)
      BY <1>7, <2>1, <2>2, <2>5, <3>2 DEF Least
    <3> QED
      BY <2>1, <2>2, <3>3
  <2> QED
    BY <2>3, <2>4, <2>5 DEF Complete, batch
<1>12. ASSUME api.honours, api.counts \/ api.cap >= PageSize
       PROVE  IsPrefix(had, w.items)
  BY <1>1, <1>8, <1>10, <1>11, <1>12, PrefixOfPrefix
<1> QED
  BY <1>8, <1>9, <1>12 DEF had, V, l

LEMMA InitGInv == InventoryInit => GInv
<1> SUFFICES ASSUME InventoryInit
             PROVE  GInv
  OBVIOUS
<1>1. Fresh \in WalkType
  BY DEF Fresh, WalkType
<1>2. script \in Seq(Run) /\ api \in Api /\ DOMAIN shown = DOMAIN script /\ DOMAIN world = Listing
  BY InventoryAssumption DEF InventoryInit
<1>3. \A l \in Listing : world[l] \in Seq(Rows(l)) /\ IsInjective(world[l])
  BY InventoryAssumption DEF InventoryInit
<1> QED
  BY <1>1, <1>2, <1>3 DEF InventoryInit, GInv

\* A run that ends.
LEMMA EndsKeepsGInv ==
  ASSUME GInv, NEW how, NEW results, Ends(how, results), UNCHANGED <<script, api, world>>,
         walk' \in WalkType
  PROVE  GInv'
<1>1. /\ run' = run + 1 /\ mode' = "idle" /\ DOMAIN shown' = DOMAIN shown
  BY DEF Ends
<1> QED
  BY <1>1 DEF GInv

LEMMA ParseKeepsGInv ==
  ASSUME GInv, Parse
  PROVE  GInv'
<1>0. /\ run <= Len(script) /\ UNCHANGED <<script, api, world>> /\ This \in Run
  BY DEF Parse, This, GInv
<1>1. ASSUME NEW how, NEW results, Ends(how, results), UNCHANGED walk
      PROVE  GInv'
  <2>1. walk' \in WalkType
    BY <1>1 DEF GInv
  <2> QED
    BY <1>0, <1>1, <2>1, EndsKeepsGInv
<1>2. CASE /\ ~Refused(This) /\ mode' = "walk" /\ todo' = Plan(This) /\ walk' = Fresh
           /\ UNCHANGED <<run, shown>>
  <2>1. todo' \in Seq(Listing) /\ todo' # <<>>
    BY <1>0, <1>2, PlanIs
  <2>2. Head(todo') \in Listing
    BY <2>1
  <2>3. walk' \in WalkType /\ OnTheWay(walk', Head(todo'))
    BY <1>2, <2>2, FreshIs
  <2>4. Kept(walk, Visible(Head(todo)))'
    BY <1>2 DEF Kept, Fresh
  <2> QED
    BY <1>0, <1>2, <2>1, <2>3, <2>4 DEF GInv, OnTheWay, Rows
<1> QED
  BY <1>1, <1>2 DEF Parse

\* The listings that are left when a walk is over.
LEMMA FollowedIs ==
  ASSUME NEW l \in Listing, NEW w, w.items \in Seq(Rows(l)), todo \in Seq(Listing), todo # <<>>,
         l = Head(todo)
  PROVE  Followed(l, w).todo \in Seq(Listing)
<1>1. Tail(todo) \in Seq(Listing)
  OBVIOUS
<1>2. CASE l.source = "tke" /\ l.cluster = None
  <2> DEFINE nodes == [n \in DOMAIN w.items |-> [l EXCEPT !.cluster = w.items[n]]]
  <2>1. w.items \in Seq(Clusters)
    BY <1>2 DEF Rows
  <2>2. \A n \in 1 .. Len(w.items) : [l EXCEPT !.cluster = w.items[n]] \in Listing
    <3>1. ASSUME NEW n \in 1 .. Len(w.items) PROVE [l EXCEPT !.cluster = w.items[n]] \in Listing
      <4>1. w.items[n] \in Clusters
        BY <2>1
      <4> QED
        BY <4>1, <1>2 DEF Listing
    <3> QED
      BY <3>1
  <2>3. nodes \in Seq(Listing)
    <3>1. DOMAIN w.items = 1 .. Len(w.items) /\ Len(w.items) \in Nat
      BY <2>1
    <3>2. nodes \in [1 .. Len(w.items) -> Listing]
      BY <2>2, <3>1
    <3> QED
      BY <3>1, <3>2, SeqDef
  <2> HIDE DEF nodes
  <2>4. nodes \o Tail(todo) \in Seq(Listing)
    BY <1>1, <2>3
  <2> QED
    BY <1>2, <2>4 DEF Followed, nodes
<1>3. CASE ~(l.source = "tke" /\ l.cluster = None)
  BY <1>1, <1>3 DEF Followed
<1> QED
  BY <1>2, <1>3

LEMMA PageKeepsGInv ==
  ASSUME GInv, Page
  PROVE  GInv'
<1> DEFINE l == Head(todo)
           reply == Reply(l, walk.offset)
           w == Turned(walk, reply)
<1>0. /\ mode = "walk" /\ run <= Len(script) /\ UNCHANGED <<script, api, world>>
      /\ l \in Listing /\ walk \in WalkType /\ OnTheWay(walk, l) /\ todo \in Seq(Listing) /\ todo # <<>>
  BY DEF Page, GInv
<1>1. /\ reply.batch \in Seq(Rows(l)) /\ reply.total \in Int
      /\ Visible(l) \in Seq(Rows(l))
  <2>1. walk.offset \in Nat
    BY <1>0 DEF WalkType
  <2>2. Visible(l) \in Seq(Rows(l))
    BY <1>0, VisibleIs DEF GInv
  <2> QED
    BY <1>0, <2>1, <2>2, ReplyIs
<1>2. w \in WalkType /\ OnTheWay(w, l)
  <2>1. reply.batch \in Seq(Row) /\ Visible(l) \in Seq(Row)
    BY <1>0, <1>1, RowsIn, SeqMonotonic
  <2>2. w \in WalkType
    BY <1>0, <1>1, <2>1, TurnedIs
  <2>3. /\ w.items = walk.items \o reply.batch /\ w.offset = walk.offset + Len(reply.batch)
        /\ w.previous = reply.batch
        /\ w.began = IF walk.offset = 0 /\ walk.total = -1 THEN Visible(l) ELSE walk.began
    BY <1>0, TurnedIs
  <2>4. w.items \in Seq(Rows(l)) /\ Len(w.items) = Len(walk.items) + Len(reply.batch)
    <3>1. Joins(Rows(l), walk.items, reply.batch, walk.items \o reply.batch)
      BY <1>0, <1>1, Joined DEF OnTheWay
    <3> QED
      BY <2>3, <3>1 DEF Joins
  <2> HIDE DEF w, reply
  <2>5. w.began \in Seq(Rows(l))
    BY <1>0, <1>1, <2>3 DEF OnTheWay
  <2> QED
    BY <1>0, <1>1, <2>2, <2>3, <2>4, <2>5 DEF OnTheWay
<1>3. CASE Repeated(walk, reply) /\ Ends("repeated", <<>>) /\ UNCHANGED walk
  BY <1>0, <1>3, EndsKeepsGInv
<1>4. CASE /\ ~Repeated(walk, reply) /\ ~Complete(w, reply)
           /\ walk' = w /\ UNCHANGED <<run, mode, todo, shown>>
  <2>1. ~walk'.moved => Kept(w, Visible(l))
    <3>1. w.moved = walk.moved
      BY <1>0, TurnedIs
    <3> QED
      BY <1>0, <1>4, <3>1, KeptOn
  <2> HIDE DEF w, reply
  <2>2. Visible(l)' = Visible(l)
    BY <1>0, <1>4 DEF Visible, This
  <2>3. ~walk'.moved => Kept(walk, Visible(Head(todo)))'
    BY <1>0, <1>4, <2>1, <2>2 DEF Kept, Served
  <2> QED
    BY <1>0, <1>2, <1>4, <2>3 DEF GInv, OnTheWay
<1>5. CASE /\ walk' = Fresh /\ todo' = Followed(l, w).todo /\ todo' # <<>>
           /\ UNCHANGED <<run, mode, shown>>
  <2>1. todo' \in Seq(Listing)
    BY <1>0, <1>2, <1>5, FollowedIs DEF OnTheWay
  <2>2. Head(todo') \in Listing
    BY <1>5, <2>1
  <2>3. walk' \in WalkType /\ OnTheWay(walk', Head(todo'))
    BY <1>5, <2>2, FreshIs
  <2>4. Kept(walk, Visible(Head(todo)))'
    BY <1>5 DEF Kept, Fresh
  <2> HIDE DEF w, reply
  <2> QED
    BY <1>0, <1>5, <2>1, <2>3, <2>4 DEF GInv, OnTheWay, Rows
<1>6. ASSUME NEW found, walk' = Fresh, Ends("fetched", found)
      PROVE  GInv'
  <2>1. walk' \in WalkType
    BY <1>0, <1>6, FreshIs
  <2> QED
    BY <1>0, <1>6, <2>1, EndsKeepsGInv
<1> QED
  BY <1>3, <1>4, <1>5, <1>6 DEF Page

LEMMA FailKeepsGInv ==
  ASSUME GInv, Fail
  PROVE  GInv'
<1>1. walk' \in WalkType /\ UNCHANGED <<script, api, world>> /\ Ends("failed", <<>>)
  BY DEF Fail, GInv
<1> QED
  BY <1>1, EndsKeepsGInv

-----------------------------------------------------------------------------
(* The lists change.                                                       *)

LEMMA RowAdded ==
  ASSUME NEW S, NEW a \in Seq(S), IsInjective(a), NEW i \in S, ~Contains(a, i)
  PROVE  /\ Append(a, i) \in Seq(S) /\ IsInjective(Append(a, i))
         /\ <<i>> \o a \in Seq(S) /\ IsInjective(<<i>> \o a)
<1>0. Len(a) \in Nat /\ DOMAIN a = 1 .. Len(a) /\ \A n \in 1 .. Len(a) : a[n] # i
  BY DEF Contains
<1> DEFINE b == Append(a, i)
           c == <<i>> \o a
<1>1. /\ b \in Seq(S) /\ Len(b) = Len(a) + 1 /\ b[Len(a) + 1] = i
      /\ \A n \in 1 .. Len(a) : b[n] = a[n]
  BY <1>0
<1>2. /\ c \in Seq(S) /\ Len(c) = Len(a) + 1 /\ c[1] = i
      /\ \A n \in 1 .. Len(a) : c[n + 1] = a[n]
  <2>1. <<i>> \in Seq(S) /\ Len(<<i>>) = 1 /\ <<i>>[1] = i
    OBVIOUS
  <2> DEFINE e == <<i>>
  <2>2. e \in Seq(S) /\ Len(e) = 1 /\ e[1] = i /\ c = e \o a
    BY <2>1
  <2> HIDE DEF e, c
  <2>3. Joins(S, e, a, c)
    BY <2>2, Joined
  <2>4. /\ c \in Seq(S) /\ Len(c) = 1 + Len(a)
        /\ \A n \in 1 .. 1 : c[n] = e[n]
        /\ \A n \in 1 .. Len(a) : c[1 + n] = a[n]
    BY <2>2, <2>3 DEF Joins
  <2> QED
    BY <2>2, <2>4, <1>0
<1> HIDE DEF b, c
<1>3. IsInjective(b)
  <2>1. SUFFICES ASSUME NEW m \in 1 .. Len(b), NEW n \in 1 .. Len(b), b[m] = b[n]
                 PROVE  m = n
    BY <1>1 DEF IsInjective
  <2> QED
    BY <1>0, <1>1, <2>1 DEF IsInjective
<1>4. IsInjective(c)
  <2>1. SUFFICES ASSUME NEW m \in 1 .. Len(c), NEW n \in 1 .. Len(c), c[m] = c[n]
                 PROVE  m = n
    BY <1>2 DEF IsInjective
  <2>2. ASSUME NEW k \in 1 .. Len(c), k # 1
        PROVE  k - 1 \in 1 .. Len(a) /\ c[k] = a[k - 1]
    <3>1. k - 1 \in 1 .. Len(a) /\ (k - 1) + 1 = k
      BY <1>0, <1>2, <2>2
    <3> QED
      BY <1>2, <3>1
  <2>3. CASE m = 1
    BY <1>0, <1>2, <2>1, <2>2, <2>3
  <2>4. CASE n = 1
    BY <1>0, <1>2, <2>1, <2>2, <2>4
  <2>5. CASE m # 1 /\ n # 1
    <3>1. m - 1 \in DOMAIN a /\ n - 1 \in DOMAIN a /\ a[m - 1] = a[n - 1]
      BY <1>0, <2>1, <2>2, <2>5
    <3>2. m - 1 = n - 1
      BY <3>1 DEF IsInjective
    <3> QED
      BY <3>2
  <2> QED
    BY <2>3, <2>4, <2>5
<1> QED
  BY <1>1, <1>2, <1>3, <1>4 DEF b, c

LEMMA RowGone ==
  ASSUME NEW S, NEW a \in Seq(S), IsInjective(a), NEW k \in DOMAIN a
  PROVE  RemoveAt(a, k) \in Seq(S) /\ IsInjective(RemoveAt(a, k))
<1> DEFINE b == SubSeq(a, 1, k - 1)
           c == SubSeq(a, k + 1, Len(a))
           d == b \o c
<1>0. Len(a) \in Nat /\ DOMAIN a = 1 .. Len(a) /\ k \in 1 .. Len(a)
  OBVIOUS
<1>1. b \in Seq(S) /\ Len(b) = k - 1 /\ \A n \in 1 .. k - 1 : b[n] = a[n]
  BY <1>0
<1>2. c \in Seq(S) /\ Len(c) = Len(a) - k /\ \A n \in 1 .. Len(a) - k : c[n] = a[k + n]
  BY <1>0
<1> HIDE DEF b, c
<1>3. /\ d \in Seq(S) /\ Len(d) = (k - 1) + (Len(a) - k)
      /\ \A n \in 1 .. k - 1 : d[n] = b[n]
      /\ \A n \in 1 .. Len(a) - k : d[(k - 1) + n] = c[n]
  <2>1. Joins(S, b, c, d)
    BY <1>1, <1>2, Joined
  <2> HIDE DEF d
  <2> QED
    BY <1>1, <1>2, <2>1 DEF Joins
<1> HIDE DEF d
<1>4. ASSUME NEW n \in 1 .. Len(d)
      PROVE  IF n < k THEN d[n] = a[n] ELSE n + 1 \in 1 .. Len(a) /\ d[n] = a[n + 1]
  <2>1. CASE n < k
    <3>1. n \in 1 .. k - 1
      BY <1>0, <2>1
    <3> QED
      BY <1>1, <1>3, <2>1, <3>1
  <2>2. CASE ~(n < k)
    <3> DEFINE m == n - (k - 1)
    <3>1. m \in 1 .. Len(a) - k /\ (k - 1) + m = n /\ k + m = n + 1 /\ n + 1 \in 1 .. Len(a)
      BY <1>0, <1>3, <2>2
    <3> HIDE DEF m
    <3>2. d[n] = c[m] /\ c[m] = a[n + 1]
      BY <1>2, <1>3, <3>1
    <3> QED
      BY <2>2, <3>1, <3>2
  <2> QED
    BY <2>1, <2>2
<1>5. IsInjective(d)
  <2>1. SUFFICES ASSUME NEW m \in 1 .. Len(d), NEW n \in 1 .. Len(d), d[m] = d[n]
                 PROVE  m = n
    BY <1>3 DEF IsInjective
  <2> DEFINE from(x) == IF x < k THEN x ELSE x + 1
  <2>2. from(m) \in DOMAIN a /\ from(n) \in DOMAIN a /\ d[m] = a[from(m)] /\ d[n] = a[from(n)]
    BY <1>0, <1>3, <1>4
  <2>3. from(m) = from(n)
    <3> HIDE DEF from
    <3> QED
      BY <2>1, <2>2 DEF IsInjective
  <2> QED
    BY <1>0, <2>3
<1>6. RemoveAt(a, k) = d
  BY DEF RemoveAt, d, b, c
<1> QED
  BY <1>3, <1>5, <1>6

\* A filtered list, while the list grows at its end.
LEMMA VisibleGrows ==
  ASSUME NEW l \in Listing, world[l] \in Seq(Rows(l)), world'[l] \in Seq(Rows(l)),
         IsPrefix(world[l], world'[l]), UNCHANGED <<script, run>>
  PROVE  IsPrefix(Visible(l), Visible(l)')
<1> DEFINE a == world[l]
           b == world'[l]
           Q == {n \in DOMAIN b : b[n] \in Shows[This.filters[l.source]]}
           P == {n \in DOMAIN a : a[n] \in Shows[This.filters[l.source]]}
<1>1. Visible(l) = Pick(a, P)
  BY DEF Visible
<1>2. Visible(l)' = Pick(b, Q)
  BY DEF Visible, This
<1>3. P = {n \in Q : n <= Len(a)}
  <2>1. /\ Len(a) \in Nat /\ Len(b) \in Nat /\ DOMAIN a = 1 .. Len(a) /\ DOMAIN b = 1 .. Len(b)
        /\ Len(a) <= Len(b) /\ \A n \in 1 .. Len(a) : a[n] = b[n]
    BY PrefixIs
  <2> HIDE DEF a, b
  <2>2. ASSUME NEW n PROVE n \in P <=> n \in Q /\ n <= Len(a)
    BY <2>1
  <2> QED
    BY <2>2
<1>4. Q \in SUBSET DOMAIN b
  OBVIOUS
<1> HIDE DEF Q, P
<1>5. IsPrefix(Pick(a, {n \in Q : n <= Len(a)}), Pick(b, Q))
  BY <1>4, PickPrefix
<1> QED
  BY <1>1, <1>2, <1>3, <1>5

\* A change of the lists: a walk of a list that grew at its end is as good as before.
LEMMA ListChangeKeepsGInv ==
  ASSUME GInv, NEW l \in Listing, ListChange(l)
  PROVE  GInv'
<1>0. /\ UNCHANGED <<script, api, run, mode, todo, shown>>
      /\ world[l] \in Seq(Rows(l)) /\ IsInjective(world[l]) /\ DOMAIN world = Listing
  BY DEF ListChange, GInv
<1>1. PICK rows : /\ world' = [world EXCEPT ![l] = rows]
                  /\ rows \in Seq(Rows(l)) /\ IsInjective(rows)
  <2>1. ASSUME NEW i \in Rows(l), ~Contains(world[l], i),
               world' \in {[world EXCEPT ![l] = Append(@, i)], [world EXCEPT ![l] = <<i>> \o @]}
        PROVE  \E rows : /\ world' = [world EXCEPT ![l] = rows]
                         /\ rows \in Seq(Rows(l)) /\ IsInjective(rows)
    <3>1. /\ Append(world[l], i) \in Seq(Rows(l)) /\ IsInjective(Append(world[l], i))
          /\ <<i>> \o world[l] \in Seq(Rows(l)) /\ IsInjective(<<i>> \o world[l])
      BY <1>0, <2>1, RowAdded
    <3>2. CASE world' = [world EXCEPT ![l] = Append(world[l], i)]
      BY <3>1, <3>2
    <3>3. CASE world' = [world EXCEPT ![l] = <<i>> \o world[l]]
      BY <3>1, <3>3
    <3> QED
      BY <2>1, <3>2, <3>3
  <2>2. ASSUME NEW n \in DOMAIN world[l], world' = [world EXCEPT ![l] = RemoveAt(@, n)]
        PROVE  \E rows : /\ world' = [world EXCEPT ![l] = rows]
                         /\ rows \in Seq(Rows(l)) /\ IsInjective(rows)
    <3>1. RemoveAt(world[l], n) \in Seq(Rows(l)) /\ IsInjective(RemoveAt(world[l], n))
      BY <1>0, RowGone
    <3> QED
      BY <2>2, <3>1
  <2> QED
    BY <2>1, <2>2 DEF ListChange
<1>2. /\ DOMAIN world' = Listing /\ world'[l] = rows
      /\ \A k \in Listing : k # l => world'[k] = world[k]
  BY <1>0, <1>1
<1>3. \A k \in Listing : world'[k] \in Seq(Rows(k)) /\ IsInjective(world'[k])
  BY <1>1, <1>2 DEF GInv
<1>4. /\ walk' \in WalkType
      /\ walk'.items = walk.items /\ walk'.previous = walk.previous /\ walk'.began = walk.began
      /\ walk'.offset = walk.offset /\ walk'.total = walk.total
      /\ ~walk'.moved =>
           ~walk.moved /\ (todo # <<>> /\ l = Head(todo) => IsPrefix(world[l], world'[l]))
  BY DEF ListChange, GInv, WalkType
<1>5. ASSUME mode = "walk", ~walk'.moved
      PROVE  Kept(walk, Visible(Head(todo)))'
  <2> DEFINE h == Head(todo)
             V == Visible(h)
             W == Visible(h)'
  <2>1. h \in Listing /\ Kept(walk, V) /\ todo # <<>>
    BY <1>4, <1>5 DEF GInv
  <2>2. /\ V \in Seq(Rows(h)) /\ walk.items \in Seq(Rows(h)) /\ walk.began \in Seq(Rows(h))
    BY <1>5, <2>1, VisibleIs DEF GInv, OnTheWay
  <2>3. W \in Seq(Rows(h)) /\ IsPrefix(V, W)
    <3>1. world[h] \in Seq(Rows(h)) /\ world'[h] \in Seq(Rows(h)) /\ IsInjective(world'[h])
      BY <1>3, <2>1 DEF GInv
    <3>2. IsPrefix(world[h], world'[h])
      <4>1. CASE h = l
        BY <1>4, <1>5, <2>1, <4>1
      <4>2. CASE h # l
        <5>1. world'[h] = world[h]
          BY <1>2, <2>1, <4>2
        <5> QED
          BY <3>1, <5>1, PrefixOfPrefix
      <4> QED
        BY <4>1, <4>2
    <3>3. IsPrefix(V, W)
      BY <1>0, <2>1, <3>1, <3>2, VisibleGrows
    <3>4. W \in Seq(Rows(h))
      <4> DEFINE Q == {n \in DOMAIN world'[h] : world'[h][n] \in Shows[This.filters[h.source]]}
      <4>1. W = Pick(world'[h], Q)
        BY <1>0 DEF Visible, This
      <4>2. Q \in SUBSET DOMAIN world'[h]
        OBVIOUS
      <4> HIDE DEF Q, h, W
      <4> QED
        BY <3>1, <4>1, <4>2, PickSeq
    <3> QED
      BY <3>3, <3>4
  <2> HIDE DEF h, V, W
  <2>4. Kept(walk, W)
    <3>1. IsPrefix(walk.items, V) => IsPrefix(walk.items, W)
      BY <2>2, <2>3, PrefixOfPrefix
    <3>2. IsPrefix(walk.began, V) => IsPrefix(walk.began, W)
      BY <2>2, <2>3, PrefixOfPrefix
    <3>3. Len(V) >= Served => Len(W) >= Served /\ SubSeq(W, 1, Served) = SubSeq(V, 1, Served)
      <4>1. /\ Len(V) <= Len(W) /\ \A n \in 1 .. Len(V) : V[n] = W[n]
            /\ Len(V) \in Nat /\ Len(W) \in Nat /\ Served \in Nat \ {0}
        BY <2>2, <2>3, PrefixIs, ServedNat DEF GInv
      <4>2. ASSUME Len(V) >= Served
            PROVE  SubSeq(W, 1, Served) = SubSeq(V, 1, Served)
        <5> DEFINE a == SubSeq(W, 1, Served)
                   b == SubSeq(V, 1, Served)
        <5>1. a \in Seq(Rows(h)) /\ Len(a) = Served /\ \A n \in 1 .. Served : a[n] = W[n]
          BY <2>3, <4>1, <4>2
        <5>2. b \in Seq(Rows(h)) /\ Len(b) = Served /\ \A n \in 1 .. Served : b[n] = V[n]
          BY <2>2, <4>1, <4>2
        <5> HIDE DEF a, b
        <5>3. Len(a) = Len(b) /\ \A n \in 1 .. Len(a) : a[n] = b[n]
          BY <4>1, <4>2, <5>1, <5>2
        <5>4. a = b
          BY <5>1, <5>2, <5>3, SeqEqual
        <5> QED
          BY <5>4 DEF a, b
      <4> QED
        BY <4>1, <4>2
    <3> QED
      BY <2>1, <3>1, <3>2, <3>3 DEF Kept
  <2>5. Kept(walk', W)
    BY <1>4, <2>4 DEF Kept
  <2> QED
    BY <1>0, <2>5 DEF Kept, Served, W, h
<1>6. mode = "walk" => OnTheWay(walk, Head(todo))'
  BY <1>0, <1>4 DEF GInv, OnTheWay, Rows
<1> QED
  BY <1>0, <1>2, <1>3, <1>4, <1>5, <1>6 DEF GInv, Rows

LEMMA StepGInv == GInv /\ [InventoryNext]_inventoryVars => GInv'
<1> SUFFICES ASSUME GInv, [InventoryNext]_inventoryVars
             PROVE  GInv'
  OBVIOUS
<1>1. CASE UNCHANGED inventoryVars
  <2>1. UNCHANGED <<script, api, run, mode, todo, shown, world, walk>>
    BY <1>1 DEF inventoryVars
  <2>2. \A l : Visible(l)' = Visible(l)
    BY <2>1 DEF Visible, This
  <2>3. Kept(walk, Visible(Head(todo))) => Kept(walk, Visible(Head(todo)))'
    BY <2>1, <2>2 DEF Kept, Served
  <2>4. OnTheWay(walk, Head(todo)) => OnTheWay(walk, Head(todo))'
    BY <2>1 DEF OnTheWay
  <2> QED
    BY <2>1, <2>3, <2>4 DEF GInv, Rows
<1> QED
  BY ParseKeepsGInv, PageKeepsGInv, FailKeepsGInv, ListChangeKeepsGInv, <1>1 DEF InventoryNext

\* What a step does to a walk.
LEMMA StepWalksInFull == GInv /\ InventoryNext => WalksInFull
<1> SUFFICES ASSUME GInv, InventoryNext, mode = "walk", ~walk.moved
             PROVE  WalksInFull
  BY DEF WalksInFull
<1> DEFINE rows == Visible(Head(todo))
           had  == IF walk.began = <<>> THEN rows ELSE walk.began
           reply == Reply(Head(todo), walk.offset)
           w == Turned(walk, reply)
           got  == w.items
           fair == api.honours /\ (api.counts \/ api.cap >= PageSize)
<1>0. run \in DOMAIN shown
  BY DEF GInv
<1>1. SUFFICES /\ todo' # todo =>
                    IsInjective(got) /\ (fair => IsPrefix(had, got) /\ IsPrefix(got, rows))
               /\ fair => shown'[run] = shown[run] \/ shown'[run][1].how # "repeated"
  BY DEF WalksInFull
<1> HIDE DEF rows, had, got, fair, reply, w
<1>2. ASSUME NEW how, NEW results, Ends(how, results), how # "repeated"
      PROVE  shown'[run][1].how # "repeated"
  BY <1>0, <1>2 DEF Ends
<1>3. CASE Fail
  BY <1>2, <1>3 DEF Fail
<1>4. CASE \E l \in Listing : ListChange(l)
  BY <1>4 DEF ListChange
<1>5. CASE Page
  <2>1. CASE Repeated(walk, reply) /\ UNCHANGED todo
    <3>1. ~fair
      BY <2>1, NoPageTwice DEF fair, reply
    <3> QED
      BY <2>1, <3>1
  <2>2. CASE UNCHANGED <<todo, shown>>
    BY <2>2
  <2>3. CASE /\ ~Repeated(walk, reply) /\ Complete(w, reply)
             /\ UNCHANGED shown \/ \E found : Ends("fetched", found)
    <3>1. IsInjective(got) /\ (fair => IsPrefix(had, got) /\ IsPrefix(got, rows))
      BY <2>3, WalkedAll DEF got, had, rows, fair, w, reply
    <3>2. shown'[run] = shown[run] \/ shown'[run][1].how # "repeated"
      BY <1>2, <2>3
    <3> QED
      BY <3>1, <3>2
  <2> QED
    BY <1>5, <2>1, <2>2, <2>3 DEF Page, reply, w
<1>6. ~Parse
  BY DEF Parse
<1> QED
  BY <1>3, <1>4, <1>5, <1>6 DEF InventoryNext

(***************************************************************************)
(* A list that only grows at its end while it is walked is walked without  *)
(* a row twice and, where the API honours Offset and either reports a      *)
(* total or serves as many rows as it was asked for, in full and to the    *)
(* end; for every page size, every filter and every cap of the API.        *)
(***************************************************************************)
THEOREM WalkedInFullAlways == InventorySpec => WalkedInFull
<1>1. InventoryInit => GInv
  BY InitGInv
<1>2. GInv /\ [InventoryNext]_inventoryVars => GInv'
  BY StepGInv
<1>3. GInv /\ [InventoryNext]_inventoryVars => [WalksInFull]_inventoryVars
  BY StepWalksInFull
<1> QED
  BY <1>1, <1>2, <1>3, PTL DEF InventorySpec, WalkedInFull
=============================================================================
