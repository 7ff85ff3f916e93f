---------------------------- MODULE TimingProofs ----------------------------
(***************************************************************************)
(* Proofs about one task against the clock, for any number of workers, any *)
(* lease, any destinations that pass validation and any answers:           *)
(* OverlapNeedsStall, DeadOnlyWhenHopeless and SupplierLeftAlone.          *)
(*                                                                         *)
(* The clock enters through two facts. A worker that has not applied its   *)
(* result either holds the lease or the lease has run out by the clock     *)
(* (LeaseOrLate); so a second attempt at the same time proves how late the *)
(* first one is. And nothing brings the task back before the moment the    *)
(* last result named (QuietKept): the row waits for it, and the one worker *)
(* whose attempt the row counts last has waited for it. An answer that no  *)
(* row took is waited for too, but only as long as the lease (HeardKept).  *)
(***************************************************************************)
EXTENDS DeliveryTiming, TLAPS

Busy(w) == worker[w].pc \in {"acquire", "call", "apply"}

Result == [outcome : {"none", "delivered", "retryable", "permanent", "exhausted"},
           next : Seq(Int), completed : Int, quiet : Int, meant : Int]

Heard == [attempt : Nat, quiet : Int, until : Int]

WorkerState == [pc : {"idle", "claim", "acquire", "call", "apply"}, clock : Int,
                attempt : Nat, started : Int, result : Result]

TaskState == [status : {"pending", "delivering", "retry_wait", "delivered", "dead"},
              attempts : Nat, nextAt : Seq(Int), lease : Nat, leaseUntil : Seq(Int),
              deadAt : Seq(Int)]

TimingTypeOK ==
    /\ now \in Nat
    /\ policy \in Policies
    /\ task \in TaskState
    /\ worker \in [Worker -> WorkerState]
    /\ last \in Result
    /\ heard \in Heard

(* Attempts are counted up to the limit and no two workers have one. *)
AttemptsCounted ==
    /\ task.attempts <= policy.maxAttempts
    /\ task.status = "pending" => task.attempts < policy.maxAttempts
    /\ task.status = "delivering" => task.lease = task.attempts
    /\ \A w \in Worker : Busy(w) => worker[w].attempt \in 1 .. task.attempts
    /\ \A v, w \in Worker : v # w /\ Busy(v) /\ Busy(w) =>
          worker[v].attempt # worker[w].attempt

(* The lease a worker claimed is the row's, or it has run out. *)
LeaseOrLate ==
    \A w \in Worker : worker[w].pc \in {"acquire", "call"} =>
        \/ /\ task.status = "delivering"
           /\ task.lease = worker[w].attempt
           /\ task.leaseUntil = <<worker[w].clock + LeaseTTL>>
        \/ now > worker[w].clock + LeaseTTL

CallsInTime == \A w \in Worker : worker[w].pc = "call" => now <= Deadline(w)

OverlapInv == TimingTypeOK /\ AttemptsCounted /\ LeaseOrLate /\ CallsInTime

(* No next attempt is left to a task that an answer to this one gave up. *)
Hopeless(attempt, result) ==
    \/ attempt >= policy.maxAttempts
    \/ IF result.meant > result.completed THEN result.meant > policy.lifetime
       ELSE result.completed + (6 * DelayAfter(policy, attempt)) \div 5 > policy.lifetime

GoodResult(attempt, result) ==
    /\ result.outcome # "none"
    /\ result.outcome = "retryable" => result.next # <<>> /\ result.next[1] >= result.quiet
    /\ result.outcome = "exhausted" => Hopeless(attempt, result)

ResultsGood ==
    \A w \in Worker : worker[w].pc = "apply" =>
        GoodResult(worker[w].attempt, worker[w].result)

(* The moment the last result named is waited for. *)
QuietKept ==
    /\ task.status \in {"pending", "delivering"} => now >= last.quiet
    /\ task.status = "retry_wait" => task.nextAt # <<>> /\ task.nextAt[1] >= last.quiet
    /\ \A w \in Worker : worker[w].pc = "acquire" /\ worker[w].attempt = task.attempts =>
          now >= last.quiet

ResultInv == ResultsGood /\ QuietKept /\ DeadOnlyWhenHopeless

(* The wait of the last answer is over, or the lease of its attempt is. *)
Passed == now >= heard.quiet \/ now > heard.until

(* The one result of the attempt that heard last is what it heard, and     *)
(* nobody is to call for that attempt again.                               *)
OnlyHeardIsKept ==
    \A w \in Worker :
        /\ worker[w].pc = "apply" /\ worker[w].attempt = heard.attempt =>
              worker[w].result.quiet = heard.quiet
        /\ worker[w].pc \in {"acquire", "call"} => worker[w].attempt # heard.attempt

(* Until that wait has passed the row stays with the attempt that heard of *)
(* it: under its lease, or waiting for a moment that is no earlier.        *)
HeardKept ==
    /\ heard.attempt <= task.attempts
    /\ task.attempts > heard.attempt => Passed
    /\ task.status = "pending" => Passed
    /\ task.status = "retry_wait" /\ task.attempts = heard.attempt =>
          Passed \/ task.nextAt[1] >= heard.quiet
    /\ task.status = "delivering" /\ task.attempts = heard.attempt =>
          Passed \/ task.leaseUntil = <<heard.until>>
    /\ OnlyHeardIsKept

-----------------------------------------------------------------------------
(* The policy and what a call reports. *)

(* A policy in use passed validation. *)
LEMMA PolicySound ==
    ASSUME TimingTypeOK
    PROVE  /\ policy.maxAttempts \in Nat \ {0} /\ policy.timeout \in Nat \ {0}
           /\ policy.lifetime \in Nat \ {0} /\ policy.delays \in Seq(1 .. policy.lifetime)
           /\ policy.maxAttempts > 1 => policy.delays # <<>>
           /\ 2 ^ (DurationBits - 1) \in Nat \ {0}
           /\ policy.lifetime < 2 ^ (DurationBits - 1)
  <1>1. 2 ^ (DurationBits - 1) \in Int
    BY DurationBitsAssumption, SMT
  <1>2. policy.lifetime \in 1 .. 2 ^ (DurationBits - 1) - 1
    BY PoliciesAssumption DEF TimingTypeOK
  <1>3. /\ policy.lifetime \in Nat \ {0} /\ 2 ^ (DurationBits - 1) \in Nat \ {0}
        /\ policy.lifetime < 2 ^ (DurationBits - 1)
    BY <1>1, <1>2
  <1> QED
    BY <1>3, PoliciesAssumption DEF TimingTypeOK

(* A time or nil. *)
LEMMA TimeTyped ==
    ASSUME NEW t \in Int
    PROVE  <<t>> \in Seq(Int) /\ <<>> \in Seq(Int)
  OBVIOUS

LEMMA NonEmptySequence ==
    ASSUME NEW S, NEW s \in Seq(S), s # <<>>
    PROVE  Len(s) \in Nat \ {0} /\ \A i \in 1 .. Len(s) : s[i] \in S
  OBVIOUS

(* A delay is positive and within the lifetime. *)
LEMMA DelayTyped ==
    ASSUME TimingTypeOK, NEW attempt \in Nat \ {0}, policy.delays # <<>>
    PROVE  DelayAfter(policy, attempt) \in 1 .. policy.lifetime
  <1>1. policy.delays \in Seq(1 .. policy.lifetime)
    BY PolicySound
  <1>2. /\ Len(policy.delays) \in Nat \ {0}
        /\ \A i \in 1 .. Len(policy.delays) : policy.delays[i] \in 1 .. policy.lifetime
    BY <1>1, NonEmptySequence
  <1> QED
    BY <1>2 DEF DelayAfter

(* BoundedJitter.Apply keeps within 20 percent, and returns at least 1. *)
LEMMA JitterBounded ==
    ASSUME NEW delay \in Nat \ {0}, NEW d \in Jittered(delay)
    PROVE  d \in Nat \ {0} /\ d >= (4 * delay) \div 5 /\ (d = 1 \/ d <= (6 * delay) \div 5)
  <1>1. PICK e \in (4 * delay) \div 5 .. (6 * delay) \div 5 : d = IF e < 1 THEN 1 ELSE e
    BY DEF Jittered
  <1>2. (4 * delay) \div 5 \in Nat /\ (6 * delay) \div 5 \in Nat
    OBVIOUS
  <1> QED
    BY <1>1, <1>2

(* A duration is an integer, and the number itself if it holds that.       *)
LEMMA DurationTyped ==
    ASSUME TimingTypeOK, NEW n \in Int
    PROVE  /\ Duration(n) \in Int
           /\ n >= 0 /\ n < 2 ^ (DurationBits - 1) => Duration(n) = n
  <1>1. PICK half \in Nat \ {0} : half = 2 ^ (DurationBits - 1)
    BY PolicySound
  <1>2. (n + half) % (2 * half) \in Int
    OBVIOUS
  <1>3. ASSUME n >= 0, n < half PROVE (n + half) % (2 * half) = n + half
    <2>1. PICK m \in Nat, k \in Nat : m = n + half /\ k = 2 * half
      BY <1>3
    <2>2. m < k
      BY <1>3, <2>1
    <2>3. m % k = m
      BY <2>2
    <2> QED
      BY <2>1, <2>3
  <1> QED
    BY <1>1, <1>2, <1>3 DEF Duration

(* parseRetryAfter reads the moment the supplier meant if it is to come    *)
(* and a duration holds the wait, and otherwise none or one that has       *)
(* passed; a wait that no duration holds is longer than any lifetime.      *)
LEMMA RetryAfterRead ==
    ASSUME TimingTypeOK, NEW header \in RetryAfterHeaders
    PROVE  /\ Meant(header) \in Int
           /\ \/ ParseRetryAfter(header, now) = <<>>
              \/ \E t \in Int : ParseRetryAfter(header, now) = <<t>>
           /\ Fits(header) =>
                 IF Meant(header) > now THEN ParseRetryAfter(header, now) = <<Meant(header)>>
                 ELSE \/ ParseRetryAfter(header, now) = <<>>
                      \/ ParseRetryAfter(header, now)[1] <= now
           /\ ~Fits(header) => Meant(header) > now /\ Meant(header) > policy.lifetime
  <1>0. now \in Nat /\ Second \in Nat \ {0}
    BY SecondAssumption DEF TimingTypeOK
  <1>1. CASE header \in [kind : {"seconds"}, value : RetryAfterSeconds]
    <2>1. PICK value \in Int : value = header.value
      BY <1>1, TimingAssumption
    <2>2. value * Second \in Int /\ (value >= 0 => value * Second >= 0)
      BY <1>0
    <2>3. Meant(header) = now + value * Second
      BY <1>1, <2>1 DEF Meant
    <2>4. CASE value >= 0
      <3>1. ParseRetryAfter(header, now) = <<now + Duration(value * Second)>>
        BY <1>1, <2>1, <2>4 DEF ParseRetryAfter
      <3>2. /\ Duration(value * Second) \in Int
            /\ Fits(header) => Duration(value * Second) = value * Second
        BY <1>1, <2>1, <2>2, <2>4, DurationTyped DEF Fits
      <3>3. ~Fits(header) => Meant(header) > now /\ Meant(header) > policy.lifetime
        <4>1. ~Fits(header) => value * Second >= 2 ^ (DurationBits - 1)
          BY <1>1, <2>1, <2>2, PolicySound DEF Fits
        <4> QED
          BY <1>0, <2>2, <2>3, <4>1, PolicySound
      <3> QED
        BY <1>0, <2>2, <2>3, <3>1, <3>2, <3>3
    <2>5. CASE value < 0
      <3>1. ParseRetryAfter(header, now) = <<>>
        BY <1>1, <2>1, <2>5 DEF ParseRetryAfter
      <3>2. value * Second < 0
        BY <1>0, <2>5
      <3>3. Meant(header) \in Int /\ ~(Meant(header) > now)
        BY <1>0, <2>2, <2>3, <3>2
      <3>4. Fits(header)
        BY <2>1, <2>2, <3>2, PolicySound DEF Fits
      <3> QED
        BY <3>1, <3>3, <3>4
    <2> QED
      BY <2>1, <2>4, <2>5
  <1>2. CASE header \in [kind : {"date"}, value : {now, now + Second}]
    <2>1. /\ Meant(header) = header.value /\ header.value \in Int
          /\ ParseRetryAfter(header, now) = IF header.value > now THEN <<header.value>> ELSE <<>>
      BY <1>0, <1>2 DEF Meant, ParseRetryAfter
    <2> QED
      BY <1>2, <2>1 DEF Fits
  <1>3. CASE header = [kind |-> "none"]
    <2>1. Meant(header) = now /\ ParseRetryAfter(header, now) = <<>>
      BY <1>3 DEF Meant, ParseRetryAfter
    <2> QED
      BY <1>0, <1>3, <2>1 DEF Fits
  <1> QED
    BY <1>1, <1>2, <1>3 DEF RetryAfterHeaders

(* The worker has a result to store, and its answer is the last one. *)
Finished(w, r) ==
    /\ worker' = [worker EXCEPT ![w] =
          [Idle EXCEPT !.pc = "apply", !.attempt = worker[w].attempt, !.result = r]]
    /\ heard' = [attempt |-> worker[w].attempt, quiet |-> r.quiet,
                 until |-> worker[w].clock + LeaseTTL]

(* An answer or a transport error leaves the worker with its attempt and a *)
(* good result to store.                                                   *)
LEMMA CompleteShape ==
    ASSUME OverlapInv, NEW w \in Worker, worker[w].pc = "call",
           NEW outcome \in {"delivered", "retryable", "permanent"},
           NEW header \in RetryAfterHeaders,
           Complete(w, outcome, header)
    PROVE  \E r \in Result : Finished(w, r) /\ GoodResult(worker[w].attempt, r)
  <1> DEFINE attempt == worker[w].attempt
             after == ParseRetryAfter(header, now)
             result(next) ==
                [outcome |-> IF outcome = "retryable" /\ next = <<>> THEN "exhausted"
                             ELSE outcome,
                 next |-> next,
                 completed |-> now,
                 meant |-> Meant(header),
                 quiet |-> QuietUntil(attempt, header)]
  <1>1. PICK next \in (IF outcome = "retryable" THEN NextAttempt(policy, attempt, after, now)
                       ELSE {<<>>}) :
           Finished(w, result(next))
    <2>1. \A next : result(next).quiet = QuietUntil(attempt, header)
      OBVIOUS
    <2> QED
      BY <2>1, Zenon DEF Complete, Finished
  <1> DEFINE r == result(next)
  <1>2. now \in Nat /\ attempt \in Nat \ {0} /\ Meant(header) \in Int
    BY RetryAfterRead DEF OverlapInv, TimingTypeOK, AttemptsCounted, Busy, WorkerState, TaskState
  <1>3. /\ policy.maxAttempts \in Nat \ {0} /\ policy.lifetime \in Nat \ {0}
        /\ policy.maxAttempts > 1 => policy.delays # <<>>
    BY PolicySound DEF OverlapInv
  <1>4. policy.delays # <<>> => DelayAfter(policy, attempt) \in Nat \ {0}
    <2>1. policy.delays # <<>> => DelayAfter(policy, attempt) \in 1 .. policy.lifetime
      BY <1>2, DelayTyped, Zenon DEF OverlapInv
    <2> QED
      BY <1>3, <2>1
  <1>5. ASSUME policy.delays # <<>>, NEW d \in Jittered(DelayAfter(policy, attempt))
        PROVE  /\ d \in Nat \ {0} /\ d >= (4 * DelayAfter(policy, attempt)) \div 5
               /\ d = 1 \/ d <= (6 * DelayAfter(policy, attempt)) \div 5
    BY <1>4, <1>5, JitterBounded
  <1>6. next \in Seq(Int)
    <2>1. CASE next = <<>>
      BY <2>1
    <2>2. CASE next = after /\ after # <<>>
      <3>1. TimingTypeOK
        BY Zenon DEF OverlapInv
      <3>2. PICK t \in Int : after = <<t>>
        BY <2>2, <3>1, RetryAfterRead, Zenon
      <3>3. <<t>> \in Seq(Int)
        BY TimeTyped
      <3> QED
        BY <2>2, <3>2, <3>3
    <2>3. CASE policy.delays # <<>> /\
               \E d \in Jittered(DelayAfter(policy, attempt)) : next = <<now + d>>
      BY <1>2, <1>5, <2>3
    <2> QED
      BY <1>1, <2>1, <2>2, <2>3 DEF NextAttempt
  <1>7. QuietUntil(attempt, header) \in Int
    BY <1>2, <1>4 DEF QuietUntil
  <1>8. r \in Result
    BY <1>2, <1>6, <1>7 DEF Result
  <1>9. ASSUME outcome = "retryable", next # <<>>
        PROVE  next[1] >= QuietUntil(attempt, header)
    <2>1. policy.delays # <<>>
      BY <1>1, <1>9 DEF NextAttempt
    <2>2. CASE Meant(header) > now /\ Fits(header)
      <3>1. after = <<Meant(header)>>
        BY <2>2, RetryAfterRead DEF OverlapInv
      <3>2. next = after
        BY <1>1, <1>2, <1>9, <2>2, <3>1 DEF NextAttempt
      <3> QED
        BY <1>2, <2>2, <3>1, <3>2 DEF QuietUntil
    <2>3. CASE ~(Meant(header) > now)
      <3>0. Fits(header)
        BY <2>3, RetryAfterRead DEF OverlapInv
      <3>1. after = <<>> \/ after[1] <= now
        BY <2>3, <3>0, RetryAfterRead DEF OverlapInv
      <3>2. after = <<>> \/ ~(after[1] > now)
        BY <1>2, <3>1, RetryAfterRead DEF OverlapInv
      <3>3. PICK d \in Jittered(DelayAfter(policy, attempt)) : next = <<now + d>>
        BY <1>1, <1>9, <3>2 DEF NextAttempt
      <3>4. QuietUntil(attempt, header) = now + (4 * DelayAfter(policy, attempt)) \div 5
        BY <1>2, <2>1, <2>3 DEF QuietUntil
      <3> QED
        BY <1>2, <1>4, <1>5, <2>1, <3>3, <3>4
    <2>4. CASE Meant(header) > now /\ ~Fits(header)
      <3>1. QuietUntil(attempt, header) = now
        BY <1>2, <2>4 DEF QuietUntil
      <3>2. CASE next = after /\ after[1] > now
        <4>1. PICK t \in Int : after = <<t>>
          BY <1>9, <3>2, RetryAfterRead DEF OverlapInv
        <4> QED
          BY <1>2, <3>1, <3>2, <4>1
      <3>3. CASE \E d \in Jittered(DelayAfter(policy, attempt)) : next = <<now + d>>
        BY <1>2, <1>5, <2>1, <3>1, <3>3
      <3> QED
        BY <1>1, <1>9, <3>2, <3>3 DEF NextAttempt
    <2> QED
      BY <2>2, <2>3, <2>4
  <1>10. ASSUME outcome = "retryable", next = <<>>
         PROVE  Hopeless(attempt, r)
    <2> SUFFICES ASSUME ~(attempt >= policy.maxAttempts)
                 PROVE  IF Meant(header) > now THEN Meant(header) > policy.lifetime
                        ELSE now + (6 * DelayAfter(policy, attempt)) \div 5 > policy.lifetime
      BY DEF Hopeless
    <2>1. policy.delays # <<>>
      BY <1>2, <1>3
    <2>2. CASE Meant(header) > now /\ Fits(header)
      <3>1. after = <<Meant(header)>>
        BY <2>2, RetryAfterRead DEF OverlapInv
      <3>2. Meant(header) - now > policy.lifetime
        BY <1>1, <1>2, <1>10, <2>1, <2>2, <3>1 DEF NextAttempt
      <3> QED
        BY <1>2, <1>3, <2>2, <3>2
    <2>3. CASE ~(Meant(header) > now)
      <3>0. Fits(header)
        BY <2>3, RetryAfterRead DEF OverlapInv
      <3>1. after = <<>> \/ after[1] <= now
        BY <2>3, <3>0, RetryAfterRead DEF OverlapInv
      <3>2. after = <<>> \/ ~(after[1] > now)
        BY <1>2, <3>1, RetryAfterRead DEF OverlapInv
      <3>3. PICK d \in Jittered(DelayAfter(policy, attempt)) : d > policy.lifetime
        BY <1>1, <1>2, <1>10, <2>1, <3>2 DEF NextAttempt
      <3> QED
        BY <1>2, <1>3, <1>4, <1>5, <2>1, <2>3, <3>3, SMTT(60)
    <2>4. CASE ~Fits(header)
      BY <2>4, RetryAfterRead DEF OverlapInv
    <2> QED
      BY <2>2, <2>3, <2>4
  <1>11. GoodResult(attempt, r)
    BY <1>9, <1>10 DEF GoodResult
  <1> QED
    BY <1>1, <1>8, <1>11

-----------------------------------------------------------------------------
(* The steps. *)

(* The worker's half of an answer or of a transport error. *)
Finish(w) ==
    \E outcome \in {"delivered", "retryable", "permanent"}, header \in RetryAfterHeaders :
        Complete(w, outcome, header)

LEMMA CallsFinish ==
    ASSUME NEW w \in Worker, Answer(w) \/ TransportError(w)
    PROVE  worker[w].pc = "call" /\ Finish(w) /\ UNCHANGED <<now, policy, task, last>>
  <1>1. CASE Answer(w)
    <2>1. PICK status \in StatusCodes, header \in RetryAfterHeaders :
             Complete(w, ClassifyResult(status), header)
      BY <1>1 DEF Answer
    <2>2. ClassifyResult(status) \in {"delivered", "retryable", "permanent"}
      BY DEF ClassifyResult
    <2> QED
      BY <1>1, <2>1, <2>2 DEF Answer, Finish
  <1>2. CASE TransportError(w)
    <2>1. [kind |-> "none"] \in RetryAfterHeaders
      BY DEF RetryAfterHeaders
    <2> QED
      BY <1>2, <2>1 DEF TransportError, Finish
  <1> QED
    BY <1>1, <1>2

LEMMA NoResultTyped == NoResult \in Result /\ Idle \in WorkerState /\ NoAnswer \in Heard
  <1>1. NoResult \in Result /\ NoAnswer \in Heard
    BY DEF NoResult, Result, NoAnswer, Heard
  <1> QED
    BY <1>1 DEF Idle, WorkerState

LEMMA OverlapInitially ==
    ASSUME TimingInit
    PROVE  OverlapInv
  <1>1. TimingTypeOK
    BY NoResultTyped DEF TimingInit, TimingTypeOK, TaskState
  <1>2. \A w \in Worker : worker[w].pc = "idle"
    BY DEF TimingInit, Idle
  <1>3. AttemptsCounted
    BY <1>1, <1>2, PolicySound DEF TimingInit, AttemptsCounted, Busy
  <1> QED
    BY <1>1, <1>2, <1>3 DEF OverlapInv, LeaseOrLate, CallsInTime

(* What a step keeps if it leaves the clock, the row and the other workers *)
(* alone, and the worker itself with no attempt or with the one it had.    *)
LEMMA OverlapLocalStep ==
    ASSUME OverlapInv, NEW w \in Worker, NEW s \in WorkerState,
           worker' = [worker EXCEPT ![w] = s],
           UNCHANGED <<now, policy, task, last>>, heard' \in Heard,
           \/ s.pc \in {"idle", "claim"}
           \/ /\ s.pc = "apply" /\ Busy(w)
              /\ s.attempt = worker[w].attempt
           \/ /\ s.pc = "call" /\ worker[w].pc = "acquire"
              /\ s.attempt = worker[w].attempt
              /\ s.clock = worker[w].clock
              /\ s.started = now
    PROVE  OverlapInv'
  <1>1. TimingTypeOK'
    BY DEF OverlapInv, TimingTypeOK
  <1>2. worker'[w] = s /\ \A v \in Worker : v # w => worker'[v] = worker[v]
    BY DEF OverlapInv, TimingTypeOK
  <1>3. Busy(w)' => Busy(w) /\ worker'[w].attempt = worker[w].attempt
    BY <1>2 DEF Busy
  <1>4. \A v \in Worker : Busy(v)' => Busy(v) /\ worker'[v].attempt = worker[v].attempt
    BY <1>2, <1>3 DEF Busy
  <1>5. AttemptsCounted'
    BY <1>4 DEF OverlapInv, AttemptsCounted
  <1>6. LeaseOrLate'
    BY <1>2 DEF OverlapInv, LeaseOrLate
  <1>7. CallsInTime'
    BY <1>2, PolicySound DEF OverlapInv, TimingTypeOK, CallsInTime, Deadline
  <1> QED
    BY <1>1, <1>5, <1>6, <1>7 DEF OverlapInv

(* The row and the worker after a claim. *)
LEMMA ClaimShape ==
    ASSUME OverlapInv, NEW w \in Worker, Claim(w), task.status = "pending"
    PROVE  /\ /\ task'.status = "delivering" /\ task'.attempts = task.attempts + 1
              /\ task'.lease = task.attempts + 1
              /\ task'.leaseUntil = <<worker[w].clock + LeaseTTL>>
              /\ task' \in TaskState
           /\ /\ worker'[w].pc = "acquire" /\ worker'[w].attempt = task.attempts + 1
              /\ worker'[w].clock = worker[w].clock
              /\ worker' \in [Worker -> WorkerState]
              /\ \A v \in Worker : v # w => worker'[v] = worker[v]
  <1>1. /\ task \in TaskState /\ worker \in [Worker -> WorkerState]
        /\ now \in Nat /\ last \in Result /\ heard \in Heard /\ policy \in Policies
    BY DEF OverlapInv, TimingTypeOK
  <1>2. worker[w] \in WorkerState /\ worker[w].clock + LeaseTTL \in Int
    BY <1>1, TimingAssumption DEF WorkerState
  <1>3. /\ task'.status = "delivering" /\ task'.attempts = task.attempts + 1
        /\ task'.lease = task.attempts + 1
        /\ task'.leaseUntil = <<worker[w].clock + LeaseTTL>>
        /\ task' \in TaskState
    <2>0. <<worker[w].clock + LeaseTTL>> \in Seq(Int) /\ task.attempts + 1 \in Nat
      BY <1>1, <1>2, TimeTyped DEF TaskState
    <2>1. PICK next \in Nat, until \in Seq(Int) :
             next = task.attempts + 1 /\ until = <<worker[w].clock + LeaseTTL>>
      BY <2>0, Zenon
    <2>2. task' = [task EXCEPT !.status = "delivering", !.attempts = next,
                               !.lease = next, !.leaseUntil = until]
      BY <2>1 DEF Claim
    <2>3. task' \in TaskState
      BY <1>1, <2>2 DEF TaskState
    <2> QED
      BY <1>1, <2>1, <2>2, <2>3 DEF TaskState
  <1>4. /\ worker'[w].pc = "acquire" /\ worker'[w].attempt = task.attempts + 1
        /\ worker'[w].clock = worker[w].clock
        /\ worker' \in [Worker -> WorkerState]
        /\ \A v \in Worker : v # w => worker'[v] = worker[v]
    <2>1. PICK next \in Nat : next = task.attempts + 1
      BY <1>1 DEF TaskState
    <2> DEFINE s == [worker[w] EXCEPT !.pc = "acquire", !.attempt = next]
    <2>2. worker' = [worker EXCEPT ![w] = s]
      BY <1>1, <2>1 DEF Claim
    <2>3. s \in WorkerState /\ s.pc = "acquire" /\ s.attempt = next /\ s.clock = worker[w].clock
      BY <1>2 DEF WorkerState
    <2> HIDE DEF s
    <2> QED
      BY <1>1, <2>1, <2>2, <2>3
  <1> QED
    BY <1>3, <1>4

LEMMA OverlapClaim ==
    ASSUME OverlapInv, NEW w \in Worker, Claim(w), task.status = "pending"
    PROVE  OverlapInv'
  <1>1. /\ task \in TaskState /\ worker \in [Worker -> WorkerState]
        /\ now \in Nat /\ last \in Result /\ heard \in Heard /\ policy \in Policies
    BY DEF OverlapInv, TimingTypeOK
  <1>2. worker[w] \in WorkerState /\ worker[w].clock + LeaseTTL \in Int
    BY <1>1, TimingAssumption DEF WorkerState
  <1>3. /\ task'.status = "delivering" /\ task'.attempts = task.attempts + 1
        /\ task'.lease = task.attempts + 1
        /\ task'.leaseUntil = <<worker[w].clock + LeaseTTL>>
        /\ task' \in TaskState
    BY ClaimShape
  <1>4. /\ worker'[w].pc = "acquire" /\ worker'[w].attempt = task.attempts + 1
        /\ worker'[w].clock = worker[w].clock
        /\ worker' \in [Worker -> WorkerState]
        /\ \A v \in Worker : v # w => worker'[v] = worker[v]
    BY ClaimShape
  <1>5. UNCHANGED <<now, policy, last, heard>>
    BY DEF Claim
  <1>6. task.attempts \in Nat /\ task.attempts < policy.maxAttempts /\ policy.maxAttempts \in Nat
    BY <1>1, PolicySound DEF OverlapInv, AttemptsCounted, TaskState
  <1>7. TimingTypeOK'
    BY <1>1, <1>3, <1>4, <1>5 DEF TimingTypeOK
  <1>8. \A v \in Worker : v # w => (Busy(v)' <=> Busy(v)) /\ worker'[v].attempt = worker[v].attempt
    BY <1>4 DEF Busy
  <1>9. \A v \in Worker : Busy(v) => worker[v].attempt \in 1 .. task.attempts
    BY DEF OverlapInv, AttemptsCounted
  <1>10. AttemptsCounted'
    <2>1. \A v \in Worker : Busy(v)' => worker'[v].attempt \in 1 .. task'.attempts
      BY <1>3, <1>4, <1>6, <1>8, <1>9
    <2>2. \A v \in Worker : v # w /\ Busy(v)' => worker'[v].attempt # task.attempts + 1
      BY <1>6, <1>8, <1>9
    <2>3. \A v, u \in Worker : v # u /\ v # w /\ u # w /\ Busy(v)' /\ Busy(u)' =>
             worker'[v].attempt # worker'[u].attempt
      BY <1>8 DEF OverlapInv, AttemptsCounted
    <2> QED
      BY <1>3, <1>4, <1>5, <1>6, <2>1, <2>2, <2>3 DEF AttemptsCounted
  <1>11. LeaseOrLate'
    BY <1>3, <1>4, <1>5 DEF OverlapInv, LeaseOrLate
  <1>12. CallsInTime'
    BY <1>4, <1>5 DEF OverlapInv, CallsInTime, Deadline
  <1> QED
    BY <1>7, <1>10, <1>11, <1>12 DEF OverlapInv

(* The row a result is stored in. *)
LEMMA ApplyShape ==
    ASSUME OverlapInv, NEW w \in Worker, Apply(w),
           task.status = "delivering", task.lease = worker[w].attempt
    PROVE  /\ task'.status = StatusAfter(worker[w].result.outcome)
           /\ task'.attempts = task.attempts
           /\ task'.nextAt = worker[w].result.next
           /\ task'.deadAt = IF worker[w].result.outcome \in {"permanent", "exhausted"}
                             THEN <<worker[w].result.completed>> ELSE <<>>
           /\ task' \in TaskState
  <1>a. task \in TaskState
    BY DEF OverlapInv, TimingTypeOK
  <1>b. worker[w].result \in Result
    BY DEF OverlapInv, TimingTypeOK, WorkerState
  <1> DEFINE result == worker[w].result
  <1>1. PICK status \in {"delivered", "retry_wait", "dead"} : status = StatusAfter(result.outcome)
    BY DEF StatusAfter
  <1>2. PICK next \in Seq(Int), none \in Seq(Int), deadAt \in Seq(Int) :
           /\ next = result.next /\ none = <<>>
           /\ deadAt = IF result.outcome \in {"permanent", "exhausted"}
                       THEN <<result.completed>> ELSE <<>>
    <2>1. result.next \in Seq(Int) /\ result.completed \in Int
      BY <1>b DEF Result
    <2>2. <<result.completed>> \in Seq(Int) /\ <<>> \in Seq(Int)
      BY <2>1, TimeTyped
    <2> QED
      BY <2>1, <2>2, Zenon
  <1>3. task' = [task EXCEPT !.status = status, !.nextAt = next, !.lease = 0,
                             !.leaseUntil = none, !.deadAt = deadAt]
    BY <1>1, <1>2 DEF Apply
  <1>4. task' \in TaskState
    BY <1>a, <1>3 DEF TaskState
  <1> QED
    BY <1>a, <1>1, <1>2, <1>3, <1>4 DEF TaskState

LEMMA OverlapApply ==
    ASSUME OverlapInv, NEW w \in Worker, Apply(w),
           task.status = "delivering", task.lease = worker[w].attempt
    PROVE  OverlapInv'
  <1>1. /\ task \in TaskState /\ worker \in [Worker -> WorkerState]
        /\ now \in Nat /\ heard \in Heard /\ policy \in Policies
    BY DEF OverlapInv, TimingTypeOK
  <1>2. worker[w].result \in Result
    BY <1>1 DEF WorkerState
  <1>3. /\ task'.status = StatusAfter(worker[w].result.outcome)
        /\ task'.attempts = task.attempts
        /\ task' \in TaskState
    BY ApplyShape
  <1>4. task'.status \in {"delivered", "retry_wait", "dead"}
    BY <1>3 DEF StatusAfter
  <1>5. /\ worker'[w].pc = "idle" /\ worker' \in [Worker -> WorkerState]
        /\ \A v \in Worker : v # w => worker'[v] = worker[v]
    BY <1>1, NoResultTyped DEF Apply, Idle
  <1>6. UNCHANGED <<now, policy, heard>> /\ last' = worker[w].result
    BY DEF Apply
  <1>7. TimingTypeOK'
    BY <1>1, <1>2, <1>3, <1>5, <1>6 DEF TimingTypeOK
  <1>8. \A v \in Worker : Busy(v)' => v # w /\ Busy(v) /\ worker'[v] = worker[v]
    BY <1>5 DEF Busy
  <1>9. AttemptsCounted'
    BY <1>3, <1>4, <1>6, <1>8 DEF OverlapInv, AttemptsCounted
  <1>10. \A v \in Worker : v # w /\ Busy(v) => worker[v].attempt # task.lease
    BY DEF OverlapInv, AttemptsCounted, Busy, Apply
  <1>11. LeaseOrLate'
    BY <1>5, <1>6, <1>10 DEF OverlapInv, LeaseOrLate, Busy
  <1>12. CallsInTime'
    BY <1>5, <1>6 DEF OverlapInv, CallsInTime, Deadline
  <1> QED
    BY <1>7, <1>9, <1>11, <1>12 DEF OverlapInv

(* The row a due task is turned into. *)
LEMMA ScheduleShape ==
    ASSUME OverlapInv, ScheduleDue
    PROVE  /\ task'.status = IF Exhausted THEN "dead" ELSE "pending"
           /\ task'.attempts = task.attempts
           /\ task'.deadAt = IF Exhausted THEN <<now>> ELSE task.deadAt
           /\ task' \in TaskState
  <1>0. task \in TaskState /\ now \in Nat
    BY DEF OverlapInv, TimingTypeOK
  <1>1. PICK status \in {"dead", "pending"} : status = IF Exhausted THEN "dead" ELSE "pending"
    OBVIOUS
  <1>2. PICK none \in Seq(Int), deadAt \in Seq(Int) :
           none = <<>> /\ deadAt = IF Exhausted THEN <<now>> ELSE task.deadAt
    <2>1. <<now>> \in Seq(Int) /\ <<>> \in Seq(Int) /\ task.deadAt \in Seq(Int)
      BY <1>0, TimeTyped DEF TaskState
    <2> QED
      BY <2>1, Zenon
  <1>3. task' = [task EXCEPT !.status = status, !.deadAt = deadAt, !.nextAt = none,
                             !.lease = 0, !.leaseUntil = none]
    BY <1>1, <1>2 DEF ScheduleDue
  <1>4. task' \in TaskState
    BY <1>0, <1>3 DEF TaskState
  <1> QED
    BY <1>0, <1>1, <1>2, <1>3, <1>4 DEF TaskState

LEMMA OverlapSchedule ==
    ASSUME OverlapInv, ScheduleDue
    PROVE  OverlapInv'
  <1>1. /\ task \in TaskState /\ worker \in [Worker -> WorkerState]
        /\ now \in Nat /\ heard \in Heard /\ policy \in Policies
    BY DEF OverlapInv, TimingTypeOK
  <1>2. /\ task'.status = IF Exhausted THEN "dead" ELSE "pending"
        /\ task'.attempts = task.attempts
        /\ task' \in TaskState
    BY ScheduleShape
  <1>3. UNCHANGED <<now, policy, worker, last, heard>>
    BY DEF ScheduleDue
  <1>4. TimingTypeOK'
    BY <1>2, <1>3 DEF OverlapInv, TimingTypeOK
  <1>5. task.attempts \in Nat /\ policy.maxAttempts \in Nat
    BY <1>1, PolicySound DEF OverlapInv, TaskState
  <1>6. AttemptsCounted'
    BY <1>2, <1>3, <1>5 DEF OverlapInv, AttemptsCounted, Exhausted, Busy
  <1>7. \A w \in Worker : worker[w].pc \in {"acquire", "call"} => now > worker[w].clock + LeaseTTL
    <2> SUFFICES ASSUME NEW w \in Worker, worker[w].pc \in {"acquire", "call"},
                        task.status = "delivering",
                        task.leaseUntil = <<worker[w].clock + LeaseTTL>>
                 PROVE  now > worker[w].clock + LeaseTTL
      BY DEF OverlapInv, LeaseOrLate
    <2>1. task.leaseUntil[1] < now
      BY DEF ScheduleDue, Due
    <2>2. worker[w].clock + LeaseTTL \in Int
      BY <1>1, TimingAssumption DEF WorkerState
    <2> QED
      BY <1>1, <2>1, <2>2
  <1>8. LeaseOrLate'
    BY <1>3, <1>7 DEF LeaseOrLate
  <1>9. CallsInTime'
    BY <1>3 DEF OverlapInv, CallsInTime, Deadline
  <1> QED
    BY <1>4, <1>6, <1>8, <1>9 DEF OverlapInv

LEMMA OverlapTick ==
    ASSUME OverlapInv, Tick
    PROVE  OverlapInv'
  <1>1. now \in Nat /\ now' = now + 1 /\ UNCHANGED <<policy, task, worker, last, heard>>
    BY DEF OverlapInv, TimingTypeOK, Tick
  <1>2. \A w \in Worker : worker[w].clock + LeaseTTL \in Int /\ Deadline(w) \in Int
    BY TimingAssumption, PolicySound DEF OverlapInv, TimingTypeOK, WorkerState, Deadline
  <1>3. TimingTypeOK'
    BY <1>1 DEF OverlapInv, TimingTypeOK
  <1>4. AttemptsCounted'
    BY <1>1 DEF OverlapInv, AttemptsCounted, Busy
  <1>5. LeaseOrLate'
    BY <1>1, <1>2 DEF OverlapInv, LeaseOrLate
  <1>6. CallsInTime'
    <2>1. \A w \in Worker : Deadline(w)' = Deadline(w)
      BY <1>1 DEF Deadline
    <2>2. \A w \in Worker : worker[w].pc = "call" => now < Deadline(w)
      BY DEF Tick
    <2> QED
      BY <1>1, <1>2, <2>1, <2>2 DEF CallsInTime
  <1> QED
    BY <1>3, <1>4, <1>5, <1>6 DEF OverlapInv

LEMMA OverlapStep ==
    ASSUME OverlapInv, [TimingNext]_timingVars
    PROVE  OverlapInv'
  <1>0. now \in Nat /\ worker \in [Worker -> WorkerState] /\ heard \in Heard
    BY DEF OverlapInv, TimingTypeOK
  <1>1. ASSUME NEW w \in Worker, ReadClock(w) PROVE OverlapInv'
    <2>0. PICK x \in WorkerState, t \in Int : x = worker[w] /\ t = now
      BY <1>0
    <2> DEFINE s == [x EXCEPT !.pc = "claim", !.clock = t]
    <2>1. s \in WorkerState /\ s.pc = "claim"
      BY DEF WorkerState
    <2>2. worker' = [worker EXCEPT ![w] = s]
      BY <1>0, <1>1, <2>0 DEF ReadClock
    <2> HIDE DEF s
    <2> QED
      BY <1>0, <1>1, <2>0, <2>1, <2>2, OverlapLocalStep DEF ReadClock
  <1>2. ASSUME NEW w \in Worker, Claim(w) PROVE OverlapInv'
    <2>1. CASE task.status = "pending"
      BY <1>2, <2>1, OverlapClaim
    <2>2. CASE task.status # "pending"
      BY <1>0, <1>2, <2>2, NoResultTyped, OverlapLocalStep DEF Claim, Idle
    <2> QED
      BY <2>1, <2>2
  <1>3. ASSUME NEW w \in Worker, StartCall(w) PROVE OverlapInv'
    <2>0. PICK x \in WorkerState, t \in Int : x = worker[w] /\ t = now
      BY <1>0
    <2> DEFINE s == [x EXCEPT !.pc = "call", !.started = t]
    <2>1. /\ s \in WorkerState /\ s.pc = "call" /\ s.attempt = x.attempt
          /\ s.clock = x.clock /\ s.started = t
      BY DEF WorkerState
    <2>2. worker' = [worker EXCEPT ![w] = s]
      BY <1>0, <1>3, <2>0 DEF StartCall
    <2>3. worker[w].pc = "acquire" /\ UNCHANGED <<now, policy, task, last, heard>>
      BY <1>3 DEF StartCall
    <2> HIDE DEF s
    <2>4. s.attempt = worker[w].attempt /\ s.clock = worker[w].clock /\ s.started = now
      BY <2>0, <2>1
    <2> QED
      BY <1>0, <2>1, <2>2, <2>3, <2>4, OverlapLocalStep
  <1>4. ASSUME NEW w \in Worker, Answer(w) \/ TransportError(w) PROVE OverlapInv'
    <2>1. worker[w].pc = "call" /\ Finish(w) /\ UNCHANGED <<now, policy, task, last>>
      BY <1>4, CallsFinish
    <2>2. PICK r \in Result : Finished(w, r)
      <3>1. PICK outcome \in {"delivered", "retryable", "permanent"},
                 header \in RetryAfterHeaders : Complete(w, outcome, header)
        BY <2>1 DEF Finish
      <3> QED
        BY <2>1, <3>1, CompleteShape
    <2>3. PICK attempt \in Nat : attempt = worker[w].attempt
      BY <1>0 DEF WorkerState
    <2> DEFINE s == [Idle EXCEPT !.pc = "apply", !.attempt = attempt, !.result = r]
    <2>4. s \in WorkerState /\ s.pc = "apply" /\ s.attempt = attempt
      BY NoResultTyped DEF Idle, WorkerState
    <2>5. worker' = [worker EXCEPT ![w] = s]
      BY <2>2, <2>3, Zenon DEF Finished
    <2>6. heard' \in Heard
      <3>1. worker[w].clock + LeaseTTL \in Int /\ r.quiet \in Int
        BY <1>0, TimingAssumption DEF WorkerState, Result
      <3>2. heard' = [attempt |-> attempt, quiet |-> r.quiet,
                     until |-> worker[w].clock + LeaseTTL]
        BY <2>2, <2>3 DEF Finished
      <3> QED
        BY <3>1, <3>2 DEF Heard
    <2> HIDE DEF s
    <2> QED
      BY <2>1, <2>3, <2>4, <2>5, <2>6, OverlapLocalStep DEF Busy
  <1>5. ASSUME NEW w \in Worker, Apply(w) PROVE OverlapInv'
    <2>1. CASE task.status = "delivering" /\ task.lease = worker[w].attempt
      BY <1>5, <2>1, OverlapApply
    <2>2. CASE ~(task.status = "delivering" /\ task.lease = worker[w].attempt)
      BY <1>0, <1>5, <2>2, NoResultTyped, OverlapLocalStep DEF Apply, Idle
    <2> QED
      BY <2>1, <2>2
  <1>6. ASSUME NEW w \in Worker, Crash(w) PROVE OverlapInv'
    BY <1>0, <1>6, NoResultTyped, OverlapLocalStep DEF Crash, Idle
  <1>7. CASE UNCHANGED timingVars
    BY <1>7 DEF timingVars, OverlapInv, TimingTypeOK, AttemptsCounted, LeaseOrLate,
                CallsInTime, Deadline, Busy
  <1> QED
    BY <1>1, <1>2, <1>3, <1>4, <1>5, <1>6, <1>7, OverlapSchedule, OverlapTick DEF TimingNext

LEMMA OverlapInvariant == TimingSpec => []OverlapInv
  BY OverlapInitially, OverlapStep, PTL DEF TimingSpec

(* Handle and ClaimByID: two calls for one task overlap only if the worker *)
(* of the older one stalled between reading the clock for its lease and    *)
(* sending the request.                                                    *)
THEOREM OverlapsExplained == TimingSpec => []OverlapNeedsStall
  <1>1. OverlapInv => OverlapNeedsStall
    <2> SUFFICES ASSUME OverlapInv, NEW v \in Worker, NEW w \in Worker,
                        worker[v].pc = "call", worker[w].pc = "call",
                        worker[v].attempt < worker[w].attempt
                 PROVE  worker[v].started - worker[v].clock > LeaseTTL - policy.timeout
      BY DEF OverlapNeedsStall
    <2>1. /\ task.attempts \in Nat /\ worker[v].attempt \in Nat /\ worker[w].attempt \in Nat
          /\ worker[v].started \in Int /\ worker[v].clock \in Int /\ now \in Int
          /\ LeaseTTL \in Int /\ policy.timeout \in Int
      BY TimingAssumption, PolicySound, SMTT(60)
      DEF OverlapInv, TimingTypeOK, WorkerState, TaskState
    <2>2. worker[w].attempt <= task.attempts /\ (task.status = "delivering" => task.lease = task.attempts)
      BY <2>1 DEF OverlapInv, AttemptsCounted, Busy
    <2>3. now > worker[v].clock + LeaseTTL
      BY <2>1, <2>2 DEF OverlapInv, LeaseOrLate
    <2>4. now <= worker[v].started + policy.timeout
      BY DEF OverlapInv, CallsInTime, Deadline
    <2> QED
      BY <2>1, <2>3, <2>4
  <1> QED
    BY <1>1, OverlapInvariant, PTL

-----------------------------------------------------------------------------
(* The waits of the stored results, and the deaths. *)

LEMMA ResultInitially ==
    ASSUME TimingInit
    PROVE  ResultInv
  <1>1. \A w \in Worker : worker[w].pc = "idle"
    BY DEF TimingInit, Idle
  <1>2. task.status = "pending" /\ now = 0 /\ last.quiet = 0
    BY DEF TimingInit, NoResult
  <1> QED
    BY <1>1, <1>2 DEF ResultInv, ResultsGood, QuietKept, DeadOnlyWhenHopeless

(* A step of one worker that leaves the clock and the row alone. *)
LEMMA ResultLocalStep ==
    ASSUME OverlapInv, ResultInv, NEW w \in Worker, NEW s,
           worker' = [worker EXCEPT ![w] = s],
           UNCHANGED <<now, policy, task, last>>,
           \/ s.pc \in {"idle", "claim", "call"}
           \/ s.pc = "apply" /\ GoodResult(s.attempt, s.result)
    PROVE  ResultInv'
  <1>1. worker'[w] = s /\ \A v \in Worker : v # w => worker'[v] = worker[v]
    BY DEF OverlapInv, TimingTypeOK
  <1>2. ResultsGood'
    <2> SUFFICES ASSUME NEW v \in Worker, worker'[v].pc = "apply"
                 PROVE  GoodResult(worker[v].attempt, worker[v].result)'
      BY DEF ResultsGood
    <2>1. GoodResult(worker'[v].attempt, worker'[v].result)
      BY <1>1 DEF ResultInv, ResultsGood
    <2> QED
      BY <2>1 DEF GoodResult, Hopeless
  <1>3. QuietKept'
    BY <1>1 DEF ResultInv, QuietKept
  <1>4. DeadOnlyWhenHopeless'
    BY DEF ResultInv, DeadOnlyWhenHopeless
  <1> QED
    BY <1>2, <1>3, <1>4 DEF ResultInv

LEMMA ResultClaim ==
    ASSUME OverlapInv, ResultInv, NEW w \in Worker, Claim(w), task.status = "pending"
    PROVE  ResultInv'
  <1>1. /\ task'.status = "delivering"
        /\ worker'[w].pc = "acquire" /\ \A v \in Worker : v # w => worker'[v] = worker[v]
    BY ClaimShape
  <1>2. UNCHANGED <<now, policy, last>>
    BY DEF Claim
  <1>3. ResultsGood'
    BY <1>1, <1>2 DEF ResultInv, ResultsGood, GoodResult, Hopeless
  <1>4. QuietKept'
    BY <1>1, <1>2 DEF ResultInv, QuietKept
  <1> QED
    BY <1>1, <1>3, <1>4 DEF ResultInv, DeadOnlyWhenHopeless

LEMMA ResultApply ==
    ASSUME OverlapInv, ResultInv, NEW w \in Worker, Apply(w),
           task.status = "delivering", task.lease = worker[w].attempt
    PROVE  ResultInv'
  <1> DEFINE r == worker[w].result
  <1>1. /\ task'.status = StatusAfter(r.outcome)
        /\ task'.attempts = task.attempts
        /\ task'.nextAt = r.next
        /\ task'.deadAt = IF r.outcome \in {"permanent", "exhausted"} THEN <<r.completed>>
                          ELSE <<>>
    BY ApplyShape
  <1>2. /\ worker'[w].pc = "idle" /\ \A v \in Worker : v # w => worker'[v] = worker[v]
        /\ UNCHANGED <<now, policy>> /\ last' = r
    BY DEF OverlapInv, TimingTypeOK, Apply, Idle
  <1>3. r \in Result /\ task.attempts \in Nat /\ policy.maxAttempts \in Nat
    BY PolicySound DEF OverlapInv, TimingTypeOK, WorkerState, TaskState
  <1>4. GoodResult(task.attempts, r) /\ task.lease = task.attempts
    BY DEF ResultInv, ResultsGood, OverlapInv, AttemptsCounted, Apply
  <1>5. ResultsGood'
    BY <1>2 DEF ResultInv, ResultsGood, GoodResult, Hopeless
  <1>6. QuietKept'
    <2>1. \A v \in Worker : v # w /\ worker[v].pc = "acquire" => worker[v].attempt # task.attempts
      BY <1>4, ZenonT(60) DEF OverlapInv, AttemptsCounted, Busy, Apply
    <2>2. task'.status = "retry_wait" => r.outcome = "retryable"
      BY <1>1 DEF StatusAfter
    <2>3. task'.status \notin {"pending", "delivering"}
      BY <1>1 DEF StatusAfter
    <2>4. task'.status = "retry_wait" => task'.nextAt # <<>> /\ task'.nextAt[1] >= last'.quiet
      BY <1>1, <1>2, <1>4, <2>2 DEF GoodResult
    <2>5. \A v \in Worker : worker'[v].pc = "acquire" => worker'[v].attempt # task'.attempts
      BY <1>1, <1>2, <2>1
    <2> QED
      BY <2>3, <2>4, <2>5 DEF QuietKept
  <1>7. DeadOnlyWhenHopeless'
    <2> SUFFICES ASSUME task'.status = "dead", r.outcome # "permanent"
                 PROVE  DeadOnlyWhenHopeless'
      BY <1>2 DEF DeadOnlyWhenHopeless
    <2>1. r.outcome = "exhausted"
      BY <1>1, <1>3, <1>4 DEF StatusAfter, Result, GoodResult
    <2>2. Hopeless(task.attempts, r) /\ task'.deadAt = <<r.completed>>
      BY <1>1, <1>4, <2>1 DEF GoodResult
    <2>3. task.attempts <= policy.maxAttempts
      BY DEF OverlapInv, AttemptsCounted
    <2>4. \/ task.attempts = policy.maxAttempts
          \/ IF r.meant > r.completed THEN r.meant > policy.lifetime
             ELSE r.completed + (6 * DelayAfter(policy, task.attempts)) \div 5 > policy.lifetime
      BY <1>3, <2>2, <2>3 DEF Hopeless
    <2>5. task'.deadAt[1] = r.completed
      BY <2>2
    <2> QED
      BY <1>1, <1>2, <2>4, <2>5 DEF DeadOnlyWhenHopeless
  <1> QED
    BY <1>5, <1>6, <1>7 DEF ResultInv

LEMMA ResultSchedule ==
    ASSUME OverlapInv, ResultInv, ScheduleDue
    PROVE  ResultInv'
  <1>1. /\ task'.status = IF Exhausted THEN "dead" ELSE "pending"
        /\ task'.attempts = task.attempts
        /\ task'.deadAt = IF Exhausted THEN <<now>> ELSE task.deadAt
    BY ScheduleShape
  <1>2. UNCHANGED <<now, policy, worker, last>>
    BY DEF ScheduleDue
  <1>3. /\ now \in Nat /\ task.attempts \in Nat /\ policy.maxAttempts \in Nat
        /\ policy.lifetime \in Nat /\ task.nextAt \in Seq(Int) /\ last.quiet \in Int
    BY PolicySound DEF OverlapInv, TimingTypeOK, TaskState, Result
  <1>4. now >= last.quiet
    <2>1. CASE task.status = "delivering"
      BY <2>1 DEF ResultInv, QuietKept
    <2>2. CASE task.status = "retry_wait" /\ task.nextAt[1] <= now
      <3>1. task.nextAt # <<>> /\ task.nextAt[1] >= last.quiet
        BY <2>2 DEF ResultInv, QuietKept
      <3>2. task.nextAt[1] \in Int
        BY <1>3, <3>1, NonEmptySequence
      <3> QED
        BY <1>3, <2>2, <3>1, <3>2
    <2> QED
      BY <2>1, <2>2 DEF ScheduleDue, Due
  <1>5. ResultsGood'
    BY <1>2 DEF ResultInv, ResultsGood, GoodResult, Hopeless
  <1>6. QuietKept'
    BY <1>1, <1>2, <1>4 DEF QuietKept
  <1>7. DeadOnlyWhenHopeless'
    <2> SUFFICES ASSUME Exhausted PROVE DeadOnlyWhenHopeless'
      BY <1>1 DEF DeadOnlyWhenHopeless
    <2>1. task.attempts <= policy.maxAttempts
      BY DEF OverlapInv, AttemptsCounted
    <2>2. task.attempts = policy.maxAttempts \/ now >= policy.lifetime
      BY <1>3, <2>1 DEF Exhausted
    <2>3. task'.deadAt[1] = now
      BY <1>1
    <2> QED
      BY <1>1, <1>2, <2>2, <2>3 DEF DeadOnlyWhenHopeless
  <1> QED
    BY <1>5, <1>6, <1>7 DEF ResultInv

LEMMA ResultTick ==
    ASSUME OverlapInv, ResultInv, Tick
    PROVE  ResultInv'
  <1>1. /\ now \in Nat /\ now' = now + 1 /\ last.quiet \in Int
        /\ UNCHANGED <<policy, task, worker, last>>
    BY DEF OverlapInv, TimingTypeOK, Result, Tick
  <1>2. ResultsGood'
    BY <1>1 DEF ResultInv, ResultsGood, GoodResult, Hopeless
  <1>3. QuietKept'
    BY <1>1 DEF ResultInv, QuietKept
  <1>4. DeadOnlyWhenHopeless'
    BY <1>1 DEF ResultInv, DeadOnlyWhenHopeless
  <1> QED
    BY <1>2, <1>3, <1>4 DEF ResultInv

LEMMA ResultStep ==
    ASSUME OverlapInv, ResultInv, [TimingNext]_timingVars
    PROVE  ResultInv'
  <1>1. ASSUME NEW w \in Worker, ReadClock(w) \/ StartCall(w) PROVE ResultInv'
    <2>1. worker[w] \in WorkerState /\ worker \in [Worker -> WorkerState]
      BY DEF OverlapInv, TimingTypeOK
    <2>2. /\ UNCHANGED <<now, policy, task, last>>
          /\ worker' = [worker EXCEPT ![w] = worker'[w]]
          /\ worker'[w].pc \in {"claim", "call"}
      BY <1>1, <2>1 DEF ReadClock, StartCall, WorkerState
    <2> QED
      BY <2>2, ResultLocalStep
  <1>2. ASSUME NEW w \in Worker, Claim(w) PROVE ResultInv'
    <2>1. CASE task.status = "pending"
      BY <1>2, <2>1, ResultClaim
    <2>2. CASE task.status # "pending"
      BY <1>2, <2>2, ResultLocalStep DEF Claim, Idle
    <2> QED
      BY <2>1, <2>2
  <1>3. ASSUME NEW w \in Worker, Answer(w) \/ TransportError(w) PROVE ResultInv'
    <2>1. worker[w].pc = "call" /\ Finish(w) /\ UNCHANGED <<now, policy, task, last>>
      BY <1>3, CallsFinish
    <2>2. PICK outcome \in {"delivered", "retryable", "permanent"},
               header \in RetryAfterHeaders : Complete(w, outcome, header)
      BY <2>1 DEF Finish
    <2>4. PICK r \in Result : Finished(w, r) /\ GoodResult(worker[w].attempt, r)
      BY <2>1, <2>2, CompleteShape
    <2> DEFINE s == [Idle EXCEPT !.pc = "apply", !.attempt = worker[w].attempt, !.result = r]
    <2>5. s.pc = "apply" /\ s.attempt = worker[w].attempt /\ s.result = r
      BY DEF Idle
    <2>6. worker' = [worker EXCEPT ![w] = s]
      BY <2>4, Zenon DEF Finished
    <2> HIDE DEF s
    <2>7. GoodResult(s.attempt, s.result)
      BY <2>4, <2>5
    <2> QED
      BY <2>1, <2>5, <2>6, <2>7, ResultLocalStep
  <1>4. ASSUME NEW w \in Worker, Apply(w) PROVE ResultInv'
    <2>1. CASE task.status = "delivering" /\ task.lease = worker[w].attempt
      BY <1>4, <2>1, ResultApply
    <2>2. CASE ~(task.status = "delivering" /\ task.lease = worker[w].attempt)
      BY <1>4, <2>2, ResultLocalStep DEF Apply, Idle
    <2> QED
      BY <2>1, <2>2
  <1>5. ASSUME NEW w \in Worker, Crash(w) PROVE ResultInv'
    BY <1>5, ResultLocalStep DEF Crash, Idle
  <1>6. CASE UNCHANGED timingVars
    <2>1. UNCHANGED <<now, policy, task, worker, last>>
      BY <1>6 DEF timingVars
    <2> QED
      BY <2>1 DEF ResultInv, ResultsGood, QuietKept, DeadOnlyWhenHopeless, GoodResult, Hopeless
  <1> QED
    BY <1>1, <1>2, <1>3, <1>4, <1>5, <1>6, ResultSchedule, ResultTick DEF TimingNext

LEMMA ResultInvariant == TimingSpec => [](OverlapInv /\ ResultInv)
  BY OverlapInitially, OverlapStep, ResultInitially, ResultStep, PTL DEF TimingSpec

(* NextAttempt and ScheduleDue: a task dies before its lifetime only with  *)
(* a permanent answer, without attempts left or if the next one would come *)
(* too late, whatever the supplier's Retry-After.                          *)
THEOREM DeathsExplained == TimingSpec => []DeadOnlyWhenHopeless
  <1>1. ResultInv => DeadOnlyWhenHopeless
    BY DEF ResultInv
  <1> QED
    BY <1>1, ResultInvariant, PTL

-----------------------------------------------------------------------------
(* The waits of all answers, stored or lost. *)

(* A step that hears nothing and changes neither the clock nor the row,    *)
(* and no worker but one, which gets no attempt it has not had.            *)
LEMMA HeardLocalStep ==
    ASSUME OverlapInv, HeardKept, NEW w \in Worker, NEW s,
           worker' = [worker EXCEPT ![w] = s],
           UNCHANGED <<now, policy, task, last, heard>>,
           \/ s.pc \in {"idle", "claim"}
           \/ s.pc = "call" /\ worker[w].pc = "acquire" /\ s.attempt = worker[w].attempt
    PROVE  HeardKept'
  <1>1. worker'[w] = s /\ \A v \in Worker : v # w => worker'[v] = worker[v]
    BY DEF OverlapInv, TimingTypeOK
  <1>2. Passed' <=> Passed
    BY DEF Passed
  <1>3. OnlyHeardIsKept'
    BY <1>1 DEF HeardKept, OnlyHeardIsKept
  <1> QED
    BY <1>2, <1>3 DEF HeardKept

LEMMA HeardClaim ==
    ASSUME OverlapInv, HeardKept, NEW w \in Worker, Claim(w), task.status = "pending"
    PROVE  HeardKept'
  <1>1. /\ task'.status = "delivering" /\ task'.attempts = task.attempts + 1
        /\ worker'[w].pc = "acquire" /\ worker'[w].attempt = task.attempts + 1
        /\ \A v \in Worker : v # w => worker'[v] = worker[v]
    BY ClaimShape
  <1>2. UNCHANGED <<now, heard>>
    BY DEF Claim
  <1>3. task.attempts \in Nat /\ heard.attempt \in Nat /\ heard.attempt <= task.attempts
    BY DEF OverlapInv, TimingTypeOK, TaskState, Heard, HeardKept
  <1>4. Passed' /\ heard'.attempt < task'.attempts
    BY <1>1, <1>2, <1>3 DEF HeardKept, Passed
  <1>5. OnlyHeardIsKept'
    BY <1>1, <1>2, <1>3 DEF HeardKept, OnlyHeardIsKept
  <1> QED
    BY <1>1, <1>2, <1>3, <1>4, <1>5 DEF HeardKept

(* An answer: a lease it does not have any more has run out. *)
LEMMA HeardFinish ==
    ASSUME OverlapInv, NEW w \in Worker, worker[w].pc = "call",
           NEW r \in Result, Finished(w, r), UNCHANGED <<now, policy, task, last>>
    PROVE  HeardKept'
  <1> DEFINE a == worker[w].attempt
  <1>0. worker \in [Worker -> WorkerState] /\ task \in TaskState
    BY DEF OverlapInv, TimingTypeOK
  <1>1. /\ worker'[w].pc = "apply" /\ worker'[w].attempt = a /\ worker'[w].result = r
        /\ \A v \in Worker : v # w => worker'[v] = worker[v]
    BY <1>0 DEF Finished, Idle
  <1>2. /\ heard'.attempt = a /\ heard'.quiet = r.quiet
        /\ heard'.until = worker[w].clock + LeaseTTL
    BY DEF Finished
  <1>3. a \in 1 .. task.attempts /\ task.attempts \in Nat
    BY <1>0 DEF OverlapInv, AttemptsCounted, Busy, TaskState
  <1>4. \/ /\ task.status = "delivering" /\ task.lease = a
           /\ task.leaseUntil = <<heard'.until>>
        \/ Passed'
    BY <1>2 DEF OverlapInv, LeaseOrLate, Passed
  <1>5. task.status = "delivering" => task.lease = task.attempts
    BY DEF OverlapInv, AttemptsCounted
  <1>6. \A v \in Worker : v # w /\ Busy(v) => worker[v].attempt # a
    BY DEF OverlapInv, AttemptsCounted, Busy
  <1>7. OnlyHeardIsKept'
    BY <1>1, <1>2, <1>6 DEF OnlyHeardIsKept, Busy
  <1> QED
    BY <1>2, <1>3, <1>4, <1>5, <1>7 DEF HeardKept

LEMMA HeardApply ==
    ASSUME OverlapInv, ResultInv, HeardKept, NEW w \in Worker, Apply(w),
           task.status = "delivering", task.lease = worker[w].attempt
    PROVE  HeardKept'
  <1> DEFINE r == worker[w].result
  <1>1. /\ task'.status = StatusAfter(r.outcome) /\ task'.attempts = task.attempts
        /\ task'.nextAt = r.next
    BY ApplyShape
  <1>2. /\ worker'[w].pc = "idle" /\ \A v \in Worker : v # w => worker'[v] = worker[v]
        /\ UNCHANGED <<now, heard>>
    BY DEF OverlapInv, TimingTypeOK, Apply, Idle
  <1>3. GoodResult(task.attempts, r) /\ worker[w].attempt = task.attempts /\ worker[w].pc = "apply"
    BY DEF ResultInv, ResultsGood, OverlapInv, AttemptsCounted, Apply
  <1>4. Passed' <=> Passed
    BY <1>2 DEF Passed
  <1>5. task'.status \notin {"pending", "delivering"}
    BY <1>1 DEF StatusAfter
  <1>6. task'.status = "retry_wait" => r.outcome = "retryable"
    BY <1>1 DEF StatusAfter
  <1>7. task.attempts = heard.attempt => r.quiet = heard.quiet
    BY <1>3 DEF HeardKept, OnlyHeardIsKept
  <1>8. task'.status = "retry_wait" /\ task.attempts = heard.attempt =>
           task'.nextAt[1] >= heard.quiet
    BY <1>1, <1>3, <1>6, <1>7 DEF GoodResult
  <1>9. OnlyHeardIsKept'
    BY <1>2 DEF HeardKept, OnlyHeardIsKept
  <1> QED
    BY <1>1, <1>2, <1>4, <1>5, <1>8, <1>9 DEF HeardKept

LEMMA HeardSchedule ==
    ASSUME OverlapInv, ResultInv, HeardKept, ScheduleDue
    PROVE  HeardKept'
  <1>1. task'.status \in {"dead", "pending"} /\ task'.attempts = task.attempts
    BY ScheduleShape
  <1>2. UNCHANGED <<now, worker, heard>>
    BY DEF ScheduleDue
  <1>3. /\ now \in Nat /\ task.attempts \in Nat /\ task.nextAt \in Seq(Int)
        /\ heard.attempt \in Nat /\ heard.quiet \in Int /\ heard.until \in Int
    BY DEF OverlapInv, TimingTypeOK, TaskState, Heard
  <1>4. Passed
    <2>1. CASE task.attempts # heard.attempt
      BY <1>3, <2>1 DEF HeardKept
    <2>2. CASE task.attempts = heard.attempt /\ task.status = "delivering"
      <3>1. task.leaseUntil[1] < now
        BY <2>2 DEF ScheduleDue, Due
      <3> QED
        BY <1>3, <2>2, <3>1 DEF HeardKept, Passed
    <2>3. CASE task.attempts = heard.attempt /\ task.status = "retry_wait"
      <3>1. task.nextAt[1] <= now /\ task.nextAt # <<>>
        BY <2>3 DEF ScheduleDue, Due, ResultInv, QuietKept
      <3>2. task.nextAt[1] \in Int
        BY <1>3, <3>1, NonEmptySequence
      <3> QED
        BY <1>3, <2>3, <3>1, <3>2 DEF HeardKept, Passed
    <2> QED
      BY <2>1, <2>2, <2>3 DEF ScheduleDue, Due
  <1>5. Passed' /\ OnlyHeardIsKept'
    BY <1>2, <1>4 DEF HeardKept, OnlyHeardIsKept, Passed
  <1> QED
    BY <1>1, <1>2, <1>5 DEF HeardKept

LEMMA HeardTick ==
    ASSUME OverlapInv, HeardKept, Tick
    PROVE  HeardKept'
  <1>1. /\ now \in Nat /\ now' = now + 1 /\ heard.quiet \in Int /\ heard.until \in Int
        /\ UNCHANGED <<task, worker, heard>>
    BY DEF OverlapInv, TimingTypeOK, Heard, Tick
  <1>2. Passed => Passed'
    BY <1>1 DEF Passed
  <1>3. OnlyHeardIsKept'
    BY <1>1 DEF HeardKept, OnlyHeardIsKept
  <1> QED
    BY <1>1, <1>2, <1>3 DEF HeardKept

LEMMA HeardStep ==
    ASSUME OverlapInv, ResultInv, HeardKept, [TimingNext]_timingVars
    PROVE  HeardKept'
  <1>1. ASSUME NEW w \in Worker, ReadClock(w) \/ StartCall(w) PROVE HeardKept'
    <2>1. worker[w] \in WorkerState /\ worker \in [Worker -> WorkerState]
      BY DEF OverlapInv, TimingTypeOK
    <2>2. /\ UNCHANGED <<now, policy, task, last, heard>>
          /\ worker' = [worker EXCEPT ![w] = worker'[w]]
          /\ \/ worker'[w].pc = "claim"
             \/ /\ worker'[w].pc = "call" /\ worker[w].pc = "acquire"
                /\ worker'[w].attempt = worker[w].attempt
      BY <1>1, <2>1 DEF ReadClock, StartCall, WorkerState
    <2> QED
      BY <2>2, HeardLocalStep
  <1>2. ASSUME NEW w \in Worker, Claim(w) PROVE HeardKept'
    <2>1. CASE task.status = "pending"
      BY <1>2, <2>1, HeardClaim
    <2>2. CASE task.status # "pending"
      BY <1>2, <2>2, HeardLocalStep DEF Claim, Idle
    <2> QED
      BY <2>1, <2>2
  <1>3. ASSUME NEW w \in Worker, Answer(w) \/ TransportError(w) PROVE HeardKept'
    <2>1. worker[w].pc = "call" /\ Finish(w) /\ UNCHANGED <<now, policy, task, last>>
      BY <1>3, CallsFinish
    <2>2. PICK outcome \in {"delivered", "retryable", "permanent"},
               header \in RetryAfterHeaders : Complete(w, outcome, header)
      BY <2>1 DEF Finish
    <2>3. PICK r \in Result : Finished(w, r)
      BY <2>1, <2>2, CompleteShape
    <2> QED
      BY <2>1, <2>3, HeardFinish
  <1>4. ASSUME NEW w \in Worker, Apply(w) PROVE HeardKept'
    <2>1. CASE task.status = "delivering" /\ task.lease = worker[w].attempt
      BY <1>4, <2>1, HeardApply
    <2>2. CASE ~(task.status = "delivering" /\ task.lease = worker[w].attempt)
      BY <1>4, <2>2, HeardLocalStep DEF Apply, Idle
    <2> QED
      BY <2>1, <2>2
  <1>5. ASSUME NEW w \in Worker, Crash(w) PROVE HeardKept'
    BY <1>5, HeardLocalStep DEF Crash, Idle
  <1>6. CASE UNCHANGED timingVars
    <2>1. UNCHANGED <<now, policy, task, worker, last, heard>>
      BY <1>6 DEF timingVars
    <2> QED
      BY <2>1 DEF HeardKept, OnlyHeardIsKept, Passed
  <1> QED
    BY <1>1, <1>2, <1>3, <1>4, <1>5, <1>6, HeardSchedule, HeardTick DEF TimingNext

LEMMA HeardInitially ==
    ASSUME TimingInit
    PROVE  HeardKept
  <1>1. /\ \A w \in Worker : worker[w].pc = "idle"
        /\ heard.attempt = 0 /\ heard.quiet = 0 /\ now = 0 /\ task.attempts = 0
        /\ task.status = "pending"
    BY DEF TimingInit, Idle, NoAnswer
  <1> QED
    BY <1>1 DEF HeardKept, OnlyHeardIsKept, Passed

(* parseRetryAfter, NextAttempt, the due time and the lease of the row:    *)
(* the worker that holds the task calls the supplier again only after the  *)
(* wait of the stored result; and no wait that anyone heard of is cut      *)
(* short before the lease of that attempt has ended.                       *)
THEOREM SupplierIsLeftAlone == TimingSpec => SupplierLeftAlone
  <1> DEFINE Waited ==
        \A w \in Worker :
           worker[w].pc = "acquire" /\ worker'[w].pc = "call" =>
              /\ worker[w].attempt = task.attempts => now >= last.quiet
              /\ worker[w].attempt > heard.attempt =>
                    now >= heard.quiet \/ now > heard.until
  <1>1. TimingSpec => []HeardKept
    BY HeardInitially, HeardStep, ResultInvariant, PTL DEF TimingSpec
  <1>2. OverlapInv /\ ResultInv /\ HeardKept /\ [TimingNext]_timingVars => [Waited]_timingVars
    <2> SUFFICES ASSUME OverlapInv, ResultInv, HeardKept, NEW w \in Worker,
                        worker[w].pc = "acquire"
                 PROVE  /\ worker[w].attempt = task.attempts => now >= last.quiet
                        /\ worker[w].attempt > heard.attempt => Passed
      BY DEF Passed
    <2>1. worker[w].attempt \in 1 .. task.attempts /\ task.attempts \in Nat /\ heard.attempt \in Nat
      BY DEF OverlapInv, AttemptsCounted, Busy, TimingTypeOK, TaskState, Heard
    <2> QED
      BY <2>1 DEF ResultInv, QuietKept, HeardKept
  <1> QED
    BY <1>1, <1>2, ResultInvariant, PTL DEF TimingSpec, SupplierLeftAlone
=============================================================================
