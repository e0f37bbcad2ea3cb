---------------------------- MODULE RpcScheduler ----------------------------
(***************************************************************************)
(* RpcScheduler and the single-flight reads of ProtocolClient: contract    *)
(* reads wait in one queue for a timer that spaces them, run at most       *)
(* Concurrency at a time, are retried after transient failures, and are    *)
(* all rejected while the provider's hard quota is exhausted.              *)
(*                                                                         *)
(* Time is counted down: `timer`, `backoff` and `cooldown` are what is     *)
(* left of each, `age` the time since the last start, capped at            *)
(* MinInterval because nothing tells larger ages apart.                    *)
(***************************************************************************)
EXTENDS Integers, Sequences, FiniteSets, SequencesExt

CONSTANTS
    Reads,       \* read keys (client, contract, function, arguments)
    Concurrency, \* INDEXER_CONCURRENCY, 1 or 2
    MinInterval, \* RPC_MIN_INTERVAL_MS
    MaxRetries,  \* INDEXER_MAX_RETRIES
    MaxBackoff,  \* the longest backoff or Retry-After that is modelled
    Cooldown     \* RPC_HARD_QUOTA_COOLDOWN_MS

ASSUME SchedulerConstants ==
    /\ IsFiniteSet(Reads)
    /\ Concurrency \in Nat \ {0}
    /\ MinInterval \in Nat
    /\ MaxRetries \in Nat
    /\ MaxBackoff \in Nat \ {0}
    /\ Cooldown \in Nat \ {0}

VARIABLES
    status,    \* of the promise each read is waiting for
    attempts,  \* calls the read's current job has made
    backoff,   \* time until a waiting job calls again
    queue,     \* jobs not started
    active,    \* the scheduler's own count of started jobs
    unwinding, \* settled jobs whose finally-handler has not run
    timer,     \* time until the pump's timer fires, or NoTimer
    age,       \* time since a job was last started
    cooldown   \* time until the hard-quota cooldown ends

vars == <<status, attempts, backoff, queue, active, unwinding, timer, age,
          cooldown>>

NoTimer == -1

\* "idle" keys are not in inflightReads; "settled" ones still are.
Statuses == {"idle", "queued", "calling", "waiting", "settled"}
Running == {j \in Reads : status[j] \in {"calling", "waiting"}}
CoolingDown == cooldown > 0

\* The cooldown may have been restored from the checkpoint before any read.
Init ==
    /\ status = [j \in Reads |-> "idle"]
    /\ attempts = [j \in Reads |-> 0]
    /\ backoff = [j \in Reads |-> 0]
    /\ queue = <<>>
    /\ active = 0 /\ unwinding = 0
    /\ timer = NoTimer
    /\ age = MinInterval
    /\ cooldown \in 0..Cooldown

\* Mutant: waits only if the last start was just now.
WaitUnlessAged == IF age = 0 THEN MinInterval ELSE 0

Wait == MinInterval - age

\* Mutant: the pump ignores the concurrency limit.
PumpedUnlimited(q, n, pending) ==
    IF pending # NoTimer \/ q = <<>> THEN pending ELSE Wait

\* pump(), given the queue and count it finds and whether its timer is set.
Pumped(q, n, pending) ==
    IF pending # NoTimer \/ n >= Concurrency \/ q = <<>> THEN pending ELSE Wait

\* Mutant: only schedule() pumps.
NotPumped == timer

PumpedOnFinish == Pumped(queue, active - 1, timer)

\* rawRead of a key with no read in flight: enqueue, or reject while cooling.
Read(j) ==
    /\ status[j] = "idle"
    /\ IF CoolingDown
       THEN /\ status' = [status EXCEPT ![j] = "settled"]
            /\ UNCHANGED <<queue, timer>>
       ELSE /\ status' = [status EXCEPT ![j] = "queued"]
            /\ queue' = Append(queue, j)
            /\ timer' = Pumped(queue', active, timer)
    /\ UNCHANGED <<attempts, backoff, active, unwinding, age, cooldown>>

\* The pump's timer callback: start the first job.
TimerFires ==
    /\ timer = 0
    /\ IF queue = <<>>
       THEN /\ timer' = NoTimer
            /\ UNCHANGED <<status, attempts, queue, active, age>>
       ELSE LET j == Head(queue) IN
            /\ queue' = Tail(queue)
            /\ IF CoolingDown
               THEN /\ status' = [status EXCEPT ![j] = "settled"]
                    /\ timer' = Pumped(queue', active, NoTimer)
                    /\ UNCHANGED <<attempts, active, age>>
               ELSE /\ status' = [status EXCEPT ![j] = "calling"]
                    /\ attempts' = [attempts EXCEPT ![j] = 1]
                    /\ active' = active + 1
                    /\ timer' = NoTimer
                    /\ age' = 0
    /\ UNCHANGED <<backoff, unwinding, cooldown>>

\* A running job settles; its finally-handler is still to run.
Ended(j) ==
    /\ attempts' = [attempts EXCEPT ![j] = 0]
    /\ unwinding' = unwinding + 1
    /\ UNCHANGED <<backoff, active, timer, age>>

\* The call returns a value, or an error that is not retried.
Settle(j) ==
    /\ status[j] = "calling"
    /\ status' = [status EXCEPT ![j] = "settled"]
    /\ Ended(j)
    /\ UNCHANGED <<queue, cooldown>>

QuotaRejected(j) ==
    [i \in Reads |-> IF i = j \/ Contains(queue, i) THEN "settled" ELSE status[i]]

\* Mutant: the queue is walked, not spliced.
QueueKept == queue

QueueAfterQuota == <<>>

\* The provider answers that the hard quota is used up.
HardQuota(j) ==
    /\ status[j] = "calling"
    /\ status' = QuotaRejected(j)
    /\ Ended(j)
    /\ queue' = QueueAfterQuota
    /\ cooldown' = Cooldown

MayRetry(j) == attempts[j] <= MaxRetries

\* A retryable error before the last attempt: sleep, still counted as active.
Backoff(j, delay) ==
    /\ status[j] = "calling"
    /\ MayRetry(j)
    /\ status' = [status EXCEPT ![j] = "waiting"]
    /\ backoff' = [backoff EXCEPT ![j] = delay]
    /\ UNCHANGED <<attempts, queue, active, unwinding, timer, age, cooldown>>

\* The next attempt. It asks neither for the cooldown nor for the interval.
Retry(j) ==
    /\ status[j] = "waiting"
    /\ backoff[j] = 0
    /\ status' = [status EXCEPT ![j] = "calling"]
    /\ attempts' = [attempts EXCEPT ![j] = @ + 1]
    /\ UNCHANGED <<backoff, queue, active, unwinding, timer, age, cooldown>>

\* The finally-handler of a settled job.
Finish ==
    /\ unwinding > 0
    /\ unwinding' = unwinding - 1
    /\ active' = active - 1
    /\ timer' = PumpedOnFinish
    /\ UNCHANGED <<status, attempts, backoff, queue, age, cooldown>>

\* The client forgets a settled read, so that the key can be read again.
Cleanup(j) ==
    /\ status[j] = "settled"
    /\ status' = [status EXCEPT ![j] = "idle"]
    /\ UNCHANGED <<attempts, backoff, queue, active, unwinding, timer, age,
                   cooldown>>

CountDown(n) == IF n > 0 THEN n - 1 ELSE n

Tick ==
    /\ age' = IF age < MinInterval THEN age + 1 ELSE age
    /\ timer' = CountDown(timer)
    /\ backoff' = [j \in Reads |-> CountDown(backoff[j])]
    /\ cooldown' = CountDown(cooldown)
    /\ UNCHANGED <<status, attempts, queue, active, unwinding>>

Answer(j) ==
    \/ Settle(j)
    \/ HardQuota(j)
    \/ \E delay \in 1..MaxBackoff : Backoff(j, delay)

Next ==
    \/ \E j \in Reads : Read(j) \/ Answer(j) \/ Retry(j) \/ Cleanup(j)
    \/ TimerFires
    \/ Finish
    \/ Tick

Spec == Init /\ [][Next]_vars

\* Timers and promise callbacks run, and the transport ends every call.
Fairness ==
    /\ WF_vars(Tick) /\ WF_vars(TimerFires) /\ WF_vars(Finish)
    /\ \A j \in Reads : WF_vars(Answer(j)) /\ WF_vars(Retry(j)) /\ WF_vars(Cleanup(j))

FairSpec == Spec /\ Fairness

-----------------------------------------------------------------------------
TypeOK ==
    /\ status \in [Reads -> Statuses]
    /\ attempts \in [Reads -> 0..MaxRetries + 1]
    /\ backoff \in [Reads -> 0..MaxBackoff]
    /\ queue \in Seq(Reads)
    /\ active \in Nat /\ unwinding \in Nat
    /\ timer \in {NoTimer} \cup 0..MinInterval
    /\ age \in 0..MinInterval
    /\ cooldown \in 0..Cooldown

\* `active` is what it should count, started jobs whose finally-handler has
\* not run, and never exceeds the concurrency, although the pump checks the
\* limit when it sets its timer and starts the job when the timer fires.
ActiveIsBounded ==
    /\ active = Cardinality(Running) + unwinding
    /\ active <= Concurrency

\* A queued read is in the queue once, and no other read is: a job is neither
\* lost nor started or rejected twice, whatever drains, shifts and appends do.
QueuedOnce ==
    /\ IsInjective(queue)
    /\ \A j \in Reads : status[j] = "queued" <=> Contains(queue, j)

\* A queued job always has something that will pump it: a pending timer, or an
\* active job whose finally-handler will.
NeverStranded == queue # <<>> => timer # NoTimer \/ active > 0

\* Nothing waits in the queue during a cooldown: it is drained when the
\* cooldown begins and closed until it ends.
DrainedWhileCooling == CoolingDown => queue = <<>>

\* Starts of jobs are at least MinInterval apart.
StartsAreSpaced ==
    [][active' > active => age = MinInterval]_vars

\* "Calls during that cooldown are rejected locally and do not reach the RPC."
\* (docs/INDEXER.md:26). A call is the step into "calling".
Calls(j) == status[j] # "calling" /\ status'[j] = "calling"
SilentWhileCooling ==
    [][\A j \in Reads : Calls(j) => ~CoolingDown]_vars

\* Every read is settled: by a value, an error or the cooldown.
EveryReadSettles ==
    \A j \in Reads : status[j] = "queued" ~> status[j] = "settled"
=============================================================================
