-------------------------- MODULE SchedulerProofs ---------------------------
(***************************************************************************)
(* Safety of RpcScheduler for any set of reads, any concurrency, interval, *)
(* retry limit and cooldown.                                               *)
(***************************************************************************)
EXTENDS RpcScheduler, FiniteSetTheorems, TLAPS

\* Why a job may be started when the timer fires without asking again: the
\* count cannot grow, nor a job start, while the timer is set.
TimerHolds ==
    timer # NoTimer => active < Concurrency /\ age + timer >= MinInterval

\* A waiting job has an attempt left.
AttemptLeft == \A j \in Reads : status[j] = "waiting" => attempts[j] <= MaxRetries

SchedulerInv ==
    /\ TypeOK
    /\ ActiveIsBounded
    /\ QueuedOnce
    /\ NeverStranded
    /\ DrainedWhileCooling
    /\ TimerHolds
    /\ AttemptLeft

-----------------------------------------------------------------------------
\* The pump either leaves a pending timer alone or sets one that the spacing
\* and the concurrency limit allow.
LEMMA PumpSets ==
    ASSUME TypeOK, NEW q \in Seq(Reads), NEW n \in Nat,
           NEW pending \in {NoTimer} \cup 0..MinInterval,
           pending # NoTimer => n < Concurrency /\ age + pending >= MinInterval
    PROVE  LET t == Pumped(q, n, pending) IN
           /\ t \in {NoTimer} \cup 0..MinInterval
           /\ t # NoTimer => n < Concurrency /\ age + t >= MinInterval
           /\ q # <<>> /\ n < Concurrency => t # NoTimer
BY SchedulerConstants DEF TypeOK, Pumped, Wait, NoTimer

LEMMA RunningFinite ==
    /\ IsFiniteSet(Running)
    /\ Cardinality(Running) \in Nat
<1>1. Running \subseteq Reads
  BY DEF Running
<1> QED
  BY <1>1, SchedulerConstants, FS_Subset, FS_CardinalityType

\* How the number of running jobs changes when one starts or settles.
LEMMA RunningGrows ==
    ASSUME NEW j \in Reads, j \notin Running, Running' = Running \cup {j}
    PROVE  Cardinality(Running') = Cardinality(Running) + 1
BY RunningFinite, FS_AddElement

LEMMA RunningShrinks ==
    ASSUME NEW j \in Running, Running' = Running \ {j}
    PROVE  Cardinality(Running') = Cardinality(Running) - 1
BY RunningFinite, FS_RemoveElement

-----------------------------------------------------------------------------
LEMMA InitSchedulerInv == Init => SchedulerInv
<1> SUFFICES ASSUME Init PROVE SchedulerInv
  OBVIOUS
<1>1. TypeOK /\ NeverStranded /\ DrainedWhileCooling /\ TimerHolds /\ AttemptLeft
  BY SchedulerConstants DEF Init, TypeOK, Statuses, NeverStranded,
     DrainedWhileCooling, TimerHolds, AttemptLeft, NoTimer
<1>2. Running = {}
  BY DEF Init, Running
<1>3. ActiveIsBounded
  BY <1>2, FS_EmptySet, SchedulerConstants DEF Init, ActiveIsBounded
<1>4. QueuedOnce
  BY DEF Init, QueuedOnce, IsInjective, Contains
<1> QED
  BY <1>1, <1>3, <1>4 DEF SchedulerInv

\* Appending a job that is not queued.
LEMMA ReadStep ==
    ASSUME SchedulerInv, NEW j \in Reads, Read(j)
    PROVE  SchedulerInv'
<1> USE SchedulerConstants DEF SchedulerInv
<1>0. Running' = Running
  BY DEF Read, Running, TypeOK, Statuses
<1>1. ActiveIsBounded' /\ AttemptLeft'
  BY <1>0 DEF Read, ActiveIsBounded, AttemptLeft, TypeOK, Statuses
<1>2. CASE CoolingDown
  <2>1. TypeOK' /\ NeverStranded' /\ DrainedWhileCooling' /\ TimerHolds'
    BY <1>2 DEF Read, TypeOK, Statuses, NeverStranded, DrainedWhileCooling,
       TimerHolds, CoolingDown
  <2>2. QueuedOnce'
    <3>1. /\ queue' = queue
          /\ \A i \in Reads : status'[i] = "queued" <=> status[i] = "queued"
      BY <1>2 DEF Read, TypeOK
    <3> QED
      BY <3>1 DEF QueuedOnce, IsInjective, Contains
  <2> QED
    BY <2>1, <2>2, <1>1
<1>3. CASE ~CoolingDown
  <2>1. queue' = Append(queue, j) /\ queue' \in Seq(Reads) /\ queue' # <<>>
    <3>1. queue' = Append(queue, j) /\ queue \in Seq(Reads)
      BY <1>3 DEF Read, TypeOK
    <3>2. queue' \in Seq(Reads) /\ Len(queue') > 0
      BY <3>1
    <3> QED
      BY <3>1, <3>2
  <2>2. timer' = Pumped(queue', active, timer)
    BY <1>3 DEF Read
  <2>3. /\ timer' \in {NoTimer} \cup 0..MinInterval
        /\ timer' # NoTimer => active < Concurrency /\ age + timer' >= MinInterval
        /\ active < Concurrency => timer' # NoTimer
    BY <2>1, <2>2, PumpSets DEF TypeOK, TimerHolds
  <2>4. TypeOK' /\ TimerHolds'
    BY <2>1, <2>3, <1>3 DEF Read, TypeOK, Statuses, TimerHolds
  <2>5. NeverStranded' /\ DrainedWhileCooling'
    BY <2>3, <1>3 DEF Read, NeverStranded, DrainedWhileCooling, CoolingDown, TypeOK
  <2>6. /\ \A i \in 1..Len(queue) : queue'[i] = queue[i]
        /\ queue'[Len(queue) + 1] = j
        /\ DOMAIN queue' = 1..(Len(queue) + 1) /\ DOMAIN queue = 1..Len(queue)
        /\ Len(queue') = Len(queue) + 1 /\ Len(queue) \in Nat
    BY <2>1 DEF TypeOK
  <2>7. ~Contains(queue, j)
    BY DEF Read, QueuedOnce
  <2>8. IsInjective(queue')
    BY <2>6, <2>7 DEF QueuedOnce, IsInjective, Contains
  <2>9. \A i \in Reads : Contains(queue', i) <=> Contains(queue, i) \/ i = j
    BY <2>6 DEF Contains
  <2>10. QueuedOnce'
    BY <2>8, <2>9, <1>3 DEF Read, QueuedOnce, TypeOK
  <2> QED
    BY <2>4, <2>5, <2>10, <1>1
<1> QED
  BY <1>2, <1>3

\* What stays true of the queue when no job is queued or leaves it.
LEMMA SameQueue ==
    ASSUME QueuedOnce, queue' = queue,
           \A i \in Reads : status'[i] = "queued" <=> status[i] = "queued"
    PROVE  QueuedOnce'
BY DEF QueuedOnce, IsInjective, Contains

LEMMA EmptyQueue ==
    ASSUME queue' = <<>>, \A i \in Reads : status'[i] # "queued"
    PROVE  QueuedOnce'
BY DEF QueuedOnce, IsInjective, Contains

\* Shifting the head, which leaves the "queued" state.
LEMMA ShiftedQueue ==
    ASSUME TypeOK, QueuedOnce, queue # <<>>, queue' = Tail(queue),
           \A i \in Reads : status'[i] = "queued" <=> status[i] = "queued" /\ i # Head(queue)
    PROVE  QueuedOnce'
<1>1. /\ Len(queue) \in Nat /\ Len(queue) > 0 /\ DOMAIN queue = 1..Len(queue)
      /\ Head(queue) = queue[1]
      /\ Len(queue') = Len(queue) - 1 /\ DOMAIN queue' = 1..Len(queue')
      /\ \A i \in 1..Len(queue') : queue'[i] = queue[i + 1]
  BY DEF TypeOK
<1>2. IsInjective(queue')
  BY <1>1 DEF QueuedOnce, IsInjective
<1>3. ASSUME NEW j \in Reads
      PROVE  Contains(queue', j) <=> Contains(queue, j) /\ j # Head(queue)
  <2>1. ASSUME Contains(queue', j) PROVE Contains(queue, j) /\ j # Head(queue)
    <3>1. PICK i \in 1..Len(queue') : queue'[i] = j
      BY <2>1 DEF Contains
    <3>2. i + 1 \in 1..Len(queue) /\ queue[i + 1] = j /\ i + 1 # 1
      BY <1>1, <3>1
    <3> QED
      BY <1>1, <3>2 DEF Contains, QueuedOnce, IsInjective
  <2>2. ASSUME Contains(queue, j), j # Head(queue) PROVE Contains(queue', j)
    <3>1. PICK i \in 1..Len(queue) : queue[i] = j
      BY <2>2 DEF Contains
    <3>2. i - 1 \in 1..Len(queue') /\ queue'[i - 1] = j
      BY <1>1, <2>2, <3>1
    <3> QED
      BY <3>2 DEF Contains
  <2> QED
    BY <2>1, <2>2
<1> QED
  BY <1>2, <1>3 DEF QueuedOnce

\* The head of the queue is a queued job: not running, not settled.
LEMMA HeadQueued ==
    ASSUME TypeOK, QueuedOnce, queue # <<>>
    PROVE  /\ Head(queue) \in Reads /\ status[Head(queue)] = "queued"
           /\ Tail(queue) \in Seq(Reads)
<1>1. Head(queue) \in Reads /\ Tail(queue) \in Seq(Reads)
      /\ Head(queue) = queue[1] /\ 1 \in 1..Len(queue)
  BY DEF TypeOK
<1> QED
  BY <1>1 DEF QueuedOnce, Contains

LEMMA TimerStep ==
    ASSUME SchedulerInv, TimerFires
    PROVE  SchedulerInv'
<1> USE SchedulerConstants DEF SchedulerInv
<1>1. CASE queue = <<>>
  <2>1. Running' = Running
    BY <1>1 DEF TimerFires, Running
  <2>2. QueuedOnce'
    BY <1>1, SameQueue DEF TimerFires
  <2>3. TypeOK' /\ NeverStranded' /\ DrainedWhileCooling' /\ TimerHolds'
    BY <1>1 DEF TimerFires, TypeOK, NeverStranded, DrainedWhileCooling, TimerHolds,
       CoolingDown, NoTimer
  <2>4. ActiveIsBounded' /\ AttemptLeft'
    BY <1>1, <2>1 DEF TimerFires, ActiveIsBounded, AttemptLeft
  <2> QED
    BY <2>2, <2>3, <2>4
<1>2. CASE queue # <<>>
  <2> DEFINE j == Head(queue)
  <2>1. j \in Reads /\ status[j] = "queued" /\ queue' = Tail(queue)
        /\ queue' \in Seq(Reads)
    BY <1>2, HeadQueued DEF TimerFires
  <2>2. ~CoolingDown
    BY <1>2 DEF DrainedWhileCooling
  <2>3. /\ status' = [status EXCEPT ![j] = "calling"]
        /\ attempts' = [attempts EXCEPT ![j] = 1]
        /\ active' = active + 1 /\ timer' = NoTimer /\ age' = 0
        /\ UNCHANGED <<backoff, unwinding, cooldown>>
    BY <1>2, <2>2 DEF TimerFires
  <2>4. j \notin Running /\ Running' = Running \cup {j}
    BY <2>1, <2>3 DEF Running, TypeOK
  <2>5. Cardinality(Running') = Cardinality(Running) + 1
    BY <2>1, <2>4, RunningGrows
  <2>6. active < Concurrency
    BY DEF TimerFires, TimerHolds, NoTimer
  <2>7. ActiveIsBounded'
    BY <2>3, <2>5, <2>6, RunningFinite DEF ActiveIsBounded, TypeOK
  <2>8. QueuedOnce'
    BY <1>2, <2>1, <2>3, ShiftedQueue DEF TypeOK
  <2>9. TypeOK' /\ TimerHolds' /\ DrainedWhileCooling'
    BY <2>1, <2>2, <2>3 DEF TypeOK, Statuses, TimerHolds, DrainedWhileCooling,
       CoolingDown, NoTimer
  <2>10. NeverStranded' /\ AttemptLeft'
    BY <2>1, <2>3 DEF NeverStranded, AttemptLeft, TypeOK
  <2> QED
    BY <2>7, <2>8, <2>9, <2>10
<1> QED
  BY <1>1, <1>2

\* A running job settles: one job fewer runs, one more unwinds.
LEMMA SettleStep ==
    ASSUME SchedulerInv, NEW j \in Reads, Settle(j)
    PROVE  SchedulerInv'
<1> USE SchedulerConstants DEF SchedulerInv
<1>1. j \in Running /\ Running' = Running \ {j}
  BY DEF Settle, Running, TypeOK
<1>2. Cardinality(Running') = Cardinality(Running) - 1
  BY <1>1, RunningShrinks
<1>3. ActiveIsBounded'
  BY <1>2, RunningFinite DEF Settle, Ended, ActiveIsBounded, TypeOK
<1>4. QueuedOnce'
  BY SameQueue DEF Settle, TypeOK
<1>5. TypeOK' /\ AttemptLeft'
  BY DEF Settle, Ended, TypeOK, Statuses, AttemptLeft
<1>6. NeverStranded' /\ DrainedWhileCooling' /\ TimerHolds'
  BY DEF Settle, Ended, NeverStranded, DrainedWhileCooling, TimerHolds, CoolingDown
<1> QED
  BY <1>3, <1>4, <1>5, <1>6

LEMMA HardQuotaStep ==
    ASSUME SchedulerInv, NEW j \in Reads, HardQuota(j)
    PROVE  SchedulerInv'
<1> USE SchedulerConstants DEF SchedulerInv
<1>0. /\ status[j] = "calling" /\ status' = QuotaRejected(j)
      /\ queue' = <<>> /\ cooldown' = Cooldown /\ unwinding' = unwinding + 1
      /\ attempts' = [attempts EXCEPT ![j] = 0]
      /\ UNCHANGED <<backoff, active, timer, age>>
  BY DEF HardQuota, Ended, QueueAfterQuota
<1>1. \A i \in Reads : status'[i] = IF i = j \/ status[i] = "queued" THEN "settled"
                                                                  ELSE status[i]
  BY <1>0 DEF QuotaRejected, QueuedOnce
<1>2. j \in Running /\ Running' = Running \ {j}
  BY <1>0, <1>1 DEF Running
<1>3. Cardinality(Running') = Cardinality(Running) - 1
  BY <1>2, RunningShrinks
<1>4. ActiveIsBounded'
  BY <1>0, <1>3, RunningFinite DEF ActiveIsBounded, TypeOK
<1>5. QueuedOnce'
  BY <1>0, <1>1, EmptyQueue
<1>6. status' \in [Reads -> Statuses]
  <2>1. \A i \in Reads : status'[i] \in Statuses
    BY <1>1 DEF TypeOK, Statuses
  <2>2. DOMAIN status' = Reads /\ status' = [i \in Reads |-> status'[i]]
    BY <1>0 DEF QuotaRejected
  <2> QED
    BY <2>1, <2>2
<1>7. TypeOK'
  <2>1. attempts' \in [Reads -> 0..MaxRetries + 1] /\ queue' \in Seq(Reads)
        /\ unwinding' \in Nat /\ cooldown' \in 0..Cooldown
    BY <1>0 DEF TypeOK
  <2> QED
    BY <2>1, <1>0, <1>6 DEF TypeOK
<1>9. AttemptLeft'
  BY <1>0, <1>1 DEF TypeOK, AttemptLeft
<1>8. NeverStranded' /\ DrainedWhileCooling' /\ TimerHolds'
  BY <1>0 DEF NeverStranded, DrainedWhileCooling, TimerHolds
<1> QED
  BY <1>4, <1>5, <1>7, <1>8, <1>9

LEMMA BackoffStep ==
    ASSUME SchedulerInv, NEW j \in Reads, NEW delay \in 1..MaxBackoff, Backoff(j, delay)
    PROVE  SchedulerInv'
<1> USE SchedulerConstants DEF SchedulerInv
<1>1. Running' = Running
  BY DEF Backoff, Running, TypeOK
<1>2. QueuedOnce'
  BY SameQueue DEF Backoff, TypeOK
<1>3. TypeOK' /\ AttemptLeft'
  BY DEF Backoff, MayRetry, TypeOK, Statuses, AttemptLeft
<1>4. ActiveIsBounded' /\ NeverStranded' /\ DrainedWhileCooling' /\ TimerHolds'
  BY <1>1 DEF Backoff, ActiveIsBounded, NeverStranded, DrainedWhileCooling,
     TimerHolds, CoolingDown
<1> QED
  BY <1>2, <1>3, <1>4

LEMMA RetryStep ==
    ASSUME SchedulerInv, NEW j \in Reads, Retry(j)
    PROVE  SchedulerInv'
<1> USE SchedulerConstants DEF SchedulerInv
<1>1. Running' = Running
  BY DEF Retry, Running, TypeOK
<1>2. QueuedOnce'
  BY SameQueue DEF Retry, TypeOK
<1>3. attempts[j] \in 0..MaxRetries /\ attempts'[j] = attempts[j] + 1
  BY DEF Retry, AttemptLeft, TypeOK
<1>4. TypeOK' /\ AttemptLeft'
  BY <1>3 DEF Retry, TypeOK, Statuses, AttemptLeft
<1>5. ActiveIsBounded' /\ NeverStranded' /\ DrainedWhileCooling' /\ TimerHolds'
  BY <1>1 DEF Retry, ActiveIsBounded, NeverStranded, DrainedWhileCooling,
     TimerHolds, CoolingDown
<1> QED
  BY <1>2, <1>4, <1>5

\* The finally-handler frees a slot and pumps for it.
LEMMA FinishStep ==
    ASSUME SchedulerInv, Finish
    PROVE  SchedulerInv'
<1> USE SchedulerConstants DEF SchedulerInv
<1>1. Running' = Running
  BY DEF Finish, Running
<1>2. active - 1 \in Nat /\ unwinding - 1 \in Nat /\ active - 1 < Concurrency
  BY RunningFinite DEF Finish, ActiveIsBounded, TypeOK
<1>3. timer' = Pumped(queue, active - 1, timer)
  BY DEF Finish, PumpedOnFinish
<1>4. /\ timer' \in {NoTimer} \cup 0..MinInterval
      /\ timer' # NoTimer => active - 1 < Concurrency /\ age + timer' >= MinInterval
      /\ queue # <<>> => timer' # NoTimer
  BY <1>2, <1>3, PumpSets DEF TypeOK, TimerHolds
<1>5. QueuedOnce'
  BY SameQueue DEF Finish
<1>6. TypeOK' /\ TimerHolds' /\ NeverStranded'
  BY <1>2, <1>4 DEF Finish, TypeOK, TimerHolds, NeverStranded
<1>7. ActiveIsBounded'
  BY <1>1, <1>2, RunningFinite DEF Finish, ActiveIsBounded, TypeOK
<1>8. DrainedWhileCooling' /\ AttemptLeft'
  BY DEF Finish, DrainedWhileCooling, AttemptLeft, CoolingDown
<1> QED
  BY <1>5, <1>6, <1>7, <1>8

LEMMA CleanupStep ==
    ASSUME SchedulerInv, NEW j \in Reads, Cleanup(j)
    PROVE  SchedulerInv'
<1> USE SchedulerConstants DEF SchedulerInv
<1>1. Running' = Running
  BY DEF Cleanup, Running, TypeOK
<1>2. QueuedOnce'
  BY SameQueue DEF Cleanup, TypeOK
<1>3. TypeOK' /\ AttemptLeft'
  BY DEF Cleanup, TypeOK, Statuses, AttemptLeft
<1>4. ActiveIsBounded' /\ NeverStranded' /\ DrainedWhileCooling' /\ TimerHolds'
  BY <1>1 DEF Cleanup, ActiveIsBounded, NeverStranded, DrainedWhileCooling,
     TimerHolds, CoolingDown
<1> QED
  BY <1>2, <1>3, <1>4

\* The timer loses no more time than the age gains.
LEMMA TickStep ==
    ASSUME SchedulerInv, Tick
    PROVE  SchedulerInv'
<1> USE SchedulerConstants DEF SchedulerInv
<1>1. Running' = Running
  BY DEF Tick, Running
<1>2. QueuedOnce'
  BY SameQueue DEF Tick
<1>3. TypeOK'
  BY DEF Tick, CountDown, TypeOK, NoTimer
<1>4. TimerHolds' /\ NeverStranded'
  BY DEF Tick, CountDown, TimerHolds, NeverStranded, TypeOK, NoTimer
<1>5. ActiveIsBounded' /\ DrainedWhileCooling' /\ AttemptLeft'
  BY <1>1 DEF Tick, CountDown, ActiveIsBounded, DrainedWhileCooling, AttemptLeft,
     CoolingDown, TypeOK
<1> QED
  BY <1>2, <1>3, <1>4, <1>5

LEMMA NextSchedulerInv == SchedulerInv /\ [Next]_vars => SchedulerInv'
<1> SUFFICES ASSUME SchedulerInv, [Next]_vars PROVE SchedulerInv'
  OBVIOUS
<1>1. ASSUME NEW j \in Reads, Read(j) PROVE SchedulerInv'
  BY <1>1, ReadStep
<1>2. ASSUME NEW j \in Reads, Answer(j) PROVE SchedulerInv'
  BY <1>2, SettleStep, HardQuotaStep, BackoffStep DEF Answer
<1>3. ASSUME NEW j \in Reads, Retry(j) PROVE SchedulerInv'
  BY <1>3, RetryStep
<1>4. ASSUME NEW j \in Reads, Cleanup(j) PROVE SchedulerInv'
  BY <1>4, CleanupStep
<1>5. CASE TimerFires
  BY <1>5, TimerStep
<1>6. CASE Finish
  BY <1>6, FinishStep
<1>7. CASE Tick
  BY <1>7, TickStep
<1>8. CASE UNCHANGED vars
  BY <1>8 DEF vars, SchedulerInv, TypeOK, ActiveIsBounded, Running, QueuedOnce,
     NeverStranded, DrainedWhileCooling, CoolingDown, TimerHolds, AttemptLeft
<1> QED
  BY <1>1, <1>2, <1>3, <1>4, <1>5, <1>6, <1>7, <1>8 DEF Next

LEMMA SchedulerInvariant == Spec => []SchedulerInv
BY InitSchedulerInv, NextSchedulerInv, PTL DEF Spec

-----------------------------------------------------------------------------
\* The scheduler never has more than Concurrency jobs started and unfinished,
\* and its count is exactly theirs.
THEOREM ConcurrencyIsLimited == Spec => []ActiveIsBounded
BY SchedulerInvariant, PTL DEF SchedulerInv

\* Every queued read waits in the queue exactly once.
THEOREM NoJobLostOrDoubled == Spec => []QueuedOnce
BY SchedulerInvariant, PTL DEF SchedulerInv

\* A non-empty queue always has a pending timer or an active job to pump it.
THEOREM QueueIsPumped == Spec => []NeverStranded
BY SchedulerInvariant, PTL DEF SchedulerInv

\* No job waits during a cooldown.
THEOREM QueueDrained == Spec => []DrainedWhileCooling
BY SchedulerInvariant, PTL DEF SchedulerInv

\* Jobs start at least MinInterval apart.
THEOREM SpacedStarts == Spec => StartsAreSpaced
<1>1. SchedulerInv /\ [Next]_vars => [active' > active => age = MinInterval]_vars
  <2> SUFFICES ASSUME SchedulerInv, Next, active' > active PROVE age = MinInterval
    OBVIOUS
  <2>1. TimerFires
    BY DEF SchedulerInv, TypeOK, Next, Read, Answer, Settle, HardQuota, Ended,
       Backoff, Retry, Cleanup, Finish, Tick
  <2> QED
    BY <2>1, SchedulerConstants DEF SchedulerInv, TypeOK, TimerFires, TimerHolds, NoTimer
<1> QED
  BY <1>1, SchedulerInvariant, PTL DEF Spec, StartsAreSpaced

\* Scheduler states are well typed; in particular no job makes more than
\* MaxRetries + 1 calls.
THEOREM SchedulerTyped == Spec => []TypeOK
BY SchedulerInvariant, PTL DEF SchedulerInv

-----------------------------------------------------------------------------
\* With one job at a time, the job that met the quota was the only one running
\* and no other starts before the cooldown ends.
IdleWhileCooling == CoolingDown => Running = {}

LEMMA OneJobIdles ==
    ASSUME Concurrency = 1, SchedulerInv, IdleWhileCooling, [Next]_vars
    PROVE  IdleWhileCooling'
<1> USE DEF SchedulerInv, IdleWhileCooling
<1>1. ASSUME NEW j \in Reads, HardQuota(j) PROVE IdleWhileCooling'
  <2>1. j \in Running /\ Running' = Running \ {j}
    BY <1>1 DEF HardQuota, QuotaRejected, QueuedOnce, Running
  <2>2. Cardinality(Running) <= 1 /\ IsFiniteSet(Running')
    BY <2>1, RunningFinite, FS_RemoveElement DEF ActiveIsBounded, TypeOK
  <2>3. Cardinality(Running') = Cardinality(Running) - 1
    BY <2>1, RunningShrinks
  <2>4. Cardinality(Running) \in Nat /\ Cardinality(Running') \in Nat
    BY <2>2, RunningFinite, FS_CardinalityType
  <2>5. Cardinality(Running') = 0
    BY <2>2, <2>3, <2>4
  <2> QED
    BY <2>2, <2>5, FS_EmptySet
<1>2. ASSUME NEW j \in Reads, Read(j) \/ Settle(j) \/ Cleanup(j)
      PROVE  IdleWhileCooling'
  <2>1. Running' \subseteq Running /\ cooldown' = cooldown
    BY <1>2 DEF Read, Settle, Ended, Cleanup, Running, TypeOK
  <2> QED
    BY <2>1 DEF CoolingDown
<1>3. ASSUME NEW j \in Reads, Retry(j) \/ \E delay \in 1..MaxBackoff : Backoff(j, delay)
      PROVE  IdleWhileCooling'
  <2>1. Running # {} /\ cooldown' = cooldown
    BY <1>3 DEF Retry, Backoff, Running
  <2> QED
    BY <2>1 DEF CoolingDown
<1>4. CASE TimerFires
  <2>1. CASE queue = <<>>
    BY <1>4, <2>1 DEF TimerFires, Running, CoolingDown
  <2>2. CASE queue # <<>>
    BY <1>4, <2>2 DEF TimerFires, DrainedWhileCooling, CoolingDown
  <2> QED
    BY <2>1, <2>2
<1>5. CASE Finish \/ UNCHANGED vars
  BY <1>5 DEF Finish, vars, Running, CoolingDown
<1>6. CASE Tick
  BY <1>6 DEF Tick, CountDown, Running, CoolingDown, TypeOK
<1> QED
  BY <1>1, <1>2, <1>3, <1>4, <1>5, <1>6 DEF Next, Answer

\* At the default concurrency of one, no call reaches the RPC during a
\* cooldown. With two a job may retry while the other's cooldown runs.
THEOREM SilentAtConcurrencyOne == Concurrency = 1 /\ Spec => SilentWhileCooling
<1> SUFFICES ASSUME Concurrency = 1 PROVE Spec => SilentWhileCooling
  OBVIOUS
<1>1. Init => IdleWhileCooling
  BY DEF Init, IdleWhileCooling, Running
<1>2. SchedulerInv /\ IdleWhileCooling /\ [Next]_vars => IdleWhileCooling'
  BY OneJobIdles
<1>3. SchedulerInv /\ IdleWhileCooling /\ [Next]_vars
      => [\A j \in Reads : Calls(j) => ~CoolingDown]_vars
  <2> SUFFICES ASSUME SchedulerInv, IdleWhileCooling, Next, NEW j \in Reads,
                      Calls(j), CoolingDown
               PROVE  FALSE
    BY DEF vars
  <2> USE DEF SchedulerInv, Calls
  <2>1. status[j] \in {"queued", "waiting"}
    <3>1. CASE TimerFires
      BY <3>1 DEF TimerFires, DrainedWhileCooling, CoolingDown
    <3>2. ASSUME NEW i \in Reads, Retry(i) PROVE status[j] = "waiting"
      BY <3>2 DEF Retry, TypeOK
    <3>3. ASSUME NEW i \in Reads, Read(i) \/ Settle(i) \/ Cleanup(i) PROVE FALSE
      BY <3>3 DEF Read, Settle, Cleanup, TypeOK
    <3>4. ASSUME NEW i \in Reads, HardQuota(i) PROVE FALSE
      BY <3>4 DEF HardQuota, QuotaRejected
    <3>5. ASSUME NEW i \in Reads, NEW delay \in 1..MaxBackoff, Backoff(i, delay)
          PROVE  FALSE
      BY <3>5 DEF Backoff, TypeOK
    <3>6. CASE Finish \/ Tick
      BY <3>6 DEF Finish, Tick
    <3> QED
      BY <3>1, <3>2, <3>3, <3>4, <3>5, <3>6 DEF Next, Answer
  <2>2. status[j] # "waiting"
    BY DEF IdleWhileCooling, Running
  <2>3. status[j] # "queued"
    BY DEF SchedulerInv, QueuedOnce, DrainedWhileCooling, Contains
  <2> QED
    BY <2>1, <2>2, <2>3
<1> QED
  BY <1>1, <1>2, <1>3, SchedulerInvariant, PTL DEF Spec, SilentWhileCooling
=============================================================================
