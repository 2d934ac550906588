--------------------------- MODULE JobQueueProofs ---------------------------
(***************************************************************************)
(* Proofs about JobQueue for every number of jobs, workers and requests,   *)
(* every attempt limit, back-off and lease length, and without the bounds  *)
(* on stops and faults playing any part.                                   *)
(***************************************************************************)
EXTENDS JobQueue, TLAPS

\* Type correctness: no step of the queue, the pool, the handlers or the
\* process takes a variable out of its type.
THEOREM TypeCorrect == Spec => []TypeOK
<1>1. Init => TypeOK
  BY JobQueueAssumption DEF Init, TypeOK, Status, Idle, Active, Answers
<1>2. TypeOK /\ [Next]_vars => TypeOK'
  <2> SUFFICES ASSUME TypeOK, [Next]_vars PROVE TypeOK'
    OBVIOUS
  <2> USE JobQueueAssumption
      DEF TypeOK, Status, Settled, Idle, Active, Answers, table, pool, client, host
  <2>1. ASSUME NEW j \in Jobs, Enqueue(j) PROVE TypeOK'
    BY <2>1 DEF Enqueue, SetStatus
  <2>2. ASSUME NEW w \in Workers, Dequeue(w) PROVE TypeOK'
    BY <2>2 DEF Dequeue, Lease, Eligible, Stale
  <2>3. ASSUME NEW w \in Workers, PollEmpty(w) PROVE TypeOK'
    BY <2>3 DEF PollEmpty, vars
  <2>4. ASSUME NEW w \in Workers, DequeueLost(w) PROVE TypeOK'
    BY <2>4 DEF DequeueLost, Lease, Eligible, Stale
  <2>5. ASSUME NEW w \in Workers, WorkerStops(w) PROVE TypeOK'
    BY <2>5 DEF WorkerStops
  <2>6. ASSUME NEW w \in Workers, WatchStatus(w) PROVE TypeOK'
    BY <2>6 DEF WatchStatus
  <2>7. ASSUME NEW j \in Jobs, Heartbeat(j) PROVE TypeOK'
    BY <2>7 DEF Heartbeat
  <2>8. ASSUME NEW w \in Workers, HandlerReturns(w) PROVE TypeOK'
    BY <2>8 DEF HandlerReturns
  <2>9. ASSUME NEW w \in Workers, CheckStatus(w) PROVE TypeOK'
    BY <2>9 DEF CheckStatus, Release, Report
  <2>10. ASSUME NEW w \in Workers, CheckStatusFails(w) PROVE TypeOK'
    BY <2>10 DEF CheckStatusFails, Report
  <2>11. ASSUME NEW w \in Workers, Ack(w) PROVE TypeOK'
    BY <2>11 DEF Ack, SetStatus, Release
  <2>12. ASSUME NEW w \in Workers, NackRead(w) PROVE TypeOK'
    BY <2>12 DEF NackRead
  <2>13. ASSUME NEW w \in Workers, NackWrite(w) PROVE TypeOK'
    BY <2>13 DEF NackWrite, SetStatus, Release, Backoff
  <2>14. ASSUME NEW w \in Workers, ReportFails(w) PROVE TypeOK'
    BY <2>14 DEF ReportFails, Release
  <2>15. ASSUME NEW r \in Requests, NEW j \in Jobs, CancelStatus(r, j) PROVE TypeOK'
    BY <2>15 DEF CancelStatus, Answer
  <2>16. ASSUME NEW r \in Requests, CancelUpdate(r) PROVE TypeOK'
    BY <2>16 DEF CancelUpdate, SetStatus, Answer
  <2>17. CASE Shutdown
    BY <2>17 DEF Shutdown
  <2>18. CASE Exit
    BY <2>18 DEF Exit, Die, Held, Holds
  <2>19. CASE Crash
    BY <2>19 DEF Crash, Die, Held, Holds
  <2>20. CASE Restart
    BY <2>20 DEF Restart
  <2>21. CASE Tick
    BY <2>21 DEF Tick, Prompt
  <2>22. CASE UNCHANGED vars
    BY <2>22 DEF vars
  <2> QED
    BY <2>1, <2>2, <2>3, <2>4, <2>5, <2>6, <2>7, <2>8, <2>9, <2>10, <2>11, <2>12,
       <2>13, <2>14, <2>15, <2>16, <2>17, <2>18, <2>19, <2>20, <2>21, <2>22
       DEF Next, WorkerStep, ClientStep
<1> QED
  BY <1>1, <1>2, PTL DEF Spec

\* One step keeps the lease invariant, on a host that is not suspended.
LEMMA LeaseStep ==
    ASSUME ~Suspends, TypeOK, LeaseInv, [Next]_vars
    PROVE  LeaseInv'
<1> USE JobQueueAssumption
    DEF TypeOK, Status, Settled, Idle, Active, table, pool, client, host,
        LeaseInv, OneRunner, RetryBudget, AttemptsAccounted, HeldIsLeased,
        NackReadsHold, OrphanAccounted, Holds, Held
<1>1. ASSUME NEW j \in Jobs, Enqueue(j) PROVE LeaseInv'
  BY <1>1 DEF Enqueue, SetStatus
<1>2. ASSUME NEW w \in Workers, Dequeue(w) PROVE LeaseInv'
  <2>1. PICK j \in Jobs : /\ Lease(j)
                          /\ pc' = [pc EXCEPT ![w] = "run"]
                          /\ job' = [job EXCEPT ![w] = j]
    BY <1>2 DEF Dequeue
  <2>2. ~Held(j)
    <3>1. phase = "up"
      BY <1>2 DEF Dequeue
    <3> QED
      BY <2>1, <3>1 DEF Lease, Eligible, Stale
  <2>3. pc[w] = "poll" /\ UNCHANGED <<seen, ctxDone, quiet, beats, lost, phase>>
    BY <1>2 DEF Dequeue
  <2>4. \A v \in Workers : \A i \in Jobs :
          Holds(v, i)' <=> (v = w /\ i = j) \/ (v # w /\ Holds(v, i))
    BY <2>1, <2>3
  <2>5. OneRunner'
    BY <2>2, <2>4
  <2>6. RetryBudget' /\ AttemptsAccounted' /\ NackReadsHold'
    BY <2>1, <2>2, <2>3 DEF Lease, Eligible, Stale
  <2>7. HeldIsLeased'
    BY <2>1, <2>2, <2>3, <2>4 DEF Lease, Eligible, Stale
  <2>8. OrphanAccounted'
    BY <2>1, <2>3, <2>4 DEF Lease, Eligible, Stale
  <2> QED
    BY <2>5, <2>6, <2>7, <2>8
<1>3. ASSUME NEW w \in Workers, PollEmpty(w) PROVE LeaseInv'
  BY <1>3 DEF PollEmpty, vars
<1>4. ASSUME NEW w \in Workers, DequeueLost(w) PROVE LeaseInv'
  BY <1>4 DEF DequeueLost, Lease, Eligible, Stale
<1>5. ASSUME NEW w \in Workers, WorkerStops(w) PROVE LeaseInv'
  BY <1>5 DEF WorkerStops
<1>6. ASSUME NEW w \in Workers, WatchStatus(w) PROVE LeaseInv'
  BY <1>6 DEF WatchStatus
<1>7. ASSUME NEW j \in Jobs, Heartbeat(j) PROVE LeaseInv'
  BY <1>7 DEF Heartbeat
<1>8. ASSUME NEW w \in Workers, HandlerReturns(w) PROVE LeaseInv'
  BY <1>8 DEF HandlerReturns
<1>9. ASSUME NEW w \in Workers, CheckStatus(w) PROVE LeaseInv'
  <2>1. UNCHANGED <<status, attempts, age, lost, beats, phase>>
    BY <1>9 DEF CheckStatus, Release, Report
  <2>2. CASE status[job[w]] = "cancelled"
    <3>1. Release(w)
      BY <1>9, <2>2 DEF CheckStatus
    <3>2. \A v \in Workers : \A i \in Jobs : Holds(v, i)' <=> v # w /\ Holds(v, i)
      BY <3>1 DEF Release
    <3>3. OneRunner' /\ RetryBudget' /\ AttemptsAccounted'
      BY <2>1, <3>2
    <3>4. HeldIsLeased'
      BY <2>1, <3>1, <3>2 DEF Release
    <3>5. NackReadsHold'
      BY <2>1, <3>1 DEF Release
    <3>6. OrphanAccounted'
      <4>1. \A i \in Jobs : status[i] = "running" => ~Holds(w, i)
        BY <2>2
      <4> QED
        BY <2>1, <3>2, <4>1
    <3> QED
      BY <3>3, <3>4, <3>5, <3>6
  <2>3. CASE status[job[w]] # "cancelled"
    <3>1. Report(w) /\ pc[w] \in {"returnedOk", "returnedErr"}
      BY <1>9, <2>3 DEF CheckStatus
    <3>2. \A v \in Workers : \A i \in Jobs : Holds(v, i)' <=> Holds(v, i)
      BY <3>1 DEF Report
    <3> QED
      BY <2>1, <3>1, <3>2 DEF Report
  <2> QED
    BY <2>2, <2>3
<1>10. ASSUME NEW w \in Workers, CheckStatusFails(w) PROVE LeaseInv'
  BY <1>10 DEF CheckStatusFails, Report
<1>11. ASSUME NEW w \in Workers, Ack(w) PROVE LeaseInv'
  BY <1>11 DEF Ack, SetStatus, Release
<1>12. ASSUME NEW w \in Workers, NackRead(w) PROVE LeaseInv'
  BY <1>12 DEF NackRead
<1>13. ASSUME NEW w \in Workers, NackWrite(w) PROVE LeaseInv'
  <2> DEFINE j == job[w]
  <2>1. /\ j \in Jobs /\ Holds(w, j) /\ seen[w] = attempts[j]
        /\ status' = [status EXCEPT ![j] = IF seen[w] >= MaxAttempts THEN "failed"
                                                                   ELSE "queued"]
        /\ age' = [age EXCEPT ![j] = 0]
        /\ UNCHANGED <<attempts, lost, beats, phase>>
    BY <1>13 DEF NackWrite, SetStatus, Release
  <2>2. \A v \in Workers : \A i \in Jobs : Holds(v, i)' <=> v # w /\ Holds(v, i)
    BY <1>13 DEF NackWrite, Release
  <2>3. /\ OneRunner' /\ RetryBudget' /\ AttemptsAccounted'
    BY <2>1, <2>2
  <2>4. HeldIsLeased'
    BY <1>13, <2>1, <2>2 DEF NackWrite, Release
  <2>5. NackReadsHold'
    BY <1>13, <2>1 DEF NackWrite, Release
  <2>6. OrphanAccounted'
    BY <2>1, <2>2
  <2> QED
    BY <2>3, <2>4, <2>5, <2>6
<1>14. ASSUME NEW w \in Workers, ReportFails(w) PROVE LeaseInv'
  <2>1. /\ Release(w) /\ pc[w] \in Active
        /\ UNCHANGED <<status, attempts, age, beats, phase>>
        /\ lost' = [lost EXCEPT ![job[w]] = @ + 1]
    BY <1>14 DEF ReportFails, Release
  <2>2. \A v \in Workers : \A i \in Jobs : Holds(v, i)' <=> v # w /\ Holds(v, i)
    BY <2>1 DEF Release
  <2>3. OneRunner' /\ RetryBudget' /\ AttemptsAccounted'
    BY <2>1, <2>2
  <2>4. HeldIsLeased'
    BY <2>1, <2>2 DEF Release
  <2>5. NackReadsHold'
    BY <2>1 DEF Release
  <2>6. OrphanAccounted'
    BY <2>1, <2>2
  <2> QED
    BY <2>3, <2>4, <2>5, <2>6
<1>15. ASSUME NEW r \in Requests, NEW j \in Jobs, CancelStatus(r, j) PROVE LeaseInv'
  BY <1>15 DEF CancelStatus, Answer
<1>16. ASSUME NEW r \in Requests, CancelUpdate(r) PROVE LeaseInv'
  BY <1>16 DEF CancelUpdate, SetStatus, Answer
<1>17. CASE Shutdown
  BY <1>17 DEF Shutdown
<1>18. CASE Exit
  BY <1>18 DEF Exit, Die
<1>19. CASE Crash
  BY <1>19 DEF Crash, Die
<1>20. CASE Restart
  BY <1>20 DEF Restart
<1>21. CASE Tick
  BY <1>21 DEF Tick, Prompt, Cancelled
<1>22. CASE UNCHANGED vars
  BY <1>22 DEF vars
<1> QED
  BY <1>1, <1>2, <1>3, <1>4, <1>5, <1>6, <1>7, <1>8, <1>9, <1>10, <1>11, <1>12,
     <1>13, <1>14, <1>15, <1>16, <1>17, <1>18, <1>19, <1>20, <1>21, <1>22
     DEF Next, WorkerStep, ClientStep

LEMMA LeaseInvariant ==
    ASSUME ~Suspends
    PROVE  Spec => []LeaseInv
<1>1. Init => LeaseInv
  BY JobQueueAssumption
     DEF Init, LeaseInv, OneRunner, RetryBudget, AttemptsAccounted, HeldIsLeased,
         NackReadsHold, OrphanAccounted, Holds, Held, Active
<1>2. TypeOK /\ LeaseInv /\ [Next]_vars => LeaseInv'
  BY LeaseStep
<1> QED
  BY <1>1, <1>2, TypeCorrect, PTL DEF Spec

\* On a host that is not suspended, at most one worker runs a job at a time.
THEOREM LeaseCorrect ==
    ASSUME ~Suspends
    PROVE  Spec => []OneRunner
<1>1. LeaseInv => OneRunner
  BY DEF LeaseInv
<1> QED
  BY <1>1, LeaseInvariant, PTL

\* On such a host only jobs with attempts left are queued, and only jobs
\* without are failed.
THEOREM Budget ==
    ASSUME ~Suspends
    PROVE  Spec => []RetryBudget
<1>1. LeaseInv => RetryBudget
  BY DEF LeaseInv
<1> QED
  BY <1>1, LeaseInvariant, PTL

\* On such a host every run beyond max_attempts answers for one that ended
\* unreported: no attempt is lost or counted twice.
THEOREM Accounting ==
    ASSUME ~Suspends
    PROVE  Spec => []AttemptsAccounted
<1>1. LeaseInv => AttemptsAccounted
  BY DEF LeaseInv
<1> QED
  BY <1>1, LeaseInvariant, PTL

-----------------------------------------------------------------------------

\* The statements that write a status, and from which status to which.
LEMMA StatusStep ==
    ASSUME TypeOK, [Next]_vars, NEW j \in Jobs, status'[j] # status[j]
    PROVE  \/ status[j] \in {"absent", "queued", "running"}
           \/ \E w \in Workers : pc[w] = "nackWrite" /\ job[w] = j
<1> USE DEF TypeOK, Status, Settled, Idle, Active, table, pool, client, host
<1>1. ASSUME NEW w \in Workers, Dequeue(w) \/ DequeueLost(w)
      PROVE  status[j] \in {"queued", "running"}
  BY <1>1 DEF Dequeue, DequeueLost, Lease, Eligible, Stale
<1>2. ASSUME NEW w \in Workers, Ack(w) PROVE status[j] = "running"
  BY <1>2 DEF Ack, SetStatus
<1>3. ASSUME NEW w \in Workers, NackWrite(w) PROVE pc[w] = "nackWrite" /\ job[w] = j
  BY <1>3 DEF NackWrite, SetStatus
<1>4. ASSUME NEW w \in Workers,
             \/ PollEmpty(w) \/ WorkerStops(w) \/ WatchStatus(w) \/ HandlerReturns(w)
             \/ CheckStatus(w) \/ CheckStatusFails(w) \/ NackRead(w) \/ ReportFails(w)
      PROVE  FALSE
  BY <1>4 DEF PollEmpty, WorkerStops, WatchStatus, HandlerReturns, CheckStatus,
              CheckStatusFails, NackRead, ReportFails, vars
<1>5. ASSUME NEW i \in Jobs, Enqueue(i) PROVE status[j] = "absent"
  BY <1>5 DEF Enqueue, SetStatus
<1>6. ASSUME NEW r \in Requests, CancelUpdate(r) PROVE status[j] \in {"queued", "running"}
  BY <1>6 DEF CancelUpdate, SetStatus
<1>7. ASSUME \/ \E i \in Jobs : Heartbeat(i)
             \/ \E r \in Requests, i \in Jobs : CancelStatus(r, i)
             \/ Shutdown \/ Exit \/ Crash \/ Restart \/ Tick \/ UNCHANGED vars
      PROVE  FALSE
  BY <1>7 DEF Heartbeat, CancelStatus, Shutdown, Exit, Crash, Die, Restart, Tick, vars
<1> QED
  BY <1>1, <1>2, <1>3, <1>4, <1>5, <1>6, <1>7 DEF Next, WorkerStep, ClientStep

\* Success and failure are final: the one unguarded write, Nack's, comes from
\* a worker that holds the job, and a held job is running or cancelled.
THEOREM Finality ==
    ASSUME ~Suspends
    PROVE  Spec => FinishedIsFinal
<1>1. TypeOK /\ LeaseInv /\ [Next]_vars =>
        \A j \in Jobs : status[j] \in {"succeeded", "failed"} => status'[j] = status[j]
  <2> SUFFICES ASSUME TypeOK, LeaseInv, [Next]_vars, NEW j \in Jobs,
                      status[j] \in {"succeeded", "failed"}, status'[j] # status[j]
               PROVE  FALSE
    OBVIOUS
  <2>1. PICK w \in Workers : pc[w] = "nackWrite" /\ job[w] = j
    BY StatusStep
  <2> QED
    BY <2>1 DEF LeaseInv, HeldIsLeased, Holds, Active
<1> QED
  BY <1>1, TypeCorrect, LeaseInvariant, PTL DEF Spec, FinishedIsFinal

\* A cancellation is undone by a late Nack or not at all, suspended host or not.
THEOREM CancelUndone == Spec => CancelUndoneOnlyByLateNack
<1>1. TypeOK /\ [Next]_vars =>
        \A j \in Jobs : status[j] = "cancelled" /\ status'[j] # "cancelled"
           => \E w \in Workers : pc[w] = "nackWrite" /\ job[w] = j
  BY StatusStep
<1> QED
  BY <1>1, TypeCorrect, PTL DEF Spec, CancelUndoneOnlyByLateNack

-----------------------------------------------------------------------------
(* The queue implements its abstract life cycle.                           *)

\* A step that changes the runners of one job.
LEMMA RunnersExcept ==
    ASSUME NEW j \in Jobs, NEW W, RunnersOf(j)' = W,
           \A i \in Jobs \ {j} : RunnersOf(i)' = RunnersOf(i)
    PROVE  Runners' = [Runners EXCEPT ![j] = W]
<1>1. \A i \in Jobs : RunnersOf(i)' = IF i = j THEN W ELSE RunnersOf(i)
  OBVIOUS
<1> QED
  BY <1>1 DEF Runners

\* A worker lets its job go: the job's set of runners, which was the worker
\* alone, is empty.
LEMMA ReleaseRunners ==
    ASSUME TypeOK, LeaseInv, NEW w \in Workers, pc[w] \in Active, Release(w)
    PROVE  /\ job[w] \in Jobs
           /\ Runners[job[w]] = {w}
           /\ Runners' = [Runners EXCEPT ![job[w]] = {}]
<1>1. PICK j \in Jobs : j = job[w]
  BY DEF TypeOK
<1>2. Holds(w, j) /\ \A i \in Jobs \ {j} : ~Holds(w, i)
  BY <1>1 DEF Holds
<1>3. \A v \in Workers : Holds(v, j) <=> v = w
  BY <1>2 DEF LeaseInv, OneRunner
<1>4. \A v \in Workers : \A i \in Jobs : Holds(v, i)' <=> v # w /\ Holds(v, i)
  BY DEF TypeOK, Idle, Active, Holds, Release
<1>5. RunnersOf(j) = {w}
  BY <1>3 DEF RunnersOf
<1>6. RunnersOf(j)' = {}
  BY <1>3, <1>4 DEF RunnersOf
<1>7. \A i \in Jobs \ {j} : RunnersOf(i)' = RunnersOf(i)
  BY <1>2, <1>4 DEF RunnersOf
<1>8. Runners' = [Runners EXCEPT ![j] = {}]
  BY <1>6, <1>7, RunnersExcept
<1>9. Runners[j] = {w}
  BY <1>5 DEF Runners
<1> QED
  BY <1>1, <1>8, <1>9

\* Steps that leave every worker's position and job alone, or move it within
\* the positions that hold a job, leave the runners alone.
LEMMA SameRunners ==
    ASSUME \A w \in Workers : \A j \in Jobs : Holds(w, j)' <=> Holds(w, j)
    PROVE  UNCHANGED Runners
BY DEF Runners, RunnersOf

\* One run ending unreported is a case of Abandon.
LEMMA AbandonOne ==
    ASSUME NEW j \in Jobs, UNCHANGED <<status, attempts>>,
           Runners' = [Runners EXCEPT ![j] = {}]
    PROVE  Lifecycle!Abandon
<1>1. {j} \in SUBSET Jobs
  OBVIOUS
<1>2. Runners = [i \in Jobs |-> RunnersOf(i)]
  BY DEF Runners
<1>3. Runners' = [i \in Jobs |-> IF i \in {j} THEN {} ELSE Runners[i]]
  BY <1>2
<1> QED
  BY <1>1, <1>3 DEF Lifecycle!Abandon

\* Each step of the queue is a step of the life cycle or changes nothing it
\* knows of.
LEMMA LifecycleStep ==
    ASSUME ~Suspends, TypeOK, LeaseInv, [Next]_vars
    PROVE  [Lifecycle!LNext]_(Lifecycle!lvars)
<1> USE DEF TypeOK, Status, Settled, Idle, Active, table, pool, client, host
<1>1. ASSUME NEW j \in Jobs, Enqueue(j) PROVE Lifecycle!Submit(j)
  <2>1. UNCHANGED Runners
    BY <1>1, SameRunners DEF Enqueue, Holds
  <2> QED
    BY <1>1, <2>1 DEF Enqueue, SetStatus, Lifecycle!Submit
<1>2. ASSUME NEW w \in Workers, Dequeue(w)
      PROVE  \E j \in Jobs : Lifecycle!Start(j, {w})
  <2>1. PICK j \in Jobs : /\ Lease(j)
                          /\ pc' = [pc EXCEPT ![w] = "run"]
                          /\ job' = [job EXCEPT ![w] = j]
    BY <1>2 DEF Dequeue
  <2>2. ~Held(j)
    <3>1. phase = "up"
      BY <1>2 DEF Dequeue, DequeueLost
    <3> QED
      BY <2>1, <3>1 DEF Lease, Eligible, Stale, LeaseInv, HeldIsLeased, Held
  <2>3. \A v \in Workers : \A i \in Jobs :
          Holds(v, i)' <=> (v = w /\ i = j) \/ (v # w /\ Holds(v, i))
    BY <1>2, <2>1 DEF Dequeue, Holds
  <2>4. \A v \in Workers : ~Holds(v, j)
    BY <2>2 DEF Held
  <2>5. \A i \in Jobs : ~Holds(w, i)
    BY <1>2 DEF Dequeue, Holds
  <2>6. RunnersOf(j) = {} /\ RunnersOf(j)' = {w}
    BY <2>3, <2>4 DEF RunnersOf
  <2>7. \A i \in Jobs \ {j} : RunnersOf(i)' = RunnersOf(i)
    BY <2>3, <2>5 DEF RunnersOf
  <2>8. Runners[j] = {} /\ Runners' = [Runners EXCEPT ![j] = {w}]
    <3>1. Runners[j] = {}
      BY <2>6 DEF Runners
    <3> QED
      BY <2>6, <2>7, <3>1, RunnersExcept
  <2> QED
    BY <2>1, <2>8 DEF Lease, Eligible, Stale, Lifecycle!Start
<1>3. ASSUME NEW w \in Workers, DequeueLost(w)
      PROVE  \E j \in Jobs : Lifecycle!Start(j, {})
  <2>1. PICK j \in Jobs : Lease(j)
    BY <1>3 DEF DequeueLost
  <2>2. ~Held(j)
    <3>1. phase = "up"
      BY <1>3 DEF Dequeue, DequeueLost
    <3> QED
      BY <2>1, <3>1 DEF Lease, Eligible, Stale, LeaseInv, HeldIsLeased, Held
  <2>3. UNCHANGED Runners
    BY <1>3, SameRunners DEF DequeueLost, Holds
  <2>4. \A v \in Workers : ~Holds(v, j)
    BY <2>2 DEF Held
  <2>5. RunnersOf(j) = {}
    BY <2>4 DEF RunnersOf
  <2>6. Runners[j] = {}
    BY <2>5 DEF Runners
  <2>7. Runners' = [Runners EXCEPT ![j] = {}]
    <3>1. Runners = [i \in Jobs |-> RunnersOf(i)]
      BY DEF Runners
    <3> QED
      BY <2>3, <2>6, <3>1
  <2> QED
    BY <2>1, <2>6, <2>7 DEF Lease, Eligible, Stale, Lifecycle!Start
<1>4. ASSUME NEW w \in Workers,
             \/ PollEmpty(w) \/ WorkerStops(w) \/ WatchStatus(w) \/ HandlerReturns(w)
             \/ CheckStatusFails(w) \/ NackRead(w)
      PROVE  UNCHANGED <<status, attempts, Runners>>
  <2>1. \A v \in Workers : \A j \in Jobs : Holds(v, j)' <=> Holds(v, j)
    BY <1>4 DEF PollEmpty, WorkerStops, WatchStatus, HandlerReturns, CheckStatusFails,
                Report, NackRead, Holds, vars
  <2> QED
    BY <1>4, <2>1, SameRunners
       DEF PollEmpty, WorkerStops, WatchStatus, HandlerReturns, CheckStatusFails,
           NackRead, vars
<1>5. ASSUME NEW w \in Workers, CheckStatus(w) \/ ReportFails(w)
      PROVE  Lifecycle!Abandon \/ UNCHANGED <<status, attempts, Runners>>
  <2>1. UNCHANGED <<status, attempts>>
    BY <1>5 DEF CheckStatus, ReportFails
  <2>2. CASE Release(w)
    <3>1. pc[w] \in Active
      BY <1>5 DEF CheckStatus, ReportFails
    <3>2. job[w] \in Jobs /\ Runners' = [Runners EXCEPT ![job[w]] = {}]
      BY <2>2, <3>1, ReleaseRunners
    <3> QED
      BY <2>1, <3>2, AbandonOne
  <2>3. CASE ~Release(w)
    <3>1. CheckStatus(w) /\ Report(w)
      BY <1>5, <2>3 DEF CheckStatus, ReportFails
    <3>2. \A v \in Workers : \A j \in Jobs : Holds(v, j)' <=> Holds(v, j)
      BY <3>1 DEF CheckStatus, Report, Holds
    <3> QED
      BY <2>1, <3>2, SameRunners
  <2> QED
    BY <2>2, <2>3
<1>6. ASSUME NEW w \in Workers, Ack(w)
      PROVE  Lifecycle!Abandon \/ \E j \in Jobs : Lifecycle!Succeed(w, j)
  <2>1. /\ job[w] \in Jobs
        /\ Runners[job[w]] = {w}
        /\ Runners' = [Runners EXCEPT ![job[w]] = {}]
    BY <1>6, ReleaseRunners DEF Ack
  <2>2. CASE status[job[w]] = "running"
    <3>1. status' = [status EXCEPT ![job[w]] = "succeeded"] /\ UNCHANGED attempts
      BY <1>6, <2>2 DEF Ack, SetStatus
    <3> QED
      BY <2>1, <2>2, <3>1 DEF Lifecycle!Succeed, Lifecycle!Finish
  <2>3. CASE status[job[w]] # "running"
    <3>1. UNCHANGED <<status, attempts>>
      BY <1>6, <2>3 DEF Ack
    <3> QED
      BY <2>1, <3>1, AbandonOne
  <2> QED
    BY <2>2, <2>3
<1>7. ASSUME NEW w \in Workers, NackWrite(w)
      PROVE  \E j \in Jobs : Lifecycle!Retry(w, j) \/ Lifecycle!GiveUp(w, j)
  <2>1. /\ job[w] \in Jobs
        /\ Runners[job[w]] = {w}
        /\ Runners' = [Runners EXCEPT ![job[w]] = {}]
    BY <1>7, ReleaseRunners DEF NackWrite
  <2>2. /\ status[job[w]] \in {"running", "cancelled"}
        /\ seen[w] = attempts[job[w]]
    BY <1>7, <2>1 DEF NackWrite, LeaseInv, HeldIsLeased, NackReadsHold, Holds
  <2>3. /\ status' = [status EXCEPT ![job[w]] = IF seen[w] >= MaxAttempts
                                                  THEN "failed" ELSE "queued"]
        /\ UNCHANGED attempts
    BY <1>7 DEF NackWrite, SetStatus
  <2>4. attempts[job[w]] \in Nat /\ MaxAttempts \in Nat
    BY <2>1, JobQueueAssumption
  <2>5. CASE seen[w] >= MaxAttempts
    <3>1. status' = [status EXCEPT ![job[w]] = "failed"]
      BY <2>3, <2>5
    <3>2. Lifecycle!GiveUp(w, job[w])
      BY <2>1, <2>2, <2>3, <2>5, <3>1 DEF Lifecycle!GiveUp, Lifecycle!Finish
    <3> QED
      BY <2>1, <3>2
  <2>6. CASE ~(seen[w] >= MaxAttempts)
    <3>1. status' = [status EXCEPT ![job[w]] = "queued"]
      BY <2>3, <2>6
    <3>2. Lifecycle!Retry(w, job[w])
      BY <2>1, <2>2, <2>3, <2>4, <2>6, <3>1 DEF Lifecycle!Retry, Lifecycle!Finish
    <3> QED
      BY <2>1, <3>2
  <2> QED
    BY <2>5, <2>6
<1>8. ASSUME NEW r \in Requests, CancelUpdate(r)
      PROVE  (\E j \in Jobs : Lifecycle!CancelJob(j)) \/ UNCHANGED <<status, attempts, Runners>>
  <2>1. UNCHANGED Runners
    BY <1>8, SameRunners DEF CancelUpdate, Holds
  <2>2. target[r] \in Jobs
    BY <1>8 DEF CancelUpdate
  <2> QED
    BY <1>8, <2>1, <2>2 DEF CancelUpdate, SetStatus, Lifecycle!CancelJob
<1>9. ASSUME \/ \E j \in Jobs : Heartbeat(j)
             \/ \E r \in Requests, j \in Jobs : CancelStatus(r, j)
             \/ Shutdown \/ Restart \/ Tick \/ UNCHANGED vars
      PROVE  UNCHANGED <<status, attempts, Runners>>
  <2>1. \A v \in Workers : \A j \in Jobs : Holds(v, j)' <=> Holds(v, j)
    BY <1>9 DEF Heartbeat, CancelStatus, Shutdown, Restart, Tick, Holds, vars
  <2> QED
    BY <1>9, <2>1, SameRunners DEF Heartbeat, CancelStatus, Shutdown, Restart, Tick, vars
<1>10. ASSUME Exit \/ Crash PROVE Lifecycle!Abandon
  <2>1. UNCHANGED <<status, attempts>>
    BY <1>10 DEF Exit, Crash, Die
  <2>2. \A v \in Workers : \A j \in Jobs : ~Holds(v, j)'
    BY <1>10 DEF Exit, Crash, Die, Holds
  <2>3. \A j \in Jobs : RunnersOf(j)' = {}
    BY <2>2 DEF RunnersOf
  <2>4. Runners' = [j \in Jobs |-> IF j \in Jobs THEN {} ELSE Runners[j]]
    BY <2>3 DEF Runners
  <2> QED
    BY <2>1, <2>4 DEF Lifecycle!Abandon
<1>11. CASE \E j \in Jobs : Heartbeat(j)
  BY <1>9, <1>11 DEF Lifecycle!lvars
<1>12. CASE \E w \in Workers : WorkerStep(w)
  <2> SUFFICES ASSUME NEW w \in Workers, WorkerStep(w)
               PROVE  [Lifecycle!LNext]_(Lifecycle!lvars)
    BY <1>12
  <2>1. CASE Dequeue(w)
    <3>1. PICK j \in Jobs : Lifecycle!Start(j, {w})
      BY <1>2, <2>1
    <3>2. {w} \in {{}} \union {{v} : v \in Workers}
      OBVIOUS
    <3> QED
      BY <3>1, <3>2 DEF Lifecycle!LNext
  <2>2. CASE DequeueLost(w)
    BY <1>3, <2>2 DEF Lifecycle!LNext
  <2>3. CASE \/ PollEmpty(w) \/ WorkerStops(w) \/ WatchStatus(w) \/ HandlerReturns(w)
             \/ CheckStatusFails(w) \/ NackRead(w)
    BY <1>4, <2>3 DEF Lifecycle!lvars
  <2>4. CASE CheckStatus(w) \/ ReportFails(w)
    BY <1>5, <2>4 DEF Lifecycle!LNext, Lifecycle!lvars
  <2>5. CASE Ack(w)
    BY <1>6, <2>5 DEF Lifecycle!LNext
  <2>6. CASE NackWrite(w)
    BY <1>7, <2>6 DEF Lifecycle!LNext
  <2> QED
    BY <2>1, <2>2, <2>3, <2>4, <2>5, <2>6 DEF WorkerStep
<1>13. CASE ClientStep
  <2>1. CASE \E j \in Jobs : Enqueue(j)
    BY <1>1, <2>1 DEF Lifecycle!LNext
  <2>2. CASE \E r \in Requests : CancelUpdate(r)
    BY <1>8, <2>2 DEF Lifecycle!LNext, Lifecycle!lvars
  <2>3. CASE \E r \in Requests, j \in Jobs : CancelStatus(r, j)
    BY <1>9, <2>3 DEF Lifecycle!lvars
  <2> QED
    BY <1>13, <2>1, <2>2, <2>3 DEF ClientStep
<1>14. CASE Shutdown \/ Restart \/ Tick \/ UNCHANGED vars
  BY <1>9, <1>14 DEF Lifecycle!lvars
<1>15. CASE Exit \/ Crash
  BY <1>10, <1>15 DEF Lifecycle!LNext
<1> QED
  BY <1>11, <1>12, <1>13, <1>14, <1>15 DEF Next

\* The queue, the pool and the process around them implement JobLifecycle.
THEOREM Refinement ==
    ASSUME ~Suspends
    PROVE  Spec => ImplementsLifecycle
<1>1. Init => Lifecycle!LInit
  <2> SUFFICES ASSUME Init PROVE Lifecycle!LInit
    OBVIOUS
  <2>1. \A w \in Workers : \A j \in Jobs : ~Holds(w, j)
    BY DEF Init, Holds, Active
  <2>2. \A j \in Jobs : RunnersOf(j) = {}
    BY <2>1 DEF RunnersOf
  <2>3. Runners = [j \in Jobs |-> {}]
    BY <2>2 DEF Runners
  <2> QED
    BY <2>3 DEF Init, Lifecycle!LInit
<1>2. TypeOK /\ LeaseInv /\ [Next]_vars => [Lifecycle!LNext]_(Lifecycle!lvars)
  BY LifecycleStep
<1> QED
  BY <1>1, <1>2, TypeCorrect, LeaseInvariant, PTL
     DEF Spec, ImplementsLifecycle, Lifecycle!LSpec

=============================================================================
