------------------------------ MODULE JobQueue ------------------------------
(***************************************************************************)
(* The SQLite job queue (internal/platform/queue/sqlitequeue), the worker  *)
(* pool that drains it (internal/worker), the HTTP handlers that enqueue   *)
(* and cancel jobs (internal/jobs/http.go) and the process around them     *)
(* (cmd/api): crash, graceful shutdown and restart.  A step is one SQL     *)
(* statement or one decision of a goroutine, so statements of different    *)
(* goroutines interleave as they do on the database.                       *)
(* Operators named Bug_... are plausible mistakes in the operator they     *)
(* precede; no specification uses them, they show which property notices.  *)
(*                                                                         *)
(* Abstracted: payloads; idempotency keys (EnqueueExtract draws a fresh    *)
(* one for each job, so the UNIQUE constraint never bites); job types (the *)
(* pool dequeues only the types it has handlers for); the lease token,     *)
(* which is written and never read; and ORDER BY priority, scheduled_at:   *)
(* Dequeue takes ANY eligible job, which includes the ones SQL would take. *)
(***************************************************************************)
EXTENDS Integers

CONSTANTS Jobs,         \* the job ids the clients may enqueue
          Workers,      \* the pool's goroutines (concurrency)
          Requests,     \* DELETE /jobs/{id} requests, each sent at most once
          NoJob,        \* what a worker or a request holds when it holds none
          MaxAttempts,  \* job_queue.max_attempts (Enqueue's default is 3)
          BackoffUnit,  \* the clock units of back-off for each attempt made
          StaleAfter,   \* the clock units without heartbeat that end a lease
          MaxStops,     \* bound: crashes and shutdowns in one behaviour
          MaxFaults,    \* bound: statements that fail in one behaviour
          Suspends,     \* whether the host may be suspended under the process
          Hanging       \* jobs whose handler ends only when it is cancelled

ASSUME JobQueueAssumption ==
    /\ NoJob \notin Jobs
    /\ MaxAttempts \in Nat \ {0}
    /\ BackoffUnit \in Nat \ {0}
    /\ StaleAfter \in Nat \ {0}
    /\ MaxStops \in Nat
    /\ MaxFaults \in Nat
    /\ Suspends \in BOOLEAN
    /\ Hanging \subseteq Jobs

VARIABLES
    \* the job_queue table
    status,     \* status[j]; "absent" before the INSERT
    attempts,   \* attempts[j]
    wait,       \* wait[j]: clock units until scheduled_at
    age,        \* age[j]: clock units since heartbeat_at while the job runs,
                \* capped at StaleAfter; 0 otherwise
    \* the pool
    pc,         \* pc[w]: where the worker's goroutine is
    job,        \* job[w]: the job it is processing, or NoJob
    seen,       \* seen[w]: the attempts Nack's SELECT returned; 0 outside Nack
    ctxDone,    \* workers whose watcher has cancelled the handler's context
    quiet,      \* quiet[w]: clock units since its last Dequeue or watcher tick;
                \* 0 outside processJob
    beats,      \* jobs with a Heartbeat statement in flight
    \* cancel requests and the process
    request,    \* request[r]: progress of, or answer to, the request
    target,     \* target[r]: the job of a request between its two statements
    phase,      \* "up", "draining" (signal received) or "down"
    stops, faults,   \* how much of the bounds is spent
    lost        \* history: lost[j] counts its runs that ended unreported

table  == <<status, attempts, wait, age>>
pool   == <<pc, job, seen, ctxDone, quiet, beats>>
client == <<request, target>>
host   == <<phase, stops>>
vars   == <<table, pool, client, host, faults, lost>>

Settled == {"succeeded", "failed", "cancelled"}
Status  == {"absent", "queued", "running"} \union Settled
Answers == {"204", "404", "409", "aborted"}

\* Worker positions.  "returnedOk" and "returnedErr": the handler is back and
\* the status check is next; "nackWrite": between Nack's two statements.
Idle   == {"poll", "stopped"}
Active == {"run", "returnedOk", "returnedErr", "ack", "nack", "nackWrite"}

Holds(w, j) == pc[w] \in Active /\ job[w] = j
Held(j)     == \E w \in Workers : Holds(w, j)

Init ==
    /\ status = [j \in Jobs |-> "absent"]
    /\ attempts = [j \in Jobs |-> 0]
    /\ wait = [j \in Jobs |-> 0]
    /\ age = [j \in Jobs |-> 0]
    /\ pc = [w \in Workers |-> "poll"]
    /\ job = [w \in Workers |-> NoJob]
    /\ seen = [w \in Workers |-> 0]
    /\ ctxDone = {}
    /\ quiet = [w \in Workers |-> 0]
    /\ beats = {}
    /\ request = [r \in Requests |-> "new"]
    /\ target = [r \in Requests |-> NoJob]
    /\ phase = "up"
    /\ stops = 0
    /\ faults = 0
    /\ lost = [j \in Jobs |-> 0]

\* A status other than running, and with it the end of the lease.
SetStatus(j, new) ==
    /\ status' = [status EXCEPT ![j] = new]
    /\ age' = [age EXCEPT ![j] = 0]

-----------------------------------------------------------------------------
(* POST /jobs/extract, the only producer of jobs.                          *)

Enqueue(j) ==
    /\ phase # "down"
    /\ status[j] = "absent"
    /\ SetStatus(j, "queued")
    /\ attempts' = [attempts EXCEPT ![j] = 0]
    /\ wait' = [wait EXCEPT ![j] = 0]
    /\ UNCHANGED <<pool, client, host, faults, lost>>

-----------------------------------------------------------------------------
(* The worker loop.                                                        *)

\* The lease ends one unit early.
Bug_StaleEarly(j) == status[j] = "running" /\ age[j] >= StaleAfter - 1

Stale(j) == status[j] = "running" /\ age[j] = StaleAfter

\* Jobs of a dead process are never taken up again.
Bug_EligibleNotStale(j) == status[j] = "queued" /\ wait[j] = 0

Eligible(j) == (status[j] = "queued" /\ wait[j] = 0) \/ Stale(j)

\* The UPDATE ... RETURNING of Dequeue: one statement, no look at attempts.
Lease(j) ==
    /\ Eligible(j)
    /\ status' = [status EXCEPT ![j] = "running"]
    /\ attempts' = [attempts EXCEPT ![j] = @ + 1]
    /\ age' = [age EXCEPT ![j] = 0]
    /\ UNCHANGED wait

Dequeue(w) ==
    /\ phase = "up"
    /\ pc[w] = "poll"
    /\ \E j \in Jobs :
          /\ Lease(j)
          /\ pc' = [pc EXCEPT ![w] = "run"]
          /\ job' = [job EXCEPT ![w] = j]
    /\ UNCHANGED <<seen, ctxDone, quiet, beats, client, host, faults, lost>>

\* ErrNoJobs: the worker sleeps two seconds and polls again.
PollEmpty(w) ==
    /\ phase = "up"
    /\ pc[w] = "poll"
    /\ \A j \in Jobs : ~Eligible(j)
    /\ UNCHANGED vars

\* The statement took effect and reading its row failed: the lease is taken
\* and nobody runs the job.
DequeueLost(w) ==
    /\ phase = "up"
    /\ pc[w] = "poll"
    /\ faults < MaxFaults
    /\ \E j \in Jobs :
          /\ Lease(j)
          /\ lost' = [lost EXCEPT ![j] = @ + 1]
    /\ faults' = faults + 1
    /\ UNCHANGED <<pool, client, host>>

WorkerStops(w) ==
    /\ phase = "draining"
    /\ pc[w] = "poll"
    /\ pc' = [pc EXCEPT ![w] = "stopped"]
    /\ UNCHANGED <<table, job, seen, ctxDone, quiet, beats, client, host,
                   faults, lost>>

-----------------------------------------------------------------------------
(* processJob's watcher goroutine: each second a Status, then a Heartbeat. *)

\* The watcher only keeps the lease alive.
Bug_WatchBlind(w) ==
    /\ pc[w] = "run"
    /\ w \notin ctxDone
    /\ beats' = beats \union {job[w]}
    /\ quiet' = [quiet EXCEPT ![w] = 0]
    /\ UNCHANGED <<table, pc, job, seen, ctxDone, client, host, faults, lost>>

WatchStatus(w) ==
    /\ pc[w] = "run"
    /\ w \notin ctxDone
    /\ IF status[job[w]] = "cancelled"
         THEN ctxDone' = ctxDone \union {w} /\ UNCHANGED beats
         ELSE beats' = beats \union {job[w]} /\ UNCHANGED ctxDone
    /\ quiet' = [quiet EXCEPT ![w] = 0]
    /\ UNCHANGED <<table, pc, job, seen, client, host, faults, lost>>

\* The UPDATE's status guard names the wrong status.
Bug_HeartbeatWrongGuard(j) ==
    /\ j \in beats
    /\ beats' = beats \ {j}
    /\ age' = IF status[j] = "queued" THEN [age EXCEPT ![j] = 0] ELSE age
    /\ UNCHANGED <<status, attempts, wait, pc, job, seen, ctxDone, quiet, client, host,
                   faults, lost>>

\* The statement may land after its watcher has ended: it names the job, not
\* the lease.
Heartbeat(j) ==
    /\ j \in beats
    /\ beats' = beats \ {j}
    /\ age' = IF status[j] = "running" THEN [age EXCEPT ![j] = 0] ELSE age
    /\ UNCHANGED <<status, attempts, wait, pc, job, seen, ctxDone, quiet, client, host,
                   faults, lost>>

-----------------------------------------------------------------------------
(* processJob's main line.                                                 *)

\* The handler's context is not derived from the pool's.
Bug_CancelledDetached(w) == w \in ctxDone

\* Whether the handler's context is done.
Cancelled(w) == w \in ctxDone \/ phase = "draining"

HandlerReturns(w) ==
    /\ pc[w] = "run"
    /\ \E p \in {"returnedOk", "returnedErr"} : pc' = [pc EXCEPT ![w] = p]
    /\ UNCHANGED <<table, job, seen, ctxDone, quiet, beats, client, host,
                   faults, lost>>

\* The worker forgets its job but its goroutine's position still says run.
Bug_ReleaseLate(w) ==
    /\ job' = [job EXCEPT ![w] = NoJob]
    /\ UNCHANGED <<pc, seen, ctxDone, quiet, beats>>

\* The worker is done with its job and polls again.
Release(w) ==
    /\ pc' = [pc EXCEPT ![w] = "poll"]
    /\ job' = [job EXCEPT ![w] = NoJob]
    /\ seen' = [seen EXCEPT ![w] = 0]
    /\ ctxDone' = ctxDone \ {w}
    /\ quiet' = [quiet EXCEPT ![w] = 0]
    /\ UNCHANGED beats

Report(w) ==
    /\ pc' = [pc EXCEPT ![w] = IF pc[w] = "returnedOk" THEN "ack" ELSE "nack"]
    /\ UNCHANGED <<job, seen, ctxDone, quiet, beats>>

CheckStatus(w) ==
    /\ pc[w] \in {"returnedOk", "returnedErr"}
    /\ IF status[job[w]] = "cancelled" THEN Release(w) ELSE Report(w)
    /\ UNCHANGED <<table, client, host, faults, lost>>

\* statusErr # nil: the worker reports as if the job was not cancelled.
CheckStatusFails(w) ==
    /\ pc[w] \in {"returnedOk", "returnedErr"}
    /\ faults < MaxFaults
    /\ Report(w)
    /\ faults' = faults + 1
    /\ UNCHANGED <<table, client, host, lost>>

\* Ack without the status guard.
Bug_AckUnguarded(w) ==
    /\ pc[w] = "ack"
    /\ SetStatus(job[w], "succeeded")
    /\ Release(w)
    /\ UNCHANGED <<attempts, wait, client, host, faults, lost>>

\* Guarded by status = 'running'; its ErrJobNotFound is dropped.
Ack(w) ==
    /\ pc[w] = "ack"
    /\ IF status[job[w]] = "running" THEN SetStatus(job[w], "succeeded")
                                    ELSE UNCHANGED <<status, age>>
    /\ Release(w)
    /\ UNCHANGED <<attempts, wait, client, host, faults, lost>>

\* Nack counts the retries, not the attempts.
Bug_NackReadRetries(w) ==
    /\ pc[w] = "nack"
    /\ seen' = [seen EXCEPT ![w] = attempts[job[w]] - 1]
    /\ pc' = [pc EXCEPT ![w] = "nackWrite"]
    /\ UNCHANGED <<table, job, ctxDone, quiet, beats, client, host, faults, lost>>

NackRead(w) ==
    /\ pc[w] = "nack"
    /\ seen' = [seen EXCEPT ![w] = attempts[job[w]]]
    /\ pc' = [pc EXCEPT ![w] = "nackWrite"]
    /\ UNCHANGED <<table, job, ctxDone, quiet, beats, client, host, faults, lost>>

Backoff(n) == IF n = 0 THEN 1 ELSE n * BackoffUnit

\* One attempt too many: > for >=.
Bug_NackOffByOne(w) ==
    /\ pc[w] = "nackWrite"
    /\ IF seen[w] > MaxAttempts
         THEN SetStatus(job[w], "failed") /\ UNCHANGED wait
         ELSE /\ SetStatus(job[w], "queued")
              /\ wait' = [wait EXCEPT ![job[w]] = Backoff(seen[w])]
    /\ Release(w)
    /\ UNCHANGED <<attempts, client, host, faults, lost>>

\* Not guarded by the status: it names the row by its id alone.
NackWrite(w) ==
    /\ pc[w] = "nackWrite"
    /\ IF seen[w] >= MaxAttempts
         THEN /\ SetStatus(job[w], "failed")
              /\ wait' = [wait EXCEPT ![job[w]] = 0]
         ELSE /\ SetStatus(job[w], "queued")
              /\ wait' = [wait EXCEPT ![job[w]] = Backoff(seen[w])]
    /\ Release(w)
    /\ UNCHANGED <<attempts, client, host, faults, lost>>

\* Ack or Nack fails: processJob drops the error and the row stays as it is.
ReportFails(w) ==
    /\ pc[w] \in {"ack", "nack", "nackWrite"}
    /\ faults < MaxFaults
    /\ Release(w)
    /\ faults' = faults + 1
    /\ lost' = [lost EXCEPT ![job[w]] = @ + 1]
    /\ UNCHANGED <<table, client, host>>

-----------------------------------------------------------------------------
(* DELETE /jobs/{id}: a Status, then a Cancel guarded by the status.       *)

Answer(r, code) ==
    /\ request' = [request EXCEPT ![r] = code]
    /\ target' = [target EXCEPT ![r] = NoJob]

CancelStatus(r, j) ==
    /\ phase # "down"
    /\ request[r] = "new"
    /\ \/ status[j] = "absent" /\ Answer(r, "404")
       \/ status[j] \in Settled /\ Answer(r, "409")
       \/ /\ status[j] \in {"queued", "running"}
          /\ request' = [request EXCEPT ![r] = "read"]
          /\ target' = [target EXCEPT ![r] = j]
    /\ UNCHANGED <<table, pool, host, faults, lost>>

\* Cancel trusts the status its handler read.
Bug_CancelUnguarded(r) ==
    /\ phase # "down"
    /\ request[r] = "read"
    /\ SetStatus(target[r], "cancelled")
    /\ Answer(r, "204")
    /\ UNCHANGED <<attempts, wait, pool, host, faults, lost>>

CancelUpdate(r) ==
    /\ phase # "down"
    /\ request[r] = "read"
    /\ IF status[target[r]] \in {"queued", "running"}
         THEN SetStatus(target[r], "cancelled") /\ Answer(r, "204")
         ELSE UNCHANGED <<status, age>> /\ Answer(r, "404")
    /\ UNCHANGED <<attempts, wait, pool, host, faults, lost>>

-----------------------------------------------------------------------------
(* The process and the clock.                                              *)

\* SIGTERM: the pool's context is done, and with it every handler's.
Shutdown ==
    /\ phase = "up"
    /\ stops < MaxStops
    /\ stops' = stops + 1
    /\ phase' = "draining"
    /\ UNCHANGED <<table, pool, client, faults, lost>>

\* What dies with the process, wherever its goroutines are.
Die ==
    /\ phase' = "down"
    /\ pc' = [w \in Workers |-> "stopped"]
    /\ job' = [w \in Workers |-> NoJob]
    /\ seen' = [w \in Workers |-> 0]
    /\ ctxDone' = {}
    /\ quiet' = [w \in Workers |-> 0]
    /\ beats' = {}
    /\ request' = [r \in Requests |->
                     IF request[r] = "read" THEN "aborted" ELSE request[r]]
    /\ target' = [r \in Requests |-> NoJob]
    /\ lost' = [j \in Jobs |-> IF Held(j) THEN lost[j] + 1 ELSE lost[j]]
    /\ UNCHANGED <<table, faults>>

\* runServe waits for the pool and returns.
Exit ==
    /\ phase = "draining"
    /\ \A w \in Workers : pc[w] = "stopped"
    /\ Die
    /\ UNCHANGED stops

\* A crash, or runServe returning early: a server error, or a Shutdown that
\* outlives its timeout, returns without waiting for the pool.
Crash ==
    /\ phase # "down"
    /\ stops < MaxStops
    /\ stops' = stops + 1
    /\ Die

Restart ==
    /\ phase = "down"
    /\ phase' = "up"
    /\ pc' = [w \in Workers |-> "poll"]
    /\ UNCHANGED <<table, job, seen, ctxDone, quiet, beats, client, stops, faults, lost>>

\* Time passes.  A watcher ticks every second and the lease expires after
\* minutes, so unless the host is suspended a worker in processJob is not
\* quiet for the life of a lease and no heartbeat stays in flight that long.
\* A worker whose context is done has no watcher, and may take any time.
Prompt ==
    /\ beats = {}
    /\ \A w \in Workers : pc[w] \in Active /\ ~Cancelled(w) => quiet[w] + 1 < StaleAfter

Tick ==
    /\ Suspends \/ Prompt
    /\ wait' = [j \in Jobs |-> IF wait[j] > 0 THEN wait[j] - 1 ELSE 0]
    /\ age' = [j \in Jobs |-> IF status[j] = "running" /\ age[j] < StaleAfter
                                THEN age[j] + 1 ELSE age[j]]
    /\ quiet' = [w \in Workers |-> IF pc[w] \in Active /\ quiet[w] < StaleAfter
                                      THEN quiet[w] + 1 ELSE quiet[w]]
    /\ UNCHANGED <<status, attempts, pc, job, seen, ctxDone, beats, client, host,
                   faults, lost>>

-----------------------------------------------------------------------------

WorkerStep(w) ==
    \/ Dequeue(w) \/ PollEmpty(w) \/ DequeueLost(w) \/ WorkerStops(w)
    \/ WatchStatus(w) \/ HandlerReturns(w)
    \/ CheckStatus(w) \/ CheckStatusFails(w)
    \/ Ack(w) \/ NackRead(w) \/ NackWrite(w) \/ ReportFails(w)

ClientStep ==
    \/ \E j \in Jobs : Enqueue(j)
    \/ \E r \in Requests : CancelUpdate(r) \/ \E j \in Jobs : CancelStatus(r, j)

Next ==
    \/ \E w \in Workers : WorkerStep(w)
    \/ \E j \in Jobs : Heartbeat(j)
    \/ ClientStep
    \/ Shutdown \/ Exit \/ Crash \/ Restart \/ Tick

Spec == Init /\ [][Next]_vars

\* Handlers honour their context; all but the Hanging jobs' also end on their
\* own.  Goroutines are scheduled, statements end, time passes and the
\* process is restarted.  Nothing forces a fault, a stop or a client.  Tick is
\* strongly fair: between two heartbeats time has room to pass, however often
\* the watchers tick.
HandlerEnds(w) == (job[w] \notin Hanging \/ Cancelled(w)) /\ HandlerReturns(w)

Fairness ==
    /\ \A w \in Workers :
          /\ WF_vars(Dequeue(w))
          /\ WF_vars(phase = "up" /\ WatchStatus(w))
          /\ WF_vars(HandlerEnds(w))
          /\ WF_vars(CheckStatus(w))
          /\ WF_vars(Ack(w) \/ NackRead(w) \/ NackWrite(w))
          /\ WF_vars(WorkerStops(w))
    /\ \A j \in Jobs : WF_vars(Heartbeat(j))
    /\ WF_vars(Exit) /\ WF_vars(Restart) /\ SF_vars(Tick)

FairSpec == Spec /\ Fairness

-----------------------------------------------------------------------------
(* Properties.                                                             *)

\* Every variable stays in its type: a worker at rest holds no job, an active
\* one holds exactly one, a request has a target exactly between its two statements, and a process
\* that is down has no goroutine.
TypeOK ==
    /\ status \in [Jobs -> Status]
    /\ attempts \in [Jobs -> Nat]
    /\ wait \in [Jobs -> Nat]
    /\ age \in [Jobs -> 0..StaleAfter]
    /\ pc \in [Workers -> Idle \union Active]
    /\ job \in [Workers -> Jobs \union {NoJob}]
    /\ \A w \in Workers : pc[w] \in Active <=> job[w] \in Jobs
    /\ seen \in [Workers -> Nat]
    /\ ctxDone \subseteq {w \in Workers : pc[w] \in Active}
    /\ quiet \in [Workers -> 0..StaleAfter]
    /\ beats \subseteq Jobs
    /\ request \in [Requests -> {"new", "read"} \union Answers]
    /\ target \in [Requests -> Jobs \union {NoJob}]
    /\ \A r \in Requests : request[r] = "read" <=> target[r] \in Jobs
    /\ phase \in {"up", "draining", "down"}
    /\ phase = "down" => \A w \in Workers : pc[w] = "stopped"
    /\ stops \in Nat
    /\ faults \in Nat
    /\ lost \in [Jobs -> Nat]

\* No two workers ever process the same job: a lease passes on only when its
\* holder has reported, or has died, through crashes, lost writes, late
\* heartbeats and cancels (Dequeue's stale-lease clause against the watcher).
OneRunner ==
    \A v, w \in Workers : \A j \in Jobs : Holds(v, j) /\ Holds(w, j) => v = w

\* A job waits for another run only while it has attempts left, and is dead
\* (failed) only once it has none: what Nack decided on the attempts it read
\* is still right when its second statement writes the decision.
RetryBudget ==
    \A j \in Jobs :
        /\ status[j] = "queued" => attempts[j] < MaxAttempts
        /\ status[j] = "failed" => attempts[j] >= MaxAttempts

\* A job is run more often than max_attempts allows only as often as a run of
\* it ended without a report (a crash, a statement that failed).
AttemptsAccounted == \A j \in Jobs : attempts[j] <= MaxAttempts + lost[j]

\* A job somebody runs is leased or cancelled, and its lease is fresh: as old
\* as its worker has been quiet, unless a heartbeat is about to renew it.  Only
\* a worker of a draining process, which leases nothing, may outlive its lease.
HeldIsLeased ==
    \A w \in Workers : \A j \in Jobs : Holds(w, j) =>
        /\ status[j] = "cancelled" \/ (status[j] = "running" /\ w \notin ctxDone)
        /\ status[j] = "running" =>
              /\ phase = "up" => age[j] < StaleAfter
              /\ j \in beats \/ age[j] <= quiet[w]

\* Between Nack's statements the attempts it read are the row's.
NackReadsHold ==
    \A w \in Workers : pc[w] = "nackWrite" => seen[w] = attempts[job[w]]

\* A lease nobody holds was lost, and the loss is on the account.
OrphanAccounted ==
    \A j \in Jobs : status[j] = "running" /\ ~Held(j) => attempts[j] < MaxAttempts + lost[j]

\* The invariant the proofs carry: what the three invariants above need
\* beyond themselves to survive each step.
LeaseInv ==
    /\ OneRunner /\ RetryBudget /\ AttemptsAccounted
    /\ HeldIsLeased /\ NackReadsHold /\ OrphanAccounted

\* A job that has succeeded or failed keeps that status: no late Nack, Ack,
\* heartbeat, lease or cancel touches it (Nack's UPDATE has no status guard).
FinishedIsFinal ==
    [][\A j \in Jobs : status[j] \in {"succeeded", "failed"} => status'[j] = status[j]]_vars

\* The one thing that undoes a cancellation is the second statement of a Nack,
\* which looks at no status: its worker checked the status before the cancel was
\* written, or failed to read it (processJob).
CancelUndoneOnlyByLateNack ==
    [][\A j \in Jobs :
          status[j] = "cancelled" /\ status'[j] # "cancelled"
             => \E w \in Workers : pc[w] = "nackWrite" /\ job[w] = j]_vars

\* The queue implements its abstract life cycle: the job's state, the
\* attempts it has used and the set of workers that run it.
RunnersOf(j) == {w \in Workers : Holds(w, j)}
Runners      == [j \in Jobs |-> RunnersOf(j)]

Lifecycle == INSTANCE JobLifecycle
                WITH state <- status, tries <- attempts, runners <- Runners

ImplementsLifecycle == Lifecycle!LSpec

\* Every job whose handler ends is settled in the end, whatever crashes,
\* faults and shutdowns come first, even when another job's handler hangs.
EverySubmittedJobSettles ==
    \A j \in Jobs \ Hanging : (status[j] # "absent") ~> (status[j] \in Settled)

\* Cooperative cancellation: the workers of cancelled jobs let go of them in
\* the end, even if the handlers would never have ended on their own.
CancelledHeld == \E w \in Workers, j \in Jobs : status[j] = "cancelled" /\ Holds(w, j)

CancelFreesWorker == CancelledHeld ~> ~CancelledHeld

\* A shutdown ends: hanging handlers see the pool's context end, every worker
\* reports and stops, and the process exits.
DrainEnds == (phase = "draining") ~> (phase = "down")

\* What the API says of a cancel (openapi: cancels a queued or running job;
\* jobs/http.go: a terminal job), taken as a promise: cancelled is final.
CancelIsFinal ==
    [][\A j \in Jobs : status[j] = "cancelled" => status'[j] = "cancelled"]_vars

=============================================================================
