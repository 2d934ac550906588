---------------------------- MODULE JobLifecycle ----------------------------
(***************************************************************************)
(* What the durable job queue promises the rest of the server, with no     *)
(* clock, no heartbeat and no statement-level steps: a job is in one state *)
(* of queue.JobStatus, is run by at most one worker at a time, spends one  *)
(* attempt per run, goes back to the queue only while it has attempts left *)
(* and is given up only when it has none.  JobQueue implements it.         *)
(***************************************************************************)
EXTENDS Integers

CONSTANTS Jobs, Workers, MaxAttempts

VARIABLES state,    \* state[j]: the job's status
          tries,    \* tries[j]: the runs it has been given so far
          runners   \* runners[j]: the workers that are running it

lvars == <<state, tries, runners>>

LInit ==
    /\ state = [j \in Jobs |-> "absent"]
    /\ tries = [j \in Jobs |-> 0]
    /\ runners = [j \in Jobs |-> {}]

Submit(j) ==
    /\ state[j] = "absent"
    /\ state' = [state EXCEPT ![j] = "queued"]
    /\ tries' = [tries EXCEPT ![j] = 0]
    /\ UNCHANGED runners

\* A run starts only where no run is under way, whether the job was waiting
\* or its previous runner is gone; W = {} when the lease is taken and its
\* taker never hears of it.
Start(j, W) ==
    /\ state[j] \in {"queued", "running"}
    /\ runners[j] = {}
    /\ state' = [state EXCEPT ![j] = "running"]
    /\ tries' = [tries EXCEPT ![j] = @ + 1]
    /\ runners' = [runners EXCEPT ![j] = W]

Finish(w, j, newState) ==
    /\ runners[j] = {w}
    /\ state' = [state EXCEPT ![j] = newState]
    /\ runners' = [runners EXCEPT ![j] = {}]
    /\ UNCHANGED tries

Succeed(w, j) == state[j] = "running" /\ Finish(w, j, "succeeded")

\* The queue's Nack does not look at the status: a run that failed can put
\* back, or give up, a job that was cancelled at the last moment.
Retry(w, j) ==
    /\ state[j] \in {"running", "cancelled"}
    /\ tries[j] < MaxAttempts
    /\ Finish(w, j, "queued")

GiveUp(w, j) ==
    /\ state[j] \in {"running", "cancelled"}
    /\ tries[j] >= MaxAttempts
    /\ Finish(w, j, "failed")

CancelJob(j) ==
    /\ state[j] \in {"queued", "running"}
    /\ state' = [state EXCEPT ![j] = "cancelled"]
    /\ UNCHANGED <<tries, runners>>

\* Some runs end without reporting: the process died, the write was lost, or
\* the run found its job cancelled.
Abandon ==
    /\ \E S \in SUBSET Jobs :
          runners' = [j \in Jobs |-> IF j \in S THEN {} ELSE runners[j]]
    /\ UNCHANGED <<state, tries>>

LNext ==
    \/ Abandon
    \/ \E j \in Jobs :
          \/ Submit(j) \/ CancelJob(j)
          \/ \E W \in {{}} \union {{w} : w \in Workers} : Start(j, W)
          \/ \E w \in Workers : Succeed(w, j) \/ Retry(w, j) \/ GiveUp(w, j)

LSpec == LInit /\ [][LNext]_lvars

=============================================================================
