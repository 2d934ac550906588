--------------------------- MODULE BrowserProfiles ---------------------------
(***************************************************************************)
(* The chromedp browser provider (internal/platform/browser/chromedp) seen *)
(* from ONE domain: the lease on its profile directory, the Chromium that  *)
(* holds the directory open, the sessions, the FlareSolverr fallback and   *)
(* the cookies shared between sessions; with its callers: the page loop of *)
(* the extraction job and the unit import (internal/jobs/extract.go,       *)
(* chapter_import.go) and the verification of a hand-off                   *)
(* (challenge_handler.go).  The provider's mutex covers single reads and   *)
(* writes only; everything between two of them interleaves.                *)
(* Operators named Bug_... are plausible mistakes in the operator they     *)
(* precede; no specification uses them.                                    *)
(*                                                                         *)
(* Abstracted: the cookies are one cookie, the site's login, as a version  *)
(* number (0: none); what a page shows, and whether a call fails, is any   *)
(* outcome; FlareSolverr answers with the cookie it was sent.              *)
(***************************************************************************)
EXTENDS Integers

CONSTANTS LoginJobs,   \* jobs with requires_login, which drive Chromium
          SolverJobs,  \* jobs that read the public site through FlareSolverr
          Verifiers,   \* clients of POST /challenges/{token}/complete
          NoJob,
          MaxPages,    \* bound: pages and units a job opens
          MaxLogins    \* bound: logins the user performs

ASSUME ProfilesAssumption ==
    /\ LoginJobs \intersect SolverJobs = {}
    /\ Verifiers \intersect (LoginJobs \union SolverJobs) = {}
    /\ NoJob \notin LoginJobs
    /\ MaxPages \in Nat \ {0}
    /\ MaxLogins \in Nat

Jobs    == LoginJobs \union SolverJobs
Callers == LoginJobs \union Verifiers  \* who takes snapshots of Chromium

VARIABLES
    \* the lease: a channel of capacity one
    full,       \* the channel holds its element
    owes,       \* jobs that hold a release closure they have not run
    \* jobs
    pc,         \* pc[j]: where j is
    plan,       \* plan[j]: "open" (an ordinary page), "reopen" (the page a user
                \* has just cleared) or "end" (j ends when it has cleaned up)
    left,       \* left[j]: pages j may still open
    ctxDone,    \* jobs whose context is done
    verified,   \* verified[j]: the cookie of j's last verified session
    \* sessions, each named by its job
    alive,      \* jobs whose Chromium has the profile directory open
    sessions,   \* jobs with an entry in the sessions map
    attempted,  \* jobs whose session has used its solver attempt
    \* Snapshot calls
    snap,       \* snap[c]: where the call of c is
    on,         \* on[v]: the session v verifies while its Chromium lives
    val,        \* val[c]: the cookie c sent to the solver, or captured
    \* cookies
    jar,        \* in the profile directory, through the Chromium using it
    shared,     \* in the provider's memory
    issued      \* logins performed

lease   == <<full, owes>>
course  == <<plan, left>>
browser == <<alive, sessions, attempted>>
call    == <<snap, on, val>>
cookies == <<jar, shared>>
vars == <<lease, pc, course, ctxDone, verified, browser, call, cookies, issued>>

Outside   == {"navigate", "blocked", "fetch", "done"}
InProfile == {"start", "load", "fallback", "merge", "snapshot", "handoff",
              "close", "quit", "release"}

Init ==
    /\ full = FALSE
    /\ owes = {}
    /\ pc = [j \in Jobs |-> "navigate"]
    /\ plan = [j \in Jobs |-> "open"]
    /\ left = [j \in Jobs |-> MaxPages - 1]
    /\ ctxDone = {}
    /\ verified = [j \in LoginJobs |-> 0]
    /\ alive = {}
    /\ sessions = {}
    /\ attempted = {}
    /\ snap = [c \in Callers |-> "off"]
    /\ on = [v \in Verifiers |-> NoJob]
    /\ val = [c \in Callers \union SolverJobs |-> 0]
    /\ jar = 0
    /\ shared = 0
    /\ issued = 0

At(j, here)   == pc[j] = here
Goto(j, here) == pc' = [pc EXCEPT ![j] = here]
Call(c, here) == snap' = [snap EXCEPT ![c] = here]

\* applyCookiesToChromium and mergeProfileState: a cookie overwrites the one of
\* its name, and none leaves it alone.
Over(new, old) == IF new = 0 THEN old ELSE new

\* The caller gives up, or goes on with its next page or unit.
GoesOn(j) ==
    \/ plan' = [plan EXCEPT ![j] = "end"] /\ UNCHANGED left
    \/ /\ left[j] > 0
       /\ plan' = [plan EXCEPT ![j] = "open"]
       /\ left' = [left EXCEPT ![j] = @ - 1]

\* Where a job whose course is p goes after it has left the profile.
After(p) == IF p = "end" THEN "done" ELSE "navigate"

-----------------------------------------------------------------------------
(* acquireProfile, and the closure it returns.                             *)

Blocked == {j \in LoginJobs : pc[j] = "blocked"}

Acquire(j) ==
    /\ At(j, "navigate")
    /\ ~full
    /\ full' = TRUE
    /\ owes' = owes \union {j}
    /\ Goto(j, "start")
    /\ UNCHANGED <<course, ctxDone, verified, browser, call, cookies, issued>>

Block(j) ==
    /\ At(j, "navigate")
    /\ full
    /\ Goto(j, "blocked")
    /\ UNCHANGED <<lease, course, ctxDone, verified, browser, call, cookies, issued>>

\* The context is done first (or wins the select when both are ready): Navigate
\* fails without a lease.
GiveUp(j) ==
    /\ pc[j] \in {"navigate", "blocked"}
    /\ j \in ctxDone
    /\ GoesOn(j)
    /\ Goto(j, After(plan'[j]))
    /\ UNCHANGED <<lease, ctxDone, verified, browser, call, cookies, issued>>

\* The channel is drained although a sender has just been let in.
Bug_Release(j) ==
    /\ At(j, "release")
    /\ owes' = owes \ {j}
    /\ full' = FALSE
    /\ Goto(j, After(plan[j]))
    /\ UNCHANGED <<course, ctxDone, verified, browser, call, cookies, issued>>

\* Receiving the element lets a blocked sender put its own in at once: the lease
\* passes on without the channel ever being empty.
Release(j) ==
    /\ At(j, "release")
    /\ \/ /\ Blocked = {}
          /\ full' = FALSE
          /\ owes' = owes \ {j}
          /\ Goto(j, After(plan[j]))
       \/ \E k \in Blocked :
             /\ owes' = (owes \ {j}) \union {k}
             /\ pc' = [pc EXCEPT ![j] = After(plan[j]), ![k] = "start"]
             /\ UNCHANGED full
    /\ UNCHANGED <<course, ctxDone, verified, browser, call, cookies, issued>>

-----------------------------------------------------------------------------
(* Navigate with requires_login.                                           *)

\* Chromium starts on the profile directory, and the shared cookie is set in it.
Start(j) ==
    /\ At(j, "start")
    /\ j \notin ctxDone
    /\ alive' = alive \union {j}
    /\ jar' = Over(shared, jar)
    /\ Goto(j, "load")
    /\ UNCHANGED <<lease, course, ctxDone, verified, sessions, attempted, call, shared, issued>>

\* The error return releases the profile while Chromium is still going down.
Bug_StartFails(j) ==
    /\ At(j, "start")
    /\ alive' = alive \union {j}
    /\ jar' \in {jar, Over(shared, jar)}
    /\ GoesOn(j)
    /\ Goto(j, "release")
    /\ UNCHANGED <<lease, ctxDone, verified, sessions, attempted, call, shared, issued>>

\* Chromium does not start, or refuses a cookie: cancelSession and the deferred
\* release follow, as they do after CloseSession has removed a session.
StartFails(j) ==
    /\ At(j, "start")
    /\ alive' = alive \union {j}
    /\ jar' \in {jar, Over(shared, jar)}
    /\ GoesOn(j)
    /\ Goto(j, "quit")
    /\ UNCHANGED <<lease, ctxDone, verified, sessions, attempted, call, shared, issued>>

\* The new session enters the map; the caller's Snapshot comes next.
Register(j) ==
    /\ sessions' = sessions \union {j}
    /\ Goto(j, "snapshot")
    /\ Call(j, "look")

Load(j) ==
    /\ At(j, "load")
    /\ j \notin ctxDone
    /\ Register(j)
    /\ attempted' = attempted \ {j}
    /\ UNCHANGED <<lease, course, ctxDone, verified, alive, on, val, cookies, issued>>

\* The page does not load: FlareSolverr is sent the shared cookie.
LoadFails(j) ==
    /\ At(j, "load")
    /\ val' = [val EXCEPT ![j] = shared]
    /\ Goto(j, "fallback")
    /\ UNCHANGED <<lease, course, ctxDone, verified, browser, snap, on, cookies, issued>>

FallbackAnswers(j) ==
    /\ At(j, "fallback")
    /\ j \notin ctxDone
    /\ jar' = Over(val[j], jar)
    /\ Goto(j, "merge")
    /\ UNCHANGED <<lease, course, ctxDone, verified, browser, call, shared, issued>>

\* No answer, or the document that came with the cookie cannot be set.
FallbackFails(j) ==
    /\ At(j, "fallback")
    /\ jar' \in {jar, Over(val[j], jar)}
    /\ GoesOn(j)
    /\ Goto(j, "quit")
    /\ UNCHANGED <<lease, ctxDone, verified, browser, call, shared, issued>>

FallbackMerges(j) ==
    /\ At(j, "merge")
    /\ shared' = Over(val[j], shared)
    /\ Register(j)
    /\ attempted' = attempted \union {j}
    /\ UNCHANGED <<lease, course, ctxDone, verified, alive, on, val, jar, issued>>

-----------------------------------------------------------------------------
(* Snapshot, called by the job or by a verifier.                           *)

\* The job whose session c looked up; NoJob once its Chromium has gone.
Of(c) == IF c \in Verifiers THEN on[c] ELSE c

\* Chromium still answers c.
Usable(c) == Of(c) \in alive \ ctxDone

\* The page is read; nothing calls for the solver, or its attempt is used up.
SnapLooks(c) ==
    /\ snap[c] = "look"
    /\ Usable(c)
    /\ Call(c, "capture")
    /\ UNCHANGED <<lease, pc, course, ctxDone, verified, browser, on, val, cookies, issued>>

\* The attempt is charged to the caller, not to the session: every verification
\* of a session has one of its own.
Bug_SnapAsksSolver(c) ==
    /\ snap[c] = "look"
    /\ Of(c) # NoJob
    /\ c \notin attempted
    /\ attempted' = attempted \union {c}
    /\ val' = [val EXCEPT ![c] = shared]
    /\ Call(c, "solver")
    /\ UNCHANGED <<lease, pc, course, ctxDone, verified, alive, sessions, on, cookies, issued>>

SnapAsksSolver(c) ==
    /\ snap[c] = "look"
    /\ Of(c) # NoJob
    /\ Of(c) \notin attempted
    /\ attempted' = attempted \union {Of(c)}
    /\ val' = [val EXCEPT ![c] = shared]
    /\ Call(c, "solver")
    /\ UNCHANGED <<lease, pc, course, ctxDone, verified, alive, sessions, on, cookies, issued>>

\* The solver's answer is applied to Chromium; when its document cannot be set
\* the cookie is not shared.
SnapSolved(c) ==
    /\ snap[c] = "solver"
    /\ Usable(c)
    /\ jar' = Over(val[c], jar)
    /\ Call(c, "merge") \/ Call(c, "capture")
    /\ UNCHANGED <<lease, pc, course, ctxDone, verified, browser, on, val, shared, issued>>

\* The solver fails, and the page that was read first is kept.
SnapUnsolved(c) ==
    /\ snap[c] = "solver"
    /\ Call(c, "capture")
    /\ UNCHANGED <<lease, pc, course, ctxDone, verified, browser, on, val, cookies, issued>>

SnapMerges(c) ==
    /\ snap[c] = "merge"
    /\ shared' = Over(val[c], shared)
    /\ Call(c, "capture")
    /\ UNCHANGED <<lease, pc, course, ctxDone, verified, browser, on, val, jar, issued>>

SnapCaptures(c) ==
    /\ snap[c] = "capture"
    /\ Usable(c)
    /\ val' = [val EXCEPT ![c] = jar]
    /\ Call(c, "replace")
    /\ UNCHANGED <<lease, pc, course, ctxDone, verified, browser, on, cookies, issued>>

\* Captured cookies are merged under those already shared.
Bug_SnapReplaces(c) ==
    /\ snap[c] = "replace"
    /\ shared' = Over(shared, val[c])
    /\ Call(c, "ok") \/ Call(c, "failed")
    /\ UNCHANGED <<lease, pc, course, ctxDone, verified, browser, on, val, jar, issued>>

\* replaceProfileState; an empty document is still an error.
SnapReplaces(c) ==
    /\ snap[c] = "replace"
    /\ shared' = val[c]
    /\ Call(c, "ok") \/ Call(c, "failed")
    /\ UNCHANGED <<lease, pc, course, ctxDone, verified, browser, on, val, jar, issued>>

\* Chromium or its context fails the call, or the caller's own context does.
SnapFails(c) ==
    /\ snap[c] \in {"look", "solver", "capture"}
    /\ Call(c, "failed")
    /\ UNCHANGED <<lease, pc, course, ctxDone, verified, browser, on, val, cookies, issued>>

Snapshot(c) ==
    \/ SnapLooks(c) \/ SnapAsksSolver(c) \/ SnapSolved(c) \/ SnapUnsolved(c)
    \/ SnapMerges(c) \/ SnapCaptures(c) \/ SnapReplaces(c) \/ SnapFails(c)

-----------------------------------------------------------------------------
(* What the job does with its snapshot; CloseSession.                      *)

\* The page asks for a user, and the job opens a challenge.
HandsOff(j) ==
    /\ At(j, "snapshot")
    /\ snap[j] = "ok"
    /\ plan[j] = "open"
    /\ Goto(j, "handoff")
    /\ Call(j, "off")
    /\ UNCHANGED <<lease, course, ctxDone, verified, browser, on, val, cookies, issued>>

\* A failed Snapshot returns without CloseSession.
Bug_Leaves(j) ==
    /\ At(j, "snapshot")
    /\ snap[j] \in {"ok", "failed"}
    /\ GoesOn(j)
    /\ Goto(j, IF snap[j] = "ok" THEN "close" ELSE After(plan'[j]))
    /\ Call(j, "off")
    /\ UNCHANGED <<lease, ctxDone, verified, browser, on, val, cookies, issued>>

\* The page is taken, or the job fails: the session is closed first either way.
Leaves(j) ==
    /\ At(j, "snapshot")
    /\ snap[j] \in {"ok", "failed"}
    /\ GoesOn(j)
    /\ Goto(j, "close")
    /\ Call(j, "off")
    /\ UNCHANGED <<lease, ctxDone, verified, browser, on, val, cookies, issued>>

\* The challenge expires or is cancelled, or the job's context is done.
WaitFails(j) ==
    /\ At(j, "handoff")
    /\ plan' = [plan EXCEPT ![j] = "end"]
    /\ Goto(j, "close")
    /\ UNCHANGED <<lease, left, ctxDone, verified, browser, call, cookies, issued>>

\* A session without Chromium stays in the map.
Bug_Close(j) ==
    /\ At(j, "close")
    /\ sessions' = IF j \in LoginJobs THEN sessions \ {j} ELSE sessions
    /\ Goto(j, IF j \in LoginJobs THEN "quit" ELSE After(plan[j]))
    /\ UNCHANGED <<lease, course, ctxDone, verified, alive, attempted, call, cookies, issued>>

Close(j) ==
    /\ At(j, "close")
    /\ sessions' = sessions \ {j}
    /\ Goto(j, IF j \in LoginJobs THEN "quit" ELSE After(plan[j]))
    /\ UNCHANGED <<lease, course, ctxDone, verified, alive, attempted, call, cookies, issued>>

\* Chromium is closed, gracefully or not, and its context with it; when it did
\* not close gracefully the job ends instead of reopening the page.
Quit(j) ==
    /\ At(j, "quit")
    /\ alive' = alive \ {j}
    /\ on' = [v \in Verifiers |-> IF on[v] = j THEN NoJob ELSE on[v]]
    /\ \/ UNCHANGED plan
       \/ plan[j] = "reopen" /\ plan' = [plan EXCEPT ![j] = "end"]
    /\ Goto(j, "release")
    /\ UNCHANGED <<lease, left, ctxDone, verified, sessions, attempted, snap, val, cookies, issued>>

-----------------------------------------------------------------------------
(* A verification of the hand-off.                                         *)

\* The manager lets one verification of a challenge run at a time.
Verify(v, j) ==
    /\ snap[v] = "off"
    /\ At(j, "handoff")
    /\ \A w \in Verifiers : on[w] # j
    /\ on' = [on EXCEPT ![v] = j]
    /\ Call(v, "look")
    /\ UNCHANGED <<lease, pc, course, ctxDone, verified, browser, val, cookies, issued>>

\* The page asks for nothing and the challenge is still open: the job resumes.
Resolves(v) ==
    /\ snap[v] = "ok"
    /\ on[v] # NoJob
    /\ At(on[v], "handoff")
    /\ plan' = [plan EXCEPT ![on[v]] = "reopen"]
    /\ verified' = [verified EXCEPT ![on[v]] = val[v]]
    /\ Goto(on[v], "close")
    /\ Call(v, "off")
    /\ on' = [on EXCEPT ![v] = NoJob]
    /\ UNCHANGED <<lease, left, ctxDone, browser, val, cookies, issued>>

Rejects(v) ==
    /\ snap[v] \in {"ok", "failed"}
    /\ Call(v, "off")
    /\ on' = [on EXCEPT ![v] = NoJob]
    /\ UNCHANGED <<lease, pc, course, ctxDone, verified, browser, val, cookies, issued>>

-----------------------------------------------------------------------------
(* Jobs that read the public site: navigateWithSolver.                     *)

FetchBegins(j) ==
    /\ At(j, "navigate")
    /\ val' = [val EXCEPT ![j] = shared]
    /\ Goto(j, "fetch")
    /\ UNCHANGED <<lease, course, ctxDone, verified, browser, snap, on, cookies, issued>>

\* Its Snapshot returns the stored page, so the job's next call is CloseSession.
FetchEnds(j) ==
    /\ At(j, "fetch")
    /\ j \notin ctxDone
    /\ shared' = Over(val[j], shared)
    /\ sessions' = sessions \union {j}
    /\ GoesOn(j)
    /\ Goto(j, "close")
    /\ UNCHANGED <<lease, ctxDone, verified, alive, attempted, call, jar, issued>>

FetchFails(j) ==
    /\ At(j, "fetch")
    /\ GoesOn(j)
    /\ Goto(j, After(plan'[j]))
    /\ UNCHANGED <<lease, ctxDone, verified, browser, call, cookies, issued>>

-----------------------------------------------------------------------------
(* The environment.                                                        *)

UserLogsIn(j) ==
    /\ At(j, "handoff")
    /\ j \in alive \ ctxDone
    /\ issued < MaxLogins
    /\ issued' = issued + 1
    /\ jar' = issued + 1
    /\ UNCHANGED <<lease, pc, course, ctxDone, verified, browser, call, shared>>

\* The job is cancelled, or the pool shuts down.
ContextEnds(j) ==
    /\ pc[j] # "done"
    /\ ctxDone' = ctxDone \union {j}
    /\ UNCHANGED <<lease, pc, course, verified, browser, call, cookies, issued>>

LoginStep(j) ==
    \/ Acquire(j) \/ Block(j) \/ GiveUp(j) \/ Release(j)
    \/ Start(j) \/ StartFails(j) \/ Load(j) \/ LoadFails(j)
    \/ FallbackAnswers(j) \/ FallbackFails(j) \/ FallbackMerges(j)
    \/ Snapshot(j) \/ HandsOff(j) \/ Leaves(j) \/ WaitFails(j)
    \/ Close(j) \/ Quit(j)

SolverStep(j) == FetchBegins(j) \/ FetchEnds(j) \/ FetchFails(j) \/ Close(j)

VerifierStep(v) ==
    \/ \E j \in LoginJobs : Verify(v, j)
    \/ Snapshot(v) \/ Resolves(v) \/ Rejects(v)

Environment ==
    \/ \E j \in LoginJobs : UserLogsIn(j)
    \/ \E j \in Jobs : ContextEnds(j)

Next ==
    \/ \E j \in LoginJobs : LoginStep(j)
    \/ \E j \in SolverJobs : SolverStep(j)
    \/ \E v \in Verifiers : VerifierStep(v)
    \/ Environment

Spec == Init /\ [][Next]_vars

\* Every call of a job returns: Navigate and the solver have deadlines, a
\* challenge expires, and Chromium is assumed to answer.  Nothing is assumed of
\* users, of cancellations or of verifications.
Fairness ==
    /\ \A j \in LoginJobs : WF_vars(LoginStep(j))
    /\ \A j \in SolverJobs : WF_vars(SolverStep(j))

FairSpec == Spec /\ Fairness

-----------------------------------------------------------------------------
(* Properties.                                                             *)

Points == Outside \union InProfile

Version == 0..MaxLogins

\* Every variable has its type.
TypeOK ==
    /\ full \in BOOLEAN
    /\ owes \in SUBSET LoginJobs
    /\ pc \in [Jobs -> Points]
    /\ plan \in [Jobs -> {"open", "reopen", "end"}]
    /\ left \in [Jobs -> 0..(MaxPages - 1)]
    /\ ctxDone \in SUBSET Jobs
    /\ verified \in [LoginJobs -> Version]
    /\ alive \in SUBSET LoginJobs
    /\ sessions \in SUBSET Jobs
    /\ attempted \in SUBSET LoginJobs
    /\ snap \in [Callers -> {"off", "look", "solver", "merge", "capture", "replace",
                             "ok", "failed"}]
    /\ on \in [Verifiers -> LoginJobs \union {NoJob}]
    /\ val \in [Callers \union SolverJobs -> Version]
    /\ jar \in Version /\ shared \in Version /\ issued \in Version

\* The lease says the truth about the profile directory: the channel is full
\* exactly when one job owes a release, that job is between acquireProfile and
\* the release, nobody is blocked on an empty channel, and only the job that
\* owes the release has Chromium running (acquireProfile, provider.go; every
\* error return of Navigate and every CloseSession of the callers).  A session
\* is in the map only while its job can still close it.
LeaseInv ==
    /\ full <=> owes # {}
    /\ \A j, k \in owes : j = k
    /\ \A j \in LoginJobs : j \in owes <=> pc[j] \in InProfile
    /\ Blocked # {} => full
    /\ \A j \in alive : pc[j] \in InProfile \ {"start", "release"}
    /\ \A j \in sessions : pc[j] \in {"snapshot", "handoff", "close"}

\* A job that is between two pages, or that has ended whatever way, has left
\* nothing behind: no lease, no Chromium and no entry in the sessions map.
NothingLeaks ==
    \A j \in Jobs : pc[j] \in Outside => j \notin owes \union alive \union sessions

\* One Chromium at a time opens the profile directory, and it has left before
\* the next one does.
Exclusive == INSTANCE ExclusiveUse WITH Jobs <- LoginJobs, users <- alive
OneBrowserAtATime == Exclusive!Spec

\* The page reopened after a hand-off is requested with the session that the
\* user verified, or a later one (extract.go: "reopen the exact requested URL
\* with the same domain profile", "Reopening the requested page with the
\* verified session...").
ReopensVerified ==
    \A j \in LoginJobs :
        plan[j] = "reopen" /\ j \in alive /\ pc[j] \in {"load", "snapshot"}
            => jar >= verified[j]

\* Every job ends, however its calls fail and whoever is cancelled: no job waits
\* forever for a lease that its holder will not release (acquireProfile blocks
\* until the lease is free or the job is cancelled, and nobody need cancel it).
EveryJobEnds == \A j \in Jobs : <>(pc[j] = "done")

=============================================================================
