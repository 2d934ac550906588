----------------------------- MODULE Challenges -----------------------------
(***************************************************************************)
(* The human hand-off of a browser session: the ChallengeManager           *)
(* (internal/platform/browser/challenge.go), the HTTP and WebSocket        *)
(* handlers that use it (internal/jobs/challenge_handler.go) and the part  *)
(* of the extraction handler that opens, awaits and ends a challenge       *)
(* (internal/jobs/extract.go).  Every method of the manager runs under its *)
(* mutex and is one step; what its callers do between two calls            *)
(* interleaves.  All of it lives in memory and dies with the process.      *)
(* Operators named Bug_... are plausible mistakes in the operator they     *)
(* precede; no specification uses them.                                    *)
(*                                                                         *)
(* Abstracted: a token is created once, for one browser session, so the    *)
(* session is named by its token; the page is cleared or still asks; the   *)
(* kind of user action, the frames and the input events are left out.      *)
(***************************************************************************)
EXTENDS Integers

CONSTANTS Tokens,       \* the challenges that jobs may open
          Verifiers,    \* clients of POST .../complete, one request at a time
          Controllers,  \* WebSocket clients
          NoToken       \* what an idle verifier or controller holds

ASSUME ChallengesAssumption == NoToken \notin Tokens

VARIABLES
    \* the manager's map
    status,     \* status[t]; "none" when the map has no such token
    connected,  \* the tokens whose connected flag is set
    closed,     \* the tokens whose done channel is closed
    clock,      \* clock[t]: "valid", "late" (expiresAt is past) or "stale"
                \* (past by more than the ttl)
    \* the jobs that await a challenge
    waiter,     \* waiter[t]: where the job that opened t is
    result,     \* result[t]: what its Wait returned
    ctxDone,    \* tokens whose job's context is done
    session,    \* tokens whose browser session is open
    cleared,    \* tokens whose page asks for nothing any more
    \* requests
    vpc, vtok,  \* where a complete request is, and its token
    ctok,       \* ctok[k]: the token the WebSocket k controls, or NoToken
    \* history: what clients were told
    accepted,   \* tokens whose completion was answered 200
    dropped     \* tokens whose cancellation was answered 204

book     == <<status, connected, closed>>
jobs     == <<waiter, result, ctxDone, session>>
requests == <<vpc, vtok, ctok>>
told     == <<accepted, dropped>>
vars     == <<book, clock, jobs, cleared, requests, told>>

Open     == {"pending", "verifying"}
Terminal == {"completed", "cancelled", "expired"}
Status   == {"none"} \union Open \union Terminal
Results  == {"none", "ok", "expired", "cancelled", "context", "missing"}

\* A job before, in and after Wait: "onContext", "onTimer" and "onDone" are the
\* branches of its select, "leave" and "close" what follows Wait.
Awaiting == {"created", "waiting", "onContext", "onTimer", "onDone"}
Waiter   == {"before"} \union Awaiting \union {"leave", "close", "gone"}

Init ==
    /\ status = [t \in Tokens |-> "none"]
    /\ connected = {}
    /\ closed = {}
    /\ clock = [t \in Tokens |-> "valid"]
    /\ waiter = [t \in Tokens |-> "before"]
    /\ result = [t \in Tokens |-> "none"]
    /\ ctxDone = {}
    /\ session = {}
    /\ cleared = {}
    /\ vpc = [v \in Verifiers |-> "idle"]
    /\ vtok = [v \in Verifiers |-> NoToken]
    /\ ctok = [k \in Controllers |-> NoToken]
    /\ accepted = {}
    /\ dropped = {}

-----------------------------------------------------------------------------
(* challenge.finish and lookupLocked.                                      *)

\* The channel closes but the status can still change.
Bug_Finish(t, s) ==
    /\ status' = [status EXCEPT ![t] = IF @ = "verifying" THEN @ ELSE s]
    /\ connected' = connected \ {t}
    /\ closed' = closed \union {t}

Finish(t, s) ==
    /\ status' = [status EXCEPT ![t] = s]
    /\ connected' = connected \ {t}
    /\ closed' = closed \union {t}

\* The next lookup of t finds it open and late, and finishes it as expired.
Expires(t) == status[t] \in Open /\ clock[t] # "valid"

Expire(t) == Expires(t) /\ Finish(t, "expired")

\* A lookup that finds t, or not, without changing it.
Find(t, S) == ~Expires(t) /\ status[t] \in S

-----------------------------------------------------------------------------
(* The job that opens a challenge.                                         *)

\* Create, which first drops the finished tokens that are stale.
Create(t) ==
    /\ waiter[t] = "before"
    /\ status' = [s \in Tokens |->
                    IF s = t THEN "pending"
                    ELSE IF status[s] \in Terminal /\ clock[s] = "stale" THEN "none"
                    ELSE status[s]]
    /\ connected' = {s \in connected : status'[s] # "none"}
    /\ waiter' = [waiter EXCEPT ![t] = "created"]
    /\ session' = session \union {t}
    /\ UNCHANGED <<closed, clock, result, ctxDone, cleared, requests, told>>

Return(t, r) ==
    /\ result' = [result EXCEPT ![t] = r]
    /\ waiter' = [waiter EXCEPT ![t] = "leave"]

\* Wait's first lookup: a challenge that is finished, but not expired, still
\* goes to the select, where its channel is closed.
WaitBegins(t) ==
    /\ waiter[t] = "created"
    /\ \/ Expire(t) /\ Return(t, "expired")
       \/ Find(t, {"expired"}) /\ Return(t, "expired") /\ UNCHANGED book
       \/ Find(t, {"none"}) /\ Return(t, "missing") /\ UNCHANGED book
       \/ /\ Find(t, Open \union {"completed", "cancelled"})
          /\ waiter' = [waiter EXCEPT ![t] = "waiting"]
          /\ UNCHANGED <<book, result>>
    /\ UNCHANGED <<clock, ctxDone, session, cleared, requests, told>>

\* The timer is not armed.
Bug_Wakes(t) ==
    /\ waiter[t] = "waiting"
    /\ \/ t \in ctxDone /\ waiter' = [waiter EXCEPT ![t] = "onContext"]
       \/ t \in closed /\ waiter' = [waiter EXCEPT ![t] = "onDone"]
    /\ UNCHANGED <<book, clock, result, ctxDone, session, cleared, requests, told>>

\* The select takes any branch that is ready.
Wakes(t) ==
    /\ waiter[t] = "waiting"
    /\ \/ t \in ctxDone /\ waiter' = [waiter EXCEPT ![t] = "onContext"]
       \/ clock[t] # "valid" /\ waiter' = [waiter EXCEPT ![t] = "onTimer"]
       \/ t \in closed /\ waiter' = [waiter EXCEPT ![t] = "onDone"]
    /\ UNCHANGED <<book, clock, result, ctxDone, session, cleared, requests, told>>

\* Cancel overrides a completion.
Bug_Cancel(t) ==
    \/ Expire(t)
    \/ Find(t, Open \union {"completed", "cancelled"}) /\ Finish(t, "cancelled")
    \/ Find(t, {"none", "expired"}) /\ UNCHANGED book

\* The manager's Cancel: a second cancellation is accepted like the first.
Cancel(t) ==
    \/ Expire(t)
    \/ Find(t, Open \union {"cancelled"}) /\ Finish(t, "cancelled")
    \/ Find(t, {"none", "completed", "expired"}) /\ UNCHANGED book

WaitContext(t) ==
    /\ waiter[t] = "onContext"
    /\ Cancel(t)
    /\ Return(t, "context")
    /\ UNCHANGED <<clock, ctxDone, session, cleared, requests, told>>

\* The manager's expire, whatever the status has become since the timer fired.
WaitTimer(t) ==
    /\ waiter[t] = "onTimer"
    /\ IF status[t] \in Open THEN Finish(t, "expired") ELSE UNCHANGED book
    /\ Return(t, "expired")
    /\ UNCHANGED <<clock, ctxDone, session, cleared, requests, told>>

\* A closed channel means success.
Bug_WaitDone(t) ==
    /\ waiter[t] = "onDone"
    /\ Return(t, "ok")
    /\ UNCHANGED <<book, clock, ctxDone, session, cleared, requests, told>>

WaitDone(t) ==
    /\ waiter[t] = "onDone"
    /\ Return(t, CASE status[t] = "completed" -> "ok"
                   [] status[t] = "cancelled" -> "cancelled"
                   [] status[t] = "none"      -> "missing"
                   [] OTHER                   -> "expired")
    /\ UNCHANGED <<book, clock, ctxDone, session, cleared, requests, told>>

\* Remove: an open challenge is finished as cancelled and forgotten at once.
Remove(t) ==
    /\ waiter[t] = "leave"
    /\ status' = [status EXCEPT ![t] = "none"]
    /\ connected' = connected \ {t}
    /\ closed' = IF status[t] \in Open THEN closed \union {t} ELSE closed
    /\ waiter' = [waiter EXCEPT ![t] = "close"]
    /\ UNCHANGED <<clock, result, ctxDone, session, cleared, requests, told>>

\* The session is left open when the job goes on.
Bug_CloseSession(t) ==
    /\ waiter[t] = "close"
    /\ session' = IF result[t] = "ok" THEN session ELSE session \ {t}
    /\ waiter' = [waiter EXCEPT ![t] = "gone"]
    /\ UNCHANGED <<book, clock, result, ctxDone, cleared, requests, told>>

\* CloseSession ends the session whatever Wait returned; on success the job
\* then navigates to the requested page in a new one.
CloseSession(t) ==
    /\ waiter[t] = "close"
    /\ session' = session \ {t}
    /\ waiter' = [waiter EXCEPT ![t] = "gone"]
    /\ UNCHANGED <<book, clock, result, ctxDone, cleared, requests, told>>

-----------------------------------------------------------------------------
(* POST /challenges/{token}/complete.                                      *)

Answered(v) ==
    /\ vpc' = [vpc EXCEPT ![v] = "idle"]
    /\ vtok' = [vtok EXCEPT ![v] = NoToken]

\* A verification may begin while another one is under way.
Bug_BeginVerification(v, t) ==
    /\ vpc[v] = "idle"
    /\ \/ Expire(t) /\ UNCHANGED <<vpc, vtok>>
       \/ /\ Find(t, Open)
          /\ status' = [status EXCEPT ![t] = "verifying"]
          /\ UNCHANGED <<connected, closed>>
          /\ vpc' = [vpc EXCEPT ![v] = "snapshot"]
          /\ vtok' = [vtok EXCEPT ![v] = t]
    /\ UNCHANGED <<clock, jobs, cleared, ctok, told>>

\* Answers of 404, 409 and 410 change nothing, unless they find t expired.
BeginVerification(v, t) ==
    /\ vpc[v] = "idle"
    /\ \/ Expire(t) /\ UNCHANGED <<vpc, vtok>>
       \/ /\ Find(t, {"pending"})
          /\ status' = [status EXCEPT ![t] = "verifying"]
          /\ UNCHANGED <<connected, closed>>
          /\ vpc' = [vpc EXCEPT ![v] = "snapshot"]
          /\ vtok' = [vtok EXCEPT ![v] = t]
    /\ UNCHANGED <<clock, jobs, cleared, ctok, told>>

\* The browser's Snapshot: it can fail at any time (the session is closed, the
\* 15 seconds are over, the client is gone); it passes only on a page that
\* asks for nothing.
Verify(v) ==
    /\ vpc[v] = "snapshot"
    /\ \/ vtok[v] \in session \intersect cleared /\ vpc' = [vpc EXCEPT ![v] = "resolve"]
       \/ vpc' = [vpc EXCEPT ![v] = "reject"]
    /\ UNCHANGED <<book, clock, jobs, cleared, vtok, ctok, told>>

\* Reopens the challenge whatever has become of it.
Bug_RejectVerification(v) ==
    /\ vpc[v] = "reject"
    /\ LET t == vtok[v] IN
          \/ Expire(t)
          \/ Find(t, Status) /\ status' = [status EXCEPT ![t] = IF @ = "none" THEN @ ELSE "pending"]
                             /\ UNCHANGED <<connected, closed>>
    /\ Answered(v)
    /\ UNCHANGED <<clock, jobs, cleared, ctok, told>>

RejectVerification(v) ==
    /\ vpc[v] = "reject"
    /\ LET t == vtok[v] IN
          \/ Expire(t)
          \/ /\ Find(t, {"verifying"})
             /\ status' = [status EXCEPT ![t] = "pending"]
             /\ UNCHANGED <<connected, closed>>
          \/ Find(t, Status \ {"verifying"}) /\ UNCHANGED book
    /\ Answered(v)
    /\ UNCHANGED <<clock, jobs, cleared, ctok, told>>

Resolve(v) ==
    /\ vpc[v] = "resolve"
    /\ LET t == vtok[v] IN
          \/ Expire(t) /\ UNCHANGED told
          \/ /\ Find(t, {"verifying"})
             /\ Finish(t, "completed")
             /\ accepted' = accepted \union {t} /\ UNCHANGED dropped
          \/ Find(t, Status \ {"verifying"}) /\ UNCHANGED <<book, told>>
    /\ Answered(v)
    /\ UNCHANGED <<clock, jobs, cleared, ctok>>

-----------------------------------------------------------------------------
(* DELETE /challenges/{token}, the WebSocket, the status page.             *)

CancelRequest(t) ==
    /\ Cancel(t)
    /\ dropped' = IF Find(t, Open \union {"cancelled"}) THEN dropped \union {t} ELSE dropped
    /\ UNCHANGED <<clock, jobs, cleared, requests, accepted>>

\* AcquireController; refusals (404, 409, 410) change nothing unless they find
\* t expired.
AcquireController(k, t) ==
    /\ ctok[k] = NoToken
    /\ \/ Expire(t) /\ UNCHANGED ctok
       \/ /\ Find(t, {"pending"})
          /\ t \notin connected
          /\ connected' = connected \union {t}
          /\ ctok' = [ctok EXCEPT ![k] = t]
          /\ UNCHANGED <<status, closed>>
    /\ UNCHANGED <<clock, jobs, cleared, vpc, vtok, told>>

\* A socket that ends while the challenge is being verified keeps its flag.
Bug_ReleaseController(k) ==
    /\ ctok[k] # NoToken
    /\ connected' = IF status[ctok[k]] = "verifying" THEN connected ELSE connected \ {ctok[k]}
    /\ ctok' = [ctok EXCEPT ![k] = NoToken]
    /\ UNCHANGED <<status, closed, clock, jobs, cleared, vpc, vtok, told>>

\* The socket ends, for whatever reason: the flag is cleared whoever set it.
ReleaseController(k) ==
    /\ ctok[k] # NoToken
    /\ connected' = connected \ {ctok[k]}
    /\ ctok' = [ctok EXCEPT ![k] = NoToken]
    /\ UNCHANGED <<status, closed, clock, jobs, cleared, vpc, vtok, told>>

\* Get, from the status endpoint or the HTML page, matters when it finds t
\* expired.
Get(t) ==
    /\ Expire(t)
    /\ UNCHANGED <<clock, jobs, cleared, requests, told>>

-----------------------------------------------------------------------------
(* The environment.                                                        *)

\* The user, or the page itself, gets past what the page asked for.
PageClears(t) ==
    /\ t \in session \ cleared
    /\ cleared' = cleared \union {t}
    /\ UNCHANGED <<book, clock, jobs, requests, told>>

\* The job is cancelled, or the pool shuts down.
ContextEnds(t) ==
    /\ waiter[t] \in Awaiting
    /\ t \notin ctxDone
    /\ ctxDone' = ctxDone \union {t}
    /\ UNCHANGED <<book, clock, waiter, result, session, cleared, requests, told>>

Lapse(t) ==
    /\ waiter[t] # "before"
    /\ \/ clock[t] = "valid" /\ clock' = [clock EXCEPT ![t] = "late"]
       \/ clock[t] = "late" /\ clock' = [clock EXCEPT ![t] = "stale"]
    /\ UNCHANGED <<book, jobs, cleared, requests, told>>

-----------------------------------------------------------------------------

JobStep(t) ==
    \/ Create(t) \/ WaitBegins(t) \/ Wakes(t)
    \/ WaitContext(t) \/ WaitTimer(t) \/ WaitDone(t)
    \/ Remove(t) \/ CloseSession(t)

VerifierStep(v) ==
    \/ \E t \in Tokens : BeginVerification(v, t)
    \/ Verify(v) \/ RejectVerification(v) \/ Resolve(v)

ControllerStep(k) ==
    \/ \E t \in Tokens : AcquireController(k, t)
    \/ ReleaseController(k)

TokenStep(t) ==
    \/ CancelRequest(t) \/ Get(t)
    \/ PageClears(t) \/ ContextEnds(t) \/ Lapse(t)

Next ==
    \/ \E t \in Tokens : JobStep(t) \/ TokenStep(t)
    \/ \E v \in Verifiers : VerifierStep(v)
    \/ \E k \in Controllers : ControllerStep(k)

Spec == Init /\ [][Next]_vars

\* The job's goroutine is scheduled and time passes; nothing else is assumed
\* of clients, of the page or of the user.
Fairness ==
    \A t \in Tokens :
        /\ WF_vars(WaitBegins(t)) /\ WF_vars(Wakes(t))
        /\ WF_vars(WaitContext(t) \/ WaitTimer(t) \/ WaitDone(t))
        /\ WF_vars(Remove(t)) /\ WF_vars(CloseSession(t))
        /\ WF_vars(Lapse(t))

FairSpec == Spec /\ Fairness

-----------------------------------------------------------------------------
(* Properties.                                                             *)

\* Every variable stays in its type; a challenge is in the manager's map only
\* while its job awaits it or is about to remove it, a job has a result
\* exactly once its Wait is over, and its session is open until it closes it.
TypeOK ==
    /\ status \in [Tokens -> Status]
    /\ connected \subseteq Tokens
    /\ closed \subseteq Tokens
    /\ clock \in [Tokens -> {"valid", "late", "stale"}]
    /\ waiter \in [Tokens -> Waiter]
    /\ result \in [Tokens -> Results]
    /\ ctxDone \subseteq Tokens
    /\ session \subseteq Tokens
    /\ cleared \subseteq Tokens
    /\ vpc \in [Verifiers -> {"idle", "snapshot", "resolve", "reject"}]
    /\ vtok \in [Verifiers -> Tokens \union {NoToken}]
    /\ \A v \in Verifiers : vpc[v] = "idle" <=> vtok[v] = NoToken
    /\ ctok \in [Controllers -> Tokens \union {NoToken}]
    /\ accepted \subseteq Tokens
    /\ dropped \subseteq Tokens
    /\ \A t \in Tokens :
          /\ status[t] # "none" => waiter[t] \in Awaiting \union {"leave"}
          /\ result[t] # "none" <=> waiter[t] \in {"leave", "close", "gone"}
          /\ t \in session <=> waiter[t] \in Awaiting \union {"leave", "close"}

\* At most one WebSocket drives a challenge's browser session, although every
\* end of a challenge clears the flag that says so and a socket clears the
\* flag whoever set it.
OneController ==
    \A j, k \in Controllers : ctok[j] = ctok[k] /\ ctok[j] # NoToken => j = k

\* At most one verification of a challenge is under way, so none is rejected
\* or resolved on the snapshot of another.
OneVerifier ==
    \A u, v \in Verifiers : vtok[u] = vtok[v] /\ vtok[u] # NoToken => u = v

\* The connected flag is never left behind: while it is set a socket holds the
\* challenge, so a client that is refused is refused because of another.
FlagHasOwner == \A t \in connected : \E k \in Controllers : ctok[k] = t

\* A job goes on only if the page was verified and a client was told so; it
\* never goes on after a cancellation was accepted, and the clients of one
\* challenge are never told both that it was completed and that it was
\* cancelled.
OutcomeMatchesAnswers ==
    \A t \in Tokens :
        /\ result[t] = "ok" => t \in cleared \intersect accepted
        /\ t \in dropped => result[t] # "ok" /\ t \notin accepted

\* What the proofs carry: an open challenge's flag tells whether a socket
\* drives it, its status whether a verification is under way, a verification
\* about to resolve has seen a cleared page, the done channel is closed once
\* the challenge is over, and its outcome fits what clients were told.
BookKept ==
    \A t \in Tokens :
        /\ status[t] \in Open => t \notin closed \union accepted \union dropped
        /\ status[t] \in Terminal => t \in closed
        /\ status[t] \in Open =>
              \A k \in Controllers : ctok[k] = t => t \in connected
        /\ status[t] = "pending" => \A v \in Verifiers : vtok[v] # t
        /\ waiter[t] = "before" =>
              /\ t \notin closed \union accepted \union dropped
              /\ \A v \in Verifiers : vtok[v] # t
              /\ \A k \in Controllers : ctok[k] # t
        /\ status[t] = "completed" => t \in (cleared \intersect accepted) \ dropped
        /\ status[t] \in {"cancelled", "expired"} => t \notin accepted
        /\ result[t] = "ok" => status[t] \in {"completed", "none"}
        /\ \A v \in Verifiers : vpc[v] = "resolve" /\ vtok[v] = t => t \in cleared

ChallengeInv ==
    OneController /\ OneVerifier /\ FlagHasOwner /\ OutcomeMatchesAnswers /\ BookKept

\* A finished challenge keeps its outcome until it is forgotten, and no
\* request brings a forgotten one back: a late reject, cancel or expiry
\* changes nothing.
OutcomeIsFinal ==
    [][\A t \in Tokens :
          /\ status[t] \in Terminal => status'[t] \in {status[t], "none"}
          /\ status[t] = "none" /\ waiter[t] # "before" => status'[t] = "none"]_vars

\* A job never waits for good: whatever clients do or fail to do, it leaves
\* the hand-off and its browser session is closed.
EveryWaitEnds ==
    \A t \in Tokens : (waiter[t] = "created") ~> (waiter[t] = "gone" /\ t \notin session)

=============================================================================
