------------------------ MODULE BrowserProfilesProofs ------------------------
(***************************************************************************)
(* Theorems about BrowserProfiles, for every set of jobs and verifiers and *)
(* every bound.                                                            *)
(***************************************************************************)
EXTENDS BrowserProfiles, TLAPS

USE DEF At, Goto, Call

-----------------------------------------------------------------------------
(* Type correctness.                                                       *)

\* Giving up and going on keep the type of what they assign.
LEMMA GoesOnType ==
    ASSUME TypeOK, NEW j \in Jobs, GoesOn(j)
    PROVE  /\ plan' \in [Jobs -> {"open", "reopen", "end"}]
           /\ left' \in [Jobs -> 0..(MaxPages - 1)]
BY ProfilesAssumption DEF ProfilesAssumption, TypeOK, GoesOn

LEMMA LeaseType ==
    ASSUME TypeOK, NEW j \in LoginJobs,
           Acquire(j) \/ Block(j) \/ GiveUp(j) \/ Release(j)
    PROVE  TypeOK'
<1>0. j \in Jobs
  BY DEF Jobs
<1>1. CASE Acquire(j) \/ Block(j)
  BY <1>0, <1>1 DEF TypeOK, Acquire, Block, Points, Outside, InProfile,
                    lease, course, browser, call, cookies
<1>2. CASE GiveUp(j)
  BY <1>0, <1>2, GoesOnType
  DEF TypeOK, GiveUp, After, Points, Outside, InProfile, lease, browser, call, cookies
<1>3. CASE Release(j)
  <2>1. \A k \in Blocked : k \in LoginJobs /\ k \in Jobs
    BY DEF Blocked, Jobs
  <2> QED
    BY <1>0, <1>3, <2>1, ZenonT(40)
    DEF TypeOK, Release, After, Points, Outside, InProfile, course, browser, call, cookies
<1> QED
  BY <1>1, <1>2, <1>3

LEMMA NavigateType ==
    ASSUME TypeOK, NEW j \in LoginJobs,
           \/ Start(j) \/ StartFails(j) \/ Load(j) \/ LoadFails(j)
           \/ FallbackAnswers(j) \/ FallbackFails(j) \/ FallbackMerges(j)
    PROVE  TypeOK'
<1>0. j \in Jobs /\ j \in Callers /\ j \in Callers \union SolverJobs
  BY DEF Jobs, Callers
<1>1. \A a, b \in Version : Over(a, b) \in Version
  BY DEF Over
<1>2. CASE Start(j)
  BY <1>0, <1>1, <1>2
  DEF TypeOK, Start, Points, Outside, InProfile, lease, course, call
<1>3. CASE StartFails(j)
  BY <1>0, <1>1, <1>3, GoesOnType
  DEF TypeOK, StartFails, Points, Outside, InProfile, lease, call
<1>4. CASE Load(j)
  BY <1>0, <1>4
  DEF TypeOK, Load, Register, Points, Outside, InProfile, lease, course, cookies
<1>5. CASE LoadFails(j)
  BY <1>0, <1>5
  DEF TypeOK, LoadFails, Points, Outside, InProfile, lease, course, browser, cookies
<1>6. CASE FallbackAnswers(j)
  BY <1>0, <1>1, <1>6
  DEF TypeOK, FallbackAnswers, Points, Outside, InProfile, lease, course, browser, call
<1>7. CASE FallbackFails(j)
  BY <1>0, <1>1, <1>7, GoesOnType
  DEF TypeOK, FallbackFails, Points, Outside, InProfile, lease, browser, call
<1>8. CASE FallbackMerges(j)
  BY <1>0, <1>1, <1>8
  DEF TypeOK, FallbackMerges, Register, Points, Outside, InProfile, lease, course
<1> QED
  BY <1>2, <1>3, <1>4, <1>5, <1>6, <1>7, <1>8

LEMMA SnapshotType ==
    ASSUME TypeOK, NEW c \in Callers, Snapshot(c)
    PROVE  TypeOK'
<1>0. c \in Callers \union SolverJobs
  OBVIOUS
<1>1. \A a, b \in Version : Over(a, b) \in Version
  BY DEF Over
<1>2. CASE SnapLooks(c) \/ SnapUnsolved(c) \/ SnapFails(c)
  BY <1>2 DEF TypeOK, SnapLooks, SnapUnsolved, SnapFails, lease, course, browser, cookies
<1>3. CASE SnapAsksSolver(c)
  <2>1. Of(c) \in LoginJobs
    BY <1>3 DEF SnapAsksSolver, Of, Callers, TypeOK
  <2> QED
    BY <1>0, <1>3, <2>1 DEF TypeOK, SnapAsksSolver, lease, course, cookies
<1>4. CASE SnapSolved(c)
  BY <1>0, <1>1, <1>4 DEF TypeOK, SnapSolved, lease, course, browser
<1>5. CASE SnapMerges(c)
  BY <1>0, <1>1, <1>5 DEF TypeOK, SnapMerges, lease, course, browser
<1>6. CASE SnapCaptures(c)
  BY <1>0, <1>6 DEF TypeOK, SnapCaptures, lease, course, browser, cookies
<1>7. CASE SnapReplaces(c)
  BY <1>0, <1>7 DEF TypeOK, SnapReplaces, lease, course, browser
<1> QED
  BY <1>2, <1>3, <1>4, <1>5, <1>6, <1>7 DEF Snapshot

LEMMA SessionType ==
    ASSUME TypeOK, NEW j \in LoginJobs,
           HandsOff(j) \/ Leaves(j) \/ WaitFails(j) \/ Quit(j)
    PROVE  TypeOK'
<1>0. j \in Jobs /\ j \in Callers
  BY DEF Jobs, Callers
<1>1. CASE HandsOff(j)
  BY <1>0, <1>1 DEF TypeOK, HandsOff, Points, Outside, InProfile, lease, course, browser, cookies
<1>2. CASE Leaves(j)
  BY <1>0, <1>2, GoesOnType
  DEF TypeOK, Leaves, Points, Outside, InProfile, lease, browser, cookies
<1>3. CASE WaitFails(j)
  BY <1>0, <1>3
  DEF TypeOK, WaitFails, Points, Outside, InProfile, lease, browser, call, cookies
<1>4. CASE Quit(j)
  BY <1>0, <1>4
  DEF TypeOK, Quit, Points, Outside, InProfile, lease, cookies
<1> QED
  BY <1>1, <1>2, <1>3, <1>4

LEMMA SolverType ==
    ASSUME TypeOK, NEW j \in Jobs,
           \/ Close(j)
           \/ j \in SolverJobs /\ (FetchBegins(j) \/ FetchEnds(j) \/ FetchFails(j))
    PROVE  TypeOK'
<1>1. \A a, b \in Version : Over(a, b) \in Version
  BY DEF Over
<1>2. CASE Close(j)
  BY <1>2 DEF TypeOK, Close, After, Points, Outside, InProfile, lease, course, call, cookies
<1>3. CASE j \in SolverJobs /\ FetchBegins(j)
  BY <1>3 DEF TypeOK, FetchBegins, Points, Outside, InProfile, lease, course, browser, cookies
<1>4. CASE j \in SolverJobs /\ FetchEnds(j)
  BY <1>1, <1>4, GoesOnType DEF TypeOK, FetchEnds, Points, Outside, InProfile, lease, call
<1>5. CASE j \in SolverJobs /\ FetchFails(j)
  BY <1>5, GoesOnType
  DEF TypeOK, FetchFails, After, Points, Outside, InProfile, lease, browser, call, cookies
<1> QED
  BY <1>2, <1>3, <1>4, <1>5

LEMMA VerifierType ==
    ASSUME TypeOK, NEW v \in Verifiers, VerifierStep(v)
    PROVE  TypeOK'
<1>0. v \in Callers /\ v \in Callers \union SolverJobs /\ LoginJobs \subseteq Jobs
  BY DEF Callers, Jobs
<1>1. ASSUME NEW j \in LoginJobs, Verify(v, j) PROVE TypeOK'
  BY <1>0, <1>1 DEF TypeOK, Verify, lease, course, browser, cookies
<1>2. CASE Snapshot(v)
  BY <1>0, <1>2, SnapshotType
<1>3. CASE Resolves(v)
  <2>1. on[v] \in LoginJobs
    BY <1>3 DEF TypeOK, Resolves
  <2> QED
    BY <1>0, <1>3, <2>1
    DEF TypeOK, Resolves, Points, Outside, InProfile, lease, browser, cookies
<1>4. CASE Rejects(v)
  BY <1>0, <1>4 DEF TypeOK, Rejects, lease, course, browser, cookies
<1> QED
  BY <1>1, <1>2, <1>3, <1>4 DEF VerifierStep

LEMMA EnvironmentType ==
    ASSUME TypeOK, Environment
    PROVE  TypeOK'
<1>1. ASSUME NEW j \in LoginJobs, UserLogsIn(j) PROVE TypeOK'
  <2>1. issued + 1 \in Version
    BY <1>1, ProfilesAssumption DEF ProfilesAssumption, TypeOK, UserLogsIn, Version
  <2> QED
    BY <1>1, <2>1 DEF TypeOK, UserLogsIn, lease, course, browser, call
<1>2. ASSUME NEW j \in Jobs, ContextEnds(j) PROVE TypeOK'
  BY <1>2 DEF TypeOK, ContextEnds, lease, course, browser, call, cookies
<1> QED
  BY <1>1, <1>2 DEF Environment

LEMMA InitType == Init => TypeOK
<1> SUFFICES ASSUME Init PROVE TypeOK
  OBVIOUS
<1>1. MaxPages - 1 \in 0..(MaxPages - 1) /\ 0 \in Version
  BY ProfilesAssumption DEF ProfilesAssumption, Version
<1>2. left \in [Jobs -> 0..(MaxPages - 1)]
  BY <1>1 DEF Init
<1>3. /\ verified \in [LoginJobs -> Version]
      /\ val \in [Callers \union SolverJobs -> Version]
      /\ jar \in Version /\ shared \in Version /\ issued \in Version
  BY <1>1 DEF Init
<1> QED
  BY <1>2, <1>3 DEF Init, TypeOK, Points, Outside

LEMMA NextType == TypeOK /\ [Next]_vars => TypeOK'
<1> SUFFICES ASSUME TypeOK, [Next]_vars PROVE TypeOK'
  OBVIOUS
<1>1. ASSUME NEW j \in LoginJobs, LoginStep(j) PROVE TypeOK'
  BY <1>1, LeaseType, NavigateType, SnapshotType, SessionType, SolverType
  DEF LoginStep, Callers, Jobs
<1>2. ASSUME NEW j \in SolverJobs, SolverStep(j) PROVE TypeOK'
  BY <1>2, SolverType DEF SolverStep, Jobs
<1>3. CASE UNCHANGED vars
  BY <1>3 DEF TypeOK, vars, lease, course, browser, call, cookies
<1> QED
  BY <1>1, <1>2, <1>3, VerifierType, EnvironmentType DEF Next

\* Every variable has its type, for every number of jobs, verifiers, pages and
\* logins.
THEOREM TypeCorrect == Spec => []TypeOK
BY InitType, NextType, PTL DEF Spec

-----------------------------------------------------------------------------
(* The lease.  LeaseInv is inductive relative to TypeOK.                   *)

\* LeaseInv reads nothing of jobs that do not drive Chromium, and nothing of
\* Snapshot calls, cookies, verifications and contexts.
LEMMA LeaseFrame ==
    ASSUME LeaseInv, UNCHANGED <<lease, alive, sessions, pc>>
    PROVE  LeaseInv'
BY DEF LeaseInv, lease, Blocked

\* Acquire, Block and GiveUp: only an empty channel is filled, only a full one
\* is waited for.
LEMMA AcquireLease ==
    ASSUME TypeOK, LeaseInv, NEW j \in LoginJobs, Acquire(j) \/ Block(j) \/ GiveUp(j)
    PROVE  LeaseInv'
<1>0. j \in Jobs /\ LoginJobs \subseteq Jobs
  BY DEF Jobs
<1>1. CASE Acquire(j)
  BY <1>0, <1>1 DEF TypeOK, LeaseInv, Acquire, Blocked, InProfile, browser
<1>2. CASE Block(j)
  BY <1>0, <1>2 DEF TypeOK, LeaseInv, Block, Blocked, InProfile, browser, lease
<1>3. CASE GiveUp(j)
  <2>1. pc'[j] \in {"navigate", "done"}
    BY <1>0, <1>3 DEF TypeOK, GiveUp, After
  <2>2. j \notin owes /\ j \notin alive /\ j \notin sessions
    BY <1>3 DEF LeaseInv, GiveUp, InProfile
  <2> QED
    BY <1>0, <1>3, <2>1, <2>2 DEF TypeOK, LeaseInv, GiveUp, Blocked, InProfile, browser, lease
<1> QED
  BY <1>1, <1>2, <1>3

\* A job that releases is the only one that owes, and its Chromium has gone: the
\* lease is free afterwards, or belongs to the job that was let in.
LEMMA ReleaseLease ==
    ASSUME TypeOK, LeaseInv, NEW j \in LoginJobs, Release(j)
    PROVE  LeaseInv'
<1>0. j \in Jobs /\ LoginJobs \subseteq Jobs /\ At(j, "release")
  BY DEF Jobs, Release
<1>1. owes = {j} /\ full
  BY <1>0 DEF LeaseInv, InProfile
<1>2. alive = {}
  <2> SUFFICES ASSUME NEW i \in alive PROVE FALSE
    OBVIOUS
  <2>1. i \in LoginJobs /\ i \in owes /\ pc[i] # "release"
    BY DEF TypeOK, LeaseInv
  <2> QED
    BY <1>0, <1>1, <2>1
<1>3. After(plan[j]) \in {"navigate", "done"}
  BY DEF After
<1>4. CASE /\ Blocked = {}
           /\ full' = FALSE
           /\ owes' = owes \ {j}
           /\ Goto(j, After(plan[j]))
  BY <1>0, <1>1, <1>2, <1>3, <1>4
  DEF TypeOK, LeaseInv, Release, Blocked, InProfile, browser
<1>5. ASSUME NEW k \in Blocked,
             owes' = (owes \ {j}) \union {k},
             pc' = [pc EXCEPT ![j] = After(plan[j]), ![k] = "start"],
             UNCHANGED full
      PROVE  LeaseInv'
  <2>1. k \in LoginJobs /\ k # j
    BY <1>0 DEF Blocked
  <2>2. owes' = {k}
    BY <1>1, <1>5, <2>1
  <2>3. /\ pc'[k] = "start"
        /\ pc'[j] \in {"navigate", "done"}
        /\ \A i \in Jobs \ {j, k} : pc'[i] = pc[i]
    BY <1>0, <1>3, <1>5, <2>1 DEF TypeOK
  <2>4. k \notin sessions /\ j \notin sessions
    BY <1>0 DEF LeaseInv, Blocked
  <2>5. \A i \in LoginJobs : i \in owes' <=> pc'[i] \in InProfile
    BY <1>0, <1>1, <2>1, <2>2, <2>3 DEF LeaseInv, InProfile
  <2>6. alive' = {} /\ sessions' = sessions
    BY <1>2 DEF Release, browser
  <2>7. \A i \in sessions : pc'[i] \in {"snapshot", "handoff", "close"}
    BY <2>3, <2>4 DEF LeaseInv, TypeOK
  <2> QED
    BY <1>1, <1>5, <2>2, <2>5, <2>6, <2>7 DEF LeaseInv
<1> QED
  BY <1>4, <1>5 DEF Release

\* The steps of a job that holds the lease and keeps it.
LEMMA HoldingLease ==
    ASSUME TypeOK, LeaseInv, NEW j \in LoginJobs,
           \/ Start(j) \/ StartFails(j) \/ Load(j) \/ LoadFails(j)
           \/ FallbackAnswers(j) \/ FallbackFails(j) \/ FallbackMerges(j)
           \/ HandsOff(j) \/ Leaves(j) \/ WaitFails(j) \/ Close(j) \/ Quit(j)
    PROVE  LeaseInv'
<1>0. j \in Jobs /\ LoginJobs \subseteq Jobs
  BY DEF Jobs
<1>1. \A i \in Jobs \ {j} : pc'[i] = pc[i]
  BY <1>0 DEF TypeOK, Start, StartFails, Load, LoadFails, FallbackAnswers, FallbackFails,
              FallbackMerges, Register, HandsOff, Leaves, WaitFails, Close, Quit
<1>2. UNCHANGED <<full, owes>>
  BY DEF Start, StartFails, Load, LoadFails, FallbackAnswers, FallbackFails,
         FallbackMerges, HandsOff, Leaves, WaitFails, Close, Quit, lease
<1>3. /\ pc[j] \in InProfile
      /\ pc'[j] \in InProfile
  BY <1>0 DEF TypeOK, Start, StartFails, Load, LoadFails, FallbackAnswers, FallbackFails,
              FallbackMerges, Register, HandsOff, Leaves, WaitFails, Close, Quit, InProfile
<1>4. j \in alive' => pc'[j] \in InProfile \ {"start", "release"}
  BY <1>0 DEF TypeOK, LeaseInv, Start, StartFails, Load, LoadFails, FallbackAnswers, FallbackFails,
              FallbackMerges, Register, HandsOff, Leaves, WaitFails, Close, Quit, InProfile, browser
<1>5. j \in sessions' => pc'[j] \in {"snapshot", "handoff", "close"}
  BY <1>0 DEF TypeOK, LeaseInv, Start, StartFails, Load, LoadFails, FallbackAnswers, FallbackFails,
              FallbackMerges, Register, HandsOff, Leaves, WaitFails, Close, Quit, browser
<1>6. \A i \in Jobs \ {j} : (i \in alive' => i \in alive) /\ (i \in sessions' => i \in sessions)
  BY DEF Start, StartFails, Load, LoadFails, FallbackAnswers, FallbackFails,
         FallbackMerges, Register, HandsOff, Leaves, WaitFails, Close, Quit, browser
<1>7. alive' \subseteq Jobs /\ sessions' \subseteq Jobs
  BY <1>0, NavigateType, SessionType, SolverType DEF TypeOK, Jobs
<1>8. Blocked' = Blocked
  BY <1>0, <1>1, <1>3 DEF Blocked, InProfile
<1> QED
  BY <1>0, <1>1, <1>2, <1>3, <1>4, <1>5, <1>6, <1>7, <1>8 DEF LeaseInv

\* Jobs without Chromium never touch the lease.
LEMMA SolverLease ==
    ASSUME TypeOK, LeaseInv, NEW j \in SolverJobs, SolverStep(j)
    PROVE  LeaseInv'
<1>0. j \in Jobs /\ LoginJobs \subseteq Jobs /\ j \notin LoginJobs
  BY ProfilesAssumption DEF ProfilesAssumption, Jobs
<1>1. UNCHANGED <<full, owes, alive>>
  BY DEF SolverStep, FetchBegins, FetchEnds, FetchFails, Close, lease, browser
<1>2. \A i \in Jobs \ {j} : pc'[i] = pc[i]
  BY <1>0 DEF TypeOK, SolverStep, FetchBegins, FetchEnds, FetchFails, Close
<1>3. j \in sessions' => pc'[j] \in {"snapshot", "handoff", "close"}
  BY <1>0 DEF TypeOK, LeaseInv, SolverStep, FetchBegins, FetchEnds, FetchFails, Close, browser
<1>4. \A i \in sessions' : i = j \/ i \in sessions
  BY DEF SolverStep, FetchBegins, FetchEnds, FetchFails, Close, browser
<1>5. Blocked' = Blocked
  BY <1>0, <1>2 DEF Blocked
<1>6. alive \subseteq LoginJobs /\ sessions \subseteq Jobs
  BY DEF TypeOK
<1> QED
  BY <1>0, <1>1, <1>2, <1>3, <1>4, <1>5, <1>6 DEF LeaseInv

LEMMA SnapshotFrame ==
    ASSUME NEW c, Snapshot(c)
    PROVE  UNCHANGED <<lease, alive, sessions, pc>>
BY DEF Snapshot, SnapLooks, SnapAsksSolver, SnapSolved, SnapUnsolved, SnapMerges,
       SnapCaptures, SnapReplaces, SnapFails, browser

\* A verification moves only a job in its hand-off, which keeps its lease.
LEMMA VerifierLease ==
    ASSUME TypeOK, LeaseInv, NEW v \in Verifiers, VerifierStep(v)
    PROVE  LeaseInv'
<1>1. CASE Resolves(v)
  <2>1. on[v] \in LoginJobs /\ on[v] \in Jobs /\ LoginJobs \subseteq Jobs
    BY <1>1 DEF TypeOK, Resolves, Jobs
  <2>2. /\ pc[on[v]] = "handoff" /\ pc'[on[v]] = "close"
        /\ \A i \in Jobs \ {on[v]} : pc'[i] = pc[i]
    BY <1>1, <2>1 DEF TypeOK, Resolves
  <2>3. UNCHANGED <<full, owes, alive, sessions>>
    BY <1>1 DEF Resolves, lease, browser
  <2>4. Blocked' = Blocked
    BY <2>1, <2>2 DEF Blocked
  <2>5. alive \subseteq Jobs /\ sessions \subseteq Jobs
    BY <2>1 DEF TypeOK
  <2> QED
    BY <2>1, <2>2, <2>3, <2>4, <2>5 DEF LeaseInv, InProfile
<1>2. CASE \/ \E j \in LoginJobs : Verify(v, j)
           \/ Snapshot(v) \/ Rejects(v)
  <2>1. UNCHANGED <<lease, alive, sessions, pc>>
    BY <1>2, SnapshotFrame DEF Verify, Rejects, browser
  <2> QED
    BY <2>1, LeaseFrame
<1> QED
  BY <1>1, <1>2 DEF VerifierStep

LEMMA EnvironmentFrame ==
    ASSUME Environment
    PROVE  UNCHANGED <<lease, alive, sessions, pc>>
BY DEF Environment, UserLogsIn, ContextEnds, browser

LEMMA InitLease == Init => LeaseInv
BY DEF Init, LeaseInv, Blocked, InProfile, Jobs

LEMMA NextLease == TypeOK /\ LeaseInv /\ [Next]_vars => LeaseInv'
<1> SUFFICES ASSUME TypeOK, LeaseInv, [Next]_vars PROVE LeaseInv'
  OBVIOUS
<1>1. ASSUME NEW j \in LoginJobs, LoginStep(j) PROVE LeaseInv'
  <2>1. CASE Snapshot(j)
    BY <2>1, SnapshotFrame, LeaseFrame
  <2> QED
    BY <1>1, <2>1, AcquireLease, ReleaseLease, HoldingLease DEF LoginStep
<1>2. CASE UNCHANGED vars
  BY <1>2, LeaseFrame DEF vars, browser
<1> QED
  BY <1>1, <1>2, SolverLease, VerifierLease, EnvironmentFrame, LeaseFrame DEF Next

\* The lease tells the truth about the profile directory: at most one job owes a
\* release, and only that job can have Chromium running in it.
THEOREM LeaseCorrect == Spec => []LeaseInv
<1>1. Init => TypeOK /\ LeaseInv
  BY InitType, InitLease
<1>2. (TypeOK /\ LeaseInv) /\ [Next]_vars => (TypeOK /\ LeaseInv)'
  BY NextType, NextLease
<1> QED
  BY <1>1, <1>2, PTL DEF Spec

\* Whatever call failed, a job outside the profile has no lease, no Chromium and
\* no session.
THEOREM NoLeak == Spec => []NothingLeaks
<1>1. TypeOK /\ LeaseInv => NothingLeaks
  BY DEF TypeOK, LeaseInv, NothingLeaks, Outside, InProfile
<1> QED
  BY <1>1, TypeCorrect, LeaseCorrect, PTL

-----------------------------------------------------------------------------
(* The provider implements ExclusiveUse.                                   *)

\* A job that starts Chromium finds the directory in nobody's use.
LEMMA StartsAlone ==
    ASSUME TypeOK, LeaseInv, NEW j \in LoginJobs, At(j, "start")
    PROVE  alive = {}
<1> SUFFICES ASSUME NEW i \in alive PROVE FALSE
  OBVIOUS
<1>1. i \in LoginJobs /\ i \in owes /\ j \in owes /\ pc[i] # "start"
  BY DEF TypeOK, LeaseInv, InProfile
<1> QED
  BY <1>1 DEF LeaseInv

LEMMA StepsExclude == TypeOK /\ LeaseInv /\ [Next]_vars => [Exclusive!Next]_alive
<1> SUFFICES ASSUME TypeOK, LeaseInv, [Next]_vars
             PROVE  Exclusive!Next \/ UNCHANGED alive
  OBVIOUS
<1> USE DEF Exclusive!Next, Exclusive!Open, Exclusive!Leave
<1>1. ASSUME NEW j \in LoginJobs, Start(j) \/ StartFails(j) PROVE Exclusive!Open
  <2>1. alive = {} /\ alive' = alive \union {j}
    BY <1>1, StartsAlone DEF Start, StartFails
  <2> QED
    BY <2>1
<1>2. ASSUME NEW j \in LoginJobs, Quit(j) PROVE Exclusive!Next \/ UNCHANGED alive
  <2>1. alive \subseteq {j}
    BY <1>2 DEF TypeOK, LeaseInv, Quit, InProfile
  <2> QED
    BY <1>2, <2>1 DEF Quit
<1>3. ASSUME NEW j \in LoginJobs, LoginStep(j), ~Start(j), ~StartFails(j), ~Quit(j)
      PROVE  UNCHANGED alive
  BY <1>3, SnapshotFrame
  DEF LoginStep, Acquire, Block, GiveUp, Release, Load, LoadFails, FallbackAnswers,
      FallbackFails, FallbackMerges, HandsOff, Leaves, WaitFails, Close, browser
<1>4. ASSUME NEW j \in SolverJobs, SolverStep(j) PROVE UNCHANGED alive
  BY <1>4 DEF SolverStep, FetchBegins, FetchEnds, FetchFails, Close, browser
<1>5. ASSUME NEW v \in Verifiers, VerifierStep(v) PROVE UNCHANGED alive
  BY <1>5, SnapshotFrame DEF VerifierStep, Verify, Resolves, Rejects, browser
<1>6. CASE UNCHANGED vars
  BY <1>6 DEF vars, browser
<1> QED
  BY <1>1, <1>2, <1>3, <1>4, <1>5, <1>6, EnvironmentFrame DEF Next

\* At most one Chromium has the profile directory open, and it has left before
\* the next one opens it.
THEOREM ImplementsExclusiveUse == Spec => OneBrowserAtATime
<1>1. Init => Exclusive!Init
  BY DEF Init, Exclusive!Init
<1> QED
  BY <1>1, StepsExclude, TypeCorrect, LeaseCorrect, PTL
  DEF Spec, OneBrowserAtATime, Exclusive!Spec

-----------------------------------------------------------------------------
(* ReopensVerified, for every number of login jobs, pages and logins, as   *)
(* long as one client verifies and no public job shares the domain's       *)
(* cookies.                                                                *)

\* Without these the property fails: a second client's capture, or the answer of
\* a public page's solver, may be stored over the login that was verified.
OneClient == SolverJobs = {} /\ \A v, w \in Verifiers : v = w

\* A Snapshot call of a job is made while the job waits for it.
JobsWait == \A j \in LoginJobs : snap[j] # "off" => pc[j] = "snapshot"

\* No cookie is newer than the last login.
NoneNewer ==
    jar <= issued /\ shared <= issued /\ \A c \in Callers : val[c] <= issued

\* A verification sees the session of a job that is handed off or closing, and
\* what it has captured is not newer than the profile's cookie; what it has
\* stored is what is shared.
Verifying ==
    \A v \in Verifiers : on[v] # NoJob =>
        /\ pc[on[v]] \in {"handoff", "close", "quit"}
        /\ snap[v] \in {"replace", "ok"} => val[v] <= jar
        /\ snap[v] = "ok" => shared = val[v]

\* val[c] will still be merged, applied or stored.
Carries(c) ==
    \/ snap[c] \in {"solver", "merge", "replace"}
    \/ c \in LoginJobs /\ pc[c] \in {"fallback", "merge"}

\* Until the page is reopened, no cookie anywhere is older than the session the
\* user verified.
Kept ==
    \A j \in LoginJobs : plan[j] = "reopen" =>
        /\ verified[j] <= jar
        /\ verified[j] <= shared
        /\ \A c \in Callers : Carries(c) => verified[j] <= val[c]

SessionInv == JobsWait /\ NoneNewer /\ Verifying /\ Kept

\* From the hand-off until Chromium is gone.
Closing == {"handoff", "close", "quit"}

\* Where a Snapshot call may be.
Calls == {"off", "look", "solver", "merge", "capture", "replace", "ok", "failed"}

-----------------------------------------------------------------------------
(* Who is where.                                                           *)

\* Only one job is between acquireProfile and the release.
LEMMA OneInProfile ==
    ASSUME LeaseInv, NEW j \in LoginJobs, pc[j] \in InProfile,
           NEW k \in LoginJobs, pc[k] \in InProfile
    PROVE  k = j
BY DEF LeaseInv

\* While a job uses its session nobody verifies another.
LEMMA NobodyVerifies ==
    ASSUME TypeOK, LeaseInv, SessionInv,
           NEW j \in LoginJobs, pc[j] \in InProfile, pc[j] \notin Closing
    PROVE  \A v \in Verifiers : on[v] = NoJob
<1> SUFFICES ASSUME NEW v \in Verifiers, on[v] # NoJob PROVE FALSE
  OBVIOUS
<1>1. on[v] \in LoginJobs /\ pc[on[v]] \in Closing
  BY DEF TypeOK, SessionInv, Verifying, Closing
<1>2. pc[on[v]] \in InProfile
  BY <1>1 DEF Closing, InProfile
<1> QED
  BY <1>1, <1>2, OneInProfile

\* While a job is handed off no job has a cookie in its hands.
LEMMA JobsCarryNothing ==
    ASSUME TypeOK, LeaseInv, SessionInv,
           NEW j \in LoginJobs, pc[j] = "handoff",
           NEW k \in LoginJobs
    PROVE  snap[k] = "off" /\ ~ Carries(k)
<1>1. CASE pc[k] \in {"snapshot", "fallback", "merge"}
  <2>1. pc[j] \in InProfile /\ pc[k] \in InProfile
    BY <1>1 DEF InProfile
  <2> QED
    BY <1>1, <2>1, OneInProfile
<1>2. CASE pc[k] \notin {"snapshot", "fallback", "merge"}
  BY <1>2 DEF SessionInv, JobsWait, Carries
<1> QED
  BY <1>1, <1>2

\* Cookies are numbers.
LEMMA Numbers ==
    ASSUME TypeOK
    PROVE  /\ jar \in Nat /\ shared \in Nat /\ issued \in Nat
           /\ \A c \in Callers : val[c] \in Nat
           /\ \A j \in LoginJobs : verified[j] \in Nat
BY ProfilesAssumption DEF ProfilesAssumption, TypeOK, Version

-----------------------------------------------------------------------------
(* The steps.                                                              *)

\* Steps that move jobs, cookies where they are.
LEMMA SessionFrame ==
    ASSUME TypeOK, SessionInv,
           UNCHANGED <<verified, snap, on, val, jar, shared, issued>>,
           \A k \in LoginJobs : plan'[k] = "reopen" => plan[k] = "reopen",
           \A k \in LoginJobs : pc'[k] # pc[k] =>
               /\ pc[k] # "snapshot"
               /\ pc'[k] \notin {"fallback", "merge"}
               /\ pc[k] \in Closing => pc'[k] \in Closing
    PROVE  SessionInv'
<1>1. JobsWait'
  BY DEF SessionInv, JobsWait
<1>2. NoneNewer'
  BY DEF SessionInv, NoneNewer
<1>3. Verifying'
  BY DEF SessionInv, Verifying, Closing, TypeOK
<1>4. Kept'
  <2>1. \A c \in Callers : Carries(c)' => Carries(c)
    BY DEF Carries
  <2> QED
    BY <2>1 DEF SessionInv, Kept
<1> QED
  BY <1>1, <1>2, <1>3, <1>4 DEF SessionInv

\* What GoesOn does to the plan.
LEMMA GoesOnKeeps ==
    ASSUME TypeOK, NEW j \in LoginJobs, GoesOn(j)
    PROVE  \A k \in LoginJobs : plan'[k] = "reopen" => plan[k] = "reopen"
BY DEF TypeOK, GoesOn, Jobs

LEMMA MovingSession ==
    ASSUME TypeOK, SessionInv, NEW j \in LoginJobs,
           Acquire(j) \/ Block(j) \/ GiveUp(j) \/ Release(j) \/ WaitFails(j) \/ Close(j)
    PROVE  SessionInv'
<1>0. pc \in [Jobs -> Points] /\ plan \in [Jobs -> {"open", "reopen", "end"}]
      /\ LoginJobs \subseteq Jobs /\ j \in Jobs
  BY DEF TypeOK, Jobs
<1>1. CASE Acquire(j) \/ Block(j)
  BY <1>0, <1>1, SessionFrame DEF Acquire, Block, course, browser, call, cookies, Closing
<1>2. CASE GiveUp(j)
  <2>1. UNCHANGED <<verified, snap, on, val, jar, shared, issued>>
    BY <1>2 DEF GiveUp, call, cookies
  <2>2. \A k \in LoginJobs : plan'[k] = "reopen" => plan[k] = "reopen"
    BY <1>2, GoesOnKeeps DEF GiveUp
  <2>3. \A k \in LoginJobs : pc'[k] # pc[k] =>
          k = j /\ pc[j] \in {"navigate", "blocked"} /\ pc'[j] \in {"navigate", "done"}
    BY <1>0, <1>2 DEF GiveUp, After
  <2> QED
    BY <2>1, <2>2, <2>3, SessionFrame DEF Closing
<1>3. CASE Release(j)
  <2>1. UNCHANGED <<verified, snap, on, val, jar, shared, issued, plan>>
    BY <1>3 DEF Release, call, cookies, course
  <2>2. \A k \in LoginJobs : pc'[k] # pc[k] =>
          pc[k] \in {"release", "blocked"} /\ pc'[k] \in {"navigate", "done", "start"}
    BY <1>0, <1>3 DEF Release, After, Blocked
  <2> QED
    BY <2>1, <2>2, SessionFrame DEF Closing
<1>4. CASE WaitFails(j)
  BY <1>0, <1>4, SessionFrame DEF WaitFails, browser, call, cookies, Closing
<1>5. CASE Close(j)
  BY <1>0, <1>5, SessionFrame DEF Close, course, call, cookies, Closing
<1> QED
  BY <1>1, <1>2, <1>3, <1>4, <1>5

LEMMA NavigateSession ==
    ASSUME TypeOK, LeaseInv, SessionInv, NEW j \in LoginJobs,
           \/ Start(j) \/ StartFails(j) \/ Load(j) \/ LoadFails(j)
           \/ FallbackAnswers(j) \/ FallbackFails(j) \/ FallbackMerges(j)
    PROVE  SessionInv'
<1>0. pc \in [Jobs -> Points] /\ LoginJobs \subseteq Jobs /\ j \in Jobs
      /\ snap \in [Callers -> Calls] /\ j \in Callers /\ LoginJobs \subseteq Callers
      /\ val \in [Callers \union SolverJobs -> Version]
  BY DEF TypeOK, Jobs, Callers, Calls
<1>1. pc[j] \in {"start", "load", "fallback", "merge"}
  BY DEF Start, StartFails, Load, LoadFails, FallbackAnswers, FallbackFails, FallbackMerges
<1>2. \A v \in Verifiers : on[v] = NoJob
  BY <1>1, NobodyVerifies DEF InProfile, Closing
<1>3. UNCHANGED <<on, verified, issued>>
  BY DEF Start, StartFails, Load, LoadFails, FallbackAnswers, FallbackFails,
         FallbackMerges, Register, call
<1>4. Verifying'
  BY <1>2, <1>3 DEF Verifying
<1>5. \A k \in LoginJobs : plan'[k] = "reopen" => plan[k] = "reopen"
  BY GoesOnKeeps DEF Start, StartFails, Load, LoadFails, FallbackAnswers,
     FallbackFails, FallbackMerges, course
<1>6. JobsWait'
  <2>1. snap[j] = "off"
    BY <1>1 DEF SessionInv, JobsWait
  <2>2. \A k \in LoginJobs : k # j => snap'[k] = snap[k] /\ pc'[k] = pc[k]
    BY <1>0 DEF Start, StartFails, Load, LoadFails, FallbackAnswers, FallbackFails,
       FallbackMerges, Register, call
  <2>3. snap'[j] = snap[j] \/ pc'[j] = "snapshot"
    BY <1>0 DEF Start, StartFails, Load, LoadFails, FallbackAnswers, FallbackFails,
       FallbackMerges, Register, call
  <2> QED
    BY <2>1, <2>2, <2>3 DEF SessionInv, JobsWait
<1>7. /\ jar' \in {jar, shared, val[j]}
      /\ shared' \in {shared, val[j]}
      /\ (pc[j] = "start" => jar' \in {jar, shared} /\ shared' = shared)
      /\ (pc[j] = "load" => jar' = jar /\ shared' = shared)
  BY <1>0 DEF Start, StartFails, Load, LoadFails, FallbackAnswers, FallbackFails,
     FallbackMerges, Over, cookies
<1>8. /\ \A c \in Callers : c # j => val'[c] = val[c]
      /\ val'[j] \in {val[j], shared}
      /\ (pc[j] # "load" => val'[j] = val[j])
      /\ (pc[j] = "load" => val'[j] = shared \/ pc'[j] = "snapshot")
  BY <1>0 DEF Start, StartFails, Load, LoadFails, FallbackAnswers, FallbackFails,
     FallbackMerges, Register, call
<1>9. NoneNewer'
  BY <1>0, <1>3, <1>7, <1>8, Numbers DEF SessionInv, NoneNewer
<1>10. Kept'
  <2> SUFFICES ASSUME NEW k \in LoginJobs, plan'[k] = "reopen"
               PROVE  /\ verified[k] <= jar' /\ verified[k] <= shared'
                      /\ \A c \in Callers : Carries(c)' => verified[k] <= val'[c]
    BY <1>3 DEF Kept
  <2>1. /\ verified[k] <= jar /\ verified[k] <= shared
        /\ \A c \in Callers : Carries(c) => verified[k] <= val[c]
    BY <1>5 DEF SessionInv, Kept
  <2>2. pc[j] \in {"fallback", "merge"} => Carries(j)
    BY DEF Carries
  <2>3. verified[k] <= jar' /\ verified[k] <= shared'
    BY <1>0, <1>1, <1>7, <2>1, <2>2
  <2>4. ASSUME NEW c \in Callers, c # j, Carries(c)' PROVE verified[k] <= val'[c]
    <3>1. snap'[c] = snap[c] /\ (c \in LoginJobs => pc'[c] = pc[c])
      BY <1>0, <2>4 DEF Start, StartFails, Load, LoadFails, FallbackAnswers,
         FallbackFails, FallbackMerges, Register, call
    <3>2. Carries(c)
      BY <2>4, <3>1 DEF Carries
    <3> QED
      BY <1>8, <2>1, <2>4, <3>2
  <2>5. ASSUME Carries(j)' PROVE verified[k] <= val'[j]
    <3>1. snap[j] = "off"
      BY <1>1 DEF SessionInv, JobsWait
    <3>2. snap'[j] \in {"off", "look"}
      BY <1>0, <3>1 DEF Start, StartFails, Load, LoadFails, FallbackAnswers,
         FallbackFails, FallbackMerges, Register, call
    <3>3. pc'[j] \in {"fallback", "merge"}
      BY <2>5, <3>2 DEF Carries
    <3>4. pc[j] \in {"load", "fallback"}
      BY <1>0, <3>3 DEF Start, StartFails, Load, LoadFails, FallbackAnswers,
         FallbackFails, FallbackMerges, Register
    <3> QED
      BY <1>0, <1>8, <2>1, <2>2, <3>3, <3>4
  <2> QED
    BY <2>3, <2>4, <2>5
<1> QED
  BY <1>4, <1>6, <1>9, <1>10 DEF SessionInv

\* A Snapshot call, of the job that has the profile or of the verifying client.
LEMMA SnapshotSession ==
    ASSUME TypeOK, LeaseInv, SessionInv, OneClient, NEW c \in Callers, Snapshot(c)
    PROVE  SessionInv'
<1>0. snap \in [Callers -> Calls] /\ LoginJobs \subseteq Callers
      /\ val \in [Callers \union SolverJobs -> Version] /\ c \in Callers \union SolverJobs
  BY DEF TypeOK, Callers, Calls
<1>1. UNCHANGED <<pc, plan, verified, on, issued>>
  BY DEF Snapshot, SnapLooks, SnapAsksSolver, SnapSolved, SnapUnsolved, SnapMerges,
         SnapCaptures, SnapReplaces, SnapFails, course
<1>2. snap[c] # "off" /\ \A d \in Callers : d # c => snap'[d] = snap[d]
  BY <1>0 DEF Snapshot, SnapLooks, SnapAsksSolver, SnapSolved, SnapUnsolved, SnapMerges,
         SnapCaptures, SnapReplaces, SnapFails
<1>3. JobsWait'
  BY <1>0, <1>1, <1>2 DEF SessionInv, JobsWait
<1>4. /\ jar' \in {jar, shared, val[c]} /\ shared' \in {shared, val[c]}
      /\ val'[c] \in {val[c], shared, jar}
      /\ \A d \in Callers : d # c => val'[d] = val[d]
      /\ jar' = jar \/ (snap[c] = "solver" /\ jar' \in {jar, val[c]})
      /\ shared' = shared \/ snap[c] \in {"merge", "replace"}
  <2>1. CASE SnapLooks(c) \/ SnapUnsolved(c) \/ SnapFails(c)
    BY <2>1 DEF SnapLooks, SnapUnsolved, SnapFails, cookies
  <2>2. CASE SnapAsksSolver(c)
    BY <1>0, <2>2 DEF SnapAsksSolver, cookies
  <2>3. CASE SnapSolved(c)
    BY <2>3 DEF SnapSolved, Over
  <2>4. CASE SnapMerges(c)
    BY <2>4 DEF SnapMerges, Over
  <2>5. CASE SnapCaptures(c)
    BY <1>0, <2>5 DEF SnapCaptures, cookies
  <2>6. CASE SnapReplaces(c)
    BY <2>6 DEF SnapReplaces
  <2> QED
    BY <2>1, <2>2, <2>3, <2>4, <2>5, <2>6 DEF Snapshot
<1>5. NoneNewer'
  BY <1>0, <1>1, <1>4, Numbers DEF SessionInv, NoneNewer
<1>6. Verifying'
  <2> SUFFICES ASSUME NEW v \in Verifiers, on[v] # NoJob
               PROVE  /\ snap'[v] \in {"replace", "ok"} => val'[v] <= jar'
                      /\ snap'[v] = "ok" => shared' = val'[v]
    BY <1>1 DEF SessionInv, Verifying
  <2>1. c = v
    <3>1. CASE c \in LoginJobs
      <4>1. pc[c] = "snapshot"
        BY <1>2, <3>1 DEF SessionInv, JobsWait
      <4> QED
        BY <3>1, <4>1, NobodyVerifies DEF InProfile, Closing
    <3>2. CASE c \in Verifiers
      BY <3>2 DEF OneClient
    <3> QED
      BY <3>1, <3>2 DEF Callers
  <2>2. CASE SnapLooks(c) \/ SnapUnsolved(c) \/ SnapFails(c)
    BY <1>0, <2>1, <2>2 DEF SnapLooks, SnapUnsolved, SnapFails
  <2>3. CASE SnapAsksSolver(c) \/ SnapSolved(c) \/ SnapMerges(c)
    BY <1>0, <2>1, <2>3 DEF SnapAsksSolver, SnapSolved, SnapMerges
  <2>4. CASE SnapCaptures(c)
    BY <1>0, <2>1, <2>4, Numbers DEF SnapCaptures, cookies
  <2>5. CASE SnapReplaces(c)
    BY <1>0, <2>1, <2>5 DEF SnapReplaces, SessionInv, Verifying
  <2> QED
    BY <2>2, <2>3, <2>4, <2>5 DEF Snapshot
<1>7. Kept'
  <2> SUFFICES ASSUME NEW k \in LoginJobs, plan[k] = "reopen"
               PROVE  /\ verified[k] <= jar' /\ verified[k] <= shared'
                      /\ \A d \in Callers : Carries(d)' => verified[k] <= val'[d]
    BY <1>1 DEF Kept
  <2>1. /\ verified[k] <= jar /\ verified[k] <= shared
        /\ \A d \in Callers : Carries(d) => verified[k] <= val[d]
    BY DEF SessionInv, Kept
  <2>2. snap[c] \in {"solver", "merge", "replace"} => verified[k] <= val[c]
    BY <2>1 DEF Carries
  <2>3. verified[k] <= jar' /\ verified[k] <= shared'
    BY <1>4, <2>1, <2>2
  <2>4. ASSUME NEW d \in Callers, d # c, Carries(d)' PROVE verified[k] <= val'[d]
    BY <1>1, <1>2, <1>4, <2>1, <2>4 DEF Carries
  <2>5. ASSUME Carries(c)' PROVE verified[k] <= val'[c]
    <3>1. CASE c \in LoginJobs /\ pc[c] \in {"fallback", "merge"}
      BY <1>2, <3>1 DEF SessionInv, JobsWait
    <3>2. CASE snap'[c] \in {"solver", "merge", "replace"}
      <4>1. CASE SnapAsksSolver(c)
        BY <1>0, <2>1, <4>1 DEF SnapAsksSolver
      <4>2. CASE SnapSolved(c)
        BY <2>2, <4>2 DEF SnapSolved
      <4>3. CASE SnapCaptures(c)
        BY <1>0, <2>1, <4>3 DEF SnapCaptures
      <4>4. CASE \/ SnapLooks(c) \/ SnapUnsolved(c) \/ SnapMerges(c)
                 \/ SnapReplaces(c) \/ SnapFails(c)
        BY <1>0, <3>2, <4>4
        DEF SnapLooks, SnapUnsolved, SnapMerges, SnapReplaces, SnapFails
      <4> QED
        BY <4>1, <4>2, <4>3, <4>4 DEF Snapshot
    <3> QED
      BY <1>1, <2>5, <3>1, <3>2 DEF Carries
  <2> QED
    BY <2>3, <2>4, <2>5
<1> QED
  BY <1>3, <1>5, <1>6, <1>7 DEF SessionInv

\* A job that leaves its session.
LEMMA LeavingSession ==
    ASSUME TypeOK, LeaseInv, SessionInv, NEW j \in LoginJobs,
           HandsOff(j) \/ Leaves(j) \/ Quit(j)
    PROVE  SessionInv'
<1>0. snap \in [Callers -> Calls] /\ pc \in [Jobs -> Points]
      /\ plan \in [Jobs -> {"open", "reopen", "end"}]
      /\ LoginJobs \subseteq Callers /\ LoginJobs \subseteq Jobs /\ j \in Jobs
  BY DEF TypeOK, Callers, Calls, Jobs
<1>1. UNCHANGED <<verified, jar, shared, val, issued>>
  BY DEF HandsOff, Leaves, Quit, cookies
<1>2. \A k \in LoginJobs : k # j => pc'[k] = pc[k]
  BY <1>0 DEF HandsOff, Leaves, Quit
<1>3. \A k \in LoginJobs : plan'[k] = "reopen" => plan[k] = "reopen"
  BY <1>0, GoesOnKeeps DEF HandsOff, Leaves, Quit, course
<1>4. pc'[j] \in {"handoff", "close", "release"}
  BY <1>0 DEF HandsOff, Leaves, Quit
<1>5. \A c \in Callers : snap'[c] = snap[c] \/ (c = j /\ snap'[c] = "off")
  BY <1>0 DEF HandsOff, Leaves, Quit
<1>6. snap'[j] = "off"
  <2>1. CASE HandsOff(j) \/ Leaves(j)
    BY <1>0, <2>1 DEF HandsOff, Leaves
  <2>2. CASE Quit(j)
    BY <2>2 DEF Quit, SessionInv, JobsWait
  <2> QED
    BY <2>1, <2>2
<1>7. JobsWait'
  BY <1>0, <1>2, <1>5, <1>6 DEF SessionInv, JobsWait
<1>8. NoneNewer'
  BY <1>1 DEF SessionInv, NoneNewer
<1>9. Verifying'
  <2>1. CASE HandsOff(j) \/ Leaves(j)
    <3>1. pc[j] = "snapshot" /\ UNCHANGED on
      BY <2>1 DEF HandsOff, Leaves
    <3>2. \A v \in Verifiers : on[v] = NoJob
      BY <3>1, NobodyVerifies DEF InProfile, Closing
    <3> QED
      BY <3>1, <3>2 DEF Verifying
  <2>2. CASE Quit(j)
    <3>1. on' = [v \in Verifiers |-> IF on[v] = j THEN NoJob ELSE on[v]]
          /\ UNCHANGED snap
      BY <2>2 DEF Quit
    <3>2. \A v \in Verifiers : on'[v] # NoJob => on'[v] = on[v] /\ on[v] # j
      BY <3>1
    <3> QED
      BY <1>1, <1>2, <3>1, <3>2 DEF SessionInv, Verifying, TypeOK
  <2> QED
    BY <2>1, <2>2
<1>10. Kept'
  <2>1. \A c \in Callers : Carries(c)' => Carries(c)
    BY <1>2, <1>4, <1>5 DEF Carries
  <2> QED
    BY <1>1, <1>3, <2>1 DEF SessionInv, Kept
<1> QED
  BY <1>7, <1>8, <1>9, <1>10 DEF SessionInv

\* A verification begins or ends; the interesting case is Resolves, after which
\* every cookie must be at least the one that was verified.
LEMMA VerifierSession ==
    ASSUME TypeOK, LeaseInv, SessionInv, OneClient, NEW v \in Verifiers,
           (\E j \in LoginJobs : Verify(v, j)) \/ Resolves(v) \/ Rejects(v)
    PROVE  SessionInv'
<1>0. snap \in [Callers -> Calls] /\ v \in Callers /\ v \notin LoginJobs
      /\ on \in [Verifiers -> LoginJobs \union {NoJob}]
      /\ pc \in [Jobs -> Points] /\ plan \in [Jobs -> {"open", "reopen", "end"}]
      /\ verified \in [LoginJobs -> Version] /\ LoginJobs \subseteq Jobs
  BY ProfilesAssumption DEF ProfilesAssumption, TypeOK, Callers, Calls, Jobs
<1>1. UNCHANGED <<jar, shared, val, issued>>
  BY DEF Verify, Resolves, Rejects, cookies
<1>2. \A w \in Verifiers : w = v
  BY DEF OneClient
<1>3. snap'[v] \in {"look", "off"} /\ \A c \in Callers : c # v => snap'[c] = snap[c]
  BY <1>0 DEF Verify, Resolves, Rejects
<1>4. NoneNewer'
  BY <1>1 DEF SessionInv, NoneNewer
<1>5. \A c \in Callers : snap'[c] \in {"solver", "merge", "replace"} =>
        snap[c] \in {"solver", "merge", "replace"}
  BY <1>3
<1>6. ASSUME NEW j \in LoginJobs, Verify(v, j) PROVE SessionInv'
  <2>1. UNCHANGED <<pc, plan, verified>> /\ pc[j] = "handoff" /\ on'[v] = j
    BY <1>0, <1>6 DEF Verify, course
  <2>2. JobsWait'
    BY <1>0, <1>3, <2>1 DEF SessionInv, JobsWait, Callers
  <2>3. Verifying'
    BY <1>2, <1>3, <2>1 DEF Verifying
  <2>4. Kept'
    BY <1>1, <1>5, <2>1 DEF SessionInv, Kept, Carries
  <2> QED
    BY <1>4, <2>2, <2>3, <2>4 DEF SessionInv
<1>7. CASE Rejects(v)
  <2>1. UNCHANGED <<pc, plan, verified>> /\ on'[v] = NoJob
    BY <1>0, <1>7 DEF Rejects, course
  <2>2. JobsWait'
    BY <1>0, <1>3, <2>1 DEF SessionInv, JobsWait, Callers
  <2>3. Verifying'
    BY <1>2, <2>1 DEF Verifying
  <2>4. Kept'
    BY <1>1, <1>5, <2>1 DEF SessionInv, Kept, Carries
  <2> QED
    BY <1>4, <2>2, <2>3, <2>4 DEF SessionInv
<1>8. CASE Resolves(v)
  <2> DEFINE j == on[v]
  <2>1. j \in LoginJobs /\ pc[j] = "handoff" /\ snap[v] = "ok" /\ j # NoJob
    BY <1>0, <1>8 DEF Resolves
  <2>2. pc' = [pc EXCEPT ![j] = "close"] /\ on'[v] = NoJob
        /\ plan' = [plan EXCEPT ![j] = "reopen"]
        /\ verified' = [verified EXCEPT ![j] = val[v]]
    BY <1>0, <1>8 DEF Resolves
  <2>3. val[v] <= jar /\ shared = val[v]
    BY <2>1 DEF SessionInv, Verifying
  <2>4. \A k \in LoginJobs : snap[k] = "off" /\ ~ Carries(k)
    BY <2>1, JobsCarryNothing
  <2>5. JobsWait'
    BY <1>0, <1>3, <2>4 DEF JobsWait, Callers
  <2>6. Verifying'
    BY <1>2, <2>2 DEF Verifying
  <2>7. \A c \in Callers : ~ Carries(c)'
    <3>1. ~ Carries(v)'
      BY <1>0, <1>3 DEF Carries
    <3>2. ASSUME NEW k \in LoginJobs PROVE ~ Carries(k)'
      <4>1. pc'[k] = pc[k] \/ pc'[k] = "close"
        BY <1>0, <2>1, <2>2
      <4>2. snap'[k] = "off"
        BY <1>0, <1>3, <2>4 DEF Callers
      <4> QED
        BY <2>4, <4>1, <4>2 DEF Carries
    <3> QED
      BY <1>2, <3>1, <3>2 DEF Callers
  <2>8. Kept'
    <3> SUFFICES ASSUME NEW k \in LoginJobs, plan'[k] = "reopen"
                 PROVE  verified'[k] <= jar /\ verified'[k] <= shared
      BY <1>1, <2>7 DEF Kept
    <3>1. CASE k = j
      <4>1. verified'[k] = val[v]
        BY <1>0, <2>1, <2>2, <3>1
      <4> QED
        BY <1>0, <2>3, <4>1, Numbers
    <3>2. CASE k # j
      <4>1. verified'[k] = verified[k] /\ plan[k] = "reopen"
        BY <1>0, <2>1, <2>2, <3>2
      <4> QED
        BY <4>1 DEF SessionInv, Kept
    <3> QED
      BY <3>1, <3>2
  <2> QED
    BY <1>4, <2>5, <2>6, <2>8 DEF SessionInv
<1> QED
  BY <1>6, <1>7, <1>8

\* A login is newer than every cookie there is.
LEMMA EnvironmentSession ==
    ASSUME TypeOK, SessionInv, Environment
    PROVE  SessionInv'
<1>1. ASSUME NEW j \in LoginJobs, UserLogsIn(j) PROVE SessionInv'
  <2>1. UNCHANGED <<pc, plan, verified, snap, on, val, shared>>
        /\ issued' = issued + 1 /\ jar' = issued + 1
    BY <1>1 DEF UserLogsIn, course, call
  <2>2. jar <= jar'
    BY <2>1, Numbers DEF SessionInv, NoneNewer
  <2>3. JobsWait' /\ NoneNewer'
    BY <2>1, Numbers DEF SessionInv, JobsWait, NoneNewer
  <2>4. Verifying'
    BY <2>1, <2>2, Numbers DEF SessionInv, Verifying, NoneNewer, Callers
  <2>5. Kept'
    BY <2>1, <2>2, Numbers DEF SessionInv, Kept, Carries
  <2> QED
    BY <2>3, <2>4, <2>5 DEF SessionInv
<1>2. ASSUME NEW j \in Jobs, ContextEnds(j) PROVE SessionInv'
  BY <1>2, SessionFrame DEF ContextEnds, course, call, cookies
<1> QED
  BY <1>1, <1>2 DEF Environment

LEMMA NextSession ==
    TypeOK /\ LeaseInv /\ OneClient /\ SessionInv /\ [Next]_vars => SessionInv'
<1> SUFFICES ASSUME TypeOK, LeaseInv, OneClient, SessionInv, [Next]_vars
             PROVE  SessionInv'
  OBVIOUS
<1>1. ASSUME NEW j \in LoginJobs, LoginStep(j) PROVE SessionInv'
  BY <1>1, MovingSession, NavigateSession, SnapshotSession, LeavingSession
  DEF LoginStep, Callers
<1>2. ASSUME NEW v \in Verifiers, VerifierStep(v) PROVE SessionInv'
  BY <1>2, VerifierSession, SnapshotSession DEF VerifierStep, Callers
<1>3. CASE Environment
  BY <1>3, EnvironmentSession
<1>4. CASE UNCHANGED vars
  BY <1>4, SessionFrame DEF vars, course, call, cookies
<1> QED
  BY <1>1, <1>2, <1>3, <1>4 DEF Next, OneClient

-----------------------------------------------------------------------------

\* The page reopened after a hand-off is requested with the session the user
\* verified or a later one, whatever the other jobs do to the domain's cookies in
\* between: as long as one client verifies and no public job shares them.
THEOREM Reopening == Spec /\ OneClient => []ReopensVerified
<1>1. Init => SessionInv
  BY DEF Init, SessionInv, JobsWait, NoneNewer, Verifying, Kept, Jobs, Callers
<1>2. SessionInv => ReopensVerified
  BY DEF SessionInv, Kept, ReopensVerified
<1>3. Init => TypeOK /\ LeaseInv
  BY InitType, InitLease
<1>4. OneClient /\ TypeOK /\ LeaseInv /\ SessionInv /\ [Next]_vars
        => (OneClient /\ TypeOK /\ LeaseInv /\ SessionInv)'
  BY NextType, NextLease, NextSession DEF OneClient
<1> QED
  BY <1>1, <1>2, <1>3, <1>4, PTL DEF Spec
=============================================================================
