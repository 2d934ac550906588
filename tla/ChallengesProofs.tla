-------------------------- MODULE ChallengesProofs --------------------------
(* Theorems about Challenges, for any set of tokens, clients and sockets.  *)
EXTENDS Challenges, TLAPS

\* The variables stay in their types, and a challenge is in the manager's map
\* only while its job awaits it or is about to remove it.
THEOREM TypeCorrect == Spec => []TypeOK
<1> USE ChallengesAssumption
    DEF TypeOK, Status, Open, Terminal, Results, Waiter, Awaiting,
        book, jobs, requests, told
<1>1. Init => TypeOK
  BY DEF Init
<1>2. TypeOK /\ [Next]_vars => TypeOK'
  <2> SUFFICES ASSUME TypeOK, [Next]_vars PROVE TypeOK'
    OBVIOUS
  <2> USE DEF Finish, Expires, Expire, Find
  <2>1. ASSUME NEW t \in Tokens, Create(t) PROVE TypeOK'
    BY <2>1 DEF Create
  <2>2. ASSUME NEW t \in Tokens, WaitBegins(t) PROVE TypeOK'
    BY <2>2 DEF WaitBegins, Return
  <2>3. ASSUME NEW t \in Tokens, Wakes(t) PROVE TypeOK'
    BY <2>3 DEF Wakes
  <2>4. ASSUME NEW t \in Tokens, WaitContext(t) PROVE TypeOK'
    BY <2>4 DEF WaitContext, Cancel, Return
  <2>5. ASSUME NEW t \in Tokens, WaitTimer(t) PROVE TypeOK'
    BY <2>5 DEF WaitTimer, Return
  <2>6. ASSUME NEW t \in Tokens, WaitDone(t) PROVE TypeOK'
    BY <2>6 DEF WaitDone, Return
  <2>7. ASSUME NEW t \in Tokens, Remove(t) PROVE TypeOK'
    BY <2>7 DEF Remove
  <2>8. ASSUME NEW t \in Tokens, CloseSession(t) PROVE TypeOK'
    BY <2>8 DEF CloseSession
  <2>9. ASSUME NEW v \in Verifiers, NEW t \in Tokens, BeginVerification(v, t) PROVE TypeOK'
    BY <2>9 DEF BeginVerification
  <2>10. ASSUME NEW v \in Verifiers, Verify(v) PROVE TypeOK'
    BY <2>10 DEF Verify
  <2>11. ASSUME NEW v \in Verifiers, RejectVerification(v) PROVE TypeOK'
    BY <2>11 DEF RejectVerification, Answered
  <2>12. ASSUME NEW v \in Verifiers, Resolve(v) PROVE TypeOK'
    BY <2>12 DEF Resolve, Answered
  <2>13. ASSUME NEW k \in Controllers, NEW t \in Tokens, AcquireController(k, t) PROVE TypeOK'
    BY <2>13 DEF AcquireController
  <2>14. ASSUME NEW k \in Controllers, ReleaseController(k) PROVE TypeOK'
    BY <2>14 DEF ReleaseController
  <2>15. ASSUME NEW t \in Tokens, CancelRequest(t) PROVE TypeOK'
    BY <2>15 DEF CancelRequest, Cancel
  <2>16. ASSUME NEW t \in Tokens, Get(t) \/ PageClears(t) \/ ContextEnds(t) \/ Lapse(t)
         PROVE  TypeOK'
    BY <2>16 DEF Get, PageClears, ContextEnds, Lapse
  <2>17. CASE UNCHANGED vars
    BY <2>17 DEF vars
  <2> QED
    BY <2>1, <2>2, <2>3, <2>4, <2>5, <2>6, <2>7, <2>8, <2>9, <2>10, <2>11, <2>12,
       <2>13, <2>14, <2>15, <2>16, <2>17
       DEF Next, JobStep, VerifierStep, ControllerStep, TokenStep
<1> QED
  BY <1>1, <1>2, PTL DEF Spec

\* One step keeps the challenge invariant.
LEMMA ChallengeStep ==
    ASSUME TypeOK, ChallengeInv, [Next]_vars
    PROVE  ChallengeInv'
<1> USE ChallengesAssumption
    DEF TypeOK, Status, Open, Terminal, Results, Waiter, Awaiting,
        book, jobs, requests, told, Finish, Expires, Expire, Find,
        ChallengeInv, OneController, OneVerifier, FlagHasOwner,
        OutcomeMatchesAnswers, BookKept
<1>1. ASSUME NEW t \in Tokens, Create(t) PROVE ChallengeInv'
  BY <1>1 DEF Create
<1>2. ASSUME NEW t \in Tokens, WaitBegins(t) PROVE ChallengeInv'
  BY <1>2 DEF WaitBegins, Return
<1>3. ASSUME NEW t \in Tokens, Wakes(t) PROVE ChallengeInv'
  BY <1>3 DEF Wakes
<1>4. ASSUME NEW t \in Tokens, WaitContext(t) PROVE ChallengeInv'
  BY <1>4 DEF WaitContext, Cancel, Return
<1>5. ASSUME NEW t \in Tokens, WaitTimer(t) PROVE ChallengeInv'
  BY <1>5 DEF WaitTimer, Return
<1>6. ASSUME NEW t \in Tokens, WaitDone(t) PROVE ChallengeInv'
  BY <1>6 DEF WaitDone, Return
<1>7. ASSUME NEW t \in Tokens, Remove(t) PROVE ChallengeInv'
  BY <1>7 DEF Remove
<1>8. ASSUME NEW t \in Tokens, CloseSession(t) PROVE ChallengeInv'
  BY <1>8 DEF CloseSession
<1>9. ASSUME NEW v \in Verifiers, NEW t \in Tokens, BeginVerification(v, t)
      PROVE  ChallengeInv'
  BY <1>9 DEF BeginVerification
<1>10. ASSUME NEW v \in Verifiers, Verify(v) PROVE ChallengeInv'
  BY <1>10 DEF Verify
<1>11. ASSUME NEW v \in Verifiers, RejectVerification(v) PROVE ChallengeInv'
  BY <1>11 DEF RejectVerification, Answered
<1>12. ASSUME NEW v \in Verifiers, Resolve(v) PROVE ChallengeInv'
  <2>1. CASE Expires(vtok[v])
    BY <1>12, <2>1 DEF Resolve, Answered
  <2>2. CASE Find(vtok[v], {"verifying"})
    BY <1>12, <2>2 DEF Resolve, Answered
  <2>3. CASE Find(vtok[v], Status \ {"verifying"})
    BY <1>12, <2>3 DEF Resolve, Answered
  <2> QED
    BY <1>12, <2>1, <2>2, <2>3 DEF Resolve
<1>13. ASSUME NEW k \in Controllers, NEW t \in Tokens, AcquireController(k, t)
       PROVE  ChallengeInv'
  BY <1>13 DEF AcquireController
<1>14. ASSUME NEW k \in Controllers, ReleaseController(k) PROVE ChallengeInv'
  BY <1>14 DEF ReleaseController
<1>15. ASSUME NEW t \in Tokens, CancelRequest(t) PROVE ChallengeInv'
  BY <1>15 DEF CancelRequest, Cancel
<1>16. ASSUME NEW t \in Tokens, Get(t) \/ PageClears(t) \/ ContextEnds(t) \/ Lapse(t)
       PROVE  ChallengeInv'
  BY <1>16 DEF Get, PageClears, ContextEnds, Lapse
<1>17. CASE UNCHANGED vars
  BY <1>17 DEF vars
<1> QED
  BY <1>1, <1>2, <1>3, <1>4, <1>5, <1>6, <1>7, <1>8, <1>9, <1>10, <1>11, <1>12,
     <1>13, <1>14, <1>15, <1>16, <1>17
     DEF Next, JobStep, VerifierStep, ControllerStep, TokenStep

LEMMA ChallengeInvariant == Spec => []ChallengeInv
<1>1. Init => ChallengeInv
  BY ChallengesAssumption
     DEF Init, ChallengeInv, OneController, OneVerifier, FlagHasOwner,
         OutcomeMatchesAnswers, BookKept, Open, Terminal
<1>2. TypeOK /\ ChallengeInv /\ [Next]_vars => ChallengeInv'
  BY ChallengeStep
<1> QED
  BY <1>1, <1>2, TypeCorrect, PTL DEF Spec

\* One socket at a time controls a challenge, and no connected flag is left
\* behind by one that has gone.
THEOREM Exclusive == Spec => [](OneController /\ FlagHasOwner)
<1>1. ChallengeInv => OneController /\ FlagHasOwner
  BY DEF ChallengeInv
<1> QED
  BY <1>1, ChallengeInvariant, PTL

\* One verification of a challenge at a time.
THEOREM Verification == Spec => []OneVerifier
<1>1. ChallengeInv => OneVerifier
  BY DEF ChallengeInv
<1> QED
  BY <1>1, ChallengeInvariant, PTL

\* A finished challenge keeps its outcome until it is forgotten, and a
\* forgotten one never comes back.
THEOREM Finality == Spec => OutcomeIsFinal
<1>1. TypeOK /\ [Next]_vars =>
        \A t \in Tokens :
          /\ status[t] \in Terminal => status'[t] \in {status[t], "none"}
          /\ status[t] = "none" /\ waiter[t] # "before" => status'[t] = "none"
  <2> SUFFICES ASSUME TypeOK, [Next]_vars, NEW t \in Tokens
               PROVE  /\ status[t] \in Terminal => status'[t] \in {status[t], "none"}
                      /\ status[t] = "none" /\ waiter[t] # "before" => status'[t] = "none"
    OBVIOUS
  <2> USE DEF TypeOK, Status, Open, Terminal, book, jobs, requests, told,
              Finish, Expires, Expire, Find
  <2>1. CASE \E s \in Tokens : JobStep(s)
    <3> SUFFICES ASSUME NEW s \in Tokens, JobStep(s)
                 PROVE  /\ status[t] \in Terminal => status'[t] \in {status[t], "none"}
                        /\ status[t] = "none" /\ waiter[t] # "before" => status'[t] = "none"
      BY <2>1
    <3>1. CASE Create(s)
      BY <3>1 DEF Create, Awaiting
    <3>2. CASE WaitBegins(s)
      BY <3>2 DEF WaitBegins
    <3>3. CASE WaitContext(s)
      BY <3>3 DEF WaitContext, Cancel
    <3>4. CASE WaitTimer(s) \/ Remove(s)
      BY <3>4 DEF WaitTimer, Remove
    <3>5. CASE Wakes(s) \/ WaitDone(s) \/ CloseSession(s)
      BY <3>5 DEF Wakes, WaitDone, CloseSession
    <3> QED
      BY <3>1, <3>2, <3>3, <3>4, <3>5 DEF JobStep
  <2>2. CASE \E v \in Verifiers : VerifierStep(v)
    BY <2>2 DEF VerifierStep, BeginVerification, Verify, RejectVerification, Resolve
  <2>3. CASE \E k \in Controllers : ControllerStep(k)
    BY <2>3 DEF ControllerStep, AcquireController, ReleaseController
  <2>4. CASE \E s \in Tokens : TokenStep(s)
    BY <2>4 DEF TokenStep, CancelRequest, Cancel, Get, PageClears, ContextEnds, Lapse
  <2>5. CASE UNCHANGED vars
    BY <2>5 DEF vars
  <2> QED
    BY <2>1, <2>2, <2>3, <2>4, <2>5 DEF Next
<1> QED
  BY <1>1, TypeCorrect, PTL DEF Spec, OutcomeIsFinal

\* A job goes on only after a verified completion, never after an accepted
\* cancellation, and clients are not told both.
THEOREM Outcome == Spec => []OutcomeMatchesAnswers
<1>1. ChallengeInv => OutcomeMatchesAnswers
  BY DEF ChallengeInv
<1> QED
  BY <1>1, ChallengeInvariant, PTL

=============================================================================
