--------------------------- MODULE ExtractRunProofs ---------------------------
(***************************************************************************)
(* NoPageTwice, NoPromptExtracted, OneEndPerAttempt and ProvenUnitsKept of *)
(* ExtractRun, for every set of URLs, documents and answers and every      *)
(* number of attempts.                                                     *)
(***************************************************************************)
EXTENDS ExtractRun, FiniteSetTheorems, FiltersProofs

\* The pages given to the model were visited.  The current one was too, and is
\* given to it once; until the first is, it is the login page or the payload's.
PageInv ==
    /\ phase \in {"login", "confirmed", "pages"}
    /\ url \in visited
    /\ extracted \in Seq(visited)
    /\ pc \notin {"save", "returned"} =>
          \A i \in 1..Len(extracted) : extracted[i] # url
    /\ phase # "pages" => extracted = <<>>
    /\ phase = "pages" /\ extracted = <<>> => url = Home

RunInv == PageInv /\ NoPageTwice /\ NoPromptExtracted

\* A sequence without repetitions stays so when what is appended is not in it.
LEMMA InjectiveAppend ==
    ASSUME NEW S, NEW s \in Seq(S), IsInjective(s), NEW e \in S,
           \A i \in 1..Len(s) : s[i] # e
    PROVE  IsInjective(Append(s, e))
BY DEF IsInjective

\* A page to go on with was not visited.
LEMMA NextPageIsNew ==
    ASSUME NEW next, NEW items, NEW u \in NextPage(next, items)
    PROVE  u \notin visited
BY DEF NextPage

\* Steps that do not touch the pages, and at most end the run.
LEMMA PageFrame ==
    ASSUME RunInv, UNCHANGED <<url, visited, extracted>>,
           phase' = phase \/ (phase = "login" /\ phase' = "confirmed"),
           pc \in {"save", "returned"} => pc' \in {"save", "returned"},
           pc' # "extract"
    PROVE  RunInv'
<1>1. PageInv'
  BY DEF RunInv, PageInv
<1> QED
  BY <1>1 DEF RunInv, NoPageTwice, NoPromptExtracted

\* Leaving a page: after the login page comes the payload's.
LEMMA LeavesPage ==
    ASSUME RunInv, Leaves, UNCHANGED extracted, look' = "nobody",
           pc \notin {"save", "returned"}
    PROVE  RunInv'
<1>1. CASE phase # "pages"
  <2>1. phase' = "pages" /\ url' = Home /\ visited' = visited \union {Home}
        /\ pc' = "navigate"
    BY <1>1 DEF Leaves, Goto
  <2>2. extracted = <<>>
    BY <1>1 DEF RunInv, PageInv
  <2>3. PageInv'
    BY <2>1, <2>2 DEF PageInv
  <2> QED
    BY <2>1, <2>2, <2>3 DEF RunInv, NoPageTwice, NoPromptExtracted
<1>2. CASE phase = "pages"
  <2>1. pc' = "extract" /\ UNCHANGED <<url, phase, visited>> /\ session' = FALSE
    BY <1>2 DEF Leaves, Goto, page
  <2>2. PageInv'
    BY <2>1 DEF RunInv, PageInv
  <2> QED
    BY <1>2, <2>1, <2>2 DEF RunInv, NoPageTwice, NoPromptExtracted
<1> QED
  BY <1>1, <1>2

\* The page goes to the model; the next one, if any, is new.
LEMMA ExtractPage == ASSUME RunInv, Extract PROVE RunInv'
<1>1. pc = "extract" /\ phase = "pages" /\ extracted' = Append(extracted, url)
      /\ UNCHANGED look
  BY DEF RunInv, NoPromptExtracted, Extract, browser
<1>2. /\ extracted \in Seq(visited) /\ url \in visited
      /\ \A i \in 1..Len(extracted) : extracted[i] # url
  BY <1>1 DEF RunInv, PageInv
<1>3. /\ extracted' \in Seq(visited) /\ Len(extracted') = Len(extracted) + 1
      /\ extracted' # <<>>
      /\ \A i \in 1..Len(extracted') : extracted'[i] \in visited
  BY <1>1, <1>2
<1>4. NoPageTwice'
  <2>1. IsInjective(extracted')
    BY <1>1, <1>2, InjectiveAppend DEF RunInv, NoPageTwice
  <2>2. extracted'[1] = Home
    <3>1. CASE extracted = <<>>
      <4>1. url = Home
        BY <1>1, <3>1 DEF RunInv, PageInv
      <4> QED
        BY <1>1, <3>1, <4>1
    <3>2. CASE extracted # <<>>
      BY <1>1, <1>2, <3>2 DEF RunInv, NoPageTwice
    <3> QED
      BY <3>1, <3>2
  <2> QED
    BY <2>1, <2>2 DEF NoPageTwice
<1>5. CASE pc' = "save" /\ UNCHANGED page
  <2>1. PageInv'
    BY <1>1, <1>2, <1>3, <1>5 DEF PageInv, page
  <2> QED
    BY <1>4, <1>5, <2>1 DEF RunInv, NoPromptExtracted
<1>6. CASE /\ pc' = "navigate" /\ phase' = phase
           /\ url' \notin visited /\ visited' = visited \union {url'}
  <2>1. extracted' \in Seq(visited')
    BY <1>3, <1>6
  <2>2. \A i \in 1..Len(extracted') : extracted'[i] # url'
    BY <1>3, <1>6
  <2>3. PageInv'
    BY <1>1, <1>3, <1>6, <2>1, <2>2 DEF PageInv
  <2> QED
    BY <1>4, <1>6, <2>3 DEF RunInv, NoPromptExtracted
<1>7. \/ pc' = "save" /\ UNCHANGED page
      \/ /\ pc' = "navigate" /\ phase' = phase
         /\ url' \notin visited /\ visited' = visited \union {url'}
  <2>1. PICK doc \in Documents, answer \in Answers :
          LET parsed == enrichExtractedUnitURLs(answer.units, discoverUnitURLs(doc))
          IN \/ Goto("save") /\ UNCHANGED page
             \/ \E next \in NextPage(answer.next, parsed.items) :
                  /\ url' = next
                  /\ visited' = visited \union {next}
                  /\ Goto("navigate")
                  /\ UNCHANGED phase
    BY DEF Extract
  <2> QED
    BY <2>1, NextPageIsNew DEF Goto
<1> QED
  BY <1>5, <1>6, <1>7

\* Each attempt begins with its first page and none read.
LEMMA FirstPage ==
    ASSUME req.login => phase' = "login" /\ url' = LoginURL,
           ~ req.login => phase' = "pages" /\ url' = Home,
           visited' = {url'}, extracted' = <<>>, pc' = "start"
    PROVE  RunInv'
BY DEF RunInv, PageInv, NoPageTwice, NoPromptExtracted, IsInjective

LEMMA RunStep == RunInv /\ [Next]_vars => RunInv'
<1> SUFFICES ASSUME RunInv, [Next]_vars PROVE RunInv'
  OBVIOUS
<1> USE DEF page, browser, history, Goto, sendError, BrowserFails, Return, Opens
<1>1. CASE Start \/ Navigate \/ NavigateFails \/ ExtractFails \/ Save
  BY <1>1, PageFrame DEF Start, Navigate, NavigateFails, ExtractFails, Save
<1>2. CASE SnapshotFails \/ WaitFails \/ WaitEnds
  BY <1>2, PageFrame DEF SnapshotFails, WaitFails, WaitEnds
<1>3. CASE Snapshot
  <2>1. UNCHANGED extracted /\ pc = "snapshot"
    BY <1>3 DEF Snapshot
  <2>2. CASE look' = "nobody" /\ Leaves
    BY <2>1, <2>2, LeavesPage
  <2>3. CASE UNCHANGED page /\ pc' \in {"returned", "handoff"}
    BY <2>1, <2>3, PageFrame
  <2> QED
    BY <1>3, <2>2, <2>3 DEF Snapshot
<1>4. CASE LookAgain
  <2>1. UNCHANGED extracted /\ pc = "look again"
    BY <1>4 DEF LookAgain
  <2>2. CASE look' = "nobody" /\ Leaves
    BY <2>1, <2>2, LeavesPage
  <2>3. CASE UNCHANGED page /\ pc' = "returned"
    BY <2>1, <2>3, PageFrame
  <2> QED
    BY <1>4, <2>2, <2>3 DEF LookAgain
<1>5. CASE Extract
  BY <1>5, ExtractPage
<1>6. CASE Retry
  BY <1>6, FirstPage DEF Retry
<1>7. CASE ContextEnds \/ UNCHANGED vars
  <2>1. UNCHANGED <<url, phase, visited, extracted, pc, look, session>>
    BY <1>7 DEF ContextEnds, vars
  <2> QED
    BY <2>1 DEF RunInv, PageInv, NoPageTwice, NoPromptExtracted
<1> QED
  BY <1>1, <1>2, <1>3, <1>4, <1>5, <1>6, <1>7 DEF Next, Handler

\* RunInv holds from the start and through every step.
THEOREM RunInvariant == Spec => []RunInv
<1>1. Init => RunInv
  BY DEF Init, RunInv, PageInv, NoPageTwice, NoPromptExtracted, IsInjective
<1> QED
  BY <1>1, RunStep, PTL DEF Spec

\* An attempt reads no page twice and begins with the payload's: whatever the
\* model makes up for next_page_url, the loop visits every URL at most once.
THEOREM PagesOnce == Spec => []NoPageTwice
<1>1. RunInv => NoPageTwice
  BY DEF RunInv
<1> QED
  BY <1>1, RunInvariant, PTL

\* No prompt for a login or a captcha goes to the model.
THEOREM PromptsKept == Spec => []NoPromptExtracted
<1>1. RunInv => NoPromptExtracted
  BY DEF RunInv
<1> QED
  BY <1>1, RunInvariant, PTL

-----------------------------------------------------------------------------
(* OneEndPerAttempt.                                                       *)

Entry == [attempt : Attempts, kind : {"progress", "challenge"} \union Ends]

\* What returned and stored say of each attempt, and when a browser session or a
\* challenge is open.
Returns ==
    /\ attempt \in Attempts
    /\ events \in Seq(Entry)
    /\ \A i \in 1..Len(events) : events[i].attempt <= attempt
    /\ returned \in [Attempts -> {"running", "nil", "error", "cancelled"}]
    /\ stored \subseteq Attempts
    /\ \A a \in stored : returned[a] = "nil"
    /\ \A a \in Attempts : a < attempt => returned[a] # "running"
    /\ \A a \in Attempts : a > attempt => returned[a] = "running"
    /\ returned[attempt] = "running" <=> pc # "returned"
    /\ challenge => pc = "handoff"
    /\ session => pc \in {"snapshot", "look again", "handoff"}
    /\ died \subseteq Attempts /\ \A a \in died : returned[a] # "running"

\* The index i holds the end of the attempt a.
EndsAt(a, i) ==
    /\ i \in 1..Len(events)
    /\ events[i].attempt = a /\ events[i].kind \in Ends
    /\ \A k \in 1..Len(events) :
          events[k].attempt = a => k <= i /\ (events[k].kind \in Ends => k = i)
    /\ returned[a] = "cancelled" <=> events[i].kind = "cancelled"
    /\ returned[a] = "nil" <=> a \in stored
    /\ a \in stored => events[i].kind = "done"
    /\ events[i].kind # "done" =>
          (events[i].kind = "cancelled" <=> a \in ctxDone \union died)

\* OneEndPerAttempt for one attempt.
OneEnd(a) ==
    /\ returned[a] = "running" =>
          \A i \in 1..Len(events) : events[i].attempt = a => events[i].kind \notin Ends
    /\ returned[a] # "running" => \E i \in 1..Len(events) : EndsAt(a, i)

EndInv == Returns /\ \A a \in Attempts : OneEnd(a)

\* new is old and what the present attempt has told since, no end.
Continues(old, new) ==
    /\ new \in Seq(Entry) /\ Len(old) <= Len(new)
    /\ \A i \in 1..Len(old) : new[i] = old[i]
    /\ \A i \in 1..Len(new) :
          i > Len(old) => new[i].attempt = attempt /\ new[i].kind \notin Ends

LEMMA AttemptsAreInts == \A a \in Attempts : a \in Int /\ a <= a
BY ExtractRunAssumption DEF ExtractRunAssumption, Attempts

\* What is in a log.
LEMMA LogEntries ==
    ASSUME NEW log \in Seq(Entry)
    PROVE  /\ Len(log) \in Nat /\ DOMAIN log = 1..Len(log)
           /\ \A i \in 1..Len(log) :
                 /\ log[i] \in Entry /\ log[i].attempt \in Attempts
                 /\ log[i].attempt \in Int
<1>1. Attempts \subseteq Int
  BY AttemptsAreInts
<1>2. /\ Len(log) \in Nat /\ DOMAIN log = 1..Len(log)
      /\ \A i \in 1..Len(log) : log[i] \in Entry
  OBVIOUS
<1>3. \A e \in Entry : e.attempt \in Attempts
  BY DEF Entry
<1> QED
  BY <1>1, <1>2, <1>3

LEMMA ContinuesAt ==
    ASSUME NEW old \in Seq(Entry), NEW new, Continues(old, new),
           NEW i \in 1..Len(new)
    PROVE  \/ i \in 1..Len(old) /\ new[i] = old[i]
           \/ i \notin 1..Len(old) /\ new[i].attempt = attempt /\ new[i].kind \notin Ends
<1>1. new \in Seq(Entry) /\ Len(old) \in Nat /\ Len(new) \in Nat
  BY DEF Continues
<1> QED
  BY <1>1 DEF Continues

LEMMA ContinuesFrom ==
    ASSUME NEW old \in Seq(Entry), NEW new, Continues(old, new),
           NEW i \in 1..Len(old)
    PROVE  i \in 1..Len(new) /\ new[i] = old[i]
<1>1. new \in Seq(Entry) /\ Len(old) \in Nat /\ Len(new) \in Nat
  BY DEF Continues
<1> QED
  BY <1>1 DEF Continues

\* An event that ends nothing goes on with the log.
LEMMA TellContinues ==
    ASSUME NEW log \in Seq(Entry), attempt \in Attempts,
           NEW kind \in {"progress", "challenge"}
    PROVE  Continues(log, Tell(log, kind))
<1>1. CASE Tell(log, kind) = log
  BY <1>1 DEF Continues
<1>2. CASE Tell(log, kind) = Append(log, [attempt |-> attempt, kind |-> kind])
  <2>1. [attempt |-> attempt, kind |-> kind] \in Entry /\ kind \notin Ends
    BY DEF Entry, Ends
  <2> QED
    BY <1>2, <2>1 DEF Continues
<1> QED
  BY <1>1, <1>2 DEF Tell

LEMMA ContinuesTwice ==
    ASSUME NEW r, NEW s, NEW t, r \in Seq(Entry), Continues(r, s), Continues(s, t)
    PROVE  Continues(r, t)
BY SMTT(20) DEF Continues

\* An end is always told.
LEMMA TellEnds ==
    ASSUME NEW log, NEW kind \in Ends
    PROVE  Tell(log, kind) = Append(log, [attempt |-> attempt, kind |-> kind])
BY DEF Tell, Ends

\* A step of the attempt that does not return.
LEMMA GoesOn ==
    ASSUME EndInv, Continues(events, events'),
           UNCHANGED <<attempt, returned, stored, ctxDone, died>>,
           pc # "returned", pc' # "returned",
           challenge' => pc' = "handoff",
           session' => pc' \in {"snapshot", "look again", "handoff"}
    PROVE  EndInv'
<1>0. events \in Seq(Entry) /\ events' \in Seq(Entry) /\ attempt \in Attempts
  BY DEF EndInv, Returns, Continues
<1>1. Returns'
  <2>1. ASSUME NEW i \in 1..Len(events') PROVE events'[i].attempt <= attempt'
    <3>1. attempt <= attempt
      BY <1>0, AttemptsAreInts
    <3>2. \A j \in 1..Len(events) : events[j].attempt <= attempt
      BY DEF EndInv, Returns
    <3> QED
      BY <1>0, <3>1, <3>2, ContinuesAt DEF EndInv
  <2> QED
    BY <2>1 DEF EndInv, Returns, Continues
<1>2. ASSUME NEW a \in Attempts PROVE OneEnd(a)'
  <2>1. CASE returned[a] = "running"
    <3>1. \A i \in 1..Len(events) : events[i].attempt = a => events[i].kind \notin Ends
      BY <2>1 DEF EndInv, OneEnd
    <3>2. \A i \in 1..Len(events') : events'[i].attempt = a => events'[i].kind \notin Ends
      BY <1>0, <3>1, ContinuesAt
    <3> QED
      BY <2>1, <3>2 DEF OneEnd
  <2>2. CASE returned[a] # "running"
    <3>1. a # attempt
      BY <2>2 DEF EndInv, Returns
    <3>2. PICK i \in 1..Len(events) : EndsAt(a, i)
      BY <2>2 DEF EndInv, OneEnd
    <3>3. i \in 1..Len(events') /\ events'[i] = events[i]
      BY <1>0, ContinuesFrom
    <3>4. ASSUME NEW k \in 1..Len(events'), events'[k].attempt = a
          PROVE  k \in 1..Len(events) /\ events'[k] = events[k]
      BY <1>0, <3>1, <3>4, ContinuesAt
    <3>5. EndsAt(a, i)'
      BY <3>2, <3>3, <3>4 DEF EndsAt
    <3> QED
      BY <2>2, <3>3, <3>5 DEF OneEnd
  <2> QED
    BY <2>1, <2>2
<1> QED
  BY <1>1, <1>2 DEF EndInv

\* A step that returns and tells it.
LEMMA RunEnds ==
    ASSUME EndInv, NEW log, Continues(events, log), NEW kind \in Ends,
           events' = Append(log, [attempt |-> attempt, kind |-> kind]),
           NEW how \in {"nil", "error", "cancelled"}, Return(how),
           how = "cancelled" <=> kind = "cancelled",
           \/ how = "nil" /\ kind = "done" /\ stored' = stored \union {attempt}
           \/ how # "nil" /\ UNCHANGED stored,
           died' = died \/ died' = died \union {attempt},
           kind # "done" => (kind = "cancelled" <=> attempt \in ctxDone \union died'),
           UNCHANGED <<attempt, ctxDone>>, pc # "returned", ~challenge', ~session'
    PROVE  EndInv'
<1> DEFINE e == [attempt |-> attempt, kind |-> kind]
           n == Len(log) + 1
<1>1. /\ attempt \in Attempts /\ e \in Entry /\ log \in Seq(Entry) /\ events \in Seq(Entry)
      /\ Len(events) <= Len(log)
  BY DEF EndInv, Returns, Entry, Continues
<1>2. /\ events' \in Seq(Entry) /\ Len(events') = n /\ n \in 1..n /\ Len(log) \in Nat
      /\ events'[n] = e /\ \A i \in 1..Len(log) : events'[i] = log[i]
  BY <1>1
<1>3. /\ pc' = "returned" /\ returned'[attempt] = how
      /\ returned' \in [Attempts -> {"running", "nil", "error", "cancelled"}]
      /\ \A a \in Attempts : a # attempt => returned'[a] = returned[a]
  BY <1>1 DEF Return, EndInv, Returns
<1>4. \A a \in Attempts : a # attempt => /\ a \in stored' <=> a \in stored
                                         /\ a \in died' <=> a \in died
  OBVIOUS
<1>5. how = "nil" <=> attempt \in stored'
  <2>1. attempt \notin stored
    BY DEF EndInv, Returns
  <2> QED
    BY <2>1
<1>6. Returns'
  <2>1. ASSUME NEW i \in 1..Len(log) PROVE log[i].attempt <= attempt
    <3>1. attempt <= attempt
      BY <1>1, AttemptsAreInts
    <3>2. \A j \in 1..Len(events) : events[j].attempt <= attempt
      BY DEF EndInv, Returns
    <3> QED
      BY <1>1, <3>1, <3>2, ContinuesAt
  <2>2. attempt <= attempt
    BY <1>1 DEF Attempts
  <2>3. \A i \in 1..Len(events') : events'[i].attempt <= attempt'
    <3> SUFFICES ASSUME NEW i \in 1..Len(events') PROVE events'[i].attempt <= attempt
      OBVIOUS
    <3>1. i = n \/ i \in 1..Len(log)
      BY <1>2
    <3> QED
      BY <1>2, <2>1, <2>2, <3>1
  <2>4. stored' \subseteq Attempts /\ \A a \in stored' : returned'[a] = "nil"
    BY <1>1, <1>3, <1>5 DEF EndInv, Returns
  <2>5. /\ \A a \in Attempts : a < attempt' => returned'[a] # "running"
        /\ \A a \in Attempts : a > attempt' => returned'[a] = "running"
    BY <1>3, <1>1 DEF EndInv, Returns, Attempts
  <2>6. died' \subseteq Attempts /\ \A a \in died' : returned'[a] # "running"
    <3>1. ASSUME NEW a \in died' PROVE returned'[a] # "running"
      <4>1. CASE a = attempt
        BY <1>3, <4>1
      <4>2. CASE a # attempt
        <5>1. a \in died /\ returned[a] # "running"
          BY <4>2 DEF EndInv, Returns
        <5>2. returned'[a] = returned[a]
          BY <1>3, <4>2 DEF EndInv, Returns
        <5> QED
          BY <5>1, <5>2
      <4> QED
        BY <4>1, <4>2
    <3>2. died' \subseteq Attempts
      BY <1>1 DEF EndInv, Returns
    <3> QED
      BY <3>1, <3>2
  <2> QED
    BY <1>1, <1>2, <1>3, <2>3, <2>4, <2>5, <2>6 DEF Returns
<1>7. ASSUME NEW a \in Attempts PROVE OneEnd(a)'
  <2>1. CASE a = attempt
    <3>1. ASSUME NEW k \in 1..Len(events'), events'[k].attempt = a, events'[k].kind \in Ends
          PROVE  k = n
      <4>1. \A i \in 1..Len(events) : events[i].attempt = a => events[i].kind \notin Ends
        BY <2>1 DEF EndInv, OneEnd, Returns
      <4>2. \A i \in 1..Len(log) : log[i].attempt = a => log[i].kind \notin Ends
        BY <1>1, <4>1, ContinuesAt
      <4>3. k = n \/ k \in 1..Len(log)
        BY <1>2
      <4> QED
        BY <1>2, <3>1, <4>2, <4>3
    <3>2. EndsAt(a, n)'
      BY <1>2, <1>3, <1>5, <2>1, <3>1 DEF EndsAt
    <3> QED
      BY <1>2, <1>3, <2>1, <3>2 DEF OneEnd
  <2>2. CASE a # attempt
    <3>1. ASSUME NEW k \in 1..Len(events'), events'[k].attempt = a
          PROVE  k \in 1..Len(events) /\ events'[k] = events[k]
      <4>1. k # n
        BY <1>2, <2>2, <3>1
      <4>2. k \in 1..Len(log) /\ events'[k] = log[k]
        BY <1>2, <4>1
      <4> QED
        BY <1>1, <2>2, <3>1, <4>2 DEF Continues
    <3>2. CASE returned[a] = "running"
      BY <1>3, <2>2, <3>1, <3>2 DEF EndInv, OneEnd
    <3>3. CASE returned[a] # "running"
      <4>1. PICK i \in 1..Len(events) : EndsAt(a, i)
        BY <3>3 DEF EndInv, OneEnd
      <4>2. i \in 1..Len(events') /\ events'[i] = events[i]
        BY <1>1, <1>2 DEF Continues
      <4>3. EndsAt(a, i)'
        BY <1>3, <1>4, <2>2, <3>1, <4>1, <4>2 DEF EndsAt
      <4> QED
        BY <1>3, <2>2, <3>3, <4>2, <4>3 DEF OneEnd
    <3> QED
      BY <3>2, <3>3
  <2> QED
    BY <2>1, <2>2
<1> QED
  BY <1>6, <1>7 DEF EndInv

LEMMA GotoKeeps ==
    ASSUME EndInv, NEW here, Goto(here), UNCHANGED <<attempt, ctxDone, died>>,
           pc # "returned", here # "returned",
           challenge' => here = "handoff",
           session' => here \in {"snapshot", "look again", "handoff"}
    PROVE  EndInv'
<1>1. Continues(events, events')
  BY TellContinues DEF Goto, EndInv, Returns
<1> QED
  BY <1>1, GoesOn DEF Goto

LEMMA ErrorKeeps ==
    ASSUME EndInv, NEW canceled \in BOOLEAN, sendError(canceled),
           died' = died \union {a \in {attempt} : canceled}, UNCHANGED <<attempt, ctxDone>>,
           pc # "returned", ~challenge', ~session'
    PROVE  EndInv'
<1> DEFINE log == Tell(events, "progress")
           kind == IF canceled \/ attempt \in ctxDone THEN "cancelled" ELSE "error"
<1>1. Continues(events, log)
  BY TellContinues DEF EndInv, Returns
<1>2. /\ kind \in Ends /\ kind \in {"nil", "error", "cancelled"} /\ kind # "nil"
      /\ kind = "cancelled" <=> canceled \/ attempt \in ctxDone
  BY DEF Ends
<1>3. /\ events' = Append(log, [attempt |-> attempt, kind |-> kind])
      /\ Return(kind) /\ UNCHANGED stored
  BY <1>2, TellEnds DEF sendError
<1>4. attempt \notin died
  BY DEF EndInv, Returns
<1>5. kind = "cancelled" <=> attempt \in ctxDone \union died'
  <2> HIDE DEF kind
  <2> QED
    BY <1>2, <1>4
<1>6. died' = died \/ died' = died \union {attempt}
  OBVIOUS
<1> HIDE DEF log, kind
<1> QED
  BY <1>1, <1>2, <1>3, <1>5, <1>6, RunEnds

\* An error of the attempt's own, or one that wraps context.Canceled.
LEMMA PlainKeeps ==
    ASSUME EndInv, sendError(FALSE), UNCHANGED <<attempt, ctxDone, died>>,
           pc # "returned", ~challenge', ~session'
    PROVE  EndInv'
<1>1. died' = died \union {a \in {attempt} : FALSE} /\ FALSE \in BOOLEAN
  OBVIOUS
<1> QED
  BY <1>1, ErrorKeeps

LEMMA BrowserKeeps ==
    ASSUME EndInv, req.login \in BOOLEAN, BrowserFails, UNCHANGED <<attempt, ctxDone>>,
           pc # "returned", ~challenge', ~session'
    PROVE  EndInv'
<1>1. PICK dies \in {FALSE, req.login} :
        sendError(dies) /\ died' = died \union {a \in {attempt} : dies}
  BY DEF BrowserFails
<1>2. dies \in BOOLEAN
  OBVIOUS
<1> QED
  BY <1>1, <1>2, ErrorKeeps

\* The payload says whether it requires a login.
PayloadInv == req.login \in BOOLEAN

LEMMA PayloadStep == PayloadInv /\ [Next]_vars => PayloadInv'
<1> SUFFICES ASSUME PayloadInv, [Next]_vars PROVE UNCHANGED req
  BY DEF PayloadInv
<1>1. CASE Start \/ Navigate \/ NavigateFails \/ Snapshot \/ SnapshotFails \/ LookAgain
  BY <1>1 DEF Start, Navigate, NavigateFails, Snapshot, SnapshotFails, LookAgain
<1>2. CASE WaitFails \/ Extract \/ ExtractFails \/ Save
  BY <1>2 DEF WaitFails, Extract, ExtractFails, Save
<1>3. CASE WaitEnds \/ Retry \/ ContextEnds \/ UNCHANGED vars
  BY <1>3 DEF WaitEnds, Retry, ContextEnds, vars
<1> QED
  BY <1>1, <1>2, <1>3 DEF Next, Handler

LEMMA EndStep == EndInv /\ PayloadInv /\ [Next]_vars => EndInv'
<1> SUFFICES ASSUME EndInv, PayloadInv, [Next]_vars PROVE EndInv'
  OBVIOUS
<1> USE DEF browser, faults
<1>0. /\ pc # "handoff" => ~challenge
      /\ pc \notin {"snapshot", "look again", "handoff"} => ~session
  BY DEF EndInv, Returns
<1>1. CASE Start
  <2>1. pc = "start" /\ UNCHANGED <<attempt, faults, session, challenge>> /\ ~session /\ ~challenge
    BY <1>0, <1>1 DEF Start
  <2>2. CASE Goto("navigate")
    BY <2>1, <2>2, GotoKeeps
  <2>3. CASE /\ LET kind == IF attempt \in ctxDone THEN "cancelled" ELSE "error"
                IN events' = Tell(events, kind) /\ Return(kind)
             /\ UNCHANGED stored
    <3> DEFINE kind == IF attempt \in ctxDone THEN "cancelled" ELSE "error"
    <3>1. /\ kind \in Ends /\ kind \in {"nil", "error", "cancelled"} /\ kind # "nil"
          /\ kind = "cancelled" <=> attempt \in ctxDone
      BY DEF Ends
    <3>2. events' = Append(events, [attempt |-> attempt, kind |-> kind])
      BY <2>3, <3>1, TellEnds
    <3>3. Continues(events, events)
      <4>1. events \in Seq(Entry)
        BY DEF EndInv, Returns
      <4>2. Len(events) \in Nat
        BY <4>1
      <4> QED
        BY <4>1, <4>2 DEF Continues
    <3>4. Return(kind) /\ UNCHANGED stored
      BY <2>3
    <3>5. kind = "cancelled" <=> attempt \in ctxDone \union died'
      <4>1. attempt \notin died
        BY <2>1 DEF EndInv, Returns
      <4> HIDE DEF kind
      <4> QED
        BY <2>1, <3>1, <4>1
    <3> HIDE DEF kind
    <3> QED
      BY <2>1, <3>1, <3>2, <3>3, <3>4, <3>5, RunEnds
  <2> QED
    BY <1>1, <2>2, <2>3 DEF Start
<1>2. CASE Navigate
  <2>1. UNCHANGED <<attempt, faults, challenge>> /\ ~challenge
    BY <1>0, <1>2 DEF Navigate
  <2>2. CASE pc = "navigate" /\ Opens("snapshot")
    BY <2>1, <2>2, GotoKeeps DEF Opens
  <2>3. CASE pc = "reopen" /\ Opens("look again")
    BY <2>1, <2>3, GotoKeeps DEF Opens
  <2> QED
    BY <1>2, <2>2, <2>3 DEF Navigate
<1>3. CASE NavigateFails
  <2>1. /\ pc \in {"navigate", "reopen"} /\ BrowserFails
        /\ UNCHANGED <<attempt, ctxDone, session, challenge>>
    BY <1>3 DEF NavigateFails
  <2> QED
    BY <1>0, <2>1, BrowserKeeps DEF PayloadInv
<1>4. CASE SnapshotFails
  <2>1. /\ pc \in {"snapshot", "look again"} /\ BrowserFails /\ session' = FALSE
        /\ UNCHANGED <<attempt, ctxDone, challenge>>
    BY <1>4 DEF SnapshotFails
  <2> QED
    BY <1>0, <2>1, BrowserKeeps DEF PayloadInv
<1>14. CASE ExtractFails
  <2>1. /\ pc = "extract" /\ sendError(FALSE)
        /\ UNCHANGED <<attempt, faults, session, challenge>>
    BY <1>14 DEF ExtractFails
  <2> QED
    BY <1>0, <2>1, PlainKeeps
<1>5. ASSUME Leaves, UNCHANGED <<attempt, faults>>, pc \in {"snapshot", "look again"} PROVE EndInv'
  <2>1. ~session' /\ ~challenge' /\ (Goto("navigate") \/ Goto("extract"))
    BY <1>0, <1>5 DEF Leaves
  <2> QED
    BY <1>5, <2>1, GotoKeeps
<1>6. CASE Snapshot
  <2>1. pc = "snapshot" /\ UNCHANGED <<attempt, faults>> /\ ~challenge
    BY <1>0, <1>6 DEF Snapshot
  <2>2. CASE look' = "nobody" /\ Leaves
    BY <1>5, <2>1, <2>2
  <2>3. CASE session' = FALSE /\ sendError(FALSE) /\ UNCHANGED challenge
    BY <2>1, <2>3, PlainKeeps
  <2>4. CASE /\ pc' = "handoff"
             /\ events' = Tell(Tell(events, "progress"), "challenge")
             /\ UNCHANGED <<returned, stored>>
    <3>1. Continues(events, Tell(events, "progress"))
      BY TellContinues DEF EndInv, Returns
    <3>2. Continues(Tell(events, "progress"), events')
      BY <2>4, <3>1, TellContinues DEF EndInv, Returns, Continues
    <3>3. Continues(events, events')
      BY <3>1, <3>2, ContinuesTwice DEF EndInv, Returns
    <3> QED
      BY <2>1, <2>4, <3>3, GoesOn
  <2> QED
    BY <1>6, <2>2, <2>3, <2>4 DEF Snapshot
<1>7. CASE WaitEnds
  <2>1. pc = "handoff" /\ UNCHANGED <<attempt, faults>> /\ ~challenge' /\ ~session'
    BY <1>7 DEF WaitEnds
  <2>2. CASE Goto("reopen")
    BY <2>1, <2>2, GotoKeeps
  <2>3. CASE sendError(FALSE)
    BY <2>1, <2>3, PlainKeeps
  <2> QED
    BY <1>7, <2>2, <2>3 DEF WaitEnds
<1>8. CASE WaitFails
  BY <1>8, PlainKeeps DEF WaitFails
<1>9. CASE LookAgain
  <2>1. pc = "look again" /\ UNCHANGED <<attempt, faults>> /\ ~challenge
    BY <1>0, <1>9 DEF LookAgain
  <2>2. CASE Leaves
    BY <1>5, <2>1, <2>2
  <2>3. CASE session' = FALSE /\ sendError(FALSE) /\ UNCHANGED challenge
    BY <2>1, <2>3, PlainKeeps
  <2> QED
    BY <1>9, <2>2, <2>3 DEF LookAgain
<1>10. CASE Extract
  <2>1. /\ pc = "extract" /\ UNCHANGED <<attempt, faults, session, challenge>> /\ ~session /\ ~challenge
        /\ Goto("save") \/ Goto("navigate")
    BY <1>0, <1>10 DEF Extract
  <2> QED
    BY <2>1, GotoKeeps
<1>11. CASE Save
  <2>1. pc = "save" /\ UNCHANGED <<attempt, faults, session, challenge>> /\ ~session /\ ~challenge
    BY <1>0, <1>11 DEF Save
  <2>2. Continues(events, Tell(events, "progress"))
    BY TellContinues DEF EndInv, Returns
  <2>3. "done" \in Ends /\ "done" # "cancelled"
    BY DEF Ends
  <2>4. events' = Append(Tell(events, "progress"), [attempt |-> attempt, kind |-> "done"])
    BY <1>11, <2>3, TellEnds DEF Save
  <2>5. CASE stored' = stored \union {attempt} /\ Return("nil")
    BY <2>1, <2>2, <2>3, <2>4, <2>5, RunEnds
  <2>6. CASE UNCHANGED stored /\ Return("error")
    BY <2>1, <2>2, <2>3, <2>4, <2>6, RunEnds
  <2> QED
    BY <1>11, <2>5, <2>6 DEF Save
<1>12. CASE Retry
  <2>1. /\ pc = "returned" /\ attempt < MaxAttempts /\ attempt' = attempt + 1 /\ pc' = "start"
        /\ UNCHANGED <<events, returned, stored, ctxDone, died, session, challenge>>
        /\ ~session /\ ~challenge
    BY <1>0, <1>12 DEF Retry, outcome
  <2>2. attempt \in Attempts /\ attempt' \in Attempts /\ attempt' > attempt
    BY <2>1, ExtractRunAssumption DEF ExtractRunAssumption, EndInv, Returns, Attempts
  <2>3. \A a \in Attempts : /\ a < attempt' => a < attempt \/ a = attempt
                            /\ a > attempt' => a > attempt
    BY <2>1, <2>2 DEF Attempts
  <2>4. \A i \in 1..Len(events') : events'[i].attempt <= attempt'
    <3>1. \A m \in Int : m <= attempt => m <= attempt'
      BY <2>1, <2>2 DEF Attempts
    <3>2. \A i \in 1..Len(events) : events[i].attempt \in Int /\ events[i].attempt <= attempt
      BY LogEntries DEF EndInv, Returns
    <3> QED
      BY <2>1, <3>1, <3>2
  <2>5. Returns'
    BY <2>1, <2>2, <2>3, <2>4 DEF EndInv, Returns
  <2>6. ASSUME NEW a \in Attempts PROVE OneEnd(a)'
    <3>1. OneEnd(a)
      BY DEF EndInv
    <3> QED
      BY <2>1, <3>1 DEF OneEnd, EndsAt
  <2> QED
    BY <2>5, <2>6 DEF EndInv
<1>13. CASE UNCHANGED vars
  <2>1. UNCHANGED <<pc, attempt, events, returned, stored, ctxDone, died, session, challenge>>
    BY <1>13 DEF vars, outcome
  <2>2. Returns'
    BY <2>1 DEF EndInv, Returns
  <2>3. ASSUME NEW a \in Attempts PROVE OneEnd(a)'
    <3>1. OneEnd(a)
      BY DEF EndInv
    <3> QED
      BY <2>1, <3>1 DEF OneEnd, EndsAt
  <2> QED
    BY <2>2, <2>3 DEF EndInv
<1>15. CASE ContextEnds
  <2>1. /\ UNCHANGED <<pc, attempt, events, returned, stored, died, session, challenge>>
        /\ pc # "returned" /\ ctxDone' = ctxDone \union {attempt}
    BY <1>15 DEF ContextEnds, outcome
  <2>2. Returns'
    BY <2>1 DEF EndInv, Returns
  <2>3. ASSUME NEW a \in Attempts PROVE OneEnd(a)'
    <3>1. OneEnd(a)
      BY DEF EndInv
    <3>2. CASE returned[a] = "running"
      BY <2>1, <3>1, <3>2 DEF OneEnd
    <3>3. CASE returned[a] # "running"
      <4>1. a # attempt
        BY <2>1, <3>3 DEF EndInv, Returns
      <4>2. a \in ctxDone' \union died' <=> a \in ctxDone \union died
        BY <2>1, <4>1
      <4>3. PICK i \in 1..Len(events) : EndsAt(a, i)
        BY <3>1, <3>3 DEF OneEnd
      <4>4. EndsAt(a, i)'
        BY <2>1, <4>2, <4>3 DEF EndsAt
      <4> QED
        BY <2>1, <3>3, <4>4 DEF OneEnd
    <3> QED
      BY <3>2, <3>3
  <2> QED
    BY <2>2, <2>3 DEF EndInv
<1> QED
  BY <1>1, <1>2, <1>3, <1>4, <1>6, <1>7, <1>8, <1>9, <1>10, <1>11, <1>12, <1>13, <1>14, <1>15
  DEF Next, Handler

LEMMA EndInit == Init => EndInv
<1> SUFFICES ASSUME Init PROVE EndInv
  OBVIOUS
<1>1. Len(<<>>) = 0 /\ <<>> \in Seq(Entry) /\ 1 \in Attempts
  BY ExtractRunAssumption DEF ExtractRunAssumption, Attempts
<1> QED
  BY <1>1 DEF Init, EndInv, Returns, OneEnd, Attempts

LEMMA EndInvariant == Spec => []EndInv
<1>1. Init => PayloadInv
  BY DEF Init, PayloadInv
<1>2. Spec => []PayloadInv
  BY <1>1, PayloadStep, PTL DEF Spec
<1> QED
  BY <1>2, EndInit, EndStep, PTL DEF Spec

\* Every attempt that returned has told its topic so once and last, and has left
\* nothing open, wherever its context was cancelled or Chromium died: "done" if it
\* stored the media, and of one that failed "cancelled" if and only if one of those
\* two had happened.
THEOREM TruthfulEnds == Spec => []OneEndPerAttempt
<1>1. EndInv => OneEndPerAttempt
  <2> SUFFICES ASSUME EndInv PROVE OneEndPerAttempt
    OBVIOUS
  <2>1. pc = "returned" => ~session /\ ~challenge
    BY DEF EndInv, Returns
  <2>2. DOMAIN events = 1..Len(events)
    BY LogEntries DEF EndInv, Returns
  <2>3. ASSUME NEW a \in Attempts, returned[a] = "running"
        PROVE  \A i \in DOMAIN events : events[i].attempt = a => events[i].kind \notin Ends
    BY <2>2, <2>3 DEF EndInv, OneEnd
  <2>4. ASSUME NEW a \in Attempts, returned[a] # "running"
        PROVE  \E i \in DOMAIN events : EndsAt(a, i)
    BY <2>2, <2>4 DEF EndInv, OneEnd
  <2>5. ASSUME NEW a \in Attempts, NEW i \in DOMAIN events, EndsAt(a, i)
        PROVE  LET told == {k \in DOMAIN events : events[k].attempt = a} IN
               /\ i \in told
               /\ {k \in told : events[k].kind \in Ends} = {i}
               /\ \A k \in told : k <= i
    BY <2>2, <2>5 DEF EndsAt
  <2> QED
    BY <2>1, <2>3, <2>4, <2>5 DEF OneEndPerAttempt, EndsAt
<1>2. Spec => []EndInv
  BY EndInvariant
<1> QED
  BY <1>1, <1>2, PTL

-----------------------------------------------------------------------------
(* What the pages prove.                                                   *)

\* A number's value is one.
LEMMA ValueIsNumber == ASSUME NEW n \in Seq(Nat) PROVE numericUnitValue(n) \in Nat
<1> DEFINE Loop(f) == [i \in 0..Len(n) |-> IF i = 0 THEN 0 ELSE 10 * f[i - 1] + n[i]]
           value == CHOOSE f : f = Loop(f)
           step == [i \in 1..Len(n) |-> [v \in Nat |-> 10 * v + n[i]]]
<1>1. PICK f \in [0..Len(n) -> Nat] :
          f[0] = 0 /\ \A i \in 1..Len(n) : f[i] = step[i][f[i - 1]]
  <2>1. step \in [1..Len(n) -> [Nat -> Nat]]
    <3>1. \A i \in 1..Len(n), v \in Nat : 10 * v + n[i] \in Nat
      OBVIOUS
    <3> QED
      BY <3>1
  <2>2. Len(n) \in Nat /\ 0 \in Nat
    OBVIOUS
  <2> HIDE DEF step
  <2> QED
    BY <2>1, <2>2, NumberRecursion
<1>2. f = Loop(f)
  <2>1. ASSUME NEW i \in 1..Len(n) PROVE f[i] = 10 * f[i - 1] + n[i]
    <3>1. f[i] = step[i][f[i - 1]]
      <4> HIDE DEF step
      <4> QED
        BY <1>1
    <3>2. f[i - 1] \in Nat
      BY i - 1 \in 0..Len(n)
    <3> QED
      BY <3>1, <3>2
  <2>2. ASSUME NEW i \in 0..Len(n) PROVE f[i] = Loop(f)[i]
    <3>1. CASE i = 0
      BY <1>1, <3>1
    <3>2. CASE i # 0
      BY <2>1, <3>2
    <3> QED
      BY <3>1, <3>2
  <2>3. Loop(f) = [i \in 0..Len(n) |-> Loop(f)[i]] /\ f = [i \in 0..Len(n) |-> f[i]]
    OBVIOUS
  <2> HIDE DEF Loop
  <2> QED
    BY <2>2, <2>3
<1>3. value = Loop(value)
  <2> HIDE DEF Loop
  <2> QED
    BY <1>2
<1>4. /\ 0 \in 0..Len(n) => value[0] = 0
      /\ \A i \in 1..Len(n) : value[i] = 10 * value[i - 1] + n[i]
  <2>1. \A i \in 0..Len(n) : Loop(value)[i] = IF i = 0 THEN 0 ELSE 10 * value[i - 1] + n[i]
    <3> HIDE DEF value
    <3> QED
      OBVIOUS
  <2> HIDE DEF value, Loop
  <2> QED
    BY <1>3, <2>1
<1> DEFINE P == {m \in Nat : m <= Len(n) => value[m] \in Nat}
<1>5. 0 \in P
  <2> HIDE DEF value
  <2> QED
    BY <1>4
<1>6. ASSUME NEW m \in P PROVE m + 1 \in P
  <2> HIDE DEF value
  <2> SUFFICES ASSUME m + 1 <= Len(n) PROVE value[m + 1] \in Nat
    OBVIOUS
  <2>1. value[m + 1] = 10 * value[m] + n[m + 1] /\ value[m] \in Nat /\ n[m + 1] \in Nat
    <3>1. m + 1 \in 1..Len(n) /\ m \in Nat /\ m <= Len(n) /\ (m + 1) - 1 = m
      OBVIOUS
    <3> QED
      BY <1>4, <3>1
  <2> QED
    BY <2>1
<1>7. P = Nat
  <2> HIDE DEF P
  <2>1. P \in SUBSET Nat
    BY DEF P
  <2> QED
    BY <1>5, <1>6, <2>1, NatInductionSet
<1>8. value[Len(n)] \in Nat
  <2> HIDE DEF value
  <2> QED
    BY <1>7
<1> QED
  BY <1>8 DEF numericUnitValue

Ordered(s, U) ==
    /\ ToSet(s) = U
    /\ \A i, j \in DOMAIN s : i < j =>
          numericUnitValue(s[i].number) >= numericUnitValue(s[j].number)

\* A finite set of units can be listed in descending order.
LEMMA Sorted ==
    ASSUME NEW U, IsFiniteSet(U), \A u \in U : u.number \in Seq(Nat)
    PROVE  Descending(U) \in [1..Cardinality(U) -> U] /\ Ordered(Descending(U), U)
<1> DEFINE Value(u) == numericUnitValue(u.number)
           Sortable(V) == \E s \in [1..Cardinality(V) -> V] : Ordered(s, V)
           P == {n \in Nat : \A V \in SUBSET U : Cardinality(V) = n => Sortable(V)}
<1>0. \A u \in U : Value(u) \in Nat
  BY ValueIsNumber
<1>1. 0 \in P
  <2> SUFFICES ASSUME NEW V \in SUBSET U, Cardinality(V) = 0 PROVE Sortable(V)
    OBVIOUS
  <2>1. V = {}
    BY FS_Subset, FS_EmptySet
  <2>2. [i \in 1..0 |-> i] \in [1..Cardinality(V) -> V]
    BY <2>1
  <2>3. Ordered([i \in 1..0 |-> i], V)
    BY <2>1 DEF Ordered, ToSet
  <2> QED
    BY <2>2, <2>3
<1>2. ASSUME NEW n \in P PROVE n + 1 \in P
  <2> SUFFICES ASSUME NEW V \in SUBSET U, Cardinality(V) = n + 1 PROVE Sortable(V)
    OBVIOUS
  <2>1. IsFiniteSet(V) /\ V # {}
    BY FS_Subset, FS_EmptySet
  <2>2. PICK u \in V : \A v \in V : Value(u) <= Value(v)
    <3> DEFINE W == {Value(v) : v \in V}
    <3>1. W \in SUBSET Nat /\ W # {}
      BY <1>0, <2>1
    <3>2. PICK m \in W : \A k \in W : m <= k
      <4> HIDE DEF W
      <4> QED
        BY <3>1, LeastNumber
    <3>3. PICK v \in V : m = Value(v)
      OBVIOUS
    <3> QED
      BY <3>2, <3>3
  <2>3. Cardinality(V \ {u}) = n
    <3>1. Cardinality(V \ {u}) = Cardinality(V) - 1
      BY <2>1, FS_RemoveElement
    <3>2. n \in Nat
      OBVIOUS
    <3> QED
      BY <3>1, <3>2
  <2>4. PICK s \in [1..n -> V \ {u}] : Ordered(s, V \ {u})
    BY <2>3
  <2> DEFINE t == [i \in 1..(n + 1) |-> IF i <= n THEN s[i] ELSE u]
  <2>5. t \in [1..Cardinality(V) -> V]
    OBVIOUS
  <2>6. ToSet(t) = V
    <3>1. ASSUME NEW v \in V PROVE v \in ToSet(t)
      <4>1. CASE v = u
        <5>1. t[n + 1] = u /\ n + 1 \in DOMAIN t
          OBVIOUS
        <5> QED
          BY <4>1, <5>1 DEF ToSet
      <4>2. CASE v # u
        <5>1. PICK i \in 1..n : v = s[i]
          BY <2>4, <4>2 DEF Ordered, ToSet
        <5>2. t[i] = v /\ i \in DOMAIN t
          BY <5>1
        <5> QED
          BY <5>2 DEF ToSet
      <4> QED
        BY <4>1, <4>2
    <3> QED
      BY <3>1, <2>5 DEF ToSet
  <2>7. ASSUME NEW i \in DOMAIN t, NEW j \in DOMAIN t, i < j
        PROVE  Value(t[i]) >= Value(t[j])
    <3>1. i \in 1..n /\ t[i] = s[i] /\ s[i] \in V
      BY <2>7
    <3>2. CASE j = n + 1
      <4>1. t[j] = u
        BY <3>2
      <4>2. Value(u) <= Value(s[i])
        BY <2>2, <3>1
      <4>3. Value(u) \in Nat /\ Value(s[i]) \in Nat
        BY <1>0, <3>1
      <4> QED
        BY <3>1, <4>1, <4>2, <4>3
    <3>3. CASE j # n + 1
      <4>1. j \in 1..n /\ t[j] = s[j]
        BY <3>3
      <4> QED
        BY <2>4, <2>7, <3>1, <4>1 DEF Ordered
    <3> QED
      BY <3>2, <3>3
  <2>8. Ordered(t, V)
    <3> HIDE DEF t
    <3> QED
      BY <2>6, <2>7 DEF Ordered
  <2> QED
    BY <2>5, <2>8
<1>3. P = Nat
  <2> HIDE DEF P
  <2>1. P \in SUBSET Nat
    BY DEF P
  <2> QED
    BY <1>1, <1>2, <2>1, NatInductionSet
<1>4. Sortable(U)
  <2>1. Cardinality(U) \in P
    BY <1>3, FS_CardinalityType
  <2> QED
    BY <2>1
<1> QED
  BY <1>4 DEF Descending, Ordered

\* Looking each of finitely many things up finds finitely many.
LEMMA FiniteImage ==
    ASSUME NEW I, IsFiniteSet(I), NEW f PROVE IsFiniteSet({f[x] : x \in I})
<1> DEFINE T == {f[x] : x \in I}
           g == [x \in I |-> f[x]]
<1>1. g \in Surjection(I, T)
  BY DEF Surjection
<1> HIDE DEF g, T
<1>2. IsFiniteSet(T)
  BY <1>1, FS_Surjection
<1> QED
  BY <1>2 DEF T


\* At most one template is taken.
LEMMA OneTemplate ==
    ASSUME NEW R, NEW routes \in Seq([template : R, score : Nat]),
           NEW t \in selectRouteTemplate(routes), NEW u \in selectRouteTemplate(routes)
    PROVE  t = u
<1> DEFINE seen == {r \in ToSet(routes) : r.score > 0}
           Count(r) == Cardinality({i \in DOMAIN routes : routes[i] = r})
           Beats(r, s) == \/ r.score > s.score
                          \/ r.score = s.score /\ Count(r) > Count(s)
<1>1. PICK r \in seen : t = r.template /\ \A s \in seen \ {r} : Beats(r, s)
  BY DEF selectRouteTemplate
<1>2. PICK q \in seen : u = q.template /\ \A s \in seen \ {q} : Beats(q, s)
  BY DEF selectRouteTemplate
<1>3. r.score \in Nat /\ q.score \in Nat
  <2>1. ASSUME NEW i \in 1..Len(routes) PROVE routes[i].score \in Nat
    <3>1. routes[i] \in [template : R, score : Nat]
      BY Entries
    <3> QED
      BY <3>1
  <2> QED
    BY <2>1 DEF ToSet
<1>4. \A s : Count(s) \in Nat
  <2> SUFFICES ASSUME NEW s PROVE Count(s) \in Nat
    OBVIOUS
  <2>1. IsFiniteSet(1..Len(routes))
    BY FS_Interval
  <2>2. {i \in DOMAIN routes : routes[i] = s} \in SUBSET (1..Len(routes))
    OBVIOUS
  <2>3. IsFiniteSet({i \in DOMAIN routes : routes[i] = s})
    BY <2>1, <2>2, FS_Subset
  <2> QED
    BY <2>3, FS_CardinalityType
<1>5. r = q
  <2> SUFFICES ASSUME r # q PROVE FALSE
    OBVIOUS
  <2>1. Beats(r, q) /\ Beats(q, r)
    BY <1>1, <1>2
  <2>2. Count(r) \in Nat /\ Count(q) \in Nat
    BY <1>4
  <2> HIDE DEF Count, seen
  <2> QED
    BY <1>3, <2>1, <2>2
<1> QED
  BY <1>1, <1>2, <1>5

\* Units of different numbers.
Distinct(U) == \A u, v \in U : Same(u, v) => u = v

\* A page proves units of different numbers.
LEMMA FoundUnits ==
    ASSUME NEW doc \in Documents
    PROVE  /\ discoverUnitURLs(doc) \in Seq(Links)
           /\ Distinct(ToSet(discoverUnitURLs(doc)))
<1> DEFINE N(n) == normalizeUnitNumber(n)
           last == {k \in DOMAIN doc.links :
                      \A m \in (k + 1)..Len(doc.links) :
                         N(doc.links[m].number) # N(doc.links[k].number)}
           linked == Linked(doc)
           known == {N(u.number) : u \in linked}
           listed == {n \in doc.visible : N(n) \notin known}
           templates == selectRouteTemplate(doc.routes)
           Routed(n, t) == [number |-> n, url |-> Absolute(Expand[t][n])]
           routed == {Routed(n, t) : n \in listed, t \in templates}
           units == linked \union routed
           found == discoverUnitURLs(doc)
<1>1. /\ doc.links \in Seq(Links)
      /\ doc.routes \in Seq([template : DOMAIN Expand, score : Nat])
      /\ doc.visible \subseteq Seq(Nat) /\ IsFiniteSet(doc.visible)
      /\ \A m, n \in doc.visible : N(m) = N(n) => m = n
      /\ \A n \in doc.visible, t \in DOMAIN Expand : Expand[t][n] \in Urls
  BY PagesAssumption
<1>2. linked = {doc.links[i] : i \in last}
  BY DEF Linked
<1>3. found = Descending(units)
  BY DEF discoverUnitURLs
<1>4. linked \subseteq Links
  BY <1>1, <1>2
<1>5. \A t, u \in templates : t = u
  BY <1>1, OneTemplate
<1>6. templates \subseteq DOMAIN Expand
  <2>1. \A r \in ToSet(doc.routes) : r.template \in DOMAIN Expand
    <3>1. ASSUME NEW i \in 1..Len(doc.routes)
          PROVE  doc.routes[i].template \in DOMAIN Expand
      <4>1. doc.routes[i] \in [template : DOMAIN Expand, score : Nat]
        BY <1>1, Entries
      <4> QED
        BY <4>1
    <3> QED
      BY <1>1, <3>1 DEF ToSet
  <2> QED
    BY <2>1 DEF selectRouteTemplate
<1>7. routed \subseteq Links
  <2>1. ASSUME NEW n \in listed, NEW t \in templates PROVE Routed(n, t) \in Links
    <3>1. n \in Seq(Nat) /\ Expand[t][n] \in Urls
      BY <1>1, <1>6
    <3> QED
      BY <3>1 DEF Links
  <2> QED
    BY <2>1
<1>8. IsFiniteSet(units)
  <2>1. IsFiniteSet(linked)
    <3>1. IsFiniteSet(1..Len(doc.links)) /\ last \in SUBSET (1..Len(doc.links))
      BY <1>1, FS_Interval
    <3>2. IsFiniteSet(last)
      BY <3>1, FS_Subset
    <3> HIDE DEF last
    <3> QED
      BY <1>2, <3>2, FiniteImage
  <2>2. IsFiniteSet(routed)
    <3>1. CASE templates = {}
      BY <3>1, FS_EmptySet
    <3>2. ASSUME NEW t \in templates PROVE IsFiniteSet(routed)
      <4> DEFINE f == [n \in listed |-> Routed(n, t)]
      <4>1. routed = {f[n] : n \in listed}
        <5>1. \A n \in listed : f[n] \in routed
          BY <3>2
        <5>2. ASSUME NEW u \in routed PROVE \E n \in listed : u = f[n]
          <6>1. PICK n \in listed, r \in templates : u = Routed(n, r)
            OBVIOUS
          <6>2. r = t
            BY <1>5, <3>2
          <6> QED
            BY <6>1, <6>2
        <5> HIDE DEF routed, f, listed
        <5> QED
          BY <5>1, <5>2
      <4>2. IsFiniteSet(listed)
        BY <1>1, FS_Subset
      <4> HIDE DEF f, listed
      <4>3. IsFiniteSet({f[n] : n \in listed})
        BY <4>2, FiniteImage
      <4> QED
        BY <4>1, <4>3
    <3> QED
      BY <3>1, <3>2
  <2> HIDE DEF linked, routed
  <2> QED
    BY <2>1, <2>2, FS_Union
<1>9. found \in [1..Cardinality(units) -> units] /\ ToSet(found) = units
  <2>1. \A u \in units : u.number \in Seq(Nat)
    BY <1>4, <1>7 DEF Links
  <2> HIDE DEF units, found
  <2> QED
    BY <1>3, <1>8, <2>1, Sorted DEF Ordered
<1>10. found \in Seq(Links)
  <2>1. Cardinality(units) \in Nat
    BY <1>8, FS_CardinalityType
  <2>2. units \subseteq Links
    BY <1>4, <1>7
  <2> HIDE DEF units, found
  <2> QED
    BY <1>9, <2>1, <2>2
<1>11. ASSUME NEW u \in linked, NEW v \in linked, Same(u, v) PROVE u = v
  <2>1. PICK i \in last : u = doc.links[i]
    BY <1>2
  <2>2. PICK k \in last : v = doc.links[k]
    BY <1>2
  <2>3. N(doc.links[i].number) = N(doc.links[k].number)
    BY <1>11, <2>1, <2>2 DEF Same
  <2>4. i \in 1..Len(doc.links) /\ k \in 1..Len(doc.links)
    BY <1>1
  <2>5. CASE i < k
    BY <2>3, <2>4, <2>5
  <2>6. CASE k < i
    BY <2>3, <2>4, <2>6
  <2> QED
    BY <2>1, <2>2, <2>4, <2>5, <2>6
<1>12. ASSUME NEW u \in linked, NEW v \in routed PROVE ~ Same(u, v)
  BY DEF Same
<1>13. ASSUME NEW u \in routed, NEW v \in linked PROVE ~ Same(u, v)
  BY DEF Same
<1>14. ASSUME NEW u \in routed, NEW v \in routed, Same(u, v) PROVE u = v
  BY <1>1, <1>5, <1>14 DEF Same
<1>15. Distinct(units)
  BY <1>11, <1>12, <1>13, <1>14 DEF Distinct
<1> QED
  BY <1>9, <1>10, <1>15

\* What an answer, and what is gathered of them, holds of units.
Values == {v \in [kind : {"list", "null", "other"}, items : Seq(Items)] :
             v.kind # "list" => v.items = <<>>}

\* The item is the unit's, with the URL it was proven with or that of an answer.
Covers(item, u, answered) ==
    /\ Same(item, u) /\ item.url # Missing
    /\ item.url = u.url \/ \E g \in answered : Same(g, u) /\ item.url = g.url

\* The item's number and URL go together in one of the units.
Claimed(item, units) ==
    item.url # Missing => \E w \in units : Same(w, item) /\ w.url = item.url

\* Repairing an answer covers each unit the page proves, and makes up no URL.
LEMMA Enriched ==
    ASSUME NEW value \in Values, NEW found \in Seq(Links), Distinct(ToSet(found)),
           found # <<>>
    PROVE  LET all == enrichExtractedUnitURLs(value, found) IN
           /\ all \in Values /\ all.kind = "list"
           /\ \A u \in ToSet(found) : \E i \in 1..Len(all.items) :
                 Covers(all.items[i], u, ToSet(value.items))
           /\ \A i \in 1..Len(all.items) :
                 Claimed(all.items[i], ToSet(found) \union ToSet(value.items))
<1> DEFINE items == value.items
           Unlisted(u) == \A i \in DOMAIN items : ~Same(u, items[i])
           T == {u \in ToSet(found) : Unlisted(u)}
           filled == [i \in DOMAIN items |-> Filled(items[i], found)]
           added == Filter(found, T)
           all == filled \o added
<1>0. enrichExtractedUnitURLs(value, found) = List(all) /\ items \in Seq(Items)
  BY DEF enrichExtractedUnitURLs, Values
<1> HIDE DEF items
<1>1. \A u \in Links : u \in Items /\ u.url # Missing
  BY DEF Links, Items, Absolute, Missing
<1>2. \A u \in ToSet(found) : u \in Links
  BY Entries DEF ToSet
<1>3. \A i \in 1..Len(items) : items[i] \in Items /\ items[i] \in ToSet(items)
  BY <1>0, Entries DEF ToSet
<1>4. ASSUME NEW i \in 1..Len(items) PROVE Filled(items[i], found) \in Items
  <2> DEFINE same == {u \in ToSet(found) : Same(u, items[i])}
             u == CHOOSE u \in same : TRUE
  <2>1. CASE items[i].url = Missing /\ same # {}
    <3>1. u \in Items
      BY <1>1, <1>2, <2>1
    <3>2. Filled(items[i], found) = [items[i] EXCEPT !.url = u.url]
      BY <2>1 DEF Filled
    <3> HIDE DEF u
    <3> QED
      BY <1>3, <3>1, <3>2 DEF Items
  <2>2. CASE ~ (items[i].url = Missing /\ same # {})
    BY <1>3, <2>2 DEF Filled
  <2> QED
    BY <2>1, <2>2
<1>5. filled \in Seq(Items) /\ Len(filled) = Len(items)
      /\ \A i \in 1..Len(items) : filled[i] = Filled(items[i], found)
  BY <1>4
<1>6. PICK at : added \in Seq(Links) /\ Places(at, added, found, T)
  BY FilterPlaces
<1>7. added \in Seq(Items)
  <2> HIDE DEF added
  <2>1. \A i \in 1..Len(added) : added[i] \in Items
    BY <1>1, <1>6, Entries
  <2> QED
    BY <1>6, <2>1
<1>8. /\ all \in Seq(Items) /\ Len(all) = Len(filled) + Len(added) /\ Len(all) \in Nat
      /\ \A i \in 1..Len(filled) : all[i] = filled[i]
      /\ \A i \in 1..Len(added) : all[i + Len(filled)] = added[i]
      /\ Len(filled) \in Nat /\ Len(added) \in Nat
  <2> HIDE DEF filled, added
  <2>1. \A s, t \in Seq(Items) :
          /\ s \o t \in Seq(Items) /\ Len(s \o t) = Len(s) + Len(t)
          /\ \A i \in 1..Len(s) : (s \o t)[i] = s[i]
          /\ \A i \in 1..Len(t) : (s \o t)[i + Len(s)] = t[i]
          /\ Len(s) \in Nat /\ Len(t) \in Nat
    BY Concat
  <2>2. filled \o added \in Seq(Items)
    BY <1>5, <1>7, <2>1
  <2>3. Len(filled \o added) \in Nat
    BY <2>2
  <2> QED
    BY <1>5, <1>7, <2>1, <2>3
<1>9. ASSUME NEW u \in ToSet(found)
      PROVE  \E i \in 1..Len(all) : Covers(all[i], u, ToSet(items))
  <2> HIDE DEF filled, added, all
  <2>1. CASE \E i \in 1..Len(items) : Same(u, items[i])
    <3>1. PICK i \in 1..Len(items) : Same(u, items[i])
      BY <2>1
    <3>2. i \in 1..Len(all) /\ all[i] = Filled(items[i], found)
      BY <1>5, <1>8
    <3>3. CASE items[i].url = Missing
      <4> DEFINE same == {v \in ToSet(found) : Same(v, items[i])}
      <4>1. \A v \in same : v = u
        BY <3>1 DEF Distinct, Same
      <4>2. u \in same /\ (CHOOSE v \in same : TRUE) = u
        BY <3>1, <4>1
      <4>3. Filled(items[i], found) = [items[i] EXCEPT !.url = u.url]
        BY <3>3, <4>2 DEF Filled
      <4>4. Filled(items[i], found).url = u.url
            /\ Filled(items[i], found).number = items[i].number
        BY <1>3, <4>3 DEF Items
      <4>5. Same(Filled(items[i], found), u)
        BY <3>1, <4>4 DEF Same
      <4> QED
        BY <1>1, <1>2, <3>2, <4>4, <4>5 DEF Covers
    <3>4. CASE items[i].url # Missing
      <4>1. all[i] = items[i]
        BY <3>2, <3>4 DEF Filled
      <4>2. items[i] \in ToSet(items) /\ Same(items[i], u)
        BY <1>3, <3>1 DEF Same
      <4> QED
        BY <3>2, <3>4, <4>1, <4>2 DEF Covers
    <3> QED
      BY <3>3, <3>4
  <2>2. CASE ~ \E i \in 1..Len(items) : Same(u, items[i])
    <3>1. u \in T
      BY <2>2
    <3>2. PICK j \in 1..Len(found) : u = found[j]
      BY DEF ToSet
    <3>3. PICK k \in 1..Len(added) : at[k] = j /\ added[k] = found[at[k]]
      <4> HIDE DEF T
      <4> QED
        BY <1>6, <3>1, <3>2 DEF Places
    <3>4. all[k + Len(filled)] = u /\ k + Len(filled) \in 1..Len(all)
      BY <1>8, <3>2, <3>3
    <3> QED
      BY <1>1, <1>2, <3>4 DEF Covers, Same
  <2> QED
    BY <2>1, <2>2
<1>10. ASSUME NEW i \in 1..Len(items)
       PROVE  Claimed(Filled(items[i], found), ToSet(found) \union ToSet(items))
  <2> DEFINE same == {u \in ToSet(found) : Same(u, items[i])}
             u == CHOOSE u \in same : TRUE
  <2>1. CASE items[i].url = Missing /\ same # {}
    <3>1. u \in ToSet(found) /\ Same(u, items[i])
      BY <2>1
    <3>2. Filled(items[i], found) = [items[i] EXCEPT !.url = u.url]
      BY <2>1 DEF Filled
    <3> HIDE DEF u
    <3>3. Filled(items[i], found).url = u.url
          /\ Filled(items[i], found).number = items[i].number
      BY <1>3, <3>2 DEF Items
    <3> QED
      BY <3>1, <3>3 DEF Claimed, Same
  <2>2. CASE ~ (items[i].url = Missing /\ same # {})
    <3>1. Filled(items[i], found) = items[i]
      BY <2>2 DEF Filled
    <3> QED
      BY <1>3, <3>1 DEF Claimed, Same
  <2> QED
    BY <2>1, <2>2
<1>11. ASSUME NEW i \in 1..Len(added)
       PROVE  Claimed(added[i], ToSet(found) \union ToSet(items))
  <2>1. added[i] \in ToSet(found)
    <3> HIDE DEF T, added
    <3>1. at[i] \in 1..Len(found) /\ added[i] = found[at[i]]
      BY <1>6 DEF Places
    <3> QED
      BY <3>1 DEF ToSet
  <2> QED
    BY <2>1 DEF Claimed, Same
<1>12. ASSUME NEW i \in 1..Len(all)
       PROVE  Claimed(all[i], ToSet(found) \union ToSet(items))
  <2> HIDE DEF filled, added, all
  <2>1. CASE i <= Len(filled)
    <3>1. i \in 1..Len(items) /\ all[i] = Filled(items[i], found)
      BY <1>5, <1>8, <2>1
    <3> QED
      BY <1>10, <3>1
  <2>2. CASE ~ (i <= Len(filled))
    <3>1. /\ i - Len(filled) \in 1..Len(added)
          /\ all[(i - Len(filled)) + Len(filled)] = added[i - Len(filled)]
          /\ (i - Len(filled)) + Len(filled) = i
      BY <1>8, <2>2
    <3> QED
      BY <1>11, <3>1
  <2> QED
    BY <2>1, <2>2
<1>13. /\ List(all).kind = "list" /\ List(all).items = all /\ List(all) \in Values
  BY <1>8 DEF List, Values
<1> HIDE DEF all
<1> QED
  BY <1>0, <1>9, <1>12, <1>13 DEF items

\* Removing duplicates keeps an item of each URL, and adds none.
LEMMA Deduped ==
    ASSUME NEW items \in Seq(Items)
    PROVE  LET left == Deduplicated(items) IN
           /\ left \in Seq(Items)
           /\ \A i \in 1..Len(items) : items[i].url # Missing =>
                \E k \in 1..Len(left) : left[k].url = items[i].url
           /\ \A k \in 1..Len(left) : \E i \in 1..Len(items) : left[k] = items[i]
<1> DEFINE First(i) == \A k \in 1..(i - 1) : Key(items[k]) # Key(items[i])
           places == [i \in DOMAIN items |-> i]
           T == {i \in DOMAIN items : First(i)}
           kept == Filter(places, T)
           left == Deduplicated(items)
<1>0. left = [k \in DOMAIN kept |-> items[kept[k]]]
  BY DEF Deduplicated
<1>1. places \in Seq(Nat) /\ Len(places) = Len(items)
      /\ \A i \in 1..Len(items) : places[i] = i
  OBVIOUS
<1>2. PICK at : kept \in Seq(Nat) /\ Places(at, kept, places, T)
  <2> HIDE DEF places, T
  <2> QED
    BY <1>1, FilterPlaces
<1>3. \A k \in 1..Len(kept) : kept[k] \in 1..Len(items)
  <2> HIDE DEF kept, places
  <2>1. \A k \in 1..Len(kept) : kept[k] \in T
    BY <1>2 DEF Places
  <2> QED
    BY <2>1
<1>4. left \in Seq(Items) /\ Len(left) = Len(kept)
      /\ \A k \in 1..Len(kept) : left[k] = items[kept[k]]
  <2> HIDE DEF kept, left
  <2>1. \A k \in 1..Len(kept) : items[kept[k]] \in Items
    BY <1>3, Entries
  <2>2. DOMAIN kept = 1..Len(kept) /\ Len(kept) \in Nat
    BY <1>2
  <2>3. left = [k \in 1..Len(kept) |-> items[kept[k]]]
    BY <1>0, <2>2
  <2>4. left \in [1..Len(kept) -> Items]
    BY <2>1, <2>3
  <2>5. left \in Seq(Items) /\ Len(left) = Len(kept)
    BY <2>2, <2>4
  <2> QED
    BY <2>3, <2>5
<1>5. ASSUME NEW i \in 1..Len(items), items[i].url # Missing
      PROVE  \E k \in 1..Len(left) : left[k].url = items[i].url
  <2> DEFINE V == {k \in 1..i : Key(items[k]) = Key(items[i])}
  <2>1. V \in SUBSET Nat /\ i \in V
    OBVIOUS
  <2>2. PICK m \in V : \A k \in V : m <= k
    <3> HIDE DEF V
    <3> QED
      BY <2>1, LeastNumber
  <2>3. m \in 1..Len(items) /\ First(m)
    BY <2>2
  <2>4. items[m].url = items[i].url
    <3>1. Key(items[m]) = [url |-> items[i].url]
      BY <1>5 DEF Key
    <3>2. CASE items[m].url # Missing
      <4>1. [url |-> items[m].url] = [url |-> items[i].url]
        BY <3>1, <3>2 DEF Key
      <4>2. [url |-> items[m].url].url = [url |-> items[i].url].url
        BY <4>1
      <4> QED
        BY <4>2
    <3>3. CASE items[m].url = Missing
      <4>1. [item |-> items[m]] = [url |-> items[i].url]
        BY <3>1, <3>3 DEF Key
      <4>2. DOMAIN [item |-> items[m]] = {"item"} /\ DOMAIN [url |-> items[i].url] = {"url"}
        OBVIOUS
      <4> QED
        BY <4>1, <4>2
    <3> QED
      BY <3>2, <3>3
  <2>5. PICK k \in 1..Len(kept) : at[k] = m /\ kept[k] = places[at[k]]
    <3>1. places[m] \in T /\ m \in 1..Len(places)
      BY <1>1, <2>3
    <3> HIDE DEF places, T, kept
    <3> QED
      BY <1>2, <3>1 DEF Places
  <2>6. kept[k] = m
    BY <1>1, <2>3, <2>5
  <2> HIDE DEF kept, left
  <2> QED
    BY <1>4, <2>4, <2>5, <2>6
<1>6. \A k \in 1..Len(left) : \E i \in 1..Len(items) : left[k] = items[i]
  <2> HIDE DEF kept, left
  <2> QED
    BY <1>3, <1>4
<1> QED
  BY <1>4, <1>5, <1>6

\* While it runs, what an attempt has gathered covers each unit proven, unless the
\* first answer had no list in its place; each item has the URL of a unit proven or
\* listed.
Gathered ==
    /\ result \in Values /\ given \in Seq(Values)
    /\ given = <<>> <=> extracted = <<>>
    /\ extracted = <<>> => proven = {}
    /\ result.kind = "list" =>
          \A u \in proven : \E i \in 1..Len(result.items) : Covers(result.items[i], u, Listed)
    /\ result.kind = "null" => proven = {}
    /\ result.kind = "other" => given # <<>> /\ given[1].kind = "other"
    /\ \A i \in 1..Len(result.items) : Claimed(result.items[i], proven \union Listed)

KeptInv == (pc # "returned" => Gathered) /\ ProvenUnitsKept

\* More answers cover and claim no less.
LEMMA CoversMore ==
    ASSUME NEW item, NEW u, NEW less, NEW more, less \subseteq more, Covers(item, u, less)
    PROVE  Covers(item, u, more)
BY DEF Covers

LEMMA ClaimedMore ==
    ASSUME NEW item, NEW less, NEW more, less \subseteq more, Claimed(item, less)
    PROVE  Claimed(item, more)
BY DEF Claimed

\* An answer's units join those listed.
LEMMA ListedGrows ==
    ASSUME given \in Seq(Values), NEW value \in Values, given' = Append(given, value)
    PROVE  Listed' = Listed \union ToSet(value.items)
<1>1. /\ Len(given) \in Nat /\ DOMAIN given = 1..Len(given)
      /\ DOMAIN given' = 1..(Len(given) + 1)
      /\ \A i \in 1..Len(given) : given'[i] = given[i]
      /\ given'[Len(given) + 1] = value
  OBVIOUS
<1>2. ASSUME NEW g \in Listed' PROVE g \in Listed \union ToSet(value.items)
  <2>1. PICK i \in DOMAIN given' : g \in ToSet(given'[i].items)
    BY DEF Listed
  <2>2. i \in 1..Len(given) \/ i = Len(given) + 1
    BY <1>1
  <2> QED
    BY <1>1, <2>1, <2>2 DEF Listed
<1>3. ASSUME NEW g \in Listed PROVE g \in Listed'
  <2>1. PICK i \in DOMAIN given : g \in ToSet(given[i].items)
    BY DEF Listed
  <2>2. i \in DOMAIN given' /\ given'[i] = given[i]
    BY <1>1
  <2> QED
    BY <2>1, <2>2 DEF Listed
<1>4. ASSUME NEW g \in ToSet(value.items) PROVE g \in Listed'
  <2>1. Len(given) + 1 \in DOMAIN given'
    BY <1>1
  <2> QED
    BY <1>1, <2>1 DEF Listed
<1> QED
  BY <1>2, <1>3, <1>4

\* What an answer adds, repaired with its page's units.
LEMMA Parsed ==
    ASSUME NEW doc \in Documents, NEW answer \in Answers
    PROVE  LET found == discoverUnitURLs(doc)
               parsed == enrichExtractedUnitURLs(answer.units, found) IN
           /\ answer.units \in Values /\ parsed \in Values
           /\ parsed.kind # "list" => ToSet(found) = {} /\ parsed = answer.units
           /\ \A u \in ToSet(found) : \E i \in 1..Len(parsed.items) :
                 Covers(parsed.items[i], u, ToSet(answer.units.items))
           /\ \A i \in 1..Len(parsed.items) :
                 Claimed(parsed.items[i], ToSet(found) \union ToSet(answer.units.items))
<1> DEFINE found == discoverUnitURLs(doc)
           parsed == enrichExtractedUnitURLs(answer.units, found)
<1>1. found \in Seq(Links) /\ Distinct(ToSet(found))
  BY FoundUnits
<1>2. answer.units \in Values
  BY PagesAssumption DEF Values
<1> HIDE DEF found
<1>3. CASE found = <<>>
  <2>1. parsed = answer.units
    BY <1>3 DEF enrichExtractedUnitURLs
  <2>2. ToSet(found) = {}
    BY <1>3 DEF ToSet
  <2>3. ASSUME NEW i \in 1..Len(parsed.items)
        PROVE  Claimed(parsed.items[i], ToSet(answer.units.items))
    <3>1. parsed.items[i] \in ToSet(answer.units.items)
      BY <1>2, <2>1 DEF ToSet, Values
    <3> QED
      BY <3>1 DEF Claimed, Same
  <2> HIDE DEF parsed
  <2>4. \A i \in 1..Len(parsed.items) :
           Claimed(parsed.items[i], ToSet(found) \union ToSet(answer.units.items))
    BY <2>2, <2>3
  <2> QED
    BY <1>2, <2>1, <2>2, <2>4 DEF found, parsed
<1>4. CASE found # <<>>
  BY <1>1, <1>2, <1>4, Enriched DEF found
<1> QED
  BY <1>3, <1>4

\* A page's units are covered by what its answer adds, and the others still are.
LEMMA ExtractKeeps ==
    ASSUME Gathered, extracted \in Seq(visited), url \in visited, Extract
    PROVE  Gathered'
<1>1. PICK doc \in Documents, answer \in Answers :
        LET found == discoverUnitURLs(doc)
            parsed == enrichExtractedUnitURLs(answer.units, found) IN
        /\ result' = Merged(extracted = <<>>, result, parsed)
        /\ extracted' = Append(extracted, url)
        /\ proven' = proven \union ToSet(found)
        /\ given' = Append(given, answer.units)
  BY DEF Extract
<1> DEFINE found == discoverUnitURLs(doc)
           parsed == enrichExtractedUnitURLs(answer.units, found)
           listed == ToSet(answer.units.items)
<1>2. /\ answer.units \in Values /\ parsed \in Values
      /\ parsed.kind # "list" => ToSet(found) = {} /\ parsed = answer.units
      /\ \A u \in ToSet(found) : \E i \in 1..Len(parsed.items) :
            Covers(parsed.items[i], u, listed)
      /\ \A i \in 1..Len(parsed.items) : Claimed(parsed.items[i], ToSet(found) \union listed)
  BY Parsed
<1>3. /\ result' = Merged(extracted = <<>>, result, parsed)
      /\ extracted' = Append(extracted, url) /\ proven' = proven \union ToSet(found)
      /\ given' = Append(given, answer.units)
  BY <1>1
<1> HIDE DEF found, parsed
<1>4. Listed' = Listed \union listed
  BY <1>2, <1>3, ListedGrows DEF Gathered
<1> HIDE DEF listed
<1>5. /\ extracted' # <<>> /\ given' # <<>> /\ given' \in Seq(Values)
      /\ given # <<>> => given'[1] = given[1]
      /\ given = <<>> => given'[1] = answer.units
  <2>1. extracted' # <<>>
    BY <1>3
  <2>2. given \in Seq(Values) /\ answer.units \in Values
    BY <1>2 DEF Gathered
  <2> QED
    BY <1>3, <2>1, <2>2
<1>6. /\ \A item, u : Covers(item, u, listed) => Covers(item, u, Listed')
      /\ \A item, u : Covers(item, u, Listed) => Covers(item, u, Listed')
  BY <1>4, CoversMore
<1>7. /\ \A item : Claimed(item, ToSet(found) \union listed) =>
            Claimed(item, proven' \union Listed')
      /\ \A item : Claimed(item, proven \union Listed) =>
            Claimed(item, proven' \union Listed')
  <2>1. /\ ToSet(found) \union listed \subseteq proven' \union Listed'
        /\ proven \union Listed \subseteq proven' \union Listed'
    BY <1>3, <1>4
  <2> QED
    BY <2>1, ClaimedMore
<1>8. ASSUME result' = parsed, proven = {}, parsed.kind = "other" => given = <<>>
      PROVE  Gathered'
  <2>1. proven' = ToSet(found)
    BY <1>3, <1>8
  <2>2. \A u \in proven' : \E i \in 1..Len(parsed.items) :
           Covers(parsed.items[i], u, Listed')
    BY <1>2, <1>6, <2>1
  <2>3. \A i \in 1..Len(parsed.items) : Claimed(parsed.items[i], proven' \union Listed')
    BY <1>2, <1>7
  <2>4. parsed.kind = "other" => given'[1].kind = "other"
    BY <1>2, <1>5, <1>8
  <2>5. parsed.kind # "list" => proven' = {}
    BY <1>2, <2>1
  <2> QED
    BY <1>2, <1>5, <1>8, <2>2, <2>3, <2>4, <2>5 DEF Gathered
<1>9. ASSUME result' = result, given # <<>>, ToSet(found) = {} \/ result.kind = "other"
      PROVE  Gathered'
  <2>1. result.kind = "list" \/ result.kind = "null" => proven' = proven
    BY <1>3, <1>9
  <2>2. result.kind = "list" =>
           \A u \in proven' : \E i \in 1..Len(result.items) :
              Covers(result.items[i], u, Listed')
    BY <1>6, <2>1 DEF Gathered
  <2>3. \A i \in 1..Len(result.items) : Claimed(result.items[i], proven' \union Listed')
    BY <1>7 DEF Gathered
  <2>4. result.kind = "other" => given'[1].kind = "other"
    BY <1>5, <1>9 DEF Gathered
  <2>5. result.kind = "null" => proven' = {}
    BY <2>1 DEF Gathered
  <2> QED
    BY <1>5, <1>9, <2>2, <2>3, <2>4, <2>5 DEF Gathered
<1>10. CASE extracted = <<>>
  <2>1. result' = parsed /\ proven = {} /\ given = <<>>
    BY <1>3, <1>10 DEF Merged, Gathered
  <2> QED
    BY <1>8, <2>1
<1>11. CASE extracted # <<>> /\ (parsed.kind # "list" \/ result.kind = "other")
  <2>1. result' = result
    BY <1>3, <1>11 DEF Merged
  <2> QED
    BY <1>2, <1>9, <1>11, <2>1 DEF Gathered
<1>12. CASE extracted # <<>> /\ parsed.kind = "list" /\ result.kind = "null"
  <2>1. result' = parsed /\ proven = {}
    BY <1>3, <1>12 DEF Merged, Gathered
  <2> QED
    BY <1>8, <1>12, <2>1
<1>13. CASE extracted # <<>> /\ parsed.kind = "list" /\ result.kind = "list"
  <2> DEFINE s == result.items
             t == parsed.items
             all == s \o t
  <2>1. result' = List(all)
    BY <1>3, <1>13 DEF Merged
  <2>2. s \in Seq(Items) /\ t \in Seq(Items)
    BY <1>2 DEF Gathered, Values
  <2> HIDE DEF s, t
  <2>3. /\ all \in Seq(Items) /\ Len(all) = Len(s) + Len(t)
        /\ \A i \in 1..Len(s) : all[i] = s[i]
        /\ \A i \in 1..Len(t) : all[i + Len(s)] = t[i]
        /\ Len(s) \in Nat /\ Len(t) \in Nat
    <3>1. \A x, y \in Seq(Items) :
            /\ x \o y \in Seq(Items) /\ Len(x \o y) = Len(x) + Len(y)
            /\ \A i \in 1..Len(x) : (x \o y)[i] = x[i]
            /\ \A i \in 1..Len(y) : (x \o y)[i + Len(x)] = y[i]
            /\ Len(x) \in Nat /\ Len(y) \in Nat
      BY Concat
    <3> QED
      BY <2>2, <3>1
  <2> HIDE DEF all
  <2>4. result'.kind = "list" /\ result'.items = all /\ result' \in Values
    BY <2>1, <2>3 DEF List, Values
  <2>5. ASSUME NEW u \in proven' PROVE \E i \in 1..Len(all) : Covers(all[i], u, Listed')
    <3>1. CASE u \in proven
      <4>1. PICK i \in 1..Len(s) : Covers(s[i], u, Listed)
        BY <1>13, <3>1 DEF Gathered, s
      <4>2. i \in 1..Len(all) /\ all[i] = s[i]
        BY <2>3
      <4> QED
        BY <1>6, <4>1, <4>2
    <3>2. CASE u \in ToSet(found)
      <4>1. PICK i \in 1..Len(t) : Covers(t[i], u, listed)
        BY <1>2, <3>2 DEF t
      <4>2. i + Len(s) \in 1..Len(all) /\ all[i + Len(s)] = t[i]
        BY <2>3
      <4> QED
        BY <1>6, <4>1, <4>2
    <3> QED
      BY <1>3, <3>1, <3>2
  <2>6. ASSUME NEW i \in 1..Len(all) PROVE Claimed(all[i], proven' \union Listed')
    <3>1. CASE i <= Len(s)
      <4>1. i \in 1..Len(s) /\ all[i] = s[i]
        BY <2>3, <3>1
      <4> QED
        BY <1>7, <4>1 DEF Gathered, s
    <3>2. CASE ~ (i <= Len(s))
      <4>1. i - Len(s) \in 1..Len(t) /\ (i - Len(s)) + Len(s) = i
        BY <2>3, <3>2
      <4>2. all[i] = t[i - Len(s)]
        BY <2>3, <4>1
      <4> QED
        BY <1>2, <1>7, <4>1, <4>2 DEF t
    <3> QED
      BY <3>1, <3>2
  <2> QED
    BY <1>5, <2>4, <2>5, <2>6 DEF Gathered
<1>14. result.kind \in {"list", "null", "other"}
  BY DEF Gathered, Values
<1> QED
  BY <1>10, <1>11, <1>12, <1>13, <1>14

\* Removing duplicates leaves each unit in the list, or its URL with another unit.
LEMMA SaveKeeps == ASSUME Gathered, Save PROVE ProvenUnitsKept'
<1> DEFINE left == Deduplicated(result.items)
           units == proven \union Listed
           Stored(v) == \E i \in DOMAIN left : Same(left[i], v) /\ left[i].url = v.url
           Versions(u) == {u} \union {g \in Listed : Same(g, u) /\ g.url # Missing}
           Usurped(u, v) == \E w \in units : ~Same(w, u) /\ w.url = v.url /\ Stored(w)
<1>1. /\ result'.kind = result.kind /\ result'.items = left
      /\ UNCHANGED <<proven, given, extracted, Listed>>
  BY DEF Save, history, Listed
<1>2. /\ left \in Seq(Items)
      /\ \A i \in 1..Len(result.items) : result.items[i].url # Missing =>
           \E k \in 1..Len(left) : left[k].url = result.items[i].url
      /\ \A k \in 1..Len(left) : \E i \in 1..Len(result.items) : left[k] = result.items[i]
  BY Deduped DEF Gathered, Values
<1> HIDE DEF left
<1>3. DOMAIN left = 1..Len(left)
  BY <1>2
<1>4. ASSUME result.kind = "list", NEW u \in proven
      PROVE  \E v \in Versions(u) : Stored(v) \/ Usurped(u, v)
  <2>1. PICK i \in 1..Len(result.items) : Covers(result.items[i], u, Listed)
    BY <1>4 DEF Gathered
  <2>2. PICK k \in 1..Len(left) : left[k].url = result.items[i].url
    BY <1>2, <2>1 DEF Covers
  <2>3. PICK v \in Versions(u) : v.url = left[k].url /\ Same(v, u)
    BY <2>1, <2>2 DEF Covers, Same
  <2>4. PICK j \in 1..Len(result.items) : left[k] = result.items[j]
    BY <1>2
  <2>5. left[k].url # Missing
    BY <2>1, <2>2 DEF Covers
  <2>6. PICK w \in units : Same(w, left[k]) /\ w.url = left[k].url
    BY <2>4, <2>5 DEF Gathered, Claimed
  <2>7. CASE Same(left[k], u)
    <3>1. Same(left[k], v)
      BY <2>3, <2>7 DEF Same
    <3> QED
      BY <1>3, <2>3, <3>1
  <2>8. CASE ~ Same(left[k], u)
    <3>1. Stored(w)
      BY <1>3, <2>6 DEF Same
    <3>2. ~ Same(w, u) /\ w.url = v.url
      BY <2>3, <2>6, <2>8 DEF Same
    <3> HIDE DEF Stored
    <3>3. Usurped(u, v)
      BY <3>1, <3>2
    <3> QED
      BY <3>3
  <2> QED
    BY <2>7, <2>8
<1>5. ASSUME result.kind # "list" PROVE proven = {} \/ given[1].kind = "other"
  BY <1>5 DEF Gathered, Values
<1> QED
  BY <1>1, <1>4, <1>5 DEF ProvenUnitsKept

LEMMA KeptStep ==
    ASSUME KeptInv, RunInv, EndInv, [Next]_vars
    PROVE  KeptInv'
<1>0. attempt \in stored => pc = "returned"
  BY DEF EndInv, Returns
<1>1. ASSUME UNCHANGED <<result, proven, given, extracted, attempt, stored>>,
             pc = "returned" => pc' = "returned"
      PROVE  KeptInv'
  <2>1. Listed' = Listed
    BY <1>1 DEF Listed
  <2>2. ProvenUnitsKept'
    BY <1>1, <2>1 DEF KeptInv, ProvenUnitsKept
  <2>3. Gathered => Gathered'
    BY <1>1, <2>1 DEF Gathered
  <2> QED
    BY <1>1, <2>2, <2>3 DEF KeptInv
<1>2. CASE Extract
  <2>1. pc # "returned" /\ UNCHANGED <<attempt, stored>>
    BY <1>2 DEF Extract, Goto
  <2>2. Gathered'
    BY <1>2, <2>1, ExtractKeeps DEF KeptInv, RunInv, PageInv
  <2>3. ProvenUnitsKept'
    BY <1>0, <2>1 DEF ProvenUnitsKept
  <2> QED
    BY <2>2, <2>3 DEF KeptInv
<1>3. CASE Save
  <2>1. pc # "returned" /\ pc' = "returned"
    BY <1>3 DEF Save, Return
  <2> QED
    BY <1>3, <2>1, SaveKeeps DEF KeptInv
<1>4. CASE Retry
  <2>1. /\ result' = Nothing /\ extracted' = <<>> /\ proven' = {} /\ given' = <<>>
        /\ attempt' = attempt + 1 /\ attempt < MaxAttempts /\ UNCHANGED <<stored, returned>>
    BY <1>4 DEF Retry, outcome
  <2>2. attempt' \notin stored'
    <3>1. attempt \in Attempts /\ attempt' \in Attempts /\ attempt' > attempt
      <4>1. attempt \in Attempts /\ MaxAttempts \in Nat
        BY ExtractRunAssumption DEF ExtractRunAssumption, EndInv, Returns
      <4> QED
        BY <2>1, <4>1 DEF Attempts
    <3>2. returned[attempt'] = "running"
      BY <3>1 DEF EndInv, Returns
    <3> QED
      BY <2>1, <3>2 DEF EndInv, Returns
  <2>3. Gathered'
    BY <2>1 DEF Gathered, Nothing, Values
  <2> QED
    BY <2>2, <2>3 DEF KeptInv, ProvenUnitsKept
<1>5. \/ /\ UNCHANGED <<result, proven, given, extracted, attempt, stored>>
         /\ pc = "returned" => pc' = "returned"
      \/ Extract \/ Save \/ Retry
  <2> USE DEF history, outcome, Goto, Return, sendError, BrowserFails, Leaves, Opens
  <2>1. CASE UNCHANGED vars
    BY <2>1 DEF vars
  <2>2. CASE Start
    BY <2>2 DEF Start
  <2>3. CASE Navigate
    BY <2>3 DEF Navigate
  <2>4. CASE NavigateFails
    BY <2>4 DEF NavigateFails
  <2>5. CASE Snapshot
    BY <2>5 DEF Snapshot
  <2>6. CASE SnapshotFails
    BY <2>6 DEF SnapshotFails
  <2>7. CASE LookAgain
    BY <2>7 DEF LookAgain
  <2>8. CASE WaitFails
    BY <2>8 DEF WaitFails
  <2>9. CASE ExtractFails
    BY <2>9 DEF ExtractFails
  <2>10. CASE WaitEnds
    BY <2>10 DEF WaitEnds
  <2>11. CASE ContextEnds
    BY <2>11 DEF ContextEnds
  <2> QED
    BY <2>1, <2>2, <2>3, <2>4, <2>5, <2>6, <2>7, <2>8, <2>9, <2>10, <2>11 DEF Next, Handler
<1> QED
  BY <1>1, <1>2, <1>3, <1>4, <1>5

\* A unit that a page proves is stored under its number, or its URL is under the
\* number of another unit that a page or an answer has at that URL, for every site
\* and all answers, if the first answer has a list where one is expected.
THEOREM UnitsKept == Spec => []ProvenUnitsKept
<1>1. Init => KeptInv
  BY DEF Init, KeptInv, Gathered, ProvenUnitsKept, Nothing, Values
<1>2. KeptInv => ProvenUnitsKept
  BY DEF KeptInv
<1>3. KeptInv /\ RunInv /\ EndInv /\ [Next]_vars => KeptInv'
  BY KeptStep
<1>4. Spec => []KeptInv
  BY <1>1, <1>3, RunInvariant, EndInvariant, PTL DEF Spec
<1> QED
  BY <1>2, <1>4, PTL

=============================================================================
