----------------------------- MODULE ExtractRun -----------------------------
(***************************************************************************)
(* One extract_media job, from the attempts its handler makes of it        *)
(* (NewExtractHandler, internal/jobs/extract.go): the page loop with its   *)
(* login phase and hand-offs, the answers of the model merged page after   *)
(* page and repaired with the URLs the pages prove (unit_urls.go), and the *)
(* events published on the job's topic.  The handler is one goroutine; its *)
(* context may be cancelled between any two of its calls.                  *)
(* Operators named Bug_... are plausible mistakes in the operator they     *)
(* precede; no specification uses them.                                    *)
(*                                                                         *)
(* Abstracted: a URL is a name, and a URL as a page or the model writes    *)
(* it adds the form it is written in; a page is what discoverUnitURLs      *)
(* reads in it, and an answer its list of units and its next_page_url; a   *)
(* unit's number is its digits; a target that is not stored is a store     *)
(* that fails; a run of progress events is one; what the content sent to   *)
(* the model looks like, and titles and dates, are left out.  Of the keys  *)
(* of an answer, the units' is kept.  The import of the units' images is   *)
(* LibraryStore's, the profile and its lease are BrowserProfiles', the     *)
(* retries are JobQueue's.                                                 *)
(***************************************************************************)
EXTENDS Integers, FiniteSets, SequencesExt, Filters

CONSTANTS Home,         \* the URL of the payload
          LoginURL,     \* its login_url
          Location,     \* Location[u]: scheme, host and path of the URL u
          Expand,       \* Expand[t][n]: the route template t filled with n
          Documents,    \* what pages hold
          Answers,      \* what the model answers
          MaxAttempts   \* attempts the queue grants the job

Urls == DOMAIN Location

ASSUME ExtractRunAssumption ==
    /\ {Home, LoginURL} \subseteq Urls
    /\ MaxAttempts \in Nat \ {0}

VARIABLES
    req,        \* the payload: is it valid, and does it require login
    attempt,    \* the present attempt
    pc,         \* where the handler is
    ctxDone,    \* the attempts whose context is cancelled
    died,       \* the attempts that a dying Chromium ended
    url,        \* currentURL
    phase,      \* "login", "confirmed" (a user logged in) or "pages"
    visited,    \* visitedURLs
    look,       \* whom the last snapshot asks for
    session,    \* a browser session is open
    challenge,  \* a challenge is registered
    result,     \* the value of the units in finalResultJSON
    events,     \* the events published, oldest first
    returned,   \* returned[a]: what attempt a returned
    stored,     \* the attempts that stored the media
    extracted,  \* the URLs whose pages this attempt gave to the model
    proven,     \* the units those pages prove
    given       \* the units the model answered for them, page after page

page    == <<url, phase, visited>>
faults  == <<ctxDone, died>>
browser == <<look, session, challenge>>
outcome == <<events, returned, stored>>
history == <<extracted, proven, given>>
vars == <<req, attempt, pc, faults, page, browser, result, outcome, history>>

Ends == {"done", "error", "cancelled"}

-----------------------------------------------------------------------------
(* URLs and unit numbers.                                                  *)

\* A URL as it is written: its form ("absolute", "rooted" in its host, or else
\* "relative") and what it resolves to; or nothing.
Missing == [form |-> "missing"]

Absolute(u) == [form |-> "absolute", url |-> u]

\* An absolute URL written without its number or with leading zeros is the same
\* unit; a number that is missing becomes 0.
normalizeUnitNumber(n) ==
    LET i == SelectInSeq(n, LAMBDA d : d # 0)
    IN IF i = 0 THEN <<0>> ELSE SubSeq(n, i, Len(n))

Same(u, v) == normalizeUnitNumber(u.number) = normalizeUnitNumber(v.number)

numericUnitValue(n) ==
    LET value[i \in 0..Len(n)] == IF i = 0 THEN 0 ELSE 10 * value[i - 1] + n[i]
    IN value[Len(n)]

\* A unit as the model lists it, and as a page links to it.
Items == [number : Seq(Nat),
          url : {Missing} \union [form : {"absolute", "rooted", "relative"}, url : Urls]]

\* What an answer holds where its list of units should be: the list, nothing
\* (no such key, or null), or a value of another type.
List(items) == [kind |-> "list", items |-> items]
Nothing     == [kind |-> "null", items |-> <<>>]
Other       == [kind |-> "other", items |-> <<>>]

Links == [number : Seq(Nat), url : {Absolute(u) : u \in Urls}]

\* The numbers a page shows are the keys of a map, by their normal form.
ASSUME PagesAssumption ==
    /\ \A doc \in Documents :
        /\ doc.links \in Seq(Links)
        /\ doc.routes \in Seq([template : DOMAIN Expand, score : Nat])
        /\ doc.visible \subseteq Seq(Nat)
        /\ IsFiniteSet(doc.visible)
        /\ \A m, n \in doc.visible :
              normalizeUnitNumber(m) = normalizeUnitNumber(n) => m = n
        /\ \A n \in doc.visible, t \in DOMAIN Expand : Expand[t][n] \in Urls
    /\ \A answer \in Answers :
        /\ answer.units \in [kind : {"list", "null", "other"}, items : Seq(Items)]
        /\ answer.units.kind # "list" => answer.units.items = <<>>

\* The units listed with a link of their own: the last link of a number wins.
Linked(doc) ==
    LET N(i) == normalizeUnitNumber(doc.links[i].number)
    IN {doc.links[i] : i \in {k \in DOMAIN doc.links :
                                \A m \in (k + 1)..Len(doc.links) : N(m) # N(k)}}

\* A candidate's score is 3 below the page's own path, 2 with a word for units
\* in it, and 0 when it is passed over.  The template of most points, then of
\* most candidates, is taken; two of them are none.
selectRouteTemplate(routes) ==
    LET seen == {r \in ToSet(routes) : r.score > 0}
        Count(r) == Cardinality({i \in DOMAIN routes : routes[i] = r})
        Beats(r, s) == \/ r.score > s.score
                       \/ r.score = s.score /\ Count(r) > Count(s)
    IN {r.template : r \in {b \in seen : \A s \in seen \ {b} : Beats(b, s)}}

Descending(units) ==
    CHOOSE s \in [1..Cardinality(units) -> units] :
        /\ ToSet(s) = units
        /\ \A i, j \in DOMAIN s : i < j =>
              numericUnitValue(s[i].number) >= numericUnitValue(s[j].number)

\* The units a page proves, highest number first.
discoverUnitURLs(doc) ==
    LET linked == Linked(doc)
        known == {normalizeUnitNumber(u.number) : u \in linked}
        listed == {n \in doc.visible : normalizeUnitNumber(n) \notin known}
        routed == {[number |-> n, url |-> Absolute(Expand[t][n])] :
                     n \in listed, t \in selectRouteTemplate(doc.routes)}
    IN Descending(linked \union routed)

\* An item without a URL gets that of the unit with its number.
Filled(item, found) ==
    LET same == {u \in ToSet(found) : Same(u, item)}
    IN IF item.url = Missing /\ same # {}
       THEN [item EXCEPT !.url = (CHOOSE u \in same : TRUE).url] ELSE item

\* Units the model did not list are not added.
Bug_enrichExtractedUnitURLs(value, found) ==
    [value EXCEPT !.items = [i \in DOMAIN @ |-> Filled(@[i], found)]]

\* The answer's units get the URLs they lack, and the units it does not number
\* are added to it.  A value that is no list gives way to them.
enrichExtractedUnitURLs(value, found) ==
    LET items == value.items
        Unlisted(u) == \A i \in DOMAIN items : ~Same(u, items[i])
    IN IF found = <<>> THEN value
       ELSE List([i \in DOMAIN items |-> Filled(items[i], found)]
                   \o Filter(found, {u \in ToSet(found) : Unlisted(u)}))

\* The first answer is taken as it is.  A later list is appended to a list, takes
\* the place of nothing, and is dropped where the first answer had something else.
Merged(first, base, value) ==
    IF first THEN value
    ELSE IF value.kind # "list" THEN base
    ELSE IF base.kind = "list" THEN List(base.items \o value.items)
    ELSE IF base.kind = "null" THEN value
    ELSE base

extractedUnitContainsURL(items, next) ==
    \E i \in DOMAIN items :
        /\ items[i].url # Missing
        /\ items[i].url.url = next.url

\* Equal URLs, or equal items when there is none.
Key(item) == IF item.url # Missing THEN [url |-> item.url] ELSE [item |-> item]

\* The first item of each key.
Deduplicated(items) ==
    LET First(i) == \A k \in 1..(i - 1) : Key(items[k]) # Key(items[i])
        kept == Filter([i \in DOMAIN items |-> i], {i \in DOMAIN items : First(i)})
    IN [k \in DOMAIN kept |-> items[kept[k]]]

-----------------------------------------------------------------------------
(* Events and returns.                                                     *)

\* sendEvent.
Tell(log, kind) ==
    LET e == [attempt |-> attempt, kind |-> kind]
    IN IF log # <<>> /\ kind = "progress" /\ Last(log) = e THEN log ELSE Append(log, e)

Return(how) ==
    /\ returned' = [returned EXCEPT ![attempt] = how]
    /\ pc' = "returned"

\* A cancelled run says that it failed.
Bug_sendError(canceled) ==
    /\ events' = Tell(Tell(events, "progress"), "error")
    /\ Return(IF canceled \/ attempt \in ctxDone THEN "cancelled" ELSE "error")
    /\ UNCHANGED stored

\* canceled: the error wraps context.Canceled, be it of another context.
sendError(canceled) ==
    LET kind == IF canceled \/ attempt \in ctxDone THEN "cancelled" ELSE "error"
    IN /\ events' = Tell(Tell(events, "progress"), kind)
       /\ Return(kind)
       /\ UNCHANGED stored

Goto(here) ==
    /\ pc' = here
    /\ events' = Tell(events, "progress")
    /\ UNCHANGED <<returned, stored>>

\* The payload does not decode, or Validate rejects it.
Start ==
    /\ pc = "start"
    /\ \/ req.valid /\ Goto("navigate")
       \/ /\ ~req.valid
          /\ LET kind == IF attempt \in ctxDone THEN "cancelled" ELSE "error"
             IN events' = Tell(events, kind) /\ Return(kind)
          /\ UNCHANGED stored
    /\ UNCHANGED <<req, attempt, faults, page, browser, result, history>>

-----------------------------------------------------------------------------
(* A page: Navigate, Snapshot and, when a user is needed, the hand-off.    *)

Opens(next) ==
    /\ attempt \notin ctxDone
    /\ session' = TRUE
    /\ Goto(next)

Navigate ==
    /\ \/ pc = "navigate" /\ Opens("snapshot")
       \/ pc = "reopen" /\ Opens("look again")
    /\ UNCHANGED <<req, attempt, faults, page, look, challenge, result, history>>

\* A call of the browser fails.  When Chromium, which only a job with a login has,
\* dies under it, the error wraps the context.Canceled of Chromium's own context.
BrowserFails ==
    \E dies \in {FALSE, req.login} :
        /\ sendError(dies)
        /\ died' = died \union {a \in {attempt} : dies}

NavigateFails ==
    /\ pc \in {"navigate", "reopen"}
    /\ BrowserFails
    /\ UNCHANGED <<req, attempt, ctxDone, page, browser, result, history>>

SnapshotFails ==
    /\ pc \in {"snapshot", "look again"}
    /\ session' = FALSE
    /\ BrowserFails
    /\ UNCHANGED <<req, attempt, ctxDone, page, look, challenge, result, history>>

sameLoginLocation(u) == Location[u] = Location[LoginURL]

\* Every page served at the login URL asks for a login until one is confirmed.
AsksFor(asks, final) ==
    IF phase = "login" /\ asks = "nobody" /\ sameLoginLocation(final)
    THEN "login" ELSE asks

Looks == {"nobody", "login", "challenge", "blocked"}

\* The session is closed; after the login page comes the requested one, and
\* otherwise the page goes to the model.
Leaves ==
    /\ session' = FALSE
    /\ IF phase # "pages"
       THEN /\ phase' = "pages"
            /\ url' = Home
            /\ visited' = visited \union {Home}
            /\ Goto("navigate")
       ELSE Goto("extract") /\ UNCHANGED page
    /\ UNCHANGED challenge

Snapshot ==
    /\ pc = "snapshot"
    /\ attempt \notin ctxDone
    /\ \E asks \in Looks, final \in Urls : look' = AsksFor(asks, final)
    /\ \/ look' = "nobody" /\ Leaves
       \/ /\ look' = "blocked"
          /\ session' = FALSE
          /\ sendError(FALSE)
          /\ UNCHANGED <<page, challenge>>
       \/ /\ look' \in {"login", "challenge"}
          /\ challenge' = TRUE
          /\ pc' = "handoff"
          /\ events' = Tell(Tell(events, "progress"), "challenge")
          /\ UNCHANGED <<page, session, returned, stored>>
    /\ UNCHANGED <<req, attempt, faults, result, history>>

\* The user finishes; the session is closed, which may fail, to keep its cookies.
WaitEnds ==
    /\ pc = "handoff"
    /\ challenge' = FALSE
    /\ session' = FALSE
    /\ phase' = IF phase = "login" /\ look = "login" THEN "confirmed" ELSE phase
    /\ Goto("reopen") \/ sendError(FALSE)
    /\ UNCHANGED <<req, attempt, faults, url, visited, look, result, history>>

\* A challenge nobody answers does not expire.
Bug_WaitFails ==
    /\ pc = "handoff"
    /\ attempt \in ctxDone
    /\ challenge' = FALSE
    /\ session' = FALSE
    /\ sendError(FALSE)
    /\ UNCHANGED <<req, attempt, faults, page, look, result, history>>

\* It expires, is cancelled by the user, or the job is.
WaitFails ==
    /\ pc = "handoff"
    /\ challenge' = FALSE
    /\ session' = FALSE
    /\ sendError(FALSE)
    /\ UNCHANGED <<req, attempt, faults, page, look, result, history>>

\* The reopened page is taken whatever it asks for.
Bug_LookAgain ==
    /\ pc = "look again"
    /\ attempt \notin ctxDone
    /\ look' \in Looks
    /\ Leaves
    /\ UNCHANGED <<req, attempt, faults, result, history>>

LookAgain ==
    /\ pc = "look again"
    /\ attempt \notin ctxDone
    /\ look' \in Looks
    /\ \/ look' = "nobody" /\ Leaves
       \/ /\ look' # "nobody"
          /\ session' = FALSE
          /\ sendError(FALSE)
          /\ UNCHANGED <<page, challenge>>
    /\ UNCHANGED <<req, attempt, faults, result, history>>

-----------------------------------------------------------------------------
(* The model's answer, the next page, and the end of the run.              *)

\* A page that was read already is read again.
Bug_NextPage(next, items) ==
    IF \/ next = Missing
       \/ next = Absolute(url)
       \/ extractedUnitContainsURL(items, next)
       \/ next.form = "relative"
    THEN {} ELSE {next.url}

\* The page to go on with, if any.
NextPage(next, items) ==
    IF \/ next = Missing
       \/ next = Absolute(url)
       \/ extractedUnitContainsURL(items, next)
       \/ next.form = "relative"
       \/ next.url \in visited
    THEN {} ELSE {next.url}

Extract ==
    /\ pc = "extract"
    /\ attempt \notin ctxDone
    /\ \E doc \in Documents, answer \in Answers :
         LET found == discoverUnitURLs(doc)
             parsed == enrichExtractedUnitURLs(answer.units, found)
         IN /\ result' = Merged(extracted = <<>>, result, parsed)
            /\ extracted' = Append(extracted, url)
            /\ proven' = proven \union ToSet(found)
            /\ given' = Append(given, answer.units)
            /\ \/ /\ NextPage(answer.next, parsed.items) = {}
                  /\ Goto("save")
                  /\ UNCHANGED page
               \/ \E next \in NextPage(answer.next, parsed.items) :
                  /\ url' = next
                  /\ visited' = visited \union {next}
                  /\ Goto("navigate")
                  /\ UNCHANGED phase
    /\ UNCHANGED <<req, attempt, faults, browser>>

\* The inference fails, or its answer is not JSON.
ExtractFails ==
    /\ pc = "extract"
    /\ sendError(FALSE)
    /\ UNCHANGED <<req, attempt, faults, page, browser, result, history>>

\* "done" is told whatever became of the media: stored, refused by the database
\* or by its own JSON, or of a target that is not stored.
Save ==
    /\ pc = "save"
    /\ result' = [kind |-> result.kind, items |-> Deduplicated(result.items)]
    /\ \/ /\ attempt \notin ctxDone
          /\ stored' = stored \union {attempt}
          /\ Return("nil")
       \/ UNCHANGED stored /\ Return("error")
    /\ events' = Tell(Tell(events, "progress"), "done")
    /\ UNCHANGED <<req, attempt, faults, page, browser, history>>

-----------------------------------------------------------------------------

Init ==
    /\ req \in [valid : BOOLEAN, login : BOOLEAN]
    /\ attempt = 1
    /\ ctxDone = {}
    /\ died = {}
    /\ look = "nobody"
    /\ session = FALSE
    /\ challenge = FALSE
    /\ events = <<>>
    /\ returned = [a \in 1..MaxAttempts |-> "running"]
    /\ stored = {}
    /\ pc = "start"
    /\ url = IF req.login THEN LoginURL ELSE Home
    /\ phase = IF req.login THEN "login" ELSE "pages"
    /\ visited = {url}
    /\ result = Nothing
    /\ extracted = <<>>
    /\ proven = {}
    /\ given = <<>>

\* The queue gives the job to a worker again, with a context of its own: after an
\* error, after a cancellation that nobody asked for, after one that a shutdown
\* asked for or a user whose cancel the worker could not read, and after a success
\* whose Ack was lost.
Retry ==
    /\ pc = "returned"
    /\ attempt < MaxAttempts
    /\ attempt' = attempt + 1
    /\ pc' = "start"
    /\ url' = IF req.login THEN LoginURL ELSE Home
    /\ phase' = IF req.login THEN "login" ELSE "pages"
    /\ visited' = {url'}
    /\ result' = Nothing
    /\ extracted' = <<>>
    /\ proven' = {}
    /\ given' = <<>>
    /\ UNCHANGED <<req, faults, browser, outcome>>

\* DELETE /jobs/{id}, or the pool shuts down.
ContextEnds ==
    /\ pc # "returned"
    /\ attempt \notin ctxDone
    /\ ctxDone' = ctxDone \union {attempt}
    /\ UNCHANGED <<req, attempt, pc, died, page, browser, result, outcome, history>>

Handler ==
    \/ Start \/ Navigate \/ NavigateFails
    \/ Snapshot \/ SnapshotFails \/ LookAgain \/ WaitFails
    \/ Extract \/ ExtractFails \/ Save

Next == Handler \/ WaitEnds \/ Retry \/ ContextEnds

Spec == Init /\ [][Next]_vars

\* Every call of the handler returns: pages and the model have deadlines and a
\* challenge expires.  Nothing is assumed of the user or of the queue.
FairSpec == Spec /\ WF_vars(Handler)

-----------------------------------------------------------------------------
(* Properties.                                                             *)

Attempts == 1..MaxAttempts

\* An attempt that returned has told its topic so, once and with its last event,
\* and has left neither a session nor a challenge open; one that runs has told no
\* end (every return of the handler; http.go: "The worker publishes its terminal
\* event before returning").  It tells "done" when it stored the media, and the
\* worker learns the same: nil if and only if it did.  One that fails before the
\* save tells "cancelled" if its context was cancelled before the failure or
\* Chromium died under the call, which looks the same, and "error" otherwise.
OneEndPerAttempt ==
    /\ pc = "returned" => ~session /\ ~challenge
    /\ \A a \in Attempts :
        LET told == {i \in DOMAIN events : events[i].attempt = a}
            ends == {i \in told : events[i].kind \in Ends}
        IN IF returned[a] = "running" THEN ends = {}
           ELSE \E last \in told :
                /\ ends = {last}
                /\ \A i \in told : i <= last
                /\ returned[a] = "cancelled" <=> events[last].kind = "cancelled"
                /\ returned[a] = "nil" <=> a \in stored
                /\ a \in stored => events[last].kind = "done"
                /\ events[last].kind # "done" =>
                      (events[last].kind = "cancelled" <=> a \in ctxDone \union died)

\* No page is given to the model twice in an attempt, however its answers chain
\* their next_page_url, and never the login page on the way to it (visitedURLs,
\* "stop to avoid infinite loops"): an attempt reads every URL at most once.
NoPageTwice ==
    /\ IsInjective(extracted)
    /\ extracted # <<>> => extracted[1] = Home

\* A page that goes to the model is one that asks for nobody, with the login
\* phase over: no prompt for a login or a captcha is extracted as content (the
\* resumed page is checked again; "This prevents extracting an account/landing
\* page after login").
NoPromptExtracted ==
    pc = "extract" => look = "nobody" /\ phase = "pages" /\ ~session

\* The units the model listed.
Listed == UNION {ToSet(given[i].items) : i \in DOMAIN given}

\* A unit that a page proves is in the stored list under its number, with the URL
\* the page proves or one the model gave for that number; unless another unit, which
\* a page proves or the model lists with that same URL, is there under the URL
\* instead, because duplicates are told by their URLs.  Merging, repairing and
\* removing duplicates lose none otherwise (extract.go, unit_urls.go), but where the
\* first answer had something else than a list, which drops every later one.
ProvenUnitsKept ==
    LET Stored(v) == \E i \in DOMAIN result.items :
                        Same(result.items[i], v) /\ result.items[i].url = v.url
        Versions(u) == {u} \union {g \in Listed : Same(g, u) /\ g.url # Missing}
        Usurped(u, v) == \E w \in proven \union Listed :
                            ~Same(w, u) /\ w.url = v.url /\ Stored(w)
    IN attempt \in stored =>
         IF result.kind = "list"
         THEN \A u \in proven : \E v \in Versions(u) : Stored(v) \/ Usurped(u, v)
         ELSE proven = {} \/ given[1].kind = "other"

\* On a site of finitely many URLs every attempt returns: the page loop ends for any
\* answers there, and no hand-off waits forever for its user.  The loop counts no
\* pages, so it follows a model that makes up ever new URLs without end.
EveryAttemptReturns == \A a \in Attempts : (attempt = a) ~> (returned[a] # "running")

=============================================================================
