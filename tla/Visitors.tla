------------------------------ MODULE Visitors ------------------------------
(***************************************************************************)
(* The two public pages from the press of the button to what the visitor   *)
(* is told: the feedback form (src/src/frontend/pages/respond/Fill.tsx,    *)
(* lib/respond.ts) and the booking page (Book.tsx, lib/booking.ts), the    *)
(* network between, and the chain their requests go through on the server  *)
(* (features/public/router.ts, middleware/idempotency.ts).                 *)
(*                                                                         *)
(* A fetch may fail at any moment, before or after its request arrived,    *)
(* and the request may arrive twice or long after the page gave up on it.  *)
(* What a submission and a booking do in the database is one step here;    *)
(* their statements are in Campaigns and Booking, with what staff may do   *)
(* to a booking.  The guests of the booking page have no account here, and *)
(* a page that reads what it shows gets an answer.  The two pages share    *)
(* nothing but the middleware, whose keys they keep apart (endpoint), so   *)
(* one behaviour has the visitors of one of them.                          *)
(***************************************************************************)
EXTENDS Idempotency, Sequences

CONSTANTS
  Fillers,      \* browsers with the feedback form of one campaign
  Bookers,      \* browsers with the page of one bookable, one slot
  Texts,        \* what can be written on a page
  Blank,        \* what is on it at first
  Own, Foreign, \* organisations: the campaign's, and another
  Capacity,     \* places in the slot
  MaxCalls,     \* bound on presses of one visitor
  MaxLoads      \* bound on loads of one page

Visitors == Fillers \cup Bookers
Sessions == {Own, Foreign, None}

ASSUME VisitorsAssumption ==
  /\ Fillers \cap Bookers = {}
  /\ Blank \in Texts
  /\ Own # Foreign /\ None \notin {Own, Foreign}
  /\ Capacity \in Nat /\ MaxCalls \in Nat /\ MaxLoads \in Nat

VARIABLES
  at,         \* Visitors -> what the page shows
  text,       \* Visitors -> what is written on it
  load,       \* Visitors -> how often the page was loaded
  calls,      \* Visitors -> the calls it has made: key, body, session, and by which load
  said,       \* Visitors -> what the last call came to, as the page understood it
  has,        \* Visitors -> the request whose result the page holds, or None
  kept,       \* Visitors -> the same in the browser's storage, the marker or cancel token
  session,    \* Fillers -> whose staff session the browser has
  accepting,  \* the campaign and the bookable are open
  restricted, \* campaigns.access = 'organization'
  live,       \* the bookings that are not cancelled
  joined,     \* the members with a participant row
  leaving     \* history: the pages that asked to cancel and were not answered

page == <<at, text, load, calls, said, has, kept, session, leaving>>
campaign == <<accepting, restricted>>
tables == <<live, joined>>
vars == <<page, campaign, tables, middleware>>

Outcomes == {"nothing", "again", "ok", "conflict", "full", "closed", "signIn", "refused"}
Keys == Visitors \X Nat
Places == Sessions \X Keys
Jobs == [of : Visitors, call : Nat, place : Places, body : Texts]

TypeOK ==
  /\ at \in [Visitors -> {"away", "form", "sending", "done", "gone"}]
  /\ text \in [Visitors -> Texts]
  /\ load \in [Visitors -> 1..(MaxLoads + 1)]
  /\ calls \in [Visitors -> Seq([load : Nat, key : Keys, text : Texts, as : Sessions])]
  /\ said \in [Visitors -> Outcomes]
  /\ has \in [Visitors -> Copies \cup {None}]
  /\ kept \in [Visitors -> Copies \cup {None}]
  /\ session \in [Fillers -> Sessions]
  /\ accepting \in BOOLEAN /\ restricted \in BOOLEAN
  /\ live \subseteq done /\ joined \subseteq Fillers
  /\ MiddlewareTypeOK(Jobs, Outcomes, Places)
  /\ leaving \subseteq Bookers

\* requireMembership, for the holder of a session of s.
Allowed(s) == restricted => s = Own

\* The visitors of one of the pages have it before them.
Init ==
  /\ \E here \in {Fillers, Bookers} :
       /\ at = [v \in Visitors |-> IF v \in here THEN "form" ELSE "away"]
       /\ restricted \in {FALSE} \cup {here = Fillers}
       /\ session \in [Fillers -> IF here = Fillers THEN Sessions ELSE {None}]
       /\ here = Fillers => \A f \in Fillers : Allowed(session[f])
  /\ accepting = TRUE
  /\ text = [v \in Visitors |-> Blank]
  /\ load = [v \in Visitors |-> 1]
  /\ calls = [v \in Visitors |-> <<>>]
  /\ said = [v \in Visitors |-> "nothing"]
  /\ has = [v \in Visitors |-> None]
  /\ kept = [v \in Visitors |-> None]
  /\ live = {} /\ joined = {} /\ leaving = {}
  /\ MiddlewareInit

Sent(c) == calls[job[c].of][job[c].call]
-----------------------------------------------------------------------------
(* The browser.                                                            *)

\* What is typed while a call is under way is as good as typed when it has failed.  A guest's
\* details are compared with nothing, for every press has a key of its own.
Write(f, t) ==
  /\ at[f] = "form" /\ text[f] # t
  /\ text' = [text EXCEPT ![f] = t]
  /\ UNCHANGED <<at, load, calls, said, has, kept, session, leaving, campaign, tables, middleware>>

\* submitKey once for each load of the form; bookKey at each press.
FormKey(v) == <<v, load[v]>>
AttemptKey(v) == <<v, Len(calls[v]) + 1>>
SessionOf(v) == IF v \in Fillers THEN session[v] ELSE None

\* Mutant: a key for each press of the form, and one for each load of the booking page.
KeyOfSwapped(v) == IF v \in Fillers THEN AttemptKey(v) ELSE FormKey(v)

KeyOf(v) == IF v \in Fillers THEN FormKey(v) ELSE AttemptKey(v)

Press(v) ==
  /\ at[v] = "form" /\ Len(calls[v]) < MaxCalls
  /\ calls' = [calls EXCEPT ![v] = Append(@, [load |-> load[v], key |-> KeyOf(v),
                                               text |-> text[v], as |-> SessionOf(v)])]
  /\ at' = [at EXCEPT ![v] = "sending"]
  /\ said' = [said EXCEPT ![v] = "nothing"]
  /\ UNCHANGED <<text, load, has, kept, session, leaving, campaign, tables, middleware>>

\* What the page goes back to when a call did not go through: the booking page reads the
\* bookable again.
BackTo(v) == IF v \in Bookers /\ ~accepting THEN "gone" ELSE "form"

\* The fetch fails, whatever became of the request.
Fail(v) ==
  /\ at[v] = "sending"
  /\ at' = [at EXCEPT ![v] = BackTo(v)]
  /\ said' = [said EXCEPT ![v] = "again"]
  /\ UNCHANGED <<text, load, calls, has, kept, session, leaving, campaign, tables, middleware>>

\* The answer of the current call.  The browser may refuse to store the marker.
Hear(v, c) ==
  /\ at[v] = "sending" /\ pc[c] = "answered"
  /\ job[c].of = v /\ job[c].call = Len(calls[v])
  /\ said' = [said EXCEPT ![v] = out[c].said]
  /\ IF out[c].said = "ok"
       THEN /\ at' = [at EXCEPT ![v] = "done"]
            /\ has' = [has EXCEPT ![v] = out[c].result]
            /\ \E k \in {kept[v], out[c].result} : kept' = [kept EXCEPT ![v] = k]
            /\ leaving' = leaving \ {v}
       ELSE at' = [at EXCEPT ![v] = BackTo(v)] /\ UNCHANGED <<has, kept, leaving>>
  /\ UNCHANGED <<text, load, calls, session, campaign, tables, middleware>>

\* Loaded again, perhaps by way of signing in.  The form shows that it was answered before
\* it asks for the campaign; the booking page asks first.
Reload(v) ==
  /\ at[v] # "away" /\ load[v] <= MaxLoads
  /\ load' = [load EXCEPT ![v] = @ + 1]
  /\ text' = [text EXCEPT ![v] = Blank]
  /\ said' = [said EXCEPT ![v] = "nothing"]
  /\ has' = [has EXCEPT ![v] = kept[v]]
  /\ \E s \in Sessions :
       session' = [f \in Fillers |-> IF f = v /\ session[f] = None THEN s ELSE session[f]]
  /\ at' = [at EXCEPT ![v] =
       IF v \in Fillers
         THEN IF kept[v] # None THEN "done" ELSE IF accepting /\ Allowed(session'[v]) THEN "form" ELSE "gone"
         ELSE IF ~accepting THEN "gone" ELSE IF kept[v] # None THEN "done" ELSE "form"]
  /\ UNCHANGED <<calls, kept, leaving, campaign, tables, middleware>>

\* The guest cancels with the token the page holds; the request or its answer may be lost.
Cancel(b) ==
  /\ at[b] = "done"
  /\ \/ /\ live' = live \ {has[b]}
        /\ at' = [at EXCEPT ![b] = BackTo(b)]
        /\ has' = [has EXCEPT ![b] = None]
        /\ kept' = [kept EXCEPT ![b] = None]
        /\ UNCHANGED leaving
     \/ /\ live' \in {live, live \ {has[b]}}
        /\ leaving' = leaving \cup {b}
        /\ UNCHANGED <<at, has, kept>>
  /\ UNCHANGED <<text, load, calls, said, session, campaign, joined, middleware>>

\* It runs out, or is ended in another tab.
SessionEnds(f) ==
  /\ at[f] # "away" /\ session[f] # None
  /\ session' = [session EXCEPT ![f] = None]
  /\ UNCHANGED <<at, text, load, calls, said, has, kept, leaving, campaign, tables, middleware>>

-----------------------------------------------------------------------------
(* The server.                                                             *)

\* closeCampaign and closeBookable.
Close ==
  /\ accepting
  /\ accepting' = FALSE
  /\ UNCHANGED <<restricted, page, tables, middleware>>

\* The session that came with the call, or nobody's when it has ended since.
Caller(v, n) == IF calls[v][n].as = SessionOf(v) THEN calls[v][n].as ELSE None

\* The session's organisation before the link's; a booking link resolves none.
ScopeOf(v, s) == IF v \in Fillers /\ s = None THEN Own ELSE s

\* A call arrives, again perhaps: the link is resolved, then the membership is asked for.
Arrive(c, v, n) ==
  LET s == Caller(v, n)
      call == [of |-> v, call |-> n, place |-> <<ScopeOf(v, s), calls[v][n].key>>, body |-> calls[v][n].text]
      admitted == v \in Fillers => Allowed(s)
  IN  /\ Receive(c, call, IF ~accepting THEN "closed" ELSE IF admitted THEN "looking" ELSE "signIn")
      /\ UNCHANGED <<page, campaign, tables>>

Middle(c) == (LookUp(c) \/ Store(c)) /\ UNCHANGED <<page, campaign, tables>>

\* submitResponse: the participant row first, then the response.
Submit(c) ==
  /\ job[c] # None /\ job[c].of \in Fillers
  /\ IF restricted /\ job[c].of \in joined
       THEN Refuse(c, "conflict") /\ UNCHANGED joined
       ELSE Handle(c) /\ joined' = IF restricted THEN joined \cup {job[c].of} ELSE joined
  /\ UNCHANGED <<page, campaign, live>>

\* book, under the lock of the slot.
Book(c) ==
  /\ job[c] # None /\ job[c].of \in Bookers
  /\ IF Cardinality(live) >= Capacity
       THEN Refuse(c, "full") /\ UNCHANGED live
       ELSE Handle(c) /\ live' = live \cup {c}
  /\ UNCHANGED <<page, campaign, joined>>

\* The answers do not fit the questions any more, the slot is gone, or the transaction fails.
TurnDown(c) == Refuse(c, "refused") /\ UNCHANGED <<page, campaign, tables>>

PageStep(v) ==
  \/ Press(v) \/ Fail(v) \/ Reload(v)
  \/ \E c \in Copies : Hear(v, c)

ServerStep(c) ==
  \/ \E v \in Visitors : \E n \in DOMAIN calls[v] : Arrive(c, v, n)
  \/ Middle(c) \/ Submit(c) \/ Book(c) \/ TurnDown(c)

Next ==
  \/ \E v \in Visitors : PageStep(v)
  \/ \E f \in Fillers, t \in Texts : Write(f, t)
  \/ \E b \in Bookers : Cancel(b)
  \/ \E f \in Fillers : SessionEnds(f)
  \/ \E c \in Copies : ServerStep(c)
  \/ Close
  \/ (Sweep \/ Restart \/ Tick) /\ UNCHANGED <<page, campaign, tables>>

Spec == Init /\ [][Next]_vars

-----------------------------------------------------------------------------
(* Properties.                                                             *)

Last(v) == calls[v][Len(calls[v])]

\* Whoever is thanked is thanked for what they sent: the result the page holds is of a
\* response of theirs with the very answers of their last call, however often they
\* corrected and sent again (the hash of replay(), one key for each load).
ThanksMeansRecorded ==
  \A f \in Fillers : said[f] = "ok" =>
    has[f] \in done /\ job[has[f]].of = f /\ Sent(has[f]).text = Last(f).text

\* "Your answers were already recorded. There is nothing more to do." (Fill.tsx) is said
\* only to somebody of whom a response is recorded, whichever check refused the call.
RecordedMeansRecorded ==
  \A f \in Fillers : said[f] = "conflict" => \E c \in done : job[c].of = f

\* "One key per form fill ... reused for every retry of that fill" (submitKey): a load of
\* the form makes one response in one key space, with the excuses of the middleware.
OneResponsePerFill ==
  \A c, d \in done :
    /\ job[c].of \in Fillers /\ job[c].of = job[d].of /\ Sent(c).load = Sent(d).load
    /\ job[c].place[1] = job[d].place[1]
    => c = d \/ job[c].place \in excused

\* A page that says "You're booked" holds a place, unless it asked to give that place back
\* and never heard: a press after a cancellation is not answered with the old booking.
BookedMeansHeld ==
  \A b \in Bookers : at[b] = "done" => has[b] \in live \/ b \in leaving

(* What the code says and does not keep; see the README.                   *)

\* "A retry on a weak network must not take two places out of a slot for one person"
\* (features/public/router.ts).
OnePlacePerPerson ==
  \A c, d \in live : job[c].of = job[d].of => c = d

\* "Which is what makes the retry idempotent" (submitKey), with nothing excused.
OneResponseWhateverHappens ==
  \A c, d \in done : job[c].of = job[d].of /\ Sent(c).load = Sent(d).load => c = d
=============================================================================
