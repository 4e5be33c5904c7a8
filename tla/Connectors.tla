---------------------------- MODULE Connectors ----------------------------
(***************************************************************************)
(* What the connectors' sync methods fetch: Google (Gmail and Calendar),   *)
(* Microsoft 365 (mail folders and calendar), Zoom and Google Meet (call   *)
(* transcripts).  A sync maps the account's cursor to one page of items    *)
(* and the next cursor; when sync_once has stored the page it stores the   *)
(* cursor with it.  Attempts overlap (see AccountSync), so a page may land *)
(* long after it was fetched and take the cursor back.                     *)
(*                                                                         *)
(* A mail folder or calendar is a feed of changes, numbered as they occur. *)
(* A history id, sync token, delta or next link is a position in it: the   *)
(* changes up to it have been handed out.  A page token of a search (Gmail *)
(* messages.list, Zoom and Meet listings) stands for what the search found *)
(* and has not handed out; what appears later is not part of it.           *)
(***************************************************************************)
EXTENDS Integers, Sequences, FiniteSets

CONSTANTS
  Providers,     \* of "google", "microsoft", "zoom", "google_meet"
  Folders,       \* Outlook folders, in the order of the settings
  Mailbox,       \* Mailbox[f]: changes of feed f before the account is connected
  MaxChanges,    \* bound on the changes of each feed
  Skipped,       \* messages with an excluded label or personal category
  EventDay,      \* EventDay[n]: day of the meeting that calendar change n is about
  Ahead,         \* days the first Outlook calendar query looks ahead (90)
  Calls,         \* recorded calls
  CallDay,       \* CallDay[k]: day of call k
  Backfill,      \* days the first Zoom or Meet listing looks back (180)
  Window,        \* days of a Zoom listing (30)
  Overlap,       \* Overlap[p]: days p looks back once it is caught up (2, 1)
  FirstDay, LastDay,  \* LastDay[p]: bound on the days with provider p
  PageSize,
  Attempts,
  MaxFaults      \* bound on expiries and on syncs begun while another runs

FeedsOf == [google      |-> {"gmail", "calendar"},
            microsoft   |-> {Folders[i] : i \in DOMAIN Folders} \cup {"calendar"},
            zoom        |-> {},
            google_meet |-> {}]
Feeds == UNION {FeedsOf[p] : p \in {"google", "microsoft"}}

ASSUME FeedsAssumption ==
  /\ Providers \subseteq {"google", "microsoft", "zoom", "google_meet"}
  /\ Mailbox \in [Feeds -> Nat] /\ MaxChanges \in [Feeds -> Nat] /\ Skipped \subseteq Feeds \X Nat
  /\ \A f \in Feeds : Mailbox[f] <= MaxChanges[f] /\ f # "calls"
  /\ DOMAIN EventDay = 1 .. MaxChanges["calendar"]
ASSUME DaysAssumption ==
  /\ Ahead \in Nat /\ Backfill \in Nat /\ FirstDay \in Nat /\ Backfill <= FirstDay
  /\ \A p \in Providers : LastDay[p] \in Nat
  /\ \A k \in Calls, p \in Providers : CallDay[k] >= LastDay[p] - Backfill
  /\ Overlap \in [{"zoom", "google_meet"} -> 1 .. Window]
ASSUME BoundsAssumption ==
  PageSize \in Nat \ {0} /\ MaxFaults \in Nat

VARIABLES
  provider,  \* of the account
  cursor,    \* sync_cursor; history: eras of its tokens, a round's first day
  stored,    \* items that have been landed
  resting,   \* the last page said done: the workflow sleeps
  \* the provider's side
  day,
  top,       \* top[f]: changes of feed f so far
  era,       \* era[f]: times the provider has let the tokens of feed f expire
  ready,     \* ready[k]: day the transcript of call k became available
  \* attempts
  page,      \* page[a]: fetched and not landed yet
  \* history
  stretched, \* a round of listings went on over the end of a day
  faults

accountVars == <<provider, cursor, stored, resting>>
worldVars   == <<day, top, era, ready>>
vars == <<provider, cursor, stored, resting, day, top, era, ready, page, stretched, faults>>

Unset  == -1
NoPage == [items |-> {}, cursor |-> <<>>, done |-> FALSE]

Fresh == [next |-> Unset, delta |-> Unset, caught |-> FALSE, era |-> 0]

EmptyCursor ==
  [google      |-> [hist |-> Unset, page |-> Unset, full |-> FALSE, hpage |-> Unset, hera |-> 0,
                    sync |-> Unset, cpage |-> Unset, sera |-> 0],
   microsoft   |-> [mail |-> [f \in FeedsOf["microsoft"] \ {"calendar"} |-> Fresh],
                    calendar |-> Fresh, until |-> Unset],
   zoom        |-> [from |-> Unset, rest |-> {}, began |-> Unset],
   google_meet |-> [from |-> Unset, rest |-> {}, began |-> Unset]]

Init ==
  /\ provider \in Providers
  /\ cursor = EmptyCursor[provider]
  /\ stored = {} /\ resting = FALSE
  /\ day = FirstDay
  /\ top = [f \in Feeds |-> IF f \in FeedsOf[provider] THEN Mailbox[f] ELSE 0]
  /\ era = [f \in Feeds |-> 0]
  /\ ready = [k \in Calls |-> Unset]
  /\ page  = [a \in Attempts |-> NoPage]
  /\ stretched = FALSE /\ faults = 0

-----------------------------------------------------------------------------
(* One sync call.  The page is kept until it lands. *)

Idle(a) == page[a] = NoPage

Fault == faults < MaxFaults /\ faults' = faults + 1

\* A second sync is an attempt that outlasted its timeout, or a user's.
Begins(a) ==
  /\ Idle(a)
  /\ IF \A b \in Attempts : Idle(b) THEN UNCHANGED faults
       ELSE Fault

Returns(a, items, next, done) ==
  /\ page' = [page EXCEPT ![a] = [items |-> items, cursor |-> next, done |-> done]]
  /\ UNCHANGED <<accountVars, worldVars>>

Given(pos, default) == IF pos = Unset THEN default ELSE pos
Least(i, j)    == IF i <= j THEN i ELSE j
Reach(f, from) == Least(from + PageSize, top[f])

\* [variant: what the account's settings exclude is fetched as well]
Changes_Unfiltered(f, from, to) == {<<f, n>> : n \in from + 1 .. to}

Changes(f, from, to) == {<<f, n>> : n \in from + 1 .. to} \ Skipped

\* A token is refused once the provider has forgotten what it issued so far.
Expired(f, token, issued) == token # Unset /\ issued < era[f]

-----------------------------------------------------------------------------
(* Google: GoogleConnector.sync. *)

Google(a) == Begins(a) /\ provider = "google" /\ UNCHANGED stretched

\* [variant: the history id is read when the backfill is complete]
GmailBackfill_LateHistory(a) ==
  /\ Google(a) /\ ~ cursor.full
  /\ LET upto == Given(cursor.page, top["gmail"])
         left == IF upto > PageSize THEN upto - PageSize ELSE 0
     IN  Returns(a, Changes("gmail", left, upto),
                 [cursor EXCEPT !.hist = IF left = 0 THEN top["gmail"] ELSE Unset,
                                !.hera = era["gmail"],
                                !.page = IF left = 0 THEN Unset ELSE left,
                                !.full = (left = 0)], FALSE)

\* Phase 1: messages.list, newest first.  The history id is read before the
\* first page and kept through the backfill.
GmailBackfill(a) ==
  /\ Google(a) /\ ~ cursor.full
  /\ LET upto == Given(cursor.page, top["gmail"])
         left == IF upto > PageSize THEN upto - PageSize ELSE 0
     IN  Returns(a, Changes("gmail", left, upto),
                 [cursor EXCEPT !.hist = Given(@, top["gmail"]),
                                !.hera = IF cursor.hist = Unset THEN era["gmail"] ELSE @,
                                !.page = IF left = 0 THEN Unset ELSE left,
                                !.full = (left = 0)], FALSE)

\* events.list from a position: the page and the cursor after it.
Events(c) == Changes("calendar", Given(c.cpage, Given(c.sync, 0)),
                     Reach("calendar", Given(c.cpage, Given(c.sync, 0))))
AfterEvents(c) ==
  LET to == Reach("calendar", Given(c.cpage, Given(c.sync, 0)))
  IN  IF to < top["calendar"] THEN [c EXCEPT !.cpage = to]
                              ELSE [c EXCEPT !.cpage = Unset, !.sync = to, !.sera = era["calendar"]]

\* Phase 2: events.list until it yields a sync token.
CalendarBackfill(a) ==
  /\ Google(a) /\ cursor.full /\ cursor.sync = Unset
  /\ Returns(a, Events(cursor), AfterEvents(cursor), FALSE)

\* [variant: every page of the history moves the history id to the mailbox's]
AfterHistory_Latest(c) ==
  LET to == Reach("gmail", Given(c.hpage, c.hist))
  IN  IF to < top["gmail"] THEN [c EXCEPT !.hpage = to, !.hist = top["gmail"]]
                           ELSE [c EXCEPT !.hpage = Unset, !.hist = to, !.hera = era["gmail"]]

\* history.list: the history id moves on with the last page.
AfterHistory(c) ==
  LET to == Reach("gmail", Given(c.hpage, c.hist))
  IN  IF to < top["gmail"] THEN [c EXCEPT !.hpage = to]
                           ELSE [c EXCEPT !.hpage = Unset, !.hist = to, !.hera = era["gmail"]]

History(c) == Changes("gmail", Given(c.hpage, c.hist), Reach("gmail", Given(c.hpage, c.hist)))

Incremental(a) == Google(a) /\ cursor.full /\ cursor.sync # Unset

\* 404: the history id has expired, and the mailbox is read from the start.
HistoryExpired(a) ==
  /\ Incremental(a) /\ Expired("gmail", cursor.hist, cursor.hera)
  /\ Returns(a, {}, [cursor EXCEPT !.hist = Unset, !.page = Unset, !.full = FALSE,
                                   !.hpage = Unset], FALSE)

\* 410 for the calendar: the messages of the same sync are kept.
CalendarExpired(a) ==
  /\ Incremental(a) /\ ~ Expired("gmail", cursor.hist, cursor.hera)
  /\ Expired("calendar", cursor.sync, cursor.sera)
  /\ Returns(a, History(cursor),
             [AfterHistory(cursor) EXCEPT !.sync = Unset, !.cpage = Unset], FALSE)

\* Phase 3: one page of the history, one of the calendar.
GoogleIncrement(a) ==
  /\ Incremental(a)
  /\ ~ Expired("gmail", cursor.hist, cursor.hera) /\ ~ Expired("calendar", cursor.sync, cursor.sera)
  /\ LET next == AfterEvents(AfterHistory(cursor))
     IN  Returns(a, History(cursor) \cup Events(cursor), next,
                 next.hpage = Unset /\ next.cpage = Unset)

-----------------------------------------------------------------------------
(* Microsoft 365: MicrosoftConnector.sync. *)

CaughtUp(s) == s.delta # Unset /\ s.next = Unset /\ s.caught

Link(s) == Given(s.next, s.delta)

\* The first folder that still has pages to read in this round.
NextFolder(f) ==
  \E i \in DOMAIN Folders :
    /\ f = Folders[i] /\ ~ CaughtUp(cursor.mail[f])
    /\ \A j \in 1 .. i - 1 : CaughtUp(cursor.mail[Folders[j]])

Microsoft(a) == Begins(a) /\ provider = "microsoft" /\ UNCHANGED stretched

\* [variant: 410 drops the next link only]
FolderExpired_KeepsDelta(a) ==
  /\ Microsoft(a)
  /\ \E f \in DOMAIN cursor.mail :
       /\ NextFolder(f) /\ Expired(f, Link(cursor.mail[f]), cursor.mail[f].era)
       /\ Returns(a, {}, [cursor EXCEPT !.mail[f].next = Unset], FALSE)

\* 410: the folder is read from the start.
FolderExpired(a) ==
  /\ Microsoft(a)
  /\ \E f \in DOMAIN cursor.mail :
       /\ NextFolder(f) /\ Expired(f, Link(cursor.mail[f]), cursor.mail[f].era)
       /\ Returns(a, {}, [cursor EXCEPT !.mail[f] = Fresh], FALSE)

\* One page of a folder's delta.
FolderPage(a) ==
  /\ Microsoft(a)
  /\ \E f \in DOMAIN cursor.mail :
       LET from == Given(Link(cursor.mail[f]), 0)
           to   == Reach(f, from)
       IN  /\ NextFolder(f) /\ ~ Expired(f, Link(cursor.mail[f]), cursor.mail[f].era)
           /\ Returns(a, Changes(f, from, to),
                [cursor EXCEPT !.mail[f] =
                   IF to < top[f]
                     THEN [@ EXCEPT !.next = to, !.caught = FALSE, !.era = era[f]]
                     ELSE [next |-> Unset, delta |-> to, caught |-> TRUE, era |-> era[f]]], FALSE)

Calendar(a) == Microsoft(a) /\ ~ \E f \in DOMAIN cursor.mail : NextFolder(f)

OutlookExpired(a) ==
  /\ Calendar(a) /\ Expired("calendar", Link(cursor.calendar), cursor.calendar.era)
  /\ Returns(a, {}, [cursor EXCEPT !.calendar = Fresh, !.until = Unset], FALSE)

\* [variant: the folders stay caught up when the round is complete]
NewRound_Forgets(c) == c

\* "Clear per-round markers so the next sync starts over."
NewRound(c) == [c EXCEPT !.mail = [f \in DOMAIN c.mail |-> [c.mail[f] EXCEPT !.caught = FALSE]]]

\* One page of the calendar's delta.  Its links keep the range of days of the
\* query they began with.
OutlookEvents(a) ==
  /\ Calendar(a) /\ ~ Expired("calendar", Link(cursor.calendar), cursor.calendar.era)
  /\ LET from  == Given(Link(cursor.calendar), 0)
         to    == Reach("calendar", from)
         until == Given(cursor.until, day + Ahead)
         more  == to < top["calendar"]
         next  == [cursor EXCEPT !.until = until, !.calendar.next = IF more THEN to ELSE Unset,
                                 !.calendar.delta = IF more THEN @ ELSE to,
                                 !.calendar.era = era["calendar"]]
     IN  Returns(a, {e \in Changes("calendar", from, to) : EventDay[e[2]] <= until},
                 IF more THEN next ELSE NewRound(next), ~ more)

-----------------------------------------------------------------------------
(* Zoom and Meet: listings of calls; transcripts come some time after a call. *)

\* The day of the round's first listing.
Began == Given(cursor.began, day)

\* A page hands out some of the calls a listing found; those without a
\* transcript yield nothing.  After the last page the cursor is next.
Listed(a, hits, next) ==
  LET list == IF cursor.rest # {} THEN cursor.rest ELSE hits
  IN  /\ Begins(a)
      /\ stretched' = (stretched \/ Began # day)
      /\ \E some \in SUBSET list :
           /\ Cardinality(some) = Least(PageSize, Cardinality(list))
           /\ LET items == {<<"calls", k>> : k \in {c \in some : ready[c] # Unset}}
              IN  IF some # list
                    THEN Returns(a, items, [cursor EXCEPT !.rest = list \ some, !.began = Began], FALSE)
                    ELSE Returns(a, items, next, next.began = Unset)

Held(from, to) == {k \in Calls : CallDay[k] \in from .. to}

\* [variant: caught up, the next listing begins today]
ZoomNext_NoOverlap(began) ==
  LET end == Least(Given(cursor.from, day - Backfill) + Window, day)
  IN  IF end >= day THEN [from |-> day, rest |-> {}, began |-> Unset]
                    ELSE [from |-> end, rest |-> {}, began |-> began]

\* The next window, or the last days again: transcripts arrive late.
ZoomNext(began) ==
  LET end == Least(Given(cursor.from, day - Backfill) + Window, day)
  IN  IF end >= day THEN [from |-> day - Overlap["zoom"], rest |-> {}, began |-> Unset]
                    ELSE [from |-> end, rest |-> {}, began |-> began]

ZoomPage(a) ==
  /\ provider = "zoom"
  /\ LET start == Given(cursor.from, day - Backfill)
     IN  Listed(a, Held(start, Least(start + Window, day)), ZoomNext(Began))

\* [variant: a call is not looked for again]
MeetNext_NoOverlap(began) == [from |-> day, rest |-> {}, began |-> Unset]

MeetNext(began) == [from |-> day - Overlap["google_meet"], rest |-> {}, began |-> Unset]

MeetPage(a) ==
  /\ provider = "google_meet"
  /\ Listed(a, Held(Given(cursor.from, day - Backfill), day), MeetNext(Began))

-----------------------------------------------------------------------------
\* sync_once stores the page and the cursor in one transaction.
Land(a) ==
  /\ ~ Idle(a)
  /\ stored' = stored \cup page[a].items
  /\ cursor' = page[a].cursor
  /\ resting' = page[a].done
  /\ page' = [page EXCEPT ![a] = NoPage]
  /\ UNCHANGED <<provider, worldVars, stretched, faults>>

\* The attempt fails, before or after its page is fetched.
Fails(a) ==
  /\ ~ Idle(a)
  /\ page' = [page EXCEPT ![a] = NoPage]
  /\ UNCHANGED <<accountVars, worldVars, stretched, faults>>

\* A message arrives or a meeting is entered, moved or cancelled.
Change(f) ==
  /\ f \in FeedsOf[provider] /\ top[f] < MaxChanges[f]
  /\ top' = [top EXCEPT ![f] = @ + 1]
  /\ UNCHANGED <<accountVars, day, era, ready, page, stretched, faults>>

\* The provider forgets its change log: older ids and tokens are refused.
Expire(f) ==
  /\ f \in FeedsOf[provider] /\ Fault
  /\ era' = [era EXCEPT ![f] = @ + 1]
  /\ UNCHANGED <<accountVars, day, top, ready, page, stretched>>

Transcribed(k) ==
  /\ provider \in {"zoom", "google_meet"}
  /\ CallDay[k] <= day /\ ready[k] = Unset
  /\ ready' = [ready EXCEPT ![k] = day]
  /\ UNCHANGED <<accountVars, day, top, era, page, stretched, faults>>

NextDay ==
  /\ day < LastDay[provider]
  /\ day' = day + 1
  /\ UNCHANGED <<accountVars, top, era, ready, page, stretched, faults>>

-----------------------------------------------------------------------------
Fetch(a) ==
  \/ GmailBackfill(a) \/ CalendarBackfill(a)
  \/ HistoryExpired(a) \/ CalendarExpired(a) \/ GoogleIncrement(a)
  \/ FolderExpired(a) \/ FolderPage(a) \/ OutlookExpired(a) \/ OutlookEvents(a)
  \/ ZoomPage(a) \/ MeetPage(a)

WorldNext ==
  \/ \E f \in Feeds : Change(f) \/ Expire(f)
  \/ \E k \in Calls : Transcribed(k)
  \/ NextDay

Next == (\E a \in Attempts : Fetch(a) \/ Land(a) \/ Fails(a)) \/ WorldNext

Spec == Init /\ [][Next]_vars

\* The workflow syncs again and again; an attempt that fails is retried, so one
\* succeeds in the end.  The providers and their users owe nothing.
FairSpec ==
  /\ Spec
  /\ \A a \in Attempts : WF_vars(Fetch(a)) /\ SF_vars(Land(a))

-----------------------------------------------------------------------------
(* Properties. *)

\* Of each feed, the changes that a cursor has behind it.
Passed(c) ==
  CASE provider = "google" ->
         {<<"gmail", n>> : n \in {i \in 1 .. top["gmail"] :
              \/ c.full /\ (i <= c.hist \/ i <= c.hpage)
              \/ ~ c.full /\ c.page # Unset /\ c.page < i /\ i <= c.hist}}
           \cup {<<"calendar", n>> : n \in {i \in 1 .. top["calendar"] : i <= c.sync \/ i <= c.cpage}}
    [] provider = "microsoft" ->
         (UNION {{<<f, n>> : n \in {i \in 1 .. top[f] : i <= Link(c.mail[f])}} : f \in DOMAIN c.mail})
           \cup {<<"calendar", n>> : n \in {i \in 1 .. top["calendar"] :
                    i <= Link(c.calendar) /\ EventDay[i] <= c.until}}
    [] OTHER -> {}

\* "An empty cursor means backfill", and a cursor means everything before it is
\* stored: with expired tokens, attempts that overlap and land late, and mail that
\* arrives between two pages, no cursor passes a message or event not stored.
PassedAreStored == Passed(cursor) \subseteq stored \cup Skipped

\* The values the variables take; nothing the settings exclude is fetched.
TypeOK ==
  /\ provider \in Providers
  /\ stored \cap Skipped = {}
  /\ \A a \in Attempts : page[a].items \cap Skipped = {} /\ page[a].done \in BOOLEAN
  /\ faults \in 0 .. MaxFaults
  /\ \A f \in Feeds : top[f] \in 0 .. MaxChanges[f] /\ era[f] <= faults

Inv == TypeOK /\ PassedAreStored

\* What the first Outlook query did not look ahead to is out of its links' range.
OutOfRange(f, n) ==
  provider = "microsoft" /\ f = "calendar" /\ EventDay[n] > cursor.until

\* Every message and event is stored in the end, however pages, expiries, other
\* folders and attempts interleave; but for Outlook meetings further ahead than
\* the first calendar query looked.
ChangesGetStored ==
  \A f \in Feeds : \A n \in 1 .. MaxChanges[f] :
    (top[f] >= n /\ <<f, n>> \notin Skipped) ~> (<<f, n>> \in stored \/ OutOfRange(f, n))

\* A transcript that is there within the overlap after its call is stored in the
\* end, whenever syncs happen to run, if rounds of listings end the day they begin.
TranscriptsGetStored ==
  \A k \in Calls :
    (ready[k] # Unset /\ ready[k] <= CallDay[k] + Overlap[provider])
      ~> (<<"calls", k>> \in stored \/ stretched)

EverythingGetsStored == ChangesGetStored /\ TranscriptsGetStored

\* Every round comes to an end: the workflow gets to sleep.
RoundsEnd == []<>resting

-----------------------------------------------------------------------------
(* The strengthening that makes Inv inductive. *)

GoogleCursors ==
  [hist : Int, page : Int, full : BOOLEAN, hpage : Int, hera : Int,
   sync : Int, cpage : Int, sera : Int]
Positions      == Nat \cup {Unset}
FolderCursors  == [next : Positions, delta : Positions, caught : BOOLEAN, era : Int]
OutlookCursors ==
  [mail : [FeedsOf["microsoft"] \ {"calendar"} -> FolderCursors],
   calendar : FolderCursors, until : Int]

\* Positions are those of changes that have occurred.  A Gmail backfill has its
\* history id before its first page token and no history page; links of the
\* Outlook calendar come with the range of days they were asked for.
Known(c) ==
  /\ provider = "google" =>
       /\ c \in GoogleCursors
       /\ c.hist <= top["gmail"] /\ c.hpage <= top["gmail"]
       /\ c.sync <= top["calendar"] /\ c.cpage <= top["calendar"]
       /\ ~ c.full => c.hpage = Unset /\ (c.page # Unset => c.hist # Unset)
  /\ provider = "microsoft" =>
       /\ c \in OutlookCursors
       /\ \A f \in DOMAIN c.mail : Link(c.mail[f]) <= top[f]
       /\ Link(c.calendar) <= top["calendar"]
       /\ Link(c.calendar) # Unset => c.until # Unset

\* A page that may still land, however late, holds what its cursor passes and is
\* not stored.
PagesSound ==
  \A a \in Attempts : ~ Idle(a) =>
    /\ Known(page[a].cursor)
    /\ Passed(page[a].cursor) \subseteq stored \cup page[a].items \cup Skipped

Shapes ==
  /\ day \in Nat /\ top \in [Feeds -> Nat] /\ era \in [Feeds -> Nat]
  /\ page = [a \in Attempts |-> page[a]]
  /\ \A a \in Attempts : Idle(a) \/ page[a].done \in BOOLEAN

IInv == Shapes /\ TypeOK /\ Known(cursor) /\ PagesSound /\ PassedAreStored
=============================================================================
