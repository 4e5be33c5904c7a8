--------------------------- MODULE IntakeProofs ---------------------------
(***************************************************************************)
(* Proofs about what is fetched from outside: the pages the connectors     *)
(* fetch for an account's sync (Connectors) and CRM imports (CrmImport).   *)
(* In both, work that was begun earlier may land at any time, so each      *)
(* proof carries what is promised of work in flight: a page or a           *)
(* transaction holds what it will claim to be stored.                      *)
(***************************************************************************)
EXTENDS Connectors, CrmImport, FiniteSetTheorems, TLAPS

-----------------------------------------------------------------------------
(* Connectors. *)

\* Passed and Known as functions of the provider and of what its feeds hold, to compare
\* them in two states.
PassedAt(p, t, c) ==
  CASE p = "google" ->
         {<<"gmail", n>> : n \in {i \in 1 .. t["gmail"] :
              \/ c.full /\ (i <= c.hist \/ i <= c.hpage)
              \/ ~ c.full /\ c.page # Unset /\ c.page < i /\ i <= c.hist}}
           \cup {<<"calendar", n>> : n \in {i \in 1 .. t["calendar"] : i <= c.sync \/ i <= c.cpage}}
    [] p = "microsoft" ->
         (UNION {{<<f, n>> : n \in {i \in 1 .. t[f] : i <= Link(c.mail[f])}} : f \in DOMAIN c.mail})
           \cup {<<"calendar", n>> : n \in {i \in 1 .. t["calendar"] :
                    i <= Link(c.calendar) /\ EventDay[i] <= c.until}}
    [] OTHER -> {}

KnownAt(p, t, c) ==
  /\ p = "google" =>
       /\ c \in GoogleCursors
       /\ c.hist <= t["gmail"] /\ c.hpage <= t["gmail"]
       /\ c.sync <= t["calendar"] /\ c.cpage <= t["calendar"]
       /\ ~ c.full => c.hpage = Unset /\ (c.page # Unset => c.hist # Unset)
  /\ p = "microsoft" =>
       /\ c \in OutlookCursors
       /\ \A f \in DOMAIN c.mail : Link(c.mail[f]) <= t[f]
       /\ Link(c.calendar) <= t["calendar"]
       /\ Link(c.calendar) # Unset => c.until # Unset

\* Passed and Known in terms of the state they read, before and after a step.
LEMMA AtState ==
  ASSUME NEW c
  PROVE  Passed(c) = PassedAt(provider, top, c) /\ Known(c) = KnownAt(provider, top, c)
BY DEF Passed, PassedAt, Known, KnownAt

LEMMA CursorAt ==
  /\ Passed(cursor) = PassedAt(provider, top, cursor)
  /\ Known(cursor) = KnownAt(provider, top, cursor)
  /\ Passed(cursor)' = PassedAt(provider', top', cursor')
  /\ Known(cursor)' = KnownAt(provider', top', cursor')
BY DEF Passed, PassedAt, Known, KnownAt

LEMMA PageAt ==
  ASSUME NEW a \in Attempts
  PROVE  /\ Passed(page[a].cursor)' = PassedAt(provider', top', page'[a].cursor)
         /\ Known(page[a].cursor)' = KnownAt(provider', top', page'[a].cursor)
BY DEF Passed, PassedAt, Known, KnownAt

\* The feeds the connectors name.
LEMMA NamedFeeds ==
  /\ "gmail" \in Feeds /\ "calendar" \in Feeds
  /\ FeedsOf["google"] = {"gmail", "calendar"}
  /\ FeedsOf["microsoft"] \subseteq Feeds
BY DEF Feeds, FeedsOf

\* What a cursor passes, element by element, for each provider.
LEMMA PassedGoogle ==
  ASSUME NEW t, NEW c, NEW x
  PROVE  x \in PassedAt("google", t, c) <=>
           \/ \E n \in 1 .. t["gmail"] : x = <<"gmail", n>> /\
                 \/ c.full /\ (n <= c.hist \/ n <= c.hpage)
                 \/ ~ c.full /\ c.page # Unset /\ c.page < n /\ n <= c.hist
           \/ \E n \in 1 .. t["calendar"] : x = <<"calendar", n>> /\ (n <= c.sync \/ n <= c.cpage)
BY DEF PassedAt

LEMMA PassedMicrosoft ==
  ASSUME NEW p, p = "microsoft", NEW t, NEW c, NEW x
  PROVE  x \in PassedAt(p, t, c) <=>
           \/ \E f \in DOMAIN c.mail : \E n \in 1 .. t[f] : x = <<f, n>> /\ n <= Link(c.mail[f])
           \/ \E n \in 1 .. t["calendar"] :
                x = <<"calendar", n>> /\ n <= Link(c.calendar) /\ EventDay[n] <= c.until
<1>1. PICK M : M = {{<<f, n>> : n \in {i \in 1 .. t[f] : i <= Link(c.mail[f])}} : f \in DOMAIN c.mail}
  OBVIOUS
<1>2. PICK E : E = {<<"calendar", n>> : n \in {i \in 1 .. t["calendar"] :
                      i <= Link(c.calendar) /\ EventDay[i] <= c.until}}
  OBVIOUS
<1>3. PassedAt(p, t, c) = (UNION M) \cup E
  BY <1>1, <1>2 DEF PassedAt
<1>4. x \in UNION M <=> \E f \in DOMAIN c.mail : \E n \in 1 .. t[f] : x = <<f, n>> /\ n <= Link(c.mail[f])
  BY <1>1
<1>5. x \in E <=> \E n \in 1 .. t["calendar"] :
                x = <<"calendar", n>> /\ n <= Link(c.calendar) /\ EventDay[n] <= c.until
  BY <1>2
<1>6. x \in PassedAt(p, t, c) <=> x \in UNION M \/ x \in E
  BY <1>3
<1> QED BY <1>4, <1>5, <1>6

LEMMA PassedOther ==
  ASSUME NEW p, p # "google", p # "microsoft", NEW t, NEW c
  PROVE  PassedAt(p, t, c) = {} /\ KnownAt(p, t, c)
BY DEF PassedAt, KnownAt

\* Feeds that grow take no cursor further: positions are those of changes that were
\* there when they were handed out.
LEMMA Grows ==
  ASSUME NEW p, NEW t \in [Feeds -> Nat], NEW u \in [Feeds -> Nat],
         \A f \in Feeds : t[f] <= u[f], NEW c, KnownAt(p, t, c)
  PROVE  KnownAt(p, u, c) /\ PassedAt(p, u, c) \subseteq PassedAt(p, t, c)
<1>1. CASE p = "google"
  <2>1. /\ c.hist \in Int /\ c.hpage \in Int /\ c.sync \in Int /\ c.cpage \in Int
        /\ c.hist <= t["gmail"] /\ c.hpage <= t["gmail"]
        /\ c.sync <= t["calendar"] /\ c.cpage <= t["calendar"]
    BY <1>1 DEF KnownAt, GoogleCursors
  <2>2. t["gmail"] <= u["gmail"] /\ t["calendar"] <= u["calendar"]
        /\ t["gmail"] \in Nat /\ t["calendar"] \in Nat /\ u["gmail"] \in Nat /\ u["calendar"] \in Nat
    BY NamedFeeds
  <2>3. KnownAt(p, u, c)
    BY <1>1, <2>1, <2>2 DEF KnownAt
  <2>4. ASSUME NEW x \in PassedAt(p, u, c) PROVE x \in PassedAt(p, t, c)
    BY <1>1, <2>1, <2>2, <2>4, PassedGoogle
  <2> QED BY <2>3, <2>4
<1>2. CASE p = "microsoft"
  <2>1. /\ c \in OutlookCursors
        /\ \A f \in DOMAIN c.mail : f \in Feeds /\ Link(c.mail[f]) <= t[f] /\ Link(c.mail[f]) \in Int
        /\ Link(c.calendar) <= t["calendar"] /\ Link(c.calendar) \in Int
    BY <1>2, NamedFeeds
    DEF KnownAt, OutlookCursors, FolderCursors, Positions, Unset, Link,
        Given
  <2>2. t["calendar"] <= u["calendar"] /\ t["calendar"] \in Nat /\ u["calendar"] \in Nat
    BY NamedFeeds
  <2>3. KnownAt(p, u, c)
    <3>1. \A f \in DOMAIN c.mail : Link(c.mail[f]) <= u[f]
      BY <2>1
    <3> QED BY <1>2, <2>1, <2>2, <3>1 DEF KnownAt
  <2>4. ASSUME NEW x \in PassedAt(p, u, c) PROVE x \in PassedAt(p, t, c)
    <3>1. CASE \E f \in DOMAIN c.mail : \E n \in 1 .. u[f] : x = <<f, n>> /\ n <= Link(c.mail[f])
      <4>1. PICK f \in DOMAIN c.mail : \E n \in 1 .. u[f] : x = <<f, n>> /\ n <= Link(c.mail[f])
        BY <3>1
      <4>2. PICK n \in 1 .. u[f] : x = <<f, n>> /\ n <= Link(c.mail[f])
        BY <4>1
      <4>3. n \in 1 .. t[f]
        BY <2>1, <4>2
      <4> QED BY <1>2, <4>2, <4>3, PassedMicrosoft
    <3>2. CASE \E n \in 1 .. u["calendar"] :
                x = <<"calendar", n>> /\ n <= Link(c.calendar) /\ EventDay[n] <= c.until
      <4>1. PICK n \in 1 .. u["calendar"] :
                x = <<"calendar", n>> /\ n <= Link(c.calendar) /\ EventDay[n] <= c.until
        BY <3>2
      <4>2. n \in 1 .. t["calendar"]
        BY <2>1, <2>2, <4>1
      <4> QED BY <1>2, <4>1, <4>2, PassedMicrosoft
    <3> QED BY <1>2, <2>4, <3>1, <3>2, PassedMicrosoft
  <2> QED BY <2>3, <2>4
<1> QED BY <1>1, <1>2, PassedOther

\* A page holds all changes of its range that the settings do not exclude.
LEMMA ChangesCover ==
  ASSUME NEW f, NEW from \in Int, NEW to \in Int
  PROVE  /\ Changes(f, from, to) \cap Skipped = {}
         /\ \A n \in Int : from < n /\ n <= to => <<f, n>> \in Changes(f, from, to) \cup Skipped
BY DEF Changes

-----------------------------------------------------------------------------
\* What a fetch returns is sound.
Sound(items, next) ==
  /\ items \cap Skipped = {}
  /\ Known(next)
  /\ Passed(next) \subseteq stored \cup items \cup Skipped

\* What the invariant says of the types.
LEMMA ConnTypes ==
  ASSUME IInv
  PROVE  /\ provider \in {"google", "microsoft", "zoom", "google_meet"}
         /\ top \in [Feeds -> Nat] /\ era \in [Feeds -> Nat]
         /\ top["gmail"] \in Nat /\ top["calendar"] \in Nat
         /\ era["gmail"] \in Nat /\ era["calendar"] \in Nat
         /\ PageSize \in Nat \ {0}
         /\ Known(cursor) /\ Passed(cursor) \subseteq stored \cup Skipped
BY NamedFeeds, FeedsAssumption, BoundsAssumption DEF IInv, TypeOK, Shapes, PassedAreStored

\* What the invariant says of the account's cursor if the account is Google's.
LEMMA GoogleCursor ==
  ASSUME IInv, provider = "google"
  PROVE  /\ cursor \in GoogleCursors
         /\ cursor.hist <= top["gmail"] /\ cursor.hpage <= top["gmail"]
         /\ cursor.sync <= top["calendar"] /\ cursor.cpage <= top["calendar"]
         /\ ~ cursor.full => /\ cursor.hpage = Unset
                             /\ cursor.page # Unset => cursor.hist # Unset
BY ConnTypes DEF Known

\* What a Google cursor passes, feed by feed.
MailPast(c, n) ==
  \/ c.full /\ (n <= c.hist \/ n <= c.hpage)
  \/ ~ c.full /\ c.page # Unset /\ c.page < n /\ n <= c.hist
EventPast(c, n) == n <= c.sync \/ n <= c.cpage

\* What a Google cursor passes are mail and events.
LEMMA GooglePassed ==
  ASSUME provider = "google", NEW c, NEW S
  PROVE  Passed(c) \subseteq S <=>
           /\ \A n \in 1 .. top["gmail"] : MailPast(c, n) => <<"gmail", n>> \in S
           /\ \A n \in 1 .. top["calendar"] : EventPast(c, n) => <<"calendar", n>> \in S
<1>1. \A x : x \in Passed(c) <=>
           \/ \E n \in 1 .. top["gmail"] : x = <<"gmail", n>> /\ MailPast(c, n)
           \/ \E n \in 1 .. top["calendar"] : x = <<"calendar", n>> /\ EventPast(c, n)
  BY AtState, PassedGoogle DEF MailPast, EventPast
<1> QED BY <1>1

\* A Google cursor is sound if what it passes is stored, part of the page or skipped.
LEMMA GoogleSound ==
  ASSUME IInv, provider = "google",
         NEW c \in GoogleCursors, NEW items,
         c.hist <= top["gmail"], c.hpage <= top["gmail"],
         c.sync <= top["calendar"], c.cpage <= top["calendar"],
         ~ c.full => c.hpage = Unset /\ (c.page # Unset => c.hist # Unset),
         items \cap Skipped = {},
         \A n \in 1 .. top["gmail"] : MailPast(c, n) =>
            MailPast(cursor, n) \/ <<"gmail", n>> \in items \cup Skipped,
         \A n \in 1 .. top["calendar"] : EventPast(c, n) =>
            EventPast(cursor, n) \/ <<"calendar", n>> \in items \cup Skipped
  PROVE  Sound(items, c)
<1>1. Known(c)
  BY DEF Known
<1>2. /\ \A n \in 1 .. top["gmail"] : MailPast(cursor, n) => <<"gmail", n>> \in stored \cup Skipped
      /\ \A n \in 1 .. top["calendar"] : EventPast(cursor, n) => <<"calendar", n>> \in stored \cup Skipped
  BY ConnTypes, GooglePassed
<1>3. Passed(c) \subseteq stored \cup items \cup Skipped
  <2>1. \A n \in 1 .. top["gmail"] : MailPast(c, n) => <<"gmail", n>> \in stored \cup items \cup Skipped
    BY <1>2
  <2>2. \A n \in 1 .. top["calendar"] : EventPast(c, n) => <<"calendar", n>> \in stored \cup items \cup Skipped
    BY <1>2
  <2> QED BY <2>1, <2>2, GooglePassed
<1> QED BY <1>1, <1>3 DEF Sound

\* messages.list: the page goes down from where the last one ended, and the history
\* id is not newer than the first page.
LEMMA BackfillSound ==
  ASSUME IInv, NEW a \in Attempts, GmailBackfill(a)
  PROVE  \E items, next : Returns(a, items, next, FALSE) /\ Sound(items, next)
<1> DEFINE upto == Given(cursor.page, top["gmail"])
           left == IF upto > PageSize THEN upto - PageSize ELSE 0
           next == [cursor EXCEPT !.hist = Given(@, top["gmail"]),
                                !.hera = IF cursor.hist = Unset THEN era["gmail"] ELSE @,
                                !.page = IF left = 0 THEN Unset ELSE left,
                                !.full = (left = 0)]
<1>1. provider = "google" /\ ~ cursor.full /\ Returns(a, Changes("gmail", left, upto), next, FALSE)
  BY DEF GmailBackfill, Google
<1>2. /\ upto \in Int /\ left \in Int /\ left >= 0
      /\ next \in GoogleCursors
      /\ next.hist = Given(cursor.hist, top["gmail"])
      /\ next.page = (IF left = 0 THEN Unset ELSE left) /\ next.full = (left = 0)
      /\ next.hpage = cursor.hpage /\ next.sync = cursor.sync /\ next.cpage = cursor.cpage
  <2>1. upto \in Int /\ left \in Int /\ left >= 0
    BY <1>1, ConnTypes, GoogleCursor DEF GoogleCursors, Given
  <2>2. cursor \in GoogleCursors /\ Given(cursor.hist, top["gmail"]) \in Int /\ Unset \in Int
    BY <1>1, ConnTypes, GoogleCursor DEF GoogleCursors, Given, Unset
  <2> HIDE DEF left, upto
  <2>3. era["gmail"] \in Int
    BY ConnTypes
  <2> QED BY <2>1, <2>2, <2>3 DEF GoogleCursors
<1>3. \A n \in 1 .. top["gmail"] : MailPast(next, n) =>
            MailPast(cursor, n) \/ (left < n /\ n <= upto)
  BY <1>1, <1>2, ConnTypes, GoogleCursor DEF MailPast, Given, Unset, GoogleCursors
<1>4. \A n \in 1 .. top["calendar"] : EventPast(next, n) => EventPast(cursor, n)
  BY <1>2 DEF EventPast
<1>5. /\ next.hist <= top["gmail"]
      /\ ~ next.full => /\ next.hpage = Unset
                        /\ next.page # Unset => next.hist # Unset
  BY <1>1, <1>2, ConnTypes, GoogleCursor DEF Given, Unset, GoogleCursors
<1> HIDE DEF next, upto, left
<1>6. Sound(Changes("gmail", left, upto), next)
  <2>1. \A n \in 1 .. top["gmail"] : MailPast(next, n) =>
            MailPast(cursor, n) \/ <<"gmail", n>> \in Changes("gmail", left, upto) \cup Skipped
    BY <1>2, <1>3, ChangesCover
  <2> QED BY <1>1, <1>2, <1>4, <1>5, <2>1, GoogleCursor, GoogleSound, ChangesCover
<1> QED BY <1>1, <1>6

\* events.list moves the calendar's position by the page it returns, and no more.
LEMMA AfterEventsSound ==
  ASSUME IInv, provider = "google", NEW c \in GoogleCursors,
         c.sync <= top["calendar"], c.cpage <= top["calendar"]
  PROVE  /\ AfterEvents(c) \in GoogleCursors
         /\ AfterEvents(c).sync <= top["calendar"] /\ AfterEvents(c).cpage <= top["calendar"]
         /\ AfterEvents(c).hist = c.hist /\ AfterEvents(c).hpage = c.hpage
         /\ AfterEvents(c).page = c.page /\ AfterEvents(c).full = c.full
         /\ Events(c) \cap Skipped = {}
         /\ \A n \in 1 .. top["calendar"] : EventPast(AfterEvents(c), n) =>
              EventPast(c, n) \/ <<"calendar", n>> \in Events(c) \cup Skipped
<1> DEFINE from == Given(c.cpage, Given(c.sync, 0))
           to   == Reach("calendar", from)
           next == AfterEvents(c)
<1>1. from \in Int /\ to \in Int /\ to <= top["calendar"]
  BY ConnTypes DEF GoogleCursors, Given, Reach, Least
<1>2. /\ next \in GoogleCursors
      /\ next.hist = c.hist /\ next.hpage = c.hpage
      /\ next.page = c.page /\ next.full = c.full
      /\ next.sync \in {c.sync, to} /\ next.cpage \in {Unset, to}
  <2> HIDE DEF from
  <2>1. CASE to < top["calendar"]
    <3>1. next = [c EXCEPT !.cpage = to]
      BY <2>1 DEF AfterEvents, from
    <3> HIDE DEF next, to
    <3> QED BY <3>1, <1>1 DEF GoogleCursors
  <2>2. CASE ~ (to < top["calendar"])
    <3>1. next = [c EXCEPT !.cpage = Unset, !.sync = to, !.sera = era["calendar"]]
      BY <2>2 DEF AfterEvents, from
    <3>2. era["calendar"] \in Int
      BY ConnTypes
    <3> HIDE DEF to
    <3>3. PICK m \in Int : m = to
      BY <1>1
    <3>4. PICK e \in Int : e = era["calendar"]
      BY <3>2
    <3>5. PICK nx : nx = [c EXCEPT !.cpage = Unset, !.sync = m, !.sera = e]
      OBVIOUS
    <3>0. Unset \in Int
      BY DEF Unset
    <3>6. nx \in GoogleCursors
      BY <3>0, <3>5 DEF GoogleCursors
    <3> HIDE DEF next
    <3> QED BY <3>1, <3>3, <3>4, <3>5, <3>0, <3>6, <1>1 DEF GoogleCursors
  <2> HIDE DEF next, to
  <2> QED BY <2>1, <2>2
<1>3. Events(c) = Changes("calendar", from, to)
  BY DEF Events
<1> HIDE DEF to, next
<1>4. \A n \in 1 .. top["calendar"] : EventPast(next, n) => EventPast(c, n) \/ (from < n /\ n <= to)
  BY <1>1, <1>2, ConnTypes DEF EventPast, Given, Unset, GoogleCursors
<1> HIDE DEF from
<1>5. next.sync <= top["calendar"] /\ next.cpage <= top["calendar"]
  BY <1>1, <1>2, ConnTypes DEF Unset
<1>6. \A n \in 1 .. top["calendar"] : EventPast(next, n) =>
              EventPast(c, n) \/ <<"calendar", n>> \in Events(c) \cup Skipped
  BY <1>1, <1>3, <1>4, ChangesCover
<1>7. Events(c) \cap Skipped = {}
  BY <1>1, <1>3, ChangesCover
<1> QED BY <1>2, <1>5, <1>6, <1>7 DEF next

\* history.list moves the mailbox's position by the page it returns, and no more.
LEMMA AfterHistorySound ==
  ASSUME IInv, provider = "google", NEW c \in GoogleCursors,
         c.hist <= top["gmail"], c.hpage <= top["gmail"], c.full
  PROVE  /\ AfterHistory(c) \in GoogleCursors
         /\ AfterHistory(c).hist <= top["gmail"] /\ AfterHistory(c).hpage <= top["gmail"]
         /\ AfterHistory(c).sync = c.sync /\ AfterHistory(c).cpage = c.cpage
         /\ AfterHistory(c).full
         /\ History(c) \cap Skipped = {}
         /\ \A n \in 1 .. top["gmail"] : MailPast(AfterHistory(c), n) =>
              MailPast(c, n) \/ <<"gmail", n>> \in History(c) \cup Skipped
<1> DEFINE from == Given(c.hpage, c.hist)
           to   == Reach("gmail", from)
           next == AfterHistory(c)
<1>1. from \in Int /\ to \in Int /\ to <= top["gmail"]
  BY ConnTypes DEF GoogleCursors, Given, Reach, Least
<1>2. /\ next \in GoogleCursors /\ next.full
      /\ next.sync = c.sync /\ next.cpage = c.cpage
      /\ next.hist \in {c.hist, to} /\ next.hpage \in {Unset, to}
  <2> HIDE DEF from
  <2>1. CASE to < top["gmail"]
    <3>1. next = [c EXCEPT !.hpage = to]
      BY <2>1 DEF AfterHistory, from
    <3> HIDE DEF next, to
    <3> QED BY <3>1, <1>1 DEF GoogleCursors
  <2>2. CASE ~ (to < top["gmail"])
    <3>1. next = [c EXCEPT !.hpage = Unset, !.hist = to, !.hera = era["gmail"]]
      BY <2>2 DEF AfterHistory, from
    <3>2. era["gmail"] \in Int
      BY ConnTypes
    <3> HIDE DEF to
    <3>3. PICK m \in Int : m = to
      BY <1>1
    <3>4. PICK e \in Int : e = era["gmail"]
      BY <3>2
    <3>5. PICK nx : nx = [c EXCEPT !.hpage = Unset, !.hist = m, !.hera = e]
      OBVIOUS
    <3>0. Unset \in Int
      BY DEF Unset
    <3>6. nx \in GoogleCursors
      BY <3>0, <3>5 DEF GoogleCursors
    <3> HIDE DEF next
    <3> QED BY <3>1, <3>3, <3>4, <3>5, <3>0, <3>6, <1>1 DEF GoogleCursors
  <2> HIDE DEF next, to
  <2> QED BY <2>1, <2>2
<1>3. History(c) = Changes("gmail", from, to)
  BY DEF History
<1> HIDE DEF to, next
<1>4. \A n \in 1 .. top["gmail"] : MailPast(next, n) => MailPast(c, n) \/ (from < n /\ n <= to)
  BY <1>1, <1>2, ConnTypes DEF MailPast, Given, Unset, GoogleCursors
<1> HIDE DEF from
<1>5. next.hist <= top["gmail"] /\ next.hpage <= top["gmail"]
  BY <1>1, <1>2, ConnTypes DEF Unset
<1>6. \A n \in 1 .. top["gmail"] : MailPast(next, n) =>
              MailPast(c, n) \/ <<"gmail", n>> \in History(c) \cup Skipped
  BY <1>1, <1>3, <1>4, ChangesCover
<1>7. History(c) \cap Skipped = {}
  BY <1>1, <1>3, ChangesCover
<1> QED BY <1>2, <1>5, <1>6, <1>7 DEF next

\* The calendar before its sync token.
LEMMA CalendarBackfillSound ==
  ASSUME IInv, NEW a \in Attempts, CalendarBackfill(a)
  PROVE  \E items, next : Returns(a, items, next, FALSE) /\ Sound(items, next)
<1>1. provider = "google" /\ Returns(a, Events(cursor), AfterEvents(cursor), FALSE)
  BY DEF CalendarBackfill, Google
<1>2. Sound(Events(cursor), AfterEvents(cursor))
  <2>1. PICK nx : nx = AfterEvents(cursor)
    OBVIOUS
  <2>2. PICK items : items = Events(cursor)
    OBVIOUS
  <2>3. /\ nx \in GoogleCursors
        /\ nx.sync <= top["calendar"] /\ nx.cpage <= top["calendar"]
        /\ nx.hist = cursor.hist /\ nx.hpage = cursor.hpage
        /\ nx.page = cursor.page /\ nx.full = cursor.full
        /\ items \cap Skipped = {}
        /\ \A n \in 1 .. top["calendar"] : EventPast(nx, n) =>
             EventPast(cursor, n) \/ <<"calendar", n>> \in items \cup Skipped
    BY <1>1, <2>1, <2>2, GoogleCursor, AfterEventsSound
  <2>4. \A n \in 1 .. top["gmail"] : MailPast(nx, n) => MailPast(cursor, n)
    BY <2>3 DEF MailPast
  <2>5. Sound(items, nx)
    BY <1>1, <2>3, <2>4, GoogleCursor, GoogleSound
  <2> QED BY <2>1, <2>2, <2>5
<1> QED BY <1>1, <1>2

\* An expired history id forgets the mailbox's position.
LEMMA HistoryExpiredSound ==
  ASSUME IInv, NEW a \in Attempts, HistoryExpired(a)
  PROVE  \E items, next : Returns(a, items, next, FALSE) /\ Sound(items, next)
<1>1. PICK nx : nx = [cursor EXCEPT !.hist = Unset, !.page = Unset, !.full = FALSE, !.hpage = Unset]
  OBVIOUS
<1>2. provider = "google" /\ Returns(a, {}, nx, FALSE)
  BY <1>1 DEF HistoryExpired, Incremental, Google
<1>3. cursor \in GoogleCursors /\ Unset \in Int
  BY <1>2, GoogleCursor DEF Unset
<1>4. /\ nx \in GoogleCursors /\ nx.hist = Unset /\ nx.page = Unset /\ nx.full = FALSE
      /\ nx.hpage = Unset /\ nx.sync = cursor.sync /\ nx.cpage = cursor.cpage
  BY <1>1, <1>3 DEF GoogleCursors
<1>5. nx.hist <= top["gmail"] /\ nx.hpage <= top["gmail"]
  BY <1>4, ConnTypes DEF Unset
<1>6. /\ \A n \in 1 .. top["gmail"] : ~ MailPast(nx, n)
      /\ \A n \in 1 .. top["calendar"] : EventPast(nx, n) => EventPast(cursor, n)
  BY <1>4 DEF MailPast, EventPast
<1>7. Sound({}, nx)
  BY <1>2, <1>4, <1>5, <1>6, GoogleCursor, GoogleSound
<1> QED BY <1>2, <1>7

\* An expired sync token forgets the calendar's position and keeps the mail's page.
LEMMA CalendarExpiredSound ==
  ASSUME IInv, NEW a \in Attempts, CalendarExpired(a)
  PROVE  \E items, next : Returns(a, items, next, FALSE) /\ Sound(items, next)
<1>1. PICK h : h = AfterHistory(cursor)
  OBVIOUS
<1>2. PICK items : items = History(cursor)
  OBVIOUS
<1>3. PICK nx : nx = [h EXCEPT !.sync = Unset, !.cpage = Unset]
  OBVIOUS
<1>4. provider = "google" /\ cursor.full /\ Returns(a, items, nx, FALSE)
  BY <1>1, <1>2, <1>3 DEF CalendarExpired, Incremental, Google
<1>5. /\ h \in GoogleCursors /\ h.full
      /\ h.hist <= top["gmail"] /\ h.hpage <= top["gmail"]
      /\ items \cap Skipped = {}
      /\ \A n \in 1 .. top["gmail"] : MailPast(h, n) =>
              MailPast(cursor, n) \/ <<"gmail", n>> \in items \cup Skipped
  BY <1>1, <1>2, <1>4, GoogleCursor, AfterHistorySound
<1>6. Unset \in Int
  BY DEF Unset
<1>7. /\ nx \in GoogleCursors /\ nx.hist = h.hist /\ nx.page = h.page /\ nx.full = h.full
      /\ nx.hpage = h.hpage /\ nx.sync = Unset /\ nx.cpage = Unset
  BY <1>3, <1>5, <1>6 DEF GoogleCursors
<1>8. /\ nx.sync <= top["calendar"] /\ nx.cpage <= top["calendar"]
      /\ \A n \in 1 .. top["calendar"] : ~ EventPast(nx, n)
  BY <1>7, ConnTypes DEF Unset, EventPast
<1>9. \A n \in 1 .. top["gmail"] : MailPast(nx, n) =>
              MailPast(cursor, n) \/ <<"gmail", n>> \in items \cup Skipped
  BY <1>5, <1>7 DEF MailPast
<1>10. Sound(items, nx)
  BY <1>4, <1>5, <1>7, <1>8, <1>9, GoogleSound
<1> QED BY <1>4, <1>10

\* A page of the history and one of the calendar, each moving its own position.
LEMMA IncrementSound ==
  ASSUME IInv, NEW a \in Attempts, GoogleIncrement(a)
  PROVE  \E items, next : \E done \in BOOLEAN : Returns(a, items, next, done) /\ Sound(items, next)
<1>1. PICK h : h = AfterHistory(cursor)
  OBVIOUS
<1>2. PICK mail : mail = History(cursor)
  OBVIOUS
<1>3. PICK nx : nx = AfterEvents(h)
  OBVIOUS
<1>4. PICK events : events = Events(h)
  OBVIOUS
<1>5. provider = "google" /\ cursor.full
  BY DEF GoogleIncrement, Incremental, Google
<1>6. /\ h \in GoogleCursors /\ h.full
      /\ h.hist <= top["gmail"] /\ h.hpage <= top["gmail"]
      /\ h.sync = cursor.sync /\ h.cpage = cursor.cpage
      /\ mail \cap Skipped = {}
      /\ \A n \in 1 .. top["gmail"] : MailPast(h, n) =>
              MailPast(cursor, n) \/ <<"gmail", n>> \in mail \cup Skipped
  BY <1>1, <1>2, <1>5, GoogleCursor, AfterHistorySound
<1>7. Events(cursor) = events
  BY <1>4, <1>6 DEF Events
<1>8. /\ nx \in GoogleCursors
      /\ nx.sync <= top["calendar"] /\ nx.cpage <= top["calendar"]
      /\ nx.hist = h.hist /\ nx.hpage = h.hpage /\ nx.page = h.page /\ nx.full = h.full
      /\ events \cap Skipped = {}
      /\ \A n \in 1 .. top["calendar"] : EventPast(nx, n) =>
              EventPast(h, n) \/ <<"calendar", n>> \in events \cup Skipped
  BY <1>3, <1>4, <1>5, <1>6, GoogleCursor, AfterEventsSound
<1>9. PICK done \in BOOLEAN : done = (nx.hpage = Unset /\ nx.cpage = Unset)
  OBVIOUS
<1>10. Returns(a, mail \cup events, nx, done)
  BY <1>1, <1>2, <1>3, <1>7, <1>9 DEF GoogleIncrement
<1>11. /\ \A n \in 1 .. top["gmail"] : MailPast(nx, n) =>
              MailPast(cursor, n) \/ <<"gmail", n>> \in (mail \cup events) \cup Skipped
       /\ \A n \in 1 .. top["calendar"] : EventPast(nx, n) =>
              EventPast(cursor, n) \/ <<"calendar", n>> \in (mail \cup events) \cup Skipped
  BY <1>6, <1>8 DEF MailPast, EventPast
<1>12. (mail \cup events) \cap Skipped = {}
  BY <1>6, <1>8
<1>13. Sound(mail \cup events, nx)
  BY <1>5, <1>6, <1>8, <1>11, <1>12, GoogleSound
<1> QED BY <1>10, <1>13
-----------------------------------------------------------------------------
(* Microsoft's fetches. *)

\* An event is behind Outlook's calendar cursor, and the folders that hold mail.
OutlookPast(c, n) == n <= Link(c.calendar) /\ EventDay[n] <= c.until
OutlookFolders == FeedsOf["microsoft"] \ {"calendar"}

\* What the invariant says of the account's cursor if the account is Microsoft's.
LEMMA OutlookCursor ==
  ASSUME IInv, provider = "microsoft"
  PROVE  /\ cursor \in OutlookCursors
         /\ DOMAIN cursor.mail = OutlookFolders
         /\ \A f \in OutlookFolders : /\ f \in Feeds /\ cursor.mail[f] \in FolderCursors
                                      /\ top[f] \in Nat /\ era[f] \in Nat
                                      /\ Link(cursor.mail[f]) \in Int /\ Link(cursor.mail[f]) <= top[f]
         /\ cursor.calendar \in FolderCursors /\ cursor.until \in Int
         /\ Link(cursor.calendar) \in Int
         /\ Link(cursor.calendar) <= top["calendar"]
         /\ Link(cursor.calendar) # Unset => cursor.until # Unset
<1>1. Known(cursor)
  BY ConnTypes
<1>2. cursor \in OutlookCursors /\ DOMAIN cursor.mail = OutlookFolders
  BY <1>1 DEF Known, OutlookCursors, OutlookFolders
<1>3. /\ cursor.calendar \in FolderCursors /\ cursor.until \in Int
      /\ \A f \in OutlookFolders : cursor.mail[f] \in FolderCursors
  BY <1>2 DEF OutlookCursors, OutlookFolders
<1>4. \A s \in FolderCursors : Link(s) \in Int
  BY DEF FolderCursors, Positions, Unset, Link, Given
<1>5. \A f \in OutlookFolders : f \in Feeds /\ top[f] \in Nat /\ era[f] \in Nat
  BY ConnTypes, NamedFeeds DEF OutlookFolders
<1> QED BY <1>1, <1>2, <1>3, <1>4, <1>5 DEF Known

\* What an Outlook cursor passes are mail of the folders and events in its range.
LEMMA OutlookPassed ==
  ASSUME provider = "microsoft", NEW c \in OutlookCursors, NEW S
  PROVE  Passed(c) \subseteq S <=>
           /\ \A f \in OutlookFolders : \A n \in 1 .. top[f] : n <= Link(c.mail[f]) => <<f, n>> \in S
           /\ \A n \in 1 .. top["calendar"] : OutlookPast(c, n) => <<"calendar", n>> \in S
<1>1. DOMAIN c.mail = OutlookFolders
  BY DEF OutlookCursors, OutlookFolders
<1>2. \A x : x \in Passed(c) <=>
           \/ \E f \in OutlookFolders : \E n \in 1 .. top[f] : x = <<f, n>> /\ n <= Link(c.mail[f])
           \/ \E n \in 1 .. top["calendar"] : x = <<"calendar", n>> /\ OutlookPast(c, n)
  BY <1>1, AtState, PassedMicrosoft DEF OutlookPast
<1> QED BY <1>2

\* An Outlook cursor is sound if what it passes is stored, part of the page or
\* skipped.
LEMMA OutlookSound ==
  ASSUME IInv, provider = "microsoft",
         NEW c \in OutlookCursors, NEW items,
         \A f \in OutlookFolders : Link(c.mail[f]) <= top[f],
         Link(c.calendar) <= top["calendar"],
         Link(c.calendar) # Unset => c.until # Unset,
         items \cap Skipped = {},
         \A f \in OutlookFolders : \A n \in 1 .. top[f] : n <= Link(c.mail[f]) =>
            n <= Link(cursor.mail[f]) \/ <<f, n>> \in items \cup Skipped,
         \A n \in 1 .. top["calendar"] : OutlookPast(c, n) =>
            OutlookPast(cursor, n) \/ <<"calendar", n>> \in items \cup Skipped
  PROVE  Sound(items, c)
<1>0. DOMAIN c.mail = OutlookFolders
  BY DEF OutlookCursors, OutlookFolders
<1>1. Known(c)
  BY <1>0 DEF Known
<1>2. /\ \A f \in OutlookFolders : \A n \in 1 .. top[f] :
            n <= Link(cursor.mail[f]) => <<f, n>> \in stored \cup Skipped
      /\ \A n \in 1 .. top["calendar"] : OutlookPast(cursor, n) => <<"calendar", n>> \in stored \cup Skipped
  BY ConnTypes, OutlookPassed, OutlookCursor
<1>3. \A f \in OutlookFolders : \A n \in 1 .. top[f] :
         n <= Link(c.mail[f]) => <<f, n>> \in stored \cup items \cup Skipped
  BY <1>2
<1>4. \A n \in 1 .. top["calendar"] : OutlookPast(c, n) => <<"calendar", n>> \in stored \cup items \cup Skipped
  BY <1>2
<1>5. Passed(c) \subseteq stored \cup items \cup Skipped
  BY <1>3, <1>4, OutlookPassed
<1> QED BY <1>1, <1>5 DEF Sound

\* A cursor that differs from the account's in one folder.
LEMMA FolderSound ==
  ASSUME IInv, provider = "microsoft",
         NEW f \in OutlookFolders, NEW s \in FolderCursors, NEW items,
         Link(s) <= top[f], items \cap Skipped = {},
         \A n \in 1 .. top[f] : n <= Link(s) =>
            n <= Link(cursor.mail[f]) \/ <<f, n>> \in items \cup Skipped
  PROVE  Sound(items, [cursor EXCEPT !.mail[f] = s])
<1>1. PICK nx : nx = [cursor EXCEPT !.mail[f] = s]
  OBVIOUS
<1>2. nx \in OutlookCursors /\ nx.mail[f] = s /\ nx.calendar = cursor.calendar /\ nx.until = cursor.until
      /\ \A g \in OutlookFolders : g # f => nx.mail[g] = cursor.mail[g]
  BY <1>1, OutlookCursor DEF OutlookCursors, OutlookFolders
<1>3. \A g \in OutlookFolders : Link(nx.mail[g]) <= top[g]
  BY <1>2, OutlookCursor
<1>4. \A n \in 1 .. top["calendar"] : OutlookPast(nx, n) => OutlookPast(cursor, n)
  BY <1>2 DEF OutlookPast
<1>5. \A g \in OutlookFolders : \A n \in 1 .. top[g] : n <= Link(nx.mail[g]) =>
            n <= Link(cursor.mail[g]) \/ <<g, n>> \in items \cup Skipped
  BY <1>2
<1>6. /\ Link(nx.calendar) <= top["calendar"]
      /\ Link(nx.calendar) # Unset => nx.until # Unset
  BY <1>2, OutlookCursor
<1> QED BY <1>1, <1>2, <1>3, <1>4, <1>5, <1>6, OutlookSound

\* A fresh cursor of a folder passes nothing.
LEMMA FreshIsBefore ==
  Fresh \in FolderCursors /\ Link(Fresh) = Unset
BY DEF Fresh, FolderCursors, Positions, Link, Given

\* An expired delta link forgets the folder's position.
LEMMA FolderExpiredSound ==
  ASSUME IInv, NEW a \in Attempts, FolderExpired(a)
  PROVE  \E items, next : Returns(a, items, next, FALSE) /\ Sound(items, next)
<1>1. provider = "microsoft"
  BY DEF FolderExpired, Microsoft
<1>2. PICK f \in OutlookFolders : Returns(a, {}, [cursor EXCEPT !.mail[f] = Fresh], FALSE)
  BY <1>1, OutlookCursor DEF FolderExpired
<1>3. Link(Fresh) <= top[f] /\ \A n \in 1 .. top[f] : ~ (n <= Link(Fresh))
  BY <1>1, FreshIsBefore, OutlookCursor DEF Unset
<1>4. Sound({}, [cursor EXCEPT !.mail[f] = Fresh])
  BY <1>1, <1>3, FreshIsBefore, FolderSound
<1> QED BY <1>2, <1>4

\* A page of a folder moves that folder's position by the page.
LEMMA FolderPageSound ==
  ASSUME IInv, NEW a \in Attempts, FolderPage(a)
  PROVE  \E items, next : Returns(a, items, next, FALSE) /\ Sound(items, next)
<1>1. provider = "microsoft"
  BY DEF FolderPage, Microsoft
<1>2. PICK f \in OutlookFolders :
        LET from == Given(Link(cursor.mail[f]), 0)
            to   == Reach(f, from)
        IN  Returns(a, Changes(f, from, to),
                [cursor EXCEPT !.mail[f] =
                   IF to < top[f]
                     THEN [@ EXCEPT !.next = to, !.caught = FALSE, !.era = era[f]]
                     ELSE [next |-> Unset, delta |-> to, caught |-> TRUE, era |-> era[f]]], FALSE)
  BY <1>1, OutlookCursor DEF FolderPage
<1>3. PICK from : from = Given(Link(cursor.mail[f]), 0)
  OBVIOUS
<1>4. PICK to : to = Reach(f, from)
  OBVIOUS
<1>5. PICK s : s = IF to < top[f]
                     THEN [cursor.mail[f] EXCEPT !.next = to, !.caught = FALSE, !.era = era[f]]
                     ELSE [next |-> Unset, delta |-> to, caught |-> TRUE, era |-> era[f]]
  OBVIOUS
<1>6. Returns(a, Changes(f, from, to), [cursor EXCEPT !.mail[f] = s], FALSE)
  BY <1>2, <1>3, <1>4, <1>5
<1>7. /\ cursor.mail[f] \in FolderCursors /\ top[f] \in Nat /\ era[f] \in Int
      /\ Link(cursor.mail[f]) \in Int
  BY <1>1, OutlookCursor
<1>8. from \in Nat /\ to \in Nat /\ to <= top[f] /\ to # Unset
  <2>1. Link(cursor.mail[f]) \in Positions
    BY <1>7 DEF FolderCursors, Link, Given
  <2> QED BY <2>1, <1>3, <1>4, <1>7, ConnTypes DEF Given, Reach, Least, Positions, Unset
<1>9. Unset \in Positions /\ to \in Positions
  BY <1>8 DEF Positions
<1>10. s \in FolderCursors /\ (s.next = to \/ (s.next = Unset /\ s.delta = to))
  <2>1. CASE to < top[f]
    <3>1. s = [cursor.mail[f] EXCEPT !.next = to, !.caught = FALSE, !.era = era[f]]
      BY <1>5, <2>1
    <3> QED BY <3>1, <1>7, <1>9 DEF FolderCursors
  <2>2. CASE ~ (to < top[f])
    <3>1. s = [next |-> Unset, delta |-> to, caught |-> TRUE, era |-> era[f]]
      BY <1>5, <2>2
    <3> QED BY <3>1, <1>7, <1>9 DEF FolderCursors
  <2> QED BY <2>1, <2>2
<1>11. \A n \in 1 .. top[f] : n <= Link(s) => n <= Link(cursor.mail[f]) \/ (from < n /\ n <= to)
  <2>1. Link(s) \in {to, Unset}
    BY <1>8, <1>10 DEF Link, Given
  <2> QED BY <2>1, <1>3, <1>7, <1>8 DEF Given, Unset
<1>12. Link(s) <= top[f]
  BY <1>7, <1>8, <1>10 DEF Link, Given, Unset
<1>13. \A n \in 1 .. top[f] : n <= Link(s) =>
            n <= Link(cursor.mail[f]) \/ <<f, n>> \in Changes(f, from, to) \cup Skipped
  BY <1>7, <1>8, <1>11, ChangesCover
<1>14. Sound(Changes(f, from, to), [cursor EXCEPT !.mail[f] = s])
  BY <1>1, <1>8, <1>10, <1>12, <1>13, ChangesCover, FolderSound
<1> QED BY <1>6, <1>14

\* A cursor that differs from the account's in the calendar, and in what the
\* folders remember besides their position.
LEMMA CalendarSound ==
  ASSUME IInv, provider = "microsoft", NEW nx \in OutlookCursors, NEW items,
         \A f \in OutlookFolders : Link(nx.mail[f]) = Link(cursor.mail[f]),
         Link(nx.calendar) <= top["calendar"],
         Link(nx.calendar) # Unset => nx.until # Unset,
         items \cap Skipped = {},
         \A n \in 1 .. top["calendar"] : OutlookPast(nx, n) =>
            OutlookPast(cursor, n) \/ <<"calendar", n>> \in items \cup Skipped
  PROVE  Sound(items, nx)
<1>1. \A f \in OutlookFolders : Link(nx.mail[f]) <= top[f]
  BY OutlookCursor
<1> QED BY <1>1, OutlookSound

\* An expired link of the calendar forgets its position and range.
LEMMA OutlookExpiredSound ==
  ASSUME IInv, NEW a \in Attempts, OutlookExpired(a)
  PROVE  \E items, next : Returns(a, items, next, FALSE) /\ Sound(items, next)
<1>1. PICK nx : nx = [cursor EXCEPT !.calendar = Fresh, !.until = Unset]
  OBVIOUS
<1>2. provider = "microsoft" /\ Returns(a, {}, nx, FALSE)
  BY <1>1 DEF OutlookExpired, Calendar, Microsoft
<1>3. Unset \in Int /\ cursor \in OutlookCursors
  BY <1>2, OutlookCursor DEF Unset
<1>4. nx \in OutlookCursors /\ nx.mail = cursor.mail /\ nx.calendar = Fresh
  BY <1>1, <1>3, FreshIsBefore DEF OutlookCursors
<1>5. /\ Link(nx.calendar) <= top["calendar"] /\ Link(nx.calendar) = Unset
      /\ \A n \in 1 .. top["calendar"] : ~ OutlookPast(nx, n)
  BY <1>4, FreshIsBefore, ConnTypes DEF OutlookPast, Unset
<1>6. Sound({}, nx)
  BY <1>2, <1>4, <1>5, CalendarSound
<1> QED BY <1>2, <1>6

\* A page of the calendar moves its position by the page, within its range of days;
\* the end of a round moves no folder.
LEMMA OutlookEventsSound ==
  ASSUME IInv, NEW a \in Attempts, OutlookEvents(a)
  PROVE  \E items, next : \E done \in BOOLEAN : Returns(a, items, next, done) /\ Sound(items, next)
<1>0. provider = "microsoft"
  BY DEF OutlookEvents, Calendar, Microsoft
<1>1. PICK from : from = Given(Link(cursor.calendar), 0)
  OBVIOUS
<1>2. PICK to : to = Reach("calendar", from)
  OBVIOUS
<1>3. PICK until : until = Given(cursor.until, day + Ahead)
  OBVIOUS
<1>4. PICK more \in BOOLEAN : more <=> (to < top["calendar"])
  OBVIOUS
<1>5. PICK next : next = [cursor EXCEPT !.until = until, !.calendar.next = IF more THEN to ELSE Unset,
                                 !.calendar.delta = IF more THEN @ ELSE to,
                                 !.calendar.era = era["calendar"]]
  OBVIOUS
<1>6. PICK nx : nx = IF more THEN next ELSE NewRound(next)
  OBVIOUS
<1>7. PICK items : items = {e \in Changes("calendar", from, to) : EventDay[e[2]] <= until}
  OBVIOUS
<1>8. Returns(a, items, nx, ~ more)
  BY <1>1, <1>2, <1>3, <1>4, <1>5, <1>6, <1>7 DEF OutlookEvents
<1>9. /\ cursor \in OutlookCursors /\ cursor.calendar \in FolderCursors /\ cursor.until \in Int
      /\ Link(cursor.calendar) \in Int /\ Link(cursor.calendar) <= top["calendar"]
      /\ Link(cursor.calendar) # Unset => cursor.until # Unset
  BY <1>0, OutlookCursor
<1>10. /\ from \in Nat /\ to \in Nat /\ to # Unset /\ to <= top["calendar"]
       /\ until \in Int /\ until # Unset
       /\ era["calendar"] \in Int /\ Unset \in Positions /\ to \in Positions
  <2>1. Link(cursor.calendar) \in Positions
    BY <1>9 DEF FolderCursors, Link, Given
  <2>2. day + Ahead \in Nat
    BY DaysAssumption DEF IInv, Shapes
  <2> QED
    BY <2>1, <2>2, <1>1, <1>2, <1>3, <1>9, ConnTypes
    DEF Given, Reach, Least, Positions, Unset
<1>11. /\ next \in OutlookCursors /\ next.mail = cursor.mail /\ next.until = until
       /\ next.calendar.next = to \/ (next.calendar.next = Unset /\ next.calendar.delta = to)
  BY <1>5, <1>9, <1>10 DEF OutlookCursors, FolderCursors
<1>12. /\ nx \in OutlookCursors /\ nx.until = until /\ nx.calendar = next.calendar
       /\ \A f \in OutlookFolders : Link(nx.mail[f]) = Link(cursor.mail[f])
  BY <1>6, <1>11 DEF NewRound, OutlookCursors, OutlookFolders, FolderCursors, Link
<1>13. Link(nx.calendar) \in {to, Unset}
  BY <1>10, <1>11, <1>12 DEF Link, Given
<1>14. \A n \in 1 .. top["calendar"] : OutlookPast(nx, n) =>
            OutlookPast(cursor, n) \/ (from < n /\ n <= to /\ EventDay[n] <= until)
  BY <1>1, <1>3, <1>9, <1>10, <1>12, <1>13, ConnTypes DEF OutlookPast, Given, Unset
<1>15. \A n \in 1 .. top["calendar"] : OutlookPast(nx, n) =>
            OutlookPast(cursor, n) \/ <<"calendar", n>> \in items \cup Skipped
  BY <1>7, <1>10, <1>14, ChangesCover
<1>16. items \cap Skipped = {}
  BY <1>7, <1>10, ChangesCover
<1>17. Link(nx.calendar) <= top["calendar"]
  BY <1>10, <1>13, ConnTypes DEF Unset
<1>18. Sound(items, nx)
  BY <1>0, <1>10, <1>12, <1>15, <1>16, <1>17, CalendarSound
<1> QED BY <1>8, <1>18

-----------------------------------------------------------------------------
\* Listings of calls claim nothing: their cursors pass no feed.
LEMMA CallsSound ==
  ASSUME IInv, NEW a \in Attempts, ZoomPage(a) \/ MeetPage(a)
  PROVE  \E items, next : \E done \in BOOLEAN : Returns(a, items, next, done) /\ Sound(items, next)
<1>1. provider # "google" /\ provider # "microsoft"
  BY DEF ZoomPage, MeetPage
<1>2. \E list, next : Listed(a, list, next)
  BY DEF ZoomPage, MeetPage
<1>3. PICK list, next : Listed(a, list, next)
  BY <1>2
<1>4. \E ks, nx : \E done \in BOOLEAN : Returns(a, {<<"calls", k>> : k \in ks}, nx, done)
  BY <1>3 DEF Listed
<1>5. PICK ks, nx : \E done \in BOOLEAN : Returns(a, {<<"calls", k>> : k \in ks}, nx, done)
  BY <1>4
<1>6. \A k : <<"calls", k>> \notin Skipped
  BY FeedsAssumption
<1>7. Sound({<<"calls", k>> : k \in ks}, nx)
  BY <1>1, <1>6, PassedOther, AtState DEF Sound
<1> QED BY <1>5, <1>7

-----------------------------------------------------------------------------
\* Every fetch leaves a sound page, if it begins at all.
LEMMA FetchSound ==
  ASSUME IInv, NEW a \in Attempts, Fetch(a)
  PROVE  /\ Begins(a)
         /\ \E items, next : \E done \in BOOLEAN : Returns(a, items, next, done) /\ Sound(items, next)
<1>1. Begins(a)
  BY DEF Fetch, GmailBackfill, CalendarBackfill, HistoryExpired,
         CalendarExpired, GoogleIncrement,
         Incremental, Google, FolderExpired, FolderPage, OutlookExpired,
         OutlookEvents, Calendar,
         Microsoft, ZoomPage, MeetPage, Listed
<1>0. \A items, next : Returns(a, items, next, FALSE) /\ Sound(items, next) =>
        \E done \in BOOLEAN : Returns(a, items, next, done) /\ Sound(items, next)
  OBVIOUS
<1>2. CASE GmailBackfill(a)
  BY <1>0, <1>1, <1>2, BackfillSound
<1>3. CASE CalendarBackfill(a)
  BY <1>0, <1>1, <1>3, CalendarBackfillSound
<1>4. CASE HistoryExpired(a)
  BY <1>0, <1>1, <1>4, HistoryExpiredSound
<1>5. CASE CalendarExpired(a)
  BY <1>0, <1>1, <1>5, CalendarExpiredSound
<1>6. CASE GoogleIncrement(a)
  BY <1>0, <1>1, <1>6, IncrementSound
<1>7. CASE FolderExpired(a)
  BY <1>0, <1>1, <1>7, FolderExpiredSound
<1>8. CASE FolderPage(a)
  BY <1>0, <1>1, <1>8, FolderPageSound
<1>9. CASE OutlookExpired(a)
  BY <1>0, <1>1, <1>9, OutlookExpiredSound
<1>10. CASE OutlookEvents(a)
  BY <1>0, <1>1, <1>10, OutlookEventsSound
<1>11. CASE ZoomPage(a) \/ MeetPage(a)
  BY <1>0, <1>1, <1>11, CallsSound
<1> QED BY <1>1, <1>2, <1>3, <1>4, <1>5, <1>6, <1>7, <1>8, <1>9, <1>10, <1>11 DEF Fetch

\* What the invariant says of a step that keeps the account's provider.
LEMMA ConnPreserved ==
  ASSUME provider' = provider, Shapes', TypeOK',
         KnownAt(provider, top', cursor'),
         PassedAt(provider, top', cursor') \subseteq stored' \cup Skipped,
         \A a \in Attempts : page'[a] # NoPage =>
            /\ KnownAt(provider, top', page'[a].cursor)
            /\ PassedAt(provider, top', page'[a].cursor) \subseteq stored' \cup page'[a].items \cup Skipped
  PROVE  IInv'
<1>1. Known(cursor)' /\ PassedAreStored'
  BY CursorAt DEF PassedAreStored
<1>2. PagesSound'
  BY PageAt DEF PagesSound, Idle, NoPage
<1> QED BY <1>1, <1>2 DEF IInv

\* The invariant, in the form in which the steps below use it.
LEMMA ConnFacts ==
  ASSUME IInv
  PROVE  /\ KnownAt(provider, top, cursor)
         /\ PassedAt(provider, top, cursor) \subseteq stored \cup Skipped
         /\ \A a \in Attempts : page[a] # NoPage =>
            /\ KnownAt(provider, top, page[a].cursor)
            /\ PassedAt(provider, top, page[a].cursor) \subseteq stored \cup page[a].items \cup Skipped
BY CursorAt, AtState DEF IInv, PassedAreStored, PagesSound, Idle

\* The empty cursor passes nothing.
LEMMA ConnInit ==
  ASSUME Init
  PROVE  IInv
<1>0. /\ provider \in Providers /\ Providers \subseteq {"google", "microsoft", "zoom", "google_meet"}
      /\ cursor = EmptyCursor[provider] /\ stored = {} /\ faults = 0 /\ day = FirstDay
      /\ top = [f \in Feeds |-> IF f \in FeedsOf[provider] THEN Mailbox[f] ELSE 0]
      /\ era = [f \in Feeds |-> 0] /\ page  = [a \in Attempts |-> NoPage]
  BY FeedsAssumption DEF Init
<1>1. /\ Mailbox \in [Feeds -> Nat] /\ MaxChanges \in [Feeds -> Nat] /\ MaxFaults \in Nat /\ FirstDay \in Nat
      /\ \A f \in Feeds : Mailbox[f] <= MaxChanges[f]
  BY FeedsAssumption, BoundsAssumption, DaysAssumption
<1>2. top \in [Feeds -> Nat] /\ \A f \in Feeds : top[f] \in 0 .. MaxChanges[f] /\ era[f] <= faults
  BY <1>0, <1>1
<1>3. NoPage.items = {} /\ NoPage.done = FALSE
  BY DEF NoPage
<1>4. Shapes /\ TypeOK
  <2>1. Shapes
    BY <1>0, <1>1, <1>2, <1>3 DEF Shapes, Idle
  <2>2. \A a \in Attempts : page[a].items \cap Skipped = {} /\ page[a].done \in BOOLEAN
    BY <1>0, <1>3
  <2>3. faults \in 0 .. MaxFaults /\ stored \cap Skipped = {} /\ provider \in Providers
    BY <1>0, <1>1
  <2> QED BY <1>2, <2>1, <2>2, <2>3 DEF TypeOK
<1>5. PagesSound
  BY <1>0 DEF PagesSound, Idle
<1>6. Known(cursor) /\ Passed(cursor) = {}
  <2>1. CASE provider = "google"
    <3>1. PICK c : c = EmptyCursor["google"]
      OBVIOUS
    <3>2. /\ c.hist = Unset /\ c.page = Unset /\ c.full = FALSE /\ c.hpage = Unset
          /\ c.sync = Unset /\ c.cpage = Unset
      BY <3>1 DEF EmptyCursor
    <3>3. c \in GoogleCursors
      BY <3>1 DEF EmptyCursor, GoogleCursors, Unset
    <3>4. top["gmail"] \in Nat /\ top["calendar"] \in Nat
      BY <1>2, NamedFeeds
    <3>5. Known(c)
      BY <2>1, <3>2, <3>3, <3>4 DEF Known, Unset
    <3>6. Passed(c) = {}
      <4>0. PICK S : S = {}
        OBVIOUS
      <4>1. /\ \A n \in 1 .. top["gmail"] : ~ MailPast(c, n)
            /\ \A n \in 1 .. top["calendar"] : ~ EventPast(c, n)
        BY <3>2, <3>4 DEF MailPast, EventPast, Unset
      <4>2. Passed(c) \subseteq S
        BY <2>1, <4>1, GooglePassed
      <4> QED BY <4>0, <4>2
    <3>7. cursor = c
      BY <1>0, <2>1, <3>1
    <3> QED BY <3>5, <3>6, <3>7
  <2>2. CASE provider = "microsoft"
    <3>1. PICK c : c = EmptyCursor["microsoft"]
      OBVIOUS
    <3>2. /\ c.mail = [f \in OutlookFolders |-> Fresh] /\ c.calendar = Fresh /\ c.until = Unset
          /\ c \in [mail : [OutlookFolders -> FolderCursors], calendar : FolderCursors, until : Int]
      <4>1. c = [mail |-> [f \in OutlookFolders |-> Fresh], calendar |-> Fresh, until |-> Unset]
        BY <3>1 DEF EmptyCursor, OutlookFolders
      <4> QED BY <4>1, FreshIsBefore DEF Unset
    <3>3. c \in OutlookCursors
      BY <3>2 DEF OutlookCursors, OutlookFolders
    <3>4. top["calendar"] \in Nat /\ \A f \in OutlookFolders : top[f] \in Nat
      BY <1>2, NamedFeeds DEF OutlookFolders
    <3>5. Link(c.calendar) = Unset /\ \A f \in OutlookFolders : Link(c.mail[f]) = Unset
      BY <3>2, FreshIsBefore
    <3>6. Known(c)
      BY <2>2, <3>2, <3>3, <3>4, <3>5 DEF Known, Unset
    <3>7. Passed(c) = {}
      <4>0. PICK S : S = {}
        OBVIOUS
      <4>1. /\ \A f \in OutlookFolders : \A n \in 1 .. top[f] : ~ (n <= Link(c.mail[f]))
            /\ \A n \in 1 .. top["calendar"] : ~ OutlookPast(c, n)
        BY <3>4, <3>5 DEF OutlookPast, Unset
      <4>2. Passed(c) \subseteq S
        BY <2>2, <3>3, <4>1, OutlookPassed
      <4> QED BY <4>0, <4>2
    <3>8. cursor = c
      BY <1>0, <2>2, <3>1
    <3> QED BY <3>6, <3>7, <3>8
  <2>3. CASE provider # "google" /\ provider # "microsoft"
    BY <2>3, PassedOther, CursorAt
  <2> QED BY <2>1, <2>2, <2>3
<1> QED BY <1>4, <1>5, <1>6 DEF IInv, PassedAreStored

\* A page just fetched may land at any later time.
LEMMA ConnFetch ==
  ASSUME IInv, NEW a \in Attempts, Fetch(a)
  PROVE  IInv'
<1>1. PICK items, next : \E done \in BOOLEAN : Returns(a, items, next, done) /\ Sound(items, next)
  BY FetchSound
<1>2. PICK done \in BOOLEAN : Returns(a, items, next, done) /\ Sound(items, next)
  BY <1>1
<1>3. /\ page' = [page EXCEPT ![a] = [items |-> items, cursor |-> next, done |-> done]]
      /\ UNCHANGED <<provider, cursor, stored, resting, day, top, era, ready>>
  BY <1>2 DEF Returns, accountVars, worldVars
<1>4. PICK new : new = [items |-> items, cursor |-> next, done |-> done]
  OBVIOUS
<1>5. new.items = items /\ new.cursor = next /\ new.done = done
  BY <1>4
<1>6. faults' \in 0 .. MaxFaults /\ faults <= faults'
  <2>1. Begins(a)
    BY FetchSound
  <2>2. MaxFaults \in Nat /\ faults \in 0 .. MaxFaults
    BY BoundsAssumption DEF IInv, TypeOK
  <2> QED BY <2>1, <2>2 DEF Begins, Fault
<1>7. page' = [b \in Attempts |-> IF b = a THEN new ELSE page[b]]
  BY <1>3, <1>4 DEF IInv, Shapes
<1>8. Shapes'
  BY <1>3, <1>5, <1>7 DEF IInv, Shapes, Idle, TypeOK
<1>9. TypeOK'
  BY <1>2, <1>3, <1>5, <1>6, <1>7, ConnTypes DEF IInv, TypeOK, Sound
<1>10. KnownAt(provider, top, next) /\ PassedAt(provider, top, next) \subseteq stored \cup items \cup Skipped
  BY <1>2, AtState DEF Sound
<1> QED BY <1>3, <1>5, <1>7, <1>8, <1>9, <1>10, ConnFacts, ConnPreserved

\* A page lands with its items, however late.
LEMMA ConnLand ==
  ASSUME IInv, NEW a \in Attempts, Land(a)
  PROVE  IInv'
<1>1. /\ page[a] # NoPage
      /\ stored' = stored \cup page[a].items /\ cursor' = page[a].cursor
      /\ page' = [b \in Attempts |-> IF b = a THEN NoPage ELSE page[b]]
      /\ UNCHANGED <<provider, day, top, era, ready, stretched, faults>>
  BY DEF Land, Idle, worldVars, IInv, Shapes
<1>2. NoPage.items = {} /\ NoPage.done = FALSE
  BY DEF NoPage
<1>3. Shapes'
  BY <1>1, <1>2 DEF IInv, Shapes, Idle
<1>4. TypeOK'
  BY <1>1, <1>2 DEF IInv, TypeOK
<1> QED BY <1>1, <1>3, <1>4, ConnFacts, ConnPreserved

\* A page that is dropped takes its cursor with it.
LEMMA ConnFails ==
  ASSUME IInv, NEW a \in Attempts, Fails(a)
  PROVE  IInv'
<1>1. /\ page' = [b \in Attempts |-> IF b = a THEN NoPage ELSE page[b]]
      /\ UNCHANGED <<provider, cursor, stored, resting, day, top, era, ready, stretched, faults>>
  BY DEF Fails, Idle, accountVars, worldVars, IInv, Shapes
<1>2. NoPage.items = {} /\ NoPage.done = FALSE
  BY DEF NoPage
<1>3. Shapes'
  BY <1>1, <1>2 DEF IInv, Shapes, Idle
<1>4. TypeOK'
  BY <1>1, <1>2 DEF IInv, TypeOK
<1> QED BY <1>1, <1>3, <1>4, ConnFacts, ConnPreserved

\* Mail that arrives is behind no cursor, of the account or in flight.
LEMMA ConnChange ==
  ASSUME IInv, NEW f \in Feeds, Change(f)
  PROVE  IInv'
<1>1. /\ top' = [top EXCEPT ![f] = @ + 1] /\ top[f] < MaxChanges[f]
      /\ UNCHANGED <<provider, cursor, stored, resting, day, era, ready, page, stretched, faults>>
  BY DEF Change, accountVars
<1>2. top \in [Feeds -> Nat] /\ MaxChanges \in [Feeds -> Nat]
      /\ \A g \in Feeds : top[g] <= MaxChanges[g]
  BY FeedsAssumption DEF IInv, Shapes, TypeOK
<1>3. /\ top' \in [Feeds -> Nat]
      /\ \A g \in Feeds : top[g] <= top'[g] /\ top'[g] \in 0 .. MaxChanges[g]
  BY <1>1, <1>2
<1>4. Shapes'
  BY <1>1, <1>3 DEF IInv, Shapes, Idle
<1>5. TypeOK'
  BY <1>1, <1>3 DEF IInv, TypeOK
<1>6. \A c : KnownAt(provider, top, c) =>
        KnownAt(provider, top', c) /\ PassedAt(provider, top', c) \subseteq PassedAt(provider, top, c)
  BY <1>2, <1>3, Grows
<1>7. KnownAt(provider, top', cursor) /\ PassedAt(provider, top', cursor) \subseteq stored \cup Skipped
  BY <1>6, ConnFacts
<1>8. \A a \in Attempts : page[a] # NoPage =>
            /\ KnownAt(provider, top', page[a].cursor)
            /\ PassedAt(provider, top', page[a].cursor) \subseteq stored \cup page[a].items \cup Skipped
  BY <1>6, ConnFacts
<1> QED BY <1>1, <1>4, <1>5, <1>7, <1>8, ConnPreserved

\* Expiry takes no cursor anywhere before a sync meets it.
LEMMA ConnExpire ==
  ASSUME IInv, NEW f \in Feeds, Expire(f)
  PROVE  IInv'
<1>1. /\ era' = [era EXCEPT ![f] = @ + 1] /\ faults < MaxFaults /\ faults' = faults + 1
      /\ UNCHANGED <<provider, cursor, stored, resting, day, top, ready, page, stretched>>
  BY DEF Expire, Fault, accountVars
<1>2. faults \in 0 .. MaxFaults /\ MaxFaults \in Nat /\ era \in [Feeds -> Nat] /\ \A g \in Feeds : era[g] <= faults
  BY BoundsAssumption DEF IInv, Shapes, TypeOK
<1>3. faults' \in 0 .. MaxFaults /\ era' \in [Feeds -> Nat] /\ \A g \in Feeds : era'[g] <= faults'
  BY <1>1, <1>2
<1>4. Shapes'
  BY <1>1, <1>3 DEF IInv, Shapes, Idle
<1>5. TypeOK'
  BY <1>1, <1>3 DEF IInv, TypeOK
<1> QED BY <1>1, <1>4, <1>5, ConnFacts, ConnPreserved

\* Days and transcripts touch no cursor and no page.
LEMMA ConnOtherwise ==
  ASSUME IInv,
         UNCHANGED <<provider, cursor, stored, resting, top, era, page, stretched, faults>>, day' \in Nat
  PROVE  IInv'
<1>1. Shapes' /\ TypeOK'
  BY DEF IInv, Shapes, TypeOK, Idle
<1> QED BY <1>1, ConnFacts, ConnPreserved

\* The strengthened invariant holds for any mailboxes, folders, page size, number of
\* overlapping attempts and expiries.
THEOREM ConnectorsInvariant == Spec => []IInv
<1>1. Init => IInv
  BY ConnInit
<1>2. IInv /\ [Next]_vars => IInv'
  <2> SUFFICES ASSUME IInv, [Next]_vars PROVE IInv'
    OBVIOUS
  <2>1. ASSUME NEW a \in Attempts, Fetch(a) \/ Land(a) \/ Fails(a) PROVE IInv'
    BY <2>1, ConnFetch, ConnLand, ConnFails
  <2>2. ASSUME NEW f \in Feeds, Change(f) \/ Expire(f) PROVE IInv'
    BY <2>2, ConnChange, ConnExpire
  <2>3. day \in Nat
    BY DEF IInv, Shapes
  <2>4. ASSUME NEW k \in Calls, Transcribed(k) PROVE IInv'
    BY <2>3, <2>4, ConnOtherwise DEF Transcribed, accountVars
  <2>5. CASE NextDay
    BY <2>3, <2>5, ConnOtherwise DEF NextDay, accountVars
  <2>6. CASE UNCHANGED vars
    BY <2>3, <2>6, ConnOtherwise DEF vars
  <2> QED BY <2>1, <2>2, <2>4, <2>5, <2>6 DEF Next, WorldNext
<1> QED BY <1>1, <1>2, PTL DEF Spec

\* No cursor passes a message or event that is not stored: the connectors' sync
\* methods and the transaction of sync_once that stores page and cursor together.
THEOREM CursorsPassOnlyStored == Spec => []Inv
<1>1. IInv => Inv
  BY DEF IInv, Inv
<1> QED BY <1>1, ConnectorsInvariant, PTL

-----------------------------------------------------------------------------
(* CrmImport. *)

\* The records of a snapshot.
LEMMA TwoRecords ==
  Len(Records) = 2 /\ Records[1] = "company" /\ Records[2] = "deal"
BY DEF Records

\* The row that a session works on.
LEMMA RowIsRow ==
  ASSUME ImportIInv, NEW s \in Sessions, rec[s] <= 2
  PROVE  /\ rec[s] = 1 => Kind(s) = "company" /\ Row(s) = "company"
         /\ rec[s] = 2 => Kind(s) = "deal" /\ Row(s) = IF Keyed(s) THEN "deal" ELSE "loose"
         /\ rec[s] \in {1, 2} /\ Row(s) \in Rows /\ Kind(s) \in Kinds
<1>1. rec[s] \in {1, 2}
  BY DEF ImportIInv, ImportShapes
<1> QED BY <1>1, TwoRecords DEF Row, Kind, Rows, Kinds

\* What a step does to open transactions when it opens none, writes nothing to the
\* tables and leaves every transaction that goes on as it is.
NoneOpens ==
  /\ UNCHANGED <<alike, sources, rows, loose, bearer, mixed>>
  /\ \A s \in Sessions : Open(s)' =>
       /\ Open(s) /\ at'[s] = at[s] /\ job'[s] = job[s] /\ rec'[s] = rec[s]
       /\ found'[s] = found[s] /\ cache'[s] = cache[s] /\ inserted'[s] = inserted[s]

\* Such a step keeps what is said of open transactions and of the tables.
LEMMA NoneOpensKeeps ==
  ASSUME ImportIInv, NoneOpens
  PROVE  /\ (RecordsGoneThrough /\ LandedOnce /\ NewRecords)'
         /\ (OnRecordIsImported /\ ImportedOnce /\ NumberBorne)'
<1>0. \A s \in Sessions : Open(s)' =>
        /\ Api(s)' = Api(s) /\ Keyed(s)' = Keyed(s) /\ Row(s)' = Row(s)
        /\ FoundIsThere(s)' = FoundIsThere(s) /\ CacheSound(s)' = CacheSound(s)
        /\ \A k : Inserts(s, k)' = Inserts(s, k)
  BY DEF NoneOpens, Api, Keyed, Row, Kind, FoundIsThere, CacheSound, Inserts
<1>00. \A k : IsNew(k)' = IsNew(k)
  BY DEF NoneOpens, IsNew
<1>1. RecordsGoneThrough'
  BY <1>0 DEF NoneOpens, RecordsGoneThrough, ImportIInv
<1>2. LandedOnce'
  BY <1>0 DEF NoneOpens, LandedOnce, ImportIInv
<1>3. NewRecords'
  BY <1>0, <1>00 DEF NoneOpens, NewRecords, ImportIInv
<1>4. OnRecordIsImported' /\ ImportedOnce' /\ NumberBorne'
  BY DEF NoneOpens, OnRecordIsImported, KeyedOnRecord, ImportedOnce, NumberBorne, ImportIInv
<1> QED BY <1>1, <1>2, <1>3, <1>4

\* What TypeOK, Shapes and JobsSound say of the workflows.
FlowsOK ==
  /\ flow \in [Flows -> {"new", "waiting", "running", "done", "failed"}]
  /\ tries \in [Flows -> Nat] /\ runs \in [Flows -> Sessions \cup {None}]
  /\ \A f \in Flows : /\ tries[f] <= MaxAttempts /\ (runs[f] # None <=> flow[f] = "running")
                      /\ flow[f] = "new" => tries[f] = 0
                      /\ flow[f] = "waiting" => tries[f] < MaxAttempts
\* Of the sessions.
SessionsOK ==
  /\ at \in [Sessions -> {"idle", "fetched", "looking", "writing", "done"}]
  /\ job \in [Sessions -> [flow : Flows \cup {None}, source : Forms \X Stages]]
  /\ rec \in [Sessions -> 1 .. 3]
  /\ found \in [Sessions -> Kinds \cup {None}] /\ cache \in [Sessions -> Kinds \cup {None}]
  /\ inserted \in [Sessions -> SUBSET Rows] /\ updated \in [Sessions -> SUBSET Rows]
  /\ \A s \in Sessions : /\ Api(s) <=> job[s].source[1] = "api"
                         /\ Open(s) \/ (rec[s] = 1 /\ cache[s] = None)
                         /\ inserted[s] \cup updated[s] # {} => Open(s)
\* Of the tables.
TablesOK ==
  /\ crm \in Stages /\ shown \in Stages \cup {None} /\ bearer \in Kinds \cup {None}
  /\ sources \subseteq Forms \X Stages
  /\ rows \in [Kinds -> Nat] /\ loose \in Nat
  /\ mixed \in BOOLEAN /\ alike \in BOOLEAN

\* The invariant is made of these parts.
LEMMA CrmParts ==
  ImportIInv <=> /\ FlowsOK /\ SessionsOK /\ TablesOK
           /\ RecordsGoneThrough /\ LandedOnce /\ NewRecords
           /\ OnRecordIsImported /\ ImportedOnce /\ NumberBorne
BY DEF ImportIInv, FlowsOK, SessionsOK, TablesOK, ImportShapes, JobsSound, ImportTypeOK

LEMMA CrmPartsNext ==
  ASSUME FlowsOK', SessionsOK', TablesOK',
         (RecordsGoneThrough /\ LandedOnce /\ NewRecords)',
         (OnRecordIsImported /\ ImportedOnce /\ NumberBorne)'
  PROVE  ImportIInv'
BY DEF ImportIInv, FlowsOK, SessionsOK, TablesOK, ImportShapes, JobsSound, ImportTypeOK

\* Steps that leave workflows, sessions or tables alone.
LEMMA FlowsKept ==
  ASSUME FlowsOK, UNCHANGED <<flow, tries, runs>>
  PROVE  FlowsOK'
BY DEF FlowsOK

\* A workflow that does not wait any more tries again or has failed.
LEMMA RetriesKeeps ==
  ASSUME FlowsOK, NEW s \in Sessions, Retries(s), UNCHANGED tries, None \notin Sessions
  PROVE  FlowsOK'
<1>1. CASE \E f \in Flows : runs[f] = s
  <2>1. PICK f : f = CHOOSE g \in Flows : runs[g] = s
    OBVIOUS
  <2>2. f \in Flows /\ runs[f] = s
    BY <1>1, <2>1
  <2>3. /\ flow' = [flow EXCEPT ![f] = IF tries[f] < MaxAttempts THEN "waiting" ELSE "failed"]
        /\ runs' = [runs EXCEPT ![f] = None]
    BY <1>1, <2>1 DEF Retries
  <2>4. flow[f] = "running"
    BY <2>2 DEF FlowsOK
  <2> QED BY <2>2, <2>3, <2>4 DEF FlowsOK
<1>2. CASE ~ \E f \in Flows : runs[f] = s
  BY <1>2, FlowsKept DEF Retries
<1> QED BY <1>1, <1>2

LEMMA SessionsKept ==
  ASSUME SessionsOK, UNCHANGED <<at, job, rec, found, cache, inserted, updated>>
  PROVE  SessionsOK'
BY DEF SessionsOK, Api, Open

LEMMA TablesKept ==
  ASSUME TablesOK, UNCHANGED <<crm, alike, sources, rows, loose, bearer, shown, mixed>>
  PROVE  TablesOK'
BY DEF TablesOK

-----------------------------------------------------------------------------
\* The instance has its own copy of FiniteSets.
LEMMA SameCardinality ==
  ASSUME NEW S PROVE Cardinality(S) = Cardinality(S)
BY DEF Cardinality, Cardinality

\* Nothing is imported, or the first snapshot is.
LEMMA CrmInitially ==
  ASSUME ImportInit
  PROVE  ImportIInv
<1>1. FlowsOK
  BY ImportBoundsAssumption, NamesAssumption DEF ImportInit, FlowsOK
<1>2. NoJob \in [flow : Flows \cup {None}, source : Forms \X Stages]
      /\ NoJob.flow = None /\ NoJob.source[1] = "plain"
  BY DEF NoJob, Stages, Forms
<1>3. SessionsOK
  BY <1>2 DEF ImportInit, SessionsOK, Api, Open
<1>4. /\ crm \in Stages /\ loose = 0 /\ mixed = FALSE /\ alike \in BOOLEAN
      /\ "company" \in Kinds /\ "deal" \in Kinds /\ "api" \in Forms
      /\ None # "company" /\ None # "deal"
      /\ \A k \in Kinds : k \in {"company", "deal"}
  BY NamesAssumption DEF ImportInit, Stages, Kinds, Forms
<1>5. \/ sources = {} /\ bearer = None /\ shown = None /\ rows = [k \in Kinds |-> 0]
      \/ /\ sources \in {{<<"api", crm>>}, {<<"api", stage>> : stage \in Stages}}
         /\ bearer = IF alike THEN "company" ELSE "deal"
         /\ shown = IF alike THEN None ELSE crm
         /\ rows = [k \in Kinds |-> IF alike /\ k = "deal" THEN 0 ELSE 1]
  BY DEF ImportInit
<1>6. \A src \in sources : src \in Forms \X Stages /\ src[1] = "api"
  BY <1>4, <1>5
<1>7. rows \in [Kinds -> Nat] /\ \A k \in Kinds : rows[k] <= 1
  BY <1>5
<1>8. bearer \in Kinds \cup {None} /\ shown \in Stages \cup {None}
  BY <1>4, <1>5
<1>9. TablesOK
  BY <1>4, <1>6, <1>7, <1>8 DEF TablesOK
<1>10. \A s \in Sessions : ~ Open(s)
  BY DEF ImportInit, Open
<1>11. NumberBorne
  BY <1>4, <1>5 DEF NumberBorne
<1>12. OnRecordIsImported
  <2>1. PICK C : C = {stage \in Stages : <<"plain", stage>> \in sources}
    OBVIOUS
  <2>2. C = {}
    BY <1>6, <2>1
  <2>3. Cardinality(C) = 0
    BY <2>2, FS_EmptySet
  <2>4. sources # {} => rows["company"] > 0 /\ (rows["deal"] > 0 \/ (alike /\ bearer = "company"))
    BY <1>4, <1>5
  <2> QED BY <1>4, <2>1, <2>3, <2>4, SameCardinality DEF OnRecordIsImported, KeyedOnRecord
<1> QED BY <1>1, <1>3, <1>7, <1>9, <1>10, <1>11, <1>12, CrmParts
        DEF RecordsGoneThrough, LandedOnce, NewRecords, ImportedOnce

\* Steps of users, the workflow engine and the end of a session.
LEMMA CrmEditStep ==
  ASSUME ImportIInv, NEW stage \in Stages, CrmEdit(stage)
  PROVE  ImportIInv'
<1>1. FlowsOK' /\ SessionsOK'
  BY CrmParts, FlowsKept, SessionsKept DEF CrmEdit, flowVars, sessionVars
<1>2. TablesOK'
  BY CrmParts DEF TablesOK, CrmEdit, rowVars
<1>3. NoneOpens
  BY DEF CrmEdit, rowVars, sessionVars, NoneOpens, Open
<1> QED BY <1>1, <1>2, <1>3, CrmPartsNext, NoneOpensKeeps

LEMMA CrmRequestStep ==
  ASSUME ImportIInv, NEW f \in Flows, Request(f)
  PROVE  ImportIInv'
<1>1. FlowsOK'
  <2>1. FlowsOK /\ MaxAttempts \in Nat \ {0}
    BY CrmParts, ImportBoundsAssumption
  <2> QED BY <2>1 DEF FlowsOK, Request
<1>2. SessionsOK' /\ TablesOK'
  BY CrmParts, SessionsKept, TablesKept DEF Request, rowVars, sessionVars
<1>3. NoneOpens
  BY DEF Request, rowVars, sessionVars, NoneOpens, Open
<1> QED BY <1>1, <1>2, <1>3, CrmPartsNext, NoneOpensKeeps

LEMMA CrmTimeOutStep ==
  ASSUME ImportIInv, NEW f \in Flows, TimeOut(f)
  PROVE  ImportIInv'
<1>1. FlowsOK'
  <2>1. FlowsOK /\ None \notin Sessions
    BY CrmParts, NamesAssumption
  <2>2. runs[f] \in Sessions /\ Retries(runs[f]) /\ UNCHANGED tries
    BY <2>1 DEF TimeOut, FlowsOK
  <2> QED BY <2>1, <2>2, RetriesKeeps
<1>2. SessionsOK' /\ TablesOK'
  BY CrmParts, SessionsKept, TablesKept DEF TimeOut, rowVars, sessionVars
<1>3. NoneOpens
  BY DEF TimeOut, rowVars, sessionVars, NoneOpens, Open
<1> QED BY <1>1, <1>2, <1>3, CrmPartsNext, NoneOpensKeeps

LEMMA CrmFetchStep ==
  ASSUME ImportIInv, NEW s \in Sessions, NEW f \in Flows, FetchRecords(s, f)
  PROVE  ImportIInv'
<1>0. /\ FlowsOK /\ SessionsOK /\ TablesOK /\ None \notin Sessions /\ None \notin Flows
      /\ MaxAttempts \in Nat \ {0}
  BY CrmParts, ImportBoundsAssumption, NamesAssumption
<1>1. FlowsOK'
  BY <1>0 DEF FlowsOK, FetchRecords
<1>2. PICK j : j = [flow |-> f, source |-> <<"api", crm>>]
  OBVIOUS
<1>3. j \in [flow : Flows \cup {None}, source : Forms \X Stages]
      /\ j.flow # None /\ j.source[1] = "api"
  BY <1>0, <1>2 DEF TablesOK, Forms
<1>4. /\ at[s] = "idle" /\ at' = [at EXCEPT ![s] = "fetched"] /\ job' = [job EXCEPT ![s] = j]
      /\ UNCHANGED <<rec, found, cache, inserted, updated>>
  BY <1>2 DEF FetchRecords
<1>5. SessionsOK'
  BY <1>0, <1>3, <1>4 DEF SessionsOK, Api, Open
<1>6. TablesOK'
  BY <1>0, TablesKept DEF FetchRecords, rowVars
<1>7. NoneOpens
  BY <1>0, <1>4 DEF SessionsOK, FetchRecords, rowVars, NoneOpens, Open
<1> QED BY <1>1, <1>5, <1>6, <1>7, CrmPartsNext, NoneOpensKeeps

LEMMA CrmUploadStep ==
  ASSUME ImportIInv, NEW s \in Sessions, NEW form \in {"ids", "plain"}, NEW stage \in Stages,
         Upload(s, form, stage)
  PROVE  ImportIInv'
<1>0. FlowsOK /\ SessionsOK /\ TablesOK
  BY CrmParts
<1>1. FlowsOK'
  BY <1>0, FlowsKept DEF Upload, flowVars
<1>2. PICK j : j = [flow |-> None, source |-> <<form, stage>>]
  OBVIOUS
<1>3. j \in [flow : Flows \cup {None}, source : Forms \X Stages]
      /\ j.flow = None /\ j.source[1] # "api"
  BY <1>2 DEF Forms
<1>4. /\ at[s] = "idle" /\ at' = [at EXCEPT ![s] = "fetched"] /\ job' = [job EXCEPT ![s] = j]
      /\ UNCHANGED <<rec, found, cache, inserted, updated>>
  BY <1>2 DEF Upload
<1>5. SessionsOK'
  BY <1>0, <1>3, <1>4 DEF SessionsOK, Api, Open
<1>6. TablesOK'
  BY <1>0, TablesKept DEF Upload, rowVars
<1>7. NoneOpens
  BY <1>0, <1>4 DEF SessionsOK, Upload, rowVars, NoneOpens, Open
<1> QED BY <1>1, <1>5, <1>6, <1>7, CrmPartsNext, NoneOpensKeeps

LEMMA CrmFailsStep ==
  ASSUME ImportIInv, NEW s \in Sessions, ImportFails(s)
  PROVE  ImportIInv'
<1>0. FlowsOK /\ SessionsOK /\ TablesOK /\ None \notin Sessions
  BY CrmParts, NamesAssumption
<1>1. FlowsOK'
  BY <1>0, RetriesKeeps DEF ImportFails
<1>2. NoJob \in [flow : Flows \cup {None}, source : Forms \X Stages]
      /\ NoJob.flow = None /\ NoJob.source[1] = "plain"
  BY DEF NoJob, Stages, Forms
<1>3. /\ at' = [at EXCEPT ![s] = "idle"] /\ job' = [job EXCEPT ![s] = NoJob]
      /\ rec' = [rec EXCEPT ![s] = 1] /\ found' = [found EXCEPT ![s] = None]
      /\ cache' = [cache EXCEPT ![s] = None]
      /\ inserted' = [inserted EXCEPT ![s] = {}] /\ updated' = [updated EXCEPT ![s] = {}]
  BY DEF ImportFails, Closes
<1>4. SessionsOK'
  BY <1>0, <1>2, <1>3 DEF SessionsOK, Api, Open
<1>5. TablesOK'
  BY <1>0, TablesKept DEF ImportFails, rowVars
<1>6. NoneOpens
  BY <1>0, <1>3 DEF SessionsOK, ImportFails, rowVars, NoneOpens, Open
<1> QED BY <1>1, <1>4, <1>5, <1>6, CrmPartsNext, NoneOpensKeeps

LEMMA CrmAnswerStep ==
  ASSUME ImportIInv, NEW s \in Sessions, Answer(s)
  PROVE  ImportIInv'
<1>0. FlowsOK /\ SessionsOK /\ TablesOK /\ None \notin Sessions
  BY CrmParts, NamesAssumption
<1>1. FlowsOK'
  BY <1>0 DEF FlowsOK, Answer
<1>2. NoJob \in [flow : Flows \cup {None}, source : Forms \X Stages]
      /\ NoJob.flow = None /\ NoJob.source[1] = "plain"
  BY DEF NoJob, Stages, Forms
<1>3. /\ at[s] = "done" /\ at' = [at EXCEPT ![s] = "idle"] /\ job' = [job EXCEPT ![s] = NoJob]
      /\ UNCHANGED <<rec, found, cache, inserted, updated>>
  BY DEF Answer
<1>4. SessionsOK'
  BY <1>0, <1>2, <1>3 DEF SessionsOK, Api, Open
<1>5. TablesOK'
  BY <1>0, TablesKept DEF Answer, rowVars
<1>6. NoneOpens
  BY <1>0, <1>3 DEF SessionsOK, Answer, rowVars, NoneOpens, Open
<1> QED BY <1>1, <1>4, <1>5, <1>6, CrmPartsNext, NoneOpensKeeps

\* What bears the crm id, or will, stands for the deal.
LEMMA BearerIsThere ==
  ASSUME NumberBorne, TablesOK, bearer # None
  PROVE  rows["deal"] > 0 \/ (alike /\ bearer = "company")
BY DEF NumberBorne, TablesOK, Kinds

\* A snapshot with the crm id on record has left it with somebody.
LEMMA KeyedIsBorne ==
  ASSUME NumberBorne, OnRecordIsImported, None # "company",
         NEW src \in sources, src[1] # "plain"
  PROVE  bearer # None /\ rows["company"] > 0
<1>1. src \in KeyedOnRecord
  BY DEF KeyedOnRecord
<1> QED BY <1>1 DEF OnRecordIsImported, NumberBorne

\* land lets one transaction in with a snapshot that is not on record.
LEMMA CrmLandStep ==
  ASSUME ImportIInv, NEW s \in Sessions, LandSource(s)
  PROVE  ImportIInv'
<1>0. FlowsOK /\ SessionsOK /\ TablesOK /\ RecordsGoneThrough /\ LandedOnce /\ NewRecords
      /\ OnRecordIsImported /\ ImportedOnce /\ NumberBorne
      /\ None # "company" /\ None # "deal"
  BY CrmParts, NamesAssumption
<1>1. FlowsOK'
  BY <1>0, FlowsKept DEF LandSource, flowVars
<1>2. at[s] = "fetched" /\ ~ Landing(s) /\ job' = job
      /\ UNCHANGED <<crm, alike, sources, rows, loose, bearer, shown>>
  BY DEF LandSource, rowVars
<1>3. CASE Api(s) \/ job[s].source \notin sources
  <2>1. /\ at' = [at EXCEPT ![s] = "looking"]
        /\ mixed' = (mixed \/ \E t \in Sessions \ {s} : Open(t) /\ job[t].source # job[s].source)
        /\ UNCHANGED <<rec, found, cache, inserted, updated>>
    BY <1>3 DEF LandSource, Opens
  <2>2. /\ \A t \in Sessions : at'[t] = IF t = s THEN "looking" ELSE at[t]
        /\ \A t \in Sessions : Open(t)' <=> t = s \/ Open(t)
        /\ \A t \in Sessions : Api(t)' = Api(t) /\ Keyed(t)' = Keyed(t) /\ Row(t)' = Row(t)
        /\ ~ Open(s) /\ inserted[s] = {} /\ rec[s] = 1 /\ cache[s] = None
    BY <1>0, <1>2, <2>1 DEF SessionsOK, Open, Api, Keyed, Row, Kind
  <2>3. SessionsOK'
    BY <1>0, <1>2, <2>1 DEF SessionsOK, Api, Open
  <2>4. TablesOK'
    BY <1>0, <1>2, <2>1 DEF TablesOK
  <2>5. RecordsGoneThrough'
    <3>1. \A t \in Sessions : FoundIsThere(t)' = FoundIsThere(t) /\ CacheSound(t)' = CacheSound(t)
      BY <1>2, <2>1, <2>2 DEF FoundIsThere, CacheSound, Kind
    <3>2. CacheSound(s)
      BY <1>0, <2>2 DEF CacheSound
    <3> QED BY <1>0, <1>2, <2>1, <2>2, <3>1, <3>2 DEF RecordsGoneThrough
  <2>6. LandedOnce'
    <3>1. job[s].source \notin sources => \A t \in Sessions \ {s} : Open(t) => job[t].source # job[s].source
      BY <1>2 DEF Landing
    <3> QED BY <1>0, <1>2, <1>3, <2>1, <2>2, <3>1 DEF LandedOnce
  <2>7. NewRecords'
    <3> SUFFICES ASSUME ~ mixed' PROVE NewRecords'
      BY DEF NewRecords
    <3>1. ~ mixed /\ \A t \in Sessions : Open(t) => job[t].source = job[s].source
      BY <1>0, <2>1, <2>2 DEF TablesOK
    <3>2. /\ \A t \in Sessions, k \in Kinds : Inserts(t, k)' => t # s /\ Inserts(t, k)
          /\ \A k \in Kinds : IsNew(k)' = IsNew(k)
      BY <1>2, <2>1, <2>2 DEF Inserts, IsNew
    <3>3. ASSUME NEW t \in Sessions, Open(t)'
          PROVE  /\ \A u \in Sessions : Open(u)' => job'[u].source = job'[t].source
                 /\ \A k \in Kinds : Inserts(t, k)' => IsNew(k)'
                 /\ "number" \in inserted'[t] => bearer' = None
      BY <1>0, <1>2, <2>1, <2>2, <3>1, <3>2, <3>3 DEF NewRecords
    <3> QED BY <3>3 DEF NewRecords
  <2>8. OnRecordIsImported' /\ ImportedOnce' /\ NumberBorne'
    BY <1>0, <1>2, <2>1 DEF OnRecordIsImported, KeyedOnRecord, ImportedOnce, NumberBorne
  <2> QED BY <1>1, <2>3, <2>4, <2>5, <2>6, <2>7, <2>8, CrmPartsNext
<1>4. CASE ~ (Api(s) \/ job[s].source \notin sources)
  <2>1. /\ at' = [at EXCEPT ![s] = "done"] /\ mixed' = mixed
        /\ rec' = [rec EXCEPT ![s] = 1] /\ found' = [found EXCEPT ![s] = None]
        /\ cache' = [cache EXCEPT ![s] = None]
        /\ inserted' = [inserted EXCEPT ![s] = {}] /\ updated' = [updated EXCEPT ![s] = {}]
    BY <1>4 DEF LandSource, Closes
  <2>2. SessionsOK'
    BY <1>0, <1>2, <2>1 DEF SessionsOK, Api, Open
  <2>3. TablesOK'
    BY <1>0, <1>2, <2>1 DEF TablesOK
  <2>4. NoneOpens
    BY <1>0, <1>2, <2>1 DEF SessionsOK, NoneOpens, Open
  <2> QED BY <1>1, <2>2, <2>3, <2>4, CrmPartsNext, NoneOpensKeeps
<1> QED BY <1>3, <1>4

\* What a look-up has found is there, and what it has not found is new, unless
\* snapshots were mixed.
LEMMA CrmLookUpStep ==
  ASSUME ImportIInv, NEW s \in Sessions, LookUp(s)
  PROVE  ImportIInv'
<1>0. FlowsOK /\ SessionsOK /\ TablesOK /\ RecordsGoneThrough /\ LandedOnce /\ NewRecords
      /\ OnRecordIsImported /\ ImportedOnce /\ NumberBorne
      /\ None # "company" /\ None # "deal"
  BY CrmParts, NamesAssumption
<1>1. /\ at[s] = "looking" /\ rec[s] <= 2 /\ at' = [at EXCEPT ![s] = "writing"]
      /\ found' = [found EXCEPT ![s] = Finds(s)]
      /\ UNCHANGED <<crm, alike, sources, rows, loose, bearer, shown, flow, tries, runs, job, rec,
                     cache, inserted, updated, mixed>>
  BY TwoRecords DEF LookUp, rowVars, flowVars
<1>2. FlowsOK' /\ TablesOK'
  BY <1>0, <1>1, FlowsKept, TablesKept
<1>3. Finds(s) \in Kinds \cup {None}
  BY <1>0 DEF Finds, SessionsOK, TablesOK, Kinds
<1>4. SessionsOK'
  BY <1>0, <1>1, <1>3 DEF SessionsOK, Api, Open
<1>5. /\ \A t \in Sessions : Open(t)' <=> Open(t)
      /\ \A t \in Sessions : Api(t)' = Api(t) /\ Keyed(t)' = Keyed(t) /\ Row(t)' = Row(t) /\ Kind(t)' = Kind(t)
      /\ \A t \in Sessions : t # s => at'[t] = at[t] /\ found'[t] = found[t]
      /\ at'[s] = "writing" /\ Open(s) /\ found'[s] = Finds(s)
  BY <1>0, <1>1 DEF SessionsOK, Open, Api, Keyed, Row, Kind
<1>6. CacheSound(s) /\ "deal" \notin inserted[s]
  BY <1>0, <1>1, <1>5 DEF RecordsGoneThrough
<1>7. FoundIsThere(s)'
  <2>1. Kind(s) = "company" \/ Kind(s) = "deal"
    BY <1>1, RowIsRow
  <2>2. Finds(s) = "company" => Kind(s) = "company" \/ alike
    BY <1>0, <1>6 DEF Finds, CacheSound, NumberBorne
  <2>3. Finds(s) = "deal" => rows["deal"] > 0
    BY <1>0, <1>6 DEF Finds, CacheSound, NumberBorne
  <2>4. Finds(s) # None => /\ rows["company"] > 0 \/ "company" \in inserted[s]
                           /\ Kind(s) = "company" \/ Keyed(s)
    BY <1>0, <1>6, <2>1 DEF Finds, Numbered, CacheSound, NumberBorne
  <2> QED BY <1>1, <1>5, <2>2, <2>3, <2>4 DEF FoundIsThere
<1>8. RecordsGoneThrough'
  <2>1. \A t \in Sessions : CacheSound(t)' = CacheSound(t)
    BY <1>1 DEF CacheSound
  <2>2. \A t \in Sessions : t # s => FoundIsThere(t)' = FoundIsThere(t)
    BY <1>1, <1>5 DEF FoundIsThere
  <2> QED BY <1>0, <1>1, <1>5, <1>7, <2>1, <2>2 DEF RecordsGoneThrough
<1>9. LandedOnce'
  BY <1>0, <1>1, <1>5 DEF LandedOnce
<1>10. NewRecords'
  <2>1. \A k \in Kinds : rows[k] \in Nat
    BY <1>0 DEF TablesOK
  <2>2. ASSUME NEW k \in Kinds, Finds(s) = None, Row(s) = k PROVE IsNew(k)
    <3>1. CASE k = "company"
      <4>1. Kind(s) = "company"
        BY <2>2, <3>1 DEF Row
      <4> QED BY <1>0, <2>1, <2>2, <3>1, <4>1 DEF Finds, IsNew
    <3>2. CASE k = "deal"
      <4>1. Kind(s) = "deal" /\ Keyed(s)
        BY <2>2, <3>2 DEF Row
      <4> QED BY <2>2, <3>2, <4>1 DEF Finds, Numbered, IsNew
    <3> QED BY <3>1, <3>2 DEF Kinds
  <2>3. /\ \A t \in Sessions, k \in Kinds :
             Inserts(t, k)' => Inserts(t, k) \/ (t = s /\ Finds(s) = None /\ Row(s) = k)
        /\ \A k \in Kinds : IsNew(k)' = IsNew(k)
    BY <1>1, <1>5 DEF Inserts, IsNew
  <2> QED BY <1>0, <1>1, <1>5, <2>2, <2>3 DEF NewRecords
<1>11. OnRecordIsImported' /\ ImportedOnce' /\ NumberBorne'
  BY <1>0, <1>1 DEF OnRecordIsImported, KeyedOnRecord, ImportedOnce, NumberBorne
<1> QED BY <1>2, <1>4, <1>8, <1>9, <1>10, <1>11, CrmPartsNext

\* A record written was found, or will be there when the transaction commits.
LEMMA CrmWriteStep ==
  ASSUME ImportIInv, NEW s \in Sessions, Write(s)
  PROVE  ImportIInv'
<1>0. FlowsOK /\ SessionsOK /\ TablesOK /\ RecordsGoneThrough /\ LandedOnce /\ NewRecords
      /\ OnRecordIsImported /\ ImportedOnce /\ NumberBorne
      /\ None # "company" /\ None # "deal"
  BY CrmParts, NamesAssumption
<1> DEFINE ins == inserted[s] \cup (IF found[s] = None THEN {Row(s)} ELSE {})
                    \cup (IF Numbered(s) /\ bearer = None THEN {"number"} ELSE {})
           cch == IF ~ Numbered(s) THEN cache[s] ELSE IF found[s] = None THEN Kind(s) ELSE found[s]
           upd == IF Updates(s) THEN updated[s] \cup {Kind(s)} ELSE updated[s]
<1>1. /\ at[s] = "writing" /\ at' = [at EXCEPT ![s] = "looking"]
      /\ rec' = [rec EXCEPT ![s] = rec[s] + 1]
      /\ inserted' = [inserted EXCEPT ![s] = ins]
      /\ cache' = [cache EXCEPT ![s] = cch] /\ updated' = [updated EXCEPT ![s] = upd]
      /\ UNCHANGED <<crm, alike, sources, rows, loose, bearer, shown, flow, tries, runs, job, found, mixed>>
  BY DEF Write, rowVars, flowVars
<1>2. FlowsOK' /\ TablesOK'
  BY <1>0, <1>1, FlowsKept, TablesKept
<1>3. Open(s) /\ rec[s] <= 2 /\ FoundIsThere(s) /\ CacheSound(s)
  <2>1. Open(s)
    BY <1>1 DEF Open
  <2> QED BY <1>0, <1>1, <2>1 DEF RecordsGoneThrough
<1>4. /\ rec[s] = 1 => Kind(s) = "company" /\ Row(s) = "company"
      /\ rec[s] = 2 => Kind(s) = "deal" /\ Row(s) = IF Keyed(s) THEN "deal" ELSE "loose"
      /\ rec[s] \in {1, 2} /\ Row(s) \in Rows /\ Kind(s) \in Kinds /\ Kind(s) \in Rows
      /\ Kind(s) # None
  BY <1>0, <1>3, RowIsRow DEF Rows, Kinds
<1>5. ins \subseteq Rows /\ cch \in Kinds \cup {None} /\ upd \subseteq Rows
  BY <1>0, <1>4 DEF SessionsOK, Rows
<1>6. SessionsOK'
  <2>1. /\ inserted' \in [Sessions -> SUBSET Rows] /\ updated' \in [Sessions -> SUBSET Rows]
        /\ cache' \in [Sessions -> Kinds \cup {None}]
        /\ \A t \in Sessions : t # s => inserted'[t] = inserted[t] /\ updated'[t] = updated[t]
                                        /\ cache'[t] = cache[t]
    BY <1>0, <1>1, <1>5 DEF SessionsOK
  <2>2. rec' \in [Sessions -> 1 .. 3] /\ at' \in [Sessions -> {"idle", "fetched", "looking", "writing", "done"}]
        /\ \A t \in Sessions : t # s => rec'[t] = rec[t] /\ at'[t] = at[t]
        /\ at'[s] = "looking"
    BY <1>0, <1>1, <1>4 DEF SessionsOK
  <2>3. \A t \in Sessions : /\ Api(t)' <=> Api(t)
                            /\ Open(t)' <=> Open(t)
    BY <1>1, <1>3, <2>2 DEF Api, Open
  <2> QED BY <1>0, <1>1, <1>3, <2>1, <2>2, <2>3 DEF SessionsOK
<1>7. /\ \A t \in Sessions : Open(t)' <=> Open(t)
      /\ \A t \in Sessions : Api(t)' = Api(t) /\ Keyed(t)' = Keyed(t)
      /\ \A t \in Sessions : t # s => /\ at'[t] = at[t] /\ rec'[t] = rec[t] /\ inserted'[t] = inserted[t]
                                      /\ Row(t)' = Row(t) /\ Kind(t)' = Kind(t) /\ cache'[t] = cache[t]
      /\ at'[s] = "looking" /\ rec'[s] = rec[s] + 1 /\ inserted'[s] = ins /\ cache'[s] = cch
  BY <1>0, <1>1 DEF SessionsOK, Open, Api, Keyed, Row, Kind
<1>8. "company" \in ins \/ rows["company"] > 0
  <2>1. CASE found[s] = None /\ rec[s] = 1
    BY <1>4, <2>1
  <2>2. CASE rec[s] = 2
    <3>1. "company" \in inserted[s] \/ rows["company"] > 0
      BY <1>0, <1>3, <2>2 DEF RecordsGoneThrough
    <3> QED BY <3>1
  <2>3. CASE found[s] # None
    BY <1>3, <2>3 DEF FoundIsThere
  <2> QED BY <1>4, <2>1, <2>2, <2>3
<1>9. CacheSound(s)'
  <2>1. cch = "company" => alike
    BY <1>3, <1>4, <1>0 DEF CacheSound, FoundIsThere, Numbered
  <2>2. cch = "deal" => rows["deal"] > 0 \/ "deal" \in ins
    <3>1. CASE ~ Numbered(s)
      BY <1>3, <3>1 DEF CacheSound
    <3>2. CASE Numbered(s) /\ found[s] # None
      BY <1>3, <3>2 DEF FoundIsThere
    <3>3. CASE Numbered(s) /\ found[s] = None
      <4>1. Kind(s) = "deal" => Row(s) = "deal"
        BY <3>3 DEF Numbered, Row
      <4> QED BY <3>3, <4>1
    <3> QED BY <3>1, <3>2, <3>3
  <2>3. "number" \in ins => cch # None
    <3>1. Numbered(s) => cch # None
      BY <1>4
    <3>2. ~ Numbered(s) /\ "number" \in ins => "number" \in inserted[s]
      BY <1>4
    <3> QED BY <1>3, <3>1, <3>2 DEF CacheSound
  <2> QED BY <1>1, <1>7, <1>8, <2>1, <2>2, <2>3 DEF CacheSound
<1>10. RecordsGoneThrough'
  <2>1. ASSUME NEW t \in Sessions, t # s
        PROVE  FoundIsThere(t)' = FoundIsThere(t) /\ CacheSound(t)' = CacheSound(t)
    BY <1>1, <1>7, <2>1 DEF FoundIsThere, CacheSound
  <2>2. /\ rec'[s] > 2 => IF Keyed(s) THEN "number" \in ins \/ bearer # None ELSE "loose" \in ins
        /\ Keyed(s) => "loose" \notin ins
        /\ rec'[s] <= 2 => "deal" \notin ins
        /\ "deal" \in ins => Keyed(s)
    <3>1. /\ Keyed(s) => "loose" \notin inserted[s]
          /\ "deal" \notin inserted[s]
      BY <1>0, <1>3 DEF RecordsGoneThrough
    <3>2. CASE rec[s] = 1
      BY <1>4, <1>7, <3>1, <3>2
    <3>3. CASE rec[s] = 2
      <4>1. Keyed(s) => Numbered(s)
        BY <1>4, <3>3 DEF Numbered
      <4>2. ~ Keyed(s) => found[s] = None
        BY <1>3, <1>4, <3>3 DEF FoundIsThere
      <4> QED BY <1>4, <1>7, <3>1, <3>3, <4>1, <4>2
    <3> QED BY <1>4, <3>2, <3>3
  <2>3. ASSUME NEW t \in Sessions, Open(t)'
        PROVE  (/\ rec[t] > 1 => "company" \in inserted[t] \/ rows["company"] > 0
                /\ rec[t] > 2 => IF Keyed(t) THEN "number" \in inserted[t] \/ bearer # None
                                             ELSE "loose" \in inserted[t]
                /\ Keyed(t) => "loose" \notin inserted[t]
                /\ rec[t] <= 2 => "deal" \notin inserted[t]
                /\ "deal" \in inserted[t] => Keyed(t)
                /\ at[t] = "writing" => rec[t] <= 2 /\ FoundIsThere(t)
                /\ CacheSound(t))'
    <3>1. CASE t = s
      BY <1>1, <1>7, <1>8, <1>9, <2>2, <3>1
    <3>2. CASE t # s
      BY <1>0, <1>1, <1>7, <2>1, <2>3, <3>2 DEF RecordsGoneThrough
    <3> QED BY <3>1, <3>2
  <2> QED BY <2>3 DEF RecordsGoneThrough
<1>11. LandedOnce'
  BY <1>0, <1>1, <1>7 DEF LandedOnce
<1>12. NewRecords'
  <2>1. /\ \A t \in Sessions, k \in Kinds : Inserts(t, k)' => Inserts(t, k)
        /\ \A k \in Kinds : IsNew(k)' = IsNew(k)
    <3>1. \A k \in Kinds : k \in ins => k \in inserted[s] \/ (found[s] = None /\ Row(s) = k)
      BY DEF Kinds
    <3> QED BY <1>1, <1>7, <3>1 DEF Inserts, IsNew
  <2>2. "number" \in ins => bearer = None \/ "number" \in inserted[s]
    BY <1>4
  <2> QED BY <1>0, <1>1, <1>7, <2>1, <2>2 DEF NewRecords
<1>13. OnRecordIsImported' /\ ImportedOnce' /\ NumberBorne'
  BY <1>0, <1>1 DEF OnRecordIsImported, KeyedOnRecord, ImportedOnce, NumberBorne
<1> QED BY <1>2, <1>6, <1>10, <1>11, <1>12, <1>13, CrmPartsNext

\* The files without ids among a set of snapshots, and what a commit adds to them.
Files(S) == {stage \in Stages : <<"plain", stage>> \in S}

LEMMA FilesOnRecord ==
  ASSUME NEW S, NEW src \in Forms \X Stages
  PROVE  /\ src[1] # "plain" => Files(S \cup {src}) = Files(S)
         /\ src[1] = "plain" /\ src \notin S =>
              Cardinality(Files(S \cup {src})) = Cardinality(Files(S)) + 1
<1>1. PICK C : C = Files(S)
  OBVIOUS
<1>2. PICK D : D = Files(S \cup {src})
  OBVIOUS
<1>3. src = <<src[1], src[2]>> /\ src[2] \in Stages
  OBVIOUS
<1>4. src[1] # "plain" => D = C
  BY <1>1, <1>2, <1>3 DEF Files
<1>5. src[1] = "plain" /\ src \notin S => D = C \cup {src[2]} /\ src[2] \notin C
  BY <1>1, <1>2, <1>3 DEF Files
<1>6. IsFiniteSet(C)
  <2>1. IsFiniteSet(Stages)
    <3>1. IsFiniteSet({"screening"})
      BY FS_Singleton
    <3>2. IsFiniteSet({"screening"} \cup {"diligence"})
      BY <3>1, FS_AddElement
    <3>3. Stages = {"screening"} \cup {"diligence"}
      BY DEF Stages
    <3> QED BY <3>2, <3>3
  <2>2. C \subseteq Stages
    BY <1>1 DEF Files
  <2> QED BY <2>1, <2>2, FS_Subset
<1>7. src[1] = "plain" /\ src \notin S => Cardinality(D) = Cardinality(C) + 1
  BY <1>5, <1>6, FS_AddElement
<1> QED BY <1>1, <1>2, <1>4, <1>7

\* A commit puts the snapshot on record together with its rows; of two open imports
\* of one snapshot both find every record.
LEMMA CrmCommitStep ==
  ASSUME ImportIInv, NEW s \in Sessions, Commit(s)
  PROVE  ImportIInv'
<1>0. FlowsOK /\ SessionsOK /\ TablesOK /\ RecordsGoneThrough /\ LandedOnce /\ NewRecords
      /\ OnRecordIsImported /\ ImportedOnce /\ NumberBorne
      /\ None # "company" /\ None # "deal"
  BY CrmParts, NamesAssumption
<1>1. /\ at[s] = "looking" /\ rec[s] > 2
      /\ sources' = sources \cup {job[s].source}
      /\ rows' = [k \in Kinds |-> IF k \in inserted[s] THEN rows[k] + 1 ELSE rows[k]]
      /\ loose' = IF "loose" \in inserted[s] THEN loose + 1 ELSE loose
      /\ bearer' = IF "number" \in inserted[s] THEN cache[s] ELSE bearer
      /\ shown' \in {shown, job[s].source[2]}
      /\ at' = [at EXCEPT ![s] = "done"]
      /\ rec' = [rec EXCEPT ![s] = 1] /\ found' = [found EXCEPT ![s] = None]
      /\ cache' = [cache EXCEPT ![s] = None]
      /\ inserted' = [inserted EXCEPT ![s] = {}] /\ updated' = [updated EXCEPT ![s] = {}]
      /\ UNCHANGED <<crm, alike, flow, tries, runs, job, mixed>>
  BY TwoRecords DEF Commit, Closes, flowVars, Stage
<1>2. FlowsOK'
  BY <1>0, <1>1, FlowsKept
<1>3. SessionsOK'
  BY <1>0, <1>1 DEF SessionsOK, Api, Open
<1>4. /\ job[s].source \in Forms \X Stages /\ job[s].source[2] \in Stages
      /\ Api(s) <=> job[s].source[1] = "api"
      /\ Keyed(s) <=> job[s].source[1] # "plain"
  BY <1>0 DEF SessionsOK, Keyed
<1>5. TablesOK'
  <2>1. rows' \in [Kinds -> Nat] /\ loose' \in Nat
    BY <1>0, <1>1 DEF TablesOK
  <2>2. bearer' \in Kinds \cup {None} /\ shown' \in Stages \cup {None} /\ sources' \subseteq Forms \X Stages
    BY <1>0, <1>1, <1>4 DEF TablesOK, SessionsOK
  <2> QED BY <1>0, <1>1, <2>1, <2>2 DEF TablesOK
<1>6. /\ \A t \in Sessions : Open(t)' <=> Open(t) /\ t # s
      /\ \A t \in Sessions : Api(t)' = Api(t) /\ Keyed(t)' = Keyed(t)
      /\ \A t \in Sessions : t # s => /\ at'[t] = at[t] /\ rec'[t] = rec[t] /\ inserted'[t] = inserted[t]
                                      /\ Row(t)' = Row(t) /\ Kind(t)' = Kind(t)
                                      /\ found'[t] = found[t] /\ cache'[t] = cache[t]
      /\ Open(s)
  BY <1>0, <1>1 DEF SessionsOK, Open, Api, Keyed, Row, Kind
<1>7. \A k \in Kinds : rows[k] \in Nat /\ rows'[k] \in Nat /\ rows'[k] >= rows[k]
                       /\ (k \in inserted[s] => rows'[k] = rows[k] + 1 /\ rows'[k] > 0)
                       /\ (k \notin inserted[s] => rows'[k] = rows[k])
  BY <1>0, <1>1 DEF TablesOK
<1>8. /\ "company" \in inserted[s] \/ rows["company"] > 0
      /\ Keyed(s) => "number" \in inserted[s] \/ bearer # None
      /\ Keyed(s) <=> "loose" \notin inserted[s]
      /\ "deal" \in inserted[s] => Keyed(s)
      /\ CacheSound(s)
  BY <1>0, <1>1, <1>6 DEF RecordsGoneThrough, SessionsOK
<1>9. "company" \in Kinds /\ "deal" \in Kinds
  BY DEF Kinds
<1>10. /\ rows'["company"] > 0
       /\ Keyed(s) => bearer' # None
       /\ bearer # None => bearer' # None
       /\ rows["deal"] > 0 => rows'["deal"] > 0
  <2>1. rows'["company"] > 0 /\ (rows["deal"] > 0 => rows'["deal"] > 0)
    BY <1>7, <1>8, <1>9
  <2>2. "number" \in inserted[s] => cache[s] # None
    BY <1>8 DEF CacheSound
  <2> QED BY <1>1, <1>8, <2>1, <2>2
<1>11. NumberBorne'
  <2>1. bearer' = "company" => alike
    BY <1>0, <1>1, <1>8 DEF NumberBorne, CacheSound
  <2>2. bearer' = "deal" => rows'["deal"] > 0
    <3>1. cache[s] = "deal" => rows'["deal"] > 0
      BY <1>7, <1>8, <1>9, <1>10 DEF CacheSound
    <3>2. bearer = "deal" => rows'["deal"] > 0
      BY <1>0, <1>10 DEF NumberBorne
    <3> QED BY <1>1, <3>1, <3>2
  <2>3. rows'["deal"] > 0 => bearer' # None
    BY <1>0, <1>7, <1>8, <1>9, <1>10 DEF NumberBorne
  <2> QED BY <1>1, <1>10, <2>1, <2>2, <2>3 DEF NumberBorne
<1>12. OnRecordIsImported'
  <2>1. KeyedOnRecord' # {} => bearer' # None
    <3>1. KeyedOnRecord # {} => bearer # None
      BY <1>0, KeyedIsBorne DEF KeyedOnRecord
    <3>2. ~ Keyed(s) => KeyedOnRecord' = KeyedOnRecord
      BY <1>1, <1>4 DEF KeyedOnRecord
    <3> QED BY <1>10, <3>1, <3>2
  <2>2. bearer' # None => rows'["deal"] > 0 \/ (alike' /\ bearer' = "company")
    BY <1>5, <1>11 DEF NumberBorne, TablesOK, Kinds
  <2>3. loose' = Cardinality(Files(sources'))
    <3>1. loose = Cardinality(Files(sources)) /\ loose \in Nat
      BY <1>0, SameCardinality DEF OnRecordIsImported, Files, TablesOK
    <3>2. PICK src \in Forms \X Stages : src = job[s].source
      BY <1>4
    <3>3. Files(sources') = Files(sources \cup {src})
      BY <1>1, <3>2
    <3>4. CASE Keyed(s)
      BY <1>1, <1>4, <1>8, <3>1, <3>2, <3>3, <3>4, FilesOnRecord
    <3>5. CASE ~ Keyed(s)
      <4>1. src \notin sources /\ src[1] = "plain"
        BY <1>0, <1>4, <1>6, <3>2, <3>5 DEF LandedOnce
      <4> QED BY <1>1, <1>8, <3>1, <3>3, <3>5, <4>1, FilesOnRecord
    <3> QED BY <3>4, <3>5
  <2> QED BY <1>10, <2>1, <2>2, <2>3, SameCardinality DEF OnRecordIsImported, Files
<1>13. ImportedOnce'
  <2>1. ASSUME ~ mixed, NEW k \in Kinds PROVE rows'[k] <= 1
    <3>1. k \in inserted[s] => IsNew(k)
      BY <1>0, <1>6, <2>1 DEF NewRecords, Inserts
    <3>2. k \in inserted[s] => rows[k] = 0
      BY <1>0, <1>7, <3>1 DEF IsNew, NumberBorne, Kinds
    <3>3. rows[k] <= 1
      BY <1>0, <2>1 DEF ImportedOnce
    <3> QED BY <1>7, <3>2, <3>3
  <2> QED BY <1>1, <2>1 DEF ImportedOnce
<1>14. LandedOnce'
  <2>1. ASSUME NEW t \in Sessions, Open(t), t # s, ~ Api(t) PROVE job[t].source # job[s].source
    BY <1>0, <1>6, <2>1 DEF LandedOnce
  <2> QED BY <1>0, <1>1, <1>6, <2>1 DEF LandedOnce
<1>15. RecordsGoneThrough'
  <2>1. ASSUME NEW t \in Sessions, Open(t), t # s
        PROVE  (/\ rec[t] > 1 => "company" \in inserted[t] \/ rows["company"] > 0
                /\ rec[t] > 2 => IF Keyed(t) THEN "number" \in inserted[t] \/ bearer # None
                                             ELSE "loose" \in inserted[t]
                /\ Keyed(t) => "loose" \notin inserted[t]
                /\ rec[t] <= 2 => "deal" \notin inserted[t]
                /\ "deal" \in inserted[t] => Keyed(t)
                /\ at[t] = "writing" => rec[t] <= 2 /\ FoundIsThere(t)
                /\ CacheSound(t))'
    <3>1. FoundIsThere(t) => FoundIsThere(t)'
      BY <1>1, <1>6, <1>10, <2>1 DEF FoundIsThere
    <3>2. CacheSound(t) => CacheSound(t)'
      BY <1>1, <1>6, <1>10, <2>1 DEF CacheSound
    <3>3. /\ rec[t] > 1 => "company" \in inserted[t] \/ rows["company"] > 0
          /\ rec[t] > 2 => IF Keyed(t) THEN "number" \in inserted[t] \/ bearer # None
                                       ELSE "loose" \in inserted[t]
          /\ Keyed(t) => "loose" \notin inserted[t]
          /\ rec[t] <= 2 => "deal" \notin inserted[t]
          /\ "deal" \in inserted[t] => Keyed(t)
          /\ at[t] = "writing" => rec[t] <= 2 /\ FoundIsThere(t)
          /\ CacheSound(t)
      BY <1>0, <2>1 DEF RecordsGoneThrough
    <3> QED BY <1>6, <1>10, <2>1, <3>1, <3>2, <3>3
  <2> QED BY <1>6, <2>1 DEF RecordsGoneThrough
<1>16. NewRecords'
  <2> SUFFICES ASSUME ~ mixed PROVE NewRecords'
    BY <1>1 DEF NewRecords
  \* Another one that is open imports what is on record already: nothing is new to s.
  <2>1. ASSUME NEW t \in Sessions, Open(t), t # s
        PROVE  (\A k \in Kinds : k \notin inserted[s]) /\ "number" \notin inserted[s]
    <3>1. job[s].source \in sources
      BY <1>0, <1>6, <2>1 DEF LandedOnce, NewRecords
    <3>2. Keyed(s)
      BY <1>0, <1>4, <1>6, <3>1 DEF LandedOnce
    <3>3. bearer # None /\ rows["company"] > 0
      BY <1>0, <1>4, <3>1, <3>2, KeyedIsBorne
    <3>4. \A k \in Kinds : k \in inserted[s] => IsNew(k)
      BY <1>0, <1>6 DEF NewRecords, Inserts
    <3>5. "number" \in inserted[s] => bearer = None
      BY <1>0, <1>6 DEF NewRecords
    <3> QED BY <3>3, <3>4, <3>5 DEF IsNew
  <2>2. ASSUME NEW t \in Sessions, Open(t), t # s
        PROVE  /\ \A u \in Sessions : Open(u) => job[u].source = job[t].source
               /\ \A k \in Kinds : Inserts(t, k)' => IsNew(k)'
               /\ "number" \in inserted[t] => bearer' = None
    <3>1. (\A k \in Kinds : rows'[k] = rows[k]) /\ bearer' = bearer
      BY <1>1, <1>7, <2>1, <2>2
    <3>2. /\ \A k \in Kinds : Inserts(t, k)' = Inserts(t, k)
          /\ \A k \in Kinds : IsNew(k)' = IsNew(k)
      BY <1>6, <1>9, <2>2, <3>1 DEF Inserts, IsNew
    <3> QED BY <1>0, <2>2, <3>1, <3>2 DEF NewRecords
  <2> QED BY <1>1, <1>6, <2>2 DEF NewRecords
<1> QED BY <1>2, <1>3, <1>5, <1>11, <1>12, <1>13, <1>14, <1>15, <1>16, CrmPartsNext

\* The strengthened invariant holds for any number of workflows, sessions, attempts,
\* uploads, edits and faults.
THEOREM ImportInvariant == ImportSpec => []ImportIInv
<1>1. ImportInit => ImportIInv
  BY CrmInitially
<1>2. ImportIInv /\ [ImportNext]_importVars => ImportIInv'
  <2> SUFFICES ASSUME ImportIInv, [ImportNext]_importVars PROVE ImportIInv'
    OBVIOUS
  <2>1. ASSUME NEW stage \in Stages, CrmEdit(stage) PROVE ImportIInv'
    BY <2>1, CrmEditStep
  <2>2. ASSUME NEW f \in Flows, Request(f) \/ TimeOut(f) PROVE ImportIInv'
    BY <2>2, CrmRequestStep, CrmTimeOutStep
  <2>3. ASSUME NEW s \in Sessions, SessionStep(s) \/ ImportFails(s) PROVE ImportIInv'
    BY <2>3, CrmLandStep, CrmLookUpStep, CrmWriteStep, CrmCommitStep, CrmAnswerStep,
       CrmFailsStep
    DEF SessionStep
  <2>4. ASSUME NEW s \in Sessions, NEW f \in Flows, FetchRecords(s, f) PROVE ImportIInv'
    BY <2>4, CrmFetchStep
  <2>5. ASSUME NEW s \in Sessions, NEW form \in {"ids", "plain"}, NEW stage \in Stages,
               Upload(s, form, stage)
        PROVE  ImportIInv'
    BY <2>5, CrmUploadStep
  <2>6. CASE UNCHANGED importVars
    <3>1. FlowsOK' /\ SessionsOK' /\ TablesOK'
      BY <2>6, CrmParts, FlowsKept, SessionsKept, TablesKept DEF importVars
    <3>2. NoneOpens
      BY <2>6 DEF importVars, NoneOpens, Open
    <3> QED BY <3>1, <3>2, CrmPartsNext, NoneOpensKeeps
  <2> QED BY <2>1, <2>2, <2>3, <2>4, <2>5, <2>6 DEF ImportNext, UserNext, WorkNext
<1> QED BY <1>1, <1>2, PTL DEF ImportSpec

\* A snapshot on record is there with its records, a deal or the company that was given
\* its number first, and a file without ids exactly once: raw.land and
\* importer.import_records in one transaction.
THEOREM OnRecordIsComplete == ImportSpec => []ImportInv
<1>1. ImportIInv => ImportInv
  BY DEF ImportIInv, ImportInv
<1> QED BY <1>1, ImportInvariant, PTL

\* Retries, lost answers, attempts that outlive their timeout and files with ids
\* duplicate no record that has an identifier, whether or not the CRM numbers its
\* companies and deals alike, unless two different snapshots are imported side by side.
THEOREM EachRecordOnce == ImportSpec => []ImportedOnce
<1>1. ImportIInv => ImportedOnce
  BY DEF ImportIInv
<1> QED BY <1>1, ImportInvariant, PTL
=============================================================================
