-------------------------- MODULE IngestionProofs --------------------------
(***************************************************************************)
(* Proofs about messages on their way in: the account's sync, which stores *)
(* them and raises an event for each (AccountSync), and the handlers that  *)
(* make interactions of those events (Ingestion), for any number of items, *)
(* attempts, sources, messages, people and handlers.                       *)
(*                                                                         *)
(* A page lands long after it was fetched; AttemptsSound carries what will *)
(* be stored when it does.                                                 *)
(*                                                                         *)
(* OncePerMessage is not inductive: Commit counts without looking.  IInv   *)
(* adds what the unique key gives a handler that has inserted: it is alone *)
(* with its message and the message is not stored (HandlersSound).         *)
(* ScoresAreComplete rests on RecomputesSound: of two recomputes that      *)
(* write a pair each knows of the other, and whoever stores an interaction *)
(* while another one reads or writes is one of them.                       *)
(***************************************************************************)
EXTENDS AccountSync, Ingestion, TLAPS

-----------------------------------------------------------------------------
(* AccountSync. *)

\* The part of SyncIInv beyond types: it depends on coreVars alone.
Core == cursor <= top /\ AttemptsSound /\ NothingSkipped /\ OneEventPerItem

coreVars == <<scope, cursor, landVars, top, attemptVars, crossed>>

-----------------------------------------------------------------------------
\* The results of sync_once lead the workflow to one of its places.
LEMMA ResultType ==
  ASSUME NEW r \in {"done", "more", "retry", "auth", "lookup"}
  PROVE  AfterSync[r] \in {"none", "checking", "syncing", "sleeping", "stopping"}
BY DEF AfterSync

\* A page is made of items, past the cursor it was fetched from.
LEMMA PageIsItems ==
  ASSUME NEW j \in Jobs
  PROVE  /\ PageItems(j) \subseteq 1 .. MaxItems
         /\ \A n \in Matches[j.scope] : n <= j.next => n <= j.cursor \/ n \in PageItems(j)
<1>1. Matches[j.scope] \subseteq 1 .. MaxItems
  BY ScopesAssumption DEF Jobs
<1> QED BY <1>1, ItemsAssumption DEF PageItems, Jobs, Positions

\* The end of an attempt keeps the types of what it touches.
LEMMA EndsType ==
  ASSUME SyncTypeOK, NEW a \in Attempts,
         NEW r \in {"done", "more", "retry", "auth", "lookup"}, Ends(a, r)
  PROVE  /\ at' \in [Attempts -> {"idle", "refreshing", "fetching", "landing", "denied"}]
         /\ wf' \in {"none", "checking", "syncing", "sleeping", "stopping"}
         /\ current' \in Attempts \cup {NoAttempt}
         /\ starting' = starting
BY ResultType DEF Ends, SyncTypeOK

-----------------------------------------------------------------------------
LEMMA InitType == SyncInit => SyncTypeOK
<1> SUFFICES ASSUME SyncInit PROVE SyncTypeOK
  OBVIOUS
<1>1. cursor \in Positions /\ job \in [Attempts -> Jobs]
  BY ItemsAssumption DEF SyncInit, Positions, Jobs
<1>2. raised \in [1 .. MaxItems -> Nat]
  BY DEF SyncInit
<1>3. valid \subseteq 1 .. grants /\ landed \subseteq 1 .. MaxItems
  BY DEF SyncInit
<1>4. starting \in BOOLEAN /\ crossed \in BOOLEAN /\ gaveUp \in BOOLEAN
  BY DEF SyncInit
<1>5. /\ grants \in Nat \ {0} /\ tokens \in 0 .. grants
      /\ ops \in Nat /\ syncFaults \in Nat
  BY DEF SyncInit
<1>6. /\ status = "active" /\ wf = "none" /\ current = NoAttempt
      /\ scope \in Scopes /\ top \in Positions
      /\ at \in [Attempts -> {"idle", "refreshing", "fetching", "landing", "denied"}]
  BY DEF SyncInit
<1> QED BY <1>1, <1>2, <1>3, <1>4, <1>5, <1>6 DEF SyncTypeOK

\* Every step keeps the types.
LEMMA TypeStep == SyncTypeOK /\ [SyncNext]_syncVars => SyncTypeOK'
<1> SUFFICES ASSUME SyncTypeOK, [SyncNext]_syncVars PROVE SyncTypeOK'
  OBVIOUS
<1> USE DEF rowVars, landVars, sourceVars, attemptVars, flowVars, histVars
<1>1. ASSUME NEW a \in Attempts, Begins(a)
      PROVE  /\ at' \in [Attempts -> {"idle", "refreshing", "fetching", "landing", "denied"}]
             /\ job' \in [Attempts -> Jobs]
  <2>1. [cursor |-> cursor, scope |-> scope, grant |-> tokens, next |-> cursor, done |-> FALSE]
          \in Jobs
    BY DEF SyncTypeOK, Jobs
  <2> QED BY <1>1, <2>1 DEF Begins, SyncTypeOK
<1>2. ASSUME NEW a \in Attempts, StartPage(a) \/ InlineSync(a) PROVE SyncTypeOK'
  <2>1. CASE StartPage(a)
    <3>1. Begins(a)
      BY <2>1 DEF StartPage
    <3> QED BY <2>1, <3>1, <1>1 DEF StartPage, SyncTypeOK
  <2>2. CASE InlineSync(a)
    <3>1. Begins(a)
      BY <2>2 DEF InlineSync
    <3> QED BY <2>2, <3>1, <1>1 DEF InlineSync, SyncTypeOK
  <2> QED BY <1>2, <2>1, <2>2
<1>3. ASSUME NEW a \in Attempts, Refreshed(a) PROVE SyncTypeOK'
  <2>1. tokens' \in 0 .. grants
    BY <1>3 DEF Refreshed, SyncTypeOK, Jobs
  <2> QED BY <1>3, <2>1 DEF Refreshed, SyncTypeOK
<1>4. ASSUME NEW a \in Attempts,
                RefreshDenied(a) \/ RecordDenied(a) \/ LookupFails(a) \/ SyncFails(a)
      PROVE  SyncTypeOK'
  <2>1. PICK r \in {"retry", "auth", "lookup"} : Ends(a, r)
    BY <1>4 DEF RefreshDenied, RecordDenied, LookupFails, SyncFails
  <2> USE <2>1, EndsType
  <2>2. CASE RefreshDenied(a)
    BY <2>2 DEF RefreshDenied, SyncTypeOK
  <2>3. CASE RecordDenied(a)
    BY <2>3 DEF RecordDenied, SyncTypeOK
  <2>4. CASE SyncFails(a)
    BY <2>4 DEF SyncFails, SyncTypeOK
  <2>5. CASE LookupFails(a)
    <3>1. gaveUp' \in BOOLEAN
      BY <2>5 DEF LookupFails
    <3>2. syncFaults' \in Nat
      BY <2>5 DEF LookupFails, SyncTypeOK
    <3> QED BY <2>5, <3>1, <3>2 DEF LookupFails, SyncTypeOK
  <2> QED BY <1>4, <2>2, <2>3, <2>4, <2>5
<1>5. ASSUME NEW a \in Attempts, Fetched(a) PROVE SyncTypeOK'
  <2> DEFINE next == IF job[a].cursor + PageSize <= top THEN job[a].cursor + PageSize ELSE top
  <2>1. job[a] \in Jobs
    BY DEF SyncTypeOK
  <2>2. next \in Positions
    BY <2>1, ItemsAssumption DEF SyncTypeOK, Jobs, Positions
  <2>3. [job[a] EXCEPT !.next = next, !.done = (next = top)] \in Jobs
    BY <2>1, <2>2 DEF Jobs
  <2>4. job' = [job EXCEPT ![a] = [job[a] EXCEPT !.next = next, !.done = (next = top)]]
    BY <1>5 DEF Fetched, SyncTypeOK
  <2>5. job' \in [Attempts -> Jobs]
    BY <2>3, <2>4 DEF SyncTypeOK
  <2> QED BY <1>5, <2>5 DEF Fetched, SyncTypeOK
<1>6. ASSUME NEW a \in Attempts, FetchDenied(a) PROVE SyncTypeOK'
  BY <1>6 DEF FetchDenied, SyncTypeOK
<1>7. ASSUME NEW a \in Attempts, Land(a) PROVE SyncTypeOK'
  <2>1. job[a] \in Jobs
    BY DEF SyncTypeOK
  <2>2. PICK r \in {"done", "more"} : Ends(a, r)
    BY <1>7 DEF Land, Unseen
  <2>3. landed' \subseteq 1 .. MaxItems
    BY <1>7, <2>1, PageIsItems DEF Land, Unseen, SyncTypeOK
  <2>4. raised' \in [1 .. MaxItems -> Nat]
    BY <1>7 DEF Land, Unseen, SyncTypeOK
  <2>5. cursor' \in Positions
    BY <1>7, <2>1 DEF Land, Unseen, Jobs
  <2> QED BY <1>7, <2>2, <2>3, <2>4, <2>5, EndsType DEF Land, Unseen, SyncTypeOK
<1>8. CASE FlowNext
  BY <1>8 DEF FlowNext, StartPageEmpty, CheckStatus, Complete, Wake, SyncTypeOK
<1>9. CASE StartWorkflow \/ StartFails \/ TimesOut
  <2>1. CASE StartWorkflow
    <3>1. gaveUp' \in BOOLEAN
      BY <2>1 DEF StartWorkflow
    <3>2. starting' \in BOOLEAN /\ wf' \in {"none", "checking", "syncing", "sleeping", "stopping"}
      BY <2>1 DEF StartWorkflow, SyncTypeOK
    <3> QED BY <2>1, <3>1, <3>2 DEF StartWorkflow, SyncTypeOK
  <2>2. CASE StartFails
    <3>1. syncFaults' \in Nat
      BY <2>2 DEF StartFails, SyncTypeOK
    <3>2. starting' \in BOOLEAN
      BY <2>2 DEF StartFails
    <3> QED BY <2>2, <3>1, <3>2 DEF StartFails, SyncTypeOK
  <2>3. CASE TimesOut
    BY <2>3 DEF TimesOut, SyncTypeOK
  <2> QED BY <1>9, <2>1, <2>2, <2>3
<1>10. CASE Connect
  BY <1>10 DEF Connect, Op, SyncTypeOK
<1>11. CASE Pause \/ Resume \/ Disconnect \/ SyncNow \/ Withdraw
  <2>1. CASE Pause
    BY <2>1 DEF Pause, Op, SyncTypeOK
  <2>2. CASE Resume
    BY <2>2 DEF Resume, Op, SyncTypeOK
  <2>3. CASE Disconnect
    BY <2>3 DEF Disconnect, Op, SyncTypeOK
  <2>4. CASE SyncNow
    BY <2>4 DEF SyncNow, Op, SyncTypeOK
  <2>5. CASE Withdraw
    BY <2>5 DEF Withdraw, Op, SyncTypeOK
  <2> QED BY <1>11, <2>1, <2>2, <2>3, <2>4, <2>5
<1>12. CASE NewItem
  BY <1>12, ItemsAssumption DEF NewItem, SyncTypeOK, Positions
<1>13. ASSUME NEW s \in Scopes, ChangeScope(s) PROVE SyncTypeOK'
  BY <1>13, ItemsAssumption DEF ChangeScope, Op, SyncTypeOK, Positions
<1>14. CASE UNCHANGED syncVars
  BY <1>14 DEF syncVars, SyncTypeOK
<1> QED BY <1>2, <1>3, <1>4, <1>5, <1>6, <1>7, <1>8, <1>9, <1>10, <1>11, <1>12, <1>13, <1>14
        DEF SyncNext, AttemptNext, AttemptStep, EnvNext

-----------------------------------------------------------------------------
\* Core reads nothing but coreVars.
LEMMA CoreUnchanged == Core /\ UNCHANGED coreVars => Core'
BY DEF Core, coreVars, landVars, attemptVars, AttemptsSound, NothingSkipped,
       PassedAreStored, OneEventPerItem

\* An attempt that ends leaves fewer to be sound.
LEMMA EndsCore ==
  ASSUME SyncTypeOK, Core, NEW a \in Attempts,
         NEW r \in {"done", "more", "retry", "auth", "lookup"}, Ends(a, r),
         UNCHANGED <<scope, cursor, landVars, top, job, crossed>>
  PROVE  Core'
<1>1. AttemptsSound'
  BY DEF Core, AttemptsSound, Ends, SyncTypeOK, landVars
<1> QED BY <1>1 DEF Core, NothingSkipped, PassedAreStored, OneEventPerItem, landVars

\* An attempt that begins believes what the row says.
LEMMA BeginsCore ==
  ASSUME SyncTypeOK, Core, NEW a \in Attempts, Begins(a),
         UNCHANGED <<scope, cursor, landVars, top, crossed>>
  PROVE  Core'
<1>1. AttemptsSound'
  BY DEF Core, AttemptsSound, Begins, SyncTypeOK, NothingSkipped, PassedAreStored, landVars
<1> QED BY <1>1 DEF Core, NothingSkipped, PassedAreStored, OneEventPerItem, landVars

\* A page that lands is stored as the cursor passes it.
LEMMA LandCore ==
  ASSUME SyncTypeOK, Core, NEW a \in Attempts, Land(a)
  PROVE  Core'
<1>1. job[a] \in Jobs /\ at[a] = "landing"
  BY DEF Land, Unseen, SyncTypeOK
<1>2. /\ PageItems(job[a]) \subseteq 1 .. MaxItems
      /\ \A n \in Matches[job[a].scope] :
           n <= job[a].next => n <= job[a].cursor \/ n \in PageItems(job[a])
  BY <1>1, PageIsItems
<1>3. /\ landed' = landed \cup PageItems(job[a]) /\ cursor' = job[a].next
      /\ UNCHANGED <<scope, top, job, crossed>>
  BY DEF Land, Unseen, sourceVars, histVars
<1>4. /\ at'[a] = "idle"
      /\ \A b \in Attempts : b # a => at'[b] = at[b]
  BY DEF Land, Unseen, Ends, SyncTypeOK
<1>5. cursor' <= top'
  BY <1>1, <1>3 DEF Core, AttemptsSound
<1>6. NothingSkipped'
  <2> SUFFICES ASSUME ~ crossed, NEW n \in Matches[scope], n <= job[a].next
               PROVE  n \in landed \cup PageItems(job[a])
    BY <1>3 DEF NothingSkipped, PassedAreStored
  <2>1. job[a].scope = scope /\ {m \in Matches[scope] : m <= job[a].cursor} \subseteq landed
    BY <1>1 DEF Core, AttemptsSound
  <2> QED BY <1>2, <2>1
<1>7. AttemptsSound'
  <2> SUFFICES ASSUME NEW b \in Attempts, at'[b] \in {"refreshing", "fetching", "landing"}
               PROVE  /\ job[b].cursor <= top /\ job[b].next <= top
                      /\ ~ crossed => /\ job[b].scope = scope
                                      /\ {n \in Matches[scope] : n <= job[b].cursor} \subseteq landed'
    BY <1>3 DEF AttemptsSound
  <2>1. at[b] = at'[b]
    BY <1>4
  <2> QED BY <1>3, <2>1 DEF Core, AttemptsSound
<1>8. OneEventPerItem'
  <2> SUFFICES ASSUME NEW n \in 1 .. MaxItems
               PROVE  raised'[n] = IF n \in landed' THEN 1 ELSE 0
    BY DEF OneEventPerItem
  <2>1. raised'[n] = IF n \in PageItems(job[a]) \ landed THEN raised[n] + 1 ELSE raised[n]
    BY DEF Land, Unseen
  <2>2. raised[n] = IF n \in landed THEN 1 ELSE 0
    BY DEF Core, OneEventPerItem
  <2> QED BY <1>3, <2>1, <2>2
<1> QED BY <1>5, <1>6, <1>7, <1>8 DEF Core

\* The steps of one attempt.
LEMMA AttemptCore ==
  ASSUME SyncTypeOK, Core, NEW a \in Attempts, AttemptNext(a)
  PROVE  Core'
<1> USE DEF rowVars, landVars, sourceVars, attemptVars, flowVars, histVars
<1>1. CASE StartPage(a)
  BY <1>1, BeginsCore DEF StartPage
<1>2. CASE InlineSync(a)
  BY <1>2, BeginsCore DEF InlineSync
<1>3. CASE Refreshed(a)
  <2>1. UNCHANGED <<scope, cursor, landVars, top, job, crossed>>
    BY <1>3 DEF Refreshed
  <2>2. AttemptsSound'
    BY <1>3, <2>1 DEF Core, AttemptsSound, Refreshed, SyncTypeOK
  <2> QED BY <2>1, <2>2 DEF Core, NothingSkipped, PassedAreStored, OneEventPerItem
<1>4. CASE RefreshDenied(a)
  BY <1>4, EndsCore DEF RefreshDenied
<1>5. CASE Fetched(a)
  <2>1. UNCHANGED <<scope, cursor, landVars, top, crossed>>
    BY <1>5 DEF Fetched
  <2>2. job[a] \in Jobs /\ job[a].cursor \in Nat /\ top \in Nat
    BY ItemsAssumption DEF SyncTypeOK, Jobs, Positions
  <2>3. /\ job'[a].cursor = job[a].cursor /\ job'[a].scope = job[a].scope
        /\ job'[a].next <= top
        /\ \A b \in Attempts : b # a => job'[b] = job[b]
    BY <1>5, <2>2, ItemsAssumption DEF Fetched, SyncTypeOK, Jobs
  <2>4. AttemptsSound'
    BY <1>5, <2>1, <2>3 DEF Core, AttemptsSound, Fetched, SyncTypeOK
  <2> QED BY <2>1, <2>4 DEF Core, NothingSkipped, PassedAreStored, OneEventPerItem
<1>6. CASE FetchDenied(a)
  <2>1. UNCHANGED <<scope, cursor, landVars, top, job, crossed>>
    BY <1>6 DEF FetchDenied
  <2>2. AttemptsSound'
    BY <1>6, <2>1 DEF Core, AttemptsSound, FetchDenied, SyncTypeOK
  <2> QED BY <2>1, <2>2 DEF Core, NothingSkipped, PassedAreStored, OneEventPerItem
<1>7. CASE RecordDenied(a)
  BY <1>7, EndsCore DEF RecordDenied
<1>8. CASE Land(a)
  BY <1>8, LandCore
<1>9. CASE SyncFails(a)
  BY <1>9, EndsCore DEF SyncFails
<1>10. CASE LookupFails(a)
  BY <1>10, EndsCore DEF LookupFails
<1> QED BY <1>1, <1>2, <1>3, <1>4, <1>5, <1>6, <1>7, <1>8, <1>9, <1>10 DEF AttemptNext, AttemptStep

\* Only a new item and a change of scope reach coreVars from outside.
LEMMA EnvCore ==
  ASSUME SyncTypeOK, Core, FlowNext \/ EnvNext \/ UNCHANGED syncVars
  PROVE  Core'
<1> USE DEF rowVars, landVars, sourceVars, attemptVars, flowVars, histVars
<1>1. CASE FlowNext
  BY <1>1, CoreUnchanged DEF FlowNext, StartPageEmpty, CheckStatus, Complete, Wake, coreVars
<1>2. CASE NewItem
  <2>1. top \in Nat /\ cursor \in Nat /\ \A a \in Attempts : job[a].cursor \in Nat /\ job[a].next \in Nat
    BY ItemsAssumption DEF SyncTypeOK, Positions, Jobs
  <2>2. top' = top + 1 /\ UNCHANGED <<scope, cursor, landed, raised, at, job, crossed>>
    BY <1>2 DEF NewItem
  <2> QED BY <2>1, <2>2 DEF Core, AttemptsSound, NothingSkipped, PassedAreStored, OneEventPerItem
<1>3. CASE \E s \in Scopes : ChangeScope(s)
  <2>1. PICK s \in Scopes : ChangeScope(s)
    BY <1>3
  <2>2. cursor' = 0 /\ scope' = s /\ UNCHANGED <<top, landed, raised, at, job>>
    BY <2>1 DEF ChangeScope
  <2>3. cursor' <= top' /\ PassedAreStored'
    <3>1. Matches[s] \subseteq 1 .. MaxItems /\ top \in Nat
      BY ScopesAssumption, ItemsAssumption DEF SyncTypeOK, Positions
    <3> QED BY <2>2, <3>1, ItemsAssumption DEF PassedAreStored
  <2>4. AttemptsSound'
    <3>1. ASSUME NEW a \in Attempts, at[a] # "idle" PROVE crossed'
      BY <2>1, <3>1 DEF ChangeScope
    <3> QED BY <2>2, <3>1 DEF Core, AttemptsSound
  <2> QED BY <2>2, <2>3, <2>4 DEF Core, NothingSkipped, OneEventPerItem
<1>4. CASE UNCHANGED coreVars
  BY <1>4, CoreUnchanged
<1>5. StartWorkflow \/ StartFails \/ TimesOut => UNCHANGED coreVars
  BY DEF StartWorkflow, StartFails, TimesOut, coreVars
<1>6. Connect \/ Pause \/ Resume \/ Disconnect \/ SyncNow \/ Withdraw => UNCHANGED coreVars
  BY DEF Connect, Pause, Resume, Disconnect, SyncNow, Withdraw, coreVars
<1>7. UNCHANGED syncVars => UNCHANGED coreVars
  BY DEF syncVars, coreVars
<1> QED BY <1>1, <1>2, <1>3, <1>4, <1>5, <1>6, <1>7 DEF EnvNext

-----------------------------------------------------------------------------
\* SyncIInv holds at first and after every step (accounts.sync_once with its
\* overlapping, failing and timed-out attempts, and the users' requests).
THEOREM SyncInvariant == SyncSpec => []SyncIInv
<1>1. SyncInit => SyncIInv
  <2> SUFFICES ASSUME SyncInit PROVE SyncIInv
    OBVIOUS
  <2>1. SyncTypeOK
    BY InitType
  <2>2. cursor <= top
    BY ItemsAssumption DEF SyncInit, Positions
  <2>3. AttemptsSound /\ OneEventPerItem
    BY DEF SyncInit, AttemptsSound, OneEventPerItem
  <2>4. PassedAreStored
    BY ScopesAssumption DEF SyncInit, PassedAreStored
  <2> QED BY <2>1, <2>2, <2>3, <2>4 DEF SyncIInv, NothingSkipped
<1>2. SyncIInv /\ [SyncNext]_syncVars => SyncIInv'
  <2> SUFFICES ASSUME SyncTypeOK, Core, [SyncNext]_syncVars PROVE SyncTypeOK' /\ Core'
    BY DEF SyncIInv, Core
  <2>1. SyncTypeOK'
    BY TypeStep
  <2>2. Core'
    BY AttemptCore, EnvCore DEF SyncNext
  <2> QED BY <2>1, <2>2
<1> QED BY <1>1, <1>2, PTL DEF SyncSpec

\* Every reachable state has the declared types.
THEOREM SyncTypeCorrect == SyncSpec => []SyncTypeOK
<1>1. SyncIInv => SyncTypeOK
  BY DEF SyncIInv
<1> QED BY <1>1, SyncInvariant, PTL

\* "The cursor only advances after the page's items are stored": nothing of the
\* scope that the cursor has passed is missing, unless a scope change met a
\* running attempt.
THEOREM CursorNeverSkips == SyncSpec => []NothingSkipped
<1>1. SyncIInv => NothingSkipped
  BY DEF SyncIInv
<1> QED BY <1>1, SyncInvariant, PTL

\* Re-fetched and overlapping pages raise no second event for an item.
THEOREM RaisedOnce == SyncSpec => []OneEventPerItem
<1>1. SyncIInv => OneEventPerItem
  BY DEF SyncIInv
<1> QED BY <1>1, SyncInvariant, PTL

-----------------------------------------------------------------------------
(* Ingestion. *)

USE SourcesAssumption, MessagesAssumption, SessionsAssumption

-----------------------------------------------------------------------------
(* Types of the operators. *)

LEMMA HandlersAreSessions == Handlers \subseteq Sessions /\ Night \in Sessions
BY DEF Sessions

LEMMA JointType == \A p \in Pairs : Joint(p) \in SUBSET Messages
BY DEF Joint

LEMMA ChoicesType ==
  ASSUME NEW left \in SUBSET Pairs
  PROVE  Choices(left) \subseteq Pairs \cup {NoPair}
BY DEF Choices

LEMMA WritesType == \A s, visible : Writes(s, visible) \in SUBSET Pairs
BY DEF Writes

LEMMA ScoreType == \A s \in Sessions, p \in Pairs : Score(s, p) \in SUBSET Messages
BY JointType DEF Score

\* The state a recompute's query leaves is well typed.
LEMMA ReadsType ==
  ASSUME TypeOK, NEW s \in Sessions, NEW own \in SUBSET Messages, Reads(s, own)
  PROVE  /\ stage' = [stage EXCEPT ![s] = "writing"]
         /\ seen' \in [Sessions -> SUBSET Messages]
         /\ want' \in [Sessions -> Pairs \cup {NoPair}]
         /\ clash' \in [Sessions -> SUBSET Pairs]
         /\ UNCHANGED <<src, done>>
<1> DEFINE visible == (stored \cup own) \ aged
           Meets(t) == IF t # s /\ stage[t] = "writing"
                         THEN Writes(s, visible) \cap Writes(t, seen[t]) ELSE {}
<1>1. visible \in SUBSET Messages
  BY DEF TypeOK
<1>2. seen' \in [Sessions -> SUBSET Messages]
  <2>1. seen' = [seen EXCEPT ![s] = visible]
    BY DEF Reads
  <2> QED BY <1>1, <2>1 DEF TypeOK
<1>3. want' \in [Sessions -> Pairs \cup {NoPair}]
  <2>1. PICK p \in Choices(Writes(s, visible)) : want' = [want EXCEPT ![s] = p]
    BY DEF Reads
  <2>2. p \in Pairs \cup {NoPair}
    BY WritesType, ChoicesType
  <2> QED BY <2>1, <2>2 DEF TypeOK
<1>4. clash' \in [Sessions -> SUBSET Pairs]
  <2>1. \A t : Meets(t) \in SUBSET Pairs
    BY WritesType
  <2>2. clash' = [t \in Sessions |->
                    IF t = s THEN UNION {Meets(u) : u \in Sessions} ELSE clash[t] \cup Meets(t)]
    BY DEF Reads
  <2> HIDE DEF Meets
  <2>3. UNION {Meets(u) : u \in Sessions} \in SUBSET Pairs
    BY <2>1
  <2> QED BY <2>1, <2>2, <2>3 DEF TypeOK
<1> QED
  BY <1>2, <1>3, <1>4 DEF Reads

LEMMA ClosesType ==
  ASSUME TypeOK, NEW s \in Sessions, NEW next \in {"idle", "done"}, Closes(s, next)
  PROVE  /\ stage' = [stage EXCEPT ![s] = next]
         /\ stage' \in [Sessions -> {"idle", "handling", "inserted", "writing", "done"}]
         /\ seen' \in [Sessions -> SUBSET Messages]
         /\ done' \in [Sessions -> SUBSET Pairs]
         /\ want' \in [Sessions -> Pairs \cup {NoPair}]
         /\ clash' \in [Sessions -> SUBSET Pairs]
BY DEF Closes, TypeOK

LEMMA ApplyType ==
  ASSUME TypeOK, NEW s \in Sessions, Apply(s)
  PROVE  edge' \in [Pairs -> SUBSET Messages] /\ raced' \in SUBSET Pairs
<1>1. \A p \in Pairs : (IF p \in done[s] THEN Score(s, p) ELSE edge[p]) \in SUBSET Messages
  BY ScoreType DEF TypeOK
<1> QED
  BY <1>1 DEF Apply, TypeOK

-----------------------------------------------------------------------------
(* The steps. *)

LEMMA InitInv == Init => IInv
<1> SUFFICES ASSUME Init PROVE IInv
  OBVIOUS
<1>1. TypeOK
  BY JointType, BoundsAssumption DEF Init, TypeOK
<1>2. OncePerMessage /\ AckedIsProcessed
  BY DEF Init, OncePerMessage, AckedIsProcessed
<1>3. HandlersSound
  BY HandlersAreSessions DEF Init, HandlersSound
<1> QED
  BY <1>1, <1>2, <1>3 DEF IInv

\* Steps that move no session between its stages, or leave the handlers alone.
LEMMA SameStages ==
  ASSUME IInv, TypeOK', UNCHANGED <<stored, parts, resolved, acked, dlq, src>>,
         \A h \in Handlers : stage'[h] = stage[h]
  PROVE  IInv'
<1>1. OncePerMessage' /\ AckedIsProcessed'
  BY DEF IInv, OncePerMessage, AckedIsProcessed
<1>2. HandlersSound'
  BY DEF IInv, HandlersSound, InFlight
<1> QED
  BY <1>1, <1>2 DEF IInv

LEMMA UpsertInv ==
  ASSUME IInv, NEW s \in Sessions, Upsert(s)
  PROVE  IInv'
<1> USE DEF Upsert, graphVars, busVars
<1>1. want[s] \in Pairs
  BY DEF IInv, TypeOK
<1>2. PICK p \in Choices(Writes(s, seen[s]) \ done'[s]) : want' = [want EXCEPT ![s] = p]
  OBVIOUS
<1>3. p \in Pairs \cup {NoPair}
  BY WritesType, ChoicesType
<1>4. done' \in [Sessions -> SUBSET Pairs]
  BY <1>1 DEF IInv, TypeOK
<1>5. TypeOK'
  BY <1>2, <1>3, <1>4 DEF IInv, TypeOK
<1> QED
  BY <1>5, SameStages

LEMMA DeliverInv ==
  ASSUME IInv, NEW h \in Handlers, NEW e \in Sources, Deliver(h, e)
  PROVE  IInv'
<1> USE HandlersAreSessions DEF Deliver, Fault, graphVars, busVars, scoreVars
<1>1. TypeOK'
  BY BoundsAssumption DEF IInv, TypeOK
<1>2. OncePerMessage' /\ AckedIsProcessed'
  BY DEF IInv, OncePerMessage, AckedIsProcessed
<1>3. HandlersSound'
  BY DEF IInv, TypeOK, HandlersSound, InFlight
<1> QED
  BY <1>1, <1>2, <1>3 DEF IInv

LEMMA SkipInv ==
  ASSUME IInv, NEW h \in Handlers, Skip(h)
  PROVE  IInv'
<1> USE HandlersAreSessions DEF Skip, graphVars, busVars
<1>1. stage' = [stage EXCEPT ![h] = "done"] /\ TypeOK'
  BY ClosesType DEF IInv, TypeOK
<1>2. OncePerMessage' /\ AckedIsProcessed'
  BY DEF IInv, OncePerMessage, AckedIsProcessed
<1>3. HandlersSound'
  BY <1>1 DEF IInv, TypeOK, HandlersSound, InFlight
<1> QED
  BY <1>1, <1>2, <1>3 DEF IInv

\* The unique key: whoever inserts is alone with a message that is not stored.
LEMMA InsertInv ==
  ASSUME IInv, NEW h \in Handlers, Insert(h)
  PROVE  IInv'
<1> USE HandlersAreSessions DEF Insert, graphVars, busVars, scoreVars
<1>1. TypeOK'
  BY DEF IInv, TypeOK
<1>2. OncePerMessage' /\ AckedIsProcessed'
  BY DEF IInv, OncePerMessage, AckedIsProcessed
<1>3. HandlersSound'
  BY DEF IInv, TypeOK, HandlersSound, InFlight
<1> QED
  BY <1>1, <1>2, <1>3 DEF IInv

LEMMA RecomputeInv ==
  ASSUME IInv, NEW h \in Handlers, Recompute(h)
  PROVE  IInv'
<1> USE HandlersAreSessions DEF Recompute, graphVars, busVars
<1>1. {Of[src[h]]} \in SUBSET Messages
  BY DEF IInv, HandlersSound
<1>2. /\ stage' = [stage EXCEPT ![h] = "writing"]
      /\ UNCHANGED <<src, done>> /\ TypeOK'
  BY <1>1, ReadsType DEF IInv, TypeOK
<1>3. OncePerMessage' /\ AckedIsProcessed'
  BY <1>2 DEF IInv, OncePerMessage, AckedIsProcessed
<1>4. HandlersSound'
  BY <1>2 DEF IInv, TypeOK, HandlersSound, InFlight
<1> QED
  BY <1>2, <1>3, <1>4 DEF IInv

\* A commit counts a message for the first time, and takes no other handler's.
LEMMA CommitInv ==
  ASSUME IInv, NEW h \in Handlers, Commit(h)
  PROVE  IInv'
<1> USE HandlersAreSessions DEF Commit, busVars
<1> DEFINE m == Of[src[h]]
<1>1. m \in Messages /\ m \notin stored /\ ~ InFlight(h)
  BY DEF IInv, HandlersSound
<1>2. stage' = [stage EXCEPT ![h] = "done"]
  BY ClosesType DEF IInv
<1>3. TypeOK'
  BY <1>1, ClosesType, ApplyType DEF IInv, TypeOK
<1>4. OncePerMessage'
  BY <1>1 DEF IInv, TypeOK, OncePerMessage
<1>5. AckedIsProcessed'
  BY DEF IInv, AckedIsProcessed
<1>6. HandlersSound'
  <2>1. \A g \in Handlers : stage'[g] # "idle" => src'[g] \in Sources
    BY <1>2 DEF IInv, TypeOK, HandlersSound
  <2>2. ASSUME NEW g \in Handlers, stage'[g] \in {"inserted", "writing"}
        PROVE  /\ Of[src'[g]] \notin stored' /\ Of[src'[g]] \notin Dropped
               /\ ~ InFlight(g)'
    <3>1. g # h /\ stage[g] \in {"inserted", "writing"}
      BY <1>2, <2>2 DEF IInv, TypeOK
    <3>2. Of[src[g]] # m
      BY <1>1, <3>1 DEF InFlight
    <3>3. Of[src[g]] \notin stored /\ Of[src[g]] \notin Dropped /\ ~ InFlight(g)
      BY <3>1 DEF IInv, HandlersSound
    <3>4. ~ InFlight(g)'
      BY <1>2, <3>3 DEF InFlight, IInv, TypeOK
    <3> QED BY <3>2, <3>3, <3>4
  <2>3. \A g \in Handlers : stage'[g] = "done" =>
          Of[src'[g]] \in stored' \cup Dropped \/ src'[g] \in dlq'
    BY <1>2 DEF IInv, TypeOK, HandlersSound
  <2> QED BY <2>1, <2>2, <2>3 DEF HandlersSound
<1> QED
  BY <1>3, <1>4, <1>5, <1>6 DEF IInv

\* A handler's transaction rolls back; its event is dead-lettered or comes again.
LEMMA RollbackInv ==
  ASSUME IInv, NEW h \in Handlers, stage[h] # "idle",
         \/ Closes(h, "done") /\ dlq' = dlq \cup {src[h]}
         \/ Closes(h, "idle") /\ dlq' = dlq,
         faults' \in Nat,
         UNCHANGED <<graphVars, aged, acked, src, raced>>
  PROVE  IInv'
<1> USE HandlersAreSessions DEF graphVars
<1>1. src[h] \in Sources
  BY DEF IInv, HandlersSound
<1>2. TypeOK' /\ \A g \in Handlers \ {h} : stage'[g] = stage[g]
  BY <1>1, ClosesType DEF IInv, TypeOK
<1>3. OncePerMessage' /\ AckedIsProcessed'
  BY DEF IInv, OncePerMessage, AckedIsProcessed
<1>4. \/ stage'[h] = "done" /\ src[h] \in dlq'
      \/ stage'[h] = "idle"
  BY <1>1, ClosesType DEF IInv, TypeOK
<1>5. HandlersSound'
  BY <1>1, <1>2, <1>4 DEF IInv, HandlersSound, InFlight
<1> QED
  BY <1>2, <1>3, <1>5 DEF IInv

LEMMA AckInv ==
  ASSUME IInv, NEW h \in Handlers, Ack(h)
  PROVE  IInv'
<1> USE HandlersAreSessions DEF Ack, graphVars, scoreVars
<1>1. src[h] \in Sources /\ (Of[src[h]] \in stored \cup Dropped \/ src[h] \in dlq)
  BY DEF IInv, HandlersSound
<1>2. TypeOK'
  BY <1>1 DEF IInv, TypeOK
<1>3. OncePerMessage' /\ AckedIsProcessed'
  BY <1>1 DEF IInv, OncePerMessage, AckedIsProcessed
<1>4. HandlersSound'
  BY DEF IInv, TypeOK, HandlersSound, InFlight
<1> QED
  BY <1>2, <1>3, <1>4 DEF IInv

\* The nightly run touches scores only.
LEMMA NightInv ==
  ASSUME IInv, NightReads \/ NightCommits \/ NightFails \/ Victim(Night)
  PROVE  IInv'
<1> USE HandlersAreSessions, BoundsAssumption DEF graphVars, busVars, Fault
<1>1. CASE NightReads
  <2>1. TypeOK' /\ stage' = [stage EXCEPT ![Night] = "writing"] /\ UNCHANGED <<src, done>>
    BY <1>1, ReadsType DEF NightReads, IInv, TypeOK
  <2> QED BY <1>1, <2>1, SameStages DEF NightReads, IInv, TypeOK
<1>2. CASE NightCommits
  <2>1. TypeOK' /\ stage' = [stage EXCEPT ![Night] = "idle"]
    BY <1>2, ClosesType, ApplyType DEF NightCommits, IInv, TypeOK
  <2> QED BY <1>2, <2>1, SameStages DEF NightCommits, IInv, TypeOK
<1>3. CASE NightFails \/ Victim(Night)
  <2>1. /\ Closes(Night, "idle")
        /\ UNCHANGED <<stored, parts, resolved, edge, aged, acked, dlq, src, raced>>
        /\ faults' \in Nat
    BY <1>3 DEF NightFails, Victim, IInv, TypeOK
  <2>2. TypeOK' /\ stage' = [stage EXCEPT ![Night] = "idle"]
    BY <2>1, ClosesType DEF IInv, TypeOK
  <2> QED BY <2>1, <2>2, SameStages DEF IInv, TypeOK
<1> QED
  BY <1>1, <1>2, <1>3

LEMMA AgeInv ==
  ASSUME IInv, NEW m \in Messages, Age(m)
  PROVE  IInv'
<1>1. TypeOK'
  BY DEF Age, graphVars, busVars, sessionVars, IInv, TypeOK
<1> QED
  BY <1>1, SameStages DEF Age, graphVars, busVars, sessionVars

-----------------------------------------------------------------------------
\* The resolver's invariant, under any redelivery, overlap, failure and deadlock.
THEOREM InductiveInvariant == Spec => []IInv
<1>1. Init => IInv
  BY InitInv
<1>2. IInv /\ [Next]_vars => IInv'
  <2> SUFFICES ASSUME IInv, [Next]_vars PROVE IInv'
    OBVIOUS
  <2>1. ASSUME NEW h \in Handlers, Victim(h) \/ Fails(h) \/ Crash(h) PROVE IInv'
    <3>1. stage[h] # "idle" /\ faults' \in Nat
      <4>1. CASE Victim(h)
        BY <4>1 DEF Victim, IInv, TypeOK
      <4>2. CASE Fails(h) \/ Crash(h)
        BY <4>2, BoundsAssumption DEF Fails, Crash, Fault, IInv, TypeOK
      <4> QED BY <2>1, <4>1, <4>2
    <3> QED
      BY <2>1, <3>1, RollbackInv DEF Victim, Fails, Crash, busVars
  <2>2. ASSUME NEW h \in Handlers, HandlerStep(h) PROVE IInv'
    BY <2>1, <2>2, HandlersAreSessions, SkipInv, InsertInv, RecomputeInv, UpsertInv, CommitInv, AckInv
       DEF HandlerStep
  <2>3. ASSUME NEW h \in Handlers, NEW e \in Sources, Deliver(h, e) PROVE IInv'
    BY <2>3, DeliverInv
  <2>4. CASE NightStep \/ NightFails
    BY <2>4, HandlersAreSessions, NightInv, UpsertInv DEF NightStep
  <2>5. ASSUME NEW m \in Messages, Age(m) PROVE IInv'
    BY <2>5, AgeInv
  <2>6. CASE UNCHANGED vars
    <3>1. TypeOK'
      BY <2>6 DEF vars, IInv, TypeOK
    <3> QED BY <2>6, <3>1, SameStages DEF vars
  <2> QED
    BY <2>1, <2>2, <2>3, <2>4, <2>5, <2>6 DEF Next
<1> QED
  BY <1>1, <1>2, PTL DEF Spec

\* "Replaying an event is harmless": one interaction, one set of participants and
\* one resolved event per message, whatever is delivered how often and to whom.
THEOREM ProcessedOnce == Spec => []OncePerMessage
BY InductiveInvariant, PTL DEF IInv

\* Nothing is acknowledged in reliance on another handler's open transaction.
THEOREM NothingDropped == Spec => []AckedIsProcessed
BY InductiveInvariant, PTL DEF IInv

-----------------------------------------------------------------------------
(* Scores.  What makes ScoresAreComplete inductive is RecomputesSound: of two      *)
(* recomputes that write a pair, each knows of the other (clash).                 *)

Scores == RecomputesSound /\ ScoresAreComplete

LEMMA PairsHavePeople == \A p \in Pairs : p # {}
BY DEF Pairs

LEMMA WrittenType == \A s : Written(s) \in SUBSET Pairs
BY WritesType DEF Written

\* A pair some of whose people are wanted is written if one of its interactions
\* was read; its score then stands for all of those that were.
LEMMA WrittenPairs ==
  ASSUME NEW s \in Sessions, NEW p \in Pairs, p \cap Wanted(s) # {}
  PROVE  /\ Joint(p) \cap seen[s] # {} => p \in Written(s)
         /\ Score(s, p) = Joint(p) \cap seen[s]
<1>1. \A x \in Joint(p) : People[x] \cap Wanted(s) # {}
  BY DEF Joint
<1>2. Score(s, p) = Joint(p) \cap seen[s]
  BY <1>1 DEF Score, Selected
<1>3. ASSUME NEW x \in Joint(p) \cap seen[s] PROVE p \in Written(s)
  BY <1>1, <1>3 DEF Written, Writes, Selected
<1> QED BY <1>2, <1>3

\* A handler writes all pairs of its own message, if it is in the window.
LEMMA OwnPairs ==
  ASSUME NEW s \in Sessions, NEW m \in Own(s), NEW p \in Pairs, m \in Joint(p), m \in seen[s]
  PROVE  p \in Written(s)
<1>1. s # Night /\ m = Of[src[s]] /\ p \subseteq People[m]
  BY DEF Own, Joint
<1>2. p # {}
  BY PairsHavePeople
<1>3. p \cap Wanted(s) # {}
  BY <1>1, <1>2 DEF Wanted
<1> QED BY <1>3, WrittenPairs

\* What a recompute does is settled by what it has read and for whom.
LEMMA SameWrites ==
  ASSUME NEW s \in Sessions, src'[s] = src[s], seen'[s] = seen[s]
  PROVE  Written(s)' = Written(s) /\ Own(s)' = Own(s)
BY DEF Written, Writes, Selected, Wanted, Joint, Own

LEMMA ScoresInit == Init => Scores
<1> SUFFICES ASSUME Init PROVE Scores
  OBVIOUS
<1>1. RecomputesSound
  BY DEF Init, RecomputesSound
<1>2. ScoresAreComplete
  BY DEF Init, ScoresAreComplete, Fresh
<1> QED BY <1>1, <1>2 DEF Scores

\* Steps of a session that is not recomputing afterwards and commits no score.
LEMMA AwayKeepsScores ==
  ASSUME Scores, NEW s \in Sessions, stage'[s] # "writing", done'[s] = {},
         \A t \in Sessions \ {s} :
           /\ stage'[t] = stage[t] /\ src'[t] = src[t] /\ seen'[t] = seen[t]
           /\ done'[t] = done[t] /\ want'[t] = want[t] /\ clash'[t] = clash[t],
         UNCHANGED <<stored, edge, aged, raced>>
  PROVE  Scores'
<1>1. \A p : Fresh(p)' = Fresh(p)
  BY DEF Fresh, Joint
<1>2. \A t \in Sessions \ {s} : Written(t)' = Written(t) /\ Own(t)' = Own(t)
  BY SameWrites
<1>3. RecomputesSound'
  BY <1>1, <1>2 DEF Scores, RecomputesSound
<1>4. ScoresAreComplete'
  BY <1>1 DEF Scores, ScoresAreComplete, Joint
<1> QED BY <1>3, <1>4 DEF Scores

\* A query sees all that is committed, and meets the recomputes under way.
LEMMA ReadsKeepsScores ==
  ASSUME IInv, Scores, NEW s \in Sessions, stage[s] # "writing", Reads(s, Own(s)),
         UNCHANGED <<stored, edge, aged, raced>>
  PROVE  Scores'
<1> DEFINE visible == (stored \cup Own(s)) \ aged
           Meets(t) == IF t # s /\ stage[t] = "writing"
                         THEN Writes(s, visible) \cap Writes(t, seen[t]) ELSE {}
<1>1. /\ stage' = [stage EXCEPT ![s] = "writing"]
      /\ seen'  = [seen EXCEPT ![s] = visible]
      /\ \E p \in Choices(Writes(s, visible)) : want' = [want EXCEPT ![s] = p]
      /\ clash' = [t \in Sessions |->
                     IF t = s THEN UNION {Meets(u) : u \in Sessions} ELSE clash[t] \cup Meets(t)]
      /\ UNCHANGED <<src, done>>
  BY DEF Reads
<1>2. /\ stage'[s] = "writing" /\ seen'[s] = visible /\ want'[s] \in Choices(Writes(s, visible))
      /\ \A t \in Sessions \ {s} : stage'[t] = stage[t] /\ seen'[t] = seen[t] /\ want'[t] = want[t]
      /\ done'[s] = {}
  BY <1>1 DEF IInv, TypeOK, Scores, RecomputesSound
<1>3. \A p : Fresh(p)' = Fresh(p)
  BY DEF Fresh, Joint
<1>4. \A t \in Sessions \ {s} : Written(t)' = Written(t) /\ Own(t)' = Own(t)
  BY <1>1, <1>2, SameWrites
<1>5. Written(s)' = Writes(s, visible) /\ Own(s)' = Own(s)
  <2>1. PICK v : v = visible
    OBVIOUS
  <2>2. Writes(s, v)' = Writes(s, v)
    BY <1>1 DEF Writes, Selected, Wanted, Joint
  <2>3. Written(s)' = Writes(s, v)'
    BY <1>2, <2>1 DEF Written, Writes, Selected
  <2> QED BY <1>1, <2>1, <2>2, <2>3 DEF Own
<1>6. \A t \in Sessions \ {s} : stage[t] = "writing" =>
        /\ Writes(s, visible) \cap Written(t) \subseteq clash'[s]
        /\ Writes(s, visible) \cap Written(t) \subseteq clash'[t]
  <2>1. ASSUME NEW t \in Sessions \ {s}, stage[t] = "writing"
        PROVE  Meets(t) = Writes(s, visible) \cap Written(t) /\ Meets(t) \subseteq clash'[s] /\ Meets(t) \subseteq clash'[t]
    BY <1>1, <2>1 DEF Written
  <2> QED BY <2>1
<1>7. \A t \in Sessions \ {s} : clash[t] \subseteq clash'[t]
  BY <1>1
<1> HIDE DEF visible, Meets
<1>8. RecomputesSound'
  <2>1. /\ visible \subseteq stored \cup Own(s) /\ Own(s) \subseteq visible \cup aged
        /\ \A p : Fresh(p) \subseteq visible
    BY DEF visible, Fresh
  <2>2. \A t \in Sessions \ {s} : done'[t] = done[t]
    BY <1>1
  <2>3. /\ stage'[s] = "writing" /\ seen'[s] \subseteq stored' \cup Own(s)'
        /\ Own(s)' \subseteq seen'[s] \cup aged'
        /\ done'[s] \subseteq Written(s)' /\ want'[s] \in Choices(Written(s)' \ done'[s])
        /\ \A p : Fresh(p)' \subseteq seen'[s]
        /\ \A t \in Sessions \ {s} : stage'[t] = "writing" => Written(s)' \cap Written(t)' \subseteq clash'[s]
    <3>1. Written(s)' \ done'[s] = Writes(s, visible)
      BY <1>2, <1>5
    <3> QED BY <3>1, <2>1, <1>2, <1>3, <1>4, <1>5, <1>6
  <2>4. ASSUME NEW t \in Sessions \ {s}
        PROVE  /\ stage'[t] # "writing" => done'[t] = {}
               /\ stage'[t] = "writing" =>
                    /\ seen'[t] \subseteq stored' \cup Own(t)' /\ Own(t)' \subseteq seen'[t] \cup aged'
                    /\ done'[t] \subseteq Written(t)' /\ want'[t] \in Choices(Written(t)' \ done'[t])
                    /\ \A p \in Written(t)' \ clash'[t] : Fresh(p)' \subseteq seen'[t]
                    /\ \A u \in Sessions \ {t} : stage'[u] = "writing" => Written(t)' \cap Written(u)' \subseteq clash'[t]
    <3>1. Written(t)' = Written(t) /\ Own(t)' = Own(t)
      BY <1>4
    <3>2. /\ stage'[t] # "writing" => done'[t] = {}
          /\ stage'[t] = "writing" =>
                    /\ seen'[t] \subseteq stored' \cup Own(t)' /\ Own(t)' \subseteq seen'[t] \cup aged'
                    /\ done'[t] \subseteq Written(t)' /\ want'[t] \in Choices(Written(t)' \ done'[t])
      BY <3>1, <2>2, <1>2 DEF Scores, RecomputesSound
    <3>3. stage'[t] = "writing" => \A p \in Written(t)' \ clash'[t] : Fresh(p)' \subseteq seen'[t]
      BY <3>1, <1>2, <1>3, <1>7 DEF Scores, RecomputesSound
    <3>4. ASSUME NEW u \in Sessions \ {t}, stage'[t] = "writing", stage'[u] = "writing"
          PROVE  Written(t)' \cap Written(u)' \subseteq clash'[t]
      <4>1. CASE u = s
        BY <4>1, <3>1, <3>4, <1>2, <1>5, <1>6
      <4>2. CASE u # s
        BY <4>2, <3>1, <3>4, <1>2, <1>4, <1>7 DEF Scores, RecomputesSound
      <4> QED BY <4>1, <4>2
    <3> QED BY <3>2, <3>3, <3>4
  <2> QED BY <2>3, <2>4 DEF RecomputesSound
<1>9. ScoresAreComplete'
  BY <1>3 DEF Scores, ScoresAreComplete, Joint
<1> QED BY <1>8, <1>9 DEF Scores

\* An upsert is of a pair that is to be written.
LEMMA UpsertKeepsScores ==
  ASSUME IInv, Scores, NEW s \in Sessions, Upsert(s)
  PROVE  Scores'
<1>1. /\ UNCHANGED <<stored, edge, aged, raced, stage, src, seen, clash>>
      /\ stage[s] = "writing" /\ want[s] # NoPair
      /\ done' = [done EXCEPT ![s] = @ \cup {want[s]}]
      /\ \E p \in Choices(Written(s) \ done'[s]) : want' = [want EXCEPT ![s] = p]
  BY DEF Upsert, graphVars, Written
<1>2. want[s] \in Written(s)
  BY <1>1 DEF Scores, RecomputesSound, Choices
<1>3. /\ done'[s] \subseteq Written(s) /\ want'[s] \in Choices(Written(s) \ done'[s])
      /\ \A t \in Sessions \ {s} : done'[t] = done[t] /\ want'[t] = want[t]
  BY <1>1, <1>2 DEF IInv, TypeOK, Scores, RecomputesSound
<1>4. \A p : Fresh(p)' = Fresh(p)
  BY <1>1 DEF Fresh, Joint
<1>5. \A t \in Sessions : Written(t)' = Written(t) /\ Own(t)' = Own(t)
  BY <1>1, SameWrites
<1>6. RecomputesSound'
  <2>1. \A t \in Sessions : stage'[t] = "writing" =>
          done'[t] \subseteq Written(t)' /\ want'[t] \in Choices(Written(t)' \ done'[t])
    BY <1>1, <1>3, <1>5 DEF Scores, RecomputesSound
  <2>2. \A t \in Sessions : stage'[t] # "writing" => done'[t] = {}
    BY <1>1, <1>3 DEF Scores, RecomputesSound
  <2> QED BY <2>1, <2>2, <1>1, <1>4, <1>5 DEF Scores, RecomputesSound
<1>7. ScoresAreComplete'
  BY <1>1, <1>4 DEF Scores, ScoresAreComplete, Joint
<1> QED BY <1>6, <1>7 DEF Scores

\* A commit: what it stores is in the pairs it writes, and whoever else writes one
\* of them has met it.
LEMMA ApplyKeepsScores ==
  ASSUME IInv, Scores, NEW s \in Sessions, NEW next \in {"idle", "done"},
         stage[s] = "writing", want[s] = NoPair, Apply(s), Closes(s, next),
         stored' = stored \cup Own(s), UNCHANGED <<aged, src>>
  PROVE  Scores'
<1>1. /\ edge'  = [p \in Pairs |-> IF p \in done[s] THEN Score(s, p) ELSE edge[p]]
      /\ raced' = (raced \ done[s]) \cup clash[s]
      /\ stage' = [stage EXCEPT ![s] = next] /\ seen' = [seen EXCEPT ![s] = {}]
      /\ done' = [done EXCEPT ![s] = {}] /\ want' = [want EXCEPT ![s] = NoPair]
      /\ clash' = [clash EXCEPT ![s] = {}]
  BY DEF Apply, Closes
<1>2. /\ stage'[s] = next /\ next # "writing" /\ done'[s] = {}
      /\ \A t \in Sessions \ {s} :
           /\ stage'[t] = stage[t] /\ src'[t] = src[t] /\ seen'[t] = seen[t]
           /\ done'[t] = done[t] /\ want'[t] = want[t] /\ clash'[t] = clash[t]
  BY <1>1 DEF IInv, TypeOK
<1>3. /\ done[s] = Written(s)
      /\ seen[s] \subseteq stored' /\ Own(s) \subseteq seen[s] \cup aged
  <2>1. Written(s) \ done[s] = {}
    BY WrittenType, NoPairAssumption DEF Scores, RecomputesSound, Choices
  <2> QED BY <2>1 DEF Scores, RecomputesSound
<1>4. \A t \in Sessions \ {s} : Written(t)' = Written(t) /\ Own(t)' = Own(t)
  BY <1>2, SameWrites
\* what is new in the window is in no pair but those written
<1>5. ASSUME NEW p \in Pairs, NEW x \in Fresh(p)', x \notin Fresh(p)
      PROVE  x \in Own(s) \cap seen[s] /\ p \in Written(s)
  <2>1. x \in Own(s) /\ x \in Joint(p) /\ x \notin aged
    BY <1>5 DEF Fresh, Joint
  <2> QED BY <2>1, <1>3, OwnPairs
<1>6. RecomputesSound'
  <2>1. ASSUME NEW t \in Sessions \ {s}, stage[t] = "writing", NEW p \in Written(t) \ clash[t]
        PROVE  Fresh(p)' \subseteq seen[t]
    <3>1. p \in Pairs /\ p \notin Written(s)
      BY <2>1, WrittenType DEF Scores, RecomputesSound
    <3>2. Fresh(p) \subseteq seen[t]
      BY <2>1 DEF Scores, RecomputesSound
    <3>3. Fresh(p)' \subseteq Fresh(p)
      BY <3>1, <1>5
    <3> QED BY <3>2, <3>3
  <2>2. ASSUME NEW t \in Sessions \ {s}, stage'[t] = "writing"
        PROVE  /\ seen'[t] \subseteq stored' \cup Own(t)' /\ Own(t)' \subseteq seen'[t] \cup aged'
               /\ done'[t] \subseteq Written(t)' /\ want'[t] \in Choices(Written(t)' \ done'[t])
               /\ \A p \in Written(t)' \ clash'[t] : Fresh(p)' \subseteq seen'[t]
               /\ \A u \in Sessions \ {t} : stage'[u] = "writing" => Written(t)' \cap Written(u)' \subseteq clash'[t]
    <3>1. Written(t)' = Written(t) /\ Own(t)' = Own(t) /\ stage[t] = "writing"
      BY <2>2, <1>2, <1>4
    <3>2. /\ seen'[t] \subseteq stored' \cup Own(t)' /\ Own(t)' \subseteq seen'[t] \cup aged'
          /\ done'[t] \subseteq Written(t)' /\ want'[t] \in Choices(Written(t)' \ done'[t])
      <4>1. /\ seen[t] \subseteq stored \cup Own(t) /\ Own(t) \subseteq seen[t] \cup aged
            /\ done[t] \subseteq Written(t) /\ want[t] \in Choices(Written(t) \ done[t])
        BY <3>1 DEF Scores, RecomputesSound
      <4>2. Written(t)' \ done'[t] = Written(t) \ done[t]
        BY <3>1, <1>2
      <4> QED BY <4>1, <4>2, <3>1, <1>2
    <3>3. \A p \in Written(t)' \ clash'[t] : Fresh(p)' \subseteq seen'[t]
      BY <3>1, <1>2, <2>1
    <3>4. ASSUME NEW u \in Sessions \ {t}, stage'[u] = "writing"
          PROVE  Written(t)' \cap Written(u)' \subseteq clash'[t]
      <4>1. u # s /\ stage[u] = "writing" /\ Written(u)' = Written(u)
        BY <3>4, <1>2, <1>4
      <4> QED BY <4>1, <3>1, <1>2 DEF Scores, RecomputesSound
    <3> QED BY <3>2, <3>3, <3>4
  <2>3. \A t \in Sessions : stage'[t] # "writing" => done'[t] = {}
    BY <1>2 DEF Scores, RecomputesSound
  <2> QED BY <2>2, <2>3, <1>2 DEF RecomputesSound
<1>7. ScoresAreComplete'
  <2>1. ASSUME NEW p \in Pairs, p \in Written(s)
        PROVE  edge'[p] \subseteq Joint(p) \cap stored' /\ (p \notin raced' => Fresh(p)' \subseteq edge'[p])
    <3>1. p \cap Wanted(s) # {}
      BY <2>1 DEF Written, Writes
    <3>2. edge'[p] = Joint(p) \cap seen[s]
      BY <2>1, <3>1, <1>1, <1>3, WrittenPairs
    <3>3. p \notin raced' => Fresh(p) \subseteq seen[s]
      BY <2>1, <1>1, <1>3 DEF Scores, RecomputesSound
    <3>4. Fresh(p)' \subseteq Joint(p)
      BY DEF Fresh, Joint
    <3>5. Fresh(p)' \subseteq Fresh(p) \cup (Own(s) \cap seen[s])
      BY <1>5
    <3> QED BY <3>2, <3>3, <3>4, <3>5, <1>3
  <2>2. ASSUME NEW p \in Pairs, p \notin Written(s)
        PROVE  edge'[p] \subseteq Joint(p) \cap stored' /\ (p \notin raced' => Fresh(p)' \subseteq edge'[p])
    <3>1. edge'[p] = edge[p] /\ (p \notin raced' => p \notin raced)
      BY <2>2, <1>1, <1>3
    <3>2. Fresh(p)' \subseteq Fresh(p)
      BY <2>2, <1>5
    <3>3. edge[p] \subseteq Joint(p) \cap stored /\ (p \notin raced => Fresh(p) \subseteq edge[p])
      BY DEF Scores, ScoresAreComplete
    <3> QED BY <3>1, <3>2, <3>3
  <2>3. \A p : Joint(p)' = Joint(p)
    BY DEF Joint
  <2> QED BY <2>1, <2>2, <2>3 DEF ScoresAreComplete
<1> QED BY <1>6, <1>7 DEF Scores

\* What leaves the window only makes less to stand for.
LEMMA AgeKeepsScores ==
  ASSUME Scores, NEW m \in Messages, Age(m)
  PROVE  Scores'
<1>1. /\ UNCHANGED <<stored, edge, raced, stage, src, seen, done, want, clash>>
      /\ aged' = aged \cup {m}
  BY DEF Age, graphVars, sessionVars
<1>2. \A p : Fresh(p)' \subseteq Fresh(p)
  BY <1>1 DEF Fresh, Joint
<1>3. \A t \in Sessions : Written(t)' = Written(t) /\ Own(t)' = Own(t)
  BY <1>1, SameWrites
<1>4. RecomputesSound'
  BY <1>1, <1>2, <1>3 DEF Scores, RecomputesSound
<1>5. ScoresAreComplete'
  BY <1>1, <1>2 DEF Scores, ScoresAreComplete, Joint
<1> QED BY <1>4, <1>5 DEF Scores

LEMMA ScoresStep == IInv /\ Scores /\ [Next]_vars => Scores'
<1> SUFFICES ASSUME IInv, Scores, [Next]_vars PROVE Scores'
  OBVIOUS
<1> USE HandlersAreSessions
<1>1. ASSUME NEW s \in Sessions, NEW next \in {"idle", "done"}, Closes(s, next),
             UNCHANGED <<stored, edge, aged, raced, src>>
      PROVE  Scores'
  BY <1>1, AwayKeepsScores DEF Closes, IInv, TypeOK
<1>2. ASSUME NEW h \in Handlers, stage[h] # "writing", stage'[h] # "writing",
             \A t \in Sessions \ {h} : stage'[t] = stage[t] /\ src'[t] = src[t],
             UNCHANGED <<stored, edge, aged, raced, seen, done, want, clash>>
      PROVE  Scores'
  <2>1. done'[h] = {}
    BY <1>2 DEF Scores, RecomputesSound
  <2> QED BY <1>2, <2>1, AwayKeepsScores
<1>3. ASSUME NEW h \in Handlers, HandlerStep(h) PROVE Scores'
  <2>1. CASE Skip(h)
    BY <2>1, <1>1 DEF Skip, graphVars
  <2>2. CASE Insert(h) \/ Ack(h)
    <3>1. /\ stage[h] # "writing" /\ stage'[h] # "writing"
          /\ \A t \in Sessions \ {h} : stage'[t] = stage[t] /\ src'[t] = src[t]
          /\ UNCHANGED <<stored, edge, aged, raced, seen, done, want, clash>>
      BY <2>2 DEF Insert, Ack, graphVars, scoreVars, IInv, TypeOK
    <3> QED BY <3>1, <1>2
  <2>3. CASE Recompute(h)
    <3>1. Own(h) = {Of[src[h]]}
      BY DEF Own
    <3> QED BY <2>3, <3>1, ReadsKeepsScores DEF Recompute, graphVars
  <2>4. CASE Commit(h)
    <3>1. stored' = stored \cup Own(h)
      BY <2>4 DEF Own, Commit
    <3> QED BY <2>4, <3>1, ApplyKeepsScores DEF Commit
  <2>5. CASE Victim(h)
    BY <2>5, <1>1 DEF Victim, graphVars
  <2> QED BY <1>3, <2>1, <2>2, <2>3, <2>4, <2>5, UpsertKeepsScores DEF HandlerStep
<1>4. ASSUME NEW h \in Handlers, Fails(h) \/ Crash(h) PROVE Scores'
  BY <1>4, <1>1 DEF Fails, Crash, graphVars
<1>5. ASSUME NEW h \in Handlers, NEW e \in Sources, Deliver(h, e) PROVE Scores'
  <2>1. /\ stage[h] # "writing" /\ stage'[h] # "writing"
        /\ \A t \in Sessions \ {h} : stage'[t] = stage[t] /\ src'[t] = src[t]
        /\ UNCHANGED <<stored, edge, aged, raced, seen, done, want, clash>>
    BY <1>5 DEF Deliver, graphVars, scoreVars, IInv, TypeOK
  <2> QED BY <2>1, <1>2
<1>6. CASE NightStep \/ NightFails
  <2>1. CASE NightReads
    <3>1. Own(Night) = {}
      BY DEF Own
    <3> QED BY <2>1, <3>1, ReadsKeepsScores DEF NightReads, graphVars
  <2>2. CASE NightCommits
    <3>1. stored' = stored \cup Own(Night)
      BY <2>2 DEF Own, NightCommits
    <3> QED BY <2>2, <3>1, ApplyKeepsScores DEF NightCommits
  <2>3. CASE NightFails \/ Victim(Night)
    BY <2>3, <1>1 DEF NightFails, Victim, graphVars
  <2> QED BY <1>6, <2>1, <2>2, <2>3, UpsertKeepsScores DEF NightStep
<1>7. ASSUME NEW m \in Messages, Age(m) PROVE Scores'
  BY <1>7, AgeKeepsScores
<1>8. CASE UNCHANGED vars
  <2>1. \A p : Fresh(p)' = Fresh(p)
    BY <1>8 DEF Fresh, Joint, vars
  <2>2. \A t \in Sessions : Written(t)' = Written(t) /\ Own(t)' = Own(t)
    BY <1>8, SameWrites DEF vars
  <2> QED BY <1>8, <2>1, <2>2 DEF Scores, RecomputesSound, ScoresAreComplete, Joint, vars
<1> QED BY <1>3, <1>4, <1>5, <1>6, <1>7, <1>8 DEF Next

\* A stored score stands for stored interactions of its pair, and for all of them
\* in the window unless recomputes of the pair overlapped: under any interleaving
\* of upserts, commits, rollbacks and deadlocks of handlers and the nightly run.
THEOREM ScoresStandForTheWindow == Spec => []ScoresAreComplete
<1>1. Scores => ScoresAreComplete
  BY DEF Scores
<1> QED BY <1>1, ScoresInit, ScoresStep, InductiveInvariant, PTL DEF Spec
=============================================================================
