--------------------------- MODULE ModelUseProofs ---------------------------
(***************************************************************************)
(* Proofs about those who use models: the gateway, which asks them         *)
(* (GatewayBudget), and the sourcing runs, which train rankers and score   *)
(* with them (Sourcing).                                                   *)
(*                                                                         *)
(* OverspendBounded is not inductive: a booking raises what is spent       *)
(* without looking at the limit.  ChargesFit counts, with what is spent,   *)
(* what every thread past the check may still book; a booking moves its    *)
(* share from one to the other, and only the check, below the limit, adds  *)
(* a share, of which there are no more than threads.                       *)
(*                                                                         *)
(* That the feed shows a version there is rests on the requests on the bus *)
(* and the jobs of sessions, however old, asking for such versions.        *)
(***************************************************************************)
EXTENDS GatewayBudget, Sourcing, FiniteSetTheorems, TLAPS

USE ThreadsAssumption, RoutesAssumption, AmountsAssumption

-----------------------------------------------------------------------------
(* The gateway: counting threads. *)

\* Any set of threads is finite and no larger than the set of all of them.
LEMMA ThreadCount ==
  ASSUME NEW S \in SUBSET Threads
  PROVE  /\ IsFiniteSet(S)
         /\ Cardinality(S) \in Nat /\ Cardinality(Threads) \in Nat
         /\ Cardinality(S) <= Cardinality(Threads)
BY FS_Subset, FS_CardinalityType

\* A thread that joins a set counts one more, and one that leaves it one less.
LEMMA OneMore ==
  ASSUME NEW S \in SUBSET Threads, NEW w \in Threads, w \notin S
  PROVE  Cardinality(S \cup {w}) = Cardinality(S) + 1
BY ThreadCount, FS_AddElement

LEMMA OneLess ==
  ASSUME NEW S \in SUBSET Threads, NEW w \in S
  PROVE  Cardinality(S \ {w}) = Cardinality(S) - 1
BY ThreadCount, FS_RemoveElement

\* The share of one more answer.
LEMMA Shares ==
  ASSUME NEW n \in Nat, NEW c \in Nat
  PROVE  /\ n * c \in Nat /\ (n + 1) * c = n * c + c
         /\ \A k \in Nat : n <= k => n * c <= k * c
<1>1. n * c \in Nat /\ (n + 1) * c = n * c + c
  OBVIOUS
<1>2. ASSUME NEW k \in Nat, n <= k PROVE n * c <= k * c
  <2>1. PICK d \in Nat : k = n + d
    <3>1. k - n \in Nat /\ k = n + (k - n)
      BY <1>2
    <3> QED BY <3>1
  <2>2. k * c = n * c + d * c /\ d * c \in Nat
    BY <2>1
  <2> QED BY <2>2, <1>1
<1> QED BY <1>1, <1>2

-----------------------------------------------------------------------------
(* How each kind of step moves the two sets of threads. *)

LEMMA SetsOfThreads == Charging \subseteq Threads /\ Returning \subseteq Threads
BY DEF Charging, Returning

\* A thread that leaves the charging ones takes its share along, whatever part
\* of it was booked.
LEMMA Leaves ==
  ASSUME GatewayTypeOK, ChargesFit, NEW w \in Charging,
         Charging' = Charging \ {w}, NEW c \in 0 .. MaxCost, spent' = spent + c
  PROVE  ChargesFit'
<1>1. Limit # 0
  BY DEF ChargesFit
<1> DEFINE n == Cardinality(Charging)
<1>2. n \in Nat /\ Cardinality(Charging') = n - 1 /\ Cardinality(Charging') \in Nat
  BY SetsOfThreads, OneLess, ThreadCount
<1>3. n * MaxCost = Cardinality(Charging') * MaxCost + MaxCost
  BY <1>2, Shares, n = Cardinality(Charging') + 1
<1>4. spent + n * MaxCost <= Ceiling
  BY <1>1 DEF ChargesFit
<1>5. Ceiling \in Int /\ Ceiling' = Ceiling /\ Cardinality(Charging') * MaxCost \in Nat
  BY <1>2, ThreadCount, Shares DEF Ceiling
<1>6. spent' + Cardinality(Charging') * MaxCost <= Ceiling
  BY <1>3, <1>4, <1>5 DEF GatewayTypeOK
<1> QED
  BY <1>1, <1>5, <1>6 DEF ChargesFit

\* A step that leaves both sets' charges alone.
LEMMA Stays ==
  ASSUME ChargesFit, Charging' = Charging, spent' = spent
  PROVE  ChargesFit'
BY DEF ChargesFit, Ceiling

-----------------------------------------------------------------------------
(* The invariants. *)

LEMMA InitInv == GatewayInit => GatewayIInv /\ RepliesAreOnTheBooks
<1> SUFFICES ASSUME GatewayInit PROVE GatewayIInv /\ RepliesAreOnTheBooks
  OBVIOUS
<1>1. GatewayTypeOK
  BY DEF GatewayInit, GatewayTypeOK, Stages
<1>2. Charging = {} /\ Returning = {} /\ Cardinality({}) = 0
  BY FS_EmptySet DEF GatewayInit, Charging, Returning
<1>3. ChargesFit
  <2>1. Cardinality(Threads) * MaxCost \in Nat /\ 0 * MaxCost = 0
    BY ThreadCount, Shares
  <2> QED
    BY <1>2, <2>1 DEF ChargesFit, Ceiling, GatewayInit
<1>4. RepliesAreOnTheBooks
  BY <1>2 DEF RepliesAreOnTheBooks, GatewayInit
<1> QED
  BY <1>1, <1>3, <1>4 DEF GatewayIInv

LEMMA CheckInv ==
  ASSUME GatewayIInv, NEW w \in Threads, NEW r \in Routes, Check(w, r)
  PROVE  GatewayIInv' /\ Returning' = Returning
<1> USE DEF Check, Goes, bookVars
<1>1. GatewayTypeOK'
  BY DEF GatewayIInv, GatewayTypeOK, Stages
<1>2. w \notin Charging /\ Charging' = Charging \cup {w} /\ Returning' = Returning
  BY DEF Charging, Returning, GatewayIInv, GatewayTypeOK
<1>3. ChargesFit'
  <2> DEFINE n == Cardinality(Charging)
             m == Cardinality(Charging')
             k == Cardinality(Threads)
  <2>1. Limit # 0 /\ spent' = spent /\ spent \in Nat /\ spent <= Limit - 1
    BY DEF GatewayIInv, GatewayTypeOK
  <2>2. Charging' \subseteq Threads
    BY <1>2, SetsOfThreads
  <2>3. m \in Nat /\ k \in Nat /\ m <= k
    BY <2>2, ThreadCount
  <2>4. m * MaxCost <= k * MaxCost /\ m * MaxCost \in Nat /\ k * MaxCost \in Nat
    BY <2>3, Shares
  <2>5. spent' + m * MaxCost <= Ceiling'
    BY <2>1, <2>4 DEF Ceiling
  <2> QED
    BY <2>1, <2>5 DEF ChargesFit
<1> QED
  BY <1>1, <1>2, <1>3 DEF GatewayIInv

LEMMA AnswerInv ==
  ASSUME GatewayIInv, NEW w \in Threads, NEW c \in 0 .. MaxCost, NEW usable \in BOOLEAN,
         Answer(w, c, usable)
  PROVE  GatewayIInv' /\ Returning' = Returning
<1> USE DEF Answer, Goes, bookVars
<1>1. GatewayTypeOK'
  BY DEF GatewayIInv, GatewayTypeOK, Stages
<1>2. Returning' = Returning
  BY DEF Returning, GatewayIInv, GatewayTypeOK
<1>3. spent' = spent /\ spent' = spent + 0
  BY DEF GatewayIInv, GatewayTypeOK
<1>4. ChargesFit'
  <2>1. CASE usable
    <3>1. Charging' = Charging
      BY <2>1 DEF Charging, GatewayIInv, GatewayTypeOK
    <3> QED BY <3>1, <1>3, Stays DEF GatewayIInv
  <2>2. CASE ~ usable
    <3>1. w \in Charging /\ Charging' = Charging \ {w}
      BY <2>2 DEF Charging, GatewayIInv, GatewayTypeOK
    <3> QED BY <3>1, <1>3, Leaves DEF GatewayIInv
  <2> QED BY <2>1, <2>2
<1> QED
  BY <1>1, <1>2, <1>4 DEF GatewayIInv

\* A request that fails, with or without the gateway's expecting it.
LEMMA FailureInv ==
  ASSUME GatewayIInv, NEW w \in Threads, ProviderFails(w) \/ Reject(w) \/ Breaks(w)
  PROVE  GatewayIInv' /\ Returning' = Returning
<1> USE DEF ProviderFails, Reject, Breaks, Goes, bookVars
<1>1. GatewayTypeOK'
  BY DEF GatewayIInv, GatewayTypeOK, Stages
<1>2. Returning' = Returning
  BY DEF Returning, GatewayIInv, GatewayTypeOK
<1>3. spent' = spent /\ spent' = spent + 0
  BY DEF GatewayIInv, GatewayTypeOK
<1>4. ChargesFit'
  <2>1. CASE Reject(w)
    <3>1. Charging' = Charging
      BY <2>1 DEF Charging, GatewayIInv, GatewayTypeOK
    <3> QED BY <3>1, <1>3, Stays DEF GatewayIInv
  <2>2. CASE ProviderFails(w) \/ Breaks(w)
    <3>1. w \in Charging /\ Charging' = Charging \ {w}
      BY <2>2 DEF Charging, GatewayIInv, GatewayTypeOK
    <3> QED BY <3>1, <1>3, Leaves DEF GatewayIInv
  <2> QED BY <2>1, <2>2
<1> QED
  BY <1>1, <1>2, <1>4 DEF GatewayIInv

LEMMA RecordInv ==
  ASSUME GatewayIInv, NEW w \in Threads, Record(w)
  PROVE  /\ GatewayIInv'
         /\ w \notin Returning /\ Returning' = Returning \cup {w}
<1> USE DEF Record, Goes
<1>1. Charge(w) \in 0 .. MaxCost
  BY DEF Charge, GatewayIInv, GatewayTypeOK
<1>2. GatewayTypeOK'
  BY <1>1 DEF GatewayIInv, GatewayTypeOK, Stages
<1>3. w \in Charging /\ Charging' = Charging \ {w}
  BY DEF Charging, GatewayIInv, GatewayTypeOK
<1>4. ChargesFit'
  BY <1>1, <1>3, Leaves DEF GatewayIInv
<1>5. w \notin Returning /\ Returning' = Returning \cup {w}
  BY DEF Returning, GatewayIInv, GatewayTypeOK
<1> QED
  BY <1>2, <1>4, <1>5 DEF GatewayIInv

LEMMA ReplyInv ==
  ASSUME GatewayIInv, NEW w \in Threads, Reply(w)
  PROVE  /\ GatewayIInv'
         /\ w \in Returning /\ Returning' = Returning \ {w}
<1> USE DEF Reply, Goes, bookVars
<1>1. GatewayTypeOK'
  BY DEF GatewayIInv, GatewayTypeOK, Stages
<1>2. Charging' = Charging /\ spent' = spent
  BY DEF Charging, GatewayIInv, GatewayTypeOK
<1>3. w \in Returning /\ Returning' = Returning \ {w}
  BY DEF Returning, GatewayIInv, GatewayTypeOK
<1> QED
  BY <1>1, <1>2, <1>3, Stays DEF GatewayIInv

\* A new month starts with empty books, whatever is still under way.
LEMMA MonthInv ==
  ASSUME GatewayIInv, NewMonth
  PROVE  GatewayIInv' /\ Returning' = Returning
<1> USE DEF NewMonth, callVars
<1>1. GatewayTypeOK'
  BY DEF GatewayIInv, GatewayTypeOK
<1>2. Charging' = Charging /\ Returning' = Returning
  BY DEF Charging, Returning
<1>3. ChargesFit'
  <2>1. CASE Limit = 0
    BY <2>1, <1>2 DEF ChargesFit, GatewayIInv
  <2>2. CASE Limit # 0
    <3>1. spent + Cardinality(Charging) * MaxCost <= Ceiling /\ Ceiling' = Ceiling
      BY <2>2 DEF ChargesFit, GatewayIInv, Ceiling
    <3>2. Cardinality(Charging) * MaxCost \in Nat /\ Ceiling \in Int
      BY SetsOfThreads, ThreadCount, Shares DEF Ceiling
    <3>3. 0 + Cardinality(Charging) * MaxCost <= Ceiling
      BY <3>1, <3>2 DEF GatewayIInv, GatewayTypeOK
    <3> QED BY <1>2, <2>2, <3>1, <3>3 DEF ChargesFit
  <2> QED BY <2>1, <2>2
<1> QED
  BY <1>1, <1>2, <1>3 DEF GatewayIInv

\* What the gateway embeds itself is answered, and on no books.
LEMMA LocalInv ==
  ASSUME GatewayIInv, RepliesAreOnTheBooks, NEW w \in Threads, EmbedsLocally(w)
  PROVE  GatewayIInv' /\ RepliesAreOnTheBooks'
<1> USE DEF EmbedsLocally, callVars, bookVars
<1>1. GatewayTypeOK'
  BY DEF GatewayIInv, GatewayTypeOK
<1>2. Charging' = Charging /\ Returning' = Returning /\ spent' = spent
  BY DEF Charging, Returning
<1>3. ChargesFit'
  BY <1>2, Stays DEF GatewayIInv
<1>4. RepliesAreOnTheBooks'
  <2>1. /\ rows' = rows /\ replies' = replies + 1 /\ local' = local + 1
        /\ rows \in Nat /\ replies \in Nat /\ local \in Nat /\ Cardinality(Returning) \in Nat
    BY SetsOfThreads, ThreadCount DEF GatewayIInv, GatewayTypeOK
  <2> QED BY <1>2, <2>1 DEF RepliesAreOnTheBooks
<1> QED BY <1>1, <1>3, <1>4 DEF GatewayIInv

\* One thread's step keeps the invariant and the books in step with the replies.
LEMMA ThreadInv ==
  ASSUME GatewayIInv, RepliesAreOnTheBooks, NEW w \in Threads, ThreadNext(w)
  PROVE  GatewayIInv' /\ RepliesAreOnTheBooks'
<1>1. Cardinality(Returning) \in Nat /\ Returning \subseteq Threads
  BY SetsOfThreads, ThreadCount
<1>2. CASE Record(w)
  <2>1. GatewayIInv' /\ Cardinality(Returning') = Cardinality(Returning) + 1
    BY <1>1, <1>2, RecordInv, OneMore
  <2>2. rows' = rows + 1 /\ replies' = replies /\ local' = local
    BY <1>2 DEF Record
  <2> QED BY <1>1, <2>1, <2>2 DEF RepliesAreOnTheBooks, GatewayIInv, GatewayTypeOK
<1>3. CASE Reply(w)
  <2>1. GatewayIInv' /\ Cardinality(Returning') = Cardinality(Returning) - 1
    BY <1>1, <1>3, ReplyInv, OneLess
  <2>2. rows' = rows /\ replies' = replies + 1 /\ local' = local
    BY <1>3 DEF Reply, bookVars
  <2> QED BY <1>1, <2>1, <2>2 DEF RepliesAreOnTheBooks, GatewayIInv, GatewayTypeOK
<1>4. ASSUME GatewayIInv' /\ Returning' = Returning, UNCHANGED <<rows, replies, local>>
      PROVE  GatewayIInv' /\ RepliesAreOnTheBooks'
  BY <1>4 DEF RepliesAreOnTheBooks
<1>5. CASE \E r \in Routes : Check(w, r)
  BY <1>4, <1>5, CheckInv DEF Check, bookVars
<1>6. CASE \E c \in 0 .. MaxCost, usable \in BOOLEAN : Answer(w, c, usable)
  BY <1>4, <1>6, AnswerInv DEF Answer, bookVars
<1>7. CASE ProviderFails(w) \/ Reject(w) \/ Breaks(w)
  BY <1>4, <1>7, FailureInv DEF ProviderFails, Reject, Breaks, bookVars
<1>8. CASE EmbedsLocally(w)
  BY <1>8, LocalInv
<1> QED
  BY <1>2, <1>3, <1>5, <1>6, <1>7, <1>8 DEF ThreadNext

-----------------------------------------------------------------------------
\* The books of a month and what may still be charged to it fit under the
\* ceiling, and the ok rows are the providers' answers, returned or being returned,
\* in every reachable state (_check_budget and _record under any interleaving).
THEOREM GatewayInvariant == GatewaySpec => [](GatewayIInv /\ RepliesAreOnTheBooks)
<1>1. GatewayInit => GatewayIInv /\ RepliesAreOnTheBooks
  BY InitInv
<1>2. GatewayIInv /\ RepliesAreOnTheBooks /\ [GatewayNext]_gatewayVars => GatewayIInv' /\ RepliesAreOnTheBooks'
  <2> SUFFICES ASSUME GatewayIInv, RepliesAreOnTheBooks, [GatewayNext]_gatewayVars
               PROVE  GatewayIInv' /\ RepliesAreOnTheBooks'
    OBVIOUS
  <2>1. CASE \E w \in Threads : ThreadNext(w)
    BY <2>1, ThreadInv
  <2>2. CASE NewMonth
    BY <2>2, MonthInv DEF RepliesAreOnTheBooks, NewMonth
  <2>3. CASE UNCHANGED gatewayVars
    BY <2>3 DEF gatewayVars, GatewayIInv, GatewayTypeOK, ChargesFit, Ceiling, Charging, Returning, RepliesAreOnTheBooks
  <2> QED
    BY <2>1, <2>2, <2>3 DEF GatewayNext
<1> QED
  BY <1>1, <1>2, PTL DEF GatewaySpec

\* "Checks the tenant's monthly budget": no interleaving of checks, calls and
\* bookings charges a month more than the limit and one answer per thread.
THEOREM BudgetHolds == GatewaySpec => []OverspendBounded
<1>1. GatewayIInv => OverspendBounded
  <2> SUFFICES ASSUME GatewayIInv PROVE OverspendBounded
    OBVIOUS
  <2>1. Cardinality(Charging) * MaxCost \in Nat /\ Ceiling \in Int /\ spent \in Nat
    BY SetsOfThreads, ThreadCount, Shares DEF Ceiling, GatewayIInv, GatewayTypeOK
  <2> QED
    BY <2>1 DEF OverspendBounded, ChargesFit, Ceiling, GatewayIInv
<1> QED
  BY <1>1, GatewayInvariant, PTL

\* No answer of a provider is returned that is not on the books, even when recording
\* fails; the embeddings that the gateway computes itself are on no books.
THEOREM AnswersAreBooked == GatewaySpec => []RepliesAreOnTheBooks
BY GatewayInvariant, PTL

-----------------------------------------------------------------------------
(* Sourcing. *)

\* What travels on the bus.
Events == [kind : {"feedback", "score", "collect"}, version : Nat]

\* The stages and the jobs of a session.
SessionStages == {"idle", "collecting", "training", "trained", "scoring", "ranked", "done"}
Jobs   == [part : Parts, pos : Nat, event : Events,
           labels : LabelSets, version : Nat]

\* The parts of the invariant that a step of the sessions may disturb, and those of the
\* thesis, the requests for it and the feed.
WorkOK ==
  /\ at \in [Sessions -> SessionStages]
  /\ job \in [Sessions -> Jobs]
  /\ before \in [Sessions -> SUBSET Sessions] /\ late \in [Sessions -> BOOLEAN]
  /\ AgesOrdered
  /\ JobsSound

ThesisOK ==
  /\ version \in Nat \ {0} /\ version = edits /\ active \in BOOLEAN
  /\ editing \in [Users -> Nat] /\ \A u \in Users : editing[u] \in 0 .. version
  /\ votes \in [Voters -> {-1, 0, 1}] /\ seen \subseteq Voters

BusOK ==
  /\ queue \in [Parts -> Seq(Events)]
  /\ acked \in [Parts -> Nat]
  /\ \A p \in Parts : acked[p] \in 0 .. Len(queue[p])
  /\ RequestsExist

FeedOK ==
  /\ model \in LabelSets
  /\ feed \in [version : Nat, model : LabelSets] /\ feed.version <= version

LEMMA SrcParts == IInv <=> WorkOK /\ ThesisOK /\ BusOK /\ FeedOK
<1> USE DEF IInv, Inv, TypeOK, EditsAreVersions, Shapes, WorkOK, ThesisOK, BusOK,
        FeedOK, SessionStages, Jobs, Events
<1>1. IInv => WorkOK
  OBVIOUS
<1>2. IInv => ThesisOK
  OBVIOUS
<1>3. IInv => BusOK
  OBVIOUS
<1>4. IInv => FeedOK
  OBVIOUS
<1>5. WorkOK /\ ThesisOK /\ BusOK /\ FeedOK => TypeOK
  OBVIOUS
<1>6. WorkOK /\ ThesisOK /\ BusOK /\ FeedOK => IInv
  BY <1>5
<1> QED BY <1>1, <1>2, <1>3, <1>4, <1>6

\* It is so in the next state, too.
LEMMA SrcPartsNext ==
  ASSUME WorkOK', ThesisOK', BusOK', FeedOK'
  PROVE  IInv'
<1> USE DEF IInv, Inv, TypeOK, EditsAreVersions, Shapes, WorkOK, ThesisOK, BusOK,
        FeedOK, SessionStages, Jobs, Events
<1>1. TypeOK'
  OBVIOUS
<1> QED BY <1>1

\* The labels are those of voters.
LEMMA LabelsType ==
  ASSUME ThesisOK
  PROVE  Labels \in LabelSets
BY DEF ThesisOK, Labels, LabelSets

LEMMA SrcInit == Init => IInv
<1> SUFFICES ASSUME Init PROVE IInv
  OBVIOUS
<1> USE DEF Init
<1>1. {} \in LabelSets /\ NoJob \in Jobs
  BY DEF LabelSets, Jobs, NoJob, Feedback, Parts, Events
<1>2. WorkOK
  BY <1>1 DEF WorkOK, SessionStages, JobsSound, AgesOrdered, Sessions, Open, NoJob, Feedback
<1>3. ThesisOK
  BY NamesAssumption DEF ThesisOK
<1>4. BusOK
  BY DEF BusOK, RequestsExist
<1>5. FeedOK
  BY <1>1 DEF FeedOK
<1> QED BY <1>2, <1>3, <1>4, <1>5, SrcParts

\* An event is appended: those that were there keep their places.
LEMMA PublishKeeps ==
  ASSUME BusOK, NEW p \in Parts, NEW e \in Events,
         Publish(p, e), acked' = acked, version' \in Nat, version' >= version, version \in Nat,
         e.version <= version'
  PROVE  BusOK' /\ \A q \in Parts : Len(queue'[q]) >= Len(queue[q])
<1>1. queue[p] \in Seq(Events) /\ queue' = [queue EXCEPT ![p] = Append(queue[p], e)]
  BY DEF BusOK, Publish
<1>2. queue' \in [Parts -> Seq(Events)]
  BY <1>1 DEF BusOK
<1>3. \A q \in Parts : Len(queue'[q]) >= Len(queue[q]) /\ Len(queue[q]) \in Nat
  BY <1>1 DEF BusOK
<1>4. RequestsExist'
  <2> SUFFICES ASSUME NEW q \in Parts, NEW i \in 1 .. Len(queue'[q])
               PROVE  queue'[q][i].version <= version'
    BY DEF RequestsExist
  <2>1. CASE q # p
    <3>1. queue'[q] = queue[q] /\ queue[q] \in Seq(Events)
      BY <1>1, <2>1 DEF BusOK
    <3>2. queue[q][i] \in Events /\ i \in 1 .. Len(queue[q])
      BY <3>1
    <3>3. queue[q][i].version <= version /\ queue[q][i].version \in Nat
      BY <3>2 DEF BusOK, RequestsExist, Events
    <3> QED BY <3>1, <3>3
  <2>2. CASE q = p
    <3>1. queue'[p] = Append(queue[p], e)
      BY <1>1, <2>2 DEF BusOK
    <3>2. CASE i = Len(queue[p]) + 1
      <4>1. queue'[p][i] = e
        BY <1>1, <3>1, <3>2
      <4> QED BY <2>2, <4>1
    <3>3. CASE i \in 1 .. Len(queue[p])
      <4>1. queue'[p][i] = queue[p][i] /\ queue[p][i] \in Events
        BY <1>1, <3>1, <3>3
      <4>2. queue[p][i].version <= version
        BY <3>3 DEF BusOK, RequestsExist
      <4>3. queue[p][i].version \in Nat
        BY <4>1 DEF Events
      <4> QED BY <2>2, <4>1, <4>2, <4>3
    <3> QED BY <1>1, <2>2, <3>1, <3>2, <3>3
  <2> QED BY <2>1, <2>2
<1>5. \A q \in Parts : acked'[q] \in 0 .. Len(queue'[q])
  BY <1>3 DEF BusOK
<1> QED BY <1>2, <1>3, <1>4, <1>5 DEF BusOK

\* Sessions keep their invariant while versions and events are added.
LEMMA WorkStays ==
  ASSUME WorkOK, version \in Nat, version' \in Nat, version' >= version,
         UNCHANGED <<at, job, before, late>>, BusOK, BusOK',
         \A q \in Parts : Len(queue'[q]) >= Len(queue[q])
  PROVE  WorkOK'
<1>1. JobsSound'
  <2>1. \A s \in Sessions : /\ job[s].version \in Nat /\ job[s].pos \in Nat /\ job[s].part \in Parts
                            /\ job[s].event.version \in Nat
    BY DEF WorkOK, Jobs, Events
  <2>2. \A s \in Sessions : job[s].version <= version' /\ job[s].event.version <= version'
    BY <2>1 DEF WorkOK, JobsSound
  <2>3. \A q \in Parts : Len(queue[q]) \in Nat /\ Len(queue'[q]) \in Nat
    BY DEF BusOK
  <2>4. \A w \in Workers : at[w] # "idle" => job[w].pos <= Len(queue'[job[w].part])
    BY <2>1, <2>3 DEF WorkOK, JobsSound, Sessions
  <2> QED BY <2>2, <2>4 DEF JobsSound
<1>2. AgesOrdered'
  BY DEF WorkOK, AgesOrdered, Open
<1> QED BY <1>1, <1>2 DEF WorkOK

\* Users' requests.
LEMMA SrcUserStep ==
  ASSUME IInv, UserNext
  PROVE  IInv'
<1>1. WorkOK /\ ThesisOK /\ BusOK /\ FeedOK
  BY SrcParts
<1>2. /\ Feedback \in Events /\ Feedback.version = 0
      /\ \A v \in Nat : /\ Requests(v) \in Events
                        /\ Requests(v).version = v
                        /\ Collects(v) \in Events
                        /\ Collects(v).version = v
      /\ "requested" \in Parts /\ "feedback" \in Parts /\ "unkeyed" \in Parts
      /\ version \in Nat
  BY <1>1 DEF Feedback, Requests, Collects, Parts, ThesisOK, Events
<1>3. ASSUME NEW u \in Users, EditReads(u) PROVE IInv'
  <2> USE <1>3 DEF EditReads, thesisVars, busVars, workVars
  <2>1. ThesisOK'
    BY <1>1 DEF ThesisOK
  <2>2. BusOK'
    BY <1>1 DEF BusOK, RequestsExist
  <2>3. WorkOK'
    BY <1>1, <1>2, <2>2, WorkStays DEF BusOK
  <2>4. FeedOK'
    BY <1>1 DEF FeedOK
  <2> QED BY <2>1, <2>2, <2>3, <2>4, SrcPartsNext
<1>4. ASSUME NEW u \in Users, EditWrites(u) PROVE IInv'
  <2> USE <1>4 DEF EditWrites, workVars
  <2>1. ThesisOK' /\ version' >= version /\ version' \in Nat
    BY <1>1 DEF ThesisOK
  <2>2. BusOK' /\ \A q \in Parts : Len(queue'[q]) >= Len(queue[q])
    <3>1. CASE editing[u] = version
      <4>1. Publish("requested", Requests(version'))
        BY <3>1
      <4> QED BY <1>1, <1>2, <2>1, <4>1, PublishKeeps
    <3>2. CASE editing[u] # version
      BY <1>1, <3>2 DEF BusOK, RequestsExist
    <3> QED BY <3>1, <3>2
  <2>3. WorkOK'
    BY <1>1, <1>2, <2>1, <2>2, WorkStays
  <2>4. FeedOK'
    BY <1>1, <1>2, <2>1 DEF FeedOK
  <2> QED BY <2>1, <2>2, <2>3, <2>4, SrcPartsNext
<1>5. ASSUME NEW a \in BOOLEAN, SetActive(a) PROVE IInv'
  <2> USE <1>5 DEF SetActive, busVars, workVars
  <2>1. ThesisOK'
    BY <1>1 DEF ThesisOK
  <2>2. BusOK'
    BY <1>1 DEF BusOK, RequestsExist
  <2>3. WorkOK'
    BY <1>1, <1>2, <2>2, WorkStays DEF BusOK
  <2>4. FeedOK'
    BY <1>1 DEF FeedOK
  <2> QED BY <2>1, <2>2, <2>3, <2>4, SrcPartsNext
<1>6. ASSUME NEW v \in Voters, Vote(v, 1) \/ Vote(v, -1) PROVE IInv'
  <2> USE <1>6 DEF Vote, workVars
  <2>1. ThesisOK'
    BY <1>1 DEF ThesisOK
  <2>2. BusOK' /\ \A q \in Parts : Len(queue'[q]) >= Len(queue[q])
    <3>1. Publish("feedback", Feedback) /\ acked' = acked /\ version' = version
      OBVIOUS
    <3> QED BY <1>1, <1>2, <3>1, PublishKeeps
  <2>3. WorkOK'
    BY <1>1, <1>2, <2>2, WorkStays
  <2>4. FeedOK'
    BY <1>1 DEF FeedOK
  <2> QED BY <2>1, <2>2, <2>3, <2>4, SrcPartsNext
<1>7. ASSUME NEW v \in Voters, Withdraw(v) PROVE IInv'
  <2> USE <1>7 DEF Withdraw, busVars, workVars
  <2>1. ThesisOK'
    BY <1>1 DEF ThesisOK
  <2>2. BusOK'
    BY <1>1 DEF BusOK, RequestsExist
  <2>3. WorkOK'
    BY <1>1, <1>2, <2>2, WorkStays DEF BusOK
  <2>4. FeedOK'
    BY <1>1 DEF FeedOK
  <2> QED BY <2>1, <2>2, <2>3, <2>4, SrcPartsNext
<1>8. ASSUME NEW v \in {0, version}, Run(v) PROVE IInv'
  <2> USE <1>8 DEF Run, thesisVars, workVars
  <2>1. ThesisOK'
    BY <1>1 DEF ThesisOK
  <2>2. BusOK' /\ \A q \in Parts : Len(queue'[q]) >= Len(queue[q])
    <3>1. PICK e \in {Requests(v), Collects(v)} : Publish("unkeyed", e)
      OBVIOUS
    <3>2. e \in Events /\ e.version <= version' /\ acked' = acked /\ version' = version
      BY <1>1, <1>2 DEF ThesisOK
    <3> QED BY <1>1, <1>2, <3>1, <3>2, PublishKeeps
  <2>3. WorkOK'
    BY <1>1, <1>2, <2>2, WorkStays
  <2>4. FeedOK'
    BY <1>1 DEF FeedOK
  <2> QED BY <2>1, <2>2, <2>3, <2>4, SrcPartsNext
<1> QED BY <1>3, <1>4, <1>5, <1>6, <1>7, <1>8 DEF UserNext

\* A batch that comes again holds events that were there.
LEMMA SrcResendStep ==
  ASSUME IInv, NEW p \in Parts, Resend(p)
  PROVE  IInv'
<1>1. WorkOK /\ ThesisOK /\ BusOK /\ FeedOK
  BY SrcParts
<1>2. PICK k \in 1 .. Len(queue[p]) : queue' = [queue EXCEPT ![p] = @ \o SubSeq(@, k, Len(@))]
  BY DEF Resend
<1>3. UNCHANGED <<version, active, votes, seen, model, feed, acked, at, job, before, late, editing, edits>>
  BY DEF Resend, thesisVars, workVars
<1> DEFINE old == queue[p]
           new == old \o SubSeq(old, k, Len(old))
<1>4. /\ old \in Seq(Events) /\ new \in Seq(Events) /\ Len(new) >= Len(old)
      /\ \A i \in 1 .. Len(new) : \E j \in 1 .. Len(old) : new[i] = old[j]
  <2>1. old \in Seq(Events) /\ Len(old) \in Nat /\ k \in 1 .. Len(old)
    BY <1>1 DEF BusOK
  <2> HIDE DEF old
  <2>2. /\ SubSeq(old, k, Len(old)) \in Seq(Events) /\ Len(SubSeq(old, k, Len(old))) = Len(old) - k + 1
        /\ \A i \in 1 .. Len(old) - k + 1 : SubSeq(old, k, Len(old))[i] = old[k + i - 1]
    BY <2>1
  <2>3. /\ new \in Seq(Events) /\ Len(new) = Len(old) + (Len(old) - k + 1)
        /\ \A i \in 1 .. Len(new) : new[i] = IF i <= Len(old) THEN old[i] ELSE old[k + (i - Len(old)) - 1]
    BY <2>1, <2>2
  <2>4. ASSUME NEW i \in 1 .. Len(new) PROVE \E j \in 1 .. Len(old) : new[i] = old[j]
    <3>1. CASE i <= Len(old)
      BY <2>1, <2>3, <3>1
    <3>2. CASE i > Len(old)
      <4>1. k + (i - Len(old)) - 1 \in 1 .. Len(old)
        BY <2>1, <2>3, <3>2
      <4>2. new[i] = old[k + (i - Len(old)) - 1]
        <5>1. Len(new) \in Nat /\ ~ (i <= Len(old))
          BY <2>1, <2>3, <3>2
        <5> QED BY <2>3, <5>1
      <4> QED BY <4>1, <4>2
    <3> QED BY <2>1, <2>3, <3>1, <3>2
  <2> QED BY <2>1, <2>3, <2>4
<1>5. \A q \in Parts : queue'[q] = IF q = p THEN new ELSE queue[q]
  BY <1>1, <1>2 DEF BusOK
<1> HIDE DEF new
<1>6. BusOK' /\ \A q \in Parts : Len(queue'[q]) >= Len(queue[q])
  <2>1. queue' \in [Parts -> Seq(Events)]
    BY <1>1, <1>2, <1>4, <1>5 DEF BusOK, new
  <2>2. \A q \in Parts : Len(queue'[q]) >= Len(queue[q]) /\ Len(queue[q]) \in Nat /\ Len(queue'[q]) \in Nat
    <3>1. \A q \in Parts : Len(queue[q]) \in Nat /\ Len(queue'[q]) \in Nat
      BY <1>1, <2>1 DEF BusOK
    <3> QED BY <1>4, <1>5, <3>1
  <2>3. \A q \in Parts : acked'[q] \in 0 .. Len(queue'[q])
    BY <1>1, <1>3, <2>2 DEF BusOK
  <2>4. RequestsExist'
    <3> SUFFICES ASSUME NEW q \in Parts, NEW i \in 1 .. Len(queue'[q]) PROVE queue'[q][i].version <= version'
      BY DEF RequestsExist
    <3>1. \E j \in 1 .. Len(queue[q]) : queue'[q][i] = queue[q][j]
      BY <1>4, <1>5
    <3> QED BY <1>1, <1>3, <3>1 DEF BusOK, RequestsExist
  <2> QED BY <1>1, <1>3, <2>1, <2>2, <2>3, <2>4 DEF BusOK
<1>7. WorkOK'
  BY <1>1, <1>3, <1>6, WorkStays DEF ThesisOK
<1>8. ThesisOK' /\ FeedOK'
  BY <1>1, <1>3 DEF ThesisOK, FeedOK
<1> QED BY <1>6, <1>7, <1>8, SrcPartsNext

-----------------------------------------------------------------------------
(* Sessions. *)

\* Without session s, of whatever stage it is now, the order of the others is as it was.
LEMMA OthersStayOrdered ==
  ASSUME AgesOrdered, NEW s \in Sessions,
         \A t \in Sessions \ {s} : at'[t] = at[t] /\ before'[t] = before[t] \ {s},
         NEW t \in Sessions \ {s}, NEW u \in Sessions \ {s}, Open(t)', Open(u)'
  PROVE  /\ before'[t] \subseteq {x \in Sessions \ {s} : Open(x)'}
         /\ t \notin before'[t]
         /\ t # u => (t \in before'[u] <=> u \notin before'[t])
         /\ t \in before'[u] => before'[t] \subseteq before'[u]
<1>1. Open(t) /\ Open(u)
  BY DEF Open
<1>2. \A x \in Sessions \ {s} : Open(x) => Open(x)'
  BY DEF Open
<1> QED BY <1>1, <1>2 DEF AgesOrdered

\* A transaction that ends is older than no other any more, and one that begins is younger
\* than those that are open.
LEMMA ClosesKeeps ==
  ASSUME WorkOK, NEW s \in Sessions, NEW next \in SessionStages \ {"training", "scoring", "ranked"},
         Closes(s, next)
  PROVE  /\ at' \in [Sessions -> SessionStages] /\ at'[s] = next
         /\ \A t \in Sessions \ {s} : at'[t] = at[t]
         /\ before' \in [Sessions -> SUBSET Sessions]
         /\ AgesOrdered'
<1> USE DEF Closes
<1>1. /\ at' \in [Sessions -> SessionStages] /\ at'[s] = next
      /\ \A t \in Sessions \ {s} : at'[t] = at[t]
  BY DEF WorkOK
<1>2. /\ before' \in [Sessions -> SUBSET Sessions]
      /\ \A t \in Sessions \ {s} : before'[t] = before[t] \ {s}
  BY DEF WorkOK
<1>3. \A t \in Sessions : Open(t)' => t \in Sessions \ {s}
  BY <1>1 DEF Open
<1>4. ASSUME NEW t \in Sessions, NEW u \in Sessions, Open(t)', Open(u)'
      PROVE  /\ before'[t] \subseteq {x \in Sessions : Open(x)'}
             /\ t \notin before'[t]
             /\ t # u => (t \in before'[u] <=> u \notin before'[t])
             /\ t \in before'[u] => before'[t] \subseteq before'[u]
  <2>1. t \in Sessions \ {s} /\ u \in Sessions \ {s}
    BY <1>3, <1>4
  <2>2. AgesOrdered
    BY DEF WorkOK
  <2> QED BY <1>1, <1>2, <1>4, <2>1, <2>2, OthersStayOrdered
<1>5. AgesOrdered'
  BY <1>4 DEF AgesOrdered
<1> QED BY <1>1, <1>2, <1>5

LEMMA BeginsKeeps ==
  ASSUME WorkOK, NEW s \in Sessions, ~ Open(s), NEW next \in {"training", "scoring"}, Begins(s, next)
  PROVE  /\ at' \in [Sessions -> SessionStages] /\ at'[s] = next
         /\ \A t \in Sessions \ {s} : at'[t] = at[t]
         /\ before' \in [Sessions -> SUBSET Sessions] /\ late' \in [Sessions -> BOOLEAN]
         /\ AgesOrdered'
<1> USE DEF Begins
<1>1. /\ at' \in [Sessions -> SessionStages] /\ at'[s] = next
      /\ \A t \in Sessions \ {s} : at'[t] = at[t]
  BY DEF WorkOK, SessionStages
<1>2. /\ before' \in [Sessions -> SUBSET Sessions] /\ late' \in [Sessions -> BOOLEAN]
      /\ before'[s] = {t \in Sessions \ {s} : Open(t)}
      /\ \A t \in Sessions \ {s} : before'[t] = before[t]
  BY DEF WorkOK
<1>3. \A t \in Sessions \ {s} : Open(t)' <=> Open(t)
  BY <1>1 DEF Open
\* whoever is open knows nothing of s, which was not
<1>4. ASSUME NEW t \in Sessions \ {s}, Open(t)'
      PROVE  s \notin before'[t] /\ before'[t] \subseteq {x \in Sessions \ {s} : Open(x)'}
  <2>1. before[t] \subseteq {x \in Sessions : Open(x)}
    BY <1>3, <1>4 DEF WorkOK, AgesOrdered
  <2> QED BY <1>2, <1>3, <2>1
<1>5. ASSUME NEW t \in Sessions, NEW u \in Sessions, Open(t)', Open(u)'
      PROVE  /\ before'[t] \subseteq {x \in Sessions : Open(x)'}
             /\ t \notin before'[t]
             /\ t # u => (t \in before'[u] <=> u \notin before'[t])
             /\ t \in before'[u] => before'[t] \subseteq before'[u]
  <2>1. CASE t = s
    <3>1. u # s => u \in before'[s] /\ s \notin before'[u]
      BY <1>2, <1>3, <1>4, <1>5
    <3>2. before'[s] \subseteq {x \in Sessions : Open(x)'} /\ s \notin before'[s]
      BY <1>2, <1>3
    <3> QED BY <2>1, <3>1, <3>2
  <2>2. CASE t # s /\ u = s
    <3>1. t \in before'[s] /\ s \notin before'[t] /\ before'[t] \subseteq before'[s]
      BY <1>2, <1>3, <1>4, <1>5, <2>2
    <3>2. t \notin before'[t]
      BY <1>2, <1>3, <1>5, <2>2 DEF WorkOK, AgesOrdered
    <3> QED BY <1>4, <1>5, <2>2, <3>1, <3>2
  <2>3. CASE t # s /\ u # s
    BY <1>2, <1>3, <1>4, <1>5, <2>3 DEF WorkOK, AgesOrdered
  <2> QED BY <2>1, <2>2, <2>3
<1>6. AgesOrdered'
  BY <1>5 DEF AgesOrdered
<1> QED BY <1>1, <1>2, <1>6

\* What a session whose job is j leaves sound.
LEMMA JobKeeps ==
  ASSUME WorkOK, NEW s \in Sessions, NEW j \in Jobs,
         job' = [job EXCEPT ![s] = j], j.version <= version, j.event.version <= version,
         UNCHANGED <<version, queue>>,
         \A t \in Sessions \ {s} : at'[t] = at[t],
         s \in Workers /\ at'[s] # "idle" => j.pos <= Len(queue[j.part])
  PROVE  job' \in [Sessions -> Jobs] /\ JobsSound'
<1>1. job' \in [Sessions -> Jobs]
  BY DEF WorkOK
<1>2. job'[s] = j /\ \A t \in Sessions \ {s} : job'[t] = job[t]
  BY DEF WorkOK
<1>3. \A t \in Sessions : job'[t].version <= version' /\ job'[t].event.version <= version'
  BY <1>2 DEF WorkOK, JobsSound
<1>4. ASSUME NEW w \in Workers, at'[w] # "idle" PROVE job'[w].pos <= Len(queue'[job'[w].part])
  <2>1. w \in Sessions
    BY DEF Sessions
  <2>2. CASE w = s
    BY <1>2, <1>4, <2>2
  <2>3. CASE w # s
    BY <1>2, <1>4, <2>1, <2>3 DEF WorkOK, JobsSound
  <2> QED BY <2>2, <2>3
<1> QED BY <1>1, <1>3, <1>4 DEF JobsSound

\* The same of a session that keeps its job.
LEMMA JobStays ==
  ASSUME WorkOK, NEW s \in Sessions, job' = job, UNCHANGED <<version, queue>>,
         \A t \in Sessions \ {s} : at'[t] = at[t],
         s \in Workers /\ at'[s] # "idle" => at[s] # "idle"
  PROVE  job' \in [Sessions -> Jobs] /\ JobsSound'
<1>1. \A w \in Workers : at'[w] # "idle" => at[w] # "idle"
  BY DEF Sessions
<1> QED BY <1>1 DEF WorkOK, JobsSound

\* A scoring transaction begins, or there is nothing to score.
LEMMA ScoresKeeps ==
  ASSUME WorkOK, ThesisOK, NEW s \in Sessions, ~ Open(s), NEW v \in Nat, v <= version, NEW j \in Jobs,
         j.version <= version, j.event.version <= version, s \in Workers => j.pos <= Len(queue[j.part]),
         Scores(s, v, j), UNCHANGED <<version, queue>>
  PROVE  WorkOK'
<1>1. CASE Versions(v) = {}
  <2>1. Closes(s, "done") /\ job' = [job EXCEPT ![s] = j] /\ UNCHANGED late
    BY <1>1 DEF Scores
  <2>2. /\ at' \in [Sessions -> SessionStages] /\ \A t \in Sessions \ {s} : at'[t] = at[t]
        /\ before' \in [Sessions -> SUBSET Sessions]
        /\ AgesOrdered'
    BY <2>1, ClosesKeeps DEF SessionStages
  <2>3. job' \in [Sessions -> Jobs] /\ JobsSound'
    BY <2>1, <2>2, JobKeeps
  <2> QED BY <2>1, <2>2, <2>3 DEF WorkOK
<1>2. CASE Versions(v) # {}
  <2> DEFINE n == CHOOSE w \in Versions(v) : TRUE
             k == [j EXCEPT !.version = n]
  <2>1. Begins(s, "scoring") /\ job' = [job EXCEPT ![s] = k]
    BY <1>2 DEF Scores
  <2>2. n \in Nat /\ n <= version
    <3>1. n \in Versions(v)
      BY <1>2
    <3> QED BY <3>1 DEF Versions, ThesisOK
  <2>3. k \in Jobs /\ k.version = n /\ k.pos = j.pos /\ k.part = j.part /\ k.event = j.event
    BY <2>2 DEF Jobs
  <2>4. /\ at' \in [Sessions -> SessionStages] /\ \A t \in Sessions \ {s} : at'[t] = at[t]
        /\ before' \in [Sessions -> SUBSET Sessions] /\ late' \in [Sessions -> BOOLEAN]
        /\ AgesOrdered'
    BY <2>1, BeginsKeeps
  <2> HIDE DEF k, n
  <2>5. job' \in [Sessions -> Jobs] /\ JobsSound'
    BY <2>1, <2>2, <2>3, <2>4, JobKeeps
  <2> QED BY <2>4, <2>5 DEF WorkOK
<1> QED BY <1>1, <1>2

\* What a member knows of an event it is handed.
LEMMA RecordJob ==
  ASSUME NEW p \in Parts, NEW pos \in Nat, NEW e \in Events
  PROVE  [part |-> p, pos |-> pos, event |-> e, labels |-> {}, version |-> 0] \in Jobs
BY DEF Jobs, LabelSets

LEMMA DeliveredJob ==
  ASSUME NEW p \in Parts, NEW pos \in Nat, NEW e \in Events,
         NEW j, j = [NoJob EXCEPT !.part = p, !.pos = pos, !.event = e]
  PROVE  j = [part |-> p, pos |-> pos, event |-> e, labels |-> {}, version |-> 0]
BY DEF NoJob

\* An event is handed to a member: the labels it reads are voters', and its version exists.
LEMMA SrcDeliverStep ==
  ASSUME IInv, NEW w \in Workers, NEW p \in Parts, Deliver(w, p)
  PROVE  IInv'
<1> DEFINE pos == acked[p] + 1
           e   == queue[p][pos]
           j   == [NoJob EXCEPT !.part = p, !.pos = pos, !.event = e]
<1>1. WorkOK /\ ThesisOK /\ BusOK /\ FeedOK /\ w \in Sessions
  BY SrcParts, NamesAssumption DEF Sessions
<1>2. /\ acked[p] < Len(queue[p])
      /\ \/ /\ Begins(w, "training")
            /\ job' = [job EXCEPT ![w] = [j EXCEPT !.labels = Labels]]
         \/ /\ Closes(w, "collecting")
            /\ job' = [job EXCEPT ![w] = j]
            /\ UNCHANGED late
         \/ Scores(w, e.version, j)
      /\ ~ Open(w)
      /\ UNCHANGED <<version, active, votes, seen, model, feed, queue, acked, editing, edits>>
  BY DEF Deliver, Open, thesisVars, busVars
<1>3. pos \in Nat /\ pos <= Len(queue[p]) /\ pos \in 1 .. Len(queue[p])
  BY <1>1, <1>2 DEF BusOK
<1>4. e \in Events /\ e.version <= version
  <2>1. queue[p] \in Seq(Events)
    BY <1>1 DEF BusOK
  <2> QED BY <1>1, <1>3, <2>1 DEF BusOK, RequestsExist
<1>5. e.version \in Nat
  BY <1>4 DEF Events
<1> HIDE DEF pos, e
<1>8. j \in Jobs /\ j.version = 0 /\ j.pos = pos /\ j.part = p /\ j.event = e
  <2> DEFINE k == [part |-> p, pos |-> pos, event |-> e, labels |-> {}, version |-> 0]
  <2>1. j = k
    <3>1. PICK x : x = j
      OBVIOUS
    <3>2. x = [NoJob EXCEPT !.part = p, !.pos = pos, !.event = e]
      BY <3>1
    <3> HIDE DEF j
    <3> QED BY <1>3, <1>4, <3>1, <3>2, DeliveredJob
  <2>2. k \in Jobs /\ k.version = 0 /\ k.pos = pos /\ k.part = p /\ k.event = e
    BY <1>3, <1>4, RecordJob
  <2> HIDE DEF j, k
  <2> QED BY <2>1, <2>2
<1>9. WorkOK'
  <2>1. CASE Begins(w, "training") /\ job' = [job EXCEPT ![w] = [j EXCEPT !.labels = Labels]]
    <3> DEFINE k == [j EXCEPT !.labels = Labels]
    <3>1. Begins(w, "training") /\ job' = [job EXCEPT ![w] = k]
      BY <1>2, <2>1
    <3>2. k \in Jobs /\ k.version = 0 /\ k.pos = pos /\ k.part = p /\ k.event = e
      BY <1>1, <1>8, LabelsType DEF Jobs
    <3> HIDE DEF k, j
    <3>3. /\ at' \in [Sessions -> SessionStages] /\ \A t \in Sessions \ {w} : at'[t] = at[t]
          /\ before' \in [Sessions -> SUBSET Sessions] /\ late' \in [Sessions -> BOOLEAN]
          /\ AgesOrdered'
      BY <1>1, <1>2, <3>1, BeginsKeeps
    <3>4. k.version <= version /\ k.event.version <= version
      BY <1>1, <1>4, <3>2 DEF ThesisOK
    <3>5. job' \in [Sessions -> Jobs] /\ JobsSound'
      BY <1>1, <1>2, <1>3, <3>1, <3>2, <3>3, <3>4, JobKeeps
    <3> QED BY <3>3, <3>5 DEF WorkOK
  <2>2. CASE Scores(w, e.version, j)
    <3> HIDE DEF j
    <3>1. Scores(w, e.version, j) /\ UNCHANGED <<version, queue>>
      BY <1>2, <2>2
    <3>2. j.version <= version /\ j.event.version <= version /\ j.pos <= Len(queue[j.part])
      BY <1>1, <1>3, <1>4, <1>8 DEF ThesisOK
    <3> QED BY <1>1, <1>2, <1>4, <1>5, <1>8, <3>1, <3>2, ScoresKeeps
  <2>3. CASE Closes(w, "collecting") /\ job' = [job EXCEPT ![w] = j] /\ UNCHANGED late
    <3> HIDE DEF j
    <3>1. /\ at' \in [Sessions -> SessionStages] /\ \A t \in Sessions \ {w} : at'[t] = at[t]
          /\ before' \in [Sessions -> SUBSET Sessions] /\ late' \in [Sessions -> BOOLEAN]
          /\ AgesOrdered'
      <4>1. "collecting" \in SessionStages \ {"training", "scoring", "ranked"}
        BY DEF SessionStages
      <4> QED BY <1>1, <2>3, <4>1, ClosesKeeps DEF WorkOK
    <3>2. j.version <= version /\ j.event.version <= version /\ j.pos <= Len(queue[j.part])
      BY <1>1, <1>3, <1>4, <1>8 DEF ThesisOK
    <3>3. job' \in [Sessions -> Jobs] /\ JobsSound'
      BY <1>1, <1>2, <1>8, <2>3, <3>1, <3>2, JobKeeps
    <3> QED BY <3>1, <3>3 DEF WorkOK
  <2> QED BY <1>2, <2>1, <2>2, <2>3
<1>10. ThesisOK' /\ BusOK' /\ FeedOK'
  BY <1>1, <1>2 DEF ThesisOK, BusOK, FeedOK, RequestsExist
<1> QED BY <1>9, <1>10, SrcPartsNext

\* Training and ranking.
LEMMA SrcTrainStep ==
  ASSUME IInv, NEW w \in Workers, Train(w)
  PROVE  IInv'
<1>1. WorkOK /\ ThesisOK /\ BusOK /\ FeedOK /\ w \in Sessions
  BY SrcParts, NamesAssumption DEF Sessions
<1>2. /\ at[w] = "training"
      /\ Closes(w, "trained") \/ Closes(w, "done")
      /\ model' \in {model, job[w].labels}
      /\ UNCHANGED <<version, active, votes, seen, feed, queue, acked, job, editing, edits>>
  BY DEF Train, thesisVars, busVars, histVars
<1>3. late' \in [Sessions -> BOOLEAN]
  <2>1. UNCHANGED late \/ Overtakes(w, {"training"})
    BY DEF Train
  <2>2. \A t \in Sessions : late[t] \in BOOLEAN
    BY <1>1 DEF WorkOK
  <2> QED BY <1>1, <2>1, <2>2 DEF WorkOK, Overtakes
<1>4. /\ at' \in [Sessions -> SessionStages] /\ \A t \in Sessions \ {w} : at'[t] = at[t]
      /\ before' \in [Sessions -> SUBSET Sessions]
      /\ AgesOrdered'
  BY <1>1, <1>2, ClosesKeeps DEF SessionStages
<1>5. job' \in [Sessions -> Jobs] /\ JobsSound'
  BY <1>1, <1>2, <1>4, JobStays
<1>6. WorkOK'
  BY <1>3, <1>4, <1>5 DEF WorkOK
<1>7. FeedOK'
  <2>1. job[w].labels \in LabelSets
    BY <1>1 DEF WorkOK, Jobs
  <2> QED BY <1>1, <1>2, <2>1 DEF FeedOK
<1>8. ThesisOK' /\ BusOK'
  BY <1>1, <1>2 DEF ThesisOK, BusOK, RequestsExist
<1> QED BY <1>6, <1>7, <1>8, SrcPartsNext

LEMMA SrcRescoreStep ==
  ASSUME IInv, NEW w \in Workers, Rescore(w)
  PROVE  IInv'
<1>1. WorkOK /\ ThesisOK /\ BusOK /\ FeedOK /\ w \in Sessions
  BY SrcParts, NamesAssumption DEF Sessions
<1>2. /\ at[w] = "trained" /\ ~ Open(w) /\ Scores(w, 0, job[w])
      /\ UNCHANGED <<version, active, votes, seen, model, feed, queue, acked, editing, edits>>
  BY DEF Rescore, Open, thesisVars, busVars
<1>3. /\ job[w] \in Jobs /\ job[w].version <= version /\ job[w].event.version <= version
      /\ job[w].pos <= Len(queue[job[w].part])
  BY <1>1, <1>2 DEF WorkOK, JobsSound
<1>4. 0 \in Nat /\ 0 <= version
  BY <1>1 DEF ThesisOK
<1>5. WorkOK'
  BY <1>1, <1>2, <1>3, <1>4, ScoresKeeps
<1>6. ThesisOK' /\ BusOK' /\ FeedOK'
  BY <1>1, <1>2 DEF ThesisOK, BusOK, FeedOK, RequestsExist
<1> QED BY <1>5, <1>6, SrcPartsNext

LEMMA SrcCollectedStep ==
  ASSUME IInv, NEW w \in Workers, Collected(w)
  PROVE  IInv'
<1>1. WorkOK /\ ThesisOK /\ BusOK /\ FeedOK /\ w \in Sessions
  BY SrcParts, NamesAssumption DEF Sessions
<1>2. /\ at[w] = "collecting" /\ ~ Open(w) /\ Scores(w, job[w].event.version, job[w])
      /\ UNCHANGED <<version, active, votes, seen, model, feed, queue, acked, editing, edits>>
  BY DEF Collected, Open, thesisVars, busVars
<1>3. /\ job[w] \in Jobs /\ job[w].version <= version /\ job[w].event.version <= version
      /\ job[w].pos <= Len(queue[job[w].part])
  BY <1>1, <1>2 DEF WorkOK, JobsSound
<1>4. job[w].event.version \in Nat /\ job[w].event.version <= version
  BY <1>1, <1>2, <1>3 DEF WorkOK, JobsSound, Jobs, Events
<1>5. WorkOK'
  BY <1>1, <1>2, <1>3, <1>4, ScoresKeeps
<1>6. ThesisOK' /\ BusOK' /\ FeedOK'
  BY <1>1, <1>2 DEF ThesisOK, BusOK, FeedOK, RequestsExist
<1> QED BY <1>5, <1>6, SrcPartsNext

LEMMA SrcRankStep ==
  ASSUME IInv, NEW s \in Sessions, Rank(s)
  PROVE  IInv'
<1> DEFINE k == [job[s] EXCEPT !.labels = model]
<1>1. WorkOK /\ ThesisOK /\ BusOK /\ FeedOK
  BY SrcParts
<1>2. /\ at[s] = "scoring" /\ at' = [at EXCEPT ![s] = "ranked"]
      /\ job' = [job EXCEPT ![s] = k]
      /\ UNCHANGED <<version, active, votes, seen, model, feed, queue, acked, before, late, editing, edits>>
  BY DEF Rank, thesisVars, busVars, histVars
<1>3. /\ at' \in [Sessions -> SessionStages] /\ at'[s] = "ranked"
      /\ \A t \in Sessions \ {s} : at'[t] = at[t]
  BY <1>1, <1>2 DEF WorkOK, SessionStages
<1>4. \A t \in Sessions : Open(t)' <=> Open(t)
  BY <1>2, <1>3 DEF Open
<1>5. job[s] \in Jobs /\ model \in LabelSets
  BY <1>1 DEF WorkOK, FeedOK
<1>6. /\ k \in Jobs /\ k.version = job[s].version /\ k.pos = job[s].pos /\ k.part = job[s].part
      /\ k.event = job[s].event
  BY <1>5 DEF Jobs
<1> HIDE DEF k
<1>7. k.version <= version /\ k.event.version <= version /\ (s \in Workers => k.pos <= Len(queue[k.part]))
  BY <1>1, <1>2, <1>6 DEF WorkOK, JobsSound
<1>8. job' \in [Sessions -> Jobs] /\ JobsSound'
  BY <1>1, <1>2, <1>3, <1>6, <1>7, JobKeeps
<1>9. WorkOK'
  <2>1. AgesOrdered'
    BY <1>1, <1>2, <1>4 DEF WorkOK, AgesOrdered
  <2> QED BY <1>1, <1>2, <1>3, <1>8, <2>1 DEF WorkOK
<1>10. ThesisOK' /\ BusOK' /\ FeedOK'
  BY <1>1, <1>2 DEF ThesisOK, BusOK, FeedOK, RequestsExist
<1> QED BY <1>9, <1>10, SrcPartsNext

LEMMA SrcFinishStep ==
  ASSUME IInv, NEW s \in Sessions, Finish(s)
  PROVE  IInv'
<1>1. WorkOK /\ ThesisOK /\ BusOK /\ FeedOK
  BY SrcParts
<1>2. /\ at[s] = "ranked"
      /\ Closes(s, "idle") \/ Closes(s, "done")
      /\ UNCHANGED feed \/ feed' = [version |-> job[s].version, model |-> job[s].labels]
      /\ UNCHANGED <<version, active, votes, seen, model, queue, acked, job, editing, edits>>
  BY DEF Finish, thesisVars, busVars, histVars
<1>3. late' \in [Sessions -> BOOLEAN]
  <2>1. UNCHANGED late \/ Overtakes(s, {"scoring", "ranked"})
    BY DEF Finish
  <2>2. \A t \in Sessions : late[t] \in BOOLEAN
    BY <1>1 DEF WorkOK
  <2> QED BY <1>1, <2>1, <2>2 DEF WorkOK, Overtakes
<1>4. /\ at' \in [Sessions -> SessionStages] /\ \A t \in Sessions \ {s} : at'[t] = at[t]
      /\ before' \in [Sessions -> SUBSET Sessions]
      /\ AgesOrdered'
  BY <1>1, <1>2, ClosesKeeps DEF SessionStages
<1>5. job' \in [Sessions -> Jobs] /\ JobsSound'
  BY <1>1, <1>2, <1>4, JobStays
<1>6. WorkOK'
  BY <1>3, <1>4, <1>5 DEF WorkOK
<1>7. FeedOK'
  <2>1. job[s].labels \in LabelSets /\ job[s].version \in Nat /\ job[s].version <= version
    BY <1>1 DEF WorkOK, Jobs, JobsSound
  <2> QED BY <1>1, <1>2, <2>1 DEF FeedOK
<1>8. ThesisOK' /\ BusOK'
  BY <1>1, <1>2 DEF ThesisOK, BusOK, RequestsExist
<1> QED BY <1>6, <1>7, <1>8, SrcPartsNext

\* The offset stays within its partition: the event that is done is on it.
LEMMA SrcAckStep ==
  ASSUME IInv, NEW w \in Workers, Ack(w)
  PROVE  IInv'
<1>1. WorkOK /\ ThesisOK /\ BusOK /\ FeedOK /\ w \in Sessions
  BY SrcParts, NamesAssumption DEF Sessions
<1>2. /\ at[w] = "done" /\ at' = [at EXCEPT ![w] = "idle"]
      /\ job' = [job EXCEPT ![w] = NoJob]
      /\ acked' = IF acked[job[w].part] < job[w].pos
                    THEN [acked EXCEPT ![job[w].part] = job[w].pos] ELSE acked
      /\ UNCHANGED <<version, active, votes, seen, model, feed, queue, before, late, editing, edits>>
  BY DEF Ack, thesisVars, histVars
<1>3. NoJob \in Jobs /\ NoJob.version = 0 /\ NoJob.event.version = 0
  BY DEF Jobs, NoJob, LabelSets, Parts, Feedback, Events
<1>4. /\ at' \in [Sessions -> SessionStages] /\ at'[w] = "idle"
      /\ \A t \in Sessions \ {w} : at'[t] = at[t]
  BY <1>1, <1>2 DEF WorkOK, SessionStages
<1>5. \A t \in Sessions : Open(t)' <=> Open(t)
  BY <1>2, <1>4 DEF Open
<1>6. job' \in [Sessions -> Jobs] /\ JobsSound'
  <2>1. NoJob.version <= version /\ NoJob.event.version <= version
    BY <1>1, <1>3 DEF ThesisOK
  <2> QED BY <1>1, <1>2, <1>3, <1>4, <2>1, JobKeeps
<1>7. WorkOK'
  <2>1. AgesOrdered'
    BY <1>1, <1>2, <1>5 DEF WorkOK, AgesOrdered
  <2> QED BY <1>1, <1>2, <1>4, <1>6, <2>1 DEF WorkOK
<1>8. BusOK'
  <2>1. job[w].part \in Parts /\ job[w].pos \in Nat /\ job[w].pos <= Len(queue[job[w].part])
    BY <1>1, <1>2 DEF WorkOK, Jobs, JobsSound
  <2>2. acked' \in [Parts -> Nat] /\ \A p \in Parts : acked'[p] \in 0 .. Len(queue[p])
    BY <1>1, <1>2, <2>1 DEF BusOK
  <2> QED BY <1>1, <1>2, <2>2 DEF BusOK, RequestsExist
<1>9. ThesisOK' /\ FeedOK'
  BY <1>1, <1>2 DEF ThesisOK, FeedOK
<1> QED BY <1>7, <1>8, <1>9, SrcPartsNext

\* A transaction is rolled back: by its handler's failure, a member's crash or the daily
\* workflow's failure.
LEMMA SrcRollback ==
  ASSUME IInv, NEW s \in Sessions, NEW next \in {"idle", "done"}, Closes(s, next),
         at[s] # "idle",
         job' = job \/ (next = "idle" /\ job' = [job EXCEPT ![s] = NoJob]),
         UNCHANGED <<version, active, votes, seen, model, feed, queue, acked, late, editing, edits>>
  PROVE  IInv'
<1>1. WorkOK /\ ThesisOK /\ BusOK /\ FeedOK
  BY SrcParts
<1>2. NoJob \in Jobs /\ NoJob.version = 0 /\ NoJob.event.version = 0
  BY DEF Jobs, NoJob, LabelSets, Parts, Feedback, Events
<1>3. /\ at' \in [Sessions -> SessionStages] /\ at'[s] = next
      /\ \A t \in Sessions \ {s} : at'[t] = at[t]
      /\ before' \in [Sessions -> SUBSET Sessions]
      /\ AgesOrdered'
  BY <1>1, ClosesKeeps DEF SessionStages
<1>4. job' \in [Sessions -> Jobs] /\ JobsSound'
  <2>1. CASE job' = job
    BY <1>1, <1>3, <2>1, JobStays
  <2>2. CASE next = "idle" /\ job' = [job EXCEPT ![s] = NoJob]
    <3>1. NoJob.version <= version /\ NoJob.event.version <= version
      BY <1>1, <1>2 DEF ThesisOK
    <3>2. next = "idle" /\ job' = [job EXCEPT ![s] = NoJob]
      BY <2>2
    <3> QED BY <1>1, <1>2, <1>3, <3>1, <3>2, JobKeeps
  <2> QED BY <2>1, <2>2
<1>5. WorkOK'
  BY <1>1, <1>3, <1>4 DEF WorkOK
<1>6. ThesisOK' /\ BusOK' /\ FeedOK'
  BY <1>1 DEF ThesisOK, BusOK, FeedOK, RequestsExist
<1> QED BY <1>5, <1>6, SrcPartsNext

LEMMA SrcDailyStep ==
  ASSUME IInv, DailyScores
  PROVE  IInv'
<1>1. WorkOK /\ ThesisOK /\ BusOK /\ FeedOK /\ Daily \in Sessions /\ Daily \notin Workers
  BY SrcParts, NamesAssumption DEF Sessions
<1>2. /\ ~ Open(Daily) /\ Scores(Daily, 0, NoJob)
      /\ UNCHANGED <<version, active, votes, seen, model, feed, queue, acked, editing, edits>>
  BY DEF DailyScores, Open, thesisVars, busVars
<1>3. NoJob \in Jobs /\ NoJob.version = 0 /\ NoJob.event.version = 0
  BY DEF Jobs, NoJob, LabelSets, Parts, Feedback, Events
<1>4. 0 \in Nat /\ 0 <= version /\ UNCHANGED <<version, queue>>
  BY <1>1, <1>2 DEF ThesisOK
<1>5. WorkOK'
  BY <1>1, <1>2, <1>3, <1>4, ScoresKeeps
<1>6. ThesisOK' /\ BusOK' /\ FeedOK'
  BY <1>1, <1>2 DEF ThesisOK, BusOK, FeedOK, RequestsExist
<1> QED BY <1>5, <1>6, SrcPartsNext

LEMMA SrcStep ==
  ASSUME IInv, [Next]_vars
  PROVE  IInv'
<1>1. CASE UNCHANGED vars
  <2>1. WorkOK /\ ThesisOK /\ BusOK /\ FeedOK
    BY SrcParts
  <2>2. WorkOK'
    BY <1>1, <2>1 DEF vars, WorkOK, AgesOrdered, Open, JobsSound
  <2>3. ThesisOK' /\ BusOK' /\ FeedOK'
    BY <1>1, <2>1 DEF vars, ThesisOK, BusOK, FeedOK, RequestsExist
  <2> QED BY <2>2, <2>3, SrcPartsNext
<1>2. CASE UserNext
  BY <1>2, SrcUserStep
<1>3. CASE WorkNext
  <2>0. Daily \in Sessions /\ Workers \subseteq Sessions
    BY DEF Sessions
  <2>1. ASSUME NEW w \in Workers, WorkerStep(w) PROVE IInv'
    BY <2>0, <2>1, SrcCollectedStep, SrcTrainStep, SrcRescoreStep, SrcRankStep, SrcFinishStep, SrcAckStep DEF WorkerStep
  <2>2. ASSUME NEW w \in Workers, Fails(w) PROVE IInv'
    BY <2>0, <2>2, SrcRollback DEF Fails, thesisVars, busVars
  <2>3. ASSUME NEW w \in Workers, Crash(w) PROVE IInv'
    BY <2>0, <2>3, SrcRollback DEF Crash, thesisVars, busVars
  <2>4. ASSUME NEW w \in Workers, NEW p \in Parts, Deliver(w, p) PROVE IInv'
    BY <2>4, SrcDeliverStep
  <2>6. ASSUME NEW p \in Parts, Resend(p) PROVE IInv'
    BY <2>6, SrcResendStep
  <2>5. CASE DailyFails
    BY <2>0, <2>5, SrcRollback DEF DailyFails, Open, thesisVars, busVars
  <2> QED
    BY <1>3, <2>0, <2>1, <2>2, <2>3, <2>4, <2>5, <2>6, SrcDailyStep, SrcRankStep, SrcFinishStep DEF WorkNext
<1> QED BY <1>1, <1>2, <1>3 DEF Next

\* The sourcing invariant holds for any users, voters, members, orders of transactions and faults.
THEOREM SourcingInvariant == Spec => []IInv
<1>1. Init => IInv
  BY SrcInit
<1>2. IInv /\ [Next]_vars => IInv'
  BY SrcStep
<1> QED BY <1>1, <1>2, PTL DEF Spec

\* Each accepted edit is a version of its own.
THEOREM EditsKept == Spec => []Inv
<1>1. IInv => Inv
  BY DEF IInv
<1> QED BY <1>1, SourcingInvariant, PTL
=============================================================================
