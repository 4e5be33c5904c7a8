--------------------------- MODULE CollectionProofs ---------------------------
(***************************************************************************)
(* Proofs about Collection, for any companies, transactions, sources, days *)
(* and faults.                                                             *)
(*                                                                         *)
(* The three invariants are about committed data; IInv says of the data    *)
(* being written what makes them hold after the commit.  Each part of it   *)
(* is kept by every statement: InHand and TypeOK together, then            *)
(* MirrorSound, RowsSound and, with the help of RowsSound, IdsSound.       *)
(***************************************************************************)
EXTENDS Collection, TLAPS

-----------------------------------------------------------------------------
(* The types, and what sessions have in hand. *)

\* A mention has an identifier or none.
LEMMA IdTypes ==
  ASSUME TypeOK, InHand, NEW s \in Sessions, at[s] \in Working
  PROVE  MentionId(s) \in Ids \cup {Null}
BY MentionAssumption DEF InHand, MentionId, TypeOK

\* The columns that statements set keep the type of a row.
LEMMA RowEdits ==
  ASSUME NEW r \in Rows, NEW text \in Texts \cup {Null}, NEW b \in BOOLEAN
  PROVE  /\ [r EXCEPT !.desc = text] \in Rows
         /\ [r EXCEPT !.desc = text, !.off = b] \in Rows
         /\ [r EXCEPT !.emb = text, !.off = b] \in Rows
         /\ [r EXCEPT !.off = b] \in Rows
BY DEF Rows

\* Writing a row keeps the types of rows and locks.
LEMMA WriteTypes ==
  ASSUME TypeOK, NEW s \in Sessions, NEW c \in Companies, NEW r \in Rows, Writes(s, c, r)
  PROVE  row' \in [Companies -> Rows] /\ lock' \in [Companies -> Sessions \cup {Null}]
BY DEF Writes, TypeOK

\* What each statement leaves alone of the other sessions.
LEMMA OthersInHand ==
  ASSUME TypeOK, InHand, NEW s \in Sessions, NEW t \in Sessions \ {s},
         at'[t] = at[t], item'[t] = item[t], target'[t] = target[t], sought'[t] = sought[t]
  PROVE  /\ at'[t] \in Working => item'[t].feed \in Mentions
         /\ at'[t] \in Settled => target'[t] \in Companies
         /\ at'[t] \in {"store", "mirror"} => item'[t].feed \in Feeds
         /\ at'[t] \in {"match", "identify", "bear"} => {MentionId(t)'} \ {Null} \subseteq sought'[t]
         /\ at'[t] \in {"identify", "bear"} => MentionId(t)' # Null
BY DEF InHand, MentionId

LEMMA ResolveTypes ==
  ASSUME TypeOK, InHand, NEW s \in Sessions, ResolveStep(s)
  PROVE  TypeOK' /\ InHand'
<1> USE DEF tables, calls, resolver, Goes, Resolved, Working, Settled, Statements
<1> DEFINE k == MentionId(s)
<1>1. CASE LookUpHits(s)
  <2>1. k \in Ids /\ Known(s, k) \in Companies
    BY <1>1, IdTypes DEF LookUpHits, Known, TypeOK
  <2>2. TypeOK'
    BY <1>1, <2>1 DEF LookUpHits, TypeOK
  <2>3. InHand'
    BY <1>1, <2>1, OthersInHand DEF LookUpHits, InHand, TypeOK, MentionId
  <2> QED
    BY <2>2, <2>3
<1>2. CASE LookUpMisses(s)
  <2>1. k \in Ids \cup {Null}
    BY <1>2, IdTypes DEF LookUpMisses
  <2>2. TypeOK'
    BY <1>2, <2>1 DEF LookUpMisses, TypeOK
  <2>3. InHand'
    BY <1>2, <2>1 DEF LookUpMisses, InHand, TypeOK, MentionId
  <2> QED
    BY <2>2, <2>3
<1>3. ASSUME NEW c \in Companies, Link(s, c) PROVE TypeOK' /\ InHand'
  <2>1. TypeOK'
    BY <1>3 DEF Link, TypeOK
  <2>2. InHand'
    BY <1>3 DEF Link, InHand, TypeOK, MentionId
  <2> QED
    BY <2>1, <2>2
<1>4. ASSUME NEW c \in Companies, Create(s, c) PROVE TypeOK' /\ InHand'
  <2> DEFINE r == [there |-> TRUE, bears |-> {k} \ {Null}, desc |-> item[s].text,
                   emb |-> Null, off |-> FALSE]
  <2>1. r \in Rows
    BY <1>4, IdTypes DEF Create, Rows, TypeOK
  <2>2. row' \in [Companies -> Rows] /\ lock' \in [Companies -> Sessions \cup {Null}]
    BY <1>4, <2>1, WriteTypes DEF Create
  <2>3. TypeOK'
    BY <1>4, <2>2 DEF Create, TypeOK
  <2>4. InHand'
    BY <1>4 DEF Create, InHand, TypeOK, MentionId
  <2> QED
    BY <2>3, <2>4
<1>5. CASE Identify(s)
  <2>1. k \in Ids /\ target[s] \in Companies
    BY <1>5, IdTypes DEF Identify, InHand
  <2>2. TypeOK'
    BY <1>5, <2>1 DEF Identify, TypeOK
  <2>3. InHand'
    BY <1>5, <2>1 DEF Identify, InHand, TypeOK, MentionId
  <2> QED
    BY <2>2, <2>3
<1>6. CASE Bear(s)
  <2>1. k \in Ids /\ target[s] \in Companies
    BY <1>6, IdTypes DEF Bear, InHand
  <2> DEFINE had == row[target[s]].bears
             has == had \cup (IF \E j \in had : Kind[j] = Kind[k] THEN {} ELSE {k})
             r   == [row[target[s]] EXCEPT !.bears = has]
  <2>2. r \in Rows
    <3>1. row[target[s]] \in Rows
      BY <2>1 DEF TypeOK
    <3>2. has \subseteq Ids
      BY <2>1, <3>1 DEF Rows
    <3> HIDE DEF has
    <3> QED
      BY <3>1, <3>2 DEF Rows
  <2>3. Writes(s, target[s], r)
    BY <1>6 DEF Bear
  <2>4. row' \in [Companies -> Rows] /\ lock' \in [Companies -> Sessions \cup {Null}]
    BY <2>1, <2>2, <2>3, WriteTypes
  <2>5. TypeOK'
    BY <1>6, <2>4 DEF Bear, TypeOK
  <2>6. InHand'
    BY <1>6, <2>1 DEF Bear, InHand, TypeOK, MentionId
  <2> QED
    BY <2>5, <2>6
<1> QED
  BY <1>1, <1>2, <1>3, <1>4, <1>5, <1>6 DEF ResolveStep

LEMMA ProfileTypes ==
  ASSUME TypeOK, InHand, NEW s \in Sessions, ProfileStep(s)
  PROVE  TypeOK' /\ InHand'
<1> USE DEF tables, calls, resolver, Goes, Working, Settled, Statements, SourceKinds
<1> DEFINE c == target[s]
<1>1. CASE Fill(s)
  <2>1. c \in Companies
    BY <1>1 DEF Fill, InHand
  <2> DEFINE text == Given(row[c].desc, item[s].text)
  <2>2. [row[c] EXCEPT !.desc = text] \in Rows
    <3>1. row[c] \in Rows /\ text \in Texts \cup {Null}
      BY <2>1 DEF Rows, TypeOK, Given
    <3> HIDE DEF text
    <3> QED
      BY <3>1, RowEdits
  <2>3. row' \in [Companies -> Rows] /\ lock' \in [Companies -> Sessions \cup {Null}]
    BY <1>1, <2>1, <2>2, WriteTypes DEF Fill
  <2> QED
    BY <1>1, <2>3 DEF Fill, TypeOK, InHand, MentionId
<1>2. CASE ReadProfile(s)
  <2>1. c \in Companies
    BY <1>2 DEF ReadProfile, InHand
  <2>2. View(s, c) \in Rows
    BY <2>1 DEF View, TypeOK
  <2>3. TypeOK'
    BY <1>2, <2>1, <2>2 DEF ReadProfile, TypeOK, Rows
  <2>4. InHand'
    BY <1>2, <2>1 DEF ReadProfile, InHand, MentionId, TypeOK
  <2> QED
    BY <2>3, <2>4
<1>3. CASE Update(s)
  <2> DEFINE late == row[c].desc # found[s].desc
             said == IF Authoritative(s) THEN Given(item[s].text, row[c].desc)
                                         ELSE Given(row[c].desc, item[s].text)
  <2>1. c \in Companies
    BY <1>3 DEF Update, InHand
  <2>2. said \in Texts \cup {Null} /\ late \in BOOLEAN
    BY <2>1 DEF Given, Rows, TypeOK
  <2>3. [row[c] EXCEPT !.desc = said, !.off = @ \/ late] \in Rows
    <3>1. row[c] \in Rows
      BY <2>1 DEF TypeOK
    <3>2. (row[c].off \/ late) \in BOOLEAN
      OBVIOUS
    <3> HIDE DEF said, late
    <3> QED
      BY <2>2, <3>1, <3>2, RowEdits
  <2>4. Writes(s, c, [row[c] EXCEPT !.desc = said, !.off = @ \/ late])
    BY <1>3 DEF Update
  <2>5. row' \in [Companies -> Rows] /\ lock' \in [Companies -> Sessions \cup {Null}]
    BY <2>1, <2>3, <2>4, WriteTypes
  <2>6. found' \in [Sessions -> [desc : Texts \cup {Null}, emb : BOOLEAN, late : BOOLEAN]]
    BY <1>3, <2>2 DEF Update, TypeOK
  <2>7. TypeOK'
    BY <1>3, <2>5, <2>6 DEF Update, TypeOK
  <2>8. InHand'
    BY <1>3, <2>1 DEF Update, InHand, MentionId, TypeOK, Feeds
  <2> QED
    BY <2>7, <2>8
<1>4. CASE Embed(s)
  <2>1. c \in Companies
    BY <1>4 DEF Embed, InHand
  <2>2. NewDesc(s) \in Texts \cup {Null}
    BY DEF NewDesc, TypeOK
  <2>3. [row[c] EXCEPT !.emb = NewDesc(s), !.off = found[s].late] \in Rows
    <3>1. row[c] \in Rows /\ found[s].late \in BOOLEAN
      BY <2>1 DEF TypeOK
    <3> QED
      BY <2>2, <3>1, RowEdits
  <2>4. row' \in [Companies -> Rows] /\ lock' \in [Companies -> Sessions \cup {Null}]
    BY <1>4, <2>1, <2>3, WriteTypes DEF Embed
  <2>5. TypeOK'
    BY <1>4, <2>4 DEF Embed, TypeOK
  <2>6. InHand'
    BY <1>4, <2>1 DEF Embed, InHand, MentionId, TypeOK, Feeds
  <2> QED
    BY <2>5, <2>6
<1>5. CASE EmbedFails(s)
  <2>1. row' \in [Companies -> Rows] /\ lock' \in [Companies -> Sessions \cup {Null}]
    <3>1. CASE UNCHANGED <<row, lock>>
      BY <3>1 DEF TypeOK
    <3>2. CASE at[s] = "embed" /\ Writes(s, c, [row[c] EXCEPT !.off = TRUE])
      <4>1. c \in Companies
        BY <3>2 DEF InHand
      <4>2. [row[c] EXCEPT !.off = TRUE] \in Rows
        BY <4>1, RowEdits DEF TypeOK
      <4> QED
        BY <3>2, <4>1, <4>2, WriteTypes
    <3> QED
      BY <1>5, <3>1, <3>2 DEF EmbedFails
  <2>2. TypeOK'
    BY <1>5, <2>1, BoundAssumption DEF EmbedFails, Fault, TypeOK
  <2>3. InHand'
    BY <1>5 DEF EmbedFails, InHand, MentionId, TypeOK
  <2> QED
    BY <2>2, <2>3
<1> QED
  BY <1>1, <1>2, <1>3, <1>4, <1>5 DEF ProfileStep

\* An observation in work is one of a company at a feed.
LEMMA KeyType ==
  ASSUME TypeOK, InHand, NEW s \in Sessions, at[s] \in {"store", "mirror"}
  PROVE  Key(s) \in Observations
BY DEF Key, Observations, InHand, Settled

LEMMA RecordTypes ==
  ASSUME TypeOK, InHand, NEW s \in Sessions, RecordStep(s)
  PROVE  TypeOK' /\ InHand'
<1> USE DEF tables, calls, resolver, Goes, Working, Settled, Statements
<1>1. CASE Store(s)
  <2>1. TypeOK'
    BY <1>1, KeyType DEF Store, TypeOK
  <2>2. InHand'
    BY <1>1 DEF Store, InHand, MentionId, TypeOK
  <2> QED
    BY <2>1, <2>2
<1>2. CASE Mirror(s)
  BY <1>2, KeyType DEF Mirror, TypeOK, InHand, MentionId
<1>3. CASE MirrorFails(s)
  <2>1. TypeOK'
    BY <1>3, KeyType, BoundAssumption DEF MirrorFails, Fault, TypeOK
  <2>2. InHand'
    BY <1>3 DEF MirrorFails, InHand, MentionId, TypeOK
  <2> QED
    BY <2>1, <2>2
<1> QED
  BY <1>1, <1>2, <1>3 DEF RecordStep

LEMMA ClosesTypes ==
  ASSUME TypeOK, InHand, NEW s \in Sessions, Closes(s), UNCHANGED <<item, target>>
  PROVE  /\ lock' \in [Companies -> Sessions \cup {Null}]
         /\ holder' \in [Mentions \X Days -> Sessions \cup {Null}]
         /\ sought' \in [Sessions -> SUBSET Ids]
         /\ at' \in [Sessions -> Statements]
         /\ InHand'
<1>1. lock' \in [Companies -> Sessions \cup {Null}]
  BY DEF Closes, TypeOK
<1>2. holder' \in [Mentions \X Days -> Sessions \cup {Null}]
  BY DEF Closes, TypeOK
<1>3. sought' \in [Sessions -> SUBSET Ids] /\ at' \in [Sessions -> Statements]
  BY DEF Closes, Goes, TypeOK, Statements
<1>4. InHand'
  BY DEF Closes, Goes, TypeOK, InHand, MentionId, Working, Settled
<1> QED
  BY <1>1, <1>2, <1>3, <1>4

LEMMA CommitTypes ==
  ASSUME TypeOK, InHand, NEW s \in Sessions, Commit(s)
  PROVE  TypeOK' /\ InHand'
<1>1. kept' \in [Companies -> Rows]
  BY DEF Commit, TypeOK
<1>2. ident' \in [Ids -> [to : Companies \cup {Null}, by : Sessions \cup {Null}]]
  BY DEF Commit, TypeOK
<1>3. obs' \in [Observations -> Sessions \cup {"free", "stored"}]
  BY DEF Commit, TypeOK
<1> QED
  BY <1>1, <1>2, <1>3, ClosesTypes DEF Commit, TypeOK, calls

LEMMA FailsTypes ==
  ASSUME TypeOK, InHand, NEW s \in Sessions, Fails(s)
  PROVE  TypeOK' /\ InHand'
<1>1. row' \in [Companies -> Rows]
  BY DEF Fails, TypeOK
<1>2. ident' \in [Ids -> [to : Companies \cup {Null}, by : Sessions \cup {Null}]]
  BY DEF Fails, TypeOK
<1>3. obs' \in [Observations -> Sessions \cup {"free", "stored"}]
  BY DEF Fails, TypeOK
<1>4. undone' \in [Observations -> Nat]
  BY DEF Fails, TypeOK
<1>5. faults' \in 0 .. MaxFaults
  BY BoundAssumption DEF Fails, Fault, TypeOK
<1> QED
  BY <1>1, <1>2, <1>3, <1>4, <1>5, ClosesTypes DEF Fails, TypeOK

\* The statements that only move a session on.
Moves(s) ==
  \/ Begin(s) \/ NextPhase(s)
  \/ \E m \in Mentions, d \in Days, text \in Texts \cup {Null} : TakeUp(s, m, d, text)
  \/ \E c \in Companies, p \in Probes : Observe(s, c, p)

LEMMA MovesTypes ==
  ASSUME TypeOK, InHand, NEW s \in Sessions, Moves(s)
  PROVE  TypeOK' /\ InHand'
<1> USE DEF tables, calls, resolver, Goes, Working, Settled, Statements, SourceKinds
<1>1. CASE Begin(s)
  BY <1>1 DEF Begin, TypeOK, InHand, MentionId
<1>2. CASE NextPhase(s)
  BY <1>2 DEF NextPhase, TypeOK, InHand, MentionId
<1>3. ASSUME NEW m \in Mentions, NEW d \in Days, NEW text \in Texts \cup {Null},
             TakeUp(s, m, d, text)
      PROVE  TypeOK' /\ InHand'
  <2>1. TypeOK'
    <3>1. holder' \in [Mentions \X Days -> Sessions \cup {Null}]
      BY <1>3 DEF TakeUp, TypeOK
    <3>2. taken' \in [Sessions -> 0 .. MaxMentions]
      BY <1>3, BoundAssumption DEF TakeUp, TypeOK
    <3> QED
      BY <1>3, <3>1, <3>2 DEF TakeUp, TypeOK, Feeds
  <2>2. InHand'
    BY <1>3 DEF TakeUp, TypeOK, InHand, MentionId
  <2> QED
    BY <2>1, <2>2
<1>4. ASSUME NEW c \in Companies, NEW p \in Probes, Observe(s, c, p)
      PROVE  TypeOK' /\ InHand'
  BY <1>4 DEF Observe, TypeOK, InHand, MentionId, Feeds
<1> QED
  BY <1>1, <1>2, <1>3, <1>4 DEF Moves

LEMMA TypesStep ==
  ASSUME TypeOK, InHand, NEW s \in Sessions, SessionStep(s)
  PROVE  TypeOK' /\ InHand'
BY MovesTypes, ResolveTypes, ProfileTypes, RecordTypes, CommitTypes, FailsTypes
DEF SessionStep, Moves

-----------------------------------------------------------------------------
(* Observations and their mirror. *)

\* The session at hand is the only one that moves.
LEMMA OnlyMoves ==
  ASSUME TypeOK, NEW s \in Sessions, SessionStep(s)
  PROVE  \A t \in Sessions \ {s} :
           /\ at'[t] = at[t] /\ item'[t] = item[t] /\ target'[t] = target[t]
           /\ found'[t] = found[t] /\ phase'[t] = phase[t] /\ sought'[t] = sought[t]
<1> USE DEF tables, calls, resolver, Goes, Resolved, TypeOK
<1>1. CASE Begin(s) \/ NextPhase(s)
  BY <1>1 DEF Begin, NextPhase
<1>2. ASSUME NEW m \in Mentions, NEW d \in Days, NEW text \in Texts \cup {Null},
             TakeUp(s, m, d, text)
      PROVE  \A t \in Sessions \ {s} :
               /\ at'[t] = at[t] /\ item'[t] = item[t] /\ target'[t] = target[t]
               /\ found'[t] = found[t] /\ phase'[t] = phase[t] /\ sought'[t] = sought[t]
  BY <1>2 DEF TakeUp
<1>3. ASSUME NEW c \in Companies, NEW p \in Probes, Observe(s, c, p)
      PROVE  \A t \in Sessions \ {s} :
               /\ at'[t] = at[t] /\ item'[t] = item[t] /\ target'[t] = target[t]
               /\ found'[t] = found[t] /\ phase'[t] = phase[t] /\ sought'[t] = sought[t]
  BY <1>3 DEF Observe
<1>4. CASE ResolveStep(s)
  BY <1>4 DEF ResolveStep, LookUpHits, LookUpMisses, Link, Create, Identify, Bear
<1>5. CASE ProfileStep(s)
  BY <1>5 DEF ProfileStep, Fill, ReadProfile, Update, Embed, EmbedFails
<1>6. CASE RecordStep(s)
  BY <1>6 DEF RecordStep, Store, Mirror, MirrorFails
<1>7. CASE Commit(s) \/ Fails(s)
  BY <1>7 DEF Commit, Fails, Closes
<1> QED
  BY <1>1, <1>2, <1>3, <1>4, <1>5, <1>6, <1>7 DEF SessionStep

\* Steps that insert no observation and call no mirror.
LEMMA MirrorFrame ==
  ASSUME TypeOK, MirrorSound, NEW s \in Sessions, SessionStep(s),
         at[s] # "mirror", at'[s] # "mirror", UNCHANGED <<obs, mirror, missed, undone>>
  PROVE  MirrorSound'
<1>1. \A t \in Sessions \ {s} : at'[t] = at[t] /\ Key(t)' = Key(t)
  BY OnlyMoves DEF Key
<1>2. \A o \in Observations : Called(o)' = Called(o)
  BY <1>1 DEF Called, TypeOK
<1>3. \A o \in Observations : Calls(o)' = Calls(o)
  BY <1>2 DEF Calls, Written
<1> QED
  BY <1>1, <1>3 DEF MirrorSound

LEMMA StoreMirror ==
  ASSUME TypeOK, InHand, MirrorSound, NEW s \in Sessions, SessionStep(s), Store(s)
  PROVE  MirrorSound'
<1> DEFINE o == Key(s)
<1>1. o \in Observations /\ o' = o
  BY KeyType DEF Store, Key
<1>2. CASE obs[o] # "free"
  BY <1>2, MirrorFrame DEF Store, Goes, calls, TypeOK
<1>3. CASE obs[o] = "free"
  <2>1. obs' = [obs EXCEPT ![o] = s] /\ at' = [at EXCEPT ![s] = "mirror"]
    BY <1>3 DEF Store, Goes
  <2>2. UNCHANGED <<mirror, missed, undone, item, target>>
    BY DEF Store, calls
  <2>3. \A t \in Sessions \ {s} : at'[t] = at[t] /\ Key(t)' = Key(t)
    BY OnlyMoves DEF Key
  <2>4. ASSUME NEW e \in Observations PROVE Called(e)' <=> Called(e)
    <3>1. CASE e = o
      BY <1>1, <1>3, <2>1, <3>1, StateAssumption DEF Called, TypeOK
    <3>2. CASE e # o
      BY <1>1, <2>1, <2>3, <3>2 DEF Called, TypeOK, Store
    <3> QED
      BY <3>1, <3>2
  <2>5. \A e \in Observations : Calls(e)' = Calls(e)
    BY <1>1, <1>3, <2>1, <2>2, <2>4, StateAssumption DEF Calls, Written, TypeOK
  <2>6. \A t \in Sessions : at'[t] = "mirror" => obs'[Key(t)'] = t
    BY <1>1, <1>3, <2>1, <2>3, StateAssumption, KeyType DEF MirrorSound, TypeOK
  <2> QED
    BY <2>2, <2>5, <2>6 DEF MirrorSound
<1> QED
  BY <1>2, <1>3

\* The call is made, or fails: the observation at hand is accounted for.
LEMMA CallMirror ==
  ASSUME TypeOK, InHand, MirrorSound, NEW s \in Sessions, SessionStep(s),
         Mirror(s) \/ MirrorFails(s)
  PROVE  MirrorSound'
<1> DEFINE o == Key(s)
<1>1. o \in Observations /\ obs[o] = s /\ at[s] = "mirror"
  BY KeyType DEF Mirror, MirrorFails, MirrorSound
<1>2. at' = [at EXCEPT ![s] = "next"] /\ UNCHANGED <<obs, undone, item, target>>
  BY DEF Mirror, MirrorFails, Goes, tables
<1>3. \A t \in Sessions : Key(t)' = Key(t) /\ (t # s => at'[t] = at[t])
  BY <1>2, OnlyMoves DEF Key
<1>4. \A e \in Observations \ {o} : Called(e)' <=> Called(e)
  BY <1>1, <1>2, <1>3 DEF Called, TypeOK
<1>5. \A e \in {o} : ~ Called(e) /\ Called(e)'
  BY <1>1, <1>2, <1>3 DEF Called, TypeOK
<1>6. \A e \in Observations : Calls(e)' = Calls(e) + (IF e = o THEN 1 ELSE 0)
  BY <1>1, <1>2, <1>4, <1>5 DEF Calls, Written, TypeOK
<1>7. \A e \in Observations :
        /\ mirror'[e] <= mirror[e] + (IF e = o THEN 1 ELSE 0)
        /\ mirror'[e] + missed'[e] >= mirror[e] + missed[e] + (IF e = o THEN 1 ELSE 0)
  BY <1>1 DEF Mirror, MirrorFails, TypeOK
<1>8. \A e \in Observations : Calls(e) \in Nat /\ mirror'[e] \in Nat /\ missed'[e] \in Nat
  BY TypesStep DEF Calls, Written, TypeOK
<1>9. \A e \in Observations : mirror'[e] <= Calls(e)' /\ mirror'[e] + missed'[e] >= Calls(e)'
  <2> HIDE DEF o
  <2> QED
    BY <1>6, <1>7, <1>8 DEF MirrorSound, TypeOK
<1> QED
  BY <1>2, <1>3, <1>9 DEF MirrorSound, TypeOK

LEMMA EndMirror ==
  ASSUME TypeOK, InHand, MirrorSound, NEW s \in Sessions, SessionStep(s),
         Commit(s) \/ Fails(s)
  PROVE  MirrorSound'
<1>1. \A t \in Sessions \ {s} : at'[t] = at[t] /\ Key(t)' = Key(t)
  BY OnlyMoves DEF Key
<1>2. at'[s] = "ended" /\ UNCHANGED <<mirror, missed>>
  BY DEF Commit, Fails, Closes, Goes, TypeOK, calls
<1>3. \A o \in Observations : obs[o] # s => obs'[o] = obs[o] /\ undone'[o] = undone[o]
  BY DEF Commit, Fails, calls, TypeOK
<1>4. \A o \in Observations : obs[o] # s => Calls(o)' = Calls(o)
  BY <1>1, <1>3 DEF Calls, Written, Called, TypeOK
<1>5. ASSUME NEW o \in Observations, obs[o] = s PROVE Calls(o)' = Calls(o)
  <2>1. CASE Commit(s)
    BY <1>5, <2>1, StateAssumption DEF Commit, calls, Calls, Written, Called, TypeOK
  <2>2. CASE Fails(s)
    <3>1. obs'[o] = "free"
      BY <1>5, <2>2 DEF Fails
    <3>2. undone'[o] = undone[o] + (IF Called(o) THEN 1 ELSE 0)
      BY <1>5, <2>2 DEF Fails, Called, TypeOK
    <3> QED
      BY <1>5, <3>1, <3>2, StateAssumption DEF Calls, Written, Called, TypeOK
  <2> QED
    BY <2>1, <2>2
<1>6. \A t \in Sessions : at'[t] = "mirror" => obs'[Key(t)'] = t
  BY <1>1, <1>2, <1>3, KeyType DEF MirrorSound
<1> QED
  BY <1>2, <1>4, <1>5, <1>6 DEF MirrorSound

LEMMA MirrorStep ==
  ASSUME TypeOK, InHand, MirrorSound, NEW s \in Sessions, SessionStep(s)
  PROVE  MirrorSound'
<1> USE DEF tables, calls, resolver, Goes, Resolved
<1>1. CASE Moves(s)
  BY <1>1, MirrorFrame DEF Moves, Begin, NextPhase, TakeUp, Observe, TypeOK
<1>2. CASE ResolveStep(s)
  BY <1>2, MirrorFrame DEF ResolveStep, LookUpHits, LookUpMisses, Link, Create, Identify, Bear, TypeOK
<1>3. CASE ProfileStep(s)
  BY <1>3, MirrorFrame DEF ProfileStep, Fill, ReadProfile, Update, Embed, EmbedFails, TypeOK
<1>4. CASE RecordStep(s)
  BY <1>4, StoreMirror, CallMirror DEF RecordStep
<1>5. CASE Commit(s) \/ Fails(s)
  BY <1>5, EndMirror
<1> QED
  BY <1>1, <1>2, <1>3, <1>4, <1>5 DEF SessionStep, Moves

-----------------------------------------------------------------------------
(* Descriptions and their embeddings. *)

\* Sessions about to embed are undisturbed by steps of others on other rows.
LEMMA OthersEmbed ==
  ASSUME TypeOK, NEW s \in Sessions, SessionStep(s), NEW t \in Sessions \ {s}
  PROVE  /\ at'[t] = at[t] /\ target'[t] = target[t] /\ found'[t] = found[t]
         /\ NewDesc(t)' = NewDesc(t)
BY OnlyMoves DEF NewDesc, Authoritative

\* Steps that write no row and have nothing to do with embedding.
LEMMA RowsFrame ==
  ASSUME TypeOK, RowsSound, NEW s \in Sessions, SessionStep(s),
         at[s] # "embed", at'[s] # "embed", UNCHANGED <<row, kept, lock>>
  PROVE  RowsSound'
<1>1. \A c \in Companies : Embedding(c) => Embedding(c)'
  BY OthersEmbed DEF Embedding
<1>2. \A c \in Companies :
        /\ lock'[c] = Null => row'[c] = kept'[c]
        /\ Matches(kept[c])'
        /\ Matches(row[c])' \/ Embedding(c)'
  BY <1>1 DEF RowsSound, Matches
<1>3. \A t \in Sessions : at'[t] = "embed" =>
        lock'[target'[t]] = t /\ (found'[t].late \/ row'[target'[t]].desc \in {NewDesc(t)', Empty})
  BY OthersEmbed DEF RowsSound
<1> QED
  BY <1>2, <1>3 DEF RowsSound

\* A statement that writes a row and leaves it with a matching embedding, or
\* about to be given one.
LEMMA WriteRows ==
  ASSUME TypeOK, InHand, RowsSound, NEW s \in Sessions, SessionStep(s),
         NEW c \in Companies, NEW r \in Rows, Writes(s, c, r), UNCHANGED kept,
         at[s] = "embed" => c = target[s],
         at'[s] = "embed" \/ Matches(r),
         at'[s] = "embed" => target'[s] = c /\ (found'[s].late \/ r.desc \in {NewDesc(s)', Empty})
  PROVE  RowsSound'
<1>1. /\ lock[c] \in {Null, s} /\ row'[c] = r /\ lock'[c] = s
      /\ \A e \in Companies \ {c} : row'[e] = row[e] /\ lock'[e] = lock[e]
  BY DEF Writes, TypeOK
<1>2. \A e \in Companies \ {c} : Embedding(e) => Embedding(e)'
  BY <1>1, OthersEmbed DEF Embedding
<1>3. Matches(row[c])' \/ Embedding(c)'
  BY <1>1 DEF Matches, Embedding
<1>4. \A e \in Companies :
        /\ lock'[e] = Null => row'[e] = kept'[e]
        /\ Matches(kept[e])'
        /\ Matches(row[e])' \/ Embedding(e)'
  BY <1>1, <1>2, <1>3, NullAssumption DEF RowsSound, Matches
<1>5. ASSUME NEW t \in Sessions, at'[t] = "embed"
      PROVE  lock'[target'[t]] = t /\ (found'[t].late \/ row'[target'[t]].desc \in {NewDesc(t)', Empty})
  <2>1. CASE t = s
    BY <1>1, <1>5, <2>1
  <2>2. CASE t # s
    <3>1. at[t] = "embed" /\ target[t] \in Companies /\ lock[target[t]] = t
      BY <1>5, <2>2, OthersEmbed DEF RowsSound, InHand, Settled
    <3>2. target[t] # c
      BY <1>1, <2>2, <3>1, NullAssumption
    <3> QED
      BY <1>1, <2>2, <3>1, <3>2, OthersEmbed DEF RowsSound
  <2> QED
    BY <2>1, <2>2
<1> QED
  BY <1>4, <1>5 DEF RowsSound

\* A row that a session may write now matches, unless the session is embedding it.
LEMMA Writable ==
  ASSUME TypeOK, RowsSound, NEW s \in Sessions, NEW c \in Companies,
         lock[c] \in {Null, s}, at[s] # "embed"
  PROVE  row[c] \in Rows /\ Matches(row[c])
BY NullAssumption DEF RowsSound, Embedding, TypeOK

LEMMA ResolveRows ==
  ASSUME TypeOK, InHand, RowsSound, NEW s \in Sessions, SessionStep(s), ResolveStep(s)
  PROVE  RowsSound'
<1> USE DEF tables, calls, resolver, Goes, Resolved
<1>1. CASE LookUpHits(s) \/ LookUpMisses(s) \/ Identify(s)
  BY <1>1, RowsFrame DEF LookUpHits, LookUpMisses, Identify, TypeOK
<1>2. ASSUME NEW c \in Companies, Link(s, c) PROVE RowsSound'
  BY <1>2, RowsFrame DEF Link, TypeOK
<1>3. ASSUME NEW c \in Companies, Create(s, c) PROVE RowsSound'
  <2> DEFINE r == [there |-> TRUE, bears |-> {MentionId(s)} \ {Null}, desc |-> item[s].text,
                   emb |-> Null, off |-> FALSE]
  <2>1. r \in Rows /\ Matches(r)
    BY <1>3, IdTypes DEF Create, Rows, TypeOK, Matches, Working
  <2>2. at[s] = "match" /\ at'[s] # "embed" /\ Writes(s, c, r) /\ UNCHANGED kept
    BY <1>3 DEF Create, TypeOK
  <2> HIDE DEF r
  <2> QED
    BY <2>1, <2>2, WriteRows
<1>4. CASE Bear(s)
  <2> DEFINE c   == target[s]
             k   == MentionId(s)
             has == row[c].bears \cup (IF \E j \in row[c].bears : Kind[j] = Kind[k] THEN {} ELSE {k})
             r   == [row[c] EXCEPT !.bears = has]
  <2>1. c \in Companies /\ k \in Ids
    BY <1>4, IdTypes DEF Bear, InHand, Working, Settled
  <2>2. at[s] = "bear" /\ at'[s] # "embed" /\ Writes(s, c, r) /\ UNCHANGED kept
    BY <1>4 DEF Bear, TypeOK
  <2>3. row[c] \in Rows /\ Matches(row[c])
    BY <2>1, <2>2, Writable DEF Writes
  <2>4. has \subseteq Ids
    BY <2>1, <2>3 DEF Rows
  <2>5. r \in Rows /\ Matches(r)
    <3> HIDE DEF has
    <3> QED
      BY <2>3, <2>4 DEF Rows, Matches
  <2> HIDE DEF r
  <2> QED
    BY <2>1, <2>2, <2>5, WriteRows
<1> QED
  BY <1>1, <1>2, <1>3, <1>4 DEF ResolveStep

LEMMA ProfileRows ==
  ASSUME TypeOK, InHand, RowsSound, NEW s \in Sessions, SessionStep(s), ProfileStep(s)
  PROVE  RowsSound'
<1> USE DEF tables, calls, resolver, Goes
<1> DEFINE c == target[s]
<1>1. CASE Fill(s)
  <2> DEFINE r == [row[c] EXCEPT !.desc = Given(row[c].desc, item[s].text)]
  <2>1. c \in Companies /\ at[s] = "fill" /\ at'[s] = "next" /\ Writes(s, c, r) /\ UNCHANGED kept
    BY <1>1 DEF Fill, InHand, Settled, TypeOK
  <2>2. row[c] \in Rows /\ Matches(row[c])
    BY <2>1, Writable DEF Writes
  <2>3. r \in Rows /\ Matches(r)
    <3>1. Given(row[c].desc, item[s].text) \in Texts \cup {Null}
      BY <2>2 DEF Rows, Given, TypeOK
    <3>2. r \in Rows
      BY <2>2, <3>1, RowEdits
    <3>3. r.desc = Given(row[c].desc, item[s].text) /\ r.emb = row[c].emb /\ r.off = row[c].off
      BY <2>2 DEF Rows
    <3> QED
      BY <2>2, <3>2, <3>3, NullAssumption, EmptyAssumption DEF Matches, Given
  <2> HIDE DEF r
  <2> QED
    BY <2>1, <2>3, WriteRows
<1>2. CASE ReadProfile(s)
  BY <1>2, RowsFrame DEF ReadProfile, TypeOK
<1>3. CASE Update(s)
  <2> DEFINE old  == found[s].desc
             late == row[c].desc # old
             said == IF Authoritative(s) THEN Given(item[s].text, row[c].desc)
                                         ELSE Given(row[c].desc, item[s].text)
             r    == [row[c] EXCEPT !.desc = said, !.off = @ \/ late]
  <2>1. /\ c \in Companies /\ at[s] = "update" /\ Writes(s, c, r)
        /\ at' = [at EXCEPT ![s] = IF Embeds(s) THEN "embed" ELSE "store"]
        /\ found' = [found EXCEPT ![s].late = late]
        /\ UNCHANGED <<kept, target, item, phase>>
    BY <1>3 DEF Update, InHand, Settled
  <2>2. row[c] \in Rows /\ Matches(row[c])
    BY <2>1, Writable DEF Writes
  <2>3. r \in Rows /\ r.desc = said /\ r.emb = row[c].emb /\ r.off = (row[c].off \/ late)
    <3>1. said \in Texts \cup {Null} /\ (row[c].off \/ late) \in BOOLEAN
      BY <2>2 DEF Rows, Given, TypeOK
    <3> HIDE DEF said, late
    <3>2. r \in Rows
      BY <2>2, <3>1, RowEdits
    <3> QED
      BY <2>2, <3>2 DEF Rows
  <2>4. ~ late => IF Embeds(s) THEN said \in {NewDesc(s), Empty}
                       ELSE said \in {row[c].desc, Empty}
    BY <2>2 DEF Embeds, NewDesc, Given, Said, Rows
  <2>5. found'[s].late = late /\ NewDesc(s)' = NewDesc(s)
    BY <2>1 DEF NewDesc, Authoritative, TypeOK
  <2>6. at'[s] = "embed" <=> Embeds(s)
    BY <2>1 DEF TypeOK
  <2>7. at'[s] = "embed" \/ Matches(r)
    <3> HIDE DEF r, said, late
    <3> QED
      BY <2>2, <2>3, <2>4, <2>6 DEF Matches
  <2>8. at'[s] = "embed" => target'[s] = c /\ (found'[s].late \/ r.desc \in {NewDesc(s)', Empty})
    <3> HIDE DEF r, said, late
    <3> QED
      BY <2>1, <2>3, <2>4, <2>5, <2>6
  <2> HIDE DEF r, said, late, old
  <2> QED
    BY <2>1, <2>3, <2>7, <2>8, WriteRows
<1>4. CASE Embed(s)
  <2> DEFINE r == [row[c] EXCEPT !.emb = NewDesc(s), !.off = found[s].late]
  <2>1. c \in Companies /\ at[s] = "embed" /\ at'[s] = "store" /\ Writes(s, c, r) /\ UNCHANGED kept
    BY <1>4 DEF Embed, InHand, Settled, TypeOK
  <2>2. row[c] \in Rows /\ found[s].late \in BOOLEAN /\ NewDesc(s) \in Texts \cup {Null}
    BY <2>1 DEF TypeOK, NewDesc
  <2>3. found[s].late \/ row[c].desc \in {NewDesc(s), Empty}
    BY <2>1 DEF RowsSound
  <2>4. r \in Rows
    BY <2>2, RowEdits
  <2>5. r.desc = row[c].desc /\ r.emb = NewDesc(s) /\ r.off = found[s].late
    BY <2>2 DEF Rows
  <2> HIDE DEF r
  <2> QED
    BY <2>1, <2>3, <2>4, <2>5, WriteRows DEF Matches
<1>5. CASE EmbedFails(s)
  <2> DEFINE r == [row[c] EXCEPT !.off = TRUE]
  <2>1. at'[s] = "next" /\ UNCHANGED kept
    BY <1>5 DEF EmbedFails, TypeOK
  <2>2. CASE at[s] = "match" /\ UNCHANGED <<row, lock>>
    BY <2>1, <2>2, RowsFrame
  <2>3. CASE at[s] = "embed" /\ Writes(s, c, r)
    <3>1. c \in Companies
      BY <2>3 DEF InHand, Settled
    <3>2. row[c] \in Rows
      BY <3>1 DEF TypeOK
    <3>3. r \in Rows
      BY <3>2, RowEdits
    <3>4. r.off = TRUE
      BY <3>2 DEF Rows
    <3> HIDE DEF r
    <3> QED
      BY <2>1, <2>3, <3>1, <3>3, <3>4, WriteRows DEF Matches
  <2> QED
    BY <1>5, <2>2, <2>3 DEF EmbedFails
<1> QED
  BY <1>1, <1>2, <1>3, <1>4, <1>5 DEF ProfileStep

\* Both ends of a transaction: its rows become the committed ones, or give way
\* to them.
LEMMA EndRows ==
  ASSUME TypeOK, InHand, RowsSound, NEW s \in Sessions, SessionStep(s), Commit(s) \/ Fails(s)
  PROVE  RowsSound'
<1>1. at'[s] = "ended"
  BY DEF Commit, Fails, Closes, Goes, TypeOK
<1>2. ASSUME NEW c \in Companies, lock[c] # s
      PROVE  row'[c] = row[c] /\ kept'[c] = kept[c] /\ lock'[c] = lock[c]
  BY <1>2 DEF Commit, Fails, Closes, TypeOK
<1>3. ASSUME NEW c \in Companies, lock[c] = s
      PROVE  lock'[c] = Null /\ row'[c] = kept'[c] /\ Matches(kept[c])'
  <2>1. CASE Commit(s)
    <3>1. lock'[c] = Null /\ row'[c] = row[c] /\ kept'[c] = row[c]
      BY <1>3, <2>1 DEF Commit, Closes
    <3>2. Matches(row[c])
      BY <1>3, <2>1, Writable DEF Commit
    <3> QED
      BY <3>1, <3>2 DEF Matches
  <2>2. CASE Fails(s)
    BY <1>3, <2>2 DEF Fails, Closes, RowsSound, Matches
  <2> QED
    BY <2>1, <2>2
<1>4. \A c \in Companies : lock[c] # s /\ Embedding(c) => Embedding(c)'
  BY <1>2, OthersEmbed DEF Embedding
<1>5. \A c \in Companies :
        /\ lock'[c] = Null => row'[c] = kept'[c]
        /\ Matches(kept[c])'
        /\ Matches(row[c])' \/ Embedding(c)'
  BY <1>2, <1>3, <1>4 DEF RowsSound, Matches
<1>6. ASSUME NEW t \in Sessions, at'[t] = "embed"
      PROVE  lock'[target'[t]] = t /\ (found'[t].late \/ row'[target'[t]].desc \in {NewDesc(t)', Empty})
  <2>1. t # s
    BY <1>1, <1>6
  <2>2. at[t] = "embed" /\ target[t] \in Companies /\ lock[target[t]] = t
    BY <1>6, <2>1, OthersEmbed DEF RowsSound, InHand, Settled
  <2> QED
    BY <1>2, <2>1, <2>2, OthersEmbed DEF RowsSound
<1> QED
  BY <1>5, <1>6 DEF RowsSound

LEMMA RowsStep ==
  ASSUME TypeOK, InHand, RowsSound, NEW s \in Sessions, SessionStep(s)
  PROVE  RowsSound'
<1>1. CASE Moves(s) \/ RecordStep(s)
  BY <1>1, RowsFrame DEF Moves, Begin, NextPhase, TakeUp, Observe, RecordStep, Store, Mirror,
                         MirrorFails, TypeOK, tables, Goes
<1>2. CASE Commit(s) \/ Fails(s)
  BY <1>2, EndRows
<1> QED
  BY <1>1, <1>2, ResolveRows, ProfileRows DEF SessionStep, Moves

-----------------------------------------------------------------------------
(* Identifiers. *)

\* What the other sessions have noted stays noted.
LEMMA OthersNote ==
  ASSUME TypeOK, NEW s \in Sessions, SessionStep(s), NEW t \in Sessions \ {s}
  PROVE  /\ at'[t] = at[t] /\ sought'[t] = sought[t] /\ MentionId(t)' = MentionId(t)
         /\ \A c \in Companies, k \in Ids : Noting(t, c, k)' <=> Noting(t, c, k)
BY OnlyMoves DEF MentionId, Noting

\* An identifier on record is so for every session that sees it.
LEMMA RecordSeen ==
  ASSUME NEW k, NEW s, OnRecord(k, Null)
  PROVE  OnRecord(k, s)
BY DEF OnRecord

\* A row that another session wrote, or nobody, bears an identifier which the
\* session has looked up in vain: the lookups were concurrent.
LEMMA NewBearer ==
  ASSUME TypeOK, InHand, RowsSound, IdsSound, NEW s \in Sessions,
         at[s] \in {"match", "bear"}, NEW d \in Companies,
         MentionId(s) # Null, MentionId(s) \in row[d].bears
  PROVE  MentionId(s) \in raced
<1> DEFINE k == MentionId(s)
<1>1. k \in Ids /\ k \in sought[s]
  BY IdTypes DEF InHand, Working
<1>2. lock[d] # s
  BY DEF IdsSound, HandSound, AtHand, Noting, Mine
<1>3. CASE lock[d] = Null
  <2>1. OnRecord(k, Null)
    BY <1>3 DEF IdsSound, BearsSound, RowsSound
  <2> QED
    BY <1>1, <2>1, NullAssumption DEF OnRecord, IdsSound, SoughtSound
<1>4. ASSUME NEW t \in Sessions \ {s}, lock[d] = t PROVE k \in raced
  <2>1. CASE OnRecord(k, t)
    BY <1>1, <1>4, <2>1, NullAssumption DEF OnRecord, IdsSound, SoughtSound
  <2>2. CASE Noting(t, d, k)
    <3>1. k \in sought[t]
      BY <1>1, <1>4, <2>2, NullAssumption DEF Noting, InHand
    <3> QED
      BY <1>1, <1>4, <3>1 DEF IdsSound, SoughtSound
  <2> QED
    BY <1>4, <2>1, <2>2 DEF IdsSound, BearsSound, Borne
<1> QED
  BY <1>2, <1>3, <1>4 DEF TypeOK

\* A row that nobody writes is the committed one, which has its ids on record.
LEMMA FreeBorne ==
  ASSUME NEW c \in Companies, lock'[c] = Null, row'[c] = kept'[c],
         \A k \in kept'[c].bears : OnRecord(k, Null)'
  PROVE  Borne(c)'
BY DEF Borne, OnRecord

\* A row that another session writes has its ids on record as before.
LEMMA OthersBorne ==
  ASSUME TypeOK, IdsSound, NEW s \in Sessions, SessionStep(s), NEW t \in Sessions \ {s},
         NEW c \in Companies, lock[c] = t, lock'[c] = t, row'[c] = row[c],
         \A k \in Ids : OnRecord(k, t) => OnRecord(k, t)'
  PROVE  Borne(c)'
<1> SUFFICES ASSUME NEW k \in row[c].bears PROVE OnRecord(k, t)' \/ Noting(t, c, k)'
  BY DEF Borne, OnRecord, Noting
<1>1. k \in Ids
  BY DEF TypeOK, Rows
<1>2. OnRecord(k, t) \/ Noting(t, c, k)
  BY DEF IdsSound, BearsSound, Borne
<1> QED
  BY <1>1, <1>2, OthersNote

\* What another session has at hand stays as it is.
LEMMA OthersAtHand ==
  ASSUME TypeOK, InHand, IdsSound, NEW s \in Sessions, SessionStep(s), NEW t \in Sessions \ {s},
         \A c \in Companies : lock'[c] = t => lock[c] = t /\ row'[c] = row[c],
         \A k \in Ids : OnRecord(k, t) => OnRecord(k, t)'
  PROVE  AtHand(t)'
<1> DEFINE k == MentionId(t)
<1>1. at'[t] = at[t] /\ item'[t] = item[t] /\ target'[t] = target[t]
  BY OnlyMoves
<1>2. AtHand(t)
  BY DEF IdsSound, HandSound
<1>3. at[t] = "bear" => k \in Ids
  BY IdTypes DEF Working, InHand
<1>4. at'[t] = "bear" => OnRecord(MentionId(t), t)'
  BY <1>1, <1>2, <1>3 DEF AtHand, OnRecord, MentionId
<1>5. ASSUME at[t] \in {"match", "identify", "bear"}, NEW c \in Companies, lock'[c] = t,
             k \in row'[c].bears
      PROVE  Noting(t, c, MentionId(t))'
  <2>1. Noting(t, c, k)
    BY <1>2, <1>5 DEF AtHand, Mine
  <2> QED
    BY <1>1, <2>1 DEF Noting, MentionId
<1>6. \A c \in Mine(t)' : k \in row'[c].bears /\ at[t] \in {"match", "identify", "bear"} =>
        Noting(t, c, MentionId(t))'
  BY <1>5 DEF Mine
<1>7. MentionId(t)' = k
  BY <1>1 DEF MentionId
<1> QED
  BY <1>1, <1>4, <1>6, <1>7 DEF AtHand

\* Steps that write no row and no identifier and do not go to a match.
LEMMA IdsFrame ==
  ASSUME TypeOK, InHand, RowsSound, IdsSound, NEW s \in Sessions, SessionStep(s),
         at[s] # "identify", at'[s] \notin {"match", "identify", "bear"},
         UNCHANGED <<row, kept, lock, ident, sought, raced>>
  PROVE  IdsSound'
<1>1. InsertsSound' /\ SoughtSound' /\ RowsOneCompany'
  BY DEF IdsSound, InsertsSound, SoughtSound, RowsOneCompany
<1>2. \A k \in Ids : \A t \in Sessions \cup {Null} : OnRecord(k, t) => OnRecord(k, t)'
  BY DEF OnRecord
<1>3. ASSUME NEW c \in Companies PROVE Borne(c)'
  <2>1. CASE lock[c] = Null
    <3>1. \A k \in kept'[c].bears : OnRecord(k, Null)'
      BY DEF IdsSound, BearsSound, OnRecord
    <3> QED
      BY <2>1, <3>1, FreeBorne DEF RowsSound
  <2>2. CASE lock[c] = s
    BY <2>2 DEF IdsSound, BearsSound, Borne, OnRecord, Noting
  <2>3. ASSUME NEW t \in Sessions \ {s}, lock[c] = t PROVE Borne(c)'
    BY <1>2, <2>3, OthersBorne
  <2> QED
    BY <2>1, <2>2, <2>3 DEF TypeOK
<1>4. BearsSound'
  BY <1>3 DEF IdsSound, BearsSound, OnRecord
<1>5. HandSound'
  BY <1>2, OthersAtHand DEF HandSound, AtHand
<1> QED
  BY <1>1, <1>4, <1>5 DEF IdsSound

\* A row that the session at hand writes, with the identifiers it had.
LEMMA OwnBorne ==
  ASSUME TypeOK, RowsSound, IdsSound, NEW s \in Sessions, NEW c \in Companies,
         lock[c] \in {Null, s}, at[s] # "identify", NEW k \in row[c].bears
  PROVE  OnRecord(k, s)
<1>1. CASE lock[c] = Null
  <2>1. OnRecord(k, Null)
    BY <1>1 DEF IdsSound, BearsSound, RowsSound
  <2> QED
    BY <2>1, RecordSeen
<1>2. CASE lock[c] = s
  BY <1>2 DEF IdsSound, BearsSound, Borne, Noting
<1> QED
  BY <1>1, <1>2

\* What a statement of the session that writes row c leaves to show: the ids of
\* that row.
LEMMA WriteBorne ==
  ASSUME TypeOK, InHand, RowsSound, IdsSound, NEW s \in Sessions, SessionStep(s),
         NEW c \in Companies, NEW r, Writes(s, c, r), at[s] # "identify",
         UNCHANGED <<kept, ident>>, row[c].bears \subseteq r.bears,
         \A k \in r.bears : OnRecord(k, s) \/ Noting(s, c, k)'
  PROVE  /\ BearsSound'
         /\ \A t \in Sessions \ {s} : AtHand(t)'
<1>1. /\ row'[c] = r /\ lock'[c] = s /\ lock[c] \in {Null, s}
      /\ \A e \in Companies \ {c} : row'[e] = row[e] /\ lock'[e] = lock[e]
  BY DEF Writes, TypeOK
<1>2. \A k \in Ids : \A t \in Sessions \cup {Null} : OnRecord(k, t) => OnRecord(k, t)'
  BY DEF OnRecord
<1>3. Borne(c)'
  BY <1>1 DEF Borne, OnRecord, Noting
<1>4. ASSUME NEW e \in Companies \ {c} PROVE Borne(e)'
  <2>1. CASE lock[e] = Null
    <3>1. \A k \in kept'[e].bears : OnRecord(k, Null)'
      BY DEF IdsSound, BearsSound, OnRecord
    <3> QED
      BY <1>1, <2>1, <3>1, FreeBorne DEF RowsSound
  <2>2. CASE lock[e] = s
    <3>1. \A k \in row[e].bears : OnRecord(k, s)
      BY <2>2, OwnBorne
    <3> QED
      BY <1>1, <2>2, <3>1 DEF Borne, OnRecord
  <2>3. ASSUME NEW t \in Sessions \ {s}, lock[e] = t PROVE Borne(e)'
    BY <1>1, <1>2, <2>3, OthersBorne
  <2> QED
    BY <2>1, <2>2, <2>3 DEF TypeOK
<1>5. BearsSound'
  <2>1. \A e \in Companies : kept'[e].bears \subseteq row'[e].bears
    BY <1>1 DEF IdsSound, BearsSound
  <2>2. \A e \in Companies : \A k \in kept'[e].bears : OnRecord(k, Null)'
    BY DEF IdsSound, BearsSound, OnRecord
  <2> QED
    BY <1>3, <1>4, <2>1, <2>2 DEF BearsSound
<1>6. \A t \in Sessions \ {s} : AtHand(t)'
  BY <1>1, <1>2, NullAssumption, OthersAtHand
<1> QED
  BY <1>5, <1>6

\* Writing other columns of a row.
LEMMA WriteIds ==
  ASSUME TypeOK, InHand, RowsSound, IdsSound, NEW s \in Sessions, SessionStep(s),
         NEW c \in Companies, NEW r, Writes(s, c, r), r.bears = row[c].bears,
         at[s] # "identify", at'[s] \notin {"match", "identify", "bear"},
         UNCHANGED <<kept, ident, sought, raced>>
  PROVE  IdsSound'
<1>1. \A e \in Companies : row'[e].bears = row[e].bears
  BY DEF Writes, TypeOK
<1>2. \A k \in r.bears : OnRecord(k, s)
  BY OwnBorne DEF Writes
<1>3. BearsSound' /\ \A t \in Sessions \ {s} : AtHand(t)'
  BY <1>2, WriteBorne
<1>4. AtHand(s)'
  BY DEF AtHand
<1>5. InsertsSound' /\ SoughtSound'
  BY DEF IdsSound, InsertsSound, SoughtSound
<1>6. RowsOneCompany'
  BY <1>1 DEF IdsSound, RowsOneCompany
<1> QED
  BY <1>3, <1>4, <1>5, <1>6 DEF IdsSound, HandSound

\* The identifier was not there: nobody has it on record but a session that
\* inserts it, and no row of this one bears it.
LEMMA MissIds ==
  ASSUME TypeOK, InHand, RowsSound, IdsSound, NEW s \in Sessions, SessionStep(s),
         LookUpMisses(s)
  PROVE  IdsSound'
<1> DEFINE k == MentionId(s)
<1>1. /\ at[s] = "lookup" /\ at'[s] = "match" /\ k \in Ids \cup {Null}
      /\ UNCHANGED <<row, kept, lock, ident, item, target>>
      /\ sought' = [sought EXCEPT ![s] = @ \cup ({k} \ {Null})]
      /\ raced' = raced \cup {j \in {k} \ {Null} : \E t \in Sessions \ {s} : j \in sought[t]}
  BY IdTypes DEF LookUpMisses, Goes, TypeOK, Working, tables
<1>2. k # Null => k \in Ids /\ (ident[k].by \in {Null, s} => ident[k].to = Null)
  BY <1>1 DEF LookUpMisses, Known, TypeOK
<1>3. k' = k
  BY <1>1 DEF MentionId
<1> HIDE DEF k
<1>4. \A t \in Sessions : sought[t] \subseteq sought'[t]
  BY <1>1 DEF TypeOK
<1>5. InsertsSound'
  BY <1>1, <1>4 DEF IdsSound, InsertsSound, TypeOK
<1>6. \A j \in Ids : \A t \in Sessions \cup {Null} : OnRecord(j, t)' <=> OnRecord(j, t)
  BY <1>1 DEF OnRecord
<1>7. ASSUME NEW c \in Companies PROVE Borne(c)'
  <2>1. CASE lock[c] = Null
    <3>1. \A j \in kept'[c].bears : OnRecord(j, Null)'
      BY <1>1 DEF IdsSound, BearsSound, OnRecord
    <3> QED
      BY <1>1, <2>1, <3>1, FreeBorne DEF RowsSound
  <2>2. CASE lock[c] = s
    <3>1. \A j \in row[c].bears : OnRecord(j, s)
      BY <1>1, <2>2, OwnBorne
    <3> QED
      BY <1>1, <2>2, <3>1 DEF Borne, OnRecord
  <2>3. ASSUME NEW t \in Sessions \ {s}, lock[c] = t PROVE Borne(c)'
    BY <1>1, <1>6, <2>3, OthersBorne
  <2> QED
    BY <2>1, <2>2, <2>3 DEF TypeOK
<1>8. BearsSound'
  BY <1>1, <1>7 DEF IdsSound, BearsSound, OnRecord
<1>9. SoughtSound'
  <2> SUFFICES ASSUME NEW t \in Sessions, NEW j \in sought'[t]
               PROVE  /\ ident[j].to # Null /\ ident[j].by # t => j \in raced'
                      /\ \A u \in Sessions \ {t} : j \in sought'[u] => j \in raced'
    BY <1>1 DEF SoughtSound
  <2>1. CASE t # s \/ j # k
    BY <1>1, <2>1 DEF IdsSound, SoughtSound, TypeOK
  <2>2. CASE t = s /\ j = k
    <3>1. k # Null /\ j \in Ids
      BY <1>1, <2>2, NullAssumption DEF TypeOK
    <3>2. ident[k].to # Null => k \in raced'
      <4> SUFFICES ASSUME ident[k].to # Null PROVE k \in raced'
        OBVIOUS
      <4>1. ident[k].by \in Sessions \ {s} /\ k \in sought[ident[k].by]
        BY <1>2, <2>2, <3>1 DEF IdsSound, InsertsSound, TypeOK
      <4> QED
        BY <1>1, <3>1, <4>1
    <3> QED
      BY <1>1, <2>2, <3>1, <3>2 DEF TypeOK
  <2> QED
    BY <2>1, <2>2
<1>10. AtHand(s)'
  <2>1. ASSUME NEW c \in Mine(s), k \in row[c].bears PROVE FALSE
    <3>1. k \in Ids /\ OnRecord(k, s)
      BY <1>1, <2>1, OwnBorne DEF Mine, TypeOK, Rows
    <3> QED
      BY <1>2, <3>1, NullAssumption DEF OnRecord
  <2> QED
    BY <1>1, <1>3, <2>1 DEF AtHand, Mine, k
<1>11. \A t \in Sessions \ {s} : AtHand(t)'
  BY <1>1, <1>6, OthersAtHand
<1>12. RowsOneCompany'
  BY <1>1 DEF IdsSound, RowsOneCompany
<1> QED
  BY <1>5, <1>8, <1>9, <1>10, <1>11, <1>12 DEF IdsSound, HandSound

\* No row of the session bears the identifier that it has looked up.
LEMMA NotMine ==
  ASSUME TypeOK, IdsSound, NEW s \in Sessions, at[s] \in {"match", "bear"}, NEW c \in Mine(s)
  PROVE  MentionId(s) \notin row[c].bears
BY DEF IdsSound, HandSound, AtHand, Noting

LEMMA LinkIds ==
  ASSUME TypeOK, InHand, RowsSound, IdsSound, NEW s \in Sessions, SessionStep(s),
         NEW c \in Companies, Link(s, c)
  PROVE  IdsSound'
<1>1. /\ at[s] = "match" /\ at'[s] \notin {"match", "bear"}
      /\ UNCHANGED <<row, kept, lock, ident, item, sought, raced>>
  BY DEF Link, Goes, Resolved, TypeOK, tables, resolver
<1>2. InsertsSound' /\ SoughtSound' /\ RowsOneCompany'
  BY <1>1 DEF IdsSound, InsertsSound, SoughtSound, RowsOneCompany
<1>3. \A k \in Ids : \A t \in Sessions \cup {Null} : OnRecord(k, t) => OnRecord(k, t)'
  BY <1>1 DEF OnRecord
<1>4. ASSUME NEW e \in Companies PROVE Borne(e)'
  <2>1. CASE lock[e] = Null
    <3>1. \A k \in kept'[e].bears : OnRecord(k, Null)'
      BY <1>1 DEF IdsSound, BearsSound, OnRecord
    <3> QED
      BY <1>1, <2>1, <3>1, FreeBorne DEF RowsSound
  <2>2. CASE lock[e] = s
    <3>1. \A k \in row[e].bears : OnRecord(k, s)
      BY <1>1, <2>2, OwnBorne
    <3> QED
      BY <1>1, <2>2, <3>1 DEF Borne, OnRecord
  <2>3. ASSUME NEW t \in Sessions \ {s}, lock[e] = t PROVE Borne(e)'
    BY <1>1, <1>3, <2>3, OthersBorne
  <2> QED
    BY <2>1, <2>2, <2>3 DEF TypeOK
<1>5. BearsSound'
  BY <1>1, <1>4 DEF IdsSound, BearsSound, OnRecord
<1>6. \A t \in Sessions \ {s} : AtHand(t)'
  BY <1>1, <1>3, OthersAtHand
<1>7. MentionId(s)' = MentionId(s)
  BY <1>1 DEF MentionId
<1>8. AtHand(s)'
  BY <1>1, <1>7, NotMine DEF AtHand, Mine
<1> QED
  BY <1>2, <1>5, <1>6, <1>8 DEF IdsSound, HandSound

LEMMA CreateIds ==
  ASSUME TypeOK, InHand, RowsSound, IdsSound, NEW s \in Sessions, SessionStep(s),
         NEW c \in Companies, Create(s, c)
  PROVE  IdsSound'
<1> DEFINE k == MentionId(s)
           r == [there |-> TRUE, bears |-> {k} \ {Null}, desc |-> item[s].text,
                 emb |-> Null, off |-> FALSE]
<1>1. /\ at[s] = "match" /\ at'[s] \notin {"match", "bear"}
      /\ k # Null => at'[s] = "identify"
      /\ lock[c] = Null /\ row[c].bears = {} /\ Writes(s, c, r) /\ target'[s] = c
      /\ UNCHANGED <<kept, ident, item, sought, raced>>
  BY DEF Create, Goes, Resolved, TypeOK, resolver, NoRow
<1>2. k' = k
  BY <1>1 DEF MentionId
<1>3. r.bears = {k} \ {Null}
  OBVIOUS
<1> HIDE DEF r
<1>4. \A j \in r.bears : OnRecord(j, s) \/ Noting(s, c, j)'
  BY <1>1, <1>2, <1>3 DEF Noting
<1>5. BearsSound' /\ \A t \in Sessions \ {s} : AtHand(t)'
  BY <1>1, <1>3, <1>4, WriteBorne
<1>6. /\ row'[c] = r /\ lock'[c] = s
      /\ \A e \in Companies \ {c} : row'[e] = row[e] /\ lock'[e] = lock[e]
  BY <1>1 DEF Writes, TypeOK
<1>7. AtHand(s)'
  <2>1. at'[s] \notin {"match", "bear"}
    BY <1>1
  <2>2. ASSUME NEW e \in Companies, lock'[e] = s, at'[s] = "identify", k \in row'[e].bears
        PROVE  Noting(s, e, MentionId(s))'
    <3>1. e = c
      BY <1>1, <1>6, <2>2, NotMine DEF Mine
    <3> QED
      BY <1>1, <1>2, <2>2, <3>1 DEF Noting
  <2> QED
    BY <1>2, <2>1, <2>2 DEF AtHand, Mine
<1>8. InsertsSound' /\ SoughtSound'
  BY <1>1 DEF IdsSound, InsertsSound, SoughtSound
<1>9. RowsOneCompany'
  <2>1. ASSUME NEW d \in Companies \ {c}, NEW j \in r.bears, j \in row[d].bears PROVE j \in raced
    BY <1>1, <1>3, <2>1, NewBearer
  <2> QED
    BY <1>1, <1>6, <2>1 DEF IdsSound, RowsOneCompany
<1> QED
  BY <1>5, <1>7, <1>8, <1>9 DEF IdsSound, HandSound

LEMMA BearIds ==
  ASSUME TypeOK, InHand, RowsSound, IdsSound, NEW s \in Sessions, SessionStep(s), Bear(s)
  PROVE  IdsSound'
<1> DEFINE k   == MentionId(s)
           c   == target[s]
           has == row[c].bears \cup (IF \E j \in row[c].bears : Kind[j] = Kind[k] THEN {} ELSE {k})
           r   == [row[c] EXCEPT !.bears = has]
<1>1. /\ c \in Companies /\ k \in Ids
      /\ at[s] = "bear" /\ at'[s] \notin {"match", "identify", "bear"} /\ Writes(s, c, r)
      /\ UNCHANGED <<kept, ident, sought, raced>>
  BY IdTypes DEF Bear, InHand, Working, Settled, Goes, Resolved, TypeOK, resolver
<1>2. r.bears \in {row[c].bears, row[c].bears \cup {k}}
  BY <1>1 DEF TypeOK, Rows
<1> HIDE DEF r
<1>3. \A j \in r.bears : OnRecord(j, s)
  <2>1. OnRecord(k, s)
    BY <1>1 DEF IdsSound, HandSound, AtHand
  <2>2. \A j \in row[c].bears : OnRecord(j, s)
    BY <1>1, OwnBorne DEF Writes
  <2> QED
    BY <1>2, <2>1, <2>2
<1>4. BearsSound' /\ \A t \in Sessions \ {s} : AtHand(t)'
  BY <1>1, <1>2, <1>3, WriteBorne
<1>5. AtHand(s)'
  BY <1>1 DEF AtHand
<1>6. InsertsSound' /\ SoughtSound'
  BY <1>1 DEF IdsSound, InsertsSound, SoughtSound
<1>7. row'[c] = r /\ \A e \in Companies \ {c} : row'[e] = row[e]
  BY <1>1 DEF Writes, TypeOK
<1>8. RowsOneCompany'
  <2>1. ASSUME NEW d \in Companies \ {c}, k \in row[d].bears PROVE k \in raced
    BY <1>1, <2>1, NewBearer, NullAssumption
  <2> QED
    BY <1>1, <1>2, <1>7, <2>1 DEF IdsSound, RowsOneCompany
<1> QED
  BY <1>4, <1>5, <1>6, <1>8 DEF IdsSound, HandSound

\* The identifier is noted, or has been: either way the session has it on record.
LEMMA IdentifyIds ==
  ASSUME TypeOK, InHand, RowsSound, IdsSound, NEW s \in Sessions, SessionStep(s), Identify(s)
  PROVE  IdsSound'
<1> SUFFICES ASSUME NEW k, NEW c, k = MentionId(s), c = target[s] PROVE IdsSound'
  OBVIOUS
<1>1. /\ c \in Companies /\ k \in Ids /\ k \in sought[s]
      /\ at[s] = "identify" /\ at'[s] \notin {"match", "identify"}
      /\ at'[s] = "bear" => k \notin View(s, c).bears
      /\ UNCHANGED <<row, kept, lock, item, target, sought, raced>>
  BY IdTypes DEF Identify, InHand, Working, Settled, Goes, Resolved, TypeOK
<1>2. MentionId(s)' = k
  BY <1>1 DEF MentionId
<1>3. /\ ident[k].by \in {Null, s}
      /\ ident[k].to # Null => ident' = ident
      /\ ident[k].to = Null => ident' = [ident EXCEPT ![k] = [to |-> c, by |-> s]]
  BY DEF Identify
<1>4. \A j \in Ids : \A t \in Sessions \cup {Null} : OnRecord(j, t) => OnRecord(j, t)'
  BY <1>1, <1>3 DEF OnRecord, TypeOK
<1>5. OnRecord(k, s)'
  BY <1>1, <1>3, NullAssumption DEF OnRecord, TypeOK
<1>6. InsertsSound'
  <2>1. ident'[k].by # Null => ident'[k].to # Null /\ k \in sought'[ident'[k].by]
    BY <1>1, <1>3, NullAssumption DEF IdsSound, InsertsSound, TypeOK
  <2>2. \A j \in Ids \ {k} : ident'[j] = ident[j]
    BY <1>3 DEF TypeOK
  <2> QED
    BY <1>1, <2>1, <2>2 DEF IdsSound, InsertsSound
<1>7. \A e \in Companies : \A j \in kept'[e].bears : OnRecord(j, Null)'
  BY <1>1, <1>4 DEF IdsSound, BearsSound, TypeOK, Rows
<1>8. ASSUME NEW e \in Companies PROVE Borne(e)'
  <2>1. CASE lock[e] = Null
    BY <1>1, <1>7, <2>1, FreeBorne DEF RowsSound
  <2>2. CASE lock[e] = s
    <3>1. ASSUME NEW j \in row[e].bears PROVE OnRecord(j, s)'
      <4>1. j \in Ids /\ (OnRecord(j, s) \/ Noting(s, e, j))
        BY <2>2 DEF IdsSound, BearsSound, Borne, TypeOK, Rows
      <4>2. CASE OnRecord(j, s)
        BY <1>4, <4>1, <4>2
      <4>3. CASE Noting(s, e, j)
        BY <1>5, <4>3 DEF Noting
      <4> QED
        BY <4>1, <4>2, <4>3
    <3> QED
      BY <1>1, <2>2, <3>1 DEF Borne, OnRecord
  <2>3. ASSUME NEW t \in Sessions \ {s}, lock[e] = t PROVE Borne(e)'
    BY <1>1, <1>4, <2>3, OthersBorne
  <2> QED
    BY <2>1, <2>2, <2>3 DEF TypeOK
<1>9. BearsSound'
  BY <1>1, <1>7, <1>8 DEF IdsSound, BearsSound
<1>10. SoughtSound'
  <2> SUFFICES ASSUME NEW t \in Sessions, NEW j \in sought[t]
               PROVE  /\ ident'[j].to # Null /\ ident'[j].by # t => j \in raced
                      /\ \A u \in Sessions \ {t} : j \in sought[u] => j \in raced
    BY <1>1 DEF SoughtSound
  <2>1. j \in Ids
    BY DEF TypeOK
  <2>2. \A u \in Sessions \ {t} : j \in sought[u] => j \in raced
    BY DEF IdsSound, SoughtSound
  <2>3. CASE ident'[j] = ident[j]
    BY <2>2, <2>3 DEF IdsSound, SoughtSound
  <2>4. CASE j = k /\ ident'[k].by = s
    BY <1>1, <2>2, <2>4
  <2>5. ident'[j] = ident[j] \/ (j = k /\ ident'[k].by = s)
    BY <1>1, <1>3, <2>1 DEF TypeOK
  <2> QED
    BY <2>3, <2>4, <2>5
<1>11. \A t \in Sessions \ {s} : AtHand(t)'
  BY <1>1, <1>4, OthersAtHand
<1>12. AtHand(s)'
  <2>1. ASSUME at'[s] = "bear", NEW e \in Companies, lock[e] = s PROVE k \notin row[e].bears
    <3>1. CASE e = c
      BY <1>1, <2>1, <3>1 DEF View
    <3>2. CASE e # c
      BY <1>1, <2>1, <3>2 DEF IdsSound, HandSound, AtHand, Noting, Mine
    <3> QED
      BY <3>1, <3>2
  <2>2. OnRecord(MentionId(s), s)'
    BY <1>2, <1>5 DEF OnRecord
  <2> QED
    BY <1>1, <1>2, <2>1, <2>2 DEF AtHand, Mine
<1>13. RowsOneCompany'
  BY <1>1 DEF IdsSound, RowsOneCompany
<1> QED
  BY <1>6, <1>9, <1>10, <1>11, <1>12, <1>13 DEF IdsSound, HandSound

\* What both ends of a transaction leave to the other sessions.
LEMMA EndOthers ==
  ASSUME TypeOK, InHand, RowsSound, IdsSound, NEW s \in Sessions, SessionStep(s),
         Commit(s) \/ Fails(s)
  PROVE  /\ \A t \in Sessions \ {s} : AtHand(t)'
         /\ \A c \in Companies, t \in Sessions \ {s} : lock[c] = t => Borne(c)'
         /\ InsertsSound' /\ SoughtSound'
<1>1. /\ \A c \in Companies : lock[c] # s => row'[c] = row[c] /\ lock'[c] = lock[c]
      /\ \A c \in Companies : lock[c] = s => lock'[c] = Null
      /\ \A k \in Ids : ident[k].by # s => ident'[k] = ident[k]
      /\ \A k \in Ids : ident[k].by = s => ident'[k].by = Null /\ ident'[k].to \in {Null, ident[k].to}
      /\ sought' = [sought EXCEPT ![s] = {}] /\ raced' = raced
  BY DEF Commit, Fails, Closes, TypeOK, calls
<1>2. \A k \in Ids : \A t \in Sessions \ {s} : OnRecord(k, t) => OnRecord(k, t)'
  BY <1>1, NullAssumption DEF OnRecord
<1>3. \A t \in Sessions \ {s} : \A c \in Companies : lock'[c] = t => lock[c] = t /\ row'[c] = row[c]
  BY <1>1, NullAssumption
<1>4. \A t \in Sessions \ {s} : AtHand(t)'
  BY <1>2, <1>3, OthersAtHand
<1>5. \A c \in Companies, t \in Sessions \ {s} : lock[c] = t => Borne(c)'
  BY <1>1, <1>2, OthersBorne
<1>6. InsertsSound'
  BY <1>1 DEF IdsSound, InsertsSound, TypeOK
<1>7. SoughtSound'
  <2> SUFFICES ASSUME NEW t \in Sessions \ {s}, NEW k \in sought[t]
               PROVE  /\ ident'[k].to # Null /\ ident'[k].by # t => k \in raced
                      /\ \A u \in Sessions \ {t} : k \in sought'[u] => k \in raced
    BY <1>1 DEF SoughtSound, TypeOK
  <2>1. k \in Ids
    BY DEF TypeOK
  <2>2. ident'[k].to # Null /\ ident'[k].by # t => ident[k].to # Null /\ ident[k].by # t
    BY <1>1, <2>1
  <2>3. \A u \in Sessions \ {t} : sought'[u] \subseteq sought[u]
    BY <1>1 DEF TypeOK
  <2> QED
    BY <2>2, <2>3 DEF IdsSound, SoughtSound
<1> QED
  BY <1>4, <1>5, <1>6, <1>7

\* The rows of the transaction are committed, with the identifiers they bear.
LEMMA CommitIds ==
  ASSUME TypeOK, InHand, RowsSound, IdsSound, NEW s \in Sessions, SessionStep(s), Commit(s)
  PROVE  IdsSound'
<1>1. /\ at[s] = "next" /\ at'[s] = "ended" /\ UNCHANGED <<row, raced>>
      /\ \A c \in Companies : lock[c] # s => kept'[c] = kept[c] /\ lock'[c] = lock[c]
      /\ \A c \in Companies : lock[c] = s => kept'[c] = row[c] /\ lock'[c] = Null
      /\ \A k \in Ids : ident[k].by # s => ident'[k] = ident[k]
      /\ \A k \in Ids : ident[k].by = s => ident'[k].by = Null /\ ident'[k].to = ident[k].to
  BY DEF Commit, Closes, Goes, TypeOK
<1>2. \A c \in Companies : kept'[c].bears \subseteq row'[c].bears
  BY <1>1 DEF IdsSound, BearsSound
<1>3. ASSUME NEW c \in Companies, NEW k \in kept'[c].bears PROVE OnRecord(k, Null)'
  <2>1. CASE lock[c] = s
    <3>1. k \in Ids /\ OnRecord(k, s)
      BY <1>1, <1>3, <2>1, OwnBorne DEF TypeOK, Rows
    <3> QED
      BY <1>1, <3>1 DEF OnRecord
  <2>2. CASE lock[c] # s
    <3>1. k \in Ids /\ OnRecord(k, Null)
      BY <1>1, <1>3, <2>2 DEF TypeOK, Rows, IdsSound, BearsSound
    <3> QED
      BY <1>1, <3>1, NullAssumption DEF OnRecord
  <2> QED
    BY <2>1, <2>2
<1>4. \A c \in Companies : lock[c] \in {Null, s} => Borne(c)'
  BY <1>1, <1>3, FreeBorne DEF RowsSound
<1>5. BearsSound'
  BY <1>2, <1>3, <1>4, EndOthers DEF BearsSound, TypeOK
<1>6. AtHand(s)'
  BY <1>1 DEF AtHand
<1>7. RowsOneCompany'
  BY <1>1 DEF IdsSound, RowsOneCompany
<1> QED
  BY <1>5, <1>6, <1>7, EndOthers DEF IdsSound, HandSound

\* The rows give way to the committed ones, which bear no more than they did.
LEMMA FailsIds ==
  ASSUME TypeOK, InHand, RowsSound, IdsSound, NEW s \in Sessions, SessionStep(s), Fails(s)
  PROVE  IdsSound'
<1>1. /\ at'[s] = "ended" /\ UNCHANGED <<kept, raced>>
      /\ \A c \in Companies : lock[c] # s => row'[c] = row[c] /\ lock'[c] = lock[c]
      /\ \A c \in Companies : lock[c] = s => row'[c] = kept[c] /\ lock'[c] = Null
      /\ \A k \in Ids : ident[k].by # s => ident'[k] = ident[k]
  BY DEF Fails, Closes, Goes, TypeOK
<1>2. \A c \in Companies : kept'[c].bears \subseteq row'[c].bears /\ row'[c].bears \subseteq row[c].bears
  BY <1>1 DEF IdsSound, BearsSound
<1>3. ASSUME NEW c \in Companies, NEW k \in kept'[c].bears PROVE OnRecord(k, Null)'
  <2>1. k \in Ids /\ OnRecord(k, Null)
    BY <1>1, <1>3 DEF TypeOK, Rows, IdsSound, BearsSound
  <2> QED
    BY <1>1, <2>1, NullAssumption DEF OnRecord
<1>4. \A c \in Companies : lock[c] \in {Null, s} => Borne(c)'
  BY <1>1, <1>3, FreeBorne DEF RowsSound
<1>5. BearsSound'
  BY <1>2, <1>3, <1>4, EndOthers DEF BearsSound, TypeOK
<1>6. AtHand(s)'
  BY <1>1 DEF AtHand
<1>7. RowsOneCompany'
  BY <1>1, <1>2 DEF IdsSound, RowsOneCompany
<1> QED
  BY <1>5, <1>6, <1>7, EndOthers DEF IdsSound, HandSound

LEMMA IdsStep ==
  ASSUME TypeOK, InHand, RowsSound, IdsSound, NEW s \in Sessions, SessionStep(s)
  PROVE  IdsSound'
<1> USE DEF tables, calls, resolver, Goes, Resolved
<1>1. CASE Moves(s) \/ RecordStep(s)
  BY <1>1, IdsFrame DEF Moves, Begin, NextPhase, TakeUp, Observe, RecordStep, Store, Mirror,
                        MirrorFails, TypeOK
<1>2. CASE ResolveStep(s)
  <2>1. CASE LookUpHits(s)
    BY <2>1, IdsFrame DEF LookUpHits, TypeOK
  <2> QED
    BY <1>2, <2>1, MissIds, LinkIds, CreateIds, IdentifyIds, BearIds DEF ResolveStep
<1>3. CASE ProfileStep(s)
  <2> DEFINE c == target[s]
  <2>1. CASE ReadProfile(s)
    BY <2>1, IdsFrame DEF ReadProfile, TypeOK
  <2>2. CASE EmbedFails(s) /\ UNCHANGED <<row, lock>>
    BY <2>2, IdsFrame DEF EmbedFails, TypeOK
  <2>3. ASSUME NEW r, r.bears = row[c].bears, c \in Companies, Writes(s, c, r),
               at[s] # "identify", at'[s] \notin {"match", "identify", "bear"},
               UNCHANGED <<kept, ident, sought, raced>>
        PROVE  IdsSound'
    BY <2>3, WriteIds
  <2>4. c \in Companies => row[c] \in Rows
    BY DEF TypeOK
  <2>5. CASE Fill(s)
    <3> DEFINE r == [row[c] EXCEPT !.desc = Given(row[c].desc, item[s].text)]
    <3>1. c \in Companies /\ r.bears = row[c].bears
      BY <2>4, <2>5 DEF Fill, InHand, Settled, Rows
    <3>2. Writes(s, c, r)
      BY <2>5 DEF Fill
    <3> HIDE DEF r, c
    <3> QED
      BY <2>3, <2>5, <3>1, <3>2 DEF Fill, TypeOK
  <2>6. CASE Update(s)
    <3> DEFINE said == IF Authoritative(s) THEN Given(item[s].text, row[c].desc)
                                           ELSE Given(row[c].desc, item[s].text)
               late == row[c].desc # found[s].desc
               r    == [row[c] EXCEPT !.desc = said, !.off = @ \/ late]
    <3>1. c \in Companies /\ r.bears = row[c].bears
      BY <2>4, <2>6 DEF Update, InHand, Settled, Rows
    <3>2. Writes(s, c, r)
      BY <2>6 DEF Update
    <3> HIDE DEF r, c
    <3> QED
      BY <2>3, <2>6, <3>1, <3>2 DEF Update, TypeOK
  <2>7. CASE Embed(s)
    <3> DEFINE r == [row[c] EXCEPT !.emb = NewDesc(s), !.off = found[s].late]
    <3>1. c \in Companies /\ r.bears = row[c].bears
      BY <2>4, <2>7 DEF Embed, InHand, Settled, Rows
    <3>2. Writes(s, c, r)
      BY <2>7 DEF Embed
    <3> HIDE DEF r, c
    <3> QED
      BY <2>3, <2>7, <3>1, <3>2 DEF Embed, TypeOK
  <2>8. CASE EmbedFails(s) /\ at[s] = "embed" /\ Writes(s, c, [row[c] EXCEPT !.off = TRUE])
    <3> DEFINE r == [row[c] EXCEPT !.off = TRUE]
    <3>1. c \in Companies /\ r.bears = row[c].bears
      BY <2>4, <2>8 DEF InHand, Settled, Rows
    <3>2. Writes(s, c, r)
      BY <2>8
    <3> HIDE DEF r, c
    <3> QED
      BY <2>3, <2>8, <3>1, <3>2 DEF EmbedFails, TypeOK
  <2> QED
    BY <1>3, <2>1, <2>2, <2>5, <2>6, <2>7, <2>8 DEF ProfileStep, EmbedFails
<1>4. CASE Commit(s) \/ Fails(s)
  BY <1>4, CommitIds, FailsIds
<1> QED
  BY <1>1, <1>2, <1>3, <1>4 DEF SessionStep, Moves

-----------------------------------------------------------------------------
(* The invariant and what it says of the committed data. *)

LEMMA InitIInv == Init => IInv
<1> SUFFICES ASSUME Init PROVE IInv
  OBVIOUS
<1>1. NoRow \in Rows
  BY DEF NoRow, Rows
<1>2. TypeOK
  BY <1>1, BoundAssumption DEF Init, TypeOK, SourceKinds, Statements
<1>3. InHand
  BY DEF Init, InHand, Working, Settled
<1>4. RowsSound
  BY DEF Init, RowsSound, Matches, NoRow
<1>5. IdsSound
  <2>1. InsertsSound /\ SoughtSound /\ HandSound
    BY DEF Init, InsertsSound, SoughtSound, HandSound, AtHand
  <2>2. BearsSound /\ RowsOneCompany
    BY DEF Init, BearsSound, Borne, RowsOneCompany, NoRow
  <2> QED
    BY <2>1, <2>2 DEF IdsSound
<1>6. MirrorSound
  <2>1. \A o \in Observations : Calls(o) = 0
    BY StateAssumption DEF Init, Calls, Written, Called
  <2> QED
    BY <2>1 DEF Init, MirrorSound
<1> QED
  BY <1>2, <1>3, <1>4, <1>5, <1>6 DEF IInv

\* Steps in which nothing happens.
LEMMA StutterIInv ==
  ASSUME IInv, UNCHANGED vars
  PROVE  IInv'
<1> USE DEF IInv, vars, tables, resolver, calls
<1>1. TypeOK' /\ InHand'
  BY DEF TypeOK, InHand, MentionId
<1>2. RowsSound'
  BY DEF RowsSound, Matches, Embedding, NewDesc, Authoritative
<1>3. IdsSound'
  <2>1. InsertsSound' /\ SoughtSound' /\ RowsOneCompany'
    BY DEF IdsSound, InsertsSound, SoughtSound, RowsOneCompany
  <2>2. BearsSound'
    BY DEF IdsSound, BearsSound, Borne, OnRecord, Noting, MentionId
  <2>3. HandSound'
    BY DEF IdsSound, HandSound, AtHand, OnRecord, Noting, Mine, MentionId
  <2> QED
    BY <2>1, <2>2, <2>3 DEF IdsSound
<1>4. MirrorSound'
  BY DEF MirrorSound, Calls, Written, Called, Key
<1> QED
  BY <1>1, <1>2, <1>3, <1>4

\* Whatever the sessions do, each part of the invariant is kept.
THEOREM CollectionInvariant == Spec => []IInv
<1>1. IInv /\ [Next]_vars => IInv'
  <2> SUFFICES ASSUME IInv, [Next]_vars PROVE IInv'
    OBVIOUS
  <2>1. ASSUME NEW s \in Sessions, SessionStep(s) PROVE IInv'
    BY <2>1, TypesStep, RowsStep, IdsStep, MirrorStep DEF IInv
  <2>2. CASE UNCHANGED vars
    BY <2>2, StutterIInv
  <2> QED
    BY <2>1, <2>2 DEF Next
<1> QED
  BY <1>1, InitIInv, PTL DEF Spec

\* A domain or registry id is committed for one company unless two transactions
\* looked it up in vain together: committed rows bear no more than the rows do.
THEOREM IdsLeadToOneCompany == Spec => []OneCompanyPerId
<1>1. IInv => OneCompanyPerId
  BY DEF IInv, IdsSound, BearsSound, RowsOneCompany, OneCompanyPerId
<1> QED
  BY <1>1, CollectionInvariant, PTL

\* A committed embedding is of the description committed with it, but for empty
\* descriptions, failed calls of the model and descriptions written since the
\* profile was read.
THEOREM EmbeddingsFollowDescriptions == Spec => []EmbeddingMatches
<1>1. IInv => EmbeddingMatches
  BY DEF IInv, RowsSound, Matches, EmbeddingMatches
<1> QED
  BY <1>1, CollectionInvariant, PTL

\* ClickHouse has a row for each insert, those rolled back included, and fewer
\* only by the calls that failed.
THEOREM MirrorIsPerInsert == Spec => []MirroredOncePerInsert
<1>1. ASSUME IInv PROVE MirroredOncePerInsert
  <2> SUFFICES ASSUME NEW o \in Observations
               PROVE  /\ mirror[o] <= Written(o) + Underway(o)
                      /\ mirror[o] + missed[o] >= Written(o)
    BY DEF MirroredOncePerInsert
  <2>1. mirror[o] <= Calls(o) /\ mirror[o] + missed[o] >= Calls(o)
    BY <1>1 DEF IInv, MirrorSound
  <2>2. mirror[o] \in Nat /\ missed[o] \in Nat /\ undone[o] \in Nat
    BY <1>1 DEF IInv, TypeOK
  <2> QED
    BY <2>1, <2>2 DEF Calls, Called, Written, Underway
<1> QED
  BY <1>1, CollectionInvariant, PTL
=============================================================================
