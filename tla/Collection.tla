----------------------------- MODULE Collection -----------------------------
(***************************************************************************)
(* Collecting companies and signals of one tenant: Collector.discover and  *)
(* enrich and import_registry (services/sourcing/.../collect.py), with     *)
(* Resolver.resolve_company (services/resolver/.../er.py) statement by     *)
(* statement.                                                              *)
(*                                                                         *)
(* A session is one READ COMMITTED transaction: a collection (a daily      *)
(* attempt, of which an earlier one may still run, or a run a user asked   *)
(* for), the import of a registry extract, or another caller of            *)
(* resolve_company, a CRM import say.  An action is one statement.  Rows   *)
(* are kept in their last version and in the committed one, and a          *)
(* statement that needs a row or key another session has written waits.    *)
(* ClickHouse is written before the commit and takes no part in it.        *)
(***************************************************************************)
EXTENDS Integers, FiniteSets

CONSTANTS
  Companies,    \* ids of company rows
  Sessions,     \* transactions
  Mentions,     \* records of vendors and registries, funding news, CRM rows
  Probes,       \* a GitHub organisation, a job board, news that name a company
  Days,         \* days on which sources are snapshotted
  Texts,        \* descriptions
  Empty,        \* the empty one: a value to the database, none to the program
  Ids,          \* domains and registry ids
  Null,
  Source,       \* Source[m]: which kind of source a mention is from
  IdOf,         \* IdOf[m]: the domain or registry id it gives, or Null
  Kind,         \* Kind[k]: domain or registry id
  MaxMentions,  \* bound on what a session takes up
  MaxFaults     \* bound on failed sessions, embedding calls and mirror calls

SourceKinds == {"vendor", "registry", "news", "crm"}
IdKinds     == {"domain", "registry_id"}

\* What a record gives to go by: a vendor's or a CRM's company has a domain or
\* nothing, one of a registry its number, one in the news only a name.
VendorRecord(m) == Source[m] = "vendor" /\ (IdOf[m] # Null => Kind[IdOf[m]] = "domain")
RegistryRow(m)  == Source[m] = "registry" /\ IdOf[m] # Null /\ Kind[IdOf[m]] = "registry_id"
FundingNews(m)  == Source[m] = "news" /\ IdOf[m] = Null
CrmCompany(m)   == Source[m] = "crm" /\ (IdOf[m] # Null => Kind[IdOf[m]] = "domain")

ASSUME NullAssumption    == Null \notin Companies \cup Sessions \cup Texts \cup Ids
ASSUME EmptyAssumption   == Empty \in Texts
ASSUME StateAssumption   == {"free", "stored"} \cap Sessions = {}
ASSUME MentionAssumption ==
  /\ Source \in [Mentions -> SourceKinds]
  /\ IdOf \in [Mentions -> Ids \cup {Null}]
  /\ Kind \in [Ids -> IdKinds]
  /\ \A m \in Mentions :
       VendorRecord(m) \/ RegistryRow(m) \/ FundingNews(m) \/ CrmCompany(m)
ASSUME BoundAssumption   == MaxMentions \in Nat /\ MaxFaults \in Nat

VARIABLES
  row,       \* row[c]: last version of a company, committed or not
  kept,      \* kept[c]: committed version
  lock,      \* lock[c]: session that has written the row
  ident,     \* ident[k]: company an identifier leads to, and who inserts it
  holder,    \* holder[<<m, d>>]: session that has written the source row
  obs,       \* obs[o]: "free", "stored", or the session that inserts it
  mirror,    \* mirror[o]: rows of the observation in ClickHouse
  at,        \* at[s]: the statement a session comes to
  phase,     \* phase[s]: what the session is reading
  item,      \* item[s]: the mention or probe at hand, and its text
  target,    \* target[s]: the company it was resolved to
  found,     \* found[s]: the profile as the session read it
  cache,     \* cache[s]: the resolver's identifiers
  taken,     \* taken[s]: mentions taken up so far
  sought,    \* sought[s]: history: identifiers looked up in vain
  raced,     \* history: identifiers that two open sessions looked up in vain
  missed,    \* history: mirror calls that failed
  undone,    \* history: mirrored observations that were rolled back
  faults     \* faults so far

tables   == <<row, kept, lock, ident, holder, obs>>
resolver == <<phase, cache, taken, sought, raced>>
calls    == <<mirror, missed, undone, faults>>
vars     == <<tables, at, item, target, found, resolver, calls>>

Feeds        == Mentions \cup Probes
Observations == Companies \X Feeds

\* off: the embedding may be of another description (see Update, EmbedFails).
NoRow == [there |-> FALSE, bears |-> {}, desc |-> Null, emb |-> Null, off |-> FALSE]

Init ==
  /\ row    = [c \in Companies |-> NoRow]
  /\ kept   = row
  /\ lock   = [c \in Companies |-> Null]
  /\ ident  = [k \in Ids |-> [to |-> Null, by |-> Null]]
  /\ holder = [md \in Mentions \X Days |-> Null]
  /\ obs    = [o \in Observations |-> "free"]
  /\ mirror = [o \in Observations |-> 0]
  /\ at     = [s \in Sessions |-> "idle"]
  /\ phase  = [s \in Sessions |-> "none"]
  /\ item   = [s \in Sessions |-> [feed |-> Null, text |-> Null]]
  /\ target = [s \in Sessions |-> Null]
  /\ found  = [s \in Sessions |-> [desc |-> Null, emb |-> FALSE, late |-> FALSE]]
  /\ cache  = [s \in Sessions |-> [k \in Ids |-> Null]]
  /\ taken  = [s \in Sessions |-> 0]
  /\ sought = [s \in Sessions |-> {}]
  /\ raced  = {}
  /\ missed = [o \in Observations |-> 0]
  /\ undone = [o \in Observations |-> 0]
  /\ faults = 0

-----------------------------------------------------------------------------
View(s, c) == IF lock[c] = s THEN row[c] ELSE kept[c]

Mine(s)    == {c \in Companies : lock[c] = s}
Writes(s, c, r) ==
  /\ lock[c] \in {Null, s}
  /\ row'  = [row EXCEPT ![c] = r]
  /\ lock' = [lock EXCEPT ![c] = s]
Goes(s, where) == at' = [at EXCEPT ![s] = where]

MentionId(s) == IdOf[item[s].feed]
Authoritative(s) == phase[s] \in {"vendor", "enrich"}
Key(s) == <<target[s], item[s].feed>>

\* A collection, a registry import or another import begins.
Begin(s) ==
  /\ at[s] = "idle"
  /\ \E ph \in {"vendor", "registry", "crm"} : phase' = [phase EXCEPT ![s] = ph]
  /\ Goes(s, "next")
  /\ UNCHANGED <<tables, item, target, found, cache, taken, sought, raced, calls>>

\* discover has gone through the vendor's records, and then the news.
NextPhase(s) ==
  /\ at[s] = "next"
  /\ \/ phase[s] = "vendor" /\ phase' = [phase EXCEPT ![s] = "news"]
     \/ phase[s] = "news"   /\ phase' = [phase EXCEPT ![s] = "enrich"]
  /\ UNCHANGED <<tables, at, item, target, found, cache, taken, sought, raced, calls>>

\* Records of the session's source; enrich looks up those of tracked companies.
Reads(s, m) ==
  CASE phase[s] = "enrich" ->
         /\ Source[m] = "vendor"
         /\ \E c \in Companies : View(s, c).there /\ IdOf[m] \in View(s, c).bears
    [] OTHER -> Source[m] = phase[s]

\* A vendor's or a CRM's description may be empty; a registry and the news give
\* one or None.
Gives(m, text) == text = Empty => Source[m] \in {"vendor", "crm"}

\* _source_row: INSERT ... ON CONFLICT DO UPDATE, one row of a record and day; an
\* import has one row for all its records, which it writes before.
TakeUp(s, m, d, text) ==
  /\ at[s] = "next"
  /\ taken[s] < MaxMentions
  /\ Reads(s, m) /\ Gives(m, text)
  /\ IF phase[s] = "crm" THEN UNCHANGED holder
     ELSE holder[<<m, d>>] \in {Null, s} /\ holder' = [holder EXCEPT ![<<m, d>>] = s]
  /\ item'   = [item EXCEPT ![s] = [feed |-> m, text |-> text]]
  /\ taken'  = [taken EXCEPT ![s] = @ + 1]
  /\ Goes(s, "lookup")
  /\ UNCHANGED <<row, kept, lock, ident, obs, target, found, phase, cache, sought, raced, calls>>

-----------------------------------------------------------------------------
(* Resolver.resolve_company. *)

\* What follows for a resolved company: its profile, or what an import fills in.
Resolved(s) == Goes(s, IF phase[s] = "crm" THEN "fill" ELSE "read")

\* _by_identifier: the resolver's cache, else the identifiers it can see.
Known(s, k) ==
  CASE cache[s][k] # Null           -> cache[s][k]
    [] ident[k].by \in {Null, s}    -> ident[k].to
    [] OTHER                        -> Null

LookUpHits(s) ==
  LET k == MentionId(s) IN
  /\ at[s] = "lookup"
  /\ k # Null /\ Known(s, k) # Null
  /\ target' = [target EXCEPT ![s] = Known(s, k)]
  /\ cache'  = [cache EXCEPT ![s][k] = Known(s, k)]
  /\ Resolved(s)
  /\ UNCHANGED <<tables, item, found, phase, taken, sought, raced, calls>>

LookUpMisses(s) ==
  LET k == MentionId(s) IN
  /\ at[s] = "lookup"
  /\ k # Null => Known(s, k) = Null
  /\ sought' = [sought EXCEPT ![s] = @ \cup ({k} \ {Null})]
  /\ raced'  = raced \cup {j \in {k} \ {Null} : \E t \in Sessions \ {s} : j \in sought[t]}
  /\ Goes(s, "match")
  /\ UNCHANGED <<tables, item, target, found, phase, cache, taken, calls>>

\* [variant: a similar company is taken without noting the identifier]
Link_Unnoted(s, c) ==
  /\ at[s] = "match" /\ View(s, c).there
  /\ MentionId(s) # Null /\ Kind[MentionId(s)] = "domain" =>
       \A j \in View(s, c).bears : Kind[j] = "domain" => j = MentionId(s)
  /\ target' = [target EXCEPT ![s] = c]
  /\ IF MentionId(s) = Null THEN Resolved(s) ELSE Goes(s, "bear")
  /\ UNCHANGED <<tables, item, found, resolver, calls>>

\* A company with a similar enough name; not one with another domain.
Link(s, c) ==
  /\ at[s] = "match"
  /\ View(s, c).there
  /\ MentionId(s) # Null /\ Kind[MentionId(s)] = "domain" =>
       \A j \in View(s, c).bears : Kind[j] = "domain" => j = MentionId(s)
  /\ target' = [target EXCEPT ![s] = c]
  /\ IF MentionId(s) = Null THEN Resolved(s) ELSE Goes(s, "identify")
  /\ UNCHANGED <<tables, item, found, resolver, calls>>

\* No company, or none similar enough: a new one, under review or not.
Create(s, c) ==
  /\ at[s] = "match"
  /\ lock[c] = Null /\ row[c] = NoRow
  /\ Writes(s, c, [there |-> TRUE, bears |-> {MentionId(s)} \ {Null},
                   desc |-> item[s].text, emb |-> Null, off |-> FALSE])
  /\ target' = [target EXCEPT ![s] = c]
  /\ IF MentionId(s) = Null THEN Resolved(s) ELSE Goes(s, "identify")
  /\ UNCHANGED <<kept, ident, holder, obs, item, found, resolver, calls>>

\* add_identifier: INSERT ... ON CONFLICT DO NOTHING, which waits for a session
\* inserting the same; the cache takes the company either way.  The UPDATE that
\* follows for a similar company is left out where it would change nothing.
Identify(s) ==
  LET k == MentionId(s) IN
  /\ at[s] = "identify"
  /\ ident[k].by \in {Null, s}
  /\ ident' = IF ident[k].to = Null
              THEN [ident EXCEPT ![k] = [to |-> target[s], by |-> s]] ELSE ident
  /\ cache' = [cache EXCEPT ![s][k] = target[s]]
  /\ IF k \in View(s, target[s]).bears THEN Resolved(s) ELSE Goes(s, "bear")
  /\ UNCHANGED <<row, kept, lock, holder, obs, item, target, found, phase, taken, sought, raced, calls>>

\* UPDATE companies SET domain = coalesce(domain, ...), or registry_id.
Bear(s) ==
  LET c == target[s]  k == MentionId(s) IN
  /\ at[s] = "bear"
  /\ Writes(s, c, [row[c] EXCEPT !.bears =
       @ \cup (IF \E j \in @ : Kind[j] = Kind[k] THEN {} ELSE {k})])
  /\ Resolved(s)
  /\ UNCHANGED <<kept, ident, holder, obs, item, target, found, resolver, calls>>

-----------------------------------------------------------------------------
(* Collector.upsert_profile, after the company is resolved. *)

\* coalesce(a, b) takes an empty description, which the program takes for none.
Given(a, b) == IF a # Null THEN a ELSE b
Said(text)  == text \notin {Null, Empty}

\* Other imports fill in a description that is NULL, and do not embed it.
Fill(s) ==
  LET c == target[s] IN
  /\ at[s] = "fill"
  /\ Writes(s, c, [row[c] EXCEPT !.desc = Given(@, item[s].text)])
  /\ Goes(s, "next")
  /\ UNCHANGED <<kept, ident, holder, obs, item, target, found, resolver, calls>>

\* SELECT description, description_embedding IS NULL
ReadProfile(s) ==
  LET seen == View(s, target[s]) IN
  /\ at[s] = "read"
  /\ found' = [found EXCEPT ![s] = [desc |-> seen.desc, emb |-> seen.emb # Null, late |-> FALSE]]
  /\ Goes(s, "update")
  /\ UNCHANGED <<tables, item, target, resolver, calls>>

\* new_desc, from the profile as it was read
NewDesc(s) ==
  IF Authoritative(s) \/ ~ Said(found[s].desc) THEN item[s].text ELSE found[s].desc

\* [variant: only a company without an embedding gets one]
Embeds_Once(s) == Said(NewDesc(s)) /\ ~ found[s].emb

Embeds(s) == Said(NewDesc(s)) /\ (~ found[s].emb \/ NewDesc(s) # found[s].desc)

\* UPDATE companies: of a vendor the description replaces, else it fills a
\* NULL; an empty one is neither replaced by NULL nor filled.  late: another
\* session wrote the description since it was read.
Update(s) ==
  LET c == target[s]  late == row[c].desc # found[s].desc IN
  /\ at[s] = "update"
  /\ Writes(s, c, [row[c] EXCEPT
       !.desc = IF Authoritative(s) THEN Given(item[s].text, @) ELSE Given(@, item[s].text),
       !.off  = @ \/ late])
  /\ found' = [found EXCEPT ![s].late = late]
  /\ Goes(s, IF Embeds(s) THEN "embed" ELSE "store")
  /\ UNCHANGED <<kept, ident, holder, obs, item, target, resolver, calls>>

\* The description is embedded, which the row, written by now, waits for.
Embed(s) ==
  LET c == target[s] IN
  /\ at[s] = "embed"
  /\ Writes(s, c, [row[c] EXCEPT !.emb = NewDesc(s), !.off = found[s].late])
  /\ Goes(s, "store")
  /\ UNCHANGED <<kept, ident, holder, obs, item, target, found, resolver, calls>>

Fault == faults < MaxFaults /\ faults' = faults + 1

\* The model gives no embedding, of a name or of a description: discover's
\* vendor search and enrich log it and go on with other records.
EmbedFails(s) ==
  /\ phase[s] \in {"vendor", "enrich"}
  /\ Fault
  /\ \/ at[s] = "match" /\ UNCHANGED <<row, lock>>
     \/ at[s] = "embed" /\ Writes(s, target[s], [row[target[s]] EXCEPT !.off = TRUE])
  /\ Goes(s, "next")
  /\ UNCHANGED <<kept, ident, holder, obs, item, target, found, resolver, mirror, missed, undone>>

-----------------------------------------------------------------------------
(* Collector.record. *)

\* enrich observes a tracked company at GitHub, at a job board or in the news.
Observe(s, c, p) ==
  /\ at[s] = "next" /\ phase[s] = "enrich"
  /\ View(s, c).there
  /\ target' = [target EXCEPT ![s] = c]
  /\ item'   = [item EXCEPT ![s] = [feed |-> p, text |-> Null]]
  /\ Goes(s, "store")
  /\ UNCHANGED <<tables, found, resolver, calls>>

\* [variant: what was there already is mirrored too]
Store_MirrorsAll(s) ==
  /\ at[s] = "store" /\ obs[Key(s)] \in {"free", "stored", s}
  /\ obs' = IF obs[Key(s)] = "free" THEN [obs EXCEPT ![Key(s)] = s] ELSE obs
  /\ Goes(s, "mirror")
  /\ UNCHANGED <<row, kept, lock, ident, holder, item, target, found, resolver, calls>>

\* INSERT INTO signal_observations ... ON CONFLICT DO NOTHING, which waits for
\* a session inserting the same; only a new row is mirrored.
Store(s) ==
  /\ at[s] = "store"
  /\ obs[Key(s)] \in {"free", "stored", s}
  /\ IF obs[Key(s)] = "free"
     THEN obs' = [obs EXCEPT ![Key(s)] = s] /\ Goes(s, "mirror")
     ELSE obs' = obs /\ Goes(s, "next")
  /\ UNCHANGED <<row, kept, lock, ident, holder, item, target, found, resolver, calls>>

\* ClickHouseMirror.write
Mirror(s) ==
  /\ at[s] = "mirror"
  /\ mirror' = [mirror EXCEPT ![Key(s)] = @ + 1]
  /\ Goes(s, "next")
  /\ UNCHANGED <<tables, item, target, found, resolver, missed, undone, faults>>

\* The call fails, or its answer does not arrive: it is logged.
MirrorFails(s) ==
  /\ at[s] = "mirror"
  /\ Fault
  /\ \E n \in {0, 1} : mirror' = [mirror EXCEPT ![Key(s)] = @ + n]
  /\ missed' = [missed EXCEPT ![Key(s)] = @ + 1]
  /\ Goes(s, "next")
  /\ UNCHANGED <<tables, item, target, found, resolver, undone>>

-----------------------------------------------------------------------------
\* What both ends of a transaction do to the session and its locks.
Closes(s) ==
  /\ lock'   = [c \in Companies |-> IF lock[c] = s THEN Null ELSE lock[c]]
  /\ holder' = [md \in Mentions \X Days |-> IF holder[md] = s THEN Null ELSE holder[md]]
  /\ sought' = [sought EXCEPT ![s] = {}]
  /\ Goes(s, "ended")

Commit(s) ==
  /\ at[s] = "next"
  /\ phase[s] \notin {"vendor", "news"}
  /\ Closes(s)
  /\ kept'  = [c \in Companies |-> IF lock[c] = s THEN row[c] ELSE kept[c]]
  /\ ident' = [k \in Ids |-> IF ident[k].by = s THEN [to |-> ident[k].to, by |-> Null] ELSE ident[k]]
  /\ obs'   = [o \in Observations |-> IF obs[o] = s THEN "stored" ELSE obs[o]]
  /\ UNCHANGED <<row, item, target, found, phase, cache, taken, raced, calls>>

\* The transaction rolls back: an error that nobody catches, a crash, or an error
\* of the database, deadlock included.  One that enrich catches ends like this too:
\* nothing more can be written, and the COMMIT at the end is a rollback.
Fails(s) ==
  /\ at[s] \notin {"idle", "ended"}
  /\ Fault
  /\ Closes(s)
  /\ row'   = [c \in Companies |-> IF lock[c] = s THEN kept[c] ELSE row[c]]
  /\ ident' = [k \in Ids |-> IF ident[k].by = s THEN [to |-> Null, by |-> Null] ELSE ident[k]]
  /\ obs'   = [o \in Observations |-> IF obs[o] = s THEN "free" ELSE obs[o]]
  /\ undone' = [o \in Observations |->
       IF obs[o] = s /\ ~ (at[s] = "mirror" /\ o = Key(s)) THEN undone[o] + 1 ELSE undone[o]]
  /\ UNCHANGED <<kept, item, target, found, phase, cache, taken, raced, mirror, missed>>

ProfileStep(s) == Fill(s) \/ ReadProfile(s) \/ Update(s) \/ Embed(s) \/ EmbedFails(s)
RecordStep(s)  == Store(s) \/ Mirror(s) \/ MirrorFails(s)
ResolveStep(s) ==
  \/ LookUpHits(s) \/ LookUpMisses(s) \/ Identify(s) \/ Bear(s)
  \/ \E c \in Companies : Link(s, c) \/ Create(s, c)

SessionStep(s) ==
  \/ Begin(s) \/ NextPhase(s) \/ Commit(s) \/ Fails(s)
  \/ \E m \in Mentions, d \in Days, text \in Texts \cup {Null} : TakeUp(s, m, d, text)
  \/ \E c \in Companies, p \in Probes : Observe(s, c, p)
  \/ ResolveStep(s) \/ ProfileStep(s) \/ RecordStep(s)

Next == \E s \in Sessions : SessionStep(s)

Spec == Init /\ [][Next]_vars

-----------------------------------------------------------------------------
(* Properties. *)

\* A domain or a registry id is in the row of one company, unless two open
\* transactions looked it up in vain; similar names, retries and failures of
\* either do not make a second one.
OneCompanyPerId ==
  \A c, e \in Companies : \A k \in (kept[c].bears \cap kept[e].bears) \ raced : c = e

\* A committed embedding is that of the description beside it, which ranking
\* takes for granted; unless the description is the empty one, a model call
\* failed after it was written, or another transaction wrote it between reading
\* and writing.
Matches(r) == r.emb \in {Null, r.desc} \/ r.off \/ r.desc = Empty

EmbeddingMatches == \A c \in Companies : Matches(kept[c])

\* The code breaks this, with one session and without a fault: beside the empty
\* description an embedding stays, or another source's text is embedded.
EmbeddedAsDescribed ==
  \A c \in Companies : kept[c].emb \in {Null, kept[c].desc} \/ kept[c].off

\* An observation is sent to ClickHouse once for each insert that succeeded, its
\* transaction committed or not: a run that meets it again sends nothing, a call
\* that fails is not repeated and rows of a rollback are not taken back.
Written(o) == undone[o] + (IF obs[o] = "stored" THEN 1 ELSE 0)
Underway(o) == IF obs[o] \in Sessions THEN 1 ELSE 0

MirroredOncePerInsert ==
  \A o \in Observations :
    /\ mirror[o] <= Written(o) + Underway(o)
    /\ mirror[o] + missed[o] >= Written(o)

\* The code breaks this: what was stored is in ClickHouse once an outage is over,
\* and what was not stored is not.
MirrorIsTheSame ==
  \A o \in Observations :
    /\ obs[o] = "stored" => mirror[o] >= 1
    /\ obs[o] = "free" => mirror[o] = 0

-----------------------------------------------------------------------------
(* The strengthening that makes the invariants inductive. *)

Rows ==
  [there : BOOLEAN, bears : SUBSET Ids, desc : Texts \cup {Null},
   emb : Texts \cup {Null}, off : BOOLEAN]

Statements ==
  {"idle", "next", "lookup", "match", "identify", "bear", "fill", "read", "update",
   "embed", "store", "mirror", "ended"}

TypeOK ==
  /\ row    \in [Companies -> Rows] /\ kept \in [Companies -> Rows]
  /\ lock   \in [Companies -> Sessions \cup {Null}]
  /\ ident  \in [Ids -> [to : Companies \cup {Null}, by : Sessions \cup {Null}]]
  /\ holder \in [Mentions \X Days -> Sessions \cup {Null}]
  /\ obs    \in [Observations -> Sessions \cup {"free", "stored"}]
  /\ mirror \in [Observations -> Nat]
  /\ missed \in [Observations -> Nat]
  /\ undone \in [Observations -> Nat]
  /\ at     \in [Sessions -> Statements]
  /\ phase  \in [Sessions -> SourceKinds \cup {"none", "enrich"}]
  /\ item   \in [Sessions -> [feed : Feeds \cup {Null}, text : Texts \cup {Null}]]
  /\ target \in [Sessions -> Companies \cup {Null}]
  /\ found  \in [Sessions -> [desc : Texts \cup {Null}, emb : BOOLEAN, late : BOOLEAN]]
  /\ cache  \in [Sessions -> [Ids -> Companies \cup {Null}]]
  /\ taken  \in [Sessions -> 0 .. MaxMentions]
  /\ sought \in [Sessions -> SUBSET Ids]
  /\ raced  \subseteq Ids
  /\ faults \in 0 .. MaxFaults

\* What a session has in hand at each statement.
Working == {"lookup", "match", "identify", "bear", "fill", "read", "update", "embed"}
Settled == {"identify", "bear", "fill", "read", "update", "embed", "store", "mirror"}

InHand ==
  \A s \in Sessions :
    /\ at[s] \in Working => item[s].feed \in Mentions
    /\ at[s] \in Settled => target[s] \in Companies
    /\ at[s] \in {"store", "mirror"} => item[s].feed \in Feeds
    /\ at[s] \in {"match", "identify", "bear"} => {MentionId(s)} \ {Null} \subseteq sought[s]
    /\ at[s] \in {"identify", "bear"} => MentionId(s) # Null

\* A row differs from its committed version only under a lock, and its embedding
\* is of its description unless that is about to be embedded.
Embedding(c) == lock[c] \in Sessions /\ at[lock[c]] = "embed" /\ target[lock[c]] = c

RowsSound ==
  /\ \A c \in Companies :
       /\ lock[c] = Null => row[c] = kept[c]
       /\ Matches(kept[c])
       /\ Matches(row[c]) \/ Embedding(c)
  /\ \A s \in Sessions : at[s] = "embed" =>
       /\ lock[target[s]] = s
       /\ found[s].late \/ row[target[s]].desc \in {NewDesc(s), Empty}

\* What a session has written or looked up, set against the identifiers: a
\* company has its ids on record, by itself or by the session that writes it.
OnRecord(k, s) == ident[k].to # Null /\ ident[k].by \in {Null, s}
Noting(s, c, k) == at[s] = "identify" /\ target[s] = c /\ k = MentionId(s)

InsertsSound ==
  \A k \in Ids : ident[k].by # Null => ident[k].to # Null /\ k \in sought[ident[k].by]

Borne(c) == \A k \in row[c].bears : OnRecord(k, lock[c]) \/ Noting(lock[c], c, k)

BearsSound ==
  \A c \in Companies :
    /\ kept[c].bears \subseteq row[c].bears
    /\ \A k \in kept[c].bears : OnRecord(k, Null)
    /\ Borne(c)

SoughtSound ==
  \A s \in Sessions : \A k \in sought[s] :
    /\ ident[k].to # Null /\ ident[k].by # s => k \in raced
    /\ \A t \in Sessions \ {s} : k \in sought[t] => k \in raced

AtHand(s) ==
  /\ at[s] = "bear" => OnRecord(MentionId(s), s)
  /\ at[s] \in {"match", "identify", "bear"} =>
       \A c \in Mine(s) : MentionId(s) \in row[c].bears => Noting(s, c, MentionId(s))

HandSound == \A s \in Sessions : AtHand(s)

RowsOneCompany ==
  \A c, e \in Companies : \A k \in (row[c].bears \cap row[e].bears) \ raced : c = e

IdsSound == InsertsSound /\ BearsSound /\ SoughtSound /\ HandSound /\ RowsOneCompany

\* Each insert was followed by a mirror call, but for the one that is about to be.
Called(o) ==
  obs[o] \in Sessions /\ ~ (at[obs[o]] = "mirror" /\ Key(obs[o]) = o)
Calls(o) == Written(o) + (IF Called(o) THEN 1 ELSE 0)

MirrorSound ==
  /\ \A o \in Observations : mirror[o] <= Calls(o) /\ mirror[o] + missed[o] >= Calls(o)
  /\ \A s \in Sessions : at[s] = "mirror" => obs[Key(s)] = s

IInv == TypeOK /\ InHand /\ RowsSound /\ IdsSound /\ MirrorSound
=============================================================================
