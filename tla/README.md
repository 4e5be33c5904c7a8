# Formal models of Firstlook

Firstlook is a relationship-intelligence platform for venture funds. Mail,
calendars, recordings and CRM exports flow in; people and companies are resolved
into one graph; an LLM proposes introductions, deals and next steps that users
accept or reject; sourcing scores new companies against a fund's theses. Python
services and a TypeScript API share one PostgreSQL database (row-level security
per tenant, READ COMMITTED), an object store, a Kafka-compatible bus and Temporal.

This directory holds TLA+ specifications of the parts of that code whose
correctness depends on interleavings, failures and retries, the TLC instances
that check them, and TLAPS proofs of their main invariants.

## 1. The system

| Component | State it keeps | Operations | What is hard about it |
|---|---|---|---|
| Outbox and relay (`packages/pycore` `outbox.py`, `relay.py`, `db.py`) | `outbox` rows, a producer's buffer, the topic | `enqueue` in a business transaction; `relay_once`: select with `FOR UPDATE SKIP LOCKED`, publish, flush, stamp `published_at` | crash or timeout between flush and commit, several relays, id order against commit order, refused messages |
| Event bus and consumers (`adapters/bus.py`) | topic, committed offset, dead letters | `KafkaBus.consume`, `run_consumer`: poll, handle, dead-letter, commit | redelivery, eviction of a slow member, a refused commit, DLQ down |
| Connector accounts and sync (`services/ingest` `accounts.py`, `app.py`, `temporal.py`; `workflows`) | `connector_accounts` row, `sources`, `outbox`, the Temporal workflow | `sync_once` in three transactions with network calls between; connect, pause, resume, rescope, disconnect, sync now; `AccountSyncWorkflow` | stale row written back, overlapping attempts after an activity timeout, rollback of an error record, workflow returning as it is started |
| Connectors (Gmail, Outlook, Zoom, Meet: `connectors/`) | `connector_accounts.sync_cursor` | `sync`: one page and the next cursor, in backfill, incremental and expired phases | expired tokens, tokens read before or after a listing, rounds over several folders, transcripts that come late |
| Interaction pipeline (`services/resolver` `pipeline.py`, `consumer.py`) | `interactions`, participants | `process_email`, `process_meeting`, `process_transcript`, reparse | redelivery, one interaction seen by two users |
| Entity resolution and review (`er.py`, migration 0002) | `entities.merged_into`, `identifiers`, `er_candidates` and all that refers to an entity | `resolve_person`, `resolve_company`, `er_decide`, `merge_entities` | concurrent resolution and merging under READ COMMITTED |
| Relationship strength (`strength.py`, migration 0007) | `knows` and `co_occurs` edges | `recompute` by handlers and by the nightly workflow, `warm_paths` | recomputes from different snapshots, locks taken in no common order, the 180-day window |
| Extraction and decisions (`services/ai`, migration 0004, `routes/workflow.ts`) | `extractions`, `deals`, `introduced` edges | `extract_interaction`, `decide_extraction` | long model calls against redelivery, concurrent accepts |
| Model gateway (`services/gateway`) | `llm_usage`, `llm_budgets` | `structured`, `embeddings` | budget checked minutes before it is charged, by several threads; calls that end without being recorded |
| Sourcing (`services/sourcing`, `routes/sourcing.ts`) | theses and versions, scores, feedback, ranker versions | edit, vote, run; score, train, digest | an edit or a vote against runs in progress, crashes between training and scoring, events without a key |
| Signal collection (`collect.py`, `clickhouse.py`, `sources/`; `resolve_company` in `er.py`) | `companies` with descriptions and embeddings, their `identifiers`, `signal_observations`, rows in ClickHouse | `discover`, `enrich`, `import_registry`, `upsert_profile`, `record` | one long transaction over outside services beside others: look-up and insert apart, profile read before it is written, a mirror written before the commit |
| CRM import (`importer.py`, `raw.py`, `app.py`) | `sources`, companies, people, deals, notes | upload of a file, import from an API by a workflow | retries of what was done, attempts that outlive their timeout, look-up and insert apart |
| Slack (`services/slack`) | installation | `handle_deal_event`, interactive routes | an event delivered twice is posted twice |
| API, web, crypto, audit, fixtures, infrastructure | none of their own that interleaves | | |

The parts meet in few places. Every change that others must hear of is a row of
`outbox`, written in the transaction of the change. The relay turns rows into
messages; consumer groups (resolver, AI extraction, sourcing, Slack) handle them
and write further rows. The chain is: connector → `interactions.raw` → resolver →
`interactions.resolved` → extraction → users' decisions → `deals.events` → Slack.
Temporal drives account syncs, the nightly strength recompute and the daily
sourcing run. Users act through the API at any moment, in transactions of their own.

## 2. Modules

| Module | Models | Built on |
|---|---|---|
| `OutboxRelay` | business transactions, outbox rows, relays with row locks and a producer buffer, one topic | |
| `ConsumerGroup` | one partition and the members of one consumer group | |
| `EventDelivery` | the abstract promise: a committed event is promised, a promised event gets settled | |
| `EventPipeline` | relays and a consumer group around one partition | `OutboxRelay`, `ConsumerGroup`, `EventDelivery` |
| `AccountSync` | one connector account: its row, sync attempts, the workflow, users and the provider | |
| `EntityMerge` | resolver transactions and review decisions, statement by statement | |
| `Extractions` | the extraction consumer, decisions on proposals statement by statement, the deal routes | |
| `Ingestion` | the resolver's handlers of raw events, and relationship strength with its nightly run | |
| `Connectors` | the `sync` methods of the four connectors, the providers' feeds and their tokens | |
| `GatewayBudget` | the model gateway's requests of one tenant, from the budget check to the reply | |
| `Sourcing` | one thesis: versions, votes, training, scoring and the feed | |
| `CrmImport` | uploads and API imports of a company and its deal, record by record | |
| `Collection` | collections of companies and signals and registry imports, with the resolution of companies | |

A composition wider than `EventPipeline` is made by assumption, not by
instance: `Ingestion`, `Extractions` and `Sourcing` have the bus as `ConsumerGroup`
shows it to be (in order, at least once, twice at a time only when a member was
given up on), and `Connectors` has the attempts that `AccountSync` shows to overlap.

Each module that is checked by itself has an `MC...` module, which only names
constant values (`ConsumerGroup` has none: its members run in `EventPipeline`, behind
the relays that fill their partition), and a `...Proofs` module holds the theorems about it. Where one
`...Proofs` module extends two specifications, names that both would have (`Init`,
`Spec`, `IInv`, ...) carry a prefix in one of them: `Sync`, `Import` or `Gateway`.
Definitions marked `[variant: ...]` are plausible mistakes: the code with one guard,
lock or reset missing. No specification uses them; substituted for the real
definition each must break the property named beside it in `PROJECT.json`, which
shows that the property can fail.

### OutboxRelay

`row[e]` is the life of an outbox row: none, written by an open transaction,
committed, stamped `published_at`. `rid` is its sequence number, taken at the
insert (`Enqueue`), so commits may come in another order. A relay's `relay_once`
is `Select` (the `ORDER BY id LIMIT n FOR UPDATE SKIP LOCKED` query), one
`Publish` per row into `buffer`, `Flush`, `MarkPublished`. `Deliver` is the
producer handing a buffered message to Kafka, which may also happen before the flush.
`PublishRaises` is `produce` raising at once (its queue is full) in the middle of a
batch; like `FlushTimeout` it rolls back and leaves what is buffered to a process that
lives on, while `CrashRelay` loses the buffer. `Refused` messages are those the broker will not take: `produce` is
given no delivery callback, so they leave the buffer silently. `seen[e]` is
history: the events committed when `e` was enqueued.

*Left out:* copies that reach the broker after the relay process that
sent them has died; a message that `produce` refuses every time (it would stop the
relay: the faults are bounded); other topics and keys (each partition behaves alike).

### ConsumerGroup

`stage[m]` and `pos[m]` are a member's place in the loop of `consume` and the
message it has. `Evict` is the coordinator giving up on a member that outlasts
`max.poll.interval.ms`; the member does not notice until its commit is refused
(`CommitRefused`), which ends the process. A handler that raises writes a dead
letter; if that fails too the exception leaves `run_consumer` without a commit
(`DlqUnreachable`). The dead letter is produced without a delivery callback, as the
relay's messages are: one that Kafka refuses for good (`RefusedLetters`) is gone, the
offset is committed all the same, and the event is in `lost`.

### EventDelivery and EventPipeline

`EventDelivery` has three sets: promised events, settled ones (applied by a
handler, or dead-lettered) and dropped ones. Nothing is settled or dropped that was not
promised, only `Droppable` events are dropped, nothing is
taken back, and, with fairness, everything promised is settled or dropped. `EventPipeline`
composes the two components around one log and implements it with the mapping
`promised <- R!Committed, settled <- C!Settled, dropped <- lost, Droppable <- RefusedLetters`.

### AccountSync

The row's `status`, `tokens`, `scope` (labels or folders) and `cursor`; items are
numbered in the provider's order and `Matches[scope]` says which a scope includes.
An attempt goes through the three transactions of `sync_once`: read the row
(`StartPage` or `InlineSync`), `Refreshed`, `Fetched`, `Land`; or it is denied
(`RefreshDenied`, whose record is rolled back with its exception; `FetchDenied`
then `RecordDenied`) or fails. `SyncFails` is a failure that Temporal retries. `LookupFails`
is a `LookupError` of a connector, such as the `KeyError` for a field that is missing from
an answer: the activity makes it a non-retryable `NotFound` and the workflow ends
(`gaveUp`), although the account stays `active`. `TimesOut` is an activity that outlasts its ten
minutes: the workflow goes on with a new attempt while the old one still runs.
`wf` is `AccountSyncWorkflow`, `starting` the gap between a request's commit and
its call of `start_account_sync`, which may not reach Temporal (`StartFails`).
`crossed` is history: a scope change met a running attempt.

*Left out:* how a cursor is made of phases and tokens (that is `Connectors`),
settings other than the scope, two settings updates at once, and rate limits as
anything other than a failure that is retried.

### EntityMerge

A transaction is a session whose writes become visible when it commits; each
action is one SQL statement, reading what is committed at that moment. A resolver
transaction looks up the identifier, follows `merged_into` (ten hops at most), else
matches live entities, inserts the identifier and commits the entity, the
mention and, when the match was only similar, a review item. An email in `Sourced` stands
for the domain of a company that sourcing resolves: its transaction also records rows
that name the entity (`observed`). A decision locks its
item, checks both entities, then moves identifiers, mentions and the
review items that name the merged entity, waiting for items that
other decisions hold, and commits. `Rollback` may end any transaction.

*Abstractions:* one mention per resolver transaction; a mention always has
an email; participants, users, edges and a person's company are one set
`mentions`, all of which `merge_entities` moves, a statement for each table; the rows of
migration 0005 (`signal_observations`, `company_scores`, `sourcing_feedback`), which it
does not move, are the set `observed`; but for them companies and domains behave as people
and emails; which entity is similar is left open. A wait for a lock is a guard; PostgreSQL re-evaluates the
statement's condition after a wait, as the guard does at the step.

### Extractions

A handler of `interactions.resolved` reads the interaction (`Read`), asks the model,
and stores the proposals together with the prompt-version mark (`Store`), or gives
up: `BudgetExceeded` is swallowed and other failures are dead-lettered, which
both acknowledge the event. `Delivered` is what the bus may do: hand out an event
again until its offset is committed, and, at the price of a fault, also while a
handler that outlasted the poll interval still has it. `Decide` is
`decide_extraction` where it writes only the status; accepting a deal mention is
`AcceptMention` (lock and check), `FindCompany` (by domain, else by name),
`AddCompany`, `FindDeal` (among open deals that row-level security shows to the
user) and `AcceptCommit`, which also files the interaction under the deal if its row
policy lets the user see it (`readers`): the `UPDATE` of another owner's private interaction
changes no row and says nothing, and the mention is accepted without (`blind`). The list of
proposals hides those of such interactions, but the route that decides one goes by its id.
`CreateDeal`, `UpdateDeal` and `JoinTeam` are the deal
routes. `overlapped` and `raced` are history: interactions two handlers had at
once, and companies whose decisions met another decision or an edit.

*Left out:* `introduced` edges (inserted with `ON CONFLICT DO NOTHING`), audit
rows, quotes and their offsets, merged companies, new prompt versions,
administrators (who see every deal, as a team member does).

### Ingestion

`consumer.handle` and `Pipeline.process_email`, `process_meeting` and
`process_transcript` are one control flow: `Deliver`, then `Skip` (automated mail,
cancelled and purely internal meetings) or `Insert` (`INSERT ... ON CONFLICT DO
NOTHING`, which waits for a transaction inserting the same interaction, and ends the
handler when there is one), `Recompute` (the query of `strength.recompute`), one
`Upsert` per pair of people, `Commit` with `interactions.resolved`, and `Ack`.
`NightReads`, `Upsert` and `NightCommits` are the nightly workflow, which writes the
same edges in a transaction of its own. A score is the set of interactions it was
computed from: `edge[p]`. Upserts take row locks in any order, so sessions may wait
in a circle; PostgreSQL then rolls one of them back (`Victim`). `clash` and
`raced` are history: the pairs that overlapping recomputes both wrote.

*Abstractions:* whom a message names is given (`People`, `Dropped`), resolved
beforehand by what `EntityMerge` models; the model and the object store can only
fail; the arithmetic of a score is left out, its inputs are kept. *Left out:*
reparsing a source, notes, chunks and their embeddings, `warm_paths` (a
read-only query).

### Connectors

A mail folder or calendar is a feed of numbered changes; a history id, sync token,
delta link or page token is a position in it. Each branch of a `sync` method is an
action that computes the page and the cursor after it: `GmailBackfill`,
`CalendarBackfill`, `HistoryExpired`, `CalendarExpired`, `GoogleIncrement`
(`google.py`); `FolderExpired`, `FolderPage`, `OutlookExpired`, `OutlookEvents` with
`NewRound` (`microsoft.py`); `ZoomPage` and `MeetPage`, with the next listing in
`ZoomNext` and `MeetNext`. `Land` is the transaction of `sync_once` that stores the
page with its cursor, `Fails` any failure before it. The world moves on by `Change`,
`Expire` (the provider forgets the tokens it issued: `era` is their generation),
`Transcribed` and `NextDay`. `stretched` is history: a round of listings went on
over the end of a day.

*Abstractions:* that the page tokens of a listing never expire, as the code
expects; a token of an expired era is refused, one of the current era never is.
*Left out:* OAuth exchange and refresh, the listings of labels and folders for the
settings page, and the contents of items but for what the settings exclude.

### GatewayBudget

A request goes `Check` (the sum of the month's `llm_usage` against the limit), the
provider's `Answer`, `ProviderFails` or nothing (`Breaks`), then `Record` and
`Reply`, or `Reject`; steps of other threads fall between any two of them.
`billed`, `metered`, `rows` and `replies` are history that compares the
books with what providers charge and callers get. A model without a price costs
nothing (`Charge`), as in `cost_usd`.

`EmbedsLocally` is the branch of `embeddings` for the route `local`, which is the default:
answered without a check or a usage row (`local` counts such answers).

*Left out:* redaction, tracing and the transcript's contents, and changes of a
tenant's limit.

### Sourcing

`EditReads` and `EditWrites` are the two statements of `PUT /theses/:id`; `Vote`,
`Withdraw`, `Run` and `SetActive` the other routes. `Deliver`, `Train`, `Rescore`,
`Rank`, `Finish` and `Ack` are `consumer.handle` with `train_for_thesis` and
`score_thesis`, and `Collected` ends the collection of news that a run asked for by hand
may begin with (`Collects`); `DailyScores` begins the daily workflow's run. "Newest" is by
`now()`, the start of a transaction: `before` and `late` keep which open
transactions are older than which, so a run that began first and commits last does
not reach the feed. Edits and votes are events of two topics, each with the thesis as key,
so each kind keeps its order and there is none between them; a run asked for by
hand has no key. These are three partitions (`requested`, `feedback`, `unkeyed`),
consumed side by side: the scoring of an edit may run beside the rescoring after a
training. `Resend` is the relay sending the end of a partition a second time. `lost`,
`overtaken`, `withdrawn` and `dormant` are history.

*Abstractions:* events without a key keep their order among themselves, although the
producer spreads them over the partitions of their topic.

*Left out:* what features and facts a score is made of, candidates and the evidence
shown, what a collection writes (`Collection`), and the digest.

### CrmImport

A session is a thread with one READ COMMITTED transaction: `LandSource` (the `sources` row,
`ON CONFLICT DO NOTHING`), `LookUp` and `Write` for the company and then for its deal,
`Commit`, `Answer`. An upload of a file on record is refused (`409`), a workflow's
activity imports the snapshot all the same. A snapshot has one of three forms: the API's
records, a file with an id column, a file without (`api`, `ids`, `plain`), and a file may be
an export older than what the CRM holds now (`Upload(s, form, stage)`). `FetchRecords`, `TimeOut` and `ImportFails` are the
activity's attempts: a thread goes on after its timeout, and an answer may be lost
after the commit. A deal with an id is looked up, through the resolver's `cache`, and
updated when it is found; one of a plain file is a row of its own (`loose`). Ids of
companies and deals are one kind of identifier: where the CRM gives both one number
(`alike`) the deal is taken for the company, when that is the `bearer` of the number, and
is not inserted. `mixed`, `overtaken` and `due` are history.

*Left out:* people (resolved as in `EntityMerge`) and notes (keyed inserts), the
parsing and mapping of columns, files of companies, several companies or deals.

### Collection

A session is one transaction of `collect_tenant`, of `import_registry` or of another
caller of `resolve_company`, and `at[s]` the statement it comes to. `TakeUp` is
`_source_row`; `LookUpHits`, `LookUpMisses`, `Link`, `Create`, `Identify` and `Bear` are
`resolve_company`; `ReadProfile`, `Update` and `Embed` the rest of `upsert_profile`,
`Fill` what the CRM import does instead; `Observe`, `Store` and `Mirror` are enrichment and
`record`. `phase[s]` says what it reads: the vendor's records, the news, then tracked
companies, or a registry or CRM extract. A company's row is kept as last written (`row`,
locked by `lock`) and as committed (`kept`); an identifier, a `sources` row and an
observation each know which open transaction inserts them, for which others wait.
`Commit` makes them visible, `Fails` undoes them, and neither touches the mirror.
`off` marks a row whose embedding the code itself lets be of another text; `sought`,
`raced`, `missed` and `undone` are history.

A description may be `Empty`, the string `''`, which is not "no description" (`Null`): the
statement's `coalesce` keeps it while the program's tests take it for nothing (`Said`), and
vendors and CRMs give it (`Gives`). The imports do not take a record from one another: only
`record` and `_source_row` have a unique key to wait for.

*Abstractions:* which names are similar is any choice of `Link` or `Create`, at the
review threshold or above; a record has one description and one observation; what
sources answer is any record, in any order. An error that `enrich` catches is a rollback
when it is the database's, as the transaction is aborted by it. *Left out:* founders
(resolved as in `EntityMerge`), the other profile columns, which are written like the
description but have no embedding, review items, merged companies, and the upgrade of
a name derived from a domain.

## 3. Runs

All runs must pass. Every bound is a constant with `Max` in its name, or the size of
a set. Deadlock is checked in `connectors`, where an account is synced for ever; the
other instances have finitely many events, items, operations, calls or entities, so
that a behaviour which has used them up rightly stops.

| Run | Instance | Question |
|---|---|---|
| `outbox_single` | 3 events (1 refused by the broker), 1 relay, batch 2, 2 faults (`produce` raises, flush timeout, crash) | is what is published on the log, is causal order kept with one relay, is every committed event published? |
| `event_pipeline` | 2 events, 2 relays, batch 1, 2 members, 1 dead letter refused, 1 fault on each side | do both together keep the abstract promise, with its liveness; do offsets cover only settled events (and lost letters), in order, never going back; does a second copy need a fault? |
| `account_sync` | 2 items, pages of 1, 2 scopes, 2 attempts, 2 operations of any kind, 1 failure or lookup error | does the cursor pass an unstored item, is an item raised twice, does a running workflow, which no lookup error has ended, store every item? |
| `connectors` | each of the 4 providers; mailboxes of up to 4 changes, 2 Outlook folders, 2 calls on 2 days, pages of 1, 2 attempts, 2 expiries or overlaps | does a cursor pass what is not stored, is every change and every timely transcript stored, does each round end? |
| `entity_serial` | 4 emails (1 of a sourced company), 4 entities, 1 session | one transaction at a time: is any reference that merges move left on a merged entity, can every item be decided, is an email one entity? |
| `entity_merge` | 2 emails, 3 entities, 3 sessions | any interleaving: are merges acyclic, final, and as decided? |
| `ingestion` | 3 mails (1 automated) beside an earlier one, 3 people (2 of the fund), 2 handlers and the nightly run, 1 message that leaves the window, 1 fault | is a message processed once, is an acknowledged event processed, do scores cover what they should, does the night repair them? |
| `extractions` | 1 interaction, 2 proposals, 2 companies (1 with a domain), 2 handlers, 2 users (both, one or none may see the interaction), 3 deals, 1 edit, 1 fault | are proposals stored once, do decisions stand, is what is accepted filed, is a second company or deal opened only when decisions race? |
| `gateway_budget` | 3 threads, 2 routes (1 priced), limit 2, answers of up to 2, 4 calls, 1 local embedding, 2 months | by how much can a month be overspent, is each answer of a provider that is returned on the books? |
| `sourcing` | 2 users, 3 voters (1 has voted), 3 partitions, 2 workers and the daily run, 2 labels to learn from, 2 operations of any kind, 1 fault | does an accepted edit get its version, do feed and model settle on the last edit and the votes? |
| `crm_import` | 1 workflow of 2 attempts, 2 threads, 2 uploads (with or without ids, old exports too), 1 change in the CRM after up to two imports, numbers alike or not, 2 faults | are records that can be found again imported once, is a snapshot on record there in full, does the deal follow the CRM? |
| `collection` | 2 transactions, 2 companies, 4 records (vendor, registry, news, CRM), 2 identifiers, 3 texts (1 empty), 1 probe, 2 records per transaction, 1 fault | does an identifier lead to one company, is an embedding of its description, is each insert sent to the mirror once? |

Where an inductive invariant is proved (section 4) no run repeats it; `TypeOK` is a
conjunct of it, or of the module's `Inv`.

*Why the bounds suffice.* Two relays, members, attempts, handlers or sessions are
the smallest number that interleave; the third session of `entity_merge` lets a
review chain A-B-C meet a resolution, the third thread of `gateway_budget` makes
the overspending exceed one answer's worth twice. One fault per side already gives
every crash point, and a second allows a fault during recovery from another. Two
relays and two events, one copied, put a member behind, on and ahead of the committed
offset. Pages of one item put a page
boundary between any two items. In `connectors` the first Zoom listing spans two
windows, a meeting lies beyond the days Outlook is asked for, and a folder has
changes before and after the account is connected. In `ingestion` a new message
and the earlier one share a pair, so that a recompute which sees only one of them
shows, and the earlier one has two pairs, so that sessions may wait for each other in a
circle. In `collection` two records have the same domain, so that a vendor's record and
a CRM's may both create its company, and two texts beside the empty one are enough for a description to change and
change back. In `crm_import` the two faults let both attempts of a workflow fail. In
`ingestion` no two mails are copies of one message: a redelivered mail is in two hands at
once, which is the same race; the proof covers copies. The proofs of section 4 cover all sizes.

*Symmetry* is declared only in runs without liveness, on sets whose members
the specification treats alike (emails and sessions, handlers and users, threads).

*Fairness.* Users, providers and faults owe nothing anywhere; faults are bounded,
so "eventually" means "once faults stop". What is assumed of the code:

- Outbox, consumers and pipeline: `relay.main` and `KafkaBus.consume` are endless
  loops that supervised processes restart, and Kafka accepts what it is sent in the
  end: weak fairness for each step of relay and member. Business transactions must
  end (`CommitTx`) but need not begin. A handler returns or raises.
- `AccountSync`: Temporal drives a workflow and retries its activities without limit
  (`SYNC_RETRY` names no maximum), and a running attempt ends.
- `Connectors`: weak fairness of `Fetch` and strong fairness of `Land`: since a
  failed attempt is always followed by another, one of them lands.
- `Ingestion`: consumers poll, handlers return or raise, and the nightly workflow runs
  (weak fairness of `Deliver`, of each handler's steps and of `NightStep`). A wait in a
  circle is ended by the database (`Victim`).
- `Sourcing`: consumers poll and handlers return or raise. Nothing is assumed of
  the daily workflow, so what is shown does not depend on it.
- `CrmImport`: Temporal starts attempts that are due, and threads go on.

### Exceptions the models make visible

Some properties hold only outside a named case, which a history variable or an
operator marks; inside it the code behaves otherwise, and the case is worth knowing:

- `PublishedIsOnLog` excepts messages the broker refuses (see below).
- `CommittedIsSettled` and `HandledInOrder` except events whose dead letter Kafka refuses
  (`lost`), and the promise of `EventDelivery` those it may drop.
- `NothingSkipped` excepts a scope change that met a running attempt (`crossed`),
  and so does `ItemsGetStored`, which is about an account that stays active with
  valid tokens and a workflow that has not decided to return (`stopping`); the last also
  an attempt's lookup error, which ended the workflow (`gaveUp`).
- `EverythingGetsStored` excepts, in `ChangesGetStored`, Outlook meetings further ahead than the first calendar
  query looked (`OutOfRange`): a delta link keeps the range of days of its query.
  For transcripts (`TranscriptsGetStored`) it asks that a transcript comes within the overlap and that
  no round of listings goes on over the end of a day (`stretched`): `from` moves on
  by the day a round ends, not the day it began.
- `ProposedOnce` excepts interactions that two handlers had at once (`overlapped`): a
  model call may take ten minutes, a Kafka consumer is given up after five, so the
  second handler reads the interaction before the first has marked it, and both
  store proposals.
- `AcceptedHasDeal` excepts, for the filing of the interaction, users who may not see it
  (`blind`).
- `RepliesAreOnTheBooks` is about answers of providers; those embedded locally (`local`)
  are not on the books.
- `OneCompanyPerName` and `NoSecondDeal` except racing decisions (`raced`).
- `ScoresAreComplete` excepts pairs that overlapping recomputes wrote (`raced`): the
  later commit may stand for fewer interactions. `NightRepairs` shows that the
  next undisturbed run puts them right, for pairs still in the window.
- `FeedSettles`, `ModelSettles` and `FeedUsesModel` except dead-lettered events
  (`lost`); a run asked for by hand that came to its turn after a later edit
  (`overtaken`); a vote withdrawn, which raises no event (`withdrawn`); and an
  archived thesis, which is not scored when it comes back (`dormant`).
- `ImportedOnce` excepts two different snapshots imported side by side (`mixed`), and
  counts only what can be found again; `OnRecordIsImported` excepts a deal taken for the
  company with its number (`alike`).
- `StageFollowsCrm` excepts a current stage that an older attempt or file overwrote, or
  that missed the deal (`overtaken`), and workflows whose attempts all failed.
- `OneCompanyPerId` excepts identifiers that two open transactions looked up in vain
  (`raced`): each creates its company or writes the identifier to a similar one; the
  second `INSERT` into `identifiers` does nothing and the transaction goes on.
- `EmbeddingMatches` excepts a description written between the reading and the
  writing of a profile, and a failed call of the model (`off`): the description is
  replaced by then, and the same text, coming again, is not embedded. And it says nothing of
  an empty description (see below).
- `MirroredOncePerInsert` counts failed calls and rows of transactions that rolled back:
  it is about the number of calls, not about the mirror's contents (see below).

An account may read `active` with no workflow behind it, after a lookup error or a refused
refresh; only a reconnect, a resume or "sync now" starts one. An old export
overwrites the stage of a deal that the API imported, and the newer file cannot restore
it if it is on record already (`409`); the next import from the API does.

From the steps of `AccountSync` it is also known that a pause made while a
page is in flight is overwritten when the page lands (`Land` sets the status
unconditionally), that a refused token refresh leaves the account `active` because
its record is rolled back (`RefreshDenied`), and that a resume which meets a
workflow about to return starts none (`StartWorkflow` before `Complete`).

### What the models contradict

Eleven sentences of the code's own comments do not hold in the models; each is
stated as a property of its module, and listed with the behaviour that breaks it in
`PROJECT.json` under `findings`. No run of section 3 checks these.

- `PublishedMeansDelivered` (`OutboxRelay`): a message that Kafka refuses for good
  leaves the producer's queue; `flush` counts only what is queued, so the row is
  stamped published.
- `ScopeChangeRestarts` (`AccountSync`): a page fetched with the old labels lands after
  the change and overwrites the cursor that the change had reset, so older items
  that only the new scope has are never fetched. `NothingSkipped` is the same
  statement with exactly this case excepted, and is proved.
- `OneEntityPerEmail` (`EntityMerge`, with two sessions): two transactions see an email
  for the first time; the second insert does nothing, but its transaction goes on
  with its own new entity. `NothingLeftBehind` and `PendingIsDecidable` fail then
  too: merges move only the rows they see, and a resolver takes no lock on the
  entity it has read (set `Sessions` to two in `entity_serial.cfg`). `entity_serial` shows that the statements are right by themselves.
- `BilledIsMetered` (`GatewayBudget`): answers that the gateway cannot use, and those
  it fails to record, were billed by the provider and cost nothing on the books.
- `ScoresDecay` (`Ingestion`): a pair whose last interaction leaves the window is not
  selected by any later recompute and keeps its last score; `NightRepairs` is the
  statement for the other pairs.
- `FailedIsDeadLettered` (`ConsumerGroup`): an event that a handler failed on and whose
  dead letter Kafka refuses is neither applied nor on the dead-letter topic.
- `ObservationsFollowMerges` (`EntityMerge`, one session is enough): what sourcing
  observed of a company stays with it when it is merged, and merged companies are not
  ranked.
- `EveryAnswerIsRecorded` (`GatewayBudget`): a local embedding is answered without a check
  or a usage row.
- `EveryDealIsThere` (`CrmImport`): a deal with the number of a company is counted as
  imported and is not there.
- `EmbeddedAsDescribed` (`Collection`): beside an empty description the text of another
  source is embedded and not stored; a vendor's empty description replaces one whose
  embedding stays. `EmbeddingMatches` is the statement for the other descriptions.
- `MirrorIsTheSame` (`Collection`): a failed call of ClickHouse is never repeated, and rows
  of a transaction that rolls back stay there; `MirroredOncePerInsert` is what is left.

## 4. Proofs

Each specification has an inductive invariant `IInv` (initial states satisfy it, every
action keeps it), checked with TLC first, and the theorems below follow from it, for
every value of the constants under the `ASSUME`s of the specification. Every invariant
a run checks is a theorem; those marked with a star need a hypothesis of their own,
named below the table.

| Module | Theorems | The inductive invariant, and why it is needed |
|---|---|---|
| `OutboxRelayProofs` | `InductiveInvariant`, `NothingLost`, `NoPhantoms`, `DeliveredUnlessRefused`, `CopiesPaidFor`, `OneRelayKeepsOrder`* | that a published row is on the topic says nothing of a relay between publish and commit: `LocksSound` (whose rows are whose), `HandedOverIsKept` (what was handed over is buffered or on the topic), `OnlyCommittedBuffered`. Copies are counted by stamps (`StampedBy`): each message, in a producer or on the topic, has the number of faults there had been when it was handed over; an event is handed over again only after a fault, so its copies have different stamps. With one relay, whatever a row may depend on has a smaller id, and is on the topic or ahead of it in batch and buffer |
| `EventPipelineProofs` | `PipelineInvariant`, `AtLeastOnce`, `DeadLetteredUnlessRefused`, `InOrder`, `NeverRewound`, `CopiesPaidFor`, `PipelineImplementsDelivery` | of the group: a late commit is harmless only because the owner works right behind the committed offset and nobody is ahead of it (`PositionsSound`), and who commits has settled its event, or lost its letter (`HandledIsSettled`); of the whole: both components' invariants, and that consumers settle only what is on the log, which only holds committed events; each step maps to one of `EventDelivery` or a stutter |
| `EntityMergeProofs` | `InductiveInvariant`, `MergesAcyclic`, `MergedByDecision`, `IdentityIsStable`, `SerialMergesAreComplete`*, `SerialQueueIsDecidable`*, `SerialOneEntityPerEmail`* | candidates are older than their provisional entity (`ReviewsSound`), locked items stay pending and what a merge has collected stays where it was (`SessionSound`), and no two transactions hold an item or a new identifier (`Exclusive`). One transaction at a time adds, statement by statement, what the open one has not moved yet (`SerialSound`) |
| `ExtractionsProofs` | `FeedInvariant`, `ExtractionIsIdempotent`, `InductiveInvariant`, `AcceptedInPipeline`, `OneCompany`, `DecisionsAreFinal`, `NoDealTwice` | an interaction that a handler asks the model about, alone, is unmarked (`FeedSound`); a proposal has one decision in progress, and what a decision has looked up is still so when it writes, unless another decision or an edit of the name met it |
| `IngestionProofs`: `AccountSync` | `SyncInvariant`, `SyncTypeCorrect`, `CursorNeverSkips`, `RaisedOnce` | what a running attempt read stays true until it lands: everything of its scope up to the cursor it read is stored (`AttemptsSound`) |
| `IngestionProofs`: `Ingestion` | `InductiveInvariant`, `ProcessedOnce`, `NothingDropped`, `ScoresStandForTheWindow` | a handler that has inserted is alone with its message, which is not stored yet, and one that is done has its message stored, dropped or dead-lettered (`HandlersSound`); of two recomputes that write a pair each knows of the other, and whoever stores an interaction meanwhile is one of them (`RecomputesSound`) |
| `IntakeProofs`: `Connectors` | `ConnectorsInvariant`, `CursorsPassOnlyStored` | a page holds what its cursor passes beyond what is stored (`PagesSound`), even one fetched before others landed, because what is stored stays; a token never points past the mailbox (`Known`), so that later changes are not passed before they exist |
| `IntakeProofs`: `CrmImport` | `ImportInvariant`, `OnRecordIsComplete`, `EachRecordOnce` | an open transaction has gone through the records up to its position (`RecordsGoneThrough`), who bears a deal's number is there (`NumberBorne`, and `CacheSound` of what a resolver remembers), a snapshot not on record is in one open transaction at most (`LandedOnce`), and what a transaction found missing is missing until it writes, unless two snapshots are imported side by side (`NewRecords`) |
| `ModelUseProofs`: `GatewayBudget` | `GatewayInvariant`, `BudgetHolds`, `AnswersAreBooked` | what is booked, together with what may still be booked, fits under the ceiling (`ChargesFit`): one answer of each thread that is past the check. `AnswersAreBooked` (of providers' answers, local ones set apart) needs only that the threads are finitely many |
| `ModelUseProofs`: `Sourcing` | `SourcingInvariant`, `EditsKept` | requests on the bus and jobs of sessions, however old, are of versions that exist (`RequestsExist`, `JobsSound`), so the feed's is; an event in work is on its partition, so no offset is committed ahead of it; and of two open transactions one is the older (`AgesOrdered`) |
| `CollectionProofs` | `CollectionInvariant`, `IdsLeadToOneCompany`, `EmbeddingsFollowDescriptions`, `MirrorIsPerInsert` | what is committed is right because of what open transactions have at hand: a row bears an identifier only when it is on record, by the transaction that writes the row or committed before (`BearsSound`), so that who has looked it up in vain can meet it only in a row of somebody who looked it up too (`SoughtSound`); a row whose description is not empty and does not match its embedding is about to be embedded by its writer, who has not read another description (`RowsSound`); each insert was followed by a mirror call, but for the one at hand (`MirrorSound`) |

*Hypotheses.* `OneRelayKeepsOrder` is about one relay and the `Serial...` theorems about
one session: their statements are false of more: of several relays because ids are selected side by
side, of several sessions by the races described in section 3; no run repeats that. All others follow from the specifications' `ASSUME`s, which the runs evaluate:
`Connectors` assumes that a mailbox is within its bound and that the backfill does not
begin before the first day; `Ingestion`, that no pair is the value for "no pair".

*Action properties.* `OffsetNeverBack`, `IdentityOnlyMerges`, `DecisionsStand`,
`NoSecondDeal` and the refinement `ImplementsDelivery` are proved step by step from the
invariants.

*Model-checked only.* All liveness, and so `ImplementsFairDelivery`: it needs
`ENABLED`, which the prover does not handle. So these stay with TLC:
`CommittedGetsPublished`, `ItemsGetStored`, `EverythingGetsStored`, `RoundsEnd`, `NightRepairs`, `FeedSettles`, `ModelSettles`,
`FeedUsesModel` and `StageFollowsCrm`. Of `FollowMerges`, which goes up a chain
of merges, the proofs need only that a live entity is its own end (`FollowMergesLive`).

## 5. Not modelled

- The digest (`services/sourcing`): it sends mail and keeps no record of it, so that a
  retried activity sends it again: there is no state a property could be about.
- The Slack notifier likewise: it reads a deal and posts; its interactive routes
  answer with what queries return.
- Tenant purge and audit: one SQL function that deletes a tenant's rows in one
  transaction, and a table that is only inserted into.
- Encryption, keys and object storage: calls to libraries and stores; a tenant's key is
  written once and objects get names that nobody uses again.
- Read routes of the API, graph queries and `warm_paths`: pure queries.
- Parsing of mail, calendars, transcripts and CSV files, prompts, redaction and the
  arithmetic of ranking: functions of their input without state. What they decide
  (`Dropped`, `People`, `Skipped`, a score's inputs) is given to the models.
- Users' settings other than the sync scope; two users saving them at once: the
  route writes back what it read, so the later request wins.
- User interfaces, seed data and deployment files.
