---------------------------- MODULE AccountSync ----------------------------
(***************************************************************************)
(* One connector account: its connector_accounts row, the sync attempts    *)
(* (ingest accounts.sync_once), the long-lived Temporal workflow that      *)
(* starts them (AccountSyncWorkflow) and the user's requests (ingest app). *)
(*                                                                         *)
(* sync_once runs in separate transactions around its network calls: one   *)
(* reads the row (and may refresh the tokens while it is open), one lands  *)
(* the fetched page and writes the row back.  Attempts can overlap: the    *)
(* workflow retries an activity that outlasted its timeout while the old   *)
(* attempt still runs in the worker's thread pool, and a user can ask for  *)
(* an inline sync at any time.  Users change the row in between.           *)
(*                                                                         *)
(* The provider's data are items numbered in the order a connector's       *)
(* cursor visits them; a cursor is the number of the last item passed, 0   *)
(* for the empty cursor that starts the backfill.  The settings are the    *)
(* scope (labels, folders), which selects the items a sync may fetch.      *)
(***************************************************************************)
EXTENDS Integers, FiniteSets

CONSTANTS
  MaxItems,     \* bound on the provider's items
  PageSize,     \* items a page advances the cursor by
  Scopes,       \* values of the labels/folders settings
  Matches,      \* Matches[s]: items scope s selects
  Attempts,     \* slots for running sync attempts
  NoAttempt,    \* the workflow awaits no attempt
  Ops,          \* kinds of user and provider operations enabled
  MaxOps,       \* bound on those operations
  MaxSyncFaults \* bound on failed and timed-out attempts and failed starts

AllOps == {"connect", "pause", "resume", "scope", "disconnect", "kick", "inline", "withdraw"}

ASSUME ItemsAssumption      == MaxItems \in Nat /\ PageSize \in Nat \ {0}
ASSUME ScopesAssumption     == Matches \in [Scopes -> SUBSET (1 .. MaxItems)]
ASSUME AttemptAssumption    == NoAttempt \notin Attempts
ASSUME SyncBoundsAssumption == MaxOps \in Nat /\ MaxSyncFaults \in Nat /\ Ops \subseteq AllOps

VARIABLES
  \* the connector_accounts row
  status,     \* "active", "paused", "error", "revoked"
  tokens,     \* grant the stored tokens belong to, 0 for NULL
  scope,      \* settings
  cursor,     \* sync_cursor
  \* what land writes
  landed,     \* items with a sources row
  raised,     \* raised[n]: interactions.raw events enqueued for item n
  \* the provider
  top,        \* items that exist so far
  grants,     \* grants issued so far
  valid,      \* grants the provider still honours
  \* attempts
  at,         \* at[a]: "idle", "refreshing", "fetching", "landing", "denied"
  job,        \* job[a]: what attempt a read and fetched
  \* the workflow and its starter
  wf,         \* "none", "checking", "syncing", "sleeping", "stopping"
  current,    \* attempt the workflow awaits
  starting,   \* a request committed and will call start_account_sync
  \* history and bounds
  crossed,    \* a scope change met a running attempt
  gaveUp,     \* the last workflow ended on an attempt's LookupError
  ops, syncFaults

rowVars     == <<status, tokens, scope, cursor>>
landVars    == <<landed, raised>>
sourceVars  == <<top, grants, valid>>
attemptVars == <<at, job>>
flowVars    == <<wf, current, starting>>
histVars    == <<crossed, gaveUp, ops, syncFaults>>
syncVars == <<status, tokens, scope, cursor, landed, raised, top, grants, valid,
          at, job, wf, current, starting, crossed, gaveUp, ops, syncFaults>>

Positions == 0 .. MaxItems

\* read: cursor, scope and grant of the row as read; next, done: the page.
Jobs == [cursor : Positions, scope : Scopes, grant : Nat, next : Positions, done : BOOLEAN]

\* Items of the page an attempt fetched: those of its scope the page passes.
PageItems(j) == {n \in Matches[j.scope] : j.cursor < n /\ n <= j.next}

\* The account right after the first connect_callback.
SyncInit ==
  /\ status = "active" /\ tokens = 1 /\ cursor = 0
  /\ scope \in Scopes
  /\ landed = {}
  /\ raised = [n \in 1 .. MaxItems |-> 0]
  /\ top \in Positions
  /\ grants = 1 /\ valid = {1}
  /\ at = [a \in Attempts |-> "idle"]
  /\ job = [a \in Attempts |->
              [cursor |-> 0, scope |-> scope, grant |-> 0, next |-> 0, done |-> FALSE]]
  /\ wf = "none" /\ current = NoAttempt /\ starting = TRUE
  /\ crossed = FALSE /\ gaveUp = FALSE
  /\ ops = 0 /\ syncFaults = 0

-----------------------------------------------------------------------------
(* One sync attempt (sync_once). *)

\* [variant: a retryable failure ends the workflow]
AfterSync_GivesUp ==
  [done |-> "sleeping", more |-> "syncing", retry |-> "stopping",
   auth |-> "stopping", lookup |-> "stopping"]

\* What the workflow does with the result of the attempt it awaits: an AuthError
\* and a LookupError (NotFound to Temporal) are not retried and end it.
AfterSync ==
  [done |-> "sleeping", more |-> "syncing", retry |-> "syncing",
   auth |-> "stopping", lookup |-> "stopping"]

\* Attempt a is over; only the workflow's current attempt is listened to.
Ends(a, result) ==
  /\ at' = [at EXCEPT ![a] = "idle"]
  /\ IF a = current
       THEN current' = NoAttempt /\ wf' = AfterSync[result]
       ELSE UNCHANGED <<current, wf>>
  /\ UNCHANGED starting

\* The first transaction reads the row.  A paused or revoked account has
\* nothing to do; one without tokens raises AuthError; expired tokens are
\* refreshed before the transaction ends.
Begins(a) ==
  /\ at[a] = "idle"
  /\ status \notin {"paused", "revoked"}
  /\ tokens # 0
  /\ job' = [job EXCEPT ![a] =
       [cursor |-> cursor, scope |-> scope, grant |-> tokens, next |-> cursor, done |-> FALSE]]
  /\ \E next \in {"refreshing", "fetching"} : at' = [at EXCEPT ![a] = next]

\* The workflow schedules sync_page (activities.sync_page calls sync_once).
StartPage(a) ==
  /\ wf = "syncing" /\ current = NoAttempt
  /\ Begins(a)
  /\ current' = a
  /\ UNCHANGED <<rowVars, landVars, sourceVars, wf, starting, histVars>>

\* The same call when the row stops it: "nothing more" for a paused or revoked
\* account, AuthError without stored tokens.  That branch's UPDATE to 'error'
\* is rolled back by the exception it precedes.
StartPageEmpty ==
  /\ wf = "syncing" /\ current = NoAttempt
  /\ \/ status \in {"paused", "revoked"} /\ wf' = "sleeping"
     \/ status \notin {"paused", "revoked"} /\ tokens = 0 /\ wf' = "stopping"
  /\ UNCHANGED <<rowVars, landVars, sourceVars, attemptVars, current, starting, histVars>>

\* POST /connectors/{id}/sync?inline=true runs sync_once in the request.
InlineSync(a) ==
  /\ "inline" \in Ops /\ ops < MaxOps
  /\ Begins(a)
  /\ ops' = ops + 1
  /\ UNCHANGED <<rowVars, landVars, sourceVars, flowVars, crossed, gaveUp, syncFaults>>

\* The provider refreshes the expired tokens: they are stored in the row,
\* whatever has happened to it since it was read.
Refreshed(a) ==
  /\ at[a] = "refreshing" /\ job[a].grant \in valid
  /\ tokens' = job[a].grant
  /\ at' = [at EXCEPT ![a] = "fetching"]
  /\ UNCHANGED <<status, scope, cursor, landVars, sourceVars, job, flowVars, histVars>>

\* The refresh is denied: status = 'error' is written and then rolled back,
\* because the AuthError is re-raised inside the transaction.
RefreshDenied(a) ==
  /\ at[a] = "refreshing" /\ job[a].grant \notin valid
  /\ Ends(a, "auth")
  /\ UNCHANGED <<rowVars, landVars, sourceVars, job, histVars>>

\* [variant: the cursor is saved with the fetch, before the items are stored]
Fetched_SavesCursor(a) ==
  /\ at[a] = "fetching" /\ job[a].grant \in valid
  /\ LET next == IF job[a].cursor + PageSize <= top THEN job[a].cursor + PageSize ELSE top
     IN  /\ job' = [job EXCEPT ![a].next = next, ![a].done = (next = top)]
         /\ cursor' = next
  /\ at' = [at EXCEPT ![a] = "landing"]
  /\ UNCHANGED <<status, tokens, scope, landVars, sourceVars, flowVars, histVars>>

\* connector.sync returns a page of the scope and cursor the attempt read.
Fetched(a) ==
  /\ at[a] = "fetching" /\ job[a].grant \in valid
  /\ LET next == IF job[a].cursor + PageSize <= top THEN job[a].cursor + PageSize ELSE top
     IN  job' = [job EXCEPT ![a].next = next, ![a].done = (next = top)]
  /\ at' = [at EXCEPT ![a] = "landing"]
  /\ UNCHANGED <<rowVars, landVars, sourceVars, flowVars, histVars>>

FetchDenied(a) ==
  /\ at[a] = "fetching" /\ job[a].grant \notin valid
  /\ at' = [at EXCEPT ![a] = "denied"]
  /\ UNCHANGED <<rowVars, landVars, sourceVars, job, flowVars, histVars>>

\* After an AuthError from connector.sync a transaction of its own records it.
RecordDenied(a) ==
  /\ at[a] = "denied"
  /\ status' = "error"
  /\ Ends(a, "auth")
  /\ UNCHANGED <<tokens, scope, cursor, landVars, sourceVars, job, histVars>>

\* [variant: an item already seen raises its event again]
Land_RaisesDuplicates(a) ==
  /\ at[a] = "landing"
  /\ landed' = landed \cup PageItems(job[a])
  /\ raised' = [n \in 1 .. MaxItems |->
                  IF n \in PageItems(job[a]) THEN raised[n] + 1 ELSE raised[n]]
  /\ cursor' = job[a].next
  /\ status' = "active"
  /\ Ends(a, IF job[a].done THEN "done" ELSE "more")
  /\ UNCHANGED <<tokens, scope, sourceVars, job, histVars>>

\* raw.land: an item gets its sources row and raises its event only the first time.
Unseen(a) == PageItems(job[a]) \ landed

\* The last transaction: items not seen before get a sources row and one raw
\* event each (raw.land); then the row takes the page's cursor and is active.
Land(a) ==
  /\ at[a] = "landing"
  /\ landed' = landed \cup PageItems(job[a])
  /\ raised' = [n \in 1 .. MaxItems |->
                  IF n \in Unseen(a) THEN raised[n] + 1 ELSE raised[n]]
  /\ cursor' = job[a].next
  /\ status' = "active"
  /\ Ends(a, IF job[a].done THEN "done" ELSE "more")
  /\ UNCHANGED <<tokens, scope, sourceVars, job, histVars>>

\* The provider's answer lacks a field the connector reads: its KeyError is a
\* LookupError like that of a missing account, and the workflow, if it awaits
\* this attempt, ends for good while the account stays as it is.
LookupFails(a) ==
  /\ at[a] \in {"refreshing", "fetching"} /\ syncFaults < MaxSyncFaults
  /\ syncFaults' = syncFaults + 1
  /\ gaveUp' = (gaveUp \/ a = current)
  /\ Ends(a, "lookup")
  /\ UNCHANGED <<rowVars, landVars, sourceVars, job, crossed, ops>>

\* Any other exception (RateLimited, network, a lost connection, the worker's
\* crash): the open transaction rolls back, and the workflow retries.
SyncFails(a) ==
  /\ at[a] # "idle" /\ syncFaults < MaxSyncFaults
  /\ syncFaults' = syncFaults + 1
  /\ Ends(a, "retry")
  /\ UNCHANGED <<rowVars, landVars, sourceVars, job, crossed, gaveUp, ops>>

\* The activity outlasts start_to_close_timeout: the workflow will retry, and
\* the attempt it no longer awaits runs on.
TimesOut ==
  /\ current # NoAttempt /\ syncFaults < MaxSyncFaults
  /\ syncFaults' = syncFaults + 1
  /\ current' = NoAttempt
  /\ UNCHANGED <<rowVars, landVars, sourceVars, attemptVars, wf, starting, crossed, gaveUp, ops>>

-----------------------------------------------------------------------------
(* The workflow. *)

\* start_account_sync after a request's commit: start the workflow, or attach
\* to the one that is running.
StartWorkflow ==
  /\ starting
  /\ starting' = FALSE
  /\ wf' = IF wf = "none" THEN "checking" ELSE wf
  /\ gaveUp' = (gaveUp /\ wf # "none")
  /\ UNCHANGED <<rowVars, landVars, sourceVars, attemptVars, current, crossed, ops, syncFaults>>

\* Temporal is unreachable: the request still succeeds, and nothing is started.
StartFails ==
  /\ starting /\ syncFaults < MaxSyncFaults
  /\ starting' = FALSE
  /\ syncFaults' = syncFaults + 1
  /\ UNCHANGED <<rowVars, landVars, sourceVars, attemptVars, wf, current, crossed, gaveUp, ops>>

\* The account_status activity reads the row; the workflow acts on it later.
CheckStatus ==
  /\ wf = "checking"
  /\ wf' = IF status \in {"revoked", "paused"} THEN "stopping" ELSE "syncing"
  /\ UNCHANGED <<rowVars, landVars, sourceVars, attemptVars, current, starting, histVars>>

\* The workflow returns; nothing runs for the account until someone starts it.
Complete ==
  /\ wf = "stopping"
  /\ wf' = "none"
  /\ UNCHANGED <<rowVars, landVars, sourceVars, attemptVars, current, starting, histVars>>

\* The timer between rounds fires.
Wake ==
  /\ wf = "sleeping"
  /\ wf' = "checking"
  /\ UNCHANGED <<rowVars, landVars, sourceVars, attemptVars, current, starting, histVars>>

-----------------------------------------------------------------------------
(* Users and the provider. *)

Op(kind) == kind \in Ops /\ ops < MaxOps /\ ops' = ops + 1

\* connect_callback: save_account upserts the row with new tokens, then the
\* request calls start_account_sync.
Connect ==
  /\ Op("connect")
  /\ grants' = grants + 1
  /\ valid'  = valid \cup {grants + 1}
  /\ tokens' = grants + 1
  /\ status' = "active"
  /\ starting' = TRUE
  /\ UNCHANGED <<scope, cursor, landVars, top, attemptVars, wf, current, crossed, gaveUp, syncFaults>>

\* PATCH with status paused or active; the latter starts the workflow.
Pause ==
  /\ Op("pause")
  /\ status' = "paused"
  /\ UNCHANGED <<tokens, scope, cursor, landVars, sourceVars, attemptVars, flowVars, crossed,
                 gaveUp, syncFaults>>

Resume ==
  /\ Op("resume")
  /\ status' = "active"
  /\ starting' = TRUE
  /\ UNCHANGED <<tokens, scope, cursor, landVars, sourceVars, attemptVars, wf, current, crossed,
                 gaveUp, syncFaults>>

\* [variant: the cursor keeps its place when the scope changes]
ChangeScope_KeepsCursor(s) ==
  /\ Op("scope")
  /\ scope' = s
  /\ crossed' = (crossed \/ \E a \in Attempts : at[a] # "idle")
  /\ UNCHANGED <<status, tokens, cursor, landVars, sourceVars, attemptVars, flowVars, gaveUp,
                 syncFaults>>

\* PATCH with labels or folders: the cursor is reset with the new scope.
ChangeScope(s) ==
  /\ Op("scope")
  /\ scope' = s
  /\ cursor' = 0
  /\ crossed' = (crossed \/ \E a \in Attempts : at[a] # "idle")
  /\ UNCHANGED <<status, tokens, landVars, sourceVars, attemptVars, flowVars, gaveUp,
                 syncFaults>>

\* DELETE: status revoked, tokens removed.
Disconnect ==
  /\ Op("disconnect")
  /\ status' = "revoked"
  /\ tokens' = 0
  /\ UNCHANGED <<scope, cursor, landVars, sourceVars, attemptVars, flowVars, crossed, gaveUp, syncFaults>>

\* POST /connectors/{id}/sync: start the workflow, whatever the row says.
SyncNow ==
  /\ Op("kick")
  /\ starting' = TRUE
  /\ UNCHANGED <<rowVars, landVars, sourceVars, attemptVars, wf, current, crossed, gaveUp, syncFaults>>

\* The user (or an administrator) withdraws every grant at the provider.
Withdraw ==
  /\ Op("withdraw")
  /\ valid' = {}
  /\ UNCHANGED <<rowVars, landVars, top, grants, attemptVars, flowVars, crossed, gaveUp, syncFaults>>

\* A new message, meeting or recording appears.
NewItem ==
  /\ top < MaxItems
  /\ top' = top + 1
  /\ UNCHANGED <<rowVars, landVars, grants, valid, attemptVars, flowVars, histVars>>

-----------------------------------------------------------------------------
AttemptStep(a) ==
  \/ Refreshed(a) \/ RefreshDenied(a) \/ Fetched(a) \/ FetchDenied(a)
  \/ RecordDenied(a) \/ Land(a)

AttemptNext(a) ==
  StartPage(a) \/ AttemptStep(a) \/ InlineSync(a) \/ LookupFails(a) \/ SyncFails(a)

FlowNext == StartPageEmpty \/ CheckStatus \/ Complete \/ Wake

EnvNext ==
  \/ StartWorkflow \/ StartFails
  \/ Connect \/ Pause \/ Resume \/ Disconnect \/ SyncNow \/ Withdraw
  \/ NewItem \/ TimesOut
  \/ \E s \in Scopes : ChangeScope(s)

SyncNext == (\E a \in Attempts : AttemptNext(a)) \/ FlowNext \/ EnvNext

SyncSpec == SyncInit /\ [][SyncNext]_syncVars

\* Temporal drives the workflow and retries its activities without limit, a
\* running attempt ends, and a request that committed goes on to start the
\* workflow.  Users and the provider owe nothing.
SyncFairSpec ==
  /\ SyncSpec
  /\ WF_syncVars(StartWorkflow)
  /\ WF_syncVars(FlowNext)
  /\ WF_syncVars(\E a \in Attempts : StartPage(a))
  /\ \A a \in Attempts : WF_syncVars(AttemptStep(a))

-----------------------------------------------------------------------------
(* Properties. *)

SyncTypeOK ==
  /\ status \in {"active", "paused", "error", "revoked"}
  /\ grants \in Nat \ {0}
  /\ tokens \in 0 .. grants
  /\ scope  \in Scopes
  /\ cursor \in Positions
  /\ landed \subseteq 1 .. MaxItems
  /\ raised \in [1 .. MaxItems -> Nat]
  /\ top    \in Positions
  /\ valid  \subseteq 1 .. grants
  /\ at     \in [Attempts -> {"idle", "refreshing", "fetching", "landing", "denied"}]
  /\ job    \in [Attempts -> Jobs]
  /\ wf     \in {"none", "checking", "syncing", "sleeping", "stopping"}
  /\ current \in Attempts \cup {NoAttempt}
  /\ starting \in BOOLEAN
  /\ crossed \in BOOLEAN /\ gaveUp \in BOOLEAN
  /\ ops \in Nat /\ syncFaults \in Nat

\* "The cursor only advances after the page's items are stored": every item of
\* the scope that the cursor has passed is stored.
PassedAreStored == {n \in Matches[scope] : n <= cursor} \subseteq landed

\* sync_once's promise, with overlapping, failing, timed-out and inline
\* attempts, pauses and reconnects: as long as no scope change met a running
\* attempt, nothing the cursor has passed is missing.
NothingSkipped == ~ crossed => PassedAreStored

\* "Changing what is synced restarts the backfill with the new scope", with no
\* such exception.
ScopeChangeRestarts == PassedAreStored

\* Every stored item raised exactly one interactions.raw event, however often
\* overlapping attempts and re-scanned pages land it; and no other item did.
OneEventPerItem ==
  \A n \in 1 .. MaxItems : raised[n] = IF n \in landed THEN 1 ELSE 0

\* While a workflow runs for the account, every item of the scope is eventually
\* stored, through failed, timed-out and overlapping attempts, inline syncs and
\* reconnects; unless the account is paused, disconnected or in error, a grant has
\* been withdrawn, the scope changed and leaves the item out or met a running
\* attempt, or the workflow gave up on an answer the connector could not read,
\* which leaves an active account that nothing syncs until somebody restarts it.
\* A workflow that has decided to return ("stopping") owes nothing.
ItemsGetStored ==
  \A n \in 1 .. MaxItems :
    (wf \notin {"none", "stopping"} /\ top >= n /\ n \in Matches[scope]) ~>
      (\/ n \in landed
       \/ status # "active" \/ tokens = 0 \/ valid # 1 .. grants
       \/ n \notin Matches[scope] \/ crossed \/ gaveUp)

-----------------------------------------------------------------------------
(* The strengthening that makes the safety invariants inductive. *)

\* What a running attempt believes: before its page lands, everything its own
\* scope has up to the cursor it read is stored, and with no scope change
\* crossing it, its scope is the account's.
AttemptsSound ==
  \A a \in Attempts : at[a] \in {"refreshing", "fetching", "landing"} =>
    /\ job[a].cursor <= top /\ job[a].next <= top
    /\ ~ crossed => /\ job[a].scope = scope
                    /\ {n \in Matches[scope] : n <= job[a].cursor} \subseteq landed

SyncIInv ==
  /\ SyncTypeOK
  /\ cursor <= top
  /\ AttemptsSound
  /\ NothingSkipped
  /\ OneEventPerItem
=============================================================================
