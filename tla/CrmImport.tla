----------------------------- MODULE CrmImport -----------------------------
(***************************************************************************)
(* CRM records are imported from an uploaded file (ingest app.import_csv)  *)
(* or from the CRM's API by a workflow whose activity is tried a few times *)
(* (app.import_api, CrmApiImportWorkflow, activities.crm_api_import).      *)
(* Either way one READ COMMITTED transaction lands the snapshot as a       *)
(* source and writes its records one after the other (raw.land,            *)
(* importer.import_records).                                               *)
(*                                                                         *)
(* The CRM holds a company and its deal; of its contents only the deal's   *)
(* stage changes, and a snapshot is known by that stage and its form.  The *)
(* API's records have crm ids; so have the deals of a file with an id      *)
(* column, and those of a file without one cannot be found again.  A crm   *)
(* id is "hubspot:<number>" whatever it numbers, so a CRM that numbers its *)
(* companies and its deals apart may give both the same one.  A company is *)
(* found by its domain, too.                                               *)
(***************************************************************************)
EXTENDS Integers, Sequences, FiniteSets

CONSTANTS
  Flows,           \* import workflows that may be requested
  Sessions,        \* threads that run an attempt or an upload
  None,
  MaxAttempts,     \* maximum_attempts of the activity
  MaxEdits,        \* bound on changes in the CRM
  MaxUploads,      \* bound on uploads
  MaxImportFaults  \* bound on failures, timeouts, crashes and lost answers

ASSUME NamesAssumption  == None \notin Flows \cup Sessions \cup {"company", "deal"}
ASSUME ImportBoundsAssumption ==
  /\ MaxAttempts \in Nat \ {0}
  /\ MaxEdits \in Nat /\ MaxUploads \in Nat /\ MaxImportFaults \in Nat

Stages  == {"screening", "diligence"}
Forms   == {"api", "ids", "plain"}   \* the API's records, files with and without ids
Records == <<"company", "deal">>
Kinds   == {"company", "deal"}

VARIABLES
  crm,        \* the deal's stage in the CRM
  alike,      \* the CRM has given the company and the deal the same number
  \* committed rows
  sources,    \* snapshots on record: <<form, stage>>
  rows,       \* rows[k]: rows of the company, of the deal imported with its crm id
  loose,      \* deals imported without one
  bearer,     \* what the deal's crm id identifies: None, "company" or "deal"
  shown,      \* stage of the deal that bears the crm id, None before it exists
  \* workflows
  flow,       \* flow[f]: "new", "waiting", "running", "done", "failed"
  tries,      \* tries[f]: attempts begun
  runs,       \* runs[f]: session of the attempt the workflow waits for
  \* sessions
  at,         \* at[s]: "idle", "fetched", "looking", "writing", "done"
  job,        \* job[s]: the workflow or None for an upload, and the snapshot
  rec,        \* rec[s]: index of the record in work
  found,      \* found[s]: what the look-up has taken that record for
  cache,      \* cache[s]: what its resolver takes the deal's crm id for
  inserted,   \* inserted[s]: what its open transaction has inserted
  updated,    \* updated[s]: what it has updated, whose rows it holds
  \* history and bounds
  mixed,      \* different snapshots have been imported side by side
  overtaken,  \* the current stage was overwritten by an older one, or has missed the deal
  due,        \* the imports requested since the CRM changed
  edits, uploads, importFaults

rowVars     == <<sources, rows, loose, bearer, shown>>
flowVars    == <<flow, tries, runs>>
sessionVars == <<at, job, rec, found, cache, inserted, updated>>
boundVars   == <<edits, uploads, importFaults>>
importVars ==
  <<crm, alike, sources, rows, loose, bearer, shown, flow, tries, runs, at, job, rec, found,
    cache, inserted, updated, mixed, overtaken, due, edits, uploads, importFaults>>

NoJob == [flow |-> None, source |-> <<"plain", "screening">>]

\* Nothing is imported yet, or the API's snapshots have been, one or with a former
\* stage two: of a company and a deal with one number the company came first.
ImportInit ==
  /\ crm = "screening"
  /\ alike \in BOOLEAN
  /\ \/ /\ sources = {} /\ rows = [k \in Kinds |-> 0]
        /\ bearer = None /\ shown = None
     \/ /\ sources \in {{<<"api", crm>>}, {<<"api", stage>> : stage \in Stages}}
        /\ rows = [k \in Kinds |-> IF alike /\ k = "deal" THEN 0 ELSE 1]
        /\ bearer = IF alike THEN "company" ELSE "deal"
        /\ shown = IF alike THEN None ELSE crm
  /\ loose = 0
  /\ flow  = [f \in Flows |-> "new"]
  /\ tries = [f \in Flows |-> 0]
  /\ runs  = [f \in Flows |-> None]
  /\ at    = [s \in Sessions |-> "idle"]
  /\ job   = [s \in Sessions |-> NoJob]
  /\ rec  = [s \in Sessions |-> 1]
  /\ found = [s \in Sessions |-> None]
  /\ cache = [s \in Sessions |-> None]
  /\ inserted = [s \in Sessions |-> {}]
  /\ updated  = [s \in Sessions |-> {}]
  /\ mixed = FALSE /\ overtaken = FALSE /\ due = {}
  /\ edits = 0 /\ uploads = 0 /\ importFaults = 0

ImportFault == importFaults < MaxImportFaults /\ importFaults' = importFaults + 1

Open(s)  == at[s] \in {"looking", "writing"}
Api(s)   == job[s].flow # None
Keyed(s) == job[s].source[1] # "plain"
Stage(s) == job[s].source[2]
Kind(s)  == Records[rec[s]]

-----------------------------------------------------------------------------
(* The CRM, users and the workflow engine. *)

CrmEdit(stage) ==
  /\ stage # crm /\ edits < MaxEdits
  /\ crm' = stage /\ due' = {}
  /\ edits' = edits + 1
  /\ UNCHANGED <<alike, rowVars, flowVars, sessionVars, mixed, overtaken, uploads, importFaults>>

\* POST /imports/api starts a workflow with an id of its own.
Request(f) ==
  /\ flow[f] = "new"
  /\ flow' = [flow EXCEPT ![f] = "waiting"]
  /\ due' = due \cup {f}
  /\ UNCHANGED <<crm, alike, rowVars, tries, runs, sessionVars, mixed, overtaken, boundVars>>

\* An attempt pages through the CRM's API.
FetchRecords(s, f) ==
  /\ at[s] = "idle" /\ flow[f] = "waiting"
  /\ flow'  = [flow EXCEPT ![f] = "running"]
  /\ tries' = [tries EXCEPT ![f] = @ + 1]
  /\ runs'  = [runs EXCEPT ![f] = s]
  /\ at'  = [at EXCEPT ![s] = "fetched"]
  /\ job' = [job EXCEPT ![s] = [flow |-> f, source |-> <<"api", crm>>]]
  /\ UNCHANGED <<crm, alike, rowVars, rec, found, cache, inserted, updated, mixed, overtaken,
                 due, boundVars>>

\* POST /imports/csv, with an export of deals that was taken now or before the CRM
\* changed (there are two stages), with an id column or without.
Upload(s, form, stage) ==
  /\ at[s] = "idle" /\ uploads < MaxUploads
  /\ stage = crm \/ edits > 0 \/ <<"api", stage>> \in sources
  /\ uploads' = uploads + 1
  /\ at'  = [at EXCEPT ![s] = "fetched"]
  /\ job' = [job EXCEPT ![s] = [flow |-> None, source |-> <<form, stage>>]]
  /\ UNCHANGED <<crm, alike, rowVars, flowVars, rec, found, cache, inserted, updated, mixed,
                 overtaken, due, edits, importFaults>>

\* The workflow does not wait for session s any more: it tries again or fails.
Retries(s) ==
  IF \E f \in Flows : runs[f] = s
    THEN LET f == CHOOSE g \in Flows : runs[g] = s
         IN  /\ flow' = [flow EXCEPT ![f] = IF tries[f] < MaxAttempts THEN "waiting" ELSE "failed"]
             /\ runs' = [runs EXCEPT ![f] = None]
    ELSE UNCHANGED <<flow, runs>>

\* start_to_close_timeout: the attempt itself goes on in its thread.
TimeOut(f) ==
  /\ flow[f] = "running" /\ ImportFault
  /\ Retries(runs[f])
  /\ UNCHANGED <<crm, alike, rowVars, tries, sessionVars, mixed, overtaken, due, edits, uploads>>

-----------------------------------------------------------------------------
(* The transaction. *)

Closes(s, stage) ==
  /\ at' = [at EXCEPT ![s] = stage]
  /\ rec' = [rec EXCEPT ![s] = 1]
  /\ found' = [found EXCEPT ![s] = None]
  /\ cache' = [cache EXCEPT ![s] = None]
  /\ inserted' = [inserted EXCEPT ![s] = {}]
  /\ updated'  = [updated EXCEPT ![s] = {}]

\* Another open transaction has inserted the sources row of the same snapshot.
Landing(s) ==
  /\ job[s].source \notin sources
  /\ \E t \in Sessions \ {s} : Open(t) /\ job[t].source = job[s].source

Opens(s) ==
  /\ at' = [at EXCEPT ![s] = "looking"]
  /\ mixed' = (mixed \/ \E t \in Sessions \ {s} : Open(t) /\ job[t].source # job[s].source)

\* [variant: the sources row has no unique key to wait for]
LandSource_NoWait(s) ==
  /\ at[s] = "fetched"
  /\ IF Api(s) \/ job[s].source \notin sources
       THEN Opens(s) /\ UNCHANGED <<rec, found, cache, inserted, updated>>
       ELSE Closes(s, "done") /\ UNCHANGED mixed
  /\ UNCHANGED <<crm, alike, rowVars, flowVars, job, overtaken, due, boundVars>>

\* [variant: the activity, too, stops at a snapshot that is on record]
LandSource_StopsAtKnown(s) ==
  /\ at[s] = "fetched" /\ ~ Landing(s)
  /\ IF job[s].source \notin sources
       THEN Opens(s) /\ UNCHANGED <<rec, found, cache, inserted, updated>>
       ELSE Closes(s, "done") /\ UNCHANGED mixed
  /\ UNCHANGED <<crm, alike, rowVars, flowVars, job, overtaken, due, boundVars>>

\* land inserts the source ON CONFLICT DO NOTHING, waiting for one who is about
\* to.  A file on record is refused (409); the activity imports it all the same.
LandSource(s) ==
  /\ at[s] = "fetched" /\ ~ Landing(s)
  /\ IF Api(s) \/ job[s].source \notin sources
       THEN Opens(s) /\ UNCHANGED <<rec, found, cache, inserted, updated>>
       ELSE Closes(s, "done") /\ UNCHANGED mixed
  /\ UNCHANGED <<crm, alike, rowVars, flowVars, job, overtaken, due, boundVars>>

\* A deal without crm id is a row nobody looks for.
Row(s) == IF Kind(s) = "deal" /\ ~ Keyed(s) THEN "loose" ELSE Kind(s)

\* The record comes with what is the deal's crm id.  (That of the company alone
\* tells no more than its domain.)
Numbered(s) == IF Kind(s) = "deal" THEN Keyed(s) ELSE Api(s) /\ alike

\* _by_identifier asks the resolver's cache first; a company that it does not know
\* by crm id, or that has none, resolve_company finds by its domain.
Finds(s) ==
  IF Numbered(s) /\ (cache[s] # None \/ bearer # None)
    THEN IF cache[s] # None THEN cache[s] ELSE bearer
    ELSE IF Kind(s) = "company" /\ rows["company"] > 0 THEN "company" ELSE None

\* [variant: deals are always inserted]
LookUp_NeverDeals(s) ==
  /\ at[s] = "looking" /\ rec[s] <= Len(Records)
  /\ at' = [at EXCEPT ![s] = "writing"]
  /\ found' = [found EXCEPT ![s] = IF Kind(s) = "deal" THEN None ELSE Finds(s)]
  /\ UNCHANGED <<crm, alike, rowVars, flowVars, job, rec, cache, inserted, updated,
                 mixed, overtaken, due, boundVars>>

\* Look-ups see what is committed.
LookUp(s) ==
  /\ at[s] = "looking" /\ rec[s] <= Len(Records)
  /\ at' = [at EXCEPT ![s] = "writing"]
  /\ found' = [found EXCEPT ![s] = Finds(s)]
  /\ UNCHANGED <<crm, alike, rowVars, flowVars, job, rec, cache, inserted, updated,
                 mixed, overtaken, due, boundVars>>

\* A row is updated when what was found is of the record's kind, a company's only by
\* the API's import: a file of deals names its company and no more.
Updates(s) == found[s] = Kind(s) /\ (Api(s) \/ Kind(s) = "deal")

\* An UPDATE waits for who has updated the row, an insert for who is inserting the
\* same domain or crm id.
Blocked(s) ==
  \E t \in Sessions \ {s} :
    \/ Updates(s) /\ Kind(s) \in updated[t]
    \/ found[s] = None /\ Row(s) = "company" /\ "company" \in inserted[t]
    \/ Numbered(s) /\ bearer = None /\ "number" \in inserted[t]

\* A record that was not found is inserted, and its crm id with it, or with the
\* company found by domain; add_identifier leaves a crm id taken meanwhile with who
\* has it, but remembers it as given.  An UPDATE of deals whose id is a company's,
\* or the other way round, changes nothing.
Write(s) ==
  /\ at[s] = "writing" /\ ~ Blocked(s)
  /\ at' = [at EXCEPT ![s] = "looking"]
  /\ updated' = [updated EXCEPT ![s] = IF Updates(s) THEN @ \cup {Kind(s)} ELSE @]
  /\ inserted' = [inserted EXCEPT ![s] =
       @ \cup (IF found[s] = None THEN {Row(s)} ELSE {})
         \cup (IF Numbered(s) /\ bearer = None THEN {"number"} ELSE {})]
  /\ cache' = [cache EXCEPT ![s] =
       IF ~ Numbered(s) THEN @ ELSE IF found[s] = None THEN Kind(s) ELSE found[s]]
  /\ rec' = [rec EXCEPT ![s] = @ + 1]
  /\ UNCHANGED <<crm, alike, rowVars, flowVars, job, found, mixed, overtaken, due, boundVars>>

\* The stage goes to a second deal nobody looks for, or to a company taken for one.
Misses(s) == "deal" \in inserted[s] \/ (Keyed(s) /\ cache[s] = "company")

\* The crm id stays with what had it first; the stage reaches the deal that bears it.
Commit(s) ==
  /\ at[s] = "looking" /\ rec[s] > Len(Records)
  /\ sources' = sources \cup {job[s].source}
  /\ rows'  = [k \in Kinds |-> IF k \in inserted[s] THEN rows[k] + 1 ELSE rows[k]]
  /\ loose' = IF "loose" \in inserted[s] THEN loose + 1 ELSE loose
  /\ bearer' = IF "number" \in inserted[s] THEN cache[s] ELSE bearer
  /\ shown' = IF "deal" \in updated[s] \/ {"deal", "number"} \subseteq inserted[s]
                THEN Stage(s) ELSE shown
  /\ overtaken' = (/\ shown' # crm
                   /\ overtaken \/ shown = crm \/ (Stage(s) = crm /\ Misses(s)))
  /\ Closes(s, "done")
  /\ UNCHANGED <<crm, alike, flowVars, job, mixed, due, boundVars>>

\* The caller gets the answer, the workflow if it still waits for this attempt.
Answer(s) ==
  /\ at[s] = "done"
  /\ at' = [at EXCEPT ![s] = "idle"]
  /\ job' = [job EXCEPT ![s] = NoJob]
  /\ flow' = [f \in Flows |-> IF runs[f] = s THEN "done" ELSE flow[f]]
  /\ runs' = [f \in Flows |-> IF runs[f] = s THEN None ELSE runs[f]]
  /\ UNCHANGED <<crm, alike, rowVars, tries, rec, found, cache, inserted, updated,
                 mixed, overtaken, due, boundVars>>

\* [variant: the source is landed in a transaction of its own]
ImportFails_KeepsSource(s) ==
  /\ at[s] # "idle" /\ ImportFault
  /\ sources' = IF Open(s) THEN sources \cup {job[s].source} ELSE sources
  /\ Closes(s, "idle")
  /\ job' = [job EXCEPT ![s] = NoJob]
  /\ Retries(s)
  /\ UNCHANGED <<crm, alike, rows, loose, bearer, shown, tries, mixed, overtaken, due, edits,
                 uploads>>

\* An exception or a crash: an open transaction rolls back, a committed one
\* has nobody to tell of it.
ImportFails(s) ==
  /\ at[s] # "idle" /\ ImportFault
  /\ Closes(s, "idle")
  /\ job' = [job EXCEPT ![s] = NoJob]
  /\ Retries(s)
  /\ UNCHANGED <<crm, alike, rowVars, tries, mixed, overtaken, due, edits, uploads>>

-----------------------------------------------------------------------------
SessionStep(s) == LandSource(s) \/ LookUp(s) \/ Write(s) \/ Commit(s) \/ Answer(s)

UserNext ==
  \/ \E stage \in Stages : CrmEdit(stage)
  \/ \E f \in Flows : Request(f)
  \/ \E s \in Sessions, form \in {"ids", "plain"}, stage \in Stages : Upload(s, form, stage)

WorkNext ==
  \/ \E s \in Sessions : SessionStep(s) \/ ImportFails(s)
  \/ \E s \in Sessions, f \in Flows : FetchRecords(s, f)
  \/ \E f \in Flows : TimeOut(f)

ImportNext == UserNext \/ WorkNext

ImportSpec == ImportInit /\ [][ImportNext]_importVars

\* Temporal starts the attempts that are due, and threads go on.
ImportFairSpec ==
  /\ ImportSpec
  /\ \A f \in Flows : WF_importVars(\E s \in Sessions : FetchRecords(s, f))
  /\ \A s \in Sessions : WF_importVars(SessionStep(s))

-----------------------------------------------------------------------------
(* Properties. *)

\* The values the variables take: a workflow waits for a session exactly while an
\* attempt of it runs, and only an open transaction has written rows.
ImportTypeOK ==
  /\ crm \in Stages /\ shown \in Stages \cup {None} /\ bearer \in Kinds \cup {None}
  /\ sources \subseteq Forms \X Stages
  /\ rows \in [Kinds -> Nat] /\ loose \in Nat
  /\ flow \in [Flows -> {"new", "waiting", "running", "done", "failed"}]
  /\ \A f \in Flows : tries[f] <= MaxAttempts /\ (runs[f] # None <=> flow[f] = "running")
  /\ at \in [Sessions -> {"idle", "fetched", "looking", "writing", "done"}]
  /\ \A s \in Sessions : inserted[s] \cup updated[s] # {} => Open(s)

\* "Re-running an import updates the same entities instead of duplicating them":
\* through retries, lost answers, attempts that outlive their timeout and files with
\* ids there is one row of each record that has an identifier, as long as no two
\* different snapshots are imported side by side.
ImportedOnce == mixed \/ \A k \in Kinds : rows[k] <= 1

\* The snapshots on record that have the deal's crm id.
KeyedOnRecord == {src \in sources : src[1] # "plain"}

\* A snapshot on record is there with its records, but for a deal whose number the
\* company was given first; and a file without ids is there exactly once: one that is
\* refused is not missed, one that failed may be uploaded again.
OnRecordIsImported ==
  /\ sources # {} => rows["company"] > 0
  /\ KeyedOnRecord # {} => rows["deal"] > 0 \/ (alike /\ bearer = "company")
  /\ loose = Cardinality({stage \in Stages : <<"plain", stage>> \in sources})

ImportInv == ImportTypeOK /\ OnRecordIsImported

\* [broken by the code] The deal of a snapshot on record is there: a crm id does not
\* say what it numbers, and a deal taken for a company is counted as imported.
EveryDealIsThere == KeyedOnRecord # {} => rows["deal"] > 0

\* When the CRM changes no more, an import requested since then leaves the deal in
\* the CRM's stage, back in a former one too; but for a workflow whose attempts all
\* failed, an older attempt or file that came last or was first to insert the deal,
\* and a deal that was taken for the company with its number.
StageFollowsCrm ==
  <>[]((\E f \in due : flow[f] # "failed") => shown = crm \/ overtaken)

-----------------------------------------------------------------------------
(* The strengthening that makes ImportInv and ImportedOnce inductive. *)

Rows == {"company", "deal", "loose", "number"}

ImportShapes ==
  /\ tries \in [Flows -> Nat] /\ runs \in [Flows -> Sessions \cup {None}]
  /\ job \in [Sessions -> [flow : Flows \cup {None}, source : Forms \X Stages]]
  /\ rec \in [Sessions -> 1 .. 3]
  /\ found \in [Sessions -> Kinds \cup {None}] /\ cache \in [Sessions -> Kinds \cup {None}]
  /\ inserted \in [Sessions -> SUBSET Rows] /\ updated \in [Sessions -> SUBSET Rows]
  /\ mixed \in BOOLEAN /\ alike \in BOOLEAN

\* A workflow that is going to try again may; jobs of workflows are the API's, and a
\* session outside a transaction is to begin with the first record.
JobsSound ==
  /\ \A f \in Flows : /\ flow[f] = "new" => tries[f] = 0
                      /\ flow[f] = "waiting" => tries[f] < MaxAttempts
  /\ \A s \in Sessions : /\ Api(s) <=> job[s].source[1] = "api"
                         /\ Open(s) \/ (rec[s] = 1 /\ cache[s] = None)

\* Who bears the deal's crm id is there, with the company; and a deal that was
\* imported with it has left it with somebody.
NumberBorne ==
  /\ bearer # None => rows["company"] > 0
  /\ bearer = "company" => alike
  /\ bearer = "deal" => rows["deal"] > 0
  /\ rows["deal"] > 0 => bearer # None

\* What a record was taken for is there; a deal's is known by the crm id.
FoundIsThere(s) ==
  /\ found[s] = "company" => Kind(s) = "company" \/ alike
  /\ found[s] = "deal" => rows["deal"] > 0
  /\ found[s] # None => /\ rows["company"] > 0 \/ "company" \in inserted[s]
                        /\ Kind(s) = "company" \/ Keyed(s)

\* What the resolver has in its cache, and has given the crm id, is there.
CacheSound(s) ==
  /\ cache[s] = "company" => alike
  /\ cache[s] = "deal" => rows["deal"] > 0 \/ "deal" \in inserted[s]
  /\ cache[s] # None => rows["company"] > 0 \/ "company" \in inserted[s]
  /\ "number" \in inserted[s] => cache[s] # None

\* The records an open transaction has gone through are there, or will be when it
\* commits, the deal or who bears its crm id; what it has found is there.
RecordsGoneThrough ==
  \A s \in Sessions : Open(s) =>
    /\ rec[s] > 1 => "company" \in inserted[s] \/ rows["company"] > 0
    /\ rec[s] > 2 => IF Keyed(s) THEN "number" \in inserted[s] \/ bearer # None
                                 ELSE "loose" \in inserted[s]
    /\ Keyed(s) => "loose" \notin inserted[s]
    /\ rec[s] <= 2 => "deal" \notin inserted[s]
    /\ "deal" \in inserted[s] => Keyed(s)
    /\ at[s] = "writing" => rec[s] <= 2 /\ FoundIsThere(s)
    /\ CacheSound(s)

\* A snapshot that is not on record yet is in one open transaction at most, and a
\* file only ever in one that puts it on record.
LandedOnce ==
  \A s \in Sessions : Open(s) =>
    /\ Api(s) \/ job[s].source \notin sources
    /\ \A t \in Sessions \ {s} :
         Open(t) /\ job[t].source = job[s].source => job[s].source \in sources

Inserts(s, k) == k \in inserted[s] \/ (at[s] = "writing" /\ found[s] = None /\ Row(s) = k)

IsNew(k) == IF k = "company" THEN rows["company"] = 0 ELSE bearer = None

\* Unless snapshots were mixed, open transactions are of the same one, and there is
\* nothing yet of what a transaction has inserted or is about to insert.
NewRecords ==
  mixed \/ \A s \in Sessions : Open(s) =>
    /\ \A t \in Sessions : Open(t) => job[t].source = job[s].source
    /\ \A k \in Kinds : Inserts(s, k) => IsNew(k)
    /\ "number" \in inserted[s] => bearer = None

ImportIInv ==
  /\ ImportShapes /\ JobsSound /\ NumberBorne /\ RecordsGoneThrough /\ LandedOnce /\ NewRecords
  /\ ImportTypeOK /\ OnRecordIsImported /\ ImportedOnce
=============================================================================
