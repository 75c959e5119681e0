---------------------------- MODULE ScanPipeline ----------------------------
(***************************************************************************)
(* run_scan_pipeline on one account, by several processes at once: the      *)
(* dashboard, the trigger webhook, the scheduler and the workers all call   *)
(* it, and nothing keeps two scans of an account apart.  A step is one      *)
(* database statement, or a transaction that locks what it reads, on a      *)
(* database that lets two writers interleave (PostgreSQL, READ COMMITTED).  *)
(*                                                                          *)
(* Resources and schedules are "items": upserted, listed and diffed the     *)
(* same way.  Of their timestamps only "last_seen_at < started_at of run r" *)
(* matters: fresh[r] holds the items whose row has a time after r's start.  *)
(* The time is taken before the statement that writes it, so a scan that    *)
(* stalls in between may write an older time over a newer one.  A finding's *)
(* key is its category and what it is about.                                *)
(***************************************************************************)
EXTENDS Integers, FiniteSets

CONSTANTS
  Runs,          \* scans, each made by some process
  Items,         \* resources and schedules the provider may hold
  InitialCloud,  \* what it holds at first
  Alarming,      \* items a detector of the scanner raises a finding about
  Untriggered,   \* items analyze_topology raises a finding about
  RuleMatches,   \* items an enabled custom rule matches
  Guarded,       \* items of a service whose listing the provider may refuse
  MaxAtOnce,     \* bound: scans in progress at the same time
  MaxChanges,    \* bound: changes of the provider's inventory
  MaxFaults,     \* bound: scanner failures, refused listings, undecryptable endpoints
  NoRun,
  NoKey,
  NoItem

Counts == 1..(2 * Cardinality(Items))
Keys   == ({"scanner", "topology", "custom"} \X Items) \cup ({"change"} \X Counts)
            \cup {<<"refused", 0>>}

ASSUME PipelineAssumption ==
  /\ IsFiniteSet(Items)
  /\ InitialCloud \subseteq Items
  /\ Alarming \subseteq Items /\ Untriggered \subseteq Items /\ RuleMatches \subseteq Items
  /\ Guarded \subseteq Items
  /\ MaxAtOnce \in Nat /\ MaxChanges \in Nat /\ MaxFaults \in Nat
  /\ NoRun \notin Runs /\ NoKey \notin Keys /\ NoItem \notin Items

VARIABLES
  cloud,      \* what the provider holds
  \* the database
  resources,  \* the rows of Resource and Schedule
  open,       \* open[k][c]: scan_run of the OPEN finding with key k that run c created
  status,     \* ScanRun.status of each run, "none" before it is created
  scanned,    \* CloudAccount.last_scan_at is set
  usage,      \* the day's UsageRecord count of scans
  \* the processes
  pc,         \* where each run is
  had,        \* had_previous_scan
  previous,   \* previous_resources and previous_schedules
  listed,     \* the provider's answer
  todo,       \* listed items still to upsert
  writing,    \* the item whose upsert has taken its last_seen_at, or NoItem
  stamp,      \* the runs marked running before that time
  keys,       \* findings still to upsert in the phase the run is in
  inserting,  \* the finding whose lookup found no row
  fresh,      \* items whose last_seen_at is after the run was marked running
  removed,    \* rows the diff found gone
  \* history
  changes,    \* inventory changes of the provider so far
  faults,     \* faults so far (the kinds are at MaxFaults)
  overlaps,   \* pairs of runs that were in progress at the same time
  announced,  \* rows listed as added by a change finding, or found by the first scan
  author,     \* the run that inserted the row of an item
  backdated,  \* items that were fresh for a run until an older last_seen_at was written
  found,      \* keys a run has upserted
  notified    \* keys sent to the subscribers since a run upserted them last

dbVars  == <<resources, open, status, scanned, usage>>
itemVars == <<todo, writing, stamp>>
runVars == <<pc, had, previous, listed, itemVars, keys, inserting, fresh, removed>>
rowHistory == <<announced, author, backdated>>
history == <<changes, faults, overlaps, rowHistory, found, notified>>
vars    == <<cloud, dbVars, runVars, history>>

Init ==
  /\ cloud = InitialCloud
  /\ resources = {}
  /\ open = [k \in Keys |-> [c \in Runs |-> NoRun]]
  /\ status = [r \in Runs |-> "none"]
  /\ scanned = FALSE
  /\ usage = 0
  /\ pc = [r \in Runs |-> "idle"]
  /\ had = [r \in Runs |-> FALSE]
  /\ previous = [r \in Runs |-> {}]
  /\ listed = [r \in Runs |-> {}]
  /\ todo = [r \in Runs |-> {}]
  /\ writing = [r \in Runs |-> NoItem]
  /\ stamp = [r \in Runs |-> {}]
  /\ keys = [r \in Runs |-> {}]
  /\ inserting = [r \in Runs |-> NoKey]
  /\ fresh = [r \in Runs |-> {}]
  /\ removed = [r \in Runs |-> {}]
  /\ changes = 0
  /\ faults = 0
  /\ overlaps = {}
  /\ announced = {}
  /\ author = [x \in Items |-> NoRun]
  /\ backdated = [r \in Runs |-> {}]
  /\ found = [r \in Runs |-> {}]
  /\ notified = {}

Active(r) == pc[r] \notin {"idle", "done", "raised"}

Goto(r, from, to) == pc[r] = from /\ pc' = [pc EXCEPT ![r] = to]

\* Somebody creates or deletes an item in the provider's account.
CloudChanges(x) ==
  /\ changes < MaxChanges
  /\ changes' = changes + 1
  /\ cloud' = IF x \in cloud THEN cloud \ {x} ELSE cloud \cup {x}
  /\ UNCHANGED <<dbVars, runVars, faults, overlaps, rowHistory, found, notified>>

-----------------------------------------------------------------------------
(* run_scan *)

\* The caller loads the account; last_scan_at is read from this object later.
LoadAccount(r) ==
  /\ Goto(r, "idle", "loaded")
  /\ Cardinality({s \in Runs : Active(s)}) < MaxAtOnce
  /\ had' = [had EXCEPT ![r] = scanned]
  /\ overlaps' = overlaps \cup {{r, s} : s \in {q \in Runs : Active(q)}}
  /\ UNCHANGED <<cloud, dbVars, previous, listed, itemVars, keys, inserting, fresh, removed,
                 changes, faults, rowHistory, found, notified>>

\* ScanRun.objects.create and mark_running.
StartRun(r) ==
  /\ Goto(r, "loaded", "snapshot")
  /\ status' = [status EXCEPT ![r] = "running"]
  /\ fresh' = [fresh EXCEPT ![r] = {}]
  /\ UNCHANGED <<cloud, resources, open, scanned, usage, had, previous, listed, itemVars, keys,
                 inserting, removed, history>>

Snapshot(r) ==
  /\ Goto(r, "snapshot", "list")
  /\ previous' = [previous EXCEPT ![r] = resources]
  /\ UNCHANGED <<cloud, dbVars, had, listed, itemVars, keys, inserting, fresh, removed, history>>

\* The provider's inventory is S: the items to upsert, and the detectors' findings.
Listing(r, S, notes) ==
  /\ Goto(r, "list", "upsert")
  /\ listed' = [listed EXCEPT ![r] = S]
  /\ todo' = [todo EXCEPT ![r] = S]
  /\ keys' = [keys EXCEPT ![r] = ({"scanner"} \X (S \cap Alarming)) \cup notes]
  /\ UNCHANGED <<cloud, dbVars, had, previous, writing, stamp, inserting, fresh, removed, changes,
                 overlaps, rowHistory, found, notified>>

List(r) == Listing(r, cloud, {}) /\ UNCHANGED faults

\* One service refuses (403, 404, a ClientError): the scanner notes that in a finding,
\* or nowhere (Cloud Run, Deployments, Logic Apps), and goes on without its items.
ListRefused(r) ==
  /\ faults < MaxFaults
  /\ faults' = faults + 1
  /\ \E notes \in SUBSET {<<"refused", 0>>} : Listing(r, cloud \ Guarded, notes)

\* upsert_resource, upsert_schedule: the arguments, with the time for last_seen_at ...
StampItem(r) ==
  /\ pc[r] = "upsert"
  /\ writing[r] = NoItem /\ inserting[r] = NoKey
  /\ \E x \in todo[r] : writing' = [writing EXCEPT ![r] = x]
  /\ stamp' = [stamp EXCEPT ![r] = {s \in Runs : pc[s] \notin {"idle", "loaded"}}]
  /\ UNCHANGED <<cloud, dbVars, pc, had, previous, listed, todo, keys, inserting, fresh, removed,
                 history>>

\* ... and update_or_create, one row per account and provider_id.  The time may have
\* become older than the one in the row.
UpsertItem(r) ==
  LET x == writing[r] IN
  /\ x # NoItem
  /\ writing' = [writing EXCEPT ![r] = NoItem]
  /\ stamp' = [stamp EXCEPT ![r] = {}]
  /\ todo' = [todo EXCEPT ![r] = @ \ {x}]
  /\ resources' = resources \cup {x}
  /\ fresh' = [s \in Runs |-> IF s \in stamp[r] THEN fresh[s] \cup {x} ELSE fresh[s] \ {x}]
  /\ author' = IF x \in resources THEN author ELSE [author EXCEPT ![x] = r]
  /\ backdated' = [s \in Runs |-> IF s \in stamp[r] THEN backdated[s] \ {x}
                                  ELSE backdated[s] \cup ({x} \cap fresh[s])]
  /\ UNCHANGED <<cloud, open, status, scanned, usage, pc, had, previous, listed, keys,
                 inserting, removed, changes, faults, overlaps, announced, found, notified>>

\* An exception in the scanner: mark_failed; run_scan returns, usage is recorded.
Fail(r) ==
  /\ pc' = [pc EXCEPT ![r] = "done"]
  /\ status' = [status EXCEPT ![r] = "failed"]
  /\ usage' = usage + 1
  /\ inserting' = [inserting EXCEPT ![r] = NoKey]
  /\ writing' = [writing EXCEPT ![r] = NoItem]
  /\ stamp' = [stamp EXCEPT ![r] = {}]
  /\ UNCHANGED <<cloud, resources, open, scanned, had, previous, listed, todo, keys, fresh, removed,
                 changes, overlaps, rowHistory, found, notified>>

\* Mutant: the scanner's exception is logged and the scan goes on.
ScannerRaisesSwallowed(r) ==
  /\ pc[r] \in {"list", "upsert"}
  /\ faults < MaxFaults
  /\ faults' = faults + 1
  /\ pc' = [pc EXCEPT ![r] = "upsert"]
  /\ todo' = [todo EXCEPT ![r] = {}]
  /\ writing' = [writing EXCEPT ![r] = NoItem]
  /\ stamp' = [stamp EXCEPT ![r] = {}]
  /\ keys' = [keys EXCEPT ![r] = {}]
  /\ inserting' = [inserting EXCEPT ![r] = NoKey]
  /\ UNCHANGED <<cloud, dbVars, had, previous, listed, fresh, removed, changes,
                 overlaps, rowHistory, found, notified>>

ScannerRaises(r) ==
  /\ pc[r] \in {"list", "upsert"}
  /\ faults < MaxFaults
  /\ faults' = faults + 1
  /\ Fail(r)

-----------------------------------------------------------------------------
(* upsert_finding: update_or_create by key among the OPEN rows *)

FindingPhases == {"upsert", "change", "topology", "rules"}

Copies(k) == {c \in Runs : open[k][c] # NoRun}

Upserting(r, k) ==
  /\ pc[r] \in FindingPhases
  /\ writing[r] = NoItem /\ inserting[r] = NoKey
  /\ k \in keys[r]

\* One row: locked, updated, and now this run's.
UpdateFinding(r, k) ==
  /\ Upserting(r, k)
  /\ \E c \in Runs :
       /\ Copies(k) = {c}
       /\ open' = [open EXCEPT ![k][c] = r]
  /\ keys' = [keys EXCEPT ![r] = @ \ {k}]
  /\ found' = [found EXCEPT ![r] = @ \cup {k}]
  /\ notified' = notified \ {k}
  /\ UNCHANGED <<cloud, resources, status, scanned, usage, pc, had, previous, listed, itemVars,
                 inserting, fresh, removed, changes, faults, overlaps, rowHistory>>

\* Mutant: findings are created without a lookup.
MissFindingNoLookup(r, k) ==
  /\ Upserting(r, k)
  /\ inserting' = [inserting EXCEPT ![r] = k]
  /\ UNCHANGED <<cloud, dbVars, pc, had, previous, listed, itemVars, keys, fresh, removed,
                 history>>

\* No row: it will be inserted by the next statement.
MissFinding(r, k) ==
  /\ Upserting(r, k)
  /\ Copies(k) = {}
  /\ inserting' = [inserting EXCEPT ![r] = k]
  /\ UNCHANGED <<cloud, dbVars, pc, had, previous, listed, itemVars, keys, fresh, removed,
                 history>>

\* The INSERT: no unique constraint stops a second row.
InsertFinding(r) ==
  LET k == inserting[r] IN
  /\ k # NoKey
  /\ open' = [open EXCEPT ![k][r] = r]
  /\ inserting' = [inserting EXCEPT ![r] = NoKey]
  /\ keys' = [keys EXCEPT ![r] = @ \ {k}]
  /\ found' = [found EXCEPT ![r] = @ \cup {k}]
  /\ notified' = notified \ {k}
  /\ UNCHANGED <<cloud, resources, status, scanned, usage, pc, had, previous, listed, itemVars,
                 fresh, removed, changes, faults, overlaps, rowHistory>>

\* Two rows: MultipleObjectsReturned.  In the scanner it fails the run.
DuplicateFailsScan(r, k) ==
  /\ Upserting(r, k)
  /\ Cardinality(Copies(k)) > 1
  /\ pc[r] = "upsert"
  /\ Fail(r)
  /\ UNCHANGED faults

\* After it, it escapes run_scan_pipeline, and the ScanRun keeps its status.
DuplicateEscapes(r, k) ==
  /\ Upserting(r, k)
  /\ Cardinality(Copies(k)) > 1
  /\ pc[r] # "upsert"
  /\ pc' = [pc EXCEPT ![r] = "raised"]
  /\ UNCHANGED <<cloud, dbVars, had, previous, listed, itemVars, keys, inserting, fresh, removed,
                 history>>

PhaseEnds(r, from, to) == Goto(r, from, to) /\ keys[r] = {} /\ inserting[r] = NoKey

-----------------------------------------------------------------------------
(* _apply_change_diff *)

\* The names of the rows that are stale ...
ReadStale(r) ==
  /\ PhaseEnds(r, "upsert", "delete")
  /\ todo[r] = {} /\ writing[r] = NoItem
  /\ removed' = [removed EXCEPT ![r] = resources \ fresh[r]]
  /\ UNCHANGED <<cloud, dbVars, had, previous, listed, itemVars, keys, inserting, fresh, history>>

\* Mutant: stale rows are reported and kept.
DeleteStaleNothing(r) ==
  /\ Goto(r, "delete", "compare")
  /\ UNCHANGED <<cloud, dbVars, had, previous, listed, itemVars, keys, inserting, fresh, removed,
                 history>>

\* ... and their deletion, which evaluates the condition again.
DeleteStale(r) ==
  /\ Goto(r, "delete", "compare")
  /\ resources' = resources \cap fresh[r]
  /\ announced' = announced \cap fresh[r]
  /\ UNCHANGED <<cloud, open, status, scanned, usage, had, previous, listed, itemVars, keys,
                 inserting, fresh, removed, changes, faults, overlaps, author, backdated, found,
                 notified>>

Added(r) == resources \ previous[r]

\* Mutant: the change finding is written when nothing changed, too.
CompareAlwaysReports(r) ==
  LET total == Cardinality(Added(r)) + Cardinality(removed[r]) IN
  /\ Goto(r, "compare", "change")
  /\ keys' = [keys EXCEPT ![r] = IF had[r] THEN {<<"change", total>>} ELSE {}]
  /\ announced' = announced \cup (IF had[r] THEN Added(r) ELSE resources)
  /\ UNCHANGED <<cloud, dbVars, had, previous, listed, itemVars, inserting, fresh, removed,
                 changes, faults, overlaps, author, backdated, found, notified>>

\* Mutant: the rows before the scan are read after it, and nothing looks added.
CompareWithRows(r) ==
  LET total == Cardinality(removed[r]) IN
  /\ Goto(r, "compare", "change")
  /\ keys' = [keys EXCEPT ![r] = IF total > 0 /\ had[r] THEN {<<"change", total>>} ELSE {}]
  /\ announced' = announced \cup (IF had[r] THEN {} ELSE resources)
  /\ UNCHANGED <<cloud, dbVars, had, previous, listed, itemVars, inserting, fresh, removed,
                 changes, faults, overlaps, author, backdated, found, notified>>

\* What was added, and the change finding, unless this is the first scan.
Compare(r) ==
  LET total == Cardinality(Added(r)) + Cardinality(removed[r]) IN
  /\ Goto(r, "compare", "change")
  /\ keys' = [keys EXCEPT ![r] = IF total > 0 /\ had[r] THEN {<<"change", total>>} ELSE {}]
  /\ announced' = announced \cup (IF had[r] THEN Added(r) ELSE resources)
  /\ UNCHANGED <<cloud, dbVars, had, previous, listed, itemVars, inserting, fresh, removed,
                 changes, faults, overlaps, author, backdated, found, notified>>

-----------------------------------------------------------------------------
(* The rest of the pipeline *)

AnalyzeTopology(r) ==
  /\ PhaseEnds(r, "change", "topology")
  /\ keys' = [keys EXCEPT ![r] = {"topology"} \X (resources \cap Untriggered)]
  /\ UNCHANGED <<cloud, dbVars, had, previous, listed, itemVars, inserting, fresh, removed,
                 history>>

\* mark_success and account.last_scan_at.
MarkSuccess(r) ==
  /\ PhaseEnds(r, "topology", "evaluate")
  /\ status' = [status EXCEPT ![r] = "success"]
  /\ scanned' = TRUE
  /\ UNCHANGED <<cloud, resources, open, usage, had, previous, listed, itemVars, keys, inserting,
                 fresh, removed, history>>

EvaluateRules(r) ==
  /\ Goto(r, "evaluate", "rules")
  /\ keys' = [keys EXCEPT ![r] = {"custom"} \X (resources \cap RuleMatches)]
  /\ UNCHANGED <<cloud, dbVars, had, previous, listed, itemVars, inserting, fresh, removed,
                 history>>

\* run_scan returns SUCCESS: record_usage, and the briefing, which reads only.
RecordUsage(r) ==
  /\ PhaseEnds(r, "rules", "dispatch")
  /\ usage' = usage + 1
  /\ UNCHANGED <<cloud, resources, open, status, scanned, had, previous, listed, itemVars, keys,
                 inserting, fresh, removed, history>>

\* dispatch_scan_notifications: the OPEN findings whose scan_run is this run.
Owned(r) == {k \in Keys : \E c \in Runs : open[k][c] = r}

\* Mutant: only the findings this run created are sent.
DispatchCreated(r) ==
  /\ Goto(r, "dispatch", "done")
  /\ notified' = notified \cup {k \in Keys : open[k][r] = r}
  /\ UNCHANGED <<cloud, dbVars, had, previous, listed, itemVars, keys, inserting, fresh, removed,
                 changes, faults, overlaps, rowHistory, found>>

Dispatch(r) ==
  /\ Goto(r, "dispatch", "done")
  /\ notified' = notified \cup Owned(r)
  /\ UNCHANGED <<cloud, dbVars, had, previous, listed, itemVars, keys, inserting, fresh, removed,
                 changes, faults, overlaps, rowHistory, found>>

\* An endpoint URL that does not decrypt: the exception escapes run_scan_pipeline before
\* the post (the subscribers are one party here).
DispatchRaises(r) ==
  /\ Goto(r, "dispatch", "raised")
  /\ faults < MaxFaults
  /\ faults' = faults + 1
  /\ UNCHANGED <<cloud, dbVars, had, previous, listed, itemVars, keys, inserting, fresh, removed,
                 changes, overlaps, rowHistory, found, notified>>

-----------------------------------------------------------------------------
RunStep(r) ==
  \/ LoadAccount(r) \/ StartRun(r) \/ Snapshot(r) \/ List(r) \/ ListRefused(r)
  \/ StampItem(r) \/ UpsertItem(r) \/ ScannerRaises(r) \/ InsertFinding(r)
  \/ \E k \in Keys : \/ UpdateFinding(r, k) \/ MissFinding(r, k)
                     \/ DuplicateFailsScan(r, k) \/ DuplicateEscapes(r, k)
  \/ ReadStale(r) \/ DeleteStale(r) \/ Compare(r) \/ AnalyzeTopology(r) \/ MarkSuccess(r)
  \/ EvaluateRules(r) \/ RecordUsage(r) \/ Dispatch(r) \/ DispatchRaises(r)

Next ==
  \/ \E x \in Items : CloudChanges(x)
  \/ \E r \in Runs : RunStep(r)

Spec == Init /\ [][Next]_vars

-----------------------------------------------------------------------------
(* Properties *)

TypeOK ==
  /\ cloud \subseteq Items /\ resources \subseteq Items /\ announced \subseteq Items
  /\ open \in [Keys -> [Runs -> Runs \cup {NoRun}]]
  /\ status \in [Runs -> {"none", "running", "success", "failed"}]
  /\ scanned \in BOOLEAN /\ usage \in Nat
  /\ pc \in [Runs -> {"idle", "loaded", "snapshot", "list", "upsert", "delete",
                      "compare", "change", "topology", "evaluate", "rules", "dispatch",
                      "done", "raised"}]
  /\ had \in [Runs -> BOOLEAN]
  /\ previous \in [Runs -> SUBSET Items] /\ listed \in [Runs -> SUBSET Items]
  /\ todo \in [Runs -> SUBSET Items]
  /\ writing \in [Runs -> Items \cup {NoItem}] /\ stamp \in [Runs -> SUBSET Runs]
  /\ fresh \in [Runs -> SUBSET Items]
  /\ removed \in [Runs -> SUBSET Items]
  /\ keys \in [Runs -> SUBSET Keys]      /\ found \in [Runs -> SUBSET Keys]
  /\ inserting \in [Runs -> Keys \cup {NoKey}]
  /\ changes \in 0..MaxChanges /\ faults \in 0..MaxFaults
  /\ overlaps \in SUBSET (SUBSET Runs)
  /\ author \in [Items -> Runs \cup {NoRun}]
  /\ backdated \in [Runs -> SUBSET Items]
  /\ notified \subseteq Keys

\* Two OPEN rows for one problem come only from scans that overlapped: scans that follow
\* one another, whatever failed before, keep one row per problem.
DuplicatesNeedOverlap ==
  \A k \in Keys : \A c, d \in Copies(k) : c # d => {c, d} \in overlaps

\* What a successful scan found is sent to the subscribers after it was found, by that
\* scan or by one that took the finding over; only a run that took it over and has not
\* ended well (still going, failed or raised) keeps it from them.
FoundIsNotified ==
  \A r \in Runs : pc[r] = "done" /\ status[r] = "success" =>
    \A k \in found[r] :
      \/ k \in notified
      \/ \E s \in Runs \ {r} : k \in Owned(s) /\ (pc[s] # "done" \/ status[s] = "failed")

\* A scan that overlaps no other leaves exactly what the provider listed: the map
\* reflects the latest scan (base.py:66-70), however the scans before it ended.
Alone(r) == \A s \in Runs : {r, s} \notin overlaps

LoneScanIsExact ==
  \A r \in Runs :
    Alone(r) /\ pc[r] \in {"compare", "change", "topology", "evaluate", "rules", "dispatch"} =>
      resources = listed[r]

\* An item that never left the provider stays on the map once a scan has succeeded,
\* however scans overlap and fail, unless it belongs to a service whose listing may be
\* refused.  One thing only takes it off: a scan that stalls between the time it takes
\* and the row it writes has set the item back behind the start of a run that saw it.
StableItemStays ==
  changes = 0 /\ (\E r \in Runs : status[r] = "success") =>
    \A x \in InitialCloud \ Guarded : x \in resources \/ \E r \in Runs : x \in backdated[r]

\* "Stale rows are deleted so the topology stays current, and a change finding lists ...
\* removed resources" (docs/API.md:143-145): what a scan takes off the map, and lists as
\* removed, has left the provider.
RemovedIsGone == changes = 0 => \A r \in Runs : removed[r] = {}

\* "A change finding lists added ... resources ... when something differs"
\* (docs/API.md:143-145): a row of the map was found by a first scan or is listed as
\* added by a change finding since it was inserted.  What stays unannounced was inserted
\* by a run that failed, raised or overlapped another (the next one takes it for known),
\* or that has not got that far.
AddedIsAnnounced ==
  \A x \in resources \ announced : \E r \in Runs :
    /\ author[x] = r
    /\ \/ pc[r] \in {"upsert", "delete", "compare", "raised"}
       \/ status[r] = "failed"
       \/ ~ Alone(r)
=============================================================================
