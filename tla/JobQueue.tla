------------------------------ MODULE JobQueue ------------------------------
(***************************************************************************)
(* The database-backed job queue: the rows of BackgroundJob, the web        *)
(* processes that enqueue, and the run_worker processes that drain.  Every  *)
(* action is one database statement (the code runs in autocommit mode) or a *)
(* stretch of Python between two of them, so the interleavings are those of *)
(* several workers and web processes on one database.  Job identifiers are  *)
(* numbered in the order of created_at.  A crash kills a worker process at  *)
(* any point; MaxCrashes bounds how often.  The scan itself is reduced to   *)
(* its ScanRun row and to where it may raise (module ScanPipeline has it).  *)
(***************************************************************************)
EXTENDS Integers, FiniteSets

CONSTANTS
  Workers,     \* run_worker processes
  Loopers,     \* those started with --loop; the others make a single pass
  Accounts,    \* cloud accounts that exist initially
  Deletable,   \* those an owner may delete while jobs are around
  MaxJobs,     \* bound: number of jobs ever enqueued
  MaxCrashes,  \* bound: number of worker crashes
  NoJob,       \* no job held
  NoAccount    \* the account column is NULL

Jobs == 1..MaxJobs

ASSUME QueueAssumption ==
  /\ MaxJobs \in Nat
  /\ MaxCrashes \in Nat
  /\ Loopers \subseteq Workers
  /\ Deletable \subseteq Accounts
  /\ NoJob \notin Jobs
  /\ NoAccount \notin Accounts

VARIABLES
  \* the database
  accounts,    \* the rows of CloudAccount
  status,      \* BackgroundJob.status; "none" before and "deleted" after the row's life
  kind,        \* BackgroundJob.kind
  account,     \* BackgroundJob.account
  result,      \* BackgroundJob.result: "none", the scan's status, or "briefing"
  scanRun,     \* the status of the ScanRun made for the job
  \* the worker processes
  pc,          \* where each worker is
  held,        \* the job object it holds
  outcome,     \* the fields process_job has set on that object: [status, result]
  \* history
  claimed,     \* the jobs claimed so far
  execs,       \* how often the work of each job was begun
  crashes,     \* how many crashes there have been
  seen         \* the jobs a pass found queued, unless a pass was cut short since

dbVars     == <<accounts, status, kind, account, result, scanRun>>
workerVars == <<pc, held, outcome>>
history    == <<claimed, execs, crashes, seen>>
vars       == <<dbVars, workerVars, history>>

JobStatus  == {"none", "queued", "running", "done", "failed", "deleted"}
JobResult  == {"none", "success", "failed", "briefing"}
ScanStatus == {"none", "running", "success", "failed", "deleted"}
WorkerPc   == {"off", "claim", "update", "refresh", "process", "scan", "scanning",
               "post", "report", "save", "sleep"}
NoOutcome  == [status |-> "none", result |-> "none"]

Queued == {j \in Jobs : status[j] = "queued"}

Init ==
  /\ accounts = Accounts
  /\ status   = [j \in Jobs |-> "none"]
  /\ kind     = [j \in Jobs |-> "scan"]
  /\ account  = [j \in Jobs |-> NoAccount]
  /\ result   = [j \in Jobs |-> "none"]
  /\ scanRun  = [j \in Jobs |-> "none"]
  /\ pc       = [w \in Workers |-> "off"]
  /\ held     = [w \in Workers |-> NoJob]
  /\ outcome  = [w \in Workers |-> NoOutcome]
  /\ claimed  = {}
  /\ execs    = [j \in Jobs |-> 0]
  /\ crashes  = 0
  /\ seen     = {}

-----------------------------------------------------------------------------
(* The web processes *)

\* BackgroundJob.objects.create: the next row, QUEUED.
CreateJob(k, a) ==
  \E j \in Jobs :
    /\ status[j] = "none"
    /\ \A i \in Jobs : i < j => status[i] # "none"
    /\ status'  = [status EXCEPT ![j] = "queued"]
    /\ kind'    = [kind EXCEPT ![j] = k]
    /\ account' = [account EXCEPT ![j] = a]
    /\ UNCHANGED <<accounts, result, scanRun, workerVars, history>>

\* The dashboard's scan button and the trigger webhook with ASYNC_SCANS on.  The
\* insert fails on its foreign key when the account has gone meanwhile.
EnqueueScan == \E a \in accounts : CreateJob("scan", a)

\* A superuser adds a row in the Django admin: either kind, an account or none.
AdminAddsJob ==
  \E k \in {"scan", "daily_report"}, a \in accounts \cup {NoAccount} : CreateJob(k, a)

\* account.delete() cascades, in one transaction, to its jobs and scan runs.
DeleteAccount(a) ==
  /\ a \in accounts \cap Deletable
  /\ accounts' = accounts \ {a}
  /\ status'   = [j \in Jobs |-> IF account[j] = a THEN "deleted" ELSE status[j]]
  /\ scanRun'  = [j \in Jobs |-> IF account[j] = a /\ scanRun[j] # "none"
                                 THEN "deleted" ELSE scanRun[j]]
  /\ UNCHANGED <<kind, account, result, workerVars, history>>

-----------------------------------------------------------------------------
(* run_worker *)

Goto(w, from, to) == pc[w] = from /\ pc' = [pc EXCEPT ![w] = to]

Forget(w) ==
  /\ held'    = [held EXCEPT ![w] = NoJob]
  /\ outcome' = [outcome EXCEPT ![w] = NoOutcome]

\* Where drain() returns to: the polling loop, or the end of a single pass.  A loop
\* that processed something drains again at once, a sleep of no duration here.
AfterDrain(w) == IF w \in Loopers THEN "sleep" ELSE "off"

\* An exception nothing catches, or a crash: the process ends, its memory is gone.
Die(w) == pc' = [pc EXCEPT ![w] = "off"] /\ Forget(w) /\ seen' = {}

\* The container is (re)started, or cron runs the command again.
Start(w) ==
  /\ Goto(w, "off", "claim")
  /\ UNCHANGED <<dbVars, held, outcome, history>>

Wake(w) ==
  /\ Goto(w, "sleep", "claim")
  /\ UNCHANGED <<dbVars, held, outcome, history>>

\* claim_next_job, the SELECT: first() in the order -created_at, the newest queued job.
ClaimRead(w) ==
  /\ Goto(w, "claim", "update")
  /\ \E j \in Queued :
       /\ \A i \in Queued : i <= j
       /\ held' = [held EXCEPT ![w] = j]
  /\ seen' = seen \cup Queued
  /\ UNCHANGED <<dbVars, outcome, claimed, execs, crashes>>

ClaimNothing(w) ==
  /\ Queued = {}
  /\ Goto(w, "claim", AfterDrain(w))
  /\ UNCHANGED <<dbVars, held, outcome, history>>

\* Mutant: the UPDATE's filter has lost its status = QUEUED.
ClaimUpdateUnconditional(w) ==
  /\ Goto(w, "update", "refresh")
  /\ status[held[w]] # "deleted"
  /\ status' = [status EXCEPT ![held[w]] = "running"]
  /\ claimed' = claimed \cup {held[w]}
  /\ UNCHANGED <<accounts, kind, account, result, scanRun, held, outcome, execs, crashes,
                 seen>>

\* claim_next_job, the UPDATE ... WHERE status = QUEUED.
ClaimUpdate(w) ==
  /\ Goto(w, "update", "refresh")
  /\ status[held[w]] = "queued"
  /\ status' = [status EXCEPT ![held[w]] = "running"]
  /\ claimed' = claimed \cup {held[w]}
  /\ UNCHANGED <<accounts, kind, account, result, scanRun, held, outcome, execs, crashes,
                 seen>>

\* Mutant: a worker that lost a claim tries the same row again.
ClaimLostRetries(w) ==
  /\ pc[w] = "update"
  /\ status[held[w]] # "queued"
  /\ UNCHANGED vars

\* The UPDATE changed no row: claim_next_job returns None, which drain() takes for
\* an empty queue.
ClaimLost(w) ==
  /\ Goto(w, "update", AfterDrain(w))
  /\ status[held[w]] # "queued"
  /\ Forget(w)
  /\ seen' = IF status[held[w]] = "deleted" THEN {} ELSE seen
  /\ UNCHANGED <<dbVars, claimed, execs, crashes>>

\* job.refresh_from_db()
Refresh(w) ==
  /\ Goto(w, "refresh", "process")
  /\ status[held[w]] # "deleted"
  /\ UNCHANGED <<dbVars, held, outcome, history>>

\* ... raises DoesNotExist when the row has been deleted; nothing catches it.
RefreshGone(w) ==
  /\ pc[w] = "refresh"
  /\ status[held[w]] = "deleted"
  /\ Die(w)
  /\ UNCHANGED <<dbVars, claimed, execs, crashes>>

-----------------------------------------------------------------------------
(* process_job *)

\* process_job is about to write s and r.
Conclude(w, from, s, r) ==
  /\ Goto(w, from, "save")
  /\ outcome' = [outcome EXCEPT ![w] = [status |-> s, result |-> r]]
  /\ UNCHANGED <<held, crashes, seen>>

\* The if/elif on kind and account: the account is looked up here.
Begin(w) ==
  LET j == held[w] IN
  /\ \/ Goto(w, "process", "scan") /\ kind[j] = "scan" /\ account[j] \in accounts
     \/ Goto(w, "process", "report") /\ kind[j] = "daily_report"
  /\ execs' = [execs EXCEPT ![j] = @ + 1]
  /\ UNCHANGED <<dbVars, held, outcome, claimed, crashes, seen>>

\* A scan of no account is a ValueError, of a deleted one a DoesNotExist: both caught.
BeginRaises(w) ==
  /\ Conclude(w, "process", "failed", "none")
  /\ kind[held[w]] = "scan"
  /\ account[held[w]] \notin accounts
  /\ UNCHANGED <<dbVars, claimed, execs>>

\* run_scan writes the ScanRun row; the statement fails once the account has gone.
WriteScanRun(w, from, s) ==
  LET j == held[w] IN
  /\ scanRun[j] = from
  /\ account[j] \in accounts
  /\ scanRun' = [scanRun EXCEPT ![j] = s]
  /\ UNCHANGED <<accounts, status, kind, account, result, claimed, execs>>

\* Credentials decrypted, ScanRun created and marked running.
ScanStarts(w) ==
  /\ Goto(w, "scan", "scanning")
  /\ WriteScanRun(w, "none", "running")
  /\ UNCHANGED <<held, outcome, crashes, seen>>

\* Mutant: process_job does not raise on a failed scan.
ScanFailsUnnoticed(w) ==
  /\ Conclude(w, "scanning", "done", "failed")
  /\ WriteScanRun(w, "running", "failed")

\* The scanner raised: mark_failed; process_job records the result and raises.
ScanFails(w) ==
  /\ Conclude(w, "scanning", "failed", "failed")
  /\ WriteScanRun(w, "running", "failed")

\* Change diff and topology done: mark_success.
ScanSucceeds(w) ==
  /\ Goto(w, "scanning", "post")
  /\ WriteScanRun(w, "running", "success")
  /\ UNCHANGED <<held, outcome, crashes, seen>>

\* Mutant: the job takes over the scan's status.
PipelineReturnsScanStatus(w) ==
  /\ Conclude(w, "post", "success", "success")
  /\ UNCHANGED <<dbVars, claimed, execs>>

\* Custom rules, usage, briefing and notifications went through; the account may have
\* gone after the last of their statements.
PipelineReturns(w) ==
  /\ Conclude(w, "post", "done", "success")
  /\ UNCHANGED <<dbVars, claimed, execs>>

\* Mutant: process_job without its except clause.
PipelineRaisesUncaught(w) ==
  /\ pc[w] \in {"scan", "scanning", "post"}
  /\ Die(w)
  /\ UNCHANGED <<dbVars, claimed, execs, crashes>>

\* Whatever escapes run_scan_pipeline is caught by process_job; result stays empty and
\* the ScanRun row keeps the status it has.
PipelineRaises(w) ==
  /\ \E from \in {"scan", "scanning", "post"} : Conclude(w, from, "failed", "none")
  /\ UNCHANGED <<dbVars, claimed, execs>>

ReportReturns(w) ==
  /\ Conclude(w, "report", "done", "briefing")
  /\ UNCHANGED <<dbVars, claimed, execs>>

ReportRaises(w) ==
  /\ Conclude(w, "report", "failed", "none")
  /\ UNCHANGED <<dbVars, claimed, execs>>

\* Mutant: job.save() without update_fields inserts the row again when it has gone.
SaveJobInserts(w) ==
  LET j == held[w] IN
  /\ Goto(w, "save", "claim")
  /\ status' = [status EXCEPT ![j] = outcome[w].status]
  /\ result' = [result EXCEPT ![j] = outcome[w].result]
  /\ Forget(w)
  /\ UNCHANGED <<accounts, kind, account, scanRun, history>>

\* Mutant: "status" is missing in update_fields.
SaveJobNoStatus(w) ==
  LET j == held[w] IN
  /\ Goto(w, "save", "claim")
  /\ status[j] # "deleted"
  /\ result' = [result EXCEPT ![j] = outcome[w].result]
  /\ Forget(w)
  /\ UNCHANGED <<accounts, status, kind, account, scanRun, history>>

\* Mutant: a pass ends after one job.
SaveJobEndsPass(w) ==
  LET j == held[w] IN
  /\ Goto(w, "save", AfterDrain(w))
  /\ status[j] # "deleted"
  /\ status' = [status EXCEPT ![j] = outcome[w].status]
  /\ result' = [result EXCEPT ![j] = outcome[w].result]
  /\ Forget(w)
  /\ UNCHANGED <<accounts, kind, account, scanRun, history>>

\* job.save(update_fields): an UPDATE by primary key, whatever the row's status is.
SaveJob(w) ==
  LET j == held[w] IN
  /\ Goto(w, "save", "claim")
  /\ status[j] # "deleted"
  /\ status' = [status EXCEPT ![j] = outcome[w].status]
  /\ result' = [result EXCEPT ![j] = outcome[w].result]
  /\ Forget(w)
  /\ UNCHANGED <<accounts, kind, account, scanRun, history>>

\* ... raises DatabaseError when the row has gone; nothing catches it.
SaveGone(w) ==
  /\ pc[w] = "save"
  /\ status[held[w]] = "deleted"
  /\ Die(w)
  /\ UNCHANGED <<dbVars, claimed, execs, crashes>>

Crash(w) ==
  /\ pc[w] # "off"
  /\ crashes < MaxCrashes
  /\ crashes' = crashes + 1
  /\ Die(w)
  /\ UNCHANGED <<dbVars, claimed, execs>>

-----------------------------------------------------------------------------
WorkerStep(w) ==
  \/ Wake(w) \/ ClaimRead(w) \/ ClaimNothing(w) \/ ClaimUpdate(w) \/ ClaimLost(w)
  \/ Refresh(w) \/ RefreshGone(w) \/ Begin(w) \/ BeginRaises(w)
  \/ ScanStarts(w) \/ ScanFails(w) \/ ScanSucceeds(w)
  \/ PipelineReturns(w) \/ PipelineRaises(w) \/ ReportReturns(w) \/ ReportRaises(w)
  \/ SaveJob(w) \/ SaveGone(w)

Next ==
  \/ EnqueueScan
  \/ AdminAddsJob
  \/ \E a \in Accounts : DeleteAccount(a)
  \/ \E w \in Workers : Start(w) \/ WorkerStep(w) \/ Crash(w)

Spec == Init /\ [][Next]_vars

\* A running worker keeps running: cloud and webhook calls return or time out.  A
\* --loop worker is supervised (restart: unless-stopped), so it is started again.
FairSpec ==
  /\ Spec
  /\ \A w \in Workers : WF_vars(WorkerStep(w))
  /\ \A w \in Loopers : WF_vars(Start(w))

-----------------------------------------------------------------------------
(* Properties *)

TypeOK ==
  /\ accounts \in SUBSET Accounts
  /\ status  \in [Jobs -> JobStatus]
  /\ kind    \in [Jobs -> {"scan", "daily_report"}]
  /\ account \in [Jobs -> Accounts \cup {NoAccount}]
  /\ result  \in [Jobs -> JobResult]
  /\ scanRun \in [Jobs -> ScanStatus]
  /\ pc      \in [Workers -> WorkerPc]
  /\ held    \in [Workers -> Jobs \cup {NoJob}]
  /\ outcome \in [Workers -> [status : {"none", "done", "failed"}, result : JobResult]]
  /\ claimed \in SUBSET Jobs
  /\ execs   \in [Jobs -> Nat]
  /\ crashes \in 0..MaxCrashes
  /\ seen    \subseteq Jobs

\* The worker has claimed the job it holds.
Owns(w) == pc[w] \in {"refresh", "process", "scan", "scanning", "post", "report", "save"}

\* "Multiple workers can run side by side without double execution" (models.py:603-604):
\* the work of a job is begun at most once, in spite of the read before the claim, of
\* crashes and of restarts, and no two workers own the same job.
NoDoubleExecution ==
  /\ \A j \in Jobs : execs[j] <= 1
  /\ \A v, w \in Workers : v # w /\ Owns(v) /\ Owns(w) => held[v] # held[w]

\* What a finished row says agrees with the scan it ran: DONE and a successful result
\* come together and only after the whole pipeline; a failed result names a FAILED scan.
ResultMatchesScan ==
  \A j \in Jobs :
    /\ status[j] = "done" /\ kind[j] = "scan" =>
         scanRun[j] = "success" /\ result[j] = "success"
    /\ status[j] = "failed" => result[j] \in {"none", "failed"}
    /\ status[j] = "failed" /\ result[j] = "failed" => scanRun[j] = "failed"
    /\ status[j] = "queued" => scanRun[j] = "none" /\ execs[j] = 0

\* A row is left RUNNING with no worker on it only by a crash, one row a crash: a
\* worker that dies of a deleted row, and an exception in a job, strand none.
Stranded == {j \in Jobs : status[j] = "running" /\ ~ \E w \in Workers : Owns(w) /\ held[w] = j}

StrandedOnlyByCrash == Cardinality(Stranded) <= crashes

\* The queue implements what it promises: the life of a row, and work begun only on a
\* RUNNING row, once, whichever worker does it.
Lifecycle == INSTANCE JobLifecycle WITH
  state <- status, claimed <- claimed, executed <- {j \in Jobs : execs[j] > 0}

ImplementsLifecycle == Lifecycle!LifecycleSpec

\* "The worker will pick it up" (views.py:332): with a supervised --loop worker a queued
\* job is claimed some day, although claims are lost, workers die, and the newest job
\* goes first (the number of jobs is bounded here).
QueuedIsPickedUp == \A j \in Jobs : status[j] = "queued" ~> status[j] # "queued"

\* A claimed job ends, DONE or FAILED, or goes with its account; only one whose worker
\* crashed does not.
ClaimedJobEnds ==
  \A j \in Jobs :
    status[j] = "running" ~> status[j] # "running" \/ (j \in Stranded /\ crashes > 0)

\* A worker that will look for work again before its pass ends, or whose claim is still
\* open.
CarriesOn(w) ==
  \/ pc[w] = "claim" \/ Owns(w)
  \/ pc[w] = "update" /\ status[held[w]] \in {"queued", "deleted"}

\* "single drain" (docs/API.md:51): what a pass found queued is claimed, or a worker is
\* still on its way to it.  A worker that loses a claim ends its pass early, but then the
\* winner goes on; only a worker that dies, or that finds the row it wants to claim
\* deleted with its account, leaves the rest to a later pass.
NothingSeenIsLeft == seen \cap Queued # {} => \E w \in Workers : CarriesOn(w)
=============================================================================
