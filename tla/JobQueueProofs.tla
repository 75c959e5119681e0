--------------------------- MODULE JobQueueProofs ---------------------------
(***************************************************************************)
(* Proofs about JobQueue, for any number of workers, jobs, accounts and     *)
(* crashes: the inductive invariant IInv, what follows from it (TypeOK,     *)
(* NoDoubleExecution, ResultMatchesScan), that only crashes strand rows,    *)
(* that a lost claim leaves nothing behind, and that every step of the      *)
(* queue is a step of JobLifecycle or a stuttering step.                    *)
(***************************************************************************)
EXTENDS JobQueue, FiniteSetTheorems, TLAPS

\* A worker that has read or claimed a job holds one.
HoldsJob == \A w \in Workers : pc[w] = "update" \/ Owns(w) => held[w] \in Jobs

\* An owned job was claimed, its row is still RUNNING or has gone, and nobody else
\* owns it.
OwnedIsClaimed ==
  /\ \A w \in Workers : Owns(w) =>
       held[w] \in claimed /\ status[held[w]] \in {"running", "deleted"}
  /\ \A v, w \in Workers : v # w /\ Owns(v) /\ Owns(w) => held[v] # held[w]
  /\ \A j \in Jobs : status[j] \in {"none", "queued"} => j \notin claimed

\* Work is begun only by the owner of a claimed job, when it leaves "process".
ExecutedOnce ==
  /\ \A j \in Jobs : execs[j] <= 1
  /\ \A j \in Jobs : j \notin claimed => execs[j] = 0
  /\ \A w \in Workers : pc[w] \in {"refresh", "process"} => execs[held[w]] = 0
  /\ \A w \in Workers : pc[w] \in {"scan", "scanning", "post", "report"} => execs[held[w]] = 1
  /\ \A w \in Workers : pc[w] = "save" /\ outcome[w].status = "done" => execs[held[w]] = 1

\* A row that is not there yet names no account, so no deletion reaches it.
UnsubmittedBlank == \A j \in Jobs : status[j] = "none" => account[j] = NoAccount

\* The ScanRun row is at the stage its worker is at, unless the account has gone.
ScanFollowsWorker ==
  /\ \A j \in Jobs : j \notin claimed => scanRun[j] = "none"
  /\ \A j \in Jobs : scanRun[j] = "deleted" => status[j] = "deleted"
  /\ \A w \in Workers : pc[w] \in {"refresh", "process", "scan"} => scanRun[held[w]] = "none"
  /\ \A w \in Workers : pc[w] = "report" => kind[held[w]] = "daily_report"
  /\ \A w \in Workers : pc[w] = "post" => scanRun[held[w]] \in {"success", "deleted"}

\* What is about to be saved agrees with the ScanRun row.
OutcomeMatchesScan ==
  \A w \in Workers : pc[w] = "save" =>
    LET j == held[w]  o == outcome[w] IN
    /\ o.status \in {"done", "failed"}
    /\ o.status = "done" /\ kind[j] = "scan" =>
         scanRun[j] \in {"success", "deleted"} /\ o.result = "success"
    /\ o.status = "failed" => o.result \in {"none", "failed"}
    /\ o.status = "failed" /\ o.result = "failed" => scanRun[j] \in {"failed", "deleted"}

IInv ==
  /\ TypeOK
  /\ HoldsJob
  /\ UnsubmittedBlank
  /\ OwnedIsClaimed
  /\ ExecutedOnce
  /\ ScanFollowsWorker
  /\ OutcomeMatchesScan
  /\ ResultMatchesScan

-----------------------------------------------------------------------------
(* The inductive invariant *)

\* The initial state satisfies it.
LEMMA InitIInv == Init => IInv
BY QueueAssumption
DEF Init, IInv, TypeOK, HoldsJob, UnsubmittedBlank, OwnedIsClaimed, ExecutedOnce,
    ScanFollowsWorker, OutcomeMatchesScan, ResultMatchesScan, Owns, Jobs, JobStatus,
    JobResult, ScanStatus, WorkerPc, NoOutcome

\* Enqueueing touches a row nobody owns, deleting an account takes its rows to "deleted".
LEMMA WebStep ==
  IInv /\ (EnqueueScan \/ AdminAddsJob \/ \E a \in Accounts : DeleteAccount(a)) => IInv'
<1> SUFFICES ASSUME IInv, EnqueueScan \/ AdminAddsJob \/ \E a \in Accounts : DeleteAccount(a)
              PROVE  IInv'
  OBVIOUS
<1> USE QueueAssumption DEF Jobs, Goto, Forget, Die, AfterDrain, Conclude, WriteScanRun, Owns,
      dbVars, workerVars, history
<1>1. ASSUME NEW k \in {"scan", "daily_report"}, NEW a \in accounts \cup {NoAccount},
            CreateJob(k, a) PROVE IInv'
  <2>1. TypeOK' /\ HoldsJob' /\ UnsubmittedBlank'
    BY <1>1 DEF CreateJob, IInv, TypeOK, JobStatus, JobResult, ScanStatus, WorkerPc,
       NoOutcome, HoldsJob, UnsubmittedBlank
  <2>2. OwnedIsClaimed' /\ ExecutedOnce'
    BY <1>1 DEF CreateJob, IInv, TypeOK, HoldsJob, OwnedIsClaimed, ExecutedOnce,
       JobStatus
  <2>3. ScanFollowsWorker' /\ OutcomeMatchesScan' /\ ResultMatchesScan'
    BY <1>1 DEF CreateJob, IInv, TypeOK, HoldsJob, OwnedIsClaimed, ExecutedOnce,
       ScanFollowsWorker, OutcomeMatchesScan, ResultMatchesScan
  <2>4. QED BY <2>1, <2>2, <2>3 DEF IInv
<1>2. ASSUME NEW a \in Accounts, DeleteAccount(a) PROVE IInv'
  <2>1. TypeOK' /\ HoldsJob' /\ UnsubmittedBlank'
    BY <1>2 DEF DeleteAccount, IInv, TypeOK, JobStatus, JobResult, ScanStatus,
       WorkerPc, NoOutcome, HoldsJob, UnsubmittedBlank
  <2>2. OwnedIsClaimed' /\ ExecutedOnce'
    BY <1>2 DEF DeleteAccount, IInv, TypeOK, HoldsJob, OwnedIsClaimed, ExecutedOnce,
       JobStatus
  <2>3. ScanFollowsWorker' /\ OutcomeMatchesScan' /\ ResultMatchesScan'
    BY <1>2 DEF DeleteAccount, IInv, TypeOK, HoldsJob, OwnedIsClaimed, ExecutedOnce,
       ScanFollowsWorker, OutcomeMatchesScan, ResultMatchesScan
  <2>4. QED BY <2>1, <2>2, <2>3 DEF IInv
<1>3. QED BY <1>1, <1>2 DEF EnqueueScan, AdminAddsJob

ClaimStep(w) ==
  \/ Start(w) \/ Wake(w) \/ ClaimRead(w) \/ ClaimNothing(w) \/ ClaimUpdate(w)
  \/ ClaimLost(w) \/ Refresh(w) \/ RefreshGone(w) \/ Crash(w)

ProcessStep(w) ==
  \/ Begin(w) \/ BeginRaises(w) \/ ScanStarts(w) \/ ScanFails(w) \/ ScanSucceeds(w)
  \/ PipelineReturns(w) \/ PipelineRaises(w) \/ ReportReturns(w) \/ ReportRaises(w)
  \/ SaveJob(w) \/ SaveGone(w)

\* Only the UPDATE makes an owner, and of a row that was still QUEUED.
LEMMA ClaimPreserves ==
  \A w \in Workers : IInv /\ ClaimStep(w) => IInv'
<1> SUFFICES ASSUME IInv, NEW w \in Workers, ClaimStep(w)
              PROVE  IInv'
  OBVIOUS
<1> USE QueueAssumption DEF Jobs, Goto, Forget, Die, AfterDrain, Conclude, WriteScanRun, Owns,
      dbVars, workerVars, history
<1>1. ASSUME Start(w) PROVE IInv'
  <2>1. TypeOK' /\ HoldsJob' /\ UnsubmittedBlank'
    BY <1>1 DEF Start, IInv, TypeOK, JobStatus, JobResult, ScanStatus, WorkerPc,
       NoOutcome, HoldsJob, UnsubmittedBlank
  <2>2. OwnedIsClaimed' /\ ExecutedOnce'
    BY <1>1 DEF Start, IInv, TypeOK, HoldsJob, OwnedIsClaimed, ExecutedOnce,
       JobStatus
  <2>3. ScanFollowsWorker' /\ OutcomeMatchesScan' /\ ResultMatchesScan'
    BY <1>1 DEF Start, IInv, TypeOK, HoldsJob, OwnedIsClaimed, ExecutedOnce,
       ScanFollowsWorker, OutcomeMatchesScan, ResultMatchesScan
  <2>4. QED BY <2>1, <2>2, <2>3 DEF IInv
<1>2. ASSUME Wake(w) PROVE IInv'
  <2>1. TypeOK' /\ HoldsJob' /\ UnsubmittedBlank'
    BY <1>2 DEF Wake, IInv, TypeOK, JobStatus, JobResult, ScanStatus, WorkerPc,
       NoOutcome, HoldsJob, UnsubmittedBlank
  <2>2. OwnedIsClaimed' /\ ExecutedOnce'
    BY <1>2 DEF Wake, IInv, TypeOK, HoldsJob, OwnedIsClaimed, ExecutedOnce,
       JobStatus
  <2>3. ScanFollowsWorker' /\ OutcomeMatchesScan' /\ ResultMatchesScan'
    BY <1>2 DEF Wake, IInv, TypeOK, HoldsJob, OwnedIsClaimed, ExecutedOnce,
       ScanFollowsWorker, OutcomeMatchesScan, ResultMatchesScan
  <2>4. QED BY <2>1, <2>2, <2>3 DEF IInv
<1>3. ASSUME ClaimRead(w) PROVE IInv'
  <2>1. TypeOK' /\ HoldsJob' /\ UnsubmittedBlank'
    BY <1>3 DEF ClaimRead, IInv, TypeOK, JobStatus, JobResult, ScanStatus, WorkerPc,
       NoOutcome, HoldsJob, UnsubmittedBlank, Queued
  <2>2. OwnedIsClaimed' /\ ExecutedOnce'
    BY <1>3 DEF ClaimRead, IInv, TypeOK, HoldsJob, OwnedIsClaimed, ExecutedOnce,
       JobStatus, Queued
  <2>3. ScanFollowsWorker' /\ OutcomeMatchesScan' /\ ResultMatchesScan'
    BY <1>3 DEF ClaimRead, IInv, TypeOK, HoldsJob, OwnedIsClaimed, ExecutedOnce,
       ScanFollowsWorker, OutcomeMatchesScan, ResultMatchesScan, Queued
  <2>4. QED BY <2>1, <2>2, <2>3 DEF IInv
<1>4. ASSUME ClaimNothing(w) PROVE IInv'
  <2>1. TypeOK' /\ HoldsJob' /\ UnsubmittedBlank'
    BY <1>4 DEF ClaimNothing, IInv, TypeOK, JobStatus, JobResult, ScanStatus,
       WorkerPc, NoOutcome, HoldsJob, UnsubmittedBlank, Queued
  <2>2. OwnedIsClaimed' /\ ExecutedOnce'
    BY <1>4 DEF ClaimNothing, IInv, TypeOK, HoldsJob, OwnedIsClaimed, ExecutedOnce,
       JobStatus, Queued
  <2>3. ScanFollowsWorker' /\ OutcomeMatchesScan' /\ ResultMatchesScan'
    BY <1>4 DEF ClaimNothing, IInv, TypeOK, HoldsJob, OwnedIsClaimed, ExecutedOnce,
       ScanFollowsWorker, OutcomeMatchesScan, ResultMatchesScan, Queued
  <2>4. QED BY <2>1, <2>2, <2>3 DEF IInv
<1>5. ASSUME ClaimUpdate(w) PROVE IInv'
  <2>1. TypeOK' /\ HoldsJob' /\ UnsubmittedBlank'
    BY <1>5 DEF ClaimUpdate, IInv, TypeOK, JobStatus, JobResult, ScanStatus,
       WorkerPc, NoOutcome, HoldsJob, UnsubmittedBlank
  <2>2. OwnedIsClaimed' /\ ExecutedOnce'
    BY <1>5 DEF ClaimUpdate, IInv, TypeOK, HoldsJob, OwnedIsClaimed, ExecutedOnce,
       JobStatus
  <2>3. ScanFollowsWorker' /\ OutcomeMatchesScan' /\ ResultMatchesScan'
    BY <1>5 DEF ClaimUpdate, IInv, TypeOK, HoldsJob, OwnedIsClaimed, ExecutedOnce,
       ScanFollowsWorker, OutcomeMatchesScan, ResultMatchesScan
  <2>4. QED BY <2>1, <2>2, <2>3 DEF IInv
<1>6. ASSUME ClaimLost(w) PROVE IInv'
  <2>1. TypeOK' /\ HoldsJob' /\ UnsubmittedBlank'
    BY <1>6 DEF ClaimLost, IInv, TypeOK, JobStatus, JobResult, ScanStatus, WorkerPc,
       NoOutcome, HoldsJob, UnsubmittedBlank
  <2>2. OwnedIsClaimed' /\ ExecutedOnce'
    BY <1>6 DEF ClaimLost, IInv, TypeOK, HoldsJob, OwnedIsClaimed, ExecutedOnce,
       JobStatus
  <2>3. ScanFollowsWorker' /\ OutcomeMatchesScan' /\ ResultMatchesScan'
    BY <1>6 DEF ClaimLost, IInv, TypeOK, HoldsJob, OwnedIsClaimed, ExecutedOnce,
       ScanFollowsWorker, OutcomeMatchesScan, ResultMatchesScan
  <2>4. QED BY <2>1, <2>2, <2>3 DEF IInv
<1>7. ASSUME Refresh(w) PROVE IInv'
  <2>1. TypeOK' /\ HoldsJob' /\ UnsubmittedBlank'
    BY <1>7 DEF Refresh, IInv, TypeOK, JobStatus, JobResult, ScanStatus, WorkerPc,
       NoOutcome, HoldsJob, UnsubmittedBlank
  <2>2. OwnedIsClaimed' /\ ExecutedOnce'
    BY <1>7 DEF Refresh, IInv, TypeOK, HoldsJob, OwnedIsClaimed, ExecutedOnce,
       JobStatus
  <2>3. ScanFollowsWorker' /\ OutcomeMatchesScan' /\ ResultMatchesScan'
    BY <1>7 DEF Refresh, IInv, TypeOK, HoldsJob, OwnedIsClaimed, ExecutedOnce,
       ScanFollowsWorker, OutcomeMatchesScan, ResultMatchesScan
  <2>4. QED BY <2>1, <2>2, <2>3 DEF IInv
<1>8. ASSUME RefreshGone(w) PROVE IInv'
  <2>1. TypeOK' /\ HoldsJob' /\ UnsubmittedBlank'
    BY <1>8 DEF RefreshGone, IInv, TypeOK, JobStatus, JobResult, ScanStatus,
       WorkerPc, NoOutcome, HoldsJob, UnsubmittedBlank
  <2>2. OwnedIsClaimed' /\ ExecutedOnce'
    BY <1>8 DEF RefreshGone, IInv, TypeOK, HoldsJob, OwnedIsClaimed, ExecutedOnce,
       JobStatus
  <2>3. ScanFollowsWorker' /\ OutcomeMatchesScan' /\ ResultMatchesScan'
    BY <1>8 DEF RefreshGone, IInv, TypeOK, HoldsJob, OwnedIsClaimed, ExecutedOnce,
       ScanFollowsWorker, OutcomeMatchesScan, ResultMatchesScan
  <2>4. QED BY <2>1, <2>2, <2>3 DEF IInv
<1>9. ASSUME Crash(w) PROVE IInv'
  <2>1. TypeOK' /\ HoldsJob' /\ UnsubmittedBlank'
    BY <1>9 DEF Crash, IInv, TypeOK, JobStatus, JobResult, ScanStatus, WorkerPc,
       NoOutcome, HoldsJob, UnsubmittedBlank
  <2>2. OwnedIsClaimed' /\ ExecutedOnce'
    BY <1>9 DEF Crash, IInv, TypeOK, HoldsJob, OwnedIsClaimed, ExecutedOnce,
       JobStatus
  <2>3. ScanFollowsWorker' /\ OutcomeMatchesScan' /\ ResultMatchesScan'
    BY <1>9 DEF Crash, IInv, TypeOK, HoldsJob, OwnedIsClaimed, ExecutedOnce,
       ScanFollowsWorker, OutcomeMatchesScan, ResultMatchesScan
  <2>4. QED BY <2>1, <2>2, <2>3 DEF IInv
<1>10. QED BY <1>1, <1>2, <1>3, <1>4, <1>5, <1>6, <1>7, <1>8, <1>9 DEF ClaimStep

\* A step of process_job changes only the rows of the job its worker owns.
LEMMA ProcessPreserves ==
  \A w \in Workers : IInv /\ ProcessStep(w) => IInv'
<1> SUFFICES ASSUME IInv, NEW w \in Workers, ProcessStep(w)
              PROVE  IInv'
  OBVIOUS
<1> USE QueueAssumption DEF Jobs, Goto, Forget, Die, AfterDrain, Conclude, WriteScanRun, Owns,
      dbVars, workerVars, history
<1>1. ASSUME Begin(w) PROVE IInv'
  <2>1. /\ held[w] \in Jobs
        /\ execs' = [execs EXCEPT ![held[w]] = @ + 1]
        /\ \E to \in {"scan", "report"} : pc' = [pc EXCEPT ![w] = to]
        /\ UNCHANGED <<accounts, status, kind, account, result, scanRun, held, outcome,
                       claimed, crashes, seen>>
    BY <1>1 DEF Begin, IInv, HoldsJob
  <2>2. TypeOK'
    BY <2>1 DEF IInv, TypeOK, WorkerPc
  <2>3. HoldsJob' /\ UnsubmittedBlank'
    BY <1>1, <2>1 DEF IInv, TypeOK, HoldsJob, UnsubmittedBlank
  <2>4. OwnedIsClaimed' /\ ExecutedOnce'
    BY <1>1 DEF Begin, IInv, TypeOK, HoldsJob, OwnedIsClaimed, ExecutedOnce,
       JobStatus
  <2>5. ScanFollowsWorker' /\ OutcomeMatchesScan' /\ ResultMatchesScan'
    BY <1>1 DEF Begin, IInv, TypeOK, HoldsJob, OwnedIsClaimed, ExecutedOnce,
       ScanFollowsWorker, OutcomeMatchesScan, ResultMatchesScan
  <2>6. QED BY <2>2, <2>3, <2>4, <2>5 DEF IInv
<1>2. ASSUME BeginRaises(w) PROVE IInv'
  <2>1. TypeOK' /\ HoldsJob' /\ UnsubmittedBlank'
    BY <1>2 DEF BeginRaises, IInv, TypeOK, JobStatus, JobResult, ScanStatus,
       WorkerPc, NoOutcome, HoldsJob, UnsubmittedBlank
  <2>2. OwnedIsClaimed' /\ ExecutedOnce'
    BY <1>2 DEF BeginRaises, IInv, TypeOK, HoldsJob, OwnedIsClaimed, ExecutedOnce,
       JobStatus
  <2>3. ScanFollowsWorker' /\ OutcomeMatchesScan' /\ ResultMatchesScan'
    BY <1>2 DEF BeginRaises, IInv, TypeOK, HoldsJob, OwnedIsClaimed, ExecutedOnce,
       ScanFollowsWorker, OutcomeMatchesScan, ResultMatchesScan
  <2>4. QED BY <2>1, <2>2, <2>3 DEF IInv
<1>3. ASSUME ScanStarts(w) PROVE IInv'
  <2>1. TypeOK' /\ HoldsJob' /\ UnsubmittedBlank'
    BY <1>3 DEF ScanStarts, IInv, TypeOK, JobStatus, JobResult, ScanStatus,
       WorkerPc, NoOutcome, HoldsJob, UnsubmittedBlank
  <2>2. OwnedIsClaimed' /\ ExecutedOnce'
    BY <1>3 DEF ScanStarts, IInv, TypeOK, HoldsJob, OwnedIsClaimed, ExecutedOnce,
       JobStatus
  <2>3. ScanFollowsWorker' /\ OutcomeMatchesScan' /\ ResultMatchesScan'
    BY <1>3 DEF ScanStarts, IInv, TypeOK, HoldsJob, OwnedIsClaimed, ExecutedOnce,
       ScanFollowsWorker, OutcomeMatchesScan, ResultMatchesScan
  <2>4. QED BY <2>1, <2>2, <2>3 DEF IInv
<1>4. ASSUME ScanFails(w) PROVE IInv'
  <2>1. TypeOK' /\ HoldsJob' /\ UnsubmittedBlank'
    BY <1>4 DEF ScanFails, IInv, TypeOK, JobStatus, JobResult, ScanStatus, WorkerPc,
       NoOutcome, HoldsJob, UnsubmittedBlank
  <2>2. OwnedIsClaimed' /\ ExecutedOnce'
    BY <1>4 DEF ScanFails, IInv, TypeOK, HoldsJob, OwnedIsClaimed, ExecutedOnce,
       JobStatus
  <2>3. ScanFollowsWorker' /\ OutcomeMatchesScan' /\ ResultMatchesScan'
    BY <1>4 DEF ScanFails, IInv, TypeOK, HoldsJob, OwnedIsClaimed, ExecutedOnce,
       ScanFollowsWorker, OutcomeMatchesScan, ResultMatchesScan
  <2>4. QED BY <2>1, <2>2, <2>3 DEF IInv
<1>5. ASSUME ScanSucceeds(w) PROVE IInv'
  <2>1. TypeOK' /\ HoldsJob' /\ UnsubmittedBlank'
    BY <1>5 DEF ScanSucceeds, IInv, TypeOK, JobStatus, JobResult, ScanStatus,
       WorkerPc, NoOutcome, HoldsJob, UnsubmittedBlank
  <2>2. OwnedIsClaimed' /\ ExecutedOnce'
    BY <1>5 DEF ScanSucceeds, IInv, TypeOK, HoldsJob, OwnedIsClaimed, ExecutedOnce,
       JobStatus
  <2>3. ScanFollowsWorker' /\ OutcomeMatchesScan' /\ ResultMatchesScan'
    BY <1>5 DEF ScanSucceeds, IInv, TypeOK, HoldsJob, OwnedIsClaimed, ExecutedOnce,
       ScanFollowsWorker, OutcomeMatchesScan, ResultMatchesScan
  <2>4. QED BY <2>1, <2>2, <2>3 DEF IInv
<1>6. ASSUME PipelineReturns(w) PROVE IInv'
  <2>1. TypeOK' /\ HoldsJob' /\ UnsubmittedBlank'
    BY <1>6 DEF PipelineReturns, IInv, TypeOK, JobStatus, JobResult, ScanStatus,
       WorkerPc, NoOutcome, HoldsJob, UnsubmittedBlank
  <2>2. OwnedIsClaimed' /\ ExecutedOnce'
    BY <1>6 DEF PipelineReturns, IInv, TypeOK, HoldsJob, OwnedIsClaimed,
       ExecutedOnce, JobStatus
  <2>3. ScanFollowsWorker' /\ OutcomeMatchesScan' /\ ResultMatchesScan'
    BY <1>6 DEF PipelineReturns, IInv, TypeOK, HoldsJob, OwnedIsClaimed,
       ExecutedOnce, ScanFollowsWorker, OutcomeMatchesScan, ResultMatchesScan
  <2>4. QED BY <2>1, <2>2, <2>3 DEF IInv
<1>7. ASSUME PipelineRaises(w) PROVE IInv'
  <2>1. TypeOK' /\ HoldsJob' /\ UnsubmittedBlank'
    BY <1>7 DEF PipelineRaises, IInv, TypeOK, JobStatus, JobResult, ScanStatus,
       WorkerPc, NoOutcome, HoldsJob, UnsubmittedBlank
  <2>2. OwnedIsClaimed' /\ ExecutedOnce'
    BY <1>7 DEF PipelineRaises, IInv, TypeOK, HoldsJob, OwnedIsClaimed,
       ExecutedOnce, JobStatus
  <2>3. ScanFollowsWorker' /\ OutcomeMatchesScan' /\ ResultMatchesScan'
    BY <1>7 DEF PipelineRaises, IInv, TypeOK, HoldsJob, OwnedIsClaimed,
       ExecutedOnce, ScanFollowsWorker, OutcomeMatchesScan, ResultMatchesScan
  <2>4. QED BY <2>1, <2>2, <2>3 DEF IInv
<1>8. ASSUME ReportReturns(w) PROVE IInv'
  <2>1. TypeOK' /\ HoldsJob' /\ UnsubmittedBlank'
    BY <1>8 DEF ReportReturns, IInv, TypeOK, JobStatus, JobResult, ScanStatus,
       WorkerPc, NoOutcome, HoldsJob, UnsubmittedBlank
  <2>2. OwnedIsClaimed' /\ ExecutedOnce'
    BY <1>8 DEF ReportReturns, IInv, TypeOK, HoldsJob, OwnedIsClaimed, ExecutedOnce,
       JobStatus
  <2>3. ScanFollowsWorker' /\ OutcomeMatchesScan' /\ ResultMatchesScan'
    BY <1>8 DEF ReportReturns, IInv, TypeOK, HoldsJob, OwnedIsClaimed, ExecutedOnce,
       ScanFollowsWorker, OutcomeMatchesScan, ResultMatchesScan
  <2>4. QED BY <2>1, <2>2, <2>3 DEF IInv
<1>9. ASSUME ReportRaises(w) PROVE IInv'
  <2>1. TypeOK' /\ HoldsJob' /\ UnsubmittedBlank'
    BY <1>9 DEF ReportRaises, IInv, TypeOK, JobStatus, JobResult, ScanStatus,
       WorkerPc, NoOutcome, HoldsJob, UnsubmittedBlank
  <2>2. OwnedIsClaimed' /\ ExecutedOnce'
    BY <1>9 DEF ReportRaises, IInv, TypeOK, HoldsJob, OwnedIsClaimed, ExecutedOnce,
       JobStatus
  <2>3. ScanFollowsWorker' /\ OutcomeMatchesScan' /\ ResultMatchesScan'
    BY <1>9 DEF ReportRaises, IInv, TypeOK, HoldsJob, OwnedIsClaimed, ExecutedOnce,
       ScanFollowsWorker, OutcomeMatchesScan, ResultMatchesScan
  <2>4. QED BY <2>1, <2>2, <2>3 DEF IInv
<1>10. ASSUME SaveJob(w) PROVE IInv'
  <2>1. /\ pc[w] = "save"
        /\ held[w] \in Jobs
        /\ status[held[w]] = "running"
        /\ outcome[w].status \in {"done", "failed"}
        /\ outcome[w].result \in JobResult
    BY <1>10 DEF SaveJob, IInv, TypeOK, HoldsJob, OwnedIsClaimed, OutcomeMatchesScan
  <2>2. /\ status' = [status EXCEPT ![held[w]] = outcome[w].status]
        /\ result' = [result EXCEPT ![held[w]] = outcome[w].result]
        /\ pc' = [pc EXCEPT ![w] = "claim"]
        /\ held' = [held EXCEPT ![w] = NoJob]
        /\ outcome' = [outcome EXCEPT ![w] = NoOutcome]
        /\ UNCHANGED <<accounts, kind, account, scanRun, claimed, execs, crashes, seen>>
    BY <1>10 DEF SaveJob
  <2>3. TypeOK'
    BY <2>1, <2>2 DEF IInv, TypeOK, JobStatus, JobResult, WorkerPc, NoOutcome
  <2>4. HoldsJob' /\ UnsubmittedBlank'
    BY <2>1, <2>2 DEF IInv, TypeOK, HoldsJob, UnsubmittedBlank
  <2>5. OwnedIsClaimed'
    BY <2>1, <2>2 DEF IInv, TypeOK, HoldsJob, OwnedIsClaimed
  <2>6. ExecutedOnce'
    BY <2>2 DEF IInv, TypeOK, ExecutedOnce
  <2>7. ScanFollowsWorker' /\ OutcomeMatchesScan'
    BY <2>1, <2>2
    DEF IInv, TypeOK, HoldsJob, OwnedIsClaimed, ScanFollowsWorker, OutcomeMatchesScan
  <2>8. ResultMatchesScan'
    <3>1. SUFFICES ASSUME NEW j \in Jobs
                   PROVE  /\ status'[j] = "done" /\ kind[j] = "scan" =>
                               scanRun[j] = "success" /\ result'[j] = "success"
                          /\ status'[j] = "failed" => result'[j] \in {"none", "failed"}
                          /\ status'[j] = "failed" /\ result'[j] = "failed" =>
                               scanRun[j] = "failed"
                          /\ status'[j] = "queued" => scanRun[j] = "none" /\ execs[j] = 0
      BY <2>2 DEF ResultMatchesScan
    <3>2. CASE j = held[w]
      <4>1. status'[j] = outcome[w].status /\ result'[j] = outcome[w].result
        BY <3>2, <2>1, <2>2 DEF IInv, TypeOK
      <4>2. scanRun[j] # "deleted"
        BY <3>2, <2>1 DEF IInv, ScanFollowsWorker
      <4>3. QED BY <3>2, <4>1, <4>2, <2>1 DEF IInv, OutcomeMatchesScan
    <3>3. CASE j # held[w]
      BY <3>3, <2>2 DEF IInv, TypeOK, ResultMatchesScan
    <3>4. QED BY <3>2, <3>3
  <2>9. QED BY <2>3, <2>4, <2>5, <2>6, <2>7, <2>8 DEF IInv
<1>11. ASSUME SaveGone(w) PROVE IInv'
  <2>1. TypeOK' /\ HoldsJob' /\ UnsubmittedBlank'
    BY <1>11 DEF SaveGone, IInv, TypeOK, JobStatus, JobResult, ScanStatus, WorkerPc,
       NoOutcome, HoldsJob, UnsubmittedBlank
  <2>2. OwnedIsClaimed' /\ ExecutedOnce'
    BY <1>11 DEF SaveGone, IInv, TypeOK, HoldsJob, OwnedIsClaimed, ExecutedOnce,
       JobStatus
  <2>3. ScanFollowsWorker' /\ OutcomeMatchesScan' /\ ResultMatchesScan'
    BY <1>11 DEF SaveGone, IInv, TypeOK, HoldsJob, OwnedIsClaimed, ExecutedOnce,
       ScanFollowsWorker, OutcomeMatchesScan, ResultMatchesScan
  <2>4. QED BY <2>1, <2>2, <2>3 DEF IInv
<1>12. QED BY <1>1, <1>2, <1>3, <1>4, <1>5, <1>6, <1>7, <1>8, <1>9, <1>10, <1>11 DEF ProcessStep

\* Every step preserves it.
LEMMA NextIInv == IInv /\ [Next]_vars => IInv'
<1> SUFFICES ASSUME IInv, [Next]_vars PROVE IInv'
  OBVIOUS
<1>1. CASE Next
  BY <1>1, WebStep, ClaimPreserves, ProcessPreserves
  DEF Next, WorkerStep, ClaimStep, ProcessStep
<1>2. CASE UNCHANGED vars
  BY <1>2
  DEF IInv, TypeOK, HoldsJob, UnsubmittedBlank, OwnedIsClaimed, ExecutedOnce,
      ScanFollowsWorker, OutcomeMatchesScan, ResultMatchesScan, Owns, vars, dbVars,
      workerVars, history
<1>3. QED BY <1>1, <1>2

LEMMA Invariance == Spec => []IInv
<1>1. QED BY InitIInv, NextIInv, PTL DEF Spec

-----------------------------------------------------------------------------
(* What follows from it *)

\* Every variable keeps its type: job rows, workers, and the bound on crashes.
THEOREM TypeCorrect == Spec => []TypeOK
<1>1. IInv => TypeOK  BY DEF IInv
<1>2. QED BY <1>1, Invariance, PTL

\* At-most-once execution (models.py:603-604), for any number of workers and crashes.
THEOREM AtMostOnce == Spec => []NoDoubleExecution
<1>1. IInv => NoDoubleExecution
  BY DEF IInv, NoDoubleExecution, OwnedIsClaimed, ExecutedOnce
<1>2. QED BY <1>1, Invariance, PTL

\* A finished row agrees with its scan run.
THEOREM ResultsAgree == Spec => []ResultMatchesScan
<1>1. IInv => ResultMatchesScan  BY DEF IInv
<1>2. QED BY <1>1, Invariance, PTL

-----------------------------------------------------------------------------
(* Rows that are left RUNNING *)

\* A worker goes on, or ends, without leaving a row behind.
LEMMA WorkerStrandsNone ==
  ASSUME IInv, NEW w \in Workers, Start(w) \/ WorkerStep(w)
  PROVE  Stranded' \subseteq Stranded /\ crashes' = crashes
<1> USE DEF IInv, TypeOK, HoldsJob, OwnedIsClaimed, OutcomeMatchesScan, Stranded, Owns, Goto,
           dbVars, history, WorkerPc
<1>1. CASE Start(w)
  BY <1>1 DEF Start
<1>2. CASE Wake(w)
  BY <1>2 DEF Wake
<1>3. CASE ClaimRead(w)
  BY <1>3 DEF ClaimRead
<1>4. CASE ClaimNothing(w)
  BY <1>4 DEF ClaimNothing, AfterDrain
<1>5. CASE ClaimUpdate(w)
  BY <1>5 DEF ClaimUpdate
<1>6. CASE ClaimLost(w)
  BY <1>6 DEF ClaimLost, Forget, AfterDrain
<1>7. CASE Refresh(w)
  BY <1>7 DEF Refresh
<1>8. CASE RefreshGone(w)
  BY <1>8 DEF RefreshGone, Die, Forget
<1>9. CASE Begin(w)
  BY <1>9 DEF Begin
<1>10. CASE BeginRaises(w)
  BY <1>10 DEF BeginRaises, Conclude
<1>11. CASE ScanStarts(w)
  BY <1>11 DEF ScanStarts, WriteScanRun
<1>12. CASE ScanFails(w)
  BY <1>12 DEF ScanFails, Conclude, WriteScanRun
<1>13. CASE ScanSucceeds(w)
  BY <1>13 DEF ScanSucceeds, WriteScanRun
<1>14. CASE PipelineReturns(w)
  BY <1>14 DEF PipelineReturns, Conclude
<1>15. CASE PipelineRaises(w)
  BY <1>15 DEF PipelineRaises, Conclude
<1>16. CASE ReportReturns(w)
  BY <1>16 DEF ReportReturns, Conclude
<1>17. CASE ReportRaises(w)
  BY <1>17 DEF ReportRaises, Conclude
<1>18. CASE SaveJob(w)
  BY <1>18 DEF SaveJob, Forget
<1>19. CASE SaveGone(w)
  BY <1>19 DEF SaveGone, Die, Forget
<1> QED
  BY <1>1, <1>2, <1>3, <1>4, <1>5, <1>6, <1>7, <1>8, <1>9, <1>10,
     <1>11, <1>12, <1>13, <1>14, <1>15, <1>16, <1>17, <1>18, <1>19 DEF WorkerStep

\* Of the steps of the queue only a crash strands a row: the one its worker held.
LEMMA StrandedStep ==
  ASSUME IInv, [Next]_vars
  PROVE  \/ Stranded' \subseteq Stranded /\ crashes' = crashes
         \/ /\ crashes' = crashes + 1
            /\ \E j \in Jobs \cup {NoJob} : Stranded' \subseteq Stranded \cup {j}
<1>1. CASE EnqueueScan \/ AdminAddsJob
  BY <1>1 DEF EnqueueScan, AdminAddsJob, CreateJob, IInv, TypeOK, Stranded, Owns,
     workerVars, history
<1>2. ASSUME NEW a \in Accounts, DeleteAccount(a)
      PROVE  Stranded' \subseteq Stranded /\ crashes' = crashes
  BY <1>2 DEF DeleteAccount, IInv, TypeOK, Stranded, Owns, workerVars, history
<1>3. ASSUME NEW w \in Workers, Start(w) \/ WorkerStep(w)
      PROVE  Stranded' \subseteq Stranded /\ crashes' = crashes
  BY <1>3, WorkerStrandsNone
<1>4. ASSUME NEW w \in Workers, Crash(w)
      PROVE  crashes' = crashes + 1 /\ Stranded' \subseteq Stranded \cup {held[w]}
  BY <1>4 DEF Crash, Die, Forget, IInv, TypeOK, Stranded, Owns, dbVars
<1>5. CASE UNCHANGED vars
  BY <1>5 DEF vars, dbVars, workerVars, history, Stranded, Owns
<1>6. \A w \in Workers : held[w] \in Jobs \cup {NoJob}
  BY DEF IInv, TypeOK
<1> QED
  BY <1>1, <1>2, <1>3, <1>4, <1>5, <1>6 DEF Next

LEMMA StrandedFinite ==
  /\ IsFiniteSet(Stranded) /\ Cardinality(Stranded) \in Nat
<1>1. IsFiniteSet(Jobs)
  BY QueueAssumption, FS_Interval DEF Jobs
<1>2. Stranded \in SUBSET Jobs
  BY DEF Stranded
<1> QED
  BY <1>1, <1>2, FS_Subset, FS_CardinalityType

\* A row stays RUNNING with no worker on it only by a crash, one row a crash: neither a job that
\* raises nor a worker that ends on a deleted row strands any (services.py:250-256).
THEOREM OnlyCrashesStrand == Spec => []StrandedOnlyByCrash
<1>1. Init => StrandedOnlyByCrash
  <2>1. Init => Stranded = {} /\ crashes = 0
    BY DEF Init, Stranded
  <2> QED
    BY <2>1, FS_EmptySet DEF StrandedOnlyByCrash
<1>2. StrandedOnlyByCrash /\ IInv /\ [Next]_vars => StrandedOnlyByCrash'
  <2> SUFFICES ASSUME StrandedOnlyByCrash, IInv, [Next]_vars PROVE StrandedOnlyByCrash'
    OBVIOUS
  <2>1. /\ IsFiniteSet(Stranded) /\ Cardinality(Stranded) \in Nat /\ crashes \in Nat
        /\ Cardinality(Stranded) <= crashes
    BY StrandedFinite, QueueAssumption DEF StrandedOnlyByCrash, IInv, TypeOK
  <2>2. Cardinality(Stranded') \in Nat
    <3>1. Stranded' \in SUBSET Jobs /\ IsFiniteSet(Jobs)
      BY QueueAssumption, FS_Interval DEF Jobs, Stranded
    <3> QED
      BY <3>1, FS_Subset, FS_CardinalityType
  <2>3. CASE Stranded' \subseteq Stranded /\ crashes' = crashes
    <3>1. Cardinality(Stranded') <= Cardinality(Stranded)
      BY <2>1, <2>3, FS_Subset
    <3> QED
      BY <2>1, <2>2, <2>3, <3>1 DEF StrandedOnlyByCrash
  <2>4. ASSUME NEW j \in Jobs \cup {NoJob}, crashes' = crashes + 1,
               Stranded' \subseteq Stranded \cup {j}
        PROVE  StrandedOnlyByCrash'
    <3>1. /\ IsFiniteSet(Stranded \cup {j})
          /\ Cardinality(Stranded \cup {j}) \in {Cardinality(Stranded), Cardinality(Stranded) + 1}
      BY <2>1, FS_AddElement
    <3>2. Cardinality(Stranded') <= Cardinality(Stranded \cup {j})
      BY <2>4, <3>1, FS_Subset
    <3> QED
      BY <2>1, <2>2, <2>4, <3>1, <3>2 DEF StrandedOnlyByCrash
  <2> QED
    BY <2>3, <2>4, StrandedStep
<1> QED
  BY <1>1, <1>2, Invariance, PTL DEF Spec

-----------------------------------------------------------------------------
(* What a pass found queued *)

\* A pass found rows that exist.
SeenExists == \A j \in seen : status[j] # "none"

\* No step of the claim leaves a job behind: the last worker to leave found nothing
\* queued, lost its claim to a worker that goes on, or ended for one of the reasons that
\* forget what was seen.
LEMMA ClaimCarriesOn ==
  ASSUME IInv, SeenExists, NothingSeenIsLeft, NEW w \in Workers, ClaimStep(w)
  PROVE  SeenExists' /\ NothingSeenIsLeft'
<1> USE DEF IInv, TypeOK, HoldsJob, SeenExists, NothingSeenIsLeft, CarriesOn, Owns, Queued,
           Goto, dbVars, history, WorkerPc
<1>1. CASE Start(w)
  BY <1>1 DEF Start
<1>2. CASE Wake(w)
  BY <1>2 DEF Wake
<1>3. CASE ClaimRead(w)
  <2>1. pc'[w] = "update" /\ status'[held'[w]] = "queued"
    BY <1>3 DEF ClaimRead
  <2> QED
    BY <1>3, <2>1 DEF ClaimRead
<1>4. CASE ClaimNothing(w)
  BY <1>4 DEF ClaimNothing
<1>5. CASE ClaimUpdate(w)
  <2>1. pc'[w] = "refresh"
    BY <1>5 DEF ClaimUpdate
  <2> QED
    BY <1>5, <2>1 DEF ClaimUpdate
<1>6. CASE ClaimLost(w)
  BY <1>6 DEF ClaimLost, Forget, AfterDrain
<1>7. CASE Refresh(w)
  BY <1>7 DEF Refresh
<1>8. CASE RefreshGone(w)
  BY <1>8 DEF RefreshGone, Die
<1>9. CASE Crash(w)
  BY <1>9 DEF Crash, Die
<1> QED
  BY <1>1, <1>2, <1>3, <1>4, <1>5, <1>6, <1>7, <1>8, <1>9 DEF ClaimStep

\* A worker that processes a job returns to the queue, or dies of a row that has gone.
LEMMA ProcessCarriesOn ==
  ASSUME IInv, SeenExists, NothingSeenIsLeft, NEW w \in Workers, ProcessStep(w)
  PROVE  SeenExists' /\ NothingSeenIsLeft'
<1> USE DEF IInv, TypeOK, SeenExists, NothingSeenIsLeft, CarriesOn, Owns, Queued, Goto, dbVars,
           history
<1>1. CASE SaveGone(w)
  BY <1>1 DEF SaveGone, Die
<1>2. CASE SaveJob(w)
  <2>1. pc'[w] = "claim"
    BY <1>2 DEF SaveJob
  <2>2. held[w] \in Jobs /\ outcome[w].status \in {"done", "failed"}
    BY <1>2 DEF SaveJob, HoldsJob, OutcomeMatchesScan
  <2>3. SeenExists'
    BY <1>2, <2>2 DEF SaveJob
  <2> QED
    BY <2>1, <2>3
<1>3. CASE \/ Begin(w) \/ BeginRaises(w) \/ ScanStarts(w) \/ ScanFails(w) \/ ScanSucceeds(w)
           \/ PipelineReturns(w) \/ PipelineRaises(w) \/ ReportReturns(w) \/ ReportRaises(w)
  <2>1. Owns(w)'
    BY <1>3 DEF Begin, BeginRaises, ScanStarts, ScanFails, ScanSucceeds, PipelineReturns,
       PipelineRaises, ReportReturns, ReportRaises, Conclude
  <2>2. UNCHANGED <<status, seen>>
    BY <1>3 DEF Begin, BeginRaises, ScanStarts, ScanFails, ScanSucceeds, PipelineReturns,
       PipelineRaises, ReportReturns, ReportRaises, Conclude, WriteScanRun
  <2> QED
    BY <2>1, <2>2
<1> QED
  BY <1>1, <1>2, <1>3 DEF ProcessStep

\* What a pass found queued is not left behind by a worker that lost a claim, whatever
\* the number of workers and jobs; only deaths and deleted rows cut a drain short
\* (services.py:216-232, run_worker.py).
THEOREM DrainGoesOn == Spec => []NothingSeenIsLeft
<1> DEFINE Inv == SeenExists /\ NothingSeenIsLeft
<1>1. Init => Inv
  BY DEF Init, SeenExists, NothingSeenIsLeft
<1>2. Inv /\ IInv /\ [Next]_vars => Inv'
  <2> SUFFICES ASSUME Inv, IInv, [Next]_vars PROVE Inv'
    OBVIOUS
  <2>1. ASSUME NEW k, NEW a, CreateJob(k, a) PROVE Inv'
    BY <2>1 DEF CreateJob, SeenExists, NothingSeenIsLeft, CarriesOn, Owns, Queued, IInv, TypeOK,
       HoldsJob, workerVars, history
  <2>2. ASSUME NEW a \in Accounts, DeleteAccount(a) PROVE Inv'
    BY <2>2 DEF DeleteAccount, SeenExists, NothingSeenIsLeft, CarriesOn, Owns, Queued, IInv,
       TypeOK, HoldsJob, workerVars, history
  <2>3. CASE UNCHANGED vars
    BY <2>3 DEF SeenExists, NothingSeenIsLeft, CarriesOn, Owns, Queued, vars, dbVars, workerVars,
       history
  <2>4. CASE Next
    BY <2>1, <2>2, <2>4, ClaimCarriesOn, ProcessCarriesOn
    DEF Next, WorkerStep, ClaimStep, ProcessStep, EnqueueScan, AdminAddsJob
  <2> QED
    BY <2>3, <2>4
<1>3. Inv => NothingSeenIsLeft
  OBVIOUS
<1> QED
  BY <1>1, <1>2, <1>3, Invariance, PTL DEF Spec

-----------------------------------------------------------------------------
(* The queue implements JobLifecycle *)

\* Only five actions touch what the lifecycle sees.
LEMMA HiddenStep ==
  \A w \in Workers :
    \/ Start(w) \/ Wake(w) \/ ClaimRead(w) \/ ClaimNothing(w) \/ ClaimLost(w)
    \/ Refresh(w) \/ RefreshGone(w) \/ Crash(w) \/ BeginRaises(w) \/ ScanStarts(w)
    \/ ScanFails(w) \/ ScanSucceeds(w) \/ PipelineReturns(w) \/ PipelineRaises(w)
    \/ ReportReturns(w) \/ ReportRaises(w) \/ SaveGone(w)
    => UNCHANGED <<status, claimed, execs>>
BY DEF Start, Wake, ClaimRead, ClaimNothing, ClaimLost, Refresh, RefreshGone, Crash,
       BeginRaises, ScanStarts, ScanFails, ScanSucceeds, PipelineReturns,
       PipelineRaises, ReportReturns, ReportRaises, SaveGone, Conclude, WriteScanRun,
       dbVars, history

\* Each step of the queue is a step of the lifecycle, or leaves it alone.
LEMMA StepRefines ==
  IInv /\ [Next]_vars => [Lifecycle!LifecycleNext]_(Lifecycle!lifecycleVars)
<1> SUFFICES ASSUME IInv, [Next]_vars
             PROVE  [Lifecycle!LifecycleNext]_(Lifecycle!lifecycleVars)
  OBVIOUS
<1> USE QueueAssumption DEF Lifecycle!lifecycleVars
<1>1. ASSUME NEW k, NEW a, CreateJob(k, a)
      PROVE  Lifecycle!LifecycleNext
  <2>1. \E j \in Jobs : Lifecycle!Submit(j)
    BY <1>1 DEF CreateJob, history, Lifecycle!Submit
  <2>2. QED BY <2>1 DEF Lifecycle!LifecycleNext
<1>2. ASSUME NEW a \in Accounts, DeleteAccount(a)
      PROVE  Lifecycle!LifecycleNext
  <2>1. \A j \in {i \in Jobs : account[i] = a} : status[j] # "none"
    BY DEF IInv, UnsubmittedBlank
  <2>2. Lifecycle!Remove({i \in Jobs : account[i] = a})
    BY <1>2, <2>1 DEF DeleteAccount, history, Lifecycle!Remove
  <2>3. QED BY <2>2 DEF Lifecycle!LifecycleNext
<1>3. ASSUME NEW w \in Workers, ClaimUpdate(w)
      PROVE  Lifecycle!LifecycleNext
  <2>1. held[w] \in Jobs
    BY <1>3 DEF ClaimUpdate, Goto, IInv, HoldsJob
  <2>2. Lifecycle!Claim(held[w])
    BY <1>3 DEF ClaimUpdate, Lifecycle!Claim
  <2>3. QED BY <2>1, <2>2 DEF Lifecycle!LifecycleNext
<1>4. ASSUME NEW w \in Workers, Begin(w)
      PROVE  Lifecycle!LifecycleNext
  <2>1. pc[w] = "process"
    BY <1>4 DEF Begin, Goto
  <2>2. /\ held[w] \in Jobs
        /\ held[w] \in claimed
        /\ status[held[w]] \in {"running", "deleted"}
        /\ execs[held[w]] = 0
    BY <2>1 DEF IInv, HoldsJob, OwnedIsClaimed, ExecutedOnce, Owns
  <2>3. {j \in Jobs : execs'[j] > 0} = {j \in Jobs : execs[j] > 0} \cup {held[w]}
    <3>1. execs' = [execs EXCEPT ![held[w]] = 1]
      BY <1>4, <2>2 DEF Begin
    <3>2. QED BY <3>1, <2>2 DEF IInv, TypeOK
  <2>4. UNCHANGED <<status, claimed>>
    BY <1>4 DEF Begin, dbVars
  <2>5. PICK j \in Jobs : j = held[w]
    BY <2>2
  <2>6. Lifecycle!Execute(j)
    BY <2>2, <2>3, <2>4, <2>5 DEF Lifecycle!Execute
  <2>7. QED BY <2>6 DEF Lifecycle!LifecycleNext
<1>5. ASSUME NEW w \in Workers, SaveJob(w)
      PROVE  Lifecycle!LifecycleNext
  <2>1. pc[w] = "save" /\ status[held[w]] # "deleted"
    BY <1>5 DEF SaveJob, Goto
  <2>2. /\ held[w] \in Jobs
        /\ status[held[w]] = "running"
        /\ outcome[w].status \in {"done", "failed"}
        /\ outcome[w].status = "done" => held[w] \in {j \in Jobs : execs[j] > 0}
    BY <2>1 DEF IInv, HoldsJob, OwnedIsClaimed, ExecutedOnce, OutcomeMatchesScan, Owns
  <2>3. /\ status' = [status EXCEPT ![held[w]] = outcome[w].status]
        /\ UNCHANGED <<claimed, execs>>
    BY <1>5 DEF SaveJob, history
  <2>4. CASE outcome[w].status = "done"
    <3>1. Lifecycle!Finish(held[w])
      BY <2>2, <2>3, <2>4 DEF Lifecycle!Finish
    <3>2. QED BY <3>1, <2>2 DEF Lifecycle!LifecycleNext
  <2>5. CASE outcome[w].status = "failed"
    <3>1. Lifecycle!Finish(held[w])
      BY <2>2, <2>3, <2>5 DEF Lifecycle!Finish
    <3>2. QED BY <3>1, <2>2 DEF Lifecycle!LifecycleNext
  <2>6. QED BY <2>2, <2>4, <2>5
<1>6. ASSUME UNCHANGED <<status, claimed, execs>>
      PROVE  UNCHANGED Lifecycle!lifecycleVars
  BY <1>6
<1>7. CASE Next
  BY <1>1, <1>2, <1>3, <1>4, <1>5, <1>6, <1>7, HiddenStep
  DEF Next, WorkerStep, EnqueueScan, AdminAddsJob
<1>8. CASE UNCHANGED vars
  BY <1>6, <1>8 DEF vars, dbVars, history
<1>9. QED BY <1>7, <1>8

\* The queue implements what it promises, whatever the workers, the crashes and the
\* deletions.
THEOREM QueueImplementsLifecycle == Spec => ImplementsLifecycle
<1>1. Init => Lifecycle!LifecycleInit
  BY DEF Init, Lifecycle!LifecycleInit
<1>2. QED
  BY <1>1, StepRefines, Invariance, PTL DEF Spec, ImplementsLifecycle, Lifecycle!LifecycleSpec
=============================================================================
