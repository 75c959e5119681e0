---------------------------- MODULE JobLifecycle ----------------------------
(***************************************************************************)
(* What the background job queue promises its users, with no worker in      *)
(* sight: a job is queued, claimed once, executed at most once, and ends    *)
(* DONE only after it was executed; its row may disappear with its account  *)
(* at any moment, and then never comes back.  JobQueue implements this      *)
(* specification (JobQueue!Lifecycle).                                      *)
(***************************************************************************)
CONSTANT Jobs

VARIABLES
  state,      \* the status of each job's row, "none" before and "deleted" after its life
  claimed,    \* the jobs claimed so far
  executed    \* the jobs whose work has begun at some time

lifecycleVars == <<state, claimed, executed>>

LifecycleInit ==
  /\ state = [j \in Jobs |-> "none"]
  /\ claimed = {}
  /\ executed = {}

Submit(j) ==
  /\ state[j] = "none"
  /\ state' = [state EXCEPT ![j] = "queued"]
  /\ UNCHANGED <<claimed, executed>>

Claim(j) ==
  /\ state[j] = "queued"
  /\ state' = [state EXCEPT ![j] = "running"]
  /\ claimed' = claimed \cup {j}
  /\ UNCHANGED executed

\* A claimed job's work begins before the row is finished, and only the first time.  The
\* row of a job that needs no account may go just before.
Execute(j) ==
  /\ j \in claimed \ executed
  /\ state[j] \in {"running", "deleted"}
  /\ executed' = executed \cup {j}
  /\ UNCHANGED <<state, claimed>>

Finish(j) ==
  /\ state[j] = "running"
  /\ \/ j \in executed /\ state' = [state EXCEPT ![j] = "done"]
     \/ state' = [state EXCEPT ![j] = "failed"]
  /\ UNCHANGED <<claimed, executed>>

\* Deleting an account deletes all of its jobs at once.
Remove(S) ==
  /\ \A j \in S : state[j] # "none"
  /\ state' = [j \in Jobs |-> IF j \in S THEN "deleted" ELSE state[j]]
  /\ UNCHANGED <<claimed, executed>>

LifecycleNext ==
  \/ \E j \in Jobs : Submit(j) \/ Claim(j) \/ Execute(j) \/ Finish(j)
  \/ \E S \in SUBSET Jobs : Remove(S)

LifecycleSpec == LifecycleInit /\ [][LifecycleNext]_lifecycleVars
=============================================================================
