------------------------------ MODULE JobQueue ------------------------------
(***************************************************************************)
(* The life of a job in a Bull queue, as the queues of this program are    *)
(* set up: a job has an id, a number of attempts and a back-off; when its  *)
(* worker dies, it is found stalled and started again.  The back-off and   *)
(* the places of the jobs in the queue are left out: every waiting job may *)
(* be next.  The modules of the processors take these operators as the     *)
(* queue's part of their own steps.                                        *)
(***************************************************************************)
EXTENDS Naturals

CONSTANTS Job,          \* ids of jobs
          MaxAttempts,  \* attempts a job is given
          MaxStalls     \* restarts of a job whose worker died

VARIABLES job,      \* what Bull knows of each job; "none" is no such job
          attempts, \* attempts of it that failed
          stalls    \* attempts of it whose worker died

JobState == {"none", "waiting", "active", "completed", "failed"}
Ended == {"completed", "failed"}

QueueType ==
    /\ job \in [Job -> JobState]
    /\ attempts \in [Job -> 0..MaxAttempts]
    /\ stalls \in [Job -> 0..MaxStalls + 1]

QueueInit ==
    /\ job = [j \in Job |-> "none"]
    /\ attempts = [j \in Job |-> 0]
    /\ stalls = [j \in Job |-> 0]

\* A job with an id the queue already has is not added.
Add(j) ==
    /\ job' = IF job[j] = "none" THEN [job EXCEPT ![j] = "waiting"] ELSE job
    /\ UNCHANGED <<attempts, stalls>>

Take(j) ==
    /\ job[j] = "waiting"
    /\ job' = [job EXCEPT ![j] = "active"]
    /\ UNCHANGED <<attempts, stalls>>

\* The processor returned.
Complete(j) ==
    /\ job' = [job EXCEPT ![j] = "completed"]
    /\ UNCHANGED <<attempts, stalls>>

\* Mutant: one attempt too many.
AttemptFailsOnceMore(j) ==
    /\ attempts' = [attempts EXCEPT ![j] = @ + 1]
    /\ job' = [job EXCEPT ![j] = IF attempts[j] < MaxAttempts
                                 THEN "waiting" ELSE "failed"]
    /\ UNCHANGED stalls

\* The processor threw.
AttemptFails(j) ==
    /\ attempts' = [attempts EXCEPT ![j] = @ + 1]
    /\ job' = [job EXCEPT ![j] = IF attempts[j] + 1 < MaxAttempts
                                 THEN "waiting" ELSE "failed"]
    /\ UNCHANGED stalls

\* The worker died.
Stall(j) ==
    /\ stalls' = [stalls EXCEPT ![j] = @ + 1]
    /\ job' = [job EXCEPT ![j] = IF stalls[j] < MaxStalls THEN "waiting" ELSE "failed"]
    /\ UNCHANGED attempts

\* Only the newest ended jobs are kept.
Forget(j) ==
    /\ job[j] \in Ended
    /\ job' = [job EXCEPT ![j] = "none"]
    /\ attempts' = [attempts EXCEPT ![j] = 0]
    /\ stalls' = [stalls EXCEPT ![j] = 0]
=============================================================================
