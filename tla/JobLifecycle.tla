-------------------------- MODULE JobLifecycle --------------------------
(***************************************************************************)
(* What a worker promises about a local job to whoever polls               *)
(* GET /jobs/{id}, as the orchestrator does: the states that the record in *)
(* Redis goes through, and how often the job is really executed.           *)
(* LocalJobs implements this module; GlobalJobs relies on it.              *)
(***************************************************************************)
EXTENDS Naturals

CONSTANTS
    Jobs,       \* ids of local jobs
    MaxStarts,  \* bound on the executions of one job
    Reopens     \* TRUE if a COMPLETED job may be run again

VARIABLES
    state,      \* the state that Redis shows, "NONE" while there is no record
    starts      \* how many times the executor was started

lifecycleVars == <<state, starts>>

Set(j, s) == state' = [state EXCEPT ![j] = s]

Create(j) == state[j] = "NONE" /\ Set(j, "QUEUED") /\ UNCHANGED starts

Waits(j) == state[j] \in {"QUEUED", "RETRYING"}

(* No account is eligible: the job goes to the delayed set. *)
Wait(j) == Waits(j) /\ Set(j, "RETRYING") /\ UNCHANGED starts

Assign(j) == Waits(j) /\ Set(j, "ASSIGNED") /\ UNCHANGED starts

Start(j) ==
    /\ state[j] = "ASSIGNED"
    /\ starts[j] < MaxStarts
    /\ Set(j, "PROCESSING")
    /\ starts' = [starts EXCEPT ![j] = @ + 1]

(* The record says PROCESSING but the coroutine that wrote it is gone. *)
Strand(j) == state[j] = "ASSIGNED" /\ Set(j, "PROCESSING") /\ UNCHANGED starts

Complete(j) == state[j] = "PROCESSING" /\ Set(j, "COMPLETED") /\ UNCHANGED starts

Fails(j) == state[j] \in {"ASSIGNED", "PROCESSING"}

Retry(j) ==
    /\ Fails(j) \/ (Reopens /\ state[j] = "COMPLETED")
    /\ Set(j, "RETRYING")
    /\ UNCHANGED starts

Fail(j) ==
    /\ Fails(j) \/ (Reopens /\ state[j] = "COMPLETED")
    /\ Set(j, "FAILED")
    /\ UNCHANGED starts

Init == state = [j \in Jobs |-> "NONE"] /\ starts = [j \in Jobs |-> 0]

Step(j) ==
    \/ Create(j) \/ Wait(j) \/ Assign(j) \/ Start(j) \/ Strand(j)
    \/ Complete(j) \/ Retry(j) \/ Fail(j)

Next == \E j \in Jobs : Step(j)

Spec == Init /\ [][Next]_lifecycleVars
==========================================================================
