------------------------- MODULE GlobalLifecycle -------------------------
(***************************************************************************)
(* What the orchestrator promises about a job to whoever polls             *)
(* GET /jobs/{id}, with the workers' local jobs as JobLifecycle has them:  *)
(* the states of the job in their order, how many dispatches may fail, and *)
(* that what a client reads is the outcome of the one local job that the   *)
(* job is linked to.  GlobalJobs implements this module.                   *)
(***************************************************************************)
EXTENDS Naturals

CONSTANTS
    Jobs,       \* the ids of the jobs
    LocalIds,   \* the ids of local jobs
    NoLocal,    \* the link of a job that is not dispatched
    MaxRetries  \* settings.queue.max_retries

VARIABLES
    state,      \* the state of a job, "NONE" before it is accepted
    retries,    \* how many of its dispatches have failed
    link,       \* the local job that a dispatched job stands for
    local       \* the states of the local jobs

jobVars == <<state, retries, link>>
lifecycleVars == <<jobVars, local>>

Local == INSTANCE JobLifecycle WITH
    Jobs <- LocalIds, MaxStarts <- 1, Reopens <- FALSE,
    state <- local, starts <- [l \in LocalIds |-> 0]

Set(j, s) == state' = [state EXCEPT ![j] = s]
Unlink(j) == link' = [link EXCEPT ![j] = NoLocal]

Waits(j) == state[j] \in {"QUEUED", "RETRYING"}
Accept(j) == state[j] = "NONE" /\ Set(j, "QUEUED") /\ UNCHANGED <<retries, link>>

(* No worker has capacity, or one has. *)
Wait(j) == Waits(j) /\ Set(j, "RETRYING") /\ UNCHANGED <<retries, link>>
Assign(j) == Waits(j) /\ Set(j, "ASSIGNED") /\ UNCHANGED <<retries, link>>

(* A worker has created a local job for it, and for no other job. *)
Link(j) ==
    /\ state[j] = "ASSIGNED" /\ Set(j, "PROCESSING")
    /\ \E l \in LocalIds :
        /\ local[l] # "NONE" /\ \A i \in Jobs : link[i] # l
        /\ link' = [link EXCEPT ![j] = l]

Dispatch(j) == Link(j) /\ UNCHANGED retries

(* A dispatch fails, also after its local job was created: what follows   *)
(* the worker's answer is part of it.                                     *)
FailDispatch(j) ==
    /\ state[j] \in {"ASSIGNED", "PROCESSING"} /\ retries[j] <= MaxRetries
    /\ retries' = [retries EXCEPT ![j] = @ + 1]
    /\ Link(j) \/ UNCHANGED <<state, link>>

FailedDispatch(j) == state[j] \in {"ASSIGNED", "PROCESSING"} /\ retries[j] > 0 /\ UNCHANGED retries
Retry(j) == FailedDispatch(j) /\ retries[j] <= MaxRetries /\ Set(j, "RETRYING") /\ Unlink(j)
GiveUp(j) == FailedDispatch(j) /\ retries[j] > MaxRetries /\ Set(j, "FAILED") /\ Unlink(j)

(* The outcome of the local job, or TIMEOUT by the age of the job. *)
Ends(j, s) == state[j] = "PROCESSING" /\ Set(j, s) /\ UNCHANGED retries
Complete(j) == Ends(j, "COMPLETED") /\ local[link[j]] = "COMPLETED" /\ UNCHANGED link
Fail(j) == Ends(j, "FAILED") /\ local[link[j]] = "FAILED" /\ Unlink(j)
TimeOut(j) == Ends(j, "TIMEOUT") /\ UNCHANGED link

Init ==
    /\ state = [j \in Jobs |-> "NONE"] /\ retries = [j \in Jobs |-> 0]
    /\ link = [j \in Jobs |-> NoLocal]
    /\ local = [l \in LocalIds |-> "NONE"]

JobStep(j) ==
    \/ Accept(j) \/ Wait(j) \/ Assign(j) \/ Dispatch(j) \/ FailDispatch(j)
    \/ Retry(j) \/ GiveUp(j) \/ Complete(j) \/ Fail(j) \/ TimeOut(j)

Next ==
    \/ \E j \in Jobs : JobStep(j) /\ UNCHANGED local
    \/ \E l \in LocalIds : Local!Step(l) /\ UNCHANGED jobVars

Spec == Init /\ [][Next]_lifecycleVars
===========================================================================
