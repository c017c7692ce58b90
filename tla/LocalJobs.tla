---------------------------- MODULE LocalJobs ----------------------------
(***************************************************************************)
(* The job machinery of one VPS worker: worker/queue/manager.py (the Redis *)
(* queue), worker/queue/scheduler.py (the scheduling loop and one          *)
(* coroutine per job) and the part of worker/accounts/manager.py that      *)
(* counts the jobs of an account.                                          *)
(*                                                                         *)
(* All coroutines of the worker share one event loop, so a step below is   *)
(* what runs between two suspensions: at most one Redis command and the    *)
(* code that follows its reply.  A crash, a cancellation or a failed Redis *)
(* command can strike between any two steps.                               *)
(***************************************************************************)
EXTENDS Integers, Sequences, FiniteSets, SequencesExt

CONSTANTS
    Jobs,           \* the ids of the jobs that clients may submit
    Accounts,       \* the Google accounts of this VPS
    NoJob,          \* what the scheduling loop holds between two jobs
    NoAccount,      \* account_id of a job that was never assigned
    MaxConcurrent,  \* settings.max_concurrent_jobs of every account
    MaxRetries,     \* max_retries of every job
    RetryAtOnce,    \* TRUE when retry_delay_seconds is 0
    ReleaseBatch,   \* how many delayed jobs one release may move (num=100)
    HealthPolled,   \* TRUE when /health is polled
    Faults,         \* the kinds of disturbance that may occur
    MaxFaults       \* bound: how many of them occur in a behaviour

ASSUME JobsAssumption == IsFiniteSet(Jobs) /\ NoJob \notin Jobs
ASSUME AccountsAssumption == NoAccount \notin Accounts
ASSUME LimitsAssumption ==
    /\ MaxConcurrent \in Nat \ {0}
    /\ MaxRetries \in Nat
    /\ ReleaseBatch \in Nat \ {0}
    /\ MaxFaults \in Nat
ASSUME SwitchesAssumption ==
    /\ RetryAtOnce \in BOOLEAN
    /\ HealthPolled \in BOOLEAN
    /\ Faults \subseteq {"crash", "stop", "redis", "browser", "recovery", "login", "admin"}

VARIABLES
    \* In Redis: they survive a crash of the worker.
    saved,     \* the :jobs hash, the last record written for a job
    ready,     \* the :ready list; LPUSH appends here, RPOP takes the head
    delayed,   \* the :delayed sorted set
    due,       \* the delayed jobs whose time has come
    active,    \* the keys of the :active hash
    jobIds,    \* the :job_ids sorted set, the index that listings read
    \* In the memory of the worker process.
    enq,       \* how far the POST /jobs handler of a job has come
    loop,      \* where the scheduling loop is suspended
    held,      \* the job the loop has popped and not yet passed on
    task,      \* where the _run_job coroutine of a job is suspended
    mem,       \* the Job object that the loop or the coroutine works on
    acct,      \* the account selected for the job
    stale,     \* the ids that a running cleanup_active is about to delete
    \* Per account: status and jobs_running are AccountManager's, the rest its world.
    status, running,
    up,        \* Chrome runs (_browser_is_running)
    open,      \* enabled and not in cooldown
    \* Auxiliary.
    aged,      \* jobs created more than job_timeout_seconds ago
    attempts,  \* how many times the executor was started for a job
    faults     \* disturbances so far: how many, and the jobs they may have lost

redisVars == <<saved, ready, delayed, due, active, jobIds>>
jobVars == <<enq, loop, held, task, mem, acct, attempts>>
accountVars == <<status, running, up, open>>
vars == <<redisVars, jobVars, accountVars, stale, aged, faults>>

(* TIMEOUT and FAILED differ only in their name and are one state here; a *)
(* job without a record in Redis is in state NONE.                        *)
States == {"NONE", "QUEUED", "ASSIGNED", "PROCESSING", "RETRYING", "COMPLETED", "FAILED"}
Statuses == {"READY", "BUSY", "STOPPED", "TOKEN_EXPIRED", "BROKEN_SESSION"}
Records == [state : States, retries : Nat]
NoRecord == [state |-> "NONE", retries |-> 0]
NewRecord == [state |-> "QUEUED", retries |-> 0]
Disturbances == [count : Nat, victims : SUBSET Jobs]

(* The points at which the loop and a _run_job coroutine are suspended.  *)
(* Those of TaskWrites and LoopWrites await a Redis write on the job;    *)
(* "clear..." belongs to remove_active after a success, "drop..." to the *)
(* remove_active of a failure handler.                                   *)
LoopWrites == {"assign", "assignSave", "wait", "delay"}
LoopPoints == LoopWrites \cup {"top", "pop", "fetch", "stopped"}
TaskWrites == {"activate", "activateSave", "clear", "clearSave", "dropRetry",
               "dropRetrySave", "retrying", "requeue", "dropFinal", "dropFinalSave"}
TaskPoints == TaskWrites \cup {"none", "spawned", "starting", "connecting",
                               "running", "recovering"}

Live(j) == task[j] # "none"

-----------------------------------------------------------------------------
(* QueueManager, one operator per Redis command. *)

HSetActive(j) ==
    /\ active' = active \cup {j}
    /\ UNCHANGED <<saved, ready, delayed, due, jobIds>>

HDelActive(S) ==
    /\ active' = active \ S
    /\ UNCHANGED <<saved, ready, delayed, due, jobIds>>

SaveJob(j, record) ==
    /\ saved' = [saved EXCEPT ![j] = record]
    /\ UNCHANGED <<ready, delayed, due, active, jobIds>>

PushReady(j) ==
    /\ ready' = Append(ready, j)
    /\ UNCHANGED <<saved, delayed, due, active, jobIds>>

AddDelayed(j) ==
    /\ delayed' = delayed \cup {j}
    /\ due' = due \ {j}
    /\ UNCHANGED <<saved, ready, active, jobIds>>

IndexJob(j) ==
    /\ jobIds' = jobIds \cup {j}
    /\ UNCHANGED <<saved, ready, delayed, due, active>>

PopReady ==
    /\ ready # <<>>
    /\ ready' = Tail(ready)
    /\ UNCHANGED <<saved, delayed, due, active, jobIds>>

(* Mutant of ReleaseDue: the ids are pushed but not removed (no ZREM). *)
ReleaseDueWithoutRemoval ==
    /\ due # {} /\ Cardinality(due) <= ReleaseBatch
    /\ \E order \in SetToSeqs(due) : ready' = ready \o order
    /\ UNCHANGED <<saved, delayed, due, active, jobIds>>

(* release_due_delayed: one MULTI that moves a batch of due jobs. *)
ReleaseDue ==
    /\ \E batch \in SUBSET due :
        /\ batch # {}
        /\ batch = due \/ Cardinality(batch) = ReleaseBatch
        /\ Cardinality(batch) <= ReleaseBatch
        /\ \E order \in SetToSeqs(batch) : ready' = ready \o order
        /\ delayed' = delayed \ batch
        /\ due' = due \ batch
    /\ UNCHANGED <<saved, active, jobIds>>

(* The write that a coroutine suspended at point p awaits.               *)
Command(p, j) ==
    \/ p \in {"assign", "activate"} /\ HSetActive(j)
    \/ p \in {"clear", "dropRetry", "dropFinal"} /\ HDelActive({j})
    \/ /\ p \in {"assignSave", "wait", "activateSave", "clearSave",
                 "dropRetrySave", "retrying", "dropFinalSave"}
       /\ SaveJob(j, mem[j])
    \/ p = "delay" /\ AddDelayed(j)
    \/ p = "requeue" /\ (IF RetryAtOnce THEN PushReady(j) ELSE AddDelayed(j))

(* A disturbance, and the jobs that it may drop. *)
Fault(kind, hit) ==
    /\ kind \in Faults
    /\ faults.count < MaxFaults
    /\ faults' = [count |-> faults.count + 1, victims |-> faults.victims \cup hit]

-----------------------------------------------------------------------------
(* POST /jobs: QueueManager.enqueue, three commands in a row. *)

EnqueueCommand(j) ==
    \/ enq[j] = "new" /\ SaveJob(j, NewRecord)
    \/ enq[j] = "saved" /\ PushReady(j)
    \/ enq[j] = "pushed" /\ IndexJob(j)

Enqueue(j) ==
    /\ EnqueueCommand(j)
    /\ enq' = [enq EXCEPT ![j] = CASE @ = "new" -> "saved"
                                   [] @ = "saved" -> "pushed"
                                   [] OTHER -> "done"]
    /\ UNCHANGED <<loop, held, task, mem, acct, attempts, accountVars, stale, aged, faults>>

(* A command of enqueue raises, with or without effect: the client gets an error. *)
EnqueueRaises(j) ==
    /\ Fault("redis", {})
    /\ enq[j] \in {"new", "saved", "pushed"}
    /\ EnqueueCommand(j) \/ UNCHANGED redisVars
    /\ enq' = [enq EXCEPT ![j] = IF @ = "pushed" THEN "done" ELSE "failed"]
    /\ UNCHANGED <<loop, held, task, mem, acct, attempts, accountVars, stale, aged>>

-----------------------------------------------------------------------------
(* Scheduler._loop. *)

(* A coroutine just created runs to its first suspension before the loop *)
(* gets the reply to its next command.                                   *)
NoneSpawned == \A j \in Jobs : task[j] # "spawned"

(* pop_ready: one batch of due jobs is released, then RPOP. *)
LoopRelease ==
    /\ loop = "top"
    /\ NoneSpawned
    /\ ReleaseDue \/ (due = {} /\ UNCHANGED redisVars)
    /\ loop' = "pop"
    /\ UNCHANGED <<enq, held, task, mem, acct, attempts, accountVars, stale, aged, faults>>

LoopPop ==
    /\ loop = "pop"
    /\ PopReady
    /\ held' = Head(ready)
    /\ loop' = "fetch"
    /\ UNCHANGED <<enq, task, mem, acct, attempts, accountVars, stale, aged, faults>>

(* Nothing is ready: the loop sleeps and goes round. *)
LoopIdle ==
    /\ loop = "pop"
    /\ ready = <<>>
    /\ loop' = "top"
    /\ UNCHANGED <<redisVars, enq, held, task, mem, acct, attempts, accountVars,
                   stale, aged, faults>>

(* refresh_flowkit_auth_states: an account whose session looked broken is *)
(* READY again when its browser runs and its extension shows a flow key.  *)
Refreshed(reauthorised) ==
    [a \in Accounts |->
        IF a \in reauthorised /\ up[a] /\ status[a] \in {"TOKEN_EXPIRED", "BROKEN_SESSION"}
        THEN "READY" ELSE status[a]]

IsEligible(a, stat) ==
    /\ open[a]
    /\ stat[a] \in {"READY", "BUSY", "STOPPED"}
    /\ running[a] < MaxConcurrent

(* get_job replies, the states are refreshed and an account is selected: *)
(* any eligible one, whatever the scores.                                *)
LoopSelect ==
    /\ loop = "fetch"
    /\ \E reauthorised \in SUBSET Accounts :
        /\ status' = Refreshed(reauthorised)
        /\ \/ \E a \in Accounts :
                /\ IsEligible(a, status')
                /\ acct' = [acct EXCEPT ![held] = a]
                /\ mem' = [mem EXCEPT ![held] = [saved[held] EXCEPT !.state = "ASSIGNED"]]
                /\ loop' = "assign"
           \/ /\ \A a \in Accounts : ~IsEligible(a, status')
              /\ mem' = [mem EXCEPT ![held] = [saved[held] EXCEPT !.state = "RETRYING"]]
              /\ loop' = "wait"
              /\ UNCHANGED acct
    /\ UNCHANGED <<redisVars, enq, held, task, attempts, running, up, open,
                   stale, aged, faults>>

LoopCommand ==
    /\ loop \in LoopWrites
    /\ Command(loop, held)
    /\ loop' = CASE loop = "assign" -> "assignSave"
                 [] loop = "wait" -> "delay"
                 [] OTHER -> "top"
    /\ held' = IF loop' = "top" THEN NoJob ELSE held
    /\ task' = IF loop = "assignSave" THEN [task EXCEPT ![held] = "spawned"] ELSE task
    /\ UNCHANGED <<enq, mem, acct, attempts, accountVars, stale, aged, faults>>

(* The jobs that the loop holds, or pops if its command has an effect. *)
LoopsJobs == {j \in Jobs : j = held \/ (loop = "pop" /\ ready # <<>> /\ j = Head(ready))}

(* What the command that the loop awaits does to Redis if no reply comes. *)
Unanswered ==
    \/ loop = "top" /\ NoneSpawned /\ ReleaseDue
    \/ loop = "pop" /\ PopReady
    \/ loop \in LoopWrites /\ Command(loop, held)
    \/ UNCHANGED redisVars

(* A command of the loop raises, with or without effect.  The handler logs *)
(* the exception and goes round; the popped job is dropped.                *)
LoopRaises ==
    /\ Fault("redis", LoopsJobs)
    /\ loop # "stopped"
    /\ Unanswered
    /\ loop' = "top"
    /\ held' = NoJob
    /\ UNCHANGED <<enq, task, mem, acct, attempts, accountVars, stale, aged>>

LoopStep == LoopRelease \/ LoopPop \/ LoopIdle \/ LoopSelect \/ LoopCommand

-----------------------------------------------------------------------------
(* AccountManager: what a job does to its account. *)

MarkJobStarted(a) ==
    /\ running' = [running EXCEPT ![a] = @ + 1]
    /\ status' = [status EXCEPT ![a] = "BUSY"]

(* Mutants of Released: the slot is not given back, and no lower limit. *)
ReleasedNever(n) == n
ReleasedBelowZero(n) == n - 1

Released(n) == IF n = 0 THEN 0 ELSE n - 1

MarkJobFinished(a, after) ==
    /\ running' = [running EXCEPT ![a] = Released(@)]
    /\ status' = [status EXCEPT ![a] = after]

StatusWhenFinished(a) == IF Released(running[a]) = 0 THEN "READY" ELSE "BUSY"

-----------------------------------------------------------------------------
(* Scheduler._run_job. *)

GoTo(j, point) == task' = [task EXCEPT ![j] = point]

(* Mutant of StartOn: the record is written before its state is changed. *)
StartOnUnchanged(j) ==
    /\ MarkJobStarted(acct[j])
    /\ GoTo(j, "activate")
    /\ UNCHANGED mem

(* mark_job_started, then state PROCESSING, then mark_active is awaited. *)
StartOn(j) ==
    /\ MarkJobStarted(acct[j])
    /\ mem' = [mem EXCEPT ![j].state = "PROCESSING"]
    /\ GoTo(j, "activate")

(* ensure_account_running finds Chrome running, or begins to start it. *)
RunJob(j) ==
    /\ task[j] = "spawned"
    /\ \/ up[acct[j]] /\ StartOn(j)
       \/ ~up[acct[j]] /\ GoTo(j, "starting") /\ UNCHANGED <<mem, running, status>>
    /\ UNCHANGED <<redisVars, enq, loop, held, acct, attempts, up, open, stale, aged, faults>>

(* start_account: from the launch on, the browser counts as running. *)
LaunchBrowser(j) ==
    /\ task[j] = "starting"
    /\ GoTo(j, "connecting")
    /\ up' = [up EXCEPT ![acct[j]] = TRUE]
    /\ UNCHANGED <<redisVars, enq, loop, held, mem, acct, attempts, running, status,
                   open, stale, aged, faults>>

BrowserReady(j) ==
    /\ task[j] = "connecting"
    /\ StartOn(j)
    /\ UNCHANGED <<redisVars, enq, loop, held, acct, attempts, up, open, stale, aged, faults>>

(* _handle_failure up to its first suspension: the retry is counted, the  *)
(* slot is given back and recover_account marks the session broken.       *)
HandleFailure(j) ==
    /\ mem' = [mem EXCEPT ![j].retries = @ + 1]
    /\ MarkJobFinished(acct[j], "BROKEN_SESSION")
    /\ GoTo(j, "recovering")

BrowserFails(j) ==
    /\ Fault("browser", {})
    /\ task[j] \in {"starting", "connecting"}
    /\ HandleFailure(j)
    /\ UNCHANGED <<redisVars, enq, loop, held, acct, attempts, up, open, stale, aged>>

JobSucceeds(j) ==
    /\ task[j] = "running"
    /\ mem' = [mem EXCEPT ![j].state = "COMPLETED"]
    /\ MarkJobFinished(acct[j], StatusWhenFinished(acct[j]))
    /\ GoTo(j, "clear")
    /\ UNCHANGED <<redisVars, enq, loop, held, acct, attempts, up, open, stale, aged, faults>>

(* The executor raises, or job_timeout_seconds have passed. *)
JobFails(j) ==
    /\ task[j] = "running"
    /\ HandleFailure(j)
    /\ UNCHANGED <<redisVars, enq, loop, held, acct, attempts, up, open, stale, aged, faults>>

(* LoginRequiredError: no retry, and the account waits for a sign-in. *)
LoginRequired(j) ==
    /\ Fault("login", {})
    /\ task[j] = "running"
    /\ mem' = [mem EXCEPT ![j].state = "FAILED"]
    /\ MarkJobFinished(acct[j], "TOKEN_EXPIRED")
    /\ GoTo(j, "dropFinal")
    /\ UNCHANGED <<redisVars, enq, loop, held, acct, attempts, up, open, stale, aged>>

(* The executor recovers an account that lost its Playwright context. *)
ExecutorRecovers(j) ==
    /\ task[j] = "running"
    /\ \E s \in {"BROKEN_SESSION", "READY"} : status' = [status EXCEPT ![acct[j]] = s]
    /\ UNCHANGED <<redisVars, jobVars, running, up, open, stale, aged, faults>>

(* Mutant of MayRetry: one retry too many. *)
MayRetryOnceMore(record) == record.retries <= MaxRetries + 1

MayRetry(record) == record.retries <= MaxRetries

(* recover_account returns: a browser runs and the account is READY. *)
Recovered(j) ==
    /\ task[j] = "recovering"
    /\ status' = [status EXCEPT ![acct[j]] = "READY"]
    /\ up' = [up EXCEPT ![acct[j]] = TRUE]
    /\ \/ /\ MayRetry(mem[j])
          /\ GoTo(j, "dropRetry")
          /\ UNCHANGED mem
       \/ /\ ~MayRetry(mem[j])
          /\ mem' = [mem EXCEPT ![j].state = "FAILED"]
          /\ GoTo(j, "dropFinal")
    /\ UNCHANGED <<redisVars, enq, loop, held, acct, attempts, running, open, stale, aged, faults>>

(* recover_account raises out of _handle_failure: the coroutine is gone. *)
RecoveryRaises(j) ==
    /\ Fault("recovery", {j})
    /\ task[j] = "recovering"
    /\ GoTo(j, "none")
    /\ \E b \in BOOLEAN : up' = [up EXCEPT ![acct[j]] = b]
    /\ UNCHANGED <<redisVars, enq, loop, held, mem, acct, attempts, running, status,
                   open, stale, aged>>

(* Mutants of AfterWrite: a job out of retries is requeued all the same; *)
(* a job to retry is not put back into a queue.                          *)
AfterWriteRequeuesAlways(p) ==
    CASE p = "activate" -> "activateSave"
      [] p = "activateSave" -> "running"
      [] p = "clear" -> "clearSave"
      [] p = "dropRetry" -> "dropRetrySave"
      [] p \in {"dropRetrySave", "dropFinalSave"} -> "retrying"
      [] p = "retrying" -> "requeue"
      [] p = "dropFinal" -> "dropFinalSave"
      [] OTHER -> "none"

AfterWriteForgetsRetry(p) ==
    CASE p = "activate" -> "activateSave"
      [] p = "activateSave" -> "running"
      [] p = "clear" -> "clearSave"
      [] p = "dropRetry" -> "dropRetrySave"
      [] p = "dropRetrySave" -> "retrying"
      [] p = "dropFinal" -> "dropFinalSave"
      [] OTHER -> "none"

(* Where a coroutine goes when its write has succeeded. *)
AfterWrite(p) ==
    CASE p = "activate" -> "activateSave"
      [] p = "activateSave" -> "running"
      [] p = "clear" -> "clearSave"
      [] p = "dropRetry" -> "dropRetrySave"
      [] p = "dropRetrySave" -> "retrying"
      [] p = "retrying" -> "requeue"
      [] p = "dropFinal" -> "dropFinalSave"
      [] OTHER -> "none"

(* mark_active, remove_active and requeue, one command at a time. *)
TaskCommand(j) ==
    /\ task[j] \in TaskWrites
    /\ Command(task[j], j)
    /\ GoTo(j, AfterWrite(task[j]))
    /\ mem' = IF task[j] = "dropRetrySave" THEN [mem EXCEPT ![j].state = "RETRYING"] ELSE mem
    /\ attempts' = IF task[j] = "activateSave" THEN [attempts EXCEPT ![j] = @ + 1] ELSE attempts
    /\ UNCHANGED <<enq, loop, held, acct, accountVars, stale, aged, faults>>

(* A write of the coroutine raises, with or without effect.  Only those   *)
(* after a success lie in a try block, whose handler fails the job; the   *)
(* others end the coroutine.                                              *)
TaskRaises(j) ==
    /\ Fault("redis", IF task[j] \in {"clear", "clearSave"} THEN {} ELSE {j})
    /\ task[j] \in TaskWrites
    /\ Command(task[j], j) \/ UNCHANGED redisVars
    /\ \/ task[j] \in {"clear", "clearSave"} /\ HandleFailure(j)
       \/ /\ task[j] \notin {"clear", "clearSave"}
          /\ GoTo(j, "none")
          /\ UNCHANGED <<mem, running, status>>
    /\ UNCHANGED <<enq, loop, held, acct, attempts, up, open, stale, aged>>

JobEnds(j) == JobSucceeds(j) \/ JobFails(j)

TaskStep(j) ==
    RunJob(j) \/ LaunchBrowser(j) \/ BrowserReady(j) \/ JobEnds(j) \/ Recovered(j) \/ TaskCommand(j)

-----------------------------------------------------------------------------
(* The rest of the world. *)

BecomesDue(j) ==
    /\ j \in delayed \ due
    /\ due' = due \cup {j}
    /\ UNCHANGED <<saved, ready, delayed, active, jobIds, jobVars, accountVars,
                   stale, aged, faults>>

BrowserDies(a) ==
    /\ Fault("browser", {})
    /\ up[a]
    /\ up' = [up EXCEPT ![a] = FALSE]
    /\ UNCHANGED <<redisVars, jobVars, status, running, open, stale, aged>>

(* The account routes of the API: start, stop, and enable or disable. *)
AdminStarts(a) ==
    /\ Fault("admin", {})
    /\ ~up[a]
    /\ up' = [up EXCEPT ![a] = TRUE]
    /\ status' = [status EXCEPT ![a] = "READY"]
    /\ UNCHANGED <<redisVars, jobVars, running, open, stale, aged>>

AdminStops(a) ==
    /\ Fault("admin", {})
    /\ up[a]
    /\ up' = [up EXCEPT ![a] = FALSE]
    /\ status' = [status EXCEPT ![a] = "STOPPED"]
    /\ UNCHANGED <<redisVars, jobVars, running, open, stale, aged>>

AdminSets(a) ==
    /\ Fault("admin", {})
    /\ open' = [open EXCEPT ![a] = ~@]
    /\ UNCHANGED <<redisVars, jobVars, status, running, up, stale, aged>>

(* HealthReporter.snapshot sees the sign-in page, or no longer sees it. *)
SnapshotExpires(a) ==
    /\ HealthPolled
    /\ Fault("login", {})
    /\ up[a] /\ status[a] # "TOKEN_EXPIRED"
    /\ status' = [status EXCEPT ![a] = "TOKEN_EXPIRED"]
    /\ UNCHANGED <<redisVars, jobVars, running, up, open, stale, aged>>

SnapshotRestores(a) ==
    /\ HealthPolled
    /\ up[a] /\ status[a] = "TOKEN_EXPIRED"
    /\ status' = [status EXCEPT ![a] = "READY"]
    /\ UNCHANGED <<redisVars, jobVars, running, up, open, stale, aged, faults>>

Ages(j) ==
    /\ HealthPolled
    /\ enq[j] # "new" /\ j \notin aged
    /\ aged' = aged \cup {j}
    /\ UNCHANGED <<redisVars, jobVars, accountVars, stale, faults>>

(* Mutant of IsStale: no age limit. *)
IsStaleByState(j) == saved[j].state \notin {"ASSIGNED", "PROCESSING"}

IsStale(j) == saved[j].state \notin {"ASSIGNED", "PROCESSING"} \/ j \in aged

(* cleanup_active, at the end of a snapshot: read, then delete.  A job that *)
(* leaves the hash between the two reads only makes the HDEL a no-op.       *)
CleanupRead ==
    /\ HealthPolled
    /\ stale = {}
    /\ stale' = {j \in active : IsStale(j)}
    /\ stale' # {}
    /\ UNCHANGED <<redisVars, jobVars, accountVars, aged, faults>>

CleanupDelete ==
    /\ stale # {}
    /\ HDelActive(stale)
    /\ stale' = {}
    /\ UNCHANGED <<jobVars, accountVars, aged, faults>>

(* load_existing_accounts: the stored status is kept unless it was BUSY    *)
(* (BROKEN_SESSION may not have been stored over it yet); with             *)
(* autostart_accounts the browser is started, or fails to.                 *)
Loaded(a) ==
    {<<IF status[a] = "BUSY" THEN "READY" ELSE status[a], FALSE>>, <<"READY", TRUE>>}
    \cup (IF status[a] = "BROKEN_SESSION" THEN {<<"READY", FALSE>>} ELSE {})
    \cup (IF "browser" \in Faults THEN {"BROKEN_SESSION"} \X BOOLEAN ELSE {})

(* A new process: nothing looks at the jobs of the last one. *)
Boot ==
    /\ loop' = "top"
    /\ held' = NoJob
    /\ task' = [j \in Jobs |-> "none"]
    /\ enq' = [j \in Jobs |-> CASE enq[j] = "saved" -> "failed"
                               [] enq[j] = "pushed" -> "done"
                               [] OTHER -> enq[j]]
    /\ stale' = {}
    /\ running' = [a \in Accounts |-> 0]
    /\ status' \in [Accounts -> Statuses] /\ up' \in [Accounts -> BOOLEAN]
    /\ \A a \in Accounts : <<status'[a], up'[a]>> \in Loaded(a)
    /\ UNCHANGED <<redisVars, mem, acct, attempts, open, aged>>

Crash == Fault("crash", {j \in Jobs : j = held \/ Live(j)}) /\ Boot

(* Scheduler.stop cancels the loop, wherever it is suspended and with or   *)
(* without effect of the command it awaits, and waits for the coroutines.  *)
Stop ==
    /\ Fault("stop", LoopsJobs)
    /\ loop # "stopped"
    /\ Unanswered
    /\ loop' = "stopped"
    /\ held' = NoJob
    /\ UNCHANGED <<enq, task, mem, acct, attempts, accountVars, stale, aged>>

Restart ==
    /\ loop = "stopped"
    /\ \A j \in Jobs : ~Live(j)
    /\ Boot
    /\ UNCHANGED faults

-----------------------------------------------------------------------------
Init ==
    /\ saved = [j \in Jobs |-> NoRecord]
    /\ ready = <<>>
    /\ delayed = {} /\ due = {} /\ active = {} /\ jobIds = {}
    /\ enq = [j \in Jobs |-> "new"]
    /\ loop = "top" /\ held = NoJob
    /\ task = [j \in Jobs |-> "none"]
    /\ mem = [j \in Jobs |-> NoRecord]
    /\ acct = [j \in Jobs |-> NoAccount]
    /\ stale = {}
    /\ status \in [Accounts -> {"READY", "STOPPED"}]
    /\ running = [a \in Accounts |-> 0]
    /\ up = [a \in Accounts |-> FALSE]
    /\ open = [a \in Accounts |-> TRUE]
    /\ aged = {}
    /\ attempts = [j \in Jobs |-> 0]
    /\ faults = [count |-> 0, victims |-> {}]

JobNext(j) ==
    \/ Enqueue(j) \/ EnqueueRaises(j)
    \/ TaskStep(j) \/ TaskRaises(j)
    \/ BrowserFails(j) \/ LoginRequired(j) \/ ExecutorRecovers(j) \/ RecoveryRaises(j)
    \/ BecomesDue(j) \/ Ages(j)

AccountNext(a) ==
    BrowserDies(a) \/ AdminSets(a) \/ AdminStarts(a) \/ AdminStops(a) \/ SnapshotExpires(a) \/ SnapshotRestores(a)

Next ==
    \/ LoopStep \/ LoopRaises
    \/ \E j \in Jobs : JobNext(j)
    \/ \E a \in Accounts : AccountNext(a)
    \/ CleanupRead \/ CleanupDelete
    \/ Crash \/ Stop \/ Restart

Spec == Init /\ [][Next]_vars

(* Every handler, loop and coroutine proceeds when its event loop, Redis *)
(* and Chrome answer; whether a client submits a job is not guaranteed.  *)
Fairness ==
    /\ WF_vars(LoopStep)
    /\ WF_vars(CleanupRead) /\ WF_vars(CleanupDelete)
    /\ WF_vars(Restart)
    /\ \A j \in Jobs :
        /\ WF_vars(enq[j] # "new" /\ Enqueue(j))
        /\ WF_vars(TaskStep(j))
        /\ WF_vars(BecomesDue(j))
        /\ WF_vars(Ages(j))

FairSpec == Spec /\ Fairness

-----------------------------------------------------------------------------
(* Every variable has its type. *)
TypeOK ==
    /\ saved \in [Jobs -> Records]
    /\ ready \in Seq(Jobs)
    /\ delayed \subseteq Jobs /\ due \subseteq delayed
    /\ active \subseteq Jobs /\ jobIds \subseteq Jobs
    /\ enq \in [Jobs -> {"new", "saved", "pushed", "done", "failed"}]
    /\ loop \in LoopPoints
    /\ held \in Jobs \cup {NoJob}
    /\ task \in [Jobs -> TaskPoints]
    /\ mem \in [Jobs -> Records]
    /\ acct \in [Jobs -> Accounts \cup {NoAccount}]
    /\ stale \subseteq Jobs
    /\ status \in [Accounts -> Statuses]
    /\ running \in [Accounts -> Nat]
    /\ up \in [Accounts -> BOOLEAN] /\ open \in [Accounts -> BOOLEAN]
    /\ aged \subseteq Jobs
    /\ attempts \in [Jobs -> Nat]
    /\ faults \in Disturbances

(* The places from which a job can come to be run. *)
InReady(j) == j \in ToSet(ready)
InHand(j) == held = j
Waiting(j) == InReady(j) \/ j \in delayed
Submitted(j) == enq[j] \notin {"new", "saved"}
Pushed(j) == enq[j] \in {"pushed", "done"}
MaybeLost(j) == j \in faults.victims

(* A job is in at most one place: once in the ready list, or delayed, or   *)
(* in the hand of the loop, or run by one coroutine, and nowhere before it *)
(* was pushed.  No crash, cancellation or lost reply between the commands  *)
(* of pop_ready, requeue and release_due_delayed makes it run twice at the *)
(* same time.                                                              *)
OnePlace ==
    /\ IsInjective(ready)
    /\ \A j \in Jobs :
        /\ InReady(j) => ~(j \in delayed \/ InHand(j) \/ Live(j))
        /\ j \in delayed => ~(InHand(j) \/ Live(j))
        /\ InHand(j) => ~Live(j)

(* The executor is started for a job at most max_retries + 1 times, even   *)
(* when runs are repeated because a write after a success failed.          *)
AttemptsBounded == \A j \in Jobs : attempts[j] <= MaxRetries + 1

(* What GET /jobs/{id} reads from Redis is true where others act on it: a  *)
(* waiting job is QUEUED or RETRYING, a job in the executor PROCESSING.    *)
SavedStateIsTrue ==
    \A j \in Jobs :
        /\ Waiting(j) => saved[j].state \in {"QUEUED", "RETRYING"}
        /\ task[j] = "running" => saved[j].state = "PROCESSING"

(* The outcomes that no later write may replace.  A COMPLETED job whose    *)
(* last write raised after taking effect is run again.                     *)
Outcomes == IF "redis" \in Faults THEN {"FAILED"} ELSE {"COMPLETED", "FAILED"}

(* The record in Redis goes through the states of a job as JobLifecycle    *)
(* promises them, whatever crashes and whichever command fails; a run of   *)
(* the executor is one Start there.                                        *)
Lifecycle == INSTANCE JobLifecycle WITH
    MaxStarts <- MaxRetries + 1,
    Reopens <- "redis" \in Faults,
    state <- [j \in Jobs |-> saved[j].state],
    starts <- attempts

ImplementsLifecycle == Lifecycle!Spec

(* Once the orchestrator can read an outcome in Redis it stays, through    *)
(* retries, cleanups, crashes and restarts.                                *)
OutcomeStays ==
    [][\A j \in Jobs : saved[j].state \in Outcomes => saved'[j] = saved[j]]_vars

(* The coroutines that have taken a slot of account a and not returned it. *)
SlotPoints == {"activate", "activateSave", "running"}
SlotsTaken(a) == {j \in Jobs : task[j] \in SlotPoints /\ acct[j] = a}

(* jobs_running counts at most the slots that running coroutines hold, so  *)
(* an account does not lose capacity, whichever browser, recovery or write *)
(* fails and whoever changes the account meanwhile; only a job whose       *)
(* mark_active raised keeps its slot until the next start.                 *)
LeakedBy(a) == {j \in Jobs : MaybeLost(j) /\ ~Live(j) /\ acct[j] = a}
NoSlotLeaks ==
    \A a \in Accounts :
        running[a] <= Cardinality(SlotsTaken(a)) + Cardinality(LeakedBy(a))

(* A disturbance loses at most the jobs that the loop or a coroutine had   *)
(* in hand when it struck; every other job whose push was answered is in a *)
(* queue, in hand, run by a coroutine, or has its outcome.                 *)
AccountedFor ==
    \A j \in Jobs : Pushed(j) /\ ~MaybeLost(j) =>
        Waiting(j) \/ InHand(j) \/ Live(j) \/ saved[j].state \in {"COMPLETED", "FAILED"}

(* max_concurrent_jobs bounds the jobs that run on an account at a time.   *)
ConcurrencyRespected ==
    \A a \in Accounts :
        Cardinality({j \in Jobs : task[j] = "running" /\ acct[j] = a}) <= MaxConcurrent

(* A job that was pushed ends with an outcome, through waits, failures,    *)
(* retries, crashes and restarts, unless one of them hit it in hand or no  *)
(* account is ever eligible again (signed out, broken, or its slot leaked).*)
EveryJobEnds ==
    \/ <>[](\A a \in Accounts : ~IsEligible(a, status))
    \/ \A j \in Jobs : enq[j] = "pushed" ~>
            MaybeLost(j) \/ (saved[j].state \in {"COMPLETED", "FAILED"} /\ ~Live(j))

(* No entry stays in the :active hash: what a crash or a failed write left *)
(* there is removed by cleanup_active when the job is old enough.          *)
ActiveDrains == \A j \in Jobs : j \in active ~> j \notin active
==========================================================================
