---------------------------- MODULE GlobalJobs ----------------------------
(***************************************************************************)
(* The job machinery of the global orchestrator: orchestrator/queue        *)
(* (the Redis queue), orchestrator/scheduler/service.py (one loop that     *)
(* first reads back the jobs it has dispatched and then dispatches the     *)
(* next one), orchestrator/workers/client.py (POST /jobs and GET           *)
(* /jobs/{id} on a worker, with retries), the choice of a worker by its    *)
(* reported capacity, and the jobs collection of the store.                *)
(*                                                                         *)
(* The workers are the environment.  What they do to a local job is the    *)
(* next-state relation of JobLifecycle, which LocalJobs implements.        *)
(***************************************************************************)
EXTENDS Integers, Sequences, FiniteSets, SequencesExt

CONSTANTS
    Jobs,          \* the ids of the jobs that clients may submit
    Workers,       \* the VPS workers
    LocalIds,      \* the ids that local jobs may get
    NoJob, NoWorker, NoLocal,  \* "none" of each
    MaxRetries,    \* settings.queue.max_retries
    PostAttempts,  \* how often the client sends one request (_retries = 3)
    Slots,         \* account slots of a worker, all accounts together
    MaxJobs,       \* max_jobs of a worker
    ListLimit,     \* how many jobs a sync lists (limit=200)
    RetryAtOnce,   \* TRUE when retry_delay_seconds is 0
    ReleaseBatch,  \* how many delayed jobs one release may move (num=100)
    HealthPolled,  \* TRUE when GET /health is called
    Faults,        \* the kinds of disturbance that may occur
    MaxFaults      \* bound: how many of them occur in a behaviour

ASSUME JobsAssumption == IsFiniteSet(Jobs) /\ NoJob \notin Jobs
ASSUME WorkersAssumption == NoWorker \notin Workers
ASSUME LocalIdsAssumption == NoLocal \notin LocalIds
ASSUME LimitsAssumption ==
    /\ MaxRetries \in Nat
    /\ PostAttempts \in Nat \ {0}
    /\ Slots \in Nat \ {0} /\ MaxJobs \in Nat \ {0}
    /\ ListLimit \in Nat \ {0} /\ ReleaseBatch \in Nat \ {0}
    /\ MaxFaults \in Nat
ASSUME SwitchesAssumption ==
    /\ RetryAtOnce \in BOOLEAN /\ HealthPolled \in BOOLEAN
    /\ Faults \subseteq {"crash", "redis", "store", "net", "admin"}

VARIABLES
    \* In Redis and in the store: they survive a crash.
    saved,       \* the :jobs hash
    ready,       \* the :ready list; LPUSH appends here, RPOP takes the head
    delayed,     \* the :delayed sorted set
    due,         \* the delayed jobs whose time has come
    active,      \* the keys of the :active hash
    jobIds,      \* the :job_ids sorted set
    db,          \* the state of a job in the store (MongoDB or PostgreSQL)
    registered,  \* the workers the registry knows
    \* In the memory of the orchestrator.
    enq,         \* how far the handler of a POST /generate request has come
    loop,        \* where the scheduler's loop is suspended
    held,        \* the job that the loop works on
    mem,         \* the GlobalJob object of that job
    todo,        \* the jobs that the running sync has still to look at
    post,        \* the local job that the current POST /jobs asks for
    tries,       \* how often the current dispatch has sent its POST
    stale,       \* the ids that a running cleanup_active is about to delete
    \* The workers.
    local,       \* the state of a local job
    owner, host, \* the global job and the worker it was sent for
    \* Auxiliary.
    born,        \* created_at of a job, as a rank
    aged,        \* jobs created stale_processing_seconds ago
    faults       \* disturbances so far: how many, and the jobs they may have lost

queueVars == <<saved, ready, delayed, due, active, jobIds>>
loopVars == <<held, mem, todo, post, tries>>
workerVars == <<local, owner, host>>
otherVars == <<born, aged>>
vars == <<queueVars, db, registered, enq, loop, loopVars, stale, workerVars, otherVars, faults>>

(* TIMEOUT is the outcome that the orchestrator itself decides on; a local *)
(* TIMEOUT is one with FAILED, as in LocalJobs.                            *)
Open == {"QUEUED", "ASSIGNED", "PROCESSING", "RETRYING"}
Final == {"COMPLETED", "FAILED", "TIMEOUT"}
States == {"NONE"} \cup Open \cup Final
Records == [state : States, retries : Nat,
            worker : Workers \cup {NoWorker}, local : LocalIds \cup {NoLocal}]
NoRecord == [state |-> "NONE", retries |-> 0, worker |-> NoWorker, local |-> NoLocal]
NewRecord == [NoRecord EXCEPT !.state = "QUEUED"]
Disturbances == [count : Nat, victims : SUBSET Jobs]

(* The points of the loop.  At those of Writes it awaits a command on the *)
(* job it holds; the store is written at those of StorePoints.            *)
StorePoints == {"syncStore", "assignStore", "clearStore", "dropStore"}
SavePoints == {"syncSave", "wait", "assignSave", "clearSave", "dropSave", "retrying", "final"}
QueuePoints == {"delay", "requeue"}
Writes == StorePoints \cup SavePoints \cup QueuePoints \cup {"assign", "clear", "drop"}
LoopPoints == Writes \cup {"top", "sync", "release", "pop", "select", "post", "posted"}

-----------------------------------------------------------------------------
(* GlobalQueue and the store, one operator per command. *)

HSetActive(j) ==
    /\ active' = active \cup {j}
    /\ UNCHANGED <<saved, ready, delayed, due, jobIds, db>>

HDelActive(S) ==
    /\ active' = active \ S
    /\ UNCHANGED <<saved, ready, delayed, due, jobIds, db>>

Save(j, record) ==
    /\ saved' = [saved EXCEPT ![j] = record]
    /\ UNCHANGED <<ready, delayed, due, active, jobIds, db>>

PushReady(j) ==
    /\ ready' = Append(ready, j)
    /\ UNCHANGED <<saved, delayed, due, active, jobIds, db>>

AddDelayed(j) ==
    /\ delayed' = delayed \cup {j}
    /\ due' = due \ {j}
    /\ UNCHANGED <<saved, ready, active, jobIds, db>>

IndexJob(j) ==
    /\ jobIds' = jobIds \cup {j}
    /\ UNCHANGED <<saved, ready, delayed, due, active, db>>

StoreJob(j, state) == db' = [db EXCEPT ![j] = state] /\ UNCHANGED queueVars

PopReady ==
    /\ ready # <<>>
    /\ ready' = Tail(ready)
    /\ UNCHANGED <<saved, delayed, due, active, jobIds, db>>

(* Mutant of ReleaseDue: the ids are pushed but not removed (no ZREM). *)
ReleaseDueWithoutRemoval ==
    /\ due # {} /\ Cardinality(due) <= ReleaseBatch
    /\ \E order \in SetToSeqs(due) : ready' = ready \o order
    /\ UNCHANGED <<saved, delayed, due, active, jobIds, db>>

(* release_due_delayed: one MULTI that moves a batch of due jobs. *)
ReleaseDue ==
    /\ \E batch \in SUBSET due :
        /\ batch # {}
        /\ batch = due \/ Cardinality(batch) = ReleaseBatch
        /\ Cardinality(batch) <= ReleaseBatch
        /\ \E order \in SetToSeqs(batch) : ready' = ready \o order
        /\ delayed' = delayed \ batch
        /\ due' = due \ batch
    /\ UNCHANGED <<saved, active, jobIds, db>>

(* The write that the loop, suspended at point p, awaits for job j. *)
Command(p, j) ==
    \/ p = "assign" /\ HSetActive(j)
    \/ p \in {"clear", "drop"} /\ HDelActive({j})
    \/ p \in SavePoints /\ Save(j, mem)
    \/ p \in StorePoints /\ StoreJob(j, mem.state)
    \/ p = "delay" /\ AddDelayed(j)
    \/ p = "requeue" /\ (IF RetryAtOnce THEN PushReady(j) ELSE AddDelayed(j))

(* A disturbance, and the jobs that it may drop. *)
Fault(kind, hit) ==
    /\ kind \in Faults
    /\ faults.count < MaxFaults
    /\ faults' = [count |-> faults.count + 1, victims |-> faults.victims \cup hit]

-----------------------------------------------------------------------------
(* enqueue_generation: GlobalQueue.enqueue, then the record for the store. *)

EnqueueCommand(j) ==
    \/ enq[j] = "new" /\ Save(j, NewRecord)
    \/ enq[j] = "saved" /\ PushReady(j)
    \/ enq[j] = "pushed" /\ IndexJob(j)
    \/ enq[j] = "indexed" /\ StoreJob(j, "QUEUED")

(* created_at grows from job to job. *)
Born(j) ==
    born' = IF enq[j] = "new"
            THEN [born EXCEPT ![j] = 1 + Cardinality({i \in Jobs : born[i] > 0})]
            ELSE born

Enqueue(j) ==
    /\ EnqueueCommand(j)
    /\ enq' = [enq EXCEPT ![j] = CASE @ = "new" -> "saved"
                                   [] @ = "saved" -> "pushed"
                                   [] @ = "pushed" -> "indexed"
                                   [] OTHER -> "done"]
    /\ Born(j)
    /\ UNCHANGED <<registered, loop, loopVars, stale, workerVars, aged, faults>>

(* A command raises, with or without effect: the client gets an error. *)
EnqueueRaises(j) ==
    /\ Fault(IF enq[j] = "indexed" THEN "store" ELSE "redis", {j} \ jobIds)
    /\ enq[j] \in {"new", "saved", "pushed", "indexed"}
    /\ EnqueueCommand(j) \/ UNCHANGED <<queueVars, db>>
    /\ enq' = [enq EXCEPT ![j] = "failed"]
    /\ Born(j)
    /\ UNCHANGED <<registered, loop, loopVars, stale, workerVars, aged>>

-----------------------------------------------------------------------------
(* The workers, as the orchestrator sees them: it cannot tell how often a *)
(* local job is executed (a Start shows the same states as a Strand).     *)
Local == INSTANCE JobLifecycle WITH
    Jobs <- LocalIds, MaxStarts <- 1, Reopens <- FALSE,
    state <- local, starts <- [l \in LocalIds |-> 0]

(* A worker handles a POST that was sent, however late, and goes on with *)
(* the local job.                                                        *)
WorkerStep(l) ==
    /\ owner[l] # NoJob
    /\ Local!Step(l)
    /\ UNCHANGED <<queueVars, db, registered, enq, loop, loopVars, stale, owner, host,
                   otherVars, faults>>

(* What a worker reports: accounts count the jobs they process against     *)
(* their slots, the :active hash holds those from ASSIGNED on.  A job that *)
(* waits in the local queue shows in neither.                              *)
LocalIn(w, states) == {l \in LocalIds : host[l] = w /\ local[l] \in states}
FreeSlots(w) == Slots - Cardinality(LocalIn(w, {"PROCESSING"}))
HasCapacity(w) ==
    /\ w \in registered
    /\ FreeSlots(w) > 0
    /\ Cardinality(LocalIn(w, {"ASSIGNED", "PROCESSING"})) < MaxJobs

-----------------------------------------------------------------------------
(* GlobalScheduler._loop: first the jobs that were dispatched. *)

(* The order of list_jobs, and the jobs that fit into its limit. *)
Newer(i, j) == born[i] > born[j]
ListedBefore(i, j) ==
    LET open(k) == saved[k].state \in Open
    IN (open(i) /\ ~open(j)) \/ (open(i) = open(j) /\ Newer(i, j))
Recent == {j \in jobIds : Cardinality({i \in jobIds : Newer(i, j)}) < ListLimit}

Listed ==
    LET candidates == active \cup Recent
    IN {j \in candidates :
            Cardinality({i \in candidates : ListedBefore(i, j)}) < ListLimit}

(* A sync is due... *)
LoopSync ==
    /\ loop = "top"
    /\ todo' = {j \in Listed : saved[j].state = "PROCESSING"}
    /\ loop' = "sync"
    /\ UNCHANGED <<queueVars, db, registered, enq, held, mem, post, tries, stale, workerVars,
                   otherVars, faults>>

(* ... or not. *)
LoopSkip ==
    /\ loop = "top"
    /\ loop' = "release"
    /\ UNCHANGED <<queueVars, db, registered, enq, loopVars, stale, workerVars, otherVars, faults>>

Forget(j) == todo' = todo \ {j}

SyncTo(j, state) ==
    /\ held' = j
    /\ mem' = [saved[j] EXCEPT !.state = state]
    /\ loop' = "syncSave"

(* Mutants of TimeoutStale: no age limit, and no limit at all. *)
TimeoutStaleAtOnce(j) == SyncTo(j, "TIMEOUT")
TimeoutStaleNever(j) == UNCHANGED <<held, mem, loop>>

(* _timeout_stale_processing_job: nothing before the job is old enough. *)
TimeoutStale(j) ==
    \/ j \in aged /\ SyncTo(j, "TIMEOUT")
    \/ j \notin aged /\ UNCHANGED <<held, mem, loop>>

SyncUnchanged ==
    UNCHANGED <<queueVars, db, registered, enq, post, tries, stale, workerVars, otherVars>>

(* GET /jobs/{id} answers with the state of the local job. *)
SyncJob(j) ==
    /\ loop = "sync" /\ j \in todo
    /\ saved[j].worker \in registered
    /\ LET state == local[saved[j].local]
       IN \/ state \in {"COMPLETED", "FAILED"} /\ SyncTo(j, state)
          \/ state \notin {"COMPLETED", "FAILED"} /\ TimeoutStale(j)
    /\ Forget(j)
    /\ SyncUnchanged
    /\ UNCHANGED faults

(* The worker is no longer registered, or does not answer. *)
SyncMisses(j) ==
    /\ loop = "sync" /\ j \in todo
    /\ \/ saved[j].worker \notin registered /\ UNCHANGED faults
       \/ Fault("net", {})
    /\ TimeoutStale(j)
    /\ Forget(j)
    /\ SyncUnchanged

LoopSynced ==
    /\ loop = "sync" /\ todo = {}
    /\ loop' = "release"
    /\ UNCHANGED faults
    /\ SyncUnchanged
    /\ UNCHANGED <<held, mem, todo>>

-----------------------------------------------------------------------------
(* GlobalScheduler._loop: then the next job of the queue. *)

LoopRelease ==
    /\ loop = "release"
    /\ ReleaseDue \/ (due = {} /\ UNCHANGED <<queueVars, db>>)
    /\ loop' = "pop"
    /\ UNCHANGED <<registered, enq, loopVars, stale, workerVars, otherVars, faults>>

LoopPop ==
    /\ loop = "pop"
    /\ PopReady
    /\ held' = Head(ready)
    /\ mem' = saved[held']
    /\ loop' = "select"
    /\ UNCHANGED <<registered, enq, todo, post, tries, stale, workerVars, otherVars, faults>>

LoopIdle ==
    /\ loop = "pop"
    /\ ready = <<>>
    /\ loop' = "top"
    /\ UNCHANGED <<queueVars, db, registered, enq, loopVars, stale, workerVars, otherVars, faults>>

(* CapacityManager.select_worker after refresh_all: any worker with        *)
(* capacity, whatever the scores; the link to an earlier worker's job stays. *)
LoopSelect ==
    /\ loop = "select"
    /\ \/ /\ \E w \in Workers :
                /\ HasCapacity(w)
                /\ mem' = [mem EXCEPT !.state = "ASSIGNED", !.worker = w]
          /\ loop' = "assign"
          /\ UNCHANGED faults
       \/ /\ \/ (\A w \in Workers : ~HasCapacity(w)) /\ UNCHANGED faults
             \/ Fault("net", {})
          /\ mem' = [mem EXCEPT !.state = "RETRYING"]
          /\ loop' = "wait"
    /\ UNCHANGED <<queueVars, db, registered, enq, held, todo, post, tries, stale, workerVars,
                   otherVars>>

(* Mutant of MayRetry: one dispatch too many. *)
MayRetryOnceMore == mem.retries <= MaxRetries + 1

MayPost == tries < PostAttempts
MayRetry == mem.retries <= MaxRetries

(* WorkerClient.dispatch sends POST /jobs. *)
Post ==
    /\ loop = "post"
    /\ \E l \in LocalIds :
        /\ owner[l] = NoJob
        /\ owner' = [owner EXCEPT ![l] = held]
        /\ host' = [host EXCEPT ![l] = mem.worker]
        /\ post' = l
    /\ tries' = tries + 1
    /\ loop' = "posted"
    /\ UNCHANGED <<queueVars, db, registered, enq, held, mem, todo, stale, local, otherVars, faults>>

(* The worker's reply arrives in time. *)
PostAccepted ==
    /\ loop = "posted"
    /\ local[post] # "NONE"
    /\ mem' = [mem EXCEPT !.state = "PROCESSING", !.local = post]
    /\ post' = NoLocal /\ tries' = 0
    /\ loop' = "clear"
    /\ UNCHANGED <<queueVars, db, registered, enq, held, todo, stale, workerVars,
                   otherVars, faults>>

(* No connection or no reply: the same request is sent again. *)
PostAgain ==
    /\ Fault("net", {})
    /\ loop = "posted"
    /\ MayPost
    /\ post' = NoLocal
    /\ loop' = "post"
    /\ UNCHANGED <<queueVars, db, registered, enq, held, mem, todo, tries, stale, workerVars,
                   otherVars>>

(* Mutant of DispatchFails: the retries count down. *)
DispatchFailsCountsDown ==
    /\ mem' = [mem EXCEPT !.retries = @ - 1]
    /\ post' = NoLocal /\ tries' = 0
    /\ loop' = "drop"
    /\ UNCHANGED <<held, todo>>

(* The except branch of _dispatch, up to its first suspension. *)
DispatchFails ==
    /\ mem' = [mem EXCEPT !.retries = @ + 1]
    /\ post' = NoLocal /\ tries' = 0
    /\ loop' = "drop"
    /\ UNCHANGED <<held, todo>>

(* An error reply, the last attempt, or dispatch_timeout_seconds are over. *)
PostFails ==
    /\ Fault("net", {})
    /\ loop = "posted"
    /\ DispatchFails
    /\ UNCHANGED <<queueVars, db, registered, enq, stale, workerVars, otherVars>>

(* Mutants of FailurePoint: the outcome is stored before it is saved, a   *)
(* job without retries left is queued again, and a retry is not queued.   *)
FailurePointStoresFirst ==
    CASE loop = "drop" -> "dropSave"
      [] loop = "dropSave" -> IF MayRetry THEN "retrying" ELSE "dropStore"
      [] loop = "retrying" -> "requeue"
      [] loop = "dropStore" /\ ~MayRetry -> "final"
      [] loop = "requeue" -> "dropStore"
      [] OTHER -> "top"

FailurePointRequeuesAlways ==
    CASE loop = "drop" -> "dropSave"
      [] loop = "dropSave" -> IF MayRetry THEN "retrying" ELSE "final"
      [] loop \in {"retrying", "final"} -> "requeue"
      [] loop = "requeue" -> "dropStore"
      [] OTHER -> "top"

FailurePointForgetsRetry ==
    CASE loop = "drop" -> "dropSave"
      [] loop = "dropSave" -> IF MayRetry THEN "retrying" ELSE "final"
      [] loop \in {"retrying", "final"} -> "dropStore"
      [] OTHER -> "top"

(* remove_active, requeue or save, and the store, after a failed dispatch. *)
FailurePoint ==
    CASE loop = "drop" -> "dropSave"
      [] loop = "dropSave" -> IF MayRetry THEN "retrying" ELSE "final"
      [] loop = "retrying" -> "requeue"
      [] loop \in {"requeue", "final"} -> "dropStore"
      [] OTHER -> "top"

(* Where the loop goes when its command has succeeded. *)
NextPoint ==
    CASE loop = "syncSave" -> "syncStore"
      [] loop = "syncStore" -> "sync"
      [] loop = "wait" -> "delay"
      [] loop = "assign" -> "assignSave"
      [] loop = "assignSave" -> "assignStore"
      [] loop = "assignStore" -> "post"
      [] loop = "clear" -> "clearSave"
      [] loop = "clearSave" -> "clearStore"
      [] OTHER -> FailurePoint

(* What the next command of the loop will write. *)
NextRecord ==
    CASE NextPoint \in {"top", "sync"} -> NoRecord
      [] loop = "dropSave" -> [mem EXCEPT !.state = IF MayRetry THEN "RETRYING" ELSE "FAILED"]
      [] OTHER -> mem

LoopCommand ==
    /\ loop \in Writes
    /\ Command(loop, held)
    /\ loop' = NextPoint
    /\ mem' = NextRecord
    /\ held' = IF NextPoint \in {"top", "sync"} THEN NoJob ELSE held
    /\ UNCHANGED <<registered, enq, todo, post, tries, stale, workerVars, otherVars, faults>>

(* The loop gives up what it does; a popped job is dropped. *)
Abandon ==
    /\ loop' = "top"
    /\ held' = NoJob
    /\ mem' = NoRecord
    /\ todo' = {}
    /\ post' = NoLocal /\ tries' = 0

(* The jobs that the loop dispatches, or pops if its command has an effect; *)
(* a sync only reads the job it holds until the outcome is saved.          *)
LoopsJobs ==
    {j \in Jobs : \/ j = held /\ loop \notin {"syncSave", "syncStore"}
                  \/ loop = "pop" /\ ready # <<>> /\ j = Head(ready)}

(* A command of the loop raises, with or without effect.  After the reply  *)
(* of the worker it lies in the try block of _dispatch and fails the       *)
(* dispatch; elsewhere the handler of the loop logs it and goes round.     *)
LoopRaises ==
    /\ Fault(IF loop \in StorePoints THEN "store" ELSE "redis", LoopsJobs)
    /\ loop \in Writes \cup {"top", "release", "pop", "select"}
    /\ \/ loop = "release" /\ ReleaseDue
       \/ loop = "pop" /\ PopReady
       \/ Command(loop, held)
       \/ UNCHANGED <<queueVars, db>>
    /\ IF loop \in {"clear", "clearSave", "clearStore"} THEN DispatchFails ELSE Abandon
    /\ UNCHANGED <<registered, enq, stale, workerVars, otherVars>>

LoopStep ==
    \/ LoopSync \/ LoopSkip \/ LoopSynced \/ LoopRelease \/ LoopPop \/ LoopIdle \/ LoopSelect
    \/ Post \/ PostAccepted \/ LoopCommand
    \/ \E j \in Jobs : SyncJob(j)

-----------------------------------------------------------------------------
(* The rest of the world. *)

BecomesDue(j) ==
    /\ j \in delayed \ due
    /\ due' = due \cup {j}
    /\ UNCHANGED <<saved, ready, delayed, active, jobIds, db, registered, enq, loop, loopVars,
                   stale, workerVars, otherVars, faults>>

Ages(j) ==
    /\ born[j] > 0 /\ j \notin aged
    /\ aged' = aged \cup {j}
    /\ UNCHANGED <<queueVars, db, registered, enq, loop, loopVars, stale, workerVars, born, faults>>

(* DELETE /workers/{id} and POST /workers. *)
Administer(w) ==
    /\ Fault("admin", {})
    /\ registered' = IF w \in registered THEN registered \ {w} ELSE registered \cup {w}
    /\ UNCHANGED <<queueVars, db, enq, loop, loopVars, stale, workerVars, otherVars>>

(* cleanup_active, at GET /health: read, then delete. *)
CleanupRead ==
    /\ HealthPolled
    /\ stale = {}
    /\ stale' = {j \in active : saved[j].state # "ASSIGNED"}
    /\ stale' # {}
    /\ UNCHANGED <<queueVars, db, registered, enq, loop, loopVars, workerVars, otherVars, faults>>

CleanupDelete ==
    /\ stale # {}
    /\ HDelActive(stale)
    /\ stale' = {}
    /\ UNCHANGED <<registered, enq, loop, loopVars, workerVars, otherVars, faults>>

(* The process ends and starts again; the loop may have been anywhere. *)
Crash ==
    /\ Fault("crash", LoopsJobs \cup {j \in Jobs : enq[j] = "pushed"})
    /\ Abandon
    /\ enq' = [j \in Jobs |-> IF enq[j] \in {"saved", "pushed", "indexed"} THEN "failed" ELSE enq[j]]
    /\ stale' = {}
    /\ UNCHANGED <<queueVars, db, registered, workerVars, otherVars>>

Init ==
    /\ saved = [j \in Jobs |-> NoRecord]
    /\ ready = <<>>
    /\ delayed = {} /\ due = {} /\ active = {} /\ jobIds = {}
    /\ db = [j \in Jobs |-> "NONE"]
    /\ registered = Workers
    /\ enq = [j \in Jobs |-> "new"]
    /\ loop = "top" /\ held = NoJob /\ mem = NoRecord
    /\ todo = {} /\ post = NoLocal /\ tries = 0 /\ stale = {}
    /\ local = [l \in LocalIds |-> "NONE"]
    /\ owner = [l \in LocalIds |-> NoJob] /\ host = [l \in LocalIds |-> NoWorker]
    /\ born = [j \in Jobs |-> 0]
    /\ aged = {}
    /\ faults = [count |-> 0, victims |-> {}]

JobNext(j) == Enqueue(j) \/ EnqueueRaises(j) \/ SyncMisses(j) \/ BecomesDue(j) \/ Ages(j)

Next ==
    \/ LoopStep \/ LoopRaises \/ PostAgain \/ PostFails
    \/ \E j \in Jobs : JobNext(j)
    \/ \E l \in LocalIds : WorkerStep(l)
    \/ \E w \in Workers : Administer(w)
    \/ CleanupRead \/ CleanupDelete \/ Crash

Spec == Init /\ [][Next]_vars

(* The loop and the handlers proceed, time passes (so that a sync is due   *)
(* again and again), and a worker replies to a request and brings a local  *)
(* job to its end (EveryJobEnds of LocalJobs).                             *)
Fairness ==
    /\ WF_vars(LoopStep \/ \E j \in Jobs : saved[j].worker \notin registered /\ SyncMisses(j))
    /\ SF_vars(LoopSync)
    /\ WF_vars(\E j \in Jobs : enq[j] # "new" /\ Enqueue(j))
    /\ WF_vars(\E j \in Jobs : Ages(j))
    /\ \A j \in Jobs : WF_vars(BecomesDue(j))
    /\ WF_vars(\E l \in LocalIds : local[l] = "NONE" /\ WorkerStep(l))
    /\ \A l \in LocalIds : SF_vars(WorkerStep(l) /\ local'[l] \in {"COMPLETED", "FAILED"})

FairSpec == Spec /\ Fairness

-----------------------------------------------------------------------------
(* Every variable has its type. *)
TypeOK ==
    /\ saved \in [Jobs -> Records]
    /\ ready \in Seq(Jobs)
    /\ delayed \subseteq Jobs /\ due \subseteq delayed
    /\ active \subseteq Jobs /\ jobIds \subseteq Jobs
    /\ db \in [Jobs -> States]
    /\ registered \subseteq Workers
    /\ enq \in [Jobs -> {"new", "saved", "pushed", "indexed", "done", "failed"}]
    /\ loop \in LoopPoints
    /\ held \in Jobs \cup {NoJob}
    /\ mem \in Records
    /\ todo \subseteq Jobs
    /\ post \in LocalIds \cup {NoLocal}
    /\ tries \in Nat
    /\ stale \subseteq Jobs
    /\ local \in [LocalIds -> States]
    /\ owner \in [LocalIds -> Jobs \cup {NoJob}]
    /\ host \in [LocalIds -> Workers \cup {NoWorker}]
    /\ born \in [Jobs -> Nat]
    /\ aged \subseteq Jobs
    /\ faults \in Disturbances

InReady(j) == j \in ToSet(ready)
Waiting(j) == InReady(j) \/ j \in delayed
InHand(j) == held = j

(* A job is queued at most once, and neither queued nor synced while the   *)
(* loop dispatches it: no crash, lost reply or failed command between the  *)
(* steps of pop_ready, requeue and release_due_delayed gives a job two     *)
(* dispatches at a time.                                                   *)
OnePlace ==
    /\ IsInjective(ready)
    /\ \A j \in Jobs :
        /\ InReady(j) => j \notin delayed
        /\ InHand(j) /\ loop # "dropStore" => ~Waiting(j) /\ j \notin todo
        /\ j \in todo => ~Waiting(j) /\ saved[j].state = "PROCESSING"

(* What GET /jobs/{id} shows comes from the right local job: a job that is *)
(* PROCESSING is linked to a local job which its worker created for it;    *)
(* it is COMPLETED only if that local job is, FAILED only if that one is   *)
(* or the retries are used up, and TIMEOUT only when it is old.            *)
OutcomeIsTrue ==
    \A j \in Jobs :
        LET r == saved[j] IN
        /\ r.state \in {"PROCESSING", "COMPLETED", "TIMEOUT"} =>
            /\ r.local \in LocalIds /\ owner[r.local] = j /\ host[r.local] = r.worker
            /\ local[r.local] # "NONE"
        /\ r.state = "COMPLETED" => local[r.local] = "COMPLETED"
        /\ r.state = "FAILED" => r.retries > MaxRetries \/ local[r.local] = "FAILED"
        /\ r.state = "TIMEOUT" => j \in aged

(* The store never announces an outcome that Redis does not have.          *)
StoreNotAhead ==
    \A j \in Jobs : db[j] \in Final => saved[j].state = db[j]

(* However replies get lost and dispatches are repeated, a job costs at    *)
(* most max_retries + 1 dispatches of _retries requests each, and every    *)
(* local job beyond the first one costs a disturbance.                     *)
LocalJobsOf(j) == {l \in LocalIds : owner[l] = j}
DispatchesBounded ==
    \A j \in Jobs :
        /\ Cardinality(LocalJobsOf(j)) <= (MaxRetries + 1) * PostAttempts
        /\ Cardinality(LocalJobsOf(j)) <= 1 + faults.count

(* An outcome that a client can read stays: no later sync, requeue, crash  *)
(* or restart replaces it.                                                 *)
OutcomeStays ==
    [][\A j \in Jobs : saved[j].state \in Final => saved'[j] = saved[j]]_vars

(* The orchestrator implements GlobalLifecycle, in which clients read the  *)
(* states of their jobs in order, through lost replies, failed commands    *)
(* and restarts.  A job is linked to the local job that its record names   *)
(* while it is PROCESSING, and after it ended there.                       *)
LinkOf(r) == IF r.state \in {"PROCESSING", "COMPLETED", "TIMEOUT"} THEN r.local ELSE NoLocal
Lifecycle == INSTANCE GlobalLifecycle WITH
    state <- [j \in Jobs |-> saved[j].state],
    retries <- [j \in Jobs |-> saved[j].retries],
    link <- [j \in Jobs |-> LinkOf(saved[j])]

ImplementsLifecycle == Lifecycle!Spec

(* No dispatched job stays PROCESSING for ever, whatever becomes of its    *)
(* worker and however often the orchestrator crashes: a sync sees the end  *)
(* of the local job or finds the job too old.  It must be indexed: a job   *)
(* whose enqueue ended before its ZADD is dispatched but never listed.     *)
DispatchedEnds ==
    \A j \in Jobs :
        j \in jobIds /\ saved[j].state = "PROCESSING" ~> saved[j].state # "PROCESSING"

(* A job that was queued ends with an outcome, through waits, failed       *)
(* requests, retries, crashes and restarts, unless one of them hit it in   *)
(* the hand of the loop or before it was indexed, or no worker has capacity *)
(* ever again.                                                             *)
MaybeLost(j) == j \in faults.victims
EveryJobEnds ==
    \/ <>[](\A w \in Workers : ~HasCapacity(w))
    \/ \A j \in Jobs : enq[j] = "pushed" ~> MaybeLost(j) \/ saved[j].state \in Final

(* If every account on every VPS is busy, the job stays in the global      *)
(* queue: a worker receives a local job only while a slot of it is free.   *)
StaysGlobalWhileBusy ==
    [][\A l \in LocalIds :
        local[l] = "NONE" /\ local'[l] = "QUEUED" => FreeSlots(host[l]) > 0]_vars
==========================================================================
