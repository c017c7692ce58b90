------------------------- MODULE LocalJobsProofs -------------------------
(***************************************************************************)
(* Proofs about LocalJobs, for every set of jobs and accounts and every    *)
(* value of the limits.  The inductive invariant says, for every place a   *)
(* job can be in, what its record in Redis, the Job object in memory and   *)
(* the number of its executions look like there.  The second half is about *)
(* what is lost.                                                           *)
(***************************************************************************)
EXTENDS LocalJobs, QueueLemmas, TLAPS

(* Record and object of a job that fails: equal, unless the write that    *)
(* reports a success raised.                                              *)
FailingStates ==
    {<<"ASSIGNED", "ASSIGNED">>, <<"PROCESSING", "PROCESSING">>} \cup
    (IF "redis" \in Faults
     THEN {<<"PROCESSING", "COMPLETED">>, <<"COMPLETED", "COMPLETED">>}
     ELSE {})

Failable == {"ASSIGNED", "PROCESSING"} \cup (IF "redis" \in Faults THEN {"COMPLETED"} ELSE {})

(* A job is in at most one place, and in none before it was pushed. *)
PlaceInv(j) ==
    /\ InReady(j) => ~(j \in delayed \/ InHand(j) \/ Live(j))
    /\ j \in delayed => ~(InHand(j) \/ Live(j))
    /\ InHand(j) => ~Live(j)
    /\ ~Submitted(j) => ~(Waiting(j) \/ InHand(j) \/ Live(j)) /\ attempts[j] = 0
    /\ enq[j] = "new" => saved[j] = NoRecord
    /\ enq[j] = "saved" => saved[j] = NewRecord

(* A job that waits, or was just popped, has runs left. *)
WaitInv(j) ==
    Waiting(j) \/ (InHand(j) /\ loop = "fetch") =>
        /\ saved[j].state \in {"QUEUED", "RETRYING"}
        /\ saved[j].retries <= MaxRetries
        /\ attempts[j] <= saved[j].retries

(* A job in the hand of the loop, while the loop writes its record. *)
HandInv(j) ==
    InHand(j) /\ loop \in LoopWrites =>
        /\ mem[j].retries <= MaxRetries
        /\ attempts[j] <= mem[j].retries
        /\ saved[j].state \in {"QUEUED", "RETRYING"}
        /\ loop \in {"assign", "assignSave"} => mem[j].state = "ASSIGNED" /\ acct[j] \in Accounts
        /\ loop \in {"wait", "delay"} => mem[j].state = "RETRYING"
        /\ loop = "delay" => saved[j] = mem[j]

(* A job with a coroutine. *)
TaskInv(j) ==
    /\ Live(j) => acct[j] \in Accounts
    /\ task[j] \in {"spawned", "starting", "connecting", "activate", "activateSave"} =>
        /\ saved[j].state = "ASSIGNED"
        /\ mem[j].retries <= MaxRetries
        /\ attempts[j] <= mem[j].retries
    /\ task[j] \in {"spawned", "starting", "connecting"} => mem[j].state = "ASSIGNED"
    /\ task[j] \in {"activate", "activateSave", "running"} => mem[j].state = "PROCESSING"
    /\ task[j] \in {"running", "clear", "clearSave"} =>
        /\ saved[j].state = "PROCESSING"
        /\ mem[j].retries <= MaxRetries
        /\ attempts[j] <= mem[j].retries + 1
    /\ task[j] \in {"clear", "clearSave"} => mem[j].state = "COMPLETED"
    /\ task[j] \in {"recovering", "dropRetry", "dropRetrySave"} =>
        <<saved[j].state, mem[j].state>> \in FailingStates
    /\ task[j] \in {"recovering", "dropRetry", "dropRetrySave", "retrying", "requeue"} =>
        attempts[j] <= mem[j].retries
    /\ task[j] = "recovering" => mem[j].retries <= MaxRetries + 1
    /\ task[j] \in {"dropRetry", "dropRetrySave", "retrying", "requeue"} =>
        mem[j].retries <= MaxRetries
    /\ task[j] \in {"retrying", "requeue"} => mem[j].state = "RETRYING"
    /\ task[j] \in {"retrying", "dropFinal", "dropFinalSave"} => saved[j].state \in Failable
    /\ task[j] = "requeue" => saved[j] = mem[j]
    /\ task[j] \in {"dropFinal", "dropFinalSave"} => mem[j].state = "FAILED"

JobInv(j) ==
    /\ PlaceInv(j) /\ WaitInv(j) /\ HandInv(j) /\ TaskInv(j)
    /\ attempts[j] <= MaxRetries + 1

LoopInv == loop \in {"top", "pop", "stopped"} <=> held = NoJob

IInv ==
    /\ TypeOK
    /\ IsInjective(ready)
    /\ LoopInv
    /\ \A j \in Jobs : JobInv(j)
-----------------------------------------------------------------------------
(* What a step leaves alone. *)

RedisType ==
    /\ saved \in [Jobs -> Records]
    /\ ready \in Seq(Jobs)
    /\ delayed \subseteq Jobs /\ due \subseteq delayed
    /\ active \subseteq Jobs /\ jobIds \subseteq Jobs

(* The invariant of a job survives a step that touches nothing of the job. *)
LEMMA Frame ==
    ASSUME NEW j \in Jobs, JobInv(j),
           InReady(j)' <=> InReady(j), (j \in delayed)' <=> j \in delayed,
           InHand(j)' <=> InHand(j), InHand(j) => loop' = loop,
           saved'[j] = saved[j], mem'[j] = mem[j], task'[j] = task[j],
           acct'[j] = acct[j], attempts'[j] = attempts[j], enq'[j] = enq[j]
    PROVE  JobInv(j)'
  <1>1. PlaceInv(j)'
    BY DEF JobInv, PlaceInv, Waiting, Live, Submitted
  <1>2. WaitInv(j)'
    BY DEF JobInv, WaitInv, Waiting
  <1>3. HandInv(j)'
    BY DEF JobInv, HandInv
  <1>4. TaskInv(j)'
    BY DEF JobInv, TaskInv, Live
  <1> QED
    BY <1>1, <1>2, <1>3, <1>4 DEF JobInv

(* A step that touches no job: only accounts, the cleanup or the clock. *)
LEMMA Quiet ==
    ASSUME IInv, UNCHANGED jobVars, UNCHANGED <<saved, ready, delayed>>
    PROVE  /\ IsInjective(ready)' /\ LoopInv' /\ \A j \in Jobs : JobInv(j)'
  <1>1. IsInjective(ready)' /\ LoopInv'
    BY DEF IInv, LoopInv, jobVars
  <1>2. ASSUME NEW j \in Jobs PROVE JobInv(j)'
    BY Frame DEF IInv, jobVars, InReady, InHand
  <1> QED
    BY <1>1, <1>2

-----------------------------------------------------------------------------
(* What a Redis command does, with or without effect. *)

SavePoints == {"assignSave", "wait", "activateSave", "clearSave",
               "dropRetrySave", "retrying", "dropFinalSave"}
QueuePoints == {"delay", "requeue"}

(* A command about job k writes at most the record of k, and only a job    *)
(* that is nowhere else enters a queue.                                    *)
LEMMA CommandEffect ==
    ASSUME TypeOK, IsInjective(ready), NEW p, NEW k \in Jobs,
           Command(p, k) \/ UNCHANGED redisVars,
           p \in QueuePoints => ~Waiting(k)
    PROVE  /\ RedisType'
           /\ IsInjective(ready)'
           /\ \A j \in Jobs \ {k} :
                /\ saved'[j] = saved[j]
                /\ InReady(j)' <=> InReady(j)
                /\ (j \in delayed)' <=> j \in delayed
           /\ saved'[k] = saved[k] \/ (p \in SavePoints /\ saved'[k] = mem[k])
           /\ p \notin QueuePoints => ready' = ready /\ delayed' = delayed
           /\ p \in QueuePoints => saved' = saved /\ ~(InReady(k) /\ k \in delayed)'
  <1> USE DEF RedisType, TypeOK, InReady
  <1>1. CASE UNCHANGED redisVars
    BY <1>1 DEF redisVars, Waiting
  <1>2. CASE Command(p, k) /\ p \notin QueuePoints
    BY <1>2 DEF Command, HSetActive, HDelActive, SaveJob, QueuePoints, SavePoints
  <1>3. CASE p \in QueuePoints /\ AddDelayed(k)
    BY <1>3 DEF AddDelayed, Waiting, QueuePoints
  <1>4. CASE p \in QueuePoints /\ PushReady(k)
    <2>1. k \notin ToSet(ready) /\ k \notin delayed
      BY <1>4 DEF Waiting
    <2>2. /\ Append(ready, k) \in Seq(Jobs) /\ IsInjective(Append(ready, k))
          /\ ToSet(Append(ready, k)) = ToSet(ready) \cup {k}
      BY <2>1, AppendNew
    <2> QED
      BY <1>4, <2>1, <2>2 DEF PushReady
  <1>5. Command(p, k) /\ p \in QueuePoints => AddDelayed(k) \/ PushReady(k)
    BY DEF Command, QueuePoints
  <1> QED
    BY <1>1, <1>2, <1>3, <1>4, <1>5

(* A save writes the record of the job. *)
LEMMA CommandSaves ==
    ASSUME TypeOK, NEW p \in SavePoints, NEW k \in Jobs, Command(p, k)
    PROVE  saved'[k] = mem[k]
  BY DEF Command, SavePoints, SaveJob, TypeOK

-----------------------------------------------------------------------------
(* The steps of a coroutine that write nothing to Redis. *)

(* A record whose state or retries change is a record. *)
LEMMA RecordUpdate ==
    ASSUME NEW r \in Records
    PROVE  /\ r.state \in States /\ r.retries \in Nat
           /\ \A st \in States : [r EXCEPT !.state = st] \in Records
           /\ [r EXCEPT !.retries = @ + 1] \in Records
  BY DEF Records

(* Such a step keeps the invariant if it keeps the types of what it writes *)
(* and the part of the invariant about its own job.                        *)
LEMMA TaskOnly ==
    ASSUME IInv, NEW k \in Jobs, Live(k), NEW point \in TaskPoints, NEW record \in Records,
           GoTo(k, point), mem' = [mem EXCEPT ![k] = record],
           status' \in [Accounts -> Statuses], running' \in [Accounts -> Nat],
           up' \in [Accounts -> BOOLEAN], faults' \in Disturbances,
           UNCHANGED <<redisVars, enq, loop, held, acct, attempts, open, stale, aged>>,
           TaskInv(k)'
    PROVE  IInv'
  <1>0. TypeOK /\ JobInv(k)
    BY DEF IInv
  <1>1. IsInjective(ready)' /\ LoopInv'
    BY DEF IInv, LoopInv, redisVars
  <1>2. task' \in [Jobs -> TaskPoints] /\ mem' \in [Jobs -> Records]
    BY <1>0 DEF TypeOK, GoTo
  <1>3. TypeOK'
    BY <1>0, <1>2 DEF TypeOK, redisVars
  <1>4. ASSUME NEW j \in Jobs \ {k} PROVE JobInv(j)'
    <2>1. task'[j] = task[j] /\ mem'[j] = mem[j]
      BY <1>0 DEF TypeOK, GoTo
    <2> QED
      BY <2>1, Frame DEF IInv, redisVars, InReady, InHand
  <1>5. ~Waiting(k) /\ ~InHand(k) /\ Submitted(k) /\ attempts[k] <= MaxRetries + 1
    BY <1>0 DEF JobInv, PlaceInv, Waiting
  <1>6. JobInv(k)'
    BY <1>5 DEF JobInv, PlaceInv, WaitInv, HandInv, Waiting, InReady, InHand, Submitted, redisVars
  <1> QED
    BY <1>1, <1>3, <1>4, <1>6 DEF IInv

(* mark_job_started: a job whose browser runs starts on its account. *)
LEMMA StartOnInv ==
    ASSUME IInv, NEW k \in Jobs, task[k] \in {"spawned", "connecting"}, StartOn(k),
           UNCHANGED <<redisVars, enq, loop, held, acct, attempts, up, open, stale, aged, faults>>
    PROVE  IInv'
  <1>1. TypeOK /\ TaskInv(k) /\ Live(k)
    BY DEF IInv, JobInv, Live
  <1>2. acct[k] \in Accounts /\ mem[k] \in Records
    BY <1>1 DEF TaskInv, TypeOK
  <1> DEFINE record == [mem[k] EXCEPT !.state = "PROCESSING"]
  <1>3. record \in Records /\ mem' = [mem EXCEPT ![k] = record]
    BY <1>2, RecordUpdate DEF StartOn, States
  <1>4. status' \in [Accounts -> Statuses] /\ running' \in [Accounts -> Nat]
    BY <1>1, <1>2 DEF StartOn, MarkJobStarted, TypeOK, Statuses
  <1>5. mem'[k] = record /\ task'[k] = "activate"
    BY <1>1, <1>3 DEF TypeOK, StartOn, GoTo
  <1>6. TaskInv(k)'
    BY <1>1, <1>2, <1>5 DEF TaskInv, redisVars, Live, Records
  <1> QED
    BY <1>1, <1>3, <1>4, <1>6, TaskOnly DEF StartOn, TaskPoints, TaskWrites, TypeOK

LEMMA RunJobInv == ASSUME IInv, NEW k \in Jobs, RunJob(k) PROVE IInv'
  <1>1. TypeOK /\ TaskInv(k) /\ Live(k)
    BY DEF IInv, JobInv, Live, RunJob
  <1>2. CASE StartOn(k)
    BY <1>2, StartOnInv DEF RunJob
  <1>3. CASE GoTo(k, "starting") /\ UNCHANGED <<mem, running, status>>
    <2>1. task'[k] = "starting" /\ mem' = [mem EXCEPT ![k] = mem[k]]
      BY <1>1, <1>3 DEF TypeOK, GoTo
    <2>2. TaskInv(k)'
      BY <1>1, <1>3, <2>1 DEF TaskInv, RunJob, redisVars, Live
    <2> QED
      BY <1>1, <1>3, <2>1, <2>2, TaskOnly DEF RunJob, TaskPoints, TypeOK
  <1> QED
    BY <1>2, <1>3 DEF RunJob

LEMMA LaunchBrowserInv == ASSUME IInv, NEW k \in Jobs, LaunchBrowser(k) PROVE IInv'
  <1>1. TypeOK /\ TaskInv(k) /\ Live(k)
    BY DEF IInv, JobInv, Live, LaunchBrowser
  <1>2. task'[k] = "connecting" /\ mem' = [mem EXCEPT ![k] = mem[k]] /\ mem'[k] = mem[k]
    BY <1>1 DEF TypeOK, GoTo, LaunchBrowser
  <1>3. TaskInv(k)'
    BY <1>1, <1>2 DEF TaskInv, LaunchBrowser, redisVars, Live
  <1>4. up' \in [Accounts -> BOOLEAN]
    BY <1>1 DEF TypeOK, LaunchBrowser
  <1> QED
    BY <1>1, <1>2, <1>3, <1>4, TaskOnly DEF LaunchBrowser, TaskPoints, TypeOK

LEMMA BrowserReadyInv == ASSUME IInv, NEW k \in Jobs, BrowserReady(k) PROVE IInv'
  BY StartOnInv DEF BrowserReady

(* The account variables after mark_job_finished have their types. *)
LEMMA FinishedType ==
    ASSUME TypeOK, NEW a \in Accounts, NEW after \in Statuses, MarkJobFinished(a, after)
    PROVE  status' \in [Accounts -> Statuses] /\ running' \in [Accounts -> Nat]
  <1>1. Released(running[a]) \in Nat
    BY DEF TypeOK, Released
  <1> QED
    BY <1>1 DEF TypeOK, MarkJobFinished

(* _handle_failure outside the reach of Redis: one retry is used up. *)
LEMMA HandleFailureInv ==
    ASSUME IInv, NEW k \in Jobs, task[k] \in {"starting", "connecting", "running"},
           HandleFailure(k), faults' \in Disturbances,
           UNCHANGED <<redisVars, enq, loop, held, acct, attempts, up, open, stale, aged>>
    PROVE  IInv'
  <1>1. TypeOK /\ TaskInv(k) /\ Live(k)
    BY DEF IInv, JobInv, Live
  <1>2. acct[k] \in Accounts /\ mem[k] \in Records
    BY <1>1 DEF TaskInv, TypeOK
  <1> DEFINE record == [mem[k] EXCEPT !.retries = @ + 1]
  <1>3. record \in Records /\ mem' = [mem EXCEPT ![k] = record]
    BY <1>2, RecordUpdate DEF HandleFailure
  <1>4. status' \in [Accounts -> Statuses] /\ running' \in [Accounts -> Nat]
    BY <1>1, <1>2, FinishedType DEF HandleFailure, Statuses
  <1>5. mem'[k] = record /\ task'[k] = "recovering"
    BY <1>1, <1>3 DEF TypeOK, HandleFailure, GoTo
  <1>6. record.state = mem[k].state /\ record.retries = mem[k].retries + 1
    BY <1>2 DEF Records
  <1>7. attempts[k] \in Nat /\ mem[k].retries \in Nat /\ MaxRetries \in Nat
    BY <1>1, <1>2, LimitsAssumption DEF TypeOK, Records
  <1>8. TaskInv(k)'
    BY <1>1, <1>2, <1>5, <1>6, <1>7 DEF TaskInv, FailingStates, redisVars, Live
  <1> QED
    BY <1>1, <1>3, <1>4, <1>8, TaskOnly DEF HandleFailure, TaskPoints, TypeOK

LEMMA FaultType ==
    ASSUME TypeOK, NEW kind, NEW hit \in SUBSET Jobs, Fault(kind, hit)
    PROVE  faults' \in Disturbances
  BY DEF TypeOK, Fault, Disturbances

LEMMA BrowserFailsInv == ASSUME IInv, NEW k \in Jobs, BrowserFails(k) PROVE IInv'
  BY HandleFailureInv, FaultType DEF BrowserFails, IInv

LEMMA JobFailsInv == ASSUME IInv, NEW k \in Jobs, JobFails(k) PROVE IInv'
  BY HandleFailureInv DEF JobFails, IInv, TypeOK

(* The executor returns, or the login is missing: the job has an outcome. *)
LEMMA OutcomeInv ==
    ASSUME IInv, NEW k \in Jobs, task[k] = "running", faults' \in Disturbances,
           NEW st \in {"COMPLETED", "FAILED"}, NEW after \in Statuses,
           mem' = [mem EXCEPT ![k].state = st], MarkJobFinished(acct[k], after),
           GoTo(k, IF st = "COMPLETED" THEN "clear" ELSE "dropFinal"),
           UNCHANGED <<redisVars, enq, loop, held, acct, attempts, up, open, stale, aged>>
    PROVE  IInv'
  <1>1. TypeOK /\ TaskInv(k) /\ Live(k)
    BY DEF IInv, JobInv, Live
  <1>2. acct[k] \in Accounts /\ mem[k] \in Records
    BY <1>1 DEF TaskInv, TypeOK
  <1> DEFINE record == [mem[k] EXCEPT !.state = st]
             point == IF st = "COMPLETED" THEN "clear" ELSE "dropFinal"
  <1>3. record \in Records /\ mem' = [mem EXCEPT ![k] = record]
    BY <1>2, RecordUpdate DEF States
  <1>4. status' \in [Accounts -> Statuses] /\ running' \in [Accounts -> Nat]
    BY <1>1, <1>2, FinishedType
  <1>5. mem'[k] = record /\ task'[k] = point /\ record.state = st /\ record.retries = mem[k].retries
    BY <1>1, <1>2, <1>3 DEF TypeOK, GoTo, Records
  <1>6. TaskInv(k)'
    BY <1>1, <1>2, <1>5 DEF TaskInv, Failable, redisVars, Live
  <1>7. point \in TaskPoints
    BY DEF TaskPoints, TaskWrites
  <1> QED
    BY <1>1, <1>3, <1>4, <1>6, <1>7, TaskOnly DEF TypeOK

LEMMA JobSucceedsInv == ASSUME IInv, NEW k \in Jobs, JobSucceeds(k) PROVE IInv'
  <1>1. StatusWhenFinished(acct[k]) \in Statuses
    BY DEF StatusWhenFinished, Statuses
  <1> QED
    BY <1>1, OutcomeInv DEF JobSucceeds, IInv, TypeOK

LEMMA LoginRequiredInv == ASSUME IInv, NEW k \in Jobs, LoginRequired(k) PROVE IInv'
  BY OutcomeInv, FaultType DEF LoginRequired, Statuses, IInv

LEMMA RecoveredInv == ASSUME IInv, NEW k \in Jobs, Recovered(k) PROVE IInv'
  <1>1. TypeOK /\ TaskInv(k) /\ Live(k)
    BY DEF IInv, JobInv, Live, Recovered
  <1>2. mem[k] \in Records /\ acct[k] \in Accounts
    BY <1>1 DEF TaskInv, TypeOK
  <1>3. status' \in [Accounts -> Statuses] /\ up' \in [Accounts -> BOOLEAN]
    BY <1>1, <1>2 DEF Recovered, TypeOK, Statuses
  <1>4. CASE MayRetry(mem[k]) /\ GoTo(k, "dropRetry") /\ UNCHANGED mem
    <2>1. task'[k] = "dropRetry" /\ mem' = [mem EXCEPT ![k] = mem[k]]
      BY <1>1, <1>4 DEF TypeOK, GoTo
    <2>2. TaskInv(k)'
      BY <1>1, <1>4, <2>1 DEF TaskInv, Recovered, MayRetry, redisVars, Live
    <2> QED
      BY <1>1, <1>2, <1>3, <1>4, <2>1, <2>2, TaskOnly DEF Recovered, TaskPoints, TaskWrites, TypeOK
  <1>5. CASE mem' = [mem EXCEPT ![k].state = "FAILED"] /\ GoTo(k, "dropFinal")
    <2> DEFINE record == [mem[k] EXCEPT !.state = "FAILED"]
    <2>1. record \in Records /\ mem' = [mem EXCEPT ![k] = record]
      BY <1>2, <1>5, RecordUpdate DEF States
    <2>2. task'[k] = "dropFinal" /\ mem'[k].state = "FAILED"
      BY <1>1, <1>2, <1>5, <2>1 DEF TypeOK, GoTo, Records
    <2>3. TaskInv(k)'
      BY <1>1, <2>2 DEF TaskInv, Recovered, FailingStates, Failable, redisVars, Live
    <2> QED
      BY <1>1, <1>3, <1>5, <2>1, <2>3, TaskOnly DEF Recovered, TaskPoints, TaskWrites, TypeOK
  <1> QED
    BY <1>4, <1>5 DEF Recovered

LEMMA RecoveryRaisesInv == ASSUME IInv, NEW k \in Jobs, RecoveryRaises(k) PROVE IInv'
  <1>1. TypeOK /\ TaskInv(k) /\ Live(k)
    BY DEF IInv, JobInv, Live, RecoveryRaises
  <1>2. task'[k] = "none" /\ mem' = [mem EXCEPT ![k] = mem[k]] /\ up' \in [Accounts -> BOOLEAN]
    BY <1>1 DEF TypeOK, GoTo, RecoveryRaises
  <1>3. TaskInv(k)'
    BY <1>2 DEF TaskInv, Live
  <1> QED
    BY <1>1, <1>2, <1>3, FaultType, TaskOnly DEF RecoveryRaises, TaskPoints, TypeOK

-----------------------------------------------------------------------------
(* The steps of a coroutine that write to Redis. *)

(* They keep the invariant if they keep the part of it about their job. *)
LEMMA TaskMoves ==
    ASSUME IInv, NEW k \in Jobs, Live(k), NEW point \in TaskPoints, NEW record \in Records,
           GoTo(k, point), mem' = [mem EXCEPT ![k] = record],
           NEW n \in Nat, attempts' = [attempts EXCEPT ![k] = n],
           status' \in [Accounts -> Statuses], running' \in [Accounts -> Nat],
           faults' \in Disturbances,
           RedisType', IsInjective(ready)',
           \A j \in Jobs \ {k} :
                /\ saved'[j] = saved[j]
                /\ InReady(j)' <=> InReady(j)
                /\ (j \in delayed)' <=> j \in delayed,
           UNCHANGED <<enq, loop, held, acct, up, open, stale, aged>>,
           JobInv(k)'
    PROVE  IInv'
  <1>1. TypeOK
    BY DEF IInv
  <1>2. task' \in [Jobs -> TaskPoints] /\ mem' \in [Jobs -> Records] /\ attempts' \in [Jobs -> Nat]
    BY <1>1 DEF TypeOK, GoTo
  <1>3. TypeOK'
    BY <1>1, <1>2 DEF TypeOK, RedisType
  <1>4. LoopInv'
    BY DEF IInv, LoopInv
  <1>5. ASSUME NEW j \in Jobs \ {k} PROVE JobInv(j)'
    <2>1. task'[j] = task[j] /\ mem'[j] = mem[j] /\ attempts'[j] = attempts[j]
      BY <1>1 DEF TypeOK, GoTo
    <2> QED
      BY <2>1, Frame DEF IInv, InHand
  <1> QED
    BY <1>3, <1>4, <1>5 DEF IInv

(* What JobInv says of a job whose coroutine is at a write. *)
LEMMA AtWrite ==
    ASSUME IInv, NEW k \in Jobs, task[k] \in TaskWrites
    PROVE  /\ TypeOK /\ TaskInv(k) /\ Live(k) /\ ~Waiting(k) /\ ~InHand(k) /\ Submitted(k)
           /\ acct[k] \in Accounts /\ mem[k] \in Records /\ saved[k] \in Records
           /\ attempts[k] \in Nat /\ attempts[k] <= MaxRetries + 1
           /\ mem[k].retries \in Nat /\ MaxRetries \in Nat
  <1>1. TypeOK /\ JobInv(k) /\ Live(k)
    BY DEF IInv, Live, TaskWrites
  <1> QED
    BY <1>1, LimitsAssumption DEF JobInv, PlaceInv, TaskInv, TypeOK, Waiting, Records

LEMMA TaskCommandInv == ASSUME IInv, NEW k \in Jobs, TaskCommand(k) PROVE IInv'
  <1> DEFINE p == task[k]
             record == IF p = "dropRetrySave" THEN [mem[k] EXCEPT !.state = "RETRYING"] ELSE mem[k]
             n == IF p = "activateSave" THEN attempts[k] + 1 ELSE attempts[k]
  <1>1. p \in TaskWrites /\ Command(p, k) /\ GoTo(k, AfterWrite(p))
    BY DEF TaskCommand
  <1>2. /\ TypeOK /\ TaskInv(k) /\ Live(k) /\ ~Waiting(k) /\ ~InHand(k) /\ Submitted(k)
        /\ acct[k] \in Accounts /\ mem[k] \in Records /\ saved[k] \in Records
        /\ attempts[k] \in Nat /\ attempts[k] <= MaxRetries + 1
        /\ mem[k].retries \in Nat /\ MaxRetries \in Nat
    BY <1>1, AtWrite
  <1>3. record \in Records /\ mem' = [mem EXCEPT ![k] = record]
    BY <1>2, RecordUpdate DEF TaskCommand, States, TypeOK
  <1>4. n \in Nat /\ attempts' = [attempts EXCEPT ![k] = n]
    <2>1. CASE p = "activateSave"
      BY <1>2, <2>1 DEF TaskCommand
    <2>2. CASE p # "activateSave"
      BY <1>2, <2>2 DEF TaskCommand, TypeOK
    <2> QED
      BY <2>1, <2>2
  <1>5. /\ RedisType'
        /\ IsInjective(ready)'
        /\ \A j \in Jobs \ {k} :
              /\ saved'[j] = saved[j]
              /\ InReady(j)' <=> InReady(j)
              /\ (j \in delayed)' <=> j \in delayed
        /\ saved'[k] = saved[k] \/ (p \in SavePoints /\ saved'[k] = mem[k])
        /\ p \notin QueuePoints => ready' = ready /\ delayed' = delayed
        /\ p \in QueuePoints => saved' = saved /\ ~(InReady(k) /\ k \in delayed)'
    BY <1>1, <1>2, CommandEffect DEF IInv
  <1>6. p \in SavePoints => saved'[k] = mem[k]
    BY <1>1, <1>2, CommandSaves
  <1>7. AfterWrite(p) \in TaskPoints
    BY <1>1 DEF AfterWrite, TaskPoints, TaskWrites
  <1>8. task'[k] = AfterWrite(p) /\ mem'[k] = record /\ attempts'[k] = n
    BY <1>1, <1>2, <1>3, <1>4 DEF TypeOK, GoTo
  <1>9. record.retries = mem[k].retries
        /\ (p = "dropRetrySave" => record.state = "RETRYING")
        /\ (p # "dropRetrySave" => record = mem[k])
    BY <1>2 DEF Records
  <1>10. UNCHANGED <<enq, loop, held, acct, accountVars, stale, aged, faults>>
    BY DEF TaskCommand
  <1>11. PlaceInv(k)' /\ HandInv(k)'
    BY <1>1, <1>2, <1>5, <1>8, <1>10
       DEF PlaceInv, HandInv, Waiting, InHand, InReady, Live, Submitted, AfterWrite, TaskWrites, QueuePoints
  <1>12. WaitInv(k)'
    <2>1. CASE p \in QueuePoints
      <3>1. p = "requeue"
        BY <1>1, <2>1 DEF TaskWrites, QueuePoints
      <3>2. /\ saved'[k] = mem[k] /\ mem[k].state = "RETRYING" /\ mem[k].retries <= MaxRetries
            /\ attempts'[k] <= mem[k].retries
        BY <1>2, <1>5, <1>8, <2>1, <3>1 DEF TaskInv
      <3> QED
        BY <1>2, <3>2 DEF WaitInv
    <2>2. CASE p \notin QueuePoints
      BY <1>2, <1>5, <1>10, <2>2 DEF WaitInv, Waiting, InHand, InReady
    <2> QED
      BY <2>1, <2>2
  <1>13. TaskInv(k)'
    BY <1>1, <1>2, <1>4, <1>5, <1>6, <1>8, <1>9, <1>10
       DEF TaskInv, AfterWrite, TaskWrites, SavePoints, QueuePoints, Live, FailingStates, Failable
  <1>14. n <= MaxRetries + 1
    BY <1>1, <1>2 DEF TaskInv
  <1>15. JobInv(k)'
    BY <1>8, <1>11, <1>12, <1>13, <1>14 DEF JobInv
  <1> QED
    BY <1>1, <1>2, <1>3, <1>4, <1>5, <1>7, <1>10, <1>15, TaskMoves DEF accountVars, TypeOK

LEMMA TaskRaisesInv == ASSUME IInv, NEW k \in Jobs, TaskRaises(k) PROVE IInv'
  <1> DEFINE p == task[k]
  <1>1. p \in TaskWrites /\ (Command(p, k) \/ UNCHANGED redisVars) /\ "redis" \in Faults
    BY DEF TaskRaises, Fault
  <1>2. /\ TypeOK /\ TaskInv(k) /\ Live(k) /\ ~Waiting(k) /\ ~InHand(k) /\ Submitted(k)
        /\ acct[k] \in Accounts /\ mem[k] \in Records /\ saved[k] \in Records
        /\ attempts[k] \in Nat /\ attempts[k] <= MaxRetries + 1
        /\ mem[k].retries \in Nat /\ MaxRetries \in Nat
    BY <1>1, AtWrite
  <1>3. /\ RedisType'
        /\ IsInjective(ready)'
        /\ \A j \in Jobs \ {k} :
              /\ saved'[j] = saved[j]
              /\ InReady(j)' <=> InReady(j)
              /\ (j \in delayed)' <=> j \in delayed
        /\ saved'[k] = saved[k] \/ (p \in SavePoints /\ saved'[k] = mem[k])
        /\ p \notin QueuePoints => ready' = ready /\ delayed' = delayed
        /\ p \in QueuePoints => saved' = saved /\ ~(InReady(k) /\ k \in delayed)'
    BY <1>1, <1>2, CommandEffect DEF IInv
  <1>4. /\ UNCHANGED <<enq, loop, held, acct, attempts, up, open, stale, aged>>
        /\ faults' \in Disturbances /\ attempts' = [attempts EXCEPT ![k] = attempts[k]]
    BY <1>2, FaultType DEF TaskRaises, TypeOK
  <1>5. CASE p \in {"clear", "clearSave"} /\ HandleFailure(k)
    <2> DEFINE record == [mem[k] EXCEPT !.retries = @ + 1]
    <2>1. record \in Records /\ mem' = [mem EXCEPT ![k] = record]
      BY <1>2, <1>5, RecordUpdate DEF HandleFailure
    <2>2. status' \in [Accounts -> Statuses] /\ running' \in [Accounts -> Nat]
      BY <1>2, <1>5, FinishedType DEF HandleFailure, Statuses
    <2>3. mem'[k] = record /\ task'[k] = "recovering"
      BY <1>2, <1>5, <2>1 DEF TypeOK, HandleFailure, GoTo
    <2>4. record.state = mem[k].state /\ record.retries = mem[k].retries + 1
      BY <1>2 DEF Records
    <2>5. TaskInv(k)'
      BY <1>1, <1>2, <1>3, <1>4, <1>5, <2>3, <2>4 DEF TaskInv, FailingStates, Live
    <2>6. JobInv(k)'
      BY <1>2, <1>3, <1>4, <1>5, <2>5
         DEF JobInv, PlaceInv, WaitInv, HandInv, Waiting, InReady, InHand, Submitted, QueuePoints
    <2> QED
      BY <1>2, <1>3, <1>4, <1>5, <2>1, <2>2, <2>6, TaskMoves DEF HandleFailure, TaskPoints
  <1>6. CASE p \notin {"clear", "clearSave"} /\ GoTo(k, "none") /\ UNCHANGED <<mem, running, status>>
    <2>1. mem' = [mem EXCEPT ![k] = mem[k]] /\ task'[k] = "none"
      BY <1>2, <1>6 DEF TypeOK, GoTo
    <2>2. TaskInv(k)'
      BY <2>1 DEF TaskInv, Live
    <2>3. PlaceInv(k)' /\ HandInv(k)'
      BY <1>2, <1>3, <1>4, <2>1
         DEF PlaceInv, HandInv, Waiting, InHand, InReady, Live, Submitted, QueuePoints
    <2>4. WaitInv(k)'
      <3>1. CASE p \in QueuePoints
        <4>1. p = "requeue"
          BY <1>1, <3>1 DEF TaskWrites, QueuePoints
        <4>2. /\ saved'[k] = mem[k] /\ mem[k].state = "RETRYING" /\ mem[k].retries <= MaxRetries
              /\ attempts'[k] <= mem[k].retries
          BY <1>2, <1>3, <1>4, <3>1, <4>1 DEF TaskInv
        <4> QED
          BY <4>2 DEF WaitInv
      <3>2. CASE p \notin QueuePoints
        BY <1>2, <1>3, <1>4, <3>2 DEF WaitInv, Waiting, InReady, InHand
      <3> QED
        BY <3>1, <3>2
    <2>5. JobInv(k)'
      BY <1>2, <1>4, <2>2, <2>3, <2>4 DEF JobInv
    <2> QED
      BY <1>2, <1>3, <1>4, <1>6, <2>1, <2>5, TaskMoves DEF TaskPoints, TypeOK
  <1> QED
    BY <1>5, <1>6 DEF TaskRaises

-----------------------------------------------------------------------------
(* Submitting a job. *)

(* A command of enqueue, answered or not, and the next point of the handler. *)
LEMMA EnqueueEffect ==
    ASSUME IInv, NEW k \in Jobs, enq[k] \in {"new", "saved", "pushed"},
           EnqueueCommand(k) \/ UNCHANGED redisVars,
           NEW point \in {"saved", "pushed", "done", "failed"},
           point = "saved" => enq[k] = "new" /\ SaveJob(k, NewRecord),
           enq' = [enq EXCEPT ![k] = point],
           UNCHANGED <<loop, held, task, mem, acct, attempts, accountVars, stale, aged>>,
           faults' \in Disturbances
    PROVE  IInv'
  <1>1. TypeOK /\ JobInv(k) /\ MaxRetries \in Nat
    BY LimitsAssumption DEF IInv
  <1>2. NewRecord \in Records
    BY DEF NewRecord, Records, States
  <1>3. enq[k] = "saved" => k \notin ToSet(ready) /\ k \notin delayed
    BY <1>1 DEF JobInv, PlaceInv, Submitted, Waiting, InReady
  <1>4. /\ RedisType' /\ IsInjective(ready)'
        /\ \A j \in Jobs \ {k} :
              /\ saved'[j] = saved[j]
              /\ InReady(j)' <=> InReady(j)
              /\ (j \in delayed)' <=> j \in delayed
        /\ saved'[k] = saved[k] \/ (enq[k] = "new" /\ saved'[k] = NewRecord)
        /\ enq[k] # "saved" => ready' = ready
        /\ delayed' = delayed
    <2> USE DEF RedisType, TypeOK, InReady
    <2>1. CASE UNCHANGED redisVars
      BY <1>1, <2>1 DEF IInv, redisVars
    <2>2. CASE enq[k] = "new" /\ SaveJob(k, NewRecord)
      BY <1>1, <1>2, <2>2 DEF IInv, SaveJob
    <2>3. CASE enq[k] = "saved" /\ PushReady(k)
      <3>1. /\ Append(ready, k) \in Seq(Jobs) /\ IsInjective(Append(ready, k))
            /\ ToSet(Append(ready, k)) = ToSet(ready) \cup {k}
        BY <1>1, <1>3, <2>3, AppendNew DEF IInv
      <3> QED
        BY <1>1, <2>3, <3>1 DEF PushReady
    <2>4. CASE enq[k] = "pushed" /\ IndexJob(k)
      BY <1>1, <2>4 DEF IInv, IndexJob
    <2> QED
      BY <2>1, <2>2, <2>3, <2>4 DEF EnqueueCommand
  <1>5. enq' \in [Jobs -> {"new", "saved", "pushed", "done", "failed"}] /\ enq'[k] = point
    BY <1>1 DEF TypeOK
  <1>6. TypeOK'
    BY <1>1, <1>4, <1>5 DEF TypeOK, RedisType, accountVars
  <1>7. LoopInv'
    BY DEF IInv, LoopInv
  <1>8. ASSUME NEW j \in Jobs \ {k} PROVE JobInv(j)'
    <2>1. enq'[j] = enq[j]
      BY <1>1 DEF TypeOK
    <2> QED
      BY <2>1, <1>4, Frame DEF IInv, InHand
  <1>9. JobInv(k)'
    <2>1. point = "saved" => saved'[k] = NewRecord
      BY <1>1 DEF SaveJob, TypeOK
    <2>2. CASE enq[k] = "pushed"
      <3>1. saved'[k] = saved[k] /\ ready' = ready /\ delayed' = delayed
        BY <1>4, <2>2
      <3>2. Submitted(k) /\ (Submitted(k))' /\ enq'[k] # "new" /\ enq'[k] # "saved"
        BY <1>5, <2>2 DEF Submitted
      <3> QED
        BY <1>1, <3>1, <3>2 DEF JobInv, PlaceInv, WaitInv, HandInv, TaskInv,
                                Waiting, InReady, InHand, Live
    <2>3. CASE enq[k] \in {"new", "saved"}
      <3>1. /\ ~Waiting(k) /\ ~InHand(k) /\ ~Live(k) /\ attempts[k] = 0
            /\ enq[k] = "saved" => saved[k] = NewRecord
        BY <1>1, <2>3 DEF JobInv, PlaceInv, Submitted
      <3>2. TaskInv(k)' /\ HandInv(k)' /\ ~InHand(k)' /\ ~Live(k)'
        BY <3>1 DEF TaskInv, HandInv, Live, InHand
      <3>3. WaitInv(k)'
        <4>1. Waiting(k)' => enq[k] = "saved" /\ saved'[k] = NewRecord
          BY <1>4, <3>1 DEF Waiting, InReady
        <4> QED
          BY <1>1, <3>1, <3>2, <4>1 DEF WaitInv, NewRecord
      <3>4. PlaceInv(k)'
        BY <1>4, <1>5, <2>1, <3>1, <3>2 DEF PlaceInv, Waiting, InReady, Submitted
      <3> QED
        BY <1>1, <3>1, <3>2, <3>3, <3>4 DEF JobInv
    <2> QED
      BY <2>2, <2>3
  <1> QED
    BY <1>4, <1>6, <1>7, <1>8, <1>9 DEF IInv

LEMMA EnqueueInv == ASSUME IInv, NEW k \in Jobs, Enqueue(k) PROVE IInv'
  <1> DEFINE point == CASE enq[k] = "new" -> "saved" [] enq[k] = "saved" -> "pushed" [] OTHER -> "done"
  <1>1. TypeOK
    BY DEF IInv
  <1>2. enq[k] \in {"new", "saved", "pushed"} /\ EnqueueCommand(k)
    BY DEF Enqueue, EnqueueCommand
  <1>3. enq' = [enq EXCEPT ![k] = point] /\ point \in {"saved", "pushed", "done", "failed"}
    BY <1>1 DEF Enqueue, TypeOK
  <1>4. point = "saved" => enq[k] = "new" /\ SaveJob(k, NewRecord)
    BY <1>2 DEF EnqueueCommand
  <1>5. UNCHANGED <<loop, held, task, mem, acct, attempts, accountVars, stale, aged>> /\ faults' \in Disturbances
    BY <1>1 DEF Enqueue, TypeOK
  <1> HIDE DEF point
  <1> QED
    BY <1>2, <1>3, <1>4, <1>5, EnqueueEffect

LEMMA EnqueueRaisesInv == ASSUME IInv, NEW k \in Jobs, EnqueueRaises(k) PROVE IInv'
  <1> DEFINE point == IF enq[k] = "pushed" THEN "done" ELSE "failed"
  <1>1. enq' = [enq EXCEPT ![k] = point] /\ point \in {"done", "failed"}
    BY DEF EnqueueRaises, IInv, TypeOK
  <1>2. faults' \in Disturbances
    BY FaultType DEF EnqueueRaises, IInv
  <1> HIDE DEF point
  <1> QED
    BY <1>1, <1>2, EnqueueEffect DEF EnqueueRaises

-----------------------------------------------------------------------------
(* The scheduling loop. *)

(* The release of a batch, by a loop that goes on, raises or is stopped. *)
LEMMA ReleaseInv ==
    ASSUME IInv, ReleaseDue, held = NoJob, held' = NoJob, loop' \in {"top", "pop", "stopped"},
           faults' \in Disturbances,
           UNCHANGED <<enq, task, mem, acct, attempts, accountVars, stale, aged>>
    PROVE  IInv'
  <1>1. TypeOK /\ UNCHANGED <<enq, held, task, mem, acct, attempts, accountVars, stale, aged>>
    BY DEF IInv
  <1>2. PICK batch \in SUBSET due : \E order \in SetToSeqs(batch) :
            /\ ready' = ready \o order
            /\ delayed' = delayed \ batch
            /\ due' = due \ batch
    BY <1>1 DEF ReleaseDue
  <1>3. PICK order \in SetToSeqs(batch) :
            ready' = ready \o order /\ delayed' = delayed \ batch /\ due' = due \ batch
    BY <1>2
  <1>4. batch \subseteq delayed /\ batch \subseteq Jobs /\ IsFiniteSet(batch)
    BY <1>1, FS_Subset, JobsAssumption DEF TypeOK
  <1>5. order \in Seq(batch) /\ IsInjective(order) /\ ToSet(order) \subseteq batch
    BY <1>4, OrderingType
  <1>6. order \in Seq(Jobs) /\ ready \in Seq(Jobs)
    BY <1>1, <1>4, <1>5, SeqMonotonic DEF TypeOK
  <1>7. ToSet(ready) \cap ToSet(order) = {}
    BY <1>4, <1>5 DEF IInv, JobInv, PlaceInv, InReady
  <1>8. /\ ready' \in Seq(Jobs) /\ IsInjective(ready)'
        /\ ToSet(ready') = ToSet(ready) \cup ToSet(order)
    BY <1>3, <1>5, <1>6, <1>7, ConcatDisjoint DEF IInv
  <1>9. TypeOK'
    BY <1>1, <1>3, <1>8 DEF TypeOK, ReleaseDue, LoopPoints, accountVars
  <1>10. LoopInv'
    BY DEF LoopInv
  <1>11. ASSUME NEW j \in Jobs PROVE JobInv(j)'
    <2>1. CASE j \in ToSet(order)
      <3>1. j \in delayed /\ ~(j \in delayed)'
        BY <1>3, <1>4, <1>5, <2>1
      <3>2. JobInv(j) /\ ~InReady(j) /\ ~InHand(j) /\ ~Live(j) /\ saved' = saved
        BY <1>1, <3>1 DEF IInv, JobInv, PlaceInv, ReleaseDue
      <3> QED
        BY <1>1, <3>1, <3>2, JobsAssumption
           DEF JobInv, PlaceInv, WaitInv, HandInv, TaskInv, Waiting, InHand, Live, Submitted
    <2>2. CASE j \notin ToSet(order)
      <3>1. (InReady(j)' <=> InReady(j)) /\ ((j \in delayed)' => j \in delayed) /\ saved' = saved
        BY <1>1, <1>3, <1>8, <2>2 DEF InReady, ReleaseDue
      <3>2. JobInv(j)
        BY DEF IInv
      <3> QED
        BY <1>1, <3>1, <3>2, JobsAssumption
           DEF JobInv, PlaceInv, WaitInv, HandInv, TaskInv, Waiting, InHand, Live, Submitted
    <2> QED
      BY <2>1, <2>2
  <1> QED
    BY <1>8, <1>9, <1>10, <1>11 DEF IInv

(* RPOP, by a loop that gets the id, or that raises or is stopped and loses it. *)
LEMMA PopInv ==
    ASSUME IInv, PopReady, held = NoJob, faults' \in Disturbances,
           \/ held' = Head(ready) /\ loop' = "fetch"
           \/ held' = NoJob /\ loop' \in {"top", "stopped"},
           UNCHANGED <<enq, task, mem, acct, attempts, accountVars, stale, aged>>
    PROVE  IInv'
  <1>1. TypeOK /\ ready \in Seq(Jobs) /\ IsInjective(ready) /\ ready # <<>>
    BY DEF IInv, PopReady, TypeOK
  <1>2. PICK k \in Jobs :
        /\ k = Head(ready) /\ k \in ToSet(ready)
        /\ Tail(ready) \in Seq(Jobs) /\ IsInjective(Tail(ready))
        /\ ToSet(Tail(ready)) = ToSet(ready) \ {k}
    BY <1>1, TailRest
  <1>3. /\ ready' = Tail(ready) /\ saved' = saved /\ delayed' = delayed
        /\ UNCHANGED <<task, mem, acct, attempts, enq>>
        /\ \/ held' = k /\ loop' = "fetch"
           \/ held' = NoJob /\ loop' \in {"top", "stopped"}
    BY <1>2 DEF PopReady
  <1>4. TypeOK'
    BY <1>1, <1>2, <1>3 DEF TypeOK, PopReady, LoopPoints, accountVars
  <1>5. LoopInv' /\ IsInjective(ready)'
    BY <1>2, <1>3, JobsAssumption DEF LoopInv
  <1>6. ASSUME NEW j \in Jobs \ {k} PROVE JobInv(j)'
    <2>1. j # NoJob
      BY JobsAssumption
    <2>2. (InReady(j)' <=> InReady(j)) /\ ~InHand(j) /\ ~InHand(j)'
      BY <1>1, <1>2, <1>3, <1>6, <2>1 DEF InReady, InHand
    <2> QED
      BY <1>3, <2>2, Frame DEF IInv
  <1>7. JobInv(k)'
    <2>1. JobInv(k) /\ InReady(k) /\ ~InReady(k)' /\ (InHand(k)' => loop' = "fetch")
      BY <1>2, <1>3, JobsAssumption DEF IInv, InReady, InHand
    <2>2. k \notin delayed /\ ~Live(k) /\ Submitted(k)
      BY <2>1 DEF JobInv, PlaceInv, Waiting
    <2>3. PlaceInv(k)' /\ TaskInv(k)'
      BY <1>3, <2>1, <2>2 DEF JobInv, PlaceInv, TaskInv, Waiting, Live, Submitted
    <2>4. WaitInv(k)' /\ HandInv(k)'
      BY <1>3, <2>1 DEF JobInv, WaitInv, HandInv, Waiting, LoopWrites
    <2> QED
      BY <1>3, <2>1, <2>3, <2>4 DEF JobInv
  <1> QED
    BY <1>4, <1>5, <1>6, <1>7 DEF IInv

LEMMA IdleInv ==
    ASSUME IInv, held = NoJob, held' = NoJob, loop' \in {"top", "pop", "stopped"}, faults' \in Disturbances,
           UNCHANGED <<redisVars, enq, task, mem, acct, attempts, accountVars, stale, aged>>
    PROVE  IInv'
  <1>1. TypeOK' /\ LoopInv' /\ IsInjective(ready)'
    BY DEF IInv, TypeOK, LoopInv, LoopPoints, redisVars, accountVars
  <1>2. ASSUME NEW j \in Jobs PROVE JobInv(j)'
    BY JobsAssumption, Frame DEF IInv, redisVars, InReady, InHand
  <1> QED
    BY <1>1, <1>2 DEF IInv

LEMMA LoopReleaseInv == ASSUME IInv, LoopRelease \/ LoopIdle PROVE IInv'
  <1>1. held = NoJob /\ faults' \in Disturbances
    BY DEF LoopRelease, LoopIdle, IInv, LoopInv, TypeOK
  <1> QED
    BY <1>1, ReleaseInv, IdleInv DEF LoopRelease, LoopIdle

LEMMA LoopPopInv == ASSUME IInv, LoopPop PROVE IInv'
  <1>1. held = NoJob /\ faults' \in Disturbances
    BY DEF LoopPop, IInv, LoopInv, TypeOK
  <1> QED
    BY <1>1, PopInv DEF LoopPop

(* The job in the hand of the loop is nowhere else. *)
LEMMA Holding ==
    ASSUME IInv, loop \in LoopWrites \cup {"fetch"}
    PROVE  /\ TypeOK /\ held \in Jobs /\ JobInv(held)
           /\ InHand(held) /\ ~Waiting(held) /\ ~Live(held) /\ Submitted(held)
           /\ saved[held] \in Records /\ mem[held] \in Records
           /\ attempts[held] \in Nat /\ MaxRetries \in Nat
  <1>1. TypeOK /\ held \in Jobs
    BY DEF IInv, LoopInv, TypeOK, LoopWrites
  <1> QED
    BY <1>1, LimitsAssumption DEF IInv, JobInv, PlaceInv, InHand, Waiting, TypeOK

LEMMA LoopSelectInv == ASSUME IInv, LoopSelect PROVE IInv'
  <1>1. /\ TypeOK /\ held \in Jobs /\ JobInv(held)
        /\ InHand(held) /\ ~Waiting(held) /\ ~Live(held) /\ Submitted(held)
        /\ saved[held] \in Records /\ attempts[held] \in Nat /\ MaxRetries \in Nat
    BY Holding DEF LoopSelect
  <1>2. /\ loop = "fetch"
        /\ UNCHANGED <<redisVars, enq, held, task, attempts, running, up, open, stale, aged, faults>>
    BY DEF LoopSelect
  <1>3. status' \in [Accounts -> Statuses]
    BY <1>1 DEF LoopSelect, Refreshed, TypeOK, Statuses
  <1>4. PICK st \in {"ASSIGNED", "RETRYING"} :
            /\ mem' = [mem EXCEPT ![held] = [saved[held] EXCEPT !.state = st]]
            /\ \/ st = "ASSIGNED" /\ loop' = "assign"
                  /\ \E a \in Accounts : acct' = [acct EXCEPT ![held] = a]
               \/ st = "RETRYING" /\ loop' = "wait" /\ acct' = acct
    BY DEF LoopSelect
  <1> DEFINE record == [saved[held] EXCEPT !.state = st]
  <1>5. record \in Records /\ record.state = st /\ record.retries = saved[held].retries
    BY <1>1, RecordUpdate DEF States, Records
  <1>6. /\ mem' \in [Jobs -> Records] /\ mem'[held] = record
        /\ acct' \in [Jobs -> Accounts \cup {NoAccount}]
        /\ st = "ASSIGNED" => acct'[held] \in Accounts
        /\ \A j \in Jobs \ {held} : mem'[j] = mem[j] /\ acct'[j] = acct[j]
    BY <1>1, <1>4, <1>5 DEF TypeOK
  <1>7. TypeOK'
    BY <1>1, <1>2, <1>3, <1>4, <1>6 DEF TypeOK, LoopPoints, LoopWrites, redisVars
  <1>8. LoopInv' /\ IsInjective(ready)'
    BY <1>1, <1>2, <1>4, JobsAssumption DEF IInv, LoopInv, redisVars
  <1>9. ASSUME NEW j \in Jobs \ {held} PROVE JobInv(j)'
    BY <1>2, <1>6, Frame DEF IInv, redisVars, InReady, InHand
  <1>10. JobInv(held)'
    <2>1. /\ saved[held].state \in {"QUEUED", "RETRYING"}
          /\ saved[held].retries <= MaxRetries
          /\ attempts[held] <= saved[held].retries
      BY <1>1, <1>2 DEF JobInv, WaitInv
    <2>2. PlaceInv(held)' /\ TaskInv(held)'
      BY <1>1, <1>2 DEF JobInv, PlaceInv, TaskInv, Waiting, InReady, InHand, Live, Submitted, redisVars
    <2>3. WaitInv(held)'
      BY <1>1, <1>2, <1>4 DEF WaitInv, Waiting, InReady, InHand, redisVars
    <2>4. HandInv(held)'
      BY <1>2, <1>4, <1>5, <1>6, <2>1 DEF HandInv, LoopWrites, InHand, redisVars
    <2> QED
      BY <1>1, <1>2, <2>2, <2>3, <2>4 DEF JobInv
  <1> QED
    BY <1>2, <1>7, <1>8, <1>9, <1>10 DEF IInv, redisVars

(* The loop writes about the job in its hand and then, unless the write    *)
(* was the last of its operation, still holds it.                          *)
LEMMA LoopWriteInv ==
    ASSUME IInv, NEW k \in Jobs, held = k, loop \in LoopWrites \cup {"fetch"},
           Command(loop, k) \/ UNCHANGED redisVars,
           NEW point \in LoopPoints, loop' = point,
           \/ /\ point \in {"top", "stopped"} /\ held' = NoJob
              /\ \/ UNCHANGED task
                 \/ loop = "assignSave" /\ Command(loop, k) /\ task' = [task EXCEPT ![k] = "spawned"]
           \/ /\ <<loop, point>> \in {<<"assign", "assignSave">>, <<"wait", "delay">>}
              /\ Command(loop, k) /\ held' = held /\ UNCHANGED task,
           faults' \in Disturbances,
           UNCHANGED <<enq, mem, acct, attempts, accountVars, stale, aged>>
    PROVE  IInv'
  <1>1. /\ TypeOK /\ JobInv(k)
        /\ InHand(k) /\ ~Waiting(k) /\ ~Live(k) /\ Submitted(k)
        /\ saved[k] \in Records /\ mem[k] \in Records
        /\ attempts[k] \in Nat /\ MaxRetries \in Nat
    BY Holding
  <1>2. /\ RedisType'
        /\ IsInjective(ready)'
        /\ \A j \in Jobs \ {k} :
              /\ saved'[j] = saved[j]
              /\ InReady(j)' <=> InReady(j)
              /\ (j \in delayed)' <=> j \in delayed
        /\ saved'[k] = saved[k] \/ (loop \in SavePoints /\ saved'[k] = mem[k])
        /\ loop \notin QueuePoints => ready' = ready /\ delayed' = delayed
        /\ loop \in QueuePoints => saved' = saved /\ ~(InReady(k) /\ k \in delayed)'
    BY <1>1, CommandEffect DEF IInv
  <1>3. loop \in SavePoints /\ Command(loop, k) => saved'[k] = mem[k]
    BY <1>1, CommandSaves
  <1>4. task' \in [Jobs -> TaskPoints] /\ \A j \in Jobs \ {k} : task'[j] = task[j]
    BY <1>1 DEF TypeOK, TaskPoints
  <1>5. held' \in Jobs \cup {NoJob} /\ \A j \in Jobs \ {k} : ~InHand(j) /\ ~InHand(j)'
    BY JobsAssumption DEF InHand
  <1>6. TypeOK'
    BY <1>1, <1>2, <1>4, <1>5 DEF TypeOK, RedisType, accountVars
  <1>7. LoopInv'
    BY JobsAssumption DEF LoopInv
  <1>8. ASSUME NEW j \in Jobs \ {k} PROVE JobInv(j)'
    BY <1>2, <1>4, <1>5, Frame DEF IInv
  <1>9. HandInv(k) /\ WaitInv(k) /\ attempts[k] <= MaxRetries + 1
    BY <1>1 DEF JobInv
  <1>10. JobInv(k)'
    <2>1. CASE point \in {"top", "stopped"} /\ held' = NoJob /\ UNCHANGED task
      <3>1. ~InHand(k)' /\ ~Live(k)'
        BY <1>1, <2>1, JobsAssumption DEF InHand, Live
      <3>2. PlaceInv(k)' /\ HandInv(k)' /\ TaskInv(k)'
        BY <1>1, <1>2, <3>1 DEF PlaceInv, HandInv, TaskInv, Waiting, InReady, InHand, Live, Submitted, QueuePoints
      <3>3. CASE loop = "delay"
        BY <1>1, <1>2, <1>9, <3>2, <3>3 DEF HandInv, WaitInv, LoopWrites, JobInv, QueuePoints
      <3>4. CASE loop # "delay"
        <4>1. ~Waiting(k)'
          BY <1>1, <1>2, <3>4 DEF Waiting, InReady, LoopWrites, QueuePoints
        <4> QED
          BY <1>9, <3>1, <3>2, <4>1 DEF WaitInv, JobInv
      <3> QED
        BY <3>3, <3>4
    <2>2. CASE loop = "assignSave" /\ held' = NoJob /\ Command(loop, k) /\ task' = [task EXCEPT ![k] = "spawned"]
      <3>1. ~InHand(k)' /\ task'[k] = "spawned" /\ saved'[k] = mem[k] /\ ~Waiting(k)'
        BY <1>1, <1>2, <1>3, <2>2, JobsAssumption DEF InHand, TypeOK, SavePoints, QueuePoints, Waiting, InReady
      <3>2. TaskInv(k)'
        BY <1>9, <2>2, <3>1 DEF TaskInv, HandInv, LoopWrites, InHand
      <3> QED
        BY <1>1, <1>9, <3>1, <3>2 DEF JobInv, PlaceInv, WaitInv, HandInv, Waiting, Submitted
    <2>3. CASE /\ <<loop, point>> \in {<<"assign", "assignSave">>, <<"wait", "delay">>}
               /\ Command(loop, k) /\ held' = held /\ UNCHANGED task
      <3>1. InHand(k)' /\ ~Waiting(k)' /\ ~Live(k)'
        BY <1>1, <1>2, <2>3 DEF InHand, Live, QueuePoints, Waiting, InReady
      <3>2. HandInv(k)'
        BY <1>1, <1>2, <1>3, <1>9, <2>3 DEF HandInv, LoopWrites, SavePoints, InHand
      <3> QED
        BY <1>1, <1>9, <2>3, <3>1, <3>2
           DEF JobInv, PlaceInv, WaitInv, TaskInv, Waiting, Live, Submitted
    <2> QED
      BY <2>1, <2>2, <2>3
  <1> QED
    BY <1>2, <1>6, <1>7, <1>8, <1>10 DEF IInv

LEMMA LoopCommandInv == ASSUME IInv, LoopCommand PROVE IInv'
  <1>1. TypeOK /\ loop \in LoopWrites /\ faults' \in Disturbances
    BY DEF LoopCommand, IInv, TypeOK
  <1>2. PICK k \in Jobs : held = k
    BY <1>1, Holding
  <1> DEFINE point == CASE loop = "assign" -> "assignSave" [] loop = "wait" -> "delay" [] OTHER -> "top"
  <1>3. loop' = point /\ point \in LoopPoints
    BY DEF LoopCommand, LoopPoints, LoopWrites
  <1>4. Command(loop, k) /\ UNCHANGED <<enq, mem, acct, attempts, accountVars, stale, aged>>
    BY <1>2 DEF LoopCommand
  <1>5. \/ /\ point \in {"top", "stopped"} /\ held' = NoJob
           /\ \/ UNCHANGED task
              \/ loop = "assignSave" /\ Command(loop, k) /\ task' = [task EXCEPT ![k] = "spawned"]
        \/ /\ <<loop, point>> \in {<<"assign", "assignSave">>, <<"wait", "delay">>}
           /\ Command(loop, k) /\ held' = held /\ UNCHANGED task
    BY <1>1, <1>2 DEF LoopCommand, LoopWrites
  <1> HIDE DEF point
  <1> QED
    BY <1>1, <1>2, <1>3, <1>4, <1>5, LoopWriteInv

(* The loop raises or is stopped, its command having taken effect or not. *)
LEMMA AbandonInv ==
    ASSUME IInv, Unanswered, loop # "stopped", loop' \in {"top", "stopped"}, held' = NoJob,
           faults' \in Disturbances,
           UNCHANGED <<enq, task, mem, acct, attempts, accountVars, stale, aged>>
    PROVE  IInv'
  <1>1. CASE loop \in LoopWrites \cup {"fetch"}
    <2>1. PICK k \in Jobs : held = k
      BY <1>1, Holding
    <2>2. Command(loop, k) \/ UNCHANGED redisVars
      BY <1>1, <2>1 DEF Unanswered, LoopWrites
    <2> QED
      BY <1>1, <2>1, <2>2, LoopWriteInv DEF LoopPoints
  <1>2. CASE loop \in {"top", "pop"}
    <2>1. held = NoJob
      BY <1>2 DEF IInv, LoopInv
    <2> QED
      BY <1>2, <2>1, ReleaseInv, PopInv, IdleInv DEF Unanswered, LoopWrites
  <1> QED
    BY <1>1, <1>2 DEF IInv, TypeOK, LoopPoints

LEMMA LoopRaisesInv == ASSUME IInv, LoopRaises PROVE IInv'
  <1>1. LoopsJobs \in SUBSET Jobs
    BY DEF LoopsJobs
  <1> QED
    BY <1>1, AbandonInv, FaultType DEF LoopRaises, IInv

LEMMA StopInv == ASSUME IInv, Stop PROVE IInv'
  <1>1. LoopsJobs \in SUBSET Jobs
    BY DEF LoopsJobs
  <1> QED
    BY <1>1, AbandonInv, FaultType DEF Stop, IInv

-----------------------------------------------------------------------------
(* The steps that touch no job, and the start of a process. *)

LEMMA QuietStepInv ==
    ASSUME IInv, NEW j, NEW a,
           \/ j \in Jobs /\ (ExecutorRecovers(j) \/ BecomesDue(j) \/ Ages(j))
           \/ a \in Accounts /\ AccountNext(a)
           \/ CleanupRead \/ CleanupDelete
           \/ UNCHANGED vars
    PROVE  IInv'
  <1>1. TypeOK
    BY DEF IInv
  <1>2. CASE j \in Jobs /\ ExecutorRecovers(j)
    <2>1. acct[j] \in Accounts
      BY <1>2 DEF IInv, JobInv, TaskInv, Live, ExecutorRecovers
    <2>2. TypeOK'
      BY <1>1, <1>2, <2>1 DEF TypeOK, Statuses, ExecutorRecovers, redisVars, jobVars
    <2> QED
      BY <1>2, <2>2, Quiet DEF IInv, ExecutorRecovers, redisVars
  <1>3. CASE j \in Jobs /\ (BecomesDue(j) \/ Ages(j))
    <2>1. TypeOK'
      BY <1>1, <1>3 DEF TypeOK, BecomesDue, Ages, redisVars, jobVars, accountVars
    <2> QED
      BY <1>3, <2>1, Quiet DEF IInv, BecomesDue, Ages, redisVars
  <1>4. CASE a \in Accounts /\ AccountNext(a)
    <2>1. UNCHANGED <<redisVars, jobVars, running, stale, aged>>
      BY <1>4 DEF AccountNext, BrowserDies, AdminSets, AdminStarts, AdminStops,
                  SnapshotExpires, SnapshotRestores
    <2>2. faults' \in Disturbances
      BY <1>1, <1>4, FaultType DEF TypeOK, AccountNext, BrowserDies, AdminSets, AdminStarts,
                  AdminStops, SnapshotExpires, SnapshotRestores
    <2>3. /\ status' \in [Accounts -> Statuses]
          /\ up' \in [Accounts -> BOOLEAN] /\ open' \in [Accounts -> BOOLEAN]
      BY <1>1, <1>4 DEF TypeOK, Statuses, AccountNext, BrowserDies, AdminSets, AdminStarts,
                  AdminStops, SnapshotExpires, SnapshotRestores
    <2>4. TypeOK'
      BY <1>1, <2>1, <2>2, <2>3 DEF TypeOK, redisVars, jobVars
    <2> QED
      BY <2>1, <2>4, Quiet DEF IInv, redisVars
  <1>5. CASE CleanupRead \/ CleanupDelete
    <2>1. TypeOK'
      BY <1>1, <1>5 DEF TypeOK, CleanupRead, CleanupDelete, HDelActive, redisVars, jobVars, accountVars
    <2> QED
      BY <1>5, <2>1, Quiet DEF IInv, CleanupRead, CleanupDelete, HDelActive, redisVars
  <1>6. CASE UNCHANGED vars
    <2>1. TypeOK'
      BY <1>1, <1>6 DEF TypeOK, vars, redisVars, jobVars, accountVars
    <2> QED
      BY <1>6, <2>1, Quiet DEF IInv, vars, redisVars
  <1> QED
    BY <1>2, <1>3, <1>4, <1>5, <1>6

(* A crash or restart leaves the queues and the records and forgets who   *)
(* worked on them.                                                        *)
LEMMA BootInv == ASSUME IInv, Boot, faults' \in Disturbances PROVE IInv'
  <1>1. TypeOK
    BY DEF IInv
  <1>2. TypeOK'
    <2>1. enq' \in [Jobs -> {"new", "saved", "pushed", "done", "failed"}]
      BY <1>1 DEF TypeOK, Boot
    <2>2. status' \in [Accounts -> Statuses] /\ running' \in [Accounts -> Nat]
      BY <1>1 DEF TypeOK, Boot, Statuses
    <2> QED
      BY <1>1, <2>1, <2>2 DEF TypeOK, Boot, redisVars, LoopPoints, TaskPoints
  <1>3. LoopInv' /\ IsInjective(ready)'
    BY DEF IInv, Boot, LoopInv, redisVars
  <1>4. ASSUME NEW j \in Jobs PROVE JobInv(j)'
    <2>1. JobInv(j)
      BY DEF IInv
    <2>2. ~InHand(j)' /\ ~Live(j)' /\ task'[j] = "none"
      BY JobsAssumption DEF Boot, InHand, Live
    <2>3. UNCHANGED <<saved, ready, delayed, mem, acct, attempts>>
      BY DEF Boot, redisVars
    <2>4. /\ enq[j] \notin {"new", "saved"} => enq'[j] \notin {"new", "saved"}
          /\ enq[j] # "new" => enq'[j] # "new"
          /\ enq'[j] # "saved"
      BY DEF Boot
    <2>5. PlaceInv(j)'
      BY <2>1, <2>2, <2>3, <2>4 DEF JobInv, PlaceInv, Waiting, InReady, Submitted
    <2>6. WaitInv(j)' /\ HandInv(j)' /\ TaskInv(j)'
      BY <2>1, <2>2, <2>3 DEF JobInv, WaitInv, HandInv, TaskInv, Waiting, InReady
    <2> QED
      BY <2>1, <2>3, <2>5, <2>6 DEF JobInv
  <1> QED
    BY <1>2, <1>3, <1>4 DEF IInv

-----------------------------------------------------------------------------
(* The inductive invariant holds. *)

LEMMA InitInv == Init => IInv
  <1> SUFFICES ASSUME Init PROVE IInv
    OBVIOUS
  <1>1. NoRecord \in Records
    BY DEF NoRecord, Records, States
  <1>2. TypeOK
    BY <1>1, LimitsAssumption DEF Init, TypeOK, LoopPoints, TaskPoints, Statuses, Disturbances
  <1>3. LoopInv /\ IsInjective(ready) /\ ToSet(ready) = {}
    BY DEF Init, LoopInv, IsInjective, ToSet
  <1>4. ASSUME NEW j \in Jobs PROVE JobInv(j)
    BY <1>3, LimitsAssumption, JobsAssumption
       DEF Init, JobInv, PlaceInv, WaitInv, HandInv, TaskInv,
           Waiting, InReady, InHand, Live, Submitted
  <1> QED
    BY <1>2, <1>3, <1>4 DEF IInv

LEMMA StepInv == ASSUME IInv, [Next]_vars PROVE IInv'
  <1>1. CASE LoopStep \/ LoopRaises
    BY <1>1, LoopReleaseInv, LoopPopInv, LoopSelectInv, LoopCommandInv, LoopRaisesInv DEF LoopStep
  <1>2. ASSUME NEW j \in Jobs, JobNext(j) PROVE IInv'
    <2>1. CASE Enqueue(j) \/ EnqueueRaises(j)
      BY <2>1, EnqueueInv, EnqueueRaisesInv
    <2>2. CASE TaskStep(j)
      BY <2>2, RunJobInv, LaunchBrowserInv, BrowserReadyInv, JobSucceedsInv, JobFailsInv,
         RecoveredInv, TaskCommandInv DEF TaskStep, JobEnds
    <2>3. CASE TaskRaises(j) \/ BrowserFails(j) \/ LoginRequired(j) \/ RecoveryRaises(j)
      BY <2>3, TaskRaisesInv, BrowserFailsInv, LoginRequiredInv, RecoveryRaisesInv
    <2>4. CASE ExecutorRecovers(j) \/ BecomesDue(j) \/ Ages(j)
      BY <2>4, QuietStepInv
    <2> QED
      BY <1>2, <2>1, <2>2, <2>3, <2>4 DEF JobNext
  <1>3. ASSUME NEW a \in Accounts, AccountNext(a) PROVE IInv'
    BY <1>3, QuietStepInv
  <1>4. CASE CleanupRead \/ CleanupDelete \/ UNCHANGED vars
    BY <1>4, QuietStepInv
  <1>5. CASE Crash \/ Restart
    BY <1>5, BootInv, FaultType DEF Crash, Restart, IInv, TypeOK
  <1>6. CASE Stop
    BY <1>6, StopInv
  <1> QED
    BY <1>1, <1>2, <1>3, <1>4, <1>5, <1>6 DEF Next

(* The places, records and counters of every job fit together in every    *)
(* reachable state of the worker.                                         *)
THEOREM Invariance == Spec => []IInv
  <1>1. Init => IInv
    BY InitInv
  <1>2. IInv /\ [Next]_vars => IInv'
    BY StepInv
  <1> QED
    BY <1>1, <1>2, PTL DEF Spec

(* Every variable of the worker keeps its type; in particular jobs_running *)
(* never becomes negative.                                                 *)
THEOREM TypeCorrect == Spec => []TypeOK
  <1>1. IInv => TypeOK
    BY DEF IInv
  <1> QED
    BY <1>1, Invariance, PTL

(* Whatever crashes, is cancelled or raises, a job is queued at most once  *)
(* and never queued while the loop or a coroutine has it.                  *)
THEOREM OnePlaceHolds == Spec => []OnePlace
  <1>1. IInv => OnePlace
    BY DEF IInv, OnePlace, JobInv, PlaceInv
  <1> QED
    BY <1>1, Invariance, PTL

(* The executor is started at most max_retries + 1 times for a job.        *)
THEOREM AttemptsBoundedHolds == Spec => []AttemptsBounded
  <1>1. IInv => AttemptsBounded
    BY DEF IInv, AttemptsBounded, JobInv
  <1> QED
    BY <1>1, Invariance, PTL

(* What GET /jobs/{id} shows of a waiting job, and of one in the executor, *)
(* is true.                                                                *)
THEOREM SavedStateIsTrueHolds == Spec => []SavedStateIsTrue
  <1>1. IInv => SavedStateIsTrue
    BY DEF IInv, SavedStateIsTrue, JobInv, WaitInv, TaskInv
  <1> QED
    BY <1>1, Invariance, PTL

-----------------------------------------------------------------------------
(* What a step may do to the record of a job, and with it the refinement. *)

(* The writes that start no execution, as pairs of states. *)
Rewrites ==
    ({"NONE"} \X {"QUEUED"}) \cup
    ({"QUEUED", "RETRYING"} \X {"RETRYING", "ASSIGNED"}) \cup
    (Failable \X {"RETRYING", "FAILED"}) \cup
    {<<s, s>> : s \in Failable} \cup
    {<<"ASSIGNED", "PROCESSING">>, <<"PROCESSING", "COMPLETED">>}

Rewrite(k, r) ==
    /\ saved' = [saved EXCEPT ![k] = r]
    /\ <<saved[k].state, r.state>> \in Rewrites
    /\ attempts' = attempts

Begin(k, r) ==
    /\ saved' = [saved EXCEPT ![k] = r]
    /\ saved[k].state = "ASSIGNED" /\ r.state = "PROCESSING"
    /\ attempts[k] <= MaxRetries
    /\ attempts' = [attempts EXCEPT ![k] = @ + 1]

Recorded ==
    \/ UNCHANGED <<saved, attempts>>
    \/ \E k \in Jobs, r \in Records : Rewrite(k, r) \/ Begin(k, r)

(* A command saves the Job object or leaves the records alone. *)
LEMMA CommandRecord ==
    ASSUME NEW p, NEW k \in Jobs, Command(p, k) \/ UNCHANGED redisVars
    PROVE  UNCHANGED saved \/ (p \in SavePoints /\ saved' = [saved EXCEPT ![k] = mem[k]])
  BY DEF Command, redisVars, HSetActive, HDelActive, SaveJob, PushReady, AddDelayed, SavePoints

LEMMA EnqueueRecorded ==
    ASSUME IInv, NEW k \in Jobs, Enqueue(k) \/ EnqueueRaises(k)
    PROVE  Recorded
  <1>1. attempts' = attempts /\ NewRecord \in Records
    BY DEF Enqueue, EnqueueRaises, NewRecord, Records, States
  <1>2. CASE enq[k] = "new" /\ SaveJob(k, NewRecord)
    <2>1. saved[k] = NoRecord
      BY <1>2 DEF IInv, JobInv, PlaceInv
    <2>2. <<NoRecord.state, NewRecord.state>> \in Rewrites
      BY DEF NoRecord, NewRecord, Rewrites
    <2>3. Rewrite(k, NewRecord)
      BY <1>1, <1>2, <2>1, <2>2 DEF SaveJob, Rewrite
    <2> QED
      BY <1>1, <2>3 DEF Recorded
  <1>3. CASE UNCHANGED saved
    BY <1>1, <1>3 DEF Recorded
  <1> QED
    BY <1>2, <1>3 DEF Enqueue, EnqueueRaises, EnqueueCommand, PushReady, IndexJob, redisVars

LEMMA LoopRecorded ==
    ASSUME IInv, LoopCommand \/ LoopRaises \/ Stop
    PROVE  Recorded
  <1>1. attempts' = attempts
    BY DEF LoopCommand, LoopRaises, Stop
  <1>2. CASE loop \in LoopWrites \cup {"fetch"}
    <2>1. PICK k \in Jobs : held = k
      BY <1>2, Holding
    <2>2. TypeOK /\ HandInv(k) /\ InHand(k) /\ mem[k] \in Records
      BY <1>2, <2>1, Holding DEF JobInv
    <2>3. UNCHANGED saved \/ (loop \in SavePoints /\ saved' = [saved EXCEPT ![k] = mem[k]])
      BY <1>2, <2>1, CommandRecord DEF LoopCommand, LoopRaises, Stop, Unanswered, LoopWrites
    <2>4. CASE loop \in SavePoints /\ saved' = [saved EXCEPT ![k] = mem[k]]
      <3>1. /\ loop \in {"assignSave", "wait"}
            /\ saved[k].state \in {"QUEUED", "RETRYING"}
            /\ mem[k].state \in {"ASSIGNED", "RETRYING"}
        BY <1>2, <2>2, <2>4 DEF HandInv, LoopWrites, SavePoints
      <3> QED
        BY <1>1, <2>2, <2>4, <3>1 DEF Recorded, Rewrite, Rewrites
    <2> QED
      BY <1>1, <2>3, <2>4 DEF Recorded
  <1>3. CASE loop \notin LoopWrites \cup {"fetch"}
    <2>1. UNCHANGED saved
      BY <1>3 DEF Stop, LoopCommand, LoopRaises, Unanswered, ReleaseDue, PopReady, LoopWrites,
                  redisVars
    <2> QED
      BY <1>1, <2>1 DEF Recorded
  <1> QED
    BY <1>2, <1>3

LEMMA TaskRecorded ==
    ASSUME IInv, NEW k \in Jobs, TaskCommand(k) \/ TaskRaises(k)
    PROVE  Recorded
  <1>1. TypeOK /\ TaskInv(k) /\ mem[k] \in Records /\ task[k] \in TaskWrites
    BY DEF IInv, JobInv, TypeOK, TaskCommand, TaskRaises
  <1>2. UNCHANGED saved \/ (task[k] \in SavePoints /\ saved' = [saved EXCEPT ![k] = mem[k]])
    BY CommandRecord DEF TaskCommand, TaskRaises
  <1>3. CASE task[k] = "activateSave" /\ TaskCommand(k)
    <2>1. attempts' = [attempts EXCEPT ![k] = @ + 1]
      BY <1>3 DEF TaskCommand
    <2>2. saved[k].state = "ASSIGNED" /\ mem[k].state = "PROCESSING" /\ attempts[k] <= MaxRetries
      BY <1>1, <1>3, LimitsAssumption DEF TaskInv, TypeOK, Records
    <2>3. saved' = [saved EXCEPT ![k] = mem[k]]
      BY <1>3 DEF TaskCommand, Command, SaveJob
    <2> QED
      BY <1>1, <2>1, <2>2, <2>3 DEF Recorded, Begin
  <1>4. CASE task[k] # "activateSave" \/ TaskRaises(k)
    <2>1. attempts' = attempts
      BY <1>4 DEF TaskCommand, TaskRaises
    <2>2. ASSUME task[k] \in SavePoints
          PROVE  <<saved[k].state, mem[k].state>> \in Rewrites
      <3>1. CASE task[k] \in {"activateSave", "clearSave"}
        BY <1>1, <3>1 DEF TaskInv, Rewrites
      <3>2. CASE task[k] = "dropRetrySave"
        BY <1>1, <3>2 DEF TaskInv, FailingStates, Failable, Rewrites
      <3>3. CASE task[k] \in {"retrying", "dropFinalSave"}
        BY <1>1, <3>3 DEF TaskInv, Rewrites
      <3> QED
        BY <1>1, <2>2, <3>1, <3>2, <3>3 DEF SavePoints, TaskWrites
    <2> QED
      BY <1>1, <1>2, <2>1, <2>2 DEF Recorded, Rewrite
  <1> QED
    BY <1>3, <1>4

LEMMA StepRecorded == ASSUME IInv, [Next]_vars PROVE Recorded
  <1>1. CASE LoopStep \/ LoopRaises \/ Stop
    BY <1>1, LoopRecorded
       DEF LoopStep, LoopRelease, ReleaseDue, LoopPop, PopReady, LoopIdle, LoopSelect,
           Recorded, redisVars
  <1>2. ASSUME NEW j \in Jobs, JobNext(j) PROVE Recorded
    <2>1. CASE Enqueue(j) \/ EnqueueRaises(j)
      BY <2>1, EnqueueRecorded
    <2>2. CASE TaskCommand(j) \/ TaskRaises(j)
      BY <2>2, TaskRecorded
    <2>3. CASE RunJob(j) \/ LaunchBrowser(j) \/ BrowserReady(j) \/ JobEnds(j) \/ Recovered(j)
      BY <2>3 DEF RunJob, LaunchBrowser, BrowserReady, JobEnds, JobSucceeds, JobFails, Recovered,
                  Recorded, redisVars
    <2>4. CASE \/ BrowserFails(j) \/ LoginRequired(j) \/ ExecutorRecovers(j) \/ RecoveryRaises(j)
               \/ BecomesDue(j) \/ Ages(j)
      BY <2>4 DEF BrowserFails, LoginRequired, ExecutorRecovers, RecoveryRaises, BecomesDue, Ages,
                  Recorded, redisVars, jobVars
    <2> QED
      BY <1>2, <2>1, <2>2, <2>3, <2>4 DEF JobNext, TaskStep
  <1>3. ASSUME NEW a \in Accounts, AccountNext(a) PROVE Recorded
    BY <1>3 DEF AccountNext, BrowserDies, AdminSets, AdminStarts, AdminStops, SnapshotExpires,
                SnapshotRestores, Recorded, redisVars, jobVars
  <1>4. CASE CleanupRead \/ CleanupDelete \/ Crash \/ Restart \/ UNCHANGED vars
    BY <1>4 DEF CleanupRead, CleanupDelete, HDelActive, Crash, Restart, Boot, vars,
                Recorded, redisVars, jobVars
  <1> QED
    BY <1>1, <1>2, <1>3, <1>4 DEF Next

(* Once the orchestrator can read an outcome, no retry, cleanup, crash or *)
(* restart replaces it.                                                   *)
THEOREM OutcomeStaysHolds == Spec => OutcomeStays
  <1>1. ASSUME IInv, [Next]_vars
        PROVE  \A j \in Jobs : saved[j].state \in Outcomes => saved'[j] = saved[j]
    <2> SUFFICES ASSUME NEW j \in Jobs, saved[j].state \in Outcomes
                 PROVE  saved'[j] = saved[j]
      OBVIOUS
    <2>1. Recorded /\ saved \in [Jobs -> Records]
      BY <1>1, StepRecorded DEF IInv, TypeOK
    <2>2. ASSUME NEW k \in Jobs, NEW r \in Records, Rewrite(k, r) \/ Begin(k, r)
          PROVE  saved'[j] = saved[j]
      <3>1. saved[k].state \notin Outcomes
        BY <2>2 DEF Rewrite, Begin, Rewrites, Failable, Outcomes
      <3> QED
        BY <2>1, <2>2, <3>1 DEF Rewrite, Begin
    <2> QED
      BY <2>1, <2>2 DEF Recorded
  <1>2. IInv /\ [Next]_vars =>
            [\A j \in Jobs : saved[j].state \in Outcomes => saved'[j] = saved[j]]_vars
    BY <1>1
  <1> QED
    BY <1>2, Invariance, PTL DEF Spec, OutcomeStays

(* The worker implements JobLifecycle, so whoever polls a job sees the    *)
(* states of that module, in its order, and no others.                    *)
THEOREM Refinement == Spec => ImplementsLifecycle
  <1>1. Init => Lifecycle!Init
    BY DEF Init, Lifecycle!Init, NoRecord
  <1>2. ASSUME IInv, [Next]_vars
        PROVE  [Lifecycle!Next]_(Lifecycle!lifecycleVars)
    <2> DEFINE state == [j \in Jobs |-> saved[j].state]
    <2>1. Recorded /\ TypeOK
      BY <1>2, StepRecorded DEF IInv
    <2>2. CASE UNCHANGED <<saved, attempts>>
      BY <2>2 DEF Lifecycle!lifecycleVars
    <2>3. ASSUME NEW k \in Jobs, NEW r \in Records, Rewrite(k, r) \/ Begin(k, r)
          PROVE  [Lifecycle!Next]_(Lifecycle!lifecycleVars)
      <3>1. state[k] = saved[k].state /\ state' = [state EXCEPT ![k] = r.state]
        BY <2>1, <2>3 DEF Rewrite, Begin, TypeOK
      <3>2. CASE Begin(k, r)
        <4>1. Lifecycle!Start(k)
          BY <2>1, <3>1, <3>2, LimitsAssumption DEF Begin, TypeOK, Lifecycle!Start, Lifecycle!Set
        <4> QED
          BY <4>1 DEF Lifecycle!Next, Lifecycle!Step
      <3>3. CASE Rewrite(k, r)
        <4>1. CASE r.state = saved[k].state
          <5>1. state' = state
            BY <3>1, <4>1
          <5> QED
            BY <3>3, <5>1 DEF Rewrite, Lifecycle!lifecycleVars
        <4>2. CASE r.state # saved[k].state
          <5>1. Lifecycle!Step(k)
            BY <3>1, <3>3, <4>2
               DEF Rewrite, Rewrites, Failable, Lifecycle!Step, Lifecycle!Set, Lifecycle!Create,
                   Lifecycle!Waits, Lifecycle!Wait, Lifecycle!Assign, Lifecycle!Strand,
                   Lifecycle!Complete, Lifecycle!Fails, Lifecycle!Retry, Lifecycle!Fail
          <5> QED
            BY <5>1 DEF Lifecycle!Next
        <4> QED
          BY <4>1, <4>2
      <3> QED
        BY <2>3, <3>2, <3>3
    <2> QED
      BY <2>1, <2>2, <2>3 DEF Recorded
  <1>3. IInv /\ [Next]_vars => [Lifecycle!Next]_(Lifecycle!lifecycleVars)
    BY <1>2
  <1> QED
    BY <1>1, <1>3, Invariance, PTL DEF Spec, ImplementsLifecycle, Lifecycle!Spec

(* A local job as the workers of GlobalJobs have it: polled, without the   *)
(* number of its executions, and never reopened.                           *)
Polled == INSTANCE JobLifecycle WITH
    MaxStarts <- 1, Reopens <- FALSE,
    state <- [j \in Jobs |-> saved[j].state], starts <- [j \in Jobs |-> 0]

(* Whoever sees the states alone takes a run of the executor for a Strand. *)
LEMMA StepPolled ==
    ASSUME "redis" \notin Faults, NEW j \in Jobs, Lifecycle!Step(j)
    PROVE  Polled!Step(j)
  <1> USE DEF Polled!Step, Polled!Set
  <1>1. CASE Lifecycle!Create(j)
    BY <1>1 DEF Lifecycle!Create, Lifecycle!Set, Polled!Create
  <1>2. CASE Lifecycle!Wait(j) \/ Lifecycle!Assign(j)
    BY <1>2 DEF Lifecycle!Wait, Lifecycle!Assign, Lifecycle!Waits, Lifecycle!Set,
                Polled!Wait, Polled!Assign, Polled!Waits
  <1>3. CASE Lifecycle!Start(j) \/ Lifecycle!Strand(j)
    BY <1>3 DEF Lifecycle!Start, Lifecycle!Strand, Lifecycle!Set, Polled!Strand
  <1>4. CASE Lifecycle!Complete(j)
    BY <1>4 DEF Lifecycle!Complete, Lifecycle!Set, Polled!Complete
  <1>5. CASE Lifecycle!Retry(j) \/ Lifecycle!Fail(j)
    BY <1>5 DEF Lifecycle!Retry, Lifecycle!Fail, Lifecycle!Fails, Lifecycle!Set,
                Polled!Retry, Polled!Fail, Polled!Fails
  <1> QED
    BY <1>1, <1>2, <1>3, <1>4, <1>5 DEF Lifecycle!Step

(* A worker whose Redis does not fail does to its local jobs what           *)
(* GlobalJobs assumes of the workers: the composition of the two is sound.  *)
THEOREM FitsGlobalJobs ==
    ASSUME "redis" \notin Faults
    PROVE  Spec => Polled!Spec
  <1>1. Lifecycle!Init => Polled!Init
    BY DEF Lifecycle!Init, Polled!Init
  <1>2. [Lifecycle!Next]_(Lifecycle!lifecycleVars) => [Polled!Next]_(Polled!lifecycleVars)
    <2>1. Lifecycle!Next => Polled!Next
      BY StepPolled DEF Lifecycle!Next, Polled!Next
    <2>2. UNCHANGED Lifecycle!lifecycleVars => UNCHANGED Polled!lifecycleVars
      BY DEF Lifecycle!lifecycleVars, Polled!lifecycleVars
    <2> QED
      BY <2>1, <2>2
  <1>3. Lifecycle!Spec => Polled!Spec
    BY <1>1, <1>2, PTL DEF Lifecycle!Spec, Polled!Spec
  <1> QED
    BY <1>3, Refinement DEF ImplementsLifecycle

-----------------------------------------------------------------------------
(* What LocalJobs loses: which jobs drop out of its queues, and which slots *)
(* of an account are not given back.  Both rest on what a step may do to a  *)
(* job that is somewhere, and to one that is nowhere.                       *)

Final == {"COMPLETED", "FAILED"}
Placed(j) == Waiting(j) \/ InHand(j) \/ Live(j)

(* A submitted job that is nowhere stays so, and nobody touches it; one    *)
(* that is somewhere gets out by an outcome or a disturbance alone.        *)
Keeps(j) ==
    /\ Submitted(j) => Submitted(j)'
    /\ MaybeLost(j) => MaybeLost(j)'
    /\ Submitted(j) /\ ~Placed(j) => ~Placed(j)' /\ acct'[j] = acct[j] /\ saved'[j] = saved[j]
    /\ Placed(j) => Placed(j)' \/ MaybeLost(j)' \/ saved'[j].state \in Final
    /\ Pushed(j)' => Pushed(j) \/ Placed(j)'

-----------------------------------------------------------------------------
(* Jobs that a step does not concern. *)

LEMMA Untouched ==
    ASSUME NEW j \in Jobs,
           InReady(j)' <=> InReady(j), (j \in delayed)' <=> j \in delayed,
           InHand(j)' <=> InHand(j), Live(j)' <=> Live(j),
           saved'[j] = saved[j], acct'[j] = acct[j], enq'[j] = enq[j],
           MaybeLost(j) => MaybeLost(j)'
    PROVE  Keeps(j)
  BY DEF Keeps, Placed, Waiting, Submitted, Pushed

(* Where nothing has a fault's victims removed. *)
LEMMA FaultLoses ==
    ASSUME NEW kind, NEW hit, Fault(kind, hit), NEW j \in Jobs
    PROVE  /\ MaybeLost(j) => MaybeLost(j)'
           /\ j \in hit => MaybeLost(j)'
  BY DEF Fault, MaybeLost

LEMMA SameFaults ==
    ASSUME faults' = faults, NEW j \in Jobs
    PROVE  MaybeLost(j) => MaybeLost(j)'
  BY DEF MaybeLost

(* The ordering of a finite set holds all of it. *)
LEMMA OrderingHoldsAll ==
    ASSUME NEW B, IsFiniteSet(B), NEW t \in SetToSeqs(B)
    PROVE  ToSet(t) = B
  <1>1. Cardinality(B) \in Nat
    BY FS_CardinalityType
  <1>2. t \in [1 .. Cardinality(B) -> B]
    BY DEF SetToSeqs
  <1>3. t \in Injection(1 .. Cardinality(B), B)
    BY <1>2 DEF SetToSeqs, Injection, IsInjective
  <1>4. Cardinality(1 .. Cardinality(B)) = Cardinality(B)
    BY <1>1, FS_Interval
  <1>5. t \in Surjection(1 .. Cardinality(B), B)
    BY <1>3, <1>4, FS_Injection
  <1> QED
    BY <1>2, <1>5 DEF Surjection, ToSet

-----------------------------------------------------------------------------
(* The scheduling loop. *)

(* The release moves jobs from one queue to the other. *)
LEMMA ReleaseKeepsWaiting ==
    ASSUME IInv, ReleaseDue, NEW j \in Jobs
    PROVE  /\ Waiting(j)' <=> Waiting(j)
           /\ saved' = saved
  <1>1. TypeOK
    BY DEF IInv
  <1>2. PICK batch \in SUBSET due : \E order \in SetToSeqs(batch) :
            ready' = ready \o order /\ delayed' = delayed \ batch
    BY DEF ReleaseDue
  <1>3. PICK order \in SetToSeqs(batch) : ready' = ready \o order /\ delayed' = delayed \ batch
    BY <1>2
  <1>4. batch \subseteq delayed /\ batch \subseteq Jobs /\ IsFiniteSet(batch)
    BY <1>1, FS_Subset, JobsAssumption DEF TypeOK
  <1>5. order \in Seq(batch) /\ IsInjective(order) /\ ToSet(order) = batch
    BY <1>4, OrderingType, OrderingHoldsAll
  <1>6. order \in Seq(Jobs) /\ ready \in Seq(Jobs)
    BY <1>1, <1>4, <1>5, SeqMonotonic DEF TypeOK
  <1>7. ToSet(ready) \cap ToSet(order) = {}
    BY <1>4, <1>5 DEF IInv, JobInv, PlaceInv, InReady
  <1>8. ToSet(ready') = ToSet(ready) \cup batch
    BY <1>3, <1>5, <1>6, <1>7, ConcatDisjoint DEF IInv
  <1> QED
    BY <1>3, <1>4, <1>8 DEF Waiting, InReady, ReleaseDue

(* RPOP takes the head of the list, and nothing else. *)
LEMMA PopKeeps ==
    ASSUME IInv, PopReady, NEW j \in Jobs
    PROVE  /\ j # Head(ready) => (Waiting(j)' <=> Waiting(j))
           /\ Head(ready) \in Jobs /\ Waiting(Head(ready))
           /\ saved' = saved
  <1>1. ready \in Seq(Jobs) /\ IsInjective(ready) /\ ready # <<>>
    BY DEF IInv, TypeOK, PopReady
  <1>2. /\ Head(ready) \in ToSet(ready) /\ Head(ready) \in Jobs
        /\ ToSet(Tail(ready)) = ToSet(ready) \ {Head(ready)}
    BY <1>1, TailRest
  <1> QED
    BY <1>2 DEF PopReady, Waiting, InReady

LEMMA LoopKeeps ==
    ASSUME IInv, LoopStep \/ LoopRaises \/ Stop, NEW j \in Jobs
    PROVE  Keeps(j)
  <1>1. TypeOK /\ JobInv(j)
    BY DEF IInv
  <1>2. /\ enq' = enq
        /\ MaybeLost(j) => MaybeLost(j)'
    BY FaultLoses, SameFaults
       DEF LoopStep, LoopRelease, LoopPop, LoopIdle, LoopSelect, LoopCommand, LoopRaises, Stop
  <1>3. LoopRaises \/ Stop => /\ held' = NoJob /\ acct' = acct /\ task' = task
                              /\ Unanswered /\ (j \in LoopsJobs => MaybeLost(j)')
    BY FaultLoses DEF LoopRaises, Stop
  <1>4. j # NoJob
    BY JobsAssumption
  <1>5. CASE loop = "top"
    <2>1. ~InHand(j) /\ ~InHand(j)' /\ acct' = acct /\ task' = task
      BY <1>3, <1>4, <1>5 DEF IInv, LoopInv, InHand, LoopStep, LoopRelease, LoopPop, LoopIdle, LoopSelect,
                  LoopCommand, LoopWrites
    <2>2. ReleaseDue \/ UNCHANGED redisVars
      BY <1>3, <1>5 DEF LoopStep, LoopRelease, LoopPop, LoopIdle, LoopSelect, LoopCommand,
                  LoopWrites, Unanswered
    <2>3. saved' = saved /\ (Waiting(j)' <=> Waiting(j))
      BY <2>2, ReleaseKeepsWaiting DEF redisVars, Waiting, InReady
    <2> QED
      BY <1>2, <2>1, <2>3 DEF Keeps, Placed, Live, Submitted, Pushed
  <1>6. CASE loop = "pop"
    <2>1. ~InHand(j) /\ acct' = acct /\ task' = task
      BY <1>3, <1>4, <1>6 DEF IInv, LoopInv, InHand, LoopStep, LoopRelease, LoopPop, LoopIdle, LoopSelect,
                  LoopCommand, LoopWrites
    <2>2. CASE LoopIdle \/ ((LoopRaises \/ Stop) /\ UNCHANGED redisVars)
      <3>1. ~InHand(j)' /\ UNCHANGED redisVars
        BY <1>3, <1>4, <1>6, <2>1, <2>2 DEF LoopIdle, InHand
      <3> QED
        BY <1>2, <2>1, <2>2, <3>1 DEF Keeps, Placed, Live, Submitted, Pushed, Waiting, InReady, redisVars
    <2>3. CASE PopReady
      <3>1. /\ j # Head(ready) => (Waiting(j)' <=> Waiting(j))
            /\ Waiting(Head(ready)) /\ saved' = saved
        BY <2>3, PopKeeps
      <3>2. held' = Head(ready) \/ ((LoopRaises \/ Stop) /\ held' = NoJob)
        BY <1>3, <1>6, <2>3 DEF LoopStep, LoopRelease, LoopPop, LoopIdle, LoopSelect, LoopCommand,
               LoopWrites, PopReady
      <3>3. j = Head(ready) => j \in LoopsJobs
        BY <1>6, <2>3 DEF LoopsJobs, PopReady
      <3> QED
        BY <1>2, <1>3, <1>4, <2>1, <3>1, <3>2, <3>3
           DEF Keeps, Placed, Live, Submitted, Pushed, InHand
    <2> QED
      BY <1>3, <1>6, <2>2, <2>3 DEF LoopStep, LoopRelease, LoopPop, LoopIdle, LoopSelect, LoopCommand,
                  LoopWrites, Unanswered
  <1>7. CASE loop = "stopped"
    BY <1>7 DEF LoopStep, LoopRelease, LoopPop, LoopIdle, LoopSelect, LoopCommand,
                  LoopWrites, LoopRaises, Stop
  <1>8. CASE loop = "fetch"
    <2>1. held \in Jobs /\ InHand(held) /\ UNCHANGED redisVars
      BY <1>3, <1>8, Holding DEF LoopStep, LoopRelease, LoopPop, LoopIdle, LoopSelect, LoopCommand,
                  LoopWrites, Unanswered
    <2>2. CASE LoopSelect
      <3>1. held' = held /\ task' = task /\ (j # held => acct'[j] = acct[j])
        BY <1>1, <2>1, <2>2 DEF LoopSelect, TypeOK
      <3> QED
        BY <1>2, <2>1, <3>1 DEF Keeps, Placed, Live, Submitted, Pushed, Waiting, InReady, InHand, redisVars
    <2>3. CASE LoopRaises \/ Stop
      <3>1. j = held => j \in LoopsJobs
        BY DEF LoopsJobs
      <3> QED
        BY <1>2, <1>3, <1>4, <2>1, <2>3, <3>1
           DEF Keeps, Placed, Live, Submitted, Pushed, Waiting, InReady, InHand, redisVars
    <2> QED
      BY <1>8, <2>2, <2>3 DEF LoopStep, LoopRelease, LoopPop, LoopIdle, LoopCommand, LoopWrites
  <1>9. CASE loop \in LoopWrites
    <2>1. held \in Jobs /\ InHand(held) /\ ~Waiting(held) /\ ~Live(held) /\ Submitted(held)
      BY <1>9, Holding
    <2>2. LoopCommand \/ LoopRaises \/ Stop
      BY <1>9 DEF LoopStep, LoopRelease, LoopPop, LoopIdle, LoopSelect, LoopWrites
    <2>3. Command(loop, held) \/ UNCHANGED redisVars
      BY <1>3, <1>9, <2>2 DEF LoopCommand, Unanswered, LoopWrites
    <2>4. /\ j # held => /\ saved'[j] = saved[j]
                         /\ InReady(j)' <=> InReady(j)
                         /\ (j \in delayed)' <=> j \in delayed
      BY <1>1, <2>1, <2>3, CommandEffect DEF IInv
    <2>5. acct' = acct
      BY <1>3, <2>2 DEF LoopCommand
    <2>6. CASE j # held
      <3>1. ~InHand(j) /\ ~InHand(j)' /\ task'[j] = task[j]
        BY <1>1, <1>3, <1>4, <2>1, <2>2, <2>6 DEF LoopCommand, InHand, TypeOK
      <3> QED
        BY <1>2, <2>4, <2>5, <2>6, <3>1, Untouched DEF Live
    <2>7. CASE j = held /\ (LoopRaises \/ Stop)
      <3>1. MaybeLost(j)'
        BY <1>3, <2>7 DEF LoopsJobs
      <3> QED
        BY <1>2, <2>1, <2>7, <3>1 DEF Keeps, Placed, Submitted, Pushed
    <2>8. CASE j = held /\ LoopCommand
      <3>1. Placed(j)'
        <4>1. CASE loop \in {"assign", "wait"}
          BY <2>8, <4>1 DEF LoopCommand, Placed, InHand
        <4>2. CASE loop = "assignSave"
          BY <1>1, <2>8, <4>2 DEF LoopCommand, Placed, Live, TypeOK
        <4>3. CASE loop = "delay"
          BY <2>8, <4>3 DEF LoopCommand, Command, AddDelayed, Placed, Waiting
        <4> QED
          BY <1>9, <4>1, <4>2, <4>3 DEF LoopWrites
      <3> QED
        BY <1>2, <2>1, <2>8, <3>1 DEF Keeps, Placed, Submitted, Pushed
    <2> QED
      BY <2>2, <2>6, <2>7, <2>8
  <1> QED
    BY <1>1, <1>5, <1>6, <1>7, <1>8, <1>9 DEF TypeOK, LoopPoints

-----------------------------------------------------------------------------
(* POST /jobs, and the coroutines of jobs. *)

LEMMA EnqueueKeeps ==
    ASSUME IInv, NEW k \in Jobs, Enqueue(k) \/ EnqueueRaises(k), NEW j \in Jobs
    PROVE  Keeps(j)
  <1>1. TypeOK /\ JobInv(j) /\ (MaybeLost(j) => MaybeLost(j)')
    BY FaultLoses, SameFaults DEF IInv, Enqueue, EnqueueRaises
  <1>2. UNCHANGED <<held, task, acct>> /\ delayed' = delayed
    BY DEF Enqueue, EnqueueRaises, EnqueueCommand, SaveJob, PushReady, IndexJob, redisVars
  <1>3. CASE j # k
    <2>1. enq'[j] = enq[j] /\ saved'[j] = saved[j]
      BY <1>1, <1>3 DEF TypeOK, Enqueue, EnqueueRaises, EnqueueCommand, SaveJob, PushReady,
                        IndexJob, redisVars
    <2>2. InReady(j)' <=> InReady(j)
      <3>1. CASE enq[k] = "saved" /\ PushReady(k)
        <4>1. k \notin ToSet(ready)
          BY <3>1 DEF IInv, JobInv, PlaceInv, Submitted, Waiting, InReady
        <4>2. ToSet(Append(ready, k)) = ToSet(ready) \cup {k}
          BY <1>1, <4>1, AppendNew DEF IInv, TypeOK
        <4> QED
          BY <1>3, <3>1, <4>2 DEF PushReady, InReady
      <3>2. CASE ready' = ready
        BY <3>2 DEF InReady
      <3> QED
        BY <3>1, <3>2 DEF Enqueue, EnqueueRaises, EnqueueCommand, SaveJob, IndexJob, redisVars
    <2> QED
      BY <1>1, <1>2, <2>1, <2>2, Untouched DEF InHand, Live
  <1>4. CASE j = k /\ enq[k] = "pushed"
    <2>1. /\ UNCHANGED <<saved, ready>>
          /\ enq' = [enq EXCEPT ![k] = "done"]
      BY <1>1, <1>4 DEF Enqueue, EnqueueRaises, EnqueueCommand, IndexJob, redisVars, TypeOK
    <2>2. enq'[j] = "done"
      BY <1>1, <1>4, <2>1 DEF TypeOK
    <2> QED
      BY <1>1, <1>2, <1>4, <2>1, <2>2
         DEF Keeps, Placed, Waiting, InReady, InHand, Live, Submitted, Pushed
  <1>5. CASE j = k /\ enq[k] # "pushed"
    <2>1. enq[k] \in {"new", "saved"} /\ ~Submitted(j) /\ ~Placed(j)
      BY <1>1, <1>5 DEF Enqueue, EnqueueRaises, EnqueueCommand, JobInv, PlaceInv, Submitted, Placed
    <2>2. ASSUME Pushed(j)' PROVE Placed(j)'
      <3>1. enq[k] = "saved" /\ PushReady(k)
        BY <1>1, <1>5, <2>1, <2>2 DEF Enqueue, EnqueueRaises, EnqueueCommand, Pushed, TypeOK
      <3>2. k \notin ToSet(ready)
        BY <3>1 DEF IInv, JobInv, PlaceInv, Submitted, Waiting, InReady
      <3>3. k \in ToSet(Append(ready, k))
        BY <1>1, <3>2, AppendNew DEF IInv, TypeOK
      <3> QED
        BY <1>5, <3>1, <3>3 DEF PushReady, Placed, Waiting, InReady
    <2> QED
      BY <1>1, <2>1, <2>2 DEF Keeps
  <1> QED
    BY <1>3, <1>4, <1>5

(* The steps of the coroutine of job k that write nothing to Redis. *)
TaskMove(k) ==
    \/ RunJob(k) \/ LaunchBrowser(k) \/ BrowserReady(k) \/ BrowserFails(k)
    \/ JobEnds(k) \/ LoginRequired(k) \/ Recovered(k) \/ RecoveryRaises(k)

LEMMA TaskMoveKeeps ==
    ASSUME IInv, NEW k \in Jobs, TaskMove(k), NEW j \in Jobs
    PROVE  Keeps(j)
  <1> USE DEF TaskMove, JobEnds
  <1>1. TypeOK /\ JobInv(j) /\ (MaybeLost(j) => MaybeLost(j)')
    BY FaultLoses, SameFaults DEF IInv, RunJob, LaunchBrowser, BrowserReady, BrowserFails,
          JobSucceeds, JobFails, LoginRequired, Recovered, RecoveryRaises
  <1>2. UNCHANGED <<redisVars, enq, held, acct>>
    BY DEF RunJob, LaunchBrowser, BrowserReady, BrowserFails,
          JobSucceeds, JobFails, LoginRequired, Recovered, RecoveryRaises
  <1>3. PICK point \in TaskPoints : GoTo(k, point) /\ (point = "none" => RecoveryRaises(k))
    BY DEF RunJob, LaunchBrowser, BrowserReady, BrowserFails, JobSucceeds, JobFails, LoginRequired,
          Recovered, RecoveryRaises, HandleFailure, StartOn, TaskPoints, TaskWrites
  <1>4. Live(k)
    BY DEF Live, RunJob, LaunchBrowser, BrowserReady, BrowserFails, JobSucceeds, JobFails,
          LoginRequired, Recovered, RecoveryRaises
  <1>5. CASE j # k
    <2>1. task'[j] = task[j]
      BY <1>1, <1>3, <1>5 DEF GoTo, TypeOK
    <2> QED
      BY <1>1, <1>2, <2>1, Untouched DEF InReady, InHand, Live, redisVars
  <1>6. CASE j = k
    <2>1. Live(k)' \/ MaybeLost(k)'
      BY <1>1, <1>3, FaultLoses DEF GoTo, Live, TypeOK, RecoveryRaises
    <2> QED
      BY <1>1, <1>2, <1>4, <1>6, <2>1 DEF Keeps, Placed, Submitted, Pushed
  <1> QED
    BY <1>5, <1>6

LEMMA TaskWriteKeeps ==
    ASSUME IInv, NEW k \in Jobs, TaskCommand(k) \/ TaskRaises(k), NEW j \in Jobs
    PROVE  Keeps(j)
  <1>1. TypeOK /\ JobInv(j) /\ (MaybeLost(j) => MaybeLost(j)')
    BY FaultLoses, SameFaults DEF IInv, TaskCommand, TaskRaises
  <1>2. /\ UNCHANGED <<enq, held, acct>>
        /\ task[k] \in TaskWrites /\ (Command(task[k], k) \/ UNCHANGED redisVars)
    BY DEF TaskCommand, TaskRaises
  <1>3. TaskInv(k) /\ Live(k) /\ ~Waiting(k)
    BY <1>2, AtWrite
  <1>4. PICK point : GoTo(k, point)
    BY DEF TaskCommand, TaskRaises, HandleFailure
  <1>5. CASE j # k
    <2>1. task'[j] = task[j]
      BY <1>1, <1>4, <1>5 DEF GoTo, TypeOK
    <2>2. /\ saved'[j] = saved[j]
          /\ InReady(j)' <=> InReady(j)
          /\ (j \in delayed)' <=> j \in delayed
      BY <1>1, <1>2, <1>3, <1>5, CommandEffect DEF IInv
    <2> QED
      BY <1>1, <1>2, <2>1, <2>2, Untouched DEF InHand, Live
  <1>6. CASE j = k
    <2>1. Placed(k)' \/ MaybeLost(k)' \/ saved'[k].state \in Final
      <3>1. CASE TaskRaises(k)
        <4>1. CASE task[k] \in {"clear", "clearSave"}
          BY <1>1, <3>1, <4>1 DEF TaskRaises, HandleFailure, GoTo, Placed, Live, TypeOK
        <4>2. CASE task[k] \notin {"clear", "clearSave"}
          BY <3>1, <4>2, FaultLoses DEF TaskRaises
        <4> QED
          BY <4>1, <4>2
      <3>2. CASE TaskCommand(k) /\ task[k] = "requeue"
        <4>1. CASE AddDelayed(k)
          BY <4>1 DEF AddDelayed, Placed, Waiting
        <4>2. CASE PushReady(k)
          <5>1. k \in ToSet(Append(ready, k))
            BY <1>1, <1>3, AppendNew DEF IInv, TypeOK, Waiting, InReady
          <5> QED
            BY <4>2, <5>1 DEF PushReady, Placed, Waiting, InReady
        <4> QED
          BY <3>2, <4>1, <4>2 DEF TaskCommand, Command
      <3>3. CASE TaskCommand(k) /\ task[k] \in {"clearSave", "dropFinalSave"}
        <4>1. saved'[k] = mem[k]
          BY <1>1, <3>3, CommandSaves DEF TaskCommand, SavePoints
        <4>2. mem[k].state \in Final
          BY <1>3, <3>3 DEF TaskInv, Final
        <4> QED
          BY <4>1, <4>2
      <3>4. CASE TaskCommand(k) /\ task[k] \notin {"requeue", "clearSave", "dropFinalSave"}
        BY <1>1, <1>2, <3>4 DEF TaskCommand, AfterWrite, TaskWrites, GoTo, Placed, Live, TypeOK
      <3> QED
        BY <3>1, <3>2, <3>3, <3>4
    <2> QED
      BY <1>1, <1>2, <1>3, <1>6, <2>1 DEF Keeps, Placed, Submitted, Pushed
  <1> QED
    BY <1>5, <1>6

-----------------------------------------------------------------------------
(* Everything else. *)

(* A crash forgets the jobs in hand; an orderly shutdown has none. *)
LEMMA BootKeeps ==
    ASSUME IInv, Crash \/ Restart, NEW j \in Jobs
    PROVE  Keeps(j)
  <1>1. TypeOK /\ JobInv(j)
    BY DEF IInv
  <1>2. UNCHANGED <<saved, ready, delayed, acct>>
    BY DEF Crash, Restart, Boot, redisVars
  <1>3. /\ Submitted(j) => Submitted(j)'
        /\ Pushed(j)' => Pushed(j)
    BY <1>1 DEF Crash, Restart, Boot, Submitted, Pushed, TypeOK
  <1>4. /\ MaybeLost(j) => MaybeLost(j)'
        /\ InHand(j) \/ Live(j) => MaybeLost(j)'
    <2>1. CASE Crash
      BY <2>1, FaultLoses DEF Crash, InHand
    <2>2. CASE Restart
      BY <2>2, JobsAssumption, SameFaults DEF Restart, IInv, LoopInv, InHand
    <2> QED
      BY <2>1, <2>2
  <1>5. ~InHand(j)' /\ ~Live(j)'
    BY JobsAssumption DEF Crash, Restart, Boot, InHand, Live
  <1> QED
    BY <1>2, <1>3, <1>4, <1>5 DEF Keeps, Placed, Waiting, InReady

LEMMA QuietKeeps ==
    ASSUME IInv, NEW j \in Jobs, NEW k, NEW a,
           \/ ExecutorRecovers(k) \/ BecomesDue(k) \/ Ages(k) \/ AccountNext(a)
           \/ CleanupRead \/ CleanupDelete \/ UNCHANGED vars
    PROVE  Keeps(j)
  <1>1. UNCHANGED <<saved, ready, delayed, enq, held, task, acct>>
    BY DEF ExecutorRecovers, BecomesDue, Ages, AccountNext, BrowserDies, AdminSets, AdminStarts,
           AdminStops, SnapshotExpires, SnapshotRestores, CleanupRead, CleanupDelete, HDelActive,
           vars, redisVars, jobVars
  <1>2. MaybeLost(j) => MaybeLost(j)'
    BY FaultLoses, SameFaults
       DEF ExecutorRecovers, BecomesDue, Ages, AccountNext, BrowserDies, AdminSets, AdminStarts,
           AdminStops, SnapshotExpires, SnapshotRestores, CleanupRead, CleanupDelete, vars
  <1> QED
    BY <1>1, <1>2, Untouched DEF InReady, InHand, Live

LEMMA StepKeeps == ASSUME IInv, [Next]_vars, NEW j \in Jobs PROVE Keeps(j)
  <1>1. CASE LoopStep \/ LoopRaises \/ Stop
    BY <1>1, LoopKeeps
  <1>2. ASSUME NEW k \in Jobs, JobNext(k) PROVE Keeps(j)
    <2>1. CASE Enqueue(k) \/ EnqueueRaises(k)
      BY <2>1, EnqueueKeeps
    <2>2. CASE TaskMove(k)
      BY <2>2, TaskMoveKeeps
    <2>3. CASE TaskCommand(k) \/ TaskRaises(k)
      BY <2>3, TaskWriteKeeps
    <2>4. CASE ExecutorRecovers(k) \/ BecomesDue(k) \/ Ages(k)
      BY <2>4, QuietKeeps
    <2> QED
      BY <1>2, <2>1, <2>2, <2>3, <2>4 DEF JobNext, TaskStep, TaskMove
  <1>3. ASSUME NEW a \in Accounts, AccountNext(a) PROVE Keeps(j)
    BY <1>3, QuietKeeps
  <1>4. CASE CleanupRead \/ CleanupDelete \/ UNCHANGED vars
    BY <1>4, QuietKeeps
  <1>5. CASE Crash \/ Restart
    BY <1>5, BootKeeps
  <1> QED
    BY <1>1, <1>2, <1>3, <1>4, <1>5 DEF Next

(* Only a disturbance that strikes while the loop or a coroutine has a job *)
(* in hand loses it: every other job whose push was answered is somewhere, *)
(* or has its outcome.                                                     *)
THEOREM AccountedForHolds == Spec => []AccountedFor
  <1>1. Init => AccountedFor
    BY DEF Init, AccountedFor, Pushed
  <1>2. ASSUME IInv, AccountedFor, [Next]_vars PROVE AccountedFor'
    <2> SUFFICES ASSUME NEW j \in Jobs, Pushed(j)', ~MaybeLost(j)'
                 PROVE  (Waiting(j) \/ InHand(j) \/ Live(j) \/ saved[j].state \in Final)'
      BY DEF AccountedFor, Final
    <2>1. Keeps(j)
      BY <1>2, StepKeeps
    <2>2. CASE Placed(j) \/ Placed(j)'
      BY <2>1, <2>2 DEF Keeps, Placed
    <2>3. CASE ~Placed(j) /\ ~Placed(j)'
      <3>1. Pushed(j) /\ ~MaybeLost(j) /\ Submitted(j)
        BY <2>1, <2>3 DEF Keeps, Pushed, Submitted
      <3>2. saved[j].state \in Final /\ saved'[j] = saved[j]
        BY <1>2, <2>1, <2>3, <3>1 DEF Keeps, AccountedFor, Placed, Final
      <3> QED
        BY <3>2
    <2> QED
      BY <2>2, <2>3
  <1> QED
    BY <1>1, <1>2, Invariance, PTL DEF Spec

-----------------------------------------------------------------------------
(* The slots of an account.  A job has one from mark_job_started to        *)
(* mark_job_finished, and keeps it for ever if its coroutine ended between *)
(* them: such a job is nowhere, so that nobody touches its account again.  *)

Gone(j) == MaybeLost(j) /\ Submitted(j) /\ ~Placed(j)
HasSlot(j) == task[j] \in SlotPoints \/ Gone(j)
Holders(a) == {j \in Jobs : HasSlot(j) /\ acct[j] = a}

SlotsInv == \A a \in Accounts : running[a] <= Cardinality(Holders(a))

(* What a step does to jobs_running and to the jobs that have slots. *)
LEMMA SlotsKept ==
    ASSUME TypeOK, SlotsInv, NEW a \in Accounts, running'[a] \in Nat,
           \/ running'[a] = 0
           \/ running'[a] <= running[a] /\ Holders(a) \subseteq Holders(a)'
           \/ \E k \in Holders(a) :
                running'[a] = Released(running[a]) /\ Holders(a) \ {k} \subseteq Holders(a)'
           \/ \E k \in Jobs \ Holders(a) :
                running'[a] = running[a] + 1 /\ Holders(a) \cup {k} \subseteq Holders(a)'
    PROVE  running'[a] <= Cardinality(Holders(a)')
  <1> DEFINE S == Holders(a)
             T == Holders(a)'
  <1>1. IsFiniteSet(S) /\ Cardinality(S) \in Nat /\ IsFiniteSet(T) /\ Cardinality(T) \in Nat
    BY JobsAssumption, FS_Subset, FS_CardinalityType DEF Holders
  <1>2. running[a] \in Nat /\ running[a] <= Cardinality(S)
    BY DEF TypeOK, SlotsInv
  <1> HIDE DEF S, T
  <1>3. ASSUME running'[a] = 0 PROVE running'[a] <= Cardinality(T)
    BY <1>1, <1>3
  <1>4. ASSUME running'[a] <= running[a], S \subseteq T PROVE running'[a] <= Cardinality(T)
    <2>1. Cardinality(S) <= Cardinality(T)
      BY <1>1, <1>4, FS_Subset
    <2> QED
      BY <1>1, <1>2, <1>4, <2>1
  <1>5. ASSUME NEW k \in S, running'[a] = Released(running[a]), S \ {k} \subseteq T
        PROVE  running'[a] <= Cardinality(T)
    <2>1. IsFiniteSet(S \ {k}) /\ Cardinality(S \ {k}) = Cardinality(S) - 1
      BY <1>1, FS_RemoveElement
    <2>2. Cardinality(S \ {k}) <= Cardinality(T)
      BY <1>1, <1>5, FS_Subset
    <2> QED
      BY <1>1, <1>2, <1>5, <2>1, <2>2 DEF Released
  <1>6. ASSUME NEW k \in Jobs \ S, running'[a] = running[a] + 1, S \cup {k} \subseteq T
        PROVE  running'[a] <= Cardinality(T)
    <2>1. IsFiniteSet(S \cup {k}) /\ Cardinality(S \cup {k}) = Cardinality(S) + 1
      BY <1>1, FS_AddElement
    <2>2. Cardinality(S \cup {k}) <= Cardinality(T)
      BY <1>1, <1>6, FS_Subset
    <2> QED
      BY <1>1, <1>2, <1>6, <2>1, <2>2
  <1> QED
    BY <1>3, <1>4, <1>5, <1>6 DEF S, T

(* A job that is gone stays gone, on the account that it was on. *)
LEMMA GoneStays ==
    ASSUME NEW j \in Jobs, Keeps(j), Gone(j)
    PROVE  HasSlot(j)' /\ acct'[j] = acct[j]
  BY DEF Keeps, Gone, HasSlot

(* Slots of a step that leaves the points of the coroutines as they are. *)
LEMMA SlotsSame ==
    ASSUME IInv, SlotsInv, \A j \in Jobs : Keeps(j), running' = running,
           \A j \in Jobs : task[j] \in SlotPoints =>
                HasSlot(j)' /\ acct'[j] = acct[j]
    PROVE  SlotsInv'
  <1>1. TypeOK
    BY DEF IInv
  <1>2. ASSUME NEW a \in Accounts PROVE running'[a] <= Cardinality(Holders(a)')
    <2>1. Holders(a) \subseteq Holders(a)'
      BY GoneStays DEF Holders, HasSlot
    <2>2. running'[a] = running[a] /\ running[a] \in Nat
      BY <1>1 DEF TypeOK
    <2> QED
      BY <1>1, <2>1, <2>2, SlotsKept
  <1> QED
    BY <1>2 DEF SlotsInv

(* mark_job_started. *)
LEMMA StartOnSlots ==
    ASSUME IInv, SlotsInv, \A j \in Jobs : Keeps(j), NEW k \in Jobs, StartOn(k),
           task[k] \in {"spawned", "connecting"}, acct' = acct
    PROVE  SlotsInv'
  <1>1. TypeOK /\ acct[k] \in Accounts /\ Live(k)
    BY DEF IInv, JobInv, TaskInv, Live
  <1>2. /\ \A j \in Jobs \ {k} : task'[j] = task[j]
        /\ task'[k] \in SlotPoints /\ ~HasSlot(k)
    BY <1>1 DEF StartOn, GoTo, SlotPoints, TypeOK, HasSlot, Gone, Placed
  <1>3. ASSUME NEW a \in Accounts PROVE running'[a] <= Cardinality(Holders(a)')
    <2>1. Holders(a) \subseteq Holders(a)'
      BY <1>2, GoneStays DEF Holders, HasSlot
    <2>2. CASE a = acct[k]
      <3>1. k \in Jobs \ Holders(a) /\ k \in Holders(a)'
        BY <1>2, <2>2 DEF Holders, HasSlot
      <3>2. running'[a] = running[a] + 1 /\ running[a] \in Nat
        BY <1>1, <2>2 DEF StartOn, MarkJobStarted, TypeOK
      <3> QED
        BY <1>1, <2>1, <3>1, <3>2, SlotsKept
    <2>3. CASE a # acct[k]
      <3>1. running'[a] = running[a] /\ running[a] \in Nat
        BY <1>1, <2>3 DEF StartOn, MarkJobStarted, TypeOK
      <3> QED
        BY <1>1, <2>1, <3>1, SlotsKept
    <2> QED
      BY <2>2, <2>3
  <1> QED
    BY <1>3 DEF SlotsInv

(* mark_job_finished, by a coroutine that has a slot or had none.  Without *)
(* one it takes that of another job, which lowers the count all the same.  *)
LEMMA FinishedSlots ==
    ASSUME IInv, SlotsInv, \A j \in Jobs : Keeps(j), NEW k \in Jobs, NEW point, NEW after,
           Live(k), GoTo(k, point), MarkJobFinished(acct[k], after), acct' = acct
    PROVE  SlotsInv'
  <1>1. TypeOK /\ acct[k] \in Accounts
    BY DEF IInv, JobInv, TaskInv
  <1>2. \A j \in Jobs \ {k} : task'[j] = task[j]
    BY <1>1 DEF GoTo, TypeOK
  <1>3. ASSUME NEW a \in Accounts PROVE running'[a] <= Cardinality(Holders(a)')
    <2>1. Holders(a) \ {k} \subseteq Holders(a)'
      BY <1>2, GoneStays DEF Holders, HasSlot
    <2>2. running[a] \in Nat /\ Released(running[a]) \in Nat /\ Released(running[a]) <= running[a]
      BY <1>1 DEF TypeOK, Released
    <2>3. running'[a] = IF a = acct[k] THEN Released(running[a]) ELSE running[a]
      BY <1>1 DEF MarkJobFinished, TypeOK
    <2>4. CASE k \in Holders(a)
      <3>1. running'[a] = Released(running[a])
        BY <2>3, <2>4 DEF Holders
      <3> QED
        BY <1>1, <2>1, <2>2, <2>4, <3>1, SlotsKept
    <2>5. CASE k \notin Holders(a)
      <3>1. running'[a] <= running[a] /\ running'[a] \in Nat /\ Holders(a) \subseteq Holders(a)'
        BY <2>1, <2>2, <2>3, <2>5
      <3> QED
        BY <1>1, <3>1, SlotsKept
    <2> QED
      BY <2>4, <2>5
  <1> QED
    BY <1>3 DEF SlotsInv

LEMMA BootSlots == ASSUME IInv, Boot PROVE SlotsInv'
  <1>1. ASSUME NEW a \in Accounts PROVE running'[a] <= Cardinality(Holders(a)')
    <2>1. Cardinality(Holders(a)') \in Nat
      BY JobsAssumption, FS_Subset, FS_CardinalityType DEF Holders
    <2> QED
      BY <2>1 DEF Boot
  <1> QED
    BY <1>1 DEF SlotsInv

LEMMA TaskMoveSlots ==
    ASSUME IInv, SlotsInv, \A j \in Jobs : Keeps(j), NEW k \in Jobs, TaskMove(k)
    PROVE  SlotsInv'
  <1>1. TypeOK
    BY DEF IInv
  <1>2. CASE RunJob(k) /\ StartOn(k)
    BY <1>2, StartOnSlots DEF RunJob
  <1>3. CASE BrowserReady(k)
    BY <1>3, StartOnSlots DEF BrowserReady
  <1>4. CASE BrowserFails(k) \/ JobFails(k)
    BY <1>4, FinishedSlots DEF BrowserFails, JobFails, HandleFailure, Live
  <1>5. CASE JobSucceeds(k) \/ LoginRequired(k)
    BY <1>5, FinishedSlots DEF JobSucceeds, LoginRequired, Live
  <1>6. CASE (RunJob(k) /\ ~StartOn(k)) \/ LaunchBrowser(k) \/ Recovered(k) \/ RecoveryRaises(k)
    <2>1. running' = running /\ acct' = acct /\ task[k] \notin SlotPoints
      BY <1>6 DEF RunJob, LaunchBrowser, Recovered, RecoveryRaises, SlotPoints
    <2>2. PICK point : GoTo(k, point)
      BY <1>6 DEF RunJob, LaunchBrowser, Recovered, RecoveryRaises
    <2>3. \A j \in Jobs \ {k} : task'[j] = task[j]
      BY <1>1, <2>2 DEF GoTo, TypeOK
    <2> QED
      BY <2>1, <2>3, SlotsSame DEF HasSlot
  <1> QED
    BY <1>2, <1>3, <1>4, <1>5, <1>6 DEF TaskMove, JobEnds

LEMMA TaskWriteSlots ==
    ASSUME IInv, SlotsInv, \A j \in Jobs : Keeps(j), NEW k \in Jobs, TaskCommand(k) \/ TaskRaises(k)
    PROVE  SlotsInv'
  <1>1. TypeOK /\ acct' = acct /\ task[k] \in TaskWrites
    BY DEF IInv, TaskCommand, TaskRaises
  <1>2. CASE TaskRaises(k) /\ HandleFailure(k)
    BY <1>1, <1>2, FinishedSlots DEF HandleFailure, Live, TaskWrites
  <1>3. CASE TaskCommand(k)
    <2>1. running' = running /\ GoTo(k, AfterWrite(task[k]))
      BY <1>3 DEF TaskCommand, accountVars
    <2>2. \A j \in Jobs \ {k} : task'[j] = task[j]
      BY <1>1, <2>1 DEF GoTo, TypeOK
    <2>3. task[k] \in SlotPoints => task'[k] \in SlotPoints
      BY <1>1, <2>1 DEF GoTo, TypeOK, SlotPoints, AfterWrite, TaskWrites
    <2> QED
      BY <1>1, <2>1, <2>2, <2>3, SlotsSame DEF HasSlot
  <1>4. CASE TaskRaises(k) /\ ~HandleFailure(k)
    <2>1. /\ running' = running /\ GoTo(k, "none") /\ MaybeLost(k)' /\ UNCHANGED <<enq, held>>
          /\ Command(task[k], k) \/ UNCHANGED redisVars
      BY <1>4, FaultLoses DEF TaskRaises
    <2>2. \A j \in Jobs \ {k} : task'[j] = task[j]
      BY <1>1, <2>1 DEF GoTo, TypeOK
    <2>3. ASSUME task[k] \in SlotPoints PROVE Gone(k)'
      <3>1. ~Waiting(k) /\ ~InHand(k) /\ Submitted(k)
        BY <1>1, AtWrite
      <3>2. ready' = ready /\ delayed' = delayed
        BY <1>1, <2>1, <2>3, <3>1, CommandEffect DEF IInv, SlotPoints, QueuePoints
      <3>3. ~Live(k)'
        BY <1>1, <2>1 DEF GoTo, TypeOK, Live
      <3> QED
        BY <2>1, <3>1, <3>2, <3>3 DEF Gone, Placed, Waiting, InReady, InHand, Submitted
    <2> QED
      BY <1>1, <2>1, <2>2, <2>3, SlotsSame DEF HasSlot
  <1> QED
    BY <1>2, <1>3, <1>4

(* A step outside of the coroutines takes and returns no slot. *)
LEMMA OtherSlots ==
    ASSUME IInv, SlotsInv, \A j \in Jobs : Keeps(j), NEW k, NEW a,
           \/ LoopStep \/ LoopRaises \/ Stop
           \/ Enqueue(k) \/ EnqueueRaises(k)
           \/ ExecutorRecovers(k) \/ BecomesDue(k) \/ Ages(k) \/ AccountNext(a)
           \/ CleanupRead \/ CleanupDelete \/ UNCHANGED vars
    PROVE  SlotsInv'
  <1>1. TypeOK
    BY DEF IInv
  <1>2. CASE LoopStep \/ LoopRaises \/ Stop
    <2>1. running' = running
      BY <1>2 DEF LoopStep, LoopRelease, LoopPop, LoopIdle, LoopSelect, LoopCommand, LoopRaises,
                  Stop, accountVars
    <2>2. ASSUME NEW j \in Jobs, task[j] \in SlotPoints
          PROVE  task'[j] = task[j] /\ acct'[j] = acct[j]
      <3>1. held # j
        BY <2>2 DEF IInv, JobInv, PlaceInv, InHand, Live, SlotPoints
      <3> QED
        BY <1>1, <1>2, <3>1 DEF LoopStep, LoopRelease, LoopPop, LoopIdle, LoopSelect, LoopCommand,
                  LoopRaises, Stop, TypeOK
    <2> QED
      BY <2>1, <2>2, SlotsSame DEF HasSlot
  <1>3. CASE \/ Enqueue(k) \/ EnqueueRaises(k)
             \/ ExecutorRecovers(k) \/ BecomesDue(k) \/ Ages(k) \/ AccountNext(a)
             \/ CleanupRead \/ CleanupDelete \/ UNCHANGED vars
    <2>1. UNCHANGED <<running, task, acct>>
      BY <1>3 DEF Enqueue, EnqueueRaises, ExecutorRecovers, BecomesDue, Ages, AccountNext, BrowserDies,
             AdminSets, AdminStarts, AdminStops, SnapshotExpires, SnapshotRestores, CleanupRead,
             CleanupDelete, vars, jobVars, accountVars
    <2> QED
      BY <2>1, SlotsSame DEF HasSlot
  <1> QED
    BY <1>2, <1>3

LEMMA StepSlots == ASSUME IInv, SlotsInv, [Next]_vars PROVE SlotsInv'
  <1>1. \A j \in Jobs : Keeps(j)
    BY StepKeeps
  <1>2. CASE LoopStep \/ LoopRaises \/ Stop \/ CleanupRead \/ CleanupDelete \/ UNCHANGED vars
    BY <1>1, <1>2, OtherSlots
  <1>3. ASSUME NEW k \in Jobs, JobNext(k) PROVE SlotsInv'
    <2>1. CASE TaskMove(k)
      BY <1>1, <2>1, TaskMoveSlots
    <2>2. CASE TaskCommand(k) \/ TaskRaises(k)
      BY <1>1, <2>2, TaskWriteSlots
    <2>3. CASE Enqueue(k) \/ EnqueueRaises(k) \/ ExecutorRecovers(k) \/ BecomesDue(k) \/ Ages(k)
      BY <1>1, <2>3, OtherSlots
    <2> QED
      BY <1>3, <2>1, <2>2, <2>3 DEF JobNext, TaskStep, TaskMove
  <1>4. ASSUME NEW a \in Accounts, AccountNext(a) PROVE SlotsInv'
    BY <1>1, <1>4, OtherSlots
  <1>5. CASE Crash \/ Restart
    BY <1>5, BootSlots DEF Crash, Restart
  <1> QED
    BY <1>2, <1>3, <1>4, <1>5 DEF Next

(* jobs_running counts no more than the slots of coroutines that run, and  *)
(* those of the jobs whose mark_active raised, which nobody gives back     *)
(* before the next start.                                                  *)
THEOREM NoSlotLeaksHolds == Spec => []NoSlotLeaks
  <1>1. Init => SlotsInv
    <2> SUFFICES ASSUME Init, NEW a \in Accounts PROVE running[a] <= Cardinality(Holders(a))
      BY DEF SlotsInv
    <2>1. Cardinality(Holders(a)) \in Nat
      BY JobsAssumption, FS_Subset, FS_CardinalityType DEF Holders
    <2> QED
      BY <2>1 DEF Init
  <1>2. IInv /\ SlotsInv /\ [Next]_vars => SlotsInv'
    BY StepSlots
  <1>3. IInv /\ SlotsInv => NoSlotLeaks
    <2> SUFFICES ASSUME IInv, SlotsInv, NEW a \in Accounts
                 PROVE  running[a] <= Cardinality(SlotsTaken(a)) + Cardinality(LeakedBy(a))
      BY DEF NoSlotLeaks
    <2> DEFINE S == SlotsTaken(a)
               T == LeakedBy(a)
    <2>1. IsFiniteSet(S) /\ IsFiniteSet(T)
      BY JobsAssumption, FS_Subset DEF SlotsTaken, LeakedBy
    <2>2. Holders(a) \subseteq S \cup T
      BY DEF Holders, HasSlot, Gone, Placed, SlotsTaken, LeakedBy
    <2>3. running[a] \in Nat /\ running[a] <= Cardinality(Holders(a))
      BY DEF IInv, TypeOK, SlotsInv
    <2> HIDE DEF S, T
    <2>4. /\ IsFiniteSet(S \cup T)
          /\ Cardinality(S \cup T) = Cardinality(S) + Cardinality(T) - Cardinality(S \cap T)
      BY <2>1, FS_Union
    <2>5. /\ Cardinality(S) \in Nat /\ Cardinality(T) \in Nat
          /\ Cardinality(S \cap T) \in Nat /\ Cardinality(S \cup T) \in Nat
      <3>1. IsFiniteSet(S \cap T)
        BY <2>1, FS_Subset
      <3> QED
        BY <2>1, <2>4, <3>1, FS_CardinalityType
    <2>6. Cardinality(Holders(a)) <= Cardinality(S \cup T) /\ Cardinality(Holders(a)) \in Nat
      BY <2>2, <2>4, FS_Subset, FS_CardinalityType
    <2>7. running[a] <= Cardinality(S) + Cardinality(T)
      BY <2>3, <2>4, <2>5, <2>6
    <2> QED
      BY <2>7 DEF S, T
  <1> QED
    BY <1>1, <1>2, <1>3, Invariance, PTL DEF Spec

=============================================================================
