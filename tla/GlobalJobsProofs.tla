------------------------- MODULE GlobalJobsProofs -------------------------
(***************************************************************************)
(* Proofs about GlobalJobs, for every number of jobs, workers, requests    *)
(* and disturbances.  The inductive invariant says what the queues, the    *)
(* record in Redis, the store and the object in the hand of the loop look  *)
(* like at each point where the loop can be suspended.                     *)
(***************************************************************************)
EXTENDS GlobalJobs, QueueLemmas, TLAPS

(* What a record may say of its job. *)
Linked(r, j) ==
    r.local \in LocalIds /\ owner[r.local] = j /\ host[r.local] = r.worker
Truthful(r, j) ==
    /\ r.state \in {"PROCESSING", "COMPLETED", "TIMEOUT"} => Linked(r, j) /\ local[r.local] # "NONE"
    /\ r.state = "COMPLETED" => local[r.local] = "COMPLETED"
    /\ r.state = "FAILED" =>
        r.retries > MaxRetries \/ (Linked(r, j) /\ local[r.local] = "FAILED")
    /\ r.state = "TIMEOUT" => j \in aged

(* What Redis and the store hold, wherever the loop is. *)
RedisInv(j) ==
    /\ InReady(j) => j \notin delayed
    /\ Waiting(j) => saved[j].state \in {"QUEUED", "RETRYING"} /\ saved[j].retries <= MaxRetries
    /\ Truthful(saved[j], j)
    /\ db[j] \in Final => saved[j].state = db[j]

(* A job that the handler of its request has not pushed yet. *)
EnqInv(j) ==
    /\ enq[j] \in {"new", "saved"} => ~Waiting(j) /\ ~InHand(j)
    /\ enq[j] = "new" => saved[j] = NoRecord
    /\ enq[j] = "saved" => saved[j] = NewRecord

(* The points at which Redis has what is in memory. *)
Written == {"select", "delay", "assignStore", "post", "posted", "clearStore", "requeue",
            "dropStore", "syncStore"}

HeldInv(j) ==
    /\ Truthful(mem, j)
    /\ loop # "dropStore" => ~Waiting(j)
    /\ loop \in Written => saved[j] = mem
    /\ loop \in {"select", "wait", "assign", "assignSave"} =>
         saved[j].state \in {"QUEUED", "RETRYING"}
    /\ loop \in {"clear", "clearSave"} => saved[j].state = "ASSIGNED"
    /\ loop \in {"drop", "dropSave", "retrying", "final"} =>
         saved[j].state \in {"ASSIGNED", "PROCESSING"}
    /\ loop = "syncSave" => saved[j].state = "PROCESSING"
    /\ loop \in {"wait", "delay", "retrying", "requeue"} => mem.state = "RETRYING"
    /\ loop \in {"assign", "assignSave", "assignStore", "post", "posted"} => mem.state = "ASSIGNED"
    /\ loop \in {"clear", "clearSave", "clearStore"} => mem.state = "PROCESSING"
    /\ loop \in {"drop", "dropSave"} => mem.state \in {"ASSIGNED", "PROCESSING"}
    /\ loop = "final" => mem.state = "FAILED"
    /\ loop = "dropStore" => mem.state \in {"RETRYING", "FAILED"}
    /\ loop \in {"syncSave", "syncStore"} => mem.state \in Final
    /\ loop \notin {"syncSave", "syncStore", "drop", "dropSave", "final", "dropStore"} =>
         mem.retries <= MaxRetries
    /\ loop = "posted" => post \in LocalIds /\ owner[post] = j /\ host[post] = mem.worker
HandInv(j) == InHand(j) => HeldInv(j)
TodoInv(j) == j \in todo => saved[j].state = "PROCESSING" /\ ~InHand(j)

LoopInv ==
    /\ loop \in {"top", "sync", "release", "pop"} <=> held = NoJob
    /\ loop \notin {"sync", "syncSave", "syncStore"} => todo = {}

JobInv(j) == RedisInv(j) /\ EnqInv(j) /\ HandInv(j) /\ TodoInv(j)
JobsInv == \A j \in Jobs : JobInv(j)

IInv == TypeOK /\ IsInjective(ready) /\ LoopInv /\ JobsInv

-----------------------------------------------------------------------------
(* What the workers and the clock do to a record: links stay, outcomes of  *)
(* local jobs stay, and an old job stays old.                              *)

Grow ==
    /\ \A l \in LocalIds : owner[l] # NoJob =>
        /\ owner'[l] = owner[l] /\ host'[l] = host[l]
        /\ local[l] # "NONE" => local'[l] # "NONE"
        /\ local[l] \in {"COMPLETED", "FAILED"} => local'[l] = local[l]
    /\ aged \subseteq aged'

LEMMA TruthKept ==
    ASSUME Grow, NEW j \in Jobs, NEW r, Truthful(r, j)
    PROVE  Truthful(r, j)'
BY JobsAssumption DEF Grow, Truthful, Linked

LEMMA WorkerGrows ==
    ASSUME TypeOK, NEW l \in LocalIds, WorkerStep(l)
    PROVE  Grow /\ local' \in [LocalIds -> States]
<1>1. /\ UNCHANGED <<owner, host, aged>>
      /\ Local!Step(l)
  BY DEF WorkerStep, otherVars
<1>2. \E s \in States : local' = [local EXCEPT ![l] = s] /\ s # "NONE"
  BY <1>1 DEF Local!Step, Local!Create, Local!Wait, Local!Assign, Local!Start, Local!Strand,
     Local!Complete, Local!Retry, Local!Fail, Local!Set, States, Open, Final
<1>3. local[l] \notin {"COMPLETED", "FAILED"}
  BY <1>1 DEF Local!Step, Local!Create, Local!Wait, Local!Assign, Local!Start, Local!Strand,
     Local!Complete, Local!Retry, Local!Fail, Local!Set, Local!Waits, Local!Fails
<1> QED BY <1>1, <1>2, <1>3 DEF Grow, TypeOK

(* The parts of the invariant survive a step that leaves alone what they   *)
(* speak of.                                                               *)
LEMMA RedisFrame ==
    ASSUME Grow, NEW j \in Jobs, RedisInv(j), saved'[j] = saved[j], db'[j] = db[j],
           Waiting(j)' => Waiting(j), (InReady(j) => j \notin delayed)'
    PROVE  RedisInv(j)'
<1>1. PICK r : r = saved[j]
  OBVIOUS
<1>2. Truthful(r, j)'
  BY <1>1, TruthKept DEF RedisInv
<1>3. Truthful(saved[j], j)'
  BY <1>1, <1>2
<1> QED BY <1>3 DEF RedisInv

LEMMA HandFrame ==
    ASSUME Grow, NEW j \in Jobs, HandInv(j), saved'[j] = saved[j], Waiting(j)' => Waiting(j),
           InHand(j)' => InHand(j) /\ UNCHANGED <<loop, mem, post>>
    PROVE  HandInv(j)'
<1> SUFFICES ASSUME InHand(j), UNCHANGED <<loop, mem, post>>
             PROVE  HeldInv(j)'
  BY DEF HandInv
<1>1. HeldInv(j)
  BY DEF HandInv
<1>2. PICK r : r = mem
  OBVIOUS
<1>3. Truthful(mem, j)'
  BY <1>1, <1>2, TruthKept DEF HeldInv
<1>4. loop = "posted" => owner'[post] = j /\ host'[post] = mem.worker
  BY <1>1, JobsAssumption DEF HeldInv, Grow
<1> QED BY <1>1, <1>3, <1>4 DEF HeldInv

(* A job that the step does not touch. *)
LEMMA Frame ==
    ASSUME Grow, NEW j \in Jobs, JobInv(j), saved'[j] = saved[j], db'[j] = db[j],
           Waiting(j)' => Waiting(j), (InReady(j) => j \notin delayed)', enq'[j] = enq[j],
           InHand(j)' => InHand(j) /\ UNCHANGED <<loop, mem, post>>,
           j \in todo' => j \in todo
    PROVE  JobInv(j)'
<1>1. RedisInv(j)'
  BY RedisFrame DEF JobInv
<1>2. HandInv(j)'
  BY HandFrame DEF JobInv
<1> QED BY <1>1, <1>2 DEF JobInv, EnqInv, TodoInv

(* A step that leaves every job alone. *)
LEMMA Quiet ==
    ASSUME IInv, Grow,
           UNCHANGED <<saved, ready, delayed, db, enq, loop, held, mem, todo, post>>
    PROVE  JobsInv' /\ LoopInv' /\ IsInjective(ready)'
<1>1. ASSUME NEW j \in Jobs PROVE JobInv(j)'
  <2>1. JobInv(j) /\ (InReady(j) => j \notin delayed)
    BY DEF IInv, JobsInv, JobInv, RedisInv
  <2> QED BY <2>1, Frame DEF InReady, InHand, Waiting
<1> QED BY <1>1 DEF JobsInv, IInv, LoopInv

LEMMA NoGrowth ==
    ASSUME UNCHANGED <<workerVars, aged>>
    PROVE  Grow
BY DEF Grow, workerVars

-----------------------------------------------------------------------------
(* What a command does to the queues, the records and the store, with or   *)
(* without effect.                                                         *)

RedisTypes ==
    /\ saved \in [Jobs -> Records]
    /\ ready \in Seq(Jobs)
    /\ delayed \subseteq Jobs /\ due \subseteq delayed
    /\ active \subseteq Jobs /\ jobIds \subseteq Jobs
    /\ db \in [Jobs -> States]

(* Only a job that does not wait enters a queue. *)
LEMMA PushEffect ==
    ASSUME TypeOK, IsInjective(ready), NEW k \in Jobs, ~Waiting(k), PushReady(k)
    PROVE  /\ RedisTypes' /\ IsInjective(ready)'
           /\ \A i \in Jobs : InReady(i)' <=> InReady(i) \/ i = k
           /\ UNCHANGED <<saved, db, delayed>>
<1>1. k \notin ToSet(ready) /\ ready \in Seq(Jobs)
  BY DEF Waiting, InReady, TypeOK
<1>2. /\ Append(ready, k) \in Seq(Jobs) /\ IsInjective(Append(ready, k))
      /\ ToSet(Append(ready, k)) = ToSet(ready) \cup {k}
  BY <1>1, AppendNew
<1>3. ready' = Append(ready, k) /\ UNCHANGED <<saved, delayed, due, active, jobIds, db>>
  BY DEF PushReady
<1> QED BY <1>2, <1>3 DEF RedisTypes, TypeOK, InReady

LEMMA CommandEffect ==
    ASSUME TypeOK, IsInjective(ready), NEW p, NEW k \in Jobs,
           Command(p, k) \/ UNCHANGED <<queueVars, db>>,
           p \in QueuePoints => ~Waiting(k)
    PROVE  /\ RedisTypes' /\ IsInjective(ready)'
           /\ \A i \in Jobs \ {k} :
                /\ saved'[i] = saved[i] /\ db'[i] = db[i]
                /\ InReady(i)' <=> InReady(i)
                /\ (i \in delayed)' <=> i \in delayed
           /\ saved'[k] = saved[k] \/ (p \in SavePoints /\ saved'[k] = mem)
           /\ db'[k] = db[k] \/ (p \in StorePoints /\ db'[k] = mem.state)
           /\ p \notin QueuePoints => UNCHANGED <<ready, delayed>>
           /\ p \in QueuePoints => UNCHANGED <<saved, db>> /\ ~(InReady(k) /\ k \in delayed)'
<1> USE DEF RedisTypes, TypeOK
<1>1. CASE UNCHANGED <<queueVars, db>>
  BY <1>1 DEF queueVars, Waiting, InReady
<1>2. CASE p \in QueuePoints /\ PushReady(k)
  BY <1>2, PushEffect DEF QueuePoints, Waiting
<1>3. CASE p \in QueuePoints /\ AddDelayed(k)
  BY <1>3 DEF AddDelayed, Waiting, InReady, QueuePoints
<1>4. CASE p \in SavePoints /\ Save(k, mem)
  BY <1>4 DEF Save, SavePoints, QueuePoints, InReady
<1>5. CASE p \in StorePoints /\ StoreJob(k, mem.state)
  <2>1. mem.state \in States
    BY DEF Records
  <2> QED BY <1>5, <2>1 DEF StoreJob, StorePoints, QueuePoints, queueVars, InReady
<1>6. CASE p \in {"assign", "clear", "drop"} /\ (HSetActive(k) \/ HDelActive({k}))
  BY <1>6 DEF HSetActive, HDelActive, QueuePoints, InReady
<1>7. Command(p, k) =>
        \/ p \in QueuePoints /\ (PushReady(k) \/ AddDelayed(k))
        \/ p \in SavePoints /\ Save(k, mem)
        \/ p \in StorePoints /\ StoreJob(k, mem.state)
        \/ p \in {"assign", "clear", "drop"} /\ (HSetActive(k) \/ HDelActive({k}))
  BY DEF Command, QueuePoints
<1> QED BY <1>1, <1>2, <1>3, <1>4, <1>5, <1>6, <1>7

(* A command of the loop, with or without effect, keeps what Redis and the *)
(* store promise.                                                          *)
LEMMA CommandInv ==
    ASSUME IInv, Grow, NEW k \in Jobs, k = held, loop \in Writes,
           Command(loop, k) \/ UNCHANGED <<queueVars, db>>
    PROVE  /\ RedisTypes' /\ IsInjective(ready)'
           /\ \A j \in Jobs : RedisInv(j)'
           /\ \A j \in Jobs \ {k} : saved'[j] = saved[j] /\ (Waiting(j)' <=> Waiting(j))
<1>1. HeldInv(k) /\ RedisInv(k) /\ TypeOK /\ IsInjective(ready)
  BY DEF IInv, JobsInv, JobInv, HandInv, InHand
<1>2. loop \in QueuePoints => ~Waiting(k)
  BY <1>1 DEF HeldInv, QueuePoints
<1>0. PICK p : p = loop
  OBVIOUS
<1>3. /\ RedisTypes' /\ IsInjective(ready)'
      /\ \A i \in Jobs \ {k} :
           /\ saved'[i] = saved[i] /\ db'[i] = db[i]
           /\ InReady(i)' <=> InReady(i)
           /\ (i \in delayed)' <=> i \in delayed
      /\ saved'[k] = saved[k] \/ (p \in SavePoints /\ saved'[k] = mem)
      /\ db'[k] = db[k] \/ (p \in StorePoints /\ db'[k] = mem.state)
      /\ p \notin QueuePoints => UNCHANGED <<ready, delayed>>
      /\ p \in QueuePoints => UNCHANGED <<saved, db>> /\ ~(InReady(k) /\ k \in delayed)'
  BY <1>0, <1>1, <1>2, CommandEffect
<1>4. ASSUME NEW j \in Jobs \ {k}
      PROVE  RedisInv(j)' /\ saved'[j] = saved[j] /\ (Waiting(j)' <=> Waiting(j))
  <2>1. RedisInv(j)
    BY DEF IInv, JobsInv, JobInv
  <2> QED BY <1>3, <2>1, RedisFrame DEF Waiting, RedisInv
<1>5. RedisInv(k)'
  <2>1. PICK r, m : r = saved[k] /\ m = mem
    OBVIOUS
  <2>2. Truthful(r, k)' /\ Truthful(m, k)'
    BY <1>1, <2>1, TruthKept DEF RedisInv, HeldInv
  <2>3. Truthful(saved[k], k)'
    BY <1>3, <2>1, <2>2
  <2>4. (InReady(k) => k \notin delayed)'
    <3>1. CASE p \in QueuePoints
      BY <1>3, <3>1
    <3>2. CASE p \notin QueuePoints
      BY <1>1, <1>3, <3>2 DEF RedisInv, InReady
    <3> QED BY <3>1, <3>2
  <2>5. (Waiting(k) => saved[k].state \in {"QUEUED", "RETRYING"} /\ saved[k].retries <= MaxRetries)'
    <3>1. CASE p \in QueuePoints
      BY <1>0, <1>1, <1>3, <3>1 DEF HeldInv, Written, QueuePoints
    <3>2. CASE p \in SavePoints
      BY <1>0, <1>1, <1>3, <3>2 DEF HeldInv, Waiting, InReady, SavePoints, QueuePoints
    <3>3. CASE p \notin SavePoints \cup QueuePoints
      BY <1>1, <1>3, <3>3 DEF RedisInv, Waiting, InReady
    <3> QED BY <3>1, <3>2, <3>3
  <2>6. (db[k] \in Final => saved[k].state = db[k])'
    <3>1. CASE p \in StorePoints /\ db'[k] = mem.state
      BY <1>0, <1>1, <1>3, <3>1 DEF HeldInv, Written, StorePoints, SavePoints
    <3>2. CASE db'[k] = db[k] /\ saved'[k] = saved[k]
      BY <1>1, <3>2 DEF RedisInv
    <3>3. CASE db'[k] = db[k] /\ p \in SavePoints
      <4>1. saved[k].state \notin Final
        BY <1>0, <1>1, <3>3 DEF HeldInv, SavePoints, Final
      <4> QED BY <1>1, <3>3, <4>1 DEF RedisInv
    <3> QED BY <1>3, <3>1, <3>2, <3>3
  <2> QED BY <2>3, <2>4, <2>5, <2>6 DEF RedisInv
<1> QED BY <1>3, <1>4, <1>5

-----------------------------------------------------------------------------
(* How the invariant after a step is put together. *)

LoopTypes ==
    /\ loop \in LoopPoints
    /\ held \in Jobs \cup {NoJob}
    /\ mem \in Records
    /\ todo \subseteq Jobs
    /\ post \in LocalIds \cup {NoLocal}
    /\ tries \in Nat
RestTypes ==
    /\ registered \subseteq Workers
    /\ enq \in [Jobs -> {"new", "saved", "pushed", "indexed", "done", "failed"}]
    /\ stale \subseteq Jobs
    /\ local \in [LocalIds -> States]
    /\ owner \in [LocalIds -> Jobs \cup {NoJob}]
    /\ host \in [LocalIds -> Workers \cup {NoWorker}]
    /\ born \in [Jobs -> Nat]
    /\ aged \subseteq Jobs
    /\ faults \in Disturbances

LEMMA TypeParts == TypeOK <=> RedisTypes /\ LoopTypes /\ RestTypes
BY DEF TypeOK, RedisTypes, LoopTypes, RestTypes

LEMMA EmptyRecords ==
    /\ NoRecord \in Records /\ NewRecord \in Records
    /\ NewRecord.state = "QUEUED" /\ NewRecord.retries = 0 /\ NoRecord.state = "NONE"
BY DEF NoRecord, NewRecord, Records, States, Open

LEMMA FaultTyped ==
    ASSUME RestTypes, NEW kind, NEW hit \in SUBSET Jobs, Fault(kind, hit)
    PROVE  faults' \in Disturbances
BY DEF RestTypes, Fault, Disturbances

LEMMA Assemble ==
    ASSUME IInv, RedisTypes', LoopTypes', RestTypes', IsInjective(ready)', LoopInv',
           UNCHANGED enq,
           \A j \in Jobs : RedisInv(j)' /\ HandInv(j)' /\ TodoInv(j)',
           \A j \in Jobs : enq[j] \in {"new", "saved"} =>
               saved'[j] = saved[j] /\ ~Waiting(j)' /\ ~InHand(j)'
    PROVE  IInv'
<1>1. \A j \in Jobs : EnqInv(j)'
  BY DEF IInv, JobsInv, JobInv, EnqInv
<1>2. TypeOK'
  BY DEF TypeOK, RedisTypes, LoopTypes, RestTypes
<1>3. JobsInv'
  BY <1>1 DEF JobsInv, JobInv
<1> QED BY <1>2, <1>3 DEF IInv

(* A step of the loop that writes nothing. *)
LEMMA LoopMoves ==
    ASSUME IInv, Grow, UNCHANGED <<queueVars, db, enq>>, LoopTypes', RestTypes', LoopInv',
           \A j \in Jobs : HandInv(j)' /\ TodoInv(j)',
           \A j \in Jobs : InHand(j)' => InHand(j) \/ j \in todo
    PROVE  IInv'
<1>1. \A j \in Jobs : RedisInv(j) /\ EnqInv(j) /\ TodoInv(j)
  BY DEF IInv, JobsInv, JobInv
<1>2. RedisTypes' /\ IsInjective(ready)'
  BY TypeParts DEF IInv, RedisTypes, queueVars
<1>3. \A j \in Jobs : Waiting(j)' <=> Waiting(j)
  BY DEF Waiting, InReady, queueVars
<1>4. ASSUME NEW j \in Jobs PROVE RedisInv(j)'
  <2>1. (InReady(j) => j \notin delayed)' /\ saved'[j] = saved[j] /\ db'[j] = db[j]
    BY <1>1 DEF RedisInv, InReady, queueVars
  <2> QED BY <1>1, <1>3, <2>1, RedisFrame
<1>5. ASSUME NEW j \in Jobs, enq[j] \in {"new", "saved"}
      PROVE  saved'[j] = saved[j] /\ ~Waiting(j)' /\ ~InHand(j)'
  <2>1. saved[j].state \in {"NONE", "QUEUED"}
    BY <1>1, <1>5, EmptyRecords DEF EnqInv
  <2> QED BY <1>1, <1>3, <1>5, <2>1 DEF EnqInv, TodoInv, queueVars
<1> QED BY <1>2, <1>4, <1>5, Assemble

LEMMA Unheld ==
    ASSUME held' = NoJob
    PROVE  \A j \in Jobs : HandInv(j)' /\ ~InHand(j)'
BY JobsAssumption DEF HandInv, InHand

-----------------------------------------------------------------------------
(* The steps that leave the jobs alone. *)

LEMMA QuietInv ==
    ASSUME IInv,
           \/ \E j \in Jobs : BecomesDue(j) \/ Ages(j)
           \/ \E w \in Workers : Administer(w)
           \/ \E l \in LocalIds : WorkerStep(l)
           \/ CleanupRead \/ CleanupDelete
    PROVE  IInv'
<1>1. TypeOK
  BY DEF IInv
<1> SUFFICES TypeOK' /\ Grow /\ UNCHANGED <<saved, ready, delayed, db, enq, loop, held, mem, todo, post>>
  BY Quiet DEF IInv
<1>2. ASSUME NEW j \in Jobs, BecomesDue(j) \/ Ages(j)
      PROVE  TypeOK' /\ Grow
             /\ UNCHANGED <<saved, ready, delayed, db, enq, loop, held, mem, todo, post>>
  BY <1>1, <1>2 DEF BecomesDue, Ages, TypeOK, Grow, queueVars, loopVars, workerVars, otherVars
<1>3. ASSUME NEW w \in Workers, Administer(w)
      PROVE  TypeOK' /\ Grow
             /\ UNCHANGED <<saved, ready, delayed, db, enq, loop, held, mem, todo, post>>
  <2>1. faults' \in Disturbances
    BY <1>1, <1>3, FaultTyped, TypeParts DEF Administer
  <2> QED
    BY <1>1, <1>3, <2>1 DEF Administer, TypeOK, Grow, queueVars, loopVars, workerVars, otherVars
<1>4. ASSUME NEW l \in LocalIds, WorkerStep(l)
      PROVE  TypeOK' /\ Grow
             /\ UNCHANGED <<saved, ready, delayed, db, enq, loop, held, mem, todo, post>>
  <2>1. Grow /\ local' \in [LocalIds -> States]
    BY <1>1, <1>4, WorkerGrows
  <2> QED
    BY <1>1, <1>4, <2>1 DEF WorkerStep, TypeOK, queueVars, loopVars, otherVars
<1>5. CASE CleanupRead
  BY <1>1, <1>5 DEF CleanupRead, TypeOK, Grow, queueVars, loopVars, workerVars, otherVars
<1>6. CASE CleanupDelete
  BY <1>1, <1>6
     DEF CleanupDelete, HDelActive, TypeOK, Grow, loopVars, workerVars, otherVars
<1> QED BY <1>2, <1>3, <1>4, <1>5, <1>6

(* The loop goes round, and takes up what a sync has to look at. *)
LEMMA LoopRoundInv ==
    ASSUME IInv, LoopSync \/ LoopSkip \/ LoopSynced \/ LoopIdle
    PROVE  IInv'
<1>1. TypeOK /\ LoopInv /\ RestTypes /\ LoopTypes
  BY TypeParts DEF IInv
<1>2. /\ UNCHANGED <<queueVars, db, enq, held, mem, post, tries, registered, stale, workerVars,
                     otherVars, faults>>
      /\ held = NoJob /\ loop' \in {"sync", "release", "top"}
      /\ loop' = "sync" \/ todo' = {}
      /\ todo' \subseteq {j \in Jobs : saved[j].state = "PROCESSING"}
  BY <1>1 DEF LoopSync, LoopSkip, LoopSynced, LoopIdle, SyncUnchanged, LoopInv, loopVars,
              TypeOK, Listed, Recent
<1>3. LoopTypes' /\ RestTypes' /\ LoopInv'
  BY <1>1, <1>2 DEF LoopTypes, RestTypes, LoopInv, LoopPoints, workerVars, otherVars
<1>4. \A j \in Jobs : HandInv(j)' /\ ~InHand(j)'
  BY <1>2, Unheld
<1>5. \A j \in Jobs : TodoInv(j)'
  BY <1>2, <1>4 DEF TodoInv, queueVars
<1> QED BY <1>2, <1>3, <1>4, <1>5, LoopMoves, NoGrowth DEF otherVars

-----------------------------------------------------------------------------
(* The handler of a request. *)

LEMMA EnqueueInv ==
    ASSUME IInv, NEW k \in Jobs, Enqueue(k) \/ EnqueueRaises(k)
    PROVE  IInv'
<1>1. /\ TypeOK /\ IsInjective(ready) /\ LoopInv /\ JobInv(k)
      /\ RedisTypes /\ LoopTypes /\ RestTypes
  BY TypeParts DEF IInv, JobsInv
<1>2. /\ UNCHANGED <<registered, loop, loopVars, stale, workerVars, aged>>
      /\ EnqueueCommand(k) \/ UNCHANGED <<queueVars, db>>
      /\ faults' \in Disturbances
      /\ Born(k)
      /\ enq[k] \in {"new", "saved", "pushed", "indexed"}
  BY <1>1, FaultTyped DEF Enqueue, EnqueueRaises, EnqueueCommand, RestTypes
<1>3. \E e \in {"saved", "pushed", "indexed", "done", "failed"} : enq' = [enq EXCEPT ![k] = e]
  BY <1>1 DEF Enqueue, EnqueueRaises, EnqueueCommand, RestTypes
<1>4. /\ RedisTypes' /\ IsInjective(ready)'
      /\ \A i \in Jobs \ {k} :
           /\ saved'[i] = saved[i] /\ db'[i] = db[i]
           /\ InReady(i)' <=> InReady(i)
           /\ (i \in delayed)' <=> i \in delayed
      /\ saved'[k] = saved[k] \/ (enq[k] = "new" /\ saved'[k] = NewRecord)
      /\ db'[k] = db[k] \/ db'[k] = "QUEUED"
      /\ Waiting(k)' => Waiting(k) \/ enq[k] = "saved"
      /\ InReady(k)' => ~(k \in delayed)'
      /\ enq'[k] = "saved" => enq[k] = "new" /\ saved'[k] = NewRecord /\ ~Waiting(k)'
      /\ enq'[k] # "new"
  <2> USE <1>1, <1>3 DEF RedisTypes, RestTypes, JobInv, EnqInv, RedisInv, Waiting
  <2>0. /\ enq[k] # "new" => enq'[k] # "saved"
        /\ UNCHANGED <<queueVars, db>> /\ ~EnqueueCommand(k) => enq'[k] = "failed"
        /\ enq'[k] # "new"
    BY DEF Enqueue, EnqueueRaises, EnqueueCommand
  <2>1. CASE UNCHANGED <<queueVars, db>> /\ ~EnqueueCommand(k)
    BY <2>0, <2>1 DEF queueVars, InReady
  <2>2. CASE enq[k] = "new" /\ Save(k, NewRecord)
    BY <2>0, <2>2, EmptyRecords DEF Save, InReady
  <2>3. CASE enq[k] = "saved" /\ PushReady(k)
    BY <2>0, <2>3, PushEffect
  <2>4. CASE enq[k] = "pushed" /\ IndexJob(k)
    BY <2>0, <2>4 DEF IndexJob, InReady
  <2>5. CASE enq[k] = "indexed" /\ StoreJob(k, "QUEUED")
    BY <2>0, <2>5 DEF StoreJob, InReady, queueVars, States, Open
  <2> QED BY <1>2, <2>1, <2>2, <2>3, <2>4, <2>5 DEF EnqueueCommand
<1>5. Grow
  BY <1>2 DEF Grow, workerVars
<1>6. TypeOK' /\ LoopInv'
  <2>1. LoopTypes' /\ LoopInv'
    BY <1>1, <1>2 DEF LoopTypes, LoopInv, loopVars
  <2>2. born' \in [Jobs -> Nat]
    <3>1. Cardinality({i \in Jobs : born[i] > 0}) \in Nat
      BY JobsAssumption, FS_Subset, FS_CardinalityType
    <3> QED BY <1>1, <1>2, <3>1 DEF Born, RestTypes
  <2>3. RestTypes'
    BY <1>1, <1>2, <1>3, <2>2 DEF RestTypes, workerVars
  <2> QED BY <1>4, <2>1, <2>3 DEF TypeOK, RedisTypes, LoopTypes, RestTypes
<1>7. ASSUME NEW j \in Jobs \ {k} PROVE JobInv(j)'
  <2>1. JobInv(j) /\ enq'[j] = enq[j]
    BY <1>1, <1>3 DEF IInv, JobsInv, RestTypes
  <2>2. (InReady(j) => j \notin delayed)' /\ (Waiting(j)' => Waiting(j))
    BY <1>4, <2>1 DEF JobInv, RedisInv, Waiting
  <2> QED BY <1>2, <1>4, <1>5, <2>1, <2>2, Frame DEF InHand, loopVars
<1>8. JobInv(k)'
  <2> USE DEF JobInv
  <2>1. Truthful(saved[k], k)'
    <3>1. PICK r : r = saved[k]
      OBVIOUS
    <3>2. Truthful(r, k)'
      BY <1>1, <1>5, <3>1, TruthKept DEF RedisInv
    <3>3. saved'[k] = NewRecord => Truthful(saved[k], k)'
      BY EmptyRecords DEF Truthful
    <3> QED BY <1>4, <3>1, <3>2, <3>3
  <2>2. (Waiting(k) => saved[k].state \in {"QUEUED", "RETRYING"} /\ saved[k].retries <= MaxRetries)'
    BY <1>1, <1>4, EmptyRecords, LimitsAssumption DEF RedisInv, EnqInv
  <2>3. (db[k] \in Final => saved[k].state = db[k])'
    BY <1>1, <1>4, EmptyRecords DEF RedisInv, EnqInv, Final
  <2>4. RedisInv(k)'
    BY <1>4, <2>1, <2>2, <2>3 DEF RedisInv
  <2>5. InHand(k)' <=> InHand(k)
    BY <1>2 DEF InHand, loopVars
  <2>6. HandInv(k)'
    <3>1. CASE InHand(k)
      <4>1. saved'[k] = saved[k] /\ (Waiting(k)' => Waiting(k))
        BY <1>1, <1>4, <3>1 DEF EnqInv
      <4> QED BY <1>1, <1>2, <1>5, <4>1, <2>5, HandFrame DEF loopVars
    <3> QED BY <3>1, <2>5 DEF HandInv
  <2>7. EnqInv(k)'
    BY <1>1, <1>4, <2>5 DEF EnqInv
  <2>8. TodoInv(k)'
    <3>1. k \in todo => enq[k] # "new"
      BY <1>1, EmptyRecords DEF TodoInv, EnqInv
    <3> QED BY <1>1, <1>2, <1>4, <2>5, <3>1 DEF TodoInv, loopVars
  <2> QED BY <2>4, <2>6, <2>7, <2>8
<1> QED BY <1>4, <1>6, <1>7, <1>8 DEF IInv, JobsInv

-----------------------------------------------------------------------------
(* The loop takes the next job. *)

LEMMA ReleaseEffect ==
    ASSUME IInv, ReleaseDue
    PROVE  /\ RedisTypes' /\ IsInjective(ready)'
           /\ UNCHANGED <<saved, db>>
           /\ \A j \in Jobs : (Waiting(j)' => Waiting(j)) /\ (InReady(j) => j \notin delayed)'
<1>1. TypeOK /\ IsInjective(ready) /\ \A j \in Jobs : RedisInv(j)
  BY DEF IInv, JobsInv, JobInv
<1>2. PICK batch \in SUBSET due : \E order \in SetToSeqs(batch) :
          /\ ready' = ready \o order
          /\ delayed' = delayed \ batch
          /\ due' = due \ batch
  BY DEF ReleaseDue
<1>3. PICK order \in SetToSeqs(batch) :
          ready' = ready \o order /\ delayed' = delayed \ batch /\ due' = due \ batch
  BY <1>2
<1>4. batch \subseteq delayed /\ batch \subseteq Jobs /\ IsFiniteSet(batch)
  BY <1>1, FS_Subset, JobsAssumption DEF TypeOK
<1>5. order \in Seq(batch) /\ IsInjective(order) /\ ToSet(order) \subseteq batch
  BY <1>4, OrderingType
<1>6. order \in Seq(Jobs) /\ ready \in Seq(Jobs)
  BY <1>1, <1>4, <1>5, SeqMonotonic DEF TypeOK
<1>7. ToSet(ready) \cap ToSet(order) = {}
  BY <1>1, <1>4, <1>5 DEF RedisInv, InReady
<1>8. /\ ready' \in Seq(Jobs) /\ IsInjective(ready)'
      /\ ToSet(ready') = ToSet(ready) \cup ToSet(order)
  BY <1>1, <1>3, <1>5, <1>6, <1>7, ConcatDisjoint
<1>9. RedisTypes' /\ UNCHANGED <<saved, db>>
  BY <1>1, <1>3, <1>8 DEF TypeOK, RedisTypes, ReleaseDue
<1>10. \A j \in Jobs : (Waiting(j)' => Waiting(j)) /\ (InReady(j) => j \notin delayed)'
  BY <1>1, <1>3, <1>4, <1>5, <1>8 DEF Waiting, InReady, RedisInv
<1> QED BY <1>8, <1>9, <1>10

(* The release of a batch, by a loop that goes on or whose command raised. *)
LEMMA ReleaseInv ==
    ASSUME IInv, ReleaseDue, held' = NoJob, todo' = {}, loop' \in {"top", "pop"},
           LoopTypes', RestTypes', UNCHANGED <<enq, workerVars, aged>>
    PROVE  IInv'
<1>1. /\ RedisTypes' /\ IsInjective(ready)'
      /\ UNCHANGED <<saved, db>>
      /\ \A j \in Jobs : (Waiting(j)' => Waiting(j)) /\ (InReady(j) => j \notin delayed)'
  BY ReleaseEffect
<1>2. LoopInv'
  BY DEF LoopInv
<1>3. Grow
  BY NoGrowth
<1>4. ASSUME NEW j \in Jobs PROVE JobInv(j)'
  <2>1. JobInv(j) /\ ~InHand(j)'
    BY Unheld DEF IInv, JobsInv
  <2> QED BY <1>1, <1>3, <2>1, Frame
<1> QED BY <1>1, <1>2, <1>4 DEF IInv, JobsInv, TypeOK, RedisTypes, LoopTypes, RestTypes

LEMMA PopEffect ==
    ASSUME IInv, PopReady
    PROVE  \E k \in Jobs :
             /\ k = Head(ready) /\ InReady(k)
             /\ RedisTypes' /\ IsInjective(ready)'
             /\ UNCHANGED <<saved, delayed, db>>
             /\ \A j \in Jobs : InReady(j)' <=> InReady(j) /\ j # k
<1>1. TypeOK /\ IsInjective(ready) /\ ready \in Seq(Jobs) /\ ready # <<>>
  BY DEF IInv, TypeOK, PopReady
<1>2. PICK k \in Jobs :
        /\ k = Head(ready) /\ k \in ToSet(ready)
        /\ Tail(ready) \in Seq(Jobs) /\ IsInjective(Tail(ready))
        /\ ToSet(Tail(ready)) = ToSet(ready) \ {k}
  BY <1>1, TailRest
<1>3. ready' = Tail(ready) /\ UNCHANGED <<saved, delayed, due, active, jobIds, db>>
  BY DEF PopReady
<1> QED BY <1>1, <1>2, <1>3 DEF TypeOK, RedisTypes, InReady

(* RPOP, by a loop that gets the job or that loses it. *)
LEMMA PopInv ==
    ASSUME IInv, PopReady, loop = "pop",
           \/ held' = Head(ready) /\ mem' = saved[held'] /\ loop' = "select"
           \/ held' = NoJob /\ loop' = "top",
           todo' = {}, LoopTypes', RestTypes', UNCHANGED <<enq, workerVars, aged>>
    PROVE  IInv'
<1>1. PICK k \in Jobs :
        /\ k = Head(ready) /\ InReady(k)
        /\ RedisTypes' /\ IsInjective(ready)'
        /\ UNCHANGED <<saved, delayed, db>>
        /\ \A j \in Jobs : InReady(j)' <=> InReady(j) /\ j # k
  BY PopEffect
<1>2. \/ held' = k /\ mem' = saved[k] /\ loop' = "select"
      \/ held' = NoJob /\ loop' = "top"
  BY <1>1
<1>3. LoopInv' /\ Grow
  BY <1>2, JobsAssumption, NoGrowth DEF LoopInv
<1>4. ASSUME NEW j \in Jobs
      PROVE  JobInv(j) /\ (Waiting(j)' => Waiting(j)) /\ (InReady(j) => j \notin delayed)'
  BY <1>1 DEF Waiting, IInv, JobsInv, JobInv, RedisInv
<1>5. ASSUME NEW j \in Jobs \ {k} PROVE JobInv(j)'
  <2>1. ~InHand(j)'
    BY <1>2, JobsAssumption DEF InHand
  <2> QED BY <1>1, <1>3, <1>4, <2>1, Frame
<1>6. JobInv(k)'
  <2>1. JobInv(k) /\ Waiting(k) /\ ~Waiting(k)'
    BY <1>1, <1>4 DEF Waiting, JobInv, RedisInv
  <2>2. RedisInv(k)'
    BY <1>1, <1>3, <1>4, <2>1, RedisFrame DEF JobInv
  <2>3. EnqInv(k)' /\ TodoInv(k)'
    BY <2>1 DEF JobInv, EnqInv, TodoInv
  <2>4. HandInv(k)'
    <3>1. CASE held' = NoJob
      BY <3>1, Unheld
    <3>2. CASE held' = k /\ mem' = saved[k] /\ loop' = "select"
      <4>1. Truthful(saved[k], k)'
        BY <2>2 DEF RedisInv
      <4>2. Truthful(mem, k)'
        BY <1>1, <3>2, <4>1
      <4>3. saved[k].state \in {"QUEUED", "RETRYING"} /\ saved[k].retries <= MaxRetries
        BY <2>1 DEF JobInv, RedisInv
      <4>4. HeldInv(k)'
        BY <1>1, <2>1, <3>2, <4>2, <4>3 DEF HeldInv, Written
      <4> QED BY <4>4 DEF HandInv
    <3> QED BY <1>2, <3>1, <3>2
  <2> QED BY <2>2, <2>3, <2>4 DEF JobInv
<1> QED BY <1>1, <1>3, <1>5, <1>6 DEF IInv, JobsInv, TypeOK, RedisTypes, LoopTypes, RestTypes

LEMMA LoopTakesInv ==
    ASSUME IInv, LoopRelease \/ LoopPop
    PROVE  IInv'
<1>1. TypeOK /\ LoopInv /\ LoopTypes /\ RestTypes
  BY TypeParts DEF IInv
<1>2. CASE LoopRelease /\ ReleaseDue
  <2>1. held' = NoJob /\ todo' = {} /\ loop' = "pop" /\ UNCHANGED <<enq, workerVars, aged>>
    BY <1>1, <1>2 DEF LoopRelease, LoopInv, loopVars, otherVars
  <2>2. LoopTypes' /\ RestTypes'
    BY <1>1, <1>2, <2>1
       DEF LoopRelease, LoopTypes, RestTypes, LoopPoints, loopVars, workerVars, otherVars
  <2> QED BY <1>2, <2>1, <2>2, ReleaseInv
<1>3. CASE LoopRelease /\ UNCHANGED <<queueVars, db>>
  <2>1. /\ held' = NoJob /\ todo' = {} /\ loop' = "pop"
        /\ UNCHANGED <<queueVars, db, enq, workerVars, aged>>
    BY <1>1, <1>3 DEF LoopRelease, LoopInv, loopVars, otherVars
  <2>2. LoopTypes' /\ RestTypes' /\ LoopInv'
    BY <1>1, <1>3, <2>1
       DEF LoopRelease, LoopTypes, RestTypes, LoopInv, LoopPoints, loopVars, workerVars, otherVars
  <2>3. \A j \in Jobs : HandInv(j)' /\ TodoInv(j)' /\ ~InHand(j)'
    BY <2>1, Unheld DEF TodoInv
  <2> QED BY <2>1, <2>2, <2>3, LoopMoves, NoGrowth
<1>4. CASE LoopPop
  <2>1. /\ PopReady /\ loop = "pop" /\ held' = Head(ready) /\ mem' = saved[held']
        /\ loop' = "select" /\ todo' = {}
        /\ UNCHANGED <<registered, enq, post, tries, stale, workerVars, born, aged, faults>>
    BY <1>1, <1>4 DEF LoopPop, LoopInv, otherVars
  <2>2. Head(ready) \in Jobs
    BY <1>1, <2>1, EmptySeq DEF PopReady, TypeOK
  <2>3. LoopTypes' /\ RestTypes'
    BY <1>1, <2>1, <2>2 DEF LoopTypes, RestTypes, LoopPoints, workerVars, TypeOK
  <2> QED BY <2>1, <2>3, PopInv
<1> QED BY <1>2, <1>3, <1>4 DEF LoopRelease

-----------------------------------------------------------------------------
(* The steps at which the loop only changes the object in its hand. *)

LEMMA HandMoves ==
    ASSUME IInv, Grow, NEW k \in Jobs, k = held, held' = held, todo' = {}, HeldInv(k)',
           loop' \notin {"top", "sync", "release", "pop"}, LoopTypes', RestTypes',
           UNCHANGED <<queueVars, db, enq>>
    PROVE  IInv'
<1>1. LoopInv'
  BY JobsAssumption DEF LoopInv
<1>2. \A j \in Jobs : HandInv(j)' /\ TodoInv(j)'
  BY DEF HandInv, InHand, TodoInv
<1>3. \A j \in Jobs : InHand(j)' => InHand(j)
  BY DEF InHand
<1> QED BY <1>1, <1>2, <1>3, LoopMoves

LEMMA InTheHand ==
    ASSUME IInv, loop \notin {"top", "sync", "release", "pop"}
    PROVE  \E k \in Jobs : k = held /\ JobInv(k) /\ HeldInv(k)
BY DEF IInv, LoopInv, TypeOK, JobsInv, JobInv, HandInv, InHand

LEMMA LoopSelectInv ==
    ASSUME IInv, LoopSelect
    PROVE  IInv'
<1>1. TypeOK /\ LoopInv /\ LoopTypes /\ RestTypes /\ loop = "select"
  BY TypeParts DEF IInv, LoopSelect
<1>2. PICK k \in Jobs : k = held /\ JobInv(k) /\ HeldInv(k)
  BY <1>1, InTheHand
<1>3. /\ \/ \E w \in Workers : loop' = "assign" /\ mem' = [mem EXCEPT !.state = "ASSIGNED", !.worker = w]
         \/ loop' = "wait" /\ mem' = [mem EXCEPT !.state = "RETRYING"]
      /\ faults' \in Disturbances /\ todo' = {}
      /\ UNCHANGED <<queueVars, db, registered, enq, held, post, tries, stale, workerVars,
                     otherVars>>
  BY <1>1, FaultTyped DEF LoopSelect, LoopInv, RestTypes
<1>4. /\ mem \in Records /\ mem' \in Records
      /\ mem'.retries = mem.retries
      /\ \/ mem'.state = "ASSIGNED" /\ loop' = "assign"
         \/ mem'.state = "RETRYING" /\ loop' = "wait"
  BY <1>1, <1>3 DEF LoopTypes, Records, States, Open
<1>5. LoopTypes' /\ RestTypes'
  BY <1>1, <1>3, <1>4
     DEF LoopTypes, RestTypes, LoopPoints, Writes, SavePoints, workerVars, otherVars
<1>6. ~Waiting(k)' /\ saved' = saved
  BY <1>1, <1>2, <1>3 DEF HeldInv, Waiting, InReady, queueVars
<1>7. HeldInv(k)'
  BY <1>1, <1>2, <1>4, <1>6 DEF HeldInv, Truthful, Written
<1> QED BY <1>2, <1>3, <1>5, <1>7, HandMoves, NoGrowth DEF otherVars

LEMMA PostInv ==
    ASSUME IInv, Post \/ PostAccepted \/ PostAgain \/ PostFails
    PROVE  IInv'
<1>1. TypeOK /\ LoopInv /\ LoopTypes /\ RestTypes /\ loop \in {"post", "posted"}
  BY TypeParts DEF IInv, Post, PostAccepted, PostAgain, PostFails
<1>2. PICK k \in Jobs : k = held /\ JobInv(k) /\ HeldInv(k)
  BY <1>1, InTheHand
<1>3. /\ todo' = {} /\ held' = held
      /\ UNCHANGED <<queueVars, db, registered, enq, stale, local, otherVars>>
  BY <1>1 DEF Post, PostAccepted, PostAgain, PostFails, DispatchFails, LoopInv, workerVars
<1>4. ~Waiting(k)' /\ saved' = saved /\ saved[k] = mem
  BY <1>1, <1>2, <1>3 DEF HeldInv, Waiting, InReady, queueVars, Written
<1>5. mem.state = "ASSIGNED" /\ mem.retries <= MaxRetries /\ mem \in Records
  BY <1>1, <1>2 DEF HeldInv, LoopTypes
<1>6. CASE Post
  <2>1. PICK l \in LocalIds :
          /\ owner[l] = NoJob
          /\ owner' = [owner EXCEPT ![l] = k]
          /\ host' = [host EXCEPT ![l] = mem.worker]
          /\ post' = l
    BY <1>2, <1>6 DEF Post
  <2>2. mem' = mem /\ loop' = "posted" /\ tries' = tries + 1 /\ UNCHANGED faults
    BY <1>6 DEF Post
  <2>3. LoopTypes' /\ RestTypes'
    BY <1>1, <1>3, <1>5, <2>1, <2>2 DEF LoopTypes, RestTypes, LoopPoints, otherVars, Records
  <2>4. Grow
    BY <1>1, <1>3, <2>1 DEF Grow, otherVars, RestTypes
  <2>5. HeldInv(k)'
    BY <1>1, <1>4, <1>5, <2>1, <2>2 DEF HeldInv, Truthful, Written, RestTypes
  <2> QED BY <1>2, <1>3, <2>2, <2>3, <2>4, <2>5, HandMoves
<1>7. CASE PostAccepted
  <2>1. /\ local[post] # "NONE" /\ loop = "posted"
        /\ mem' = [mem EXCEPT !.state = "PROCESSING", !.local = post]
        /\ post' = NoLocal /\ tries' = 0 /\ loop' = "clear"
        /\ UNCHANGED <<workerVars, faults>>
    BY <1>7 DEF PostAccepted
  <2>2. post \in LocalIds /\ owner[post] = k /\ host[post] = mem.worker
    BY <1>2, <2>1 DEF HeldInv
  <2>3. /\ mem' \in Records /\ mem'.state = "PROCESSING" /\ mem'.local = post
        /\ mem'.retries = mem.retries /\ mem'.worker = mem.worker
    BY <1>5, <2>1, <2>2 DEF Records, States, Open
  <2>4. LoopTypes' /\ RestTypes'
    BY <1>1, <1>3, <2>1, <2>3 DEF LoopTypes, RestTypes, LoopPoints, Writes, workerVars, otherVars
  <2>5. HeldInv(k)'
    BY <1>4, <1>5, <2>1, <2>2, <2>3 DEF HeldInv, Truthful, Linked, Written, workerVars, Final
  <2> QED BY <1>2, <1>3, <2>1, <2>4, <2>5, HandMoves, NoGrowth DEF otherVars
<1>8. CASE PostAgain
  <2>1. /\ mem' = mem /\ loop = "posted" /\ loop' = "post" /\ post' = NoLocal /\ tries' = tries
        /\ UNCHANGED workerVars /\ faults' \in Disturbances
    BY <1>1, <1>8, FaultTyped DEF PostAgain
  <2>2. LoopTypes' /\ RestTypes'
    BY <1>1, <1>3, <1>5, <2>1 DEF LoopTypes, RestTypes, LoopPoints, workerVars, otherVars
  <2>3. HeldInv(k)'
    BY <1>4, <1>5, <2>1 DEF HeldInv, Truthful, Written
  <2> QED BY <1>2, <1>3, <2>1, <2>2, <2>3, HandMoves, NoGrowth DEF otherVars
<1>9. CASE PostFails
  <2>1. /\ mem' = [mem EXCEPT !.retries = @ + 1] /\ loop' = "drop" /\ post' = NoLocal /\ tries' = 0
        /\ UNCHANGED workerVars /\ faults' \in Disturbances
    BY <1>1, <1>9, FaultTyped DEF PostFails, DispatchFails
  <2>2. mem' \in Records /\ mem'.state = "ASSIGNED"
    BY <1>5, <2>1 DEF Records
  <2>3. LoopTypes' /\ RestTypes'
    BY <1>1, <1>3, <2>1, <2>2 DEF LoopTypes, RestTypes, LoopPoints, Writes, workerVars, otherVars
  <2>4. HeldInv(k)'
    BY <1>4, <1>5, <2>1, <2>2 DEF HeldInv, Truthful, Written
  <2> QED BY <1>2, <1>3, <2>1, <2>3, <2>4, HandMoves, NoGrowth DEF otherVars
<1> QED BY <1>6, <1>7, <1>8, <1>9

(* A sync takes a job in its hand, or leaves it as it is. *)
LEMMA SyncInv ==
    ASSUME IInv, NEW k \in Jobs, SyncJob(k) \/ SyncMisses(k)
    PROVE  IInv'
<1>1. /\ TypeOK /\ LoopInv /\ LoopTypes /\ RestTypes
      /\ loop = "sync" /\ k \in todo /\ held = NoJob
  BY TypeParts DEF IInv, SyncJob, SyncMisses, LoopInv
<1>2. \A j \in Jobs : JobInv(j)
  BY DEF IInv, JobsInv
<1>3. /\ UNCHANGED <<queueVars, db, registered, enq, post, tries, stale, workerVars, otherVars>>
      /\ todo' = todo \ {k} /\ faults' \in Disturbances
  BY <1>1, FaultTyped DEF SyncJob, SyncMisses, SyncUnchanged, Forget, RestTypes
<1>4. /\ saved[k] \in Records /\ saved[k].state = "PROCESSING"
      /\ Linked(saved[k], k) /\ local[saved[k].local] # "NONE" /\ ~Waiting(k)
  BY <1>1, <1>2 DEF TypeOK, JobInv, TodoInv, RedisInv, Truthful
<1>5. \/ UNCHANGED <<held, mem, loop>>
      \/ \E s \in Final : /\ SyncTo(k, s)
                          /\ s = "TIMEOUT" => k \in aged
                          /\ s # "TIMEOUT" => local[saved[k].local] = s
  BY DEF SyncJob, SyncMisses, TimeoutStale, Final
<1>6. CASE UNCHANGED <<held, mem, loop>>
  <2>1. LoopTypes' /\ RestTypes' /\ LoopInv'
    BY <1>1, <1>3, <1>6 DEF LoopTypes, RestTypes, LoopInv, workerVars, otherVars
  <2>2. \A j \in Jobs : HandInv(j)' /\ ~InHand(j)'
    BY <1>1, <1>6, Unheld
  <2>3. \A j \in Jobs : TodoInv(j)'
    BY <1>2, <1>3, <2>2 DEF JobInv, TodoInv, queueVars
  <2> QED BY <1>3, <2>1, <2>2, <2>3, LoopMoves, NoGrowth DEF otherVars
<1>7. ASSUME NEW s \in Final, SyncTo(k, s), s = "TIMEOUT" => k \in aged,
             s # "TIMEOUT" => local[saved[k].local] = s
      PROVE  IInv'
  <2>1. /\ held' = k /\ loop' = "syncSave"
        /\ mem' = [saved[k] EXCEPT !.state = s]
    BY <1>7 DEF SyncTo
  <2>2. /\ mem' \in Records /\ mem'.state = s
        /\ mem'.local = saved[k].local /\ mem'.worker = saved[k].worker
    BY <1>4, <2>1 DEF Records, States
  <2>3. LoopTypes' /\ RestTypes' /\ LoopInv'
    BY <1>1, <1>3, <2>1, <2>2, JobsAssumption
       DEF LoopTypes, RestTypes, LoopInv, LoopPoints, Writes, SavePoints, workerVars, otherVars
  <2>4. ~Waiting(k)' /\ saved'[k] = saved[k]
    BY <1>3, <1>4 DEF Waiting, InReady, queueVars
  <2>5. Truthful(mem, k)'
    BY <1>3, <1>4, <1>7, <2>2 DEF Truthful, Linked, Final, workerVars, otherVars
  <2>6. HeldInv(k)'
    BY <1>4, <2>1, <2>2, <2>4, <2>5 DEF HeldInv, Written
  <2>7. \A j \in Jobs : HandInv(j)'
    BY <2>1, <2>6 DEF HandInv, InHand
  <2>8. \A j \in Jobs : TodoInv(j)'
    BY <1>2, <1>3, <2>1 DEF JobInv, TodoInv, queueVars, InHand
  <2>9. \A j \in Jobs : InHand(j)' => InHand(j) \/ j \in todo
    BY <1>1, <2>1 DEF InHand
  <2> QED BY <1>3, <2>3, <2>7, <2>8, <2>9, LoopMoves, NoGrowth DEF otherVars
<1> QED BY <1>5, <1>6, <1>7

-----------------------------------------------------------------------------
(* The steps at which the loop awaits a command. *)

LEMMA CommandDone ==
    ASSUME IInv, Grow, NEW k \in Jobs, k = held, loop \in Writes,
           Command(loop, k) \/ UNCHANGED <<queueVars, db>>,
           UNCHANGED enq, todo' \in {todo, {}}, held' \in {k, NoJob},
           held' = k => HeldInv(k)', LoopTypes', RestTypes', LoopInv'
    PROVE  IInv'
<1>1. /\ RedisTypes' /\ IsInjective(ready)'
      /\ \A j \in Jobs : RedisInv(j)'
      /\ \A j \in Jobs \ {k} : saved'[j] = saved[j] /\ (Waiting(j)' <=> Waiting(j))
  BY CommandInv
<1>2. \A j \in Jobs : EnqInv(j) /\ TodoInv(j)
  BY DEF IInv, JobsInv, JobInv
<1>3. \A j \in Jobs : InHand(j)' => j = k /\ held' = k
  BY JobsAssumption DEF InHand
<1>4. \A j \in Jobs : HandInv(j)'
  BY <1>3 DEF HandInv
<1>5. ASSUME NEW j \in Jobs PROVE TodoInv(j)'
  <2>1. j \in todo' => j \in todo
    OBVIOUS
  <2> QED BY <1>1, <1>2, <1>3, <2>1 DEF TodoInv, InHand
<1>6. ASSUME NEW j \in Jobs, enq[j] \in {"new", "saved"}
      PROVE  saved'[j] = saved[j] /\ ~Waiting(j)' /\ ~InHand(j)'
  BY <1>1, <1>2, <1>3, <1>6 DEF EnqInv, InHand
<1> QED BY <1>1, <1>4, <1>5, <1>6, Assemble

(* What the object in the hand of the loop is after its command. *)
LEMMA CommandHeld ==
    ASSUME IInv, Grow, NEW k \in Jobs, k = held, loop \in Writes, LoopCommand, held' = k
    PROVE  HeldInv(k)'
<1>1. TypeOK /\ HeldInv(k) /\ RedisInv(k)
  BY DEF IInv, JobsInv, JobInv, HandInv, InHand
<1>2. /\ Command(loop, k) /\ loop' = NextPoint /\ mem' = NextRecord /\ post' = post
      /\ NextPoint \notin {"top", "sync"}
  BY JobsAssumption DEF LoopCommand
<1>3. PICK p, m : p = loop /\ m = mem
  OBVIOUS
<1>4. Truthful(m, k)'
  BY <1>1, <1>3, TruthKept DEF HeldInv
<1>5. CASE p \in SavePoints \ {"dropSave"}
  <2>1. saved'[k] = mem /\ (Waiting(k)' <=> Waiting(k))
    BY <1>1, <1>2, <1>3, <1>5
       DEF Command, Save, SavePoints, StorePoints, Waiting, InReady, TypeOK
  <2>2. /\ mem' = mem
        /\ loop' = CASE p = "syncSave" -> "syncStore"
                     [] p = "wait" -> "delay"
                     [] p = "assignSave" -> "assignStore"
                     [] p = "clearSave" -> "clearStore"
                     [] p = "retrying" -> "requeue"
                     [] p = "final" -> "dropStore"
    BY <1>2, <1>3, <1>5 DEF NextPoint, NextRecord, FailurePoint, SavePoints
  <2>3. Truthful(mem, k)'
    BY <1>3, <1>4, <2>2
  <2> QED BY <1>1, <1>3, <1>5, <2>1, <2>2, <2>3 DEF HeldInv, SavePoints, Written
<1>6. CASE p = "dropSave"
  <2>1. saved'[k] = mem /\ (Waiting(k)' <=> Waiting(k))
    BY <1>1, <1>2, <1>3, <1>6
       DEF Command, Save, SavePoints, StorePoints, Waiting, InReady, TypeOK
  <2>2. /\ mem \in Records /\ mem.state \in {"ASSIGNED", "PROCESSING"} /\ mem.retries \in Nat
        /\ ~Waiting(k)
    BY <1>1, <1>3, <1>6 DEF HeldInv, TypeOK, Records
  <2>3. \/ /\ mem.retries <= MaxRetries
           /\ loop' = "retrying" /\ mem'.state = "RETRYING" /\ mem'.retries = mem.retries
        \/ /\ mem.retries > MaxRetries
           /\ loop' = "final" /\ mem'.state = "FAILED" /\ mem'.retries = mem.retries
    BY <1>2, <1>3, <1>6, <2>2, LimitsAssumption
       DEF NextPoint, NextRecord, FailurePoint, MayRetry, Records
  <2>4. Truthful(mem, k)'
    BY <2>3 DEF Truthful
  <2> QED BY <2>1, <2>2, <2>3, <2>4 DEF HeldInv, Written
<1>7. CASE p \in {"assign", "clear", "drop", "assignStore"}
  <2>1. saved'[k] = saved[k] /\ (Waiting(k)' <=> Waiting(k))
    BY <1>2, <1>3, <1>7
       DEF Command, HSetActive, HDelActive, StoreJob, queueVars, SavePoints, StorePoints, Waiting,
           InReady
  <2>2. /\ mem' = mem
        /\ loop' = CASE p = "assign" -> "assignSave"
                     [] p = "clear" -> "clearSave"
                     [] p = "drop" -> "dropSave"
                     [] p = "assignStore" -> "post"
    BY <1>2, <1>3, <1>7 DEF NextPoint, NextRecord, FailurePoint
  <2>3. Truthful(mem, k)'
    BY <1>3, <1>4, <2>2
  <2> QED BY <1>1, <1>3, <1>7, <2>1, <2>2, <2>3 DEF HeldInv, Written
<1>8. CASE p = "requeue"
  <2>1. saved'[k] = saved[k]
    BY <1>2, <1>3, <1>8
       DEF Command, PushReady, AddDelayed, SavePoints, StorePoints
  <2>2. mem' = mem /\ loop' = "dropStore"
    BY <1>2, <1>3, <1>8 DEF NextPoint, NextRecord, FailurePoint
  <2>3. Truthful(mem, k)'
    BY <1>3, <1>4, <2>2
  <2> QED BY <1>1, <1>3, <1>8, <2>1, <2>2, <2>3 DEF HeldInv, Written
<1>9. p \notin {"syncStore", "clearStore", "dropStore", "delay"}
  BY <1>2, <1>3 DEF NextPoint, FailurePoint
<1> QED BY <1>3, <1>5, <1>6, <1>7, <1>8, <1>9 DEF Writes, StorePoints, SavePoints, QueuePoints

LEMMA LoopCommandInv ==
    ASSUME IInv, LoopCommand
    PROVE  IInv'
<1>1. TypeOK /\ LoopInv /\ LoopTypes /\ RestTypes /\ loop \in Writes
  BY TypeParts DEF IInv, LoopCommand
<1>2. PICK k \in Jobs : k = held /\ JobInv(k) /\ HeldInv(k)
  BY <1>1, InTheHand DEF Writes, StorePoints, SavePoints, QueuePoints
<1>3. /\ Command(loop, k) /\ loop' = NextPoint /\ mem' = NextRecord
      /\ held' = IF NextPoint \in {"top", "sync"} THEN NoJob ELSE k
      /\ UNCHANGED <<registered, enq, todo, post, tries, stale, workerVars, otherVars, faults>>
  BY <1>2 DEF LoopCommand
<1>4. /\ NextPoint \in LoopPoints \ {"release", "pop"}
      /\ NextPoint = "sync" <=> loop = "syncStore"
      /\ NextPoint \in {"syncSave", "syncStore"} <=> loop = "syncSave"
  BY <1>1 DEF NextPoint, FailurePoint, LoopPoints, Writes, StorePoints, SavePoints, QueuePoints
<1>5. LoopInv'
  <2>1. loop # "sync"
    BY <1>1 DEF Writes, StorePoints, SavePoints, QueuePoints
  <2> QED BY <1>1, <1>3, <1>4, <2>1, JobsAssumption DEF LoopInv
<1>6. LoopTypes' /\ RestTypes'
  <2>1. NextRecord \in Records
    BY <1>1, EmptyRecords DEF NextRecord, LoopTypes, Records, States, Open, Final
  <2> QED BY <1>1, <1>3, <1>4, <2>1 DEF LoopTypes, RestTypes, workerVars, otherVars
<1>7. held' = k => HeldInv(k)'
  BY <1>1, <1>2, <1>3, CommandHeld, NoGrowth DEF otherVars
<1> QED BY <1>1, <1>2, <1>3, <1>5, <1>6, <1>7, CommandDone, NoGrowth DEF otherVars

-----------------------------------------------------------------------------
(* Failures. *)

LEMMA LoopRaisesInv ==
    ASSUME IInv, LoopRaises
    PROVE  IInv'
<1>1. TypeOK /\ LoopInv /\ LoopTypes /\ RestTypes
  BY TypeParts DEF IInv
<1>2. /\ faults' \in Disturbances
      /\ loop \in Writes \cup {"top", "release", "pop", "select"}
      /\ UNCHANGED <<registered, enq, stale, workerVars, otherVars>>
      /\ IF loop \in {"clear", "clearSave", "clearStore"} THEN DispatchFails ELSE Abandon
  BY <1>1, FaultTyped DEF LoopRaises, LoopsJobs
<1>3. RestTypes' /\ Grow
  BY <1>1, <1>2, NoGrowth DEF RestTypes, workerVars, otherVars
<1>4. CASE Abandon
  <2>1. /\ loop' = "top" /\ held' = NoJob /\ mem' = NoRecord /\ todo' = {}
        /\ LoopTypes' /\ LoopInv'
    BY <1>4, EmptyRecords DEF Abandon, LoopTypes, LoopInv, LoopPoints
  <2>2. CASE loop = "release" /\ ReleaseDue
    BY <1>2, <1>3, <2>1, <2>2, ReleaseInv DEF otherVars
  <2>3. CASE loop = "pop" /\ PopReady
    BY <1>2, <1>3, <2>1, <2>3, PopInv DEF otherVars
  <2>4. CASE UNCHANGED <<queueVars, db>>
    <3>1. \A j \in Jobs : HandInv(j)' /\ ~InHand(j)' /\ TodoInv(j)'
      BY <2>1, Unheld DEF TodoInv
    <3> QED BY <1>2, <1>3, <2>1, <2>4, <3>1, LoopMoves
  <2>5. CASE Command(loop, held)
    <3>1. loop \in Writes
      BY <2>5 DEF Command, Writes, QueuePoints
    <3>2. PICK k \in Jobs : k = held
      BY <3>1, InTheHand DEF Writes, StorePoints, SavePoints, QueuePoints
    <3>3. held' # k
      BY <2>1, JobsAssumption
    <3> QED BY <1>2, <1>3, <2>1, <2>5, <3>1, <3>2, <3>3, CommandDone
  <2> QED BY <2>2, <2>3, <2>4, <2>5 DEF LoopRaises
<1>5. CASE loop \in {"clear", "clearSave", "clearStore"} /\ DispatchFails
  <2>1. /\ loop \in Writes /\ loop \notin {"release", "pop", "delay", "requeue"}
        /\ mem' = [mem EXCEPT !.retries = @ + 1]
        /\ post' = NoLocal /\ tries' = 0 /\ loop' = "drop" /\ held' = held /\ todo' = todo
    BY <1>5 DEF DispatchFails, Writes, SavePoints, StorePoints
  <2>2. PICK k \in Jobs : k = held /\ JobInv(k) /\ HeldInv(k)
    BY <2>1, InTheHand DEF Writes, StorePoints, SavePoints, QueuePoints
  <2>3. Command(loop, k) \/ UNCHANGED <<queueVars, db>>
    BY <2>1, <2>2 DEF LoopRaises
  <2>4. /\ mem \in Records /\ mem' \in Records
        /\ mem'.state = "PROCESSING" /\ mem.state = "PROCESSING"
        /\ mem'.local = mem.local /\ mem'.worker = mem.worker
    BY <1>1, <1>5, <2>1, <2>2 DEF LoopTypes, Records, HeldInv
  <2>5. LoopTypes' /\ LoopInv'
    BY <1>1, <1>5, <2>1, <2>2, <2>4, JobsAssumption
       DEF LoopTypes, LoopInv, LoopPoints, Writes
  <2>6. saved'[k].state \in {"ASSIGNED", "PROCESSING"} /\ ~Waiting(k)'
    <3>1. saved[k].state \in {"ASSIGNED", "PROCESSING"} /\ ~Waiting(k)
      BY <1>5, <2>2, <2>4 DEF HeldInv, Written
    <3>2. (saved'[k] = saved[k] \/ saved'[k] = mem) /\ UNCHANGED <<ready, delayed>>
      <4>1. CASE UNCHANGED <<queueVars, db>>
        BY <4>1 DEF queueVars
      <4>2. CASE Command(loop, k)
        BY <1>1, <1>5, <4>2
           DEF Command, HDelActive, Save, StoreJob, queueVars, TypeOK
      <4> QED BY <2>3, <4>1, <4>2
    <3> QED BY <2>4, <3>1, <3>2 DEF Waiting, InReady
  <2>7. Truthful(mem, k)'
    BY <1>2, <2>2, <2>4 DEF HeldInv, Truthful, Linked, workerVars
  <2>8. HeldInv(k)'
    BY <2>1, <2>4, <2>6, <2>7 DEF HeldInv, Written
  <2> QED BY <1>2, <1>3, <2>1, <2>2, <2>3, <2>5, <2>8, CommandDone
<1> QED BY <1>2, <1>4, <1>5

LEMMA CrashInv ==
    ASSUME IInv, Crash
    PROVE  IInv'
<1>1. TypeOK /\ LoopTypes /\ RestTypes /\ IsInjective(ready) /\ JobsInv
  BY TypeParts DEF IInv
<1>2. /\ faults' \in Disturbances
      /\ Abandon /\ stale' = {}
      /\ enq' = [j \in Jobs |-> IF enq[j] \in {"saved", "pushed", "indexed"} THEN "failed" ELSE enq[j]]
      /\ UNCHANGED <<queueVars, db, registered, workerVars, otherVars>>
  BY <1>1, FaultTyped DEF Crash, LoopsJobs
<1>3. held' = NoJob /\ todo' = {} /\ LoopInv' /\ LoopTypes'
  BY <1>2, EmptyRecords DEF Abandon, LoopInv, LoopTypes, LoopPoints
<1>4. RestTypes' /\ Grow
  BY <1>1, <1>2, NoGrowth DEF RestTypes, workerVars, otherVars
<1>5. TypeOK' /\ IsInjective(ready)'
  BY <1>1, <1>2, <1>3, <1>4 DEF TypeOK, LoopTypes, RestTypes, queueVars
<1>6. ASSUME NEW j \in Jobs PROVE JobInv(j)'
  <2>1. RedisInv(j) /\ EnqInv(j)
    BY <1>1 DEF JobsInv, JobInv
  <2>2. /\ saved'[j] = saved[j] /\ db'[j] = db[j] /\ (Waiting(j)' <=> Waiting(j))
        /\ (InReady(j) => j \notin delayed)'
    BY <1>2, <2>1 DEF queueVars, Waiting, InReady, RedisInv
  <2>3. RedisInv(j)'
    BY <1>4, <2>1, <2>2, RedisFrame
  <2>4. HandInv(j)' /\ ~InHand(j)' /\ TodoInv(j)'
    BY <1>3, Unheld DEF TodoInv
  <2>5. EnqInv(j)'
    BY <1>2, <2>1, <2>2, <2>4 DEF EnqInv
  <2> QED BY <2>3, <2>4, <2>5 DEF JobInv
<1> QED BY <1>3, <1>5, <1>6 DEF IInv, JobsInv

-----------------------------------------------------------------------------
(* The invariant holds, and what follows from it. *)

LEMMA InitHolds == Init => IInv
<1> SUFFICES ASSUME Init PROVE IInv
  OBVIOUS
<1>1. TypeOK
  BY EmptyRecords DEF Init, TypeOK, LoopPoints, Disturbances, States
<1>2. IsInjective(ready) /\ ToSet(ready) = {}
  BY DEF Init, IsInjective, ToSet
<1>3. LoopInv
  BY DEF Init, LoopInv
<1>4. ASSUME NEW j \in Jobs PROVE JobInv(j)
  <2>1. ~Waiting(j) /\ ~InHand(j) /\ ~InReady(j)
    BY <1>2, JobsAssumption DEF Init, Waiting, InReady, InHand
  <2>2. saved[j] = NoRecord /\ db[j] = "NONE" /\ enq[j] = "new" /\ todo = {}
    BY DEF Init
  <2> QED
    BY <2>1, <2>2, EmptyRecords
       DEF JobInv, RedisInv, EnqInv, HandInv, TodoInv, Truthful, Final
<1> QED BY <1>1, <1>2, <1>3, <1>4 DEF IInv, JobsInv

LEMMA StutterInv ==
    ASSUME IInv, UNCHANGED vars
    PROVE  IInv'
<1>1. /\ UNCHANGED <<queueVars, db, registered, enq, loop, loopVars, stale, workerVars, otherVars, faults>>
      /\ UNCHANGED <<saved, ready, delayed, db, enq, loop, held, mem, todo, post>>
  BY DEF vars, queueVars, loopVars
<1>2. TypeOK'
  BY <1>1 DEF IInv, TypeOK, queueVars, loopVars, workerVars, otherVars
<1>3. Grow
  BY <1>1, NoGrowth DEF otherVars
<1> QED BY <1>1, <1>2, <1>3, Quiet DEF IInv

(* IInv holds in every reachable state. *)
THEOREM Invariance == Spec => []IInv
<1>1. Init => IInv
  BY InitHolds
<1>2. IInv /\ [Next]_vars => IInv'
  <2> SUFFICES ASSUME IInv, [Next]_vars PROVE IInv'
    OBVIOUS
  <2>1. CASE LoopStep
    BY <2>1, LoopRoundInv, LoopTakesInv, LoopSelectInv, PostInv, LoopCommandInv, SyncInv
       DEF LoopStep
  <2>2. CASE LoopRaises
    BY <2>2, LoopRaisesInv
  <2>3. CASE PostAgain \/ PostFails
    BY <2>3, PostInv
  <2>4. ASSUME NEW j \in Jobs, JobNext(j) PROVE IInv'
    BY <2>4, EnqueueInv, SyncInv, QuietInv DEF JobNext
  <2>5. CASE \/ \E l \in LocalIds : WorkerStep(l)
             \/ \E w \in Workers : Administer(w)
             \/ CleanupRead \/ CleanupDelete
    BY <2>5, QuietInv
  <2>6. CASE Crash
    BY <2>6, CrashInv
  <2>7. CASE UNCHANGED vars
    BY <2>7, StutterInv
  <2> QED BY <2>1, <2>2, <2>3, <2>4, <2>5, <2>6, <2>7 DEF Next
<1> QED BY <1>1, <1>2, PTL DEF Spec

(* Every variable of the orchestrator keeps its type. *)
THEOREM TypeCorrect == Spec => []TypeOK
<1>1. IInv => TypeOK
  BY DEF IInv
<1> QED BY <1>1, Invariance, PTL

(* A job is queued at most once, and neither queued nor synced while the   *)
(* loop dispatches it, whatever crashes, lost replies and failed commands  *)
(* fall between the steps of pop_ready, requeue and release_due_delayed.   *)
THEOREM OnePlaceHolds == Spec => []OnePlace
<1>1. IInv => OnePlace
  <2> SUFFICES ASSUME IInv, NEW j \in Jobs
               PROVE  /\ InReady(j) => j \notin delayed
                      /\ InHand(j) /\ loop # "dropStore" => ~Waiting(j) /\ j \notin todo
                      /\ j \in todo => ~Waiting(j) /\ saved[j].state = "PROCESSING"
    BY DEF OnePlace, IInv
  <2>1. RedisInv(j) /\ HandInv(j) /\ TodoInv(j)
    BY DEF IInv, JobsInv, JobInv
  <2> QED BY <2>1 DEF RedisInv, HandInv, HeldInv, TodoInv
<1> QED BY <1>1, Invariance, PTL

(* What GET /jobs/{id} shows comes from the local job that was dispatched  *)
(* for this job, however often it was dispatched and whoever answered.     *)
THEOREM OutcomeIsTrueHolds == Spec => []OutcomeIsTrue
<1>1. IInv => OutcomeIsTrue
  BY DEF IInv, JobsInv, JobInv, RedisInv, Truthful, Linked, OutcomeIsTrue
<1> QED BY <1>1, Invariance, PTL

(* The store never announces an outcome that Redis does not have: every    *)
(* write of an outcome to the store follows the one to Redis.              *)
THEOREM StoreNotAheadHolds == Spec => []StoreNotAhead
<1>1. IInv => StoreNotAhead
  BY DEF IInv, JobsInv, JobInv, RedisInv, StoreNotAhead
<1> QED BY <1>1, Invariance, PTL

(* Only a handler that has not saved its job yet and a loop whose job is   *)
(* still open in Redis write a record.                                     *)
LEMMA OnlyOpenOverwritten ==
    ASSUME IInv, [Next]_vars, NEW j \in Jobs, saved[j].state \in Final
    PROVE  saved'[j] = saved[j]
<1>1. TypeOK /\ JobInv(j)
  BY DEF IInv, JobsInv
<1>2. ASSUME NEW k \in Jobs, EnqueueCommand(k) PROVE saved'[j] = saved[j]
  BY <1>1, <1>2, EmptyRecords
     DEF EnqueueCommand, Save, PushReady, IndexJob, StoreJob, queueVars, JobInv, EnqInv, Final, TypeOK
<1>3. ASSUME Command(loop, held) PROVE saved'[j] = saved[j]
  <2>1. CASE loop \in SavePoints /\ Save(held, mem)
    <3>1. held # j
      BY <1>1, <2>1 DEF JobInv, HandInv, InHand, HeldInv, SavePoints, Final
    <3> QED BY <1>1, <2>1, <3>1 DEF Save, TypeOK
  <2> QED
    BY <1>3, <2>1
       DEF Command, HSetActive, HDelActive, StoreJob, AddDelayed, PushReady, queueVars
<1>4. LoopRaises => Command(loop, held) \/ UNCHANGED saved
  BY DEF LoopRaises, ReleaseDue, PopReady, queueVars
<1>5. LoopStep => Command(loop, held) \/ UNCHANGED saved
  BY DEF LoopStep, LoopSync, LoopSkip, LoopSynced, LoopRelease, LoopPop, LoopIdle, LoopSelect,
         Post, PostAccepted, LoopCommand, SyncJob, SyncUnchanged, ReleaseDue, PopReady, queueVars
<1>6. \A k \in Jobs : JobNext(k) => EnqueueCommand(k) \/ UNCHANGED saved
  BY DEF JobNext, Enqueue, EnqueueRaises, SyncMisses, SyncUnchanged, BecomesDue, Ages, queueVars
<1>7. \/ PostAgain \/ PostFails \/ CleanupRead \/ CleanupDelete \/ Crash \/ UNCHANGED vars
      \/ \E l \in LocalIds : WorkerStep(l)
      \/ \E w \in Workers : Administer(w)
      => UNCHANGED saved
  BY DEF PostAgain, PostFails, CleanupRead, CleanupDelete, HDelActive, Crash, WorkerStep,
         Administer, queueVars, vars
<1> QED BY <1>2, <1>3, <1>4, <1>5, <1>6, <1>7 DEF Next

(* An outcome that a client can read stays: no later sync, requeue, crash  *)
(* or restart replaces it.                                                 *)
THEOREM OutcomeStaysHolds == Spec => OutcomeStays
<1>1. IInv /\ [Next]_vars => [\A j \in Jobs : saved[j].state \in Final => saved'[j] = saved[j]]_vars
  BY OnlyOpenOverwritten
<1> QED BY <1>1, Invariance, PTL DEF Spec, OutcomeStays

-----------------------------------------------------------------------------
(* What a client sees.  A third invariant relates the object in the hand   *)
(* of the loop to the record in Redis at the points before a write: what   *)
(* the write will change, and what it leaves as it is.                     *)

SameRetries == {"wait", "assign", "assignSave", "clear", "clearSave", "retrying", "final"}
Copied(j) ==
    /\ loop \in SameRetries => mem.retries = saved[j].retries
    /\ loop \in {"drop", "dropSave"} =>
        /\ saved[j].retries <= MaxRetries /\ mem.retries = saved[j].retries + 1
        /\ saved[j].state = "PROCESSING" => mem.state = "PROCESSING" /\ mem.local = saved[j].local
    /\ loop \in {"retrying", "final"} => mem.retries > 0
    /\ loop = "final" => mem.retries > MaxRetries
    /\ loop = "syncSave" =>
        /\ mem = [saved[j] EXCEPT !.state = mem.state]
        /\ mem.state = "FAILED" => local[mem.local] = "FAILED"
CopyInv == \A j \in Jobs : InHand(j) => Copied(j)

(* Before a dispatch, after a lost one, and at the reply the loop comes to *)
(* points of which the invariant says nothing.                             *)
Uncopied == LoopPoints \ (SameRetries \cup {"drop", "dropSave", "syncSave"})

LEMMA UncopiedHolds ==
    ASSUME loop' \in Uncopied
    PROVE  CopyInv'
BY DEF CopyInv, Copied, Uncopied, SameRetries

LEMMA CopyStill ==
    ASSUME IInv, CopyInv, Grow, UNCHANGED <<loop, held, mem>>,
           \A j \in Jobs : InHand(j) => saved'[j] = saved[j]
    PROVE  CopyInv'
<1> SUFFICES ASSUME NEW j \in Jobs, InHand(j) PROVE Copied(j)'
  BY DEF CopyInv, InHand
<1>1. Copied(j) /\ saved'[j] = saved[j]
  BY DEF CopyInv
<1>2. JobInv(j) /\ HeldInv(j)
  BY DEF IInv, JobsInv, JobInv, HandInv
<1>3. CASE loop = "syncSave"
  <2>1. saved[j].local \in LocalIds /\ owner[saved[j].local] = j
    BY <1>2, <1>3 DEF JobInv, RedisInv, Truthful, HeldInv, Linked
  <2>2. mem = [saved[j] EXCEPT !.state = mem.state] /\ saved[j] \in Records
    BY <1>1, <1>3 DEF Copied, IInv, TypeOK
  <2>3. mem.local = saved[j].local
    BY <2>2 DEF Records
  <2>4. mem.state = "FAILED" => local'[mem.local] = "FAILED"
    BY <1>1, <1>3, <2>1, <2>3, JobsAssumption DEF Copied, Grow
  <2> QED BY <1>1, <1>3, <2>2, <2>4 DEF Copied, SameRetries
<1>4. CASE loop # "syncSave"
  BY <1>1, <1>4 DEF Copied
<1> QED BY <1>3, <1>4

(* A sync comes to the record that it will save.                           *)
LEMMA SyncCopied ==
    ASSUME IInv, CopyInv, NEW k \in Jobs, SyncJob(k) \/ SyncMisses(k)
    PROVE  CopyInv'
<1>1. /\ TypeOK /\ loop = "sync" /\ UNCHANGED <<saved, local>> /\ held = NoJob
      /\ JobInv(k) /\ k \in todo
  BY DEF IInv, JobsInv, SyncJob, SyncMisses, SyncUnchanged, queueVars, workerVars, LoopInv
<1>2. CASE loop' = "sync"
  BY <1>2, UncopiedHolds DEF Uncopied, LoopPoints, SameRetries
<1>3. ASSUME NEW s, SyncTo(k, s), s = "FAILED" => local[saved[k].local] = "FAILED", s \in States
      PROVE  CopyInv'
  <2>1. saved[k] \in Records
    BY <1>1 DEF TypeOK
  <2>2. /\ held' = k /\ loop' = "syncSave" /\ mem' = [saved[k] EXCEPT !.state = s]
    BY <1>3 DEF SyncTo
  <2>3. mem'.state = s /\ mem'.local = saved[k].local
    BY <2>1, <2>2 DEF Records
  <2>4. Copied(k)'
    BY <1>1, <1>3, <2>2, <2>3 DEF Copied, SameRetries
  <2> QED BY <2>2, <2>4 DEF CopyInv, InHand
<1>4. \/ \E s \in {"COMPLETED", "FAILED"} : SyncTo(k, s) /\ local[saved[k].local] = s
      \/ SyncTo(k, "TIMEOUT")
      \/ loop' = "sync"
  BY <1>1 DEF SyncJob, SyncMisses, TimeoutStale
<1> QED BY <1>2, <1>3, <1>4 DEF States, Final

(* What a command writes to the record of its job.                        *)
LEMMA CommandSaves ==
    ASSUME NEW p, NEW k \in Jobs, Command(p, k)
    PROVE  IF p \in SavePoints THEN saved' = [saved EXCEPT ![k] = mem] ELSE UNCHANGED saved
BY DEF Command, HSetActive, HDelActive, Save, StoreJob, AddDelayed, PushReady, queueVars,
       StorePoints, SavePoints

(* A capacity check, a reply and a lost reply.                             *)
LEMMA HandCopied ==
    ASSUME IInv, CopyInv, LoopSelect \/ PostAccepted \/ PostFails
    PROVE  CopyInv'
<1>1. PICK k \in Jobs : k = held /\ HeldInv(k)
  BY InTheHand DEF LoopSelect, PostAccepted, PostFails
<1>2. /\ UNCHANGED <<saved, held>> /\ saved[k] = mem /\ mem \in Records
      /\ mem.retries <= MaxRetries /\ mem.retries \in Nat /\ loop \in {"select", "posted"}
  BY <1>1
     DEF LoopSelect, PostAccepted, PostFails, DispatchFails, HeldInv, Written, IInv, TypeOK,
         Records, queueVars
<1>3. CASE loop' \in {"assign", "wait", "clear"} /\ mem'.retries = mem.retries
  BY <1>1, <1>2, <1>3 DEF CopyInv, Copied, InHand, SameRetries
<1>4. CASE loop = "posted" /\ loop' = "drop" /\ mem' = [mem EXCEPT !.retries = @ + 1]
  <2>1. mem.state = "ASSIGNED" /\ mem'.retries = mem.retries + 1
    BY <1>1, <1>2, <1>4 DEF HeldInv, Records
  <2> QED BY <1>1, <1>2, <1>4, <2>1 DEF CopyInv, Copied, InHand, SameRetries
<1>5. \/ loop' \in {"assign", "wait", "clear"} /\ mem'.retries = mem.retries
      \/ loop = "posted" /\ loop' = "drop" /\ mem' = [mem EXCEPT !.retries = @ + 1]
  BY <1>2 DEF LoopSelect, PostAccepted, PostFails, DispatchFails, Records
<1> QED BY <1>3, <1>4, <1>5

LEMMA CommandCopied ==
    ASSUME IInv, CopyInv, LoopCommand
    PROVE  CopyInv'
<1>1. /\ TypeOK /\ loop \in Writes /\ loop' = NextPoint /\ mem' = NextRecord
      /\ Command(loop, held)
      /\ held' = IF NextPoint \in {"top", "sync"} THEN NoJob ELSE held
  BY DEF IInv, LoopCommand
<1>2. PICK k \in Jobs : k = held /\ HeldInv(k) /\ Copied(k)
  BY <1>1, InTheHand DEF Writes, StorePoints, SavePoints, QueuePoints, CopyInv, InHand
<1>3. /\ mem \in Records /\ saved[k] \in Records /\ MaxRetries \in Nat
      /\ mem.retries \in Nat /\ saved[k].retries \in Nat
  BY <1>1, LimitsAssumption DEF TypeOK, Records
<1>4. saved'[k] = IF loop \in SavePoints THEN mem ELSE saved[k]
  BY <1>1, <1>2, CommandSaves DEF TypeOK
<1>5. CASE loop = "assign"
  <2>1. loop' = "assignSave" /\ mem' = mem /\ saved'[k] = saved[k]
    BY <1>1, <1>4, <1>5 DEF NextPoint, NextRecord, SavePoints
  <2> QED BY <1>1, <1>2, <1>5, <2>1 DEF CopyInv, Copied, InHand, SameRetries
<1>6. CASE loop = "clear"
  <2>1. loop' = "clearSave" /\ mem' = mem /\ saved'[k] = saved[k]
    BY <1>1, <1>4, <1>6 DEF NextPoint, NextRecord, SavePoints
  <2> QED BY <1>1, <1>2, <1>6, <2>1 DEF CopyInv, Copied, InHand, SameRetries
<1>7. CASE loop = "drop"
  <2>1. loop' = "dropSave" /\ mem' = mem /\ saved'[k] = saved[k]
    BY <1>1, <1>4, <1>7 DEF NextPoint, FailurePoint, NextRecord, SavePoints
  <2> QED BY <1>1, <1>2, <1>7, <2>1 DEF CopyInv, Copied, InHand, SameRetries
<1>8. CASE loop = "dropSave"
  <2>1. /\ loop' = IF MayRetry THEN "retrying" ELSE "final"
        /\ mem'.retries = mem.retries /\ saved'[k] = mem
    BY <1>1, <1>3, <1>4, <1>8
       DEF NextPoint, FailurePoint, NextRecord, SavePoints, Records
  <2>2. mem.retries > 0 /\ (loop' = "final" => mem.retries > MaxRetries)
    BY <1>2, <1>3, <1>8, <2>1 DEF Copied, MayRetry
  <2> QED BY <1>1, <1>2, <1>8, <2>1, <2>2 DEF CopyInv, Copied, InHand, SameRetries
<1>9. CASE loop \notin {"assign", "clear", "drop", "dropSave"}
  <2>1. loop' \in Uncopied \cup {"clearSave"}
    BY <1>1, <1>9
       DEF NextPoint, FailurePoint, Writes, StorePoints, SavePoints, QueuePoints, Uncopied,
           LoopPoints, SameRetries
  <2>2. loop' # "clearSave"
    BY <1>1, <1>9
       DEF NextPoint, FailurePoint, Writes, StorePoints, SavePoints, QueuePoints
  <2> QED BY <2>1, <2>2, UncopiedHolds
<1> QED BY <1>5, <1>6, <1>7, <1>8, <1>9

LEMMA RaisesCopied ==
    ASSUME IInv, CopyInv, LoopRaises
    PROVE  CopyInv'
<1>1. CASE Abandon
  BY <1>1, UncopiedHolds DEF Abandon, Uncopied, LoopPoints, SameRetries
<1>2. CASE loop \in {"clear", "clearSave", "clearStore"} /\ DispatchFails
  <2>1. /\ TypeOK /\ held' = held /\ loop' = "drop" /\ mem' = [mem EXCEPT !.retries = @ + 1]
        /\ Command(loop, held) \/ UNCHANGED <<queueVars, db>>
    BY <1>2 DEF LoopRaises, DispatchFails, IInv
  <2>2. PICK k \in Jobs : k = held /\ HeldInv(k) /\ Copied(k)
    BY <1>2, InTheHand DEF CopyInv, InHand
  <2>3. /\ mem \in Records /\ saved[k] \in Records /\ MaxRetries \in Nat
        /\ mem'.retries = mem.retries + 1 /\ mem'.state = mem.state /\ mem'.local = mem.local
    BY <2>1, LimitsAssumption DEF TypeOK, Records
  <2>4. saved'[k] \in {saved[k], mem}
    BY <2>1, <2>2, CommandSaves DEF TypeOK, queueVars
  <2>5. /\ saved[k].retries = mem.retries /\ mem.retries <= MaxRetries
        /\ mem.state = "PROCESSING"
        /\ saved[k].state = "ASSIGNED" \/ saved[k] = mem
    BY <1>2, <2>2 DEF HeldInv, Written, Copied, SameRetries
  <2>6. Copied(k)'
    BY <2>1, <2>3, <2>4, <2>5 DEF Copied, SameRetries
  <2> QED BY <2>1, <2>2, <2>6 DEF CopyInv, InHand
<1> QED BY <1>1, <1>2 DEF LoopRaises

(* The steps that write no record, apart from those of a local job.       *)
ReadStep ==
    \/ LoopSync \/ LoopSkip \/ LoopSynced \/ LoopRelease \/ LoopPop \/ LoopIdle \/ LoopSelect
    \/ Post \/ PostAccepted \/ PostAgain \/ PostFails
    \/ \E j \in Jobs : SyncJob(j) \/ SyncMisses(j) \/ BecomesDue(j) \/ Ages(j)
    \/ \E w \in Workers : Administer(w)
    \/ CleanupRead \/ CleanupDelete \/ Crash \/ UNCHANGED vars

LEMMA ReadStepReads ==
    ASSUME ReadStep
    PROVE  UNCHANGED <<saved, local>>
BY DEF ReadStep, LoopSync, LoopSkip, LoopSynced, LoopRelease, LoopPop, LoopIdle, LoopSelect,
       Post, PostAccepted, PostAgain, PostFails, SyncJob, SyncMisses, SyncUnchanged, BecomesDue,
       Ages, Administer, CleanupRead, CleanupDelete, HDelActive, Crash, ReleaseDue, PopReady,
       queueVars, workerVars, vars

LEMMA ReadStepCopied ==
    ASSUME IInv, CopyInv, ReadStep
    PROVE  CopyInv'
<1>1. CASE \/ LoopSync \/ LoopSkip \/ LoopSynced \/ LoopRelease \/ LoopPop \/ LoopIdle
           \/ Post \/ PostAgain \/ Crash
  <2>1. loop' \in {"sync", "release", "pop", "select", "top", "posted", "post"}
    BY <1>1
       DEF LoopSync, LoopSkip, LoopSynced, LoopRelease, LoopPop, LoopIdle, Post, PostAgain,
           Crash, Abandon
  <2> QED BY <2>1, UncopiedHolds DEF Uncopied, LoopPoints, Writes, StorePoints, SameRetries
<1>2. CASE LoopSelect \/ PostAccepted \/ PostFails
  BY <1>2, HandCopied
<1>3. CASE \E j \in Jobs : SyncJob(j) \/ SyncMisses(j)
  BY <1>3, SyncCopied
<1>4. CASE \/ \E j \in Jobs : BecomesDue(j) \/ Ages(j)
           \/ \E w \in Workers : Administer(w)
           \/ CleanupRead \/ CleanupDelete \/ UNCHANGED vars
  <2>1. /\ UNCHANGED <<loop, held, mem, local, owner, host>> /\ aged \subseteq aged'
        /\ UNCHANGED saved
    BY <1>4, ReadStepReads
       DEF ReadStep, BecomesDue, Ages, Administer, CleanupRead, CleanupDelete, HDelActive,
           loopVars, workerVars, otherVars, vars
  <2> QED BY <2>1, CopyStill DEF Grow
<1> QED BY <1>1, <1>2, <1>3, <1>4 DEF ReadStep

LEMMA EnqueueSaves ==
    ASSUME IInv, NEW k \in Jobs, Enqueue(k) \/ EnqueueRaises(k)
    PROVE  /\ UNCHANGED <<loop, held, mem, local>> /\ Grow
           /\ \/ UNCHANGED saved
              \/ /\ saved[k] = NoRecord /\ ~InHand(k)
                 /\ saved' = [saved EXCEPT ![k] = NewRecord]
<1>1. /\ UNCHANGED <<loop, loopVars, workerVars, aged>>
      /\ EnqueueCommand(k) \/ UNCHANGED <<queueVars, db>>
      /\ enq[k] = "new" => saved[k] = NoRecord /\ ~InHand(k)
  BY DEF Enqueue, EnqueueRaises, IInv, JobsInv, JobInv, EnqInv
<1> QED
  BY <1>1, NoGrowth
     DEF EnqueueCommand, Save, PushReady, IndexJob, StoreJob, queueVars, loopVars, workerVars

LEMMA CopyStep ==
    ASSUME IInv, CopyInv, [Next]_vars
    PROVE  CopyInv'
<1>1. CASE ReadStep
  BY <1>1, ReadStepCopied
<1>2. CASE LoopCommand \/ LoopRaises
  BY <1>2, CommandCopied, RaisesCopied
<1>3. ASSUME NEW j \in Jobs, Enqueue(j) \/ EnqueueRaises(j) PROVE CopyInv'
  <2>1. \A i \in Jobs : InHand(i) => saved'[i] = saved[i]
    BY <1>3, EnqueueSaves DEF IInv, TypeOK
  <2> QED BY <1>3, <2>1, EnqueueSaves, CopyStill
<1>4. ASSUME NEW l \in LocalIds, WorkerStep(l) PROVE CopyInv'
  <2>1. Grow /\ UNCHANGED <<saved, loop, held, mem>>
    BY <1>4, WorkerGrows DEF WorkerStep, IInv, queueVars, loopVars
  <2> QED BY <2>1, CopyStill
<1> QED BY <1>1, <1>2, <1>3, <1>4 DEF Next, LoopStep, JobNext, ReadStep

-----------------------------------------------------------------------------
(* The refinement of GlobalLifecycle. *)

(* How the client's view changes with the record of one job.               *)
LEMMA ViewChanges ==
    ASSUME TypeOK, NEW k \in Jobs, NEW r \in Records, saved' = [saved EXCEPT ![k] = r]
    PROVE  /\ [j \in Jobs |-> saved[j].state]' =
                [[j \in Jobs |-> saved[j].state] EXCEPT ![k] = r.state]
           /\ [j \in Jobs |-> saved[j].retries]' =
                [[j \in Jobs |-> saved[j].retries] EXCEPT ![k] = r.retries]
           /\ [j \in Jobs |-> LinkOf(saved[j])]' =
                [[j \in Jobs |-> LinkOf(saved[j])] EXCEPT ![k] = LinkOf(r)]
BY DEF TypeOK

(* Each write of the loop is a step of the job, or changes nothing that a *)
(* client sees.                                                            *)
LEMMA SaveRefines ==
    ASSUME IInv, CopyInv, NEW k \in Jobs, k = held, loop \in SavePoints,
           saved' = [saved EXCEPT ![k] = mem], UNCHANGED local
    PROVE  Lifecycle!JobStep(k)
<1> DEFINE st == [j \in Jobs |-> saved[j].state]
           rt == [j \in Jobs |-> saved[j].retries]
           ln == [j \in Jobs |-> LinkOf(saved[j])]
<1>1. /\ TypeOK /\ mem \in Records /\ saved[k] \in Records /\ JobsInv
      /\ HeldInv(k) /\ Copied(k) /\ RedisInv(k)
  BY DEF IInv, TypeOK, JobsInv, JobInv, HandInv, InHand, CopyInv
<1>2. /\ st' = [st EXCEPT ![k] = mem.state]
      /\ rt' = [rt EXCEPT ![k] = mem.retries]
      /\ ln' = [ln EXCEPT ![k] = LinkOf(mem)]
  BY <1>1, ViewChanges
<1>3. /\ st[k] = saved[k].state /\ rt[k] = saved[k].retries /\ ln[k] = LinkOf(saved[k])
      /\ rt[k] \in Nat /\ mem.retries \in Nat /\ MaxRetries \in Nat
  BY <1>1, LimitsAssumption DEF Records
<1>4. mem.retries = saved[k].retries => rt' = rt
  BY <1>2, <1>3
<1>5. LinkOf(mem) = LinkOf(saved[k]) => ln' = ln
  BY <1>2, <1>3
<1> HIDE DEF st, rt, ln
<1>6. CASE loop \in {"wait", "assignSave"}
  <2>1. /\ st[k] \in {"QUEUED", "RETRYING"} /\ mem.state \in {"RETRYING", "ASSIGNED"}
        /\ rt' = rt /\ ln' = ln
    BY <1>1, <1>3, <1>4, <1>5, <1>6 DEF HeldInv, Copied, SameRetries, LinkOf
  <2>2. CASE mem.state = "RETRYING"
    <3>1. Lifecycle!Wait(k)
      BY <1>2, <2>1, <2>2 DEF Lifecycle!Wait, Lifecycle!Waits, Lifecycle!Set, st, rt, ln
    <3> QED BY <3>1 DEF Lifecycle!JobStep
  <2>3. CASE mem.state = "ASSIGNED"
    <3>1. Lifecycle!Assign(k)
      BY <1>2, <2>1, <2>3 DEF Lifecycle!Assign, Lifecycle!Waits, Lifecycle!Set, st, rt, ln
    <3> QED BY <3>1 DEF Lifecycle!JobStep
  <2> QED BY <2>1, <2>2, <2>3
<1>7. CASE saved[k].state = "ASSIGNED" /\ mem.state = "PROCESSING"
  <2>1. /\ mem.local \in LocalIds /\ local[mem.local] # "NONE" /\ LinkOf(mem) = mem.local
        /\ owner[mem.local] = k
    BY <1>1, <1>7 DEF HeldInv, Truthful, Linked, LinkOf
  <2>2. \A i \in Jobs : ln[i] # mem.local
    <3> SUFFICES ASSUME NEW i \in Jobs, LinkOf(saved[i]) = mem.local PROVE FALSE
      BY DEF ln
    <3>1. saved[i].state \in {"PROCESSING", "COMPLETED", "TIMEOUT"} /\ saved[i].local = mem.local
      BY <2>1, LocalIdsAssumption DEF LinkOf
    <3>2. owner[saved[i].local] = i
      BY <1>1, <3>1 DEF JobsInv, JobInv, RedisInv, Truthful, Linked
    <3> QED BY <1>7, <2>1, <3>1, <3>2
  <2>3. Lifecycle!Link(k)
    BY <1>2, <1>3, <1>7, <2>1, <2>2 DEF Lifecycle!Link, Lifecycle!Set, st, ln
  <2>4. CASE loop = "clearSave"
    <3>1. Lifecycle!Dispatch(k)
      BY <1>1, <1>4, <2>3, <2>4 DEF Lifecycle!Dispatch, Copied, SameRetries, rt
    <3> QED BY <3>1 DEF Lifecycle!JobStep
  <2>5. CASE loop = "dropSave"
    <3>1. Lifecycle!FailDispatch(k)
      BY <1>1, <1>2, <1>3, <1>7, <2>3, <2>5 DEF Lifecycle!FailDispatch, Copied, st, rt
    <3> QED BY <3>1 DEF Lifecycle!JobStep
  <2>6. loop \in {"clearSave", "dropSave"}
    BY <1>1, <1>7 DEF HeldInv, SavePoints, Final
  <2> QED BY <2>4, <2>5, <2>6
<1>8. CASE loop = "dropSave" /\ mem.state = saved[k].state
  <2>1. LinkOf(mem) = LinkOf(saved[k]) /\ st' = st /\ st[k] \in {"ASSIGNED", "PROCESSING"}
    <3>1. saved[k].state \in {"ASSIGNED", "PROCESSING"}
      BY <1>1, <1>8 DEF HeldInv
    <3>2. LinkOf(mem) = LinkOf(saved[k])
      BY <1>1, <1>8, <3>1 DEF Copied, LinkOf
    <3>3. st' = st
      BY <1>2, <1>3, <1>8 DEF st
    <3> QED BY <1>3, <3>1, <3>2, <3>3
  <2>2. rt[k] <= MaxRetries /\ rt' = [rt EXCEPT ![k] = @ + 1]
    BY <1>1, <1>2, <1>3, <1>8 DEF Copied
  <2>3. Lifecycle!FailDispatch(k)
    BY <1>5, <2>1, <2>2 DEF Lifecycle!FailDispatch, st, rt, ln
  <2> QED BY <2>3 DEF Lifecycle!JobStep
<1>9. CASE loop \in {"retrying", "final"}
  <2>1. /\ st[k] \in {"ASSIGNED", "PROCESSING"} /\ rt[k] > 0 /\ rt' = rt
        /\ mem.state \in {"RETRYING", "FAILED"} /\ LinkOf(mem) = NoLocal
    BY <1>1, <1>3, <1>4, <1>9 DEF HeldInv, Copied, SameRetries, LinkOf
  <2>2. CASE loop = "retrying"
    <3>1. mem.state = "RETRYING" /\ rt[k] <= MaxRetries
      BY <1>1, <1>3, <2>2 DEF HeldInv, Copied, SameRetries
    <3>2. Lifecycle!Retry(k)
      BY <1>2, <2>1, <3>1
         DEF Lifecycle!Retry, Lifecycle!FailedDispatch, Lifecycle!Set, Lifecycle!Unlink, st, rt, ln
    <3> QED BY <3>2 DEF Lifecycle!JobStep
  <2>3. CASE loop = "final"
    <3>1. mem.state = "FAILED" /\ rt[k] > MaxRetries
      BY <1>1, <1>3, <2>3 DEF HeldInv, Copied, SameRetries
    <3>2. Lifecycle!GiveUp(k)
      BY <1>2, <2>1, <3>1
         DEF Lifecycle!GiveUp, Lifecycle!FailedDispatch, Lifecycle!Set, Lifecycle!Unlink, st, rt, ln
    <3> QED BY <3>2 DEF Lifecycle!JobStep
  <2> QED BY <1>9, <2>2, <2>3
<1>10. CASE loop = "syncSave"
  <2>1. /\ st[k] = "PROCESSING" /\ ln[k] = saved[k].local /\ mem.state \in Final
        /\ mem.local = saved[k].local /\ mem.retries = saved[k].retries
    <3>1. mem = [saved[k] EXCEPT !.state = mem.state]
      BY <1>1, <1>10 DEF Copied
    <3>2. mem.local = saved[k].local /\ mem.retries = saved[k].retries
      BY <1>1, <3>1 DEF Records
    <3>3. saved[k].state = "PROCESSING" /\ mem.state \in Final
      BY <1>1, <1>10 DEF HeldInv
    <3> QED BY <1>3, <3>2, <3>3 DEF LinkOf
  <2>2. rt' = rt
    BY <1>4, <2>1
  <2>3. CASE mem.state = "COMPLETED"
    <3>1. LinkOf(mem) = LinkOf(saved[k]) /\ local[ln[k]] = "COMPLETED"
      BY <1>1, <1>3, <2>1, <2>3 DEF LinkOf, HeldInv, Truthful
    <3>2. Lifecycle!Complete(k)
      BY <1>2, <1>5, <2>1, <2>2, <2>3, <3>1
         DEF Lifecycle!Complete, Lifecycle!Ends, Lifecycle!Set, st, rt, ln
    <3> QED BY <3>2 DEF Lifecycle!JobStep
  <2>4. CASE mem.state = "FAILED"
    <3>1. LinkOf(mem) = NoLocal /\ local[ln[k]] = "FAILED"
      BY <1>1, <1>10, <2>1, <2>4 DEF LinkOf, Copied
    <3>2. Lifecycle!Fail(k)
      BY <1>2, <2>1, <2>2, <2>4, <3>1
         DEF Lifecycle!Fail, Lifecycle!Ends, Lifecycle!Set, Lifecycle!Unlink, st, rt, ln
    <3> QED BY <3>2 DEF Lifecycle!JobStep
  <2>5. CASE mem.state = "TIMEOUT"
    <3>1. LinkOf(mem) = LinkOf(saved[k])
      BY <1>3, <2>1, <2>5 DEF LinkOf
    <3>2. Lifecycle!TimeOut(k)
      BY <1>2, <1>5, <2>1, <2>2, <2>5, <3>1
         DEF Lifecycle!TimeOut, Lifecycle!Ends, Lifecycle!Set, st, rt, ln
    <3> QED BY <3>2 DEF Lifecycle!JobStep
  <2> QED BY <2>1, <2>3, <2>4, <2>5 DEF Final
<1>11. \/ loop \in {"wait", "assignSave", "retrying", "final", "syncSave"}
       \/ saved[k].state = "ASSIGNED" /\ mem.state = "PROCESSING"
       \/ loop = "dropSave" /\ mem.state = saved[k].state
  BY <1>1 DEF HeldInv, Copied, SavePoints
<1> QED BY <1>6, <1>7, <1>8, <1>9, <1>10, <1>11

(* A worker's step is one of Local in either module.                      *)
LEMMA WorkerRefines ==
    ASSUME NEW l \in LocalIds, WorkerStep(l)
    PROVE  Lifecycle!Next
<1>1. Local!Step(l) /\ UNCHANGED saved
  BY DEF WorkerStep, queueVars
<1>2. Lifecycle!Local!Step(l)
  BY <1>1
     DEF Local!Step, Local!Create, Local!Wait, Local!Assign, Local!Start, Local!Strand,
         Local!Complete, Local!Retry, Local!Fail, Local!Set, Local!Waits, Local!Fails,
         Lifecycle!Local!Step, Lifecycle!Local!Create, Lifecycle!Local!Wait,
         Lifecycle!Local!Assign, Lifecycle!Local!Start, Lifecycle!Local!Strand,
         Lifecycle!Local!Complete, Lifecycle!Local!Retry, Lifecycle!Local!Fail,
         Lifecycle!Local!Set, Lifecycle!Local!Waits, Lifecycle!Local!Fails
<1> QED BY <1>1, <1>2 DEF Lifecycle!Next, Lifecycle!jobVars

LEMMA StepRefines ==
    ASSUME IInv, CopyInv, [Next]_vars
    PROVE  [Lifecycle!Next]_(Lifecycle!lifecycleVars)
<1> USE DEF Lifecycle!lifecycleVars, Lifecycle!jobVars
<1>1. CASE UNCHANGED <<saved, local>>
  BY <1>1
<1>2. ASSUME NEW k \in Jobs, Lifecycle!JobStep(k), UNCHANGED local PROVE Lifecycle!Next
  BY <1>2 DEF Lifecycle!Next
<1>3. CASE ReadStep
  BY <1>1, <1>3, ReadStepReads
<1>4. ASSUME Command(loop, held), UNCHANGED local
      PROVE  UNCHANGED saved \/ Lifecycle!Next
  <2>1. loop \in Writes
    BY <1>4 DEF Command, Writes, QueuePoints
  <2>2. PICK k \in Jobs : k = held
    BY <2>1, InTheHand DEF Writes, StorePoints, SavePoints, QueuePoints
  <2>3. UNCHANGED saved \/ (loop \in SavePoints /\ saved' = [saved EXCEPT ![k] = mem])
    BY <1>4, <2>2, CommandSaves
  <2> QED BY <1>2, <1>4, <2>2, <2>3, SaveRefines
<1>5. CASE LoopCommand \/ LoopRaises
  <2>1. UNCHANGED local /\ (Command(loop, held) \/ UNCHANGED saved)
    BY <1>5
       DEF LoopCommand, LoopRaises, ReleaseDue, PopReady, queueVars, workerVars
  <2> QED BY <1>1, <1>4, <2>1
<1>6. ASSUME NEW k \in Jobs, Enqueue(k) \/ EnqueueRaises(k)
      PROVE  [Lifecycle!Next]_(Lifecycle!lifecycleVars)
  <2>1. UNCHANGED local
    BY <1>6, EnqueueSaves
  <2>2. CASE saved[k] = NoRecord /\ saved' = [saved EXCEPT ![k] = NewRecord]
    <3>1. /\ NewRecord \in Records /\ NewRecord.state = "QUEUED" /\ NewRecord.retries = 0
          /\ NoRecord.state = "NONE" /\ NoRecord.retries = 0
          /\ LinkOf(NewRecord) = NoLocal /\ LinkOf(NoRecord) = NoLocal /\ TypeOK
      BY EmptyRecords DEF NewRecord, NoRecord, LinkOf, IInv
    <3>2. /\ [j \in Jobs |-> saved[j].state]' =
                [[j \in Jobs |-> saved[j].state] EXCEPT ![k] = "QUEUED"]
          /\ [j \in Jobs |-> saved[j].retries]' =
                [[j \in Jobs |-> saved[j].retries] EXCEPT ![k] = 0]
          /\ [j \in Jobs |-> LinkOf(saved[j])]' =
                [[j \in Jobs |-> LinkOf(saved[j])] EXCEPT ![k] = NoLocal]
      BY <2>2, <3>1, ViewChanges
    <3>3. Lifecycle!Accept(k)
      BY <2>2, <3>1, <3>2 DEF Lifecycle!Accept, Lifecycle!Set
    <3> QED BY <1>2, <2>1, <3>3 DEF Lifecycle!JobStep
  <2> QED BY <1>1, <1>6, <2>1, <2>2, EnqueueSaves
<1>7. CASE \E l \in LocalIds : WorkerStep(l)
  BY <1>7, WorkerRefines
<1> QED BY <1>3, <1>5, <1>6, <1>7 DEF Next, LoopStep, JobNext, ReadStep

(* The orchestrator implements GlobalLifecycle.  Clients read the states   *)
(* of their jobs in order, through lost replies, failed commands and       *)
(* restarts, and an outcome is that of the one local job the job is linked *)
(* to.                                                                     *)
THEOREM Refinement == Spec => ImplementsLifecycle
<1>1. Init => CopyInv /\ Lifecycle!Init
  BY UncopiedHolds, JobsAssumption
     DEF Init, CopyInv, InHand, Lifecycle!Init, NoRecord, LinkOf
<1>2. IInv /\ CopyInv /\ [Next]_vars => CopyInv'
  BY CopyStep
<1>3. IInv /\ CopyInv /\ [Next]_vars => [Lifecycle!Next]_(Lifecycle!lifecycleVars)
  BY StepRefines
<1> QED BY <1>1, <1>2, <1>3, Invariance, PTL DEF Spec, ImplementsLifecycle, Lifecycle!Spec

-----------------------------------------------------------------------------
(* What a job costs.  A second invariant counts the requests that were     *)
(* sent for a job against the dispatches that its record admits to.        *)

Sent(j) == Cardinality(LocalJobsOf(j))
Budget(r) == r * PostAttempts

(* Every request so far belongs to one of r failed dispatches. *)
Paid(j, r) == Sent(j) <= Budget(r) /\ Sent(j) <= faults.count

(* The points at which the running dispatch has sent nothing that counts. *)
Unsent == {"select", "wait", "delay", "assign", "assignSave", "assignStore", "drop", "dropSave",
           "retrying", "requeue"}
HandCost(j) ==
    InHand(j) =>
        /\ loop \in Unsent => Paid(j, mem.retries)
        /\ loop \in {"post", "posted"} => Sent(j) <= Budget(mem.retries) + tries
        /\ loop = "post" => Sent(j) <= faults.count
        /\ loop \in {"clear", "clearSave", "clearStore"} =>
             Sent(j) <= Budget(mem.retries) + PostAttempts
CostInv(j) ==
    /\ IsFiniteSet(LocalJobsOf(j))
    /\ Sent(j) <= Budget(MaxRetries + 1) /\ Sent(j) <= 1 + faults.count
    /\ enq[j] \in {"new", "saved"} => Sent(j) = 0
    /\ Waiting(j) => Paid(j, saved[j].retries)
    /\ HandCost(j)
TriesInv ==
    /\ loop \notin {"post", "posted"} => tries = 0
    /\ loop = "post" => tries < PostAttempts
    /\ loop = "posted" => tries <= PostAttempts
CostsInv == TriesInv /\ \A j \in Jobs : CostInv(j)

LEMMA Budgets ==
    ASSUME NEW r \in Nat
    PROVE  /\ Budget(r) \in Nat
           /\ Budget(r + 1) = Budget(r) + PostAttempts
           /\ r <= MaxRetries => Budget(r) + PostAttempts <= Budget(MaxRetries + 1)
<1>1. PostAttempts \in Nat /\ MaxRetries \in Nat
  BY LimitsAssumption
<1>2. Budget(r) \in Nat /\ Budget(r + 1) = Budget(r) + PostAttempts
  BY <1>1 DEF Budget
<1>3. ASSUME r <= MaxRetries PROVE Budget(r + 1) <= Budget(MaxRetries + 1)
  <2>1. PICK d \in Nat : MaxRetries = r + d
    <3>1. MaxRetries - r \in Nat /\ MaxRetries = r + (MaxRetries - r)
      BY <1>1, <1>3
    <3> QED BY <3>1
  <2>2. Budget(MaxRetries + 1) = Budget(r + 1) + d * PostAttempts
    BY <1>1, <2>1 DEF Budget
  <2>3. d * PostAttempts \in Nat /\ Budget(r + 1) \in Nat
    BY <1>1, <2>1 DEF Budget
  <2> QED BY <2>2, <2>3
<1> QED BY <1>2, <1>3

LEMMA SentTyped ==
    ASSUME TypeOK, NEW j \in Jobs, CostInv(j)
    PROVE  /\ Sent(j) \in Nat /\ faults.count \in Nat
           /\ saved[j].retries \in Nat /\ mem.retries \in Nat
BY FS_CardinalityType DEF CostInv, Sent, TypeOK, Disturbances, Records

(* A step that sends nothing. *)
LEMMA CostFrame ==
    ASSUME TypeOK, TypeOK', UNCHANGED owner, faults'.count \in {faults.count, faults.count + 1},
           NEW j \in Jobs, CostInv(j),
           enq'[j] \in {"new", "saved"} => enq[j] \in {"new", "saved"},
           (Waiting(j) => Paid(j, saved[j].retries))',
           HandCost(j)'
    PROVE  CostInv(j)'
<1>1. Sent(j) \in Nat /\ faults.count \in Nat
  BY SentTyped
<1>2. LocalJobsOf(j)' = LocalJobsOf(j) /\ Sent(j)' = Sent(j)
  BY DEF LocalJobsOf, Sent
<1> QED BY <1>1, <1>2, LimitsAssumption DEF CostInv, Budget

(* What was paid for stays paid for. *)
LEMMA PaidKept ==
    ASSUME TypeOK, UNCHANGED owner, faults'.count \in {faults.count, faults.count + 1},
           NEW j \in Jobs, CostInv(j), NEW r, Paid(j, r)
    PROVE  Paid(j, r)'
<1>1. Sent(j) \in Nat /\ faults.count \in Nat
  BY SentTyped
<1>2. Sent(j)' = Sent(j)
  BY DEF LocalJobsOf, Sent
<1> QED BY <1>1, <1>2 DEF Paid, Budget

(* A step that sends nothing and leaves the job where it is. *)
LEMMA CostStill ==
    ASSUME TypeOK, TypeOK', UNCHANGED owner, faults'.count \in {faults.count, faults.count + 1},
           NEW j \in Jobs, CostInv(j),
           enq'[j] \in {"new", "saved"} => enq[j] \in {"new", "saved"},
           Waiting(j)' => Waiting(j) /\ saved'[j] = saved[j],
           InHand(j)' => (InHand(j) /\ UNCHANGED <<loop, mem, tries>>) \/ loop' = "syncSave"
    PROVE  CostInv(j)'
<1>1. (Waiting(j) => Paid(j, saved[j].retries))'
  <2>1. PICK r : r = saved[j].retries
    OBVIOUS
  <2> QED BY <2>1, PaidKept DEF CostInv
<1>2. HandCost(j)'
  <2>1. CASE InHand(j) /\ UNCHANGED <<loop, mem, tries>>
    <3>1. Sent(j)' = Sent(j) /\ Sent(j) \in Nat /\ faults.count \in Nat
      BY SentTyped DEF LocalJobsOf, Sent
    <3>2. HandCost(j)
      BY DEF CostInv
    <3> QED BY <2>1, <3>1, <3>2 DEF HandCost, Paid, Budget
  <2>2. CASE loop' = "syncSave"
    BY <2>2 DEF HandCost, Unsent
  <2> QED BY <2>1, <2>2 DEF HandCost
<1> QED BY <1>1, <1>2, CostFrame

(* Faults are counted one by one. *)
LEMMA FaultCounted ==
    ASSUME TypeOK, NEW kind, NEW hit, Fault(kind, hit)
    PROVE  faults'.count = faults.count + 1
BY DEF Fault

LEMMA FaultsGrow ==
    ASSUME TypeOK, [Next]_vars
    PROVE  faults'.count \in {faults.count, faults.count + 1}
<1>1. CASE LoopStep
  <2>1. CASE LoopSelect
    <3>1. UNCHANGED faults \/ Fault("net", {})
      BY <2>1 DEF LoopSelect
    <3> QED BY <3>1, FaultCounted
  <2>2. CASE LoopSync \/ LoopSkip \/ LoopSynced \/ LoopIdle
    BY <2>2 DEF LoopSync, LoopSkip, LoopSynced, LoopIdle
  <2>3. CASE LoopRelease \/ LoopPop \/ Post \/ PostAccepted \/ LoopCommand
    BY <2>3 DEF LoopRelease, LoopPop, Post, PostAccepted, LoopCommand
  <2>4. ASSUME NEW j \in Jobs, SyncJob(j) PROVE UNCHANGED faults
    BY <2>4 DEF SyncJob
  <2> QED BY <1>1, <2>1, <2>2, <2>3, <2>4 DEF LoopStep
<1>2. CASE LoopRaises \/ PostAgain \/ PostFails \/ Crash
  BY <1>2, FaultCounted DEF LoopRaises, PostAgain, PostFails, Crash
<1>3. ASSUME NEW j \in Jobs, JobNext(j) PROVE faults'.count \in {faults.count, faults.count + 1}
  BY <1>3, FaultCounted DEF JobNext, Enqueue, EnqueueRaises, SyncMisses, BecomesDue, Ages
<1>4. CASE \/ CleanupRead \/ CleanupDelete \/ UNCHANGED vars
           \/ \E l \in LocalIds : WorkerStep(l)
           \/ \E w \in Workers : Administer(w)
  BY <1>4, FaultCounted DEF CleanupRead, CleanupDelete, vars, WorkerStep, Administer
<1> QED BY <1>1, <1>2, <1>3, <1>4 DEF Next

(* The steps that touch neither a queue nor the object in the hand. *)
LEMMA QuietCosts ==
    ASSUME IInv, TypeOK', CostsInv, faults'.count \in {faults.count, faults.count + 1},
           UNCHANGED <<saved, ready, delayed, owner, tries>>,
           \A j \in Jobs : enq'[j] \in {"new", "saved"} => enq[j] \in {"new", "saved"},
           \/ UNCHANGED <<loop, held, mem>>
           \/ loop \notin {"post", "posted"} /\ loop' \notin {"post", "posted"}
              /\ (held' = NoJob \/ loop' = "syncSave")
    PROVE  CostsInv'
<1>1. TypeOK
  BY DEF IInv
<1>2. ASSUME NEW j \in Jobs PROVE CostInv(j)'
  <2>1. CostInv(j) /\ (Waiting(j)' <=> Waiting(j)) /\ saved'[j] = saved[j]
    BY DEF CostsInv, Waiting, InReady
  <2>2. InHand(j)' => (InHand(j) /\ UNCHANGED <<loop, mem, tries>>) \/ loop' = "syncSave"
    BY JobsAssumption DEF InHand
  <2> QED BY <1>1, <2>1, <2>2, CostStill
<1>3. TriesInv'
  BY DEF CostsInv, TriesInv
<1> QED BY <1>2, <1>3 DEF CostsInv

LEMMA EnqueueCosts ==
    ASSUME IInv, TypeOK', CostsInv, faults'.count \in {faults.count, faults.count + 1},
           NEW k \in Jobs, Enqueue(k) \/ EnqueueRaises(k)
    PROVE  CostsInv'
<1>1. TypeOK /\ IsInjective(ready) /\ JobInv(k) /\ CostInv(k) /\ TriesInv
  BY DEF IInv, JobsInv, CostsInv
<1>2. /\ UNCHANGED <<loop, held, mem, tries, owner>>
      /\ EnqueueCommand(k) \/ UNCHANGED <<queueVars, db>>
      /\ enq[k] \in {"new", "saved", "pushed", "indexed"}
      /\ \E e \in {"saved", "pushed", "indexed", "done", "failed"} : enq' = [enq EXCEPT ![k] = e]
      /\ enq'[k] = "saved" => enq[k] = "new"
  BY <1>1 DEF Enqueue, EnqueueRaises, EnqueueCommand, loopVars, workerVars, TypeOK
<1>3. /\ \A i \in Jobs \ {k} : saved'[i] = saved[i] /\ (Waiting(i)' <=> Waiting(i))
      /\ enq[k] \in {"pushed", "indexed"} => saved'[k] = saved[k] /\ (Waiting(k)' <=> Waiting(k))
  <2> USE <1>1 DEF TypeOK, Waiting
  <2>1. CASE UNCHANGED <<queueVars, db>>
    BY <2>1 DEF queueVars, InReady
  <2>2. CASE enq[k] = "new" /\ Save(k, NewRecord)
    BY <2>2 DEF Save, InReady
  <2>3. CASE enq[k] = "saved" /\ PushReady(k)
    BY <2>3, PushEffect DEF JobInv, EnqInv
  <2>4. CASE \/ enq[k] = "pushed" /\ IndexJob(k)
             \/ enq[k] = "indexed" /\ StoreJob(k, "QUEUED")
    BY <2>4 DEF IndexJob, StoreJob, queueVars, InReady
  <2> QED BY <1>2, <2>1, <2>2, <2>3, <2>4 DEF EnqueueCommand
<1>4. ASSUME NEW j \in Jobs PROVE CostInv(j)'
  <2>1. /\ CostInv(j)
        /\ enq'[j] \in {"new", "saved"} => enq[j] \in {"new", "saved"}
        /\ InHand(j)' <=> InHand(j)
    BY <1>1, <1>2 DEF CostsInv, TypeOK, InHand
  <2>2. CASE j # k \/ enq[k] \in {"pushed", "indexed"}
    BY <1>1, <1>2, <1>3, <2>1, <2>2, CostStill
  <2>3. CASE j = k /\ enq[k] \in {"new", "saved"}
    <3>1. Sent(j)' = 0 /\ faults'.count \in Nat
      BY <1>1, <1>2, <2>1, <2>3, SentTyped DEF LocalJobsOf, Sent, CostInv
    <3>2. saved'[j].retries \in Nat
      BY DEF TypeOK, Records
    <3>3. (Waiting(j) => Paid(j, saved[j].retries))'
      BY <3>1, <3>2, Budgets DEF Paid
    <3>4. ~InHand(j)'
      BY <1>1, <2>1, <2>3 DEF JobInv, EnqInv
    <3> QED BY <1>1, <1>2, <2>1, <3>3, <3>4, CostFrame DEF HandCost
  <2> QED BY <1>2, <2>2, <2>3
<1>5. TriesInv'
  BY <1>1, <1>2 DEF TriesInv
<1> QED BY <1>4, <1>5 DEF CostsInv

(* The loop releases a batch, or pops a job and keeps it or loses it. *)
LEMMA TakeCosts ==
    ASSUME IInv, TypeOK', CostsInv, faults'.count \in {faults.count, faults.count + 1},
           UNCHANGED <<enq, owner>>, tries' = 0, loop' \notin {"post", "posted"},
           \/ ReleaseDue /\ held' = NoJob
           \/ PopReady /\ held' = NoJob
           \/ PopReady /\ held' = Head(ready) /\ mem' = saved[held'] /\ loop' = "select"
    PROVE  CostsInv'
<1>1. TypeOK
  BY DEF IInv
<1>2. TriesInv'
  BY DEF TriesInv
<1>3. /\ UNCHANGED saved
      /\ \A j \in Jobs : Waiting(j)' => Waiting(j)
  BY ReleaseEffect, PopEffect DEF Waiting
<1>4. ASSUME NEW j \in Jobs PROVE CostInv(j)'
  <2>1. CostInv(j)
    BY DEF CostsInv
  <2>2. CASE ~InHand(j)'
    BY <1>1, <1>3, <2>1, <2>2, CostStill
  <2>3. CASE InHand(j)'
    <3>1. /\ PopReady /\ j = Head(ready) /\ mem' = saved[j] /\ loop' = "select"
      BY <2>3, JobsAssumption DEF InHand
    <3>2. Waiting(j)
      BY <3>1, PopEffect DEF Waiting
    <3>3. PICK r : r = saved[j].retries
      OBVIOUS
    <3>4. Paid(j, r)'
      BY <1>1, <2>1, <3>2, <3>3, PaidKept DEF CostInv
    <3>5. HandCost(j)'
      BY <3>1, <3>3, <3>4 DEF HandCost
    <3>6. (Waiting(j) => Paid(j, saved[j].retries))'
      BY <1>3, <3>3, <3>4
    <3> QED BY <1>1, <2>1, <3>5, <3>6, CostFrame
  <2> QED BY <2>2, <2>3
<1> QED BY <1>2, <1>4 DEF CostsInv

(* A step that only changes what the loop has in its hand. *)
LEMMA HandCosts ==
    ASSUME IInv, TypeOK', CostsInv, faults'.count \in {faults.count, faults.count + 1},
           UNCHANGED <<saved, ready, delayed, enq, owner, held>>, TriesInv',
           NEW k \in Jobs, k = held, HandCost(k)'
    PROVE  CostsInv'
<1>1. TypeOK
  BY DEF IInv
<1>2. ASSUME NEW j \in Jobs PROVE CostInv(j)'
  <2>1. CostInv(j) /\ (Waiting(j)' <=> Waiting(j)) /\ saved'[j] = saved[j]
    BY DEF CostsInv, Waiting, InReady
  <2>2. CASE j # k
    BY <1>1, <2>1, <2>2, CostStill DEF InHand
  <2>3. CASE j = k
    <3>1. PICK r : r = saved[j].retries
      OBVIOUS
    <3>2. (Waiting(j) => Paid(j, saved[j].retries))'
      BY <1>1, <2>1, <3>1, PaidKept DEF CostInv
    <3> QED BY <1>1, <2>1, <2>3, <3>2, CostFrame
  <2> QED BY <2>2, <2>3
<1> QED BY <1>2 DEF CostsInv

LEMMA SelectCosts ==
    ASSUME IInv, TypeOK', CostsInv, faults'.count \in {faults.count, faults.count + 1}, LoopSelect
    PROVE  CostsInv'
<1>1. /\ TypeOK /\ loop = "select"
      /\ loop' \in {"assign", "wait"} /\ mem'.retries = mem.retries
      /\ UNCHANGED <<saved, ready, delayed, enq, owner, held, tries>>
  BY DEF IInv, LoopSelect, TypeOK, Records, queueVars, workerVars
<1>2. PICK k \in Jobs : k = held
  BY <1>1, InTheHand
<1>3. PICK r : r = mem.retries
  OBVIOUS
<1>4. CostInv(k) /\ Paid(k, r)
  BY <1>1, <1>2, <1>3 DEF CostsInv, CostInv, HandCost, InHand, Unsent
<1>5. Paid(k, r)'
  BY <1>1, <1>4, PaidKept
<1>6. HandCost(k)'
  BY <1>1, <1>3, <1>5 DEF HandCost
<1>7. TriesInv'
  BY <1>1 DEF CostsInv, TriesInv
<1> QED BY <1>1, <1>2, <1>6, <1>7, HandCosts

(* The one step that sends a request. *)
LEMMA PostCosts ==
    ASSUME IInv, TypeOK', CostsInv, Post
    PROVE  CostsInv'
<1>1. /\ TypeOK /\ loop = "post" /\ loop' = "posted" /\ tries' = tries + 1
      /\ UNCHANGED <<saved, ready, delayed, enq, held, mem, faults>>
  BY DEF IInv, Post, queueVars
<1>2. PICK k \in Jobs : k = held /\ JobInv(k) /\ HeldInv(k)
  BY <1>1, InTheHand
<1>3. PICK l \in LocalIds : owner[l] = NoJob /\ owner' = [owner EXCEPT ![l] = k]
  BY <1>2 DEF Post
<1>4. /\ LocalJobsOf(k)' = LocalJobsOf(k) \cup {l} /\ l \notin LocalJobsOf(k)
      /\ \A j \in Jobs \ {k} : LocalJobsOf(j)' = LocalJobsOf(j)
  BY <1>1, <1>3, JobsAssumption DEF LocalJobsOf, TypeOK
<1>5. /\ CostInv(k) /\ InHand(k) /\ tries < PostAttempts
      /\ Sent(k) \in Nat /\ faults.count \in Nat /\ mem.retries \in Nat /\ tries \in Nat
  BY <1>1, <1>2, SentTyped DEF CostsInv, TriesInv, InHand, TypeOK
<1>6. IsFiniteSet(LocalJobsOf(k))' /\ Sent(k)' = Sent(k) + 1
  BY <1>4, <1>5, FS_AddElement DEF CostInv, Sent
<1>7. Sent(k) <= Budget(mem.retries) + tries /\ Sent(k) <= faults.count
  BY <1>1, <1>5 DEF CostInv, HandCost
<1>8. mem.retries <= MaxRetries /\ ~Waiting(k)' /\ enq[k] \notin {"new", "saved"}
  BY <1>1, <1>2 DEF HeldInv, Waiting, InReady, JobInv, EnqInv, InHand
<1>9. CostInv(k)'
  <2>1. /\ PostAttempts \in Nat /\ Budget(mem.retries) \in Nat
        /\ Budget(mem.retries) + PostAttempts <= Budget(MaxRetries + 1)
        /\ Budget(MaxRetries + 1) \in Nat
    BY <1>5, <1>8, Budgets, LimitsAssumption
  <2>2. Sent(k)' <= Budget(MaxRetries + 1) /\ Sent(k)' <= 1 + faults'.count
    BY <1>1, <1>5, <1>6, <1>7, <2>1
  <2>3. HandCost(k)'
    BY <1>1, <1>5, <1>6, <1>7, <2>1 DEF HandCost, Unsent, Budget
  <2> QED BY <1>1, <1>6, <1>8, <2>2, <2>3 DEF CostInv, Budget
<1>10. ASSUME NEW j \in Jobs \ {k} PROVE CostInv(j)'
  <2>1. CostInv(j) /\ Sent(j)' = Sent(j) /\ ~InHand(j)' /\ (Waiting(j)' <=> Waiting(j))
    BY <1>1, <1>2, <1>4 DEF CostsInv, Sent, InHand, Waiting, InReady
  <2> QED BY <1>1, <1>4, <2>1 DEF CostInv, HandCost, Paid, Budget
<1>11. TriesInv'
  BY <1>1, <1>5, LimitsAssumption DEF TriesInv
<1> QED BY <1>9, <1>10, <1>11 DEF CostsInv

(* The reply, or its loss. *)
LEMMA ReplyCosts ==
    ASSUME IInv, TypeOK', CostsInv, PostAccepted \/ PostAgain \/ PostFails
    PROVE  CostsInv'
<1>1. /\ TypeOK /\ loop = "posted" /\ tries \in Nat /\ tries <= PostAttempts
      /\ UNCHANGED <<saved, ready, delayed, enq, owner, held>>
  BY DEF IInv, TypeOK, CostsInv, TriesInv, PostAccepted, PostAgain, PostFails, DispatchFails,
         queueVars, workerVars
<1>2. PICK k \in Jobs : k = held
  BY <1>1, InTheHand
<1>3. /\ CostInv(k) /\ Sent(k) \in Nat /\ faults.count \in Nat /\ mem.retries \in Nat
      /\ Sent(k) <= Budget(mem.retries) + tries /\ Sent(k) <= 1 + faults.count
      /\ Sent(k)' = Sent(k) /\ Budget(mem.retries) \in Nat /\ PostAttempts \in Nat
      /\ Budget(mem.retries + 1) = Budget(mem.retries) + PostAttempts
  BY <1>1, <1>2, SentTyped, Budgets, LimitsAssumption
     DEF CostsInv, CostInv, HandCost, InHand, Sent, LocalJobsOf
<1>4. CASE PostAccepted
  <2>1. /\ loop' = "clear" /\ tries' = 0 /\ mem'.retries = mem.retries /\ UNCHANGED faults
    BY <1>1, <1>4 DEF PostAccepted, TypeOK, Records
  <2>2. HandCost(k)' /\ TriesInv'
    BY <1>1, <1>3, <2>1 DEF HandCost, TriesInv, Unsent, Budget
  <2> QED BY <1>1, <1>2, <2>1, <2>2, HandCosts
<1>5. CASE PostAgain
  <2>1. /\ loop' = "post" /\ tries' = tries /\ mem' = mem /\ tries < PostAttempts
        /\ faults'.count = faults.count + 1
    BY <1>1, <1>5, FaultCounted DEF PostAgain, MayPost
  <2>2. HandCost(k)' /\ TriesInv'
    BY <1>1, <1>3, <2>1 DEF HandCost, TriesInv, Unsent, Budget
  <2> QED BY <1>1, <1>2, <2>1, <2>2, HandCosts
<1>6. CASE PostFails
  <2>1. /\ loop' = "drop" /\ tries' = 0 /\ mem'.retries = mem.retries + 1
        /\ faults'.count = faults.count + 1
    BY <1>1, <1>6, FaultCounted DEF PostFails, DispatchFails, TypeOK, Records
  <2>2. Sent(k)' <= Budget(mem.retries + 1) /\ Sent(k)' <= faults'.count
    BY <1>1, <1>3, <2>1
  <2>3. HandCost(k)' /\ TriesInv'
    BY <2>1, <2>2 DEF HandCost, TriesInv, Paid, Budget
  <2> QED BY <1>1, <1>2, <2>1, <2>3, HandCosts
<1> QED BY <1>4, <1>5, <1>6

(* A command, with or without effect, and what the loop then has in hand. *)
LEMMA CommandCosts ==
    ASSUME IInv, TypeOK', CostsInv, faults'.count \in {faults.count, faults.count + 1},
           UNCHANGED <<enq, owner>>, TriesInv', NEW k \in Jobs, k = held, loop \in Writes,
           Command(loop, k) \/ UNCHANGED <<queueVars, db>>,
           held' \in {k, NoJob}, HandCost(k)'
    PROVE  CostsInv'
<1>1. TypeOK /\ IsInjective(ready) /\ HeldInv(k)
  BY DEF IInv, JobsInv, JobInv, HandInv, InHand
<1>2. PICK p, m : p = loop /\ m = mem
  OBVIOUS
<1>3. p \in QueuePoints => ~Waiting(k)
  BY <1>1, <1>2 DEF HeldInv, QueuePoints
<1>4. /\ \A i \in Jobs \ {k} : saved'[i] = saved[i] /\ (Waiting(i)' <=> Waiting(i))
      /\ saved'[k] = saved[k] \/ p \in SavePoints
      /\ p \notin QueuePoints => UNCHANGED <<ready, delayed>>
  BY <1>1, <1>2, <1>3, CommandEffect DEF Waiting
<1>5. ASSUME NEW j \in Jobs \ {k} PROVE CostInv(j)'
  <2>1. ~InHand(j)' /\ CostInv(j)
    BY JobsAssumption DEF InHand, CostsInv
  <2> QED BY <1>1, <1>4, <2>1, CostStill
<1>6. CostInv(k)'
  <2>1. CostInv(k)
    BY DEF CostsInv
  <2>2. PICK r : r = saved[k].retries
    OBVIOUS
  <2>3. CASE p \in QueuePoints
    <3>1. saved'[k] = saved[k] /\ saved[k] = mem
      BY <1>1, <1>2, <1>4, <2>3 DEF HeldInv, QueuePoints, SavePoints, Written
    <3>2. Paid(k, r)
      BY <1>2, <2>1, <2>2, <2>3, <3>1 DEF CostInv, HandCost, InHand, QueuePoints, Unsent
    <3>3. Paid(k, r)'
      BY <1>1, <2>1, <3>2, PaidKept
    <3> QED BY <1>1, <2>1, <2>2, <3>1, <3>3, CostFrame
  <2>4. CASE p \notin QueuePoints
    <3>1. Waiting(k)' => Waiting(k) /\ saved'[k] = saved[k]
      BY <1>1, <1>2, <1>4, <2>4 DEF HeldInv, Waiting, InReady, SavePoints
    <3>2. Waiting(k)' => Paid(k, r)'
      BY <1>1, <2>1, <2>2, <3>1, PaidKept DEF CostInv
    <3> QED BY <1>1, <2>1, <2>2, <3>1, <3>2, CostFrame
  <2> QED BY <2>3, <2>4
<1> QED BY <1>5, <1>6 DEF CostsInv

LEMMA LoopCommandCosts ==
    ASSUME IInv, TypeOK', CostsInv, LoopCommand
    PROVE  CostsInv'
<1>1. /\ TypeOK /\ loop \in Writes /\ loop' = NextPoint /\ mem' = NextRecord
      /\ UNCHANGED <<enq, owner, tries, faults>> /\ Command(loop, held)
      /\ held' = IF NextPoint \in {"top", "sync"} THEN NoJob ELSE held
  BY DEF IInv, LoopCommand, workerVars
<1>2. PICK k \in Jobs : k = held
  BY <1>1, InTheHand DEF Writes, StorePoints, SavePoints, QueuePoints
<1>3. /\ NextPoint \in {"post"} \cup (Unsent \ {"select"}) => loop \in Unsent
      /\ NextPoint \in {"clear", "clearSave", "clearStore"} =>
           loop \in {"clear", "clearSave", "clearStore"}
      /\ NextPoint # "posted"
  BY <1>1
     DEF NextPoint, FailurePoint, Writes, StorePoints, SavePoints, QueuePoints, Unsent
<1>4. NextPoint \notin {"top", "sync"} => mem'.retries = mem.retries
  BY <1>1 DEF NextRecord, TypeOK, Records
<1>5. tries = 0 /\ TriesInv'
  BY <1>1, <1>3, LimitsAssumption
     DEF CostsInv, TriesInv, Writes, StorePoints, SavePoints, QueuePoints
<1>6. HandCost(k)'
  <2>1. NextPoint # "select"
    BY DEF NextPoint, FailurePoint
  <2>2. Sent(k)' = Sent(k) /\ HandCost(k) /\ InHand(k)
    BY <1>1, <1>2 DEF CostsInv, CostInv, Sent, LocalJobsOf, InHand
  <2>3. CASE NextPoint \in {"top", "sync"}
    BY <1>1, <2>3, JobsAssumption DEF HandCost, InHand
  <2>4. CASE NextPoint \notin {"top", "sync"}
    <3>1. Budget(mem.retries) \in Nat
      BY <1>1, Budgets DEF TypeOK, Records
    <3> QED BY <1>1, <1>3, <1>4, <1>5, <2>1, <2>2, <2>4, <3>1 DEF HandCost, Paid, Budget
  <2> QED BY <2>3, <2>4
<1> QED BY <1>1, <1>2, <1>5, <1>6, CommandCosts

LEMMA RaisesCosts ==
    ASSUME IInv, TypeOK', CostsInv, LoopRaises
    PROVE  CostsInv'
<1>1. /\ TypeOK /\ UNCHANGED <<enq, owner>> /\ faults'.count = faults.count + 1 /\ tries' = 0
      /\ loop \in Writes \cup {"top", "release", "pop", "select"}
      /\ loop \notin {"post", "posted"} /\ tries = 0
  <2>1. TypeOK /\ UNCHANGED <<enq, owner>> /\ tries' = 0
    BY DEF IInv, LoopRaises, DispatchFails, Abandon, workerVars
  <2>2. loop \in Writes \cup {"top", "release", "pop", "select"}
    BY DEF LoopRaises
  <2>3. faults'.count = faults.count + 1
    BY <2>1, FaultCounted DEF LoopRaises
  <2>4. loop \notin {"post", "posted"}
    BY <2>2 DEF Writes, StorePoints, SavePoints, QueuePoints
  <2> QED BY <2>1, <2>2, <2>3, <2>4 DEF CostsInv, TriesInv
<1>2. CASE Abandon
  <2>1. held' = NoJob /\ loop' = "top" /\ TriesInv'
    BY <1>1, <1>2 DEF Abandon, TriesInv
  <2>2. CASE ReleaseDue \/ PopReady
    BY <1>1, <2>1, <2>2, TakeCosts
  <2>3. CASE UNCHANGED <<queueVars, db>>
    BY <1>1, <2>1, <2>3, QuietCosts DEF queueVars
  <2>4. CASE Command(loop, held)
    <3>1. loop \in Writes
      BY <2>4 DEF Command, Writes, QueuePoints
    <3>2. PICK k \in Jobs : k = held
      BY <3>1, InTheHand DEF Writes, StorePoints, SavePoints, QueuePoints
    <3>3. HandCost(k)'
      BY <2>1, JobsAssumption DEF HandCost, InHand
    <3> QED BY <1>1, <2>1, <2>4, <3>1, <3>2, <3>3, CommandCosts
  <2> QED BY <2>2, <2>3, <2>4 DEF LoopRaises
<1>3. CASE loop \in {"clear", "clearSave", "clearStore"} /\ DispatchFails
  <2>1. /\ loop \in Writes /\ loop \notin {"release", "pop"} /\ held' = held
        /\ loop' = "drop" /\ mem'.retries = mem.retries + 1
    BY <1>1, <1>3 DEF DispatchFails, Writes, SavePoints, StorePoints, TypeOK, Records
  <2>2. PICK k \in Jobs : k = held
    BY <2>1, InTheHand DEF Writes, StorePoints, SavePoints, QueuePoints
  <2>3. Command(loop, k) \/ UNCHANGED <<queueVars, db>>
    BY <2>1, <2>2 DEF LoopRaises
  <2>4. /\ CostInv(k) /\ InHand(k) /\ Sent(k)' = Sent(k) /\ Sent(k) \in Nat
        /\ faults.count \in Nat /\ mem.retries \in Nat
    BY <1>1, <2>2, SentTyped DEF CostsInv, InHand, Sent, LocalJobsOf
  <2>5. Sent(k) <= Budget(mem.retries + 1) /\ Sent(k) <= faults'.count
    BY <1>1, <1>3, <2>4, Budgets DEF CostInv, HandCost
  <2>6. HandCost(k)' /\ TriesInv'
    BY <1>1, <2>1, <2>4, <2>5 DEF HandCost, TriesInv, Paid, Budget
  <2> QED BY <1>1, <2>1, <2>2, <2>3, <2>6, CommandCosts
<1> QED BY <1>2, <1>3 DEF LoopRaises

LEMMA CostsStep ==
    ASSUME IInv, IInv', CostsInv, [Next]_vars
    PROVE  CostsInv'
<1>1. TypeOK /\ TypeOK' /\ faults'.count \in {faults.count, faults.count + 1}
  BY FaultsGrow DEF IInv
<1>2. CASE LoopStep
  <2>1. CASE LoopSync \/ LoopSkip \/ LoopSynced \/ LoopIdle
    <3>1. /\ UNCHANGED <<saved, ready, delayed, owner, tries, enq>>
          /\ loop \notin {"post", "posted"} /\ loop' \notin {"post", "posted"} /\ held' = NoJob
      BY <2>1
         DEF LoopSync, LoopSkip, LoopSynced, LoopIdle, SyncUnchanged, queueVars, loopVars,
             workerVars, IInv, LoopInv
    <3> QED BY <1>1, <3>1, QuietCosts
  <2>2. CASE LoopRelease /\ ~ReleaseDue
    <3>1. /\ UNCHANGED <<saved, ready, delayed, owner, tries, enq>>
          /\ loop = "release" /\ loop' = "pop" /\ held' = NoJob
      BY <2>2 DEF LoopRelease, queueVars, loopVars, workerVars, IInv, LoopInv
    <3> QED BY <1>1, <3>1, QuietCosts
  <2>3. CASE LoopRelease /\ ReleaseDue
    <3>1. UNCHANGED <<enq, owner>> /\ tries' = 0 /\ loop' = "pop" /\ held' = NoJob
      BY <2>3 DEF LoopRelease, loopVars, workerVars, IInv, LoopInv, CostsInv, TriesInv
    <3> QED BY <1>1, <2>3, <3>1, TakeCosts
  <2>4. CASE LoopPop
    <3>1. /\ UNCHANGED <<enq, owner>> /\ tries' = 0 /\ PopReady
          /\ held' = Head(ready) /\ mem' = saved[held'] /\ loop' = "select"
      BY <2>4 DEF LoopPop, workerVars, CostsInv, TriesInv
    <3> QED BY <1>1, <3>1, TakeCosts
  <2>5. CASE LoopSelect \/ Post \/ PostAccepted \/ LoopCommand
    BY <1>1, <2>5, SelectCosts, PostCosts, ReplyCosts, LoopCommandCosts
  <2>6. ASSUME NEW j \in Jobs, SyncJob(j) PROVE CostsInv'
    <3>1. /\ UNCHANGED <<saved, ready, delayed, owner, tries, enq>> /\ loop = "sync"
          /\ UNCHANGED <<loop, held, mem>> \/ loop' = "syncSave"
      BY <2>6 DEF SyncJob, TimeoutStale, SyncTo, SyncUnchanged, queueVars, workerVars
    <3> QED BY <1>1, <3>1, QuietCosts
  <2> QED BY <1>2, <2>1, <2>2, <2>3, <2>4, <2>5, <2>6 DEF LoopStep
<1>3. CASE LoopRaises \/ PostAgain \/ PostFails
  BY <1>1, <1>3, RaisesCosts, ReplyCosts
<1>4. ASSUME NEW j \in Jobs, JobNext(j) PROVE CostsInv'
  <2>1. CASE SyncMisses(j)
    <3>1. /\ UNCHANGED <<saved, ready, delayed, owner, tries, enq>> /\ loop = "sync"
          /\ UNCHANGED <<loop, held, mem>> \/ loop' = "syncSave"
      BY <2>1 DEF SyncMisses, TimeoutStale, SyncTo, SyncUnchanged, queueVars, workerVars
    <3> QED BY <1>1, <3>1, QuietCosts
  <2>2. CASE BecomesDue(j) \/ Ages(j)
    <3>1. UNCHANGED <<saved, ready, delayed, owner, tries, enq, loop, held, mem>>
      BY <2>2 DEF BecomesDue, Ages, queueVars, loopVars, workerVars
    <3> QED BY <1>1, <3>1, QuietCosts
  <2> QED BY <1>1, <1>4, <2>1, <2>2, EnqueueCosts DEF JobNext
<1>5. CASE \/ CleanupRead \/ CleanupDelete \/ UNCHANGED vars
           \/ \E l \in LocalIds : WorkerStep(l)
           \/ \E w \in Workers : Administer(w)
  <2>1. UNCHANGED <<saved, ready, delayed, owner, tries, enq, loop, held, mem>>
    BY <1>5
       DEF CleanupRead, CleanupDelete, HDelActive, vars, WorkerStep, Administer, queueVars,
           loopVars, workerVars
  <2> QED BY <1>1, <2>1, QuietCosts
<1>6. CASE Crash
  <2>1. /\ UNCHANGED <<saved, ready, delayed, owner>> /\ tries' = 0
        /\ held' = NoJob /\ loop' = "top"
        /\ \A j \in Jobs : enq'[j] \in {"new", "saved"} => enq[j] \in {"new", "saved"}
    BY <1>6 DEF Crash, Abandon, queueVars, workerVars
  <2>2. TriesInv'
    BY <2>1 DEF TriesInv
  <2>3. ASSUME NEW j \in Jobs PROVE CostInv(j)'
    <3>1. /\ CostInv(j) /\ (Waiting(j)' <=> Waiting(j)) /\ saved'[j] = saved[j] /\ ~InHand(j)'
          /\ enq'[j] \in {"new", "saved"} => enq[j] \in {"new", "saved"}
      BY <2>1, JobsAssumption DEF CostsInv, Waiting, InReady, InHand
    <3> QED BY <1>1, <2>1, <3>1, CostStill
  <2> QED BY <2>2, <2>3 DEF CostsInv
<1> QED BY <1>2, <1>3, <1>4, <1>5, <1>6 DEF Next

(* However replies get lost and dispatches are repeated, a job costs at    *)
(* most max_retries + 1 dispatches of _retries requests each, and every    *)
(* local job beyond the first one costs a disturbance.                     *)
THEOREM DispatchesBoundedHolds == Spec => []DispatchesBounded
<1>1. Init => CostsInv
  <2> SUFFICES ASSUME Init PROVE CostsInv
    OBVIOUS
  <2>1. ASSUME NEW j \in Jobs PROVE LocalJobsOf(j) = {} /\ ~Waiting(j) /\ ~InHand(j)
    BY JobsAssumption DEF Init, LocalJobsOf, Waiting, InReady, ToSet, InHand
  <2>2. Budget(MaxRetries + 1) \in Nat
    BY Budgets, LimitsAssumption
  <2>3. ASSUME NEW j \in Jobs PROVE CostInv(j)
    <3>1. IsFiniteSet(LocalJobsOf(j)) /\ Sent(j) = 0
      BY <2>1, FS_EmptySet DEF Sent
    <3>2. faults.count = 0
      BY DEF Init
    <3> QED BY <2>1, <2>2, <3>1, <3>2 DEF CostInv, HandCost
  <2>4. TriesInv
    BY DEF Init, TriesInv
  <2> QED BY <2>3, <2>4 DEF CostsInv
<1>2. IInv /\ IInv' /\ CostsInv /\ [Next]_vars => CostsInv'
  BY CostsStep
<1>3. CostsInv => DispatchesBounded
  BY DEF CostsInv, CostInv, DispatchesBounded, Sent, Budget
<1> QED BY <1>1, <1>2, <1>3, Invariance, PTL DEF Spec
===========================================================================
