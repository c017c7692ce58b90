-------------------------- MODULE WorkerRegistry --------------------------
(***************************************************************************)
(* The VPS workers the orchestrator knows: orchestrator/workers/registry.py *)
(* (the records in memory, changed under a lock), the rows of them in the  *)
(* store (orchestrator/db/store.py), the start of the process that brings  *)
(* both together with the configured seeds, and GET /health, which writes  *)
(* the status of every worker to the store as well.                        *)
(***************************************************************************)
EXTENDS Naturals

CONSTANTS
    Workers,    \* the ids of VPS workers
    Seeds,      \* those configured in YAML or by WORKER_BASE_URL
    Urls,       \* base URLs
    SeedUrl,    \* the one the seeds are configured with
    NoWorker, NoRecord, Unknown, \* "none" of each, and no answer yet
    Polls,      \* GET /health requests that may run at a time
    Mongo,      \* TRUE for MongoDB, FALSE for PostgreSQL
    Faults,     \* the kinds of disturbance that may occur
    MaxFaults   \* bound: how many of them occur in a behaviour

ASSUME SeedsAssumption == Seeds \subseteq Workers /\ NoWorker \notin Workers
ASSUME UrlsAssumption == SeedUrl \in Urls
ASSUME NamesAssumption ==
    NoRecord \notin [url : Urls, enabled : BOOLEAN] /\ NoRecord # Unknown
ASSUME FaultsAssumption == Mongo \in BOOLEAN /\ Faults \subseteq {"crash", "store"}

VARIABLES
    \* In the store.
    row,        \* the settings stored for a worker
    listed,     \* the workers that list_worker_records returns
    \* In the memory of the orchestrator.
    phase,      \* "down", "loading" the registry, or "up"
    known,      \* registry._workers
    call,       \* the worker whose POST or DELETE holds the lock
    polls,      \* per poll, the statuses it has read and not yet stored
    \* Auxiliary.
    asked,      \* what the last POST or DELETE that was answered asked for
    faults      \* disturbances so far

vars == <<row, listed, phase, known, call, polls, asked, faults>>

(* base_url and enabled; max_jobs is written wherever base_url is. *)
Records == [url : Urls, enabled : BOOLEAN]
SeedRecord == [url |-> SeedUrl, enabled |-> TRUE]
Statuses == Workers \X Urls

Fault(kind) ==
    /\ kind \in Faults
    /\ faults < MaxFaults
    /\ faults' = faults + 1

-----------------------------------------------------------------------------
(* OrchestratorStore, one operator per statement. *)

SaveRecord(w, record) ==
    /\ row' = [row EXCEPT ![w] = record]
    /\ listed' = listed \cup {w}

(* Mutant of DeleteRecord: the settings are cleared, the flag is not. *)
DeleteRecordKeepsFlag(w) ==
    /\ row' = [row EXCEPT ![w] = NoRecord]
    /\ UNCHANGED listed

DeleteRecord(w) ==
    /\ listed' = listed \ {w}
    /\ UNCHANGED row

(* Mutant of SaveStatus: the upsert registers the worker as well. *)
SaveStatusRegisters(w, url) ==
    /\ row' = [row EXCEPT ![w] = [url |-> url, enabled |-> TRUE]]
    /\ listed' = listed \cup {w}

(* The status contains base_url; in MongoDB it goes into the document that *)
(* also holds the record, in PostgreSQL into the table of metrics alone.   *)
SaveStatus(w, url) ==
    /\ row' = IF Mongo /\ row[w] # NoRecord THEN [row EXCEPT ![w].url = url] ELSE row
    /\ UNCHANGED listed

-----------------------------------------------------------------------------
(* WorkerRegistry.load, before the API serves requests. *)

(* Without stored workers the registry holds what its constructor put there. *)
Load ==
    /\ phase = "down"
    /\ phase' = "loading"
    /\ known' = [w \in Workers |->
                    IF w \in listed THEN row[w]
                    ELSE IF listed = {} /\ w \in Seeds THEN SeedRecord ELSE NoRecord]
    /\ UNCHANGED <<row, listed, call, polls, asked, faults>>

LoadSeed(w) ==
    /\ phase = "loading"
    /\ w \in Seeds /\ known[w] = NoRecord
    /\ known' = [known EXCEPT ![w] = SeedRecord]
    /\ SaveRecord(w, SeedRecord)
    /\ UNCHANGED <<phase, call, polls, asked, faults>>

Loaded ==
    /\ phase = "loading"
    /\ \A w \in Seeds : known[w] # NoRecord
    /\ phase' = "up"
    /\ UNCHANGED <<row, listed, known, call, polls, asked, faults>>

-----------------------------------------------------------------------------
(* POST /workers and DELETE /workers/{id}: the lock is taken, the memory is *)
(* changed, and the store is awaited.                                       *)

Upsert(w, record) ==
    /\ phase = "up" /\ call = NoWorker
    /\ known' = [known EXCEPT ![w] = record]
    /\ call' = w
    /\ asked' = [asked EXCEPT ![w] = Unknown]
    /\ UNCHANGED <<row, listed, phase, polls, faults>>

Delete(w) ==
    /\ phase = "up" /\ call = NoWorker
    /\ known[w] # NoRecord
    /\ known' = [known EXCEPT ![w] = NoRecord]
    /\ call' = w
    /\ asked' = [asked EXCEPT ![w] = Unknown]
    /\ UNCHANGED <<row, listed, phase, polls, faults>>

(* What the handler that holds the lock writes. *)
Persist ==
    \/ known[call] = NoRecord /\ DeleteRecord(call)
    \/ known[call] # NoRecord /\ SaveRecord(call, known[call])

CallEnds ==
    /\ call # NoWorker
    /\ Persist
    /\ asked' = [asked EXCEPT ![call] = known[call]]
    /\ call' = NoWorker
    /\ UNCHANGED <<phase, known, polls, faults>>

(* The statement raises, with or without effect; the memory stays changed. *)
CallRaises ==
    /\ Fault("store")
    /\ call # NoWorker
    /\ Persist \/ UNCHANGED <<row, listed>>
    /\ call' = NoWorker
    /\ UNCHANGED <<phase, known, polls, asked>>

-----------------------------------------------------------------------------
(* GET /health: refresh_all reads the records and asks every worker, which *)
(* takes as long as HTTP does; then the statuses are stored one by one.    *)

PollReads(p) ==
    /\ phase = "up" /\ polls[p] = {}
    /\ LET probed == {w \in Workers : known[w] # NoRecord /\ known[w].enabled}
       IN polls' = [polls EXCEPT ![p] = {<<w, known[w].url>> : w \in probed}]
    /\ polls'[p] # {}
    /\ UNCHANGED <<row, listed, phase, known, call, asked, faults>>

PollStores(p) ==
    /\ \E status \in polls[p] :
        /\ SaveStatus(status[1], status[2])
        /\ polls' = [polls EXCEPT ![p] = @ \ {status}]
    /\ UNCHANGED <<phase, known, call, asked, faults>>

PollRaises(p) ==
    /\ Fault("store")
    /\ polls[p] # {}
    /\ \/ \E status \in polls[p] : SaveStatus(status[1], status[2])
       \/ UNCHANGED <<row, listed>>
    /\ polls' = [polls EXCEPT ![p] = {}]
    /\ UNCHANGED <<phase, known, call, asked>>

(* Also what a failed statement during load leads to. *)
Crash ==
    /\ Fault("crash")
    /\ phase # "down"
    /\ phase' = "down"
    /\ known' = [w \in Workers |-> NoRecord]
    /\ call' = NoWorker
    /\ polls' = [p \in Polls |-> {}]
    /\ UNCHANGED <<row, listed, asked>>

Init ==
    /\ row = [w \in Workers |-> NoRecord]
    /\ listed = {}
    /\ phase = "down"
    /\ known = [w \in Workers |-> NoRecord]
    /\ call = NoWorker
    /\ polls = [p \in Polls |-> {}]
    /\ asked = [w \in Workers |-> Unknown]
    /\ faults = 0

Next ==
    \/ Load \/ Loaded \/ CallEnds \/ CallRaises \/ Crash
    \/ \E w \in Workers : LoadSeed(w) \/ Delete(w) \/ \E r \in Records : Upsert(w, r)
    \/ \E p \in Polls : PollReads(p) \/ PollStores(p) \/ PollRaises(p)

Spec == Init /\ [][Next]_vars

-----------------------------------------------------------------------------
(* Every variable has its type. *)
TypeOK ==
    /\ row \in [Workers -> Records \cup {NoRecord}]
    /\ listed \subseteq {w \in Workers : row[w] # NoRecord}
    /\ phase \in {"down", "loading", "up"}
    /\ known \in [Workers -> Records \cup {NoRecord}]
    /\ call \in Workers \cup {NoWorker}
    /\ polls \in [Polls -> SUBSET Statuses]
    /\ asked \in [Workers -> Records \cup {NoRecord, Unknown}]
    /\ faults \in Nat

(* A worker that was removed stays removed, through late statuses of it    *)
(* and restarts, unless it is one of the seeds of this configuration.      *)
RemovalsSurvive ==
    \A w \in Workers \ Seeds : asked[w] = NoRecord => w \notin listed /\ known[w] = NoRecord
==========================================================================
