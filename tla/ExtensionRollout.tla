------------------------- MODULE ExtensionRollout -------------------------
(***************************************************************************)
(* The fleet extension: an administrator uploads a package to the          *)
(* orchestrator (orchestrator/api/main.py), which records it in Redis as   *)
(* the current one and has every worker install it.  A worker downloads    *)
(* the package, replaces the directory that Chrome loads the extension     *)
(* from, with a backup beside it, and restarts the accounts that had a     *)
(* browser (worker/accounts/manager.py).                                   *)
(*                                                                         *)
(* The list of running accounts and the replacement are one section        *)
(* without an await: it blocks the event loop of the worker, so only       *)
(* Chrome, a crash or an error of the disk comes between its steps.        *)
(***************************************************************************)
EXTENDS Naturals, FiniteSets

CONSTANTS
    Calls,      \* POST /extensions/upload or /extensions/apply-current, each once;
                \* the package of an upload bears the name of its call
    Workers,    \* the workers that are enabled
    Accounts,   \* the accounts of a worker, all with fleet_extension_enabled
    None,       \* no package, and Python's None
    Broken,     \* an incomplete copy of a package
    Pending,    \* Chrome has not read the directory yet
    Faults,     \* the kinds of disturbance that may occur
    MaxFaults   \* bound: how many of them occur in a behaviour

ASSUME NamesAssumption ==
    /\ {None, Broken, Pending} \cap Calls = {}
    /\ None \notin Accounts
    /\ None # Broken /\ None # Pending /\ Broken # Pending
ASSUME FaultsAssumption ==
    /\ Faults \subseteq {"store", "redis", "net", "disk", "crash", "orchestrator", "browser"}
    /\ MaxFaults \in Nat

VARIABLES
    \* The orchestrator.
    current,    \* the Redis key :extension:current
    at,         \* where a call is suspended
    pack,       \* the package that a call installs
    apply,      \* payload.apply_to_workers
    restart,    \* payload.restart_accounts
    reply,      \* what a call has of a worker's answer
    \* The workers.
    step,       \* what a worker does for a call
    left,       \* the running accounts that it still has to restart
    on,         \* the one that it restarts
    dir,        \* the content of fleet-extensions/current
    backup,     \* the content of current.backup
    browser,    \* the Chrome of an account: "down", "spawning" (browser_pid is
                \* not known yet) or "up"
    loaded,     \* the package that this Chrome has loaded
    faults,     \* disturbances so far
    \* Auxiliary, never read by a step.
    recorded,   \* the packages that the Redis key has held
    last,       \* the last call for which a worker began to replace its package
    missed,     \* the accounts that were spawning at that moment and still run
    unsecured   \* workers that began to replace what is not a whole package

fleet == <<current, at, pack, apply, restart, recorded>>
work == <<step, left, on>>
disk == <<dir, backup, last, unsecured>>
chrome == <<browser, loaded, missed>>
vars == <<fleet, reply, work, disk, chrome, faults>>

Swaps == {"backup", "clear", "copy", "drop"}   \* the event loop is blocked
Restarts == {"restart", "start", "launch"}

Fault(kind) ==
    /\ kind \in Faults
    /\ faults < MaxFaults
    /\ faults' = faults + 1

(* Mutant of Free: the files are copied in a thread, without the lock. *)
FreeAlways(w) == TRUE

(* The event loop of w is free for other coroutines. *)
Free(w) == \A c \in Calls : step[c][w] \notin Swaps

-----------------------------------------------------------------------------
(* The orchestrator.  gather calls install_extension_on_worker per worker. *)

Install(c, targets) ==
    /\ at' = [at EXCEPT ![c] = "gather"]
    /\ reply' = [reply EXCEPT ![c] = [w \in Workers |-> IF w \in targets THEN "awaited" ELSE "none"]]
    /\ step' = [step EXCEPT ![c] = [w \in Workers |-> IF w \in targets THEN "fetch" ELSE "none"]]

Upload(c, toWorkers, restarts) ==
    /\ at[c] = "idle"
    /\ at' = [at EXCEPT ![c] = "store"]
    /\ pack' = [pack EXCEPT ![c] = c]
    /\ apply' = [apply EXCEPT ![c] = toWorkers]
    /\ restart' = [restart EXCEPT ![c] = restarts]
    /\ UNCHANGED <<current, recorded, reply, work, disk, chrome, faults>>

(* R2ImageStore.store_bytes. *)
Stored(c) ==
    /\ at[c] = "store"
    /\ at' = [at EXCEPT ![c] = "set"]
    /\ UNCHANGED <<current, pack, apply, restart, recorded, reply, work, disk, chrome, faults>>

SetCurrent(c) ==
    /\ current' = pack[c]
    /\ recorded' = recorded \cup {pack[c]}

Recorded(c) ==
    /\ at[c] = "set"
    /\ SetCurrent(c)
    /\ IF apply[c] THEN Install(c, Workers)
       ELSE at' = [at EXCEPT ![c] = "answered"] /\ UNCHANGED <<reply, step>>
    /\ UNCHANGED <<pack, apply, restart, left, on, disk, chrome, faults>>

(* Storing the package, or the SET that may have taken effect, raises. *)
UploadRaises(c) ==
    /\ \/ at[c] = "store" /\ Fault("store") /\ UNCHANGED <<current, recorded>>
       \/ at[c] = "set" /\ Fault("redis")
          /\ (SetCurrent(c) \/ UNCHANGED <<current, recorded>>)
    /\ at' = [at EXCEPT ![c] = "gone"]
    /\ UNCHANGED <<pack, apply, restart, reply, work, disk, chrome>>

(* The key is read, and the package installed on one worker or on all. *)
ApplyCurrent(c, targets, restarts) ==
    /\ at[c] = "idle"
    /\ current # None
    /\ pack' = [pack EXCEPT ![c] = current]
    /\ apply' = [apply EXCEPT ![c] = TRUE]
    /\ restart' = [restart EXCEPT ![c] = restarts]
    /\ Install(c, targets)
    /\ UNCHANGED <<current, recorded, left, on, disk, chrome, faults>>

Answered(c) ==
    /\ at[c] = "gather"
    /\ \A w \in Workers : reply[c][w] # "awaited"
    /\ at' = [at EXCEPT ![c] = "answered"]
    /\ UNCHANGED <<current, pack, apply, restart, recorded, reply, work, disk, chrome, faults>>

(* The request, its answer, or the patience of 90 s is lost: the worker goes *)
(* on with what it has begun.                                                *)
RequestFails(c, w) ==
    /\ reply[c][w] = "awaited"
    /\ Fault("net")
    /\ reply' = [reply EXCEPT ![c][w] = "failed"]
    /\ UNCHANGED <<fleet, work, disk, chrome>>

(* The orchestrator restarts; what the workers have begun goes on. *)
OrchestratorCrashes ==
    /\ Fault("orchestrator")
    /\ at' = [c \in Calls |-> IF at[c] = "idle" THEN "idle" ELSE "gone"]
    /\ reply' = [c \in Calls |-> [w \in Workers |->
                    IF reply[c][w] = "awaited" THEN "failed" ELSE reply[c][w]]]
    /\ UNCHANGED <<current, pack, apply, restart, recorded, work, disk, chrome>>

-----------------------------------------------------------------------------
(* install_extension_package: the worker's part. *)

Reply(c, w, answer) ==
    reply' = IF reply[c][w] = "awaited" THEN [reply EXCEPT ![c][w] = answer] ELSE reply

(* The call has nothing more to do at w. *)
Ends(c, w, answer) ==
    /\ step' = [step EXCEPT ![c][w] = "ended"]
    /\ left' = [left EXCEPT ![c][w] = {}]
    /\ on' = [on EXCEPT ![c][w] = None]
    /\ Reply(c, w, answer)

GoesOn(c, w, next) ==
    /\ step' = [step EXCEPT ![c][w] = next]
    /\ UNCHANGED <<left, on, reply>>

(* Downloaded and unpacked: running_accounts is taken, an old backup is     *)
(* removed, and a directory that is not empty is to be copied.              *)
Fetched(c, w) ==
    /\ step[c][w] = "fetch" /\ Free(w)
    /\ step' = [step EXCEPT ![c][w] = IF dir[w] = None THEN "copy" ELSE "backup"]
    /\ left' = [left EXCEPT ![c][w] =
                    IF restart[c] THEN {a \in Accounts : browser[w][a] = "up"} ELSE {}]
    /\ backup' = [backup EXCEPT ![w] = IF dir[w] = None THEN None ELSE Broken]
    /\ dir' = [dir EXCEPT ![w] = IF @ = None THEN Broken ELSE @]
    /\ last' = [last EXCEPT ![w] = c]
    /\ missed' = [missed EXCEPT ![w] = {a \in Accounts : browser[w][a] = "spawning"}]
    /\ unsecured' = IF dir[w] \in Calls THEN unsecured ELSE unsecured \cup {w}
    /\ UNCHANGED <<fleet, reply, on, browser, loaded, faults>>

FetchRaises(c, w) ==
    /\ step[c][w] = "fetch" /\ Free(w)
    /\ Fault("net")
    /\ Ends(c, w, "failed")
    /\ UNCHANGED <<fleet, disk, chrome>>

(* Mutant of BackedUp: the directory is cleared before the copy is complete. *)
BackedUpLate(c, w) ==
    /\ step[c][w] = "backup"
    /\ dir' = [dir EXCEPT ![w] = Broken]
    /\ GoesOn(c, w, "copy")
    /\ UNCHANGED <<fleet, backup, last, unsecured, chrome, faults>>

BackedUp(c, w) ==
    /\ step[c][w] = "backup"
    /\ backup' = [backup EXCEPT ![w] = dir[w]]
    /\ GoesOn(c, w, "clear")
    /\ UNCHANGED <<fleet, dir, last, unsecured, chrome, faults>>

Clears(c, w) ==
    /\ step[c][w] = "clear"
    /\ dir' = [dir EXCEPT ![w] = Broken]
    /\ GoesOn(c, w, "copy")
    /\ UNCHANGED <<fleet, backup, last, unsecured, chrome, faults>>

Copied(c, w) ==
    /\ step[c][w] = "copy"
    /\ dir' = [dir EXCEPT ![w] = pack[c]]
    /\ unsecured' = unsecured \ {w}
    /\ GoesOn(c, w, "drop")
    /\ UNCHANGED <<fleet, backup, last, chrome, faults>>

Dropped(c, w) ==
    /\ step[c][w] = "drop"
    /\ backup' = [backup EXCEPT ![w] = None]
    /\ GoesOn(c, w, "restart")
    /\ UNCHANGED <<fleet, dir, last, unsecured, chrome, faults>>

(* copytree, the clearing or the copying raises; rmtree ignores errors. *)
DiskFails(c, w) ==
    /\ step[c][w] \in {"backup", "clear", "copy"}
    /\ Fault("disk")
    /\ dir' = IF step[c][w] = "backup" THEN dir ELSE [dir EXCEPT ![w] = Broken]
    /\ Ends(c, w, "failed")
    /\ UNCHANGED <<fleet, backup, last, unsecured, chrome>>

-----------------------------------------------------------------------------
(* The browsers, and restart_account for those that ran. *)

(* The directory has a manifest, so Chrome is told to load it; the manifest *)
(* of an incomplete copy may be missing.                                    *)
Spawn(w, a) ==
    /\ browser' = [browser EXCEPT ![w][a] = "spawning"]
    /\ \E found \in CASE dir[w] = None -> {None} [] dir[w] = Broken -> {None, Pending}
                      [] OTHER -> {Pending} :
           loaded' = [loaded EXCEPT ![w][a] = found]
    /\ missed' = [missed EXCEPT ![w] = @ \ {a}]

Down(w, a) ==
    /\ browser' = [browser EXCEPT ![w][a] = "down"]
    /\ loaded' = [loaded EXCEPT ![w][a] = None]
    /\ missed' = [missed EXCEPT ![w] = @ \ {a}]

(* Mutant of StopsBrowser: ensure_account_running in place of a restart. *)
StopsBrowserNever(w, a) == UNCHANGED chrome

(* terminate ends the process that the runtime refers to: while another     *)
(* coroutine spawns Chrome there is none.                                   *)
StopsBrowser(w, a) == IF browser[w][a] = "up" THEN Down(w, a) ELSE UNCHANGED chrome

Restart(c, w, a) ==
    /\ step[c][w] = "restart" /\ Free(w)
    /\ a \in left[c][w]
    /\ StopsBrowser(w, a)
    /\ step' = [step EXCEPT ![c][w] = "start"]
    /\ left' = [left EXCEPT ![c][w] = @ \ {a}]
    /\ on' = [on EXCEPT ![c][w] = a]
    /\ UNCHANGED <<fleet, reply, disk, faults>>

(* Another coroutine may have started the account meanwhile; a second Chrome *)
(* on the profile of one that is being spawned hands over to it.             *)
StartsAgain(c, w) ==
    /\ step[c][w] = "start" /\ Free(w)
    /\ IF browser[w][on[c][w]] = "down" THEN Spawn(w, on[c][w]) ELSE UNCHANGED chrome
    /\ GoesOn(c, w, "launch")
    /\ UNCHANGED <<fleet, disk, faults>>

(* restart_account returns, or raises and the account is listed as failed. *)
Restarted(c, w) ==
    /\ step[c][w] = "launch" /\ Free(w)
    /\ browser[w][on[c][w]] # "spawning"
    /\ step' = [step EXCEPT ![c][w] = "restart"]
    /\ on' = [on EXCEPT ![c][w] = None]
    /\ UNCHANGED <<fleet, reply, left, disk, chrome, faults>>

Installed(c, w) ==
    /\ step[c][w] = "restart" /\ Free(w)
    /\ left[c][w] = {}
    /\ Ends(c, w, "ok")
    /\ UNCHANGED <<fleet, disk, chrome, faults>>

(* A job or an administrator starts or stops the browser of an account. *)
Starts(w, a) ==
    /\ browser[w][a] = "down" /\ Free(w)
    /\ Spawn(w, a)
    /\ UNCHANGED <<fleet, reply, work, disk, faults>>

Stops(w, a) ==
    /\ browser[w][a] = "up" /\ Free(w)
    /\ Down(w, a)
    /\ UNCHANGED <<fleet, reply, work, disk, faults>>

BecomesUp(w, a) ==
    /\ browser[w][a] = "spawning" /\ Free(w)
    /\ browser' = [browser EXCEPT ![w][a] = "up"]
    /\ UNCHANGED <<fleet, reply, work, disk, loaded, missed, faults>>

(* Chrome reads the directory at any time after its start. *)
Loads(w, a) ==
    /\ loaded[w][a] = Pending
    /\ loaded' = [loaded EXCEPT ![w][a] = dir[w]]
    /\ UNCHANGED <<fleet, reply, work, disk, browser, missed, faults>>

Dies(w, a) ==
    /\ browser[w][a] # "down"
    /\ Fault("browser")
    /\ Down(w, a)
    /\ UNCHANGED <<fleet, reply, work, disk>>

(* The worker restarts with what its disk holds. *)
WorkerCrashes(w) ==
    /\ Fault("crash")
    /\ step' = [c \in Calls |-> [step[c] EXCEPT ![w] = IF @ = "none" THEN @ ELSE "ended"]]
    /\ left' = [c \in Calls |-> [left[c] EXCEPT ![w] = {}]]
    /\ on' = [c \in Calls |-> [on[c] EXCEPT ![w] = None]]
    /\ reply' = [c \in Calls |-> [reply[c] EXCEPT ![w] = IF @ = "awaited" THEN "failed" ELSE @]]
    /\ browser' = [browser EXCEPT ![w] = [a \in Accounts |-> "down"]]
    /\ loaded' = [loaded EXCEPT ![w] = [a \in Accounts |-> None]]
    /\ missed' = [missed EXCEPT ![w] = {}]
    /\ UNCHANGED <<fleet, disk>>

-----------------------------------------------------------------------------
PerWorker(none) == [w \in Workers |-> none]
PerCall(none) == [c \in Calls |-> PerWorker(none)]

Init ==
    /\ current = None /\ recorded = {}
    /\ at = [c \in Calls |-> "idle"]
    /\ pack = [c \in Calls |-> None]
    /\ apply = [c \in Calls |-> FALSE] /\ restart = [c \in Calls |-> FALSE]
    /\ reply = PerCall("none") /\ step = PerCall("none")
    /\ left = PerCall({}) /\ on = PerCall(None)
    /\ dir = PerWorker(None) /\ backup = PerWorker(None) /\ last = PerWorker(None)
    /\ browser = PerWorker([a \in Accounts |-> "down"])
    /\ loaded = PerWorker([a \in Accounts |-> None])
    /\ missed = PerWorker({}) /\ unsecured = {}
    /\ faults = 0

OrchestratorStep(c) ==
    \/ \E toWorkers, restarts \in BOOLEAN : Upload(c, toWorkers, restarts)
    \/ \E targets \in {Workers} \cup {{w} : w \in Workers}, restarts \in BOOLEAN :
           ApplyCurrent(c, targets, restarts)
    \/ Stored(c) \/ Recorded(c) \/ UploadRaises(c) \/ Answered(c)

InstallStep(c, w) ==
    \/ RequestFails(c, w)
    \/ Fetched(c, w) \/ FetchRaises(c, w)
    \/ BackedUp(c, w) \/ Clears(c, w) \/ Copied(c, w) \/ Dropped(c, w) \/ DiskFails(c, w)
    \/ \E a \in Accounts : Restart(c, w, a)
    \/ StartsAgain(c, w) \/ Restarted(c, w) \/ Installed(c, w)

BrowserStep(w, a) == Starts(w, a) \/ Stops(w, a) \/ BecomesUp(w, a) \/ Loads(w, a) \/ Dies(w, a)

Next ==
    \/ \E c \in Calls : OrchestratorStep(c)
    \/ \E c \in Calls, w \in Workers : InstallStep(c, w)
    \/ \E w \in Workers, a \in Accounts : BrowserStep(w, a)
    \/ \E w \in Workers : WorkerCrashes(w)
    \/ OrchestratorCrashes

Spec == Init /\ [][Next]_vars

-----------------------------------------------------------------------------
Copies == Calls \cup {None, Broken}

(* TypeOK: the variables keep their types.  One call at a time replaces the *)
(* package of a worker, and an account is restarted by a call only between  *)
(* its stop and the end of its start.                                       *)
TypeOK ==
    /\ current \in Calls \cup {None} /\ recorded \subseteq Calls
    /\ at \in [Calls -> {"idle", "store", "set", "gather", "answered", "gone"}]
    /\ pack \in [Calls -> Calls \cup {None}]
    /\ apply \in [Calls -> BOOLEAN] /\ restart \in [Calls -> BOOLEAN]
    /\ reply \in [Calls -> [Workers -> {"none", "awaited", "ok", "failed"}]]
    /\ step \in [Calls -> [Workers -> {"none", "fetch", "ended"} \cup Swaps \cup Restarts]]
    /\ left \in [Calls -> [Workers -> SUBSET Accounts]]
    /\ on \in [Calls -> [Workers -> Accounts \cup {None}]]
    /\ dir \in [Workers -> Copies] /\ backup \in [Workers -> Copies]
    /\ last \in [Workers -> Calls \cup {None}]
    /\ browser \in [Workers -> [Accounts -> {"down", "spawning", "up"}]]
    /\ loaded \in [Workers -> [Accounts -> Copies \cup {Pending}]]
    /\ missed \in [Workers -> SUBSET Accounts] /\ unsecured \subseteq Workers
    /\ faults \in 0 .. MaxFaults
    /\ \A c, d \in Calls, w \in Workers :
           step[c][w] \in Swaps /\ step[d][w] \in Swaps => c = d
    /\ \A c \in Calls, w \in Workers : (on[c][w] = None) <=> (step[c][w] \notin {"start", "launch"})

(* RecordedFirst: no disk and no Chrome of a worker holds a package before  *)
(* GET /extensions/current has shown it, whatever fails between the SET and *)
(* the installs (orchestrator/api/main.py:442).                             *)
RecordedFirst ==
    /\ current \in recorded \cup {None}
    /\ \A w \in Workers :
           /\ {dir[w], backup[w]} \subseteq recorded \cup {None, Broken}
           /\ \A a \in Accounts : loaded[w][a] \in recorded \cup {None, Broken, Pending}

(* PackageSurvives: a worker that has installed a package has a whole one,  *)
(* in place or in the backup, at every moment of a replacement and after a  *)
(* crash or a full disk in the middle of it.  Excused is the replacement    *)
(* that follows an interrupted one: it deletes that one's backup to make    *)
(* another of the incomplete copy (worker/accounts/manager.py:257).         *)
PackageSurvives ==
    \A w \in Workers \ unsecured :
        dir[w] # None => dir[w] \in Calls \/ backup[w] \in Calls

(* OkIsInstalled: a worker that answered a call with success, and has begun *)
(* no other replacement since, holds the package of this call, and if the   *)
(* call restarts accounts every browser has loaded it or is about to,       *)
(* however starts, stops and restarts of another call interleave.  Excused  *)
(* are browsers that were being spawned when running_accounts was taken     *)
(* (worker/accounts/manager.py:252), which the code overlooks.              *)
Runs(w, a, p) == browser[w][a] = "down" \/ loaded[w][a] \in {p, Pending}
OkIsInstalled ==
    \A c \in Calls, w \in Workers : reply[c][w] = "ok" /\ last[w] = c =>
        /\ dir[w] = pack[c]
        /\ restart[c] => \A a \in Accounts \ missed[w] : Runs(w, a, pack[c])
===========================================================================
