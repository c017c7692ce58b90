------------------------- MODULE AccountLifecycle -------------------------
(***************************************************************************)
(* The life of one account of a worker: worker/accounts/manager.py with    *)
(* the classes it drives, AccountRuntime, VncManager, ChromeManager,       *)
(* RecoveryEngine and AccountStore.                                        *)
(*                                                                         *)
(* Requests and jobs are coroutines of one event loop.  None of them keeps *)
(* a lock while it starts, stops or recovers the browser, so at each await *)
(* another one may work on the same account.  todo[c] is what a coroutine  *)
(* still has to do; if its head is an await, the coroutine is suspended    *)
(* there, and otherwise it is the one that runs.                           *)
(***************************************************************************)
EXTENDS Naturals, Sequences, FiniteSets

CONSTANTS
    Calls,       \* the coroutines: API requests and jobs
    Objects,     \* the Account objects, each with its AccountRuntime, that may
                 \* be registered under the id one after the other
    Pids,        \* bound: the process ids, numbers
    None,        \* Python's None
    Desktop,     \* the fields that VncManager.start fills, in its order
    Attempts,    \* settings.recovery.max_attempts
    Operations,  \* what the calls of an instance do
    MaxBegun,    \* bound: how many calls begin
    MaxFailures  \* bound: how many awaits raise, processes die and workers crash

ASSUME NoneAssumption == Pids \subseteq Nat /\ None \notin Objects \cup Nat
ASSUME DesktopAssumption ==
    /\ Desktop \in Seq({"xvfb", "fluxbox", "x11vnc", "novnc"})
    /\ \A i, j \in DOMAIN Desktop : Desktop[i] = Desktop[j] => i = j
ASSUME OperationsAssumption ==
    Operations \subseteq {"create", "delete", "start", "stop", "restart", "recover",
                          "proxy", "settings", "install", "job"}
ASSUME BoundsAssumption ==
    Attempts \in Nat \ {0} /\ MaxBegun \in Nat /\ MaxFailures \in Nat

VARIABLES
    current,     \* the object registered under the id (_accounts, _runtimes), or None
    file,        \* the object whose data the account's YAML file holds, or None
    status,      \* account.status
    pid,         \* account.browser_pid
    jobs,        \* account.jobs_running
    context,     \* runtime.playwright_context: the Chrome that it is connected to
    field,       \* the processes that the fields of the runtime refer to
    proc,        \* what runs as a process and the object it was spawned for
    serving,     \* the FlowKit bridge has a server for the id
    todo,        \* what a call still has to do
    obj,         \* the object that a call has looked up
    begun, failures,
    \* Auxiliary, never read by a step.
    overlapped,  \* objects whose runtime a launch shared with a launch or an ending
    late,        \* objects removed while a call was at work on them
    stranded,    \* jobs that ended by an exception nobody handles
    excused      \* jobs whose account was removed, or whose failure handler met a failure,
                 \* the ending of its browser by another call, or the bridge that a call
                 \* on an earlier account of the id had started

accountVars == <<current, file, status, pid, jobs>>
runtimeVars == <<context, field, proc, serving>>
callVars == <<todo, obj, begun, failures>>
history == <<overlapped, late, stranded, excused>>
vars == <<accountVars, runtimeVars, callVars, history>>

Fields == {Desktop[i] : i \in DOMAIN Desktop} \cup {"chrome"}
Statuses == {"READY", "BUSY", "STOPPED", "BROKEN_SESSION"}
Awaits == {"assigned", "close", "end", "drain", "serve", "spawn", "connect",
           "open", "pause", "visit", "work", "generate", "others"}

Do(name) == <<name, None>>
Op(c) == Head(todo[c])[1]
Arg(c) == Head(todo[c])[2]
Live(c) == todo[c] # <<>>
Suspended(c) == Live(c) => Op(c) \in Awaits
Has(c, names) == \E i \in DOMAIN todo[c] : todo[c][i][1] \in names
AtWork(c, o) == obj[c] = o /\ Live(c) /\ Op(c) \notin {"assigned", "work", "generate", "others"}
Launches(c, o) == obj[c] = o /\ Has(c, {"spawn"})
Ends(c, o) == obj[c] = o /\ Has(c, {"close", "end", "clear", "stopped"})
Overlap(o) == \E c, d \in Calls : c # d /\ Launches(c, o) /\ (Launches(d, o) \/ Ends(d, o))

Alive(p) == p # None /\ proc[p].runs # "none"
Running(o) == Alive(pid[o])

-----------------------------------------------------------------------------
(* The operations as the steps they consist of. *)

SpawnAll == [i \in DOMAIN Desktop |-> <<"spawn", Desktop[i]>>] \o
            <<<<"spawn", "chrome">>, Do("connect"), Do("open"), Do("ready")>>
(* Mutant of Launch: nothing is terminated first. *)
LaunchOnly == <<Do("unserve"), Do("serve")>> \o SpawnAll

Launch == <<Do("terminate"), Do("unserve"), Do("serve")>> \o SpawnAll
HardRecover == <<Do("terminate")>> \o SpawnAll
Ending == <<Do("terminate"), Do("unserve"), Do("stopped")>>
HandleFailure == <<Do("failed"), Do("recover"), Do("requeue")>>

RunJob == <<Do("assigned"), Do("ensure"), Do("started"), Do("work"), Do("finished")>>

(* Mutant of Program: delete_account removes the file, then stops. *)
ProgramRemovesFirst(operation) ==
    CASE operation = "delete" -> <<Do("remove")>> \o Ending
      [] operation = "restart" -> <<Do("stop"), Do("start")>>
      [] operation = "job" -> RunJob
      [] OTHER -> <<Do(operation)>>

Program(operation) ==
    CASE operation = "delete" -> <<Do("stop"), Do("remove")>>
      [] operation = "restart" -> <<Do("stop"), Do("start")>>
      [] operation = "job" -> RunJob
      [] OTHER -> <<Do(operation)>>

(* Mutant of AfterException: ensure_account_running outside of the try. *)
AfterExceptionAtWork(c) ==
    IF Has(c, {"finished"}) /\ ~Has(c, {"started"}) THEN HandleFailure ELSE <<>>

(* What an exception leaves to do: the except clause of RecoveryEngine's   *)
(* loop, that of _run_job (mark_job_started stands outside of it), that of *)
(* the autostart, or nothing.  "tried" ends the try block of an attempt.   *)
AfterException(c) ==
    LET t == todo[c]
        tries == {i \in DOMAIN t : t[i][1] = "tried"}
        last == CHOOSE i \in tries : TRUE
        again == IF t[last][2] < Attempts THEN <<Do("pause"), <<"soft", t[last][2] + 1>>>>
                 ELSE HardRecover
    IN  IF tries # {} THEN again \o SubSeq(t, last + 1, Len(t))
        ELSE IF Has(c, {"booted"}) THEN <<Do("broken")>>
        ELSE IF Has(c, {"finished"}) /\ Op(c) # "started" THEN HandleFailure
        ELSE <<>>

IsJob(c) == Has(c, {"finished", "requeue"})

Raise(c) ==
    /\ todo' = [todo EXCEPT ![c] = AfterException(c)]
    /\ stranded' = IF IsJob(c) /\ AfterException(c) = <<>> THEN stranded \cup {c} ELSE stranded

(* Coroutine c runs on from where it is, with s before what it had to do. *)
Runs(c, name) ==
    /\ Live(c) /\ Op(c) = name
    /\ name \in Awaits => \A d \in Calls : Suspended(d)
Goes(c, s) == todo' = [todo EXCEPT ![c] = s \o Tail(@)] /\ UNCHANGED stranded

(* _require: a call works on the object that it finds, or ends by a 404. *)
Require(c, name) ==
    /\ Runs(c, name)
    /\ current # None
    /\ obj' = [obj EXCEPT ![c] = current]

Missing(c) ==
    /\ \E name \in {"start", "stop", "recover", "proxy", "settings", "ensure",
                    "started", "finished", "failed"} : Runs(c, name)
    /\ current = None
    /\ Raise(c)
    /\ UNCHANGED <<accountVars, runtimeVars, obj, excused, late>>

-----------------------------------------------------------------------------
(* AccountManager. *)

Save(o) == file' = o
SetStatus(o, s) == status' = [status EXCEPT ![o] = s]

StartAccount(c) ==
    /\ Require(c, "start")
    /\ Goes(c, IF ~Running(current) THEN Launch
               ELSE IF context[current] = None THEN <<Do("connect"), Do("ready")>>
               ELSE <<Do("ready")>>)
    /\ UNCHANGED <<accountVars, runtimeVars, excused, late>>

StopAccount(c) ==
    /\ Require(c, "stop")
    /\ Goes(c, Ending)
    /\ UNCHANGED <<accountVars, runtimeVars, excused, late>>

Stopped(c) ==
    /\ Runs(c, "stopped")
    /\ pid' = [pid EXCEPT ![obj[c]] = None]
    /\ SetStatus(obj[c], "STOPPED") /\ Save(obj[c])
    /\ Goes(c, <<>>)
    /\ UNCHANGED <<current, jobs, runtimeVars, obj, excused, late>>

(* The end of a start, of a recovery, and of an autostart that failed. *)
Finishes(c, name, s) ==
    /\ Runs(c, name)
    /\ SetStatus(obj[c], s) /\ Save(obj[c])
    /\ Goes(c, <<>>)
    /\ UNCHANGED <<current, pid, jobs, runtimeVars, obj, excused, late>>

RecoverAccount(c) ==
    /\ Require(c, "recover")
    /\ SetStatus(current, "BROKEN_SESSION")
    /\ IF Running(current) THEN Goes(c, <<<<"soft", 1>>, Do("ready")>>) /\ UNCHANGED file
                           ELSE Goes(c, <<Do("start")>>) /\ Save(current)
    /\ UNCHANGED <<current, pid, jobs, runtimeVars, excused, late>>

(* delete_account, after its stop: whatever the id now names is removed. *)
Remove(c) ==
    /\ Runs(c, "remove")
    /\ current' = None /\ file' = None
    /\ late' = IF current # None /\ (obj[c] # current \/ \E d \in Calls \ {c} : AtWork(d, current))
               THEN late \cup {current} ELSE late
    /\ excused' = excused \cup {d \in Calls : IsJob(d)}
    /\ Goes(c, <<>>)
    /\ UNCHANGED <<status, pid, jobs, runtimeVars, obj>>

UpdateProxy(c) ==
    /\ Require(c, "proxy")
    /\ Save(current)
    /\ Goes(c, IF pid[current] # None THEN Program("restart") ELSE <<>>)
    /\ UNCHANGED <<current, status, pid, jobs, runtimeVars, excused, late>>

(* update_settings restarts for the extension, stops a browser that need *)
(* not stay warm and has no job, and starts one that shall be warm.      *)
UpdateSettings(c) ==
    /\ Require(c, "settings")
    /\ Save(current)
    /\ \/ Goes(c, <<>>)
       \/ Running(current) /\ Goes(c, Program("restart"))
       \/ Running(current) /\ jobs[current] = 0 /\ Goes(c, <<Do("stop")>>)
       \/ ~Running(current) /\ Goes(c, <<Do("start")>>)
    /\ UNCHANGED <<current, status, pid, jobs, runtimeVars, excused, late>>

(* install_extension_package restarts the accounts that were running when *)
(* the archive was unpacked, one after the other.                         *)
InstallExtension(c) ==
    /\ Runs(c, "install")
    /\ Goes(c, IF current # None /\ Running(current)
               THEN <<Do("others"), Do("stop"), Do("start")>> ELSE <<>>)
    /\ UNCHANGED <<accountVars, runtimeVars, obj, excused, late>>

EnsureRunning(c) ==
    /\ Require(c, "ensure")
    /\ Goes(c, IF Running(current) THEN <<>> ELSE <<Do("start")>>)
    /\ UNCHANGED <<accountVars, runtimeVars, excused, late>>

MarkJobStarted(c) ==
    /\ Require(c, "started")
    /\ jobs' = [jobs EXCEPT ![current] = @ + 1]
    /\ SetStatus(current, "BUSY") /\ Save(current)
    /\ Goes(c, <<>>)
    /\ UNCHANGED <<current, pid, runtimeVars, excused, late>>

(* Mutant of Released: no max(0, ...). *)
ReleasedBelowZero(n) == n - 1
Released(n) == IF n = 0 THEN 0 ELSE n - 1

MarkJobFinished(c) ==
    /\ Require(c, "finished") \/ Require(c, "failed")
    /\ jobs' = [jobs EXCEPT ![current] = Released(@)]
    /\ SetStatus(current, IF jobs'[current] = 0 THEN "READY" ELSE "BUSY") /\ Save(current)
    /\ Goes(c, <<>>)
    /\ UNCHANGED <<current, pid, runtimeVars, excused, late>>

-----------------------------------------------------------------------------
(* AccountRuntime, FlowKitBridge, VncManager, ChromeManager, RecoveryEngine. *)

(* terminate closes the context, ends one process after the other, the    *)
(* last one started first, and then forgets what the fields refer to now. *)
Terminate(c) ==
    /\ Runs(c, "terminate")
    /\ Goes(c, (IF context[obj[c]] = None THEN <<>> ELSE <<Do("close")>>) \o <<Do("list")>>)
    /\ UNCHANGED <<accountVars, runtimeVars, obj, excused, late>>

(* Other calls that are jobs in their failure handler. *)
Handlers(c) == {d \in Calls \ {c} : Has(d, {"requeue"})}

CloseContext(c) ==
    /\ Runs(c, "close")
    /\ context' = [context EXCEPT ![obj[c]] = None]
    /\ excused' = excused \cup {d \in Handlers(c) : obj[d] = obj[c]}
    /\ Goes(c, <<>>)
    /\ UNCHANGED <<accountVars, field, proc, serving, obj, late>>

EndAll(c) ==
    LET of == field[obj[c]]
    IN  /\ Runs(c, "list")
        /\ Goes(c, <<<<"kill", of["chrome"]>>>>
                   \o [i \in DOMAIN Desktop |-> <<"kill", of[Desktop[Len(Desktop) + 1 - i]]>>]
                   \o <<Do("clear")>>)
        /\ UNCHANGED <<accountVars, runtimeVars, obj, excused, late>>

(* A process that has a returncode by then is passed over. *)
Kill(c) ==
    /\ Runs(c, "kill")
    /\ Goes(c, IF Alive(Arg(c)) THEN <<<<"end", Arg(c)>>>> ELSE <<>>)
    /\ UNCHANGED <<accountVars, runtimeVars, obj, excused, late>>

Nothing == [runs |-> "none", of |-> None]

EndProcess(c) ==
    /\ Runs(c, "end")
    /\ proc' = [proc EXCEPT ![Arg(c)] = Nothing]
    /\ excused' = excused \cup {d \in Handlers(c) : obj[d] = obj[c] \/ context[obj[d]] = Arg(c)}
    /\ Goes(c, <<>>)
    /\ UNCHANGED <<accountVars, context, field, serving, obj, late>>

ClearFields(c) ==
    /\ Runs(c, "clear")
    /\ field' = [field EXCEPT ![obj[c]] = [f \in Fields |-> None]]
    /\ Goes(c, <<>>)
    /\ UNCHANGED <<accountVars, context, proc, serving, obj, excused, late>>

StopBridge(c) ==
    /\ Runs(c, "unserve")
    /\ serving' = FALSE
    /\ Goes(c, IF serving THEN <<Do("drain")>> ELSE <<>>)
    /\ UNCHANGED <<accountVars, context, field, proc, obj, excused, late>>

StartBridge(c) ==
    /\ Runs(c, "serve")
    /\ serving' = TRUE
    /\ IF serving THEN Raise(c) ELSE Goes(c, <<>>)
    /\ excused' = excused \cup {d \in Handlers(c) : Has(d, {"serve"}) /\ obj[d] # obj[c]}
    /\ UNCHANGED <<accountVars, context, field, proc, obj, late>>

Known(p) ==
    \/ Alive(p)
    \/ \E o \in Objects : p \in {pid[o], context[o]} \/ \E f \in Fields : p = field[o][f]
    \/ \E c \in Calls : \E i \in DOMAIN todo[c] : todo[c][i] \in {<<"kill", p>>, <<"end", p>>}

(* create_subprocess_exec, and the field that the process is kept in.     *)
(* Bound: a process id that nothing refers to is left.                    *)
Spawn(c) ==
    LET new == CHOOSE p \in Pids : ~Known(p)
        f == Arg(c)
    IN  /\ Runs(c, "spawn") /\ \E p \in Pids : ~Known(p)
        /\ proc' = [proc EXCEPT ![new] =
                [runs |-> IF f = "chrome" THEN "chrome" ELSE "desktop", of |-> obj[c]]]
        /\ field' = [field EXCEPT ![obj[c]][f] = new]
        /\ pid' = IF f = "chrome" THEN [pid EXCEPT ![obj[c]] = new] ELSE pid
        /\ Goes(c, <<>>)
        /\ UNCHANGED <<current, file, status, jobs, context, serving, obj, excused, late>>

(* connect_over_cdp reaches a Chrome that listens on the account's port,  *)
(* or none in launch_timeout_seconds.                                     *)
Connect(c) ==
    LET listening == {p \in Pids : proc[p].runs = "chrome"} IN
    /\ Runs(c, "connect")
    /\ IF listening = {} THEN Raise(c) /\ UNCHANGED context
       ELSE /\ \E p \in listening : context' = [context EXCEPT ![obj[c]] = p]
            /\ Goes(c, <<>>)
    /\ UNCHANGED <<accountVars, field, proc, serving, obj, excused, late>>

(* open_flow and the reload of _soft_recover work on a page of the context. *)
UsePage(c) ==
    /\ Runs(c, "open") \/ Runs(c, "visit")
    /\ IF Alive(context[obj[c]]) THEN Goes(c, <<>>) ELSE Raise(c)
    /\ UNCHANGED <<accountVars, runtimeVars, obj, excused, late>>

SoftRecover(c) ==
    /\ Runs(c, "soft")
    /\ Goes(c, (IF context[obj[c]] = None THEN <<Do("connect")>> ELSE <<>>)
               \o <<Do("visit"), <<"tried", Arg(c)>>>>)
    /\ UNCHANGED <<accountVars, runtimeVars, obj, excused, late>>

(* The job's executor: it succeeds or fails, and it first recovers an     *)
(* account that has no context.  job_timeout_seconds cancels it anywhere. *)
(* A LoginRequiredError, too, only gives the account back.                *)
Execute(c) ==
    /\ Runs(c, "work")
    /\ \/ Goes(c, <<>>)
       \/ Raise(c)
       \/ /\ current # None /\ context[current] = None
          /\ Goes(c, <<Do("recover"), Do("generate")>>)
    /\ UNCHANGED <<accountVars, runtimeVars, obj, excused, late>>

JobTimesOut(c) ==
    /\ Has(c, {"generate"}) /\ \A d \in Calls : Suspended(d)
    /\ todo' = [todo EXCEPT ![c] = HandleFailure]
    /\ UNCHANGED <<accountVars, runtimeVars, obj, stranded, excused, late>>

(* Awaits and markers without an effect on the account. *)
Pass(c) ==
    /\ \E name \in {"assigned", "drain", "pause", "others", "generate",
                    "tried", "requeue", "booted"} : Runs(c, name)
    /\ Goes(c, <<>>)
    /\ UNCHANGED <<accountVars, runtimeVars, obj, excused, late>>

Step(c) ==
    \/ Missing(c) \/ StartAccount(c) \/ StopAccount(c) \/ Stopped(c)
    \/ Finishes(c, "ready", "READY") \/ Finishes(c, "broken", "BROKEN_SESSION")
    \/ RecoverAccount(c) \/ Remove(c) \/ UpdateProxy(c) \/ UpdateSettings(c)
    \/ InstallExtension(c) \/ EnsureRunning(c) \/ MarkJobStarted(c) \/ MarkJobFinished(c)
    \/ Terminate(c) \/ CloseContext(c) \/ EndAll(c) \/ Kill(c) \/ EndProcess(c) \/ ClearFields(c)
    \/ StopBridge(c) \/ StartBridge(c) \/ Spawn(c) \/ Connect(c) \/ UsePage(c)
    \/ SoftRecover(c) \/ Execute(c) \/ JobTimesOut(c) \/ Pass(c)

-----------------------------------------------------------------------------
(* Calls begin, and what goes wrong around them. *)

(* Bound: after two launches on one runtime, of which the properties claim *)
(* no more than that no file is left, no further call begins on it.       *)
MayBegin(c) ==
    /\ ~Live(c) /\ begun < MaxBegun /\ current \notin overlapped
    /\ \A d \in Calls : Suspended(d) /\ ~Has(d, {"booted", "broken"})

Begin(c) ==
    /\ MayBegin(c) /\ current # None
    /\ \E operation \in Operations \ {"create"} :
            todo' = [todo EXCEPT ![c] = Program(operation)]
    /\ obj' = [obj EXCEPT ![c] = current]
    /\ begun' = begun + 1
    /\ stranded' = stranded \ {c} /\ excused' = excused \ {c}
    /\ UNCHANGED <<accountVars, runtimeVars, failures, late>>

(* create_account registers a new object; the objects of earlier accounts *)
(* live on in the calls that hold them.                                   *)
CreateAccount(c) ==
    /\ MayBegin(c) /\ current = None /\ "create" \in Operations
    /\ \E o \in Objects :
        /\ o # file /\ o \notin late \cup overlapped
        /\ \A d \in Calls : Live(d) => obj[d] # o
        /\ \A p \in Pids : proc[p].of # o
        /\ current' = o /\ Save(o)
        /\ SetStatus(o, "READY")
        /\ pid' = [pid EXCEPT ![o] = None] /\ jobs' = [jobs EXCEPT ![o] = 0]
        /\ context' = [context EXCEPT ![o] = None]
        /\ field' = [field EXCEPT ![o] = [f \in Fields |-> None]]
    /\ todo' = [todo EXCEPT ![c] = <<Do("start")>>]
    /\ begun' = begun + 1
    /\ stranded' = stranded \ {c} /\ excused' = excused \ {c}
    /\ UNCHANGED <<proc, serving, obj, failures, late>>

Fails == failures < MaxFailures /\ failures' = failures + 1

(* A command, a connection or a page raises. *)
AwaitRaises(c) ==
    /\ Fails
    /\ \E name \in {"serve", "spawn", "connect", "open", "visit"} : Runs(c, name)
    /\ Raise(c)
    /\ excused' = IF Has(c, {"requeue"}) THEN excused \cup {c} ELSE excused
    /\ UNCHANGED <<accountVars, runtimeVars, obj, begun, late>>

ProcessDies(p) ==
    /\ Fails
    /\ proc[p].runs = "chrome" /\ proc' = [proc EXCEPT ![p] = Nothing]
    /\ excused' = excused \cup {c \in Calls : Has(c, {"requeue"})}
    /\ UNCHANGED <<accountVars, context, field, serving, todo, obj, begun, stranded, late>>

(* The worker ends with all its processes, by a crash or by a shutdown,   *)
(* which terminates what the runtimes refer to and leaves the rest to the *)
(* end of the container.  The next worker loads the account's file, with  *)
(* the status that was saved, and starts the browser if the account is to *)
(* be kept warm.                                                          *)
Reboot ==
    /\ Fails
    /\ \A d \in Calls : Suspended(d)
    /\ current' = file
    /\ \E s \in {"READY", "STOPPED", "BROKEN_SESSION"} :
            status' = IF file = None THEN status ELSE [status EXCEPT ![file] = s]
    /\ pid' = [o \in Objects |-> None] /\ jobs' = [o \in Objects |-> 0]
    /\ context' = [o \in Objects |-> None]
    /\ field' = [o \in Objects |-> [f \in Fields |-> None]]
    /\ proc' = [p \in Pids |-> Nothing]
    /\ serving' = FALSE
    /\ \E c \in Calls, warm \in {FALSE, file # None} :
            todo' = [d \in Calls |-> IF warm /\ d = c THEN <<Do("start"), Do("booted")>> ELSE <<>>]
    /\ obj' = [c \in Calls |-> file]
    /\ overlapped' = {} /\ late' = {} /\ stranded' = {} /\ excused' = {}
    /\ UNCHANGED <<file, begun>>

(* Without a call the worker waits for the next one. *)
Idle == (\A c \in Calls : ~Live(c)) /\ UNCHANGED vars

Init ==
    /\ current \in Objects /\ file = current
    /\ status = [o \in Objects |-> "STOPPED"]
    /\ pid = [o \in Objects |-> None] /\ jobs = [o \in Objects |-> 0]
    /\ context = [o \in Objects |-> None]
    /\ field = [o \in Objects |-> [f \in Fields |-> None]]
    /\ proc = [p \in Pids |-> Nothing]
    /\ serving = FALSE
    /\ todo = [c \in Calls |-> <<>>] /\ obj = [c \in Calls |-> current]
    /\ begun = 0 /\ failures = 0
    /\ overlapped = {} /\ late = {} /\ stranded = {} /\ excused = {}

Next ==
    \/ /\ \/ \E c \in Calls : Step(c) /\ UNCHANGED <<begun, failures>>
          \/ \E c \in Calls : Begin(c) \/ CreateAccount(c) \/ AwaitRaises(c)
          \/ \E p \in Pids : ProcessDies(p)
       /\ overlapped' = overlapped \cup {o \in Objects : Overlap(o)'}
    \/ Reboot \/ Idle

Spec == Init /\ [][Next]_vars

-----------------------------------------------------------------------------
(* What todo consists of: most steps have no argument. *)
Plain == (Awaits \ {"spawn", "end"}) \cup
    {"ensure", "started", "finished", "failed", "recover", "requeue", "start", "stop", "remove",
     "proxy", "settings", "install", "booted", "broken", "ready", "stopped", "terminate", "list",
     "clear", "unserve"}
Steps == (Plain \X {None}) \cup ({"spawn"} \X Fields)
         \cup ({"kill", "end"} \X (Pids \cup {None})) \cup ({"soft", "tried"} \X Nat)

(* Every variable has its type. *)
TypeOK ==
    /\ current \in Objects \cup {None} /\ file \in Objects \cup {None}
    /\ status \in [Objects -> Statuses]
    /\ pid \in [Objects -> Pids \cup {None}]
    /\ jobs \in [Objects -> Nat]
    /\ context \in [Objects -> Pids \cup {None}]
    /\ field \in [Objects -> [Fields -> Pids \cup {None}]]
    /\ proc \in [Pids -> [runs : {"none", "desktop", "chrome"}, of : Objects \cup {None}]]
    /\ serving \in BOOLEAN
    /\ todo \in [Calls -> Seq(Steps)]
    /\ obj \in [Calls -> Objects \cup {None}]
    /\ begun \in 0..MaxBegun /\ failures \in 0..MaxFailures
    /\ overlapped \subseteq Objects /\ late \subseteq Objects
    /\ stranded \subseteq Calls /\ excused \subseteq Calls

(* Every process can be ended: a field of the registered account refers   *)
(* to it.  So an account has one browser at most, and a deleted one has    *)
(* none.  Only a launch that met another launch or an ending on the same   *)
(* runtime, and a deletion under a call, lose one.                         *)
Referenced(p) == current # None /\ \E f \in Fields : field[current][f] = p
NoOrphans == \A p \in Pids : Alive(p) =>
    Referenced(p) \/ proc[p].of \in overlapped \cup late

(* A deleted account has no file, which the next boot would load, and no  *)
(* file holds the data of an earlier account, unless the account was      *)
(* deleted while a call that saves it was at work.                        *)
NoGhosts == file # current => file \in late

(* A job that fails is handed back to the scheduler, unless its account   *)
(* was deleted meanwhile, or its recovery met a failure, another call on   *)
(* its runtime, or one on an account that had its id before.               *)
JobsAreHandled == \A c \in stranded : c \in excused \/ obj[c] \in overlapped
=============================================================================
