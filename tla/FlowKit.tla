------------------------------ MODULE FlowKit ------------------------------
(***************************************************************************)
(* How a worker reaches the browser of one account.  FlowKitBridge          *)
(* (worker/browser/flowkit_bridge.py) listens for the extension's WebSocket *)
(* and keeps a future for every request it has sent; the service worker of *)
(* the extension (extension/background.js) connects and reconnects, reports *)
(* the bearer token it captures, carries requests out and answers them by  *)
(* an HTTP callback, and by the WebSocket when that fails.                 *)
(*                                                                         *)
(* One action is what runs between two awaits of the bridge's coroutines,  *)
(* or one event handler of the extension.  Left out: what a request asks   *)
(* for and an answer says, the metrics, badge and request log, the tabs,   *)
(* and ping and pong.                                                      *)
(***************************************************************************)
EXTENDS Naturals

CONSTANTS
    Requests,   \* calls of FlowKitBridge.send, each with an id of its own
    Sockets,    \* connections; one that has ended at both ends is used again
    NoSocket,   \* "no connection"
    Faults,     \* the kinds of disturbance that may occur
    MaxFaults   \* bound: how many of them occur in a behaviour

ASSUME SocketsAssumption == NoSocket \notin Sockets
ASSUME FaultsAssumption ==
    /\ Faults \subseteq {"admin", "crash", "http", "net", "sw", "user"}
    /\ MaxFaults \in Nat

VARIABLES
    \* FlowKitBridge, the entries of one account.
    phase,      \* "up", "closing" its connection, "draining" its server, "down"
    conn,       \* _connections: the socket requests are sent on
    server,     \* per socket, the worker's end and its handler
    pending,    \* _pending: the requests whose future an answer can find
    call,       \* per request, the coroutine of send
    known,      \* _flow_keys has a key
    \* The service worker.
    ws,         \* the socket it holds
    client,     \* per socket, the browser's end (readyState)
    manual,     \* manualDisconnect
    refresh,    \* the alarm token-refresh exists
    key,        \* flowKey is set
    stored,     \* flowKey is in chrome.storage.local
    work,       \* per request, what the service worker is doing for it
    \* Frames written and not yet read.
    requests,   \* from the worker, <<socket, request>>
    answers,    \* from the browser, <<socket, request>>
    tokens,     \* token_captured from the browser, by socket
    \* Auxiliary.
    faults      \* their number, and the requests whose answer they hit

bridge == <<phase, conn, server, pending, call, known>>
memory == <<manual, refresh, key, stored>>
worker == <<ws, client, memory, work>>
frames == <<requests, answers, tokens>>
vars == <<bridge, worker, frames, faults>>

Fault(kind, hit) ==
    /\ kind \in Faults
    /\ faults.count < MaxFaults
    /\ faults' = [count |-> faults.count + 1, hit |-> faults.hit \cup hit]

(* The handler of c runs until it has seen the end of its connection; what *)
(* the browser has written may be read until then.                         *)
Running(c) == server[c] \in {"open", "closed"}

IsOpen == ws # NoSocket /\ client[ws] = "open"

-----------------------------------------------------------------------------
(* FlowKitBridge.send *)

(* Mutant of Returns: the request stays in _pending. *)
ReturnsPending(r) ==
    /\ call' = [call EXCEPT ![r] = "done"]
    /\ UNCHANGED pending

(* The finally clause. *)
Returns(r) ==
    /\ call' = [call EXCEPT ![r] = "done"]
    /\ pending' = pending \ {r}

Usable == conn # NoSocket /\ server[conn] = "open"

(* Without a connection send returns an error; on one that is closed and   *)
(* still registered it raises, which is an error for the caller as well.   *)
Send(r) ==
    /\ call[r] = "idle"
    /\ \/ /\ ~Usable
          /\ Returns(r)
          /\ UNCHANGED requests
       \/ /\ Usable
          /\ call' = [call EXCEPT ![r] = "waiting"]
          /\ pending' = pending \cup {r}
          /\ requests' = IF client[conn] \in {"connecting", "open"}
                         THEN requests \cup {<<conn, r>>} ELSE requests
    /\ UNCHANGED <<phase, conn, server, known, worker, answers, tokens, faults>>

(* The future was completed, with an answer or by stop. *)
Resume(r) ==
    /\ call[r] \in {"answered", "failed"}
    /\ Returns(r)
    /\ UNCHANGED <<phase, conn, server, known, worker, frames, faults>>

(* wait_for gives up, or the job that waits is cancelled. *)
Timeout(r) ==
    /\ call[r] = "waiting"
    /\ Returns(r)
    /\ UNCHANGED <<phase, conn, server, known, worker, frames, faults>>

(* handle_callback and _handle_message: only a pending future that is not  *)
(* done takes the answer.                                                  *)
Completed(r) ==
    IF r \in pending /\ call[r] = "waiting" THEN [call EXCEPT ![r] = "answered"] ELSE call

-----------------------------------------------------------------------------
(* FlowKitBridge._handler, one coroutine per connection *)

(* Only the newest handler's connection is registered. *)
Accept(c) ==
    /\ client[c] = "connecting" /\ server[c] = "none"
    /\ phase \in {"up", "closing"}
    /\ server' = [server EXCEPT ![c] = "open"]
    /\ conn' = c
    /\ UNCHANGED <<phase, pending, call, known, worker, frames, faults>>

TokenArrives(c) ==
    /\ c \in tokens
    /\ known' = TRUE
    /\ tokens' = tokens \ {c}
    /\ UNCHANGED <<phase, conn, server, pending, call, worker, requests, answers, faults>>

AnswerArrives(c, r) ==
    /\ <<c, r>> \in answers
    /\ call' = Completed(r)
    /\ answers' = answers \ {<<c, r>>}
    /\ UNCHANGED <<phase, conn, server, pending, known, worker, requests, tokens, faults>>

SeesClose(c) ==
    /\ server[c] = "open" /\ client[c] \in {"closing", "closed"}
    /\ server' = [server EXCEPT ![c] = "closed"]
    /\ UNCHANGED <<phase, conn, pending, call, known, worker, frames, faults>>

(* Mutant of Unregistered: whatever is registered goes. *)
UnregisteredAnyway(c) == NoSocket

(* A handler that ends leaves the connection of a later one alone. *)
Unregistered(c) == IF conn = c THEN NoSocket ELSE conn

HandlerEnds(c) ==
    /\ server[c] = "closed"
    /\ server' = [server EXCEPT ![c] = "ended"]
    /\ conn' = Unregistered(c)
    /\ answers' = {a \in answers : a[1] # c}
    /\ tokens' = tokens \ {c}
    /\ UNCHANGED <<phase, pending, call, known, worker, requests, faults>>

-----------------------------------------------------------------------------
(* FlowKitBridge.stop and start *)

ServerClosed == [c \in Sockets |-> IF server[c] = "open" THEN "closed" ELSE server[c]]

(* The registered connection is closed first, and the server still accepts *)
(* while its close is awaited.                                             *)
StopBegin ==
    /\ phase = "up"
    /\ Fault("admin", {})
    /\ conn' = NoSocket
    /\ IF conn # NoSocket
       THEN /\ phase' = "closing"
            /\ server' = [server EXCEPT ![conn] = "closed"]
       ELSE /\ phase' = "draining"
            /\ server' = ServerClosed
    /\ UNCHANGED <<pending, call, known, worker, frames>>

StopServer ==
    /\ phase = "closing"
    /\ phase' = "draining"
    /\ server' = ServerClosed
    /\ UNCHANGED <<conn, pending, call, known, worker, frames, faults>>

(* Mutant of Drained: wait_closed is not awaited. *)
DrainedAtOnce == TRUE

(* server.wait_closed waits for the handlers. *)
Drained == \A c \in Sockets : ~Running(c)

(* Mutant of Abandoned: an answer nobody has resumed for yet is replaced. *)
AbandonedAll == [r \in Requests |-> IF r \in pending THEN "failed" ELSE call[r]]

(* stop sets an exception on every future that is not done. *)
Abandoned ==
    [r \in Requests |-> IF r \in pending /\ call[r] = "waiting" THEN "failed" ELSE call[r]]

StopEnd ==
    /\ phase = "draining" /\ Drained
    /\ phase' = "down"
    /\ call' = Abandoned
    /\ pending' = {}
    /\ UNCHANGED <<conn, server, known, worker, frames, faults>>

(* The stop that start begins with finds nothing here. *)
Start ==
    /\ phase = "down"
    /\ phase' = "up"
    /\ UNCHANGED <<conn, server, pending, call, known, worker, frames, faults>>

(* The process of the worker ends, the callers with it. *)
Crash ==
    /\ Fault("crash", {})
    /\ phase' = "down"
    /\ conn' = NoSocket
    /\ server' = [c \in Sockets |-> IF Running(c) THEN "ended" ELSE server[c]]
    /\ pending' = {}
    /\ call' = [r \in Requests |-> IF call[r] = "idle" THEN "idle" ELSE "done"]
    /\ known' = FALSE
    /\ answers' = {}
    /\ tokens' = {}
    /\ UNCHANGED <<worker, requests>>

-----------------------------------------------------------------------------
(* The service worker: its socket. *)

(* Mutant of MayConnect: a socket that is still connecting does not count. *)
MayConnectAgain(m) == ~m /\ ~IsOpen

MayConnect(m) ==
    /\ ~m
    /\ ws # NoSocket => client[ws] \notin {"connecting", "open"}

Free(c) == client[c] \in {"none", "closed"} /\ ~Running(c)

NewSocket(c) ==
    /\ Free(c)
    /\ ws' = c
    /\ client' = [client EXCEPT ![c] = "connecting"]
    /\ server' = [server EXCEPT ![c] = "none"]

(* connectToAgent, when manualDisconnect is m. *)
ConnectToAgent(m) ==
    IF MayConnect(m) THEN \E c \in Sockets : NewSocket(c)
    ELSE UNCHANGED <<ws, client, server>>

(* The alarms reconnect and keepAlive. *)
Connect ==
    /\ MayConnect(manual)
    /\ ConnectToAgent(manual)
    /\ UNCHANGED <<phase, conn, pending, call, known, memory, work, frames, faults>>

(* Mutant of Reported: the socket's opening reports no token. *)
ReportedWhenCaptured(c) == tokens

Reported(c) == IF key /\ Running(c) THEN tokens \cup {c} ELSE tokens

(* onopen *)
Opened(c) ==
    /\ client[c] = "connecting" /\ server[c] # "none"
    /\ client' = [client EXCEPT ![c] = "open"]
    /\ refresh' = TRUE
    /\ tokens' = Reported(c)
    /\ UNCHANGED <<bridge, ws, manual, key, stored, work, requests, answers, faults>>

(* onclose, which clears the alarm whichever socket ws is by now; what was *)
(* sent to c and not read is lost.                                         *)
OnClose(c) ==
    /\ client' = [client EXCEPT ![c] = "closed"]
    /\ refresh' = FALSE
    /\ requests' = {q \in requests : q[1] # c}
    /\ UNCHANGED <<ws, manual, key, stored, work, answers, tokens>>

Closed(c) ==
    /\ \/ client[c] \in {"open", "closing"} /\ server[c] # "open"
       \/ client[c] = "connecting" /\ server[c] \in {"closed", "ended"}
       \/ client[c] = "connecting" /\ server[c] = "none" /\ phase \in {"draining", "down"}
    /\ OnClose(c)
    /\ UNCHANGED <<bridge, faults>>

(* A connection breaks, and one end notices first. *)
Breaks(c) ==
    /\ client[c] \in {"connecting", "open"} /\ server[c] = "open"
    /\ Fault("net", {})
    /\ \/ /\ server' = [server EXCEPT ![c] = "closed"]
          /\ UNCHANGED worker
          /\ UNCHANGED frames
       \/ OnClose(c) /\ UNCHANGED server
    /\ UNCHANGED <<phase, conn, pending, call, known>>

(* The popup's DISCONNECT: close is begun, onclose comes later. *)
Disconnect ==
    /\ Fault("user", {})
    /\ manual' = TRUE
    /\ IF ws # NoSocket /\ client[ws] \in {"connecting", "open"}
       THEN /\ client' = [client EXCEPT ![ws] = "closing"]
            /\ requests' = {q \in requests : q[1] # ws}
       ELSE UNCHANGED <<client, requests>>
    /\ UNCHANGED <<bridge, ws, refresh, key, stored, work, answers, tokens>>

Reconnect ==
    /\ manual
    /\ manual' = FALSE
    /\ ConnectToAgent(FALSE)
    /\ UNCHANGED <<phase, conn, pending, call, known, refresh, key, stored, work, frames, faults>>

-----------------------------------------------------------------------------
(* The service worker: the token, and the requests. *)

(* A request of the Flow page carries the token in its header. *)
TokenCaptured ==
    /\ key' = TRUE
    /\ stored' = TRUE
    /\ tokens' = IF IsOpen /\ Running(ws) THEN tokens \cup {ws} ELSE tokens
    /\ UNCHANGED <<bridge, ws, client, manual, refresh, work, requests, answers, faults>>

(* onmessage: a request that is refused or asks for the status is answered *)
(* at once; handleApiRequest solves a captcha first if one is wanted and   *)
(* needs a token, handleTrpcRequest sends one if there is one.             *)
Deliver(c, r) ==
    /\ <<c, r>> \in requests /\ client[c] = "open"
    /\ requests' = requests \ {<<c, r>>}
    /\ \E next \in {"captcha", "fetch", "callback"} : work' = [work EXCEPT ![r] = next]
    /\ UNCHANGED <<bridge, ws, client, memory, answers, tokens, faults>>

(* solveCaptcha has a time-out; without captcha or token the answer is an  *)
(* error.                                                                  *)
CaptchaEnds(r) ==
    /\ work[r] = "captcha"
    /\ \E next \in {"callback"} \cup (IF key THEN {"fetch"} ELSE {}) :
          work' = [work EXCEPT ![r] = next]
    /\ UNCHANGED <<bridge, ws, client, memory, frames, faults>>

(* Mutant of SendToAgent: an answer goes the way the request came. *)
SendToAgentBySocket(r) ==
    /\ work' = [work EXCEPT ![r] = "none"]
    /\ answers' = IF IsOpen /\ Running(ws) THEN answers \cup {<<ws, r>>} ELSE answers

(* An answer is posted to the callback URL, connected or not. *)
SendToAgent(r) ==
    /\ work' = [work EXCEPT ![r] = "callback"]
    /\ UNCHANGED answers

FetchEnds(r) ==
    /\ work[r] = "fetch"
    /\ SendToAgent(r)
    /\ UNCHANGED <<bridge, ws, client, memory, requests, tokens, faults>>

(* Matched or not, the response is OK. *)
CallbackArrives(r) ==
    /\ work[r] = "callback"
    /\ work' = [work EXCEPT ![r] = "none"]
    /\ call' = Completed(r)
    /\ UNCHANGED <<phase, conn, server, pending, known, ws, client, memory, frames, faults>>

(* The POST fails, before or after the worker has handled it, and the      *)
(* answer is sent on the socket if that is open.                           *)
CallbackFails(r) ==
    /\ work[r] = "callback"
    /\ Fault("http", {r})
    /\ work' = [work EXCEPT ![r] = "none"]
    /\ call' \in {call, Completed(r)}
    /\ answers' = IF IsOpen /\ Running(ws) THEN answers \cup {<<ws, r>>} ELSE answers
    /\ UNCHANGED <<phase, conn, server, pending, known, ws, client, memory, requests, tokens>>

(* The browser ends the service worker, or ends itself: memory and sockets *)
(* are gone without an onclose, an alarm may survive.                      *)
WorkerEnds ==
    /\ Fault("sw", {r \in Requests : work[r] # "none"})
    /\ ws' = NoSocket
    /\ client' = [c \in Sockets |-> IF client[c] = "none" THEN "none" ELSE "closed"]
    /\ manual' = FALSE
    /\ key' = FALSE
    /\ refresh' \in {refresh, FALSE}
    /\ work' = [r \in Requests |-> "none"]
    /\ requests' = {}
    /\ UNCHANGED <<bridge, stored, answers, tokens>>

(* init, which only the start of a browser and an installation call: after *)
(* an alarm has woken the service worker the stored token is not loaded.   *)
BrowserStarts ==
    /\ ws = NoSocket /\ ~manual
    /\ key' = (key \/ stored)
    /\ ConnectToAgent(manual)
    /\ UNCHANGED <<phase, conn, pending, call, known, manual, refresh, stored, work, frames, faults>>

-----------------------------------------------------------------------------
Init ==
    /\ phase = "down" /\ conn = NoSocket
    /\ server = [c \in Sockets |-> "none"]
    /\ pending = {}
    /\ call = [r \in Requests |-> "idle"]
    /\ known = FALSE
    /\ ws = NoSocket
    /\ client = [c \in Sockets |-> "none"]
    /\ manual = FALSE /\ refresh = FALSE
    /\ key = FALSE /\ stored = FALSE
    /\ work = [r \in Requests |-> "none"]
    /\ requests = {} /\ answers = {} /\ tokens = {}
    /\ faults = [count |-> 0, hit |-> {}]

(* What runs by itself, at either end. *)
BridgeStep ==
    \/ StopServer \/ StopEnd
    \/ \E r \in Requests : Resume(r)
    \/ \E c \in Sockets : Accept(c) \/ TokenArrives(c) \/ SeesClose(c) \/ HandlerEnds(c)
    \/ \E c \in Sockets, r \in Requests : AnswerArrives(c, r)

WorkerStep ==
    \/ Connect
    \/ \E c \in Sockets : Opened(c) \/ Closed(c)
    \/ \E r \in Requests : CaptchaEnds(r) \/ FetchEnds(r) \/ CallbackArrives(r)
    \/ \E c \in Sockets, r \in Requests : Deliver(c, r)

(* What others do. *)
Environment ==
    \/ Start \/ StopBegin \/ Crash
    \/ Disconnect \/ Reconnect
    \/ TokenCaptured \/ WorkerEnds \/ BrowserStarts
    \/ \E r \in Requests : Send(r) \/ Timeout(r) \/ CallbackFails(r)
    \/ \E c \in Sockets : Breaks(c)

Next == BridgeStep \/ WorkerStep \/ Environment

Spec == Init /\ [][Next]_vars

(* The event loops run and answers, captchas and fetches come to an end;   *)
(* nobody needs to start or reconnect anything, and no time-out is needed. *)
Fairness ==
    /\ WF_vars(StopServer) /\ WF_vars(StopEnd) /\ WF_vars(Connect)
    /\ \A r \in Requests :
          /\ WF_vars(Resume(r)) /\ WF_vars(CaptchaEnds(r))
          /\ WF_vars(FetchEnds(r)) /\ WF_vars(CallbackArrives(r))
    /\ \A c \in Sockets :
          /\ WF_vars(Accept(c)) /\ WF_vars(TokenArrives(c))
          /\ WF_vars(SeesClose(c)) /\ WF_vars(HandlerEnds(c))
          /\ WF_vars(Opened(c)) /\ WF_vars(Closed(c))
    /\ \A c \in Sockets, r \in Requests :
          WF_vars(AnswerArrives(c, r)) /\ WF_vars(Deliver(c, r))

FairSpec == Spec /\ Fairness

-----------------------------------------------------------------------------
Types ==
    /\ phase \in {"up", "closing", "draining", "down"}
    /\ conn \in Sockets \cup {NoSocket}
    /\ server \in [Sockets -> {"none", "open", "closed", "ended"}]
    /\ pending \subseteq Requests
    /\ call \in [Requests -> {"idle", "waiting", "answered", "failed", "done"}]
    /\ ws \in Sockets \cup {NoSocket}
    /\ client \in [Sockets -> {"none", "connecting", "open", "closing", "closed"}]
    /\ {known, manual, refresh, key, stored} \subseteq BOOLEAN
    /\ work \in [Requests -> {"none", "captcha", "fetch", "callback"}]
    /\ requests \subseteq Sockets \X Requests
    /\ answers \subseteq Sockets \X Requests
    /\ tokens \subseteq Sockets
    /\ faults \in [count : 0..MaxFaults, hit : SUBSET Requests]

(* Every variable keeps its type, and a bridge that is down keeps no       *)
(* connection, no handler and no request that an answer could find.        *)
TypeOK ==
    /\ Types
    /\ phase = "down" => Drained /\ conn = NoSocket /\ pending = {}

(* The alarms, the popup and the start of the browser all call             *)
(* connectToAgent, and never does the extension hold two sockets at once.  *)
OneSocket == \A c \in Sockets : client[c] \in {"connecting", "open"} => c = ws

(* An answer can find every request that waits, and send leaves nothing    *)
(* behind in _pending however it ends: by answer, time-out, stop or error. *)
PendingIsExact ==
    /\ {r \in Requests : call[r] = "waiting"} \subseteq pending
    /\ \A r \in pending : call[r] \in {"waiting", "answered"}

(* While the bridge is up, a connection that is open at both ends is the   *)
(* registered one, although handlers of earlier connections may still be   *)
(* ending.                                                                 *)
NewestIsRegistered == phase = "up" /\ IsOpen /\ server[ws] = "open" => conn = ws

(* An answer that has completed its future is what send returns, although  *)
(* a stop may clear _pending, or a second copy of the answer arrive by the *)
(* other way, before the coroutine resumes.                                *)
FirstAnswerStays ==
    [][\A r \in Requests :
          /\ call[r] \in {"answered", "failed"} => call'[r] \in {call[r], "done"}
          /\ call[r] = "done" => call'[r] = "done"]_vars

(* background.js:254 of the callback: "immune to WS disconnect".  Whatever *)
(* the connection does, the caller of a request that the extension has     *)
(* read gets to return without its time-out, unless the callback itself    *)
(* failed or the service worker ended.                                     *)
AnswersArrive ==
    \A r \in Requests :
        work[r] # "none" /\ call[r] = "waiting" ~> call[r] # "waiting" \/ r \in faults.hit

(* A key that the extension holds becomes known to the worker, whenever it *)
(* was captured and whatever became of connections and processes since,    *)
(* unless the user disconnects or the bridge is not up.                    *)
KeyIsReported == key ~> known \/ ~key \/ manual \/ phase # "up"

(* background.js:179: "Token refresh alarm - 45 min gives buffer before    *)
(* ~60 min expiry".  While connected, the alarm that renews the token is   *)
(* set.                                                                    *)
RefreshScheduled == IsOpen => refresh
============================================================================
