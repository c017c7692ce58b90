--------------------------- MODULE FlowKitProofs ---------------------------
(***************************************************************************)
(* Proofs about FlowKit, for any number of requests, connections and       *)
(* disturbances.  The inductive invariant has three parts: the types, how  *)
(* the two ends of the connections, the registered one and the phase of    *)
(* the bridge belong together, and how the futures in _pending and the     *)
(* coroutines of send do.                                                  *)
(***************************************************************************)
EXTENDS FlowKit, TLAPS

(* The registered connection has a handler that runs; a server that is     *)
(* closing has no open connection, a bridge that is down has no handler;   *)
(* and a live socket of the extension is the one the worker has accepted   *)
(* last, since Accept needs the one socket that is connecting.             *)
Registration(c) ==
    phase = "up" /\ server[c] = "open" /\ client[c] \in {"connecting", "open"} => conn = c

SocketInv ==
    /\ conn # NoSocket => Running(conn)
    /\ phase = "draining" => \A c \in Sockets : server[c] # "open"
    /\ phase = "down" => Drained /\ conn = NoSocket
    /\ OneSocket
    /\ \A c \in Sockets : Registration(c)

CallInv ==
    /\ PendingIsExact
    /\ phase = "down" => pending = {}

IInv == Types /\ SocketInv /\ CallInv

-----------------------------------------------------------------------------
socketVars == <<phase, conn, server, ws, client>>

(* connectToAgent leaves the worker's handlers and the open socket alone,  *)
(* as it takes a socket that both ends have done with.                     *)
LEMMA ConnectKeepsSockets ==
    ASSUME Types, SocketInv, NEW m \in BOOLEAN, ConnectToAgent(m), UNCHANGED <<phase, conn>>
    PROVE  SocketInv'
<1>1. CASE UNCHANGED <<ws, client, server>>
  BY <1>1 DEF SocketInv, Running, Drained, OneSocket, Registration
<1>2. ASSUME MayConnect(m), NEW c \in Sockets, NewSocket(c)
      PROVE  SocketInv'
  <2> USE <1>2 DEF Types
  <2>1. \A d \in Sockets : client[d] \notin {"connecting", "open"}
    BY SocketsAssumption DEF SocketInv, OneSocket, MayConnect
  <2>2. \A d \in Sockets : Running(d)' <=> Running(d)
    BY DEF NewSocket, Free, Running
  <2>3. (conn # NoSocket => Running(conn))'
    BY <2>2 DEF SocketInv
  <2>4. (phase = "draining" => \A d \in Sockets : server[d] # "open")'
    BY DEF SocketInv, NewSocket
  <2>5. (phase = "down" => Drained /\ conn = NoSocket)'
    BY <2>2 DEF SocketInv, Drained
  <2>6. OneSocket'
    BY <2>1 DEF OneSocket, NewSocket
  <2>7. \A d \in Sockets : Registration(d)'
    BY <2>1 DEF Registration, NewSocket
  <2> QED BY <2>3, <2>4, <2>5, <2>6, <2>7 DEF SocketInv
<1> QED BY <1>1, <1>2 DEF ConnectToAgent

(* Every step keeps SocketInv: one step per action that changes the        *)
(* sockets, the registration or the phase.                                 *)
LEMMA SocketStep ==
    ASSUME Types, SocketInv, [Next]_vars
    PROVE  SocketInv'
<1> USE SocketsAssumption DEF Types
<1>0. CASE UNCHANGED socketVars
  BY <1>0 DEF socketVars, SocketInv, Running, Drained, OneSocket, Registration
<1>1. ASSUME NEW c \in Sockets, Accept(c) PROVE SocketInv'
  <2>1. (conn # NoSocket => Running(conn))'
    BY <1>1 DEF Accept, Running
  <2>2. (phase = "draining" => \A d \in Sockets : server[d] # "open")'
    BY <1>1 DEF Accept
  <2>3. (phase = "down" => Drained /\ conn = NoSocket)'
    BY <1>1 DEF Accept
  <2>4. OneSocket' /\ \A d \in Sockets : Registration(d)'
    BY <1>1 DEF Accept, worker, OneSocket, Registration, SocketInv
  <2> QED BY <2>1, <2>2, <2>3, <2>4 DEF SocketInv
<1>2. ASSUME NEW c \in Sockets, SeesClose(c) PROVE SocketInv'
  BY <1>2 DEF SeesClose, worker, SocketInv, Running, Drained, OneSocket, Registration
<1>3. ASSUME NEW c \in Sockets, HandlerEnds(c) PROVE SocketInv'
  <2>1. (conn # NoSocket => Running(conn))'
    BY <1>3 DEF HandlerEnds, Unregistered, SocketInv, Running
  <2>2. (phase = "draining" => \A d \in Sockets : server[d] # "open")'
    BY <1>3 DEF HandlerEnds, SocketInv
  <2>3. (phase = "down" => Drained /\ conn = NoSocket)'
    BY <1>3 DEF HandlerEnds, SocketInv, Drained, Running
  <2>4. OneSocket' /\ \A d \in Sockets : Registration(d)'
    BY <1>3 DEF HandlerEnds, Unregistered, worker, OneSocket, Registration, SocketInv
  <2> QED BY <2>1, <2>2, <2>3, <2>4 DEF SocketInv
<1>4. CASE StopBegin \/ StopServer
  <2>1. (conn # NoSocket => Running(conn))'
    BY <1>4 DEF StopBegin, StopServer, ServerClosed, SocketInv, Running
  <2>2. (phase = "draining" => \A d \in Sockets : server[d] # "open")'
    BY <1>4 DEF StopBegin, StopServer, ServerClosed
  <2>3. (phase = "down" => Drained /\ conn = NoSocket)'
    BY <1>4 DEF StopBegin, StopServer
  <2>4. OneSocket' /\ \A d \in Sockets : Registration(d)'
    BY <1>4 DEF StopBegin, StopServer, worker, OneSocket, Registration, SocketInv
  <2> QED BY <2>1, <2>2, <2>3, <2>4 DEF SocketInv
<1>5. CASE StopEnd
  BY <1>5 DEF StopEnd, worker, SocketInv, Drained, Running, OneSocket, Registration
<1>6. CASE Start
  BY <1>6 DEF Start, worker, SocketInv, Drained, Running, OneSocket, Registration
<1>7. CASE Crash
  BY <1>7 DEF Crash, worker, SocketInv, Drained, Running, OneSocket, Registration
<1>8. CASE Connect
  BY <1>8, ConnectKeepsSockets DEF Connect
<1>9. CASE Reconnect
  BY <1>9, ConnectKeepsSockets DEF Reconnect
<1>10. CASE BrowserStarts
  BY <1>10, ConnectKeepsSockets DEF BrowserStarts
<1>11. ASSUME NEW c \in Sockets, Opened(c) PROVE SocketInv'
  BY <1>11 DEF Opened, bridge, SocketInv, Drained, Running, OneSocket, Registration
<1>12. ASSUME NEW c \in Sockets, Closed(c) PROVE SocketInv'
  BY <1>12 DEF Closed, OnClose, bridge, SocketInv, Drained, Running, OneSocket, Registration
<1>13. ASSUME NEW c \in Sockets, Breaks(c) PROVE SocketInv'
  BY <1>13 DEF Breaks, OnClose, worker, SocketInv, Drained, Running, OneSocket, Registration
<1>14. CASE Disconnect
  BY <1>14 DEF Disconnect, bridge, SocketInv, Drained, Running, OneSocket, Registration
<1>15. CASE WorkerEnds
  BY <1>15 DEF WorkerEnds, bridge, SocketInv, Drained, Running, OneSocket, Registration
<1>16. ASSUME NEW r \in Requests, Send(r) \/ Resume(r) \/ Timeout(r) PROVE SocketInv'
  BY <1>0, <1>16 DEF Send, Resume, Timeout, worker, socketVars
<1>17. ASSUME NEW r \in Requests,
              CaptchaEnds(r) \/ FetchEnds(r) \/ CallbackArrives(r) \/ CallbackFails(r)
       PROVE  SocketInv'
  BY <1>0, <1>17 DEF CaptchaEnds, FetchEnds, CallbackArrives, CallbackFails, bridge, socketVars
<1>18. ASSUME NEW c \in Sockets, NEW r \in Requests, AnswerArrives(c, r)
       PROVE  SocketInv'
  BY <1>0, <1>18 DEF AnswerArrives, worker, socketVars
<1>19. ASSUME NEW c \in Sockets, TokenArrives(c) PROVE SocketInv'
  BY <1>0, <1>19 DEF TokenArrives, worker, socketVars
<1>20. ASSUME NEW c \in Sockets, NEW r \in Requests, Deliver(c, r) PROVE SocketInv'
  BY <1>0, <1>20 DEF Deliver, bridge, socketVars
<1>21. CASE TokenCaptured
  BY <1>0, <1>21 DEF TokenCaptured, bridge, socketVars
<1>22. CASE UNCHANGED vars
  BY <1>0, <1>22 DEF vars, bridge, worker, socketVars
<1> QED
  BY <1>1, <1>2, <1>3, <1>4, <1>5, <1>6, <1>7, <1>8, <1>9, <1>10, <1>11, <1>12, <1>13,
     <1>14, <1>15, <1>16, <1>17, <1>18, <1>19, <1>20, <1>21, <1>22
     DEF Next, BridgeStep, WorkerStep, Environment

-----------------------------------------------------------------------------
(* Every step keeps CallInv: one step per action that changes a future, a  *)
(* coroutine of send or the phase.                                         *)
LEMMA CallStep ==
    ASSUME Types, SocketInv, CallInv, [Next]_vars
    PROVE  CallInv'
<1> USE DEF Types
<1>0. CASE UNCHANGED <<phase, pending, call>>
  BY <1>0 DEF CallInv, PendingIsExact
<1>1. ASSUME NEW r \in Requests, Send(r) PROVE CallInv'
  BY <1>1 DEF Send, Returns, Usable, CallInv, PendingIsExact, SocketInv
<1>2. ASSUME NEW r \in Requests, Resume(r) \/ Timeout(r) PROVE CallInv'
  BY <1>2 DEF Resume, Timeout, Returns, CallInv, PendingIsExact
<1>3. ASSUME NEW r \in Requests, call' = Completed(r), UNCHANGED <<phase, pending>>
      PROVE  CallInv'
  BY <1>3 DEF Completed, CallInv, PendingIsExact
<1>4. ASSUME NEW c \in Sockets, NEW r \in Requests, AnswerArrives(c, r) PROVE CallInv'
  BY <1>3, <1>4 DEF AnswerArrives
<1>5. ASSUME NEW r \in Requests, CallbackArrives(r) PROVE CallInv'
  BY <1>3, <1>5 DEF CallbackArrives
<1>6. ASSUME NEW r \in Requests, CallbackFails(r) PROVE CallInv'
  BY <1>0, <1>3, <1>6 DEF CallbackFails
<1>7. CASE StopBegin \/ StopServer \/ Start
  BY <1>7 DEF StopBegin, StopServer, Start, CallInv, PendingIsExact
<1>8. CASE StopEnd
  BY <1>8 DEF StopEnd, Abandoned, CallInv, PendingIsExact
<1>9. CASE Crash
  BY <1>9 DEF Crash, CallInv, PendingIsExact
<1>10. ASSUME NEW c \in Sockets,
              Accept(c) \/ TokenArrives(c) \/ SeesClose(c) \/ HandlerEnds(c)
       PROVE  CallInv'
  BY <1>0, <1>10 DEF Accept, TokenArrives, SeesClose, HandlerEnds
<1>11. ASSUME NEW c \in Sockets, Opened(c) \/ Closed(c) \/ Breaks(c) PROVE CallInv'
  BY <1>0, <1>11 DEF Opened, Closed, Breaks, bridge
<1>12. CASE Connect \/ Reconnect \/ BrowserStarts
  BY <1>0, <1>12 DEF Connect, Reconnect, BrowserStarts
<1>13. CASE Disconnect \/ TokenCaptured \/ WorkerEnds
  BY <1>0, <1>13 DEF Disconnect, TokenCaptured, WorkerEnds, bridge
<1>14. ASSUME NEW r \in Requests, CaptchaEnds(r) \/ FetchEnds(r) PROVE CallInv'
  BY <1>0, <1>14 DEF CaptchaEnds, FetchEnds, bridge
<1>15. ASSUME NEW c \in Sockets, NEW r \in Requests, Deliver(c, r) PROVE CallInv'
  BY <1>0, <1>15 DEF Deliver, bridge
<1>16. CASE UNCHANGED vars
  BY <1>0, <1>16 DEF vars, bridge
<1> QED
  BY <1>1, <1>2, <1>4, <1>5, <1>6, <1>7, <1>8, <1>9, <1>10, <1>11, <1>12, <1>13,
     <1>14, <1>15, <1>16 DEF Next, BridgeStep, WorkerStep, Environment

-----------------------------------------------------------------------------
(* A disturbance is counted up to the bound. *)
LEMMA FaultType ==
    ASSUME Types, NEW kind, NEW hit \in SUBSET Requests, Fault(kind, hit)
    PROVE  faults' \in [count : 0..MaxFaults, hit : SUBSET Requests]
BY FaultsAssumption DEF Types, Fault

(* Every step keeps the types. *)
LEMMA TypeStep ==
    ASSUME Types, [Next]_vars
    PROVE  Types'
<1> USE DEF Types
<1>1. ASSUME NEW r \in Requests, Send(r) PROVE Types'
  BY <1>1 DEF Send, Returns, Usable, worker, memory
<1>2. ASSUME NEW r \in Requests, Resume(r) \/ Timeout(r) PROVE Types'
  BY <1>2 DEF Resume, Timeout, Returns, worker, memory, frames
<1>3. ASSUME NEW c \in Sockets, NEW r \in Requests, AnswerArrives(c, r) PROVE Types'
  BY <1>3 DEF AnswerArrives, Completed, worker, memory
<1>4. ASSUME NEW r \in Requests, CallbackArrives(r) PROVE Types'
  BY <1>4 DEF CallbackArrives, Completed, memory, frames
<1>5. ASSUME NEW r \in Requests, CallbackFails(r) PROVE Types'
  <2>1. faults' \in [count : 0..MaxFaults, hit : SUBSET Requests]
    BY <1>5, FaultType DEF CallbackFails
  <2> QED BY <1>5, <2>1 DEF CallbackFails, Completed, IsOpen, memory
<1>6. CASE StopBegin
  <2>1. faults' \in [count : 0..MaxFaults, hit : SUBSET Requests]
    BY <1>6, FaultType DEF StopBegin
  <2> QED BY <1>6, <2>1 DEF StopBegin, ServerClosed, worker, memory, frames
<1>7. CASE StopServer \/ Start
  BY <1>7 DEF StopServer, Start, ServerClosed, worker, memory, frames
<1>8. CASE StopEnd
  BY <1>8 DEF StopEnd, Abandoned, worker, memory, frames
<1>9. CASE Crash
  <2>1. faults' \in [count : 0..MaxFaults, hit : SUBSET Requests]
    BY <1>9, FaultType DEF Crash
  <2> QED BY <1>9, <2>1 DEF Crash, worker, memory
<1>10. ASSUME NEW c \in Sockets, Accept(c) \/ SeesClose(c) PROVE Types'
  BY <1>10 DEF Accept, SeesClose, worker, memory, frames
<1>11. ASSUME NEW c \in Sockets, TokenArrives(c) PROVE Types'
  BY <1>11 DEF TokenArrives, worker, memory
<1>12. ASSUME NEW c \in Sockets, HandlerEnds(c) PROVE Types'
  BY <1>12 DEF HandlerEnds, Unregistered, worker, memory
<1>13. ASSUME NEW m \in BOOLEAN, ConnectToAgent(m)
       PROVE  /\ ws' \in Sockets \cup {NoSocket}
              /\ client' \in [Sockets -> {"none", "connecting", "open", "closing", "closed"}]
              /\ server' \in [Sockets -> {"none", "open", "closed", "ended"}]
  BY <1>13 DEF ConnectToAgent, NewSocket
<1>14. CASE Connect \/ Reconnect \/ BrowserStarts
  BY <1>13, <1>14 DEF Connect, Reconnect, BrowserStarts, memory, frames
<1>15. ASSUME NEW c \in Sockets, Opened(c) PROVE Types'
  BY <1>15 DEF Opened, Reported, bridge
<1>16. ASSUME NEW c \in Sockets, Closed(c) PROVE Types'
  BY <1>16 DEF Closed, OnClose, bridge
<1>17. ASSUME NEW c \in Sockets, Breaks(c) PROVE Types'
  <2>1. faults' \in [count : 0..MaxFaults, hit : SUBSET Requests]
    BY <1>17, FaultType DEF Breaks
  <2> QED BY <1>17, <2>1 DEF Breaks, OnClose, worker, memory, frames
<1>18. CASE Disconnect
  <2>1. faults' \in [count : 0..MaxFaults, hit : SUBSET Requests]
    BY <1>18, FaultType DEF Disconnect
  <2> QED BY <1>18, <2>1 DEF Disconnect, bridge
<1>19. CASE TokenCaptured
  BY <1>19 DEF TokenCaptured, IsOpen, bridge
<1>20. CASE WorkerEnds
  <2>1. faults' \in [count : 0..MaxFaults, hit : SUBSET Requests]
    BY <1>20, FaultType DEF WorkerEnds
  <2> QED BY <1>20, <2>1 DEF WorkerEnds, bridge
<1>21. ASSUME NEW r \in Requests, CaptchaEnds(r) PROVE Types'
  BY <1>21 DEF CaptchaEnds, bridge, memory, frames
<1>22. ASSUME NEW r \in Requests, FetchEnds(r) PROVE Types'
  BY <1>22 DEF FetchEnds, SendToAgent, bridge, memory
<1>23. ASSUME NEW c \in Sockets, NEW r \in Requests, Deliver(c, r) PROVE Types'
  BY <1>23 DEF Deliver, bridge, memory
<1>24. CASE UNCHANGED vars
  BY <1>24 DEF vars, bridge, worker, memory, frames
<1> QED
  BY <1>1, <1>2, <1>3, <1>4, <1>5, <1>6, <1>7, <1>8, <1>9, <1>10, <1>11, <1>12, <1>14,
     <1>15, <1>16, <1>17, <1>18, <1>19, <1>20, <1>21, <1>22, <1>23, <1>24
     DEF Next, BridgeStep, WorkerStep, Environment

-----------------------------------------------------------------------------
(* The inductive invariant holds in every reachable state of the bridge    *)
(* and the extension.                                                      *)
THEOREM Invariance == Spec => []IInv
<1>1. Init => IInv
  <2>1. Init => Types
    <3>1. [count |-> 0, hit |-> {}] \in [count : 0..MaxFaults, hit : SUBSET Requests]
      BY FaultsAssumption
    <3> QED BY <3>1 DEF Init, Types
  <2>2. Init => SocketInv
    BY DEF Init, SocketInv, OneSocket, Registration, Drained, Running
  <2>3. Init => CallInv
    BY DEF Init, CallInv, PendingIsExact
  <2> QED BY <2>1, <2>2, <2>3 DEF IInv
<1>2. IInv /\ [Next]_vars => IInv'
  BY SocketStep, CallStep, TypeStep DEF IInv
<1> QED BY <1>1, <1>2, PTL DEF Spec

(* Every variable keeps its type, and a bridge whose stop has ended keeps  *)
(* no connection, no handler and no pending request.                       *)
THEOREM TypeCorrect == Spec => []TypeOK
<1>1. IInv => TypeOK
  BY DEF IInv, SocketInv, CallInv, TypeOK
<1> QED BY <1>1, Invariance, PTL

(* However many callers connectToAgent has, the extension holds one live   *)
(* socket.                                                                 *)
THEOREM OneSocketHolds == Spec => []OneSocket
<1>1. IInv => OneSocket
  BY DEF IInv, SocketInv
<1> QED BY <1>1, Invariance, PTL

(* Requests that wait can be found by an answer, and send leaves nothing   *)
(* in _pending.                                                            *)
THEOREM PendingIsExactHolds == Spec => []PendingIsExact
<1>1. IInv => PendingIsExact
  BY DEF IInv, CallInv
<1> QED BY <1>1, Invariance, PTL

(* send uses the connection that is open at both ends, although handlers   *)
(* of earlier connections end later than it begins.                        *)
THEOREM NewestIsRegisteredHolds == Spec => []NewestIsRegistered
<1>1. IInv => NewestIsRegistered
  BY DEF IInv, Types, SocketInv, Registration, NewestIsRegistered, IsOpen
<1> QED BY <1>1, Invariance, PTL

(* What a step may do to a request that has its answer. *)
Stays(r) ==
    /\ call[r] \in {"answered", "failed"} => call'[r] \in {call[r], "done"}
    /\ call[r] = "done" => call'[r] = "done"

(* No stop and no second answer takes away the answer that a caller has    *)
(* got and not yet returned.                                               *)
THEOREM FirstAnswerStaysHolds == Spec => FirstAnswerStays
<1>1. ASSUME Types, [Next]_vars, NEW r \in Requests PROVE Stays(r)
  <2>0. CASE UNCHANGED call
    BY <2>0 DEF Stays
  <2>1. ASSUME NEW q \in Requests, Send(q) PROVE Stays(r)
    BY <1>1, <2>1 DEF Send, Returns, Types, Stays
  <2>2. ASSUME NEW q \in Requests, Resume(q) \/ Timeout(q) PROVE Stays(r)
    BY <1>1, <2>2 DEF Resume, Timeout, Returns, Types, Stays
  <2>3. ASSUME NEW q \in Requests, call' = Completed(q) PROVE Stays(r)
    BY <1>1, <2>3 DEF Completed, Types, Stays
  <2>4. ASSUME NEW q \in Requests, CallbackArrives(q) \/ CallbackFails(q) PROVE Stays(r)
    BY <2>0, <2>3, <2>4 DEF CallbackArrives, CallbackFails
  <2>5. ASSUME NEW c \in Sockets, NEW q \in Requests, AnswerArrives(c, q) PROVE Stays(r)
    BY <2>3, <2>5 DEF AnswerArrives
  <2>6. CASE StopEnd
    BY <1>1, <2>6 DEF StopEnd, Abandoned, Stays
  <2>7. CASE Crash
    BY <1>1, <2>7 DEF Crash, Stays
  <2>8. CASE StopBegin \/ StopServer \/ Start
    BY <2>0, <2>8 DEF StopBegin, StopServer, Start
  <2>9. ASSUME NEW c \in Sockets,
               Accept(c) \/ TokenArrives(c) \/ SeesClose(c) \/ HandlerEnds(c)
        PROVE  Stays(r)
    BY <2>0, <2>9 DEF Accept, TokenArrives, SeesClose, HandlerEnds
  <2>10. ASSUME NEW c \in Sockets, Opened(c) \/ Closed(c) \/ Breaks(c) PROVE Stays(r)
    BY <2>0, <2>10 DEF Opened, Closed, Breaks, bridge
  <2>11. CASE Connect \/ Reconnect \/ BrowserStarts
    BY <2>0, <2>11 DEF Connect, Reconnect, BrowserStarts
  <2>12. CASE Disconnect \/ TokenCaptured \/ WorkerEnds
    BY <2>0, <2>12 DEF Disconnect, TokenCaptured, WorkerEnds, bridge
  <2>13. ASSUME NEW q \in Requests, CaptchaEnds(q) \/ FetchEnds(q) PROVE Stays(r)
    BY <2>0, <2>13 DEF CaptchaEnds, FetchEnds, bridge
  <2>14. ASSUME NEW c \in Sockets, NEW q \in Requests, Deliver(c, q) PROVE Stays(r)
    BY <2>0, <2>14 DEF Deliver, bridge
  <2>15. CASE UNCHANGED vars
    BY <2>0, <2>15 DEF vars, bridge
  <2> QED
    BY <1>1, <2>1, <2>2, <2>4, <2>5, <2>6, <2>7, <2>8, <2>9, <2>10, <2>11, <2>12, <2>13, <2>14, <2>15
       DEF Next, BridgeStep, WorkerStep, Environment
<1>2. IInv /\ [Next]_vars => [\A r \in Requests : Stays(r)]_vars
  BY <1>1 DEF IInv
<1> QED BY <1>2, Invariance, PTL DEF Spec, FirstAnswerStays, Stays
============================================================================
