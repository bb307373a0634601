----------------------- MODULE ClientLifecycleProofs -----------------------
(***************************************************************************)
(* Whatever the threads of clipscontrol and the server do, nobody finds    *)
(* the socket taken away before a connection was lost or the user leaves.  *)
(***************************************************************************)
EXTENDS ClientLifecycle, TLAPS

(* While the user stays and no connection was lost: who has looked at      *)
(* socketPtr still finds a socket there, and nobody is about to reset it.  *)
SocketHeld ==
  running /\ ~lost =>
    /\ main \in {"poll", "send"}
    /\ main = "send" => socketPtr # "null"
    /\ connector \notin {"test", "make"} => socketPtr # "null"
    /\ socketPtr # "broken"
    /\ service # "test"

(* The service thread is started after the socket was connected.           *)
ServiceAfterConnect ==
  /\ connector \in {"test", "make", "open", "connect", "receive", "start"} => service = "none"
  /\ connector = "assign" => service # "none"

Flags == {serviceThreadPtr, stopped, reading, unread, running, online, lost, listening}

IInv == TypeOK /\ SocketStays /\ SocketHeld /\ ServiceAfterConnect

LEMMA InitInv == Init => IInv
BY DEF Init, IInv, TypeOK, SocketStays, SocketHeld, ServiceAfterConnect

(* asyncConnectTask() and connect().                                       *)
LEMMA ConnectorKeeps ==
  ASSUME IInv, crash = "none", ConnectorStep
  PROVE  IInv'
<1>1. CASE TestSocket
  <2>1. Flags' \subseteq BOOLEAN
    BY <1>1 DEF IInv, TypeOK, Flags, TestSocket
  <2>. QED BY <1>1, <2>1 DEF IInv, TypeOK, SocketStays, SocketHeld, ServiceAfterConnect,
                          TestSocket, Flags
<1>2. CASE MakeSocket
  <2>1. Flags' \subseteq BOOLEAN
    BY <1>2 DEF IInv, TypeOK, Flags, MakeSocket
  <2>. QED BY <1>2, <2>1 DEF IInv, TypeOK, SocketStays, SocketHeld, ServiceAfterConnect,
                          MakeSocket, Flags
<1>3. CASE Connect
  <2>1. Flags' \subseteq BOOLEAN
    BY <1>3 DEF IInv, TypeOK, Flags, Connect, Dereference, Crash, SocketAfterFailure, threads
  <2>. QED BY <1>3, <2>1 DEF IInv, TypeOK, SocketStays, SocketHeld, ServiceAfterConnect,
                          Connect, Dereference, Crash, SocketAfterFailure, threads,
                          Flags
<1>4. CASE BeginReceive
  <2>1. Flags' \subseteq BOOLEAN
    BY <1>4 DEF IInv, TypeOK, Flags, BeginReceive, Dereference, Crash, threads
  <2>. QED BY <1>4, <2>1 DEF IInv, TypeOK, SocketStays, SocketHeld, ServiceAfterConnect,
                          BeginReceive, Dereference, Crash, threads, Flags
<1>5. CASE StartThread
  <2>1. Flags' \subseteq BOOLEAN
    BY <1>5 DEF IInv, TypeOK, Flags, StartThread, StartedThread
  <2>. QED BY <1>5, <2>1 DEF IInv, TypeOK, SocketStays, SocketHeld, ServiceAfterConnect,
                          StartThread, StartedThread, Flags
<1>6. CASE AssignThread
  <2>1. Flags' \subseteq BOOLEAN
    BY <1>6 DEF IInv, TypeOK, Flags, AssignThread
  <2>. QED BY <1>6, <2>1 DEF IInv, TypeOK, SocketStays, SocketHeld, ServiceAfterConnect,
                          AssignThread, Flags
<1>7. CASE OnConnected
  <2>1. Flags' \subseteq BOOLEAN
    BY <1>7 DEF IInv, TypeOK, Flags, OnConnected
  <2>. QED BY <1>7, <2>1 DEF IInv, TypeOK, SocketStays, SocketHeld, ServiceAfterConnect,
                          OnConnected, Flags
<1>8. CASE OpenSocket
  <2>1. Flags' \subseteq BOOLEAN
    BY <1>8 DEF IInv, TypeOK, Flags, OpenSocket, Dereference, Crash, threads
  <2>. QED BY <1>8, <2>1 DEF IInv, TypeOK, SocketStays, SocketHeld, ServiceAfterConnect,
                          OpenSocket, Dereference, Crash, threads, Flags
<1>. QED BY <1>1, <1>2, <1>3, <1>4, <1>5, <1>6, <1>7, <1>8 DEF ConnectorStep

(* The main thread.                                                        *)
LEMMA MainKeeps ==
  ASSUME IInv, crash = "none", MainStep
  PROVE  IInv'
<1>1. CASE Send
  <2>1. Flags' \subseteq BOOLEAN
    BY <1>1 DEF IInv, TypeOK, Flags, Send, Dereference, Crash, threads
  <2>. QED BY <1>1, <2>1 DEF IInv, TypeOK, SocketStays, SocketHeld, ServiceAfterConnect,
                          Send, Dereference, Crash, threads, Flags
<1>2. CASE Abort
  <2>1. Flags' \subseteq BOOLEAN
    BY <1>2 DEF IInv, TypeOK, Flags, Abort
  <2>. QED BY <1>2, <2>1 DEF IInv, TypeOK, SocketStays, SocketHeld, ServiceAfterConnect,
                          Abort, Flags
<1>3. CASE Stop
  <2>1. Flags' \subseteq BOOLEAN
    BY <1>3 DEF IInv, TypeOK, Flags, Stop, StopService
  <2>. QED BY <1>3, <2>1 DEF IInv, TypeOK, SocketStays, SocketHeld, ServiceAfterConnect,
                          Stop, StopService, Flags
<1>4. CASE Join
  <2>1. Flags' \subseteq BOOLEAN
    BY <1>4 DEF IInv, TypeOK, Flags, Join
  <2>. QED BY <1>4, <2>1 DEF IInv, TypeOK, SocketStays, SocketHeld, ServiceAfterConnect,
                          Join, Flags
<1>5. CASE ResetSocket
  <2>1. Flags' \subseteq BOOLEAN
    BY <1>5 DEF IInv, TypeOK, Flags, ResetSocket
  <2>. QED BY <1>5, <2>1 DEF IInv, TypeOK, SocketStays, SocketHeld, ServiceAfterConnect,
                          ResetSocket, Flags
<1>6. CASE Exit
  <2>1. Flags' \subseteq BOOLEAN
    BY <1>6 DEF IInv, TypeOK, Flags, Exit, Crash, threads
  <2>. QED BY <1>6, <2>1 DEF IInv, TypeOK, SocketStays, SocketHeld, ServiceAfterConnect,
                          Exit, Crash, threads, Flags
<1>. QED BY <1>1, <1>2, <1>3, <1>4, <1>5, <1>6 DEF MainStep

(* The service thread.                                                     *)
LEMMA ServiceKeeps ==
  ASSUME IInv, crash = "none", ServiceStep
  PROVE  IInv'
<1>1. CASE RunReturns
  <2>1. Flags' \subseteq BOOLEAN
    BY <1>1 DEF IInv, TypeOK, Flags, RunReturns
  <2>. QED BY <1>1, <2>1 DEF IInv, TypeOK, SocketStays, SocketHeld, ServiceAfterConnect,
                          RunReturns, Flags
<1>2. CASE ReadMessage
  <2>1. Flags' \subseteq BOOLEAN
    BY <1>2 DEF IInv, TypeOK, Flags, ReadMessage
  <2>. QED BY <1>2, <2>1 DEF IInv, TypeOK, SocketStays, SocketHeld, ServiceAfterConnect,
                          ReadMessage, Flags
<1>3. CASE ReadAgain
  <2>1. Flags' \subseteq BOOLEAN
    BY <1>3 DEF IInv, TypeOK, Flags, ReadAgain, Dereference, Crash, threads
  <2>. QED BY <1>3, <2>1 DEF IInv, TypeOK, SocketStays, SocketHeld, ServiceAfterConnect,
                          ReadAgain, Dereference, Crash, threads, Flags
<1>4. CASE ReadError
  <2>1. Flags' \subseteq BOOLEAN
    BY <1>4 DEF IInv, TypeOK, Flags, ReadError
  <2>. QED BY <1>4, <2>1 DEF IInv, TypeOK, SocketStays, SocketHeld, ServiceAfterConnect,
                          ReadError, Flags
<1>5. CASE DisconnectSelf
  <2>1. Flags' \subseteq BOOLEAN
    BY <1>5 DEF IInv, TypeOK, Flags, DisconnectSelf, Crash, threads
  <2>. QED BY <1>5, <2>1 DEF IInv, TypeOK, SocketStays, SocketHeld, ServiceAfterConnect,
                          DisconnectSelf, Crash, threads, Flags
<1>. QED BY <1>1, <1>2, <1>3, <1>4, <1>5 DEF ServiceStep

(* The user and the server.                                                *)
LEMMA OtherKeeps ==
  ASSUME IInv, crash = "none", Command \/ Leave \/ ServerStarts \/ ServerStops \/ ServerSends
  PROVE  IInv'
<1>1. CASE Command
  <2>1. Flags' \subseteq BOOLEAN
    BY <1>1 DEF IInv, TypeOK, Flags, Command
  <2>. QED BY <1>1, <2>1 DEF IInv, TypeOK, SocketStays, SocketHeld, ServiceAfterConnect,
                          Command, Flags
<1>2. CASE Leave
  <2>1. Flags' \subseteq BOOLEAN
    BY <1>2 DEF IInv, TypeOK, Flags, Leave
  <2>. QED BY <1>2, <2>1 DEF IInv, TypeOK, SocketStays, SocketHeld, ServiceAfterConnect,
                          Leave, Flags
<1>3. CASE ServerStarts
  <2>1. Flags' \subseteq BOOLEAN
    BY <1>3 DEF IInv, TypeOK, Flags, ServerStarts, threads
  <2>. QED BY <1>3, <2>1 DEF IInv, TypeOK, SocketStays, SocketHeld, ServiceAfterConnect,
                          ServerStarts, threads, Flags
<1>4. CASE ServerStops
  <2>1. Flags' \subseteq BOOLEAN
    BY <1>4 DEF IInv, TypeOK, Flags, ServerStops, threads
  <2>. QED BY <1>4, <2>1 DEF IInv, TypeOK, SocketStays, SocketHeld, ServiceAfterConnect,
                          ServerStops, threads, Flags
<1>5. CASE ServerSends
  <2>1. Flags' \subseteq BOOLEAN
    BY <1>5 DEF IInv, TypeOK, Flags, ServerSends, threads
  <2>. QED BY <1>5, <2>1 DEF IInv, TypeOK, SocketStays, SocketHeld, ServiceAfterConnect,
                          ServerSends, threads, Flags
<1>. QED BY <1>1, <1>2, <1>3, <1>4, <1>5

LEMMA NextKeeps == IInv /\ [Next]_vars => IInv'
<1>. SUFFICES ASSUME IInv, [Next]_vars PROVE IInv'
  OBVIOUS
<1>1. CASE UNCHANGED vars
  BY <1>1 DEF IInv, TypeOK, SocketStays, SocketHeld, ServiceAfterConnect, vars, threads
<1>2. CASE Next
  BY <1>2, ConnectorKeeps, MainKeeps, ServiceKeeps, OtherKeeps DEF Next
<1>. QED BY <1>1, <1>2

LEMMA Invariance == Spec => []IInv
BY InitInv, NextKeeps, PTL DEF Spec

(* The variables of the client have their types, in every state.           *)
THEOREM TypeCorrect == Spec => []TypeOK
<1>1. IInv => TypeOK
  BY DEF IInv
<1>. QED BY <1>1, Invariance, PTL

(* connect(), sendCommand() and asyncReadHandler() never find socketPtr    *)
(* reset between its test and its use, before a connection was lost or the *)
(* user leaves.                                                            *)
THEOREM SocketAlwaysStays == Spec => []SocketStays
<1>1. IInv => SocketStays
  BY DEF IInv
<1>. QED BY <1>1, Invariance, PTL
=============================================================================
