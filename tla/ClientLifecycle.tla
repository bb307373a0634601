-------------------------- MODULE ClientLifecycle --------------------------
(***************************************************************************)
(* The connection of a client: connect() and disconnect() of the client    *)
(* library (clipsclient.cpp) as clipscontrol (clipscontrol/src/main.cpp)   *)
(* uses them, on three threads: the main thread serves the user and        *)
(* disconnects when it leaves, a second one tries to connect, and the      *)
(* service thread reads.  They share socketPtr, serviceThreadPtr and the   *)
(* io_service without a lock, so that each access is an action.            *)
(*                                                                         *)
(* The wait of a call for its reply is ClipsClient's matter.  A connection *)
(* that is lost ends the process (selfJoin below), so that disconnectedEH  *)
(* never starts a second connection thread.                                *)
(***************************************************************************)
EXTENDS Naturals

CONSTANT HandlerAsks    \* the handler of messages calls rpc(), clipscontrol's does not
ASSUME HandlerAssumption == HandlerAsks \in BOOLEAN

VARIABLES socketPtr,    \* "null", "fresh" (not open), "unconnected", "connected" or "broken"
          serviceThreadPtr,  \* it is set
          stopped,      \* the io_service is
          reading,      \* an asynchronous read is outstanding
          unread,       \* the connection holds a message nobody read
          running,      \* of main.cpp
          online,       \* what the window shows
          main, connector, service,     \* where the threads are
          crash,        \* what ended the process, "none" as long as it lives
          lost,         \* the connection was lost
          listening     \* there is a server

threads == <<main, connector, service>>
vars == <<socketPtr, serviceThreadPtr, stopped, reading, unread, running, online, threads,
          crash, lost, listening>>

Init ==
  /\ socketPtr = "null" /\ serviceThreadPtr = FALSE
  /\ stopped = FALSE /\ reading = FALSE /\ unread = FALSE
  /\ running = TRUE /\ online = FALSE
  /\ main = "poll" /\ connector = "test" /\ service = "none"
  /\ crash = "none" /\ lost = FALSE /\ listening \in BOOLEAN

Crash(why) ==
  /\ crash' = why
  /\ UNCHANGED <<socketPtr, serviceThreadPtr, stopped, reading, unread, running, online,
                 threads, lost, listening>>

Dereference == IF socketPtr = "null" THEN Crash("nullSocket") ELSE FALSE

------------------------------------------------------------------------------
(* asyncConnectTask() and connect().                                       *)

TestSocket ==
  /\ connector = "test"
  /\ \/ ~running /\ connector' = "ended"
     \/ running /\ socketPtr = "null" /\ connector' = "make"
  /\ UNCHANGED <<socketPtr, serviceThreadPtr, stopped, reading, unread, running, online,
                 main, service, crash, lost, listening>>

MakeSocket ==
  /\ connector = "make"
  /\ socketPtr' = "fresh"
  /\ connector' = "open"
  /\ UNCHANGED <<serviceThreadPtr, stopped, reading, unread, running, online, main, service,
                 crash, lost, listening>>

(* socketPtr->connect() opens the socket, ...                              *)
OpenSocket ==
  /\ connector = "open"
  /\ \/ Dereference
     \/ /\ socketPtr # "null"
        /\ socketPtr' = "unconnected" /\ connector' = "connect"
        /\ UNCHANGED <<serviceThreadPtr, stopped, reading, unread, running, online, main,
                       service, crash, lost, listening>>

\* Mutant: a socket that did not connect is given back.
SocketDropped == "null"
\* The socket of an attempt that failed is kept, and it is open.
SocketAfterFailure == "unconnected"

(* ... then connects it.                                                   *)
Connect ==
  /\ connector = "connect"
  /\ \/ Dereference
     \/ /\ socketPtr # "null" /\ listening
        /\ socketPtr' = "connected" /\ connector' = "receive"
        /\ UNCHANGED <<serviceThreadPtr, stopped, reading, unread, running, online, main,
                       service, crash, lost, listening>>
     \/ /\ socketPtr # "null" /\ ~listening
        /\ socketPtr' = SocketAfterFailure /\ connector' = "test"
        /\ UNCHANGED <<serviceThreadPtr, stopped, reading, unread, running, online, main,
                       service, crash, lost, listening>>

BeginReceive ==
  /\ connector = "receive"
  /\ \/ Dereference
     \/ /\ socketPtr # "null"
        /\ reading' = TRUE /\ connector' = "start"
        /\ UNCHANGED <<socketPtr, serviceThreadPtr, stopped, unread, running, online, main,
                       service, crash, lost, listening>>

\* Mutant: the thread is not started.
ThreadForgotten == "none"
StartedThread == "run"

StartThread ==
  /\ connector = "start"
  /\ service' = StartedThread /\ connector' = "assign"
  /\ UNCHANGED <<socketPtr, serviceThreadPtr, stopped, reading, unread, running, online,
                 main, crash, lost, listening>>

AssignThread ==
  /\ connector = "assign"
  /\ serviceThreadPtr' = TRUE /\ connector' = "event"
  /\ UNCHANGED <<socketPtr, stopped, reading, unread, running, online, main, service, crash,
                 lost, listening>>

OnConnected ==
  /\ connector = "event"
  /\ online' = TRUE /\ connector' = "ended"
  /\ UNCHANGED <<socketPtr, serviceThreadPtr, stopped, reading, unread, running, main,
                 service, crash, lost, listening>>

------------------------------------------------------------------------------
(* The main thread: a command looks for an open socket and uses it         *)
(* afterwards; leaving disconnects.  At exit the destructor of acThreadPtr finds a     *)
(* thread nobody joined and calls std::terminate().                        *)

Command ==
  /\ main = "poll" /\ socketPtr \notin {"null", "fresh"}
  /\ main' = "send"
  /\ UNCHANGED <<socketPtr, serviceThreadPtr, stopped, reading, unread, running, online,
                 connector, service, crash, lost, listening>>

Send ==
  /\ main = "send"
  /\ \/ Dereference
     \/ socketPtr \in {"fresh", "unconnected", "broken"} /\ Crash("sendThrows")
     \/ /\ socketPtr \in {"connected", "broken"}
        /\ main' = "poll"
        /\ UNCHANGED <<socketPtr, serviceThreadPtr, stopped, reading, unread, running,
                       online, connector, service, crash, lost, listening>>

Leave ==
  /\ main = "poll"
  /\ running' = FALSE /\ main' = "abort"
  /\ UNCHANGED <<socketPtr, serviceThreadPtr, stopped, reading, unread, online, connector,
                 service, crash, lost, listening>>

(* abortAllRPC() releases the handler that waits for a reply.              *)
Abort ==
  /\ main = "abort"
  /\ main' = "test"
  /\ service' = IF service = "rpc" THEN "again" ELSE service
  /\ UNCHANGED <<socketPtr, serviceThreadPtr, stopped, reading, unread, running, online,
                 connector, crash, lost, listening>>

\* Mutant: the service is not stopped.
StopForgotten == stopped
StopService == TRUE

Stop ==
  /\ main = "test"
  /\ \/ /\ serviceThreadPtr
        /\ stopped' = StopService /\ main' = "join"
     \/ /\ ~serviceThreadPtr
        /\ main' = "reset" /\ UNCHANGED stopped
  /\ UNCHANGED <<socketPtr, serviceThreadPtr, reading, unread, running, online, connector,
                 service, crash, lost, listening>>

Join ==
  /\ main = "join" /\ service = "ended"
  /\ online' = FALSE /\ main' = "reset"
  /\ UNCHANGED <<socketPtr, serviceThreadPtr, stopped, reading, unread, running, connector,
                 service, crash, lost, listening>>

ResetSocket ==
  /\ main = "reset"
  /\ socketPtr' = "null"
  /\ main' = "left"
  /\ UNCHANGED <<serviceThreadPtr, stopped, reading, unread, running, online, connector,
                 service, crash, lost, listening>>

Exit == main = "left" /\ Crash("joinable")

------------------------------------------------------------------------------
(* The service thread: io_service.run() and asyncReadHandler().            *)

(* run() returns when the service is stopped or has nothing left to do.    *)
RunReturns ==
  /\ service = "run" /\ (stopped \/ ~reading)
  /\ stopped' = TRUE /\ service' = "ended"
  /\ UNCHANGED <<socketPtr, serviceThreadPtr, reading, unread, running, online, main,
                 connector, crash, lost, listening>>

ReadMessage ==
  /\ service = "run" /\ ~stopped /\ reading /\ unread
  /\ unread' = FALSE /\ reading' = FALSE
  /\ service' = IF HandlerAsks THEN "rpc" ELSE "again"
  /\ UNCHANGED <<socketPtr, serviceThreadPtr, stopped, running, online, main, connector,
                 crash, lost, listening>>

ReadAgain ==
  /\ service = "again"
  /\ \/ Dereference
     \/ /\ socketPtr # "null"
        /\ reading' = TRUE /\ service' = "run"
        /\ UNCHANGED <<socketPtr, serviceThreadPtr, stopped, unread, running, online, main,
                       connector, crash, lost, listening>>

ReadError ==
  /\ service = "run" /\ ~stopped /\ reading /\ socketPtr \in {"broken", "null"}
  /\ reading' = FALSE /\ service' = "test"
  /\ UNCHANGED <<socketPtr, serviceThreadPtr, stopped, unread, running, online, main,
                 connector, crash, lost, listening>>

(* disconnect() on the service thread, which cannot join itself.           *)
DisconnectSelf ==
  /\ service = "test"
  /\ \/ serviceThreadPtr /\ Crash("selfJoin")
     \/ /\ ~serviceThreadPtr
        /\ socketPtr' = "null" /\ service' = "run"
        /\ UNCHANGED <<serviceThreadPtr, stopped, reading, unread, running, online, main,
                       connector, crash, lost, listening>>

------------------------------------------------------------------------------
(* The server.                                                             *)

ServerStarts ==
  /\ ~listening
  /\ listening' = TRUE
  /\ UNCHANGED <<socketPtr, serviceThreadPtr, stopped, reading, unread, running, online,
                 threads, crash, lost>>

ServerStops ==
  /\ listening
  /\ listening' = FALSE
  /\ \/ socketPtr = "connected" /\ socketPtr' = "broken" /\ lost' = TRUE
     \/ socketPtr # "connected" /\ UNCHANGED <<socketPtr, lost>>
  /\ UNCHANGED <<serviceThreadPtr, stopped, reading, unread, running, online, threads,
                 crash>>

ServerSends ==
  /\ socketPtr = "connected" /\ ~unread
  /\ unread' = TRUE
  /\ UNCHANGED <<socketPtr, serviceThreadPtr, stopped, reading, running, online, threads,
                 crash, lost, listening>>

------------------------------------------------------------------------------
ConnectorStep == \/ TestSocket \/ MakeSocket \/ OpenSocket \/ Connect \/ BeginReceive \/ StartThread
                 \/ AssignThread \/ OnConnected
MainStep == Send \/ Abort \/ Stop \/ Join \/ ResetSocket \/ Exit
ServiceStep == RunReturns \/ ReadMessage \/ ReadAgain \/ ReadError \/ DisconnectSelf

Next ==
  /\ crash = "none"
  /\ \/ ConnectorStep \/ MainStep \/ ServiceStep
     \/ Command \/ Leave
     \/ ServerStarts \/ ServerStops \/ ServerSends

Alive(A) == crash = "none" /\ A

(* Each thread goes on as long as it can; the user and the server may      *)
(* stay away.                                                              *)
Spec == /\ Init /\ [][Next]_vars
        /\ WF_vars(Alive(ConnectorStep))
        /\ WF_vars(Alive(MainStep))
        /\ WF_vars(Alive(ServiceStep))

------------------------------------------------------------------------------
TypeOK ==
  /\ socketPtr \in {"null", "fresh", "unconnected", "connected", "broken"}
  /\ {serviceThreadPtr, stopped, reading, unread, running, online, lost, listening}
       \subseteq BOOLEAN
  /\ main \in {"poll", "send", "abort", "test", "join", "reset", "left"}
  /\ connector \in {"test", "make", "open", "connect", "receive", "start", "assign",
                    "event", "ended"}
  /\ service \in {"none", "run", "rpc", "again", "test", "ended"}
  /\ crash \in {"none", "nullSocket", "sendThrows", "selfJoin", "joinable"}
  /\ serviceThreadPtr => service # "none"

(* Commands and connection attempts use socketPtr without a lock, yet no   *)
(* thread finds it reset between its test and its use, unless the          *)
(* connection was lost or the user leaves: an attempt that fails keeps the *)
(* socket (connect(), sendCommand()).                                      *)
SocketStays == crash = "nullSocket" => lost \/ ~running

(* A message of the server is read and handled, while the connection       *)
(* stands and the user does not leave (connect(), asyncReadHandler()).     *)
ConnectionIsServed ==
  unread ~> ~unread \/ ~running \/ socketPtr # "connected" \/ crash # "none"

(* connect() is under way.                                                 *)
Attempting == connector \in {"make", "open", "connect", "receive", "start", "assign"}

(* Leaving ends as written: the service thread is stopped and joined,      *)
(* disconnect() comes back and main() returns, to end in the destructor of *)
(* acThreadPtr ("joinable").  The one other end is that of a process that  *)
(* loses its connection in the meantime.  Excepted is leaving while an     *)
(* attempt to connect is under way (disconnect()).                         *)
LeavingEnds ==
  main = "abort" /\ ~Attempting ~> crash = "joinable" \/ (crash = "selfJoin" /\ lost)

(* disconnect(), called while an attempt is under way, does not take the   *)
(* socket away from it.                                                    *)
LeavingIsSafe == crash # "nullSocket"

(* A client that loses its connection goes offline (asyncReadHandler()).   *)
LossIsSurvived == crash # "selfJoin"

(* "Connects to ClipsServer": a program that keeps trying gets connected   *)
(* once there is a server to connect to.                                   *)
RetrySucceeds == <>[]listening => <>(online \/ ~running \/ crash # "none")

(* "Indicates whether the application is running or shutting down": while  *)
(* it runs, the window shows Online only with a connection.                *)
OnlineIsConnected == online /\ running /\ crash = "none" => socketPtr # "null"

==============================================================================
