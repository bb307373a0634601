----------------------------- MODULE ClipsClient -----------------------------
(***************************************************************************)
(* The remote procedure calls of the client library (clipsclient.cpp).     *)
(*                                                                         *)
(* Caller threads send a command and wait on a condition variable; the     *)
(* service thread reads the connection and files each reply in the map     *)
(* pendingCommands; another thread may disconnect meanwhile.  Every        *)
(* critical section of pcmutex is one action, a notify_all() issued after  *)
(* the unlock is an action of its own, and so are the unprotected accesses *)
(* to lastCommandId and socketPtr.                                         *)
(*                                                                         *)
(* The server is reduced to what a client sees of it: it answers the       *)
(* commands of a connection in order.  ClipsServer details it.             *)
(***************************************************************************)
EXTENDS Naturals, Sequences, Functions

CONSTANTS Callers,    \* threads that call rpc() or sendRaw()
          IdMod,      \* number of command identifiers: 2^32 in the code
          MaxCalls,   \* bound: calls made by each caller
          AllCalls,   \* bound: calls made by all of them
          SerialIds,  \* TRUE: the callers construct their Requests one at a time
          NULL,       \* a registered command whose reply has not arrived
          Absent      \* a key pendingCommands does not hold

ASSUME ConstantsAssumption ==
    /\ IdMod \in Nat /\ IdMod > 1
    /\ MaxCalls \in Nat /\ AllCalls \in Nat
    /\ SerialIds \in BOOLEAN
    /\ NULL # Absent

Ids == 0 .. IdMod - 1

\* Mutant: the identifier of a status is a small number, as it would be in 8 bits.
CommandIdLow == 1
\* (uint32_t) -1, the identifier of a status message.
CommandIdNone == IdMod - 1

Commands == {"raw", "watch"}    \* "watch" changes the status of the server, "raw" does not
Request == [id : Ids, by : Callers, n : 1 .. MaxCalls, cmd : Commands]

\* What the server sends: the watches it publishes (none in an ack or a text).
Reply   == [kind : {"ack"}, id : Ids, rq : Request, watches : Nat]
Status  == [kind : {"status"}, watches : Nat]
Text    == [kind : {"text"}]
Message == Reply \cup Status \cup Text

ASSUME ReplyAssumption == NULL \notin Reply \cup Request /\ Absent \notin Reply

VARIABLES alive,            \* FALSE: the process got a signal or called std::terminate()
          socketPtr,        \* "open" or "null"
          peerOpen,         \* the server has not closed the connection
          lastCommandId,    \* Request::lastCommandId
          pc, idReg,        \* per caller: where it is, its private copy of lastCommandId
          call,             \* per caller: the request it is making or made last
          calls,            \* per caller: number of calls begun
          raw,              \* per caller: sendRaw(), which does not wait for the reply
          returned,         \* per caller: the reply its last rpc() returned, NULL if none
          pendingCommands,
          clipsStatus,      \* watches of the latest status message handled
          ioPc,             \* the service thread
          dPc,              \* the thread that disconnects
          toServer, toClient,
          serverWatches     \* number of changes of the watches, at the server

callerVars == <<pc, idReg, call, calls, raw, returned>>
serverVars == <<peerOpen, serverWatches>>
vars == <<alive, socketPtr, lastCommandId, callerVars, pendingCommands, clipsStatus,
          ioPc, dPc, toServer, toClient, serverVars>>

CallerPc == {"idle", "readId", "writeId", "send", "register", "await", "asleep", "woken"}
IoPc     == {"read", "notify", "abortNotify", "join", "stopped"}
DPc      == {"idle", "notify", "join", "reset", "done"}

TypeOK ==
    /\ alive \in BOOLEAN
    /\ socketPtr \in {"open", "null"}
    /\ peerOpen \in BOOLEAN
    /\ lastCommandId \in Ids
    /\ pc \in [Callers -> CallerPc]
    /\ idReg \in [Callers -> Ids]
    /\ call \in [Callers -> Request \cup {NULL}]
    /\ \A t \in Callers : pc[t] \notin {"idle"} => call[t] \in Request
    /\ calls \in [Callers -> 0 .. MaxCalls]
    /\ raw \in [Callers -> BOOLEAN]
    /\ returned \in [Callers -> Reply \cup {NULL}]
    /\ pendingCommands \in [Ids -> Reply \cup {NULL, Absent}]
    /\ clipsStatus \in Nat
    /\ ioPc \in IoPc
    /\ dPc \in DPc
    /\ toServer \in Seq(Request)
    /\ toClient \in Seq(Message)
    /\ serverWatches \in Nat

Init ==
    /\ alive = TRUE
    /\ socketPtr = "open"
    /\ peerOpen = TRUE
    /\ lastCommandId = 0
    /\ pc = [t \in Callers |-> "idle"]
    /\ idReg = [t \in Callers |-> 0]
    /\ call = [t \in Callers |-> NULL]
    /\ calls = [t \in Callers |-> 0]
    /\ raw = [t \in Callers |-> FALSE]
    /\ returned = [t \in Callers |-> NULL]
    /\ pendingCommands = [i \in Ids |-> Absent]
    /\ clipsStatus = 0
    /\ ioPc = "read"
    /\ dPc = "idle"
    /\ toServer = <<>>
    /\ toClient = <<>>
    /\ serverWatches = 0

-----------------------------------------------------------------------------
(* The callers: rpc(), sendRaw() and what they call.                       *)

\* Mutant: the counter is not incremented.
SameId(i) == i
\* ++lastCommandId, 32 bits wide.
NextId(i) == (i + 1) % IdMod

AllMade == FoldFunction(LAMBDA a, b : a + b, 0, calls)

\* sendCommand() looks at the socket; without one the call fails at once.
SendCommand(t) ==
    /\ alive /\ pc[t] = "idle" /\ calls[t] < MaxCalls
    /\ AllMade < AllCalls
    /\ socketPtr = "open"
    /\ \E c \in Commands, r \in BOOLEAN :
          /\ call' = [call EXCEPT ![t] = [id |-> 0, by |-> t, n |-> calls[t] + 1, cmd |-> c]]
          /\ raw' = [raw EXCEPT ![t] = r]
    /\ calls' = [calls EXCEPT ![t] = @ + 1]
    /\ returned' = [returned EXCEPT ![t] = NULL]
    /\ pc' = [pc EXCEPT ![t] = "readId"]
    /\ UNCHANGED <<alive, socketPtr, lastCommandId, idReg, pendingCommands, clipsStatus,
                   ioPc, dPc, toServer, toClient, serverVars>>

\* ++Request::lastCommandId, a plain static counter: a load ...
ReadLastId(t) ==
    /\ alive /\ pc[t] = "readId"
    /\ SerialIds => \A u \in Callers : pc[u] # "writeId"
    /\ idReg' = [idReg EXCEPT ![t] = lastCommandId]
    /\ pc' = [pc EXCEPT ![t] = "writeId"]
    /\ UNCHANGED <<alive, socketPtr, lastCommandId, call, calls, raw, returned, pendingCommands,
                   clipsStatus, ioPc, dPc, toServer, toClient, serverVars>>

\* ... and a store, with no synchronisation between them.
WriteLastId(t) ==
    /\ alive /\ pc[t] = "writeId"
    /\ lastCommandId' = NextId(idReg[t])
    /\ call' = [call EXCEPT ![t].id = NextId(idReg[t])]
    /\ pc' = [pc EXCEPT ![t] = "send"]
    /\ UNCHANGED <<alive, socketPtr, idReg, calls, raw, returned, pendingCommands, clipsStatus,
                   ioPc, dPc, toServer, toClient, serverVars>>

\* The payload goes out BEFORE rpc() registers the command.  A socket that
\* disconnect() reset since SendCommand looked at it is a null dereference; a
\* write to a closed connection is lost or throws, which nobody catches.
SendPayload(t) ==
    /\ alive /\ pc[t] = "send"
    /\ \/ /\ socketPtr = "open" /\ peerOpen
          /\ toServer' = Append(toServer, call[t])
          /\ alive' = TRUE
       \/ /\ socketPtr = "open" /\ ~peerOpen
          /\ alive' \in BOOLEAN
          /\ UNCHANGED toServer
       \/ /\ socketPtr = "null"
          /\ alive' = FALSE
          /\ UNCHANGED toServer
    /\ pc' = [pc EXCEPT ![t] = IF raw[t] THEN "idle" ELSE "register"]
    /\ UNCHANGED <<socketPtr, lastCommandId, idReg, call, calls, raw, returned, pendingCommands,
                   clipsStatus, ioPc, dPc, toClient, serverVars>>

Register(t) ==
    /\ alive /\ pc[t] = "register"
    /\ pendingCommands' = [pendingCommands EXCEPT ![call[t].id] = NULL]
    /\ pc' = [pc EXCEPT ![t] = "await"]
    /\ UNCHANGED <<alive, socketPtr, lastCommandId, idReg, call, calls, raw, returned, clipsStatus,
                   ioPc, dPc, toServer, toClient, serverVars>>

Awaiting(t) == pc[t] \in {"await", "asleep", "woken"}
Entry(t) == pendingCommands[call[t].id]

\* Mutant: an erased key passes for a reply.
ReplyOrAbort(t) == Entry(t) # NULL
\* hasReponseArrived(): the reply is there, ...
ReplyArrived(t) == Entry(t) \in Reply
\* ... the key is gone, which means the call was aborted, ...
Aborted(t) == Entry(t) = Absent
\* Mutant: wait() without its predicate.
WaitBlindly(t) == Entry(t) # Absent
\* ... or neither.
MustWait(t) == Entry(t) = NULL

\* awaitResponse() with the mutex held.
TakeReply(t) ==
    /\ alive /\ pc[t] \in {"await", "woken"}
    /\ ReplyArrived(t)
    /\ returned' = [returned EXCEPT ![t] = Entry(t)]
    /\ pendingCommands' = [pendingCommands EXCEPT ![call[t].id] = Absent]
    /\ pc' = [pc EXCEPT ![t] = "idle"]
    /\ UNCHANGED <<alive, socketPtr, lastCommandId, idReg, call, calls, raw, clipsStatus,
                   ioPc, dPc, toServer, toClient, serverVars>>

\* An aborted call returns FALSE; pendingCommands[cmdId] in the test that precedes
\* the return inserts the key again.
TakeAbort(t) ==
    /\ alive /\ pc[t] \in {"await", "woken"}
    /\ Aborted(t)
    /\ pendingCommands' = [pendingCommands EXCEPT ![call[t].id] = NULL]
    /\ pc' = [pc EXCEPT ![t] = "idle"]
    /\ UNCHANGED <<alive, socketPtr, lastCommandId, idReg, call, calls, raw, returned, clipsStatus,
                   ioPc, dPc, toServer, toClient, serverVars>>

\* The predicate is false: release the mutex and sleep.
Sleep(t) ==
    /\ alive /\ pc[t] \in {"await", "woken"}
    /\ MustWait(t)
    /\ pc' = [pc EXCEPT ![t] = "asleep"]
    /\ UNCHANGED <<alive, socketPtr, lastCommandId, idReg, call, calls, raw, returned,
                   pendingCommands, clipsStatus, ioPc, dPc, toServer, toClient, serverVars>>

SpuriousWakeup(t) ==
    /\ alive /\ pc[t] = "asleep"
    /\ pc' = [pc EXCEPT ![t] = "woken"]
    /\ UNCHANGED <<alive, socketPtr, lastCommandId, idReg, call, calls, raw, returned,
                   pendingCommands, clipsStatus, ioPc, dPc, toServer, toClient, serverVars>>

-----------------------------------------------------------------------------
(* The service thread: asyncReadHandler() and what it calls.               *)

\* Mutants: no notification, notify_one().
NotifyNone == UNCHANGED pc
NotifyOne ==
    IF \E t \in Callers : pc[t] = "asleep"
    THEN \E t \in Callers : pc[t] = "asleep" /\ pc' = [pc EXCEPT ![t] = "woken"]
    ELSE UNCHANGED pc
\* pccv.notify_all()
NotifyAll == pc' = [t \in Callers |-> IF pc[t] = "asleep" THEN "woken" ELSE pc[t]]

\* A status message, or a reply whose identifier reads as one: updateStatus()
\* keeps only what says "watching:".
IsStatus(m) == m.kind = "status" \/ (m.kind = "ack" /\ m.id = CommandIdNone)

HandleStatus ==
    /\ alive /\ ioPc = "read" /\ toClient # <<>>
    /\ IsStatus(Head(toClient))
    /\ clipsStatus' = IF Head(toClient).kind = "status" THEN Head(toClient).watches ELSE clipsStatus
    /\ toClient' = Tail(toClient)
    /\ UNCHANGED <<alive, socketPtr, lastCommandId, callerVars, pendingCommands, ioPc, dPc,
                   toServer, serverVars>>

\* Mutant: every reply is kept.
KeepAnyReply(i) == i \in Ids
\* pendingCommands.count(i)
Registered(i) == pendingCommands[i] # Absent

\* handleResponseMesage(): a reply nobody registered is dropped.
HandleReply ==
    /\ alive /\ ioPc = "read" /\ toClient # <<>>
    /\ LET m == Head(toClient)
       IN  /\ m.kind = "ack" /\ ~IsStatus(m)
           /\ IF Registered(m.id)
              THEN /\ pendingCommands' = [pendingCommands EXCEPT ![m.id] = m]
                   /\ ioPc' = "notify"
              ELSE UNCHANGED <<pendingCommands, ioPc>>
    /\ toClient' = Tail(toClient)
    /\ UNCHANGED <<alive, socketPtr, lastCommandId, callerVars, clipsStatus, dPc, toServer, serverVars>>

HandleText ==
    /\ alive /\ ioPc = "read" /\ toClient # <<>>
    /\ Head(toClient).kind = "text"
    /\ toClient' = Tail(toClient)
    /\ UNCHANGED <<alive, socketPtr, lastCommandId, callerVars, pendingCommands, clipsStatus,
                   ioPc, dPc, toServer, serverVars>>

ReplyNotify ==
    /\ alive /\ ioPc = "notify"
    /\ NotifyAll
    /\ ioPc' = "read"
    /\ UNCHANGED <<alive, socketPtr, lastCommandId, idReg, call, calls, raw, returned,
                   pendingCommands, clipsStatus, dPc, toServer, toClient, serverVars>>

\* The connection failed, with messages on it perhaps, which nobody reads any more:
\* the service thread runs disconnect() itself ...
ReadError ==
    /\ alive /\ ioPc = "read" /\ ~peerOpen
    /\ pendingCommands' = [i \in Ids |-> Absent]
    /\ ioPc' = "abortNotify"
    /\ UNCHANGED <<alive, socketPtr, lastCommandId, callerVars, clipsStatus, dPc,
                   toServer, toClient, serverVars>>

ErrorNotify ==
    /\ alive /\ ioPc = "abortNotify"
    /\ NotifyAll
    /\ ioPc' = "join"
    /\ UNCHANGED <<alive, socketPtr, lastCommandId, idReg, call, calls, raw, returned,
                   pendingCommands, clipsStatus, dPc, toServer, toClient, serverVars>>

\* ... and joins itself, which throws out of the thread.
ErrorJoin ==
    /\ alive /\ ioPc = "join"
    /\ alive' = FALSE
    /\ UNCHANGED <<socketPtr, lastCommandId, callerVars, pendingCommands, clipsStatus,
                   ioPc, dPc, toServer, toClient, serverVars>>

-----------------------------------------------------------------------------
(* disconnect() on another thread.                                         *)

AbortAllRPC ==
    /\ alive /\ dPc = "idle"
    /\ pendingCommands' = [i \in Ids |-> Absent]
    /\ dPc' = "notify"
    /\ UNCHANGED <<alive, socketPtr, lastCommandId, callerVars, clipsStatus, ioPc,
                   toServer, toClient, serverVars>>

AbortNotify ==
    /\ alive /\ dPc = "notify"
    /\ NotifyAll
    /\ dPc' = "join"
    /\ UNCHANGED <<alive, socketPtr, lastCommandId, idReg, call, calls, raw, returned,
                   pendingCommands, clipsStatus, ioPc, toServer, toClient, serverVars>>

\* io_service.stop() and join(): the service thread finishes its handler and ends.
StopAndJoin ==
    /\ alive /\ dPc = "join"
    /\ ioPc = "read"
    /\ ioPc' = "stopped"
    /\ dPc' = "reset"
    /\ UNCHANGED <<alive, socketPtr, lastCommandId, callerVars, pendingCommands, clipsStatus,
                   toServer, toClient, serverVars>>

\* The socket is destroyed: the connection is closed at both ends.
ResetSocket ==
    /\ alive /\ dPc = "reset"
    /\ socketPtr' = "null"
    /\ dPc' = "done"
    /\ peerOpen' = FALSE
    /\ toServer' = <<>>
    /\ toClient' = <<>>
    /\ UNCHANGED <<alive, lastCommandId, callerVars, pendingCommands, clipsStatus, ioPc, serverWatches>>

-----------------------------------------------------------------------------
(* The server.                                                             *)

WatchesAfter(rq) == IF rq.cmd = "watch" THEN serverWatches + 1 ELSE serverWatches
Published(rq) ==
    IF rq.cmd = "watch" THEN [kind |-> "status", watches |-> WatchesAfter(rq)] ELSE [kind |-> "text"]
Ack(rq) == [kind |-> "ack", id |-> rq.id, rq |-> rq, watches |-> WatchesAfter(rq)]

\* Mutant: the acknowledgement goes out before the status.
AckFirst(rq) == <<Ack(rq), Published(rq)>>
\* What the server sends for a command: handleWatch() publishes the status, a raw
\* command may print or broadcast, and the acknowledgement comes last.
Answer(rq) == <<Published(rq), Ack(rq)>>

ServerAnswers ==
    /\ peerOpen /\ toServer # <<>>
    /\ toClient' = toClient \o Answer(Head(toServer))
    /\ serverWatches' = WatchesAfter(Head(toServer))
    /\ toServer' = Tail(toServer)
    /\ UNCHANGED <<alive, socketPtr, peerOpen, lastCommandId, callerVars, pendingCommands,
                   clipsStatus, ioPc, dPc>>

ServerCloses ==
    /\ peerOpen
    /\ peerOpen' = FALSE
    /\ toServer' = <<>>
    /\ UNCHANGED <<alive, socketPtr, serverWatches, lastCommandId, callerVars, pendingCommands,
                   clipsStatus, ioPc, dPc, toClient>>

-----------------------------------------------------------------------------
CallerStep(t) ==
    \/ ReadLastId(t) \/ WriteLastId(t) \/ SendPayload(t) \/ Register(t)
    \/ TakeReply(t) \/ TakeAbort(t) \/ Sleep(t)

IoStep ==
    \/ HandleStatus \/ HandleReply \/ HandleText \/ ReplyNotify
    \/ ReadError \/ ErrorNotify \/ ErrorJoin

DisconnectStep == AbortNotify \/ StopAndJoin \/ ResetSocket

Next ==
    \/ \E t \in Callers : SendCommand(t) \/ CallerStep(t) \/ SpuriousWakeup(t)
    \/ IoStep
    \/ AbortAllRPC \/ DisconnectStep
    \/ ServerAnswers \/ ServerCloses

Spec == Init /\ [][Next]_vars

\* A thread that can run does run, and the server answers what it read; nobody
\* has to call, to disconnect or to close, and wake-ups without a notify are not owed.
Fairness ==
    /\ \A t \in Callers : WF_vars(CallerStep(t))
    /\ WF_vars(IoStep)
    /\ WF_vars(DisconnectStep)
    /\ WF_vars(ServerAnswers)

FairSpec == Spec /\ Fairness
-----------------------------------------------------------------------------
(* Properties                                                              *)

AbortUnderWay == dPc # "idle" \/ ioPc \in {"abortNotify", "join"}

\* No lost wake-up: a caller asleep on the condition variable whose reply is filed
\* or whose command was aborted is about to be notified.  Both notifiers release
\* the mutex before they notify (handleResponseMesage(), abortAllRPC()).
NoLostWakeup ==
    \A t \in Callers :
        pc[t] = "asleep" /\ Entry(t) # NULL
            => ioPc \in {"notify", "abortNotify"} \/ dPc = "notify"

\* rpc() returns the reply to the very command it sent, not one to another call.
ReplyIsMine ==
    \A t \in Callers : returned[t] # NULL => returned[t].rq = call[t]

\* The calls as RemoteCall sees them: a command without its identifier, ...
Command(rq) == [by |-> rq.by, n |-> rq.n, cmd |-> rq.cmd]
Unsent == { t \in Callers : pc[t] \in {"readId", "writeId", "send"} }
\* ... what the server has not answered, ...
Open == { Command(call[t]) : t \in Unsent } \cup { Command(toServer[i]) : i \in DOMAIN toServer }
\* ... and the replies that are on the way or filed.
Result(m) == [rq |-> Command(m.rq), watches |-> m.watches]
Acks  == { i \in DOMAIN toClient : toClient[i].kind = "ack" }
Filed == { i \in Ids : pendingCommands[i] \in Reply }
Results == { Result(toClient[i]) : i \in Acks } \cup { Result(pendingCommands[i]) : i \in Filed }

Place(t) == CASE pc[t] = "idle" -> "idle"
              [] pc[t] # "idle" /\ raw[t] -> "sending"
              [] pc[t] # "idle" /\ ~raw[t] /\ ~Awaiting(t) -> "calling"
              [] OTHER -> "waiting"

Places == [t \in Callers |-> Place(t)]
Given  == [t \in Callers |-> IF call[t] = NULL THEN NULL ELSE Command(call[t])]
Got    == [t \in Callers |-> IF returned[t] = NULL THEN NULL ELSE Result(returned[t])]

RC == INSTANCE RemoteCall
      WITH connected <- peerOpen, aborted <- AbortUnderWay, place <- Places, command <- Given,
           returned <- Got, open <- Open, results <- Results, watches <- serverWatches

\* The client keeps what RemoteCall promises: a command is executed once at most and
\* in its turn, rpc() returns the result of this execution, gives up only after an
\* abort, and the reply of a command that is registered is not lost before one.
CallsAreKept == RC!Spec

\* getWatches() is fresh: when a "watch" call returns, clipsStatus is at least as
\* recent as the status the server published while it served that call.
WatchReadFresh ==
    \A t \in Callers :
        returned[t] # NULL /\ returned[t].rq.cmd = "watch" => clipsStatus >= returned[t].watches

\* pendingCommands holds only commands that somebody awaits: replies to sendRaw()
\* and late replies leave nothing behind.
PendingOnlyAwaited ==
    \A i \in Ids : pendingCommands[i] # Absent => \E t \in Callers : Awaiting(t) /\ call[t].id = i

\* The same, until the first abort.
NoLeakBeforeAbort == ~AbortUnderWay => PendingOnlyAwaited

SameIdElsewhere(t) == \E u \in Callers \ {t} : call[u] # NULL /\ call[u].id = call[t].id

\* A waiting caller whose reply is filed or whose command is aborted returns from
\* rpc(), unless another caller drew the same identifier.
ResolvedRpcReturns ==
    \A t \in Callers :
        (Awaiting(t) /\ Entry(t) # NULL) ~> (pc[t] = "idle" \/ ~alive \/ SameIdElsewhere(t))

\* The server answered the command of t, and the reply is on its way.
Answered(t) == \E i \in DOMAIN toClient : toClient[i].kind = "ack" /\ toClient[i].rq = call[t]

\* An rpc() that registered its command before the reply reaches the client returns,
\* whatever messages are ahead of the reply, whoever else calls, and though the
\* connection may fail with the reply on it or another thread disconnect meanwhile.
AnsweredRpcReturns ==
    \A t \in Callers :
        Awaiting(t) /\ Entry(t) = NULL /\ Answered(t) /\ ~AbortUnderWay ~> pc[t] = "idle" \/ ~alive

\* While the connection lasts, an rpc() that sent its command returns.
RpcReturns ==
    \A t \in Callers :
        pc[t] = "register" ~> (pc[t] = "idle" \/ ~alive \/ ~peerOpen \/ dPc # "idle")

\* disconnect() releases every call: nobody is left waiting behind it.
AbortReleasesAll ==
    \A t \in Callers : (dPc = "done" /\ Awaiting(t)) ~> (pc[t] = "idle" \/ ~alive)
=============================================================================
