-------------------------- MODULE ClipsClientProofs --------------------------
(***************************************************************************)
(* Proofs about ClipsClient, for any callers and any bounds.               *)
(***************************************************************************)
EXTENDS ClipsClient, SequenceTheorems, TLAPS

USE ConstantsAssumption, ReplyAssumption

\* What the server sends for a command is a sequence of messages.
LEMMA AnswerType ==
    ASSUME NEW rq \in Request, serverWatches \in Nat
    PROVE  Answer(rq) \in Seq(Message) /\ WatchesAfter(rq) \in Nat
<1>1. WatchesAfter(rq) \in Nat
  BY DEF WatchesAfter
<1>2. Published(rq) \in Message
  BY <1>1 DEF Published, Message, Status, Text
<1>3. rq.id \in Ids
  BY DEF Request
<1>4. Ack(rq) \in Message
  BY <1>1, <1>3 DEF Ack, Message, Reply
<1> QED BY <1>1, <1>2, <1>4 DEF Answer

\* A message that is an acknowledgement is a reply, with an identifier.
LEMMA AckIsReply ==
    ASSUME NEW m \in Message, m.kind = "ack"
    PROVE  m \in Reply /\ m.id \in Ids
BY DEF Message, Reply, Status, Text

\* The state stays well typed: in particular a caller past sendCommand() holds a
\* request, and pendingCommands maps identifiers to replies.
LEMMA TypeStep == TypeOK /\ [Next]_vars => TypeOK'
<1> SUFFICES ASSUME TypeOK, [Next]_vars PROVE TypeOK'
  OBVIOUS
<1> USE DEF TypeOK, callerVars, serverVars
<1>1. CASE \E t \in Callers : SendCommand(t) \/ CallerStep(t) \/ SpuriousWakeup(t)
  <2> PICK t \in Callers : SendCommand(t) \/ CallerStep(t) \/ SpuriousWakeup(t)
    BY <1>1
  <2>1. CASE SendCommand(t)
    <3>1. PICK c \in Commands, r \in BOOLEAN :
            /\ call' = [call EXCEPT ![t] = [id |-> 0, by |-> t, n |-> calls[t] + 1, cmd |-> c]]
            /\ raw' = [raw EXCEPT ![t] = r]
      BY <2>1 DEF SendCommand
    <3>2. [id |-> 0, by |-> t, n |-> calls[t] + 1, cmd |-> c] \in Request
      BY <2>1 DEF SendCommand, Request, Ids
    <3> QED BY <2>1, <3>1, <3>2 DEF SendCommand, CallerPc
  <2>2. CASE ReadLastId(t)
    BY <2>2 DEF ReadLastId, CallerPc
  <2>3. CASE WriteLastId(t)
    <3> DEFINE next == NextId(idReg[t])
    <3>1. next \in Ids
      BY DEF Ids, NextId
    <3>2. call[t] \in Request
      BY <2>3 DEF WriteLastId
    <3>3. [call[t] EXCEPT !.id = next] \in Request
      BY <3>1, <3>2 DEF Request
    <3>4. call' = [call EXCEPT ![t] = [call[t] EXCEPT !.id = next]]
      BY <2>3 DEF WriteLastId
    <3>5. call' \in [Callers -> Request \cup {NULL}]
      BY <3>3, <3>4
    <3> QED BY <2>3, <3>1, <3>3, <3>4, <3>5 DEF WriteLastId, CallerPc
  <2>4. CASE SendPayload(t)
    <3>1. call[t] \in Request
      BY <2>4 DEF SendPayload
    <3>2. toServer' = toServer \/ toServer' = Append(toServer, call[t])
      BY <2>4 DEF SendPayload
    <3>3. toServer' \in Seq(Request)
      <4> HIDE DEF TypeOK
      <4>1. toServer \in Seq(Request)
        BY DEF TypeOK
      <4>2. Append(toServer, call[t]) \in Seq(Request)
        BY <3>1, <4>1, AppendProperties
      <4> QED BY <3>2, <4>1, <4>2
    <3>4. alive' \in BOOLEAN
      BY <2>4, Zenon DEF SendPayload
    <3>5. pc' \in [Callers -> CallerPc] /\ \A u \in Callers : pc'[u] # "idle" => pc[u] # "idle"
      BY <2>4 DEF SendPayload, CallerPc
    <3>6. UNCHANGED <<socketPtr, lastCommandId, idReg, call, calls, raw, returned, pendingCommands,
                      clipsStatus, ioPc, dPc, toClient, peerOpen, serverWatches>>
      BY <2>4 DEF SendPayload
    <3> QED BY <3>3, <3>4, <3>5, <3>6
  <2>5. CASE Register(t)
    BY <2>5 DEF Register, CallerPc
  <2>6. CASE TakeReply(t)
    BY <2>6 DEF TakeReply, CallerPc, ReplyArrived
  <2>7. CASE TakeAbort(t)
    BY <2>7 DEF TakeAbort, CallerPc
  <2>8. CASE Sleep(t)
    BY <2>8 DEF Sleep, CallerPc
  <2>9. CASE SpuriousWakeup(t)
    BY <2>9 DEF SpuriousWakeup, CallerPc
  <2> QED BY <2>1, <2>2, <2>3, <2>4, <2>5, <2>6, <2>7, <2>8, <2>9 DEF CallerStep
<1>2. CASE HandleStatus
  <2>1. Head(toClient) \in Message /\ Tail(toClient) \in Seq(Message)
    BY <1>2 DEF HandleStatus
  <2>2. clipsStatus' \in Nat
    BY <1>2, <2>1 DEF HandleStatus, Message, Reply, Status, Text
  <2> QED BY <1>2, <2>1, <2>2 DEF HandleStatus
<1>3. CASE HandleReply
  <2> DEFINE m == Head(toClient)
  <2>1. m \in Message /\ Tail(toClient) \in Seq(Message)
    BY <1>3 DEF HandleReply
  <2>2. m \in Reply /\ m.id \in Ids
    BY <1>3, <2>1, AckIsReply DEF HandleReply
  <2>3. pendingCommands' \in [Ids -> Reply \cup {NULL, Absent}] /\ ioPc' \in IoPc
    BY <1>3, <2>2 DEF HandleReply, Registered, IoPc
  <2> QED BY <1>3, <2>1, <2>3 DEF HandleReply
<1>4. CASE HandleText
  BY <1>4 DEF HandleText
<1>5. CASE ReplyNotify
  BY <1>5 DEF ReplyNotify, NotifyAll, IoPc, CallerPc
<1>6. CASE ReadError
  BY <1>6 DEF ReadError, IoPc
<1>7. CASE ErrorNotify
  BY <1>7 DEF ErrorNotify, NotifyAll, IoPc, CallerPc
<1>8. CASE ErrorJoin
  BY <1>8 DEF ErrorJoin
<1>9. CASE AbortAllRPC
  BY <1>9 DEF AbortAllRPC, DPc
<1>10. CASE AbortNotify
  BY <1>10 DEF AbortNotify, NotifyAll, DPc, CallerPc
<1>11. CASE StopAndJoin
  BY <1>11 DEF StopAndJoin, DPc, IoPc
<1>12. CASE ResetSocket
  <2>1. toServer' \in Seq(Request) /\ toClient' \in Seq(Message)
    BY <1>12, EmptySeq DEF ResetSocket
  <2> QED BY <1>12, <2>1 DEF ResetSocket, DPc
<1>13. CASE ServerAnswers
  <2>1. Head(toServer) \in Request /\ Tail(toServer) \in Seq(Request)
    BY <1>13 DEF ServerAnswers
  <2>2. Answer(Head(toServer)) \in Seq(Message) /\ WatchesAfter(Head(toServer)) \in Nat
    BY <2>1, AnswerType
  <2>3. toClient' \in Seq(Message) /\ serverWatches' \in Nat
    BY <1>13, <2>2 DEF ServerAnswers
  <2> QED BY <1>13, <2>1, <2>3 DEF ServerAnswers
<1>14. CASE ServerCloses
  <2>1. toServer' \in Seq(Request)
    BY <1>14, EmptySeq DEF ServerCloses
  <2> QED BY <1>14, <2>1 DEF ServerCloses
<1>15. CASE UNCHANGED vars
  BY <1>15 DEF vars
<1> QED
  BY <1>1, <1>2, <1>3, <1>4, <1>5, <1>6, <1>7, <1>8, <1>9, <1>10, <1>11, <1>12, <1>13, <1>14, <1>15
  DEF Next, IoStep, DisconnectStep

\* Type correctness of the RPC client.
THEOREM TypeCorrect == Spec => []TypeOK
<1>1. Init => TypeOK
  BY DEF Init, TypeOK, Ids, CallerPc, IoPc, DPc
<1> QED BY <1>1, TypeStep, PTL DEF Spec

-----------------------------------------------------------------------------
(* The condition variable loses no wake-up.                                *)

\* A notify_all() leaves nobody asleep.
LEMMA NotifyAllWakes ==
    ASSUME TypeOK, NotifyAll
    PROVE  \A t \in Callers : pc'[t] # "asleep"
BY DEF NotifyAll, TypeOK, CallerPc

\* A step that puts nobody to sleep, changes no entry of a caller asleep and does
\* not use up a notification keeps the invariant.
LEMMA QuietStep ==
    ASSUME NoLostWakeup,
           \A t \in Callers : pc'[t] = "asleep" => pc[t] = "asleep" /\ Entry(t)' = Entry(t),
           ioPc' = ioPc \/ ioPc \notin {"notify", "abortNotify"},
           dPc' = dPc \/ dPc # "notify"
    PROVE  NoLostWakeup'
BY DEF NoLostWakeup

\* NoLostWakeup is inductive: a step that files or erases an entry leaves a thread
\* about to notify, and only a caller whose entry is still NULL falls asleep.
LEMMA WakeupStep == TypeOK /\ NoLostWakeup /\ [Next]_vars => NoLostWakeup'
<1> SUFFICES ASSUME TypeOK, NoLostWakeup, [Next]_vars PROVE NoLostWakeup'
  OBVIOUS
<1>1. CASE \E t \in Callers : SendCommand(t) \/ CallerStep(t) \/ SpuriousWakeup(t)
  <2> PICK t \in Callers : SendCommand(t) \/ CallerStep(t) \/ SpuriousWakeup(t)
    BY <1>1
  <2>1. CASE SendCommand(t)
    BY <2>1, QuietStep DEF SendCommand, Entry, TypeOK
  <2>2. CASE ReadLastId(t)
    BY <2>2, QuietStep DEF ReadLastId, Entry, TypeOK
  <2>3. CASE WriteLastId(t)
    BY <2>3, QuietStep DEF WriteLastId, Entry, TypeOK
  <2>4. CASE SendPayload(t)
    <3>1. \A u \in Callers : pc'[u] = "asleep" => pc[u] = "asleep"
      BY <2>4 DEF SendPayload, TypeOK
    <3>2. UNCHANGED <<call, pendingCommands, ioPc, dPc>>
      BY <2>4 DEF SendPayload
    <3> QED BY <3>1, <3>2, QuietStep DEF Entry
  <2>5. CASE Register(t)
    <3>1. call[t].id \in Ids
      BY <2>5 DEF Register, TypeOK, Request
    <3>2. \A u \in Callers : pc'[u] = "asleep" => pc[u] = "asleep" /\ call[u].id \in Ids
      BY <2>5 DEF Register, TypeOK, Request
    <3>3. \A u \in Callers : pc'[u] = "asleep" => Entry(u)' = NULL \/ Entry(u)' = Entry(u)
      BY <2>5, <3>1, <3>2 DEF Register, TypeOK, Entry
    <3> QED BY <2>5, <3>2, <3>3 DEF Register, NoLostWakeup
  <2>6. CASE TakeReply(t)
    <3>1. \A u \in Callers : pc'[u] = "asleep" => pc[u] = "asleep" /\ call[u].id \in Ids
      BY <2>6 DEF TakeReply, TypeOK, Request
    <3>2. Entry(t) # NULL
      BY <2>6, ReplyAssumption DEF TakeReply, ReplyArrived
    <3>3. \A u \in Callers :
             pc'[u] = "asleep" => Entry(u)' = Entry(u) \/ call[u].id = call[t].id
      BY <2>6, <3>1 DEF TakeReply, TypeOK, Entry
    <3>4. \A u \in Callers : call[u].id = call[t].id => Entry(u) = Entry(t)
      BY DEF Entry
    <3> QED BY <2>6, <3>1, <3>2, <3>3, <3>4 DEF TakeReply, NoLostWakeup
  <2>7. CASE TakeAbort(t)
    <3>1. call[t].id \in Ids
      BY <2>7 DEF TakeAbort, TypeOK, Request
    <3>2. \A u \in Callers : pc'[u] = "asleep" => pc[u] = "asleep" /\ call[u].id \in Ids
      BY <2>7 DEF TakeAbort, TypeOK, Request
    <3>3. \A u \in Callers : pc'[u] = "asleep" => Entry(u)' = NULL \/ Entry(u)' = Entry(u)
      BY <2>7, <3>1, <3>2 DEF TakeAbort, TypeOK, Entry
    <3> QED BY <2>7, <3>2, <3>3 DEF TakeAbort, NoLostWakeup
  <2>8. CASE Sleep(t)
    <3>1. \A u \in Callers : pc'[u] = "asleep" => pc[u] = "asleep" \/ u = t
      BY <2>8 DEF Sleep, TypeOK
    <3>2. \A u \in Callers : Entry(u)' = Entry(u)
      BY <2>8 DEF Sleep, Entry
    <3> QED BY <2>8, <3>1, <3>2 DEF Sleep, MustWait, NoLostWakeup
  <2>9. CASE SpuriousWakeup(t)
    BY <2>9, QuietStep DEF SpuriousWakeup, Entry, TypeOK
  <2> QED BY <2>1, <2>2, <2>3, <2>4, <2>5, <2>6, <2>7, <2>8, <2>9 DEF CallerStep
<1>2. CASE HandleStatus
  BY <1>2, QuietStep DEF HandleStatus, callerVars, Entry
<1>3. CASE HandleReply
  <2>1. CASE ioPc' = "notify"
    BY <2>1 DEF NoLostWakeup
  <2>2. CASE UNCHANGED <<pendingCommands, ioPc>>
    BY <1>3, <2>2, QuietStep DEF HandleReply, callerVars, Entry
  <2> QED BY <1>3, <2>1, <2>2 DEF HandleReply
<1>4. CASE HandleText
  BY <1>4, QuietStep DEF HandleText, callerVars, Entry
<1>5. CASE ReplyNotify
  BY <1>5, NotifyAllWakes DEF ReplyNotify, NoLostWakeup
<1>6. CASE ReadError
  BY <1>6 DEF ReadError, NoLostWakeup
<1>7. CASE ErrorNotify
  BY <1>7, NotifyAllWakes DEF ErrorNotify, NoLostWakeup
<1>8. CASE ErrorJoin
  BY <1>8, QuietStep DEF ErrorJoin, callerVars, Entry
<1>9. CASE AbortAllRPC
  BY <1>9 DEF AbortAllRPC, NoLostWakeup
<1>10. CASE AbortNotify
  BY <1>10, NotifyAllWakes DEF AbortNotify, NoLostWakeup
<1>11. CASE StopAndJoin
  BY <1>11, QuietStep DEF StopAndJoin, callerVars, Entry
<1>12. CASE ResetSocket
  BY <1>12, QuietStep DEF ResetSocket, callerVars, Entry
<1>13. CASE ServerAnswers
  BY <1>13, QuietStep DEF ServerAnswers, callerVars, Entry
<1>14. CASE ServerCloses
  BY <1>14, QuietStep DEF ServerCloses, callerVars, Entry
<1>15. CASE UNCHANGED vars
  BY <1>15, QuietStep DEF vars, callerVars, Entry
<1> QED
  BY <1>1, <1>2, <1>3, <1>4, <1>5, <1>6, <1>7, <1>8, <1>9, <1>10, <1>11, <1>12, <1>13, <1>14, <1>15
  DEF Next, IoStep, DisconnectStep

\* No caller sleeps through the notification of its reply or of its abortion,
\* whatever the number of callers, identifiers and calls.
THEOREM NoLostWakeupHolds == Spec => []NoLostWakeup
<1>1. Init => NoLostWakeup
  BY DEF Init, NoLostWakeup
<1> QED BY <1>1, TypeCorrect, WakeupStep, PTL DEF Spec
-----------------------------------------------------------------------------
(* The reply is the caller's own.  When Requests are constructed one at a  *)
(* time the identifiers that are drawn are the numbers from 1 on, until    *)
(* the counter reaches the identifier of a status: until then whatever     *)
(* carries an identifier, wherever it is, carries that of one request.     *)

IdsLeft == lastCommandId < CommandIdNone

\* The requests that have an identifier: those the callers made, ...
Numbered == { t \in Callers : call[t] # NULL /\ pc[t] \notin {"readId", "writeId"} }
\* ... those at the server, those of the replies on the way and of those that are filed.
Outstanding ==
    { call[t] : t \in Numbered } \cup { toServer[i] : i \in DOMAIN toServer }
      \cup { toClient[i].rq : i \in Acks } \cup { pendingCommands[i].rq : i \in Filed }

Numbering ==
    /\ \A t \in Callers : pc[t] = "writeId" => idReg[t] = lastCommandId
    /\ \A t, u \in Callers : pc[t] = "writeId" /\ pc[u] = "writeId" => t = u
    /\ \A p \in Outstanding : p \in Request /\ 0 < p.id /\ p.id <= lastCommandId
    /\ \A p, q \in Outstanding : p.id = q.id => p = q

\* A reply carries the identifier of its request and is filed under it.
Addressed ==
    /\ \A i \in Acks : toClient[i].id = toClient[i].rq.id
    /\ \A i \in Filed : pendingCommands[i].rq.id = i

Owned ==
    /\ \A t \in Callers : pc[t] # "idle" => returned[t] = NULL
    /\ \A t \in Callers : call[t] # NULL => call[t].by = t

\* Until the first abort a command is registered while its caller awaits it.
Awaited == ~AbortUnderWay => \A t \in Callers : Awaiting(t) => Entry(t) # Absent

SerialInv == Numbering /\ Addressed /\ Owned /\ ReplyIsMine
LeakInv == Awaited /\ NoLeakBeforeAbort

\* Where no caller begins or ends to draw and nothing new goes out, the numbering stays.
LEMMA NumberingStays ==
    ASSUME Numbering, Outstanding' \subseteq Outstanding, lastCommandId' = lastCommandId,
           idReg' = idReg, \A t \in Callers : pc'[t] = "writeId" => pc[t] = "writeId"
    PROVE  Numbering'
BY DEF Numbering

\* What is outstanding lies in S when each of its four parts does.
LEMMA OutstandingWithin ==
    ASSUME NEW S,
           \A t \in Numbered' : call'[t] \in S,
           \A i \in DOMAIN toServer' : toServer'[i] \in S,
           \A i \in Acks' : toClient'[i].rq \in S,
           \A i \in Filed' : pendingCommands'[i].rq \in S
    PROVE  Outstanding' \subseteq S
BY DEF Outstanding

\* The four parts of what is outstanding, one by one.
LEMMA OutstandingMembers ==
    /\ \A t \in Numbered : call[t] \in Outstanding
    /\ \A i \in DOMAIN toServer : toServer[i] \in Outstanding
    /\ \A i \in Acks : toClient[i].rq \in Outstanding
    /\ \A i \in Filed : pendingCommands[i].rq \in Outstanding
BY DEF Outstanding

\* The callers, while they neither draw a number nor send.
LEMMA CallersKeepNumbers ==
    ASSUME TypeOK, call' = call,
           \A t \in Callers : pc'[t] \notin {"readId", "writeId"}
                                 => pc[t] \notin {"readId", "writeId"},
           toServer' = toServer, toClient' = toClient,
           \A i \in Ids : pendingCommands'[i] \in Reply => pendingCommands'[i] = pendingCommands[i]
    PROVE  Outstanding' \subseteq Outstanding /\ (Addressed => Addressed')
<1>1. Numbered' \subseteq Numbered
  BY DEF Numbered
<1>2. Acks' = Acks
  BY DEF Acks
<1>3. Filed' \subseteq Filed
  BY DEF Filed
<1>4. \A i \in Filed' : pendingCommands'[i] = pendingCommands[i]
  BY DEF Filed
<1>5. Outstanding' \subseteq Outstanding
  BY <1>1, <1>2, <1>3, <1>4 DEF Outstanding
<1>6. Addressed => Addressed'
  BY <1>2, <1>3, <1>4 DEF Addressed
<1> QED BY <1>5, <1>6

\* What the service thread and the server take from the front of a connection.
LEMMA TailMembers ==
    ASSUME NEW S, NEW s \in Seq(S), s # <<>>
    PROVE  /\ Head(s) = s[1] /\ 1 \in DOMAIN s
           /\ \A i \in DOMAIN Tail(s) : i + 1 \in DOMAIN s /\ Tail(s)[i] = s[i + 1]
<1>1. Len(s) \in Nat /\ DOMAIN s = 1 .. Len(s) /\ Len(s) > 0
  OBVIOUS
<1>2. Len(Tail(s)) = Len(s) - 1 /\ DOMAIN Tail(s) = 1 .. Len(s) - 1
  OBVIOUS
<1>3. \A i \in 1 .. Len(s) - 1 : Tail(s)[i] = s[i + 1]
  OBVIOUS
<1> QED BY <1>1, <1>2, <1>3

\* Where the two messages the server appends are found.
LEMMA AnswerMembers ==
    ASSUME NEW s \in Seq(Message), NEW a \in Message, NEW b \in Message
    PROVE  LET r == s \o <<a, b>>
           IN  /\ DOMAIN r = 1 .. (Len(s) + 2) /\ Len(s) \in Nat /\ DOMAIN s = 1 .. Len(s)
               /\ \A i \in 1 .. Len(s) : r[i] = s[i]
               /\ r[Len(s) + 1] = a /\ r[Len(s) + 2] = b
<1>1. Len(<<a, b>>) = 2 /\ <<a, b>>[1] = a /\ <<a, b>>[2] = b
  OBVIOUS
<1> QED BY <1>1

\* Drawing a number: the counter is where the caller read it, and goes on by one.
LEMMA DrawNumber ==
    ASSUME TypeOK, TypeOK', IdsLeft, SerialInv, NEW t \in Callers, WriteLastId(t)
    PROVE  SerialInv'
<1> USE DEF IdsLeft
<1>1. /\ lastCommandId \in Nat /\ lastCommandId' = lastCommandId + 1
      /\ call' = [call EXCEPT ![t].id = lastCommandId']
  <2>1. idReg[t] = lastCommandId /\ lastCommandId \in Nat /\ lastCommandId + 1 < IdMod
    BY DEF WriteLastId, SerialInv, Numbering, TypeOK, Ids, CommandIdNone
  <2>2. NextId(idReg[t]) = lastCommandId + 1
    BY <2>1 DEF NextId
  <2> QED BY <2>1, <2>2 DEF WriteLastId
<1>2. /\ pc' = [pc EXCEPT ![t] = "send"] /\ pc[t] = "writeId"
      /\ UNCHANGED <<idReg, raw, returned, pendingCommands, toServer, toClient>>
      /\ call[t] \in Request /\ call' \in [Callers -> Request \cup {NULL}]
      /\ pc \in [Callers -> CallerPc] /\ returned[t] = NULL
      /\ call \in [Callers -> Request \cup {NULL}]
  BY DEF WriteLastId, TypeOK, SerialInv, Owned
<1>3. /\ call'[t] = [call[t] EXCEPT !.id = lastCommandId'] /\ call'[t] \in Request
      /\ call'[t].id = lastCommandId + 1 /\ call'[t].by = t
      /\ \A u \in Callers \ {t} : call'[u] = call[u] /\ pc'[u] = pc[u]
  <2>1. call[t] # NULL /\ call[t].by = t /\ call[t].id \in Ids
    BY <1>2, ReplyAssumption DEF SerialInv, Owned, Request
  <2>2. call' = [call EXCEPT ![t] = [call[t] EXCEPT !.id = lastCommandId']]
    BY <1>1
  <2>3. call'[t] = [call[t] EXCEPT !.id = lastCommandId']
    BY <1>2, <2>2
  <2>4. lastCommandId' \in Ids
    BY DEF TypeOK
  <2>5. call'[t] \in Request /\ call'[t].id = lastCommandId' /\ call'[t].by = t
    BY <1>2, <2>1, <2>3, <2>4 DEF Request
  <2>6. \A u \in Callers \ {t} : call'[u] = call[u] /\ pc'[u] = pc[u]
    BY <1>2, <2>2
  <2> QED BY <1>1, <2>3, <2>5, <2>6
<1>4. Outstanding' \subseteq Outstanding \cup {call'[t]}
  <2>1. Numbered' \subseteq Numbered \cup {t}
    BY <1>2, <1>3 DEF Numbered
  <2>2. Acks' = Acks /\ Filed' = Filed
    BY <1>2 DEF Acks, Filed
  <2>3. { call'[u] : u \in Numbered' } \subseteq { call[u] : u \in Numbered } \cup {call'[t]}
    <3> SUFFICES ASSUME NEW u \in Numbered'
                 PROVE  call'[u] \in { call[v] : v \in Numbered } \cup {call'[t]}
      OBVIOUS
    <3>1. CASE u = t
      BY <3>1
    <3>2. CASE u # t
      <4>1. u \in Numbered /\ call'[u] = call[u]
        BY <1>3, <2>1, <3>2 DEF Numbered
      <4> QED BY <4>1
    <3> QED BY <3>1, <3>2
  <2>4. Outstanding' = { call'[u] : u \in Numbered' } \cup { toServer[i] : i \in DOMAIN toServer }
           \cup { toClient[i].rq : i \in Acks } \cup { pendingCommands[i].rq : i \in Filed }
    BY <1>2, <2>2 DEF Outstanding
  <2> HIDE DEF Numbered, Acks, Filed
  <2> QED BY <2>3, <2>4 DEF Outstanding
<1>5. \A u \in Callers : pc'[u] # "writeId"
  BY <1>2, <1>3 DEF SerialInv, Numbering
<1>6. \A p \in Outstanding : p \in Request /\ p.id \in Nat /\ 0 < p.id /\ p.id <= lastCommandId
  BY DEF SerialInv, Numbering, Request, Ids
<1>7. Numbering'
  <2>1. \A p \in Outstanding' : p \in Request /\ 0 < p.id /\ p.id <= lastCommandId'
    <3> SUFFICES ASSUME NEW p \in Outstanding'
                 PROVE  p \in Request /\ 0 < p.id /\ p.id <= lastCommandId'
      OBVIOUS
    <3>1. CASE p \in Outstanding
      BY <1>1, <1>6, <3>1
    <3>2. CASE p = call'[t]
      BY <1>1, <1>3, <3>2
    <3> QED BY <1>4, <3>1, <3>2
  <2>2. \A p \in Outstanding' : p.id = lastCommandId' => p = call'[t]
    BY <1>1, <1>3, <1>4, <1>6
  <2>3. \A p, q \in Outstanding' : p.id = q.id => p = q
    <3> SUFFICES ASSUME NEW p \in Outstanding', NEW q \in Outstanding', p.id = q.id
                 PROVE  p = q
      OBVIOUS
    <3>1. CASE p \in Outstanding /\ q \in Outstanding
      BY <3>1 DEF SerialInv, Numbering
    <3>2. CASE p = call'[t] \/ q = call'[t]
      BY <1>1, <1>3, <2>2, <3>2
    <3> QED BY <1>4, <3>1, <3>2
  <2> QED BY <1>5, <2>1, <2>3 DEF Numbering
<1>8. Addressed'
  BY <1>2 DEF SerialInv, Addressed, Acks, Filed
<1>9. Owned' /\ ReplyIsMine'
  BY <1>2, <1>3 DEF SerialInv, Owned, ReplyIsMine
<1> QED BY <1>7, <1>8, <1>9 DEF SerialInv

\* A caller takes the reply filed under the number of its call, which is to that call.
LEMMA TakeOwnReply ==
    ASSUME TypeOK, SerialInv, NEW t \in Callers, TakeReply(t)
    PROVE  Entry(t).rq = call[t]
<1>1. call[t] \in Request /\ call[t].id \in Ids /\ Entry(t) \in Reply
  BY DEF TakeReply, TypeOK, ReplyArrived, Request
<1>2. call[t].id \in Filed /\ t \in Numbered
  BY <1>1, ReplyAssumption DEF TakeReply, Filed, Numbered, Entry
<1>3. call[t] \in Outstanding /\ Entry(t).rq \in Outstanding
  BY <1>2 DEF Outstanding, Entry
<1>4. Entry(t).rq.id = call[t].id
  BY <1>2 DEF SerialInv, Addressed, Entry
<1> QED BY <1>3, <1>4 DEF SerialInv, Numbering

\* The numbering through the steps of a caller.
LEMMA CallerSerial ==
    ASSUME TypeOK, TypeOK', SerialIds, IdsLeft, SerialInv, NEW t \in Callers,
           SendCommand(t) \/ CallerStep(t) \/ SpuriousWakeup(t)
    PROVE  SerialInv'
<1>1. CASE SendCommand(t)
  <2>1. /\ \A u \in Callers \ {t} : call'[u] = call[u] /\ pc'[u] = pc[u] /\ returned'[u] = returned[u]
        /\ pc'[t] = "readId" /\ returned'[t] = NULL /\ call'[t].by = t
        /\ UNCHANGED <<lastCommandId, idReg, pendingCommands, toServer, toClient>>
    BY <1>1 DEF SendCommand, TypeOK
  <2>2. Numbered' \subseteq Numbered /\ \A u \in Numbered' : call'[u] = call[u]
    BY <2>1 DEF Numbered
  <2>3. Acks' = Acks /\ Filed' = Filed
    BY <2>1 DEF Acks, Filed
  <2>4. Outstanding' \subseteq Outstanding
    BY <2>1, <2>2, <2>3 DEF Outstanding
  <2>5. Numbering'
    BY <2>1, <2>4, NumberingStays DEF SerialInv
  <2>6. Addressed'
    BY <2>1, <2>3 DEF SerialInv, Addressed
  <2>7. Owned' /\ ReplyIsMine'
    BY <2>1 DEF SerialInv, Owned, ReplyIsMine
  <2> QED BY <2>5, <2>6, <2>7 DEF SerialInv
<1>2. CASE ReadLastId(t)
  <2>1. /\ idReg' = [idReg EXCEPT ![t] = lastCommandId] /\ pc' = [pc EXCEPT ![t] = "writeId"]
        /\ pc[t] = "readId" /\ \A u \in Callers : pc[u] # "writeId"
        /\ UNCHANGED <<lastCommandId, call, returned, pendingCommands, toServer, toClient>>
    BY <1>2 DEF ReadLastId
  <2>2. \A u \in Callers : /\ pc'[u] = "writeId" => u = t /\ idReg'[u] = lastCommandId
                           /\ pc'[u] \notin {"readId", "writeId"} => pc[u] \notin {"readId", "writeId"}
    BY <2>1 DEF TypeOK
  <2>3. Outstanding' \subseteq Outstanding /\ Addressed'
    BY <2>1, <2>2, CallersKeepNumbers DEF SerialInv
  <2>4. Numbering'
    BY <2>1, <2>2, <2>3 DEF SerialInv, Numbering
  <2>5. Owned' /\ ReplyIsMine'
    BY <2>1 DEF SerialInv, Owned, ReplyIsMine, TypeOK
  <2> QED BY <2>3, <2>4, <2>5 DEF SerialInv
<1>3. CASE WriteLastId(t)
  BY <1>3, DrawNumber
<1>4. CASE SendPayload(t)
  <2>1. /\ pc[t] = "send" /\ pc' = [pc EXCEPT ![t] = IF raw[t] THEN "idle" ELSE "register"]
        /\ toServer' = toServer \/ toServer' = Append(toServer, call[t])
        /\ UNCHANGED <<lastCommandId, idReg, call, returned, pendingCommands, toClient>>
    BY <1>4 DEF SendPayload
  <2>2. call[t] \in Outstanding
    BY <2>1, ReplyAssumption DEF TypeOK, Outstanding, Numbered
  <2>3. \A i \in DOMAIN toServer' : \/ i \in DOMAIN toServer /\ toServer'[i] = toServer[i]
                                    \/ toServer'[i] = call[t]
    <3> SUFFICES ASSUME NEW i \in DOMAIN toServer'
                 PROVE  \/ i \in DOMAIN toServer /\ toServer'[i] = toServer[i]
                        \/ toServer'[i] = call[t]
      OBVIOUS
    <3>1. toServer \in Seq(Request) /\ call[t] \in Request
      BY <2>1 DEF TypeOK
    <3>2. CASE toServer' = toServer
      BY <3>2
    <3>3. CASE toServer' = Append(toServer, call[t])
      BY <3>1, <3>3, AppendProperties
    <3> QED BY <2>1, <3>2, <3>3
  <2>4. Numbered' = Numbered /\ Acks' = Acks /\ Filed' = Filed
    BY <2>1 DEF Numbered, Acks, Filed, TypeOK
  <2>5. Outstanding' \subseteq Outstanding
    BY <2>1, <2>2, <2>3, <2>4 DEF Outstanding
  <2>6. \A u \in Callers : pc'[u] = "writeId" => pc[u] = "writeId"
    BY <2>1 DEF TypeOK
  <2>7. Numbering'
    BY <2>1, <2>5, <2>6, NumberingStays DEF SerialInv
  <2>8. Addressed' /\ Owned' /\ ReplyIsMine'
    BY <2>1, <2>4 DEF SerialInv, Addressed, Owned, ReplyIsMine, TypeOK
  <2> QED BY <2>7, <2>8 DEF SerialInv
<1>5. CASE Register(t) \/ TakeAbort(t) \/ Sleep(t) \/ SpuriousWakeup(t)
  <2>1. /\ UNCHANGED <<lastCommandId, idReg, call, returned, toServer, toClient>>
        /\ pc[t] \notin {"idle", "readId", "writeId"}
        /\ \A u \in Callers \ {t} : pc'[u] = pc[u]
        /\ pc'[t] # "writeId"
        /\ pendingCommands' = pendingCommands
             \/ pendingCommands' = [pendingCommands EXCEPT ![call[t].id] = NULL]
    BY <1>5 DEF Register, TakeAbort, Sleep, SpuriousWakeup, TypeOK
  <2>2. \A i \in Ids : pendingCommands'[i] \in Reply => pendingCommands'[i] = pendingCommands[i]
    BY <2>1, ReplyAssumption DEF TypeOK
  <2>3. Outstanding' \subseteq Outstanding /\ Addressed'
    BY <2>1, <2>2, CallersKeepNumbers DEF SerialInv
  <2>4. Numbering'
    BY <2>1, <2>3, NumberingStays DEF SerialInv
  <2>5. Owned' /\ ReplyIsMine'
    BY <2>1 DEF SerialInv, Owned, ReplyIsMine
  <2> QED BY <2>3, <2>4, <2>5 DEF SerialInv
<1>6. CASE TakeReply(t)
  <2>1. /\ UNCHANGED <<lastCommandId, idReg, call, toServer, toClient>>
        /\ pc' = [pc EXCEPT ![t] = "idle"] /\ pc[t] \in {"await", "woken"}
        /\ returned' = [returned EXCEPT ![t] = Entry(t)]
        /\ pendingCommands' = [pendingCommands EXCEPT ![call[t].id] = Absent]
    BY <1>6 DEF TakeReply
  <2>2. \A i \in Ids : pendingCommands'[i] \in Reply => pendingCommands'[i] = pendingCommands[i]
    BY <2>1, ReplyAssumption DEF TypeOK
  <2>3. \A u \in Callers : /\ pc'[u] = "writeId" => pc[u] = "writeId"
                           /\ pc'[u] \notin {"readId", "writeId"} => pc[u] \notin {"readId", "writeId"}
    BY <2>1 DEF TypeOK
  <2>4. Outstanding' \subseteq Outstanding /\ Addressed'
    BY <2>1, <2>2, <2>3, CallersKeepNumbers DEF SerialInv
  <2>5. Numbering'
    BY <2>1, <2>3, <2>4, NumberingStays DEF SerialInv
  <2>6. Entry(t).rq = call[t]
    BY <1>6, TakeOwnReply
  <2>7. Owned' /\ ReplyIsMine'
    BY <2>1, <2>6 DEF SerialInv, Owned, ReplyIsMine, TypeOK
  <2> QED BY <2>4, <2>5, <2>7 DEF SerialInv
<1> QED BY <1>1, <1>2, <1>3, <1>4, <1>5, <1>6 DEF CallerStep

\* What touches neither callers nor counter nor adds a request.
LEMMA NetworkSerial ==
    ASSUME TypeOK, SerialInv, UNCHANGED <<lastCommandId, idReg, call, returned>>,
           \A t \in Callers : pc'[t] = pc[t] \/ (pc[t] = "asleep" /\ pc'[t] = "woken"),
           Outstanding' \subseteq Outstanding, Addressed'
    PROVE  SerialInv'
<1>1. Numbering'
  BY NumberingStays DEF SerialInv
<1>2. Owned' /\ ReplyIsMine'
  BY DEF SerialInv, Owned, ReplyIsMine
<1> QED BY <1>1, <1>2 DEF SerialInv

\* A message that is handled leaves the connection; a reply goes to its own entry.
LEMMA ReceiveSerial ==
    ASSUME TypeOK, SerialInv, HandleStatus \/ HandleReply \/ HandleText
    PROVE  SerialInv'
<1>1. /\ UNCHANGED <<lastCommandId, callerVars, toServer>>
      /\ toClient # <<>> /\ toClient' = Tail(toClient)
  BY DEF HandleStatus, HandleReply, HandleText
<1>2. /\ Head(toClient) = toClient[1] /\ 1 \in DOMAIN toClient
      /\ \A i \in DOMAIN toClient' : i + 1 \in DOMAIN toClient /\ toClient'[i] = toClient[i + 1]
  BY <1>1, TailMembers DEF TypeOK
<1>3. \A i \in Acks' : i + 1 \in Acks /\ toClient'[i] = toClient[i + 1]
  BY <1>2 DEF Acks
<1>4. \A i \in Filed' : \/ i \in Filed /\ pendingCommands'[i] = pendingCommands[i]
                        \/ 1 \in Acks /\ pendingCommands'[i] = toClient[1] /\ toClient[1].id = i
  <2>1. CASE pendingCommands' = pendingCommands
    BY <2>1 DEF Filed
  <2>2. CASE /\ pendingCommands' = [pendingCommands EXCEPT ![toClient[1].id] = toClient[1]]
             /\ toClient[1].kind = "ack"
    BY <1>2, <2>2 DEF Filed, Acks, TypeOK
  <2> QED BY <1>2, <2>1, <2>2 DEF HandleStatus, HandleReply, HandleText
<1>5. Numbered' = Numbered
  BY <1>1 DEF Numbered, callerVars
<1>6. Outstanding' \subseteq Outstanding
  BY <1>1, <1>3, <1>4, <1>5, OutstandingWithin, OutstandingMembers DEF callerVars
<1>7. Addressed'
  BY <1>3, <1>4 DEF SerialInv, Addressed
<1> QED BY <1>1, <1>6, <1>7, NetworkSerial DEF callerVars

\* The server answers under the identifier of the request it read.
LEMMA AnswerSerial ==
    ASSUME TypeOK, SerialInv, ServerAnswers
    PROVE  SerialInv'
<1> DEFINE rq == Head(toServer)
<1>1. /\ UNCHANGED <<lastCommandId, callerVars, pendingCommands>>
      /\ toServer # <<>> /\ toServer' = Tail(toServer)
      /\ toClient' = toClient \o <<Published(rq), Ack(rq)>>
  BY DEF ServerAnswers, Answer
<1>2. /\ rq = toServer[1] /\ 1 \in DOMAIN toServer /\ rq \in Request
      /\ \A i \in DOMAIN toServer' : i + 1 \in DOMAIN toServer /\ toServer'[i] = toServer[i + 1]
  BY <1>1, TailMembers DEF TypeOK
<1>3. Published(rq) \in Message /\ Ack(rq) \in Message
  <2>1. WatchesAfter(rq) \in Nat /\ rq.id \in Ids
    BY <1>2 DEF WatchesAfter, TypeOK, Request
  <2>2. Published(rq) \in Message
    BY <2>1 DEF Published, Message, Status, Text
  <2> QED BY <1>2, <2>1, <2>2 DEF Ack, Message, Reply
<1>4. Published(rq).kind # "ack" /\ Ack(rq).rq = rq /\ Ack(rq).id = rq.id
  BY DEF Published, Ack
<1> HIDE DEF rq
<1>5. \A i \in Acks' : \/ i \in Acks /\ toClient'[i] = toClient[i]
                       \/ toClient'[i] = Ack(rq)
  BY <1>1, <1>3, <1>4, AnswerMembers DEF Acks, TypeOK
<1>6. Numbered' = Numbered /\ Filed' = Filed
  BY <1>1 DEF Numbered, Filed, callerVars
<1>7. Outstanding' \subseteq Outstanding
  BY <1>1, <1>2, <1>4, <1>5, <1>6, OutstandingWithin, OutstandingMembers DEF callerVars
<1>8. Addressed'
  BY <1>1, <1>4, <1>5, <1>6 DEF SerialInv, Addressed
<1> QED BY <1>1, <1>7, <1>8, NetworkSerial DEF callerVars

\* What only loses messages or entries.
LEMMA LossSerial ==
    ASSUME TypeOK, SerialInv, UNCHANGED <<lastCommandId, idReg, call, returned>>,
           \A t \in Callers : pc'[t] = pc[t] \/ (pc[t] = "asleep" /\ pc'[t] = "woken"),
           toServer' = toServer \/ toServer' = <<>>,
           toClient' = toClient \/ toClient' = <<>>,
           pendingCommands' = pendingCommands \/ pendingCommands' = [i \in Ids |-> Absent]
    PROVE  SerialInv'
<1>1. Numbered' = Numbered
  BY DEF Numbered
<1>2. (Filed' = Filed /\ pendingCommands' = pendingCommands) \/ Filed' = {}
  BY ReplyAssumption DEF Filed
<1>3. (Acks' = Acks /\ toClient' = toClient) \/ Acks' = {}
  BY DEF Acks
<1>4. toServer' = toServer \/ DOMAIN toServer' = {}
  OBVIOUS
<1>5. Outstanding' \subseteq Outstanding
  BY <1>1, <1>2, <1>3, <1>4 DEF Outstanding
<1>6. Addressed'
  BY <1>2, <1>3 DEF SerialInv, Addressed
<1> QED BY <1>5, <1>6, NetworkSerial

\* The numbering is inductive while the counter is below the identifier of a status.
LEMMA SerialStep ==
    ASSUME SerialIds
    PROVE  TypeOK /\ TypeOK' /\ IdsLeft /\ SerialInv /\ [Next]_vars => SerialInv'
<1> SUFFICES ASSUME TypeOK, TypeOK', IdsLeft, SerialInv, [Next]_vars PROVE SerialInv'
  OBVIOUS
<1>1. CASE \E t \in Callers : SendCommand(t) \/ CallerStep(t) \/ SpuriousWakeup(t)
  BY <1>1, CallerSerial
<1>2. CASE HandleStatus \/ HandleReply \/ HandleText
  BY <1>2, ReceiveSerial
<1>3. CASE ServerAnswers
  BY <1>3, AnswerSerial
<1>4. CASE ReplyNotify \/ ErrorNotify \/ AbortNotify
  BY <1>4, LossSerial DEF ReplyNotify, ErrorNotify, AbortNotify, NotifyAll, TypeOK
<1>5. CASE ReadError \/ ErrorJoin \/ AbortAllRPC \/ StopAndJoin
  BY <1>5, LossSerial DEF ReadError, ErrorJoin, AbortAllRPC, StopAndJoin, callerVars
<1>6. CASE ResetSocket \/ ServerCloses \/ UNCHANGED vars
  BY <1>6, LossSerial DEF ResetSocket, ServerCloses, vars, callerVars
<1> QED BY <1>1, <1>2, <1>3, <1>4, <1>5, <1>6 DEF Next, IoStep, DisconnectStep

\* Nothing is outstanding at first.
LEMMA SerialInit == Init => SerialInv
<1>1. ASSUME Init PROVE Outstanding = {} /\ Acks = {} /\ Filed = {}
  BY <1>1, ReplyAssumption DEF Init, Outstanding, Numbered, Acks, Filed
<1>2. ASSUME Init PROVE Numbering /\ Addressed /\ Owned /\ ReplyIsMine
  BY <1>1, <1>2 DEF Init, Numbering, Addressed, Owned, ReplyIsMine
<1> QED BY <1>2 DEF SerialInv

\* An rpc() returns the reply to its own command, whatever other callers, aborts and
\* late replies there are, as long as Requests are constructed one at a time and the
\* counter did not reach the identifier of a status.
THEOREM ReplyIsAlwaysMine == ASSUME SerialIds PROVE Spec /\ []IdsLeft => []ReplyIsMine
<1>1. SerialInv => ReplyIsMine
  BY DEF SerialInv
<1> QED BY <1>1, SerialInit, SerialStep, TypeCorrect, PTL DEF Spec

-----------------------------------------------------------------------------
(* Nothing is left behind before the first abort.                          *)

\* Two callers that hold a numbered request hold different numbers.
LEMMA CallersApart ==
    ASSUME SerialInv, NEW t \in Numbered, NEW u \in Numbered, call[t].id = call[u].id
    PROVE  t = u
<1>1. call[t] = call[u]
  BY OutstandingMembers DEF SerialInv, Numbering
<1>2. call[t].by = t /\ call[u].by = u
  BY DEF SerialInv, Owned, Numbered
<1> QED BY <1>1, <1>2

\* A step that moves no caller into or out of its wait and no registered command.
LEMMA LeakStays ==
    ASSUME LeakInv, AbortUnderWay => AbortUnderWay',
           \A t \in Callers : /\ Awaiting(t)' <=> Awaiting(t)
                              /\ Awaiting(t) => call'[t] = call[t],
           \A i \in Ids : pendingCommands'[i] = Absent <=> pendingCommands[i] = Absent,
           \A t \in Callers : Awaiting(t) => call[t].id \in Ids
    PROVE  LeakInv'
<1>1. Awaited'
  BY DEF LeakInv, Awaited, Entry
<1>2. NoLeakBeforeAbort'
  BY DEF LeakInv, NoLeakBeforeAbort, PendingOnlyAwaited
<1> QED BY <1>1, <1>2 DEF LeakInv

\* A caller inside rpc() has a call, with an identifier.
LEMMA AwaitingCall ==
    ASSUME TypeOK, NEW t \in Callers, pc[t] # "idle"
    PROVE  call[t] \in Request /\ call[t].id \in Ids /\ call[t] # NULL
BY ReplyAssumption DEF TypeOK, Request

\* A command is registered and taken out by its own caller only.
LEMMA CallerLeak ==
    ASSUME TypeOK, SerialInv, LeakInv, NEW t \in Callers,
           SendCommand(t) \/ CallerStep(t) \/ SpuriousWakeup(t)
    PROVE  LeakInv'
<1>1. \A u \in Callers : Awaiting(u) => call[u].id \in Ids
  BY AwaitingCall DEF Awaiting
<1>2. CASE \/ SendCommand(t) \/ ReadLastId(t) \/ WriteLastId(t) \/ SendPayload(t)
           \/ Sleep(t) \/ SpuriousWakeup(t)
  <2>1. /\ AbortUnderWay' = AbortUnderWay /\ pendingCommands' = pendingCommands
        /\ \A u \in Callers \ {t} : pc'[u] = pc[u] /\ call'[u] = call[u]
    BY <1>2 DEF SendCommand, ReadLastId, WriteLastId, SendPayload, Sleep, SpuriousWakeup,
                AbortUnderWay, TypeOK
  <2>2. Awaiting(t)' <=> Awaiting(t)
    BY <1>2 DEF SendCommand, ReadLastId, WriteLastId, SendPayload, Sleep, SpuriousWakeup,
                Awaiting, TypeOK
  <2>3. Awaiting(t) => call'[t] = call[t]
    BY <1>2 DEF SendCommand, ReadLastId, WriteLastId, SendPayload, Sleep, SpuriousWakeup,
                Awaiting, TypeOK
  <2>4. \A u \in Callers : /\ Awaiting(u)' <=> Awaiting(u)
                           /\ Awaiting(u) => call'[u] = call[u]
    BY <2>1, <2>2, <2>3 DEF Awaiting
  <2>5. AbortUnderWay => AbortUnderWay'
    BY <2>1
  <2> QED BY <1>1, <2>1, <2>4, <2>5, LeakStays
<1>3. CASE Register(t)
  <2>1. /\ UNCHANGED <<call, ioPc, dPc>> /\ call[t].id \in Ids
        /\ pendingCommands' = [pendingCommands EXCEPT ![call[t].id] = NULL]
        /\ pc' = [pc EXCEPT ![t] = "await"] /\ pc[t] = "register"
    BY <1>3, AwaitingCall DEF Register
  <2>2. \A u \in Callers : Awaiting(u)' <=> (Awaiting(u) \/ u = t)
    BY <2>1 DEF Awaiting, TypeOK
  <2>3. Awaited'
    BY <1>1, <2>1, <2>2, ConstantsAssumption DEF LeakInv, Awaited, AbortUnderWay, Entry, TypeOK
  <2>4. NoLeakBeforeAbort'
    BY <2>1, <2>2 DEF LeakInv, NoLeakBeforeAbort, PendingOnlyAwaited, AbortUnderWay, TypeOK
  <2> QED BY <2>3, <2>4 DEF LeakInv
<1>4. CASE TakeReply(t)
  <2>1. /\ UNCHANGED <<call, ioPc, dPc>> /\ call[t].id \in Ids
        /\ pendingCommands' = [pendingCommands EXCEPT ![call[t].id] = Absent]
        /\ pc' = [pc EXCEPT ![t] = "idle"] /\ pc[t] \in {"await", "woken"}
    BY <1>4, AwaitingCall DEF TakeReply
  <2>2. \A u \in Callers : Awaiting(u)' <=> (Awaiting(u) /\ u # t)
    BY <2>1 DEF Awaiting, TypeOK
  <2>3. \A u \in Callers : Awaiting(u) => u \in Numbered
    BY AwaitingCall DEF Awaiting, Numbered
  <2>4. \A u \in Callers : Awaiting(u)' => call[u].id # call[t].id
    BY <2>1, <2>2, <2>3, CallersApart DEF Awaiting
  <2>5. Awaited'
    BY <1>1, <2>1, <2>2, <2>4 DEF LeakInv, Awaited, AbortUnderWay, Entry, TypeOK
  <2>6. NoLeakBeforeAbort'
    BY <2>1, <2>2 DEF LeakInv, NoLeakBeforeAbort, PendingOnlyAwaited, AbortUnderWay, TypeOK
  <2> QED BY <2>5, <2>6 DEF LeakInv
<1>5. CASE TakeAbort(t)
  <2>1. AbortUnderWay /\ AbortUnderWay' = AbortUnderWay
    BY <1>5 DEF TakeAbort, Aborted, Awaiting, LeakInv, Awaited, AbortUnderWay
  <2> QED BY <2>1 DEF LeakInv, Awaited, NoLeakBeforeAbort
<1> QED BY <1>2, <1>3, <1>4, <1>5 DEF CallerStep

\* Registered and awaited go together until the first abort.
LEMMA LeakStep == TypeOK /\ SerialInv /\ LeakInv /\ [Next]_vars => LeakInv'
<1> SUFFICES ASSUME TypeOK, SerialInv, LeakInv, [Next]_vars PROVE LeakInv'
  OBVIOUS
<1>1. CASE \E t \in Callers : SendCommand(t) \/ CallerStep(t) \/ SpuriousWakeup(t)
  BY <1>1, CallerLeak
<1>2. \A u \in Callers : Awaiting(u) => call[u].id \in Ids
  BY AwaitingCall DEF Awaiting
<1>3. CASE HandleReply
  <2>1. /\ UNCHANGED <<callerVars, dPc>> /\ ioPc = "read" /\ ioPc' \in {"read", "notify"}
        /\ \/ pendingCommands' = pendingCommands
           \/ /\ pendingCommands' = [pendingCommands EXCEPT ![Head(toClient).id] = Head(toClient)]
              /\ Head(toClient) \in Reply /\ pendingCommands[Head(toClient).id] # Absent
    <3>1. toClient # <<>> /\ Head(toClient) \in Message
      BY <1>3, HeadTailProperties DEF HandleReply, TypeOK
    <3>2. Head(toClient).kind = "ack" => Head(toClient) \in Reply
      BY <3>1 DEF Message, Status, Text
    <3> QED BY <1>3, <3>2 DEF HandleReply, Registered
  <2>2. \A i \in Ids : pendingCommands'[i] = Absent <=> pendingCommands[i] = Absent
    BY <2>1, ReplyAssumption DEF TypeOK
  <2>3. AbortUnderWay => AbortUnderWay'
    BY <2>1 DEF AbortUnderWay
  <2>4. \A u \in Callers : /\ Awaiting(u)' <=> Awaiting(u)
                           /\ Awaiting(u) => call'[u] = call[u]
    BY <2>1 DEF Awaiting, callerVars
  <2> QED BY <1>2, <2>2, <2>3, <2>4, LeakStays
<1>4. CASE \/ HandleStatus \/ HandleText \/ ErrorJoin \/ StopAndJoin \/ ResetSocket
           \/ ServerAnswers \/ ServerCloses \/ UNCHANGED vars
  <2>1. UNCHANGED <<callerVars, pendingCommands>>
    BY <1>4 DEF HandleStatus, HandleText, ErrorJoin, StopAndJoin, ResetSocket, ServerAnswers,
                ServerCloses, vars
  <2>2. AbortUnderWay => AbortUnderWay'
    BY <1>4 DEF HandleStatus, HandleText, ErrorJoin, StopAndJoin, ResetSocket, ServerAnswers,
                ServerCloses, vars, AbortUnderWay
  <2>3. \A u \in Callers : /\ Awaiting(u)' <=> Awaiting(u)
                           /\ Awaiting(u) => call'[u] = call[u]
    BY <2>1 DEF Awaiting, callerVars
  <2> QED BY <1>2, <2>1, <2>2, <2>3, LeakStays
<1>5. CASE ReplyNotify
  <2>1. /\ UNCHANGED <<call, pendingCommands>> /\ AbortUnderWay' = AbortUnderWay
    BY <1>5 DEF ReplyNotify, AbortUnderWay
  <2>2. \A u \in Callers : Awaiting(u)' <=> Awaiting(u)
    BY <1>5 DEF ReplyNotify, NotifyAll, Awaiting, TypeOK
  <2>3. AbortUnderWay => AbortUnderWay'
    BY <2>1
  <2> QED BY <1>2, <2>1, <2>2, <2>3, LeakStays
<1>6. CASE ReadError \/ ErrorNotify \/ AbortAllRPC \/ AbortNotify
  <2>1. AbortUnderWay'
    BY <1>6 DEF ReadError, ErrorNotify, AbortAllRPC, AbortNotify, AbortUnderWay
  <2> QED BY <2>1 DEF LeakInv, Awaited, NoLeakBeforeAbort
<1> QED BY <1>1, <1>3, <1>4, <1>5, <1>6 DEF Next, IoStep, DisconnectStep

\* Replies to sendRaw() and late replies leave nothing in pendingCommands until the
\* first abort: what is there belongs to a caller that waits for it.
THEOREM NothingLeftBehind ==
    ASSUME SerialIds PROVE Spec /\ []IdsLeft => []NoLeakBeforeAbort
<1>1. Init => SerialInv
  BY SerialInit
<1>2. Init => LeakInv
  BY DEF Init, LeakInv, Awaited, Awaiting, NoLeakBeforeAbort, PendingOnlyAwaited
<1>3. LeakInv => NoLeakBeforeAbort
  BY DEF LeakInv
<1> QED BY <1>1, <1>2, <1>3, SerialStep, LeakStep, TypeCorrect, PTL DEF Spec

-----------------------------------------------------------------------------
(* A "watch" call leaves the client with the status the server published   *)
(* for it: each acknowledgement of a watch comes behind a status at least  *)
(* as recent, and the statuses come in the order of their publication.     *)

Statuses == { i \in DOMAIN toClient : toClient[i].kind = "status" }
WatchAck(m) == m.kind = "ack" /\ m.rq.cmd = "watch"

StatusesInOrder ==
    /\ clipsStatus <= serverWatches
    /\ \A i \in Statuses : /\ clipsStatus <= toClient[i].watches
                           /\ toClient[i].watches <= serverWatches

\* The status of a watch is handled, or comes first.
StatusFirst ==
    \A i \in DOMAIN toClient :
        WatchAck(toClient[i]) =>
            \/ toClient[i].watches <= clipsStatus
            \/ \E j \in Statuses : j < i /\ toClient[i].watches <= toClient[j].watches

Ascending == \A i, j \in Statuses : i < j => toClient[i].watches <= toClient[j].watches

FiledFresh ==
    \A i \in Filed : WatchAck(pendingCommands[i]) => pendingCommands[i].watches <= clipsStatus

FreshInv == StatusesInOrder /\ Ascending /\ StatusFirst /\ FiledFresh /\ WatchReadFresh

\* The numbers of watches that are compared.
LEMMA WatchNumbers ==
    ASSUME TypeOK
    PROVE  /\ \A i \in DOMAIN toClient : toClient[i] \in Message
           /\ \A i \in Statuses : toClient[i].watches \in Nat
           /\ \A i \in Acks : toClient[i].watches \in Nat
           /\ \A i \in Filed : pendingCommands[i] \in Reply /\ pendingCommands[i].watches \in Nat
           /\ DOMAIN toClient \subseteq Nat
<1>1. \A i \in DOMAIN toClient : toClient[i] \in Message /\ i \in Nat
  BY DEF TypeOK
<1>2. \A m \in Message : m.kind \in {"status", "ack"} => m.watches \in Nat
  BY DEF Message, Reply, Status, Text
<1>3. \A i \in Filed : pendingCommands[i] \in Reply /\ pendingCommands[i].watches \in Nat
  BY DEF Filed, Reply
<1> QED BY <1>1, <1>2, <1>3 DEF Statuses, Acks

\* The replies that are filed and returned, while the status stays.
LEMMA FreshPending ==
    ASSUME TypeOK, FreshInv, clipsStatus' = clipsStatus,
           \A i \in Ids : pendingCommands'[i] \in Reply => pendingCommands'[i] = pendingCommands[i],
           \A t \in Callers : \/ returned'[t] = returned[t] \/ returned'[t] = NULL
                              \/ \E i \in Filed : returned'[t] = pendingCommands[i]
    PROVE  FiledFresh' /\ WatchReadFresh'
<1>1. \A i \in Filed' : i \in Filed /\ pendingCommands'[i] = pendingCommands[i]
  BY DEF Filed
<1>2. FiledFresh'
  BY <1>1 DEF FreshInv, FiledFresh
<1>3. \A i \in Filed : pendingCommands[i].rq.cmd = "watch" => pendingCommands[i].watches <= clipsStatus
  BY WatchNumbers DEF FreshInv, FiledFresh, WatchAck, Reply
<1>4. \A i \in Filed : pendingCommands[i].watches \in Nat
  BY WatchNumbers
<1>5. clipsStatus \in Nat
  BY DEF TypeOK
<1>6. WatchReadFresh'
  BY <1>3, <1>4, <1>5 DEF FreshInv, WatchReadFresh
<1> QED BY <1>2, <1>6

\* A step that adds nothing to the connection and leaves the status as it is.
LEMMA FreshStays ==
    ASSUME TypeOK, FreshInv, UNCHANGED <<clipsStatus, serverWatches>>,
           toClient' = toClient \/ toClient' = <<>>,
           \A i \in Ids : pendingCommands'[i] \in Reply => pendingCommands'[i] = pendingCommands[i],
           \A t \in Callers : \/ returned'[t] = returned[t] \/ returned'[t] = NULL
                              \/ \E i \in Filed : returned'[t] = pendingCommands[i]
    PROVE  FreshInv'
<1>1. CASE toClient' = toClient
  <2>1. Statuses' = Statuses
    BY <1>1 DEF Statuses
  <2> QED BY <1>1, <2>1, FreshPending DEF FreshInv, StatusesInOrder, Ascending, StatusFirst
<1>2. CASE toClient' = <<>>
  <2>1. DOMAIN toClient' = {} /\ Statuses' = {}
    BY <1>2 DEF Statuses
  <2> QED BY <2>1, FreshPending DEF FreshInv, StatusesInOrder, Ascending, StatusFirst
<1> QED BY <1>1, <1>2

\* What the service thread reads: the status goes on, a reply is filed behind it.
LEMMA ReceiveFresh ==
    ASSUME TypeOK, FreshInv, HandleStatus \/ HandleReply \/ HandleText
    PROVE  FreshInv'
<1>1. /\ UNCHANGED <<serverWatches, returned>> /\ toClient # <<>> /\ toClient' = Tail(toClient)
  BY DEF HandleStatus, HandleReply, HandleText, callerVars, serverVars
<1>2. /\ Head(toClient) = toClient[1] /\ 1 \in DOMAIN toClient
      /\ \A i \in DOMAIN toClient' : i + 1 \in DOMAIN toClient /\ toClient'[i] = toClient[i + 1]
  BY <1>1, TailMembers DEF TypeOK
<1>3. /\ \A i \in Statuses' : i + 1 \in Statuses /\ toClient'[i] = toClient[i + 1]
      /\ DOMAIN toClient' \subseteq Nat /\ Statuses' \subseteq DOMAIN toClient'
      /\ \A j \in Statuses : j # 1 => j - 1 \in Statuses' /\ toClient'[j - 1] = toClient[j]
  <2>1. \A j \in DOMAIN toClient : j = 1 \/ j - 1 \in DOMAIN toClient'
    BY <1>1, HeadTailProperties DEF TypeOK
  <2>2. \A j \in DOMAIN toClient : j \in Nat /\ (j - 1) + 1 = j
    BY DEF TypeOK
  <2>3. DOMAIN toClient' \subseteq Nat
    BY <1>1, HeadTailProperties DEF TypeOK
  <2>4. \A i \in Statuses' : i + 1 \in Statuses /\ toClient'[i] = toClient[i + 1]
    BY <1>2 DEF Statuses
  <2>5. ASSUME NEW j \in Statuses, j # 1
        PROVE  j - 1 \in Statuses' /\ toClient'[j - 1] = toClient[j]
    BY <1>2, <2>1, <2>2, <2>5 DEF Statuses
  <2> QED BY <2>3, <2>4, <2>5 DEF Statuses
<1>4. \/ 1 \in Statuses /\ clipsStatus' = toClient[1].watches
      \/ 1 \notin Statuses /\ clipsStatus' = clipsStatus
  BY <1>2 DEF HandleStatus, HandleReply, HandleText, Statuses, IsStatus
<1>5. /\ clipsStatus <= clipsStatus' /\ clipsStatus \in Nat /\ clipsStatus' \in Nat
      /\ clipsStatus' <= serverWatches /\ serverWatches \in Nat
      /\ \A i \in Statuses : i # 1 => clipsStatus' <= toClient[i].watches
  <2>1. clipsStatus \in Nat /\ serverWatches \in Nat /\ clipsStatus <= serverWatches
    BY DEF TypeOK, FreshInv, StatusesInOrder
  <2>2. \A i \in Statuses : i \in Nat /\ i # 0 /\ toClient[i].watches \in Nat
    BY WatchNumbers DEF Statuses, TypeOK
  <2>3. CASE 1 \in Statuses /\ clipsStatus' = toClient[1].watches
    <3>1. clipsStatus <= clipsStatus' /\ clipsStatus' <= serverWatches /\ clipsStatus' \in Nat
      BY <2>2, <2>3 DEF FreshInv, StatusesInOrder
    <3>2. \A i \in Statuses : i # 1 => 1 < i
      BY <2>2
    <3>3. \A i \in Statuses : i # 1 => clipsStatus' <= toClient[i].watches
      BY <2>3, <3>2 DEF FreshInv, Ascending
    <3> QED BY <2>1, <3>1, <3>3
  <2>4. CASE 1 \notin Statuses /\ clipsStatus' = clipsStatus
    BY <2>1, <2>4 DEF FreshInv, StatusesInOrder
  <2> QED BY <1>4, <2>3, <2>4
<1>6. StatusesInOrder'
  BY <1>1, <1>3, <1>5, WatchNumbers DEF FreshInv, StatusesInOrder
<1>7. Ascending'
  BY <1>1, <1>3, WatchNumbers DEF FreshInv, Ascending
<1>8. StatusFirst'
  <2> SUFFICES ASSUME NEW i \in DOMAIN toClient', WatchAck(toClient'[i]),
                      ~(toClient'[i].watches <= clipsStatus')
               PROVE  \E j \in Statuses' : j < i /\ toClient'[i].watches <= toClient'[j].watches
    BY DEF StatusFirst
  <2>1. i + 1 \in DOMAIN toClient /\ toClient'[i] = toClient[i + 1] /\ i \in Nat
    BY <1>2, <1>3
  <2>2. toClient[i + 1].watches \in Nat
    BY <2>1, WatchNumbers DEF WatchAck, Acks
  <2>3. PICK j \in Statuses : j < i + 1 /\ toClient[i + 1].watches <= toClient[j].watches
    BY <1>5, <2>1, <2>2 DEF FreshInv, StatusFirst
  <2>4. j # 1
    BY <1>4, <2>1, <2>3
  <2>5. j - 1 \in Statuses' /\ toClient'[j - 1] = toClient[j] /\ j \in Nat
    BY <1>3, <2>4, WatchNumbers DEF Statuses
  <2>6. j - 1 < i
    BY <2>1, <2>3, <2>5
  <2> QED BY <2>1, <2>3, <2>5, <2>6
<1>9. FiledFresh'
  <2>1. \A i \in Filed' : \/ i \in Filed /\ pendingCommands'[i] = pendingCommands[i]
                          \/ 1 \in Acks /\ pendingCommands'[i] = toClient[1]
    <3>1. CASE pendingCommands' = pendingCommands
      BY <3>1 DEF Filed
    <3>2. CASE /\ pendingCommands' = [pendingCommands EXCEPT ![toClient[1].id] = toClient[1]]
               /\ toClient[1].kind = "ack"
      BY <1>2, <3>2 DEF Filed, Acks, TypeOK
    <3> QED BY <1>2, <3>1, <3>2 DEF HandleStatus, HandleReply, HandleText
  <2>2. 1 \in Acks /\ WatchAck(toClient[1]) => toClient[1].watches <= clipsStatus
    <3>1. \A j \in Statuses : ~(j < 1)
      BY DEF Statuses, TypeOK
    <3> QED BY <1>2, <3>1 DEF FreshInv, StatusFirst
  <2>3. \A i \in Filed' : WatchAck(pendingCommands'[i])
                             => /\ pendingCommands'[i].watches <= clipsStatus
                                /\ pendingCommands'[i].watches \in Nat
    BY <2>1, <2>2, WatchNumbers DEF FreshInv, FiledFresh
  <2> QED BY <1>5, <2>3 DEF FiledFresh
<1>10. WatchReadFresh'
  <2>1. \A t \in Callers : returned[t] # NULL => returned[t].watches \in Nat
    BY DEF TypeOK, Reply
  <2> QED BY <1>1, <1>5, <2>1 DEF FreshInv, WatchReadFresh
<1> QED BY <1>6, <1>7, <1>8, <1>9, <1>10 DEF FreshInv

\* The server appends the status of a watch and then its acknowledgement.
LEMMA AnswerFresh ==
    ASSUME TypeOK, FreshInv, ServerAnswers
    PROVE  FreshInv'
<1> DEFINE rq == Head(toServer)
           w == WatchesAfter(rq)
<1>1. /\ UNCHANGED <<clipsStatus, pendingCommands, returned>> /\ toServer # <<>>
      /\ toClient' = toClient \o <<Published(rq), Ack(rq)>> /\ serverWatches' = w
  BY DEF ServerAnswers, Answer, callerVars
<1>2. rq \in Request
  BY <1>1, HeadTailProperties DEF TypeOK
<1>3. /\ w \in Nat /\ serverWatches <= w /\ serverWatches \in Nat /\ clipsStatus \in Nat
      /\ Published(rq) \in Message /\ Ack(rq) \in Message
      /\ Ack(rq).kind = "ack" /\ Ack(rq).watches = w /\ Ack(rq).rq = rq
      /\ Published(rq).kind = "status" => Published(rq).watches = w
      /\ rq.cmd = "watch" => Published(rq).kind = "status"
      /\ Published(rq).kind # "ack"
  <2>1. w \in Nat /\ serverWatches <= w /\ serverWatches \in Nat /\ clipsStatus \in Nat
    BY DEF TypeOK, WatchesAfter
  <2>2. Published(rq) \in Message
    BY <2>1 DEF Published, Message, Status, Text
  <2>3. rq.id \in Ids
    BY <1>2 DEF Request
  <2>4. Ack(rq) \in Message
    BY <1>2, <2>1, <2>3 DEF Ack, Message, Reply
  <2> QED BY <2>1, <2>2, <2>4 DEF Published, Ack
<1> HIDE DEF rq, w
<1>4. PICK n \in Nat : /\ DOMAIN toClient = 1 .. n /\ DOMAIN toClient' = 1 .. (n + 2)
                       /\ \A i \in 1 .. n : toClient'[i] = toClient[i]
                       /\ toClient'[n + 1] = Published(rq) /\ toClient'[n + 2] = Ack(rq)
  <2>1. /\ DOMAIN toClient' = 1 .. (Len(toClient) + 2) /\ Len(toClient) \in Nat
        /\ DOMAIN toClient = 1 .. Len(toClient)
        /\ \A i \in 1 .. Len(toClient) : toClient'[i] = toClient[i]
        /\ toClient'[Len(toClient) + 1] = Published(rq) /\ toClient'[Len(toClient) + 2] = Ack(rq)
    BY <1>1, <1>3, AnswerMembers DEF TypeOK
  <2> QED BY <2>1
<1>5. /\ \A i \in Statuses' : \/ i \in Statuses /\ toClient'[i] = toClient[i] /\ i <= n
                              \/ i = n + 1 /\ toClient'[i].watches = w
      /\ \A i \in Statuses : i \in Statuses' /\ toClient'[i] = toClient[i]
  BY <1>3, <1>4 DEF Statuses
<1>6. \A i \in Statuses : /\ toClient[i].watches \in Nat /\ i \in 1 .. n
                          /\ clipsStatus <= toClient[i].watches
                          /\ toClient[i].watches <= w
  BY <1>3, <1>4, WatchNumbers DEF FreshInv, StatusesInOrder, Statuses
<1>7. StatusesInOrder'
  <2>1. clipsStatus <= w
    BY <1>3 DEF FreshInv, StatusesInOrder
  <2>2. \A i \in Statuses' : clipsStatus <= toClient'[i].watches /\ toClient'[i].watches <= w
    BY <1>3, <1>5, <1>6, <2>1
  <2> QED BY <1>1, <2>1, <2>2 DEF StatusesInOrder
<1>8. Ascending'
  BY <1>3, <1>5, <1>6 DEF FreshInv, Ascending
<1>9. StatusFirst'
  <2> SUFFICES ASSUME NEW i \in DOMAIN toClient', WatchAck(toClient'[i])
               PROVE  \/ toClient'[i].watches <= clipsStatus'
                      \/ \E j \in Statuses' : j < i /\ toClient'[i].watches <= toClient'[j].watches
    BY DEF StatusFirst
  <2>1. CASE i \in 1 .. n
    BY <1>1, <1>4, <1>5, <2>1 DEF FreshInv, StatusFirst
  <2>2. CASE i = n + 2
    <3>1. n + 1 \in Statuses' /\ toClient'[n + 1].watches = w
      BY <1>3, <1>4, <2>2 DEF WatchAck, Statuses
    <3> QED BY <1>3, <1>4, <2>2, <3>1
  <2>3. i # n + 1
    BY <1>3, <1>4 DEF WatchAck
  <2> QED BY <1>4, <2>1, <2>2, <2>3
<1>10. FiledFresh' /\ WatchReadFresh'
  BY <1>1 DEF FreshInv, FiledFresh, WatchReadFresh, Filed
<1> QED BY <1>7, <1>8, <1>9, <1>10 DEF FreshInv

\* The order of statuses and acknowledgements is inductive.
LEMMA FreshStep == TypeOK /\ FreshInv /\ [Next]_vars => FreshInv'
<1> SUFFICES ASSUME TypeOK, FreshInv, [Next]_vars PROVE FreshInv'
  OBVIOUS
<1>1. CASE \E t \in Callers : SendCommand(t) \/ CallerStep(t) \/ SpuriousWakeup(t)
  <2>1. PICK t \in Callers : SendCommand(t) \/ CallerStep(t) \/ SpuriousWakeup(t)
    BY <1>1
  <2>2. UNCHANGED <<clipsStatus, serverWatches, toClient>>
    BY <2>1 DEF SendCommand, CallerStep, ReadLastId, WriteLastId, SendPayload, Register,
                TakeReply, TakeAbort, Sleep, SpuriousWakeup, serverVars
  <2>3. pc[t] # "idle" => call[t].id \in Ids
    BY AwaitingCall
  <2>4. \A i \in Ids : pendingCommands'[i] \in Reply => pendingCommands'[i] = pendingCommands[i]
    <3>1. \/ pendingCommands' = pendingCommands
          \/ pendingCommands' = [pendingCommands EXCEPT ![call[t].id] = NULL]
          \/ pendingCommands' = [pendingCommands EXCEPT ![call[t].id] = Absent]
      BY <2>1 DEF SendCommand, CallerStep, ReadLastId, WriteLastId, SendPayload, Register,
                  TakeReply, TakeAbort, Sleep, SpuriousWakeup
    <3> QED BY <3>1 DEF TypeOK
  <2>5. \A u \in Callers : \/ returned'[u] = returned[u] \/ returned'[u] = NULL
                           \/ \E i \in Filed : returned'[u] = pendingCommands[i]
    <3>1. CASE TakeReply(t)
      <4>1. call[t].id \in Filed /\ returned' = [returned EXCEPT ![t] = pendingCommands[call[t].id]]
        BY <2>3, <3>1 DEF TakeReply, ReplyArrived, Entry, Filed
      <4> QED BY <4>1 DEF TypeOK
    <3>2. CASE ~TakeReply(t)
      BY <2>1, <3>2 DEF SendCommand, CallerStep, ReadLastId, WriteLastId, SendPayload, Register,
                        TakeAbort, Sleep, SpuriousWakeup, TypeOK
    <3> QED BY <3>1, <3>2
  <2> QED BY <2>2, <2>4, <2>5, FreshStays
<1>2. CASE HandleStatus \/ HandleReply \/ HandleText
  BY <1>2, ReceiveFresh
<1>3. CASE ServerAnswers
  BY <1>3, AnswerFresh
<1>4. CASE \/ ReplyNotify \/ ErrorNotify \/ AbortNotify \/ ErrorJoin \/ StopAndJoin
           \/ ResetSocket \/ ServerCloses \/ UNCHANGED vars
  <2>1. /\ UNCHANGED <<clipsStatus, serverWatches, pendingCommands, returned>>
        /\ toClient' = toClient \/ toClient' = <<>>
    BY <1>4 DEF ReplyNotify, ErrorNotify, AbortNotify, ErrorJoin, StopAndJoin, ResetSocket,
                ServerCloses, vars, callerVars, serverVars
  <2> QED BY <2>1, FreshStays
<1>5. CASE ReadError \/ AbortAllRPC
  <2>1. /\ UNCHANGED <<clipsStatus, serverWatches, returned, toClient>>
        /\ pendingCommands' = [i \in Ids |-> Absent]
    BY <1>5 DEF ReadError, AbortAllRPC, callerVars, serverVars
  <2> QED BY <2>1, FreshStays
<1> QED BY <1>1, <1>2, <1>3, <1>4, <1>5 DEF Next, IoStep, DisconnectStep

\* When a "watch" call returns, getWatches() is at least as recent as the status the
\* server published for it: for any callers, races on the identifiers included.
THEOREM WatchesAreFresh == Spec => []WatchReadFresh
<1>1. Init => FreshInv
  <2>1. ASSUME Init PROVE Statuses = {} /\ Filed = {} /\ DOMAIN toClient = {}
    BY <2>1 DEF Init, Statuses, Filed
  <2> QED BY <2>1 DEF Init, FreshInv, StatusesInOrder, Ascending, StatusFirst, FiledFresh,
                      WatchReadFresh
<1>2. FreshInv => WatchReadFresh
  BY DEF FreshInv
<1> QED BY <1>1, <1>2, FreshStep, TypeCorrect, PTL DEF Spec

-----------------------------------------------------------------------------
(* The client implements RemoteCall.  The requests of a caller are in the  *)
(* order of their calls wherever they are: filed before on the way, on the *)
(* way before at the server, and all of them before the call that is being *)
(* made.  So none is at two places, and what the server reads is the       *)
(* oldest command of its caller.                                           *)

Before(p, q) == p.by = q.by => p.n < q.n

InTurn ==
    /\ \A i, j \in DOMAIN toServer : i < j => Before(toServer[i], toServer[j])
    /\ \A i \in Acks, j \in DOMAIN toServer : Before(toClient[i].rq, toServer[j])
    /\ \A i, j \in Acks : i < j => Before(toClient[i].rq, toClient[j].rq)
    /\ \A i \in Filed, j \in Acks : Before(pendingCommands[i].rq, toClient[j].rq)
    /\ \A i \in Filed, j \in DOMAIN toServer : Before(pendingCommands[i].rq, toServer[j])
    /\ \A i, j \in Filed : pendingCommands[i].rq.by = pendingCommands[j].rq.by
                             /\ pendingCommands[i].rq.n = pendingCommands[j].rq.n => i = j

\* A request that was sent belongs to the latest call of its caller or to an earlier one.
Past(p) ==
    /\ call[p.by] # NULL
    /\ p.n < call[p.by].n \/ (p = call[p.by] /\ p.by \notin Unsent)

\* The requests that were sent.
Sent ==
    { toServer[i] : i \in DOMAIN toServer } \cup { toClient[i].rq : i \in Acks }
      \cup { pendingCommands[i].rq : i \in Filed }

Latest == \A p \in Sent : Past(p)

Counted == \A t \in Callers : call[t] # NULL => call[t].n = calls[t]

\* A number is not in pendingCommands before it is drawn and registered.
Registering ==
    /\ \A i \in Ids : pendingCommands[i] # Absent => i <= lastCommandId
    /\ \A t \in Callers : pc[t] \in {"send", "register"} => Entry(t) = Absent

SocketClosed == socketPtr = "null" => ~peerOpen

CallInv == InTurn /\ Latest /\ Counted /\ Registering /\ SocketClosed

\* Requests are sent, and they lie in S when each of the three parts does.
LEMMA SentMembers ==
    /\ \A i \in DOMAIN toServer : toServer[i] \in Sent
    /\ \A i \in Acks : toClient[i].rq \in Sent
    /\ \A i \in Filed : pendingCommands[i].rq \in Sent
BY DEF Sent

LEMMA SentWithin ==
    ASSUME NEW S,
           \A i \in DOMAIN toServer' : toServer'[i] \in S,
           \A i \in Acks' : toClient'[i].rq \in S,
           \A i \in Filed' : pendingCommands'[i].rq \in S
    PROVE  Sent' \subseteq S
BY DEF Sent

\* Where the requests are, they are requests, with a caller and a number.
LEMMA SentTypes ==
    ASSUME TypeOK
    PROVE  /\ \A i \in DOMAIN toServer : toServer[i] \in Request /\ i \in Nat
           /\ \A i \in Acks : toClient[i] \in Reply /\ toClient[i].rq \in Request /\ i \in Nat
           /\ \A i \in Filed : pendingCommands[i] \in Reply /\ pendingCommands[i].rq \in Request
           /\ Sent \subseteq Request
           /\ \A p \in Request : p.n \in Nat /\ p.by \in Callers
<1>1. \A i \in DOMAIN toServer : toServer[i] \in Request /\ i \in Nat
  BY DEF TypeOK
<1>2. \A i \in Acks : toClient[i] \in Reply /\ toClient[i].rq \in Request /\ i \in Nat
  <2>1. \A i \in DOMAIN toClient : toClient[i] \in Message /\ i \in Nat
    BY DEF TypeOK
  <2>2. \A i \in Acks : toClient[i] \in Reply
    BY <2>1, AckIsReply DEF Acks
  <2> QED BY <2>1, <2>2 DEF Acks, Reply
<1>3. \A i \in Filed : pendingCommands[i] \in Reply /\ pendingCommands[i].rq \in Request
  BY DEF Filed, Reply
<1>4. \A p \in Request : p.n \in Nat /\ p.by \in Callers
  BY DEF Request
<1> QED BY <1>1, <1>2, <1>3, <1>4 DEF Sent

\* The order where messages and entries are only lost.
LEMMA TurnsStay ==
    ASSUME InTurn,
           toServer' = toServer \/ toServer' = <<>>,
           toClient' = toClient \/ toClient' = <<>>,
           \A i \in Ids : pendingCommands'[i] \in Reply => pendingCommands'[i] = pendingCommands[i]
    PROVE  InTurn' /\ Sent' \subseteq Sent
<1>1. \A i \in DOMAIN toServer' : i \in DOMAIN toServer /\ toServer'[i] = toServer[i]
  OBVIOUS
<1>2. \A i \in Acks' : i \in Acks /\ toClient'[i] = toClient[i]
  BY DEF Acks
<1>3. \A i \in Filed' : i \in Filed /\ pendingCommands'[i] = pendingCommands[i]
  BY DEF Filed
<1>4. InTurn'
  BY <1>1, <1>2, <1>3 DEF InTurn, Before
<1>5. Sent' \subseteq Sent
  BY <1>1, <1>2, <1>3, SentWithin, SentMembers
<1> QED BY <1>4, <1>5

\* What a caller sends is behind all that is sent.
LEMMA SendTurns ==
    ASSUME TypeOK, InTurn, Latest, Owned, NEW t \in Callers, SendPayload(t)
    PROVE  InTurn' /\ Sent' \subseteq Sent \cup {call[t]}
<1>1. /\ call[t] \in Request /\ call[t].by = t /\ t \in Unsent
      /\ UNCHANGED <<call, pendingCommands, toClient>>
      /\ toServer' = toServer \/ toServer' = Append(toServer, call[t])
  BY AwaitingCall DEF SendPayload, Owned, Unsent
<1>2. Acks' = Acks /\ Filed' = Filed
  BY <1>1 DEF Acks, Filed
<1>3. CASE toServer' = toServer
  BY <1>1, <1>3, TurnsStay
<1>4. CASE toServer' = Append(toServer, call[t])
  <2>1. /\ DOMAIN toServer' = 1 .. (Len(toServer) + 1) /\ Len(toServer) \in Nat
        /\ DOMAIN toServer = 1 .. Len(toServer)
        /\ \A i \in 1 .. Len(toServer) : toServer'[i] = toServer[i]
        /\ toServer'[Len(toServer) + 1] = call[t]
    BY <1>1, <1>4, AppendProperties DEF TypeOK
  <2>2. \A i, j \in DOMAIN toServer' : i < j => i \in DOMAIN toServer
    BY <2>1
  <2>3. \A i \in DOMAIN toServer' : \/ i \in DOMAIN toServer /\ toServer'[i] = toServer[i]
                                    \/ i = Len(toServer) + 1 /\ toServer'[i] = call[t]
    BY <2>1
  <2>4. \A p \in Sent : Before(p, call[t])
    BY <1>1 DEF Latest, Past, Before
  <2>5. \A i, j \in DOMAIN toServer' : i < j => Before(toServer'[i], toServer'[j])
    <3> SUFFICES ASSUME NEW i \in DOMAIN toServer', NEW j \in DOMAIN toServer', i < j
                 PROVE  Before(toServer'[i], toServer'[j])
      OBVIOUS
    <3>1. i \in DOMAIN toServer /\ toServer'[i] = toServer[i]
      BY <2>1, <2>2
    <3>2. CASE j \in DOMAIN toServer /\ toServer'[j] = toServer[j]
      BY <3>1, <3>2 DEF InTurn
    <3>3. CASE toServer'[j] = call[t]
      BY <2>4, <3>1, <3>3, SentMembers
    <3> QED BY <2>3, <3>2, <3>3
  <2>6. \A i \in Acks, j \in DOMAIN toServer' : Before(toClient[i].rq, toServer'[j])
    BY <2>3, <2>4, SentMembers DEF InTurn
  <2>7. \A i \in Filed, j \in DOMAIN toServer' : Before(pendingCommands[i].rq, toServer'[j])
    BY <2>3, <2>4, SentMembers DEF InTurn
  <2>8. InTurn'
    BY <1>1, <1>2, <2>5, <2>6, <2>7 DEF InTurn, Before
  <2>9. Sent' \subseteq Sent \cup {call[t]}
    <3>1. \A i \in DOMAIN toServer' : toServer'[i] \in Sent \cup {call[t]}
      BY <2>3, SentMembers
    <3>2. \A i \in Acks' : toClient'[i].rq \in Sent
      BY <1>1, <1>2, SentMembers
    <3>3. \A i \in Filed' : pendingCommands'[i].rq \in Sent
      BY <1>1, <1>2, SentMembers
    <3> QED BY <3>1, <3>2, <3>3 DEF Sent
  <2> QED BY <2>8, <2>9
<1> QED BY <1>1, <1>3, <1>4

\* The reply that is handled is the oldest on the way: it is filed behind the others.
LEMMA ReceiveTurns ==
    ASSUME TypeOK, InTurn, HandleStatus \/ HandleReply \/ HandleText
    PROVE  InTurn' /\ Sent' \subseteq Sent
<1>1. toServer' = toServer /\ toClient # <<>> /\ toClient' = Tail(toClient)
  BY DEF HandleStatus, HandleReply, HandleText
<1>2. /\ Head(toClient) = toClient[1] /\ 1 \in DOMAIN toClient
      /\ \A i \in DOMAIN toClient' : /\ i + 1 \in DOMAIN toClient /\ i \in Nat /\ i # 0
                                     /\ toClient'[i] = toClient[i + 1]
  BY <1>1, TailMembers, HeadTailProperties DEF TypeOK
<1>3. \A i \in Acks' : /\ i + 1 \in Acks /\ i \in Nat /\ i # 0 /\ 1 < i + 1
                       /\ toClient'[i] = toClient[i + 1]
  BY <1>2 DEF Acks
<1>4. \A i \in Filed' : \/ i \in Filed /\ pendingCommands'[i] = pendingCommands[i]
                        \/ 1 \in Acks /\ pendingCommands'[i] = toClient[1] /\ toClient[1].id = i
  <2>1. CASE pendingCommands' = pendingCommands
    BY <2>1 DEF Filed
  <2>2. CASE /\ pendingCommands' = [pendingCommands EXCEPT ![toClient[1].id] = toClient[1]]
             /\ toClient[1].kind = "ack"
    BY <1>2, <2>2 DEF Filed, Acks, TypeOK
  <2> QED BY <1>2, <2>1, <2>2 DEF HandleStatus, HandleReply, HandleText
<1>5. Sent' \subseteq Sent
  BY <1>1, <1>3, <1>4, SentWithin, SentMembers
<1>6. \A i, j \in Acks' : i < j => Before(toClient'[i].rq, toClient'[j].rq)
  <2>1. \A i, j \in Acks' : i < j => i + 1 < j + 1
    BY <1>3
  <2> QED BY <1>3, <2>1 DEF InTurn
<1>7. \A i \in Acks', j \in DOMAIN toServer : Before(toClient'[i].rq, toServer[j])
  BY <1>3 DEF InTurn
<1>8. \A i \in Filed', j \in Acks' : Before(pendingCommands'[i].rq, toClient'[j].rq)
  BY <1>3, <1>4 DEF InTurn
<1>9. \A i \in Filed', j \in DOMAIN toServer : Before(pendingCommands'[i].rq, toServer[j])
  BY <1>4 DEF InTurn
<1>10. \A i, j \in Filed' : pendingCommands'[i].rq.by = pendingCommands'[j].rq.by
                              /\ pendingCommands'[i].rq.n = pendingCommands'[j].rq.n => i = j
  <2>1. \A i \in Filed : 1 \in Acks /\ pendingCommands[i].rq.by = toClient[1].rq.by
                           => pendingCommands[i].rq.n # toClient[1].rq.n
    BY SentTypes DEF InTurn, Before
  <2> QED BY <1>4, <2>1 DEF InTurn
<1>11. InTurn'
  BY <1>1, <1>6, <1>7, <1>8, <1>9, <1>10 DEF InTurn, Before
<1> QED BY <1>5, <1>11

\* The server answers the oldest request it has not answered.
LEMMA AnswerTurns ==
    ASSUME TypeOK, InTurn, ServerAnswers
    PROVE  InTurn' /\ Sent' \subseteq Sent
<1> DEFINE rq == Head(toServer)
<1>1. /\ pendingCommands' = pendingCommands
      /\ toServer # <<>> /\ toServer' = Tail(toServer)
      /\ toClient' = toClient \o <<Published(rq), Ack(rq)>>
  BY DEF ServerAnswers, Answer
<1>2. /\ rq = toServer[1] /\ 1 \in DOMAIN toServer /\ rq \in Request
      /\ \A i \in DOMAIN toServer' : /\ i + 1 \in DOMAIN toServer /\ i \in Nat /\ 1 < i + 1
                                     /\ toServer'[i] = toServer[i + 1]
  <2>1. /\ rq = toServer[1] /\ 1 \in DOMAIN toServer /\ rq \in Request
        /\ \A i \in DOMAIN toServer' : /\ i + 1 \in DOMAIN toServer /\ toServer'[i] = toServer[i + 1]
    BY <1>1, TailMembers DEF TypeOK
  <2>2. \A i \in DOMAIN toServer' : i \in Nat /\ i > 0
    BY <1>1, HeadTailProperties DEF TypeOK
  <2>3. \A i \in Nat : i > 0 => 1 < i + 1
    OBVIOUS
  <2> QED BY <2>1, <2>2, <2>3
<1>3. /\ Published(rq) \in Message /\ Ack(rq) \in Message
      /\ Published(rq).kind # "ack" /\ Ack(rq).rq = rq
  <2>1. WatchesAfter(rq) \in Nat /\ rq.id \in Ids
    BY <1>2 DEF WatchesAfter, TypeOK, Request
  <2>2. Published(rq) \in Message
    BY <2>1 DEF Published, Message, Status, Text
  <2>3. Ack(rq) \in Message
    BY <1>2, <2>1 DEF Ack, Message, Reply
  <2> QED BY <2>2, <2>3 DEF Published, Ack
<1> HIDE DEF rq
<1>4. \A i \in Acks' : \/ i \in Acks /\ toClient'[i] = toClient[i]
                       \/ i = Len(toClient) + 2 /\ toClient'[i].rq = rq
  BY <1>1, <1>3, AnswerMembers DEF Acks, TypeOK
<1>5. \A i, j \in Acks' : i < j => i \in Acks /\ toClient'[i] = toClient[i]
  <2>1. \A i \in Acks' : i \in Nat /\ i <= Len(toClient) + 2
    BY <1>1, <1>3, AnswerMembers DEF Acks, TypeOK
  <2>2. Len(toClient) + 2 \in Nat
    BY LenProperties DEF TypeOK
  <2> QED BY <1>4, <2>1, <2>2
<1>6. Filed' = Filed
  BY <1>1 DEF Filed
<1>7. Sent' \subseteq Sent
  BY <1>1, <1>2, <1>4, <1>6, SentWithin, SentMembers
<1>8. \A i, j \in DOMAIN toServer' : i < j => Before(toServer'[i], toServer'[j])
  <2>1. \A i, j \in DOMAIN toServer' : i < j => i + 1 < j + 1
    BY <1>2
  <2> QED BY <1>2, <2>1 DEF InTurn
<1>9. \A i \in Acks', j \in DOMAIN toServer' : Before(toClient'[i].rq, toServer'[j])
  BY <1>2, <1>4 DEF InTurn
<1>10. \A i, j \in Acks' : i < j => Before(toClient'[i].rq, toClient'[j].rq)
  BY <1>2, <1>4, <1>5 DEF InTurn
<1>11. \A i \in Filed, j \in Acks' : Before(pendingCommands[i].rq, toClient'[j].rq)
  BY <1>2, <1>4 DEF InTurn
<1>12. \A i \in Filed, j \in DOMAIN toServer' : Before(pendingCommands[i].rq, toServer'[j])
  BY <1>2 DEF InTurn
<1>13. InTurn'
  BY <1>1, <1>6, <1>8, <1>9, <1>10, <1>11, <1>12 DEF InTurn, Before
<1> QED BY <1>7, <1>13

\* A caller goes on to its next call, draws a number for it or keeps what it has.
LEMMA CallsGoOn ==
    ASSUME TypeOK, Counted, NEW t \in Callers, SendCommand(t) \/ CallerStep(t) \/ SpuriousWakeup(t)
    PROVE  /\ Counted'
           /\ \A u \in Callers : call[u] # NULL =>
                 \/ call'[u] = call[u] /\ (u \in Unsent' => u \in Unsent)
                 \/ call'[u] # NULL /\ call'[u].n = call[u].n + 1
                 \/ call'[u] # NULL /\ call'[u].n = call[u].n /\ u \in Unsent
<1>1. CASE SendCommand(t)
  <2>1. /\ \A u \in Callers \ {t} : call'[u] = call[u] /\ calls'[u] = calls[u] /\ pc'[u] = pc[u]
        /\ call'[t].n = calls[t] + 1 /\ calls'[t] = calls[t] + 1
    BY <1>1 DEF SendCommand, TypeOK
  <2>2. call'[t] # NULL
    <3>1. PICK c \in Commands, r \in BOOLEAN :
             call' = [call EXCEPT ![t] = [id |-> 0, by |-> t, n |-> calls[t] + 1, cmd |-> c]]
      BY <1>1 DEF SendCommand
    <3>2. [id |-> 0, by |-> t, n |-> calls[t] + 1, cmd |-> c] \in Request
      BY <1>1 DEF SendCommand, Request, Ids, TypeOK
    <3> QED BY <3>1, <3>2, ReplyAssumption DEF TypeOK
  <2>3. Counted'
    BY <2>1 DEF Counted
  <2>4. \A u \in Callers \ {t} : u \in Unsent' => u \in Unsent
    BY <2>1 DEF Unsent
  <2> QED BY <2>1, <2>2, <2>3, <2>4 DEF Counted
<1>2. CASE WriteLastId(t)
  <2>1. /\ call' = [call EXCEPT ![t].id = NextId(idReg[t])] /\ calls' = calls
        /\ \A u \in Callers \ {t} : pc'[u] = pc[u]
        /\ pc[t] = "writeId" /\ call[t] \in Request
    BY <1>2 DEF WriteLastId, TypeOK
  <2>2. call' = [call EXCEPT ![t] = [call[t] EXCEPT !.id = NextId(idReg[t])]]
    BY <2>1
  <2>3. call'[t] = [call[t] EXCEPT !.id = NextId(idReg[t])]
    BY <2>2 DEF TypeOK
  <2>4. [call[t] EXCEPT !.id = NextId(idReg[t])] \in Request
    <3>1. NextId(idReg[t]) \in Ids
      BY DEF NextId, Ids, TypeOK
    <3> QED BY <2>1, <3>1 DEF Request
  <2>5. call'[t] # NULL /\ call'[t].n = call[t].n
    BY <2>1, <2>3, <2>4, ReplyAssumption DEF Request
  <2>6. \A u \in Callers \ {t} : call'[u] = call[u] /\ (u \in Unsent' => u \in Unsent)
    BY <2>1, <2>2 DEF TypeOK, Unsent
  <2>7. t \in Unsent /\ call[t] # NULL
    BY <2>1, ReplyAssumption DEF Unsent
  <2> QED BY <2>1, <2>5, <2>6, <2>7 DEF Counted
<1>3. CASE \/ ReadLastId(t) \/ SendPayload(t) \/ Register(t) \/ TakeReply(t) \/ TakeAbort(t)
           \/ Sleep(t) \/ SpuriousWakeup(t)
  <2>1. call' = call /\ calls' = calls
    BY <1>3 DEF ReadLastId, SendPayload, Register, TakeReply, TakeAbort, Sleep, SpuriousWakeup
  <2>2. /\ \A u \in Callers \ {t} : pc'[u] = pc[u]
        /\ pc'[t] \in {"readId", "writeId", "send"} => pc[t] \in {"readId", "writeId", "send"}
    BY <1>3 DEF ReadLastId, SendPayload, Register, TakeReply, TakeAbort, Sleep, SpuriousWakeup, TypeOK
  <2>3. \A u \in Callers : u \in Unsent' => u \in Unsent
    BY <2>2 DEF Unsent
  <2> QED BY <2>1, <2>3 DEF Counted
<1> QED BY <1>1, <1>2, <1>3 DEF CallerStep

\* So the requests that were sent stay in the past.
LEMMA PastStays ==
    ASSUME TypeOK, NEW p \in Request, Past(p), LET u == p.by IN
              \/ call'[u] = call[u] /\ (u \in Unsent' => u \in Unsent)
              \/ call'[u] # NULL /\ call'[u].n = call[u].n + 1
              \/ call'[u] # NULL /\ call'[u].n = call[u].n /\ u \in Unsent
    PROVE  Past(p)'
<1>1. p.by \in Callers /\ p.n \in Nat /\ call[p.by] \in Request
  BY SentTypes DEF Past, TypeOK
<1>2. call[p.by].n \in Nat /\ p.n <= call[p.by].n
  BY <1>1, SentTypes DEF Past
<1> QED BY <1>1, <1>2 DEF Past

\* No step of the service thread, of disconnect() or of the server begins a call.
LEMMA OthersKeepCalls ==
    ASSUME TypeOK, Counted, UNCHANGED <<call, calls>>,
           \A t \in Callers : pc'[t] = pc[t] \/ (pc[t] = "asleep" /\ pc'[t] = "woken")
    PROVE  Counted' /\ Unsent' = Unsent
BY DEF Counted, Unsent

\* The entries of the calls that are not registered, while the counter stays.
LEMMA RegisteringStays ==
    ASSUME TypeOK, Registering, lastCommandId' = lastCommandId,
           \A i \in Ids : pendingCommands[i] = Absent => pendingCommands'[i] = Absent,
           \A t \in Callers : pc'[t] \in {"send", "register"}
                                 => pc[t] \in {"send", "register"} /\ call'[t] = call[t]
    PROVE  Registering'
<1>1. \A t \in Callers : pc[t] \in {"send", "register"} => call[t].id \in Ids
  BY AwaitingCall
<1> QED BY <1>1 DEF Registering, Entry

\* A caller that registers its command, or inserts it again after an abort.
LEMMA RegisterStep ==
    ASSUME TypeOK, SerialInv, Registering, NEW t \in Callers, Register(t) \/ TakeAbort(t)
    PROVE  Registering'
<1>1. /\ UNCHANGED <<lastCommandId, call>> /\ call[t].id \in Ids /\ t \in Numbered
      /\ pendingCommands' = [pendingCommands EXCEPT ![call[t].id] = NULL]
      /\ pc'[t] \in {"await", "idle"} /\ \A u \in Callers \ {t} : pc'[u] = pc[u]
  BY AwaitingCall DEF Register, TakeAbort, Numbered, TypeOK
<1>2. call[t].id <= lastCommandId
  BY <1>1, OutstandingMembers DEF SerialInv, Numbering
<1>3. \A u \in Callers : pc'[u] \in {"send", "register"}
         => pc[u] \in {"send", "register"} /\ call[u].id \in Ids /\ call[u].id # call[t].id
  <2> SUFFICES ASSUME NEW u \in Callers, pc'[u] \in {"send", "register"}
               PROVE  pc[u] \in {"send", "register"} /\ call[u].id \in Ids /\ call[u].id # call[t].id
    OBVIOUS
  <2>1. u # t /\ pc[u] \in {"send", "register"}
    BY <1>1
  <2>2. u \in Numbered /\ call[u].id \in Ids
    BY <2>1, AwaitingCall DEF Numbered
  <2> QED BY <1>1, <2>1, <2>2, CallersApart
<1>4. \A i \in Ids : pendingCommands'[i] # Absent => i <= lastCommandId
  BY <1>1, <1>2 DEF Registering, TypeOK
<1>5. \A u \in Callers : pc'[u] \in {"send", "register"} => Entry(u)' = Absent
  BY <1>1, <1>3 DEF Registering, Entry, TypeOK
<1> QED BY <1>1, <1>4, <1>5 DEF Registering

\* The number that is drawn is a new one.
LEMMA DrawRegistering ==
    ASSUME TypeOK, IdsLeft, SerialInv, Registering, NEW t \in Callers, WriteLastId(t)
    PROVE  Registering'
<1>1. idReg[t] = lastCommandId /\ lastCommandId \in Nat /\ lastCommandId + 1 < IdMod
  BY DEF WriteLastId, SerialInv, Numbering, TypeOK, Ids, CommandIdNone, IdsLeft
<1>2. NextId(idReg[t]) = lastCommandId + 1
  BY <1>1 DEF NextId
<1>3. /\ lastCommandId' = lastCommandId + 1 /\ pendingCommands' = pendingCommands
      /\ call' = [call EXCEPT ![t].id = lastCommandId + 1] /\ call[t] \in Request
      /\ pc' = [pc EXCEPT ![t] = "send"]
  BY <1>2 DEF WriteLastId, TypeOK
<1>4. call' = [call EXCEPT ![t] = [call[t] EXCEPT !.id = lastCommandId + 1]]
  BY <1>3
<1>5. call'[t].id = lastCommandId + 1 /\ \A u \in Callers \ {t} : call'[u] = call[u] /\ pc'[u] = pc[u]
  BY <1>3, <1>4 DEF TypeOK, Request
<1>6. lastCommandId + 1 \in Ids /\ ~(lastCommandId + 1 <= lastCommandId)
  BY <1>1 DEF Ids
<1>7. Entry(t)' = Absent
  BY <1>3, <1>5, <1>6 DEF Registering, Entry
<1>8. \A u \in Callers \ {t} : pc'[u] \in {"send", "register"} => Entry(u)' = Absent
  BY <1>3, <1>5 DEF Registering, Entry
<1>9. \A i \in Ids : pendingCommands[i] # Absent => i <= lastCommandId + 1
  BY <1>1 DEF Registering, Ids
<1> QED BY <1>3, <1>7, <1>8, <1>9 DEF Registering

\* The order of the requests through the steps of a caller.
LEMMA CallerCalls ==
    ASSUME TypeOK, IdsLeft, SerialInv, CallInv, NEW t \in Callers,
           SendCommand(t) \/ CallerStep(t) \/ SpuriousWakeup(t)
    PROVE  CallInv'
<1>1. Counted' /\ \A p \in Sent : Past(p)'
  <2>1. \A p \in Sent : p \in Request /\ p.by \in Callers /\ call[p.by] # NULL /\ Past(p)
    BY SentTypes DEF CallInv, Latest, Past
  <2> QED BY <2>1, CallsGoOn, PastStays DEF CallInv
<1>2. CASE SendPayload(t)
  <2>1. InTurn' /\ Sent' \subseteq Sent \cup {call[t]}
    BY <1>2, SendTurns DEF CallInv, SerialInv
  <2>2. ASSUME NEW p \in {call[t]} PROVE Past(p)'
    <3>1. /\ call[t].by = t /\ call[t] # NULL /\ call' = call
          /\ pc' = [pc EXCEPT ![t] = IF raw[t] THEN "idle" ELSE "register"]
      BY <1>2, AwaitingCall DEF SendPayload, SerialInv, Owned
    <3>2. t \notin Unsent'
      BY <3>1 DEF Unsent, TypeOK
    <3> QED BY <3>1, <3>2 DEF Past
  <2>3. Registering'
    <3>1. UNCHANGED <<call, pendingCommands, lastCommandId>>
      BY <1>2 DEF SendPayload
    <3>2. \A u \in Callers : pc'[u] \in {"send", "register"} => pc[u] \in {"send", "register"}
      BY <1>2 DEF SendPayload, TypeOK
    <3> QED BY <3>1, <3>2, RegisteringStays DEF CallInv
  <2>4. UNCHANGED <<socketPtr, peerOpen>>
    BY <1>2 DEF SendPayload, serverVars
  <2>5. \A p \in Sent' : Past(p)'
    BY <1>1, <2>1, <2>2
  <2>6. Latest' /\ SocketClosed'
    BY <2>4, <2>5 DEF CallInv, Latest, SocketClosed
  <2> QED BY <1>1, <2>1, <2>3, <2>6 DEF CallInv
<1>3. CASE ~SendPayload(t)
  <2>1. UNCHANGED <<toServer, toClient, socketPtr, peerOpen>>
    BY <1>3 DEF SendCommand, CallerStep, ReadLastId, WriteLastId, Register,
                TakeReply, TakeAbort, Sleep, SpuriousWakeup, serverVars
  <2>2. \A i \in Ids : pendingCommands'[i] \in Reply => pendingCommands'[i] = pendingCommands[i]
    <3>1. pc[t] # "idle" => call[t].id \in Ids
      BY AwaitingCall
    <3>2. \/ pendingCommands' = pendingCommands
          \/ pendingCommands' = [pendingCommands EXCEPT ![call[t].id] = NULL]
          \/ pendingCommands' = [pendingCommands EXCEPT ![call[t].id] = Absent]
      BY <1>3 DEF SendCommand, CallerStep, ReadLastId, WriteLastId, Register,
                  TakeReply, TakeAbort, Sleep, SpuriousWakeup
    <3> QED BY <3>2, ReplyAssumption DEF TypeOK
  <2>3. InTurn' /\ Sent' \subseteq Sent
    BY <2>1, <2>2, TurnsStay DEF CallInv
  <2>4. Registering'
    <3>1. CASE Register(t) \/ TakeAbort(t)
      BY <3>1, RegisterStep DEF CallInv
    <3>2. CASE WriteLastId(t)
      BY <3>2, DrawRegistering DEF CallInv
    <3>3. CASE SendCommand(t) \/ ReadLastId(t) \/ TakeReply(t) \/ Sleep(t) \/ SpuriousWakeup(t)
      <4>1. lastCommandId' = lastCommandId
        BY <3>3 DEF SendCommand, ReadLastId, TakeReply, Sleep, SpuriousWakeup
      <4>2. \A i \in Ids : pendingCommands[i] = Absent => pendingCommands'[i] = Absent
        BY <3>3 DEF SendCommand, ReadLastId, TakeReply, Sleep, SpuriousWakeup, TypeOK
      <4>3. \A u \in Callers : pc'[u] \in {"send", "register"} => pc'[u] = pc[u] /\ call'[u] = call[u]
        BY <3>3 DEF SendCommand, ReadLastId, TakeReply, Sleep, SpuriousWakeup, TypeOK
      <4> QED BY <4>1, <4>2, <4>3, RegisteringStays DEF CallInv
    <3> QED BY <1>3, <3>1, <3>2, <3>3 DEF CallerStep
  <2> QED BY <1>1, <2>1, <2>3, <2>4 DEF CallInv, Latest, SocketClosed
<1> QED BY <1>2, <1>3

\* The order of the requests is inductive with the numbering.
LEMMA CallInvStep == TypeOK /\ IdsLeft /\ SerialInv /\ CallInv /\ [Next]_vars => CallInv'
<1> SUFFICES ASSUME TypeOK, IdsLeft, SerialInv, CallInv, [Next]_vars PROVE CallInv'
  OBVIOUS
<1>1. CASE \E t \in Callers : SendCommand(t) \/ CallerStep(t) \/ SpuriousWakeup(t)
  BY <1>1, CallerCalls
<1>2. CASE ~(\E t \in Callers : SendCommand(t) \/ CallerStep(t) \/ SpuriousWakeup(t))
  <2>1. IoStep \/ AbortAllRPC \/ DisconnectStep \/ ServerAnswers \/ ServerCloses \/ UNCHANGED vars
    BY <1>2 DEF Next
  <2>2. UNCHANGED <<lastCommandId, call, calls>>
    BY <2>1 DEF IoStep, HandleStatus, HandleReply, HandleText, ReplyNotify, ReadError, ErrorNotify,
                ErrorJoin, AbortAllRPC, DisconnectStep, AbortNotify, StopAndJoin, ResetSocket,
                ServerAnswers, ServerCloses, vars, callerVars
  <2>3. \A t \in Callers : pc'[t] = pc[t] \/ (pc[t] = "asleep" /\ pc'[t] = "woken")
    <3>1. pc' = pc \/ NotifyAll
      BY <2>1 DEF IoStep, HandleStatus, HandleReply, HandleText, ReplyNotify, ReadError, ErrorNotify,
                  ErrorJoin, AbortAllRPC, DisconnectStep, AbortNotify, StopAndJoin, ResetSocket,
                  ServerAnswers, ServerCloses, vars, callerVars
    <3> QED BY <3>1 DEF NotifyAll, TypeOK
  <2>4. Counted' /\ Unsent' = Unsent
    BY <2>2, <2>3, OthersKeepCalls DEF CallInv
  <2>5. InTurn' /\ Sent' \subseteq Sent
    <3>1. CASE HandleStatus \/ HandleReply \/ HandleText
      BY <3>1, ReceiveTurns DEF CallInv
    <3>2. CASE ServerAnswers
      BY <3>2, AnswerTurns DEF CallInv
    <3>3. CASE ~(HandleStatus \/ HandleReply \/ HandleText) /\ ~ServerAnswers
      <4>1. /\ toServer' = toServer \/ toServer' = <<>>
            /\ toClient' = toClient \/ toClient' = <<>>
            /\ pendingCommands' = pendingCommands \/ pendingCommands' = [i \in Ids |-> Absent]
        BY <2>1, <3>3 DEF IoStep, ReplyNotify, ReadError, ErrorNotify, ErrorJoin, AbortAllRPC,
                          DisconnectStep, AbortNotify, StopAndJoin, ResetSocket, ServerCloses, vars
      <4>2. \A i \in Ids : pendingCommands'[i] \in Reply => pendingCommands'[i] = pendingCommands[i]
        BY <4>1, ReplyAssumption
      <4> QED BY <4>1, <4>2, TurnsStay DEF CallInv
    <3> QED BY <3>1, <3>2, <3>3
  <2>6. Latest'
    BY <2>2, <2>4, <2>5 DEF CallInv, Latest, Past
  <2>7. Registering'
    <3>1. \A i \in Ids : pendingCommands[i] = Absent => pendingCommands'[i] = Absent
      <4>1. CASE HandleReply
        <5>1. Head(toClient).id \in Ids
          BY <4>1, HeadTailProperties, AckIsReply DEF HandleReply, TypeOK
        <5> QED BY <4>1, <5>1 DEF HandleReply, Registered, TypeOK
      <4>2. CASE ~HandleReply
        BY <2>1, <4>2 DEF IoStep, HandleStatus, HandleText, ReplyNotify, ReadError, ErrorNotify,
                          ErrorJoin, AbortAllRPC, DisconnectStep, AbortNotify, StopAndJoin,
                          ResetSocket, ServerAnswers, ServerCloses, vars
      <4> QED BY <4>1, <4>2
    <3>2. \A t \in Callers : pc'[t] \in {"send", "register"} => pc'[t] = pc[t]
      BY <2>3
    <3> QED BY <2>2, <3>1, <3>2, RegisteringStays DEF CallInv
  <2>8. SocketClosed'
    BY <2>1 DEF CallInv, SocketClosed, IoStep, HandleStatus, HandleReply, HandleText, ReplyNotify,
                ReadError, ErrorNotify, ErrorJoin, AbortAllRPC, DisconnectStep, AbortNotify,
                StopAndJoin, ResetSocket, ServerAnswers, ServerCloses, vars, serverVars
  <2> QED BY <2>4, <2>5, <2>6, <2>7, <2>8 DEF CallInv
<1> QED BY <1>1, <1>2

LEMMA CallInvInit == Init => CallInv
<1>1. ASSUME Init PROVE DOMAIN toServer = {} /\ Acks = {} /\ Filed = {} /\ Sent = {}
  BY <1>1, ReplyAssumption DEF Init, Sent, Acks, Filed
<1>2. ASSUME Init PROVE InTurn /\ Latest /\ Counted /\ Registering /\ SocketClosed
  BY <1>1, <1>2 DEF Init, InTurn, Latest, Counted, Registering, SocketClosed
<1> QED BY <1>2 DEF CallInv

\* The mapping, where a step leaves its parts alone.
LEMMA CallsUnchanged ==
    ASSUME UNCHANGED <<peerOpen, calls, serverWatches>>, AbortUnderWay' = AbortUnderWay,
           Places' = Places, Given' = Given, Got' = Got, Open' = Open, Results' = Results
    PROVE  UNCHANGED RC!vars
BY DEF RC!vars

LEMMA PlacesMove ==
    ASSUME NEW t \in Callers, \A u \in Callers \ {t} : pc'[u] = pc[u] /\ raw'[u] = raw[u]
    PROVE  Places' = [Places EXCEPT ![t] = Place(t)']
BY DEF Places, Place, Awaiting

LEMMA PlacesStay ==
    ASSUME raw' = raw,
           \A u \in Callers : \/ pc'[u] = pc[u]
                              \/ pc[u] \in {"readId", "writeId"} /\ pc'[u] \in {"writeId", "send"}
                              \/ Awaiting(u) /\ Awaiting(u)'
    PROVE  Places' = Places
<1>1. \A u \in Callers : Place(u)' = Place(u)
  BY DEF Place, Awaiting
<1> QED BY <1>1 DEF Places

LEMMA PlaceOf ==
    ASSUME NEW t \in Callers
    PROVE  /\ Places[t] = Place(t)
           /\ pc[t] = "idle" => Places[t] = "idle"
           /\ pc[t] # "idle" /\ raw[t] => Places[t] = "sending"
           /\ pc[t] # "idle" /\ ~raw[t] /\ ~Awaiting(t) => Places[t] = "calling"
           /\ ~raw[t] /\ Awaiting(t) => Places[t] = "waiting"
           /\ Places[t] = "waiting" => ~raw[t] /\ Awaiting(t)
BY DEF Places, Place, Awaiting

LEMMA OpenStays ==
    ASSUME call' = call, toServer' = toServer,
           \A u \in Callers : pc'[u] \in {"readId", "writeId", "send"}
                                 <=> pc[u] \in {"readId", "writeId", "send"}
    PROVE  Open' = Open
<1>1. Unsent' = Unsent
  BY DEF Unsent
<1> QED BY <1>1 DEF Open

LEMMA ResultsStay ==
    ASSUME toClient' = toClient,
           \A i \in Ids : pendingCommands'[i] \in Reply \/ pendingCommands[i] \in Reply
                             => pendingCommands'[i] = pendingCommands[i]
    PROVE  Results' = Results
<1>1. Acks' = Acks /\ Filed' = Filed
  BY DEF Acks, Filed
<1>2. \A i \in Filed : pendingCommands'[i] = pendingCommands[i]
  BY DEF Filed
<1>3. { Result(pendingCommands'[i]) : i \in Filed } = { Result(pendingCommands[i]) : i \in Filed }
  BY <1>2
<1> QED BY <1>1, <1>3 DEF Results

\* A command tells the caller, the number and the command of its request.
LEMMA CommandParts ==
    ASSUME NEW p, NEW q, Command(p) = Command(q)
    PROVE  p.by = q.by /\ p.n = q.n /\ p.cmd = q.cmd
<1>1. Command(p).by = p.by /\ Command(p).n = p.n /\ Command(p).cmd = p.cmd
  BY DEF Command
<1>2. Command(q).by = q.by /\ Command(q).n = q.n /\ Command(q).cmd = q.cmd
  BY DEF Command
<1> QED BY <1>1, <1>2

\* Where there is no sendRaw() there is a wait.
OnlyRpcWaits == \A t \in Callers : pc[t] = "register" \/ Awaiting(t) => ~raw[t]

LEMMA OnlyRpcStep == TypeOK /\ OnlyRpcWaits /\ [Next]_vars => OnlyRpcWaits'
<1> SUFFICES ASSUME TypeOK, OnlyRpcWaits, [Next]_vars PROVE OnlyRpcWaits'
  OBVIOUS
<1>1. CASE \E t \in Callers : SendCommand(t) \/ CallerStep(t) \/ SpuriousWakeup(t)
  <2>1. PICK t \in Callers : SendCommand(t) \/ CallerStep(t) \/ SpuriousWakeup(t)
    BY <1>1
  <2>2. CASE SendPayload(t)
    <3>1. CASE raw[t]
      <4>1. raw' = raw /\ pc' = [pc EXCEPT ![t] = "idle"]
        BY <2>2, <3>1 DEF SendPayload
      <4> QED BY <4>1 DEF OnlyRpcWaits, Awaiting, TypeOK
    <3>2. CASE ~raw[t]
      <4>1. raw' = raw /\ \A u \in Callers \ {t} : pc'[u] = pc[u]
        BY <2>2 DEF SendPayload, TypeOK
      <4> QED BY <3>2, <4>1 DEF OnlyRpcWaits, Awaiting
    <3> QED BY <3>1, <3>2
  <2>3. CASE SendCommand(t)
    <3>1. \A u \in Callers \ {t} : pc'[u] = pc[u] /\ raw'[u] = raw[u]
      BY <2>3 DEF SendCommand, TypeOK
    <3>2. pc'[t] = "readId"
      BY <2>3 DEF SendCommand, TypeOK
    <3> QED BY <3>1, <3>2 DEF OnlyRpcWaits, Awaiting
  <2>4. CASE ~SendPayload(t) /\ ~SendCommand(t)
    <3>1. raw' = raw
      BY <2>1, <2>4 DEF CallerStep, ReadLastId, WriteLastId, Register, TakeReply, TakeAbort, Sleep,
                        SpuriousWakeup
    <3>2. /\ \A u \in Callers \ {t} : pc'[u] = pc[u]
          /\ pc'[t] = "register" \/ Awaiting(t)' => pc[t] = "register" \/ Awaiting(t)
      BY <2>1, <2>4 DEF CallerStep, ReadLastId, WriteLastId, Register, TakeReply, TakeAbort, Sleep,
                        SpuriousWakeup, Awaiting, TypeOK
    <3> QED BY <3>1, <3>2 DEF OnlyRpcWaits, Awaiting
  <2> QED BY <2>2, <2>3, <2>4
<1>2. CASE IoStep \/ AbortAllRPC \/ DisconnectStep \/ ServerAnswers \/ ServerCloses \/ UNCHANGED vars
  <2>1. raw' = raw /\ (pc' = pc \/ NotifyAll)
    BY <1>2 DEF IoStep, HandleStatus, HandleReply, HandleText, ReplyNotify, ReadError, ErrorNotify,
                ErrorJoin, AbortAllRPC, DisconnectStep, AbortNotify, StopAndJoin, ResetSocket,
                ServerAnswers, ServerCloses, vars, callerVars
  <2>2. \A t \in Callers : pc'[t] = pc[t] \/ (pc[t] = "asleep" /\ pc'[t] = "woken")
    BY <2>1 DEF NotifyAll, TypeOK
  <2> QED BY <2>1, <2>2 DEF OnlyRpcWaits, Awaiting
<1> QED BY <1>1, <1>2 DEF Next

\* rpc() and sendRaw() give a command that has not been given.
LEMMA BeginsCall == ASSUME TypeOK, NEW t \in Callers, SendCommand(t) PROVE RC!Begin(t)
<1>1. PICK c \in Commands, r \in BOOLEAN :
        /\ call' = [call EXCEPT ![t] = [id |-> 0, by |-> t, n |-> calls[t] + 1, cmd |-> c]]
        /\ raw' = [raw EXCEPT ![t] = r]
  BY DEF SendCommand
<1>2. /\ pc[t] = "idle" /\ pc' = [pc EXCEPT ![t] = "readId"]
      /\ calls' = [calls EXCEPT ![t] = @ + 1]
      /\ returned' = [returned EXCEPT ![t] = NULL]
      /\ UNCHANGED <<peerOpen, serverWatches, ioPc, dPc, pendingCommands, toServer, toClient>>
  BY DEF SendCommand, serverVars
<1> DEFINE rq == [id |-> 0, by |-> t, n |-> calls[t] + 1, cmd |-> c]
           new == [by |-> t, n |-> calls[t] + 1, cmd |-> c]
<1>3. rq \in Request /\ rq # NULL /\ Command(rq) = new
  <2>1. rq \in Request
    BY DEF SendCommand, Request, Ids, TypeOK
  <2> QED BY <2>1, ReplyAssumption DEF Command
<1>4. call'[t] = rq /\ \A u \in Callers \ {t} : call'[u] = call[u] /\ pc'[u] = pc[u] /\ raw'[u] = raw[u]
  BY <1>1, <1>2 DEF TypeOK
<1> HIDE DEF rq
<1>5. Given' = [Given EXCEPT ![t] = new]
  BY <1>3, <1>4 DEF Given
<1>6. Open' = Open \cup {new}
  <2>1. Unsent' = Unsent \cup {t} /\ t \notin Unsent
    BY <1>2, <1>4 DEF Unsent, TypeOK
  <2>2. { Command(call'[u]) : u \in Unsent' } = { Command(call[u]) : u \in Unsent } \cup {new}
    <3>1. \A u \in Unsent : u \in Callers \ {t}
      BY <2>1 DEF Unsent
    <3> QED BY <1>3, <1>4, <2>1, <3>1
  <2> HIDE DEF new
  <2> QED BY <1>2, <2>2 DEF Open
<1>7. Got' = [Got EXCEPT ![t] = NULL]
  BY <1>2 DEF Got, TypeOK
<1>8. PICK p \in {"sending", "calling"} : Places' = [Places EXCEPT ![t] = p]
  <2>1. pc'[t] = "readId"
    BY <1>2 DEF TypeOK
  <2>2. Place(t)' \in {"sending", "calling"}
    BY <2>1 DEF Place, Awaiting
  <2> QED BY <1>4, <2>2, PlacesMove
<1>9. Places[t] = "idle"
  BY <1>2, PlaceOf
<1>10. Results' = Results /\ AbortUnderWay' = AbortUnderWay
  BY <1>2 DEF Results, Acks, Filed, AbortUnderWay
<1>11. c \in {"raw", "watch"}
  BY DEF Commands
<1> QED BY <1>2, <1>5, <1>6, <1>7, <1>8, <1>9, <1>10, <1>11 DEF RC!Begin

\* The number is not part of the command.
LEMMA DrawsUnseen ==
    ASSUME TypeOK, NEW t \in Callers, ReadLastId(t) \/ WriteLastId(t)
    PROVE  UNCHANGED RC!vars
<1>1. /\ UNCHANGED <<peerOpen, serverWatches, ioPc, dPc, calls, raw, returned, pendingCommands,
                     toServer, toClient>>
      /\ pc[t] \in {"readId", "writeId"} /\ pc'[t] \in {"writeId", "send"}
      /\ \A u \in Callers \ {t} : pc'[u] = pc[u] /\ call'[u] = call[u]
      /\ call[t] \in Request
  BY DEF ReadLastId, WriteLastId, serverVars, TypeOK
<1>2. call'[t] # NULL /\ Command(call'[t]) = Command(call[t])
  <2>1. CASE call' = call
    BY <1>1, <2>1, ReplyAssumption
  <2>2. CASE WriteLastId(t)
    <3>1. call' = [call EXCEPT ![t] = [call[t] EXCEPT !.id = NextId(idReg[t])]]
      BY <2>2 DEF WriteLastId
    <3>2. call'[t] = [call[t] EXCEPT !.id = NextId(idReg[t])]
      BY <3>1 DEF TypeOK
    <3>3. NextId(idReg[t]) \in Ids
      BY DEF NextId, Ids, TypeOK
    <3>4. call'[t] \in Request /\ Command(call'[t]) = Command(call[t])
      BY <1>1, <3>2, <3>3 DEF Request, Command
    <3> QED BY <3>4, ReplyAssumption
  <2> QED BY <2>1, <2>2 DEF ReadLastId
<1>3. Given' = Given
  BY <1>1, <1>2, ReplyAssumption DEF Given
<1>4. Open' = Open
  <2>1. Unsent' = Unsent
    BY <1>1 DEF Unsent
  <2>2. \A u \in Unsent : Command(call'[u]) = Command(call[u])
    BY <1>1, <1>2 DEF Unsent
  <2>3. { Command(call'[u]) : u \in Unsent } = { Command(call[u]) : u \in Unsent }
    BY <2>2
  <2> QED BY <1>1, <2>1, <2>3 DEF Open
<1>5. Places' = Places
  BY <1>1, PlacesStay
<1>6. Got' = Got /\ Results' = Results /\ AbortUnderWay' = AbortUnderWay
  BY <1>1 DEF Got, Results, Acks, Filed, AbortUnderWay
<1> QED BY <1>1, <1>3, <1>4, <1>5, <1>6, CallsUnchanged

\* The command reaches the server, or is lost with the connection.
LEMMA SendsCommand ==
    ASSUME TypeOK, CallInv, NEW t \in Callers, SendPayload(t)
    PROVE  RC!Sent(t) \/ UNCHANGED RC!vars \/ \E c \in Open : RC!Lose(c)
<1> DEFINE c == Command(call[t])
<1>1. /\ UNCHANGED <<peerOpen, serverWatches, ioPc, dPc, call, calls, raw, returned,
                     pendingCommands, toClient>>
      /\ pc[t] = "send" /\ pc' = [pc EXCEPT ![t] = IF raw[t] THEN "idle" ELSE "register"]
      /\ call[t] \in Request /\ call[t] # NULL
      /\ \/ toServer' = Append(toServer, call[t])
         \/ ~peerOpen /\ toServer' = toServer
  BY AwaitingCall DEF SendPayload, serverVars, CallInv, SocketClosed
<1>2. /\ \A u \in Callers \ {t} : pc'[u] = pc[u] /\ raw'[u] = raw[u]
      /\ raw[t] => pc'[t] = "idle"
      /\ ~raw[t] => pc'[t] = "register"
  BY <1>1 DEF TypeOK
<1>3. t \in Unsent /\ Unsent' = Unsent \ {t} /\ c \in Open
  BY <1>1, <1>2 DEF Unsent, Open
<1>4. Open' = Open \/ (~peerOpen /\ Open' = Open \ {c})
  <2>1. Open' \cup {c} = Open \/ (~peerOpen /\ Open' \cup {c} = Open)
    <3>1. { Command(call[u]) : u \in Unsent' } \cup {c} = { Command(call[u]) : u \in Unsent }
      BY <1>3
    <3>2. CASE toServer' = toServer
      BY <1>1, <3>1, <3>2 DEF Open
    <3>3. CASE toServer' = Append(toServer, call[t])
      <4>1. { Command(toServer'[i]) : i \in DOMAIN toServer' }
               = { Command(toServer[i]) : i \in DOMAIN toServer } \cup {c}
        <5>1. /\ DOMAIN toServer' = 1 .. (Len(toServer) + 1) /\ Len(toServer) \in Nat
              /\ DOMAIN toServer = 1 .. Len(toServer)
              /\ \A i \in 1 .. Len(toServer) : toServer'[i] = toServer[i]
              /\ toServer'[Len(toServer) + 1] = call[t]
          BY <1>1, <3>3, AppendProperties DEF TypeOK
        <5>2. DOMAIN toServer' = DOMAIN toServer \cup {Len(toServer) + 1}
          BY <5>1
        <5> QED BY <5>1, <5>2
      <4>2. Open' = { Command(call[u]) : u \in Unsent' } \cup { Command(toServer[i]) : i \in DOMAIN toServer }
                      \cup {c}
        BY <1>1, <4>1 DEF Open
      <4> QED BY <3>1, <4>2 DEF Open
    <3> QED BY <1>1, <3>2, <3>3
  <2>2. CASE toServer' = Append(toServer, call[t])
    <3>1. c \in Open'
      <4>1. /\ Len(toServer) + 1 \in DOMAIN toServer' /\ toServer'[Len(toServer) + 1] = call[t]
        BY <1>1, <2>2, AppendProperties, LenProperties DEF TypeOK
      <4> QED BY <1>1, <4>1 DEF Open
    <3> QED BY <2>1, <3>1
  <2>3. CASE ~peerOpen
    BY <1>3, <2>1, <2>3
  <2> QED BY <1>1, <2>2, <2>3
<1>5. Given' = Given /\ Got' = Got /\ Results' = Results /\ AbortUnderWay' = AbortUnderWay
  BY <1>1 DEF Given, Got, Results, Acks, Filed, AbortUnderWay
<1>6. CASE raw[t]
  <2>1. Places[t] = "sending" /\ Places' = [Places EXCEPT ![t] = "idle"]
    <3>1. Place(t)' = "idle"
      BY <1>2, <1>6 DEF Place
    <3> QED BY <1>1, <1>2, <1>6, <3>1, PlaceOf, PlacesMove
  <2>2. Given[t] = c
    BY <1>1 DEF Given
  <2>3. RC!Sent(t)
    BY <1>1, <1>4, <1>5, <2>1, <2>2 DEF RC!Sent
  <2> QED BY <2>3
<1>7. CASE ~raw[t]
  <2>1. Places' = Places
    <3>1. Place(t) = "calling" /\ Place(t)' = "calling"
      BY <1>1, <1>2, <1>7 DEF Place, Awaiting
    <3>2. Places' = [Places EXCEPT ![t] = Places[t]]
      BY <1>2, <3>1, PlacesMove, PlaceOf
    <3> QED BY <3>2 DEF Places
  <2>2. CASE Open' = Open
    BY <1>1, <1>5, <2>1, <2>2, CallsUnchanged
  <2>3. CASE ~peerOpen /\ Open' = Open \ {c}
    <3>1. RC!Lose(c)
      BY <1>1, <1>5, <2>1, <2>3 DEF RC!Lose
    <3> QED BY <1>3, <3>1
  <2> QED BY <1>4, <2>2, <2>3
<1> QED BY <1>6, <1>7

\* rpc() begins to wait; nothing is filed under its number yet.
LEMMA BeginsWait ==
    ASSUME TypeOK, CallInv, OnlyRpcWaits, NEW t \in Callers, Register(t)
    PROVE  RC!Wait(t)
<1>1. /\ UNCHANGED <<peerOpen, serverWatches, ioPc, dPc, call, calls, raw, returned,
                     toServer, toClient>>
      /\ pc[t] = "register" /\ pc' = [pc EXCEPT ![t] = "await"] /\ ~raw[t] /\ call[t].id \in Ids
      /\ pendingCommands' = [pendingCommands EXCEPT ![call[t].id] = NULL]
  BY AwaitingCall DEF Register, serverVars, OnlyRpcWaits
<1>2. Places[t] = "calling" /\ Places' = [Places EXCEPT ![t] = "waiting"]
  <2>1. \A u \in Callers \ {t} : pc'[u] = pc[u] /\ raw'[u] = raw[u]
    BY <1>1 DEF TypeOK
  <2>2. Place(t)' = "waiting"
    BY <1>1 DEF Place, Awaiting, TypeOK
  <2>3. Places[t] = "calling"
    BY <1>1, PlaceOf DEF Awaiting
  <2> QED BY <2>1, <2>2, <2>3, PlacesMove
<1>3. Results' = Results
  <2>1. pendingCommands[call[t].id] = Absent
    BY <1>1 DEF CallInv, Registering, Entry
  <2> QED BY <1>1, <2>1, ResultsStay, ReplyAssumption DEF TypeOK
<1>4. Open' = Open
  BY <1>1, OpenStays DEF TypeOK
<1>5. Given' = Given /\ Got' = Got /\ AbortUnderWay' = AbortUnderWay
  BY <1>1 DEF Given, Got, AbortUnderWay
<1> QED BY <1>1, <1>2, <1>3, <1>4, <1>5 DEF RC!Wait

\* rpc() takes the result of its command, and it was the only one.
LEMMA ReturnsResult ==
    ASSUME TypeOK, SerialInv, CallInv, OnlyRpcWaits, NEW t \in Callers, TakeReply(t)
    PROVE  RC!Return(t)
<1> DEFINE id == call[t].id
           r == Result(Entry(t))
<1>1. /\ UNCHANGED <<peerOpen, serverWatches, ioPc, dPc, call, calls, raw, toServer, toClient>>
      /\ pc[t] \in {"await", "woken"} /\ pc' = [pc EXCEPT ![t] = "idle"] /\ ~raw[t]
      /\ id \in Ids /\ call[t] # NULL
      /\ Entry(t) \in Reply /\ Entry(t) = pendingCommands[id] /\ Entry(t).rq = call[t]
      /\ returned' = [returned EXCEPT ![t] = Entry(t)]
      /\ pendingCommands' = [pendingCommands EXCEPT ![id] = Absent]
  BY AwaitingCall, TakeOwnReply DEF TakeReply, ReplyArrived, serverVars, OnlyRpcWaits, Awaiting, Entry
<1>2. Places[t] = "waiting" /\ Places' = [Places EXCEPT ![t] = "idle"]
  <2>1. \A u \in Callers \ {t} : pc'[u] = pc[u] /\ raw'[u] = raw[u]
    BY <1>1 DEF TypeOK
  <2>2. Place(t)' = "idle"
    BY <1>1 DEF Place, TypeOK
  <2>3. Places[t] = "waiting"
    BY <1>1, PlaceOf DEF Awaiting
  <2> QED BY <2>1, <2>2, <2>3, PlacesMove
<1>3. r.rq = Given[t]
  BY <1>1 DEF Given, Result
<1>4. Got' = [Got EXCEPT ![t] = r]
  <2>1. Entry(t) # NULL
    BY <1>1, ReplyAssumption
  <2> QED BY <1>1, <2>1 DEF Got, TypeOK
<1>5. r \in Results /\ Results' = Results \ {r}
  <2>1. id \in Filed /\ Filed' = Filed \ {id} /\ Acks' = Acks
    BY <1>1, ReplyAssumption DEF Filed, Acks, TypeOK
  <2>2. \A j \in Filed' : pendingCommands'[j] = pendingCommands[j]
    BY <1>1, <2>1 DEF Filed, TypeOK
  <2>3. \A m, q : Result(m) = Result(q) => Command(m.rq) = Command(q.rq)
    BY DEF Result
  <2>4. ASSUME NEW j \in Filed, Result(pendingCommands[j]) = r PROVE j = id
    <3>1. Command(pendingCommands[j].rq) = Command(pendingCommands[id].rq)
      BY <1>1, <2>3, <2>4
    <3> HIDE DEF id
    <3> QED BY <2>1, <3>1, CommandParts DEF CallInv, InTurn
  <2>5. ASSUME NEW i \in Acks PROVE Result(toClient[i]) # r
    <3> SUFFICES ASSUME Result(toClient[i]) = r PROVE FALSE
      OBVIOUS
    <3>1. Command(toClient[i].rq) = Command(pendingCommands[id].rq)
      BY <1>1, <2>3
    <3>2. toClient[i].rq.by = pendingCommands[id].rq.by /\ toClient[i].rq.n = pendingCommands[id].rq.n
      BY <3>1, CommandParts
    <3>3. toClient[i].rq.n \in Nat
      BY SentTypes
    <3> HIDE DEF id
    <3> QED BY <2>1, <3>2, <3>3 DEF CallInv, InTurn, Before
  <2>6. r \in Results
    BY <1>1, <2>1 DEF Results
  <2>7. Results' = { Result(toClient[i]) : i \in Acks } \cup { Result(pendingCommands[j]) : j \in Filed \ {id} }
    <3>1. { Result(pendingCommands'[j]) : j \in Filed' } = { Result(pendingCommands[j]) : j \in Filed \ {id} }
      BY <2>1, <2>2
    <3> QED BY <1>1, <2>1, <3>1 DEF Results
  <2>8. Results = { Result(toClient[i]) : i \in Acks } \cup { Result(pendingCommands[j]) : j \in Filed \ {id} } \cup {r}
    BY <1>1, <2>1 DEF Results
  <2>9. r \notin { Result(toClient[i]) : i \in Acks } \cup { Result(pendingCommands[j]) : j \in Filed \ {id} }
    BY <2>4, <2>5
  <2> HIDE DEF r
  <2> QED BY <2>6, <2>7, <2>8, <2>9
<1>6. Open' = Open
  BY <1>1, OpenStays DEF TypeOK
<1>7. Given' = Given /\ AbortUnderWay' = AbortUnderWay
  BY <1>1 DEF Given, AbortUnderWay
<1> HIDE DEF r
<1> QED BY <1>1, <1>2, <1>3, <1>4, <1>5, <1>6, <1>7 DEF RC!Return

\* A call whose entry is gone was aborted.
LEMMA GivesUp ==
    ASSUME TypeOK, LeakInv, OnlyRpcWaits, NEW t \in Callers, TakeAbort(t)
    PROVE  RC!GiveUp(t)
<1>1. /\ UNCHANGED <<peerOpen, serverWatches, ioPc, dPc, call, calls, raw, returned,
                     toServer, toClient>>
      /\ pc[t] \in {"await", "woken"} /\ pc' = [pc EXCEPT ![t] = "idle"] /\ ~raw[t]
      /\ call[t].id \in Ids /\ pendingCommands[call[t].id] = Absent
      /\ pendingCommands' = [pendingCommands EXCEPT ![call[t].id] = NULL]
  BY AwaitingCall DEF TakeAbort, Aborted, Entry, serverVars, OnlyRpcWaits, Awaiting
<1>2. AbortUnderWay
  BY <1>1 DEF LeakInv, Awaited, Awaiting, Entry
<1>3. Places[t] = "waiting" /\ Places' = [Places EXCEPT ![t] = "idle"]
  <2>1. \A u \in Callers \ {t} : pc'[u] = pc[u] /\ raw'[u] = raw[u]
    BY <1>1 DEF TypeOK
  <2>2. Place(t)' = "idle"
    BY <1>1 DEF Place, TypeOK
  <2>3. Places[t] = "waiting"
    BY <1>1, PlaceOf DEF Awaiting
  <2> QED BY <2>1, <2>2, <2>3, PlacesMove
<1>4. Results' = Results
  BY <1>1, ResultsStay, ReplyAssumption DEF TypeOK
<1>5. Open' = Open
  BY <1>1, OpenStays DEF TypeOK
<1>6. Given' = Given /\ Got' = Got /\ AbortUnderWay' = AbortUnderWay
  BY <1>1 DEF Given, Got, AbortUnderWay
<1> QED BY <1>1, <1>2, <1>3, <1>4, <1>5, <1>6 DEF RC!GiveUp

\* Sleeping and waking, and what moves neither calls nor messages, is not seen.
LEMMA QuietUnseen ==
    ASSUME TypeOK, AbortUnderWay' = AbortUnderWay,
           UNCHANGED <<peerOpen, serverWatches, call, calls, raw, returned, pendingCommands,
                       toServer, toClient>>,
           \A u \in Callers : pc'[u] = pc[u] \/ (Awaiting(u) /\ Awaiting(u)')
    PROVE  UNCHANGED RC!vars
<1>1. Places' = Places
  BY PlacesStay
<1>2. Open' = Open
  BY OpenStays DEF Awaiting
<1>3. Results' = Results
  BY ResultsStay
<1>4. Given' = Given /\ Got' = Got
  BY DEF Given, Got
<1> QED BY <1>1, <1>2, <1>3, <1>4, CallsUnchanged

\* A reply that is handled is filed, or nobody waits for it: whoever would wait for
\* it was aborted.
LEMMA ReceivesResult ==
    ASSUME TypeOK, IdsLeft, SerialInv, LeakInv, CallInv, HandleStatus \/ HandleReply \/ HandleText
    PROVE  UNCHANGED RC!vars \/ RC!Forget
<1> DEFINE m == toClient[1]
<1>1. /\ UNCHANGED <<peerOpen, serverWatches, pc, call, calls, raw, returned, toServer>>
      /\ toClient # <<>> /\ toClient' = Tail(toClient)
  BY DEF HandleStatus, HandleReply, HandleText, callerVars, serverVars
<1>2. /\ Head(toClient) = m /\ 1 \in DOMAIN toClient
      /\ \A i \in DOMAIN toClient' : i + 1 \in DOMAIN toClient /\ toClient'[i] = toClient[i + 1]
      /\ \A j \in DOMAIN toClient \ {1} : j - 1 \in DOMAIN toClient' /\ toClient'[j - 1] = toClient[j]
  <2>1. /\ Head(toClient) = m /\ 1 \in DOMAIN toClient
        /\ \A i \in DOMAIN toClient' : i + 1 \in DOMAIN toClient /\ toClient'[i] = toClient[i + 1]
    BY <1>1, TailMembers DEF TypeOK
  <2>2. \A j \in DOMAIN toClient : j = 1 \/ j - 1 \in DOMAIN toClient'
    BY <1>1, HeadTailProperties DEF TypeOK
  <2>3. \A j \in DOMAIN toClient : (j - 1) + 1 = j
    BY DEF TypeOK
  <2> QED BY <2>1, <2>2, <2>3
<1>3. AbortUnderWay' = AbortUnderWay
  <2>1. dPc' = dPc /\ ioPc = "read" /\ ioPc' \in {"read", "notify"}
    BY DEF HandleStatus, HandleReply, HandleText
  <2> QED BY <2>1 DEF AbortUnderWay
<1>4. Places' = Places /\ Given' = Given /\ Got' = Got /\ Open' = Open
  BY <1>1, PlacesStay, OpenStays DEF Given, Got
<1>5. /\ \A i \in Acks' : i + 1 \in Acks /\ toClient'[i] = toClient[i + 1]
      /\ \A j \in Acks \ {1} : j - 1 \in Acks' /\ toClient'[j - 1] = toClient[j]
  BY <1>2 DEF Acks
<1> DEFINE rest == { Result(toClient[i]) : i \in Acks \ {1} }
           filed == { Result(pendingCommands[i]) : i \in Filed }
<1>6. { Result(toClient'[i]) : i \in Acks' } = rest
  <2>1. \A i \in Acks' : i + 1 # 1
    BY <1>1, HeadTailProperties DEF Acks, TypeOK
  <2> QED BY <1>5, <2>1
<1>7. 1 \in Acks => m \in Reply /\ m.id \in Ids /\ m.id # CommandIdNone /\ m.id = m.rq.id
  <2> SUFFICES ASSUME 1 \in Acks PROVE m \in Reply /\ m.id \in Ids /\ m.id # CommandIdNone /\ m.id = m.rq.id
    OBVIOUS
  <2>1. m \in Message /\ m.kind = "ack"
    BY <1>1, <1>2, HeadTailProperties DEF TypeOK, Acks
  <2>2. m \in Reply /\ m.id \in Ids
    BY <2>1, AckIsReply
  <2>3. m.rq \in Outstanding /\ m.id = m.rq.id
    BY OutstandingMembers DEF SerialInv, Addressed
  <2>4. m.id <= lastCommandId /\ lastCommandId < CommandIdNone
    BY <2>3 DEF SerialInv, Numbering, IdsLeft
  <2>5. m.id # CommandIdNone
    BY <2>2, <2>4 DEF Ids, CommandIdNone, TypeOK
  <2> QED BY <2>2, <2>3, <2>5
<1>8. Results = filed \cup rest \cup (IF 1 \in Acks THEN {Result(m)} ELSE {})
  BY DEF Results
<1>9. CASE 1 \notin Acks
  <2>1. pendingCommands' = pendingCommands
    BY <1>2, <1>9 DEF HandleStatus, HandleReply, HandleText, Acks
  <2>2. Results' = filed \cup rest
    BY <1>6, <2>1 DEF Results, Filed
  <2>3. Results' = Results
    BY <1>8, <1>9, <2>2
  <2> QED BY <1>1, <1>3, <1>4, <2>3, CallsUnchanged
<1>10. CASE 1 \in Acks /\ Registered(m.id)
  <2>1. pendingCommands' = [pendingCommands EXCEPT ![m.id] = m]
    BY <1>2, <1>7, <1>10 DEF HandleStatus, HandleReply, HandleText, Acks, IsStatus
  <2>2. pendingCommands[m.id] \notin Reply
    <3> SUFFICES ASSUME pendingCommands[m.id] \in Reply PROVE FALSE
      OBVIOUS
    <3>1. m.id \in Filed
      BY <1>7, <1>10 DEF Filed
    <3>2. pendingCommands[m.id].rq \in Outstanding /\ m.rq \in Outstanding
      BY <1>10, <3>1, OutstandingMembers
    <3>3. pendingCommands[m.id].rq.id = m.id
      BY <3>1 DEF SerialInv, Addressed
    <3>4. pendingCommands[m.id].rq = m.rq
      BY <1>7, <1>10, <3>2, <3>3 DEF SerialInv, Numbering
    <3>5. Before(pendingCommands[m.id].rq, m.rq) /\ m.rq.n \in Nat
      BY <1>10, <3>1, SentTypes DEF CallInv, InTurn
    <3> QED BY <3>4, <3>5 DEF Before
  <2>3. Filed' = Filed \cup {m.id} /\ m.id \notin Filed
    BY <1>7, <1>10, <2>1, <2>2 DEF Filed, TypeOK
  <2>4. { Result(pendingCommands'[i]) : i \in Filed' } = filed \cup {Result(m)}
    <3>1. \A i \in Filed : pendingCommands'[i] = pendingCommands[i]
      BY <1>7, <2>1, <2>3 DEF Filed, TypeOK
    <3>2. pendingCommands'[m.id] = m
      BY <1>7, <1>10, <2>1 DEF TypeOK
    <3> HIDE DEF m
    <3> QED BY <2>3, <3>1, <3>2
  <2>5. Results' = filed \cup rest \cup {Result(m)}
    BY <1>6, <2>4 DEF Results
  <2>6. Results' = Results
    BY <1>8, <1>10, <2>5
  <2> QED BY <1>1, <1>3, <1>4, <2>6, CallsUnchanged
<1>11. CASE 1 \in Acks /\ ~Registered(m.id)
  <2>1. pendingCommands' = pendingCommands
    BY <1>2, <1>7, <1>11 DEF HandleStatus, HandleReply, HandleText, Acks, IsStatus
  <2>2. Results' = filed \cup rest
    BY <1>6, <2>1 DEF Results, Filed
  <2>3. Results' \subseteq Results /\ \A r \in Results \ Results' : r = Result(m)
    BY <1>8, <1>11, <2>2
  <2>4. AbortUnderWay \/ \A t \in Callers : Places[t] = "waiting" => Given[t] # Result(m).rq
    <3> SUFFICES ASSUME NEW t \in Callers, Places[t] = "waiting", Given[t] = Result(m).rq
                 PROVE  AbortUnderWay
      OBVIOUS
    <3>1. Awaiting(t) /\ call[t] \in Request /\ call[t] # NULL
      BY PlaceOf, AwaitingCall DEF Awaiting
    <3>2. Command(call[t]) = Command(m.rq)
      BY <3>1 DEF Given, Result
    <3>3. m.rq.by = t /\ m.rq.n = call[t].n
      BY <3>1, <3>2, CommandParts DEF SerialInv, Owned
    <3>4. Past(m.rq)
      BY <1>11, SentMembers DEF CallInv, Latest
    <3>5. call[t].n \in Nat
      BY <3>1, SentTypes
    <3>6. m.rq = call[t]
      BY <3>3, <3>4, <3>5 DEF Past
    <3>7. Entry(t) = Absent
      BY <1>7, <1>11, <3>6 DEF Entry, Registered
    <3> QED BY <3>1, <3>7 DEF LeakInv, Awaited
  <2>5. RC!Forget
    BY <1>1, <1>3, <1>4, <2>3, <2>4 DEF RC!Forget
  <2> QED BY <2>5
<1> QED BY <1>9, <1>10, <1>11

\* The server executes the oldest command of its caller, which nobody else has.
LEMMA ExecutesCommand ==
    ASSUME TypeOK, SerialInv, CallInv, ServerAnswers
    PROVE  \E c \in Open : RC!Execute(c)
<1> DEFINE rq == Head(toServer)
           c == Command(rq)
           r == [rq |-> c, watches |-> serverWatches']
<1>1. /\ UNCHANGED <<peerOpen, ioPc, dPc, pc, call, calls, raw, returned, pendingCommands>>
      /\ peerOpen /\ toServer # <<>> /\ toServer' = Tail(toServer)
      /\ serverWatches' = WatchesAfter(rq)
      /\ toClient' = toClient \o <<Published(rq), Ack(rq)>>
  BY DEF ServerAnswers, Answer, callerVars
<1>2. /\ rq = toServer[1] /\ 1 \in DOMAIN toServer /\ rq \in Request
      /\ \A i \in DOMAIN toServer' : /\ i + 1 \in DOMAIN toServer /\ i + 1 # 1
                                     /\ toServer'[i] = toServer[i + 1]
      /\ \A j \in DOMAIN toServer \ {1} : /\ j - 1 \in DOMAIN toServer' /\ 1 < j
                                          /\ toServer'[j - 1] = toServer[j]
  <2>1. /\ rq = toServer[1] /\ 1 \in DOMAIN toServer /\ rq \in Request
        /\ \A i \in DOMAIN toServer' : i + 1 \in DOMAIN toServer /\ toServer'[i] = toServer[i + 1]
    BY <1>1, TailMembers DEF TypeOK
  <2>2. \A i \in DOMAIN toServer' : i + 1 # 1
    BY <1>1, HeadTailProperties DEF TypeOK
  <2>3. \A j \in DOMAIN toServer \ {1} : j - 1 \in DOMAIN toServer' /\ 1 < j /\ (j - 1) + 1 = j
    BY <1>1, HeadTailProperties DEF TypeOK
  <2> QED BY <2>1, <2>2, <2>3
<1>3. /\ Published(rq) \in Message /\ Ack(rq) \in Message
      /\ Published(rq).kind # "ack" /\ Ack(rq).kind = "ack" /\ Result(Ack(rq)) = r
  <2>1. WatchesAfter(rq) \in Nat /\ rq.id \in Ids
    BY <1>2 DEF WatchesAfter, TypeOK, Request
  <2>2. Published(rq) \in Message
    BY <2>1 DEF Published, Message, Status, Text
  <2>3. Ack(rq) \in Message
    BY <1>2, <2>1 DEF Ack, Message, Reply
  <2>4. Result(Ack(rq)) = r
    BY <1>1 DEF Ack, Result
  <2> QED BY <2>2, <2>3, <2>4 DEF Published, Ack
<1>4. serverWatches' = IF c.cmd = "watch" THEN serverWatches + 1 ELSE serverWatches
  BY <1>1 DEF Command, WatchesAfter
<1> HIDE DEF rq
<1>5. Results' = Results \cup {r}
  <2>1. PICK n \in Nat : /\ DOMAIN toClient = 1 .. n /\ DOMAIN toClient' = 1 .. (n + 2)
                         /\ \A i \in 1 .. n : toClient'[i] = toClient[i]
                         /\ toClient'[n + 1] = Published(rq) /\ toClient'[n + 2] = Ack(rq)
    <3>1. /\ DOMAIN toClient' = 1 .. (Len(toClient) + 2) /\ Len(toClient) \in Nat
          /\ DOMAIN toClient = 1 .. Len(toClient)
          /\ \A i \in 1 .. Len(toClient) : toClient'[i] = toClient[i]
          /\ toClient'[Len(toClient) + 1] = Published(rq) /\ toClient'[Len(toClient) + 2] = Ack(rq)
      BY <1>1, <1>3, AnswerMembers DEF TypeOK
    <3> QED BY <3>1
  <2>2. Acks' = Acks \cup {n + 2} /\ \A i \in Acks : toClient'[i] = toClient[i]
    <3>1. \A i \in 1 .. (n + 2) : i \in 1 .. n \/ i = n + 1 \/ i = n + 2
      OBVIOUS
    <3>2. \A i \in 1 .. n : i \in 1 .. (n + 2)
      OBVIOUS
    <3>3. n + 2 \in 1 .. (n + 2)
      OBVIOUS
    <3> QED BY <1>3, <2>1, <3>1, <3>2, <3>3 DEF Acks
  <2>3. { Result(toClient'[i]) : i \in Acks' } = { Result(toClient[i]) : i \in Acks } \cup {r}
    <3> HIDE DEF r
    <3> QED BY <1>3, <2>1, <2>2
  <2>4. Filed' = Filed
    BY <1>1 DEF Filed
  <2> HIDE DEF r
  <2> QED BY <1>1, <2>3, <2>4 DEF Results
<1>6. /\ rq.n \in Nat /\ Past(rq)
      /\ \A u \in Unsent : call[u] \in Request /\ call[u].by = u /\ call[u].n \in Nat
      /\ \A j \in DOMAIN toServer : toServer[j].n \in Nat
  <2>1. \A u \in Unsent : call[u] \in Request /\ call[u] # NULL /\ u \in Callers
    BY AwaitingCall DEF Unsent
  <2> QED BY <1>2, <2>1, SentTypes, SentMembers DEF CallInv, Latest, SerialInv, Owned
<1>7. \A u \in Unsent : Before(rq, call[u])
  BY <1>6 DEF Past, Before
<1>8. \A j \in DOMAIN toServer \ {1} : Before(rq, toServer[j])
  BY <1>2 DEF CallInv, InTurn
<1>9. c \in Open /\ Open' = Open \ {c}
  <2> DEFINE unsent == { Command(call[u]) : u \in Unsent }
             behind == { Command(toServer[j]) : j \in DOMAIN toServer \ {1} }
  <2>1. Open = unsent \cup behind \cup {c}
    BY <1>2 DEF Open
  <2>2. Open' = unsent \cup behind
    <3>1. { Command(toServer'[i]) : i \in DOMAIN toServer' } = behind
      BY <1>2
    <3>2. Unsent' = Unsent
      BY <1>1 DEF Unsent
    <3> QED BY <1>1, <3>1, <3>2 DEF Open
  <2>3. c \notin unsent
    <3> SUFFICES ASSUME NEW u \in Unsent, Command(call[u]) = Command(rq) PROVE FALSE
      OBVIOUS
    <3>1. call[u].by = rq.by /\ call[u].n = rq.n
      BY CommandParts
    <3> QED BY <1>6, <1>7, <3>1 DEF Before
  <2>4. c \notin behind
    <3> SUFFICES ASSUME NEW j \in DOMAIN toServer \ {1}, Command(toServer[j]) = Command(rq)
                 PROVE  FALSE
      OBVIOUS
    <3>1. toServer[j].by = rq.by /\ toServer[j].n = rq.n
      BY CommandParts
    <3> QED BY <1>6, <1>8, <3>1 DEF Before
  <2> HIDE DEF unsent, behind, c
  <2> QED BY <2>1, <2>2, <2>3, <2>4
<1>10. \A d \in Open : d.by = c.by => c.n <= d.n
  <2> SUFFICES ASSUME NEW d \in Open, d.by = c.by PROVE c.n <= d.n
    OBVIOUS
  <2>1. c.by = rq.by /\ c.n = rq.n
    BY DEF Command
  <2>2. CASE \E u \in Unsent : d = Command(call[u])
    <3>1. PICK u \in Unsent : d = Command(call[u])
      BY <2>2
    <3>2. d.by = call[u].by /\ d.n = call[u].n
      BY <3>1 DEF Command
    <3> HIDE DEF c
    <3> QED BY <1>6, <1>7, <2>1, <3>2 DEF Before
  <2>3. CASE \E j \in DOMAIN toServer : d = Command(toServer[j])
    <3>1. PICK j \in DOMAIN toServer : d = Command(toServer[j])
      BY <2>3
    <3>2. d.by = toServer[j].by /\ d.n = toServer[j].n
      BY <3>1 DEF Command
    <3>3. CASE j = 1
      BY <1>2, <1>6, <2>1, <3>2, <3>3
    <3>4. CASE j # 1
      <4>1. rq.n < toServer[j].n
        BY <1>8, <2>1, <3>2, <3>4 DEF Before
      <4> HIDE DEF c
      <4> QED BY <1>6, <2>1, <3>2, <4>1
    <3> QED BY <3>3, <3>4
  <2> QED BY <2>2, <2>3 DEF Open
<1>11. Places' = Places /\ Given' = Given /\ Got' = Got /\ AbortUnderWay' = AbortUnderWay
  BY <1>1, PlacesStay DEF Given, Got, AbortUnderWay
<1> HIDE DEF c
<1>12. RC!Execute(c)
  BY <1>1, <1>4, <1>5, <1>9, <1>10, <1>11 DEF RC!Execute
<1> QED BY <1>9, <1>12

\* An abort forgets what is filed, on whichever thread it runs.
LEMMA AbortsCalls ==
    ASSUME TypeOK, ReadError \/ AbortAllRPC
    PROVE  RC!Abort \/ RC!Forget
<1>1. /\ UNCHANGED <<peerOpen, serverWatches, pc, call, calls, raw, returned, toServer, toClient>>
      /\ pendingCommands' = [i \in Ids |-> Absent]
      /\ ioPc' = "abortNotify" \/ dPc' = "notify"
  BY DEF ReadError, AbortAllRPC, callerVars, serverVars
<1>2. Filed' = {} /\ Acks' = Acks
  BY <1>1, ReplyAssumption DEF Filed, Acks
<1>3. Results' \subseteq Results
  BY <1>1, <1>2 DEF Results
<1>4. Places' = Places /\ Given' = Given /\ Got' = Got /\ Open' = Open
  BY <1>1, PlacesStay, OpenStays DEF Given, Got
<1>5. AbortUnderWay' = TRUE
  BY <1>1 DEF AbortUnderWay
<1>6. CASE AbortUnderWay
  <2>1. AbortUnderWay' = AbortUnderWay
    BY <1>5, <1>6 DEF AbortUnderWay
  <2> QED BY <1>1, <1>3, <1>4, <1>6, <2>1 DEF RC!Forget
<1>7. CASE ~AbortUnderWay
  BY <1>1, <1>3, <1>4, <1>5, <1>7 DEF RC!Abort
<1> QED BY <1>6, <1>7

\* The connection takes along what is on it: replies only after an abort.
LEMMA ClosesConnection ==
    ASSUME TypeOK, ResetSocket \/ ServerCloses
    PROVE  RC!Disconnect
<1>1. /\ UNCHANGED <<serverWatches, ioPc, pc, call, calls, raw, returned, pendingCommands>>
      /\ peerOpen' = FALSE /\ toServer' = <<>>
      /\ \/ toClient' = <<>> /\ dPc = "reset" /\ dPc' = "done"
         \/ toClient' = toClient /\ dPc' = dPc
  BY DEF ResetSocket, ServerCloses, callerVars, serverVars
<1>2. Open' \subseteq Open
  <2>1. DOMAIN toServer' = {} /\ Unsent' = Unsent
    BY <1>1 DEF Unsent
  <2> QED BY <1>1, <2>1 DEF Open
<1>3. AbortUnderWay' = AbortUnderWay /\ (toClient' = toClient \/ AbortUnderWay)
  BY <1>1 DEF AbortUnderWay
<1>4. Results' \subseteq Results /\ (Results' = Results \/ AbortUnderWay)
  <2>1. CASE toClient' = toClient
    BY <1>1, <2>1, ResultsStay
  <2>2. CASE toClient' = <<>> /\ AbortUnderWay
    <3>1. Acks' = {} /\ Filed' = Filed
      BY <1>1, <2>2 DEF Acks, Filed
    <3> QED BY <1>1, <2>2, <3>1 DEF Results
  <2> QED BY <1>1, <1>3, <2>1, <2>2
<1>5. Places' = Places /\ Given' = Given /\ Got' = Got
  BY <1>1, PlacesStay DEF Given, Got
<1> QED BY <1>1, <1>2, <1>3, <1>4, <1>5 DEF RC!Disconnect

\* Every step of the client is a step of RemoteCall or changes nothing it sees.
LEMMA RemoteCallStep ==
    TypeOK /\ IdsLeft /\ SerialInv /\ LeakInv /\ CallInv /\ OnlyRpcWaits /\ [Next]_vars
        => [RC!Next]_RC!vars
<1> SUFFICES ASSUME TypeOK, IdsLeft, SerialInv, LeakInv, CallInv, OnlyRpcWaits, [Next]_vars
             PROVE  [RC!Next]_RC!vars
  OBVIOUS
<1>1. CASE \E t \in Callers : SendCommand(t) \/ CallerStep(t) \/ SpuriousWakeup(t)
  <2>1. PICK t \in Callers : SendCommand(t) \/ CallerStep(t) \/ SpuriousWakeup(t)
    BY <1>1
  <2>2. CASE SendCommand(t)
    BY <2>2, BeginsCall DEF RC!Next
  <2>3. CASE ReadLastId(t) \/ WriteLastId(t)
    BY <2>3, DrawsUnseen
  <2>4. CASE SendPayload(t)
    BY <2>4, SendsCommand DEF RC!Next
  <2>5. CASE Register(t)
    BY <2>5, BeginsWait DEF RC!Next
  <2>6. CASE TakeReply(t)
    BY <2>6, ReturnsResult DEF RC!Next
  <2>7. CASE TakeAbort(t)
    BY <2>7, GivesUp DEF RC!Next
  <2>8. CASE Sleep(t) \/ SpuriousWakeup(t)
    <3>1. /\ UNCHANGED <<peerOpen, serverWatches, call, calls, raw, returned, pendingCommands,
                         toServer, toClient, ioPc, dPc>>
          /\ \A u \in Callers : pc'[u] = pc[u] \/ (Awaiting(u) /\ Awaiting(u)')
      BY <2>8 DEF Sleep, SpuriousWakeup, serverVars, Awaiting, TypeOK
    <3>2. AbortUnderWay' = AbortUnderWay
      BY <3>1 DEF AbortUnderWay
    <3> QED BY <3>1, <3>2, QuietUnseen
  <2> QED BY <2>1, <2>2, <2>3, <2>4, <2>5, <2>6, <2>7, <2>8 DEF CallerStep
<1>2. CASE HandleStatus \/ HandleReply \/ HandleText
  BY <1>2, ReceivesResult DEF RC!Next
<1>3. CASE ServerAnswers
  BY <1>3, ExecutesCommand DEF RC!Next
<1>4. CASE ReadError \/ AbortAllRPC
  BY <1>4, AbortsCalls DEF RC!Next
<1>5. CASE ResetSocket \/ ServerCloses
  BY <1>5, ClosesConnection DEF RC!Next
<1>6. CASE ReplyNotify \/ ErrorNotify \/ AbortNotify \/ ErrorJoin \/ StopAndJoin \/ UNCHANGED vars
  <2>1. /\ UNCHANGED <<peerOpen, serverWatches, call, calls, raw, returned, pendingCommands,
                       toServer, toClient>>
        /\ pc' = pc \/ NotifyAll
    BY <1>6 DEF ReplyNotify, ErrorNotify, AbortNotify, ErrorJoin, StopAndJoin, vars, callerVars,
                serverVars
  <2>2. \A u \in Callers : pc'[u] = pc[u] \/ (Awaiting(u) /\ Awaiting(u)')
    BY <2>1 DEF NotifyAll, Awaiting, TypeOK
  <2>3. AbortUnderWay' = AbortUnderWay
    BY <1>6 DEF ReplyNotify, ErrorNotify, AbortNotify, ErrorJoin, StopAndJoin, vars, AbortUnderWay
  <2> QED BY <2>1, <2>2, <2>3, QuietUnseen
<1> QED BY <1>1, <1>2, <1>3, <1>4, <1>5, <1>6 DEF Next, IoStep, DisconnectStep

LEMMA RemoteCallInit == Init => RC!Init
<1> SUFFICES ASSUME Init PROVE RC!Init
  OBVIOUS
<1>1. Unsent = {} /\ DOMAIN toServer = {} /\ Acks = {} /\ Filed = {}
  BY ReplyAssumption DEF Init, Unsent, Acks, Filed
<1>2. Open = {} /\ Results = {}
  BY <1>1 DEF Open, Results
<1>3. Places = [t \in Callers |-> "idle"]
  BY DEF Init, Places, Place
<1>4. Given = [t \in Callers |-> NULL] /\ Got = [t \in Callers |-> NULL]
  BY DEF Init, Given, Got
<1>5. AbortUnderWay = FALSE
  BY DEF Init, AbortUnderWay
<1> QED BY <1>2, <1>3, <1>4, <1>5 DEF Init, RC!Init

\* The client keeps the promise of RemoteCall, for any callers and any bounds, as long
\* as Requests are constructed one at a time and identifiers are left: each command is
\* executed once at most, in the turn of its caller; rpc() returns the result of this
\* execution or gives up after an abort; and before an abort no result is lost that
\* somebody waits for.
THEOREM ImplementsRemoteCall == ASSUME SerialIds PROVE Spec /\ []IdsLeft => CallsAreKept
<1>1. Init => LeakInv /\ OnlyRpcWaits
  BY DEF Init, LeakInv, Awaited, Awaiting, NoLeakBeforeAbort, PendingOnlyAwaited, OnlyRpcWaits
<1>2. TypeOK /\ TypeOK' /\ IdsLeft /\ SerialInv /\ LeakInv /\ CallInv /\ OnlyRpcWaits /\ [Next]_vars
        => SerialInv' /\ LeakInv' /\ CallInv' /\ OnlyRpcWaits'
  BY SerialStep, LeakStep, CallInvStep, OnlyRpcStep
<1> QED BY <1>1, <1>2, SerialInit, CallInvInit, RemoteCallInit, RemoteCallStep, TypeCorrect, PTL
        DEF Spec, CallsAreKept, RC!Spec
=============================================================================
