-------------------------- MODULE ClipsServerProofs --------------------------
(***************************************************************************)
(* Proofs about ClipsServer, for any clients, commands and bounds.         *)
(*                                                                         *)
(* A message is followed through the server: from the connection to the    *)
(* queue, from the queue to the writes of the handler that executes it,    *)
(* and from there to the clients.  What the current handler still has to   *)
(* write has one shape, a broadcast or a text and then an acknowledgement, *)
(* so that what is due to one client is a set (Due).  While CLIPS runs the *)
(* acknowledgement is always there, and it writes before it.               *)
(***************************************************************************)
EXTENDS ClipsServer, SequenceTheorems, TLAPS

\* What the handler still has to write to c.
Due(c) == { m \in Output : \E k \in DOMAIN todo : c \in todo[k].to /\ todo[k].msg = m }

TodoShape ==
    /\ Len(todo) <= 2
    /\ \A k \in DOMAIN todo : IF IsAck(todo[k].msg) THEN k = Len(todo) ELSE k = 1
    /\ \A k \in DOMAIN todo : IsBroadcast(todo[k].msg) => todo[k].msg.serial = published
    /\ pc = "consume" => queue # <<>>
    /\ pc = "clips" => /\ todo # <<>> /\ IsAck(todo[Len(todo)].msg)
                       /\ todo[Len(todo)].msg.cmd = "raw"

\* Nobody that is not accepted receives anything; a connection carries what its
\* client sent.
Sources ==
    /\ \A c \in Clients : conn[c] # "closed" /\ c \notin clients => received[c] = <<>>
    /\ \A c \in Clients : \A n \in DOMAIN sent[c] : sent[c][n].src = c /\ sent[c][n].n = n
    /\ \A c \in Clients : \A i \in DOMAIN inbox[c] : inbox[c][i].src = c

Live(c) == conn[c] # "closed" /\ failure = "none"

\* The messages of c that the server has read.
ReadUpTo(c) == Len(sent[c]) - Len(inbox[c])
Mine(c) == { i \in DOMAIN queue : queue[i].src = c }
Acks(c) == { i \in DOMAIN received[c] : IsAck(received[c][i]) }
DueAcks(c) == { m \in Due(c) : IsAck(m) }

Unread(c) ==
    /\ Len(inbox[c]) <= Len(sent[c])
    /\ \A i \in DOMAIN inbox[c] : inbox[c][i] = sent[c][ReadUpTo(c) + i]

\* The queue holds what c sent behind its p-th message.
Queued(c, p) ==
    /\ \A i \in Mine(c) : /\ p < queue[i].n /\ queue[i].n <= ReadUpTo(c)
                          /\ queue[i] = sent[c][queue[i].n]
    /\ \A n \in p + 1 .. ReadUpTo(c) : \E i \in Mine(c) : queue[i].n = n
    /\ \A i, j \in Mine(c) : i < j => queue[i].n < queue[j].n

\* The commands among the first p messages, and no others, are acknowledged.
Answers(c, p, n) == n \in 1 .. p /\ sent[c][n].cmd # "fact"
Answered(c, p) ==
    /\ \A i \in Acks(c) : Answers(c, p, received[c][i].n)
    /\ \A m \in DueAcks(c) : Answers(c, p, m.n)
    /\ \A n \in 1 .. p : Answers(c, p, n) => \/ \E i \in Acks(c) : received[c][i].n = n
                                             \/ \E m \in DueAcks(c) : m.n = n
    /\ \A i, j \in Acks(c) : i < j => received[c][i].n < received[c][j].n
    /\ \A i \in Acks(c), m \in DueAcks(c) : received[c][i].n < m.n

Account(c) == Unread(c) /\ \E p \in 0 .. ReadUpTo(c) : Queued(c, p) /\ Answered(c, p)

Casts(c) == { i \in DOMAIN received[c] : IsBroadcast(received[c][i]) }
DueCasts(c) == { m \in Due(c) : IsBroadcast(m) }

\* c received, or is about to receive, what was published from the first-th broadcast on.
CastsFrom(c, first) ==
    /\ \A i \in Casts(c) : received[c][i].serial \in first .. published
    /\ \A m \in DueCasts(c) : m.serial = published
    /\ \A s \in first .. published : \/ \E i \in Casts(c) : received[c][i].serial = s
                                     \/ \E m \in DueCasts(c) : m.serial = s
    /\ \A i, j \in Casts(c) : i < j => received[c][i].serial < received[c][j].serial
    /\ \A i \in Casts(c), m \in DueCasts(c) : received[c][i].serial < m.serial

Informed(c) == \E first \in 1 .. published : CastsFrom(c, first)

\* The latest status of c tells w.
Knows(c, w) ==
    \E j \in DOMAIN received[c] :
        /\ received[c][j].kind = "status" /\ received[c][j].watches = w
        /\ \A k \in DOMAIN received[c] : j < k => received[c][k].kind # "status"

\* Before the acknowledgement of a watch goes its status.
StatusFirst(c) ==
    \A m \in DueAcks(c) : m.cmd = "watch" =>
        \/ \E s \in Due(c) : s.kind = "status" /\ s.watches = m.watches
        \/ Knows(c, m.watches) /\ \A s \in Due(c) : s.kind # "status"

ClientInv(c) == Live(c) => Account(c) /\ (c \in clients => Informed(c) /\ StatusFirst(c))

BaseInv == TypeOK /\ TodoShape /\ Sources

IInv == BaseInv /\ StatusBeforeAck /\ \A c \in Clients : ClientInv(c)

-----------------------------------------------------------------------------
(* Messages and what is due.                                               *)

Job == [to : SUBSET Clients, msg : Output]

LEMMA CommandFields ==
    ASSUME NEW m \in Command
    PROVE  m.src \in Clients /\ m.n \in Nat \ {0} /\ m.cmd \in Kinds
BY DEF Command

LEMMA OutputFields ==
    ASSUME NEW m \in Output
    PROVE  /\ IsAck(m) => m \in Ack /\ m.n \in Nat \ {0} /\ m.cmd \in Kinds /\ m.watches \in Nat
           /\ IsBroadcast(m) => m.serial \in Nat /\ ~IsAck(m)
           /\ m.kind = "status" => m.watches \in Nat /\ IsBroadcast(m)
BY DEF Output, Status, Cast, Text, Ack, IsAck, IsBroadcast

\* The messages the handlers build.
LEMMA MessagesBuilt ==
    ASSUME published \in Nat, NEW m \in Command, NEW w \in Nat
    PROVE  /\ StatusMsg(w) \in Output /\ IsBroadcast(StatusMsg(w)) /\ ~IsAck(StatusMsg(w))
           /\ StatusMsg(w).kind = "status" /\ StatusMsg(w).watches = w
           /\ StatusMsg(w).serial = published + 1
           /\ CastMsg \in Output /\ IsBroadcast(CastMsg) /\ ~IsAck(CastMsg)
           /\ CastMsg.serial = published + 1 /\ CastMsg.kind # "status"
           /\ [kind |-> "text"] \in Output /\ ~IsBroadcast([kind |-> "text"])
           /\ ~IsAck([kind |-> "text"])
           /\ AckOf(m, w) \in Output /\ IsAck(AckOf(m, w)) /\ ~IsBroadcast(AckOf(m, w))
           /\ AckOf(m, w).n = m.n /\ AckOf(m, w).cmd = m.cmd /\ AckOf(m, w).watches = w
<1>1. StatusMsg(w) \in Status /\ CastMsg \in Cast /\ [kind |-> "text"] \in Text
  BY DEF StatusMsg, CastMsg, Status, Cast, Text
<1>2. AckOf(m, w) \in Ack
  BY CommandFields DEF AckOf, Ack
<1> QED BY <1>1, <1>2 DEF Output, StatusMsg, CastMsg, AckOf, IsAck, IsBroadcast

\* The jobs of the current handler.
LEMMA TodoMembers ==
    ASSUME TypeOK, TodoShape
    PROVE  /\ Len(todo) \in 0 .. 2 /\ DOMAIN todo = 1 .. Len(todo)
           /\ todo # <<>> => 1 \in DOMAIN todo /\ Head(todo) = todo[1]
           /\ \A k \in DOMAIN todo : todo[k] \in Job /\ todo[k].to \subseteq Clients /\ todo[k].msg \in Output
<1>1. todo \in Seq(Job)
  BY DEF TypeOK, Job
<1>2. \A k \in DOMAIN todo : todo[k] \in Job
  BY <1>1
<1>3. \A k \in DOMAIN todo : todo[k].to \subseteq Clients /\ todo[k].msg \in Output
  BY <1>2 DEF Job
<1>4. Len(todo) \in 0 .. 2 /\ DOMAIN todo = 1 .. Len(todo)
  <2>1. Len(todo) <= 2
    BY DEF TodoShape
  <2>2. Len(todo) \in Nat /\ DOMAIN todo = 1 .. Len(todo)
    BY <1>1, LenProperties
  <2> QED BY <2>1, <2>2
<1>5. todo # <<>> => 1 \in DOMAIN todo /\ Head(todo) = todo[1]
  BY <1>1, <1>4
<1> QED BY <1>2, <1>3, <1>4, <1>5

\* What is due, job by job; one acknowledgement and one broadcast at most.
LEMMA DueMembers ==
    ASSUME TypeOK, TodoShape, NEW c \in Clients
    PROVE  /\ \A k \in DOMAIN todo : c \in todo[k].to => todo[k].msg \in Due(c)
           /\ \A m \in Due(c) : m \in Output /\ \E k \in DOMAIN todo : c \in todo[k].to /\ todo[k].msg = m
           /\ \A m, n \in Due(c) : IsAck(m) /\ IsAck(n) => m = n
           /\ \A m \in Due(c) : IsBroadcast(m) => m.serial = published
           /\ \A m, n \in Due(c) : ~IsAck(m) /\ ~IsAck(n) => m = n
<1>1. \A k \in DOMAIN todo : c \in todo[k].to => todo[k].msg \in Due(c)
  BY TodoMembers DEF Due
<1>2. \A m \in Due(c) : m \in Output /\ \E k \in DOMAIN todo : c \in todo[k].to /\ todo[k].msg = m
  BY DEF Due
<1>3. \A m, n \in Due(c) : IsAck(m) /\ IsAck(n) => m = n
  BY <1>2 DEF TodoShape
<1>4. \A m, n \in Due(c) : ~IsAck(m) /\ ~IsAck(n) => m = n
  BY <1>2 DEF TodoShape
<1>5. \A m \in Due(c) : IsBroadcast(m) => m.serial = published
  BY <1>2 DEF TodoShape
<1> QED BY <1>1, <1>2, <1>3, <1>4, <1>5

\* A job that is done is dropped.
LEMMA DropJob ==
    ASSUME TypeOK, TodoShape, Pending, Head(todo).to = {}, todo' = Tail(todo),
           UNCHANGED <<published, pc, queue>>
    PROVE  TodoShape' /\ todo' \in Seq(Job) /\ \A c \in Clients : Due(c)' = Due(c)
<1>0. todo # <<>> /\ (pc = "clips" => Len(todo) = 2)
  <2>1. Len(todo) \in 0 .. 2 /\ (Len(todo) > 1 => todo # <<>>)
    BY TodoMembers
  <2>2. CASE pc = "clips"
    <3>1. Len(todo) > 1
      BY <2>2 DEF Pending
    <3> QED BY <2>1, <3>1
  <2>3. CASE pc # "clips"
    BY <2>3 DEF Pending
  <2> QED BY <2>2, <2>3
<1>1. /\ todo' \in Seq(Job) /\ Len(todo') = Len(todo) - 1 /\ DOMAIN todo' = 1 .. Len(todo) - 1
      /\ \A k \in DOMAIN todo' : k + 1 \in DOMAIN todo /\ todo'[k] = todo[k + 1]
  BY <1>0, HeadTailProperties DEF TypeOK, Job
<1>2. TodoShape'
  <2>1. Len(todo) \in 0 .. 2 /\ DOMAIN todo = 1 .. Len(todo) /\ Len(todo) # 0
    BY <1>0, TodoMembers
  <2>2. \A k \in DOMAIN todo' : k = 1 /\ k = Len(todo') /\ Len(todo) = 2
    BY <1>1, <2>1
  <2>3. ASSUME pc' = "clips"
        PROVE  todo' # <<>> /\ IsAck(todo'[Len(todo')].msg) /\ todo'[Len(todo')].msg.cmd = "raw"
    <3>1. Len(todo) = 2 /\ Len(todo') = 1 /\ todo'[1] = todo[2]
      BY <1>0, <1>1, <2>1, <2>3
    <3>2. todo' # <<>>
      <4>1. 1 \in DOMAIN todo'
        BY <1>1, <3>1
      <4>2. DOMAIN <<>> = {}
        OBVIOUS
      <4> QED BY <4>1, <4>2
    <3>3. pc = "clips" /\ todo'[Len(todo')] = todo[Len(todo)]
      BY <2>3, <3>1
    <3>4. IsAck(todo[Len(todo)].msg) /\ todo[Len(todo)].msg.cmd = "raw"
      BY <3>3 DEF TodoShape
    <3> QED BY <3>2, <3>3, <3>4
  <2> QED BY <1>1, <2>1, <2>2, <2>3 DEF TodoShape
<1>3. ASSUME NEW c \in Clients PROVE Due(c)' = Due(c)
  <2>1. \A k \in DOMAIN todo' : k + 1 \in DOMAIN todo /\ todo'[k] = todo[k + 1]
    BY <1>1
  <2>2. ASSUME NEW k \in DOMAIN todo, c \in todo[k].to
        PROVE  k - 1 \in DOMAIN todo' /\ todo'[k - 1] = todo[k]
    <3>1. k # 1
      BY <2>2, TodoMembers
    <3>2. k \in 1 .. Len(todo) /\ Len(todo) \in Nat
      BY TodoMembers
    <3>3. k - 1 \in DOMAIN todo' /\ (k - 1) + 1 = k
      BY <1>1, <3>1, <3>2
    <3> QED BY <2>1, <3>3
  <2> QED BY <2>1, <2>2 DEF Due
<1> QED BY <1>1, <1>2, <1>3

\* A write takes the message that is due to one client.
LEMMA DoWrite ==
    ASSUME TypeOK, TodoShape, Pending, NEW c \in Head(todo).to,
           todo' = [todo EXCEPT ![1].to = @ \ {c}], UNCHANGED <<published, pc, queue>>
    PROVE  /\ c \in Clients /\ Head(todo).msg \in Due(c)
           /\ TodoShape' /\ todo' \in Seq(Job)
           /\ Due(c)' = Due(c) \ {Head(todo).msg}
           /\ \A d \in Clients \ {c} : Due(d)' = Due(d)
<1>0. todo # <<>>
  BY TodoMembers DEF Pending
<1>1. /\ Head(todo) = todo[1] /\ 1 \in DOMAIN todo /\ DOMAIN todo = 1 .. Len(todo)
      /\ Len(todo) \in 0 .. 2 /\ todo[1] \in Job
  BY <1>0, TodoMembers
<1> DEFINE job == [todo[1] EXCEPT !.to = todo[1].to \ {c}]
<1>2. todo' = [todo EXCEPT ![1] = job]
  OBVIOUS
<1>3. job \in Job /\ job.to = todo[1].to \ {c} /\ job.msg = todo[1].msg
  BY <1>1 DEF Job
<1> HIDE DEF job
<1>4. /\ todo' \in Seq(Job) /\ Len(todo') = Len(todo) /\ DOMAIN todo' = DOMAIN todo
      /\ todo'[1] = job /\ \A k \in DOMAIN todo : k # 1 => todo'[k] = todo[k]
  <2>1. todo \in Seq(Job)
    BY DEF TypeOK, Job
  <2>2. 1 \in 1 .. Len(todo)
    BY <1>1
  <2>3. /\ [todo EXCEPT ![1] = job] \in Seq(Job)
        /\ Len([todo EXCEPT ![1] = job]) = Len(todo)
        /\ \A k \in 1 .. Len(todo) : [todo EXCEPT ![1] = job][k] = IF k = 1 THEN job ELSE todo[k]
    BY <1>3, <2>1, <2>2, ExceptSeq
  <2>4. DOMAIN todo' = DOMAIN todo
    BY <1>2
  <2> QED BY <1>1, <1>2, <2>2, <2>3, <2>4
<1>5. \A k \in DOMAIN todo : todo'[k].msg = todo[k].msg
  BY <1>3, <1>4
<1>6. TodoShape'
  <2>1. todo' # <<>> /\ (todo # <<>> => Len(todo) \in DOMAIN todo)
    BY <1>1, <1>4
  <2> QED BY <1>0, <1>4, <1>5, <2>1 DEF TodoShape
<1>7. c \in Clients /\ Head(todo).msg \in Due(c)
  BY <1>1, TodoMembers, DueMembers
<1>8. ASSUME NEW d \in Clients \ {c} PROVE Due(d)' = Due(d)
  <2>1. \A k \in DOMAIN todo : d \in todo'[k].to <=> d \in todo[k].to
    BY <1>3, <1>4
  <2> QED BY <1>4, <1>5, <2>1 DEF Due
<1>9. Due(c)' = Due(c) \ {Head(todo).msg}
  <2>1. \A k \in DOMAIN todo : c \in todo'[k].to <=> (c \in todo[k].to /\ k # 1)
    BY <1>3, <1>4
  <2>2. \A k \in DOMAIN todo : k # 1 => todo[k].msg # todo[1].msg
    BY <1>1 DEF TodoShape
  <2> QED BY <1>1, <1>4, <1>5, <2>1, <2>2 DEF Due
<1> QED BY <1>4, <1>6, <1>7, <1>8, <1>9

\* The writes a handler begins: one job, ...
LEMMA OneJob ==
    ASSUME NEW j \in Job, todo' = <<j>>, IsBroadcast(j.msg) => j.msg.serial = published',
           pc' # "consume", pc' = "clips" => IsAck(j.msg) /\ j.msg.cmd = "raw"
    PROVE  /\ TodoShape' /\ todo' \in Seq(Job)
           /\ \A c \in Clients : Due(c)' = IF c \in j.to THEN {j.msg} ELSE {}
<1>1. todo' \in Seq(Job) /\ Len(todo') = 1 /\ DOMAIN todo' = {1} /\ todo'[1] = j
  OBVIOUS
<1>2. TodoShape'
  BY <1>1 DEF TodoShape
<1>3. j.msg \in Output
  BY DEF Job
<1>4. ASSUME NEW c \in Clients PROVE Due(c)' = IF c \in j.to THEN {j.msg} ELSE {}
  BY <1>1, <1>3 DEF Due
<1> QED BY <1>1, <1>2, <1>4

\* ... or a broadcast or text and the acknowledgement behind it.
LEMMA TwoJobs ==
    ASSUME NEW j \in Job, NEW a \in Job, todo' = <<j>> \o <<a>>, ~IsAck(j.msg), IsAck(a.msg),
           IsBroadcast(j.msg) => j.msg.serial = published',
           pc' # "consume", pc' = "clips" => a.msg.cmd = "raw"
    PROVE  /\ TodoShape' /\ todo' \in Seq(Job)
           /\ \A c \in Clients : /\ j.msg \in Due(c)' <=> c \in j.to
                                 /\ a.msg \in Due(c)' <=> c \in a.to
                                 /\ \A m \in Due(c)' : m = j.msg \/ m = a.msg
<1>1. /\ todo' \in Seq(Job) /\ Len(todo') = 2 /\ DOMAIN todo' = 1 .. 2
      /\ todo'[1] = j /\ todo'[2] = a
  BY DEF Job
<1>2. \A k \in DOMAIN todo' : (k = 1 /\ todo'[k] = j) \/ (k = 2 /\ todo'[k] = a)
  <2>1. \A k \in 1 .. 2 : k = 1 \/ k = 2
    OBVIOUS
  <2> QED BY <1>1, <2>1
<1>3. j.msg \in Output /\ a.msg \in Output /\ ~IsBroadcast(a.msg)
  <2>1. j.msg \in Output /\ a.msg \in Output
    BY DEF Job
  <2> QED BY <2>1, OutputFields
<1>4. TodoShape'
  <2>1. \A k \in DOMAIN todo' : IF IsAck(todo'[k].msg) THEN k = Len(todo') ELSE k = 1
    BY <1>1, <1>2
  <2>2. \A k \in DOMAIN todo' : IsBroadcast(todo'[k].msg) => todo'[k].msg.serial = published'
    BY <1>2, <1>3
  <2>3. Len(todo') <= 2 /\ todo' # <<>> /\ todo'[Len(todo')] = a
    BY <1>1
  <2> QED BY <2>1, <2>2, <2>3 DEF TodoShape, IsAck, IsBroadcast
<1>5. ASSUME NEW c \in Clients
      PROVE  /\ j.msg \in Due(c)' <=> c \in j.to
             /\ a.msg \in Due(c)' <=> c \in a.to
             /\ \A m \in Due(c)' : m = j.msg \/ m = a.msg
  <2>1. 1 \in DOMAIN todo' /\ 2 \in DOMAIN todo'
    BY <1>1
  <2>3. \A x : x \in Due(c)' <=>
                 (x \in Output /\ ((c \in j.to /\ j.msg = x) \/ (c \in a.to /\ a.msg = x)))
    BY <1>1, <1>2, <2>1 DEF Due
  <2> QED BY <1>3, <2>3
<1> QED BY <1>1, <1>4, <1>5

LEMMA NothingDue == ASSUME todo = <<>>, NEW c PROVE Due(c) = {}
BY DEF Due

\* What parseMessage() does with the message it takes: nothing but an acknowledgement,
\* or a status before it.
Telling(m, w) ==
    /\ todo' = << [to |-> clients, msg |-> StatusMsg(w)] >>
                 \o << [to |-> {m.src}, msg |-> AckOf(m, w)] >>
    /\ published' = published + 1

Answering(m, w) ==
    \/ /\ todo' = << [to |-> {m.src}, msg |-> AckOf(m, w)] >>
       /\ published' = published
    \/ Telling(m, w)

\* The handlers that acknowledge, and assertFact(), which does not.
LEMMA ParseEffect ==
    ASSUME TypeOK, TodoShape, ParseMessage
    PROVE  /\ queue # <<>> /\ Head(queue) \in Command /\ todo = <<>> /\ failure = "none"
           /\ pc' \in {"poll", "clips"} /\ (pc' = "clips" => Head(queue).cmd = "raw")
           /\ UNCHANGED <<failure, clients, effects, clientVars, reset, received>> /\ queue' = Tail(queue)
           /\ watches' \in Nat
           /\ IF Head(queue).cmd = "fact" THEN todo' = <<>> /\ published' = published
              ELSE \E w \in Nat : /\ Answering(Head(queue), w)
                                  /\ Head(queue).cmd = "watch" => Telling(Head(queue), w)
<1> DEFINE m == Head(queue)
<1>1. PICK cmd \in Kinds, next \in {"poll", "clips"} :
         Consume(cmd, next) /\ (next = "clips" => cmd = "raw")
  BY DEF ParseMessage, HandleWatch, HandlePath, RejectRaw, HandleRaw, AssertFact, Kinds
<1>2. /\ todo = <<>> /\ queue # <<>> /\ failure = "none" /\ queue' = Tail(queue) /\ m.cmd = cmd
      /\ pc' \in {"poll", "clips"} /\ (pc' = "clips" => m.cmd = "raw")
      /\ UNCHANGED <<failure, clients, effects, clientVars, reset, received>>
  BY <1>1 DEF Consume, Idle, TodoShape
<1>3. m \in Command
  BY <1>2, HeadTailProperties DEF TypeOK
<1>4. published \in Nat /\ watches \in Nat /\ watches + 1 \in Nat
  BY DEF TypeOK
<1>5. watches' \in Nat
  <2>1. watches' \in {watches, watches + 1}
    BY DEF ParseMessage, HandleWatch, HandlePath, RejectRaw, HandleRaw, AssertFact
  <2> QED BY <1>4, <2>1
<1> HIDE DEF m
<1>6. CASE HandleWatch
  <2>1. Telling(m, watches + 1)
    BY <1>6 DEF HandleWatch, Telling, PublishStatus, Broadcast, Recipients, Acknowledge, m
  <2>2. m.cmd # "fact"
    BY <1>6 DEF HandleWatch, Consume, m
  <2> QED BY <1>2, <1>3, <1>4, <1>5, <2>1, <2>2 DEF Answering, m
<1>7. CASE HandlePath
  <2>1. Answering(m, watches + 1) \/ Answering(m, watches)
    BY <1>7 DEF HandlePath, Answering, Telling, PublishStatus, Broadcast, Recipients, Acknowledge, m
  <2>2. m.cmd = "path"
    BY <1>7 DEF HandlePath, Consume, m
  <2> QED BY <1>2, <1>3, <1>4, <1>5, <2>1, <2>2 DEF m
<1>8. CASE RejectRaw \/ HandleRaw
  <2>1. Answering(m, watches)
    BY <1>8 DEF RejectRaw, HandleRaw, Acknowledge, Answering, m
  <2>2. m.cmd = "raw"
    BY <1>8 DEF RejectRaw, HandleRaw, Consume, m
  <2> QED BY <1>2, <1>3, <1>4, <1>5, <2>1, <2>2 DEF m
<1>9. CASE AssertFact
  BY <1>2, <1>3, <1>5, <1>9 DEF AssertFact, Consume, m
<1> QED BY <1>6, <1>7, <1>8, <1>9 DEF ParseMessage

\* What is due after it, in shape: the acknowledgement to the client that sent it, and
\* the status to every session.
LEMMA AnsweringDue ==
    ASSUME TypeOK, NEW m \in Command, NEW w \in Nat, Answering(m, w), todo = <<>>,
           pc' # "consume", pc' = "clips" => m.cmd = "raw"
    PROVE  /\ TodoShape' /\ todo' \in Seq(Job) /\ published' \in {published, published + 1}
           /\ \A c \in Clients :
                 /\ Due(c)' \subseteq Output
                 /\ AckOf(m, w) \in Due(c)' <=> c = m.src
                 /\ \A x \in Due(c)' : IsAck(x) => x = AckOf(m, w)
                 /\ \A x \in Due(c)' : IsBroadcast(x) => published' = published + 1 /\ x.serial = published'
                 /\ c \in clients /\ published' # published
                       => \E x \in Due(c)' : IsBroadcast(x) /\ x.serial = published'
           /\ Telling(m, w) => \A c \in clients : \E s \in Due(c)' : s.kind = "status" /\ s.watches = w
<1> DEFINE a == [to |-> {m.src}, msg |-> AckOf(m, w)]
           j == [to |-> clients, msg |-> StatusMsg(w)]
<1>0. published \in Nat /\ clients \subseteq Clients
  BY DEF TypeOK
<1>1. /\ AckOf(m, w) \in Output /\ IsAck(AckOf(m, w)) /\ ~IsBroadcast(AckOf(m, w)) /\ m.src \in Clients
      /\ AckOf(m, w).cmd = m.cmd
      /\ StatusMsg(w) \in Output /\ IsBroadcast(StatusMsg(w)) /\ ~IsAck(StatusMsg(w))
      /\ StatusMsg(w).serial = published + 1 /\ StatusMsg(w).kind = "status" /\ StatusMsg(w).watches = w
  BY <1>0, MessagesBuilt, CommandFields
<1>2. /\ a \in Job /\ a.to = {m.src} /\ a.msg = AckOf(m, w)
      /\ j \in Job /\ j.to = clients /\ j.msg = StatusMsg(w)
  BY <1>0, <1>1 DEF Job
<1>3. \A c \in Clients : Due(c)' \subseteq Output
  BY DEF Due
<1>4. Telling(m, w) => todo' = <<j>> \o <<a>> /\ published' = published + 1
  BY DEF Telling
<1>5. (todo' = <<a>> /\ published' = published) \/ Telling(m, w)
  BY DEF Answering
<1> HIDE DEF a, j
<1>6. CASE todo' = <<a>> /\ published' = published
  <2>1. /\ TodoShape' /\ todo' \in Seq(Job)
        /\ \A c \in Clients : Due(c)' = IF c \in a.to THEN {a.msg} ELSE {}
    BY <1>1, <1>2, <1>6, OneJob
  <2>2. ~Telling(m, w)
    BY <1>0, <1>4, <1>6
  <2> QED BY <1>1, <1>2, <1>3, <1>6, <2>1, <2>2
<1>7. CASE Telling(m, w)
  <2>1. /\ ~IsAck(j.msg) /\ IsAck(a.msg) /\ (pc' = "clips" => a.msg.cmd = "raw")
        /\ IsBroadcast(j.msg) => j.msg.serial = published'
        /\ a \in Job /\ j \in Job /\ todo' = <<j>> \o <<a>>
    BY <1>1, <1>2, <1>4, <1>7
  <2>2. /\ TodoShape' /\ todo' \in Seq(Job)
        /\ \A c \in Clients : /\ j.msg \in Due(c)' <=> c \in j.to
                              /\ a.msg \in Due(c)' <=> c \in a.to
                              /\ \A x \in Due(c)' : x = j.msg \/ x = a.msg
    BY <2>1, TwoJobs
  <2>3. \A c \in clients : StatusMsg(w) \in Due(c)'
    BY <1>0, <1>2, <2>2
  <2> QED BY <1>0, <1>1, <1>2, <1>3, <1>4, <1>7, <2>2, <2>3
<1> QED BY <1>5, <1>6, <1>7

\* What CLIPS does while a command runs: only the acknowledgement is left, and it may
\* write something before it.
LEMMA ClipsCases ==
    ASSUME TypeOK, TodoShape, ClipsStep
    PROVE  /\ UNCHANGED <<clients, queue, clientVars, reset, received>>
           /\ failure = "none" /\ failure' \in {"none", "exit"} /\ pc = "clips" /\ pc' \in {"poll", "clips"}
           /\ effects' \in 0 .. MaxEffects /\ watches' \in Nat
           /\ \E a \in Job :
                 /\ todo = <<a>> /\ IsAck(a.msg) /\ a.msg.cmd = "raw"
                 /\ \/ todo' = todo /\ published' = published
                    \/ \E S \in SUBSET Clients, b \in Output :
                          /\ todo' = << [to |-> S, msg |-> b] >> \o <<a>> /\ ~IsAck(b)
                          /\ \/ ~IsBroadcast(b) /\ published' = published
                             \/ /\ IsBroadcast(b) /\ S = clients
                                /\ b.serial = published + 1 /\ published' = published + 1
<1>1. InClips
  BY DEF ClipsStep, ClipsBroadcasts, ClipsSends, ClipsWatches, ClipsReturns, ClipsExits, Effect
<1>2. /\ published \in Nat /\ watches \in Nat /\ effects \in 0 .. MaxEffects /\ clients \subseteq Clients
      /\ MaxEffects \in Nat
  BY ServerConstants DEF TypeOK
<1>3. PICK a \in Job : todo = <<a>> /\ IsAck(a.msg) /\ a.msg.cmd = "raw"
  <2>1. /\ Len(todo) = 1 /\ todo \in Seq(Job) /\ IsAck(todo[1].msg) /\ todo[1].msg.cmd = "raw"
    <3>1. Len(todo) \in 0 .. 2 /\ todo \in Seq(Job) /\ (todo # <<>> => Len(todo) # 0)
      BY TodoMembers DEF TypeOK, Job
    <3>2. Len(todo) = 1
      BY <1>1, <3>1 DEF InClips, Pending, TodoShape
    <3> QED BY <1>1, <3>1, <3>2 DEF InClips, TodoShape
  <2>2. todo[1] \in Job /\ todo = <<todo[1]>>
    <3>1. todo[1] \in Job /\ <<todo[1]>> \in Seq(Job) /\ Len(<<todo[1]>>) = 1
      BY <2>1
    <3>2. \A i \in 1 .. Len(todo) : todo[i] = <<todo[1]>>[i]
      BY <2>1
    <3> QED BY <2>1, <3>1, <3>2, SeqEqual
  <2> QED BY <2>1, <2>2
<1>4. CastMsg \in Output /\ ~IsAck(CastMsg) /\ IsBroadcast(CastMsg) /\ CastMsg.serial = published + 1
  <2>1. CastMsg \in Cast
    BY <1>2 DEF CastMsg, Cast
  <2> QED BY <2>1 DEF CastMsg, Output, IsAck, IsBroadcast
<1>5. [kind |-> "text"] \in Output /\ ~IsAck([kind |-> "text"]) /\ ~IsBroadcast([kind |-> "text"])
  BY DEF Output, Text, IsAck, IsBroadcast
<1>6. CASE ClipsBroadcasts
  <2>1. todo' = << [to |-> clients, msg |-> CastMsg] >> \o <<a>> /\ published' = published + 1
    BY <1>3, <1>6 DEF ClipsBroadcasts, Broadcast, Recipients
  <2>2. /\ UNCHANGED <<failure, pc, clients, queue, clientVars, reset, received>>
        /\ effects' \in 0 .. MaxEffects /\ watches' = watches
    BY <1>2, <1>6 DEF ClipsBroadcasts, Effect
  <2> QED BY <1>1, <1>2, <1>3, <1>4, <2>1, <2>2 DEF InClips
<1>7. CASE ClipsSends
  <2>1. PICK c \in clients : todo' = << [to |-> {c}, msg |-> [kind |-> "text"]] >> \o <<a>>
    BY <1>3, <1>7 DEF ClipsSends
  <2>2. /\ UNCHANGED <<failure, pc, clients, queue, clientVars, reset, received, published>>
        /\ effects' \in 0 .. MaxEffects /\ watches' = watches
    BY <1>2, <1>7 DEF ClipsSends, Effect
  <2>3. {c} \in SUBSET Clients
    BY <1>2
  <2> QED BY <1>1, <1>2, <1>3, <1>5, <2>1, <2>2, <2>3 DEF InClips
<1>8. CASE ClipsWatches
  <2>1. /\ UNCHANGED <<failure, pc, clients, queue, clientVars, reset, received, todo, published>>
        /\ effects' \in 0 .. MaxEffects /\ watches' \in Nat
    BY <1>2, <1>8 DEF ClipsWatches, Effect
  <2> QED BY <1>1, <1>3, <2>1 DEF InClips
<1>9. CASE ClipsReturns
  BY <1>1, <1>2, <1>3, <1>9 DEF ClipsReturns, InClips, clipsVars
<1>10. CASE ClipsExits
  BY <1>1, <1>2, <1>3, <1>10 DEF ClipsExits, InClips, clipsVars
<1> QED BY <1>6, <1>7, <1>8, <1>9, <1>10 DEF ClipsStep

\* What is due then: the same acknowledgement, and a broadcast to every session if one
\* is published.
LEMMA ClipsDue ==
    ASSUME TypeOK, TodoShape, ClipsStep
    PROVE  /\ TodoShape' /\ todo' \in Seq(Job) /\ published' \in {published, published + 1}
           /\ \A c \in Clients :
                 /\ DueAcks(c)' = DueAcks(c) /\ DueCasts(c) = {}
                 /\ \A x \in DueAcks(c)' : x.cmd = "raw"
                 /\ published' = published => DueCasts(c)' = {}
                 /\ \A x \in Due(c)' : IsBroadcast(x) => x.serial = published'
                 /\ c \in clients /\ published' # published => \E x \in Due(c)' : IsBroadcast(x)
<1>0. published \in Nat /\ clients \subseteq Clients
  BY DEF TypeOK
<1>1. PICK a \in Job :
         /\ todo = <<a>> /\ IsAck(a.msg) /\ a.msg.cmd = "raw"
         /\ \/ todo' = todo /\ published' = published
            \/ \E S \in SUBSET Clients, b \in Output :
                  /\ todo' = << [to |-> S, msg |-> b] >> \o <<a>> /\ ~IsAck(b)
                  /\ \/ ~IsBroadcast(b) /\ published' = published
                     \/ /\ IsBroadcast(b) /\ S = clients
                        /\ b.serial = published + 1 /\ published' = published + 1
  BY ClipsCases
<1>2. pc' # "consume" /\ a.msg \in Output /\ ~IsBroadcast(a.msg)
  BY <1>1, ClipsCases DEF Job, IsAck, IsBroadcast
<1>3. \A c \in Clients : Due(c) = IF c \in a.to THEN {a.msg} ELSE {}
  BY <1>1, <1>2 DEF Due
<1>4. \A c \in Clients : DueCasts(c) = {}
  BY <1>2, <1>3 DEF DueCasts
<1>5. CASE todo' = todo /\ published' = published
  <2>1. /\ TodoShape' /\ todo' \in Seq(Job)
        /\ \A c \in Clients : Due(c)' = IF c \in a.to THEN {a.msg} ELSE {}
    BY <1>1, <1>2, <1>5, OneJob
  <2>2. ASSUME NEW c \in Clients PROVE Due(c)' = Due(c) /\ DueAcks(c)' = DueAcks(c) /\ DueCasts(c)' = {}
    BY <1>2, <1>3, <2>1 DEF DueAcks, DueCasts
  <2> QED BY <1>1, <1>2, <1>3, <1>4, <1>5, <2>1, <2>2 DEF DueAcks
<1>6. ASSUME NEW S \in SUBSET Clients, NEW b \in Output,
             todo' = << [to |-> S, msg |-> b] >> \o <<a>>, ~IsAck(b),
             \/ ~IsBroadcast(b) /\ published' = published
             \/ /\ IsBroadcast(b) /\ S = clients
                /\ b.serial = published + 1 /\ published' = published + 1
      PROVE  /\ TodoShape' /\ todo' \in Seq(Job) /\ published' \in {published, published + 1}
             /\ \A c \in Clients :
                   /\ DueAcks(c)' = DueAcks(c)
                   /\ \A x \in DueAcks(c)' : x.cmd = "raw"
                   /\ published' = published => DueCasts(c)' = {}
                   /\ \A x \in Due(c)' : IsBroadcast(x) => x.serial = published'
                   /\ c \in clients /\ published' # published => \E x \in Due(c)' : IsBroadcast(x)
  <2> DEFINE j == [to |-> S, msg |-> b]
  <2>1. j \in Job /\ j.to = S /\ j.msg = b /\ todo' = <<j>> \o <<a>>
    BY <1>6 DEF Job
  <2> HIDE DEF j
  <2>2. IsBroadcast(j.msg) => j.msg.serial = published'
    BY <1>0, <1>6, <2>1
  <2>3. /\ TodoShape' /\ todo' \in Seq(Job)
        /\ \A c \in Clients : /\ j.msg \in Due(c)' <=> c \in j.to
                              /\ a.msg \in Due(c)' <=> c \in a.to
                              /\ \A x \in Due(c)' : x = j.msg \/ x = a.msg
    BY <1>1, <1>2, <1>6, <2>1, <2>2, TwoJobs
  <2>4. ASSUME NEW c \in Clients PROVE DueAcks(c)' = DueAcks(c) /\ \A x \in DueAcks(c)' : x = a.msg
    BY <1>1, <1>3, <1>6, <2>1, <2>3 DEF DueAcks
  <2>5. ASSUME NEW c \in Clients PROVE published' = published => DueCasts(c)' = {}
    <3>1. published # published + 1
      BY <1>0
    <3> QED BY <1>2, <1>6, <2>1, <2>3, <3>1 DEF DueCasts
  <2>6. ASSUME NEW c \in Clients, NEW x \in Due(c)', IsBroadcast(x) PROVE x.serial = published'
    BY <1>2, <2>1, <2>2, <2>3, <2>6
  <2>7. ASSUME NEW c \in clients, published' # published PROVE \E x \in Due(c)' : IsBroadcast(x)
    <3>1. c \in Clients
      BY <1>0
    <3> QED BY <1>6, <2>1, <2>3, <2>7, <3>1
  <2> QED BY <1>1, <1>6, <2>3, <2>4, <2>5, <2>6, <2>7
<1> QED BY <1>1, <1>4, <1>5, <1>6

-----------------------------------------------------------------------------
(* Types, the shape of what is due, and where messages come from.          *)

LEMMA ClientBase ==
    ASSUME BaseInv, NEW c \in Clients, ClientStep(c)
    PROVE  BaseInv'
<1> USE DEF BaseInv
<1>1. /\ UNCHANGED <<failure, pc, clients, queue, todo, clipsVars, published, received>>
      /\ sent \in [Clients -> Seq(Command)] /\ inbox \in [Clients -> Seq(Command)]
      /\ conn \in [Clients -> {"none", "open", "closed"}]
  BY DEF ClientStep, Connect, SendMessage, ClientReads, Disconnect, TypeOK
<1>2. TodoShape'
  BY <1>1 DEF TodoShape
<1>3. CASE Connect(c)
  <2>1. TypeOK'
    <3>1. backlog' \in Seq(Clients)
      BY <1>3, AppendProperties DEF Connect, TypeOK
    <3>2. conn' \in [Clients -> {"none", "open", "closed"}]
      BY <1>1, <1>3 DEF Connect
    <3> QED BY <1>1, <1>3, <3>1, <3>2 DEF Connect, TypeOK, clipsVars
  <2>2. Sources'
    BY <1>1, <1>3 DEF Connect, Sources
  <2> QED BY <1>2, <2>1, <2>2
<1>4. CASE SendMessage(c)
  <2>1. PICK m : /\ m \in Command /\ m.src = c /\ m.n = Len(sent[c]) + 1
                 /\ sent' = [sent EXCEPT ![c] = Append(sent[c], m)]
                 /\ inbox' = [inbox EXCEPT ![c] = Append(inbox[c], m)]
    <3>1. PICK cmd \in Commands[c] :
             LET m == [src |-> c, n |-> Len(sent[c]) + 1, cmd |-> cmd]
             IN  /\ sent' = [sent EXCEPT ![c] = Append(@, m)]
                 /\ inbox' = [inbox EXCEPT ![c] = Append(@, m)]
      BY <1>4 DEF SendMessage
    <3>2. sent[c] \in Seq(Command)
      BY <1>1
    <3>3. Len(sent[c]) + 1 \in Nat \ {0} /\ cmd \in Kinds
      BY <3>2, LenProperties, ServerConstants
    <3>4. [src |-> c, n |-> Len(sent[c]) + 1, cmd |-> cmd] \in Command
      BY <3>3 DEF Command
    <3> QED BY <3>1, <3>4
  <2>2. sent' \in [Clients -> Seq(Command)] /\ inbox' \in [Clients -> Seq(Command)]
    BY <1>1, <2>1, AppendProperties
  <2>3. TypeOK'
    BY <1>1, <1>4, <2>2 DEF SendMessage, TypeOK, clipsVars
  <2>4. /\ \A d \in Clients \ {c} : sent'[d] = sent[d] /\ inbox'[d] = inbox[d]
        /\ sent'[c] = Append(sent[c], m) /\ inbox'[c] = Append(inbox[c], m)
    BY <1>1, <2>1
  <2>5. \A n \in DOMAIN sent'[c] : sent'[c][n].src = c /\ sent'[c][n].n = n
    <3> SUFFICES ASSUME NEW n \in DOMAIN sent'[c] PROVE sent'[c][n].src = c /\ sent'[c][n].n = n
      OBVIOUS
    <3>1. sent[c] \in Seq(Command) /\ m \in Command
      BY <1>1, <2>1
    <3>2. n \in DOMAIN sent[c] \/ n = Len(sent[c]) + 1
      BY <2>4, <3>1
    <3> QED BY <2>1, <2>4, <3>1, <3>2 DEF Sources
  <2>6. \A i \in DOMAIN inbox'[c] : inbox'[c][i].src = c
    <3> SUFFICES ASSUME NEW i \in DOMAIN inbox'[c] PROVE inbox'[c][i].src = c
      OBVIOUS
    <3>1. inbox[c] \in Seq(Command) /\ m \in Command
      BY <1>1, <2>1
    <3>2. i \in DOMAIN inbox[c] \/ i = Len(inbox[c]) + 1
      BY <2>4, <3>1
    <3> QED BY <2>1, <2>4, <3>1, <3>2 DEF Sources
  <2>7. UNCHANGED <<conn, clients, received>>
    BY <1>1, <1>4 DEF SendMessage
  <2>8. Sources'
    <3>1. ASSUME NEW d \in Clients
          PROVE  /\ \A n \in DOMAIN sent'[d] : sent'[d][n].src = d /\ sent'[d][n].n = n
                 /\ \A i \in DOMAIN inbox'[d] : inbox'[d][i].src = d
      <4>1. CASE d = c
        BY <2>5, <2>6, <4>1
      <4>2. CASE d # c
        BY <2>4, <4>2 DEF Sources
      <4> QED BY <4>1, <4>2
    <3>2. \A d \in Clients : conn'[d] # "closed" /\ d \notin clients' => received'[d] = <<>>
      BY <2>7 DEF Sources
    <3> QED BY <3>1, <3>2 DEF Sources
  <2> QED BY <1>2, <2>3, <2>8
<1>5. CASE ClientReads(c)
  BY <1>1, <1>2, <1>5 DEF ClientReads, TypeOK, clipsVars, Sources
<1>6. CASE Disconnect(c)
  <2>1. /\ conn' = [conn EXCEPT ![c] = "closed"] /\ reset' \in {reset, reset \cup {c}}
        /\ inbox' \in {inbox, [inbox EXCEPT ![c] = <<>>]} /\ UNCHANGED <<backlog, sent, read>>
    BY <1>6 DEF Disconnect
  <2>2. inbox' \in [Clients -> Seq(Command)]
    BY <1>1, <2>1, EmptySeq
  <2>3. conn' \in [Clients -> {"none", "open", "closed"}]
    BY <1>1, <2>1
  <2>4. TypeOK'
    BY <1>1, <2>1, <2>2, <2>3 DEF TypeOK, clipsVars
  <2>5. \A d \in Clients : inbox'[d] = inbox[d] \/ inbox'[d] = <<>>
    BY <1>1, <2>1
  <2>6. \A d \in Clients : conn'[d] # "closed" => conn[d] # "closed"
    BY <1>1, <2>1
  <2>7. Sources'
    BY <1>1, <2>1, <2>5, <2>6 DEF Sources
  <2> QED BY <1>2, <2>4, <2>7
<1> QED BY <1>3, <1>4, <1>5, <1>6 DEF ClientStep

\* The outcomes of a write.
LEMMA WriteCases ==
    ASSUME BaseInv, Write
    PROVE  /\ failure = "none" /\ Pending /\ todo # <<>>
           /\ UNCHANGED <<pc, clients, queue, clipsVars, published, clientVars>>
           /\ \/ /\ Head(todo).to = {} /\ todo' = Tail(todo) /\ UNCHANGED <<failure, reset, received>>
              \/ \E c \in Head(todo).to :
                    /\ todo' = [todo EXCEPT ![1].to = @ \ {c}]
                    /\ failure' \in {"none", "nullSession", "write"} /\ reset' \subseteq Clients
                    /\ \/ /\ c \in clients /\ conn[c] = "open" /\ failure' = "none"
                          /\ received' = [received EXCEPT ![c] = Append(received[c], Head(todo).msg)]
                       \/ (conn[c] = "closed" \/ failure' # "none") /\ received' = received
<1>0. Pending /\ todo # <<>>
  BY TodoMembers DEF Write, Pending, BaseInv
<1>1. CASE Head(todo).to = {}
  BY <1>0, <1>1 DEF Write
<1>2. CASE Head(todo).to # {}
  <2>1. PICK c \in Head(todo).to :
           /\ todo' = [todo EXCEPT ![1].to = @ \ {c}]
           /\ \/ /\ c \in clients /\ conn[c] = "open"
                 /\ Len(received[c]) - read[c] < SendBuffer
                 /\ received' = [received EXCEPT ![c] = Append(@, Head(todo).msg)]
                 /\ UNCHANGED <<failure, reset>>
              \/ /\ c \in clients /\ conn[c] = "closed"
                 /\ failure' \in IF c \in reset THEN {"none", "write"} ELSE {"none"}
                 /\ reset' = reset \cup {c}
                 /\ UNCHANGED received
              \/ /\ c \notin clients
                 /\ failure' = "nullSession"
                 /\ UNCHANGED <<reset, received>>
    BY <1>2 DEF Write
  <2>2. c \in Clients /\ reset \subseteq Clients /\ failure = "none"
    <3>1. Head(todo).to \subseteq Clients
      BY <1>0, TodoMembers DEF BaseInv
    <3> QED BY <3>1 DEF BaseInv, TypeOK, Write
  <2>3. /\ failure' \in {"none", "nullSession", "write"} /\ reset' \subseteq Clients
        /\ \/ /\ c \in clients /\ conn[c] = "open" /\ failure' = "none"
              /\ received' = [received EXCEPT ![c] = Append(received[c], Head(todo).msg)]
           \/ (conn[c] = "closed" \/ failure' # "none") /\ received' = received
    BY <2>1, <2>2
  <2> QED BY <1>0, <2>1, <2>3 DEF Write
<1> QED BY <1>1, <1>2

LEMMA WriteBase ==
    ASSUME BaseInv, Write
    PROVE  BaseInv'
<1> USE DEF BaseInv
<1>1. /\ UNCHANGED <<pc, clients, queue, clipsVars, published, clientVars>> /\ Pending
      /\ received \in [Clients -> Seq(Output)]
  BY WriteCases DEF TypeOK
<1>2. CASE Head(todo).to = {} /\ todo' = Tail(todo) /\ UNCHANGED <<failure, reset, received>>
  <2>1. TodoShape' /\ todo' \in Seq(Job)
    BY <1>1, <1>2, DropJob
  <2>2. TypeOK'
    BY <1>1, <1>2, <2>1 DEF TypeOK, clipsVars, clientVars, Job
  <2>3. Sources'
    BY <1>1, <1>2 DEF Sources, clientVars
  <2> QED BY <2>1, <2>2, <2>3
<1>3. ASSUME NEW c \in Head(todo).to, todo' = [todo EXCEPT ![1].to = @ \ {c}],
             failure' \in {"none", "nullSession", "write"}, reset' \subseteq Clients,
             \/ /\ c \in clients /\ conn[c] = "open" /\ failure' = "none"
                /\ received' = [received EXCEPT ![c] = Append(received[c], Head(todo).msg)]
             \/ (conn[c] = "closed" \/ failure' # "none") /\ received' = received
      PROVE  BaseInv'
  <2>1. TodoShape' /\ todo' \in Seq(Job) /\ c \in Clients /\ Head(todo).msg \in Output
    BY <1>1, <1>3, DoWrite DEF Due
  <2>2. received' \in [Clients -> Seq(Output)]
    <3>1. \A x \in Seq(Output), m \in Output : Append(x, m) \in Seq(Output)
      BY AppendProperties
    <3>2. Append(received[c], Head(todo).msg) \in Seq(Output)
      BY <1>1, <2>1, <3>1
    <3> QED BY <1>1, <1>3, <2>1, <3>2
  <2>3. TypeOK'
    BY <1>1, <1>3, <2>1, <2>2 DEF TypeOK, clipsVars, clientVars, Job
  <2>4. \A d \in Clients : received'[d] = received[d] \/ d \in clients
    BY <1>1, <1>3
  <2>5. Sources'
    BY <1>1, <2>4 DEF Sources, clientVars
  <2> QED BY <2>1, <2>3, <2>5
<1> QED BY <1>2, <1>3, WriteCases

\* A read takes the first messages of a connection to the end of the queue.
LEMMA ReadSplits ==
    ASSUME BaseInv, NEW c \in Clients, AsyncReadHandler(c)
    PROVE  \E k \in 1 .. Len(inbox[c]) :
              /\ k \in Nat /\ Len(inbox[c]) \in Nat /\ Len(queue) \in Nat
              /\ queue' \in Seq(Command) /\ Len(queue') = Len(queue) + k
              /\ DOMAIN queue' = 1 .. Len(queue) + k /\ DOMAIN queue = 1 .. Len(queue)
              /\ \A i \in 1 .. Len(queue) : queue'[i] = queue[i]
              /\ \A i \in 1 .. k : queue'[Len(queue) + i] = inbox[c][i]
              /\ inbox' \in [Clients -> Seq(Command)]
              /\ \A d \in Clients \ {c} : inbox'[d] = inbox[d]
              /\ Len(inbox'[c]) = Len(inbox[c]) - k
              /\ DOMAIN inbox'[c] = 1 .. Len(inbox[c]) - k
              /\ \A i \in 1 .. Len(inbox[c]) - k : inbox'[c][i] = inbox[c][k + i]
<1>1. PICK k \in 1 .. Len(inbox[c]) :
         /\ queue' = Enqueue(queue, SubSeq(inbox[c], 1, k))
         /\ inbox' = [inbox EXCEPT ![c] = SubSeq(inbox[c], k + 1, Len(inbox[c]))]
  BY DEF AsyncReadHandler
<1> DEFINE s == inbox[c]
           front == SubSeq(s, 1, k)
           rest == SubSeq(s, k + 1, Len(s))
<1>2. s \in Seq(Command) /\ queue \in Seq(Command) /\ inbox \in [Clients -> Seq(Command)]
  BY DEF BaseInv, TypeOK
<1>3. Len(s) \in Nat /\ Len(queue) \in Nat /\ k \in Nat
  BY <1>1, <1>2, LenProperties
<1>4. /\ front \in Seq(Command) /\ Len(front) = k /\ \A i \in 1 .. k : front[i] = s[i]
  <2>1. \A i \in 1 .. k : i \in 1 .. Len(s)
    BY <1>1, <1>3
  <2> QED BY <1>2, <1>3, <2>1, SubSeqProperties
<1>5. /\ rest \in Seq(Command) /\ Len(rest) = Len(s) - k
      /\ \A i \in 1 .. Len(s) - k : rest[i] = s[k + i]
  <2>1. \A i \in k + 1 .. Len(s) : i \in 1 .. Len(s)
    BY <1>1, <1>3
  <2>2. /\ rest \in Seq(Command)
        /\ Len(rest) = IF k + 1 <= Len(s) THEN Len(s) - (k + 1) + 1 ELSE 0
        /\ \A i \in 1 .. Len(s) - (k + 1) + 1 : rest[i] = s[k + 1 + i - 1]
    BY <1>2, <1>3, <2>1, SubSeqProperties
  <2>3. Len(rest) = Len(s) - k
    BY <1>1, <1>3, <2>2
  <2>4. ASSUME NEW i \in 1 .. Len(s) - k PROVE rest[i] = s[k + i]
    <3>1. i \in 1 .. Len(s) - (k + 1) + 1 /\ k + 1 + i - 1 = k + i
      BY <1>3
    <3> QED BY <2>2, <3>1
  <2> QED BY <2>2, <2>3, <2>4
<1> HIDE DEF front, rest, s
<1>6. queue' = queue \o front /\ inbox' = [inbox EXCEPT ![c] = rest]
  BY <1>1 DEF Enqueue, front, rest, s
<1>7. /\ queue' \in Seq(Command) /\ Len(queue') = Len(queue) + k
      /\ DOMAIN queue' = 1 .. Len(queue) + k /\ DOMAIN queue = 1 .. Len(queue)
  <2>1. queue' \in Seq(Command) /\ Len(queue') = Len(queue) + Len(front)
    BY <1>2, <1>4, <1>6, ConcatProperties
  <2>2. DOMAIN queue = 1 .. Len(queue) /\ DOMAIN queue' = 1 .. Len(queue')
    BY <1>2, <2>1, LenProperties
  <2> QED BY <1>4, <2>1, <2>2
<1>8. /\ \A i \in 1 .. Len(queue) : queue'[i] = queue[i]
      /\ \A i \in 1 .. k : queue'[Len(queue) + i] = front[i]
  <2>1. \A i \in 1 .. Len(queue) + k : queue'[i] = IF i <= Len(queue) THEN queue[i] ELSE front[i - Len(queue)]
    BY <1>2, <1>4, <1>6, ConcatProperties
  <2>2. ASSUME NEW i \in 1 .. k PROVE queue'[Len(queue) + i] = front[i]
    <3>1. /\ Len(queue) + i \in 1 .. Len(queue) + k /\ ~(Len(queue) + i <= Len(queue))
          /\ Len(queue) + i - Len(queue) = i
      BY <1>3
    <3> QED BY <2>1, <3>1
  <2>3. \A i \in 1 .. Len(queue) : i \in 1 .. Len(queue) + k /\ i <= Len(queue)
    BY <1>3
  <2> QED BY <2>1, <2>2, <2>3
<1>9. /\ inbox' \in [Clients -> Seq(Command)] /\ inbox'[c] = rest
      /\ \A d \in Clients \ {c} : inbox'[d] = inbox[d]
  BY <1>2, <1>5, <1>6
<1>10. DOMAIN inbox'[c] = 1 .. Len(s) - k
  BY <1>5, <1>9, LenProperties
<1>11. /\ \A i \in 1 .. k : queue'[Len(queue) + i] = s[i]
       /\ Len(inbox'[c]) = Len(s) - k
       /\ \A i \in 1 .. Len(s) - k : inbox'[c][i] = s[k + i]
  BY <1>4, <1>5, <1>8, <1>9
<1>12. s = inbox[c]
  BY DEF s
<1> QED BY <1>1, <1>3, <1>7, <1>8, <1>9, <1>10, <1>11, <1>12

LEMMA ServerBase ==
    ASSUME BaseInv, ServerStep
    PROVE  BaseInv'
<1> USE DEF BaseInv
<1>1. CASE Write
  BY <1>1, WriteBase
<1>2. CASE AcceptHandler
  <2> DEFINE j == [to |-> clients', msg |-> StatusMsg(watches)]
  <2>1. /\ todo' = <<j>> /\ published' = published + 1 /\ backlog' = Tail(backlog) /\ backlog # <<>>
        /\ clients' = clients \cup {Head(backlog)} /\ pc' = "poll" /\ todo = <<>>
        /\ UNCHANGED <<failure, queue, clipsVars, conn, reset, sent, inbox, received, read>>
    BY <1>2 DEF AcceptHandler, Broadcast, Recipients, Idle
  <2>2. Head(backlog) \in Clients /\ backlog' \in Seq(Clients)
    BY <2>1, HeadTailProperties DEF TypeOK
  <2>3. clients' \subseteq Clients
    BY <2>1, <2>2 DEF TypeOK
  <2>4. /\ StatusMsg(watches) \in Output /\ IsBroadcast(StatusMsg(watches))
        /\ StatusMsg(watches).serial = published + 1 /\ published + 1 \in Nat
    <3>1. \A w \in Nat : [kind |-> "status", serial |-> published + 1, watches |-> w] \in Status
      BY DEF Status, TypeOK
    <3> QED BY <3>1 DEF StatusMsg, IsBroadcast, Output, TypeOK
  <2>5. j \in Job /\ j.msg = StatusMsg(watches)
    BY <2>3, <2>4 DEF Job
  <2> HIDE DEF j
  <2>6. TodoShape' /\ todo' \in Seq(Job)
    BY <2>1, <2>4, <2>5, OneJob
  <2>7. TypeOK'
    BY <2>1, <2>2, <2>3, <2>4, <2>6 DEF TypeOK, Job, clipsVars
  <2>8. Sources'
    BY <2>1 DEF Sources
  <2> QED BY <2>6, <2>7, <2>8
<1>3. CASE EndPoll
  BY <1>3 DEF EndPoll, TypeOK, TodoShape, Sources, clipsVars, clientVars
<1>4. CASE ParseMessage
  <2> DEFINE m == Head(queue)
  <2>1. /\ queue # <<>> /\ m \in Command /\ todo = <<>>
        /\ pc' \in {"poll", "clips"} /\ (pc' = "clips" => m.cmd = "raw") /\ failure = "none"
        /\ UNCHANGED <<failure, clients, effects, clientVars, reset, received>> /\ queue' = Tail(queue)
        /\ watches' \in Nat
        /\ IF m.cmd = "fact" THEN todo' = <<>> /\ published' = published
           ELSE \E w \in Nat : Answering(m, w)
    BY <1>4, ParseEffect
  <2> HIDE DEF m
  <2>2. TodoShape' /\ todo' \in Seq(Job) /\ published' \in Nat
    <3>1. CASE m.cmd = "fact"
      <4>1. todo' = <<>> /\ published' = published
        BY <2>1, <3>1
      <4>2. todo' \in Seq(Job) /\ Len(todo') = 0 /\ DOMAIN todo' = {}
        BY <4>1, EmptySeq
      <4>3. pc' = "poll"
        BY <2>1, <3>1
      <4> QED BY <2>1, <4>1, <4>2, <4>3 DEF TodoShape, TypeOK
    <3>2. CASE m.cmd # "fact"
      <4>1. PICK w \in Nat : Answering(m, w)
        BY <2>1, <3>2
      <4>2. TodoShape' /\ todo' \in Seq(Job) /\ published' \in {published, published + 1}
        BY <2>1, <4>1, AnsweringDue
      <4>3. published \in Nat
        BY DEF TypeOK
      <4> QED BY <4>2, <4>3
    <3> QED BY <3>1, <3>2
  <2>3. queue' \in Seq(Command)
    BY <2>1, HeadTailProperties DEF TypeOK
  <2>4. TypeOK'
    BY <2>1, <2>2, <2>3 DEF TypeOK, Job, clientVars
  <2>5. Sources'
    BY <2>1 DEF Sources, clientVars
  <2> QED BY <2>2, <2>4, <2>5
<1>5. ASSUME NEW c \in Clients, AsyncReadHandler(c) PROVE BaseInv'
  <2>1. /\ UNCHANGED <<failure, clients, todo, clipsVars, published, conn, backlog, reset, sent, received, read>>
        /\ pc = "poll" /\ pc' = "poll"
    BY <1>5 DEF AsyncReadHandler
  <2>2. PICK k \in 1 .. Len(inbox[c]) :
          /\ k \in Nat /\ Len(inbox[c]) \in Nat
          /\ queue' \in Seq(Command) /\ inbox' \in [Clients -> Seq(Command)]
          /\ \A d \in Clients \ {c} : inbox'[d] = inbox[d]
          /\ DOMAIN inbox'[c] = 1 .. Len(inbox[c]) - k
          /\ \A i \in 1 .. Len(inbox[c]) - k : inbox'[c][i] = inbox[c][k + i]
    BY <1>5, ReadSplits
  <2>3. TypeOK'
    BY <2>1, <2>2 DEF TypeOK, clipsVars
  <2>4. TodoShape'
    BY <2>1 DEF TodoShape
  <2>5. \A i \in DOMAIN inbox'[c] : inbox'[c][i].src = c
    <3> SUFFICES ASSUME NEW i \in DOMAIN inbox'[c] PROVE inbox'[c][i].src = c
      OBVIOUS
    <3>1. k + i \in 1 .. Len(inbox[c]) /\ inbox'[c][i] = inbox[c][k + i]
      BY <2>2
    <3>2. inbox[c] \in Seq(Command)
      BY DEF TypeOK
    <3>3. k + i \in DOMAIN inbox[c]
      BY <3>1, <3>2
    <3> QED BY <3>1, <3>3 DEF Sources
  <2>6. Sources'
    <3>1. ASSUME NEW d \in Clients PROVE \A i \in DOMAIN inbox'[d] : inbox'[d][i].src = d
      <4>1. CASE d = c
        BY <2>5, <4>1
      <4>2. CASE d # c
        BY <2>2, <4>2 DEF Sources
      <4> QED BY <4>1, <4>2
    <3>2. \A d \in Clients : conn'[d] # "closed" /\ d \notin clients' => received'[d] = <<>>
      BY <2>1 DEF Sources
    <3>3. \A d \in Clients : \A n \in DOMAIN sent'[d] : sent'[d][n].src = d /\ sent'[d][n].n = n
      BY <2>1 DEF Sources
    <3> QED BY <3>1, <3>2, <3>3 DEF Sources
  <2> QED BY <2>3, <2>4, <2>6
<1>6. ASSUME NEW c \in Clients, ReadErrorHandler(c) PROVE BaseInv'
  BY <1>6 DEF ReadErrorHandler, TypeOK, TodoShape, Sources, clipsVars, clientVars
<1> QED BY <1>1, <1>2, <1>3, <1>4, <1>5, <1>6 DEF ServerStep

LEMMA ClipsBase ==
    ASSUME BaseInv, ClipsStep
    PROVE  BaseInv'
<1> USE DEF BaseInv
<1>1. /\ UNCHANGED <<clients, queue, clientVars, reset, received>>
      /\ failure' \in {"none", "exit"} /\ pc' \in {"poll", "clips"}
      /\ effects' \in 0 .. MaxEffects /\ watches' \in Nat
  BY ClipsCases
<1>2. TodoShape' /\ todo' \in Seq(Job) /\ published' \in {published, published + 1}
  BY ClipsDue
<1>3. TypeOK'
  <2>1. published' \in Nat
    BY <1>2 DEF TypeOK
  <2> QED BY <1>1, <1>2, <2>1 DEF TypeOK, Job, clientVars
<1>4. Sources'
  BY <1>1 DEF Sources, clientVars
<1> QED BY <1>2, <1>3, <1>4

LEMMA BaseStep == BaseInv /\ [Next]_vars => BaseInv'
<1> SUFFICES ASSUME BaseInv, [Next]_vars PROVE BaseInv'
  OBVIOUS
<1>1. CASE UNCHANGED vars
  BY <1>1 DEF BaseInv, TypeOK, TodoShape, Sources, vars, clipsVars, clientVars
<1> QED BY <1>1, ServerBase, ClipsBase, ClientBase DEF Next

-----------------------------------------------------------------------------
(* The account of one client's messages.                                   *)

\* What a client received grows at its end.
LEMMA Receives ==
    ASSUME BaseInv, NEW c \in Clients, NEW m \in Due(c), received'[c] = Append(received[c], m)
    PROVE  LET n == Len(received[c])
           IN  /\ n \in Nat /\ DOMAIN received[c] = 1 .. n /\ DOMAIN received'[c] = 1 .. n + 1
               /\ \A i \in 1 .. n : received'[c][i] = received[c][i] /\ received[c][i] \in Output
               /\ received'[c][n + 1] = m /\ m \in Output
<1>1. received[c] \in Seq(Output) /\ m \in Output
  BY DEF BaseInv, TypeOK, Due
<1> QED BY <1>1, AppendProperties, LenProperties

\* The numbers in the queue and in the account.
LEMMA AccountNumbers ==
    ASSUME BaseInv, NEW c \in Clients
    PROVE  /\ sent[c] \in Seq(Command) /\ inbox[c] \in Seq(Command) /\ ReadUpTo(c) \in Int
           /\ Len(sent[c]) \in Nat /\ Len(inbox[c]) \in Nat
           /\ DOMAIN sent[c] = 1 .. Len(sent[c]) /\ DOMAIN inbox[c] = 1 .. Len(inbox[c])
           /\ DOMAIN queue = 1 .. Len(queue) /\ Len(queue) \in Nat
           /\ \A i \in DOMAIN queue : queue[i] \in Command /\ queue[i].n \in Nat
           /\ \A i \in Acks(c) : received[c][i].n \in Nat
           /\ \A m \in DueAcks(c) : m \in Output /\ m.n \in Nat
<1>1. sent[c] \in Seq(Command) /\ inbox[c] \in Seq(Command) /\ queue \in Seq(Command) /\ received[c] \in Seq(Output)
  BY DEF BaseInv, TypeOK
<1>2. Len(sent[c]) \in Nat /\ Len(inbox[c]) \in Nat /\ Len(queue) \in Nat
  BY <1>1, LenProperties
<1>3. \A i \in DOMAIN queue : queue[i] \in Command /\ queue[i].n \in Nat
  BY <1>1, CommandFields
<1>4. \A i \in Acks(c) : received[c][i].n \in Nat
  BY <1>1, OutputFields DEF Acks
<1>5. \A m \in DueAcks(c) : m \in Output /\ m.n \in Nat
  BY OutputFields DEF DueAcks, Due
<1>6. DOMAIN sent[c] = 1 .. Len(sent[c]) /\ DOMAIN inbox[c] = 1 .. Len(inbox[c]) /\ DOMAIN queue = 1 .. Len(queue)
  BY <1>1, LenProperties
<1>7. ReadUpTo(c) \in Int
  BY <1>2 DEF ReadUpTo
<1> QED BY <1>1, <1>2, <1>3, <1>4, <1>5, <1>6, <1>7

LEMMA AccountStays ==
    ASSUME NEW c \in Clients, Account(c), sent'[c] = sent[c], inbox'[c] = inbox[c], queue' = queue,
           received'[c] = received[c], DueAcks(c)' = DueAcks(c)
    PROVE  Account(c)'
<1>1. ReadUpTo(c)' = ReadUpTo(c) /\ Mine(c)' = Mine(c) /\ Acks(c)' = Acks(c)
  BY DEF ReadUpTo, Mine, Acks
<1>2. Unread(c)'
  BY <1>1 DEF Account, Unread
<1>3. PICK p \in 0 .. ReadUpTo(c) : Queued(c, p) /\ Answered(c, p)
  BY DEF Account
<1>4. Queued(c, p)'
  BY <1>1, <1>3 DEF Queued
<1>5. Answered(c, p)'
  BY <1>1, <1>3 DEF Answered, Answers
<1> QED BY <1>1, <1>2, <1>3, <1>4, <1>5 DEF Account

\* A message that is written changes from due to received.
LEMMA AnsweredReceives ==
    ASSUME BaseInv, NEW c \in Clients, NEW p \in Nat, Answered(c, p), sent'[c] = sent[c],
           NEW m \in Due(c), received'[c] = Append(received[c], m), Due(c)' = Due(c) \ {m}
    PROVE  Answered(c, p)'
<1> DEFINE n == Len(received[c])
<1>1. /\ n \in Nat /\ DOMAIN received[c] = 1 .. n /\ DOMAIN received'[c] = 1 .. n + 1
      /\ \A i \in 1 .. n : received'[c][i] = received[c][i]
      /\ received'[c][n + 1] = m
  BY Receives
<1> HIDE DEF n
<1>2. DueAcks(c)' = DueAcks(c) \ {m}
  BY DEF DueAcks
<1>3. \A i \in Acks(c) : i \in Acks(c)' /\ received'[c][i] = received[c][i] /\ i \in 1 .. n
  BY <1>1 DEF Acks
<1>4. /\ IsAck(m) => m \in DueAcks(c) /\ n + 1 \in Acks(c)' /\ DueAcks(c)' = {}
      /\ ~IsAck(m) => m \notin DueAcks(c)
  BY <1>1, <1>2, DueMembers DEF DueAcks, Acks, BaseInv
<1>5. \A i \in Acks(c)' : i \in Acks(c) \/ (i = n + 1 /\ IsAck(m) /\ received'[c][i] = m)
  BY <1>1 DEF Acks
<1>6. \A k : Answers(c, p, k)' <=> Answers(c, p, k)
  BY DEF Answers
<1>7. /\ \A i \in Acks(c)' : Answers(c, p, received'[c][i].n)
      /\ \A x \in DueAcks(c)' : Answers(c, p, x.n)
  BY <1>2, <1>3, <1>4, <1>5 DEF Answered
<1>8. ASSUME NEW k \in 1 .. p, Answers(c, p, k)
      PROVE  \/ \E i \in Acks(c)' : received'[c][i].n = k
             \/ \E x \in DueAcks(c)' : x.n = k
  <2>1. CASE \E i \in Acks(c) : received[c][i].n = k
    BY <1>3, <2>1
  <2>2. CASE \E x \in DueAcks(c) : x.n = k
    BY <1>1, <1>2, <1>4, <2>2
  <2> QED BY <1>8, <2>1, <2>2 DEF Answered
<1>9. \A i, j \in Acks(c)' : i < j => received'[c][i].n < received'[c][j].n
  <2> SUFFICES ASSUME NEW i \in Acks(c)', NEW j \in Acks(c)', i < j
               PROVE  received'[c][i].n < received'[c][j].n
    OBVIOUS
  <2>1. CASE j \in Acks(c)
    <3>0. ~(n + 1 < j)
      <4>1. j \in 1 .. n
        BY <1>3, <2>1
      <4> QED BY <1>1, <4>1
    <3>1. i # n + 1
      BY <3>0
    <3>2. i \in Acks(c)
      BY <1>5, <3>1
    <3> QED BY <1>3, <2>1, <3>2 DEF Answered
  <2>2. CASE j = n + 1 /\ IsAck(m) /\ received'[c][j] = m
    <3>0. i # n + 1
      BY <1>1, <2>2
    <3>1. i \in Acks(c)
      BY <1>5, <3>0
    <3>2. \A k \in Acks(c), x \in DueAcks(c) : received[c][k].n < x.n
      BY DEF Answered
    <3> QED BY <1>3, <1>4, <2>2, <3>1, <3>2
  <2> QED BY <1>5, <2>1, <2>2
<1>10. \A i \in Acks(c)', x \in DueAcks(c)' : received'[c][i].n < x.n
  BY <1>2, <1>3, <1>4, <1>5 DEF Answered
<1> QED BY <1>6, <1>7, <1>8, <1>9, <1>10 DEF Answered

LEMMA AccountReceives ==
    ASSUME BaseInv, NEW c \in Clients, Account(c), sent'[c] = sent[c], inbox'[c] = inbox[c],
           queue' = queue, NEW m \in Due(c), received'[c] = Append(received[c], m),
           Due(c)' = Due(c) \ {m}
    PROVE  Account(c)'
<1>1. ReadUpTo(c)' = ReadUpTo(c) /\ Mine(c)' = Mine(c)
  BY DEF ReadUpTo, Mine
<1>2. Unread(c)'
  BY <1>1 DEF Account, Unread
<1>3. PICK p \in 0 .. ReadUpTo(c) : Queued(c, p) /\ Answered(c, p)
  BY DEF Account
<1>4. Queued(c, p)'
  BY <1>1, <1>3 DEF Queued
<1>5. Answered(c, p)'
  BY <1>3, AnsweredReceives
<1> QED BY <1>1, <1>2, <1>3, <1>4, <1>5 DEF Account

\* A message that is sent is not read yet.
LEMMA AccountSends ==
    ASSUME BaseInv, NEW c \in Clients, Account(c), NEW m \in Command,
           sent'[c] = Append(sent[c], m), inbox'[c] = Append(inbox[c], m), queue' = queue,
           received'[c] = received[c], Due(c)' = Due(c)
    PROVE  Account(c)'
<1> DEFINE k == Len(sent[c])
           l == Len(inbox[c])
<1>1. /\ k \in Nat /\ l \in Nat /\ Len(sent'[c]) = k + 1 /\ Len(inbox'[c]) = l + 1
      /\ DOMAIN inbox'[c] = 1 .. l + 1 /\ DOMAIN inbox[c] = 1 .. l
      /\ \A i \in 1 .. k : sent'[c][i] = sent[c][i]
      /\ \A i \in 1 .. l : inbox'[c][i] = inbox[c][i]
      /\ sent'[c][k + 1] = m /\ inbox'[c][l + 1] = m
  <2>1. sent[c] \in Seq(Command) /\ inbox[c] \in Seq(Command)
    BY AccountNumbers
  <2> QED BY <2>1, AppendProperties, LenProperties
<1>2. ReadUpTo(c)' = ReadUpTo(c) /\ ReadUpTo(c) = k - l
  BY <1>1 DEF ReadUpTo
<1> HIDE DEF k, l
<1>3. Mine(c)' = Mine(c) /\ Acks(c)' = Acks(c) /\ DueAcks(c)' = DueAcks(c)
  BY DEF Mine, Acks, DueAcks
<1>4. l <= k /\ \A i \in 1 .. l : inbox[c][i] = sent[c][k - l + i]
  BY <1>1, <1>2 DEF Account, Unread, k, l
<1>5. Unread(c)'
  <2>1. ASSUME NEW i \in 1 .. l + 1 PROVE inbox'[c][i] = sent'[c][k - l + i]
    <3>1. CASE i = l + 1
      <4>1. k - l + i = k + 1
        BY <1>1, <3>1
      <4> QED BY <1>1, <3>1, <4>1
    <3>2. CASE i # l + 1
      <4>1. i \in 1 .. l /\ k - l + i \in 1 .. k
        BY <1>1, <1>4, <3>2
      <4> QED BY <1>1, <1>4, <4>1
    <3> QED BY <3>1, <3>2
  <2>2. l + 1 <= k + 1
    BY <1>1, <1>4
  <2> QED BY <1>1, <1>2, <2>1, <2>2 DEF Unread
<1>6. PICK p \in 0 .. ReadUpTo(c) : Queued(c, p) /\ Answered(c, p)
  BY DEF Account
<1>7. \A n \in 1 .. ReadUpTo(c) : sent'[c][n] = sent[c][n]
  BY <1>1, <1>2, <1>4
<1>8. Queued(c, p)'
  <2>1. ASSUME NEW i \in Mine(c) PROVE queue[i] = sent'[c][queue[i].n]
    <3>1. queue[i].n \in Nat /\ p \in Nat
      BY <1>1, <1>2, <1>6, AccountNumbers DEF Mine
    <3>2. queue[i].n \in 1 .. ReadUpTo(c)
      BY <1>1, <1>2, <1>6, <3>1 DEF Queued
    <3> QED BY <1>6, <1>7, <3>2 DEF Queued
  <2> QED BY <1>2, <1>3, <1>6, <2>1 DEF Queued
<1>9. \A n : Answers(c, p, n)' <=> Answers(c, p, n)
  <2>1. \A n \in 1 .. p : n \in 1 .. ReadUpTo(c)
    BY <1>1, <1>2, <1>6
  <2> QED BY <1>7, <2>1 DEF Answers
<1>10. Answered(c, p)'
  BY <1>3, <1>6, <1>9 DEF Answered
<1> QED BY <1>2, <1>5, <1>6, <1>8, <1>10 DEF Account

\* The server reads messages of c: they are behind the others of c in the queue.
LEMMA AccountReads ==
    ASSUME BaseInv, NEW c \in Clients, Account(c), AsyncReadHandler(c), Due(c)' = Due(c)
    PROVE  Account(c)'
<1> DEFINE l == Len(inbox[c])
           q == ReadUpTo(c)
           b == Len(queue)
<1>1. PICK k \in 1 .. l :
         /\ k \in Nat /\ l \in Nat /\ b \in Nat
         /\ DOMAIN queue' = 1 .. b + k /\ DOMAIN queue = 1 .. b
         /\ \A i \in 1 .. b : queue'[i] = queue[i]
         /\ \A i \in 1 .. k : queue'[b + i] = inbox[c][i]
         /\ Len(inbox'[c]) = l - k /\ DOMAIN inbox'[c] = 1 .. l - k
         /\ \A i \in 1 .. l - k : inbox'[c][i] = inbox[c][k + i]
  BY ReadSplits
<1>2. /\ sent' = sent /\ received' = received
      /\ \A i \in 1 .. k : inbox[c][i].src = c /\ inbox[c][i] = sent[c][q + i]
                           /\ sent[c][q + i].n = q + i
  <2>1. sent' = sent /\ received' = received
    BY DEF AsyncReadHandler
  <2>2. \A i \in 1 .. k : i \in DOMAIN inbox[c]
    BY <1>1, AccountNumbers
  <2>3. \A i \in 1 .. k : inbox[c][i].src = c /\ inbox[c][i] = sent[c][q + i]
    BY <2>2 DEF Account, Unread, BaseInv, Sources
  <2>4. \A i \in 1 .. k : q + i \in 1 .. Len(sent[c])
    <3>1. Len(sent[c]) \in Nat /\ l <= Len(sent[c]) /\ q = Len(sent[c]) - l
      BY AccountNumbers DEF ReadUpTo, Account, Unread
    <3> HIDE DEF q, l
    <3>2. k \in 1 .. l /\ l \in Nat
      BY <1>1
    <3> QED BY <3>1, <3>2
  <2>5. \A i \in 1 .. k : sent[c][q + i].n = q + i
    BY <2>4, AccountNumbers DEF BaseInv, Sources
  <2> QED BY <2>1, <2>3, <2>5
<1>3. ReadUpTo(c)' = q + k /\ q \in Nat
  <2>1. Len(sent[c]) \in Nat /\ l <= Len(sent[c]) /\ q = Len(sent[c]) - l
    BY AccountNumbers DEF ReadUpTo, Account, Unread
  <2>2. ReadUpTo(c)' = Len(sent[c]) - (l - k)
    BY <1>1, <1>2 DEF ReadUpTo
  <2> HIDE DEF q, l
  <2>3. k \in Nat /\ l \in Nat
    BY <1>1
  <2> QED BY <2>1, <2>2, <2>3
<1> HIDE DEF l, q, b
<1>4. Acks(c)' = Acks(c) /\ DueAcks(c)' = DueAcks(c)
  BY <1>2 DEF Acks, DueAcks
<1>5. Unread(c)'
  <2>1. l <= Len(sent[c]) /\ l = Len(inbox[c]) /\ q = Len(sent[c]) - l /\ Len(sent[c]) \in Nat
    BY AccountNumbers DEF Account, Unread, ReadUpTo, l, q
  <2>2. ASSUME NEW i \in 1 .. l - k PROVE inbox'[c][i] = sent[c][q + k + i]
    <3>1. k + i \in 1 .. l /\ q + (k + i) = q + k + i
      BY <1>1, <1>3
    <3>2. inbox[c][k + i] = sent[c][q + (k + i)]
      BY <2>1, <3>1, AccountNumbers DEF Account, Unread, q
    <3> QED BY <1>1, <3>1, <3>2
  <2>3. Len(inbox'[c]) <= Len(sent'[c])
    BY <1>1, <1>2, <2>1
  <2> QED BY <1>1, <1>2, <1>3, <2>2, <2>3 DEF Unread
<1>6. PICK p \in 0 .. q : Queued(c, p) /\ Answered(c, p)
  BY DEF Account, q
<1>7. Answered(c, p)'
  BY <1>2, <1>4, <1>6 DEF Answered, Answers
<1>8. \A i \in Mine(c) : /\ i \in Mine(c)' /\ queue'[i] = queue[i] /\ i \in 1 .. b
                         /\ p < queue[i].n /\ queue[i].n <= q /\ queue[i] = sent[c][queue[i].n]
                         /\ queue[i].n \in Nat
  BY <1>1, <1>6, AccountNumbers DEF Mine, Queued, q
<1>9. ASSUME NEW i \in 1 .. k
      PROVE  b + i \in Mine(c)' /\ queue'[b + i] = sent[c][q + i] /\ queue'[b + i].n = q + i
  <2>1. b + i \in DOMAIN queue'
    BY <1>1
  <2>2. queue'[b + i] = inbox[c][i]
    BY <1>1
  <2>3. queue'[b + i].src = c /\ queue'[b + i] = sent[c][q + i] /\ queue'[b + i].n = q + i
    BY <1>2, <2>2
  <2> QED BY <2>1, <2>3 DEF Mine
<1>10. ASSUME NEW i \in Mine(c)'
       PROVE  i \in Mine(c) \/ \E x \in 1 .. k : i = b + x
  <2>1. i \in 1 .. b + k
    BY <1>1 DEF Mine
  <2>2. CASE i <= b
    BY <1>1, <2>1, <2>2 DEF Mine
  <2>3. CASE ~(i <= b)
    <3>1. i - b \in 1 .. k /\ i = b + (i - b)
      BY <1>1, <2>1, <2>3
    <3> QED BY <3>1
  <2> QED BY <2>2, <2>3
<1>11. Queued(c, p)'
  <2>1. ASSUME NEW i \in Mine(c)'
        PROVE  p < queue'[i].n /\ queue'[i].n <= q + k /\ queue'[i] = sent[c][queue'[i].n]
    <3>1. CASE i \in Mine(c)
      BY <1>1, <1>3, <1>8, <3>1
    <3>2. CASE \E x \in 1 .. k : i = b + x
      <4>1. PICK x \in 1 .. k : i = b + x
        BY <3>2
      <4>2. queue'[i] = sent[c][q + x] /\ queue'[i].n = q + x
        BY <1>9, <4>1
      <4>3. p < q + x /\ q + x <= q + k
        BY <1>1, <1>3, <1>6
      <4> QED BY <4>2, <4>3
    <3> QED BY <1>10, <3>1, <3>2
  <2>2. ASSUME NEW n \in p + 1 .. q + k PROVE \E i \in Mine(c)' : queue'[i].n = n
    <3>1. CASE n <= q
      <4>1. n \in p + 1 .. q
        BY <1>1, <1>3, <3>1
      <4>2. PICK i \in Mine(c) : queue[i].n = n
        BY <1>6, <4>1 DEF Queued, q
      <4> QED BY <1>8, <4>2
    <3>2. CASE ~(n <= q)
      <4>1. n - q \in 1 .. k /\ q + (n - q) = n
        BY <1>1, <1>3, <1>6, <3>2
      <4> QED BY <1>9, <4>1
    <3> QED BY <3>1, <3>2
  <2>3. ASSUME NEW i \in Mine(c)', NEW j \in Mine(c)', i < j PROVE queue'[i].n < queue'[j].n
    <3>1. CASE j \in Mine(c)
      <4>1. i \in Mine(c)
        BY <1>1, <1>8, <1>10, <2>3, <3>1
      <4> QED BY <1>6, <1>8, <2>3, <3>1, <4>1 DEF Queued
    <3>2. CASE \E x \in 1 .. k : j = b + x
      <4>1. PICK x \in 1 .. k : j = b + x
        BY <3>2
      <4>2. CASE i \in Mine(c)
        BY <1>3, <1>8, <1>9, <4>1, <4>2
      <4>3. CASE \E y \in 1 .. k : i = b + y
        <5>1. PICK y \in 1 .. k : i = b + y
          BY <4>3
        <5>2. queue'[i].n = q + y /\ queue'[j].n = q + x
          BY <1>9, <4>1, <5>1
        <5>3. y < x
          BY <1>1, <2>3, <4>1, <5>1
        <5> QED BY <1>3, <5>2, <5>3
      <4> QED BY <1>10, <4>2, <4>3
    <3> QED BY <1>10, <3>1, <3>2
  <2> QED BY <1>2, <1>3, <2>1, <2>2, <2>3 DEF Queued
<1>12. p \in 0 .. ReadUpTo(c)'
  BY <1>1, <1>3, <1>6
<1> QED BY <1>5, <1>7, <1>11, <1>12 DEF Account

\* What the server reads from others is not of c.
LEMMA AccountOthersRead ==
    ASSUME BaseInv, NEW c \in Clients, NEW d \in Clients \ {c}, Account(c), AsyncReadHandler(d),
           Due(c)' = Due(c)
    PROVE  Account(c)'
<1>1. PICK k \in 1 .. Len(inbox[d]) :
         /\ k \in Nat /\ Len(inbox[d]) \in Nat /\ Len(queue) \in Nat
         /\ DOMAIN queue' = 1 .. Len(queue) + k /\ DOMAIN queue = 1 .. Len(queue)
         /\ \A i \in 1 .. Len(queue) : queue'[i] = queue[i]
         /\ \A i \in 1 .. k : queue'[Len(queue) + i] = inbox[d][i]
         /\ \A e \in Clients \ {d} : inbox'[e] = inbox[e]
  BY ReadSplits
<1>2. sent' = sent /\ received' = received /\ inbox'[c] = inbox[c]
  BY <1>1 DEF AsyncReadHandler
<1>3. \A i \in 1 .. k : queue'[Len(queue) + i].src # c
  <2>1. \A i \in 1 .. k : i \in DOMAIN inbox[d]
    BY <1>1, AccountNumbers
  <2>2. \A i \in 1 .. k : inbox[d][i].src = d
    BY <2>1 DEF BaseInv, Sources
  <2> QED BY <1>1, <2>2
<1>4. Mine(c)' = Mine(c) /\ \A i \in Mine(c) : queue'[i] = queue[i]
  <2>1. \A i \in Mine(c) : i \in Mine(c)' /\ queue'[i] = queue[i]
    BY <1>1 DEF Mine
  <2>2. ASSUME NEW i \in Mine(c)' PROVE i \in Mine(c)
    <3>1. i \in 1 .. Len(queue) + k /\ queue'[i].src = c
      BY <1>1 DEF Mine
    <3>2. CASE i <= Len(queue)
      BY <1>1, <3>1, <3>2 DEF Mine
    <3>3. CASE ~(i <= Len(queue))
      <4>1. i - Len(queue) \in 1 .. k /\ i = Len(queue) + (i - Len(queue))
        BY <1>1, <3>1, <3>3
      <4> QED BY <1>3, <3>1, <4>1
    <3> QED BY <3>2, <3>3
  <2> QED BY <2>1, <2>2
<1>5. ReadUpTo(c)' = ReadUpTo(c) /\ Acks(c)' = Acks(c) /\ DueAcks(c)' = DueAcks(c)
  BY <1>2 DEF ReadUpTo, Acks, DueAcks
<1>6. Unread(c)'
  BY <1>2, <1>5 DEF Account, Unread
<1>7. PICK p \in 0 .. ReadUpTo(c) : Queued(c, p) /\ Answered(c, p)
  BY DEF Account
<1>8. Queued(c, p)'
  BY <1>2, <1>4, <1>5, <1>7 DEF Queued
<1>9. Answered(c, p)'
  BY <1>2, <1>5, <1>7 DEF Answered, Answers
<1> QED BY <1>5, <1>6, <1>7, <1>8, <1>9 DEF Account

\* parseMessage() takes the message at the head of the queue: the rest moves up.
LEMMA QueueTail ==
    ASSUME BaseInv, queue # <<>>, queue' = Tail(queue), NEW c \in Clients
    PROVE  /\ 1 \in DOMAIN queue /\ Head(queue) = queue[1]
           /\ \A i \in Mine(c)' : i \in Nat /\ i # 0 /\ i + 1 \in Mine(c) /\ queue'[i] = queue[i + 1]
           /\ \A i \in Mine(c) : i = 1 \/ (i - 1 \in Mine(c)' /\ queue'[i - 1] = queue[i])
           /\ \A i \in Mine(c) : i \in Nat /\ i # 0
<1>1. /\ queue \in Seq(Command) /\ Len(queue) \in Nat /\ Len(queue) # 0
      /\ DOMAIN queue = 1 .. Len(queue) /\ DOMAIN queue' = 1 .. Len(queue) - 1
      /\ \A i \in 1 .. Len(queue) - 1 : queue'[i] = queue[i + 1]
  BY HeadTailProperties, LenProperties DEF BaseInv, TypeOK
<1>2. Head(queue) = queue[1] /\ 1 \in DOMAIN queue
  BY <1>1
<1>3. \A i \in Mine(c)' : i \in Nat /\ i # 0 /\ i + 1 \in Mine(c) /\ queue'[i] = queue[i + 1]
  BY <1>1 DEF Mine
<1>4. ASSUME NEW i \in Mine(c), i # 1 PROVE i - 1 \in Mine(c)' /\ queue'[i - 1] = queue[i]
  <2>1. i - 1 \in 1 .. Len(queue) - 1 /\ (i - 1) + 1 = i
    BY <1>1, <1>4 DEF Mine
  <2> QED BY <1>1, <2>1 DEF Mine
<1>5. \A i \in Mine(c) : i \in Nat /\ i # 0
  BY <1>1 DEF Mine
<1> QED BY <1>2, <1>3, <1>4, <1>5

\* The message of another client makes no difference to c, ...
LEMMA AccountOthersParse ==
    ASSUME BaseInv, NEW c \in Clients, Account(c), queue # <<>>, queue' = Tail(queue),
           Head(queue).src # c, sent'[c] = sent[c], inbox'[c] = inbox[c], received'[c] = received[c],
           Due(c) = {}, \A x \in Due(c)' : ~IsAck(x)
    PROVE  Account(c)'
<1>1. ReadUpTo(c)' = ReadUpTo(c) /\ Acks(c)' = Acks(c) /\ DueAcks(c)' = DueAcks(c)
  BY DEF ReadUpTo, Acks, DueAcks
<1>2. Unread(c)'
  BY <1>1 DEF Account, Unread
<1>3. PICK p \in 0 .. ReadUpTo(c) : Queued(c, p) /\ Answered(c, p)
  BY DEF Account
<1>4. 1 \notin Mine(c)
  BY QueueTail DEF Mine
<1>5. Queued(c, p)'
  <2>1. ASSUME NEW i \in Mine(c)'
        PROVE  p < queue'[i].n /\ queue'[i].n <= ReadUpTo(c) /\ queue'[i] = sent[c][queue'[i].n]
    <3>1. i + 1 \in Mine(c) /\ queue'[i] = queue[i + 1]
      BY QueueTail
    <3> QED BY <1>3, <3>1 DEF Queued
  <2>2. ASSUME NEW n \in p + 1 .. ReadUpTo(c) PROVE \E i \in Mine(c)' : queue'[i].n = n
    <3>1. PICK i \in Mine(c) : queue[i].n = n
      BY <1>3 DEF Queued
    <3>2. i - 1 \in Mine(c)' /\ queue'[i - 1] = queue[i]
      BY <1>4, <3>1, QueueTail
    <3> QED BY <3>1, <3>2
  <2>3. \A i, j \in Mine(c)' : i < j => queue'[i].n < queue'[j].n
    <3> SUFFICES ASSUME NEW i \in Mine(c)', NEW j \in Mine(c)', i < j PROVE queue'[i].n < queue'[j].n
      OBVIOUS
    <3>1. i \in Nat /\ i + 1 \in Mine(c) /\ queue'[i] = queue[i + 1]
      BY QueueTail
    <3>2. j \in Nat /\ j + 1 \in Mine(c) /\ queue'[j] = queue[j + 1]
      BY QueueTail
    <3>3. i + 1 < j + 1
      BY <3>1, <3>2
    <3>4. queue[i + 1].n < queue[j + 1].n
      BY <1>3, <3>1, <3>2, <3>3 DEF Queued
    <3> QED BY <3>1, <3>2, <3>4
  <2> QED BY <1>1, <2>1, <2>2, <2>3 DEF Queued
<1>6. Answered(c, p)'
  BY <1>1, <1>3 DEF Answered, Answers
<1> QED BY <1>1, <1>2, <1>3, <1>5, <1>6 DEF Account

\* ... and its own is the next of the account: its acknowledgement becomes due,
\* unless it is a text.
LEMMA AccountParses ==
    ASSUME BaseInv, NEW c \in Clients, Account(c), queue # <<>>, queue' = Tail(queue),
           Head(queue).src = c, sent'[c] = sent[c], inbox'[c] = inbox[c], received'[c] = received[c],
           Due(c) = {}, Due(c)' \subseteq Output,
           \A x \in Due(c)' : IsAck(x) => x.n = Head(queue).n,
           IF Head(queue).cmd = "fact" THEN \A x \in Due(c)' : ~IsAck(x) ELSE \E x \in Due(c)' : IsAck(x)
    PROVE  Account(c)'
<1>1. ReadUpTo(c)' = ReadUpTo(c) /\ Acks(c)' = Acks(c) /\ DueAcks(c) = {} /\ ReadUpTo(c) \in Int
  BY AccountNumbers DEF ReadUpTo, Acks, DueAcks
<1>2. Unread(c)'
  BY <1>1 DEF Account, Unread
<1>3. PICK p \in 0 .. ReadUpTo(c) : Queued(c, p) /\ Answered(c, p)
  BY DEF Account
<1>4. 1 \in Mine(c) /\ Head(queue) = queue[1] /\ queue[1].n \in Nat /\ p \in Nat
  BY <1>1, <1>3, QueueTail, AccountNumbers DEF Mine
<1>5. queue[1].n = p + 1
  <2>1. p < queue[1].n /\ queue[1].n <= ReadUpTo(c)
    BY <1>3, <1>4 DEF Queued
  <2>2. p + 1 \in p + 1 .. ReadUpTo(c)
    BY <1>1, <1>4, <2>1
  <2>3. PICK i \in Mine(c) : queue[i].n = p + 1
    BY <1>3, <2>2 DEF Queued
  <2>4. CASE i # 1
    <3>1. 1 < i
      BY <2>4, QueueTail
    <3>2. queue[1].n < p + 1
      BY <1>3, <1>4, <2>3, <3>1 DEF Queued
    <3> QED BY <1>4, <2>1, <3>2
  <2> QED BY <2>3, <2>4
<1>6. sent[c][p + 1] = queue[1] /\ p + 1 \in 0 .. ReadUpTo(c)
  <2>1. sent[c][queue[1].n] = queue[1] /\ queue[1].n <= ReadUpTo(c)
    BY <1>3, <1>4 DEF Queued
  <2> QED BY <1>1, <1>4, <1>5, <2>1
<1>7. Queued(c, p + 1)'
  <2>1. ASSUME NEW i \in Mine(c)'
        PROVE  p + 1 < queue'[i].n /\ queue'[i].n <= ReadUpTo(c) /\ queue'[i] = sent[c][queue'[i].n]
    <3>1. i + 1 \in Mine(c) /\ queue'[i] = queue[i + 1] /\ i \in Nat
      BY QueueTail
    <3>2. i # 0
      BY QueueTail
    <3>3. 1 < i + 1
      BY <3>1, <3>2
    <3>4. queue[1].n < queue[i + 1].n
      BY <1>3, <1>4, <3>1, <3>3 DEF Queued
    <3> QED BY <1>3, <1>5, <3>1, <3>4 DEF Queued
  <2>2. ASSUME NEW n \in p + 1 + 1 .. ReadUpTo(c) PROVE \E i \in Mine(c)' : queue'[i].n = n
    <3>1. n \in p + 1 .. ReadUpTo(c) /\ n # p + 1
      BY <1>1, <1>4
    <3>2. PICK i \in Mine(c) : queue[i].n = n
      BY <1>3, <3>1 DEF Queued
    <3> QED BY <1>5, <3>1, <3>2, QueueTail
  <2>3. \A i, j \in Mine(c)' : i < j => queue'[i].n < queue'[j].n
    <3> SUFFICES ASSUME NEW i \in Mine(c)', NEW j \in Mine(c)', i < j PROVE queue'[i].n < queue'[j].n
      OBVIOUS
    <3>1. i \in Nat /\ i + 1 \in Mine(c) /\ queue'[i] = queue[i + 1]
      BY QueueTail
    <3>2. j \in Nat /\ j + 1 \in Mine(c) /\ queue'[j] = queue[j + 1]
      BY QueueTail
    <3>3. i + 1 < j + 1
      BY <3>1, <3>2
    <3>4. queue[i + 1].n < queue[j + 1].n
      BY <1>3, <3>1, <3>2, <3>3 DEF Queued
    <3> QED BY <3>1, <3>2, <3>4
  <2>4. \A i \in Mine(c)' : /\ p + 1 < queue'[i].n /\ queue'[i].n <= ReadUpTo(c)'
                           /\ queue'[i] = sent'[c][queue'[i].n]
    BY <1>1, <2>1
  <2>5. \A n \in p + 1 + 1 .. ReadUpTo(c)' : \E i \in Mine(c)' : queue'[i].n = n
    BY <1>1, <2>2
  <2> QED BY <2>3, <2>4, <2>5 DEF Queued
<1>8. Answered(c, p + 1)'
  <2>1. \A i \in Acks(c) : received'[c][i].n = received[c][i].n /\ received[c][i].n \in Nat
                           /\ received[c][i].n \in 1 .. p
    BY <1>3, AccountNumbers DEF Answered, Answers
  <2>2. \A n \in 1 .. p : n \in 1 .. p + 1 /\ (Answers(c, p + 1, n)' <=> Answers(c, p, n))
    BY <1>4 DEF Answers
  <2>3. \A x \in DueAcks(c)' : x.n = p + 1
    BY <1>4, <1>5 DEF DueAcks
  <2>4. Answers(c, p + 1, p + 1)' <=> queue[1].cmd # "fact"
    BY <1>4, <1>6 DEF Answers
  <2>5. \A i \in Acks(c) : received'[c][i].n \in 1 .. p + 1 /\ sent'[c][received'[c][i].n].cmd # "fact"
    <3>1. \A i \in Acks(c) : sent[c][received[c][i].n].cmd # "fact"
      BY <1>3 DEF Answered, Answers
    <3>2. \A n \in 1 .. p : n \in 1 .. p + 1
      BY <1>4
    <3> QED BY <2>1, <3>1, <3>2
  <2>6. \A x \in DueAcks(c)' : x.n \in 1 .. p + 1 /\ sent'[c][x.n].cmd # "fact"
    <3>1. p + 1 \in 1 .. p + 1
      BY <1>4
    <3>2. ASSUME NEW x \in DueAcks(c)' PROVE queue[1].cmd # "fact"
      BY <1>4 DEF DueAcks
    <3> QED BY <1>6, <2>3, <3>1, <3>2
  <2>7. ASSUME NEW n \in 1 .. p + 1, Answers(c, p + 1, n)'
        PROVE  \/ \E i \in Acks(c) : received'[c][i].n = n
               \/ \E x \in DueAcks(c)' : x.n = n
    <3>1. CASE n = p + 1
      BY <1>4, <2>3, <2>4, <2>7, <3>1 DEF DueAcks
    <3>2. CASE n # p + 1
      <4>1. n \in 1 .. p
        BY <1>4, <3>2
      <4>2. \E i \in Acks(c) : received[c][i].n = n
        BY <1>1, <1>3, <2>2, <2>7, <4>1 DEF Answered
      <4> QED BY <2>1, <4>2
    <3> QED BY <3>1, <3>2
  <2>8. \A i, j \in Acks(c) : i < j => received'[c][i].n < received'[c][j].n
    BY <1>3 DEF Answered
  <2>9. \A i \in Acks(c), x \in DueAcks(c)' : received'[c][i].n < x.n
    BY <1>4, <2>1, <2>3
  <2> QED BY <1>1, <2>5, <2>6, <2>7, <2>8, <2>9 DEF Answered, Answers
<1> QED BY <1>1, <1>2, <1>6, <1>7, <1>8 DEF Account

-----------------------------------------------------------------------------
(* What one client knows: broadcasts and statuses.                         *)

LEMMA CastNumbers ==
    ASSUME BaseInv, NEW c \in Clients
    PROVE  /\ published \in Nat
           /\ \A i \in Casts(c) : received[c][i].serial \in Nat
           /\ \A m \in DueCasts(c) : m \in Output /\ m.serial \in Nat
<1>1. received[c] \in Seq(Output) /\ published \in Nat
  BY DEF BaseInv, TypeOK
<1>2. \A i \in Casts(c) : received[c][i].serial \in Nat
  BY <1>1, OutputFields DEF Casts
<1>3. \A m \in DueCasts(c) : m \in Output /\ m.serial \in Nat
  BY OutputFields DEF DueCasts, Due
<1> QED BY <1>1, <1>2, <1>3

LEMMA InformedStays ==
    ASSUME NEW c \in Clients, Informed(c), received'[c] = received[c],
           DueCasts(c)' = DueCasts(c), published' = published
    PROVE  Informed(c)'
<1>1. Casts(c)' = Casts(c)
  BY DEF Casts
<1> QED BY <1>1 DEF Informed, CastsFrom

\* A broadcast that is written changes from due to received.
LEMMA InformedReceives ==
    ASSUME BaseInv, NEW c \in Clients, Informed(c), NEW m \in Due(c),
           received'[c] = Append(received[c], m), Due(c)' = Due(c) \ {m}, published' = published
    PROVE  Informed(c)'
<1> DEFINE n == Len(received[c])
<1>1. /\ n \in Nat /\ DOMAIN received[c] = 1 .. n /\ DOMAIN received'[c] = 1 .. n + 1
      /\ \A i \in 1 .. n : received'[c][i] = received[c][i]
      /\ received'[c][n + 1] = m
  BY Receives
<1> HIDE DEF n
<1>2. DueCasts(c)' = DueCasts(c) \ {m}
  BY DEF DueCasts
<1>3. \A i \in Casts(c) : i \in Casts(c)' /\ received'[c][i] = received[c][i] /\ i \in 1 .. n
  BY <1>1 DEF Casts
<1>4. /\ IsBroadcast(m) => m \in DueCasts(c) /\ n + 1 \in Casts(c)' /\ DueCasts(c)' = {}
      /\ ~IsBroadcast(m) => m \notin DueCasts(c)
  <2>1. \A x \in Due(c) : x \in Output /\ (IsBroadcast(x) => ~IsAck(x))
    BY OutputFields DEF Due
  <2>2. \A x \in DueCasts(c) : IsBroadcast(m) => x = m
    BY <2>1, DueMembers DEF DueCasts, BaseInv
  <2> QED BY <1>1, <1>2, <2>2 DEF DueCasts, Casts
<1>5. \A i \in Casts(c)' : i \in Casts(c) \/ (i = n + 1 /\ IsBroadcast(m) /\ received'[c][i] = m)
  BY <1>1 DEF Casts
<1>6. PICK first \in 1 .. published : CastsFrom(c, first)
  BY DEF Informed
<1>7. \A i \in Casts(c)' : received'[c][i].serial \in first .. published
  <2>1. IsBroadcast(m) => m.serial \in first .. published
    <3>1. IsBroadcast(m) => m.serial = published
      BY <1>4, <1>6 DEF CastsFrom
    <3>2. published \in first .. published
      BY <1>6, CastNumbers
    <3> QED BY <3>1, <3>2
  <2> QED BY <1>3, <1>5, <1>6, <2>1 DEF CastsFrom
<1>8. \A x \in DueCasts(c)' : x.serial = published
  BY <1>2, <1>6 DEF CastsFrom
<1>9. ASSUME NEW s \in first .. published
      PROVE  \/ \E i \in Casts(c)' : received'[c][i].serial = s
             \/ \E x \in DueCasts(c)' : x.serial = s
  <2>1. CASE \E i \in Casts(c) : received[c][i].serial = s
    BY <1>3, <2>1
  <2>2. CASE \E x \in DueCasts(c) : x.serial = s
    BY <1>1, <1>2, <1>4, <2>2
  <2> QED BY <1>6, <2>1, <2>2 DEF CastsFrom
<1>10. ASSUME NEW i \in Casts(c)', NEW j \in Casts(c)', i < j
       PROVE  received'[c][i].serial < received'[c][j].serial
  <2>1. CASE j \in Casts(c)
    <3>0. ~(n + 1 < j)
      <4>1. j \in 1 .. n
        BY <1>3, <2>1
      <4> QED BY <1>1, <4>1
    <3>1. i # n + 1
      BY <1>10, <3>0
    <3>2. i \in Casts(c)
      BY <1>5, <3>1
    <3> QED BY <1>3, <1>6, <1>10, <2>1, <3>2 DEF CastsFrom
  <2>2. CASE j = n + 1 /\ IsBroadcast(m) /\ received'[c][j] = m
    <3>0. i # n + 1
      BY <1>1, <1>10, <2>2
    <3>1. i \in Casts(c)
      BY <1>5, <3>0
    <3>2. \A k \in Casts(c), x \in DueCasts(c) : received[c][k].serial < x.serial
      BY <1>6 DEF CastsFrom
    <3> QED BY <1>3, <1>4, <2>2, <3>1, <3>2
  <2> QED BY <1>5, <2>1, <2>2
<1>11. \A i \in Casts(c)', x \in DueCasts(c)' : received'[c][i].serial < x.serial
  BY <1>2, <1>3, <1>4, <1>5, <1>6 DEF CastsFrom
<1>12. CastsFrom(c, first)'
  BY <1>7, <1>8, <1>9, <1>10, <1>11 DEF CastsFrom
<1> QED BY <1>6, <1>12 DEF Informed

\* The next broadcast goes to everybody.
LEMMA InformedPublishes ==
    ASSUME BaseInv, NEW c \in Clients, Informed(c), received'[c] = received[c], DueCasts(c) = {},
           published' = published + 1, \A x \in Due(c)' : IsBroadcast(x) => x.serial = published',
           \E x \in Due(c)' : IsBroadcast(x)
    PROVE  Informed(c)'
<1>1. Casts(c)' = Casts(c)
  BY DEF Casts
<1>2. PICK first \in 1 .. published : CastsFrom(c, first)
  BY DEF Informed
<1>3. published \in Nat
  BY CastNumbers
<1>4. \A i \in Casts(c) : received[c][i].serial \in first .. published
  BY <1>2 DEF CastsFrom
<1>5. \A m \in DueCasts(c)' : m.serial = published + 1
  BY DEF DueCasts
<1>6. \E m \in DueCasts(c)' : m.serial = published + 1
  BY DEF DueCasts
<1>7. ASSUME NEW s \in first .. published + 1
      PROVE  \/ \E i \in Casts(c) : received[c][i].serial = s
             \/ \E m \in DueCasts(c)' : m.serial = s
  <2>1. CASE s = published + 1
    BY <1>6, <2>1
  <2>2. CASE s # published + 1
    <3>1. s \in first .. published
      BY <1>2, <1>3, <2>2
    <3> QED BY <1>1, <1>2, <3>1 DEF CastsFrom
  <2> QED BY <2>1, <2>2
<1>8. \A i \in Casts(c) : received[c][i].serial \in first .. published + 1
                          /\ received[c][i].serial < published + 1
  BY <1>2, <1>3, <1>4
<1>9. \A i, j \in Casts(c) : i < j => received[c][i].serial < received[c][j].serial
  BY <1>2 DEF CastsFrom
<1>10. CastsFrom(c, first)'
  BY <1>1, <1>5, <1>7, <1>8, <1>9 DEF CastsFrom
<1>11. first \in 1 .. published + 1
  BY <1>2, <1>3
<1> QED BY <1>10, <1>11 DEF Informed

\* A client that joins begins with the broadcast about it.
LEMMA InformedJoins ==
    ASSUME BaseInv, NEW c \in Clients, received[c] = <<>>, received'[c] = received[c],
           published' = published + 1, \A x \in Due(c)' : IsBroadcast(x) => x.serial = published',
           \E x \in Due(c)' : IsBroadcast(x)
    PROVE  Informed(c)'
<1>1. Casts(c)' = {}
  BY DEF Casts
<1>2. PICK first \in 1 .. published + 1 : first = published + 1
  BY CastNumbers
<1>3. \A s \in first .. published + 1 : s = published + 1
  BY <1>2, CastNumbers
<1>4. CastsFrom(c, first)'
  BY <1>1, <1>3 DEF CastsFrom, DueCasts
<1> QED BY <1>2, <1>4 DEF Informed

LEMMA StatusStays ==
    ASSUME NEW c \in Clients, StatusFirst(c), received'[c] = received[c], Due(c)' = Due(c)
    PROVE  StatusFirst(c)'
<1>1. DueAcks(c)' = DueAcks(c)
  BY DEF DueAcks
<1>2. \A w : Knows(c, w) => Knows(c, w)'
  BY DEF Knows
<1> QED BY <1>1, <1>2 DEF StatusFirst

\* The status that is written is then the latest that the client knows.
LEMMA StatusReceives ==
    ASSUME BaseInv, NEW c \in Clients, StatusFirst(c), NEW m \in Due(c),
           received'[c] = Append(received[c], m), Due(c)' = Due(c) \ {m}
    PROVE  StatusFirst(c)'
<1> DEFINE n == Len(received[c])
<1>1. /\ n \in Nat /\ DOMAIN received[c] = 1 .. n /\ DOMAIN received'[c] = 1 .. n + 1
      /\ \A i \in 1 .. n : received'[c][i] = received[c][i]
      /\ received'[c][n + 1] = m
  BY Receives
<1> HIDE DEF n
<1>2. m.kind = "status" => Knows(c, m.watches)'
  <2>1. n + 1 \in 1 .. n + 1 /\ \A k \in 1 .. n + 1 : ~(n + 1 < k)
    BY <1>1
  <2> QED BY <1>1, <2>1 DEF Knows
<1>3. ASSUME m.kind # "status", NEW w, Knows(c, w) PROVE Knows(c, w)'
  <2>1. PICK j \in 1 .. n : /\ received[c][j].kind = "status" /\ received[c][j].watches = w
                            /\ \A k \in 1 .. n : j < k => received[c][k].kind # "status"
    BY <1>1, <1>3 DEF Knows
  <2>2. \A k \in 1 .. n + 1 : k \in 1 .. n \/ k = n + 1
    <3>1. n \in Nat
      BY <1>1
    <3> QED BY <3>1
  <2>3. j \in 1 .. n + 1
    BY <1>1
  <2>4. \A k \in 1 .. n + 1 : j < k => received'[c][k].kind # "status"
    BY <1>1, <1>3, <2>1, <2>2
  <2> QED BY <1>1, <2>1, <2>3, <2>4 DEF Knows
<1>4. ASSUME NEW x \in DueAcks(c)', x.cmd = "watch"
      PROVE  \/ \E s \in Due(c)' : s.kind = "status" /\ s.watches = x.watches
             \/ Knows(c, x.watches)' /\ \A s \in Due(c)' : s.kind # "status"
  <2>1. x \in DueAcks(c)
    BY DEF DueAcks
  <2>2. CASE \E s \in Due(c) : s.kind = "status" /\ s.watches = x.watches
    <3>1. PICK s \in Due(c) : s.kind = "status" /\ s.watches = x.watches
      BY <2>2
    <3>2. CASE s = m
      <4>1. Knows(c, x.watches)'
        BY <1>2, <3>1, <3>2
      <4>2. ASSUME NEW t \in Due(c)', t.kind = "status" PROVE FALSE
        <5>1. ~IsAck(t) /\ ~IsAck(s)
          BY <3>1, <4>2 DEF IsAck
        <5>2. t = s
          BY <5>1, DueMembers DEF BaseInv
        <5> QED BY <3>2, <5>2
      <4> QED BY <4>1, <4>2
    <3>3. CASE s # m
      BY <3>1, <3>3
    <3> QED BY <3>2, <3>3
  <2>3. CASE Knows(c, x.watches) /\ \A s \in Due(c) : s.kind # "status"
    BY <1>3, <2>3
  <2> QED BY <1>4, <2>1, <2>2, <2>3 DEF StatusFirst
<1> QED BY <1>4 DEF StatusFirst

\* An acknowledgement is written when the status before it has been.
LEMMA StatusThenAck ==
    ASSUME BaseInv, StatusBeforeAck, todo # <<>>, NEW c \in Head(todo).to, StatusFirst(c),
           received' = [received EXCEPT ![c] = Append(received[c], Head(todo).msg)]
    PROVE  StatusBeforeAck'
<1> DEFINE n == Len(received[c])
           m == Head(todo).msg
<1>1. /\ Head(todo) = todo[1] /\ 1 \in DOMAIN todo /\ DOMAIN todo = 1 .. Len(todo)
      /\ c \in Clients /\ m \in Due(c)
  BY TodoMembers, DueMembers DEF BaseInv
<1>2. received \in [Clients -> Seq(Output)]
  BY DEF BaseInv, TypeOK
<1>3. received'[c] = Append(received[c], m) /\ \A d \in Clients : d # c => received'[d] = received[d]
  BY <1>1, <1>2
<1>4. /\ n \in Nat /\ DOMAIN received[c] = 1 .. n /\ DOMAIN received'[c] = 1 .. n + 1
      /\ \A i \in 1 .. n : received'[c][i] = received[c][i]
      /\ received'[c][n + 1] = m
  BY <1>1, <1>3, Receives
<1> HIDE DEF n, m
<1> SUFFICES ASSUME NEW d \in Clients, NEW i \in DOMAIN received'[d],
                    IsAck(received'[d][i]), received'[d][i].cmd = "watch"
             PROVE  \E j \in 1 .. i - 1 :
                       /\ received'[d][j].kind = "status" /\ received'[d][j].watches = received'[d][i].watches
                       /\ \A k \in j + 1 .. i - 1 : received'[d][k].kind # "status"
  BY DEF StatusBeforeAck
<1>5. CASE d # c
  <2>1. received'[d] = received[d]
    BY <1>3, <1>5
  <2>2. i \in DOMAIN received[d] /\ IsAck(received[d][i]) /\ received[d][i].cmd = "watch"
    BY <2>1
  <2>3. \E j \in 1 .. i - 1 :
           /\ received[d][j].kind = "status" /\ received[d][j].watches = received[d][i].watches
           /\ \A k \in j + 1 .. i - 1 : received[d][k].kind # "status"
    BY <2>2 DEF StatusBeforeAck
  <2> QED BY <2>1, <2>3
<1>6. CASE d = c /\ i \in 1 .. n
  <2>1. received'[c][i] = received[c][i]
    BY <1>4, <1>6
  <2>2. PICK j \in 1 .. i - 1 :
           /\ received[c][j].kind = "status" /\ received[c][j].watches = received[c][i].watches
           /\ \A k \in j + 1 .. i - 1 : received[c][k].kind # "status"
    BY <1>1, <1>4, <1>6, <2>1 DEF StatusBeforeAck
  <2>3. j \in 1 .. n /\ \A k \in j + 1 .. i - 1 : k \in 1 .. n
    BY <1>4, <1>6
  <2> QED BY <1>4, <1>6, <2>1, <2>2, <2>3
<1>7. CASE d = c /\ i = n + 1
  <2>1. IsAck(m) /\ m.cmd = "watch" /\ received'[c][i] = m
    BY <1>4, <1>7
  <2>2. Len(todo) = 1
    BY <1>1, <2>1 DEF BaseInv, TodoShape, m
  <2>3. ASSUME NEW s \in Due(c) PROVE s = m
    <3>1. PICK k \in DOMAIN todo : todo[k].msg = s
      BY DEF Due
    <3>2. k = 1
      BY <1>1, <2>2
    <3> QED BY <1>1, <3>1, <3>2 DEF m
  <2>4. m.kind # "status"
    BY <2>1 DEF IsAck
  <2>5. Knows(c, m.watches)
    BY <1>1, <2>1, <2>3, <2>4 DEF StatusFirst, DueAcks
  <2>6. PICK j \in 1 .. n : /\ received[c][j].kind = "status" /\ received[c][j].watches = m.watches
                            /\ \A k \in 1 .. n : j < k => received[c][k].kind # "status"
    BY <1>4, <2>5 DEF Knows
  <2>7. i - 1 = n
    BY <1>4, <1>7
  <2>8. \A k \in j + 1 .. n : k \in 1 .. n /\ j < k
    BY <1>4
  <2>9. /\ received'[c][j].kind = "status" /\ received'[c][j].watches = m.watches
        /\ \A k \in j + 1 .. n : received'[c][k].kind # "status"
    BY <1>4, <2>6, <2>8
  <2>10. j \in 1 .. i - 1 /\ \A k \in j + 1 .. i - 1 : received'[d][k].kind # "status"
    BY <1>7, <2>7, <2>9
  <2>11. received'[d][j].kind = "status" /\ received'[d][j].watches = received'[d][i].watches
    BY <1>7, <2>1, <2>9
  <2> QED BY <2>10, <2>11
<1> QED BY <1>4, <1>5, <1>6, <1>7

-----------------------------------------------------------------------------
(* Every step keeps the account of every client.                           *)

\* A step that is not about c.
LEMMA ClientStays ==
    ASSUME NEW c \in Clients, ClientInv(c), Live(c)' => Live(c), c \in clients' => c \in clients,
           sent'[c] = sent[c], inbox'[c] = inbox[c], queue' = queue, received'[c] = received[c],
           Due(c)' = Due(c), published' = published
    PROVE  ClientInv(c)'
<1> SUFFICES ASSUME Live(c)'
             PROVE  Account(c)' /\ (c \in clients' => Informed(c)' /\ StatusFirst(c)')
  BY DEF ClientInv
<1>1. Account(c) /\ (c \in clients => Informed(c) /\ StatusFirst(c))
  BY DEF ClientInv
<1>2. DueAcks(c)' = DueAcks(c) /\ DueCasts(c)' = DueCasts(c)
  BY DEF DueAcks, DueCasts
<1>3. Account(c)'
  BY <1>1, <1>2, AccountStays
<1>4. ASSUME c \in clients' PROVE Informed(c)' /\ StatusFirst(c)'
  BY <1>1, <1>2, <1>4, InformedStays, StatusStays
<1> QED BY <1>3, <1>4

LEMMA ClientStepInv ==
    ASSUME IInv, NEW d \in Clients, ClientStep(d), NEW c \in Clients
    PROVE  ClientInv(c)'
<1>1. /\ UNCHANGED <<failure, clients, queue, todo, published, received>> /\ ClientInv(c) /\ TypeOK
      /\ Due(c)' = Due(c)
  BY DEF ClientStep, Connect, SendMessage, ClientReads, Disconnect, IInv, BaseInv, Due
<1>2. CASE Connect(d)
  <2>1. UNCHANGED <<sent, inbox>> /\ (Live(c)' => Live(c))
    BY <1>1, <1>2 DEF Connect, Live, TypeOK
  <2> QED BY <1>1, <2>1, ClientStays
<1>3. CASE SendMessage(d)
  <2>1. PICK m : /\ m \in Command
                 /\ sent' = [sent EXCEPT ![d] = Append(sent[d], m)]
                 /\ inbox' = [inbox EXCEPT ![d] = Append(inbox[d], m)]
    <3>1. PICK cmd \in Commands[d] :
             /\ sent' = [sent EXCEPT ![d] = Append(@, [src |-> d, n |-> Len(sent[d]) + 1, cmd |-> cmd])]
             /\ inbox' = [inbox EXCEPT ![d] = Append(@, [src |-> d, n |-> Len(sent[d]) + 1, cmd |-> cmd])]
      BY <1>3 DEF SendMessage
    <3>2. Len(sent[d]) + 1 \in Nat \ {0} /\ cmd \in Kinds
      BY <1>1, LenProperties, ServerConstants DEF TypeOK
    <3>3. [src |-> d, n |-> Len(sent[d]) + 1, cmd |-> cmd] \in Command
      BY <3>2 DEF Command
    <3> QED BY <3>1, <3>3
  <2>2. conn' = conn /\ (Live(c)' <=> Live(c))
    BY <1>1, <1>3 DEF SendMessage, Live
  <2>3. CASE c = d
    <3>1. sent'[c] = Append(sent[c], m) /\ inbox'[c] = Append(inbox[c], m)
      BY <1>1, <2>1, <2>3 DEF TypeOK
    <3> SUFFICES ASSUME Live(c)'
                 PROVE  Account(c)' /\ (c \in clients' => Informed(c)' /\ StatusFirst(c)')
      BY DEF ClientInv
    <3>2. Account(c) /\ (c \in clients => Informed(c) /\ StatusFirst(c))
      BY <1>1, <2>2 DEF ClientInv
    <3>3. Account(c)'
      BY <1>1, <2>1, <3>1, <3>2, AccountSends DEF IInv
    <3>4. DueCasts(c)' = DueCasts(c)
      BY <1>1 DEF DueCasts
    <3> QED BY <1>1, <3>2, <3>3, <3>4, InformedStays, StatusStays
  <2>4. CASE c # d
    <3>1. sent'[c] = sent[c] /\ inbox'[c] = inbox[c]
      BY <1>1, <2>1, <2>4 DEF TypeOK
    <3> QED BY <1>1, <2>2, <3>1, ClientStays
  <2> QED BY <2>3, <2>4
<1>4. CASE ClientReads(d)
  <2>1. UNCHANGED <<sent, inbox>> /\ (Live(c)' => Live(c))
    BY <1>1, <1>4 DEF ClientReads, Live
  <2> QED BY <1>1, <2>1, ClientStays
<1>5. CASE Disconnect(d)
  <2>1. /\ conn' = [conn EXCEPT ![d] = "closed"] /\ sent' = sent
        /\ inbox' = inbox \/ inbox' = [inbox EXCEPT ![d] = <<>>]
    BY <1>5 DEF Disconnect
  <2>2. CASE c = d
    <3>1. ~Live(c)'
      BY <1>1, <2>1, <2>2 DEF Live, TypeOK
    <3> QED BY <3>1 DEF ClientInv
  <2>3. CASE c # d
    <3>1. inbox'[c] = inbox[c] /\ (Live(c)' => Live(c))
      BY <1>1, <2>1, <2>3 DEF Live, TypeOK
    <3> QED BY <1>1, <2>1, <3>1, ClientStays
  <2> QED BY <2>2, <2>3
<1> QED BY <1>2, <1>3, <1>4, <1>5 DEF ClientStep

LEMMA WriteInv ==
    ASSUME IInv, Write
    PROVE  StatusBeforeAck' /\ \A c \in Clients : ClientInv(c)'
<1>1. /\ UNCHANGED <<pc, clients, queue, published, conn, sent, inbox>> /\ BaseInv /\ StatusBeforeAck
      /\ failure = "none" /\ Pending /\ todo # <<>> /\ received \in [Clients -> Seq(Output)]
      /\ \A c \in Clients : ClientInv(c)
  BY WriteCases DEF IInv, clientVars, BaseInv, TypeOK
<1>2. CASE Head(todo).to = {} /\ todo' = Tail(todo) /\ UNCHANGED <<failure, reset, received>>
  <2>1. \A c \in Clients : Due(c)' = Due(c)
    BY <1>1, <1>2, DropJob DEF BaseInv
  <2>2. \A c \in Clients : Live(c)' => Live(c)
    BY <1>1, <1>2 DEF Live
  <2>3. \A c \in Clients : ClientInv(c)'
    BY <1>1, <1>2, <2>1, <2>2, ClientStays
  <2>4. StatusBeforeAck'
    BY <1>1, <1>2 DEF StatusBeforeAck
  <2> QED BY <2>3, <2>4
<1>3. ASSUME NEW c \in Head(todo).to, todo' = [todo EXCEPT ![1].to = @ \ {c}],
             \/ /\ c \in clients /\ conn[c] = "open" /\ failure' = "none"
                /\ received' = [received EXCEPT ![c] = Append(received[c], Head(todo).msg)]
             \/ (conn[c] = "closed" \/ failure' # "none") /\ received' = received
      PROVE  StatusBeforeAck' /\ \A d \in Clients : ClientInv(d)'
  <2> DEFINE m == Head(todo).msg
  <2>1. /\ c \in Clients /\ m \in Due(c) /\ Due(c)' = Due(c) \ {m}
        /\ \A d \in Clients \ {c} : Due(d)' = Due(d)
    BY <1>1, <1>3, DoWrite DEF BaseInv
  <2>2. ASSUME NEW d \in Clients \ {c} PROVE ClientInv(d)'
    <3>1. received'[d] = received[d]
      BY <1>1, <1>3, <2>1
    <3>2. Live(d)' => Live(d)
      BY <1>1 DEF Live
    <3>3. d \in Clients /\ Due(d)' = Due(d)
      BY <2>1
    <3> QED BY <1>1, <3>1, <3>2, <3>3, ClientStays
  <2>3. CASE /\ c \in clients /\ conn[c] = "open" /\ failure' = "none"
             /\ received' = [received EXCEPT ![c] = Append(received[c], m)]
    <3>1. Live(c) /\ Account(c) /\ Informed(c) /\ StatusFirst(c)
      BY <1>1, <2>1, <2>3 DEF Live, ClientInv
    <3>2. received'[c] = Append(received[c], m)
      BY <1>1, <2>1, <2>3
    <3> HIDE DEF m
    <3>3. Account(c)'
      BY <1>1, <2>1, <3>1, <3>2, AccountReceives
    <3>4. Informed(c)' /\ StatusFirst(c)'
      BY <1>1, <2>1, <3>1, <3>2, InformedReceives, StatusReceives
    <3>5. StatusBeforeAck'
      BY <1>1, <2>3, <3>1, StatusThenAck DEF m
    <3> QED BY <2>2, <3>3, <3>4, <3>5 DEF ClientInv
  <2>4. CASE (conn[c] = "closed" \/ failure' # "none") /\ received' = received
    <3>1. ~Live(c)'
      BY <1>1, <2>4 DEF Live
    <3>2. StatusBeforeAck'
      BY <1>1, <2>4 DEF StatusBeforeAck
    <3> QED BY <2>2, <3>1, <3>2 DEF ClientInv
  <2> QED BY <1>3, <2>3, <2>4
<1> QED BY <1>1, <1>2, <1>3, WriteCases DEF IInv

LEMMA AcceptInv ==
    ASSUME IInv, AcceptHandler, NEW c \in Clients
    PROVE  ClientInv(c)'
<1> DEFINE j == [to |-> clients', msg |-> StatusMsg(watches)]
<1>1. /\ todo' = <<j>> /\ published' = published + 1 /\ pc' = "poll" /\ todo = <<>>
      /\ clients' = clients \cup {Head(backlog)}
      /\ UNCHANGED <<failure, queue, conn, sent, inbox, received>> /\ BaseInv /\ ClientInv(c)
      /\ published \in Nat /\ watches \in Nat /\ clients' \subseteq Clients
  BY ServerBase DEF AcceptHandler, Broadcast, Recipients, Idle, IInv, BaseInv, TypeOK, ServerStep
<1>2. /\ StatusMsg(watches) \in Output /\ IsBroadcast(StatusMsg(watches)) /\ ~IsAck(StatusMsg(watches))
      /\ StatusMsg(watches).serial = published'
  <2>1. \A w \in Nat : /\ [kind |-> "status", serial |-> published + 1, watches |-> w] \in Status
                       /\ [kind |-> "status", serial |-> published + 1, watches |-> w].serial = published + 1
    BY <1>1 DEF Status
  <2> QED BY <1>1, <2>1 DEF StatusMsg, IsBroadcast, IsAck, Output
<1>3. j \in Job /\ j.msg = StatusMsg(watches) /\ j.to = clients'
  BY <1>1, <1>2 DEF Job
<1> HIDE DEF j
<1>4. Due(c)' = IF c \in clients' THEN {StatusMsg(watches)} ELSE {}
  BY <1>1, <1>2, <1>3, OneJob
<1>5. DueCasts(c) = {} /\ DueAcks(c) = {} /\ DueAcks(c)' = {}
  BY <1>1, <1>2, <1>4, NothingDue DEF DueAcks, DueCasts
<1> SUFFICES ASSUME Live(c)'
             PROVE  Account(c)' /\ (c \in clients' => Informed(c)' /\ StatusFirst(c)')
  BY DEF ClientInv
<1>6. Live(c) /\ Account(c)
  BY <1>1 DEF Live, ClientInv
<1>7. Account(c)'
  BY <1>1, <1>5, <1>6, AccountStays
<1>8. ASSUME c \in clients' PROVE Informed(c)' /\ StatusFirst(c)'
  <2>1. /\ \A x \in Due(c)' : IsBroadcast(x) => x.serial = published'
        /\ \E x \in Due(c)' : IsBroadcast(x)
    BY <1>2, <1>4, <1>8
  <2>2. CASE c \in clients
    <3>1. Informed(c)
      BY <1>1, <1>6, <2>2 DEF ClientInv
    <3>2. Informed(c)'
      BY <1>1, <1>5, <2>1, <3>1, InformedPublishes
    <3> QED BY <1>5, <3>2 DEF StatusFirst
  <2>3. CASE c \notin clients
    <3>1. received[c] = <<>>
      BY <1>1, <1>6, <2>3 DEF Live, BaseInv, Sources
    <3>2. Informed(c)'
      BY <1>1, <2>1, <3>1, InformedJoins
    <3> QED BY <1>5, <3>2 DEF StatusFirst
  <2> QED BY <2>2, <2>3
<1> QED BY <1>7, <1>8

LEMMA ReadInv ==
    ASSUME IInv, NEW d \in Clients, AsyncReadHandler(d), NEW c \in Clients
    PROVE  ClientInv(c)'
<1>1. /\ UNCHANGED <<failure, clients, todo, published, conn, sent, received>> /\ BaseInv /\ ClientInv(c)
      /\ Due(c)' = Due(c)
  BY DEF AsyncReadHandler, IInv, Due
<1> SUFFICES ASSUME Live(c)'
             PROVE  Account(c)' /\ (c \in clients' => Informed(c)' /\ StatusFirst(c)')
  BY DEF ClientInv
<1>2. Account(c) /\ (c \in clients => Informed(c) /\ StatusFirst(c))
  BY <1>1 DEF Live, ClientInv
<1>3. Account(c)'
  <2>1. CASE c = d
    BY <1>1, <1>2, <2>1, AccountReads
  <2>2. CASE c # d
    BY <1>1, <1>2, <2>2, AccountOthersRead
  <2> QED BY <2>1, <2>2
<1>4. DueCasts(c)' = DueCasts(c)
  BY <1>1 DEF DueCasts
<1> QED BY <1>1, <1>2, <1>3, <1>4, InformedStays, StatusStays

LEMMA ParseInv ==
    ASSUME IInv, ParseMessage, NEW c \in Clients
    PROVE  ClientInv(c)'
<1> DEFINE m == Head(queue)
<1>1. /\ BaseInv /\ ClientInv(c) /\ queue # <<>> /\ m \in Command /\ todo = <<>>
      /\ pc' # "consume" /\ (pc' = "clips" => m.cmd = "raw")
      /\ UNCHANGED <<failure, clients, conn, sent, inbox, received>> /\ queue' = Tail(queue)
      /\ IF m.cmd = "fact" THEN todo' = <<>> /\ published' = published
         ELSE \E w \in Nat : Answering(m, w) /\ (m.cmd = "watch" => Telling(m, w))
  BY ParseEffect DEF IInv, BaseInv, clientVars
<1> HIDE DEF m
<1> SUFFICES ASSUME Live(c)'
             PROVE  Account(c)' /\ (c \in clients' => Informed(c)' /\ StatusFirst(c)')
  BY DEF ClientInv
<1>2. Account(c) /\ (c \in clients => Informed(c)) /\ Due(c) = {} /\ DueCasts(c) = {}
  BY <1>1, NothingDue DEF Live, ClientInv, DueCasts
<1>3. CASE m.cmd = "fact"
  <2>1. Due(c)' = {} /\ DueAcks(c)' = {} /\ DueCasts(c)' = {}
    BY <1>1, <1>3 DEF Due, DueAcks, DueCasts
  <2>2. Account(c)'
    <3>1. CASE m.src = c
      BY <1>1, <1>2, <1>3, <2>1, <3>1, AccountParses DEF m
    <3>2. CASE m.src # c
      BY <1>1, <1>2, <2>1, <3>2, AccountOthersParse DEF m
    <3> QED BY <3>1, <3>2
  <2>3. c \in clients => Informed(c)'
    BY <1>1, <1>2, <1>3, <2>1, InformedStays
  <2> QED BY <1>1, <2>1, <2>2, <2>3 DEF StatusFirst
<1>4. CASE m.cmd # "fact"
  <2>1. PICK w \in Nat : Answering(m, w) /\ (m.cmd = "watch" => Telling(m, w))
    BY <1>1, <1>4
  <2> DEFINE a == AckOf(m, w)
  <2>2. /\ published' \in {published, published + 1} /\ Due(c)' \subseteq Output
        /\ a \in Due(c)' <=> c = m.src
        /\ \A x \in Due(c)' : IsAck(x) => x = a
        /\ \A x \in Due(c)' : IsBroadcast(x) => published' = published + 1 /\ x.serial = published'
        /\ c \in clients /\ published' # published
              => \E x \in Due(c)' : IsBroadcast(x) /\ x.serial = published'
        /\ Telling(m, w) => \A d \in clients : \E s \in Due(d)' : s.kind = "status" /\ s.watches = w
    BY <1>1, <2>1, AnsweringDue DEF BaseInv
  <2>3. IsAck(a) /\ a.n = m.n /\ a.cmd = m.cmd /\ a.watches = w
    BY <1>1, MessagesBuilt DEF BaseInv, TypeOK
  <2> HIDE DEF a
  <2>4. Account(c)'
    <3>1. CASE m.src = c
      BY <1>1, <1>2, <1>4, <2>2, <2>3, <3>1, AccountParses DEF m
    <3>2. CASE m.src # c
      BY <1>1, <1>2, <2>2, <3>2, AccountOthersParse DEF m
    <3> QED BY <3>1, <3>2
  <2>5. ASSUME c \in clients PROVE Informed(c)'
    <3>1. CASE published' = published
      <4>1. published # published + 1
        BY <1>1 DEF BaseInv, TypeOK
      <4>2. DueCasts(c)' = {}
        BY <2>2, <3>1, <4>1 DEF DueCasts
      <4> QED BY <1>1, <1>2, <2>5, <3>1, <4>2, InformedStays
    <3>2. CASE published' # published
      BY <1>1, <1>2, <2>2, <2>5, <3>2, InformedPublishes
    <3> QED BY <3>1, <3>2
  <2>6. ASSUME c \in clients PROVE StatusFirst(c)'
    <3>1. \A x \in DueAcks(c)' : x = a
      BY <2>2 DEF DueAcks
    <3>2. m.cmd = "watch" => \E s \in Due(c)' : s.kind = "status" /\ s.watches = w
      BY <2>1, <2>2, <2>6
    <3> QED BY <2>3, <3>1, <3>2 DEF StatusFirst
  <2> QED BY <1>1, <2>4, <2>5, <2>6
<1> QED BY <1>3, <1>4

\* While CLIPS runs: what it writes comes before the acknowledgement that is due.
LEMMA ClipsInv ==
    ASSUME IInv, ClipsStep, NEW c \in Clients
    PROVE  ClientInv(c)'
<1>1. /\ UNCHANGED <<clients, queue, conn, sent, inbox, received>> /\ BaseInv /\ ClientInv(c)
      /\ failure = "none" /\ published \in Nat
  BY ClipsCases DEF IInv, BaseInv, TypeOK, clientVars
<1>2. /\ DueAcks(c)' = DueAcks(c) /\ DueCasts(c) = {} /\ \A x \in DueAcks(c)' : x.cmd = "raw"
      /\ published' \in {published, published + 1} /\ (published' = published => DueCasts(c)' = {})
      /\ \A x \in Due(c)' : IsBroadcast(x) => x.serial = published'
      /\ c \in clients /\ published' # published => \E x \in Due(c)' : IsBroadcast(x)
  BY <1>1, ClipsDue DEF BaseInv
<1> SUFFICES ASSUME Live(c)'
             PROVE  Account(c)' /\ (c \in clients' => Informed(c)' /\ StatusFirst(c)')
  BY DEF ClientInv
<1>3. Account(c) /\ (c \in clients => Informed(c))
  BY <1>1 DEF Live, ClientInv
<1>4. Account(c)'
  BY <1>1, <1>2, <1>3, AccountStays
<1>5. ASSUME c \in clients PROVE Informed(c)'
  <2>1. CASE published' = published
    BY <1>1, <1>2, <1>3, <1>5, <2>1, InformedStays
  <2>2. CASE published' # published
    BY <1>1, <1>2, <1>3, <1>5, <2>2, InformedPublishes
  <2> QED BY <2>1, <2>2
<1>6. StatusFirst(c)'
  BY <1>2 DEF StatusFirst
<1> QED BY <1>1, <1>4, <1>5, <1>6

LEMMA IInvStep == IInv /\ [Next]_vars => IInv'
<1> SUFFICES ASSUME IInv, [Next]_vars PROVE IInv'
  OBVIOUS
<1>1. BaseInv'
  BY BaseStep DEF IInv
<1>2. ASSUME UNCHANGED <<failure, queue, todo, published, conn, sent, inbox, received>>,
             clients' \subseteq clients, NEW c \in Clients
      PROVE  ClientInv(c)'
  <2>1. Due(c)' = Due(c)
    BY <1>2 DEF Due
  <2> QED BY <1>2, <2>1, ClientStays DEF IInv, Live
<1>3. ASSUME received' = received PROVE StatusBeforeAck'
  BY <1>3 DEF IInv, StatusBeforeAck
<1>4. CASE UNCHANGED vars
  BY <1>1, <1>2, <1>3, <1>4 DEF IInv, vars, clientVars
<1>5. ASSUME NEW d \in Clients, ClientStep(d) PROVE IInv'
  <2>1. received' = received
    BY <1>5 DEF ClientStep, Connect, SendMessage, ClientReads, Disconnect
  <2> QED BY <1>1, <1>3, <1>5, <2>1, ClientStepInv DEF IInv
<1>6. CASE Write
  BY <1>1, <1>6, WriteInv DEF IInv
<1>7. CASE AcceptHandler
  BY <1>1, <1>3, <1>7, AcceptInv DEF IInv, AcceptHandler
<1>8. CASE EndPoll
  BY <1>1, <1>2, <1>3, <1>8 DEF IInv, EndPoll, clientVars
<1>9. CASE ParseMessage
  <2>1. received' = received
    BY <1>9, ParseEffect DEF IInv, BaseInv
  <2> QED BY <1>1, <1>3, <1>9, <2>1, ParseInv DEF IInv
<1>10. ASSUME NEW d \in Clients, AsyncReadHandler(d) PROVE IInv'
  <2>1. received' = received
    BY <1>10 DEF AsyncReadHandler
  <2> QED BY <1>1, <1>3, <1>10, <2>1, ReadInv DEF IInv
<1>11. ASSUME NEW d \in Clients, ReadErrorHandler(d) PROVE IInv'
  BY <1>1, <1>2, <1>3, <1>11 DEF IInv, ReadErrorHandler, clientVars
<1>12. CASE ClipsStep
  <2>1. received' = received
    BY <1>12, ClipsCases DEF IInv, BaseInv
  <2> QED BY <1>1, <1>3, <1>12, <2>1, ClipsInv DEF IInv
<1>13. CASE ServerStep
  BY <1>6, <1>7, <1>8, <1>9, <1>10, <1>11, <1>13 DEF ServerStep
<1> QED BY <1>4, <1>5, <1>12, <1>13 DEF Next

LEMMA IInvInit == Init => IInv
<1> SUFFICES ASSUME Init PROVE IInv
  OBVIOUS
<1>1. TypeOK
  <2>1. \A S : <<>> \in Seq(S)
    BY EmptySeq
  <2> QED BY <2>1, ServerConstants DEF Init, TypeOK
<1>2. TodoShape /\ Sources /\ StatusBeforeAck
  BY DEF Init, TodoShape, Sources, StatusBeforeAck
<1>3. ASSUME NEW c \in Clients PROVE ClientInv(c)
  <2>1. /\ Len(sent[c]) = 0 /\ Len(inbox[c]) = 0 /\ DOMAIN inbox[c] = {} /\ DOMAIN received[c] = {}
        /\ DOMAIN queue = {} /\ DOMAIN todo = {} /\ clients = {}
    BY DEF Init
  <2>2. ReadUpTo(c) = 0 /\ Mine(c) = {} /\ Acks(c) = {} /\ DueAcks(c) = {}
    BY <2>1 DEF ReadUpTo, Mine, Acks, DueAcks, Due
  <2>3. Unread(c) /\ Queued(c, 0) /\ Answered(c, 0)
    BY <2>1, <2>2 DEF Unread, Queued, Answered
  <2> QED BY <2>1, <2>2, <2>3 DEF ClientInv, Account
<1> QED BY <1>1, <1>2, <1>3 DEF IInv, BaseInv

THEOREM Invariance == Spec => []IInv
BY IInvInit, IInvStep, PTL DEF Spec

-----------------------------------------------------------------------------
(* What the invariant says of the properties.                              *)

\* What is delivered: what has been received, then what is due.
LEMMA DeliveredMembers ==
    ASSUME BaseInv, NEW c \in Clients
    PROVE  LET n == Len(received[c])
               d == Delivered(c)
           IN  /\ n \in Nat /\ DOMAIN received[c] = 1 .. n /\ DOMAIN d = 1 .. n + Len(todo)
               /\ \A i \in 1 .. n : d[i] = received[c][i]
               /\ \A k \in 1 .. Len(todo) :
                     d[n + k] = IF c \in todo[k].to THEN todo[k].msg ELSE Nothing
<1> DEFINE f == [k \in DOMAIN todo |-> IF c \in todo[k].to THEN todo[k].msg ELSE Nothing]
           S == Output \cup {Nothing}
<1>1. received[c] \in Seq(S)
  BY DEF BaseInv, TypeOK
<1>2. Len(todo) \in Nat /\ DOMAIN todo = 1 .. Len(todo) /\ \A k \in DOMAIN todo : todo[k].msg \in Output
  BY TodoMembers DEF BaseInv
<1>3. f \in Seq(S) /\ Len(f) = Len(todo) /\ \A k \in 1 .. Len(todo) : f[k] = IF c \in todo[k].to THEN todo[k].msg ELSE Nothing
  <2>1. f \in [1 .. Len(todo) -> S]
    BY <1>2
  <2>2. f \in Seq(S) /\ Len(f) = Len(todo)
    BY <1>2, <2>1
  <2> QED BY <1>2, <2>2
<1>4. Delivered(c) = received[c] \o f
  BY DEF Delivered
<1> HIDE DEF f, S
<1>5. /\ Len(received[c]) \in Nat /\ DOMAIN received[c] = 1 .. Len(received[c])
      /\ received[c] \o f \in Seq(S)
      /\ Len(received[c] \o f) = Len(received[c]) + Len(todo)
      /\ \A i \in 1 .. Len(received[c]) + Len(todo) :
            (received[c] \o f)[i] = IF i <= Len(received[c]) THEN received[c][i] ELSE f[i - Len(received[c])]
  <2>1. Len(received[c]) \in Nat /\ DOMAIN received[c] = 1 .. Len(received[c])
    BY <1>1, LenProperties
  <2>2. f \in Seq(S) /\ Len(f) = Len(todo)
    BY <1>3
  <2>3. /\ received[c] \o f \in Seq(S)
        /\ Len(received[c] \o f) = Len(received[c]) + Len(f)
        /\ \A i \in 1 .. Len(received[c]) + Len(f) :
              (received[c] \o f)[i] = IF i <= Len(received[c]) THEN received[c][i] ELSE f[i - Len(received[c])]
    BY <1>1, <2>2, ConcatProperties
  <2> QED BY <2>1, <2>2, <2>3
<1>6. DOMAIN (received[c] \o f) = 1 .. Len(received[c]) + Len(todo)
  BY <1>5, LenProperties
<1>7. \A i \in 1 .. Len(received[c]) : (received[c] \o f)[i] = received[c][i]
  BY <1>2, <1>5
<1>8. ASSUME NEW k \in 1 .. Len(todo) PROVE (received[c] \o f)[Len(received[c]) + k] = f[k]
  <2>1. /\ Len(received[c]) + k \in 1 .. Len(received[c]) + Len(todo)
        /\ ~(Len(received[c]) + k <= Len(received[c])) /\ (Len(received[c]) + k) - Len(received[c]) = k
    BY <1>2, <1>5
  <2> QED BY <1>5, <2>1
<1> QED BY <1>3, <1>4, <1>5, <1>6, <1>7, <1>8

\* Positions behind what has been received hold what is due, and no two of them an
\* acknowledgement, no two of them a broadcast.
LEMMA DeliveredTail ==
    ASSUME BaseInv, NEW c \in Clients
    PROVE  LET n == Len(received[c])
               d == Delivered(c)
           IN  /\ \A i \in DOMAIN d : /\ i \in Nat
                                      /\ \/ i \in DOMAIN received[c] /\ d[i] = received[c][i] /\ ~(n < i)
                                         \/ n < i /\ (d[i] \in Due(c) \/ d[i] = Nothing)
               /\ \A i, j \in DOMAIN d : /\ n < i /\ n < j /\ IsAck(d[i]) /\ IsAck(d[j]) => i = j
                                         /\ n < i /\ n < j /\ IsBroadcast(d[i]) /\ IsBroadcast(d[j]) => i = j
               /\ \A i \in DOMAIN received[c] : i \in DOMAIN d /\ d[i] = received[c][i]
               /\ \A m \in Due(c) : \E i \in DOMAIN d : n < i /\ d[i] = m
<1> DEFINE n == Len(received[c])
           d == Delivered(c)
<1>1. /\ n \in Nat /\ DOMAIN received[c] = 1 .. n /\ DOMAIN d = 1 .. n + Len(todo)
      /\ \A i \in 1 .. n : d[i] = received[c][i]
      /\ \A k \in 1 .. Len(todo) : d[n + k] = IF c \in todo[k].to THEN todo[k].msg ELSE Nothing
  BY DeliveredMembers
<1> HIDE DEF n, d
<1>2. Len(todo) \in Nat /\ DOMAIN todo = 1 .. Len(todo)
  BY TodoMembers DEF BaseInv
<1>3. \A k \in 1 .. Len(todo) : c \in todo[k].to => todo[k].msg \in Due(c)
  BY <1>2, DueMembers DEF BaseInv
<1>4. ASSUME NEW i \in DOMAIN d, n < i
      PROVE  \E k \in 1 .. Len(todo) : i = n + k
  <2>1. i - n \in 1 .. Len(todo) /\ i = n + (i - n)
    BY <1>1, <1>2, <1>4
  <2> QED BY <2>1
<1>5. ~IsAck(Nothing) /\ ~IsBroadcast(Nothing)
  BY DEF Nothing, IsAck, IsBroadcast
<1>6. ASSUME NEW i \in DOMAIN d
      PROVE  /\ i \in Nat
             /\ \/ i \in DOMAIN received[c] /\ d[i] = received[c][i] /\ ~(n < i)
                \/ n < i /\ (d[i] \in Due(c) \/ d[i] = Nothing)
  <2>1. i \in Nat /\ 1 <= i
    BY <1>1, <1>2
  <2>2. CASE n < i
    <3>1. PICK k \in 1 .. Len(todo) : i = n + k
      BY <1>4, <2>2
    <3> QED BY <1>1, <1>3, <2>1, <2>2, <3>1
  <2>3. CASE ~(n < i)
    <3>1. i \in 1 .. n
      BY <1>1, <2>1, <2>3
    <3> QED BY <1>1, <2>1, <2>3, <3>1
  <2> QED BY <2>2, <2>3
<1>7. ASSUME NEW i \in DOMAIN d, NEW j \in DOMAIN d, n < i, n < j,
             \/ IsAck(d[i]) /\ IsAck(d[j])
             \/ IsBroadcast(d[i]) /\ IsBroadcast(d[j])
      PROVE  i = j
  <2>1. PICK k \in 1 .. Len(todo) : i = n + k
    BY <1>4, <1>7
  <2>2. PICK l \in 1 .. Len(todo) : j = n + l
    BY <1>4, <1>7
  <2>3. d[i] = todo[k].msg /\ d[j] = todo[l].msg
    BY <1>1, <1>5, <1>7, <2>1, <2>2
  <2>4. \A m : IsBroadcast(m) => ~IsAck(m)
    BY DEF IsBroadcast, IsAck
  <2>5. k = l
    BY <1>2, <1>7, <2>3, <2>4 DEF BaseInv, TodoShape
  <2> QED BY <2>1, <2>2, <2>5
<1>8. \A i \in DOMAIN received[c] : i \in DOMAIN d /\ d[i] = received[c][i]
  BY <1>1, <1>2
<1>9. ASSUME NEW m \in Due(c) PROVE \E i \in DOMAIN d : n < i /\ d[i] = m
  <2>1. PICK k \in 1 .. Len(todo) : c \in todo[k].to /\ todo[k].msg = m
    BY <1>2, DueMembers DEF BaseInv
  <2>2. n + k \in DOMAIN d /\ n < n + k
    BY <1>1, <1>2
  <2> QED BY <1>1, <2>1, <2>2
<1> QED BY <1>6, <1>7, <1>8, <1>9 DEF n, d

\* The acknowledgements delivered to c are those of the account, ascending.
LEMMA DeliveredAcks ==
    ASSUME BaseInv, NEW c \in Clients, NEW p \in Nat, Answered(c, p)
    PROVE  LET d == Delivered(c)
               acks == {i \in DOMAIN d : IsAck(d[i])}
           IN  /\ \A i, j \in acks : i < j => d[i].n < d[j].n
               /\ {d[i].n : i \in acks} = {n \in 1 .. p : sent[c][n].cmd # "fact"}
<1> DEFINE l == Len(received[c])
           d == Delivered(c)
           acks == {i \in DOMAIN d : IsAck(d[i])}
<1>1. \A i \in acks : \/ i \in Acks(c) /\ d[i] = received[c][i] /\ ~(l < i)
                      \/ l < i /\ d[i] \in DueAcks(c)
  <2>1. ~IsAck(Nothing)
    BY DEF Nothing, IsAck
  <2> QED BY <2>1, DeliveredTail DEF Acks, DueAcks
<1>2. \A i \in Acks(c) : i \in acks /\ d[i] = received[c][i]
  BY DeliveredTail DEF Acks
<1>3. \A m \in DueAcks(c) : \E i \in acks : d[i] = m
  BY DeliveredTail DEF DueAcks
<1>4. \A i, j \in acks : l < i /\ l < j => i = j
  BY DeliveredTail
<1>5. \A i \in acks : i \in Nat
  BY DeliveredTail
<1>6. l \in Nat
  BY DeliveredMembers
<1> HIDE DEF l, d, acks
<1>7. ASSUME NEW i \in acks, NEW j \in acks, i < j PROVE d[i].n < d[j].n
  <2>1. CASE j \in Acks(c) /\ d[j] = received[c][j] /\ ~(l < j)
    <3>1. ~(l < i)
      BY <1>5, <1>6, <1>7, <2>1
    <3>2. i \in Acks(c) /\ d[i] = received[c][i]
      BY <1>1, <3>1
    <3> QED BY <1>7, <2>1, <3>2 DEF Answered
  <2>2. CASE l < j /\ d[j] \in DueAcks(c)
    <3>1. ~(l < i)
      BY <1>4, <1>5, <1>7, <2>2
    <3>2. i \in Acks(c) /\ d[i] = received[c][i]
      BY <1>1, <3>1
    <3> QED BY <2>2, <3>2 DEF Answered
  <2> QED BY <1>1, <2>1, <2>2
<1>8. \A i \in acks : d[i].n \in 1 .. p /\ sent[c][d[i].n].cmd # "fact"
  BY <1>1 DEF Answered, Answers
<1>9. \A n \in 1 .. p : sent[c][n].cmd # "fact" => \E i \in acks : d[i].n = n
  BY <1>2, <1>3 DEF Answered, Answers
<1>10. {d[i].n : i \in acks} = {n \in 1 .. p : sent[c][n].cmd # "fact"}
  BY <1>8, <1>9
<1> QED BY <1>7, <1>10 DEF d, acks

\* The same for broadcasts.
LEMMA DeliveredCasts ==
    ASSUME BaseInv, NEW c \in Clients, NEW first \in 1 .. published, CastsFrom(c, first)
    PROVE  LET d == Delivered(c)
               casts == {i \in DOMAIN d : IsBroadcast(d[i])}
           IN  /\ \A i, j \in casts : i < j => d[i].serial < d[j].serial
               /\ {d[i].serial : i \in casts} = first .. published
<1> DEFINE l == Len(received[c])
           d == Delivered(c)
           casts == {i \in DOMAIN d : IsBroadcast(d[i])}
<1>1. \A i \in casts : \/ i \in Casts(c) /\ d[i] = received[c][i] /\ ~(l < i)
                       \/ l < i /\ d[i] \in DueCasts(c)
  <2>1. ~IsBroadcast(Nothing)
    BY DEF Nothing, IsBroadcast
  <2> QED BY <2>1, DeliveredTail DEF Casts, DueCasts
<1>2. \A i \in Casts(c) : i \in casts /\ d[i] = received[c][i]
  BY DeliveredTail DEF Casts
<1>3. \A m \in DueCasts(c) : \E i \in casts : d[i] = m
  BY DeliveredTail DEF DueCasts
<1>4. \A i, j \in casts : l < i /\ l < j => i = j
  BY DeliveredTail
<1>5. \A i \in casts : i \in Nat
  BY DeliveredTail
<1>6. l \in Nat
  BY DeliveredMembers
<1> HIDE DEF l, d, casts
<1>7. ASSUME NEW i \in casts, NEW j \in casts, i < j PROVE d[i].serial < d[j].serial
  <2>1. CASE j \in Casts(c) /\ d[j] = received[c][j] /\ ~(l < j)
    <3>1. ~(l < i)
      BY <1>5, <1>6, <1>7, <2>1
    <3>2. i \in Casts(c) /\ d[i] = received[c][i]
      BY <1>1, <3>1
    <3> QED BY <1>7, <2>1, <3>2 DEF CastsFrom
  <2>2. CASE l < j /\ d[j] \in DueCasts(c)
    <3>1. ~(l < i)
      BY <1>4, <1>5, <1>7, <2>2
    <3>2. i \in Casts(c) /\ d[i] = received[c][i]
      BY <1>1, <3>1
    <3> QED BY <2>2, <3>2 DEF CastsFrom
  <2> QED BY <1>1, <2>1, <2>2
<1>8. \A i \in casts : d[i].serial \in first .. published
  <2>1. published \in first .. published
    BY CastNumbers
  <2> QED BY <1>1, <2>1 DEF CastsFrom
<1>9. \A s \in first .. published : \E i \in casts : d[i].serial = s
  BY <1>2, <1>3 DEF CastsFrom
<1>10. {d[i].serial : i \in casts} = first .. published
  BY <1>8, <1>9
<1> QED BY <1>7, <1>10 DEF d, casts

\* The unread messages are the last that were sent.
LEMMA UnreadTail ==
    ASSUME BaseInv, NEW c \in Clients, Unread(c)
    PROVE  inbox[c] = SubSeq(sent[c], ReadUpTo(c) + 1, Len(sent[c]))
<1> DEFINE q == ReadUpTo(c)
           l == Len(inbox[c])
           k == Len(sent[c])
           s == SubSeq(sent[c], q + 1, k)
<1>1. /\ sent[c] \in Seq(Command) /\ inbox[c] \in Seq(Command) /\ l \in Nat /\ k \in Nat
      /\ l <= k /\ q = k - l /\ q \in Nat
  BY AccountNumbers DEF Unread, ReadUpTo
<1>2. /\ s \in Seq(Command) /\ Len(s) = l
      /\ \A i \in 1 .. l : s[i] = sent[c][q + i]
  <2> HIDE DEF q, l
  <2>1. q + 1 \in 1 .. k + 1 /\ k \in q .. k
    BY <1>1
  <2>2. \A i \in q + 1 .. k : sent[c][i] \in Command
    BY <1>1
  <2>3. /\ s \in Seq(Command) /\ Len(s) = IF q + 1 <= k THEN k - (q + 1) + 1 ELSE 0
        /\ \A i \in 1 .. k - (q + 1) + 1 : s[i] = sent[c][q + 1 + i - 1]
    BY <1>1, <2>1, <2>2, SubSeqProperties
  <2>4. k - (q + 1) + 1 = l /\ (~(q + 1 <= k) => l = 0) /\ \A i \in 1 .. l : q + 1 + i - 1 = q + i
    BY <1>1
  <2> QED BY <2>3, <2>4
<1>3. \A i \in 1 .. l : inbox[c][i] = s[i]
  BY <1>2, AccountNumbers DEF Unread
<1> HIDE DEF s, l
<1>4. Len(inbox[c]) = l
  BY DEF l
<1> QED BY <1>1, <1>2, <1>3, <1>4, SeqEqual DEF s

-----------------------------------------------------------------------------
(* Theorems.                                                               *)

\* Type correctness: whatever clients do, the queue holds commands, connections
\* carry outputs and the handlers write to clients.
THEOREM TypeCorrect == Spec => []TypeOK
<1>1. IInv => TypeOK
  BY DEF IInv, BaseInv
<1> QED BY <1>1, Invariance, PTL

\* acknowledgeMessage(): the commands of a connected client are acknowledged once
\* each and in the order in which it sent them, for any number of clients that
\* connect, send and leave meanwhile.
THEOREM CommandsAnsweredInOrder == Spec => []AnsweredInOrder
<1>1. IInv => AnsweredInOrder
  <2> SUFFICES ASSUME IInv, NEW c \in Clients, Alive(c)
               PROVE  LET d == Delivered(c)
                          acks == {i \in DOMAIN d : IsAck(d[i])}
                          mine == {i \in DOMAIN queue : queue[i].src = c}
                      IN  /\ \A i, j \in acks : i < j => d[i].n < d[j].n
                          /\ \A i, j \in mine : i < j => queue[i].n < queue[j].n
                          /\ \E p, q \in 0 .. Len(sent[c]) :
                                /\ {d[i].n : i \in acks} = {n \in 1 .. p : sent[c][n].cmd # "fact"}
                                /\ {queue[i].n : i \in mine} = p + 1 .. q
                                /\ inbox[c] = SubSeq(sent[c], q + 1, Len(sent[c]))
    BY DEF AnsweredInOrder
  <2> DEFINE q == ReadUpTo(c)
  <2>1. BaseInv /\ Account(c)
    BY DEF IInv, ClientInv, Alive, Live
  <2>2. PICK p \in 0 .. q : Queued(c, p) /\ Answered(c, p)
    BY <2>1 DEF Account
  <2>3. q \in 0 .. Len(sent[c]) /\ Len(sent[c]) \in Nat
    <3>1. Len(sent[c]) \in Nat /\ Len(inbox[c]) \in Nat /\ Len(inbox[c]) <= Len(sent[c])
      BY <2>1, AccountNumbers DEF Account, Unread
    <3>2. q = Len(sent[c]) - Len(inbox[c])
      BY DEF ReadUpTo
    <3> HIDE DEF q
    <3>3. \A k, l \in Nat : l <= k => k - l \in 0 .. k
      OBVIOUS
    <3> QED BY <3>1, <3>2, <3>3
  <2>4. inbox[c] = SubSeq(sent[c], q + 1, Len(sent[c]))
    BY <2>1, UnreadTail DEF Account
  <2> HIDE DEF q
  <2>5. p \in 0 .. Len(sent[c]) /\ p \in Nat
    BY <2>3
  <2>6. \A i \in Mine(c) : queue[i].n \in p + 1 .. q
    <3>1. \A i \in Mine(c) : queue[i].n \in Nat /\ p < queue[i].n /\ queue[i].n <= q
      BY <2>1, <2>2, AccountNumbers DEF Queued, Mine, q
    <3> QED BY <2>3, <2>5, <3>1
  <2>7. {queue[i].n : i \in Mine(c)} = p + 1 .. q
    BY <2>2, <2>6 DEF Queued, q
  <2>8. \A i, j \in Mine(c) : i < j => queue[i].n < queue[j].n
    BY <2>2 DEF Queued
  <2> QED BY <2>1, <2>2, <2>3, <2>4, <2>5, <2>7, <2>8, DeliveredAcks DEF Mine
<1> QED BY <1>1, Invariance, PTL

\* broadcast() and publishStatus(): every connected client receives every broadcast
\* from its acceptance on, once and in the same order.
THEOREM BroadcastsAreComplete == Spec => []BroadcastComplete
<1>1. IInv => BroadcastComplete
  <2> SUFFICES ASSUME IInv, NEW c \in clients, Alive(c)
               PROVE  LET d == Delivered(c)
                          casts == {i \in DOMAIN d : IsBroadcast(d[i])}
                      IN  /\ \A i, j \in casts : i < j => d[i].serial < d[j].serial
                          /\ \E first \in 1 .. published : {d[i].serial : i \in casts} = first .. published
    BY DEF BroadcastComplete
  <2>1. BaseInv /\ c \in Clients
    BY DEF IInv, BaseInv, TypeOK
  <2>2. Informed(c)
    BY <2>1 DEF IInv, ClientInv, Alive, Live
  <2>3. PICK first \in 1 .. published : CastsFrom(c, first)
    BY <2>2 DEF Informed
  <2> QED BY <2>1, <2>3, DeliveredCasts
<1> QED BY <1>1, Invariance, PTL

\* handleWatch(): the status that tells the effect of a "watch" command reaches its
\* client before the acknowledgement, with no other status between them.
THEOREM StatusGoesFirst == Spec => []StatusBeforeAck
<1>1. IInv => StatusBeforeAck
  BY DEF IInv
<1> QED BY <1>1, Invariance, PTL
=============================================================================
