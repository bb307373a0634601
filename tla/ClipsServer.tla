----------------------------- MODULE ClipsServer -----------------------------
(***************************************************************************)
(* The TCP server (server.cpp, session.cpp, main.cpp).                     *)
(*                                                                         *)
(* One thread runs everything: run() polls the handlers that are ready     *)
(* until none is, then takes ONE message off the queue and executes it.    *)
(* A handler is one action, followed by the blocking writes it makes, one  *)
(* action each (todo): clients read, send and leave between two of them.   *)
(*                                                                         *)
(* A message is whole here, Framing has the bytes.  Of CLIPS there is what *)
(* a run does to the server: it broadcasts, sends texts, changes watches,  *)
(* in any mix, and then returns, exits the process, or goes on for ever.   *)
(***************************************************************************)
EXTENDS Naturals, Sequences, FiniteSets, SequencesExt

CONSTANTS Clients,    \* remote endpoints; each connects at most once
          Commands,   \* kinds of message each client sends, see Command
          MaxSent,    \* bound: messages sent by each client, a function
          AllSent,    \* bound: messages sent by all of them
          SendBuffer, \* messages a connection holds that its client has not read
          MaxEffects  \* bound: what the runs of CLIPS do that the server sees

Kinds == {"watch", "path", "raw", "fact"}

ASSUME ServerConstants ==
    /\ Commands \in [Clients -> SUBSET Kinds]
    /\ MaxSent \in [Clients -> Nat] /\ AllSent \in Nat
    /\ SendBuffer \in Nat \ {0} /\ MaxEffects \in Nat

\* The n-th message of a client: a "watch" command that names a watch, a "path"
\* command, any other command, or a text to be asserted as a fact.
Command == [src : Clients, n : Nat \ {0}, cmd : Kinds]

\* What a client receives.  serial numbers the broadcasts; an acknowledgement tells
\* how many changes there were when its handler began to run CLIPS or was done.
Status == [kind : {"status"}, serial : Nat, watches : Nat]
Cast   == [kind : {"cast"}, serial : Nat]
Text   == [kind : {"text"}]
Ack    == [kind : {"ack"}, n : Nat \ {0}, cmd : Kinds, watches : Nat]
Output == Status \cup Cast \cup Text \cup Ack

VARIABLES failure,   \* "none", or what ended the process
          pc,        \* run(): polling, about to take a message, or in CLIPS
          effects,   \* number of those of CLIPS so far
          clients,   \* the endpoints that have a session
          queue,     \* Server::queue
          todo,      \* writes the current handler still has to make
          watches,   \* number of changes of the watches and of the path
          published, \* broadcasts begun so far
          conn,      \* per client: "none", "open", "closed" at the client's end
          reset,     \* closed connections whose end answered, or will, with a reset
          backlog,   \* connections not accepted yet
          sent,      \* per client: the messages it sent
          inbox,     \* per client: those the server has not read
          received,  \* per client: everything written to its connection
          read       \* per client: how much of it the client has read

clientVars == <<conn, backlog, sent, inbox, read>>
clipsVars  == <<effects, watches>>
vars == <<failure, pc, clients, queue, todo, clipsVars, published, clientVars, reset, received>>

TypeOK ==
    /\ failure \in {"none", "nullSession", "write", "exit"}
    /\ pc \in {"poll", "consume", "clips"}
    /\ effects \in 0 .. MaxEffects
    /\ clients \subseteq Clients
    /\ queue \in Seq(Command)
    /\ todo \in Seq([to : SUBSET Clients, msg : Output])
    /\ watches \in Nat /\ published \in Nat
    /\ conn \in [Clients -> {"none", "open", "closed"}]
    /\ reset \subseteq Clients
    /\ backlog \in Seq(Clients)
    /\ sent \in [Clients -> Seq(Command)]
    /\ inbox \in [Clients -> Seq(Command)]
    /\ received \in [Clients -> Seq(Output)]
    /\ read \in [Clients -> Nat]

Init ==
    /\ failure = "none"
    /\ pc = "poll"
    /\ clients = {}
    /\ queue = <<>>
    /\ todo = <<>>
    /\ effects = 0 /\ watches = 0 /\ published = 0
    /\ conn = [c \in Clients |-> "none"]
    /\ reset = {}
    /\ backlog = <<>>
    /\ sent = [c \in Clients |-> <<>>]
    /\ inbox = [c \in Clients |-> <<>>]
    /\ received = [c \in Clients |-> <<>>]
    /\ read = [c \in Clients |-> 0]

-----------------------------------------------------------------------------
(* The clients.                                                            *)

Connect(c) ==
    /\ conn[c] = "none"
    /\ conn' = [conn EXCEPT ![c] = "open"]
    /\ backlog' = Append(backlog, c)
    /\ UNCHANGED <<failure, pc, clients, queue, todo, clipsVars, published, reset, sent, inbox, received, read>>

SendMessage(c) ==
    /\ conn[c] = "open" /\ Len(sent[c]) < MaxSent[c]
    /\ FoldFunction(LAMBDA s, n : Len(s) + n, 0, sent) < AllSent
    /\ \E cmd \in Commands[c] :
          LET m == [src |-> c, n |-> Len(sent[c]) + 1, cmd |-> cmd]
          IN  /\ sent' = [sent EXCEPT ![c] = Append(@, m)]
              /\ inbox' = [inbox EXCEPT ![c] = Append(@, m)]
    /\ UNCHANGED <<failure, pc, clients, queue, todo, clipsVars, published, conn, backlog, reset, received, read>>

ClientReads(c) ==
    /\ conn[c] = "open" /\ read[c] < Len(received[c])
    /\ read' = [read EXCEPT ![c] = @ + 1]
    /\ UNCHANGED <<failure, pc, clients, queue, todo, clipsVars, published, conn, backlog, reset,
                   sent, inbox, received>>

\* The client leaves.  What it had sent arrives before the end of file, unless it
\* leaves something unread: then the connection is reset and what is under way may be lost.
Disconnect(c) ==
    /\ conn[c] = "open"
    /\ conn' = [conn EXCEPT ![c] = "closed"]
    /\ IF read[c] < Len(received[c])
       THEN reset' = reset \cup {c} /\ inbox' \in {inbox, [inbox EXCEPT ![c] = <<>>]}
       ELSE UNCHANGED <<reset, inbox>>
    /\ UNCHANGED <<failure, pc, clients, queue, todo, clipsVars, published, backlog, sent, received, read>>

-----------------------------------------------------------------------------
(* What handlers write.                                                    *)

\* Mutant: the client that caused a broadcast does not receive it.
AllButSender(cs, from) == cs \ from
\* broadcast(): every session, in no particular order.
Recipients(cs, from) == cs

Broadcast(cs, from, msg) == << [to |-> Recipients(cs, from), msg |-> msg] >>

StatusMsg(w) == [kind |-> "status", serial |-> published + 1, watches |-> w]
CastMsg == [kind |-> "cast", serial |-> published + 1]

\* Mutant: the acknowledgement carries the number of the previous command.
AckPrevious(m, w) == [kind |-> "ack", n |-> m.n - 1, cmd |-> m.cmd, watches |-> w]
\* acknowledgeMessage(): the identifier comes from the message.
AckOf(m, w) == [kind |-> "ack", n |-> m.n, cmd |-> m.cmd, watches |-> w]

Idle == failure = "none" /\ todo = <<>>

\* Writes to make now: an acknowledgement waits until CLIPS returns.
Pending == IF pc = "clips" THEN Len(todo) > 1 ELSE todo # <<>>

\* One write.  It blocks while the connection is full.  To a client that left the
\* first one is lost and answered with a reset, after which a write throws, and
\* nobody catches the exception.  An acknowledgement to a removed session
\* dereferences the null pointer that clients[source] inserts.
Write ==
    /\ failure = "none" /\ Pending
    /\ LET job == Head(todo)
       IN  IF job.to = {}
           THEN todo' = Tail(todo) /\ UNCHANGED <<failure, reset, received>>
           ELSE \E c \in job.to :
                   /\ todo' = [todo EXCEPT ![1].to = @ \ {c}]
                   /\ \/ /\ c \in clients /\ conn[c] = "open"
                         /\ Len(received[c]) - read[c] < SendBuffer
                         /\ received' = [received EXCEPT ![c] = Append(@, job.msg)]
                         /\ UNCHANGED <<failure, reset>>
                      \/ /\ c \in clients /\ conn[c] = "closed"
                         /\ failure' \in IF c \in reset THEN {"none", "write"} ELSE {"none"}
                         /\ reset' = reset \cup {c}
                         /\ UNCHANGED received
                      \/ /\ c \notin clients
                         /\ failure' = "nullSession"
                         /\ UNCHANGED <<reset, received>>
    /\ UNCHANGED <<pc, clients, queue, clipsVars, published, clientVars>>

-----------------------------------------------------------------------------
(* io_context.poll(): the handlers.                                        *)

\* The new session is registered, then the status goes to everybody.
AcceptHandler ==
    /\ Idle /\ pc = "poll" /\ backlog # <<>>
    /\ clients' = clients \cup {Head(backlog)}
    /\ todo' = Broadcast(clients', {Head(backlog)}, StatusMsg(watches))
    /\ published' = published + 1
    /\ backlog' = Tail(backlog)
    /\ UNCHANGED <<failure, pc, queue, clipsVars, conn, reset, sent, inbox, received, read>>

\* Mutant: the last message read is served first.
Push(q, ms) == ms \o q
\* enqueueTcpMessage() for each message read.
Enqueue(q, ms) == q \o ms

\* A read delivers what has arrived, a prefix of what was sent.
AsyncReadHandler(c) ==
    /\ Idle /\ pc = "poll" /\ c \in clients
    /\ \E k \in 1 .. Len(inbox[c]) :
          /\ queue' = Enqueue(queue, SubSeq(inbox[c], 1, k))
          /\ inbox' = [inbox EXCEPT ![c] = SubSeq(@, k + 1, Len(@))]
    /\ UNCHANGED <<failure, pc, clients, todo, clipsVars, published, conn, backlog, reset, sent, received, read>>

\* removeSession(): the messages of the client stay in the queue.
ReadErrorHandler(c) ==
    /\ Idle /\ pc = "poll" /\ c \in clients
    /\ conn[c] = "closed" /\ inbox[c] = <<>>
    /\ clients' = clients \ {c}
    /\ UNCHANGED <<failure, pc, queue, todo, clipsVars, published, clientVars, reset, received>>

Ready(c) == inbox[c] # <<>> \/ conn[c] = "closed"

EndPoll ==
    /\ Idle /\ pc = "poll" /\ queue # <<>>
    /\ backlog = <<>> /\ \A c \in clients : ~Ready(c)
    /\ pc' = "consume"
    /\ UNCHANGED <<failure, clients, queue, todo, clipsVars, published, clientVars, reset, received>>

-----------------------------------------------------------------------------
(* parseMessage(): one message off the queue, the effects of its command,  *)
(* its acknowledgement.                                                    *)

Consume(cmd, next) ==
    /\ Idle /\ pc = "consume"
    /\ Head(queue).cmd = cmd
    /\ queue' = Tail(queue)
    /\ pc' = next
    /\ UNCHANGED <<failure, clients, effects, clientVars, reset, received>>

\* Mutant: only a command that succeeds is acknowledged.
AckSuccess(m, ok, w) == IF ok THEN << [to |-> {m.src}, msg |-> AckOf(m, w)] >> ELSE <<>>
\* acknowledgeMessage() is called whether the command succeeds or not.
Acknowledge(m, ok, w) == << [to |-> {m.src}, msg |-> AckOf(m, w)] >>

\* Mutant: the status is published before the change.
PublishBefore(m, w) == Broadcast(clients, {m.src}, StatusMsg(w - 1))
PublishStatus(m, w) == Broadcast(clients, {m.src}, StatusMsg(w))

\* handleWatch() toggles the watch and publishes the status.
HandleWatch ==
    /\ Consume("watch", "poll")
    /\ LET m == Head(queue)
       IN  todo' = PublishStatus(m, watches + 1) \o Acknowledge(m, TRUE, watches + 1)
    /\ watches' = watches + 1
    /\ published' = published + 1

\* handlePath() does the same, or rejects the path.
HandlePath ==
    /\ Consume("path", "poll")
    /\ LET m == Head(queue)
       IN  \/ /\ todo' = PublishStatus(m, watches + 1) \o Acknowledge(m, TRUE, watches + 1)
              /\ watches' = watches + 1
              /\ published' = published + 1
           \/ /\ todo' = Acknowledge(m, FALSE, watches)
              /\ UNCHANGED <<watches, published>>

\* A command that is unknown or malformed is rejected, any other one runs CLIPS.
RejectRaw ==
    /\ Consume("raw", "poll")
    /\ todo' = Acknowledge(Head(queue), FALSE, watches)
    /\ UNCHANGED <<watches, published>>

HandleRaw ==
    /\ Consume("raw", "clips")
    /\ todo' = Acknowledge(Head(queue), TRUE, watches)
    /\ UNCHANGED <<watches, published>>

\* A text is asserted, without acknowledgement.
AssertFact ==
    /\ Consume("fact", "poll")
    /\ todo' = <<>>
    /\ UNCHANGED <<watches, published>>

ParseMessage == HandleWatch \/ HandlePath \/ RejectRaw \/ HandleRaw \/ AssertFact

-----------------------------------------------------------------------------
(* CLIPS, on the server's thread, between the taking of a command and its  *)
(* acknowledgement.                                                        *)

\* Rules run, and the writes of the last broadcast or text are made.
InClips == failure = "none" /\ pc = "clips" /\ ~Pending

Effect ==
    /\ InClips /\ effects < MaxEffects
    /\ effects' = effects + 1
    /\ UNCHANGED <<failure, pc, clients, queue, clientVars, reset, received>>

\* (broadcast ?str)
ClipsBroadcasts ==
    /\ Effect
    /\ todo' = Broadcast(clients, Head(todo).to, CastMsg) \o todo
    /\ published' = published + 1
    /\ UNCHANGED watches

\* (sendto ?endpoint ?str), which does nothing for an endpoint without a session.
ClipsSends ==
    /\ Effect
    /\ \E c \in clients : todo' = << [to |-> {c}, msg |-> [kind |-> "text"]] >> \o todo
    /\ UNCHANGED <<watches, published>>

\* (watch ...): nobody is told.
ClipsWatches ==
    /\ Effect
    /\ watches' = watches + 1
    /\ UNCHANGED <<todo, published>>

ClipsReturns ==
    /\ InClips
    /\ pc' = "poll"
    /\ UNCHANGED <<failure, clients, queue, todo, clipsVars, published, clientVars, reset, received>>

\* (exit) ends the process, as does the exception of std::stoi() on a "run" that does
\* not give a number.
ClipsExits ==
    /\ InClips
    /\ failure' = "exit"
    /\ UNCHANGED <<pc, clients, queue, todo, clipsVars, published, clientVars, reset, received>>

ClipsStep == ClipsBroadcasts \/ ClipsSends \/ ClipsWatches \/ ClipsReturns \/ ClipsExits
-----------------------------------------------------------------------------
ServerStep ==
    \/ Write \/ AcceptHandler \/ EndPoll \/ ParseMessage
    \/ \E c \in Clients : AsyncReadHandler(c) \/ ReadErrorHandler(c)

\* What clients do once the process has ended is of no interest.
ClientStep(c) ==
    /\ failure = "none"
    /\ Connect(c) \/ SendMessage(c) \/ ClientReads(c) \/ Disconnect(c)

Next == ServerStep \/ ClipsStep \/ \E c \in Clients : ClientStep(c)

Spec == Init /\ [][Next]_vars

\* The loop of run() goes on.  Nobody has to connect, send, read or leave, and CLIPS
\* need not come back.
Fairness == WF_vars(ServerStep)

FairSpec == Spec /\ Fairness
-----------------------------------------------------------------------------
(* Properties                                                              *)

Nothing == [kind |-> "none"]

\* Everything written to c, and what the current handler is about to write; a
\* write that is not for c leaves a gap.
Delivered(c) ==
    received[c] \o [k \in DOMAIN todo |-> IF c \in todo[k].to THEN todo[k].msg ELSE Nothing]

IsAck(m) == m.kind = "ack"
IsBroadcast(m) == m.kind \in {"status", "cast"}

\* Nothing that was sent by c or is written to it can be lost in a failure.
Alive(c) == conn[c] = "open" /\ failure = "none"

\* Each command of a connected client is acknowledged once and in order: of what it
\* sent, a first part has been executed and its commands are acknowledged, a second
\* part is in the queue, and the rest is not read yet.
AnsweredInOrder ==
    \A c \in Clients : Alive(c) =>
        LET d == Delivered(c)
            acks == {i \in DOMAIN d : IsAck(d[i])}
            mine == {i \in DOMAIN queue : queue[i].src = c}
        IN  /\ \A i, j \in acks : i < j => d[i].n < d[j].n
            /\ \A i, j \in mine : i < j => queue[i].n < queue[j].n
            /\ \E p, q \in 0 .. Len(sent[c]) :
                  /\ {d[i].n : i \in acks} = {n \in 1 .. p : sent[c][n].cmd # "fact"}
                  /\ {queue[i].n : i \in mine} = p + 1 .. q
                  /\ inbox[c] = SubSeq(sent[c], q + 1, Len(sent[c]))

\* From its acceptance on a client receives every broadcast and every status, once
\* and in the order they were made, so that any two clients agree on that order.
BroadcastComplete ==
    \A c \in clients : Alive(c) =>
        LET d == Delivered(c)
            casts == {i \in DOMAIN d : IsBroadcast(d[i])}
        IN  /\ \A i, j \in casts : i < j => d[i].serial < d[j].serial
            /\ \E first \in 1 .. published : {d[i].serial : i \in casts} = first .. published

\* A "watch" command is acknowledged after the status that tells its effect, and no
\* other status comes between the two (getWatches() reads the status on return).
StatusBeforeAck ==
    \A c \in Clients : \A i \in DOMAIN received[c] :
        LET r == received[c]
        IN  IsAck(r[i]) /\ r[i].cmd = "watch" =>
                \E j \in 1 .. i - 1 :
                    /\ r[j].kind = "status" /\ r[j].watches = r[i].watches
                    /\ \A k \in j + 1 .. i - 1 : r[k].kind # "status"

Acked(c, n) == \E i \in DOMAIN received[c] : received[c][i].kind = "ack" /\ received[c][i].n = n

\* The server's thread waits in a write to a client that does not read.
WaitsForReader ==
    /\ Pending
    /\ \E c \in Head(todo).to :
          c \in clients /\ conn[c] = "open" /\ Len(received[c]) - read[c] >= SendBuffer

\* The loop of run() leaves no command behind: each one is acknowledged in the end,
\* whatever handlers come between, unless its client leaves, the process ends (a
\* failure, or exit), or the thread waits for ever for a client that does not read or
\* for CLIPS to return, which the code does nothing about.  What clients send is
\* bounded: under endless traffic poll() need not return either.
CommandAnswered ==
    \A c \in Clients : \A n \in 1 .. MaxSent[c] :
        \/ <>[](WaitsForReader \/ pc = "clips")
        \/ (Len(sent[c]) >= n /\ sent[c][n].cmd # "fact")
              ~> (Acked(c, n) \/ conn[c] = "closed" \/ failure # "none")

\* The server loops forever: a client that leaves with commands in the queue does
\* not end it when they are acknowledged.
LeavingIsHarmless == failure # "nullSession"
=============================================================================
