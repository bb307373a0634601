------------------------------ MODULE Framing ------------------------------
(***************************************************************************)
(* Messages in the byte stream of a connection: Session (session.cpp) and  *)
(* ClipsClient (clipsclient.cpp) cut the same frames out of it, a header   *)
(* of two bytes with the size of the frame, header included, then the      *)
(* payload.  A byte is its place in the stream, so that what a header      *)
(* reads is its frame's size where a frame begins and garbage elsewhere.   *)
(*                                                                         *)
(* The handler of a read runs its loop to the end before the next read     *)
(* begins; each iteration is one action, for the sender goes on meanwhile. *)
(***************************************************************************)
EXTENDS Naturals, Sequences

CONSTANTS Sizes,      \* bound: sizes of the frames sent
          MaxFrames,  \* bound: frames sent
          Garbage     \* what two bytes that are no header may read as

ASSUME FramingConstants ==
    /\ Sizes \subseteq Nat \ {0, 1}
    /\ MaxFrames \in Nat
    /\ Garbage \subseteq Nat

VARIABLES receiver,   \* "session" (the server's end) or "client"
          sent,       \* sizes of the frames sent
          wire,       \* bytes not received yet
          buffer,     \* bytes received and not read by the handler
          got,        \* bytes transferred by the read under way
          pc,         \* "receive", or "parse" in the loop of the handler
          failed,     \* failbit of the client's istream, a member
          lost,       \* a byte of a header was lost
          delivered,  \* frames handed over as they were sent
          corrupt     \* something else was handed over

vars == <<receiver, sent, wire, buffer, got, pc, failed, lost, delivered, corrupt>>

Frames == 1 .. MaxFrames
Byte == [frame : Frames, at : Nat \ {0}]

TypeOK ==
    /\ receiver \in {"session", "client"}
    /\ sent \in Seq(Sizes)
    /\ wire \in Seq(Byte)
    /\ buffer \in Seq(Byte)
    /\ got \in 0 .. 2
    /\ pc \in {"receive", "parse"}
    /\ pc = "parse" => buffer # <<>>
    /\ failed \in BOOLEAN /\ lost \in BOOLEAN /\ corrupt \in BOOLEAN
    /\ delivered \in Seq(Frames)

Init ==
    /\ receiver \in {"session", "client"}
    /\ sent = <<>> /\ wire = <<>> /\ buffer = <<>>
    /\ got = 0
    /\ pc = "receive"
    /\ failed = FALSE /\ lost = FALSE
    /\ delivered = <<>> /\ corrupt = FALSE

\* Session::send() and Request::getPayload() put the header first.
Send ==
    /\ Len(sent) < MaxFrames
    /\ \E s \in Sizes :
          /\ sent' = Append(sent, s)
          /\ wire' = wire \o [i \in 1 .. s |-> [frame |-> Len(sent) + 1, at |-> i]]
    /\ UNCHANGED <<receiver, buffer, got, pc, failed, lost, delivered, corrupt>>

\* transfer_at_least(3): what an earlier read left in the buffer does not count.
Complete(n) == n >= 3

\* The read transfers what has arrived, any number of bytes.
Receive ==
    /\ pc = "receive"
    /\ \E n \in 1 .. Len(wire) :
          /\ buffer' = buffer \o SubSeq(wire, 1, n)
          /\ wire' = SubSeq(wire, n + 1, Len(wire))
          /\ IF Complete(got + n)
             THEN got' = 0 /\ pc' = "parse"
             ELSE got' = got + n /\ UNCHANGED pc
    /\ UNCHANGED <<receiver, sent, failed, lost, delivered, corrupt>>

-----------------------------------------------------------------------------
(* The loop of asyncReadHandler().                                         *)

\* The buffer begins with the header of a frame.
Aligned == buffer[1].at = 1
HeaderValues == IF Aligned THEN {sent[buffer[1].frame]} ELSE Garbage

\* Mutant: a frame counts as complete one byte early.
LacksTwo(h) == Len(buffer) + 1 < h
\* buffer.size() against the header; with a header of 0 or 1 the client compares
\* with a negative number made unsigned.
Lacks(h) == Len(buffer) < h \/ (receiver = "client" /\ h < 2)

\* The buffer behind a frame of size h; h < 2 makes the session read it all.
Rest(h) == IF h < 2 THEN <<>> ELSE SubSeq(buffer, h + 1, Len(buffer))

\* Mutants: break after the first message; loop on an empty buffer.
LeaveLoop(b) == "receive"
LoopAlways(b) == "parse"
\* while(buffer.size() > 0)
LoopOn(b) == IF b = <<>> THEN "receive" ELSE "parse"

\* An incomplete message: break, its header back in the buffer.
Break ==
    /\ pc = "parse" /\ ~failed /\ Len(buffer) >= 2
    /\ \E h \in HeaderValues : Lacks(h)
    /\ pc' = "receive"
    /\ UNCHANGED <<receiver, sent, wire, buffer, got, failed, lost, delivered, corrupt>>

\* The client discards empty messages.
Discards(h) == receiver = "client" /\ h = 2

\* A complete one, as far as the header tells, leaves the buffer.
Fetch ==
    /\ pc = "parse" /\ ~failed /\ Len(buffer) >= 2
    /\ \E h \in HeaderValues :
          /\ ~Lacks(h)
          /\ buffer' = Rest(h)
          /\ pc' = LoopOn(buffer')
          /\ delivered' = IF Aligned /\ ~Discards(h)
                          THEN Append(delivered, buffer[1].frame) ELSE delivered
          /\ corrupt' = (corrupt \/ (~Aligned /\ ~Discards(h)))
    /\ UNCHANGED <<receiver, sent, wire, got, failed, lost>>

\* A single byte: the read of the header consumes it and fails, after which
\* unget() does nothing.  Session makes a new istream for each handler and may
\* fetch an empty message by the half header that was read.
SplitHeader ==
    /\ pc = "parse" /\ ~failed /\ Len(buffer) = 1
    /\ buffer' = <<>>
    /\ lost' = TRUE
    /\ failed' = (receiver = "client")
    /\ pc' = "receive"
    /\ corrupt' \in IF receiver = "client" THEN {corrupt} ELSE {corrupt, TRUE}
    /\ UNCHANGED <<receiver, sent, wire, got, delivered>>

\* Once the client's istream failed no read takes anything from it any more: the
\* loop works on an indeterminate header and on strings of zeros.
ReadFailed ==
    /\ pc = "parse" /\ failed
    /\ \E h \in Garbage :
          \/ /\ h < 2 \/ Len(buffer) + 2 < h
             /\ pc' = "receive"
             /\ UNCHANGED corrupt
          \/ /\ h > 2 /\ Len(buffer) + 2 >= h
             /\ corrupt' = TRUE
             /\ UNCHANGED pc
    /\ UNCHANGED <<receiver, sent, wire, buffer, got, failed, lost, delivered>>

Parse == Break \/ Fetch \/ SplitHeader \/ ReadFailed

Next == Send \/ Receive \/ Parse

Spec == Init /\ [][Next]_vars

\* What was sent arrives, and the thread of the handlers goes on; nobody has to send.
FairSpec == Spec /\ WF_vars(Receive) /\ WF_vars(Parse)
-----------------------------------------------------------------------------
(* Properties                                                              *)

Kept(f) == ~Discards(sent[f])
UnderWay == buffer \o wire
Heads == { n \in DOMAIN UnderWay : UnderWay[n].at = 1 }
Increasing(s) == \A i, j \in DOMAIN s : i < j => s[i] < s[j]

\* However the stream is cut into reads, messages are handed over whole, once and
\* in the order sent: those handed over, then those whose header is in the buffer or
\* under way, are the messages sent.  Until a header is split.
InOrder ==
    ~lost =>
      /\ ~corrupt
      /\ Increasing(delivered)
      /\ \A i \in DOMAIN delivered, n \in Heads : delivered[i] < UnderWay[n].frame
      /\ \A m, n \in Heads : m < n => UnderWay[m].frame < UnderWay[n].frame
      /\ { delivered[i] : i \in DOMAIN delivered }
             \union { f \in { UnderWay[n].frame : n \in Heads } : Kept(f) }
           = { f \in DOMAIN sent : Kept(f) }

\* A message is handed over once the sender sends three more bytes.  Without them its
\* last two may wait for ever, for the read wants three that are new.
FollowedIsDelivered ==
    \A f \in Frames :
        (\E g \in DOMAIN sent : g > f /\ sent[g] >= 3 /\ Kept(f))
            ~> (lost \/ \E i \in DOMAIN delivered : delivered[i] = f)

\* A header that has not arrived whole is left, or put back, in the buffer.
SplitHeaderIsKept == [][ pc = "parse" /\ Len(buffer) = 1 => buffer' = buffer ]_vars
=============================================================================
