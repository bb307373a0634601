---------------------------- MODULE FramingProofs ----------------------------
(***************************************************************************)
(* Messages are handed over whole, once and in the order sent, for any     *)
(* sizes, any number of messages and any way of cutting the stream.        *)
(***************************************************************************)
EXTENDS Framing, SequenceTheorems, TLAPS

(* What is under way: bytes of frames that were sent, ...                  *)
Placed(u, s) == \A n \in 1 .. Len(u) : u[n].frame \in 1 .. Len(s) /\ u[n].at \in 1 .. s[u[n].frame]

(* ... each with the rest of its frame behind it, ...                      *)
Whole(u, s) ==
    \A n \in 1 .. Len(u), k \in Nat :
        u[n].at + k <= s[u[n].frame] =>
            n + k <= Len(u) /\ u[n + k].frame = u[n].frame /\ u[n + k].at = u[n].at + k

(* ... and what comes before it in its frame, unless that was read; ...    *)
Joined(u) ==
    \A n \in 2 .. Len(u) : u[n].at # 1 => /\ u[n - 1].frame = u[n].frame
                                          /\ u[n - 1].at = u[n].at - 1

(* ... frame after frame.                                                  *)
Ordered(u) ==
    \A m, n \in 1 .. Len(u) :
        m < n => \/ u[m].frame < u[n].frame
                 \/ u[m].frame = u[n].frame /\ u[n].at - u[m].at = n - m

(* What is not read yet begins with a header.                              *)
Begins(u) == Len(u) > 0 => u[1].at = 1

Stream(u, s) == Whole(u, s) /\ Joined(u) /\ Ordered(u)

IInv ==
    /\ TypeOK
    /\ Placed(UnderWay, sent)
    /\ failed => lost
    /\ ~lost => Stream(UnderWay, sent) /\ Begins(UnderWay)
    /\ InOrder

-----------------------------------------------------------------------------
(* v is u without its first k bytes.                                       *)
Behind(v, u, k) == Len(v) = Len(u) - k /\ \A n \in 1 .. Len(v) : v[n] = u[n + k]

LEMMA Suffix ==
    ASSUME NEW u \in Seq(Byte), NEW v \in Seq(Byte), NEW k \in 0 .. Len(u), Behind(v, u, k),
           NEW s
    PROVE  /\ Placed(u, s) => Placed(v, s)
           /\ Stream(u, s) => Stream(v, s)
<1>1. Len(u) \in Nat /\ Len(v) = Len(u) - k /\ k \in Nat /\ Len(v) \in Nat
      /\ \A n \in 1 .. Len(v) : v[n] = u[n + k] /\ n + k \in 1 .. Len(u)
  BY DEF Behind
<1>2. Placed(u, s) => Placed(v, s)
  BY <1>1 DEF Placed
<1>3. ASSUME Whole(u, s) PROVE Whole(v, s)
  <2>. SUFFICES ASSUME NEW n \in 1 .. Len(v), NEW j \in Nat, v[n].at + j <= s[v[n].frame]
                PROVE  n + j <= Len(v) /\ v[n + j].frame = v[n].frame /\ v[n + j].at = v[n].at + j
    BY DEF Whole
  <2>1. v[n] = u[n + k] /\ n + k \in 1 .. Len(u)
    BY <1>1
  <2>2. /\ (n + k) + j <= Len(u) /\ u[(n + k) + j].frame = u[n + k].frame
        /\ u[(n + k) + j].at = u[n + k].at + j
    BY <1>3, <2>1 DEF Whole
  <2>3. n + j \in 1 .. Len(v) /\ (n + j) + k = (n + k) + j
    BY <1>1, <2>2
  <2>4. v[n + j] = u[(n + k) + j]
    BY <1>1, <2>3
  <2>. QED BY <2>1, <2>2, <2>3, <2>4
<1>4. ASSUME Joined(u) PROVE Joined(v)
  <2>. SUFFICES ASSUME NEW n \in 2 .. Len(v), v[n].at # 1
                PROVE  v[n - 1].frame = v[n].frame /\ v[n - 1].at = v[n].at - 1
    BY DEF Joined
  <2>1. /\ n \in 1 .. Len(v) /\ n - 1 \in 1 .. Len(v)
        /\ n + k \in 2 .. Len(u) /\ (n - 1) + k = (n + k) - 1
    BY <1>1
  <2>2. v[n] = u[n + k] /\ v[n - 1] = u[(n + k) - 1]
    BY <1>1, <2>1
  <2>. QED BY <1>4, <2>1, <2>2 DEF Joined
<1>5. ASSUME Ordered(u) PROVE Ordered(v)
  <2>. SUFFICES ASSUME NEW m \in 1 .. Len(v), NEW n \in 1 .. Len(v), m < n
                PROVE  \/ v[m].frame < v[n].frame
                       \/ v[m].frame = v[n].frame /\ v[n].at - v[m].at = n - m
    BY DEF Ordered
  <2>1. /\ m + k \in 1 .. Len(u) /\ n + k \in 1 .. Len(u) /\ m + k < n + k
        /\ (n + k) - (m + k) = n - m /\ v[m] = u[m + k] /\ v[n] = u[n + k]
    BY <1>1
  <2>. QED BY <1>5, <2>1 DEF Ordered
<1>. QED BY <1>2, <1>3, <1>4, <1>5 DEF Stream

LEMMA Concat ==
    ASSUME NEW a \in Seq(Byte), NEW b \in Seq(Byte)
    PROVE  /\ a \o b \in Seq(Byte) /\ Len(a \o b) = Len(a) + Len(b)
           /\ \A n \in 1 .. Len(a) : (a \o b)[n] = a[n]
           /\ \A n \in 1 .. Len(b) : (a \o b)[Len(a) + n] = b[n]
           /\ DOMAIN (a \o b) = 1 .. (Len(a) + Len(b))
<1>1. /\ a \o b \in Seq(Byte) /\ Len(a \o b) = Len(a) + Len(b)
      /\ \A i \in 1 .. Len(a) + Len(b) : (a \o b)[i] = IF i <= Len(a) THEN a[i] ELSE b[i - Len(a)]
  BY ConcatProperties
<1>2. Len(a) \in Nat /\ Len(b) \in Nat
  OBVIOUS
<1>3. ASSUME NEW n \in 1 .. Len(a) PROVE (a \o b)[n] = a[n]
  <2>1. n \in 1 .. Len(a) + Len(b) /\ n <= Len(a)
    BY <1>2
  <2>. QED BY <1>1, <2>1
<1>4. ASSUME NEW n \in 1 .. Len(b) PROVE (a \o b)[Len(a) + n] = b[n]
  <2>1. Len(a) + n \in 1 .. Len(a) + Len(b) /\ ~(Len(a) + n <= Len(a)) /\ (Len(a) + n) - Len(a) = n
    BY <1>2
  <2>. QED BY <1>1, <2>1
<1>. QED BY <1>1, <1>3, <1>4

LEMMA Associative ==
    ASSUME NEW a \in Seq(Byte), NEW b \in Seq(Byte), NEW c \in Seq(Byte)
    PROVE  (a \o b) \o c = a \o (b \o c)
BY ConcatAssociative

LEMMA Cut ==
    ASSUME NEW a \in Seq(Byte), NEW k \in 0 .. Len(a)
    PROVE  /\ SubSeq(a, k + 1, Len(a)) \in Seq(Byte) /\ SubSeq(a, 1, k) \in Seq(Byte)
           /\ Len(SubSeq(a, 1, k)) = k /\ \A n \in 1 .. k : SubSeq(a, 1, k)[n] = a[n]
           /\ Behind(SubSeq(a, k + 1, Len(a)), a, k)
<1>1. Len(a) \in Nat /\ \A i \in 1 .. Len(a) : a[i] \in Byte
  OBVIOUS
<1>2. /\ SubSeq(a, 1, k) \in Seq(Byte) /\ Len(SubSeq(a, 1, k)) = k
      /\ \A n \in 1 .. k : SubSeq(a, 1, k)[n] = a[n]
  <2>1. 1 \in Int /\ k \in Int /\ \A i \in 1 .. k : a[i] \in Byte
    BY <1>1
  <2>2. /\ SubSeq(a, 1, k) \in Seq(Byte)
        /\ Len(SubSeq(a, 1, k)) = IF 1 <= k THEN k - 1 + 1 ELSE 0
        /\ \A i \in 1 .. k - 1 + 1 : SubSeq(a, 1, k)[i] = a[1 + i - 1]
    BY <2>1, SubSeqProperties
  <2>. QED BY <2>1, <2>2
<1>3. /\ SubSeq(a, k + 1, Len(a)) \in Seq(Byte) /\ Len(SubSeq(a, k + 1, Len(a))) = Len(a) - k
      /\ \A n \in 1 .. (Len(a) - k) : SubSeq(a, k + 1, Len(a))[n] = a[n + k]
  <2>1. k + 1 \in Int /\ Len(a) \in Int /\ \A i \in (k + 1) .. Len(a) : a[i] \in Byte
    BY <1>1
  <2>2. /\ SubSeq(a, k + 1, Len(a)) \in Seq(Byte)
        /\ Len(SubSeq(a, k + 1, Len(a))) = IF k + 1 <= Len(a) THEN Len(a) - (k + 1) + 1 ELSE 0
        /\ \A i \in 1 .. Len(a) - (k + 1) + 1 : SubSeq(a, k + 1, Len(a))[i] = a[(k + 1) + i - 1]
    BY <2>1, SubSeqProperties
  <2>. QED BY <1>1, <2>1, <2>2
<1>. QED BY <1>2, <1>3 DEF Behind

(* Dropping the first k bytes of the buffer drops them from what is under  *)
(* way.                                                                    *)
LEMMA Dropped ==
    ASSUME NEW a \in Seq(Byte), NEW b \in Seq(Byte), NEW k \in 0 .. Len(a)
    PROVE  Behind(SubSeq(a, k + 1, Len(a)) \o b, a \o b, k)
<1>. DEFINE r == SubSeq(a, k + 1, Len(a))
<1>1. r \in Seq(Byte) /\ Len(r) = Len(a) - k /\ \A n \in 1 .. Len(r) : r[n] = a[n + k]
  BY Cut DEF Behind
<1>2. Len(a) \in Nat /\ Len(b) \in Nat /\ k \in Nat
  OBVIOUS
<1>. HIDE DEF r
<1>3. /\ Len(r \o b) = Len(r) + Len(b) /\ Len(a \o b) = Len(a) + Len(b)
      /\ \A n \in 1 .. Len(r) : (r \o b)[n] = r[n]
      /\ \A n \in 1 .. Len(b) : (r \o b)[Len(r) + n] = b[n]
      /\ \A n \in 1 .. Len(a) : (a \o b)[n] = a[n]
      /\ \A n \in 1 .. Len(b) : (a \o b)[Len(a) + n] = b[n]
  BY <1>1, Concat
<1>4. ASSUME NEW n \in 1 .. Len(r \o b) PROVE (r \o b)[n] = (a \o b)[n + k]
  <2>1. CASE n <= Len(r)
    <3>1. n \in 1 .. Len(r) /\ n + k \in 1 .. Len(a)
      BY <1>1, <1>2, <1>3, <2>1
    <3>. QED BY <1>1, <1>3, <3>1
  <2>2. CASE ~(n <= Len(r))
    <3>. DEFINE i == n - Len(r)
    <3>1. i \in 1 .. Len(b) /\ n = Len(r) + i /\ n + k = Len(a) + i
      BY <1>1, <1>2, <1>3, <2>2
    <3>. QED BY <1>3, <3>1
  <2>. QED BY <2>1, <2>2
<1>5. Len(r \o b) = Len(a \o b) - k
  BY <1>1, <1>2, <1>3
<1>. QED BY <1>4, <1>5 DEF Behind, r

-----------------------------------------------------------------------------
LEMMA SizesGrow ==
    ASSUME NEW s \in Seq(Sizes), NEW z \in Sizes
    PROVE  /\ Append(s, z) \in Seq(Sizes) /\ Len(Append(s, z)) = Len(s) + 1 /\ Len(s) \in Nat
           /\ \A f \in 1 .. Len(s) : Append(s, z)[f] = s[f] /\ s[f] \in Nat /\ s[f] >= 2
           /\ Append(s, z)[Len(s) + 1] = z /\ z \in Nat /\ z >= 2
           /\ DOMAIN s = 1 .. Len(s) /\ DOMAIN Append(s, z) = 1 .. (Len(s) + 1)
<1>1. \A y \in Sizes : y \in Nat /\ y >= 2
  BY FramingConstants
<1>. QED BY <1>1, AppendProperties

LEMMA SentSizes ==
    ASSUME TypeOK
    PROVE  /\ Len(sent) \in Nat /\ DOMAIN sent = 1 .. Len(sent)
           /\ \A f \in 1 .. Len(sent) : sent[f] \in Nat /\ sent[f] >= 2
<1>1. sent \in Seq(Sizes)
  BY DEF TypeOK
<1>2. \A y \in Sizes : y \in Nat /\ y >= 2
  BY FramingConstants
<1>. QED BY <1>1, <1>2

LEMMA UnderWayBytes ==
    ASSUME TypeOK
    PROVE  /\ UnderWay \in Seq(Byte) /\ Len(UnderWay) = Len(buffer) + Len(wire)
           /\ Len(buffer) \in Nat /\ Len(wire) \in Nat
           /\ DOMAIN UnderWay = 1 .. Len(UnderWay)
           /\ \A n \in 1 .. Len(buffer) : UnderWay[n] = buffer[n]
           /\ \A n \in 1 .. Len(UnderWay) : UnderWay[n].frame \in Nat /\ UnderWay[n].at \in Nat
<1>1. buffer \in Seq(Byte) /\ wire \in Seq(Byte)
  BY DEF TypeOK
<1>2. \A x \in Byte : x.frame \in Nat /\ x.at \in Nat
  BY DEF Byte, Frames
<1>3. UnderWay \in Seq(Byte) => \A n \in 1 .. Len(UnderWay) : UnderWay[n] \in Byte
  OBVIOUS
<1>. QED BY <1>1, <1>2, <1>3, Concat DEF UnderWay

LEMMA InitInv == Init => IInv
<1>. SUFFICES ASSUME Init PROVE IInv
  OBVIOUS
<1>1. TypeOK
  <2>1. /\ sent \in Seq(Sizes) /\ wire \in Seq(Byte) /\ buffer \in Seq(Byte)
        /\ delivered \in Seq(Frames)
    BY EmptySeq DEF Init
  <2>2. /\ receiver \in {"session", "client"} /\ got \in 0 .. 2 /\ pc \in {"receive", "parse"}
        /\ pc = "parse" => buffer # <<>>
    BY DEF Init
  <2>3. failed \in BOOLEAN /\ lost \in BOOLEAN /\ corrupt \in BOOLEAN
    BY Zenon DEF Init
  <2>. QED BY <2>1, <2>2, <2>3 DEF TypeOK
<1>2. Len(UnderWay) = 0 /\ UnderWay = <<>>
  BY DEF Init, UnderWay
<1>3. Placed(UnderWay, sent) /\ Stream(UnderWay, sent) /\ Begins(UnderWay)
  BY <1>2 DEF Placed, Stream, Whole, Joined, Ordered, Begins
<1>4. InOrder
  <2>1. Heads = {}
    BY <1>2 DEF Heads
  <2>2. DOMAIN delivered = {} /\ DOMAIN sent = {} /\ corrupt = FALSE
    BY DEF Init
  <2>. QED BY <2>1, <2>2 DEF InOrder, Increasing
<1>. QED BY <1>1, <1>3, <1>4 DEF IInv, Init

(* A step that moves no byte and hands over none.                          *)
LEMMA BytesStay ==
    ASSUME IInv, TypeOK', UnderWay' = UnderWay, UNCHANGED <<receiver, sent, delivered>>,
           failed' => lost', lost' = lost, lost \/ corrupt' = corrupt
    PROVE  IInv'
<1>1. Placed(UnderWay', sent') /\ (~lost' => Stream(UnderWay', sent') /\ Begins(UnderWay'))
  BY DEF IInv
<1>2. Heads' = Heads
  BY DEF Heads
<1>3. \A f : Kept(f)' <=> Kept(f)
  BY DEF Kept, Discards
<1>4. InOrder'
  BY <1>2, <1>3 DEF IInv, InOrder, Increasing
<1>. QED BY <1>1, <1>4 DEF IInv

-----------------------------------------------------------------------------
(* A frame is sent: its bytes follow those of the frames before it.        *)
LEMMA SendKeeps ==
    ASSUME IInv, Send
    PROVE  IInv'
<1>. DEFINE L == Len(UnderWay)
<1>. DEFINE N == Len(sent) + 1
<1>1. PICK z \in Sizes : /\ sent' = Append(sent, z)
                         /\ wire' = wire \o [i \in 1 .. z |-> [frame |-> N, at |-> i]]
  BY DEF Send
<1>. DEFINE new == [i \in 1 .. z |-> [frame |-> N, at |-> i]]
<1>2. /\ TypeOK /\ Len(sent) < MaxFrames /\ sent \in Seq(Sizes)
      /\ wire \in Seq(Byte) /\ buffer \in Seq(Byte)
      /\ UNCHANGED <<receiver, buffer, got, pc, failed, lost, delivered, corrupt>>
  BY DEF IInv, Send, TypeOK
<1>3. /\ sent' \in Seq(Sizes) /\ Len(sent') = N /\ Len(sent) \in Nat
      /\ \A f \in 1 .. Len(sent) : sent'[f] = sent[f] /\ sent[f] \in Nat /\ sent[f] >= 2
      /\ sent'[N] = z /\ z \in Nat /\ z >= 2
      /\ DOMAIN sent = 1 .. Len(sent) /\ DOMAIN sent' = 1 .. N
  BY <1>1, <1>2, SizesGrow
<1>4. /\ new \in Seq(Byte) /\ Len(new) = z
      /\ \A i \in 1 .. z : new[i].frame = N /\ new[i].at = i
  <2>1. N \in Frames
    BY <1>2, <1>3, FramingConstants DEF Frames
  <2>2. \A i \in 1 .. z : [frame |-> N, at |-> i] \in Byte
    BY <2>1, <1>3 DEF Byte
  <2>3. new \in [1 .. z -> Byte]
    BY <2>2
  <2>4. new \in Seq(Byte) /\ Len(new) = z
    BY <2>3, <1>3
  <2>. QED BY <2>4
<1>. HIDE DEF new
<1>5. wire' = wire \o new
  BY <1>1 DEF new
<1>6. wire' \in Seq(Byte)
  BY <1>2, <1>4, <1>5, Concat
<1>7. TypeOK'
  BY <1>2, <1>3, <1>6 DEF TypeOK
<1>8. /\ UnderWay \in Seq(Byte) /\ L \in Nat /\ DOMAIN UnderWay = 1 .. L
      /\ \A n \in 1 .. L : UnderWay[n].frame \in Nat /\ UnderWay[n].at \in Nat
  BY <1>2, UnderWayBytes
<1>9. UnderWay' = UnderWay \o new
  <2>1. buffer \o (wire \o new) = (buffer \o wire) \o new
    <3>1. buffer \in Seq(Byte) /\ wire \in Seq(Byte) /\ new \in Seq(Byte)
      BY <1>2, <1>4
    <3>. QED BY <3>1, Associative
  <2>. QED BY <1>2, <1>5, <2>1 DEF UnderWay
<1>. HIDE DEF L
<1>10. /\ UnderWay' \in Seq(Byte) /\ Len(UnderWay') = L + z
       /\ DOMAIN UnderWay' = 1 .. (L + z)
       /\ \A n \in 1 .. L : UnderWay'[n] = UnderWay[n]
       /\ \A i \in 1 .. z : UnderWay'[L + i].frame = N /\ UnderWay'[L + i].at = i
  <2>1. /\ UnderWay \o new \in Seq(Byte) /\ Len(UnderWay \o new) = L + z
        /\ DOMAIN (UnderWay \o new) = 1 .. (L + z)
        /\ \A n \in 1 .. L : (UnderWay \o new)[n] = UnderWay[n]
        /\ \A i \in 1 .. z : (UnderWay \o new)[L + i] = new[i]
    BY <1>4, <1>8, Concat DEF L
  <2>. QED BY <1>4, <1>9, <2>1
<1>11. \A n \in 1 .. (L + z) : n \in 1 .. L \/ \E i \in 1 .. z : n = L + i
  <2>. SUFFICES ASSUME NEW n \in 1 .. (L + z), ~(n \in 1 .. L) PROVE \E i \in 1 .. z : n = L + i
    OBVIOUS
  <2>1. n - L \in 1 .. z /\ n = L + (n - L)
    BY <1>3, <1>8
  <2>. QED BY <2>1
<1>12. \A n \in 1 .. L : /\ UnderWay[n].frame \in 1 .. Len(sent)
                          /\ UnderWay[n].at \in 1 .. sent[UnderWay[n].frame]
                          /\ sent'[UnderWay[n].frame] = sent[UnderWay[n].frame]
  BY <1>3 DEF IInv, Placed, L
<1>13. Placed(UnderWay', sent')
  <2>. SUFFICES ASSUME NEW n \in 1 .. (L + z)
                PROVE  UnderWay'[n].frame \in 1 .. N /\ UnderWay'[n].at \in 1 .. sent'[UnderWay'[n].frame]
    BY <1>3, <1>10 DEF Placed
  <2>1. CASE n \in 1 .. L
    <3>1. UnderWay'[n] = UnderWay[n]
      BY <1>10, <2>1
    <3>2. UnderWay[n].frame \in 1 .. N
      BY <1>3, <1>12, <2>1
    <3>3. UnderWay[n].at \in 1 .. sent'[UnderWay[n].frame]
      BY <1>12, <2>1
    <3>. QED BY <3>1, <3>2, <3>3
  <2>2. CASE \E i \in 1 .. z : n = L + i
    BY <1>3, <1>10, <2>2
  <2>. QED BY <1>11, <2>1, <2>2
<1>14. ASSUME ~lost PROVE Stream(UnderWay', sent') /\ Begins(UnderWay')
  <2>1. Whole(UnderWay, sent) /\ Joined(UnderWay) /\ Ordered(UnderWay) /\ Begins(UnderWay)
    BY <1>14 DEF IInv, Stream
  <2>2. Whole(UnderWay', sent')
    <3>. SUFFICES ASSUME NEW n \in 1 .. (L + z), NEW k \in Nat,
                         UnderWay'[n].at + k <= sent'[UnderWay'[n].frame]
                  PROVE  /\ n + k <= L + z /\ UnderWay'[n + k].frame = UnderWay'[n].frame
                         /\ UnderWay'[n + k].at = UnderWay'[n].at + k
      BY <1>10 DEF Whole
    <3>1. CASE n \in 1 .. L
      <4>1. /\ n + k <= L /\ UnderWay[n + k].frame = UnderWay[n].frame
            /\ UnderWay[n + k].at = UnderWay[n].at + k
        BY <1>10, <1>12, <2>1, <3>1 DEF Whole, L
      <4>2. n + k \in 1 .. L /\ n + k <= L + z
        BY <1>3, <1>8, <3>1, <4>1
      <4>. QED BY <1>10, <3>1, <4>1, <4>2
    <3>2. ASSUME NEW i \in 1 .. z, n = L + i
          PROVE  /\ n + k <= L + z /\ UnderWay'[n + k].frame = UnderWay'[n].frame
                 /\ UnderWay'[n + k].at = UnderWay'[n].at + k
      <4>1. UnderWay'[n].frame = N /\ UnderWay'[n].at = i
        BY <1>10, <3>2
      <4>2. i + k \in 1 .. z /\ n + k = L + (i + k) /\ n + k <= L + z
        BY <1>3, <1>8, <3>2, <4>1
      <4>3. UnderWay'[n + k].frame = N /\ UnderWay'[n + k].at = i + k
        BY <1>10, <4>2
      <4>. QED BY <4>1, <4>2, <4>3
    <3>. QED BY <1>11, <3>1, <3>2
  <2>3. Joined(UnderWay')
    <3>. SUFFICES ASSUME NEW n \in 2 .. (L + z), UnderWay'[n].at # 1
                  PROVE  /\ UnderWay'[n - 1].frame = UnderWay'[n].frame
                         /\ UnderWay'[n - 1].at = UnderWay'[n].at - 1
      BY <1>10 DEF Joined
    <3>1. CASE n \in 1 .. L
      <4>1. n \in 2 .. L /\ n - 1 \in 1 .. L
        BY <1>8, <3>1
      <4>. QED BY <1>10, <2>1, <3>1, <4>1 DEF Joined, L
    <3>2. ASSUME NEW i \in 1 .. z, n = L + i
          PROVE  /\ UnderWay'[n - 1].frame = UnderWay'[n].frame
                 /\ UnderWay'[n - 1].at = UnderWay'[n].at - 1
      <4>1. UnderWay'[n].frame = N /\ UnderWay'[n].at = i
        BY <1>10, <3>2
      <4>2. i - 1 \in 1 .. z /\ n - 1 = L + (i - 1)
        BY <1>3, <1>8, <3>2, <4>1
      <4>3. UnderWay'[n - 1].frame = N /\ UnderWay'[n - 1].at = i - 1
        BY <1>10, <4>2
      <4>. QED BY <4>1, <4>3
    <3>3. n \in 1 .. (L + z)
      BY <1>3, <1>8
    <3>. QED BY <1>11, <3>1, <3>2, <3>3
  <2>4. Ordered(UnderWay')
    <3>. SUFFICES ASSUME NEW m \in 1 .. (L + z), NEW n \in 1 .. (L + z), m < n
                  PROVE  \/ UnderWay'[m].frame < UnderWay'[n].frame
                         \/ /\ UnderWay'[m].frame = UnderWay'[n].frame
                            /\ UnderWay'[n].at - UnderWay'[m].at = n - m
      BY <1>10 DEF Ordered
    <3>1. CASE n \in 1 .. L
      <4>1. m \in 1 .. L
        BY <1>8, <3>1
      <4>. QED BY <1>10, <2>1, <3>1, <4>1 DEF Ordered, L
    <3>2. ASSUME NEW i \in 1 .. z, n = L + i, m \in 1 .. L
          PROVE  UnderWay'[m].frame < UnderWay'[n].frame
      BY <1>3, <1>10, <1>12, <3>2
    <3>3. ASSUME NEW i \in 1 .. z, n = L + i, NEW j \in 1 .. z, m = L + j
          PROVE  /\ UnderWay'[m].frame = UnderWay'[n].frame
                 /\ UnderWay'[n].at - UnderWay'[m].at = n - m
      <4>1. i - j = n - m
        BY <1>3, <1>8, <3>3
      <4>. QED BY <1>10, <3>3, <4>1
    <3>. QED BY <1>11, <3>1, <3>2, <3>3
  <2>5. Begins(UnderWay')
    <3>1. CASE L > 0
      <4>1. 1 \in 1 .. L
        BY <1>8, <3>1
      <4>. QED BY <1>10, <2>1, <3>1, <4>1 DEF Begins, L
    <3>2. CASE L = 0
      <4>1. 1 \in 1 .. z /\ L + 1 = 1
        BY <1>3, <3>2
      <4>. QED BY <1>10, <4>1 DEF Begins
    <3>. QED BY <1>8, <3>1, <3>2
  <2>. QED BY <2>2, <2>3, <2>4, <2>5 DEF Stream
<1>15. \A n \in 1 .. (L + z) : n \in Heads' <=> n \in Heads \/ n = L + 1
  <2>. SUFFICES ASSUME NEW n \in 1 .. (L + z) PROVE n \in Heads' <=> n \in Heads \/ n = L + 1
    OBVIOUS
  <2>1. n \in Heads' <=> UnderWay'[n].at = 1
    BY <1>10 DEF Heads
  <2>2. n \in Heads <=> n \in 1 .. L /\ UnderWay[n].at = 1
    BY <1>8 DEF Heads
  <2>3. CASE n \in 1 .. L
    <3>1. n # L + 1
      BY <1>8, <2>3
    <3>. QED BY <1>10, <2>1, <2>2, <2>3, <3>1
  <2>4. ASSUME NEW i \in 1 .. z, n = L + i
        PROVE n \in Heads' <=> n \in Heads \/ n = L + 1
    <3>1. ~(n \in 1 .. L) /\ (n = L + 1 <=> i = 1)
      BY <1>3, <1>8, <2>4
    <3>2. UnderWay'[n].at = i
      BY <1>10, <2>4
    <3>. QED BY <2>1, <2>2, <3>1, <3>2
  <2>. QED BY <1>11, <2>3, <2>4
<1>16. /\ Heads \subseteq 1 .. L /\ Heads' = Heads \union {L + 1}
       /\ \A n \in Heads : UnderWay'[n] = UnderWay[n]
       /\ UnderWay'[L + 1].frame = N
  <2>1. Heads \subseteq 1 .. L /\ Heads' \subseteq 1 .. (L + z)
    BY <1>8, <1>10 DEF Heads
  <2>2. 1 .. L \subseteq 1 .. (L + z) /\ L + 1 \in 1 .. (L + z) /\ 1 \in 1 .. z
    BY <1>3, <1>8
  <2>3. Heads' = Heads \union {L + 1}
    BY <1>15, <2>1, <2>2
  <2>4. UnderWay'[L + 1].frame = N
    BY <1>10, <2>2
  <2>. QED BY <1>10, <2>1, <2>3, <2>4
<1>17. \A f \in 1 .. Len(sent) : Kept(f)' <=> Kept(f)
  BY <1>2, <1>3 DEF Kept, Discards
<1>18. InOrder'
  <2>. SUFFICES ASSUME ~lost PROVE InOrder'
    BY <1>2 DEF InOrder
  <2>. DEFINE D == { delivered[i] : i \in DOMAIN delivered }
  <2>. DEFINE H == { UnderWay[n].frame : n \in Heads }
  <2>. DEFINE HN == { UnderWay'[n].frame : n \in Heads' }
  <2>1. /\ ~corrupt /\ Increasing(delivered)
        /\ \A i \in DOMAIN delivered, n \in Heads : delivered[i] < UnderWay[n].frame
        /\ \A m, n \in Heads : m < n => UnderWay[m].frame < UnderWay[n].frame
        /\ D \union { f \in H : Kept(f) } = { f \in DOMAIN sent : Kept(f) }
    BY DEF IInv, InOrder
  <2>2. \A i \in DOMAIN delivered : delivered[i] \in 1 .. Len(sent) /\ delivered[i] < N
    <3>1. \A i \in DOMAIN delivered : delivered[i] \in D
      OBVIOUS
    <3>2. \A f \in D : f \in DOMAIN sent
      <4>. HIDE DEF D
      <4>. QED BY <2>1
    <3>. HIDE DEF D
    <3>. QED BY <1>3, <3>1, <3>2
  <2>0. \A n \in Heads' : n = L + 1 \/ (n \in Heads /\ n \in 1 .. L)
    BY <1>16
  <2>3. H \subseteq 1 .. Len(sent) /\ HN = H \union {N}
    <3>1. \A n \in Heads : UnderWay[n].frame \in 1 .. Len(sent)
      BY <1>12, <1>16
    <3>2. \A n \in Heads' : UnderWay'[n].frame \in H \/ UnderWay'[n].frame = N
      BY <1>16, <2>0
    <3>3. \A n \in Heads : UnderWay[n].frame \in HN
      BY <1>16
    <3>4. N \in HN
      BY <1>16
    <3>. QED BY <3>1, <3>2, <3>3, <3>4
  <2>4. \A i \in DOMAIN delivered', n \in Heads' : delivered'[i] < UnderWay'[n].frame
    <3>. SUFFICES ASSUME NEW i \in DOMAIN delivered, NEW n \in Heads'
                  PROVE  delivered[i] < UnderWay'[n].frame
      BY <1>2
    <3>1. CASE n = L + 1
      BY <1>16, <2>2, <3>1
    <3>2. CASE n \in Heads
      BY <1>16, <2>1, <3>2
    <3>. QED BY <2>0, <3>1, <3>2
  <2>5. \A m, n \in Heads' : m < n => UnderWay'[m].frame < UnderWay'[n].frame
    <3>. SUFFICES ASSUME NEW m \in Heads', NEW n \in Heads', m < n
                  PROVE  UnderWay'[m].frame < UnderWay'[n].frame
      OBVIOUS
    <3>1. m # L + 1
      BY <1>8, <2>0
    <3>2. m \in Heads /\ m \in 1 .. L
      BY <2>0, <3>1
    <3>3. UnderWay[m].frame \in 1 .. Len(sent)
      BY <1>12, <3>2
    <3>4. CASE n = L + 1
      BY <1>3, <1>16, <3>2, <3>3, <3>4
    <3>5. CASE n \in Heads
      BY <1>16, <2>1, <3>2, <3>5
    <3>. QED BY <2>0, <3>4, <3>5
  <2>6. D \union { f \in HN : Kept(f)' } = { f \in DOMAIN sent' : Kept(f)' }
    <3>. HIDE DEF D, H, HN
    <3>1. \A f : f \in 1 .. N <=> f \in 1 .. Len(sent) \/ f = N
      BY <1>3
    <3>2. \A f \in D : f \in 1 .. Len(sent) /\ Kept(f)
      BY <1>3, <2>1
    <3>3. \A f \in 1 .. Len(sent) : Kept(f) => f \in D \/ f \in H
      BY <1>3, <2>1
    <3>4. \A f : f \in D \/ (f \in HN /\ Kept(f)') <=> (f \in DOMAIN sent' /\ Kept(f)')
      BY <1>3, <1>17, <2>3, <3>1, <3>2, <3>3
    <3>. QED BY <3>4
  <2>. QED BY <1>2, <2>1, <2>4, <2>5, <2>6 DEF InOrder, Increasing
<1>. QED BY <1>2, <1>7, <1>13, <1>14, <1>18 DEF IInv

(* A read moves bytes to the buffer.                                       *)
LEMMA ReceiveKeeps ==
    ASSUME IInv, Receive
    PROVE  IInv'
<1>1. PICK n \in 1 .. Len(wire) :
          /\ buffer' = buffer \o SubSeq(wire, 1, n)
          /\ wire' = SubSeq(wire, n + 1, Len(wire))
          /\ IF Complete(got + n) THEN got' = 0 /\ pc' = "parse"
                                 ELSE got' = got + n /\ UNCHANGED pc
  BY DEF Receive
<1>2. /\ TypeOK /\ buffer \in Seq(Byte) /\ wire \in Seq(Byte) /\ pc = "receive" /\ got \in 0 .. 2
      /\ Len(buffer) \in Nat /\ Len(wire) \in Nat /\ n \in 0 .. Len(wire)
      /\ UNCHANGED <<receiver, sent, failed, lost, delivered, corrupt>>
  BY DEF IInv, Receive, TypeOK
<1>. DEFINE a == SubSeq(wire, 1, n)
<1>. DEFINE b == SubSeq(wire, n + 1, Len(wire))
<1>3. /\ a \in Seq(Byte) /\ b \in Seq(Byte) /\ Len(a) = n /\ Len(b) = Len(wire) - n
      /\ \A k \in 1 .. n : a[k] = wire[k]
      /\ \A k \in 1 .. Len(b) : b[k] = wire[k + n]
  BY <1>2, Cut DEF Behind
<1>. HIDE DEF a, b
<1>4. buffer \o a \in Seq(Byte) /\ Len(buffer \o a) = Len(buffer) + n
  BY <1>2, <1>3, Concat
<1>5. (buffer \o a) \o b = buffer \o wire
  <2>1. /\ a \o b \in Seq(Byte) /\ Len(a \o b) = n + Len(b)
        /\ \A k \in 1 .. n : (a \o b)[k] = a[k]
        /\ \A k \in 1 .. Len(b) : (a \o b)[n + k] = b[k]
    <3>1. /\ a \o b \in Seq(Byte) /\ Len(a \o b) = Len(a) + Len(b)
          /\ \A k \in 1 .. Len(a) : (a \o b)[k] = a[k]
          /\ \A k \in 1 .. Len(b) : (a \o b)[Len(a) + k] = b[k]
      BY <1>3, Concat
    <3>. QED BY <1>3, <3>1
  <2>2. Len(a \o b) = Len(wire)
    BY <1>2, <1>3, <2>1
  <2>3. ASSUME NEW k \in 1 .. Len(a \o b) PROVE (a \o b)[k] = wire[k]
    <3>1. CASE k <= n
      <4>1. k \in 1 .. n
        BY <1>2, <3>1
      <4>. QED BY <1>3, <2>1, <4>1
    <3>2. CASE ~(k <= n)
      <4>. DEFINE i == k - n
      <4>1. i \in 1 .. Len(b) /\ k = n + i /\ k = i + n
        BY <1>2, <1>3, <2>1, <3>2
      <4>. HIDE DEF i
      <4>2. (a \o b)[n + i] = b[i] /\ b[i] = wire[i + n]
        BY <1>3, <2>1, <4>1
      <4>. QED BY <4>1, <4>2
    <3>. QED BY <3>1, <3>2
  <2>4. a \o b = wire
    BY <1>2, <2>1, <2>2, <2>3, SeqEqual
  <2>5. (buffer \o a) \o b = buffer \o (a \o b)
    <3>1. buffer \in Seq(Byte) /\ a \in Seq(Byte) /\ b \in Seq(Byte)
      BY <1>2, <1>3
    <3>. QED BY <3>1, Associative
  <2>. QED BY <2>4, <2>5
<1>6. UnderWay' = UnderWay
  BY <1>1, <1>5 DEF UnderWay, a, b
<1>7. buffer' \in Seq(Byte) /\ wire' \in Seq(Byte) /\ buffer' # <<>>
  <2>1. buffer' = buffer \o a /\ wire' = b
    BY <1>1 DEF a, b
  <2>2. Len(buffer') # 0
    BY <1>2, <1>4, <2>1
  <2>. QED BY <1>3, <1>4, <2>1, <2>2
<1>8. got' \in 0 .. 2 /\ pc' \in {"receive", "parse"}
  BY <1>1, <1>2 DEF Complete
<1>9. TypeOK'
  BY <1>2, <1>7, <1>8 DEF TypeOK
<1>. QED BY <1>2, <1>6, <1>9, BytesStay DEF IInv

LEMMA BreakKeeps ==
    ASSUME IInv, Break
    PROVE  IInv'
<1>1. /\ pc' = "receive"
      /\ UNCHANGED <<receiver, sent, wire, buffer, got, failed, lost, delivered, corrupt>>
  BY DEF Break
<1>2. UnderWay' = UnderWay
  BY <1>1 DEF UnderWay
<1>3. TypeOK'
  BY <1>1 DEF IInv, TypeOK
<1>. QED BY <1>1, <1>2, <1>3, BytesStay DEF IInv

LEMMA ReadFailedKeeps ==
    ASSUME IInv, ReadFailed
    PROVE  IInv'
<1>1. /\ failed /\ lost /\ UNCHANGED <<receiver, sent, wire, buffer, got, failed, lost, delivered>>
  BY DEF ReadFailed, IInv
<1>2. UnderWay' = UnderWay
  BY <1>1 DEF UnderWay
<1>3. corrupt' \in BOOLEAN /\ pc' \in {"receive", "parse"} /\ (pc' = "parse" => pc = "parse")
  <2>1. corrupt \in BOOLEAN /\ pc = "parse"
    BY DEF IInv, TypeOK, ReadFailed
  <2>2. PICK h \in Garbage : \/ pc' = "receive" /\ UNCHANGED corrupt
                             \/ corrupt' = TRUE /\ UNCHANGED pc
    BY DEF ReadFailed
  <2>3. CASE pc' = "receive" /\ UNCHANGED corrupt
    BY <2>1, <2>3
  <2>4. CASE corrupt' = TRUE /\ UNCHANGED pc
    BY <2>1, <2>4
  <2>. QED BY <2>2, <2>3, <2>4
<1>4. TypeOK'
  <2>1. corrupt' \in BOOLEAN
    BY <1>3
  <2>2. pc' \in {"receive", "parse"} /\ (pc' = "parse" => buffer' # <<>>)
    BY <1>1, <1>3 DEF IInv, TypeOK
  <2>3. failed' \in BOOLEAN /\ lost' \in BOOLEAN
    BY <1>1 DEF IInv, TypeOK
  <2>. QED BY <1>1, <2>1, <2>2, <2>3 DEF IInv, TypeOK
<1>. QED BY <1>1, <1>2, <1>4, BytesStay

LEMMA SplitHeaderKeeps ==
    ASSUME IInv, SplitHeader
    PROVE  IInv'
<1>1. /\ Len(buffer) = 1 /\ buffer' = <<>> /\ lost' = TRUE /\ failed' = (receiver = "client")
      /\ pc' = "receive" /\ UNCHANGED <<receiver, sent, wire, got, delivered>>
      /\ buffer \in Seq(Byte) /\ wire \in Seq(Byte) /\ TypeOK
  BY DEF SplitHeader, IInv, TypeOK
<1>2. corrupt' \in BOOLEAN
  <2>1. corrupt \in BOOLEAN
    BY <1>1 DEF TypeOK
  <2>2. corrupt' \in (IF receiver = "client" THEN {corrupt} ELSE {corrupt, TRUE})
    BY DEF SplitHeader
  <2>3. corrupt' = corrupt \/ corrupt' = TRUE
    BY <2>2
  <2>. QED BY <2>1, <2>3
<1>3. TypeOK'
  <2>1. failed' \in BOOLEAN /\ lost' \in BOOLEAN
    BY <1>1
  <2>2. /\ buffer' \in Seq(Byte) /\ pc' \in {"receive", "parse"}
        /\ pc' = "parse" => buffer' # <<>>
    BY <1>1
  <2>. QED BY <1>1, <1>2, <2>1, <2>2 DEF TypeOK
<1>4. Placed(UnderWay', sent')
  <2>1. 1 \in 0 .. Len(buffer) /\ SubSeq(buffer, 1 + 1, Len(buffer)) = <<>>
    BY <1>1
  <2>2. Behind(<<>> \o wire, UnderWay, 1)
    BY <1>1, <2>1, Dropped DEF UnderWay
  <2>3. /\ UnderWay \in Seq(Byte) /\ <<>> \o wire \in Seq(Byte) /\ 1 \in 0 .. Len(UnderWay)
    <3>1. UnderWay \in Seq(Byte) /\ Len(UnderWay) = Len(buffer) + Len(wire) /\ Len(wire) \in Nat
      BY <1>1, UnderWayBytes
    <3>2. <<>> \in Seq(Byte)
      OBVIOUS
    <3>3. <<>> \o wire \in Seq(Byte)
      BY <1>1, <3>2, Concat
    <3>. QED BY <1>1, <3>1, <3>3
  <2>4. Placed(<<>> \o wire, sent)
    BY <2>2, <2>3, Suffix DEF IInv
  <2>. QED BY <1>1, <2>4 DEF UnderWay
<1>. QED BY <1>1, <1>3, <1>4 DEF IInv, InOrder

-----------------------------------------------------------------------------
(* The bytes that leave the buffer with a frame of size h.                 *)
Fetched(h) == IF h < 2 THEN Len(buffer) ELSE h

LEMMA FetchCuts ==
    ASSUME TypeOK, NEW h \in Nat, ~Lacks(h)
    PROVE  Fetched(h) \in 0 .. Len(buffer) /\ Rest(h) = SubSeq(buffer, Fetched(h) + 1, Len(buffer))
<1>1. buffer \in Seq(Byte) /\ Len(buffer) \in Nat
  BY DEF TypeOK
<1>2. CASE h < 2
  <2>1. SubSeq(buffer, Len(buffer) + 1, Len(buffer)) = <<>>
    <3>1. Len(buffer) + 1 \in Int /\ Len(buffer) \in Int /\ Len(buffer) < Len(buffer) + 1
      BY <1>1
    <3>. QED BY <3>1, SubSeqEmpty
  <2>2. Fetched(h) = Len(buffer) /\ Rest(h) = <<>>
    BY <1>2 DEF Rest, Fetched
  <2>. QED BY <1>1, <2>1, <2>2
<1>3. CASE ~(h < 2)
  <2>1. h \in 0 .. Len(buffer)
    BY <1>1, <1>3 DEF Lacks
  <2>2. Fetched(h) = h /\ Rest(h) = SubSeq(buffer, h + 1, Len(buffer))
    BY <1>3 DEF Rest, Fetched
  <2>. QED BY <2>1, <2>2
<1>. QED BY <1>2, <1>3

LEMMA FetchKeeps ==
    ASSUME IInv, Fetch
    PROVE  IInv'
<1>1. PICK h \in HeaderValues :
          /\ ~Lacks(h)
          /\ buffer' = Rest(h)
          /\ pc' = LoopOn(buffer')
          /\ delivered' = IF Aligned /\ ~Discards(h)
                          THEN Append(delivered, buffer[1].frame) ELSE delivered
          /\ corrupt' = (corrupt \/ (~Aligned /\ ~Discards(h)))
  BY DEF Fetch
<1>2. /\ TypeOK /\ Len(buffer) >= 2 /\ buffer \in Seq(Byte) /\ wire \in Seq(Byte)
      /\ delivered \in Seq(Frames)
      /\ UNCHANGED <<receiver, sent, wire, got, failed, lost>>
  BY DEF Fetch, IInv, TypeOK
<1>. DEFINE f == buffer[1].frame
<1>3. /\ UnderWay \in Seq(Byte) /\ Len(UnderWay) = Len(buffer) + Len(wire)
      /\ Len(buffer) \in Nat /\ Len(wire) \in Nat /\ DOMAIN UnderWay = 1 .. Len(UnderWay)
      /\ \A n \in 1 .. Len(buffer) : UnderWay[n] = buffer[n]
      /\ \A n \in 1 .. Len(UnderWay) : UnderWay[n].frame \in Nat /\ UnderWay[n].at \in Nat
  BY <1>2, UnderWayBytes
<1>4. /\ 1 \in 1 .. Len(buffer) /\ 1 \in 1 .. Len(UnderWay) /\ UnderWay[1] = buffer[1]
      /\ f \in 1 .. Len(sent) /\ f \in Frames
  <2>1. 1 \in 1 .. Len(buffer) /\ 1 \in 1 .. Len(UnderWay)
    BY <1>2, <1>3
  <2>2. buffer[1] \in Byte
    BY <1>2, <2>1
  <2>. QED BY <1>3, <2>1, <2>2 DEF IInv, Placed, Byte
<1>5. /\ Len(sent) \in Nat /\ DOMAIN sent = 1 .. Len(sent)
      /\ \A g \in 1 .. Len(sent) : sent[g] \in Nat /\ sent[g] >= 2
  BY <1>2, SentSizes
<1>6. h \in Nat /\ (Aligned => h = sent[f])
  BY <1>1, <1>4, <1>5, FramingConstants DEF HeaderValues
<1>7. PICK k : k = Fetched(h)
  OBVIOUS
<1>. HIDE DEF f
<1>8. k \in 0 .. Len(buffer) /\ Rest(h) = SubSeq(buffer, k + 1, Len(buffer)) /\ (h >= 2 => k = h)
  <2>1. TypeOK /\ ~Lacks(h) /\ h \in Nat
    BY <1>1, <1>2, <1>6
  <2>2. Fetched(h) \in 0 .. Len(buffer) /\ Rest(h) = SubSeq(buffer, Fetched(h) + 1, Len(buffer))
    BY <2>1, FetchCuts
  <2>3. h >= 2 => Fetched(h) = h
    BY <2>1 DEF Fetched
  <2>. QED BY <1>7, <2>2, <2>3
<1>9. buffer' = SubSeq(buffer, k + 1, Len(buffer)) /\ buffer' \in Seq(Byte)
  BY <1>1, <1>2, <1>8, Cut
<1>10. TypeOK'
  <2>1. pc' \in {"receive", "parse"} /\ (pc' = "parse" => buffer' # <<>>)
    BY <1>1 DEF LoopOn
  <2>2. corrupt' \in BOOLEAN
    <3>1. corrupt \in BOOLEAN
      BY <1>2 DEF TypeOK
    <3>2. corrupt' = (corrupt \/ (~Aligned /\ ~Discards(h)))
      BY <1>1
    <3>. QED BY <3>1, <3>2, Zenon
  <2>3. delivered' \in Seq(Frames)
    <3>1. Append(delivered, f) \in Seq(Frames)
      BY <1>2, <1>4, AppendProperties
    <3>. QED BY <1>1, <1>2, <3>1 DEF f
  <2>. QED BY <1>2, <1>9, <2>1, <2>2, <2>3 DEF TypeOK
<1>11. /\ UnderWay' \in Seq(Byte) /\ k \in 0 .. Len(UnderWay) /\ Behind(UnderWay', UnderWay, k)
  <2>1. UnderWay' = SubSeq(buffer, k + 1, Len(buffer)) \o wire
    BY <1>2, <1>9 DEF UnderWay
  <2>2. Behind(UnderWay', UnderWay, k)
    BY <1>2, <1>8, <2>1, Dropped DEF UnderWay
  <2>3. UnderWay' \in Seq(Byte)
    BY <1>2, <1>9, <2>1, Concat
  <2>. QED BY <1>3, <1>8, <2>2, <2>3
<1>12. /\ Placed(UnderWay', sent')
       /\ Stream(UnderWay, sent) => Stream(UnderWay', sent')
  <2>1. /\ Placed(UnderWay, sent) => Placed(UnderWay', sent)
        /\ Stream(UnderWay, sent) => Stream(UnderWay', sent)
    BY <1>3, <1>11, Suffix
  <2>. QED BY <1>2, <2>1 DEF IInv
<1>13. CASE lost
  BY <1>2, <1>10, <1>12, <1>13 DEF IInv, InOrder
<1>14. CASE ~lost
  <2>1. /\ Stream(UnderWay, sent) /\ Whole(UnderWay, sent) /\ Joined(UnderWay) /\ Ordered(UnderWay)
        /\ UnderWay[1].at = 1 /\ Aligned /\ h = sent[f] /\ h >= 2 /\ k = h /\ UnderWay[1].frame = f
        /\ f \in Nat
    BY <1>3, <1>4, <1>5, <1>6, <1>8, <1>14 DEF IInv, Stream, Begins, Aligned, f
  <2>2. /\ k \in Nat /\ k >= 2 /\ Len(UnderWay) \in Nat /\ Len(UnderWay') = Len(UnderWay) - k
        /\ \A n \in 1 .. Len(UnderWay') : UnderWay'[n] = UnderWay[n + k] /\ n + k \in 1 .. Len(UnderWay)
        /\ DOMAIN UnderWay' = 1 .. Len(UnderWay') /\ k <= Len(UnderWay)
    BY <1>3, <1>11, <2>1 DEF Behind
  (* The bytes fetched are those of frame f.                               *)
  <2>3. \A n \in 1 .. k : n \in 1 .. Len(UnderWay) /\ UnderWay[n].frame = f /\ UnderWay[n].at = n
    <3>. SUFFICES ASSUME NEW n \in 1 .. k
                  PROVE  n \in 1 .. Len(UnderWay) /\ UnderWay[n].frame = f /\ UnderWay[n].at = n
      OBVIOUS
    <3>1. n - 1 \in Nat /\ 1 + (n - 1) = n /\ 1 + (n - 1) <= sent[UnderWay[1].frame]
      BY <2>1, <2>2
    <3>2. /\ 1 + (n - 1) <= Len(UnderWay) /\ UnderWay[1 + (n - 1)].frame = UnderWay[1].frame
          /\ UnderWay[1 + (n - 1)].at = UnderWay[1].at + (n - 1)
      BY <1>4, <2>1, <3>1 DEF Whole
    <3>. QED BY <2>1, <2>2, <3>1, <3>2
  (* What is behind them belongs to later frames.                          *)
  <2>4. \A n \in 1 .. Len(UnderWay) : n > k => f < UnderWay[n].frame
    <3>. SUFFICES ASSUME NEW n \in 1 .. Len(UnderWay), n > k PROVE f < UnderWay[n].frame
      OBVIOUS
    <3>1. UnderWay[n].frame \in 1 .. Len(sent) /\ UnderWay[n].at \in 1 .. sent[UnderWay[n].frame]
      BY DEF IInv, Placed
    <3>2. CASE f = UnderWay[n].frame /\ UnderWay[n].at - UnderWay[1].at = n - 1
      <4>1. UnderWay[n].at \in 1 .. k
        BY <2>1, <3>1, <3>2
      <4>2. UnderWay[n].at = n
        BY <2>1, <2>2, <3>2, <4>1
      <4>. QED BY <2>2, <4>1, <4>2
    <3>3. 1 < n
      BY <2>2
    <3>. QED BY <1>4, <2>1, <3>2, <3>3 DEF Ordered
  <2>5. Begins(UnderWay')
    <3>. SUFFICES ASSUME Len(UnderWay') > 0 PROVE UnderWay'[1].at = 1
      BY DEF Begins
    <3>1. 1 \in 1 .. Len(UnderWay') /\ UnderWay'[1] = UnderWay[1 + k] /\ 1 + k \in 1 .. Len(UnderWay)
      BY <2>2
    <3>2. /\ 1 + k \in 2 .. Len(UnderWay) /\ (1 + k) - 1 = k /\ 1 + k > k /\ k \in 1 .. k
      BY <2>2, <3>1
    <3>3. UnderWay[k].frame = f /\ f < UnderWay[1 + k].frame
      BY <2>3, <2>4, <3>1, <3>2
    <3>4. UnderWay[1 + k].at # 1 => UnderWay[k].frame = UnderWay[1 + k].frame
      <4>1. UnderWay[1 + k].at # 1 => UnderWay[(1 + k) - 1].frame = UnderWay[1 + k].frame
        BY <2>1, <3>2 DEF Joined
      <4>. QED BY <3>2, <4>1
    <3>5. UnderWay[1 + k].frame \in Nat
      BY <1>3, <3>1
    <3>6. UnderWay[1 + k].at = 1
      BY <2>1, <3>3, <3>4, <3>5
    <3>. QED BY <3>1, <3>6
  (* The header of f leaves, those of later frames move up.                *)
  <2>6. /\ \A n \in Heads : n = 1 \/ (n > k /\ n - k \in Heads' /\ UnderWay'[n - k] = UnderWay[n])
        /\ \A n \in Heads' : n + k \in Heads /\ n + k > k /\ UnderWay'[n] = UnderWay[n + k]
        /\ 1 \in Heads
    <3>1. ASSUME NEW n \in Heads, n # 1
          PROVE  n > k /\ n - k \in Heads' /\ UnderWay'[n - k] = UnderWay[n]
      <4>1. n \in 1 .. Len(UnderWay) /\ UnderWay[n].at = 1
        BY <1>3, <3>1 DEF Heads
      <4>2. ~(n \in 1 .. k)
        BY <2>3, <3>1, <4>1
      <4>3. n > k /\ n - k \in 1 .. Len(UnderWay') /\ (n - k) + k = n
        BY <2>2, <4>1, <4>2
      <4>4. UnderWay'[n - k] = UnderWay[n]
        BY <2>2, <4>3
      <4>. QED BY <2>2, <4>1, <4>3, <4>4 DEF Heads
    <3>2. ASSUME NEW n \in Heads'
          PROVE  n + k \in Heads /\ n + k > k /\ UnderWay'[n] = UnderWay[n + k]
      <4>1. n \in 1 .. Len(UnderWay') /\ UnderWay'[n].at = 1
        BY <2>2, <3>2 DEF Heads
      <4>2. n + k \in 1 .. Len(UnderWay) /\ UnderWay'[n] = UnderWay[n + k] /\ n + k > k
        BY <2>2, <4>1
      <4>. QED BY <1>3, <4>1, <4>2 DEF Heads
    <3>3. 1 \in Heads
      BY <1>3, <1>4, <2>1 DEF Heads
    <3>. QED BY <3>1, <3>2, <3>3
  <2>7. /\ ~corrupt /\ Increasing(delivered)
        /\ \A i \in DOMAIN delivered, n \in Heads : delivered[i] < UnderWay[n].frame
        /\ \A m, n \in Heads : m < n => UnderWay[m].frame < UnderWay[n].frame
        /\ { delivered[i] : i \in DOMAIN delivered }
             \union { g \in { UnderWay[n].frame : n \in Heads } : Kept(g) }
             = { g \in DOMAIN sent : Kept(g) }
    BY <1>14 DEF IInv, InOrder
  <2>8. /\ delivered' = (IF Kept(f) THEN Append(delivered, f) ELSE delivered) /\ ~corrupt'
        /\ \A g : Kept(g)' <=> Kept(g)
    <3>1. /\ delivered' = (IF Kept(f) THEN Append(delivered, f) ELSE delivered)
          /\ \A g : Kept(g)' <=> Kept(g)
      BY <1>1, <1>2, <2>1 DEF Kept, Discards, f
    <3>2. ~corrupt'
      <4>1. corrupt' = (corrupt \/ (~Aligned /\ ~Discards(h)))
        BY <1>1
      <4>. QED BY <2>1, <2>7, <4>1, Zenon
    <3>. QED BY <3>1, <3>2
  <2>9. /\ Append(delivered, f) \in Seq(Frames) /\ Len(delivered) \in Nat
        /\ DOMAIN delivered = 1 .. Len(delivered)
        /\ DOMAIN Append(delivered, f) = 1 .. (Len(delivered) + 1)
        /\ \A i \in 1 .. Len(delivered) : Append(delivered, f)[i] = delivered[i]
        /\ Append(delivered, f)[Len(delivered) + 1] = f
    BY <1>2, <1>4, AppendProperties
  <2>10. \A i \in DOMAIN delivered : delivered[i] < f /\ delivered[i] \in Nat
    <3>1. \A i \in DOMAIN delivered : delivered[i] \in Frames
      BY <1>2
    <3>. QED BY <2>1, <2>6, <2>7, <3>1 DEF Frames
  <2>11. \A i \in DOMAIN delivered' : \/ i \in DOMAIN delivered /\ delivered'[i] = delivered[i]
                                      \/ Kept(f) /\ i = Len(delivered) + 1 /\ delivered'[i] = f
    <3>1. CASE Kept(f)
      <4>1. delivered' = Append(delivered, f)
        BY <2>8, <3>1
      <4>2. \A i \in 1 .. (Len(delivered) + 1) : i \in 1 .. Len(delivered) \/ i = Len(delivered) + 1
        BY <2>9
      <4>. QED BY <2>9, <3>1, <4>1, <4>2
    <3>2. CASE ~Kept(f)
      BY <2>8, <3>2
    <3>. QED BY <3>1, <3>2
  <2>12. Increasing(delivered')
    <3>. SUFFICES ASSUME NEW i \in DOMAIN delivered', NEW j \in DOMAIN delivered', i < j
                  PROVE  delivered'[i] < delivered'[j]
      BY DEF Increasing
    <3>1. j \in DOMAIN delivered => i \in DOMAIN delivered /\ i # Len(delivered) + 1
      BY <2>9, <2>11
    <3>2. CASE j \in DOMAIN delivered /\ delivered'[j] = delivered[j]
      <4>1. i \in DOMAIN delivered /\ delivered'[i] = delivered[i]
        BY <2>11, <3>1, <3>2
      <4>. QED BY <2>7, <3>2, <4>1 DEF Increasing
    <3>3. CASE j = Len(delivered) + 1 /\ delivered'[j] = f
      <4>1. i # Len(delivered) + 1
        BY <2>9, <3>3
      <4>2. i \in DOMAIN delivered /\ delivered'[i] = delivered[i]
        BY <2>11, <4>1
      <4>. QED BY <2>10, <3>3, <4>2
    <3>. QED BY <2>11, <3>2, <3>3
  <2>13. \A n \in Heads' : f < UnderWay'[n].frame /\ UnderWay'[n].frame \in Nat
    <3>. SUFFICES ASSUME NEW n \in Heads'
                  PROVE  f < UnderWay'[n].frame /\ UnderWay'[n].frame \in Nat
      OBVIOUS
    <3>1. n + k \in 1 .. Len(UnderWay) /\ n + k > k /\ UnderWay'[n] = UnderWay[n + k]
      BY <1>3, <2>6 DEF Heads
    <3>. QED BY <1>3, <2>4, <3>1
  <2>14. \A i \in DOMAIN delivered', n \in Heads' : delivered'[i] < UnderWay'[n].frame
    <3>. SUFFICES ASSUME NEW i \in DOMAIN delivered', NEW n \in Heads'
                  PROVE  delivered'[i] < UnderWay'[n].frame
      OBVIOUS
    <3>1. delivered'[i] \in Nat /\ (delivered'[i] < f \/ delivered'[i] = f)
      BY <2>1, <2>10, <2>11
    <3>. QED BY <2>1, <2>13, <3>1
  <2>15. \A m, n \in Heads' : m < n => UnderWay'[m].frame < UnderWay'[n].frame
    <3>. SUFFICES ASSUME NEW m \in Heads', NEW n \in Heads', m < n
                  PROVE  UnderWay'[m].frame < UnderWay'[n].frame
      OBVIOUS
    <3>1. m \in Nat /\ n \in Nat
      BY <2>2 DEF Heads
    <3>2. m + k < n + k
      BY <2>2, <3>1
    <3>. QED BY <2>6, <2>7, <3>2
  <2>16. { delivered'[i] : i \in DOMAIN delivered' }
          \union { g \in { UnderWay'[n].frame : n \in Heads' } : Kept(g)' }
          = { g \in DOMAIN sent' : Kept(g)' }
    <3>. DEFINE D == { delivered[i] : i \in DOMAIN delivered }
    <3>. DEFINE H == { UnderWay[n].frame : n \in Heads }
    <3>. DEFINE DN == { delivered'[i] : i \in DOMAIN delivered' }
    <3>. DEFINE HN == { UnderWay'[n].frame : n \in Heads' }
    <3>1. \A g : g \in H <=> g \in HN \/ g = f
      <4>1. \A n \in Heads : UnderWay[n].frame \in HN \/ UnderWay[n].frame = f
        BY <2>1, <2>6
      <4>2. \A n \in Heads' : UnderWay'[n].frame \in H
        BY <2>6
      <4>3. f \in H
        BY <2>1, <2>6
      <4>. QED BY <4>1, <4>2, <4>3
    <3>2. \A g : g \in DN <=> g \in D \/ (Kept(f) /\ g = f)
      <4>1. \A i \in DOMAIN delivered' : delivered'[i] \in D \/ (Kept(f) /\ delivered'[i] = f)
        BY <2>11
      <4>2. \A i \in DOMAIN delivered : i \in DOMAIN delivered' /\ delivered'[i] = delivered[i]
        <5>1. \A i \in 1 .. Len(delivered) : i \in 1 .. (Len(delivered) + 1)
          BY <2>9
        <5>. QED BY <2>8, <2>9, <5>1
      <4>3. Kept(f) => f \in DN
        <5>1. Len(delivered) + 1 \in 1 .. (Len(delivered) + 1)
          BY <2>9
        <5>. QED BY <2>8, <2>9, <5>1
      <4>. QED BY <4>1, <4>2, <4>3
    <3>3. \A g : g \in D \/ (g \in H /\ Kept(g)) <=> g \in DOMAIN sent /\ Kept(g)
      <4>. HIDE DEF D, H
      <4>1. D \union { g \in H : Kept(g) } = { g \in DOMAIN sent : Kept(g) }
        BY <2>7 DEF D, H
      <4>. QED BY <4>1
    <3>. HIDE DEF D, H, DN, HN
    <3>4. \A g : g \in DN \/ (g \in HN /\ Kept(g)) <=> g \in DOMAIN sent /\ Kept(g)
      BY <3>1, <3>2, <3>3
    <3>5. DN \union { g \in HN : Kept(g)' } = { g \in DOMAIN sent' : Kept(g)' }
      BY <1>2, <2>8, <3>4
    <3>. QED BY <3>5 DEF DN, HN
  <2>17. InOrder'
    BY <2>8, <2>12, <2>14, <2>15, <2>16 DEF InOrder
  <2>. QED BY <1>2, <1>10, <1>12, <1>14, <2>1, <2>5, <2>17 DEF IInv
<1>. QED BY <1>13, <1>14

LEMMA NextKeeps == IInv /\ [Next]_vars => IInv'
<1>. SUFFICES ASSUME IInv, [Next]_vars PROVE IInv'
  OBVIOUS
<1>1. CASE UNCHANGED vars
  <2>1. UnderWay' = UnderWay
    BY <1>1 DEF vars, UnderWay
  <2>2. TypeOK'
    BY <1>1 DEF IInv, TypeOK, vars
  <2>. QED BY <1>1, <2>1, <2>2, BytesStay DEF IInv, vars
<1>. QED BY <1>1, SendKeeps, ReceiveKeeps, BreakKeeps, FetchKeeps, SplitHeaderKeeps, ReadFailedKeeps
         DEF Next, Parse

LEMMA Invariance == Spec => []IInv
BY InitInv, NextKeeps, PTL DEF Spec

(* The variables of either end have their types, in every state: however   *)
(* the stream is cut, the loop of asyncReadHandler() runs on a buffer that *)
(* is not empty.                                                           *)
THEOREM TypeCorrect == Spec => []TypeOK
<1>1. IInv => TypeOK
  BY DEF IInv
<1>. QED BY <1>1, Invariance, PTL

(* asyncReadHandler() hands messages over whole, once and in the order     *)
(* they were sent, until a header arrives in two reads: for any sizes and  *)
(* any way of cutting the stream.                                          *)
THEOREM MessagesInOrder == Spec => []InOrder
<1>1. IInv => InOrder
  BY DEF IInv
<1>. QED BY <1>1, Invariance, PTL
=============================================================================
