--------------------------- MODULE SyncQueueProofs ---------------------------
(***************************************************************************)
(* Proofs about SyncQueue: it loses no notification and implements         *)
(* FifoQueue, for any number of threads and calls.                         *)
(***************************************************************************)
EXTENDS SyncQueue, SequenceTheorems, FiniteSetTheorems, TLAPS

\* Values are in the queue or were taken.
Conservation == made = Len(q) + Len(taken)

QInv == TypeOK /\ Conservation

\* A notification or none, one thread returns and nothing changes but pc.
LEMMA NotifyCases ==
    ASSUME TypeOK, NEW t \in Threads, pc[t] = "lock", NotifyOne(t)
    PROVE  \/ Asleep = {} /\ pc' = [pc EXCEPT ![t] = "idle"]
           \/ \E u \in Threads \ {t} :
                 pc[u] = "asleep" /\ pc' = [pc EXCEPT ![t] = "idle", ![u] = "woken"]
BY DEF NotifyOne, Asleep

\* A longer range has the sequences of a shorter one.
LEMMA SeqGrows ==
    ASSUME NEW m \in Nat, NEW s \in Seq(1 .. m)
    PROVE  s \in Seq(1 .. m + 1)
<1>1. \A i \in 1 .. Len(s) : s[i] \in 1 .. m + 1
  OBVIOUS
<1> QED BY <1>1

\* The queue stays well typed and conserves values.
LEMMA QStep == QInv /\ [Next]_vars => QInv'
<1> SUFFICES ASSUME QInv, [Next]_vars PROVE QInv'
  OBVIOUS
<1> USE DEF QInv, TypeOK, Conservation
<1>1. ASSUME NEW t \in Threads, Call(t) PROVE QInv'
  BY <1>1 DEF Call
<1>2. ASSUME NEW t \in Threads, Produce(t) PROVE QInv'
  <2>1. q \in Seq(1 .. made + 1) /\ taken \in Seq(1 .. made + 1)
    BY SeqGrows
  <2>2. made' = made + 1 /\ q' = Append(q, made + 1) /\ taken' = taken
    BY <1>2 DEF Produce, Push
  <2>3. q' \in Seq(1 .. made') /\ Len(q') = Len(q) + 1
    BY <2>1, <2>2, AppendProperties
  <2>4. pc' \in [Threads -> {"idle", "lock", "asleep", "woken", "expired"}]
    BY <1>2, NotifyCases DEF Produce
  <2>5. \A u \in Threads : pc'[u] \in {"asleep", "woken", "expired"}
                             => pc[u] \in {"asleep", "woken", "expired"}
    BY <1>2, NotifyCases DEF Produce
  <2>6. op' = op /\ calls' = calls
    BY <1>2 DEF Produce
  <2>7. made' \in Nat /\ made' = Len(q') + Len(taken')
    BY <2>2, <2>3
  <2>8. taken' \in Seq(1 .. made')
    BY <2>1, <2>2
  <2>9. \A u \in Threads : pc'[u] \in {"asleep", "woken", "expired"} => op'[u] \notin Producing
    BY <2>5, <2>6
  <2> HIDE DEF TypeOK
  <2>10. op \in [Threads -> Operations] /\ calls \in Nat
    BY DEF TypeOK
  <2> QED BY <2>3, <2>4, <2>6, <2>7, <2>8, <2>9, <2>10 DEF TypeOK
<1>3. ASSUME NEW t \in Threads, Retrieve(t) PROVE QInv'
  <2>1. Head(q) \in 1 .. made /\ Tail(q) \in Seq(1 .. made) /\ Len(Tail(q)) = Len(q) - 1
    BY <1>3, HeadTailProperties DEF Retrieve
  <2>2. taken' \in Seq(1 .. made) /\ Len(taken') = Len(taken) + 1
    BY <1>3, <2>1, AppendProperties DEF Retrieve
  <2> QED BY <1>3, <2>1, <2>2 DEF Retrieve
<1>4. ASSUME NEW t \in Threads, Sleep(t) PROVE QInv'
  BY <1>4 DEF Sleep
<1>5. ASSUME NEW t \in Threads, ConsumeTimeout(t) PROVE QInv'
  BY <1>5 DEF ConsumeTimeout
<1>6. ASSUME NEW t \in Threads, ProduceTimeout(t) PROVE QInv'
  BY <1>6 DEF ProduceTimeout
<1>7. ASSUME NEW t \in Threads, Expire(t) PROVE QInv'
  BY <1>7 DEF Expire
<1>8. ASSUME NEW t \in Threads, SpuriousWakeup(t) PROVE QInv'
  BY <1>8 DEF SpuriousWakeup
<1>9. CASE UNCHANGED vars
  BY <1>9 DEF vars
<1> QED BY <1>1, <1>2, <1>3, <1>4, <1>5, <1>6, <1>7, <1>8, <1>9 DEF Next, Step

\* Type correctness of the queue, and conservation of its values.
THEOREM QueueInvariant == Spec => [](TypeOK /\ Conservation)
<1>1. Init => QInv
  BY EmptySeq DEF Init, QInv, TypeOK, Conservation, Operations
<1> QED BY <1>1, QStep, PTL DEF Spec, QInv
-----------------------------------------------------------------------------
\* The threads on their way out of wait() are finitely many.
LEMMA LeavingFinite == IsFiniteSet(Leaving) /\ Cardinality(Leaving) \in Nat
BY QueueConstants, FS_Subset, FS_CardinalityType DEF Leaving

\* EveryValueHasATaker is inductive: a value that comes wakes a sleeper if there is
\* one, and who leaves wait() takes a value or finds none.
LEMMA TakerStep == QInv /\ EveryValueHasATaker /\ [Next]_vars => EveryValueHasATaker'
<1> SUFFICES ASSUME QInv, EveryValueHasATaker, [Next]_vars, Asleep' # {}
             PROVE  Len(q') <= Cardinality(Leaving')
  BY DEF EveryValueHasATaker
<1> USE DEF QInv, TypeOK
<1>0. Len(q) \in Nat /\ Cardinality(Leaving) \in Nat /\ (Asleep # {} => Len(q) <= Cardinality(Leaving))
  BY LeavingFinite DEF EveryValueHasATaker
<1>1. ASSUME NEW t \in Threads, Call(t) \/ ProduceTimeout(t) PROVE Len(q') <= Cardinality(Leaving')
  <2>1. q' = q /\ Asleep' = Asleep /\ Leaving' = Leaving
    BY <1>1 DEF Call, ProduceTimeout, Asleep, Leaving
  <2> QED BY <1>0, <2>1
<1>2. ASSUME NEW t \in Threads, Produce(t) PROVE Len(q') <= Cardinality(Leaving')
  <2>1. Len(q') = Len(q) + 1
    BY <1>2, AppendProperties DEF Produce, Push
  <2>2. PICK u \in Threads \ {t} :
           pc[u] = "asleep" /\ pc' = [pc EXCEPT ![t] = "idle", ![u] = "woken"]
    BY <1>2, NotifyCases DEF Produce, Asleep
  <2>3. Leaving' = Leaving \cup {u} /\ u \notin Leaving /\ u \in Asleep
    BY <1>2, <2>2 DEF Produce, Leaving, Asleep
  <2>4. Cardinality(Leaving') = Cardinality(Leaving) + 1
    BY <2>3, LeavingFinite, FS_AddElement
  <2> QED BY <1>0, <2>1, <2>3, <2>4
<1>3. ASSUME NEW t \in Threads, Retrieve(t) PROVE Len(q') <= Cardinality(Leaving')
  <2>1. Len(q') = Len(q) - 1
    BY <1>3, HeadTailProperties DEF Retrieve
  <2>2. Asleep' = Asleep /\ Leaving' = Leaving \ {t}
    BY <1>3 DEF Retrieve, Asleep, Leaving
  <2>3. Cardinality(Leaving') \in Nat /\ Cardinality(Leaving') >= Cardinality(Leaving) - 1
    <3>1. CASE t \in Leaving
      <4>1. Cardinality(Leaving \ {t}) = Cardinality(Leaving) - 1 /\ IsFiniteSet(Leaving \ {t})
        BY <3>1, LeavingFinite, FS_RemoveElement
      <4>2. Cardinality(Leaving \ {t}) \in Nat
        BY <4>1, FS_CardinalityType
      <4> QED BY <1>0, <2>2, <4>1, <4>2
    <3>2. CASE t \notin Leaving
      <4>1. Leaving' = Leaving
        BY <2>2, <3>2
      <4> QED BY <1>0, <4>1
    <3> QED BY <3>1, <3>2
  <2> QED BY <1>0, <2>1, <2>2, <2>3
<1>4. ASSUME NEW t \in Threads, Sleep(t) \/ ConsumeTimeout(t) PROVE Len(q') <= Cardinality(Leaving')
  <2>1. q' = <<>> /\ Len(q') = 0
    BY <1>4 DEF Sleep, SleepCondition, ConsumeTimeout, GivesUp
  <2>2. Leaving' \subseteq Threads
    BY <1>4 DEF Leaving
  <2>3. Cardinality(Leaving') \in Nat
    BY <2>2, QueueConstants, FS_Subset, FS_CardinalityType
  <2> QED BY <2>1, <2>3
<1>5. ASSUME NEW t \in Threads, Expire(t) \/ SpuriousWakeup(t) PROVE Len(q') <= Cardinality(Leaving')
  <2>1. q' = q /\ t \in Asleep /\ t \notin Leaving /\ Leaving' = Leaving \cup {t}
    BY <1>5 DEF Expire, SpuriousWakeup, Asleep, Leaving
  <2>2. Cardinality(Leaving') = Cardinality(Leaving) + 1
    BY <2>1, LeavingFinite, FS_AddElement
  <2> QED BY <1>0, <2>1, <2>2
<1>6. CASE UNCHANGED vars
  <2>1. q' = q /\ Asleep' = Asleep /\ Leaving' = Leaving
    BY <1>6 DEF vars, Asleep, Leaving
  <2> QED BY <1>0, <2>1
<1> QED BY <1>1, <1>2, <1>3, <1>4, <1>5, <1>6 DEF Next, Step

\* No notification is lost: a sleeping consumer never faces a queue longer than the
\* number of consumers on their way to it.
THEOREM NoValueStranded == Spec => []EveryValueHasATaker
<1>1. Init => EveryValueHasATaker
  BY DEF Init, EveryValueHasATaker, Asleep
<1>2. Spec => []QInv
  BY QueueInvariant DEF QInv
<1> QED BY <1>1, <1>2, TakerStep, PTL DEF Spec
-----------------------------------------------------------------------------
\* Every step of the queue is a step of the abstract queue, or leaves it as it is.
LEMMA FifoStep == QInv /\ [Next]_vars => [Fifo!Next]_(Fifo!vars)
<1> SUFFICES ASSUME QInv, [Next]_vars PROVE [Fifo!Next]_(Fifo!vars)
  OBVIOUS
<1> USE DEF QInv, TypeOK
<1>1. ASSUME NEW t \in Threads, Call(t) PROVE [Fifo!Next]_(Fifo!vars)
  <2>1. CASE op'[t] \in Producing
    <3>1. Waiting' = Waiting
      BY <1>1, <2>1 DEF Call, Waiting, Operations
    <3> QED BY <1>1, <3>1 DEF Call, Fifo!vars
  <2>2. CASE op'[t] \notin Producing
    <3>1. t \notin Waiting /\ Waiting' = Waiting \cup {t}
      BY <1>1, <2>2 DEF Call, Waiting, Operations
    <3> QED BY <1>1, <3>1 DEF Call, Fifo!Next, Fifo!Ask
  <2> QED BY <2>1, <2>2
<1>2. ASSUME NEW t \in Threads, Produce(t) PROVE [Fifo!Next]_(Fifo!vars)
  <2>1. Waiting' = Waiting
    BY <1>2, NotifyCases DEF Produce, Waiting
  <2>2. q' = Append(q, Len(taken) + Len(q) + 1)
    <3>1. made + 1 = Len(taken) + Len(q) + 1
      BY DEF Conservation
    <3> QED BY <1>2, <3>1 DEF Produce, Push
  <2> QED BY <1>2, <2>1, <2>2 DEF Produce, Fifo!Next, Fifo!Put
<1>3. ASSUME NEW t \in Threads, Retrieve(t) PROVE [Fifo!Next]_(Fifo!vars)
  <2>1. t \in Waiting /\ Waiting' = Waiting \ {t}
    BY <1>3 DEF Retrieve, Waiting
  <2> QED BY <1>3, <2>1 DEF Retrieve, Fifo!Next, Fifo!TakeAny, Fifo!Take
<1>4. ASSUME NEW t \in Threads, ConsumeTimeout(t) PROVE [Fifo!Next]_(Fifo!vars)
  <2>1. t \in Waiting /\ Waiting' = Waiting \ {t} /\ q = <<>>
    BY <1>4 DEF ConsumeTimeout, GivesUp, Waiting
  <2> QED BY <1>4, <2>1 DEF ConsumeTimeout, Fifo!Next, Fifo!GiveUp
<1>5. ASSUME NEW t \in Threads, Sleep(t) \/ ProduceTimeout(t) \/ Expire(t) \/ SpuriousWakeup(t)
      PROVE  UNCHANGED Fifo!vars
  <2>1. Waiting' = Waiting
    BY <1>5 DEF Sleep, SleepCondition, ProduceTimeout, Expire, SpuriousWakeup, Waiting, Producing
  <2> QED BY <1>5, <2>1 DEF Sleep, ProduceTimeout, Expire, SpuriousWakeup, Fifo!vars
<1>6. CASE UNCHANGED vars
  BY <1>6 DEF vars, Fifo!vars, Waiting
<1> QED BY <1>1, <1>2, <1>3, <1>4, <1>5, <1>6 DEF Next, Step

\* The synchronous queue implements the abstract one: first in, first out, each value
\* to one consumer, and no timed consumer empty-handed while a value is there.
THEOREM ImplementsFifo == Spec => FifoSafe
<1>1. Init => Fifo!Init
  BY DEF Init, Fifo!Init, Waiting
<1>2. Spec => []QInv
  BY QueueInvariant DEF QInv
<1> QED BY <1>1, <1>2, FifoStep, PTL DEF Spec, FifoSafe, Fifo!SafeSpec
=============================================================================
