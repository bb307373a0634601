----------------------------- MODULE SyncQueue -----------------------------
(***************************************************************************)
(* The synchronous queue of the server (sync_queue.h), for any threads.    *)
(*                                                                         *)
(* Every access to the queue and every notification happens with the mutex *)
(* held, so a critical section is one action; wait() splits its caller's   *)
(* in two.  A timeout may expire at any moment.                            *)
(***************************************************************************)
EXTENDS Naturals, Sequences, FiniteSets

CONSTANTS Threads,
          MaxCalls   \* bound: operations begun by all threads together

ASSUME QueueConstants == IsFiniteSet(Threads) /\ MaxCalls \in Nat

Operations == {"produce", "timedProduce", "consume", "timedConsume"}
Producing  == {"produce", "timedProduce"}

VARIABLES q,      \* sync_queue::_q, the values 1, 2, ... in the order produced
          pc,     \* per thread: "idle", "lock" (before the mutex), "asleep" in
                  \* wait(), "woken" or "expired" (leaving wait(), before the mutex)
          op,     \* per thread: the operation under way
          calls,  \* operations begun
          made,   \* values produced
          taken   \* values retrieved, in order

vars == <<q, pc, op, calls, made, taken>>

TypeOK ==
    /\ q \in Seq(1 .. made)
    /\ pc \in [Threads -> {"idle", "lock", "asleep", "woken", "expired"}]
    /\ op \in [Threads -> Operations]
    /\ calls \in Nat
    /\ made \in Nat
    /\ taken \in Seq(1 .. made)
    /\ \A t \in Threads : pc[t] \in {"asleep", "woken", "expired"} => op[t] \notin Producing

Init ==
    /\ q = <<>>
    /\ pc = [t \in Threads |-> "idle"]
    /\ op = [t \in Threads |-> "produce"]
    /\ calls = 0 /\ made = 0
    /\ taken = <<>>

Call(t) ==
    /\ pc[t] = "idle" /\ calls < MaxCalls
    /\ calls' = calls + 1
    /\ \E o \in Operations : op' = [op EXCEPT ![t] = o]
    /\ pc' = [pc EXCEPT ![t] = "lock"]
    /\ UNCHANGED <<q, made, taken>>

Asleep == {t \in Threads : pc[t] = "asleep"}
Leaving == {t \in Threads : pc[t] \in {"woken", "expired"}}

\* Mutant: a value is notified only when the queue was empty.
NotifyIfEmpty(t) ==
    IF Asleep = {} \/ q # <<>>
    THEN pc' = [pc EXCEPT ![t] = "idle"]
    ELSE \E u \in Asleep : pc' = [pc EXCEPT ![t] = "idle", ![u] = "woken"]
\* _cv.notify_one(), and t returns.
NotifyOne(t) ==
    IF Asleep = {}
    THEN pc' = [pc EXCEPT ![t] = "idle"]
    ELSE \E u \in Asleep : pc' = [pc EXCEPT ![t] = "idle", ![u] = "woken"]

\* Mutants: the value overtakes those in the queue; it is not the one produced.
PushFront(s, v) == <<v>> \o s
PushNext(s, v) == Append(s, v + 1)
\* _q.push()
Push(s, v) == Append(s, v)

\* produce(), and timedProduce() when it gets the mutex.
Produce(t) ==
    /\ pc[t] = "lock" /\ op[t] \in Producing
    /\ made' = made + 1
    /\ q' = Push(q, made + 1)
    /\ NotifyOne(t)
    /\ UNCHANGED <<op, calls, taken>>

\* try_lock_for() fails.
ProduceTimeout(t) ==
    /\ pc[t] = "lock" /\ op[t] = "timedProduce"
    /\ pc' = [pc EXCEPT ![t] = "idle"]
    /\ UNCHANGED <<q, op, calls, made, taken>>

\* consume() and timedConsume() holding the mutex, at first or back from wait():
\* the queue has a value ...
Retrieve(t) ==
    /\ pc[t] \in {"lock", "woken", "expired"} /\ op[t] \notin Producing
    /\ q # <<>>
    /\ taken' = Append(taken, Head(q))
    /\ q' = Tail(q)
    /\ pc' = [pc EXCEPT ![t] = "idle"]
    /\ UNCHANGED <<op, calls, made>>

\* Mutant: wait() without looking at the queue first.
SleepOnArrival(t) == pc[t] = "lock" \/ (pc[t] = "woken" /\ q = <<>>)
\* ... or it has none, and the thread waits ...
SleepCondition(t) == pc[t] \in {"lock", "woken"} /\ q = <<>>

Sleep(t) ==
    /\ op[t] \notin Producing
    /\ SleepCondition(t)
    /\ pc' = [pc EXCEPT ![t] = "asleep"]
    /\ UNCHANGED <<q, op, calls, made, taken>>

\* ... or leaves, its timeout expired with the queue still empty.
GivesUp(t) == pc[t] = "expired" /\ q = <<>>

ConsumeTimeout(t) ==
    /\ GivesUp(t)
    /\ pc' = [pc EXCEPT ![t] = "idle"]
    /\ UNCHANGED <<q, op, calls, made, taken>>

\* The timeout of wait_for() expires.
Expire(t) ==
    /\ pc[t] = "asleep" /\ op[t] = "timedConsume"
    /\ pc' = [pc EXCEPT ![t] = "expired"]
    /\ UNCHANGED <<q, op, calls, made, taken>>

SpuriousWakeup(t) ==
    /\ pc[t] = "asleep"
    /\ pc' = [pc EXCEPT ![t] = "woken"]
    /\ UNCHANGED <<q, op, calls, made, taken>>

Step(t) == Produce(t) \/ Retrieve(t) \/ Sleep(t) \/ ConsumeTimeout(t)

Next ==
    \E t \in Threads :
        Call(t) \/ Step(t) \/ ProduceTimeout(t) \/ Expire(t) \/ SpuriousWakeup(t)

Spec == Init /\ [][Next]_vars

\* A thread that can get the mutex gets it in the end; nobody has to call, and
\* neither wake-ups nor timeouts are owed.
FairSpec == Spec /\ \A t \in Threads : WF_vars(Step(t))
-----------------------------------------------------------------------------
(* Properties                                                              *)

\* While a consumer sleeps, every value in the queue has another consumer on its
\* way out of wait() to fetch it: no notification is lost, whoever gets the mutex
\* first and however timeouts and spurious wake-ups fall.
EveryValueHasATaker == Asleep # {} => Len(q) <= Cardinality(Leaving)

Waiting == {t \in Threads : pc[t] # "idle" /\ op[t] \notin Producing}

Fifo == INSTANCE FifoQueue
        WITH Consumers <- Threads, items <- q, waiting <- Waiting, taken <- taken

\* The queue hands every value to one consumer, in the order produced, and a timed
\* consumer returns empty-handed only from an empty queue.
FifoSafe == Fifo!SafeSpec

\* And no value lies in the queue for ever while a consumer waits.
FifoLive == Fifo!Spec
=============================================================================
