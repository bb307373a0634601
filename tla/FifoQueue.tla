----------------------------- MODULE FifoQueue -----------------------------
(***************************************************************************)
(* What sync_queue.h promises: values, numbered here as they come, leave   *)
(* in the order they came, each to one consumer; a consumer with a timeout *)
(* gives up only while there is nothing to take.                           *)
(***************************************************************************)
EXTENDS Naturals, Sequences

CONSTANT Consumers

VARIABLES items,     \* put, not taken yet
          waiting,   \* the consumers that asked for a value
          taken      \* the values taken, in order

vars == <<items, waiting, taken>>

Init == items = <<>> /\ waiting = {} /\ taken = <<>>

Put ==
    /\ items' = Append(items, Len(taken) + Len(items) + 1)
    /\ UNCHANGED <<waiting, taken>>

Ask(c) == c \notin waiting /\ waiting' = waiting \cup {c} /\ UNCHANGED <<items, taken>>

Take(c) ==
    /\ c \in waiting /\ items # <<>>
    /\ taken' = Append(taken, Head(items))
    /\ items' = Tail(items)
    /\ waiting' = waiting \ {c}

GiveUp(c) ==
    /\ c \in waiting /\ items = <<>>
    /\ waiting' = waiting \ {c}
    /\ UNCHANGED <<items, taken>>

TakeAny == \E c \in Consumers : Take(c)

Next ==
    \/ Put
    \/ \E c \in Consumers : Ask(c) \/ GiveUp(c)
    \/ TakeAny

\* Safety alone, and with the promise that values do not lie there while a
\* consumer waits.
SafeSpec == Init /\ [][Next]_vars
Spec     == SafeSpec /\ WF_vars(TakeAny)
=============================================================================
