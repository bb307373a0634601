---------------------------- MODULE ConflictSet ----------------------------
(***************************************************************************)
(* What the engine promises of the conflict set: a set of activations,     *)
(* each of them of one match, from which Run() takes one of the module in  *)
(* focus that no other of this module comes before.  How a list is kept in *)
(* order for that, and brought into a new order, is not seen from here.    *)
(***************************************************************************)
EXTENDS Agenda

CONSTANTS Main, AutoFocus, NoActivation

VARIABLES pending,      \* the activations that are to fire
          strategy,
          focus,        \* the focus stack, its top first
          phase,        \* "idle", "test", "rhs" or "next", as in RuleEngine
          executing

vars == <<pending, strategy, focus, phase, executing>>

Init == /\ pending = {} /\ strategy = "depth" /\ focus = <<Main>>
        /\ phase = "idle" /\ executing = NoActivation

ModuleOfActivation(a) == ModuleOf[RuleOf[a.basis]]
PendingOf(m) == { a \in pending : ModuleOfActivation(a) = m }

\* Commands are given at the prompt and by the rule that fires, not in between.
AtCommand == phase \in {"idle", "rhs"}

\* A match that has no activation gets one, the youngest.
Activate(a) ==
  /\ AtCommand
  /\ a \in Activation
  /\ \A b \in pending : b.basis # a.basis /\ b.timetag < a.timetag
  /\ pending' = pending \union {a}
  /\ focus' = IF RuleOf[a.basis] \in AutoFocus /\ (focus # <<>> => Head(focus) # ModuleOfActivation(a))
              THEN <<ModuleOfActivation(a)>> \o focus ELSE focus
  /\ UNCHANGED <<strategy, phase, executing>>

Deactivate(a) ==
  /\ AtCommand
  /\ pending' = pending \ {a}
  /\ UNCHANGED <<strategy, focus, phase, executing>>

\* The rules of a module get new saliences, and so do their activations.
Evaluate(m) ==
  /\ phase # "test"
  /\ \E salience \in [Rules -> Saliences] :
       pending' = (pending \ PendingOf(m)) \union
                    { [a EXCEPT !.salience = salience[RuleOf[a.basis]]] : a \in PendingOf(m) }
  /\ UNCHANGED <<strategy, focus, phase, executing>>

SetStrategy(st) ==
  /\ AtCommand
  /\ strategy' = st
  /\ UNCHANGED <<pending, focus, phase, executing>>

ChangeFocus ==
  /\ AtCommand
  /\ focus' \in { <<m>> \o focus : m \in Modules } \union { <<>>, <<Main>> }
                  \union (IF focus = <<>> THEN {} ELSE { Tail(focus) })
  /\ UNCHANGED <<pending, strategy, phase, executing>>

\* Modules lose the focus that have nothing to fire, and no others; after a return
\* the current module loses it first.
Select ==
  /\ phase \in {"idle", "next"}
  /\ \E f \in {focus, IF focus = <<>> THEN focus ELSE Tail(focus)} :
       LET g == IF f = <<>> THEN <<Main>> ELSE f
       IN  /\ phase = "idle" => f = focus
           /\ \E n \in 1..(Len(g) + 1) :
                /\ focus' = SubSeq(g, n, Len(g))
                /\ \A k \in 1..(n - 1) : PendingOf(g[k]) = {}
                /\ n <= Len(g) => PendingOf(g[n]) # {}
  /\ phase' = "test"
  /\ UNCHANGED <<pending, strategy, executing>>

\* The activation that fires comes before all others of the module in focus.
Fire(a) ==
  /\ phase = "test" /\ focus # <<>>
  /\ a \in PendingOf(Head(focus))
  /\ \A b \in PendingOf(Head(focus)) : b # a => StaysAhead(strategy, a, b)
  /\ pending' = pending \ {a}
  /\ executing' = a
  /\ phase' = "rhs"
  /\ UNCHANGED <<strategy, focus>>

Finish ==
  /\ phase = "rhs"
  /\ phase' = "next" /\ executing' = NoActivation
  /\ UNCHANGED <<pending, strategy, focus>>

EndOfRun ==
  /\ phase = "test"
  /\ phase' = "idle"
  /\ UNCHANGED <<pending, strategy, focus, executing>>

Next ==
  \/ \E a \in pending' \ pending : Activate(a)
  \/ \E a \in pending : Deactivate(a) \/ Fire(a)
  \/ \E m \in Modules : Evaluate(m)
  \/ \E st \in Strategies : SetStrategy(st)
  \/ ChangeFocus \/ Select \/ Finish \/ EndOfRun

Spec == Init /\ [][Next]_vars
==============================================================================
