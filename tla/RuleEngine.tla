----------------------------- MODULE RuleEngine -----------------------------
(***************************************************************************)
(* How the CLIPS 6.0 engine fires rules: Run() and the focus stack of      *)
(* engine.c, the activations and their saliences of agenda.c and the       *)
(* change of strategy of crstrtgy.c.                                       *)
(*                                                                         *)
(* The join network is seen from here by what it calls: a match appears,   *)
(* with AddActivation(), or is gone, with RemoveActivation().  Everything  *)
(* a user or a rule may do between two firings is an action of its own,    *)
(* taken at the prompt or among the actions of the rule that fires, of     *)
(* which there are at most MaxActions.  ReorderAgenda() and                *)
(* RefreshAgenda() are steps, one per activation they place.               *)
(*                                                                         *)
(* A rule in Dynamic has a global variable for its salience.  The current  *)
(* module, run functions and the deletion of rules are left out.           *)
(***************************************************************************)
EXTENDS Agenda, FiniteSets

CONSTANTS ModuleList,     \* the modules in the order they were defined
          Main,
          Dynamic,        \* the rules whose salience is an expression
          AutoFocus,      \* the rules that focus on their module
          Breakable,      \* the rules a breakpoint may be set on
          TriedStrategies, \* the strategies that are set
          Limits,         \* the arguments of run, negative for no limit
          NoActivation,
          MaxTimetag, MaxFocus, MaxActions, MaxChanges   \* bounds of the model

ASSUME ModuleListAssumption ==
  /\ Main \in Modules
  /\ ModuleList \in Seq(Modules)
  /\ \A m \in Modules : \E i \in DOMAIN ModuleList : ModuleList[i] = m
  /\ \A i, j \in DOMAIN ModuleList : ModuleList[i] = ModuleList[j] => i = j
ASSUME RuleSetsAssumption ==
  /\ Dynamic \subseteq Rules /\ AutoFocus \subseteq Rules /\ Breakable \subseteq Rules
  /\ Limits \subseteq Int /\ TriedStrategies \subseteq Strategies
  /\ NoActivation \notin Activation
  /\ 0 \in Saliences

Evaluations == {"when-defined", "when-activated", "every-cycle"}

VARIABLES
  agenda,        \* the agenda of each module
  matches,       \* the complete matches in the last joins
  timetag,       \* CurrentTimetag
  number,        \* NumberOfActivations
  strategy,
  evaluation,    \* SalienceEvaluation
  asked,         \* the salience evaluation that was last asked for
  global,        \* the value of the salience expressions
  ruleSalience,  \* the salience each rule was last given
  focus,         \* the focus stack, its top first
  breaks,        \* the rules with a breakpoint
  pc,            \* "idle", "test", "rhs" or "next": where Run() is
  executing,     \* the activation that fires
  runLimit, rulesFired, halted, returned, actions,
  left,          \* the modules the reordering still has to visit, ...
  refreshing,    \* ... whether it evaluates saliences as well, ...
  taken,         \* ... whether it took the agenda of the first of them, ...
  unplaced,      \* ... what it did not place of it yet
  saved,         \* ... and the salience evaluation it is to restore
  toActivate,    \* the matches refresh has still to activate
  changes        \* how often a setting was changed

settings == <<strategy, asked, global, breaks, changes>>
listVars == <<agenda, timetag, number>>
salienceVars == <<evaluation, ruleSalience>>
runVars == <<pc, executing, runLimit, rulesFired>>
flags == <<halted, returned>>
loopVars == <<left, refreshing, taken, unplaced, saved>>
vars == <<settings, listVars, matches, salienceVars, focus, runVars, flags, actions, loopVars,
          toActivate>>

Init ==
  /\ agenda = [m \in Modules |-> <<>>] /\ matches = {} /\ timetag = 0 /\ number = 0
  /\ strategy = "depth" /\ evaluation = "when-defined" /\ asked = "when-defined"
  /\ global = 0 /\ ruleSalience = [r \in Rules |-> 0]
  /\ focus = <<Main>> /\ breaks = {}
  /\ pc = "idle" /\ executing = NoActivation
  /\ runLimit = 0 /\ rulesFired = 0 /\ halted = FALSE /\ returned = FALSE /\ actions = 0
  /\ left = <<>> /\ refreshing = FALSE /\ taken = FALSE /\ unplaced = <<>>
  /\ saved = "when-defined" /\ toActivate = {} /\ changes = 0

------------------------------------------------------------------------------
(* Commands, at the prompt and among the actions of a rule.                *)

Free == left = <<>> /\ toActivate = {}

Command ==
  /\ Free
  /\ pc \in {"idle", "rhs"}
  /\ pc = "rhs" => actions < MaxActions /\ ~returned
  /\ actions' = IF pc = "rhs" THEN actions + 1 ELSE actions

Change == Command /\ changes < MaxChanges /\ changes' = changes + 1

EvaluateSalience(r) ==
  IF evaluation # "when-defined" /\ r \in Dynamic THEN global ELSE ruleSalience[r]

Focus(f, m) == IF f # <<>> /\ Head(f) = m THEN f ELSE <<m>> \o f

(* AddActivation() for match m.                                            *)
AddActivation(m, id) ==
  LET r == RuleOf[m]
      mod == ModuleOf[r]
      new == [basis |-> m, salience |-> EvaluateSalience(r),
              timetag |-> timetag, random |-> id]
  IN  /\ timetag < MaxTimetag
      /\ r \in AutoFocus => Len(Focus(focus, mod)) <= MaxFocus
      /\ focus' = IF r \in AutoFocus THEN Focus(focus, mod) ELSE focus
      /\ timetag' = timetag + 1
      /\ number' = number + 1
      /\ ruleSalience' = [ruleSalience EXCEPT ![r] = EvaluateSalience(r)]
      /\ agenda' = [agenda EXCEPT ![mod] = PlaceActivation(strategy, @, new)]

MatchAppears(m, id) ==
  /\ Command
  /\ m \notin matches
  /\ matches' = matches \union {m}
  /\ AddActivation(m, id)
  /\ UNCHANGED <<settings, evaluation, runVars, flags, loopVars, toActivate>>

Listed(m) == { n \in DOMAIN agenda[ModuleOf[RuleOf[m]]] :
                 agenda[ModuleOf[RuleOf[m]]][n].basis = m }

MatchIsGone(m) ==
  /\ Command
  /\ m \in matches
  /\ matches' = matches \ {m}
  /\ \/ /\ Listed(m) = {}
        /\ UNCHANGED <<agenda, number>>
     \/ \E n \in Listed(m) :
          /\ agenda' = [agenda EXCEPT ![ModuleOf[RuleOf[m]]] = DropAt(@, n)]
          /\ number' = number - 1
  /\ UNCHANGED <<settings, timetag, salienceVars, focus, runVars, flags, loopVars,
                 toActivate>>

\* Mutant: activations that are still there count as fired.
AllMatches(r) == { m \in matches : RuleOf[m] = r }
Fired(r) == { m \in matches : RuleOf[m] = r /\ Listed(m) = {} }

Refresh(r) ==
  /\ Command
  /\ Fired(r) # {}
  /\ toActivate' = Fired(r)
  /\ UNCHANGED <<settings, listVars, salienceVars, matches, focus, runVars, flags,
                 loopVars>>

RefreshNext(m, id) ==
  /\ m \in toActivate
  /\ toActivate' = toActivate \ {m}
  /\ \/ AddActivation(m, id)
     \/ /\ ~(timetag < MaxTimetag) \/ Len(focus) >= MaxFocus
        /\ UNCHANGED <<listVars, ruleSalience, focus>>
  /\ UNCHANGED <<settings, evaluation, matches, runVars, flags, actions, loopVars>>

FocusCommand(m) ==
  /\ Command
  /\ Len(Focus(focus, m)) <= MaxFocus
  /\ focus' = Focus(focus, m)
  /\ UNCHANGED <<settings, listVars, salienceVars, matches, runVars, flags,
                 loopVars, toActivate>>

Pop(f) == IF f = <<>> THEN f ELSE Tail(f)

(* pop-focus, clear-focus-stack, and ResetDefrules() after a reset took    *)
(* every match away.                                                       *)
FocusStackCommand ==
  /\ Command
  /\ \/ focus' = Pop(focus)
     \/ focus' = <<>>
     \/ matches = {} /\ focus' = Focus(<<>>, Main)
  /\ UNCHANGED <<settings, listVars, salienceVars, matches, runVars, flags,
                 loopVars, toActivate>>

Halt ==
  /\ Command
  /\ pc = "rhs"
  /\ halted' = TRUE
  /\ UNCHANGED <<settings, listVars, salienceVars, matches, focus, runVars,
                 returned, loopVars, toActivate>>

Return ==
  /\ Command
  /\ pc = "rhs"
  /\ returned' = TRUE
  /\ UNCHANGED <<settings, listVars, salienceVars, matches, focus, runVars, halted,
                 loopVars, toActivate>>

Breakpoint(r) ==
  /\ Change
  /\ \/ r \notin breaks /\ breaks' = breaks \union {r}
     \/ r \in breaks /\ breaks' = breaks \ {r}
  /\ UNCHANGED <<strategy, asked, global, listVars, salienceVars, matches, focus,
                 runVars, flags, loopVars, toActivate>>

BindGlobal(v) ==
  /\ Change
  /\ global' = v
  /\ UNCHANGED <<strategy, asked, breaks, listVars, salienceVars, matches, focus,
                 runVars, flags, loopVars, toActivate>>

SetSalienceEvaluation(e) ==
  /\ Change
  /\ evaluation' = e
  /\ asked' = e
  /\ UNCHANGED <<strategy, global, breaks, listVars, ruleSalience, matches, focus,
                 runVars, flags, loopVars, toActivate>>

------------------------------------------------------------------------------
(* ReorderAgenda() and RefreshAgenda(), one activation at a time.          *)

SetStrategy(st) ==
  /\ Change
  /\ st # strategy
  /\ strategy' = st
  /\ left' = ModuleList /\ refreshing' = FALSE
  /\ UNCHANGED <<asked, global, breaks, listVars, salienceVars, matches, focus,
                 runVars, flags, taken, unplaced, saved, toActivate>>

RefreshAgenda(m) ==
  /\ Command
  /\ left' = <<m>> /\ refreshing' = TRUE
  /\ UNCHANGED <<settings, listVars, salienceVars, matches, focus, runVars, flags,
                 taken, unplaced, saved, toActivate>>

\* Mutant: the new salience is added to the old one.
RefreshedAdds(a) ==
  IF RuleOf[a.basis] \in Dynamic THEN [a EXCEPT !.salience = @ + global] ELSE a
\* Mutant: the salience is evaluated as the salience evaluation says.
RefreshedAsSet(a) == [a EXCEPT !.salience = EvaluateSalience(RuleOf[a.basis])]
Refreshed(a) ==
  IF RuleOf[a.basis] \in Dynamic THEN [a EXCEPT !.salience = global]
  ELSE [a EXCEPT !.salience = ruleSalience[RuleOf[a.basis]]]

TakeAgenda ==
  /\ left # <<>> /\ ~taken
  /\ LET m == Head(left)
     IN  /\ agenda' = [agenda EXCEPT ![m] = <<>>]
         /\ \/ /\ ~refreshing
               /\ unplaced' = agenda[m]
               /\ UNCHANGED <<salienceVars, saved>>
            \/ /\ refreshing
               /\ unplaced' = [n \in DOMAIN agenda[m] |-> Refreshed(agenda[m][n])]
               /\ ruleSalience' = [r \in Rules |->
                    IF r \in Dynamic /\ \E n \in DOMAIN agenda[m] : RuleOf[agenda[m][n].basis] = r
                      THEN global ELSE ruleSalience[r]]
               /\ saved' = evaluation
               /\ evaluation' = "when-activated"
  /\ taken' = TRUE
  /\ UNCHANGED <<settings, timetag, number, matches, focus, runVars, flags, actions,
                 left, refreshing, toActivate>>

PlaceNext ==
  /\ left # <<>> /\ taken /\ unplaced # <<>>
  /\ agenda' = [agenda EXCEPT ![Head(left)] = PlaceActivation(strategy, @, Head(unplaced))]
  /\ unplaced' = Tail(unplaced)
  /\ UNCHANGED <<settings, timetag, number, salienceVars, matches, focus, runVars,
                 flags, actions, left, refreshing, taken, saved, toActivate>>

\* Mutant: the loop stays at its module.
SameModule == left
NextModule == Tail(left)

LeaveAgenda ==
  /\ left # <<>> /\ taken /\ unplaced = <<>>
  /\ left' = NextModule
  /\ taken' = FALSE
  /\ \/ /\ NextModule = <<>>
        /\ evaluation' = IF refreshing THEN saved ELSE evaluation
        /\ refreshing' = FALSE /\ saved' = "when-defined"
     \/ /\ NextModule # <<>>
        /\ UNCHANGED <<evaluation, refreshing, saved>>
  /\ UNCHANGED <<settings, listVars, ruleSalience, matches, focus, runVars, flags,
                 actions, unplaced, toActivate>>

------------------------------------------------------------------------------
(* Run().                                                                  *)

\* Mutant: a module is popped before its agenda is looked at.
PopsFirst(f) ==
  IF Len(f) < 2 \/ agenda[f[2]] = <<>> THEN <<>> ELSE Tail(f)
(* The focus stack after NextActivationToFire(): what has nothing on its   *)
(* agenda is popped off it.                                                *)
FocusToFire(f) ==
  LET g == IF f = <<>> THEN <<Main>> ELSE f
      stops == { n \in DOMAIN g : agenda[g[n]] # <<>> }
  IN  IF stops = {} THEN <<>>
      ELSE SubSeq(g, CHOOSE n \in stops : \A k \in stops : n <= k, Len(g))

Run(limit) ==
  /\ Free /\ pc = "idle"
  /\ focus' = FocusToFire(focus)
  /\ runLimit' = limit /\ rulesFired' = 0 /\ halted' = FALSE
  /\ pc' = "test"
  /\ UNCHANGED <<settings, listVars, salienceVars, matches, executing, returned,
                 actions, loopVars, toActivate>>

GoesOn == focus # <<>> /\ runLimit # 0 /\ ~halted

Fire ==
  /\ pc = "test"
  /\ GoesOn
  /\ LET m == Head(focus)
     IN  /\ executing' = Head(agenda[m])
         /\ agenda' = [agenda EXCEPT ![m] = Tail(@)]
  /\ rulesFired' = rulesFired + 1
  /\ runLimit' = IF runLimit > 0 THEN runLimit - 1 ELSE runLimit
  /\ pc' = "rhs"
  /\ actions' = 0
  /\ UNCHANGED <<settings, timetag, number, salienceVars, matches, focus, flags,
                 loopVars, toActivate>>

EndOfActions ==
  /\ pc = "rhs" /\ Free
  /\ executing' = NoActivation
  /\ number' = number - 1
  /\ pc' = "next"
  /\ actions' = 0
  /\ \/ /\ evaluation = "every-cycle"
        /\ left' = ModuleList /\ refreshing' = TRUE
     \/ /\ evaluation # "every-cycle"
        /\ UNCHANGED <<left, refreshing>>
  /\ UNCHANGED <<settings, agenda, timetag, salienceVars, matches, focus, runLimit,
                 rulesFired, flags, taken, unplaced, saved, toActivate>>

\* Mutant: the breakpoint is looked for before empty agendas are popped.
StopsBeforePop(f) == /\ focus # <<>> /\ agenda[Head(focus)] # <<>>
                     /\ RuleOf[Head(agenda[Head(focus)]).basis] \in breaks
StopsAt(f) == f # <<>> /\ RuleOf[Head(agenda[Head(f)]).basis] \in breaks

NextActivation ==
  /\ pc = "next" /\ Free
  /\ focus' = FocusToFire(IF returned THEN Pop(focus) ELSE focus)
  /\ returned' = FALSE
  /\ halted' = (halted \/ StopsAt(focus'))
  /\ pc' = "test"
  /\ UNCHANGED <<settings, listVars, salienceVars, matches, executing, runLimit,
                 rulesFired, actions, loopVars, toActivate>>

EndOfRun ==
  /\ pc = "test"
  /\ ~GoesOn
  /\ pc' = "idle"
  /\ runLimit' = 0 /\ rulesFired' = 0 /\ halted' = FALSE
  /\ UNCHANGED <<settings, listVars, salienceVars, matches, focus, executing,
                 returned, actions, loopVars, toActivate>>

------------------------------------------------------------------------------
Engine ==
  \/ Fire \/ EndOfActions \/ NextActivation \/ EndOfRun
  \/ TakeAgenda \/ PlaceNext \/ LeaveAgenda
  \/ \E m \in Matches, id \in RandomIDs : RefreshNext(m, id)

Next ==
  \/ Engine
  \/ \E limit \in Limits : Run(limit)
  \/ \E m \in Matches, id \in RandomIDs : MatchAppears(m, id)
  \/ \E m \in Matches : MatchIsGone(m)
  \/ \E r \in Rules : Refresh(r)
  \/ \E m \in Modules : FocusCommand(m) \/ RefreshAgenda(m)
  \/ FocusStackCommand \/ Halt \/ Return
  \/ \E r \in Breakable : Breakpoint(r)
  \/ \E v \in Saliences : BindGlobal(v)
  \/ \E e \in Evaluations : SetSalienceEvaluation(e)
  \/ \E st \in TriedStrategies : SetStrategy(st)

Spec == Init /\ [][Next]_vars
FairSpec == Spec /\ WF_vars(Engine)

------------------------------------------------------------------------------
Elements(q) == { q[n] : n \in DOMAIN q }
Pending == (UNION { Elements(agenda[m]) : m \in Modules }) \union Elements(unplaced)

TypeOK ==
  /\ agenda \in [Modules -> Seq(Activation)] /\ unplaced \in Seq(Activation)
  /\ executing \in Activation \union {NoActivation}
  /\ matches \subseteq Matches /\ toActivate \subseteq matches
  /\ timetag \in Nat /\ number \in Int /\ runLimit \in Int /\ rulesFired \in Nat
  /\ actions \in Nat /\ changes \in Nat
  /\ strategy \in Strategies /\ {evaluation, asked, saved} \subseteq Evaluations
  /\ global \in Saliences /\ ruleSalience \in [Rules -> Saliences]
  /\ focus \in Seq(Modules) /\ left \in Seq(Modules) /\ breaks \subseteq Rules
  /\ pc \in {"idle", "test", "rhs", "next"}
  /\ {halted, returned, refreshing, taken} \subseteq BOOLEAN

(* The modules whose agenda is in the order of the strategy: all but those *)
(* that ReorderAgenda() did not take up yet.                               *)
Settled(m) == \/ \A n \in DOMAIN left : left[n] # m
              \/ taken /\ m = Head(left)

(* The agenda of a module is sorted by salience and, within a salience, by *)
(* the strategy, whatever was activated, fired, retracted or refreshed and *)
(* however strategy and saliences changed (PlaceActivation(), which relies *)
(* on it, and ReorderAgenda()): the activation that fires comes before all *)
(* others of its module.                                                   *)
AgendaSorted == \A m \in Modules : Settled(m) => Sorted(strategy, agenda[m])

(* A match has one activation at most, on the agenda of its module, and no *)
(* activation outlives its match but the one that fires; none is lost or   *)
(* counted twice while it is reordered, refreshed or fired.                *)
OneActivation ==
  /\ \A a \in Pending : a.basis \in matches /\ a.timetag < timetag
  /\ \A a, b \in Pending : a.basis = b.basis \/ a.timetag = b.timetag => a = b
  /\ \A m \in Modules : \A a \in Elements(agenda[m]) : ModuleOf[RuleOf[a.basis]] = m
  /\ number = Cardinality(Pending) + (IF executing = NoActivation THEN 0 ELSE 1)

CS == INSTANCE ConflictSet WITH pending <- Pending, phase <- pc

(* The engine implements ConflictSet: Run() fires the activation of the    *)
(* module in focus that comes before all others of it, no module with      *)
(* something to fire loses the focus without a command, and reordering and *)
(* refreshing an agenda loses, doubles and fires nothing, although they    *)
(* take the list apart and link it together again one by one.              *)
FiresInOrder == CS!Spec

(* A rule with a breakpoint fires as the first of a run or not at all,     *)
(* wherever among the actions of which rule the breakpoint was set.        *)
BreakpointStopsRun ==
  [][pc = "test" /\ pc' = "rhs" /\ RuleOf[executing'.basis] \in breaks => rulesFired = 0]_vars

(* An agenda that was refreshed holds every activation with the salience   *)
(* its rule has now, whatever the salience evaluation.                     *)
RefreshedIsCurrent ==
  [][LeaveAgenda /\ refreshing =>
       \A a \in Elements(agenda[Head(left)]) :
         RuleOf[a.basis] \in Dynamic => a.salience = global]_vars

(* A run ends: where rules activate finitely many, Run() comes back.       *)
RunEnds == pc # "idle" ~> pc = "idle"

(* The salience evaluation is the one that set-salience-evaluation asked   *)
(* for, whatever agendas were refreshed in between.                        *)
EvaluationKept == left = <<>> => evaluation = asked

(* "Fire rules until the agenda is empty, the run limit has been reached,  *)
(* or a rule execution error occurs."                                      *)
RunsUntilEmpty ==
  [][pc = "test" /\ pc' = "idle" /\ ~halted /\ runLimit # 0 =>
       \A m \in Modules : agenda[m] = <<>>]_vars

(* "rule firing limit reached" is printed when it is.                      *)
LimitReported ==
  [][pc = "test" /\ pc' = "idle" /\ rulesFired > 0 => (runLimit = rulesFired <=> runLimit = 0)]_vars

==============================================================================
