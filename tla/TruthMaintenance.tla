--------------------------- MODULE TruthMaintenance ---------------------------
(***************************************************************************)
(* Logical support in the CLIPS 6.0 engine (lgcldpnd.c): a fact asserted   *)
(* by a rule whose first conditional elements are logical stays for as     *)
(* long as a partial match of these elements does, and is retracted when   *)
(* it lost the last one; a fact asserted otherwise stays until somebody    *)
(* retracts it.  The links between facts and partial matches are kept up   *)
(* from Assert() and Retract() (factmngr.c), from the join network that    *)
(* loses matches (retract.c, drive.c), from the run loop (engine.c) and    *)
(* from the code that defines rules, which share joins (rulebld.c), and    *)
(* removes them (ruledlt.c).                                               *)
(*                                                                         *)
(* The network itself is the subject of JoinNetwork.  Here every pattern   *)
(* has no variables and every fact occurs once, so that a join holds one   *)
(* partial match at most, which follows from the facts.  The left-hand     *)
(* side of a rule is a prefix, which is logical or not, and the rest: the  *)
(* prefix is some facts (those "first"), then perhaps a not, exists or     *)
(* not/and conditional element.  The join at the end of the prefix is the  *)
(* one that matters, and is all that is kept of the rule's joins.  Rules   *)
(* with different prefixes begin with different facts and share none.      *)
(***************************************************************************)
EXTENDS Naturals, Sequences, FiniteSets

CONSTANTS Facts, Rules,
          Joins,      \* addresses of joins
          NoJoin, NoRule,
          Freed,      \* a link to a partial match that was freed
          LHS,        \* [first, ce, logical, rest] of each rule
          RHS         \* its actions: <<"assert", f>> and <<"retract", f>>

Operations == {"assert", "retract"}
CEKinds    == {"none", "not", "exists", "notand"}

ASSUME SupportConstants ==
  /\ NoJoin \notin Joins /\ NoRule \notin Rules
  /\ Freed \notin Joins /\ Freed # NoJoin
  /\ LHS \in [Rules -> [first : SUBSET Facts, logical : BOOLEAN, rest : SUBSET Facts,
                        ce : [kind : CEKinds, facts : Seq(Facts)]]]
  /\ \A r, q \in Rules : \/ LHS[r].first = LHS[q].first /\ LHS[r].ce = LHS[q].ce
                         \/ LHS[r].first \intersect LHS[q].first = {}
  /\ \A r \in Rules : LHS[r].first # {}
  /\ RHS \in [Rules -> Seq(Operations \X Facts)]

VARIABLES facts,          \* the fact list
          joinOf,         \* the join at the end of the prefix of each rule
          logicalJoin,    \* the flag of a join: some rule's logical join
          dependentsf,    \* the flag of its match: it has a slot for links
          dependents,     \* the links of a fact to the matches that support it
          supported,      \* the links of a match to the facts it supports
          DependencyList, \* the facts that lost their support
          agenda,         \* the rules that have an activation
          ExecutingRule,
          todo,           \* what is left of its actions
          basis,          \* FindLogicalBind() would find the match it fired for
          given           \* history: the facts that need no support

networkVars == <<joinOf, logicalJoin>>
runVars     == <<ExecutingRule, todo>>
vars == <<facts, networkVars, dependentsf, dependents, supported, DependencyList,
          agenda, runVars, basis, given>>

------------------------------------------------------------------------------
(* What matches.                                                           *)

(* A not CE with one pattern and a negated group are satisfied until all   *)
(* their patterns match, an exists CE when they do.                        *)
AllOf(ce) == { ce.facts[i] : i \in DOMAIN ce.facts }
Satisfied(ce, F) == CASE ce.kind = "none"   -> TRUE
                      [] ce.kind = "exists" -> AllOf(ce) \subseteq F
                      [] OTHER              -> ~ (AllOf(ce) \subseteq F)

Complete(r, F) == /\ LHS[r].first \subseteq F
                  /\ Satisfied(LHS[r].ce, F)
                  /\ LHS[r].rest \subseteq F

Defined  == { r \in Rules : joinOf[r] # NoJoin }
Users(j) == { r \in Rules : joinOf[r] = j }

(* The partial match of a join, and whether it is passed on: one that a    *)
(* conditional element blocks stays in the memory of the join.             *)
Present(j, F) == Users(j) # {} /\ \A r \in Users(j) : LHS[r].first \subseteq F
Live(j, F)    == Present(j, F) /\ \A r \in Users(j) : Satisfied(LHS[r].ce, F)

------------------------------------------------------------------------------
(* The facts become F, one more or one less, when "deps" and "supp" are    *)
(* the links.  Matches that are deleted or become blocked go through       *)
(* AddToDependencyList(), which does nothing for one without a slot.       *)

Deleted(F) == { j \in Joins : Present(j, facts) /\ ~ Present(j, F) }
Lost(F)    == Deleted(F) \union { j \in Joins : Live(j, facts) /\ ~ Live(j, F) }

AddToDependencyList(deps, supp, lost, freed) ==
  LET without(f) == deps[f] \ { j \in lost : f \in supp[j] }
  IN  /\ dependents' = [f \in Facts |->
           IF without(f) \intersect freed = {} THEN without(f)
           ELSE (without(f) \ freed) \union {Freed}]
      /\ supported' = [j \in Joins |-> IF j \in lost \union freed THEN {} ELSE supp[j]]
      /\ DependencyList' = { f \in Facts : \/ f \in DependencyList /\ f \in facts'
                                           \/ /\ \E j \in lost : f \in supp[j]
                                              /\ without(f) = {} }

(* The match an activation was made for is compared cell by cell with the  *)
(* one in the logical join: a retracted fact deletes it; a CE that is      *)
(* blocked takes a new pseudo-fact, unless the two matches are one.        *)
SameBinds(r, F) == /\ LHS[r].first \subseteq F
                   /\ LHS[r].rest = {} \/ Satisfied(LHS[r].ce, F)

Drive(F, deps, supp) ==
  /\ facts' = F
  /\ AddToDependencyList(deps, supp, { j \in Lost(F) : dependentsf[j] },
                                     { j \in Deleted(F) : ~ dependentsf[j] })
  /\ dependentsf' = [j \in Joins |-> /\ Present(j, F)
                                     /\ IF Present(j, facts) THEN dependentsf[j]
                                                             ELSE logicalJoin[j]]
  /\ agenda' = { r \in Defined : Complete(r, F) /\ (r \in agenda \/ ~ Complete(r, facts)) }
  /\ basis' = (basis /\ ExecutingRule # NoRule /\ SameBinds(ExecutingRule, F))
  /\ UNCHANGED networkVars

------------------------------------------------------------------------------
(* Asserting and retracting.                                               *)

\* Mutant: the match keeps its links to a fact that is gone.
KeepLinksBack(f) == supported
(* The links of a fact and those back to it.                               *)
RemoveEntityDependencies(f) == [dependents EXCEPT ![f] = {}]
Detach(f) == [j \in Joins |-> IF j \in dependents[f] THEN supported[j] \ {f}
                                                     ELSE supported[j]]

Retract(f) ==
  /\ given' = given \ {f}
  /\ Drive(facts \ {f}, RemoveEntityDependencies(f), Detach(f))

TheLogicalJoin == IF ExecutingRule # NoRule /\ LHS[ExecutingRule].logical
                    THEN joinOf[ExecutingRule] ELSE NoJoin

NothingHappens == UNCHANGED <<facts, networkVars, dependentsf, dependents, supported,
                              DependencyList, agenda, basis, given>>

\* Mutant: support is added to a fact that needs none.
SupportNeverRefused(f) == ~ basis
(* A duplicate is not asserted, but its support changes: a fact that needs *)
(* none is given none.                                                     *)
SupportIgnored(f) == dependents[f] = {} \/ ~ basis

AssertDuplicate(f) ==
  IF TheLogicalJoin = NoJoin
  THEN /\ given' = given \union {f}
       /\ dependents' = RemoveEntityDependencies(f)
       /\ supported' = Detach(f)
       /\ UNCHANGED <<facts, networkVars, dependentsf, DependencyList, agenda, basis>>
  ELSE IF SupportIgnored(f)
  THEN NothingHappens
  ELSE /\ dependents' = [dependents EXCEPT ![f] = @ \union {TheLogicalJoin}]
       /\ supported' = [supported EXCEPT ![TheLogicalJoin] = @ \union {f}]
       /\ UNCHANGED <<facts, networkVars, dependentsf, DependencyList, agenda, basis, given>>

(* A new fact is linked before the network sees it, which may take away    *)
(* its own support.                                                        *)
AssertNew(f) ==
  IF TheLogicalJoin = NoJoin
  THEN /\ given' = given \union {f}
       /\ Drive(facts \union {f}, dependents, supported)
  ELSE IF ~ basis
  THEN NothingHappens
  ELSE /\ given' = given
       /\ Drive(facts \union {f},
                [dependents EXCEPT ![f] = {TheLogicalJoin}],
                [supported EXCEPT ![TheLogicalJoin] = @ \union {f}])

Assert(f) == IF f \in facts THEN AssertDuplicate(f) ELSE AssertNew(f)

(* Both end with a loop over the facts that lost their support; retracting *)
(* one may add to the list, in an order the network determines.            *)
ForceLogicalRetractions ==
  \E f \in DependencyList :
    /\ f \in facts
    /\ Retract(f)
    /\ UNCHANGED runVars

Settled == DependencyList = {}

------------------------------------------------------------------------------
(* The run loop.                                                           *)

Fire(r) ==
  /\ Settled /\ ExecutingRule = NoRule /\ r \in agenda
  /\ agenda' = agenda \ {r}
  /\ ExecutingRule' = r
  /\ todo' = RHS[r]
  /\ basis' = TRUE
  /\ UNCHANGED <<facts, networkVars, dependentsf, dependents, supported,
                 DependencyList, given>>

Execute ==
  /\ Settled /\ ExecutingRule # NoRule /\ todo # <<>>
  /\ LET op == Head(todo)[1]
         f  == Head(todo)[2]
     IN  \/ op = "assert" /\ Assert(f)
         \/ op = "retract" /\ f \in facts /\ Retract(f)
         \/ op = "retract" /\ f \notin facts /\ NothingHappens
  /\ todo' = Tail(todo)
  /\ UNCHANGED ExecutingRule

EndOfActions ==
  /\ Settled /\ ExecutingRule # NoRule /\ todo = <<>>
  /\ ExecutingRule' = NoRule
  /\ basis' = FALSE
  /\ UNCHANGED <<facts, networkVars, dependentsf, dependents, supported,
                 DependencyList, agenda, todo, given>>

------------------------------------------------------------------------------
(* What is done from outside, between two firings.                         *)

Idle == Settled /\ ExecutingRule = NoRule

AssertFact(f)  == Idle /\ Assert(f) /\ UNCHANGED runVars
RetractFact(f) == Idle /\ f \in facts /\ Retract(f) /\ UNCHANGED runVars

\* Mutant: a join is shared whatever its memory holds.
NothingInspected(r) == FALSE
(* A join built for another rule may be shared.  When the rule is logical  *)
(* there and the join is not, the memory must be empty; when it is the     *)
(* last of the rule, always.  What is looked at is the join that has as    *)
(* many patterns before it as the rule has logical CEs: inside a negated   *)
(* group that is the join of the group's first pattern.                    *)
SamePrefix(r, q) == LHS[r].first = LHS[q].first /\ LHS[r].ce = LHS[q].ce
InspectedBeta(r) ==
  /\ LHS[r].first \subseteq facts
  /\ LHS[r].ce.kind = "notand" => LHS[r].ce.facts[1] \in facts
InspectedFlag(r, j) == LHS[r].ce.kind \notin {"notand", "exists"} /\ logicalJoin[j]

TestJoinForReuse(r, j) ==
  /\ \E q \in Users(j) : SamePrefix(r, q)
  /\ LHS[r].logical => InspectedFlag(r, j) \/ ~ InspectedBeta(r)
  /\ LHS[r].rest = {} => ~ Present(j, facts) /\ \A q \in Users(j) : LHS[q].rest # {}

(* The search follows one path through the network, so that a join that    *)
(* could be shared may be missed.  A new join is primed, after it got the  *)
(* flag; a shared one gets it with the matches it has.                     *)
DefineRule(r, j) ==
  /\ Idle /\ joinOf[r] = NoJoin
  /\ Users(j) = {} \/ TestJoinForReuse(r, j)
  /\ joinOf' = [joinOf EXCEPT ![r] = j]
  /\ logicalJoin' = [logicalJoin EXCEPT ![j] = @ \/ LHS[r].logical]
  /\ dependentsf' = IF Users(j) # {} THEN dependentsf
                    ELSE [dependentsf EXCEPT ![j] = LHS[r].logical /\ LHS[r].first \subseteq facts]
  /\ agenda' = IF Complete(r, facts) THEN agenda \union {r} ELSE agenda
  /\ UNCHANGED <<facts, dependents, supported, DependencyList, runVars, basis, given>>

(* The join goes with the last rule that uses it, and its match with it:   *)
(* the facts lose the links and stay.                                      *)
RemoveRule(r) ==
  LET j    == joinOf[r]
      gone == Users(j) = {r}
      unlinked(f) == IF dependentsf[j] THEN dependents[f] \ {j}
                     ELSE (dependents[f] \ {j}) \union {Freed}
  IN  /\ Idle /\ j # NoJoin
      /\ joinOf' = [joinOf EXCEPT ![r] = NoJoin]
      /\ agenda' = agenda \ {r}
      /\ IF gone
         THEN /\ logicalJoin' = [logicalJoin EXCEPT ![j] = FALSE]
              /\ dependentsf' = [dependentsf EXCEPT ![j] = FALSE]
              /\ dependents' = [f \in Facts |-> IF f \in supported[j] THEN unlinked(f)
                                                                      ELSE dependents[f]]
              /\ supported' = [supported EXCEPT ![j] = {}]
              /\ given' = given \union { f \in supported[j] : unlinked(f) = {} }
         ELSE UNCHANGED <<logicalJoin, dependentsf, dependents, supported, given>>
      /\ UNCHANGED <<facts, DependencyList, runVars, basis>>

------------------------------------------------------------------------------
Init ==
  /\ facts = {} /\ given = {} /\ agenda = {} /\ DependencyList = {}
  /\ joinOf = [r \in Rules |-> NoJoin]
  /\ logicalJoin = [j \in Joins |-> FALSE]
  /\ dependentsf = [j \in Joins |-> FALSE]
  /\ dependents = [f \in Facts |-> {}]
  /\ supported = [j \in Joins |-> {}]
  /\ ExecutingRule = NoRule /\ todo = <<>> /\ basis = FALSE

Next ==
  \/ ForceLogicalRetractions
  \/ \E r \in Rules : Fire(r)
  \/ Execute
  \/ EndOfActions
  \/ \E f \in Facts : AssertFact(f)
  \/ \E f \in Facts : RetractFact(f)
  \/ \E r \in Rules, j \in Joins : DefineRule(r, j)
  \/ \E r \in Rules : RemoveRule(r)

Spec == Init /\ [][Next]_vars

------------------------------------------------------------------------------
TypeOK ==
  /\ facts \subseteq Facts
  /\ joinOf \in [Rules -> Joins \union {NoJoin}]
  /\ logicalJoin \in [Joins -> BOOLEAN]
  /\ dependentsf \in [Joins -> BOOLEAN]
  /\ dependents \in [Facts -> SUBSET (Joins \union {Freed})]
  /\ supported \in [Joins -> SUBSET Facts]
  /\ DependencyList \subseteq facts
  /\ agenda \subseteq Defined
  /\ ExecutingRule \in Defined \union {NoRule}
  /\ todo \in Seq(Operations \X Facts)
  /\ basis \in BOOLEAN
  /\ given \subseteq facts

(* A fact that nobody asserted on its own has a partial match that holds   *)
(* and that knows of it, from the assertion that is linked before the      *)
(* network is driven to the retraction that comes with the last match; and *)
(* one that was asserted on its own has none (lgcldpnd.c:99-128, 285-325). *)
FactsAreSupported ==
  \A f \in facts :
    IF f \in given \union DependencyList
    THEN dependents[f] = {}
    ELSE /\ dependents[f] # {}
         /\ \A j \in dependents[f] : j # Freed /\ Live(j, facts) /\ f \in supported[j]

(* A fact asserted on its own is not taken away by the loss of a support   *)
(* it once had or was offered: only by a retract, of a rule or from        *)
(* outside (lgcldpnd.c:99-104, factmngr.c:333).                            *)
RetractedByRule(f) == todo # <<>> /\ Head(todo) = <<"retract", f>>
GivenFactStays ==
  \A f \in given \ facts' : Settled /\ (ExecutingRule = NoRule \/ RetractedByRule(f))
GivenFactsStay == [][GivenFactStays]_vars

(* lgcldpnd.c:90-95: "If the binds cannot be found, then the binds must    *)
(* have been deleted by a previous RHS action and the fact should not be   *)
(* asserted."  So a rule's assertion is linked to a match that holds.      *)
NewSupportHolds ==
  [][\A f \in Facts : \A j \in dependents'[f] \ dependents[f] :
        j # Freed => Live(j, facts)]_vars

(* rulebld.c:410-415: a join is shared for a logical CE when it is one     *)
(* itself or when its memory is empty, "since joins associate an extra     *)
(* field with each partial match".  So the match of a logical join has it. *)
LogicalMatchHasSlot ==
  \A r \in Defined : LHS[r].logical /\ Present(joinOf[r], facts) => dependentsf[joinOf[r]]

==============================================================================
