------------------------ MODULE TruthMaintenanceProofs ------------------------
(***************************************************************************)
(* What TruthMaintenance guarantees for any facts, rules and joins.        *)
(***************************************************************************)
EXTENDS TruthMaintenance, TLAPS

(* Links go both ways, and none lead from or to a fact that is not there.  *)
Mutual(deps, supp)   == \A f \in Facts, j \in Joins : f \in supp[j] <=> j \in deps[f]
Unlinked(deps, F)    == \A f \in Facts \ F : deps[f] = {}
NoneLinked           == /\ \A f \in given : dependents[f] = {} /\ f \notin DependencyList
                        /\ \A f \in DependencyList : dependents[f] = {}

Links == /\ Mutual(dependents, supported)
         /\ Unlinked(dependents, facts)
         /\ NoneLinked

LinkTypes(deps, supp) == /\ deps \in [Facts -> SUBSET (Joins \union {Freed})]
                         /\ supp \in [Joins -> SUBSET Facts]

------------------------------------------------------------------------------
(* What the network does to the links: it takes them away on both sides.   *)
LEMMA DriveLinks ==
  ASSUME NEW F \in SUBSET Facts, NEW deps, NEW supp,
         LinkTypes(deps, supp), Mutual(deps, supp), Unlinked(deps, F),
         DependencyList \subseteq facts, Drive(F, deps, supp),
         \A f \in DependencyList \intersect F : deps[f] = {}
  PROVE  /\ LinkTypes(dependents', supported')
         /\ Mutual(dependents', supported')
         /\ Unlinked(dependents', F)
         /\ DependencyList' \subseteq F
         /\ \A f \in Facts : deps[f] = {} =>
               /\ dependents'[f] = {}
               /\ f \in DependencyList' => f \in DependencyList
         /\ \A f \in DependencyList' : dependents'[f] = {}
  <1> DEFINE lost  == { j \in Lost(F) : dependentsf[j] }
             freed == { j \in Deleted(F) : ~ dependentsf[j] }
             without(f) == deps[f] \ { j \in lost : f \in supp[j] }
  <1>1. /\ dependents' = [f \in Facts |->
              IF without(f) \intersect freed = {} THEN without(f)
              ELSE (without(f) \ freed) \union {Freed}]
        /\ supported' = [j \in Joins |-> IF j \in lost \union freed THEN {} ELSE supp[j]]
        /\ DependencyList' = { f \in Facts : \/ f \in DependencyList /\ f \in facts'
                                             \/ /\ \E j \in lost : f \in supp[j]
                                                /\ without(f) = {} }
        /\ facts' = F
    BY DEF Drive, AddToDependencyList
  <1>2. lost \subseteq Joins /\ freed \subseteq Joins
    BY DEF Lost, Deleted
  <1>3. \A f \in Facts : without(f) \subseteq deps[f] /\ deps[f] \subseteq Joins \union {Freed}
    BY DEF LinkTypes
  <1> HIDE DEF lost, freed
  <1>4. LinkTypes(dependents', supported')
    BY <1>1, <1>2, <1>3 DEF LinkTypes
  <1>5. Mutual(dependents', supported')
    <2> SUFFICES ASSUME NEW f \in Facts, NEW j \in Joins
                 PROVE  f \in supported'[j] <=> j \in dependents'[f]
      BY DEF Mutual
    <2>1. j # Freed
      BY SupportConstants
    <2>2. f \in supp[j] <=> j \in deps[f]
      BY DEF Mutual
    <2>3. j \in dependents'[f] <=> j \in without(f) /\ j \notin freed
      BY <1>1, <2>1
    <2> QED BY <1>1, <2>2, <2>3
  <1>6. \A f \in Facts : deps[f] = {} => /\ dependents'[f] = {}
                                         /\ \A j \in Joins : f \notin supp[j]
    BY <1>1 DEF Mutual
  <1>7. Unlinked(dependents', F)
    BY <1>6 DEF Unlinked
  <1>8. DependencyList' \subseteq F
    BY <1>1, <1>2, <1>6 DEF Unlinked
  <1>9. \A f \in DependencyList' : dependents'[f] = {}
    <2> SUFFICES ASSUME NEW f \in DependencyList' PROVE without(f) = {}
      BY <1>1
    <2>1. CASE f \in DependencyList /\ f \in F
      BY <1>3, <2>1
    <2>2. CASE without(f) = {}
      BY <2>2
    <2> HIDE DEF without
    <2> QED BY <1>1, <2>1, <2>2
  <1> QED BY <1>1, <1>2, <1>4, <1>5, <1>6, <1>7, <1>8, <1>9

LinkInv == TypeOK /\ Links

(* The same for a whole state, given what the caller does to the history   *)
(* and to the run loop.                                                    *)
LEMMA DriveInv ==
  ASSUME LinkInv, NEW F \in SUBSET Facts, NEW deps, NEW supp,
         LinkTypes(deps, supp), Mutual(deps, supp), Unlinked(deps, F),
         Drive(F, deps, supp),
         given' \subseteq F, \A f \in given' : deps[f] = {} /\ f \notin DependencyList,
         \A f \in DependencyList \intersect F : deps[f] = {},
         ExecutingRule' = ExecutingRule, todo' \in Seq(Operations \X Facts)
  PROVE  LinkInv'
  <1>1. /\ facts' = F /\ joinOf' = joinOf /\ logicalJoin' = logicalJoin
        /\ agenda' \subseteq Defined
        /\ dependentsf' = [j \in Joins |-> Present(j, F) /\
                             (IF Present(j, facts) THEN dependentsf[j] ELSE logicalJoin[j])]
    BY DEF Drive, networkVars
  <1>2. basis' \in BOOLEAN
    BY Zenon DEF Drive
  <1>3. dependentsf' \in [Joins -> BOOLEAN]
    <2>1. \A j \in Joins : Present(j, F) \in BOOLEAN
      BY Zenon DEF Present
    <2>2. \A j \in Joins : (Present(j, F) /\ (IF Present(j, facts) THEN dependentsf[j]
                                              ELSE logicalJoin[j])) \in BOOLEAN
      BY Zenon
    <2> QED BY <1>1, <2>2
  <1>4. DependencyList \subseteq facts
    BY DEF LinkInv, TypeOK
  <1>5. /\ LinkTypes(dependents', supported')
        /\ Mutual(dependents', supported')
        /\ Unlinked(dependents', F)
        /\ DependencyList' \subseteq F
        /\ \A f \in Facts : deps[f] = {} =>
               /\ dependents'[f] = {}
               /\ f \in DependencyList' => f \in DependencyList
        /\ \A f \in DependencyList' : dependents'[f] = {}
    BY <1>4, DriveLinks
  <1>6. TypeOK'
    BY <1>1, <1>2, <1>3, <1>5 DEF LinkInv, TypeOK, LinkTypes, Defined
  <1>7. NoneLinked'
    BY <1>5 DEF NoneLinked
  <1> QED BY <1>1, <1>5, <1>6, <1>7 DEF LinkInv, Links

(* Retracting a fact takes its links off first.                            *)
LEMMA RetractLinks ==
  ASSUME LinkInv, NEW f \in facts, Retract(f),
         ExecutingRule' = ExecutingRule, todo' \in Seq(Operations \X Facts)
  PROVE  LinkInv'
  <1> DEFINE deps == RemoveEntityDependencies(f)
             supp == Detach(f)
             F    == facts \ {f}
  <1>1. /\ F \in SUBSET Facts /\ f \in Facts
        /\ LinkTypes(dependents, supported)
    BY DEF LinkInv, TypeOK, LinkTypes
  <1>2. /\ deps = [dependents EXCEPT ![f] = {}]
        /\ supp = [j \in Joins |-> IF j \in dependents[f] THEN supported[j] \ {f}
                                                          ELSE supported[j]]
    BY DEF RemoveEntityDependencies, Detach
  <1> HIDE DEF deps, supp
  <1>3. LinkTypes(deps, supp)
    BY <1>1, <1>2 DEF LinkTypes
  <1>4. Mutual(deps, supp)
    BY <1>1, <1>2 DEF LinkInv, Links, Mutual, LinkTypes
  <1>5. Unlinked(deps, F)
    BY <1>1, <1>2 DEF LinkInv, Links, Unlinked, LinkTypes
  <1>6. Drive(F, deps, supp) /\ given' = given \ {f}
    BY DEF Retract, deps, supp
  <1>7. /\ given' \subseteq F /\ \A g \in given' : deps[g] = {} /\ g \notin DependencyList
        /\ \A g \in DependencyList \intersect F : deps[g] = {}
    BY <1>1, <1>2, <1>6 DEF LinkInv, Links, NoneLinked, TypeOK
  <1> HIDE DEF F
  <1> QED BY <1>1, <1>3, <1>4, <1>5, <1>6, <1>7, DriveInv

LEMMA JoinOfRunningRule ==
  ASSUME TypeOK, TheLogicalJoin # NoJoin
  PROVE  /\ TheLogicalJoin \in Joins
         /\ ExecutingRule \in Defined /\ LHS[ExecutingRule].logical
         /\ TheLogicalJoin = joinOf[ExecutingRule]
  BY SupportConstants DEF TypeOK, TheLogicalJoin, Defined

(* Asserting a fact links it before the network sees it.                   *)
LEMMA AssertLinks ==
  ASSUME LinkInv, Settled, NEW f \in Facts, Assert(f),
         ExecutingRule' = ExecutingRule, todo' \in Seq(Operations \X Facts)
  PROVE  LinkInv'
  <1>0. /\ LinkTypes(dependents, supported) /\ facts \union {f} \in SUBSET Facts
        /\ TypeOK
    BY DEF LinkInv, TypeOK, LinkTypes
  <1>1. CASE NothingHappens
    BY <1>1 DEF NothingHappens, networkVars, LinkInv, TypeOK, Links, Mutual, Unlinked,
                NoneLinked, Defined
  <1>2. CASE f \in facts /\ TheLogicalJoin = NoJoin
    <2>1. /\ given' = given \union {f}
          /\ dependents' = [dependents EXCEPT ![f] = {}]
          /\ supported' = [j \in Joins |-> IF j \in dependents[f] THEN supported[j] \ {f}
                                                                  ELSE supported[j]]
          /\ UNCHANGED <<facts, joinOf, logicalJoin, dependentsf, DependencyList, agenda, basis>>
      BY <1>2 DEF Assert, AssertDuplicate, RemoveEntityDependencies, Detach, networkVars
    <2>2. LinkTypes(dependents', supported')
      BY <1>0, <2>1 DEF LinkTypes
    <2>3. TypeOK'
      BY <1>0, <1>2, <2>1, <2>2 DEF TypeOK, LinkTypes, Defined
    <2>4. Mutual(dependents', supported')
      BY <1>0, <2>1 DEF LinkInv, Links, Mutual, LinkTypes
    <2>5. Unlinked(dependents', facts') /\ NoneLinked'
      BY <1>0, <1>2, <2>1 DEF LinkInv, Links, Unlinked, NoneLinked, LinkTypes, TypeOK, Settled
    <2> QED BY <2>3, <2>4, <2>5 DEF LinkInv, Links
  <1>3. CASE f \in facts /\ TheLogicalJoin # NoJoin /\ ~ SupportIgnored(f)
    <2>1. /\ dependents' = [dependents EXCEPT ![f] = @ \union {TheLogicalJoin}]
          /\ supported' = [supported EXCEPT ![TheLogicalJoin] = @ \union {f}]
          /\ UNCHANGED <<facts, joinOf, logicalJoin, dependentsf, DependencyList, agenda, basis, given>>
      BY <1>3 DEF Assert, AssertDuplicate, networkVars
    <2>2. TheLogicalJoin \in Joins /\ dependents[f] # {}
      BY <1>0, <1>3, JoinOfRunningRule DEF SupportIgnored
    <2>3. LinkTypes(dependents', supported')
      BY <1>0, <2>1, <2>2 DEF LinkTypes
    <2>4. TypeOK'
      BY <1>0, <2>1, <2>3 DEF TypeOK, LinkTypes, Defined
    <2>5. Mutual(dependents', supported')
      BY <1>0, <2>1, <2>2 DEF LinkInv, Links, Mutual, LinkTypes
    <2>6. Unlinked(dependents', facts') /\ NoneLinked'
      BY <1>0, <1>3, <2>1, <2>2 DEF LinkInv, Links, Unlinked, NoneLinked, LinkTypes, TypeOK
    <2> QED BY <2>4, <2>5, <2>6 DEF LinkInv, Links
  <1>4. CASE f \notin facts /\ TheLogicalJoin = NoJoin
    <2>1. given' = given \union {f} /\ Drive(facts \union {f}, dependents, supported)
      BY <1>4 DEF Assert, AssertNew
    <2>2. /\ Mutual(dependents, supported) /\ Unlinked(dependents, facts \union {f})
          /\ dependents[f] = {}
      BY <1>4 DEF LinkInv, Links, Unlinked
    <2>3. /\ given' \subseteq facts \union {f}
          /\ \A g \in given' : dependents[g] = {} /\ g \notin DependencyList
          /\ DependencyList = {}
      BY <2>1, <2>2 DEF LinkInv, Links, NoneLinked, TypeOK, Settled
    <2> QED BY <1>0, <2>1, <2>2, <2>3, DriveInv
  <1>5. CASE f \notin facts /\ TheLogicalJoin # NoJoin /\ basis
    <2> DEFINE deps == [dependents EXCEPT ![f] = {TheLogicalJoin}]
               supp == [supported EXCEPT ![TheLogicalJoin] = @ \union {f}]
               F    == facts \union {f}
    <2>1. given' = given /\ Drive(F, deps, supp)
      BY <1>5 DEF Assert, AssertNew
    <2>2. TheLogicalJoin \in Joins /\ dependents[f] = {}
      BY <1>0, <1>5, JoinOfRunningRule DEF LinkInv, Links, Unlinked
    <2>3. LinkTypes(deps, supp)
      BY <1>0, <2>2 DEF LinkTypes
    <2>4. Mutual(deps, supp) /\ Unlinked(deps, F)
      BY <1>0, <2>2 DEF LinkInv, Links, Mutual, Unlinked, LinkTypes
    <2>5. /\ given' \subseteq F /\ \A g \in given' : deps[g] = {} /\ g \notin DependencyList
          /\ DependencyList = {}
      BY <1>0, <1>5, <2>1 DEF Settled, LinkInv, Links, NoneLinked, TypeOK, LinkTypes
    <2> HIDE DEF deps, supp, F
    <2>6. F \in SUBSET Facts
      BY <1>0 DEF F
    <2> QED BY <2>1, <2>3, <2>4, <2>5, <2>6, DriveInv
  <1> QED BY <1>1, <1>2, <1>3, <1>4, <1>5 DEF Assert, AssertDuplicate, AssertNew, SupportIgnored

(* Removing a rule takes the links of its join away, if it was the last.   *)
LEMMA RemoveRuleLinks ==
  ASSUME LinkInv, NEW r \in Rules, RemoveRule(r)
  PROVE  LinkInv'
  <1> DEFINE j == joinOf[r]
             unlinked(f) == IF dependentsf[j] THEN dependents[f] \ {j}
                            ELSE (dependents[f] \ {j}) \union {Freed}
  <1>1. /\ joinOf' = [joinOf EXCEPT ![r] = NoJoin] /\ agenda' = agenda \ {r}
        /\ UNCHANGED <<facts, DependencyList, ExecutingRule, todo, basis>>
        /\ DependencyList = {} /\ ExecutingRule = NoRule /\ j \in Joins
    BY DEF RemoveRule, Idle, Settled, runVars, LinkInv, TypeOK
  <1>2. LinkTypes(dependents, supported) /\ Mutual(dependents, supported) /\ TypeOK
    BY DEF LinkInv, TypeOK, LinkTypes, Links
  <1>3. agenda' \subseteq Defined' /\ joinOf' \in [Rules -> Joins \union {NoJoin}]
    BY <1>1, <1>2 DEF TypeOK, Defined
  <1>4. CASE Users(j) # {r}
    <2>1. UNCHANGED <<logicalJoin, dependentsf, dependents, supported, given>>
      BY <1>4 DEF RemoveRule
    <2>2. TypeOK'
      BY <1>1, <1>2, <1>3, <2>1 DEF TypeOK
    <2> QED BY <1>1, <2>1, <2>2 DEF LinkInv, Links, Mutual, Unlinked, NoneLinked
  <1>5. CASE Users(j) = {r}
    <2>1. /\ logicalJoin' = [logicalJoin EXCEPT ![j] = FALSE]
          /\ dependentsf' = [dependentsf EXCEPT ![j] = FALSE]
          /\ dependents' = [f \in Facts |-> IF f \in supported[j] THEN unlinked(f)
                                                                  ELSE dependents[f]]
          /\ supported' = [supported EXCEPT ![j] = {}]
          /\ given' = given \union { f \in supported[j] : unlinked(f) = {} }
      BY <1>5 DEF RemoveRule
    <2>2. \A f \in Facts : /\ unlinked(f) \subseteq Joins \union {Freed}
                           /\ j \notin unlinked(f)
                           /\ \A k \in Joins : k # j => (k \in unlinked(f) <=> k \in dependents[f])
      BY <1>1, <1>2, SupportConstants DEF LinkTypes
    <2>3. \A f \in Facts : f \in supported[j] <=> j \in dependents[f]
      BY <1>1, <1>2 DEF Mutual
    <2> HIDE DEF j, unlinked
    <2>4. LinkTypes(dependents', supported')
      BY <1>1, <1>2, <2>1, <2>2 DEF LinkTypes
    <2>5. supported[j] \subseteq facts
      BY <1>1, <1>2, <2>3 DEF LinkInv, Links, Unlinked, LinkTypes
    <2>6. TypeOK'
      BY <1>1, <1>2, <1>3, <2>1, <2>4, <2>5 DEF TypeOK, LinkTypes
    <2>7. Mutual(dependents', supported')
      BY <1>1, <1>2, <2>1, <2>2, <2>3 DEF Mutual, LinkTypes
    <2>8. Unlinked(dependents', facts')
      BY <1>1, <1>2, <2>1, <2>3 DEF LinkInv, Links, Unlinked
    <2>9. NoneLinked'
      BY <1>1, <1>2, <2>1, <2>3, <2>5 DEF LinkInv, Links, NoneLinked, TypeOK
    <2> QED BY <2>6, <2>7, <2>8, <2>9 DEF LinkInv, Links
  <1> QED BY <1>4, <1>5

------------------------------------------------------------------------------
LEMMA LinkInvInit == Init => LinkInv
  <1> SUFFICES ASSUME Init PROVE LinkInv
    OBVIOUS
  <1>1. TypeOK
    <2>1. todo \in Seq(Operations \X Facts)
      BY DEF Init
    <2>2. /\ logicalJoin \in [Joins -> BOOLEAN] /\ dependentsf \in [Joins -> BOOLEAN]
          /\ basis \in BOOLEAN
      BY Zenon DEF Init
    <2>3. /\ joinOf \in [Rules -> Joins \union {NoJoin}]
          /\ dependents \in [Facts -> SUBSET (Joins \union {Freed})]
          /\ supported \in [Joins -> SUBSET Facts]
      BY DEF Init
    <2>4. /\ facts \subseteq Facts /\ DependencyList \subseteq facts /\ agenda \subseteq Defined
          /\ ExecutingRule \in Defined \union {NoRule} /\ given \subseteq facts
      BY DEF Init
    <2> QED BY <2>1, <2>2, <2>3, <2>4 DEF TypeOK
  <1>2. Links
    BY DEF Init, Links, Mutual, Unlinked, NoneLinked
  <1> QED BY <1>1, <1>2 DEF LinkInv

LEMMA LinkInvNext == LinkInv /\ [Next]_vars => LinkInv'
  <1> SUFFICES ASSUME LinkInv, [Next]_vars PROVE LinkInv'
    OBVIOUS
  <1> USE DEF runVars
  <1>0. TypeOK
    BY DEF LinkInv
  <1>1. CASE ForceLogicalRetractions
    BY <1>0, <1>1, RetractLinks DEF ForceLogicalRetractions, TypeOK
  <1>2. ASSUME NEW r \in Rules, Fire(r) PROVE LinkInv'
    <2>1. RHS[r] \in Seq(Operations \X Facts)
      BY SupportConstants
    <2>2. agenda' = agenda \ {r} /\ ExecutingRule' = r /\ todo' = RHS[r] /\ basis' = TRUE
          /\ r \in Defined
          /\ UNCHANGED <<facts, joinOf, logicalJoin, dependentsf, dependents, supported,
                         DependencyList, given>>
      BY <1>0, <1>2 DEF Fire, networkVars, TypeOK
    <2>3. TypeOK'
      BY <1>0, <2>1, <2>2 DEF TypeOK, Defined
    <2> QED BY <2>2, <2>3 DEF LinkInv, Links, Mutual, Unlinked, NoneLinked
  <1>3. CASE Execute
    <2> DEFINE f == Head(todo)[2]
    <2>1. todo' \in Seq(Operations \X Facts) /\ f \in Facts
      BY <1>0, <1>3 DEF Execute, TypeOK
    <2>2. /\ Settled /\ ExecutingRule' = ExecutingRule
          /\ Assert(f) \/ (f \in facts /\ Retract(f)) \/ NothingHappens
      BY <1>3 DEF Execute
    <2> HIDE DEF f
    <2>3. CASE NothingHappens
      <3>1. UNCHANGED <<facts, joinOf, logicalJoin, dependentsf, dependents, supported,
                        DependencyList, agenda, basis, given>>
        BY <2>3 DEF NothingHappens, networkVars
      <3>2. TypeOK'
        BY <1>0, <2>1, <2>2, <3>1 DEF TypeOK, Defined
      <3> QED BY <3>1, <3>2 DEF LinkInv, Links, Mutual, Unlinked, NoneLinked
    <2> QED BY <2>1, <2>2, <2>3, AssertLinks, RetractLinks
  <1>4. CASE EndOfActions
    <2>1. /\ ExecutingRule' = NoRule /\ basis' = FALSE
          /\ UNCHANGED <<facts, joinOf, logicalJoin, dependentsf, dependents, supported,
                         DependencyList, agenda, todo, given>>
      BY <1>4 DEF EndOfActions, networkVars
    <2>2. TypeOK'
      BY <1>0, <2>1 DEF TypeOK, Defined
    <2> QED BY <2>1, <2>2 DEF LinkInv, Links, Mutual, Unlinked, NoneLinked
  <1>5. ASSUME NEW f \in Facts, AssertFact(f) PROVE LinkInv'
    BY <1>0, <1>5, AssertLinks DEF AssertFact, Idle, TypeOK
  <1>6. ASSUME NEW f \in Facts, RetractFact(f) PROVE LinkInv'
    BY <1>0, <1>6, RetractLinks DEF RetractFact, TypeOK
  <1>7. ASSUME NEW r \in Rules, NEW j \in Joins, DefineRule(r, j) PROVE LinkInv'
    <2>1. /\ joinOf' = [joinOf EXCEPT ![r] = j]
          /\ agenda' \subseteq agenda \union {r}
          /\ UNCHANGED <<facts, dependents, supported, DependencyList, ExecutingRule, todo,
                         basis, given>>
      BY <1>7 DEF DefineRule
    <2>2. logicalJoin' \in [Joins -> BOOLEAN] /\ dependentsf' \in [Joins -> BOOLEAN]
      <3>1. (LHS[r].logical /\ LHS[r].first \subseteq facts) \in BOOLEAN
        BY Zenon
      <3>2. (logicalJoin[j] \/ LHS[r].logical) \in BOOLEAN
        BY Zenon
      <3>3. /\ logicalJoin' = [logicalJoin EXCEPT ![j] = logicalJoin[j] \/ LHS[r].logical]
            /\ dependentsf' = IF Users(j) # {} THEN dependentsf
                 ELSE [dependentsf EXCEPT ![j] = LHS[r].logical /\ LHS[r].first \subseteq facts]
        BY <1>7 DEF DefineRule
      <3>4. logicalJoin' \in [Joins -> BOOLEAN]
        BY <1>0, <3>2, <3>3, Zenon DEF TypeOK
      <3>5. dependentsf' \in [Joins -> BOOLEAN]
        BY <1>0, <3>1, <3>3, Zenon DEF TypeOK
      <3> QED BY <3>4, <3>5
    <2>3. TypeOK'
      BY <1>0, <2>1, <2>2, SupportConstants DEF TypeOK, Defined
    <2> QED BY <2>1, <2>3 DEF LinkInv, Links, Mutual, Unlinked, NoneLinked
  <1>8. ASSUME NEW r \in Rules, RemoveRule(r) PROVE LinkInv'
    BY <1>8, RemoveRuleLinks
  <1>9. CASE UNCHANGED vars
    BY <1>9 DEF vars, networkVars, LinkInv, TypeOK, Links, Mutual, Unlinked, NoneLinked,
                Defined
  <1> QED BY <1>1, <1>2, <1>3, <1>4, <1>5, <1>6, <1>7, <1>8, <1>9 DEF Next

(* Every reachable state is of its type: what has lost its support, and    *)
(* what needs none, is in the fact list, and every activation has a rule.  *)
THEOREM TypeCorrect == Spec => []TypeOK
  <1>1. LinkInv => TypeOK
    BY DEF LinkInv
  <1> QED BY <1>1, LinkInvInit, LinkInvNext, PTL DEF Spec

(* A fact asserted on its own is only taken away by a retract, however     *)
(* many rules offered it their support before or after                     *)
(* (lgcldpnd.c:99-104).                                                    *)
THEOREM GivenFactsAlwaysStay == Spec => GivenFactsStay
  <1>1. LinkInv /\ [Next]_vars => [GivenFactStays]_vars
    <2> SUFFICES ASSUME LinkInv, Next, NEW f \in given, f \notin facts'
                 PROVE  Settled /\ (ExecutingRule = NoRule \/ RetractedByRule(f))
      BY DEF GivenFactStays
    <2>0. f \in facts /\ f \notin DependencyList
      BY DEF LinkInv, TypeOK, Links, NoneLinked
    <2>1. \A g : Retract(g) => facts' = facts \ {g}
      BY DEF Retract, Drive
    <2>2. \A g : Assert(g) => facts \subseteq facts'
      BY DEF Assert, AssertDuplicate, AssertNew, Drive, NothingHappens
    <2>3. CASE ForceLogicalRetractions
      BY <2>0, <2>1, <2>3 DEF ForceLogicalRetractions
    <2>4. CASE Execute
      <3> DEFINE op == Head(todo)[1]
                 g  == Head(todo)[2]
      <3>1. /\ Settled /\ todo # <<>>
            /\ \/ op = "assert" /\ Assert(g)
               \/ op = "retract" /\ g \in facts /\ Retract(g)
               \/ op = "retract" /\ g \notin facts /\ NothingHappens
        BY <2>4 DEF Execute
      <3>2. Head(todo) \in Operations \X Facts
        BY <3>1 DEF LinkInv, TypeOK
      <3>3. Head(todo) = <<op, g>>
        BY <3>2 DEF Operations
      <3> HIDE DEF op, g
      <3>4. ~ NothingHappens /\ ~ Assert(g)
        BY <2>0, <2>2 DEF NothingHappens
      <3>5. op = "retract" /\ Retract(g)
        BY <3>1, <3>4
      <3>6. g = f
        BY <2>0, <2>1, <3>5
      <3> QED BY <3>1, <3>3, <3>5, <3>6 DEF RetractedByRule
    <2>5. CASE \E r \in Rules : Fire(r) \/ RemoveRule(r) \/ \E j \in Joins : DefineRule(r, j)
      BY <2>0, <2>5 DEF Fire, RemoveRule, DefineRule
    <2>6. CASE EndOfActions
      BY <2>0, <2>6 DEF EndOfActions
    <2>7. CASE \E g \in Facts : AssertFact(g) \/ RetractFact(g)
      BY <2>7 DEF AssertFact, RetractFact, Idle
    <2> QED BY <2>3, <2>4, <2>5, <2>6, <2>7 DEF Next
  <1> QED BY <1>1, LinkInvInit, LinkInvNext, PTL DEF Spec, GivenFactsStay

------------------------------------------------------------------------------
(* The two shapes of a rule for which the engine does not keep its promise *)
(* are left out: a logical prefix that is all of the rule and ends with a  *)
(* not or exists CE, and a negated group in a prefix.                      *)
SoundRules ==
  \A r \in Rules : /\ LHS[r].ce.kind # "notand"
                   /\ LHS[r].logical /\ LHS[r].rest = {} => LHS[r].ce.kind = "none"

(* What the joins of the defined rules have in common, and their flags.    *)
SharedPrefix == \A r, q \in Defined : joinOf[r] = joinOf[q] => SamePrefix(r, q)
Flags ==
  /\ \A j \in Joins : Users(j) = {} => ~ logicalJoin[j]
  /\ \A r \in Defined : LHS[r].logical => logicalJoin[joinOf[r]]
  /\ \A j \in Joins : logicalJoin[j] /\ Present(j, facts) => dependentsf[j]

(* Links lead to matches that hold; who has none is accounted for; what is *)
(* about to be fired, or fires and would still be found, matches.          *)
Holding(deps) == \A f \in Facts : \A j \in deps[f] :
                    j \in Joins /\ Live(j, facts) /\ dependentsf[j]
Accounted(deps, G) == \A f \in facts : deps[f] = {} => f \in G \union DependencyList
Matching == \A r \in agenda : Complete(r, facts)
BasisHolds == ExecutingRule # NoRule /\ LHS[ExecutingRule].logical /\ basis
                 => Live(joinOf[ExecutingRule], facts)

SupportInv == /\ LinkInv /\ SharedPrefix /\ Flags
              /\ Holding(dependents) /\ Accounted(dependents, given)
              /\ Matching /\ BasisHolds

LEMMA LiveByRule ==
  ASSUME SharedPrefix, NEW r \in Defined, NEW F
  PROVE  /\ Present(joinOf[r], F) <=> LHS[r].first \subseteq F
         /\ Live(joinOf[r], F) <=> LHS[r].first \subseteq F /\ Satisfied(LHS[r].ce, F)
  <1>1. r \in Users(joinOf[r]) /\ Users(joinOf[r]) \subseteq Defined
    BY DEF Users, Defined
  <1>2. \A q \in Users(joinOf[r]) : LHS[q].first = LHS[r].first /\ LHS[q].ce = LHS[r].ce
    BY <1>1 DEF SharedPrefix, SamePrefix, Users
  <1>3. Present(joinOf[r], F) <=> LHS[r].first \subseteq F
    BY <1>1, <1>2 DEF Present
  <1>4. (\A q \in Users(joinOf[r]) : Satisfied(LHS[q].ce, F)) <=> Satisfied(LHS[r].ce, F)
    BY <1>1, <1>2
  <1> QED BY <1>3, <1>4 DEF Live

(* Driving a change keeps it all: a match that is lost is lost to its      *)
(* facts, and a fact that is left without one is on the list.              *)
LEMMA DriveSupport ==
  ASSUME SoundRules, SupportInv, NEW F \in SUBSET Facts, NEW deps, NEW supp,
         LinkTypes(deps, supp), Mutual(deps, supp), Holding(deps),
         Drive(F, deps, supp), ExecutingRule' = ExecutingRule,
         \A f \in F : deps[f] = {} => f \in given' \union DependencyList
  PROVE  /\ SharedPrefix' /\ Flags'
         /\ Holding(dependents)' /\ Accounted(dependents, given)'
         /\ Matching' /\ BasisHolds'
  <1> DEFINE lost  == { j \in Lost(F) : dependentsf[j] }
             freed == { j \in Deleted(F) : ~ dependentsf[j] }
             without(f) == deps[f] \ { j \in lost : f \in supp[j] }
  <1>1. /\ dependents' = [f \in Facts |->
              IF without(f) \intersect freed = {} THEN without(f)
              ELSE (without(f) \ freed) \union {Freed}]
        /\ DependencyList' = { f \in Facts : \/ f \in DependencyList /\ f \in facts'
                                             \/ /\ \E j \in lost : f \in supp[j]
                                                /\ without(f) = {} }
        /\ facts' = F /\ joinOf' = joinOf /\ logicalJoin' = logicalJoin
        /\ agenda' = { r \in Defined : Complete(r, F) /\ (r \in agenda \/ ~ Complete(r, facts)) }
    BY DEF Drive, AddToDependencyList, networkVars
  <1>2. \A j \in Joins : dependentsf'[j] = (Present(j, F) /\
                            (IF Present(j, facts) THEN dependentsf[j] ELSE logicalJoin[j]))
    BY DEF Drive
  <1>3. /\ Defined' = Defined /\ \A j : Users(j)' = Users(j)
        /\ \A j : Present(j, facts)' <=> Present(j, F)
        /\ \A j : Live(j, facts)' <=> Live(j, F)
    BY <1>1 DEF Defined, Users, Present, Live
  <1>4. \A f \in Facts : dependents'[f] = deps[f] \ lost
    <2> SUFFICES ASSUME NEW f \in Facts PROVE dependents'[f] = deps[f] \ lost
      OBVIOUS
    <2>1. deps[f] \subseteq Joins /\ \A j \in deps[f] : f \in supp[j] /\ dependentsf[j]
      BY DEF Holding, Mutual
    <2>2. without(f) = deps[f] \ lost
      BY <2>1
    <2>3. without(f) \intersect freed = {}
      BY <2>1
    <2> HIDE DEF without, freed, lost
    <2> QED BY <1>1, <2>2, <2>3
  <1>5. \A j \in Joins : Live(j, facts) /\ dependentsf[j] /\ j \notin lost
                            => Live(j, F) /\ dependentsf'[j]
    BY <1>2 DEF Lost, Live
  <1> HIDE DEF lost, freed, without
  <1>6. SharedPrefix'
    BY <1>1, <1>3 DEF SupportInv, SharedPrefix, SamePrefix
  <1>7. Flags'
    <2>1. \A j \in Joins : logicalJoin[j] /\ Present(j, F) => dependentsf'[j]
      BY <1>2 DEF SupportInv, Flags
    <2> QED BY <1>1, <1>3, <2>1 DEF SupportInv, Flags
  <1>8. Holding(dependents)'
    BY <1>3, <1>4, <1>5 DEF Holding
  <1>9. Accounted(dependents, given)'
    <2> SUFFICES ASSUME NEW f \in F, dependents'[f] = {}
                 PROVE  f \in given' \union DependencyList'
      BY <1>1 DEF Accounted
    <2>1. CASE deps[f] = {}
      BY <1>1, <2>1
    <2>2. CASE deps[f] # {}
      <3>1. PICK j \in lost : j \in deps[f]
        BY <1>4, <2>2
      <3>2. f \in supp[j] /\ j \in Joins
        BY <3>1 DEF Mutual, Holding
      <3>3. without(f) = {}
        BY <1>4, Zenon DEF without, Mutual, Holding
      <3> QED BY <1>1, <3>1, <3>2, <3>3
    <2> QED BY <2>1, <2>2
  <1>10. Matching'
    BY <1>1 DEF Matching, Complete
  <1>11. BasisHolds'
    <2> SUFFICES ASSUME ExecutingRule # NoRule, LHS[ExecutingRule].logical, basis'
                 PROVE  Live(joinOf[ExecutingRule], F)
      BY <1>1, <1>3 DEF BasisHolds
    <2>1. SameBinds(ExecutingRule, F) /\ ExecutingRule \in Defined
      BY DEF Drive, SupportInv, LinkInv, TypeOK
    <2>2. LHS[ExecutingRule].rest = {} => Satisfied(LHS[ExecutingRule].ce, F)
      BY <2>1 DEF SoundRules, Satisfied, Defined
    <2>3. SharedPrefix
      BY DEF SupportInv
    <2> QED BY <2>1, <2>2, <2>3, LiveByRule DEF SameBinds
  <1> QED BY <1>6, <1>7, <1>8, <1>9, <1>10, <1>11

(* What concerns the matches and the flags depends on few variables.       *)
LEMMA StillSupported ==
  ASSUME SupportInv, LinkInv', BasisHolds', Matching',
         UNCHANGED <<facts, networkVars, dependentsf, DependencyList>>,
         Holding(dependents'), Accounted(dependents', given')
  PROVE  SupportInv'
  <1>1. joinOf' = joinOf /\ logicalJoin' = logicalJoin /\ Defined' = Defined
    BY DEF networkVars, Defined
  <1>2. /\ \A j : Users(j)' = Users(j)
        /\ \A j : Present(j, facts)' <=> Present(j, facts)
        /\ \A j : Live(j, facts)' <=> Live(j, facts)
    BY <1>1 DEF Users, Present, Live
  <1>3. SharedPrefix' /\ Flags'
    BY <1>1, <1>2 DEF SupportInv, SharedPrefix, Flags, SamePrefix
  <1>4. Holding(dependents)' /\ Accounted(dependents, given)'
    BY <1>2 DEF Holding, Accounted
  <1> QED BY <1>3, <1>4 DEF SupportInv

LEMMA RetractSupport ==
  ASSUME SoundRules, SupportInv, NEW f \in facts, Retract(f),
         ExecutingRule' = ExecutingRule, todo' \in Seq(Operations \X Facts)
  PROVE  SupportInv'
  <1> DEFINE deps == RemoveEntityDependencies(f)
             supp == Detach(f)
             F    == facts \ {f}
  <1>1. LinkInv'
    BY RetractLinks DEF SupportInv
  <1>2. /\ F \in SUBSET Facts /\ f \in Facts
        /\ LinkTypes(dependents, supported) /\ Mutual(dependents, supported)
    BY DEF SupportInv, LinkInv, TypeOK, LinkTypes, Links
  <1>3. /\ deps = [dependents EXCEPT ![f] = {}]
        /\ supp = [j \in Joins |-> IF j \in dependents[f] THEN supported[j] \ {f}
                                                          ELSE supported[j]]
    BY DEF RemoveEntityDependencies, Detach
  <1>4. Drive(F, deps, supp) /\ given' = given \ {f}
    BY DEF Retract
  <1> HIDE DEF deps, supp
  <1>5. LinkTypes(deps, supp) /\ Mutual(deps, supp)
    BY <1>2, <1>3 DEF LinkTypes, Mutual
  <1>6. Holding(deps)
    BY <1>2, <1>3 DEF SupportInv, Holding, LinkTypes
  <1>7. \A g \in F : deps[g] = {} => g \in given' \union DependencyList
    BY <1>2, <1>3, <1>4 DEF SupportInv, Accounted, LinkTypes
  <1> HIDE DEF F
  <1> QED BY <1>1, <1>2, <1>4, <1>5, <1>6, <1>7, DriveSupport DEF SupportInv

LEMMA BasisIsSupport ==
  ASSUME SupportInv, TheLogicalJoin # NoJoin, basis
  PROVE  /\ TheLogicalJoin \in Joins
         /\ Live(TheLogicalJoin, facts) /\ dependentsf[TheLogicalJoin]
  <1>1. /\ TheLogicalJoin \in Joins /\ ExecutingRule \in Defined
        /\ LHS[ExecutingRule].logical /\ TheLogicalJoin = joinOf[ExecutingRule]
    BY JoinOfRunningRule DEF SupportInv, LinkInv
  <1>2. ExecutingRule # NoRule
    BY <1>1, SupportConstants DEF Defined
  <1>3. Live(TheLogicalJoin, facts)
    BY <1>1, <1>2 DEF SupportInv, BasisHolds
  <1> QED BY <1>1, <1>3 DEF SupportInv, Flags, Live

LEMMA AssertSupport ==
  ASSUME SoundRules, SupportInv, Settled, NEW f \in Facts, Assert(f),
         ExecutingRule' = ExecutingRule, todo' \in Seq(Operations \X Facts)
  PROVE  SupportInv'
  <1>0. LinkInv'
    BY AssertLinks DEF SupportInv
  <1>1. /\ LinkTypes(dependents, supported) /\ facts \union {f} \in SUBSET Facts
        /\ Mutual(dependents, supported) /\ Unlinked(dependents, facts)
    BY DEF SupportInv, LinkInv, TypeOK, LinkTypes, Links
  <1>2. ASSUME UNCHANGED <<facts, networkVars, dependentsf, DependencyList, agenda, basis>>
        PROVE  BasisHolds' /\ Matching'
    <2>1. Live(joinOf[ExecutingRule], facts)' <=> Live(joinOf[ExecutingRule], facts)
      BY <1>2 DEF networkVars, Live, Present, Users
    <2> QED BY <1>2, <2>1 DEF SupportInv, BasisHolds, Matching, Complete
  <1>3. CASE NothingHappens
    <2>1. /\ UNCHANGED <<facts, networkVars, dependentsf, DependencyList, agenda, basis>>
          /\ UNCHANGED <<dependents, given>>
      BY <1>3 DEF NothingHappens
    <2> QED BY <1>0, <1>2, <2>1, StillSupported DEF SupportInv
  <1>4. CASE f \in facts /\ TheLogicalJoin = NoJoin
    <2>1. /\ UNCHANGED <<facts, networkVars, dependentsf, DependencyList, agenda, basis>>
          /\ given' = given \union {f} /\ dependents' = [dependents EXCEPT ![f] = {}]
      BY <1>4 DEF Assert, AssertDuplicate, RemoveEntityDependencies
    <2>2. Holding(dependents') /\ Accounted(dependents', given')
      BY <1>1, <2>1 DEF SupportInv, Holding, Accounted, LinkTypes
    <2> QED BY <1>0, <1>2, <2>1, <2>2, StillSupported
  <1>5. CASE f \in facts /\ TheLogicalJoin # NoJoin /\ ~ SupportIgnored(f)
    <2>1. /\ UNCHANGED <<facts, networkVars, dependentsf, DependencyList, agenda, basis>>
          /\ given' = given
          /\ dependents' = [dependents EXCEPT ![f] = @ \union {TheLogicalJoin}]
      BY <1>5 DEF Assert, AssertDuplicate
    <2>2. /\ TheLogicalJoin \in Joins
          /\ Live(TheLogicalJoin, facts) /\ dependentsf[TheLogicalJoin]
      BY <1>5, BasisIsSupport DEF SupportIgnored
    <2>3. Holding(dependents')
      BY <1>1, <2>1, <2>2 DEF SupportInv, Holding, LinkTypes
    <2>4. Accounted(dependents', given')
      BY <1>1, <2>1 DEF SupportInv, Accounted, LinkTypes
    <2> QED BY <1>0, <1>2, <2>1, <2>3, <2>4, StillSupported
  <1>6. CASE f \notin facts /\ TheLogicalJoin = NoJoin
    <2>1. given' = given \union {f} /\ Drive(facts \union {f}, dependents, supported)
      BY <1>6 DEF Assert, AssertNew
    <2>2. \A g \in facts \union {f} : dependents[g] = {} => g \in given' \union DependencyList
      BY <2>1 DEF SupportInv, Accounted
    <2>3. Holding(dependents)
      BY DEF SupportInv
    <2> QED BY <1>0, <1>1, <2>1, <2>2, <2>3, DriveSupport DEF SupportInv
  <1>7. CASE f \notin facts /\ TheLogicalJoin # NoJoin /\ basis
    <2> DEFINE deps == [dependents EXCEPT ![f] = {TheLogicalJoin}]
               supp == [supported EXCEPT ![TheLogicalJoin] = @ \union {f}]
               F    == facts \union {f}
    <2>1. given' = given /\ Drive(F, deps, supp)
      BY <1>7 DEF Assert, AssertNew
    <2>2. /\ TheLogicalJoin \in Joins /\ dependents[f] = {}
          /\ Live(TheLogicalJoin, facts) /\ dependentsf[TheLogicalJoin]
      BY <1>1, <1>7, BasisIsSupport DEF Unlinked
    <2>3. LinkTypes(deps, supp)
      BY <1>1, <2>2 DEF LinkTypes
    <2>4. Mutual(deps, supp)
      BY <1>1, <2>2 DEF Mutual, LinkTypes
    <2>5. Holding(deps)
      BY <1>1, <2>2 DEF SupportInv, Holding, LinkTypes
    <2>6. \A g \in F : deps[g] = {} => g \in given' \union DependencyList
      BY <1>1, <2>1 DEF SupportInv, Accounted, LinkTypes
    <2> HIDE DEF deps, supp, F
    <2>7. F \in SUBSET Facts
      BY <1>1 DEF F
    <2> QED BY <1>0, <2>1, <2>3, <2>4, <2>5, <2>6, <2>7, DriveSupport DEF SupportInv
  <1> QED BY <1>3, <1>4, <1>5, <1>6, <1>7 DEF Assert, AssertDuplicate, AssertNew, SupportIgnored

(* A rule may share a join when no match there lacks the slot it needs.    *)
LEMMA DefineSupport ==
  ASSUME SoundRules, SupportInv, LinkInv', NEW r \in Rules, NEW j \in Joins, DefineRule(r, j)
  PROVE  SupportInv'
  <1>1. /\ joinOf' = [joinOf EXCEPT ![r] = j] /\ joinOf[r] = NoJoin
        /\ logicalJoin' = [logicalJoin EXCEPT ![j] = logicalJoin[j] \/ LHS[r].logical]
        /\ dependentsf' = IF Users(j) # {} THEN dependentsf
             ELSE [dependentsf EXCEPT ![j] = LHS[r].logical /\ LHS[r].first \subseteq facts]
        /\ agenda' = IF Complete(r, facts) THEN agenda \union {r} ELSE agenda
        /\ UNCHANGED <<facts, dependents, supported, DependencyList, basis, given>>
        /\ ExecutingRule' = NoRule
        /\ Users(j) = {} \/ TestJoinForReuse(r, j)
    BY DEF DefineRule, Idle, runVars
  <1>2. TypeOK /\ SharedPrefix /\ Flags
    BY DEF SupportInv, LinkInv
  <1>3. /\ Users(j)' = Users(j) \union {r}
        /\ \A k \in Joins : k # j => Users(k)' = Users(k)
        /\ Defined' = Defined \union {r}
    BY <1>1, <1>2, SupportConstants DEF Users, Defined, TypeOK
  <1>4. \A q \in Users(j) : SamePrefix(r, q)
    <2>1. CASE Users(j) = {}
      BY <2>1
    <2>2. CASE TestJoinForReuse(r, j)
      <3>1. PICK q0 \in Users(j) : SamePrefix(r, q0)
        BY <2>2 DEF TestJoinForReuse
      <3>2. \A q \in Users(j) : SamePrefix(q0, q)
        BY <1>2, SupportConstants DEF SharedPrefix, Users, Defined
      <3> QED BY <3>1, <3>2 DEF SamePrefix
    <2> QED BY <1>1, <2>1, <2>2
  <1>5. /\ \A k \in Joins : k # j => /\ Present(k, facts)' <=> Present(k, facts)
                                     /\ Live(k, facts)' <=> Live(k, facts)
        /\ Present(j, facts)' <=> LHS[r].first \subseteq facts
        /\ Live(j, facts) => Live(j, facts)'
        /\ Users(j) # {} => (Present(j, facts)' <=> Present(j, facts))
    <2>1. \A k \in Joins : k # j => /\ Present(k, facts)' <=> Present(k, facts)
                                    /\ Live(k, facts)' <=> Live(k, facts)
      BY <1>1, <1>3 DEF Present, Live
    <2>2. Present(j, facts)' <=> LHS[r].first \subseteq facts
      BY <1>1, <1>3, <1>4 DEF Present, SamePrefix
    <2>3. Users(j) # {} => (Present(j, facts)' <=> Present(j, facts))
      BY <1>4, <2>2 DEF Present, SamePrefix
    <2>4. Live(j, facts) => Live(j, facts)'
      <3> SUFFICES ASSUME Live(j, facts) PROVE Live(j, facts)'
        OBVIOUS
      <3>1. Users(j) # {} /\ Present(j, facts)'
        BY <2>3 DEF Live, Present
      <3>2. PICK q \in Users(j) : LHS[q].ce = LHS[r].ce
        BY <1>4, <3>1 DEF SamePrefix
      <3>3. Satisfied(LHS[r].ce, facts)
        BY <3>2 DEF Live
      <3>4. \A p \in Users(j)' : Satisfied(LHS[p].ce, facts)
        BY <1>3, <3>3 DEF Live
      <3> QED BY <1>1, <3>1, <3>4 DEF Live, Satisfied, AllOf
    <2> QED BY <2>1, <2>2, <2>3, <2>4
  <1>6. SharedPrefix'
    BY <1>1, <1>2, <1>3, <1>4 DEF SharedPrefix, SamePrefix, Users, Defined, TypeOK
  <1>7. Flags'
    <2>1. ASSUME NEW k \in Joins, Users(k)' = {} PROVE ~ logicalJoin'[k]
      BY <1>1, <1>2, <1>3, <2>1 DEF Flags, TypeOK
    <2>2. ASSUME NEW q \in Defined', LHS[q].logical PROVE logicalJoin'[joinOf'[q]]
      BY <1>1, <1>2, <1>3, <2>2 DEF Flags, TypeOK, Defined
    <2>3. ASSUME NEW k \in Joins, logicalJoin'[k], Present(k, facts)' PROVE dependentsf'[k]
      <3>1. CASE k # j
        BY <1>1, <1>2, <1>5, <2>3, <3>1 DEF Flags, TypeOK
      <3>2. CASE k = j /\ Users(j) = {}
        <4>1. ~ logicalJoin[j]
          BY <1>2, <3>2 DEF Flags
        <4>2. LHS[r].logical /\ LHS[r].first \subseteq facts
          BY <1>1, <1>2, <1>5, <2>3, <3>2, <4>1 DEF TypeOK
        <4> QED BY <1>1, <1>2, <3>2, <4>2 DEF TypeOK
      <3>3. CASE k = j /\ Users(j) # {}
        <4>1. Present(j, facts) /\ dependentsf' = dependentsf
          BY <1>1, <1>5, <2>3, <3>3
        <4>2. CASE logicalJoin[j]
          BY <1>2, <3>3, <4>1, <4>2 DEF Flags
        <4>3. CASE ~ logicalJoin[j]
          <5>1. LHS[r].logical
            BY <1>1, <1>2, <2>3, <3>3, <4>3 DEF TypeOK
          <5>2. ~ InspectedBeta(r)
            BY <1>1, <3>3, <4>3, <5>1 DEF TestJoinForReuse, InspectedFlag
          <5>3. ~ (LHS[r].first \subseteq facts)
            BY <5>2 DEF InspectedBeta, SoundRules
          <5> QED BY <1>5, <2>3, <3>3, <5>3
        <4> QED BY <4>2, <4>3
      <3> QED BY <3>1, <3>2, <3>3
    <2> QED BY <2>1, <2>2, <2>3 DEF Flags
  <1>8. Holding(dependents)'
    <2> SUFFICES ASSUME NEW f \in Facts, NEW k \in dependents[f]
                 PROVE  k \in Joins /\ Live(k, facts)' /\ dependentsf'[k]
      BY <1>1 DEF Holding
    <2>1. k \in Joins /\ Live(k, facts) /\ dependentsf[k]
      BY DEF SupportInv, Holding
    <2>2. k = j => Users(j) # {}
      BY <2>1 DEF Live, Present
    <2> QED BY <1>1, <1>2, <1>5, <2>1, <2>2 DEF TypeOK
  <1>9. Accounted(dependents, given)'
    BY <1>1 DEF SupportInv, Accounted
  <1>10. Matching'
    BY <1>1 DEF SupportInv, Matching, Complete
  <1>11. BasisHolds'
    BY <1>1 DEF BasisHolds
  <1> QED BY <1>6, <1>7, <1>8, <1>9, <1>10, <1>11 DEF SupportInv

LEMMA RemoveSupport ==
  ASSUME SupportInv, LinkInv', NEW r \in Rules, RemoveRule(r)
  PROVE  SupportInv'
  <1> PICK j : j = joinOf[r]
    OBVIOUS
  <1> DEFINE unlinked(f) == IF dependentsf[j] THEN dependents[f] \ {j}
                            ELSE (dependents[f] \ {j}) \union {Freed}
  <1>1. /\ joinOf' = [joinOf EXCEPT ![r] = NoJoin] /\ agenda' = agenda \ {r}
        /\ UNCHANGED <<facts, DependencyList, basis>>
        /\ ExecutingRule' = NoRule /\ j # NoJoin
    BY DEF RemoveRule, Idle, runVars
  <1>2. TypeOK /\ SharedPrefix /\ Flags /\ j \in Joins /\ Mutual(dependents, supported)
    BY <1>1 DEF SupportInv, LinkInv, TypeOK, Links
  <1>3. /\ Users(j)' = Users(j) \ {r} /\ r \in Users(j)
        /\ \A k \in Joins : k # j => Users(k)' = Users(k)
        /\ Defined' = Defined \ {r}
    <2>1. NoJoin \notin Joins
      BY SupportConstants
    <2>2. \A q \in Rules : joinOf'[q] = IF q = r THEN NoJoin ELSE joinOf[q]
      BY <1>1, <1>2 DEF TypeOK
    <2>3. Users(j)' = Users(j) \ {r} /\ r \in Users(j)
      BY <1>2, <2>1, <2>2 DEF Users
    <2>4. \A k \in Joins : k # j => Users(k)' = Users(k)
      BY <2>1, <2>2 DEF Users
    <2>5. Defined' = Defined \ {r}
      BY <2>2 DEF Defined
    <2> QED BY <2>3, <2>4, <2>5
  <1>4. \A q \in Users(j) : LHS[q].first = LHS[r].first /\ LHS[q].ce = LHS[r].ce
    BY <1>2, SupportConstants DEF SharedPrefix, SamePrefix, Users, Defined
  <1>5. \A k \in Joins : k # j \/ Users(j) # {r} => /\ Present(k, facts)' <=> Present(k, facts)
                                                    /\ Live(k, facts)' <=> Live(k, facts)
    <2> SUFFICES ASSUME NEW k \in Joins, k # j \/ Users(j) # {r}
                 PROVE  /\ Present(k, facts)' <=> Present(k, facts)
                        /\ Live(k, facts)' <=> Live(k, facts)
      OBVIOUS
    <2>1. CASE k # j
      BY <1>1, <1>3, <2>1 DEF Present, Live
    <2>2. CASE k = j /\ Users(j) # {r}
      <3>1. Users(j)' # {} /\ Users(j) # {}
        BY <1>3, <2>2
      <3>2. /\ Present(j, facts)' <=> LHS[r].first \subseteq facts
            /\ Present(j, facts) <=> LHS[r].first \subseteq facts
        BY <1>1, <1>3, <1>4, <3>1 DEF Present
      <3>3. /\ (\A q \in Users(j) : Satisfied(LHS[q].ce, facts)) <=> Satisfied(LHS[r].ce, facts)
            /\ (\A q \in Users(j)' : Satisfied(LHS[q].ce, facts)) <=> Satisfied(LHS[r].ce, facts)
        BY <1>3, <1>4, <3>1
      <3> QED BY <1>1, <2>2, <3>2, <3>3 DEF Live, Satisfied, AllOf
    <2> QED BY <2>1, <2>2
  <1>6. SharedPrefix'
    BY <1>1, <1>2, <1>3 DEF SharedPrefix, SamePrefix, Defined, TypeOK
  <1>7. Flags' /\ Holding(dependents)' /\ Accounted(dependents, given)'
    <2>1. CASE Users(j) # {r}
      <3>1. UNCHANGED <<logicalJoin, dependentsf, dependents, given>>
        BY <2>1 DEF RemoveRule
      <3>2. \A k \in Joins : Users(k)' = {} => Users(k) = {}
        BY <1>3, <2>1
      <3>3. Flags'
        BY <1>1, <1>2, <1>3, <1>5, <2>1, <3>1, <3>2 DEF Flags, Defined, TypeOK
      <3> QED BY <1>1, <1>5, <2>1, <3>1, <3>3 DEF SupportInv, Holding, Accounted
    <2>2. CASE Users(j) = {r}
      <3>1. /\ logicalJoin' = [logicalJoin EXCEPT ![j] = FALSE]
            /\ dependentsf' = [dependentsf EXCEPT ![j] = FALSE]
            /\ dependents' = [f \in Facts |-> IF f \in supported[j] THEN unlinked(f)
                                                                    ELSE dependents[f]]
            /\ given' = given \union { f \in supported[j] : unlinked(f) = {} }
        BY <2>2 DEF RemoveRule
      <3>2. \A f \in Facts : /\ dependents'[f] = dependents[f] \ {j}
                             /\ dependents[f] # {} /\ dependents'[f] = {} => f \in given'
        <4> SUFFICES ASSUME NEW f \in Facts
                     PROVE  /\ dependents'[f] = dependents[f] \ {j}
                            /\ dependents[f] # {} /\ dependents'[f] = {} => f \in given'
          OBVIOUS
        <4>1. f \in supported[j] <=> j \in dependents[f]
          BY <1>2 DEF Mutual
        <4>2. j \in dependents[f] => dependentsf[j]
          BY DEF SupportInv, Holding
        <4>3. CASE f \in supported[j]
          BY <3>1, <4>1, <4>2, <4>3
        <4>4. CASE f \notin supported[j]
          BY <3>1, <4>1, <4>4
        <4> QED BY <4>3, <4>4
      <3> HIDE DEF unlinked
      <3>3. Users(j)' = {} /\ ~ Present(j, facts)'
        BY <1>3, <2>2 DEF Present
      <3>4. ASSUME NEW k \in Joins, Users(k)' = {} PROVE ~ logicalJoin'[k]
        BY <1>2, <1>3, <3>1, <3>4 DEF Flags, TypeOK
      <3>5. ASSUME NEW q \in Defined', LHS[q].logical PROVE logicalJoin'[joinOf'[q]]
        <4>1. q \in Defined /\ joinOf'[q] = joinOf[q] /\ joinOf[q] # j
          BY <1>1, <1>2, <1>3, <2>2, <3>5 DEF Users, Defined, TypeOK
        <4>2. joinOf[q] \in Joins
          BY <1>2, <4>1 DEF Defined, TypeOK
        <4> QED BY <1>2, <3>1, <3>5, <4>1, <4>2 DEF Flags, TypeOK
      <3>6. ASSUME NEW k \in Joins, logicalJoin'[k], Present(k, facts)' PROVE dependentsf'[k]
        BY <1>2, <1>5, <3>1, <3>3, <3>6 DEF Flags, TypeOK
      <3>7. Flags'
        BY <3>4, <3>5, <3>6 DEF Flags
      <3>8. Holding(dependents)'
        <4> SUFFICES ASSUME NEW f \in Facts, NEW k \in dependents'[f]
                     PROVE  k \in Joins /\ Live(k, facts)' /\ dependentsf'[k]
          BY DEF Holding
        <4>1. k \in Joins /\ k # j /\ Live(k, facts) /\ dependentsf[k]
          BY <3>2 DEF SupportInv, Holding
        <4> QED BY <1>2, <1>5, <3>1, <4>1 DEF TypeOK
      <3>9. Accounted(dependents, given)'
        BY <1>1, <1>2, <3>1, <3>2 DEF SupportInv, Accounted, TypeOK
      <3> QED BY <3>7, <3>8, <3>9
    <2> QED BY <2>1, <2>2
  <1>8. Matching' /\ BasisHolds'
    BY <1>1 DEF SupportInv, Matching, Complete, BasisHolds
  <1> QED BY <1>6, <1>7, <1>8 DEF SupportInv

------------------------------------------------------------------------------
LEMMA SupportInvInit == Init => SupportInv
  <1> SUFFICES ASSUME Init PROVE SupportInv
    OBVIOUS
  <1>1. LinkInv
    BY LinkInvInit
  <1>2. Defined = {} /\ \A j \in Joins : ~ logicalJoin[j]
    BY DEF Init, Defined
  <1>3. SharedPrefix /\ Flags
    BY <1>2 DEF SharedPrefix, Flags
  <1>4. Holding(dependents) /\ Accounted(dependents, given) /\ Matching /\ BasisHolds
    BY DEF Init, Holding, Accounted, Matching, BasisHolds
  <1> QED BY <1>1, <1>3, <1>4 DEF SupportInv

LEMMA SupportInvNext == SoundRules /\ SupportInv /\ [Next]_vars => SupportInv'
  <1> SUFFICES ASSUME SoundRules, SupportInv, [Next]_vars PROVE SupportInv'
    OBVIOUS
  <1>0. LinkInv /\ LinkInv' /\ TypeOK
    BY LinkInvNext DEF SupportInv, LinkInv
  <1>t. todo' \in Seq(Operations \X Facts)
    BY <1>0 DEF LinkInv, TypeOK
  <1>1. CASE ForceLogicalRetractions
    BY <1>t, <1>1, RetractSupport DEF ForceLogicalRetractions, runVars
  <1>2. ASSUME NEW r \in Rules, Fire(r) PROVE SupportInv'
    <2>1. /\ UNCHANGED <<facts, networkVars, dependentsf, dependents, DependencyList, given>>
          /\ agenda' = agenda \ {r} /\ r \in agenda /\ ExecutingRule' = r
      BY <1>2 DEF Fire
    <2>2. Live(joinOf[r], facts)
      <3>1. r \in Defined /\ Complete(r, facts) /\ SharedPrefix
        BY <1>0, <2>1 DEF SupportInv, Matching, TypeOK
      <3> QED BY <3>1, LiveByRule DEF Complete
    <2>3. Live(joinOf[r], facts)' <=> Live(joinOf[r], facts)
      BY <2>1 DEF networkVars, Live, Present, Users
    <2>4. BasisHolds' /\ Matching'
      BY <2>1, <2>2, <2>3 DEF BasisHolds, networkVars, SupportInv, Matching, Complete
    <2> QED BY <1>0, <2>1, <2>4, StillSupported DEF SupportInv
  <1>3. CASE Execute
    <2> DEFINE f == Head(todo)[2]
    <2>1. f \in Facts
      BY <1>0, <1>3 DEF Execute, TypeOK
    <2>2. /\ Settled /\ ExecutingRule' = ExecutingRule
          /\ Assert(f) \/ (f \in facts /\ Retract(f)) \/ NothingHappens
      BY <1>3 DEF Execute
    <2> HIDE DEF f
    <2>3. CASE NothingHappens
      <3>1. UNCHANGED <<facts, networkVars, dependentsf, dependents, DependencyList,
                        agenda, basis, given>>
        BY <2>3 DEF NothingHappens
      <3>2. Live(joinOf[ExecutingRule], facts)' <=> Live(joinOf[ExecutingRule], facts)
        BY <2>2, <3>1 DEF networkVars, Live, Present, Users
      <3>3. BasisHolds' /\ Matching'
        BY <2>2, <3>1, <3>2 DEF SupportInv, BasisHolds, Matching, Complete
      <3> QED BY <1>0, <3>1, <3>3, StillSupported DEF SupportInv
    <2> QED BY <1>t, <2>1, <2>2, <2>3, AssertSupport, RetractSupport
  <1>4. CASE EndOfActions
    <2>1. /\ UNCHANGED <<facts, networkVars, dependentsf, dependents, DependencyList,
                         agenda, given>>
          /\ ExecutingRule' = NoRule
      BY <1>4 DEF EndOfActions
    <2>2. BasisHolds' /\ Matching'
      BY <2>1 DEF SupportInv, BasisHolds, Matching, Complete
    <2> QED BY <1>0, <2>1, <2>2, StillSupported DEF SupportInv
  <1>5. ASSUME NEW f \in Facts, AssertFact(f) PROVE SupportInv'
    BY <1>t, <1>5, AssertSupport DEF AssertFact, Idle, runVars
  <1>6. ASSUME NEW f \in Facts, RetractFact(f) PROVE SupportInv'
    BY <1>t, <1>6, RetractSupport DEF RetractFact, runVars
  <1>7. ASSUME NEW r \in Rules, NEW j \in Joins, DefineRule(r, j) PROVE SupportInv'
    BY <1>0, <1>7, DefineSupport
  <1>8. ASSUME NEW r \in Rules, RemoveRule(r) PROVE SupportInv'
    BY <1>0, <1>8, RemoveSupport
  <1>9. CASE UNCHANGED vars
    <2>1. /\ UNCHANGED <<facts, networkVars, dependentsf, dependents, DependencyList,
                         agenda, basis, given>>
          /\ ExecutingRule' = ExecutingRule
      BY <1>9 DEF vars, runVars
    <2>2. Live(joinOf[ExecutingRule], facts)' <=> Live(joinOf[ExecutingRule], facts)
      BY <2>1 DEF networkVars, Live, Present, Users
    <2>3. BasisHolds' /\ Matching'
      BY <2>1, <2>2 DEF SupportInv, BasisHolds, Matching, Complete
    <2> QED BY <1>0, <2>1, <2>3, StillSupported DEF SupportInv
  <1> QED BY <1>1, <1>2, <1>3, <1>4, <1>5, <1>6, <1>7, <1>8, <1>9 DEF Next

(* Whatever is asserted, retracted, fired, defined and removed, a fact has *)
(* a match that holds and knows of it, or was asserted on its own, or is   *)
(* about to be retracted: for rules of the two sound shapes.               *)
THEOREM SupportKept == ASSUME SoundRules PROVE Spec => []FactsAreSupported
  <1>1. SupportInv => FactsAreSupported
    <2> SUFFICES ASSUME SupportInv, NEW f \in facts
                 PROVE  IF f \in given \union DependencyList
                        THEN dependents[f] = {}
                        ELSE /\ dependents[f] # {}
                             /\ \A j \in dependents[f] :
                                  j # Freed /\ Live(j, facts) /\ f \in supported[j]
      BY DEF FactsAreSupported
    <2>1. /\ Holding(dependents) /\ Accounted(dependents, given) /\ f \in Facts
          /\ Mutual(dependents, supported) /\ NoneLinked
      BY DEF SupportInv, LinkInv, TypeOK, Links
    <2>2. CASE f \in given \union DependencyList
      BY <2>1, <2>2 DEF NoneLinked
    <2>3. CASE f \notin given \union DependencyList
      BY <2>1, <2>3, SupportConstants DEF Holding, Accounted, Mutual
    <2> QED BY <2>2, <2>3
  <1>2. Init => SupportInv
    BY SupportInvInit
  <1>3. SupportInv /\ [Next]_vars => SupportInv'
    BY SupportInvNext
  <1> QED BY <1>1, <1>2, <1>3, PTL DEF Spec

==============================================================================
