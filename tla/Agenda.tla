------------------------------- MODULE Agenda -------------------------------
(***************************************************************************)
(* The order of an agenda of the CLIPS 6.0 engine: the conflict resolution *)
(* strategies of crstrtgy.c, and how an activation is linked into the list *)
(* and out of it again (crstrtgy.c, agenda.c).                             *)
(*                                                                         *)
(* A match is given by its rule and by the time tags of its items, one     *)
(* more than those of the code, so that 0 stands for the item that a not   *)
(* CE does not have.  The first CE of a rule is a pattern.                 *)
(***************************************************************************)
EXTENDS Integers, Sequences

CONSTANTS Modules,     \* the defmodules
          Rules,       \* the defrules
          ModuleOf,    \* the module of each rule
          Complexity,  \* the complexity of each rule
          Matches,     \* the complete partial matches there may be
          RuleOf,      \* the rule each of them is a match of
          Basis,       \* the time tags of its items
          Saliences,   \* the values of saliences
          RandomIDs    \* the values of genrand()

ASSUME RulesAssumption ==
  /\ ModuleOf \in [Rules -> Modules]
  /\ Complexity \in [Rules -> Nat]
ASSUME MatchesAssumption ==
  /\ RuleOf \in [Matches -> Rules]
  /\ Basis \in [Matches -> Seq(Nat)]
  /\ \A m \in Matches : Basis[m] # <<>> /\ Basis[m][1] > 0
ASSUME NumbersAssumption == Saliences \subseteq Int /\ RandomIDs \subseteq Int

Strategies == {"depth", "breadth", "lex", "mea", "complexity", "simplicity", "random"}

Activation == [basis : Matches, salience : Saliences, timetag : Nat, random : RandomIDs]

------------------------------------------------------------------------------
(* The items of a match by descending time tag.  The bubble sort exchanges *)
(* neighbours that both have an item: none moves across a not CE.          *)
Movable(b, i, j) ==
  \/ i = j
  \/ \A k \in DOMAIN b : (i <= k /\ k <= j) \/ (j <= k /\ k <= i) => b[k] # 0
Arrangements(b) ==
  { p \in [DOMAIN b -> DOMAIN b] :
      /\ \A i, j \in DOMAIN b : p[i] = p[j] => i = j
      /\ \A i \in DOMAIN b : Movable(b, i, p[i]) }
Descends(b, p) ==
  \A i, j \in DOMAIN b : i < j /\ Movable(b, i, j) => b[p[i]] >= b[p[j]]
SortPartialMatch(b) ==
  LET p == CHOOSE p \in Arrangements(b) : Descends(b, p) IN [i \in DOMAIN b |-> b[p[i]]]

SortedBasis == [m \in Matches |-> SortPartialMatch(Basis[m])]
ComplexityOf(a) == Complexity[RuleOf[a.basis]]

(* ComparePartialMatches: the first item that differs, the number of items *)
(* or the complexity of the rule make a the greater one.                   *)
SameItems(s, t) == \A k \in DOMAIN s \intersect DOMAIN t : s[k] = t[k]
FirstGreater(s, t) == \E i \in DOMAIN s \intersect DOMAIN t :
                        s[i] > t[i] /\ \A k \in 1..(i - 1) : s[k] = t[k]
Greater(a, b) ==
  LET s == SortedBasis[a.basis]
      t == SortedBasis[b.basis]
  IN  \/ FirstGreater(s, t)
      \/ SameItems(s, t) /\ Len(s) > Len(t)
      \/ SameItems(s, t) /\ Len(s) = Len(t) /\ ComplexityOf(a) > ComplexityOf(b)

FirstItem(a) == Basis[a.basis][1]

(* Strategy st prefers a over b before it looks at their age.              *)
Preferred(st, a, b) ==
  CASE st = "depth"      -> a.timetag > b.timetag
    [] st = "lex"        -> Greater(a, b)
    [] st = "mea"        -> \/ FirstItem(a) > FirstItem(b)
                            \/ FirstItem(a) = FirstItem(b) /\ Greater(a, b)
    [] st = "complexity" -> ComplexityOf(a) > ComplexityOf(b)
    [] st = "simplicity" -> ComplexityOf(a) < ComplexityOf(b)
    [] st = "random"     -> a.random < b.random
    [] OTHER             -> FALSE

(* The condition under which Place...Activation goes on behind activation  *)
(* a of the list when it looks for the place of b.                         *)
StaysAhead(st, a, b) ==
  \/ a.salience > b.salience
  \/ /\ a.salience = b.salience
     /\ \/ Preferred(st, a, b)
        \/ ~Preferred(st, b, a) /\ a.timetag < b.timetag

------------------------------------------------------------------------------
(* The list.                                                               *)

\* Mutant: the search ends at the first activation of the same salience.
PlaceBySalience(st, q, a) ==
  CHOOSE n \in 1..(Len(q) + 1) :
    /\ n <= Len(q) => q[n].salience <= a.salience
    /\ \A k \in 1..(n - 1) : q[k].salience > a.salience
(* Where the search for the place of a ends.                               *)
PlaceOf(st, q, a) ==
  CHOOSE n \in 1..(Len(q) + 1) :
    /\ n <= Len(q) => ~StaysAhead(st, q[n], a)
    /\ \A k \in 1..(n - 1) : StaysAhead(st, q[k], a)

InsertAt(q, n, a) ==
  [k \in 1..(Len(q) + 1) |-> IF k < n THEN q[k] ELSE IF k = n THEN a ELSE q[k - 1]]
DropAt(q, n) == [k \in 1..(Len(q) - 1) |-> IF k < n THEN q[k] ELSE q[k + 1]]

PlaceActivation(st, q, a) == InsertAt(q, PlaceOf(st, q, a), a)

Sorted(st, q) == \A i, j \in DOMAIN q : i < j => StaysAhead(st, q[i], q[j])

==============================================================================
