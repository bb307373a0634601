-------------------------- MODULE MCTruthMaintenance --------------------------
(* Instances of TruthMaintenance for TLC.                                  *)
EXTENDS TruthMaintenance

CONSTANTS a, b, c, d, r1, r2, r3, r4

CE(kind, fs) == [kind |-> kind, facts |-> fs]
Rule(first, ce, logical, rest) ==
  [first |-> first, ce |-> ce, logical |-> logical, rest |-> rest]
Add(f) == <<"assert", f>>
Del(f) == <<"retract", f>>

(* Two logical rules and a plain one share a join; a logical not CE with   *)
(* something behind it asserts the fact it is about.                       *)
SupportLHS == [r \in Rules |->
  CASE r = r1 -> Rule({a}, CE("none", <<>>), TRUE, {})
    [] r = r2 -> Rule({a}, CE("none", <<>>), TRUE, {b})
    [] r = r3 -> Rule({a}, CE("none", <<>>), FALSE, {d})
    [] r = r4 -> Rule({c}, CE("not", <<d>>), TRUE, {b})]
SupportRHS == [r \in Rules |->
  CASE r = r1 -> <<Add(c)>>
    [] r = r2 -> <<Add(d), Del(a), Add(c)>>
    [] r = r3 -> <<Del(b), Add(c)>>
    [] r = r4 -> <<Add(a), Add(d), Add(b)>>]

(* A logical exists CE that is the last of a rule, which retracts what it  *)
(* rests on.                                                               *)
ExistsLHS == [r \in Rules |-> Rule({a}, CE("exists", <<b>>), TRUE, {})]
ExistsRHS == [r \in Rules |-> <<Del(b), Add(c)>>]

(* A negated group before the rest of two rules, one of them logical.      *)
GroupLHS == [r \in Rules |-> Rule({a}, CE("notand", <<b, c>>), r = r2, {d})]
GroupRHS == [r \in Rules |-> IF r = r2 THEN <<Add(b)>> ELSE <<>>]

===============================================================================
