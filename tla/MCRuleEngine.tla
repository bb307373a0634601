---------------------------- MODULE MCRuleEngine ----------------------------
(* A small rule base for the rule engine.                                  *)
EXTENDS RuleEngine, TLC

CONSTANTS MAIN, A, r1, r2, r3, m1, m2, m3

MCModules == {MAIN, A}
MCRules == {r1, r2, r3}
MCModuleOf == (r1 :> MAIN) @@ (r2 :> MAIN) @@ (r3 :> A)
MCComplexity == (r1 :> 1) @@ (r2 :> 2) @@ (r3 :> 1)
MCMatches == {m1, m2, m3}
MCRuleOf == (m1 :> r1) @@ (m2 :> r2) @@ (m3 :> r3)
MCBasis == (m1 :> <<1, 3>>) @@ (m2 :> <<2, 0, 1>>) @@ (m3 :> <<1>>)
MCModuleList == <<MAIN, A>>
MCLimits == {-1, 1}
==============================================================================
