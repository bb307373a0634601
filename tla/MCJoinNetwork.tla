---------------------------- MODULE MCJoinNetwork ----------------------------
(* Small rule bases for the join network.                                  *)
EXTENDS JoinNetwork

CONSTANT Base   \* the rule base of the run

MCVariables == {"?x", "?y", "?z"}

c == <<"c">>
d == <<"d">>
e1 == <<"e", "1">>
a1 == <<"a", "1">>
a2 == <<"a", "2">>
b1 == <<"b", "1">>
b2 == <<"b", "2">>
NoneWithout(x, y) == NotAnd(<<Pat(<<"a", x>>), Not(<<"b", y>>)>>)

Bases ==
  [match |-> [facts |-> {a1, b1, b2, c},
              rules |-> ("negated" :> <<Pat(c), Pat(<<"a", "?x">>), Not(<<"b", "?x">>), Pat(c)>>)
                     @@ ("shares"  :> <<Pat(c), Pat(<<"a", "?x">>), Not(<<"b", "?y">>)>>)
                     @@ ("group"   :> <<Pat(c), NoneWithout("?x", "?x"), Pat(c)>>)],
   deleted |-> [facts |-> {c, a1, a2, e1},
                rules |-> ("r" :> <<Pat(c),
                                    NotAnd(<<Pat(<<"e", "?z">>),
                                             NotAnd(<<Pat(c), Not(<<"a", "?x">>)>>)>>),
                                    Pat(<<"a", "?y">>)>>)],
   prime |-> [facts |-> {c, d, a1, b1},
              rules |-> ("r0" :> <<Pat(d)>>)
                     @@ ("r1" :> <<Pat(<<"a", "?x">>), Not(<<"b", "?x">>), Pat(c)>>)
                     @@ ("r2" :> <<Pat(<<"a", "?x">>), Not(<<"b", "?x">>), Pat(d)>>)]]

MCFacts == Bases[Base].facts
MCLHS == Bases[Base].rules
MCRules == DOMAIN MCLHS
==============================================================================
