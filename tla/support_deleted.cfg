SPECIFICATION Spec
CONSTANTS
  a = a
  b = b
  c = c
  d = d
  r1 = r1
  r2 = r2
  r3 = r3
  r4 = r4
  Facts = {a, b, c, d}
  Rules = {r1}
  Joins = {1, 2}
  NoJoin = 0
  NoRule = NoRule
  Freed = Freed
  LHS <- ExistsLHS
  RHS <- ExistsRHS
PROPERTY
  NewSupportHolds
