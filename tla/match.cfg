SPECIFICATION Spec
CONSTANTS
  Base = "match"
  Facts <- MCFacts
  Rules <- MCRules
  LHS <- MCLHS
  Variables <- MCVariables
  NoRule = NoRule
INVARIANTS TypeOK ActivationsAreMatches BlockersHold NoDeletedFact
