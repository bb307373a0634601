SPECIFICATION Spec
CONSTANTS
  Base = "deleted"
  Facts <- MCFacts
  Rules <- MCRules
  LHS <- MCLHS
  Variables <- MCVariables
  NoRule = NoRule
INVARIANTS NoDeletedFact
