SPECIFICATION Spec
CONSTANTS
  Base = "prime"
  Facts <- MCFacts
  Rules <- MCRules
  LHS <- MCLHS
  Variables <- MCVariables
  NoRule = NoRule
INVARIANTS ActivationsAreMatches
