SPECIFICATION FairSpec
CONSTANTS
  MAIN = MAIN  A = A  r1 = r1  r2 = r2  r3 = r3  m1 = m1  m2 = m2  m3 = m3
  Modules <- MCModules
  Rules <- MCRules
  ModuleOf <- MCModuleOf
  Complexity <- MCComplexity
  Matches <- MCMatches
  RuleOf <- MCRuleOf
  Basis <- MCBasis
  Saliences = {0, 1}
  RandomIDs = {0}
  ModuleList <- MCModuleList
  Main = MAIN
  Dynamic = {r1}
  AutoFocus = {r3}
  Breakable = {r2}
  TriedStrategies = {"depth", "lex", "simplicity"}
  Limits <- MCLimits
  NoActivation = NoActivation
  MaxTimetag = 3
  MaxFocus = 2
  MaxActions = 1
  MaxChanges = 2
INVARIANTS TypeOK AgendaSorted OneActivation
PROPERTIES FiresInOrder BreakpointStopsRun RefreshedIsCurrent RunEnds
