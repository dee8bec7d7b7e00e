\* Every request and every configuration that edits of the first can reach.
SPECIFICATION Spec
CONSTANTS
  Code = Code
  Migration = Migration
  Test = Test
  Files <- MCFiles
  ConfidenceThreshold = 70
  repo = repo
  token = token
  narrow = narrow
  wide = wide
  PolicyRepos = {repo}
  Globs = {narrow, wide}
  Matches <- MCMatches
INVARIANTS
  EnginesAgreeAlways
  VerdictSufficesAlways
  BundlesOnlyTighten
PROPERTIES
  GateTightensByStep
  RulesEscalateByStep
  MoreFilesEscalateByStep
