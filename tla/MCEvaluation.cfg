\* Two skills and two cases, two calls of each, one restart.
SPECIFICATION FairSpec
CONSTANTS
  react = react
  angular = angular
  skillmd = skillmd
  readme = readme
  guide = guide
  case1 = case1
  case2 = case2
  Registry <- MCRegistry
  Locals = {react}
  Files = {skillmd, readme, guide}
  FilesOf <- MCFilesOf
  Length <- MCLength
  Cap = 6
  Mark = 1
  Join = 1
  MaxRestarts = 1
  Cases <- MCCases
  Flawed = {case1}
  DimensionOf <- MCDimensionOf
  Runs = 2
  MaxRetries = 2
  MaxToolRounds = 1
  Sampled = 4
INVARIANTS
  TypeOK
  CatalogMatchesDisk
  AnswersAreCapped
  AttemptsStartClean
  VerdictCountsAnswers
  FailuresAreKept
PROPERTIES
  EveryEvaluationEnds
CHECK_DEADLOCK FALSE
