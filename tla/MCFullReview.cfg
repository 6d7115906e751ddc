\* Two tools, two findings of either severity, three URLs and up to four searches
\* of one hit each, of which two become sources.
SPECIFICATION FairSpec
CONSTANTS
  lint = lint
  vuln = vuln
  Tools <- MCTools
  FindingIds = {lint, vuln}
  ToolOf <- MCToolOf
  Severities = {1, 2}
  Urls = {u1, u2, u3}
  Features = {g1}
  MaxQueries = 2
  MaxSubs = 1
  MaxPerSearch = 1
  MaxSources = 2
  MinDomainHits = 1
  MaxScore = 2
INVARIANTS
  TypeOK
  SeverityIsTheTools
  ResultsAreTheirs
  SourcesAreBest
  CitesOnlySources
  CloneIsRemoved
PROPERTIES
  EveryReviewEnds
CHECK_DEADLOCK FALSE
