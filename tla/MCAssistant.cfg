\* Two chats or one stack review, three external skills, one crash.
SPECIFICATION FairSpec
CONSTANTS
  one = one
  two = two
  react = react
  svelte = svelte
  astro = astro
  nuxt = nuxt
  rust = rust
  ghost = ghost
  External = {astro, nuxt, rust}
  Invented = {ghost}
  Prefixed = {rust}
  Inside = {astro, nuxt}
  Position <- MCPosition
  Limit = 2
  ClosestLimit = 1
  IndexFile = index
  Threads = {one, two}
  MaxCrashes = 1
  MaxIter = 4
  Uses <- MCUses
  Techs = {react, svelte}
  MinMajor <- MCMinMajor
  Packages <- MCPackages
  MaxPackages = 2
INVARIANTS
  TypeOK
  PartsHaveWriters
  SearchFindsBest
  SentBackToSearch
  SuggestedSkillFits
PROPERTIES
  EveryTurnEnds
CHECK_DEADLOCK FALSE
