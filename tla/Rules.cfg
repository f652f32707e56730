SPECIFICATION RulesSpec
CONSTANTS
  Texts <- MCTexts
  Stories <- MCStories
  Witnesses <- MCWitnesses
  Facts1 <- MCFacts1
  Facts2 <- MCFacts
  MaxStories = 3
  Definitions <- MCDefinitions
  Credentials <- MCCredentials
  MaxAnswers = 5
  Candidates <- MCCandidates
  Budget = 2
  Slots = 2
  MaxCrashes = 2
  Platforms <- MCPlatforms
  Limits <- MCLimits
  FeedLength = 2
  MaxPosts = 3
  MaxWithdrawn = 1
  Ports <- MCPorts
  DefaultPort <- MCDefaultPort
  BuiltinPort <- MCBuiltinPort
  NoPort = 0
  p1 = p1  p2 = p2  p3 = p3  Nobody = Nobody
  Pids = {p1, p2, p3}
  MaxBorn = 4
  MaxWindows = 2
  MaxExits = 1
  MaxDenied = 1
  sa = sa  e1 = e1  e2 = e2  u1 = u1  u2 = u2
  Null = Null
  Sources = {sa}
  Externals = {e1, e2}
  Urls = {u1, u2}
  Contents = {1, 2}
  Responses <- MCResponses
  Fetchers <- MCFetchers
  SourceOf <- MCSourceOf
  MaxFaults = 1
SYMMETRY MCSymmetry
CONSTRAINT MCInTurn
CHECK_DEADLOCK FALSE
INVARIANTS RulesAreSound ClustersAreEvents AccessIsAsAllowed CallsAreAccounted NothingIsSkipped UrlIsUsable NothingEscapes RunsMatchAudit RowsAreKept
PROPERTIES OthersAreLeftAlone
