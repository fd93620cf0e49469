SPECIFICATION MCSpec
CONSTANTS
  E621Index <- MCE621
  DanbooruIndex <- MCDanbooru
  WikiTags <- MCWiki
  LoreTags = {"truth"}
  NonIdentityTags = {}
  ReplaceRules <- MCRules
  AnthroTags = {"anthro dog"}
  Shown <- MCShown
  Recovered <- MCRecovered
  Displayed <- MCDisplayed
  Unshowable = {"a,b"}
  Folded <- MCFolded
  Clipped <- MCClipped
  Untidy <- MCUntidy
  Setups <- MCSetups
  Libraries <- MCLibraries
  FrameRoom = 4
  MaxRestarts = 1
  MaxFaults = 2
INVARIANT FailureHasACause
INVARIANT DecidedCountHolds
INVARIANT CaptionIsReadBack
INVARIANT LoadedIsFrozen
INVARIANT PreflightIsEnough
PROPERTY OwnAnswer
CHECK_DEADLOCK FALSE
