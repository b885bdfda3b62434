SPECIFICATION FairSpec
CONSTANTS
  Layouts <- MCFailingLayouts
  MaxBlocks = 3
  MaxCrashes = 2
  Versions = {v1, v2}
  StartupMayFail = FALSE
INVARIANTS TypeOK RowsMatchChain LinksResolve VersionRecorded
PROPERTIES RefinesLog EventuallyIndexed
CHECK_DEADLOCK FALSE
