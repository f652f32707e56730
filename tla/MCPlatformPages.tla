--------------------------- MODULE MCPlatformPages ---------------------------
EXTENDS PlatformPages
MCPlatforms == Feeds \cup Lists \cup Cursored
MCLimits == {1, 2}
=============================================================================
