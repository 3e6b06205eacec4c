SPECIFICATION Spec
CONSTANTS
  GET = GET
  Methods = {GET, POST}
  HealthPath <- MCHealth
  PingPath <- MCPing
  Routes <- MCRoutes
  Paths <- MCPaths
  Hot <- MCHot
  MaxAdds = 3
INVARIANTS
  SoundWhenOrdered
  FastComplete
  CachedFits
  SoundIfBytesTell
