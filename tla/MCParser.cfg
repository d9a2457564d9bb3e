SPECIFICATION PartsSpec
CONSTANTS
  None = None
  Names = {"T", "f"}
  Jobs <- ParserJobs
  Limits <- ParserLimits
  WordMax = 300
  TokenCost = 1
  NodeCosts = {1}
  TagUnits <- MCTagUnits
  EventLimit = 12
  TypeWorkLimit = 12
  MaxTagDepth = 6
INVARIANT DiscoveryExact
PROPERTIES ParserExact ParserReturns
