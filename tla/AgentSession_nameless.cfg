\* The request after a tool call, for each provider.
SPECIFICATION Spec
CONSTANTS
  SummarizeAbove = 3
  KeepLast = 2
  PartLimit = 2
  Oversized = {FALSE}
  Summarizers = {g1}
  Torn = Torn
  MaxTools = 1
  MaxMessages = 4
  MaxCrashes = 0
  MaxFaults = 0
INVARIANT CallsRepeated
CHECK_DEADLOCK FALSE
