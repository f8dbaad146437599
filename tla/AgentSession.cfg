\* Turns of up to two tool calls, a summary above 3 messages that keeps 2.
SPECIFICATION Spec
CONSTANTS
  SummarizeAbove = 3
  KeepLast = 2
  PartLimit = 2
  Oversized = {FALSE}
  Summarizers = {g1, g2}
  Torn = Torn
  MaxTools = 2
  MaxMessages = 8
  MaxCrashes = 1
  MaxFaults = 1
SYMMETRY SummarizerSymmetry
INVARIANTS TypeOK PromptCoversSession SummaryNotStale FinishedTurnsSaved ToolResultsFollow SummarizedOrKept
CHECK_DEADLOCK FALSE
