\* One job added by the command while the gateway runs, which then does not end.
SPECIFICATION CliFairSpec
CONSTANTS
  MaxTime = 2
  MaxJobs = 1
  Exprs = {2}
  NextTickAfter <- MCNextTickAfter
  Switches = {}
  Inputs <- PeriodInputs
  NoTime = NoTime
  NoJob = NoJob
  NoId = NoId
  NoEntry = NoEntry
  Torn = Torn
  NoStore = NoStore
  MaxExits = 0
  MaxFaults = 0
  MaxCommands = 1
PROPERTY CliAddProcessed
CHECK_DEADLOCK FALSE
