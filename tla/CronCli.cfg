\* The gateway and one command: two jobs, a crash or shutdown.
SPECIFICATION CliFairSpec
CONSTANTS
  MaxTime = 2
  MaxJobs = 2
  Exprs = {2}
  NextTickAfter <- MCNextTickAfter
  Switches = {TRUE, FALSE}
  Inputs <- CliTestInputs
  NoTime = NoTime
  NoJob = NoJob
  NoId = NoId
  NoEntry = NoEntry
  Torn = Torn
  NoStore = NoStore
  MaxExits = 1
  MaxFaults = 0
  MaxCommands = 1
INVARIANTS PromiseInv
PROPERTIES KeepsPromise GatewayWins
CHECK_DEADLOCK FALSE
