\* Two jobs, a crash or shutdown, a failed write.
SPECIFICATION FairSpec
CONSTANTS
  MaxTime = 3
  MaxJobs = 2
  Exprs = {0, 2}
  NextTickAfter <- MCNextTickAfter
  Switches = {TRUE, FALSE}
  Inputs <- AllInputs
  NoTime = NoTime
  NoJob = NoJob
  NoId = NoId
  NoEntry = NoEntry
  Torn = Torn
  MaxExits = 1
  MaxFaults = 1
INVARIANTS TypeOK PromiseInv NoJobStranded NothingUnsaved
PROPERTIES KeepsPromise UserDecides DueJobsRun FileHeals
CHECK_DEADLOCK FALSE
