\* Three commands, two goroutines that refresh, a failure and an exit.
SPECIFICATION Spec
CONSTANTS
  Turns = {loop, cron}
  Models <- MCModels
  Keys <- MCKeys
  Torn = Torn
  MaxTokens = 3
  MaxCommands = 3
  MaxExits = 1
  MaxFaults = 1
INVARIANTS TypeOK StoredTokenLives LoginsUsable
CHECK_DEADLOCK FALSE
