\* A document and a skill, two runs of migrate or onboard, two skill commands.
SPECIFICATION Spec
CONSTANTS
  Docs = {"SOUL.md"}
  Skills = {"weather"}
  Providers <- MCProviders
  ChannelNames <- MCChannels
  OpenClawConfigs <- MCOpenClawConfigs
  NoConfig = NoConfig
  TornConfig = TornConfig
  Values <- MCValues
  MaxEdits = 2
  MaxRuns = 2
  MaxInstalls = 2
  MaxFaults = 1
INVARIANTS TypeOK OriginalSurvives RefreshSyncs
PROPERTY ConfigKept
\* All commands may have run.
CHECK_DEADLOCK FALSE
