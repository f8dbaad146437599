\* Any of the eight channels, two messages, a text of a job, a failure.
SPECIFICATION FairSpec
CONSTANTS
  Installed <- AllChannels
  MaxEvents = 2
  MaxTexts = 1
  MaxFaults = 1
  Limit = 1
  Cut = 1
  ReadLimit = 2
INVARIANTS TypeOK Delivered ChecksMatch HandledOnce
PROPERTIES TextsApart AnimationsEnd DispatcherGoesOn
\* The gateway may be stopped.
CHECK_DEADLOCK FALSE
