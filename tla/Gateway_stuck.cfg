\* Two subagents and two messages are enough for the goroutines to wait for each other.
SPECIFICATION FairSpec
CONSTANTS
  Registered = {"telegram"}
  Channels = {"telegram", "cli"}
  ChatIds = {"direct"}
  JobChats = {}
  Senders = {"user"}
  AllowList = {}
  InCap = 1
  OutCap = 1
  NoRequest = NoRequest
  MaxMessages = 2
  MaxJobs = 0
  MaxTasks = 2
  MaxCalls = 2
PROPERTY SubagentReportsBack
CHECK_DEADLOCK FALSE
