\* One message and one job for another chat, one call of the message tool each.
SPECIFICATION Spec
CONSTANTS
  Registered = {"telegram"}
  Channels = {"telegram", "cli"}
  ChatIds = {"direct", "group"}
  JobChats <- GroupAndCli
  Senders = {"user", "stranger"}
  AllowList = {"user"}
  InCap = 1
  OutCap = 2
  NoRequest = NoRequest
  MaxMessages = 1
  MaxJobs = 1
  MaxTasks = 0
  MaxCalls = 2
INVARIANT ToolMessagesAtHome
CHECK_DEADLOCK FALSE
