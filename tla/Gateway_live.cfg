\* One chat, queues with room for one message.
SPECIFICATION FairSpec
CONSTANTS
  Registered = {"telegram"}
  Channels = {"telegram", "cli"}
  ChatIds = {"direct"}
  JobChats <- EveryChat
  Senders = {"user"}
  AllowList = {}
  InCap = 1
  OutCap = 1
  NoRequest = NoRequest
  MaxMessages = 2
  MaxJobs = 1
  MaxTasks = 2
  MaxCalls = 2
PROPERTIES MessagesAnswered SubagentsAnnounce
CHECK_DEADLOCK FALSE
