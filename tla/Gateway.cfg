\* Two chats, two messages, two subagents, a job.
SPECIFICATION Spec
CONSTANTS
  Registered = {"telegram"}
  Channels = {"telegram", "cli"}
  ChatIds = {"direct", "group"}
  JobChats <- GroupAndCli
  Senders = {"user", "stranger"}
  AllowList = {"user"}
  InCap = 1
  OutCap = 2
  NoRequest = NoRequest
  MaxMessages = 2
  MaxJobs = 1
  MaxTasks = 2
  MaxCalls = 2
INVARIANTS TypeOK AnsweredOnceAtHome AnswersInOrder ReportAfterAnswer
PROPERTY KeepsPromise
CHECK_DEADLOCK FALSE
