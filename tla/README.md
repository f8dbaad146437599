# A TLA+ development of picoclaw

picoclaw is a personal assistant: a gateway process that connects chat
channels to an agent, which calls an LLM and tools in a loop, remembers
conversations in sessions, runs scheduled jobs and spawns subagents. This
directory holds TLA+ modules that model its concurrent and persistent parts,
TLC configurations that check them on small instances, and modules of theorems
about them, whose proofs TLAPS checks. All paths below are relative to the repository's root
(`src/` in `PROJECT.json`).

To run: `tlc -config CronService.cfg MCCronService` (each run is a pair of a
`.cfg` and an MC module, listed in `PROJECT.json`); `tlapm CronServiceProofs.tla`,
and the same for the other modules `*Proofs`.

## 1. Inventory of the system

| Part | State | Operations | Hard behaviour | What makes it correct |
|---|---|---|---|---|
| Cron service, `pkg/cron/service.go` | store of jobs under `mu`, `jobs.json`, `running`, the batch of a tick | Start, Stop, checkJobs, executeJob, AddJob, RemoveJob, EnableJob, ListJobs, Status | handlers run outside the lock on copies; nil next runs while a batch runs; recomputation at restart; torn files | no start early, twice or too often; users have the last word; due jobs run; a crash loses nothing |
| Cron commands, `cmd/picoclaw/main.go` | a store loaded from the file in a process of its own | add, remove, enable, disable, list | no lock between processes, whole file overwritten by both sides | the promise to users survives; what the command says was added is added |
| Cron tool, `pkg/tools/cron.go` | default chat | add, list, remove, enable, disable, ExecuteJob | called in a turn, and as the job handler on the cron goroutine | delivers a text or runs a turn in the job's chat |
| Message bus, `pkg/bus` | two queues of 100 | Publish/Consume Inbound, Publish/Subscribe Outbound | blocks when full | order; no message dropped |
| Agent loop, `pkg/agent/loop.go` | map of sessions being summarized | Run, processMessage, processSystemMessage, runAgentLoop, runLLMIteration, maybeSummarize, summarizeSession | turns on two goroutines; summarizers beside turns; errors of LLM and tools | every message answered once, in its chat, in order; the prompt covers the conversation |
| Context builder, memory, `pkg/agent` | files of memory | BuildMessages, AppendToday, WriteLongTerm | history and summary read in two steps | prompt well formed |
| Session manager, `pkg/session/manager.go` | map of sessions under `mu`, one file each | GetOrCreate, AddMessage, GetHistory, Get/SetSummary, TruncateHistory, Save, loadSessions | save of what is in memory at any time, torn files, keys that are no file names | finished turns survive |
| Subagents, `pkg/tools/subagent.go`, `spawn.go` | tasks under `sm.mu` | Spawn, runTask, GetTask, ListTasks | publishes on a bounded queue while it holds `sm.mu` | every subagent reports back |
| Tool registry, message tool, `pkg/tools` | tools, a default chat in each contextual tool | Register, ExecuteWithContext | default chat set and read without lock by two goroutines | a tool acts for the chat of its turn |
| File, edit, shell, web tools | files, processes | read, write, edit, list, exec, search, fetch | edit replaces exactly one occurrence; timeouts | mostly I/O |
| Channel manager, base channel, `pkg/channels` | map of channels, dispatcher | StartAll, StopAll, dispatchOutbound, HandleMessage, IsAllowed | start fails half way; unknown channels | messages reach the right channel |
| Telegram | placeholder and cancel function per chat | handleMessage, Send, the animation | handler, animation and Send race over two maps | a text seen once, none overwritten by another; animations end |
| Slack | pending acknowledgement per chat | handleMessageEvent, handleAppMention, handleSlashCommand, Send | second message replaces the acknowledgement | the messages marked are the messages answered |
| QQ | set of processed ids | handlers, isDuplicate, Send | redelivery while a delivery is handled; eviction of arbitrary ids at 10000 | a message is handled once |
| Discord, DingTalk, Feishu, WhatsApp, MaixCam | requests under way, webhooks, a connection, devices | Start, Stop, Send, handlers, listen | timeout of a request that goes on; lost connections; requests without timeout and writes without deadline | texts reach their chat; the dispatcher goes on unless a request hangs |
| Heartbeat | `stopChan` | Start, Stop, checkHeartbeat | `running()` is true before the first Start | never runs; gateway has no handler for it |
| Credentials and OAuth, `pkg/auth` | `auth.json` | Get/Set/DeleteCredential, RefreshAccessToken, login flows | read, change, write in several processes without a lock; refresh of a token used twice | no credential lost; the stored token is good |
| LLM providers, `pkg/providers` | none | Chat, CreateProvider, conversion of messages | calls, results and texts converted differently per API; choice among keys and logins | the conversation sent is the conversation kept; a login is used |
| Migration, `pkg/migrate` | files of two directories, `.bak` copies | Plan, Execute, ConvertConfig, MergeConfig | failing steps, interruptions, other writers, `.bak` files among what is copied | nothing overwritten without a backup; settings in use kept |
| Skills, `pkg/skills` | directories | ListSkills, LoadSkill, install, remove, install-builtin | directories without a file; same name in three places, looked for in two ways | an installation is whole or can be repeated; what is listed is what is loaded |
| Configuration, `pkg/config` | `config.json` | LoadConfig, SaveConfig | several writers, torn files | agrees with `auth.json` |
| Other commands, logging, voice, helpers | static data, I/O | | | |

How they interact. Channels call `HandleMessage`, which puts a message on the
inbound queue; `AgentLoop.Run` is its only consumer and runs one turn at a
time. A turn reads the session, calls the LLM and tools, extends and saves the
session, and may start a summarizer goroutine; `Run` puts the answer on the
outbound queue, whose only consumer is the channel manager's dispatcher. The
cron goroutine calls `CronTool.ExecuteJob`, which puts a text on the outbound
queue or runs a turn *on the cron goroutine*, so two turns may run at once,
sharing the tools. `spawn` starts a subagent goroutine, which announces its
result as a message of the channel `system` on the inbound queue. The cron
tool and the `picoclaw cron` command change the cron store from other
goroutines and processes. `picoclaw auth` changes `auth.json` and
`config.json`; the gateway reads both when it chooses its provider, and rewrites
`auth.json` whenever a turn refreshes a token. `picoclaw migrate`, `skills` and
`onboard` change the workspace that the agent reads and writes.

`PROJECT.json` lists every component with its status, and every hazard with
its line and the properties that are about it.

## 2. Modules

| Module | Models | Uses |
|---|---|---|
| `CronSchedule` | `CronSchedule`, `computeNextRun`; the library gronx as a constant operator | |
| `CronPromise` | abstract: when a job may start, whatever happens to processes and files | `CronSchedule` |
| `CronService` | the service with its file, the goroutine of `runLoop`, crashes | `CronSchedule`; `Promise == INSTANCE CronPromise WITH now <- now, ledger <- ledger` |
| `CronCli` | `picoclaw cron` beside the gateway | `CronService` |
| `GatewayPromise` | abstract: one agent that takes the messages of all chats one by one, subagents that report, jobs that speak in the order of their runs | |
| `Gateway` | bus, HandleMessage, turns of the loop and of the cron goroutine, subagents, dispatcher | `Promise == INSTANCE GatewayPromise WITH spawned <- ...` |
| `Providers` | parsing of answers, recorded tool calls, requests to the HTTP, Claude and Codex APIs | |
| `AgentSession` | the conversation of one chat: turn, summarizers, session manager, file | `Providers` |
| `ChannelManager` | start, stop and dispatcher of a channel, HandleMessage, the platform | |
| `TelegramChat`, `SlackChannel`, `OtherChannels` | handlers and Send of the eight channels | `ChannelManager` |
| `Channels` | an installation with any one of them | the three |
| `Credentials` | `auth.json`, logins, logouts, refresh, choice of the provider | |
| `MigrateConfig` | conversion and merge of an OpenClaw configuration | |
| `Workspace` | files of an installation under migrate, skills, onboard, the agent and the user | `MigrateConfig` |
| `MC*` | constants for TLC | |
| `CronServiceProofs` | theorems about the cron service | `CronService` |
| `CronCliProofs` | the same promise with commands beside the service | `CronCli`, `CronServiceProofs` |
| `GatewayProofs` | theorems about messages, answers and reports, and the refinement | `Gateway` |
| `AgentSessionProofs` | theorems about summaries and saved turns | `AgentSession` |
| `PromptProofs` | theorems about the requests to providers | `AgentSessionProofs` |
| `ChannelsProofs` | theorems about the delivery of texts, and about Telegram, Slack and QQ | `Channels` |
| `CredentialsProofs` | theorems about logins and refreshes | `Credentials` |
| `WorkspaceProofs` | theorems about migration and configuration | `Workspace` |

**Cron.** `mem` is `cs.store.Jobs`, `file` is `jobs.json` (`Torn` if it does
not parse), `running` is `cs.running`, `due` the jobs `checkJobs` has collected
and `executeJob` has not begun, `cur` the job whose handler is running, outside
the lock. A method that holds `cs.mu` is one action with its save; `checkJobs`
and `executeJob` are split where the code unlocks. `Save` may fail and leave
the old file or a torn one. `Exit` is a crash at any point or the end of a
shutdown. `Start` recomputes what `recomputeNextRuns` does and goes on without
the goroutine when loading or saving fails, as `gatewayCmd` does. The history
variable `ledger` records each job's schedule and its submission or last
start; `CronPromise` is stated over it, and the service is shown to implement
it under the refinement mapping that keeps clock and ledger and hides memory,
file and goroutine. Time is counted in abstract units. A job's identity is a
number: the ids of the code are random, and their collision is left out.

**Cron commands.** `Load` and the operation are two steps between which the
gateway may do anything; the command then writes its whole store over the
file. `GatewayWins` and `CliAddProcessed` state both sides of it. The history
variable `told` has the ids of jobs that a command said it added while the
gateway ran, until the gateway knows them or a command removes them: a gateway
that read the file again would satisfy `CliAddProcessed`.

**Gateway.** Each agent goroutine (`loop`, `cron`) has a program counter `pc`;
`idle -> think -> (set -> call -> think)* -> ... -> idle`. `set` is the step
`SetContext` and `call` the step `Execute` of `ExecuteWithContext`; `ctx` is
the default chat in the tools, set also by `updateToolContexts` at the
beginning of a turn. The two fields channel and chat id are set and read
without a lock, so `Seen` lets a reader see any mix of the old and the new
values while the other goroutine is about to set them. `lock` is `sm.mu`,
held by a subagent from its result to its announcement (`runTask` defers the
unlock past `PublishInbound`). A queue at its capacity disables the actions
that append to it. What the LLM answers is a choice. Calls of tools other than
message and spawn change nothing in this module.

`GatewayPromise` says what all this amounts to for those who write in the chats.
It has no goroutines, queues, locks or turns in progress, only what was asked and
run, what was spawned, and what each chat was sent. An answer to message `n` is
sent in the chat of `n`, if `n` has none and all messages before it, *of all
chats*, have one; a text of the message tool on behalf of `n`, in any chat (two turns share
the tool's context), under the same condition; the report of a subagent in its
chat, once, if the message it was spawned for is answered; the text of a job, or
what its turn sends, if no later run has spoken. `KeepsPromise` says that
`Gateway` implements it; the mapping keeps the history variables and takes
`spawned` from `sm.tasks`, without the states of the subagents.

**Session.** One action per method of the session manager (each holds `sm.mu`)
and one turn at a time, as `Run` consumes messages one by one. The prompt is
read in two steps (`GetHistory`, `GetSummary`), is extended by each message of
the turn as `runLLMIteration` does, and the summarizer goroutine works in six
steps (take the history, call the LLM, set the summary, truncate, save, clear
`al.summarizing`, the last with the save). A summary is the *set of messages it
tells of*: an LLM that answers is taken to tell of all it was given, so that a
property about what is remembered speaks about the program and not about the
LLM. What the LLM is sent is not the prompt but the *request* that `Providers`
makes of it, for each of the three APIs: its items are the texts, calls and
results in order, and the properties are stated over them.

**Channels.** `phase` is how far `gatewayCmd` has come; `StartAll` holds the
manager's lock from `starting` to `up` while the dispatcher it has started
already takes a text and waits in the lookup. `events` are the messages that
arrived with the place of their handlers, `inbox` and `outbox` the queues,
`sending` the dispatcher with the place of `Send`. `posted` is what users see.
The agent is external here and answers each message once, in order. In
`TelegramChat` the maps `placeholders` and `stopThinking` of the one chat are
`placeholder` and `stop`; each `Load`, `Store` and `Delete` is a step, because
the handler and `Send` run in different goroutines; `anim` follows the goroutine
of each animation, also after its cancellation (`late`: a request that cannot
be taken back). A request to the platform succeeds, fails, or succeeds while
its answer is lost. In `SlackChannel` a chat is the channel or a thread. In
`OtherChannels`, `processed` is `processedIDs` of QQ, `hooks` the webhooks of
DingTalk, `late` the requests Discord's `Send` no longer waits for, `client` a
MaixCam device, `reads` the failed reads of WhatsApp.
`untidy` is a history variable that notes two things the code is not made for:
a message or a job's text in a chat that waits for an answer (`"overlap"`), and an
edit or a request that may take effect after `Send` has gone on (`"late"`). The
writes to WhatsApp's bridge and to a MaixCam device, with the lock held, are two
steps (`sending.at = "write"`), of which the second may never come: they have no
deadline.
`Delivered` demands every text once and in its chat in spite of overlaps, and
gives up only the order, and the removal of "Thinking...", in Telegram;
`ChecksMatch` is stated without overlaps. The other properties
(`TextsApart`, `AnimationsEnd`, `DispatcherGoesOn`, `HandledOnce`) hold in all cases;
`DispatcherGoesOn` has an exception of its own, a request to the platform that
hangs for ever (`[]InRequest`).

**Credentials.** `authFile` is `auth.json`, and every change of it the three
steps read, truncate, write, of a turn (`load`, `write`, `writing`) or of the
command `cli`, in any interleaving; a write over another's unfinished write may
leave a file that does not parse. The authorization server is external: it
answers a refresh with a new refresh token and then honours the old one no more
(`live`), or without one, and the old one stays good, though
`parseTokenResponse` replaces it by nothing; an access token goes stale.
`CreateProvider` is the switch over the model's name, with
the API keys and the methods in `config.json`. `disturbed` is a history
variable: a command changed the file while a refresh was under way, the gateway
ended in the middle of one, or a second refresh was under way beside one that was
answered without a refresh token (`Unguarded`); nothing in the code protects
against that.

**Workspace.** A file of the workspace holds a number for its text; the numbers
the user and the agent write are all different, so that an equality says which
text survived. `mig` is the migration under way, with the actions still to do;
`copyFile` is split where it opens (and truncates) and where it writes, so that
a failure or an interruption can fall in between. `MigrateConfig` keeps the
sections of a configuration as records over the sections and fields that
`ConvertConfig` and `MergeConfig` distinguish; `Keeps` names the ones that
`MergeConfig` takes for set up, and leaves the others to OpenClaw's file. Skills
are files whose directory may exist without them. `stray` are the skills of
OpenClaw with a `SKILL.md.bak` beside `SKILL.md`: it is a file of the plan like any
other, and its copy goes where the backup of `SKILL.md` has just been made.

## 3. Runs

| Run | Shows |
|---|---|
| `cron` | the inductive invariant `PromiseInv`, the refinement `KeepsPromise`, `NoJobStranded`, `NothingUnsaved`, `UserDecides` (a removed or disabled job is not revived by a handler that ends later, nor by a restart unless a write has failed), `DueJobsRun`, `FileHeals` |
| `cron_cli` | `PromiseInv` and `KeepsPromise` hold with commands that overwrite the file at any time; `GatewayWins` |
| `cron_cli_lost` | violation: `CliAddProcessed`; the gateway starts, a command loads the file, adds a job and says so, and the next tick overwrites it |
| `gateway` | `AnsweredOnceAtHome`, `AnswersInOrder`, `ReportAfterAnswer` under every interleaving of the loop, the cron goroutine, two subagents and the dispatcher; the refinement `KeepsPromise` |
| `gateway_live` | as long as calls return: every message is answered and every subagent announces, except in the state `Stuck` |
| `gateway_stuck` | violation: `SubagentReportsBack`; the loop and a subagent wait for each other |
| `gateway_race` | violation: `ToolMessagesAtHome` |
| `session` | over the requests to all three APIs: `PromptCoversSession` (nothing the session remembers is left out, in order), `ToolResultsFollow` (calls and results paired); and `SummaryNotStale`, `FinishedTurnsSaved`, `SummarizedOrKept` (summary and truncation together lose nothing) |
| `session_nameless` | violation: `CallsRepeated` |
| `channels` | for each channel: `Delivered` (every text once, in its chat, in order, also those given before the channel is up), `TextsApart`, `ChecksMatch`, `HandledOnce`, `AnimationsEnd`, `DispatcherGoesOn` (every text has its turn unless a request hangs for ever) |
| `credentials` | `StoredTokenLives` (refreshes that overlap leave a token the server honours), `LoginsUsable` (auth.json, config.json and the provider chosen agree) |
| `workspace` | `OriginalSurvives` (a text overwritten is in its `.bak`, whatever fails), `RefreshSyncs`, `ConfigKept` (a step of a migration that changes `config.json` leaves what is in use there) |

### Divergences the runs show

1. A job added by `picoclaw cron add` while the gateway runs is overwritten at
   the next tick (`service.go:164`); README.md:492 says jobs in the file are
   "processed automatically".
2. `runTask` holds `sm.mu` across a publish on the inbound queue
   (`subagent.go:102`), while the queue's only consumer takes `sm.mu` in
   `Spawn`: with a full queue both wait for ever. `spawn.go:27` says the
   subagent will "report back when done". Once that happens no message is
   answered any more; `MessagesAnswered` shows it is the only way *as long as
   the calls of the LLM and of Send return*.
3. The message tool may send to the chat of the *other* turn that is running
   (`registry.go:58`).
4. After a tool call, the next request to Claude or Codex repeats the call
   without its name and arguments: the loop fills `Function` (`loop.go:384`),
   these providers read `Name` and `Arguments`. Their own tests build messages
   the other way (`codex_provider_test.go:45`).

### Limits the properties state

Behaviour met while modelling that no document rules out; each is in the
model, is excepted by the property named, and has a hazard in `PROJECT.json`.

* A call of the LLM that never returns stops the loop or a subagent: the client
  of the HTTP provider has `Timeout: 0` (`http_provider.go:33`). A request of
  Telegram, Slack, Feishu or DingTalk without an answer, and a write to
  WhatsApp's bridge (`whatsapp.go:100`) or to a MaixCam device
  (`maixcam.go:233`) that is not read, stops the dispatcher of all channels.
  (`CallsReturn` is an assumption of `MessagesAnswered` and `SubagentsAnnounce`;
  `DispatcherGoesOn` excepts a request that hangs.)
* A removal or disabling of a job whose save failed comes back when the process
  ends (`service.go:321`; `UserDecides`).
* The answer to a job's turn is dropped, though the comment says it is sent
  (`tools/cron.go:281`; `GatewayPromise` allows it).
* A gateway that is down when a one-time reminder is due never runs it: Start
  gives it no next run (`service.go:259`), and it stays listed as enabled
  (`NoJobStranded` is about recurring jobs).
* A message that arrives while a summary is made pushes out, at truncation,
  one the summary does not cover (`loop.go:599`; `SummarizedOrKept`).
  Truncation may leave results without their call at the head of the next
  prompt (`session/manager.go:137`; `ToolResultsFollow`). A summary in two
  parts replaces the old one without having read it (`loop.go:575`).
* Telegram: an animation's edit under way when the answer comes may overwrite
  it (`telegram.go:327`; `TextsApart`), and an animation whose cancel function
  `Send` deleted in place of another's goes on over an answer until its timeout
  (`telegram.go:121`; `Delivered`); a second message leaves the first one's
  placeholder on the screen, and answers may then be out of order (`Delivered`).
* QQ: texts for groups are sent as private ones; ids are evicted in arbitrary
  order (`Delivered`, `HandledOnce`).
* Slack: a text of a job, or the answer to an earlier message, marks the message
  that is pending in the chat (`slack.go:133`; `ChecksMatch`).
* WhatsApp never reconnects, and its reader ends in a panic of the library
  (`whatsapp.go:122`).
* A session is saved with `os.WriteFile`; crashes fall between the steps of the
  model and not inside it (`session/manager.go:149`; `FinishedTurnsSaved`).
* A logout during a refresh is undone by it (`store.go:88`; `LoginsUsable` and
  `StoredTokenLives` speak of commands that do not overlap a refresh). An answer
  without a refresh token deletes the stored one (`oauth.go:294`;
  `StoredTokenLives` allows it). The requests of logins and refreshes have no
  timeout (`oauth.go:122`, `179`, `220`, `260`).
* `MergeConfig` takes OpenClaw's provider in place of one without an API key, and
  with it goes the `auth_method` of a login (`config.go:233`; `Keeps`); a
  change of `config.json` between the migration's load and its save is lost
  (`ConfigKept`). `--refresh --config-only` does nothing (`RefreshSyncs`). A
  second run overwrites the `.bak` files of the first, and a `.bak` file among
  OpenClaw's skills or memory the one just made (`workspace.go:79-102`;
  `OriginalSurvives`).

## 4. Bounds, and why they are enough

* Cron: a clock of 3 units and two jobs let one job be due while another runs,
  run twice or be enabled again while it waits; the inputs cover the three
  kinds of schedule with their boundary cases (a time that is now, a period
  that is not positive, an expression gronx rejects). One exit and one failed
  write let a crash fall between any two steps, and a torn file meet a restart.
  In the run with commands faults are off, so that the torn file seen is the
  one a reader meets while the gateway writes.
* Gateway: two messages, two subagents, a job and two tool calls in all are
  what it takes for two turns to overlap, for a subagent to announce in the
  middle of another turn, and for both queues to be full. The capacities
  (1 and 2 instead of 100) bring the full queue within reach; the code uses
  them in no other way. In the liveness run both are 1 and there is one chat.
* Session: a summary above 3 messages that keeps 2, in two parts above 2,
  stands for 20, 4 and 10. Eight messages allow a turn before a summary, one
  beside it and one after it. Two summarizers, though the guard allows one to
  work, so that the guard is what keeps them apart; they are interchangeable,
  hence the symmetry set. `Oversized` is `{FALSE}`: oversized messages are
  dropped from summaries by intent, and only make `Valid` smaller.
* Channels: two messages and a text of a job, because every hazard is between
  two handlers, or a handler and a Send; one failure at any request. `Limit`
  and `Cut` are 1 for 10000 and 5000, which two ids exceed; `ReadLimit` 2 for
  the library's 1000.
* Credentials: two goroutines that refresh, the least that overlap; three
  commands, so that a login, a logout and a login may follow each other; three
  tokens; one exit and one failure. Models and keys: a model of each login
  provider, with a key of OpenAI that competes with its login.
* Workspace: one document and one skill, since no two files interact; two runs
  of migrate or onboard, of which the second meets what the first left; two
  skill commands; two texts, of OpenClaw and of the user; a failure or an
  interruption at any step. OpenClaw's configuration has sections and fields
  that are present, missing and unknown to PicoClaw, or is missing, or does not
  parse.
* `MaxTime`, `MaxJobs`, `MaxTasks`, `MaxMessages`, `MaxCalls`, `MaxExits`,
  `MaxFaults`, `MaxCrashes`, `MaxCommands`, `MaxTools`, `MaxEvents`, `MaxTexts`,
  `MaxTokens`, `MaxEdits`, `MaxRuns`, `MaxInstalls` bound counters that the code
  does not bound. Deadlock is not checked where these bounds end the run.

## 5. Fairness

Used by the temporal properties only, and always weak. Cron: the clock, the
ticker goroutine, the return of handlers, the restart of a gateway that has
ended, and the end of one that is shutting down; *not* users, crashes or
commands.

Gateway: `Fairness` has two parts. `Scheduled` is what Go's scheduler provides:
a goroutine that can go on goes on. A goroutine blocked on a queue or on `sm.mu`
is one whose action is disabled: fairness does not free it. `CallsReturn` is an
*assumption*, which nothing in the code provides: every call of the LLM, of a
turn or of a subagent, returns, and so does every Send of a channel. Without it
the two liveness properties say nothing; the client of the HTTP provider has no
timeout and most channels set none. That turns end is the code's
(`max_tool_iterations`, in the model `MaxCalls`). Users and jobs are under no
obligation.

Channels: the dispatcher goes on, except from a request to which the code sets no
limit; only QQ (5 seconds) and Discord (10 seconds) are given one. The context of
an animation ends after its timeout. *Not* handlers, the agent, users,
connections, devices or the platform. A text that has its turn may therefore stay
in a request for ever, and `DispatcherGoesOn` says so.

## 6. What is proved

Every safety invariant, action property and refinement that a passing run checks
is a theorem: for any number of messages, jobs, chats, goroutines,
commands, crashes and failures, and any capacities and limits. `TypeOK` is one
in each module (`TypeCorrect`). Each inductive invariant was checked by TLC on
the module's run before it was proved. No module that a theorem depends on
declares a RECURSIVE operator.

### Cron service: `CronServiceProofs`

* `PromiseInvariant`: `Spec => []PromiseInv`.
* `PromiseKept`: `Spec => KeepsPromise`, that is, the service implements
  `CronPromise`: a one-time job starts at most once and not before its time,
  periodic starts are a period apart, a cron job has a tick between starts.
* `Durability`: `Spec => []NothingUnsaved`.
* `NeverStranded`: `Spec => []NoJobStranded`.
* `UsersDecide`: `Spec => UserDecides`.

Assumptions: the bounds are natural numbers, the sentinels are outside the sets
they are added to, inputs are schedules, and `TickAssumption`: gronx gives a
tick strictly after the time asked about, and an earlier one or the same when
asked from earlier.

Argument. The promise is about starts, but a start uses what was computed
earlier, possibly before a crash. `PromiseInv` carries it through: a schedule
stored under an id, in memory or in the file, is the one submitted
(`AsSubmitted`); a next run in memory is a time at which the job may start
(`NextMayStart`), except for the job that is running, whose next run
`executeJob` overwrites; and what was collected may start from then on
(`DueMayStart`, because `MayStart` is monotone in time). `NextMayStart` fails
without the exception: a job that is enabled while it waits in the batch gets a
next run computed before it starts, and the start makes that next run too early.
What a *file* says about next runs is not in the invariant
at all: `Start` recomputes all of them, which is why a restart cannot make a
job run twice, and also why it forgets one-time jobs. The refinement is then
one step of `CronPromise` or a stutter per action. `NothingUnsaved` is
strengthened by a file that is not torn as long as no write has failed
(`SavedInv`); `NoJobStranded` is inductive relative to `PromiseInv`. For
`UserDecides`, `CheckJobs` and the end of a handler write back only jobs that are
still in the store, and leave or clear `enabled`; only `AddJob` and `EnableJob` set
it. Over the end of the process, what is known is the memory before and the file
after, which are equal if no write has failed (`NothingUnsaved`); while the process
is down nothing writes the file, and `Start` recomputes next runs only
(`StartEnablesNothing`).

### Cron commands: `CronCliProofs`

* `InvariantBesideCommands`: `CliSpec => []PromiseInv`.
* `PromiseBesideCommands`: `CliSpec => KeepsPromise`.

The invariant adds that what a command has loaded is, however old, a store whose
jobs have the schedules they were submitted with (`CliInv`). Two processes that
overwrite each other's file can lose jobs, but never make one start too early or
too often.

### Gateway: `GatewayProofs`

* `OneAnswerAtHome`: `Spec => []AnsweredOnceAtHome`.
* `AnswersKeepOrder`: `Spec => []AnswersInOrder`.
* `ReportsComeAfter`: `Spec => []ReportAfterAnswer`.
* `PromiseKept`: `Spec => KeepsPromise`, that is, the gateway implements
  `GatewayPromise`.
* `NoMessageLost`: `Spec => []CompleteInv`, every message accepted waits in the
  inbound queue, or has its turn, or its answer is on the outbound queue or
  delivered. `MessagesAnswered` is that it moves on.
* `LockIsExclusive`: `Spec => []LockInv`, `sm.mu` is held exactly by the subagent
  that announces.
* `StuckForEver`: `Spec => [][Stuck => Stuck']_vars`, no step of the process ends
  the deadlock that `gateway_stuck` finds.

Assumptions: the bounds and capacities are numbers, the latter positive;
`"system"` is no channel of a user; jobs are in chats; `NoRequest` is no request.

Argument. Each step has one of six effects on the queues (lemma `Effects`): a
request joins the inbound queue, the loop takes one, an answer joins the outbound
queue, another text does, the dispatcher delivers, or a goroutine goes on without
touching them. For each effect the parts of the invariant are preserved one by one:
whatever is queued is a message accepted in its chat or the announcement of a
subagent that is done, and an answer is on its way to the chat it was asked for
in (`HomeInv`); requests are in the order they came in, the queue, the turn of
the loop and what is on its way being one line (`RequestsInv`, `AnswersInv`),
in which a request that is still queued has no answer; and the answer to the
message that made the agent spawn a subagent is ahead of the report, or that
message still has its turn (`ReportInv`). The cron goroutine's turns end without
an answer, which is why a second agent goroutine does not disturb the line.

The refinement needs the line of *all* chats, not of each: what the dispatcher
hands out next is what `GatewayPromise` allows next. `CompleteInv` says that no
message drops out of the line, so that when the loop takes a message, the answers
to all before it are on their way; `SpeakInv` keeps for every letter on the
outbound queue that what must be answered before it is ahead of it, down to its
place in the queue, and no answer to its own request is; and `JobInv` keeps the
order of what jobs say, which come from the other goroutine and interleave with
the line anywhere. `PromiseInv` joins these with the invariant above. At the head
of the queue "ahead" means "delivered", and the guard of the abstract action
follows (`FirstSpeaks`). Spawning is a step of its own, whose guard holds because
the answer to the turn that spawns is not even on the queue. All other actions
stutter.

### Session: `AgentSessionProofs` and `PromptProofs`

* `SummaryIsFresh`: `Spec => []SummaryNotStale`.
* `FinishedTurnsAreSaved`: `Spec => []FinishedTurnsSaved`.
* `SummaryLosesNothing`: `Spec => []SummarizedOrKept`.
* `RequestsCoverSession`: `Spec => []PromptCoversSession`.
* `ResultsFollowCalls`: `Spec => []ToolResultsFollow`.

Assumptions: the limits are natural numbers, `KeepLast` is positive, and there
are finitely many goroutines that summarize.

Argument of the first three. `al.summarizing` lets one summarizer in
(`OneSummarizer`), so nobody else writes the summary or cuts the history: what a
summarizer is about to write comes from what is in memory (`JobInv`), and as
long as no message has come since it took the history, memory holds that history,
then that history cut (`SummaryInv`). Without `OneSummarizer` neither is
inductive, as a second summarizer could cut in between. For what is saved, the
file of a session whose writes have not failed holds what memory remembers of
finished turns (`SavedInv`): a summarizer changes memory so that it tells of no
message it has not told of before, hence its own save may come late.

Argument of the last two. A turn reads the messages *before* the summary, and
the summarizer writes the summary *before* it cuts the messages; `CoverInv` is
what makes that order count: between the two reads, the messages in memory are
among those read, and afterwards what is remembered is among what was read. Calls
and results are linked by their places in the history, not by their ids
(`LinkInv`): the results of a call follow it at once, in number as many as it
made, but for those the turn still waits for, and results without a call are at
the head of a history that was cut. This is preserved by appending what the turn
appends and by cutting at *any* place, which covers the summarizer's choice. A
request is a flattened history, one block of items per message; that its items
are arranged so (`Laid`, `Arranged`) is an induction over the length of the
history, in the form of a least counterexample (`WFMin`).

### Channels: `ChannelsProofs`

* `TextsStayApart`: `Spec => TextsApart` (Telegram).
* `ChecksAreRight`: `Spec => []ChecksMatch` (Slack).
* `DuplicatesAreDropped`: `Spec => []HandledOnce` (QQ).
* `TextsDelivered`: `Spec => []Delivered` (all eight).

Assumptions: the bounds are natural numbers; `Limit`, `Cut` and `ReadLimit` are
positive, `Cut` no more than `Limit`; the channel is one of the eight.

Argument. Telegram: the place of a placeholder on the screen is known to its
handler, then to the map, then to `Send`, to one of them at a time, and shows no
text as long as one knows it (`PlaceInv`); this holds in every interleaving of
handlers, animations and sends, also of overlapping messages. Slack: as long as
nothing has failed and no message came into a chat that waits for an answer,
whatever is on its way in a chat, in either queue or with the dispatcher, belongs
to the one message whose acknowledgement is pending there (`AckInv`). QQ: as long
as the ids of all messages fit, the set of processed ids *is* the set of ids that
have arrived (`OnceInv`): the test and the insertion of `isDuplicate` are under
one lock.

Delivery: texts are numbered as they are given, and form one line: those `Send`
has done with, the one it has, those queued (`LineInv`). While nothing has failed,
there is a way to every chat that wrote (`WayInv`: the link is up when the
channel is, a DingTalk webhook is stored before its message is answered, a MaixCam
device that wrote is connected). In every channel but Telegram the posts are then
the texts of the first part of the line, in their order and chats, less those not
owed (`ShownInv`). In Telegram a text may take the place of a placeholder above
others: there each text done with is seen once (`OnceShown`), because the
animation that edits a message never has the one that `Send` edits
(`AnimatedInv`); and without overlaps at most one placeholder is on the screen,
below all texts, and the next text replaces it (`OrderInv`). When all is quiet the
line is all done with, and `Delivered` follows.

### Credentials: `CredentialsProofs`

* `RefreshKeepsLogin`: `Spec => []StoredTokenLives`.
* `LoginsLast`: `Spec => []LoginsUsable`.

Assumptions: the bounds are numbers, the goroutines finitely many, and a file
that does not parse is not one that does (`TornAssumption`).

Argument. The properties speak of runs that are not `disturbed`. In these, of all
goroutines between the server's answer and the end of their write there is at most
one. If the server rotates refresh tokens this needs no lock, the server's refusal
is the lock: the old token the goroutine used was the one in the file, the server
honours it only once, and every other refresh holds a token that will be refused
(`AloneInv`, `TurnInv`). An answer without a refresh token leaves the old one good,
and nothing in the program or the server keeps two refreshes apart; `disturbed`
excludes that case. Hence the file, or while it is being written the store its
writer holds, is what the logins and `config.json` say (`FileInv`, `CommandInv`).

### Workspace: `WorkspaceProofs`

* `NothingOverwritten`: `Spec => []OriginalSurvives`.
* `RefreshIsComplete`: `Spec => []RefreshSyncs`.
* `ConfigIsKept`: `Spec => ConfigKept`.

Assumptions: documents and skills are finitely many and different, the bounds are
numbers, and the user may write at least one text (`MaxEdits # 0`, so that
there is a text to write); the values of settings include those that the code
compares with or fills in; and what `getString` and `getBool` return is of
their types (`OpenClawAssumption`).

Argument. By the place of the migration: up to the copy of a file, its text is in
the file, and from the copy on in its `.bak`, which is complete before the file is
opened for writing (`SurvivesInv`); this needs that no file is in a plan twice
(`OnceInv`), or the second copy's backup would overwrite the first's, and that
the step at hand is one of the plan's (`PlaceInv`). With `--refresh`, a file of
OpenClaw's is equal to its copy, or still in the plan (`RefreshInv`). The copy of a
`.bak` file concerns only files with one (`stray`), which the property excepts. What
is saved as configuration is the merge of what was loaded (`ConfigInv`); that
`MergeConfig` keeps what is in use is a lemma for every pair of configurations
(`MergeKeeps`), and that no other step of a migration writes `config.json` is a
case of the proof each.

## 7. What is only model-checked

* Liveness: `DueJobsRun`, `FileHeals`, `GatewayWins`, `MessagesAnswered`,
  `SubagentsAnnounce`, `AnimationsEnd`, `DispatcherGoesOn`. The
  prover has no rules for fairness and ENABLED.
* The four runs that expect a violation.

## 8. What is not modelled

The parts with status `not_modelled` in `PROJECT.json`: the file, shell and web
tools and the helpers, which are single calls of libraries; the heartbeat,
which never runs. Of the modelled ones: contents of messages, prompts and
answers; collisions of random ids; names of session files; media and their
temporary files; conversion of Markdown; several channels of one installation
beside each other (in `Gateway` only); PKCE and the contents of tokens;
environment variables that override the configuration; the loader of skills, whose
listing (`os.ReadDir` and `os.Stat`, `loader.go:40-48`) and loading (`os.ReadFile`,
`loader.go:141`) differ on symbolic links and unreadable files; `.bak.bak` files;
sessions of several chats together, which share nothing but a lock.

## 9. Plan

Modelled, in this order: the cron service with its abstract promise and proofs,
its commands, the gateway with its abstract promise, one session with the
providers, the channels, credentials, the workspace with migration and skills.

All invariants, action properties and refinements of the passing runs are theorems.
What could follow, most valuable first:

1. An abstract specification of the channels (per chat, a list of texts that only
   grows) and of the session (a set of remembered messages), which the modules
   implement, as `GatewayPromise` and `CronPromise` are for theirs; and one of the
   whole installation, composed of these.
2. Liveness of the gateway by hand: a ranking of the steps between a message and its
   answer, from `NoMessageLost`, `LockIsExclusive` and `StuckForEver`, of which
   only the use of fairness would remain for TLC.
3. The conversion of Markdown and the media of the channels, as operators.
