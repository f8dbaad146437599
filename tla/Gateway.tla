------------------------------ MODULE Gateway ------------------------------
(***************************************************************************)
(* The gateway process: chat channels put messages of users on a bounded   *)
(* inbound queue (pkg/bus), one goroutine takes them off and runs a turn   *)
(* of the agent for each (pkg/agent/loop.go), the goroutine of the cron    *)
(* service runs turns of the same agent or delivers a text, subagents run  *)
(* in goroutines of their own and announce their result on the inbound     *)
(* queue, and a dispatcher hands the outbound queue to the channels.       *)
(*                                                                         *)
(* A goroutine that blocks on a full queue or on sm.mu is one whose next   *)
(* action is not enabled.  What the LLM answers is a choice; its calls of   *)
(* tools other than message and spawn change nothing here, and its calls of *)
(* message name no other chat.  Contents, sessions and the shutdown of the *)
(* process are left out.                                                   *)
(***************************************************************************)
EXTENDS Integers, Sequences, FiniteSets

CONSTANTS
  Registered,       (* names of the channels that are enabled               *)
  Channels,         (* those and others that a job may name                 *)
  ChatIds,          (* identifiers of chats, unique within a channel        *)
  JobChats,         (* the chats that the jobs name                         *)
  Senders,          (* who writes in the chats                              *)
  AllowList,        (* allow_from of the channels; empty means everyone     *)
  InCap, OutCap,    (* capacities of the two queues: 100 in the code        *)
  NoRequest,        (* the goroutine runs no turn                           *)
  MaxMessages,      (* bound on the messages of users                       *)
  MaxJobs,          (* bound on the runs of cron jobs                       *)
  MaxTasks,         (* bound on the subagents spawned                       *)
  MaxCalls          (* bound on the calls of tools; in the code             *)
                    (* max_tool_iterations bounds the LLM calls of a turn   *)

VARIABLES
  inbound,          (* bus.inbound                                          *)
  outbound,         (* bus.outbound                                         *)
  pc, req, tool,    (* per goroutine, where it is in a turn, the message of *)
                    (* the turn, the tool it is calling                     *)
  calls,            (* the calls of tools made                              *)
  ctx,              (* the default chat kept in the message and spawn tools *)
  tasks,            (* sm.tasks                                             *)
  lock,             (* the subagent that holds sm.mu, 0 if none             *)
  asked, ran,       (* history: the chats of messages accepted, of jobs run *)
  delivered         (* history: per chat, what its channel was given        *)

goroutine == <<pc, req, tool, calls>>
history   == <<asked, ran, delivered>>
vars == <<inbound, outbound, goroutine, ctx, tasks, lock, history>>

ASSUME ChannelAssumption == Registered \subseteq Channels /\ {"system", ""} \cap Channels = {}

ASSUME BoundsAssumption ==
  /\ InCap \in Nat \ {0} /\ OutCap \in Nat \ {0}
  /\ MaxMessages \in Nat /\ MaxJobs \in Nat /\ MaxTasks \in Nat /\ MaxCalls \in Nat

Chats   == [channel : Channels, id : ChatIds]
Reached == {c \in Chats : c.channel \in Registered}
Address == [channel : Channels \cup {"system"}, id : ChatIds]
Tools   == {"message", "spawn"}
Agents  == {"loop", "cron"}

\* A message of a user, the announcement of a subagent or a job; the chat of
\* an announcement is the origin that its ChatID "channel:chat_id" encodes.
Requests == [kind : {"user", "task", "job"}, n : Nat \ {0}, chat : Chats]

ASSUME JobAssumption == JobChats \subseteq Chats

ASSUME SentinelAssumption == NoRequest \notin Requests

\* Content on the outbound queue: an answer, an error text, a text sent by the
\* message tool, the text of a job.
Contents == [what : {"reply", "error", "tool", "text"},
             kind : {"user", "task", "job"}, n : Nat \ {0}]

About(what, r) == [what |-> what, kind |-> r.kind, n |-> r.n]

Allowed(s) == AllowList = {} \/ s \in AllowList

\* PublishInbound and PublishOutbound, which block while the queue is full.
PublishInbound(r) == Len(inbound) < InCap /\ inbound' = Append(inbound, r)

\* Mutant: the queue has no capacity.
PublishOutbound_Unbounded(to, content) ==
  outbound' = Append(outbound, [to |-> to, content |-> content])

PublishOutbound(to, content) ==
  /\ Len(outbound) < OutCap
  /\ outbound' = Append(outbound, [to |-> to, content |-> content])

At(a, label) == pc[a] = label
Goto(a, label) == pc' = [pc EXCEPT ![a] = label]

-----------------------------------------------------------------------------
Init ==
  /\ inbound = <<>> /\ outbound = <<>>
  /\ pc = [a \in Agents |-> "idle"] /\ req = [a \in Agents |-> NoRequest]
  /\ tool = [a \in Agents |-> "message"] /\ calls = 0
  /\ ctx = [t \in Tools |-> IF t = "message" THEN [channel |-> "", id |-> ""]
                            ELSE [channel |-> "cli", id |-> "direct"]]
  /\ tasks = <<>> /\ lock = 0
  /\ asked = <<>> /\ ran = <<>>
  /\ delivered = [c \in Reached |-> <<>>]

\* A channel receives a message and passes it to HandleMessage.
HandleMessage(s, c) ==
  /\ Allowed(s)
  /\ Len(asked) < MaxMessages
  /\ asked' = Append(asked, c)
  /\ PublishInbound([kind |-> "user", n |-> Len(asked'), chat |-> c])
  /\ UNCHANGED <<outbound, goroutine, ctx, tasks, lock, ran, delivered>>

\* A turn begins: processMessage, or processSystemMessage for what came from
\* the channel "system", and updateToolContexts.  (That sets the two tools one
\* after the other, here at once; CallTool sets the one it calls again.)
Begin(a, r) ==
  /\ At(a, "idle")
  /\ Goto(a, "think")
  /\ req' = [req EXCEPT ![a] = r]
  /\ ctx' = [t \in Tools |-> r.chat]
  /\ UNCHANGED <<tool, calls>>

ConsumeInbound ==
  /\ inbound # <<>>
  /\ Begin("loop", Head(inbound))
  /\ inbound' = Tail(inbound)
  /\ UNCHANGED <<outbound, tasks, lock, history>>

\* The cron goroutine calls the handler of a job, which publishes its text or
\* runs a turn of the agent.
RunJob(c) ==
  /\ At("cron", "idle") /\ Len(ran) < MaxJobs
  /\ ran' = Append(ran, c)
  /\ LET job == [kind |-> "job", n |-> Len(ran'), chat |-> c]
     IN  \/ PublishOutbound(c, About("text", job)) /\ UNCHANGED <<goroutine, ctx>>
         \/ Begin("cron", job) /\ UNCHANGED outbound
  /\ UNCHANGED <<inbound, tasks, lock, asked, delivered>>

-----------------------------------------------------------------------------
(* The turn of an agent.                                                   *)

\* Subagents that exist or are about to.
Spawning == Len(tasks) + Cardinality({a \in Agents : pc[a] \in {"set", "call"}
                                                     /\ tool[a] = "spawn"})

\* The LLM asks for a tool: ExecuteWithContext sets the tool's context again ...
CallTool(a, t) ==
  /\ At(a, "think") /\ calls < MaxCalls
  /\ t = "spawn" => Spawning < MaxTasks
  /\ Goto(a, "set")
  /\ tool' = [tool EXCEPT ![a] = t]
  /\ calls' = calls + 1
  /\ UNCHANGED <<inbound, outbound, req, ctx, tasks, lock, history>>

SetContext(a) ==
  /\ At(a, "set")
  /\ Goto(a, "call")
  /\ ctx' = [ctx EXCEPT ![tool[a]] = req[a].chat]
  /\ UNCHANGED <<inbound, outbound, req, tool, calls, tasks, lock, history>>

\* ... and calls its Execute, which reads that context.  Nothing is locked: a
\* field that the other goroutine is about to set may have its value already.
Seen(a) ==
  LET t == tool[a]
      racing == {req[b].chat : b \in {b \in Agents \ {a} : At(b, "set") /\ tool[b] = t}}
  IN  {[channel |-> x.channel, id |-> y.id] : x, y \in racing \cup {ctx[t]}}

Executed(a) ==
  /\ At(a, "call")
  /\ Goto(a, "think")
  /\ tool' = [tool EXCEPT ![a] = "message"]
  /\ UNCHANGED <<inbound, req, calls, ctx, lock, history>>

SendMessage(a) ==
  /\ tool[a] = "message" /\ Executed(a)
  /\ \E c \in Seen(a) : PublishOutbound(c, About("tool", req[a]))
  /\ UNCHANGED tasks

Spawn(a) ==
  /\ tool[a] = "spawn" /\ lock = 0 /\ Executed(a)
  /\ \E c \in Seen(a) : tasks' = Append(tasks, [state |-> "running", chat |-> c,
                                                by |-> About("reply", req[a])])
  /\ UNCHANGED outbound

\* runLLMIteration returns an answer, or the error of a call of the LLM.
Answer(a) ==
  /\ At(a, "think")
  /\ Goto(a, CASE a = "cron" -> "return"
               [] a = "loop" /\ req[a].kind = "task" -> "respond"
               [] OTHER -> "publish")
  /\ UNCHANGED <<inbound, outbound, req, tool, calls, ctx, tasks, lock, history>>

End(a) ==
  /\ Goto(a, "idle")
  /\ req' = [req EXCEPT ![a] = NoRequest]
  /\ UNCHANGED <<inbound, tool, calls, ctx, tasks, lock, history>>

\* Mutant: an error ends the turn of the loop without a message.
Fail_Silent(a) == At(a, "think") /\ End(a) /\ UNCHANGED outbound

Fail(a) ==
  /\ At(a, "think")
  /\ IF a = "cron"
     THEN End(a)
     ELSE Goto(a, "error") /\ UNCHANGED <<inbound, req, tool, calls, ctx, tasks, lock, history>>
  /\ UNCHANGED outbound

\* ExecuteJob drops the answer.
Return == At("cron", "return") /\ End("cron") /\ UNCHANGED outbound

\* SendResponse of processSystemMessage: the answer goes to the origin.
SendResponse ==
  /\ At("loop", "respond")
  /\ Goto("loop", "publish")
  /\ PublishOutbound(req["loop"].chat, About("reply", req["loop"]))
  /\ UNCHANGED <<inbound, req, tool, calls, ctx, tasks, lock, history>>

\* Mutant: Run publishes the answer to a system message to its origin, where
\* processSystemMessage has already sent it.
ReplyTo_Origin(r) == r.chat

\* Run publishes to the channel of the message, "system" for an announcement.
ReplyTo(r) == IF r.kind = "task" THEN [r.chat EXCEPT !.channel = "system"] ELSE r.chat

Publish ==
  /\ pc["loop"] \in {"publish", "error"}
  /\ End("loop")
  /\ PublishOutbound(ReplyTo(req["loop"]),
                     About(IF At("loop", "error") THEN "error" ELSE "reply", req["loop"]))

-----------------------------------------------------------------------------
(* Subagents and the dispatcher.                                           *)

\* runTask has its result and takes sm.mu ...
FinishTask(t) ==
  /\ tasks[t].state = "running" /\ lock = 0
  /\ lock' = t
  /\ tasks' = [tasks EXCEPT ![t].state = "announcing"]
  /\ UNCHANGED <<inbound, outbound, goroutine, ctx, history>>

\* Mutants: the result is sent to the user at once; the lock is not released.
Announce_Direct(t) ==
  /\ tasks[t].state = "announcing"
  /\ lock' = 0
  /\ tasks' = [tasks EXCEPT ![t].state = "done"]
  /\ PublishOutbound(tasks[t].chat, [what |-> "reply", kind |-> "task", n |-> t])
  /\ UNCHANGED <<inbound, goroutine, ctx, history>>

Announce_NoUnlock(t) ==
  /\ tasks[t].state = "announcing"
  /\ tasks' = [tasks EXCEPT ![t].state = "done"]
  /\ PublishInbound([kind |-> "task", n |-> t, chat |-> tasks[t].chat])
  /\ UNCHANGED <<outbound, goroutine, ctx, lock, history>>

\* ... which it holds until the announcement is on the inbound queue.
Announce(t) ==
  /\ tasks[t].state = "announcing"
  /\ lock' = 0
  /\ tasks' = [tasks EXCEPT ![t].state = "done"]
  /\ PublishInbound([kind |-> "task", n |-> t, chat |-> tasks[t].chat])
  /\ UNCHANGED <<outbound, goroutine, ctx, history>>

\* dispatchOutbound: a message for a channel that is not enabled is dropped.
\* What the channel's Send does with a message is not part of this module.
Hand(m) == IF m.to \in Reached
           THEN delivered' = [delivered EXCEPT ![m.to] = Append(@, m.content)]
           ELSE UNCHANGED delivered

\* Mutant: every message is sent in a goroutine of its own.
Dispatch_Unordered ==
  \E i \in DOMAIN outbound :
    /\ outbound' = SubSeq(outbound, 1, i - 1) \o SubSeq(outbound, i + 1, Len(outbound))
    /\ Hand(outbound[i])
    /\ UNCHANGED <<inbound, goroutine, ctx, tasks, lock, asked, ran>>

Dispatch ==
  /\ outbound # <<>>
  /\ outbound' = Tail(outbound)
  /\ Hand(Head(outbound))
  /\ UNCHANGED <<inbound, goroutine, ctx, tasks, lock, asked, ran>>

-----------------------------------------------------------------------------
Turn(a) == (\E t \in Tools : CallTool(a, t)) \/ SetContext(a) \/ SendMessage(a) \/ Spawn(a)
           \/ Answer(a) \/ Fail(a)

Finish == SendResponse \/ Publish \/ Return

Task(t) == FinishTask(t) \/ Announce(t)

Next ==
  \/ \E s \in Senders, c \in Reached : HandleMessage(s, c)
  \/ \E c \in JobChats : RunJob(c)
  \/ ConsumeInbound
  \/ \E a \in Agents : Turn(a)
  \/ Finish
  \/ \E t \in DOMAIN tasks : Task(t)
  \/ Dispatch

Spec == Init /\ [][Next]_vars

\* What Go's scheduler provides: a goroutine that can go on goes on.  sm.mu
\* needs no more than weak fairness: there are finitely many subagents.
Scheduled ==
  /\ WF_vars(ConsumeInbound)
  /\ \A a \in Agents : WF_vars(SetContext(a) \/ SendMessage(a) \/ Spawn(a))
  /\ WF_vars(SendResponse \/ Publish) /\ WF_vars(Return)
  /\ \A t \in 1 .. MaxTasks : WF_vars(t \in DOMAIN tasks /\ Announce(t))

\* What nothing in the code provides, and the liveness properties assume: a call
\* of the LLM, of a turn or of a subagent, returns (the client of the HTTP
\* provider has Timeout 0), and so does a channel's Send (Telegram, Slack and
\* Feishu set no limit to a request, WhatsApp and MaixCam none to a write).
CallsReturn ==
  /\ \A a \in Agents : WF_vars((\E t \in Tools : CallTool(a, t)) \/ Answer(a) \/ Fail(a))
  /\ \A t \in 1 .. MaxTasks : WF_vars(t \in DOMAIN tasks /\ FinishTask(t))
  /\ WF_vars(Dispatch)

\* Users and jobs are under no obligation.
Fairness == Scheduled /\ CallsReturn

FairSpec == Spec /\ Fairness

-----------------------------------------------------------------------------
Labels == {"idle", "think", "set", "call", "respond", "publish", "error", "return"}
Defaults == [channel : Channels \cup {"", "cli"}, id : ChatIds \cup {"", "direct"}]

TypeOK ==
  /\ inbound \in Seq(Requests) /\ Len(inbound) =< InCap
  /\ outbound \in Seq([to : Address, content : Contents]) /\ Len(outbound) =< OutCap
  /\ pc \in [Agents -> Labels] /\ req \in [Agents -> Requests \cup {NoRequest}]
  /\ tool \in [Agents -> Tools] /\ calls \in 0 .. MaxCalls
  /\ ctx \in [Tools -> Defaults]
  /\ tasks \in Seq([state : {"running", "announcing", "done"}, chat : Chats, by : Contents])
  /\ Len(tasks) =< MaxTasks
  /\ lock \in 0 .. Len(tasks)
  /\ asked \in Seq(Reached) /\ ran \in Seq(Chats)
  /\ delivered \in [Reached -> Seq(Contents)]

\* The answer to a message or to an announcement reaches a user at most once,
\* and only in the chat the message came from or the subagent was spawned for,
\* though Run publishes every answer and processSystemMessage has already
\* published the answer to an announcement.
Home(m) == CASE m.kind = "user" -> asked[m.n]
             [] m.kind = "task" -> tasks[m.n].chat
             [] m.kind = "job"  -> ran[m.n]

Answers(c) == {i \in DOMAIN delivered[c] : delivered[c][i].what \in {"reply", "error"}}

AnsweredOnceAtHome ==
  \A c \in Reached :
    /\ \A i \in Answers(c) : Home(delivered[c][i]) = c
    /\ \A i, j \in Answers(c) :
         delivered[c][i].kind = delivered[c][j].kind /\ delivered[c][i].n = delivered[c][j].n
           => i = j

\* Answers come in the order in which the messages of a chat were accepted.
AnswersInOrder ==
  \A c \in Reached : \A i, j \in Answers(c) :
    i < j /\ delivered[c][i].kind = "user" /\ delivered[c][j].kind = "user"
      => delivered[c][i].n < delivered[c][j].n

\* What a subagent found is reported after the answer to the message that made
\* the agent spawn it, and not while that turn still runs.
ReportAfterAnswer ==
  \A c \in Reached : \A j \in Answers(c) : delivered[c][j].kind = "task" =>
    LET by == tasks[delivered[c][j].n].by
    IN  by.kind = "user" /\ asked[by.n] = c =>
          \E i \in Answers(c) : /\ i < j
                                 /\ delivered[c][i].kind = "user" /\ delivered[c][i].n = by.n

\* The one way in which the gateway stops answering although every call returns:
\* the loop waits for sm.mu, held by a subagent that waits for room on the queue
\* only the loop empties.
Stuck == /\ At("loop", "call") /\ tool["loop"] = "spawn"
         /\ lock # 0 /\ Len(inbound) = InCap

\* As long as the calls of the LLM and of Send return, every message accepted is
\* answered, in its chat, or the gateway is stuck.
Answered(n) == /\ n \in DOMAIN asked
               /\ \E i \in Answers(asked[n]) : /\ delivered[asked[n]][i].kind = "user"
                                              /\ delivered[asked[n]][i].n = n
MessagesAnswered ==
  \A n \in 1 .. MaxMessages : (n \in DOMAIN asked) ~> (Stuck \/ Answered(n))

\* As long as these calls return, every subagent comes to announce its result, or
\* the gateway is stuck.
Announced(t) == t \in DOMAIN tasks /\ tasks[t].state = "done"
SubagentsAnnounce ==
  \A t \in 1 .. MaxTasks : (t \in DOMAIN tasks) ~> (Stuck \/ Announced(t))

\* spawn.go:27, "The subagent will complete the task and report back when done."
SubagentReportsBack ==
  \A t \in 1 .. MaxTasks : (t \in DOMAIN tasks) ~> Announced(t)

\* base.go:14, a contextual tool receives "the current message context": what
\* the message tool sends in a turn goes to the chat of that turn.
ToolMessagesAtHome ==
  \A c \in Reached : \A i \in DOMAIN delivered[c] :
    delivered[c][i].what = "tool" => Home(delivered[c][i]) = c

\* However the loop, the cron goroutine, the subagents and the dispatcher interleave,
\* what is delivered is what GatewayPromise allows: no message is passed over, none is
\* answered twice, and what a turn says comes between the answers before it and its own.
Promise == INSTANCE GatewayPromise WITH
  asked <- asked, ran <- ran, delivered <- delivered, Reached <- Reached, Chats <- Chats,
  spawned <- [t \in DOMAIN tasks |->
                [chat |-> tasks[t].chat, by |-> [kind |-> tasks[t].by.kind, n |-> tasks[t].by.n]]]
KeepsPromise == Promise!Spec
=============================================================================
