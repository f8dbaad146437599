---------------------------- MODULE GatewayProofs ---------------------------
(***************************************************************************)
(* For every number of chats, messages, jobs, subagents and tool calls,    *)
(* and for queues of every capacity: an answer reaches the chat it is for, *)
(* once, in the order of the messages, and a subagent's report comes after *)
(* the answer to the message it was spawned for.  More than that, the      *)
(* gateway implements GatewayPromise: it is as if one agent took the       *)
(* messages of all chats one by one.  No message is lost on its way, and   *)
(* the deadlock that the runs find, once there, is there for ever.         *)
(***************************************************************************)
EXTENDS Gateway, SequenceTheorems, FiniteSetTheorems, TLAPS

-----------------------------------------------------------------------------
(* The inductive invariant.                                                *)

Busy(a) == pc[a] # "idle"

\* Where each goroutine can be in a turn, and what it has a turn for: processSystemMessage
\* sends the answer of an announcement before Run publishes it.
TurnInv ==
  /\ pc["loop"] # "return" /\ pc["cron"] \notin {"respond", "publish", "error"}
  /\ \A a \in Agents : Busy(a) => req[a] \in Requests /\ ctx \in [Tools -> Chats]
  /\ Busy("cron") => req["cron"].kind = "job"
  /\ pc["loop"] = "respond" => req["loop"].kind = "task"
  /\ \A a \in Agents : pc[a] \notin {"set", "call"} => tool[a] = "message"

\* A subagent is counted from the call of spawn on.
SpawnInv == Spawning =< MaxTasks

\* What is said of a request while it is queued or has its turn: it is a message
\* that was accepted, or the announcement of a subagent that has made it.
IsRequest(r) ==
  \/ r.kind = "user" /\ r.n \in DOMAIN asked /\ r.chat = asked[r.n]
  \/ r.kind = "task" /\ r.n \in DOMAIN tasks /\ tasks[r.n].state = "done" /\ r.chat = tasks[r.n].chat

IsAnswer(x) == x.what \in {"reply", "error"}

\* An answer on its way to the chat c was asked for there.
AnswerFor(x, c) ==
  \/ x.kind = "user" /\ x.n \in DOMAIN asked /\ asked[x.n] = c
  \/ x.kind = "task" /\ x.n \in DOMAIN tasks /\ tasks[x.n].state = "done" /\ tasks[x.n].chat = c

HomeInv ==
  /\ \A i \in DOMAIN inbound : IsRequest(inbound[i])
  /\ Busy("loop") => IsRequest(req["loop"])
  /\ \A i \in DOMAIN outbound :
       outbound[i].to \in Reached /\ IsAnswer(outbound[i].content)
         => AnswerFor(outbound[i].content, outbound[i].to)
  /\ \A c \in Reached : \A i \in DOMAIN delivered[c] :
       IsAnswer(delivered[c][i]) => AnswerFor(delivered[c][i], c)

\* x may be followed by y: messages keep their order, and an announcement is
\* made once.
Precedes(x, y) == x.kind = y.kind => IF x.kind = "user" THEN x.n < y.n ELSE x.n # y.n

\* No answer on its way to the chat of r is one to r or to a later message.
Unanswered(r) ==
  r.chat \in Reached =>
    /\ \A i \in DOMAIN outbound :
         outbound[i].to = r.chat /\ IsAnswer(outbound[i].content) => Precedes(outbound[i].content, r)
    /\ \A i \in DOMAIN delivered[r.chat] :
         IsAnswer(delivered[r.chat][i]) => Precedes(delivered[r.chat][i], r)

\* From the inbound queue through the turn of the loop ...
RequestsInv ==
  /\ \A i, j \in DOMAIN inbound : i < j => Precedes(inbound[i], inbound[j])
  /\ \A i \in DOMAIN inbound : Unanswered(inbound[i])
  /\ Busy("loop") => \A i \in DOMAIN inbound : Precedes(req["loop"], inbound[i])
  /\ Busy("loop") /\ (req["loop"].kind = "user" \/ pc["loop"] \notin {"publish", "error"})
       => Unanswered(req["loop"])

\* ... and the outbound queue to the channel.
AnswersInv ==
  \A c \in Reached :
    /\ \A i, j \in DOMAIN outbound :
         /\ i < j /\ outbound[i].to = c /\ outbound[j].to = c
         /\ IsAnswer(outbound[i].content) /\ IsAnswer(outbound[j].content)
         => Precedes(outbound[i].content, outbound[j].content)
    /\ \A i \in DOMAIN delivered[c], j \in DOMAIN outbound :
         /\ outbound[j].to = c
         /\ IsAnswer(delivered[c][i]) /\ IsAnswer(outbound[j].content)
         => Precedes(delivered[c][i], outbound[j].content)
    /\ \A i, j \in DOMAIN delivered[c] :
         i < j /\ IsAnswer(delivered[c][i]) /\ IsAnswer(delivered[c][j])
         => Precedes(delivered[c][i], delivered[c][j])

\* The answer to the message n is among the first k on the outbound queue, or the
\* channel of its chat has been given it, as one of the first d.
AnswerTo(x, n) == IsAnswer(x) /\ x.kind = "user" /\ x.n = n
Queued(n, k)   == \E i \in DOMAIN outbound : /\ i =< k /\ outbound[i].to = asked[n]
                                             /\ AnswerTo(outbound[i].content, n)
Given(n, d)    == \E i \in DOMAIN delivered[asked[n]] :
                    i =< d /\ AnswerTo(delivered[asked[n]][i], n)

Ahead(n, k) == Queued(n, k) \/ Given(n, Len(delivered[asked[n]]))

SpawnedBy(t, n) == tasks[t].by.kind = "user" /\ tasks[t].by.n = n
Report(x, n)    == IsAnswer(x) /\ x.kind = "task" /\ SpawnedBy(x.n, n)

\* The message that made the agent spawn a subagent is answered, or still has its
\* turn; what the subagent reports is behind that answer.
ReportInv ==
  /\ \A t \in DOMAIN tasks : tasks[t].by.kind = "user" => tasks[t].by.n \in DOMAIN asked
  /\ \A n \in DOMAIN asked :
       /\ \A t \in DOMAIN tasks : SpawnedBy(t, n) =>
            \/ Busy("loop") /\ req["loop"].kind = "user" /\ req["loop"].n = n
            \/ Ahead(n, Len(outbound))
       /\ \A j \in DOMAIN outbound :
            outbound[j].to = asked[n] /\ Report(outbound[j].content, n) => Ahead(n, j - 1)
       /\ \A j \in DOMAIN delivered[asked[n]] :
            Report(delivered[asked[n]][j], n) => Given(n, j - 1)

TypeInv == TypeOK /\ TurnInv /\ SpawnInv

IInv == TypeInv /\ HomeInv /\ RequestsInv /\ AnswersInv /\ ReportInv

-----------------------------------------------------------------------------
(* Sequences.                                                              *)

LEMMA AppendedSeq ==
  ASSUME NEW T, NEW s \in Seq(T), NEW x \in T
  PROVE  /\ Append(s, x) \in Seq(T) /\ Len(Append(s, x)) = Len(s) + 1 /\ Len(s) \in Nat
         /\ DOMAIN s = 1 .. Len(s) /\ DOMAIN Append(s, x) = 1 .. Len(s) + 1
         /\ \A i \in DOMAIN s : i \in DOMAIN Append(s, x) /\ Append(s, x)[i] = s[i]
         /\ Append(s, x)[Len(s) + 1] = x
<1>1. Len(s) \in Nat /\ DOMAIN s = 1 .. Len(s)
  BY LenProperties
<1>2. Append(s, x) \in Seq(T) /\ Len(Append(s, x)) = Len(s) + 1
      /\ (\A i \in 1 .. Len(s) : Append(s, x)[i] = s[i]) /\ Append(s, x)[Len(s) + 1] = x
  BY AppendProperties
<1>3. DOMAIN Append(s, x) = 1 .. Len(s) + 1
  BY <1>2, LenProperties
<1>4. QED
  BY <1>1, <1>2, <1>3

LEMMA TailOfSeq ==
  ASSUME NEW T, NEW s \in Seq(T), s # <<>>
  PROVE  /\ Tail(s) \in Seq(T) /\ Len(Tail(s)) = Len(s) - 1 /\ Len(s) \in Nat
         /\ DOMAIN s = 1 .. Len(s) /\ DOMAIN Tail(s) = 1 .. Len(s) - 1
         /\ \A i \in DOMAIN Tail(s) : i + 1 \in DOMAIN s /\ Tail(s)[i] = s[i + 1]
         /\ 1 \in DOMAIN s /\ Head(s) = s[1] /\ s[1] \in T
<1>1. Len(s) \in Nat /\ DOMAIN s = 1 .. Len(s) /\ Len(s) # 0
  BY LenProperties, EmptySeq
<1>2. Tail(s) \in Seq(T) /\ Len(Tail(s)) = Len(s) - 1
      /\ (\A i \in 1 .. Len(Tail(s)) : Tail(s)[i] = s[i + 1])
  BY HeadTailProperties
<1>3. DOMAIN Tail(s) = 1 .. Len(s) - 1
  BY <1>2, LenProperties
<1>4. 1 \in DOMAIN s /\ s[1] \in T /\ Head(s) = s[1]
  BY <1>1, ElementOfSeq
<1>5. QED
  BY <1>1, <1>2, <1>3, <1>4

-----------------------------------------------------------------------------
(* Types.                                                                  *)

\* The goroutines that count as subagents about to exist.
Spawners == {a \in Agents : pc[a] \in {"set", "call"} /\ tool[a] = "spawn"}

LEMMA SpawnersFinite ==
  /\ IsFiniteSet(Spawners) /\ Cardinality(Spawners) \in Nat
  /\ IsFiniteSet(Spawners') /\ Cardinality(Spawners') \in Nat
<1>1. IsFiniteSet(Agents)
  <2>1. IsFiniteSet({} \cup {"loop"})
    BY FS_EmptySet, FS_AddElement
  <2>2. IsFiniteSet(({} \cup {"loop"}) \cup {"cron"})
    BY <2>1, FS_AddElement
  <2>3. QED
    <3>1. Agents = ({} \cup {"loop"}) \cup {"cron"}
      BY DEF Agents
    <3>2. QED
      BY <2>2, <3>1
<1>2. Spawners \subseteq Agents /\ Spawners' \subseteq Agents
  BY DEF Spawners
<1>3. QED
  BY <1>1, <1>2, FS_Subset, FS_CardinalityType

LEMMA SpawningIs == Spawning = Len(tasks) + Cardinality(Spawners)
BY DEF Spawning, Spawners

LEMMA AddressOfChat == Chats \subseteq Address /\ Reached \subseteq Chats
BY DEF Chats, Address, Reached

LEMMA AboutTyped ==
  ASSUME NEW r \in Requests, NEW what \in {"reply", "error", "tool", "text"}
  PROVE  /\ About(what, r) \in Contents
         /\ About(what, r).what = what /\ About(what, r).kind = r.kind /\ About(what, r).n = r.n
BY DEF Requests, Contents, About

LEMMA TypeInit == Init => TypeInv
<1>. SUFFICES ASSUME Init PROVE TypeInv
  OBVIOUS
<1>1. /\ <<>> \in Seq(Requests) /\ <<>> \in Seq([to : Address, content : Contents])
      /\ <<>> \in Seq([state : {"running", "announcing", "done"}, chat : Chats, by : Contents])
      /\ <<>> \in Seq(Reached) /\ <<>> \in Seq(Chats) /\ <<>> \in Seq(Contents)
  OBVIOUS
<1>2. ctx \in [Tools -> Defaults]
  BY DEF Init, Tools, Defaults
<1>3. TypeOK
  <2>1. Len(inbound) = 0 /\ Len(outbound) = 0 /\ Len(tasks) = 0
    BY DEF Init
  <2>2. inbound \in Seq(Requests) /\ outbound \in Seq([to : Address, content : Contents])
        /\ tasks \in Seq([state : {"running", "announcing", "done"}, chat : Chats, by : Contents])
        /\ asked \in Seq(Reached) /\ ran \in Seq(Chats) /\ delivered \in [Reached -> Seq(Contents)]
    BY <1>1 DEF Init
  <2>3. /\ pc \in [Agents -> Labels] /\ req \in [Agents -> Requests \cup {NoRequest}]
        /\ tool \in [Agents -> Tools]
    BY DEF Init, Labels, Tools
  <2>4. calls = 0 /\ lock = 0
    BY DEF Init
  <2>5. 0 =< InCap /\ 0 =< OutCap /\ 0 =< MaxTasks /\ 0 \in 0 .. MaxCalls /\ 0 \in 0 .. 0
    BY BoundsAssumption
  <2>6. QED
    BY <1>2, <2>1, <2>2, <2>3, <2>4, <2>5 DEF TypeOK
<1>4. TurnInv
  BY DEF Init, TurnInv, Agents, Busy
<1>5. SpawnInv
  <2>1. Spawners = {}
    BY DEF Spawners, Init
  <2>2. Len(tasks) = 0
    BY DEF Init
  <2>3. QED
    BY <2>1, <2>2, SpawningIs, FS_EmptySet, BoundsAssumption DEF SpawnInv
<1>6. QED
  BY <1>3, <1>4, <1>5 DEF TypeInv

TaskType == [state : {"running", "announcing", "done"}, chat : Chats, by : Contents]
Letter == [to : Address, content : Contents]

\* What a queue holds when something was put on it.
LEMMA InboundTyped ==
  ASSUME TypeOK, NEW r \in Requests, PublishInbound(r)
  PROVE  inbound' \in Seq(Requests) /\ Len(inbound') =< InCap
<1>1. inbound \in Seq(Requests) /\ inbound' = Append(inbound, r) /\ Len(inbound) < InCap
  BY DEF TypeOK, PublishInbound
<1>2. Len(inbound) \in Nat /\ InCap \in Nat
  BY <1>1, LenProperties, BoundsAssumption
<1>3. QED
  BY <1>1, <1>2, AppendedSeq

LEMMA OutboundTyped ==
  ASSUME TypeOK, NEW c \in Address, NEW x \in Contents, PublishOutbound(c, x)
  PROVE  outbound' \in Seq(Letter) /\ Len(outbound') =< OutCap
<1>1. /\ outbound \in Seq(Letter) /\ outbound' = Append(outbound, [to |-> c, content |-> x])
      /\ Len(outbound) < OutCap /\ [to |-> c, content |-> x] \in Letter
  BY DEF TypeOK, PublishOutbound, Letter
<1>2. Len(outbound) \in Nat /\ OutCap \in Nat
  BY <1>1, LenProperties, BoundsAssumption
<1>3. QED
  BY <1>1, <1>2, AppendedSeq

\* The chat that a tool has seen is made of those of two turns.
LEMMA SeenTyped ==
  ASSUME TypeOK, TurnInv, NEW a \in Agents, Busy(a)
  PROVE  Seen(a) \subseteq Chats
<1>1. ctx \in [Tools -> Chats] /\ tool[a] \in Tools
  BY DEF TurnInv, TypeOK
<1>2. \A b \in Agents : At(b, "set") => req[b].chat \in Chats
  BY DEF TurnInv, Busy, At, Requests
<1>3. \A x \in {req[b].chat : b \in {b \in Agents \ {a} : At(b, "set") /\ tool[b] = tool[a]}} \cup {ctx[tool[a]]} :
        x \in Chats
  BY <1>1, <1>2
<1>4. \A x, y \in Chats : [channel |-> x.channel, id |-> y.id] \in Chats
  BY DEF Chats
<1>5. QED
  BY <1>3, <1>4 DEF Seen

LEMMA TypeStep == TypeOK /\ TurnInv /\ SpawnInv /\ [Next]_vars => TypeOK'
<1>. SUFFICES ASSUME TypeOK, TurnInv, SpawnInv, [Next]_vars PROVE TypeOK'
  OBVIOUS
<1>. USE DEF Letter
<1>1. CASE UNCHANGED vars
  BY <1>1 DEF TypeOK, vars, goroutine, history
<1>2. ASSUME NEW s \in Senders, NEW c \in Reached, HandleMessage(s, c) PROVE TypeOK'
  <2>1. asked' \in Seq(Reached) /\ Len(asked') \in Nat \ {0}
    BY <1>2, AppendedSeq DEF HandleMessage, TypeOK
  <2>2. [kind |-> "user", n |-> Len(asked'), chat |-> c] \in Requests
    BY <2>1, AddressOfChat DEF Requests
  <2>3. inbound' \in Seq(Requests) /\ Len(inbound') =< InCap
    BY <1>2, <2>2, InboundTyped DEF HandleMessage
  <2>4. QED
    BY <1>2, <2>1, <2>3 DEF HandleMessage, TypeOK, goroutine
\* A turn begins.
<1>3. ASSUME NEW a \in Agents, NEW r \in Requests, Begin(a, r)
      PROVE  /\ pc' \in [Agents -> Labels] /\ req' \in [Agents -> Requests \cup {NoRequest}]
             /\ tool' \in [Agents -> Tools] /\ calls' \in 0 .. MaxCalls /\ ctx' \in [Tools -> Defaults]
  BY <1>3 DEF Begin, Goto, TypeOK, Labels, Requests, Defaults, Chats
<1>4. CASE ConsumeInbound
  <2>1. inbound \in Seq(Requests) /\ inbound # <<>> /\ Len(inbound) =< InCap /\ inbound' = Tail(inbound)
    BY <1>4 DEF ConsumeInbound, TypeOK
  <2>2. Head(inbound) \in Requests /\ inbound' \in Seq(Requests) /\ Len(inbound') =< InCap
    BY <2>1, TailOfSeq, BoundsAssumption
  <2>3. QED
    BY <1>3, <1>4, <2>2 DEF ConsumeInbound, TypeOK, Agents, history
<1>5. ASSUME NEW c \in JobChats, RunJob(c) PROVE TypeOK'
  <2>. DEFINE job == [kind |-> "job", n |-> Len(ran'), chat |-> c]
  <2>1. c \in Chats /\ c \in Address
    BY JobAssumption, AddressOfChat
  <2>2. ran' \in Seq(Chats) /\ Len(ran') \in Nat \ {0}
    BY <1>5, <2>1, AppendedSeq DEF RunJob, TypeOK
  <2>3. job \in Requests
    BY <2>1, <2>2 DEF Requests
  <2>. HIDE DEF job
  <2>4. CASE PublishOutbound(c, About("text", job)) /\ UNCHANGED <<goroutine, ctx>>
    <3>1. outbound' \in Seq(Letter) /\ Len(outbound') =< OutCap
      BY <2>1, <2>3, <2>4, AboutTyped, OutboundTyped
    <3>2. QED
      BY <1>5, <2>2, <2>4, <3>1 DEF RunJob, TypeOK, goroutine
  <2>5. CASE Begin("cron", job) /\ UNCHANGED outbound
    BY <1>3, <1>5, <2>2, <2>3, <2>5 DEF RunJob, TypeOK, Agents
  <2>6. QED
    BY <1>5, <2>4, <2>5 DEF RunJob, job
<1>6. ASSUME NEW a \in Agents, NEW t \in Tools, CallTool(a, t) PROVE TypeOK'
  BY <1>6, BoundsAssumption DEF CallTool, Goto, TypeOK, Labels, history
<1>7. ASSUME NEW a \in Agents, SetContext(a) PROVE TypeOK'
  <2>1. req[a].chat \in Chats /\ Chats \subseteq Defaults
    BY <1>7 DEF SetContext, At, TurnInv, Busy, Requests, Chats, Defaults
  <2>2. ctx' \in [Tools -> Defaults]
    BY <1>7, <2>1 DEF SetContext, TypeOK
  <2>3. QED
    BY <1>7, <2>2 DEF SetContext, Goto, TypeOK, Labels, history
<1>8. ASSUME NEW a \in Agents, Executed(a)
      PROVE  pc' \in [Agents -> Labels] /\ tool' \in [Agents -> Tools] /\ req[a] \in Requests
             /\ Busy(a) /\ UNCHANGED <<inbound, req, calls, ctx, lock, history>>
  BY <1>8 DEF Executed, At, Goto, TypeOK, TurnInv, Busy, Labels, Tools
<1>9. ASSUME NEW a \in Agents, SendMessage(a) PROVE TypeOK'
  <2>1. PICK c \in Seen(a) : PublishOutbound(c, About("tool", req[a]))
    BY <1>9 DEF SendMessage
  <2>2. outbound' \in Seq(Letter) /\ Len(outbound') =< OutCap
    BY <1>8, <1>9, <2>1, SeenTyped, AddressOfChat, AboutTyped, OutboundTyped DEF SendMessage
  <2>3. QED
    BY <1>8, <1>9, <2>2 DEF SendMessage, TypeOK, history
<1>10. ASSUME NEW a \in Agents, Spawn(a) PROVE TypeOK'
  <2>1. PICK c \in Seen(a) : tasks' = Append(tasks, [state |-> "running", chat |-> c,
                                                     by |-> About("reply", req[a])])
    BY <1>10 DEF Spawn
  <2>2. c \in Chats /\ About("reply", req[a]) \in Contents
    BY <1>8, <1>10, SeenTyped, AboutTyped DEF Spawn
  <2>3. [state |-> "running", chat |-> c, by |-> About("reply", req[a])] \in TaskType
    BY <2>2 DEF TaskType
  <2>4. tasks' \in Seq(TaskType) /\ Len(tasks') = Len(tasks) + 1 /\ Len(tasks) \in Nat
    BY <2>1, <2>3, AppendedSeq DEF TypeOK, TaskType
  <2>5. Len(tasks') =< MaxTasks
    <3>1. a \in Spawners
      BY <1>10 DEF Spawn, Executed, At, Spawners
    <3>2. Cardinality(Spawners) # 0
      BY <3>1, SpawnersFinite, FS_EmptySet
    <3>3. QED
      BY <2>4, <3>2, SpawningIs, SpawnersFinite, BoundsAssumption DEF SpawnInv
  <2>6. QED
    BY <1>8, <1>10, <2>4, <2>5 DEF Spawn, TypeOK, TaskType, history
<1>11. ASSUME NEW a \in Agents, Answer(a) PROVE TypeOK'
  BY <1>11 DEF Answer, Goto, TypeOK, Labels, history
<1>12. ASSUME NEW a \in Agents, End(a)
       PROVE  /\ pc' \in [Agents -> Labels] /\ req' \in [Agents -> Requests \cup {NoRequest}]
              /\ UNCHANGED <<inbound, tool, calls, ctx, tasks, lock, history>>
  BY <1>12 DEF End, Goto, TypeOK, Labels
<1>13. ASSUME NEW a \in Agents, Fail(a) PROVE TypeOK'
  <2>1. CASE a = "cron"
    BY <1>12, <1>13, <2>1 DEF Fail, TypeOK, history
  <2>2. CASE a # "cron"
    BY <1>13, <2>2 DEF Fail, Goto, TypeOK, Labels, history
  <2>3. QED
    BY <2>1, <2>2
<1>14. CASE Return
  BY <1>12, <1>14 DEF Return, TypeOK, history, Agents
<1>15. CASE SendResponse
  <2>1. req["loop"] \in Requests /\ req["loop"].chat \in Address
    BY <1>15, AddressOfChat DEF SendResponse, At, TurnInv, Busy, Agents, Requests
  <2>2. outbound' \in Seq(Letter) /\ Len(outbound') =< OutCap
    BY <1>15, <2>1, AboutTyped, OutboundTyped DEF SendResponse
  <2>3. QED
    BY <1>15, <2>2 DEF SendResponse, Goto, TypeOK, Labels, history
<1>16. CASE Publish
  <2>1. req["loop"] \in Requests
    BY <1>16 DEF Publish, TurnInv, Busy, Agents
  <2>2. ReplyTo(req["loop"]) \in Address
    BY <2>1 DEF ReplyTo, Requests, Chats, Address
  <2>3. About(IF At("loop", "error") THEN "error" ELSE "reply", req["loop"]) \in Contents
    BY <2>1, AboutTyped
  <2>4. outbound' \in Seq(Letter) /\ Len(outbound') =< OutCap
    BY <1>16, <2>2, <2>3, OutboundTyped DEF Publish
  <2>5. QED
    BY <1>12, <1>16, <2>4 DEF Publish, TypeOK, history, Agents
<1>17. ASSUME NEW t \in DOMAIN tasks, FinishTask(t) PROVE TypeOK'
  <2>1. tasks \in Seq(TaskType) /\ DOMAIN tasks = 1 .. Len(tasks) /\ tasks[t] \in TaskType
    BY LenProperties, ElementOfSeq DEF TypeOK, TaskType
  <2>2. [tasks[t] EXCEPT !.state = "announcing"] \in TaskType
    BY <2>1 DEF TaskType
  <2>3. tasks' = [tasks EXCEPT ![t] = [tasks[t] EXCEPT !.state = "announcing"]]
    BY <1>17 DEF FinishTask
  <2>4. tasks' \in Seq(TaskType) /\ Len(tasks') = Len(tasks)
    BY <2>1, <2>2, <2>3, ExceptSeq
  <2>5. lock' \in 0 .. Len(tasks')
    BY <1>17, <2>1, <2>4 DEF FinishTask, TypeOK
  <2>6. QED
    BY <1>17, <2>4, <2>5 DEF FinishTask, TypeOK, TaskType, goroutine, history
<1>18. ASSUME NEW t \in DOMAIN tasks, Announce(t) PROVE TypeOK'
  <2>1. tasks \in Seq(TaskType) /\ DOMAIN tasks = 1 .. Len(tasks) /\ tasks[t] \in TaskType
        /\ Len(tasks) \in Nat
    BY LenProperties, ElementOfSeq DEF TypeOK, TaskType
  <2>2. [tasks[t] EXCEPT !.state = "done"] \in TaskType
    BY <2>1 DEF TaskType
  <2>3. tasks' = [tasks EXCEPT ![t] = [tasks[t] EXCEPT !.state = "done"]]
    BY <1>18 DEF Announce
  <2>4. tasks' \in Seq(TaskType) /\ Len(tasks') = Len(tasks)
    BY <2>1, <2>2, <2>3, ExceptSeq
  <2>5. [kind |-> "task", n |-> t, chat |-> tasks[t].chat] \in Requests
    BY <2>1 DEF Requests, TaskType
  <2>6. inbound' \in Seq(Requests) /\ Len(inbound') =< InCap
    BY <1>18, <2>5, InboundTyped DEF Announce
  <2>7. lock' \in 0 .. Len(tasks')
    BY <1>18, <2>1, <2>4 DEF Announce
  <2>8. QED
    BY <1>18, <2>4, <2>6, <2>7 DEF Announce, TypeOK, TaskType, goroutine, history
<1>19. CASE Dispatch
  <2>1. outbound \in Seq(Letter) /\ outbound # <<>> /\ Len(outbound) =< OutCap /\ outbound' = Tail(outbound)
    BY <1>19 DEF Dispatch, TypeOK
  <2>2. Head(outbound) \in Letter /\ outbound' \in Seq(Letter) /\ Len(outbound') = Len(outbound) - 1
        /\ Len(outbound) \in Nat
    BY <2>1, TailOfSeq
  <2>3. delivered' \in [Reached -> Seq(Contents)]
    <3>. DEFINE m == Head(outbound)
    <3>1. m.content \in Contents
      BY <2>2
    <3>2. ASSUME NEW c \in Reached PROVE Append(delivered[c], m.content) \in Seq(Contents)
      BY <3>1, AppendedSeq DEF TypeOK
    <3>3. CASE m.to \in Reached
      <4>1. delivered' = [delivered EXCEPT ![m.to] = Append(delivered[m.to], m.content)]
        BY <1>19, <3>3 DEF Dispatch, Hand
      <4>. HIDE DEF m
      <4>2. QED
        BY <3>2, <3>3, <4>1 DEF TypeOK
    <3>4. CASE m.to \notin Reached
      BY <1>19, <3>4 DEF Dispatch, Hand, TypeOK
    <3>5. QED
      BY <3>3, <3>4
  <2>4. QED
    BY <1>19, <2>2, <2>3, BoundsAssumption DEF Dispatch, TypeOK, goroutine
<1>20. QED
  BY <1>1, <1>2, <1>4, <1>5, <1>6, <1>7, <1>9, <1>10, <1>11, <1>13, <1>14, <1>15, <1>16, <1>17, <1>18, <1>19
     DEF Next, Turn, Finish, Task

LEMMA TurnStep == TypeOK /\ TurnInv /\ [Next]_vars => TurnInv'
<1>. SUFFICES ASSUME TypeOK, TurnInv, [Next]_vars PROVE TurnInv'
  OBVIOUS
<1>. USE DEF Agents, At, Goto, Busy
<1>1. CASE UNCHANGED <<pc, req, tool, ctx>>
  BY <1>1 DEF TurnInv
<1>2. ASSUME NEW a \in Agents, NEW r \in Requests, Begin(a, r), a = "cron" => r.kind = "job"
      PROVE  TurnInv'
  <2>1. ctx' \in [Tools -> Chats]
    BY <1>2 DEF Begin, Requests
  <2>2. QED
    BY <1>2, <2>1 DEF Begin, TurnInv, TypeOK
<1>3. CASE ConsumeInbound
  <2>1. Head(inbound) \in Requests
    BY <1>3, TailOfSeq DEF ConsumeInbound, TypeOK
  <2>2. QED
    BY <1>2, <1>3, <2>1 DEF ConsumeInbound
<1>4. ASSUME NEW c \in JobChats, RunJob(c) PROVE TurnInv'
  <2>. DEFINE job == [kind |-> "job", n |-> Len(ran'), chat |-> c]
  <2>1. c \in Chats
    BY JobAssumption
  <2>2. Len(ran') \in Nat \ {0}
    BY <1>4, <2>1, AppendedSeq DEF RunJob, TypeOK
  <2>3. job \in Requests /\ job.kind = "job"
    BY <2>1, <2>2 DEF Requests
  <2>. HIDE DEF job
  <2>4. UNCHANGED <<goroutine, ctx>> \/ Begin("cron", job)
    BY <1>4 DEF RunJob, job
  <2>5. QED
    BY <1>1, <1>2, <2>3, <2>4 DEF goroutine
<1>5. ASSUME NEW a \in Agents, NEW t \in Tools, CallTool(a, t) PROVE TurnInv'
  BY <1>5 DEF CallTool, TurnInv, TypeOK
<1>6. ASSUME NEW a \in Agents, SetContext(a) PROVE TurnInv'
  <2>1. req[a].chat \in Chats /\ ctx \in [Tools -> Chats]
    BY <1>6 DEF SetContext, TurnInv, Requests
  <2>2. ctx' \in [Tools -> Chats]
    BY <1>6, <2>1 DEF SetContext
  <2>3. QED
    BY <1>6, <2>2 DEF SetContext, TurnInv, TypeOK
<1>7. ASSUME NEW a \in Agents, SendMessage(a) \/ Spawn(a) PROVE TurnInv'
  BY <1>7 DEF SendMessage, Spawn, Executed, TurnInv, TypeOK, history
<1>8. ASSUME NEW a \in Agents, Answer(a) PROVE TurnInv'
  BY <1>8 DEF Answer, TurnInv, TypeOK
<1>9. ASSUME NEW a \in Agents, End(a), tool[a] = "message" PROVE TurnInv'
  BY <1>9 DEF End, TurnInv, TypeOK
<1>10. ASSUME NEW a \in Agents, Fail(a) PROVE TurnInv'
  <2>1. CASE a = "cron"
    BY <1>9, <1>10, <2>1 DEF Fail, TurnInv
  <2>2. CASE a # "cron"
    BY <1>10, <2>2 DEF Fail, TurnInv, TypeOK
  <2>3. QED
    BY <2>1, <2>2
<1>11. CASE Return
  BY <1>9, <1>11 DEF Return, TurnInv
<1>12. CASE SendResponse
  BY <1>12 DEF SendResponse, TurnInv, TypeOK
<1>13. CASE Publish
  BY <1>9, <1>13 DEF Publish, TurnInv
<1>14. QED
  <2>1. ASSUME NEW a \in Agents, Turn(a) PROVE TurnInv'
    BY <2>1, <1>5, <1>6, <1>7, <1>8, <1>10 DEF Turn
  <2>2. CASE Finish
    BY <2>2, <1>11, <1>12, <1>13 DEF Finish
  <2>3. ASSUME NEW s \in Senders, NEW c \in Reached, HandleMessage(s, c) PROVE TurnInv'
    BY <2>3, <1>1 DEF HandleMessage, goroutine
  <2>4. ASSUME NEW t \in DOMAIN tasks, Task(t) PROVE TurnInv'
    BY <2>4, <1>1 DEF Task, FinishTask, Announce, goroutine
  <2>5. CASE Dispatch
    BY <2>5, <1>1 DEF Dispatch, goroutine
  <2>6. CASE UNCHANGED vars
    BY <2>6, <1>1 DEF vars, goroutine
  <2>7. QED
    BY <1>3, <1>4, <2>1, <2>2, <2>3, <2>4, <2>5, <2>6 DEF Next

\* max_tasks holds for the subagents that exist because those about to exist count.
LEMMA SpawnStep == TypeOK /\ TurnInv /\ SpawnInv /\ [Next]_vars => SpawnInv'
<1>. SUFFICES ASSUME TypeOK, TurnInv, SpawnInv, [Next]_vars PROVE SpawnInv'
  OBVIOUS
<1>. DEFINE taskType == [state : {"running", "announcing", "done"}, chat : Chats, by : Contents]
<1>1. /\ Len(tasks) \in Nat /\ tasks \in Seq(taskType)
      /\ Len(tasks) + Cardinality(Spawners) =< MaxTasks /\ MaxTasks \in Nat
      /\ (SpawnInv' <=> Len(tasks') + Cardinality(Spawners') =< MaxTasks)
  BY SpawningIs, LenProperties, BoundsAssumption DEF TypeOK, SpawnInv, Spawning, Spawners
<1>2. ASSUME Len(tasks') = Len(tasks), Spawners' \subseteq Spawners PROVE SpawnInv'
  <2>1. Cardinality(Spawners') =< Cardinality(Spawners)
    BY <1>2, SpawnersFinite, FS_Subset
  <2>2. QED
    BY <1>1, <1>2, <2>1, SpawnersFinite
<1>3. ASSUME UNCHANGED <<pc, tool, tasks>> PROVE SpawnInv'
  BY <1>2, <1>3 DEF Spawners
<1>4. ASSUME NEW a \in Agents, NEW l \in Labels \ {"set", "call"}, pc' = [pc EXCEPT ![a] = l],
             UNCHANGED <<tool, tasks>>
      PROVE  SpawnInv'
  BY <1>2, <1>4 DEF Spawners, TypeOK
<1>5. ASSUME NEW a \in Agents, NEW t \in Tools, CallTool(a, t) PROVE SpawnInv'
  <2>1. CASE t = "spawn"
    <3>1. Spawning < MaxTasks
      BY <1>5, <2>1 DEF CallTool
    <3>2. Spawners' \subseteq Spawners \cup {a}
      BY <1>5 DEF CallTool, Goto, Spawners, TypeOK
    <3>3. Cardinality(Spawners') =< Cardinality(Spawners) + 1
      <4>. DEFINE n == Cardinality(Spawners)
      <4>1. IsFiniteSet(Spawners \cup {a})
            /\ Cardinality(Spawners \cup {a}) = IF a \in Spawners THEN n ELSE n + 1
        BY SpawnersFinite, FS_AddElement
      <4>2. Cardinality(Spawners') =< Cardinality(Spawners \cup {a})
        BY <3>2, <4>1, FS_Subset
      <4>3. QED
        BY <4>1, <4>2, SpawnersFinite, FS_CardinalityType
    <3>4. tasks' = tasks
      BY <1>5 DEF CallTool
    <3>5. Len(tasks) + Cardinality(Spawners) < MaxTasks
      BY <3>1, SpawningIs
    <3>6. QED
      BY <1>1, <3>3, <3>4, <3>5, SpawnersFinite
  <2>2. CASE t # "spawn"
    <3>1. Spawners' \subseteq Spawners /\ Len(tasks') = Len(tasks)
      BY <1>5, <2>2 DEF CallTool, Goto, Spawners, TypeOK
    <3>2. QED
      BY <1>2, <3>1
  <2>3. QED
    BY <2>1, <2>2
<1>6. ASSUME NEW a \in Agents, SetContext(a) PROVE SpawnInv'
  <2>1. Spawners' \subseteq Spawners /\ Len(tasks') = Len(tasks)
    BY <1>6 DEF SetContext, At, Goto, Spawners, TypeOK
  <2>2. QED
    BY <1>2, <2>1
<1>7. ASSUME NEW a \in Agents, SendMessage(a) PROVE SpawnInv'
  <2>1. Spawners' \subseteq Spawners /\ Len(tasks') = Len(tasks)
    BY <1>7 DEF SendMessage, Executed, At, Goto, Spawners, TypeOK
  <2>2. QED
    BY <1>2, <2>1
<1>8. ASSUME NEW a \in Agents, Spawn(a) PROVE SpawnInv'
  <2>1. a \in Spawners /\ Spawners' \subseteq Spawners \ {a}
    BY <1>8 DEF Spawn, Executed, At, Goto, Spawners, TypeOK
  <2>2. Len(tasks') =< Len(tasks) + 1 /\ Len(tasks') \in Nat
    <3>1. PICK c \in Seen(a) : tasks' = Append(tasks, [state |-> "running", chat |-> c,
                                                       by |-> About("reply", req[a])])
      BY <1>8 DEF Spawn
    <3>2. req[a] \in Requests /\ c \in Chats
      BY <1>8, SeenTyped DEF Spawn, Executed, At, TurnInv, Busy
    <3>3. [state |-> "running", chat |-> c, by |-> About("reply", req[a])] \in taskType
      BY <3>2, AboutTyped
    <3>. HIDE DEF taskType
    <3>4. QED
      BY <1>1, <3>1, <3>3, AppendedSeq
  <2>3. Cardinality(Spawners') =< Cardinality(Spawners) - 1
    <3>1. IsFiniteSet(Spawners \ {a}) /\ Cardinality(Spawners \ {a}) = Cardinality(Spawners) - 1
      BY <2>1, SpawnersFinite, FS_RemoveElement
    <3>2. QED
      BY <2>1, <3>1, FS_Subset
  <2>4. QED
    BY <1>1, <2>2, <2>3, SpawnersFinite
<1>9. ASSUME NEW c \in JobChats, RunJob(c) PROVE SpawnInv'
  BY <1>3, <1>4, <1>9 DEF RunJob, Begin, Goto, goroutine, Agents, Labels
<1>10. ASSUME NEW a \in Agents, End(a) PROVE SpawnInv'
  BY <1>4, <1>10 DEF End, Goto, Labels
<1>11. ASSUME NEW a \in Agents, Fail(a) PROVE SpawnInv'
  BY <1>4, <1>10, <1>11 DEF Fail, Goto, Labels
<1>12. ASSUME NEW a \in Agents, Answer(a) PROVE SpawnInv'
  <2>. DEFINE l == CASE a = "cron" -> "return"
                     [] a = "loop" /\ req[a].kind = "task" -> "respond"
                     [] OTHER -> "publish"
  <2>1. l \in {"return", "respond", "publish"}
    OBVIOUS
  <2>2. pc' = [pc EXCEPT ![a] = l]
    BY <1>12 DEF Answer, Goto
  <2>. HIDE DEF l
  <2>3. QED
    BY <1>4, <1>12, <2>1, <2>2 DEF Answer, Labels
<1>13. CASE Finish
  BY <1>4, <1>10, <1>13 DEF Finish, Return, SendResponse, Publish, Goto, Labels, Agents
<1>14. ASSUME NEW t \in DOMAIN tasks, Task(t) PROVE SpawnInv'
  <2>1. tasks \in Seq(taskType) /\ DOMAIN tasks = 1 .. Len(tasks) /\ tasks[t] \in taskType
    BY <1>1, LenProperties, ElementOfSeq
  <2>2. PICK st \in {"announcing", "done"} : tasks' = [tasks EXCEPT ![t] = [tasks[t] EXCEPT !.state = st]]
    BY <1>14 DEF Task, FinishTask, Announce
  <2>3. [tasks[t] EXCEPT !.state = st] \in taskType
    BY <2>1
  <2>. HIDE DEF taskType
  <2>4. Len(tasks') = Len(tasks)
    BY <2>1, <2>2, <2>3, ExceptSeq
  <2>5. Spawners' = Spawners
    BY <1>14 DEF Spawners, Task, FinishTask, Announce, goroutine
  <2>6. QED
    BY <1>2, <2>4, <2>5
<1>15. ASSUME NEW a \in Agents, Turn(a) PROVE SpawnInv'
  BY <1>5, <1>6, <1>7, <1>8, <1>11, <1>12, <1>15 DEF Turn
<1>16. ASSUME NEW s \in Senders, NEW c \in Reached, HandleMessage(s, c) PROVE SpawnInv'
  BY <1>3, <1>16 DEF HandleMessage, goroutine
<1>17. CASE ConsumeInbound
  BY <1>4, <1>17 DEF ConsumeInbound, Begin, Goto, Agents, Labels
<1>18. CASE Dispatch \/ UNCHANGED vars
  BY <1>3, <1>18 DEF Dispatch, vars, goroutine
<1>19. QED
  BY <1>9, <1>13, <1>14, <1>15, <1>16, <1>17, <1>18 DEF Next

-----------------------------------------------------------------------------
(* What a step does to the messages on their way.                          *)

\* A message stays accepted and a subagent stays what it is.
Keeps ==
  /\ \A n \in DOMAIN asked : n \in DOMAIN asked' /\ asked'[n] = asked[n]
  /\ \A t \in DOMAIN tasks :
       /\ t \in DOMAIN tasks' /\ tasks'[t].chat = tasks[t].chat /\ tasks'[t].by = tasks[t].by
       /\ tasks[t].state = "done" => tasks'[t].state = "done"

\* A message that was accepted, or an announcement that was made.
Known(x) ==
  \/ x.kind = "user" /\ x.n \in DOMAIN asked
  \/ x.kind = "task" /\ x.n \in DOMAIN tasks /\ tasks[x.n].state = "done"

Answering == pc["loop"] \in {"publish", "error"}

SameTurn ==
  /\ Busy("loop") <=> Busy("loop")'
  /\ req'["loop"] = req["loop"]
  /\ Answering => Answering'

\* A request comes: nothing that is known is behind it.
Received(r) ==
  /\ inbound' = Append(inbound, r) /\ UNCHANGED <<outbound, delivered>> /\ SameTurn
  /\ DOMAIN tasks' = DOMAIN tasks
  /\ \A n \in DOMAIN asked' \ DOMAIN asked : r.kind = "user" /\ r.n = n
  /\ IsRequest(r)'
  /\ \A x : Known(x) => Precedes(x, r)

\* A goroutine goes on; it may spawn a subagent.
Worked ==
  /\ UNCHANGED <<inbound, outbound, asked, delivered>> /\ SameTurn
  /\ \A t \in DOMAIN tasks' :
       t \in DOMAIN tasks \/ \E a \in Agents : Busy(a) /\ tasks'[t].by = About("reply", req[a])

\* Something is put on the outbound queue, which is no answer, or which is the
\* answer to the request of the loop.
Put(c, x) ==
  /\ outbound' = Append(outbound, [to |-> c, content |-> x])
  /\ UNCHANGED <<inbound, asked, delivered, tasks>>

Passed(c, x) ==
  /\ Put(c, x) /\ ~IsAnswer(x) /\ SameTurn
  /\ \/ x.kind = "job"
     \/ /\ Busy("loop") /\ ~Answering
        /\ x.kind = req["loop"].kind /\ x.n = req["loop"].n /\ x.what = "tool"

Replied(c, x) ==
  LET r == req["loop"] IN
  /\ Put(c, x) /\ Busy("loop")
  /\ r.kind = "user" => c = r.chat /\ AnswerTo(x, r.n) /\ ~Busy("loop")'
  /\ c \in Reached => /\ c = r.chat /\ x.kind = r.kind /\ x.n = r.n /\ (r.kind = "user" \/ ~Answering)
                      /\ IsAnswer(x) /\ (r.kind = "task" => x.what = "reply")
  /\ Busy("loop")' => req'["loop"] = r /\ Answering'

LEMMA TaskFields ==
  ASSUME TypeOK
  PROVE  /\ tasks \in Seq(TaskType) /\ Len(tasks) \in Nat /\ DOMAIN tasks = 1 .. Len(tasks)
         /\ \A t \in DOMAIN tasks : tasks[t] \in TaskType /\ t \in Nat \ {0}
<1>1. tasks \in Seq(TaskType)
  BY DEF TypeOK, TaskType
<1>2. QED
  BY <1>1, LenProperties, ElementOfSeq

LEMMA AskedFields ==
  ASSUME TypeOK
  PROVE  /\ asked \in Seq(Reached) /\ Len(asked) \in Nat /\ DOMAIN asked = 1 .. Len(asked)
         /\ \A n \in DOMAIN asked : asked[n] \in Reached
<1>1. asked \in Seq(Reached)
  BY DEF TypeOK
<1>2. QED
  BY <1>1, LenProperties, ElementOfSeq

\* The state of a subagent is set.
LEMMA TaskSet ==
  ASSUME TypeOK, NEW t \in DOMAIN tasks, NEW st, tasks' = [tasks EXCEPT ![t].state = st]
  PROVE  /\ DOMAIN tasks' = DOMAIN tasks
         /\ tasks'[t].state = st /\ tasks'[t].chat = tasks[t].chat /\ tasks'[t].by = tasks[t].by
         /\ \A u \in DOMAIN tasks \ {t} : tasks'[u] = tasks[u]
<1>1. tasks' = [tasks EXCEPT ![t] = [tasks[t] EXCEPT !.state = st]]
  OBVIOUS
<1>2. tasks[t] \in TaskType
  BY TaskFields
<1>3. [tasks[t] EXCEPT !.state = st].state = st
      /\ [tasks[t] EXCEPT !.state = st].chat = tasks[t].chat
      /\ [tasks[t] EXCEPT !.state = st].by = tasks[t].by
  BY <1>2 DEF TaskType
<1>4. QED
  BY <1>1, <1>3

\* A subagent is added.
LEMMA TaskAdded ==
  ASSUME TypeOK, TurnInv, NEW a \in Agents, Spawn(a)
  PROVE  /\ Busy(a)
         /\ \A t \in DOMAIN tasks : t \in DOMAIN tasks' /\ tasks'[t] = tasks[t]
         /\ \A t \in DOMAIN tasks' \ DOMAIN tasks : tasks'[t].by = About("reply", req[a])
<1>1. PICK c \in Seen(a) : tasks' = Append(tasks, [state |-> "running", chat |-> c,
                                                   by |-> About("reply", req[a])])
  BY DEF Spawn
<1>. DEFINE new == [state |-> "running", chat |-> c, by |-> About("reply", req[a])]
<1>2. req[a] \in Requests /\ c \in Chats /\ Busy(a)
  BY SeenTyped DEF Spawn, Executed, At, TurnInv, Busy
<1>3. new \in TaskType /\ new.by = About("reply", req[a])
  BY <1>2, AboutTyped DEF TaskType
<1>. HIDE DEF new
<1>4. /\ DOMAIN tasks = 1 .. Len(tasks) /\ DOMAIN tasks' = 1 .. Len(tasks) + 1 /\ Len(tasks) \in Nat
      /\ \A t \in DOMAIN tasks : t \in DOMAIN tasks' /\ tasks'[t] = tasks[t]
      /\ tasks'[Len(tasks) + 1] = new
  <2>1. tasks' = Append(tasks, new) /\ tasks \in Seq(TaskType)
    BY <1>1, TaskFields DEF new
  <2>2. QED
    BY <1>3, <2>1, AppendedSeq
<1>5. \A t \in DOMAIN tasks' \ DOMAIN tasks : t = Len(tasks) + 1
  BY <1>4
<1>6. QED
  BY <1>2, <1>3, <1>4, <1>5

LEMMA KeepsStep == TypeOK /\ TurnInv /\ [Next]_vars => Keeps
<1>. SUFFICES ASSUME TypeOK, TurnInv, [Next]_vars PROVE Keeps
  OBVIOUS
<1>1. ASSUME UNCHANGED <<asked, tasks>> PROVE Keeps
  BY <1>1 DEF Keeps
<1>2. ASSUME NEW s \in Senders, NEW c \in Reached, HandleMessage(s, c) PROVE Keeps
  BY <1>2, AppendedSeq, AskedFields DEF HandleMessage, Keeps
<1>3. ASSUME NEW t \in DOMAIN tasks, Task(t) PROVE Keeps
  <2>1. /\ tasks[t].state # "done" /\ asked' = asked
        /\ \E st \in {"announcing", "done"} : tasks' = [tasks EXCEPT ![t].state = st]
    BY <1>3 DEF Task, FinishTask, Announce, history
  <2>2. QED
    BY <2>1, TaskSet DEF Keeps
<1>4. ASSUME NEW a \in Agents, Spawn(a) PROVE Keeps
  BY <1>4, TaskAdded DEF Spawn, Executed, Keeps, history
<1>5. ASSUME NEW a \in Agents, Turn(a) PROVE Keeps
  BY <1>1, <1>4, <1>5 DEF Turn, CallTool, SetContext, SendMessage, Executed, Answer, Fail, End, history
<1>6. QED
  BY <1>1, <1>2, <1>3, <1>5
     DEF Next, RunJob, ConsumeInbound, Finish, SendResponse, Publish, Return, End, Dispatch, history, vars

Effect ==
  \/ \E r \in Requests : Received(r)
  \/ ConsumeInbound
  \/ Worked
  \/ \E c \in Address, x \in Contents : Passed(c, x) \/ Replied(c, x)
  \/ Dispatch

LEMMA Effects == TypeOK /\ TurnInv /\ HomeInv /\ [Next]_vars => Effect
<1>. SUFFICES ASSUME TypeOK, TurnInv, HomeInv, [Next]_vars PROVE Effect
  OBVIOUS
<1>. USE DEF At, Goto, Busy, Agents
<1>1. UNCHANGED <<pc, req>> => SameTurn
  BY DEF SameTurn, Answering
<1>2. ASSUME NEW s \in Senders, NEW c \in Reached, HandleMessage(s, c) PROVE Effect
  <2>1. /\ DOMAIN asked = 1 .. Len(asked) /\ Len(asked) \in Nat
        /\ Len(asked') = Len(asked) + 1 /\ DOMAIN asked' = 1 .. Len(asked) + 1
        /\ asked'[Len(asked) + 1] = c
    BY <1>2, AppendedSeq, AskedFields DEF HandleMessage
  <2>2. PICK r \in Requests : r = [kind |-> "user", n |-> Len(asked) + 1, chat |-> c]
    <3>1. Len(asked) + 1 \in Nat \ {0} /\ c \in Chats
      BY <2>1, AddressOfChat
    <3>2. [kind |-> "user", n |-> Len(asked) + 1, chat |-> c] \in Requests
      BY <3>1 DEF Requests
    <3>3. QED
      BY <3>2
  <2>3. inbound' = Append(inbound, r) /\ UNCHANGED <<outbound, delivered, tasks>> /\ SameTurn
    BY <1>1, <1>2, <2>1, <2>2 DEF HandleMessage, PublishInbound, goroutine
  <2>4. IsRequest(r)'
    BY <2>1, <2>2 DEF IsRequest
  <2>5. \A x : Known(x) => Precedes(x, r)
    BY <2>1, <2>2 DEF Known, Precedes
  <2>6. \A n \in DOMAIN asked' \ DOMAIN asked : r.kind = "user" /\ r.n = n
    BY <2>1, <2>2
  <2>7. Received(r)
    BY <2>3, <2>4, <2>5, <2>6 DEF Received
  <2>8. QED
    BY <2>2, <2>7 DEF Effect
<1>3. ASSUME NEW t \in DOMAIN tasks, Announce(t) PROVE Effect
  <2>1. tasks[t] \in TaskType /\ t \in Nat \ {0}
    BY TaskFields
  <2>2. PICK r \in Requests : r = [kind |-> "task", n |-> t, chat |-> tasks[t].chat]
    BY <2>1 DEF Requests, TaskType
  <2>3. inbound' = Append(inbound, r) /\ UNCHANGED <<outbound, asked, delivered>> /\ SameTurn
    BY <1>1, <1>3, <2>2 DEF Announce, PublishInbound, goroutine, history
  <2>4. DOMAIN tasks' = DOMAIN tasks /\ tasks'[t].state = "done" /\ tasks'[t].chat = tasks[t].chat
    BY <1>3, TaskSet DEF Announce
  <2>5. IsRequest(r)'
    BY <2>2, <2>4 DEF IsRequest
  <2>6. tasks[t].state # "done"
    BY <1>3 DEF Announce
  <2>7. \A x : Known(x) => Precedes(x, r)
    BY <2>2, <2>6 DEF Known, Precedes
  <2>8. Received(r)
    BY <2>3, <2>4, <2>5, <2>7 DEF Received
  <2>9. QED
    BY <2>2, <2>8 DEF Effect
<1>4. ASSUME UNCHANGED <<inbound, outbound, asked, delivered>>, SameTurn, DOMAIN tasks' = DOMAIN tasks
      PROVE  Effect
  BY <1>4 DEF Effect, Worked
<1>5. ASSUME NEW t \in DOMAIN tasks, FinishTask(t) PROVE Effect
  BY <1>1, <1>4, <1>5, TaskSet DEF FinishTask, goroutine, history
<1>6. ASSUME NEW c \in JobChats, RunJob(c) PROVE Effect
  <2>. DEFINE job == [kind |-> "job", n |-> Len(ran'), chat |-> c]
  <2>1. c \in Chats /\ c \in Address
    BY JobAssumption, AddressOfChat
  <2>2. Len(ran') \in Nat \ {0}
    BY <1>6, <2>1, AppendedSeq DEF RunJob, TypeOK
  <2>3. job \in Requests
    BY <2>1, <2>2 DEF Requests
  <2>4. UNCHANGED <<inbound, tasks, asked, delivered>>
        /\ \/ PublishOutbound(c, About("text", job)) /\ UNCHANGED <<goroutine, ctx>>
           \/ Begin("cron", job) /\ UNCHANGED outbound
    BY <1>6 DEF RunJob
  <2>. HIDE DEF job
  <2>5. CASE PublishOutbound(c, About("text", job)) /\ UNCHANGED <<goroutine, ctx>>
    <3>1. About("text", job) \in Contents /\ ~IsAnswer(About("text", job))
          /\ About("text", job).kind = "job"
      BY <2>3, AboutTyped DEF IsAnswer, job
    <3>2. Passed(c, About("text", job))
      BY <1>1, <2>4, <2>5, <3>1 DEF Passed, Put, PublishOutbound, goroutine
    <3>3. QED
      BY <2>1, <3>1, <3>2 DEF Effect
  <2>6. CASE Begin("cron", job) /\ UNCHANGED outbound
    <3>1. SameTurn
      BY <2>6 DEF Begin, SameTurn, Answering, TypeOK
    <3>2. QED
      BY <1>4, <2>4, <2>6, <3>1
  <2>7. QED
    BY <2>4, <2>5, <2>6
<1>7. ASSUME NEW a \in Agents, NEW l \in Labels \ {"idle"}, pc' = [pc EXCEPT ![a] = l], pc[a] = "think" \/ pc[a] = "set" \/ pc[a] = "call",
             req' = req
      PROVE  SameTurn
  BY <1>7 DEF SameTurn, Answering, TypeOK
<1>8. ASSUME NEW a \in Agents, NEW t \in Tools, CallTool(a, t) PROVE Effect
  BY <1>4, <1>7, <1>8 DEF CallTool, Labels, history
<1>9. ASSUME NEW a \in Agents, SetContext(a) PROVE Effect
  BY <1>4, <1>7, <1>9 DEF SetContext, Labels, history
<1>10. ASSUME NEW a \in Agents, SendMessage(a) PROVE Effect
  <2>1. PICK c \in Seen(a) : PublishOutbound(c, About("tool", req[a]))
    BY <1>10 DEF SendMessage
  <2>2. req[a] \in Requests /\ c \in Address
    BY <1>10, SeenTyped, AddressOfChat DEF SendMessage, Executed, TurnInv
  <2>3. /\ About("tool", req[a]) \in Contents /\ ~IsAnswer(About("tool", req[a]))
        /\ About("tool", req[a]).what = "tool" /\ About("tool", req[a]).kind = req[a].kind
        /\ About("tool", req[a]).n = req[a].n
    BY <2>2, AboutTyped DEF IsAnswer
  <2>4. SameTurn
    BY <1>7, <1>10 DEF SendMessage, Executed, Labels
  <2>5. a = "cron" => req[a].kind = "job"
    BY <1>10 DEF SendMessage, Executed, TurnInv
  <2>6. a = "loop" => Busy("loop") /\ ~Answering
    BY <1>10 DEF SendMessage, Executed, Answering
  <2>7. Put(c, About("tool", req[a]))
    BY <1>10, <2>1 DEF Put, PublishOutbound, SendMessage, Executed, history
  <2>. HIDE DEF Busy
  <2>8. Passed(c, About("tool", req[a]))
    BY <2>3, <2>4, <2>5, <2>6, <2>7 DEF Passed
  <2>9. QED
    BY <2>2, <2>3, <2>8 DEF Effect
<1>11. ASSUME NEW a \in Agents, Spawn(a) PROVE Effect
  <2>1. SameTurn
    BY <1>7, <1>11 DEF Spawn, Executed, Labels
  <2>2. Worked
    BY <1>11, <2>1, TaskAdded DEF Worked, Spawn, Executed, history
  <2>3. QED
    BY <2>2 DEF Effect
<1>12. ASSUME NEW a \in Agents, Answer(a) PROVE Effect
  <2>. DEFINE l == CASE a = "cron" -> "return"
                     [] a = "loop" /\ req[a].kind = "task" -> "respond"
                     [] OTHER -> "publish"
  <2>1. l \in {"return", "respond", "publish"}
    OBVIOUS
  <2>2. pc' = [pc EXCEPT ![a] = l]
    BY <1>12 DEF Answer
  <2>. HIDE DEF l
  <2>3. SameTurn
    BY <1>7, <1>12, <2>1, <2>2 DEF Answer, Labels
  <2>4. QED
    BY <1>4, <1>12, <2>3 DEF Answer, history
<1>13. ASSUME End("cron"), UNCHANGED outbound PROVE Effect
  <2>1. SameTurn
    BY <1>13 DEF End, SameTurn, Answering, TypeOK
  <2>2. QED
    BY <1>4, <1>13, <2>1 DEF End, history
<1>14. ASSUME NEW a \in Agents, Fail(a) PROVE Effect
  <2>1. CASE a = "cron"
    BY <1>13, <1>14, <2>1 DEF Fail
  <2>2. CASE a # "cron"
    BY <1>4, <1>7, <1>14, <2>2 DEF Fail, Labels, history
  <2>3. QED
    BY <2>1, <2>2
<1>15. CASE Return
  BY <1>13, <1>15 DEF Return
<1>16. CASE SendResponse
  <2>. DEFINE r == req["loop"]
              x == About("reply", r)
  <2>1. r \in Requests /\ r.kind = "task" /\ r.chat \in Address
    BY <1>16, AddressOfChat DEF SendResponse, TurnInv, Requests
  <2>2. x \in Contents /\ x.kind = r.kind /\ x.n = r.n /\ x.what = "reply" /\ IsAnswer(x)
    BY <2>1, AboutTyped DEF IsAnswer
  <2>3. Put(r.chat, x)
    BY <1>16 DEF SendResponse, Put, PublishOutbound, history
  <2>4. Busy("loop") /\ ~Answering /\ req'["loop"] = r /\ Answering'
    BY <1>16 DEF SendResponse, Answering, TypeOK
  <2>. HIDE DEF x
  <2>5. Replied(r.chat, x)
    BY <2>1, <2>2, <2>3, <2>4 DEF Replied
  <2>6. QED
    BY <2>1, <2>2, <2>5 DEF Effect
<1>17. CASE Publish
  <2>. DEFINE r == req["loop"]
              c == ReplyTo(r)
              x == About(IF At("loop", "error") THEN "error" ELSE "reply", r)
  <2>1. Busy("loop") /\ r \in Requests /\ IsRequest(r) /\ ~Busy("loop")'
    BY <1>17 DEF Publish, End, TurnInv, HomeInv, TypeOK
  <2>2. x \in Contents /\ IsAnswer(x) /\ x.kind = r.kind /\ x.n = r.n
    BY <2>1, AboutTyped DEF IsAnswer
  <2>3. c \in Address /\ (r.kind = "user" => c = r.chat) /\ (r.kind # "user" => c \notin Reached)
    <3>1. r.kind \in {"user", "task"}
      BY <2>1 DEF IsRequest
    <3>2. r.kind = "user" => c = r.chat /\ c \in Address
      BY <2>1, AddressOfChat DEF ReplyTo, Requests
    <3>3. r.kind = "task" => c.channel = "system" /\ c \in Address
      BY <2>1 DEF ReplyTo, Requests, Chats, Address
    <3>4. \A d \in Reached : d.channel # "system"
      BY ChannelAssumption DEF Reached, Chats
    <3>5. QED
      BY <3>1, <3>2, <3>3, <3>4
  <2>4. Put(c, x)
    BY <1>17 DEF Publish, End, Put, PublishOutbound, history
  <2>. HIDE DEF x, c
  <2>5. Replied(c, x)
    BY <2>1, <2>2, <2>3, <2>4 DEF Replied, AnswerTo
  <2>6. QED
    BY <2>2, <2>3, <2>5 DEF Effect
<1>18. CASE UNCHANGED vars
  BY <1>1, <1>4, <1>18 DEF vars, goroutine, history
<1>19. ASSUME NEW a \in Agents, Turn(a) PROVE Effect
  BY <1>8, <1>9, <1>10, <1>11, <1>12, <1>14, <1>19 DEF Turn
<1>20. CASE ConsumeInbound \/ Dispatch
  BY <1>20 DEF Effect
<1>21. QED
  BY <1>2, <1>3, <1>5, <1>6, <1>15, <1>16, <1>17, <1>18, <1>19, <1>20 DEF Next, Finish, Task

-----------------------------------------------------------------------------
(* The queues after a step.                                                *)

LEMMA QueueFields ==
  ASSUME TypeOK
  PROVE  /\ inbound \in Seq(Requests) /\ outbound \in Seq(Letter)
         /\ DOMAIN inbound = 1 .. Len(inbound) /\ Len(inbound) \in Nat
         /\ DOMAIN outbound = 1 .. Len(outbound) /\ Len(outbound) \in Nat
         /\ \A i \in DOMAIN inbound : inbound[i] \in Requests
         /\ \A i \in DOMAIN outbound : outbound[i].to \in Address /\ outbound[i].content \in Contents
         /\ \A c \in Reached :
              /\ delivered[c] \in Seq(Contents) /\ Len(delivered[c]) \in Nat
              /\ DOMAIN delivered[c] = 1 .. Len(delivered[c])
              /\ \A i \in DOMAIN delivered[c] : delivered[c][i] \in Contents
<1>1. inbound \in Seq(Requests) /\ outbound \in Seq(Letter)
  BY DEF TypeOK, Letter
<1>2. DOMAIN inbound = 1 .. Len(inbound) /\ Len(inbound) \in Nat
      /\ \A i \in DOMAIN inbound : inbound[i] \in Requests
  BY <1>1, LenProperties, ElementOfSeq
<1>3. /\ DOMAIN outbound = 1 .. Len(outbound) /\ Len(outbound) \in Nat
      /\ \A i \in DOMAIN outbound : outbound[i] \in Letter
  BY <1>1, LenProperties, ElementOfSeq
<1>4. ASSUME NEW c \in Reached
      PROVE  /\ delivered[c] \in Seq(Contents) /\ Len(delivered[c]) \in Nat
             /\ DOMAIN delivered[c] = 1 .. Len(delivered[c])
             /\ \A i \in DOMAIN delivered[c] : delivered[c][i] \in Contents
  <2>1. delivered[c] \in Seq(Contents)
    BY DEF TypeOK
  <2>2. QED
    BY <2>1, LenProperties, ElementOfSeq
<1>5. QED
  BY <1>1, <1>2, <1>3, <1>4 DEF Letter

LEMMA ReceivedQueue ==
  ASSUME TypeOK, NEW r \in Requests, Received(r)
  PROVE  /\ DOMAIN inbound' = 1 .. Len(inbound) + 1
         /\ \A i \in DOMAIN inbound : i \in DOMAIN inbound' /\ inbound'[i] = inbound[i]
         /\ inbound'[Len(inbound) + 1] = r
BY QueueFields, AppendedSeq DEF Received

LEMMA ConsumedQueue ==
  ASSUME TypeOK, TurnInv, ConsumeInbound
  PROVE  /\ 1 \in DOMAIN inbound /\ req'["loop"] = inbound[1] /\ inbound[1] \in Requests
         /\ ~Busy("loop") /\ Busy("loop")' /\ ~Answering'
         /\ \A i \in DOMAIN inbound' : i \in Nat \ {0} /\ i + 1 \in DOMAIN inbound /\ inbound'[i] = inbound[i + 1]
         /\ UNCHANGED <<outbound, delivered, asked, tasks>>
<1>1. inbound \in Seq(Requests) /\ inbound # <<>>
  BY QueueFields DEF ConsumeInbound
<1>2. 1 \in DOMAIN inbound /\ inbound[1] \in Requests /\ Head(inbound) = inbound[1]
      /\ \A i \in DOMAIN inbound' : i \in Nat \ {0} /\ i + 1 \in DOMAIN inbound /\ inbound'[i] = inbound[i + 1]
  BY <1>1, TailOfSeq DEF ConsumeInbound
<1>3. pc' = [pc EXCEPT !["loop"] = "think"] /\ req' = [req EXCEPT !["loop"] = inbound[1]]
      /\ pc["loop"] = "idle"
  BY <1>2 DEF ConsumeInbound, Begin, Goto, At
<1>4. QED
  BY <1>2, <1>3 DEF ConsumeInbound, TypeOK, Agents, Busy, Answering, history

LEMMA PutQueue ==
  ASSUME TypeOK, NEW c \in Address, NEW x \in Contents, Put(c, x)
  PROVE  /\ DOMAIN outbound' = 1 .. Len(outbound) + 1 /\ Len(outbound') = Len(outbound) + 1
         /\ \A i \in DOMAIN outbound : i \in DOMAIN outbound' /\ outbound'[i] = outbound[i]
         /\ outbound'[Len(outbound) + 1].to = c /\ outbound'[Len(outbound) + 1].content = x
         /\ \A i \in DOMAIN outbound' : i \in DOMAIN outbound \/ i = Len(outbound) + 1
<1>. DEFINE new == [to |-> c, content |-> x]
<1>1. new \in Letter /\ new.to = c /\ new.content = x
  BY DEF Letter
<1>. HIDE DEF new
<1>2. outbound' = Append(outbound, new)
  BY DEF Put, new
<1>3. QED
  BY <1>1, <1>2, QueueFields, AppendedSeq

\* The first letter goes to the end of what its channel was given.
LEMMA DispatchQueue ==
  ASSUME TypeOK, Dispatch
  PROVE  /\ 1 \in DOMAIN outbound /\ Len(outbound') = Len(outbound) - 1
         /\ \A i \in DOMAIN outbound' : i \in Nat \ {0} /\ i + 1 \in DOMAIN outbound /\ outbound'[i] = outbound[i + 1]
         /\ \A i \in DOMAIN outbound : i # 1 => i - 1 \in DOMAIN outbound'
         /\ UNCHANGED <<inbound, pc, req, asked, tasks>>
         /\ \A c \in Reached :
              IF outbound[1].to = c
              THEN /\ DOMAIN delivered'[c] = 1 .. Len(delivered[c]) + 1
                   /\ Len(delivered'[c]) = Len(delivered[c]) + 1
                   /\ \A i \in DOMAIN delivered[c] : i \in DOMAIN delivered'[c] /\ delivered'[c][i] = delivered[c][i]
                   /\ delivered'[c][Len(delivered[c]) + 1] = outbound[1].content
              ELSE delivered'[c] = delivered[c]
<1>1. outbound \in Seq(Letter) /\ outbound # <<>> /\ outbound' = Tail(outbound)
  BY QueueFields DEF Dispatch
<1>2. /\ 1 \in DOMAIN outbound /\ Head(outbound) = outbound[1] /\ outbound[1] \in Letter
      /\ Len(outbound') = Len(outbound) - 1
      /\ \A i \in DOMAIN outbound' : i \in Nat \ {0} /\ i + 1 \in DOMAIN outbound /\ outbound'[i] = outbound[i + 1]
      /\ \A i \in DOMAIN outbound : i # 1 => i - 1 \in DOMAIN outbound'
  BY <1>1, TailOfSeq
<1>3. ASSUME NEW c \in Reached
      PROVE  IF outbound[1].to = c
             THEN delivered'[c] = Append(delivered[c], outbound[1].content)
             ELSE delivered'[c] = delivered[c]
  <2>1. Hand(outbound[1])
    BY <1>2 DEF Dispatch
  <2>2. QED
    BY <1>3, <2>1 DEF Hand, TypeOK
<1>4. ASSUME NEW c \in Reached, outbound[1].to = c
      PROVE  /\ DOMAIN delivered'[c] = 1 .. Len(delivered[c]) + 1
             /\ Len(delivered'[c]) = Len(delivered[c]) + 1
             /\ \A i \in DOMAIN delivered[c] : i \in DOMAIN delivered'[c] /\ delivered'[c][i] = delivered[c][i]
             /\ delivered'[c][Len(delivered[c]) + 1] = outbound[1].content
  <2>1. outbound[1].content \in Contents /\ delivered[c] \in Seq(Contents)
    BY <1>2, QueueFields
  <2>2. QED
    BY <1>3, <1>4, <2>1, AppendedSeq
<1>5. QED
  BY <1>2, <1>3, <1>4 DEF Dispatch, goroutine

-----------------------------------------------------------------------------
(* Every effect preserves the invariant.                                   *)

Typed == TypeOK /\ TurnInv

LEMMA HomeStep == Typed /\ HomeInv /\ Keeps /\ Effect => HomeInv'
<1>. SUFFICES ASSUME TypeOK, TurnInv, HomeInv, Keeps, Effect PROVE HomeInv'
  BY DEF Typed
<1>. DEFINE Inbound == \A i \in DOMAIN inbound : IsRequest(inbound[i])
            Turned == Busy("loop") => IsRequest(req["loop"])
            Outbound == \A i \in DOMAIN outbound :
                          outbound[i].to \in Reached /\ IsAnswer(outbound[i].content)
                            => AnswerFor(outbound[i].content, outbound[i].to)
            Delivered == \A c \in Reached : \A i \in DOMAIN delivered[c] :
                           IsAnswer(delivered[c][i]) => AnswerFor(delivered[c][i], c)
<1>1. Inbound /\ Turned /\ Outbound /\ Delivered
  BY DEF HomeInv
<1>2. Inbound'
  <2>1. CASE inbound' = inbound
    BY <1>1, <2>1 DEF Keeps, IsRequest
  <2>2. ASSUME NEW r \in Requests, Received(r) PROVE Inbound'
    <3>1. DOMAIN inbound' = 1 .. Len(inbound) + 1 /\ inbound'[Len(inbound) + 1] = r
          /\ DOMAIN inbound = 1 .. Len(inbound) /\ Len(inbound) \in Nat
          /\ \A i \in DOMAIN inbound : inbound'[i] = inbound[i]
      BY <2>2, ReceivedQueue, QueueFields
    <3>2. IsRequest(r)'
      BY <2>2 DEF Received
    <3>3. ASSUME NEW i \in DOMAIN inbound' PROVE IsRequest(inbound[i])'
      <4>1. CASE i = Len(inbound) + 1
        BY <3>1, <3>2, <4>1 DEF IsRequest
      <4>2. CASE i # Len(inbound) + 1
        <5>1. i \in DOMAIN inbound /\ inbound'[i] = inbound[i]
          BY <3>1, <4>2
        <5>2. IsRequest(inbound[i])
          BY <1>1, <5>1
        <5>3. QED
          BY <5>1, <5>2 DEF Keeps, IsRequest
      <4>3. QED
        BY <4>1, <4>2
    <3>4. QED
      BY <3>3
  <2>3. CASE ConsumeInbound
    <3>1. ASSUME NEW i \in DOMAIN inbound' PROVE IsRequest(inbound[i])'
      <4>1. i + 1 \in DOMAIN inbound /\ inbound'[i] = inbound[i + 1]
        BY <2>3, ConsumedQueue
      <4>2. IsRequest(inbound[i + 1])
        BY <1>1, <4>1
      <4>3. QED
        BY <4>1, <4>2 DEF Keeps, IsRequest
    <3>2. QED
      BY <3>1
  <2>4. QED
    BY <2>1, <2>2, <2>3, DispatchQueue DEF Effect, Worked, Passed, Replied, Put
<1>3. Turned'
  <2>1. CASE Busy("loop") /\ req'["loop"] = req["loop"]
    BY <1>1, <2>1 DEF Keeps, IsRequest
  <2>2. CASE ConsumeInbound
    <3>1. req'["loop"] = inbound[1] /\ IsRequest(inbound[1])
      BY <1>1, <2>2, ConsumedQueue
    <3>2. QED
      BY <3>1 DEF Keeps, IsRequest
  <2>3. CASE ~Busy("loop")'
    BY <2>3
  <2>4. UNCHANGED <<pc, req>> => (Busy("loop")' <=> Busy("loop")) /\ req'["loop"] = req["loop"]
    BY DEF Busy
  <2>5. QED
    BY <2>1, <2>2, <2>3, <2>4, DispatchQueue DEF Effect, Received, Worked, Passed, Replied, SameTurn
<1>4. ASSUME NEW c \in Address, NEW x \in Contents, Put(c, x), c \in Reached /\ IsAnswer(x) => AnswerFor(x, c)
      PROVE  Outbound'
  <2>1. ASSUME NEW i \in DOMAIN outbound', outbound'[i].to \in Reached, IsAnswer(outbound'[i].content)
        PROVE  AnswerFor(outbound[i].content, outbound[i].to)'
    <3>1. CASE i \in DOMAIN outbound
      <4>1. outbound'[i] = outbound[i]
        BY <1>4, <3>1, PutQueue
      <4>2. AnswerFor(outbound[i].content, outbound[i].to)
        BY <1>1, <2>1, <3>1, <4>1
      <4>3. QED
        BY <4>1, <4>2 DEF Keeps, AnswerFor
    <3>2. CASE i = Len(outbound) + 1
      <4>1. outbound'[i].to = c /\ outbound'[i].content = x
        BY <1>4, <3>2, PutQueue
      <4>2. AnswerFor(x, c)
        BY <1>4, <2>1, <4>1
      <4>3. QED
        BY <4>1, <4>2 DEF Keeps, AnswerFor
    <3>3. QED
      BY <1>4, <2>1, <3>1, <3>2, PutQueue
  <2>2. QED
    BY <2>1 DEF IsAnswer
<1>5. Outbound'
  <2>1. CASE outbound' = outbound
    BY <1>1, <2>1 DEF Keeps, AnswerFor, IsAnswer
  <2>2. ASSUME NEW c \in Address, NEW x \in Contents, Passed(c, x) PROVE Outbound'
    <3>. HIDE DEF Outbound
    <3>1. QED
      BY <1>4, <2>2 DEF Passed
  <2>3. ASSUME NEW c \in Address, NEW x \in Contents, Replied(c, x) PROVE Outbound'
    <3>1. c \in Reached => AnswerFor(x, c)
      <4>1. IsRequest(req["loop"])
        BY <1>1, <2>3 DEF Replied
      <4>2. QED
        BY <2>3, <4>1 DEF Replied, IsRequest, AnswerFor
    <3>2. Put(c, x)
      BY <2>3 DEF Replied
    <3>. HIDE DEF Outbound
    <3>3. QED
      BY <1>4, <3>1, <3>2
  <2>4. CASE Dispatch
    <3>1. ASSUME NEW i \in DOMAIN outbound', outbound'[i].to \in Reached, IsAnswer(outbound'[i].content)
          PROVE  AnswerFor(outbound[i].content, outbound[i].to)'
      <4>1. i + 1 \in DOMAIN outbound /\ outbound'[i] = outbound[i + 1]
        BY <2>4, DispatchQueue
      <4>2. AnswerFor(outbound[i + 1].content, outbound[i + 1].to)
        BY <1>1, <3>1, <4>1
      <4>3. QED
        BY <4>1, <4>2 DEF Keeps, AnswerFor
    <3>2. QED
      BY <3>1 DEF IsAnswer
  <2>5. QED
    BY <2>1, <2>2, <2>3, <2>4, ConsumedQueue DEF Effect, Received, Worked
<1>6. Delivered'
  <2>1. CASE delivered' = delivered
    BY <1>1, <2>1 DEF Keeps, AnswerFor, IsAnswer
  <2>2. CASE Dispatch
    <3>1. ASSUME NEW c \in Reached, NEW i \in DOMAIN delivered'[c], IsAnswer(delivered'[c][i])
          PROVE  AnswerFor(delivered[c][i], c)'
      <4>1. CASE i \in DOMAIN delivered[c] /\ delivered'[c][i] = delivered[c][i]
        <5>1. AnswerFor(delivered[c][i], c)
          BY <1>1, <3>1, <4>1
        <5>2. QED
          BY <4>1, <5>1 DEF Keeps, AnswerFor
      <4>2. CASE outbound[1].to = c /\ delivered'[c][i] = outbound[1].content
        <5>1. AnswerFor(outbound[1].content, c)
          BY <1>1, <2>2, <3>1, <4>2, DispatchQueue
        <5>2. QED
          BY <4>2, <5>1 DEF Keeps, AnswerFor
      <4>3. (i \in DOMAIN delivered[c] /\ delivered'[c][i] = delivered[c][i])
            \/ (outbound[1].to = c /\ delivered'[c][i] = outbound[1].content)
        <5>1. DOMAIN delivered[c] = 1 .. Len(delivered[c]) /\ Len(delivered[c]) \in Nat
          BY QueueFields
        <5>2. QED
          BY <2>2, <5>1, DispatchQueue
      <4>4. QED
        BY <4>1, <4>2, <4>3
    <3>2. QED
      BY <3>1 DEF IsAnswer
  <2>3. QED
    BY <2>1, <2>2, ConsumedQueue DEF Effect, Received, Worked, Passed, Replied, Put
<1>7. QED
  BY <1>2, <1>3, <1>5, <1>6 DEF HomeInv

LEMMA IsKnown ==
  /\ \A r : IsRequest(r) => Known(r)
  /\ \A x, c : AnswerFor(x, c) => Known(x)
BY DEF IsRequest, AnswerFor, Known

\* A request stays unanswered, unless the answer to one that is not before it is put
\* on the queue.
LEMMA PutUnanswered ==
  ASSUME TypeOK, NEW r, Unanswered(r), NEW c \in Address, NEW x \in Contents, Put(c, x),
         c \in Reached /\ IsAnswer(x) => Precedes(x, r)
  PROVE  Unanswered(r)'
<1>. SUFFICES ASSUME r.chat \in Reached
              PROVE  /\ \A i \in DOMAIN outbound' :
                          outbound'[i].to = r.chat /\ IsAnswer(outbound'[i].content)
                            => Precedes(outbound'[i].content, r)
                     /\ \A i \in DOMAIN delivered'[r.chat] :
                          IsAnswer(delivered'[r.chat][i]) => Precedes(delivered'[r.chat][i], r)
  BY DEF Unanswered, IsAnswer, Precedes
<1>1. ASSUME NEW i \in DOMAIN outbound', outbound'[i].to = r.chat, IsAnswer(outbound'[i].content)
      PROVE  Precedes(outbound'[i].content, r)
  <2>1. CASE i \in DOMAIN outbound
    BY <1>1, <2>1, PutQueue DEF Unanswered
  <2>2. CASE i = Len(outbound) + 1
    BY <1>1, <2>2, PutQueue
  <2>3. QED
    BY <1>1, <2>1, <2>2, PutQueue
<1>2. delivered' = delivered
  BY DEF Put
<1>3. QED
  BY <1>1, <1>2 DEF Unanswered

LEMMA DispatchUnanswered ==
  ASSUME TypeOK, NEW r, Unanswered(r), Dispatch
  PROVE  Unanswered(r)'
<1>. SUFFICES ASSUME r.chat \in Reached
              PROVE  /\ \A i \in DOMAIN outbound' :
                          outbound'[i].to = r.chat /\ IsAnswer(outbound'[i].content)
                            => Precedes(outbound'[i].content, r)
                     /\ \A i \in DOMAIN delivered'[r.chat] :
                          IsAnswer(delivered'[r.chat][i]) => Precedes(delivered'[r.chat][i], r)
  BY DEF Unanswered, IsAnswer, Precedes
<1>1. ASSUME NEW i \in DOMAIN outbound', outbound'[i].to = r.chat, IsAnswer(outbound'[i].content)
      PROVE  Precedes(outbound'[i].content, r)
  BY <1>1, DispatchQueue DEF Unanswered
<1>2. ASSUME NEW i \in DOMAIN delivered'[r.chat], IsAnswer(delivered'[r.chat][i])
      PROVE  Precedes(delivered'[r.chat][i], r)
  <2>1. \/ i \in DOMAIN delivered[r.chat] /\ delivered'[r.chat][i] = delivered[r.chat][i]
        \/ outbound[1].to = r.chat /\ delivered'[r.chat][i] = outbound[1].content
    <3>1. DOMAIN delivered[r.chat] = 1 .. Len(delivered[r.chat]) /\ Len(delivered[r.chat]) \in Nat
      BY QueueFields
    <3>2. QED
      BY <1>2, <3>1, DispatchQueue
  <2>2. QED
    BY <1>2, <2>1, DispatchQueue DEF Unanswered
<1>3. QED
  BY <1>1, <1>2

\* Nobody has answered a request that has just come.
LEMMA NewUnanswered ==
  ASSUME TypeOK, HomeInv, NEW r \in Requests, Received(r)
  PROVE  Unanswered(r) /\ Unanswered(r)'
<1>1. Unanswered(r)
  <2>1. ASSUME NEW i \in DOMAIN outbound, r.chat \in Reached, outbound[i].to = r.chat,
               IsAnswer(outbound[i].content)
        PROVE  Precedes(outbound[i].content, r)
    BY <2>1, IsKnown DEF HomeInv, Received
  <2>2. ASSUME r.chat \in Reached, NEW i \in DOMAIN delivered[r.chat], IsAnswer(delivered[r.chat][i])
        PROVE  Precedes(delivered[r.chat][i], r)
    BY <2>2, IsKnown DEF HomeInv, Received
  <2>3. QED
    BY <2>1, <2>2 DEF Unanswered
<1>2. QED
  BY <1>1 DEF Received, Unanswered

LEMMA RequestsStep == Typed /\ HomeInv /\ RequestsInv /\ Effect => RequestsInv'
<1>. SUFFICES ASSUME TypeOK, TurnInv, HomeInv, RequestsInv, Effect PROVE RequestsInv'
  BY DEF Typed
\* What is said of the loop's turn, when the turn goes on.
<1>1. ASSUME SameTurn, inbound' = inbound,
             \A r \in Requests : Unanswered(r) => Unanswered(r)'
      PROVE  RequestsInv'
  <2>1. ASSUME NEW i \in DOMAIN inbound PROVE Unanswered(inbound[i])'
    <3>1. inbound[i] \in Requests /\ Unanswered(inbound[i])
      BY QueueFields DEF RequestsInv
    <3>2. PICK r \in Requests : r = inbound[i]
      BY <3>1
    <3>3. Unanswered(r)'
      BY <1>1, <3>1, <3>2
    <3>4. inbound'[i] = r
      BY <1>1, <3>2
    <3>5. QED
      BY <3>3, <3>4 DEF Unanswered
  <2>2. ASSUME Busy("loop")', (req'["loop"].kind = "user" \/ ~Answering') PROVE Unanswered(req["loop"])'
    <3>1. Busy("loop") /\ req'["loop"] = req["loop"] /\ (req["loop"].kind = "user" \/ ~Answering)
      BY <1>1, <2>2 DEF SameTurn
    <3>2. PICK r \in Requests : r = req["loop"]
      BY <3>1 DEF TurnInv, Agents
    <3>3. Unanswered(r)
      BY <3>1, <3>2 DEF RequestsInv, Answering
    <3>4. Unanswered(r)'
      BY <1>1, <3>3
    <3>5. req'["loop"] = r
      BY <3>1, <3>2
    <3>6. QED
      BY <3>4, <3>5 DEF Unanswered
  <2>3. QED
    BY <1>1, <2>1, <2>2 DEF RequestsInv, SameTurn, Answering, Precedes
<1>2. ASSUME NEW r \in Requests, Received(r) PROVE RequestsInv'
  <2>1. /\ DOMAIN inbound' = 1 .. Len(inbound) + 1 /\ inbound'[Len(inbound) + 1] = r
        /\ DOMAIN inbound = 1 .. Len(inbound) /\ Len(inbound) \in Nat
        /\ \A i \in DOMAIN inbound : inbound'[i] = inbound[i]
    BY <1>2, ReceivedQueue, QueueFields
  <2>2. /\ \A i \in DOMAIN inbound : Precedes(inbound[i], r)
        /\ Busy("loop") => Precedes(req["loop"], r)
    BY <1>2, IsKnown DEF HomeInv, Received
  <2>3. /\ UNCHANGED <<outbound, delivered>>
        /\ (Busy("loop") <=> Busy("loop")') /\ req'["loop"] = req["loop"] /\ (Answering => Answering')
    BY <1>2 DEF Received, SameTurn
  <2>4. ASSUME NEW i \in DOMAIN inbound', NEW j \in DOMAIN inbound', i < j
        PROVE  Precedes(inbound'[i], inbound'[j])
    <3>1. i \in DOMAIN inbound /\ inbound'[i] = inbound[i]
      BY <2>1, <2>4
    <3>2. CASE j = Len(inbound) + 1
      BY <2>1, <2>2, <3>1, <3>2
    <3>3. CASE j # Len(inbound) + 1
      <4>1. j \in DOMAIN inbound /\ inbound'[j] = inbound[j]
        BY <2>1, <3>3
      <4>2. QED
        BY <2>4, <3>1, <4>1 DEF RequestsInv
    <3>4. QED
      BY <3>2, <3>3
  <2>5. ASSUME NEW i \in DOMAIN inbound' PROVE Unanswered(inbound[i])'
    <3>1. CASE i = Len(inbound) + 1
      <4>1. Unanswered(r)'
        BY <1>2, NewUnanswered
      <4>2. QED
        BY <2>1, <3>1, <4>1 DEF Unanswered
    <3>2. CASE i # Len(inbound) + 1
      <4>1. i \in DOMAIN inbound /\ inbound'[i] = inbound[i] /\ Unanswered(inbound[i])
        BY <2>1, <3>2 DEF RequestsInv
      <4>2. QED
        BY <2>3, <4>1 DEF Unanswered
    <3>3. QED
      BY <3>1, <3>2
  <2>6. ASSUME Busy("loop")' PROVE \A i \in DOMAIN inbound' : Precedes(req'["loop"], inbound'[i])
    <3>1. ASSUME NEW i \in DOMAIN inbound' PROVE Precedes(req'["loop"], inbound'[i])
      <4>1. CASE i = Len(inbound) + 1
        BY <2>1, <2>2, <2>3, <2>6, <4>1
      <4>2. CASE i # Len(inbound) + 1
        <5>1. i \in DOMAIN inbound /\ inbound'[i] = inbound[i]
          BY <2>1, <4>2
        <5>2. QED
          BY <2>3, <2>6, <5>1 DEF RequestsInv
      <4>3. QED
        BY <4>1, <4>2
    <3>2. QED
      BY <3>1
  <2>7. ASSUME Busy("loop")', (req'["loop"].kind = "user" \/ ~Answering') PROVE Unanswered(req["loop"])'
    <3>1. Unanswered(req["loop"])
      BY <2>3, <2>7 DEF RequestsInv, Answering
    <3>2. QED
      BY <2>3, <3>1 DEF Unanswered
  <2>8. QED
    BY <2>4, <2>5, <2>6, <2>7 DEF RequestsInv, Answering, Precedes
<1>3. CASE ConsumeInbound
  <2>1. /\ 1 \in DOMAIN inbound /\ req'["loop"] = inbound[1] /\ UNCHANGED <<outbound, delivered>>
        /\ \A i \in DOMAIN inbound' : i \in Nat \ {0} /\ i + 1 \in DOMAIN inbound /\ inbound'[i] = inbound[i + 1]
    BY <1>3, ConsumedQueue
  <2>2. \A i, j \in DOMAIN inbound' : i < j => Precedes(inbound'[i], inbound'[j])
    BY <2>1 DEF RequestsInv
  <2>3. ASSUME NEW i \in DOMAIN inbound' PROVE Unanswered(inbound[i])'
    <3>1. Unanswered(inbound[i + 1])
      BY <2>1 DEF RequestsInv
    <3>2. QED
      BY <2>1, <3>1 DEF Unanswered
  <2>4. \A i \in DOMAIN inbound' : Precedes(req'["loop"], inbound'[i])
    <3>1. ASSUME NEW i \in DOMAIN inbound' PROVE Precedes(inbound[1], inbound[i + 1])
      <4>1. 1 < i + 1 /\ i + 1 \in DOMAIN inbound
        BY <2>1
      <4>2. QED
        BY <2>1, <4>1 DEF RequestsInv
    <3>2. QED
      BY <2>1, <3>1
  <2>5. Unanswered(req["loop"])'
    <3>1. Unanswered(inbound[1])
      BY <2>1 DEF RequestsInv
    <3>2. QED
      BY <2>1, <3>1 DEF Unanswered
  <2>6. QED
    BY <2>2, <2>3, <2>4, <2>5 DEF RequestsInv, Precedes
<1>4. CASE Worked
  <2>1. SameTurn /\ UNCHANGED <<inbound, outbound, delivered>>
    BY <1>4 DEF Worked
  <2>2. \A r \in Requests : Unanswered(r) => Unanswered(r)'
    BY <2>1 DEF Unanswered
  <2>3. QED
    BY <1>1, <2>1, <2>2
<1>5. ASSUME NEW c \in Address, NEW x \in Contents, Passed(c, x) PROVE RequestsInv'
  <2>1. SameTurn /\ Put(c, x) /\ ~IsAnswer(x) /\ inbound' = inbound
    BY <1>5 DEF Passed, Put
  <2>2. \A r \in Requests : Unanswered(r) => Unanswered(r)'
    BY <2>1, PutUnanswered
  <2>3. QED
    BY <1>1, <2>1, <2>2
<1>6. ASSUME NEW c \in Address, NEW x \in Contents, Replied(c, x) PROVE RequestsInv'
  <2>1. Put(c, x) /\ Busy("loop") /\ UNCHANGED <<inbound>>
        /\ (c \in Reached => x.kind = req["loop"].kind /\ x.n = req["loop"].n)
        /\ (Busy("loop")' => req'["loop"] = req["loop"] /\ Answering')
        /\ (req["loop"].kind = "user" => ~Busy("loop")')
    BY <1>6 DEF Replied, Put
  <2>2. ASSUME NEW i \in DOMAIN inbound PROVE Unanswered(inbound[i])'
    <3>1. inbound[i] \in Requests /\ Unanswered(inbound[i]) /\ Precedes(req["loop"], inbound[i])
      BY <2>1, QueueFields DEF RequestsInv
    <3>2. PICK r \in Requests : r = inbound[i]
      BY <3>1
    <3>3. c \in Reached => Precedes(x, r)
      BY <2>1, <3>1, <3>2 DEF Precedes
    <3>4. Unanswered(r)'
      BY <2>1, <3>1, <3>2, <3>3, PutUnanswered
    <3>5. inbound'[i] = r
      BY <2>1, <3>2
    <3>6. QED
      BY <3>4, <3>5 DEF Unanswered
  <2>3. QED
    BY <2>1, <2>2 DEF RequestsInv, Precedes, Answering
<1>7. CASE Dispatch
  <2>1. UNCHANGED <<inbound, pc, req>>
    BY <1>7, DispatchQueue
  <2>2. SameTurn
    BY <2>1 DEF SameTurn, Busy, Answering
  <2>3. \A r \in Requests : Unanswered(r) => Unanswered(r)'
    BY <1>7, DispatchUnanswered
  <2>4. QED
    BY <1>1, <2>1, <2>2, <2>3
<1>8. QED
  BY <1>2, <1>3, <1>4, <1>5, <1>6, <1>7 DEF Effect

LEMMA AnswersStep == Typed /\ RequestsInv /\ AnswersInv /\ Effect => AnswersInv'
<1>. SUFFICES ASSUME TypeOK, TurnInv, RequestsInv, AnswersInv, Effect, NEW c \in Reached
              PROVE  /\ \A i, j \in DOMAIN outbound' :
                          /\ i < j /\ outbound'[i].to = c /\ outbound'[j].to = c
                          /\ IsAnswer(outbound'[i].content) /\ IsAnswer(outbound'[j].content)
                          => Precedes(outbound'[i].content, outbound'[j].content)
                     /\ \A i \in DOMAIN delivered'[c], j \in DOMAIN outbound' :
                          /\ outbound'[j].to = c
                          /\ IsAnswer(delivered'[c][i]) /\ IsAnswer(outbound'[j].content)
                          => Precedes(delivered'[c][i], outbound'[j].content)
                     /\ \A i, j \in DOMAIN delivered'[c] :
                          i < j /\ IsAnswer(delivered'[c][i]) /\ IsAnswer(delivered'[c][j])
                          => Precedes(delivered'[c][i], delivered'[c][j])
  BY DEF Typed, AnswersInv, IsAnswer, Precedes
<1>. DEFINE Goal == /\ \A i, j \in DOMAIN outbound' :
                          /\ i < j /\ outbound'[i].to = c /\ outbound'[j].to = c
                          /\ IsAnswer(outbound'[i].content) /\ IsAnswer(outbound'[j].content)
                          => Precedes(outbound'[i].content, outbound'[j].content)
                    /\ \A i \in DOMAIN delivered'[c], j \in DOMAIN outbound' :
                          /\ outbound'[j].to = c
                          /\ IsAnswer(delivered'[c][i]) /\ IsAnswer(outbound'[j].content)
                          => Precedes(delivered'[c][i], outbound'[j].content)
                    /\ \A i, j \in DOMAIN delivered'[c] :
                          i < j /\ IsAnswer(delivered'[c][i]) /\ IsAnswer(delivered'[c][j])
                          => Precedes(delivered'[c][i], delivered'[c][j])
<1>1. /\ DOMAIN outbound = 1 .. Len(outbound) /\ Len(outbound) \in Nat
      /\ DOMAIN delivered[c] = 1 .. Len(delivered[c]) /\ Len(delivered[c]) \in Nat
  BY QueueFields
<1>2. ASSUME UNCHANGED <<outbound, delivered>> PROVE Goal
  BY <1>2 DEF AnswersInv
\* What is put on the queue is behind what is on its way to the same chat.
<1>3. ASSUME NEW d \in Address, NEW x \in Contents, Put(d, x),
             d = c /\ IsAnswer(x) =>
               /\ \A i \in DOMAIN outbound : outbound[i].to = c /\ IsAnswer(outbound[i].content)
                                               => Precedes(outbound[i].content, x)
               /\ \A i \in DOMAIN delivered[c] : IsAnswer(delivered[c][i]) => Precedes(delivered[c][i], x)
      PROVE  Goal
  <2>1. delivered' = delivered
    BY <1>3 DEF Put
  <2>2. ASSUME NEW j \in DOMAIN outbound', outbound'[j].to = c, IsAnswer(outbound'[j].content)
        PROVE  /\ \A i \in DOMAIN outbound' :
                    i < j /\ outbound'[i].to = c /\ IsAnswer(outbound'[i].content)
                      => Precedes(outbound'[i].content, outbound'[j].content)
               /\ \A i \in DOMAIN delivered[c] :
                    IsAnswer(delivered[c][i]) => Precedes(delivered[c][i], outbound'[j].content)
    <3>1. CASE j \in DOMAIN outbound
      <4>1. outbound'[j] = outbound[j]
        BY <1>3, <3>1, PutQueue
      <4>2. \A i \in DOMAIN outbound' : i < j => i \in DOMAIN outbound /\ outbound'[i] = outbound[i]
        BY <1>1, <1>3, <3>1, PutQueue
      <4>3. QED
        BY <2>2, <3>1, <4>1, <4>2 DEF AnswersInv
    <3>2. CASE j = Len(outbound) + 1
      <4>1. outbound'[j].content = x /\ d = c
        BY <1>3, <2>2, <3>2, PutQueue
      <4>2. \A i \in DOMAIN outbound' : i < j => i \in DOMAIN outbound /\ outbound'[i] = outbound[i]
        BY <1>1, <1>3, <3>2, PutQueue
      <4>3. QED
        BY <1>3, <2>2, <4>1, <4>2
    <3>3. QED
      BY <1>3, <2>2, <3>1, <3>2, PutQueue
  <2>3. QED
    BY <2>1, <2>2 DEF AnswersInv
<1>4. ASSUME NEW d \in Address, NEW x \in Contents, Passed(d, x) PROVE Goal
  <2>. HIDE DEF Goal
  <2>1. QED
    BY <1>3, <1>4 DEF Passed
<1>5. ASSUME NEW d \in Address, NEW x \in Contents, Replied(d, x) PROVE Goal
  <2>1. Put(d, x) /\ Busy("loop")
    BY <1>5 DEF Replied
  <2>2. ASSUME d = c
        PROVE  /\ \A i \in DOMAIN outbound : outbound[i].to = c /\ IsAnswer(outbound[i].content)
                                               => Precedes(outbound[i].content, x)
               /\ \A i \in DOMAIN delivered[c] : IsAnswer(delivered[c][i]) => Precedes(delivered[c][i], x)
    <3>1. /\ c = req["loop"].chat /\ x.kind = req["loop"].kind /\ x.n = req["loop"].n
          /\ Unanswered(req["loop"])
      BY <1>5, <2>1, <2>2 DEF Replied, RequestsInv, Answering
    <3>2. /\ \A i \in DOMAIN outbound : outbound[i].to = c /\ IsAnswer(outbound[i].content)
                                          => Precedes(outbound[i].content, req["loop"])
          /\ \A i \in DOMAIN delivered[c] : IsAnswer(delivered[c][i]) => Precedes(delivered[c][i], req["loop"])
      BY <3>1 DEF Unanswered
    <3>3. QED
      BY <3>1, <3>2 DEF Precedes
  <2>. HIDE DEF Goal
  <2>3. QED
    BY <1>3, <2>1, <2>2
<1>6. CASE Dispatch
  <2>1. \A i \in DOMAIN outbound' : i \in Nat \ {0} /\ i + 1 \in DOMAIN outbound /\ outbound'[i] = outbound[i + 1]
    BY <1>6, DispatchQueue
  <2>2. ASSUME NEW i \in DOMAIN outbound', NEW j \in DOMAIN outbound',
               i < j, outbound'[i].to = c, outbound'[j].to = c,
               IsAnswer(outbound'[i].content), IsAnswer(outbound'[j].content)
        PROVE  Precedes(outbound'[i].content, outbound'[j].content)
    BY <2>1, <2>2 DEF AnswersInv
  <2>3. CASE outbound[1].to = c
    <3>1. /\ 1 \in DOMAIN outbound
          /\ DOMAIN delivered'[c] = 1 .. Len(delivered[c]) + 1
          /\ \A i \in DOMAIN delivered[c] : delivered'[c][i] = delivered[c][i]
          /\ delivered'[c][Len(delivered[c]) + 1] = outbound[1].content
      BY <1>6, <2>3, DispatchQueue
    <3>2. ASSUME NEW i \in DOMAIN delivered'[c], NEW j \in DOMAIN outbound',
                 outbound'[j].to = c, IsAnswer(delivered'[c][i]), IsAnswer(outbound'[j].content)
          PROVE  Precedes(delivered'[c][i], outbound'[j].content)
      <4>1. CASE i = Len(delivered[c]) + 1
        <5>1. 1 < j + 1 /\ j + 1 \in DOMAIN outbound /\ outbound'[j] = outbound[j + 1]
          BY <2>1
        <5>2. delivered'[c][i] = outbound[1].content
          BY <3>1, <4>1
        <5>3. QED
          BY <2>3, <3>1, <3>2, <5>1, <5>2 DEF AnswersInv
      <4>2. CASE i # Len(delivered[c]) + 1
        <5>1. i \in DOMAIN delivered[c] /\ delivered'[c][i] = delivered[c][i]
          BY <1>1, <3>1, <4>2
        <5>2. j + 1 \in DOMAIN outbound /\ outbound'[j] = outbound[j + 1]
          BY <2>1
        <5>3. QED
          BY <3>2, <5>1, <5>2 DEF AnswersInv
      <4>3. QED
        BY <4>1, <4>2
    <3>3. ASSUME NEW i \in DOMAIN delivered'[c], NEW j \in DOMAIN delivered'[c], i < j,
                 IsAnswer(delivered'[c][i]), IsAnswer(delivered'[c][j])
          PROVE  Precedes(delivered'[c][i], delivered'[c][j])
      <4>1. i \in DOMAIN delivered[c] /\ delivered'[c][i] = delivered[c][i]
        BY <1>1, <3>1, <3>3
      <4>2. CASE j = Len(delivered[c]) + 1
        <5>1. delivered'[c][j] = outbound[1].content
          BY <3>1, <4>2
        <5>2. QED
          BY <2>3, <3>1, <3>3, <4>1, <5>1 DEF AnswersInv
      <4>3. CASE j # Len(delivered[c]) + 1
        <5>1. j \in DOMAIN delivered[c] /\ delivered'[c][j] = delivered[c][j]
          BY <1>1, <3>1, <4>3
        <5>2. QED
          BY <3>3, <4>1, <5>1 DEF AnswersInv
      <4>4. QED
        BY <4>2, <4>3
    <3>4. QED
      BY <2>2, <3>2, <3>3
  <2>4. CASE outbound[1].to # c
    <3>1. delivered'[c] = delivered[c]
      BY <1>6, <2>4, DispatchQueue
    <3>2. QED
      BY <2>1, <2>2, <3>1 DEF AnswersInv
  <2>5. QED
    BY <2>3, <2>4
<1>7. CASE ConsumeInbound
  BY <1>2, <1>7, ConsumedQueue
<1>8. QED
  BY <1>2, <1>4, <1>5, <1>6, <1>7 DEF Effect, Received, Worked

\* What is ahead stays ahead.
LEMMA AheadStays ==
  ASSUME TypeOK, Keeps, NEW n \in DOMAIN asked, NEW k \in Int, Ahead(n, k),
         delivered' = delivered, \A i \in DOMAIN outbound : i \in DOMAIN outbound' /\ outbound'[i] = outbound[i]
  PROVE  Ahead(n, k)'
<1>1. asked'[n] = asked[n]
  BY DEF Keeps
<1>2. Queued(n, k) => Queued(n, k)'
  BY <1>1 DEF Queued, AnswerTo, IsAnswer
<1>3. Given(n, Len(delivered[asked[n]])) => Given(n, Len(delivered[asked[n]]))'
  BY <1>1 DEF Given, AnswerTo, IsAnswer
<1>4. QED
  BY <1>2, <1>3 DEF Ahead

LEMMA DispatchAhead ==
  ASSUME TypeOK, Dispatch, NEW n \in DOMAIN asked
  PROVE  /\ \A k \in Int : Ahead(n, k) => Ahead(n, k - 1)'
         /\ \A d \in Int : Given(n, d) => Given(n, d)'
<1>. DEFINE c == asked[n]
<1>1. c \in Reached /\ asked' = asked
  BY AskedFields, DispatchQueue
<1>2. /\ 1 \in DOMAIN outbound
      /\ \A i \in DOMAIN outbound' : i \in Nat \ {0} /\ i + 1 \in DOMAIN outbound /\ outbound'[i] = outbound[i + 1]
      /\ \A i \in DOMAIN outbound : i # 1 => i - 1 \in DOMAIN outbound'
      /\ DOMAIN outbound = 1 .. Len(outbound) /\ Len(outbound) \in Nat
  BY DispatchQueue, QueueFields
<1>3. IF outbound[1].to = c
      THEN /\ DOMAIN delivered'[c] = 1 .. Len(delivered[c]) + 1
           /\ Len(delivered'[c]) = Len(delivered[c]) + 1
           /\ \A i \in DOMAIN delivered[c] : i \in DOMAIN delivered'[c] /\ delivered'[c][i] = delivered[c][i]
           /\ delivered'[c][Len(delivered[c]) + 1] = outbound[1].content
      ELSE delivered'[c] = delivered[c]
  BY <1>1, DispatchQueue
<1>4. Len(delivered[c]) \in Nat /\ DOMAIN delivered[c] = 1 .. Len(delivered[c])
  BY <1>1, QueueFields
<1>5. ASSUME NEW d \in Int, Given(n, d) PROVE Given(n, d)'
  <2>1. PICK i \in DOMAIN delivered[c] : i =< d /\ AnswerTo(delivered[c][i], n)
    BY <1>5 DEF Given
  <2>2. i \in DOMAIN delivered'[c] /\ delivered'[c][i] = delivered[c][i]
    BY <1>3, <2>1
  <2>3. QED
    BY <1>1, <2>1, <2>2 DEF Given, AnswerTo, IsAnswer
<1>6. ASSUME NEW k \in Int, Ahead(n, k) PROVE Ahead(n, k - 1)'
  <2>1. CASE Given(n, Len(delivered[c]))
    <3>1. PICK i \in DOMAIN delivered[c] : i =< Len(delivered[c]) /\ AnswerTo(delivered[c][i], n)
      BY <2>1 DEF Given
    <3>2. i \in DOMAIN delivered'[c] /\ delivered'[c][i] = delivered[c][i] /\ i =< Len(delivered'[c])
      BY <1>3, <1>4, <3>1
    <3>3. Given(n, Len(delivered[asked[n]]))'
      BY <1>1, <3>1, <3>2 DEF Given, AnswerTo, IsAnswer
    <3>4. QED
      BY <3>3 DEF Ahead
  <2>2. CASE Queued(n, k)
    <3>1. PICK i \in DOMAIN outbound : i =< k /\ outbound[i].to = c /\ AnswerTo(outbound[i].content, n)
      BY <2>2 DEF Queued
    <3>2. CASE i = 1
      <4>1. Len(delivered[c]) + 1 \in DOMAIN delivered'[c] /\ Len(delivered[c]) + 1 =< Len(delivered'[c])
            /\ AnswerTo(delivered'[c][Len(delivered[c]) + 1], n)
        BY <1>3, <1>4, <3>1, <3>2
      <4>2. Given(n, Len(delivered[asked[n]]))'
        BY <1>1, <4>1 DEF Given, AnswerTo, IsAnswer
      <4>3. QED
        BY <4>2 DEF Ahead
    <3>3. CASE i # 1
      <4>1. i - 1 \in DOMAIN outbound' /\ outbound'[i - 1] = outbound[i] /\ i - 1 =< k - 1
        BY <1>2, <3>1, <3>3
      <4>2. Queued(n, k - 1)'
        BY <1>1, <3>1, <4>1 DEF Queued, AnswerTo, IsAnswer
      <4>3. QED
        BY <4>2 DEF Ahead
    <3>4. QED
      BY <3>2, <3>3
  <2>3. QED
    BY <1>6, <2>1, <2>2 DEF Ahead
<1>7. QED
  BY <1>5, <1>6

LEMMA AheadMono ==
  ASSUME TypeOK, NEW n, NEW k \in Int, NEW m \in Int, k =< m, Ahead(n, k)
  PROVE  Ahead(n, m)
BY QueueFields DEF Ahead, Queued

\* A subagent is the child of one message for ever.
LEMMA SpawnedKept ==
  ASSUME TypeOK, Keeps, ReportInv, NEW t \in DOMAIN tasks, NEW n, SpawnedBy(t, n)'
  PROVE  SpawnedBy(t, n) /\ n \in DOMAIN asked /\ asked[n] \in Reached /\ asked'[n] = asked[n]
<1>1. SpawnedBy(t, n)
  BY DEF Keeps, SpawnedBy
<1>2. n \in DOMAIN asked
  BY <1>1 DEF ReportInv, SpawnedBy
<1>3. QED
  BY <1>1, <1>2, AskedFields DEF Keeps

LEMMA ReportStep == Typed /\ TypeOK' /\ HomeInv /\ ReportInv /\ Keeps /\ Effect => ReportInv'
<1>. SUFFICES ASSUME TypeOK, TypeOK', TurnInv, HomeInv, ReportInv, Keeps, Effect PROVE ReportInv'
  BY DEF Typed
<1>. DEFINE Turned(n) == Busy("loop") /\ req["loop"].kind = "user" /\ req["loop"].n = n
<1>1. /\ DOMAIN outbound = 1 .. Len(outbound) /\ Len(outbound) \in Nat
      /\ \A c \in Reached : DOMAIN delivered[c] = 1 .. Len(delivered[c]) /\ Len(delivered[c]) \in Nat
      /\ \A n \in DOMAIN asked' : asked'[n] \in Reached
  <2>1. asked' \in Seq(Reached)
    BY DEF TypeOK
  <2>2. \A n \in DOMAIN asked' : asked'[n] \in Reached
    BY <2>1, LenProperties, ElementOfSeq
  <2>3. QED
    BY <2>2, QueueFields
\* Every report on its way is one of a subagent that was there before the step.
<1>2. ASSUME NEW x, NEW c, IsAnswer(x), x.kind = "task", AnswerFor(x, c), NEW n, SpawnedBy(x.n, n)'
      PROVE  x.n \in DOMAIN tasks /\ Report(x, n) /\ n \in DOMAIN asked /\ asked[n] \in Reached /\ asked'[n] = asked[n]
  BY <1>2, SpawnedKept DEF AnswerFor, Report
<1>3. ASSUME NEW t \in DOMAIN tasks' PROVE tasks'[t].by.kind = "user" => tasks'[t].by.n \in DOMAIN asked'
  <2>1. CASE t \in DOMAIN tasks
    BY <2>1 DEF ReportInv, Keeps
  <2>2. CASE t \notin DOMAIN tasks
    <3>1. PICK a \in Agents : Busy(a) /\ tasks'[t].by = About("reply", req[a])
      BY <1>3, <2>2, ConsumedQueue, DispatchQueue DEF Effect, Received, Worked, Passed, Replied, Put
    <3>2. req[a] \in Requests
      BY <3>1 DEF TurnInv
    <3>3. tasks'[t].by.kind = req[a].kind /\ tasks'[t].by.n = req[a].n
      BY <3>1, <3>2, AboutTyped
    <3>4. req[a].kind = "user" => a = "loop"
      BY <3>1 DEF TurnInv, Agents
    <3>5. QED
      BY <3>1, <3>3, <3>4 DEF HomeInv, IsRequest, Keeps
  <2>3. QED
    BY <2>1, <2>2
\* A step that leaves the channels alone.
<1>4. ASSUME delivered' = delivered, \A i \in DOMAIN outbound : i \in DOMAIN outbound' /\ outbound'[i] = outbound[i],
             Len(outbound) =< Len(outbound'), Len(outbound') \in Nat,
             NEW n \in DOMAIN asked', NEW t \in DOMAIN tasks', SpawnedBy(t, n)',
             t \in DOMAIN tasks => (Turned(n) => Turned(n)' \/ Ahead(n, Len(outbound))'),
             t \notin DOMAIN tasks => Turned(n)'
      PROVE  Turned(n)' \/ Ahead(n, Len(outbound))'
  <2>1. CASE t \in DOMAIN tasks
    <3>1. SpawnedBy(t, n) /\ n \in DOMAIN asked
      BY <1>4, <2>1, SpawnedKept
    <3>2. CASE Turned(n)
      BY <1>4, <2>1, <3>2
    <3>3. CASE ~Turned(n)
      <4>1. Ahead(n, Len(outbound))
        BY <2>1, <3>1, <3>3 DEF ReportInv
      <4>2. PICK k \in Nat : k = Len(outbound')
        BY <1>4
      <4>3. Ahead(n, k)
        BY <1>1, <1>4, <3>1, <4>1, <4>2, AheadMono
      <4>4. Ahead(n, k)'
        BY <1>4, <3>1, <4>3, AheadStays
      <4>5. QED
        BY <4>2, <4>4 DEF Ahead, Queued
    <3>4. QED
      BY <3>2, <3>3
  <2>2. QED
    BY <1>4, <2>1
<1>5. ASSUME delivered' = delivered, \A i \in DOMAIN outbound : i \in DOMAIN outbound' /\ outbound'[i] = outbound[i],
             NEW n \in DOMAIN asked', NEW j \in DOMAIN outbound, outbound[j].to = asked'[n],
             Report(outbound[j].content, n)'
      PROVE  Ahead(n, j - 1)'
  <2>1. PICK x \in Contents : x = outbound[j].content
    BY QueueFields
  <2>2. outbound'[j] = outbound[j] /\ outbound[j].to \in Reached
    BY <1>1, <1>5
  <2>3. IsAnswer(x) /\ x.kind = "task" /\ SpawnedBy(x.n, n)'
    BY <1>5, <2>1, <2>2 DEF Report, IsAnswer, SpawnedBy
  <2>4. AnswerFor(x, outbound[j].to)
    BY <2>1, <2>2, <2>3 DEF HomeInv
  <2>5. Report(x, n) /\ n \in DOMAIN asked /\ asked'[n] = asked[n]
    BY <1>2, <2>3, <2>4
  <2>6. Ahead(n, j - 1)
    BY <1>5, <2>1, <2>5 DEF ReportInv
  <2>7. j - 1 \in Int
    BY <1>1
  <2>8. QED
    BY <1>5, <2>5, <2>6, <2>7, AheadStays
<1>6. ASSUME delivered' = delivered, NEW n \in DOMAIN asked', NEW j \in DOMAIN delivered[asked'[n]],
             Report(delivered[asked[n]][j], n)'
      PROVE  Given(n, j - 1)'
  <2>. DEFINE c == asked'[n]
  <2>1. c \in Reached
    BY <1>1
  <2>2. PICK x \in Contents : x = delivered[c][j]
    BY <2>1, QueueFields
  <2>3. IsAnswer(x) /\ x.kind = "task" /\ SpawnedBy(x.n, n)'
    BY <1>6, <2>2 DEF Report, IsAnswer, SpawnedBy
  <2>4. AnswerFor(x, c)
    BY <2>1, <2>2, <2>3 DEF HomeInv
  <2>5. Report(x, n) /\ n \in DOMAIN asked /\ c = asked[n]
    BY <1>2, <2>3, <2>4
  <2>6. Given(n, j - 1)
    BY <1>6, <2>2, <2>5 DEF ReportInv
  <2>7. QED
    BY <1>6, <2>5, <2>6 DEF Given, AnswerTo, IsAnswer
\* A step that puts nothing but, it may be, what is no report on the outbound queue.
<1>7. ASSUME delivered' = delivered, outbound' = outbound, SameTurn, DOMAIN tasks' = DOMAIN tasks \/ Worked
      PROVE  ReportInv'
  <2>1. ASSUME NEW n \in DOMAIN asked', NEW t \in DOMAIN tasks', SpawnedBy(t, n)'
        PROVE  Turned(n)' \/ Ahead(n, Len(outbound))'
    <3>1. Turned(n) => Turned(n)'
      BY <1>7 DEF SameTurn
    <3>2. ASSUME t \notin DOMAIN tasks PROVE Turned(n)'
      <4>1. PICK a \in Agents : Busy(a) /\ tasks'[t].by = About("reply", req[a])
        BY <1>7, <2>1, <3>2 DEF Worked
      <4>2. req[a] \in Requests
        BY <4>1 DEF TurnInv
      <4>3. req[a].kind = "user" /\ req[a].n = n
        BY <2>1, <4>1, <4>2, AboutTyped DEF SpawnedBy
      <4>4. a = "loop"
        BY <4>1, <4>3 DEF TurnInv, Agents
      <4>5. QED
        BY <3>1, <4>1, <4>3, <4>4
    <3>3. QED
      BY <1>1, <1>4, <1>7, <2>1, <3>1, <3>2
  <2>2. QED
    BY <1>3, <1>5, <1>6, <1>7, <2>1 DEF ReportInv
<1>8. CASE ConsumeInbound
  <2>1. UNCHANGED <<outbound, delivered, asked, tasks>> /\ ~Busy("loop")
    BY <1>8, ConsumedQueue
  <2>2. ASSUME NEW n \in DOMAIN asked', NEW t \in DOMAIN tasks', SpawnedBy(t, n)'
        PROVE  Turned(n)' \/ Ahead(n, Len(outbound))'
    BY <1>1, <1>4, <2>1, <2>2
  <2>3. QED
    BY <1>3, <1>5, <1>6, <2>1, <2>2 DEF ReportInv
<1>9. ASSUME NEW c \in Address, NEW x \in Contents, Put(c, x),
             (~IsAnswer(x) /\ SameTurn) \/ Replied(c, x)
      PROVE  ReportInv'
  <2>1. /\ UNCHANGED <<delivered, asked, tasks>>
        /\ DOMAIN outbound' = 1 .. Len(outbound) + 1 /\ Len(outbound') = Len(outbound) + 1
        /\ \A i \in DOMAIN outbound : i \in DOMAIN outbound' /\ outbound'[i] = outbound[i]
        /\ outbound'[Len(outbound) + 1].to = c /\ outbound'[Len(outbound) + 1].content = x
    BY <1>9, PutQueue DEF Put
  <2>2. ASSUME NEW n \in DOMAIN asked', Turned(n)
        PROVE  Turned(n)' \/ Ahead(n, Len(outbound))'
    <3>1. CASE SameTurn
      BY <2>2, <3>1 DEF SameTurn
    <3>2. CASE Replied(c, x)
      <4>1. c = req["loop"].chat /\ AnswerTo(x, n)
        BY <2>2, <3>2 DEF Replied
      <4>2. req["loop"].chat = asked[n]
        BY <2>2 DEF HomeInv, IsRequest
      <4>3. Queued(n, Len(outbound))'
        BY <1>1, <2>1, <4>1, <4>2 DEF Queued, AnswerTo, IsAnswer
      <4>4. QED
        BY <4>3 DEF Ahead, Queued
    <3>3. QED
      BY <1>9, <3>1, <3>2
  <2>3. ASSUME NEW n \in DOMAIN asked', NEW t \in DOMAIN tasks', SpawnedBy(t, n)'
        PROVE  Turned(n)' \/ Ahead(n, Len(outbound))'
    BY <1>1, <1>4, <2>1, <2>2, <2>3
  <2>4. ASSUME NEW n \in DOMAIN asked', NEW j \in DOMAIN outbound', outbound'[j].to = asked'[n],
               Report(outbound[j].content, n)'
        PROVE  Ahead(n, j - 1)'
    <3>1. CASE j \in DOMAIN outbound
      <4>1. outbound[j].to = asked'[n]
        BY <2>1, <2>4, <3>1
      <4>2. PICK y \in Contents : y = outbound[j].content
        BY <3>1, QueueFields
      <4>3. Report(y, n)'
        BY <2>1, <2>4, <3>1, <4>2 DEF Report, IsAnswer, SpawnedBy
      <4>4. QED
        BY <1>5, <2>1, <2>4, <3>1, <4>1
    <3>2. CASE j = Len(outbound) + 1
      <4>1. IsAnswer(x) /\ x.kind = "task" /\ SpawnedBy(x.n, n)' /\ c = asked'[n]
        BY <2>1, <2>4, <3>2 DEF Report, IsAnswer, SpawnedBy
      <4>2. Replied(c, x) /\ c \in Reached
        BY <1>1, <1>9, <4>1
      <4>3. Busy("loop") /\ x.kind = req["loop"].kind /\ x.n = req["loop"].n
        BY <4>2 DEF Replied
      <4>4. x.n \in DOMAIN tasks
        BY <4>1, <4>3 DEF HomeInv, IsRequest
      <4>5. SpawnedBy(x.n, n) /\ n \in DOMAIN asked
        BY <4>1, <4>4, SpawnedKept
      <4>6. Ahead(n, Len(outbound))
        BY <4>1, <4>3, <4>4, <4>5 DEF ReportInv
      <4>7. PICK k \in Nat : k = Len(outbound)
        BY <1>1
      <4>8. Ahead(n, k)
        BY <4>6, <4>7
      <4>9. Ahead(n, k)'
        BY <2>1, <4>5, <4>8, AheadStays
      <4>10. j - 1 = k
        BY <3>2, <4>7
      <4>11. QED
        BY <4>9, <4>10
    <3>3. QED
      BY <1>1, <2>1, <2>4, <3>1, <3>2
  <2>5. QED
    BY <1>3, <1>6, <2>1, <2>3, <2>4 DEF ReportInv
<1>10. CASE Dispatch
  <2>1. /\ UNCHANGED <<pc, req, asked, tasks>>
        /\ 1 \in DOMAIN outbound /\ Len(outbound') = Len(outbound) - 1
        /\ \A i \in DOMAIN outbound' : i \in Nat \ {0} /\ i + 1 \in DOMAIN outbound /\ outbound'[i] = outbound[i + 1]
    BY <1>10, DispatchQueue
  <2>2. ASSUME NEW n \in DOMAIN asked', NEW t \in DOMAIN tasks', SpawnedBy(t, n)'
        PROVE  Turned(n)' \/ Ahead(n, Len(outbound))'
    <3>1. n \in DOMAIN asked /\ SpawnedBy(t, n)
      BY <2>1, <2>2 DEF SpawnedBy
    <3>2. CASE Turned(n)
      BY <2>1, <3>2 DEF Busy
    <3>3. CASE ~Turned(n)
      <4>1. PICK k \in Nat : k = Len(outbound)
        BY <1>1
      <4>2. Ahead(n, k)
        BY <2>1, <3>1, <3>3, <4>1 DEF ReportInv
      <4>3. Ahead(n, k - 1)'
        BY <1>10, <3>1, <4>2, DispatchAhead
      <4>4. Len(outbound') = k - 1
        BY <2>1, <4>1
      <4>5. QED
        BY <4>3, <4>4 DEF Ahead, Queued
    <3>4. QED
      BY <3>2, <3>3
  <2>3. ASSUME NEW n \in DOMAIN asked', NEW j \in DOMAIN outbound', outbound'[j].to = asked'[n],
               Report(outbound[j].content, n)'
        PROVE  Ahead(n, j - 1)'
    <3>1. n \in DOMAIN asked /\ j + 1 \in DOMAIN outbound /\ outbound[j + 1].to = asked[n]
      BY <2>1, <2>3
    <3>2. Report(outbound[j + 1].content, n)
      BY <2>1, <2>3 DEF Report, IsAnswer, SpawnedBy
    <3>3. j \in Nat
      BY <2>1
    <3>4. Ahead(n, (j + 1) - 1)
      BY <3>1, <3>2 DEF ReportInv
    <3>5. Ahead(n, j)
      BY <3>3, <3>4
    <3>6. QED
      BY <1>10, <3>1, <3>3, <3>5, DispatchAhead
  <2>4. ASSUME NEW n \in DOMAIN asked', NEW j \in DOMAIN delivered'[asked'[n]],
               Report(delivered[asked[n]][j], n)'
        PROVE  Given(n, j - 1)'
    <3>. DEFINE c == asked[n]
    <3>1. n \in DOMAIN asked /\ c = asked'[n] /\ c \in Reached
      BY <1>1, <2>1
    <3>2. DOMAIN delivered[c] = 1 .. Len(delivered[c]) /\ Len(delivered[c]) \in Nat
      BY <1>1, <3>1
    <3>3. CASE j \in DOMAIN delivered[c] /\ delivered'[c][j] = delivered[c][j]
      <4>1. Report(delivered[c][j], n)
        BY <2>1, <2>4, <3>1, <3>3 DEF Report, IsAnswer, SpawnedBy
      <4>2. Given(n, j - 1)
        BY <3>1, <3>3, <4>1 DEF ReportInv
      <4>3. j - 1 \in Int
        BY <3>2, <3>3
      <4>4. QED
        BY <1>10, <3>1, <4>2, <4>3, DispatchAhead
    <3>4. CASE outbound[1].to = c /\ j = Len(delivered[c]) + 1 /\ delivered'[c][j] = outbound[1].content
      <4>1. Report(outbound[1].content, n)
        BY <2>1, <2>4, <3>1, <3>4 DEF Report, IsAnswer, SpawnedBy
      <4>2. Ahead(n, 1 - 1)
        BY <2>1, <3>1, <3>4, <4>1 DEF ReportInv
      <4>3. ~Queued(n, 1 - 1)
        BY <1>1 DEF Queued
      <4>4. Given(n, Len(delivered[c]))
        BY <4>2, <4>3 DEF Ahead
      <4>5. PICK k \in Int : k = Len(delivered[c])
        BY <3>2
      <4>6. Given(n, k)'
        BY <1>10, <3>1, <4>4, <4>5, DispatchAhead
      <4>7. j - 1 = k
        BY <3>2, <3>4, <4>5
      <4>8. QED
        BY <4>6, <4>7
    <3>5. QED
      <4>1. IF outbound[1].to = c
            THEN /\ DOMAIN delivered'[c] = 1 .. Len(delivered[c]) + 1
                 /\ \A i \in DOMAIN delivered[c] : i \in DOMAIN delivered'[c] /\ delivered'[c][i] = delivered[c][i]
                 /\ delivered'[c][Len(delivered[c]) + 1] = outbound[1].content
            ELSE delivered'[c] = delivered[c]
        BY <1>10, <3>1, DispatchQueue
      <4>2. j \in DOMAIN delivered'[c]
        BY <2>4, <3>1
      <4>3. CASE outbound[1].to # c
        BY <3>3, <4>1, <4>2, <4>3
      <4>4. CASE outbound[1].to = c
        <5>1. j \in 1 .. Len(delivered[c]) + 1
          BY <4>1, <4>2, <4>4
        <5>2. j \in DOMAIN delivered[c] \/ j = Len(delivered[c]) + 1
          BY <3>2, <5>1
        <5>3. CASE j \in DOMAIN delivered[c]
          BY <3>3, <4>1, <4>4, <5>3
        <5>4. CASE j = Len(delivered[c]) + 1
          BY <3>4, <4>1, <4>4, <5>4
        <5>5. QED
          BY <5>2, <5>3, <5>4
      <4>5. QED
        BY <4>3, <4>4
  <2>5. QED
    BY <1>3, <2>2, <2>3, <2>4 DEF ReportInv
<1>11. QED
  <2>1. ASSUME NEW r \in Requests, Received(r) PROVE ReportInv'
    BY <1>7, <2>1 DEF Received
  <2>2. CASE Worked
    BY <1>7, <2>2 DEF Worked
  <2>3. ASSUME NEW c \in Address, NEW x \in Contents, Passed(c, x) \/ Replied(c, x) PROVE ReportInv'
    BY <1>9, <2>3 DEF Passed, Replied
  <2>4. QED
    BY <1>8, <1>10, <2>1, <2>2, <2>3 DEF Effect

-----------------------------------------------------------------------------
(* The invariant holds.                                                    *)

LEMMA InitInv == Init => IInv
<1>. SUFFICES ASSUME Init PROVE IInv
  OBVIOUS
<1>1. /\ DOMAIN inbound = {} /\ DOMAIN outbound = {} /\ DOMAIN tasks = {} /\ DOMAIN asked = {}
      /\ ~Busy("loop") /\ \A c \in Reached : DOMAIN delivered[c] = {}
  <2>1. inbound = <<>> /\ outbound = <<>> /\ tasks = <<>> /\ asked = <<>>
    BY DEF Init
  <2>2. ~Busy("loop") /\ \A c \in Reached : delivered[c] = <<>>
    BY DEF Init, Busy, Agents
  <2>3. QED
    BY <2>1, <2>2
<1>2. QED
  BY <1>1, TypeInit DEF IInv, HomeInv, RequestsInv, AnswersInv, ReportInv

LEMMA StepInv == IInv /\ [Next]_vars => IInv'
<1>. SUFFICES ASSUME IInv, [Next]_vars PROVE IInv'
  OBVIOUS
<1>1. Typed /\ TypeInv'
  BY TypeStep, TurnStep, SpawnStep DEF IInv, TypeInv, Typed
<1>2. Keeps /\ Effect
  BY KeepsStep, Effects DEF IInv, TypeInv
<1>3. QED
  BY <1>1, <1>2, HomeStep, RequestsStep, AnswersStep, ReportStep DEF IInv, TypeInv

LEMMA InvHolds == Spec => []IInv
BY InitInv, StepInv, PTL DEF Spec

-----------------------------------------------------------------------------
(* What goes to the chats, in the order of all of them.                    *)

\* All messages before n are answered, by the first k letters at the latest.
Past(n, k) == \A m \in 1 .. n - 1 : Ahead(m, k)

\* No answer to the request of r was delivered or is among the first k letters.
Same(x, r) == x.kind = r.kind /\ x.n = r.n
Fresh(r, k) ==
  /\ \A i \in DOMAIN outbound :
       i =< k /\ outbound[i].to \in Reached /\ IsAnswer(outbound[i].content) => ~Same(outbound[i].content, r)
  /\ \A c \in Reached : \A i \in DOMAIN delivered[c] : IsAnswer(delivered[c][i]) => ~Same(delivered[c][i], r)

\* x may be said behind the first k letters.
Speaks(x, k) ==
  /\ x.kind = "user" => x.n \in DOMAIN asked /\ Past(x.n, k)
  /\ x.kind = "task" => /\ x.n \in DOMAIN tasks /\ x.what # "error"
                        /\ \A n \in DOMAIN asked : SpawnedBy(x.n, n) => Ahead(n, k)
  /\ x.kind # "job" => x.what # "text" /\ Fresh(x, k)

SpeakInv ==
  /\ \A j \in DOMAIN outbound : outbound[j].to \in Reached => Speaks(outbound[j].content, j - 1)
  /\ Busy("loop") /\ req["loop"].kind = "user" => Past(req["loop"].n, Len(outbound))

\* No message is lost: it waits, has its turn, or its answer is on its way or there.
InLoop(n) == Busy("loop") /\ req["loop"].kind = "user" /\ req["loop"].n = n
CompleteInv ==
  \A n \in DOMAIN asked :
    \/ \E i \in DOMAIN inbound : inbound[i].kind = "user" /\ inbound[i].n = n
    \/ InLoop(n)
    \/ Ahead(n, Len(outbound))

LEMMA FreshRequest ==
  ASSUME TypeOK, HomeInv, NEW r, IsRequest(r), Unanswered(r), NEW k
  PROVE  Fresh(r, k)
<1>1. \A x : \A c \in Reached : IsAnswer(x) /\ AnswerFor(x, c) /\ Same(x, r) => c = r.chat /\ ~Precedes(x, r)
  BY AskedFields DEF AnswerFor, Same, IsRequest, Precedes
<1>2. ASSUME NEW i \in DOMAIN outbound, outbound[i].to \in Reached, IsAnswer(outbound[i].content)
      PROVE  ~Same(outbound[i].content, r)
  BY <1>1, <1>2 DEF HomeInv, Unanswered
<1>3. ASSUME NEW c \in Reached, NEW i \in DOMAIN delivered[c], IsAnswer(delivered[c][i])
      PROVE  ~Same(delivered[c][i], r)
  BY <1>1, <1>3 DEF HomeInv, Unanswered
<1>4. QED
  BY <1>2, <1>3 DEF Fresh

\* What may be said stays so when only letters behind it are put on the queue ...
LEMMA SpeaksStays ==
  ASSUME TypeOK, Keeps, ReportInv, NEW x, NEW k \in Int, Speaks(x, k), delivered' = delivered,
         \A i \in DOMAIN outbound : i \in DOMAIN outbound' /\ outbound'[i] = outbound[i],
         \A i \in DOMAIN outbound' : i =< k => i \in DOMAIN outbound
  PROVE  Speaks(x, k)'
<1>1. ASSUME x.kind = "user" PROVE x.n \in DOMAIN asked' /\ Past(x.n, k)'
  <2>1. x.n \in DOMAIN asked /\ DOMAIN asked = 1 .. Len(asked) /\ Len(asked) \in Nat
    BY <1>1, AskedFields DEF Speaks
  <2>2. ASSUME NEW m \in 1 .. x.n - 1 PROVE Ahead(m, k)'
    <3>1. m \in DOMAIN asked
      BY <2>1
    <3>2. Ahead(m, k)
      BY <1>1 DEF Speaks, Past
    <3>3. QED
      BY <3>1, <3>2, AheadStays
  <2>3. QED
    BY <2>1, <2>2 DEF Keeps, Past
<1>2. ASSUME x.kind = "task"
      PROVE  /\ x.n \in DOMAIN tasks' /\ x.what # "error"
             /\ \A n \in DOMAIN asked' : SpawnedBy(x.n, n)' => Ahead(n, k)'
  <2>1. x.n \in DOMAIN tasks /\ x.what # "error"
    BY <1>2 DEF Speaks
  <2>2. ASSUME NEW n \in DOMAIN asked', SpawnedBy(x.n, n)' PROVE Ahead(n, k)'
    <3>1. SpawnedBy(x.n, n) /\ n \in DOMAIN asked
      BY <2>1, <2>2, SpawnedKept
    <3>2. Ahead(n, k)
      BY <1>2, <3>1 DEF Speaks
    <3>3. QED
      BY <3>1, <3>2, AheadStays
  <2>3. QED
    BY <2>1, <2>2 DEF Keeps
<1>3. ASSUME x.kind # "job" PROVE x.what # "text" /\ Fresh(x, k)'
  BY <1>3 DEF Speaks, Fresh, Same, IsAnswer
<1>4. QED
  BY <1>1, <1>2, <1>3 DEF Speaks

\* ... and when the first letter is delivered.
LEMMA DispatchSpeaks ==
  ASSUME TypeOK, Keeps, ReportInv, Dispatch, NEW x, NEW k \in Nat \ {0}, Speaks(x, k)
  PROVE  Speaks(x, k - 1)'
<1>1. ASSUME x.kind = "user" PROVE x.n \in DOMAIN asked' /\ Past(x.n, k - 1)'
  <2>1. x.n \in DOMAIN asked /\ DOMAIN asked = 1 .. Len(asked) /\ Len(asked) \in Nat
    BY <1>1, AskedFields DEF Speaks
  <2>2. ASSUME NEW m \in 1 .. x.n - 1 PROVE Ahead(m, k - 1)'
    <3>1. m \in DOMAIN asked
      BY <2>1
    <3>2. Ahead(m, k)
      BY <1>1 DEF Speaks, Past
    <3>3. QED
      BY <3>1, <3>2, DispatchAhead
  <2>3. QED
    BY <2>1, <2>2 DEF Keeps, Past
<1>2. ASSUME x.kind = "task"
      PROVE  /\ x.n \in DOMAIN tasks' /\ x.what # "error"
             /\ \A n \in DOMAIN asked' : SpawnedBy(x.n, n)' => Ahead(n, k - 1)'
  <2>1. x.n \in DOMAIN tasks /\ x.what # "error"
    BY <1>2 DEF Speaks
  <2>2. ASSUME NEW n \in DOMAIN asked', SpawnedBy(x.n, n)' PROVE Ahead(n, k - 1)'
    <3>1. SpawnedBy(x.n, n) /\ n \in DOMAIN asked
      BY <2>1, <2>2, SpawnedKept
    <3>2. Ahead(n, k)
      BY <1>2, <3>1 DEF Speaks
    <3>3. QED
      BY <3>1, <3>2, DispatchAhead
  <2>3. QED
    BY <2>1, <2>2 DEF Keeps
<1>3. ASSUME x.kind # "job" PROVE x.what # "text" /\ Fresh(x, k - 1)'
  <2>1. Fresh(x, k) /\ x.what # "text"
    BY <1>3 DEF Speaks
  <2>2. ASSUME NEW i \in DOMAIN outbound', i =< k - 1, outbound'[i].to \in Reached,
               IsAnswer(outbound'[i].content)
        PROVE  ~Same(outbound'[i].content, x)
    <3>1. i + 1 \in DOMAIN outbound /\ outbound'[i] = outbound[i + 1] /\ i + 1 =< k
      BY <2>2, DispatchQueue
    <3>2. QED
      BY <2>1, <2>2, <3>1 DEF Fresh
  <2>3. ASSUME NEW c \in Reached, NEW i \in DOMAIN delivered'[c], IsAnswer(delivered'[c][i])
        PROVE  ~Same(delivered'[c][i], x)
    <3>1. \/ i \in DOMAIN delivered[c] /\ delivered'[c][i] = delivered[c][i]
          \/ outbound[1].to = c /\ delivered'[c][i] = outbound[1].content
      <4>1. DOMAIN delivered[c] = 1 .. Len(delivered[c]) /\ Len(delivered[c]) \in Nat
        BY QueueFields
      <4>2. QED
        BY <2>3, <4>1, DispatchQueue
    <3>2. 1 \in DOMAIN outbound /\ 1 =< k
      BY DispatchQueue
    <3>3. QED
      BY <2>1, <2>3, <3>1, <3>2 DEF Fresh
  <2>4. QED
    BY <2>1, <2>2, <2>3 DEF Fresh, Same, IsAnswer
<1>4. QED
  BY <1>1, <1>2, <1>3 DEF Speaks

\* The loop may speak of the request of its turn.
LEMMA LoopSpeaks ==
  ASSUME IInv, SpeakInv, Busy("loop"), NEW x, Same(x, req["loop"]),
         x.kind = "user" \/ ~Answering, x.what # "text", x.kind = "task" => x.what # "error"
  PROVE  Speaks(x, Len(outbound))
<1>. DEFINE r == req["loop"]
<1>1. IsRequest(r) /\ Unanswered(r)
  BY DEF IInv, HomeInv, RequestsInv, Same, Answering
<1>2. Fresh(r, Len(outbound))
  BY <1>1, FreshRequest DEF IInv, TypeInv
<1>3. Fresh(x, Len(outbound))
  BY <1>2 DEF Fresh, Same
<1>4. x.kind = "user" => x.n \in DOMAIN asked /\ Past(x.n, Len(outbound))
  BY <1>1 DEF IsRequest, Same, SpeakInv
<1>5. ASSUME x.kind = "task"
      PROVE  x.n \in DOMAIN tasks /\ \A n \in DOMAIN asked : SpawnedBy(x.n, n) => Ahead(n, Len(outbound))
  BY <1>1, <1>5 DEF IsRequest, Same, IInv, ReportInv
<1>6. QED
  BY <1>3, <1>4, <1>5 DEF Speaks

\* Answers that are ahead of a message that came stay ahead.
LEMMA PastStays ==
  ASSUME TypeOK, TypeOK', Keeps, NEW n \in DOMAIN asked, Past(n, Len(outbound)), delivered' = delivered,
         Len(outbound) =< Len(outbound'),
         \A i \in DOMAIN outbound : i \in DOMAIN outbound' /\ outbound'[i] = outbound[i]
  PROVE  Past(n, Len(outbound))'
<1>1. DOMAIN asked = 1 .. Len(asked) /\ Len(asked) \in Nat /\ Len(outbound) \in Nat
  BY AskedFields, QueueFields
<1>2. PICK k \in Nat : k = Len(outbound')
  <2>1. outbound' \in Seq(Letter)
    BY DEF TypeOK, Letter
  <2>2. QED
    BY <2>1, LenProperties
<1>3. ASSUME NEW m \in 1 .. n - 1 PROVE Ahead(m, k)'
  <2>1. m \in DOMAIN asked
    BY <1>1
  <2>2. Ahead(m, k)
    BY <1>1, <1>2, AheadMono DEF Past
  <2>3. QED
    BY <2>1, <2>2, AheadStays
<1>4. QED
  BY <1>2, <1>3 DEF Past

LEMMA SpeakStep == IInv /\ SpeakInv /\ CompleteInv /\ TypeOK' /\ Keeps /\ Effect => SpeakInv'
<1>. SUFFICES ASSUME IInv, SpeakInv, CompleteInv, TypeOK', Keeps, Effect PROVE SpeakInv'
  OBVIOUS
<1>. DEFINE Said(j) == outbound[j].to \in Reached => Speaks(outbound[j].content, j - 1)
            Turn1 == Busy("loop") /\ req["loop"].kind = "user" => Past(req["loop"].n, Len(outbound))
<1>1. TypeOK /\ TurnInv /\ HomeInv /\ RequestsInv /\ ReportInv
  BY DEF IInv, TypeInv
<1>2. DOMAIN outbound = 1 .. Len(outbound) /\ Len(outbound) \in Nat
  BY <1>1, QueueFields
\* The turn of the loop goes on.
<1>3. ASSUME Busy("loop"), req'["loop"] = req["loop"], delivered' = delivered, Len(outbound) =< Len(outbound'),
             \A i \in DOMAIN outbound : i \in DOMAIN outbound' /\ outbound'[i] = outbound[i]
      PROVE  Turn1'
  <2>1. CASE req["loop"].kind = "user"
    <3>1. req["loop"].n \in DOMAIN asked /\ Past(req["loop"].n, Len(outbound))
      BY <1>1, <1>3, <2>1 DEF HomeInv, IsRequest, SpeakInv
    <3>2. PICK n \in DOMAIN asked : n = req["loop"].n
      BY <3>1
    <3>3. Past(n, Len(outbound))'
      BY <1>1, <1>3, <3>1, <3>2, PastStays
    <3>4. QED
      BY <1>3, <3>2, <3>3 DEF Past
  <2>2. CASE req["loop"].kind # "user"
    BY <1>3, <2>2
  <2>3. QED
    BY <2>1, <2>2
\* Nothing is put on the outbound queue.
<1>4. ASSUME UNCHANGED <<outbound, delivered>> PROVE \A j \in DOMAIN outbound' : Said(j)'
  <2>1. ASSUME NEW j \in DOMAIN outbound', outbound'[j].to \in Reached
        PROVE  Speaks(outbound[j].content, j - 1)'
    <3>1. PICK x \in Contents : x = outbound[j].content /\ outbound'[j].content = x
      BY <1>1, <1>4, <2>1, QueueFields
    <3>2. PICK k \in Int : k = j - 1
      BY <1>2, <1>4
    <3>3. Speaks(x, k)
      BY <1>4, <2>1, <3>1, <3>2 DEF SpeakInv
    <3>4. Speaks(x, k)'
      BY <1>1, <1>2, <1>4, <3>3, SpeaksStays
    <3>5. QED
      BY <3>1, <3>2, <3>4
  <2>2. QED
    BY <2>1
<1>5. ASSUME NEW c \in Address, NEW x \in Contents, Put(c, x), c \in Reached => Speaks(x, Len(outbound))
      PROVE  (\A j \in DOMAIN outbound' : Said(j)') /\ Len(outbound) =< Len(outbound')
             /\ \A i \in DOMAIN outbound : i \in DOMAIN outbound' /\ outbound'[i] = outbound[i]
  <2>1. /\ DOMAIN outbound' = 1 .. Len(outbound) + 1 /\ Len(outbound') = Len(outbound) + 1
        /\ \A i \in DOMAIN outbound : i \in DOMAIN outbound' /\ outbound'[i] = outbound[i]
        /\ outbound'[Len(outbound) + 1].to = c /\ outbound'[Len(outbound) + 1].content = x
    BY <1>1, <1>5, PutQueue
  <2>2. delivered' = delivered
    BY <1>5 DEF Put
  <2>3. ASSUME NEW y, NEW k \in Int, k =< Len(outbound), Speaks(y, k) PROVE Speaks(y, k)'
    BY <1>1, <1>2, <2>1, <2>2, <2>3, SpeaksStays
  <2>4. ASSUME NEW j \in DOMAIN outbound', outbound'[j].to \in Reached
        PROVE  Speaks(outbound[j].content, j - 1)'
    <3>1. PICK k \in Int : k = j - 1 /\ k =< Len(outbound)
      BY <1>2, <2>1
    <3>2. PICK y \in Contents : y = outbound'[j].content /\ Speaks(y, k)
      <4>1. CASE j \in DOMAIN outbound
        BY <1>1, <2>1, <2>4, <3>1, <4>1, QueueFields DEF SpeakInv
      <4>2. CASE j \notin DOMAIN outbound
        <5>1. j = Len(outbound) + 1 /\ k = Len(outbound)
          BY <1>2, <2>1, <3>1, <4>2
        <5>2. QED
          BY <1>5, <2>1, <2>4, <5>1
      <4>3. QED
        BY <4>1, <4>2
    <3>3. Speaks(y, k)'
      BY <2>3, <3>1, <3>2
    <3>4. QED
      BY <3>1, <3>2, <3>3
  <2>5. QED
    BY <1>2, <2>1, <2>4
<1>6. ASSUME NEW c \in Address, NEW x \in Contents, Passed(c, x) PROVE SpeakInv'
  <2>1. Speaks(x, Len(outbound))
    <3>1. CASE x.kind = "job"
      BY <3>1 DEF Speaks
    <3>2. CASE Busy("loop") /\ ~Answering /\ x.kind = req["loop"].kind /\ x.n = req["loop"].n /\ x.what = "tool"
      BY <3>2, LoopSpeaks DEF Same
    <3>3. QED
      BY <1>6, <3>1, <3>2 DEF Passed
  <2>2. Put(c, x) /\ SameTurn
    BY <1>6 DEF Passed
  <2>3. (\A j \in DOMAIN outbound' : Said(j)') /\ Len(outbound) =< Len(outbound')
        /\ \A i \in DOMAIN outbound : i \in DOMAIN outbound' /\ outbound'[i] = outbound[i]
    BY <1>5, <2>1, <2>2
  <2>4. Turn1'
    <3>1. CASE Busy("loop")
      BY <1>3, <2>2, <2>3, <3>1 DEF SameTurn, Put
    <3>2. CASE ~Busy("loop")
      BY <2>2, <3>2 DEF SameTurn
    <3>3. QED
      BY <3>1, <3>2
  <2>5. QED
    BY <2>3, <2>4 DEF SpeakInv
<1>7. ASSUME NEW c \in Address, NEW x \in Contents, Replied(c, x) PROVE SpeakInv'
  <2>1. c \in Reached => Speaks(x, Len(outbound))
    <3>1. SUFFICES ASSUME c \in Reached PROVE Speaks(x, Len(outbound))
      OBVIOUS
    <3>2. Busy("loop") /\ Same(x, req["loop"]) /\ (x.kind = "user" \/ ~Answering)
      BY <1>7, <3>1 DEF Replied, Same
    <3>3. x.what # "text" /\ (x.kind = "task" => x.what # "error")
      BY <1>7, <3>1 DEF Replied, IsAnswer
    <3>4. QED
      BY <3>2, <3>3, LoopSpeaks
  <2>2. Put(c, x) /\ Busy("loop") /\ (Busy("loop")' => req'["loop"] = req["loop"])
    BY <1>7 DEF Replied
  <2>3. (\A j \in DOMAIN outbound' : Said(j)') /\ Len(outbound) =< Len(outbound')
        /\ \A i \in DOMAIN outbound : i \in DOMAIN outbound' /\ outbound'[i] = outbound[i]
    BY <1>5, <2>1, <2>2
  <2>4. Turn1'
    <3>1. CASE Busy("loop")'
      BY <1>3, <2>2, <2>3, <3>1 DEF Put
    <3>2. CASE ~Busy("loop")'
      BY <3>2
    <3>3. QED
      BY <3>1, <3>2
  <2>5. QED
    BY <2>3, <2>4 DEF SpeakInv
<1>8. CASE Dispatch
  <2>1. ASSUME NEW j \in DOMAIN outbound', outbound'[j].to \in Reached
        PROVE  Speaks(outbound[j].content, j - 1)'
    <3>1. j \in Nat \ {0} /\ j + 1 \in DOMAIN outbound /\ outbound'[j] = outbound[j + 1]
      BY <1>1, <1>8, DispatchQueue
    <3>2. PICK x \in Contents : x = outbound'[j].content
      BY <1>1, <3>1, QueueFields
    <3>3. Speaks(x, j)
      <4>1. (j + 1) - 1 = j
        BY <3>1
      <4>2. QED
        BY <2>1, <3>1, <3>2, <4>1 DEF SpeakInv
    <3>4. Speaks(x, j - 1)'
      BY <1>1, <1>8, <3>1, <3>3, DispatchSpeaks
    <3>5. QED
      BY <3>2, <3>4
  <2>2. Turn1'
    <3>1. UNCHANGED <<pc, req, asked>> /\ Len(outbound') = Len(outbound) - 1
      BY <1>1, <1>8, DispatchQueue
    <3>2. ASSUME Busy("loop"), req["loop"].kind = "user", NEW m \in 1 .. req["loop"].n - 1
          PROVE  Ahead(m, Len(outbound))'
      <4>1. req["loop"].n \in DOMAIN asked
        BY <1>1, <3>2 DEF HomeInv, IsRequest
      <4>2. m \in DOMAIN asked
        BY <1>1, <4>1, AskedFields
      <4>3. Ahead(m, Len(outbound))
        BY <3>2 DEF SpeakInv, Past
      <4>4. PICK k \in Nat : k = Len(outbound)
        BY <1>2
      <4>5. Ahead(m, k - 1)'
        BY <1>1, <1>8, <4>2, <4>3, <4>4, DispatchAhead
      <4>6. PICK l \in Int : l = k - 1
        BY <4>4
      <4>7. Ahead(m, l)'
        BY <4>5, <4>6
      <4>8. l = Len(outbound')
        BY <3>1, <4>4, <4>6
      <4>9. QED
        BY <4>7, <4>8
    <3>3. QED
      BY <3>1, <3>2 DEF Busy, Past
  <2>3. QED
    BY <2>1, <2>2 DEF SpeakInv
<1>9. ASSUME NEW r \in Requests, Received(r) PROVE SpeakInv'
  <2>1. \A j \in DOMAIN outbound' : Said(j)'
    BY <1>4, <1>9 DEF Received
  <2>2. Turn1'
    <3>1. CASE Busy("loop")
      BY <1>2, <1>3, <1>9, <3>1 DEF Received, SameTurn
    <3>2. CASE ~Busy("loop")
      BY <1>9, <3>2 DEF Received, SameTurn
    <3>3. QED
      BY <3>1, <3>2
  <2>3. QED
    BY <2>1, <2>2 DEF SpeakInv
<1>10. CASE Worked
  <2>1. \A j \in DOMAIN outbound' : Said(j)'
    BY <1>4, <1>10 DEF Worked
  <2>2. Turn1'
    <3>1. CASE Busy("loop")
      BY <1>2, <1>3, <1>10, <3>1 DEF Worked, SameTurn
    <3>2. CASE ~Busy("loop")
      BY <1>10, <3>2 DEF Worked, SameTurn
    <3>3. QED
      BY <3>1, <3>2
  <2>3. QED
    BY <2>1, <2>2 DEF SpeakInv
\* A turn begins: the messages before that of the turn are no longer in the queue.
<1>11. CASE ConsumeInbound
  <2>1. \A j \in DOMAIN outbound' : Said(j)'
    BY <1>1, <1>4, <1>11, ConsumedQueue
  <2>2. /\ 1 \in DOMAIN inbound /\ req'["loop"] = inbound[1] /\ ~Busy("loop") /\ outbound' = outbound
        /\ delivered' = delivered /\ DOMAIN inbound = 1 .. Len(inbound) /\ Len(inbound) \in Nat
    BY <1>1, <1>11, ConsumedQueue, QueueFields
  <2>3. ASSUME inbound[1].kind = "user" PROVE \E n \in DOMAIN asked : n = inbound[1].n /\ Past(n, Len(outbound))'
    <3>1. inbound[1].n \in DOMAIN asked /\ DOMAIN asked = 1 .. Len(asked) /\ Len(asked) \in Nat
      BY <1>1, <2>2, <2>3, AskedFields DEF HomeInv, IsRequest
    <3>2. PICK n \in DOMAIN asked : n = inbound[1].n
      BY <3>1
    <3>3. ASSUME NEW m \in 1 .. n - 1 PROVE Ahead(m, Len(outbound))
      <4>1. m \in DOMAIN asked /\ m < n
        BY <3>1
      <4>2. ~InLoop(m)
        BY <2>2 DEF InLoop
      <4>3. ASSUME NEW i \in DOMAIN inbound, inbound[i].kind = "user", inbound[i].n = m PROVE FALSE
        <5>1. i # 1
          BY <3>2, <4>1, <4>3
        <5>2. 1 < i
          BY <2>2, <5>1
        <5>3. Precedes(inbound[1], inbound[i])
          BY <1>1, <2>2, <5>2 DEF RequestsInv
        <5>4. n < m
          BY <2>3, <3>2, <4>3, <5>3 DEF Precedes
        <5>5. QED
          BY <3>1, <4>1, <5>4
      <4>4. QED
        BY <4>1, <4>2, <4>3 DEF CompleteInv
    <3>4. Past(n, Len(outbound))
      BY <3>3 DEF Past
    <3>5. Past(n, Len(outbound))'
      BY <1>1, <1>2, <2>2, <3>4, PastStays
    <3>6. QED
      BY <3>2, <3>5
  <2>4. ASSUME req'["loop"].kind = "user" PROVE Past(req["loop"].n, Len(outbound))'
    <3>1. PICK n \in DOMAIN asked : n = inbound[1].n /\ Past(n, Len(outbound))'
      BY <2>2, <2>3, <2>4
    <3>2. n = req'["loop"].n
      BY <2>2, <3>1
    <3>3. QED
      BY <3>1, <3>2 DEF Past
  <2>5. QED
    BY <2>1, <2>4 DEF SpeakInv
<1>12. QED
  BY <1>6, <1>7, <1>8, <1>9, <1>10, <1>11 DEF Effect

\* The queue behind its first request.
LEMMA ConsumedRest ==
  ASSUME TypeOK, TurnInv, ConsumeInbound, NEW i \in DOMAIN inbound, i # 1
  PROVE  i - 1 \in DOMAIN inbound' /\ inbound'[i - 1] = inbound[i]
BY QueueFields, TailOfSeq DEF ConsumeInbound

LEMMA CompleteStep == IInv /\ CompleteInv /\ TypeOK' /\ Keeps /\ Effect => CompleteInv'
<1>. SUFFICES ASSUME IInv, CompleteInv, TypeOK', Keeps, Effect PROVE CompleteInv'
  OBVIOUS
<1>. DEFINE Waits(n) == \E i \in DOMAIN inbound : inbound[i].kind = "user" /\ inbound[i].n = n
<1>1. TypeOK /\ TurnInv /\ HomeInv
  BY DEF IInv, TypeInv
<1>2. /\ DOMAIN outbound = 1 .. Len(outbound) /\ Len(outbound) \in Nat
      /\ DOMAIN inbound = 1 .. Len(inbound) /\ Len(inbound) \in Nat
  BY <1>1, QueueFields
<1>3. ASSUME NEW n \in DOMAIN asked, Ahead(n, Len(outbound)), delivered' = delivered,
             Len(outbound) =< Len(outbound'),
             \A i \in DOMAIN outbound : i \in DOMAIN outbound' /\ outbound'[i] = outbound[i]
      PROVE  Ahead(n, Len(outbound))'
  <2>1. PICK k \in Nat : k = Len(outbound')
    <3>1. outbound' \in Seq(Letter)
      BY DEF TypeOK, Letter
    <3>2. QED
      BY <3>1, LenProperties
  <2>2. Ahead(n, k)
    BY <1>1, <1>2, <1>3, <2>1, AheadMono
  <2>3. Ahead(n, k)'
    BY <1>1, <1>3, <2>2, AheadStays
  <2>4. QED
    BY <2>1, <2>3
<1>4. ASSUME NEW n \in DOMAIN asked, InLoop(n), SameTurn PROVE InLoop(n)'
  BY <1>4 DEF InLoop, SameTurn
<1>5. \A n \in DOMAIN asked : Waits(n) \/ InLoop(n) \/ Ahead(n, Len(outbound))
  BY DEF CompleteInv
<1>6. ASSUME NEW r \in Requests, Received(r), NEW n \in DOMAIN asked'
      PROVE  Waits(n)' \/ InLoop(n)' \/ Ahead(n, Len(outbound))'
  <2>1. /\ DOMAIN inbound' = 1 .. Len(inbound) + 1 /\ inbound'[Len(inbound) + 1] = r
        /\ \A i \in DOMAIN inbound : i \in DOMAIN inbound' /\ inbound'[i] = inbound[i]
    BY <1>1, <1>6, ReceivedQueue
  <2>2. CASE n \in DOMAIN asked
    <3>1. Waits(n) => Waits(n)'
      BY <2>1
    <3>2. InLoop(n) => InLoop(n)'
      BY <1>4, <1>6, <2>2 DEF Received
    <3>3. Ahead(n, Len(outbound)) => Ahead(n, Len(outbound))'
      BY <1>2, <1>3, <1>6, <2>2 DEF Received
    <3>4. QED
      BY <1>5, <2>2, <3>1, <3>2, <3>3
  <2>3. CASE n \notin DOMAIN asked
    <3>1. r.kind = "user" /\ r.n = n
      BY <1>6, <2>3 DEF Received
    <3>2. Len(inbound) + 1 \in DOMAIN inbound'
      BY <1>2, <2>1
    <3>3. QED
      BY <2>1, <3>1, <3>2
  <2>4. QED
    BY <2>2, <2>3
<1>7. CASE ConsumeInbound
  <2>1. /\ req'["loop"] = inbound[1] /\ Busy("loop")' /\ ~Busy("loop")
        /\ UNCHANGED <<outbound, delivered, asked>>
    BY <1>1, <1>7, ConsumedQueue
  <2>2. ASSUME NEW n \in DOMAIN asked PROVE Waits(n)' \/ InLoop(n)' \/ Ahead(n, Len(outbound))'
    <3>1. ASSUME NEW i \in DOMAIN inbound, inbound[i].kind = "user", inbound[i].n = n
          PROVE  Waits(n)' \/ InLoop(n)'
      <4>1. CASE i = 1
        BY <2>1, <3>1, <4>1 DEF InLoop
      <4>2. CASE i # 1
        <5>1. i - 1 \in DOMAIN inbound' /\ inbound'[i - 1] = inbound[i]
          BY <1>1, <1>7, <4>2, ConsumedRest
        <5>2. QED
          BY <3>1, <5>1
      <4>3. QED
        BY <4>1, <4>2
    <3>2. ~InLoop(n)
      BY <2>1 DEF InLoop
    <3>3. Ahead(n, Len(outbound)) => Ahead(n, Len(outbound))'
      BY <1>2, <1>3, <2>1
    <3>4. QED
      BY <1>5, <3>1, <3>2, <3>3
  <2>3. QED
    BY <2>1, <2>2 DEF CompleteInv
<1>8. CASE Worked
  <2>1. UNCHANGED <<inbound, outbound, asked, delivered>> /\ SameTurn
    BY <1>8 DEF Worked
  <2>2. ASSUME NEW n \in DOMAIN asked PROVE Waits(n)' \/ InLoop(n)' \/ Ahead(n, Len(outbound))'
    <3>1. Waits(n) => Waits(n)'
      BY <2>1
    <3>2. InLoop(n) => InLoop(n)'
      BY <1>4, <2>1
    <3>3. Ahead(n, Len(outbound)) => Ahead(n, Len(outbound))'
      BY <1>2, <1>3, <2>1
    <3>4. QED
      BY <1>5, <3>1, <3>2, <3>3
  <2>3. QED
    BY <2>1, <2>2 DEF CompleteInv
<1>9. ASSUME NEW c \in Address, NEW x \in Contents, Passed(c, x) \/ Replied(c, x),
             NEW n \in DOMAIN asked
      PROVE  Waits(n)' \/ InLoop(n)' \/ Ahead(n, Len(outbound))'
  <2>1. Put(c, x)
    BY <1>9 DEF Passed, Replied
  <2>2. /\ DOMAIN outbound' = 1 .. Len(outbound) + 1 /\ Len(outbound') = Len(outbound) + 1
        /\ \A i \in DOMAIN outbound : i \in DOMAIN outbound' /\ outbound'[i] = outbound[i]
        /\ outbound'[Len(outbound) + 1].to = c /\ outbound'[Len(outbound) + 1].content = x
        /\ UNCHANGED <<inbound, asked, delivered>>
    BY <1>1, <2>1, PutQueue DEF Put
  <2>3. Waits(n) => Waits(n)'
    BY <2>2
  <2>4. Ahead(n, Len(outbound)) => Ahead(n, Len(outbound))'
    BY <1>2, <1>3, <2>2
  <2>5. InLoop(n) => InLoop(n)' \/ Ahead(n, Len(outbound))'
    <3>1. CASE Passed(c, x)
      BY <1>4, <3>1 DEF Passed
    <3>2. CASE Replied(c, x) /\ InLoop(n)
      <4>1. c = req["loop"].chat /\ AnswerTo(x, n)
        BY <3>2 DEF Replied, InLoop
      <4>2. c = asked[n]
        BY <1>1, <3>2, <4>1 DEF HomeInv, InLoop, IsRequest
      <4>3. Len(outbound') \in DOMAIN outbound' /\ Len(outbound') =< Len(outbound')
        BY <1>2, <2>2
      <4>4. Queued(n, Len(outbound))'
        BY <2>2, <4>1, <4>2, <4>3 DEF Queued, AnswerTo, IsAnswer
      <4>5. QED
        BY <4>4 DEF Ahead
    <3>3. QED
      BY <1>9, <3>1, <3>2
  <2>6. QED
    BY <1>5, <2>3, <2>4, <2>5
<1>10. CASE Dispatch
  <2>1. UNCHANGED <<inbound, pc, req, asked>> /\ Len(outbound') = Len(outbound) - 1
    BY <1>1, <1>10, DispatchQueue
  <2>2. ASSUME NEW n \in DOMAIN asked PROVE Waits(n)' \/ InLoop(n)' \/ Ahead(n, Len(outbound))'
    <3>1. ASSUME Ahead(n, Len(outbound)) PROVE Ahead(n, Len(outbound))'
      <4>1. Len(outbound) \in Nat
        BY <1>2
      <4>2. PICK k \in Nat : k = Len(outbound)
        BY <4>1
      <4>3. Ahead(n, k - 1)'
        BY <1>1, <1>10, <3>1, <4>2, DispatchAhead
      <4>4. Len(outbound') = k - 1
        BY <2>1, <4>2
      <4>5. QED
        BY <4>3, <4>4
    <3>2. InLoop(n) => InLoop(n)'
      BY <2>1 DEF InLoop, Busy
    <3>3. Waits(n) => Waits(n)'
      BY <2>1
    <3>4. QED
      BY <1>5, <3>1, <3>2, <3>3
  <2>3. QED
    BY <2>1, <2>2 DEF CompleteInv
<1>11. ASSUME NEW r \in Requests, Received(r) PROVE CompleteInv'
  BY <1>6, <1>11 DEF CompleteInv
<1>12. ASSUME NEW c \in Address, NEW x \in Contents, Passed(c, x) \/ Replied(c, x) PROVE CompleteInv'
  <2>1. asked' = asked
    BY <1>12 DEF Passed, Replied, Put
  <2>2. QED
    BY <1>9, <1>12, <2>1 DEF CompleteInv
<1>13. QED
  BY <1>7, <1>8, <1>10, <1>11, <1>12 DEF Effect

-----------------------------------------------------------------------------
(* What jobs say, in the order of their runs.                              *)

\* x may come before y.
JobPrecedes(x, y) ==
  x.kind = "job" /\ y.kind = "job" =>
    x.n =< y.n /\ (x.what = "text" \/ y.what = "text" => x.n < y.n)

\* x is of a job that ran, and is not the text of the one that runs.
Ran(x) == x.kind = "job" => /\ x.n \in DOMAIN ran
                            /\ Busy("cron") /\ x.what = "text" => x.n < Len(ran)

Posted(x, c) == x.kind = "job" /\ x.what = "text" => c = ran[x.n]

JobInv ==
  /\ Busy("cron") => req["cron"].n = Len(ran) /\ Len(ran) \in DOMAIN ran
  /\ \A i \in DOMAIN outbound : Ran(outbound[i].content) /\ Posted(outbound[i].content, outbound[i].to)
  /\ \A c \in Reached : \A i \in DOMAIN delivered[c] : Ran(delivered[c][i])
  /\ \A i, j \in DOMAIN outbound : i < j => JobPrecedes(outbound[i].content, outbound[j].content)
  /\ \A c \in Reached : \A i \in DOMAIN delivered[c], j \in DOMAIN outbound :
       JobPrecedes(delivered[c][i], outbound[j].content)

\* What a step does to the cron goroutine and what it says.
SameJob == Busy("cron")' => Busy("cron") /\ req'["cron"] = req["cron"]

JobBegins ==
  /\ ~Busy("cron") /\ UNCHANGED <<outbound, delivered>>
  /\ (\E c \in Chats : ran' = Append(ran, c)) /\ req'["cron"].n = Len(ran) + 1

JobPosts(c, x) ==
  /\ ~Busy("cron") /\ ~Busy("cron")' /\ Put(c, x)
  /\ c \in Chats /\ ran' = Append(ran, c) /\ x.kind = "job" /\ x.what = "text" /\ x.n = Len(ran) + 1

JobSays(c, x) ==
  /\ SameJob /\ Put(c, x) /\ ran' = ran
  /\ x.kind = "job" => Busy("cron") /\ x.n = req["cron"].n /\ x.what = "tool"

JobEffect ==
  \/ SameJob /\ UNCHANGED <<ran, outbound, delivered>>
  \/ JobBegins
  \/ \E c \in Address, x \in Contents : JobPosts(c, x) \/ JobSays(c, x)
  \/ Dispatch

LEMMA JobEffects == TypeOK /\ TurnInv /\ HomeInv /\ [Next]_vars => JobEffect
<1>. SUFFICES ASSUME TypeOK, TurnInv, HomeInv, [Next]_vars PROVE JobEffect
  OBVIOUS
<1>. USE DEF At, Goto, Busy, Agents
<1>1. UNCHANGED <<pc, req>> => SameJob
  BY DEF SameJob
<1>2. ASSUME SameJob, UNCHANGED <<ran, outbound, delivered>> PROVE JobEffect
  BY <1>2 DEF JobEffect
<1>3. ASSUME NEW s \in Senders, NEW c \in Reached, HandleMessage(s, c) PROVE JobEffect
  BY <1>1, <1>2, <1>3 DEF HandleMessage, goroutine
<1>4. ASSUME NEW t \in DOMAIN tasks, Task(t) PROVE JobEffect
  BY <1>1, <1>2, <1>4 DEF Task, FinishTask, Announce, goroutine, history
<1>5. ASSUME NEW c \in JobChats, RunJob(c) PROVE JobEffect
  <2>. DEFINE job == [kind |-> "job", n |-> Len(ran'), chat |-> c]
  <2>1. c \in Chats /\ c \in Address
    BY JobAssumption, AddressOfChat
  <2>2. ran \in Seq(Chats) /\ ran' = Append(ran, c) /\ pc["cron"] = "idle"
    BY <1>5 DEF RunJob, TypeOK
  <2>3. Len(ran') = Len(ran) + 1 /\ Len(ran) \in Nat
    BY <2>1, <2>2, AppendedSeq
  <2>4. job \in Requests
    BY <2>1, <2>3 DEF Requests
  <2>5. UNCHANGED <<inbound, tasks, asked, delivered>>
        /\ \/ PublishOutbound(c, About("text", job)) /\ UNCHANGED <<goroutine, ctx>>
           \/ Begin("cron", job) /\ UNCHANGED outbound
    BY <1>5 DEF RunJob
  <2>6. job.kind = "job" /\ job.n = Len(ran) + 1
    BY <2>3
  <2>. HIDE DEF job
  <2>7. CASE PublishOutbound(c, About("text", job)) /\ UNCHANGED <<goroutine, ctx>>
    <3>1. PICK x \in Contents : x = About("text", job) /\ x.kind = "job" /\ x.what = "text" /\ x.n = Len(ran) + 1
      BY <2>4, <2>6, AboutTyped
    <3>2. JobPosts(c, x)
      BY <2>1, <2>2, <2>5, <2>7, <3>1 DEF JobPosts, Put, PublishOutbound, goroutine
    <3>3. QED
      BY <2>1, <3>2 DEF JobEffect
  <2>8. CASE Begin("cron", job) /\ UNCHANGED outbound
    <3>1. req'["cron"] = job
      BY <2>8 DEF Begin, TypeOK
    <3>2. JobBegins
      BY <2>1, <2>2, <2>5, <2>6, <2>8, <3>1 DEF JobBegins
    <3>3. QED
      BY <3>2 DEF JobEffect
  <2>9. QED
    BY <2>5, <2>7, <2>8
<1>6. CASE ConsumeInbound
  <2>1. pc' = [pc EXCEPT !["loop"] = "think"] /\ req' = [req EXCEPT !["loop"] = Head(inbound)]
        /\ UNCHANGED <<ran, outbound, delivered>>
    BY <1>6 DEF ConsumeInbound, Begin, history
  <2>2. SameJob
    BY <2>1 DEF SameJob, TypeOK
  <2>3. QED
    BY <1>2, <2>1, <2>2
\* A goroutine goes on in its turn.
<1>7. ASSUME NEW a \in Agents, NEW l, pc' = [pc EXCEPT ![a] = l], pc[a] # "idle", req' = req
      PROVE  SameJob
  BY <1>7 DEF SameJob, TypeOK
<1>8. ASSUME NEW a \in Agents, End(a) PROVE SameJob
  BY <1>8 DEF End, SameJob, TypeOK
<1>9. ASSUME NEW a \in Agents, NEW t \in Tools, CallTool(a, t) PROVE JobEffect
  BY <1>2, <1>7, <1>9 DEF CallTool, history
<1>10. ASSUME NEW a \in Agents, SetContext(a) PROVE JobEffect
  BY <1>2, <1>7, <1>10 DEF SetContext, history
<1>11. ASSUME NEW a \in Agents, SendMessage(a) PROVE JobEffect
  <2>1. PICK c \in Seen(a) : PublishOutbound(c, About("tool", req[a]))
    BY <1>11 DEF SendMessage
  <2>2. req[a] \in Requests /\ c \in Address
    BY <1>11, SeenTyped, AddressOfChat DEF SendMessage, Executed, TurnInv
  <2>3. PICK x \in Contents : x = About("tool", req[a]) /\ x.what = "tool" /\ x.kind = req[a].kind /\ x.n = req[a].n
    BY <2>2, AboutTyped
  <2>4. SameJob
    BY <1>7, <1>11 DEF SendMessage, Executed
  <2>5. Put(c, x) /\ ran' = ran
    BY <1>11, <2>1, <2>3 DEF Put, PublishOutbound, SendMessage, Executed, history
  <2>6. x.kind = "job" => a = "cron" /\ pc["cron"] # "idle"
    <3>1. a = "loop" => IsRequest(req["loop"])
      BY <1>11 DEF SendMessage, Executed, HomeInv
    <3>2. QED
      BY <1>11, <2>3, <3>1 DEF SendMessage, Executed, IsRequest
  <2>7. JobSays(c, x)
    BY <2>3, <2>4, <2>5, <2>6 DEF JobSays
  <2>8. QED
    BY <2>2, <2>7 DEF JobEffect
<1>12. ASSUME NEW a \in Agents, Spawn(a) PROVE JobEffect
  BY <1>2, <1>7, <1>12 DEF Spawn, Executed, history
<1>13. ASSUME NEW a \in Agents, Answer(a) PROVE JobEffect
  <2>1. SameJob
    BY <1>7, <1>13 DEF Answer
  <2>2. QED
    BY <1>2, <1>13, <2>1 DEF Answer, history
<1>14. ASSUME NEW a \in Agents, Fail(a) PROVE JobEffect
  <2>1. SameJob
    BY <1>7, <1>8, <1>14 DEF Fail
  <2>2. QED
    BY <1>2, <1>14, <2>1 DEF Fail, End, history
<1>15. CASE Return
  BY <1>2, <1>8, <1>15 DEF Return, End, history
<1>16. ASSUME SendResponse \/ Publish PROVE JobEffect
  <2>1. SameJob /\ ran' = ran
    BY <1>7, <1>8, <1>16 DEF SendResponse, Publish, End, history
  <2>2. req["loop"] \in Requests /\ IsRequest(req["loop"])
    BY <1>16 DEF SendResponse, Publish, TurnInv, HomeInv
  <2>3. req["loop"].chat \in Address /\ ReplyTo(req["loop"]) \in Address
    BY <2>2, AddressOfChat DEF ReplyTo, Requests, Chats, Address
  <2>4. ASSUME NEW what \in {"reply", "error"}
        PROVE  About(what, req["loop"]) \in Contents /\ About(what, req["loop"]).kind # "job"
    BY <2>2, AboutTyped DEF IsRequest
  <2>5. PICK what \in {"reply", "error"}, c \in Address : Put(c, About(what, req["loop"]))
    BY <1>16, <2>3 DEF SendResponse, Publish, End, Put, PublishOutbound, history
  <2>6. PICK x \in Contents : Put(c, x) /\ x.kind # "job"
    BY <2>4, <2>5
  <2>7. JobSays(c, x)
    BY <2>1, <2>6 DEF JobSays
  <2>8. QED
    BY <2>7 DEF JobEffect
<1>17. CASE Dispatch \/ UNCHANGED vars
  BY <1>1, <1>2, <1>17 DEF JobEffect, vars, goroutine, history
<1>18. ASSUME NEW a \in Agents, Turn(a) PROVE JobEffect
  BY <1>9, <1>10, <1>11, <1>12, <1>13, <1>14, <1>18 DEF Turn
<1>19. QED
  BY <1>3, <1>4, <1>5, <1>6, <1>15, <1>16, <1>17, <1>18 DEF Next, Finish

LEMMA RanFields ==
  ASSUME TypeOK
  PROVE  ran \in Seq(Chats) /\ Len(ran) \in Nat /\ DOMAIN ran = 1 .. Len(ran)
BY LenProperties DEF TypeOK

LEMMA RanGrows ==
  ASSUME TypeOK, NEW c \in Chats, ran' = Append(ran, c)
  PROVE  /\ Len(ran') = Len(ran) + 1 /\ DOMAIN ran' = 1 .. Len(ran) + 1
         /\ \A i \in DOMAIN ran : ran'[i] = ran[i]
         /\ ran'[Len(ran) + 1] = c
<1>1. ran \in Seq(Chats)
  BY RanFields
<1>2. QED
  BY <1>1, AppendedSeq

\* What was right to say stays right.
LEMMA RanStays ==
  ASSUME TypeOK, NEW x \in Contents, NEW c, Ran(x), Posted(x, c),
         \/ ran' = ran /\ SameJob
         \/ ~Busy("cron") /\ \E d \in Chats : ran' = Append(ran, d)
  PROVE  Ran(x)' /\ Posted(x, c)'
<1>1. CASE ran' = ran /\ SameJob
  BY <1>1 DEF Ran, Posted, SameJob
<1>2. ASSUME NEW d \in Chats, ran' = Append(ran, d) PROVE Ran(x)' /\ Posted(x, c)'
  <2>0. DOMAIN ran = 1 .. Len(ran) /\ Len(ran) \in Nat
    BY RanFields
  <2>1. /\ DOMAIN ran' = 1 .. Len(ran) + 1 /\ Len(ran') = Len(ran) + 1
        /\ \A i \in DOMAIN ran : ran'[i] = ran[i]
    BY <1>2, RanGrows
  <2>2. ASSUME x.kind = "job"
        PROVE  x.n \in DOMAIN ran' /\ x.n < Len(ran') /\ (x.what = "text" => c = ran'[x.n])
    BY <2>0, <2>1, <2>2 DEF Ran, Posted
  <2>3. QED
    BY <2>2 DEF Ran, Posted
<1>3. QED
  BY <1>1, <1>2

\* What the cron goroutine says comes after all that was said before.
LEMMA JobStep == TypeOK /\ JobInv /\ JobEffect => JobInv'
<1>. SUFFICES ASSUME TypeOK, JobInv, JobEffect PROVE JobInv'
  OBVIOUS
<1>. DEFINE Runs == Busy("cron") => req["cron"].n = Len(ran) /\ Len(ran) \in DOMAIN ran
            Sent == \A i \in DOMAIN outbound :
                      Ran(outbound[i].content) /\ Posted(outbound[i].content, outbound[i].to)
            Shown == \A c \in Reached : \A i \in DOMAIN delivered[c] : Ran(delivered[c][i])
            Ordered == \A i, j \in DOMAIN outbound :
                         i < j => JobPrecedes(outbound[i].content, outbound[j].content)
            Behind == \A c \in Reached : \A i \in DOMAIN delivered[c], j \in DOMAIN outbound :
                        JobPrecedes(delivered[c][i], outbound[j].content)
<1>1. Runs /\ Sent /\ Shown /\ Ordered /\ Behind
  BY DEF JobInv
<1>2. /\ Len(ran) \in Nat /\ DOMAIN ran = 1 .. Len(ran)
      /\ DOMAIN outbound = 1 .. Len(outbound) /\ Len(outbound) \in Nat
      /\ \A i \in DOMAIN outbound : outbound[i].content \in Contents
      /\ \A c \in Reached : \A i \in DOMAIN delivered[c] : delivered[c][i] \in Contents
  BY RanFields, QueueFields
<1>3. CASE SameJob /\ UNCHANGED <<ran, outbound, delivered>>
  <2>1. Runs'
    BY <1>1, <1>3 DEF SameJob
  <2>2. Sent' /\ Shown'
    BY <1>1, <1>3 DEF SameJob, Ran, Posted
  <2>3. Ordered' /\ Behind'
    BY <1>1, <1>3 DEF JobPrecedes
  <2>4. QED
    BY <2>1, <2>2, <2>3 DEF JobInv
\* The run of a job begins.
<1>4. ASSUME NEW c \in Chats, ran' = Append(ran, c)
      PROVE  Len(ran') = Len(ran) + 1 /\ DOMAIN ran' = 1 .. Len(ran) + 1 /\ ran'[Len(ran) + 1] = c
  BY <1>4, RanGrows
<1>5. CASE JobBegins
  <2>1. PICK c \in Chats : ran' = Append(ran, c)
    BY <1>5 DEF JobBegins
  <2>2. Runs'
    BY <1>2, <1>4, <1>5, <2>1 DEF JobBegins
  <2>3. ASSUME NEW x \in Contents, Ran(x) PROVE Ran(x)'
    BY <1>2, <1>4, <2>1, <2>3 DEF Ran
  <2>4. ASSUME NEW x \in Contents, NEW d, Ran(x), Posted(x, d) PROVE Posted(x, d)'
    BY <1>5, <2>1, <2>4, RanStays DEF JobBegins
  <2>5. UNCHANGED <<outbound, delivered>>
    BY <1>5 DEF JobBegins
  <2>6. ASSUME NEW i \in DOMAIN outbound'
        PROVE  Ran(outbound[i].content)' /\ Posted(outbound[i].content, outbound[i].to)'
    <3>1. PICK x \in Contents : x = outbound[i].content /\ x = outbound'[i].content
      BY <1>2, <2>5
    <3>2. Ran(x) /\ Posted(x, outbound[i].to)
      BY <1>1, <2>5, <3>1
    <3>3. Ran(x)' /\ \A d : d = outbound[i].to => Posted(x, d)'
      BY <2>3, <2>4, <3>2
    <3>4. QED
      BY <2>5, <3>1, <3>3 DEF Ran, Posted
  <2>7. ASSUME NEW d \in Reached, NEW i \in DOMAIN delivered'[d] PROVE Ran(delivered[d][i])'
    <3>1. PICK x \in Contents : x = delivered[d][i] /\ x = delivered'[d][i] /\ Ran(x)
      BY <1>1, <1>2, <2>5
    <3>2. Ran(x)'
      BY <2>3, <3>1
    <3>3. QED
      BY <3>1, <3>2 DEF Ran
  <2>8. Ordered' /\ Behind'
    BY <1>1, <2>5 DEF JobPrecedes
  <2>9. QED
    BY <2>2, <2>6, <2>7, <2>8 DEF JobInv
\* Something is put on the queue.
<1>6. ASSUME NEW c \in Address, NEW x \in Contents, Put(c, x), Runs',
             Ran(x)', Posted(x, c)',
             \A y \in Contents : Ran(y) => Ran(y)' /\ JobPrecedes(y, x),
             \A y \in Contents, d \in Address : Ran(y) /\ Posted(y, d) => Posted(y, d)'
      PROVE  JobInv'
  <2>1. /\ DOMAIN outbound' = 1 .. Len(outbound) + 1
        /\ \A i \in DOMAIN outbound : i \in DOMAIN outbound' /\ outbound'[i] = outbound[i]
        /\ outbound'[Len(outbound) + 1].to = c /\ outbound'[Len(outbound) + 1].content = x
        /\ \A i \in DOMAIN outbound' : i \in DOMAIN outbound \/ i = Len(outbound) + 1
    BY <1>6, PutQueue
  <2>2. delivered' = delivered
    BY <1>6 DEF Put
  <2>3. ASSUME NEW i \in DOMAIN outbound'
        PROVE  Ran(outbound[i].content)' /\ Posted(outbound[i].content, outbound[i].to)'
    <3>1. PICK y \in Contents, d \in Address :
            y = outbound'[i].content /\ d = outbound'[i].to /\ Ran(y)' /\ Posted(y, d)'
      <4>1. CASE i \in DOMAIN outbound
        <5>1. PICK y \in Contents, d \in Address : y = outbound[i].content /\ d = outbound[i].to
          BY <4>1, QueueFields
        <5>2. Ran(y) /\ Posted(y, d)
          BY <1>1, <4>1, <5>1
        <5>3. Ran(y)' /\ Posted(y, d)'
          BY <1>6, <5>2
        <5>4. QED
          BY <2>1, <4>1, <5>1, <5>3
      <4>2. CASE i = Len(outbound) + 1
        BY <1>6, <2>1, <4>2
      <4>3. QED
        BY <2>1, <4>1, <4>2
    <3>2. QED
      BY <3>1 DEF Ran, Posted
  <2>4. ASSUME NEW d \in Reached, NEW i \in DOMAIN delivered'[d] PROVE Ran(delivered[d][i])'
    <3>1. PICK y \in Contents : y = delivered'[d][i] /\ Ran(y)
      BY <1>1, <1>2, <2>2
    <3>2. Ran(y)'
      BY <1>6, <3>1
    <3>3. QED
      BY <3>1, <3>2 DEF Ran
  <2>5. ASSUME NEW i \in DOMAIN outbound', NEW j \in DOMAIN outbound', i < j
        PROVE  JobPrecedes(outbound'[i].content, outbound'[j].content)
    <3>1. i \in DOMAIN outbound
      BY <1>2, <2>1, <2>5
    <3>2. CASE j \in DOMAIN outbound
      BY <1>1, <2>1, <2>5, <3>1, <3>2
    <3>3. CASE j = Len(outbound) + 1
      BY <1>1, <1>2, <1>6, <2>1, <3>1, <3>3
    <3>4. QED
      BY <2>1, <3>2, <3>3
  <2>6. ASSUME NEW d \in Reached, NEW i \in DOMAIN delivered'[d], NEW j \in DOMAIN outbound'
        PROVE  JobPrecedes(delivered'[d][i], outbound'[j].content)
    <3>1. CASE j \in DOMAIN outbound
      BY <1>1, <2>1, <2>2, <3>1
    <3>2. CASE j = Len(outbound) + 1
      BY <1>1, <1>2, <1>6, <2>1, <2>2, <3>2
    <3>3. QED
      BY <2>1, <3>1, <3>2
  <2>7. Ordered' /\ Behind'
    BY <2>5, <2>6 DEF JobPrecedes
  <2>8. QED
    BY <1>6, <2>3, <2>4, <2>7 DEF JobInv
<1>7. ASSUME NEW c \in Address, NEW x \in Contents, JobPosts(c, x) PROVE JobInv'
  <2>1. Put(c, x) /\ ~Busy("cron") /\ ~Busy("cron")' /\ c \in Chats /\ ran' = Append(ran, c)
        /\ x.kind = "job" /\ x.what = "text" /\ x.n = Len(ran) + 1
    BY <1>7 DEF JobPosts
  <2>2. Ran(x)' /\ Posted(x, c)'
    BY <1>2, <1>4, <2>1 DEF Ran, Posted
  <2>3. ASSUME NEW y \in Contents, Ran(y) PROVE Ran(y)' /\ JobPrecedes(y, x)
    BY <1>2, <1>4, <2>1, <2>3 DEF Ran, JobPrecedes
  <2>4. ASSUME NEW y \in Contents, NEW d \in Address, Ran(y), Posted(y, d) PROVE Posted(y, d)'
    BY <2>1, <2>4, RanStays
  <2>5. QED
    BY <1>6, <2>1, <2>2, <2>3, <2>4
<1>8. ASSUME NEW c \in Address, NEW x \in Contents, JobSays(c, x) PROVE JobInv'
  <2>1. /\ Put(c, x) /\ SameJob /\ ran' = ran
        /\ x.kind = "job" => Busy("cron") /\ x.n = Len(ran) /\ x.what = "tool" /\ Len(ran) \in DOMAIN ran
    BY <1>1, <1>8 DEF JobSays
  <2>2. Ran(x)' /\ Posted(x, c)'
    BY <2>1 DEF Ran, Posted
  <2>3. ASSUME NEW y \in Contents, Ran(y) PROVE Ran(y)' /\ JobPrecedes(y, x)
    <3>1. Ran(y)'
      BY <2>1, <2>3 DEF Ran, SameJob
    <3>2. JobPrecedes(y, x)
      BY <1>2, <2>1, <2>3 DEF Ran, JobPrecedes
    <3>3. QED
      BY <3>1, <3>2
  <2>4. ASSUME NEW y \in Contents, NEW d \in Address, Ran(y), Posted(y, d) PROVE Posted(y, d)'
    BY <2>1, <2>4, RanStays
  <2>5. Runs'
    BY <1>1, <2>1 DEF SameJob
  <2>6. QED
    BY <1>6, <2>1, <2>2, <2>3, <2>4, <2>5
<1>9. CASE Dispatch
  <2>1. UNCHANGED <<pc, req, ran>>
    BY <1>9 DEF Dispatch, goroutine
  <2>2. /\ 1 \in DOMAIN outbound
        /\ \A i \in DOMAIN outbound' : i \in Nat \ {0} /\ i + 1 \in DOMAIN outbound /\ outbound'[i] = outbound[i + 1]
    BY <1>9, DispatchQueue
  <2>3. ASSUME NEW c \in Reached, NEW i \in DOMAIN delivered'[c]
        PROVE  \/ i \in DOMAIN delivered[c] /\ delivered'[c][i] = delivered[c][i]
               \/ delivered'[c][i] = outbound[1].content
    <3>1. DOMAIN delivered[c] = 1 .. Len(delivered[c]) /\ Len(delivered[c]) \in Nat
      BY QueueFields
    <3>2. QED
      BY <1>9, <2>3, <3>1, DispatchQueue
  <2>4. Runs'
    BY <1>1, <2>1 DEF Busy
  <2>5. Sent'
    BY <1>1, <2>1, <2>2 DEF Ran, Posted, Busy
  <2>6. Shown'
    <3>1. ASSUME NEW c \in Reached, NEW i \in DOMAIN delivered'[c] PROVE Ran(delivered'[c][i])
      BY <1>1, <2>2, <2>3, <3>1
    <3>2. QED
      BY <2>1, <3>1 DEF Ran, Busy
  <2>7. ASSUME NEW i \in DOMAIN outbound', NEW j \in DOMAIN outbound', i < j
        PROVE  JobPrecedes(outbound'[i].content, outbound'[j].content)
    <3>1. i + 1 < j + 1
      BY <2>2, <2>7
    <3>2. QED
      BY <1>1, <2>2, <3>1
  <2>8. ASSUME NEW c \in Reached, NEW i \in DOMAIN delivered'[c], NEW j \in DOMAIN outbound'
        PROVE  JobPrecedes(delivered'[c][i], outbound'[j].content)
    <3>1. j + 1 \in DOMAIN outbound /\ outbound'[j] = outbound[j + 1] /\ 1 < j + 1
      BY <2>2
    <3>2. QED
      BY <1>1, <2>2, <2>3, <3>1
  <2>9. Ordered' /\ Behind'
    BY <2>7, <2>8 DEF JobPrecedes
  <2>10. QED
    BY <2>4, <2>5, <2>6, <2>9 DEF JobInv
<1>10. QED
  BY <1>3, <1>5, <1>7, <1>8, <1>9 DEF JobEffect

-----------------------------------------------------------------------------
(* The refinement.                                                         *)

PromiseInv == IInv /\ SpeakInv /\ CompleteInv /\ JobInv

LEMMA PromiseInit == Init => PromiseInv
<1>. SUFFICES ASSUME Init PROVE PromiseInv
  OBVIOUS
<1>1. outbound = <<>> /\ asked = <<>> /\ \A c \in Reached : delivered[c] = <<>>
  BY Zenon DEF Init
<1>2. pc = [a \in Agents |-> "idle"]
  BY Zenon DEF Init
<1>3. DOMAIN outbound = {} /\ DOMAIN asked = {} /\ \A c \in Reached : DOMAIN delivered[c] = {}
  BY <1>1
<1>4. ~Busy("loop") /\ ~Busy("cron")
  BY <1>2 DEF Busy, Agents
<1>5. QED
  BY <1>3, <1>4, InitInv DEF PromiseInv, SpeakInv, CompleteInv, JobInv

LEMMA PromiseStep == PromiseInv /\ [Next]_vars => PromiseInv'
<1>. SUFFICES ASSUME PromiseInv, [Next]_vars PROVE PromiseInv'
  OBVIOUS
<1>1. IInv' /\ TypeOK'
  BY StepInv DEF PromiseInv, IInv, TypeInv
<1>2. Keeps /\ Effect /\ JobEffect
  BY KeepsStep, Effects, JobEffects DEF PromiseInv, IInv, TypeInv
<1>3. QED
  BY <1>1, <1>2, SpeakStep, CompleteStep, JobStep DEF PromiseInv, IInv, TypeInv

\* What GatewayPromise calls spawned.
Spawned == [t \in DOMAIN tasks |->
              [chat |-> tasks[t].chat, by |-> [kind |-> tasks[t].by.kind, n |-> tasks[t].by.n]]]

LEMMA RefineInit == Init => Promise!Init
<1>. SUFFICES ASSUME Init PROVE Promise!Init
  OBVIOUS
<1>1. tasks = <<>> /\ asked = <<>> /\ ran = <<>> /\ delivered = [c \in Reached |-> <<>>]
  BY Zenon DEF Init
<1>2. Spawned = <<>>
  BY <1>1 DEF Spawned
<1>3. QED
  BY <1>1, <1>2 DEF Promise!Init, Spawned

LEMMA PromiseTyped == PromiseInv => TypeOK /\ TurnInv /\ HomeInv /\ RequestsInv /\ ReportInv
BY DEF PromiseInv, IInv, TypeInv

LEMMA SpawnedFields ==
  ASSUME TypeOK
  PROVE  /\ DOMAIN Spawned = DOMAIN tasks
         /\ \A t \in DOMAIN tasks : /\ Spawned[t].chat = tasks[t].chat
                                    /\ Spawned[t].by = [kind |-> tasks[t].by.kind, n |-> tasks[t].by.n]
BY DEF Spawned

\* What was given, by the fields of what was delivered.
LEMMA GivenFields ==
  ASSUME TypeOK, NEW what, NEW r
  PROVE  Promise!Given(what, r) <=>
           \E c \in Reached : \E i \in DOMAIN delivered[c] : delivered[c][i].what = what /\ Same(delivered[c][i], r)
<1>1. ASSUME NEW c \in Reached, NEW i \in DOMAIN delivered[c]
      PROVE  delivered[c][i] = Promise!Content(what, r) <=>
               delivered[c][i].what = what /\ delivered[c][i].kind = r.kind /\ delivered[c][i].n = r.n
  <2>1. delivered[c][i] \in Contents
    BY QueueFields
  <2>2. QED
    BY <2>1 DEF Contents, Promise!Content
<1>2. QED
  BY <1>1 DEF Promise!Given, Same

LEMMA NotAnswered ==
  ASSUME TypeOK, NEW r, NEW k, Fresh(r, k), NEW q, q.kind = r.kind, q.n = r.n
  PROVE  ~Promise!Answered(q)
<1>1. ASSUME NEW what \in {"reply", "error"}, Promise!Given(what, q) PROVE FALSE
  <2>1. PICK c \in Reached : \E i \in DOMAIN delivered[c] : delivered[c][i].what = what /\ Same(delivered[c][i], q)
    BY <1>1, GivenFields
  <2>2. PICK i \in DOMAIN delivered[c] : delivered[c][i].what = what /\ Same(delivered[c][i], q)
    BY <2>1
  <2>3. QED
    BY <2>2 DEF Fresh, Same, IsAnswer
<1>2. QED
  BY <1>1 DEF Promise!Answered

LEMMA AheadAnswered ==
  ASSUME TypeOK, NEW n \in DOMAIN asked, Ahead(n, 0), NEW q, q.kind = "user", q.n = n
  PROVE  Promise!Answered(q)
<1>1. ~Queued(n, 0)
  BY QueueFields DEF Queued
<1>2. PICK i \in DOMAIN delivered[asked[n]] : AnswerTo(delivered[asked[n]][i], n)
  BY <1>1 DEF Ahead, Given
<1>3. asked[n] \in Reached
  BY AskedFields
<1>4. Promise!Given("reply", q) \/ Promise!Given("error", q)
  BY <1>2, <1>3, GivenFields DEF AnswerTo, IsAnswer, Same
<1>5. QED
  BY <1>4 DEF Promise!Answered

\* The first letter is one that may be said.
LEMMA FirstSpeaks ==
  ASSUME PromiseInv, 1 \in DOMAIN outbound, outbound[1].to \in Reached
  PROVE  LET x == outbound[1].content
             q == [kind |-> x.kind, n |-> x.n]
         IN  /\ q \in Promise!Requests /\ Promise!HasTurn(q)
             /\ x.what = "text" => x.kind = "job" /\ ~Promise!Spoken(q)
<1>1. PICK x \in Contents : x = outbound[1].content
  BY PromiseTyped, QueueFields
<1>. DEFINE q == [kind |-> x.kind, n |-> x.n]
<1>2. TypeOK /\ Speaks(x, 0)
  BY <1>1, PromiseTyped DEF PromiseInv, SpeakInv
<1>3. Ran(x)
  BY <1>1 DEF PromiseInv, JobInv
<1>4. q \in Promise!Requests
  <2>1. x.kind = "user" => x.n \in DOMAIN asked
    BY <1>2 DEF Speaks
  <2>2. x.kind = "task" => x.n \in DOMAIN Spawned
    BY <1>2, SpawnedFields DEF Speaks
  <2>3. x.kind = "job" => x.n \in DOMAIN ran
    BY <1>3 DEF Ran
  <2>4. x.kind \in {"user", "task", "job"}
    BY DEF Contents
  <2>5. QED
    BY <2>1, <2>2, <2>3, <2>4 DEF Promise!Requests, Promise!Message, Promise!Task, Promise!Job, Spawned
<1>5. CASE x.kind = "user"
  <2>1. Fresh(x, 0) /\ x.what # "text" /\ x.n \in DOMAIN asked
    BY <1>2, <1>5 DEF Speaks
  <2>2. ~Promise!Answered(q)
    BY <1>2, <2>1, NotAnswered
  <2>3. ASSUME NEW m \in 1 .. x.n - 1 PROVE Promise!Answered(Promise!Message(m))
    <3>1. m \in DOMAIN asked
      BY <1>2, <2>1, AskedFields
    <3>2. Ahead(m, 0)
      BY <1>2, <1>5 DEF Speaks, Past
    <3>3. QED
      BY <1>2, <3>1, <3>2, AheadAnswered DEF Promise!Message
  <2>4. Promise!HasTurn(q)
    BY <1>5, <2>2, <2>3 DEF Promise!HasTurn
  <2>5. QED
    BY <1>1, <1>4, <2>1, <2>4
<1>6. CASE x.kind = "task"
  <2>1. Fresh(x, 0) /\ x.what # "text" /\ x.n \in DOMAIN tasks
    BY <1>2, <1>6 DEF Speaks
  <2>2. ~Promise!Answered(q)
    BY <1>2, <2>1, NotAnswered
  <2>3. ASSUME Spawned[x.n].by.kind = "user" PROVE Promise!Answered(Spawned[x.n].by)
    <3>1. tasks[x.n].by.kind = "user" /\ Spawned[x.n].by.n = tasks[x.n].by.n
      BY <2>1, <2>3 DEF Spawned
    <3>2. PICK n \in DOMAIN asked : SpawnedBy(x.n, n) /\ Spawned[x.n].by.n = n
      <4>1. tasks[x.n].by.n \in DOMAIN asked
        BY <2>1, <3>1, PromiseTyped DEF ReportInv
      <4>2. QED
        BY <3>1, <4>1 DEF SpawnedBy
    <3>3. Ahead(n, 0)
      BY <1>2, <1>6, <3>2 DEF Speaks
    <3>4. QED
      BY <1>2, <2>3, <3>2, <3>3, AheadAnswered
  <2>4. Promise!HasTurn(q)
    BY <1>6, <2>2, <2>3 DEF Promise!HasTurn, Spawned
  <2>5. QED
    BY <1>1, <1>4, <2>1, <2>4
<1>7. CASE x.kind = "job"
  <2>1. x.n \in DOMAIN ran /\ Len(ran) \in Nat /\ DOMAIN ran = 1 .. Len(ran)
    BY <1>2, <1>3, <1>7, RanFields DEF Ran
  <2>2. ASSUME NEW what, NEW p, p.kind = "job", p.n \in Nat, Promise!Given(what, p)
        PROVE  p.n =< x.n /\ (what = "text" \/ x.what = "text" => p.n < x.n)
    <3>1. PICK c \in Reached : \E i \in DOMAIN delivered[c] : delivered[c][i].what = what /\ Same(delivered[c][i], p)
      BY <1>2, <2>2, GivenFields
    <3>2. PICK i \in DOMAIN delivered[c] : delivered[c][i].what = what /\ Same(delivered[c][i], p)
      BY <3>1
    <3>3. JobPrecedes(delivered[c][i], x)
      BY <1>1 DEF PromiseInv, JobInv
    <3>4. QED
      BY <1>7, <2>2, <3>2, <3>3 DEF JobPrecedes, Same
  <2>3. ~Promise!Given("text", q)
    BY <1>7, <2>1, <2>2
  <2>4. ASSUME NEW n \in x.n + 1 .. Len(ran) PROVE ~Promise!Spoken(Promise!Job(n))
    <3>1. n \in Nat /\ n > x.n /\ x.n \in Nat
      BY <2>1
    <3>2. ASSUME NEW what, Promise!Given(what, Promise!Job(n)) PROVE FALSE
      BY <2>2, <3>1, <3>2 DEF Promise!Job
    <3>3. QED
      BY <3>2 DEF Promise!Spoken
  <2>5. Promise!HasTurn(q)
    BY <1>7, <2>3, <2>4 DEF Promise!HasTurn
  <2>6. x.what = "text" => ~Promise!Spoken(q)
    BY <1>7, <2>1, <2>2 DEF Promise!Spoken
  <2>7. QED
    BY <1>1, <1>4, <1>7, <2>5, <2>6
<1>8. QED
  BY <1>5, <1>6, <1>7 DEF Contents

\* What the dispatcher hands to a channel.
LEMMA RefineDispatch == PromiseInv /\ Dispatch => [Promise!Next]_(Promise!promiseVars)
<1>. SUFFICES ASSUME PromiseInv, Dispatch PROVE [Promise!Next]_(Promise!promiseVars)
  OBVIOUS
<1>1. TypeOK /\ HomeInv /\ UNCHANGED <<asked, ran, tasks>>
  BY PromiseTyped DEF Dispatch
<1>2. Spawned' = Spawned
  BY <1>1 DEF Spawned
<1>3. 1 \in DOMAIN outbound /\ Hand(outbound[1])
  <2>1. outbound \in Seq(Letter) /\ outbound # <<>>
    BY <1>1, QueueFields DEF Dispatch
  <2>2. 1 \in DOMAIN outbound /\ Head(outbound) = outbound[1]
    BY <1>1, <2>1, TailOfSeq
  <2>3. QED
    BY <2>2 DEF Dispatch
<1>4. CASE outbound[1].to \notin Reached
  BY <1>1, <1>2, <1>3, <1>4 DEF Hand, Promise!promiseVars, Spawned
<1>5. ASSUME NEW c \in Reached, outbound[1].to = c PROVE Promise!Next
  <2>1. PICK x \in Contents : x = outbound[1].content
    BY <1>1, <1>3, QueueFields
  <2>. DEFINE q == [kind |-> x.kind, n |-> x.n]
  <2>2. q \in Promise!Requests /\ Promise!HasTurn(q) /\ (x.what = "text" => x.kind = "job" /\ ~Promise!Spoken(q))
    BY <1>3, <1>5, <2>1, FirstSpeaks
  <2>3. Promise!Give(c, x)
    BY <1>1, <1>2, <1>3, <1>5, <2>1 DEF Hand, Promise!Give, Spawned
  <2>4. x = Promise!Content(x.what, q)
    BY DEF Contents, Promise!Content
  <2>5. Speaks(x, 0) /\ Ran(x) /\ Posted(x, c)
    BY <1>3, <1>5, <2>1 DEF PromiseInv, SpeakInv, JobInv
  <2>6. CASE x.what = "tool"
    <3>1. Promise!Say(q)
      BY <2>2, <2>3, <2>4, <2>6 DEF Promise!Say
    <3>2. QED
      BY <2>2, <3>1 DEF Promise!Next
  <2>7. CASE x.what = "text"
    <3>1. x.n \in DOMAIN ran /\ ran[x.n] = c /\ q = Promise!Job(x.n)
      BY <2>2, <2>5, <2>7 DEF Ran, Posted, Promise!Job
    <3>2. Promise!Post(x.n)
      BY <2>2, <2>3, <2>4, <2>7, <3>1 DEF Promise!Post
    <3>3. QED
      BY <3>1, <3>2 DEF Promise!Next
  <2>8. CASE IsAnswer(x) /\ x.kind = "user"
    <3>1. x.n \in DOMAIN asked /\ asked[x.n] = c /\ q = Promise!Message(x.n)
      BY <1>1, <1>3, <1>5, <2>1, <2>8 DEF HomeInv, AnswerFor, Promise!Message
    <3>2. Promise!Answer(x.n)
      BY <2>2, <2>3, <2>4, <2>8, <3>1 DEF Promise!Answer, IsAnswer
    <3>3. QED
      BY <3>1, <3>2 DEF Promise!Next
  <2>9. CASE IsAnswer(x) /\ x.kind # "user"
    <3>1. x.kind = "task" /\ x.n \in DOMAIN tasks /\ tasks[x.n].chat = c /\ q = Promise!Task(x.n)
      BY <1>1, <1>3, <1>5, <2>1, <2>9 DEF HomeInv, AnswerFor, Promise!Task
    <3>2. x.what = "reply"
      BY <2>5, <2>9, <3>1 DEF Speaks, IsAnswer
    <3>3. x.n \in DOMAIN Spawned /\ Spawned[x.n].chat = c
      BY <1>1, <3>1, SpawnedFields
    <3>4. Promise!Report(x.n)
      BY <2>2, <2>3, <2>4, <3>1, <3>2, <3>3 DEF Promise!Report, Spawned
    <3>5. QED
      BY <3>3, <3>4 DEF Promise!Next, Spawned
  <2>10. QED
    BY <2>6, <2>7, <2>8, <2>9 DEF Contents, IsAnswer
<1>6. QED
  BY <1>4, <1>5

\* What a goroutine that calls spawn has a turn for.
LEMMA RefineSpawn ==
  ASSUME PromiseInv, NEW a \in Agents, Spawn(a)
  PROVE  Promise!Spawn
<1>1. TypeOK /\ TurnInv /\ HomeInv /\ RequestsInv
  BY PromiseTyped
<1>2. PICK c \in Seen(a) : tasks' = Append(tasks, [state |-> "running", chat |-> c,
                                                   by |-> About("reply", req[a])])
  BY DEF Spawn
<1>3. req[a] \in Requests /\ c \in Chats /\ pc[a] = "call"
  BY <1>1, SeenTyped DEF Spawn, Executed, At, TurnInv, Busy
<1>. DEFINE new == [state |-> "running", chat |-> c, by |-> About("reply", req[a])]
            q   == [kind |-> req[a].kind, n |-> req[a].n]
            job == [chat |-> c, by |-> q]
<1>4. new \in TaskType /\ new.chat = c /\ new.by.kind = req[a].kind /\ new.by.n = req[a].n
  BY <1>3, AboutTyped DEF TaskType, About
<1>. HIDE DEF new
<1>5. /\ DOMAIN tasks = 1 .. Len(tasks) /\ DOMAIN tasks' = 1 .. Len(tasks) + 1 /\ Len(tasks) \in Nat
      /\ \A t \in DOMAIN tasks : t \in DOMAIN tasks' /\ tasks'[t] = tasks[t]
      /\ tasks'[Len(tasks) + 1] = new
  <2>1. tasks' = Append(tasks, new) /\ tasks \in Seq(TaskType)
    BY <1>1, <1>2, TaskFields DEF new
  <2>2. QED
    BY <1>1, <1>4, <2>1, TaskFields, AppendedSeq
<1>6. Spawned' = Append(Spawned, job) /\ Spawned' # Spawned
  <2>1. Spawned \in Seq([chat : Chats, by : [kind : {"user", "task", "job"}, n : Nat \ {0}]]) /\ Len(Spawned) = Len(tasks)
    <3>1. \A t \in 1 .. Len(tasks) : Spawned[t] \in [chat : Chats, by : [kind : {"user", "task", "job"}, n : Nat \ {0}]]
      BY <1>1, TaskFields DEF Spawned, TaskType, Contents
    <3>2. DOMAIN Spawned = 1 .. Len(tasks) /\ Spawned = [t \in 1 .. Len(tasks) |-> Spawned[t]]
      BY <1>5 DEF Spawned
    <3>3. QED
      BY <1>5, <3>1, <3>2, IsASeq, LenProperties
  <2>2. job \in [chat : Chats, by : [kind : {"user", "task", "job"}, n : Nat \ {0}]]
    BY <1>3 DEF Requests
  <2>3. /\ Append(Spawned, job) \in Seq([chat : Chats, by : [kind : {"user", "task", "job"}, n : Nat \ {0}]])
        /\ DOMAIN Append(Spawned, job) = 1 .. Len(tasks) + 1
        /\ \A t \in DOMAIN tasks : Append(Spawned, job)[t] = Spawned[t]
        /\ Append(Spawned, job)[Len(tasks) + 1] = job
    BY <1>5, <2>1, <2>2, AppendProperties, LenProperties
  <2>4. DOMAIN Spawned' = 1 .. Len(tasks) + 1
    BY <1>5 DEF Spawned
  <2>5. ASSUME NEW t \in 1 .. Len(tasks) + 1 PROVE Spawned'[t] = Append(Spawned, job)[t]
    <3>1. CASE t \in DOMAIN tasks
      <4>1. Spawned'[t] = Spawned[t]
        BY <1>5, <3>1 DEF Spawned
      <4>2. QED
        BY <2>3, <3>1, <4>1
    <3>2. CASE t = Len(tasks) + 1
      <4>1. Spawned'[t] = job
        BY <1>4, <1>5, <3>2 DEF Spawned
      <4>2. QED
        BY <2>3, <3>2, <4>1
    <3>3. t \in DOMAIN tasks \/ t = Len(tasks) + 1
      BY <1>5
    <3>4. QED
      BY <3>1, <3>2, <3>3
  <2>6. Spawned' = [t \in 1 .. Len(tasks) + 1 |-> Spawned'[t]]
    BY <1>5 DEF Spawned
  <2>7. Append(Spawned, job) = [t \in 1 .. Len(tasks) + 1 |-> Append(Spawned, job)[t]]
    BY <2>3
  <2>8. Spawned' # Spawned
    BY <1>5, <2>1, <2>4, LenProperties
  <2>9. QED
    BY <2>5, <2>6, <2>7, <2>8
<1>7. q \in Promise!Requests /\ Promise!Open(q)
  <2>1. CASE a = "loop"
    <3>1. IsRequest(req["loop"]) /\ Unanswered(req["loop"]) /\ req["loop"] = req[a]
      BY <1>1, <1>3, <2>1 DEF HomeInv, RequestsInv, Busy
    <3>2. Fresh(req[a], 0)
      BY <1>1, <3>1, FreshRequest
    <3>3. ~Promise!Answered(q)
      BY <1>1, <3>2, NotAnswered
    <3>4. \/ req[a].kind = "user" /\ req[a].n \in DOMAIN asked
          \/ req[a].kind = "task" /\ req[a].n \in DOMAIN Spawned
      BY <1>1, <3>1, SpawnedFields DEF IsRequest
    <3>5. QED
      BY <3>3, <3>4 DEF Promise!Requests, Promise!Message, Promise!Task, Promise!Open, Spawned
  <2>2. CASE a = "cron"
    <3>1. req[a].kind = "job" /\ req[a].n = Len(ran) /\ Len(ran) \in DOMAIN ran
      BY <1>1, <1>3, <2>2 DEF TurnInv, Busy, PromiseInv, JobInv
    <3>2. QED
      BY <3>1 DEF Promise!Requests, Promise!Job, Promise!Open
  <2>3. QED
    BY <2>1, <2>2 DEF Agents
<1>8. UNCHANGED <<asked, ran, delivered>>
  BY DEF Spawn, Executed, history
<1>9. \E chat \in Chats, r \in Promise!Requests :
        Promise!Open(r) /\ Spawned' = Append(Spawned, [chat |-> chat, by |-> r])
  <2>. HIDE DEF q
  <2>1. QED
    BY <1>3, <1>6, <1>7
<1>10. QED
  BY <1>6, <1>8, <1>9, Zenon DEF Promise!Spawn, Spawned

LEMMA RefineStep == PromiseInv /\ [Next]_vars => [Promise!Next]_(Promise!promiseVars)
<1>. SUFFICES ASSUME PromiseInv, [Next]_vars PROVE [Promise!Next]_(Promise!promiseVars)
  OBVIOUS
<1>1. TypeOK
  BY PromiseTyped
<1>2. UNCHANGED <<history, tasks>> => UNCHANGED Promise!promiseVars
  BY DEF history, Promise!promiseVars
<1>3. ASSUME NEW s \in Senders, NEW c \in Reached, HandleMessage(s, c) PROVE Promise!Next
  <2>1. Promise!Ask(c)
    BY <1>3 DEF HandleMessage, Promise!Ask
  <2>2. QED
    BY <2>1 DEF Promise!Next
<1>4. ASSUME NEW c \in JobChats, RunJob(c) PROVE Promise!Next
  <2>1. Promise!Run(c) /\ c \in Chats
    BY <1>4, JobAssumption DEF RunJob, Promise!Run
  <2>2. QED
    BY <2>1 DEF Promise!Next
<1>5. CASE ConsumeInbound
  BY <1>2, <1>5 DEF ConsumeInbound
<1>6. ASSUME NEW a \in Agents, Turn(a) PROVE [Promise!Next]_(Promise!promiseVars)
  <2>1. CASE Spawn(a)
    <3>1. Promise!Spawn
      BY <2>1, RefineSpawn
    <3>2. QED
      BY <3>1 DEF Promise!Next
  <2>2. CASE (\E t \in Tools : CallTool(a, t)) \/ SetContext(a) \/ SendMessage(a) \/ Answer(a) \/ Fail(a)
    BY <1>2, <2>2 DEF CallTool, SetContext, SendMessage, Executed, Answer, Fail, End
  <2>3. QED
    BY <1>6, <2>1, <2>2 DEF Turn
<1>7. CASE Finish
  BY <1>2, <1>7 DEF Finish, SendResponse, Publish, Return, End
<1>8. ASSUME NEW t \in DOMAIN tasks, Task(t) PROVE UNCHANGED Promise!promiseVars
  <2>1. PICK st : tasks' = [tasks EXCEPT ![t].state = st]
    BY <1>8 DEF Task, FinishTask, Announce
  <2>2. DOMAIN tasks' = DOMAIN tasks
        /\ \A u \in DOMAIN tasks : tasks'[u].chat = tasks[u].chat /\ tasks'[u].by = tasks[u].by
    BY <1>1, <2>1, TaskSet
  <2>3. Spawned' = Spawned
    BY <2>2 DEF Spawned
  <2>4. UNCHANGED history
    BY <1>8 DEF Task, FinishTask, Announce
  <2>5. QED
    BY <2>3, <2>4 DEF Spawned, history, Promise!promiseVars
<1>9. CASE Dispatch
  BY <1>9, RefineDispatch
<1>10. CASE UNCHANGED vars
  BY <1>2, <1>10 DEF vars
<1>11. QED
  BY <1>3, <1>4, <1>5, <1>6, <1>7, <1>8, <1>9, <1>10 DEF Next

LEMMA PromiseHolds == Spec => []PromiseInv
BY PromiseInit, PromiseStep, PTL DEF Spec

-----------------------------------------------------------------------------
(* The lock of the subagents.                                              *)

\* sm.mu is held by the one subagent that announces its result.
LockInv == \A t \in DOMAIN tasks : tasks[t].state = "announcing" <=> t = lock

LEMMA LockStep == TypeOK /\ TurnInv /\ LockInv /\ [Next]_vars => LockInv'
<1>. SUFFICES ASSUME TypeOK, TurnInv, LockInv, [Next]_vars PROVE LockInv'
  OBVIOUS
<1>1. DOMAIN tasks = 1 .. Len(tasks) /\ Len(tasks) \in Nat /\ lock \in 0 .. Len(tasks)
  BY TaskFields DEF TypeOK
<1>2. ASSUME UNCHANGED <<tasks, lock>> PROVE LockInv'
  BY <1>2 DEF LockInv
<1>3. ASSUME NEW a \in Agents, Spawn(a) PROVE LockInv'
  <2>1. PICK c \in Seen(a) : tasks' = Append(tasks, [state |-> "running", chat |-> c,
                                                     by |-> About("reply", req[a])])
    BY <1>3 DEF Spawn
  <2>. DEFINE new == [state |-> "running", chat |-> c, by |-> About("reply", req[a])]
  <2>2. req[a] \in Requests /\ c \in Chats
    BY <1>3, SeenTyped DEF Spawn, Executed, At, TurnInv, Busy
  <2>3. new \in TaskType /\ new.state = "running"
    BY <2>2, AboutTyped DEF TaskType
  <2>. HIDE DEF new
  <2>4. /\ DOMAIN tasks' = 1 .. Len(tasks) + 1
        /\ \A t \in DOMAIN tasks : tasks'[t] = tasks[t]
        /\ tasks'[Len(tasks) + 1].state = "running"
    <3>1. tasks' = Append(tasks, new) /\ tasks \in Seq(TaskType)
      BY <2>1, TaskFields DEF new
    <3>2. QED
      BY <2>3, <3>1, AppendedSeq
  <2>5. lock = 0 /\ lock' = 0
    BY <1>3 DEF Spawn, Executed
  <2>6. QED
    BY <1>1, <2>4, <2>5 DEF LockInv
<1>4. ASSUME NEW t \in DOMAIN tasks, FinishTask(t) PROVE LockInv'
  <2>1. /\ DOMAIN tasks' = DOMAIN tasks /\ tasks'[t].state = "announcing"
        /\ \A u \in DOMAIN tasks \ {t} : tasks'[u] = tasks[u]
    BY <1>4, TaskSet DEF FinishTask
  <2>2. lock = 0 /\ lock' = t
    BY <1>4 DEF FinishTask
  <2>3. QED
    BY <1>1, <2>1, <2>2 DEF LockInv
<1>5. ASSUME NEW t \in DOMAIN tasks, Announce(t) PROVE LockInv'
  <2>1. /\ DOMAIN tasks' = DOMAIN tasks /\ tasks'[t].state = "done"
        /\ \A u \in DOMAIN tasks \ {t} : tasks'[u] = tasks[u]
    BY <1>5, TaskSet DEF Announce
  <2>2. t = lock /\ lock' = 0
    BY <1>5 DEF Announce, LockInv
  <2>3. QED
    BY <1>1, <2>1, <2>2 DEF LockInv
<1>6. ASSUME NEW a \in Agents, Turn(a) PROVE LockInv'
  BY <1>2, <1>3, <1>6 DEF Turn, CallTool, SetContext, SendMessage, Executed, Answer, Fail, End
<1>7. CASE Finish
  BY <1>2, <1>7 DEF Finish, SendResponse, Publish, Return, End
<1>8. CASE \/ \E s \in Senders, c \in Reached : HandleMessage(s, c)
           \/ \E c \in JobChats : RunJob(c)
           \/ ConsumeInbound \/ Dispatch \/ UNCHANGED vars
  BY <1>2, <1>8 DEF HandleMessage, RunJob, ConsumeInbound, Dispatch, vars
<1>9. QED
  BY <1>4, <1>5, <1>6, <1>7, <1>8 DEF Next, Task

-----------------------------------------------------------------------------
(* The theorems.                                                           *)

\* Every variable keeps to its values, the queues to their capacities and the subagents
\* to their bound.
THEOREM TypeCorrect == Spec => []TypeOK
<1>1. IInv => TypeOK
  BY DEF IInv, TypeInv
<1>2. QED
  BY <1>1, InvHolds, PTL

\* Run (pkg/agent/loop.go) publishes what processMessage returns and
\* processSystemMessage has already sent what it answers to an announcement: a message
\* or an announcement is answered at most once nevertheless, in the chat it is for.
THEOREM OneAnswerAtHome == Spec => []AnsweredOnceAtHome
<1>1. IInv => AnsweredOnceAtHome
  <2>. SUFFICES ASSUME TypeOK, HomeInv, AnswersInv, NEW c \in Reached
                PROVE  /\ \A i \in Answers(c) : Home(delivered[c][i]) = c
                       /\ \A i, j \in Answers(c) :
                            delivered[c][i].kind = delivered[c][j].kind /\ delivered[c][i].n = delivered[c][j].n
                              => i = j
    BY DEF IInv, TypeInv, AnsweredOnceAtHome
  <2>1. \A i \in Answers(c) : i \in DOMAIN delivered[c] /\ i \in Nat /\ IsAnswer(delivered[c][i])
                              /\ delivered[c][i] \in Contents
    BY QueueFields DEF Answers, IsAnswer
  <2>2. ASSUME NEW i \in Answers(c) PROVE Home(delivered[c][i]) = c
    <3>1. AnswerFor(delivered[c][i], c)
      BY <2>1 DEF HomeInv
    <3>2. QED
      BY <3>1 DEF AnswerFor, Home
  <2>3. ASSUME NEW i \in Answers(c), NEW j \in Answers(c), i # j,
               delivered[c][i].kind = delivered[c][j].kind, delivered[c][i].n = delivered[c][j].n
        PROVE  FALSE
    <3>1. delivered[c][i].n \in Nat
      BY <2>1 DEF Contents
    <3>2. Precedes(delivered[c][i], delivered[c][j]) \/ Precedes(delivered[c][j], delivered[c][i])
      BY <2>1, <2>3 DEF AnswersInv
    <3>3. QED
      BY <2>3, <3>1, <3>2 DEF Precedes
  <2>4. QED
    BY <2>2, <2>3
<1>2. QED
  BY <1>1, InvHolds, PTL

\* Two messages of a chat are answered in the order in which they were accepted, through
\* the two queues, the one loop that empties the inbound queue, and the dispatcher.
THEOREM AnswersKeepOrder == Spec => []AnswersInOrder
<1>1. IInv => AnswersInOrder
  <2>. SUFFICES ASSUME TypeOK, AnswersInv, NEW c \in Reached, NEW i \in Answers(c), NEW j \in Answers(c),
                       i < j, delivered[c][i].kind = "user", delivered[c][j].kind = "user"
                PROVE  delivered[c][i].n < delivered[c][j].n
    BY DEF IInv, TypeInv, AnswersInOrder
  <2>1. Precedes(delivered[c][i], delivered[c][j])
    BY DEF AnswersInv, Answers, IsAnswer
  <2>2. QED
    BY <2>1 DEF Precedes
<1>2. QED
  BY <1>1, InvHolds, PTL

\* The announcement of a subagent waits in the inbound queue until the turn that spawned
\* it has been answered: the user does not read the report before the answer.
THEOREM ReportsComeAfter == Spec => []ReportAfterAnswer
<1>1. IInv => ReportAfterAnswer
  <2>. SUFFICES ASSUME TypeOK, HomeInv, ReportInv, NEW c \in Reached, NEW j \in Answers(c),
                       delivered[c][j].kind = "task",
                       tasks[delivered[c][j].n].by.kind = "user",
                       asked[tasks[delivered[c][j].n].by.n] = c
                PROVE  \E i \in Answers(c) :
                         /\ i < j
                         /\ delivered[c][i].kind = "user"
                         /\ delivered[c][i].n = tasks[delivered[c][j].n].by.n
    BY DEF IInv, TypeInv, ReportAfterAnswer
  <2>. DEFINE n == tasks[delivered[c][j].n].by.n
  <2>1. j \in DOMAIN delivered[c] /\ j \in Nat /\ IsAnswer(delivered[c][j])
    BY QueueFields DEF Answers, IsAnswer
  <2>2. Report(delivered[c][j], n)
    BY <2>1 DEF Report, SpawnedBy
  <2>3. n \in DOMAIN asked
    BY <2>1 DEF HomeInv, AnswerFor, ReportInv
  <2>4. Given(n, j - 1)
    BY <2>1, <2>2, <2>3 DEF ReportInv
  <2>5. PICK i \in DOMAIN delivered[c] : i =< j - 1 /\ AnswerTo(delivered[c][i], n)
    BY <2>4 DEF Given
  <2>6. i \in Nat
    BY <2>5, QueueFields
  <2>7. QED
    BY <2>1, <2>5, <2>6 DEF Answers, AnswerTo, IsAnswer
<1>2. QED
  BY <1>1, InvHolds, PTL

\* The queues, the lock of the subagents and the two goroutines that run turns are
\* nothing that a user could tell from one agent that takes the messages of all chats
\* one by one: none is passed over, what is said of a message comes after the answers to
\* all before it and before its own, a report comes when the message it was spawned for
\* is answered, and what jobs say comes in the order of their runs.
THEOREM PromiseKept == Spec => KeepsPromise
BY RefineInit, RefineStep, PromiseHolds, PTL DEF Spec, KeepsPromise, Promise!Spec, Promise!promiseVars

\* The subagents take turns in announcing, with sm.mu held until their announcement is
\* on the inbound queue (pkg/tools/subagent.go): whoever waits for sm.mu waits for that.
THEOREM LockIsExclusive == Spec => []LockInv
<1>1. Init => LockInv
  <2>1. Init => tasks = <<>>
    BY Zenon DEF Init
  <2>2. QED
    BY <2>1 DEF LockInv
<1>2. IInv /\ LockInv /\ [Next]_vars => LockInv'
  BY LockStep DEF IInv, TypeInv
<1>3. QED
  BY <1>1, <1>2, InvHolds, PTL DEF Spec

\* HandleMessage, processMessage and Run keep a message that was accepted until its
\* answer is published, and the dispatcher that until its channel has it.
THEOREM NoMessageLost == Spec => []CompleteInv
<1>1. PromiseInv => CompleteInv
  BY DEF PromiseInv
<1>2. QED
  BY <1>1, PromiseHolds, PTL

\* Once the loop waits in Spawn for sm.mu and its holder for room on the inbound queue,
\* no goroutine, user, job or answer of an LLM ends that: only a restart does.
THEOREM StuckForEver == Spec => [][Stuck => Stuck']_vars
<1>1. ASSUME IInv, [Next]_vars, Stuck PROVE Stuck'
  <2>. USE DEF At, Goto
  <2>1. /\ TypeOK /\ pc["loop"] = "call" /\ tool["loop"] = "spawn" /\ lock # 0 /\ ~(Len(inbound) < InCap)
        /\ Len(inbound) = InCap /\ inbound \in Seq(Requests)
    BY <1>1, BoundsAssumption DEF IInv, TypeInv, TypeOK, Stuck
  <2>2. /\ (\E l : pc' = [pc EXCEPT !["cron"] = l]) => pc'["loop"] = pc["loop"]
        /\ (\E t : tool' = [tool EXCEPT !["cron"] = t]) => tool'["loop"] = tool["loop"]
    <3>1. pc \in [Agents -> Labels] /\ tool \in [Agents -> Tools]
      BY <2>1 DEF TypeOK
    <3>2. QED
      BY <3>1 DEF Agents
  <2>3. ASSUME pc'["loop"] = pc["loop"], tool'["loop"] = tool["loop"], UNCHANGED <<lock, inbound>>
        PROVE  Stuck'
    BY <2>1, <2>3 DEF Stuck
  <2>4. ASSUME NEW a \in Agents, Turn(a) PROVE Stuck'
    <3>1. CASE a = "loop"
      BY <2>1, <2>4, <3>1 DEF Turn, CallTool, SetContext, SendMessage, Spawn, Answer, Fail
    <3>2. CASE a = "cron"
      <4>1. (\E l : pc' = [pc EXCEPT !["cron"] = l]) /\ (tool' = tool \/ \E t : tool' = [tool EXCEPT !["cron"] = t])
        BY <2>4, <3>2 DEF Turn, CallTool, SetContext, SendMessage, Executed, Spawn, Answer, Fail, End
      <4>2. UNCHANGED <<lock, inbound>>
        BY <2>4 DEF Turn, CallTool, SetContext, SendMessage, Executed, Spawn, Answer, Fail, End
      <4>3. QED
        BY <2>2, <2>3, <4>1, <4>2
    <3>3. QED
      BY <3>1, <3>2 DEF Agents
  <2>5. CASE Finish
    <3>1. Return
      BY <2>1, <2>5 DEF Finish, SendResponse, Publish
    <3>2. pc'["loop"] = pc["loop"]
      BY <2>1, <3>1 DEF Return, End, TypeOK
    <3>3. QED
      BY <2>3, <3>1, <3>2 DEF Return, End
  <2>6. ASSUME NEW c \in JobChats, RunJob(c) PROVE Stuck'
    <3>1. tool' = tool /\ (pc' = pc \/ \E l : pc' = [pc EXCEPT !["cron"] = l])
      BY <2>6 DEF RunJob, Begin, goroutine
    <3>2. QED
      BY <2>2, <2>3, <2>6, <3>1 DEF RunJob
  <2>7. ~ConsumeInbound /\ \A s \in Senders, c \in Reached : ~HandleMessage(s, c)
    BY <2>1 DEF ConsumeInbound, Begin, HandleMessage, PublishInbound
  <2>8. \A t \in DOMAIN tasks : ~Task(t)
    BY <2>1 DEF Task, FinishTask, Announce, PublishInbound
  <2>9. CASE Dispatch \/ UNCHANGED vars
    BY <2>3, <2>9 DEF Dispatch, vars, goroutine
  <2>10. QED
    BY <1>1, <2>4, <2>5, <2>6, <2>7, <2>8, <2>9 DEF Next
<1>2. QED
  BY <1>1, InvHolds, PTL DEF Spec
=============================================================================
