--------------------------- MODULE GatewayPromise ---------------------------
(***************************************************************************)
(* What the gateway promises to those who write in its chats, whatever     *)
(* goroutines, queues and locks are behind it.  It is as if one agent took *)
(* the messages of all chats one by one, in the order in which they came:  *)
(* it answers each once, in its chat, before it turns to the next, and it  *)
(* says nothing of a message before its turn or after its answer.  A       *)
(* subagent reports once, in the chat it was given, when the message it    *)
(* was spawned for is answered.  Jobs speak in the order of their runs.    *)
(***************************************************************************)
EXTENDS Naturals, Sequences

CONSTANTS
  Reached,              (* the chats of channels that are enabled           *)
  Chats                 (* those and others that a job may name             *)

VARIABLES
  asked, ran,           (* the chats of messages accepted and of jobs run   *)
  spawned,              (* per subagent, its chat and what it is spawned for *)
  delivered             (* per chat, what was sent there                    *)

promiseVars == <<asked, ran, spawned, delivered>>

\* What the agent has turns for: messages, reports of subagents and jobs.
Message(n) == [kind |-> "user", n |-> n]
Task(t)    == [kind |-> "task", n |-> t]
Job(n)     == [kind |-> "job", n |-> n]

Requests == {Message(n) : n \in DOMAIN asked} \cup {Task(t) : t \in DOMAIN spawned}
            \cup {Job(n) : n \in DOMAIN ran}

Content(what, r) == [what |-> what, kind |-> r.kind, n |-> r.n]

Given(what, r) ==
  \E c \in Reached : \E i \in DOMAIN delivered[c] : delivered[c][i] = Content(what, r)

Answered(r) == Given("reply", r) \/ Given("error", r)
Spoken(r)   == Given("tool", r) \/ Given("text", r)

\* The turn of r may go on, and the outcome of what comes before is known.
Open(r) == IF r.kind = "job" THEN r.n = Len(ran) ELSE ~Answered(r)

HasTurn(r) ==
  CASE r.kind = "user" -> ~Answered(r) /\ \A m \in 1 .. r.n - 1 : Answered(Message(m))
    [] r.kind = "task" -> ~Answered(r) /\ LET by == spawned[r.n].by
                                          IN  by.kind = "user" => Answered(by)
    [] r.kind = "job"  -> ~Given("text", r) /\ \A n \in r.n + 1 .. Len(ran) : ~Spoken(Job(n))

Give(c, x) ==
  /\ c \in Reached
  /\ delivered' = [delivered EXCEPT ![c] = Append(@, x)]
  /\ UNCHANGED <<asked, ran, spawned>>

-----------------------------------------------------------------------------
Init ==
  /\ asked = <<>> /\ ran = <<>> /\ spawned = <<>>
  /\ delivered = [c \in Reached |-> <<>>]

Ask(c) == asked' = Append(asked, c) /\ UNCHANGED <<ran, spawned, delivered>>

Run(c) == ran' = Append(ran, c) /\ UNCHANGED <<asked, spawned, delivered>>

Spawn ==
  /\ spawned' # spawned
  /\ \E c \in Chats, r \in Requests :
       Open(r) /\ spawned' = Append(spawned, [chat |-> c, by |-> r])
  /\ UNCHANGED <<asked, ran, delivered>>

Answer(n) ==
  /\ \E what \in {"reply", "error"} : Give(asked[n], Content(what, Message(n)))
  /\ HasTurn(Message(n))

Report(t) == Give(spawned[t].chat, Content("reply", Task(t))) /\ HasTurn(Task(t))

\* The text of a job; the job speaks no further.
Post(n) == Give(ran[n], Content("text", Job(n))) /\ HasTurn(Job(n)) /\ ~Spoken(Job(n))

\* What a turn sends with the message tool, to any chat: two turns share its context.
Say(r) == (\E c \in Reached : Give(c, Content("tool", r))) /\ HasTurn(r)

Next ==
  \/ \E c \in Reached : Ask(c)
  \/ \E c \in Chats : Run(c)
  \/ Spawn
  \/ \E n \in DOMAIN asked : Answer(n)
  \/ \E t \in DOMAIN spawned : Report(t)
  \/ \E n \in DOMAIN ran : Post(n)
  \/ \E r \in Requests : Say(r)

Spec == Init /\ [][Next]_promiseVars
=============================================================================
