---------------------------- MODULE SlackChannel ----------------------------
(***************************************************************************)
(* The Slack channel (pkg/channels/slack.go): one goroutine handles the    *)
(* events of a workspace.  A message, or a mention of the bot, is          *)
(* acknowledged by a reaction and remembered in pendingAcks under its chat *)
(* id; the next text that Send posts in that chat marks it as done.        *)
(* A chat is the channel (0) or the thread of message number t.            *)
(***************************************************************************)
EXTENDS ChannelManager

VARIABLES
  pending,          (* pendingAcks: the message to mark, by chat            *)
  checked           (* the messages with a check mark                       *)

slackVars == <<pending, checked>>

SlackChats == 0 .. MaxEvents

SlackInit == pending = [c \in SlackChats |-> 0] /\ checked = {}

\* Something of a chat is on its way to the agent or back, or waits for a text.
Busy(c) ==
  \/ pending[c] # 0
  \/ \E i \in DOMAIN inbox : events[inbox[i]].chat = c
  \/ \E i \in DOMAIN outbox : outbox[i].chat = c
  \/ sending # Idle /\ sending.text.chat = c

Acknowledge(d, c) == pending' = [pending EXCEPT ![c] = d]

Received(event) ==
  /\ channel = "slack" /\ Listening /\ Active = {}
  /\ events' = Append(events, event)
  /\ Disturb("overlap", Busy(event.chat))
  /\ UNCHANGED <<channel, phase, running, link, inbox, outbox, sending, posted, faults, given, checked>>

\* handleMessageEvent, in the channel or in the thread of an earlier message.
HandleMessageEvent(t, allowed, empty) ==
  LET d == Len(events) + 1
  IN  /\ Listening /\ t < d
      /\ IF allowed THEN Acknowledge(d, t) ELSE UNCHANGED pending
      /\ Received(Event(d, t, allowed, empty, IF allowed THEN "ready" ELSE "dropped"))

\* Mutant: the acknowledgement is filed under the channel.
HandleAppMention_Channel(t, allowed, empty) ==
  LET d == Len(events) + 1
      c == IF t = 0 THEN d ELSE t
  IN  /\ Listening /\ t < d
      /\ Acknowledge(d, 0)
      /\ Received(Event(d, c, allowed, empty, "ready"))

\* handleAppMention, in the channel, which begins a thread, or in a thread; who
\* is not allowed is found out by HandleMessage.
HandleAppMention(t, allowed, empty) ==
  LET d == Len(events) + 1
      c == IF t = 0 THEN d ELSE t
  IN  /\ Listening /\ t < d
      /\ Acknowledge(d, c)
      /\ Received(Event(d, c, allowed, empty, "ready"))

\* handleSlashCommand has no message to mark; an empty one is "help".
HandleSlashCommand(allowed) ==
  /\ Received(Event(0, 0, allowed, FALSE, "ready"))
  /\ UNCHANGED pending

\* Send: the text is posted, then what is pending in its chat is marked.
SlackSend ==
  /\ channel = "slack"
  /\ \/ /\ Sending("send")
        /\ \/ Show /\ Proceed("mark") /\ UNCHANGED faults
           \/ Fault /\ (Show \/ Unseen) /\ sending' = Idle
        /\ UNCHANGED slackVars
     \/ /\ Sending("mark")
        /\ LET c == sending.text.chat
           IN  /\ checked' = checked \cup ({pending[c]} \ {0})
               /\ pending' = [pending EXCEPT ![c] = 0]
        /\ sending' = Idle
        /\ UNCHANGED <<posted, faults>>
  /\ UNCHANGED untidy /\ InSend

SlackTypeOK == pending \in [SlackChats -> 0 .. MaxEvents] /\ checked \subseteq 1 .. MaxEvents
=============================================================================
