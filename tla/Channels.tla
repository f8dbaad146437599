------------------------------ MODULE Channels ------------------------------
(***************************************************************************)
(* An installation: the manager and its dispatcher (ChannelManager) with   *)
(* one of the eight channels (TelegramChat, SlackChannel, OtherChannels),  *)
(* from the start of the gateway to its end.                               *)
(***************************************************************************)
EXTENDS TelegramChat, SlackChannel, OtherChannels

adapters == <<telegramVars, slackVars, otherVars>>
vars     == <<core, adapters>>

Init == CoreInit /\ TelegramInit /\ SlackInit /\ OtherInit

ChatsOfJobs ==
  CASE channel \in {"telegram", "maixcam"} -> {0}
    [] channel = "slack" -> SlackChats
    [] OTHER -> Chats

\* A text for a chat of Slack marks the message that waits there for its answer.
SendJobText(chat) ==
  /\ JobText(chat)
  /\ Disturb("overlap", channel = "slack" /\ pending[chat] # 0)

\* Stop of WhatsApp and of MaixCam takes the lock that Send holds during a write.
Stop == sending.at # "write" /\ Stopping /\ StopTelegram /\ UNCHANGED <<placeholder, stop, mid, slackVars, otherVars>>

Events == 1 .. MaxEvents

Next ==
  \/ BeginStartAll /\ UNCHANGED adapters
  \/ EndStartAll /\ UNCHANGED adapters
  \/ Respond /\ UNCHANGED adapters
  \/ \E chat \in ChatsOfJobs : SendJobText(chat) /\ UNCHANGED adapters
  \/ Take /\ UNCHANGED adapters
  \/ Lookup /\ UNCHANGED adapters
  \/ \E d \in DOMAIN events : HandleMessage(d) /\ UNCHANGED adapters
  \/ Stop
  \/ \E allowed \in BOOLEAN : HandleTelegram(allowed) /\ UNCHANGED <<slackVars, otherVars>>
  \/ \E d \in DOMAIN events : PostThinking(d) /\ UNCHANGED <<slackVars, otherVars>>
  \/ \E d \in DOMAIN events : StorePlaceholder(d) /\ UNCHANGED <<slackVars, otherVars>>
  \/ \E d \in Events : Animate(d) /\ UNCHANGED <<slackVars, otherVars>>
  \/ \E d \in Events : ThinkingTimeout(d) /\ UNCHANGED <<slackVars, otherVars>>
  \/ TelegramSend /\ UNCHANGED <<slackVars, otherVars>>
  \/ \E t \in SlackChats : \E allowed, empty \in BOOLEAN :
       \/ HandleMessageEvent(t, allowed, empty) /\ UNCHANGED <<telegramVars, otherVars>>
       \/ HandleAppMention(t, allowed, empty) /\ UNCHANGED <<telegramVars, otherVars>>
  \/ \E allowed \in BOOLEAN : HandleSlashCommand(allowed) /\ UNCHANGED <<telegramVars, otherVars>>
  \/ SlackSend /\ UNCHANGED <<telegramVars, otherVars>>
  \/ \E chat \in Chats : \E allowed, empty \in BOOLEAN :
       \/ \E m \in Events : HandleQQ(m, chat, allowed, empty) /\ UNCHANGED <<telegramVars, slackVars>>
       \/ HandleDingTalk(chat, allowed, empty) /\ UNCHANGED <<telegramVars, slackVars>>
       \/ HandleDiscord(chat, allowed, empty) /\ UNCHANGED <<telegramVars, slackVars>>
  \/ \E chat \in Chats : \E allowed \in BOOLEAN :
       \/ HandleFeishu(chat, allowed) /\ UNCHANGED <<telegramVars, slackVars>>
       \/ HandleWhatsApp(chat, allowed) /\ UNCHANGED <<telegramVars, slackVars>>
  \/ \E allowed \in BOOLEAN : HandlePersonDetection(allowed) /\ UNCHANGED <<telegramVars, slackVars>>
  \/ LatePost /\ UNCHANGED <<telegramVars, slackVars>>
  \/ LoseBridge /\ UNCHANGED <<telegramVars, slackVars>>
  \/ FailRead /\ UNCHANGED <<telegramVars, slackVars>>
  \/ Connect /\ UNCHANGED <<telegramVars, slackVars>>
  \/ Disconnect /\ UNCHANGED <<telegramVars, slackVars>>
  \/ OtherSend /\ UNCHANGED <<telegramVars, slackVars>>

Spec == Init /\ [][Next]_vars

\* What the code and Go's scheduler provide: the dispatcher goes on, except from a
\* request to the platform to which the code sets no limit, see InRequest (QQ gives
\* a request 5 seconds, Discord's Send waits 10), and the context of an animation
\* ends.  Handlers, the agent and the platform are under no obligation.
Dispatcher ==
  \/ (Take \/ Lookup) /\ UNCHANGED adapters
  \/ /\ StopThinking \/ DeleteStop \/ LoadPlaceholder \/ DeletePlaceholder
     /\ UNCHANGED <<slackVars, otherVars>>
  \/ Sending("mark") /\ pending[sending.text.chat] = 0 /\ SlackSend /\ UNCHANGED <<telegramVars, otherVars>>
  \/ /\ \/ SendQQ \/ SendDiscord \/ DiscordTimeout
        \/ sending.text.chat \notin hooks /\ SendDingTalk
        \/ Sending("send") /\ (SendWhatsApp \/ SendMaixCam)
     /\ UNCHANGED <<telegramVars, slackVars>>

Fairness ==
  /\ WF_vars(Dispatcher)
  /\ \A d \in Events : WF_vars(ThinkingTimeout(d) /\ UNCHANGED <<slackVars, otherVars>>)

FairSpec == Spec /\ Fairness

-----------------------------------------------------------------------------
(* Properties.                                                             *)

\* Every variable keeps to the values the code can give it; what is published or
\* queued is what was received or given.
TypeOK == CoreTypeOK /\ TelegramTypeOK /\ SlackTypeOK /\ OtherTypeOK

Quiet == inbox = <<>> /\ outbox = <<>> /\ sending = Idle /\ Active = {}
Calm  == phase = "up" /\ Quiet /\ faults = 0

\* The texts that reach their chat if nothing fails: not those for a group of QQ,
\* nor those of jobs where a user has to make contact first.
Owed(text) ==
  /\ channel = "qq" => text.chat = 0
  /\ channel \in {"dingtalk", "maixcam"} => text.of # 0

\* When all is quiet, nothing failed and nothing was late, users see every text
\* once and in its chat, also those given before the channel was up, and however
\* messages and answers overlapped; in Telegram, in the order they were given and
\* without a "Thinking..." that is left over if none overlapped, in every other
\* channel in that order in any case.
Delivered ==
  Calm /\ "late" \notin untidy =>
    LET Seen == {p \in DOMAIN posted : posted[p].id = 0 \/ Owed(given[posted[p].id])}
    IN  /\ \A text \in ToSet(given) : Owed(text) =>
             \E p \in Seen : /\ posted[p] = [chat |-> text.chat, id |-> text.id]
                             /\ \A q \in Seen : posted[q].id = text.id => q = p
        /\ channel # "telegram" \/ untidy = {} =>
             \A p, q \in Seen : posted[p].id # 0 /\ (p < q => posted[p].id < posted[q].id)

\* A text users see is never overwritten by another text: Send of Telegram edits a
\* placeholder at most once, whatever handlers and animations do meanwhile.
TextsApart ==
  [][\A i \in DOMAIN posted : posted[i].id # 0 => posted'[i].id \in {posted[i].id, 0}]_vars

\* Slack: the messages with a check mark are those that were answered, if every
\* message came when its chat was idle and no job wrote in it.
ChecksMatch ==
  channel = "slack" /\ Calm /\ untidy = {} =>
    checked = {d \in DOMAIN events : events[d].at = "published" /\ events[d].m = d}

\* QQ: as long as the ids fit in the map, a message that is delivered again is
\* given to the agent once, however the deliveries overlap.
HandledOnce ==
  channel = "qq" /\ Cardinality({events[d].m : d \in DOMAIN events}) <= Limit =>
    \A c, d \in DOMAIN events :
      events[c].m = events[d].m /\ events[c].at # "dropped" /\ events[d].at # "dropped" => c = d

\* Every animation of Telegram ends, also one whose cancel function Send removed
\* from the map in place of another.
AnimationsEnd == \A d \in Events : Animated(d) ~> anim[d] \in {"late", "off"}

\* The dispatcher waits for an answer of the platform that may never come: the
\* clients of Telegram, Slack, Feishu and DingTalk are given no timeout, the writes
\* to the bridge of WhatsApp and to a MaixCam device no deadline.
InRequest ==
  /\ phase = "up"
  /\ \/ channel = "telegram" /\ sending.at \in {"edit", "post", "plain"}
     \/ channel \in {"slack", "feishu"} /\ sending.at = "send"
     \/ channel = "slack" /\ sending.at = "mark" /\ pending[sending.text.chat] # 0
     \/ channel = "dingtalk" /\ sending.at = "send" /\ sending.text.chat \in hooks
     \/ sending.at = "write"

\* Every text that was given, before or after the channel was up, has its turn
\* with Send and is done with as long as the gateway is up, whatever the requests
\* before it end in and whatever StartAll, handlers, connections and devices do,
\* unless one such request hangs for ever.
DoneWith(i) == /\ \A j \in DOMAIN outbox : outbox[j].id # i
               /\ sending.text.id # i
DispatcherGoesOn ==
  \A i \in 1 .. MaxEvents + MaxTexts :
    (i \in DOMAIN given /\ phase = "up") ~> (DoneWith(i) \/ phase # "up" \/ []InRequest)
=============================================================================
