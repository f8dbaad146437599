---------------------------- MODULE OtherChannels ----------------------------
(***************************************************************************)
(* The channels whose handlers keep little between a message and its       *)
(* answer: QQ (qq.go), DingTalk (dingtalk.go), Discord (discord.go),       *)
(* Feishu (feishu.go), WhatsApp (whatsapp.go) and the MaixCam device       *)
(* (maixcam.go).  Chat 0 is that of a user, chat 1 that of a group.        *)
(***************************************************************************)
EXTENDS ChannelManager

CONSTANTS
  Limit,            (* QQ: the ids isDuplicate keeps at most (10000)        *)
  Cut,              (* QQ: the ids it removes when there are more (5000)    *)
  ReadLimit         (* WhatsApp: failed reads the websocket library bears   *)

ASSUME LimitAssumption == Limit \in Nat \ {0} /\ Cut \in 1 .. Limit /\ ReadLimit \in Nat \ {0}

VARIABLES
  processed,        (* QQ: processedIDs                                     *)
  hooks,            (* DingTalk: the chats with a session webhook           *)
  late,             (* Discord: requests still under way after the timeout  *)
  client,           (* MaixCam: a device is connected                       *)
  reads             (* WhatsApp: failed reads in a row                      *)

otherVars == <<processed, hooks, late, client, reads>>

OtherInit ==
  /\ processed = {} /\ hooks = {} /\ late = {}
  /\ client = FALSE /\ reads = 0

Chats == {0, 1}

\* A message arrives: its handler begins, or is over if it is dropped there.
Arrive(event) ==
  /\ channel \in {"qq", "dingtalk", "discord", "feishu", "whatsapp", "maixcam"} /\ Listening
  /\ events' = Append(events, event)
  /\ UNCHANGED <<channel, phase, running, link, inbox, outbox, sending, posted, faults, given, untidy>>

-----------------------------------------------------------------------------
(* QQ.                                                                     *)

\* Mutant: no ids are removed.
Kept_All(ids) == {ids}

\* The ids that are removed are in no particular order: the newest may be.
Kept(ids) == IF Cardinality(ids) <= Limit THEN {ids}
             ELSE {k \in SUBSET ids : Cardinality(k) = Cardinality(ids) - Cut}

\* Mutant: the id is looked up and not noted.
HandleQQ_Unmarked(m, chat, allowed, empty) ==
  /\ channel = "qq"
  /\ m \in 1 .. Len(events) + 1
  /\ Arrive(Event(m, chat, allowed, empty, IF m \in processed THEN "dropped" ELSE "ready"))
  /\ processed' \in Kept(processed)
  /\ UNCHANGED <<hooks, late, client, reads>>

\* handleC2CMessage and handleGroupATMessage; the platform may deliver a message
\* again.
HandleQQ(m, chat, allowed, empty) ==
  /\ channel = "qq"
  /\ m \in 1 .. Len(events) + 1
  /\ Arrive(Event(m, chat, allowed, empty, IF m \in processed THEN "dropped" ELSE "ready"))
  /\ processed' \in Kept(processed \cup {m})
  /\ UNCHANGED <<hooks, late, client, reads>>

\* Send knows the API of private chats only, which refuses the id of a group.
SendQQ ==
  /\ channel = "qq" /\ Sending("send")
  /\ sending' = Idle
  /\ IF sending.text.chat = 0
     THEN \/ Show /\ UNCHANGED faults
          \/ Fault /\ (Show \/ Unseen)
     ELSE Unseen /\ UNCHANGED faults
  /\ UNCHANGED <<untidy, otherVars>> /\ InSend

-----------------------------------------------------------------------------
(* DingTalk.                                                               *)

\* Mutant: the webhook of a group is filed under its sender.
HandleDingTalk_Sender(chat, allowed, empty) ==
  /\ channel = "dingtalk"
  /\ Arrive(Event(Len(events) + 1, chat, allowed, empty, IF empty THEN "dropped" ELSE "ready"))
  /\ hooks' = IF empty THEN hooks ELSE hooks \cup {0}
  /\ UNCHANGED <<processed, late, client, reads>>

\* onChatBotMessageReceived keeps the webhook to answer by, also of strangers.
HandleDingTalk(chat, allowed, empty) ==
  /\ channel = "dingtalk"
  /\ Arrive(Event(Len(events) + 1, chat, allowed, empty, IF empty THEN "dropped" ELSE "ready"))
  /\ hooks' = IF empty THEN hooks ELSE hooks \cup {chat}
  /\ UNCHANGED <<processed, late, client, reads>>

SendDingTalk ==
  /\ channel = "dingtalk" /\ Sending("send")
  /\ sending' = Idle
  /\ IF sending.text.chat \in hooks
     THEN \/ Show /\ UNCHANGED faults
          \/ Fault /\ (Show \/ Unseen)
     ELSE Unseen /\ UNCHANGED faults
  /\ UNCHANGED <<untidy, otherVars>> /\ InSend

-----------------------------------------------------------------------------
(* Discord.                                                                *)

\* Each message has a goroutine, which first turns down who is not allowed.
HandleDiscord(chat, allowed, empty) ==
  /\ channel = "discord"
  /\ Arrive(Event(Len(events) + 1, chat, allowed, empty,
                  IF allowed /\ ~empty THEN "ready" ELSE "dropped"))
  /\ UNCHANGED otherVars

\* The request is made by a goroutine, for which Send waits.
SendDiscord ==
  /\ channel = "discord" /\ Sending("send")
  /\ \/ Show /\ sending' = Idle /\ UNCHANGED faults
     \/ Fault /\ (Show \/ Unseen) /\ sending' = Idle
     \/ Fault /\ Unseen /\ Proceed("wait")
  /\ UNCHANGED <<untidy, otherVars>> /\ InSend

\* Mutant: Send waits as long as the request takes.
DiscordTimeout_None ==
  /\ phase = "stopped" /\ sending.at = "wait"
  /\ sending' = Idle
  /\ late' = late \cup {sending.text}
  /\ UNCHANGED <<posted, faults, processed, hooks, client, reads>> /\ Disturb("late", TRUE) /\ InSend

\* sendTimeout: Send gives up, and the request goes on.
DiscordTimeout ==
  /\ channel = "discord" /\ Sending("wait")
  /\ sending' = Idle
  /\ late' = late \cup {sending.text}
  /\ UNCHANGED <<posted, faults, processed, hooks, client, reads>> /\ Disturb("late", TRUE) /\ InSend

\* ... and may still be served.
LatePost ==
  /\ phase = "up"
  /\ \E text \in late :
       /\ late' = late \ {text}
       /\ posted' = Append(posted, [chat |-> text.chat, id |-> text.id])
  /\ UNCHANGED <<channel, phase, running, link, events, inbox, outbox, sending, faults, given, untidy>>
  /\ UNCHANGED <<processed, hooks, client, reads>>

-----------------------------------------------------------------------------
(* Feishu.  A message without content is passed on as "[empty message]".   *)

HandleFeishu(chat, allowed) ==
  /\ channel = "feishu"
  /\ Arrive(Event(Len(events) + 1, chat, allowed, FALSE, "ready"))
  /\ UNCHANGED otherVars

SendFeishu ==
  /\ channel = "feishu" /\ Sending("send")
  /\ sending' = Idle
  /\ \/ Show /\ UNCHANGED faults
     \/ Fault /\ (Show \/ Unseen)
  /\ UNCHANGED <<untidy, otherVars>> /\ InSend

-----------------------------------------------------------------------------
(* WhatsApp, by a websocket to a bridge.                                   *)

\* One goroutine listens; a message without text is passed on as it is.  (Before
\* it reads it takes the lock that Send holds during a write, so that then only the
\* read that was under way brings a message; the model allows more.)
HandleWhatsApp(chat, allowed) ==
  /\ channel = "whatsapp" /\ Active = {}
  /\ Arrive(Event(Len(events) + 1, chat, allowed, FALSE, "ready"))
  /\ UNCHANGED otherVars

\* The connection fails, and with it a write that hangs.
LoseBridge ==
  /\ channel = "whatsapp" /\ phase = "up" /\ link = "up"
  /\ Fault /\ link' = "broken"
  /\ sending' = IF sending.at = "write" THEN Idle ELSE sending
  /\ UNCHANGED <<channel, phase, running, events, inbox, outbox, posted, given, untidy>>
  /\ UNCHANGED otherVars

\* listen reads again from the connection that failed, which nothing replaces;
\* the library panics when that is done too often.
FailRead ==
  /\ phase = "up" /\ link = "broken" /\ Active = {}
  /\ reads' = reads + 1
  /\ phase' = IF reads' = ReadLimit THEN "crashed" ELSE phase
  /\ UNCHANGED <<channel, running, link, events, inbox, outbox, sending, posted, faults, given, untidy>>
  /\ UNCHANGED <<processed, hooks, late, client>>

\* WriteMessage has no deadline: it may hang on a bridge that does not read, with
\* the lock held, until the bridge reads again or the connection fails.
SendWhatsApp ==
  /\ channel = "whatsapp"
  /\ \/ Sending("send") /\ link # "up" /\ Unseen /\ sending' = Idle
     \/ Sending("send") /\ link = "up" /\ Show /\ sending' = Idle
     \/ Sending("send") /\ link = "up" /\ Unseen /\ Proceed("write")
     \/ Sending("write") /\ Show /\ sending' = Idle
  /\ UNCHANGED <<faults, untidy, otherVars>> /\ InSend

-----------------------------------------------------------------------------
(* MaixCam: the device connects to the channel.                            *)

\* acceptConnections waits for Send to let go of the clients.
Connect ==
  /\ channel = "maixcam" /\ phase = "up" /\ link = "up"
  /\ ~client /\ sending.at # "write"
  /\ client' = TRUE
  /\ UNCHANGED <<core, processed, hooks, late, reads>>

\* handleConnection ends; a write that hangs fails then.
Disconnect ==
  /\ phase = "up" /\ client
  /\ Fault
  /\ client' = FALSE
  /\ sending' = IF sending.at = "write" THEN Idle ELSE sending
  /\ UNCHANGED <<channel, phase, running, link, events, inbox, outbox, posted, given, untidy>>
  /\ UNCHANGED <<processed, hooks, late, reads>>

\* handlePersonDetection: the sender is always "maixcam", the chat "default".
HandlePersonDetection(allowed) ==
  /\ channel = "maixcam" /\ client
  /\ Arrive(Event(Len(events) + 1, 0, allowed, FALSE, "ready"))
  /\ UNCHANGED otherVars

\* The write has no deadline: it may hang on a device that does not read, until
\* the device reads again or is gone.
SendMaixCam ==
  /\ channel = "maixcam"
  /\ \/ Sending("send") /\ ~client /\ Unseen /\ sending' = Idle
     \/ Sending("send") /\ client /\ Show /\ sending' = Idle
     \/ Sending("send") /\ client /\ Unseen /\ Proceed("write")
     \/ Sending("write") /\ Show /\ sending' = Idle
  /\ UNCHANGED <<faults, untidy, otherVars>> /\ InSend

OtherSend ==
  \/ SendQQ
  \/ SendDingTalk
  \/ SendDiscord
  \/ DiscordTimeout
  \/ SendFeishu
  \/ SendWhatsApp
  \/ SendMaixCam

OtherTypeOK ==
  /\ processed \subseteq 1 .. MaxEvents /\ Cardinality(processed) <= Limit
  /\ hooks \subseteq Chats /\ late \subseteq ToSet(given)
  /\ client \in BOOLEAN /\ reads \in 0 .. ReadLimit
=============================================================================
