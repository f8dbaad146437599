--------------------------- MODULE ChannelManager ---------------------------
(***************************************************************************)
(* What the channels of pkg/channels share: the manager that starts and    *)
(* stops them (manager.go), its dispatcher, which takes texts from the     *)
(* outbound queue and calls Send of a channel, one after the other, and    *)
(* HandleMessage (base.go), by which the handlers of a channel put the     *)
(* messages of users on the inbound queue.  An installation here has one   *)
(* channel.  The agent is external (its module is Gateway): it answers     *)
(* every message once, in order.                                           *)
(*                                                                         *)
(* The platform's side is posted, the messages of the bot as users see     *)
(* them, in their order on the screen; a message that shows no text of the *)
(* agent shows "Thinking...".                                              *)
(***************************************************************************)
EXTENDS Integers, Sequences, FiniteSets, SequencesExt

CONSTANTS
  Installed,        (* the channels to choose from                          *)
  MaxEvents,        (* bound on messages that arrive                        *)
  MaxTexts,         (* bound on texts of jobs, which answer no message      *)
  MaxFaults         (* bound on what fails at the platform                  *)

VARIABLES
  channel,          (* the channel of the installation                      *)
  phase,            (* of the gateway: what StartAll and StopAll have done  *)
  running,          (* BaseChannel.running                                  *)
  link,             (* the connection that messages arrive by               *)
  events,           (* the messages that arrived, each with its handler     *)
  inbox,            (* inbound queue: numbers of events                     *)
  outbox,           (* outbound queue: texts                                *)
  sending,          (* the dispatcher: its text and where Send is           *)
  posted,           (* the messages of the bot on the platform              *)
  faults,
  given,            (* history: the texts put on the outbound queue         *)
  untidy            (* history: what happened that a channel is not made    *)
                    (* for, see Disturb                                     *)

core == <<channel, phase, running, link, events, inbox, outbox, sending, posted,
          faults, given, untidy>>

ASSUME InstalledAssumption ==
  Installed \subseteq {"telegram", "slack", "qq", "dingtalk", "discord", "feishu", "whatsapp", "maixcam"}

ASSUME BoundAssumption == \A bound \in {MaxEvents, MaxTexts, MaxFaults} : bound \in Nat

\* A text answers event number of, or none if it is of a job.
NoText   == [id |-> 0, chat |-> 0, of |-> 0]
Idle     == [at |-> "idle", text |-> NoText, mid |-> 0]
Active   == {d \in DOMAIN events : events[d].at \notin {"published", "dropped"}}
Fault    == faults < MaxFaults /\ faults' = faults + 1

\* "overlap": a message or a text of a job came in a chat that waited for an
\* answer; "late": an edit or a request may take effect after Send has gone on.
Noted(kind, b)   == IF b THEN {kind} ELSE {}
Disturb(kind, b) == untidy' = untidy \cup Noted(kind, b)

CoreInit ==
  /\ channel \in Installed
  /\ phase = "init" /\ running = FALSE /\ link = "none"
  /\ events = <<>> /\ inbox = <<>> /\ outbox = <<>> /\ posted = <<>>
  /\ sending = Idle
  /\ faults = 0 /\ given = <<>> /\ untidy = {}

-----------------------------------------------------------------------------
(* The manager.                                                            *)

\* StartAll takes the lock and starts the dispatcher before the channels.
BeginStartAll ==
  /\ phase = "init"
  /\ phase' = "starting"
  /\ UNCHANGED <<channel, running, link, events, inbox, outbox, sending, posted, faults, given, untidy>>

\* What Start of a channel may end in: up, down, or running while no message
\* arrives, as its connection is made by a goroutine.
Up   == [running |-> TRUE, link |-> "up"]
Down == [running |-> FALSE, link |-> "none"]
Deaf == [running |-> TRUE, link |-> "none"]

StartTelegram == {Up, Down}
StartSlack    == {Up, Down, Deaf}
\* The goroutine resets running if it fails, before or after Start sets it.
StartQQ       == {Up, Down, Deaf}
StartDingTalk == {Up, Down}
\* The check that comes last may fail, but the channel is up.
StartDiscord  == {Up, Down}
StartFeishu   == {Up, Down, Deaf}
StartWhatsApp == {Up, Down}
StartMaixCam  == {Up, Down}

Started ==
  CASE channel = "telegram" -> StartTelegram
    [] channel = "slack"    -> StartSlack
    [] channel = "qq"       -> StartQQ
    [] channel = "dingtalk" -> StartDingTalk
    [] channel = "discord"  -> StartDiscord
    [] channel = "feishu"   -> StartFeishu
    [] channel = "whatsapp" -> StartWhatsApp
    [] channel = "maixcam"  -> StartMaixCam

\* The failure of a channel is logged, and StartAll goes on and unlocks.
EndStartAll ==
  /\ phase = "starting"
  /\ phase' = "up"
  /\ \E s \in Started :
       /\ running' = s.running /\ link' = s.link
       /\ IF s = Up THEN UNCHANGED faults ELSE Fault
  /\ UNCHANGED <<channel, events, inbox, outbox, sending, posted, given, untidy>>

\* The gateway's context is cancelled, every channel stops, the process ends.
Stopping ==
  /\ phase = "up"
  /\ phase' = "stopped"
  /\ running' = FALSE /\ link' = "none"
  /\ UNCHANGED <<channel, events, inbox, outbox, sending, posted, faults, given, untidy>>

-----------------------------------------------------------------------------
(* Messages of users.                                                      *)

\* m is the message's number on the platform, 0 if it has none.
Event(m, chat, allowed, empty, place) ==
  [m |-> m, chat |-> chat, allowed |-> allowed, empty |-> empty, at |-> place]

Listening == phase = "up" /\ link = "up" /\ Len(events) < MaxEvents

\* The end of every handler: an empty message is ignored, HandleMessage refuses
\* who is not allowed and publishes the rest.
HandleMessage(d) ==
  /\ phase = "up" /\ events[d].at = "ready"
  /\ LET heard == events[d].allowed /\ ~events[d].empty
     IN  /\ inbox' = IF heard THEN Append(inbox, d) ELSE inbox
         /\ events' = [events EXCEPT ![d].at = IF heard THEN "published" ELSE "dropped"]
  /\ UNCHANGED <<channel, phase, running, link, outbox, sending, posted, faults, given, untidy>>

\* The agent answers a message; a job has a text for a chat.
Give(chat, of) ==
  LET text == [id |-> Len(given) + 1, chat |-> chat, of |-> of]
  IN  outbox' = Append(outbox, text) /\ given' = Append(given, text)

Respond ==
  /\ phase = "up" /\ inbox # <<>>
  /\ inbox' = Tail(inbox)
  /\ Give(events[Head(inbox)].chat, Head(inbox))
  /\ UNCHANGED <<channel, phase, running, link, events, sending, posted, faults, untidy>>

JobText(chat) ==
  /\ phase \in {"init", "starting", "up"}
  /\ Cardinality({i \in DOMAIN given : given[i].of = 0}) < MaxTexts
  /\ Give(chat, 0)
  /\ UNCHANGED <<channel, phase, running, link, events, inbox, sending, posted, faults>>

-----------------------------------------------------------------------------
(* The dispatcher.                                                         *)

Take ==
  /\ phase \in {"starting", "up"} /\ sending.at = "idle" /\ outbox # <<>>
  /\ outbox' = Tail(outbox)
  /\ sending' = [Idle EXCEPT !.at = "lookup", !.text = Head(outbox)]
  /\ Disturb("overlap", channel = "telegram" /\ Active # {})
  /\ UNCHANGED <<channel, phase, running, link, events, inbox, posted, faults, given>>

\* Mutant: the channel is looked up without the lock.
Lookup_Unlocked ==
  /\ phase \in {"starting", "up"} /\ sending.at = "lookup"
  /\ sending' = IF running THEN [sending EXCEPT !.at = "send"] ELSE Idle
  /\ UNCHANGED <<channel, phase, running, link, events, inbox, outbox, posted, faults, given, untidy>>

\* The lookup waits for StartAll to unlock; Send of a channel that does not run
\* drops the text.
Lookup ==
  /\ phase = "up" /\ sending.at = "lookup"
  /\ sending' = IF running THEN [sending EXCEPT !.at = "send"] ELSE Idle
  /\ UNCHANGED <<channel, phase, running, link, events, inbox, outbox, posted, faults, given, untidy>>

\* Steps of Send, which run while the gateway is up.
Sending(place) == phase = "up" /\ sending.at = place
Proceed(place) == sending' = [sending EXCEPT !.at = place]
Show           == posted' = Append(posted, [chat |-> sending.text.chat, id |-> sending.text.id])
Unseen         == UNCHANGED posted
InSend         == UNCHANGED <<channel, phase, running, link, events, inbox, outbox, given>>

-----------------------------------------------------------------------------
CoreTypeOK ==
  /\ channel \in Installed
  /\ phase \in {"init", "starting", "up", "stopped", "crashed"}
  /\ running \in BOOLEAN /\ link \in {"none", "up", "broken"}
  /\ \A d \in DOMAIN events : /\ events[d].m \in 0 .. d
                              /\ events[d].allowed \in BOOLEAN /\ events[d].empty \in BOOLEAN
  /\ \A i \in DOMAIN inbox : events[inbox[i]].at = "published"
  /\ \A i \in DOMAIN outbox : outbox[i] = given[outbox[i].id]
  /\ sending.text \in {NoText} \cup ToSet(given) /\ sending.mid \in 0 .. Len(posted)
  /\ \A i \in DOMAIN posted : posted[i].id \in 0 .. Len(given)
  /\ faults \in 0 .. MaxFaults /\ untidy \subseteq {"overlap", "late"}
=============================================================================
