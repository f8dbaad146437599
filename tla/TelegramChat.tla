---------------------------- MODULE TelegramChat ----------------------------
(***************************************************************************)
(* The Telegram channel in one chat (pkg/channels/telegram.go).  A message *)
(* is acknowledged by a placeholder, "Thinking...", that a goroutine edits *)
(* every two seconds until it is cancelled; Send cancels it and edits the  *)
(* placeholder into the answer.  What the handler and Send know of each    *)
(* other is in two maps, placeholders and stopThinking, each a sync.Map:   *)
(* a Load and the Delete that follows it are two steps.                    *)
(*                                                                         *)
(* A request to the platform takes effect at once, or fails, or takes      *)
(* effect while its answer is lost; the edit of an animation that is       *)
(* cancelled may still take effect later.                                  *)
(***************************************************************************)
EXTENDS ChannelManager

VARIABLES
  placeholder,      (* placeholders[chat]: a place in posted, or 0          *)
  stop,             (* stopThinking[chat]: whose animation, or 0            *)
  anim,             (* per event: its animation                             *)
  mid               (* per event: its placeholder                           *)

telegramVars == <<placeholder, stop, anim, mid>>

TelegramInit ==
  /\ placeholder = 0 /\ stop = 0
  /\ anim = [d \in 1 .. MaxEvents |-> "none"]
  /\ mid = [d \in 1 .. MaxEvents |-> 0]

Thinking == [chat |-> 0, id |-> 0]

\* thinkingCancel.Cancel: an edit under way cannot be taken back.
Cancelled(d) ==
  [anim EXCEPT ![d] = CASE @ \in {"ready", "run"} -> "off" [] @ = "edit" -> "late" [] OTHER -> @]
EditUnderWay(d) == d # 0 /\ anim[d] = "edit"
Animated(d)     == anim[d] \in {"ready", "run", "edit"}

-----------------------------------------------------------------------------
(* handleMessage: one goroutine handles the updates of the bot.            *)

\* The cancel function of the animation before is loaded and called, and the new
\* one stored, which are three steps of the code, in one: what Send or an animation
\* may do in between it may as well do before or after.
HandleTelegram(allowed) ==
  /\ channel = "telegram" /\ Listening /\ Active = {}
  /\ LET d == Len(events) + 1
     IN  IF ~allowed
         THEN /\ events' = Append(events, Event(d, 0, FALSE, FALSE, "dropped"))
              /\ UNCHANGED <<telegramVars, untidy>>
         ELSE /\ events' = Append(events, Event(d, 0, TRUE, FALSE, "thinking"))
              /\ anim' = [IF stop = 0 THEN anim ELSE Cancelled(stop) EXCEPT ![d] = "ready"]
              /\ stop' = d
              /\ untidy' = untidy \cup Noted("late", EditUnderWay(stop))
                                \cup Noted("overlap", inbox # <<>> \/ outbox # <<>> \/ sending # Idle)
              /\ UNCHANGED <<placeholder, mid>>
  /\ UNCHANGED <<channel, phase, running, link, inbox, outbox, sending, posted, faults, given>>

\* SendMessage of the placeholder: it is there, it failed, or its id is lost.
PostThinking(d) ==
  /\ channel = "telegram" /\ phase = "up" /\ events[d].at = "thinking"
  /\ \/ /\ posted' = Append(posted, Thinking)
        /\ mid' = [mid EXCEPT ![d] = Len(posted) + 1]
        /\ events' = [events EXCEPT ![d].at = "posted"]
        /\ UNCHANGED faults
     \/ /\ Fault
        /\ posted' \in {posted, Append(posted, Thinking)}
        /\ events' = [events EXCEPT ![d].at = "ready"]
        /\ UNCHANGED mid
  /\ UNCHANGED <<channel, phase, running, link, inbox, outbox, sending, given, untidy>>
  /\ UNCHANGED <<placeholder, stop, anim>>

\* The goroutine of the animation ends at once if it was cancelled before.
StorePlaceholder(d) ==
  /\ channel = "telegram" /\ phase = "up" /\ events[d].at = "posted"
  /\ placeholder' = mid[d]
  /\ anim' = [anim EXCEPT ![d] = IF @ = "ready" THEN "run" ELSE @]
  /\ events' = [events EXCEPT ![d].at = "ready"]
  /\ UNCHANGED <<channel, phase, running, link, inbox, outbox, sending, posted, faults, given, untidy>>
  /\ UNCHANGED <<stop, mid>>

-----------------------------------------------------------------------------
(* The animation.                                                          *)

Aside == UNCHANGED <<channel, phase, running, link, events, inbox, outbox, sending, faults, given>>

\* The ticker: an edit is sent, and takes effect unless it fails.
Animate(d) ==
  /\ phase = "up"
  /\ \/ anim[d] = "run" /\ anim' = [anim EXCEPT ![d] = "edit"] /\ Unseen
     \/ /\ anim[d] = "edit" /\ anim' = [anim EXCEPT ![d] = "run"]
        /\ posted' \in {posted, [posted EXCEPT ![mid[d]] = Thinking]}
     \/ /\ anim[d] = "late" /\ anim' = [anim EXCEPT ![d] = "off"]
        /\ posted' \in {posted, [posted EXCEPT ![mid[d]] = Thinking]}
  /\ UNCHANGED <<placeholder, stop, mid, untidy>> /\ Aside

\* Mutant: the context of the animation has no timeout.
ThinkingTimeout_None(d) ==
  /\ phase # "up" /\ anim[d] = "edit"
  /\ anim' = Cancelled(d)
  /\ Disturb("late", EditUnderWay(d))
  /\ UNCHANGED <<posted, placeholder, stop, mid>> /\ Aside

\* The context of an animation ends after five minutes.
ThinkingTimeout(d) ==
  /\ phase = "up" /\ Animated(d)
  /\ anim' = Cancelled(d)
  /\ Disturb("late", EditUnderWay(d))
  /\ UNCHANGED <<posted, placeholder, stop, mid>> /\ Aside

-----------------------------------------------------------------------------
(* Send.                                                                   *)

StopThinking ==
  /\ channel = "telegram" /\ Sending("send")
  /\ IF stop = 0 THEN Proceed("load") /\ UNCHANGED <<anim, untidy>>
     ELSE Proceed("unstop") /\ anim' = Cancelled(stop) /\ Disturb("late", EditUnderWay(stop))
  /\ UNCHANGED <<posted, faults, placeholder, stop, mid>> /\ InSend

DeleteStop ==
  /\ Sending("unstop")
  /\ stop' = 0 /\ Proceed("load")
  /\ UNCHANGED <<posted, faults, untidy, placeholder, anim, mid>> /\ InSend

\* The animation of the placeholder may go on, if its message came after
\* StopThinking, or DeleteStop took its cancel function for another's.
LoadPlaceholder ==
  /\ Sending("load")
  /\ sending' = IF placeholder = 0 THEN [sending EXCEPT !.at = "post"]
                ELSE [sending EXCEPT !.at = "unplace", !.mid = placeholder]
  /\ Disturb("late", \E d \in DOMAIN anim : placeholder # 0 /\ mid[d] = placeholder /\ Animated(d))
  /\ UNCHANGED <<posted, faults, telegramVars>> /\ InSend

\* Mutant: the placeholder stays.
DeletePlaceholder_Kept ==
  /\ Sending("unplace")
  /\ Proceed("edit")
  /\ UNCHANGED <<posted, faults, untidy, placeholder, stop, anim, mid>> /\ InSend

DeletePlaceholder ==
  /\ Sending("unplace")
  /\ placeholder' = 0 /\ Proceed("edit")
  /\ UNCHANGED <<posted, faults, untidy, stop, anim, mid>> /\ InSend

Text == [chat |-> sending.text.chat, id |-> sending.text.id]

\* A failed edit falls back to a new message.
EditPlaceholder ==
  /\ Sending("edit")
  /\ LET edited == [posted EXCEPT ![sending.mid] = Text]
     IN  \/ posted' = edited /\ sending' = Idle /\ UNCHANGED faults
         \/ Fault /\ posted' \in {posted, edited} /\ Proceed("post")
  /\ UNCHANGED <<untidy, telegramVars>> /\ InSend

\* A message that is refused as HTML is sent as plain text.
PostAnswer ==
  /\ channel = "telegram"
  /\ \/ Sending("post") \/ Sending("plain")
  /\ \/ Show /\ sending' = Idle /\ UNCHANGED faults
     \/ /\ Fault
        /\ Show \/ Unseen
        /\ IF sending.at = "post" THEN Proceed("plain") ELSE sending' = Idle
  /\ UNCHANGED <<untidy, telegramVars>> /\ InSend

TelegramSend ==
  \/ StopThinking
  \/ DeleteStop
  \/ LoadPlaceholder
  \/ DeletePlaceholder
  \/ EditPlaceholder
  \/ PostAnswer

\* The gateway's context is the parent of all those of the animations.
StopTelegram == anim' = [d \in DOMAIN anim |-> IF anim[d] = "none" THEN "none" ELSE "off"]

TelegramTypeOK ==
  /\ placeholder \in 0 .. Len(posted) /\ stop \in 0 .. MaxEvents
  /\ \A d \in 1 .. MaxEvents : /\ anim[d] \in {"none", "ready", "run", "edit", "late", "off"}
                               /\ mid[d] \in 0 .. Len(posted)
=============================================================================
