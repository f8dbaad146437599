--------------------------- MODULE ChannelsProofs ---------------------------
(***************************************************************************)
(* For every channel and every number of messages, texts and failures: no  *)
(* text a user sees in Telegram is overwritten by another, Slack marks the *)
(* messages that were answered and no others, QQ hands a message that is   *)
(* delivered twice to the agent once, and every text reaches its chat      *)
(* once, in order, as long as nothing fails.                               *)
(***************************************************************************)
EXTENDS Channels, FiniteSetTheorems, SequenceTheorems, TLAPS

USE BoundAssumption, LimitAssumption DEF BoundAssumption, LimitAssumption

-----------------------------------------------------------------------------
(* The inductive invariant.                                                *)

EventOf == [m : Nat, chat : Nat, allowed : BOOLEAN, empty : BOOLEAN,
            at : {"thinking", "posted", "ready", "published", "dropped"}]
TextOf  == [id : Nat, chat : Nat, of : Nat]
PostOf  == [chat : Nat, id : Nat]
Places  == {"idle", "lookup", "send", "unstop", "load", "unplace", "edit", "post", "plain",
            "mark", "wait", "write"}

\* Texts in the pipeline are those that were given, which answer a message that was
\* published, in its chat, or none.
Asked(text) ==
  text.of # 0 => /\ text.of \in DOMAIN events /\ events[text.of].at = "published"
                 /\ events[text.of].chat = text.chat
Known(text) == text.id \in DOMAIN given /\ text = given[text.id]

EventsInv ==
  /\ events \in Seq(EventOf) /\ Len(events) =< MaxEvents
  /\ \A d \in DOMAIN events : events[d].m =< d
InboxInv ==
  /\ inbox \in Seq(Nat)
  /\ \A i \in DOMAIN inbox : inbox[i] \in DOMAIN events /\ events[inbox[i]].at = "published"
GivenInv ==
  /\ given \in Seq(TextOf)
  /\ \A i \in DOMAIN given : given[i].id = i /\ Asked(given[i])
OutboxInv ==
  /\ outbox \in Seq(TextOf)
  /\ \A i \in DOMAIN outbox : Known(outbox[i])

QueueInv == EventsInv /\ InboxInv /\ GivenInv /\ OutboxInv

\* The dispatcher has a text as long as it sends.
SendInv ==
  /\ sending \in [at : Places, text : TextOf, mid : Nat]
  /\ sending.at = "idle" => sending = Idle
  /\ sending.at # "idle" => Known(sending.text)
  /\ channel # "telegram" => sending.at \notin {"unstop", "load", "unplace", "edit", "post", "plain"}

\* Users see what was given, and no one knows a place that is not there.
PostInv ==
  /\ posted \in Seq(PostOf)
  /\ \A i \in DOMAIN posted : posted[i].id =< Len(given)
  /\ sending.mid =< Len(posted) /\ placeholder =< Len(posted)
  /\ \A d \in 1 .. MaxEvents : mid[d] =< Len(posted)

\* A channel that is up runs, if nothing failed.
PhaseInv ==
  /\ channel \in Installed
  /\ phase \in {"init", "starting", "up", "stopped", "crashed"}
  /\ running \in BOOLEAN /\ link \in {"none", "up", "broken"}
  /\ faults \in 0 .. MaxFaults /\ untidy \subseteq {"overlap", "late"}
  /\ phase = "up" /\ faults = 0 => running = TRUE
  /\ reads \in 0 .. ReadLimit
  /\ phase # "crashed" => reads < ReadLimit

AnimInv ==
  /\ anim \in [1 .. MaxEvents -> {"none", "ready", "run", "edit", "late", "off"}]
  /\ mid \in [1 .. MaxEvents -> Nat]
  /\ placeholder \in Nat /\ stop \in 0 .. MaxEvents

OtherInv ==
  /\ IsFiniteSet(processed) /\ processed \subseteq 1 .. MaxEvents
  /\ Cardinality(processed) =< Limit
  /\ hooks \subseteq Chats /\ client \in BOOLEAN
  /\ \A text \in late : Known(text)

TypeInv == QueueInv /\ SendInv /\ PostInv /\ PhaseInv /\ AnimInv /\ SlackTypeOK /\ OtherInv

\* Telegram: the place of a placeholder is known to its handler, then to the map,
\* then to Send, to one at a time, and shows no text as long as one knows it.
Editing == sending.at \in {"unplace", "edit"}

PlaceInv ==
  /\ \A d \in DOMAIN events : events[d].at = "posted" =>
       /\ mid[d] \in DOMAIN posted /\ posted[mid[d]].id = 0
       /\ mid[d] # placeholder /\ (Editing => mid[d] # sending.mid)
       /\ \A c \in DOMAIN events : events[c].at = "posted" /\ mid[c] = mid[d] => c = d
  /\ placeholder # 0 => posted[placeholder].id = 0
  /\ Editing => sending.mid # 0 /\ posted[sending.mid].id = 0
  /\ sending.at = "edit" => placeholder # sending.mid

\* QQ: as long as they fit, the ids of all messages are known.
MessageIds == {events[d].m : d \in DOMAIN events}

OnceInv ==
  channel = "qq" /\ Cardinality(MessageIds) =< Limit => processed = MessageIds /\ HandledOnce

\* Slack: a chat waits for the answer to one message at most, which is the one that
\* is to be marked, and whatever is on its way in the chat belongs to it.
ChatInv == channel = "slack" =>
  /\ \A d \in DOMAIN events : events[d].chat \in SlackChats
  /\ \A i \in DOMAIN given : given[i].chat \in SlackChats

Waiting(d) ==
  \/ \E i \in DOMAIN inbox : inbox[i] = d
  \/ \E i \in DOMAIN outbox : outbox[i].of = d
  \/ sending.at # "idle" /\ sending.text.of = d

AckInv == channel = "slack" /\ faults = 0 /\ untidy = {} =>
  /\ \A c \in SlackChats : pending[c] # 0 =>
       pending[c] \in DOMAIN events /\ events[pending[c]].m = pending[c]
  /\ \A i \in DOMAIN outbox : pending[outbox[i].chat] \in {0, outbox[i].of}
  /\ sending.at # "idle" => pending[sending.text.chat] \in {0, sending.text.of}
  /\ \A i \in DOMAIN inbox : pending[events[inbox[i]].chat] \in {0, inbox[i]}
  /\ \A d \in DOMAIN events :
       /\ events[d].at = "ready" => pending[events[d].chat] \in {0, d}
       /\ events[d].at = "ready" /\ events[d].m = d => pending[events[d].chat] = d
       /\ events[d].at = "published" /\ events[d].m = d /\ d \notin checked =>
            pending[events[d].chat] = d /\ Waiting(d)
  /\ \A d \in checked : d \in DOMAIN events /\ events[d].at = "published" /\ events[d].m = d

IInv == TypeInv /\ PlaceInv /\ OnceInv /\ ChatInv /\ AckInv

-----------------------------------------------------------------------------
(* Types.                                                                  *)

LEMMA TypeImplied == TypeInv => TypeOK
<1>. SUFFICES ASSUME TypeInv PROVE TypeOK
  OBVIOUS
<1>. USE DEF TypeInv
<1>1. sending.text \in {NoText} \cup ToSet(given)
  BY DEF SendInv, Idle, ToSet, Known
<1>2. CoreTypeOK
  <2>1. \A d \in DOMAIN events : /\ events[d].m \in 0 .. d
                                /\ events[d].allowed \in BOOLEAN /\ events[d].empty \in BOOLEAN
    <3>1. \A d \in DOMAIN events : events[d] \in EventOf /\ d \in Nat /\ events[d].m =< d
      BY DEF QueueInv, EventsInv
    <3>2. \A d \in DOMAIN events : /\ events[d].m \in Nat
                                  /\ events[d].allowed \in BOOLEAN /\ events[d].empty \in BOOLEAN
      BY <3>1, Zenon DEF EventOf
    <3>3. QED
      BY <3>1, <3>2
  <2>2. /\ \A i \in DOMAIN inbox : events[inbox[i]].at = "published"
        /\ \A i \in DOMAIN outbox : outbox[i] = given[outbox[i].id]
    BY DEF QueueInv, InboxInv, OutboxInv, Known
  <2>3. sending.mid \in 0 .. Len(posted) /\ \A i \in DOMAIN posted : posted[i].id \in 0 .. Len(given)
    <3>1. Len(given) \in Nat /\ Len(posted) \in Nat /\ sending.mid \in Nat
      BY DEF QueueInv, GivenInv, SendInv, PostInv
    <3>2. \A i \in DOMAIN posted : posted[i].id \in Nat
      <4>1. \A i \in DOMAIN posted : posted[i] \in PostOf
        BY DEF PostInv
      <4>2. QED
        BY <4>1 DEF PostOf
    <3>3. QED
      BY <3>1, <3>2 DEF PostInv
  <2>4. QED
    BY <1>1, <2>1, <2>2, <2>3 DEF CoreTypeOK, PhaseInv
<1>3. TelegramTypeOK
  BY DEF TelegramTypeOK, AnimInv, PostInv
<1>4. OtherTypeOK
  <2>1. late \subseteq ToSet(given)
    BY DEF OtherInv, Known, ToSet
  <2>2. QED
    BY <2>1 DEF OtherTypeOK, OtherInv, PhaseInv
<1>5. QED
  BY <1>2, <1>3, <1>4 DEF TypeOK

LEMMA TypeInit == Init => TypeInv
<1>. SUFFICES ASSUME Init PROVE TypeInv
  OBVIOUS
<1>. USE DEF Init, CoreInit, TelegramInit, SlackInit, OtherInit
<1>0. <<>> \in Seq(EventOf) /\ <<>> \in Seq(Nat) /\ <<>> \in Seq(TextOf) /\ <<>> \in Seq(PostOf)
  OBVIOUS
<1>1. QueueInv
  BY <1>0 DEF QueueInv, EventsInv, InboxInv, GivenInv, OutboxInv
<1>2. SendInv
  BY DEF SendInv, Idle, NoText, TextOf, Places
<1>3. PostInv
  BY <1>0 DEF PostInv, Idle
<1>4. PhaseInv
  <2>1. running \in BOOLEAN
    OBVIOUS
  <2>2. QED
    BY <2>1 DEF PhaseInv
<1>5. AnimInv
  BY DEF AnimInv
<1>6. SlackTypeOK
  BY DEF SlackTypeOK, SlackChats
<1>7. OtherInv
  <2>1. IsFiniteSet(processed) /\ Cardinality(processed) = 0
    BY FS_EmptySet
  <2>2. client \in BOOLEAN
    OBVIOUS
  <2>3. QED
    BY <2>1, <2>2 DEF OtherInv
<1>8. QED
  BY <1>1, <1>2, <1>3, <1>4, <1>5, <1>6, <1>7 DEF TypeInv

\* What a part of the invariant speaks of is left alone.
LEMMA QueueFrame == QueueInv /\ UNCHANGED <<events, inbox, outbox, given>> => QueueInv'
BY DEF QueueInv, EventsInv, InboxInv, GivenInv, OutboxInv, Asked, Known

LEMMA SendFrame == SendInv /\ UNCHANGED <<sending, given, channel>> => SendInv'
BY DEF SendInv, Known

LEMMA PostFrame == PostInv /\ UNCHANGED <<posted, given, sending, placeholder, mid>> => PostInv'
BY DEF PostInv

LEMMA PhaseFrame ==
  PhaseInv /\ UNCHANGED <<channel, phase, running, link, faults, untidy, reads>> => PhaseInv'
BY DEF PhaseInv

LEMMA AnimFrame == AnimInv /\ UNCHANGED telegramVars => AnimInv'
BY DEF AnimInv, telegramVars

LEMMA OtherFrame == OtherInv /\ UNCHANGED <<processed, hooks, late, client, given>> => OtherInv'
BY DEF OtherInv, Known

\* A message arrives.
LEMMA QueueArrive ==
  ASSUME QueueInv, NEW e \in EventOf, e.m =< Len(events) + 1, Len(events) < MaxEvents,
         events' = Append(events, e), UNCHANGED <<inbox, outbox, given>>
  PROVE  QueueInv'
<1>. USE DEF QueueInv
<1>1. events' \in Seq(EventOf) /\ Len(events') = Len(events) + 1
  BY AppendProperties DEF EventsInv
<1>2. \A d \in DOMAIN events : d \in DOMAIN events' /\ events'[d] = events[d]
  BY AppendProperties DEF EventsInv
<1>3. events'[Len(events) + 1] = e
  BY AppendProperties DEF EventsInv
<1>4. EventsInv'
  <2>1. \A d \in DOMAIN events' : d \in DOMAIN events \/ d = Len(events) + 1
    BY <1>1 DEF EventsInv
  <2>2. QED
    BY <1>1, <1>2, <1>3, <2>1 DEF EventsInv
<1>5. InboxInv'
  BY <1>2 DEF InboxInv
<1>6. GivenInv' /\ OutboxInv'
  BY <1>2 DEF GivenInv, OutboxInv, Asked, Known
<1>7. QED
  BY <1>4, <1>5, <1>6

\* Its handler goes on.
LEMMA QueueMove ==
  ASSUME QueueInv, NEW d \in DOMAIN events, events[d].at # "published",
         NEW place \in {"thinking", "posted", "ready", "published", "dropped"},
         events' = [events EXCEPT ![d].at = place], UNCHANGED <<outbox, given>>,
         \/ UNCHANGED inbox
         \/ place = "published" /\ inbox' = Append(inbox, d)
  PROVE  QueueInv'
<1>. USE DEF QueueInv
<1>1. events' \in Seq(EventOf) /\ DOMAIN events' = DOMAIN events /\ Len(events') = Len(events)
  <2>1. events[d] \in EventOf
    BY DEF EventsInv
  <2>2. [events[d] EXCEPT !.at = place] \in EventOf
    BY <2>1 DEF EventOf
  <2>3. QED
    BY <2>2, ExceptSeq DEF EventsInv
<1>2. \A c \in DOMAIN events : /\ events'[c].m = events[c].m /\ events'[c].chat = events[c].chat
                               /\ events'[c].at = IF c = d THEN place ELSE events[c].at
  <2>1. \A c \in DOMAIN events : events[c] \in EventOf
    BY DEF EventsInv
  <2>2. \A c \in DOMAIN events : events'[c] = IF c = d THEN [events[c] EXCEPT !.at = place] ELSE events[c]
    OBVIOUS
  <2>3. QED
    BY <2>1, <2>2 DEF EventOf
<1>3. EventsInv'
  BY <1>1, <1>2 DEF EventsInv
<1>4. InboxInv'
  <2>1. CASE UNCHANGED inbox
    BY <1>1, <1>2, <2>1 DEF InboxInv
  <2>2. CASE place = "published" /\ inbox' = Append(inbox, d)
    <3>1. d \in Nat
      BY DEF EventsInv
    <3>2. inbox \in Seq(Nat) /\ inbox' = Append(inbox, d)
      BY <2>2 DEF InboxInv
    <3>3. /\ inbox' \in Seq(Nat) /\ DOMAIN inbox' = 1 .. Len(inbox) + 1
          /\ \A i \in 1 .. Len(inbox) : inbox'[i] = inbox[i]
          /\ inbox'[Len(inbox) + 1] = d
      BY <3>1, <3>2, AppendProperties
    <3>4. Len(inbox) \in Nat /\ DOMAIN inbox = 1 .. Len(inbox)
      BY <3>2
    <3>5. ASSUME NEW i \in DOMAIN inbox' PROVE inbox'[i] \in DOMAIN events' /\ events'[inbox'[i]].at = "published"
      <4>1. CASE i \in DOMAIN inbox
        <5>1. inbox'[i] = inbox[i] /\ inbox[i] \in DOMAIN events /\ events[inbox[i]].at = "published"
          BY <3>3, <3>4, <4>1 DEF InboxInv
        <5>2. QED
          BY <1>1, <1>2, <2>2, <5>1
      <4>2. CASE i = Len(inbox) + 1
        BY <1>1, <1>2, <2>2, <3>3, <4>2
      <4>3. QED
        BY <3>3, <3>4, <4>1, <4>2
    <3>6. QED
      BY <3>3, <3>5 DEF InboxInv
  <2>3. QED
    BY <2>1, <2>2
<1>5. GivenInv' /\ OutboxInv'
  BY <1>1, <1>2 DEF GivenInv, OutboxInv, Asked, Known
<1>6. QED
  BY <1>3, <1>4, <1>5

\* A text is given to the dispatcher.
LEMMA QueueGive ==
  ASSUME QueueInv, NEW chat \in Nat, NEW of \in Nat, Give(chat, of), UNCHANGED events,
         of # 0 => of \in DOMAIN events /\ events[of].at = "published" /\ events[of].chat = chat,
         \/ UNCHANGED inbox
         \/ inbox # <<>> /\ inbox' = Tail(inbox)
  PROVE  /\ QueueInv' /\ Len(given') = Len(given) + 1
         /\ \A i \in DOMAIN given : i \in DOMAIN given' /\ given'[i] = given[i]
<1>. USE DEF QueueInv
<1>. DEFINE text == [id |-> Len(given) + 1, chat |-> chat, of |-> of]
<1>1. text \in TextOf /\ outbox' = Append(outbox, text) /\ given' = Append(given, text)
  BY DEF Give, TextOf, GivenInv
<1>2. /\ given' \in Seq(TextOf) /\ Len(given') = Len(given) + 1 /\ given'[Len(given) + 1] = text
      /\ \A i \in DOMAIN given : i \in DOMAIN given' /\ given'[i] = given[i]
      /\ \A i \in DOMAIN given' : i \in DOMAIN given \/ i = Len(given) + 1
  BY <1>1, AppendProperties DEF GivenInv
<1>3. /\ outbox' \in Seq(TextOf)
      /\ \A i \in DOMAIN outbox' : outbox'[i] = text \/ \E j \in DOMAIN outbox : outbox'[i] = outbox[j]
  BY <1>1, AppendProperties DEF OutboxInv
<1>4. InboxInv'
  <2>1. CASE UNCHANGED inbox
    BY <2>1 DEF InboxInv
  <2>2. CASE inbox # <<>> /\ inbox' = Tail(inbox)
    <3>1. inbox' \in Seq(Nat) /\ \A i \in DOMAIN inbox' : i + 1 \in DOMAIN inbox /\ inbox'[i] = inbox[i + 1]
      BY <2>2, HeadTailProperties DEF InboxInv
    <3>2. QED
      BY <3>1 DEF InboxInv
  <2>3. QED
    BY <2>1, <2>2
<1>5. text.id = Len(given) + 1 /\ text.of = of /\ text.chat = chat
  OBVIOUS
<1>. HIDE DEF text
<1>6. GivenInv'
  BY <1>2, <1>5 DEF GivenInv, Asked
<1>7. OutboxInv'
  <2>1. Len(given) + 1 \in DOMAIN given'
    BY <1>2 DEF GivenInv
  <2>2. QED
    BY <1>2, <1>3, <1>5, <2>1 DEF OutboxInv, Known
<1>8. EventsInv'
  BY DEF EventsInv
<1>9. QED
  BY <1>2, <1>4, <1>6, <1>7, <1>8

\* The dispatcher goes on with the text it has, or has done with it.
LEMMA SendGoesOn ==
  ASSUME SendInv, UNCHANGED <<channel, given>>,
         \/ sending' = Idle
         \/ /\ sending.at # "idle"
            /\ \E place \in Places \ {"idle"} :
                 /\ sending' = [sending EXCEPT !.at = place]
                 /\ channel # "telegram" => place \in {"lookup", "send", "mark", "wait", "write"}
  PROVE  SendInv'
BY DEF SendInv, Known, Idle, NoText, TextOf, Places

\* A message of the bot is shown, edited or left.
LEMMA PostsGoOn ==
  ASSUME PostInv, NEW post \in PostOf, post.id =< Len(given), UNCHANGED given,
         \/ UNCHANGED posted
         \/ posted' = Append(posted, post)
         \/ \E p \in Nat : posted' = [posted EXCEPT ![p] = post]
  PROVE  /\ posted' \in Seq(PostOf) /\ Len(posted') >= Len(posted)
         /\ \A i \in DOMAIN posted' : posted'[i].id =< Len(given')
<1>1. CASE UNCHANGED posted
  BY <1>1 DEF PostInv
<1>2. CASE posted' = Append(posted, post)
  BY <1>2, AppendProperties DEF PostInv
<1>3. ASSUME NEW p \in Nat, posted' = [posted EXCEPT ![p] = post]
      PROVE  /\ posted' \in Seq(PostOf) /\ Len(posted') = Len(posted)
             /\ \A i \in DOMAIN posted' : posted'[i].id =< Len(given')
  <2>1. CASE p \in DOMAIN posted
    BY <1>3, <2>1, ExceptSeq DEF PostInv
  <2>2. CASE p \notin DOMAIN posted
    <3>1. posted' = posted
      BY <1>3, <2>2 DEF PostInv
    <3>2. QED
      BY <3>1 DEF PostInv
  <2>3. QED
    BY <2>1, <2>2
<1>4. QED
  <2>1. Len(posted) \in Nat
    BY DEF PostInv
  <2>2. QED
    BY <1>1, <1>2, <1>3, <2>1

\* Something may fail at the platform, and something may be noted.
LEMMA PhaseGoesOn ==
  ASSUME PhaseInv, UNCHANGED <<channel, phase, running, link, reads>>,
         Fault \/ UNCHANGED faults,
         untidy' \subseteq untidy \cup {"overlap", "late"}
  PROVE  PhaseInv'
<1>1. running' \in BOOLEAN
  BY DEF PhaseInv
<1>2. faults' \in 0 .. MaxFaults /\ (faults' = 0 => faults = 0)
  BY DEF PhaseInv, Fault
<1>3. QED
  BY <1>1, <1>2 DEF PhaseInv

LEMMA GivenGrows ==
  ASSUME TypeInv, Len(given') = Len(given) + 1,
         \A i \in DOMAIN given : i \in DOMAIN given' /\ given'[i] = given[i],
         UNCHANGED <<channel, sending, posted, telegramVars, otherVars>>
  PROVE  SendInv' /\ PostInv' /\ OtherInv'
<1>. USE DEF TypeInv, telegramVars, otherVars
<1>1. SendInv'
  BY DEF SendInv, Known
<1>2. PostInv'
  <2>1. Len(given) \in Nat
    BY DEF QueueInv, GivenInv
  <2>2. \A i \in DOMAIN posted : posted[i].id \in Nat
    <3>1. \A i \in DOMAIN posted : posted[i] \in PostOf
      BY DEF PostInv
    <3>2. QED
      BY <3>1 DEF PostOf
  <2>3. QED
    BY <2>1, <2>2 DEF PostInv
<1>3. OtherInv'
  BY DEF OtherInv, Known
<1>4. QED
  BY <1>1, <1>2, <1>3

LEMMA ManagerTypes ==
  ASSUME TypeInv, UNCHANGED <<telegramVars, slackVars, otherVars>>,
         BeginStartAll \/ EndStartAll \/ Lookup
  PROVE  TypeInv'
<1>. USE DEF TypeInv
<1>1. QueueInv' /\ AnimInv' /\ SlackTypeOK' /\ OtherInv'
  BY QueueFrame, AnimFrame, OtherFrame
     DEF BeginStartAll, EndStartAll, Lookup, SlackTypeOK, slackVars, otherVars
<1>2. CASE BeginStartAll
  <2>1. SendInv' /\ PostInv'
    BY <1>2, SendFrame, PostFrame DEF BeginStartAll, telegramVars
  <2>2. PhaseInv'
    BY <1>2 DEF BeginStartAll, PhaseInv, otherVars
  <2>3. QED
    BY <1>1, <2>1, <2>2
<1>3. CASE EndStartAll
  <2>1. SendInv' /\ PostInv'
    BY <1>3, SendFrame, PostFrame DEF EndStartAll, telegramVars
  <2>2. PICK s \in {Up, Down, Deaf} : /\ running' = s.running /\ link' = s.link
                                      /\ IF s = Up THEN UNCHANGED faults ELSE Fault
    <3>1. Started \subseteq {Up, Down, Deaf}
      BY InstalledAssumption
         DEF Started, StartTelegram, StartSlack, StartQQ, StartDingTalk, StartDiscord, StartFeishu,
             StartWhatsApp, StartMaixCam, PhaseInv
    <3>2. QED
      BY <1>3, <3>1 DEF EndStartAll
  <2>3. running' \in BOOLEAN /\ link' \in {"none", "up"}
    <3>1. s.running \in BOOLEAN /\ s.link \in {"none", "up"}
      <4>1. CASE s = Up
        BY <4>1, Zenon DEF Up
      <4>2. CASE s = Down
        BY <4>2, Zenon DEF Down
      <4>3. CASE s = Deaf
        BY <4>3, Zenon DEF Deaf
      <4>4. QED
        BY <4>1, <4>2, <4>3
    <3>2. QED
      BY <2>2, <3>1
  <2>4. faults' \in 0 .. MaxFaults /\ (faults' = 0 => running' = TRUE)
    BY <2>2 DEF Up, Fault, PhaseInv
  <2>5. PhaseInv'
    BY <1>3, <2>3, <2>4 DEF EndStartAll, PhaseInv, otherVars
  <2>6. QED
    BY <1>1, <2>1, <2>5
<1>4. CASE Lookup
  <2>1. PhaseInv'
    BY <1>4, PhaseFrame DEF Lookup, otherVars
  <2>2. SendInv'
    BY <1>4, SendGoesOn DEF Lookup, Places
  <2>3. PostInv'
    BY <1>4 DEF Lookup, PostInv, telegramVars, SendInv, Idle
  <2>4. QED
    BY <1>1, <2>1, <2>2, <2>3
<1>5. QED
  BY <1>2, <1>3, <1>4

LEMMA StopTypes == TypeInv /\ Stop => TypeInv'
<1>. SUFFICES ASSUME TypeInv, Stop PROVE TypeInv'
  OBVIOUS
<1>. USE DEF TypeInv, Stop, Stopping
<1>1. QueueInv' /\ SendInv' /\ SlackTypeOK' /\ OtherInv'
  BY QueueFrame, SendFrame, OtherFrame DEF SlackTypeOK, slackVars, otherVars
<1>2. PostInv'
  BY PostFrame
<1>3. PhaseInv'
  <2>1. running' \in BOOLEAN
    BY DEF PhaseInv
  <2>2. QED
    BY <2>1 DEF PhaseInv, otherVars
<1>4. AnimInv'
  BY DEF AnimInv, StopTelegram
<1>5. QED
  BY <1>1, <1>2, <1>3, <1>4

LEMMA MessageTypes ==
  ASSUME TypeInv, UNCHANGED adapters,
         \/ \E d \in DOMAIN events : HandleMessage(d)
         \/ Respond
         \/ \E chat \in ChatsOfJobs : SendJobText(chat)
  PROVE  TypeInv'
<1>. USE DEF TypeInv, adapters
<1>1. AnimInv' /\ SlackTypeOK'
  BY AnimFrame DEF SlackTypeOK, slackVars
<1>2. ASSUME NEW d \in DOMAIN events, HandleMessage(d) PROVE TypeInv'
  <2>1. QueueInv'
    <3>1. CASE events[d].allowed /\ ~events[d].empty
      BY <1>2, <3>1, QueueMove DEF HandleMessage
    <3>2. CASE ~(events[d].allowed /\ ~events[d].empty)
      BY <1>2, <3>2, QueueMove DEF HandleMessage
    <3>3. QED
      BY <3>1, <3>2
  <2>2. SendInv' /\ PostInv' /\ PhaseInv' /\ OtherInv'
    BY <1>2, SendFrame, PostFrame, PhaseFrame, OtherFrame DEF HandleMessage, telegramVars, otherVars
  <2>3. QED
    BY <1>1, <2>1, <2>2
<1>3. CASE Respond
  <2>1. /\ Head(inbox) \in Nat /\ Head(inbox) \in DOMAIN events
        /\ events[Head(inbox)].at = "published"
    BY <1>3, HeadTailProperties DEF Respond, QueueInv, InboxInv
  <2>2. events[Head(inbox)].chat \in Nat
    <3>1. events[Head(inbox)] \in EventOf
      BY <2>1 DEF QueueInv, EventsInv
    <3>2. QED
      BY <3>1, Zenon DEF EventOf
  <2>3. /\ QueueInv' /\ Len(given') = Len(given) + 1
        /\ \A i \in DOMAIN given : i \in DOMAIN given' /\ given'[i] = given[i]
    BY <1>3, <2>1, <2>2, QueueGive DEF Respond
  <2>4. SendInv' /\ PostInv' /\ OtherInv'
    BY <1>3, <2>3, GivenGrows DEF Respond
  <2>5. PhaseInv'
    BY <1>3, PhaseFrame DEF Respond, otherVars
  <2>6. QED
    BY <1>1, <2>3, <2>4, <2>5
<1>4. ASSUME NEW chat \in ChatsOfJobs, SendJobText(chat) PROVE TypeInv'
  <2>1. chat \in Nat
    BY DEF ChatsOfJobs, SlackChats, Chats
  <2>2. /\ QueueInv' /\ Len(given') = Len(given) + 1
        /\ \A i \in DOMAIN given : i \in DOMAIN given' /\ given'[i] = given[i]
    BY <1>4, <2>1, QueueGive DEF SendJobText, JobText
  <2>3. SendInv' /\ PostInv' /\ OtherInv'
    BY <1>4, <2>2, GivenGrows DEF SendJobText, JobText
  <2>4. PhaseInv'
    BY <1>4, PhaseGoesOn DEF SendJobText, JobText, Disturb, Noted, otherVars
  <2>5. QED
    BY <1>1, <2>2, <2>3, <2>4
<1>5. QED
  BY <1>2, <1>3, <1>4

LEMMA TakeTypes == ASSUME TypeInv, Take, UNCHANGED adapters PROVE TypeInv'
<1>. USE DEF TypeInv, adapters, Take
<1>1. AnimInv' /\ SlackTypeOK' /\ OtherInv'
  BY AnimFrame, OtherFrame DEF SlackTypeOK, slackVars, otherVars
<1>2. Head(outbox) \in TextOf /\ Known(Head(outbox))
  BY HeadTailProperties DEF QueueInv, OutboxInv
<1>3. QueueInv'
  <2>1. /\ outbox' \in Seq(TextOf)
        /\ \A i \in DOMAIN outbox' : i + 1 \in DOMAIN outbox /\ outbox'[i] = outbox[i + 1]
    BY HeadTailProperties DEF QueueInv, OutboxInv
  <2>2. OutboxInv'
    BY <2>1 DEF QueueInv, OutboxInv, Known
  <2>3. QED
    BY <2>2 DEF QueueInv, EventsInv, InboxInv, GivenInv, Asked
<1>4. SendInv' /\ sending'.mid = 0
  BY <1>2 DEF SendInv, Known, Idle, TextOf, Places
<1>5. PostInv'
  BY <1>4 DEF PostInv, telegramVars
<1>6. PhaseInv'
  BY PhaseGoesOn DEF Disturb, Noted, otherVars
<1>7. QED
  BY <1>1, <1>3, <1>4, <1>5, <1>6

\* A message that arrives in any channel.
LEMMA ArrivalTypes ==
  ASSUME TypeInv, Listening, NEW n \in Nat, n =< Len(events) + 1, NEW chat \in Nat,
         NEW allowed \in BOOLEAN, NEW empty \in BOOLEAN,
         NEW place \in {"thinking", "posted", "ready", "published", "dropped"},
         events' = Append(events, Event(n, chat, allowed, empty, place)),
         UNCHANGED <<channel, phase, running, link, inbox, outbox, sending, posted, faults, given, reads>>,
         untidy' \subseteq untidy \cup {"overlap", "late"}
  PROVE  QueueInv' /\ SendInv' /\ PhaseInv' /\ Len(events) + 1 \in 1 .. MaxEvents
<1>. USE DEF TypeInv
<1>1. Event(n, chat, allowed, empty, place) \in EventOf /\ Event(n, chat, allowed, empty, place).m = n
  <2>1. Event(n, chat, allowed, empty, place) \in EventOf
    BY Zenon DEF Event, EventOf
  <2>2. QED
    BY <2>1, Zenon DEF Event
<1>2. Len(events) \in Nat /\ Len(events) < MaxEvents
  BY DEF Listening, QueueInv, EventsInv
<1>3. QueueInv'
  BY <1>1, <1>2, QueueArrive
<1>4. SendInv' /\ PhaseInv'
  BY SendFrame, PhaseGoesOn
<1>5. QED
  BY <1>2, <1>3, <1>4

LEMMA TelegramArrivalTypes ==
  ASSUME TypeInv, NEW allowed \in BOOLEAN, HandleTelegram(allowed), UNCHANGED <<slackVars, otherVars>>
  PROVE  TypeInv'
<1>. USE DEF TypeInv, HandleTelegram
<1>. DEFINE d == Len(events) + 1
<1>1. d \in Nat
  BY DEF QueueInv, EventsInv
<1>2. QueueInv' /\ SendInv' /\ PhaseInv' /\ d \in 1 .. MaxEvents
  <2>1. PICK place \in {"thinking", "dropped"}, b \in BOOLEAN : events' = Append(events, Event(d, 0, b, FALSE, place))
    OBVIOUS
  <2>2. untidy' \subseteq untidy \cup {"overlap", "late"}
    BY DEF Noted
  <2>3. d =< Len(events) + 1 /\ 0 \in Nat /\ FALSE \in BOOLEAN
    BY <1>1
  <2>4. Listening /\ UNCHANGED <<channel, phase, running, link, inbox, outbox, sending, posted, faults, given, reads>>
    BY DEF otherVars
  <2>. HIDE DEF d, HandleTelegram, TypeInv
  <2>5. QED
    BY <1>1, <2>1, <2>2, <2>3, <2>4, ArrivalTypes DEF d
<1>. HIDE DEF d
<1>3. AnimInv'
  <2>1. CASE UNCHANGED telegramVars
    BY <2>1, AnimFrame
  <2>2. CASE ~UNCHANGED telegramVars
    <3>1. stop # 0 => Cancelled(stop) \in [1 .. MaxEvents -> {"none", "ready", "run", "edit", "late", "off"}]
      BY DEF AnimInv, Cancelled
    <3>2. /\ anim' = [IF stop = 0 THEN anim ELSE Cancelled(stop) EXCEPT ![d] = "ready"]
          /\ stop' = d /\ UNCHANGED <<placeholder, mid>>
      BY <2>2 DEF d
    <3>3. QED
      BY <1>2, <3>1, <3>2 DEF AnimInv
  <2>3. QED
    BY <2>1, <2>2
<1>4. PostInv'
  BY PostFrame DEF telegramVars
<1>5. SlackTypeOK' /\ OtherInv'
  BY OtherFrame DEF SlackTypeOK, slackVars, otherVars
<1>6. QED
  BY <1>2, <1>3, <1>4, <1>5

LEMMA ReceivedTypes ==
  ASSUME TypeInv, NEW n \in Nat, n =< Len(events) + 1, NEW chat \in Nat,
         NEW allowed \in BOOLEAN, NEW empty \in BOOLEAN, NEW place \in {"ready", "dropped"},
         Received(Event(n, chat, allowed, empty, place)),
         UNCHANGED pending \/ \E c \in Nat : Acknowledge(Len(events) + 1, c),
         UNCHANGED <<telegramVars, otherVars>>
  PROVE  TypeInv'
<1>. USE DEF TypeInv, Received
<1>1. QueueInv' /\ SendInv' /\ PhaseInv' /\ Len(events) + 1 \in 1 .. MaxEvents
  BY ArrivalTypes DEF Disturb, Noted, otherVars
<1>2. SlackTypeOK'
  BY <1>1 DEF SlackTypeOK, Acknowledge
<1>3. PostInv' /\ AnimInv' /\ OtherInv'
  BY PostFrame, AnimFrame, OtherFrame DEF telegramVars, otherVars
<1>4. QED
  BY <1>1, <1>2, <1>3

LEMMA SlackArrivalTypes ==
  ASSUME TypeInv, NEW t \in SlackChats, NEW allowed \in BOOLEAN, NEW empty \in BOOLEAN,
         \/ HandleMessageEvent(t, allowed, empty)
         \/ HandleAppMention(t, allowed, empty)
         \/ HandleSlashCommand(allowed),
         UNCHANGED <<telegramVars, otherVars>>
  PROVE  TypeInv'
<1>1. Len(events) + 1 \in Nat /\ t \in Nat
  BY DEF TypeInv, QueueInv, EventsInv, SlackChats
<1>2. CASE HandleMessageEvent(t, allowed, empty)
  BY <1>1, <1>2, ReceivedTypes DEF HandleMessageEvent
<1>3. CASE HandleAppMention(t, allowed, empty)
  BY <1>1, <1>3, ReceivedTypes DEF HandleAppMention
<1>4. CASE HandleSlashCommand(allowed)
  <2>1. Received(Event(0, 0, allowed, FALSE, "ready")) /\ UNCHANGED pending
    BY <1>4 DEF HandleSlashCommand
  <2>2. 0 \in Nat /\ 0 =< Len(events) + 1 /\ FALSE \in BOOLEAN
    BY <1>1
  <2>3. QED
    BY <2>1, <2>2, ReceivedTypes
<1>5. QED
  BY <1>2, <1>3, <1>4

\* What isDuplicate keeps fits in the map.
LEMMA KeptFits ==
  ASSUME NEW ids, IsFiniteSet(ids), Cardinality(ids) =< Limit + 1, NEW kept \in Kept(ids)
  PROVE  IsFiniteSet(kept) /\ kept \subseteq ids /\ Cardinality(kept) =< Limit
<1>1. Cardinality(ids) \in Nat
  BY FS_CardinalityType
<1>2. CASE Cardinality(ids) =< Limit
  BY <1>2 DEF Kept
<1>3. CASE ~(Cardinality(ids) =< Limit)
  <2>1. kept \subseteq ids /\ Cardinality(kept) = Cardinality(ids) - Cut
    BY <1>3 DEF Kept
  <2>2. QED
    BY <1>1, <1>3, <2>1, FS_Subset
<1>4. QED
  BY <1>2, <1>3

LEMMA OtherArrivalTypes ==
  ASSUME TypeInv, NEW n \in Nat, n =< Len(events) + 1, NEW chat \in Nat,
         NEW allowed \in BOOLEAN, NEW empty \in BOOLEAN, NEW place \in {"ready", "dropped"},
         Arrive(Event(n, chat, allowed, empty, place)),
         UNCHANGED <<late, client, reads, telegramVars, slackVars>>,
         hooks' \subseteq Chats,
         \/ UNCHANGED processed
         \/ n # 0 /\ processed' \in Kept(processed \cup {n})
  PROVE  TypeInv'
<1>. USE DEF TypeInv, Arrive
<1>1. QueueInv' /\ SendInv' /\ PhaseInv' /\ Len(events) + 1 \in 1 .. MaxEvents
  BY ArrivalTypes
<1>2. PostInv' /\ AnimInv' /\ SlackTypeOK'
  BY PostFrame, AnimFrame DEF telegramVars, slackVars, SlackTypeOK
<1>3. OtherInv'
  <2>1. /\ IsFiniteSet(processed') /\ processed' \subseteq 1 .. MaxEvents
        /\ Cardinality(processed') =< Limit
    <3>1. CASE UNCHANGED processed
      BY <3>1 DEF OtherInv
    <3>2. CASE n # 0 /\ processed' \in Kept(processed \cup {n})
      <4>1. IsFiniteSet(processed \cup {n}) /\ Cardinality(processed \cup {n}) =< Limit + 1
        <5>1. IsFiniteSet(processed) /\ Cardinality(processed) =< Limit /\ Cardinality(processed) \in Nat
          BY FS_CardinalityType DEF OtherInv
        <5>2. /\ IsFiniteSet(processed \cup {n})
              /\ Cardinality(processed \cup {n}) \in {Cardinality(processed), Cardinality(processed) + 1}
          BY <5>1, FS_AddElement
        <5>3. QED
          BY <5>1, <5>2
      <4>2. processed \cup {n} \subseteq 1 .. MaxEvents
        BY <1>1, <3>2 DEF OtherInv
      <4>3. QED
        BY <3>2, <4>1, <4>2, KeptFits
    <3>3. QED
      BY <3>1, <3>2
  <2>2. QED
    BY <2>1 DEF OtherInv, Known
<1>4. QED
  BY <1>1, <1>2, <1>3

LEMMA UserTypes ==
  ASSUME TypeInv, NEW chat \in Chats, NEW allowed \in BOOLEAN, NEW empty \in BOOLEAN,
         \/ \E m \in Events : HandleQQ(m, chat, allowed, empty)
         \/ HandleDingTalk(chat, allowed, empty)
         \/ HandleDiscord(chat, allowed, empty)
         \/ HandleFeishu(chat, allowed)
         \/ HandleWhatsApp(chat, allowed)
         \/ HandlePersonDetection(allowed),
         UNCHANGED <<telegramVars, slackVars>>
  PROVE  TypeInv'
<1>1. /\ Len(events) + 1 \in Nat /\ Len(events) + 1 =< Len(events) + 1 /\ chat \in Nat
      /\ FALSE \in BOOLEAN /\ 0 \in Nat /\ hooks \subseteq Chats
  BY DEF TypeInv, QueueInv, EventsInv, OtherInv, Chats
<1>2. ASSUME NEW m \in Events, HandleQQ(m, chat, allowed, empty) PROVE TypeInv'
  <2>1. m \in Nat /\ m # 0 /\ m =< Len(events) + 1
    BY <1>1, <1>2 DEF HandleQQ
  <2>2. PICK place \in {"ready", "dropped"} : Arrive(Event(m, chat, allowed, empty, place))
    BY <1>2 DEF HandleQQ
  <2>3. UNCHANGED <<hooks, late, client, reads>> /\ processed' \in Kept(processed \cup {m})
    BY <1>2 DEF HandleQQ
  <2>4. QED
    BY <1>1, <2>1, <2>2, <2>3, OtherArrivalTypes
<1>3. CASE HandleDingTalk(chat, allowed, empty)
  <2>1. PICK place \in {"ready", "dropped"} : Arrive(Event(Len(events) + 1, chat, allowed, empty, place))
    BY <1>3 DEF HandleDingTalk
  <2>2. UNCHANGED <<processed, late, client, reads>> /\ hooks' \subseteq Chats
    BY <1>1, <1>3 DEF HandleDingTalk
  <2>3. QED
    BY <1>1, <2>1, <2>2, OtherArrivalTypes
<1>4. CASE HandleDiscord(chat, allowed, empty)
  <2>1. PICK place \in {"ready", "dropped"} : Arrive(Event(Len(events) + 1, chat, allowed, empty, place))
    BY <1>4 DEF HandleDiscord
  <2>2. UNCHANGED <<processed, late, client, reads>> /\ hooks' \subseteq Chats
    BY <1>1, <1>4 DEF HandleDiscord, otherVars
  <2>3. QED
    BY <1>1, <2>1, <2>2, OtherArrivalTypes
<1>5. ASSUME NEW c \in Nat, Arrive(Event(Len(events) + 1, c, allowed, FALSE, "ready")), UNCHANGED otherVars
      PROVE  TypeInv'
  <2>1. UNCHANGED <<processed, late, client, reads>> /\ hooks' \subseteq Chats
    BY <1>1, <1>5 DEF otherVars
  <2>2. QED
    BY <1>1, <1>5, <2>1, OtherArrivalTypes
<1>6. QED
  BY <1>1, <1>2, <1>3, <1>4, <1>5 DEF HandleFeishu, HandleWhatsApp, HandlePersonDetection

\* A step of Send in which nothing but what is shown, what failed and what is noted
\* changes.
LEMMA SentTypes ==
  ASSUME TypeInv, InSend, UNCHANGED reads, Fault \/ UNCHANGED faults,
         untidy' \subseteq untidy \cup {"overlap", "late"},
         Show \/ Unseen,
         \/ sending' = Idle
         \/ /\ sending.at # "idle"
            /\ \E place \in Places \ {"idle"} :
                 /\ Proceed(place)
                 /\ channel # "telegram" => place \in {"lookup", "send", "mark", "wait", "write"}
  PROVE  /\ QueueInv' /\ SendInv' /\ PhaseInv'
         /\ UNCHANGED <<placeholder, mid>> => PostInv'
<1>. USE DEF TypeInv, InSend
<1>1. QueueInv' /\ PhaseInv'
  BY QueueFrame, PhaseGoesOn
<1>2. SendInv'
  BY SendGoesOn DEF Proceed
<1>3. sending'.mid = 0 \/ sending'.mid = sending.mid
  BY DEF Idle, Proceed, SendInv
<1>4. ASSUME UNCHANGED <<placeholder, mid>> PROVE PostInv'
  <2>. DEFINE text == [chat |-> sending.text.chat, id |-> sending.text.id]
  <2>1. sending.text \in TextOf /\ sending.text.id =< Len(given) /\ Len(given) \in Nat
    <3>1. Len(given) \in Nat /\ DOMAIN given = 1 .. Len(given) /\ sending.text \in TextOf
      BY DEF QueueInv, GivenInv, SendInv
    <3>2. CASE sending.at = "idle"
      BY <3>1, <3>2 DEF SendInv, Idle, NoText
    <3>3. CASE sending.at # "idle"
      BY <3>1, <3>3 DEF SendInv, Known
    <3>4. QED
      BY <3>1, <3>2, <3>3
  <2>2. text \in PostOf /\ text.id =< Len(given)
    BY <2>1 DEF PostOf, TextOf
  <2>3. /\ posted' \in Seq(PostOf) /\ Len(posted') >= Len(posted) /\ Len(posted) \in Nat
        /\ \A i \in DOMAIN posted' : posted'[i].id =< Len(given')
    <3>1. UNCHANGED posted \/ posted' = Append(posted, text)
      BY DEF Show, Unseen
    <3>. HIDE DEF text
    <3>2. QED
      BY <2>2, <3>1, PostsGoOn DEF PostInv
  <2>4. placeholder \in Nat /\ sending.mid \in Nat /\ \A d \in 1 .. MaxEvents : mid[d] \in Nat
    BY DEF AnimInv, SendInv
  <2>. HIDE DEF TypeInv
  <2>5. QED
    BY <1>3, <1>4, <2>3, <2>4 DEF PostInv, TypeInv
<1>5. QED
  BY <1>1, <1>2, <1>4

LEMMA SlackSendTypes ==
  ASSUME TypeInv, ChatInv, SlackSend, UNCHANGED <<telegramVars, otherVars>> PROVE TypeInv'
<1>. USE DEF TypeInv, SlackSend
<1>1. SlackTypeOK'
  <2>1. CASE Sending("send")
    BY <2>1 DEF SlackTypeOK, slackVars, Sending
  <2>2. CASE Sending("mark")
    <3>. DEFINE c == sending.text.chat
    <3>1. pending' = [pending EXCEPT ![c] = 0] /\ checked' = checked \cup ({pending[c]} \ {0})
      BY <2>2 DEF Sending
    <3>2. c \in SlackChats
      BY <2>2 DEF Sending, ChatInv, SendInv, Known
    <3>. HIDE DEF c
    <3>3. pending[c] \in 0 .. MaxEvents
      BY <3>2 DEF SlackTypeOK
    <3>4. pending' \in [SlackChats -> 0 .. MaxEvents]
      BY <3>1, <3>2 DEF SlackTypeOK
    <3>5. checked' \subseteq 1 .. MaxEvents
      <4>1. checked \subseteq 1 .. MaxEvents
        BY DEF SlackTypeOK
      <4>2. {pending[c]} \ {0} \subseteq 1 .. MaxEvents
        BY <3>3
      <4>. HIDE DEF SlackSend, TypeInv
      <4>3. QED
        BY <3>1, <4>1, <4>2
    <3>6. QED
      BY <3>4, <3>5 DEF SlackTypeOK
  <2>3. QED
    BY <2>1, <2>2
<1>2. QueueInv' /\ SendInv' /\ PhaseInv' /\ PostInv'
  BY SentTypes DEF Sending, Unseen, Places, telegramVars, otherVars
<1>3. AnimInv' /\ OtherInv'
  BY AnimFrame, OtherFrame DEF otherVars, InSend
<1>4. QED
  BY <1>1, <1>2, <1>3

LEMMA OtherSendTypes ==
  ASSUME TypeInv, OtherSend, UNCHANGED <<telegramVars, slackVars>> PROVE TypeInv'
<1>. USE DEF TypeInv
<1>1. AnimInv' /\ SlackTypeOK'
  BY AnimFrame DEF SlackTypeOK, slackVars
<1>2. CASE DiscordTimeout
  <2>1. QueueInv' /\ SendInv' /\ PhaseInv' /\ PostInv'
    BY <1>2, SentTypes DEF DiscordTimeout, Sending, Unseen, Disturb, Noted, telegramVars
  <2>2. Known(sending.text)
    BY <1>2 DEF DiscordTimeout, Sending, SendInv
  <2>3. OtherInv'
    BY <1>2, <2>2 DEF DiscordTimeout, InSend, OtherInv, Known
  <2>4. QED
    BY <1>1, <2>1, <2>3
<1>3. ASSUME UNCHANGED otherVars, InSend, Fault \/ UNCHANGED faults, UNCHANGED untidy, Show \/ Unseen,
             \/ sending' = Idle
             \/ sending.at # "idle" /\ (Proceed("wait") \/ Proceed("write"))
      PROVE  TypeInv'
  <2>1. QueueInv' /\ SendInv' /\ PhaseInv' /\ PostInv'
    BY <1>3, SentTypes DEF Places, telegramVars, otherVars
  <2>2. OtherInv'
    BY <1>3, OtherFrame DEF otherVars, InSend
  <2>3. QED
    BY <1>1, <2>1, <2>2
<1>4. CASE SendQQ
  BY <1>3, <1>4 DEF SendQQ
<1>5. CASE SendDingTalk
  BY <1>3, <1>5 DEF SendDingTalk
<1>6. CASE SendDiscord
  BY <1>3, <1>6 DEF SendDiscord, Sending
<1>7. CASE SendFeishu
  BY <1>3, <1>7 DEF SendFeishu
<1>8. CASE SendWhatsApp
  BY <1>3, <1>8 DEF SendWhatsApp, Sending
<1>9. CASE SendMaixCam
  BY <1>3, <1>9 DEF SendMaixCam, Sending
<1>10. QED
  BY <1>2, <1>4, <1>5, <1>6, <1>7, <1>8, <1>9 DEF OtherSend

LEMMA LinkTypes ==
  ASSUME TypeInv, LatePost \/ LoseBridge \/ FailRead \/ Connect \/ Disconnect,
         UNCHANGED <<telegramVars, slackVars>>
  PROVE  TypeInv'
<1>. USE DEF TypeInv
<1>1. AnimInv' /\ SlackTypeOK'
  BY AnimFrame DEF SlackTypeOK, slackVars
<1>2. QueueInv'
  BY QueueFrame DEF LatePost, LoseBridge, FailRead, Connect, Disconnect, core
<1>3. CASE LatePost
  <2>1. PICK text \in late : /\ late' = late \ {text}
                             /\ posted' = Append(posted, [chat |-> text.chat, id |-> text.id])
    BY <1>3 DEF LatePost
  <2>2. SendInv' /\ PhaseInv'
    BY <1>3, SendFrame, PhaseFrame DEF LatePost
  <2>3. OtherInv'
    <3>1. UNCHANGED <<processed, hooks, client, given>> /\ late' \subseteq late
      BY <1>3, <2>1 DEF LatePost
    <3>2. QED
      BY <3>1 DEF OtherInv, Known
  <2>4. PostInv'
    <3>. DEFINE post == [chat |-> text.chat, id |-> text.id]
    <3>1. text \in TextOf /\ text.id =< Len(given)
      BY DEF OtherInv, Known, QueueInv, GivenInv
    <3>2. post \in PostOf /\ post.id =< Len(given)
      BY <3>1 DEF TextOf, PostOf
    <3>. HIDE DEF post
    <3>3. posted' = Append(posted, post) /\ UNCHANGED given
      BY <1>3, <2>1 DEF LatePost, post
    <3>4. /\ posted' \in Seq(PostOf) /\ Len(posted') >= Len(posted) /\ Len(posted) \in Nat
          /\ \A i \in DOMAIN posted' : posted'[i].id =< Len(given')
      BY <3>2, <3>3, PostsGoOn DEF PostInv
    <3>5. placeholder \in Nat /\ sending.mid \in Nat /\ \A d \in 1 .. MaxEvents : mid[d] \in Nat
      BY DEF AnimInv, SendInv
    <3>6. UNCHANGED <<sending, placeholder, mid>>
      BY <1>3 DEF LatePost, telegramVars
    <3>7. QED
      BY <3>4, <3>5, <3>6 DEF PostInv
  <2>5. QED
    BY <1>1, <1>2, <2>2, <2>3, <2>4
<1>4. CASE LoseBridge
  <2>1. SendInv' /\ PostInv' /\ OtherInv'
    <3>1. SendInv'
      <4>1. CASE sending.at = "write"
        BY <1>4, <4>1, SendGoesOn DEF LoseBridge
      <4>2. CASE sending.at # "write"
        BY <1>4, <4>2, SendFrame DEF LoseBridge
      <4>3. QED
        BY <4>1, <4>2
    <3>2. sending'.mid = 0 \/ sending'.mid = sending.mid
      BY <1>4 DEF LoseBridge, Idle
    <3>3. PostInv'
      BY <1>4, <3>2 DEF LoseBridge, telegramVars, PostInv
    <3>4. OtherInv'
      BY <1>4, OtherFrame DEF LoseBridge, otherVars
    <3>5. QED
      BY <3>1, <3>3, <3>4
  <2>2. PhaseInv'
    <3>1. running' \in BOOLEAN /\ faults' \in 0 .. MaxFaults /\ faults' # 0
      BY <1>4 DEF LoseBridge, Fault, PhaseInv
    <3>2. QED
      BY <1>4, <3>1 DEF LoseBridge, PhaseInv, otherVars
  <2>3. QED
    BY <1>1, <1>2, <2>1, <2>2
<1>5. CASE FailRead
  <2>1. SendInv' /\ PostInv' /\ OtherInv'
    BY <1>5, SendFrame, PostFrame, OtherFrame DEF FailRead, telegramVars
  <2>2. PhaseInv'
    <3>1. running' \in BOOLEAN
      BY <1>5 DEF FailRead, PhaseInv
    <3>2. reads' \in 0 .. ReadLimit /\ (phase' # "crashed" => reads' < ReadLimit)
      BY <1>5 DEF FailRead, PhaseInv
    <3>3. phase' \in {"up", "crashed"} /\ UNCHANGED <<channel, running, link, faults, untidy>> /\ phase = "up"
      BY <1>5 DEF FailRead
    <3>4. QED
      BY <3>1, <3>2, <3>3 DEF PhaseInv
  <2>3. QED
    BY <1>1, <1>2, <2>1, <2>2
<1>6. CASE Connect
  <2>1. SendInv' /\ PostInv' /\ PhaseInv'
    BY <1>6, SendFrame, PostFrame, PhaseFrame DEF Connect, telegramVars, core
  <2>2. OtherInv'
    <3>1. client' \in BOOLEAN
      BY <1>6 DEF Connect
    <3>2. QED
      BY <1>6, <3>1 DEF Connect, core, OtherInv, Known
  <2>3. QED
    BY <1>1, <1>2, <2>1, <2>2
<1>7. CASE Disconnect
  <2>1. SendInv'
    <3>1. CASE sending.at = "write"
      BY <1>7, <3>1, SendGoesOn DEF Disconnect
    <3>2. CASE sending.at # "write"
      BY <1>7, <3>2, SendFrame DEF Disconnect
    <3>3. QED
      BY <3>1, <3>2
  <2>2. PostInv'
    <3>1. sending'.mid = 0 \/ sending'.mid = sending.mid
      BY <1>7 DEF Disconnect, Idle
    <3>2. QED
      BY <1>7, <3>1 DEF Disconnect, telegramVars, PostInv
  <2>3. PhaseInv'
    BY <1>7, PhaseGoesOn DEF Disconnect
  <2>4. OtherInv'
    <3>1. client' \in BOOLEAN
      BY <1>7 DEF Disconnect
    <3>2. QED
      BY <1>7, <3>1 DEF Disconnect, OtherInv, Known
  <2>5. QED
    BY <1>1, <1>2, <2>1, <2>2, <2>3, <2>4
<1>8. QED
  BY <1>3, <1>4, <1>5, <1>6, <1>7

LEMMA PlaceholderTypes ==
  ASSUME TypeInv, UNCHANGED <<slackVars, otherVars>>, NEW d \in DOMAIN events,
         PostThinking(d) \/ StorePlaceholder(d)
  PROVE  TypeInv'
<1>. USE DEF TypeInv
<1>1. SlackTypeOK' /\ OtherInv'
  BY OtherFrame DEF SlackTypeOK, slackVars, otherVars, PostThinking, StorePlaceholder
<1>2. d \in 1 .. MaxEvents /\ Len(posted) \in Nat
  BY DEF QueueInv, EventsInv, PostInv
<1>3. SendInv'
  BY SendFrame DEF PostThinking, StorePlaceholder
<1>4. PhaseInv'
  BY PhaseGoesOn DEF PostThinking, StorePlaceholder, otherVars
<1>5. CASE PostThinking(d)
  <2>1. QueueInv'
    <3>1. PICK place \in {"posted", "ready"} : events' = [events EXCEPT ![d].at = place]
      BY <1>5 DEF PostThinking
    <3>2. events[d].at # "published" /\ UNCHANGED <<inbox, outbox, given>>
      BY <1>5 DEF PostThinking
    <3>3. QED
      BY <3>1, <3>2, QueueMove
  <2>2. Thinking \in PostOf /\ Thinking.id =< Len(given)
    BY DEF Thinking, PostOf, QueueInv, GivenInv
  <2>3. /\ posted' \in Seq(PostOf) /\ Len(posted') >= Len(posted)
        /\ \A i \in DOMAIN posted' : posted'[i].id =< Len(given')
    <3>1. (UNCHANGED posted \/ posted' = Append(posted, Thinking)) /\ UNCHANGED given
      BY <1>5 DEF PostThinking
    <3>2. QED
      BY <2>2, <3>1, PostsGoOn
  <2>4. AnimInv' /\ \A e \in 1 .. MaxEvents : mid'[e] =< Len(posted')
    <3>1. CASE UNCHANGED mid
      <4>1. \A e \in 1 .. MaxEvents : mid[e] \in Nat
        BY DEF AnimInv
      <4>2. UNCHANGED telegramVars
        BY <1>5, <3>1 DEF PostThinking, telegramVars
      <4>3. QED
        BY <1>2, <2>3, <3>1, <4>1, <4>2, AnimFrame DEF PostInv
    <3>2. CASE posted' = Append(posted, Thinking) /\ mid' = [mid EXCEPT ![d] = Len(posted) + 1]
      <4>1. Len(posted') = Len(posted) + 1
        BY <3>2, <2>2, AppendProperties DEF PostInv
      <4>2. UNCHANGED <<placeholder, stop, anim>>
        BY <1>5 DEF PostThinking
      <4>3. mid' \in [1 .. MaxEvents -> Nat]
        BY <1>2, <3>2 DEF AnimInv
      <4>4. \A e \in 1 .. MaxEvents : mid'[e] = IF e = d THEN Len(posted) + 1 ELSE mid[e]
        BY <3>2 DEF AnimInv
      <4>5. \A e \in 1 .. MaxEvents : mid[e] \in Nat /\ mid[e] =< Len(posted)
        BY DEF AnimInv, PostInv
      <4>6. ASSUME NEW e \in 1 .. MaxEvents PROVE mid'[e] =< Len(posted')
        <5>1. Len(posted) \in Nat
          BY <2>2, LenProperties DEF PostInv
        <5>2. CASE e = d
          BY <4>1, <4>4, <5>1, <5>2
        <5>3. CASE e # d
          BY <4>1, <4>4, <4>5, <5>1, <5>3
        <5>4. QED
          BY <5>2, <5>3
      <4>7. QED
        BY <4>2, <4>3, <4>6 DEF AnimInv
    <3>3. QED
      BY <1>5, <3>1, <3>2 DEF PostThinking
  <2>5. PostInv'
    <3>1. UNCHANGED <<sending, placeholder>> /\ sending.mid \in Nat /\ placeholder \in Nat
      BY <1>5 DEF PostThinking, SendInv, AnimInv
    <3>2. QED
      BY <1>2, <2>3, <2>4, <3>1 DEF PostInv
  <2>6. QED
    BY <1>1, <1>3, <1>4, <2>1, <2>4, <2>5
<1>6. CASE StorePlaceholder(d)
  <2>1. QueueInv'
    BY <1>6, QueueMove DEF StorePlaceholder
  <2>2. AnimInv'
    BY <1>2, <1>6 DEF StorePlaceholder, AnimInv
  <2>3. PostInv'
    BY <1>2, <1>6 DEF StorePlaceholder, PostInv
  <2>4. QED
    BY <1>1, <1>3, <1>4, <2>1, <2>2, <2>3
<1>7. QED
  BY <1>5, <1>6

LEMMA AnimationTypes ==
  ASSUME TypeInv, UNCHANGED <<slackVars, otherVars>>, NEW d \in Events, Animate(d) \/ ThinkingTimeout(d)
  PROVE  TypeInv'
<1>. USE DEF TypeInv
<1>1. QueueInv' /\ SendInv' /\ SlackTypeOK' /\ OtherInv'
  BY QueueFrame, SendFrame, OtherFrame
     DEF Animate, ThinkingTimeout, Aside, SlackTypeOK, slackVars, otherVars
<1>2. PhaseInv'
  BY PhaseGoesOn DEF Animate, ThinkingTimeout, Aside, Disturb, Noted, otherVars
<1>3. AnimInv'
  <2>1. CASE Animate(d)
    BY <2>1 DEF Animate, AnimInv, Events
  <2>2. CASE ThinkingTimeout(d)
    BY <2>2 DEF ThinkingTimeout, AnimInv, Cancelled, Events
  <2>3. QED
    BY <2>1, <2>2
<1>4. PostInv'
  <2>1. Thinking \in PostOf /\ Thinking.id =< Len(given)
    BY DEF Thinking, PostOf, QueueInv, GivenInv
  <2>2. mid[d] \in Nat
    BY DEF AnimInv, Events
  <2>3. UNCHANGED posted \/ posted' = [posted EXCEPT ![mid[d]] = Thinking]
    BY DEF Animate, ThinkingTimeout, Unseen
  <2>4. UNCHANGED <<sending, placeholder, mid, given>>
    BY DEF Animate, ThinkingTimeout, Aside
  <2>5. /\ posted' \in Seq(PostOf) /\ Len(posted') >= Len(posted) /\ Len(posted) \in Nat
        /\ \A i \in DOMAIN posted' : posted'[i].id =< Len(given')
    BY <2>1, <2>2, <2>3, <2>4, PostsGoOn DEF PostInv
  <2>6. sending.mid \in Nat /\ placeholder \in Nat /\ \A e \in 1 .. MaxEvents : mid[e] \in Nat
    BY DEF SendInv, AnimInv
  <2>7. QED
    BY <2>4, <2>5, <2>6 DEF PostInv
<1>5. QED
  BY <1>1, <1>2, <1>3, <1>4

LEMMA TelegramSendTypes ==
  ASSUME TypeInv, UNCHANGED <<slackVars, otherVars>>, TelegramSend PROVE TypeInv'
<1>. USE DEF TypeInv
<1>1. SlackTypeOK' /\ OtherInv' /\ QueueInv'
  BY OtherFrame, QueueFrame
     DEF SlackTypeOK, slackVars, otherVars, InSend, TelegramSend, StopThinking, DeleteStop,
         LoadPlaceholder, DeletePlaceholder, EditPlaceholder, PostAnswer
<1>2. sending.at \in {"unstop", "load", "unplace", "edit"} => channel = "telegram"
  BY DEF SendInv
<1>3. CASE StopThinking
  <2>1. SendInv' /\ PhaseInv' /\ PostInv'
    BY <1>3, SentTypes DEF StopThinking, Sending, Unseen, Disturb, Noted, Places, otherVars
  <2>2. AnimInv'
    BY <1>3 DEF StopThinking, AnimInv, Cancelled
  <2>3. QED
    BY <1>1, <2>1, <2>2
<1>4. CASE DeleteStop
  <2>1. SendInv' /\ PhaseInv' /\ PostInv'
    BY <1>2, <1>4, SentTypes DEF DeleteStop, Sending, Unseen, Places, otherVars
  <2>2. AnimInv'
    BY <1>4 DEF DeleteStop, AnimInv
  <2>3. QED
    BY <1>1, <2>1, <2>2
<1>5. CASE LoadPlaceholder
  <2>1. PhaseInv'
    BY <1>5, PhaseGoesOn DEF LoadPlaceholder, InSend, Disturb, Noted, otherVars
  <2>2. SendInv'
    BY <1>2, <1>5 DEF LoadPlaceholder, Sending, InSend, SendInv, Known, Places, AnimInv
  <2>3. PostInv'
    BY <1>5 DEF LoadPlaceholder, InSend, PostInv, telegramVars, SendInv
  <2>4. AnimInv'
    BY <1>5, AnimFrame DEF LoadPlaceholder
  <2>5. QED
    BY <1>1, <2>1, <2>2, <2>3, <2>4
<1>6. CASE DeletePlaceholder
  <2>1. SendInv' /\ PhaseInv'
    BY <1>2, <1>6, SentTypes DEF DeletePlaceholder, Sending, Unseen, Places, otherVars
  <2>2. AnimInv'
    BY <1>6 DEF DeletePlaceholder, AnimInv
  <2>3. PostInv'
    <3>1. sending'.mid = sending.mid /\ Len(posted) \in Nat
      BY <1>6 DEF DeletePlaceholder, Proceed, SendInv, PostInv
    <3>2. QED
      BY <1>6, <3>1 DEF DeletePlaceholder, InSend, PostInv
  <2>4. QED
    BY <1>1, <2>1, <2>2, <2>3
<1>7. CASE EditPlaceholder
  <2>1. PhaseInv'
    BY <1>7, PhaseGoesOn DEF EditPlaceholder, InSend, otherVars
  <2>2. SendInv' /\ (sending'.mid = 0 \/ sending'.mid = sending.mid)
    <3>1. sending' = Idle \/ Proceed("post")
      BY <1>7 DEF EditPlaceholder
    <3>2. SendInv'
      BY <1>2, <1>7, <3>1, SendGoesOn DEF EditPlaceholder, Sending, InSend, Proceed, Places
    <3>3. QED
      BY <3>1, <3>2 DEF Proceed, SendInv, Idle
  <2>3. AnimInv'
    BY <1>7, AnimFrame DEF EditPlaceholder
  <2>4. PostInv'
    <3>1. Text \in PostOf /\ Text.id =< Len(given)
      <4>1. sending.text \in TextOf /\ sending.text.id =< Len(given)
        BY <1>7 DEF EditPlaceholder, Sending, SendInv, Known, QueueInv, GivenInv
      <4>2. QED
        BY <4>1 DEF Text, PostOf, TextOf
    <3>2. sending.mid \in Nat /\ placeholder \in Nat /\ \A e \in 1 .. MaxEvents : mid[e] \in Nat
      BY DEF SendInv, AnimInv
    <3>3. (UNCHANGED posted \/ posted' = [posted EXCEPT ![sending.mid] = Text]) /\ UNCHANGED given
      BY <1>7 DEF EditPlaceholder, InSend
    <3>4. /\ posted' \in Seq(PostOf) /\ Len(posted') >= Len(posted) /\ Len(posted) \in Nat
          /\ \A i \in DOMAIN posted' : posted'[i].id =< Len(given')
      BY <3>1, <3>2, <3>3, PostsGoOn DEF PostInv
    <3>5. UNCHANGED <<placeholder, mid>>
      BY <1>7 DEF EditPlaceholder, telegramVars
    <3>6. QED
      BY <2>2, <3>2, <3>4, <3>5 DEF PostInv
  <2>5. QED
    BY <1>1, <2>1, <2>2, <2>3, <2>4
<1>8. CASE PostAnswer
  <2>1. SendInv' /\ PhaseInv' /\ PostInv'
    BY <1>8, SentTypes DEF PostAnswer, Sending, Places, otherVars, telegramVars
  <2>2. AnimInv'
    BY <1>8, AnimFrame DEF PostAnswer
  <2>3. QED
    BY <1>1, <2>1, <2>2
<1>9. QED
  BY <1>3, <1>4, <1>5, <1>6, <1>7, <1>8 DEF TelegramSend

LEMMA TypeStep == TypeInv /\ ChatInv /\ [Next]_vars => TypeInv'
<1>. SUFFICES ASSUME TypeInv, ChatInv, [Next]_vars PROVE TypeInv'
  OBVIOUS
<1>. USE DEF adapters
<1>1. CASE UNCHANGED vars
  <2>1. UNCHANGED <<core, telegramVars, slackVars, otherVars>>
    BY <1>1 DEF vars
  <2>2. QueueInv' /\ SendInv' /\ PostInv'
    BY <2>1, QueueFrame, SendFrame, PostFrame DEF TypeInv, core, telegramVars
  <2>3. PhaseInv' /\ AnimInv' /\ OtherInv' /\ SlackTypeOK'
    BY <2>1, PhaseFrame, AnimFrame, OtherFrame DEF TypeInv, core, otherVars, SlackTypeOK, slackVars
  <2>4. QED
    BY <2>2, <2>3 DEF TypeInv
<1>2. CASE (BeginStartAll \/ EndStartAll \/ Lookup) /\ UNCHANGED adapters
  BY <1>2, ManagerTypes
<1>3. CASE /\ UNCHANGED adapters
           /\ \/ \E d \in DOMAIN events : HandleMessage(d)
              \/ Respond
              \/ \E chat \in ChatsOfJobs : SendJobText(chat)
  BY <1>3, MessageTypes
<1>4. CASE Take /\ UNCHANGED adapters
  BY <1>4, TakeTypes
<1>5. CASE Stop
  BY <1>5, StopTypes
<1>6. ASSUME NEW allowed \in BOOLEAN, HandleTelegram(allowed), UNCHANGED <<slackVars, otherVars>>
      PROVE  TypeInv'
  BY <1>6, TelegramArrivalTypes
<1>7. ASSUME NEW d \in DOMAIN events, PostThinking(d) \/ StorePlaceholder(d),
             UNCHANGED <<slackVars, otherVars>>
      PROVE  TypeInv'
  BY <1>7, PlaceholderTypes
<1>8. ASSUME NEW d \in Events, Animate(d) \/ ThinkingTimeout(d), UNCHANGED <<slackVars, otherVars>>
      PROVE  TypeInv'
  BY <1>8, AnimationTypes
<1>9. CASE TelegramSend /\ UNCHANGED <<slackVars, otherVars>>
  BY <1>9, TelegramSendTypes
<1>10. ASSUME NEW t \in SlackChats, NEW allowed \in BOOLEAN, NEW empty \in BOOLEAN,
              \/ HandleMessageEvent(t, allowed, empty)
              \/ HandleAppMention(t, allowed, empty)
              \/ HandleSlashCommand(allowed),
              UNCHANGED <<telegramVars, otherVars>>
       PROVE  TypeInv'
  BY <1>10, SlackArrivalTypes
<1>11. CASE SlackSend /\ UNCHANGED <<telegramVars, otherVars>>
  BY <1>11, SlackSendTypes
<1>12. ASSUME NEW chat \in Chats, NEW allowed \in BOOLEAN, NEW empty \in BOOLEAN,
              \/ \E m \in Events : HandleQQ(m, chat, allowed, empty)
              \/ HandleDingTalk(chat, allowed, empty)
              \/ HandleDiscord(chat, allowed, empty)
              \/ HandleFeishu(chat, allowed)
              \/ HandleWhatsApp(chat, allowed)
              \/ HandlePersonDetection(allowed),
              UNCHANGED <<telegramVars, slackVars>>
       PROVE  TypeInv'
  BY <1>12, UserTypes
<1>13. CASE (LatePost \/ LoseBridge \/ FailRead \/ Connect \/ Disconnect) /\ UNCHANGED <<telegramVars, slackVars>>
  BY <1>13, LinkTypes
<1>14. CASE OtherSend /\ UNCHANGED <<telegramVars, slackVars>>
  BY <1>14, OtherSendTypes
<1>15. 0 \in SlackChats /\ 0 \in Chats /\ FALSE \in BOOLEAN
  BY DEF SlackChats, Chats
<1>16. QED
  BY <1>1, <1>2, <1>3, <1>4, <1>5, <1>6, <1>7, <1>8, <1>9, <1>10, <1>11, <1>12, <1>13, <1>14, <1>15
     DEF Next

-----------------------------------------------------------------------------
(* What a step may do to messages and posts.                               *)

\* A handler that is not over goes on.
Moves(d, place) ==
  /\ events[d].at \in {"thinking", "posted", "ready"}
  /\ events' = [events EXCEPT ![d].at = place]

LEMMA EventSteps ==
  ASSUME TypeInv, [Next]_vars
  PROVE  \/ UNCHANGED events
         \/ \E d \in DOMAIN events : Moves(d, "published") \/ Moves(d, "dropped") \/ Moves(d, "ready")
         \/ \E d \in DOMAIN events : PostThinking(d) /\ Moves(d, "posted")
         \/ /\ \E n, chat \in Nat : \E allowed, empty \in BOOLEAN : \E place \in {"thinking", "ready", "dropped"} :
                 events' = Append(events, Event(n, chat, allowed, empty, place))
            /\ Len(events) < MaxEvents
<1>. USE DEF TypeInv, Moves
<1>1. ASSUME NEW d \in DOMAIN events, HandleMessage(d)
      PROVE  Moves(d, "published") \/ Moves(d, "dropped")
  BY <1>1 DEF HandleMessage
<1>2. ASSUME NEW d \in DOMAIN events, PostThinking(d)
      PROVE  Moves(d, "ready") \/ Moves(d, "posted")
  BY <1>2 DEF PostThinking
<1>3. ASSUME NEW d \in DOMAIN events, StorePlaceholder(d)
      PROVE  Moves(d, "ready")
  BY <1>3 DEF StorePlaceholder
<1>. DEFINE Comes == \E n, chat \in Nat : \E allowed, empty \in BOOLEAN : \E place \in {"thinking", "ready", "dropped"} :
                       events' = Append(events, Event(n, chat, allowed, empty, place))
<1>4. Len(events) + 1 \in Nat /\ 0 \in Nat /\ FALSE \in BOOLEAN /\ TRUE \in BOOLEAN
  BY DEF QueueInv, EventsInv
<1>5. ASSUME NEW allowed \in BOOLEAN, HandleTelegram(allowed)
      PROVE  Comes /\ Len(events) < MaxEvents
  BY <1>4, <1>5 DEF HandleTelegram, Listening
<1>6. ASSUME NEW t \in SlackChats, NEW allowed \in BOOLEAN, NEW empty \in BOOLEAN,
             \/ HandleMessageEvent(t, allowed, empty)
             \/ HandleAppMention(t, allowed, empty)
             \/ HandleSlashCommand(allowed)
      PROVE  Comes /\ Len(events) < MaxEvents
  <2>1. t \in Nat
    BY DEF SlackChats
  <2>2. CASE HandleMessageEvent(t, allowed, empty)
    BY <1>4, <2>1, <2>2 DEF HandleMessageEvent, Received, Listening
  <2>3. CASE HandleAppMention(t, allowed, empty)
    BY <1>4, <2>1, <2>3 DEF HandleAppMention, Received, Listening
  <2>4. CASE HandleSlashCommand(allowed)
    BY <1>4, <2>1, <2>4 DEF HandleSlashCommand, Received, Listening
  <2>5. QED
    BY <1>6, <2>2, <2>3, <2>4
<1>7. ASSUME NEW chat \in Chats, NEW allowed \in BOOLEAN, NEW empty \in BOOLEAN,
             \/ \E m \in Events : HandleQQ(m, chat, allowed, empty)
             \/ HandleDingTalk(chat, allowed, empty)
             \/ HandleDiscord(chat, allowed, empty)
             \/ HandleFeishu(chat, allowed)
             \/ HandleWhatsApp(chat, allowed)
             \/ HandlePersonDetection(allowed)
      PROVE  Comes /\ Len(events) < MaxEvents
  <2>1. chat \in Nat /\ Events \subseteq Nat
    BY DEF Chats, Events
  <2>2. ASSUME NEW m \in Events, HandleQQ(m, chat, allowed, empty) PROVE Comes /\ Len(events) < MaxEvents
    BY <2>1, <2>2 DEF HandleQQ, Arrive, Listening
  <2>3. CASE HandleDingTalk(chat, allowed, empty)
    BY <1>4, <2>1, <2>3 DEF HandleDingTalk, Arrive, Listening
  <2>4. CASE HandleDiscord(chat, allowed, empty)
    BY <1>4, <2>1, <2>4 DEF HandleDiscord, Arrive, Listening
  <2>5. CASE HandleFeishu(chat, allowed) \/ HandleWhatsApp(chat, allowed) \/ HandlePersonDetection(allowed)
    BY <1>4, <2>1, <2>5 DEF HandleFeishu, HandleWhatsApp, HandlePersonDetection, Arrive, Listening
  <2>6. QED
    BY <1>7, <2>2, <2>3, <2>4, <2>5
<1>8. ASSUME \/ BeginStartAll \/ EndStartAll \/ Respond \/ Take \/ Lookup \/ Stop
             \/ \E chat \in ChatsOfJobs : SendJobText(chat)
             \/ \E d \in Events : Animate(d) \/ ThinkingTimeout(d)
      PROVE  UNCHANGED events
  BY <1>8 DEF BeginStartAll, EndStartAll, Respond, Take, Lookup, Stop, Stopping, SendJobText, JobText,
              Animate, ThinkingTimeout, Aside
<1>9. ASSUME TelegramSend \/ SlackSend \/ OtherSend PROVE UNCHANGED events
  BY <1>9 DEF TelegramSend, StopThinking, DeleteStop, LoadPlaceholder, DeletePlaceholder, EditPlaceholder,
              PostAnswer, SlackSend, OtherSend, SendQQ, SendDingTalk, SendDiscord, DiscordTimeout,
              SendFeishu, SendWhatsApp, SendMaixCam, InSend
<1>10. ASSUME LatePost \/ LoseBridge \/ FailRead \/ Connect \/ Disconnect \/ UNCHANGED vars
       PROVE  UNCHANGED events
  BY <1>10 DEF LatePost, LoseBridge, FailRead, Connect, Disconnect, vars, core
<1>. HIDE DEF Comes, Moves, TypeInv
<1>11. \/ UNCHANGED events
       \/ \E d \in DOMAIN events : Moves(d, "published") \/ Moves(d, "dropped") \/ Moves(d, "ready")
       \/ \E d \in DOMAIN events : PostThinking(d) /\ Moves(d, "posted")
       \/ Comes /\ Len(events) < MaxEvents
  <2>1. 0 \in SlackChats /\ 0 \in Chats
    BY DEF SlackChats, Chats
  <2>2. QED
    BY <1>1, <1>2, <1>3, <1>4, <1>5, <1>6, <1>7, <1>8, <1>9, <1>10, <2>1 DEF Next
<1>12. QED
  BY <1>11 DEF Comes

\* A step that concerns neither the messages nor the texts of Slack, or in which
\* something fails.
Elsewhere ==
  /\ UNCHANGED <<channel, events, inbox, outbox, given, slackVars>>
  /\ faults' = 0 => faults = 0 /\ UNCHANGED sending
  /\ untidy' = {} => untidy = {}

LEMMA SlackSteps ==
  ASSUME TypeInv, [Next]_vars, channel = "slack"
  PROVE  \/ /\ UNCHANGED slackVars
            /\ \/ \E d \in DOMAIN events : HandleMessage(d)
               \/ Respond
               \/ \E chat \in SlackChats : SendJobText(chat)
               \/ Take
               \/ Lookup
         \/ \E t \in SlackChats : \E allowed, empty \in BOOLEAN :
               \/ HandleMessageEvent(t, allowed, empty)
               \/ HandleAppMention(t, allowed, empty)
               \/ HandleSlashCommand(allowed)
         \/ SlackSend
         \/ Elsewhere
<1>. USE DEF adapters
<1>1. \A place \in {"unstop", "load", "unplace", "edit"} : ~Sending(place)
  BY DEF TypeInv, SendInv, Sending
<1>2. ASSUME TelegramSend PROVE FALSE
  BY <1>1, <1>2 DEF TelegramSend, StopThinking, DeleteStop, LoadPlaceholder, DeletePlaceholder,
                    EditPlaceholder, PostAnswer
<1>3. ASSUME OtherSend PROVE FALSE
  BY <1>3 DEF OtherSend, SendQQ, SendDingTalk, SendDiscord, DiscordTimeout, SendFeishu, SendWhatsApp, SendMaixCam
<1>4. ASSUME NEW allowed \in BOOLEAN, HandleTelegram(allowed) PROVE FALSE
  BY <1>4 DEF HandleTelegram
<1>5. ASSUME NEW d \in DOMAIN events, PostThinking(d) \/ StorePlaceholder(d) PROVE FALSE
  BY <1>5 DEF PostThinking, StorePlaceholder
<1>6. ASSUME NEW chat \in Chats, NEW allowed \in BOOLEAN, NEW empty \in BOOLEAN,
             \/ \E m \in Events : HandleQQ(m, chat, allowed, empty)
             \/ HandleDingTalk(chat, allowed, empty)
             \/ HandleDiscord(chat, allowed, empty)
             \/ HandleFeishu(chat, allowed)
             \/ HandleWhatsApp(chat, allowed)
             \/ HandlePersonDetection(allowed)
      PROVE  FALSE
  BY <1>6 DEF HandleQQ, HandleDingTalk, HandleDiscord, HandleFeishu, HandleWhatsApp, HandlePersonDetection
<1>7. ASSUME NEW d \in Events, Animate(d) \/ ThinkingTimeout(d), UNCHANGED <<slackVars, otherVars>>
      PROVE  Elsewhere
  BY <1>7 DEF Animate, ThinkingTimeout, Aside, Disturb, Elsewhere
<1>8. ASSUME Stop \/ ((BeginStartAll \/ EndStartAll) /\ UNCHANGED adapters) PROVE Elsewhere
  <2>1. faults' = 0 => faults = 0
    BY <1>8 DEF Stop, Stopping, BeginStartAll, EndStartAll, Fault, TypeInv, PhaseInv
  <2>2. QED
    BY <1>8, <2>1 DEF Stop, Stopping, BeginStartAll, EndStartAll, Elsewhere
<1>9. ASSUME LoseBridge \/ Connect \/ UNCHANGED vars PROVE Elsewhere
  BY <1>9 DEF LoseBridge, Connect, vars, core, Elsewhere
<1>10. ASSUME LatePost \/ FailRead, UNCHANGED slackVars PROVE Elsewhere
  BY <1>10 DEF LatePost, FailRead, Elsewhere
<1>11. ASSUME Disconnect, UNCHANGED slackVars PROVE Elsewhere
  <2>1. faults' # 0
    BY <1>11 DEF Disconnect, Fault, TypeInv, PhaseInv
  <2>2. QED
    BY <1>11, <2>1 DEF Disconnect, Elsewhere
<1>12. ChatsOfJobs = SlackChats
  BY DEF ChatsOfJobs
<1>13. 0 \in SlackChats /\ 0 \in Chats /\ FALSE \in BOOLEAN
  BY DEF SlackChats, Chats
<1>14. QED
  BY <1>2, <1>3, <1>4, <1>5, <1>6, <1>7, <1>8, <1>9, <1>10, <1>11, <1>12, <1>13 DEF Next

LEMMA ChannelStays == [Next]_vars => channel' = channel
<1>. SUFFICES ASSUME [Next]_vars PROVE channel' = channel
  OBVIOUS
<1>1. ASSUME \/ BeginStartAll \/ EndStartAll \/ Respond \/ Take \/ Lookup \/ Stop
             \/ \E chat \in ChatsOfJobs : SendJobText(chat)
             \/ \E d \in DOMAIN events : HandleMessage(d) \/ PostThinking(d) \/ StorePlaceholder(d)
             \/ \E d \in Events : Animate(d) \/ ThinkingTimeout(d)
      PROVE  channel' = channel
  BY <1>1 DEF BeginStartAll, EndStartAll, Respond, Take, Lookup, Stop, Stopping, SendJobText, JobText,
              HandleMessage, PostThinking, StorePlaceholder, Animate, ThinkingTimeout, Aside
<1>2. ASSUME TelegramSend \/ SlackSend \/ OtherSend PROVE channel' = channel
  BY <1>2 DEF TelegramSend, StopThinking, DeleteStop, LoadPlaceholder, DeletePlaceholder, EditPlaceholder,
              PostAnswer, SlackSend, OtherSend, SendQQ, SendDingTalk, SendDiscord, DiscordTimeout,
              SendFeishu, SendWhatsApp, SendMaixCam, InSend
<1>3. ASSUME LatePost \/ LoseBridge \/ FailRead \/ Connect \/ Disconnect \/ UNCHANGED vars
      PROVE  channel' = channel
  BY <1>3 DEF LatePost, LoseBridge, FailRead, Connect, Disconnect, vars, core
<1>4. ASSUME NEW t \in SlackChats, NEW allowed \in BOOLEAN, NEW empty \in BOOLEAN,
             \/ HandleMessageEvent(t, allowed, empty)
             \/ HandleAppMention(t, allowed, empty)
             \/ HandleSlashCommand(allowed)
             \/ HandleTelegram(allowed)
      PROVE  channel' = channel
  BY <1>4 DEF HandleMessageEvent, HandleAppMention, HandleSlashCommand, Received, HandleTelegram
<1>5. ASSUME NEW chat \in Chats, NEW allowed \in BOOLEAN, NEW empty \in BOOLEAN,
             \/ \E m \in Events : HandleQQ(m, chat, allowed, empty)
             \/ HandleDingTalk(chat, allowed, empty)
             \/ HandleDiscord(chat, allowed, empty)
             \/ HandleFeishu(chat, allowed)
             \/ HandleWhatsApp(chat, allowed)
             \/ HandlePersonDetection(allowed)
      PROVE  channel' = channel
  BY <1>5 DEF HandleQQ, HandleDingTalk, HandleDiscord, HandleFeishu, HandleWhatsApp, HandlePersonDetection,
              Arrive
<1>6. 0 \in SlackChats /\ 0 \in Chats /\ FALSE \in BOOLEAN
  BY DEF SlackChats, Chats
<1>7. QED
  BY <1>1, <1>2, <1>3, <1>4, <1>5, <1>6 DEF Next

-----------------------------------------------------------------------------
(* Slack.                                                                  *)

\* The number of an event is the one before which it was appended.
LEMMA Appended ==
  ASSUME EventsInv, NEW e, e \in EventOf, events' = Append(events, e)
  PROVE  /\ DOMAIN events' = DOMAIN events \cup {Len(events) + 1} /\ Len(events) + 1 \notin DOMAIN events
         /\ events'[Len(events) + 1] = e
         /\ \A d \in DOMAIN events : events'[d] = events[d]
BY AppendProperties DEF EventsInv

LEMMA EventType ==
  ASSUME NEW n \in Nat, NEW chat \in Nat, NEW allowed \in BOOLEAN, NEW empty \in BOOLEAN,
         NEW place \in {"thinking", "posted", "ready", "published", "dropped"}
  PROVE  /\ Event(n, chat, allowed, empty, place) \in EventOf
         /\ Event(n, chat, allowed, empty, place).m = n
         /\ Event(n, chat, allowed, empty, place).chat = chat
         /\ Event(n, chat, allowed, empty, place).at = place
BY Zenon DEF Event, EventOf

LEMMA MoveEffect ==
  ASSUME EventsInv, NEW d \in DOMAIN events, NEW place, Moves(d, place)
  PROVE  /\ DOMAIN events' = DOMAIN events
         /\ events'[d].at = place
         /\ \A c \in DOMAIN events : /\ events'[c].m = events[c].m /\ events'[c].chat = events[c].chat
                                     /\ c # d => events'[c] = events[c]
<1>1. \A c \in DOMAIN events : events[c] \in EventOf
  BY DEF EventsInv
<1>2. DOMAIN events' = DOMAIN events /\ \A c \in DOMAIN events : c # d => events'[c] = events[c]
  BY DEF Moves, EventsInv
<1>3. events'[d] = [events[d] EXCEPT !.at = place]
  BY DEF Moves, EventsInv
<1>4. events'[d].at = place /\ events'[d].m = events[d].m /\ events'[d].chat = events[d].chat
  BY <1>1, <1>3 DEF EventOf
<1>5. QED
  BY <1>2, <1>4

LEMMA HandleEffect ==
  ASSUME NEW d \in DOMAIN events, HandleMessage(d)
  PROVE  \/ Moves(d, "dropped") /\ UNCHANGED inbox
         \/ Moves(d, "published") /\ inbox' = Append(inbox, d)
BY DEF HandleMessage, Moves

\* A message that Slack delivers is in a chat, and begins to wait for an answer if it
\* has a number.
LEMMA SlackArrives ==
  ASSUME TypeInv, NEW t \in SlackChats, NEW allowed \in BOOLEAN, NEW empty \in BOOLEAN,
         \/ HandleMessageEvent(t, allowed, empty)
         \/ HandleAppMention(t, allowed, empty)
         \/ HandleSlashCommand(allowed)
  PROVE  \E n \in {0, Len(events) + 1}, c \in SlackChats, b, f \in BOOLEAN, place \in {"ready", "dropped"} :
           /\ Received(Event(n, c, b, f, place))
           /\ \/ n # 0 /\ Acknowledge(n, c)
              \/ (n = 0 \/ place = "dropped") /\ UNCHANGED pending
<1>. DEFINE d == Len(events) + 1
<1>1. d \in Nat /\ d # 0 /\ t \in SlackChats /\ 0 \in SlackChats /\ FALSE \in BOOLEAN
  BY DEF TypeInv, QueueInv, EventsInv, SlackChats
<1>2. CASE HandleMessageEvent(t, allowed, empty)
  <2>1. CASE allowed
    <3>1. Received(Event(d, t, allowed, empty, "ready")) /\ Acknowledge(d, t)
      BY <1>2, <2>1 DEF HandleMessageEvent
    <3>. HIDE DEF d
    <3>2. QED
      BY <1>1, <3>1 DEF d
  <2>2. CASE ~allowed
    <3>1. Received(Event(d, t, allowed, empty, "dropped")) /\ UNCHANGED pending
      BY <1>2, <2>2 DEF HandleMessageEvent
    <3>. HIDE DEF d
    <3>2. QED
      BY <1>1, <3>1 DEF d
  <2>3. QED
    BY <2>1, <2>2
<1>3. CASE HandleAppMention(t, allowed, empty)
  <2>. DEFINE c == IF t = 0 THEN d ELSE t
  <2>1. Received(Event(d, c, allowed, empty, "ready")) /\ Acknowledge(d, c) /\ Listening
    BY <1>3 DEF HandleAppMention
  <2>2. c \in SlackChats
    BY <1>1, <2>1 DEF Listening, SlackChats
  <2>. HIDE DEF c, d
  <2>3. QED
    BY <1>1, <2>1, <2>2 DEF d
<1>4. CASE HandleSlashCommand(allowed)
  BY <1>1, <1>4 DEF HandleSlashCommand
<1>5. QED
  BY <1>2, <1>3, <1>4

LEMMA ChatStep == TypeInv /\ ChatInv /\ [Next]_vars => ChatInv'
<1>. SUFFICES ASSUME TypeInv, ChatInv, [Next]_vars, channel = "slack"
              PROVE  /\ \A d \in DOMAIN events' : events'[d].chat \in SlackChats
                     /\ \A i \in DOMAIN given' : given'[i].chat \in SlackChats
  BY ChannelStays DEF ChatInv
<1>. USE DEF ChatInv, TypeInv, QueueInv
<1>1. ASSUME NEW chat \in SlackChats, NEW of \in Nat, Give(chat, of), UNCHANGED events
      PROVE  \A i \in DOMAIN given' : given'[i].chat \in SlackChats
  <2>1. given' = Append(given, [id |-> Len(given) + 1, chat |-> chat, of |-> of])
    BY <1>1 DEF Give
  <2>2. [id |-> Len(given) + 1, chat |-> chat, of |-> of] \in TextOf
    BY DEF TextOf, SlackChats, GivenInv
  <2>3. QED
    BY <2>1, <2>2, AppendProperties DEF GivenInv
<1>2. ASSUME NEW d \in DOMAIN events, HandleMessage(d)
      PROVE  UNCHANGED given /\ \A c \in DOMAIN events' : events'[c].chat \in SlackChats
  BY <1>2 DEF HandleMessage, EventsInv, EventOf
<1>3. CASE Respond
  <2>1. Head(inbox) \in DOMAIN events /\ Head(inbox) \in Nat
    BY <1>3, HeadTailProperties DEF Respond, InboxInv
  <2>2. UNCHANGED events /\ Give(events[Head(inbox)].chat, Head(inbox))
    BY <1>3 DEF Respond
  <2>3. events[Head(inbox)].chat \in SlackChats
    BY <2>1
  <2>4. QED
    BY <1>1, <2>1, <2>2, <2>3
<1>4. ASSUME NEW chat \in SlackChats, SendJobText(chat)
      PROVE  UNCHANGED events /\ \A i \in DOMAIN given' : given'[i].chat \in SlackChats
  BY <1>1, <1>4 DEF SendJobText, JobText
<1>5. ASSUME NEW t \in SlackChats, NEW allowed \in BOOLEAN, NEW empty \in BOOLEAN,
             \/ HandleMessageEvent(t, allowed, empty)
             \/ HandleAppMention(t, allowed, empty)
             \/ HandleSlashCommand(allowed)
      PROVE  UNCHANGED given /\ \A d \in DOMAIN events' : events'[d].chat \in SlackChats
  <2>1. PICK n \in {0, Len(events) + 1}, c \in SlackChats, b \in BOOLEAN, f \in BOOLEAN, place \in {"ready", "dropped"} :
          Received(Event(n, c, b, f, place))
    BY <1>5, SlackArrives
  <2>2. Event(n, c, b, f, place) \in EventOf /\ Event(n, c, b, f, place).chat = c
    <3>1. n \in Nat /\ c \in Nat /\ place \in {"thinking", "posted", "ready", "published", "dropped"}
      BY DEF SlackChats, EventsInv
    <3>. HIDE DEF TypeInv, QueueInv, ChatInv
    <3>2. QED
      BY <3>1, Zenon DEF Event, EventOf
  <2>3. QED
    BY <2>1, <2>2, Appended DEF Received
<1>6. CASE Take \/ Lookup \/ SlackSend \/ Elsewhere
  BY <1>6 DEF Take, Lookup, SlackSend, InSend, Elsewhere
<1>. HIDE DEF TypeInv
<1>7. QED
  BY <1>2, <1>3, <1>4, <1>5, <1>6, SlackSteps

\* The agent is given a message, or ignores it.
LEMMA AckHandle ==
  ASSUME TypeInv, ChatInv, AckInv, NEW d \in DOMAIN events, HandleMessage(d), UNCHANGED slackVars
  PROVE  AckInv'
<1>. SUFFICES ASSUME channel = "slack", faults = 0, untidy = {} PROVE AckInv'
  BY DEF AckInv, HandleMessage
<1>. USE DEF TypeInv, QueueInv, slackVars
<1>1. /\ DOMAIN events' = DOMAIN events
      /\ \A c \in DOMAIN events : /\ events'[c].m = events[c].m /\ events'[c].chat = events[c].chat
                                  /\ c # d => events'[c].at = events[c].at
      /\ events[d].at = "ready" /\ events'[d].at \in {"published", "dropped"}
  BY HandleEffect, MoveEffect DEF HandleMessage
<1>2. \/ events'[d].at = "dropped" /\ UNCHANGED inbox
      \/ events'[d].at = "published" /\ inbox' = Append(inbox, d)
  BY HandleEffect, MoveEffect
<1>3. /\ \A i \in DOMAIN inbox : i \in DOMAIN inbox' /\ inbox'[i] = inbox[i]
      /\ \A i \in DOMAIN inbox' : inbox'[i] = d \/ \E j \in DOMAIN inbox : inbox'[i] = inbox[j]
      /\ events'[d].at = "published" => \E i \in DOMAIN inbox' : inbox'[i] = d
  <2>1. d \in Nat
    BY DEF EventsInv
  <2>2. CASE UNCHANGED inbox
    BY <1>2, <2>2
  <2>3. CASE inbox' = Append(inbox, d)
    <3>1. /\ DOMAIN inbox' = 1 .. Len(inbox) + 1 /\ inbox'[Len(inbox) + 1] = d
          /\ \A i \in 1 .. Len(inbox) : inbox'[i] = inbox[i]
          /\ DOMAIN inbox = 1 .. Len(inbox) /\ Len(inbox) \in Nat
      BY <2>1, <2>3, AppendProperties DEF InboxInv
    <3>2. QED
      BY <3>1
  <2>4. QED
    BY <1>2, <2>2, <2>3
<1>4. UNCHANGED <<outbox, sending, given, pending, checked>>
  BY DEF HandleMessage
<1>5. \A c \in DOMAIN events : Waiting(c) => Waiting(c)'
  BY <1>3, <1>4 DEF Waiting
<1>6. events'[d].at = "published" => Waiting(d)'
  BY <1>3 DEF Waiting
<1>7. \A i \in DOMAIN inbox : inbox[i] \in DOMAIN events
  BY DEF InboxInv
<1>8. \A c \in checked : c \in DOMAIN events /\ events'[c].at = "published" /\ events'[c].m = c
  BY <1>1 DEF AckInv
<1>9. \A i \in DOMAIN inbox' : pending[events'[inbox'[i]].chat] \in {0, inbox'[i]}
  BY <1>1, <1>3, <1>7 DEF AckInv
<1>10. \A c \in DOMAIN events :
         /\ events'[c].at = "ready" => pending[events[c].chat] \in {0, c}
         /\ events'[c].at = "ready" /\ events[c].m = c => pending[events[c].chat] = c
         /\ events'[c].at = "published" /\ events[c].m = c /\ c \notin checked =>
              pending[events[c].chat] = c /\ Waiting(c)'
  BY <1>1, <1>5, <1>6 DEF AckInv
<1>11. \A c \in SlackChats : pending[c] # 0 =>
         pending[c] \in DOMAIN events /\ events'[pending[c]].m = pending[c]
  BY <1>1 DEF AckInv
<1>. HIDE DEF TypeInv, QueueInv
<1>12. QED
  BY <1>1, <1>4, <1>8, <1>9, <1>10, <1>11 DEF AckInv

\* A text is given: the answer to the head of the queue, or one of a job in a chat
\* that does not wait.
LEMMA AckGive ==
  ASSUME TypeInv, ChatInv, AckInv, NEW chat \in SlackChats, NEW of \in Nat, Give(chat, of),
         UNCHANGED <<channel, events, sending, faults, slackVars>>, untidy' = {} => untidy = {},
         \/ UNCHANGED inbox /\ of = 0 /\ (untidy' = {} => pending[chat] = 0)
         \/ /\ inbox # <<>> /\ inbox' = Tail(inbox)
            /\ of = Head(inbox) /\ chat = events[of].chat
  PROVE  AckInv'
<1>. SUFFICES ASSUME channel = "slack", faults = 0, untidy = {}, untidy' = {} PROVE AckInv'
  BY DEF AckInv
<1>. USE DEF TypeInv, QueueInv, slackVars
<1>. DEFINE text == [id |-> Len(given) + 1, chat |-> chat, of |-> of]
<1>1. /\ text.chat = chat /\ text.of = of
      /\ \A i \in DOMAIN outbox : i \in DOMAIN outbox' /\ outbox'[i] = outbox[i]
      /\ \A i \in DOMAIN outbox' : outbox'[i] = text \/ \E j \in DOMAIN outbox : outbox'[i] = outbox[j]
      /\ \E i \in DOMAIN outbox' : outbox'[i] = text
  <2>1. text \in TextOf /\ outbox' = Append(outbox, text)
    BY DEF Give, TextOf, GivenInv, SlackChats
  <2>2. /\ DOMAIN outbox' = 1 .. Len(outbox) + 1 /\ outbox'[Len(outbox) + 1] = text
        /\ \A i \in 1 .. Len(outbox) : outbox'[i] = outbox[i]
        /\ DOMAIN outbox = 1 .. Len(outbox) /\ Len(outbox) \in Nat
    BY <2>1, AppendProperties DEF OutboxInv
  <2>. HIDE DEF text
  <2>3. QED
    BY <2>2 DEF text
<1>. HIDE DEF text
<1>2. /\ \A i \in DOMAIN inbox' : \E j \in DOMAIN inbox : inbox'[i] = inbox[j]
      /\ \A i \in DOMAIN inbox : inbox[i] = of \/ \E j \in DOMAIN inbox' : inbox'[j] = inbox[i]
      /\ pending[chat] \in {0, of}
  <2>1. CASE UNCHANGED inbox /\ of = 0 /\ (untidy' = {} => pending[chat] = 0)
    BY <2>1
  <2>2. CASE inbox # <<>> /\ inbox' = Tail(inbox) /\ of = Head(inbox) /\ chat = events[of].chat
    <3>1. /\ \A i \in DOMAIN inbox' : i + 1 \in DOMAIN inbox /\ inbox'[i] = inbox[i + 1]
          /\ \A i \in DOMAIN inbox : i # 1 => i - 1 \in DOMAIN inbox' /\ inbox'[i - 1] = inbox[i]
          /\ 1 \in DOMAIN inbox /\ inbox[1] = of
      <4>1. inbox \in Seq(Nat) /\ inbox # <<>>
        BY <2>2 DEF InboxInv
      <4>2. /\ Len(inbox) \in Nat \ {0} /\ DOMAIN inbox = 1 .. Len(inbox)
            /\ DOMAIN inbox' = 1 .. Len(inbox) - 1
            /\ \A i \in 1 .. Len(inbox) - 1 : inbox'[i] = inbox[i + 1]
        BY <2>2, <4>1, HeadTailProperties
      <4>3. of = inbox[1]
        BY <2>2, <4>1
      <4>4. \A i \in 1 .. Len(inbox) : i # 1 => i - 1 \in 1 .. Len(inbox) - 1 /\ (i - 1) + 1 = i
        BY <4>2
      <4>5. QED
        BY <4>2, <4>3, <4>4
    <3>2. pending[events[inbox[1]].chat] \in {0, inbox[1]}
      BY <3>1 DEF AckInv
    <3>3. QED
      BY <2>2, <3>1, <3>2
  <2>3. QED
    BY <2>1, <2>2
<1>3. UNCHANGED <<events, sending, pending, checked>>
  OBVIOUS
<1>4. \A d \in DOMAIN events : Waiting(d) => Waiting(d)'
  BY <1>1, <1>2, <1>3 DEF Waiting
<1>5. \A i \in DOMAIN outbox' : pending[outbox'[i].chat] \in {0, outbox'[i].of}
  BY <1>1, <1>2 DEF AckInv
<1>6. \A i \in DOMAIN inbox' : pending[events[inbox'[i]].chat] \in {0, inbox'[i]}
  BY <1>2 DEF AckInv
<1>. HIDE DEF TypeInv, QueueInv
<1>7. QED
  BY <1>3, <1>4, <1>5, <1>6 DEF AckInv

LEMMA AckTake == TypeInv /\ AckInv /\ Take /\ UNCHANGED slackVars => AckInv'
<1>. SUFFICES ASSUME TypeInv, AckInv, Take, UNCHANGED slackVars, channel = "slack", faults = 0, untidy = {}
              PROVE  AckInv'
  BY DEF AckInv, Take, Disturb
<1>1. /\ \A i \in DOMAIN outbox' : i + 1 \in DOMAIN outbox /\ outbox'[i] = outbox[i + 1]
      /\ \A i \in DOMAIN outbox : i # 1 => i - 1 \in DOMAIN outbox' /\ outbox'[i - 1] = outbox[i]
      /\ 1 \in DOMAIN outbox /\ outbox[1] = Head(outbox)
  BY HeadTailProperties DEF Take, TypeInv, QueueInv, OutboxInv
<1>2. sending.at = "idle" /\ sending'.at = "lookup" /\ sending'.text = outbox[1]
  BY <1>1 DEF Take, Idle
<1>3. UNCHANGED <<events, inbox, pending, checked>>
  BY DEF Take, slackVars
<1>4. \A d \in DOMAIN events : Waiting(d) => Waiting(d)'
  BY <1>1, <1>2, <1>3 DEF Waiting
<1>5. /\ \A i \in DOMAIN outbox' : pending[outbox'[i].chat] \in {0, outbox'[i].of}
      /\ pending[sending'.text.chat] \in {0, sending'.text.of}
  BY <1>1, <1>2 DEF AckInv
<1>6. QED
  BY <1>3, <1>4, <1>5 DEF AckInv

\* If nothing failed the channel runs, and the text is not dropped.
LEMMA AckLookup == TypeInv /\ AckInv /\ Lookup /\ UNCHANGED slackVars => AckInv'
<1>. SUFFICES ASSUME TypeInv, AckInv, Lookup, UNCHANGED slackVars, channel = "slack", faults = 0, untidy = {}
              PROVE  AckInv'
  BY DEF AckInv, Lookup
<1>1. running = TRUE
  BY DEF Lookup, TypeInv, PhaseInv
<1>2. sending.at = "lookup" /\ sending'.at = "send" /\ sending'.text = sending.text
  BY <1>1 DEF Lookup, TypeInv, SendInv
<1>3. UNCHANGED <<events, inbox, outbox, pending, checked>>
  BY DEF Lookup, slackVars
<1>4. \A d \in DOMAIN events : Waiting(d) => Waiting(d)'
  BY <1>2, <1>3 DEF Waiting
<1>5. QED
  BY <1>2, <1>3, <1>4 DEF AckInv

\* A message comes in a chat that is not busy.
LEMMA AckArrive ==
  ASSUME TypeInv, ChatInv, AckInv, NEW t \in SlackChats, NEW allowed \in BOOLEAN, NEW empty \in BOOLEAN,
         \/ HandleMessageEvent(t, allowed, empty)
         \/ HandleAppMention(t, allowed, empty)
         \/ HandleSlashCommand(allowed)
  PROVE  AckInv'
<1>1. PICK n \in {0, Len(events) + 1}, c \in SlackChats, b \in BOOLEAN, f \in BOOLEAN, place \in {"ready", "dropped"} :
        /\ Received(Event(n, c, b, f, place))
        /\ \/ n # 0 /\ Acknowledge(n, c)
           \/ (n = 0 \/ place = "dropped") /\ UNCHANGED pending
  BY SlackArrives
<1>. DEFINE e == Event(n, c, b, f, place)
           d == Len(events) + 1
<1>2. e \in EventOf /\ e.m = n /\ e.chat = c /\ e.at = place
  <2>1. n \in Nat /\ c \in Nat /\ place \in {"thinking", "posted", "ready", "published", "dropped"}
    BY DEF SlackChats, TypeInv, QueueInv, EventsInv
  <2>2. QED
    BY <2>1, Zenon DEF Event, EventOf
<1>. HIDE DEF e
<1>3. Received(e) /\ channel = "slack" /\ UNCHANGED <<channel, inbox, outbox, sending, given, faults, checked>>
  BY <1>1 DEF Received, e
<1>. SUFFICES ASSUME faults = 0, untidy' = {} PROVE AckInv'
  BY <1>3 DEF AckInv
<1>4. untidy = {} /\ ~Busy(c)
  BY <1>2, <1>3 DEF Received, Disturb, Noted
<1>5. /\ DOMAIN events' = DOMAIN events \cup {d} /\ d \notin DOMAIN events /\ d # 0
      /\ events'[d] = e /\ \A x \in DOMAIN events : events'[x] = events[x]
  <2>1. Len(events) \in Nat /\ EventsInv /\ events' = Append(events, e)
    BY <1>3 DEF TypeInv, QueueInv, EventsInv, Received
  <2>2. QED
    BY <1>2, <2>1, Appended
<1>. HIDE DEF d
<1>6. \A x \in SlackChats : pending'[x] = pending[x] \/ (x = c /\ pending'[x] = d /\ n = d)
  BY <1>1, <1>2 DEF Acknowledge, TypeInv, SlackTypeOK, d
<1>7. /\ pending[c] = 0
      /\ \A i \in DOMAIN inbox : events[inbox[i]].chat # c
      /\ \A i \in DOMAIN outbox : outbox[i].chat # c
      /\ sending.at # "idle" => sending.text.chat # c
  BY <1>4 DEF Busy, Idle
<1>8. \A x \in DOMAIN events : events[x].at # "ready"
  BY <1>3 DEF Received, Active
<1>9. /\ \A x \in DOMAIN events : events[x].chat \in SlackChats
      /\ \A i \in DOMAIN outbox : outbox[i].chat \in SlackChats
      /\ sending.at # "idle" => sending.text.chat \in SlackChats
      /\ \A i \in DOMAIN inbox : inbox[i] \in DOMAIN events
  BY <1>3 DEF ChatInv, TypeInv, QueueInv, InboxInv, OutboxInv, SendInv, Known
<1>10. \A x \in DOMAIN events : Waiting(x) => Waiting(x)'
  BY <1>3 DEF Waiting
<1>11. /\ \A x \in SlackChats : pending[x] # 0 => pending[x] \in DOMAIN events /\ events[pending[x]].m = pending[x]
       /\ \A x \in DOMAIN events : events[x].at = "published" /\ events[x].m = x /\ x \notin checked =>
            pending[events[x].chat] = x /\ Waiting(x)
       /\ \A x \in checked : x \in DOMAIN events /\ events[x].at = "published" /\ events[x].m = x
  BY <1>3, <1>4 DEF AckInv
<1>12. \A x \in SlackChats : pending'[x] # 0 =>
         pending'[x] \in DOMAIN events' /\ events'[pending'[x]].m = pending'[x]
  BY <1>2, <1>5, <1>6, <1>11
<1>13. /\ \A i \in DOMAIN outbox : pending'[outbox[i].chat] \in {0, outbox[i].of}
       /\ sending.at # "idle" => pending'[sending.text.chat] \in {0, sending.text.of}
       /\ \A i \in DOMAIN inbox : pending'[events'[inbox[i]].chat] \in {0, inbox[i]}
  BY <1>3, <1>4, <1>5, <1>6, <1>7, <1>9 DEF AckInv
<1>14. \A x \in DOMAIN events :
         events[x].at = "published" /\ events[x].m = x /\ x \notin checked =>
           pending'[events[x].chat] = x /\ Waiting(x)'
  <2>1. SUFFICES ASSUME NEW x \in DOMAIN events,
                        events[x].at = "published" /\ events[x].m = x /\ x \notin checked
                 PROVE  pending'[events[x].chat] = x /\ Waiting(x)'
    OBVIOUS
  <2>2. pending[events[x].chat] = x /\ Waiting(x) /\ x # 0 /\ events[x].chat \in SlackChats
    BY <2>1, <1>9, <1>11 DEF TypeInv, QueueInv, EventsInv
  <2>3. events[x].chat # c
    BY <1>7, <2>2
  <2>4. QED
    BY <1>6, <1>10, <2>2, <2>3
<1>15. e.at = "published" => FALSE
  BY <1>2
<1>16. e.at = "ready" => pending'[e.chat] \in {0, d} /\ (e.m = d => pending'[e.chat] = d)
  <2>1. pending'[c] \in {0, d}
    BY <1>6, <1>7
  <2>2. place = "ready" /\ n = d => pending'[c] = d
    BY <1>1, <1>5 DEF Acknowledge, TypeInv, SlackTypeOK
  <2>3. QED
    BY <1>2, <2>1, <2>2
<1>17. \A x \in DOMAIN events' :
         /\ events'[x].at = "ready" => pending'[events'[x].chat] \in {0, x}
         /\ events'[x].at = "ready" /\ events'[x].m = x => pending'[events'[x].chat] = x
         /\ events'[x].at = "published" /\ events'[x].m = x /\ x \notin checked =>
              pending'[events'[x].chat] = x /\ Waiting(x)'
  BY <1>5, <1>8, <1>14, <1>15, <1>16
<1>18. \A x \in checked : x \in DOMAIN events' /\ events'[x].at = "published" /\ events'[x].m = x
  BY <1>5, <1>11
<1>. HIDE DEF TypeInv, ChatInv
<1>19. QED
  BY <1>3, <1>12, <1>13, <1>17, <1>18 DEF AckInv

\* A text is posted, and the message that waits in its chat is marked: it is the one
\* the text answers.
LEMMA AckSend == TypeInv /\ ChatInv /\ AckInv /\ SlackSend => AckInv'
<1>. SUFFICES ASSUME TypeInv, ChatInv, AckInv, SlackSend, faults' = 0, untidy = {} PROVE AckInv'
  BY DEF AckInv, SlackSend
<1>1. /\ channel = "slack" /\ sending.at # "idle" /\ faults \in Nat
      /\ UNCHANGED <<channel, events, inbox, outbox, given, untidy>>
  BY DEF SlackSend, Sending, InSend, TypeInv, PhaseInv
<1>2. CASE Sending("send")
  <2>1. Proceed("mark") /\ UNCHANGED <<faults, pending, checked>>
    BY <1>1, <1>2 DEF SlackSend, Sending, Fault, slackVars
  <2>2. sending'.at = "mark" /\ sending'.text = sending.text
    BY <2>1 DEF Proceed, TypeInv, SendInv
  <2>3. \A d \in DOMAIN events : Waiting(d) => Waiting(d)'
    BY <1>1, <2>2 DEF Waiting
  <2>4. QED
    BY <1>1, <2>1, <2>2, <2>3 DEF AckInv
<1>3. CASE Sending("mark")
  <2>. DEFINE c == sending.text.chat
              e == sending.text.of
  <2>1. /\ checked' = checked \cup ({pending[c]} \ {0}) /\ pending' = [pending EXCEPT ![c] = 0]
        /\ sending'.at = "idle" /\ faults = 0
    BY <1>3 DEF SlackSend, Sending, Idle
  <2>2. /\ c \in SlackChats /\ e \in Nat
        /\ e # 0 => e \in DOMAIN events /\ events[e].at = "published" /\ events[e].chat = c
    <3>1. sending.text \in TextOf /\ Known(sending.text)
      BY <1>1 DEF TypeInv, SendInv
    <3>2. sending.text.id \in DOMAIN given /\ Asked(given[sending.text.id]) /\ sending.text = given[sending.text.id]
      BY <3>1 DEF Known, TypeInv, QueueInv, GivenInv
    <3>3. QED
      BY <1>1, <3>1, <3>2 DEF ChatInv, Asked, TextOf
  <2>3. /\ pending[c] \in {0, e}
        /\ \A x \in SlackChats : pending[x] # 0 => pending[x] \in DOMAIN events /\ events[pending[x]].m = pending[x]
        /\ \A i \in DOMAIN outbox : pending[outbox[i].chat] \in {0, outbox[i].of}
        /\ \A i \in DOMAIN inbox : pending[events[inbox[i]].chat] \in {0, inbox[i]}
        /\ \A d \in DOMAIN events :
             /\ events[d].at = "ready" => pending[events[d].chat] \in {0, d}
             /\ events[d].at = "ready" /\ events[d].m = d => pending[events[d].chat] = d
             /\ events[d].at = "published" /\ events[d].m = d /\ d \notin checked =>
                  pending[events[d].chat] = d /\ Waiting(d)
        /\ \A d \in checked : d \in DOMAIN events /\ events[d].at = "published" /\ events[d].m = d
    BY <1>1, <2>1 DEF AckInv
  <2>4. /\ \A x \in SlackChats : pending'[x] = IF x = c THEN 0 ELSE pending[x]
        /\ \A d \in DOMAIN events : events[d].chat \in SlackChats /\ d # 0
        /\ \A i \in DOMAIN outbox : outbox[i].chat \in SlackChats
        /\ \A i \in DOMAIN inbox : inbox[i] \in DOMAIN events
    BY <1>1, <2>1 DEF TypeInv, SlackTypeOK, ChatInv, QueueInv, EventsInv, OutboxInv, InboxInv, Known
  <2>5. \A d \in DOMAIN events : Waiting(d) => Waiting(d)' \/ d = e
    BY <1>1 DEF Waiting
  <2>. HIDE DEF c, e
  <2>6. /\ \A x \in SlackChats : pending'[x] # 0 => pending'[x] \in DOMAIN events /\ events[pending'[x]].m = pending'[x]
        /\ \A i \in DOMAIN outbox : pending'[outbox[i].chat] \in {0, outbox[i].of}
        /\ \A i \in DOMAIN inbox : pending'[events[inbox[i]].chat] \in {0, inbox[i]}
    BY <2>3, <2>4
  <2>7. \A d \in checked' : d \in DOMAIN events /\ events[d].at = "published" /\ events[d].m = d
    BY <2>1, <2>2, <2>3
  <2>8. ASSUME NEW d \in DOMAIN events
        PROVE  /\ events[d].at = "ready" => pending'[events[d].chat] \in {0, d}
               /\ events[d].at = "ready" /\ events[d].m = d => pending'[events[d].chat] = d
               /\ events[d].at = "published" /\ events[d].m = d /\ d \notin checked' =>
                    pending'[events[d].chat] = d /\ Waiting(d)'
    <3>1. CASE events[d].at = "ready"
      <4>1. pending[events[d].chat] \in {0, d} /\ (events[d].m = d => pending[events[d].chat] = d)
        BY <2>3, <3>1
      <4>2. d # e
        BY <2>2, <2>4, <3>1
      <4>3. events[d].chat = c => pending[c] = 0
        BY <2>3, <4>1, <4>2
      <4>4. QED
        BY <2>4, <3>1, <4>1, <4>3
    <3>2. CASE events[d].at = "published" /\ events[d].m = d /\ d \notin checked'
      <4>1. d \notin checked /\ d # pending[c] /\ d # 0
        BY <2>1, <2>4, <3>2
      <4>2. pending[events[d].chat] = d /\ Waiting(d)
        BY <2>3, <3>2, <4>1
      <4>3. events[d].chat # c /\ d # e
        BY <2>2, <4>1, <4>2
      <4>4. QED
        BY <2>4, <2>5, <3>2, <4>2, <4>3
    <3>3. QED
      BY <3>1, <3>2
  <2>9. QED
    BY <1>1, <2>1, <2>6, <2>7, <2>8 DEF AckInv
<1>4. QED
  BY <1>2, <1>3 DEF SlackSend

LEMMA AckInit == Init => ChatInv /\ AckInv
BY DEF Init, CoreInit, SlackInit, ChatInv, AckInv, Idle

LEMMA AckStep == TypeInv /\ ChatInv /\ AckInv /\ [Next]_vars => AckInv'
<1>. SUFFICES ASSUME TypeInv, ChatInv, AckInv, [Next]_vars, channel = "slack" PROVE AckInv'
  BY ChannelStays DEF AckInv
<1>1. CASE Respond /\ UNCHANGED slackVars
  <2>1. /\ Head(inbox) \in DOMAIN events /\ Head(inbox) \in Nat
    BY <1>1, HeadTailProperties DEF Respond, TypeInv, QueueInv, InboxInv
  <2>2. events[Head(inbox)].chat \in SlackChats
    BY <2>1 DEF ChatInv
  <2>3. /\ Give(events[Head(inbox)].chat, Head(inbox)) /\ inbox # <<>> /\ inbox' = Tail(inbox)
        /\ UNCHANGED <<channel, events, sending, faults, slackVars, untidy>>
    BY <1>1 DEF Respond
  <2>4. QED
    BY <2>1, <2>2, <2>3, AckGive
<1>2. ASSUME NEW chat \in SlackChats, SendJobText(chat), UNCHANGED slackVars PROVE AckInv'
  <2>1. /\ Give(chat, 0) /\ UNCHANGED <<channel, events, inbox, sending, faults, slackVars>>
        /\ untidy' = {} => untidy = {} /\ pending[chat] = 0
    BY <1>2 DEF SendJobText, JobText, Disturb, Noted
  <2>2. QED
    BY <2>1, AckGive
<1>3. CASE Elsewhere
  <2>1. \A d \in DOMAIN events : faults' = 0 => (Waiting(d) => Waiting(d)')
    BY <1>3 DEF Elsewhere, Waiting
  <2>2. QED
    BY <1>3, <2>1 DEF Elsewhere, AckInv, slackVars
<1>4. QED
  BY <1>1, <1>2, <1>3, SlackSteps, AckHandle, AckTake, AckLookup, AckArrive, AckSend

LEMMA ChecksImplied == TypeInv /\ AckInv => ChecksMatch
<1>. SUFFICES ASSUME TypeInv, AckInv, channel = "slack", Calm, untidy = {}
              PROVE  checked = {d \in DOMAIN events : events[d].at = "published" /\ events[d].m = d}
  BY DEF ChecksMatch
<1>1. \A d \in DOMAIN events : ~Waiting(d)
  BY DEF Waiting, Calm, Quiet, Idle
<1>2. QED
  BY <1>1 DEF AckInv, Calm

-----------------------------------------------------------------------------
(* QQ.                                                                     *)

LEMMA QQSteps ==
  ASSUME TypeInv, [Next]_vars, channel = "qq"
  PROVE  \/ UNCHANGED <<events, processed>>
         \/ UNCHANGED processed /\ \E d \in DOMAIN events : HandleMessage(d)
         \/ \E m \in Events : \E chat \in Chats : \E allowed, empty \in BOOLEAN : HandleQQ(m, chat, allowed, empty)
<1>. USE DEF adapters, otherVars
<1>1. ASSUME \/ (BeginStartAll \/ EndStartAll \/ Respond \/ Take \/ Lookup) /\ UNCHANGED adapters
             \/ Stop
             \/ \E chat \in ChatsOfJobs : SendJobText(chat) /\ UNCHANGED adapters
             \/ \E d \in Events : (Animate(d) \/ ThinkingTimeout(d)) /\ UNCHANGED <<slackVars, otherVars>>
      PROVE  UNCHANGED <<events, processed>>
  BY <1>1 DEF BeginStartAll, EndStartAll, Respond, Take, Lookup, Stop, Stopping, SendJobText, JobText,
              Animate, ThinkingTimeout, Aside
<1>2. ASSUME (TelegramSend /\ UNCHANGED <<slackVars, otherVars>>) \/ OtherSend
      PROVE  UNCHANGED <<events, processed>>
  BY <1>2 DEF TelegramSend, StopThinking, DeleteStop, LoadPlaceholder, DeletePlaceholder, EditPlaceholder,
              PostAnswer, OtherSend, SendQQ, SendDingTalk, SendDiscord, DiscordTimeout,
              SendFeishu, SendWhatsApp, SendMaixCam, InSend
<1>3. ASSUME LatePost \/ LoseBridge \/ FailRead \/ Connect \/ Disconnect \/ UNCHANGED vars
      PROVE  UNCHANGED <<events, processed>>
  BY <1>3 DEF LatePost, LoseBridge, FailRead, Connect, Disconnect, vars, core
<1>4. ASSUME NEW t \in SlackChats, NEW allowed \in BOOLEAN, NEW empty \in BOOLEAN,
             \/ HandleMessageEvent(t, allowed, empty)
             \/ HandleAppMention(t, allowed, empty)
             \/ HandleSlashCommand(allowed)
             \/ HandleTelegram(allowed)
             \/ SlackSend
             \/ \E d \in DOMAIN events : PostThinking(d) \/ StorePlaceholder(d)
      PROVE  FALSE
  BY <1>4 DEF HandleMessageEvent, HandleAppMention, HandleSlashCommand, Received, HandleTelegram, SlackSend,
              PostThinking, StorePlaceholder
<1>5. ASSUME NEW chat \in Chats, NEW allowed \in BOOLEAN, NEW empty \in BOOLEAN,
             \/ HandleDingTalk(chat, allowed, empty)
             \/ HandleDiscord(chat, allowed, empty)
             \/ HandleFeishu(chat, allowed)
             \/ HandleWhatsApp(chat, allowed)
             \/ HandlePersonDetection(allowed)
      PROVE  FALSE
  BY <1>5 DEF HandleDingTalk, HandleDiscord, HandleFeishu, HandleWhatsApp, HandlePersonDetection
<1>6. 0 \in SlackChats /\ 0 \in Chats /\ FALSE \in BOOLEAN
  BY DEF SlackChats, Chats
<1>7. QED
  BY <1>1, <1>2, <1>3, <1>4, <1>5, <1>6 DEF Next

LEMMA OnceStep == TypeInv /\ OnceInv /\ [Next]_vars => OnceInv'
<1>. SUFFICES ASSUME TypeInv, OnceInv, [Next]_vars, channel = "qq", channel' = "qq",
                     Cardinality(MessageIds') =< Limit
              PROVE  /\ processed' = MessageIds'
                     /\ \A c, d \in DOMAIN events' :
                          events'[c].m = events'[d].m /\ events'[c].at # "dropped" /\ events'[d].at # "dropped"
                            => c = d
  BY ChannelStays DEF OnceInv, HandledOnce
<1>0. Cardinality(MessageIds) =< Limit =>
        /\ processed = MessageIds
        /\ \A c, d \in DOMAIN events :
             events[c].m = events[d].m /\ events[c].at # "dropped" /\ events[d].at # "dropped" => c = d
  BY DEF OnceInv, HandledOnce, MessageIds
<1>1. CASE UNCHANGED <<events, processed>>
  BY <1>0, <1>1 DEF MessageIds
<1>2. ASSUME UNCHANGED processed, NEW d \in DOMAIN events, HandleMessage(d)
      PROVE  /\ processed' = MessageIds'
             /\ \A b, c \in DOMAIN events' :
                  events'[b].m = events'[c].m /\ events'[b].at # "dropped" /\ events'[c].at # "dropped"
                    => b = c
  <2>1. /\ DOMAIN events' = DOMAIN events
        /\ \A c \in DOMAIN events : /\ events'[c].m = events[c].m
                                    /\ events'[c].at # "dropped" => events[c].at # "dropped"
    BY <1>2, HandleEffect, MoveEffect DEF HandleMessage, TypeInv, QueueInv
  <2>2. MessageIds' = MessageIds
    BY <2>1 DEF MessageIds
  <2>3. QED
    BY <1>0, <1>2, <2>1, <2>2
<1>3. ASSUME NEW m \in Events, NEW chat \in Chats, NEW allowed \in BOOLEAN, NEW empty \in BOOLEAN,
             HandleQQ(m, chat, allowed, empty)
      PROVE  /\ processed' = MessageIds'
             /\ \A b, c \in DOMAIN events' :
                  events'[b].m = events'[c].m /\ events'[b].at # "dropped" /\ events'[c].at # "dropped"
                    => b = c
  <2>1. PICK place \in {"ready", "dropped"} :
          /\ events' = Append(events, Event(m, chat, allowed, empty, place))
          /\ m \in processed => place = "dropped"
    BY <1>3 DEF HandleQQ, Arrive
  <2>. DEFINE e == Event(m, chat, allowed, empty, place)
              d == Len(events) + 1
  <2>2. e \in EventOf /\ e.m = m /\ e.at = place
    <3>1. m \in Nat /\ chat \in Nat /\ place \in {"thinking", "posted", "ready", "published", "dropped"}
      BY DEF Events, Chats
    <3>2. QED
      BY <3>1, Zenon DEF Event, EventOf
  <2>. HIDE DEF e
  <2>3. /\ DOMAIN events' = DOMAIN events \cup {d} /\ d \notin DOMAIN events
        /\ events'[d] = e /\ \A c \in DOMAIN events : events'[c] = events[c]
    BY <2>1, <2>2, Appended DEF TypeInv, QueueInv, e
  <2>. HIDE DEF d
  <2>4. MessageIds' = MessageIds \cup {m}
    BY <2>2, <2>3 DEF MessageIds
  <2>5. IsFiniteSet(MessageIds)
    <3>1. /\ DOMAIN events = 1 .. Len(events) /\ Len(events) \in Nat
      BY DEF TypeInv, QueueInv, EventsInv
    <3>2. MessageIds \subseteq 0 .. Len(events)
      <4>1. \A c \in DOMAIN events : events[c].m \in Nat /\ events[c].m =< c
        <5>1. \A c \in DOMAIN events : events[c] \in EventOf /\ events[c].m =< c
          BY DEF TypeInv, QueueInv, EventsInv
        <5>2. QED
          BY <5>1 DEF EventOf
      <4>2. QED
        BY <3>1, <4>1 DEF MessageIds
    <3>3. IsFiniteSet(0 .. Len(events))
      BY <3>1, FS_Interval
    <3>4. QED
      BY <3>2, <3>3, FS_Subset
  <2>6. Cardinality(MessageIds) =< Limit
    <3>1. IsFiniteSet(MessageIds \cup {m})
      BY <2>5, FS_AddElement
    <3>2. Cardinality(MessageIds) =< Cardinality(MessageIds \cup {m})
      BY <3>1, FS_Subset
    <3>3. QED
      BY <2>4, <2>5, <3>1, <3>2, FS_CardinalityType
  <2>7. processed' = MessageIds'
    <3>1. processed' \in Kept(MessageIds')
      BY <1>0, <1>3, <2>4, <2>6 DEF HandleQQ
    <3>2. QED
      BY <3>1 DEF Kept
  <2>8. \A c \in DOMAIN events : events[c].m = m => place = "dropped"
    BY <1>0, <2>1, <2>6 DEF MessageIds
  <2>9. QED
    BY <1>0, <2>2, <2>3, <2>6, <2>7, <2>8
<1>4. QED
  BY <1>1, <1>2, <1>3, QQSteps

-----------------------------------------------------------------------------
(* Telegram.                                                               *)

\* A step that tells no one of a place and overwrites no placeholder.
LEMMA PlaceFrame ==
  ASSUME TypeInv, PlaceInv, UNCHANGED <<placeholder, mid>>,
         \A d \in DOMAIN events' : events'[d].at = "posted" => d \in DOMAIN events /\ events[d].at = "posted",
         UNCHANGED sending \/ sending'.at \notin {"unplace", "edit"},
         \A p \in DOMAIN posted : p \in DOMAIN posted' /\ (posted[p].id = 0 => posted'[p].id = 0)
  PROVE  PlaceInv'
<1>1. /\ placeholder # 0 => placeholder \in DOMAIN posted
      /\ Editing => sending.mid # 0 /\ sending.mid \in DOMAIN posted /\ posted[sending.mid].id = 0
  <2>1. /\ placeholder \in Nat /\ placeholder =< Len(posted) /\ DOMAIN posted = 1 .. Len(posted)
        /\ sending.mid \in Nat /\ sending.mid =< Len(posted) /\ Len(posted) \in Nat
    BY DEF TypeInv, AnimInv, PostInv, SendInv
  <2>2. QED
    BY <2>1 DEF PlaceInv
<1>2. /\ Editing' => Editing /\ sending'.mid = sending.mid
      /\ sending'.at = "edit" => sending.at = "edit"
  BY DEF Editing
<1>3. /\ placeholder' # 0 => posted'[placeholder'].id = 0
      /\ Editing' => sending'.mid # 0 /\ posted'[sending'.mid].id = 0
      /\ sending'.at = "edit" => placeholder' # sending'.mid
  BY <1>1, <1>2 DEF PlaceInv
<1>4. ASSUME NEW d \in DOMAIN events', events'[d].at = "posted"
      PROVE  /\ mid'[d] \in DOMAIN posted' /\ posted'[mid'[d]].id = 0
             /\ mid'[d] # placeholder' /\ (Editing' => mid'[d] # sending'.mid)
             /\ \A c \in DOMAIN events' : events'[c].at = "posted" /\ mid'[c] = mid'[d] => c = d
  BY <1>2, <1>4 DEF PlaceInv
<1>5. QED
  BY <1>3, <1>4 DEF PlaceInv

LEMMA PlacePost ==
  ASSUME TypeInv, PlaceInv, NEW d \in DOMAIN events, PostThinking(d), Moves(d, "posted")
  PROVE  PlaceInv'
<1>. DEFINE p == Len(posted) + 1
<1>1. /\ Len(posted) \in Nat /\ p \in Nat /\ DOMAIN posted = 1 .. Len(posted)
      /\ placeholder =< Len(posted) /\ placeholder \in Nat
      /\ sending.mid =< Len(posted) /\ sending.mid \in Nat
      /\ d \in 1 .. MaxEvents /\ DOMAIN mid = 1 .. MaxEvents
      /\ DOMAIN events \subseteq 1 .. MaxEvents
  BY DEF TypeInv, PostInv, AnimInv, SendInv, QueueInv, EventsInv
<1>2. /\ DOMAIN events' = DOMAIN events /\ events'[d].at = "posted"
      /\ \A c \in DOMAIN events : c # d => events'[c] = events[c]
  BY MoveEffect DEF TypeInv, QueueInv
<1>3. posted' = Append(posted, Thinking) /\ mid' = [mid EXCEPT ![d] = p]
  <2>1. events'[d].at # "ready"
    BY <1>2
  <2>2. ~(events' = [events EXCEPT ![d].at = "ready"])
    BY <2>1, MoveEffect DEF TypeInv, QueueInv, Moves, PostThinking
  <2>3. QED
    BY <2>2 DEF PostThinking
<1>4. /\ DOMAIN posted' = 1 .. p /\ posted'[p].id = 0
      /\ \A i \in DOMAIN posted : posted'[i] = posted[i]
  <2>1. Thinking \in PostOf /\ posted \in Seq(PostOf)
    BY DEF Thinking, PostOf, TypeInv, PostInv
  <2>2. QED
    BY <1>3, <2>1, AppendProperties DEF Thinking
<1>. HIDE DEF p
<1>5. mid'[d] = p /\ \A c \in DOMAIN events : c # d => mid'[c] = mid[c]
  BY <1>1, <1>3
<1>6. UNCHANGED <<placeholder, sending>> /\ p \notin DOMAIN posted /\ p # 0
  BY <1>1 DEF PostThinking, p
<1>7. /\ placeholder # 0 => posted'[placeholder].id = 0
      /\ Editing => sending.mid # 0 /\ posted'[sending.mid].id = 0
      /\ sending.at = "edit" => placeholder # sending.mid
  BY <1>1, <1>4 DEF PlaceInv
<1>8. p # placeholder /\ p # sending.mid /\ p \in DOMAIN posted'
  BY <1>1, <1>4 DEF p
<1>9. ASSUME NEW c \in DOMAIN events', events'[c].at = "posted"
      PROVE  /\ mid'[c] \in DOMAIN posted' /\ posted'[mid'[c]].id = 0
             /\ mid'[c] # placeholder /\ (Editing => mid'[c] # sending.mid)
             /\ c # d => mid'[c] # p
             /\ \A b \in DOMAIN events' : events'[b].at = "posted" /\ mid'[b] = mid'[c] => b = c
  <2>1. CASE c = d
    <3>1. \A b \in DOMAIN events : b # d /\ events[b].at = "posted" => mid[b] # p
      BY <1>6 DEF PlaceInv
    <3>2. QED
      BY <1>2, <1>4, <1>5, <1>8, <2>1, <3>1
  <2>2. CASE c # d
    <3>1. events[c].at = "posted" /\ c \in DOMAIN events
      BY <1>2, <1>9, <2>2
    <3>2. /\ mid[c] \in DOMAIN posted /\ posted[mid[c]].id = 0
          /\ mid[c] # placeholder /\ (Editing => mid[c] # sending.mid)
          /\ \A b \in DOMAIN events : events[b].at = "posted" /\ mid[b] = mid[c] => b = c
      BY <3>1 DEF PlaceInv
    <3>3. mid'[c] = mid[c] /\ mid[c] # p /\ mid[c] \in DOMAIN posted'
      BY <1>1, <1>4, <1>5, <1>6, <2>2, <3>1, <3>2 DEF p
    <3>4. posted'[mid[c]].id = 0
      BY <1>4, <3>2
    <3>5. \A b \in DOMAIN events' : events'[b].at = "posted" /\ mid'[b] = mid'[c] => b = c
      BY <1>2, <1>5, <3>2, <3>3
    <3>6. QED
      BY <3>2, <3>3, <3>4, <3>5
  <2>3. QED
    BY <2>1, <2>2
<1>10. QED
  BY <1>6, <1>7, <1>9 DEF PlaceInv, Editing

LEMMA PlaceStore ==
  ASSUME TypeInv, PlaceInv, NEW d \in DOMAIN events, StorePlaceholder(d)
  PROVE  PlaceInv'
<1>1. Moves(d, "ready") /\ events[d].at = "posted"
  BY DEF StorePlaceholder, Moves
<1>2. /\ DOMAIN events' = DOMAIN events /\ events'[d].at = "ready"
      /\ \A c \in DOMAIN events : c # d => events'[c] = events[c]
  BY <1>1, MoveEffect DEF TypeInv, QueueInv
<1>3. placeholder' = mid[d] /\ UNCHANGED <<posted, sending, mid>>
  BY DEF StorePlaceholder
<1>4. /\ posted[mid[d]].id = 0 /\ (Editing => mid[d] # sending.mid)
      /\ \A c \in DOMAIN events : events[c].at = "posted" /\ c # d => mid[c] # mid[d]
  BY <1>1 DEF PlaceInv
<1>5. QED
  BY <1>2, <1>3, <1>4 DEF PlaceInv, Editing

LEMMA PlaceSend ==
  ASSUME TypeInv, PlaceInv, LoadPlaceholder \/ DeletePlaceholder \/ EditPlaceholder
  PROVE  PlaceInv'
<1>1. UNCHANGED <<events, mid>>
  BY DEF LoadPlaceholder, DeletePlaceholder, EditPlaceholder, InSend, telegramVars
<1>2. CASE LoadPlaceholder
  <2>1. UNCHANGED <<posted, placeholder>> /\ sending.at = "load"
    BY <1>2 DEF LoadPlaceholder, telegramVars, Sending
  <2>2. \/ placeholder = 0 /\ sending'.at = "post"
        \/ placeholder # 0 /\ sending'.at = "unplace" /\ sending'.mid = placeholder
    BY <1>2 DEF LoadPlaceholder, TypeInv, SendInv
  <2>3. QED
    BY <1>1, <2>1, <2>2 DEF PlaceInv, Editing
<1>3. CASE DeletePlaceholder
  <2>1. placeholder' = 0 /\ UNCHANGED posted /\ sending.at = "unplace"
    BY <1>3 DEF DeletePlaceholder, Sending
  <2>2. sending'.at = "edit" /\ sending'.mid = sending.mid
    BY <1>3 DEF DeletePlaceholder, Proceed, TypeInv, SendInv
  <2>3. /\ sending.mid # 0 /\ posted[sending.mid].id = 0
        /\ \A d \in DOMAIN events : events[d].at = "posted" =>
             mid[d] \in DOMAIN posted /\ mid[d] # 0 /\ mid[d] # sending.mid
    BY <2>1 DEF PlaceInv, Editing, TypeInv, PostInv
  <2>4. QED
    BY <1>1, <2>1, <2>2, <2>3 DEF PlaceInv, Editing
<1>4. CASE EditPlaceholder
  <2>1. UNCHANGED placeholder /\ sending.at = "edit" /\ sending'.at \in {"idle", "post"}
    BY <1>4 DEF EditPlaceholder, telegramVars, Sending, Proceed, Idle, TypeInv, SendInv
  <2>2. DOMAIN posted' = DOMAIN posted /\ \A p \in DOMAIN posted : p # sending.mid => posted'[p] = posted[p]
    BY <1>4 DEF EditPlaceholder, TypeInv, PostInv
  <2>3. placeholder # 0 => placeholder \in DOMAIN posted
    BY DEF TypeInv, AnimInv, PostInv
  <2>4. \A d \in DOMAIN events : events[d].at = "posted" => mid[d] \in DOMAIN posted /\ mid[d] # sending.mid
    BY <2>1 DEF PlaceInv, Editing
  <2>5. placeholder # sending.mid
    BY <2>1 DEF PlaceInv
  <2>6. QED
    BY <1>1, <2>1, <2>2, <2>3, <2>4, <2>5 DEF PlaceInv, Editing
<1>5. QED
  BY <1>2, <1>3, <1>4

\* Only Send of Telegram puts a text in the place of something else.
Shown(p) == p \in DOMAIN posted' /\ (posted'[p] = posted[p] \/ posted'[p].id = 0)

LEMMA ShownAfter ==
  ASSUME TypeInv,
         \/ UNCHANGED posted
         \/ \E post \in PostOf : posted' = Append(posted, post)
         \/ \E q : posted' = [posted EXCEPT ![q] = Thinking]
  PROVE  \A p \in DOMAIN posted : Shown(p)
<1>1. posted \in Seq(PostOf)
  BY DEF TypeInv, PostInv
<1>2. ASSUME NEW post \in PostOf, posted' = Append(posted, post) PROVE \A p \in DOMAIN posted : Shown(p)
  BY <1>1, <1>2, AppendProperties DEF Shown
<1>3. ASSUME NEW q, posted' = [posted EXCEPT ![q] = Thinking] PROVE \A p \in DOMAIN posted : Shown(p)
  BY <1>1, <1>3 DEF Shown, Thinking
<1>4. QED
  BY <1>2, <1>3 DEF Shown

\* What the steps other than the five that hand on a place do.
Apart ==
  /\ UNCHANGED <<placeholder, mid>>
  /\ UNCHANGED sending \/ sending'.at \notin {"unplace", "edit"}
  /\ \A p \in DOMAIN posted : Shown(p)

LEMMA SendApart ==
  ASSUME TypeInv, Show \/ Unseen, UNCHANGED <<placeholder, mid>>,
         sending' = Idle \/ \E place \in Places \ {"unplace", "edit"} : Proceed(place)
  PROVE  Apart
<1>1. [chat |-> sending.text.chat, id |-> sending.text.id] \in PostOf
  BY DEF TypeInv, SendInv, TextOf, PostOf
<1>2. \A p \in DOMAIN posted : Shown(p)
  BY <1>1, ShownAfter DEF Show, Unseen
<1>3. sending'.at \notin {"unplace", "edit"}
  BY DEF TypeInv, SendInv, Proceed, Idle
<1>4. QED
  BY <1>2, <1>3 DEF Apart

LEMMA PlaceSteps ==
  ASSUME TypeInv, [Next]_vars
  PROVE  \/ Apart
         \/ \E d \in DOMAIN events : PostThinking(d) \/ StorePlaceholder(d)
         \/ LoadPlaceholder \/ DeletePlaceholder \/ EditPlaceholder
<1>. USE ShownAfter DEF adapters, telegramVars
<1>1. ASSUME \/ (BeginStartAll \/ EndStartAll \/ Respond) /\ UNCHANGED adapters
             \/ Stop
             \/ \E chat \in ChatsOfJobs : SendJobText(chat) /\ UNCHANGED adapters
             \/ \E d \in DOMAIN events : HandleMessage(d) /\ UNCHANGED adapters
      PROVE  Apart
  BY <1>1 DEF BeginStartAll, EndStartAll, Respond, Stop, Stopping, SendJobText, JobText, HandleMessage, Apart
<1>2. ASSUME Take \/ Lookup, UNCHANGED adapters PROVE Apart
  <2>1. sending'.at \notin {"unplace", "edit"}
    <3>1. CASE Take
      BY <3>1 DEF Take, Idle
    <3>2. CASE Lookup
      BY <3>2 DEF Lookup, Idle, TypeInv, SendInv
    <3>3. QED
      BY <1>2, <3>1, <3>2
  <2>2. QED
    BY <1>2, <2>1 DEF Take, Lookup, Apart
<1>3. ASSUME NEW d \in Events, Animate(d) \/ ThinkingTimeout(d) PROVE Apart
  BY <1>3 DEF Animate, ThinkingTimeout, Aside, Unseen, Apart
<1>4. ASSUME \/ StopThinking \/ DeleteStop \/ PostAnswer
             \/ (SlackSend \/ OtherSend) /\ UNCHANGED telegramVars
      PROVE  Apart
  <2>1. Show \/ Unseen
    BY <1>4 DEF StopThinking, DeleteStop, PostAnswer, SlackSend, OtherSend, SendQQ, SendDingTalk,
                SendDiscord, DiscordTimeout, SendFeishu, SendWhatsApp, SendMaixCam, Unseen
  <2>2. sending' = Idle \/ \E place \in Places \ {"unplace", "edit"} : Proceed(place)
    BY <1>4 DEF StopThinking, DeleteStop, PostAnswer, SlackSend, OtherSend, SendQQ, SendDingTalk,
                SendDiscord, DiscordTimeout, SendFeishu, SendWhatsApp, SendMaixCam, Places
  <2>3. UNCHANGED <<placeholder, mid>>
    BY <1>4 DEF StopThinking, DeleteStop, PostAnswer
  <2>4. QED
    BY <2>1, <2>2, <2>3, SendApart
<1>5. ASSUME LatePost \/ LoseBridge \/ FailRead \/ Connect \/ Disconnect, UNCHANGED telegramVars
      PROVE  Apart
  <2>1. UNCHANGED posted \/ \E post \in PostOf : posted' = Append(posted, post)
    <3>1. \A text \in late : [chat |-> text.chat, id |-> text.id] \in PostOf
      <4>1. \A text \in late : text \in TextOf
        BY DEF TypeInv, OtherInv, Known, QueueInv, GivenInv
      <4>2. QED
        BY <4>1 DEF TextOf, PostOf
    <3>2. QED
      BY <1>5, <3>1 DEF LatePost, LoseBridge, FailRead, Connect, Disconnect, core
  <2>2. UNCHANGED sending \/ sending'.at \notin {"unplace", "edit"}
    BY <1>5 DEF LatePost, LoseBridge, FailRead, Connect, Disconnect, core, Idle
  <2>3. QED
    BY <1>5, <2>1, <2>2 DEF Apart
<1>6. ASSUME NEW allowed \in BOOLEAN, HandleTelegram(allowed) PROVE Apart
  BY <1>6 DEF HandleTelegram, Apart
<1>7. ASSUME NEW t \in SlackChats, NEW allowed \in BOOLEAN, NEW empty \in BOOLEAN,
             \/ HandleMessageEvent(t, allowed, empty)
             \/ HandleAppMention(t, allowed, empty)
             \/ HandleSlashCommand(allowed),
             UNCHANGED telegramVars
      PROVE  Apart
  BY <1>7 DEF HandleMessageEvent, HandleAppMention, HandleSlashCommand, Received, Apart
<1>8. ASSUME NEW chat \in Chats, NEW allowed \in BOOLEAN, NEW empty \in BOOLEAN,
             \/ \E m \in Events : HandleQQ(m, chat, allowed, empty)
             \/ HandleDingTalk(chat, allowed, empty)
             \/ HandleDiscord(chat, allowed, empty)
             \/ HandleFeishu(chat, allowed)
             \/ HandleWhatsApp(chat, allowed)
             \/ HandlePersonDetection(allowed),
             UNCHANGED telegramVars
      PROVE  Apart
  BY <1>8 DEF HandleQQ, HandleDingTalk, HandleDiscord, HandleFeishu, HandleWhatsApp, HandlePersonDetection,
              Arrive, Apart
<1>9. ASSUME UNCHANGED vars PROVE Apart
  BY <1>9 DEF vars, core, Apart
<1>10. 0 \in SlackChats /\ 0 \in Chats /\ FALSE \in BOOLEAN
  BY DEF SlackChats, Chats
<1>11. QED
  BY <1>1, <1>2, <1>3, <1>4, <1>5, <1>6, <1>7, <1>8, <1>9, <1>10 DEF Next, TelegramSend

LEMMA PlaceStep == TypeInv /\ PlaceInv /\ [Next]_vars => PlaceInv'
<1>. SUFFICES ASSUME TypeInv, PlaceInv, [Next]_vars PROVE PlaceInv'
  OBVIOUS
<1>1. ASSUME Apart,
             \A d \in DOMAIN events' : events'[d].at = "posted" => d \in DOMAIN events /\ events[d].at = "posted"
      PROVE  PlaceInv'
  BY <1>1, PlaceFrame DEF Apart, Shown
<1>2. ASSUME UNCHANGED events, Apart PROVE PlaceInv'
  BY <1>1, <1>2
<1>3. ASSUME NEW d \in DOMAIN events, Moves(d, "published") \/ Moves(d, "dropped") \/ Moves(d, "ready"), Apart
      PROVE  PlaceInv'
  BY <1>1, <1>3, MoveEffect DEF TypeInv, QueueInv
<1>4. ASSUME NEW n \in Nat, NEW chat \in Nat, NEW allowed \in BOOLEAN, NEW empty \in BOOLEAN,
             NEW place \in {"thinking", "ready", "dropped"},
             events' = Append(events, Event(n, chat, allowed, empty, place)), Apart
      PROVE  PlaceInv'
  <2>1. Event(n, chat, allowed, empty, place) \in EventOf /\ Event(n, chat, allowed, empty, place).at # "posted"
    BY Zenon DEF Event, EventOf
  <2>2. QED
    BY <1>1, <1>4, <2>1, Appended DEF TypeInv, QueueInv
<1>5. ASSUME NEW d \in DOMAIN events, PostThinking(d), Moves(d, "ready") PROVE PlaceInv'
  <2>1. Moves(d, "ready") /\ \A c \in DOMAIN events' : events'[c].at = "posted" => c \in DOMAIN events /\ events[c].at = "posted"
    BY <1>5, MoveEffect DEF TypeInv, QueueInv
  <2>2. events'[d].at # "posted"
    BY <2>1, MoveEffect DEF TypeInv, QueueInv
  <2>3. ~(events' = [events EXCEPT ![d].at = "posted"])
    BY <1>5, <2>2, MoveEffect DEF Moves, PostThinking, TypeInv, QueueInv
  <2>4. Thinking \in PostOf
    BY DEF Thinking, PostOf
  <2>5. Apart
    BY <1>5, <2>3, <2>4, ShownAfter DEF PostThinking, Apart
  <2>6. QED
    BY <1>1, <2>1, <2>5
<1>6. ASSUME NEW d \in DOMAIN events, PostThinking(d) PROVE PlaceInv'
  <2>1. Moves(d, "ready") \/ Moves(d, "posted")
    BY <1>6 DEF PostThinking, Moves
  <2>2. QED
    BY <1>5, <1>6, <2>1, PlacePost
<1>7. QED
  BY <1>2, <1>3, <1>4, <1>6, PlaceStore, PlaceSend, PlaceSteps, EventSteps

\* The step of Send that shows its text in the place of a placeholder.
LEMMA ApartStep ==
  TypeInv /\ PlaceInv /\ [Next]_vars =>
    \A i \in DOMAIN posted : posted[i].id # 0 => posted'[i].id \in {posted[i].id, 0}
<1>. SUFFICES ASSUME TypeInv, PlaceInv, [Next]_vars, NEW i \in DOMAIN posted, posted[i].id # 0
              PROVE  posted'[i].id \in {posted[i].id, 0}
  OBVIOUS
<1>1. CASE \A p \in DOMAIN posted : Shown(p)
  BY <1>1 DEF Shown
<1>2. CASE EditPlaceholder
  <2>1. sending.mid # i
    BY <1>2 DEF EditPlaceholder, Sending, PlaceInv, Editing
  <2>2. posted'[i] = posted[i]
    BY <1>2, <2>1 DEF EditPlaceholder, TypeInv, PostInv
  <2>3. QED
    BY <2>2
<1>3. Thinking \in PostOf
  BY DEF Thinking, PostOf
<1>4. CASE LoadPlaceholder \/ DeletePlaceholder \/ \E d \in DOMAIN events : PostThinking(d) \/ StorePlaceholder(d)
  BY <1>1, <1>3, <1>4, ShownAfter DEF LoadPlaceholder, DeletePlaceholder, PostThinking, StorePlaceholder
<1>5. QED
  BY <1>1, <1>2, <1>4, PlaceSteps DEF Apart

-----------------------------------------------------------------------------
(* Delivery: the invariant.                                                *)

\* So far nothing failed, and no edit or request was left under way.
Unfailed == faults = 0 /\ "late" \notin untidy

\* The texts Send has done with come first, then the one it has, then those queued;
\* one that Slack marks as done is shown.
Done    == Len(given) - Len(outbox) - (IF sending.at = "idle" THEN 0 ELSE 1)
Through == IF sending.at = "mark" THEN Done + 1 ELSE Done

LineInv ==
  /\ Done >= 0
  /\ \A i \in DOMAIN outbox : outbox[i].id = Len(given) - Len(outbox) + i
  /\ sending.at # "idle" => sending.text.id = Len(given) - Len(outbox)

\* There is a way to every chat that wrote.
WayInv == Unfailed =>
  /\ phase = "up" => link = "up"
  /\ late = {}
  /\ sending.at \notin {"plain", "wait"}
  /\ sending.at = "mark" => channel = "slack"
  /\ sending.at = "write" => channel \in {"whatsapp", "maixcam"}
  /\ channel = "dingtalk" => \A d \in DOMAIN events : events[d].at # "dropped" => events[d].chat \in hooks
  /\ channel = "maixcam" /\ events # <<>> => client

\* Nothing moves in the other channels.
StillInv == channel # "telegram" => \A d \in 1 .. MaxEvents : anim[d] = "none"

\* Every channel but Telegram shows texts in their order, each once, in its chat.
ShownInv == channel # "telegram" /\ Unfailed =>
  /\ \A p \in DOMAIN posted : /\ posted[p].id \in 1 .. Through
                              /\ posted[p].chat = given[posted[p].id].chat
  /\ \A p, q \in DOMAIN posted : p < q => posted[p].id < posted[q].id
  /\ \A n \in 1 .. Through : Owed(given[n]) => \E p \in DOMAIN posted : posted[p].id = n

-----------------------------------------------------------------------------
(* The line of texts.                                                      *)

\* Nothing that failed or was late is forgotten.
LEMMA HistoryStays ==
  TypeInv /\ [Next]_vars => (faults' = 0 => faults = 0) /\ untidy \subseteq untidy'
<1>. SUFFICES ASSUME TypeInv, [Next]_vars PROVE (faults' = 0 => faults = 0) /\ untidy \subseteq untidy'
  OBVIOUS
<1>0. Fault => (faults' = 0 => faults = 0)
  BY DEF Fault, TypeInv, PhaseInv
<1>. DEFINE Stays == (Fault \/ UNCHANGED faults) /\ untidy \subseteq untidy'
<1>1. ASSUME \/ BeginStartAll \/ EndStartAll \/ Respond \/ Take \/ Lookup \/ Stop
             \/ \E chat \in ChatsOfJobs : SendJobText(chat)
             \/ \E d \in DOMAIN events : HandleMessage(d) \/ PostThinking(d) \/ StorePlaceholder(d)
             \/ \E d \in Events : Animate(d) \/ ThinkingTimeout(d)
      PROVE  Stays
  BY <1>1 DEF BeginStartAll, EndStartAll, Respond, Take, Lookup, Stop, Stopping, SendJobText, JobText,
              HandleMessage, PostThinking, StorePlaceholder, Animate, ThinkingTimeout, Aside, Disturb, Noted
<1>2. ASSUME TelegramSend \/ SlackSend \/ OtherSend PROVE Stays
  BY <1>2 DEF TelegramSend, StopThinking, DeleteStop, LoadPlaceholder, DeletePlaceholder, EditPlaceholder,
              PostAnswer, SlackSend, OtherSend, SendQQ, SendDingTalk, SendDiscord, DiscordTimeout,
              SendFeishu, SendWhatsApp, SendMaixCam, InSend, Disturb, Noted
<1>3. ASSUME LatePost \/ LoseBridge \/ FailRead \/ Connect \/ Disconnect \/ UNCHANGED vars
      PROVE  Stays
  BY <1>3 DEF LatePost, LoseBridge, FailRead, Connect, Disconnect, vars, core
<1>4. ASSUME NEW t \in SlackChats, NEW allowed \in BOOLEAN, NEW empty \in BOOLEAN,
             \/ HandleMessageEvent(t, allowed, empty)
             \/ HandleAppMention(t, allowed, empty)
             \/ HandleSlashCommand(allowed)
             \/ HandleTelegram(allowed)
      PROVE  Stays
  BY <1>4 DEF HandleMessageEvent, HandleAppMention, HandleSlashCommand, Received, HandleTelegram, Disturb, Noted
<1>5. ASSUME NEW chat \in Chats, NEW allowed \in BOOLEAN, NEW empty \in BOOLEAN,
             \/ \E m \in Events : HandleQQ(m, chat, allowed, empty)
             \/ HandleDingTalk(chat, allowed, empty)
             \/ HandleDiscord(chat, allowed, empty)
             \/ HandleFeishu(chat, allowed)
             \/ HandleWhatsApp(chat, allowed)
             \/ HandlePersonDetection(allowed)
      PROVE  Stays
  BY <1>5 DEF HandleQQ, HandleDingTalk, HandleDiscord, HandleFeishu, HandleWhatsApp, HandlePersonDetection,
              Arrive
<1>6. 0 \in SlackChats /\ 0 \in Chats /\ FALSE \in BOOLEAN
  BY DEF SlackChats, Chats
<1>. HIDE DEF Stays
<1>7. Stays
  BY <1>1, <1>2, <1>3, <1>4, <1>5, <1>6 DEF Next
<1>8. QED
  BY <1>0, <1>7 DEF Stays

\* What a step does to the line: a text joins it, Send takes the first, goes on with
\* it, or has done with it.
Joins   == (\E chat, of \in Nat : Give(chat, of)) /\ UNCHANGED sending
GoesOn  == /\ UNCHANGED <<given, outbox>>
           /\ \/ UNCHANGED sending
              \/ sending.at # "idle" /\ sending'.at # "idle" /\ sending'.text = sending.text
Leaves  == UNCHANGED <<given, outbox>> /\ sending.at # "idle" /\ sending' = Idle

LEMMA SendLine ==
  ASSUME TypeInv, TelegramSend \/ SlackSend \/ OtherSend \/ Lookup
  PROVE  GoesOn \/ Leaves
<1>1. sending \in [at : Places, text : TextOf, mid : Nat]
  BY DEF TypeInv, SendInv
<1>2. \A place \in Places \ {"idle"} : Proceed(place) => sending'.at # "idle" /\ sending'.text = sending.text
  BY <1>1 DEF Proceed, Places
<1>3. UNCHANGED <<given, outbox>>
  BY DEF TelegramSend, StopThinking, DeleteStop, LoadPlaceholder, DeletePlaceholder, EditPlaceholder,
         PostAnswer, SlackSend, OtherSend, SendQQ, SendDingTalk, SendDiscord, DiscordTimeout,
         SendFeishu, SendWhatsApp, SendMaixCam, InSend, Lookup
<1>4. sending.at # "idle"
  BY DEF TelegramSend, StopThinking, DeleteStop, LoadPlaceholder, DeletePlaceholder, EditPlaceholder,
         PostAnswer, SlackSend, OtherSend, SendQQ, SendDingTalk, SendDiscord, DiscordTimeout,
         SendFeishu, SendWhatsApp, SendMaixCam, Sending, Lookup
<1>5. \/ sending' = Idle
      \/ \E place \in Places \ {"idle"} : Proceed(place)
      \/ sending'.at # "idle" /\ sending'.text = sending.text
  <2>1. CASE LoadPlaceholder
    BY <1>1, <2>1 DEF LoadPlaceholder
  <2>2. CASE Lookup
    BY <2>2 DEF Lookup, Proceed, Places
  <2>3. CASE StopThinking \/ DeleteStop \/ DeletePlaceholder \/ EditPlaceholder \/ PostAnswer \/ SlackSend \/ OtherSend
    BY <2>3 DEF StopThinking, DeleteStop, DeletePlaceholder, EditPlaceholder,
         PostAnswer, SlackSend, OtherSend, SendQQ, SendDingTalk, SendDiscord, DiscordTimeout,
         SendFeishu, SendWhatsApp, SendMaixCam, Places
  <2>4. QED
    BY <2>1, <2>2, <2>3 DEF TelegramSend
<1>6. QED
  BY <1>2, <1>3, <1>4, <1>5 DEF GoesOn, Leaves

LEMMA LineSteps ==
  ASSUME TypeInv, [Next]_vars
  PROVE  Joins \/ Take \/ GoesOn \/ Leaves
<1>1. ASSUME \/ BeginStartAll \/ EndStartAll \/ Stop
             \/ \E d \in DOMAIN events : HandleMessage(d) \/ PostThinking(d) \/ StorePlaceholder(d)
             \/ \E d \in Events : Animate(d) \/ ThinkingTimeout(d)
      PROVE  GoesOn
  BY <1>1 DEF BeginStartAll, EndStartAll, Stop, Stopping,
              HandleMessage, PostThinking, StorePlaceholder, Animate, ThinkingTimeout, Aside, GoesOn
<1>2. ASSUME Respond PROVE Joins
  <2>1. Head(inbox) \in DOMAIN events /\ Head(inbox) \in Nat
    BY <1>2, HeadTailProperties DEF Respond, TypeInv, QueueInv, InboxInv
  <2>2. events[Head(inbox)].chat \in Nat
    <3>1. events[Head(inbox)] \in EventOf
      BY <2>1 DEF TypeInv, QueueInv, EventsInv
    <3>2. QED
      BY <3>1 DEF EventOf
  <2>3. QED
    BY <1>2, <2>1, <2>2 DEF Respond, Joins
<1>3. ASSUME NEW chat \in ChatsOfJobs, SendJobText(chat) PROVE Joins
  <2>1. chat \in Nat
    BY DEF ChatsOfJobs, SlackChats, Chats
  <2>2. QED
    BY <1>3, <2>1 DEF SendJobText, JobText, Joins
<1>4. ASSUME LatePost \/ LoseBridge \/ FailRead \/ Connect \/ Disconnect \/ UNCHANGED vars
      PROVE  GoesOn \/ Leaves
  BY <1>4 DEF LatePost, LoseBridge, FailRead, Connect, Disconnect, vars, core, GoesOn, Leaves
<1>5. ASSUME NEW t \in SlackChats, NEW allowed \in BOOLEAN, NEW empty \in BOOLEAN,
             \/ HandleMessageEvent(t, allowed, empty)
             \/ HandleAppMention(t, allowed, empty)
             \/ HandleSlashCommand(allowed)
             \/ HandleTelegram(allowed)
      PROVE  GoesOn
  BY <1>5 DEF HandleMessageEvent, HandleAppMention, HandleSlashCommand, Received, HandleTelegram, GoesOn
<1>6. ASSUME NEW chat \in Chats, NEW allowed \in BOOLEAN, NEW empty \in BOOLEAN,
             \/ \E m \in Events : HandleQQ(m, chat, allowed, empty)
             \/ HandleDingTalk(chat, allowed, empty)
             \/ HandleDiscord(chat, allowed, empty)
             \/ HandleFeishu(chat, allowed)
             \/ HandleWhatsApp(chat, allowed)
             \/ HandlePersonDetection(allowed)
      PROVE  GoesOn
  BY <1>6 DEF HandleQQ, HandleDingTalk, HandleDiscord, HandleFeishu, HandleWhatsApp, HandlePersonDetection,
              Arrive, GoesOn
<1>7. 0 \in SlackChats /\ 0 \in Chats /\ FALSE \in BOOLEAN
  BY DEF SlackChats, Chats
<1>8. QED
  BY <1>1, <1>2, <1>3, <1>4, <1>5, <1>6, <1>7, SendLine DEF Next

\* What a step does to what Send has done with.
LEMMA DoneAfter ==
  ASSUME TypeInv, LineInv, [Next]_vars
  PROVE  /\ LineInv'
         /\ Joins \/ Take \/ GoesOn => Done' = Done
         /\ Leaves => Done' = Done + 1
         /\ \A n \in DOMAIN given : n \in DOMAIN given' /\ given'[n] = given[n]
<1>. USE DEF TypeInv, QueueInv
<1>0. /\ Len(given) \in Nat /\ Len(outbox) \in Nat
      /\ given \in Seq(TextOf) /\ outbox \in Seq(TextOf)
  BY DEF GivenInv, OutboxInv
<1>1. ASSUME NEW chat \in Nat, NEW of \in Nat, Give(chat, of), UNCHANGED sending
      PROVE  /\ LineInv' /\ Done' = Done
             /\ \A n \in DOMAIN given : n \in DOMAIN given' /\ given'[n] = given[n]
  <2>. DEFINE text == [id |-> Len(given) + 1, chat |-> chat, of |-> of]
  <2>1. text \in TextOf /\ text.id = Len(given) + 1
    BY <1>0 DEF TextOf
  <2>2. outbox' = Append(outbox, text) /\ given' = Append(given, text)
    BY <1>1 DEF Give
  <2>. HIDE DEF text
  <2>3. /\ Len(given') = Len(given) + 1 /\ Len(outbox') = Len(outbox) + 1
        /\ DOMAIN outbox' = 1 .. Len(outbox) + 1 /\ DOMAIN outbox = 1 .. Len(outbox)
        /\ \A i \in DOMAIN outbox : outbox'[i] = outbox[i]
        /\ outbox'[Len(outbox) + 1] = text
        /\ \A n \in DOMAIN given : n \in DOMAIN given' /\ given'[n] = given[n]
    BY <1>0, <2>1, <2>2, AppendProperties
  <2>4. Done' = Done
    BY <1>0, <1>1, <2>3 DEF Done
  <2>5. ASSUME NEW i \in DOMAIN outbox' PROVE outbox'[i].id = Len(given') - Len(outbox') + i
    <3>1. CASE i \in DOMAIN outbox
      BY <1>0, <2>3, <3>1 DEF LineInv
    <3>2. CASE i = Len(outbox) + 1
      BY <1>0, <2>1, <2>3, <3>2
    <3>3. QED
      BY <1>0, <2>3, <3>1, <3>2
  <2>6. QED
    BY <1>0, <1>1, <2>3, <2>4, <2>5 DEF LineInv
<1>2. CASE Take
  <2>1. /\ outbox # <<>> /\ outbox' = Tail(outbox) /\ sending.at = "idle" /\ UNCHANGED given
        /\ sending'.at = "lookup" /\ sending'.text = Head(outbox)
    BY <1>2 DEF Take, Idle
  <2>2. /\ Len(outbox') = Len(outbox) - 1 /\ Len(outbox) # 0
        /\ \A i \in DOMAIN outbox' : i + 1 \in DOMAIN outbox /\ outbox'[i] = outbox[i + 1] /\ i \in Nat
        /\ Head(outbox) = outbox[1] /\ 1 \in DOMAIN outbox
    BY <1>0, <2>1, HeadTailProperties
  <2>3. Done' = Done
    BY <1>0, <2>1, <2>2 DEF Done
  <2>4. sending'.text.id = Len(given') - Len(outbox')
    BY <1>0, <2>1, <2>2 DEF LineInv
  <2>5. \A i \in DOMAIN outbox' : outbox'[i].id = Len(given') - Len(outbox') + i
    BY <1>0, <2>1, <2>2 DEF LineInv
  <2>6. ~Leaves
    BY <2>1 DEF Leaves
  <2>7. QED
    BY <2>1, <2>3, <2>4, <2>5, <2>6 DEF LineInv
<1>3. CASE GoesOn
  <2>1. Done' = Done /\ LineInv' /\ UNCHANGED given
    BY <1>3 DEF GoesOn, LineInv, Done
  <2>2. Leaves => FALSE
    BY <1>3 DEF GoesOn, Leaves, Idle
  <2>3. QED
    BY <2>1, <2>2
<1>4. CASE Leaves
  <2>1. Done' = Done + 1 /\ LineInv' /\ UNCHANGED given
    BY <1>0, <1>4 DEF Leaves, LineInv, Done, Idle
  <2>2. Joins \/ Take \/ GoesOn => FALSE
    BY <1>4 DEF Joins, Take, GoesOn, Leaves, Idle
  <2>3. QED
    BY <2>1, <2>2
<1>5. ASSUME Joins
      PROVE  /\ LineInv' /\ Done' = Done /\ ~Leaves
             /\ \A n \in DOMAIN given : n \in DOMAIN given' /\ given'[n] = given[n]
  <2>1. PICK chat \in Nat, of \in Nat : Give(chat, of) /\ UNCHANGED sending
    BY <1>5 DEF Joins
  <2>2. ~Leaves
    BY <2>1 DEF Leaves, Idle
  <2>3. QED
    BY <1>1, <2>1, <2>2
<1>6. QED
  BY <1>2, <1>3, <1>4, <1>5, LineSteps

-----------------------------------------------------------------------------
(* The way of a text.                                                      *)

LEMMA UnfailedStays == TypeInv /\ [Next]_vars /\ Unfailed' => Unfailed
BY HistoryStays DEF Unfailed

LEMMA NoFault == TypeInv /\ Unfailed' => ~Fault
BY DEF Unfailed, Fault, TypeInv, PhaseInv

\* A message arrives at a channel that is not Slack.
LEMMA WayArrive ==
  ASSUME TypeInv, WayInv, Unfailed, NEW chat \in Chats, NEW allowed \in BOOLEAN, NEW empty \in BOOLEAN,
         \/ \E m \in Events : HandleQQ(m, chat, allowed, empty)
         \/ HandleDingTalk(chat, allowed, empty)
         \/ HandleDiscord(chat, allowed, empty)
         \/ HandleFeishu(chat, allowed)
         \/ HandleWhatsApp(chat, allowed)
         \/ HandlePersonDetection(allowed)
  PROVE  WayInv'
<1>1. UNCHANGED <<channel, phase, link, late, sending, client>>
  BY DEF HandleQQ, HandleDingTalk, HandleDiscord, HandleFeishu, HandleWhatsApp, HandlePersonDetection, Arrive,
         otherVars
<1>2. channel = "maixcam" => client
  BY DEF HandleQQ, HandleDingTalk, HandleDiscord, HandleFeishu, HandleWhatsApp, HandlePersonDetection
<1>3. ASSUME channel = "dingtalk", NEW d \in DOMAIN events', events'[d].at # "dropped"
      PROVE  events'[d].chat \in hooks'
  <2>1. HandleDingTalk(chat, allowed, empty)
    BY <1>3 DEF HandleQQ, HandleDingTalk, HandleDiscord, HandleFeishu, HandleWhatsApp, HandlePersonDetection
  <2>. DEFINE place == IF empty THEN "dropped" ELSE "ready"
              e     == Event(Len(events) + 1, chat, allowed, empty, place)
  <2>2. events' = Append(events, e) /\ hooks' = IF empty THEN hooks ELSE hooks \cup {chat}
    BY <2>1 DEF HandleDingTalk, Arrive
  <2>3. e \in EventOf /\ e.chat = chat /\ e.at = place
    <3>1. Len(events) + 1 \in Nat /\ chat \in Nat
      BY DEF TypeInv, QueueInv, EventsInv, Chats
    <3>2. place \in {"thinking", "posted", "ready", "published", "dropped"}
      OBVIOUS
    <3>3. allowed \in BOOLEAN /\ empty \in BOOLEAN
      OBVIOUS
    <3>. HIDE DEF place
    <3>4. QED
      BY <3>1, <3>2, <3>3, Zenon DEF Event, EventOf
  <2>. HIDE DEF e
  <2>4. /\ DOMAIN events' = DOMAIN events \cup {Len(events) + 1} /\ events'[Len(events) + 1] = e
        /\ \A c \in DOMAIN events : events'[c] = events[c]
    BY <2>2, <2>3, Appended DEF TypeInv, QueueInv
  <2>5. CASE d \in DOMAIN events
    BY <1>3, <2>2, <2>4, <2>5 DEF WayInv
  <2>6. CASE d = Len(events) + 1
    BY <1>3, <2>2, <2>3, <2>4, <2>6
  <2>7. QED
    BY <2>4, <2>5, <2>6
<1>4. QED
  BY <1>1, <1>2, <1>3 DEF WayInv

LEMMA WayFrame ==
  ASSUME WayInv, Unfailed,
         UNCHANGED <<channel, phase, link, late, hooks, client, sending>>,
         \/ UNCHANGED events
         \/ channel \notin {"dingtalk", "maixcam"}
  PROVE  WayInv'
BY DEF WayInv

\* A handler goes on.
LEMMA WayMove ==
  ASSUME TypeInv, WayInv, Unfailed, NEW d \in DOMAIN events, HandleMessage(d), UNCHANGED otherVars
  PROVE  WayInv'
<1>1. UNCHANGED <<channel, phase, link, late, hooks, client, sending>>
  BY DEF HandleMessage, otherVars
<1>2. \/ Moves(d, "dropped")
      \/ Moves(d, "published")
  BY HandleEffect
<1>3. /\ DOMAIN events' = DOMAIN events /\ events[d].at # "dropped"
      /\ \A c \in DOMAIN events : events'[c].chat = events[c].chat /\ (c # d => events'[c] = events[c])
  BY <1>2, MoveEffect DEF TypeInv, QueueInv, Moves
<1>4. events # <<>>
  OBVIOUS
<1>5. QED
  BY <1>1, <1>3, <1>4 DEF WayInv

\* Send takes a step, in which nothing fails.
LEMMA WaySend ==
  ASSUME TypeInv, WayInv, Unfailed, Unfailed',
         UNCHANGED <<channel, phase, link, events, late, hooks, client>>,
         \/ sending' = Idle
         \/ \E place \in Places \ {"plain", "wait", "write", "mark"} : sending'.at = place
         \/ channel = "slack" /\ sending'.at = "mark"
         \/ channel \in {"whatsapp", "maixcam"} /\ sending'.at = "write"
  PROVE  WayInv'
<1>1. /\ sending'.at \notin {"plain", "wait"} /\ (sending'.at = "mark" => channel = "slack")
      /\ sending'.at = "write" => channel \in {"whatsapp", "maixcam"}
  BY DEF Idle, Places
<1>2. QED
  BY <1>1 DEF WayInv

LEMMA WayStep ==
  ASSUME TypeInv, WayInv, [Next]_vars
  PROVE  WayInv'
<1>. SUFFICES ASSUME Unfailed' PROVE WayInv'
  BY DEF WayInv
<1>. USE DEF adapters
<1>1. Unfailed /\ ~Fault /\ faults' = 0
  BY UnfailedStays, NoFault DEF Unfailed
<1>2. CASE (BeginStartAll \/ EndStartAll \/ Stop) /\ UNCHANGED otherVars
  <2>1. phase' = "up" => link' = "up"
    BY <1>1, <1>2 DEF BeginStartAll, EndStartAll, Stop, Stopping, Up
  <2>2. UNCHANGED <<channel, events, sending>>
    BY <1>2 DEF BeginStartAll, EndStartAll, Stop, Stopping
  <2>3. QED
    BY <1>1, <1>2, <2>1, <2>2 DEF WayInv, otherVars
<1>3. CASE (Respond \/ (\E chat \in ChatsOfJobs : SendJobText(chat))) /\ UNCHANGED otherVars
  BY <1>1, <1>3, WayFrame DEF Respond, SendJobText, JobText, otherVars
<1>4. CASE (Take \/ Lookup) /\ UNCHANGED otherVars
  <2>1. UNCHANGED <<channel, phase, link, events, late, hooks, client>>
    BY <1>4 DEF Take, Lookup, otherVars
  <2>2. sending' = Idle \/ sending'.at \in {"lookup", "send"}
    BY <1>4 DEF Take, Lookup, Idle, TypeInv, SendInv
  <2>3. QED
    BY <1>1, <2>1, <2>2, WaySend DEF Places
<1>5. ASSUME NEW d \in DOMAIN events, HandleMessage(d), UNCHANGED otherVars PROVE WayInv'
  BY <1>1, <1>5, WayMove
<1>6. ASSUME NEW allowed \in BOOLEAN, HandleTelegram(allowed), UNCHANGED otherVars PROVE WayInv'
  BY <1>1, <1>6, WayFrame DEF HandleTelegram, otherVars
<1>7. ASSUME NEW d \in DOMAIN events, PostThinking(d) \/ StorePlaceholder(d), UNCHANGED otherVars PROVE WayInv'
  BY <1>1, <1>7, WayFrame DEF PostThinking, StorePlaceholder, otherVars
<1>8. ASSUME NEW d \in Events, Animate(d) \/ ThinkingTimeout(d), UNCHANGED otherVars PROVE WayInv'
  BY <1>1, <1>8, WayFrame DEF Animate, ThinkingTimeout, Aside, otherVars
<1>9. CASE (TelegramSend \/ SlackSend) /\ UNCHANGED otherVars
  <2>1. UNCHANGED <<channel, phase, link, events, late, hooks, client>>
    BY <1>9 DEF TelegramSend, StopThinking, DeleteStop, LoadPlaceholder, DeletePlaceholder, EditPlaceholder,
                PostAnswer, SlackSend, InSend, otherVars
  <2>2. \/ sending' = Idle
        \/ sending'.at \in {"load", "unstop", "unplace", "edit", "post"}
        \/ channel = "slack" /\ sending'.at = "mark"
    <3>1. sending \in [at : Places, text : TextOf, mid : Nat]
      BY DEF TypeInv, SendInv
    <3>2. CASE SlackSend
      BY <1>1, <3>1, <3>2 DEF SlackSend, Proceed
    <3>3. CASE TelegramSend
      BY <1>1, <3>1, <3>3 DEF TelegramSend, StopThinking, DeleteStop, LoadPlaceholder, DeletePlaceholder, EditPlaceholder,
                PostAnswer, Proceed
    <3>4. QED
      BY <1>9, <3>2, <3>3
  <2>3. QED
    BY <1>1, <2>1, <2>2, WaySend DEF Places
<1>10. CASE OtherSend
  <2>1. ~DiscordTimeout
    BY <1>1 DEF DiscordTimeout, Disturb, Noted, Unfailed
  <2>2. UNCHANGED <<channel, phase, link, events, late, hooks, client>>
    BY <1>10, <2>1 DEF OtherSend, SendQQ, SendDingTalk, SendDiscord, SendFeishu, SendWhatsApp, SendMaixCam,
                       InSend, otherVars
  <2>3. sending' = Idle \/ (channel \in {"whatsapp", "maixcam"} /\ sending'.at = "write")
    BY <1>1, <1>10, <2>1 DEF OtherSend, SendQQ, SendDingTalk, SendDiscord, SendFeishu, SendWhatsApp, SendMaixCam,
                             Proceed, TypeInv, SendInv
  <2>4. QED
    BY <1>1, <2>2, <2>3, WaySend
<1>11. CASE LatePost \/ LoseBridge \/ FailRead \/ Connect \/ Disconnect
  <2>1. ~LatePost /\ ~LoseBridge /\ ~FailRead /\ ~Disconnect
    BY <1>1 DEF LatePost, LoseBridge, FailRead, Disconnect, WayInv
  <2>2. QED
    BY <1>1, <1>11, <2>1 DEF Connect, core, WayInv
<1>12. ASSUME NEW t \in SlackChats, NEW allowed \in BOOLEAN, NEW empty \in BOOLEAN,
              \/ HandleMessageEvent(t, allowed, empty)
              \/ HandleAppMention(t, allowed, empty)
              \/ HandleSlashCommand(allowed),
              UNCHANGED otherVars
       PROVE  WayInv'
  BY <1>1, <1>12, WayFrame DEF HandleMessageEvent, HandleAppMention, HandleSlashCommand, Received, otherVars
<1>13. ASSUME NEW chat \in Chats, NEW allowed \in BOOLEAN, NEW empty \in BOOLEAN,
              \/ \E m \in Events : HandleQQ(m, chat, allowed, empty)
              \/ HandleDingTalk(chat, allowed, empty)
              \/ HandleDiscord(chat, allowed, empty)
              \/ HandleFeishu(chat, allowed)
              \/ HandleWhatsApp(chat, allowed)
              \/ HandlePersonDetection(allowed)
       PROVE  WayInv'
  BY <1>1, <1>13, WayArrive
<1>14. CASE UNCHANGED vars
  BY <1>1, <1>14, WayFrame DEF vars, core, otherVars
<1>15. 0 \in SlackChats /\ 0 \in Chats /\ FALSE \in BOOLEAN
  BY DEF SlackChats, Chats
<1>16. Stop => UNCHANGED otherVars
  BY DEF Stop
<1>17. QED
  BY <1>2, <1>3, <1>4, <1>5, <1>6, <1>7, <1>8, <1>9, <1>10, <1>11, <1>12, <1>13, <1>14, <1>15, <1>16 DEF Next

-----------------------------------------------------------------------------
(* Every channel but Telegram.                                             *)

LEMMA StillStep == TypeInv /\ StillInv /\ [Next]_vars => StillInv'
<1>. SUFFICES ASSUME TypeInv, StillInv, [Next]_vars, channel # "telegram"
              PROVE  \A d \in 1 .. MaxEvents : anim'[d] = "none"
  BY ChannelStays DEF StillInv
<1>1. anim \in [1 .. MaxEvents -> {"none", "ready", "run", "edit", "late", "off"}]
  BY DEF TypeInv, AnimInv
<1>2. \A d \in 1 .. MaxEvents : anim[d] = "none"
  BY DEF StillInv
<1>3. CASE Stop
  BY <1>1, <1>2, <1>3 DEF Stop, StopTelegram
<1>4. ASSUME NEW allowed \in BOOLEAN, HandleTelegram(allowed) PROVE FALSE
  BY <1>4 DEF HandleTelegram
<1>5. ASSUME NEW d \in DOMAIN events, PostThinking(d) \/ StorePlaceholder(d) PROVE FALSE
  BY <1>5 DEF PostThinking, StorePlaceholder
<1>6. ASSUME NEW d \in Events, Animate(d) \/ ThinkingTimeout(d) PROVE FALSE
  BY <1>2, <1>6 DEF Animate, ThinkingTimeout, Animated, Events
<1>7. ASSUME TelegramSend PROVE FALSE
  BY <1>7 DEF TelegramSend, StopThinking, DeleteStop, LoadPlaceholder, DeletePlaceholder, EditPlaceholder,
              PostAnswer, Sending, TypeInv, SendInv
<1>8. CASE UNCHANGED telegramVars
  BY <1>2, <1>8 DEF telegramVars
<1>9. UNCHANGED vars => UNCHANGED telegramVars
  BY DEF vars, adapters
<1>10. 0 \in SlackChats /\ 0 \in Chats /\ FALSE \in BOOLEAN
  BY DEF SlackChats, Chats
<1>11. QED
  BY <1>3, <1>4, <1>5, <1>6, <1>7, <1>8, <1>9, <1>10 DEF Next, adapters

\* Send shows its text, or passes over one that is not owed, or nothing is shown.
Shows == /\ sending.at \in {"send", "write"} /\ Through' = Through + 1
         /\ sending.text.id = Through + 1 /\ sending.text = given[Through + 1]
         /\ Show \/ (Unseen /\ ~Owed(sending.text))
Keeps == Through' = Through /\ UNCHANGED posted

LEMMA OtherShows ==
  ASSUME TypeInv, LineInv, LineInv', WayInv, Unfailed, ~Fault, ~DiscordTimeout, OtherSend
  PROVE  Shows \/ Keeps
<1>1. /\ sending.at \in {"send", "write"} /\ UNCHANGED <<given, outbox>> /\ phase = "up"
      /\ sending' = Idle \/ (sending'.at = "write" /\ sending.at = "send" /\ Unseen)
  BY DEF OtherSend, SendQQ, SendDingTalk, SendDiscord, SendFeishu, SendWhatsApp, SendMaixCam, Sending, Proceed,
         InSend, TypeInv, SendInv
<1>2. /\ sending.text.id = Through + 1
      /\ Through + 1 \in DOMAIN given /\ sending.text = given[Through + 1]
      /\ Through' = IF sending' = Idle THEN Through + 1 ELSE Through
  <2>1. Len(given) \in Nat /\ Len(outbox) \in Nat
    BY DEF TypeInv, QueueInv, GivenInv, OutboxInv
  <2>2. Idle.at = "idle"
    BY DEF Idle
  <2>3. QED
    BY <1>1, <2>1, <2>2 DEF TypeInv, SendInv, Known, LineInv, Through, Done
<1>3. sending.text.of # 0 =>
        events # <<>> /\ \E d \in DOMAIN events : events[d].at = "published" /\ events[d].chat = sending.text.chat
  BY <1>2 DEF TypeInv, QueueInv, GivenInv, Asked
<1>4. CASE sending' # Idle
  BY <1>1, <1>2, <1>4 DEF Keeps, Unseen
<1>5. CASE sending' = Idle
  <2>. USE <1>5 DEF Proceed, Idle
  <2>0. sending.at # "idle" /\ sending.at # "write" => sending' # [sending EXCEPT !.at = "write"]
    BY DEF TypeInv, SendInv
  <2>1. ASSUME SendQQ PROVE Show \/ (Unseen /\ ~Owed(sending.text))
    BY <2>1 DEF SendQQ, Owed
  <2>2. ASSUME SendDingTalk PROVE Show \/ (Unseen /\ ~Owed(sending.text))
    <3>1. channel = "dingtalk" /\ Unfailed
      BY <2>2 DEF SendDingTalk
    <3>2. sending.text.of # 0 => sending.text.chat \in hooks
      BY <1>3, <3>1 DEF WayInv
    <3>3. QED
      BY <2>2, <3>2 DEF SendDingTalk, Owed
  <2>3. ASSUME SendDiscord \/ SendFeishu \/ SendWhatsApp PROVE Show
    BY <1>1, <2>0, <2>3 DEF SendDiscord, SendFeishu, SendWhatsApp, WayInv, Sending
  <2>4. ASSUME SendMaixCam PROVE Show \/ (Unseen /\ ~Owed(sending.text))
    BY <1>1, <1>3, <2>0, <2>4 DEF SendMaixCam, WayInv, Owed, Sending
  <2>5. Show \/ (Unseen /\ ~Owed(sending.text))
    BY <2>1, <2>2, <2>3, <2>4 DEF OtherSend
  <2>6. QED
    BY <1>1, <1>2, <2>5 DEF Shows
<1>6. QED
  BY <1>4, <1>5

LEMMA ThroughFits ==
  ASSUME TypeInv, LineInv
  PROVE  Done \in Nat /\ Through \in Nat /\ Through =< Len(given) /\ Len(given) \in Nat
         /\ DOMAIN given = 1 .. Len(given)
BY DEF TypeInv, QueueInv, GivenInv, OutboxInv, LineInv, Done, Through

LEMMA SlackShows ==
  ASSUME TypeInv, LineInv, LineInv', ~Fault, SlackSend
  PROVE  Shows \/ Keeps
<1>1. Len(given) \in Nat /\ Len(outbox) \in Nat /\ UNCHANGED <<given, outbox>>
  BY DEF TypeInv, QueueInv, GivenInv, OutboxInv, SlackSend, InSend
<1>2. CASE Sending("send")
  <2>1. sending.at = "send" /\ Show /\ sending'.at = "mark"
    BY <1>2 DEF SlackSend, Sending, Proceed, TypeInv, SendInv
  <2>2. /\ Through' = Through + 1 /\ sending.text.id = Through + 1
        /\ Through + 1 \in DOMAIN given /\ sending.text = given[Through + 1]
    BY <1>1, <2>1 DEF TypeInv, SendInv, Known, LineInv, Through, Done
  <2>3. QED
    BY <2>1, <2>2 DEF Shows
<1>3. CASE Sending("mark")
  <2>1. sending.at = "mark" /\ UNCHANGED posted /\ sending'.at = "idle"
    BY <1>3 DEF SlackSend, Sending, Idle
  <2>2. Through' = Through
    BY <1>1, <2>1 DEF Through, Done
  <2>3. QED
    BY <2>1, <2>2 DEF Keeps
<1>4. QED
  BY <1>2, <1>3 DEF SlackSend

\* The other steps keep what is shown, also those that change the line.
LEMMA RestKeeps ==
  ASSUME TypeInv, LineInv, [Next]_vars,
         UNCHANGED <<sending, posted>> \/ Take \/ (Lookup /\ running)
  PROVE  Keeps
<1>1. CASE UNCHANGED <<sending, posted>>
  <2>1. ~Take /\ ~Leaves
    <3>1. Take => sending.at = "idle" /\ sending'.at = "lookup"
      BY DEF Take, Idle
    <3>2. Leaves => sending.at # "idle" /\ sending'.at = "idle"
      BY DEF Leaves, Idle
    <3>3. QED
      BY <1>1, <3>1, <3>2
  <2>2. Done' = Done
    BY <2>1, DoneAfter, LineSteps
  <2>3. QED
    BY <1>1, <2>2 DEF Through, Keeps
<1>2. CASE Take
  <2>1. sending.at # "mark" /\ sending'.at # "mark" /\ UNCHANGED posted
    BY <1>2 DEF Take, Idle
  <2>2. QED
    BY <1>2, <2>1, DoneAfter DEF Through, Keeps
<1>3. CASE Lookup /\ running
  <2>1. sending.at # "mark" /\ sending'.at # "mark" /\ UNCHANGED posted /\ ~Leaves
    BY <1>3 DEF Lookup, TypeInv, SendInv, Leaves, Idle
  <2>2. Done' = Done
    BY <1>3, <2>1, SendLine, DoneAfter
  <2>3. QED
    BY <2>1, <2>2 DEF Through, Keeps
<1>4. QED
  BY <1>1, <1>2, <1>3

LEMMA ShownSteps ==
  ASSUME TypeInv, LineInv, WayInv, StillInv, [Next]_vars, channel # "telegram", Unfailed'
  PROVE  Keeps \/ (Shows /\ UNCHANGED given)
<1>. USE DEF adapters
<1>1. Unfailed /\ ~Fault /\ ~DiscordTimeout /\ LineInv'
  <2>1. ~DiscordTimeout
    BY DEF DiscordTimeout, Disturb, Noted, Unfailed
  <2>2. QED
    BY <2>1, UnfailedStays, NoFault, DoneAfter
<1>2. CASE BeginStartAll \/ EndStartAll \/ Stop \/ Respond \/ (\E chat \in ChatsOfJobs : SendJobText(chat))
  BY <1>2, RestKeeps DEF BeginStartAll, EndStartAll, Stop, Stopping, Respond, SendJobText, JobText
<1>3. CASE Take
  BY <1>3, RestKeeps
<1>4. CASE Lookup
  <2>1. running
    BY <1>1, <1>4 DEF Lookup, TypeInv, PhaseInv, Unfailed
  <2>2. QED
    BY <1>4, <2>1, RestKeeps
<1>5. ASSUME NEW d \in DOMAIN events, HandleMessage(d) \/ PostThinking(d) \/ StorePlaceholder(d) PROVE Keeps
  BY <1>5, RestKeeps DEF HandleMessage, PostThinking, StorePlaceholder
<1>6. ASSUME NEW allowed \in BOOLEAN, HandleTelegram(allowed) PROVE FALSE
  BY <1>6 DEF HandleTelegram
<1>7. ASSUME NEW d \in Events, Animate(d) \/ ThinkingTimeout(d) PROVE Keeps
  <2>1. UNCHANGED posted
    <3>1. CASE ThinkingTimeout(d)
      BY <3>1 DEF ThinkingTimeout
    <3>2. CASE Animate(d)
      BY <3>2 DEF Animate, StillInv, Events
    <3>3. QED
      BY <1>7, <3>1, <3>2
  <2>2. QED
    BY <1>7, <2>1, RestKeeps DEF Animate, ThinkingTimeout, Aside
<1>8. ASSUME TelegramSend PROVE FALSE
  BY <1>8 DEF TelegramSend, StopThinking, DeleteStop, LoadPlaceholder, DeletePlaceholder, EditPlaceholder,
              PostAnswer, Sending, TypeInv, SendInv
<1>9. CASE SlackSend
  BY <1>1, <1>9, SlackShows DEF SlackSend, InSend
<1>10. CASE OtherSend
  <2>1. UNCHANGED given
    BY <1>10 DEF OtherSend, SendQQ, SendDingTalk, SendDiscord, DiscordTimeout, SendFeishu, SendWhatsApp,
                 SendMaixCam, InSend
  <2>2. QED
    BY <1>1, <1>10, <2>1, OtherShows
<1>11. CASE LatePost \/ LoseBridge \/ FailRead \/ Connect \/ Disconnect
  <2>1. ~LatePost /\ ~LoseBridge /\ ~FailRead /\ ~Disconnect
    BY <1>1 DEF LatePost, LoseBridge, FailRead, Disconnect, WayInv
  <2>2. QED
    BY <1>11, <2>1, RestKeeps DEF Connect, core
<1>12. ASSUME NEW t \in SlackChats, NEW allowed \in BOOLEAN, NEW empty \in BOOLEAN,
              \/ HandleMessageEvent(t, allowed, empty)
              \/ HandleAppMention(t, allowed, empty)
              \/ HandleSlashCommand(allowed)
       PROVE  Keeps
  BY <1>12, RestKeeps DEF HandleMessageEvent, HandleAppMention, HandleSlashCommand, Received
<1>13. ASSUME NEW chat \in Chats, NEW allowed \in BOOLEAN, NEW empty \in BOOLEAN,
              \/ \E m \in Events : HandleQQ(m, chat, allowed, empty)
              \/ HandleDingTalk(chat, allowed, empty)
              \/ HandleDiscord(chat, allowed, empty)
              \/ HandleFeishu(chat, allowed)
              \/ HandleWhatsApp(chat, allowed)
              \/ HandlePersonDetection(allowed)
       PROVE  Keeps
  BY <1>13, RestKeeps DEF HandleQQ, HandleDingTalk, HandleDiscord, HandleFeishu, HandleWhatsApp,
                          HandlePersonDetection, Arrive
<1>14. CASE UNCHANGED vars
  BY <1>14, RestKeeps DEF vars, core
<1>15. 0 \in SlackChats /\ 0 \in Chats /\ FALSE \in BOOLEAN
  BY DEF SlackChats, Chats
<1>16. QED
  BY <1>2, <1>3, <1>4, <1>5, <1>6, <1>7, <1>8, <1>9, <1>10, <1>11, <1>12, <1>13, <1>14, <1>15 DEF Next

LEMMA ShownStep ==
  ASSUME TypeInv, LineInv, WayInv, StillInv, ShownInv, [Next]_vars
  PROVE  ShownInv'
<1>. SUFFICES ASSUME channel # "telegram", Unfailed' PROVE ShownInv'
  BY ChannelStays DEF ShownInv
<1>1. /\ Through \in Nat /\ Through =< Len(given) /\ Len(given) \in Nat /\ DOMAIN given = 1 .. Len(given)
      /\ \A n \in DOMAIN given : n \in DOMAIN given' /\ given'[n] = given[n]
      /\ channel' = channel
  BY ThroughFits, DoneAfter, ChannelStays
<1>2. /\ \A p \in DOMAIN posted : posted[p].id \in 1 .. Through /\ posted[p].chat = given[posted[p].id].chat
      /\ \A p, q \in DOMAIN posted : p < q => posted[p].id < posted[q].id
      /\ \A n \in 1 .. Through : Owed(given[n]) => \E p \in DOMAIN posted : posted[p].id = n
  BY UnfailedStays DEF ShownInv
<1>3. CASE Keeps
  <2>1. \A n \in 1 .. Through : given'[n] = given[n]
    BY <1>1
  <2>2. QED
    BY <1>1, <1>2, <1>3, <2>1 DEF Keeps, ShownInv, Owed
<1>4. CASE Shows /\ UNCHANGED given /\ Unseen
  <2>1. ~Owed(given[Through + 1])
    <3>1. CASE Unseen /\ ~Owed(sending.text)
      BY <1>4, <3>1 DEF Shows
    <3>2. ~Show
      <4>1. [chat |-> sending.text.chat, id |-> sending.text.id] \in PostOf
        BY DEF TypeInv, SendInv, TextOf, PostOf
      <4>2. Show => Len(posted') = Len(posted) + 1 /\ Len(posted) \in Nat
        BY <4>1, AppendProperties DEF Show, TypeInv, PostInv
      <4>3. QED
        BY <1>4, <4>2 DEF Unseen
    <3>3. QED
      BY <1>4, <3>1, <3>2 DEF Shows
  <2>2. Through' = Through + 1 /\ UNCHANGED <<posted, given, channel>>
    BY <1>1, <1>4 DEF Shows, Unseen
  <2>3. \A n \in 1 .. Through' : n \in 1 .. Through \/ n = Through + 1
    BY <1>1, <2>2
  <2>4. \A n \in 1 .. Through' : Owed(given[n])' => \E p \in DOMAIN posted : posted[p].id = n
    BY <1>2, <2>1, <2>2, <2>3 DEF Owed
  <2>5. \A p \in DOMAIN posted : posted[p].id \in 1 .. Through'
    BY <1>1, <1>2, <2>2
  <2>6. QED
    BY <1>2, <2>2, <2>4, <2>5 DEF ShownInv
<1>5. CASE Shows /\ UNCHANGED given /\ Show
  <2>. DEFINE post == [chat |-> sending.text.chat, id |-> sending.text.id]
              last == Len(posted) + 1
  <2>1. post \in PostOf /\ post.id = Through + 1 /\ post.chat = given[Through + 1].chat
    BY <1>5 DEF Shows, TypeInv, SendInv, TextOf, PostOf
  <2>2. posted' = Append(posted, post)
    BY <1>5 DEF Show
  <2>. HIDE DEF post
  <2>3. /\ DOMAIN posted' = DOMAIN posted \cup {last} /\ last \notin DOMAIN posted /\ posted'[last] = post
        /\ \A p \in DOMAIN posted : posted'[p] = posted[p] /\ p < last /\ p \in Nat
        /\ last \in Nat
    BY <2>1, <2>2, AppendProperties DEF TypeInv, PostInv
  <2>. HIDE DEF last
  <2>4. Through' = Through + 1 /\ UNCHANGED <<given, channel>>
    BY <1>1, <1>5 DEF Shows
  <2>5. \A p \in DOMAIN posted' : posted'[p].id \in 1 .. Through' /\ posted'[p].chat = given[posted'[p].id].chat
    BY <1>1, <1>2, <2>1, <2>3, <2>4
  <2>6. \A p, q \in DOMAIN posted' : p < q => posted'[p].id < posted'[q].id
    BY <1>1, <1>2, <2>1, <2>3
  <2>7. \A n \in 1 .. Through' : Owed(given[n])' => \E p \in DOMAIN posted' : posted'[p].id = n
    <3>1. \A n \in 1 .. Through' : n \in 1 .. Through \/ n = Through + 1
      BY <1>1, <2>4
    <3>2. QED
      BY <1>2, <2>1, <2>3, <2>4, <3>1 DEF Owed
  <2>8. QED
    BY <2>4, <2>5, <2>6, <2>7 DEF ShownInv
<1>6. QED
  BY <1>3, <1>4, <1>5, ShownSteps DEF Shows

-----------------------------------------------------------------------------
(* Telegram.                                                               *)

\* There is one chat and one handler, which waits for nothing but the platform.
BotInv == channel = "telegram" /\ Unfailed =>
  /\ \A d \in DOMAIN events : /\ events[d].chat = 0
                              /\ events[d].at # "dropped" => events[d].allowed /\ ~events[d].empty
                              /\ events[d].at \in {"thinking", "posted"} => anim[d] \in {"ready", "off"}
  /\ \A i \in DOMAIN given : given[i].chat = 0
  /\ \A p \in DOMAIN posted : posted[p].chat = 0
  /\ \A c, d \in Active : c = d

\* An animation begins with its message and edits a placeholder that Send does not.
AnimatedInv == channel = "telegram" /\ Unfailed =>
  \A d \in 1 .. MaxEvents :
    /\ anim[d] # "late"
    /\ anim[d] = "ready" => d \in DOMAIN events /\ events[d].at \in {"thinking", "posted"}
    /\ anim[d] \in {"run", "edit"} =>
         /\ mid[d] \in DOMAIN posted /\ posted[mid[d]].id = 0
         /\ Editing => mid[d] # sending.mid

\* Every text Send has done with is shown, once.
OnceShown == channel = "telegram" /\ Unfailed =>
  /\ \A p \in DOMAIN posted : posted[p].id \in 0 .. Done
  /\ \A n \in 1 .. Done : \E p \in DOMAIN posted : posted[p].id = n
  /\ \A p, q \in DOMAIN posted : posted[p].id = posted[q].id /\ posted[p].id # 0 => p = q

\* Without overlaps the texts are shown in order, and below them one placeholder at
\* most, which the next text replaces.
Shy == \/ \E d \in DOMAIN events : events[d].at = "posted"
       \/ Editing
       \/ placeholder # 0 /\ (Active # {} \/ inbox # <<>> \/ outbox # <<>> \/ sending.at # "idle")

OrderInv == channel = "telegram" /\ faults = 0 /\ untidy = {} =>
  /\ Active # {} => sending.at = "idle"
  /\ \A p \in DOMAIN posted : posted[p].id = IF p =< Done THEN p ELSE 0
  /\ Len(posted) \in {Done, Done + 1}
  /\ Len(posted) = Done + 1 => Shy
  /\ sending.at = "post" => placeholder = 0
  /\ \A d \in DOMAIN events : events[d].at = "thinking" => Len(posted) = Done

\* A step that concerns neither messages nor texts.
Aloof == UNCHANGED <<events, inbox, outbox, sending, posted, given, telegramVars>>

LEMMA TelegramSteps ==
  ASSUME TypeInv, WayInv, [Next]_vars, channel = "telegram", Unfailed'
  PROVE  \/ Aloof
         \/ Stop
         \/ UNCHANGED telegramVars /\ (Respond \/ SendJobText(0) \/ Take \/ Lookup)
         \/ \E d \in DOMAIN events : HandleMessage(d) /\ UNCHANGED telegramVars
         \/ \E allowed \in BOOLEAN : HandleTelegram(allowed)
         \/ \E d \in DOMAIN events : PostThinking(d) \/ StorePlaceholder(d)
         \/ \E d \in Events : Animate(d) \/ ThinkingTimeout(d)
         \/ TelegramSend
<1>. USE DEF adapters
<1>1. Unfailed /\ ~Fault
  BY UnfailedStays, NoFault
<1>2. ASSUME (BeginStartAll \/ EndStartAll) /\ UNCHANGED telegramVars PROVE Aloof
  BY <1>2 DEF BeginStartAll, EndStartAll, Aloof
<1>3. ChatsOfJobs = {0}
  BY DEF ChatsOfJobs
<1>4. ASSUME NEW t \in SlackChats, NEW allowed \in BOOLEAN, NEW empty \in BOOLEAN,
             \/ HandleMessageEvent(t, allowed, empty)
             \/ HandleAppMention(t, allowed, empty)
             \/ HandleSlashCommand(allowed)
      PROVE  FALSE
  BY <1>4 DEF HandleMessageEvent, HandleAppMention, HandleSlashCommand, Received
<1>5. ASSUME NEW chat \in Chats, NEW allowed \in BOOLEAN, NEW empty \in BOOLEAN,
             \/ \E m \in Events : HandleQQ(m, chat, allowed, empty)
             \/ HandleDingTalk(chat, allowed, empty)
             \/ HandleDiscord(chat, allowed, empty)
             \/ HandleFeishu(chat, allowed)
             \/ HandleWhatsApp(chat, allowed)
             \/ HandlePersonDetection(allowed)
      PROVE  FALSE
  BY <1>5 DEF HandleQQ, HandleDingTalk, HandleDiscord, HandleFeishu, HandleWhatsApp, HandlePersonDetection
<1>6. ~SlackSend /\ ~OtherSend
  BY DEF SlackSend, OtherSend, SendQQ, SendDingTalk, SendDiscord, DiscordTimeout, SendFeishu, SendWhatsApp,
         SendMaixCam
<1>7. ~LatePost /\ ~LoseBridge /\ ~FailRead /\ ~Connect /\ ~Disconnect
  BY <1>1 DEF LatePost, LoseBridge, FailRead, Connect, Disconnect, WayInv
<1>8. UNCHANGED vars => Aloof
  BY DEF vars, core, Aloof
<1>9. 0 \in SlackChats /\ 0 \in Chats /\ FALSE \in BOOLEAN
  BY DEF SlackChats, Chats
<1>10. QED
  BY <1>2, <1>3, <1>4, <1>5, <1>6, <1>7, <1>8, <1>9 DEF Next

LEMMA MoveKeeps ==
  ASSUME EventsInv, NEW d \in DOMAIN events, NEW place, Moves(d, place)
  PROVE  \A c \in DOMAIN events : /\ events'[c].allowed = events[c].allowed
                                  /\ events'[c].empty = events[c].empty
<1>1. \A c \in DOMAIN events : events[c] \in EventOf
  BY DEF EventsInv
<1>2. \A c \in DOMAIN events : c # d => events'[c] = events[c]
  BY MoveEffect
<1>3. events'[d] = [events[d] EXCEPT !.at = place]
  BY DEF Moves, EventsInv
<1>4. events'[d].allowed = events[d].allowed /\ events'[d].empty = events[d].empty
  BY <1>1, <1>3 DEF EventOf
<1>5. QED
  BY <1>2, <1>4

LEMMA CancelEffect ==
  ASSUME AnimInv, NEW x, anim' = Cancelled(x)
  PROVE  /\ anim' \in [1 .. MaxEvents -> {"none", "ready", "run", "edit", "late", "off"}]
         /\ \A d \in 1 .. MaxEvents :
              anim'[d] = anim[d] \/ (d = x /\ (anim'[d] = "off" \/ (anim'[d] = "late" /\ anim[d] = "edit")))
BY DEF AnimInv, Cancelled

\* What the arrival of a message does.
LEMMA TelegramArrives ==
  ASSUME TypeInv, NEW allowed \in BOOLEAN, HandleTelegram(allowed)
  PROVE  LET d == Len(events) + 1
         IN  /\ Active = {} /\ d \in 1 .. MaxEvents /\ d \notin DOMAIN events
             /\ DOMAIN events' = DOMAIN events \cup {d} /\ events'[d].chat = 0
             /\ \A c \in DOMAIN events : events'[c] = events[c]
             /\ UNCHANGED <<inbox, outbox, sending, posted, given, placeholder, mid>>
             /\ \/ events'[d].at = "dropped" /\ UNCHANGED <<stop, anim, untidy>>
                \/ /\ events'[d].at = "thinking" /\ events'[d].allowed = TRUE /\ events'[d].empty = FALSE
                   /\ anim'[d] = "ready"
                   /\ \A c \in 1 .. MaxEvents : c # d =>
                        \/ anim'[c] = anim[c]
                        \/ c = stop /\ (anim'[c] = "off" \/ (anim'[c] = "late" /\ anim[c] = "edit"))
                   /\ EditUnderWay(stop) => "late" \in untidy'
                   /\ inbox # <<>> \/ outbox # <<>> \/ sending # Idle => "overlap" \in untidy'
<1>. DEFINE d == Len(events) + 1
<1>1. /\ events \in Seq(EventOf) /\ DOMAIN events = 1 .. Len(events) /\ Len(events) \in Nat
      /\ Active = {} /\ Len(events) < MaxEvents /\ MaxEvents \in Nat
  BY DEF TypeInv, QueueInv, EventsInv, HandleTelegram, Listening
<1>2. d \in 1 .. MaxEvents /\ d \notin DOMAIN events /\ d \in Nat
  BY <1>1
<1>3. UNCHANGED <<inbox, outbox, sending, posted, given, placeholder, mid>>
  BY DEF HandleTelegram, telegramVars
<1>4. CASE ~allowed
  <2>. DEFINE e == Event(d, 0, FALSE, FALSE, "dropped")
  <2>1. events' = Append(events, e) /\ UNCHANGED <<stop, anim, untidy>>
    BY <1>4 DEF HandleTelegram, telegramVars
  <2>. HIDE DEF d
  <2>2. e \in EventOf /\ e.chat = 0 /\ e.at = "dropped"
    BY <1>2, Zenon DEF Event, EventOf
  <2>. HIDE DEF e
  <2>3. /\ DOMAIN events' = DOMAIN events \cup {d} /\ events'[d] = e
        /\ \A c \in DOMAIN events : events'[c] = events[c]
    BY <2>1, <2>2, Appended DEF d, TypeInv, QueueInv
  <2>4. QED
    BY <1>1, <1>2, <1>3, <2>1, <2>2, <2>3 DEF d
<1>5. CASE allowed
  <2>. DEFINE e == Event(d, 0, TRUE, FALSE, "thinking")
  <2>1. /\ events' = Append(events, e)
        /\ anim' = [IF stop = 0 THEN anim ELSE Cancelled(stop) EXCEPT ![d] = "ready"]
        /\ untidy' = untidy \cup Noted("late", EditUnderWay(stop))
                            \cup Noted("overlap", inbox # <<>> \/ outbox # <<>> \/ sending # Idle)
    BY <1>5 DEF HandleTelegram
  <2>. HIDE DEF d
  <2>2. e \in EventOf /\ e.chat = 0 /\ e.at = "thinking" /\ e.allowed = TRUE /\ e.empty = FALSE
    BY <1>2, Zenon DEF Event, EventOf
  <2>. HIDE DEF e
  <2>3. /\ DOMAIN events' = DOMAIN events \cup {d} /\ events'[d] = e
        /\ \A c \in DOMAIN events : events'[c] = events[c]
    BY <2>1, <2>2, Appended DEF d, TypeInv, QueueInv
  <2>4. /\ anim'[d] = "ready"
        /\ \A c \in 1 .. MaxEvents : c # d =>
             \/ anim'[c] = anim[c]
             \/ c = stop /\ (anim'[c] = "off" \/ (anim'[c] = "late" /\ anim[c] = "edit"))
    BY <1>2, <2>1 DEF TypeInv, AnimInv, Cancelled
  <2>5. /\ EditUnderWay(stop) => "late" \in untidy'
        /\ inbox # <<>> \/ outbox # <<>> \/ sending # Idle => "overlap" \in untidy'
    BY <2>1 DEF Noted
  <2>6. QED
    BY <1>1, <1>2, <1>3, <2>2, <2>3, <2>4, <2>5 DEF d
<1>6. QED
  BY <1>4, <1>5

\* What its placeholder does, if nothing fails.
LEMMA ThinkingPosted ==
  ASSUME TypeInv, ~Fault, NEW d \in DOMAIN events, PostThinking(d)
  PROVE  LET p == Len(posted) + 1
         IN  /\ events[d].at = "thinking" /\ Moves(d, "posted")
             /\ p \notin DOMAIN posted /\ DOMAIN posted' = DOMAIN posted \cup {p}
             /\ posted'[p] = Thinking /\ \A q \in DOMAIN posted : posted'[q] = posted[q]
             /\ Len(posted') = p /\ mid'[d] = p /\ \A c \in 1 .. MaxEvents : c # d => mid'[c] = mid[c]
             /\ UNCHANGED <<inbox, outbox, sending, given, placeholder, stop, anim, untidy, faults>>
<1>1. Thinking \in PostOf /\ posted \in Seq(PostOf)
  BY DEF Thinking, PostOf, TypeInv, PostInv
<1>2. /\ posted' = Append(posted, Thinking) /\ mid' = [mid EXCEPT ![d] = Len(posted) + 1]
      /\ events' = [events EXCEPT ![d].at = "posted"] /\ events[d].at = "thinking"
      /\ UNCHANGED <<inbox, outbox, sending, given, placeholder, stop, anim, untidy, faults>>
  BY DEF PostThinking
<1>3. d \in 1 .. MaxEvents /\ mid \in [1 .. MaxEvents -> Nat]
  BY DEF TypeInv, AnimInv, QueueInv, EventsInv
<1>4. mid'[d] = Len(posted) + 1 /\ \A c \in 1 .. MaxEvents : c # d => mid'[c] = mid[c]
  BY <1>2, <1>3
<1>5. QED
  BY <1>1, <1>2, <1>4, AppendProperties DEF Moves

\* An animation shows "Thinking..." where it is.
LEMMA AnimateEffect ==
  ASSUME TypeInv, BotInv, AnimatedInv, channel = "telegram", Unfailed, NEW d \in Events, Animate(d)
  PROVE  /\ anim[d] \in {"run", "edit"} /\ anim'[d] \in {"run", "edit"}
         /\ \A c \in 1 .. MaxEvents : c # d => anim'[c] = anim[c]
         /\ UNCHANGED <<events, inbox, outbox, sending, posted, given, placeholder, mid, untidy, faults>>
<1>1. d \in 1 .. MaxEvents /\ anim \in [1 .. MaxEvents -> {"none", "ready", "run", "edit", "late", "off"}]
  BY DEF Events, TypeInv, AnimInv
<1>2. anim[d] # "late"
  BY <1>1 DEF AnimatedInv
<1>3. /\ anim[d] = "run" /\ anim' = [anim EXCEPT ![d] = "edit"] /\ UNCHANGED posted
      \/ /\ anim[d] = "edit" /\ anim' = [anim EXCEPT ![d] = "run"]
         /\ posted' \in {posted, [posted EXCEPT ![mid[d]] = Thinking]}
  BY <1>2 DEF Animate, Unseen
<1>4. anim[d] = "edit" => mid[d] \in DOMAIN posted /\ posted[mid[d]].id = 0 /\ posted[mid[d]].chat = 0
  BY <1>1 DEF AnimatedInv, BotInv
<1>5. anim[d] = "edit" => [posted EXCEPT ![mid[d]] = Thinking] = posted
  <2>1. SUFFICES ASSUME anim[d] = "edit" PROVE [posted EXCEPT ![mid[d]] = Thinking] = posted
    OBVIOUS
  <2>2. posted \in Seq(PostOf) /\ posted[mid[d]] \in PostOf
    BY <1>4, <2>1 DEF TypeInv, PostInv
  <2>3. posted[mid[d]] = Thinking
    BY <1>4, <2>1, <2>2 DEF PostOf, Thinking
  <2>4. QED
    BY <2>2, <2>3
<1>6. UNCHANGED <<events, inbox, outbox, sending, given, placeholder, mid, untidy, faults>>
  BY DEF Animate, Aside
<1>7. QED
  BY <1>1, <1>3, <1>5, <1>6

LEMMA BotFrame ==
  ASSUME TypeInv, BotInv, Unfailed, channel = "telegram", UNCHANGED <<channel, events>>,
         \A d \in 1 .. MaxEvents : anim[d] \in {"ready", "off"} => anim'[d] \in {"ready", "off"},
         \A i \in DOMAIN given' : given'[i].chat = 0,
         \A p \in DOMAIN posted' : posted'[p].chat = 0
  PROVE  BotInv'
<1>1. DOMAIN events \subseteq 1 .. MaxEvents
  BY DEF TypeInv, QueueInv, EventsInv
<1>2. QED
  BY <1>1 DEF BotInv, Active

\* A handler goes on, or is over.
LEMMA BotMove ==
  ASSUME TypeInv, BotInv, Unfailed, channel = "telegram", UNCHANGED <<channel, given>>,
         NEW d \in DOMAIN events, NEW place \in {"posted", "ready", "published", "dropped"}, Moves(d, place),
         place = "posted" => events[d].at = "thinking" /\ UNCHANGED anim,
         \A c \in 1 .. MaxEvents : c # d => anim'[c] = anim[c],
         \A p \in DOMAIN posted' : posted'[p].chat = 0
  PROVE  BotInv'
<1>1. /\ DOMAIN events \subseteq 1 .. MaxEvents /\ DOMAIN events' = DOMAIN events
      /\ events'[d].at = place /\ events[d].at \in {"thinking", "posted", "ready"}
      /\ \A c \in DOMAIN events : /\ events'[c].chat = events[c].chat
                                  /\ events'[c].allowed = events[c].allowed
                                  /\ events'[c].empty = events[c].empty
                                  /\ c # d => events'[c] = events[c]
  <2>1. EventsInv
    BY DEF TypeInv, QueueInv
  <2>2. DOMAIN events \subseteq 1 .. MaxEvents /\ events[d].at \in {"thinking", "posted", "ready"}
    BY <2>1 DEF EventsInv, Moves
  <2>3. QED
    BY <2>1, <2>2, MoveEffect, MoveKeeps
<1>2. Active' \subseteq Active
  BY <1>1 DEF Active
<1>3. \A c \in DOMAIN events :
        /\ events[c].chat = 0
        /\ events[c].at # "dropped" => events[c].allowed /\ ~events[c].empty
        /\ events[c].at \in {"thinking", "posted"} => anim[c] \in {"ready", "off"}
  BY DEF BotInv
<1>4. ASSUME NEW c \in DOMAIN events'
      PROVE  /\ events'[c].chat = 0
             /\ events'[c].at # "dropped" => events'[c].allowed /\ ~events'[c].empty
             /\ events'[c].at \in {"thinking", "posted"} => anim'[c] \in {"ready", "off"}
  <2>1. CASE c = d
    BY <1>1, <1>3, <2>1
  <2>2. CASE c # d
    BY <1>1, <1>3, <2>2
  <2>3. QED
    BY <2>1, <2>2
<1>5. QED
  BY <1>2, <1>4 DEF BotInv

LEMMA BotGive ==
  ASSUME TypeInv, BotInv, Unfailed, channel = "telegram", UNCHANGED <<channel, events, posted, anim>>,
         NEW of \in Nat, Give(0, of)
  PROVE  BotInv'
<1>1. given \in Seq(TextOf) /\ \A i \in DOMAIN given : given[i].chat = 0
  BY DEF TypeInv, QueueInv, GivenInv, BotInv
<1>. DEFINE text == [id |-> Len(given) + 1, chat |-> 0, of |-> of]
<1>2. text \in TextOf /\ text.chat = 0 /\ given' = Append(given, text)
  BY <1>1 DEF Give, TextOf
<1>. HIDE DEF text
<1>3. \A i \in DOMAIN given' : given'[i].chat = 0
  BY <1>1, <1>2, AppendProperties
<1>4. \A p \in DOMAIN posted' : posted'[p].chat = 0
  BY DEF BotInv
<1>5. QED
  BY <1>3, <1>4, BotFrame

LEMMA BotSend ==
  ASSUME TypeInv, BotInv, Unfailed, channel = "telegram", TelegramSend
  PROVE  BotInv'
<1>1. UNCHANGED <<channel, events, given>>
  BY DEF TelegramSend, StopThinking, DeleteStop, LoadPlaceholder, DeletePlaceholder, EditPlaceholder,
         PostAnswer, InSend
<1>2. \A d \in 1 .. MaxEvents : anim[d] \in {"ready", "off"} => anim'[d] \in {"ready", "off"}
  <2>1. CASE UNCHANGED anim
    BY <2>1
  <2>2. CASE anim' = Cancelled(stop)
    BY <2>2, CancelEffect DEF TypeInv
  <2>3. QED
    BY <2>1, <2>2 DEF TelegramSend, StopThinking, DeleteStop, LoadPlaceholder, DeletePlaceholder,
                      EditPlaceholder, PostAnswer, telegramVars
<1>3. sending.at # "idle" => Text \in PostOf /\ Text.chat = 0
  BY DEF TypeInv, SendInv, Text, TextOf, PostOf, Known, BotInv
<1>4. posted \in Seq(PostOf) /\ \A p \in DOMAIN posted : posted[p].chat = 0
  BY DEF TypeInv, PostInv, BotInv
<1>5. \/ UNCHANGED posted
      \/ sending.at # "idle" /\ posted' = Append(posted, Text)
      \/ sending.at # "idle" /\ posted' = [posted EXCEPT ![sending.mid] = Text]
  BY DEF TelegramSend, StopThinking, DeleteStop, LoadPlaceholder, DeletePlaceholder, EditPlaceholder,
         PostAnswer, Show, Unseen, Text, Sending
<1>6. \A p \in DOMAIN posted' : posted'[p].chat = 0
  <2>1. CASE UNCHANGED posted
    BY <1>4, <2>1
  <2>2. CASE sending.at # "idle" /\ posted' = Append(posted, Text)
    BY <1>3, <1>4, <2>2, AppendProperties
  <2>3. CASE sending.at # "idle" /\ posted' = [posted EXCEPT ![sending.mid] = Text]
    BY <1>3, <1>4, <2>3
  <2>4. QED
    BY <1>5, <2>1, <2>2, <2>3
<1>7. \A i \in DOMAIN given' : given'[i].chat = 0
  BY <1>1 DEF BotInv
<1>8. QED
  BY <1>1, <1>2, <1>6, <1>7, BotFrame

LEMMA BotStep ==
  ASSUME TypeInv, WayInv, BotInv, AnimatedInv, [Next]_vars
  PROVE  BotInv'
<1>. SUFFICES ASSUME channel = "telegram", Unfailed' PROVE BotInv'
  BY ChannelStays DEF BotInv
<1>1. Unfailed /\ ~Fault /\ channel' = channel
  BY UnfailedStays, NoFault, ChannelStays
<1>2. /\ \A i \in DOMAIN given : given[i].chat = 0
      /\ \A p \in DOMAIN posted : posted[p].chat = 0
  BY <1>1 DEF BotInv
<1>3. CASE Aloof
  BY <1>1, <1>2, <1>3, BotFrame DEF Aloof, telegramVars
<1>4. CASE Stop
  <2>1. UNCHANGED <<events, given, posted>> /\ \A d \in 1 .. MaxEvents : anim[d] = "none" \/ anim'[d] = "off"
    BY <1>4 DEF Stop, Stopping, StopTelegram, TypeInv, AnimInv
  <2>2. QED
    BY <1>1, <1>2, <2>1, BotFrame
<1>5. CASE Respond /\ UNCHANGED telegramVars
  <2>1. Head(inbox) \in DOMAIN events /\ Head(inbox) \in Nat
    BY <1>5, HeadTailProperties DEF Respond, TypeInv, QueueInv, InboxInv
  <2>2. events[Head(inbox)].chat = 0
    BY <1>1, <2>1 DEF BotInv
  <2>3. QED
    BY <1>1, <1>5, <2>1, <2>2, BotGive DEF Respond, telegramVars
<1>6. CASE SendJobText(0) /\ UNCHANGED telegramVars
  BY <1>1, <1>6, BotGive DEF SendJobText, JobText, telegramVars
<1>7. CASE (Take \/ Lookup) /\ UNCHANGED telegramVars
  BY <1>1, <1>2, <1>7, BotFrame DEF Take, Lookup, telegramVars
<1>8. ASSUME NEW d \in DOMAIN events, HandleMessage(d), UNCHANGED telegramVars PROVE BotInv'
  <2>1. UNCHANGED <<given, posted, anim>>
    BY <1>8 DEF HandleMessage, telegramVars
  <2>2. QED
    BY <1>1, <1>2, <1>8, <2>1, HandleEffect, BotMove
<1>9. ASSUME NEW allowed \in BOOLEAN, HandleTelegram(allowed) PROVE BotInv'
  <2>. DEFINE d == Len(events) + 1
  <2>1. /\ Active = {} /\ d \in 1 .. MaxEvents
        /\ DOMAIN events' = DOMAIN events \cup {d} /\ events'[d].chat = 0
        /\ \A c \in DOMAIN events : events'[c] = events[c]
        /\ UNCHANGED <<posted, given>>
        /\ \/ events'[d].at = "dropped"
           \/ events'[d].at = "thinking" /\ events'[d].allowed = TRUE /\ events'[d].empty = FALSE /\ anim'[d] = "ready"
    BY <1>9, TelegramArrives
  <2>. HIDE DEF d
  <2>2. \A c \in DOMAIN events : events[c].at \notin {"thinking", "posted"}
    BY <2>1 DEF Active
  <2>3. \A c \in Active' : c = d
    BY <2>1 DEF Active
  <2>4. ASSUME NEW c \in DOMAIN events'
        PROVE  /\ events'[c].chat = 0
               /\ events'[c].at # "dropped" => events'[c].allowed /\ ~events'[c].empty
               /\ events'[c].at \in {"thinking", "posted"} => anim'[c] \in {"ready", "off"}
    <3>1. CASE c = d
      BY <2>1, <3>1
    <3>2. CASE c \in DOMAIN events
      BY <1>1, <2>1, <2>2, <3>2 DEF BotInv
    <3>3. QED
      BY <2>1, <3>1, <3>2
  <2>5. QED
    BY <1>2, <2>1, <2>3, <2>4 DEF BotInv
<1>10. ASSUME NEW d \in DOMAIN events, PostThinking(d) PROVE BotInv'
  <2>1. \A p \in DOMAIN posted' : posted'[p].chat = 0
    BY <1>1, <1>2, <1>10, ThinkingPosted DEF Thinking
  <2>2. events[d].at = "thinking" /\ Moves(d, "posted") /\ UNCHANGED <<given, anim>>
    BY <1>1, <1>10, ThinkingPosted
  <2>3. QED
    BY <1>1, <2>1, <2>2, BotMove
<1>11. ASSUME NEW d \in DOMAIN events, StorePlaceholder(d) PROVE BotInv'
  <2>1. Moves(d, "ready") /\ UNCHANGED <<given, posted>> /\ \A c \in 1 .. MaxEvents : c # d => anim'[c] = anim[c]
    BY <1>11 DEF StorePlaceholder, Moves, TypeInv, AnimInv
  <2>2. QED
    BY <1>1, <1>2, <2>1, BotMove
<1>12. ASSUME NEW d \in Events, Animate(d) PROVE BotInv'
  <2>1. /\ anim[d] \in {"run", "edit"} /\ UNCHANGED <<events, given, posted>>
        /\ \A c \in 1 .. MaxEvents : c # d => anim'[c] = anim[c]
    BY <1>1, <1>12, AnimateEffect
  <2>2. QED
    BY <1>1, <1>2, <2>1, BotFrame
<1>13. ASSUME NEW d \in Events, ThinkingTimeout(d) PROVE BotInv'
  <2>1. anim' = Cancelled(d) /\ UNCHANGED <<events, given, posted>>
    BY <1>13 DEF ThinkingTimeout, Aside
  <2>2. \A c \in 1 .. MaxEvents : anim[c] \in {"ready", "off"} => anim'[c] \in {"ready", "off"}
    BY <2>1, CancelEffect DEF TypeInv
  <2>3. QED
    BY <1>1, <1>2, <2>1, <2>2, BotFrame
<1>14. QED
  BY <1>1, <1>3, <1>4, <1>5, <1>6, <1>7, <1>8, <1>9, <1>10, <1>11, <1>12, <1>13, BotSend, TelegramSteps

LEMMA AnimatedFrame ==
  ASSUME AnimatedInv, Unfailed, channel = "telegram", UNCHANGED <<channel, mid>>,
         \A d \in 1 .. MaxEvents :
           anim'[d] \in {anim[d], "off"} \/ (anim[d] \in {"run", "edit"} /\ anim'[d] \in {"run", "edit"}),
         \A d \in DOMAIN events :
           d \in DOMAIN events' /\ (events[d].at \in {"thinking", "posted"} => events'[d].at = events[d].at),
         Editing' => Editing /\ sending'.mid = sending.mid,
         \A p \in DOMAIN posted :
           p \in DOMAIN posted' /\ (posted'[p] = posted[p] \/ (Editing /\ p = sending.mid))
  PROVE  AnimatedInv'
<1>1. ASSUME NEW d \in 1 .. MaxEvents
      PROVE  /\ anim'[d] # "late"
             /\ anim'[d] = "ready" => d \in DOMAIN events' /\ events'[d].at \in {"thinking", "posted"}
             /\ anim'[d] \in {"run", "edit"} =>
                  /\ mid[d] \in DOMAIN posted' /\ posted'[mid[d]].id = 0
                  /\ Editing' => mid[d] # sending'.mid
  BY DEF AnimatedInv
<1>2. QED
  BY <1>1 DEF AnimatedInv

LEMMA AnimatedArrive ==
  ASSUME TypeInv, AnimatedInv, channel = "telegram", Unfailed, Unfailed', UNCHANGED channel,
         NEW allowed \in BOOLEAN, HandleTelegram(allowed)
  PROVE  AnimatedInv'
<1>. DEFINE d == Len(events) + 1
<1>1. /\ d \in 1 .. MaxEvents /\ d \in DOMAIN events'
      /\ \A c \in DOMAIN events : c \in DOMAIN events' /\ events'[c] = events[c]
      /\ UNCHANGED <<sending, posted, mid>>
      /\ \/ UNCHANGED anim
         \/ /\ events'[d].at = "thinking" /\ anim'[d] = "ready"
            /\ \A c \in 1 .. MaxEvents : c # d =>
                 \/ anim'[c] = anim[c]
                 \/ c = stop /\ (anim'[c] = "off" \/ (anim'[c] = "late" /\ anim[c] = "edit"))
            /\ EditUnderWay(stop) => "late" \in untidy'
  BY TelegramArrives
<1>. HIDE DEF d
<1>2. CASE UNCHANGED anim
  BY <1>1, <1>2, AnimatedFrame DEF Editing
<1>3. CASE anim'[d] = "ready" /\ events'[d].at = "thinking"
  <2>1. ~EditUnderWay(stop) \/ UNCHANGED anim
    BY <1>1 DEF Unfailed
  <2>2. stop \in 1 .. MaxEvents => anim[stop] # "edit" \/ UNCHANGED anim
    BY <2>1 DEF EditUnderWay, TypeInv, AnimInv
  <2>3. ASSUME NEW c \in 1 .. MaxEvents, c # d, ~UNCHANGED anim PROVE anim'[c] \in {anim[c], "off"}
    BY <1>1, <2>2, <2>3
  <2>4. ASSUME NEW c \in 1 .. MaxEvents, ~UNCHANGED anim
        PROVE  /\ anim'[c] # "late"
               /\ anim'[c] = "ready" => c \in DOMAIN events' /\ events'[c].at \in {"thinking", "posted"}
               /\ anim'[c] \in {"run", "edit"} =>
                    /\ mid[c] \in DOMAIN posted /\ posted[mid[c]].id = 0
                    /\ Editing => mid[c] # sending.mid
    <3>1. CASE c = d
      BY <1>1, <1>3, <3>1
    <3>2. CASE c # d
      BY <1>1, <2>3, <2>4, <3>2 DEF AnimatedInv
    <3>3. QED
      BY <3>1, <3>2
  <2>5. QED
    BY <1>1, <1>2, <2>4 DEF AnimatedInv, Editing
<1>4. QED
  BY <1>1, <1>2, <1>3

LEMMA AnimatedPost ==
  ASSUME TypeInv, BotInv, AnimatedInv, channel = "telegram", Unfailed, ~Fault, UNCHANGED channel,
         NEW d \in DOMAIN events, PostThinking(d)
  PROVE  AnimatedInv'
<1>1. /\ events[d].at = "thinking" /\ Moves(d, "posted")
      /\ \A q \in DOMAIN posted : q \in DOMAIN posted' /\ posted'[q] = posted[q]
      /\ \A c \in 1 .. MaxEvents : c # d => mid'[c] = mid[c]
      /\ UNCHANGED <<sending, anim>>
  BY ThinkingPosted
<1>2. /\ DOMAIN events' = DOMAIN events /\ events'[d].at = "posted"
      /\ \A c \in DOMAIN events : c # d => events'[c] = events[c]
  BY <1>1, MoveEffect DEF TypeInv, QueueInv
<1>3. anim[d] \in {"ready", "off"}
  BY <1>1 DEF BotInv
<1>4. ASSUME NEW c \in 1 .. MaxEvents
      PROVE  /\ anim[c] # "late"
             /\ anim[c] = "ready" => c \in DOMAIN events' /\ events'[c].at \in {"thinking", "posted"}
             /\ anim[c] \in {"run", "edit"} =>
                  /\ mid'[c] \in DOMAIN posted' /\ posted'[mid'[c]].id = 0
                  /\ Editing => mid'[c] # sending.mid
  <2>1. CASE c = d
    BY <1>2, <1>3, <2>1
  <2>2. CASE c # d
    BY <1>1, <1>2, <2>2 DEF AnimatedInv
  <2>3. QED
    BY <2>1, <2>2
<1>5. QED
  BY <1>1, <1>4 DEF AnimatedInv, Editing

LEMMA AnimatedStore ==
  ASSUME TypeInv, PlaceInv, AnimatedInv, channel = "telegram", Unfailed, UNCHANGED channel,
         NEW d \in DOMAIN events, StorePlaceholder(d)
  PROVE  AnimatedInv'
<1>1. /\ events[d].at = "posted" /\ Moves(d, "ready") /\ UNCHANGED <<sending, posted, mid>>
      /\ anim' = [anim EXCEPT ![d] = IF @ = "ready" THEN "run" ELSE @]
  BY DEF StorePlaceholder, Moves
<1>2. /\ DOMAIN events' = DOMAIN events
      /\ \A c \in DOMAIN events : c # d => events'[c] = events[c]
  BY <1>1, MoveEffect DEF TypeInv, QueueInv
<1>3. mid[d] \in DOMAIN posted /\ posted[mid[d]].id = 0 /\ (Editing => mid[d] # sending.mid)
  BY <1>1 DEF PlaceInv
<1>4. d \in 1 .. MaxEvents /\ anim \in [1 .. MaxEvents -> {"none", "ready", "run", "edit", "late", "off"}]
  BY DEF TypeInv, AnimInv, QueueInv, EventsInv
<1>5. /\ anim'[d] # "ready" /\ (anim[d] # "late" => anim'[d] # "late")
      /\ \A c \in 1 .. MaxEvents : c # d => anim'[c] = anim[c]
  BY <1>1, <1>4
<1>6. ASSUME NEW c \in 1 .. MaxEvents
      PROVE  /\ anim'[c] # "late"
             /\ anim'[c] = "ready" => c \in DOMAIN events' /\ events'[c].at \in {"thinking", "posted"}
             /\ anim'[c] \in {"run", "edit"} =>
                  /\ mid[c] \in DOMAIN posted /\ posted[mid[c]].id = 0
                  /\ Editing => mid[c] # sending.mid
  <2>1. CASE c = d
    BY <1>3, <1>5, <2>1 DEF AnimatedInv
  <2>2. CASE c # d
    BY <1>2, <1>5, <2>2 DEF AnimatedInv
  <2>3. QED
    BY <2>1, <2>2
<1>7. QED
  BY <1>1, <1>6 DEF AnimatedInv, Editing

\* An edit that is under way when its animation is cancelled may be late.
LEMMA CancelOnTime ==
  ASSUME AnimInv, Unfailed', NEW x \in 0 .. MaxEvents, anim' = Cancelled(x), Disturb("late", EditUnderWay(x))
  PROVE  \A d \in 1 .. MaxEvents : anim'[d] \in {anim[d], "off"}
<1>1. ~EditUnderWay(x)
  BY DEF Disturb, Noted, Unfailed
<1>2. QED
  BY <1>1, CancelEffect DEF EditUnderWay

LEMMA AnimatedSend ==
  ASSUME TypeInv, AnimatedInv, channel = "telegram", Unfailed, Unfailed', ~Fault, UNCHANGED channel,
         TelegramSend
  PROVE  AnimatedInv'
<1>1. sending \in [at : Places, text : TextOf, mid : Nat] /\ posted \in Seq(PostOf)
  BY DEF TypeInv, SendInv, PostInv
<1>2. UNCHANGED <<events, mid>>
  BY DEF TelegramSend, StopThinking, DeleteStop, LoadPlaceholder, DeletePlaceholder, EditPlaceholder,
         PostAnswer, InSend, telegramVars
<1>3. CASE StopThinking
  <2>1. UNCHANGED posted /\ ~Editing'
    BY <1>1, <1>3 DEF StopThinking, Editing, Proceed
  <2>2. \A d \in 1 .. MaxEvents : anim'[d] \in {anim[d], "off"}
    BY <1>3, CancelOnTime DEF StopThinking, TypeInv, AnimInv
  <2>3. QED
    BY <1>2, <2>1, <2>2, AnimatedFrame
<1>4. CASE DeleteStop \/ DeletePlaceholder
  <2>1. UNCHANGED <<posted, anim>> /\ (Editing' => Editing /\ sending'.mid = sending.mid)
    BY <1>1, <1>4 DEF DeleteStop, DeletePlaceholder, Editing, Proceed, Sending
  <2>2. QED
    BY <1>2, <2>1, AnimatedFrame
<1>5. CASE LoadPlaceholder
  <2>1. UNCHANGED <<posted, anim>> /\ (Editing' => sending'.mid = placeholder /\ placeholder # 0)
    BY <1>1, <1>5 DEF LoadPlaceholder, Editing, telegramVars
  <2>2. placeholder # 0 => \A d \in 1 .. MaxEvents : anim[d] \in {"run", "edit"} => mid[d] # placeholder
    BY <1>5 DEF LoadPlaceholder, Disturb, Noted, Unfailed, Animated, TypeInv, AnimInv
  <2>3. ASSUME NEW c \in 1 .. MaxEvents
        PROVE  /\ anim[c] # "late"
               /\ anim[c] = "ready" => c \in DOMAIN events /\ events[c].at \in {"thinking", "posted"}
               /\ anim[c] \in {"run", "edit"} =>
                    /\ mid[c] \in DOMAIN posted /\ posted[mid[c]].id = 0
                    /\ Editing' => mid[c] # sending'.mid
    BY <2>1, <2>2 DEF AnimatedInv
  <2>4. QED
    BY <1>2, <2>1, <2>3 DEF AnimatedInv
<1>6. CASE EditPlaceholder
  <2>1. UNCHANGED anim /\ ~Editing' /\ Editing /\ posted' = [posted EXCEPT ![sending.mid] = Text]
    BY <1>6 DEF EditPlaceholder, Editing, Sending, Idle, telegramVars
  <2>2. \A p \in DOMAIN posted : p \in DOMAIN posted' /\ (posted'[p] = posted[p] \/ p = sending.mid)
    BY <1>1, <2>1
  <2>3. QED
    BY <1>2, <2>1, <2>2, AnimatedFrame
<1>7. CASE PostAnswer
  <2>1. UNCHANGED anim /\ ~Editing' /\ posted' = Append(posted, Text)
    BY <1>7 DEF PostAnswer, Editing, Show, Text, Idle, telegramVars
  <2>2. Text \in PostOf
    BY <1>1 DEF Text, TextOf, PostOf
  <2>3. \A p \in DOMAIN posted : p \in DOMAIN posted' /\ posted'[p] = posted[p]
    BY <1>1, <2>1, <2>2, AppendProperties
  <2>4. QED
    BY <1>2, <2>1, <2>3, AnimatedFrame
<1>8. QED
  BY <1>3, <1>4, <1>5, <1>6, <1>7 DEF TelegramSend

LEMMA AnimatedStep ==
  ASSUME TypeInv, WayInv, PlaceInv, BotInv, AnimatedInv, [Next]_vars
  PROVE  AnimatedInv'
<1>. SUFFICES ASSUME channel = "telegram", Unfailed' PROVE AnimatedInv'
  BY ChannelStays DEF AnimatedInv
<1>1. Unfailed /\ ~Fault /\ channel' = channel
  BY UnfailedStays, NoFault, ChannelStays
<1>2. CASE Aloof
  BY <1>1, <1>2, AnimatedFrame DEF Aloof, telegramVars, Editing
<1>3. CASE Stop
  <2>1. UNCHANGED <<events, sending, posted, mid>> /\ \A d \in 1 .. MaxEvents : anim'[d] \in {anim[d], "off"}
    BY <1>3 DEF Stop, Stopping, StopTelegram, TypeInv, AnimInv
  <2>2. QED
    BY <1>1, <2>1, AnimatedFrame DEF Editing
<1>4. CASE UNCHANGED telegramVars /\ (Respond \/ SendJobText(0))
  BY <1>1, <1>4, AnimatedFrame DEF Respond, SendJobText, JobText, telegramVars, Editing
<1>5. CASE UNCHANGED telegramVars /\ (Take \/ Lookup)
  <2>1. UNCHANGED <<events, posted, anim, mid>>
    BY <1>5 DEF Take, Lookup, telegramVars
  <2>2. ~Editing'
    <3>1. CASE Take
      BY <3>1 DEF Take, Editing, Idle
    <3>2. CASE Lookup
      BY <3>2 DEF Lookup, Editing, Idle, TypeInv, SendInv
    <3>3. QED
      BY <1>5, <3>1, <3>2
  <2>3. QED
    BY <1>1, <2>1, <2>2, AnimatedFrame
<1>6. ASSUME NEW d \in DOMAIN events, HandleMessage(d), UNCHANGED telegramVars PROVE AnimatedInv'
  <2>1. UNCHANGED <<sending, posted, anim, mid>> /\ events[d].at = "ready"
    BY <1>6 DEF HandleMessage, telegramVars
  <2>2. DOMAIN events' = DOMAIN events /\ \A c \in DOMAIN events : c # d => events'[c] = events[c]
    BY <1>6, HandleEffect, MoveEffect DEF TypeInv, QueueInv
  <2>3. QED
    BY <1>1, <2>1, <2>2, AnimatedFrame DEF Editing
<1>7. ASSUME NEW allowed \in BOOLEAN, HandleTelegram(allowed) PROVE AnimatedInv'
  BY <1>1, <1>7, AnimatedArrive
<1>8. ASSUME NEW d \in DOMAIN events, PostThinking(d) PROVE AnimatedInv'
  BY <1>1, <1>8, AnimatedPost
<1>9. ASSUME NEW d \in DOMAIN events, StorePlaceholder(d) PROVE AnimatedInv'
  BY <1>1, <1>9, AnimatedStore
<1>10. ASSUME NEW d \in Events, Animate(d) PROVE AnimatedInv'
  <2>1. /\ anim[d] \in {"run", "edit"} /\ anim'[d] \in {"run", "edit"}
        /\ \A c \in 1 .. MaxEvents : c # d => anim'[c] = anim[c]
        /\ UNCHANGED <<events, sending, posted, mid>>
    BY <1>1, <1>10, AnimateEffect
  <2>2. QED
    BY <1>1, <2>1, AnimatedFrame DEF Editing
<1>11. ASSUME NEW d \in Events, ThinkingTimeout(d) PROVE AnimatedInv'
  <2>1. /\ anim' = Cancelled(d) /\ Disturb("late", EditUnderWay(d))
        /\ UNCHANGED <<events, sending, posted, mid>> /\ d \in 0 .. MaxEvents
    BY <1>11 DEF ThinkingTimeout, Aside, Events
  <2>2. \A c \in 1 .. MaxEvents : anim'[c] \in {anim[c], "off"}
    BY <2>1, CancelOnTime DEF TypeInv
  <2>3. QED
    BY <1>1, <2>1, <2>2, AnimatedFrame DEF Editing
<1>12. QED
  BY <1>1, <1>2, <1>3, <1>4, <1>5, <1>6, <1>7, <1>8, <1>9, <1>10, <1>11, AnimatedSend, TelegramSteps

\* Send has done with a text as it shows it.
LEMMA TextShown ==
  ASSUME TypeInv, LineInv, PlaceInv, [Next]_vars, ~Fault, WayInv, Unfailed, EditPlaceholder \/ PostAnswer
  PROVE  /\ Done' = Done + 1 /\ Text.id = Done + 1 /\ Text \in PostOf /\ sending' = Idle
         /\ UNCHANGED <<events, inbox, outbox, given, placeholder, untidy>>
         /\ \/ /\ EditPlaceholder /\ sending.at = "edit" /\ posted' = [posted EXCEPT ![sending.mid] = Text]
               /\ sending.mid \in DOMAIN posted /\ posted[sending.mid].id = 0
            \/ PostAnswer /\ sending.at = "post" /\ posted' = Append(posted, Text)
<1>1. sending.at \in {"edit", "post"} /\ sending' = Idle /\ UNCHANGED <<events, inbox, outbox, given, placeholder, untidy>>
  BY DEF EditPlaceholder, PostAnswer, Sending, InSend, telegramVars, WayInv
<1>2. Leaves
  BY <1>1 DEF Leaves
<1>3. Text.id = Done + 1 /\ Text \in PostOf
  BY <1>1 DEF Text, LineInv, Done, TypeInv, SendInv, TextOf, PostOf
<1>4. CASE EditPlaceholder
  <2>1. sending.at = "edit" /\ posted' = [posted EXCEPT ![sending.mid] = Text]
    BY <1>4 DEF EditPlaceholder, Sending
  <2>2. sending.mid \in DOMAIN posted /\ posted[sending.mid].id = 0
    BY <2>1 DEF PlaceInv, Editing, TypeInv, PostInv, SendInv
  <2>3. QED
    BY <1>1, <1>2, <1>3, <1>4, <2>1, <2>2, DoneAfter
<1>5. CASE PostAnswer
  <2>1. sending.at = "post" /\ posted' = Append(posted, Text)
    BY <1>1, <1>5 DEF PostAnswer, Show, Text, Sending
  <2>2. QED
    BY <1>1, <1>2, <1>3, <1>5, <2>1, DoneAfter
<1>6. QED
  BY <1>4, <1>5

\* The other steps show no text.
LEMMA TextKept ==
  ASSUME TypeInv, LineInv, WayInv, BotInv, AnimatedInv, [Next]_vars, channel = "telegram", Unfailed',
         ~EditPlaceholder, ~PostAnswer
  PROVE  /\ Done' = Done
         /\ \/ UNCHANGED posted
            \/ \E d \in DOMAIN events : PostThinking(d) /\ posted' = Append(posted, Thinking)
<1>1. Unfailed /\ ~Fault
  BY UnfailedStays, NoFault
<1>2. ASSUME ~Leaves PROVE Done' = Done
  BY <1>2, DoneAfter, LineSteps
<1>3. ASSUME UNCHANGED sending \/ sending'.at # "idle" PROVE Done' = Done
  BY <1>2, <1>3 DEF Leaves, Idle
<1>4. ASSUME \/ Aloof
             \/ Stop
             \/ Respond \/ SendJobText(0)
             \/ \E d \in DOMAIN events : HandleMessage(d) \/ StorePlaceholder(d)
             \/ \E d \in Events : ThinkingTimeout(d)
      PROVE  UNCHANGED <<sending, posted>>
  BY <1>4 DEF Aloof, Stop, Stopping, Respond, SendJobText, JobText, HandleMessage, StorePlaceholder,
              ThinkingTimeout, Aside
<1>5. ASSUME NEW d \in Events, Animate(d) PROVE UNCHANGED <<sending, posted>>
  BY <1>1, <1>5, AnimateEffect
<1>6. ASSUME NEW allowed \in BOOLEAN, HandleTelegram(allowed) PROVE UNCHANGED <<sending, posted>>
  BY <1>6 DEF HandleTelegram
<1>7. ASSUME NEW d \in DOMAIN events, PostThinking(d)
      PROVE  UNCHANGED sending /\ posted' = Append(posted, Thinking)
  BY <1>1, <1>7 DEF PostThinking
<1>8. ASSUME Take PROVE UNCHANGED posted /\ sending'.at # "idle"
  BY <1>8 DEF Take, Idle
<1>9. ASSUME Lookup PROVE UNCHANGED posted /\ sending'.at # "idle"
  <2>1. running
    BY <1>1, <1>9 DEF Lookup, TypeInv, PhaseInv, Unfailed
  <2>2. QED
    BY <1>9, <2>1 DEF Lookup, TypeInv, SendInv
<1>10. ASSUME TelegramSend PROVE UNCHANGED posted /\ sending'.at # "idle"
  <2>1. StopThinking \/ DeleteStop \/ LoadPlaceholder \/ DeletePlaceholder
    BY <1>10 DEF TelegramSend
  <2>2. sending \in [at : Places, text : TextOf, mid : Nat]
    BY DEF TypeInv, SendInv
  <2>3. QED
    BY <2>1, <2>2 DEF StopThinking, DeleteStop, LoadPlaceholder, DeletePlaceholder, Proceed
<1>11. QED
  BY <1>1, <1>3, <1>4, <1>5, <1>6, <1>7, <1>8, <1>9, <1>10, TelegramSteps

LEMMA OnceShownStep ==
  ASSUME TypeInv, LineInv, WayInv, PlaceInv, BotInv, AnimatedInv, OnceShown, [Next]_vars
  PROVE  OnceShown'
<1>. SUFFICES ASSUME channel = "telegram", Unfailed' PROVE OnceShown'
  BY ChannelStays DEF OnceShown
<1>1. Unfailed /\ ~Fault /\ channel' = channel /\ Done \in Nat /\ posted \in Seq(PostOf)
  BY UnfailedStays, NoFault, ChannelStays, ThroughFits DEF TypeInv, PostInv
<1>2. /\ \A p \in DOMAIN posted : posted[p].id \in 0 .. Done
      /\ \A n \in 1 .. Done : \E p \in DOMAIN posted : posted[p].id = n
      /\ \A p, q \in DOMAIN posted : posted[p].id = posted[q].id /\ posted[p].id # 0 => p = q
  BY <1>1 DEF OnceShown
<1>3. CASE Done' = Done /\ UNCHANGED posted
  BY <1>1, <1>2, <1>3 DEF OnceShown
<1>4. CASE Done' = Done /\ posted' = Append(posted, Thinking)
  <2>1. Thinking \in PostOf /\ Thinking.id = 0
    BY DEF Thinking, PostOf
  <2>2. /\ DOMAIN posted' = DOMAIN posted \cup {Len(posted) + 1} /\ posted'[Len(posted) + 1] = Thinking
        /\ \A p \in DOMAIN posted : posted'[p] = posted[p]
    BY <1>1, <1>4, <2>1, AppendProperties
  <2>3. /\ \A p \in DOMAIN posted' : posted'[p].id \in 0 .. Done
        /\ \A n \in 1 .. Done : \E p \in DOMAIN posted' : posted'[p].id = n
        /\ \A p, q \in DOMAIN posted' : posted'[p].id = posted'[q].id /\ posted'[p].id # 0 => p = q
    BY <1>1, <1>2, <2>1, <2>2
  <2>4. QED
    BY <1>4, <2>3 DEF OnceShown
<1>5. ASSUME Done' = Done + 1, Text.id = Done + 1, NEW last,
             DOMAIN posted' = DOMAIN posted \cup {last}, posted'[last] = Text,
             \A p \in DOMAIN posted : p # last => posted'[p] = posted[p],
             last \in DOMAIN posted => posted[last].id = 0
      PROVE  OnceShown'
  <2>1. \A p \in DOMAIN posted' : posted'[p].id \in 0 .. Done'
    BY <1>1, <1>2, <1>5
  <2>2. \A n \in 1 .. Done : n # 0 /\ \E p \in DOMAIN posted : p # last /\ posted[p].id = n
    BY <1>1, <1>2, <1>5
  <2>3. \A n \in 1 .. Done' : n \in 1 .. Done \/ n = Done + 1
    BY <1>1, <1>5
  <2>4. \A n \in 1 .. Done' : \E p \in DOMAIN posted' : posted'[p].id = n
    BY <1>5, <2>2, <2>3
  <2>5. \A p \in DOMAIN posted : p # last => posted'[p].id # Done + 1
    BY <1>1, <1>2, <1>5
  <2>6. \A p, q \in DOMAIN posted' : posted'[p].id = posted'[q].id /\ posted'[p].id # 0 => p = q
    BY <1>2, <1>5, <2>5
  <2>7. QED
    BY <2>1, <2>4, <2>6 DEF OnceShown
<1>6. CASE EditPlaceholder \/ PostAnswer
  <2>1. Done' = Done + 1 /\ Text.id = Done + 1 /\ Text \in PostOf
    BY <1>1, <1>6, TextShown
  <2>2. \E last : /\ DOMAIN posted' = DOMAIN posted \cup {last} /\ posted'[last] = Text
                  /\ \A p \in DOMAIN posted : p # last => posted'[p] = posted[p]
                  /\ last \in DOMAIN posted => posted[last].id = 0
    <3>1. CASE /\ posted' = [posted EXCEPT ![sending.mid] = Text]
               /\ sending.mid \in DOMAIN posted /\ posted[sending.mid].id = 0
      BY <1>1, <3>1
    <3>2. CASE posted' = Append(posted, Text)
      <4>1. /\ DOMAIN posted' = DOMAIN posted \cup {Len(posted) + 1} /\ posted'[Len(posted) + 1] = Text
            /\ Len(posted) + 1 \notin DOMAIN posted
            /\ \A p \in DOMAIN posted : posted'[p] = posted[p]
        BY <1>1, <2>1, <3>2, AppendProperties
      <4>2. QED
        BY <4>1
    <3>3. QED
      BY <1>1, <1>6, <3>1, <3>2, TextShown
  <2>3. QED
    BY <1>5, <2>1, <2>2
<1>7. QED
  BY <1>3, <1>4, <1>6, TextKept

LEMMA OrderFrame ==
  ASSUME OrderInv, channel = "telegram", faults = 0, untidy = {}, UNCHANGED <<channel, posted>>, Done' = Done,
         Active' # {} => sending'.at = "idle",
         Shy => Shy',
         sending'.at = "post" => placeholder' = 0,
         \A d \in DOMAIN events' : events'[d].at = "thinking" => Len(posted) = Done
  PROVE  OrderInv'
BY DEF OrderInv

\* While Send has a text there is no handler.
LEMMA SendAlone ==
  ASSUME OrderInv, channel = "telegram", faults = 0, untidy = {}, sending.at # "idle"
  PROVE  /\ Active = {}
         /\ \A d \in DOMAIN events : events[d].at \notin {"thinking", "posted"}
         /\ Shy => Editing \/ placeholder # 0
BY DEF OrderInv, Active, Shy

LEMMA OrderSend ==
  ASSUME TypeInv, LineInv, WayInv, PlaceInv, OrderInv, channel = "telegram", faults = 0, untidy = {},
         Unfailed', ~Fault, UNCHANGED channel, [Next]_vars, TelegramSend,
         EditPlaceholder \/ PostAnswer \/ Done' = Done
  PROVE  OrderInv'
<1>1. /\ sending \in [at : Places, text : TextOf, mid : Nat] /\ posted \in Seq(PostOf)
      /\ Done \in Nat /\ Len(posted) \in Nat /\ DOMAIN posted = 1 .. Len(posted)
  BY ThroughFits DEF TypeInv, SendInv, PostInv
<1>2. UNCHANGED events /\ sending.at # "idle" /\ Unfailed
  BY DEF TelegramSend, StopThinking, DeleteStop, LoadPlaceholder, DeletePlaceholder, EditPlaceholder,
         PostAnswer, InSend, Sending, Unfailed
<1>3. /\ Active' = {} /\ Active = {}
      /\ \A d \in DOMAIN events' : events'[d].at \notin {"thinking", "posted"}
      /\ Shy => Editing \/ placeholder # 0
  BY <1>2, SendAlone DEF Active
<1>4. CASE StopThinking \/ DeleteStop
  <2>1. /\ UNCHANGED <<posted, placeholder>> /\ sending'.at \in {"load", "unstop"}
        /\ sending.at \in {"send", "unstop"}
    BY <1>1, <1>4 DEF StopThinking, DeleteStop, Proceed, Sending
  <2>2. Done' = Done
    BY <1>2, <2>1 DEF EditPlaceholder, PostAnswer, Sending
  <2>3. Shy => Shy'
    BY <1>3, <2>1 DEF Shy, Editing
  <2>4. QED
    BY <1>3, <2>1, <2>2, <2>3, OrderFrame
<1>5. CASE LoadPlaceholder
  <2>1. /\ UNCHANGED <<posted, placeholder>> /\ sending.at = "load"
        /\ \/ placeholder = 0 /\ sending'.at = "post"
           \/ placeholder # 0 /\ sending'.at = "unplace"
    BY <1>1, <1>5 DEF LoadPlaceholder, Sending, telegramVars
  <2>2. Done' = Done
    BY <2>1 DEF EditPlaceholder, PostAnswer, Sending
  <2>3. Shy => Shy'
    BY <1>3, <2>1 DEF Shy, Editing
  <2>4. QED
    BY <1>3, <2>1, <2>2, <2>3, OrderFrame
<1>6. CASE DeletePlaceholder
  <2>1. UNCHANGED posted /\ sending.at = "unplace" /\ sending'.at = "edit"
    BY <1>1, <1>6 DEF DeletePlaceholder, Proceed, Sending
  <2>2. Done' = Done
    BY <2>1 DEF EditPlaceholder, PostAnswer, Sending
  <2>3. Shy'
    BY <2>1 DEF Shy, Editing
  <2>4. QED
    BY <1>3, <2>1, <2>2, <2>3, OrderFrame
<1>7. CASE EditPlaceholder \/ PostAnswer
  <2>1. Done' = Done + 1 /\ Text.id = Done + 1 /\ Text \in PostOf /\ sending' = Idle
    BY <1>2, <1>7, TextShown
  <2>2. /\ \A p \in DOMAIN posted : posted[p].id = IF p =< Done THEN p ELSE 0
        /\ Len(posted) \in {Done, Done + 1}
        /\ Len(posted) = Done + 1 => Shy
    BY DEF OrderInv
  <2>3. /\ posted' \in Seq(PostOf) /\ Len(posted') = Done + 1
        /\ \A p \in DOMAIN posted' : posted'[p].id = p
    <3>1. CASE /\ posted' = [posted EXCEPT ![sending.mid] = Text]
               /\ sending.mid \in DOMAIN posted /\ posted[sending.mid].id = 0
      <4>1. sending.mid = Done + 1 /\ Len(posted) = Done + 1
        <5>1. PICK m \in DOMAIN posted : m = sending.mid
          BY <3>1
        <5>2. m \in Nat /\ m =< Len(posted) /\ ~(m =< Done)
          <6>1. posted[m].id = 0 /\ posted[m].id = IF m =< Done THEN m ELSE 0
            BY <2>2, <3>1, <5>1
          <6>2. m \in Nat /\ m # 0 /\ m =< Len(posted)
            BY <1>1
          <6>3. QED
            BY <6>1, <6>2
        <5>3. Len(posted) = Done \/ Len(posted) = Done + 1
          BY <2>2
        <5>4. Done \in Nat /\ Len(posted) \in Nat
          BY <1>1
        <5>5. m = Done + 1 /\ Len(posted) = Done + 1
          BY <5>2, <5>3, <5>4
        <5>6. QED
          BY <5>1, <5>5
      <4>2. posted' \in Seq(PostOf) /\ Len(posted') = Len(posted) /\ DOMAIN posted' = DOMAIN posted
        BY <1>1, <2>1, <3>1, ExceptSeq
      <4>3. \A p \in DOMAIN posted : posted'[p].id = IF p = Done + 1 THEN Done + 1 ELSE posted[p].id
        BY <1>1, <2>1, <3>1, <4>1
      <4>4. QED
        BY <1>1, <2>2, <4>1, <4>2, <4>3
    <3>2. CASE posted' = Append(posted, Text) /\ sending.at = "post"
      <4>1. Len(posted) = Done
        BY <1>3, <2>2, <3>2 DEF OrderInv, Editing
      <4>2. /\ posted' \in Seq(PostOf) /\ Len(posted') = Done + 1 /\ DOMAIN posted' = 1 .. Done + 1
            /\ posted'[Done + 1] = Text /\ \A p \in DOMAIN posted : posted'[p] = posted[p]
        BY <1>1, <2>1, <3>2, <4>1, AppendProperties
      <4>3. QED
        BY <1>1, <2>1, <2>2, <4>1, <4>2
    <3>3. QED
      BY <1>2, <1>7, <3>1, <3>2, TextShown
  <2>4. /\ Len(posted') \in {Done', Done' + 1} /\ Len(posted') # Done' + 1
        /\ \A p \in DOMAIN posted' : posted'[p].id = IF p =< Done' THEN p ELSE 0
    BY <1>1, <2>1, <2>3
  <2>5. sending'.at = "idle"
    BY <2>1 DEF Idle
  <2>6. QED
    BY <1>3, <2>4, <2>5 DEF OrderInv
<1>8. QED
  BY <1>4, <1>5, <1>6, <1>7 DEF TelegramSend

\* A message comes when all is quiet, so that no placeholder is left.
LEMMA OrderArrive ==
  ASSUME TypeInv, LineInv, OrderInv, channel = "telegram", faults = 0, untidy = {}, untidy' = {},
         UNCHANGED channel, Done' = Done, NEW allowed \in BOOLEAN, HandleTelegram(allowed)
  PROVE  OrderInv'
<1>. DEFINE d == Len(events) + 1
<1>1. /\ Active = {} /\ d \notin DOMAIN events /\ DOMAIN events' = DOMAIN events \cup {d}
      /\ \A c \in DOMAIN events : events'[c] = events[c]
      /\ UNCHANGED <<inbox, outbox, sending, posted, placeholder>>
      /\ events'[d].at = "dropped" \/ (events'[d].at = "thinking" /\ inbox = <<>> /\ outbox = <<>> /\ sending = Idle)
  BY TelegramArrives
<1>. HIDE DEF d
<1>2. \A c \in DOMAIN events : events[c].at \notin {"thinking", "posted"}
  BY <1>1 DEF Active
<1>3. Active' \subseteq {d}
  BY <1>1 DEF Active
<1>4. Shy => Shy'
  <2>1. Active = {} /\ \A c \in DOMAIN events' : events'[c].at # "posted"
    BY <1>1, <1>2
  <2>2. QED
    BY <1>1, <1>2, <2>1 DEF Shy, Editing
<1>5. CASE events'[d].at = "dropped"
  <2>1. Active' = {}
    BY <1>1, <1>3, <1>5 DEF Active
  <2>2. \A c \in DOMAIN events' : events'[c].at # "thinking"
    BY <1>1, <1>2, <1>5
  <2>3. sending'.at = "post" => placeholder' = 0
    BY <1>1 DEF OrderInv
  <2>4. QED
    BY <1>1, <1>4, <2>1, <2>2, <2>3, OrderFrame
<1>6. CASE inbox = <<>> /\ outbox = <<>> /\ sending = Idle
  <2>1. ~Shy
    BY <1>1, <1>2, <1>6 DEF Shy, Editing, Idle
  <2>2. Len(posted) = Done
    BY <2>1 DEF OrderInv
  <2>3. sending'.at = "idle"
    BY <1>1, <1>6 DEF Idle
  <2>4. QED
    BY <1>1, <1>4, <2>2, <2>3, OrderFrame
<1>7. QED
  BY <1>1, <1>5, <1>6

LEMMA OrderPost ==
  ASSUME TypeInv, LineInv, OrderInv, BotInv, channel = "telegram", Unfailed, faults = 0, untidy = {}, ~Fault,
         UNCHANGED channel, Done' = Done, NEW d \in DOMAIN events, PostThinking(d)
  PROVE  OrderInv'
<1>. DEFINE p == Len(posted) + 1
<1>1. /\ events[d].at = "thinking" /\ Moves(d, "posted")
      /\ p \notin DOMAIN posted /\ DOMAIN posted' = DOMAIN posted \cup {p}
      /\ posted'[p] = Thinking /\ \A q \in DOMAIN posted : posted'[q] = posted[q]
      /\ Len(posted') = p /\ UNCHANGED sending
  BY ThinkingPosted
<1>2. /\ DOMAIN events' = DOMAIN events /\ events'[d].at = "posted"
      /\ \A c \in DOMAIN events : c # d => events'[c] = events[c]
  BY <1>1, MoveEffect DEF TypeInv, QueueInv
<1>3. Len(posted) = Done /\ Done \in Nat /\ sending.at = "idle"
  BY <1>1, ThroughFits DEF OrderInv, Active
<1>4. \A c \in DOMAIN events' : events'[c].at # "thinking"
  <2>1. \A c \in DOMAIN events : events[c].at = "thinking" => c = d
    BY <1>1 DEF BotInv, Active
  <2>2. QED
    BY <1>2, <2>1
<1>5. Shy'
  BY <1>2 DEF Shy
<1>6. \A q \in DOMAIN posted' : posted'[q].id = IF q =< Done THEN q ELSE 0
  BY <1>1, <1>3 DEF OrderInv, Thinking
<1>7. QED
  BY <1>1, <1>3, <1>4, <1>5, <1>6 DEF OrderInv

LEMMA OrderStep ==
  ASSUME TypeInv, LineInv, WayInv, PlaceInv, BotInv, AnimatedInv, OrderInv, [Next]_vars
  PROVE  OrderInv'
<1>. SUFFICES ASSUME channel = "telegram", faults' = 0, untidy' = {} PROVE OrderInv'
  BY ChannelStays DEF OrderInv
<1>1. /\ faults = 0 /\ untidy = {} /\ Unfailed /\ Unfailed' /\ ~Fault /\ channel' = channel
  BY HistoryStays, NoFault, ChannelStays DEF Unfailed
<1>2. /\ Active # {} => sending.at = "idle"
      /\ sending.at = "post" => placeholder = 0
      /\ \A d \in DOMAIN events : events[d].at = "thinking" => Len(posted) = Done
  BY <1>1 DEF OrderInv
<1>3. ~EditPlaceholder /\ ~PostAnswer => Done' = Done
  BY <1>1, TextKept
<1>4. sending.at \in {"idle", "lookup", "send"} => ~EditPlaceholder /\ ~PostAnswer
  BY DEF EditPlaceholder, PostAnswer, Sending
<1>5. UNCHANGED sending \/ ~UNCHANGED events => ~EditPlaceholder /\ ~PostAnswer
  <2>1. EditPlaceholder \/ PostAnswer => sending.at # "idle" /\ sending'.at = "idle" /\ UNCHANGED events
    BY <1>1, TextShown DEF Idle, EditPlaceholder, PostAnswer, Sending
  <2>2. QED
    BY <2>1
<1>6. ASSUME UNCHANGED <<events, inbox, outbox, sending, posted, placeholder>> PROVE OrderInv'
  <2>1. Active' = Active /\ Shy' = Shy
    BY <1>6 DEF Active, Shy, Editing
  <2>2. QED
    BY <1>1, <1>2, <1>3, <1>5, <1>6, <2>1, OrderFrame
<1>7. CASE \/ Aloof
           \/ Stop
           \/ \E d \in Events : ThinkingTimeout(d)
  BY <1>6, <1>7 DEF Aloof, telegramVars, Stop, Stopping, ThinkingTimeout, Aside
<1>8. ASSUME NEW d \in Events, Animate(d) PROVE OrderInv'
  BY <1>1, <1>6, <1>8, AnimateEffect
<1>9. CASE UNCHANGED telegramVars /\ (Respond \/ SendJobText(0))
  <2>1. UNCHANGED <<events, sending, posted, placeholder>> /\ \E chat, of : Give(chat, of)
    BY <1>9 DEF Respond, SendJobText, JobText, telegramVars
  <2>2. outbox' # <<>>
    <3>1. PICK text : outbox' = Append(outbox, text)
      BY <2>1 DEF Give
    <3>2. outbox \in Seq(TextOf)
      BY DEF TypeInv, QueueInv, OutboxInv
    <3>3. QED
      BY <3>1, <3>2
  <2>3. Active' = Active /\ (Shy => Shy')
    BY <2>1, <2>2 DEF Active, Shy, Editing
  <2>4. QED
    BY <1>1, <1>2, <1>3, <1>5, <2>1, <2>3, OrderFrame
<1>10. CASE UNCHANGED telegramVars /\ Take
  <2>1. UNCHANGED <<events, posted, placeholder>> /\ sending.at = "idle" /\ sending'.at = "lookup"
    BY <1>10 DEF Take, telegramVars, Idle
  <2>2. Active = {}
    BY <1>10 DEF Take, Disturb, Noted
  <2>3. Active' = {} /\ \A d \in DOMAIN events : events[d].at \notin {"posted", "thinking"}
    BY <2>1, <2>2 DEF Active
  <2>4. Shy => Shy'
    BY <2>1, <2>2, <2>3 DEF Shy, Editing
  <2>5. QED
    BY <1>1, <1>2, <1>3, <1>4, <2>1, <2>3, <2>4, OrderFrame
<1>11. CASE UNCHANGED telegramVars /\ Lookup
  <2>1. running
    BY <1>1, <1>11 DEF Lookup, TypeInv, PhaseInv
  <2>2. UNCHANGED <<events, posted, placeholder>> /\ sending.at = "lookup" /\ sending'.at = "send"
    BY <1>11, <2>1 DEF Lookup, telegramVars, TypeInv, SendInv
  <2>3. /\ Active = {} /\ \A d \in DOMAIN events : events[d].at \notin {"thinking", "posted"}
        /\ Shy => placeholder # 0
    BY <1>1, <2>2, SendAlone DEF Editing
  <2>4. Shy => Shy'
    BY <2>2, <2>3 DEF Shy
  <2>5. QED
    BY <1>1, <1>2, <1>3, <1>4, <2>2, <2>3, <2>4, OrderFrame DEF Active
<1>12. ASSUME NEW d \in DOMAIN events, HandleMessage(d), UNCHANGED telegramVars PROVE OrderInv'
  <2>1. UNCHANGED <<outbox, sending, posted, placeholder>> /\ events[d].at = "ready"
    BY <1>12 DEF HandleMessage, telegramVars
  <2>2. inbox' = Append(inbox, d) /\ Moves(d, "published")
    <3>1. events[d].allowed /\ ~events[d].empty
      BY <1>1, <2>1 DEF BotInv
    <3>2. QED
      BY <1>12, <3>1 DEF HandleMessage, Moves
  <2>3. /\ DOMAIN events' = DOMAIN events /\ events'[d].at = "published"
        /\ \A c \in DOMAIN events : c # d => events'[c] = events[c]
    BY <2>2, MoveEffect DEF TypeInv, QueueInv
  <2>4. inbox' # <<>>
    <3>1. inbox \in Seq(Nat) /\ d \in Nat
      BY DEF TypeInv, QueueInv, InboxInv, EventsInv
    <3>2. Len(inbox') = Len(inbox) + 1 /\ Len(inbox) \in Nat
      BY <2>2, <3>1, AppendProperties
    <3>3. QED
      BY <3>2
  <2>5. Active' \subseteq Active
    BY <2>3 DEF Active
  <2>6. Shy => Shy'
    BY <2>1, <2>3, <2>4 DEF Shy, Editing
  <2>7. \A c \in DOMAIN events' : events'[c].at = "thinking" => Len(posted) = Done
    BY <1>2, <2>3
  <2>8. Done' = Done
    BY <1>3, <1>5, <2>1
  <2>9. QED
    BY <1>1, <1>2, <2>1, <2>5, <2>6, <2>7, <2>8, OrderFrame
<1>13. ASSUME NEW allowed \in BOOLEAN, HandleTelegram(allowed) PROVE OrderInv'
  <2>1. Done' = Done
    BY <1>3, <1>5, <1>13 DEF HandleTelegram
  <2>2. QED
    BY <1>1, <1>13, <2>1, OrderArrive
<1>14. ASSUME NEW d \in DOMAIN events, PostThinking(d) PROVE OrderInv'
  <2>1. Done' = Done
    BY <1>3, <1>5, <1>14 DEF PostThinking
  <2>2. QED
    BY <1>1, <1>14, <2>1, OrderPost
<1>15. ASSUME NEW d \in DOMAIN events, StorePlaceholder(d) PROVE OrderInv'
  <2>1. /\ UNCHANGED <<inbox, outbox, sending, posted>> /\ events[d].at = "posted" /\ placeholder' = mid[d]
        /\ Moves(d, "ready")
    BY <1>15 DEF StorePlaceholder, Moves
  <2>2. /\ DOMAIN events' = DOMAIN events /\ events'[d].at = "ready"
        /\ \A c \in DOMAIN events : c # d => events'[c] = events[c]
    BY <2>1, MoveEffect DEF TypeInv, QueueInv
  <2>3. mid[d] # 0 /\ d \in Active /\ d \in Active'
    BY <2>1, <2>2 DEF PlaceInv, TypeInv, PostInv, Active
  <2>4. sending.at = "idle" /\ Shy'
    BY <1>2, <2>1, <2>3 DEF Shy
  <2>5. \A c \in DOMAIN events' : events'[c].at # "thinking"
    <3>1. \A c \in DOMAIN events : events[c].at = "thinking" => c = d
      BY <1>1, <2>3 DEF BotInv, Active
    <3>2. QED
      BY <2>2, <3>1
  <2>6. QED
    BY <1>1, <1>3, <1>5, <2>1, <2>4, <2>5, OrderFrame
<1>16. CASE TelegramSend
  BY <1>1, <1>3, <1>16, OrderSend
<1>17. QED
  BY <1>1, <1>7, <1>8, <1>9, <1>10, <1>11, <1>12, <1>13, <1>14, <1>15, <1>16, TelegramSteps

\* When all is quiet Send has done with every text.
LEMMA DeliveredImplied ==
  TypeInv /\ LineInv /\ ShownInv /\ BotInv /\ OnceShown /\ OrderInv => Delivered
<1>. SUFFICES ASSUME TypeInv, LineInv, ShownInv, BotInv, OnceShown, OrderInv, Calm, "late" \notin untidy
              PROVE  LET Seen == {p \in DOMAIN posted : posted[p].id = 0 \/ Owed(given[posted[p].id])}
                     IN  /\ \A text \in ToSet(given) : Owed(text) =>
                              \E p \in Seen : /\ posted[p] = [chat |-> text.chat, id |-> text.id]
                                              /\ \A q \in Seen : posted[q].id = text.id => q = p
                         /\ channel # "telegram" \/ untidy = {} =>
                              \A p, q \in Seen : posted[p].id # 0 /\ (p < q => posted[p].id < posted[q].id)
  BY DEF Delivered
<1>. DEFINE Seen == {p \in DOMAIN posted : posted[p].id = 0 \/ Owed(given[posted[p].id])}
<1>1. /\ Unfailed /\ faults = 0 /\ Active = {} /\ inbox = <<>> /\ outbox = <<>> /\ sending.at = "idle" /\ ~Editing
  BY DEF Calm, Quiet, Unfailed, Idle, Editing
<1>2. /\ Done = Len(given) /\ Through = Len(given) /\ Len(given) \in Nat /\ DOMAIN given = 1 .. Len(given)
      /\ posted \in Seq(PostOf) /\ DOMAIN posted = 1 .. Len(posted) /\ Len(posted) \in Nat
  BY <1>1, ThroughFits DEF Done, Through, TypeInv, PostInv
<1>3. \A i \in DOMAIN given : given[i].id = i
  BY DEF TypeInv, QueueInv, GivenInv
<1>4. ASSUME NEW n \in DOMAIN given, Owed(given[n]),
             NEW p \in DOMAIN posted, posted[p].id = n, posted[p].chat = given[n].chat,
             \A q \in DOMAIN posted : posted[q].id = n => q = p
      PROVE  \E s \in Seen : /\ posted[s] = [chat |-> given[n].chat, id |-> given[n].id]
                             /\ \A q \in Seen : posted[q].id = given[n].id => q = s
  <2>1. posted[p] = [chat |-> given[n].chat, id |-> given[n].id]
    <3>1. posted[p] \in PostOf
      BY <1>2
    <3>2. QED
      BY <1>3, <1>4, <3>1 DEF PostOf
  <2>2. p \in Seen
    BY <1>4
  <2>3. QED
    BY <1>3, <1>4, <2>1, <2>2
<1>5. ASSUME NEW n \in DOMAIN given, Owed(given[n])
      PROVE  \E p \in DOMAIN posted : /\ posted[p].id = n /\ posted[p].chat = given[n].chat
                                      /\ \A q \in DOMAIN posted : posted[q].id = n => q = p
  <2>1. CASE channel # "telegram"
    <3>1. /\ \A p \in DOMAIN posted : posted[p].chat = given[posted[p].id].chat
          /\ \A p, q \in DOMAIN posted : p < q => posted[p].id < posted[q].id
      BY <1>1, <2>1 DEF ShownInv
    <3>2. PICK p \in DOMAIN posted : posted[p].id = n
      BY <1>1, <1>2, <1>5, <2>1 DEF ShownInv
    <3>3. ASSUME NEW q \in DOMAIN posted, posted[q].id = n PROVE q = p
      <4>1. ~(q < p) /\ ~(p < q)
        BY <1>2, <3>1, <3>2, <3>3
      <4>2. QED
        BY <1>2, <4>1
    <3>4. QED
      BY <3>1, <3>2, <3>3
  <2>2. CASE channel = "telegram"
    <3>1. PICK p \in DOMAIN posted : posted[p].id = n
      BY <1>1, <1>2, <2>2 DEF OnceShown
    <3>2. posted[p].chat = 0 /\ given[n].chat = 0 /\ n # 0
      BY <1>1, <1>2, <2>2 DEF BotInv
    <3>3. \A q \in DOMAIN posted : posted[q].id = n => q = p
      BY <1>1, <2>2, <3>1, <3>2 DEF OnceShown
    <3>4. QED
      BY <3>1, <3>2, <3>3
  <2>3. QED
    BY <2>1, <2>2
<1>6. \A text \in ToSet(given) : \E n \in DOMAIN given : text = given[n]
  BY DEF ToSet
<1>7. \A text \in ToSet(given) : Owed(text) =>
        \E p \in Seen : /\ posted[p] = [chat |-> text.chat, id |-> text.id]
                        /\ \A q \in Seen : posted[q].id = text.id => q = p
  <2>1. SUFFICES ASSUME NEW n \in DOMAIN given, Owed(given[n])
                 PROVE  \E p \in Seen : /\ posted[p] = [chat |-> given[n].chat, id |-> given[n].id]
                                        /\ \A q \in Seen : posted[q].id = given[n].id => q = p
    BY <1>6
  <2>2. QED
    BY <1>4, <1>5, <2>1
<1>8. ASSUME channel # "telegram" \/ untidy = {}
      PROVE  \A p, q \in DOMAIN posted : posted[p].id # 0 /\ (p < q => posted[p].id < posted[q].id)
  <2>1. CASE channel # "telegram"
    BY <1>1, <2>1 DEF ShownInv
  <2>2. CASE channel = "telegram" /\ untidy = {}
    <3>1. ~Shy
      BY <1>1 DEF Shy, Active
    <3>2. Len(posted) = Done /\ \A p \in DOMAIN posted : posted[p].id = IF p =< Done THEN p ELSE 0
      BY <1>1, <2>2, <3>1 DEF OrderInv
    <3>3. \A p \in DOMAIN posted : posted[p].id = p /\ p # 0
      BY <1>2, <3>2
    <3>4. QED
      BY <3>3
  <2>3. QED
    BY <1>8, <2>1, <2>2
<1>9. QED
  BY <1>7, <1>8

DeliveryInv == LineInv /\ WayInv /\ StillInv /\ ShownInv /\ BotInv /\ AnimatedInv /\ OnceShown /\ OrderInv

LEMMA DeliveryInit == Init => DeliveryInv
<1>. SUFFICES ASSUME Init PROVE DeliveryInv
  OBVIOUS
<1>. USE DEF Init, CoreInit, TelegramInit, OtherInit
<1>1. sending.at = "idle" /\ ~Editing /\ Active = {}
  BY DEF Idle, Editing, Active
<1>2. Done = 0 /\ Through = 0
  BY <1>1 DEF Done, Through
<1>3. LineInv /\ WayInv /\ StillInv
  BY <1>1, <1>2 DEF LineInv, WayInv, StillInv
<1>4. ShownInv /\ BotInv /\ AnimatedInv /\ OnceShown
  BY <1>1, <1>2 DEF ShownInv, BotInv, AnimatedInv, OnceShown
<1>5. OrderInv
  BY <1>1, <1>2 DEF OrderInv
<1>6. QED
  BY <1>3, <1>4, <1>5 DEF DeliveryInv

LEMMA DeliveryStep == IInv /\ DeliveryInv /\ [Next]_vars => DeliveryInv'
BY DoneAfter, WayStep, StillStep, ShownStep, BotStep, AnimatedStep, OnceShownStep, OrderStep
   DEF IInv, DeliveryInv

-----------------------------------------------------------------------------
(* The theorems.                                                           *)

LEMMA InvInit == Init => IInv
<1>. SUFFICES ASSUME Init PROVE IInv
  OBVIOUS
<1>1. PlaceInv
  BY DEF Init, CoreInit, TelegramInit, PlaceInv, Editing, Idle
<1>2. OnceInv
  <2>1. MessageIds = {} /\ processed = {} /\ DOMAIN events = {}
    BY DEF Init, CoreInit, OtherInit, MessageIds
  <2>2. QED
    BY <2>1 DEF OnceInv, HandledOnce
<1>3. QED
  BY <1>1, <1>2, TypeInit, AckInit DEF IInv

LEMMA InvStep == IInv /\ [Next]_vars => IInv'
BY TypeStep, PlaceStep, OnceStep, ChatStep, AckStep DEF IInv

LEMMA InvHolds == Spec => []IInv
BY InvInit, InvStep, PTL DEF Spec

LEMMA DeliveryHolds == Spec => []DeliveryInv
BY DeliveryInit, DeliveryStep, InvHolds, PTL DEF Spec

\* Texts in the pipeline were given, what was published was received, and no channel
\* knows a message of the bot that is not there, whatever the installation.
THEOREM TypeCorrect == Spec => []TypeOK
<1>1. IInv => TypeOK
  BY TypeImplied DEF IInv
<1>2. QED
  BY <1>1, InvHolds, PTL

\* Send of Telegram never edits a message that shows a text, though the handler, Send
\* and the animations take the steps of their Loads, Stores and Deletes in any order.
THEOREM TextsStayApart == Spec => TextsApart
<1>1. IInv /\ [Next]_vars =>
        [\A i \in DOMAIN posted : posted[i].id # 0 => posted'[i].id \in {posted[i].id, 0}]_vars
  BY ApartStep DEF IInv
<1>2. QED
  BY <1>1, InvHolds, PTL DEF Spec, TextsApart

\* The check marks of Slack are at the messages that were answered, in every channel
\* and thread, if messages come when their chat is idle.
THEOREM ChecksAreRight == Spec => []ChecksMatch
<1>1. IInv => ChecksMatch
  BY ChecksImplied DEF IInv
<1>2. QED
  BY <1>1, InvHolds, PTL

\* isDuplicate lets a message pass once, as long as the map holds all ids.
THEOREM DuplicatesAreDropped == Spec => []HandledOnce
<1>1. IInv => HandledOnce
  BY DEF IInv, OnceInv, HandledOnce, MessageIds
<1>2. QED
  BY <1>1, InvHolds, PTL

\* When all is quiet and nothing failed or was late, users of every channel have seen
\* every text that is owed them once and in its chat, also the texts given before the
\* channel was up, whatever overlapped; in order and with no placeholder left over if
\* nothing overlapped, and in every channel but Telegram in any case.
THEOREM TextsDelivered == Spec => []Delivered
<1>1. IInv /\ DeliveryInv => Delivered
  BY DeliveredImplied DEF IInv, DeliveryInv
<1>2. QED
  BY <1>1, InvHolds, DeliveryHolds, PTL
=============================================================================
