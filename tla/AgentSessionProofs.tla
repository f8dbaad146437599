------------------------- MODULE AgentSessionProofs -------------------------
(***************************************************************************)
(* For every number of summarizers, messages and tool calls, any limits of *)
(* a summary, and any number of crashes and failed writes: one summarizer  *)
(* works at a time, on the summary it has read; what is remembered of      *)
(* finished turns is in the file; and a summary loses no message.          *)
(***************************************************************************)
EXTENDS AgentSession, SequenceTheorems, FiniteSetTheorems, TLAPS

USE ConstantAssumption DEF ConstantAssumption

-----------------------------------------------------------------------------
(* The inductive invariant.                                                *)

Session == [messages : History, summary : SUBSET Numbers]

Turn == [at : {"idle", "reading", "read", "think", "tools", "save", "summarize"},
         call : 0 .. MaxMessages, left : 0 .. MaxTools,
         prompt : [history : History, summary : SUBSET Numbers]]

Job == [at : {"idle", "start", "taken", "set", "truncate", "save"},
        history : History, old : SUBSET Numbers, new : SUBSET Numbers]

\* The variables with the shape of their records.
TypeInv ==
  /\ messages \in History /\ summary \in SUBSET Numbers
  /\ file \in Session \cup {Torn}
  /\ last \in 0 .. MaxMessages
  /\ turn \in Turn /\ job \in [Summarizers -> Job]
  /\ summarizing \in BOOLEAN
  /\ crashes \in 0 .. MaxCrashes /\ faults \in 0 .. MaxFaults
  /\ finished \in SUBSET Numbers

\* No number is in use before it is given.
NumbersInv ==
  /\ Told(messages) \subseteq 1 .. last
  /\ file # Torn => Told(file.messages) \subseteq 1 .. last
  /\ Told(turn.prompt.history) \subseteq 1 .. last
  /\ \A g \in Summarizers : Told(job[g].history) \subseteq 1 .. last
  /\ finished \subseteq 1 .. last

\* The results that a turn waits for and those it has add up to its calls.
ToolsInv ==
  turn.at = "tools" => /\ turn.call \in 1 .. last /\ turn.left # 0
                       /\ last - turn.call + turn.left =< MaxTools

\* al.summarizing lets one summarizer in.
OneSummarizer ==
  /\ \A g, h \in Summarizers : job[g].at # "idle" /\ job[h].at # "idle" => g = h
  /\ \A g \in Summarizers : job[g].at # "idle" => summarizing

\* What a summarizer is about to write comes from what is in memory, and nobody
\* else cuts the history: as long as no message has come, it is the one that the
\* summarizer has read.
JobInv ==
  \A g \in Summarizers :
    /\ job[g].at = "taken" => Told(job[g].history) \subseteq Told(messages)
    /\ job[g].at = "set" => job[g].old = summary /\ job[g].new \subseteq Remembered

\* The file of a session whose writes have not failed.
SavedInv ==
  faults = 0 => file \in Session /\ finished \cap Remembered \subseteq Told(file.messages) \cup file.summary

\* How far the summary of g has got, if no message has come since it read the
\* history and a single call makes it.
Undisturbed(g) ==
  LET h == job[g].history IN h # <<>> /\ h[Len(h)].n = last

SingleCall(h) == Cardinality(Valid(h)) =< PartLimit

SummaryInv ==
  \A g \in Summarizers :
    LET h == job[g].history IN
    /\ job[g].at \in {"set", "truncate", "save"} => h # <<>>
    /\ job[g].at \in {"taken", "set", "truncate"} /\ Undisturbed(g) => messages = h
    /\ job[g].at = "save" /\ Undisturbed(g) => messages = Truncated(h)
    /\ job[g].at = "set" /\ SingleCall(h) => Numbered(h, Valid(h)) \subseteq job[g].new
    /\ job[g].at \in {"truncate", "save"} /\ SingleCall(h) => Numbered(h, Valid(h)) \subseteq summary

IInv == TypeInv /\ NumbersInv /\ ToolsInv /\ OneSummarizer /\ JobInv /\ SavedInv /\ SummaryInv

-----------------------------------------------------------------------------
(* Histories.                                                              *)

LEMMA HistoryIsSeq ==
  ASSUME NEW s \in History
  PROVE  s \in Seq(Message) /\ Len(s) \in Nat /\ DOMAIN s = 1 .. Len(s)
         /\ \A i \in DOMAIN s : s[i] \in Message /\ s[i].n \in Numbers
<1>1. s \in Seq(Message)
  BY DEF History
<1>2. Len(s) \in Nat /\ DOMAIN s = 1 .. Len(s) /\ \A i \in DOMAIN s : s[i] \in Message
  BY <1>1, LenProperties, ElementOfSeq
<1>3. \A m \in Message : m.n \in Numbers
  BY DEF Message
<1>4. QED
  BY <1>1, <1>2, <1>3

LEMMA EmptyHistory == <<>> \in History /\ Told(<<>>) = {}
BY DEF History, Told

\* A message with the next number goes to the end of a history.
LEMMA AppendHistory ==
  ASSUME NEW s \in History, NEW m \in Message, Told(s) \subseteq 1 .. m.n - 1
  PROVE  Append(s, m) \in History /\ Told(Append(s, m)) = Told(s) \cup {m.n}
<1>1. Append(s, m) \in Seq(Message) /\ Len(Append(s, m)) = Len(s) + 1
      /\ \A i \in 1 .. Len(s) + 1 : Append(s, m)[i] = IF i = Len(s) + 1 THEN m ELSE s[i]
  BY HistoryIsSeq, AppendProperties
<1>2. DOMAIN Append(s, m) = 1 .. Len(s) + 1
  BY <1>1, HistoryIsSeq, LenProperties
<1>3. ASSUME NEW i \in DOMAIN Append(s, m), NEW j \in DOMAIN Append(s, m), i < j
      PROVE  Append(s, m)[i].n < Append(s, m)[j].n
  <2>1. i \in DOMAIN s /\ Append(s, m)[i] = s[i] /\ s[i].n \in Told(s) /\ s[i].n \in Int
    BY <1>1, <1>2, <1>3, HistoryIsSeq DEF Told, Numbers
  <2>2. CASE j = Len(s) + 1
    <3>1. Append(s, m)[j] = m /\ m.n \in Int
      BY <1>1, <1>2, <2>2 DEF Message, Numbers
    <3>2. s[i].n \in 1 .. m.n - 1
      BY <2>1
    <3>3. QED
      BY <2>1, <3>1, <3>2
  <2>3. CASE j # Len(s) + 1
    <3>1. j \in DOMAIN s /\ Append(s, m)[j] = s[j]
      BY <1>1, <1>2, <2>3, HistoryIsSeq
    <3>2. QED
      BY <2>1, <3>1, <1>3 DEF History
  <2>4. QED
    BY <2>2, <2>3
<1>4. Told(Append(s, m)) = Told(s) \cup {m.n}
  <2>1. ASSUME NEW x \in Told(Append(s, m)) PROVE x \in Told(s) \cup {m.n}
    BY <2>1, <1>1, <1>2, HistoryIsSeq DEF Told
  <2>2. m.n \in Told(Append(s, m))
    <3>1. Len(s) + 1 \in DOMAIN Append(s, m) /\ Append(s, m)[Len(s) + 1] = m
      BY <1>1, <1>2, HistoryIsSeq
    <3>2. QED
      BY <3>1 DEF Told
  <2>3. ASSUME NEW i \in DOMAIN s PROVE s[i].n \in Told(Append(s, m))
    <3>1. i \in DOMAIN Append(s, m) /\ Append(s, m)[i] = s[i]
      BY <1>1, <1>2, HistoryIsSeq
    <3>2. QED
      BY <3>1 DEF Told
  <2>4. QED
    BY <2>1, <2>2, <2>3 DEF Told
<1>5. QED
  BY <1>1, <1>3, <1>4 DEF History

\* TruncateHistory keeps the last messages, in their order.
LEMMA TruncatedHistory ==
  ASSUME NEW s \in History
  PROVE  /\ Truncated(s) \in History /\ Told(Truncated(s)) \subseteq Told(s)
         /\ \A i \in DOMAIN s : i > Len(s) - KeepLast => s[i].n \in Told(Truncated(s))
<1>1. CASE Len(s) =< KeepLast
  BY <1>1 DEF Truncated, Told
<1>2. CASE ~(Len(s) =< KeepLast)
  <2>. DEFINE d == Len(s) - KeepLast
              t == SubSeq(s, d + 1, Len(s))
  <2>1. d \in Nat /\ Len(s) \in Nat /\ d + 1 \in 1 .. Len(s) /\ KeepLast \in Nat
    BY <1>2, HistoryIsSeq
  <2>2. /\ t \in Seq(Message) /\ Len(t) = KeepLast
        /\ \A i \in 1 .. KeepLast : t[i] = s[d + i]
    <3>1. \A i \in d + 1 .. Len(s) : s[i] \in Message
      BY <2>1, HistoryIsSeq
    <3>2. QED
      BY <2>1, <3>1, HistoryIsSeq, SubSeqProperties
  <2>3. DOMAIN t = 1 .. KeepLast
    BY <2>2, LenProperties
  <2>4. \A i \in DOMAIN t : d + i \in DOMAIN s
    BY <2>1, <2>3, HistoryIsSeq
  <2>5. \A i, j \in DOMAIN t : i < j => t[i].n < t[j].n
    <3>. SUFFICES ASSUME NEW i \in DOMAIN t, NEW j \in DOMAIN t, i < j PROVE t[i].n < t[j].n
      OBVIOUS
    <3>1. d + i \in DOMAIN s /\ d + j \in DOMAIN s /\ d + i < d + j
      BY <2>1, <2>3, <2>4
    <3>2. QED
      BY <2>2, <2>3, <3>1 DEF History
  <2>6. Told(t) \subseteq Told(s)
    BY <2>2, <2>3, <2>4 DEF Told
  <2>7. ASSUME NEW i \in DOMAIN s, i > Len(s) - KeepLast PROVE s[i].n \in Told(t)
    <3>1. i - d \in DOMAIN t /\ t[i - d] = s[i]
      BY <2>1, <2>2, <2>3, <2>7, HistoryIsSeq
    <3>2. QED
      BY <3>1 DEF Told
  <2>8. Truncated(s) = t
    BY <1>2 DEF Truncated
  <2>9. QED
    BY <2>2, <2>5, <2>6, <2>7, <2>8 DEF History
<1>3. QED
  BY <1>1, <1>2

\* What the LLM makes of a history tells of nothing else, but for the old summary.
LEMMA SummariesTold ==
  ASSUME NEW h \in History, NEW old \in SUBSET Numbers, NEW new \in Summaries(h, old)
  PROVE  /\ new \subseteq Told(h) \cup old /\ new \in SUBSET Numbers
         /\ SingleCall(h) => Numbered(h, Valid(h)) \subseteq new
<1>1. Valid(h) \subseteq DOMAIN h
  BY HistoryIsSeq DEF Valid
<1>2. \A I \in SUBSET Valid(h) : Numbered(h, I) \subseteq Told(h)
  BY <1>1 DEF Numbered, Told
<1>3. Halves(h) \subseteq Valid(h)
  BY DEF Halves
<1>4. Told(h) \subseteq Numbers
  BY HistoryIsSeq DEF Told
<1>5. Cardinality(Valid(h)) \in Nat
  <2>1. Len(h) - KeepLast \in Int /\ IsFiniteSet(1 .. Len(h) - KeepLast)
    BY HistoryIsSeq, FS_Interval
  <2>2. IsFiniteSet(Valid(h))
    BY <2>1, FS_Subset DEF Valid
  <2>3. QED
    BY <2>2, FS_CardinalityType
<1>6. CASE Cardinality(Valid(h)) > PartLimit
  <2>1. ~SingleCall(h)
    BY <1>5, <1>6 DEF SingleCall
  <2>2. new \subseteq Numbered(h, Halves(h)) \cup Numbered(h, Valid(h) \ Halves(h))
    BY <1>6 DEF Summaries
  <2>3. QED
    BY <1>2, <1>3, <1>4, <2>1, <2>2
<1>7. CASE ~(Cardinality(Valid(h)) > PartLimit)
  BY <1>2, <1>4, <1>7 DEF Summaries
<1>8. QED
  BY <1>6, <1>7

-----------------------------------------------------------------------------
(* Types, numbers, and the results of tool calls.                          *)

Basics == TypeInv /\ NumbersInv /\ ToolsInv

\* A message has the next number, in the session and in the turn.
LEMMA AddMessage ==
  ASSUME Basics, NEW role \in Roles, NEW of \in 0 .. MaxMessages, NEW count \in 0 .. MaxTools,
         NEW next \in Turn, Told(next.prompt.history) \subseteq 1 .. last,
         AddFullMessage(role, of, count, next)
  PROVE  /\ last' = last + 1 /\ last' \in Numbers
         /\ messages' \in History /\ Told(messages') = Told(messages) \cup {last'}
         /\ turn' \in Turn /\ Told(turn'.prompt.history) \subseteq 1 .. last'
         /\ turn'.at = next.at /\ turn'.call = next.call /\ turn'.left = next.left
         /\ UNCHANGED <<summary, file, job, summarizing, crashes, faults, finished>>
<1>1. /\ last' = last + 1 /\ last' \in Numbers /\ last \in Nat
      /\ UNCHANGED <<summary, file, job, summarizing, crashes, faults, finished>>
  BY DEF AddFullMessage, Basics, TypeInv, Numbers
<1>2. PICK big \in Oversized :
        LET m == [n |-> last', role |-> role, big |-> big, of |-> of, count |-> count]
        IN  /\ messages' = Append(messages, m)
            /\ turn' = [next EXCEPT !.prompt.history = Append(@, m)]
  BY DEF AddFullMessage
<1>. DEFINE m == [n |-> last', role |-> role, big |-> big, of |-> of, count |-> count]
<1>3. m \in Message /\ m.n = last'
  BY <1>1 DEF Message
<1>4. 1 .. m.n - 1 = 1 .. last
  BY <1>1, <1>3
<1>5. messages \in History /\ Told(messages) \subseteq 1 .. last
  BY DEF Basics, TypeInv, NumbersInv
<1>6. messages' \in History /\ Told(messages') = Told(messages) \cup {last'}
  BY <1>2, <1>3, <1>4, <1>5, AppendHistory
<1>7. next.prompt \in [history : History, summary : SUBSET Numbers]
  BY DEF Turn
<1>8. next.prompt.history \in History
  BY <1>7
<1>. DEFINE h == Append(next.prompt.history, m)
<1>9. h \in History /\ Told(h) = Told(next.prompt.history) \cup {last'}
  <2>. HIDE DEF m
  <2>1. QED
    BY <1>3, <1>4, <1>8, AppendHistory
<1>10. turn' = [next EXCEPT !.prompt.history = h]
  BY <1>2
<1>11. turn' \in Turn /\ turn'.prompt.history = h
       /\ turn'.at = next.at /\ turn'.call = next.call /\ turn'.left = next.left
  <2>. HIDE DEF h
  <2>1. QED
    BY <1>7, <1>9, <1>10 DEF Turn
<1>12. Told(h) \subseteq 1 .. last'
  <2>. HIDE DEF h
  <2>1. QED
    BY <1>1, <1>9
<1>13. QED
  BY <1>1, <1>6, <1>11, <1>12

\* A turn that adds a message, waiting for no more results than its calls have.
LEMMA AddMessageBasics ==
  ASSUME Basics, NEW role \in Roles, NEW of \in 0 .. MaxMessages, NEW count \in 0 .. MaxTools,
         NEW next \in Turn, Told(next.prompt.history) \subseteq 1 .. last,
         AddFullMessage(role, of, count, next),
         next.at = "tools" => /\ next.call \in 1 .. last + 1 /\ next.left # 0
                              /\ last + 1 - next.call + next.left =< MaxTools
  PROVE  Basics'
<1>1. /\ last' = last + 1 /\ last' \in Numbers
      /\ messages' \in History /\ Told(messages') = Told(messages) \cup {last'}
      /\ turn' \in Turn /\ Told(turn'.prompt.history) \subseteq 1 .. last'
      /\ turn'.at = next.at /\ turn'.call = next.call /\ turn'.left = next.left
      /\ UNCHANGED <<summary, file, job, summarizing, crashes, faults, finished>>
  BY AddMessage
<1>2. TypeInv /\ NumbersInv /\ last \in Nat
  BY DEF Basics, TypeInv
<1>3. TypeInv'
  BY <1>1, <1>2 DEF TypeInv, Numbers
<1>4. 1 .. last \subseteq 1 .. last' /\ last' \in 1 .. last'
  BY <1>1, <1>2
<1>5. NumbersInv'
  BY <1>1, <1>2, <1>4 DEF NumbersInv
<1>6. ToolsInv'
  BY <1>1, <1>2 DEF ToolsInv, Turn
<1>7. QED
  BY <1>3, <1>5, <1>6 DEF Basics

LEMMA IdleTurnType ==
  /\ IdleTurn \in Turn /\ Told(IdleTurn.prompt.history) = {} /\ IdleTurn.at = "idle"
  /\ [IdleTurn EXCEPT !.at = "save"] \in Turn
  /\ Told([IdleTurn EXCEPT !.at = "save"].prompt.history) = {}
  /\ [IdleTurn EXCEPT !.at = "save"].at = "save"
BY EmptyHistory DEF IdleTurn, NoPrompt, Turn

LEMMA IdleJobType == IdleJob \in Job /\ Told(IdleJob.history) = {} /\ IdleJob.at = "idle"
BY EmptyHistory DEF IdleJob, Job

LEMMA BasicsInit == Init => Basics
<1>. SUFFICES ASSUME Init PROVE Basics
  OBVIOUS
<1>1. TypeInv
  <2>1. file \in Session
    BY EmptyHistory DEF Init, Session
  <2>2. job \in [Summarizers -> Job] /\ turn \in Turn
    BY IdleTurnType, IdleJobType DEF Init
  <2>3. last \in 0 .. MaxMessages /\ crashes \in 0 .. MaxCrashes /\ faults \in 0 .. MaxFaults
    BY DEF Init
  <2>4. messages \in History /\ summary = {} /\ finished = {} /\ summarizing = FALSE
    BY EmptyHistory DEF Init
  <2>5. QED
    BY <2>1, <2>2, <2>3, <2>4 DEF TypeInv
<1>2. NumbersInv
  BY EmptyHistory, IdleTurnType, IdleJobType DEF Init, NumbersInv
<1>3. ToolsInv
  BY IdleTurnType DEF Init, ToolsInv
<1>4. QED
  BY <1>1, <1>2, <1>3 DEF Basics

\* A write of the session leaves its file as it was, torn, or as the session is.
LEMMA SaveBasics ==
  ASSUME Basics, Save(InMemory)
  PROVE  /\ file' \in Session \cup {Torn} /\ faults' \in 0 .. MaxFaults
         /\ file' # Torn => Told(file'.messages) \subseteq 1 .. last
         /\ faults' = 0 => faults = 0 /\ file' = InMemory
<1>1. InMemory \in Session /\ Told(InMemory.messages) \subseteq 1 .. last
  BY DEF Basics, TypeInv, NumbersInv, InMemory, Session
<1>2. file \in Session \cup {Torn} /\ faults \in 0 .. MaxFaults
      /\ (file # Torn => Told(file.messages) \subseteq 1 .. last)
  BY DEF Basics, TypeInv, NumbersInv
<1>3. CASE file' = InMemory /\ UNCHANGED faults
  BY <1>1, <1>2, <1>3
<1>4. CASE faults < MaxFaults /\ faults' = faults + 1 /\ file' \in {file, Torn}
  BY <1>2, <1>4
<1>5. QED
  BY <1>3, <1>4 DEF Save

\* The session is loaded from the file, or empty.
LEMMA RestartLoads ==
  ASSUME Basics, Restart
  PROVE  \/ file = Torn /\ messages' = <<>> /\ summary' = {}
         \/ file # Torn /\ file \in Session /\ messages' = file.messages /\ summary' = file.summary
BY DEF Restart, Basics, TypeInv

\* A step that changes only the place of a turn, or a summarizer.
LEMMA BasicsStep == Basics /\ [Next]_vars => Basics'
<1>. SUFFICES ASSUME Basics, [Next]_vars PROVE Basics'
  OBVIOUS
<1>. USE DEF Basics
<1>0. /\ messages \in History /\ summary \in SUBSET Numbers /\ last \in 0 .. MaxMessages
      /\ turn \in Turn /\ job \in [Summarizers -> Job] /\ finished \in SUBSET Numbers
      /\ turn.prompt \in [history : History, summary : SUBSET Numbers]
      /\ crashes \in 0 .. MaxCrashes /\ faults \in 0 .. MaxFaults
  BY DEF TypeInv, Turn
<1>1. CASE BuildMessages
  <2>1. CASE turn.at = "idle" /\ ReadHistory
    <3>1. /\ turn' = [turn EXCEPT !.at = "reading", !.prompt.history = messages]
          /\ turn' \in Turn /\ turn'.prompt.history = messages /\ turn'.at = "reading"
      BY <1>0, <2>1 DEF ReadHistory, Turn
    <3>2. QED
      BY <1>1, <3>1 DEF BuildMessages, session, TypeInv, NumbersInv, ToolsInv
  <2>2. CASE turn.at = "reading" /\ ReadSummary
    <3>1. /\ turn' \in Turn /\ turn'.prompt.history = turn.prompt.history /\ turn'.at = "read"
      BY <1>0, <2>2 DEF ReadSummary, Turn
    <3>2. QED
      BY <1>1, <3>1 DEF BuildMessages, session, TypeInv, NumbersInv, ToolsInv
  <2>3. QED
    BY <1>1, <2>1, <2>2 DEF BuildMessages
<1>2. CASE AddUserMessage
  <2>. DEFINE next == [turn EXCEPT !.at = "think"]
  <2>1. next \in Turn /\ next.prompt.history = turn.prompt.history /\ next.at = "think"
    BY <1>0 DEF Turn
  <2>2. AddFullMessage("user", 0, 0, next) /\ "user" \in Roles /\ Told(next.prompt.history) \subseteq 1 .. last
    BY <1>2, <2>1 DEF AddUserMessage, Roles, NumbersInv
  <2>. HIDE DEF next
  <2>3. QED
    BY <2>1, <2>2, <1>0, AddMessageBasics
<1>3. ASSUME NEW count \in 1 .. MaxTools, CallTools(count) PROVE Basics'
  <2>. DEFINE next == [turn EXCEPT !.at = "tools", !.call = last + 1, !.left = count]
  <2>0. last < MaxMessages /\ last + 1 \in 0 .. MaxMessages /\ count \in 0 .. MaxTools
    BY <1>0, <1>3 DEF CallTools, AddFullMessage
  <2>1. /\ next \in Turn /\ next.prompt.history = turn.prompt.history /\ next.at = "tools"
        /\ next.call = last + 1 /\ next.left = count
    BY <1>0, <2>0 DEF Turn
  <2>2. /\ AddFullMessage("call", 0, count, next) /\ "call" \in Roles /\ count \in 0 .. MaxTools
        /\ Told(next.prompt.history) \subseteq 1 .. last
    BY <1>3, <2>1 DEF CallTools, Roles, NumbersInv
  <2>. HIDE DEF next
  <2>3. QED
    BY <2>1, <2>2, <1>0, AddMessageBasics
<1>4. CASE AddToolResult
  <2>. DEFINE next == IF turn.left = 1
                      THEN [turn EXCEPT !.at = "think", !.call = 0, !.left = 0]
                      ELSE [turn EXCEPT !.left = @ - 1]
  <2>0. /\ turn.at = "tools" /\ turn.call \in 1 .. last /\ turn.left \in 1 .. MaxTools
        /\ last - turn.call + turn.left =< MaxTools
    BY <1>0, <1>4 DEF AddToolResult, ToolsInv, Turn
  <2>1. /\ next \in Turn /\ next.prompt.history = turn.prompt.history
        /\ next.at = "tools" => next.call = turn.call /\ next.left = turn.left - 1 /\ turn.left # 1
    <3>1. CASE turn.left = 1
      <4>1. next = [turn EXCEPT !.at = "think", !.call = 0, !.left = 0] /\ 0 \in 0 .. MaxMessages /\ 0 \in 0 .. MaxTools
        BY <3>1
      <4>2. QED
        BY <1>0, <4>1 DEF Turn
    <3>2. CASE turn.left # 1
      <4>1. turn.left - 1 \in 0 .. MaxTools
        BY <2>0
      <4>2. QED
        BY <1>0, <3>2, <4>1 DEF Turn
    <3>3. QED
      BY <3>1, <3>2
  <2>2. /\ AddFullMessage("tool", turn.call, last - turn.call + 1, next) /\ "tool" \in Roles
        /\ turn.call \in 0 .. MaxMessages /\ last - turn.call + 1 \in 0 .. MaxTools
        /\ Told(next.prompt.history) \subseteq 1 .. last
    BY <1>4, <1>0, <2>0, <2>1 DEF AddToolResult, Roles, NumbersInv
  <2>. HIDE DEF next
  <2>3. QED
    BY <2>0, <2>1, <2>2, <1>0, AddMessageBasics
<1>5. CASE Fail
  BY <1>0, <1>5, IdleTurnType DEF Fail, EndTurn, session, TypeInv, NumbersInv, ToolsInv
<1>6. CASE Answer
  <2>. DEFINE next == [IdleTurn EXCEPT !.at = "save"]
  <2>1. /\ AddFullMessage("assistant", 0, 0, next) /\ "assistant" \in Roles
        /\ next \in Turn /\ next.at = "save" /\ Told(next.prompt.history) \subseteq 1 .. last
    BY <1>6, IdleTurnType DEF Answer, Roles
  <2>. HIDE DEF next
  <2>2. QED
    BY <2>1, <1>0, AddMessageBasics
<1>7. CASE SaveTurn
  <2>1. Save(InMemory) /\ UNCHANGED <<messages, summary, last, job, summarizing, crashes>>
        /\ finished' = finished \cup Told(messages)
    BY <1>7 DEF SaveTurn, session
  <2>2. turn' \in Turn /\ turn'.at # "tools" /\ Told(turn'.prompt.history) \subseteq 1 .. last
    <3>1. CASE turn' = [turn EXCEPT !.at = "summarize"]
      BY <1>0, <3>1 DEF Turn, NumbersInv
    <3>2. CASE EndTurn
      BY <3>2, IdleTurnType DEF EndTurn
    <3>3. QED
      BY <1>7, <3>1, <3>2 DEF SaveTurn
  <2>3. finished' \in SUBSET Numbers /\ finished' \subseteq 1 .. last
    <3>1. Told(messages) \subseteq 1 .. last /\ finished \subseteq 1 .. last
      BY DEF NumbersInv
    <3>2. 1 .. last \subseteq Numbers
      BY <1>0 DEF Numbers
    <3>3. QED
      BY <2>1, <3>1, <3>2
  <2>4. QED
    BY <2>1, <2>2, <2>3, SaveBasics DEF TypeInv, NumbersInv, ToolsInv
<1>8. CASE MaybeSummarize
  <2>1. /\ turn' = IdleTurn /\ UNCHANGED <<messages, summary, file, last, crashes, faults, finished>>
    BY <1>8 DEF MaybeSummarize, EndTurn, session
  <2>2. /\ job' \in [Summarizers -> Job] /\ summarizing' \in BOOLEAN
        /\ \A g \in Summarizers : Told(job'[g].history) \subseteq 1 .. last
    <3>1. CASE Launch
      <4>1. PICK h \in Summarizers : job[h] = IdleJob /\ job' = [job EXCEPT ![h].at = "start"]
        BY <3>1 DEF Launch
      <4>2. job[h] \in Job /\ [job[h] EXCEPT !.at = "start"] \in Job
        BY <1>0, <4>1 DEF Job
      <4>3. \A g \in Summarizers : job'[g].history = job[g].history
        BY <1>0, <4>1 DEF Job
      <4>4. QED
        BY <1>0, <3>1, <4>1, <4>2, <4>3 DEF NumbersInv, Launch
    <3>2. CASE UNCHANGED <<job, summarizing>>
      BY <3>2 DEF TypeInv, NumbersInv
    <3>3. QED
      BY <1>8, <3>1, <3>2 DEF MaybeSummarize
  <2>3. QED
    BY <2>1, <2>2, IdleTurnType DEF TypeInv, NumbersInv, ToolsInv
<1>9. ASSUME NEW g \in Summarizers, TakeHistory(g) PROVE Basics'
  <2>1. job[g] \in Job /\ [job[g] EXCEPT !.at = "taken", !.history = messages] \in Job
    BY <1>0 DEF Job
  <2>2. job' = [job EXCEPT ![g] = [job[g] EXCEPT !.at = "taken", !.history = messages]]
    BY <1>0, <1>9 DEF TakeHistory
  <2>3. \A h \in Summarizers : job'[h].history = IF h = g THEN messages ELSE job[h].history
    BY <1>0, <2>1, <2>2 DEF Job
  <2>4. QED
    BY <1>0, <1>9, <2>1, <2>2, <2>3 DEF TakeHistory, Elsewhere, session, TypeInv, NumbersInv, ToolsInv
<1>10. ASSUME NEW g \in Summarizers, Summarize(g) PROVE Basics'
  <2>1. /\ job' \in [Summarizers -> Job] /\ summarizing' \in BOOLEAN
        /\ \A h \in Summarizers : Told(job'[h].history) \subseteq 1 .. last
    <3>1. CASE Finish(g)
      BY <1>0, <3>1, IdleJobType DEF Finish, NumbersInv
    <3>2. CASE /\ \E new \in Summaries(job[g].history, summary) :
                    job' = [job EXCEPT ![g].at = "set", ![g].old = summary, ![g].new = new]
               /\ UNCHANGED summarizing
      <4>1. PICK new \in Summaries(job[g].history, summary) :
                   job' = [job EXCEPT ![g].at = "set", ![g].old = summary, ![g].new = new]
        BY <3>2
      <4>2. job[g] \in Job /\ job[g].history \in History
        BY <1>0 DEF Job
      <4>3. new \in SUBSET Numbers
        BY <1>0, <4>2, SummariesTold
      <4>4. [job[g] EXCEPT !.at = "set", !.old = summary, !.new = new] \in Job
        BY <1>0, <4>2, <4>3 DEF Job
      <4>5. job' = [job EXCEPT ![g] = [job[g] EXCEPT !.at = "set", !.old = summary, !.new = new]]
        BY <1>0, <4>1
      <4>6. \A h \in Summarizers : job'[h].history = job[h].history
        BY <1>0, <4>2, <4>5 DEF Job
      <4>7. QED
        BY <1>0, <3>2, <4>4, <4>5, <4>6 DEF TypeInv, NumbersInv
    <3>3. QED
      BY <1>10, <3>1, <3>2 DEF Summarize
  <2>2. QED
    BY <1>10, <2>1 DEF Summarize, Elsewhere, session, TypeInv, NumbersInv, ToolsInv
<1>11. ASSUME NEW g \in Summarizers, SetSummary(g) PROVE Basics'
  <2>1. job[g] \in Job /\ job[g].new \in SUBSET Numbers
    BY <1>0 DEF Job
  <2>2. [job[g] EXCEPT !.at = "truncate"] \in Job
    BY <2>1 DEF Job
  <2>3. job' = [job EXCEPT ![g] = [job[g] EXCEPT !.at = "truncate"]]
    BY <1>0, <1>11 DEF SetSummary
  <2>4. \A h \in Summarizers : job'[h].history = job[h].history
    BY <1>0, <2>1, <2>3 DEF Job
  <2>5. QED
    BY <1>0, <1>11, <2>1, <2>2, <2>3, <2>4 DEF SetSummary, Elsewhere, TypeInv, NumbersInv, ToolsInv
<1>12. ASSUME NEW g \in Summarizers, TruncateHistory(g) PROVE Basics'
  <2>1. job[g] \in Job /\ [job[g] EXCEPT !.at = "save"] \in Job
    BY <1>0 DEF Job
  <2>2. job' = [job EXCEPT ![g] = [job[g] EXCEPT !.at = "save"]]
    BY <1>0, <1>12 DEF TruncateHistory
  <2>3. \A h \in Summarizers : job'[h].history = job[h].history
    BY <1>0, <2>1, <2>2 DEF Job
  <2>4. messages' \in History /\ Told(messages') \subseteq Told(messages)
    BY <1>0, <1>12, TruncatedHistory DEF TruncateHistory
  <2>5. QED
    BY <1>0, <1>12, <2>1, <2>2, <2>3, <2>4 DEF TruncateHistory, Elsewhere, TypeInv, NumbersInv, ToolsInv
<1>13. ASSUME NEW g \in Summarizers, SaveSummary(g) PROVE Basics'
  <2>1. /\ job' \in [Summarizers -> Job] /\ summarizing' \in BOOLEAN
        /\ \A h \in Summarizers : Told(job'[h].history) \subseteq 1 .. last
    BY <1>0, <1>13, IdleJobType DEF SaveSummary, Finish, NumbersInv
  <2>2. QED
    BY <1>0, <1>13, <2>1, SaveBasics DEF SaveSummary, Elsewhere, session, TypeInv, NumbersInv, ToolsInv
<1>14. CASE Restart
  <2>1. messages' \in History /\ summary' \in SUBSET Numbers /\ Told(messages') \subseteq 1 .. last
    BY <1>14, RestartLoads, EmptyHistory DEF Session, NumbersInv
  <2>2. job' \in [Summarizers -> Job] /\ \A g \in Summarizers : Told(job'[g].history) \subseteq 1 .. last
    BY <1>14, IdleJobType DEF Restart
  <2>3. turn' \in Turn /\ turn'.at = "idle" /\ Told(turn'.prompt.history) \subseteq 1 .. last
    BY <1>14, IdleTurnType DEF Restart
  <2>4. crashes' \in 0 .. MaxCrashes /\ UNCHANGED <<file, last, faults, finished>> /\ summarizing' \in BOOLEAN
    <3>1. crashes < MaxCrashes /\ crashes' = crashes + 1 /\ summarizing' = FALSE
          /\ UNCHANGED <<file, last, faults, finished>>
      BY <1>14 DEF Restart
    <3>2. crashes \in 0 .. MaxCrashes /\ MaxCrashes \in Nat
      BY <1>0
    <3>3. crashes' \in 0 .. MaxCrashes
      BY <3>1, <3>2
    <3>4. QED
      BY <3>1, <3>3
  <2>5. QED
    BY <1>0, <2>1, <2>2, <2>3, <2>4 DEF TypeInv, NumbersInv, ToolsInv
<1>15. CASE UNCHANGED vars
  BY <1>15 DEF vars, session, TypeInv, NumbersInv, ToolsInv
<1>16. QED
  BY <1>1, <1>2, <1>3, <1>4, <1>5, <1>6, <1>7, <1>8, <1>9, <1>10, <1>11, <1>12, <1>13, <1>14, <1>15 DEF Next

-----------------------------------------------------------------------------
(* One summarizer at a time.                                               *)

\* The steps that touch no summarizer: those of the turn but for its last.
TurnStep ==
  \/ BuildMessages \/ AddUserMessage \/ (\E count \in 1 .. MaxTools : CallTools(count))
  \/ AddToolResult \/ Fail \/ Answer \/ SaveTurn

LEMMA TurnKeepsJobs == TurnStep => UNCHANGED <<job, summarizing, crashes, summary>>
BY DEF TurnStep, BuildMessages, AddUserMessage, CallTools, AddToolResult, Fail, Answer, SaveTurn,
       AddFullMessage, session

\* A turn adds a message with the next number, or leaves the history as it is.
LEMMA TurnAppends ==
  ASSUME Basics, TurnStep
  PROVE  \/ UNCHANGED <<messages, last>>
         \/ /\ last' = last + 1 /\ Told(messages') = Told(messages) \cup {last'}
            /\ UNCHANGED <<file, faults, finished>>
<1>0. messages \in History /\ Told(messages) \subseteq 1 .. last /\ last \in Nat
  BY DEF Basics, TypeInv, NumbersInv
<1>1. ASSUME NEW role, NEW of, NEW count, NEW next, AddFullMessage(role, of, count, next),
             role \in Roles, of \in 0 .. MaxMessages, count \in 0 .. MaxTools
      PROVE  /\ last' = last + 1 /\ Told(messages') = Told(messages) \cup {last'}
             /\ UNCHANGED <<file, faults, finished>>
  <2>1. /\ last' = last + 1 /\ last' \in Numbers /\ UNCHANGED <<file, faults, finished>>
    BY <1>0, <1>1 DEF AddFullMessage, Numbers
  <2>2. PICK m : /\ messages' = Append(messages, m)
                 /\ m \in Message /\ m.n = last'
    <3>1. PICK big \in Oversized :
            messages' = Append(messages, [n |-> last', role |-> role, big |-> big, of |-> of, count |-> count])
      BY <1>1 DEF AddFullMessage
    <3>2. [n |-> last', role |-> role, big |-> big, of |-> of, count |-> count] \in Message
      BY <1>1, <2>1 DEF Message
    <3>3. QED
      BY <3>1, <3>2
  <2>3. 1 .. m.n - 1 = 1 .. last
    BY <1>0, <2>1, <2>2
  <2>4. QED
    BY <1>0, <2>1, <2>2, <2>3, AppendHistory
<1>2. CASE AddToolResult
  <2>1. turn.call \in 0 .. MaxMessages /\ last - turn.call + 1 \in 0 .. MaxTools
    <3>1. /\ turn.at = "tools" /\ turn.call \in 1 .. last /\ turn.left \in 1 .. MaxTools
          /\ last - turn.call + turn.left =< MaxTools /\ turn.call \in 0 .. MaxMessages
      BY <1>2 DEF AddToolResult, Basics, TypeInv, ToolsInv, Turn
    <3>2. QED
      BY <1>0, <3>1
  <2>2. QED
    BY <1>1, <1>2, <2>1 DEF AddToolResult, Roles
<1>3. CASE AddUserMessage
  BY <1>1, <1>3 DEF AddUserMessage, Roles
<1>4. ASSUME NEW count \in 1 .. MaxTools, CallTools(count)
      PROVE  /\ last' = last + 1 /\ Told(messages') = Told(messages) \cup {last'}
             /\ UNCHANGED <<file, faults, finished>>
  BY <1>1, <1>4 DEF CallTools, Roles
<1>5. CASE Answer
  BY <1>1, <1>5 DEF Answer, Roles
<1>6. CASE BuildMessages \/ Fail \/ SaveTurn
  BY <1>6 DEF BuildMessages, Fail, SaveTurn, session
<1>7. QED
  BY <1>2, <1>3, <1>4, <1>5, <1>6 DEF TurnStep

\* A job at work is the only one; it moves on, ends, or is forgotten.
LEMMA OneSummarizerStep == Basics /\ OneSummarizer /\ [Next]_vars => OneSummarizer'
<1>. SUFFICES ASSUME Basics, OneSummarizer, [Next]_vars PROVE OneSummarizer'
  OBVIOUS
<1>0. job \in [Summarizers -> Job] /\ \A g \in Summarizers : job[g] \in Job
  BY DEF Basics, TypeInv
<1>1. CASE TurnStep
  BY <1>1, TurnKeepsJobs DEF OneSummarizer
<1>2. CASE MaybeSummarize
  <2>1. CASE ~summarizing /\ Launch
    <3>1. PICK h \in Summarizers : job' = [job EXCEPT ![h].at = "start"] /\ summarizing' = TRUE
      BY <2>1 DEF Launch
    <3>2. \A g \in Summarizers : job[g].at = "idle"
      BY <2>1 DEF OneSummarizer
    <3>3. \A g \in Summarizers : job'[g].at # "idle" => g = h
      BY <1>0, <3>1, <3>2 DEF Job
    <3>4. QED
      BY <3>1, <3>3 DEF OneSummarizer
  <2>2. CASE UNCHANGED <<job, summarizing>>
    BY <2>2 DEF OneSummarizer
  <2>3. QED
    BY <1>2, <2>1, <2>2 DEF MaybeSummarize
<1>3. ASSUME NEW g \in Summarizers, job[g].at # "idle",
             \A h \in Summarizers \ {g} : job'[h] = job[h],
             summarizing' = summarizing \/ job'[g].at = "idle"
      PROVE  OneSummarizer'
  <2>1. \A h \in Summarizers \ {g} : job[h].at = "idle"
    BY <1>3 DEF OneSummarizer
  <2>2. \A h \in Summarizers \ {g} : job'[h].at = "idle"
    BY <1>3, <2>1
  <2>3. job'[g].at # "idle" => summarizing'
    BY <1>3 DEF OneSummarizer
  <2>4. QED
    BY <2>2, <2>3 DEF OneSummarizer
<1>4. ASSUME NEW g \in Summarizers, TakeHistory(g) PROVE OneSummarizer'
  BY <1>0, <1>3, <1>4 DEF TakeHistory
<1>5. ASSUME NEW g \in Summarizers, Summarize(g) PROVE OneSummarizer'
  BY <1>0, <1>3, <1>5, IdleJobType DEF Summarize, Finish
<1>6. ASSUME NEW g \in Summarizers, SetSummary(g) PROVE OneSummarizer'
  BY <1>0, <1>3, <1>6 DEF SetSummary
<1>7. ASSUME NEW g \in Summarizers, TruncateHistory(g) PROVE OneSummarizer'
  BY <1>0, <1>3, <1>7 DEF TruncateHistory
<1>8. ASSUME NEW g \in Summarizers, SaveSummary(g) PROVE OneSummarizer'
  BY <1>0, <1>3, <1>8, IdleJobType DEF SaveSummary, Finish
<1>9. CASE Restart
  BY <1>9, IdleJobType DEF Restart, OneSummarizer
<1>10. CASE UNCHANGED vars
  BY <1>10 DEF vars, OneSummarizer
<1>11. QED
  BY <1>1, <1>2, <1>4, <1>5, <1>6, <1>7, <1>8, <1>9, <1>10 DEF Next, TurnStep

-----------------------------------------------------------------------------
(* What a summarizer reads, writes and leaves in the file.                 *)

\* The steps of a summarizer, as they change its record; the others are idle.
LEMMA JobFields ==
  ASSUME Basics, OneSummarizer, NEW g \in Summarizers
  PROVE  /\ TakeHistory(g) => /\ job'[g].at = "taken" /\ job'[g].history = messages
                              /\ UNCHANGED <<messages, summary>>
         /\ Summarize(g) =>
              /\ UNCHANGED <<messages, summary>>
              /\ \/ job'[g].at = "idle"
                 \/ /\ job'[g].at = "set" /\ job'[g].history = job[g].history
                    /\ job'[g].old = summary /\ Valid(job[g].history) # {}
                    /\ job'[g].new \in Summaries(job[g].history, summary)
         /\ SetSummary(g) => /\ job'[g].at = "truncate" /\ job'[g].history = job[g].history
                             /\ job'[g].new = job[g].new
         /\ TruncateHistory(g) => job'[g].at = "save" /\ job'[g].history = job[g].history
         /\ SaveSummary(g) => job'[g].at = "idle"
         /\ TakeHistory(g) \/ Summarize(g) \/ SetSummary(g) \/ TruncateHistory(g) \/ SaveSummary(g) =>
              \A h \in Summarizers : h # g => job'[h] = job[h] /\ job[h].at = "idle"
<1>0. job \in [Summarizers -> Job] /\ job[g] \in Job
  BY DEF Basics, TypeInv
<1>1. ASSUME TakeHistory(g)
      PROVE  job'[g].at = "taken" /\ job'[g].history = messages
             /\ UNCHANGED <<messages, summary>>
  <2>1. job' = [job EXCEPT ![g] = [job[g] EXCEPT !.at = "taken", !.history = messages]]
    BY <1>0, <1>1 DEF TakeHistory
  <2>2. job'[g] = [job[g] EXCEPT !.at = "taken", !.history = messages]
    BY <1>0, <2>1
  <2>3. QED
    BY <1>0, <1>1, <2>2 DEF TakeHistory, session, Job
<1>2. ASSUME Summarize(g)
      PROVE  /\ UNCHANGED <<messages, summary>>
             /\ \/ job'[g].at = "idle"
                \/ /\ job'[g].at = "set" /\ job'[g].history = job[g].history
                   /\ job'[g].old = summary /\ Valid(job[g].history) # {}
                   /\ job'[g].new \in Summaries(job[g].history, summary)
  <2>1. CASE Finish(g)
    BY <1>0, <1>2, <2>1, IdleJobType DEF Finish, Summarize, session
  <2>2. CASE ~Finish(g)
    <3>1. PICK new \in Summaries(job[g].history, summary) :
            job' = [job EXCEPT ![g].at = "set", ![g].old = summary, ![g].new = new]
      BY <1>2, <2>2 DEF Summarize
    <3>2. job' = [job EXCEPT ![g] = [job[g] EXCEPT !.at = "set", !.old = summary, !.new = new]]
      BY <1>0, <3>1
    <3>3. job'[g] = [job[g] EXCEPT !.at = "set", !.old = summary, !.new = new]
      BY <1>0, <3>2
    <3>4. /\ job'[g].at = "set" /\ job'[g].history = job[g].history
          /\ job'[g].old = summary /\ job'[g].new = new
      BY <1>0, <3>3 DEF Job
    <3>5. QED
      BY <1>2, <2>2, <3>1, <3>4 DEF Summarize, session
  <2>3. QED
    BY <2>1, <2>2
<1>3. ASSUME SetSummary(g)
      PROVE  job'[g].at = "truncate" /\ job'[g].history = job[g].history /\ job'[g].new = job[g].new
  <2>1. job' = [job EXCEPT ![g] = [job[g] EXCEPT !.at = "truncate"]]
    BY <1>0, <1>3 DEF SetSummary
  <2>2. QED
    BY <1>0, <2>1 DEF Job
<1>4. ASSUME TruncateHistory(g)
      PROVE  job'[g].at = "save" /\ job'[g].history = job[g].history
  <2>1. job' = [job EXCEPT ![g] = [job[g] EXCEPT !.at = "save"]]
    BY <1>0, <1>4 DEF TruncateHistory
  <2>2. QED
    BY <1>0, <2>1 DEF Job
<1>5. ASSUME SaveSummary(g) PROVE job'[g].at = "idle"
  BY <1>0, <1>5, IdleJobType DEF SaveSummary, Finish
<1>6. ASSUME TakeHistory(g) \/ Summarize(g) \/ SetSummary(g) \/ TruncateHistory(g) \/ SaveSummary(g),
             NEW h \in Summarizers, h # g
      PROVE  job'[h] = job[h] /\ job[h].at = "idle"
  <2>1. job[h].at = "idle"
    BY <1>6 DEF TakeHistory, Summarize, SetSummary, TruncateHistory, SaveSummary, OneSummarizer
  <2>2. job'[h] = job[h]
    BY <1>0, <1>6 DEF TakeHistory, Summarize, SetSummary, TruncateHistory, SaveSummary, Finish
  <2>3. QED
    BY <2>1, <2>2
<1>7. QED
  BY <1>1, <1>2, <1>3, <1>4, <1>5, <1>6

\* The last step of a turn starts a summarizer at most.
LEMMA LaunchFields ==
  ASSUME Basics, MaybeSummarize, NEW g \in Summarizers
  PROVE  /\ UNCHANGED <<messages, summary, file, faults, finished, last>>
         /\ job'[g] = job[g] \/ job'[g].at = "start"
<1>1. job \in [Summarizers -> Job] /\ job[g] \in Job
  BY DEF Basics, TypeInv
<1>2. CASE Launch
  <2>1. PICK h \in Summarizers : job' = [job EXCEPT ![h].at = "start"]
    BY <1>2 DEF Launch
  <2>2. job'[g] = job[g] \/ job'[g].at = "start"
    BY <1>1, <2>1 DEF Job
  <2>3. QED
    BY <2>2 DEF MaybeSummarize, session
<1>3. CASE UNCHANGED job
  BY <1>3 DEF MaybeSummarize, session
<1>4. QED
  BY <1>2, <1>3 DEF MaybeSummarize

LEMMA JobInvStep == Basics /\ OneSummarizer /\ JobInv /\ [Next]_vars => JobInv'
<1>. SUFFICES ASSUME Basics, OneSummarizer, JobInv, [Next]_vars, NEW k \in Summarizers
              PROVE  /\ job'[k].at = "taken" => Told(job'[k].history) \subseteq Told(messages')
                     /\ job'[k].at = "set" => /\ job'[k].old = summary'
                                              /\ job'[k].new \subseteq Told(messages') \cup summary'
  BY DEF JobInv, Remembered
<1>0. /\ job[k].at = "taken" => Told(job[k].history) \subseteq Told(messages)
      /\ job[k].at = "set" => job[k].old = summary /\ job[k].new \subseteq Told(messages) \cup summary
  BY DEF JobInv, Remembered
<1>1. CASE TurnStep
  BY <1>0, <1>1, TurnKeepsJobs, TurnAppends
<1>2. CASE MaybeSummarize
  BY <1>0, <1>2, LaunchFields
<1>3. ASSUME NEW g \in Summarizers, TakeHistory(g)
      PROVE  (job'[k].at = "taken" => job'[k].history = messages') /\ job'[k].at # "set"
  BY <1>3, JobFields
<1>4. ASSUME NEW g \in Summarizers, Summarize(g)
      PROVE  /\ job'[k].at # "taken"
             /\ job'[k].at = "set" => /\ job'[k].old = summary'
                                      /\ job'[k].new \subseteq Told(messages') \cup summary'
  <2>1. CASE k # g
    BY <1>4, <2>1, JobFields
  <2>2. CASE k = g
    <3>1. job[k].history \in History /\ summary \in SUBSET Numbers /\ job[k].at = "taken"
      BY <1>4, <2>2 DEF Basics, TypeInv, Job, Summarize
    <3>2. \A new \in Summaries(job[k].history, summary) : new \subseteq Told(job[k].history) \cup summary
      BY <3>1, SummariesTold
    <3>3. QED
      BY <1>0, <1>4, <2>2, <3>1, <3>2, JobFields
  <2>3. QED
    BY <2>1, <2>2
<1>5. ASSUME NEW g \in Summarizers, SetSummary(g) \/ TruncateHistory(g) \/ SaveSummary(g)
      PROVE  job'[k].at \notin {"taken", "set"}
  BY <1>5, JobFields
<1>6. CASE Restart
  BY <1>6, IdleJobType DEF Restart
<1>7. CASE UNCHANGED vars
  BY <1>0, <1>7 DEF vars, session
<1>8. QED
  BY <1>1, <1>2, <1>3, <1>4, <1>5, <1>6, <1>7 DEF Next, TurnStep

\* A write without a fault, and a start from such a file, make memory and file tell
\* of the same; no other step adds to what is remembered, but for a new message.
LEMMA SavedInvStep == Basics /\ OneSummarizer /\ JobInv /\ SavedInv /\ [Next]_vars => SavedInv'
<1>. SUFFICES ASSUME Basics, OneSummarizer, JobInv, SavedInv, [Next]_vars, faults' = 0
              PROVE  /\ file' \in Session
                     /\ finished' \cap (Told(messages') \cup summary') \subseteq Told(file'.messages) \cup file'.summary
  BY DEF SavedInv, Remembered
<1>0. faults \in Nat /\ last \in Nat /\ Told(messages) \subseteq 1 .. last /\ finished \subseteq 1 .. last
      /\ InMemory \in Session
  BY DEF Basics, TypeInv, NumbersInv, InMemory, Session
<1>1. faults = 0 => /\ file \in Session
                    /\ finished \cap (Told(messages) \cup summary) \subseteq Told(file.messages) \cup file.summary
  BY DEF SavedInv, Remembered
<1>2. ASSUME Save(InMemory), UNCHANGED <<messages, summary>>, finished' \subseteq finished \cup Told(messages)
      PROVE  /\ file' \in Session
             /\ finished' \cap (Told(messages') \cup summary') \subseteq Told(file'.messages) \cup file'.summary
  <2>1. file' = InMemory
    BY <1>2, SaveBasics
  <2>2. QED
    BY <1>0, <1>2, <2>1 DEF InMemory
<1>3. CASE TurnStep /\ ~SaveTurn
  <2>1. UNCHANGED <<file, faults, finished, summary>>
    BY <1>3, TurnKeepsJobs DEF TurnStep, BuildMessages, AddUserMessage, CallTools, AddToolResult, Fail,
          Answer, AddFullMessage
  <2>2. \/ UNCHANGED messages
        \/ Told(messages') = Told(messages) \cup {last + 1}
    BY <1>3, TurnAppends
  <2>3. last + 1 \notin finished
    BY <1>0
  <2>4. QED
    BY <1>1, <2>1, <2>2, <2>3
<1>4. CASE SaveTurn
  BY <1>2, <1>4 DEF SaveTurn, session
<1>5. CASE MaybeSummarize
  BY <1>1, <1>5 DEF MaybeSummarize, session
<1>6. ASSUME NEW g \in Summarizers, TakeHistory(g) \/ Summarize(g) PROVE UNCHANGED <<session, file, faults, finished>>
  BY <1>6 DEF TakeHistory, Summarize, Elsewhere
<1>7. ASSUME NEW g \in Summarizers, SetSummary(g)
      PROVE  /\ UNCHANGED <<messages, file, faults, finished>>
             /\ summary' \subseteq Told(messages) \cup summary
  BY <1>7 DEF SetSummary, Elsewhere, JobInv, Remembered
<1>8. ASSUME NEW g \in Summarizers, TruncateHistory(g)
      PROVE  UNCHANGED <<summary, file, faults, finished>> /\ Told(messages') \subseteq Told(messages)
  BY <1>8, TruncatedHistory DEF TruncateHistory, Elsewhere, Basics, TypeInv
<1>9. ASSUME NEW g \in Summarizers, SaveSummary(g)
      PROVE  Save(InMemory) /\ UNCHANGED <<messages, summary, finished>>
  BY <1>9 DEF SaveSummary, Elsewhere, session
<1>10. CASE Restart
  <2>1. UNCHANGED <<file, faults, finished>>
    BY <1>10 DEF Restart
  <2>2. QED
    BY <1>1, <1>10, <2>1, RestartLoads, EmptyHistory
<1>11. CASE UNCHANGED vars
  BY <1>1, <1>11 DEF vars, session
<1>12. QED
  BY <1>1, <1>2, <1>3, <1>4, <1>5, <1>6, <1>7, <1>8, <1>9, <1>10, <1>11 DEF Next, TurnStep, session

-----------------------------------------------------------------------------
(* What a summary and the history that is kept tell of together.           *)

LEMMA LastIsTold ==
  ASSUME NEW h \in History, h # <<>>
  PROVE  h[Len(h)].n \in Told(h)
<1>1. Len(h) \in DOMAIN h
  BY HistoryIsSeq, EmptySeq, LenProperties DEF History
<1>2. QED
  BY <1>1 DEF Told

\* SummaryInv, of one summarizer.
SummaryInvOf(g) ==
  LET h == job[g].history IN
  /\ job[g].at \in {"set", "truncate", "save"} => h # <<>>
  /\ job[g].at \in {"taken", "set", "truncate"} /\ Undisturbed(g) => messages = h
  /\ job[g].at = "save" /\ Undisturbed(g) => messages = Truncated(h)
  /\ job[g].at = "set" /\ SingleCall(h) => Numbered(h, Valid(h)) \subseteq job[g].new
  /\ job[g].at \in {"truncate", "save"} /\ SingleCall(h) => Numbered(h, Valid(h)) \subseteq summary

LEMMA SummaryInvStep == Basics /\ OneSummarizer /\ SummaryInv /\ [Next]_vars => SummaryInv'
<1>. SUFFICES ASSUME Basics, OneSummarizer, SummaryInv, [Next]_vars, NEW k \in Summarizers
              PROVE  SummaryInvOf(k)'
  BY DEF SummaryInv, SummaryInvOf
<1>0. /\ job \in [Summarizers -> Job] /\ job[k] \in Job /\ job[k].history \in History
      /\ last \in Nat /\ Told(job[k].history) \subseteq 1 .. last
      /\ summary \in SUBSET Numbers
  BY DEF Basics, TypeInv, NumbersInv, Job
<1>1. SummaryInvOf(k)
  BY DEF SummaryInv, SummaryInvOf
<1>2. ASSUME job'[k].at \in {"idle", "start"} PROVE SummaryInvOf(k)'
  BY <1>2 DEF SummaryInvOf
<1>3. ASSUME job'[k] = job[k], UNCHANGED <<messages, summary, last>> PROVE SummaryInvOf(k)'
  BY <1>1, <1>3 DEF SummaryInvOf, Undisturbed
<1>4. CASE TurnStep
  <2>1. job'[k] = job[k] /\ UNCHANGED summary
    BY <1>4, TurnKeepsJobs
  <2>2. CASE UNCHANGED <<messages, last>>
    BY <1>3, <2>1, <2>2
  <2>3. CASE last' = last + 1
    <3>1. ~Undisturbed(k)'
      <4>1. job[k].history # <<>> => job[k].history[Len(job[k].history)].n \in 1 .. last
        BY <1>0, LastIsTold
      <4>2. QED
        BY <1>0, <2>1, <2>3, <4>1 DEF Undisturbed
    <3>2. QED
      BY <1>1, <2>1, <3>1 DEF SummaryInvOf
  <2>4. QED
    BY <1>4, <2>2, <2>3, TurnAppends
<1>5. CASE MaybeSummarize
  BY <1>2, <1>3, <1>5, LaunchFields
<1>6. ASSUME NEW g \in Summarizers, TakeHistory(g) PROVE SummaryInvOf(k)'
  <2>1. UNCHANGED <<messages, summary, last>>
    BY <1>6 DEF TakeHistory, session, Elsewhere
  <2>2. CASE k = g
    BY <1>6, <2>1, <2>2, JobFields DEF SummaryInvOf
  <2>3. CASE k # g
    BY <1>3, <1>6, <2>1, <2>3, JobFields
  <2>4. QED
    BY <2>2, <2>3
<1>7. ASSUME NEW g \in Summarizers, Summarize(g) PROVE SummaryInvOf(k)'
  <2>1. UNCHANGED <<messages, summary, last>>
    BY <1>7 DEF Summarize, session, Elsewhere
  <2>2. CASE k = g /\ job'[k].at # "idle"
    <3>. DEFINE h == job[k].history
    <3>1. /\ job[k].at = "taken" /\ job'[k].at = "set" /\ job'[k].history = h
          /\ job'[k].new \in Summaries(h, summary) /\ Valid(h) # {}
      BY <1>7, <2>2, JobFields DEF Summarize
    <3>2. h # <<>>
      <4>1. PICK i : i \in 1 .. Len(h) - KeepLast
        BY <3>1 DEF Valid
      <4>2. Len(h) # 0
        BY <1>0, <4>1, HistoryIsSeq
      <4>3. QED
        BY <4>2, EmptySeq
    <3>3. SingleCall(h) => Numbered(h, Valid(h)) \subseteq job'[k].new
      BY <1>0, <3>1, SummariesTold
    <3>4. QED
      BY <1>1, <2>1, <3>1, <3>2, <3>3 DEF SummaryInvOf, Undisturbed
  <2>3. CASE k # g \/ job'[k].at = "idle"
    BY <1>2, <1>3, <1>7, <2>1, <2>3, JobFields
  <2>4. QED
    BY <2>2, <2>3
<1>8. ASSUME NEW g \in Summarizers, SetSummary(g) PROVE SummaryInvOf(k)'
  <2>1. UNCHANGED <<messages, last>> /\ summary' = job[g].new /\ job[g].at = "set"
    BY <1>8 DEF SetSummary, Elsewhere
  <2>2. CASE k = g
    BY <1>1, <1>8, <2>1, <2>2, JobFields DEF SummaryInvOf, Undisturbed
  <2>3. CASE k # g
    BY <1>2, <1>8, <2>3, JobFields
  <2>4. QED
    BY <2>2, <2>3
<1>9. ASSUME NEW g \in Summarizers, TruncateHistory(g) PROVE SummaryInvOf(k)'
  <2>1. UNCHANGED <<summary, last>> /\ messages' = Truncated(messages) /\ job[g].at = "truncate"
    BY <1>9 DEF TruncateHistory, Elsewhere
  <2>2. CASE k = g
    BY <1>1, <1>9, <2>1, <2>2, JobFields DEF SummaryInvOf, Undisturbed
  <2>3. CASE k # g
    BY <1>2, <1>9, <2>3, JobFields
  <2>4. QED
    BY <2>2, <2>3
<1>10. ASSUME NEW g \in Summarizers, SaveSummary(g) PROVE SummaryInvOf(k)'
  BY <1>2, <1>10, JobFields
<1>11. CASE Restart
  BY <1>2, <1>11, IdleJobType DEF Restart
<1>12. CASE UNCHANGED vars
  BY <1>3, <1>12 DEF vars, session
<1>13. QED
  BY <1>4, <1>5, <1>6, <1>7, <1>8, <1>9, <1>10, <1>11, <1>12 DEF Next, TurnStep

-----------------------------------------------------------------------------
(* The theorems.                                                           *)

LEMMA InitInv == Init => IInv
<1>. SUFFICES ASSUME Init PROVE IInv
  OBVIOUS
<1>1. \A g \in Summarizers : job[g].at = "idle"
  BY IdleJobType DEF Init
<1>2. SavedInv
  <2>1. file \in Session /\ finished = {}
    BY EmptyHistory DEF Init, Session
  <2>2. QED
    BY <2>1 DEF SavedInv
<1>3. OneSummarizer /\ JobInv /\ SummaryInv
  BY <1>1 DEF OneSummarizer, JobInv, SummaryInv
<1>4. QED
  BY <1>2, <1>3, BasicsInit DEF IInv, Basics

LEMMA StepInv == IInv /\ [Next]_vars => IInv'
BY BasicsStep, OneSummarizerStep, JobInvStep, SavedInvStep, SummaryInvStep DEF IInv, Basics

LEMMA InvHolds == Spec => []IInv
BY InitInv, StepInv, PTL DEF Spec

LEMMA InvTyped == IInv => TypeOK
<1>. SUFFICES ASSUME TypeInv PROVE TypeOK
  BY DEF IInv
<1>1. file # Torn => file.messages \in History /\ file.summary \subseteq Numbers
  BY DEF TypeInv, Session
<1>2. /\ turn.at \in {"idle", "reading", "read", "think", "tools", "save", "summarize"}
      /\ turn.left \in 0 .. MaxTools /\ turn.call \in 0 .. MaxMessages
      /\ turn.prompt.history \in History /\ turn.prompt.summary \subseteq Numbers
  BY DEF TypeInv, Turn
<1>3. DOMAIN job = Summarizers /\ \A g \in Summarizers : job[g] \in Job
  BY DEF TypeInv
<1>4. \A g \in Summarizers :
        /\ job[g].at \in {"idle", "start", "taken", "set", "truncate", "save"}
        /\ job[g].history \in History
        /\ job[g].old \subseteq Numbers /\ job[g].new \subseteq Numbers
  BY <1>3 DEF Job
<1>5. QED
  BY <1>1, <1>2, <1>3, <1>4 DEF TypeOK, TypeInv

\* Every variable keeps to its values.  In particular the messages of a history are
\* in the order of their numbers, in memory, in the file and in what a turn and a
\* summarizer have read, although summarizers cut the history while turns add to it.
THEOREM TypeCorrect == Spec => []TypeOK
BY InvHolds, InvTyped, PTL

\* summarizeSession (loop.go:505) reads the summary before it calls the LLM and
\* replaces it afterwards, without a lock in between: since al.summarizing lets one
\* goroutine in per session, the summary it replaces is the one that it has read.
THEOREM SummaryIsFresh == Spec => []SummaryNotStale
<1>1. IInv => SummaryNotStale
  BY DEF IInv, JobInv, SummaryNotStale
<1>2. QED
  BY <1>1, InvHolds, PTL

\* What the session remembers of turns that ended with Save (manager.go:149) is in
\* the file, if no write has failed: a crash at any point of the turns and the
\* summaries that follow loses nothing of them.
THEOREM FinishedTurnsAreSaved == Spec => []FinishedTurnsSaved
<1>1. IInv => FinishedTurnsSaved
  BY DEF IInv, SavedInv, FinishedTurnsSaved
<1>2. QED
  BY <1>1, InvHolds, PTL

\* The summary and the messages that TruncateHistory keeps tell together of all that
\* the user and the assistant said, oversized messages apart, if no message came
\* meanwhile and one call of the LLM made the summary.
THEOREM SummaryLosesNothing == Spec => []SummarizedOrKept
<1>1. IInv => SummarizedOrKept
  <2>. SUFFICES ASSUME IInv, NEW g \in Summarizers, job[g].at = "save",
                       job[g].history[Len(job[g].history)].n = last,
                       Cardinality(Valid(job[g].history)) =< PartLimit,
                       NEW i \in DOMAIN job[g].history,
                       job[g].history[i].role # "tool", ~job[g].history[i].big
                PROVE  job[g].history[i].n \in Remembered
    BY DEF SummarizedOrKept
  <2>. DEFINE h == job[g].history
  <2>1. h \in History
    BY DEF IInv, TypeInv, Job
  <2>2. messages = Truncated(h) /\ Numbered(h, Valid(h)) \subseteq summary
    BY DEF IInv, SummaryInv, Undisturbed, SingleCall
  <2>3. CASE i > Len(h) - KeepLast
    BY <2>1, <2>2, <2>3, TruncatedHistory DEF Remembered
  <2>4. CASE ~(i > Len(h) - KeepLast)
    <3>1. i \in Valid(h)
      BY <2>1, <2>4, HistoryIsSeq DEF Valid
    <3>2. QED
      BY <2>2, <3>1 DEF Numbered, Remembered
  <2>5. QED
    BY <2>3, <2>4
<1>2. QED
  BY <1>1, InvHolds, PTL
=============================================================================
