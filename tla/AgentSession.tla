---------------------------- MODULE AgentSession ----------------------------
(***************************************************************************)
(* The conversation of one chat: the agent's turn that reads and extends   *)
(* it (runAgentLoop in pkg/agent/loop.go), the goroutine that summarizes   *)
(* it in the background (summarizeSession), and the session manager that   *)
(* keeps it in memory and in a file (pkg/session/manager.go).  The turns   *)
(* of a chat follow each other; the summarizer runs beside them.  Every    *)
(* method of the manager holds sm.mu and is one step.                      *)
(*                                                                         *)
(* A message is its number, its role, whether it exceeds half the context  *)
(* window, and what links tool calls and results.  A summary is the set of *)
(* the messages it tells of; an LLM that answers is taken to tell of all   *)
(* that it was given.                                                      *)
(***************************************************************************)
EXTENDS Integers, Sequences, FiniteSets, Providers

CONSTANTS
  SummarizeAbove,   (* history length that starts a summary: 20 in the code *)
  KeepLast,         (* messages kept in the history: 4 in the code          *)
  PartLimit,        (* messages summarized in one call: 10 in the code      *)
  Oversized,        (* whether messages may be oversized: a set of BOOLEANs *)
  Summarizers,      (* the goroutines that may run summarizeSession         *)
  Torn,             (* a file that does not parse                           *)
  MaxTools,         (* tool calls in one answer of the LLM                  *)
  MaxMessages,      (* bound on the messages of the session                 *)
  MaxCrashes, MaxFaults   (* bounds on crashes, on failed writes            *)

VARIABLES
  messages, summary,   (* the session in memory                             *)
  file,                (* its file, a missing one being an empty session    *)
  last,                (* number of the last message                        *)
  turn,                (* the turn: where it is, its message with tool      *)
                       (* calls, results to come, and its prompt: what it   *)
                       (* has read and the messages it has added since      *)
  job,                 (* per summarizer: where it is, what it has read and *)
                       (* what it will write                                *)
  summarizing,         (* al.summarizing holds the session                  *)
  crashes, faults,     (* counters of the bounds                            *)
  finished             (* history: messages of turns that ended with Save   *)

session == <<messages, summary>>
vars == <<session, file, last, turn, job, summarizing, crashes, faults, finished>>

ASSUME ConstantAssumption ==
  /\ KeepLast \in Nat \ {0} /\ SummarizeAbove \in Nat /\ PartLimit \in Nat
  /\ Oversized \subseteq BOOLEAN /\ IsFiniteSet(Summarizers)
  /\ MaxTools \in Nat /\ MaxMessages \in Nat /\ MaxCrashes \in Nat /\ MaxFaults \in Nat

Numbers == 1 .. MaxMessages
Roles   == {"user", "assistant", "call", "tool"}

\* "call" is an assistant's message with count tool calls, and "tool" the
\* result of the call numbered count of message number of.
Message == [n : Numbers, role : Roles, big : BOOLEAN,
            of : 0 .. MaxMessages, count : 0 .. MaxTools]

Told(s) == {s[i].n : i \in DOMAIN s}

NoPrompt == [history |-> <<>>, summary |-> {}]
IdleTurn == [at |-> "idle", call |-> 0, left |-> 0, prompt |-> NoPrompt]
IdleJob  == [at |-> "idle", history |-> <<>>, old |-> {}, new |-> {}]

-----------------------------------------------------------------------------
(* The session manager.                                                    *)

\* The message goes into the session and, as "next" says, into the turn.
AddFullMessage(role, of, count, next) ==
  /\ last < MaxMessages
  /\ last' = last + 1
  /\ \E big \in Oversized :
       LET m == [n |-> last', role |-> role, big |-> big, of |-> of, count |-> count]
       IN  /\ messages' = Append(messages, m)
           /\ turn' = [next EXCEPT !.prompt.history = Append(@, m)]
  /\ UNCHANGED <<summary, file, job, summarizing, crashes, faults, finished>>

\* Mutant: one message too few is kept.
Truncated_Fewer(s) == IF Len(s) =< KeepLast THEN s ELSE SubSeq(s, Len(s) - KeepLast + 2, Len(s))

\* TruncateHistory
Truncated(s) == IF Len(s) =< KeepLast THEN s ELSE SubSeq(s, Len(s) - KeepLast + 1, Len(s))

\* Save of the session as it is in memory at that time.
Save(data) ==
  \/ file' = data /\ UNCHANGED faults
  \/ /\ faults < MaxFaults
     /\ faults' = faults + 1
     /\ file' \in {file, Torn}

InMemory == [messages |-> messages, summary |-> summary]

-----------------------------------------------------------------------------
Init ==
  /\ messages = <<>> /\ summary = {} /\ file = [messages |-> <<>>, summary |-> {}]
  /\ last = 0 /\ crashes = 0 /\ faults = 0 /\ finished = {}
  /\ turn = IdleTurn
  /\ job = [g \in Summarizers |-> IdleJob]
  /\ summarizing = FALSE

\* runAgentLoop reads the history and then the summary, for a message of the
\* user or for the announcement of a subagent ("system").
ReadHistory == turn' = [turn EXCEPT !.at = "reading", !.prompt.history = messages]
ReadSummary == turn' = [turn EXCEPT !.at = "read", !.prompt.summary = summary]

\* Mutant: the summary is read first.
BuildMessages_SummaryFirst ==
  /\ \/ turn.at = "idle" /\ turn' = [turn EXCEPT !.at = "reading", !.prompt.summary = summary]
     \/ turn.at = "reading" /\ turn' = [turn EXCEPT !.at = "read", !.prompt.history = messages]
  /\ UNCHANGED <<session, file, last, job, summarizing, crashes, faults, finished>>

BuildMessages ==
  /\ \/ turn.at = "idle" /\ ReadHistory
     \/ turn.at = "reading" /\ ReadSummary
  /\ UNCHANGED <<session, file, last, job, summarizing, crashes, faults, finished>>

AddUserMessage ==
  /\ turn.at = "read"
  /\ AddFullMessage("user", 0, 0, [turn EXCEPT !.at = "think"])

\* Mutant: one result too many is waited for.
CallTools_OneMore(count) ==
  /\ turn.at = "think"
  /\ AddFullMessage("call", 0, count,
                    [turn EXCEPT !.at = "tools", !.call = last + 1, !.left = count + 1])

\* The LLM answers with tool calls; their results are added one by one, an
\* error of a tool being a result as well.
CallTools(count) ==
  /\ turn.at = "think"
  /\ AddFullMessage("call", 0, count,
                    [turn EXCEPT !.at = "tools", !.call = last + 1, !.left = count])

AddToolResult ==
  /\ turn.at = "tools"
  /\ AddFullMessage("tool", turn.call, last - turn.call + 1,
                    IF turn.left = 1
                    THEN [turn EXCEPT !.at = "think", !.call = 0, !.left = 0]
                    ELSE [turn EXCEPT !.left = @ - 1])

\* Mutant: the error of a tool ends the turn.
EndTurn == turn' = IdleTurn
Fail_AnyTime ==
  /\ turn.at \in {"think", "tools"}
  /\ EndTurn
  /\ UNCHANGED <<session, file, last, job, summarizing, crashes, faults, finished>>

\* A call of the LLM fails: the turn ends and nothing is saved.
Fail ==
  /\ turn.at = "think"
  /\ EndTurn
  /\ UNCHANGED <<session, file, last, job, summarizing, crashes, faults, finished>>

\* The LLM answers, or gives the default response after max_tool_iterations.
Answer ==
  /\ turn.at = "think"
  /\ AddFullMessage("assistant", 0, 0, [IdleTurn EXCEPT !.at = "save"])

SaveTurn ==
  /\ turn.at = "save"
  /\ Save(InMemory)
  /\ finished' = finished \cup Told(messages)
  /\ \/ turn' = [turn EXCEPT !.at = "summarize"]
     \/ EndTurn         \* a system message: EnableSummary is false
  /\ UNCHANGED <<session, last, job, summarizing, crashes>>

\* maybeSummarize: a history that is long, or has much text (a choice here), is
\* summarized unless a summarizer is at work on this session.
Launch == \E g \in Summarizers : /\ job[g] = IdleJob
                                 /\ job' = [job EXCEPT ![g].at = "start"]
                                 /\ summarizing' = TRUE

\* Mutant: two summarizers may work on one session.
MaybeSummarize_Unguarded ==
  /\ turn.at = "summarize"
  /\ EndTurn
  /\ Launch
  /\ UNCHANGED <<session, file, last, crashes, faults, finished>>

MaybeSummarize ==
  /\ turn.at = "summarize"
  /\ EndTurn
  /\ \/ ~summarizing /\ Launch
     \/ (summarizing \/ Len(messages) =< SummarizeAbove) /\ UNCHANGED <<job, summarizing>>
  /\ UNCHANGED <<session, file, last, crashes, faults, finished>>

-----------------------------------------------------------------------------
(* summarizeSession.                                                       *)

Elsewhere == UNCHANGED <<last, turn, crashes, finished>>

TakeHistory(g) ==
  /\ job[g].at = "start"
  /\ job' = [job EXCEPT ![g].at = "taken", ![g].history = messages]
  /\ UNCHANGED <<session, file, faults, summarizing>> /\ Elsewhere

\* The messages handed to the LLM: not the last ones, no tool results, nothing
\* oversized.
Valid(h) == {i \in 1 .. Len(h) - KeepLast : h[i].role # "tool" /\ ~h[i].big}

Numbered(h, I) == {h[i].n : i \in I}

\* What the calls of the LLM make of them.  In one part, together with the old
\* summary; an error gives no summary.  In two parts, without the old summary;
\* an error gives an empty part, and the merged summary is never empty unless
\* the LLM merges them into nothing.
Halves(h) == LET half == Cardinality(Valid(h)) \div 2
             IN  {i \in Valid(h) : Cardinality({j \in Valid(h) : j =< i}) =< half}

Summaries(h, old) ==
  IF Cardinality(Valid(h)) > PartLimit
  THEN LET p == Numbered(h, Halves(h)) 
           q == Numbered(h, Valid(h) \ Halves(h))
       IN  {p \cup q, p, q, {}}
  ELSE {Numbered(h, Valid(h)) \cup old}

Finish(g) == job' = [job EXCEPT ![g] = IdleJob] /\ summarizing' = FALSE

\* GetSummary, then the calls of the LLM: nothing to summarize and no summary
\* end the goroutine.  (The reading of the old summary needs no step of its own:
\* only a summarizer writes it.)
Summarize(g) ==
  /\ job[g].at = "taken"
  /\ \/ Finish(g)
     \/ /\ Valid(job[g].history) # {}
        /\ \E new \in Summaries(job[g].history, summary) :
             job' = [job EXCEPT ![g].at = "set", ![g].old = summary, ![g].new = new]
        /\ UNCHANGED summarizing
  /\ UNCHANGED <<session, file, faults>> /\ Elsewhere

SetSummary(g) ==
  /\ job[g].at = "set"
  /\ summary' = job[g].new
  /\ job' = [job EXCEPT ![g].at = "truncate"]
  /\ UNCHANGED <<messages, file, faults, summarizing>> /\ Elsewhere

TruncateHistory(g) ==
  /\ job[g].at = "truncate"
  /\ messages' = Truncated(messages)
  /\ job' = [job EXCEPT ![g].at = "save"]
  /\ UNCHANGED <<summary, file, faults, summarizing>> /\ Elsewhere

\* Mutant: what the goroutine has read is saved.
SaveSummary_Read(g) ==
  /\ job[g].at = "save"
  /\ Save([messages |-> Truncated(job[g].history), summary |-> job[g].new])
  /\ Finish(g)
  /\ UNCHANGED session /\ Elsewhere

SaveSummary(g) ==
  /\ job[g].at = "save"
  /\ Save(InMemory)
  /\ Finish(g)
  /\ UNCHANGED session /\ Elsewhere

-----------------------------------------------------------------------------
\* The process ends at any point and starts again: loadSessions skips a file
\* that does not parse.
Restart ==
  /\ crashes < MaxCrashes
  /\ crashes' = crashes + 1
  /\ LET loaded == IF file = Torn THEN [messages |-> <<>>, summary |-> {}] ELSE file
     IN  messages' = loaded.messages /\ summary' = loaded.summary
  /\ turn' = IdleTurn
  /\ job' = [g \in Summarizers |-> IdleJob]
  /\ summarizing' = FALSE
  /\ UNCHANGED <<file, last, faults, finished>>

Next ==
  \/ BuildMessages
  \/ AddUserMessage
  \/ \E count \in 1 .. MaxTools : CallTools(count)
  \/ AddToolResult
  \/ Fail
  \/ Answer
  \/ SaveTurn
  \/ MaybeSummarize
  \/ \E g \in Summarizers :
       \/ TakeHistory(g)
       \/ Summarize(g)
       \/ SetSummary(g)
       \/ TruncateHistory(g)
       \/ SaveSummary(g)
  \/ Restart

Spec == Init /\ [][Next]_vars

-----------------------------------------------------------------------------
History == {s \in Seq(Message) : \A i, j \in DOMAIN s : i < j => s[i].n < s[j].n}

TypeOK ==
  /\ messages \in History /\ summary \subseteq Numbers
  /\ file # Torn => file.messages \in History /\ file.summary \subseteq Numbers
  /\ last \in 0 .. MaxMessages
  /\ turn.at \in {"idle", "reading", "read", "think", "tools", "save", "summarize"}
  /\ turn.left \in 0 .. MaxTools /\ turn.call \in 0 .. MaxMessages
  /\ turn.prompt.history \in History /\ turn.prompt.summary \subseteq Numbers
  /\ DOMAIN job = Summarizers
  /\ \A g \in Summarizers :
       /\ job[g].at \in {"idle", "start", "taken", "set", "truncate", "save"}
       /\ job[g].history \in History
       /\ job[g].old \subseteq Numbers /\ job[g].new \subseteq Numbers
  /\ summarizing \in BOOLEAN
  /\ crashes \in 0 .. MaxCrashes /\ faults \in 0 .. MaxFaults
  /\ finished \subseteq Numbers

\* Whatever the provider, the request of a turn leaves out nothing that the
\* session remembers, in the order of the conversation, though a summarizer may
\* replace messages by a summary between the two reads of runAgentLoop.
Remembered == Told(messages) \cup summary

RequestCovers(r) ==
  /\ Remembered \subseteq {r.items[i].n : i \in DOMAIN r.items} \cup r.system
  /\ \A i, j \in DOMAIN r.items : i < j => r.items[i].n =< r.items[j].n

PromptCoversSession ==
  turn.at = "think" => \A kind \in Kinds, form \in PlainForms :
                         RequestCovers(Request(kind, turn.prompt, form))

\* A summarizer replaces the summary it has read, not one that another wrote
\* in the meantime.
SummaryNotStale == \A g \in Summarizers : job[g].at = "set" => job[g].old = summary

\* What is remembered of finished turns is in the file, whatever summarizer or
\* turn is at work, and so survives a crash at any point.
FinishedTurnsSaved ==
  faults = 0 => finished \cap Remembered \subseteq Told(file.messages) \cup file.summary

\* Whatever the provider, each call in the request of a turn has a result, of
\* its id and before anything else is said, and each result has its call, unless
\* a summarizer has cut the history in the middle of them; as long as the process
\* has not crashed.
CallsHaveResults(items) ==
  \A i \in DOMAIN items : items[i].item = "call" =>
    \E j \in i + 1 .. Len(items) :
      /\ items[j].item = "result" /\ items[j].id = items[i].id
      /\ \A l \in i .. j : items[l].item # "text"

ResultsHaveCalls(items) ==
  \A i \in DOMAIN items : items[i].item = "result" =>
    \/ \E j \in 1 .. i - 1 : items[j].item = "call" /\ items[j].id = items[i].id
    \/ \A j \in 1 .. i : items[j].item = "result" /\ items[j].id[1] = items[i].id[1]

ToolResultsFollow ==
  turn.at = "think" /\ crashes = 0 => \A kind \in Kinds, form \in PlainForms :
    LET items == Request(kind, turn.prompt, form).items
    IN  CallsHaveResults(items) /\ ResultsHaveCalls(items)

\* loop.go:537, "Keep last 4 messages for continuity": if no message came while
\* the summarizer was at work, and a single call made the summary, each message
\* of the user and of the assistant that is not oversized is either in the
\* summary or still in the history.
SummarizedOrKept ==
  \A g \in Summarizers : LET h == job[g].history IN
    job[g].at = "save" /\ h[Len(h)].n = last /\ Cardinality(Valid(h)) =< PartLimit =>
      {h[i].n : i \in {i \in DOMAIN h : h[i].role # "tool" /\ ~h[i].big}} \subseteq Remembered

\* codex_provider_test.go:44, a conversation whose message with a tool call has
\* "Name: "get_weather", Arguments: ...": the request repeats the calls of the
\* LLM under the names and with the arguments they were made with.
CallsRepeated ==
  turn.at = "think" => \A kind \in Kinds, form \in Forms :
    LET items == Request(kind, turn.prompt, form).items
    IN  \A i \in DOMAIN items : items[i].item = "call" =>
          LET made == Parse(kind, Called(items[i].id[1], items[i].id[2], form))
          IN  items[i].name = made.Name /\ items[i].arguments = made.Arguments
=============================================================================
