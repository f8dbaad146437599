------------------------------ MODULE Providers ------------------------------
(***************************************************************************)
(* How a turn talks to an LLM: the answer of the API is parsed into tool   *)
(* calls, the agent loop records them in a message (runLLMIteration in     *)
(* pkg/agent/loop.go), and the next request is built from the messages by  *)
(* the provider in use (pkg/providers): an OpenAI-compatible HTTP API, the *)
(* Claude API or the Codex API.  A request is the summary that its system  *)
(* prompt holds, and its items in order: texts, calls and results.         *)
(***************************************************************************)
EXTENDS Integers, Sequences, SequencesExt

Kinds == {"http", "claude", "codex"}

\* An answer with tool calls may have a text as well, arguments that are not
\* JSON, and, of the HTTP API, calls without a function.
Forms == [said : BOOLEAN, arguments : {"object", "text"}, function : BOOLEAN]
PlainForms == [said : BOOLEAN, arguments : {"object"}, function : {TRUE}]

\* The k-th tool call of message n as the LLM makes it.
Called(n, k, form) ==
  [id |-> <<n, k>>, name |-> "tool", arguments |-> form.arguments, function |-> form.function]

-----------------------------------------------------------------------------
(* The answer, as a ToolCall of pkg/providers/types.go.                    *)

ToolCall(id, name, arguments) ==
  [ID |-> id, Name |-> name, Arguments |-> arguments,
   Function |-> [Name |-> "", Arguments |-> "null"]]

\* json.Unmarshal into a map: what is no object is kept under the key "raw".
Unmarshal(arguments) == IF arguments = "object" THEN "object" ELSE "raw"

ParseHTTP(c) == IF c.function THEN ToolCall(c.id, c.name, Unmarshal(c.arguments))
                ELSE ToolCall(c.id, "", "empty")
ParseClaude(tu)  == ToolCall(tu.id, tu.name, Unmarshal(tu.arguments))
ParseCodex(item) == ToolCall(item.id, item.name, Unmarshal(item.arguments))

Parse(kind, c) == CASE kind = "http"   -> ParseHTTP(c)
                    [] kind = "claude" -> ParseClaude(c)
                    [] kind = "codex"  -> ParseCodex(c)

\* The call that is put into the assistant's message: its name and arguments are
\* those of its Function only.
Recorded(tc) == [ID |-> tc.ID, Name |-> "", Arguments |-> "null",
                 Function |-> [Name |-> tc.Name, Arguments |-> tc.Arguments]]

-----------------------------------------------------------------------------
(* The messages of the session as providers.Message, and the request.      *)

ProviderMessage(kind, m, form) ==
  [n |-> m.n,
   role |-> IF m.role = "call" THEN "assistant" ELSE m.role,
   content |-> m.role # "call" \/ form.said,
   calls |-> IF m.role # "call" THEN <<>>
             ELSE [k \in 1 .. m.count |-> Recorded(Parse(kind, Called(m.n, k, form)))],
   id |-> IF m.role = "tool" THEN <<m.of, m.count>> ELSE <<>>]

Text(m)   == [item |-> "text", n |-> m.n, id |-> <<>>, name |-> "", arguments |-> ""]
Result(m) == [item |-> "result", n |-> m.n, id |-> m.id, name |-> "", arguments |-> ""]
CallItem(m, tc, name, arguments) ==
  [item |-> "call", n |-> m.n, id |-> tc.ID, name |-> name, arguments |-> arguments]

\* A message, with the text and then the calls that an assistant's message has.
ItemsOf(m, calls) ==
  CASE m.role = "tool" -> <<Result(m)>>
    [] m.role = "user" -> <<Text(m)>>
    [] m.role = "assistant" -> (IF m.content THEN <<Text(m)>> ELSE <<>>) \o calls

\* The messages as JSON: the API reads the Function of a call.
HTTPItems(m) ==
  ItemsOf(m, [k \in DOMAIN m.calls |->
                LET f == m.calls[k].Function IN CallItem(m, m.calls[k], f.Name, f.Arguments)])

\* A block of tool use or tool result in a message of its role.
ClaudeItems(m) ==
  ItemsOf(m, [k \in DOMAIN m.calls |->
                LET tc == m.calls[k] IN CallItem(m, tc, tc.Name, tc.Arguments)])

\* Mutant: a text stands for the calls of its message.
CodexItems_TextOnly(m) ==
  IF m.role = "assistant" /\ m.content THEN <<Text(m)>> ELSE ClaudeItems(m)

\* An input item per text, function_call and function_call_output.
CodexItems(m) ==
  ItemsOf(m, [k \in DOMAIN m.calls |->
                LET tc == m.calls[k] IN CallItem(m, tc, tc.Name, tc.Arguments)])

Items(kind, m) == CASE kind = "http"   -> HTTPItems(m)
                    [] kind = "claude" -> ClaudeItems(m)
                    [] kind = "codex"  -> CodexItems(m)

\* BuildMessages puts the summary into the system prompt, which Claude and Codex
\* take apart from the messages.
Request(kind, prompt, form) ==
  [system |-> prompt.summary,
   items |-> FlattenSeq([i \in DOMAIN prompt.history |->
                           Items(kind, ProviderMessage(kind, prompt.history[i], form))])]
=============================================================================
