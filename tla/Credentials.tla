---------------------------- MODULE Credentials ----------------------------
(***************************************************************************)
(* The credentials of pkg/auth: auth.json, which picoclaw auth login and   *)
(* logout change, and which a gateway that talks to OpenAI with a login    *)
(* changes as well, when it refreshes a token in the middle of a turn.     *)
(* Every change is LoadStore, a change of the map, SaveStore, in several   *)
(* processes and goroutines and without a lock; SaveStore truncates the    *)
(* file and then writes it.  config.json names the way to authenticate;    *)
(* CreateProvider reads both when the gateway starts.                      *)
(*                                                                         *)
(* The authorization server is external: a token is a number, and an       *)
(* access token goes stale at some time.  An answer of the server has a    *)
(* new refresh token, which replaces the one it was asked with, or none:   *)
(* then the one it was asked with stays good, but nobody stores it again.  *)
(***************************************************************************)
EXTENDS Integers, FiniteSets

CONSTANTS
  Turns,            (* goroutines and processes that call the LLM           *)
  Models,           (* sets of names of providers that a model name         *)
                    (* contains; "openrouter" and "bedrock" stand for a     *)
                    (* prefix, "vllm" for a VLLM API base in the config     *)
  Keys,             (* sets of providers with an API key in the config      *)
  Torn,             (* a file that does not parse                           *)
  MaxTokens, MaxCommands, MaxExits, MaxFaults   (* bounds                   *)

VARIABLES
  authFile,         (* auth.json: the stored credentials by provider, a     *)
                    (* missing file being an empty store; or Torn           *)
  config,           (* config.json: model, API keys, AuthMethod; or Torn    *)
  provider,         (* what the gateway talks to; "down" if it is not there *)
  turn,             (* per goroutine: where its token source is             *)
  cli,              (* the command: where it is                             *)
  issued,           (* the server: tokens issued                            *)
  live, stale,      (* refresh tokens it honours, access tokens that        *)
                    (* NeedsRefresh finds due                               *)
  commands, exits, faults,
  loggedIn,         (* history: logins whose write was the last             *)
  disturbed         (* history: a command changed the file under a refresh, *)
                    (* the gateway ended in the middle of one, or a second  *)
                    (* refresh went on beside one whose answer left the old *)
                    (* refresh token good                                   *)

files   == <<authFile, config>>
server  == <<issued, live, stale>>
vars == <<files, provider, turn, cli, server, commands, exits, faults, loggedIn, disturbed>>

Accounts == {"openai", "anthropic"}
Methods  == {"", "oauth", "token"}
Tokens   == 1 .. MaxTokens

ASSUME ConstantAssumption ==
  /\ IsFiniteSet(Turns)
  /\ \A bound \in {MaxTokens, MaxCommands, MaxExits, MaxFaults} : bound \in Nat

\* A refresh token 0 is none: that of a pasted token, and of an answer of the
\* server that has none.
AuthCredential == [access : Tokens, refresh : 0 .. MaxTokens, method : {"oauth", "token"}]
Store  == UNION {[P -> AuthCredential] : P \in SUBSET Accounts}
Config == [names : Models, keys : Keys, method : [Accounts -> Methods]]
NoStore == [p \in {} |-> 0]
NoCred  == [access |-> 0, refresh |-> 0, method |-> ""]

\* A file that does not parse is not one that does.
ASSUME TornAssumption == Torn \notin Store /\ Torn \notin Config

IdleTurn == [at |-> "idle", refresh |-> 0, cred |-> NoCred, store |-> NoStore]
IdleCli  == [at |-> "idle", op |-> "none", account |-> "none", cred |-> NoCred, store |-> NoStore]

Init ==
  /\ authFile = NoStore
  /\ \E names \in Models, keys \in Keys :
       config = [names |-> names, keys |-> keys, method |-> [p \in Accounts |-> ""]]
  /\ provider = "down"
  /\ turn = [g \in Turns |-> IdleTurn] /\ cli = IdleCli
  /\ issued = 0 /\ live = {} /\ stale = {}
  /\ commands = 0 /\ exits = 0 /\ faults = 0
  /\ loggedIn = {} /\ disturbed = FALSE

Put(store, p, cred) == [q \in DOMAIN store \cup {p} |-> IF q = p THEN cred ELSE store[q]]

\* Mutant: a logout leaves an entry without tokens.
Without_Blank(store, p) == [store EXCEPT ![p] = NoCred]

Without(store, p) == [q \in DOMAIN store \ {p} |-> store[q]]

Fault == faults < MaxFaults /\ faults' = faults + 1

\* A command is in the middle of changing the file; a goroutine is in the
\* middle of a refresh.
InCommand == cli.at \in {"load", "write", "writing"}
InRefresh == \E g \in Turns : turn[g].at # "idle"

\* Nothing but the server's refusal of a used refresh token keeps two
\* refreshes from writing the file at the same time: an answer that left the
\* token good, and another goroutine that refreshes meanwhile.
Holds(g)  == turn[g].at \in {"load", "write", "writing"}
Unguarded == \E g, h \in Turns : g # h /\ Holds(g) /\ turn[g].cred.refresh = 0 /\ turn[h].at # "idle"

Observe == disturbed' = (disturbed \/ (InCommand' /\ InRefresh') \/ Unguarded')

-----------------------------------------------------------------------------
(* CreateProvider, when the gateway starts.                                *)

\* The cases of the switch after the first, in their order.
Order == <<"anthropic", "openai", "gemini", "zhipu", "groq">>

Configured(p) == p \in config.keys \/ (p \in Accounts /\ config.method[p] # "")

\* The provider that the model's name picks: a vendor prefix is OpenRouter's,
\* then the first that is named and configured, then VLLM, then OpenRouter.
Chosen ==
  LET named == {i \in DOMAIN Order : Order[i] \in config.names /\ Configured(Order[i])}
  IN  IF "openrouter" \in config.names THEN "openrouter"
      ELSE IF named # {} THEN Order[CHOOSE i \in named : \A j \in named : i =< j]
      ELSE IF "vllm" \in config.names THEN "vllm"
      ELSE "openrouter"

\* Mutant: an API key is preferred to a login.
CreateProvider_KeyFirst ==
  CASE Chosen \in config.keys -> "http"
    [] Chosen \in Accounts /\ Chosen \notin config.keys /\ Chosen \in DOMAIN authFile ->
         IF Chosen = "openai" THEN "codex" ELSE "claude"
    [] OTHER -> "error"

\* createCodexAuthProvider and createClaudeAuthProvider need a stored credential;
\* anything else needs a key, except a model whose name begins with bedrock/.
CreateProvider ==
  CASE Chosen \in Accounts /\ config.method[Chosen] \in {"oauth", "token"} ->
         IF Chosen \notin DOMAIN authFile THEN "error"
         ELSE IF Chosen = "openai" THEN "codex" ELSE "claude"
    [] /\ Chosen \in config.keys \/ (Chosen = "vllm" /\ "bedrock" \in config.names)
       /\ ~(Chosen \in Accounts /\ config.method[Chosen] # "") -> "http"
    [] OTHER -> "error"

StartGateway ==
  /\ provider = "down"
  /\ config # Torn /\ authFile # Torn
  /\ CreateProvider # "error"
  /\ provider' = CreateProvider
  /\ UNCHANGED <<files, turn, cli, server, commands, exits, faults, loggedIn, disturbed>>

\* The gateway ends at any point, also in the middle of a turn.
StopGateway ==
  /\ provider # "down" /\ exits < MaxExits
  /\ exits' = exits + 1
  /\ provider' = "down"
  /\ turn' = [g \in Turns |-> IdleTurn]
  /\ disturbed' = (disturbed \/ InRefresh)
  /\ UNCHANGED <<files, cli, server, commands, faults, loggedIn>>

-----------------------------------------------------------------------------
(* The token source of the Codex provider, at the beginning of Chat.       *)

Elsewhere == UNCHANGED <<config, provider, cli, commands, exits, loggedIn>> /\ Observe
Goto(g, place) == turn' = [turn EXCEPT ![g].at = place]
GiveUp(g)      == turn' = [turn EXCEPT ![g] = IdleTurn]

\* The credential made of an answer of the server, with the refresh token of
\* the answer, which is 0 if it has none.
ParseTokenResponse(refresh) == [access |-> issued + 1, refresh |-> refresh, method |-> "oauth"]

\* GetCredential.  A token that is not due, or cannot be refreshed, is used as
\* it is; no credential and a file that does not parse fail the turn.
GetToken(g) ==
  /\ provider = "codex" /\ turn[g].at = "idle"
  /\ authFile # Torn /\ "openai" \in DOMAIN authFile
  /\ LET cred == authFile["openai"]
     IN  /\ cred.method = "oauth" /\ cred.access \in stale /\ cred.refresh # 0
         /\ turn' = [turn EXCEPT ![g].at = "refresh", ![g].refresh = cred.refresh]
  /\ UNCHANGED <<authFile, server, faults>> /\ Elsewhere

\* The server gives new tokens, unless it does not know the refresh token; the
\* answer may be lost on its way.
RefreshAccessToken(g) ==
  /\ turn[g].at = "refresh"
  /\ \/ /\ turn[g].refresh \in live /\ issued < MaxTokens
        /\ issued' = issued + 1
        /\ \E refresh \in {issued', 0} :
             /\ live' = IF refresh = 0 THEN live ELSE (live \ {turn[g].refresh}) \cup {refresh}
             /\ \/ /\ turn' = [turn EXCEPT ![g].at = "load", ![g].cred = ParseTokenResponse(refresh)]
                   /\ UNCHANGED faults
                \/ Fault /\ GiveUp(g)
     \/ GiveUp(g) /\ UNCHANGED <<issued, live, faults>>
  /\ UNCHANGED <<authFile, stale>> /\ Elsewhere

\* Mutant: the refreshed credential gets the new access token only.
LoadForRefresh_AccessOnly(g) ==
  /\ turn[g].at = "load"
  /\ IF authFile = Torn THEN GiveUp(g)
     ELSE turn' = [turn EXCEPT ![g].at = "write",
                     ![g].store = Put(authFile, "openai", [turn[g].cred EXCEPT !.refresh = turn[g].refresh])]
  /\ UNCHANGED <<authFile, server, faults>> /\ Elsewhere

\* SetCredential reads the store again; if it does not parse, the new token is
\* not stored.
LoadForRefresh(g) ==
  /\ turn[g].at = "load"
  /\ IF authFile = Torn THEN GiveUp(g)
     ELSE turn' = [turn EXCEPT ![g].at = "write", ![g].store = Put(authFile, "openai", turn[g].cred)]
  /\ UNCHANGED <<authFile, server, faults>> /\ Elsewhere

\* os.WriteFile: truncate, then write.  What was written between the two by
\* another process may be longer, and leave a file that does not parse.
Truncate == authFile' = Torn
Write(store) == authFile' \in IF authFile = Torn THEN {store} ELSE {store, Torn}

SaveRefreshed(g) ==
  /\ \/ turn[g].at = "write" /\ Truncate /\ Goto(g, "writing") /\ UNCHANGED faults
     \/ turn[g].at = "writing" /\ Write(turn[g].store) /\ GiveUp(g) /\ UNCHANGED faults
     \/ turn[g].at \in {"write", "writing"} /\ Fault /\ GiveUp(g) /\ UNCHANGED authFile
  /\ UNCHANGED server /\ Elsewhere

-----------------------------------------------------------------------------
(* picoclaw auth login and logout.                                         *)

Aside == UNCHANGED <<provider, exits>> /\ Observe
Exit  == cli' = IdleCli

\* authLoginCmd, authLogoutCmd: the provider is required for a login, and its
\* absence ("all") means all for a logout.
Login(account, place) ==
  /\ cli.at = "idle" /\ commands < MaxCommands
  /\ place \in IF account = "openai" THEN {"browser", "device"} ELSE {"paste"}
  /\ commands' = commands + 1
  /\ cli' = [IdleCli EXCEPT !.at = place, !.op = "login", !.account = account]
  /\ UNCHANGED <<files, turn, server, faults, loggedIn>> /\ Aside

Logout(account) ==
  /\ cli.at = "idle" /\ commands < MaxCommands
  /\ commands' = commands + 1
  /\ cli' = [IdleCli EXCEPT !.at = "load", !.op = "logout", !.account = account]
  /\ UNCHANGED <<files, turn, server, faults, loggedIn>> /\ Aside

Issue ==
  /\ issued < MaxTokens
  /\ issued' = issued + 1
  /\ UNCHANGED <<files, turn, stale, commands, faults, loggedIn>> /\ Aside

\* A code is exchanged for tokens, with a refresh token or without one.
ExchangeCode ==
  \E refresh \in {issued + 1, 0} :
    /\ cli' = [cli EXCEPT !.at = "load", !.cred = ParseTokenResponse(refresh)]
    /\ live' = live \cup ({refresh} \ {0})
    /\ Issue

Refuse == Exit /\ UNCHANGED <<files, turn, server, commands, faults, loggedIn>> /\ Aside

\* The browser calls back with a code, which is exchanged for tokens; or with
\* another state or an error, or not within five minutes.
LoginBrowser ==
  /\ cli.at = "browser"
  /\ ExchangeCode \/ Refuse

\* The server is polled until it gives tokens or until the deadline of fifteen
\* minutes; an error of a poll or of the exchange goes on polling.
LoginDeviceCode ==
  /\ cli.at = "device"
  /\ ExchangeCode \/ Refuse

\* The user pastes a token or nothing.
LoginPasteToken ==
  /\ cli.at = "paste"
  /\ \/ /\ cli' = [cli EXCEPT !.at = "load", !.cred = [access |-> issued + 1, refresh |-> 0, method |-> "token"]]
        /\ Issue /\ UNCHANGED live
     \/ Refuse

\* Mutant: the store is not read before it is written.
LoadForCommand_Blank ==
  /\ cli.at = "load" /\ cli.account # "all"
  /\ cli' = [cli EXCEPT !.at = "write",
                        !.store = IF cli.op = "login" THEN Put(NoStore, cli.account, cli.cred) ELSE NoStore]
  /\ UNCHANGED <<files, turn, server, commands, faults, loggedIn>> /\ Aside

\* SetCredential and DeleteCredential.
LoadForCommand ==
  /\ cli.at = "load" /\ cli.account # "all"
  /\ IF authFile = Torn THEN Exit
     ELSE cli' = [cli EXCEPT !.at = "write",
                             !.store = IF cli.op = "login" THEN Put(authFile, cli.account, cli.cred)
                                                           ELSE Without(authFile, cli.account)]
  /\ UNCHANGED <<files, turn, server, commands, faults, loggedIn>> /\ Aside

SaveByCommand ==
  /\ \/ /\ cli.at = "write" /\ Truncate
        /\ cli' = [cli EXCEPT !.at = "writing"]
        /\ UNCHANGED <<faults, loggedIn>>
     \/ /\ cli.at = "writing" /\ Write(cli.store)
        /\ cli' = [cli EXCEPT !.at = "config"]
        /\ loggedIn' = IF cli.op = "login" THEN loggedIn \cup {cli.account} ELSE loggedIn \ {cli.account}
        /\ UNCHANGED faults
     \/ /\ cli.at \in {"write", "writing"} /\ Fault
        /\ Exit
        /\ UNCHANGED <<authFile, loggedIn>>
  /\ UNCHANGED <<config, turn, server, commands>> /\ Aside

\* The file is removed; who has it open writes to a file that is gone.
DeleteAllCredentials ==
  /\ cli.at = "load" /\ cli.account = "all"
  /\ authFile' = NoStore
  /\ turn' = [g \in Turns |-> IF turn[g].at = "writing" THEN IdleTurn ELSE turn[g]]
  /\ cli' = [cli EXCEPT !.at = "config"]
  /\ loggedIn' = {}
  /\ UNCHANGED <<config, server, commands, faults>> /\ Aside

\* loadConfig, AuthMethod, SaveConfig; a config that cannot be read is left
\* alone, and one that cannot be saved is reported or not.
UpdateConfig ==
  /\ cli.at = "config"
  /\ Exit
  /\ \/ /\ config # Torn
        /\ LET method == IF cli.op = "login" THEN cli.cred.method ELSE ""
           IN  config' = [config EXCEPT !.method = [p \in Accounts |->
                            IF cli.account \in {p, "all"} THEN method ELSE @[p]]]
        /\ UNCHANGED faults
     \/ config = Torn /\ UNCHANGED <<config, faults>>
     \/ Fault /\ config' \in {config, Torn}
  /\ UNCHANGED <<authFile, turn, server, commands, loggedIn>> /\ Aside

\* The user interrupts the command.
Interrupt ==
  /\ cli.at # "idle" /\ Fault /\ Exit
  /\ UNCHANGED <<files, turn, server, commands, loggedIn>> /\ Aside

\* Time passes.
Expire(n) ==
  /\ n =< issued /\ n \notin stale
  /\ stale' = stale \cup {n}
  /\ UNCHANGED <<files, turn, cli, issued, live, commands, faults, loggedIn>> /\ Aside

-----------------------------------------------------------------------------
Next ==
  \/ StartGateway
  \/ StopGateway
  \/ \E g \in Turns :
       \/ GetToken(g)
       \/ RefreshAccessToken(g)
       \/ LoadForRefresh(g)
       \/ SaveRefreshed(g)
  \/ \E place \in {"browser", "device"} : Login("openai", place)
  \/ Login("anthropic", "paste")
  \/ \E account \in Accounts \cup {"all"} : Logout(account)
  \/ LoginBrowser
  \/ LoginDeviceCode
  \/ LoginPasteToken
  \/ LoadForCommand
  \/ SaveByCommand
  \/ DeleteAllCredentials
  \/ UpdateConfig
  \/ Interrupt
  \/ \E n \in Tokens : Expire(n)

Spec == Init /\ [][Next]_vars

-----------------------------------------------------------------------------
TurnType == [at      : {"idle", "refresh", "load", "write", "writing"},
             refresh : 0 .. MaxTokens,
             cred    : AuthCredential \cup {NoCred},
             store   : Store]
CliType  == [at      : {"idle", "browser", "device", "paste", "load", "write", "writing", "config"},
             op      : {"none", "login", "logout"},
             account : Accounts \cup {"all", "none"},
             cred    : AuthCredential \cup {NoCred},
             store   : Store]

Typed ==
  /\ authFile \in Store \cup {Torn} /\ config \in Config \cup {Torn}
  /\ provider \in {"down", "codex", "claude", "http"}
  /\ turn \in [Turns -> TurnType] /\ cli \in CliType
  /\ issued \in 0 .. MaxTokens /\ live \subseteq Tokens /\ stale \subseteq Tokens
  /\ commands \in 0 .. MaxCommands /\ exits \in 0 .. MaxExits /\ faults \in 0 .. MaxFaults
  /\ loggedIn \subseteq Accounts

TypeOK == Typed /\ disturbed \in BOOLEAN

\* Nothing failed, no command was interrupted, and no refresh was cut off, had
\* a command change the file under it, or ran unguarded beside another one.
Calm  == faults = 0 /\ ~disturbed
Still == cli.at = "idle" /\ ~InRefresh

\* Whatever turns refresh the token at the same time, each with the token it
\* has read: the refresh token that is left in the file is one that the server
\* honours, and the login goes on; or there is none in the file, as the last
\* answer had none, and the login ends when its access token goes stale.
StoredTokenLives ==
  Calm /\ Still /\ authFile # Torn /\ "openai" \in DOMAIN authFile =>
    authFile["openai"].refresh \in live \cup {0}

\* A login lasts until its logout: its credential is stored beside that of the
\* other provider, config.json names its method, and a gateway whose model is
\* of that provider starts with it, an API key notwithstanding.
LoginsUsable ==
  Calm /\ Still =>
    /\ DOMAIN authFile = loggedIn
    /\ \A p \in Accounts :
         config.method[p] = IF p \in loggedIn THEN authFile[p].method ELSE ""
    /\ \A p \in loggedIn : config.names = {p} =>
         CreateProvider = IF p = "openai" THEN "codex" ELSE "claude"
=============================================================================
