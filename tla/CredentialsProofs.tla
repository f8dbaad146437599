------------------------- MODULE CredentialsProofs -------------------------
(***************************************************************************)
(* Proofs about Credentials: its types; that whatever goroutines refresh   *)
(* the login at the same time, the refresh token left in auth.json is one  *)
(* that the server honours; and that a login lasts until its logout, in    *)
(* auth.json and in config.json, and a gateway starts with it.             *)
(*                                                                         *)
(* As long as nothing fails and no command changes the file under a        *)
(* refresh, one refresh at most is between the server's answer and the end *)
(* of its write: if the answer has a new refresh token, the old one was    *)
(* the one in the file and is used up, and every other goroutine in a      *)
(* refresh holds a token that the server no longer knows; if it has none,  *)
(* no other goroutine is in a refresh.  The file, or the store that its    *)
(* writer holds, is what the logins and config.json say.                   *)
(***************************************************************************)
EXTENDS Credentials, TLAPS

Method(store, p) == IF p \in DOMAIN store THEN store[p].method ELSE ""

\* What config.json says of the provider, once the command has changed it.
Promised(p) ==
  IF cli.at = "config" /\ cli.account \in {p, "all"}
  THEN IF cli.op = "login" THEN cli.cred.method ELSE ""
  ELSE config.method[p]

\* The store is that of the logins.
GoodStore(store) ==
  /\ store \in Store
  /\ DOMAIN store = loggedIn
  /\ \A p \in Accounts : Method(store, p) = Promised(p)
  /\ "openai" \in DOMAIN store => store["openai"].refresh =< issued

\* The login of OpenAI can be refreshed.
Refreshable(store) ==
  /\ "openai" \in DOMAIN store
  /\ store["openai"].method = "oauth"

\* The login of OpenAI, if there is one, is one that the server honours.
Honoured(store) == "openai" \in DOMAIN store => store["openai"].refresh \in live \cup {0}

\* What the command writes in the place of a store.
Changed(store) ==
  IF cli.op = "login" THEN Put(store, cli.account, cli.cred) ELSE Without(store, cli.account)

\* Who is about to store a credential has one, of a provider.
TypeInv ==
  /\ Typed
  /\ \A g \in Turns : Holds(g) => turn[g].cred \in AuthCredential
  /\ InCommand \/ cli.at = "config" => cli.op \in {"login", "logout"}
  /\ cli.at \in {"browser", "device", "paste"} => cli.op = "login"
  /\ cli.at \in {"browser", "device"} => cli.account = "openai"
  /\ cli.at = "paste" => cli.account = "anthropic"
  /\ cli.op = "login" => cli.account \in Accounts
  /\ cli.op = "logout" => cli.account \in Accounts \cup {"all"}
  /\ cli.at \in {"write", "writing"} => cli.account \in Accounts
  /\ InCommand /\ cli.op = "login" => cli.cred \in AuthCredential

AloneInv ==
  /\ ~(InCommand /\ InRefresh) /\ ~Unguarded
  /\ \A g, h \in Turns : Holds(g) /\ Holds(h) => g = h
  /\ live \subseteq 1 .. issued
  /\ config \in Config

FileInv ==
  /\ authFile = Torn <=> cli.at = "writing" \/ \E g \in Turns : turn[g].at = "writing"
  /\ authFile # Torn => GoodStore(authFile)
  /\ authFile # Torn /\ (\A g \in Turns : ~Holds(g)) => Honoured(authFile)
  /\ authFile # Torn /\ (\E g \in Turns : Holds(g) /\ turn[g].cred.refresh # 0) =>
       authFile["openai"].refresh \notin live

\* What TurnInv says of one goroutine.
OneTurn(g) ==
  /\ turn[g].refresh =< issued
  /\ turn[g].at = "refresh" =>
       /\ authFile # Torn => Refreshable(authFile)
       /\ turn[g].refresh \in live =>
            /\ authFile # Torn /\ authFile["openai"].refresh = turn[g].refresh
            /\ \A h \in Turns : ~Holds(h)
  /\ Holds(g) => turn[g].cred.method = "oauth" /\ turn[g].cred.refresh \in live \cup {0}
  /\ turn[g].at \in {"load", "write"} => Refreshable(authFile)
  /\ turn[g].at = "write" => turn[g].store = Put(authFile, "openai", turn[g].cred)
  /\ turn[g].at = "writing" =>
       GoodStore(turn[g].store) /\ Refreshable(turn[g].store) /\ Honoured(turn[g].store)

TurnInv == \A g \in Turns : OneTurn(g)

CommandInv ==
  /\ InCommand /\ cli.op = "login" /\ cli.account = "openai" => cli.cred.refresh \in live \cup {0}
  /\ cli.at = "write" => cli.store = Changed(authFile)
  /\ cli.at = "writing" =>
       /\ cli.store \in Store
       /\ DOMAIN cli.store = IF cli.op = "login" THEN loggedIn \cup {cli.account}
                                                 ELSE loggedIn \ {cli.account}
       /\ \A p \in Accounts :
            Method(cli.store, p) = IF p # cli.account THEN config.method[p]
                                   ELSE IF cli.op = "login" THEN cli.cred.method ELSE ""
       /\ Honoured(cli.store)
       /\ "openai" \in DOMAIN cli.store => cli.store["openai"].refresh =< issued

CalmInv == AloneInv /\ FileInv /\ TurnInv /\ CommandInv
IInv    == TypeInv /\ disturbed \in BOOLEAN /\ (Calm => CalmInv)

LEMMA Bounds == /\ MaxTokens \in Nat /\ MaxCommands \in Nat /\ MaxExits \in Nat /\ MaxFaults \in Nat
                /\ Torn \notin Store /\ Torn \notin Config
BY ConstantAssumption, TornAssumption DEF ConstantAssumption, TornAssumption

USE Bounds

-----------------------------------------------------------------------------
(* The operators on stores.                                                *)

\* Put changes one entry and keeps the others.
PutIs(s, p, c) ==
  /\ Put(s, p, c) \in Store
  /\ DOMAIN Put(s, p, c) = DOMAIN s \cup {p}
  /\ Put(s, p, c)[p] = c
  /\ \A q \in DOMAIN s : q # p => Put(s, p, c)[q] = s[q]
  /\ \A q \in Accounts : Method(Put(s, p, c), q) = IF q = p THEN c.method ELSE Method(s, q)

LEMMA PutFacts == \A s \in Store, p \in Accounts, c \in AuthCredential : PutIs(s, p, c)
<1> SUFFICES ASSUME NEW s \in Store, NEW p \in Accounts, NEW c \in AuthCredential PROVE PutIs(s, p, c)
  OBVIOUS
<1> DEFINE P == DOMAIN s \cup {p}
<1>1. P \in SUBSET Accounts /\ s \in [DOMAIN s -> AuthCredential]
  BY DEF Store
<1>2. Put(s, p, c) \in [P -> AuthCredential]
  BY <1>1 DEF Put
<1>3. Put(s, p, c) \in Store
  BY <1>1, <1>2 DEF Store
<1>4. DOMAIN Put(s, p, c) = P /\ \A q \in P : Put(s, p, c)[q] = IF q = p THEN c ELSE s[q]
  BY DEF Put
<1> QED
  BY <1>3, <1>4 DEF PutIs, Method

\* Without removes one entry and keeps the others.
LEMMA WithoutFacts ==
  ASSUME NEW s \in Store, NEW p \in Accounts
  PROVE  /\ Without(s, p) \in Store
         /\ DOMAIN Without(s, p) = DOMAIN s \ {p}
         /\ \A q \in DOMAIN s \ {p} : Without(s, p)[q] = s[q]
         /\ \A q \in Accounts : Method(Without(s, p), q) = IF q = p THEN "" ELSE Method(s, q)
<1> DEFINE P == DOMAIN s \ {p}
<1>1. P \in SUBSET Accounts /\ s \in [DOMAIN s -> AuthCredential]
  BY DEF Store
<1>2. Without(s, p) \in [P -> AuthCredential]
  BY <1>1 DEF Without
<1>3. Without(s, p) \in Store
  BY <1>1, <1>2 DEF Store
<1>4. DOMAIN Without(s, p) = P /\ \A q \in P : Without(s, p)[q] = s[q]
  BY DEF Without
<1> QED
  BY <1>3, <1>4 DEF Method

LEMMA NoStoreFacts ==
  /\ NoStore \in Store /\ DOMAIN NoStore = {}
  /\ \A p \in Accounts : Method(NoStore, p) = ""
<1>1. {} \in SUBSET Accounts /\ NoStore \in [{} -> AuthCredential]
  BY DEF NoStore
<1>2. NoStore \in Store
  BY <1>1 DEF Store
<1> QED
  BY <1>2 DEF NoStore, Method

LEMMA StoreFacts ==
  ASSUME NEW s \in Store
  PROVE  DOMAIN s \subseteq Accounts /\ \A p \in DOMAIN s : s[p] \in AuthCredential
BY DEF Store

LEMMA StoreNotTorn == \A s \in Store : s # Torn
OBVIOUS

-----------------------------------------------------------------------------
(* The types.                                                              *)

LEMMA IdleTyped == IdleTurn \in TurnType /\ IdleCli \in CliType
<1>1. 0 \in 0 .. MaxTokens
  OBVIOUS
<1>2. NoCred \in AuthCredential \cup {NoCred}
  OBVIOUS
<1> QED
  BY <1>1, <1>2, NoStoreFacts DEF IdleTurn, IdleCli, TurnType, CliType

LEMMA TypeInit == Init => TypeInv /\ disturbed \in BOOLEAN
<1> SUFFICES ASSUME Init PROVE TypeInv /\ disturbed \in BOOLEAN
  OBVIOUS
<1>1. config \in Config
  <2>1. PICK names \in Models, keys \in Keys :
          config = [names |-> names, keys |-> keys, method |-> [p \in Accounts |-> ""]]
    BY DEF Init
  <2>2. [p \in Accounts |-> ""] \in [Accounts -> Methods]
    BY DEF Methods
  <2> QED
    BY <2>1, <2>2 DEF Config
<1>2. turn \in [Turns -> TurnType] /\ cli \in CliType /\ authFile \in Store
  BY IdleTyped, NoStoreFacts DEF Init
<1>3. disturbed \in BOOLEAN
  BY DEF Init
<1>4. Typed
  <2>1. 0 \in 0 .. MaxTokens /\ 0 \in 0 .. MaxCommands /\ 0 \in 0 .. MaxExits /\ 0 \in 0 .. MaxFaults
    OBVIOUS
  <2> QED
    BY <1>1, <1>2, <2>1 DEF Init, Typed
<1>5. TypeInv
  BY <1>4 DEF Init, TypeInv, Holds, InCommand, IdleTurn, IdleCli
<1> QED
  BY <1>3, <1>5

\* What is disturbed is a Boolean.
LEMMA DisturbedTyped == disturbed \in BOOLEAN /\ Next => disturbed' \in BOOLEAN
<1> SUFFICES ASSUME disturbed \in BOOLEAN, Next PROVE disturbed' \in BOOLEAN
  OBVIOUS
<1>1. disturbed' = disturbed \/ Observe \/ StopGateway
  BY DEF Next, StartGateway, GetToken, RefreshAccessToken, LoadForRefresh, SaveRefreshed,
         Elsewhere, Aside, Login, Logout, LoginBrowser, LoginDeviceCode, LoginPasteToken,
         ExchangeCode, Issue, Refuse, LoadForCommand, SaveByCommand, DeleteAllCredentials, UpdateConfig,
         Interrupt, Expire
<1> QED
  BY <1>1 DEF Observe, StopGateway

LEMMA TurnsTyped ==
  ASSUME TypeInv, NEW g \in Turns,
         GetToken(g) \/ RefreshAccessToken(g) \/ LoadForRefresh(g) \/ SaveRefreshed(g)
  PROVE  Typed'
<1> DEFINE T == turn[g]
<1>1. turn \in [Turns -> TurnType] /\ T \in TurnType /\ authFile \in Store \cup {Torn} /\ Typed
  BY DEF TypeInv, Typed, TurnType
<1>2. CASE GetToken(g)
  <2>1. authFile["openai"].refresh \in 0 .. MaxTokens
    BY <1>2, <1>1, StoreFacts DEF GetToken, AuthCredential
  <2>2. turn' \in [Turns -> TurnType]
    BY <1>2, <1>1, <2>1 DEF GetToken, TurnType
  <2> QED
    BY <1>1, <1>2, <2>2 DEF GetToken, Elsewhere, Typed, server
<1>3. CASE RefreshAccessToken(g)
  <2>1. CASE turn' = [turn EXCEPT ![g] = IdleTurn]
    <3>1. turn' \in [Turns -> TurnType]
      BY <2>1, <1>1, IdleTyped
    <3>2. issued' \in 0 .. MaxTokens /\ live' \subseteq Tokens
      BY <1>3, <1>1 DEF RefreshAccessToken, Typed, Tokens
    <3>3. faults' \in 0 .. MaxFaults
      BY <1>3, <1>1 DEF RefreshAccessToken, Fault, Typed, GiveUp
    <3> QED
      BY <1>3, <3>1, <3>2, <3>3, <1>1 DEF RefreshAccessToken, Elsewhere, Typed
  <2>2. CASE turn' # [turn EXCEPT ![g] = IdleTurn]
    <3>0. /\ issued < MaxTokens /\ issued' = issued + 1
          /\ \E refresh \in {issued', 0} :
               /\ live' = IF refresh = 0 THEN live ELSE (live \ {T.refresh}) \cup {refresh}
               /\ turn' = [turn EXCEPT ![g].at = "load", ![g].cred = ParseTokenResponse(refresh)]
          /\ UNCHANGED faults
      BY <1>3, <2>2, <1>1 DEF RefreshAccessToken, GiveUp
    <3>1. issued' \in 0 .. MaxTokens /\ live' \subseteq Tokens /\ issued + 1 \in Tokens
      BY <3>0, <1>1 DEF Typed, Tokens
    <3>2. \A refresh \in {issued', 0} : ParseTokenResponse(refresh) \in AuthCredential
      BY <3>0, <3>1 DEF ParseTokenResponse, AuthCredential, Tokens
    <3>3. turn' \in [Turns -> TurnType]
      <4>1. PICK refresh \in {issued', 0} :
              turn' = [turn EXCEPT ![g].at = "load", ![g].cred = ParseTokenResponse(refresh)]
        BY <3>0
      <4>2. ParseTokenResponse(refresh) \in AuthCredential
        BY <3>2
      <4> QED
        BY <1>1, <4>1, <4>2 DEF TurnType
    <3> QED
      BY <1>3, <3>0, <3>1, <3>3, <1>1 DEF RefreshAccessToken, Elsewhere, Typed
  <2> QED
    BY <2>1, <2>2
<1>4. CASE LoadForRefresh(g)
  <2>1. turn' \in [Turns -> TurnType]
    <3>1. CASE authFile = Torn
      BY <1>4, <3>1, <1>1, IdleTyped DEF LoadForRefresh, GiveUp
    <3>2. CASE authFile # Torn
      <4>1. authFile \in Store
        BY <3>2, <1>1
      <4>2. Put(authFile, "openai", T.cred) \in Store
        <5>1. PutIs(authFile, "openai", T.cred)
          BY <1>4, <4>1, PutFacts DEF LoadForRefresh, TypeInv, Holds, Accounts
        <5> QED
          BY <5>1 DEF PutIs
      <4> QED
        BY <1>4, <3>2, <1>1, <4>2 DEF LoadForRefresh, TurnType
    <3> QED
      BY <3>1, <3>2
  <2> QED
    BY <1>4, <2>1, <1>1 DEF LoadForRefresh, Elsewhere, Typed, server
<1>5. CASE SaveRefreshed(g)
  <2>1. turn' \in [Turns -> TurnType]
    BY <1>5, <1>1, IdleTyped DEF SaveRefreshed, GiveUp, Goto, TurnType
  <2>2. authFile' \in Store \cup {Torn}
    BY <1>5, <1>1 DEF SaveRefreshed, Truncate, Write, TurnType
  <2>3. faults' \in 0 .. MaxFaults
    BY <1>5, <1>1 DEF SaveRefreshed, Fault, Typed
  <2> QED
    BY <1>5, <2>1, <2>2, <2>3, <1>1 DEF SaveRefreshed, Elsewhere, Typed, server
<1> QED
  BY <1>2, <1>3, <1>4, <1>5

LEMMA CommandsTyped ==
  ASSUME TypeInv
  PROVE  /\ \A account \in Accounts, place \in {"browser", "device", "paste"} : Login(account, place) => Typed'
         /\ \A account \in Accounts \cup {"all"} : Logout(account) => Typed'
         /\ LoginBrowser \/ LoginDeviceCode \/ LoginPasteToken => Typed'
         /\ LoadForCommand \/ SaveByCommand \/ DeleteAllCredentials \/ UpdateConfig \/ Interrupt => Typed'
<1>0. Typed
  BY DEF TypeInv
<1>1. /\ cli \in CliType /\ turn \in [Turns -> TurnType]
      /\ authFile \in Store \cup {Torn} /\ config \in Config \cup {Torn}
  BY <1>0 DEF Typed
<1>2. ASSUME NEW account \in Accounts, NEW place \in {"browser", "device", "paste"}, Login(account, place)
      PROVE  Typed'
  <2>1. cli' \in CliType
    BY <1>2, IdleTyped DEF Login, CliType
  <2>2. commands' \in 0 .. MaxCommands
    BY <1>2, <1>0 DEF Login, Typed
  <2> QED
    BY <1>2, <1>0, <2>1, <2>2 DEF Login, Aside, Typed, files, server
<1>3. ASSUME NEW account \in Accounts \cup {"all"}, Logout(account)
      PROVE  Typed'
  <2>1. cli' \in CliType
    BY <1>3, IdleTyped DEF Logout, CliType
  <2>2. commands' \in 0 .. MaxCommands
    BY <1>3, <1>0 DEF Logout, Typed
  <2> QED
    BY <1>3, <1>0, <2>1, <2>2 DEF Logout, Aside, Typed, files, server
<1>4. ASSUME LoginBrowser \/ LoginDeviceCode \/ LoginPasteToken
      PROVE  Typed'
  <2>1. CASE Refuse
    BY <2>1, <1>0, IdleTyped DEF Refuse, Exit, Aside, Typed, files, server
  <2>2. CASE ~Refuse
    <3>1. Issue
      BY <1>4, <2>2 DEF LoginBrowser, LoginDeviceCode, LoginPasteToken, ExchangeCode
    <3>2. issued + 1 \in Tokens /\ issued' = issued + 1 /\ issued' \in 0 .. MaxTokens
      BY <3>1, <1>0 DEF Issue, Typed, Tokens
    <3>3. live' \subseteq Tokens
      BY <1>4, <2>2, <3>2, <1>0 DEF LoginBrowser, LoginDeviceCode, LoginPasteToken, ExchangeCode, Typed
    <3>4. /\ \A refresh \in {issued + 1, 0} : ParseTokenResponse(refresh) \in AuthCredential
          /\ [access |-> issued + 1, refresh |-> 0, method |-> "token"] \in AuthCredential
      BY <3>2 DEF ParseTokenResponse, AuthCredential, Tokens
    <3>5. cli' \in CliType
      BY <1>4, <2>2, <3>4, <1>1 DEF LoginBrowser, LoginDeviceCode, LoginPasteToken, ExchangeCode, CliType
    <3> QED
      BY <3>1, <3>2, <3>3, <3>5, <1>0 DEF Issue, Aside, Typed, files
  <2> QED
    BY <2>1, <2>2
<1>5. CASE LoadForCommand
  <2>1. CASE cli' = IdleCli
    BY <1>5, <2>1, <1>0, IdleTyped DEF LoadForCommand, Aside, Typed, files, server
  <2>2. CASE cli' # IdleCli
    <3>1. authFile \in Store /\ cli.account \in Accounts
      BY <1>5, <2>2, <1>1 DEF LoadForCommand, Exit, TypeInv, InCommand
    <3>2. cli.op = "login" => Put(authFile, cli.account, cli.cred) \in Store
      BY <1>5, <3>1, PutFacts DEF LoadForCommand, TypeInv, InCommand, PutIs
    <3>3. Without(authFile, cli.account) \in Store
      BY <3>1, WithoutFacts
    <3>4. cli' \in CliType
      BY <1>5, <2>2, <3>2, <3>3, <1>1 DEF LoadForCommand, Exit, CliType
    <3> QED
      BY <1>5, <3>4, <1>0 DEF LoadForCommand, Aside, Typed, files, server
  <2> QED
    BY <2>1, <2>2
<1>6. CASE SaveByCommand
  <2>1. cli' \in CliType
    BY <1>6, <1>1, IdleTyped DEF SaveByCommand, Exit, CliType
  <2>2. authFile' \in Store \cup {Torn}
    BY <1>6, <1>1 DEF SaveByCommand, Truncate, Write, CliType
  <2>3. loggedIn' \subseteq Accounts
    BY <1>6, <1>0 DEF SaveByCommand, TypeInv, Typed
  <2>4. faults' \in 0 .. MaxFaults
    BY <1>6, <1>0 DEF SaveByCommand, Fault, Typed
  <2> QED
    BY <1>6, <1>0, <2>1, <2>2, <2>3, <2>4 DEF SaveByCommand, Aside, Typed, server
<1>7. CASE DeleteAllCredentials
  <2>1. cli' \in CliType /\ turn' \in [Turns -> TurnType]
    BY <1>7, <1>1, IdleTyped DEF DeleteAllCredentials, CliType
  <2> QED
    BY <1>7, <1>0, <2>1, NoStoreFacts DEF DeleteAllCredentials, Aside, Typed, server
<1>8. CASE UpdateConfig
  <2>1. config' \in Config \cup {Torn}
    <3>1. cli.cred \in AuthCredential \cup {NoCred}
      BY <1>1 DEF CliType
    <3>2. cli.cred.method \in Methods
      <4>1. CASE cli.cred \in AuthCredential
        BY <4>1 DEF AuthCredential, Methods
      <4>2. CASE cli.cred = NoCred
        <5>1. NoCred.method = "" /\ "" \in Methods
          BY DEF NoCred, Methods
        <5> QED
          BY <4>2, <5>1
      <4> QED
        BY <3>1, <4>1, <4>2
    <3> DEFINE method == IF cli.op = "login" THEN cli.cred.method ELSE ""
               M      == [p \in Accounts |-> IF cli.account \in {p, "all"} THEN method ELSE config.method[p]]
    <3>3. method \in Methods
      BY <3>2 DEF Methods
    <3>4. config # Torn => config \in Config /\ M \in [Accounts -> Methods]
      BY <3>3, <1>1 DEF Config
    <3>5. \/ config' = [config EXCEPT !.method = M] /\ config # Torn
          \/ config' \in {config, Torn}
      BY <1>8 DEF UpdateConfig
    <3> QED
      BY <3>4, <3>5, <1>1 DEF Config
  <2>2. faults' \in 0 .. MaxFaults
    <3>1. Fault \/ UNCHANGED faults
      BY <1>8 DEF UpdateConfig
    <3> QED
      BY <3>1, <1>0 DEF Fault, Typed
  <2> QED
    BY <1>8, <1>0, <2>1, <2>2, IdleTyped DEF UpdateConfig, Exit, Aside, Typed, server
<1>9. CASE Interrupt
  <2>1. faults' \in 0 .. MaxFaults
    BY <1>9, <1>0 DEF Interrupt, Fault, Typed
  <2> QED
    BY <1>9, <1>0, <2>1, IdleTyped DEF Interrupt, Exit, Aside, Typed, files, server
<1> QED
  BY <1>2, <1>3, <1>4, <1>5, <1>6, <1>7, <1>8, <1>9

LEMMA TypeStep == TypeInv /\ [Next]_vars => TypeInv'
<1> SUFFICES ASSUME TypeInv, [Next]_vars PROVE TypeInv'
  OBVIOUS
<1>0. Typed
  BY DEF TypeInv
<1>1. CASE UNCHANGED vars
  BY <1>1 DEF vars, files, server, TypeInv, Typed, Holds, InCommand
<1>2. CASE StartGateway
  <2>1. provider' \in {"down", "codex", "claude", "http"}
    BY <1>2 DEF StartGateway, CreateProvider
  <2> QED
    BY <1>2, <2>1 DEF StartGateway, TypeInv, Typed, Holds, InCommand, files, server
<1>3. CASE StopGateway
  <2>1. exits' \in 0 .. MaxExits
    BY <1>3, <1>0 DEF StopGateway, Typed
  <2>2. turn' \in [Turns -> TurnType]
    BY <1>3, IdleTyped DEF StopGateway
  <2>3. \A g \in Turns : ~Holds(g)'
    BY <1>3 DEF StopGateway, Holds, IdleTurn
  <2> QED
    BY <1>3, <2>1, <2>2, <2>3 DEF StopGateway, TypeInv, Typed, InCommand, files, server
<1>4. ASSUME NEW g \in Turns, GetToken(g) \/ RefreshAccessToken(g) \/ LoadForRefresh(g) \/ SaveRefreshed(g)
      PROVE  TypeInv'
  <2>1. Typed'
    BY <1>4, TurnsTyped
  <2>2. UNCHANGED cli
    BY <1>4 DEF GetToken, RefreshAccessToken, LoadForRefresh, SaveRefreshed, Elsewhere
  <2>3. ASSUME NEW h \in Turns, Holds(h)' PROVE turn'[h].cred \in AuthCredential
    <3>0. turn \in [Turns -> TurnType]
      BY <1>0 DEF Typed
    <3>1. CASE UNCHANGED turn[h]
      BY <2>3, <3>1 DEF TypeInv, Holds
    <3>2. CASE turn'[h] # turn[h]
      <4>1. CASE GetToken(g)
        BY <1>4, <2>3, <3>0, <3>2, <4>1 DEF GetToken, Holds, TurnType
      <4>2. CASE RefreshAccessToken(g)
        <5>0. turn'[h].at # "idle"
          BY <2>3 DEF Holds
        <5>1. /\ issued < MaxTokens /\ h = g
              /\ \E refresh \in {issued + 1, 0} : turn'[h].cred = ParseTokenResponse(refresh)
          BY <3>0, <3>2, <4>2, <5>0 DEF RefreshAccessToken, GiveUp, IdleTurn, TurnType
        <5> QED
          BY <5>1, <1>0 DEF ParseTokenResponse, AuthCredential, Tokens, Typed
      <4>3. CASE LoadForRefresh(g)
        BY <2>3, <3>0, <3>2, <4>3 DEF LoadForRefresh, GiveUp, IdleTurn, TypeInv, Holds, TurnType
      <4>4. CASE SaveRefreshed(g)
        BY <2>3, <3>0, <3>2, <4>4 DEF SaveRefreshed, Goto, GiveUp, IdleTurn, TypeInv, Holds, TurnType
      <4> QED
        BY <1>4, <4>1, <4>2, <4>3, <4>4
    <3> QED
      BY <3>1, <3>2
  <2> QED
    BY <2>1, <2>2, <2>3 DEF TypeInv, InCommand
<1>5. ASSUME Typed', UNCHANGED turn,
             \/ \E account \in Accounts, place \in {"browser", "device", "paste"} : Login(account, place)
             \/ \E account \in Accounts \cup {"all"} : Logout(account)
             \/ LoadForCommand \/ SaveByCommand \/ UpdateConfig \/ Interrupt
      PROVE  TypeInv'
  <2>1. \A g \in Turns : Holds(g)' => turn'[g].cred \in AuthCredential
    BY <1>5 DEF TypeInv, Holds
  <2>2. CASE \E account \in Accounts, place \in {"browser", "device", "paste"} : Login(account, place)
    BY <1>5, <2>1, <2>2 DEF Login, IdleCli, TypeInv, InCommand, Accounts
  <2>3. CASE \E account \in Accounts \cup {"all"} : Logout(account)
    BY <1>5, <2>1, <2>3 DEF Logout, IdleCli, TypeInv, InCommand, Accounts
  <2>4. cli \in CliType
    BY <1>0 DEF Typed
  <2>5. CASE LoadForCommand
    <3>1. CASE cli' = IdleCli
      BY <1>5, <2>1, <3>1 DEF IdleCli, TypeInv, InCommand
    <3>2. CASE cli' # IdleCli
      <4>1. cli'.at = "write" /\ cli'.op = cli.op /\ cli'.account = cli.account /\ cli'.cred = cli.cred
        BY <2>4, <2>5, <3>2 DEF LoadForCommand, Exit, CliType
      <4>2. cli.at = "load" /\ cli.account # "all"
        BY <2>5 DEF LoadForCommand
      <4> QED
        BY <1>5, <2>1, <4>1, <4>2 DEF TypeInv, InCommand
    <3> QED
      BY <3>1, <3>2
  <2>6. CASE SaveByCommand
    BY <1>5, <2>1, <2>4, <2>6 DEF SaveByCommand, Exit, IdleCli, TypeInv, InCommand, CliType
  <2>7. CASE UpdateConfig \/ Interrupt
    <3>1. cli' = IdleCli
      BY <2>7 DEF UpdateConfig, Interrupt, Exit
    <3> QED
      BY <1>5, <2>1, <3>1 DEF IdleCli, TypeInv, InCommand
  <2> QED
    BY <1>5, <2>2, <2>3, <2>5, <2>6, <2>7
<1>6. CASE LoginBrowser \/ LoginDeviceCode \/ LoginPasteToken
  <2>1. Typed' /\ UNCHANGED turn
    BY <1>6, CommandsTyped DEF LoginBrowser, LoginDeviceCode, LoginPasteToken, ExchangeCode, Issue, Refuse
  <2>2. \A g \in Turns : Holds(g)' => turn'[g].cred \in AuthCredential
    BY <2>1 DEF TypeInv, Holds
  <2>3. CASE Refuse
    BY <2>1, <2>2, <2>3 DEF Refuse, Exit, IdleCli, TypeInv, InCommand
  <2>4. CASE ~Refuse
    <3>1. issued + 1 \in Tokens
      BY <1>6, <1>0, <2>4
      DEF LoginBrowser, LoginDeviceCode, LoginPasteToken, ExchangeCode, Issue, Typed, Tokens
    <3>2. /\ \A refresh \in {issued + 1, 0} : ParseTokenResponse(refresh) \in AuthCredential
          /\ [access |-> issued + 1, refresh |-> 0, method |-> "token"] \in AuthCredential
      BY <3>1 DEF ParseTokenResponse, AuthCredential, Tokens
    <3>3. cli \in CliType
      BY <1>0 DEF Typed
    <3> QED
      BY <1>6, <2>1, <2>2, <2>4, <3>2, <3>3
      DEF LoginBrowser, LoginDeviceCode, LoginPasteToken, ExchangeCode, TypeInv, InCommand, CliType
  <2> QED
    BY <2>3, <2>4
<1>7. CASE DeleteAllCredentials
  <2>1. Typed'
    BY <1>7, CommandsTyped
  <2>2. \A g \in Turns : Holds(g)' => turn'[g].cred \in AuthCredential
    BY <1>7 DEF DeleteAllCredentials, IdleTurn, TypeInv, Holds
  <2>3. cli \in CliType
    BY <1>0 DEF Typed
  <2> QED
    BY <1>7, <2>1, <2>2, <2>3 DEF DeleteAllCredentials, TypeInv, InCommand, CliType
<1>8. CASE \E n \in Tokens : Expire(n)
  <2>1. stale' \subseteq Tokens
    BY <1>8, <1>0 DEF Expire, Typed
  <2> QED
    BY <1>8, <2>1 DEF Expire, Aside, TypeInv, Typed, Holds, InCommand, files
<1>9. ASSUME \/ \E account \in Accounts, place \in {"browser", "device", "paste"} : Login(account, place)
             \/ \E account \in Accounts \cup {"all"} : Logout(account)
             \/ LoadForCommand \/ SaveByCommand \/ UpdateConfig \/ Interrupt
      PROVE  Typed' /\ UNCHANGED turn
  <2>1. Typed'
    BY <1>9, CommandsTyped
  <2> QED
    BY <1>9, <2>1 DEF Login, Logout, LoadForCommand, SaveByCommand, UpdateConfig, Interrupt
<1> QED
  <2>1. \A place \in {"browser", "device"} : Login("openai", place) => TypeInv'
    BY <1>5, <1>9 DEF Accounts
  <2>2. Login("anthropic", "paste") => TypeInv'
    BY <1>5, <1>9 DEF Accounts
  <2> QED
    BY <1>1, <1>2, <1>3, <1>4, <1>5, <1>6, <1>7, <1>8, <1>9, <2>1, <2>2 DEF Next

-----------------------------------------------------------------------------
(* What holds as long as nothing fails and no refresh is disturbed.        *)

\* A step after which nothing has failed or been disturbed.
Quiet == ~Fault /\ ~(InCommand' /\ InRefresh') /\ ~Unguarded'

LEMMA CalmBefore ==
  ASSUME TypeInv, disturbed \in BOOLEAN, Next, Calm'
  PROVE  Calm /\ ~Fault /\ (~StopGateway /\ ~StartGateway => Quiet) /\ (StopGateway => ~InRefresh)
<1>1. faults \in Nat /\ faults' = 0 /\ ~disturbed'
  BY DEF TypeInv, Typed, Calm
<1>2. ~Fault
  BY <1>1 DEF Fault
<1>3. UNCHANGED faults
  BY <1>2 DEF Next, StartGateway, StopGateway, GetToken, RefreshAccessToken, LoadForRefresh, SaveRefreshed,
              Login, Logout, LoginBrowser, LoginDeviceCode, LoginPasteToken, ExchangeCode, Issue, Refuse, LoadForCommand,
              SaveByCommand, DeleteAllCredentials, UpdateConfig, Interrupt, Expire
<1>4. StartGateway \/ StopGateway \/ Observe
  BY DEF Next, GetToken, RefreshAccessToken, LoadForRefresh, SaveRefreshed, Elsewhere, Aside,
         Login, Logout, LoginBrowser, LoginDeviceCode, LoginPasteToken, ExchangeCode, Issue, Refuse, LoadForCommand,
         SaveByCommand, DeleteAllCredentials, UpdateConfig, Interrupt, Expire
<1>5. CASE StartGateway
  BY <1>1, <1>2, <1>3, <1>5 DEF StartGateway, StopGateway, Calm
<1>6. CASE StopGateway
  BY <1>1, <1>2, <1>3, <1>6 DEF StopGateway, Calm
<1>7. CASE Observe /\ ~StartGateway /\ ~StopGateway
  BY <1>1, <1>2, <1>3, <1>7 DEF Observe, Calm, Quiet
<1> QED
  BY <1>4, <1>5, <1>6, <1>7

LEMMA CalmInit == Init => CalmInv
<1> SUFFICES ASSUME Init PROVE CalmInv
  OBVIOUS
<1>1. TypeInv
  BY TypeInit
<1>2. /\ \A g \in Turns : turn[g] = IdleTurn
      /\ cli = IdleCli /\ authFile = NoStore /\ loggedIn = {} /\ live = {} /\ issued = 0
  BY DEF Init
<1>3. /\ cli.at = "idle" /\ cli.op = "none"
      /\ \A g \in Turns : turn[g].at = "idle" /\ turn[g].refresh = 0
  <2>1. IdleCli.at = "idle" /\ IdleCli.op = "none" /\ IdleTurn.at = "idle" /\ IdleTurn.refresh = 0
    BY DEF IdleTurn, IdleCli
  <2> QED
    BY <1>2, <2>1
<1>4. config \in Config /\ \A p \in Accounts : config.method[p] = ""
  <2>1. config \in Config \cup {Torn}
    BY <1>1 DEF TypeInv, Typed
  <2>2. PICK names \in Models, keys \in Keys :
          config = [names |-> names, keys |-> keys, method |-> [p \in Accounts |-> ""]]
    BY DEF Init
  <2>3. [p \in Accounts |-> ""] \in [Accounts -> Methods]
    BY DEF Methods
  <2> QED
    BY <2>2, <2>3 DEF Config
<1>5. AloneInv
  BY <1>2, <1>3, <1>4 DEF AloneInv, InCommand, Holds, Unguarded
<1>6. authFile # Torn /\ GoodStore(authFile) /\ Honoured(authFile)
  BY <1>2, <1>3, <1>4, NoStoreFacts DEF GoodStore, Promised, Honoured
<1>7. FileInv
  BY <1>3, <1>6 DEF FileInv, Holds
<1>8. TurnInv
  BY <1>2, <1>3 DEF TurnInv, OneTurn, Holds
<1>9. CommandInv
  BY <1>3 DEF CommandInv, InCommand
<1> QED
  BY <1>5, <1>7, <1>8, <1>9 DEF CalmInv

\* What the invariant is about does not change.
LEMMA CalmFrame ==
  CalmInv /\ UNCHANGED <<authFile, config, turn, cli, issued, live, loggedIn>> => CalmInv'
<1> SUFFICES ASSUME CalmInv, UNCHANGED <<authFile, config, turn, cli, issued, live, loggedIn>> PROVE CalmInv'
  OBVIOUS
<1>1. AloneInv'
  BY DEF CalmInv, AloneInv, InCommand, InRefresh, Holds, Unguarded
<1>2. FileInv'
  BY DEF CalmInv, FileInv, GoodStore, Promised, Honoured, Holds
<1>3. TurnInv'
  BY DEF CalmInv, TurnInv, OneTurn, GoodStore, Promised, Honoured, Refreshable, Holds
<1>4. CommandInv'
  BY DEF CalmInv, CommandInv, Changed, Put, Without, Honoured, InCommand
<1> QED
  BY <1>1, <1>2, <1>3, <1>4 DEF CalmInv

\* A command that does not touch the files leaves what is said of them.
LEMMA CliFrame ==
  ASSUME FileInv, TurnInv, UNCHANGED <<authFile, config, turn, issued, live, loggedIn>>,
         cli.at \notin {"writing", "config"}, cli'.at \notin {"writing", "config"}
  PROVE  FileInv' /\ TurnInv'
<1>1. \A s : GoodStore(s) => GoodStore(s)'
  BY DEF GoodStore, Promised
<1>2. \A s : /\ Honoured(s) => Honoured(s)'
             /\ Refreshable(s) => Refreshable(s)'
  BY DEF Honoured, Refreshable
<1>3. \A g \in Turns : Holds(g)' <=> Holds(g)
  BY DEF Holds
<1>4. authFile' = authFile /\ turn' = turn /\ issued' = issued /\ live' = live
  OBVIOUS
<1>5. FileInv'
  BY <1>1, <1>2, <1>3, <1>4 DEF FileInv
<1>6. TurnInv'
  BY <1>1, <1>2, <1>3, <1>4 DEF TurnInv, OneTurn
<1> QED
  BY <1>5, <1>6

\* Lifts what the file and the goroutines keep when only tokens are added.
LEMMA MoreTokens ==
  ASSUME FileInv, TurnInv, UNCHANGED <<authFile, config, turn, loggedIn>>,
         \A g \in Turns : turn[g].at = "idle",
         issued \in Nat, issued' = issued + 1, live \subseteq live', TypeInv,
         cli.at \notin {"writing", "config"}, cli'.at \notin {"writing", "config"}
  PROVE  FileInv' /\ TurnInv'
<1>1. \A p : Promised(p)' = Promised(p)
  BY DEF Promised
<1>2. \A s : GoodStore(s) => GoodStore(s)'
  <2> SUFFICES ASSUME NEW s, GoodStore(s) PROVE GoodStore(s)'
    OBVIOUS
  <2>1. "openai" \in DOMAIN s => s["openai"].refresh \in Nat
    BY StoreFacts DEF GoodStore, AuthCredential
  <2>2. "openai" \in DOMAIN s => s["openai"].refresh =< issued'
    BY <2>1 DEF GoodStore
  <2> QED
    BY <1>1, <2>2 DEF GoodStore
<1>3. \A s : Honoured(s) => Honoured(s)'
  BY DEF Honoured
<1>4. \A g \in Turns : ~Holds(g) /\ ~Holds(g)' /\ turn'[g].at = "idle"
  BY DEF Holds
<1>5. FileInv'
  BY <1>2, <1>3, <1>4 DEF FileInv
<1>6. \A g \in Turns : turn[g].refresh \in Nat
  BY DEF TypeInv, Typed, TurnType
<1>7. TurnInv'
  BY <1>4, <1>6 DEF TurnInv, OneTurn
<1> QED
  BY <1>5, <1>7

LEMMA LoginsKeep ==
  ASSUME TypeInv, CalmInv, Quiet, LoginBrowser \/ LoginDeviceCode \/ LoginPasteToken
  PROVE  CalmInv'
<1> USE DEF CalmInv
<1>0. Typed /\ cli.at \in {"browser", "device", "paste"} /\ cli \in CliType
  BY DEF TypeInv, Typed, LoginBrowser, LoginDeviceCode, LoginPasteToken
<1>1. CASE Refuse
  <2>1. cli'.at = "idle" /\ UNCHANGED <<authFile, config, turn, issued, live, loggedIn>>
    BY <1>1 DEF Refuse, Exit, IdleCli, files, server
  <2>2. FileInv' /\ TurnInv'
    BY <2>1, <1>0, CliFrame
  <2>3. AloneInv' /\ CommandInv'
    BY <2>1 DEF AloneInv, CommandInv, InCommand, Holds, Quiet
  <2> QED
    BY <2>2, <2>3
<1>2. CASE ~Refuse
  <2>1. /\ issued \in Nat /\ issued' = issued + 1
        /\ UNCHANGED <<authFile, config, turn, loggedIn>>
    BY <1>2, <1>0 DEF LoginBrowser, LoginDeviceCode, LoginPasteToken, ExchangeCode, Issue, files, Typed
  <2>2. /\ cli'.at = "load" /\ cli'.account = cli.account
        /\ live' \in {live, live \cup {issued'}}
        /\ cli'.cred.refresh \in live' \cup {0}
    <3>1. CASE LoginBrowser \/ LoginDeviceCode
      <4>1. PICK refresh \in {issued + 1, 0} :
              /\ cli' = [cli EXCEPT !.at = "load", !.cred = ParseTokenResponse(refresh)]
              /\ live' = live \cup ({refresh} \ {0})
        BY <1>2, <3>1 DEF LoginBrowser, LoginDeviceCode, ExchangeCode
      <4>2. cli'.at = "load" /\ cli'.account = cli.account /\ cli'.cred.refresh = refresh
        BY <1>0, <4>1 DEF ParseTokenResponse, CliType
      <4>3. live' = IF refresh = 0 THEN live ELSE live \cup {issued'}
        BY <2>1, <4>1
      <4> QED
        BY <2>1, <4>2, <4>3
    <3>2. CASE LoginPasteToken
      <4>1. /\ cli' = [cli EXCEPT !.at = "load", !.cred = [access |-> issued + 1, refresh |-> 0, method |-> "token"]]
            /\ UNCHANGED live
        BY <1>2, <3>2 DEF LoginPasteToken
      <4> QED
        BY <1>0, <4>1 DEF CliType
    <3> QED
      BY <3>1, <3>2
  <2>3. \A g \in Turns : turn[g].at = "idle"
    BY <2>1, <2>2 DEF Quiet, InCommand, InRefresh
  <2>4. FileInv' /\ TurnInv'
    BY <1>0, <2>1, <2>2, <2>3, MoreTokens
  <2>5. AloneInv'
    <3>1. live \subseteq 1 .. issued /\ config \in Config
      BY DEF AloneInv
    <3>2. live' \subseteq 1 .. issued'
      <4>1. 1 .. issued \subseteq 1 .. issued' /\ issued' \in 1 .. issued'
        BY <2>1
      <4> QED
        BY <2>2, <3>1, <4>1
    <3>3. \A g \in Turns : ~Holds(g)'
      BY <2>1, <2>3 DEF Holds
    <3>4. ~(InCommand' /\ InRefresh') /\ ~Unguarded'
      BY DEF Quiet
    <3> QED
      BY <2>1, <3>1, <3>2, <3>3, <3>4 DEF AloneInv
  <2>6. CommandInv'
    BY <2>2 DEF CommandInv
  <2> QED
    BY <2>4, <2>5, <2>6
<1> QED
  BY <1>1, <1>2

LEMMA BeginningsKeep ==
  ASSUME TypeInv, CalmInv, Quiet,
         \/ \E account \in Accounts, place \in {"browser", "device", "paste"} : Login(account, place)
         \/ \E account \in Accounts \cup {"all"} : Logout(account)
  PROVE  CalmInv'
<1> USE DEF CalmInv
<1>1. UNCHANGED <<authFile, config, turn, issued, live, loggedIn>> /\ cli.at = "idle"
  BY DEF Login, Logout, files, server
<1>2. /\ cli'.at \in {"browser", "device", "paste", "load"}
      /\ cli'.at = "load" => cli'.op = "logout"
  BY DEF Login, Logout, IdleCli
<1>3. FileInv' /\ TurnInv'
  BY <1>1, <1>2, CliFrame
<1>4. AloneInv'
  BY <1>1 DEF AloneInv, Quiet, Holds
<1>5. CommandInv'
  BY <1>2 DEF CommandInv, InCommand
<1> QED
  BY <1>3, <1>4, <1>5

LEMMA LoadKeeps ==
  ASSUME TypeInv, CalmInv, Quiet, LoadForCommand
  PROVE  CalmInv'
<1> USE DEF CalmInv
<1>1. /\ UNCHANGED <<authFile, config, turn, issued, live, loggedIn>>
      /\ cli.at = "load" /\ cli \in CliType
  BY DEF LoadForCommand, files, server, TypeInv, Typed
<1>2. CASE cli' = IdleCli
  <2>1. cli'.at = "idle"
    BY <1>2 DEF IdleCli
  <2>2. FileInv' /\ TurnInv'
    BY <1>1, <2>1, CliFrame
  <2>3. AloneInv' /\ CommandInv'
    BY <1>1, <2>1 DEF AloneInv, CommandInv, InCommand, Holds, Quiet
  <2> QED
    BY <2>2, <2>3
<1>3. CASE cli' # IdleCli
  <2>1. cli' = [cli EXCEPT !.at = "write",
                           !.store = IF cli.op = "login" THEN Put(authFile, cli.account, cli.cred)
                                                         ELSE Without(authFile, cli.account)]
    BY <1>3 DEF LoadForCommand, Exit
  <2>2. /\ cli'.at = "write" /\ cli'.op = cli.op /\ cli'.account = cli.account /\ cli'.cred = cli.cred
        /\ cli'.store = Changed(authFile)
    BY <1>1, <2>1 DEF CliType, Changed
  <2>3. FileInv' /\ TurnInv'
    BY <1>1, <2>2, CliFrame
  <2>4. AloneInv'
    BY <1>1 DEF AloneInv, Quiet, Holds
  <2>5. cli'.store = Changed(authFile)'
    BY <1>1, <2>2 DEF Changed, Put, Without
  <2>6. CommandInv'
    BY <1>1, <2>2, <2>5 DEF CommandInv, InCommand
  <2> QED
    BY <2>3, <2>4, <2>6
<1> QED
  BY <1>2, <1>3

LEMMA InterruptKeeps ==
  ASSUME TypeInv, CalmInv, Quiet, Interrupt
  PROVE  CalmInv'
BY DEF Interrupt, Quiet

LEMMA SaveKeeps ==
  ASSUME TypeInv, TypeInv', CalmInv, Quiet, SaveByCommand
  PROVE  CalmInv'
<1> USE DEF CalmInv
<1>0. /\ UNCHANGED <<config, turn, issued, live>>
      /\ cli.at \in {"write", "writing"} /\ cli \in CliType
      /\ cli.account \in Accounts /\ cli.op \in {"login", "logout"}
  BY DEF SaveByCommand, server, TypeInv, Typed, InCommand
<1>1. InCommand /\ \A g \in Turns : turn[g].at = "idle"
  BY <1>0 DEF AloneInv, InCommand, InRefresh
<1>2. \A g \in Turns : turn'[g].at = "idle" /\ ~Holds(g) /\ ~Holds(g)'
  BY <1>0, <1>1 DEF Holds
<1>3. AloneInv'
  BY <1>0, <1>2 DEF AloneInv, Quiet
<1>4. TurnInv'
  BY <1>0, <1>2 DEF TurnInv, OneTurn
<1>5. CASE cli.at = "write"
  <2>1. authFile' = Torn /\ cli' = [cli EXCEPT !.at = "writing"] /\ UNCHANGED loggedIn
    BY <1>5 DEF SaveByCommand, Truncate, Quiet
  <2>2. /\ cli'.at = "writing" /\ cli'.op = cli.op /\ cli'.account = cli.account
        /\ cli'.cred = cli.cred /\ cli'.store = cli.store
    BY <1>0, <2>1 DEF CliType
  <2>3. FileInv'
    BY <2>1, <2>2, <1>2 DEF FileInv
  <2>4. authFile # Torn /\ GoodStore(authFile) /\ Honoured(authFile)
    BY <1>2, <1>1, <1>5 DEF FileInv
  <2>5. cli.store = Changed(authFile) /\ authFile \in Store /\ DOMAIN authFile = loggedIn
    BY <1>5, <2>4 DEF CommandInv, GoodStore
  <2>6. \A p \in Accounts : Method(authFile, p) = config.method[p]
    BY <1>5, <2>4 DEF GoodStore, Promised
  <2>7. CASE cli.op = "login"
    <3>1. cli.cred \in AuthCredential /\ (cli.account = "openai" => cli.cred.refresh \in live \cup {0})
      BY <1>1, <2>7 DEF TypeInv, CommandInv
    <3>2. cli.store = Put(authFile, cli.account, cli.cred)
      BY <2>5, <2>7 DEF Changed
    <3>3. live \subseteq 1 .. issued /\ issued \in Nat
      BY DEF AloneInv, TypeInv, Typed
    <3>4. /\ cli.store \in Store
          /\ DOMAIN cli.store = loggedIn \cup {cli.account}
          /\ cli.store[cli.account] = cli.cred
          /\ \A q \in DOMAIN authFile : q # cli.account => cli.store[q] = authFile[q]
          /\ \A q \in Accounts : Method(cli.store, q) = IF q = cli.account THEN cli.cred.method ELSE Method(authFile, q)
      <4>1. PutIs(authFile, cli.account, cli.cred)
        BY <3>1, <2>5, <1>0, PutFacts
      <4> QED
        BY <4>1, <3>2, <2>5 DEF PutIs
    <3>5. "openai" \in DOMAIN cli.store =>
            cli.store["openai"].refresh \in live \cup {0} /\ cli.store["openai"].refresh =< issued
      <4>1. CASE cli.account = "openai"
        <5>1. cli.cred.refresh \in live \cup {0}
          BY <4>1, <3>1
        <5>2. cli.cred.refresh =< issued
          <6>1. \A n \in 1 .. issued : n =< issued
            BY <3>3
          <6>2. 0 =< issued
            BY <3>3
          <6> QED
            BY <5>1, <3>3, <6>1, <6>2
        <5> QED
          BY <4>1, <5>1, <5>2, <3>3, <3>4
      <4>2. CASE cli.account # "openai"
        BY <4>2, <2>4, <2>5, <3>4 DEF GoodStore, Honoured
      <4> QED
        BY <4>1, <4>2
    <3>6. \A p \in Accounts : Method(cli.store, p) = IF p # cli.account THEN config.method[p]
                                                     ELSE cli.cred.method
      BY <2>6, <3>4
    <3>7. Honoured(cli.store)
      BY <3>5 DEF Honoured
    <3>8. /\ cli'.store \in Store
          /\ DOMAIN cli'.store = loggedIn' \cup {cli'.account}
          /\ \A p \in Accounts : Method(cli.store, p)' = IF p # cli'.account THEN config'.method[p]
                                                          ELSE cli'.cred.method
          /\ Honoured(cli.store)'
          /\ "openai" \in DOMAIN cli'.store => cli'.store["openai"].refresh =< issued'
          /\ cli'.account = "openai" => cli'.cred.refresh \in live' \cup {0}
      <4>1. /\ cli'.store = cli.store /\ cli'.account = cli.account /\ cli'.cred = cli.cred
            /\ loggedIn' = loggedIn /\ config' = config /\ live' = live /\ issued' = issued
        BY <1>0, <2>1, <2>2
      <4>2. Honoured(cli.store)'
        BY <4>1, <3>7 DEF Honoured
      <4>3. \A p \in Accounts : Method(cli.store, p)' = Method(cli.store, p)
        BY <4>1 DEF Method
      <4> QED
        BY <4>1, <4>2, <4>3, <3>1, <3>4, <3>5, <3>6
    <3>9. CommandInv'
      BY <2>2, <2>7, <3>8 DEF CommandInv
    <3> QED
      BY <1>3, <1>4, <2>3, <3>9
  <2>8. CASE cli.op = "logout"
    <3>1. cli.store = Without(authFile, cli.account)
      BY <2>5, <2>8 DEF Changed
    <3>2. /\ cli.store \in Store
          /\ DOMAIN cli.store = loggedIn \ {cli.account}
          /\ \A q \in DOMAIN authFile \ {cli.account} : cli.store[q] = authFile[q]
          /\ \A q \in Accounts : Method(cli.store, q) = IF q = cli.account THEN "" ELSE Method(authFile, q)
      <4>1. /\ Without(authFile, cli.account) \in Store
            /\ DOMAIN Without(authFile, cli.account) = DOMAIN authFile \ {cli.account}
            /\ \A q \in DOMAIN authFile \ {cli.account} : Without(authFile, cli.account)[q] = authFile[q]
            /\ \A q \in Accounts : Method(Without(authFile, cli.account), q) =
                                     IF q = cli.account THEN "" ELSE Method(authFile, q)
        BY <2>5, <1>0, WithoutFacts
      <4> QED
        BY <4>1, <3>1, <2>5
    <3>3. "openai" \in DOMAIN cli.store =>
            cli.store["openai"].refresh \in live \cup {0} /\ cli.store["openai"].refresh =< issued
      BY <2>4, <2>5, <3>2 DEF GoodStore, Honoured
    <3>4. CommandInv'
      BY <1>0, <2>1, <2>2, <2>6, <2>8, <3>2, <3>3
      DEF CommandInv, Honoured, Method
    <3> QED
      BY <1>3, <1>4, <2>3, <3>4
  <2> QED
    BY <1>0, <2>7, <2>8
<1>6. CASE cli.at = "writing"
  <2>1. /\ cli' = [cli EXCEPT !.at = "config"] /\ Write(cli.store)
        /\ loggedIn' = IF cli.op = "login" THEN loggedIn \cup {cli.account} ELSE loggedIn \ {cli.account}
    BY <1>6 DEF SaveByCommand, Quiet
  <2>2. /\ cli'.at = "config" /\ cli'.op = cli.op /\ cli'.account = cli.account
        /\ cli'.cred = cli.cred
    BY <1>0, <2>1 DEF CliType
  <2>3. authFile = Torn
    BY <1>6 DEF FileInv
  <2>4. authFile' = cli.store
    BY <2>1, <2>3 DEF Write
  <2>5. /\ cli.store \in Store
        /\ DOMAIN cli.store = loggedIn'
        /\ \A p \in Accounts :
            Method(cli.store, p) = IF p # cli.account THEN config.method[p]
                                   ELSE IF cli.op = "login" THEN cli.cred.method ELSE ""
        /\ Honoured(cli.store)
        /\ "openai" \in DOMAIN cli.store => cli.store["openai"].refresh =< issued
    BY <1>6, <2>1 DEF CommandInv
  <2>6. \A p \in Accounts : Promised(p)' = Method(cli.store, p)
    BY <1>0, <2>2, <2>5 DEF Promised, Accounts
  <2>7. authFile' # Torn
    BY <2>4, <2>5, StoreNotTorn
  <2>8. GoodStore(authFile)'
    BY <1>0, <2>4, <2>5, <2>6 DEF GoodStore, Method
  <2>9. FileInv'
    BY <1>0, <1>2, <2>2, <2>4, <2>5, <2>7, <2>8 DEF FileInv, Honoured
  <2>10. CommandInv'
    BY <2>2 DEF CommandInv, InCommand
  <2> QED
    BY <1>3, <1>4, <2>9, <2>10
<1> QED
  BY <1>0, <1>5, <1>6

LEMMA DeleteKeeps ==
  ASSUME TypeInv, CalmInv, Quiet, DeleteAllCredentials
  PROVE  CalmInv'
<1> USE DEF CalmInv
<1>0. /\ UNCHANGED <<config, issued, live>> /\ authFile' = NoStore /\ loggedIn' = {}
      /\ cli.at = "load" /\ cli \in CliType /\ cli.account = "all"
      /\ cli' = [cli EXCEPT !.at = "config"]
  BY DEF DeleteAllCredentials, server, TypeInv, Typed
<1>1. InCommand /\ \A g \in Turns : turn[g].at = "idle"
  BY <1>0 DEF AloneInv, InCommand, InRefresh
<1>2. \A g \in Turns : turn'[g] = turn[g] /\ turn'[g].at = "idle" /\ ~Holds(g) /\ ~Holds(g)'
  BY <1>1 DEF Holds, DeleteAllCredentials
<1>3. AloneInv'
  BY <1>0, <1>2 DEF AloneInv, Quiet
<1>4. TurnInv'
  BY <1>0, <1>2 DEF TurnInv, OneTurn
<1>5. cli'.at = "config" /\ cli'.op = cli.op /\ cli'.account = "all"
  BY <1>0 DEF CliType
<1>6. cli.op = "logout"
  BY <1>0, <1>1 DEF TypeInv, Accounts
<1>7. \A p \in Accounts : Promised(p)' = ""
  BY <1>5, <1>6 DEF Promised
<1>8. authFile' # Torn /\ GoodStore(authFile)' /\ Honoured(authFile)'
  BY <1>0, <1>7, NoStoreFacts, StoreNotTorn DEF GoodStore, Honoured, Method
<1>9. FileInv'
  BY <1>2, <1>5, <1>8 DEF FileInv
<1>10. CommandInv'
  BY <1>5 DEF CommandInv, InCommand
<1> QED
  BY <1>3, <1>4, <1>9, <1>10

LEMMA ConfigKeeps ==
  ASSUME TypeInv, TypeInv', CalmInv, Quiet, UpdateConfig
  PROVE  CalmInv'
<1> USE DEF CalmInv
<1> DEFINE method == IF cli.op = "login" THEN cli.cred.method ELSE ""
           M      == [p \in Accounts |-> IF cli.account \in {p, "all"} THEN method ELSE config.method[p]]
<1>0. /\ UNCHANGED <<authFile, turn, issued, live, loggedIn>>
      /\ cli.at = "config" /\ cli'.at = "idle" /\ config \in Config /\ config # Torn
  BY DEF UpdateConfig, Exit, IdleCli, server, AloneInv
<1>1. config' = [config EXCEPT !.method = M]
  BY <1>0 DEF UpdateConfig, Quiet
<1>2. config'.method = M
  BY <1>0, <1>1 DEF Config
<1>3. \A p \in Accounts : Promised(p)' = Promised(p)
  BY <1>0, <1>2 DEF Promised
<1>4. \A s : GoodStore(s) => GoodStore(s)'
  BY <1>0, <1>3 DEF GoodStore
<1>5. \A s : /\ Honoured(s) => Honoured(s)'
             /\ Refreshable(s) => Refreshable(s)'
  BY <1>0 DEF Honoured, Refreshable
<1>6. \A g \in Turns : Holds(g)' <=> Holds(g)
  BY <1>0 DEF Holds
<1>7. FileInv'
  BY <1>0, <1>4, <1>5, <1>6 DEF FileInv
<1>8. TurnInv'
  BY <1>0, <1>4, <1>5, <1>6 DEF TurnInv, OneTurn
<1>9. config' \in Config
  <2>1. config' = [names |-> config.names, keys |-> config.keys, method |-> M]
    BY <1>0, <1>1 DEF Config
  <2>2. config' \in Config \cup {Torn}
    BY DEF TypeInv, Typed
  <2>3. M \in [Accounts -> Methods]
    <3>1. cli.cred \in AuthCredential \cup {NoCred}
      BY DEF TypeInv, Typed, CliType
    <3>2. NoCred.method = ""
      BY DEF NoCred
    <3>3. method \in Methods
      BY <3>1, <3>2 DEF AuthCredential, Methods
    <3> QED
      BY <3>3, <1>0 DEF Config
  <2> QED
    BY <1>0, <2>1, <2>3 DEF Config
<1>10. AloneInv'
  BY <1>0, <1>6, <1>9 DEF AloneInv, Quiet
<1>11. CommandInv'
  BY <1>0 DEF CommandInv, InCommand
<1> QED
  BY <1>7, <1>8, <1>10, <1>11

\* A goroutine's step: no command is changing the file, before or after it,
\* unless the goroutine becomes or was idle.
LEMMA GetTokenKeeps ==
  ASSUME TypeInv, CalmInv, Quiet, NEW g \in Turns, GetToken(g)
  PROVE  CalmInv'
<1> USE DEF CalmInv
<1>0. /\ UNCHANGED <<authFile, config, cli, issued, live, loggedIn>>
      /\ turn \in [Turns -> TurnType] /\ turn[g].at = "idle"
      /\ authFile # Torn /\ "openai" \in DOMAIN authFile /\ authFile["openai"].method = "oauth"
      /\ turn' = [turn EXCEPT ![g].at = "refresh", ![g].refresh = authFile["openai"].refresh]
  BY DEF GetToken, Elsewhere, server, TypeInv, Typed
<1>1. /\ turn'[g].at = "refresh" /\ turn'[g].refresh = authFile["openai"].refresh
      /\ \A h \in Turns : h # g => turn'[h] = turn[h]
  BY <1>0 DEF TurnType
<1>2. \A h \in Turns : Holds(h)' <=> Holds(h)
  BY <1>0, <1>1 DEF Holds
<1>3. /\ \A s : GoodStore(s) => GoodStore(s)'
      /\ \A s : Honoured(s) => Honoured(s)'
      /\ \A s : Refreshable(s) => Refreshable(s)'
  BY <1>0 DEF GoodStore, Promised, Honoured, Refreshable
<1>4. \A h \in Turns : turn'[h].at = "writing" <=> turn[h].at = "writing"
  BY <1>0, <1>1
<1>5. FileInv'
  BY <1>0, <1>2, <1>3, <1>4 DEF FileInv
<1>6. AloneInv'
  BY <1>0, <1>2 DEF AloneInv, Quiet
<1>7. ~InCommand'
  BY <1>1 DEF Quiet, InRefresh
<1>8. CommandInv'
  BY <1>7 DEF CommandInv, InCommand
<1>9. TurnInv'
  <2> SUFFICES ASSUME NEW h \in Turns PROVE OneTurn(h)'
    BY DEF TurnInv
  <2>1. CASE h = g
    <3>1. GoodStore(authFile)
      BY <1>0 DEF FileInv
    <3>2. turn'[g].refresh =< issued'
      BY <1>0, <1>1, <3>1 DEF GoodStore
    <3>3. turn'[g].refresh \in live' => \A i \in Turns : ~Holds(i)
      <4>1. \A i \in Turns : Holds(i) => i # g /\ turn'[i].cred = turn[i].cred
        BY <1>0, <1>1 DEF Holds
      <4>2. \A i \in Turns : Holds(i) => turn[i].cred.refresh # 0
        BY <1>1, <1>2, <4>1 DEF Quiet, Unguarded
      <4> QED
        BY <1>0, <1>1, <4>2 DEF FileInv
    <3>4. ~Holds(g)' /\ Refreshable(authFile)'
      BY <1>0, <1>1 DEF Holds, Refreshable
    <3> QED
      BY <1>0, <1>1, <1>2, <2>1, <3>2, <3>3, <3>4 DEF OneTurn
  <2>2. CASE h # g
    <3>1. turn'[h] = turn[h]
      BY <1>1, <2>2
    <3>2. Put(authFile, "openai", turn[h].cred)' = Put(authFile, "openai", turn[h].cred)
      BY <1>0, <3>1 DEF Put
    <3>3. OneTurn(h)
      BY DEF TurnInv
    <3>4. authFile' = authFile /\ issued' = issued /\ live' = live
      BY <1>0
    <3>5. (\A i \in Turns : ~Holds(i)) => \A i \in Turns : ~Holds(i)'
      BY <1>2
    <3> QED
      BY <1>2, <1>3, <3>1, <3>2, <3>3, <3>4, <3>5 DEF OneTurn
  <2> QED
    BY <2>1, <2>2
<1> QED
  BY <1>5, <1>6, <1>8, <1>9

\* A goroutine that gives up before it holds new tokens.
LEMMA GivingUpKeeps ==
  ASSUME TypeInv, CalmInv, Quiet, NEW g \in Turns, turn[g].at = "refresh", GiveUp(g),
         UNCHANGED <<authFile, config, cli, issued, live, loggedIn>>
  PROVE  CalmInv'
<1> USE DEF CalmInv
<1>0. turn \in [Turns -> TurnType] /\ issued \in Nat
  BY DEF TypeInv, Typed
<1>1. /\ turn'[g].at = "idle" /\ turn'[g].refresh = 0
      /\ \A h \in Turns : h # g => turn'[h] = turn[h]
  BY <1>0 DEF GiveUp, IdleTurn
<1>2. \A h \in Turns : Holds(h)' <=> Holds(h)
  BY <1>1 DEF Holds
<1>3. /\ \A s : GoodStore(s) => GoodStore(s)'
      /\ \A s : Honoured(s) => Honoured(s)'
      /\ \A s : Refreshable(s) => Refreshable(s)'
  BY DEF GoodStore, Promised, Honoured, Refreshable
<1>4. \A h \in Turns : turn'[h].at = "writing" <=> turn[h].at = "writing"
  BY <1>0, <1>1
<1>5. FileInv'
  <2>1. \A h \in Turns : Holds(h)' => turn'[h].cred = turn[h].cred
    BY <1>1 DEF Holds
  <2> QED
    BY <1>2, <1>3, <1>4, <2>1 DEF FileInv
<1>6. AloneInv'
  BY <1>2 DEF AloneInv, Quiet
<1>7. ~InCommand'
  BY DEF AloneInv, InRefresh, InCommand
<1>8. CommandInv'
  BY <1>7 DEF CommandInv, InCommand
<1>9. \A h \in Turns : h # g => Put(authFile, "openai", turn[h].cred)' = Put(authFile, "openai", turn[h].cred)
  BY <1>1 DEF Put
<1>10. TurnInv'
  <2> SUFFICES ASSUME NEW h \in Turns PROVE OneTurn(h)'
    BY DEF TurnInv
  <2>1. CASE h = g
    BY <1>0, <1>1, <2>1 DEF OneTurn, Holds
  <2>2. CASE h # g
    <3>1. OneTurn(h)
      BY DEF TurnInv
    <3>2. turn'[h] = turn[h] /\ authFile' = authFile /\ issued' = issued /\ live' = live
      BY <1>1, <2>2
    <3>3. Put(authFile, "openai", turn[h].cred)' = Put(authFile, "openai", turn[h].cred)
      BY <1>9, <2>2
    <3>4. (\A i \in Turns : ~Holds(i)) => \A i \in Turns : ~Holds(i)'
      BY <1>2
    <3> QED
      BY <1>2, <1>3, <3>1, <3>2, <3>3, <3>4 DEF OneTurn
  <2> QED
    BY <2>1, <2>2
<1> QED
  BY <1>5, <1>6, <1>8, <1>10

\* The server's answer uses up the refresh token that is in the file; every
\* other goroutine in a refresh has a token that it does not know.
LEMMA AnswerKeeps ==
  ASSUME TypeInv, CalmInv, Quiet, NEW g \in Turns, RefreshAccessToken(g)
  PROVE  CalmInv'
<1> USE DEF CalmInv
<1> DEFINE r == turn[g].refresh
<1>0. /\ UNCHANGED <<authFile, config, cli, loggedIn>> /\ turn[g].at = "refresh"
      /\ turn \in [Turns -> TurnType] /\ issued \in Nat
  BY DEF RefreshAccessToken, Elsewhere, TypeInv, Typed
<1>1. CASE GiveUp(g) /\ UNCHANGED <<issued, live>>
  BY <1>0, <1>1, GivingUpKeeps
<1>2. CASE ~(GiveUp(g) /\ UNCHANGED <<issued, live>>)
  <2>1. r \in live /\ issued' = issued + 1
    BY <1>2 DEF RefreshAccessToken, Quiet
  <2>2. PICK refresh \in {issued', 0} :
          /\ live' = IF refresh = 0 THEN live ELSE (live \ {r}) \cup {refresh}
          /\ turn' = [turn EXCEPT ![g].at = "load", ![g].cred = ParseTokenResponse(refresh)]
    BY <1>2 DEF RefreshAccessToken, Quiet
  <2>2a. /\ turn'[g].at = "load" /\ turn'[g].refresh = r
         /\ turn'[g].cred.method = "oauth" /\ turn'[g].cred.refresh = refresh
         /\ \A h \in Turns : h # g => turn'[h] = turn[h]
    BY <1>0, <2>2 DEF ParseTokenResponse, TurnType
  <2>3. /\ authFile # Torn /\ Refreshable(authFile) /\ GoodStore(authFile)
        /\ authFile["openai"].refresh = r /\ r =< issued
        /\ \A h \in Turns : ~Holds(h)
    BY <1>0, <2>1 DEF TurnInv, OneTurn, FileInv
  <2>4. Holds(g)' /\ \A h \in Turns : Holds(h)' => h = g
    BY <2>2a, <2>3 DEF Holds
  <2>5. /\ r \in Nat /\ live' \subseteq 1 .. issued' /\ refresh \in live' \cup {0}
        /\ refresh # 0 => r \notin live'
    <3>1. live \subseteq 1 .. issued
      BY DEF AloneInv
    <3>2. r \in 1 .. issued
      BY <2>1, <3>1
    <3>3. 1 .. issued \subseteq 1 .. issued' /\ issued' \in 1 .. issued' /\ issued' # 0
      BY <1>0, <2>1
    <3>4. r \in Nat /\ r # issued'
      BY <1>0, <2>1, <3>2
    <3> QED
      BY <2>2, <3>1, <3>3, <3>4
  <2>5a. refresh = 0 => \A h \in Turns : h # g => turn'[h].at = "idle"
    BY <2>4, <2>2a DEF Quiet, Unguarded
  <2>6. AloneInv'
    BY <1>0, <2>4, <2>5 DEF AloneInv, Quiet
  <2>7. Refreshable(authFile)' /\ GoodStore(authFile)'
    <3>1. authFile["openai"].refresh =< issued'
      BY <1>0, <2>1, <2>3, <2>5
    <3> QED
      BY <1>0, <2>3, <3>1 DEF Refreshable, GoodStore, Promised
  <2>8. FileInv'
    <3>1. \A h \in Turns : turn'[h].at # "writing"
      BY <2>2a, <2>3 DEF Holds
    <3>2. cli'.at # "writing"
      BY <1>0, <2>3 DEF FileInv
    <3>3. \A h \in Turns : Holds(h)' => turn'[h].cred.refresh = refresh
      BY <2>4, <2>2a
    <3> QED
      BY <1>0, <2>3, <2>4, <2>5, <2>7, <3>1, <3>2, <3>3 DEF FileInv
  <2>9. CommandInv'
    <3>1. ~InCommand'
      BY <2>2a DEF Quiet, InRefresh
    <3> QED
      BY <3>1 DEF CommandInv, InCommand
  <2>10. TurnInv'
    <3>1. ASSUME NEW h \in Turns, h # g
          PROVE  ~Holds(h)' /\ turn'[h] = turn[h] /\ turn[h].refresh =< issued'
                 /\ (turn'[h].at = "refresh" => turn[h].refresh \notin live')
      <4>1. turn[h].refresh =< issued /\ turn[h].refresh \in Nat
        BY <1>0 DEF TurnInv, OneTurn, TurnType
      <4>2. turn[h].at = "refresh" /\ turn[h].refresh \in live => turn[h].refresh = r
        BY <2>3 DEF TurnInv, OneTurn
      <4> QED
        BY <1>0, <2>1, <2>2, <2>5, <2>2a, <2>5a, <2>4, <3>1, <4>1, <4>2
    <3>2. turn'[g].refresh =< issued'
      BY <1>0, <2>1, <2>2a, <2>3, <2>5
    <3>3. \A h \in Turns : turn'[h].at \in {"load", "write", "writing"} => h = g
      BY <2>4 DEF Holds
    <3> QED
      BY <1>0, <2>2a, <2>3, <2>4, <2>5, <2>7, <3>1, <3>2, <3>3 DEF TurnInv, OneTurn
  <2> QED
    BY <2>6, <2>8, <2>9, <2>10
<1> QED
  BY <1>1, <1>2

\* Who holds new tokens is alone with the file.
LEMMA HolderIsAlone ==
  ASSUME CalmInv, NEW g \in Turns, Holds(g)
  PROVE  /\ ~InCommand
         /\ \A h \in Turns : h # g => ~Holds(h)
         /\ \A h \in Turns : turn[h].at = "refresh" => turn[h].refresh \notin live
         /\ authFile = Torn <=> turn[g].at = "writing"
<1> USE DEF CalmInv
<1>1. ~InCommand
  BY DEF AloneInv, InRefresh, Holds
<1>2. \A h \in Turns : h # g => ~Holds(h)
  BY DEF AloneInv
<1>3. \A h \in Turns : turn[h].at = "refresh" => turn[h].refresh \notin live
  BY DEF TurnInv, OneTurn
<1>4. cli.at # "writing" /\ \A h \in Turns : turn[h].at = "writing" => h = g
  BY <1>1, <1>2 DEF InCommand, Holds
<1>5. authFile = Torn <=> turn[g].at = "writing"
  BY <1>4 DEF FileInv
<1> QED
  BY <1>1, <1>2, <1>3, <1>5

LEMMA LoadForRefreshKeeps ==
  ASSUME TypeInv, CalmInv, Quiet, NEW g \in Turns, LoadForRefresh(g)
  PROVE  CalmInv'
<1> USE DEF CalmInv
<1>0. /\ UNCHANGED <<authFile, config, cli, issued, live, loggedIn>> /\ turn[g].at = "load" /\ Holds(g)
      /\ turn \in [Turns -> TurnType]
  BY DEF LoadForRefresh, Elsewhere, server, TypeInv, Typed, Holds
<1>1. /\ ~InCommand
      /\ \A h \in Turns : h # g => ~Holds(h)
      /\ \A h \in Turns : turn[h].at = "refresh" => turn[h].refresh \notin live
      /\ authFile # Torn
  BY <1>0, HolderIsAlone
<1>2. turn' = [turn EXCEPT ![g].at = "write", ![g].store = Put(authFile, "openai", turn[g].cred)]
  BY <1>1 DEF LoadForRefresh
<1>3. /\ turn'[g].at = "write" /\ turn'[g].store = Put(authFile, "openai", turn[g].cred)
      /\ turn'[g].cred = turn[g].cred /\ turn'[g].refresh = turn[g].refresh
      /\ \A h \in Turns : h # g => turn'[h] = turn[h]
  BY <1>0, <1>2 DEF TurnType
<1>4. Holds(g)' /\ \A h \in Turns : Holds(h)' => h = g
  BY <1>1, <1>3 DEF Holds
<1>5. AloneInv'
  BY <1>0, <1>4 DEF AloneInv, Quiet
<1>6. CommandInv'
  BY <1>0, <1>1 DEF CommandInv, InCommand
<1>7. GoodStore(authFile)' /\ Refreshable(authFile)'
  <2>1. GoodStore(authFile) /\ Refreshable(authFile)
    BY <1>0, <1>1 DEF FileInv, TurnInv, OneTurn
  <2> QED
    BY <2>1, <1>0 DEF GoodStore, Promised, Refreshable
<1>8. cli'.at # "writing" /\ \A h \in Turns : turn'[h].at # "writing"
  BY <1>0, <1>1, <1>3 DEF InCommand, Holds
<1>9. FileInv'
  <2>1. turn[g].cred.refresh # 0 => authFile["openai"].refresh \notin live
    BY <1>0, <1>1 DEF FileInv
  <2> QED
    BY <1>0, <1>1, <1>3, <1>4, <1>7, <1>8, <2>1 DEF FileInv
<1>10. TurnInv'
  <2>1. \A h \in Turns : turn'[h].at \in {"load", "write", "writing"} => h = g
    BY <1>4 DEF Holds
  <2>2. \A h \in Turns : turn'[h].refresh =< issued' /\ turn'[h].refresh = turn[h].refresh
    BY <1>0, <1>3 DEF TurnInv, OneTurn
  <2>3. \A h \in Turns : turn'[h].at = "refresh" => turn'[h].refresh \notin live'
    BY <1>0, <1>1, <1>3
  <2>4. turn'[g].cred.method = "oauth" /\ turn'[g].cred.refresh \in live' \cup {0}
    BY <1>0, <1>3 DEF TurnInv, OneTurn
  <2>5. Put(authFile, "openai", turn[g].cred)' = turn'[g].store
    BY <1>0, <1>3 DEF Put
  <2> QED
    BY <1>3, <1>4, <1>7, <2>1, <2>2, <2>3, <2>4, <2>5 DEF TurnInv, OneTurn
<1> QED
  BY <1>5, <1>6, <1>9, <1>10

LEMMA SaveRefreshedKeeps ==
  ASSUME TypeInv, CalmInv, Quiet, NEW g \in Turns, SaveRefreshed(g)
  PROVE  CalmInv'
<1> USE DEF CalmInv
<1>0. /\ UNCHANGED <<config, cli, issued, live, loggedIn>> /\ Holds(g)
      /\ turn[g].at \in {"write", "writing"}
      /\ turn \in [Turns -> TurnType] /\ issued \in Nat
  BY DEF SaveRefreshed, Elsewhere, server, TypeInv, Typed, Holds
<1>1. /\ ~InCommand
      /\ \A h \in Turns : h # g => ~Holds(h)
      /\ \A h \in Turns : turn[h].at = "refresh" => turn[h].refresh \notin live
      /\ authFile = Torn <=> turn[g].at = "writing"
  BY <1>0, HolderIsAlone
<1>2. CommandInv'
  BY <1>0, <1>1 DEF CommandInv, InCommand
<1>3. cli'.at # "writing" /\ cli.at # "writing"
  BY <1>0, <1>1 DEF InCommand
<1>4. CASE turn[g].at = "write"
  <2>1. authFile' = Torn /\ turn' = [turn EXCEPT ![g].at = "writing"]
    BY <1>4 DEF SaveRefreshed, Truncate, Goto, Quiet
  <2>2. /\ turn'[g].at = "writing" /\ turn'[g].store = turn[g].store
        /\ turn'[g].cred = turn[g].cred /\ turn'[g].refresh = turn[g].refresh
        /\ \A h \in Turns : h # g => turn'[h] = turn[h]
    BY <1>0, <2>1 DEF TurnType
  <2>3. Holds(g)' /\ \A h \in Turns : Holds(h)' => h = g
    BY <1>1, <2>2 DEF Holds
  <2>4. AloneInv'
    BY <1>0, <2>3 DEF AloneInv, Quiet
  <2>5. FileInv'
    BY <2>1, <2>2 DEF FileInv
  <2>6. /\ authFile # Torn /\ GoodStore(authFile) /\ Refreshable(authFile)
        /\ turn[g].store = Put(authFile, "openai", turn[g].cred)
        /\ turn[g].cred.method = "oauth" /\ turn[g].cred.refresh \in live \cup {0}
    BY <1>0, <1>1, <1>4 DEF FileInv, TurnInv, OneTurn
  <2>7. PutIs(authFile, "openai", turn[g].cred)
    <3>1. turn[g].cred \in AuthCredential /\ authFile \in Store /\ "openai" \in Accounts
      BY <1>0, <2>6 DEF TypeInv, GoodStore, Accounts
    <3> QED
      BY <3>1, PutFacts
  <2>8. turn[g].cred.refresh =< issued
    <3>1. live \subseteq 1 .. issued
      BY DEF AloneInv
    <3>2. 0 =< issued /\ \A n \in 1 .. issued : n =< issued
      BY <1>0
    <3> QED
      BY <2>6, <3>1, <3>2
  <2>9. /\ turn[g].store \in Store /\ DOMAIN turn[g].store = DOMAIN authFile
        /\ turn[g].store["openai"] = turn[g].cred
        /\ \A p \in Accounts : Method(turn[g].store, p) = Method(authFile, p)
    BY <2>6, <2>7 DEF PutIs, Refreshable, Method
  <2>10. GoodStore(turn[g].store) /\ Refreshable(turn[g].store) /\ Honoured(turn[g].store)
    BY <2>6, <2>8, <2>9 DEF GoodStore, Refreshable, Honoured
  <2>11. GoodStore(turn[g].store)' /\ Refreshable(turn[g].store)' /\ Honoured(turn[g].store)'
    BY <1>0, <2>2, <2>10 DEF GoodStore, Refreshable, Honoured, Promised
  <2>12. TurnInv'
    <3>1. \A h \in Turns : turn'[h].at \in {"load", "write", "writing"} => h = g
      BY <2>3 DEF Holds
    <3>2. \A h \in Turns : turn'[h].refresh =< issued' /\ turn'[h].refresh = turn[h].refresh
      BY <1>0, <2>2 DEF TurnInv, OneTurn
    <3>3. \A h \in Turns : turn'[h].at = "refresh" => turn'[h].refresh \notin live'
      BY <1>0, <1>1, <2>2
    <3>4. turn'[g].cred.method = "oauth" /\ turn'[g].cred.refresh \in live' \cup {0}
      BY <1>0, <2>2, <2>6
    <3> QED
      BY <2>1, <2>2, <2>3, <2>11, <3>1, <3>2, <3>3, <3>4 DEF TurnInv, OneTurn
  <2> QED
    BY <1>2, <2>4, <2>5, <2>12
<1>5. CASE turn[g].at = "writing"
  <2>1. authFile' = turn[g].store /\ turn' = [turn EXCEPT ![g] = IdleTurn]
    BY <1>1, <1>5 DEF SaveRefreshed, Write, GiveUp, Quiet
  <2>2. /\ turn'[g].at = "idle" /\ turn'[g].refresh = 0
        /\ \A h \in Turns : h # g => turn'[h] = turn[h]
    BY <1>0, <2>1 DEF IdleTurn
  <2>3. \A h \in Turns : ~Holds(h)'
    BY <1>1, <2>2 DEF Holds
  <2>4. AloneInv'
    BY <1>0, <2>3 DEF AloneInv, Quiet
  <2>5. GoodStore(turn[g].store) /\ Refreshable(turn[g].store) /\ Honoured(turn[g].store)
    BY <1>5 DEF TurnInv, OneTurn
  <2>6. GoodStore(authFile)' /\ Refreshable(authFile)' /\ Honoured(authFile)'
    BY <1>0, <2>1, <2>5 DEF GoodStore, Refreshable, Honoured, Promised
  <2>7. authFile' # Torn
    BY <2>1, <2>5, StoreNotTorn DEF GoodStore
  <2>8. \A h \in Turns : turn'[h].at \notin {"load", "write", "writing"}
    BY <2>3 DEF Holds
  <2>9. FileInv'
    BY <1>3, <2>3, <2>6, <2>7, <2>8 DEF FileInv
  <2>10. TurnInv'
    <3>1. \A h \in Turns : turn'[h].refresh =< issued'
      BY <1>0, <2>2 DEF TurnInv, OneTurn
    <3>2. \A h \in Turns : turn'[h].at = "refresh" => turn'[h].refresh \notin live'
      BY <1>0, <1>1, <2>2
    <3> QED
      BY <2>3, <2>6, <2>8, <3>1, <3>2 DEF TurnInv, OneTurn
  <2> QED
    BY <1>2, <2>4, <2>9, <2>10
<1> QED
  BY <1>0, <1>4, <1>5

LEMMA StoppingKeeps ==
  ASSUME TypeInv, CalmInv, ~InRefresh, StopGateway
  PROVE  CalmInv'
<1> USE DEF CalmInv
<1>1. /\ UNCHANGED <<authFile, config, cli, issued, live, loggedIn>>
      /\ turn' = [g \in Turns |-> IdleTurn] /\ issued \in Nat
  BY DEF StopGateway, files, server, TypeInv, Typed
<1>2. \A g \in Turns : turn[g].at = "idle" /\ turn'[g].at = "idle" /\ turn'[g].refresh = 0
  BY <1>1 DEF InRefresh, IdleTurn
<1>3. \A g \in Turns : ~Holds(g) /\ ~Holds(g)'
  BY <1>2 DEF Holds
<1>4. AloneInv'
  BY <1>1, <1>2, <1>3 DEF AloneInv, InRefresh, Unguarded
<1>5. FileInv'
  BY <1>1, <1>2, <1>3 DEF FileInv, GoodStore, Promised, Honoured
<1>6. TurnInv'
  BY <1>1, <1>2, <1>3 DEF TurnInv, OneTurn
<1>7. CommandInv'
  BY <1>1 DEF CommandInv, InCommand, Changed, Put, Without, Honoured
<1> QED
  BY <1>4, <1>5, <1>6, <1>7

LEMMA CalmStep ==
  ASSUME TypeInv, TypeInv', disturbed \in BOOLEAN, Calm => CalmInv, [Next]_vars, Calm'
  PROVE  CalmInv'
<1>1. CASE UNCHANGED vars
  <2>1. Calm /\ UNCHANGED <<authFile, config, turn, cli, issued, live, loggedIn>>
    BY <1>1 DEF vars, files, server, Calm
  <2> QED
    BY <2>1, CalmFrame
<1>2. CASE Next
  <2>0. Calm /\ CalmInv /\ (~StopGateway /\ ~StartGateway => Quiet) /\ (StopGateway => ~InRefresh)
    BY <1>2, CalmBefore
  <2>1. CASE StartGateway \/ \E n \in Tokens : Expire(n)
    <3>1. UNCHANGED <<authFile, config, turn, cli, issued, live, loggedIn>>
      BY <2>1 DEF StartGateway, Expire, files, server
    <3> QED
      BY <2>0, <3>1, CalmFrame
  <2>2. CASE StopGateway
    BY <2>0, <2>2, StoppingKeeps
  <2>3. CASE Quiet
    <3>1. ASSUME NEW g \in Turns, GetToken(g) \/ RefreshAccessToken(g) \/ LoadForRefresh(g) \/ SaveRefreshed(g)
          PROVE  CalmInv'
      BY <2>0, <2>3, <3>1, GetTokenKeeps, AnswerKeeps, LoadForRefreshKeeps, SaveRefreshedKeeps
    <3>2. ASSUME \/ \E place \in {"browser", "device"} : Login("openai", place)
                 \/ Login("anthropic", "paste")
                 \/ \E account \in Accounts \cup {"all"} : Logout(account)
          PROVE  CalmInv'
      <4>1. \/ \E account \in Accounts, place \in {"browser", "device", "paste"} : Login(account, place)
            \/ \E account \in Accounts \cup {"all"} : Logout(account)
        BY <3>2 DEF Accounts
      <4> QED
        BY <2>0, <2>3, <4>1, BeginningsKeep
    <3>3. ASSUME LoginBrowser \/ LoginDeviceCode \/ LoginPasteToken \/ LoadForCommand \/ SaveByCommand
                 \/ DeleteAllCredentials \/ UpdateConfig \/ Interrupt
          PROVE  CalmInv'
      BY <2>0, <2>3, <3>3, LoginsKeep, LoadKeeps, SaveKeeps, DeleteKeeps, ConfigKeeps, InterruptKeeps
    <3> QED
      BY <1>2, <2>1, <2>2, <3>1, <3>2, <3>3 DEF Next
  <2> QED
    BY <2>0, <2>1, <2>2, <2>3
<1> QED
  BY <1>1, <1>2

LEMMA Invariant == Spec => []IInv
<1>1. Init => IInv
  BY TypeInit, CalmInit DEF IInv
<1>2. IInv /\ [Next]_vars => IInv'
  <2> SUFFICES ASSUME IInv, [Next]_vars PROVE IInv'
    OBVIOUS
  <2>0. TypeInv /\ disturbed \in BOOLEAN /\ (Calm => CalmInv)
    BY DEF IInv
  <2>1. TypeInv'
    BY <2>0, TypeStep
  <2>2. disturbed' \in BOOLEAN
    <3>1. disturbed \in BOOLEAN /\ UNCHANGED vars => disturbed' \in BOOLEAN
      BY DEF vars
    <3> QED
      BY <2>0, <3>1, DisturbedTyped
  <2>3. (Calm => CalmInv)'
    BY <2>0, <2>1, CalmStep
  <2> QED
    BY <2>1, <2>2, <2>3 DEF IInv
<1> QED
  BY <1>1, <1>2, PTL DEF Spec

-----------------------------------------------------------------------------
(* The theorems.                                                           *)

\* The values of all variables have their types.
THEOREM TypeCorrect == Spec => []TypeOK
<1>1. IInv => TypeOK
  BY DEF IInv, TypeInv, TypeOK
<1> QED
  BY <1>1, Invariant, PTL

\* A refresh leaves a refresh token that the server honours, however many
\* goroutines notice at the same time that the token is due and ask for a new
\* one with the token that each has read.
THEOREM RefreshKeepsLogin == Spec => []StoredTokenLives
<1>1. IInv => StoredTokenLives
  <2> SUFFICES ASSUME IInv, Calm, Still, authFile # Torn, "openai" \in DOMAIN authFile
               PROVE  authFile["openai"].refresh \in live \cup {0}
    BY DEF StoredTokenLives
  <2>1. FileInv
    BY DEF IInv, CalmInv
  <2>2. \A g \in Turns : ~Holds(g)
    BY DEF Still, InRefresh, Holds
  <2> QED
    BY <2>1, <2>2 DEF FileInv, Honoured
<1> QED
  BY <1>1, Invariant, PTL

\* A login lasts until its logout: commands and refreshes leave the stores of
\* the other providers alone, config.json says how to authenticate, and the
\* gateway starts with the login, whatever API keys there are.
THEOREM LoginsLast == Spec => []LoginsUsable
<1>1. IInv => LoginsUsable
  <2> SUFFICES ASSUME IInv, Calm, Still
               PROVE  /\ DOMAIN authFile = loggedIn
                      /\ \A p \in Accounts :
                           config.method[p] = IF p \in loggedIn THEN authFile[p].method ELSE ""
                      /\ \A p \in loggedIn : config.names = {p} =>
                           CreateProvider = IF p = "openai" THEN "codex" ELSE "claude"
    BY DEF LoginsUsable
  <2>1. FileInv
    BY DEF IInv, CalmInv
  <2>2. cli.at = "idle" /\ \A g \in Turns : turn[g].at = "idle"
    BY DEF Still, InRefresh
  <2>3. authFile # Torn /\ GoodStore(authFile)
    BY <2>1, <2>2 DEF FileInv
  <2>4. authFile \in Store /\ DOMAIN authFile = loggedIn
    BY <2>3 DEF GoodStore
  <2>5. \A p \in Accounts : config.method[p] = IF p \in loggedIn THEN authFile[p].method ELSE ""
    BY <2>2, <2>3, <2>4 DEF GoodStore, Promised, Method
  <2>6. ASSUME NEW p \in loggedIn, config.names = {p}
        PROVE  CreateProvider = IF p = "openai" THEN "codex" ELSE "claude"
    <3>1. p \in Accounts /\ config.method[p] \in {"oauth", "token"} /\ p \in DOMAIN authFile
      BY <2>4, <2>5, StoreFacts DEF AuthCredential
    <3>2. Configured(p)
      BY <3>1 DEF Configured
    <3>3. Chosen = p
      <4> DEFINE named == {i \in DOMAIN Order : Order[i] \in config.names /\ Configured(Order[i])}
      <4>1. /\ DOMAIN Order = 1 .. 5 /\ Order[1] = "anthropic" /\ Order[2] = "openai"
            /\ Order[3] = "gemini" /\ Order[4] = "zhipu" /\ Order[5] = "groq"
        BY DEF Order
      <4>2. \A i \in 1 .. 5 : Order[i] = p => i = IF p = "openai" THEN 2 ELSE 1
        <5>1. \A i \in 1 .. 5 : i = 1 \/ i = 2 \/ i = 3 \/ i = 4 \/ i = 5
          OBVIOUS
        <5> QED
          BY <3>1, <4>1, <5>1 DEF Accounts
      <4>3. Order[IF p = "openai" THEN 2 ELSE 1] = p
        BY <3>1, <4>1 DEF Accounts
      <4>4. named = {IF p = "openai" THEN 2 ELSE 1}
        BY <2>6, <3>2, <4>1, <4>2, <4>3
      <4>5. \A n : (CHOOSE i \in {n} : \A j \in {n} : i =< j) \in {n} \/ ~ n =< n
        OBVIOUS
      <4>6. (CHOOSE i \in named : \A j \in named : i =< j) = IF p = "openai" THEN 2 ELSE 1
        BY <4>4, <4>5
      <4>7. "openrouter" \notin config.names /\ named # {}
        BY <2>6, <3>1, <4>4 DEF Accounts
      <4> HIDE DEF named
      <4>8. Chosen = Order[CHOOSE i \in named : \A j \in named : i =< j]
        BY <4>7 DEF Chosen, named
      <4> QED
        BY <4>3, <4>6, <4>8
    <3> QED
      BY <3>1, <3>3 DEF CreateProvider
  <2> QED
    BY <2>4, <2>5, <2>6
<1> QED
  BY <1>1, Invariant, PTL
=============================================================================
