---------------------------- MODULE MigrateConfig ----------------------------
(***************************************************************************)
(* The conversion of an OpenClaw configuration (pkg/migrate/config.go).    *)
(*                                                                         *)
(* A configuration of PicoClaw is a record of sections; a text is "" or a  *)
(* value that tells whose it is.  Of the agents' defaults, the gateway and *)
(* the search tool there is one field each.  A parsed file of OpenClaw     *)
(* gives every section that it has: a field that is missing has no entry   *)
(* in the section's function.                                              *)
(***************************************************************************)
EXTENDS Integers

CONSTANTS
  Providers,             (* names of providers, "vllm" among them           *)
  ChannelNames           (* names of channels                               *)

SupportedProviders == Providers \cap {"anthropic", "openai", "openrouter", "groq", "zhipu", "vllm", "gemini"}
SupportedChannels  == ChannelNames \cap {"telegram", "discord", "whatsapp", "feishu", "qq", "dingtalk", "maixcam"}

NoProvider == [api_key |-> "", api_base |-> "", auth_method |-> ""]

\* Slack is a channel of PicoClaw that OpenClaw's file has no section for.
DefaultConfig ==
  [model     |-> "default",
   providers |-> [p \in SupportedProviders |-> NoProvider],
   channels  |-> [c \in SupportedChannels \cup {"slack"} |-> [enabled |-> FALSE, token |-> ""]],
   search    |-> ""]

\* getString, getBool: the value, or what is there if the field is missing.
Get(section, field, otherwise) ==
  IF field \in DOMAIN section THEN section[field] ELSE otherwise

\* Providers have their key and base replaced, also by nothing; of a channel the
\* token stays if it is missing; what PicoClaw does not know is skipped.
ConvertConfig(raw) ==
  [model     |-> Get(raw, "model", DefaultConfig.model),
   providers |-> [p \in SupportedProviders |->
                    IF p \in DOMAIN raw.providers
                    THEN [api_key     |-> Get(raw.providers[p], "api_key", ""),
                          api_base    |-> Get(raw.providers[p], "api_base", ""),
                          auth_method |-> ""]
                    ELSE NoProvider],
   channels  |-> [c \in DOMAIN DefaultConfig.channels |->
                    IF c \in DOMAIN raw.channels \cap SupportedChannels
                    THEN [enabled |-> Get(raw.channels[c], "enabled", FALSE),
                          token   |-> Get(raw.channels[c], "token", "")]
                    ELSE DefaultConfig.channels[c]],
   search    |-> Get(raw, "search", "")]

\* A provider without a key is taken from OpenClaw; one of vLLM needs none.
Unset(existing, p) ==
  existing.providers[p].api_key = "" /\ (p = "vllm" => existing.providers[p].api_base = "")

\* Mutant: a channel is taken from OpenClaw if it is enabled there.
MergeConfig_Enabled(existing, incoming) ==
  [existing EXCEPT
     !.providers = [p \in DOMAIN @ |-> IF Unset(existing, p) THEN incoming.providers[p] ELSE @[p]],
     !.channels  = [c \in DOMAIN @ |-> IF incoming.channels[c].enabled THEN incoming.channels[c] ELSE @[c]],
     !.search    = IF @ = "" THEN incoming.search ELSE @]

\* The sections of an existing configuration that are in use stay as they are;
\* its model stays in any case.
MergeConfig(existing, incoming) ==
  [existing EXCEPT
     !.providers = [p \in DOMAIN @ |-> IF Unset(existing, p) THEN incoming.providers[p] ELSE @[p]],
     !.channels  = [c \in DOMAIN @ |-> IF ~@[c].enabled /\ incoming.channels[c].enabled
                                       THEN incoming.channels[c] ELSE @[c]],
     !.search    = IF @ = "" THEN incoming.search ELSE @]

\* What is in use of an old configuration is the same in the new one: a provider
\* with an API key, VLLM also with an API base only, a channel that is enabled, the
\* search key, the model.  A login without an API key is not in use: MergeConfig
\* takes OpenClaw's provider in its place, and the auth_method is lost.
Keeps(new, old) ==
  /\ new.model = old.model
  /\ \A p \in DOMAIN old.providers :
       old.providers[p].api_key # "" \/ (p = "vllm" /\ old.providers[p].api_base # "") =>
         new.providers[p] = old.providers[p]
  /\ \A c \in DOMAIN old.channels : old.channels[c].enabled => new.channels[c] = old.channels[c]
  /\ old.search # "" => new.search = old.search
=============================================================================
