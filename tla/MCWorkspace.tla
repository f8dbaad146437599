----------------------------- MODULE MCWorkspace -----------------------------
EXTENDS Workspace, TLC

MCProviders    == {"anthropic", "vllm", "mistral"}
MCChannels     == {"telegram", "signal"}

\* A configuration of OpenClaw with sections and fields that are there, that are
\* missing, and that PicoClaw does not support; none; and one that does not parse.
Theirs == [search |-> "theirs",
           providers |-> ("anthropic" :> [api_key |-> "theirs"]
                          @@ "vllm"   :> [api_base |-> "theirs"]
                          @@ "mistral" :> [api_key |-> "theirs"]),
           channels  |-> [c \in MCChannels |-> [enabled |-> TRUE, token |-> "theirs"]]]
MCValues == {"", "default", "own", "oauth", "theirs"}
MCOpenClawConfigs == {Theirs, NoConfig, TornConfig}
=============================================================================
