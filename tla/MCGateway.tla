------------------------------ MODULE MCGateway -----------------------------
EXTENDS Gateway

\* Jobs for one of the chats that users write in, and for the default chat
\* "cli:direct" of a job that was added without one.
Group == [channel |-> "telegram", id |-> "group"]
Cli   == [channel |-> "cli", id |-> "direct"]
GroupAndCli == {Group, Cli}
EveryChat   == Chats
=============================================================================
