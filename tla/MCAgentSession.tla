--------------------------- MODULE MCAgentSession ---------------------------
EXTENDS AgentSession, TLC

SummarizerSymmetry == Permutations(Summarizers)
=============================================================================
