--------------------------- MODULE MCAgentRunner ----------------------------
\* Three points, a queue of two sent one by one: the third one evicts.
EXTENDS AgentRunner
=============================================================================
