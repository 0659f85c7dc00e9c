----------------------------- MODULE MCAgentPods -----------------------------
EXTENDS AgentPods
=============================================================================
