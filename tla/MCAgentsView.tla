---------------------------- MODULE MCAgentsView ----------------------------
EXTENDS AgentsView
CONSTANTS a1, a2
MCSessionId == {a1, a2}
=============================================================================
