-------------------------- MODULE MCAgentTerminals --------------------------
EXTENDS AgentTerminals, TLC
CONSTANTS a1, a2, t1, t2
MCId == {a1, a2}
MCTerminal == {t1, t2}
MCSymmetry == Permutations(MCId) \cup Permutations(MCTerminal)
=============================================================================
