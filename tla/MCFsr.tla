------------------------------- MODULE MCFsr -------------------------------
EXTENDS Fsr, TLC

AgentSymmetry == Permutations(Agents)
============================================================================
