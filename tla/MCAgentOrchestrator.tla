------------------------ MODULE MCAgentOrchestrator ------------------------
EXTENDS AgentOrchestrator, TLC

CONSTANTS a1

\* Every task on one agent.
OneAgent == [t \in Tasks |-> a1]

\* Nothing tells two processes, or two activation slots, apart.
Symmetry == Permutations(Procs) \cup Permutations(Runs)
=============================================================================
