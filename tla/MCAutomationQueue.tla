------------------------- MODULE MCAutomationQueue -------------------------
EXTENDS AutomationQueue, TLC

\* Nothing tells two processes, or two activation slots, apart.
Symmetry == Permutations(Procs) \cup Permutations(Runs)
=============================================================================
