----------------------------- MODULE MCSwapPath -----------------------------
(* Model-checking instances of SwapPath: symmetry sets for safety runs.    *)
EXTENDS SwapPath, TLC

Symm == Permutations(CPUs) \cup Permutations(Threads) \cup Permutations(Pages)
        \cup Permutations(Reqs) \cup Permutations(Vals)
=============================================================================
