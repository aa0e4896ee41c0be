--------------------------- MODULE MCBackendSwitch ---------------------------
(* Model-checking instances of BackendSwitch: pages and values are         *)
(* interchangeable.                                                        *)
EXTENDS BackendSwitch, TLC

Symm == Permutations(Pages) \cup Permutations(Vals)
=============================================================================
