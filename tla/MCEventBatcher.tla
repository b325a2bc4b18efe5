---------------------------- MODULE MCEventBatcher ----------------------------
(* Small instances of EventBatcher: reporters are interchangeable (used in    *)
(* runs without liveness).                                                    *)
EXTENDS EventBatcher, TLC

Symmetry == Permutations(Reporters)
=============================================================================
