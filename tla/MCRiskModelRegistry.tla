-------------------------- MODULE MCRiskModelRegistry --------------------------
(* Small instances of RiskModelRegistry: versions, names and admin requests   *)
(* are interchangeable.                                                       *)
EXTENDS RiskModelRegistry, TLC

Symmetry == Permutations(Ids) \cup Permutations(Names) \cup Permutations(Admins)
=============================================================================
