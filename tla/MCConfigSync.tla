----------------------------- MODULE MCConfigSync -----------------------------
(* Small instances of ConfigSync: gateways and admin handlers are             *)
(* interchangeable.                           *)
EXTENDS ConfigSync, TLC

Symmetry == Permutations(Gateways) \cup Permutations(Admins)
=============================================================================
