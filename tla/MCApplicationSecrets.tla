-------------------------- MODULE MCApplicationSecrets --------------------------
(* ApplicationSecrets with two admins, who are interchangeable.                  *)
EXTENDS ApplicationSecrets, TLC

Symmetry == Permutations(Admins)
=============================================================================
