---------------------------- MODULE MCControlTables ----------------------------
(* ControlTables with two admins, who are interchangeable, as the ids are that    *)
(* no row is seeded with.                                                        *)
EXTENDS ControlTables, TLC

Symmetry == Permutations(Admins) \union Permutations(Ids \ Seeds)
=============================================================================
