------------------------------ MODULE MCRateLimit ------------------------------
(* RateLimit with two requests at a time; they are interchangeable.            *)
EXTENDS RateLimit, TLC

Symmetry == Permutations(Servers)

\* The last of MaxHits requests is for runs without trouble: after a command that failed it does not
\* come, after a change of strategy it comes alone.
FewerInTrouble ==
  Len(log) + Cardinality(Busy) = MaxHits => faults = 0 /\ (switches = 0 \/ Cardinality(Busy) <= 1)
=============================================================================
