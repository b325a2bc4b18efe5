-------------------------- MODULE MCChallengeSession --------------------------
(* Small instances of ChallengeSession: the handlers are interchangeable, so    *)
(* are the ticket values.                                                     *)
EXTENDS ChallengeSession, TLC

Symmetry == Permutations(Handlers) \cup Permutations(TicketValues)
=============================================================================
