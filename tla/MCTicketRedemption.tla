-------------------------- MODULE MCTicketRedemption --------------------------
(* A small instance of TicketRedemption.  Contexts differ from a full one by   *)
(* another address, another path and no account, or by no address and account. *)
EXTENDS TicketRedemption, FiniteSets, TLC

CONSTANTS scene, address, account, path, x, y

Full == [f \in {scene, address, account, path} |-> x]

MCContexts == {Full, [Full EXCEPT ![address] = y, ![account] = None, ![path] = y],
               [Full EXCEPT ![address] = None, ![account] = None]}

Symmetry == Permutations(Requests)

\* Of three requests one may fail; what follows when two have is not looked at.
OneTrouble == Cardinality({r \in Requests : answer[r] \in {"error", "lost"}}) <= 1
=============================================================================
