----------------------------- MODULE OneShotTicket -----------------------------
(***************************************************************************)
(* What a ticket promises: whoever presents it, however often and however   *)
(* concurrently, at most one request redeems it; that request was of a kind *)
(* the ticket is bound to; and no request is told that the ticket has been  *)
(* consumed while it is still there to be redeemed.                         *)
(*                                                                         *)
(* Nothing here is shared between two steps: a redemption is one step, and  *)
(* there are no stores, connections or crashes.                             *)
(***************************************************************************)
CONSTANTS
  Values,    \* ticket values
  Requests,  \* redemption attempts
  None       \* "nobody yet"

VARIABLES
  admits,    \* per ticket, the requests its binding matches; {} before issue
  lapsed,    \* the tickets whose lifetime is over
  redeemer,  \* per ticket, the request that redeemed it
  verdict    \* per request, what it has been told

Verdicts == {"none", "redeemed", "CONSUMED", "other"}

Init ==
  /\ admits = [v \in Values |-> {}]
  /\ lapsed = {}
  /\ redeemer = [v \in Values |-> None]
  /\ verdict = [r \in Requests |-> "none"]

\* A request is matched with a ticket when it arrives.
Match(v, r) ==
  /\ UNCHANGED <<redeemer, verdict, lapsed>>
  /\ admits' = [admits EXCEPT ![v] = @ \cup {r}]

\* The single step in which a ticket is spent.
Redeem(v, r) ==
  /\ redeemer[v] = None
  /\ redeemer' = [redeemer EXCEPT ![v] = r]
  /\ r \in admits[v]
  /\ UNCHANGED <<verdict, lapsed, admits>>

Lapse(S) ==
  /\ UNCHANGED <<redeemer, verdict>>
  /\ lapsed' = lapsed \cup S
  /\ UNCHANGED admits

\* Only the redeemer of a ticket is told that it redeemed one.
TellRedeemed(v, r) ==
  /\ verdict[r] = "none"
  /\ redeemer[v] = r
  /\ verdict' = [verdict EXCEPT ![r] = "redeemed"]
  /\ UNCHANGED <<redeemer, lapsed, admits>>

\* "CONSUMED" is said of a ticket that can no longer be redeemed.
TellConsumed(v, r) ==
  /\ verdict[r] = "none"
  /\ redeemer[v] # None \/ v \in lapsed
  /\ verdict' = [verdict EXCEPT ![r] = "CONSUMED"]
  /\ UNCHANGED <<redeemer, lapsed, admits>>

\* Any other answer, an error or a lost answer promises nothing.
TellOther(S) ==
  /\ \A r \in S : verdict[r] = "none"
  /\ verdict' = [r \in Requests |-> IF r \in S THEN "other" ELSE verdict[r]]
  /\ UNCHANGED <<redeemer, lapsed, admits>>

Next ==
  \/ \E S \in SUBSET Requests : TellOther(S)
  \/ \E S \in SUBSET Values : Lapse(S)
  \/ \E v \in Values, r \in Requests :
       \/ Match(v, r)
       \/ Redeem(v, r)
       \/ TellRedeemed(v, r)
       \/ TellConsumed(v, r)

vars == <<redeemer, verdict, lapsed, admits>>

Spec == Init /\ [][Next]_vars
=============================================================================
