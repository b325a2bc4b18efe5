----------------------------- MODULE MCGatewayFlow -----------------------------
(* GatewayFlow with two requests and one ticket: a trusted proxy, a client     *)
(* behind it and one that is blocked, scenes by header, by path and by route.  *)
EXTENDS GatewayFlow, TLC

Plainly == [peer |-> "client", forwarded |-> <<>>, token |-> None, account |-> None, risk |-> None,
            scene |-> "login", path |-> <<"login">>, header |-> None, cookie |-> None, ticket |-> None]

WithTicket == [Plainly EXCEPT !.ticket = "t1", !.scene = None]
FromMallory == [Plainly EXCEPT !.peer = "mallory", !.forwarded = <<<<"client">>>>, !.ticket = "t1"]

MCArrivals ==
  [r \in {"r1", "r2"} |-> IF r = "r1" THEN {Plainly, WithTicket} ELSE {WithTicket, FromMallory}]

MCRaws == {Plainly, WithTicket, FromMallory} \cup
  {[Plainly EXCEPT !.peer = peer, !.forwarded = forwarded, !.token = token, !.account = account,
                   !.risk = risk, !.path = path, !.header = header] :
     peer \in {"proxy", "mallory"}, account \in {None, "a"},
     forwarded \in {<<>>, <<<<"client">>>>, <<<<"mallory">>, <<"client">>>>}, token \in {"right", "wrong"},
     risk \in {None, -1, 7, 101}, path \in {<<>>, <<"login", "x">>},
     header \in {None, "t1"}}

MCDecisions ==
  {[action |-> action, scene |-> "login", session |-> "s", ttl |-> 5, cooldown |-> 5,
    business |-> "kyc", clearance |-> clearance] :
     action \in AllowActions \cup ChallengeActions \cup BlockActions \cup {"observe", "retry"},
     clearance \in {None}}

MCAnswers == {d \in MCDecisions : d.action \in {"observe", "rate_limit", "retry"}}

Route(enabled, pattern, priority, scene, mode) ==
  [enabled |-> enabled, pattern |-> pattern, priority |-> priority, scene |-> scene, mode |-> mode]

MCSnapshots ==
  {[status |-> "active", allowed |-> {}, blocked |-> {"mallory"}, rule |-> None,
    routes |-> <<Route(TRUE, <<"*">>, -1, "other", "observe"),
                 Route(TRUE, <<"login", "*">>, 3, "login", "enforce")>>],
   [status |-> "disabled", allowed |-> {}, blocked |-> {}, rule |-> None, routes |-> <<>>],
   [status |-> "active", allowed |-> {"client"}, blocked |-> {"mallory"}, rule |-> "block",
    routes |-> <<Route(FALSE, <<>>, 5, None, "manual_bypass")>>]}

MCTicketScene == [t \in {"t1"} |-> "login"]

Setup(front, transport, fail, threshold) ==
  [front |-> front, transport |-> transport, fail |-> fail, threshold |-> threshold]
MCSetups ==
  {Setup("gateway", "grpc", "fail_close", 1), Setup("gateway", "http", "fail_open", 2),
   Setup("middleware", "http", "fail_close", 0)}
=============================================================================
