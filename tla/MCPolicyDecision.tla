--------------------------- MODULE MCPolicyDecision ---------------------------
(* A small instance of PolicyDecision.  Every kind of address policy, rule and *)
(* route the decisions tell apart occurs, alone and with each other one, on    *)
(* two paths, at two priorities, in and out of a rollout.                      *)
EXTENDS PolicyDecision, FiniteSets

Paths == {"p", "q"}
Everyone == {"account", "device", "a1", "a2"}

IP(born, type, action) ==
  [enabled |-> TRUE, born |-> born, type |-> type, covers |-> {"a1"}, action |-> action]

IPs == {IP(1, "blocklist", "block"), IP(2, "allowlist", "allow"), IP(3, "other", "challenge"),
        IP(4, "other", "block"), [IP(5, "allowlist", "allow") EXCEPT !.enabled = FALSE]}

Kinds == {"none", "valid", "invalid"}

Rule(born, priority, paths, audience, minModel, counts, action) ==
  [enabled |-> TRUE, born |-> born, priority |-> priority, paths |-> paths, audience |-> audience,
   minModel |-> minModel, tickets |-> Kinds, clearances |-> Kinds, counts |-> counts, action |-> action]

Rules ==
  {Rule(1, 1, Paths, Everyone, 0, {}, "block"),
   Rule(2, 1, {"p"}, Everyone, 0, {}, "challenge"),
   Rule(3, 2, {"p"}, {"account", "a1"}, 0, {}, "skip_challenge"),
   Rule(4, 1, {"p"}, Everyone, 50, {}, "block"),
   Rule(5, 2, {"p"}, Everyone, 0, {"account"}, "cooldown"),
   [Rule(6, 3, {"p"}, Everyone, 0, {}, "block") EXCEPT !.tickets = {"none"}, !.clearances = {"valid", "invalid"}]}

Route(born, priority, audience, mode, scene) ==
  [enabled |-> TRUE, born |-> born, priority |-> priority, paths |-> {"p"}, audience |-> audience,
   mode |-> mode, padded |-> FALSE, scene |-> scene, limited |-> FALSE, observe |-> 0, challenge |-> 0, block |-> 0]

Routes ==
  {Route(1, 1, Everyone, "always", "s"),
   Route(2, 2, {"account", "a1"}, "force_challenge", "t"),
   Route(3, 1, Everyone, "manual_bypass", ""),
   Route(4, 2, {"device"}, "observe", "s"),
   [Route(5, 1, Everyone, "rate_limit", "s") EXCEPT !.limited = TRUE],
   [Route(7, 2, Everyone, "rate_limit", "s") EXCEPT !.limited = TRUE, !.padded = TRUE],
   [Route(6, 1, Everyone, "risk_based", "") EXCEPT !.observe = 15, !.challenge = 55, !.block = 80]}

UpTo(n, S) == {T \in SUBSET S : Cardinality(T) <= n}

SmallConfigs ==
  {c \in [active : BOOLEAN, ips : UpTo(2, IPs), rules : UpTo(2, Rules), routes : UpTo(2, Routes)] :
     /\ ~c.active => c.routes = {} /\ Cardinality(c.rules) <= 1
     /\ c.ips # {} => Cardinality(c.rules) + Cardinality(c.routes) <= 1
     /\ Cardinality(c.rules) + Cardinality(c.routes) <= 3}

Request(path, address, identity, ticket, clearance, risk, model, mode) ==
  [path |-> path, address |-> address, identity |-> identity, scene |-> "own", ticket |-> ticket,
   clearance |-> clearance, risk |-> risk, level |-> -1, model |-> model, mode |-> mode]

SomeRequests ==
  {Request("p", address, identity, "none", clearance, 0, 0, "") :
     address \in {"a1", "a2"}, identity \in {{}, {"account"}}, clearance \in {"none", "valid", "invalid"}}
  \cup {Request("p", address, {"device"}, ticket, "none", 0, 0, "") :
          address \in {"a1", "a2"}, ticket \in {"none", "valid", "invalid"}}
  \cup {Request("q", "a2", {}, "none", "none", 0, 0, ""),
        Request("p", "a2", {}, "none", "none", 120, 0, ""),
        Request("p", "a2", {}, "none", "none", 20, 60, "shadow"),
        Request("p", "a2", {}, "none", "none", 20, 60, "enforce")}

\* An answer changes nothing: what follows it follows the state before it too.
Unanswered == answer = Nothing

SomeInferences == {[score |-> 60, mode |-> "observe", level |-> -1],
                   [score |-> 0, mode |-> "shadow", level |-> 80]}
===============================================================================
