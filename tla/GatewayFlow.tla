------------------------------ MODULE GatewayFlow ------------------------------
(***************************************************************************)
(* The way of a request through a front end (Handler in                     *)
(* internal/gateway/gateway.go and integrations/go-middleware/middleware.go)*)
(* and the platform it asks: the decisions from the cached configuration,   *)
(* the redemption of a ticket, the evaluation of the policy, the circuit    *)
(* breakers, and what is done when the platform does not answer.            *)
(*                                                                         *)
(* The snapshot is read anew by every step that decides from it and may be  *)
(* replaced in between.  A call may fail or time out at any time; the       *)
(* platform may have served it, or may still serve it.                      *)
(***************************************************************************)
EXTENDS FrontDoor

CONSTANTS
  Requests, Tickets,
  TicketScene,  \* the scene each ticket was issued for
  Arrivals,     \* the Raws each request may be in this instance
  Answers,      \* the Decisions the policies make in this instance
  Setups,       \* front end, transport, fail policy and breaker threshold (0: no breaker)
  Cooldown,     \* of the breakers, in ticks
  MaxClock,     \* bound: the clock stops here
  MaxUpdates    \* bound: snapshots the gateway receives

ASSUME GatewayAssumption ==
  /\ None \notin Requests \cup Tickets
  /\ DOMAIN Arrivals = Requests
  /\ \A r \in Requests : Arrivals[r] \subseteq Raws /\ Arrivals[r] # {}
  /\ \A r \in Requests : \A raw \in Arrivals[r] : {raw.header, raw.cookie, raw.ticket} \subseteq Tickets \cup {None}
  /\ Answers \subseteq Decisions
  /\ \A d \in Answers : d.clearance = None
  /\ \A s \in Setups : s.threshold \in Nat
  /\ Cooldown \in Nat \ {0}
  /\ MaxClock \in Nat \ {0}
  /\ MaxUpdates \in Nat

VARIABLES
  setup,
  snapshot,    \* the gateway's cached configuration; None: not ready, or not enabled
  breaker,     \* per service: failures counted, time until which it is open
  pc, req,     \* per request: the place in the handler, the policy request
  wire, reply, \* its call to the platform, and what the platform answered
  outcome,     \* what became of it
  reports,     \* the audit events handed to the event client
  jar,         \* the clearance the client keeps in its cookie
  redeemed,    \* platform: by which request a ticket was consumed
  minted,      \* platform: the scene of the clearance minted for a ticket
  application, \* platform: whether the application is active
  secret,      \* platform: whether it has the front end's secret
  updates, clock,
  why,         \* history: what decided a request
  seen,        \* history: the snapshots current while it was in flight
  streak,      \* history: failures of a service since its last success
  opened       \* history: when its breaker was opened last

vars == <<setup, snapshot, breaker, pc, req, wire, reply, outcome, reports, jar, redeemed,
          minted, application, secret, updates, clock, why, seen, streak, opened>>

flow == <<pc, outcome, why, reports>>
platform == <<redeemed, minted, application, secret>>
breakers == <<breaker, streak, opened>>

Services == {"ticket", "policy"}
Service(r) == IF req[r].ticket # None THEN "ticket" ELSE "policy"

NoReply == [kind |-> "none", decision |-> None]
Verdict(kind, decision) == [kind |-> kind, decision |-> decision]

\* A decision without challenge or limits.
Plain(action, scene, clearance) ==
  [action |-> action, scene |-> scene, session |-> None, ttl |-> 0, cooldown |-> 0,
   business |-> None, clearance |-> clearance]

----------------------------------------------------------------------------
(* circuitBreaker                                                           *)

\* Mutant: it closes with the last tick of the cooldown.
AllowedEarly(service) == setup.threshold = 0 \/ clock >= breaker[service].openUntil

Allowed(service) == setup.threshold = 0 \/ clock > breaker[service].openUntil

\* Mutant: a late success does not close the breaker.
RecordSuccessCountOnly(service) ==
  /\ breaker' = [breaker EXCEPT ![service].failures = 0]
  /\ streak' = [streak EXCEPT ![service] = 0]
  /\ UNCHANGED opened

RecordSuccess(service) ==
  /\ breaker' = [breaker EXCEPT ![service] = [failures |-> 0, openUntil |-> 0]]
  /\ streak' = [streak EXCEPT ![service] = 0]
  /\ UNCHANGED opened

\* Mutant: the count is not started again when the breaker opens.
FailedKeeping(b) ==
  IF setup.threshold > 0 /\ b.failures + 1 >= setup.threshold
  THEN [failures |-> b.failures + 1, openUntil |-> clock + Cooldown]
  ELSE [b EXCEPT !.failures = IF setup.threshold > 0 THEN @ + 1 ELSE @]

Failed(b) ==
  IF setup.threshold > 0 /\ b.failures + 1 >= setup.threshold
  THEN [failures |-> 0, openUntil |-> clock + Cooldown]
  ELSE [b EXCEPT !.failures = IF setup.threshold > 0 THEN @ + 1 ELSE @]

RecordFailure(service) ==
  /\ breaker' = [breaker EXCEPT ![service] = Failed(@)]
  /\ streak' = [streak EXCEPT ![service] = IF setup.threshold > 0 THEN @ + 1 ELSE @]
  /\ opened' = [opened EXCEPT ![service] =
       IF setup.threshold > 0 /\ breaker[service].failures + 1 >= setup.threshold THEN clock ELSE @]

----------------------------------------------------------------------------
(* Decisions from the cached configuration.                                 *)

\* localHardDecision: the application's status, then the address.
HardVerdict(s, q) ==
  CASE s = None                                       -> "ask"
    [] s # None /\ s.status # "active"                -> "block"
    [] s # None /\ s.status = "active"                ->
         IF q.ip \in s.allowed THEN "allow" ELSE IF q.ip \in s.blocked THEN "block" ELSE "ask"

\* localDecision: the same, the rule that matches, the route.
LocalVerdict(s, q) ==
  LET route == CachedRoute(s.routes, q)
  IN  CASE s = None -> "ask"
        [] s # None /\ HardVerdict(s, q) # "ask" -> HardVerdict(s, q)
        [] s # None /\ HardVerdict(s, q) = "ask" ->
             IF s.rule # None THEN s.rule
             ELSE IF route = None \/ route.mode = "manual_bypass" THEN "allow"
             ELSE IF route.mode \in {"silent", "observe"} THEN "observe" ELSE "ask"

\* ticketScene: the scene of the cached route, if it has one.
SceneForTicket(s, q) ==
  LET route == CachedRoute(s.routes, q)
  IN  IF s = None THEN q.scene
      ELSE IF route = None THEN q.scene
      ELSE IF route.scene = None THEN q.scene ELSE route.scene

----------------------------------------------------------------------------
(* The handler.                                                             *)

Goto(r, place) ==
  /\ pc' = [pc EXCEPT ![r] = place]
  /\ UNCHANGED <<outcome, why, reports>>

Finish(r, what, because, events) ==
  /\ pc' = [pc EXCEPT ![r] = "done"]
  /\ outcome' = [outcome EXCEPT ![r] = what]
  /\ why' = [why EXCEPT ![r] = because]
  /\ reports' = [reports EXCEPT ![r] = @ \o events]

Event(action, reason, scene) == <<[action |-> action, reason |-> reason, scene |-> scene]>>

(* A request arrives with the client's clearance cookie.                     *)
Arrive(r, raw) ==
  /\ pc[r] = "new"
  /\ req' = [req EXCEPT ![r] = EvaluateRequest(setup.front, [raw EXCEPT !.cookie = jar])]
  /\ seen' = [seen EXCEPT ![r] = {snapshot}]
  /\ Goto(r, IF setup.front = "gateway" THEN "hard" ELSE "ask")
  /\ UNCHANGED <<setup, snapshot, breakers, wire, reply, jar, platform, updates, clock>>

\* GET /healthz at the gateway, and what ShouldProtect exempts.
Exempt(r) ==
  /\ pc[r] = "new"
  /\ Finish(r, IF setup.front = "gateway" THEN "health" ELSE "forwarded", "exempt", <<>>)
  /\ UNCHANGED <<setup, snapshot, breakers, req, wire, reply, jar, platform, updates, clock, seen>>

\* Mutant: requests with a ticket are not looked at.
HardFirstWithoutTicket(r) ==
  IF req[r].ticket # None THEN "ask" ELSE HardVerdict(snapshot, req[r])

HardFirst(r) == HardVerdict(snapshot, req[r])

Conclude(r, action) ==
  Finish(r, Effect(action), "local", Event(action, "local", req[r].scene))

DecideHard(r) ==
  /\ pc[r] = "hard"
  /\ IF HardFirst(r) # "ask" THEN Conclude(r, HardFirst(r))
     ELSE Goto(r, IF req[r].ticket # None THEN "scene" ELSE "local")
  /\ UNCHANGED <<setup, snapshot, breakers, req, wire, reply, jar, platform, updates, clock, seen>>

ChooseScene(r) ==
  /\ pc[r] = "scene"
  /\ req' = [req EXCEPT ![r].scene = SceneForTicket(snapshot, req[r])]
  /\ Goto(r, "ask")
  /\ UNCHANGED <<setup, snapshot, breakers, wire, reply, jar, platform, updates, clock, seen>>

DecideLocally(r) ==
  /\ pc[r] = "local"
  /\ LET verdict == LocalVerdict(snapshot, req[r])
     IN  IF verdict # "ask" THEN Conclude(r, verdict) ELSE Goto(r, "ask")
  /\ UNCHANGED <<setup, snapshot, breakers, req, wire, reply, jar, platform, updates, clock, seen>>

\* handleTicketError, handlePolicyError, handleUnavailable
GiveUp(r) ==
  IF setup.fail = "fail_close"
  THEN Finish(r, "unavailable", "outage", Event("block", "outage", req[r].scene))
  ELSE Finish(r, "forwarded", "outage", Event("allow", "outage", req[r].scene))

Call(r) ==
  /\ pc[r] = "ask"
  /\ Allowed(Service(r))
  /\ wire' = [wire EXCEPT ![r] = "sent"]
  /\ Goto(r, "waiting")
  /\ UNCHANGED <<setup, snapshot, breakers, req, reply, jar, platform, updates, clock, seen>>

SkipCall(r) ==
  /\ pc[r] = "ask"
  /\ ~Allowed(Service(r))
  /\ GiveUp(r)
  /\ UNCHANGED <<setup, snapshot, breakers, req, wire, reply, jar, platform, updates, clock, seen>>

\* Mutant: no timeout ends the call.
CallFailsAnswered(r) ==
  /\ pc[r] = "waiting"
  /\ wire[r] = "served" /\ reply[r].kind = "error"
  /\ RecordFailure(Service(r))
  /\ GiveUp(r)
  /\ UNCHANGED <<setup, snapshot, req, wire, reply, jar, platform, updates, clock, seen>>

\* The connection breaks, the platform answers with an error, or RequestTimeout is over.
CallFails(r) ==
  /\ pc[r] = "waiting"
  /\ RecordFailure(Service(r))
  /\ GiveUp(r)
  /\ UNCHANGED <<setup, snapshot, req, wire, reply, jar, platform, updates, clock, seen>>

\* Mutant: whatever is answered counts as redeemed.
ConcludeTicketUnread(r, answer) ==
  Finish(r, "forwarded", "consumed", Event("allow", "consumed", answer.decision.scene))

\* Mutant: a redeemed ticket must have brought a clearance.
ConcludeTicketForClearance(r, answer) ==
  IF answer.kind = "valid" /\ answer.decision.clearance # None
  THEN Finish(r, "forwarded", "consumed", Event("allow", "consumed", answer.decision.scene))
  ELSE Finish(r, "refused", "invalid", Event("block", "invalid", req[r].scene))

\* A redeemed ticket lets the request pass, any other answer does not.
ConcludeTicket(r, answer) ==
  IF answer.kind = "valid"
  THEN Finish(r, "forwarded", "consumed", Event("allow", "consumed", answer.decision.scene))
  ELSE Finish(r, "refused", "invalid", Event("block", "invalid", req[r].scene))

\* Mutant: the decision the platform has recorded is reported again.
ConcludePolicyTwice(r, answer) ==
  Finish(r, Effect(answer.decision.action), "decision",
         Event(answer.decision.action, "decision", req[r].scene))

\* handleDecision; the platform has recorded the decision.
ConcludePolicy(r, answer) == Finish(r, Effect(answer.decision.action), "decision", <<>>)

\* writeClearance, on what is forwarded.
Cookie(r, answer) ==
  IF outcome'[r] = "forwarded" /\ answer.decision.clearance # None
  THEN answer.decision.clearance ELSE jar

CallReturns(r) ==
  /\ pc[r] = "waiting"
  /\ wire[r] = "served"
  /\ reply[r].kind # "error"
  /\ RecordSuccess(Service(r))
  /\ LET answer == [reply[r] EXCEPT !.decision = Answered(setup.transport, @)]
     IN  /\ IF Service(r) = "ticket" THEN ConcludeTicket(r, answer) ELSE ConcludePolicy(r, answer)
         /\ jar' = Cookie(r, answer)
  /\ UNCHANGED <<setup, snapshot, req, wire, reply, platform, updates, clock, seen>>

----------------------------------------------------------------------------
(* The platform.                                                            *)

Serve(r, answer) ==
  /\ wire' = [wire EXCEPT ![r] = "served"]
  /\ reply' = [reply EXCEPT ![r] = answer]

Blocked(q) == Plain("block", q.scene, None)

\* applicationPolicyDecision, applicationTicketRejection, then requireClientSecret.
TurnedAway(r, q) ==
  /\ wire[r] = "sent"
  /\ ~application \/ ~secret
  /\ Serve(r, IF ~application THEN Verdict("answer", Blocked(q)) ELSE Verdict("error", Blocked(q)))
  /\ UNCHANGED platform

(* handleVerifyTicket, ConsumeTicket: the ticket is consumed if it is fresh    *)
(* and of the scene, and a clearance minted for the scene.                    *)
ServeTicket(r, q) ==
  /\ wire[r] = "sent"
  /\ q.ticket # None
  /\ application /\ secret
  /\ IF redeemed[q.ticket] = None /\ TicketScene[q.ticket] = q.scene
     THEN /\ redeemed' = [redeemed EXCEPT ![q.ticket] = r]
          /\ \E token \in {None, q.ticket} :
               /\ minted' = [minted EXCEPT ![q.ticket] = IF token = None THEN @ ELSE q.scene]
               /\ Serve(r, Verdict("valid", Plain("allow", q.scene, token)))
     ELSE Serve(r, Verdict("answer", Blocked(q))) /\ UNCHANGED <<redeemed, minted>>
  /\ UNCHANGED <<application, secret>>

(* handleEvaluatePolicy: a clearance of the scene, or what the policies say.   *)
ServePolicy(r, q) ==
  /\ wire[r] = "sent"
  /\ q.ticket = None
  /\ application /\ secret
  /\ \/ \E d \in Answers : Serve(r, Verdict("answer", d))
     \/ /\ q.clearance # None
        /\ minted[q.clearance] = q.scene
        /\ Serve(r, Verdict("answer", Plain("allow", q.scene, q.clearance)))
  /\ UNCHANGED platform

Platform(r) ==
  /\ LET q == Arrived(setup.transport, req[r])
     IN  TurnedAway(r, q) \/ ServeTicket(r, q) \/ ServePolicy(r, q)
  /\ UNCHANGED <<setup, snapshot, breakers, flow, req, jar, updates, clock, seen>>

\* The admin API disables the application, or gives it another secret.
Administer ==
  /\ \/ application /\ application' = FALSE /\ UNCHANGED secret
     \/ secret /\ secret' = FALSE /\ UNCHANGED application
  /\ UNCHANGED <<setup, snapshot, breakers, flow, req, wire, reply, jar, redeemed, minted,
                 updates, clock, seen>>

\* ConfigCache.Update: whatever the admin API has written, over gRPC.
Update(s) ==
  /\ setup.front = "gateway"
  /\ updates < MaxUpdates
  /\ snapshot' = SnapshotProto(s)
  /\ updates' = updates + 1
  /\ seen' = [r \in Requests |-> IF pc[r] \in {"new", "done"} THEN seen[r] ELSE seen[r] \cup {snapshot'}]
  /\ UNCHANGED <<setup, breakers, flow, req, wire, reply, jar, platform, clock>>

Tick ==
  /\ clock < MaxClock
  /\ clock' = clock + 1
  /\ UNCHANGED <<setup, snapshot, breakers, flow, req, wire, reply, jar, platform, updates, seen>>

----------------------------------------------------------------------------
Init ==
  /\ setup \in Setups
  /\ snapshot = None
  /\ breaker = [s \in Services |-> [failures |-> 0, openUntil |-> 0]]
  /\ pc = [r \in Requests |-> "new"]
  /\ req = [r \in Requests |-> EvaluateRequest(setup.front, CHOOSE raw \in Arrivals[r] : TRUE)]
  /\ wire = [r \in Requests |-> "none"]
  /\ reply = [r \in Requests |-> NoReply]
  /\ outcome = [r \in Requests |-> "none"]
  /\ reports = [r \in Requests |-> <<>>]
  /\ jar = None
  /\ redeemed = [t \in Tickets |-> None]
  /\ minted = [t \in Tickets |-> None]
  /\ application = TRUE
  /\ secret = TRUE
  /\ updates = 0
  /\ clock = 1
  /\ why = [r \in Requests |-> "none"]
  /\ seen = [r \in Requests |-> {}]
  /\ streak = [s \in Services |-> 0]
  /\ opened = [s \in Services |-> 0]

Handle(r) ==
  \/ DecideHard(r)
  \/ ChooseScene(r)
  \/ DecideLocally(r)
  \/ Call(r)
  \/ SkipCall(r)
  \/ CallFails(r)
  \/ CallReturns(r)

Next ==
  \/ \E r \in Requests :
       \/ \E raw \in Arrivals[r] : Arrive(r, raw)
       \/ Exempt(r)
       \/ Handle(r)
       \/ Platform(r)
  \/ Administer
  \/ \E s \in Snapshots : Update(s)
  \/ Tick

(* A goroutine that can run does, and a call ends with its context: the       *)
(* request's timeout makes CallFails possible for as long as it waits.         *)
Spec == Init /\ [][Next]_vars /\ \A r \in Requests : WF_vars(Handle(r))

----------------------------------------------------------------------------
TypeOK ==
  /\ setup \in Setups
  /\ snapshot \in {None} \cup {SnapshotProto(s) : s \in Snapshots}
  /\ breaker \in [Services -> [failures : Nat, openUntil : 0..(MaxClock + Cooldown)]]
  /\ pc \in [Requests -> {"new", "hard", "scene", "local", "ask", "waiting", "done"}]
  /\ wire \in [Requests -> {"none", "sent", "served"}]
  /\ outcome \in [Requests -> {"none", "health", "forwarded", "challenged", "refused", "unavailable"}]
  /\ jar \in {None} \cup Tickets
  /\ redeemed \in [Tickets -> Requests \cup {None}]
  /\ application \in BOOLEAN /\ secret \in BOOLEAN
  /\ \A s \in Services : setup.threshold > 0 => breaker[s].failures < setup.threshold

Done(r) == pc[r] = "done" /\ why[r] # "exempt"
Passed(r) == outcome[r] = "forwarded"

(* What every configuration blocks that the gateway had while a request was    *)
(* in its hands is refused, with or without a ticket, whether or not the       *)
(* platform can be reached, and even when failures let requests pass.         *)
RefusedWhatConfigBlocks ==
  \A r \in Requests :
    Done(r) /\ setup.front = "gateway" /\ (\A s \in seen[r] : HardVerdict(s, req[r]) = "block")
      => outcome[r] = "refused"

\* What may let a protected request pass: a configuration of its time, its own
\* ticket, the platform's decision, and under fail_open a failure.
LetByConfig(r) ==
  \E s \in seen[r] :
    \/ HardVerdict(s, req[r]) = "allow"
    \/ req[r].ticket = None /\ Effect(LocalVerdict(s, req[r])) = "forwarded"

LetByTicket(r) ==
  /\ req[r].ticket # None
  /\ redeemed[req[r].ticket] = r
  /\ TicketScene[req[r].ticket] = req[r].scene

LetByDecision(r) ==
  /\ req[r].ticket = None
  /\ wire[r] = "served"
  /\ Effect(reply[r].decision.action) = "forwarded"

LetByFailure(r) == setup.fail # "fail_close" /\ why[r] = "outage"

(* A protected request reaches the application only because a configuration    *)
(* of its time, its own ticket (redeemed by no other request, and of its       *)
(* scene) or the platform's decision let it; failures do so only under         *)
(* fail_open.                                                                 *)
ForwardedForAReason ==
  \A r \in Requests : Done(r) /\ Passed(r) =>
    LetByConfig(r) \/ LetByTicket(r) \/ LetByDecision(r) \/ LetByFailure(r)

(* A request that has redeemed its ticket may be lost to a failure, but is      *)
(* never refused for an invalid ticket.                                       *)
RedeemedIsNotRefused ==
  \A t \in Tickets : redeemed[t] # None => outcome[redeemed[t]] # "refused"

\* Its reports have one event, which says whether it passed.
ToldOnce(r) ==
  /\ Len(reports[r]) = 1
  /\ (reports[r][1].action \in AllowActions \cup {"observe"}) <=> Passed(r)

(* The audit trail has each decision once: what the front end decided itself    *)
(* it reports once, as allowed if and only if it let the request pass; what    *)
(* the platform decided, and has recorded, it does not report.                *)
ReportsTell ==
  \A r \in Requests : Done(r) =>
    IF req[r].ticket = None /\ why[r] = "decision" THEN reports[r] = <<>> ELSE ToldOnce(r)

(* What becomes of a request: the configuration's refusals stand, whoever is    *)
(* let through is so for a reason, a redeemed ticket is not called invalid,    *)
(* and the audit trail tells it once (Handler, handleTicketError, reportDecision). *)
RequestsJudged ==
  RefusedWhatConfigBlocks /\ ForwardedForAReason /\ RedeemedIsNotRefused /\ ReportsTell

(* A breaker counts the failures since the last success, modulo the threshold, *)
(* and is open for the cooldown after the last multiple of it; so after a      *)
(* cooldown that many calls must fail again, and a success that comes late     *)
(* closes it.                                                                 *)
BreakerCounts ==
  setup.threshold > 0 => \A s \in Services :
    /\ breaker[s].failures = streak[s] % setup.threshold
    /\ breaker[s].openUntil = IF streak[s] < setup.threshold THEN 0 ELSE opened[s] + Cooldown

(* No call starts while a service is held for dead: from a threshold of         *)
(* failures in a row until the cooldown is over, unless a call succeeds.       *)
OpenMeansQuiet ==
  [][\A r \in Requests : pc[r] = "ask" /\ pc'[r] = "waiting" /\ setup.threshold > 0 =>
       \/ streak[Service(r)] < setup.threshold
       \/ clock > opened[Service(r)] + Cooldown]_vars

(* The breaker spares a service that fails and no other: what it counts, and    *)
(* when it lets calls start (Allow, RecordSuccess, RecordFailure).             *)
BreakerHolds == []BreakerCounts /\ OpenMeansQuiet

(* Every request gets an answer, from the configuration, from the platform or  *)
(* because a call failed, timed out or was not made.                           *)
EveryRequestAnswered == \A r \in Requests : pc[r] # "new" ~> pc[r] = "done"

----------------------------------------------------------------------------
(* The properties of FrontDoor depend on no state; they are evaluated where     *)
(* nothing has happened yet.                                                  *)
Untouched == clock = 1 /\ updates = 0 /\ application /\ secret /\ \A r \in Requests : pc[r] = "new"

(* AddressIsTheClients of FrontDoor: nettrust.ClientIP and firstForwardedIP.   *)
ClientAddress == Untouched => AddressIsTheClients

(* UntrustedClaimsInert of FrontDoor: sanitizeContextHeaders.                  *)
ClaimsInert == Untouched => UntrustedClaimsInert

(* QuestionKept of FrontDoor: PolicyEvaluateRequestToProto and the JSON body.  *)
SameQuestion == Untouched => QuestionKept

(* EffectKept of FrontDoor: PolicyDecisionToProto and handleDecision.          *)
SameEffect == Untouched => EffectKept

(* RouteKept of FrontDoor: ConfigSnapshotToProto and matchCachedRoute.         *)
SameRoute == Untouched => RouteKept

(* Whom a front end believes: the address of a request is its client's behind  *)
(* proxies that join the forwarding lines, and headers that claim an account   *)
(* or a risk count only of a trusted proxy, and only with the right token.     *)
TrustedHopsOnly == ClientAddress /\ ClaimsInert

(* Over gRPC and over HTTP a front end asks the same question, carries out the  *)
(* same decision and caches the same routes (grpccontract).                    *)
ContractKept == SameQuestion /\ SameEffect /\ SameRoute
=============================================================================
