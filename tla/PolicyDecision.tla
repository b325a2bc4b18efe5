---------------------------- MODULE PolicyDecision ----------------------------
(***************************************************************************)
(* What happens to a request: the gateway's decision from its cached        *)
(* configuration (internal/gateway/gateway.go), the platform's policy       *)
(* evaluation for the requests the gateway leaves to it, and the dry run    *)
(* of the admin API (internal/policy, internal/api/server.go and, with the  *)
(* same order of steps, internal/grpcserver/server.go).                     *)
(*                                                                         *)
(* A configuration holds the application's status, IP policies, rules and   *)
(* routes.  A policy's pattern, scope, conditions and rollout hash become   *)
(* the sets of what they match; of the conditions the one on model_score    *)
(* is kept, which the platform's inference may change, and those on ticket  *)
(* and clearance.  Postgres lists by created_at, the memory store in the    *)
(* order of a Go map.  Whether a counter is over its limit, a ticket valid, *)
(* a clearance honoured is up to the stores: a choice here.  A route's mode *)
(* is written in any case, and padded when spaces surround it.              *)
(***************************************************************************)
EXTENDS Integers

CONSTANTS
  Configs,    \* configurations the admin API may leave in the store
  Requests,   \* requests the gateway may receive
  Inferences, \* what the inference service may answer: a score and a mode
  Backends,   \* the control stores the platform may be configured with
  Nothing,    \* no snapshot, no route, no session, no answer
  MaxEdits    \* bound: changes of the configuration

VARIABLES
  backend,  \* the control store in use
  config,   \* the platform's configuration
  snapshot, \* the gateway's cached configuration
  answer,   \* history: the last answer since config and snapshot changed
  edits

vars == <<backend, config, snapshot, answer, edits>>

----------------------------------------------------------------------------
(* Kinds of decisions, and what the gateway makes of one.                   *)

AllowLike == {"allow", "pass", "observe", "skip_challenge"}
ChallengeLike == {"challenge", "challenge_harder", "step_up_challenge", "rate_limit"}
BlockLike == {"block", "cooldown", "require_business_verify"}

\* handleDecision: anything it does not know is refused.
Effect(action) ==
  CASE action \in AllowLike     -> "forwarded"
    [] action \in ChallengeLike -> "challenged"
    [] OTHER                    -> "refused"

----------------------------------------------------------------------------
(* Matching.  Each operator is the set of policies the code may pick.       *)

\* The dimensions a request has a value for; there always is an address.
Dimensions(req) == {"ip"} \cup req.identity

\* What the rollout hash is taken of: the account, else the device, else the address.
RolloutKey(req) ==
  IF "account" \in req.identity THEN "account"
  ELSE IF "device" \in req.identity THEN "device" ELSE req.address

\* The first of a list by created_at, or any policy where a map is listed.
FirstListed(S) == {x \in S : backend = "memory" \/ \A y \in S : x.born <= y.born}

Foremost(S) == {x \in S : \A y \in S : y.priority <= x.priority}

\* allowlist, then blocklist, then any other type.
Rank == [allowlist |-> 2, blocklist |-> 1, other |-> 0]

MatchedIP(cfg, req) ==
  LET hits == {p \in cfg.ips : p.enabled /\ req.address \in p.covers}
  IN  FirstListed({p \in hits : \A q \in hits : Rank[q.type] <= Rank[p.type]})

RuleMatches(r, req) ==
  /\ r.enabled
  /\ req.path \in r.paths
  /\ RolloutKey(req) \in r.audience
  /\ r.minModel > 0 => req.model >= r.minModel
  /\ req.ticket \in r.tickets /\ req.clearance \in r.clearances

\* Both stores list rules by priority and then by created_at.
MatchedRule(cfg, req) ==
  LET best == Foremost({r \in cfg.rules : RuleMatches(r, req)})
  IN  {r \in best : \A s \in best : r.born <= s.born}

MatchedRoute(cfg, req, applyRollout) ==
  FirstListed(Foremost({t \in cfg.routes :
    t.enabled /\ req.path \in t.paths /\ (applyRollout => RolloutKey(req) \in t.audience)}))

----------------------------------------------------------------------------
(* The evaluator.  An evaluation is an action, where it comes from, the     *)
(* route it was made on, and whether no counter has a say in it.            *)

Clamped(score) == IF score > 100 THEN 100 ELSE score

\* effectiveRiskScore: the largest signal, -1 when there is none.
EffectiveScore(req) ==
  LET signals == {-1, req.level} \cup {Clamped(s) : s \in {req.risk} \ {0}}
                 \cup {Clamped(s) : s \in {m \in {req.model} : req.mode \in {"observe", "enforce"}}}
  IN  CHOOSE s \in signals : \A u \in signals : u <= s

RiskBasedAction(req, t) ==
  LET score == EffectiveScore(req)
      Reaches(threshold) == threshold > 0 /\ score >= threshold
  IN  IF score < 0 \/ {t.observe, t.challenge, t.block} = {0}
      THEN IF req.identity # {} THEN "allow" ELSE "challenge"
      ELSE IF Reaches(t.block) THEN "block"
      ELSE IF Reaches(t.challenge) THEN "challenge"
      ELSE IF Reaches(t.observe) THEN "observe" ELSE "allow"

Forces(t) == t.mode \in {"force_challenge", "always_challenge"}

\* The counters may be under the limit or over it; a dry run does not ask them.
RateLimitActions(t, dryRun) ==
  IF ~t.limited THEN {"allow"} ELSE IF dryRun THEN {"observe"} ELSE {"allow", "challenge"}

RouteActions(req, t, dryRun) ==
  CASE Forces(t) \/ t.mode = "always"    -> {"challenge"}
    [] t.mode = "rate_limit"             -> RateLimitActions(t, dryRun)
    [] t.mode = "risk_based"             -> {RiskBasedAction(req, t)}
    [] t.mode \in {"silent", "observe"}  -> {"observe"}
    [] OTHER                             -> {"allow"}

\* An aggregated rule lets pass what it has no value to count of; else its counters decide.
RuleActions(req, r, dryRun) ==
  IF r.counts = {} THEN {r.action}
  ELSE IF r.counts \cap Dimensions(req) = {} THEN {"allow"}
  ELSE IF dryRun THEN {"observe"} ELSE {"allow", r.action}

Evaluation(action, reason, route, exact) ==
  [action |-> action, reason |-> reason, route |-> route, exact |-> exact]

IPEvaluations(cfg, req) ==
  {Evaluation(p.action, "ip", Nothing, TRUE) : p \in MatchedIP(cfg, req)}

RuleEvaluations(req, r, dryRun) ==
  {Evaluation(a, "rule", Nothing, r.counts = {}) : a \in RuleActions(req, r, dryRun)}

\* The dry run says of the counters it left out, but does not trim the mode as the evaluator does.
SaysUncounted(t) == t.mode = "rate_limit" /\ ~t.padded

RouteEvaluations(req, t, dryRun) ==
  {Evaluation(a, "route", t, ~SaysUncounted(t)) : a \in RouteActions(req, t, dryRun)}

\* The first of these that has an answer: address, rule, route, none.
Evaluated(cfg, req, dryRun) ==
  LET rules  == MatchedRule(cfg, req)
      routes == MatchedRoute(cfg, req, TRUE)
  IN  IF MatchedIP(cfg, req) # {} THEN IPEvaluations(cfg, req)
      ELSE IF rules # {} THEN UNION {RuleEvaluations(req, r, dryRun) : r \in rules}
      ELSE IF routes # {} THEN UNION {RouteEvaluations(req, t, dryRun) : t \in routes}
      ELSE {Evaluation("allow", "no_route", Nothing, TRUE)}

----------------------------------------------------------------------------
(* The platform's handler.                                                  *)

\* The session is represented by the scene it is created for.
Decision(action, reason, session) == [action |-> action, reason |-> reason, session |-> session]

SceneOn(req, t) == IF t = Nothing THEN req.scene ELSE IF t.scene = "" THEN req.scene ELSE t.scene

\* Mutant: a session for every decision.
WithSessionAlways(req, e) == Decision(e.action, e.reason, SceneOn(req, e.route))

\* policyDecisionWithChallengeSession
WithSession(req, e) ==
  Decision(e.action, e.reason, IF e.action \in ChallengeLike THEN SceneOn(req, e.route) ELSE Nothing)

\* EnrichPolicyRequest asks only about a request without model score and mode, and may fail.
Enriched(req) ==
  {req} \cup {[req EXCEPT !.model = Clamped(i.score), !.mode = i.mode,
                          !.level = IF @ = -1 THEN i.level ELSE @] :
                i \in {j \in Inferences : req.model = 0 /\ req.mode = ""}}

\* The routes on which a clearance does not count.
Forcing(cfg, req) ==
  {t \in MatchedRoute(cfg, req, TRUE) : Forces(t) /\ req.clearance # "none"}

ForcedDecisions(cfg, req) ==
  {WithSession(req, e) : e \in UNION {RouteEvaluations(req, t, FALSE) : t \in Forcing(cfg, req)}}

\* Mutant: any clearance presented is honoured.
OrdinaryDecisionsUnverified(cfg, req) ==
  IF req.clearance # "none" THEN {Decision("allow", "clearance", Nothing)}
  ELSE {WithSession(req, e) : e \in UNION {Evaluated(cfg, r, FALSE) : r \in Enriched(req)}}

\* After the override: the clearance, if the store honours it, or the evaluation.
OrdinaryDecisions(cfg, req) ==
  IF req.clearance = "valid" THEN {Decision("allow", "clearance", Nothing)}
  ELSE {WithSession(req, e) : e \in UNION {Evaluated(cfg, r, FALSE) : r \in Enriched(req)}}

OverrideCertain(cfg, req) ==
  Forcing(cfg, req) # {} /\ Forcing(cfg, req) = MatchedRoute(cfg, req, TRUE)

PlatformDecisions(cfg, req) ==
  IF ~cfg.active THEN {Decision("block", "application", Nothing)}
  ELSE IF MatchedIP(cfg, req) # {} THEN {Decision(p.action, "ip", Nothing) : p \in MatchedIP(cfg, req)}
  ELSE IF req.ticket # "none"
    THEN {Decision(IF req.ticket = "valid" THEN "allow" ELSE "block", "ticket", Nothing)}
  ELSE ForcedDecisions(cfg, req)
       \cup {d \in OrdinaryDecisions(cfg, req) : ~OverrideCertain(cfg, req)}

\* Mutant: the dry run of a disabled application's policies.
SimulatedEvaluationsUngated(cfg, req) == Evaluated(cfg, req, TRUE)

\* handleSimulatePolicy: neither ticket nor clearance nor inference.
SimulatedEvaluations(cfg, req) ==
  IF ~cfg.active THEN {Evaluation("block", "application", Nothing, TRUE)}
  ELSE Evaluated(cfg, req, TRUE)

----------------------------------------------------------------------------
(* The gateway.                                                             *)

\* localHardDecision, with which localDecision begins too.
HardDecisions(cfg, req) ==
  IF ~cfg.active THEN {Decision("block", "application", Nothing)}
  ELSE {Decision(p.action, "ip", Nothing) :
          p \in {q \in MatchedIP(cfg, req) : q.action \in {"allow", "block"}}}

\* The rules evaluateCachedPolicyRules decides by.
DecidedHere(r) == r.counts = {} /\ r.action \in AllowLike \cup BlockLike

RuleDecisions(cfg, req) ==
  {Decision(r.action, "rule", Nothing) : r \in {s \in MatchedRule(cfg, req) : DecidedHere(s)}}

\* No rule matched, or the one that did is not decided here: the same FALSE to its caller.
NoRuleVerdict(cfg, req) ==
  MatchedRule(cfg, req) = {} \/ \E r \in MatchedRule(cfg, req) : ~DecidedHere(r)

LocalModes == [manual_bypass |-> "allow", silent |-> "observe", observe |-> "observe"]

\* Mutant: the rollout is not applied.
LocalRouteDecisionsUnsampled(cfg, req) ==
  IF MatchedRoute(cfg, req, FALSE) = {} THEN {Decision("allow", "no_route", Nothing)}
  ELSE {Decision(LocalModes[t.mode], "route", Nothing) :
          t \in {u \in MatchedRoute(cfg, req, FALSE) : u.mode \in DOMAIN LocalModes}}

LocalRouteDecisions(cfg, req) ==
  IF MatchedRoute(cfg, req, TRUE) = {} THEN {Decision("allow", "no_route", Nothing)}
  ELSE {Decision(LocalModes[t.mode], "route", Nothing) :
          t \in {u \in MatchedRoute(cfg, req, TRUE) : u.mode \in DOMAIN LocalModes}}

\* An address policy with another action leaves the request to the platform.
LocalDecisions(cfg, req) ==
  HardDecisions(cfg, req)
  \cup {d \in RuleDecisions(cfg, req)
              \cup {l \in LocalRouteDecisions(cfg, req) : NoRuleVerdict(cfg, req)} :
           cfg.active /\ MatchedIP(cfg, req) = {} /\ req.ticket = "none"}

\* ticketScene: the scene the gateway redeems a ticket for.
TicketScenes(cfg, req) ==
  IF MatchedRoute(cfg, req, FALSE) = {} THEN {req.scene}
  ELSE {SceneOn(req, t) : t \in MatchedRoute(cfg, req, FALSE)}

----------------------------------------------------------------------------
(* The steps.                                                               *)

Answer(by, req, d, exact) ==
  [by |-> by, req |-> req, action |-> d.action, reason |-> d.reason,
   session |-> d.session, exact |-> exact]

Init ==
  /\ backend \in Backends
  /\ config \in Configs
  /\ snapshot = Nothing
  /\ answer = Nothing
  /\ edits = 0

\* An admin request writes or deletes entries of one collection, or the application's status.
SaveConfig(c) ==
  /\ edits < MaxEdits
  /\ \E field \in {"active", "ips", "rules", "routes"} :
       c # config /\ c = [config EXCEPT ![field] = c[field]]
  /\ config' = c
  /\ edits' = edits + 1
  /\ answer' = Nothing
  /\ UNCHANGED <<backend, snapshot>>

\* ConfigCache.Update with what GetConfig or WatchConfig sent.
UpdateCache ==
  /\ snapshot # config
  /\ snapshot' = config
  /\ answer' = Nothing
  /\ UNCHANGED <<backend, config, edits>>

GatewayDecides(req) ==
  /\ snapshot # Nothing
  /\ \E d \in LocalDecisions(snapshot, req) : answer' = Answer("gateway", req, d, TRUE)
  /\ UNCHANGED <<backend, config, snapshot, edits>>

\* Asked by the gateway, or by a middleware, which asks about every request.
EvaluatePolicy(req) ==
  /\ \E d \in PlatformDecisions(config, req) : answer' = Answer("platform", req, d, TRUE)
  /\ UNCHANGED <<backend, config, snapshot, edits>>

SimulatePolicy(req) ==
  /\ \E e \in SimulatedEvaluations(config, req) :
       answer' = Answer("simulation", req, Decision(e.action, e.reason, Nothing), e.exact)
  /\ UNCHANGED <<backend, config, snapshot, edits>>

Next ==
  \/ \E c \in Configs : SaveConfig(c)
  \/ UpdateCache
  \/ \E req \in Requests : GatewayDecides(req) \/ EvaluatePolicy(req) \/ SimulatePolicy(req)

Spec == Init /\ [][Next]_vars

----------------------------------------------------------------------------
(* Properties.                                                              *)

Actions == AllowLike \cup ChallengeLike \cup BlockLike \cup {"retry", ""}

\* Instants of creation are distinct, so that Postgres' order is total.
SameAge(S) == \E x, y \in S : x # y /\ x.born = y.born

ASSUME PolicyAssumption ==
  /\ Nothing \notin Configs
  /\ Backends \subseteq {"postgres", "memory"}
  /\ MaxEdits \in Nat
  /\ \A i \in Inferences : i.score \in Nat
  /\ \A req \in Requests :
       DOMAIN req = {"path", "address", "identity", "scene", "ticket", "clearance",
                     "risk", "level", "model", "mode"}
  /\ \A cfg \in Configs :
       /\ cfg.active \in BOOLEAN
       /\ \A p \in cfg.ips : p.action \in Actions /\ p.type \in DOMAIN Rank /\ p.born \in Int
       /\ \A r \in cfg.rules :
            /\ r.action \in AllowLike \cup ChallengeLike \cup BlockLike
            /\ r.born \in Int /\ r.priority \in Int
       /\ \A t \in cfg.routes : t.born \in Int /\ t.priority \in Int
       /\ ~SameAge(cfg.ips) /\ ~SameAge(cfg.rules) /\ ~SameAge(cfg.routes)

\* Type invariant: answers are decisions about known requests, and only the platform creates sessions.
TypeOK ==
  /\ backend \in Backends
  /\ config \in Configs
  /\ snapshot \in Configs \cup {Nothing}
  /\ edits \in 0..MaxEdits
  /\ answer # Nothing =>
       /\ answer.req \in Requests
       /\ answer.action \in Actions
       /\ answer.session # Nothing => answer.by = "platform" /\ answer.action \in ChallengeLike

\* Who made the last answer.
Answered(by) == answer # Nothing /\ answer.by = by

\* What the platform does to the request that was answered.
PlatformEffects == {Effect(d.action) : d \in PlatformDecisions(config, answer.req)}

\* Postgres lists in a fixed order, and no inference intervenes.
Settled == backend = "postgres" /\ Enriched(answer.req) = {answer.req}

\* What an up-to-date gateway decides without the platform (localHardDecision, localDecision) has
\* the effect the platform's answer would have had: always when the application or an address
\* policy decides, and otherwise for requests without clearance whose rule, if any, the gateway
\* may decide by.  With Postgres and without inference it is the only effect possible.
LocalAgrees ==
  /\ Answered("gateway") /\ snapshot = config
  /\ \/ answer.reason \in {"application", "ip"}
     \/ answer.req.clearance = "none" /\ \A r \in MatchedRule(config, answer.req) : DecidedHere(r)
  => /\ Effect(answer.action) \in PlatformEffects
     /\ Settled => PlatformEffects = {Effect(answer.action)}

\* The route that answered counts requests and its mode is padded: counters are left out unsaid.
UncountedUnsaid ==
  answer.reason = "route" /\ \E t \in MatchedRoute(config, answer.req, TRUE) : t.mode = "rate_limit" /\ t.padded

\* The dry run of the admin API (handleSimulatePolicy), unless it says that counters were left
\* out, answers what the platform would have answered the request; a padded rate_limit mode,
\* of which it does not say so, is the exception.
SimulationAgrees ==
  /\ Answered("simulation") /\ answer.exact /\ ~UncountedUnsaid
  /\ answer.req.ticket = "none" /\ answer.req.clearance = "none"
  => LET actions == {d.action : d \in PlatformDecisions(config, answer.req)}
     IN  answer.action \in actions /\ (Settled => actions = {answer.action})

\* A rule's conditions match with a clearance that is not honoured, but not without one, or the reverse.
ReadsJunk(r) == ~("invalid" \in r.clearances <=> "none" \in r.clearances)

\* A clearance the store does not honour changes nothing (handleEvaluatePolicy, EvaluateClearanceOverride),
\* except on a route that forces a challenge and where a rule's conditions tell it from none
\* (policyFieldValue offers them the token as it was sent).
JunkClearanceInert ==
  /\ Answered("platform") /\ answer.req.clearance = "invalid"
  /\ Forcing(config, answer.req) = {} /\ \A r \in config.rules : ~ReadsJunk(r)
  => Decision(answer.action, answer.reason, answer.session)
       \in PlatformDecisions(config, [answer.req EXCEPT !.clearance = "none"])

\* docs/zh/architecture-design.md:976-979: a rule that asks for a challenge or counts requests is
\* decided by the platform, so an up-to-date gateway does not decide by routes what such a rule covers.
RemoteRulesRemote ==
  Answered("gateway") /\ snapshot = config /\ answer.reason \in {"route", "no_route"}
  => \A r \in MatchedRule(config, answer.req) : DecidedHere(r)

\* docs/zh/architecture-design.md:1220: a ticket is redeemed for the scene it was issued for although
\* the route that demanded it is in a rollout.
TicketsFit ==
  Answered("platform") /\ answer.session # Nothing /\ answer.reason = "route"
  /\ snapshot = config /\ backend = "postgres"
  => TicketScenes(snapshot, answer.req) = {answer.session}
===============================================================================
