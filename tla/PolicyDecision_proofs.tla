------------------------- MODULE PolicyDecision_proofs -------------------------
(***************************************************************************)
(* Theorems about PolicyDecision, for every set of configurations, requests *)
(* and inferences.  An answer stands until the configuration or the cache   *)
(* changes, so that where it came from is an invariant (Provenance); what   *)
(* the gateway and the platform answer is then compared by lemmas about the *)
(* operators alone.                                                         *)
(*                                                                         *)
(* The second half is about the counters an evaluation asks, RateLimit, for *)
(* every limit, window and number of servers: OrderInv says what keys,      *)
(* counters and requests are, and each strategy has an invariant of its own *)
(* that relates what is stored to what was let through.                     *)
(***************************************************************************)
EXTENDS PolicyDecision, RateLimit, FiniteSetTheorems, TLAPS

\* Every answer is one the operators give on the configuration as it is.
Provenance ==
  answer # Nothing =>
    /\ answer.req \in Requests
    /\ answer.by \in {"gateway", "platform", "simulation"}
    /\ answer.by = "gateway" =>
         /\ snapshot # Nothing
         /\ \E d \in LocalDecisions(snapshot, answer.req) : answer = Answer("gateway", answer.req, d, TRUE)
    /\ answer.by = "platform" =>
         \E d \in PlatformDecisions(config, answer.req) : answer = Answer("platform", answer.req, d, TRUE)
    /\ answer.by = "simulation" =>
         \E e \in SimulatedEvaluations(config, answer.req) :
           answer = Answer("simulation", answer.req, Decision(e.action, e.reason, Nothing), e.exact)

Typed ==
  /\ backend \in Backends
  /\ config \in Configs
  /\ snapshot \in Configs \cup {Nothing}
  /\ edits \in 0..MaxEdits

IInv == Typed /\ Provenance

THEOREM Inductive == Spec => []IInv
<1>1. Init => IInv
  BY PolicyAssumption DEF Init, IInv, Typed, Provenance
<1>2. IInv /\ [Next]_vars => IInv'
  <2> SUFFICES ASSUME IInv, [Next]_vars PROVE IInv'
    OBVIOUS
  <2>1. ASSUME NEW c \in Configs, SaveConfig(c) PROVE IInv'
    BY <2>1, PolicyAssumption DEF IInv, Typed, Provenance, SaveConfig
  <2>2. CASE UpdateCache
    BY <2>2 DEF IInv, Typed, Provenance, UpdateCache
  <2>3. ASSUME NEW req \in Requests, UNCHANGED <<backend, config, snapshot, edits>>,
               NEW by \in {"gateway", "platform", "simulation"}, NEW d, NEW exact, answer' = Answer(by, req, d, exact),
               by = "gateway" => snapshot # Nothing /\ exact = TRUE /\ d \in LocalDecisions(snapshot, req),
               by = "platform" => exact = TRUE /\ d \in PlatformDecisions(config, req),
               by = "simulation" =>
                 \E e \in SimulatedEvaluations(config, req) :
                   d = Decision(e.action, e.reason, Nothing) /\ exact = e.exact
        PROVE  IInv'
    <3>1. answer'.req = req /\ answer'.by = by
      BY <2>3 DEF Answer
    <3>2. Typed'
      BY <2>3 DEF IInv, Typed
    <3>3. /\ LocalDecisions(snapshot, req)' = LocalDecisions(snapshot, req)
          /\ PlatformDecisions(config, req)' = PlatformDecisions(config, req)
          /\ SimulatedEvaluations(config, req)' = SimulatedEvaluations(config, req)
      BY <2>3 DEF LocalDecisions, HardDecisions, RuleDecisions, NoRuleVerdict, LocalRouteDecisions,
           MatchedIP, MatchedRule, MatchedRoute, FirstListed, PlatformDecisions, ForcedDecisions,
           OrdinaryDecisions, OverrideCertain, Forcing, SimulatedEvaluations, Evaluated, IPEvaluations
    <3>4. by = "gateway" => /\ snapshot' # Nothing
                            /\ \E x \in LocalDecisions(snapshot, req)' :
                                 answer' = Answer("gateway", req, x, TRUE)
      BY <2>3, <3>3
    <3>5. by = "platform" =>
            \E x \in PlatformDecisions(config, req)' : answer' = Answer("platform", req, x, TRUE)
      BY <2>3, <3>3
    <3>6. by = "simulation" =>
            \E e \in SimulatedEvaluations(config, req)' :
              answer' = Answer("simulation", req, Decision(e.action, e.reason, Nothing), e.exact)
      BY <2>3, <3>3
    <3> QED
      BY <3>1, <3>2, <3>4, <3>5, <3>6 DEF IInv, Provenance
  <2>4. ASSUME NEW req \in Requests, GatewayDecides(req) PROVE IInv'
    <3>1. PICK d \in LocalDecisions(snapshot, req) : answer' = Answer("gateway", req, d, TRUE)
      BY <2>4 DEF GatewayDecides
    <3> QED
      BY <2>3, <2>4, <3>1 DEF GatewayDecides
  <2>5. ASSUME NEW req \in Requests, EvaluatePolicy(req) PROVE IInv'
    <3>1. PICK d \in PlatformDecisions(config, req) : answer' = Answer("platform", req, d, TRUE)
      BY <2>5 DEF EvaluatePolicy
    <3> QED
      BY <2>3, <2>5, <3>1 DEF EvaluatePolicy
  <2>6. ASSUME NEW req \in Requests, SimulatePolicy(req) PROVE IInv'
    <3>1. PICK e \in SimulatedEvaluations(config, req) :
            answer' = Answer("simulation", req, Decision(e.action, e.reason, Nothing), e.exact)
      BY <2>6 DEF SimulatePolicy
    <3> QED
      BY <2>3, <2>6, <3>1 DEF SimulatePolicy
  <2>7. CASE UNCHANGED vars
    <3>1. UNCHANGED <<backend, config, snapshot, answer, edits>>
      BY <2>7 DEF vars
    <3>2. /\ LocalDecisions(snapshot, answer.req)' = LocalDecisions(snapshot, answer.req)
          /\ PlatformDecisions(config, answer.req)' = PlatformDecisions(config, answer.req)
          /\ SimulatedEvaluations(config, answer.req)' = SimulatedEvaluations(config, answer.req)
      BY <3>1 DEF LocalDecisions, HardDecisions, RuleDecisions, NoRuleVerdict, LocalRouteDecisions,
           MatchedIP, MatchedRule, MatchedRoute, FirstListed, PlatformDecisions, ForcedDecisions,
           OrdinaryDecisions, OverrideCertain, Forcing, SimulatedEvaluations, Evaluated, IPEvaluations
    <3> QED
      BY <3>1, <3>2 DEF IInv, Typed, Provenance
  <2> QED
    BY <2>1, <2>2, <2>4, <2>5, <2>6, <2>7 DEF Next
<1> QED
  BY <1>1, <1>2, PTL DEF Spec

----------------------------------------------------------------------------
(* Postgres' order is total, so that nothing is left to choose.             *)

\* The operators at the arguments the lemmas are about.
RouteHits(cfg, req) == MatchedRoute(cfg, req, TRUE)
Evaluations(cfg, req) == Evaluated(cfg, req, FALSE)
DryRuns(cfg, req) == Evaluated(cfg, req, TRUE)

LEMMA FirstIsOnly ==
  ASSUME backend = "postgres", NEW S, \A x \in S : x.born \in Int, ~SameAge(S),
         NEW x \in FirstListed(S), NEW y \in FirstListed(S)
  PROVE  x = y
BY DEF FirstListed, SameAge

LEMMA OneMatch ==
  ASSUME NEW cfg \in Configs, NEW req
  PROVE  /\ \A p, q \in MatchedIP(cfg, req) : backend = "postgres" => p = q
         /\ \A r, s \in MatchedRule(cfg, req) : r = s
         /\ \A t, u \in RouteHits(cfg, req) : backend = "postgres" => t = u
<1>1. ASSUME NEW p \in MatchedIP(cfg, req), NEW q \in MatchedIP(cfg, req), backend = "postgres"
      PROVE  p = q
  <2> DEFINE hits == {h \in cfg.ips : h.enabled /\ req.address \in h.covers}
             best == {h \in hits : \A k \in hits : Rank[k.type] <= Rank[h.type]}
  <2>1. best \subseteq cfg.ips
    OBVIOUS
  <2>2. (\A x \in best : x.born \in Int) /\ ~SameAge(best)
    BY <2>1, PolicyAssumption DEF SameAge
  <2>3. p \in FirstListed(best) /\ q \in FirstListed(best)
    BY DEF MatchedIP
  <2> HIDE DEF best
  <2> QED
    BY <1>1, <2>2, <2>3, FirstIsOnly
<1>2. ASSUME NEW r \in MatchedRule(cfg, req), NEW s \in MatchedRule(cfg, req) PROVE r = s
  <2>1. r \in cfg.rules /\ s \in cfg.rules /\ r.born <= s.born /\ s.born <= r.born
    BY DEF MatchedRule, Foremost
  <2> QED
    BY <2>1, PolicyAssumption DEF SameAge
<1>3. ASSUME NEW t \in RouteHits(cfg, req), NEW u \in RouteHits(cfg, req),
             backend = "postgres"
      PROVE  t = u
  <2> DEFINE best == Foremost({v \in cfg.routes :
           v.enabled /\ req.path \in v.paths /\ (TRUE => RolloutKey(req) \in v.audience)})
  <2>1. best \subseteq cfg.routes
    BY DEF Foremost
  <2>2. (\A x \in best : x.born \in Int) /\ ~SameAge(best)
    BY <2>1, PolicyAssumption DEF SameAge
  <2>3. t \in FirstListed(best) /\ u \in FirstListed(best)
    BY DEF RouteHits, MatchedRoute
  <2> HIDE DEF best
  <2> QED
    BY <1>3, <2>2, <2>3, FirstIsOnly
<1> QED
  BY <1>1, <1>2, <1>3

LEMMA Matched ==
  ASSUME NEW cfg \in Configs, NEW req
  PROVE  MatchedIP(cfg, req) \subseteq cfg.ips /\ MatchedRule(cfg, req) \subseteq cfg.rules
BY DEF MatchedIP, MatchedRule, FirstListed, Foremost

----------------------------------------------------------------------------
(* Typing.                                                                  *)

LEMMA EvaluationFields ==
  ASSUME NEW action, NEW reason, NEW route, NEW exact
  PROVE  /\ Evaluation(action, reason, route, exact).action = action
         /\ Evaluation(action, reason, route, exact).reason = reason
         /\ Evaluation(action, reason, route, exact).route = route
         /\ Evaluation(action, reason, route, exact).exact = exact
BY DEF Evaluation

LEMMA DecisionFields ==
  ASSUME NEW action, NEW reason, NEW session
  PROVE  /\ Decision(action, reason, session).action = action
         /\ Decision(action, reason, session).reason = reason
         /\ Decision(action, reason, session).session = session
BY DEF Decision

LEMMA Named ==
  /\ AllowLike \cup BlockLike \cup ChallengeLike \subseteq Actions
  /\ {"allow", "observe", "skip_challenge"} \subseteq AllowLike
  /\ "challenge" \in ChallengeLike /\ "block" \in BlockLike
BY DEF Actions, AllowLike, BlockLike, ChallengeLike

LEMMA EvaluatedTyped ==
  ASSUME NEW cfg \in Configs, NEW req, NEW dryRun \in BOOLEAN, NEW e \in Evaluated(cfg, req, dryRun)
  PROVE  e.action \in Actions
<1>1. CASE e \in IPEvaluations(cfg, req)
  <2>1. PICK p \in MatchedIP(cfg, req) : e = Evaluation(p.action, "ip", Nothing, TRUE)
    BY <1>1 DEF IPEvaluations
  <2>2. p.action \in Actions
    BY Matched, PolicyAssumption
  <2> QED
    BY <2>1, <2>2 DEF Evaluation
<1>2. ASSUME NEW r \in MatchedRule(cfg, req), e \in RuleEvaluations(req, r, dryRun)
      PROVE  e.action \in Actions
  <2>1. r.action \in Actions
    BY Matched, PolicyAssumption DEF Actions
  <2>2. RuleActions(req, r, dryRun) \subseteq Actions
    BY <2>1, Named DEF RuleActions
  <2> QED
    BY <1>2, <2>2, EvaluationFields DEF RuleEvaluations
<1>3. ASSUME NEW t, e \in RouteEvaluations(req, t, dryRun) PROVE e.action \in Actions
  <2>1. RouteActions(req, t, dryRun) \subseteq {"challenge", "allow", "observe", "block"}
    BY DEF RouteActions, RateLimitActions, RiskBasedAction
  <2>2. e.action \in RouteActions(req, t, dryRun)
    BY <1>3, EvaluationFields DEF RouteEvaluations
  <2> QED
    BY <2>1, <2>2, Named
<1>4. CASE e = Evaluation("allow", "no_route", Nothing, TRUE)
  <2>1. e.action = "allow"
    BY <1>4 DEF Evaluation
  <2> QED
    BY <2>1, Named
<1>5. \/ e \in IPEvaluations(cfg, req)
      \/ \E r \in MatchedRule(cfg, req) : e \in RuleEvaluations(req, r, dryRun)
      \/ \E t \in MatchedRoute(cfg, req, TRUE) : e \in RouteEvaluations(req, t, dryRun)
      \/ e = Evaluation("allow", "no_route", Nothing, TRUE)
  BY DEF Evaluated
<1> QED
  BY <1>1, <1>2, <1>3, <1>4, <1>5

LEMMA SessionTyped ==
  ASSUME NEW req, NEW e, e.action \in Actions
  PROVE  /\ WithSession(req, e).action \in Actions
         /\ WithSession(req, e).session # Nothing => WithSession(req, e).action \in ChallengeLike
BY DEF WithSession, Decision

LEMMA PlatformTyped ==
  ASSUME NEW cfg \in Configs, NEW req, NEW d \in PlatformDecisions(cfg, req)
  PROVE  d.action \in Actions /\ (d.session # Nothing => d.action \in ChallengeLike)
<1>1. CASE d \in ForcedDecisions(cfg, req)
  <2>1. PICK t \in Forcing(cfg, req) :
          \E e \in RouteEvaluations(req, t, FALSE) : d = WithSession(req, e)
    BY <1>1 DEF ForcedDecisions
  <2>0. PICK e \in RouteEvaluations(req, t, FALSE) : d = WithSession(req, e)
    BY <2>1
  <2>3. RouteActions(req, t, FALSE) = {"challenge"}
    BY DEF Forcing, RouteActions, Forces
  <2>2. e.action \in Actions
    <3>1. e = Evaluation("challenge", "route", t, ~SaysUncounted(t))
      BY <2>0, <2>3 DEF RouteEvaluations
    <3> QED
      BY <3>1, EvaluationFields, Named
  <2> QED
    BY <2>0, <2>2, SessionTyped
<1>2. CASE d \in OrdinaryDecisions(cfg, req)
  <2>1. CASE d = Decision("allow", "clearance", Nothing)
    BY <2>1 DEF Decision, Actions, AllowLike
  <2>2. ASSUME NEW r \in Enriched(req), NEW e \in Evaluated(cfg, r, FALSE), d = WithSession(req, e)
        PROVE  d.action \in Actions /\ (d.session # Nothing => d.action \in ChallengeLike)
    BY <2>2, EvaluatedTyped, SessionTyped
  <2> QED
    BY <1>2, <2>1, <2>2 DEF OrdinaryDecisions
<1>3. ASSUME NEW action \in Actions, NEW reason, d = Decision(action, reason, Nothing)
      PROVE  d.action \in Actions /\ (d.session # Nothing => d.action \in ChallengeLike)
  BY <1>3 DEF Decision
<1>4. "block" \in Actions /\ "allow" \in Actions /\ \A p \in MatchedIP(cfg, req) : p.action \in Actions
  BY Matched, PolicyAssumption DEF Actions, AllowLike, BlockLike
<1> QED
  BY <1>1, <1>2, <1>3, <1>4 DEF PlatformDecisions

LEMMA LocalTyped ==
  ASSUME NEW cfg \in Configs, NEW req, NEW d \in LocalDecisions(cfg, req)
  PROVE  d.action \in Actions /\ d.session = Nothing
<1>1. ASSUME NEW action \in Actions, NEW reason, d = Decision(action, reason, Nothing)
      PROVE  d.action \in Actions /\ d.session = Nothing
  BY <1>1, DecisionFields
<1>2. CASE d \in HardDecisions(cfg, req)
  <2>1. CASE d = Decision("block", "application", Nothing)
    BY <2>1, <1>1, Named
  <2>2. ASSUME NEW p \in MatchedIP(cfg, req), d = Decision(p.action, "ip", Nothing)
        PROVE  d.action \in Actions /\ d.session = Nothing
    BY <2>2, <1>1, Matched, PolicyAssumption
  <2> QED
    BY <1>2, <2>1, <2>2 DEF HardDecisions
<1>3. CASE d \in RuleDecisions(cfg, req)
  <2>1. PICK r \in MatchedRule(cfg, req) : DecidedHere(r) /\ d = Decision(r.action, "rule", Nothing)
    BY <1>3 DEF RuleDecisions
  <2> QED
    BY <2>1, <1>1, Named DEF DecidedHere
<1>4. CASE d \in LocalRouteDecisions(cfg, req)
  <2>1. CASE d = Decision("allow", "no_route", Nothing)
    BY <2>1, <1>1, Named
  <2>2. ASSUME NEW t, t.mode \in DOMAIN LocalModes, d = Decision(LocalModes[t.mode], "route", Nothing)
        PROVE  d.action \in Actions /\ d.session = Nothing
    <3>1. LocalModes[t.mode] \in {"allow", "observe"}
      BY <2>2 DEF LocalModes
    <3> QED
      BY <3>1, <2>2, <1>1, Named
  <2> QED
    BY <1>4, <2>1, <2>2 DEF LocalRouteDecisions
<1> QED
  BY <1>2, <1>3, <1>4 DEF LocalDecisions

\* Every reachable state is well typed, and only the platform creates sessions, for challenges.
THEOREM TypeCorrect == Spec => []TypeOK
<1>1. IInv => TypeOK
  <2> SUFFICES ASSUME IInv, answer # Nothing
               PROVE  /\ answer.action \in Actions
                      /\ answer.session # Nothing => answer.by = "platform" /\ answer.action \in ChallengeLike
    BY DEF IInv, Typed, Provenance, TypeOK
  <2>1. CASE answer.by = "gateway"
    <3>1. PICK d \in LocalDecisions(snapshot, answer.req) : answer = Answer("gateway", answer.req, d, TRUE)
      BY <2>1 DEF IInv, Provenance
    <3>2. d.action \in Actions /\ d.session = Nothing
      BY <2>1, LocalTyped DEF IInv, Typed, Provenance
    <3> QED
      BY <3>1, <3>2 DEF Answer
  <2>2. CASE answer.by = "platform"
    <3>1. PICK d \in PlatformDecisions(config, answer.req) : answer = Answer("platform", answer.req, d, TRUE)
      BY <2>2 DEF IInv, Provenance
    <3>2. d.action \in Actions /\ (d.session # Nothing => d.action \in ChallengeLike)
      BY PlatformTyped DEF IInv, Typed
    <3> QED
      BY <2>2, <3>1, <3>2 DEF Answer
  <2>3. CASE answer.by = "simulation"
    <3>1. PICK e \in SimulatedEvaluations(config, answer.req) :
            answer = Answer("simulation", answer.req, Decision(e.action, e.reason, Nothing), e.exact)
      BY <2>3 DEF IInv, Provenance
    <3>2. e.action \in Actions
      <4>1. CASE e = Evaluation("block", "application", Nothing, TRUE)
        <5>1. e.action = "block"
          BY <4>1 DEF Evaluation
        <5> QED
          BY <5>1, Named
      <4>2. CASE e \in Evaluated(config, answer.req, TRUE)
        BY <4>2, EvaluatedTyped DEF IInv, Typed
      <4> QED
        BY <4>1, <4>2 DEF SimulatedEvaluations
    <3> QED
      BY <3>1, <3>2 DEF Answer, Decision
  <2> QED
    BY <2>1, <2>2, <2>3 DEF IInv, Provenance
<1> QED
  BY <1>1, Inductive, PTL

----------------------------------------------------------------------------
(* Gateway, dry run and platform.                                           *)

\* What the platform does when nothing comes before its evaluation.
LEMMA Plain ==
  ASSUME NEW cfg \in Configs, NEW req, cfg.active, MatchedIP(cfg, req) = {},
         req.ticket = "none", req.clearance = "none"
  PROVE  /\ \A e \in Evaluations(cfg, req) :
              \E d \in PlatformDecisions(cfg, req) : d.action = e.action
         /\ Enriched(req) = {req} =>
              \A d \in PlatformDecisions(cfg, req) :
                \E e \in Evaluations(cfg, req) : d.action = e.action
<1>1. Forcing(cfg, req) = {} /\ ForcedDecisions(cfg, req) = {} /\ ~OverrideCertain(cfg, req)
  BY DEF Forcing, ForcedDecisions, OverrideCertain
<1>2. PlatformDecisions(cfg, req) =
        {WithSession(req, e) : e \in UNION {Evaluated(cfg, r, FALSE) : r \in Enriched(req)}}
  <2>1. PlatformDecisions(cfg, req) = OrdinaryDecisions(cfg, req)
    BY <1>1 DEF PlatformDecisions
  <2> QED
    BY <2>1 DEF OrdinaryDecisions
<1>3. \A e : WithSession(req, e).action = e.action
  BY DEF WithSession, Decision
<1>4. req \in Enriched(req)
  BY DEF Enriched
<1>5. Evaluations(cfg, req) = Evaluated(cfg, req, FALSE)
  BY DEF Evaluations
<1> QED
  BY <1>2, <1>3, <1>4, <1>5

\* Where the gateway decides by a rule or a route, the evaluation agrees.
LEMMA LocalIsEvaluated ==
  ASSUME NEW cfg \in Configs, NEW req, MatchedIP(cfg, req) = {},
         \A r \in MatchedRule(cfg, req) : DecidedHere(r),
         NEW d, \/ d \in RuleDecisions(cfg, req)
                \/ NoRuleVerdict(cfg, req) /\ d \in LocalRouteDecisions(cfg, req)
  PROVE  /\ \E e \in Evaluations(cfg, req) : e.action = d.action
         /\ backend = "postgres" => \A e \in Evaluations(cfg, req) : e.action = d.action
<1>1. CASE MatchedRule(cfg, req) # {}
  <2>1. PICK r \in MatchedRule(cfg, req) : d = Decision(r.action, "rule", Nothing)
    BY <1>1 DEF RuleDecisions, NoRuleVerdict
  <2>2. MatchedRule(cfg, req) = {r} /\ r.counts = {}
    BY OneMatch DEF DecidedHere
  <2>3. RuleActions(req, r, FALSE) = {r.action}
    BY <2>2 DEF RuleActions
  <2>4. Evaluations(cfg, req) = RuleEvaluations(req, r, FALSE)
    BY <2>2 DEF Evaluated, Evaluations, DryRuns, RouteHits
  <2>5. RuleEvaluations(req, r, FALSE) = {Evaluation(r.action, "rule", Nothing, r.counts = {})}
    BY <2>3 DEF RuleEvaluations
  <2>6. Evaluation(r.action, "rule", Nothing, r.counts = {}).action = r.action /\ d.action = r.action
    BY <2>1 DEF Evaluation, Decision
  <2> QED
    BY <2>4, <2>5, <2>6
<1>2. CASE MatchedRule(cfg, req) = {} /\ RouteHits(cfg, req) = {}
  <2>1. d = Decision("allow", "no_route", Nothing)
    BY <1>2 DEF RuleDecisions, LocalRouteDecisions, RouteHits
  <2>2. Evaluations(cfg, req) = {Evaluation("allow", "no_route", Nothing, TRUE)}
    BY <1>2 DEF Evaluated, Evaluations, DryRuns, RouteHits
  <2>3. Evaluation("allow", "no_route", Nothing, TRUE).action = d.action
    BY <2>1 DEF Evaluation, Decision
  <2> QED
    BY <2>2, <2>3
<1>3. CASE MatchedRule(cfg, req) = {} /\ RouteHits(cfg, req) # {}
  <2>1. PICK t \in RouteHits(cfg, req) :
          t.mode \in DOMAIN LocalModes /\ d = Decision(LocalModes[t.mode], "route", Nothing)
    BY <1>3 DEF RuleDecisions, LocalRouteDecisions, RouteHits
  <2>2. RouteActions(req, t, FALSE) = {LocalModes[t.mode]}
    <3>1. \/ t.mode = "manual_bypass" /\ LocalModes[t.mode] = "allow"
          \/ t.mode \in {"silent", "observe"} /\ LocalModes[t.mode] = "observe"
      BY <2>1 DEF LocalModes
    <3> QED
      BY <3>1 DEF RouteActions, Forces
  <2>3. \A e : e \in RouteEvaluations(req, t, FALSE)
               <=> e = Evaluation(LocalModes[t.mode], "route", t, ~SaysUncounted(t))
    BY <2>2 DEF RouteEvaluations
  <2>4. Evaluations(cfg, req) =
          UNION {RouteEvaluations(req, u, FALSE) : u \in RouteHits(cfg, req)}
    BY <1>3 DEF Evaluated, Evaluations, DryRuns, RouteHits
  <2>5. backend = "postgres" => RouteHits(cfg, req) = {t}
    BY OneMatch
  <2>6. Evaluation(LocalModes[t.mode], "route", t, ~SaysUncounted(t)).action = d.action
    BY <2>1 DEF Evaluation, Decision
  <2> QED
    BY <2>3, <2>4, <2>5, <2>6
<1> QED
  BY <1>1, <1>2, <1>3

LEMMA LocalIsPlatform ==
  ASSUME NEW cfg \in Configs, NEW req, NEW d \in LocalDecisions(cfg, req),
         \/ d.reason \in {"application", "ip"}
         \/ req.clearance = "none" /\ \A r \in MatchedRule(cfg, req) : DecidedHere(r)
  PROVE  /\ \E x \in PlatformDecisions(cfg, req) : x.action = d.action
         /\ backend = "postgres" /\ Enriched(req) = {req} =>
              \A x \in PlatformDecisions(cfg, req) : x.action = d.action
<1>1. CASE ~cfg.active
  <2>1. d = Decision("block", "application", Nothing)
    BY <1>1 DEF LocalDecisions, HardDecisions
  <2>2. PlatformDecisions(cfg, req) = {d}
    BY <1>1, <2>1 DEF PlatformDecisions
  <2> QED
    BY <2>2
<1>2. CASE cfg.active /\ MatchedIP(cfg, req) # {}
  <2>1. PICK p \in MatchedIP(cfg, req) : d = Decision(p.action, "ip", Nothing)
    BY <1>2 DEF LocalDecisions, HardDecisions
  <2>2. PlatformDecisions(cfg, req) = {Decision(q.action, "ip", Nothing) : q \in MatchedIP(cfg, req)}
    BY <1>2 DEF PlatformDecisions
  <2>3. backend = "postgres" => \A q \in MatchedIP(cfg, req) : q = p
    BY OneMatch
  <2> QED
    BY <2>1, <2>2, <2>3
<1>3. CASE cfg.active /\ MatchedIP(cfg, req) = {}
  <2>1. req.ticket = "none" /\ (\/ d \in RuleDecisions(cfg, req)
                                \/ NoRuleVerdict(cfg, req) /\ d \in LocalRouteDecisions(cfg, req))
    BY <1>3 DEF LocalDecisions, HardDecisions
  <2>2. d.reason \notin {"application", "ip"}
    <3>1. \E a, reason : reason \in {"rule", "route", "no_route"} /\ d = Decision(a, reason, Nothing)
      <4>1. CASE d \in RuleDecisions(cfg, req)
        BY <4>1 DEF RuleDecisions
      <4>2. CASE d \in LocalRouteDecisions(cfg, req)
        BY <4>2 DEF LocalRouteDecisions
      <4> QED
        BY <2>1, <4>1, <4>2
    <3> QED
      BY <3>1, DecisionFields
  <2>3. /\ \E e \in Evaluations(cfg, req) : e.action = d.action
        /\ backend = "postgres" => \A e \in Evaluations(cfg, req) : e.action = d.action
    BY <1>3, <2>1, <2>2, LocalIsEvaluated
  <2> QED
    BY <1>3, <2>1, <2>2, <2>3, Plain
<1> QED
  BY <1>1, <1>2, <1>3 DEF LocalDecisions

\* What an up-to-date gateway decides by itself has the effect of what the platform would answer.
THEOREM LocalAgreement == Spec => []LocalAgrees
<1>1. IInv => LocalAgrees
  <2> SUFFICES ASSUME IInv, Answered("gateway"), snapshot = config,
                      \/ answer.reason \in {"application", "ip"}
                      \/ /\ answer.req.clearance = "none"
                         /\ \A r \in MatchedRule(config, answer.req) : DecidedHere(r)
               PROVE  /\ Effect(answer.action) \in PlatformEffects
                      /\ Settled => PlatformEffects = {Effect(answer.action)}
    BY DEF LocalAgrees
  <2>1. PICK d \in LocalDecisions(config, answer.req) : answer = Answer("gateway", answer.req, d, TRUE)
    BY DEF IInv, Provenance, Answered
  <2>2. answer.action = d.action /\ answer.reason = d.reason
    BY <2>1 DEF Answer
  <2>3. /\ \E x \in PlatformDecisions(config, answer.req) : x.action = d.action
        /\ Settled => \A x \in PlatformDecisions(config, answer.req) : x.action = d.action
    BY <2>2, LocalIsPlatform DEF IInv, Typed, Settled
  <2> QED
    BY <2>2, <2>3 DEF PlatformEffects
<1> QED
  BY <1>1, Inductive, PTL

LEMMA ExactRoute ==
  ASSUME NEW req, NEW t, t.mode # "rate_limit"
  PROVE  /\ RouteActions(req, t, TRUE) = RouteActions(req, t, FALSE)
         /\ \E a : RouteActions(req, t, FALSE) = {a}
<1>1. CASE t.mode \in {"force_challenge", "always_challenge", "always"}
  BY <1>1 DEF RouteActions, Forces
<1>2. CASE t.mode = "risk_based"
  BY <1>2 DEF RouteActions, Forces
<1>3. CASE t.mode \in {"silent", "observe"}
  BY <1>3 DEF RouteActions, Forces
<1>4. CASE t.mode \notin {"force_challenge", "always_challenge", "always", "risk_based", "silent", "observe"}
  BY <1>4 DEF RouteActions, Forces
<1> QED
  BY <1>1, <1>2, <1>3, <1>4

\* No route that may answer leaves counters out unsaid.
Outspoken(cfg, req) == \A t \in RouteHits(cfg, req) : ~(t.mode = "rate_limit" /\ t.padded)

LEMMA DryRunIsEvaluated ==
  ASSUME NEW cfg \in Configs, NEW req, NEW e \in DryRuns(cfg, req), e.exact,
         e.reason = "route" => Outspoken(cfg, req)
  PROVE  /\ e \in Evaluations(cfg, req)
         /\ backend = "postgres" => \A f \in Evaluations(cfg, req) : f = e
<1>1. CASE MatchedIP(cfg, req) # {}
  <2>1. PICK p \in MatchedIP(cfg, req) : e = Evaluation(p.action, "ip", Nothing, TRUE)
    BY <1>1 DEF Evaluated, Evaluations, DryRuns, RouteHits, IPEvaluations
  <2>2. Evaluations(cfg, req) = IPEvaluations(cfg, req)
    BY <1>1 DEF Evaluated, Evaluations, DryRuns, RouteHits
  <2>3. backend = "postgres" => MatchedIP(cfg, req) = {p}
    BY OneMatch
  <2> QED
    BY <2>1, <2>2, <2>3 DEF IPEvaluations
<1>2. CASE MatchedIP(cfg, req) = {} /\ MatchedRule(cfg, req) # {}
  <2>1. PICK r \in MatchedRule(cfg, req) : e \in RuleEvaluations(req, r, TRUE)
    BY <1>2 DEF Evaluated, Evaluations, DryRuns, RouteHits
  <2>2. r.counts = {}
    <3>1. ASSUME r.counts # {} PROVE FALSE
      <4>1. PICK a : e = Evaluation(a, "rule", Nothing, FALSE)
        BY <2>1, <3>1 DEF RuleEvaluations
      <4> QED
        BY <4>1 DEF Evaluation
    <3> QED
      BY <3>1
  <2>3. RuleEvaluations(req, r, TRUE) = {e} /\ RuleEvaluations(req, r, FALSE) = {e}
    BY <2>1, <2>2 DEF RuleEvaluations, RuleActions
  <2>4. MatchedRule(cfg, req) = {r}
    BY OneMatch
  <2>5. Evaluations(cfg, req) = RuleEvaluations(req, r, FALSE)
    BY <1>2, <2>4 DEF Evaluated, Evaluations, DryRuns, RouteHits
  <2> QED
    BY <2>3, <2>5
<1>3. CASE MatchedIP(cfg, req) = {} /\ MatchedRule(cfg, req) = {} /\ RouteHits(cfg, req) # {}
  <2>1. PICK t \in RouteHits(cfg, req) : e \in RouteEvaluations(req, t, TRUE)
    BY <1>3 DEF Evaluated, Evaluations, DryRuns, RouteHits
  <2>2. t.mode # "rate_limit"
    <3>1. ASSUME t.mode = "rate_limit" PROVE FALSE
      <4>1. PICK a : e = Evaluation(a, "route", t, ~SaysUncounted(t))
        BY <2>1 DEF RouteEvaluations
      <4>2. e.reason = "route" /\ e.exact = ~SaysUncounted(t)
        BY <4>1 DEF Evaluation
      <4>3. ~t.padded
        BY <2>1, <3>1, <4>2 DEF Outspoken
      <4>4. SaysUncounted(t)
        BY <3>1, <4>3 DEF SaysUncounted
      <4> QED
        BY <4>2, <4>4
    <3> QED
      BY <3>1
  <2>3. RouteActions(req, t, TRUE) = RouteActions(req, t, FALSE)
    BY <2>2, ExactRoute
  <2>4. \E a : RouteActions(req, t, FALSE) = {a}
    BY <2>2, ExactRoute
  <2>5. RouteEvaluations(req, t, FALSE) = {e}
    BY <2>1, <2>3, <2>4 DEF RouteEvaluations
  <2>6. backend = "postgres" => RouteHits(cfg, req) = {t}
    BY OneMatch
  <2>7. Evaluations(cfg, req) =
          UNION {RouteEvaluations(req, u, FALSE) : u \in RouteHits(cfg, req)}
    BY <1>3 DEF Evaluated, Evaluations, DryRuns, RouteHits
  <2> QED
    BY <2>5, <2>6, <2>7
<1>4. CASE MatchedIP(cfg, req) = {} /\ MatchedRule(cfg, req) = {} /\ RouteHits(cfg, req) = {}
  BY <1>4 DEF Evaluated, Evaluations, DryRuns, RouteHits
<1> QED
  BY <1>1, <1>2, <1>3, <1>4

LEMMA DryRunIsPlatform ==
  ASSUME NEW cfg \in Configs, NEW req, NEW e \in SimulatedEvaluations(cfg, req), e.exact,
         e.reason = "route" => Outspoken(cfg, req),
         req.ticket = "none", req.clearance = "none"
  PROVE  /\ \E x \in PlatformDecisions(cfg, req) : x.action = e.action
         /\ backend = "postgres" /\ Enriched(req) = {req} =>
              \A x \in PlatformDecisions(cfg, req) : x.action = e.action
<1>1. CASE ~cfg.active
  <2>1. e = Evaluation("block", "application", Nothing, TRUE)
    BY <1>1 DEF SimulatedEvaluations
  <2>2. PlatformDecisions(cfg, req) = {Decision("block", "application", Nothing)}
    BY <1>1 DEF PlatformDecisions
  <2>3. e.action = Decision("block", "application", Nothing).action
    BY <2>1 DEF Evaluation, Decision
  <2> QED
    BY <2>2, <2>3
<1>2. CASE cfg.active /\ MatchedIP(cfg, req) # {}
  <2>1. PICK p \in MatchedIP(cfg, req) : e = Evaluation(p.action, "ip", Nothing, TRUE)
    BY <1>2 DEF SimulatedEvaluations, Evaluated, Evaluations, DryRuns, RouteHits, IPEvaluations
  <2>2. PlatformDecisions(cfg, req) = {Decision(q.action, "ip", Nothing) : q \in MatchedIP(cfg, req)}
    BY <1>2 DEF PlatformDecisions
  <2>3. backend = "postgres" => \A q \in MatchedIP(cfg, req) : q = p
    BY OneMatch
  <2>4. e.action = p.action /\ \A q : Decision(q.action, "ip", Nothing).action = q.action
    BY <2>1 DEF Evaluation, Decision
  <2> QED
    BY <2>2, <2>3, <2>4
<1>3. CASE cfg.active /\ MatchedIP(cfg, req) = {}
  <2>1. e \in DryRuns(cfg, req)
    BY <1>3 DEF SimulatedEvaluations, DryRuns
  <2>2. /\ e \in Evaluations(cfg, req)
        /\ backend = "postgres" => \A f \in Evaluations(cfg, req) : f = e
    BY <2>1, DryRunIsEvaluated
  <2> QED
    BY <1>3, <2>2, Plain
<1> QED
  BY <1>1, <1>2, <1>3

\* The dry run answers what the platform would, unless it says that counters decide or leaves that
\* unsaid of a padded mode.
THEOREM SimulationAgreement == Spec => []SimulationAgrees
<1>1. IInv => SimulationAgrees
  <2> SUFFICES ASSUME IInv, Answered("simulation"), answer.exact, ~UncountedUnsaid,
                      answer.req.ticket = "none", answer.req.clearance = "none"
               PROVE  LET actions == {d.action : d \in PlatformDecisions(config, answer.req)}
                      IN  answer.action \in actions /\ (Settled => actions = {answer.action})
    BY DEF SimulationAgrees
  <2>1. PICK e \in SimulatedEvaluations(config, answer.req) :
          answer = Answer("simulation", answer.req, Decision(e.action, e.reason, Nothing), e.exact)
    BY DEF IInv, Provenance, Answered
  <2>2. answer.action = e.action /\ e.exact /\ answer.reason = e.reason
    BY <2>1 DEF Answer, Decision
  <2>4. e.reason = "route" => Outspoken(config, answer.req)
    BY <2>2 DEF UncountedUnsaid, Outspoken, RouteHits
  <2>3. /\ \E x \in PlatformDecisions(config, answer.req) : x.action = e.action
        /\ Settled => \A x \in PlatformDecisions(config, answer.req) : x.action = e.action
    BY <2>2, <2>4, DryRunIsPlatform DEF IInv, Typed, Settled
  <2> QED
    BY <2>2, <2>3
<1> QED
  BY <1>1, Inductive, PTL

----------------------------------------------------------------------------
(* A clearance that is not honoured.                                        *)

Fields == {"path", "address", "identity", "scene", "ticket", "risk", "level", "model", "mode"}

\* Requests that differ in the clearance at most, and in none a rule tells apart.
Alike(r, s) == \A f \in Fields : r[f] = s[f]
SameToRules(cfg, r, s) == \A u \in cfg.rules : r.clearance \in u.clearances <=> s.clearance \in u.clearances

LEMMA AlikeFields ==
  ASSUME NEW r, NEW s, Alike(r, s)
  PROVE  /\ r.path = s.path /\ r.address = s.address /\ r.identity = s.identity
         /\ r.scene = s.scene /\ r.ticket = s.ticket /\ r.risk = s.risk
         /\ r.level = s.level /\ r.model = s.model /\ r.mode = s.mode
BY DEF Alike, Fields

LEMMA AlikeMatched ==
  ASSUME NEW cfg, NEW r, NEW s, Alike(r, s), SameToRules(cfg, r, s)
  PROVE  /\ MatchedIP(cfg, r) = MatchedIP(cfg, s)
         /\ MatchedRule(cfg, r) = MatchedRule(cfg, s)
         /\ RouteHits(cfg, r) = RouteHits(cfg, s)
<1>1. RolloutKey(r) = RolloutKey(s)
  BY AlikeFields DEF RolloutKey
<1>2. \A u \in cfg.rules : RuleMatches(u, r) <=> RuleMatches(u, s)
  BY <1>1, AlikeFields DEF RuleMatches, SameToRules
<1>3. MatchedIP(cfg, r) = MatchedIP(cfg, s)
  <2>1. r.address = s.address
    BY AlikeFields
  <2> QED BY <2>1 DEF MatchedIP
<1>4. {u \in cfg.rules : RuleMatches(u, r)} = {u \in cfg.rules : RuleMatches(u, s)}
  BY <1>2
<1>5. RouteHits(cfg, r) = RouteHits(cfg, s)
  BY <1>1, AlikeFields DEF RouteHits, MatchedRoute
<1> QED
  BY <1>3, <1>4, <1>5 DEF MatchedRule

LEMMA AlikeEvaluations ==
  ASSUME NEW cfg, NEW r, NEW s, Alike(r, s), SameToRules(cfg, r, s)
  PROVE  Evaluations(cfg, r) = Evaluations(cfg, s)
<1>1. IPEvaluations(cfg, r) = IPEvaluations(cfg, s)
  BY AlikeMatched DEF IPEvaluations
<1>2. \A u : RuleEvaluations(r, u, FALSE) = RuleEvaluations(s, u, FALSE)
  BY AlikeFields DEF RuleEvaluations, RuleActions, Dimensions
<1>3. EffectiveScore(r) = EffectiveScore(s)
  BY AlikeFields DEF EffectiveScore
<1>4. \A u : RiskBasedAction(r, u) = RiskBasedAction(s, u)
  BY <1>3, AlikeFields DEF RiskBasedAction
<1>5. \A u : RouteActions(r, u, FALSE) = RouteActions(s, u, FALSE)
  BY <1>4 DEF RouteActions
<1>6. \A u : RouteEvaluations(r, u, FALSE) = RouteEvaluations(s, u, FALSE)
  BY <1>5 DEF RouteEvaluations
<1>7. /\ MatchedIP(cfg, r) = MatchedIP(cfg, s)
      /\ MatchedRule(cfg, r) = MatchedRule(cfg, s)
      /\ RouteHits(cfg, r) = RouteHits(cfg, s)
  BY AlikeMatched
<1> QED
  BY <1>1, <1>2, <1>6, <1>7 DEF Evaluations, Evaluated, RouteHits

Without(req) == [req EXCEPT !.clearance = "none"]

Inferred(req, i) ==
  [req EXCEPT !.model = Clamped(i.score), !.mode = i.mode, !.level = IF @ = -1 THEN i.level ELSE @]

LEMMA WithoutAlike ==
  ASSUME NEW req \in Requests
  PROVE  /\ Alike(req, Without(req))
         /\ Without(req).clearance = "none"
         /\ \A i : /\ Alike(Inferred(req, i), Inferred(Without(req), i))
                   /\ Inferred(req, i).clearance = req.clearance
                   /\ Inferred(Without(req), i).clearance = "none"
<1>1. DOMAIN req = Fields \cup {"clearance"}
  BY PolicyAssumption DEF Fields
<1>2. Alike(req, Without(req)) /\ Without(req).clearance = "none" /\ DOMAIN Without(req) = DOMAIN req
  BY <1>1 DEF Alike, Without, Fields
<1>3. ASSUME NEW i PROVE Alike(Inferred(req, i), Inferred(Without(req), i))
  <2>1. Without(req).level = req.level
    BY <1>2, AlikeFields
  <2>2. ASSUME NEW f \in Fields PROVE Inferred(req, i)[f] = Inferred(Without(req), i)[f]
    BY <1>1, <1>2, <2>1 DEF Inferred, Alike, Fields
  <2> QED
    BY <2>2 DEF Alike
<1>4. ASSUME NEW i
      PROVE  Inferred(req, i).clearance = req.clearance /\ Inferred(Without(req), i).clearance = "none"
  BY <1>1, <1>2 DEF Inferred
<1> QED
  BY <1>2, <1>3, <1>4

LEMMA InferredAlike ==
  ASSUME NEW req \in Requests, NEW r \in Enriched(req)
  PROVE  \E s \in Enriched(Without(req)) :
           Alike(r, s) /\ r.clearance = req.clearance /\ s.clearance = "none"
<1>1. CASE r = req
  BY <1>1, WithoutAlike DEF Enriched
<1>2. ASSUME NEW i \in Inferences, req.model = 0, req.mode = "", r = Inferred(req, i)
      PROVE  \E s \in Enriched(Without(req)) :
               Alike(r, s) /\ r.clearance = req.clearance /\ s.clearance = "none"
  <2>1. Without(req).model = 0 /\ Without(req).mode = ""
    BY <1>2, WithoutAlike, AlikeFields
  <2>2. Inferred(Without(req), i) \in Enriched(Without(req))
    BY <2>1 DEF Enriched, Inferred
  <2> QED
    BY <1>2, <2>2, WithoutAlike
<1>3. r = req \/ \E i \in Inferences : req.model = 0 /\ req.mode = "" /\ r = Inferred(req, i)
  BY DEF Enriched, Inferred
<1> QED
  BY <1>1, <1>2, <1>3

LEMMA PlatformShape ==
  ASSUME NEW cfg, NEW req, NEW d \in PlatformDecisions(cfg, req)
  PROVE  \E action, reason, session : d = Decision(action, reason, session)
<1>1. CASE d \in ForcedDecisions(cfg, req)
  BY <1>1 DEF ForcedDecisions, WithSession
<1>2. CASE d \in OrdinaryDecisions(cfg, req)
  BY <1>2 DEF OrdinaryDecisions, WithSession
<1> QED
  BY <1>1, <1>2 DEF PlatformDecisions

LEMMA JunkIsNone ==
  ASSUME NEW cfg \in Configs, NEW req \in Requests, req.clearance = "invalid",
         Forcing(cfg, req) = {}, \A u \in cfg.rules : ~ReadsJunk(u),
         NEW d \in PlatformDecisions(cfg, req)
  PROVE  d \in PlatformDecisions(cfg, Without(req))
<1> DEFINE bare == Without(req)
<1>1. Alike(req, bare) /\ bare.clearance = "none"
  BY WithoutAlike
<1>2. bare.ticket = req.ticket /\ bare.scene = req.scene
  BY <1>1, AlikeFields
<1>8. ASSUME NEW r, NEW s, r.clearance = "invalid", s.clearance = "none"
      PROVE  SameToRules(cfg, r, s)
  BY <1>8 DEF SameToRules, ReadsJunk
<1>3. MatchedIP(cfg, bare) = MatchedIP(cfg, req)
  BY <1>1, <1>8, AlikeMatched
<1>4. Forcing(cfg, bare) = {} /\ ForcedDecisions(cfg, bare) = {} /\ ~OverrideCertain(cfg, bare)
  BY <1>1 DEF Forcing, ForcedDecisions, OverrideCertain
<1>5. ForcedDecisions(cfg, req) = {}
  BY DEF ForcedDecisions
<1>6. ASSUME d \in OrdinaryDecisions(cfg, req) PROVE d \in OrdinaryDecisions(cfg, bare)
  <2>1. \E r \in Enriched(req) : \E e \in Evaluated(cfg, r, FALSE) : d = WithSession(req, e)
    BY <1>6 DEF OrdinaryDecisions
  <2>2. PICK r \in Enriched(req) : \E e \in Evaluated(cfg, r, FALSE) : d = WithSession(req, e)
    BY <2>1
  <2>3. PICK e \in Evaluated(cfg, r, FALSE) : d = WithSession(req, e)
    BY <2>2
  <2>4. PICK s \in Enriched(bare) : Alike(r, s) /\ r.clearance = req.clearance /\ s.clearance = "none"
    BY InferredAlike
  <2>5. Evaluations(cfg, r) = Evaluations(cfg, s)
    BY <1>8, <2>4, AlikeEvaluations
  <2>6. e \in Evaluated(cfg, s, FALSE)
    BY <2>3, <2>5 DEF Evaluations
  <2>7. WithSession(bare, e) = WithSession(req, e)
    BY <1>2 DEF WithSession, SceneOn
  <2> QED
    BY <1>1, <2>3, <2>4, <2>6, <2>7 DEF OrdinaryDecisions
<1> HIDE DEF bare
<1>7. d \in PlatformDecisions(cfg, bare)
  BY <1>2, <1>3, <1>4, <1>5, <1>6 DEF PlatformDecisions
<1> QED
  BY <1>7 DEF bare

\* A clearance the store does not honour changes nothing, unless the route forces a challenge or a
\* rule's conditions tell it from none.
THEOREM JunkClearance == Spec => []JunkClearanceInert
<1>1. IInv => JunkClearanceInert
  <2> SUFFICES ASSUME IInv, Answered("platform"), answer.req.clearance = "invalid",
                      Forcing(config, answer.req) = {}, \A r \in config.rules : ~ReadsJunk(r)
               PROVE  Decision(answer.action, answer.reason, answer.session)
                        \in PlatformDecisions(config, Without(answer.req))
    BY DEF JunkClearanceInert, Without
  <2>1. PICK d \in PlatformDecisions(config, answer.req) : answer = Answer("platform", answer.req, d, TRUE)
    BY DEF IInv, Provenance, Answered
  <2>2. d = Decision(answer.action, answer.reason, answer.session)
    <3>1. PICK a, r, session : d = Decision(a, r, session)
      BY <2>1, PlatformShape
    <3>2. answer.action = d.action /\ answer.reason = d.reason /\ answer.session = d.session
      BY <2>1 DEF Answer
    <3> QED
      BY <3>1, <3>2, DecisionFields
  <2> QED
    BY <2>2, JunkIsNone DEF IInv, Typed, Provenance, Answered
<1> QED
  BY <1>1, Inductive, PTL

----------------------------------------------------------------------------
(* RateLimit.  What is stored, on its way and in the log.                   *)

Kinds == {"fixed_window", "sliding_window", "token_bucket"}
Epochs == {None} \cup Nat

InFlight ==
  [nr : Nat, arrived : Times, now : Times, how : Kinds, attempt : 0..2, tokens : 0..Full, refill : Times,
   answer : Nat, epoch : Epochs, alone : BOOLEAN, window : Times, lapsed : BOOLEAN]
Logged ==
  [nr : Nat, arrived : Times, decided : Times, how : Kinds, over : BOOLEAN, epoch : Epochs,
   alone : BOOLEAN, window : Times, lapsed : BOOLEAN]
StoredHits == [nr : Nat, at : Times]
Keys ==
  [kind : {"none", "string", "zset", "hash"}, count : Nat, scores : SUBSET StoredHits,
   tokens : 0..Full, refill : Times, expires : {None} \cup 0..(MaxClock + 2 * Window), born : Times]
Counters ==
  [start : {None} \cup Times, count : Nat, hits : SUBSET StoredHits, tokens : 0..Full,
   refill : {None} \cup Times]
Places ==
  {"idle", "locked", "incr", "expire", "evict", "add", "count", "renew", "watch", "delete", "exec"}

LimiterTyped ==
  /\ store \in {"memory", "redis"} /\ strategy \in Strategies
  /\ clock \in Times /\ faults \in Nat /\ switches \in Nat
  /\ entry \in Keys /\ counter \in Counters
  /\ pc \in [Servers -> Places]
  /\ local \in [Servers -> InFlight]
  /\ broken \subseteq Servers
  /\ log \in Seq(Logged)

\* Where a request is says how it is counted.
PlacedAt(how) ==
  CASE how = "fixed_window" -> {"incr", "expire"}
    [] how = "sliding_window" -> {"evict", "add", "count", "renew"}
    [] OTHER -> {"watch", "delete", "exec"}
RequestsPlaced ==
  \A s \in Busy :
    /\ pc[s] \in IF store = "memory" THEN {"locked"} ELSE PlacedAt(local[s].how)
    /\ pc[s] = "expire" => local[s].answer = 1
OneStore ==
  /\ store = "memory" => entry = Absent
  /\ store = "redis" => counter = NoCounter

\* Nothing lies in the future.
PastRequests ==
  /\ \A s \in Busy : local[s].arrived <= local[s].now /\ local[s].now <= clock /\ local[s].window <= clock
  /\ \A i \in DOMAIN log :
       log[i].arrived <= log[i].decided /\ log[i].decided <= clock /\ log[i].window <= log[i].decided
Keyed(e) ==
  /\ e.born <= clock /\ e.refill <= clock
  /\ e.expires # None => e.expires <= clock + 2 * Window
  /\ e.kind = "none" => e = Absent
  /\ e.kind = "string" => e.count > 0 /\ (e.expires # None => e.born + Window <= e.expires)
  /\ e.kind = "hash" => e.expires # None
  /\ e.kind # "zset" => e.scores = {}
PastKeys ==
  /\ Keyed(entry)
  /\ counter.start # None => counter.start <= clock
  /\ counter.refill # None => counter.refill <= clock

RoomKept == Len(log) + Cardinality(Busy) <= MaxHits

\* Nothing is counted that is not in the log or on its way there.
Bounded ==
  /\ entry.count <= Len(log) + Cardinality({s \in Servers : pc[s] = "expire"})
  /\ counter.count <= Limit + Len(log)

\* Every request has a number of its own.
Arrivals == Len(log) + Cardinality(Busy)
Numbered ==
  /\ \A s \in Busy : local[s].nr \in 1..Arrivals
  /\ \A i \in DOMAIN log : log[i].nr \in 1..Arrivals
  /\ \A s, t \in Busy : local[s].nr = local[t].nr => s = t
  /\ \A i, j \in DOMAIN log : log[i].nr = log[j].nr => i = j
  /\ \A s \in Busy, i \in DOMAIN log : local[s].nr # log[i].nr

\* Whose hits there may be, and until when they were taken.
InKey == {s \in Servers : pc[s] \in {"count", "renew"}}
Owners ==
  {<<log[i].nr, log[i].decided>> : i \in DOMAIN log} \cup {<<local[s].nr, local[s].now>> : s \in InKey}
HitsIn(hits, owners) ==
  /\ IsFiniteSet(hits)
  /\ \A h \in hits : \E o \in owners : o[1] = h.nr /\ h.at <= o[2]
  /\ \A g, h \in hits : g.nr = h.nr => g = h
HitsLogged ==
  HitsIn(entry.scores, Owners) /\ HitsIn(counter.hits, Owners) /\ Cardinality(counter.hits) <= Len(log)

\* The requests of this change of strategy that met nothing of another.
Counted == {i \in DOMAIN log : log[i].epoch = switches}
Fresh == {s \in Busy : local[s].epoch = switches}
StrategySettled ==
  /\ \A i \in DOMAIN log : log[i].epoch \in {None} \cup 0..switches
  /\ \A s \in Busy : local[s].epoch \in {None} \cup 0..switches
  /\ Counted # {} \/ Fresh # {} => Pure
  /\ \A i \in Counted : log[i].how = strategy
  /\ switches = 0 => Pure /\ Counted = DOMAIN log /\ Fresh = Busy

AllAlone == store = "memory" \/ \A i \in DOMAIN log : log[i].alone

\* The keys.
KeysLive ==
  entry.kind = "string" /\ entry.expires = None /\ faults = 0 => \E s \in Servers : pc[s] = "expire"

\* Who overlaps with nobody finds the key as it was left.
AloneAt(s) ==
  /\ pc[s] = "exec" =>
       /\ s \notin broken
       /\ \/ /\ entry.kind = "hash" /\ entry.expires > local[s].now
             /\ local[s].tokens = entry.tokens /\ local[s].refill = entry.refill
          \/ /\ local[s].tokens = Full /\ local[s].refill = local[s].now
             /\ entry.kind # "hash" \/ entry.expires <= clock
  /\ pc[s] = "expire" /\ switches = 0 =>
       /\ entry.kind = "string" /\ entry.count = 1 /\ entry.expires = None
       /\ entry.born = local[s].window
  /\ pc[s] \in {"add", "count"} => \A h \in Entry.scores : h.at > local[s].now - Window
  /\ pc[s] = "renew" =>
       local[s].answer <= 1 + Cardinality({i \in DOMAIN log : log[i].decided > local[s].now - Window})
AloneHolds ==
  \A s \in Busy : local[s].alone =>
    /\ Busy = {s}
    /\ \A i \in DOMAIN log : log[i].decided <= local[s].arrived
    /\ AloneAt(s)

OrderInv ==
  /\ LimiterTyped /\ RequestsPlaced /\ OneStore /\ PastRequests /\ PastKeys /\ RoomKept /\ Bounded
  /\ Numbered /\ HitsLogged /\ StrategySettled /\ KeysLive /\ AloneHolds

----------------------------------------------------------------------------
(* Sliding windows.                                                         *)

HitsNow == IF store = "memory" THEN counter.hits ELSE Entry.scores
HitKept(nr, from) == \E h \in HitsNow : h.nr = nr /\ h.at >= from

\* Hits are there while they are recent, but for those that went with the key.
SlidingKept ==
  faults = 0 =>
    /\ \A i \in Counted :
         log[i].how = "sliding_window" /\ ~log[i].lapsed /\ log[i].arrived + Window > clock =>
           /\ HitKept(log[i].nr, log[i].arrived)
           /\ store = "redis" => entry.expires # None /\ entry.expires >= log[i].decided + Window
    /\ \A s \in Fresh \cap InKey :
         ~local[s].lapsed /\ local[s].arrived + Window > clock => HitKept(local[s].nr, local[s].arrived)
    /\ \A s \in Fresh : pc[s] \in {"add", "count"} => local[s].answer = 0

\* Who arrived from a on and has passed, or is about to.
Allowed(a) ==
  {log[i].nr : i \in {j \in Counted : /\ log[j].how = "sliding_window" /\ ~log[j].over /\ ~log[j].lapsed
                                     /\ a <= log[j].arrived}}
  \cup {local[s].nr : s \in {t \in Fresh : /\ pc[t] = "renew" /\ local[t].answer <= Limit
                                          /\ ~local[t].lapsed /\ a <= local[t].arrived}}
SlidingLimited ==
  faults = 0 => \A a \in Times : a + Window > clock =>
    IsFiniteSet(Allowed(a)) /\ Cardinality(Allowed(a)) <= Limit

----------------------------------------------------------------------------
(* Fixed windows.                                                           *)

Passing(w) ==
  {i \in Counted : log[i].how = "fixed_window" /\ ~log[i].over /\ log[i].window = w}
Pending(w) == {s \in Fresh : pc[s] = "expire" /\ local[s].window = w}
Passes(w) == Cardinality(Passing(w)) + Cardinality(Pending(w))

\* A request that arrived at a was, or is, let through in the window of w.
Passed(w, a) ==
  \/ \E i \in Passing(w) : log[i].arrived = a
  \/ \E s \in Pending(w) : local[s].arrived = a

Running == IF store = "memory" THEN counter.start # None ELSE entry.kind = "string"
Born == IF store = "memory" THEN counter.start ELSE entry.born
Count == IF store = "memory" THEN counter.count ELSE entry.count

Before(v, a, w) == v + Window <= w /\ a <= w

FixedKept ==
  faults = 0 =>
    /\ \A w \in Times : Passes(w) <= Limit
    /\ Running => Passes(Born) <= Count
    /\ \A w, a \in Times : Passed(w, a) => Running /\ (w = Born \/ Before(w, a, Born))
    /\ \A v, w, a, b \in Times :
         Passed(v, a) /\ Passed(w, b) => v = w \/ Before(v, a, w) \/ Before(w, b, v)

\* Without another strategy, everything the window counts was let through, or
\* stopped.
FixedFull ==
  faults = 0 /\ switches = 0 /\ strategy = "fixed_window" /\ Running =>
    /\ Passes(Born) >= Count \/ Passes(Born) >= Limit
    /\ store = "redis" /\ AllAlone /\ entry.expires # None =>
         /\ entry.expires <= clock + Window
         /\ \A i \in Passing(Born) : log[i].decided + Window >= entry.expires

----------------------------------------------------------------------------
(* Token buckets.                                                           *)

TokensAt(c) ==
  IF store = "memory"
  THEN IF counter.refill = None THEN Full ELSE Refilled(counter.tokens, counter.refill, c)
  ELSE IF entry.kind # "hash" \/ entry.expires <= c THEN Full
  ELSE Refilled(entry.tokens, entry.refill, c)

Spenders(a) ==
  {i \in Counted : log[i].how = "token_bucket" /\ ~log[i].over /\ a <= log[i].arrived}
SpentSince(x) == {i \in DOMAIN log : ~log[i].over /\ log[i].decided > x}
Latest(c) == \A i \in DOMAIN log : log[i].decided <= c

BucketKept ==
  faults = 0 /\ AllAlone =>
    /\ \A a, c \in Times : a <= c /\ Latest(c) =>
         Cardinality(Spenders(a)) * Window + TokensAt(c) <= Full + (c - a) * Limit
    /\ store = "redis" /\ strategy = "token_bucket" /\ Counted # {} =>
         /\ entry.kind = "hash"
         /\ \A i \in DOMAIN log : log[i].decided + 2 * Window <= entry.expires

BucketFull ==
  faults = 0 /\ AllAlone /\ switches = 0 /\ strategy = "token_bucket" =>
    \A c \in Times, x \in (-Window)..MaxClock : x <= c /\ Latest(c) =>
      LET sum == Cardinality(SpentSince(x)) * Window + TokensAt(c)
      IN  sum >= Full \/ sum >= (c - x) * Limit

LimiterInv ==
  /\ OrderInv /\ SlidingKept /\ SlidingLimited /\ FixedKept /\ FixedFull /\ BucketKept /\ BucketFull
  /\ SlidingWindowHolds /\ TokenBucketHolds /\ StoppedForHits

----------------------------------------------------------------------------
(* Numbers.                                                                 *)

\* The arithmetic of Limit and Window that the leaves need.
LEMMA Numbers ==
  /\ Full \in Nat /\ Window <= Full /\ Limit \in Nat /\ Limit >= 1 /\ Window \in Nat /\ Window >= 1
  /\ \A x, y \in Int : x * Limit \in Int /\ (x + y) * Limit = x * Limit + y * Limit
  /\ \A x \in Nat : x * Limit \in Nat
  /\ Window * Limit = Full /\ 0 * Limit = 0
<1>1. Limit \in Nat /\ Limit >= 1 /\ Window \in Nat /\ Window >= 1
  BY RateAssumption
<1>2. Full \in Nat /\ Window <= Full /\ Window * Limit = Full
  BY <1>1 DEF Full
<1> QED BY <1>1, <1>2

\* A request passes by a token that is there.
LEMMA TokenCounts ==
  ASSUME NEW k \in 0..Full
  PROVE  TokenCount(k) \in 1..(Limit + 1) /\ (TokenCount(k) <= Limit <=> k >= Window)
<1>1. CASE k < Window
  BY <1>1, Numbers DEF TokenCount
<1>2. CASE k >= Window
  <2> DEFINE used == Full - (k - Window)
  <2>1. used \in Nat /\ used <= Full
    BY <1>2, Numbers
  <2>2. used + Window - 1 \in Nat /\ used + Window - 1 < (Limit + 1) * Window
    BY <2>1, Numbers DEF Full
  <2>3. CeilDiv(used, Window) \in Nat /\ CeilDiv(used, Window) <= Limit
    <3> DEFINE n == used + Window - 1
    <3>1. n \in Nat /\ n < (Limit + 1) * Window /\ Window \in Nat /\ Window >= 1 /\ Limit \in Nat
      BY <2>2, Numbers
    <3> HIDE DEF n
    <3>2. n \div Window \in Nat /\ n \div Window < Limit + 1
      BY <3>1, Z3
    <3> QED BY <3>2, Numbers DEF n, CeilDiv
  <2> HIDE DEF used
  <2>4. TokenCount(k) = IF CeilDiv(used, Window) < 1 THEN 1 ELSE CeilDiv(used, Window)
    BY <1>2, Numbers DEF TokenCount, used
  <2> QED BY <1>2, <2>3, <2>4, Numbers
<1> QED BY <1>1, <1>2, Numbers

\* A bucket is never over full, and a count never over the limit by more than one.
LEMMA RefilledType ==
  ASSUME NEW tokens \in 0..Full, NEW refill \in Nat, NEW now \in Nat
  PROVE  /\ Refilled(tokens, refill, now) \in 0..Full
         /\ Taken(Refilled(tokens, refill, now)) \in 0..Full
         /\ TokenCount(Refilled(tokens, refill, now)) \in 1..(Limit + 1)
<1>1. Refilled(tokens, refill, now) \in 0..Full
  <2>1. now > refill => (now - refill) * Limit \in Nat
    BY Numbers
  <2> QED BY <2>1, Numbers DEF Refilled
<1>2. \A k \in 0..Full : Taken(k) \in 0..Full
  BY Numbers DEF Taken
<1> QED BY <1>1, <1>2, TokenCounts

\* What is counted leaves no more than it passes.
LEMMA EntryType ==
  ASSUME LimiterTyped
  PROVE  /\ Entry \in Keys
         /\ Entry = Absent \/ Entry = entry
         /\ Entry.expires # None => Entry.expires > clock
         /\ entry.expires # None => entry.expires \in Nat
         /\ Absent.kind = "none" /\ Absent.expires = None
         /\ Absent \in Keys
<1>1. Absent \in Keys
  BY Numbers, RateAssumption DEF Absent, Times, Keys
<1> QED BY <1>1, RateAssumption DEF Entry, LimiterTyped, Absent, Times, Keys

----------------------------------------------------------------------------
(* Requests come, go on and end.                                            *)

\* A request ends and is logged, or goes on at another place.
Ends(s, n, w) ==
  /\ s \in Servers /\ pc[s] # "idle" /\ n \in Nat /\ w \in Times /\ w <= clock
  /\ Len(log) \in Nat /\ Len(log') = Len(log) + 1
  /\ DOMAIN log = 1..Len(log) /\ DOMAIN log' = 1..(Len(log) + 1)
  /\ log' \in Seq(Logged)
  /\ \A i \in DOMAIN log : log'[i] = log[i]
  /\ log'[Len(log) + 1] \in Logged
  /\ log'[Len(log) + 1].arrived = local[s].arrived /\ log'[Len(log) + 1].decided = clock
  /\ log'[Len(log) + 1].how = local[s].how /\ (log'[Len(log) + 1].over <=> n > Limit)
  /\ log'[Len(log) + 1].epoch = local[s].epoch /\ log'[Len(log) + 1].alone = local[s].alone
  /\ log'[Len(log) + 1].window = w
  /\ log'[Len(log) + 1].nr = local[s].nr /\ log'[Len(log) + 1].lapsed = local[s].lapsed
  /\ pc' \in [Servers -> Places]
  /\ local' \in [Servers -> InFlight]
  /\ pc'[s] = "idle" /\ \A t \in Servers \ {s} : pc'[t] = pc[t] /\ local'[t] = local[t]
  /\ Busy' = Busy \ {s}

Goes(s, place, rec) ==
  /\ s \in Servers /\ pc[s] # "idle" /\ log' = log
  /\ pc' \in [Servers -> Places]
  /\ local' \in [Servers -> InFlight]
  /\ pc'[s] = place /\ local'[s] = rec /\ \A t \in Servers \ {s} : pc'[t] = pc[t] /\ local'[t] = local[t]
  /\ Busy' = Busy
  /\ rec.arrived = local[s].arrived /\ rec.how = local[s].how /\ rec.epoch = local[s].epoch
  /\ rec.alone = local[s].alone /\ rec.nr = local[s].nr /\ rec.lapsed = local[s].lapsed

LEMMA IdleTyped == Idle \in InFlight
  BY RateAssumption, Numbers DEF Idle, InFlight, Kinds, Epochs, Times

\* AnswerCount ends a request, Goto sends it on.
LEMMA Ended ==
  ASSUME LimiterTyped, NEW s \in Servers, pc[s] # "idle", NEW n \in Nat, NEW w \in Times, w <= clock,
         AnswerCount(s, n, w)
  PROVE  Ends(s, n, w)
<1> DEFINE o == n > Limit
           e == [nr |-> local[s].nr, arrived |-> local[s].arrived, decided |-> clock, how |-> local[s].how,
                 over |-> o, epoch |-> local[s].epoch, alone |-> local[s].alone, window |-> w,
                 lapsed |-> local[s].lapsed]
<1>1. log' = Append(log, e) /\ o \in BOOLEAN /\ (o <=> n > Limit)
  BY DEF AnswerCount, OverLimit
<1> HIDE DEF o
<1>2. /\ e \in Logged /\ log \in Seq(Logged)
      /\ e.arrived = local[s].arrived /\ e.decided = clock /\ e.how = local[s].how /\ (e.over <=> n > Limit)
      /\ e.epoch = local[s].epoch /\ e.alone = local[s].alone /\ e.window = w
      /\ e.nr = local[s].nr /\ e.lapsed = local[s].lapsed
  BY <1>1 DEF LimiterTyped, InFlight, Logged
<1> HIDE DEF e
<1>3. /\ Len(log) \in Nat /\ Len(log') = Len(log) + 1 /\ DOMAIN log = 1..Len(log)
      /\ DOMAIN log' = 1..(Len(log) + 1) /\ log' \in Seq(Logged)
      /\ (\A i \in DOMAIN log : log'[i] = log[i]) /\ log'[Len(log) + 1] = e
  BY <1>1, <1>2
<1>4. /\ pc' \in [Servers -> Places]
      /\ local' \in [Servers -> InFlight]
      /\ pc'[s] = "idle" /\ \A t \in Servers \ {s} : pc'[t] = pc[t] /\ local'[t] = local[t]
  BY IdleTyped DEF AnswerCount, LimiterTyped, Places
<1>5. Busy' = Busy \ {s}
  BY <1>4 DEF Busy
<1> QED BY <1>2, <1>3, <1>4, <1>5 DEF Ends

LEMMA Gone ==
  ASSUME LimiterTyped, NEW s \in Servers, pc[s] # "idle", NEW rec \in InFlight,
         NEW place \in Places \ {"idle"}, Goto(s, place, rec),
         rec.arrived = local[s].arrived, rec.how = local[s].how, rec.epoch = local[s].epoch,
         rec.alone = local[s].alone, rec.nr = local[s].nr, rec.lapsed = local[s].lapsed
  PROVE  Goes(s, place, rec)
<1>1. /\ pc' \in [Servers -> Places]
      /\ local' \in [Servers -> InFlight] /\ log' = log
      /\ pc'[s] = place /\ local'[s] = rec /\ \A t \in Servers \ {s} : pc'[t] = pc[t] /\ local'[t] = local[t]
  BY DEF Goto, LimiterTyped
<1>2. Busy' = Busy
  BY <1>1 DEF Busy
<1> QED BY <1>1, <1>2 DEF Goes

\* As many requests are under way as there are servers at most.
LEMMA BusyFinite ==
  ASSUME LimiterTyped
  PROVE  /\ IsFiniteSet(Busy) /\ Cardinality(Busy) \in Nat
         /\ \A t : IsFiniteSet(Busy \cup {t}) /\ IsFiniteSet(Busy \ {t})
         /\ \A t \in Busy : Cardinality(Busy \ {t}) = Cardinality(Busy) - 1
         /\ \A t \in Servers \ Busy : Cardinality(Busy \cup {t}) = Cardinality(Busy) + 1
<1>1. IsFiniteSet(Busy)
  BY RateAssumption, FS_Subset DEF Busy
<1> QED BY <1>1, FS_CardinalityType, FS_AddElement, FS_RemoveElement

\* There are no more of those that are told apart than of what tells them apart.
LEMMA Fewer ==
  ASSUME NEW A, NEW B, IsFiniteSet(B), NEW f \in [A -> B], \A x, y \in A : f[x] = f[y] => x = y
  PROVE  IsFiniteSet(A) /\ Cardinality(A) <= Cardinality(B)
<1>1. f \in Injection(A, B)
  BY DEF Injection, IsInjective
<1> QED BY <1>1, FS_Injection

----------------------------------------------------------------------------
(* What holds of every step of a server.                                    *)

\* The strategy the requests since the last change of it agree on.
LEMMA SettledHow ==
  ASSUME LimiterTyped, StrategySettled, NEW s \in Busy, Counted # {} \/ s \in Fresh
  PROVE  local[s].how = strategy /\ ~WrongType(strategy) /\ ~WrongType(local[s].how)
  BY DEF StrategySettled, Pure

\* Who ends is counted where it was fresh.
LEMMA EndsCounted ==
  ASSUME LimiterTyped, NEW s, NEW n, NEW w, Ends(s, n, w), UNCHANGED switches
  PROVE  /\ Counted' = Counted \cup (IF s \in Fresh THEN {Len(log) + 1} ELSE {})
         /\ Len(log) + 1 \notin DOMAIN log
         /\ Fresh' = Fresh \ {s}
<1>1. s \in Busy /\ Len(log) + 1 \notin DOMAIN log
  BY DEF Ends, Busy
<1>2. Counted' = Counted \cup (IF s \in Fresh THEN {Len(log) + 1} ELSE {})
  BY <1>1 DEF Ends, Counted, Fresh
<1>3. Fresh' = Fresh \ {s}
  BY <1>1 DEF Ends, Fresh, Busy
<1> QED BY <1>1, <1>2, <1>3

\* An answer, or a request that goes on, leaves the change of strategy as it was.
LEMMA EndsSettled ==
  ASSUME LimiterTyped, StrategySettled, NEW s, NEW n, NEW w, Ends(s, n, w), UNCHANGED <<strategy, switches>>,
         Pure /\ local[s].how = strategy => ~WrongType(strategy)'
  PROVE  StrategySettled'
<1>1. /\ Counted' = Counted \cup (IF s \in Fresh THEN {Len(log) + 1} ELSE {})
      /\ Fresh' = Fresh \ {s}
  BY EndsCounted
<1>2. s \in Busy /\ Busy' = Busy \ {s}
  BY DEF Ends, Busy
<1>3. \A i \in DOMAIN log' : log'[i].epoch \in {None} \cup 0..switches'
  BY <1>2 DEF Ends, StrategySettled
<1>4. \A t \in Busy' : local'[t].epoch \in {None} \cup 0..switches'
  BY <1>2 DEF Ends, StrategySettled, Busy
<1>5. Pure => Pure'
  BY <1>2 DEF Ends, Pure, Busy
<1>6. Counted' # {} \/ Fresh' # {} => Pure'
  BY <1>1, <1>5 DEF StrategySettled
<1>7. \A i \in Counted' : log'[i].how = strategy'
  <2> SUFFICES ASSUME NEW i \in Counted' PROVE log'[i].how = strategy'
    OBVIOUS
  <2>1. CASE i \in Counted
    BY <2>1 DEF StrategySettled, Ends, Counted
  <2>2. CASE i \notin Counted
    <3>1. s \in Fresh /\ i = Len(log) + 1
      BY <1>1, <2>2
    <3>2. local[s].how = strategy
      BY <1>2, <3>1, SettledHow
    <3> QED BY <3>1, <3>2 DEF Ends
  <2> QED BY <2>1, <2>2
<1>8. switches' = 0 => Pure' /\ Counted' = DOMAIN log' /\ Fresh' = Busy'
  BY <1>1, <1>2, <1>5 DEF StrategySettled, Ends
<1> QED BY <1>3, <1>4, <1>6, <1>7, <1>8 DEF StrategySettled

LEMMA GoesCounted ==
  ASSUME LimiterTyped, NEW s, NEW place, NEW rec, Goes(s, place, rec), place # "idle", UNCHANGED switches
  PROVE  Counted' = Counted /\ Fresh' = Fresh
<1>1. Counted' = Counted
  BY DEF Goes, Counted
<1>2. Fresh' = Fresh
  BY DEF Goes, Fresh, Busy
<1> QED BY <1>1, <1>2

LEMMA GoesSettled ==
  ASSUME LimiterTyped, StrategySettled, NEW s, NEW place, NEW rec, Goes(s, place, rec), place # "idle",
         UNCHANGED <<strategy, switches>>,
         Pure /\ local[s].how = strategy => ~WrongType(strategy)' /\ place # "delete"
  PROVE  StrategySettled'
<1>1. Counted' = Counted /\ Fresh' = Fresh
  BY GoesCounted
<1>2. s \in Busy /\ Busy' = Busy
  BY DEF Goes, Busy
<1>3. \A t \in Busy' : local'[t].epoch = local[t].epoch /\ local'[t].how = local[t].how
  BY <1>2 DEF Goes, Busy
<1>4. \A t \in Busy' : pc'[t] = "delete" => pc[t] = "delete" \/ (t = s /\ place = "delete")
  BY <1>2 DEF Goes, Busy
<1>5. Pure => Pure'
  BY <1>2, <1>3, <1>4 DEF Pure
<1> QED BY <1>1, <1>2, <1>3, <1>5 DEF StrategySettled, Goes

\* An answer leaves the other requests as they were.
LEMMA EndsRequests ==
  ASSUME LimiterTyped, RequestsPlaced, PastRequests, RoomKept, AloneHolds,
         NEW s, NEW n, NEW w, Ends(s, n, w), UNCHANGED <<store, clock>>
  PROVE  /\ RequestsPlaced' /\ PastRequests' /\ RoomKept' /\ AloneHolds'
         /\ Cardinality({t \in Servers : pc'[t] = "expire"}) =
              Cardinality({t \in Servers : pc[t] = "expire"}) - (IF pc[s] = "expire" THEN 1 ELSE 0)
<1>1. s \in Busy /\ Busy' = Busy \ {s}
  BY DEF Ends, Busy
<1>2. \A t \in Busy' : pc'[t] = pc[t] /\ local'[t] = local[t]
  BY <1>1 DEF Ends, Busy
<1>3. RequestsPlaced'
  BY <1>1, <1>2 DEF RequestsPlaced, PlacedAt
<1>4. PastRequests'
  <2>1. \A t \in Busy' : local'[t].arrived <= local'[t].now /\ local'[t].now <= clock' /\ local'[t].window <= clock'
    BY <1>1, <1>2 DEF PastRequests
  <2>2. local[s] \in InFlight /\ local[s].arrived <= clock /\ clock \in Nat
    BY <1>1, RateAssumption DEF PastRequests, LimiterTyped, InFlight, Times, Busy
  <2>3. \A i \in DOMAIN log' : log'[i].arrived <= log'[i].decided /\ log'[i].decided <= clock' /\ log'[i].window <= log'[i].decided
    <3> SUFFICES ASSUME NEW i \in DOMAIN log'
                 PROVE  log'[i].arrived <= log'[i].decided /\ log'[i].decided <= clock' /\ log'[i].window <= log'[i].decided
      OBVIOUS
    <3>1. CASE i \in DOMAIN log
      BY <3>1 DEF Ends, PastRequests
    <3>2. CASE i = Len(log) + 1
      BY <2>2, <3>2 DEF Ends
    <3> QED BY <3>1, <3>2 DEF Ends
  <2> QED BY <2>1, <2>3 DEF PastRequests
<1>5. RoomKept'
  BY <1>1, BusyFinite, RateAssumption DEF RoomKept, Ends
<1>6. AloneHolds'
  BY <1>1, <1>2 DEF AloneHolds
<1>7. Cardinality({t \in Servers : pc'[t] = "expire"}) =
        Cardinality({t \in Servers : pc[t] = "expire"}) - (IF pc[s] = "expire" THEN 1 ELSE 0)
  <2> DEFINE E == {t \in Servers : pc[t] = "expire"}
  <2>1. {t \in Servers : pc'[t] = "expire"} = E \ {s}
    BY DEF Ends
  <2>2. IsFiniteSet(E) /\ (s \in E <=> pc[s] = "expire")
    BY RateAssumption, FS_Subset DEF Ends
  <2> HIDE DEF E
  <2>3. Cardinality(E) \in Nat /\ Cardinality(E \ {s}) = IF s \in E THEN Cardinality(E) - 1 ELSE Cardinality(E)
    BY <2>2, FS_RemoveElement, FS_CardinalityType
  <2>4. Cardinality(E \ {s}) = Cardinality(E) - (IF pc[s] = "expire" THEN 1 ELSE 0)
    BY <2>2, <2>3
  <2> QED BY <2>1, <2>4 DEF E
<1> QED BY <1>3, <1>4, <1>5, <1>6, <1>7

\* The owners of hits are told later or not at all.
Later(owners, after) ==
  \A o \in owners : o[2] \in Nat /\ \E p \in after : p[1] = o[1] /\ p[2] \in Nat /\ o[2] <= p[2]

\* Numbers stay with their requests, and a hit with the request that took it.
LEMMA OwnersTyped ==
  ASSUME LimiterTyped
  PROVE  \A o \in Owners : o[1] \in Nat /\ o[2] \in Nat
<1>1. Times \subseteq Nat /\ \A i \in DOMAIN log : log[i] \in Logged
  BY RateAssumption DEF Times, LimiterTyped
<1>2. \A i \in DOMAIN log : log[i].nr \in Nat /\ log[i].decided \in Nat
  BY <1>1 DEF Logged
<1>3. \A s \in Servers : local[s].nr \in Nat /\ local[s].now \in Nat
  BY <1>1 DEF LimiterTyped, InFlight
<1> QED BY <1>2, <1>3 DEF Owners, InKey

LEMMA EndsNumbered ==
  ASSUME LimiterTyped, PastRequests, Numbered, NEW s, NEW n, NEW w, Ends(s, n, w), UNCHANGED clock
  PROVE  /\ Numbered' /\ Arrivals' = Arrivals
         /\ Later(Owners, Owners')
<1>1. s \in Busy /\ Busy' = Busy \ {s} /\ clock \in Nat /\ local[s] \in InFlight
      /\ DOMAIN log' = DOMAIN log \cup {Len(log) + 1}
  BY RateAssumption DEF Ends, Busy, LimiterTyped, Times
<1>2. Arrivals' = Arrivals
  <2>1. Cardinality(Busy') = Cardinality(Busy) - 1 /\ Cardinality(Busy) \in Nat
    BY <1>1, BusyFinite
  <2>2. Len(log') = Len(log) + 1 /\ Len(log) \in Nat
    BY DEF Ends
  <2> QED BY <2>1, <2>2 DEF Arrivals
<1>3. Numbered'
  <2>1. \A t \in Busy' : t \in Busy /\ t # s /\ local'[t].nr = local[t].nr
    BY <1>1 DEF Ends, Busy
  <2>2. /\ \A i \in DOMAIN log : log'[i].nr = log[i].nr
        /\ log'[Len(log) + 1].nr = local[s].nr
    BY DEF Ends
  <2> QED BY <1>1, <1>2, <2>1, <2>2 DEF Numbered
<1>4. ASSUME NEW o \in Owners
      PROVE  o[2] \in Nat /\ \E p \in Owners' : p[1] = o[1] /\ p[2] \in Nat /\ o[2] <= p[2]
  <2>1. o[2] \in Nat
    BY OwnersTyped
  <2>2. CASE \E i \in DOMAIN log : o = <<log[i].nr, log[i].decided>>
    <3>1. o \in Owners'
      BY <1>1, <2>2 DEF Owners, Ends
    <3> QED BY <2>1, <3>1
  <2>3. CASE \E t \in InKey : o = <<local[t].nr, local[t].now>>
    <3>1. PICK t \in InKey : o = <<local[t].nr, local[t].now>>
      BY <2>3
    <3>2. CASE t = s
      <4>1. <<local[s].nr, clock>> \in Owners'
        BY <1>1 DEF Owners, Ends
      <4>2. local[s].now <= clock
        BY <1>1 DEF PastRequests
      <4> QED BY <1>1, <2>1, <3>1, <3>2, <4>1, <4>2
    <3>3. CASE t # s
      <4>1. o \in Owners'
        BY <3>1, <3>3 DEF Owners, Ends, InKey
      <4> QED BY <2>1, <4>1
    <3> QED BY <3>2, <3>3
  <2> QED BY <2>2, <2>3 DEF Owners
<1> QED BY <1>2, <1>3, <1>4 DEF Later

LEMMA GoesNumbered ==
  ASSUME LimiterTyped, Numbered, NEW s, NEW place, NEW rec, Goes(s, place, rec), place # "idle",
         s \in InKey => place \in {"count", "renew"} /\ rec.now = local[s].now
  PROVE  /\ Numbered' /\ Arrivals' = Arrivals
         /\ Later(Owners, Owners')
<1>1. s \in Busy /\ Busy' = Busy /\ log' = log /\ \A t \in Busy : local'[t].nr = local[t].nr
  BY DEF Goes, Busy
<1>2. Arrivals' = Arrivals
  BY <1>1 DEF Arrivals
<1>3. Numbered'
  BY <1>1, <1>2 DEF Numbered
<1>4. Owners \subseteq Owners'
  <2>1. \A t \in InKey : t \in InKey' /\ local'[t].nr = local[t].nr /\ local'[t].now = local[t].now
    BY DEF InKey, Goes
  <2> QED BY <1>1, <2>1 DEF Owners
<1>5. \A o \in Owners : o[2] \in Nat
  BY OwnersTyped
<1> QED BY <1>2, <1>3, <1>4, <1>5 DEF Later

LEMMA HitsStay ==
  ASSUME NEW owners, NEW after, Later(owners, after), NEW H \in SUBSET StoredHits, HitsIn(H, owners)
  PROVE  HitsIn(H, after)
<1>1. ASSUME NEW h \in H PROVE \E p \in after : p[1] = h.nr /\ h.at <= p[2]
  <2>1. h.at \in Nat
    BY RateAssumption DEF StoredHits, Times
  <2>2. PICK o \in owners : o[1] = h.nr /\ h.at <= o[2]
    BY DEF HitsIn
  <2>3. PICK p \in after : p[1] = o[1] /\ p[2] \in Nat /\ o[2] <= p[2] /\ o[2] \in Nat
    BY <2>2 DEF Later
  <2> QED BY <2>1, <2>2, <2>3
<1> QED BY <1>1 DEF HitsIn

\* A part of the hits is owned as they are.
LEMMA HitsPart ==
  ASSUME NEW H, NEW owners, HitsIn(H, owners), NEW K \in SUBSET H
  PROVE  HitsIn(K, owners)
  BY FS_Subset DEF HitsIn

----------------------------------------------------------------------------
(* What is written to a key.                                                *)

\* The place of a request says what it has done, and for which strategy.
LEMMA Located ==
  ASSUME OrderInv, NEW s \in Busy
  PROVE  /\ s \in Servers /\ local[s] \in InFlight /\ pc[s] \in Places \ {"idle"}
         /\ store = "memory" => pc[s] = "locked"
         /\ store = "redis" => pc[s] \in PlacedAt(local[s].how)
         /\ pc[s] \in {"incr", "expire"} => store = "redis" /\ local[s].how = "fixed_window"
         /\ pc[s] \in {"evict", "add", "count", "renew"} => store = "redis" /\ local[s].how = "sliding_window"
         /\ pc[s] \in {"watch", "delete", "exec"} => store = "redis" /\ local[s].how = "token_bucket"
         /\ pc[s] = "locked" => store = "memory"
         /\ pc[s] = "expire" => local[s].answer = 1
         /\ local[s].arrived <= local[s].now /\ local[s].now <= clock /\ local[s].window <= clock
  BY DEF OrderInv, LimiterTyped, RequestsPlaced, PlacedAt, PastRequests, Busy, InFlight, Kinds, Places

\* Every strategy has a type of its own.
LEMMA KindOfHow ==
  /\ KindOf("fixed_window") = "string" /\ KindOf("sliding_window") = "zset" /\ KindOf("token_bucket") = "hash"
  /\ \A how : KindOf(how) # "none"
  BY DEF KindOf

\* A key that is written is one that can be stored; its clock is that of now.
LEMMA Writable ==
  ASSUME OrderInv, NEW s \in Busy
  PROVE  /\ Keyed(Entry) /\ Entry \in Keys /\ Keyed(Absent) /\ Absent \in Keys
         /\ ~WrongType("fixed_window") =>
              Incremented \in Keys /\ Keyed(Incremented) /\ Incremented.kind = "string"
              /\ Incremented.count = Entry.count + 1
              /\ Incremented.scores = Entry.scores /\ Incremented.expires = Entry.expires
         /\ Entry.kind # "none" =>
              [Entry EXCEPT !.expires = clock + Window] \in Keys /\ Keyed([Entry EXCEPT !.expires = clock + Window])
         /\ \A H \in SUBSET StoredHits : Entry.kind = "zset" =>
              /\ [Entry EXCEPT !.scores = H] \in Keys /\ Keyed([Entry EXCEPT !.scores = H])
         /\ ~WrongType("sliding_window") =>
              /\ Added(s) \in Keys /\ Keyed(Added(s)) /\ Added(s).kind = "zset" /\ Added(s).count = Entry.count
              /\ Added(s).scores = Entry.scores \cup {Hit(local[s].nr, local[s].now)}
              /\ Added(s).expires = Entry.expires
         /\ Spent(s) \in Keys /\ Keyed(Spent(s)) /\ Spent(s).kind = "hash"
<1>1. /\ clock \in Times /\ clock \in Nat /\ None \notin Int /\ clock + Window \in Nat /\ clock + 2 * Window \in Nat
      /\ clock + Window \in 0..(MaxClock + 2 * Window) /\ clock + 2 * Window \in 0..(MaxClock + 2 * Window)
      /\ clock + Window <= clock + 2 * Window
  BY Numbers, RateAssumption DEF OrderInv, LimiterTyped, Times
<1>2. Keyed(Absent) /\ Absent \in Keys
  BY EntryType, <1>1 DEF Keyed, Absent, OrderInv
<1>3. Keyed(Entry) /\ Entry \in Keys
  BY EntryType, <1>2 DEF OrderInv, PastKeys
<1>4. ~WrongType("fixed_window") =>
        Incremented \in Keys /\ Keyed(Incremented) /\ Incremented.kind = "string"
        /\ Incremented.count = Entry.count + 1
        /\ Incremented.scores = Entry.scores /\ Incremented.expires = Entry.expires
  <2> SUFFICES ASSUME ~WrongType("fixed_window")
               PROVE  /\ Incremented \in Keys /\ Keyed(Incremented) /\ Incremented.kind = "string"
                      /\ Incremented.count = Entry.count + 1
                      /\ Incremented.scores = Entry.scores /\ Incremented.expires = Entry.expires
    OBVIOUS
  <2>1. Entry.kind \in {"none", "string"} /\ (Entry.kind = "none" => Entry.expires = None)
    BY <1>3, EntryType, KindOfHow DEF WrongType, Keyed, OrderInv
  <2> DEFINE b == IF Entry.kind = "none" THEN clock ELSE Entry.born
  <2>2. b \in Times /\ b <= clock /\ Entry.count + 1 \in Nat /\ Entry.count \in Nat
        /\ (Entry.kind = "string" => b = Entry.born)
    BY <1>1, <1>3, <2>1 DEF Keys, Keyed, Times
  <2>3. Incremented = [Entry EXCEPT !.kind = "string", !.count = Entry.count + 1, !.born = b]
    BY DEF Incremented
  <2> HIDE DEF b
  <2>4. /\ Incremented \in Keys /\ Incremented.kind = "string" /\ Incremented.count = Entry.count + 1
        /\ Incremented.born = b /\ Incremented.scores = Entry.scores /\ Incremented.refill = Entry.refill
        /\ Incremented.expires = Entry.expires
    BY <1>3, <2>2, <2>3 DEF Keys
  <2>5. Keyed(Incremented)
    BY <1>3, <2>1, <2>2, <2>4 DEF Keyed
  <2> QED BY <2>4, <2>5
<1>5. Entry.kind # "none" =>
        [Entry EXCEPT !.expires = clock + Window] \in Keys /\ Keyed([Entry EXCEPT !.expires = clock + Window])
  <2> DEFINE v == [Entry EXCEPT !.expires = clock + Window]
  <2>1. /\ v \in Keys /\ v.kind = Entry.kind /\ v.count = Entry.count /\ v.born = Entry.born
        /\ v.refill = Entry.refill /\ v.expires = clock + Window /\ v.scores = Entry.scores
    BY <1>1, <1>3 DEF Keys
  <2> HIDE DEF v
  <2>2. Entry.born \in Nat /\ v.expires \in Nat
    BY <1>1, <1>3, <2>1, RateAssumption DEF Keys, Times
  <2>3. Entry.kind # "none" => Keyed(v)
    BY <1>1, <1>3, <2>1, <2>2, Numbers DEF Keyed
  <2> QED BY <2>1, <2>3 DEF v
<1>6. ASSUME NEW H \in SUBSET StoredHits, Entry.kind = "zset"
      PROVE  [Entry EXCEPT !.scores = H] \in Keys /\ Keyed([Entry EXCEPT !.scores = H])
  <2> DEFINE v == [Entry EXCEPT !.scores = H]
  <2>1. /\ v \in Keys /\ v.kind = Entry.kind /\ v.count = Entry.count /\ v.born = Entry.born
        /\ v.refill = Entry.refill /\ v.expires = Entry.expires
    BY <1>3 DEF Keys
  <2> HIDE DEF v
  <2>2. Keyed(v)
    BY <1>3, <1>6, <2>1 DEF Keyed
  <2> QED BY <2>1, <2>2 DEF v
<1>8. ASSUME ~WrongType("sliding_window")
      PROVE  /\ Added(s) \in Keys /\ Keyed(Added(s)) /\ Added(s).kind = "zset" /\ Added(s).count = Entry.count
             /\ Added(s).scores = Entry.scores \cup {Hit(local[s].nr, local[s].now)}
             /\ Added(s).expires = Entry.expires
  <2> DEFINE H == Entry.scores \cup {Hit(local[s].nr, local[s].now)}
             k == "zset"
  <2>1. Hit(local[s].nr, local[s].now) \in StoredHits
    BY Located DEF Hit, StoredHits, InFlight
  <2>2. H \in SUBSET StoredHits
    BY <1>3, <2>1 DEF Keys
  <2>3. Added(s) = [Entry EXCEPT !.kind = k, !.scores = H]
    BY DEF Added
  <2>4. k \in {"none", "string", "zset", "hash"} /\ k \notin {"none", "string", "hash"} /\ k = "zset"
    OBVIOUS
  <2> HIDE DEF H, k
  <2>5. /\ Added(s) \in Keys /\ Added(s).kind = k /\ Added(s).count = Entry.count /\ Added(s).scores = H
        /\ Added(s).born = Entry.born /\ Added(s).refill = Entry.refill /\ Added(s).expires = Entry.expires
    BY <1>3, <2>2, <2>3, <2>4 DEF Keys
  <2>6. Keyed(Added(s))
    BY <1>3, <2>4, <2>5 DEF Keyed
  <2> QED BY <2>4, <2>5, <2>6 DEF H
<1>7. Spent(s) \in Keys /\ Keyed(Spent(s)) /\ Spent(s).kind = "hash"
  <2>1. /\ local[s].now \in Nat /\ local[s].now \in Times /\ local[s].now <= clock /\ local[s].refill \in Nat
        /\ local[s].tokens \in 0..Full
    BY Located, RateAssumption DEF InFlight, Times
  <2>2. Taken(Flowed(s)) \in 0..Full
    BY <2>1, RefilledType DEF Flowed
  <2> HIDE DEF Flowed
  <2>3. Spent(s) = [Absent EXCEPT !.kind = "hash", !.tokens = Taken(Flowed(s)), !.refill = local[s].now,
                                  !.expires = clock + 2 * Window]
    BY DEF Spent
  <2> DEFINE k == Taken(Flowed(s))
  <2>4. k \in 0..Full /\ Spent(s) = [Absent EXCEPT !.kind = "hash", !.tokens = k, !.refill = local[s].now,
                                                  !.expires = clock + 2 * Window]
    BY <2>2, <2>3
  <2> HIDE DEF k
  <2>5. /\ Spent(s) \in Keys /\ Spent(s).kind = "hash" /\ Spent(s).born = Absent.born
        /\ Spent(s).refill = local[s].now /\ Spent(s).expires = clock + 2 * Window
        /\ Spent(s).scores = Absent.scores
    BY <1>1, <1>2, <2>1, <2>4 DEF Keys
  <2>6. Absent.born <= clock /\ Absent.scores = {}
    BY <1>2 DEF Keyed, Absent
  <2> QED BY <1>1, <2>1, <2>5, <2>6 DEF Keyed
<1> QED BY <1>2, <1>3, <1>4, <1>5, <1>6, <1>7, <1>8

\* A hit is added under a number of its own.
LEMMA HitAdded ==
  ASSUME NEW owners, NEW after, Later(owners, after), NEW H \in SUBSET StoredHits, HitsIn(H, owners),
         NEW nr, NEW at \in Times, <<nr, at>> \in after, \A o \in owners : o[1] # nr
  PROVE  /\ HitsIn(H \cup {Hit(nr, at)}, after) /\ Hit(nr, at) \notin H
         /\ Cardinality(H) \in Nat /\ Cardinality(H \cup {Hit(nr, at)}) = Cardinality(H) + 1
<1> DEFINE h == Hit(nr, at)
<1>1. h.nr = nr /\ h.at = at /\ at \in Nat
  BY RateAssumption DEF Hit, Times
<1> HIDE DEF h
<1>2. \A g \in H : g.nr # nr
  BY DEF HitsIn
<1>3. HitsIn(H, after)
  BY HitsStay
<1>4. h \notin H
  BY <1>1, <1>2
<1>5. IsFiniteSet(H \cup {h}) /\ Cardinality(H \cup {h}) = Cardinality(H) + 1 /\ Cardinality(H) \in Nat
  BY <1>4, FS_AddElement, FS_CardinalityType DEF HitsIn
<1>6. \E o \in after : o[1] = h.nr /\ h.at <= o[2]
  <2>1. <<nr, at>>[1] = nr /\ <<nr, at>>[2] = at
    OBVIOUS
  <2> QED BY <1>1, <2>1
<1>7. HitsIn(H \cup {h}, after)
  BY <1>1, <1>2, <1>3, <1>5, <1>6 DEF HitsIn
<1> QED BY <1>4, <1>5, <1>7 DEF h

\* Who has no hit yet owns none, and cannot be mixed up with who does.
LEMMA NotOwned ==
  ASSUME OrderInv, NEW s \in Busy, s \notin InKey
  PROVE  \A o \in Owners : o[1] # local[s].nr
<1>1. InKey \subseteq Busy
  BY DEF InKey, Busy
<1> QED BY <1>1 DEF OrderInv, Numbered, Owners

----------------------------------------------------------------------------
(* A server's step on a key, and on the counter.                            *)

\* What of the key a request that ends may change.
KeyStep(s) ==
  /\ UNCHANGED <<store, strategy, counter, clock, switches>>
  /\ store = "redis" /\ faults' \in Nat /\ faults' >= faults /\ broken' \subseteq Servers
  /\ entry' \in Keys /\ Keyed(entry')
  /\ Pure /\ local[s].how = strategy => ~WrongType(strategy)'

LEMMA EndsRest ==
  ASSUME OrderInv, NEW s, NEW n, NEW w, Ends(s, n, w), UNCHANGED <<store, strategy, clock, switches>>,
         Pure /\ local[s].how = strategy => ~WrongType(strategy)'
  PROVE  /\ RequestsPlaced' /\ PastRequests' /\ RoomKept' /\ AloneHolds' /\ StrategySettled'
         /\ Numbered' /\ Later(Owners, Owners')
         /\ s \in Busy
         /\ Cardinality({t \in Servers : pc'[t] = "expire"}) =
              Cardinality({t \in Servers : pc[t] = "expire"}) - (IF pc[s] = "expire" THEN 1 ELSE 0)
         /\ Cardinality({t \in Servers : pc[t] = "expire"}) \in Nat
<1>1. Cardinality({t \in Servers : pc[t] = "expire"}) \in Nat
  BY RateAssumption, FS_Subset, FS_CardinalityType
<1>2. s \in Busy
  BY DEF Ends, Busy
<1>3. Numbered' /\ Later(Owners, Owners')
  BY EndsNumbered DEF OrderInv
<1> QED BY <1>1, <1>2, <1>3, EndsRequests, EndsSettled DEF OrderInv

\* An answer keeps OrderInv, if what it leaves in the key can be stored.
LEMMA EndsKey ==
  ASSUME OrderInv, NEW s, NEW n, NEW w, Ends(s, n, w), KeyStep(s),
         HitsIn(entry'.scores, Owners),
         entry'.count <= entry.count \/ (pc[s] # "expire" /\ entry'.count <= entry.count + 1),
         entry'.kind = "string" /\ entry'.expires = None /\ faults' = 0 =>
           pc[s] # "expire" /\ entry.kind = "string" /\ entry.expires = None
  PROVE  OrderInv'
<1>1. UNCHANGED <<store, strategy, clock, switches>> /\ (Pure /\ local[s].how = strategy => ~WrongType(strategy)')
  BY DEF KeyStep
<1>2. /\ RequestsPlaced' /\ PastRequests' /\ RoomKept' /\ AloneHolds' /\ StrategySettled'
      /\ Numbered' /\ Later(Owners, Owners')
      /\ s \in Busy
      /\ Cardinality({t \in Servers : pc'[t] = "expire"}) =
           Cardinality({t \in Servers : pc[t] = "expire"}) - (IF pc[s] = "expire" THEN 1 ELSE 0)
      /\ Cardinality({t \in Servers : pc[t] = "expire"}) \in Nat
  BY <1>1, EndsRest
<1>3. LimiterTyped'
  BY DEF OrderInv, LimiterTyped, KeyStep, Ends
<1>4. OneStore' /\ PastKeys'
  BY DEF OrderInv, OneStore, PastKeys, KeyStep, Keyed, Ends
<1>5. Bounded'
  <2>1. entry.count \in Nat /\ entry'.count \in Nat /\ counter.count \in Nat /\ Limit \in Nat
    BY <1>3, RateAssumption DEF OrderInv, LimiterTyped, Keys, Counters
  <2>2. counter'.count <= Limit + Len(log')
    BY <2>1 DEF OrderInv, Bounded, KeyStep, Ends
  <2>3. entry.count <= Len(log) + Cardinality({t \in Servers : pc[t] = "expire"}) /\ Len(log') = Len(log) + 1
    BY DEF OrderInv, Bounded, Ends
  <2>4. entry'.count <= Len(log') + Cardinality({t \in Servers : pc'[t] = "expire"})
    BY <1>2, <2>1, <2>3 DEF Ends
  <2> QED BY <2>2, <2>4 DEF Bounded
<1>6. HitsLogged'
  <2>1. /\ counter.hits \in SUBSET StoredHits /\ HitsIn(counter.hits, Owners) /\ counter' = counter
        /\ Cardinality(counter.hits) <= Len(log) /\ entry'.scores \in SUBSET StoredHits
    BY DEF OrderInv, LimiterTyped, Counters, HitsLogged, KeyStep, Keys
  <2>2. HitsIn(counter.hits, Owners') /\ HitsIn(entry'.scores, Owners')
    BY <1>2, <2>1, HitsStay
  <2>3. Cardinality(counter.hits) <= Len(log')
    BY <2>1, FS_CardinalityType DEF HitsIn, Ends
  <2> QED BY <2>1, <2>2, <2>3 DEF HitsLogged
<1>7. KeysLive'
  <2> SUFFICES ASSUME entry'.kind = "string", entry'.expires = None, faults' = 0
               PROVE  \E t \in Servers : pc'[t] = "expire"
    BY DEF KeysLive
  <2>1. faults = 0
    BY DEF KeyStep, OrderInv, LimiterTyped
  <2>2. PICK t \in Servers : pc[t] = "expire"
    BY <2>1 DEF OrderInv, KeysLive
  <2>3. pc'[t] = "expire"
    BY <2>2 DEF Ends
  <2> QED BY <2>3
<1> QED BY <1>2, <1>3, <1>4, <1>5, <1>6, <1>7 DEF OrderInv

\* So does a request that goes on.
LEMMA GoesKey ==
  ASSUME OrderInv, NEW s, NEW place \in Places \ {"idle"}, NEW rec, Goes(s, place, rec), KeyStep(s),
         place \in PlacedAt(local[s].how), place = "expire" => rec.answer = 1,
         rec.now >= rec.arrived /\ rec.now <= clock /\ rec.window <= clock,
         s \in InKey => place = "renew" /\ rec.now = local[s].now,
         HitsIn(entry'.scores, Owners) \/ HitsIn(entry'.scores, Owners'),
         pc[s] # "expire", Pure /\ local[s].how = strategy => place # "delete",
         entry'.count <= entry.count \/ (place = "expire" /\ entry'.count <= entry.count + 1),
         entry'.kind = "string" /\ entry'.expires = None /\ faults' = 0 =>
           place = "expire" \/ (entry.kind = "string" /\ entry.expires = None),
         rec.alone => AloneAt(s)'
  PROVE  OrderInv'
<1>1. /\ UNCHANGED <<store, strategy, clock, switches>> /\ (Pure /\ local[s].how = strategy => ~WrongType(strategy)')
      /\ place # "idle"
  BY DEF KeyStep
<1>2. s \in Busy /\ Busy' = Busy /\ StrategySettled'
  BY <1>1, GoesSettled DEF OrderInv, Goes, Busy
<1>3. LimiterTyped'
  BY DEF OrderInv, LimiterTyped, KeyStep, Goes
<1>4. OneStore' /\ PastKeys'
  BY DEF OrderInv, OneStore, PastKeys, KeyStep, Keyed, Goes
<1>5. RequestsPlaced' /\ PastRequests' /\ RoomKept'
  <2>1. RequestsPlaced'
    BY <1>2 DEF OrderInv, RequestsPlaced, Goes, KeyStep, Busy
  <2>2. PastRequests'
    BY <1>2 DEF OrderInv, PastRequests, Goes, KeyStep, Busy
  <2>3. RoomKept'
    BY <1>2 DEF OrderInv, RoomKept, Goes
  <2> QED BY <2>1, <2>2, <2>3
<1>6. Bounded'
  <2> DEFINE E == {t \in Servers : pc[t] = "expire"}
  <2>1. entry.count \in Nat /\ entry'.count \in Nat /\ Len(log) \in Nat
    BY <1>3 DEF OrderInv, LimiterTyped, Keys
  <2>2. counter'.count <= Limit + Len(log')
    BY Numbers DEF OrderInv, Bounded, KeyStep, Goes, LimiterTyped, Counters
  <2>3. IsFiniteSet(E) /\ s \notin E /\ s \in Servers
    BY RateAssumption, FS_Subset DEF Goes
  <2>4. {t \in Servers : pc'[t] = "expire"} = IF place = "expire" THEN E \cup {s} ELSE E
    BY DEF Goes
  <2> HIDE DEF E
  <2>5. Cardinality(E) \in Nat /\ Cardinality(E \cup {s}) = Cardinality(E) + 1
    BY <2>3, FS_CardinalityType, FS_AddElement
  <2> DEFINE m == Cardinality({t \in Servers : pc'[t] = "expire"})
  <2>6. m = IF place = "expire" THEN Cardinality(E) + 1 ELSE Cardinality(E)
    BY <2>4, <2>5
  <2>7. entry.count <= Len(log) + Cardinality(E)
    BY DEF OrderInv, Bounded, E
  <2>8. entry'.count <= Len(log') + Cardinality({t \in Servers : pc'[t] = "expire"})
    BY <2>1, <2>6, <2>7, <2>5 DEF Goes
  <2> QED BY <2>2, <2>8 DEF Bounded
<1>10. Numbered' /\ Later(Owners, Owners')
  BY <1>1, GoesNumbered DEF OrderInv
<1>7. HitsLogged'
  <2>1. /\ counter.hits \in SUBSET StoredHits /\ HitsIn(counter.hits, Owners) /\ counter' = counter
        /\ Cardinality(counter.hits) <= Len(log) /\ entry'.scores \in SUBSET StoredHits
    BY DEF OrderInv, LimiterTyped, Counters, HitsLogged, KeyStep, Keys
  <2>2. HitsIn(counter.hits, Owners') /\ HitsIn(entry'.scores, Owners')
    BY <1>10, <2>1, HitsStay
  <2> QED BY <2>1, <2>2 DEF HitsLogged, Goes
<1>8. KeysLive'
  <2> SUFFICES ASSUME entry'.kind = "string", entry'.expires = None, faults' = 0
               PROVE  \E t \in Servers : pc'[t] = "expire"
    BY DEF KeysLive
  <2>1. CASE place = "expire"
    BY <2>1 DEF Goes
  <2>2. CASE place # "expire"
    <3>1. faults = 0
      BY DEF KeyStep, OrderInv, LimiterTyped
    <3>2. PICK t \in Servers : pc[t] = "expire"
      BY <2>2, <3>1 DEF OrderInv, KeysLive
    <3> QED BY <3>2 DEF Goes
  <2> QED BY <2>1, <2>2
<1>9. AloneHolds'
  <2> SUFFICES ASSUME NEW t \in Busy', local'[t].alone
               PROVE  Busy' = {t} /\ (\A i \in DOMAIN log' : log'[i].decided <= local'[t].arrived) /\ AloneAt(t)'
    BY DEF AloneHolds
  <2>1. CASE t = s
    BY <1>2, <2>1 DEF AloneHolds, OrderInv, Goes
  <2>2. CASE t # s
    BY <1>2, <2>2 DEF AloneHolds, OrderInv, Goes, Busy
  <2> QED BY <2>1, <2>2
<1> QED BY <1>2, <1>3, <1>4, <1>5, <1>6, <1>7, <1>8, <1>9, <1>10 DEF OrderInv

----------------------------------------------------------------------------
(* Every step keeps OrderInv.                                               *)

\* A key is as it was stored, or has expired.
LEMMA KeyNow ==
  ASSUME OrderInv
  PROVE  /\ Entry.kind = "none" => Entry = Absent
         /\ Entry.kind # "none" => Entry = entry
         /\ Entry.count <= entry.count /\ Entry.count \in Nat /\ entry.count \in Nat
         /\ Entry.count > 0 => Entry = entry
         /\ HitsIn(Entry.scores, Owners) /\ Entry.scores \in SUBSET StoredHits
         /\ Entry.expires = None => Entry = entry \/ Entry = Absent
         /\ clock' = clock /\ entry' = entry => Entry' = Entry
         /\ clock' = clock => Entry'.kind \in {"none", entry'.kind} /\ Entry'.scores \subseteq entry'.scores
         /\ WrongType("sliding_window") => Entry.scores = {}
<1>1. Entry = Absent \/ Entry = entry
  BY EntryType DEF OrderInv
<1>2. HitsIn(Absent.scores, Owners) /\ Absent.count = 0 /\ Absent.kind = "none" /\ Absent.scores = {}
  BY FS_EmptySet DEF Absent, HitsIn
<1>3. entry.count \in Nat /\ entry.scores \in SUBSET StoredHits /\ HitsIn(entry.scores, Owners) /\ Keyed(entry)
  BY DEF OrderInv, LimiterTyped, Keys, HitsLogged, PastKeys
<1>4. clock' = clock => Entry'.kind \in {"none", entry'.kind} /\ Entry'.scores \subseteq entry'.scores
  BY DEF Entry, Absent
<1>8. WrongType("sliding_window") => Entry.kind # "zset"
  BY KindOfHow DEF WrongType
<1>5. clock' = clock /\ entry' = entry => Entry' = Entry
  BY DEF Entry
<1>6. CASE Entry = Absent
  BY <1>2, <1>3, <1>4, <1>5, <1>6, <1>8
<1>7. CASE Entry = entry
  BY <1>2, <1>3, <1>4, <1>5, <1>7, <1>8 DEF Keyed
<1> QED BY <1>1, <1>6, <1>7

\* What is written for a strategy is of its type.
LEMMA TypeAfter ==
  ASSUME OrderInv, clock' = clock, UNCHANGED strategy, NEW how, how = strategy => entry'.kind \in {"none", KindOf(how)}
  PROVE  how = strategy => ~WrongType(strategy)'
<1>1. Entry'.kind \in {"none", entry'.kind}
  BY KeyNow
<1> QED BY <1>1 DEF WrongType

\* A command without effect, and one that writes, leave a type the strategy can use.
LEMMA TypeSame ==
  ASSUME OrderInv, UNCHANGED <<clock, entry, strategy>>
  PROVE  Pure => ~WrongType(strategy)'
  BY KeyNow DEF WrongType, Pure

LEMMA UntouchedStep ==
  ASSUME OrderInv, NEW s \in Busy, store = "redis", Untouched,
         UNCHANGED <<store, strategy, counter, clock, switches>>, faults' \in Nat, faults' >= faults
  PROVE  KeyStep(s) /\ entry' = entry
  BY TypeSame DEF KeyStep, Untouched, OrderInv, LimiterTyped, PastKeys

LEMMA WriteStep ==
  ASSUME OrderInv, NEW s \in Busy, store = "redis", NEW v \in Keys, Keyed(v), Write(s, v),
         UNCHANGED <<store, strategy, counter, clock, switches>>, faults' \in Nat, faults' >= faults,
         Pure /\ local[s].how = strategy => v.kind \in {"none", KindOf(strategy)}
  PROVE  KeyStep(s) /\ entry' = v
<1>1. entry' = v /\ broken' \subseteq Servers
  BY DEF Write, OrderInv, LimiterTyped
<1>2. Pure /\ local[s].how = strategy => ~WrongType(strategy)'
  BY <1>1, TypeAfter
<1> QED BY <1>1, <1>2 DEF KeyStep

\* What each operation does, in these terms.
LEMMA IncrActs ==
  ASSUME OrderInv, NEW s \in Servers, Incr(s)
  PROVE  /\ pc[s] = "incr" /\ s \in Busy /\ store = "redis" /\ local[s].how = "fixed_window"
         /\ UNCHANGED <<store, strategy, counter, clock, faults, switches>> /\ KeyStep(s)
         /\ \/ WrongType("fixed_window") /\ Ends(s, 1, 0) /\ entry' = entry
            \/ /\ ~WrongType("fixed_window") /\ entry' = Incremented
               /\ \/ Incremented.count # 1 /\ Ends(s, Incremented.count, Incremented.born)
                  \/ /\ Incremented.count = 1
                     /\ \E rec : /\ Goes(s, "expire", rec) /\ rec.window = Incremented.born
                                 /\ rec.now = local[s].now /\ rec.answer = 1
<1>1. /\ pc[s] = "incr" /\ s \in Busy /\ UNCHANGED <<store, strategy, counter, clock, faults, switches>>
      /\ LimiterTyped /\ faults' \in Nat /\ faults' >= faults /\ clock \in Times /\ 0 \in Times /\ 0 <= clock
  BY RateAssumption DEF Incr, Busy, OrderInv, LimiterTyped, Times
<1>2. store = "redis" /\ local[s].how = "fixed_window" /\ local[s] \in InFlight
  BY <1>1, Located
<1>3. CASE WrongType("fixed_window")
  <2>1. AnswerCount(s, 1, 0) /\ Untouched
    BY <1>3 DEF Incr
  <2>2. Ends(s, 1, 0)
    BY <1>1, <2>1, Ended
  <2>3. KeyStep(s) /\ entry' = entry
    BY <1>1, <1>2, <2>1, UntouchedStep
  <2> QED BY <1>1, <1>2, <1>3, <2>2, <2>3
<1>4. CASE ~WrongType("fixed_window")
  <2> DEFINE v == Incremented
  <2>1. v \in Keys /\ Keyed(v) /\ v.kind = "string" /\ v.count = Entry.count + 1 /\ Write(s, v)
    BY <1>1, <1>4, Writable DEF Incr
  <2>2. KeyStep(s) /\ entry' = v
    BY <1>1, <1>2, <2>1, WriteStep, KindOfHow
  <2>3. v.count \in Nat /\ v.born \in Times /\ v.born <= clock
    BY <1>1, <2>1, KeyNow DEF Keys, Keyed
  <2>4. CASE v.count = 1
    <3> DEFINE l == local[s]
               b == v.born
               one == 1
               rec == [l EXCEPT !.answer = one, !.window = b]
    <3>1. Goto(s, "expire", rec) /\ l \in InFlight /\ b \in Times /\ one \in Nat
      BY <1>2, <1>4, <2>2, <2>3, <2>4 DEF Incr
    <3> HIDE DEF l, b, one, v
    <3>2. /\ rec \in InFlight /\ rec.arrived = l.arrived /\ rec.how = l.how /\ rec.epoch = l.epoch
          /\ rec.alone = l.alone /\ rec.now = l.now /\ rec.window = b /\ rec.answer = one
          /\ rec.nr = l.nr /\ rec.lapsed = l.lapsed
      BY <3>1 DEF InFlight
    <3> HIDE DEF rec
    <3>3. Goes(s, "expire", rec)
      BY <1>1, <3>1, <3>2, Gone DEF Places, l
    <3>4. rec.now = local[s].now /\ rec.window = v.born /\ rec.answer = 1
      BY <3>2 DEF l, b, one
    <3> QED BY <1>1, <1>2, <1>4, <2>2, <2>4, <3>3, <3>4 DEF v
  <2>5. CASE v.count # 1
    <3>1. AnswerCount(s, v.count, v.born)
      BY <1>4, <2>2, <2>5 DEF Incr
    <3>2. Ends(s, v.count, v.born)
      BY <1>1, <2>3, <3>1, Ended
    <3> QED BY <1>1, <1>2, <1>4, <2>2, <2>5, <3>2
  <2> QED BY <2>4, <2>5
<1> QED BY <1>3, <1>4

\* EXPIRE answers what INCR counted.
LEMMA ExpireActs ==
  ASSUME OrderInv, NEW s \in Servers, Expire(s)
  PROVE  /\ pc[s] = "expire" /\ s \in Busy /\ store = "redis" /\ local[s].how = "fixed_window"
         /\ UNCHANGED <<store, strategy, counter, clock, switches>> /\ KeyStep(s)
         /\ local[s].answer = 1 /\ Ends(s, 1, local[s].window)
         /\ \/ entry' = entry /\ (faults' # 0 \/ Entry.kind = "none")
            \/ /\ Entry.kind # "none" /\ faults' = faults
               /\ entry' = [Entry EXCEPT !.expires = clock + Window]
<1>1. /\ pc[s] = "expire" /\ s \in Busy /\ UNCHANGED <<store, strategy, counter, clock, switches>>
      /\ LimiterTyped
  BY DEF Expire, Busy, OrderInv
<1>2. faults' \in Nat /\ faults' >= faults /\ (faults' = faults + 1 => faults' # 0)
  BY <1>1 DEF Expire, LimiterTyped
<1>3. /\ store = "redis" /\ local[s].how = "fixed_window" /\ local[s].window \in Times /\ local[s].window <= clock
      /\ local[s].answer = 1
  BY <1>1, Located DEF InFlight
<1>4. Ends(s, 1, local[s].window)
  <2>1. AnswerCount(s, 1, local[s].window)
    BY <1>3 DEF Expire
  <2> QED BY <1>1, <1>3, <2>1, Ended
<1>5. CASE Untouched /\ (faults' # 0 \/ Entry.kind = "none")
  <2>1. KeyStep(s) /\ entry' = entry
    BY <1>1, <1>2, <1>3, <1>5, UntouchedStep
  <2> QED BY <1>1, <1>3, <1>4, <1>5, <2>1
<1>6. CASE Entry.kind # "none" /\ Write(s, [Entry EXCEPT !.expires = clock + Window]) /\ faults' = faults
  <2> DEFINE v == [Entry EXCEPT !.expires = clock + Window]
  <2>1. v \in Keys /\ Keyed(v) /\ Write(s, v) /\ Entry \in Keys
    BY <1>1, <1>6, Writable
  <2>2. v.kind = Entry.kind
    BY <2>1 DEF Keys
  <2> HIDE DEF v
  <2>3. Pure /\ local[s].how = strategy => v.kind \in {"none", KindOf(strategy)}
    BY <2>2 DEF Pure, WrongType
  <2>4. KeyStep(s) /\ entry' = v
    BY <1>1, <1>2, <1>3, <2>1, <2>3, WriteStep
  <2> QED BY <1>1, <1>3, <1>4, <1>6, <2>4 DEF v
<1> QED BY <1>2, <1>5, <1>6 DEF Expire, Renewed

LEMMA IncrKeeps ==
  ASSUME OrderInv, NEW s \in Servers, Incr(s)
  PROVE  OrderInv'
<1>1. /\ pc[s] = "incr" /\ s \in Busy /\ KeyStep(s) /\ store = "redis" /\ local[s].how = "fixed_window"
      /\ LimiterTyped
  BY IncrActs DEF OrderInv
<1>2. CASE Ends(s, 1, 0) /\ entry' = entry
  <2>1. HitsIn(entry'.scores, Owners)
    BY <1>2 DEF OrderInv, HitsLogged
  <2> QED BY <1>1, <1>2, <2>1, EndsKey, KeyNow
<1>3. CASE ~WrongType("fixed_window") /\ entry' = Incremented
  <2> DEFINE v == Incremented
  <2>1. /\ v \in Keys /\ Keyed(v) /\ v.kind = "string" /\ v.count = Entry.count + 1
        /\ v.scores = Entry.scores /\ v.expires = Entry.expires /\ entry' = v
    BY <1>1, <1>3, Writable
  <2> HIDE DEF v
  <2>2. v.count \in Nat /\ v.count >= 1 /\ v.born <= clock /\ v.count <= entry.count + 1
    BY <1>1, <2>1, KeyNow DEF Keys, Keyed
  <2>3. ASSUME NEW rec, v.count = 1, Goes(s, "expire", rec), rec.window = v.born, rec.now = local[s].now, rec.answer = 1
        PROVE  OrderInv'
    <3>1. HitsIn(entry'.scores, Owners) /\ s \notin InKey
      BY <1>1, <2>1, KeyNow DEF InKey
    <3>2. AloneAt(s)'
      <4>1. Entry.kind = "none"
        BY <1>1, <1>3, <2>1, <2>3, Writable, KeyNow, KindOfHow DEF WrongType, Keyed
      <4>2. Entry.expires = None
        BY <4>1, KeyNow, EntryType, <1>1
      <4> QED BY <2>1, <2>3, <4>2 DEF AloneAt, Goes
    <3>3. rec.now >= rec.arrived /\ rec.now <= clock
      BY <1>1, <2>3, Located DEF Goes, InFlight, Times
    <3>4. "expire" \in Places \ {"idle"} /\ "expire" \in PlacedAt(local[s].how)
      BY <1>1 DEF Places, PlacedAt
    <3> QED BY <1>1, <2>1, <2>2, <2>3, <3>1, <3>2, <3>3, <3>4, GoesKey
  <2>4. CASE v.count # 1 /\ Ends(s, v.count, v.born)
    <3>1. HitsIn(entry'.scores, Owners)
      BY <2>1, KeyNow
    <3>2. Entry = entry /\ Entry.kind = "string"
      BY <1>1, <1>3, <2>1, <2>2, <2>4, KeyNow, KindOfHow DEF WrongType, Absent
    <3>3. entry'.expires = None => entry.kind = "string" /\ entry.expires = None
      BY <2>1, <3>2
    <3> QED BY <1>1, <2>1, <2>2, <2>4, <3>1, <3>3, EndsKey
  <2> QED BY <1>1, <1>3, <2>3, <2>4, IncrActs DEF v
<1> QED BY <1>2, <1>3, IncrActs

LEMMA ExpireKeeps ==
  ASSUME OrderInv, NEW s \in Servers, Expire(s)
  PROVE  OrderInv'
<1>1. /\ s \in Busy /\ KeyStep(s) /\ LimiterTyped /\ clock \in Nat /\ Ends(s, 1, local[s].window)
  BY ExpireActs, RateAssumption DEF OrderInv, LimiterTyped, Times
<1>2. CASE entry' = entry /\ (faults' # 0 \/ Entry.kind = "none")
  <2>1. HitsIn(entry'.scores, Owners)
    BY <1>2 DEF OrderInv, HitsLogged
  <2>2. ~(entry.kind = "string" /\ entry.expires = None /\ faults' = 0)
    BY <1>2, EntryType DEF Entry, OrderInv
  <2> QED BY <1>1, <1>2, <2>1, <2>2, EndsKey, KeyNow
<1>3. CASE Entry.kind # "none" /\ entry' = [Entry EXCEPT !.expires = clock + Window]
  <2>1. /\ entry'.count = Entry.count /\ entry'.scores = Entry.scores /\ entry'.expires = clock + Window
    BY <1>1, <1>3, Writable DEF Keys
  <2>2. HitsIn(entry'.scores, Owners)
    BY <2>1, KeyNow
  <2>3. entry'.expires # None
    BY <1>1, <2>1, RateAssumption
  <2> QED BY <1>1, <2>1, <2>2, <2>3, EndsKey, KeyNow
<1> QED BY <1>2, <1>3, ExpireActs

\* A step of a pipeline on a request that goes on.
LEMMA PipeGoes ==
  ASSUME OrderInv, NEW s \in Busy, NEW place \in {"add", "count", "renew"}, NEW n \in Nat,
         Goto(s, place, [local[s] EXCEPT !.answer = n])
  PROVE  \E rec : /\ Goes(s, place, rec) /\ rec.now = local[s].now /\ rec.window = local[s].window
                  /\ rec.answer = n
<1> DEFINE l == local[s]
           rec == [l EXCEPT !.answer = n]
<1>1. Goto(s, place, rec) /\ l \in InFlight /\ s \in Servers /\ pc[s] # "idle" /\ LimiterTyped
  BY Located DEF OrderInv
<1> HIDE DEF l
<1>2. /\ rec \in InFlight /\ rec.arrived = l.arrived /\ rec.how = l.how /\ rec.epoch = l.epoch
      /\ rec.alone = l.alone /\ rec.now = l.now /\ rec.window = l.window /\ rec.answer = n
      /\ rec.nr = l.nr /\ rec.lapsed = l.lapsed
  BY <1>1 DEF InFlight
<1> HIDE DEF rec
<1>3. Goes(s, place, rec)
  BY <1>1, <1>2, Gone DEF Places, l
<1> QED BY <1>2, <1>3 DEF l

Kept(s) == Recent(Entry.scores, local[s].now)

LEMMA EvictActs ==
  ASSUME OrderInv, NEW s \in Servers, Evict(s)
  PROVE  /\ pc[s] = "evict" /\ s \in Busy /\ store = "redis" /\ local[s].how = "sliding_window"
         /\ UNCHANGED <<store, strategy, counter, clock, faults, switches>> /\ KeyStep(s)
         /\ \E rec : /\ Goes(s, "add", rec) /\ rec.now = local[s].now /\ rec.window = local[s].window
                     /\ WrongType("sliding_window") \/ rec.answer = 0
         /\ Kept(s) \subseteq Entry.scores
         /\ \/ entry' = entry /\ (WrongType("sliding_window") \/ Kept(s) = Entry.scores)
            \/ /\ ~WrongType("sliding_window") /\ Kept(s) = {} /\ entry' = Absent
            \/ /\ ~WrongType("sliding_window") /\ Entry = entry /\ entry.kind = "zset"
               /\ entry' \in Keys /\ entry'.kind = "zset" /\ entry'.scores = Kept(s)
               /\ entry'.expires = entry.expires /\ entry'.count = entry.count
<1>1. /\ pc[s] = "evict" /\ s \in Busy /\ UNCHANGED <<store, strategy, counter, clock, faults, switches>>
      /\ LimiterTyped /\ faults' \in Nat /\ faults' >= faults
  BY DEF Evict, Busy, OrderInv, LimiterTyped
<1>2. store = "redis" /\ local[s].how = "sliding_window"
  BY <1>1, Located
<1>3. \E rec : /\ Goes(s, "add", rec) /\ rec.now = local[s].now /\ rec.window = local[s].window
               /\ WrongType("sliding_window") \/ rec.answer = 0
  <2>1. PICK n \in Nat : /\ Goto(s, "add", [local[s] EXCEPT !.answer = n])
                         /\ WrongType("sliding_window") \/ n = 0
    BY DEF Evict
  <2> QED BY <1>1, <2>1, PipeGoes
<1>4. Kept(s) \subseteq Entry.scores /\ Entry.scores \in SUBSET StoredHits
  BY KeyNow DEF Kept, Recent
<1>5. CASE WrongType("sliding_window") \/ Kept(s) = Entry.scores
  <2>1. Untouched
    BY <1>5 DEF Evict, Kept
  <2>2. KeyStep(s) /\ entry' = entry
    BY <1>1, <1>2, <2>1, UntouchedStep
  <2> QED BY <1>1, <1>2, <1>3, <1>4, <1>5, <2>2
<1>6. CASE ~WrongType("sliding_window") /\ Kept(s) # Entry.scores
  <2>1. Write(s, IF Kept(s) = {} THEN Absent ELSE [Entry EXCEPT !.scores = Kept(s)])
    BY <1>6 DEF Evict, Kept
  <2>2. Entry.scores # {}
    BY <1>4, <1>6
  <2>3. Entry.kind = "zset" /\ Entry = entry
    BY <1>1, <2>2, Writable, KeyNow DEF Keyed
  <2>4. CASE Kept(s) = {}
    <3>1. Absent \in Keys /\ Keyed(Absent) /\ Absent.kind = "none" /\ Write(s, Absent)
      BY <1>1, <2>1, <2>4, Writable DEF Absent
    <3>2. KeyStep(s) /\ entry' = Absent
      BY <1>1, <1>2, <3>1, WriteStep
    <3> QED BY <1>1, <1>2, <1>3, <1>4, <1>6, <2>4, <3>2
  <2>5. CASE Kept(s) # {}
    <3> DEFINE H == Kept(s)
               v == [Entry EXCEPT !.scores = H]
    <3>1. v \in Keys /\ Keyed(v) /\ Write(s, v) /\ Entry \in Keys /\ H \in SUBSET StoredHits
      BY <1>1, <1>4, <2>1, <2>3, <2>5, Writable
    <3> HIDE DEF H
    <3>2. v.kind = "zset" /\ v.scores = H /\ v.expires = Entry.expires /\ v.count = Entry.count
      BY <2>3, <3>1 DEF Keys
    <3> HIDE DEF v
    <3>3. Pure /\ local[s].how = strategy => v.kind \in {"none", KindOf(strategy)}
      BY <1>2, <3>2, KindOfHow
    <3>4. KeyStep(s) /\ entry' = v
      BY <1>1, <1>2, <3>1, <3>3, WriteStep
    <3> QED BY <1>1, <1>2, <1>3, <1>4, <1>6, <2>3, <3>1, <3>2, <3>4 DEF H
  <2> QED BY <2>4, <2>5
<1> QED BY <1>5, <1>6

LEMMA EvictKeeps ==
  ASSUME OrderInv, NEW s \in Servers, Evict(s)
  PROVE  OrderInv'
<1>1. /\ pc[s] = "evict" /\ s \in Busy /\ KeyStep(s) /\ local[s].how = "sliding_window" /\ clock' = clock
      /\ s \notin InKey
  BY EvictActs DEF InKey
<1>2. PICK rec : Goes(s, "add", rec) /\ rec.now = local[s].now /\ rec.window = local[s].window
  BY EvictActs
<1>3. \A h \in Kept(s) : h.at > local[s].now - Window
  BY DEF Kept, Recent
<1>4. /\ \A h \in Entry'.scores : h.at > local[s].now - Window
      /\ HitsIn(entry'.scores, Owners) /\ entry'.count <= entry.count
      /\ entry' = entry \/ entry'.kind # "string"
  <2>1. CASE entry' = entry /\ (WrongType("sliding_window") \/ Kept(s) = Entry.scores)
    <3>1. Entry' = Entry /\ entry.count \in Nat
      BY <1>1, <2>1, KeyNow
    <3>2. Entry.scores = {} \/ Entry.scores = Kept(s)
      BY <2>1, KeyNow
    <3>3. HitsIn(entry'.scores, Owners)
      BY <2>1 DEF OrderInv, HitsLogged
    <3> QED BY <1>3, <2>1, <3>1, <3>2, <3>3
  <2>2. CASE entry' = Absent
    <3>1. Absent.scores = {} /\ Absent.kind = "none" /\ Absent.count = 0
      BY DEF Absent
    <3>2. Entry'.scores = {} /\ HitsIn({}, Owners) /\ entry.count \in Nat
      BY <1>1, <2>2, <3>1, KeyNow, FS_EmptySet DEF HitsIn
    <3> QED BY <2>2, <3>1, <3>2
  <2>3. CASE entry'.kind = "zset" /\ entry'.scores = Kept(s) /\ entry'.count = entry.count
    <3>1. Entry'.scores \subseteq Kept(s) /\ entry.count \in Nat
      BY <1>1, <2>3, KeyNow
    <3>2. HitsIn(Kept(s), Owners)
      BY KeyNow, HitsPart, EvictActs
    <3> QED BY <1>3, <2>3, <3>1, <3>2
  <2> QED BY <2>1, <2>2, <2>3, EvictActs
<1>5. AloneAt(s)'
  <2>1. pc'[s] = "add" /\ local'[s].now = local[s].now
    BY <1>2 DEF Goes
  <2> QED BY <1>4, <2>1 DEF AloneAt
<1>6. rec.now >= rec.arrived /\ rec.now <= clock /\ rec.window <= clock
  BY <1>1, <1>2, Located DEF Goes, InFlight, Times
<1>7. "add" \in Places \ {"idle"} /\ "add" \in PlacedAt(local[s].how)
  BY <1>1 DEF Places, PlacedAt
<1> QED BY <1>1, <1>2, <1>4, <1>5, <1>6, <1>7, GoesKey

LEMMA AddActs ==
  ASSUME OrderInv, NEW s \in Servers, Add(s)
  PROVE  /\ pc[s] = "add" /\ s \in Busy /\ store = "redis" /\ local[s].how = "sliding_window"
         /\ UNCHANGED <<store, strategy, counter, clock, faults, switches>> /\ KeyStep(s)
         /\ \E rec : /\ Goes(s, "count", rec) /\ rec.now = local[s].now /\ rec.window = local[s].window
                     /\ WrongType("sliding_window") \/ rec.answer = local[s].answer
         /\ \/ WrongType("sliding_window") /\ entry' = entry
            \/ /\ ~WrongType("sliding_window") /\ entry' \in Keys /\ entry'.kind = "zset"
               /\ entry'.count = Entry.count /\ entry'.expires = Entry.expires
               /\ entry'.scores = Entry.scores \cup {Hit(local[s].nr, local[s].now)}
<1>1. /\ pc[s] = "add" /\ s \in Busy /\ UNCHANGED <<store, strategy, counter, clock, faults, switches>>
      /\ LimiterTyped /\ faults' \in Nat /\ faults' >= faults
  BY DEF Add, Busy, OrderInv, LimiterTyped
<1>2. store = "redis" /\ local[s].how = "sliding_window" /\ local[s] \in InFlight /\ local[s].answer \in Nat
  BY <1>1, Located DEF InFlight
<1>3. \E rec : /\ Goes(s, "count", rec) /\ rec.now = local[s].now /\ rec.window = local[s].window
               /\ WrongType("sliding_window") \/ rec.answer = local[s].answer
  <2>1. [local[s] EXCEPT !.answer = local[s].answer] = local[s]
    BY <1>2 DEF InFlight
  <2>2. PICK n \in Nat : /\ Goto(s, "count", [local[s] EXCEPT !.answer = n])
                         /\ WrongType("sliding_window") \/ n = local[s].answer
    BY <1>2, <2>1 DEF Add
  <2> QED BY <1>1, <2>2, PipeGoes
<1>4. CASE WrongType("sliding_window")
  <2>1. Untouched
    BY <1>4 DEF Add
  <2>2. KeyStep(s) /\ entry' = entry
    BY <1>1, <1>2, <2>1, UntouchedStep
  <2> QED BY <1>1, <1>2, <1>3, <1>4, <2>2
<1>5. CASE ~WrongType("sliding_window")
  <2> DEFINE v == Added(s)
  <2>1. Write(s, v)
    BY <1>5 DEF Add
  <2>2. /\ v \in Keys /\ Keyed(v) /\ v.kind = "zset" /\ v.count = Entry.count /\ v.expires = Entry.expires
        /\ v.scores = Entry.scores \cup {Hit(local[s].nr, local[s].now)}
    BY <1>1, <1>5, Writable
  <2> HIDE DEF v
  <2>3. Pure /\ local[s].how = strategy => v.kind \in {"none", KindOf(strategy)}
    BY <1>2, <2>2, KindOfHow
  <2>4. KeyStep(s) /\ entry' = v
    BY <1>1, <1>2, <2>1, <2>2, <2>3, WriteStep
  <2> QED BY <1>1, <1>2, <1>3, <1>5, <2>2, <2>4
<1> QED BY <1>4, <1>5

LEMMA AddKeeps ==
  ASSUME OrderInv, NEW s \in Servers, Add(s)
  PROVE  OrderInv'
<1>1. /\ pc[s] = "add" /\ s \in Busy /\ KeyStep(s) /\ local[s].how = "sliding_window" /\ clock' = clock
      /\ UNCHANGED <<strategy, switches>> /\ s \notin InKey /\ LimiterTyped /\ Numbered /\ faults' = faults
  BY AddActs DEF InKey, OrderInv
<1>2. PICK rec : Goes(s, "count", rec) /\ rec.now = local[s].now /\ rec.window = local[s].window
  BY AddActs
<1>3. Later(Owners, Owners') /\ <<local[s].nr, local[s].now>> \in Owners'
  <2>1. Later(Owners, Owners')
    BY <1>1, <1>2, GoesNumbered
  <2>2. s \in InKey' /\ local'[s].nr = local[s].nr /\ local'[s].now = local[s].now
    BY <1>2 DEF InKey, Goes
  <2> QED BY <2>1, <2>2 DEF Owners
<1>4. local[s].now \in Times /\ local[s].now \in Nat /\ Window \in Nat /\ Window >= 1
  BY <1>1, Located, Numbers, RateAssumption DEF InFlight, Times
<1>5. CASE entry' = entry /\ WrongType("sliding_window")
  <2>1. Entry' = Entry /\ Entry.scores = {} /\ entry.count \in Nat
    BY <1>1, <1>5, KeyNow
  <2>2. AloneAt(s)'
    BY <1>2, <2>1 DEF AloneAt, Goes
  <2>3. HitsIn(entry'.scores, Owners)
    BY <1>5 DEF OrderInv, HitsLogged
  <2>4. rec.now >= rec.arrived /\ rec.now <= clock /\ rec.window <= clock
    BY <1>1, <1>2, Located DEF Goes, InFlight, Times
  <2>5. "count" \in Places \ {"idle"} /\ "count" \in PlacedAt(local[s].how)
    BY <1>1 DEF Places, PlacedAt
  <2> QED BY <1>1, <1>2, <1>5, <2>1, <2>2, <2>3, <2>4, <2>5, GoesKey
<1>6. CASE /\ entry'.kind = "zset" /\ entry'.count = Entry.count
           /\ entry'.scores = Entry.scores \cup {Hit(local[s].nr, local[s].now)}
  <2>1. HitsIn(entry'.scores, Owners')
    BY <1>1, <1>3, <1>4, <1>6, KeyNow, NotOwned, HitAdded
  <2>2. rec.alone => AloneAt(s)'
    <3> SUFFICES ASSUME rec.alone PROVE AloneAt(s)'
      OBVIOUS
    <3>1. AloneAt(s)
      BY <1>1, <1>2 DEF Goes, OrderInv, AloneHolds
    <3>2. \A h \in Entry.scores : h.at > local[s].now - Window
      BY <1>1, <3>1 DEF AloneAt
    <3>3. \A h \in Entry'.scores : h.at > local[s].now - Window
      BY <1>1, <1>4, <1>6, <3>2, KeyNow DEF Hit
    <3> QED BY <1>2, <3>3 DEF AloneAt, Goes
  <2>3. entry'.count <= entry.count
    BY <1>6, KeyNow
  <2>4. rec.now >= rec.arrived /\ rec.now <= clock /\ rec.window <= clock
    BY <1>1, <1>2, Located DEF Goes, InFlight, Times
  <2>5. "count" \in Places \ {"idle"} /\ "count" \in PlacedAt(local[s].how)
    BY <1>1 DEF Places, PlacedAt
  <2> QED BY <1>1, <1>2, <1>6, <2>1, <2>2, <2>3, <2>4, <2>5, GoesKey
<1> QED BY <1>5, <1>6, AddActs

LEMMA CountHitsActs ==
  ASSUME OrderInv, NEW s \in Servers, CountHits(s)
  PROVE  /\ pc[s] = "count" /\ s \in Busy /\ store = "redis" /\ local[s].how = "sliding_window"
         /\ UNCHANGED <<store, strategy, entry, counter, clock, faults, switches>> /\ KeyStep(s)
         /\ IsFiniteSet(Entry.scores)
         /\ \E rec : /\ Goes(s, "renew", rec) /\ rec.now = local[s].now /\ rec.window = local[s].window
                     /\ \/ rec.answer = Cardinality(Entry.scores)
                        \/ rec.answer = 1 /\ (WrongType("sliding_window") \/ local[s].answer = 1)
<1>1. /\ pc[s] = "count" /\ s \in Busy /\ UNCHANGED <<store, strategy, entry, counter, clock, faults, switches>>
      /\ LimiterTyped /\ faults' \in Nat /\ faults' >= faults /\ Untouched
  BY DEF CountHits, Busy, OrderInv, LimiterTyped, Untouched
<1>2. store = "redis" /\ local[s].how = "sliding_window"
  BY <1>1, Located
<1>3. IsFiniteSet(Entry.scores) /\ Cardinality(Entry.scores) \in Nat
  BY KeyNow, FS_CardinalityType DEF HitsIn
<1>4. KeyStep(s)
  BY <1>1, <1>2, UntouchedStep
<1> DEFINE n == IF WrongType("sliding_window") \/ local[s].answer = 1 THEN 1 ELSE Cardinality(Entry.scores)
<1>5. Goto(s, "renew", [local[s] EXCEPT !.answer = n]) /\ n \in Nat
  BY <1>3 DEF CountHits
<1>6. \/ n = Cardinality(Entry.scores)
      \/ n = 1 /\ (WrongType("sliding_window") \/ local[s].answer = 1)
  OBVIOUS
<1> HIDE DEF n
<1>7. PICK rec : Goes(s, "renew", rec) /\ rec.now = local[s].now /\ rec.window = local[s].window /\ rec.answer = n
  BY <1>1, <1>5, PipeGoes
<1> QED BY <1>1, <1>2, <1>3, <1>4, <1>6, <1>7

\* Part of the log is finite.
LEMMA LogPart ==
  ASSUME NEW n \in Nat, NEW P \in SUBSET (1..n)
  PROVE  IsFiniteSet(P) /\ Cardinality(P) \in Nat
<1>1. IsFiniteSet(1..n)
  BY FS_Interval
<1> QED BY <1>1, FS_Subset, FS_CardinalityType

\* Who is alone counts its own hit and those of requests in the log.
LEMMA AloneCounts ==
  ASSUME OrderInv, NEW s \in Busy, pc[s] = "count", local[s].alone
  PROVE  Cardinality(Entry.scores) <=
           1 + Cardinality({i \in DOMAIN log : log[i].decided > local[s].now - Window})
<1> DEFINE I == {i \in DOMAIN log : log[i].decided > local[s].now - Window}
           N == {log[i].nr : i \in I}
           H == Entry.scores
<1>1. Busy = {s} /\ \A h \in H : h.at > local[s].now - Window
  BY DEF OrderInv, AloneHolds, AloneAt
<1>2. /\ local[s].now \in Nat /\ Window \in Nat
      /\ \A i \in DOMAIN log : log[i].decided \in Nat
      /\ DOMAIN log = 1..Len(log) /\ Len(log) \in Nat
  <2>1. local[s].now \in Times /\ (\A i \in DOMAIN log : log[i] \in Logged) /\ log \in Seq(Logged)
    BY Located DEF InFlight, OrderInv, LimiterTyped
  <2>2. \A i \in DOMAIN log : log[i].decided \in Times
    BY <2>1 DEF Logged
  <2> QED BY <2>1, <2>2, Numbers, RateAssumption DEF Times
<1>3. IsFiniteSet(I) /\ Cardinality(I) \in Nat /\ I \subseteq DOMAIN log
  BY <1>2, LogPart
<1>4. HitsIn(H, Owners) /\ H \in SUBSET StoredHits
  BY KeyNow
<1>5. ASSUME NEW h \in H PROVE h.nr \in N \cup {local[s].nr}
  <2>1. PICK o \in Owners : o[1] = h.nr /\ h.at <= o[2]
    BY <1>4 DEF HitsIn
  <2>2. CASE \E i \in DOMAIN log : o = <<log[i].nr, log[i].decided>>
    <3>1. PICK i \in DOMAIN log : o = <<log[i].nr, log[i].decided>>
      BY <2>2
    <3>2. h.at \in Nat /\ h.at > local[s].now - Window /\ h.at <= log[i].decided /\ h.nr = log[i].nr
      BY <1>1, <1>4, <2>1, <3>1, RateAssumption DEF StoredHits, Times
    <3> QED BY <1>2, <3>2
  <2>3. CASE \E t \in InKey : o = <<local[t].nr, local[t].now>>
    <3>1. InKey \subseteq {s}
      BY <1>1 DEF InKey, Busy
    <3> QED BY <2>1, <2>3, <3>1
  <2> QED BY <2>2, <2>3 DEF Owners
<1> HIDE DEF I, H
<1>6. IsFiniteSet(N) /\ Cardinality(N) <= Cardinality(I) /\ Cardinality(N) \in Nat
  <2> DEFINE f == [i \in I |-> log[i].nr]
  <2>1. f \in [I -> N] /\ \A n \in N : \E i \in I : f[i] = n
    OBVIOUS
  <2>2. f \in Surjection(I, N)
    BY <2>1 DEF Surjection
  <2> QED BY <1>3, <2>2, FS_Surjection, FS_CardinalityType
<1> HIDE DEF N
<1> DEFINE M == N \cup {local[s].nr}
           g == [h \in H |-> h.nr]
<1>7. IsFiniteSet(M) /\ Cardinality(M) <= 1 + Cardinality(N) /\ Cardinality(M) \in Nat
  <2>1. IsFiniteSet(M) /\ Cardinality(M) = (IF local[s].nr \in N THEN Cardinality(N) ELSE Cardinality(N) + 1)
    BY <1>6, FS_AddElement
  <2> QED BY <1>6, <2>1
<1>8. g \in [H -> M] /\ \A x, y \in H : g[x] = g[y] => x = y
  BY <1>4, <1>5 DEF HitsIn
<1> HIDE DEF M
<1>9. Cardinality(H) <= Cardinality(M) /\ IsFiniteSet(H)
  BY <1>7, <1>8, Fewer
<1>10. Cardinality(H) <= 1 + Cardinality(I)
  BY <1>3, <1>6, <1>7, <1>9, FS_CardinalityType
<1> QED BY <1>10 DEF H, I

LEMMA CountHitsKeeps ==
  ASSUME OrderInv, NEW s \in Servers, CountHits(s)
  PROVE  OrderInv'
<1>1. /\ pc[s] = "count" /\ s \in Busy /\ KeyStep(s) /\ local[s].how = "sliding_window" /\ clock' = clock
      /\ entry' = entry
  BY CountHitsActs
<1>2. PICK rec : /\ Goes(s, "renew", rec) /\ rec.now = local[s].now /\ rec.window = local[s].window
                 /\ rec.answer = Cardinality(Entry.scores) \/ rec.answer = 1
  BY CountHitsActs
<1>3. rec.alone => AloneAt(s)'
  <2> SUFFICES ASSUME rec.alone PROVE AloneAt(s)'
    OBVIOUS
  <2> DEFINE m == Cardinality({i \in DOMAIN log : log[i].decided > local[s].now - Window})
  <2>1. m \in Nat
    <3>1. DOMAIN log = 1..Len(log) /\ Len(log) \in Nat
      BY DEF OrderInv, LimiterTyped
    <3> HIDE DEF m
    <3> QED BY <3>1, LogPart DEF m
  <2>2. Cardinality(Entry.scores) <= 1 + m
    BY <1>1, <1>2, AloneCounts DEF Goes
  <2> HIDE DEF m
  <2>3. rec.answer <= 1 + m
    BY <1>2, <2>1, <2>2
  <2>4. pc'[s] = "renew" /\ local'[s].answer = rec.answer /\ local'[s].now = local[s].now /\ log' = log
    BY <1>2 DEF Goes
  <2> QED BY <2>3, <2>4 DEF AloneAt, m
<1>4. HitsIn(entry'.scores, Owners) /\ entry.count \in Nat
  BY <1>1, KeyNow DEF OrderInv, HitsLogged
<1>5. rec.now >= rec.arrived /\ rec.now <= clock /\ rec.window <= clock
  BY <1>1, <1>2, Located DEF Goes, InFlight, Times
<1>6. "renew" \in Places \ {"idle"} /\ "renew" \in PlacedAt(local[s].how)
  BY <1>1 DEF Places, PlacedAt
<1> QED BY <1>1, <1>2, <1>3, <1>4, <1>5, <1>6, GoesKey

\* The answer of ZCARD stays while EXPIRE is on its way.
LEMMA RenewActs ==
  ASSUME OrderInv, NEW s \in Servers, Renew(s)
  PROVE  /\ pc[s] = "renew" /\ s \in Busy /\ store = "redis" /\ local[s].how = "sliding_window"
         /\ UNCHANGED <<store, strategy, counter, clock, faults, switches>> /\ KeyStep(s)
         /\ Ends(s, local[s].answer, 0)
         /\ \/ Entry.kind = "none" /\ entry' = entry
            \/ /\ Entry.kind # "none" /\ entry' \in Keys /\ entry'.kind = Entry.kind
               /\ entry'.count = Entry.count /\ entry'.expires = clock + Window /\ entry'.scores = Entry.scores
<1>1. /\ pc[s] = "renew" /\ s \in Busy /\ UNCHANGED <<store, strategy, counter, clock, faults, switches>>
      /\ LimiterTyped /\ faults' \in Nat /\ faults' >= faults /\ 0 \in Times /\ 0 <= clock
  BY RateAssumption DEF Renew, Busy, OrderInv, LimiterTyped, Times
<1>2. store = "redis" /\ local[s].how = "sliding_window" /\ local[s].answer \in Nat
  BY <1>1, Located DEF InFlight
<1>3. Ends(s, local[s].answer, 0)
  <2>1. AnswerCount(s, local[s].answer, 0)
    BY DEF Renew
  <2> QED BY <1>1, <1>2, <2>1, Ended
<1>4. CASE Entry.kind = "none"
  <2>1. Untouched
    BY <1>4 DEF Renew, Renewed
  <2>2. KeyStep(s) /\ entry' = entry
    BY <1>1, <1>2, <2>1, UntouchedStep
  <2> QED BY <1>1, <1>2, <1>3, <1>4, <2>2
<1>5. CASE Entry.kind # "none"
  <2> DEFINE x == clock + Window
             v == [Entry EXCEPT !.expires = x]
  <2>1. v \in Keys /\ Keyed(v) /\ Write(s, v) /\ Entry \in Keys
    BY <1>1, <1>5, Writable DEF Renew, Renewed
  <2> HIDE DEF x
  <2>2. v.kind = Entry.kind /\ v.count = Entry.count /\ v.expires = x /\ v.scores = Entry.scores
    BY <2>1 DEF Keys
  <2> HIDE DEF v
  <2>3. Pure /\ local[s].how = strategy => v.kind \in {"none", KindOf(strategy)}
    BY <2>2 DEF Pure, WrongType
  <2>4. KeyStep(s) /\ entry' = v
    BY <1>1, <1>2, <2>1, <2>3, WriteStep
  <2> QED BY <1>1, <1>2, <1>3, <1>5, <2>1, <2>2, <2>4 DEF x
<1> QED BY <1>4, <1>5

LEMMA RenewKeeps ==
  ASSUME OrderInv, NEW s \in Servers, Renew(s)
  PROVE  OrderInv'
<1>1. /\ pc[s] = "renew" /\ s \in Busy /\ KeyStep(s) /\ LimiterTyped /\ clock \in Nat
      /\ Ends(s, local[s].answer, 0) /\ clock + Window \in Int /\ clock + Window # None
  BY RenewActs, Numbers, RateAssumption DEF OrderInv, LimiterTyped, Times
<1>2. CASE entry' = entry
  <2>1. HitsIn(entry'.scores, Owners) /\ entry.count \in Nat
    BY <1>2, KeyNow DEF OrderInv, HitsLogged
  <2> QED BY <1>1, <1>2, <2>1, EndsKey
<1>3. CASE entry'.count = Entry.count /\ entry'.expires = clock + Window /\ entry'.scores = Entry.scores
  <2>1. HitsIn(entry'.scores, Owners) /\ entry'.count <= entry.count
    BY <1>3, KeyNow
  <2> QED BY <1>1, <1>3, <2>1, EndsKey
<1> QED BY <1>2, <1>3, RenewActs

\* An attempt is not the last, or the request passes.
LEMMA AgainCases ==
  ASSUME OrderInv, NEW s \in Busy, Again(s)
  PROVE  \/ Ends(s, 1, 0)
         \/ /\ local[s].attempt < 2
            /\ \E rec : Goes(s, "watch", rec) /\ rec.now = clock /\ rec.window = local[s].window
<1>1. /\ s \in Servers /\ pc[s] # "idle" /\ LimiterTyped /\ local[s] \in InFlight /\ clock \in Times
      /\ 0 \in Times /\ 0 <= clock
  BY Located, RateAssumption DEF OrderInv, LimiterTyped, Times
<1>2. CASE local[s].attempt < 2
  <2> DEFINE l == local[s]
             a == local[s].attempt + 1
             rec == [l EXCEPT !.attempt = a, !.now = clock]
  <2>1. Goto(s, "watch", rec)
    BY <1>2 DEF Again
  <2>2. l \in InFlight /\ a \in 0..2
    BY <1>1, <1>2 DEF InFlight
  <2> HIDE DEF l, a
  <2>3. /\ rec \in InFlight /\ rec.arrived = l.arrived /\ rec.how = l.how /\ rec.epoch = l.epoch
        /\ rec.alone = l.alone /\ rec.now = clock /\ rec.window = l.window
        /\ rec.nr = l.nr /\ rec.lapsed = l.lapsed
    BY <1>1, <2>2 DEF InFlight
  <2> HIDE DEF rec
  <2>4. Goes(s, "watch", rec)
    BY <1>1, <2>1, <2>3, Gone DEF Places, l
  <2> QED BY <1>2, <2>3, <2>4 DEF l
<1>3. CASE ~(local[s].attempt < 2)
  <2>1. AnswerCount(s, 1, 0)
    BY <1>3 DEF Again
  <2> QED BY <1>1, <2>1, Ended
<1> QED BY <1>2, <1>3

LEMMA AgainKeeps ==
  ASSUME OrderInv, NEW s \in Busy, pc[s] \in {"watch", "delete", "exec"}, Again(s), KeyStep(s),
         HitsIn(entry'.scores, Owners), entry'.count <= entry.count,
         entry' = entry \/ entry'.kind # "string"
  PROVE  OrderInv'
<1>1. /\ LimiterTyped /\ s \in Servers /\ local[s].how = "token_bucket" /\ s \notin InKey /\ pc[s] # "expire"
      /\ local[s].arrived <= clock /\ local[s].window <= clock /\ clock \in Nat
  <2>1. /\ LimiterTyped /\ s \in Servers /\ local[s].how = "token_bucket" /\ local[s] \in InFlight
        /\ local[s].arrived <= local[s].now /\ local[s].now <= clock /\ local[s].window <= clock
    BY Located DEF OrderInv
  <2>2. clock \in Nat /\ local[s].arrived \in Nat /\ local[s].now \in Nat
    BY <2>1, RateAssumption DEF LimiterTyped, InFlight, Times
  <2> QED BY <2>1, <2>2 DEF InKey
<1>2. CASE Ends(s, 1, 0)
  BY <1>1, <1>2, EndsKey
<1>3. ASSUME NEW rec, Goes(s, "watch", rec), rec.now = clock, rec.window = local[s].window
      PROVE  OrderInv'
  <2>1. rec.alone => AloneAt(s)'
    BY <1>3 DEF Goes, AloneAt
  <2>2. rec.now >= rec.arrived /\ rec.now <= clock /\ rec.window <= clock
    BY <1>1, <1>3 DEF Goes
  <2>3. "watch" \in Places \ {"idle"} /\ "watch" \in PlacedAt(local[s].how)
    BY <1>1 DEF Places, PlacedAt
  <2> QED BY <1>1, <1>3, <2>1, <2>2, <2>3, GoesKey
<1> QED BY <1>2, <1>3, AgainCases

LEMMA ReadBucketActs ==
  ASSUME OrderInv, NEW s \in Servers, ReadBucket(s)
  PROVE  /\ pc[s] = "watch" /\ s \in Busy /\ store = "redis" /\ local[s].how = "token_bucket"
         /\ UNCHANGED <<store, strategy, counter, clock, faults, switches>> /\ KeyStep(s) /\ entry' = entry
         /\ \/ /\ WrongType("token_bucket")
               /\ \E rec : Goes(s, "delete", rec) /\ rec.now = local[s].now /\ rec.window = local[s].window
            \/ /\ ~WrongType("token_bucket") /\ broken' = broken \ {s}
               /\ \E rec :
                    /\ Goes(s, "exec", rec) /\ rec.now = local[s].now /\ rec.window = local[s].window
                    /\ rec.tokens = (IF Entry.kind = "none" THEN Full ELSE Entry.tokens)
                    /\ rec.refill = (IF Entry.kind = "none" THEN local[s].now ELSE Entry.refill)
<1>1. /\ pc[s] = "watch" /\ s \in Busy /\ UNCHANGED <<store, strategy, counter, clock, faults, switches>>
      /\ LimiterTyped /\ faults' \in Nat /\ faults' >= faults /\ entry \in Keys
  BY DEF ReadBucket, Busy, OrderInv, LimiterTyped
<1>2. store = "redis" /\ local[s].how = "token_bucket" /\ local[s] \in InFlight
  BY <1>1, Located
<1>3. CASE WrongType("token_bucket")
  <2> DEFINE rec == local[s]
  <2>1. Untouched /\ Goto(s, "delete", rec)
    BY <1>3 DEF ReadBucket
  <2>2. KeyStep(s) /\ entry' = entry
    BY <1>1, <1>2, <2>1, UntouchedStep
  <2>3. Goes(s, "delete", rec)
    BY <1>1, <1>2, <2>1, Gone DEF Places
  <2> QED BY <1>1, <1>2, <1>3, <2>2, <2>3
<1>4. CASE ~WrongType("token_bucket")
  <2> DEFINE l == local[s]
             t == IF Entry.kind = "none" THEN Full ELSE Entry.tokens
             r == IF Entry.kind = "none" THEN local[s].now ELSE Entry.refill
             rec == [l EXCEPT !.tokens = t, !.refill = r]
  <2>1. Goto(s, "exec", rec) /\ broken' = broken \ {s} /\ entry' = entry
    BY <1>4 DEF ReadBucket
  <2>2. l \in InFlight /\ t \in 0..Full /\ r \in Times
    <3>1. Entry \in Keys /\ Full \in 0..Full
      BY <1>1, Writable, Numbers
    <3> QED BY <1>2, <3>1 DEF Keys, InFlight
  <2> HIDE DEF l, t, r
  <2>3. /\ rec \in InFlight /\ rec.arrived = l.arrived /\ rec.how = l.how /\ rec.epoch = l.epoch
        /\ rec.alone = l.alone /\ rec.now = l.now /\ rec.window = l.window /\ rec.tokens = t /\ rec.refill = r
        /\ rec.nr = l.nr /\ rec.lapsed = l.lapsed
    BY <2>2 DEF InFlight
  <2> HIDE DEF rec
  <2>4. Goes(s, "exec", rec)
    BY <1>1, <2>1, <2>3, Gone DEF Places, l
  <2>5. KeyStep(s)
    <3>1. Pure => ~WrongType(strategy)'
      BY <1>1, <2>1, TypeSame
    <3> QED BY <1>1, <1>2, <2>1, <3>1 DEF KeyStep, OrderInv, LimiterTyped, PastKeys, Keyed
  <2> QED BY <1>1, <1>2, <1>4, <2>1, <2>3, <2>4, <2>5 DEF l, t, r
<1> QED BY <1>3, <1>4

LEMMA ReadBucketKeeps ==
  ASSUME OrderInv, NEW s \in Servers, ReadBucket(s)
  PROVE  OrderInv'
<1>1. /\ pc[s] = "watch" /\ s \in Busy /\ store = "redis" /\ local[s].how = "token_bucket" /\ KeyStep(s)
      /\ clock' = clock /\ LimiterTyped /\ clock \in Nat /\ entry' = entry /\ s \notin InKey
  BY ReadBucketActs, RateAssumption DEF OrderInv, LimiterTyped, Times, InKey
<1>2. /\ local[s].now \in Nat /\ local[s].now <= clock /\ local[s].arrived <= local[s].now
      /\ local[s].window <= clock
  BY <1>1, Located, RateAssumption DEF InFlight, Times
<1>3. HitsIn(entry'.scores, Owners) /\ entry'.count <= entry.count
  BY <1>1, KeyNow DEF OrderInv, HitsLogged
<1>4. ASSUME WrongType("token_bucket"), NEW rec, Goes(s, "delete", rec), rec.now = local[s].now,
             rec.window = local[s].window
      PROVE  OrderInv'
  <2>1. rec.alone => AloneAt(s)'
    BY <1>4 DEF Goes, AloneAt
  <2>2. rec.now >= rec.arrived /\ rec.now <= clock /\ rec.window <= clock
    BY <1>2, <1>4 DEF Goes
  <2>3. "delete" \in Places \ {"idle"} /\ "delete" \in PlacedAt(local[s].how)
    BY <1>1 DEF Places, PlacedAt
  <2>4. ~(Pure /\ local[s].how = strategy)
    BY <1>1, <1>4 DEF Pure
  <2> QED BY <1>1, <1>3, <1>4, <2>1, <2>2, <2>3, <2>4, GoesKey
<1>5. ASSUME ~WrongType("token_bucket"), broken' = broken \ {s}, NEW rec,
             Goes(s, "exec", rec), rec.now = local[s].now, rec.window = local[s].window,
             rec.tokens = (IF Entry.kind = "none" THEN Full ELSE Entry.tokens),
             rec.refill = (IF Entry.kind = "none" THEN local[s].now ELSE Entry.refill)
      PROVE  OrderInv'
  <2>1. AloneAt(s)'
    <3>1. pc'[s] = "exec" /\ local'[s] = rec /\ s \notin broken'
      BY <1>5 DEF Goes
    <3>2. CASE Entry.kind = "none"
      <4>1. entry.kind # "hash" \/ entry.expires <= clock
        BY <3>2 DEF Entry
      <4> QED BY <1>1, <1>5, <3>1, <3>2, <4>1 DEF AloneAt
    <3>3. CASE Entry.kind # "none"
      <4>1. rec.tokens = entry.tokens /\ rec.refill = entry.refill /\ Entry = entry
        BY <1>5, <3>3, KeyNow
      <4>2. entry.kind = "hash"
        BY <1>5, <3>3, <4>1, KindOfHow DEF WrongType
      <4>3. entry.expires # None /\ entry.expires > clock /\ entry.expires \in Nat
        BY <1>1, <4>1, <4>2, EntryType DEF OrderInv, PastKeys, Keyed
      <4> QED BY <1>1, <1>2, <1>5, <3>1, <4>1, <4>2, <4>3 DEF AloneAt
    <3> QED BY <3>2, <3>3
  <2>2. rec.now >= rec.arrived /\ rec.now <= clock /\ rec.window <= clock
    BY <1>2, <1>5 DEF Goes
  <2>3. "exec" \in Places \ {"idle"} /\ "exec" \in PlacedAt(local[s].how)
    BY <1>1 DEF Places, PlacedAt
  <2> QED BY <1>1, <1>3, <1>5, <2>1, <2>2, <2>3, GoesKey
<1> QED BY <1>4, <1>5, ReadBucketActs

\* DEL takes whatever the key is by then.
LEMMA DeleteActs ==
  ASSUME OrderInv, NEW s \in Servers, Delete(s)
  PROVE  /\ pc[s] = "delete" /\ s \in Busy /\ store = "redis" /\ local[s].how = "token_bucket"
         /\ UNCHANGED <<store, strategy, counter, clock, switches>> /\ KeyStep(s) /\ Again(s)
         /\ entry' = entry \/ entry' = Absent
<1>1. /\ pc[s] = "delete" /\ s \in Busy /\ UNCHANGED <<store, strategy, counter, clock, switches>>
      /\ LimiterTyped /\ faults' \in Nat /\ faults' >= faults /\ Again(s)
  BY DEF Delete, Busy, OrderInv, LimiterTyped
<1>2. store = "redis" /\ local[s].how = "token_bucket"
  BY <1>1, Located
<1>3. CASE Untouched
  BY <1>1, <1>2, <1>3, UntouchedStep
<1>4. CASE Write(s, Absent)
  <2>1. Absent \in Keys /\ Keyed(Absent) /\ Absent.kind = "none"
    BY <1>1, Writable DEF Absent
  <2>2. KeyStep(s) /\ entry' = Absent
    BY <1>1, <1>2, <1>4, <2>1, WriteStep
  <2> QED BY <1>1, <1>2, <2>2
<1> QED BY <1>3, <1>4 DEF Delete

LEMMA DeleteKeeps ==
  ASSUME OrderInv, NEW s \in Servers, Delete(s)
  PROVE  OrderInv'
<1>1. /\ pc[s] = "delete" /\ s \in Busy /\ KeyStep(s) /\ Again(s) /\ (entry' = entry \/ entry' = Absent)
  BY DeleteActs
<1>2. Absent.kind = "none" /\ Absent.scores = {} /\ Absent.count = 0 /\ HitsIn({}, Owners)
  BY FS_EmptySet DEF Absent, HitsIn
<1>3. HitsIn(entry'.scores, Owners) /\ entry'.count <= entry.count /\ (entry' = entry \/ entry'.kind # "string")
  <2>1. entry.count \in Nat /\ HitsIn(entry.scores, Owners)
    BY KeyNow DEF OrderInv, HitsLogged
  <2>2. CASE entry' = entry
    BY <2>1, <2>2
  <2>3. CASE entry' = Absent
    BY <1>2, <2>1, <2>3
  <2> QED BY <1>1, <2>2, <2>3
<1> QED BY <1>1, <1>3, AgainKeeps

\* What an EXEC leaves of the key.
LEMMA SpentFields ==
  ASSUME OrderInv, NEW s \in Busy
  PROVE  /\ Spent(s).scores = {} /\ Spent(s).count = 0 /\ Spent(s).kind = "hash"
         /\ Spent(s).tokens = Taken(Flowed(s)) /\ Spent(s).refill = local[s].now
         /\ Spent(s).expires = clock + 2 * Window
         /\ TokenCount(Flowed(s)) \in 1..(Limit + 1) /\ Flowed(s) \in 0..Full
<1>1. local[s].tokens \in 0..Full /\ local[s].refill \in Nat /\ local[s].now \in Nat
  BY Located, RateAssumption DEF InFlight, Times
<1>2. TokenCount(Flowed(s)) \in 1..(Limit + 1) /\ Flowed(s) \in 0..Full
  BY <1>1, RefilledType DEF Flowed
<1> QED BY <1>2 DEF Spent, Absent

LEMMA ExecBucketActs ==
  ASSUME OrderInv, NEW s \in Servers, ExecBucket(s)
  PROVE  /\ pc[s] = "exec" /\ s \in Busy /\ store = "redis" /\ local[s].how = "token_bucket"
         /\ UNCHANGED <<store, strategy, counter, clock, faults, switches>> /\ KeyStep(s)
         /\ \/ s \in broken /\ entry' = entry /\ Again(s)
            \/ s \notin broken /\ entry' = Spent(s) /\ Ends(s, TokenCount(Flowed(s)), 0)
<1>1. /\ pc[s] = "exec" /\ s \in Busy /\ UNCHANGED <<store, strategy, counter, clock, faults, switches>>
      /\ LimiterTyped /\ faults' \in Nat /\ faults' >= faults /\ 0 \in Times /\ 0 <= clock
  BY RateAssumption DEF ExecBucket, Busy, OrderInv, LimiterTyped, Times
<1>2. store = "redis" /\ local[s].how = "token_bucket"
  BY <1>1, Located
<1>3. CASE s \in broken
  <2>1. Again(s) /\ Untouched
    BY <1>3 DEF ExecBucket
  <2>2. KeyStep(s) /\ entry' = entry
    BY <1>1, <1>2, <2>1, UntouchedStep
  <2> QED BY <1>1, <1>2, <1>3, <2>1, <2>2
<1>4. CASE s \notin broken
  <2>1. Write(s, Spent(s)) /\ AnswerCount(s, TokenCount(Flowed(s)), 0)
    BY <1>4 DEF ExecBucket
  <2>2. Spent(s) \in Keys /\ Keyed(Spent(s))
    BY <1>1, Writable
  <2>3. TokenCount(Flowed(s)) \in Nat
    BY <1>1, SpentFields, Numbers
  <2>4. Ends(s, TokenCount(Flowed(s)), 0)
    BY <1>1, <2>1, <2>3, Ended
  <2>5. KeyStep(s) /\ entry' = Spent(s)
    BY <1>1, <1>2, <2>1, <2>2, SpentFields, WriteStep, KindOfHow
  <2> QED BY <1>1, <1>2, <1>4, <2>4, <2>5
<1> QED BY <1>3, <1>4

LEMMA ExecBucketKeeps ==
  ASSUME OrderInv, NEW s \in Servers, ExecBucket(s)
  PROVE  OrderInv'
<1>1. pc[s] = "exec" /\ s \in Busy /\ KeyStep(s)
  BY ExecBucketActs
<1>2. CASE entry' = entry /\ Again(s)
  <2>1. HitsIn(entry'.scores, Owners) /\ entry'.count <= entry.count
    BY <1>2, KeyNow DEF OrderInv, HitsLogged
  <2> QED BY <1>1, <1>2, <2>1, AgainKeeps
<1>3. CASE entry' = Spent(s) /\ Ends(s, TokenCount(Flowed(s)), 0)
  <2>1. HitsIn(entry'.scores, Owners)
    BY <1>1, <1>3, SpentFields, FS_EmptySet DEF HitsIn
  <2>2. entry'.count <= entry.count /\ entry'.kind # "string"
    BY <1>1, <1>3, SpentFields, KeyNow
  <2> QED BY <1>1, <1>3, <2>1, <2>2, EndsKey
<1> QED BY <1>2, <1>3, ExecBucketActs

LEMMA UnreachableKeeps ==
  ASSUME OrderInv, NEW s \in Servers, Unreachable(s)
  PROVE  OrderInv'
<1>1. /\ pc[s] \in {"incr", "evict", "add", "count", "renew", "watch", "exec"} /\ s \in Busy
      /\ UNCHANGED <<store, strategy, counter, clock, switches>>
      /\ LimiterTyped /\ faults' \in Nat /\ faults' >= faults /\ faults' # 0 /\ clock \in Nat
      /\ 0 \in Times /\ 0 <= clock
  BY RateAssumption DEF Unreachable, Busy, OrderInv, LimiterTyped, Times
<1>2. store = "redis" /\ pc[s] # "expire"
  BY <1>1, Located
<1>3. Ends(s, 1, 0)
  BY <1>1, Ended DEF Unreachable
<1>4. entry.count \in Nat /\ Entry.count <= entry.count /\ HitsIn(Entry.scores, Owners) /\ Entry.count \in Nat
  BY KeyNow
<1>5. ASSUME NEW v \in Keys, Keyed(v), Write(s, v), v.count <= entry.count + 1, HitsIn(v.scores, Owners),
             Pure /\ local[s].how = strategy => v.kind \in {"none", KindOf(strategy)}
      PROVE  OrderInv'
  <2>1. KeyStep(s) /\ entry' = v
    BY <1>1, <1>2, <1>5, WriteStep
  <2> QED BY <1>1, <1>2, <1>3, <1>5, <2>1, EndsKey
<1>6. CASE Untouched
  <2>1. KeyStep(s) /\ entry' = entry
    BY <1>1, <1>2, <1>6, UntouchedStep
  <2>2. HitsIn(entry'.scores, Owners)
    BY <2>1 DEF OrderInv, HitsLogged
  <2> QED BY <1>1, <1>2, <1>3, <1>4, <2>1, <2>2, EndsKey
<1>7. CASE pc[s] = "incr" /\ ~WrongType("fixed_window") /\ Write(s, Incremented)
  <2>1. /\ Incremented \in Keys /\ Keyed(Incremented) /\ Incremented.kind = "string"
        /\ Incremented.count = Entry.count + 1 /\ Incremented.scores = Entry.scores
    BY <1>1, <1>7, Writable
  <2>2. Incremented.count <= entry.count + 1
    BY <1>4, <2>1
  <2>3. Pure /\ local[s].how = strategy => Incremented.kind \in {"none", KindOf(strategy)}
    BY <1>1, <1>7, <2>1, Located, KindOfHow
  <2> QED BY <1>4, <1>5, <1>7, <2>1, <2>2, <2>3
<1>8. CASE pc[s] = "renew" /\ Entry.kind # "none" /\ Write(s, [Entry EXCEPT !.expires = clock + Window])
  <2> DEFINE v == [Entry EXCEPT !.expires = clock + Window]
  <2>1. v \in Keys /\ Keyed(v) /\ Write(s, v) /\ Entry \in Keys
    BY <1>1, <1>8, Writable
  <2>2. v.count = Entry.count /\ v.scores = Entry.scores /\ v.kind = Entry.kind
    BY <2>1 DEF Keys
  <2> HIDE DEF v
  <2>3. Pure /\ local[s].how = strategy => v.kind \in {"none", KindOf(strategy)}
    BY <2>2 DEF Pure, WrongType
  <2> QED BY <1>4, <1>5, <2>1, <2>2, <2>3
<1>9. CASE pc[s] = "exec" /\ s \notin broken /\ Write(s, Spent(s))
  <2>1. Spent(s) \in Keys /\ Keyed(Spent(s)) /\ Spent(s).scores = {} /\ Spent(s).count = 0 /\ Spent(s).kind = "hash"
    BY <1>1, Writable, SpentFields
  <2>2. HitsIn({}, Owners)
    BY FS_EmptySet DEF HitsIn
  <2>3. Pure /\ local[s].how = strategy => Spent(s).kind \in {"none", KindOf(strategy)}
    BY <1>1, <1>9, <2>1, Located, KindOfHow
  <2>4. Spent(s).count <= entry.count + 1
    BY <1>4, <2>1
  <2> QED BY <1>5, <1>9, <2>1, <2>2, <2>3, <2>4
<1> QED BY <1>6, <1>7, <1>8, <1>9 DEF Unreachable, Renewed

----------------------------------------------------------------------------
(* Memory, arrivals, the policy and the clock.                              *)

\* The memory store counts and answers at once.
LEMMA CountLockedActs ==
  ASSUME OrderInv, NEW s \in Servers, CountLocked(s)
  PROVE  /\ pc[s] = "locked" /\ s \in Busy /\ store = "memory" /\ entry = Absent
         /\ UNCHANGED <<store, strategy, entry, clock, broken, faults, switches>> /\ counter' \in Counters
         /\ \/ /\ local[s].how = "fixed_window" /\ (counter.start = None \/ clock - counter.start >= Window)
               /\ counter'.start = clock /\ counter'.count = 1 /\ counter'.hits = {} /\ counter'.refill = None
               /\ Ends(s, 1, clock)
            \/ /\ local[s].how = "fixed_window" /\ counter.start # None /\ clock - counter.start < Window
               /\ counter'.start = counter.start /\ counter'.count = counter.count + 1
               /\ counter'.hits = counter.hits /\ counter'.refill = counter.refill
               /\ Ends(s, counter.count + 1, counter.start)
            \/ /\ local[s].how = "sliding_window"
               /\ counter'.hits = Recent(counter.hits, clock) \cup {Hit(local[s].nr, clock)}
               /\ counter'.start = clock /\ counter'.count = Cardinality(counter'.hits)
               /\ counter'.count <= Len(log) + 1 /\ counter'.refill = counter.refill
               /\ Ends(s, Cardinality(counter'.hits), 0)
            \/ /\ local[s].how = "token_bucket" /\ TokensAt(clock) \in 0..Full
               /\ TokenCount(TokensAt(clock)) \in 1..(Limit + 1)
               /\ counter'.tokens = Taken(TokensAt(clock)) /\ counter'.refill = clock
               /\ counter'.count = TokenCount(TokensAt(clock))
               /\ counter'.hits = counter.hits /\ counter'.start = counter.start
               /\ Ends(s, TokenCount(TokensAt(clock)), 0)
<1> DEFINE fresh == counter.start = None \/ clock - counter.start >= Window
           hits == Recent(counter.hits, clock) \cup {Hit(local[s].nr, clock)}
           refill == IF counter.refill = None THEN clock ELSE counter.refill
           tokens == Refilled(IF counter.refill = None THEN Full ELSE counter.tokens, refill, clock)
<1>1. /\ pc[s] = "locked" /\ s \in Busy /\ LimiterTyped
      /\ UNCHANGED <<store, strategy, entry, clock, broken, faults, switches>>
      /\ clock \in Nat /\ clock \in Times /\ 0 \in Times /\ 0 <= clock
  BY RateAssumption DEF CountLocked, Busy, OrderInv, LimiterTyped, Times
<1>2. store = "memory" /\ entry = Absent
  BY <1>1, Located DEF OrderInv, OneStore
<1>3. /\ counter \in Counters /\ counter.hits \in SUBSET StoredHits /\ HitsIn(counter.hits, Owners)
      /\ counter.count \in Nat /\ Len(log) \in Nat /\ local[s].nr \in Nat
      /\ Cardinality(counter.hits) <= Len(log)
      /\ \A o \in Owners : o[1] # local[s].nr
  <2>1. local[s].nr \in Nat /\ s \notin InKey
    BY <1>1, Located DEF InFlight, InKey
  <2>2. \A o \in Owners : o[1] # local[s].nr
    BY <1>1, <2>1, NotOwned
  <2> QED BY <1>1, <2>1, <2>2 DEF OrderInv, LimiterTyped, Counters, HitsLogged
<1>4. CASE local[s].how = "fixed_window"
  <2>1. /\ counter' = IF fresh THEN [NoCounter EXCEPT !.start = clock, !.count = 1]
                      ELSE [counter EXCEPT !.count = @ + 1]
        /\ AnswerCount(s, counter'.count, counter'.start)
    BY <1>4 DEF CountLocked
  <2>2. CASE fresh
    <3>1. counter' = [start |-> clock, count |-> 1, hits |-> {}, tokens |-> 0, refill |-> None]
      BY <2>1, <2>2 DEF NoCounter
    <3>2. counter' \in Counters
      BY <1>1, <3>1, Numbers DEF Counters
    <3>3. counter'.start = clock /\ counter'.count = 1 /\ counter'.hits = {} /\ counter'.refill = None
      BY <3>1
    <3>4. AnswerCount(s, 1, clock) /\ clock <= clock
      BY <1>1, <2>1, <3>3
    <3>5. Ends(s, 1, clock)
      BY <1>1, <3>4, Ended
    <3> QED BY <1>1, <1>2, <1>4, <2>2, <3>2, <3>3, <3>5
  <2>3. CASE ~fresh
    <3>1. counter' \in Counters /\ counter'.start = counter.start /\ counter'.count = counter.count + 1
          /\ counter'.hits = counter.hits /\ counter'.refill = counter.refill
      BY <1>3, <2>1, <2>3 DEF Counters
    <3>2. counter.start \in Times /\ counter.start <= clock /\ clock - counter.start < Window
      BY <1>1, <1>3, <2>3, RateAssumption DEF Counters, OrderInv, PastKeys, Times
    <3>3. AnswerCount(s, counter.count + 1, counter.start) /\ counter.count + 1 \in Nat
      BY <1>3, <2>1, <3>1
    <3>4. Ends(s, counter.count + 1, counter.start)
      BY <1>1, <3>2, <3>3, Ended
    <3> QED BY <1>1, <1>2, <1>4, <2>3, <3>1, <3>2, <3>4
  <2> QED BY <2>2, <2>3
<1>5. CASE local[s].how = "sliding_window"
  <2>1. /\ counter' = [counter EXCEPT !.hits = hits, !.count = Cardinality(hits), !.start = clock]
        /\ AnswerCount(s, Cardinality(hits), 0)
    BY <1>5 DEF CountLocked
  <2>2. PICK n \in Nat : n = Cardinality(hits) /\ n <= Len(log) + 1 /\ hits \in SUBSET StoredHits
    <3>1. IsFiniteSet(Recent(counter.hits, clock)) /\ Cardinality(Recent(counter.hits, clock)) <= Cardinality(counter.hits)
      BY <1>3, FS_Subset DEF Recent, HitsIn
    <3>2. Hit(local[s].nr, clock) \in StoredHits /\ Hit(local[s].nr, clock) \notin Recent(counter.hits, clock)
      BY <1>1, <1>3 DEF Hit, StoredHits, Recent, HitsIn
    <3>3. Cardinality(hits) = Cardinality(Recent(counter.hits, clock)) + 1 /\ IsFiniteSet(hits)
      BY <3>1, <3>2, FS_AddElement
    <3>4. Cardinality(Recent(counter.hits, clock)) \in Nat /\ Cardinality(counter.hits) \in Nat
      BY <1>3, <3>1, FS_CardinalityType DEF HitsIn
    <3>5. hits \in SUBSET StoredHits
      BY <1>3, <3>2 DEF Recent
    <3> HIDE DEF hits
    <3> QED BY <1>3, <3>1, <3>3, <3>4, <3>5
  <2> HIDE DEF hits
  <2>3. counter' = [counter EXCEPT !.hits = hits, !.count = n, !.start = clock] /\ AnswerCount(s, n, 0)
    BY <2>1, <2>2
  <2>4. counter' \in Counters /\ counter'.start = clock /\ counter'.count = n /\ counter'.hits = hits
        /\ counter'.refill = counter.refill
    BY <1>1, <1>3, <2>2, <2>3 DEF Counters
  <2>5. Ends(s, n, 0)
    BY <1>1, <2>3, Ended
  <2> QED BY <1>1, <1>2, <1>5, <2>2, <2>4, <2>5 DEF hits
<1>6. CASE local[s].how = "token_bucket"
  <2>1. /\ counter' = [counter EXCEPT !.tokens = Taken(tokens), !.refill = Stamp(refill, clock),
                                      !.count = TokenCount(tokens)]
        /\ AnswerCount(s, TokenCount(tokens), 0)
    BY <1>6 DEF CountLocked
  <2>2. refill \in Nat /\ refill <= clock /\ (IF counter.refill = None THEN Full ELSE counter.tokens) \in 0..Full
        /\ Full \in 0..Full
    <3>1. Full \in 0..Full /\ None \notin Int
      BY Numbers, RateAssumption
    <3>2. counter.refill # None => counter.refill \in Nat /\ counter.refill <= clock
      BY <1>3, RateAssumption DEF Counters, Times, OrderInv, PastKeys
    <3> QED BY <1>1, <1>3, <3>1, <3>2 DEF Counters
  <2>3. tokens = TokensAt(clock)
    BY <1>1, <1>2, Numbers DEF TokensAt, Refilled
  <2>4. TokensAt(clock) \in 0..Full /\ Taken(TokensAt(clock)) \in 0..Full /\ TokenCount(TokensAt(clock)) \in 1..(Limit + 1)
    <3> HIDE DEF refill
    <3>1. tokens \in 0..Full /\ Taken(tokens) \in 0..Full /\ TokenCount(tokens) \in 1..(Limit + 1)
      BY <1>1, <2>2, RefilledType
    <3> QED BY <2>3, <3>1
  <2>5. Stamp(refill, clock) = clock
    <3> HIDE DEF refill
    <3> QED BY <1>1, <2>2 DEF Stamp
  <2> DEFINE t == Taken(TokensAt(clock))
             n == TokenCount(TokensAt(clock))
  <2>6. /\ counter' = [counter EXCEPT !.tokens = t, !.refill = clock, !.count = n] /\ AnswerCount(s, n, 0)
        /\ t \in 0..Full /\ n \in Nat
    <3>1. n \in Nat
      <4> HIDE DEF tokens
      <4> QED BY <2>4, RateAssumption
    <3> QED BY <2>1, <2>3, <2>4, <2>5, <3>1
  <2> HIDE DEF t, n
  <2>7. counter' \in Counters /\ counter'.start = counter.start /\ counter'.count = n /\ counter'.hits = counter.hits
        /\ counter'.refill = clock /\ counter'.tokens = t
    BY <1>1, <1>3, <2>6 DEF Counters
  <2>8. Ends(s, n, 0)
    BY <1>1, <2>6, Ended
  <2> QED BY <1>1, <1>2, <1>6, <2>4, <2>7, <2>8 DEF t, n
<1> QED BY <1>4, <1>5, <1>6 DEF CountLocked

LEMMA CountLockedKeeps ==
  ASSUME OrderInv, NEW s \in Servers, CountLocked(s)
  PROVE  OrderInv'
<1> DEFINE hits == Recent(counter.hits, clock) \cup {Hit(local[s].nr, clock)}
<1>1. /\ s \in Busy /\ s \notin InKey /\ LimiterTyped /\ clock \in Nat /\ clock \in Times /\ store = "memory" /\ entry = Absent
      /\ UNCHANGED <<store, strategy, entry, clock, broken, faults, switches>> /\ counter' \in Counters
  BY CountLockedActs, RateAssumption DEF OrderInv, LimiterTyped, Times, InKey
<1>2. /\ counter.hits \in SUBSET StoredHits /\ HitsIn(counter.hits, Owners) /\ counter.count \in Nat
      /\ counter.count <= Limit + Len(log) /\ Limit \in Nat /\ Len(log) \in Nat
      /\ (counter.start # None => counter.start <= clock) /\ (counter.refill # None => counter.refill <= clock)
  BY <1>1, RateAssumption DEF OrderInv, LimiterTyped, Counters, HitsLogged, Bounded, PastKeys
<1>3. ASSUME NEW n, NEW w, Ends(s, n, w), counter'.count <= Limit + Len(log) + 1,
             counter'.start # None => counter'.start <= clock,
             counter'.refill # None => counter'.refill <= clock,
             counter'.hits = {} \/ counter'.hits = counter.hits \/ (local[s].how = "sliding_window" /\ counter'.hits = hits)
      PROVE  OrderInv'
  <2>1. Pure /\ local[s].how = strategy => ~WrongType(strategy)'
    BY <1>1, TypeSame
  <2>2. /\ RequestsPlaced' /\ PastRequests' /\ RoomKept' /\ AloneHolds' /\ StrategySettled'
        /\ Numbered' /\ Later(Owners, Owners')
        /\ Cardinality({t \in Servers : pc'[t] = "expire"}) =
             Cardinality({t \in Servers : pc[t] = "expire"}) - (IF pc[s] = "expire" THEN 1 ELSE 0)
        /\ Cardinality({t \in Servers : pc[t] = "expire"}) \in Nat
    BY <1>1, <1>3, <2>1, EndsRest
  <2>3. LimiterTyped'
    BY <1>1, <1>3 DEF LimiterTyped, Ends
  <2>4. OneStore' /\ PastKeys' /\ KeysLive'
    BY <1>1, <1>3 DEF OrderInv, OneStore, PastKeys, Keyed, KeysLive, Absent
  <2>5. Bounded'
    <3>1. entry'.count = 0
      BY <1>1 DEF Absent
    <3>2. counter'.count <= Limit + Len(log')
      BY <1>2, <1>3 DEF Ends
    <3>3. 0 <= Len(log') + Cardinality({t \in Servers : pc'[t] = "expire"})
      BY <1>2, <1>3, <2>2 DEF Ends
    <3> QED BY <3>1, <3>2, <3>3 DEF Bounded
  <2>6. HitsLogged'
    <3>1. Later(Owners, Owners') /\ Len(log') = Len(log) + 1 /\ <<local[s].nr, clock>> \in Owners'
      BY <2>2, <1>3 DEF Ends, Owners
    <3>2. HitsIn({}, Owners') /\ Cardinality({}) = 0
      BY FS_EmptySet DEF HitsIn
    <3>3. HitsIn(counter.hits, Owners') /\ Cardinality(counter.hits) \in Nat /\ Cardinality(counter.hits) <= Len(log)
      BY <1>2, <3>1, HitsStay, FS_CardinalityType DEF HitsIn, OrderInv, HitsLogged
    <3>4. HitsIn(hits, Owners') /\ Cardinality(hits) <= Len(log) + 1
      <4> DEFINE R == Recent(counter.hits, clock)
      <4>1. R \in SUBSET counter.hits
        BY DEF Recent
      <4> HIDE DEF R
      <4>2. /\ R \in SUBSET StoredHits /\ HitsIn(R, Owners) /\ Cardinality(R) <= Cardinality(counter.hits)
        BY <1>2, <4>1, HitsPart, FS_Subset DEF HitsIn
      <4>3. /\ HitsIn(R \cup {Hit(local[s].nr, clock)}, Owners') /\ Cardinality(R) \in Nat
            /\ Cardinality(R \cup {Hit(local[s].nr, clock)}) = Cardinality(R) + 1
        <5>1. \A o \in Owners : o[1] # local[s].nr
          BY <1>1, NotOwned DEF InKey
        <5>2. <<local[s].nr, clock>> \in Owners' /\ clock \in Times /\ Later(Owners, Owners')
          BY <1>1, <3>1 DEF LimiterTyped, OrderInv
        <5> QED BY <4>2, <5>1, <5>2, HitAdded
      <4>4. Cardinality(R \cup {Hit(local[s].nr, clock)}) <= Len(log) + 1
        BY <1>2, <3>3, <4>2, <4>3
      <4> QED BY <4>3, <4>4 DEF R
    <3>5. Cardinality(counter'.hits) <= Len(log') /\ HitsIn(counter'.hits, Owners')
      <4> HIDE DEF hits
      <4>1. CASE counter'.hits = {}
        BY <1>2, <3>1, <3>2, <4>1
      <4>2. CASE counter'.hits = counter.hits
        BY <1>2, <3>1, <3>3, <4>2
      <4>3. CASE counter'.hits = hits
        BY <3>1, <3>4, <4>3
      <4> QED BY <1>3, <4>1, <4>2, <4>3
    <3> QED BY <1>1, <3>2, <3>5 DEF HitsLogged, Absent
  <2> QED BY <2>2, <2>3, <2>4, <2>5, <2>6 DEF OrderInv
<1> HIDE DEF hits
<1>4. counter'.count <= Limit + Len(log) + 1
  <2>1. \/ counter'.count \in {1, counter.count + 1} \/ counter'.count <= Len(log) + 1
        \/ counter'.count \in 1..(Limit + 1)
    BY CountLockedActs
  <2>2. counter'.count \in Nat
    BY <1>1 DEF Counters
  <2> QED BY <1>2, <2>1, <2>2
<1>5. /\ (counter'.start # None => counter'.start <= clock) /\ (counter'.refill # None => counter'.refill <= clock)
      /\ counter'.hits = {} \/ counter'.hits = counter.hits \/ (local[s].how = "sliding_window" /\ counter'.hits = hits)
  BY <1>1, <1>2, CountLockedActs DEF hits
<1>6. \E n, w : Ends(s, n, w)
  BY CountLockedActs
<1> QED BY <1>3, <1>4, <1>5, <1>6

\* Who arrives while another request is under way overlaps with it, both ways.
LEMMA ArriveKeeps ==
  ASSUME OrderInv, NEW s \in Servers, Arrive(s)
  PROVE  OrderInv'
<1> DEFINE place == IF store = "memory" THEN "locked" ELSE Begin(strategy)
           e == IF Pure THEN switches ELSE None
           a == (Busy = {})
           k == Len(log) + Cardinality(Busy) + 1
           new == [Idle EXCEPT !.nr = k, !.arrived = clock, !.now = clock, !.how = strategy, !.epoch = e, !.alone = a]
<1>1. /\ pc[s] = "idle" /\ Len(log) + Cardinality(Busy) < MaxHits /\ LimiterTyped
      /\ UNCHANGED <<store, strategy, entry, counter, clock, broken, faults, switches, log>>
      /\ pc' = [pc EXCEPT ![s] = place]
  BY DEF Arrive, OrderInv
<1>2. /\ strategy \in Kinds /\ clock \in Times /\ clock \in Nat /\ 0 <= clock /\ 0 \in Times /\ switches \in Nat
      /\ None \notin Int /\ Len(log) \in Nat /\ MaxHits \in Nat
  BY <1>1, RateAssumption DEF LimiterTyped, Kinds, Times
<1>3. e \in Epochs /\ a \in BOOLEAN /\ (e = switches <=> Pure) /\ (a <=> Busy = {})
      /\ e \in {None} \cup 0..switches
  BY <1>2 DEF Epochs
<1>18. k = Arrivals + 1 /\ k \in Nat /\ Arrivals \in Nat
  BY <1>1, <1>2, BusyFinite DEF Arrivals
<1>4. local' = [t \in Servers |->
        IF t = s THEN new ELSE IF t \in Busy THEN [local[t] EXCEPT !.alone = FALSE] ELSE local[t]]
  BY DEF Arrive
<1> HIDE DEF e, a, k
<1>5. /\ new \in InFlight /\ new.arrived = clock /\ new.now = clock /\ new.how = strategy /\ new.epoch = e
      /\ new.alone = a /\ new.window = 0 /\ new.nr = k
  <2>1. Idle \in InFlight /\ Idle.window = 0
    BY IdleTyped DEF Idle
  <2> QED BY <1>2, <1>3, <1>18, <2>1 DEF InFlight
<1>6. place \in Places \ {"idle"} /\ place \in (IF store = "memory" THEN {"locked"} ELSE PlacedAt(strategy))
      /\ place \notin {"expire", "exec", "delete", "add", "count", "renew"}
  BY <1>2 DEF Places, PlacedAt, Begin, Kinds
<1> HIDE DEF place, new
<1>7. /\ pc' \in [Servers -> Places] /\ pc'[s] = place /\ local'[s] = new
      /\ \A t \in Servers \ {s} : pc'[t] = pc[t]
      /\ Busy' = Busy \cup {s} /\ s \notin Busy
  BY <1>1, <1>4, <1>6 DEF LimiterTyped, Busy
<1>8. \A t \in Busy : /\ t \in Servers /\ t # s /\ local'[t] \in InFlight /\ local'[t].alone = FALSE
                      /\ local'[t].arrived = local[t].arrived /\ local'[t].now = local[t].now
                      /\ local'[t].how = local[t].how /\ local'[t].epoch = local[t].epoch
                      /\ local'[t].window = local[t].window /\ local'[t].answer = local[t].answer
                      /\ local'[t].nr = local[t].nr
  <2> SUFFICES ASSUME NEW t \in Busy
               PROVE  /\ t \in Servers /\ t # s /\ local'[t] \in InFlight /\ local'[t].alone = FALSE
                      /\ local'[t].arrived = local[t].arrived /\ local'[t].now = local[t].now
                      /\ local'[t].how = local[t].how /\ local'[t].epoch = local[t].epoch
                      /\ local'[t].window = local[t].window /\ local'[t].answer = local[t].answer
                      /\ local'[t].nr = local[t].nr
    OBVIOUS
  <2>1. t \in Servers /\ t # s /\ local[t] \in InFlight
    BY <1>1 DEF Busy, LimiterTyped
  <2>2. local'[t] = [local[t] EXCEPT !.alone = FALSE]
    BY <1>4, <2>1
  <2> QED BY <2>1, <2>2 DEF InFlight
<1>9. local' \in [Servers -> InFlight]
  <2> SUFFICES ASSUME NEW t \in Servers PROVE local'[t] \in InFlight
    BY <1>4
  <2> QED BY <1>1, <1>4, <1>5, <1>7, <1>8 DEF LimiterTyped
<1>10. LimiterTyped'
  BY <1>1, <1>7, <1>9 DEF LimiterTyped
<1>11. RequestsPlaced'
  BY <1>1, <1>5, <1>6, <1>7, <1>8 DEF RequestsPlaced, OrderInv, Busy
<1>12. OneStore' /\ PastKeys' /\ HitsLogged'
  <2>1. InKey' = InKey /\ InKey \subseteq Busy
    BY <1>1, <1>6, <1>7 DEF InKey, Busy
  <2>2. Owners' = Owners
    BY <1>1, <1>8, <2>1 DEF Owners
  <2> QED BY <1>1, <2>2 DEF OrderInv, OneStore, PastKeys, Keyed, HitsLogged
<1>19. Numbered'
  <2>1. Arrivals' = Arrivals + 1
    BY <1>1, <1>2, <1>7, BusyFinite DEF Arrivals
  <2>2. /\ \A t \in Busy : local[t].nr \in 1..Arrivals
        /\ \A i \in DOMAIN log : log[i].nr \in 1..Arrivals
    BY DEF OrderInv, Numbered
  <2>3. local'[s].nr = Arrivals + 1
    BY <1>5, <1>7, <1>18
  <2> QED BY <1>1, <1>7, <1>8, <1>18, <2>1, <2>2, <2>3 DEF OrderInv, Numbered
<1>13. PastRequests'
  BY <1>1, <1>2, <1>5, <1>7, <1>8 DEF OrderInv, PastRequests
<1>14. RoomKept'
  BY <1>1, <1>2, <1>7, BusyFinite DEF RoomKept
<1>15. Bounded' /\ KeysLive'
  <2>1. \A t \in Servers : pc'[t] = "expire" <=> pc[t] = "expire"
    BY <1>1, <1>6, <1>7
  <2>2. {t \in Servers : pc'[t] = "expire"} = {t \in Servers : pc[t] = "expire"}
    BY <2>1
  <2> QED BY <1>1, <2>1, <2>2 DEF OrderInv, Bounded, KeysLive
<1>16. StrategySettled'
  <2>1. Counted' = Counted /\ Fresh' = Fresh \cup (IF Pure THEN {s} ELSE {})
    BY <1>1, <1>3, <1>5, <1>7, <1>8 DEF Counted, Fresh
  <2>2. new.epoch \in {None} \cup 0..switches
    BY <1>3, <1>5
  <2>3. Pure => Pure'
    BY <1>1, <1>5, <1>6, <1>7, <1>8 DEF Pure, WrongType, Entry
  <2>4. \A t \in Busy' : local'[t].epoch \in {None} \cup 0..switches'
    BY <1>1, <1>7, <1>8, <2>2 DEF OrderInv, StrategySettled
  <2> QED BY <1>1, <1>7, <2>1, <2>3, <2>4 DEF OrderInv, StrategySettled
<1>17. AloneHolds'
  <2> SUFFICES ASSUME NEW t \in Busy', local'[t].alone
               PROVE  Busy' = {t} /\ (\A i \in DOMAIN log' : log'[i].decided <= local'[t].arrived) /\ AloneAt(t)'
    BY DEF AloneHolds
  <2>1. t = s /\ Busy = {}
    BY <1>3, <1>5, <1>7, <1>8
  <2>2. AloneAt(t)'
    BY <1>6, <1>7, <2>1 DEF AloneAt
  <2> QED BY <1>1, <1>5, <1>7, <2>1, <2>2 DEF OrderInv, PastRequests
<1> QED BY <1>10, <1>11, <1>12, <1>13, <1>14, <1>15, <1>16, <1>17, <1>19 DEF OrderInv

\* A change of strategy leaves nobody counted.
LEMMA SwitchKeeps ==
  ASSUME OrderInv, NEW how \in Strategies, Switch(how)
  PROVE  OrderInv'
<1>1. /\ UNCHANGED <<store, entry, counter, clock, pc, local, broken, faults, log>>
      /\ strategy' = how /\ switches' = switches + 1 /\ switches \in Nat /\ switches' \in Nat /\ None \notin Int
  BY RateAssumption DEF Switch, OrderInv, LimiterTyped
<1>2. LimiterTyped'
  BY <1>1 DEF OrderInv, LimiterTyped
<1>3. Busy' = Busy
  BY <1>1 DEF Busy
<1>7. Owners' = Owners /\ Arrivals' = Arrivals
  BY <1>1, <1>3 DEF Owners, InKey, Arrivals
<1>4. /\ RequestsPlaced' /\ OneStore' /\ PastRequests' /\ PastKeys' /\ RoomKept' /\ Bounded' /\ Numbered'
      /\ HitsLogged' /\ KeysLive'
  <2>1. RequestsPlaced' /\ OneStore' /\ PastRequests' /\ PastKeys'
    BY <1>1, <1>3 DEF OrderInv, RequestsPlaced, OneStore, PastRequests, PastKeys, Keyed
  <2>2. RoomKept' /\ Bounded' /\ KeysLive'
    BY <1>1, <1>3 DEF OrderInv, RoomKept, Bounded, KeysLive
  <2>3. Numbered' /\ HitsLogged'
    BY <1>1, <1>3, <1>7 DEF OrderInv, Numbered, HitsLogged
  <2> QED BY <2>1, <2>2, <2>3
<1>5. AloneHolds'
  <2>1. Entry' = Entry /\ switches' # 0
    BY <1>1 DEF Entry
  <2>2. ASSUME NEW s \in Busy, AloneAt(s) PROVE AloneAt(s)'
    BY <1>1, <2>1, <2>2 DEF AloneAt
  <2> QED BY <1>1, <1>3, <2>2 DEF OrderInv, AloneHolds
<1>6. StrategySettled'
  <2>1. (\A i \in DOMAIN log : log[i].epoch # switches') /\ (\A s \in Busy : local[s].epoch # switches')
    BY <1>1 DEF OrderInv, StrategySettled
  <2>2. Counted' = {} /\ Fresh' = {}
    BY <1>1, <1>3, <2>1 DEF Counted, Fresh
  <2> QED BY <1>1, <1>3, <2>2 DEF OrderInv, StrategySettled
<1> QED BY <1>2, <1>4, <1>5, <1>6 DEF OrderInv

\* The clock changes nothing but what a request knows of the end of its key.
LEMMA TickActs ==
  ASSUME OrderInv, Tick
  PROVE  /\ UNCHANGED <<store, strategy, entry, counter, pc, broken, faults, switches, log>>
         /\ clock \in Nat /\ clock' = clock + 1 /\ clock' \in Times /\ local' \in [Servers -> InFlight]
         /\ \A s \in Servers :
              /\ local'[s].nr = local[s].nr /\ local'[s].arrived = local[s].arrived
              /\ local'[s].now = local[s].now /\ local'[s].how = local[s].how
              /\ local'[s].tokens = local[s].tokens /\ local'[s].refill = local[s].refill
              /\ local'[s].answer = local[s].answer /\ local'[s].epoch = local[s].epoch
              /\ local'[s].alone = local[s].alone /\ local'[s].window = local[s].window
              /\ local'[s].lapsed = (local[s].lapsed \/ (pc[s] \in {"count", "renew"} /\ entry.expires = clock + 1))
         /\ Busy' = Busy /\ Counted' = Counted /\ Fresh' = Fresh /\ InKey' = InKey
         /\ Owners' = Owners /\ Arrivals' = Arrivals
         /\ Entry' = Absent \/ Entry' = Entry
<1>1. /\ UNCHANGED <<store, strategy, entry, counter, pc, broken, faults, switches, log>>
      /\ clock \in Nat /\ clock' = clock + 1 /\ clock' \in Times /\ LimiterTyped
  BY RateAssumption DEF Tick, OrderInv, LimiterTyped, Times
<1>2. local' = [s \in Servers |-> IF pc[s] \in {"count", "renew"} /\ entry.expires = clock + 1
                                  THEN [local[s] EXCEPT !.lapsed = TRUE] ELSE local[s]]
  BY <1>1 DEF Tick
<1>3. ASSUME NEW s \in Servers
      PROVE  /\ local'[s] \in InFlight
             /\ local'[s].nr = local[s].nr /\ local'[s].arrived = local[s].arrived
             /\ local'[s].now = local[s].now /\ local'[s].how = local[s].how
             /\ local'[s].tokens = local[s].tokens /\ local'[s].refill = local[s].refill
             /\ local'[s].answer = local[s].answer /\ local'[s].epoch = local[s].epoch
             /\ local'[s].alone = local[s].alone /\ local'[s].window = local[s].window
             /\ local'[s].lapsed = (local[s].lapsed \/ (pc[s] \in {"count", "renew"} /\ entry.expires = clock + 1))
  <2>1. local[s] \in InFlight
    BY <1>1 DEF LimiterTyped
  <2>2. CASE pc[s] \in {"count", "renew"} /\ entry.expires = clock + 1
    <3>1. local'[s] = [local[s] EXCEPT !.lapsed = TRUE]
      BY <1>2, <2>2
    <3> QED BY <2>1, <2>2, <3>1 DEF InFlight
  <2>3. CASE ~(pc[s] \in {"count", "renew"} /\ entry.expires = clock + 1)
    <3>1. local'[s] = local[s]
      BY <1>2, <2>3
    <3>2. local[s].lapsed \in BOOLEAN
      BY <2>1 DEF InFlight
    <3> QED BY <2>1, <2>3, <3>1, <3>2
  <2> QED BY <2>2, <2>3
<1>4. local' \in [Servers -> InFlight]
  BY <1>2, <1>3
<1>5. Busy' = Busy /\ InKey' = InKey /\ InKey \subseteq Servers /\ Busy \subseteq Servers
  BY <1>1 DEF Busy, InKey
<1>6. Counted' = Counted /\ Fresh' = Fresh /\ Owners' = Owners /\ Arrivals' = Arrivals
  BY <1>1, <1>3, <1>5 DEF Counted, Fresh, Owners, Arrivals
<1>7. Entry' = Absent \/ Entry' = Entry
  <2>1. entry.expires \in {None} \cup Nat
    BY <1>1, RateAssumption, Numbers DEF LimiterTyped, Keys, Times
  <2> QED BY <1>1, <2>1 DEF Entry
<1> QED BY <1>1, <1>3, <1>4, <1>5, <1>6, <1>7

LEMMA TickKeeps ==
  ASSUME OrderInv, Tick
  PROVE  OrderInv'
<1>1. /\ UNCHANGED <<store, strategy, entry, counter, pc, broken, faults, switches, log>>
      /\ clock \in Nat /\ clock' = clock + 1 /\ clock' \in Times /\ LimiterTyped
      /\ local' \in [Servers -> InFlight]
  BY TickActs DEF OrderInv
<1>2. LimiterTyped'
  BY <1>1 DEF LimiterTyped
<1>3. Busy' = Busy /\ Busy \subseteq Servers /\ Counted' = Counted /\ Fresh' = Fresh /\ Owners' = Owners
      /\ Arrivals' = Arrivals
  BY TickActs DEF Busy
<1>9. \A s \in Busy : /\ local'[s].nr = local[s].nr /\ local'[s].arrived = local[s].arrived
                      /\ local'[s].now = local[s].now /\ local'[s].how = local[s].how
                      /\ local'[s].tokens = local[s].tokens /\ local'[s].refill = local[s].refill
                      /\ local'[s].answer = local[s].answer /\ local'[s].epoch = local[s].epoch
                      /\ local'[s].alone = local[s].alone /\ local'[s].window = local[s].window
  BY <1>3, TickActs
<1>4. RequestsPlaced' /\ OneStore' /\ RoomKept' /\ Bounded' /\ Numbered' /\ HitsLogged' /\ KeysLive'
  <2>1. RequestsPlaced' /\ Numbered'
    BY <1>1, <1>3, <1>9 DEF OrderInv, RequestsPlaced, Numbered
  <2> QED BY <1>1, <1>3, <2>1 DEF OrderInv, OneStore, RoomKept, Bounded, HitsLogged, KeysLive
<1>5. PastRequests'
  <2>1. \A s \in Busy : local[s].now \in Nat /\ local[s].window \in Nat
    BY <1>1, RateAssumption DEF LimiterTyped, InFlight, Times, Busy
  <2>2. \A i \in DOMAIN log : log[i] \in Logged
    BY <1>1 DEF LimiterTyped
  <2>3. \A i \in DOMAIN log : log[i].decided \in Nat
    BY <2>2, RateAssumption DEF Logged, Times
  <2> QED BY <1>1, <1>3, <1>9, <2>1, <2>3 DEF OrderInv, PastRequests
<1>6. PastKeys'
  <2>1. /\ entry.born \in Nat /\ entry.refill \in Nat /\ entry.expires \in {None} \cup Nat
        /\ counter.start \in {None} \cup Nat /\ counter.refill \in {None} \cup Nat /\ Window \in Nat
    BY <1>1, RateAssumption, Numbers DEF LimiterTyped, Keys, Counters, Times
  <2>2. Keyed(entry)'
    BY <1>1, <2>1 DEF OrderInv, PastKeys, Keyed
  <2> QED BY <1>1, <2>1, <2>2 DEF OrderInv, PastKeys
<1>7. StrategySettled'
  <2>1. Entry' = Absent \/ Entry' = Entry
    BY TickActs
  <2>2. Pure => Pure'
    BY <1>1, <1>3, <1>9, <2>1 DEF Pure, WrongType, Absent
  <2> QED BY <1>1, <1>3, <1>9, <2>2 DEF OrderInv, StrategySettled
<1>8. AloneHolds'
  <2>1. entry.expires \in {None} \cup Nat /\ (entry.kind = "hash" => entry.expires \in Nat)
    BY <1>1, RateAssumption, Numbers DEF LimiterTyped, Keys, Times, OrderInv, PastKeys, Keyed
  <2>2. Entry'.scores \subseteq Entry.scores
    BY TickActs DEF Absent
  <2>3. ASSUME NEW s \in Busy, AloneAt(s) PROVE AloneAt(s)'
    <3>1. /\ UNCHANGED <<pc, entry, broken, switches, log>> /\ local'[s].answer = local[s].answer
          /\ local'[s].now = local[s].now /\ local'[s].tokens = local[s].tokens
          /\ local'[s].refill = local[s].refill /\ local'[s].window = local[s].window
      BY <1>1, <1>9, <2>3
    <3>2. entry.kind # "hash" \/ entry.expires <= clock => entry.kind # "hash" \/ entry.expires <= clock'
      BY <1>1, <2>1
    <3> QED BY <2>2, <2>3, <3>1, <3>2 DEF AloneAt
  <2> QED BY <1>1, <1>3, <1>9, <2>3 DEF OrderInv, AloneHolds
<1> QED BY <1>2, <1>4, <1>5, <1>6, <1>7, <1>8 DEF OrderInv

\* OrderInv is an invariant.
LEMMA OrderInit == LimiterInit => OrderInv
<1> SUFFICES ASSUME LimiterInit PROVE OrderInv
  OBVIOUS
<1>1. /\ entry = Absent /\ counter = NoCounter /\ clock = 0 /\ faults = 0 /\ switches = 0 /\ log = <<>> /\ broken = {}
      /\ pc = [s \in Servers |-> "idle"] /\ local = [s \in Servers |-> Idle] /\ strategy \in Strategies
      /\ store \in {"memory", "redis"} /\ 0 \in Times
  BY RateAssumption DEF LimiterInit, Times
<1>2. Absent \in Keys /\ NoCounter \in Counters
  <2>1. Absent \in Keys
    BY <1>1, Numbers DEF Absent, Keys
  <2>2. NoCounter \in Counters
    BY Numbers DEF NoCounter, Counters
  <2> QED BY <2>1, <2>2
<1>3. LimiterTyped
  BY <1>1, <1>2, IdleTyped DEF LimiterTyped, Places
<1>4. Busy = {} /\ DOMAIN log = {} /\ Len(log) = 0
  BY <1>1 DEF Busy
<1>5. RequestsPlaced /\ PastRequests /\ AloneHolds /\ OneStore
  BY <1>1, <1>4 DEF RequestsPlaced, PastRequests, AloneHolds, OneStore
<1>6. PastKeys /\ KeysLive
  <2>1. Keyed(Absent)
    BY <1>1 DEF Keyed, Absent
  <2> QED BY <1>1, <2>1 DEF PastKeys, KeysLive, Absent, NoCounter
<1>7. RoomKept
  BY <1>4, FS_EmptySet, RateAssumption DEF RoomKept
<1>8. Bounded
  <2>1. {s \in Servers : pc[s] = "expire"} = {}
    BY <1>1
  <2>2. Cardinality({s \in Servers : pc[s] = "expire"}) = 0
    BY <2>1, FS_EmptySet
  <2> QED BY <1>1, <1>4, <2>2, Numbers DEF Bounded, Absent, NoCounter
<1>9. HitsLogged /\ Numbered
  <2>1. HitsIn({}, Owners) /\ Cardinality({}) = 0
    BY FS_EmptySet DEF HitsIn
  <2>2. Numbered
    BY <1>4 DEF Numbered
  <2> QED BY <1>1, <1>4, <2>1, <2>2 DEF HitsLogged, Absent, NoCounter
<1>10. StrategySettled
  <2>1. Counted = {} /\ Fresh = {} /\ Fresh = Busy
    BY <1>4 DEF Counted, Fresh
  <2>2. Pure
    <3>1. Entry.kind = "none"
      BY <1>1 DEF Entry, Absent
    <3> QED BY <1>4, <3>1 DEF Pure, WrongType
  <2> QED BY <1>4, <2>1, <2>2 DEF StrategySettled
<1> QED BY <1>3, <1>5, <1>6, <1>7, <1>8, <1>9, <1>10 DEF OrderInv

LEMMA OrderStep == OrderInv /\ [LimiterNext]_limiterVars => OrderInv'
<1> SUFFICES ASSUME OrderInv, [LimiterNext]_limiterVars PROVE OrderInv'
  OBVIOUS
<1>1. CASE UNCHANGED limiterVars
  <2>1. UNCHANGED <<store, strategy, entry, counter, clock, pc, local, broken, faults, switches, log>>
    BY <1>1 DEF limiterVars
  <2>2. /\ Busy' = Busy /\ Counted' = Counted /\ Fresh' = Fresh /\ Pure' = Pure
        /\ Owners' = Owners /\ Arrivals' = Arrivals /\ Entry' = Entry
    BY <2>1 DEF Busy, Counted, Fresh, Pure, WrongType, Entry, Owners, InKey, Arrivals
  <2>3. LimiterTyped' /\ RequestsPlaced' /\ OneStore' /\ PastRequests' /\ PastKeys'
    BY <2>1, <2>2 DEF OrderInv, LimiterTyped, RequestsPlaced, OneStore, PastRequests, PastKeys, Keyed
  <2>4. RoomKept' /\ Bounded' /\ Numbered' /\ HitsLogged' /\ StrategySettled' /\ KeysLive' /\ AloneHolds'
    <3>1. RoomKept' /\ Bounded' /\ Numbered' /\ HitsLogged'
      BY <2>1, <2>2 DEF OrderInv, RoomKept, Bounded, Numbered, HitsLogged
    <3>2. StrategySettled' /\ KeysLive'
      BY <2>1, <2>2 DEF OrderInv, StrategySettled, KeysLive
    <3>3. AloneHolds'
      BY <2>1, <2>2 DEF OrderInv, AloneHolds, AloneAt
    <3> QED BY <3>1, <3>2, <3>3
  <2> QED BY <2>3, <2>4 DEF OrderInv
<1>2. CASE LimiterNext
  BY <1>2, ArriveKeeps, CountLockedKeeps, IncrKeeps, ExpireKeeps, EvictKeeps, AddKeeps, CountHitsKeeps, RenewKeeps,
     ReadBucketKeeps, DeleteKeeps, ExecBucketKeeps, UnreachableKeeps, SwitchKeeps, TickKeeps DEF LimiterNext
<1> QED BY <1>1, <1>2

\* What is stored and on its way has the types, and stays in the bounds, that a
\* run is checked for.
LEMMA OrderTypes == OrderInv => LimiterTypeOK
<1> SUFFICES ASSUME OrderInv PROVE LimiterTypeOK
  OBVIOUS
<1>1. LimiterTyped /\ MaxHits \in Nat /\ Limit \in Nat /\ Len(log) \in Nat /\ Cardinality(Busy) \in Nat
  BY RateAssumption, BusyFinite DEF OrderInv, LimiterTyped
<1>2. Len(log) + Cardinality(Busy) <= MaxHits
  BY DEF OrderInv, RoomKept
<1>3. Cardinality({s \in Servers : pc[s] = "expire"}) <= Cardinality(Busy)
      /\ Cardinality({s \in Servers : pc[s] = "expire"}) \in Nat
  <2>1. {s \in Servers : pc[s] = "expire"} \subseteq Busy
    BY DEF Busy
  <2> HIDE DEF Busy
  <2> QED BY <1>1, <2>1, BusyFinite, FS_Subset, FS_CardinalityType
<1>4. /\ entry \in Keys /\ counter \in Counters /\ entry.count \in Nat /\ counter.count \in Nat
      /\ entry.scores \in SUBSET StoredHits /\ counter.hits \in SUBSET StoredHits
  BY <1>1 DEF LimiterTyped, Keys, Counters
<1>5. entry.count \in 0..MaxHits /\ counter.count \in 0..(MaxHits + Limit) /\ Len(log) <= MaxHits
  BY <1>1, <1>2, <1>3, <1>4 DEF OrderInv, Bounded
<1>6. entry.scores \in SUBSET Hits /\ counter.hits \in SUBSET Hits
  <2>1. ASSUME NEW o \in Owners PROVE o[1] \in 1..MaxHits
    <3>1. InKey \subseteq Busy /\ Arrivals \in Nat /\ Arrivals <= MaxHits
      BY <1>1, <1>2 DEF InKey, Busy, Arrivals
    <3>2. o[1] \in 1..Arrivals
      BY <3>1 DEF Owners, OrderInv, Numbered
    <3> QED BY <1>1, <3>1, <3>2
  <2>2. ASSUME NEW H \in SUBSET StoredHits, HitsIn(H, Owners) PROVE H \in SUBSET Hits
    BY <2>1, <2>2 DEF HitsIn, StoredHits, Hits
  <2> QED BY <1>4, <2>2 DEF OrderInv, HitsLogged
<1>7. entry \in [kind : {"none", "string", "zset", "hash"}, count : 0..MaxHits, scores : SUBSET Hits,
                 tokens : 0..Full, refill : Times, expires : {None} \cup 0..(MaxClock + 2 * Window),
                 born : Times]
  BY <1>4, <1>5, <1>6 DEF Keys
<1>8. counter \in [start : {None} \cup Times, count : 0..(MaxHits + Limit), hits : SUBSET Hits,
                   tokens : 0..Full, refill : {None} \cup Times]
  BY <1>4, <1>5, <1>6 DEF Counters
<1> QED BY <1>1, <1>5, <1>7, <1>8 DEF LimiterTypeOK, LimiterTyped, Places

----------------------------------------------------------------------------
(* Steps, and the requests of a span.                                       *)

Acts(s) ==
  CountLocked(s) \/ Incr(s) \/ Expire(s) \/ Evict(s) \/ Add(s) \/ CountHits(s) \/ Renew(s)
    \/ ReadBucket(s) \/ Delete(s) \/ ExecBucket(s) \/ Unreachable(s)

\* A server's request ends or goes on.
LEMMA ServerActs ==
  ASSUME OrderInv, NEW s \in Servers, Acts(s)
  PROVE  /\ s \in Busy /\ UNCHANGED <<store, strategy, clock, switches>> /\ faults' \in {faults, faults + 1}
         /\ \/ \E n, w : Ends(s, n, w)
            \/ \E place, rec : Goes(s, place, rec) /\ place # "idle"
<1>1. CASE CountLocked(s)
  <2>1. \E n, w : Ends(s, n, w)
    BY <1>1, CountLockedActs
  <2> QED BY <1>1, <2>1, CountLockedActs
<1>2. CASE Incr(s)
  BY <1>2, IncrActs
<1>3. CASE Expire(s)
  <2>1. faults' \in {faults, faults + 1}
    BY <1>3 DEF Expire
  <2> QED BY <1>3, <2>1, ExpireActs
<1>4. CASE Evict(s)
  BY <1>4, EvictActs
<1>5. CASE Add(s)
  BY <1>5, AddActs
<1>6. CASE CountHits(s)
  BY <1>6, CountHitsActs
<1>7. CASE Renew(s)
  BY <1>7, RenewActs
<1>8. CASE ReadBucket(s)
  BY <1>8, ReadBucketActs
<1>9. CASE Delete(s)
  <2>1. faults' \in {faults, faults + 1}
    BY <1>9 DEF Delete
  <2> QED BY <1>9, <2>1, DeleteActs, AgainCases
<1>10. CASE ExecBucket(s)
  BY <1>10, ExecBucketActs, AgainCases
<1>11. CASE Unreachable(s)
  <2>1. s \in Busy /\ LimiterTyped /\ 0 \in Times /\ 0 <= clock
    BY <1>11, RateAssumption DEF Unreachable, Busy, OrderInv, LimiterTyped, Times
  <2>2. Ends(s, 1, 0)
    BY <1>11, <2>1, Ended DEF Unreachable
  <2> QED BY <1>11, <2>1, <2>2 DEF Unreachable
<1> QED BY <1>1, <1>2, <1>3, <1>4, <1>5, <1>6, <1>7, <1>8, <1>9, <1>10, <1>11 DEF Acts

\* A step is one of a server, or of nobody.
LEMMA NextCases ==
  ASSUME [LimiterNext]_limiterVars
  PROVE  \/ \E s \in Servers : Arrive(s) \/ Acts(s)
         \/ \E how \in Strategies : Switch(how)
         \/ Tick
         \/ UNCHANGED limiterVars
  BY DEF LimiterNext, Acts

\* A request of one strategy finds none counted, and none under way, that were
\* counted with another since the last change.
LEMMA NoneOther ==
  ASSUME OrderInv, NEW s \in Servers, Acts(s), NEW how, local[s].how # how
  PROVE  /\ \A i \in Counted' : log'[i].how # how
         /\ \A t \in Fresh' : local'[t].how # how
         /\ \A i \in Counted : log[i].how # how
<1>1. s \in Busy /\ switches' = switches /\ LimiterTyped /\ StrategySettled
  BY ServerActs DEF OrderInv
<1>2. (\A i \in Counted : log[i].how # how) /\ (\A t \in Fresh : local[t].how # how)
  <2>1. Counted # {} \/ Fresh # {} => strategy # how /\ Pure
    BY <1>1 DEF StrategySettled, Pure
  <2> QED BY <1>1, <2>1 DEF StrategySettled, Pure, Fresh
<1>3. CASE \E n, w : Ends(s, n, w)
  <2>1. PICK n, w : Ends(s, n, w)
    BY <1>3
  <2>2. Counted' \subseteq Counted \cup {Len(log) + 1} /\ Fresh' = Fresh \ {s} /\ Counted \subseteq DOMAIN log
    BY <1>1, <2>1, EndsCounted DEF Counted
  <2>3. \A i \in Counted' : log'[i].how # how
    BY <1>2, <2>1, <2>2 DEF Ends
  <2>4. \A t \in Fresh' : local'[t].how # how
    BY <1>2, <2>1, <2>2 DEF Ends, Fresh, Busy
  <2> QED BY <1>2, <2>3, <2>4
<1>4. CASE \E place, rec : Goes(s, place, rec) /\ place # "idle"
  <2>1. PICK place, rec : Goes(s, place, rec) /\ place # "idle"
    BY <1>4
  <2>2. Counted' = Counted /\ Fresh' = Fresh
    BY <1>1, <2>1, GoesCounted
  <2> QED BY <1>2, <2>1, <2>2 DEF Goes, Fresh, Busy
<1> QED BY <1>3, <1>4, ServerActs

\* The requests let through in a span can be counted.
LEMMA WithinFinite ==
  ASSUME OrderInv, NEW how, NEW a, NEW b
  PROVE  IsFiniteSet(Within(how, a, b)) /\ Cardinality(Within(how, a, b)) \in Nat /\ Within(how, a, b) \subseteq DOMAIN log
         /\ Within(how, a, b) \subseteq Counted
<1>1. DOMAIN log = 1..Len(log) /\ Len(log) \in Nat
  BY DEF OrderInv, LimiterTyped
<1>2. IsFiniteSet(DOMAIN log)
  BY <1>1, FS_Interval
<1>3. Within(how, a, b) \subseteq DOMAIN log /\ Within(how, a, b) \subseteq Counted
  BY DEF Within, Counted
<1> QED BY <1>2, <1>3, FS_Subset, FS_CardinalityType

\* The answer of now is within a span only if the span ends now.
LEMMA WithinEnds ==
  ASSUME OrderInv, NEW s, NEW n, NEW w, Ends(s, n, w), UNCHANGED <<clock, switches>>, NEW how, NEW a, NEW b, b <= clock
  PROVE  \/ Within(how, a, b)' = Within(how, a, b)
         \/ /\ s \in Fresh /\ local[s].how = how /\ n <= Limit /\ a <= local[s].arrived /\ clock <= b
            /\ Within(how, a, b)' = Within(how, a, b) \cup {Len(log) + 1}
<1> DEFINE q == /\ local[s].epoch = switches /\ local[s].how = how /\ ~(n > Limit)
                /\ a <= local[s].arrived /\ clock <= b
<1>1. Within(how, a, b)' = Within(how, a, b) \cup (IF q THEN {Len(log) + 1} ELSE {})
  <2>1. \A i \in DOMAIN log : i \in Within(how, a, b)' <=> i \in Within(how, a, b)
    BY DEF Within, Ends
  <2>2. Len(log) + 1 \in Within(how, a, b)' <=> q
    <3> DEFINE k == Len(log) + 1
    <3>1. /\ k \in DOMAIN log' /\ log'[k].epoch = local[s].epoch /\ log'[k].how = local[s].how
          /\ (log'[k].over <=> n > Limit) /\ log'[k].arrived = local[s].arrived /\ log'[k].decided = clock
      BY DEF Ends
    <3> HIDE DEF k
    <3>2. k \in Within(how, a, b)' <=> q
      BY <3>1 DEF Within
    <3> QED BY <3>2 DEF k
  <2>3. /\ DOMAIN log' = DOMAIN log \cup {Len(log) + 1} /\ Len(log) + 1 \notin DOMAIN log
        /\ Within(how, a, b)' \subseteq DOMAIN log' /\ Within(how, a, b) \subseteq DOMAIN log
    BY DEF Within, Ends
  <2> HIDE DEF q
  <2> QED BY <2>1, <2>2, <2>3
<1>2. q => s \in Fresh /\ n <= Limit
  BY RateAssumption DEF Fresh, Ends, Busy
<1> HIDE DEF q
<1>3. CASE q
  BY <1>1, <1>2, <1>3 DEF q
<1>4. CASE ~q
  BY <1>1, <1>4
<1> QED BY <1>3, <1>4

\* A span that ends with the new time holds nothing new.
LEMMA WithinTick ==
  ASSUME OrderInv, Tick, NEW how, NEW span \in Spans'
  PROVE  \/ Within(how, span[1], span[2])' = {}
         \/ \E b \in Times : /\ <<span[1], b>> \in Spans /\ b <= span[2]
                             /\ Within(how, span[1], span[2])' = Within(how, span[1], b)
<1>1. /\ clock \in Nat /\ clock' = clock + 1 /\ UNCHANGED <<log, switches>> /\ LimiterTyped /\ clock \in Times
      /\ span \in Times \X Times /\ span[1] \in Nat /\ span[2] \in Nat /\ span[1] <= span[2] /\ span[2] <= clock + 1
      /\ Times \subseteq Nat
  BY RateAssumption DEF Tick, OrderInv, LimiterTyped, Times, Spans
<1>2. \A i \in DOMAIN log : log[i].decided \in Nat /\ log[i].arrived \in Nat /\ log[i].decided <= clock
                            /\ log[i].arrived <= log[i].decided
  <2>1. \A i \in DOMAIN log : log[i] \in Logged
    BY <1>1 DEF LimiterTyped
  <2> QED BY <1>1, <2>1 DEF Logged, OrderInv, PastRequests
<1>3. CASE span[2] <= clock
  <2>1. <<span[1], span[2]>> \in Spans
    BY <1>1, <1>3 DEF Spans
  <2>2. Within(how, span[1], span[2])' = Within(how, span[1], span[2])
    BY <1>1 DEF Within
  <2> QED BY <1>1, <2>1, <2>2
<1>4. CASE span[1] <= clock /\ span[2] = clock + 1
  <2>1. <<span[1], clock>> \in Spans
    BY <1>1, <1>4 DEF Spans
  <2>2. Within(how, span[1], span[2])' = Within(how, span[1], clock)
    BY <1>1, <1>2, <1>4 DEF Within
  <2> QED BY <1>1, <1>4, <2>1, <2>2
<1>5. CASE span[1] = clock + 1
  BY <1>1, <1>2, <1>5 DEF Within
<1> QED BY <1>1, <1>3, <1>4, <1>5

\* Without an answer nothing changes in a span.
LEMMA HoldsQuiet ==
  ASSUME OrderInv, UNCHANGED <<log, switches, clock, store>>, faults' \in {faults, faults + 1}
  PROVE  /\ FixedWindowHolds => FixedWindowHolds'
         /\ TokenBucketHolds => TokenBucketHolds'
         /\ StoppedForHits => StoppedForHits'
<1>1. faults' = 0 => faults = 0
  BY DEF OrderInv, LimiterTyped
<1>2. Spans' = Spans
  BY DEF Spans
<1>3. \A how, a, b : Within(how, a, b)' = Within(how, a, b)
  BY DEF Within
<1>4. FixedWindowHolds => FixedWindowHolds'
  BY <1>1, <1>2, <1>3 DEF FixedWindowHolds
<1>6. TokenBucketHolds => TokenBucketHolds'
  BY <1>1, <1>2, <1>3 DEF TokenBucketHolds
<1>7. StoppedForHits => StoppedForHits'
  BY <1>1 DEF StoppedForHits
<1> QED BY <1>4, <1>6, <1>7

\* Where a strategy let nobody through, it keeps to its limit.
LEMMA EmptyHolds ==
  /\ (\A a, b : Within("fixed_window", a, b)' = {}) => FixedWindowHolds'
  /\ (\A a, b : Within("token_bucket", a, b)' = {}) => TokenBucketHolds'
<1>1. Cardinality({}) = 0 /\ Limit \in Nat
  BY FS_EmptySet, RateAssumption
<1>2. (\A a, b : Within("fixed_window", a, b)' = {}) => FixedWindowHolds'
  BY <1>1 DEF FixedWindowHolds
<1>4. (\A a, b : Within("token_bucket", a, b)' = {}) => TokenBucketHolds'
  <2> SUFFICES ASSUME \A a, b : Within("token_bucket", a, b)' = {}, NEW span \in Spans'
               PROVE  Cardinality(Within("token_bucket", span[1], span[2])') * Window <= Full + (span[2] - span[1]) * Limit
    BY DEF TokenBucketHolds
  <2>1. span[2] - span[1] \in Nat
    BY RateAssumption DEF Spans, Times
  <2>2. (span[2] - span[1]) * Limit \in Nat /\ 0 * Window = 0
    BY <2>1, Numbers
  <2> QED BY <1>1, <2>2, Numbers
<1> QED BY <1>2, <1>4

\* After a change of strategy nobody is counted yet.
LEMMA SwitchCounts ==
  ASSUME OrderInv, NEW how \in Strategies, Switch(how)
  PROVE  Counted' = {} /\ Fresh' = {}
<1>1. UNCHANGED <<log, pc, local>> /\ switches' = switches + 1 /\ switches \in Nat /\ None \notin Int
  BY RateAssumption DEF Switch, OrderInv, LimiterTyped
<1>2. (\A i \in DOMAIN log : log[i].epoch # switches') /\ (\A s \in Busy : local[s].epoch # switches')
  BY <1>1 DEF OrderInv, StrategySettled
<1> QED BY <1>1, <1>2 DEF Counted, Fresh, Busy

LEMMA SwitchHolds ==
  ASSUME OrderInv, NEW how \in Strategies, Switch(how)
  PROVE  FixedWindowHolds' /\ TokenBucketHolds' /\ StoppedForHits'
<1>1. \A some, a, b : Within(some, a, b)' = {}
  BY SwitchCounts DEF Within, Counted
<1>2. switches' # 0
  BY DEF Switch, OrderInv, LimiterTyped
<1>3. FixedWindowHolds' /\ TokenBucketHolds'
  BY <1>1, EmptyHolds
<1> QED BY <1>2, <1>3 DEF StoppedForHits

\* Time that passes breaks no limit.
LEMMA TickHolds ==
  ASSUME OrderInv, Tick
  PROVE  /\ FixedWindowHolds => FixedWindowHolds'
         /\ TokenBucketHolds => TokenBucketHolds'
         /\ StoppedForHits => StoppedForHits'
<1>1. UNCHANGED <<log, switches, store, faults>> /\ Limit \in Nat /\ Cardinality({}) = 0 /\ Times \subseteq Nat
  BY FS_EmptySet, RateAssumption DEF Tick, Times
<1>2. ASSUME FixedWindowHolds PROVE FixedWindowHolds'
  <2> SUFFICES ASSUME faults' = 0, NEW span \in Spans', Short(span)
               PROVE  Cardinality(Within("fixed_window", span[1], span[2])') <= 2 * Limit
    BY DEF FixedWindowHolds, Short
  <2>1. span[1] \in Nat /\ span[2] \in Nat
    BY RateAssumption DEF Spans, Times
  <2>2. CASE Within("fixed_window", span[1], span[2])' = {}
    BY <1>1, <2>2
  <2>3. ASSUME NEW b \in Times, <<span[1], b>> \in Spans, b <= span[2],
               Within("fixed_window", span[1], span[2])' = Within("fixed_window", span[1], b)
        PROVE  Cardinality(Within("fixed_window", span[1], span[2])') <= 2 * Limit
    <3>1. Short(<<span[1], b>>)
      BY <1>1, <2>3, <2>1, RateAssumption DEF Short
    <3> QED BY <1>1, <1>2, <2>3, <3>1 DEF FixedWindowHolds
  <2> QED BY <2>2, <2>3, WithinTick
<1>4. ASSUME TokenBucketHolds PROVE TokenBucketHolds'
  <2> SUFFICES ASSUME faults' = 0, store = "memory" \/ (\A i \in DOMAIN log : log[i].alone), NEW span \in Spans'
               PROVE  Cardinality(Within("token_bucket", span[1], span[2])') * Window <= Full + (span[2] - span[1]) * Limit
    BY <1>1 DEF TokenBucketHolds
  <2>1. span[2] \in Nat /\ span[1] \in Nat /\ span[2] - span[1] \in Nat
    BY RateAssumption DEF Spans, Times
  <2>2. CASE Within("token_bucket", span[1], span[2])' = {}
    <3> DEFINE m == (span[2] - span[1]) * Limit
               k == Cardinality(Within("token_bucket", span[1], span[2])')
    <3>1. m \in Nat /\ k = 0
      BY <1>1, <2>1, <2>2, Numbers
    <3> HIDE DEF m, k
    <3>2. k * Window <= Full + m
      BY <3>1, Numbers
    <3> QED BY <3>2 DEF m, k
  <2>3. ASSUME NEW b \in Times, <<span[1], b>> \in Spans, b <= span[2],
               Within("token_bucket", span[1], span[2])' = Within("token_bucket", span[1], b)
        PROVE  Cardinality(Within("token_bucket", span[1], span[2])') * Window <= Full + (span[2] - span[1]) * Limit
    <3> DEFINE c == Cardinality(Within("token_bucket", span[1], b)) * Window
               d == b - span[1]
               e == span[2] - b
    <3>1. c <= Full + d * Limit
      BY <1>1, <1>4, <2>3 DEF TokenBucketHolds
    <3>2. d \in Nat /\ e \in Nat /\ span[2] - span[1] = d + e
      BY <1>1, <2>1, <2>3 DEF Spans
    <3>3. c \in Nat
      BY WithinFinite, Numbers
    <3> HIDE DEF c, d, e
    <3>4. (d + e) * Limit = d * Limit + e * Limit /\ d * Limit \in Nat /\ e * Limit \in Nat
      BY <3>2, Numbers
    <3>5. c <= Full + (d + e) * Limit
      BY <3>1, <3>3, <3>4, Numbers
    <3> QED BY <2>3, <3>2, <3>5 DEF c
  <2> QED BY <2>2, <2>3, WithinTick
<1>5. StoppedForHits => StoppedForHits'
  BY <1>1 DEF StoppedForHits
<1> QED BY <1>2, <1>4, <1>5

----------------------------------------------------------------------------
(* A sliding window.                                                        *)

\* A step that takes no recent hit, and leaves the key the time it had or a new one.
HitsPass ==
  /\ \A h \in HitsNow : h.at + Window > clock => h \in HitsNow'
  /\ store = "redis" /\ (\E h \in HitsNow : h.at + Window > clock) /\ entry.expires # None =>
       entry'.expires # None /\ (entry'.expires >= entry.expires \/ entry'.expires = clock + Window)

LEMMA HitsNowTyped ==
  ASSUME OrderInv
  PROVE  /\ HitsNow \in SUBSET StoredHits /\ HitsIn(HitsNow, Owners)
         /\ \A h \in HitsNow : h.at \in Nat /\ h.nr \in Nat
<1>1. counter.hits \in SUBSET StoredHits /\ HitsIn(counter.hits, Owners)
  BY DEF OrderInv, LimiterTyped, Counters, HitsLogged
<1>2. HitsNow \in SUBSET StoredHits /\ HitsIn(HitsNow, Owners)
  BY <1>1, KeyNow DEF HitsNow
<1> QED BY <1>2, RateAssumption DEF StoredHits, Times

LEMMA HitPasses ==
  ASSUME OrderInv, HitsPass, NEW nr, NEW from \in Nat, from + Window > clock, HitKept(nr, from)
  PROVE  /\ \E h \in HitsNow' : h.nr = nr /\ h.at >= from
         /\ store = "redis" /\ entry.expires # None =>
              entry'.expires # None /\ (entry'.expires >= entry.expires \/ entry'.expires = clock + Window)
<1>1. PICK h \in HitsNow : h.nr = nr /\ h.at >= from
  BY DEF HitKept
<1>2. h.at \in Nat /\ clock \in Nat /\ Window \in Nat
  BY HitsNowTyped, RateAssumption DEF OrderInv, LimiterTyped, Times
<1>3. h.at + Window > clock
  BY <1>1, <1>2
<1> QED BY <1>1, <1>3 DEF HitsPass

\* The times of the log and of the requests.
LEMMA TimesTyped ==
  ASSUME OrderInv
  PROVE  /\ clock \in Nat /\ Window \in Nat /\ Window >= 1 /\ None \notin Int
         /\ \A i \in DOMAIN log : log[i].arrived \in Nat /\ log[i].decided \in Nat /\ log[i].decided <= clock
         /\ \A s \in Servers : local[s].arrived \in Nat /\ local[s].now \in Nat
         /\ entry.expires # None => entry.expires \in Nat
<1>1. /\ clock \in Times /\ (\A i \in DOMAIN log : log[i] \in Logged) /\ (\A s \in Servers : local[s] \in InFlight)
      /\ LimiterTyped
  BY DEF OrderInv, LimiterTyped
<1>2. /\ \A i \in DOMAIN log : log[i].arrived \in Times /\ log[i].decided \in Times
      /\ \A s \in Servers : local[s].arrived \in Times /\ local[s].now \in Times
  BY <1>1 DEF Logged, InFlight
<1> QED BY <1>1, <1>2, EntryType, Numbers, RateAssumption DEF Times, OrderInv, PastRequests

LEMMA EntryLater ==
  ASSUME OrderInv'
  PROVE  entry'.expires # None => entry'.expires \in Nat
<1>1. entry' \in Keys
  BY DEF OrderInv, LimiterTyped
<1> QED BY <1>1, Numbers, RateAssumption DEF Keys

LEMMA SlidingGoes ==
  ASSUME OrderInv, OrderInv', SlidingKept, HitsPass, NEW s \in Busy, NEW place, NEW rec, Goes(s, place, rec), place # "idle",
         UNCHANGED <<store, clock, switches>>, faults' = 0 => faults = 0,
         s \in Fresh /\ place \in {"count", "renew"} /\ s \notin InKey =>
           \E h \in HitsNow' : h.nr = local[s].nr /\ h.at >= local[s].arrived,
         s \in Fresh /\ place \in {"add", "count"} => rec.answer = 0
  PROVE  SlidingKept'
<1> SUFFICES ASSUME faults' = 0
             PROVE  /\ \A i \in Counted' :
                         log'[i].how = "sliding_window" /\ ~log'[i].lapsed /\ log'[i].arrived + Window > clock' =>
                           /\ \E h \in HitsNow' : h.nr = log'[i].nr /\ h.at >= log'[i].arrived
                           /\ store' = "redis" => entry'.expires # None /\ entry'.expires >= log'[i].decided + Window
                    /\ \A t \in Fresh' \cap InKey' :
                         ~local'[t].lapsed /\ local'[t].arrived + Window > clock' =>
                           \E h \in HitsNow' : h.nr = local'[t].nr /\ h.at >= local'[t].arrived
                    /\ \A t \in Fresh' : pc'[t] \in {"add", "count"} => local'[t].answer = 0
  BY DEF SlidingKept, HitKept
<1>1. Counted' = Counted /\ Fresh' = Fresh /\ log' = log /\ LimiterTyped /\ faults = 0
  BY GoesCounted DEF OrderInv, Goes
<1>5. entry'.expires # None => entry'.expires \in Nat
  BY EntryLater
<1>2. ASSUME NEW i \in Counted, log[i].how = "sliding_window", ~log[i].lapsed, log[i].arrived + Window > clock
      PROVE  /\ \E h \in HitsNow' : h.nr = log[i].nr /\ h.at >= log[i].arrived
             /\ store = "redis" => entry'.expires # None /\ entry'.expires >= log[i].decided + Window
  <2>1. log[i].arrived \in Nat /\ log[i].decided \in Nat
    BY TimesTyped DEF Counted
  <2>2. /\ HitKept(log[i].nr, log[i].arrived)
        /\ store = "redis" => entry.expires # None /\ entry.expires >= log[i].decided + Window
    BY <1>1, <1>2 DEF SlidingKept
  <2>3. /\ \E h \in HitsNow' : h.nr = log[i].nr /\ h.at >= log[i].arrived
        /\ store = "redis" /\ entry.expires # None =>
             entry'.expires # None /\ (entry'.expires >= entry.expires \/ entry'.expires = clock + Window)
    BY <1>2, <2>1, <2>2, HitPasses
  <2>4. log[i].decided <= clock
    BY TimesTyped DEF Counted
  <2> QED BY <1>5, <2>1, <2>2, <2>3, <2>4, TimesTyped
<1>3. ASSUME NEW t \in Fresh' \cap InKey', ~local'[t].lapsed, local'[t].arrived + Window > clock
      PROVE  \E h \in HitsNow' : h.nr = local'[t].nr /\ h.at >= local'[t].arrived
  <2>1. t \in Servers /\ t \in Fresh
    BY <1>1 DEF InKey
  <2>2. local'[t].nr = local[t].nr /\ local'[t].arrived = local[t].arrived /\ local'[t].lapsed = local[t].lapsed
    BY <2>1 DEF Goes
  <2>3. CASE t \in InKey
    <3>1. HitKept(local[t].nr, local[t].arrived) /\ local[t].arrived \in Nat
      BY <1>1, <1>3, <2>1, <2>2, <2>3, TimesTyped DEF SlidingKept
    <3> QED BY <1>3, <2>2, <3>1, HitPasses
  <2>4. CASE t \notin InKey
    <3>1. t = s /\ place \in {"count", "renew"}
      BY <1>3, <2>1, <2>4 DEF InKey, Goes
    <3> QED BY <2>1, <2>2, <2>4, <3>1
  <2> QED BY <2>3, <2>4
<1>4. \A t \in Fresh' : pc'[t] \in {"add", "count"} => local'[t].answer = 0
  <2> SUFFICES ASSUME NEW t \in Fresh', pc'[t] \in {"add", "count"} PROVE local'[t].answer = 0
    OBVIOUS
  <2>1. t \in Fresh /\ t \in Servers
    BY <1>1 DEF Fresh, Busy
  <2>2. CASE t = s
    BY <2>1, <2>2 DEF Goes
  <2>3. CASE t # s
    BY <1>1, <2>1, <2>3 DEF Goes, SlidingKept
  <2> QED BY <2>2, <2>3
<1> QED BY <1>1, <1>2, <1>3, <1>4

LEMMA SlidingEnds ==
  ASSUME OrderInv, OrderInv', SlidingKept, HitsPass, NEW s \in Busy, NEW n, NEW w, Ends(s, n, w),
         UNCHANGED <<store, clock, switches>>, faults' = 0 => faults = 0,
         s \in Fresh /\ local[s].how = "sliding_window" /\ ~local[s].lapsed /\ local[s].arrived + Window > clock =>
           /\ \E h \in HitsNow' : h.nr = local[s].nr /\ h.at >= local[s].arrived
           /\ store = "redis" => entry'.expires = clock + Window
  PROVE  SlidingKept'
<1> SUFFICES ASSUME faults' = 0
             PROVE  /\ \A i \in Counted' :
                         log'[i].how = "sliding_window" /\ ~log'[i].lapsed /\ log'[i].arrived + Window > clock' =>
                           /\ \E h \in HitsNow' : h.nr = log'[i].nr /\ h.at >= log'[i].arrived
                           /\ store' = "redis" => entry'.expires # None /\ entry'.expires >= log'[i].decided + Window
                    /\ \A t \in Fresh' \cap InKey' :
                         ~local'[t].lapsed /\ local'[t].arrived + Window > clock' =>
                           \E h \in HitsNow' : h.nr = local'[t].nr /\ h.at >= local'[t].arrived
                    /\ \A t \in Fresh' : pc'[t] \in {"add", "count"} => local'[t].answer = 0
  BY DEF SlidingKept, HitKept
<1>1. /\ Counted' = Counted \cup (IF s \in Fresh THEN {Len(log) + 1} ELSE {}) /\ Fresh' = Fresh \ {s}
      /\ LimiterTyped /\ faults = 0 /\ Counted \subseteq DOMAIN log
  BY EndsCounted DEF OrderInv, Counted
<1>2. entry'.expires # None => entry'.expires \in Nat
  BY EntryLater
<1>3. ASSUME NEW i \in Counted', log'[i].how = "sliding_window", ~log'[i].lapsed, log'[i].arrived + Window > clock
      PROVE  /\ \E h \in HitsNow' : h.nr = log'[i].nr /\ h.at >= log'[i].arrived
             /\ store = "redis" => entry'.expires # None /\ entry'.expires >= log'[i].decided + Window
  <2>1. CASE i \in Counted
    <3>1. log'[i] = log[i] /\ log[i].arrived \in Nat /\ log[i].decided \in Nat /\ log[i].decided <= clock
      BY <1>1, <2>1, TimesTyped DEF Ends
    <3>2. /\ HitKept(log[i].nr, log[i].arrived)
          /\ store = "redis" => entry.expires # None /\ entry.expires >= log[i].decided + Window
      BY <1>1, <1>3, <2>1, <3>1 DEF SlidingKept
    <3>3. /\ \E h \in HitsNow' : h.nr = log[i].nr /\ h.at >= log[i].arrived
          /\ store = "redis" /\ entry.expires # None =>
               entry'.expires # None /\ (entry'.expires >= entry.expires \/ entry'.expires = clock + Window)
      BY <1>3, <3>1, <3>2, HitPasses
    <3> QED BY <1>2, <3>1, <3>2, <3>3, TimesTyped
  <2>2. CASE i \notin Counted
    <3>1. s \in Fresh /\ i = Len(log) + 1
      BY <1>1, <2>2
    <3>2. /\ log'[i].nr = local[s].nr /\ log'[i].arrived = local[s].arrived /\ log'[i].decided = clock
          /\ log'[i].how = local[s].how /\ log'[i].lapsed = local[s].lapsed
      BY <3>1 DEF Ends
    <3>3. /\ \E h \in HitsNow' : h.nr = local[s].nr /\ h.at >= local[s].arrived
          /\ store = "redis" => entry'.expires = clock + Window
      BY <1>3, <3>1, <3>2
    <3> QED BY <3>2, <3>3, TimesTyped
  <2> QED BY <2>1, <2>2
<1>4. ASSUME NEW t \in Fresh'
      PROVE  t \in Fresh /\ t \in Servers /\ local'[t] = local[t] /\ pc'[t] = pc[t]
  BY <1>1 DEF Ends, Fresh, Busy
<1>5. ASSUME NEW t \in Fresh' \cap InKey', ~local'[t].lapsed, local'[t].arrived + Window > clock
      PROVE  \E h \in HitsNow' : h.nr = local'[t].nr /\ h.at >= local'[t].arrived
  <2>1. t \in InKey /\ t \in Fresh /\ local'[t] = local[t] /\ t \in Servers
    BY <1>4 DEF InKey
  <2>2. HitKept(local[t].nr, local[t].arrived) /\ local[t].arrived \in Nat
    BY <1>1, <1>5, <2>1, TimesTyped DEF SlidingKept
  <2> QED BY <1>5, <2>1, <2>2, HitPasses
<1>6. \A t \in Fresh' : pc'[t] \in {"add", "count"} => local'[t].answer = 0
  BY <1>1, <1>4 DEF SlidingKept
<1> QED BY <1>3, <1>5, <1>6

\* What the commands of a pipeline, and the memory store, leave of the hits.
LEMMA EvictPasses ==
  ASSUME OrderInv, NEW s \in Servers, Evict(s)
  PROVE  HitsPass
<1>1. /\ s \in Busy /\ store = "redis" /\ store' = "redis" /\ clock' = clock /\ LimiterTyped
      /\ HitsNow = Entry.scores /\ HitsNow' = Entry'.scores
  BY EvictActs DEF OrderInv, HitsNow
<1>2. ASSUME NEW h \in HitsNow, h.at + Window > clock PROVE h \in Kept(s)
  <2>1. local[s].now <= clock /\ local[s].now \in Nat /\ h.at \in Nat
    BY <1>1, Located, HitsNowTyped, TimesTyped
  <2> QED BY <1>1, <1>2, <2>1, TimesTyped DEF Kept, Recent
<1>3. CASE entry' = entry
  <2>1. Entry' = Entry
    BY <1>1, <1>3, KeyNow
  <2>2. entry.expires # None => entry'.expires >= entry.expires
    BY <1>3, TimesTyped
  <2> QED BY <1>1, <1>3, <2>1, <2>2 DEF HitsPass
<1>4. CASE Kept(s) = {}
  BY <1>2, <1>4 DEF HitsPass
<1>5. CASE Entry = entry /\ entry'.scores = Kept(s) /\ entry'.expires = entry.expires
  <2>1. entry.expires # None => entry.expires > clock /\ entry'.expires >= entry.expires
    BY <1>1, <1>5, EntryType, TimesTyped
  <2>2. Entry' = entry'
    BY <1>1, <1>5, <2>1, TimesTyped DEF Entry
  <2> QED BY <1>1, <1>2, <1>5, <2>1, <2>2 DEF HitsPass
<1> QED BY <1>3, <1>4, <1>5, EvictActs

LEMMA AddPasses ==
  ASSUME OrderInv, NEW s \in Servers, Add(s)
  PROVE  /\ HitsPass
         /\ s \in Fresh => Hit(local[s].nr, local[s].now) \in HitsNow'
<1>1. /\ s \in Busy /\ store = "redis" /\ store' = "redis" /\ clock' = clock /\ LimiterTyped /\ StrategySettled
      /\ HitsNow = Entry.scores /\ HitsNow' = Entry'.scores /\ local[s].how = "sliding_window"
  BY AddActs DEF OrderInv, HitsNow
<1>2. CASE WrongType("sliding_window") /\ entry' = entry
  <2>1. Entry.scores = {}
    BY <1>2, KeyNow
  <2>2. s \notin Fresh
    BY <1>1, <1>2, SettledHow
  <2> QED BY <1>1, <2>1, <2>2 DEF HitsPass
<1>3. CASE entry'.expires = Entry.expires /\ entry'.scores = Entry.scores \cup {Hit(local[s].nr, local[s].now)}
  <2>1. Entry.expires # None => Entry.expires > clock /\ Entry = entry
    BY <1>1, EntryType
  <2>2. Entry' = entry'
    BY <1>1, <1>3, <2>1, TimesTyped DEF Entry
  <2>3. Entry.scores # {} => Entry = entry
    BY KeyNow DEF Absent
  <2>4. entry.expires # None => entry.expires >= entry.expires
    BY TimesTyped
  <2> QED BY <1>1, <1>3, <2>2, <2>3, <2>4 DEF HitsPass
<1> QED BY <1>2, <1>3, AddActs

LEMMA RenewPasses ==
  ASSUME OrderInv, NEW s \in Servers, Renew(s)
  PROVE  /\ HitsPass
         /\ HitsNow # {} => entry'.expires = clock + Window
<1>1. /\ store = "redis" /\ store' = "redis" /\ clock' = clock
      /\ HitsNow = Entry.scores /\ HitsNow' = Entry'.scores
  BY RenewActs DEF OrderInv, HitsNow
<1>2. CASE Entry.kind = "none" /\ entry' = entry
  <2>1. Entry.scores = {}
    BY <1>2, KeyNow DEF Absent
  <2> QED BY <1>1, <2>1 DEF HitsPass
<1>3. CASE entry'.expires = clock + Window /\ entry'.scores = Entry.scores
  <2>1. clock + Window > clock /\ clock + Window # None
    BY TimesTyped
  <2>2. Entry' = entry'
    BY <1>1, <1>3, <2>1, TimesTyped DEF Entry
  <2> QED BY <1>1, <1>3, <2>1, <2>2 DEF HitsPass
<1> QED BY <1>2, <1>3, RenewActs

LEMMA LockedPasses ==
  ASSUME OrderInv, NEW s \in Servers, CountLocked(s), local[s].how = "sliding_window"
  PROVE  /\ HitsPass /\ store = "memory" /\ Hit(local[s].nr, clock) \in HitsNow'
         /\ Ends(s, Cardinality(HitsNow'), 0)
<1>1. /\ store = "memory" /\ store' = "memory" /\ s \in Busy
      /\ counter'.hits = Recent(counter.hits, clock) \cup {Hit(local[s].nr, clock)}
      /\ Ends(s, Cardinality(counter'.hits), 0)
  BY CountLockedActs
<1>2. HitsNow = counter.hits /\ HitsNow' = counter'.hits
  BY <1>1 DEF HitsNow
<1>3. \A h \in HitsNow : h.at + Window > clock => h \in Recent(counter.hits, clock)
  BY <1>2, HitsNowTyped, TimesTyped DEF Recent
<1> QED BY <1>1, <1>2, <1>3 DEF HitsPass

LEMMA CountHitsPasses ==
  ASSUME OrderInv, NEW s \in Servers, CountHits(s)
  PROVE  HitsPass /\ HitsNow' = HitsNow
<1>1. UNCHANGED <<store, entry, counter, clock>>
  BY CountHitsActs
<1>2. HitsNow' = HitsNow
  BY <1>1, KeyNow DEF HitsNow
<1>3. entry.expires # None => entry'.expires >= entry.expires
  BY <1>1, TimesTyped
<1> QED BY <1>1, <1>2, <1>3 DEF HitsPass

\* Every server keeps the hits of the last window.
LEMMA SlidingActs ==
  ASSUME OrderInv, OrderInv', SlidingKept, NEW s \in Servers, Acts(s)
  PROVE  SlidingKept'
<1>1. /\ s \in Busy /\ UNCHANGED <<store, strategy, clock, switches>> /\ (faults' = 0 => faults = 0)
      /\ LimiterTyped /\ local[s].arrived <= local[s].now /\ local[s].arrived <= clock
  <2>1. /\ s \in Busy /\ UNCHANGED <<store, strategy, clock, switches>> /\ faults' \in {faults, faults + 1}
        /\ LimiterTyped /\ faults \in Nat
    BY ServerActs DEF OrderInv, LimiterTyped
  <2> QED BY <2>1, Located, TimesTyped
<1>2. CASE local[s].how # "sliding_window"
  <2>1. \A i \in Counted' : log'[i].how # "sliding_window"
    BY <1>2, NoneOther
  <2>2. ASSUME NEW t \in Fresh' PROVE pc'[t] \notin {"add", "count", "renew"}
    <3>1. local'[t].how # "sliding_window" /\ t \in Busy'
      BY <1>2, NoneOther DEF Fresh
    <3> QED BY <3>1 DEF OrderInv, RequestsPlaced, PlacedAt
  <2> QED BY <2>1, <2>2 DEF SlidingKept, InKey
<1>3. CASE CountLocked(s) /\ local[s].how = "sliding_window"
  <2>1. /\ HitsPass /\ store = "memory" /\ Hit(local[s].nr, clock) \in HitsNow'
        /\ Ends(s, Cardinality(HitsNow'), 0)
    BY <1>3, LockedPasses
  <2>2. \E h \in HitsNow' : h.nr = local[s].nr /\ h.at >= local[s].arrived
    BY <1>1, <2>1 DEF Hit
  <2> QED BY <1>1, <2>1, <2>2, SlidingEnds
<1>4. CASE Evict(s)
  <2>1. PICK rec : Goes(s, "add", rec) /\ (WrongType("sliding_window") \/ rec.answer = 0)
    BY <1>4, EvictActs
  <2>2. s \in Fresh => ~WrongType("sliding_window")
    BY <1>1, <1>4, EvictActs, SettledHow DEF OrderInv
  <2> QED BY <1>1, <1>4, <2>1, <2>2, EvictPasses, SlidingGoes
<1>5. CASE Add(s)
  <2>1. PICK rec : Goes(s, "count", rec) /\ (WrongType("sliding_window") \/ rec.answer = local[s].answer)
    BY <1>5, AddActs
  <2>2. s \in Fresh => ~WrongType("sliding_window")
    BY <1>1, <1>5, AddActs, SettledHow DEF OrderInv
  <2>3. s \in Fresh /\ faults = 0 => rec.answer = 0
    BY <1>5, <2>1, <2>2, AddActs DEF SlidingKept
  <2>4. s \in Fresh => \E h \in HitsNow' : h.nr = local[s].nr /\ h.at >= local[s].arrived
    <3>1. s \in Fresh => Hit(local[s].nr, local[s].now) \in HitsNow'
      BY <1>5, AddPasses
    <3>2. Hit(local[s].nr, local[s].now).nr = local[s].nr /\ Hit(local[s].nr, local[s].now).at = local[s].now
      BY DEF Hit
    <3> QED BY <1>1, <3>1, <3>2
  <2>5. CASE faults' # 0
    BY <2>5 DEF SlidingKept
  <2>6. CASE faults' = 0
    BY <1>1, <1>5, <2>1, <2>3, <2>4, <2>6, AddPasses, SlidingGoes
  <2> QED BY <2>5, <2>6
<1>6. CASE CountHits(s)
  <2>1. PICK rec : Goes(s, "renew", rec)
    BY <1>6, CountHitsActs
  <2>2. s \in InKey
    BY <1>6, CountHitsActs DEF InKey
  <2> QED BY <1>1, <1>6, <2>1, <2>2, CountHitsPasses, SlidingGoes
<1>7. CASE Renew(s)
  <2>1. Ends(s, local[s].answer, 0) /\ s \in InKey /\ HitsPass /\ (HitsNow # {} => entry'.expires = clock + Window)
    BY <1>7, RenewActs, RenewPasses DEF InKey
  <2>2. ASSUME s \in Fresh, ~local[s].lapsed, local[s].arrived + Window > clock, faults = 0
        PROVE  /\ \E h \in HitsNow' : h.nr = local[s].nr /\ h.at >= local[s].arrived
               /\ entry'.expires = clock + Window
    <3>1. HitKept(local[s].nr, local[s].arrived) /\ local[s].arrived \in Nat
      BY <2>1, <2>2, TimesTyped DEF SlidingKept
    <3>2. HitsNow # {}
      BY <3>1 DEF HitKept
    <3> QED BY <2>1, <2>2, <3>1, <3>2, HitPasses
  <2>3. CASE faults' # 0
    BY <2>3 DEF SlidingKept
  <2>4. CASE faults' = 0
    BY <1>1, <2>1, <2>2, <2>4, SlidingEnds
  <2> QED BY <2>3, <2>4
<1>8. CASE Unreachable(s)
  <2>1. faults' # 0
    BY <1>1, <1>8 DEF Unreachable, LimiterTyped
  <2> QED BY <2>1 DEF SlidingKept
<1> QED BY <1>2, <1>3, <1>4, <1>5, <1>6, <1>7, <1>8, IncrActs, ExpireActs, ReadBucketActs, DeleteActs, ExecBucketActs DEF Acts

\* A step that is nobody's.
LEMMA SlidingQuiet ==
  ASSUME OrderInv, SlidingKept, UNCHANGED <<store, entry, counter, clock, faults, switches, log>>,
         \A t \in Fresh' : pc'[t] \in {"add", "count", "renew"} =>
           t \in Fresh /\ pc'[t] = pc[t] /\ local'[t].nr = local[t].nr /\ local'[t].arrived = local[t].arrived
           /\ local'[t].lapsed = local[t].lapsed /\ local'[t].answer = local[t].answer
  PROVE  SlidingKept'
<1>1. HitsNow' = HitsNow /\ Counted' = Counted
  BY KeyNow DEF HitsNow, Counted
<1>2. \A t \in Fresh' \cap InKey' : t \in Fresh \cap InKey /\ local'[t].nr = local[t].nr
                                    /\ local'[t].arrived = local[t].arrived /\ local'[t].lapsed = local[t].lapsed
  BY DEF InKey
<1> QED BY <1>1, <1>2 DEF SlidingKept, HitKept

LEMMA SlidingTick ==
  ASSUME OrderInv, SlidingKept, Tick
  PROVE  SlidingKept'
<1>1. /\ UNCHANGED <<store, strategy, entry, counter, pc, broken, faults, switches, log>>
      /\ clock \in Nat /\ clock' = clock + 1 /\ Counted' = Counted /\ Fresh' = Fresh /\ InKey' = InKey
      /\ Fresh \subseteq Servers
  BY TickActs DEF Fresh, Busy
<1>3. entry.expires = None \/ entry.expires \in Nat
  BY TimesTyped
<1>2. ASSUME store = "redis" => entry.expires = None \/ entry.expires > clock + 1
      PROVE  HitsNow' = HitsNow
  <2>1. CASE store = "redis"
    <3>1. entry.expires # None => ~(entry.expires <= clock) /\ ~(entry.expires <= clock + 1)
      BY <1>1, <1>2, <1>3, <2>1
    <3>2. Entry = entry /\ Entry' = entry
      BY <1>1, <3>1 DEF Entry
    <3> QED BY <1>1, <2>1, <3>2 DEF HitsNow
  <2>2. CASE store # "redis"
    BY <1>1, <2>2 DEF HitsNow, OrderInv, LimiterTyped
  <2> QED BY <2>1, <2>2
<1>4. ASSUME faults = 0, NEW i \in Counted, log[i].how = "sliding_window", ~log[i].lapsed, log[i].arrived + Window > clock + 1
      PROVE  /\ \E h \in HitsNow' : h.nr = log[i].nr /\ h.at >= log[i].arrived
             /\ store = "redis" => entry.expires # None /\ entry.expires >= log[i].decided + Window
  <2>1. log[i].arrived \in Nat /\ log[i].decided \in Nat /\ log[i].arrived <= log[i].decided /\ Window \in Nat
    BY TimesTyped DEF Counted, OrderInv, PastRequests
  <2>2. /\ HitKept(log[i].nr, log[i].arrived)
        /\ store = "redis" => entry.expires # None /\ entry.expires >= log[i].decided + Window
    BY <1>1, <1>4, <2>1 DEF SlidingKept
  <2>3. store = "redis" => entry.expires > clock + 1
    BY <1>1, <1>3, <1>4, <2>1, <2>2
  <2> QED BY <1>2, <2>2, <2>3 DEF HitKept
<1>5. ASSUME faults = 0, NEW t \in Fresh \cap InKey, ~local'[t].lapsed, local[t].arrived + Window > clock + 1
      PROVE  \E h \in HitsNow' : h.nr = local[t].nr /\ h.at >= local[t].arrived
  <2>1. t \in Servers /\ pc[t] \in {"count", "renew"} /\ t \in Busy
    BY DEF InKey, Fresh
  <2>2. ~local[t].lapsed /\ entry.expires # clock + 1
    BY <1>5, <2>1, TickActs
  <2>3. HitKept(local[t].nr, local[t].arrived)
    <3>1. local[t].arrived + Window > clock
      BY <1>1, <1>5, <2>1, TimesTyped
    <3> QED BY <1>5, <2>2, <3>1 DEF SlidingKept
  <2>4. store = "redis"
    BY <2>1, Located
  <2>5. entry.expires # None => entry.expires > clock
    <3>1. PICK h \in Entry.scores : TRUE
      BY <2>3, <2>4 DEF HitKept, HitsNow
    <3>2. Entry = entry
      BY <3>1, KeyNow DEF Absent
    <3> QED BY <3>2, EntryType DEF OrderInv
  <2>6. HitsNow' = HitsNow
    BY <1>1, <1>2, <1>3, <2>2, <2>5
  <2> QED BY <2>3, <2>6 DEF HitKept
<1>6. \A t \in Fresh : /\ local'[t].nr = local[t].nr /\ local'[t].arrived = local[t].arrived
                       /\ local'[t].answer = local[t].answer
  BY <1>1, TickActs
<1> SUFFICES ASSUME faults' = 0
             PROVE  /\ \A i \in Counted' :
                         log'[i].how = "sliding_window" /\ ~log'[i].lapsed /\ log'[i].arrived + Window > clock' =>
                           /\ \E h \in HitsNow' : h.nr = log'[i].nr /\ h.at >= log'[i].arrived
                           /\ store' = "redis" => entry'.expires # None /\ entry'.expires >= log'[i].decided + Window
                    /\ \A t \in Fresh' \cap InKey' :
                         ~local'[t].lapsed /\ local'[t].arrived + Window > clock' =>
                           \E h \in HitsNow' : h.nr = local'[t].nr /\ h.at >= local'[t].arrived
                    /\ \A t \in Fresh' : pc'[t] \in {"add", "count"} => local'[t].answer = 0
  BY DEF SlidingKept, HitKept
<1>7. \A t \in Fresh : pc[t] \in {"add", "count"} => local[t].answer = 0
  BY <1>1 DEF SlidingKept
<1> QED BY <1>1, <1>4, <1>5, <1>6, <1>7

\* Who arrives has done nothing yet.
LEMMA SlidingArrives ==
  ASSUME OrderInv, NEW s \in Servers, Arrive(s)
  PROVE  /\ UNCHANGED <<store, strategy, entry, counter, clock, broken, faults, switches, log>>
         /\ \A t \in Fresh' : pc'[t] \in {"expire", "add", "count", "renew"} =>
              t \in Fresh /\ pc'[t] = pc[t] /\ local'[t].nr = local[t].nr /\ local'[t].arrived = local[t].arrived
              /\ local'[t].lapsed = local[t].lapsed /\ local'[t].answer = local[t].answer
              /\ local'[t].window = local[t].window
<1>1. /\ UNCHANGED <<store, strategy, entry, counter, clock, broken, faults, switches, log>>
      /\ LimiterTyped /\ s \notin Busy
  BY DEF Arrive, OrderInv, LimiterTyped, Busy
<1>2. ASSUME NEW t \in Fresh', pc'[t] \in {"expire", "add", "count", "renew"}
      PROVE  t \in Fresh /\ pc'[t] = pc[t] /\ local'[t].nr = local[t].nr /\ local'[t].arrived = local[t].arrived
             /\ local'[t].lapsed = local[t].lapsed /\ local'[t].answer = local[t].answer
             /\ local'[t].window = local[t].window
  <2>1. t \in Servers /\ local'[t].epoch = switches
    BY <1>1 DEF Fresh, Busy
  <2>2. t # s /\ pc'[t] = pc[t]
    BY <1>1, <1>2, <2>1 DEF Arrive, LimiterTyped, Begin
  <2>3. t \in Busy
    BY <1>2, <2>1, <2>2 DEF Busy
  <2>4. local'[t] = [local[t] EXCEPT !.alone = FALSE] /\ local[t] \in InFlight
    BY <1>1, <2>1, <2>2, <2>3 DEF Arrive, LimiterTyped
  <2>5. /\ local'[t].nr = local[t].nr /\ local'[t].arrived = local[t].arrived /\ local'[t].epoch = local[t].epoch
        /\ local'[t].lapsed = local[t].lapsed /\ local'[t].answer = local[t].answer
        /\ local'[t].window = local[t].window
    BY <2>4 DEF InFlight
  <2> QED BY <2>1, <2>2, <2>3, <2>5 DEF Fresh
<1> QED BY <1>1, <1>2

LEMMA SlidingKeeps ==
  ASSUME OrderInv, OrderInv', SlidingKept, [LimiterNext]_limiterVars
  PROVE  SlidingKept'
<1>1. CASE UNCHANGED limiterVars
  <2>1. UNCHANGED <<store, strategy, entry, counter, clock, pc, local, faults, switches, log>>
    BY <1>1 DEF limiterVars
  <2>2. Fresh' = Fresh
    BY <2>1 DEF Fresh, Busy
  <2> QED BY <2>1, <2>2, SlidingQuiet
<1>2. ASSUME NEW s \in Servers, Arrive(s) PROVE SlidingKept'
  BY <1>2, SlidingArrives, SlidingQuiet
<1>3. ASSUME NEW how \in Strategies, Switch(how) PROVE SlidingKept'
  BY <1>3, SwitchCounts DEF SlidingKept
<1> QED BY <1>1, <1>2, <1>3, SlidingTick, SlidingActs, NextCases

\* No more may pass than before, unless somebody is counted as within the limit.
LEMMA LimitedPart ==
  ASSUME OrderInv, SlidingLimited, clock' \in {clock, clock + 1}, faults' = 0 => faults = 0,
         \A a \in Times : Allowed(a)' \subseteq Allowed(a)
  PROVE  SlidingLimited'
<1> SUFFICES ASSUME faults' = 0, NEW a \in Times, a + Window > clock'
             PROVE  IsFiniteSet(Allowed(a)') /\ Cardinality(Allowed(a)') <= Limit
  BY DEF SlidingLimited
<1>1. IsFiniteSet(Allowed(a)) /\ Cardinality(Allowed(a)) <= Limit
  <2>1. a \in Nat /\ clock \in Nat /\ Window \in Nat
    BY TimesTyped, RateAssumption DEF Times
  <2>2. a + Window > clock
    BY <2>1
  <2> QED BY <2>2 DEF SlidingLimited
<1>2. Allowed(a)' \subseteq Allowed(a)
  OBVIOUS
<1> DEFINE A == Allowed(a)
           B == Allowed(a)'
<1>3. IsFiniteSet(A) /\ Cardinality(A) <= Limit /\ B \subseteq A
  BY <1>1, <1>2
<1> HIDE DEF A, B
<1>4. IsFiniteSet(B) /\ Cardinality(B) <= Cardinality(A) /\ Cardinality(A) \in Nat /\ Cardinality(B) \in Nat
  BY <1>3, FS_Subset, FS_CardinalityType
<1>5. Cardinality(B) <= Limit
  BY <1>3, <1>4, Numbers
<1> QED BY <1>4, <1>5 DEF B

LEMMA AllowedEnds ==
  ASSUME OrderInv, NEW s \in Busy, NEW n, NEW w, Ends(s, n, w), UNCHANGED switches, NEW a,
         s \in Fresh /\ local[s].how = "sliding_window" /\ n <= Limit => pc[s] = "renew" /\ local[s].answer <= Limit
  PROVE  Allowed(a)' \subseteq Allowed(a)
<1>1. /\ Counted' = Counted \cup (IF s \in Fresh THEN {Len(log) + 1} ELSE {})
      /\ Fresh' = Fresh \ {s} /\ Counted \subseteq DOMAIN log /\ LimiterTyped
  BY EndsCounted DEF OrderInv, Counted
<1>2. ASSUME NEW i \in Counted', log'[i].how = "sliding_window", ~log'[i].over, ~log'[i].lapsed, a <= log'[i].arrived
      PROVE  log'[i].nr \in Allowed(a)
  <2>1. CASE i \in Counted
    <3>1. log'[i] = log[i]
      BY <1>1, <2>1 DEF Ends
    <3> QED BY <1>2, <2>1, <3>1 DEF Allowed
  <2>2. CASE i \notin Counted
    <3>1. s \in Fresh /\ i = Len(log) + 1
      BY <1>1, <2>2
    <3>2. /\ log'[i].nr = local[s].nr /\ log'[i].arrived = local[s].arrived /\ (log'[i].over <=> n > Limit)
          /\ log'[i].how = local[s].how /\ log'[i].lapsed = local[s].lapsed /\ n \in Nat
      BY <3>1 DEF Ends
    <3>3. n <= Limit
      BY <1>2, <3>2, Numbers
    <3> QED BY <1>2, <3>1, <3>2, <3>3 DEF Allowed
  <2> QED BY <2>1, <2>2
<1>3. ASSUME NEW t \in Fresh', pc'[t] = "renew", local'[t].answer <= Limit, ~local'[t].lapsed, a <= local'[t].arrived
      PROVE  local'[t].nr \in Allowed(a)
  <2>1. t \in Fresh /\ local'[t] = local[t] /\ pc'[t] = pc[t]
    BY <1>1 DEF Ends, Fresh, Busy
  <2> QED BY <1>3, <2>1 DEF Allowed
<1>4. ASSUME NEW x \in Allowed(a)'
      PROVE  \/ \E i \in Counted' : /\ log'[i].how = "sliding_window" /\ ~log'[i].over /\ ~log'[i].lapsed
                                    /\ a <= log'[i].arrived /\ x = log'[i].nr
             \/ \E t \in Fresh' : /\ pc'[t] = "renew" /\ local'[t].answer <= Limit /\ ~local'[t].lapsed
                                  /\ a <= local'[t].arrived /\ x = local'[t].nr
  BY DEF Allowed
<1> QED BY <1>2, <1>3, <1>4

LEMMA AllowedGoes ==
  ASSUME OrderInv, NEW s \in Busy, NEW place, NEW rec, Goes(s, place, rec), place # "idle",
         UNCHANGED switches, NEW a, place = "renew" /\ s \in Fresh => rec.answer > Limit /\ rec.answer \in Nat
  PROVE  Allowed(a)' \subseteq Allowed(a)
<1>1. Counted' = Counted /\ Fresh' = Fresh /\ log' = log
  BY GoesCounted DEF OrderInv, Goes
<1>2. ASSUME NEW t \in Fresh', pc'[t] = "renew", local'[t].answer <= Limit, ~local'[t].lapsed, a <= local'[t].arrived
      PROVE  local'[t].nr \in Allowed(a)
  <2>1. t # s
    <3> SUFFICES ASSUME t = s PROVE FALSE
      OBVIOUS
    <3>1. place = "renew" /\ s \in Fresh /\ rec.answer <= Limit
      BY <1>1, <1>2 DEF Goes
    <3> QED BY <3>1, Numbers
  <2>2. t \in Fresh /\ local'[t] = local[t] /\ pc'[t] = pc[t]
    BY <1>1, <2>1 DEF Goes, Fresh, Busy
  <2> QED BY <1>2, <2>2 DEF Allowed
<1>3. ASSUME NEW x \in Allowed(a)'
      PROVE  \/ \E i \in Counted' : /\ log'[i].how = "sliding_window" /\ ~log'[i].over /\ ~log'[i].lapsed
                                    /\ a <= log'[i].arrived /\ x = log'[i].nr
             \/ \E t \in Fresh' : /\ pc'[t] = "renew" /\ local'[t].answer <= Limit /\ ~local'[t].lapsed
                                  /\ a <= local'[t].arrived /\ x = local'[t].nr
  BY DEF Allowed
<1>4. ASSUME NEW i \in Counted', log'[i].how = "sliding_window", ~log'[i].over, ~log'[i].lapsed, a <= log'[i].arrived
      PROVE  log'[i].nr \in Allowed(a)
  BY <1>1, <1>4 DEF Allowed
<1> QED BY <1>2, <1>3, <1>4

\* Whoever may pass is one of the hits.
LEMMA LimitedHits ==
  ASSUME OrderInv', SlidingKept', IsFiniteSet(HitsNow'), Cardinality(HitsNow') <= Limit
  PROVE  SlidingLimited'
<1> SUFFICES ASSUME faults' = 0, NEW a \in Times, a + Window > clock'
             PROVE  IsFiniteSet(Allowed(a)') /\ Cardinality(Allowed(a)') <= Limit
  BY DEF SlidingLimited
<1> DEFINE H == HitsNow'
           N == {h.nr : h \in H}
           A == Allowed(a)'
<1>1. clock' \in Nat /\ a \in Nat /\ Window \in Nat
  BY RateAssumption DEF OrderInv, LimiterTyped, Times
<1>2. \A i \in Counted' : log'[i].arrived \in Nat
  <2>1. \A i \in Counted' : log'[i] \in Logged
    BY DEF OrderInv, LimiterTyped, Counted
  <2>2. \A i \in Counted' : log'[i].arrived \in Times
    BY <2>1 DEF Logged
  <2> QED BY <2>2, RateAssumption DEF Times
<1>3. \A t \in Fresh' : t \in Servers /\ local'[t].arrived \in Nat
  <2>1. \A t \in Fresh' : t \in Servers /\ local'[t] \in InFlight
    BY DEF OrderInv, LimiterTyped, Fresh, Busy
  <2>2. \A t \in Fresh' : t \in Servers /\ local'[t].arrived \in Times
    BY <2>1 DEF InFlight
  <2> QED BY <2>2, RateAssumption DEF Times
<1>4. ASSUME NEW i \in Counted', log'[i].how = "sliding_window", ~log'[i].over, ~log'[i].lapsed, a <= log'[i].arrived
      PROVE  log'[i].nr \in N
  <2>1. log'[i].arrived + Window > clock'
    BY <1>1, <1>2, <1>4
  <2>2. \E h \in HitsNow' : h.nr = log'[i].nr
    BY <1>4, <2>1 DEF SlidingKept, HitKept
  <2> QED BY <2>2
<1>5. ASSUME NEW t \in Fresh', pc'[t] = "renew", ~local'[t].lapsed, a <= local'[t].arrived
      PROVE  local'[t].nr \in N
  <2>1. local'[t].arrived + Window > clock' /\ t \in InKey'
    BY <1>1, <1>3, <1>5 DEF InKey
  <2>2. \E h \in HitsNow' : h.nr = local'[t].nr
    BY <1>5, <2>1 DEF SlidingKept, HitKept
  <2> QED BY <2>2
<1>6. ASSUME NEW x \in A
      PROVE  \/ \E i \in Counted' : /\ log'[i].how = "sliding_window" /\ ~log'[i].over /\ ~log'[i].lapsed
                                    /\ a <= log'[i].arrived /\ x = log'[i].nr
             \/ \E t \in Fresh' : /\ pc'[t] = "renew" /\ local'[t].answer <= Limit /\ ~local'[t].lapsed
                                  /\ a <= local'[t].arrived /\ x = local'[t].nr
  BY DEF Allowed
<1>7. A \subseteq N
  <2> HIDE DEF A, N
  <2> QED BY <1>4, <1>5, <1>6
<1>8. IsFiniteSet(H) /\ Cardinality(H) <= Limit
  OBVIOUS
<1> HIDE DEF A, H
<1>9. IsFiniteSet(N) /\ Cardinality(N) <= Cardinality(H)
  <2> DEFINE f == [h \in H |-> h.nr]
  <2>1. f \in Surjection(H, N)
    BY DEF Surjection
  <2> HIDE DEF f, N
  <2> QED BY <1>8, <2>1, FS_Surjection
<1> HIDE DEF N
<1>10. IsFiniteSet(A) /\ Cardinality(A) <= Cardinality(N) /\ Cardinality(A) \in Nat /\ Cardinality(N) \in Nat
       /\ Cardinality(H) \in Nat
  BY <1>7, <1>8, <1>9, FS_Subset, FS_CardinalityType
<1>11. Cardinality(A) <= Limit
  BY <1>8, <1>9, <1>10, Numbers
<1> QED BY <1>10, <1>11 DEF A

LEMMA LimitedActs ==
  ASSUME OrderInv, OrderInv', SlidingKept, SlidingKept', SlidingLimited, NEW s \in Servers, Acts(s)
  PROVE  SlidingLimited'
<1>1. /\ s \in Busy /\ UNCHANGED <<store, clock, switches>> /\ (faults' = 0 => faults = 0) /\ LimiterTyped
  <2>1. /\ s \in Busy /\ UNCHANGED <<store, strategy, clock, switches>> /\ faults' \in {faults, faults + 1}
        /\ LimiterTyped /\ faults \in Nat
    BY ServerActs DEF OrderInv, LimiterTyped
  <2> QED BY <2>1
<1>2. CASE faults' # 0
  BY <1>2 DEF SlidingLimited
<1>3. CASE CountLocked(s) /\ local[s].how = "sliding_window" /\ faults' = 0
  <2>1. /\ HitsNow' = counter'.hits /\ Ends(s, Cardinality(HitsNow'), 0) /\ IsFiniteSet(HitsNow')
    <3>1. store' = "memory" /\ Ends(s, Cardinality(HitsNow'), 0)
      BY <1>1, <1>3, LockedPasses
    <3>2. IsFiniteSet(counter'.hits)
      BY DEF OrderInv, HitsLogged, HitsIn
    <3> QED BY <3>1, <3>2 DEF HitsNow
  <2>2. CASE Cardinality(HitsNow') <= Limit
    BY <2>1, <2>2, LimitedHits
  <2>3. CASE ~(Cardinality(HitsNow') <= Limit)
    <3>1. \A a \in Times : Allowed(a)' \subseteq Allowed(a)
      BY <1>1, <2>1, <2>3, AllowedEnds
    <3> QED BY <1>1, <3>1, LimitedPart
  <2> QED BY <2>2, <2>3
<1>4. CASE CountHits(s) /\ faults' = 0
  <2>1. PICK rec : /\ Goes(s, "renew", rec)
                   /\ \/ rec.answer = Cardinality(Entry.scores)
                      \/ rec.answer = 1 /\ (WrongType("sliding_window") \/ local[s].answer = 1)
    BY <1>4, CountHitsActs
  <2>2. /\ HitsNow' = HitsNow /\ HitsNow = Entry.scores /\ IsFiniteSet(Entry.scores)
        /\ pc[s] = "count" /\ local[s].how = "sliding_window"
    BY <1>4, CountHitsPasses, CountHitsActs DEF HitsNow
  <2>3. Cardinality(Entry.scores) \in Nat
    BY <2>2, FS_CardinalityType
  <2>4. CASE s \in Fresh /\ Cardinality(Entry.scores) <= Limit
    BY <2>2, <2>4, LimitedHits
  <2>5. CASE ~(s \in Fresh /\ Cardinality(Entry.scores) <= Limit)
    <3>1. s \in Fresh => rec.answer > Limit /\ rec.answer \in Nat
      <4>1. s \in Fresh => ~WrongType("sliding_window")
        BY <1>1, <2>2, SettledHow DEF OrderInv
      <4>2. s \in Fresh => local[s].answer = 0
        BY <1>1, <1>4, <2>2 DEF SlidingKept
      <4> QED BY <2>1, <2>3, <2>5, <4>1, <4>2, Numbers
    <3>2. \A a \in Times : Allowed(a)' \subseteq Allowed(a)
      BY <1>1, <2>1, <3>1, AllowedGoes
    <3> QED BY <1>1, <3>2, LimitedPart
  <2> QED BY <2>4, <2>5
<1>5. CASE Renew(s)
  <2>1. Ends(s, local[s].answer, 0) /\ pc[s] = "renew"
    BY <1>5, RenewActs
  <2>2. \A a \in Times : Allowed(a)' \subseteq Allowed(a)
    BY <1>1, <2>1, AllowedEnds
  <2> QED BY <1>1, <2>2, LimitedPart
<1>6. CASE Evict(s) \/ Add(s)
  <2>1. PICK place, rec : Goes(s, place, rec) /\ place \in {"add", "count"}
    BY <1>6, EvictActs, AddActs
  <2>2. \A a \in Times : Allowed(a)' \subseteq Allowed(a)
    BY <1>1, <2>1, AllowedGoes
  <2> QED BY <1>1, <2>2, LimitedPart
<1>7. CASE local[s].how # "sliding_window"
  <2>1. ASSUME NEW t \in Fresh' PROVE pc'[t] # "renew"
    <3>1. local'[t].how # "sliding_window" /\ t \in Busy'
      BY <1>7, NoneOther DEF Fresh
    <3> QED BY <3>1 DEF OrderInv, RequestsPlaced, PlacedAt
  <2>2. \A i \in Counted' : log'[i].how # "sliding_window"
    BY <1>7, NoneOther
  <2>3. \A a \in Times : Allowed(a)' \subseteq Allowed(a)
    BY <2>1, <2>2 DEF Allowed
  <2> QED BY <1>1, <2>3, LimitedPart
<1>8. CASE Unreachable(s)
  <2>1. faults' # 0
    BY <1>1, <1>8 DEF Unreachable, LimiterTyped
  <2> QED BY <2>1, <1>2
<1> QED BY <1>2, <1>3, <1>4, <1>5, <1>6, <1>7, <1>8, IncrActs, ExpireActs, ReadBucketActs, DeleteActs, ExecBucketActs DEF Acts

LEMMA LimitedKeeps ==
  ASSUME OrderInv, OrderInv', SlidingKept, SlidingKept', SlidingLimited, [LimiterNext]_limiterVars
  PROVE  SlidingLimited'
<1>1. CASE UNCHANGED limiterVars
  <2>1. UNCHANGED <<store, strategy, entry, counter, clock, pc, local, faults, switches, log>>
    BY <1>1 DEF limiterVars
  <2>2. \A a \in Times : Allowed(a)' = Allowed(a)
    BY <2>1 DEF Allowed, Counted, Fresh, Busy
  <2> QED BY <2>1, <2>2, LimitedPart
<1>2. ASSUME NEW s \in Servers, Arrive(s) PROVE SlidingLimited'
  <2>1. UNCHANGED <<store, strategy, entry, counter, clock, broken, faults, switches, log>> /\ Counted' = Counted
    BY <1>2, SlidingArrives DEF Counted
  <2>2. \A a \in Times : Allowed(a)' \subseteq Allowed(a)
    <3> SUFFICES ASSUME NEW a \in Times, NEW x \in Allowed(a)' PROVE x \in Allowed(a)
      OBVIOUS
    <3>1. CASE \E i \in Counted' : /\ log'[i].how = "sliding_window" /\ ~log'[i].over /\ ~log'[i].lapsed
                                   /\ a <= log'[i].arrived /\ x = log'[i].nr
      BY <2>1, <3>1 DEF Allowed
    <3>2. CASE \E t \in Fresh' : /\ pc'[t] = "renew" /\ local'[t].answer <= Limit /\ ~local'[t].lapsed
                                 /\ a <= local'[t].arrived /\ x = local'[t].nr
      <4>1. PICK t \in Fresh' : /\ pc'[t] = "renew" /\ local'[t].answer <= Limit /\ ~local'[t].lapsed
                                /\ a <= local'[t].arrived /\ x = local'[t].nr
        BY <3>2
      <4>2. t \in Fresh /\ pc'[t] = pc[t] /\ local'[t].nr = local[t].nr /\ local'[t].arrived = local[t].arrived
            /\ local'[t].lapsed = local[t].lapsed /\ local'[t].answer = local[t].answer
        BY <1>2, <4>1, SlidingArrives
      <4> QED BY <4>1, <4>2 DEF Allowed
    <3> QED BY <3>1, <3>2 DEF Allowed
  <2> QED BY <2>1, <2>2, LimitedPart
<1>3. ASSUME NEW how \in Strategies, Switch(how) PROVE SlidingLimited'
  <2>1. Counted' = {} /\ Fresh' = {} /\ UNCHANGED <<clock, faults>>
    BY <1>3, SwitchCounts DEF Switch
  <2>2. \A a \in Times : Allowed(a)' \subseteq Allowed(a)
    BY <2>1 DEF Allowed
  <2> QED BY <2>1, <2>2, LimitedPart
<1>4. CASE Tick
  <2>1. UNCHANGED <<faults, log, pc>> /\ clock' = clock + 1 /\ Counted' = Counted /\ Fresh' = Fresh /\ Fresh \subseteq Servers
    BY <1>4, TickActs DEF Fresh, Busy
  <2>2. \A t \in Fresh : /\ local'[t].nr = local[t].nr /\ local'[t].arrived = local[t].arrived
                         /\ local'[t].answer = local[t].answer /\ (~local'[t].lapsed => ~local[t].lapsed)
    BY <1>4, <2>1, TickActs
  <2>3. \A a \in Times : Allowed(a)' \subseteq Allowed(a)
    <3> SUFFICES ASSUME NEW a \in Times, NEW x \in Allowed(a)' PROVE x \in Allowed(a)
      OBVIOUS
    <3>1. CASE \E i \in Counted' : /\ log'[i].how = "sliding_window" /\ ~log'[i].over /\ ~log'[i].lapsed
                                   /\ a <= log'[i].arrived /\ x = log'[i].nr
      BY <2>1, <3>1 DEF Allowed
    <3>2. CASE \E t \in Fresh' : /\ pc'[t] = "renew" /\ local'[t].answer <= Limit /\ ~local'[t].lapsed
                                 /\ a <= local'[t].arrived /\ x = local'[t].nr
      BY <2>1, <2>2, <3>2 DEF Allowed
    <3> QED BY <3>1, <3>2 DEF Allowed
  <2> QED BY <2>1, <2>3, LimitedPart
<1> QED BY <1>1, <1>2, <1>3, <1>4, LimitedActs, NextCases

\* The limit on who may pass is one on who has passed until now.
LEMMA SlidingNow ==
  ASSUME OrderInv', SlidingLimited', faults' = 0, NEW span \in Times \X Times, span[2] = clock', Short(span)
  PROVE  Cardinality({i \in Within("sliding_window", span[1], span[2])' : ~log'[i].lapsed}) <= Limit
<1> DEFINE W == {i \in Within("sliding_window", span[1], span[2])' : ~log'[i].lapsed}
           A == Allowed(span[1])'
           f == [i \in W |-> log'[i].nr]
<1>1. IsFiniteSet(A) /\ Cardinality(A) <= Limit
  <2>1. span[1] \in Times /\ span[1] \in Nat /\ span[2] \in Nat /\ Window \in Nat
    BY RateAssumption DEF Times
  <2>2. span[1] + Window > clock'
    BY <2>1 DEF Short
  <2> QED BY <2>1, <2>2 DEF SlidingLimited
<1>2. \A i \in W : i \in DOMAIN log' /\ log'[i].nr \in A
  BY DEF Within, Allowed, Counted
<1>3. \A i, j \in W : f[i] = f[j] => i = j
  BY <1>2 DEF OrderInv, Numbered
<1>4. f \in [W -> A]
  BY <1>2
<1> HIDE DEF W, A, f
<1>5. IsFiniteSet(W) /\ Cardinality(W) <= Cardinality(A)
  BY <1>1, <1>3, <1>4, Fewer
<1>6. Cardinality(W) \in Nat /\ Cardinality(A) \in Nat
  BY <1>1, <1>5, FS_CardinalityType
<1>7. Cardinality(W) <= Limit
  BY <1>1, <1>5, <1>6, Numbers
<1> QED BY <1>7 DEF W

LEMMA SlidingHolds ==
  ASSUME OrderInv, OrderInv', SlidingLimited', SlidingWindowHolds, UNCHANGED switches, faults' = 0 => faults = 0,
         clock' \in {clock, clock + 1}, DOMAIN log \subseteq DOMAIN log', \A i \in DOMAIN log : log'[i] = log[i],
         \A i \in DOMAIN log' \ DOMAIN log : log'[i].decided = clock'
  PROVE  SlidingWindowHolds'
<1> SUFFICES ASSUME faults' = 0, NEW span \in Spans', Short(span)
             PROVE  Cardinality({i \in Within("sliding_window", span[1], span[2])' : ~log'[i].lapsed}) <= Limit
  BY DEF SlidingWindowHolds, Short
<1>1. /\ span \in Times \X Times /\ span[1] \in Nat /\ span[2] \in Nat /\ span[2] <= clock' /\ clock \in Nat
      /\ span[1] <= span[2]
  BY TimesTyped, RateAssumption DEF Spans, Times
<1>2. CASE span[2] = clock'
  BY <1>1, <1>2, SlidingNow
<1>3. CASE span[2] < clock'
  <2>1. span \in Spans
    BY <1>1, <1>3 DEF Spans
  <2>2. ASSUME NEW i
        PROVE  i \in Within("sliding_window", span[1], span[2])' <=> i \in Within("sliding_window", span[1], span[2])
    <3>1. CASE i \in DOMAIN log
      BY <3>1 DEF Within
    <3>2. CASE i \notin DOMAIN log
      <4>1. i \in DOMAIN log' => ~(log'[i].decided <= span[2])
        BY <1>1, <1>3, <3>2
      <4> QED BY <3>2, <4>1 DEF Within
    <3> QED BY <3>1, <3>2
  <2>3. \A i \in Within("sliding_window", span[1], span[2]) : log'[i] = log[i]
    BY DEF Within
  <2>4. {i \in Within("sliding_window", span[1], span[2])' : ~log'[i].lapsed}
          = {i \in Within("sliding_window", span[1], span[2]) : ~log[i].lapsed}
    BY <2>2, <2>3
  <2> QED BY <2>1, <2>4 DEF SlidingWindowHolds
<1> QED BY <1>1, <1>2, <1>3

\* Every step keeps the hits of the last window, and the limit on them.
LEMMA SlidingStep ==
  ASSUME OrderInv, OrderInv', SlidingKept, SlidingLimited, SlidingWindowHolds, [LimiterNext]_limiterVars
  PROVE  SlidingKept' /\ SlidingLimited' /\ SlidingWindowHolds'
<1>1. SlidingKept'
  BY SlidingKeeps
<1>2. SlidingLimited'
  BY <1>1, LimitedKeeps
<1>9. ASSUME switches' = switches, faults' = faults, log' = log, clock' \in {clock, clock + 1} PROVE SlidingWindowHolds'
  <2>1. DOMAIN log' = DOMAIN log /\ (\A i \in DOMAIN log : log'[i] = log[i])
    BY <1>9
  <2>2. DOMAIN log \subseteq DOMAIN log' /\ \A i \in DOMAIN log' \ DOMAIN log : log'[i].decided = clock'
    BY <2>1
  <2>3. switches' = switches /\ (faults' = 0 => faults = 0)
    BY <1>9
  <2> QED BY <1>2, <1>9, <2>1, <2>2, <2>3, SlidingHolds
<1>3. CASE UNCHANGED <<clock, switches, faults, log>>
  <2>1. switches' = switches /\ faults' = faults /\ log' = log /\ clock' \in {clock, clock + 1}
    BY <1>3
  <2> QED BY <1>1, <1>2, <2>1, <1>9
<1>4. ASSUME NEW s \in Servers, Arrive(s) PROVE SlidingWindowHolds'
  BY <1>3, <1>4 DEF Arrive
<1>5. ASSUME NEW how \in Strategies, Switch(how) PROVE SlidingWindowHolds'
  <2>1. \A a, b : {i \in Within("sliding_window", a, b)' : ~log'[i].lapsed} = {}
    BY <1>5, SwitchCounts DEF Within, Counted
  <2>2. Cardinality({}) <= Limit
    BY FS_EmptySet, Numbers
  <2> QED BY <2>1, <2>2 DEF SlidingWindowHolds
<1>6. CASE Tick
  <2>1. switches' = switches /\ faults' = faults /\ log' = log /\ clock' \in {clock, clock + 1}
    BY <1>6 DEF Tick
  <2> QED BY <1>1, <1>2, <2>1, <1>9
<1>7. ASSUME NEW s \in Servers, Acts(s) PROVE SlidingWindowHolds'
  <2>1. UNCHANGED <<clock, switches>> /\ (faults' = 0 => faults = 0)
    <3>1. UNCHANGED <<clock, switches>> /\ faults' \in {faults, faults + 1} /\ faults \in Nat
      BY <1>7, ServerActs DEF OrderInv, LimiterTyped
    <3> QED BY <3>1
  <2>2. /\ DOMAIN log \subseteq DOMAIN log' /\ (\A i \in DOMAIN log : log'[i] = log[i])
        /\ \A i \in DOMAIN log' \ DOMAIN log : log'[i].decided = clock'
    <3>1. CASE \E n, w : Ends(s, n, w)
      BY <2>1, <3>1 DEF Ends
    <3>2. CASE \E place, rec : Goes(s, place, rec)
      BY <3>2 DEF Goes
    <3> QED BY <1>7, <3>1, <3>2, ServerActs
  <2> QED BY <1>2, <2>1, <2>2, SlidingHolds
<1>8. UNCHANGED limiterVars => UNCHANGED <<clock, switches, faults, log>>
  BY DEF limiterVars
<1> QED BY <1>1, <1>2, <1>3, <1>4, <1>5, <1>6, <1>7, <1>8, NextCases

----------------------------------------------------------------------------
(* Fixed windows.                                                           *)

\* Requests let through in a window can be counted.
LEMMA PassesFinite ==
  ASSUME OrderInv, NEW w
  PROVE  /\ IsFiniteSet(Passing(w)) /\ Cardinality(Passing(w)) \in Nat
         /\ IsFiniteSet(Pending(w)) /\ Cardinality(Pending(w)) \in Nat
         /\ Passes(w) \in Nat
         /\ Passing(w) = {} /\ Pending(w) = {} => Passes(w) = 0
         /\ \A i \in Passing(w) : i \in DOMAIN log /\ log[i] \in Logged
         /\ \A s \in Pending(w) : s \in Servers /\ local[s] \in InFlight
<1>1. DOMAIN log = 1..Len(log) /\ Len(log) \in Nat /\ LimiterTyped
  BY DEF OrderInv, LimiterTyped
<1>2. IsFiniteSet(DOMAIN log) /\ Passing(w) \subseteq DOMAIN log
  BY <1>1, FS_Interval DEF Passing, Counted
<1>3. IsFiniteSet(Busy) /\ Pending(w) \subseteq Busy /\ Busy \subseteq Servers
  BY <1>1, BusyFinite DEF Pending, Fresh, Busy
<1>4. IsFiniteSet(Passing(w)) /\ Cardinality(Passing(w)) \in Nat
  BY <1>2, FS_Subset, FS_CardinalityType
<1>5. IsFiniteSet(Pending(w)) /\ Cardinality(Pending(w)) \in Nat
  BY <1>3, FS_Subset, FS_CardinalityType
<1>6. Passes(w) \in Nat
  BY <1>4, <1>5 DEF Passes
<1>7. Passing(w) = {} /\ Pending(w) = {} => Passes(w) = 0
  BY FS_EmptySet DEF Passes
<1>8. (\A i \in Passing(w) : log[i] \in Logged) /\ (\A s \in Pending(w) : local[s] \in InFlight)
  BY <1>1, <1>2, <1>3 DEF LimiterTyped
<1> QED BY <1>2, <1>3, <1>4, <1>5, <1>6, <1>7, <1>8

\* Who is counted was let through in a window.
LEMMA PassedSome ==
  ASSUME OrderInv, NEW w, \A a \in Times : ~Passed(w, a)
  PROVE  Passing(w) = {} /\ Pending(w) = {} /\ Passes(w) = 0
<1>1. Passing(w) = {}
  BY PassesFinite DEF Passed, Logged
<1>2. Pending(w) = {}
  BY PassesFinite DEF Passed, InFlight
<1> QED BY <1>1, <1>2, PassesFinite

\* A window that runs has begun.
LEMMA BornTyped ==
  ASSUME OrderInv
  PROVE  /\ Running => Born \in Times /\ Born \in Nat /\ Born <= clock
         /\ Count \in Nat /\ clock \in Times /\ clock \in Nat /\ Times \subseteq Nat
         /\ Limit \in Nat /\ Limit >= 1 /\ Window \in Nat /\ Window >= 1
<1>1. /\ LimiterTyped /\ PastKeys /\ Times \subseteq Nat /\ entry \in Keys /\ counter \in Counters
  BY RateAssumption DEF OrderInv, LimiterTyped, Times
<1>2. entry.born \in Times /\ entry.count \in Nat /\ counter.start \in {None} \cup Times /\ counter.count \in Nat
  BY <1>1 DEF Keys, Counters
<1>3. entry.born <= clock /\ (counter.start # None => counter.start <= clock)
  BY <1>1 DEF PastKeys, Keyed
<1>4. clock \in Times /\ Limit \in Nat /\ Limit >= 1 /\ Window \in Nat /\ Window >= 1
  BY <1>1, RateAssumption DEF LimiterTyped
<1>5. Running => Born \in Times /\ Born <= clock
  BY <1>2, <1>3 DEF Running, Born
<1>6. Count \in Nat
  BY <1>2 DEF Count
<1> QED BY <1>1, <1>4, <1>5, <1>6

\* A step that lets nobody through in another window keeps FixedKept.
LEMMA FixedSame ==
  ASSUME FixedKept, OrderInv, faults' = 0 => faults = 0,
         \A v : Passes(v)' <= Passes(v) /\ Passes(v)' \in Nat,
         \A v, b : Passed(v, b)' => Passed(v, b),
         Running' = Running, Running => Born' = Born /\ Count' = Count
  PROVE  FixedKept'
<1> SUFFICES ASSUME faults' = 0 PROVE FixedKept'
  BY DEF FixedKept
<1>1. faults = 0 /\ Times' = Times /\ \A v : Passes(v) \in Nat
  BY PassesFinite DEF Times
<1>2. \A w \in Times : Passes(w)' <= Limit
  BY <1>1, BornTyped DEF FixedKept
<1>3. Running' => Passes(Born)' <= Count'
  <2>1. Running => Passes(Born)' <= Passes(Born) /\ Passes(Born)' \in Nat /\ Passes(Born) \in Nat
                   /\ Passes(Born) <= Count
    BY <1>1 DEF FixedKept
  <2>2. ASSUME Running PROVE Passes(Born') = Passes(Born)
    BY <2>2
  <2>3. Running => Passes(Born)' <= Count
    BY <2>1, BornTyped
  <2> QED BY <2>3
<1>4. \A w, a \in Times : Passed(w, a)' => Running' /\ (w = Born' \/ Before(w, a, Born'))
  BY <1>1 DEF FixedKept
<1>5. \A v, w, a, b \in Times :
        Passed(v, a)' /\ Passed(w, b)' => v = w \/ Before(v, a, w) \/ Before(w, b, v)
  BY <1>1 DEF FixedKept
<1> QED BY <1>1, <1>2, <1>3, <1>4, <1>5 DEF FixedKept, Before

\* One request more in the window that runs.
LEMMA FixedMore ==
  ASSUME FixedKept, OrderInv, faults' = 0 => faults = 0,
         NEW q \in BOOLEAN, NEW a \in Times, Running, Running', Born' = Born, Count' = Count + 1,
         q => Count' <= Limit,
         \A v : Passes(v)' = Passes(v) + (IF q /\ v = Born THEN 1 ELSE 0),
         \A v, b : Passed(v, b)' => Passed(v, b) \/ (q /\ v = Born /\ b = a)
  PROVE  FixedKept'
<1> SUFFICES ASSUME faults' = 0 PROVE FixedKept'
  BY DEF FixedKept
<1>1. faults = 0 /\ Times' = Times /\ (\A v : Passes(v) \in Nat) /\ Born \in Times /\ Count \in Nat /\ Limit \in Nat
  BY PassesFinite, BornTyped DEF Times
<1>2. Passes(Born) <= Count
  BY <1>1 DEF FixedKept
<1>3. \A w \in Times : Passes(w)' <= Limit
  BY <1>1, <1>2 DEF FixedKept
<1>4. Passes(Born)' <= Count'
  <2> DEFINE o == Born
  <2>1. Passes(o)' = Passes(o) + (IF q THEN 1 ELSE 0) /\ Passes(o) <= Count /\ o = Born'
    BY <1>2
  <2> HIDE DEF o
  <2>2. Passes(o)' <= Count'
    BY <1>1, <2>1
  <2> QED BY <2>1, <2>2
<1>5. \A w, b \in Times : Passed(w, b)' => Running' /\ (w = Born' \/ Before(w, b, Born'))
  BY <1>1 DEF FixedKept
<1>6. \A v, w, b, c \in Times :
        Passed(v, b)' /\ Passed(w, c)' => v = w \/ Before(v, b, w) \/ Before(w, c, v)
  BY <1>1 DEF FixedKept
<1> QED BY <1>1, <1>3, <1>4, <1>5, <1>6 DEF FixedKept, Before

\* The first request of a window.
LEMMA FixedNew ==
  ASSUME FixedKept, OrderInv, faults' = 0 => faults = 0,
         NEW q \in BOOLEAN, NEW a \in Times, Running => Born + Window <= clock,
         Running', Born' = clock, Count' = 1,
         \A v : Passes(v)' = Passes(v) + (IF q /\ v = clock THEN 1 ELSE 0),
         \A v, b : Passed(v, b)' => Passed(v, b) \/ (q /\ v = clock /\ b = a)
  PROVE  FixedKept'
<1> SUFFICES ASSUME faults' = 0 PROVE FixedKept'
  BY DEF FixedKept
<1>1. /\ faults = 0 /\ Times' = Times /\ (\A v : Passes(v) \in Nat) /\ Limit \in Nat /\ Limit >= 1
      /\ clock \in Times /\ clock \in Nat /\ Times \subseteq Nat /\ Window \in Nat /\ Window >= 1
  BY PassesFinite, BornTyped DEF Times
<1>2. \A w, b \in Times : Passed(w, b) => Before(w, b, clock) /\ w # clock
  <2> SUFFICES ASSUME NEW w \in Times, NEW b \in Times, Passed(w, b) PROVE Before(w, b, clock) /\ w # clock
    OBVIOUS
  <2>1. Running /\ (w = Born \/ Before(w, b, Born)) /\ w \in Nat /\ b \in Nat /\ Born \in Nat /\ Born <= clock
    BY <1>1, BornTyped DEF FixedKept
  <2>2. w = Born => b <= clock
    <3>1. ASSUME w = Born, NEW i \in Passing(w), log[i].arrived = b PROVE b <= clock
      BY <1>1, <2>1, <3>1, PassesFinite DEF OrderInv, PastRequests, Logged, Times
    <3>2. ASSUME w = Born, NEW s \in Pending(w), local[s].arrived = b PROVE b <= clock
      BY <1>1, <2>1, <3>2, PassesFinite, Located DEF Pending, Fresh, InFlight, Times
    <3> QED BY <3>1, <3>2 DEF Passed
  <2> QED BY <1>1, <2>1, <2>2 DEF Before
<1>3. Passes(clock) = 0
  BY <1>1, <1>2, PassedSome
<1>4. \A w \in Times : Passes(w)' <= Limit
  <2> SUFFICES ASSUME NEW w \in Times PROVE Passes(w)' <= Limit
    OBVIOUS
  <2>1. Passes(w) <= Limit
    BY <1>1 DEF FixedKept
  <2> QED BY <1>1, <1>3, <2>1
<1>5. Passes(Born)' <= Count'
  <2>1. ASSUME NEW v, v = clock PROVE Passes(v)' <= Count'
    <3>1. Passes(v)' = 0 + (IF q THEN 1 ELSE 0)
      BY <1>3, <2>1
    <3> QED BY <1>1, <3>1
  <2> QED BY <2>1
<1>6. \A w, b \in Times : Passed(w, b)' => Running' /\ (w = Born' \/ Before(w, b, Born'))
  BY <1>1, <1>2
<1>7. \A v, w, b, c \in Times :
        Passed(v, b)' /\ Passed(w, c)' => v = w \/ Before(v, b, w) \/ Before(w, c, v)
  BY <1>1, <1>2 DEF FixedKept
<1> QED BY <1>1, <1>4, <1>5, <1>6, <1>7 DEF FixedKept, Before

\* None was let through, and none is about to be.
LEMMA FixedNone ==
  ASSUME OrderInv', \A i \in Counted' : log'[i].how # "fixed_window", \A t \in Fresh' : local'[t].how # "fixed_window"
  PROVE  FixedKept' /\ FixedWindowHolds'
<1>1. \A v : Passing(v)' = {}
  BY DEF Passing
<1>2. \A v : Pending(v)' = {}
  BY DEF Pending, Fresh, OrderInv, RequestsPlaced, PlacedAt, LimiterTyped
<1>3. \A v : Passes(v)' = 0 /\ \A a : ~Passed(v, a)'
  BY <1>1, <1>2, FS_EmptySet DEF Passes, Passed
<1>4. Count' \in Nat
  BY DEF Count, OrderInv, LimiterTyped, Keys, Counters
<1>5. FixedKept'
  <2>1. \A w \in Times : Passes(w)' <= Limit
    BY <1>3, RateAssumption
  <2>2. Passes(Born)' <= Count'
    BY <1>3, <1>4 DEF Passes
  <2> QED BY <1>3, <2>1, <2>2 DEF FixedKept, Times
<1>6. \A a, b : Within("fixed_window", a, b)' = {}
  BY DEF Within, Counted
<1> QED BY <1>5, <1>6, EmptyHolds

\* What the end of a request adds.
LEMMA PassesEnds ==
  ASSUME OrderInv, NEW s \in Busy, NEW n, NEW w, Ends(s, n, w), UNCHANGED switches,
         local[s].how = "fixed_window", NEW q \in BOOLEAN, q <=> s \in Fresh /\ n <= Limit
  PROVE  /\ pc[s] # "expire" => \A v : Passes(v)' = Passes(v) + (IF q /\ v = w THEN 1 ELSE 0)
         /\ pc[s] = "expire" /\ n = 1 /\ w = local[s].window => \A v : Passes(v)' = Passes(v)
         /\ \A v, b : Passed(v, b)' => Passed(v, b) \/ (q /\ v = w /\ b = local[s].arrived)
<1> DEFINE k == Len(log) + 1
<1>1. /\ Counted' = Counted \cup (IF s \in Fresh THEN {k} ELSE {}) /\ k \notin DOMAIN log /\ Fresh' = Fresh \ {s}
      /\ Limit \in Nat /\ n \in Nat
  BY EndsCounted, RateAssumption DEF OrderInv, Ends
<1>2. /\ k \in DOMAIN log' /\ log'[k].how = "fixed_window" /\ log'[k].window = w /\ (~log'[k].over <=> n <= Limit)
      /\ log'[k].arrived = local[s].arrived
      /\ \A i \in DOMAIN log : log'[i] = log[i]
      /\ \A t \in Servers \ {s} : pc'[t] = pc[t] /\ local'[t] = local[t]
  BY <1>1 DEF Ends
<1> HIDE DEF k
<1>3. \A v : Passing(v)' = Passing(v) \cup (IF q /\ v = w THEN {k} ELSE {}) /\ k \notin Passing(v)
  BY <1>1, <1>2 DEF Passing, Counted
<1>4. \A v : Pending(v)' = Pending(v) \ {s}
  BY <1>1, <1>2 DEF Pending, Fresh, Busy
<1>5. ASSUME pc[s] # "expire", NEW v PROVE Passes(v)' = Passes(v) + (IF q /\ v = w THEN 1 ELSE 0)
  <2>1. Pending(v)' = Pending(v)
    BY <1>4, <1>5 DEF Pending
  <2> DEFINE P == Passing(v)
  <2>2. IsFiniteSet(P) /\ Cardinality(P) \in Nat /\ Cardinality(Pending(v)) \in Nat /\ k \notin P
    BY <1>3, PassesFinite
  <2> HIDE DEF P
  <2>3. Cardinality(P \cup {k}) = Cardinality(P) + 1
    BY <2>2, FS_AddElement
  <2>4. Passing(v)' = IF q /\ v = w THEN P \cup {k} ELSE P
    BY <1>3 DEF P
  <2>5. Cardinality(Passing(v)') = Cardinality(P) + (IF q /\ v = w THEN 1 ELSE 0)
    BY <2>2, <2>3, <2>4
  <2> QED BY <2>1, <2>2, <2>5 DEF Passes, P
<1>6. ASSUME pc[s] = "expire", n = 1, w = local[s].window, NEW v PROVE Passes(v)' = Passes(v)
  <2> DEFINE P == Passing(v)
             Q == Pending(v)
  <2>1. q <=> s \in Fresh
    BY <1>6, RateAssumption
  <2>2. s \in Q <=> q /\ v = w
    BY <1>6, <2>1 DEF Pending
  <2>3. IsFiniteSet(P) /\ Cardinality(P) \in Nat /\ IsFiniteSet(Q) /\ Cardinality(Q) \in Nat /\ k \notin P
    BY <1>3, PassesFinite
  <2>4. Passing(v)' = (IF q /\ v = w THEN P \cup {k} ELSE P) /\ Pending(v)' = Q \ {s}
    BY <1>3, <1>4
  <2> HIDE DEF P, Q
  <2>5. Cardinality(P \cup {k}) = Cardinality(P) + 1
    BY <2>3, FS_AddElement
  <2>6. Cardinality(Q \ {s}) = IF s \in Q THEN Cardinality(Q) - 1 ELSE Cardinality(Q)
    BY <2>3, FS_RemoveElement
  <2>7. Cardinality(Passing(v)') + Cardinality(Pending(v)') = Cardinality(P) + Cardinality(Q)
    BY <2>2, <2>3, <2>4, <2>5, <2>6
  <2> QED BY <2>7 DEF P, Q, Passes
<1>7. ASSUME NEW v, NEW b, Passed(v, b)' PROVE Passed(v, b) \/ (q /\ v = w /\ b = local[s].arrived)
  <2>1. ASSUME NEW i \in Passing(v)', log'[i].arrived = b PROVE Passed(v, b) \/ (q /\ v = w /\ b = local[s].arrived)
    <3>1. CASE i \in Passing(v)
      BY <1>2, <2>1, <3>1, PassesFinite DEF Passed
    <3>2. CASE i = k /\ q /\ v = w
      BY <1>2, <2>1, <3>2
    <3> QED BY <1>3, <2>1, <3>1, <3>2
  <2>2. ASSUME NEW t \in Pending(v)', local'[t].arrived = b PROVE Passed(v, b)
    <3>1. t \in Pending(v) /\ t # s /\ t \in Servers
      BY <1>4, <2>2, PassesFinite
    <3> QED BY <1>2, <2>2, <3>1 DEF Passed
  <2> QED BY <1>7, <2>1, <2>2 DEF Passed
<1> QED BY <1>5, <1>6, <1>7

\* What a request adds that waits for EXPIRE from now on.
LEMMA PassesGoes ==
  ASSUME OrderInv, NEW s \in Busy, NEW place, NEW rec, Goes(s, place, rec), place # "idle", UNCHANGED switches,
         pc[s] # "expire", NEW q \in BOOLEAN, q <=> s \in Fresh /\ place = "expire"
  PROVE  /\ \A v : Passes(v)' = Passes(v) + (IF q /\ v = rec.window THEN 1 ELSE 0)
         /\ \A v, b : Passed(v, b)' => Passed(v, b) \/ (q /\ v = rec.window /\ b = local[s].arrived)
<1>1. Counted' = Counted /\ Fresh' = Fresh
  BY GoesCounted DEF OrderInv
<1>2. /\ log' = log /\ pc'[s] = place /\ local'[s] = rec /\ rec.arrived = local[s].arrived
      /\ \A t \in Servers \ {s} : pc'[t] = pc[t] /\ local'[t] = local[t]
  BY DEF Goes
<1>3. \A v : Passing(v)' = Passing(v)
  BY <1>1, <1>2 DEF Passing
<1>4. \A v : Pending(v)' = Pending(v) \cup (IF q /\ v = rec.window THEN {s} ELSE {}) /\ s \notin Pending(v)
  BY <1>1, <1>2 DEF Pending, Fresh, Busy
<1>5. ASSUME NEW v PROVE Passes(v)' = Passes(v) + (IF q /\ v = rec.window THEN 1 ELSE 0)
  <2> DEFINE Q == Pending(v)
  <2>1. IsFiniteSet(Q) /\ Cardinality(Q) \in Nat /\ Cardinality(Passing(v)) \in Nat /\ s \notin Q
    BY <1>4, PassesFinite
  <2> HIDE DEF Q
  <2>2. Cardinality(Q \cup {s}) = Cardinality(Q) + 1
    BY <2>1, FS_AddElement
  <2>3. Pending(v)' = IF q /\ v = rec.window THEN Q \cup {s} ELSE Q
    BY <1>4 DEF Q
  <2>4. Cardinality(Pending(v)') = Cardinality(Q) + (IF q /\ v = rec.window THEN 1 ELSE 0)
    BY <2>1, <2>2, <2>3
  <2> QED BY <1>3, <2>1, <2>4 DEF Passes, Q
<1>6. ASSUME NEW v, NEW b, Passed(v, b)' PROVE Passed(v, b) \/ (q /\ v = rec.window /\ b = local[s].arrived)
  <2>1. ASSUME NEW i \in Passing(v)', log'[i].arrived = b PROVE Passed(v, b)
    BY <1>2, <1>3, <2>1 DEF Passed
  <2>2. ASSUME NEW t \in Pending(v)', local'[t].arrived = b
        PROVE  Passed(v, b) \/ (q /\ v = rec.window /\ b = local[s].arrived)
    <3>1. CASE t \in Pending(v)
      BY <1>2, <1>4, <2>2, <3>1, PassesFinite DEF Passed
    <3>2. CASE t = s /\ q /\ v = rec.window
      BY <1>2, <2>2, <3>2
    <3> QED BY <1>4, <2>2, <3>1, <3>2
  <2> QED BY <1>6, <2>1, <2>2 DEF Passed
<1> QED BY <1>5, <1>6

\* Who finds a key of another type has met another strategy.
LEMMA NoneFresh ==
  ASSUME OrderInv, NEW s \in Busy, WrongType(local[s].how)
  PROVE  Counted = {} /\ Fresh = {}
  BY DEF OrderInv, StrategySettled, Pure

\* EXPIRE leaves the window as it is.
LEMMA ExpireSame ==
  ASSUME OrderInv, NEW s \in Servers, Expire(s)
  PROVE  Running' = Running /\ Born' = Born /\ Count' = Count
<1>1. /\ store = "redis" /\ UNCHANGED <<store, counter>>
      /\ entry' = entry \/ (Entry.kind # "none" /\ entry' = [Entry EXCEPT !.expires = clock + Window])
  BY ExpireActs
<1>2. entry'.kind = entry.kind /\ entry'.born = entry.born /\ entry'.count = entry.count
  <2>1. entry \in Keys /\ (Entry.kind # "none" => Entry = entry)
    BY KeyNow DEF OrderInv, LimiterTyped
  <2> DEFINE e == entry
             c == clock + Window
  <2>2. ASSUME entry' = [e EXCEPT !.expires = c] PROVE entry'.kind = e.kind /\ entry'.born = e.born /\ entry'.count = e.count
    <3> HIDE DEF c
    <3> QED BY <2>1, <2>2 DEF Keys
  <2> QED BY <1>1, <2>1, <2>2
<1> QED BY <1>1, <1>2 DEF Running, Born, Count

\* Who arrives is not yet let through.
LEMMA ArrivePending ==
  ASSUME OrderInv, NEW s \in Servers, Arrive(s)
  PROVE  /\ \A v : Pending(v)' = Pending(v)
         /\ \A v : \A t \in Pending(v) : local'[t].arrived = local[t].arrived
<1>1. /\ pc[s] = "idle" /\ pc'[s] # "expire" /\ UNCHANGED switches
      /\ \A t \in Servers \ {s} : pc'[t] = pc[t]
  BY DEF Arrive, OrderInv, LimiterTyped, Begin
<1>2. \A t \in Busy : /\ local'[t].window = local[t].window /\ local'[t].arrived = local[t].arrived
                      /\ local'[t].epoch = local[t].epoch
  <2> SUFFICES ASSUME NEW t \in Busy
               PROVE  /\ local'[t].window = local[t].window /\ local'[t].arrived = local[t].arrived
                      /\ local'[t].epoch = local[t].epoch
    OBVIOUS
  <2> DEFINE l == local[t]
  <2>1. t \in Servers /\ t # s /\ l \in InFlight
    BY <1>1 DEF Busy, OrderInv, LimiterTyped
  <2>2. local'[t] = [l EXCEPT !.alone = FALSE]
    BY <2>1 DEF Arrive
  <2> HIDE DEF l
  <2>3. local'[t].window = l.window /\ local'[t].arrived = l.arrived /\ local'[t].epoch = l.epoch
    BY <2>1, <2>2 DEF InFlight
  <2> QED BY <2>3 DEF l
<1>3. Busy' \subseteq Busy \cup {s} /\ Busy \subseteq Busy' /\ Busy \subseteq Servers /\ s \notin Busy
  BY <1>1 DEF Busy
<1>4. \A v : Pending(v)' = Pending(v)
  BY <1>1, <1>2, <1>3 DEF Pending, Fresh
<1>5. \A v : \A t \in Pending(v) : local'[t].arrived = local[t].arrived
  BY <1>2 DEF Pending, Fresh
<1> QED BY <1>4, <1>5

\* Every step keeps the windows apart, and the limit in each.
LEMMA FixedStep ==
  ASSUME OrderInv, OrderInv', FixedKept, [LimiterNext]_limiterVars
  PROVE  FixedKept'
<1>1. /\ LimiterTyped /\ clock \in Nat /\ clock \in Times /\ Times \subseteq Nat /\ Window \in Nat
      /\ Limit \in Nat /\ Limit >= 1 /\ \A v : Passes(v) \in Nat
  BY RateAssumption, PassesFinite DEF OrderInv, LimiterTyped, Times
<1>2. ASSUME UNCHANGED <<store, entry, counter, switches, log>>, faults' = faults, \A v : Pending(v)' = Pending(v),
             \A v : \A t \in Pending(v) : local'[t].arrived = local[t].arrived
      PROVE  FixedKept'
  <2>1. Counted' = Counted /\ \A v : Passing(v)' = Passing(v)
    BY <1>2 DEF Passing, Counted
  <2>2. \A v : Passes(v)' = Passes(v)
    BY <1>2, <2>1 DEF Passes
  <2>3. \A v, b : Passed(v, b)' => Passed(v, b)
    BY <1>2, <2>1 DEF Passed
  <2>4. Running' = Running /\ Born' = Born /\ Count' = Count
    BY <1>2 DEF Running, Born, Count
  <2> QED BY <1>1, <1>2, <2>2, <2>3, <2>4, FixedSame
<1>3. CASE UNCHANGED limiterVars
  BY <1>2, <1>3 DEF limiterVars, Pending, Fresh, Busy
<1>4. ASSUME NEW s \in Servers, Arrive(s) PROVE FixedKept'
  <2>1. UNCHANGED <<store, entry, counter, switches, log, faults>>
    BY <1>4 DEF Arrive
  <2> QED BY <1>2, <1>4, <2>1, ArrivePending
<1>5. ASSUME NEW how \in Strategies, Switch(how) PROVE FixedKept'
  BY <1>5, SwitchCounts, FixedNone
<1>6. CASE Tick
  <2>1. UNCHANGED <<store, entry, counter, switches, log, pc>> /\ faults' = faults /\ Fresh' = Fresh /\ Fresh \subseteq Servers
    BY <1>6, TickActs DEF Fresh, Busy
  <2>2. \A t \in Fresh : local'[t].window = local[t].window /\ local'[t].arrived = local[t].arrived
    BY <1>6, <2>1, TickActs
  <2>3. \A v : Pending(v)' = Pending(v)
    BY <2>1, <2>2 DEF Pending
  <2>4. \A v : \A t \in Pending(v) : local'[t].arrived = local[t].arrived
    BY <2>2 DEF Pending
  <2> QED BY <1>2, <2>1, <2>3, <2>4
<1>7. ASSUME NEW s \in Servers, Acts(s) PROVE FixedKept'
  <2>1. /\ s \in Busy /\ UNCHANGED <<store, strategy, clock, switches>> /\ (faults' = 0 => faults = 0)
        /\ local[s].arrived \in Times /\ local[s].arrived <= clock /\ Times' = Times
    <3>1. s \in Busy /\ UNCHANGED <<store, strategy, clock, switches>> /\ faults' \in {faults, faults + 1}
      BY <1>7, ServerActs
    <3>2. local[s] \in InFlight /\ local[s].arrived <= local[s].now /\ local[s].now <= clock
      BY <3>1, Located
    <3> QED BY <1>1, <3>1, <3>2 DEF LimiterTyped, InFlight, Times
  <2>2. CASE local[s].how # "fixed_window"
    <3>1. (\A i \in Counted' : log'[i].how # "fixed_window") /\ (\A t \in Fresh' : local'[t].how # "fixed_window")
      BY <1>7, <2>2, NoneOther
    <3> QED BY <3>1, FixedNone
  <2>3. CASE local[s].how = "fixed_window" /\ faults' # 0
    BY <2>3 DEF FixedKept
  <2>4. CASE local[s].how = "fixed_window" /\ faults' = 0 /\ CountLocked(s)
    <3>1. store = "memory" /\ pc[s] # "expire"
      BY <2>4, CountLockedActs
    <3>2. CASE /\ counter.start = None \/ clock - counter.start >= Window
               /\ counter'.start = clock /\ counter'.count = 1 /\ Ends(s, 1, clock)
      <4> DEFINE q == s \in Fresh /\ 1 <= Limit
      <4>1. q \in BOOLEAN /\ (q <=> s \in Fresh /\ 1 <= Limit)
        OBVIOUS
      <4> HIDE DEF q
      <4>2. /\ \A v : Passes(v)' = Passes(v) + (IF q /\ v = clock THEN 1 ELSE 0)
            /\ \A v, b : Passed(v, b)' => Passed(v, b) \/ (q /\ v = clock /\ b = local[s].arrived)
        BY <2>1, <2>4, <3>1, <3>2, <4>1, PassesEnds
      <4>3. Running' /\ Born' = clock /\ Count' = 1
        BY <1>1, <2>1, <3>1, <3>2, RateAssumption DEF Running, Born, Count
      <4>4. Running => Born + Window <= clock
        BY <1>1, <3>1, <3>2, BornTyped DEF Running, Born
      <4> QED BY <2>1, <4>1, <4>2, <4>3, <4>4, FixedNew
    <3>3. CASE /\ counter.start # None /\ clock - counter.start < Window
               /\ counter'.start = counter.start /\ counter'.count = counter.count + 1
               /\ Ends(s, counter.count + 1, counter.start)
      <4> DEFINE q == s \in Fresh /\ counter.count + 1 <= Limit
      <4>1. q \in BOOLEAN /\ (q <=> s \in Fresh /\ counter.count + 1 <= Limit)
        OBVIOUS
      <4> HIDE DEF q
      <4>2. /\ \A v : Passes(v)' = Passes(v) + (IF q /\ v = counter.start THEN 1 ELSE 0)
            /\ \A v, b : Passed(v, b)' => Passed(v, b) \/ (q /\ v = counter.start /\ b = local[s].arrived)
        BY <2>1, <2>4, <3>1, <3>3, <4>1, PassesEnds
      <4>3. Running' /\ Running /\ Born' = Born /\ Born = counter.start /\ Count' = Count + 1 /\ Count = counter.count
        BY <2>1, <3>1, <3>3 DEF Running, Born, Count
      <4> QED BY <2>1, <4>1, <4>2, <4>3, FixedMore
    <3> QED BY <2>4, <3>2, <3>3, CountLockedActs
  <2>5. CASE local[s].how = "fixed_window" /\ faults' = 0 /\ Incr(s)
    <3>1. store = "redis" /\ pc[s] = "incr" /\ UNCHANGED <<counter, faults>>
      BY <2>5, IncrActs
    <3>2. CASE WrongType("fixed_window")
      <4>1. Counted = {} /\ Fresh = {}
        BY <2>1, <2>5, <3>2, NoneFresh
      <4>2. Ends(s, 1, 0)
        BY <2>5, <3>2, IncrActs
      <4>3. Counted' = {} /\ Fresh' = {}
        BY <1>1, <2>1, <4>1, <4>2, EndsCounted
      <4> QED BY <4>3, FixedNone
    <3>3. CASE ~WrongType("fixed_window")
      <4>1. /\ entry' = Incremented /\ Incremented.kind = "string" /\ Incremented.count = Entry.count + 1
            /\ Entry \in Keys /\ Entry.count \in Nat /\ Entry.kind \in {"none", "string"} /\ Keyed(Entry)
        BY <2>1, <2>5, <3>3, IncrActs, Writable, KeyNow, KindOfHow DEF WrongType
      <4>2. Incremented.born = IF Entry.kind = "none" THEN clock ELSE Entry.born
        BY <4>1 DEF Incremented, Keys
      <4>3. Running' /\ Born' = Incremented.born /\ Count' = Entry.count + 1
        BY <2>1, <3>1, <4>1 DEF Running, Born, Count
      <4>4. CASE Incremented.count # 1
        <5>1. Entry.kind = "string" /\ Entry = entry
          <6>1. Entry.count # 0
            BY <4>1, <4>4
          <6> QED BY <4>1, <6>1, KeyNow DEF Absent
        <5>2. Running /\ Born' = Born /\ Count' = Count + 1 /\ Incremented.born = Born /\ Incremented.count = Count'
          BY <3>1, <4>1, <4>2, <4>3, <5>1 DEF Running, Born, Count
        <5>3. Ends(s, Incremented.count, Incremented.born)
          BY <2>5, <3>3, <4>4, IncrActs
        <5> DEFINE q == s \in Fresh /\ Incremented.count <= Limit
        <5>4. q \in BOOLEAN /\ (q <=> s \in Fresh /\ Incremented.count <= Limit)
          OBVIOUS
        <5> HIDE DEF q
        <5>5. /\ \A v : Passes(v)' = Passes(v) + (IF q /\ v = Incremented.born THEN 1 ELSE 0)
              /\ \A v, b : Passed(v, b)' => Passed(v, b) \/ (q /\ v = Incremented.born /\ b = local[s].arrived)
          BY <2>1, <2>5, <3>1, <5>3, <5>4, PassesEnds
        <5> QED BY <2>1, <4>3, <5>2, <5>4, <5>5, FixedMore
      <4>5. CASE Incremented.count = 1
        <5>1. Entry.kind = "none" /\ Entry.count = 0
          BY <4>1, <4>5 DEF Keyed
        <5>2. PICK rec : Goes(s, "expire", rec) /\ rec.window = Incremented.born
          BY <2>5, <3>3, <4>5, IncrActs
        <5>3. Running' /\ Born' = clock /\ Count' = 1 /\ rec.window = clock
          BY <4>2, <4>3, <5>1, <5>2
        <5>4. Running => Born + Window <= clock
          <6>1. ASSUME Running PROVE entry.expires # None /\ entry.expires <= clock /\ entry.kind = "string"
            BY <3>1, <5>1, <6>1 DEF Running, Entry
          <6>2. Running => entry.expires \in Nat /\ entry.born + Window <= entry.expires /\ entry.born \in Nat
            BY <1>1, <6>1, EntryType DEF OrderInv, PastKeys, Keyed, LimiterTyped, Keys
          <6> QED BY <1>1, <3>1, <6>1, <6>2 DEF Born
        <5> DEFINE q == s \in Fresh
        <5>5. q \in BOOLEAN /\ (q <=> s \in Fresh /\ "expire" = "expire")
          OBVIOUS
        <5> HIDE DEF q
        <5>6. /\ \A v : Passes(v)' = Passes(v) + (IF q /\ v = clock THEN 1 ELSE 0)
              /\ \A v, b : Passed(v, b)' => Passed(v, b) \/ (q /\ v = clock /\ b = local[s].arrived)
          BY <2>1, <3>1, <5>2, <5>3, <5>5, PassesGoes
        <5> QED BY <2>1, <5>3, <5>4, <5>5, <5>6, FixedNew
      <4> QED BY <4>4, <4>5
    <3> QED BY <3>2, <3>3
  <2>6. CASE local[s].how = "fixed_window" /\ faults' = 0 /\ Expire(s)
    <3>1. /\ store = "redis" /\ pc[s] = "expire" /\ UNCHANGED counter /\ Ends(s, 1, local[s].window)
          /\ entry' = entry \/ (Entry.kind # "none" /\ entry' = [Entry EXCEPT !.expires = clock + Window])
      BY <2>6, ExpireActs
    <3>2. Running' = Running /\ Born' = Born /\ Count' = Count
      BY <2>6, ExpireSame
    <3> DEFINE q == s \in Fresh /\ 1 <= Limit
    <3>3. q \in BOOLEAN /\ (q <=> s \in Fresh /\ 1 <= Limit)
      OBVIOUS
    <3>4. q => Passed(local[s].window, local[s].arrived)
      <4>1. q => s \in Pending(local[s].window)
        BY <3>1 DEF Pending
      <4> QED BY <4>1 DEF Passed
    <3> HIDE DEF q
    <3>5. /\ \A v : Passes(v)' = Passes(v)
          /\ \A v, b : Passed(v, b)' => Passed(v, b) \/ (q /\ v = local[s].window /\ b = local[s].arrived)
      BY <2>1, <2>6, <3>1, <3>3, PassesEnds
    <3>6. \A v, b : Passed(v, b)' => Passed(v, b)
      BY <3>4, <3>5
    <3> QED BY <1>1, <2>1, <3>2, <3>5, <3>6, FixedSame
  <2>7. local[s].how = "fixed_window" /\ faults' = 0 => CountLocked(s) \/ Incr(s) \/ Expire(s)
    <3>1. Unreachable(s) => faults' # 0
      BY <1>1 DEF Unreachable, LimiterTyped
    <3> QED BY <1>7, <3>1, EvictActs, AddActs, CountHitsActs, RenewActs, ReadBucketActs, DeleteActs, ExecBucketActs
            DEF Acts
  <2> QED BY <2>2, <2>3, <2>4, <2>5, <2>6, <2>7
<1> QED BY <1>3, <1>4, <1>5, <1>6, <1>7, NextCases

\* Three windows do not fit in a time shorter than one of them.
LEMMA FixedHolds == OrderInv /\ FixedKept => FixedWindowHolds
<1> SUFFICES ASSUME OrderInv, FixedKept, faults = 0, NEW span \in Spans, Short(span)
             PROVE  Cardinality(Within("fixed_window", span[1], span[2])) <= 2 * Limit
  BY DEF FixedWindowHolds
<1> DEFINE W == Within("fixed_window", span[1], span[2])
<1>1. /\ span[1] \in Nat /\ span[2] \in Nat /\ span[2] - span[1] < Window /\ Window \in Nat /\ Limit \in Nat
      /\ Cardinality({}) = 0
  BY RateAssumption, FS_EmptySet DEF Spans, Times, Short
<1>2. IsFiniteSet(W) /\ Cardinality(W) \in Nat /\ \A w \in Times : Passes(w) <= Limit
  BY WithinFinite DEF FixedKept
<1>3. \A i \in W : /\ i \in Passing(log[i].window) /\ i \in DOMAIN log /\ log[i].window \in Times /\ log[i].arrived \in Times
                   /\ log[i].window \in Nat /\ log[i].arrived \in Nat /\ log[i].decided \in Nat
                   /\ span[1] <= log[i].arrived /\ log[i].window <= log[i].decided /\ log[i].decided <= span[2]
                   /\ Passed(log[i].window, log[i].arrived)
  <2> SUFFICES ASSUME NEW i \in W
               PROVE  /\ i \in Passing(log[i].window) /\ i \in DOMAIN log /\ log[i].window \in Times
                      /\ log[i].arrived \in Times
                      /\ log[i].window \in Nat /\ log[i].arrived \in Nat /\ log[i].decided \in Nat
                      /\ span[1] <= log[i].arrived /\ log[i].window <= log[i].decided /\ log[i].decided <= span[2]
                      /\ Passed(log[i].window, log[i].arrived)
    OBVIOUS
  <2>1. i \in Passing(log[i].window) /\ i \in DOMAIN log /\ span[1] <= log[i].arrived /\ log[i].decided <= span[2]
    BY DEF Within, Passing, Counted
  <2>2. log[i] \in Logged /\ log[i].window <= log[i].decided
    BY <2>1 DEF OrderInv, PastRequests, LimiterTyped
  <2>3. Passed(log[i].window, log[i].arrived)
    BY <2>1 DEF Passed
  <2> QED BY <2>1, <2>2, <2>3, RateAssumption DEF Logged, Times
<1>4. ASSUME NEW v \in Nat, NEW w \in Nat, NEW a \in Nat, span[1] <= a, w <= span[2] PROVE ~Before(v, a, w) \/ span[2] - v >= Window
  BY <1>1, <1>4 DEF Before
<1>5. \A i, j, k \in W : log[k].window \in {log[i].window, log[j].window} \/ log[i].window = log[j].window
  <2> SUFFICES ASSUME NEW i \in W, NEW j \in W, NEW k \in W, log[i].window # log[j].window,
                      log[k].window # log[i].window, log[k].window # log[j].window
               PROVE  FALSE
    OBVIOUS
  <2> DEFINE x == log[i].window
             y == log[j].window
             z == log[k].window
             a == log[i].arrived
             b == log[j].arrived
             c == log[k].arrived
  <2>1. /\ x \in Nat /\ y \in Nat /\ z \in Nat /\ a \in Nat /\ b \in Nat /\ c \in Nat
        /\ span[1] <= a /\ span[1] <= b /\ span[1] <= c /\ x <= span[2] /\ y <= span[2] /\ z <= span[2]
    <3>1. log[i].decided \in Nat /\ log[j].decided \in Nat /\ log[k].decided \in Nat
      BY <1>3
    <3> QED BY <1>1, <1>3, <3>1
  <2>2. /\ Before(x, a, y) \/ Before(y, b, x)
        /\ Before(x, a, z) \/ Before(z, c, x)
        /\ Before(y, b, z) \/ Before(z, c, y)
    BY <1>3 DEF FixedKept
  <2> HIDE DEF x, y, z, a, b, c
  <2> QED BY <1>1, <2>1, <2>2 DEF Before
<1>6. ASSUME NEW w \in Times PROVE IsFiniteSet(Passing(w)) /\ Cardinality(Passing(w)) \in Nat /\ Cardinality(Passing(w)) <= Limit
  BY <1>1, <1>2, PassesFinite DEF Passes
<1> HIDE DEF W
<1>7. ASSUME W = {} PROVE Cardinality(W) <= 2 * Limit
  BY <1>1, <1>7
<1>8. ASSUME NEW i \in W PROVE Cardinality(W) <= 2 * Limit
  <2> DEFINE A == Passing(log[i].window)
  <2>1. IsFiniteSet(A) /\ Cardinality(A) \in Nat /\ Cardinality(A) <= Limit
    BY <1>3, <1>6
  <2> HIDE DEF A
  <2>2. CASE W \subseteq A
    BY <1>1, <1>2, <2>1, <2>2, FS_Subset
  <2>3. ASSUME NEW j \in W, j \notin A PROVE Cardinality(W) <= 2 * Limit
    <3> DEFINE B == Passing(log[j].window)
    <3>1. IsFiniteSet(B) /\ Cardinality(B) \in Nat /\ Cardinality(B) <= Limit
      BY <1>3, <1>6
    <3>2. log[i].window # log[j].window
      BY <1>3, <2>3 DEF A
    <3>3. W \subseteq A \cup B
      BY <1>3, <1>5, <3>2 DEF A
    <3> HIDE DEF B
    <3>4. /\ IsFiniteSet(A \cup B) /\ Cardinality(A \cup B) = Cardinality(A) + Cardinality(B) - Cardinality(A \cap B)
          /\ IsFiniteSet(A \cap B) /\ Cardinality(A \cap B) \in Nat
      <4>1. IsFiniteSet(A \cap B)
        BY <2>1, FS_Subset
      <4> QED BY <2>1, <3>1, <4>1, FS_Union, FS_CardinalityType
    <3>5. Cardinality(W) <= Cardinality(A \cup B)
      BY <3>3, <3>4, FS_Subset
    <3> QED BY <1>1, <1>2, <2>1, <3>1, <3>4, <3>5
  <2> QED BY <2>2, <2>3
<1> QED BY <1>7, <1>8 DEF W

----------------------------------------------------------------------------
(* Token buckets.                                                           *)

\* What flows into a bucket, and what a request takes out of it.
LEMMA Flows ==
  ASSUME NEW T \in 0..Full, NEW t \in Nat, NEW c \in Nat, t <= c
  PROVE  /\ Refilled(T, t, c) <= T + (c - t) * Limit
         /\ Refilled(T, t, c) = Full \/ Refilled(T, t, c) >= T + (c - t) * Limit
         /\ Refilled(T, t, c) \in 0..Full
         /\ (c - t) * Limit \in Nat
         /\ c - t >= Window => Full <= (c - t) * Limit
<1>1. c - t \in Nat /\ (c - t) * Limit \in Nat
  BY Numbers
<1>2. Refilled(T, t, c) <= T + (c - t) * Limit /\ Refilled(T, t, c) \in 0..Full
  BY <1>1, Numbers, RefilledType DEF Refilled
<1>3. Refilled(T, t, c) = Full \/ Refilled(T, t, c) >= T + (c - t) * Limit
  BY <1>1, Numbers DEF Refilled
<1>4. ASSUME c - t >= Window PROVE Full <= (c - t) * Limit
  <2> DEFINE x == c - t - Window
  <2>1. x \in Nat /\ c - t = x + Window
    BY <1>4, Numbers
  <2> HIDE DEF x
  <2>2. (x + Window) * Limit = x * Limit + Window * Limit /\ x * Limit \in Nat
    BY <2>1, Numbers
  <2> QED BY <2>1, <2>2, Numbers
<1> QED BY <1>1, <1>2, <1>3, <1>4

\* A token pays for one request.
LEMMA Pays ==
  ASSUME NEW S \in Nat, NEW T \in 0..Full, NEW U \in Nat, NEW a \in Nat, NEW t \in Nat, NEW c \in Nat, a <= t, t <= c,
         S * Window + T <= Full + (t - a) * Limit, NEW p \in {0, 1}, p = 1 => T >= Window,
         U <= Taken(T) + (c - t) * Limit
  PROVE  (S + p) * Window + U <= Full + (c - a) * Limit
<1> DEFINE x == t - a
           y == c - t
           k == Taken(T)
<1>1. x \in Nat /\ y \in Nat /\ c - a = x + y
  OBVIOUS
<1>2. k \in Nat /\ k <= T /\ (p = 1 => k = T - Window)
  BY Numbers DEF Taken
<1>3. S * Window \in Nat /\ (S + p) * Window = S * Window + p * Window /\ p * Window = (IF p = 1 THEN Window ELSE 0)
  BY Numbers
<1>4. S * Window + T <= Full + x * Limit /\ U <= k + y * Limit
  OBVIOUS
<1> HIDE DEF x, y, k
<1>5. (x + y) * Limit = x * Limit + y * Limit /\ x * Limit \in Nat /\ y * Limit \in Nat
  BY <1>1, Numbers
<1> DEFINE u == S * Window
           v == x * Limit
           w == y * Limit
<1>6. u \in Nat /\ v \in Nat /\ w \in Nat /\ u + T <= Full + v /\ U <= k + w
  BY <1>3, <1>4, <1>5
<1> HIDE DEF u, v, w
<1>7. u + (IF p = 1 THEN Window ELSE 0) + U <= Full + v + w
  BY <1>2, <1>6, Numbers
<1>8. (S + p) * Window = u + (IF p = 1 THEN Window ELSE 0)
  BY <1>3 DEF u
<1>9. (c - a) * Limit = v + w
  <2>1. (c - a) * Limit = (x + y) * Limit
    BY <1>1
  <2> QED BY <1>5, <2>1 DEF v, w
<1> DEFINE m == (c - a) * Limit
           n == (S + p) * Window
<1>10. m = v + w /\ n = u + (IF p = 1 THEN Window ELSE 0)
  BY <1>8, <1>9
<1> HIDE DEF m, n
<1>11. n + U <= Full + m
  BY <1>6, <1>7, <1>10, Numbers
<1> QED BY <1>11 DEF m, n

\* The tokens are counted up to a full bucket.
LEMMA BucketTyped ==
  ASSUME OrderInv, NEW c \in Nat
  PROVE  TokensAt(c) \in 0..Full
<1>1. entry.tokens \in 0..Full /\ entry.refill \in Nat /\ counter.tokens \in 0..Full /\ counter.refill \in {None} \cup Nat
  BY RateAssumption DEF OrderInv, LimiterTyped, Keys, Counters, Times
<1>2. \A tokens \in 0..Full, refill \in Nat : Refilled(tokens, refill, c) \in 0..Full
  BY RefilledType
<1>3. Full \in 0..Full
  BY Numbers
<1> QED BY <1>1, <1>2, <1>3 DEF TokensAt

LEMMA BucketTypedNext ==
  ASSUME OrderInv', NEW c \in Nat
  PROVE  TokensAt(c)' \in 0..Full
<1>1. entry'.tokens \in 0..Full /\ entry'.refill \in Nat /\ counter'.tokens \in 0..Full
      /\ counter'.refill \in {None} \cup Nat
  BY RateAssumption DEF OrderInv, LimiterTyped, Keys, Counters, Times
<1>2. \A tokens \in 0..Full, refill \in Nat : Refilled(tokens, refill, c) \in 0..Full
  BY RefilledType
<1>3. Full \in 0..Full
  BY Numbers
<1> QED BY <1>1, <1>2, <1>3 DEF TokensAt

\* Requests that took a token can be counted.
LEMMA SpendersFinite ==
  ASSUME OrderInv, NEW a
  PROVE  IsFiniteSet(Spenders(a)) /\ Cardinality(Spenders(a)) \in Nat /\ Spenders(a) \subseteq DOMAIN log
<1>1. DOMAIN log = 1..Len(log) /\ Len(log) \in Nat
  BY DEF OrderInv, LimiterTyped
<1>2. IsFiniteSet(DOMAIN log) /\ Spenders(a) \subseteq DOMAIN log
  BY <1>1, FS_Interval DEF Spenders, Counted
<1> QED BY <1>2, FS_Subset, FS_CardinalityType

\* Who is let through has spent a token.
LEMMA SpendersEnds ==
  ASSUME OrderInv, NEW s \in Busy, NEW n, NEW w, Ends(s, n, w), UNCHANGED switches,
         local[s].how = "token_bucket", NEW a
  PROVE  /\ IsFiniteSet(Spenders(a)')
         /\ Cardinality(Spenders(a)') =
              Cardinality(Spenders(a)) + (IF s \in Fresh /\ n <= Limit /\ a <= local[s].arrived THEN 1 ELSE 0)
<1> DEFINE k == Len(log) + 1
           q == s \in Fresh /\ n <= Limit /\ a <= local[s].arrived
           P == Spenders(a)
<1>1. /\ Counted' = Counted \cup (IF s \in Fresh THEN {k} ELSE {}) /\ k \notin DOMAIN log
      /\ Limit \in Nat /\ n \in Nat
  BY EndsCounted, RateAssumption DEF OrderInv, Ends
<1>2. /\ log'[k].how = "token_bucket" /\ (~log'[k].over <=> n <= Limit) /\ log'[k].arrived = local[s].arrived
      /\ \A i \in DOMAIN log : log'[i] = log[i]
  BY <1>1 DEF Ends
<1> HIDE DEF k
<1>3. Spenders(a)' = (IF q THEN P \cup {k} ELSE P) /\ k \notin P
  BY <1>1, <1>2 DEF Spenders, Counted
<1>4. IsFiniteSet(P) /\ Cardinality(P) \in Nat
  BY SpendersFinite
<1> HIDE DEF P, q
<1>5. IsFiniteSet(P \cup {k}) /\ Cardinality(P \cup {k}) = Cardinality(P) + 1
  BY <1>3, <1>4, FS_AddElement
<1>6. IsFiniteSet(Spenders(a)') /\ Cardinality(Spenders(a)') = Cardinality(P) + (IF q THEN 1 ELSE 0)
  BY <1>3, <1>4, <1>5
<1> QED BY <1>6 DEF P, q

\* A token that was there at a time pays for the request that takes it.
LEMMA BucketPays ==
  ASSUME OrderInv, BucketKept, faults = 0, AllAlone,
         NEW s \in Busy, NEW n, NEW w, Ends(s, n, w), UNCHANGED <<switches, clock>>, local[s].how = "token_bucket",
         NEW t \in Times, local[s].arrived <= t, t <= clock, Latest(t), NEW T \in 0..Full, n <= Limit => T >= Window,
         NEW c \in Times, clock <= c, NEW U \in 0..Full, U <= Taken(T) + (c - t) * Limit,
         NEW a \in Times, a <= c, T <= TokensAt(t) \/ Spenders(a) = {}
  PROVE  Cardinality(Spenders(a)') * Window + U <= Full + (c - a) * Limit
<1> DEFINE S == Cardinality(Spenders(a))
           p == IF s \in Fresh /\ n <= Limit /\ a <= local[s].arrived THEN 1 ELSE 0
<1>1. /\ Cardinality(Spenders(a)') = S + p /\ S \in Nat /\ p \in {0, 1} /\ (p = 1 => T >= Window /\ a <= t)
      /\ (Spenders(a) = {} => S = 0) /\ IsFiniteSet(Spenders(a))
  <2>1. p = 1 => T >= Window /\ a <= local[s].arrived
    OBVIOUS
  <2>2. local[s].arrived \in Nat /\ a \in Nat /\ t \in Nat
    BY Located, RateAssumption DEF InFlight, Times
  <2>3. p = 1 => T >= Window /\ a <= t
    BY <2>1, <2>2
  <2> HIDE DEF p
  <2> QED BY <2>3, SpendersEnds, SpendersFinite, FS_EmptySet DEF p
<1>2. a \in Nat /\ c \in Nat /\ t \in Nat /\ clock \in Nat /\ t <= c
  BY RateAssumption DEF Times, OrderInv, LimiterTyped
<1>3. a > t => Spenders(a) = {}
  <2>1. \A i \in DOMAIN log : log[i].arrived \in Nat /\ log[i].decided \in Nat /\ log[i].arrived <= log[i].decided
    <3>1. \A i \in DOMAIN log : log[i] \in Logged
      BY DEF OrderInv, LimiterTyped
    <3> QED BY <3>1, RateAssumption DEF Logged, Times, OrderInv, PastRequests
  <2> QED BY <1>2, <2>1 DEF Spenders, Counted, Latest
<1>4. a <= t => S * Window + T <= Full + (t - a) * Limit
  <2> SUFFICES ASSUME a <= t PROVE S * Window + T <= Full + (t - a) * Limit
    OBVIOUS
  <2> DEFINE m == S * Window
             v == (t - a) * Limit
  <2>1. v \in Nat /\ m \in Nat /\ (Spenders(a) = {} => m = 0)
    BY <1>1, <1>2, Numbers
  <2>2. T <= TokensAt(t) => m + TokensAt(t) <= Full + v /\ TokensAt(t) \in Nat
    BY <1>2, BucketTyped DEF BucketKept
  <2> HIDE DEF m, v
  <2>3. m + T <= Full + v
    BY <2>1, <2>2, Numbers
  <2> QED BY <2>3 DEF m, v
<1> HIDE DEF S, p
<1>5. CASE a <= t
  <2>1. U \in Nat /\ S * Window + T <= Full + (t - a) * Limit /\ (p = 1 => T >= Window)
    BY <1>1, <1>4, <1>5, Numbers
  <2>2. (S + p) * Window + U <= Full + (c - a) * Limit
    BY <1>1, <1>2, <1>5, <2>1, Pays
  <2> QED BY <1>1, <2>2
<1>6. CASE a > t
  <2>1. S = 0 /\ p = 0
    BY <1>1, <1>2, <1>3, <1>6 DEF p
  <2> DEFINE v == (c - a) * Limit
             m == Cardinality(Spenders(a)') * Window
  <2>2. v \in Nat /\ m = 0
    BY <1>1, <1>2, <2>1, Numbers
  <2> HIDE DEF m, v
  <2>3. m + U <= Full + v
    BY <2>2, Numbers
  <2> QED BY <2>3 DEF m, v
<1> QED BY <1>2, <1>5, <1>6

\* Where nobody took a token nothing is owed.
LEMMA BucketNone ==
  ASSUME OrderInv', \A i \in Counted' : log'[i].how # "token_bucket"
  PROVE  BucketKept' /\ TokenBucketHolds'
<1>1. ASSUME NEW a \in Times, NEW c \in Times, a <= c
      PROVE  Cardinality(Spenders(a)') * Window + TokensAt(c)' <= Full + (c - a) * Limit
  <2>1. Spenders(a)' = {}
    BY DEF Spenders
  <2>2. Cardinality(Spenders(a)') = 0 /\ c - a \in Nat /\ c \in Nat
    BY <1>1, <2>1, FS_EmptySet, RateAssumption DEF Times
  <2>3. TokensAt(c)' \in 0..Full
    BY <2>2, BucketTypedNext
  <2> DEFINE v == (c - a) * Limit
             m == Cardinality(Spenders(a)') * Window
             u == TokensAt(c)'
  <2>4. v \in Nat /\ m = 0 /\ u \in 0..Full
    BY <2>2, <2>3, Numbers
  <2> HIDE DEF m, v, u
  <2>5. m + u <= Full + v
    BY <2>4, Numbers
  <2> QED BY <2>5 DEF m, v, u
<1>2. ~(strategy' = "token_bucket" /\ Counted' # {})
  BY DEF OrderInv, StrategySettled
<1>3. BucketKept'
  BY <1>1, <1>2 DEF BucketKept, Times
<1>4. \A a, b : Within("token_bucket", a, b)' = {}
  BY DEF Within, Counted
<1> QED BY <1>3, <1>4, EmptyHolds

\* What was let through until now is paid for.
LEMMA BucketPasses ==
  ASSUME OrderInv, OrderInv', TokenBucketHolds, BucketKept', NEW s, NEW n, NEW w, Ends(s, n, w),
         UNCHANGED <<clock, switches, store>>, faults' = 0 => faults = 0
  PROVE  TokenBucketHolds'
<1>1. /\ LimiterTyped /\ clock \in Nat /\ clock \in Times /\ \A i \in DOMAIN log : i \in DOMAIN log' /\ log'[i] = log[i]
  BY RateAssumption DEF OrderInv, LimiterTyped, Times, Ends
<1>2. SUFFICES ASSUME faults' = 0, AllAlone', NEW span \in Spans'
               PROVE  Cardinality(Within("token_bucket", span[1], span[2])') * Window <= Full + (span[2] - span[1]) * Limit
  BY DEF TokenBucketHolds, AllAlone
<1>3. /\ span \in Spans /\ span[2] <= clock /\ span[1] \in Nat /\ span[2] \in Nat /\ span[1] \in Times
      /\ span[1] <= span[2] /\ span[2] \in Times
  BY <1>2, RateAssumption DEF Spans, Times
<1>4. CASE Within("token_bucket", span[1], span[2])' = Within("token_bucket", span[1], span[2])
  <2>1. AllAlone /\ faults = 0
    BY <1>1, <1>2 DEF AllAlone
  <2> QED BY <1>3, <1>4, <2>1 DEF TokenBucketHolds, AllAlone
<1>5. CASE clock <= span[2]
  <2>1. span[2] = clock
    BY <1>1, <1>3, <1>5
  <2>2. Latest(clock)'
    BY DEF Latest, OrderInv, PastRequests
  <2> DEFINE W == Within("token_bucket", span[1], span[2])'
             S == Spenders(span[1])'
             u == TokensAt(clock)'
             v == (clock - span[1]) * Limit
  <2>3. W \subseteq S
    BY DEF Within, Spenders, Counted
  <2>4. IsFiniteSet(S) /\ Cardinality(S) \in Nat
    <3>1. DOMAIN log' = 1..Len(log') /\ Len(log') \in Nat
      BY DEF OrderInv, LimiterTyped
    <3>2. IsFiniteSet(DOMAIN log') /\ S \subseteq DOMAIN log'
      BY <3>1, FS_Interval DEF Spenders, Counted
    <3> HIDE DEF S
    <3> QED BY <3>2, FS_Subset, FS_CardinalityType
  <2>5. Cardinality(S) * Window + u <= Full + v
    BY <1>1, <1>2, <1>3, <2>1, <2>2 DEF BucketKept, Times
  <2>6. v \in Nat /\ u \in Nat
    <3>1. clock - span[1] \in Nat
      BY <1>1, <1>3
    <3> QED BY <1>1, <3>1, BucketTypedNext, Numbers
  <2> HIDE DEF W, S, u, v
  <2>7. Cardinality(W) \in Nat /\ Cardinality(W) <= Cardinality(S)
    BY <2>3, <2>4, FS_Subset, FS_CardinalityType
  <2>8. Cardinality(W) * Window <= Cardinality(S) * Window /\ Cardinality(W) * Window \in Nat /\ Cardinality(S) * Window \in Nat
    <3> DEFINE i == Cardinality(W)
               j == Cardinality(S)
    <3>1. i \in Nat /\ j \in Nat /\ i <= j
      BY <2>4, <2>7
    <3> HIDE DEF i, j
    <3>2. PICK d \in Nat : j = i + d
      <4>1. j - i \in Nat /\ j = i + (j - i)
        BY <3>1
      <4> QED BY <4>1
    <3>3. j * Window = i * Window + d * Window /\ i * Window \in Nat /\ d * Window \in Nat
      BY <3>1, <3>2, Numbers
    <3>4. i * Window <= j * Window /\ j * Window \in Nat
      BY <3>3
    <3> QED BY <3>3, <3>4 DEF i, j
  <2>9. Cardinality(W) * Window <= Full + v
    <3> DEFINE x == Cardinality(W) * Window
               y == Cardinality(S) * Window
    <3>1. x \in Nat /\ y \in Nat /\ x <= y /\ y + u <= Full + v
      BY <2>5, <2>8
    <3> HIDE DEF x, y
    <3>2. x <= Full + v
      BY <2>6, <3>1, Numbers
    <3> QED BY <3>2 DEF x
  <2> QED BY <2>1, <2>9 DEF W, v
<1> QED BY <1>3, <1>4, <1>5, WithinEnds

\* The memory store counts with the clock of now.
LEMMA BucketMemory ==
  ASSUME OrderInv, OrderInv', BucketKept, NEW s \in Servers, CountLocked(s), local[s].how = "token_bucket", faults' = 0
  PROVE  BucketKept' /\ \E n, w : Ends(s, n, w)
<1> DEFINE T == TokensAt(clock)
<1>1. /\ s \in Busy /\ store = "memory" /\ UNCHANGED <<store, strategy, clock, faults, switches>>
      /\ T \in 0..Full /\ counter'.tokens = Taken(T) /\ counter'.refill = clock /\ Ends(s, TokenCount(T), 0)
      /\ Taken(T) \in 0..Full
  <2>1. /\ s \in Busy /\ store = "memory" /\ UNCHANGED <<store, strategy, clock, faults, switches>>
        /\ T \in 0..Full /\ counter'.tokens = Taken(T) /\ counter'.refill = clock /\ Ends(s, TokenCount(T), 0)
    BY CountLockedActs
  <2> HIDE DEF T
  <2>2. Taken(T) \in 0..Full
    BY <2>1, Numbers DEF Taken
  <2> QED BY <2>1, <2>2
<1>2. faults = 0 /\ AllAlone /\ clock \in Times /\ clock \in Nat /\ Latest(clock) /\ Times' = Times /\ clock <= clock
  BY <1>1, RateAssumption DEF AllAlone, OrderInv, LimiterTyped, Times, PastRequests, Latest
<1>3. local[s].arrived <= clock
  BY <1>1, <1>2, Located, RateAssumption DEF InFlight, Times
<1>4. TokenCount(T) <= Limit => T >= Window
  BY <1>1, Numbers DEF TokenCount
<1>5. ASSUME NEW a \in Times, NEW c \in Times, a <= c, Latest(c)'
      PROVE  Cardinality(Spenders(a)') * Window + TokensAt(c)' <= Full + (c - a) * Limit
  <2>1. clock <= c /\ c \in Nat
    BY <1>1, <1>5, RateAssumption DEF Latest, Ends, Times
  <2>2. TokensAt(c)' = Refilled(Taken(T), clock, c)
    BY <1>1, <1>2, RateAssumption DEF TokensAt
  <2> DEFINE U == TokensAt(c)'
  <2>3. U \in 0..Full /\ U <= Taken(T) + (c - clock) * Limit
    BY <1>1, <1>2, <2>1, <2>2, Flows
  <2> HIDE DEF U
  <2>4. T <= TokensAt(clock) /\ T \in 0..Full
    BY <1>1
  <2> HIDE DEF T
  <2>5. Cardinality(Spenders(a)') * Window + U <= Full + (c - a) * Limit
    BY <1>1, <1>2, <1>3, <1>4, <1>5, <2>1, <2>3, <2>4, BucketPays
  <2> QED BY <2>5 DEF U
<1>6. BucketKept'
  BY <1>1, <1>2, <1>5 DEF BucketKept
<1> QED BY <1>1, <1>6

\* A key that expired between the reading of the clock and of the key: what it
\* held would have flowed in again by then.
LEMMA BucketLate ==
  ASSUME NEW S \in Nat, NEW a \in Nat, NEW d \in Nat, NEW c \in Nat, a <= d, d + 2 * Window <= c,
         S * Window <= Full + (d - a) * Limit, NEW U \in 0..Full
  PROVE  (S + 1) * Window + U <= Full + (c - a) * Limit
<1> DEFINE x == d - a
           y == c - d - 2 * Window
           v == x * Limit
           w == y * Limit
           u == S * Window
<1>1. x \in Nat /\ y \in Nat /\ c - a = x + y + Window + Window
  BY Numbers
<1>2. u <= Full + v
  OBVIOUS
<1>3. (S + 1) * Window = u + Window /\ u \in Nat
  BY Numbers
<1> HIDE DEF x, y
<1>4. v \in Nat /\ w \in Nat /\ (x + y + Window + Window) * Limit = v + w + Full + Full
  <2>1. Window * Limit = Full /\ x + y \in Int /\ x + y + Window \in Int /\ Window \in Int
    BY <1>1, Numbers
  <2>2. /\ (x + y) * Limit = v + w /\ v \in Nat /\ w \in Nat
        /\ (x + y + Window) * Limit = (x + y) * Limit + Window * Limit
        /\ (x + y + Window + Window) * Limit = (x + y + Window) * Limit + Window * Limit
    BY <1>1, <2>1, Numbers
  <2> QED BY <2>1, <2>2
<1> DEFINE m == (c - a) * Limit
           n == (S + 1) * Window
<1>5. m = v + w + Full + Full /\ n = u + Window
  BY <1>1, <1>3, <1>4
<1> HIDE DEF u, v, w, m, n
<1>6. n + U <= Full + m
  BY <1>2, <1>3, <1>4, <1>5, Numbers
<1> QED BY <1>6 DEF m, n

\* Redis counts with the time of a server that met no other.
LEMMA BucketRedis ==
  ASSUME OrderInv, OrderInv', BucketKept, NEW s \in Servers, ExecBucket(s), s \notin broken, faults' = 0, AllAlone'
  PROVE  BucketKept'
<1> DEFINE F == Flowed(s)
           t == local[s].now
<1>1. /\ s \in Busy /\ store = "redis" /\ local[s].how = "token_bucket" /\ pc[s] = "exec"
      /\ UNCHANGED <<store, strategy, clock, faults, switches>>
      /\ entry' = Spent(s) /\ Ends(s, TokenCount(F), 0)
  BY ExecBucketActs
<1>2. /\ F \in 0..Full /\ entry'.tokens = Taken(F) /\ entry'.refill = t /\ entry'.expires = clock + 2 * Window
      /\ entry'.kind = "hash"
  BY <1>1, SpentFields
<1>3. /\ LimiterTyped /\ clock \in Times /\ clock \in Nat /\ t \in Times /\ t \in Nat /\ t <= clock /\ Times' = Times
      /\ local[s].arrived <= t /\ local[s].arrived \in Nat /\ local[s].tokens \in 0..Full /\ local[s].refill \in Nat
      /\ Window \in Nat /\ Times \subseteq Nat
  <2>1. /\ local[s] \in InFlight /\ local[s].arrived <= t /\ t <= clock
        /\ LimiterTyped /\ clock \in Times /\ Times' = Times
    BY <1>1, Located DEF OrderInv, LimiterTyped, Times
  <2>2. Window \in Nat /\ Times \subseteq Nat
    BY RateAssumption DEF Times
  <2>3. t \in Times /\ local[s].arrived \in Times /\ local[s].tokens \in 0..Full /\ local[s].refill \in Times
    BY <2>1 DEF InFlight
  <2> QED BY <2>1, <2>2, <2>3
<1>4. faults = 0 /\ AllAlone /\ local[s].alone
  BY <1>1 DEF AllAlone, Ends
<1>5. AloneAt(s) /\ \A i \in DOMAIN log : log[i].decided <= local[s].arrived
  BY <1>1, <1>4 DEF OrderInv, AloneHolds
<1>6. \A i \in DOMAIN log : log[i].decided \in Nat /\ log[i].arrived \in Nat /\ log[i].arrived <= log[i].decided
                            /\ log[i].decided <= clock
  <2>1. \A i \in DOMAIN log : log[i] \in Logged
    BY <1>3 DEF LimiterTyped
  <2> QED BY <1>3, <2>1 DEF Logged, OrderInv, PastRequests
<1>7. Latest(t)
  BY <1>3, <1>5, <1>6 DEF Latest
<1>8. Taken(F) \in 0..Full /\ (TokenCount(F) <= Limit => F >= Window)
  <2> HIDE DEF F
  <2> QED BY <1>2, Numbers DEF Taken, TokenCount
<1>9. entry.expires # None => entry.expires \in Nat
  BY <1>3, EntryType
<1>10. ASSUME NEW a \in Times, NEW c \in Times, a <= c, Latest(c)'
       PROVE  Cardinality(Spenders(a)') * Window + TokensAt(c)' <= Full + (c - a) * Limit
  <2> DEFINE U == TokensAt(c)'
  <2>1. clock <= c /\ c \in Nat /\ t <= c
    <3>1. clock <= c
      BY <1>1, <1>10 DEF Latest, Ends
    <3> QED BY <1>3, <3>1
  <2>2. U = IF clock + 2 * Window <= c THEN Full ELSE Refilled(Taken(F), t, c)
    BY <1>1, <1>2 DEF TokensAt
  <2>3. U \in 0..Full /\ U <= Taken(F) + (c - t) * Limit
    <3> DEFINE k == Taken(F)
               r == Refilled(k, t, c)
               v == (c - t) * Limit
    <3>1. k \in 0..Full /\ r \in 0..Full /\ r <= k + v /\ v \in Nat /\ (c - t >= Window => Full <= v)
      BY <1>3, <1>8, <2>1, Flows
    <3>2. clock + 2 * Window <= c => c - t >= Window
      BY <1>3, <2>1
    <3>3. U = IF clock + 2 * Window <= c THEN Full ELSE r
      BY <2>2
    <3> HIDE DEF k, r, v, U
    <3>4. U \in 0..Full /\ U <= k + v
      BY <3>1, <3>2, <3>3, Numbers
    <3> QED BY <3>4 DEF k, v
  <2> HIDE DEF U
  <2>4. F <= TokensAt(t) \/ (F = Full /\ entry.kind = "hash" /\ t < entry.expires /\ entry.expires <= clock)
    <3>1. CASE entry.kind = "hash" /\ entry.expires > t /\ local[s].tokens = entry.tokens /\ local[s].refill = entry.refill
      <4>1. entry.expires # None
        BY <3>1 DEF OrderInv, PastKeys, Keyed
      <4>2. ~(entry.expires <= t)
        BY <1>3, <1>9, <3>1, <4>1
      <4>3. F = TokensAt(t)
        BY <1>1, <3>1, <4>2 DEF TokensAt, Flowed
      <4> QED BY <1>2, <4>3
    <3>2. CASE local[s].tokens = Full /\ local[s].refill = t /\ (entry.kind # "hash" \/ entry.expires <= clock)
      <4>1. F = Full
        BY <1>3, <3>2 DEF Flowed, Refilled
      <4>2. CASE entry.kind # "hash" \/ entry.expires <= t
        BY <1>1, <4>1, <4>2, Numbers DEF TokensAt
      <4>3. CASE entry.kind = "hash" /\ ~(entry.expires <= t)
        <5>1. entry.expires # None
          BY <4>3 DEF OrderInv, PastKeys, Keyed
        <5> QED BY <1>3, <1>9, <3>2, <4>1, <4>3, <5>1
      <4> QED BY <4>2, <4>3
    <3> QED BY <1>1, <1>5, <3>1, <3>2 DEF AloneAt
  <2>5. CASE F <= TokensAt(t) \/ Spenders(a) = {}
    <3> HIDE DEF F, t
    <3>1. Cardinality(Spenders(a)') * Window + U <= Full + (c - a) * Limit
      BY <1>1, <1>2, <1>3, <1>4, <1>7, <1>8, <1>10, <2>1, <2>3, <2>5, BucketPays
    <3> QED BY <3>1 DEF U
  <2>6. CASE Spenders(a) # {} /\ entry.kind = "hash" /\ t < entry.expires /\ entry.expires <= clock
    <3> DEFINE d == entry.expires - 2 * Window
               S == Cardinality(Spenders(a))
    <3>1. Counted # {} /\ strategy = "token_bucket" /\ entry.expires # None
      <4>1. Counted # {}
        BY <2>6 DEF Spenders
      <4> QED BY <1>1, <1>3, <2>6, <4>1, SettledHow DEF OrderInv, PastKeys, Keyed
    <3>2. \A i \in DOMAIN log : log[i].decided + 2 * Window <= entry.expires
      BY <1>1, <1>4, <3>1 DEF BucketKept
    <3>3. entry.expires \in Nat /\ d \in Nat /\ d <= clock /\ Latest(d) /\ d + 2 * Window <= c /\ d + 2 * Window <= clock
      <4>1. PICK i \in DOMAIN log : TRUE
        BY <3>1 DEF Counted
      <4>2. entry.expires \in Nat /\ log[i].decided + 2 * Window <= entry.expires /\ log[i].decided \in Nat
        BY <1>6, <1>9, <3>1, <3>2, <4>1
      <4>3. d \in Nat /\ d <= clock /\ d + 2 * Window <= clock /\ d + 2 * Window <= c
        BY <1>3, <2>1, <2>6, <4>2
      <4>4. Latest(d)
        BY <1>3, <1>6, <3>2, <4>2 DEF Latest
      <4> QED BY <4>2, <4>3, <4>4
    <3>4. d \in Times
      BY <1>3, <3>3, RateAssumption DEF Times
    <3>5. a <= d
      <4>1. PICK i \in Spenders(a) : TRUE
        BY <2>6
      <4>2. i \in DOMAIN log /\ a <= log[i].arrived
        BY DEF Spenders, Counted
      <4> QED BY <1>3, <1>6, <3>3, <4>2 DEF Latest
    <3>6. S \in Nat /\ Cardinality(Spenders(a)') \in {S, S + 1}
      <4>1. S \in Nat
        BY SpendersFinite
      <4> HIDE DEF F
      <4> QED BY <1>1, <4>1, SpendersEnds
    <3> HIDE DEF d, S
    <3>7. S * Window <= Full + (d - a) * Limit
      <4> DEFINE m == S * Window
                 v == (d - a) * Limit
                 r == TokensAt(d)
      <4>1. m + r <= Full + v
        BY <1>4, <1>10, <3>3, <3>4, <3>5 DEF BucketKept, S
      <4>2. m \in Nat /\ v \in Nat /\ r \in Nat
        <5>1. d - a \in Nat
          BY <1>3, <1>10, <3>3, <3>5
        <5> QED BY <3>3, <3>6, <5>1, BucketTyped, Numbers
      <4> HIDE DEF m, v, r
      <4>3. m <= Full + v
        BY <4>1, <4>2, Numbers
      <4> QED BY <4>3 DEF m, v
    <3>8. (S + 1) * Window + U <= Full + (c - a) * Limit
      BY <1>3, <1>10, <2>1, <2>3, <3>3, <3>5, <3>6, <3>7, BucketLate
    <3>9. S * Window + U <= Full + (c - a) * Limit
      <4> DEFINE m == S * Window
                 v == (c - a) * Limit
      <4>1. (S + 1) * Window = m + Window /\ m \in Nat
        BY <3>6, Numbers
      <4>2. m + Window + U <= Full + v
        BY <3>8, <4>1
      <4>3. v \in Nat
        <5>1. c - a \in Nat
          BY <1>3, <1>10
        <5> QED BY <5>1, Numbers
      <4> HIDE DEF m, v
      <4>4. m + U <= Full + v
        BY <2>3, <4>1, <4>2, <4>3, Numbers
      <4> QED BY <4>4 DEF m, v
    <3> QED BY <3>6, <3>8, <3>9 DEF U
  <2> QED BY <2>4, <2>5, <2>6
<1>11. \A i \in DOMAIN log' : log'[i].decided + 2 * Window <= entry'.expires
  BY <1>1, <1>2, <1>3, <1>6 DEF Ends
<1> QED BY <1>2, <1>3, <1>10, <1>11 DEF BucketKept

\* Nothing is owed by a step that leaves log and bucket alone.
LEMMA BucketQuiet ==
  ASSUME BucketKept, UNCHANGED <<store, strategy, entry, counter, switches, log>>, faults' = 0 => faults = 0
  PROVE  BucketKept'
<1>1. Counted' = Counted /\ AllAlone' = AllAlone /\ Times' = Times
  BY DEF Counted, AllAlone, Times
<1>2. \A a : Spenders(a)' = Spenders(a)
  BY <1>1 DEF Spenders
<1>3. \A c : TokensAt(c)' = TokensAt(c) /\ Latest(c)' = Latest(c)
  BY DEF TokensAt, Latest
<1> QED BY <1>1, <1>2, <1>3 DEF BucketKept

\* Every step keeps the tokens paid for.
LEMMA BucketStep ==
  ASSUME OrderInv, OrderInv', BucketKept, TokenBucketHolds, [LimiterNext]_limiterVars
  PROVE  BucketKept' /\ TokenBucketHolds'
<1>1. LimiterTyped
  BY DEF OrderInv
<1>2. CASE UNCHANGED limiterVars
  <2>1. UNCHANGED <<store, strategy, entry, counter, clock, faults, switches, log>>
    BY <1>2 DEF limiterVars
  <2> QED BY <2>1, BucketQuiet, HoldsQuiet
<1>3. ASSUME NEW s \in Servers, Arrive(s) PROVE BucketKept' /\ TokenBucketHolds'
  <2>1. UNCHANGED <<store, strategy, entry, counter, clock, faults, switches, log>>
    BY <1>3 DEF Arrive
  <2> QED BY <2>1, BucketQuiet, HoldsQuiet
<1>4. ASSUME NEW how \in Strategies, Switch(how) PROVE BucketKept' /\ TokenBucketHolds'
  BY <1>4, SwitchCounts, BucketNone
<1>5. CASE Tick
  <2>1. UNCHANGED <<store, strategy, entry, counter, faults, switches, log>>
    BY <1>5 DEF Tick
  <2> QED BY <1>5, <2>1, BucketQuiet, TickHolds
<1>6. ASSUME NEW s \in Servers, Acts(s) PROVE BucketKept' /\ TokenBucketHolds'
  <2>1. s \in Busy /\ UNCHANGED <<store, strategy, clock, switches>> /\ faults' \in {faults, faults + 1}
        /\ (faults' = 0 => faults = 0)
    <3>1. s \in Busy /\ UNCHANGED <<store, strategy, clock, switches>> /\ faults' \in {faults, faults + 1}
      BY <1>6, ServerActs
    <3> QED BY <1>1, <3>1 DEF LimiterTyped
  <2>2. CASE local[s].how # "token_bucket"
    BY <1>6, <2>2, NoneOther, BucketNone
  <2>3. CASE faults' # 0 \/ ~AllAlone'
    BY <2>1, <2>3 DEF BucketKept, TokenBucketHolds, AllAlone
  <2>4. CASE local[s].how = "token_bucket" /\ faults' = 0 /\ CountLocked(s)
    <3>1. BucketKept' /\ \E n, w : Ends(s, n, w)
      BY <2>4, BucketMemory
    <3> QED BY <2>1, <3>1, BucketPasses
  <2>5. CASE ReadBucket(s)
    <3>1. UNCHANGED <<store, strategy, entry, counter, clock, faults, switches>> /\ \E place, rec : Goes(s, place, rec)
      BY <2>5, ReadBucketActs
    <3>2. UNCHANGED log
      BY <3>1 DEF Goes
    <3> QED BY <3>1, <3>2, BucketQuiet, HoldsQuiet
  <2>8. CASE Delete(s)
    <3>1. Counted = {} /\ Fresh = {}
      BY <2>1, <2>8, DeleteActs DEF OrderInv, StrategySettled, Pure
    <3>2. ASSUME NEW n, NEW w, Ends(s, n, w) PROVE Counted' = {}
      BY <1>1, <2>1, <3>1, <3>2, EndsCounted
    <3>3. ASSUME NEW place, NEW rec, Goes(s, place, rec), place # "idle" PROVE Counted' = {}
      BY <1>1, <2>1, <3>1, <3>3, GoesCounted
    <3>4. Counted' = {}
      BY <1>6, <3>2, <3>3, ServerActs
    <3> QED BY <3>4, BucketNone
  <2>6. CASE local[s].how = "token_bucket" /\ faults' = 0 /\ AllAlone' /\ ExecBucket(s)
    <3>1. store = "redis" /\ UNCHANGED <<store, strategy, counter, clock, faults, switches>> /\ pc[s] = "exec"
      BY <2>6, ExecBucketActs
    <3>2. CASE s \notin broken
      <4>1. BucketKept'
        BY <2>6, <3>2, BucketRedis
      <4>2. Ends(s, TokenCount(Flowed(s)), 0)
        BY <2>6, <3>2, ExecBucketActs
      <4> QED BY <2>1, <4>1, <4>2, BucketPasses
    <3>3. CASE s \in broken
      <4>1. entry' = entry /\ Again(s)
        BY <2>6, <3>3, ExecBucketActs
      <4>2. ASSUME Ends(s, 1, 0) PROVE FALSE
        <5>1. local[s].alone
          BY <2>6, <3>1, <4>2 DEF AllAlone, Ends
        <5> QED BY <2>1, <3>1, <3>3, <5>1 DEF OrderInv, AloneHolds, AloneAt
      <4>3. UNCHANGED log
        BY <2>1, <4>1, <4>2, AgainCases DEF Goes
      <4> QED BY <3>1, <4>1, <4>3, BucketQuiet, HoldsQuiet
    <3> QED BY <3>2, <3>3
  <2>7. local[s].how = "token_bucket" /\ faults' = 0 => CountLocked(s) \/ ReadBucket(s) \/ Delete(s) \/ ExecBucket(s)
    <3>1. Unreachable(s) => faults' # 0
      BY <1>1 DEF Unreachable, LimiterTyped
    <3> QED BY <1>6, <3>1, IncrActs, ExpireActs, EvictActs, AddActs, CountHitsActs, RenewActs DEF Acts
  <2> QED BY <2>2, <2>3, <2>4, <2>5, <2>6, <2>7, <2>8
<1> QED BY <1>2, <1>3, <1>4, <1>5, <1>6, NextCases

----------------------------------------------------------------------------
(* Nobody is stopped for less than the limit.                               *)

\* The requests a request that is stopped now is stopped for.
Ahead(s) ==
  {j \in DOMAIN log : /\ log[j].decided > local[s].arrived - Window
                      /\ local[s].how = "sliding_window" \/ ~log[j].over}

\* Who is not over the limit, or has enough others ahead, may be answered.
LEMMA StoppedEnds ==
  ASSUME OrderInv, StoppedForHits, NEW s, NEW n, NEW w, Ends(s, n, w), UNCHANGED <<store, switches>>,
         faults' = 0 => faults = 0,
         faults' = 0 /\ switches = 0 /\ AllAlone' /\ n > Limit => Cardinality(Ahead(s)) >= Limit
  PROVE  StoppedForHits'
<1> SUFFICES ASSUME faults' = 0, switches = 0, AllAlone', NEW i \in DOMAIN log', log'[i].over
             PROVE  Cardinality({j \in 1..(i - 1) : /\ log'[j].decided > log'[i].arrived - Window
                                                    /\ log'[i].how = "sliding_window" \/ ~log'[j].over}) >= Limit
  BY DEF StoppedForHits, AllAlone
<1>1. /\ DOMAIN log = 1..Len(log) /\ Len(log) \in Nat /\ DOMAIN log' = 1..(Len(log) + 1)
      /\ \A j \in DOMAIN log : log'[j] = log[j] /\ j \in DOMAIN log'
  BY DEF Ends
<1>2. CASE i \in DOMAIN log
  <2>1. AllAlone /\ faults = 0
    BY <1>1 DEF AllAlone
  <2>2. Cardinality({j \in 1..(i - 1) : /\ log[j].decided > log[i].arrived - Window
                                        /\ log[i].how = "sliding_window" \/ ~log[j].over}) >= Limit
    BY <1>1, <1>2, <2>1 DEF StoppedForHits, AllAlone
  <2>3. \A j \in 1..(i - 1) : log'[j] = log[j]
    BY <1>1, <1>2
  <2>4. {j \in 1..(i - 1) : /\ log'[j].decided > log'[i].arrived - Window
                            /\ log'[i].how = "sliding_window" \/ ~log'[j].over}
        = {j \in 1..(i - 1) : /\ log[j].decided > log[i].arrived - Window
                              /\ log[i].how = "sliding_window" \/ ~log[j].over}
    BY <1>1, <1>2, <2>3
  <2> QED BY <2>2, <2>4
<1>3. CASE i = Len(log) + 1
  <2>1. n > Limit /\ log'[i].arrived = local[s].arrived /\ log'[i].how = local[s].how
    BY <1>3 DEF Ends
  <2>2. 1..(i - 1) = DOMAIN log
    BY <1>1, <1>3
  <2>3. {j \in 1..(i - 1) : /\ log'[j].decided > log'[i].arrived - Window
                            /\ log'[i].how = "sliding_window" \/ ~log'[j].over} = Ahead(s)
    BY <1>1, <2>1, <2>2 DEF Ahead
  <2> QED BY <2>1, <2>3
<1>4. i \in DOMAIN log \/ i = Len(log) + 1
  BY <1>1
<1> QED BY <1>2, <1>3, <1>4

LEMMA AheadFinite ==
  ASSUME OrderInv, NEW s
  PROVE  IsFiniteSet(Ahead(s)) /\ Cardinality(Ahead(s)) \in Nat
<1>1. DOMAIN log = 1..Len(log) /\ Len(log) \in Nat
  BY DEF OrderInv, LimiterTyped
<1>2. IsFiniteSet(DOMAIN log) /\ Ahead(s) \subseteq DOMAIN log
  BY <1>1, FS_Interval DEF Ahead
<1> QED BY <1>2, FS_Subset, FS_CardinalityType

\* Who is over the limit of a sliding window in memory is stopped for the hits in it.
LEMMA SlidingStops ==
  ASSUME OrderInv, NEW s \in Busy, store = "memory", local[s].how = "sliding_window",
         Cardinality(Recent(counter.hits, clock) \cup {Hit(local[s].nr, clock)}) > Limit
  PROVE  Cardinality(Ahead(s)) >= Limit
<1> DEFINE R == Recent(counter.hits, clock)
           A == Ahead(s)
           N == {log[i].nr : i \in A}
           f == [h \in R |-> h.nr]
           own == Hit(local[s].nr, clock)
<1>1. IsFiniteSet(A) /\ Cardinality(A) \in Nat /\ Limit \in Nat
  BY AheadFinite, RateAssumption
<1>2. local[s].arrived \in Nat /\ local[s].arrived <= clock /\ clock \in Nat /\ Window \in Nat
  <2>1. local[s].arrived <= local[s].now /\ local[s].now <= clock /\ s \in Servers
    BY Located
  <2> QED BY <2>1, TimesTyped
<1>3. HitsIn(counter.hits, Owners) /\ counter.hits \in SUBSET StoredHits /\ InKey = {}
  <2>1. InKey \subseteq Busy
    BY DEF InKey, Busy
  <2> QED BY <2>1, Located DEF OrderInv, LimiterTyped, Counters, HitsLogged, InKey
<1>4. ASSUME NEW h \in R PROVE h.nr \in N
  <2>1. h \in counter.hits /\ h.at > clock - Window /\ h.at \in Nat
    BY <1>3, RateAssumption DEF Recent, StoredHits, Times
  <2>2. PICK i \in DOMAIN log : log[i].nr = h.nr /\ h.at <= log[i].decided
    BY <1>3, <2>1 DEF HitsIn, Owners
  <2>3. log[i].decided \in Nat
    BY TimesTyped
  <2>4. log[i].decided > local[s].arrived - Window
    BY <1>2, <2>1, <2>2, <2>3
  <2> QED BY <2>2, <2>4 DEF Ahead
<1>5. f \in [R -> N] /\ \A g, h \in R : f[g] = f[h] => g = h
  BY <1>3, <1>4 DEF Recent, HitsIn
<1>6. Cardinality(R \cup {own}) > Limit
  OBVIOUS
<1> HIDE DEF A, R, own
<1>7. IsFiniteSet(N) /\ Cardinality(N) <= Cardinality(A) /\ Cardinality(N) \in Nat
  <2> DEFINE g == [i \in A |-> log[i].nr]
  <2>1. g \in [A -> N] /\ \A n \in N : \E i \in A : g[i] = n
    OBVIOUS
  <2>2. g \in Surjection(A, N)
    BY <2>1 DEF Surjection
  <2> QED BY <1>1, <2>2, FS_Surjection, FS_CardinalityType
<1> HIDE DEF N, f
<1>8. IsFiniteSet(R) /\ Cardinality(R) <= Cardinality(N) /\ Cardinality(R) \in Nat
  BY <1>5, <1>7, Fewer, FS_CardinalityType
<1>9. Cardinality(R \cup {own}) <= Cardinality(R) + 1 /\ Cardinality(R \cup {own}) \in Nat
  <2>1. Cardinality(R \cup {own}) = IF own \in R THEN Cardinality(R) ELSE Cardinality(R) + 1
    BY <1>8, FS_AddElement
  <2> QED BY <1>8, <2>1
<1>10. Cardinality(A) >= Limit
  BY <1>1, <1>6, <1>7, <1>8, <1>9
<1> QED BY <1>10 DEF A

\* In Redis that is so for who counts alone.
LEMMA RenewStops ==
  ASSUME OrderInv, NEW s \in Busy, pc[s] = "renew", local[s].alone, local[s].answer > Limit
  PROVE  Cardinality(Ahead(s)) >= Limit
<1> DEFINE I == {i \in DOMAIN log : log[i].decided > local[s].now - Window}
           A == Ahead(s)
<1>1. /\ local[s].how = "sliding_window" /\ local[s].answer \in Nat /\ s \in Servers /\ local[s].arrived <= local[s].now
      /\ local[s].arrived \in Nat /\ local[s].now \in Nat /\ Window \in Nat /\ Limit \in Nat
      /\ \A i \in DOMAIN log : log[i].decided \in Nat
  BY Located, TimesTyped, Numbers DEF InFlight
<1>2. local[s].answer <= 1 + Cardinality(I)
  BY DEF OrderInv, AloneHolds, AloneAt
<1>3. I \subseteq A
  BY <1>1 DEF Ahead
<1>4. IsFiniteSet(A) /\ Cardinality(A) \in Nat
  BY AheadFinite
<1>5. local[s].answer > Limit
  OBVIOUS
<1> HIDE DEF I, A
<1>6. Cardinality(I) <= Cardinality(A) /\ Cardinality(I) \in Nat
  BY <1>3, <1>4, FS_Subset, FS_CardinalityType
<1>7. Cardinality(A) >= Limit
  BY <1>1, <1>2, <1>4, <1>5, <1>6
<1> QED BY <1>7 DEF A

\* So a sliding window stops nobody too early.
LEMMA SlidingStopped ==
  ASSUME OrderInv, OrderInv', StoppedForHits, NEW s \in Servers, local[s].how = "sliding_window",
         CountLocked(s) \/ Evict(s) \/ Add(s) \/ CountHits(s) \/ Renew(s)
  PROVE  StoppedForHits'
<1>1. CASE CountLocked(s)
  <2>1. /\ Ends(s, Cardinality(Recent(counter.hits, clock) \cup {Hit(local[s].nr, clock)}), 0)
        /\ s \in Busy /\ store = "memory" /\ UNCHANGED <<store, strategy, clock, faults, switches>>
    BY <1>1, CountLockedActs
  <2> DEFINE n == Cardinality(Recent(counter.hits, clock) \cup {Hit(local[s].nr, clock)})
  <2>2. n > Limit => Cardinality(Ahead(s)) >= Limit
    BY <2>1, SlidingStops
  <2> HIDE DEF n
  <2> QED BY <2>1, <2>2, StoppedEnds DEF n
<1>2. CASE Renew(s)
  <2>1. /\ Ends(s, local[s].answer, 0) /\ s \in Busy /\ UNCHANGED <<store, strategy, clock, faults, switches>>
        /\ pc[s] = "renew" /\ store = "redis"
    BY <1>2, RenewActs
  <2>2. AllAlone' => local[s].alone
    BY <2>1 DEF AllAlone, Ends
  <2>3. AllAlone' /\ local[s].answer > Limit => Cardinality(Ahead(s)) >= Limit
    BY <2>1, <2>2, RenewStops
  <2> QED BY <2>1, <2>3, StoppedEnds
<1>3. CASE Evict(s) \/ Add(s) \/ CountHits(s)
  <2>1. UNCHANGED <<store, clock, faults, switches>> /\ \E place, rec : Goes(s, place, rec)
    BY <1>3, EvictActs, AddActs, CountHitsActs
  <2>2. log' = log
    BY <2>1 DEF Goes
  <2>3. faults' \in {faults, faults + 1}
    BY <2>1
  <2> QED BY <2>1, <2>2, <2>3, HoldsQuiet
<1> QED BY <1>1, <1>2, <1>3

\* Before the first change of strategy there is nothing of another one.
LEMMA FirstStrategy ==
  ASSUME OrderInv, NEW s \in Busy, switches = 0
  PROVE  /\ local[s].how = strategy /\ s \in Fresh /\ ~WrongType(local[s].how) /\ Counted = DOMAIN log /\ Fresh = Busy
         /\ \A t \in Busy : local[t].how = strategy
  BY DEF OrderInv, StrategySettled, Pure, Fresh

\* A fixed window, first in memory: the request is the first one of a window, or
\* one more.
LEMMA FixedMemoryFull ==
  ASSUME OrderInv, OrderInv', FixedKept, FixedFull, StoppedForHits, NEW s \in Servers, CountLocked(s),
         local[s].how = "fixed_window", switches = 0, faults' = 0
  PROVE  FixedFull' /\ StoppedForHits'
<1>1. /\ s \in Busy /\ store = "memory" /\ UNCHANGED <<store, strategy, clock, faults, switches>> /\ pc[s] # "expire"
      /\ faults = 0 /\ clock \in Nat /\ clock \in Times /\ Times \subseteq Nat /\ Limit \in Nat /\ Limit >= 1 /\ Window \in Nat
      /\ strategy = "fixed_window" /\ s \in Fresh /\ Counted = DOMAIN log /\ \A v : Passes(v) \in Nat
  <2>1. s \in Busy /\ store = "memory" /\ UNCHANGED <<store, strategy, clock, faults, switches>> /\ pc[s] = "locked"
    BY CountLockedActs
  <2>2. clock \in Nat /\ clock \in Times /\ Times \subseteq Nat /\ Limit \in Nat /\ Limit >= 1 /\ Window \in Nat
    BY BornTyped
  <2> QED BY <2>1, <2>2, FirstStrategy, PassesFinite
<1>2. ~(store' = "redis")
  BY <1>1
<1>3. CASE /\ counter.start = None \/ clock - counter.start >= Window
           /\ counter'.start = clock /\ counter'.count = 1 /\ Ends(s, 1, clock)
  <2> DEFINE q == s \in Fresh /\ 1 <= Limit
  <2>1. q \in BOOLEAN /\ (q <=> s \in Fresh /\ 1 <= Limit) /\ Ends(s, 1, clock)
    BY <1>3
  <2> HIDE DEF q
  <2>2. \A v : Passes(v)' = Passes(v) + (IF q /\ v = clock THEN 1 ELSE 0)
    BY <1>1, <2>1, PassesEnds
  <2>3. Born' = clock /\ Count' = 1
    BY <1>1, <1>3 DEF Born, Count
  <2>4. Passes(Born)' >= Count'
    <3>1. ASSUME NEW v, v = clock PROVE Passes(v)' >= Count'
      <4>1. Passes(v)' = Passes(v) + 1
        BY <1>1, <2>1, <2>2, <3>1
      <4> QED BY <1>1, <2>3, <4>1
    <3> QED BY <2>3, <3>1
  <2>5. FixedFull'
    BY <1>2, <2>4 DEF FixedFull
  <2>6. StoppedForHits'
    BY <1>1, <1>3, StoppedEnds
  <2> QED BY <2>5, <2>6
<1>4. CASE /\ counter.start # None /\ clock - counter.start < Window
           /\ counter'.start = counter.start /\ counter'.count = counter.count + 1
           /\ Ends(s, counter.count + 1, counter.start)
  <2> DEFINE b == counter.start
             n == counter.count + 1
             q == s \in Fresh /\ n <= Limit
  <2>1. q \in BOOLEAN /\ (q <=> s \in Fresh /\ n <= Limit) /\ Ends(s, n, b)
    BY <1>4
  <2> HIDE DEF q
  <2>2. \A v : Passes(v)' = Passes(v) + (IF q /\ v = b THEN 1 ELSE 0)
    BY <1>1, <2>1, PassesEnds
  <2>3. Running /\ Born' = b /\ Born = b /\ Count' = n /\ Count + 1 = n /\ Count \in Nat /\ b \in Nat
    BY <1>1, <1>4, BornTyped DEF Running, Born, Count
  <2>4. Passes(b) >= Count \/ Passes(b) >= Limit
    <3>1. Passes(Born) >= Count \/ Passes(Born) >= Limit
      BY <1>1, <2>3 DEF FixedFull
    <3>2. Passes(Born) = Passes(b)
      BY <2>3
    <3> QED BY <3>1, <3>2
  <2>5. Passes(b) >= Limit \/ (q /\ Passes(b) >= Count)
    BY <1>1, <2>1, <2>3, <2>4
  <2>6. Passes(Born)' >= Count' \/ Passes(Born)' >= Limit
    <3>1. ASSUME NEW v, v = b PROVE Passes(v)' >= Count' \/ Passes(v)' >= Limit
      <4>1. Passes(v)' = Passes(v) + (IF q THEN 1 ELSE 0) /\ Passes(v) = Passes(b)
        BY <2>2, <3>1
      <4>2. Passes(v) \in Nat
        BY <1>1
      <4> HIDE DEF b, n
      <4> QED BY <1>1, <2>3, <2>5, <4>1, <4>2
    <3> QED BY <2>3, <3>1
  <2>7. FixedFull'
    BY <1>2, <2>6 DEF FixedFull
  <2>8. n > Limit => Cardinality(Ahead(s)) >= Limit
    <3> SUFFICES ASSUME n > Limit PROVE Cardinality(Ahead(s)) >= Limit
      OBVIOUS
    <3>1. Passes(b) >= Limit
      BY <1>1, <2>1, <2>3, <2>5
    <3>2. Pending(b) = {}
      BY <1>1 DEF Pending, Fresh, OrderInv, RequestsPlaced
    <3>3. Passing(b) \subseteq Ahead(s)
      <4> SUFFICES ASSUME NEW i \in Passing(b) PROVE i \in Ahead(s)
        OBVIOUS
      <4>1. i \in DOMAIN log /\ log[i].window = b /\ ~log[i].over /\ log[i] \in Logged /\ log[i].window <= log[i].decided
        BY PassesFinite DEF Passing, OrderInv, PastRequests
      <4>2. log[i].decided \in Nat /\ local[s].arrived \in Nat /\ local[s].arrived <= clock
        <5>1. local[s] \in InFlight /\ local[s].arrived <= local[s].now /\ local[s].now <= clock
          BY <1>1, Located
        <5>2. log[i].decided \in Times /\ local[s].arrived \in Times /\ local[s].now \in Times
          BY <4>1, <5>1 DEF Logged, InFlight
        <5> QED BY <1>1, <5>1, <5>2, RateAssumption DEF Times
      <4>3. log[i].decided > local[s].arrived - Window
        BY <1>1, <1>4, <2>3, <4>1, <4>2
      <4> QED BY <4>1, <4>3 DEF Ahead
    <3> DEFINE P == Passing(b)
               A == Ahead(s)
    <3>4. Cardinality(P) >= Limit /\ Cardinality(P) \in Nat /\ IsFiniteSet(A) /\ Cardinality(A) \in Nat /\ P \subseteq A
      BY <1>1, <3>1, <3>2, <3>3, PassesFinite, AheadFinite, FS_EmptySet DEF Passes
    <3> HIDE DEF P, A
    <3>5. Cardinality(P) <= Cardinality(A)
      BY <3>4, FS_Subset
    <3>6. Cardinality(A) >= Limit
      BY <1>1, <3>4, <3>5
    <3> QED BY <3>6 DEF A
  <2>9. StoppedForHits'
    BY <1>1, <2>1, <2>8, StoppedEnds
  <2> QED BY <2>7, <2>9
<1> QED BY <1>3, <1>4, CountLockedActs

\* INCR counts who is let through, up to the limit.
LEMMA FixedIncrFull ==
  ASSUME OrderInv, OrderInv', FixedKept, FixedFull, StoppedForHits, NEW s \in Servers, Incr(s), switches = 0, faults' = 0
  PROVE  FixedFull' /\ StoppedForHits'
<1>1. /\ s \in Busy /\ store = "redis" /\ UNCHANGED <<store, strategy, clock, faults, switches>> /\ pc[s] = "incr"
      /\ local[s].how = "fixed_window"
      /\ faults = 0 /\ clock \in Nat /\ clock \in Times /\ Times \subseteq Nat /\ Limit \in Nat /\ Limit >= 1 /\ Window \in Nat
  <2>1. /\ s \in Busy /\ store = "redis" /\ UNCHANGED <<store, strategy, clock, faults, switches>> /\ pc[s] = "incr"
        /\ local[s].how = "fixed_window"
    BY IncrActs
  <2>2. clock \in Nat /\ clock \in Times /\ Times \subseteq Nat /\ Limit \in Nat /\ Limit >= 1 /\ Window \in Nat
    BY BornTyped
  <2> QED BY <2>1, <2>2
<1>2. strategy = "fixed_window" /\ s \in Fresh /\ ~WrongType("fixed_window") /\ Counted = DOMAIN log
  BY <1>1, FirstStrategy
<1>3. /\ entry' = Incremented /\ Incremented.kind = "string" /\ Incremented.count = Entry.count + 1
      /\ Incremented.expires = Entry.expires
      /\ Entry \in Keys /\ Entry.count \in Nat /\ Entry.kind \in {"none", "string"} /\ Keyed(Entry)
  BY <1>1, <1>2, IncrActs, Writable, KeyNow, KindOfHow DEF WrongType
<1>4. Incremented.born = IF Entry.kind = "none" THEN clock ELSE Entry.born
  BY <1>3 DEF Incremented, Keys
<1>5. Running' /\ Born' = Incremented.born /\ Count' = Entry.count + 1
  BY <1>1, <1>3 DEF Running, Born, Count
<1>6. CASE Incremented.count # 1
  <2> DEFINE n == Incremented.count
             b == Incremented.born
             q == s \in Fresh /\ n <= Limit
  <2>1. Entry.kind = "string" /\ Entry = entry
    <3>1. Entry.count # 0
      BY <1>3, <1>6
    <3> QED BY <1>3, <3>1, KeyNow DEF Absent
  <2>2. Running /\ Born' = b /\ Born = b /\ Count' = n /\ Count + 1 = n /\ Count \in Nat /\ b \in Nat
    BY <1>1, <1>3, <1>4, <1>5, <2>1, BornTyped DEF Running, Born, Count
  <2>3. Ends(s, n, b) /\ q \in BOOLEAN /\ (q <=> s \in Fresh /\ n <= Limit)
    BY <1>2, <1>6, IncrActs
  <2> HIDE DEF q
  <2>4. /\ \A v : Passes(v)' = Passes(v) + (IF q /\ v = b THEN 1 ELSE 0)
    BY <1>1, <2>3, PassesEnds
  <2>5. Passes(b) >= Count \/ Passes(b) >= Limit
    <3>1. Passes(Born) >= Count \/ Passes(Born) >= Limit
      BY <1>1, <1>2, <2>2 DEF FixedFull
    <3>2. Passes(Born) = Passes(b)
      BY <2>2
    <3> QED BY <3>1, <3>2
  <2>6. Passes(b) >= Limit \/ (q /\ Passes(b) >= Count)
    <3>1. Passes(b) \in Nat
      BY PassesFinite
    <3> HIDE DEF b, n
    <3> QED BY <1>1, <1>2, <2>2, <2>3, <2>5, <3>1
  <2>7. Passes(Born)' >= Count' \/ Passes(Born)' >= Limit
    <3>1. ASSUME NEW v, v = b PROVE Passes(v)' >= Count' \/ Passes(v)' >= Limit
      <4>1. Passes(v)' = Passes(v) + (IF q THEN 1 ELSE 0) /\ Passes(v) = Passes(b)
        BY <2>4, <3>1
      <4>2. Passes(v) \in Nat
        BY PassesFinite
      <4> HIDE DEF b, n
      <4> QED BY <1>1, <2>2, <2>6, <4>1, <4>2
    <3> QED BY <2>2, <3>1
  <2>8. entry.expires # None => Entry.expires > clock /\ entry.expires \in Nat
    BY <2>1, EntryType DEF OrderInv
  <2>9. AllAlone' => AllAlone /\ local[s].alone
    BY <1>1, <2>3 DEF AllAlone, Ends
  <2>10. ASSUME AllAlone', entry'.expires # None
         PROVE  entry'.expires <= clock' + Window /\ \A i \in Passing(Born)' : log'[i].decided + Window >= entry'.expires
    <3>1. entry'.expires = entry.expires /\ entry.expires # None /\ AllAlone
      BY <1>3, <2>1, <2>9, <2>10
    <3>2. entry.expires <= clock + Window /\ \A i \in Passing(Born) : log[i].decided + Window >= entry.expires
      BY <1>1, <1>2, <2>2, <3>1 DEF FixedFull
    <3>3. Passing(Born)' \subseteq Passing(Born) \cup {Len(log) + 1}
      BY <1>1, <2>2, <2>3 DEF Passing, Counted, Ends
    <3>4. \A i \in Passing(Born) : log'[i] = log[i]
      BY <2>3, PassesFinite DEF Ends
    <3>5. log'[Len(log) + 1].decided = clock
      BY <2>3 DEF Ends
    <3> QED BY <1>1, <2>8, <3>1, <3>2, <3>3, <3>4, <3>5
  <2>11. FixedFull'
    BY <2>7, <2>10 DEF FixedFull
  <2>12. AllAlone' /\ n > Limit => Cardinality(Ahead(s)) >= Limit
    <3> SUFFICES ASSUME AllAlone', n > Limit PROVE Cardinality(Ahead(s)) >= Limit
      OBVIOUS
    <3>1. Passes(b) >= Limit
      BY <1>1, <2>2, <2>3, <2>6
    <3>2. Busy = {s}
      BY <1>1, <2>9 DEF OrderInv, AloneHolds
    <3>3. Pending(b) = {}
      BY <1>1, <3>2 DEF Pending, Fresh
    <3>4. entry.expires # None
      <4>1. entry.expires = None => \E t \in Servers : pc[t] = "expire"
        BY <1>1, <2>1 DEF OrderInv, KeysLive
      <4> QED BY <1>1, <3>2, <4>1 DEF Busy
    <3>5. Passing(b) \subseteq Ahead(s)
      <4> SUFFICES ASSUME NEW i \in Passing(b) PROVE i \in Ahead(s)
        OBVIOUS
      <4>1. i \in DOMAIN log /\ ~log[i].over /\ log[i] \in Logged
        BY PassesFinite DEF Passing
      <4>2. log[i].decided \in Nat /\ local[s].arrived \in Nat /\ local[s].arrived <= clock
        <5>1. local[s] \in InFlight /\ local[s].arrived <= local[s].now /\ local[s].now <= clock
          BY <1>1, Located
        <5>2. log[i].decided \in Times /\ local[s].arrived \in Times /\ local[s].now \in Times
          BY <4>1, <5>1 DEF Logged, InFlight
        <5> QED BY <1>1, <5>1, <5>2, RateAssumption DEF Times
      <4>3. log[i].decided + Window >= entry.expires
        <5>1. i \in Passing(Born)
          BY <2>2
        <5> QED BY <1>1, <1>2, <2>2, <2>9, <3>4, <5>1 DEF FixedFull
      <4>4. log[i].decided > local[s].arrived - Window
        BY <1>1, <2>1, <2>8, <3>4, <4>2, <4>3
      <4> QED BY <4>1, <4>4 DEF Ahead
    <3> DEFINE P == Passing(b)
               A == Ahead(s)
    <3>6. Cardinality(P) >= Limit /\ Cardinality(P) \in Nat /\ IsFiniteSet(A) /\ Cardinality(A) \in Nat /\ P \subseteq A
      BY <1>1, <3>1, <3>3, <3>5, PassesFinite, AheadFinite, FS_EmptySet DEF Passes
    <3> HIDE DEF P, A
    <3>7. Cardinality(P) <= Cardinality(A)
      BY <3>6, FS_Subset
    <3>8. Cardinality(A) >= Limit
      BY <1>1, <3>6, <3>7
    <3> QED BY <3>8 DEF A
  <2>13. StoppedForHits'
    BY <1>1, <2>3, <2>12, StoppedEnds
  <2> QED BY <2>11, <2>13
<1>7. CASE Incremented.count = 1
  <2>1. Entry.kind = "none" /\ Entry.count = 0 /\ Entry = Absent
    BY <1>3, <1>7, KeyNow DEF Keyed
  <2>2. PICK rec : Goes(s, "expire", rec) /\ rec.window = Incremented.born
    BY <1>2, <1>7, IncrActs
  <2>3. Born' = clock /\ Count' = 1 /\ rec.window = clock
    BY <1>4, <1>5, <2>1, <2>2
  <2> DEFINE q == s \in Fresh
  <2>4. q \in BOOLEAN /\ (q <=> s \in Fresh /\ "expire" = "expire") /\ "expire" # "idle"
    OBVIOUS
  <2> HIDE DEF q
  <2>5. \A v : Passes(v)' = Passes(v) + (IF q /\ v = rec.window THEN 1 ELSE 0)
    BY <1>1, <2>2, <2>4, PassesGoes
  <2>6. Passes(Born)' >= Count'
    <3>1. ASSUME NEW v, v = clock PROVE Passes(v)' >= Count'
      <4>1. Passes(v)' = Passes(v) + 1 /\ Passes(v) \in Nat
        BY <1>2, <2>3, <2>4, <2>5, <3>1, PassesFinite
      <4> QED BY <2>3, <4>1
    <3> QED BY <2>3, <3>1
  <2>7. entry'.expires = None
    BY <1>3, <2>1 DEF Absent
  <2>8. FixedFull'
    BY <2>6, <2>7 DEF FixedFull
  <2>9. StoppedForHits'
    BY <1>1, <2>2, HoldsQuiet DEF Goes
  <2> QED BY <2>8, <2>9
<1> QED BY <1>6, <1>7

\* EXPIRE sets a window no longer than its requests are recent.
LEMMA FixedExpireFull ==
  ASSUME OrderInv, OrderInv', FixedKept, FixedFull, StoppedForHits, NEW s \in Servers, Expire(s), switches = 0, faults' = 0
  PROVE  FixedFull' /\ StoppedForHits'
<1>1. /\ s \in Busy /\ store = "redis" /\ UNCHANGED <<store, strategy, counter, clock, switches>> /\ pc[s] = "expire"
      /\ local[s].how = "fixed_window" /\ Ends(s, 1, local[s].window) /\ (faults' = 0 => faults = 0)
      /\ ~(1 > Limit) /\ clock \in Nat /\ Window \in Nat /\ Limit \in Nat
  <2>1. /\ s \in Busy /\ store = "redis" /\ UNCHANGED <<store, strategy, counter, clock, switches>> /\ pc[s] = "expire"
        /\ local[s].how = "fixed_window" /\ Ends(s, 1, local[s].window)
    BY ExpireActs
  <2>2. faults' = 0 => faults = 0
    BY DEF Expire, OrderInv, LimiterTyped
  <2>3. ~(1 > Limit) /\ clock \in Nat /\ Window \in Nat /\ Limit \in Nat
    BY BornTyped
  <2> QED BY <2>1, <2>2, <2>3
<1>2. strategy = "fixed_window" /\ s \in Fresh /\ Counted = DOMAIN log
  BY <1>1, FirstStrategy
<1>3. Running' = Running /\ Born' = Born /\ Count' = Count
  BY ExpireSame
<1> DEFINE q == s \in Fresh /\ 1 <= Limit
<1>4. q \in BOOLEAN /\ (q <=> s \in Fresh /\ 1 <= Limit)
  OBVIOUS
<1> HIDE DEF q
<1>5. \A v : Passes(v)' = Passes(v)
  BY <1>1, <1>4, PassesEnds
<1>6. Running' => Passes(Born)' >= Count' \/ Passes(Born)' >= Limit
  <2>1. ASSUME Running, NEW v, v = Born PROVE Passes(v)' >= Count' \/ Passes(v)' >= Limit
    <3>1. Passes(Born) >= Count \/ Passes(Born) >= Limit
      BY <1>1, <1>2, <2>1 DEF FixedFull
    <3>2. Passes(v)' = Passes(Born)
      BY <1>5, <2>1
    <3> QED BY <1>3, <3>1, <3>2
  <2> QED BY <1>3, <2>1
<1>7. ASSUME AllAlone', Running'
      PROVE  entry'.expires <= clock' + Window /\ \A i \in Passing(Born)' : log'[i].decided + Window >= entry'.expires
  <2>1. local[s].alone
    BY <1>1, <1>7 DEF AllAlone, Ends
  <2>2. entry.kind = "string" /\ entry.count = 1 /\ entry.expires = None /\ entry.born = local[s].window
    BY <1>1, <2>1 DEF OrderInv, AloneHolds, AloneAt
  <2>3. Entry = entry /\ entry \in Keys
    BY <2>2 DEF Entry, OrderInv, LimiterTyped
  <2>4. entry'.expires = clock + Window
    <3>1. entry' = [Entry EXCEPT !.expires = clock + Window]
      BY <2>2, <2>3, ExpireActs
    <3> QED BY <2>3, <3>1 DEF Keys
  <2>5. Born = local[s].window /\ Count = 1
    BY <1>1, <2>2 DEF Born, Count
  <2> DEFINE P == Passing(Born)
             Q == Pending(Born)
  <2>6. Cardinality(P) + Cardinality(Q) <= 1
    BY <1>1, <1>3, <1>7, <2>5 DEF FixedKept, Passes
  <2>7. s \in Q
    BY <1>1, <1>2, <2>5 DEF Pending
  <2>8. IsFiniteSet(P) /\ Cardinality(P) \in Nat /\ IsFiniteSet(Q) /\ Cardinality(Q) \in Nat
    BY PassesFinite
  <2> HIDE DEF P, Q
  <2>9. Cardinality(Q) # 0
    BY <2>7, <2>8, FS_EmptySet
  <2>10. P = {}
    BY <2>6, <2>8, <2>9, FS_EmptySet
  <2>11. Passing(Born)' \subseteq {Len(log) + 1}
    <3>1. Passing(Born)' \subseteq Passing(Born) \cup {Len(log) + 1}
      BY <1>1, <1>3 DEF Passing, Counted, Ends
    <3> QED BY <2>10, <3>1 DEF P
  <2>12. log'[Len(log) + 1].decided = clock
    BY <1>1 DEF Ends
  <2> QED BY <1>1, <2>4, <2>11, <2>12
<1>8. FixedFull'
  BY <1>6, <1>7 DEF FixedFull
<1>9. StoppedForHits'
  BY <1>1, StoppedEnds
<1> QED BY <1>8, <1>9

\* Nothing is lost of what flows in: it is in the bucket, or was spent.
LEMMA Fills ==
  ASSUME NEW S \in Nat, NEW T \in 0..Full, NEW U \in 0..Full, NEW x \in Int, NEW t \in Nat, NEW k \in Nat, NEW c \in Nat,
         t <= k, k <= c, x <= c, NEW p \in {0, 1}, p = 1 <=> T >= Window /\ k > x,
         U = Full \/ U >= Taken(T) + (c - t) * Limit,
         x <= t => S * Window + T >= Full \/ S * Window + T >= (t - x) * Limit
  PROVE  (S + p) * Window + U >= Full \/ (S + p) * Window + U >= (c - x) * Limit
<1> DEFINE u == S * Window
           n == (S + p) * Window
           y == (c - t) * Limit
           m == (c - x) * Limit
           v == (t - x) * Limit
           r == Taken(T)
<1>1. u \in Nat /\ n = u + (IF p = 1 THEN Window ELSE 0) /\ c - t \in Nat /\ y \in Nat
  BY Numbers
<1>2. v \in Int /\ m \in Int /\ m = y + v
  <2>1. t - x \in Int /\ c - x = (c - t) + (t - x)
    OBVIOUS
  <2>2. v \in Int /\ (c - x) * Limit = y + v
    BY <1>1, <2>1, Numbers
  <2> QED BY <1>1, <2>2
<1>3. r \in Nat /\ (T >= Window => r = T - Window) /\ (T < Window => r = T)
  BY Numbers DEF Taken
<1>4. x > t => v <= 0
  <2>1. ASSUME x > t PROVE v <= 0
    <3> DEFINE d == x - t
    <3>1. d \in Nat /\ t - x \in Int /\ d + (t - x) = 0
      BY <2>1
    <3>2. d * Limit \in Nat /\ (d + (t - x)) * Limit = d * Limit + v /\ 0 * Limit = 0
      BY <3>1, Numbers
    <3> HIDE DEF d
    <3>3. d * Limit + v = 0
      BY <3>1, <3>2
    <3> QED BY <1>2, <3>2, <3>3
  <2> QED BY <2>1
<1>5. x = t => v = 0
  BY Numbers
<1>6. U = Full \/ U >= r + y
  OBVIOUS
<1>7. x <= t => u + T >= Full \/ u + T >= v
  OBVIOUS
<1>8. T \in Nat /\ U \in Nat /\ Full \in Nat /\ Window \in Nat
  BY Numbers
<1> HIDE DEF u, n, y, m, v, r
<1>9. n + U >= Full \/ n + U >= m
  <2>1. CASE U = Full
    BY <1>1, <1>8, <2>1
  <2>2. CASE U >= r + y /\ x > t
    BY <1>1, <1>2, <1>3, <1>4, <1>8, <2>2
  <2>3. CASE U >= r + y /\ x <= t /\ p = 1
    BY <1>1, <1>2, <1>3, <1>7, <1>8, <2>3
  <2>4. CASE U >= r + y /\ x <= t /\ T < Window
    BY <1>1, <1>2, <1>3, <1>7, <1>8, <2>4
  <2>5. CASE U >= r + y /\ x <= t /\ T >= Window /\ p = 0
    <3>1. x = t
      BY <2>5
    <3> QED BY <1>1, <1>2, <1>3, <1>5, <1>8, <2>5, <3>1
  <2> QED BY <1>6, <1>8, <2>1, <2>2, <2>3, <2>4, <2>5
<1> QED BY <1>9 DEF n, m

\* An empty bucket was emptied by as many requests as the limit.
LEMMA Enough ==
  ASSUME NEW S \in Nat, NEW T \in Nat, T < Window, S * Window + T >= Full
  PROVE  S >= Limit
<1> SUFFICES ASSUME S < Limit PROVE FALSE
  BY Numbers
<1> DEFINE d == Limit - S - 1
           u == S * Window
           v == d * Window
<1>1. d \in Nat /\ Limit = S + d + 1
  BY Numbers
<1> HIDE DEF d
<1>2. u \in Nat /\ v \in Nat /\ (S + d + 1) * Window = u + v + Window
  BY <1>1, Numbers
<1>3. u + T >= Full
  OBVIOUS
<1> HIDE DEF u, v
<1>4. Full = u + v + Window
  BY <1>1, <1>2 DEF Full
<1> QED BY <1>2, <1>3, <1>4, Numbers

\* Requests that spent a token lately can be counted.
LEMMA SpentFinite ==
  ASSUME OrderInv, NEW x
  PROVE  IsFiniteSet(SpentSince(x)) /\ Cardinality(SpentSince(x)) \in Nat
<1>1. DOMAIN log = 1..Len(log) /\ Len(log) \in Nat
  BY DEF OrderInv, LimiterTyped
<1>2. IsFiniteSet(DOMAIN log) /\ SpentSince(x) \subseteq DOMAIN log
  BY <1>1, FS_Interval DEF SpentSince
<1> QED BY <1>2, FS_Subset, FS_CardinalityType

LEMMA SpentEnds ==
  ASSUME OrderInv, NEW s, NEW n, NEW w, Ends(s, n, w), NEW x
  PROVE  Cardinality(SpentSince(x)') = Cardinality(SpentSince(x)) + (IF n <= Limit /\ clock > x THEN 1 ELSE 0)
<1> DEFINE k == Len(log) + 1
           q == n <= Limit /\ clock > x
           P == SpentSince(x)
<1>1. /\ (~log'[k].over <=> n <= Limit) /\ log'[k].decided = clock /\ k \notin DOMAIN log
      /\ DOMAIN log' = DOMAIN log \cup {k} /\ \A i \in DOMAIN log : log'[i] = log[i]
  BY RateAssumption DEF Ends
<1> HIDE DEF k
<1>2. SpentSince(x)' = (IF q THEN P \cup {k} ELSE P) /\ k \notin P
  BY <1>1 DEF SpentSince
<1>3. IsFiniteSet(P) /\ Cardinality(P) \in Nat
  BY SpentFinite
<1> HIDE DEF P, q
<1>4. Cardinality(P \cup {k}) = Cardinality(P) + 1
  BY <1>2, <1>3, FS_AddElement
<1>5. Cardinality(SpentSince(x)') = Cardinality(P) + (IF q THEN 1 ELSE 0)
  BY <1>2, <1>3, <1>4
<1> QED BY <1>5 DEF P, q

\* The end of a request that is counted by T tokens at t.
LEMMA BucketFills ==
  ASSUME OrderInv, NEW s \in Busy, NEW n, NEW w, Ends(s, n, w), NEW T \in 0..Full, n = TokenCount(T),
         NEW t \in Times, t <= clock, NEW c \in Times, clock <= c, NEW x \in (-Window)..MaxClock, x <= c,
         NEW U \in 0..Full, U = Full \/ U >= Taken(T) + (c - t) * Limit,
         x <= t => LET sum == Cardinality(SpentSince(x)) * Window + T
                   IN  sum >= Full \/ sum >= (t - x) * Limit
  PROVE  LET sum == Cardinality(SpentSince(x)') * Window + U
         IN  sum >= Full \/ sum >= (c - x) * Limit
<1> DEFINE S == Cardinality(SpentSince(x))
           p == IF n <= Limit /\ clock > x THEN 1 ELSE 0
<1>1. Cardinality(SpentSince(x)') = S + p /\ S \in Nat /\ p \in {0, 1}
  <2>1. p \in {0, 1}
    OBVIOUS
  <2>2. Cardinality(SpentSince(x)') = S + p /\ S \in Nat
    BY SpentEnds, SpentFinite
  <2> QED BY <2>1, <2>2
<1>2. t \in Nat /\ clock \in Nat /\ c \in Nat /\ x \in Int
  BY RateAssumption DEF Times, OrderInv, LimiterTyped
<1>3. p = 1 <=> T >= Window /\ clock > x
  BY TokenCounts
<1>4. x <= t => S * Window + T >= Full \/ S * Window + T >= (t - x) * Limit
  OBVIOUS
<1> HIDE DEF S, p
<1>5. (S + p) * Window + U >= Full \/ (S + p) * Window + U >= (c - x) * Limit
  BY <1>1, <1>2, <1>3, <1>4, Fills
<1> QED BY <1>1, <1>5

\* Who finds no token is stopped for the requests that took them.
LEMMA BucketStops ==
  ASSUME OrderInv, BucketFull, faults = 0, AllAlone, switches = 0, strategy = "token_bucket",
         NEW s \in Busy, local[s].how = "token_bucket", NEW t \in Times, local[s].arrived <= t, Latest(t),
         TokensAt(t) < Window
  PROVE  Cardinality(Ahead(s)) >= Limit
<1> DEFINE x == local[s].arrived - Window
           S == Cardinality(SpentSince(x))
           T == TokensAt(t)
           v == (t - x) * Limit
<1>1. t \in Nat /\ local[s].arrived \in Times /\ local[s].arrived \in Nat /\ Window \in Nat
  <2>1. local[s].arrived \in Times
    BY Located DEF InFlight
  <2> QED BY <2>1, RateAssumption DEF Times
<1>2. x \in (-Window)..MaxClock /\ x <= t /\ t - x >= Window /\ t - x \in Nat
  BY <1>1, RateAssumption DEF Times
<1>3. S * Window + T >= Full \/ S * Window + T >= v
  BY <1>2 DEF BucketFull
<1>4. S \in Nat /\ T \in Nat /\ Ahead(s) = SpentSince(x)
  <2>1. S \in Nat /\ T \in Nat
    BY <1>1, SpentFinite, BucketTyped, Numbers
  <2>2. Ahead(s) = SpentSince(x)
    BY DEF Ahead, SpentSince
  <2> QED BY <2>1, <2>2
<1>5. v >= Full /\ v \in Nat
  <2> DEFINE d == t - x - Window
  <2>1. d \in Nat /\ t - x = d + Window
    BY <1>1, <1>2
  <2> HIDE DEF d, x
  <2> DEFINE flow == d * Limit
  <2>2. v = (d + Window) * Limit
    BY <2>1
  <2>3. v = flow + Window * Limit /\ flow \in Nat
    BY <1>1, <2>1, <2>2, Numbers
  <2> HIDE DEF flow, v
  <2>4. Window * Limit = Full /\ Full \in Nat
    BY Numbers
  <2>5. v = flow + Full
    BY <2>3, <2>4
  <2> QED BY <2>3, <2>4, <2>5
<1> HIDE DEF x, S, T, v
<1>6. S * Window + T >= Full
  <2> DEFINE u == S * Window
  <2>1. u \in Nat /\ (u + T >= Full \/ u + T >= v)
    BY <1>3, <1>4, Numbers
  <2> HIDE DEF u
  <2>2. u + T >= Full
    BY <1>4, <1>5, <2>1, Numbers
  <2> QED BY <2>2 DEF u
<1>7. T < Window
  BY DEF T
<1>8. S >= Limit
  BY <1>4, <1>6, <1>7, Enough
<1> QED BY <1>4, <1>8 DEF S

\* A bucket that is empty was spent: in memory, and in Redis while requests do not overlap.
LEMMA BucketMemoryFull ==
  ASSUME OrderInv, OrderInv', BucketFull, StoppedForHits, NEW s \in Servers, CountLocked(s),
         local[s].how = "token_bucket", switches = 0, faults' = 0
  PROVE  BucketFull' /\ StoppedForHits'
<1> DEFINE T == TokensAt(clock)
           n == TokenCount(T)
<1>1. /\ s \in Busy /\ store = "memory" /\ UNCHANGED <<store, strategy, clock, faults, switches>>
      /\ T \in 0..Full /\ counter'.tokens = Taken(T) /\ counter'.refill = clock /\ Ends(s, n, 0)
      /\ Taken(T) \in 0..Full
  <2>1. /\ s \in Busy /\ store = "memory" /\ UNCHANGED <<store, strategy, clock, faults, switches>>
        /\ T \in 0..Full /\ counter'.tokens = Taken(T) /\ counter'.refill = clock /\ Ends(s, n, 0)
    BY CountLockedActs
  <2> HIDE DEF T
  <2>2. Taken(T) \in 0..Full
    BY <2>1, Numbers DEF Taken
  <2> QED BY <2>1, <2>2
<1>2. faults = 0 /\ AllAlone /\ clock \in Times /\ clock \in Nat /\ Latest(clock) /\ clock <= clock /\ strategy = "token_bucket"
  <2>1. strategy = "token_bucket"
    BY <1>1, FirstStrategy
  <2> QED BY <1>1, <2>1, RateAssumption DEF AllAlone, OrderInv, LimiterTyped, Times, PastRequests, Latest
<1>3. local[s].arrived <= clock
  BY <1>1, <1>2, Located, RateAssumption DEF InFlight, Times
<1>4. ASSUME NEW c \in Times, NEW x \in (-Window)..MaxClock, x <= c, Latest(c)'
      PROVE  LET sum == Cardinality(SpentSince(x)') * Window + TokensAt(c)'
             IN  sum >= Full \/ sum >= (c - x) * Limit
  <2>1. clock <= c /\ c \in Nat
    BY <1>1, <1>4, RateAssumption DEF Latest, Ends, Times
  <2>2. TokensAt(c)' = Refilled(Taken(T), clock, c)
    BY <1>1, <1>2, RateAssumption DEF TokensAt
  <2> DEFINE U == TokensAt(c)'
  <2>3. U \in 0..Full /\ (U = Full \/ U >= Taken(T) + (c - clock) * Limit)
    BY <1>1, <1>2, <2>1, <2>2, Flows
  <2>4. x <= clock => LET sum == Cardinality(SpentSince(x)) * Window + T
                      IN  sum >= Full \/ sum >= (clock - x) * Limit
    BY <1>1, <1>2 DEF BucketFull
  <2> HIDE DEF U, T
  <2>5. LET sum == Cardinality(SpentSince(x)') * Window + U
        IN  sum >= Full \/ sum >= (c - x) * Limit
    BY <1>1, <1>2, <1>4, <2>1, <2>3, <2>4, BucketFills
  <2> QED BY <2>5 DEF U
<1>5. BucketFull'
  BY <1>4 DEF BucketFull, Times
<1>6. n > Limit => T < Window
  <2> HIDE DEF T
  <2> QED BY <1>1, TokenCounts, Numbers
<1>7. n > Limit => Cardinality(Ahead(s)) >= Limit
  BY <1>1, <1>2, <1>3, <1>6, BucketStops
<1>8. StoppedForHits'
  BY <1>1, <1>7, StoppedEnds
<1> QED BY <1>5, <1>8

LEMMA BucketRedisFull ==
  ASSUME OrderInv, OrderInv', BucketFull, StoppedForHits, NEW s \in Servers, ExecBucket(s), s \notin broken,
         switches = 0, faults' = 0, AllAlone'
  PROVE  BucketFull' /\ StoppedForHits'
<1> DEFINE F == Flowed(s)
           t == local[s].now
           n == TokenCount(F)
<1>1. /\ s \in Busy /\ store = "redis" /\ local[s].how = "token_bucket" /\ pc[s] = "exec"
      /\ UNCHANGED <<store, strategy, clock, faults, switches>>
      /\ entry' = Spent(s) /\ Ends(s, n, 0)
  BY ExecBucketActs
<1>2. /\ F \in 0..Full /\ entry'.tokens = Taken(F) /\ entry'.refill = t /\ entry'.expires = clock + 2 * Window
      /\ entry'.kind = "hash"
  BY <1>1, SpentFields
<1>3. /\ LimiterTyped /\ clock \in Times /\ clock \in Nat /\ t \in Times /\ t \in Nat /\ t <= clock
      /\ local[s].arrived <= t /\ local[s].arrived \in Nat /\ local[s].refill \in Nat /\ local[s].tokens \in 0..Full
  <2>1. /\ local[s] \in InFlight /\ local[s].arrived <= t /\ t <= clock /\ LimiterTyped /\ clock \in Times
    BY <1>1, Located DEF OrderInv, LimiterTyped
  <2>2. t \in Times /\ local[s].arrived \in Times /\ local[s].tokens \in 0..Full /\ local[s].refill \in Times
    BY <2>1 DEF InFlight
  <2>3. Times \subseteq Nat
    BY RateAssumption DEF Times
  <2> QED BY <2>1, <2>2, <2>3
<1>4. faults = 0 /\ AllAlone /\ local[s].alone /\ strategy = "token_bucket"
  <2>1. strategy = "token_bucket"
    BY <1>1, FirstStrategy
  <2> QED BY <1>1, <2>1 DEF AllAlone, Ends
<1>5. AloneAt(s) /\ \A i \in DOMAIN log : log[i].decided <= local[s].arrived
  BY <1>1, <1>4 DEF OrderInv, AloneHolds
<1>6. Latest(t)
  <2>1. \A i \in DOMAIN log : log[i].decided \in Nat
    <3>1. \A i \in DOMAIN log : log[i] \in Logged
      BY <1>3 DEF LimiterTyped
    <3> QED BY <3>1, RateAssumption DEF Logged, Times
  <2> QED BY <1>3, <1>5, <2>1 DEF Latest
<1>7. F = TokensAt(t) \/ F = Full
  <2>1. CASE entry.kind = "hash" /\ entry.expires > t /\ local[s].tokens = entry.tokens /\ local[s].refill = entry.refill
    <3>1. entry.expires # None => entry.expires \in Nat
      BY <1>3, EntryType
    <3>2. entry.expires # None
      BY <2>1 DEF OrderInv, PastKeys, Keyed
    <3>3. ~(entry.expires <= t)
      BY <1>3, <2>1, <3>1, <3>2
    <3>4. F = TokensAt(t)
      BY <1>1, <2>1, <3>3 DEF TokensAt, Flowed
    <3> QED BY <3>4
  <2>2. CASE local[s].tokens = Full /\ local[s].refill = t
    <3>1. F = Full
      BY <1>3, <2>2 DEF Flowed, Refilled
    <3> QED BY <3>1
  <2> QED BY <1>1, <1>5, <2>1, <2>2 DEF AloneAt
<1>8. Taken(F) \in 0..Full /\ (n > Limit => F < Window)
  <2> HIDE DEF F
  <2>1. n > Limit => F < Window
    BY <1>2, TokenCounts, Numbers
  <2>2. Taken(F) \in 0..Full
    BY <1>2, Numbers DEF Taken
  <2> QED BY <2>1, <2>2
<1>9. ASSUME NEW c \in Times, NEW x \in (-Window)..MaxClock, x <= c, Latest(c)'
      PROVE  LET sum == Cardinality(SpentSince(x)') * Window + TokensAt(c)'
             IN  sum >= Full \/ sum >= (c - x) * Limit
  <2> DEFINE U == TokensAt(c)'
  <2>1. clock <= c /\ c \in Nat /\ t <= c
    <3>1. clock <= c /\ c \in Nat
      BY <1>1, <1>9, RateAssumption DEF Latest, Ends, Times
    <3> QED BY <1>3, <3>1
  <2>2. U = Full \/ U = Refilled(Taken(F), t, c)
    BY <1>1, <1>2 DEF TokensAt
  <2>3. U \in 0..Full /\ (U = Full \/ U >= Taken(F) + (c - t) * Limit)
    <3> DEFINE k == Taken(F)
               r == Refilled(k, t, c)
               v == (c - t) * Limit
    <3>1. k \in 0..Full /\ r \in 0..Full /\ (r = Full \/ r >= k + v) /\ Full \in 0..Full
      <4>1. k \in 0..Full /\ Full \in 0..Full
        BY <1>8, Numbers
      <4>2. t \in Nat /\ c \in Nat /\ t <= c
        BY <1>3, <2>1
      <4> HIDE DEF k, t
      <4> QED BY <4>1, <4>2, Flows
    <3>2. U = Full \/ U = r
      BY <2>2
    <3> HIDE DEF k, r, v, U
    <3>3. U \in 0..Full /\ (U = Full \/ U >= k + v)
      BY <3>1, <3>2
    <3> QED BY <3>3 DEF k, v
  <2>4. x <= t => LET sum == Cardinality(SpentSince(x)) * Window + F
                  IN  sum >= Full \/ sum >= (t - x) * Limit
    <3>1. CASE F = TokensAt(t)
      BY <1>1, <1>3, <1>4, <1>6, <3>1 DEF BucketFull
    <3>2. CASE F = Full
      <4> DEFINE m == Cardinality(SpentSince(x)) * Window
      <4>1. m \in Nat /\ Full \in Nat
        BY SpentFinite, Numbers
      <4> HIDE DEF m, F
      <4>2. m + F >= Full
        BY <3>2, <4>1
      <4> QED BY <4>2 DEF m
    <3> QED BY <1>7, <3>1, <3>2
  <2> HIDE DEF U, F, t
  <2>5. LET sum == Cardinality(SpentSince(x)') * Window + U
        IN  sum >= Full \/ sum >= (c - x) * Limit
    BY <1>1, <1>2, <1>3, <1>9, <2>1, <2>3, <2>4, BucketFills
  <2> QED BY <2>5 DEF U
<1>10. BucketFull'
  BY <1>9 DEF BucketFull, Times
<1>11. n > Limit => Cardinality(Ahead(s)) >= Limit
  <2> SUFFICES ASSUME n > Limit PROVE Cardinality(Ahead(s)) >= Limit
    OBVIOUS
  <2>1. F # Full
    BY <1>8, Numbers
  <2>2. TokensAt(t) < Window
    BY <1>7, <1>8, <2>1
  <2> QED BY <1>1, <1>3, <1>4, <1>6, <2>2, BucketStops
<1>12. StoppedForHits'
  BY <1>1, <1>11, StoppedEnds
<1> QED BY <1>10, <1>12

\* A step that answers nobody keeps the windows and buckets used up.
LEMMA FullQuiet ==
  ASSUME FixedFull, BucketFull, UNCHANGED <<store, strategy, entry, counter, switches, log>>, faults' = faults,
         \A v : Pending(v)' = Pending(v), clock \in Nat, clock' \in {clock, clock + 1}, Window \in Nat,
         entry.expires # None => entry.expires \in Nat
  PROVE  FixedFull' /\ BucketFull'
<1>1. Counted' = Counted /\ AllAlone' = AllAlone /\ Times' = Times /\ Running' = Running /\ Born' = Born /\ Count' = Count
  BY DEF Counted, AllAlone, Times, Running, Born, Count
<1>2. \A v : Passing(v)' = Passing(v)
  BY <1>1 DEF Passing
<1>3. \A v : Passes(v)' = Passes(v)
  BY <1>2 DEF Passes
<1>4. Passes(Born)' = Passes(Born) /\ Passing(Born)' = Passing(Born)
  BY <1>1, <1>2, <1>3
<1>5. \A x : SpentSince(x)' = SpentSince(x)
  BY DEF SpentSince
<1>6. \A c : TokensAt(c)' = TokensAt(c) /\ Latest(c)' = Latest(c)
  BY DEF TokensAt, Latest
<1>7. entry.expires # None /\ entry.expires <= clock + Window => entry'.expires <= clock' + Window
  OBVIOUS
<1>8. FixedFull'
  BY <1>1, <1>4, <1>7 DEF FixedFull
<1>9. BucketFull'
  BY <1>1, <1>5, <1>6 DEF BucketFull
<1> QED BY <1>8, <1>9

\* Where a strategy was changed, or a command failed, nothing is said.
LEMMA FullFaulty ==
  ASSUME switches' # 0 \/ faults' # 0
  PROVE  FixedFull' /\ BucketFull' /\ StoppedForHits'
  BY DEF FixedFull, BucketFull, StoppedForHits

LEMMA FullOther ==
  /\ strategy' # "fixed_window" => FixedFull'
  /\ strategy' # "token_bucket" => BucketFull'
  /\ ~AllAlone' => BucketFull' /\ StoppedForHits'
  BY DEF FixedFull, BucketFull, StoppedForHits, AllAlone

\* A request that goes on, and has counted nothing.
LEMMA GoesQuiet ==
  ASSUME OrderInv, BucketFull, StoppedForHits, NEW s, NEW place, NEW rec, Goes(s, place, rec),
         UNCHANGED <<store, strategy, entry, counter, clock, switches, faults>>
  PROVE  BucketFull' /\ StoppedForHits'
<1>1. log' = log /\ AllAlone' = AllAlone /\ Times' = Times
  BY DEF Goes, AllAlone, Times
<1>2. \A x : SpentSince(x)' = SpentSince(x)
  BY <1>1 DEF SpentSince
<1>3. \A c : TokensAt(c)' = TokensAt(c) /\ Latest(c)' = Latest(c)
  BY <1>1 DEF TokensAt, Latest
<1>4. BucketFull'
  BY <1>1, <1>2, <1>3 DEF BucketFull
<1> QED BY <1>1, <1>4, HoldsQuiet

\* Every step keeps the windows and buckets used up, and stops nobody too early.
LEMMA FullStep ==
  ASSUME OrderInv, OrderInv', FixedKept, FixedFull, BucketFull, StoppedForHits, [LimiterNext]_limiterVars
  PROVE  FixedFull' /\ BucketFull' /\ StoppedForHits'
<1>1. /\ LimiterTyped /\ clock \in Nat /\ Window \in Nat /\ (entry.expires # None => entry.expires \in Nat)
      /\ clock <= clock + 1 /\ faults \in Nat /\ switches \in Nat
  BY RateAssumption, EntryType DEF OrderInv, LimiterTyped, Times
<1>2. CASE UNCHANGED limiterVars
  <2>1. UNCHANGED <<store, strategy, entry, counter, clock, pc, local, faults, switches, log>>
    BY <1>2 DEF limiterVars
  <2>2. \A v : Pending(v)' = Pending(v)
    BY <2>1 DEF Pending, Fresh, Busy
  <2> QED BY <1>1, <2>1, <2>2, FullQuiet, HoldsQuiet
<1>3. ASSUME NEW s \in Servers, Arrive(s) PROVE FixedFull' /\ BucketFull' /\ StoppedForHits'
  <2>1. UNCHANGED <<store, strategy, entry, counter, clock, faults, switches, log>>
    BY <1>3 DEF Arrive
  <2>2. \A v : Pending(v)' = Pending(v)
    BY <1>3, ArrivePending
  <2> QED BY <1>1, <2>1, <2>2, FullQuiet, HoldsQuiet
<1>4. ASSUME NEW how \in Strategies, Switch(how) PROVE FixedFull' /\ BucketFull' /\ StoppedForHits'
  <2>1. switches' # 0
    BY <1>1, <1>4 DEF Switch
  <2> QED BY <2>1, FullFaulty
<1>5. CASE Tick
  <2>1. /\ UNCHANGED <<store, strategy, entry, counter, pc, faults, switches, log>> /\ clock' = clock + 1
        /\ Fresh' = Fresh /\ Fresh \subseteq Servers
    BY <1>5, TickActs DEF Fresh, Busy
  <2>2. \A v : Pending(v)' = Pending(v)
    <3>1. \A t \in Fresh : local'[t].window = local[t].window
      BY <1>5, <2>1, TickActs
    <3> QED BY <2>1, <3>1 DEF Pending
  <2> QED BY <1>1, <1>5, <2>1, <2>2, FullQuiet, TickHolds
<1>6. ASSUME NEW s \in Servers, Acts(s) PROVE FixedFull' /\ BucketFull' /\ StoppedForHits'
  <2>1. /\ s \in Busy /\ UNCHANGED <<store, strategy, clock, switches>> /\ (faults' = 0 => faults' = faults)
        /\ (faults' = 0 => faults = 0)
    <3>1. s \in Busy /\ UNCHANGED <<store, strategy, clock, switches>> /\ faults' \in {faults, faults + 1}
      BY <1>6, ServerActs
    <3> QED BY <1>1, <3>1
  <2>2. CASE switches # 0 \/ faults' # 0
    BY <2>1, <2>2, FullFaulty
  <2>3. CASE switches = 0 /\ faults' = 0
    <3>1. strategy' = local[s].how /\ ~WrongType(local[s].how) /\ local[s].how \in Kinds
      BY <2>1, <2>3, FirstStrategy, Located DEF InFlight
    <3>2. CASE local[s].how = "fixed_window"
      <4>1. BucketFull'
        BY <3>1, <3>2, FullOther
      <4>2. CountLocked(s) => FixedFull' /\ StoppedForHits'
        BY <2>3, <3>2, FixedMemoryFull
      <4>3. Incr(s) => FixedFull' /\ StoppedForHits'
        BY <2>3, FixedIncrFull
      <4>4. Expire(s) => FixedFull' /\ StoppedForHits'
        BY <2>3, FixedExpireFull
      <4>5. CountLocked(s) \/ Incr(s) \/ Expire(s)
        <5>1. Unreachable(s) => faults' # 0
          BY <1>1 DEF Unreachable
        <5> QED BY <1>6, <2>3, <3>2, <5>1, EvictActs, AddActs, CountHitsActs, RenewActs, ReadBucketActs, DeleteActs,
                   ExecBucketActs DEF Acts
      <4> QED BY <4>1, <4>2, <4>3, <4>4, <4>5
    <3>3. CASE local[s].how = "sliding_window"
      <4>1. FixedFull' /\ BucketFull'
        BY <3>1, <3>3, FullOther
      <4>2. CountLocked(s) \/ Evict(s) \/ Add(s) \/ CountHits(s) \/ Renew(s)
        <5>1. Unreachable(s) => faults' # 0
          BY <1>1 DEF Unreachable
        <5> QED BY <1>6, <2>3, <3>3, <5>1, IncrActs, ExpireActs, ReadBucketActs, DeleteActs, ExecBucketActs DEF Acts
      <4>3. StoppedForHits'
        BY <3>3, <4>2, SlidingStopped
      <4> QED BY <4>1, <4>3
    <3>4. CASE local[s].how = "token_bucket"
      <4>1. FixedFull'
        BY <3>1, <3>4, FullOther
      <4>2. CASE CountLocked(s)
        BY <2>3, <3>4, <4>1, <4>2, BucketMemoryFull
      <4>3. CASE ReadBucket(s)
        <5>1. \E place, rec : Goes(s, place, rec) /\ place # "idle" /\ entry' = entry /\ counter' = counter
          BY <3>1, <3>4, <4>3, ReadBucketActs
        <5> QED BY <1>1, <2>1, <2>3, <4>1, <5>1, GoesQuiet
      <4>4. CASE ExecBucket(s)
        <5>1. store = "redis" /\ UNCHANGED <<store, strategy, counter, clock, faults, switches>> /\ pc[s] = "exec"
          BY <4>4, ExecBucketActs
        <5>2. CASE ~AllAlone'
          BY <4>1, <5>2, FullOther
        <5>3. CASE AllAlone' /\ s \notin broken
          BY <2>3, <4>1, <4>4, <5>3, BucketRedisFull
        <5>4. CASE AllAlone' /\ s \in broken
          <6>1. entry' = entry /\ Again(s)
            BY <4>4, <5>4, ExecBucketActs
          <6>2. ASSUME Ends(s, 1, 0) PROVE FALSE
            <7>1. local[s].alone
              BY <5>1, <5>4, <6>2 DEF AllAlone, Ends
            <7> QED BY <2>1, <5>1, <5>4, <7>1 DEF OrderInv, AloneHolds, AloneAt
          <6>3. \E place, rec : Goes(s, place, rec) /\ place # "idle" /\ entry' = entry /\ counter' = counter
            BY <2>1, <5>1, <6>1, <6>2, AgainCases
          <6> QED BY <1>1, <2>1, <2>3, <4>1, <6>3, GoesQuiet
        <5> QED BY <5>2, <5>3, <5>4
      <4>5. CountLocked(s) \/ ReadBucket(s) \/ ExecBucket(s)
        <5>1. Unreachable(s) => faults' # 0
          BY <1>1 DEF Unreachable
        <5>2. ~Delete(s)
          BY <2>1, <2>3, FirstStrategy, DeleteActs DEF OrderInv, StrategySettled, Pure
        <5> QED BY <1>6, <2>3, <3>4, <5>1, <5>2, IncrActs, ExpireActs, EvictActs, AddActs, CountHitsActs, RenewActs DEF Acts
      <4> QED BY <4>2, <4>3, <4>4, <4>5
    <3> QED BY <3>1, <3>2, <3>3, <3>4 DEF Kinds
  <2> QED BY <2>1, <2>2, <2>3
<1> QED BY <1>2, <1>3, <1>4, <1>5, <1>6, NextCases

----------------------------------------------------------------------------
(* The theorems.                                                            *)

\* Nothing is counted at the start.
LEMMA LimiterStarts == LimiterInit => LimiterInv
<1> SUFFICES ASSUME LimiterInit PROVE LimiterInv
  OBVIOUS
<1>1. OrderInv /\ LimiterTyped
  BY OrderInit DEF OrderInv
<1>2. /\ entry = Absent /\ counter = NoCounter /\ log = <<>> /\ DOMAIN log = {} /\ Busy = {}
      /\ Counted = {} /\ Fresh = {}
  BY DEF LimiterInit, Counted, Fresh, Busy
<1>3. ~Running /\ \A w : Passing(w) = {} /\ Pending(w) = {} /\ \A a : ~Passed(w, a)
  BY <1>2 DEF Running, Absent, NoCounter, Passing, Pending, Passed
<1>4. \A w : Passes(w) = 0
  BY <1>1, <1>3, PassesFinite
<1>5. FixedKept /\ FixedFull
  BY <1>3, <1>4, RateAssumption DEF FixedKept, FixedFull
<1>6. \A c : TokensAt(c) = Full
  BY <1>2 DEF TokensAt, Absent, NoCounter
<1>7. BucketKept
  <2> SUFFICES ASSUME NEW a \in Times, NEW c \in Times, a <= c
               PROVE  Cardinality(Spenders(a)) * Window + TokensAt(c) <= Full + (c - a) * Limit
    BY <1>2 DEF BucketKept
  <2>1. Spenders(a) = {}
    BY <1>2 DEF Spenders
  <2>2. Cardinality(Spenders(a)) * Window = 0 /\ c - a \in Nat
    BY <2>1, FS_EmptySet, RateAssumption DEF Times
  <2>3. (c - a) * Limit \in Nat
    BY <2>2, Numbers
  <2> QED BY <1>6, <2>2, <2>3, Numbers
<1>8. BucketFull
  <2> SUFFICES ASSUME NEW c \in Times, NEW x PROVE Cardinality(SpentSince(x)) * Window + TokensAt(c) >= Full
    BY DEF BucketFull
  <2>1. SpentSince(x) = {}
    BY <1>2 DEF SpentSince
  <2>2. Cardinality(SpentSince(x)) * Window = 0
    BY <2>1, FS_EmptySet, RateAssumption
  <2> QED BY <1>6, <2>2, Numbers
<1>9. SlidingKept
  BY <1>2 DEF SlidingKept
<1>10. \A how, a, b : Within(how, a, b) = {}
  BY <1>2 DEF Within
<1>11. SlidingWindowHolds
  BY <1>10, FS_EmptySet, RateAssumption DEF SlidingWindowHolds
<1>14. SlidingLimited
  <2>1. \A a \in Times : Allowed(a) = {}
    BY <1>2 DEF Allowed
  <2> QED BY <2>1, FS_EmptySet, RateAssumption DEF SlidingLimited
<1>12. TokenBucketHolds
  <2> SUFFICES ASSUME NEW span \in Spans
               PROVE  Cardinality(Within("token_bucket", span[1], span[2])) * Window <= Full + (span[2] - span[1]) * Limit
    BY DEF TokenBucketHolds
  <2>1. span[2] - span[1] \in Nat
    BY RateAssumption DEF Spans, Times
  <2>2. (span[2] - span[1]) * Limit \in Nat /\ 0 * Window = 0
    BY <2>1, Numbers
  <2> QED BY <1>10, <2>2, FS_EmptySet, Numbers
<1>13. StoppedForHits
  BY <1>2 DEF StoppedForHits
<1> QED BY <1>1, <1>5, <1>7, <1>8, <1>9, <1>11, <1>12, <1>13, <1>14 DEF LimiterInv

\* The invariant of the three strategies is kept by every step.
LEMMA LimiterSteps == LimiterInv /\ [LimiterNext]_limiterVars => LimiterInv'
<1> SUFFICES ASSUME LimiterInv, [LimiterNext]_limiterVars PROVE LimiterInv'
  OBVIOUS
<1>1. OrderInv'
  BY OrderStep DEF LimiterInv
<1>2. SlidingKept' /\ SlidingLimited' /\ SlidingWindowHolds'
  BY <1>1, SlidingStep DEF LimiterInv
<1>3. FixedKept'
  BY <1>1, FixedStep DEF LimiterInv
<1>4. BucketKept' /\ TokenBucketHolds'
  BY <1>1, BucketStep DEF LimiterInv
<1>5. FixedFull' /\ BucketFull' /\ StoppedForHits'
  BY <1>1, FullStep DEF LimiterInv
<1> QED BY <1>1, <1>2, <1>3, <1>4, <1>5 DEF LimiterInv

\* Keys, counters and requests have their types and keep to the bounds: what a
\* key counts is never more than the requests answered and on their way.
THEOREM LimiterTypes == LimiterSpec => []LimiterTypeOK
<1>1. LimiterSpec => []OrderInv
  BY OrderInit, OrderStep, PTL DEF LimiterSpec
<1> QED BY <1>1, OrderTypes, PTL

\* Neither do more requests pass than a strategy allows, nor is anybody stopped
\* before the limit is used up (IncrementRate of both stores), whatever the
\* limit, the window and the number of servers.
THEOREM LimitsKept == LimiterSpec => []LimitsHold
<1>1. LimiterSpec => []LimiterInv
  BY LimiterStarts, LimiterSteps, PTL DEF LimiterSpec
<1>2. LimiterInv => LimitsHold
  BY FixedHolds DEF LimiterInv, LimitsHold
<1> QED BY <1>1, <1>2, PTL
=============================================================================
