--------------------------- MODULE GatewayFlow_proofs ---------------------------
(***************************************************************************)
(* Proofs about GatewayFlow and FrontDoor, for every number of requests and *)
(* tickets, every set of proxies, every configuration and every threshold   *)
(* and cooldown of the breakers.                                            *)
(*                                                                         *)
(* At the end, the two other components of the gateway process, which share *)
(* no state with the flow: the batcher that takes its events (EventBatcher: *)
(* none is lost or repeated) and the way of an announced change into the    *)
(* gateways' caches (ConfigSync), for any sizes and numbers.                *)
(***************************************************************************)
EXTENDS GatewayFlow, EventBatcher, ConfigSync, SequenceTheorems, TLAPS

-----------------------------------------------------------------------------
(* Remainders.                                                                *)

LEMMA DivMod ==
  ASSUME NEW t \in Nat \ {0}, NEW x \in Nat
  PROVE  x = t * (x \div t) + (x % t) /\ x \div t \in Nat /\ x % t \in Nat /\ x % t < t
  OBVIOUS

LEMMA ModSmall ==
  ASSUME NEW t \in Nat \ {0}, NEW x \in Nat, x < t
  PROVE  x % t = x
  OBVIOUS

LEMMA ModBelow ==
  ASSUME NEW t \in Nat \ {0}, NEW x \in Nat
  PROVE  x % t <= x
  OBVIOUS

\* No multiple of t but 0 is that small.
LEMMA SmallMultiple ==
  ASSUME NEW t \in Nat \ {0}, NEW d \in Int, t * d < t, -t < t * d
  PROVE  d = 0
<1>1. CASE d >= 1
  <2>1. t * d = t + t * (d - 1)
    OBVIOUS
  <2>2. t * (d - 1) >= 0
    BY <1>1
  <2> QED BY <2>1, <2>2
<1>2. CASE d <= -1
  <2>1. t * d = t * (d + 1) - t
    OBVIOUS
  <2>2. t * (d + 1) <= 0
    BY <1>2
  <2> QED BY <2>1, <2>2
<1> QED BY <1>1, <1>2

\* Counting on modulo t.
LEMMA ModStep ==
  ASSUME NEW t \in Nat \ {0}, NEW x \in Nat
  PROVE  (x + 1) % t = IF (x % t) + 1 < t THEN (x % t) + 1 ELSE 0
<1> DEFINE q == x \div t  r == x % t  p == (x + 1) \div t  s == (x + 1) % t
<1>1. x = t * q + r /\ q \in Nat /\ r \in Nat /\ r < t
  BY DivMod
<1>2. x + 1 = t * p + s /\ p \in Nat /\ s \in Nat /\ s < t
  BY DivMod
<1> HIDE DEF q, r, p, s
<1>3. t * (p - q) = r + 1 - s
  BY <1>1, <1>2
<1>4. CASE r + 1 < t
  <2>1. p - q = 0
    BY <1>1, <1>2, <1>3, <1>4, SmallMultiple
  <2>2. s = r + 1
    BY <1>1, <1>2, <1>3, <2>1
  <2> QED BY <1>4, <2>2 DEF r, s
<1>5. CASE r + 1 = t
  <2>1. t * (p - q - 1) = -s
    BY <1>1, <1>2, <1>3, <1>5
  <2>2. p - q - 1 = 0
    BY <1>1, <1>2, <2>1, SmallMultiple
  <2>3. s = 0
    BY <1>2, <2>1, <2>2
  <2> QED BY <1>5, <2>3 DEF r, s
<1> QED BY <1>1, <1>4, <1>5 DEF r

-----------------------------------------------------------------------------
(* The circuit breakers.                                                      *)

\* Types of what the breakers are made of, and what they count.
Breakers ==
  /\ setup \in Setups
  /\ clock \in 1..MaxClock
  /\ breaker \in [Services -> [failures : Nat, openUntil : 0..(MaxClock + Cooldown)]]
  /\ streak \in [Services -> Nat]
  /\ opened \in [Services -> Nat]
  /\ \A s \in Services : setup.threshold > 0 => breaker[s].failures < setup.threshold
  /\ BreakerCounts

\* What a step does to the breakers.
BreakerStep ==
  /\ UNCHANGED setup
  /\ \/ UNCHANGED <<breaker, streak, opened, clock>>
     \/ UNCHANGED clock /\ \E s \in Services : RecordSuccess(s) \/ RecordFailure(s)
     \/ Tick

LEMMA BreakerSteps == [Next]_vars => BreakerStep
<1>0. \A r : Service(r) \in Services
  BY DEF Service, Services
<1>1. ASSUME NEW r \in Requests, Handle(r) PROVE BreakerStep
  BY <1>0, <1>1 DEF Handle, DecideHard, ChooseScene, DecideLocally, Call, SkipCall, CallFails, CallReturns,
                    breakers, BreakerStep
<1>2. ASSUME NEW r \in Requests, NEW raw \in Arrivals[r], Arrive(r, raw) PROVE BreakerStep
  BY <1>2 DEF Arrive, breakers, BreakerStep
<1>3. ASSUME NEW r \in Requests, Exempt(r) \/ Platform(r) PROVE BreakerStep
  BY <1>3 DEF Exempt, Platform, breakers, BreakerStep
<1>4. CASE Administer \/ \E s \in Snapshots : Update(s)
  BY <1>4 DEF Administer, Update, breakers, BreakerStep
<1>5. CASE Tick
  BY <1>5 DEF Tick, BreakerStep
<1>6. CASE UNCHANGED vars
  BY <1>6 DEF vars, BreakerStep
<1> QED BY <1>1, <1>2, <1>3, <1>4, <1>5, <1>6 DEF Next

LEMMA ThresholdType == Breakers => setup.threshold \in Nat /\ Cooldown \in Nat \ {0} /\ MaxClock \in Nat \ {0}
  BY GatewayAssumption DEF Breakers

\* One more failure of a service: the count goes on modulo the threshold, and at
\* a multiple of it the breaker opens.
LEMMA FailureKeepsBreakers ==
  ASSUME Breakers, NEW s \in Services, RecordFailure(s), UNCHANGED <<setup, clock>>
  PROVE  Breakers'
<1> DEFINE t == setup.threshold
           f == breaker[s].failures
           o == breaker[s].openUntil
<1>1. t \in Nat /\ Cooldown \in Nat \ {0} /\ MaxClock \in Nat \ {0} /\ clock \in 1..MaxClock
  BY ThresholdType DEF Breakers
<1>2. breaker[s] = [failures |-> f, openUntil |-> o] /\ f \in Nat /\ o \in 0..(MaxClock + Cooldown)
  BY DEF Breakers
<1>3. /\ breaker' = [breaker EXCEPT ![s] = Failed(breaker[s])]
      /\ streak' = [streak EXCEPT ![s] = IF t > 0 THEN streak[s] + 1 ELSE streak[s]]
      /\ opened' = [opened EXCEPT ![s] = IF t > 0 /\ f + 1 >= t THEN clock ELSE opened[s]]
  BY DEF RecordFailure
<1>4. Failed(breaker[s]) = IF t > 0 /\ f + 1 >= t THEN [failures |-> 0, openUntil |-> clock + Cooldown]
                           ELSE [failures |-> IF t > 0 THEN f + 1 ELSE f, openUntil |-> o]
  BY <1>2 DEF Failed
<1>5. /\ breaker'[s] = Failed(breaker[s])
      /\ streak'[s] = IF t > 0 THEN streak[s] + 1 ELSE streak[s]
      /\ opened'[s] = IF t > 0 /\ f + 1 >= t THEN clock ELSE opened[s]
      /\ \A u \in Services \ {s} :
           breaker'[u] = breaker[u] /\ streak'[u] = streak[u] /\ opened'[u] = opened[u]
  BY <1>3 DEF Breakers
<1>6. streak[s] \in Nat /\ opened[s] \in Nat
  BY DEF Breakers
<1>7. t > 0 => /\ f = streak[s] % t /\ f < t
               /\ o = IF streak[s] < t THEN 0 ELSE opened[s] + Cooldown
  BY DEF Breakers, BreakerCounts
<1> HIDE DEF t, f, o
<1>8. /\ Failed(breaker[s]) \in [failures : Nat, openUntil : 0..(MaxClock + Cooldown)]
      /\ t > 0 => Failed(breaker[s]).failures < t
  <2>1. CASE t > 0 /\ f + 1 >= t
    <3>1. clock + Cooldown \in 0..(MaxClock + Cooldown)
      BY <1>1
    <3> QED BY <1>4, <2>1, <3>1
  <2>2. CASE t > 0 /\ f + 1 < t
    BY <1>1, <1>2, <1>4, <2>2
  <2>3. CASE t = 0
    BY <1>1, <1>2, <1>4, <2>3
  <2> QED BY <1>1, <1>2, <2>1, <2>2, <2>3
<1>9. /\ breaker' \in [Services -> [failures : Nat, openUntil : 0..(MaxClock + Cooldown)]]
      /\ streak' \in [Services -> Nat]
      /\ opened' \in [Services -> Nat]
  <2>1. breaker' \in [Services -> [failures : Nat, openUntil : 0..(MaxClock + Cooldown)]]
    BY <1>3, <1>8 DEF Breakers
  <2>2. (IF t > 0 THEN streak[s] + 1 ELSE streak[s]) \in Nat
    BY <1>1, <1>6
  <2>3. (IF t > 0 /\ f + 1 >= t THEN clock ELSE opened[s]) \in Nat
    BY <1>1, <1>6
  <2> QED BY <1>3, <2>1, <2>2, <2>3 DEF Breakers
<1>10. t > 0 => /\ breaker'[s].failures = streak'[s] % t
                /\ breaker'[s].openUntil = IF streak'[s] < t THEN 0 ELSE opened'[s] + Cooldown
  <2> SUFFICES ASSUME t > 0
               PROVE  /\ breaker'[s].failures = streak'[s] % t
                      /\ breaker'[s].openUntil = IF streak'[s] < t THEN 0 ELSE opened'[s] + Cooldown
    OBVIOUS
  <2>0. streak'[s] = streak[s] + 1 /\ t \in Nat \ {0}
    BY <1>1, <1>5
  <2>1. (streak[s] + 1) % t = IF f + 1 < t THEN f + 1 ELSE 0
    BY <1>6, <1>7, <2>0, ModStep
  <2>2. CASE f + 1 >= t
    <3>1. breaker'[s] = [failures |-> 0, openUntil |-> clock + Cooldown] /\ opened'[s] = clock
      BY <1>4, <1>5, <2>2
    <3>2. f <= streak[s]
      BY <1>6, <1>7, <2>0, ModBelow
    <3>3. ~(streak[s] + 1 < t)
      BY <1>1, <1>2, <1>6, <2>2, <3>2
    <3>4. (streak[s] + 1) % t = 0
      BY <1>1, <1>2, <2>1, <2>2
    <3> QED BY <2>0, <3>1, <3>3, <3>4
  <2>3. CASE f + 1 < t
    <3>1. breaker'[s] = [failures |-> f + 1, openUntil |-> o] /\ opened'[s] = opened[s]
      BY <1>1, <1>2, <1>4, <1>5, <2>3
    <3>2. streak[s] + 1 < t <=> streak[s] < t
      <4>1. streak[s] < t => f = streak[s]
        BY <1>6, <1>7, <2>0, ModSmall
      <4> QED BY <1>1, <1>2, <1>6, <2>3, <4>1
    <3> QED BY <1>7, <2>0, <2>1, <2>3, <3>1, <3>2
  <2> QED BY <1>1, <1>2, <2>2, <2>3
<1>11. (\A u \in Services : setup.threshold > 0 => breaker[u].failures < setup.threshold)'
  BY <1>5, <1>8 DEF Breakers, t
<1>12. BreakerCounts'
  BY <1>5, <1>10 DEF Breakers, BreakerCounts, t
<1> QED BY <1>1, <1>9, <1>11, <1>12 DEF Breakers

LEMMA SuccessKeepsBreakers ==
  ASSUME Breakers, NEW s \in Services, RecordSuccess(s), UNCHANGED <<setup, clock>>
  PROVE  Breakers'
<1>1. setup.threshold \in Nat /\ Cooldown \in Nat \ {0} /\ MaxClock \in Nat \ {0}
  BY ThresholdType
<1>2. /\ breaker' = [breaker EXCEPT ![s] = [failures |-> 0, openUntil |-> 0]]
      /\ streak' = [streak EXCEPT ![s] = 0]
      /\ UNCHANGED opened
  BY DEF RecordSuccess
<1>3. /\ breaker'[s] = [failures |-> 0, openUntil |-> 0] /\ streak'[s] = 0
      /\ \A u \in Services \ {s} : breaker'[u] = breaker[u] /\ streak'[u] = streak[u]
  BY <1>2 DEF Breakers
<1>4. /\ breaker' \in [Services -> [failures : Nat, openUntil : 0..(MaxClock + Cooldown)]]
      /\ streak' \in [Services -> Nat]
  <2>1. 0 \in 0..(MaxClock + Cooldown)
    BY <1>1
  <2> QED BY <1>2, <2>1 DEF Breakers
<1>5. (\A u \in Services : setup.threshold > 0 => breaker[u].failures < setup.threshold)'
  BY <1>1, <1>3 DEF Breakers
<1>6. BreakerCounts'
  <2>1. setup.threshold > 0 => 0 % setup.threshold = 0
    BY <1>1, ModSmall
  <2> QED BY <1>1, <1>2, <1>3, <2>1 DEF Breakers, BreakerCounts
<1> QED BY <1>2, <1>4, <1>5, <1>6 DEF Breakers

LEMMA BreakersKept == Breakers /\ [Next]_vars => Breakers'
<1> SUFFICES ASSUME Breakers, [Next]_vars PROVE Breakers'
  OBVIOUS
<1>1. BreakerStep
  BY BreakerSteps
<1>2. CASE UNCHANGED <<breaker, streak, opened, clock>>
  BY <1>1, <1>2 DEF BreakerStep, Breakers, BreakerCounts
<1>3. CASE Tick
  <2>1. UNCHANGED <<setup, breaker, streak, opened>> /\ clock' = clock + 1 /\ clock < MaxClock
    BY <1>3 DEF Tick, breakers
  <2>2. clock' \in 1..MaxClock
    BY <2>1, ThresholdType DEF Breakers
  <2> QED BY <2>1, <2>2 DEF Breakers, BreakerCounts
<1> QED BY <1>1, <1>2, <1>3, FailureKeepsBreakers, SuccessKeepsBreakers DEF BreakerStep

LEMMA BreakersHold == Spec => []Breakers
<1>1. Init => Breakers
  <2> SUFFICES ASSUME Init PROVE Breakers
    OBVIOUS
  <2>1. setup.threshold \in Nat /\ Cooldown \in Nat \ {0} /\ MaxClock \in Nat \ {0}
    BY GatewayAssumption DEF Init
  <2>2. /\ 0 \in 0..(MaxClock + Cooldown) /\ 1 \in 1..MaxClock
        /\ setup.threshold > 0 => 0 % setup.threshold = 0
    BY <2>1, ModSmall
  <2>3. BreakerCounts
    BY <2>1, <2>2 DEF Init, BreakerCounts
  <2> QED BY <2>1, <2>2, <2>3 DEF Init, Breakers
<1> QED BY <1>1, BreakersKept, PTL DEF Spec

-----------------------------------------------------------------------------
(* What crosses the wire.                                                     *)

\* JSON with omitempty and back again changes no record.
LEMMA JSONKeeps ==
  ASSUME NEW rec, NEW omitted, NEW fields, Record(rec, fields)
  PROVE  FromJSON(JSON(rec, omitted), fields) = rec
<1> DEFINE json == JSON(rec, omitted)
<1>1. DOMAIN rec = fields
  BY DEF Record
<1>2. \A f \in fields : (IF f \in DOMAIN json THEN json[f] ELSE Zero(f)) = rec[f]
  BY <1>1 DEF JSON
<1> HIDE DEF json
<1>3. FromJSON(json, fields) = [f \in fields |-> rec[f]]
  BY <1>2 DEF FromJSON
<1> QED BY <1>3 DEF json, Record

\* The protocol buffers know fewer actions, but each has the effect it had.
LEMMA EffectOfProto == \A action : Effect(ActionProto(action)) = Effect(action)
<1> TAKE action
<1>1. /\ "allow" \in AllowActions /\ "challenge" \in ChallengeActions
      /\ "block" \notin AllowActions \cup ChallengeActions \cup {"observe"}
      /\ "allow" \notin ChallengeActions /\ "challenge" \notin AllowActions \cup {"observe"}
      /\ AllowActions \cap ChallengeActions = {} /\ BlockActions \cap (AllowActions \cup ChallengeActions \cup {"observe"}) = {}
      /\ "observe" \notin AllowActions \cup ChallengeActions
  BY DEF AllowActions, ChallengeActions, BlockActions
<1>2. None \notin AllowActions \cup ChallengeActions \cup {"observe"}
  BY NoAction
<1> HIDE DEF AllowActions, ChallengeActions, BlockActions
<1>3. CASE action \in AllowActions
  BY <1>1, <1>3 DEF Effect, ActionProto
<1>4. CASE action \in ChallengeActions
  BY <1>1, <1>4 DEF Effect, ActionProto
<1>5. CASE action \in BlockActions
  BY <1>1, <1>5 DEF Effect, ActionProto
<1>6. CASE action = "observe"
  BY <1>1, <1>6 DEF Effect, ActionProto
<1>7. CASE action \notin AllowActions \cup ChallengeActions \cup BlockActions \cup {"observe"}
  BY <1>2, <1>7 DEF Effect, ActionProto
<1> QED BY <1>3, <1>4, <1>5, <1>6, <1>7

LEMMA AnsweredFacts ==
  ASSUME NEW transport, NEW d, Record(d, DecisionFields)
  PROVE  /\ Effect(Answered(transport, d).action) = Effect(d.action)
         /\ \A f \in {"scene", "session", "clearance"} : Answered(transport, d)[f] = d[f]
         /\ transport # "grpc" => Answered(transport, d) = d
<1>1. DOMAIN d = DecisionFields
  BY DEF Record
<1>2. CASE transport = "grpc"
  <2>1. Answered(transport, d) = [d EXCEPT !.action = ActionProto(d.action), !.ttl = Int32(d.ttl),
                                           !.cooldown = 0, !.business = None]
    BY <1>2 DEF Answered, DecisionProto
  <2>2. /\ Answered(transport, d).action = ActionProto(d.action)
        /\ \A f \in {"scene", "session", "clearance"} : Answered(transport, d)[f] = d[f]
    BY <1>1, <2>1 DEF DecisionFields
  <2> QED BY <1>2, <2>2, EffectOfProto
<1>3. CASE transport # "grpc"
  <2>1. Answered(transport, d) = d
    BY <1>1, <1>3, JSONKeeps DEF Answered
  <2> QED BY <1>3, <2>1
<1> QED BY <1>2, <1>3

LEMMA ArrivedFacts ==
  ASSUME NEW transport, NEW q, Record(q, RequestFields)
  PROVE  /\ \A f \in RequestFields \ {"risk"} : Arrived(transport, q)[f] = q[f]
         /\ transport # "grpc" => Arrived(transport, q) = q
<1>1. DOMAIN q = RequestFields
  BY DEF Record
<1>2. CASE transport = "grpc"
  <2>1. Arrived(transport, q) = [q EXCEPT !.risk = Int32(q.risk)]
    BY <1>2 DEF Arrived, RequestProto
  <2> QED BY <1>1, <1>2, <2>1
<1>3. CASE transport # "grpc"
  <2>1. Arrived(transport, q) = q
    BY <1>1, <1>3, JSONKeeps DEF Arrived
  <2> QED BY <1>3, <2>1
<1> QED BY <1>2, <1>3

\* Numbers that fit the wire's integers survive it.
LEMMA Int32Keeps ==
  ASSUME NEW n \in (-Half)..(Half - 1)
  PROVE  Int32(n) = n
<1>1. Half \in Nat \ {0}
  BY WidthAssumption
<1> HIDE DEF Half
<1>2. 2 * Half \in Nat \ {0} /\ n + Half \in Nat /\ n + Half < 2 * Half
  BY <1>1
<1>3. (n + Half) % (2 * Half) = n + Half
  BY <1>2, ModSmall
<1> QED BY <1>1, <1>3 DEF Int32

\* The policy request is a record, made of the request that came in.
LEMMA EvaluateRequestFacts ==
  ASSUME NEW front, NEW raw
  PROVE  /\ Record(EvaluateRequest(front, raw), RequestFields)
         /\ EvaluateRequest(front, raw).ticket = raw.ticket
         /\ EvaluateRequest(front, raw).clearance \in {raw.header, raw.cookie}
         /\ EvaluateRequest(front, raw).risk \in 0..100
<1>1. EvaluateRequest(front, raw).risk \in 0..100
  <2>1. IntHeader(raw.risk) \in 0..100
    BY DEF IntHeader
  <2> QED BY <2>1 DEF EvaluateRequest
<1>2. ClearanceFromRequest(raw) \in {raw.header, raw.cookie}
  BY DEF ClearanceFromRequest
<1> QED BY <1>1, <1>2 DEF EvaluateRequest, Record, RequestFields

-----------------------------------------------------------------------------
(* The contract between the front ends and the platform.                      *)

LEMMA QuestionsKept == QuestionKept
<1> SUFFICES ASSUME NEW raw \in Raws, NEW front \in {"gateway", "middleware"}
             PROVE  Arrived("grpc", EvaluateRequest(front, raw)) = Arrived("http", EvaluateRequest(front, raw))
  BY DEF QuestionKept
<1> DEFINE q == EvaluateRequest(front, raw)
<1>1. Record(q, RequestFields) /\ q.risk \in 0..100
  BY EvaluateRequestFacts
<1> HIDE DEF q
<1>2. Arrived("http", q) = q
  BY <1>1, ArrivedFacts
<1>3. Int32(q.risk) = q.risk
  <2>1. q.risk \in (-Half)..(Half - 1)
    BY <1>1, WidthAssumption
  <2> QED BY <2>1, Int32Keeps
<1>4. Arrived("grpc", q) = [q EXCEPT !.risk = q.risk]
  BY <1>3 DEF Arrived, RequestProto
<1>5. [q EXCEPT !.risk = q.risk] = q
  BY <1>1 DEF Record
<1> QED BY <1>2, <1>4, <1>5 DEF q

LEMMA EffectsKept == EffectKept
<1> SUFFICES ASSUME NEW d \in Decisions
             PROVE  /\ Effect(Answered("grpc", d).action) = Effect(Answered("http", d).action)
                    /\ \A f \in {"scene", "session", "clearance"} : Answered("grpc", d)[f] = Answered("http", d)[f]
  BY DEF EffectKept
<1>1. Record(d, DecisionFields)
  BY FrontDoorAssumption
<1> QED BY <1>1, AnsweredFacts

LEMMA RoutesKept == RouteKept
<1> SUFFICES ASSUME NEW s \in Snapshots, \A i \in DOMAIN s.routes : s.routes[i].priority \in (-Half)..(Half - 1)
             PROVE  SnapshotProto(s).routes = s.routes
  BY DEF RouteKept
<1>1. /\ Record(s, SnapshotFields) /\ Record(s.routes, 1..Len(s.routes))
      /\ \A i \in DOMAIN s.routes : Record(s.routes[i], RouteFields)
  BY FrontDoorAssumption
<1>2. ASSUME NEW i \in DOMAIN s.routes PROVE RouteProto(s.routes[i]) = s.routes[i]
  <2>1. Int32(s.routes[i].priority) = s.routes[i].priority
    BY Int32Keeps
  <2>2. RouteProto(s.routes[i]) = [s.routes[i] EXCEPT !.priority = s.routes[i].priority]
    BY <2>1 DEF RouteProto
  <2> QED BY <1>1, <2>2 DEF Record
<1>3. SnapshotProto(s).routes = [i \in DOMAIN s.routes |-> RouteProto(s.routes[i])]
  <2>1. "routes" \in DOMAIN s
    BY <1>1 DEF Record, SnapshotFields
  <2> QED BY <2>1 DEF SnapshotProto
<1>4. s.routes = [i \in DOMAIN s.routes |-> s.routes[i]]
  BY <1>1 DEF Record
<1> QED BY <1>2, <1>3, <1>4

-----------------------------------------------------------------------------
(* Whom a front end believes.                                                 *)

LEMMA LargestIs ==
  ASSUME NEW S \in SUBSET Int, NEW m \in S, \A j \in S : j <= m
  PROVE  Largest(S) = m
<1> DEFINE l == Largest(S)
<1>1. l \in S /\ \A j \in S : j <= l
  BY DEF Largest
<1> HIDE DEF l
<1>2. l \in Int /\ m \in Int /\ l <= m /\ m <= l
  BY <1>1
<1>3. l = m
  BY <1>2
<1> QED BY <1>3 DEF l

LEMMA LeastIs ==
  ASSUME NEW S \in SUBSET Int, NEW m \in S, \A j \in S : m <= j
  PROVE  Least(S) = m
<1> DEFINE l == Least(S)
<1>1. l \in S /\ \A j \in S : l <= j
  BY DEF Least
<1> HIDE DEF l
<1>2. l \in Int /\ m \in Int /\ l <= m /\ m <= l
  BY <1>1
<1>3. l = m
  BY <1>2
<1> QED BY <1>3 DEF l

LEMMA Joined ==
  ASSUME NEW s \in Seq(Addresses \cup {Junk}), NEW t \in Seq(Addresses \cup {Junk})
  PROVE  /\ Len(s \o t) = Len(s) + Len(t)
         /\ DOMAIN (s \o t) = 1..(Len(s) + Len(t))
         /\ \A i \in 1..Len(s) : (s \o t)[i] = s[i]
         /\ \A i \in (Len(s) + 1)..(Len(s) + Len(t)) : (s \o t)[i] = t[i - Len(s)]
  OBVIOUS

\* What a client claims and its proxies add to its line, of any length: the
\* client's own address is the last that is no proxy's.
LEMMA ReceivedFrom ==
  ASSUME NEW client \in Addresses \ Trusted,
         NEW claimed \in Seq(Addresses \cup {Junk}), NEW hops \in Seq(Trusted), hops # <<>>
  PROVE  LET arrived == Received(client, claimed, hops, TRUE)
             line    == FirstLine(arrived.forwarded)
         IN  /\ arrived.peer \in Trusted
             /\ DOMAIN line = 1..(Len(claimed) + Len(hops))
             /\ \A i \in 1..Len(claimed) : line[i] = claimed[i]
             /\ line[Len(claimed) + 1] = client
             /\ \A i \in (Len(claimed) + 2)..(Len(claimed) + Len(hops)) : line[i] \in Trusted
<1> DEFINE rest == SubSeq(hops, 1, Len(hops) - 1)
           forwarded == claimed \o <<client>> \o rest
           A == Addresses \cup {Junk}
<1>1. Len(hops) \in Nat \ {0} /\ Len(claimed) \in Nat /\ \A i \in 1..Len(hops) : hops[i] \in Trusted
  OBVIOUS
<1>2. rest \in Seq(Trusted) /\ Len(rest) = Len(hops) - 1
  BY <1>1
<1>3. <<client>> \in Seq(A) /\ rest \in Seq(A) /\ claimed \in Seq(A) /\ Len(<<client>>) = 1 /\ <<client>>[1] = client
  <2>1. Trusted \subseteq A
    BY FrontDoorAssumption
  <2> QED BY <1>2, <2>1
<1>4. /\ Received(client, claimed, hops, TRUE).peer = hops[Len(hops)]
      /\ FirstLine(Received(client, claimed, hops, TRUE).forwarded) = forwarded
  <2>1. Received(client, claimed, hops, TRUE) = [peer |-> hops[Len(hops)], forwarded |-> <<forwarded>>]
    BY DEF Received
  <2> HIDE DEF forwarded
  <2>2. FirstLine(<<forwarded>>) = forwarded
    BY DEF FirstLine
  <2> DEFINE arrived == Received(client, claimed, hops, TRUE)
  <2> HIDE DEF arrived
  <2>3. arrived = [peer |-> hops[Len(hops)], forwarded |-> <<forwarded>>]
    BY <2>1 DEF arrived
  <2>4. arrived.peer = hops[Len(hops)] /\ arrived.forwarded = <<forwarded>>
    BY <2>3
  <2> QED BY <2>2, <2>4, Zenon DEF arrived
<1> HIDE DEF rest, A
<1> DEFINE front == claimed \o <<client>>
<1>5. /\ front \in Seq(A) /\ Len(front) = Len(claimed) + 1
      /\ \A i \in 1..Len(claimed) : front[i] = claimed[i]
      /\ front[Len(claimed) + 1] = client
  BY <1>1, <1>3
<1>6. forwarded = front \o rest
  OBVIOUS
<1> HIDE DEF forwarded, front
<1>7. /\ Len(front \o rest) = Len(front) + Len(rest)
      /\ DOMAIN (front \o rest) = 1..(Len(front) + Len(rest))
      /\ \A i \in 1..Len(front) : (front \o rest)[i] = front[i]
      /\ \A i \in (Len(front) + 1)..(Len(front) + Len(rest)) : (front \o rest)[i] = rest[i - Len(front)]
  <2>1. front \in Seq(Addresses \cup {Junk}) /\ rest \in Seq(Addresses \cup {Junk})
    BY <1>3, <1>5 DEF A
  <2> QED BY <2>1, Joined, Zenon
<1>8. /\ Len(forwarded) = Len(claimed) + Len(hops)
      /\ DOMAIN forwarded = 1..Len(forwarded)
      /\ \A i \in 1..(Len(claimed) + 1) : forwarded[i] = front[i]
      /\ \A i \in (Len(claimed) + 2)..Len(forwarded) : forwarded[i] = rest[i - (Len(claimed) + 1)]
  <2>1. Len(front) + Len(rest) = Len(claimed) + Len(hops) /\ Len(front) + 1 = Len(claimed) + 2
    BY <1>1, <1>2, <1>5
  <2> QED BY <1>5, <1>6, <1>7, <2>1
<1>9. \A i \in (Len(claimed) + 2)..Len(forwarded) : forwarded[i] \in Trusted
  <2>1. \A i \in 1..Len(rest) : rest[i] \in Trusted
    BY <1>2
  <2>2. \A i \in (Len(claimed) + 2)..Len(forwarded) : i - (Len(claimed) + 1) \in 1..Len(rest)
    BY <1>1, <1>2, <1>8
  <2> QED BY <1>8, <2>1, <2>2
<1>10. \A i \in 1..Len(claimed) : forwarded[i] = claimed[i]
  BY <1>1, <1>5, <1>8
<1>11. forwarded[Len(claimed) + 1] = client
  BY <1>1, <1>5, <1>8
<1>12. DOMAIN forwarded = 1..(Len(claimed) + Len(hops))
  BY <1>8
<1>13. \A i \in (Len(claimed) + 2)..(Len(claimed) + Len(hops)) : forwarded[i] \in Trusted
  BY <1>8, <1>9
<1>14. hops[Len(hops)] \in Trusted
  BY <1>1
<1> QED BY <1>4, <1>10, <1>11, <1>12, <1>13, <1>14, Zenon

\* A client's address alone on the line that is read: the first of several
\* proxies that each add a line.
LEMMA AloneOnItsLine ==
  ASSUME NEW client \in Addresses \ Trusted, NEW peer \in Trusted
  PROVE  ClientIP(peer, <<client>>) = client /\ MiddlewareIP(peer, <<client>>) = client
<1> DEFINE line == <<client>>
<1>1. DOMAIN line = {1} /\ line[1] = client
  OBVIOUS
<1> HIDE DEF line
<1>2. /\ {i \in DOMAIN line : line[i] \in Addresses \ Trusted} = {1}
      /\ {i \in DOMAIN line : line[i] \in Addresses} = {1}
  BY <1>1
<1>3. Largest({1}) = 1 /\ Least({1}) = 1
  BY LargestIs, LeastIs
<1>4. ClientIP(peer, line) = client /\ MiddlewareIP(peer, line) = client
  BY <1>1, <1>2, <1>3 DEF ClientIP, MiddlewareIP
<1> QED BY <1>4 DEF line

LEMMA LineOfItsOwn ==
  ASSUME NEW client \in Addresses \ Trusted, NEW hops \in Seq(Trusted), hops # <<>>
  PROVE  LET arrived == Received(client, <<>>, hops, FALSE)
         IN  arrived.peer \in Trusted /\ FirstLine(arrived.forwarded) = <<client>>
<1> DEFINE own == [i \in 1..Len(hops) |-> IF i = 1 THEN <<client>> ELSE <<hops[i - 1]>>]
<1>1. Len(hops) \in Nat \ {0} /\ hops[Len(hops)] \in Trusted
  OBVIOUS
<1>2. Received(client, <<>>, hops, FALSE) = [peer |-> hops[Len(hops)], forwarded |-> own]
  BY DEF Received
<1>3. own \in Seq(Seq(Addresses \cup {Junk})) /\ own # <<>> /\ own[1] = <<client>>
  <2>1. \A i \in 1..Len(hops) : own[i] \in Seq(Addresses \cup {Junk})
    <3> SUFFICES ASSUME NEW i \in 1..Len(hops) PROVE own[i] \in Seq(Addresses \cup {Junk})
      OBVIOUS
    <3>1. CASE i = 1
      BY <3>1
    <3>2. CASE i # 1
      <4>1. i - 1 \in 1..Len(hops) /\ hops[i - 1] \in Addresses \cup {Junk}
        BY <3>2, FrontDoorAssumption
      <4> QED BY <3>2, <4>1
    <3> QED BY <3>1, <3>2
  <2>2. own[1] = <<client>>
    BY <1>1
  <2> HIDE DEF own
  <2>3. DOMAIN own = 1..Len(hops) /\ own = [i \in 1..Len(hops) |-> own[i]]
    BY DEF own
  <2> QED BY <1>1, <2>1, <2>2, <2>3
<1> HIDE DEF own
<1>4. FirstLine(own) = own[1]
  BY <1>3 DEF FirstLine
<1> DEFINE arrived == Received(client, <<>>, hops, FALSE)
<1> HIDE DEF arrived
<1>5. arrived = [peer |-> hops[Len(hops)], forwarded |-> own]
  BY <1>2 DEF arrived
<1>6. arrived.peer = hops[Len(hops)] /\ arrived.forwarded = own
  BY <1>5
<1> QED BY <1>1, <1>3, <1>4, <1>6, Zenon DEF arrived

\* The gateway finds the client behind any number of proxies that join the lines,
\* whatever it claims, or that add their own when it claims nothing; the
\* middleware when it claims no address.
LEMMA ClientFound ==
  ASSUME NEW client \in Addresses \ Trusted,
         NEW claimed \in Seq(Addresses \cup {Junk}), NEW hops \in Seq(Trusted),
         NEW joins \in BOOLEAN, joins \/ claimed = <<>>
  PROVE  LET arrived == Received(client, claimed, hops, joins)
             line    == FirstLine(arrived.forwarded)
         IN  /\ ClientIP(arrived.peer, line) = client
             /\ (\A i \in DOMAIN claimed : claimed[i] = Junk) => MiddlewareIP(arrived.peer, line) = client
<1>1. CASE hops = <<>>
  BY <1>1 DEF Received, ClientIP, MiddlewareIP
<1>2. CASE hops # <<>> /\ ~joins
  <2> DEFINE arrived == Received(client, <<>>, hops, FALSE)
  <2>1. claimed = <<>> /\ joins = FALSE
    BY <1>2
  <2>2. arrived.peer \in Trusted /\ FirstLine(arrived.forwarded) = <<client>>
    BY <1>2, LineOfItsOwn
  <2> HIDE DEF arrived
  <2>3. ClientIP(arrived.peer, <<client>>) = client /\ MiddlewareIP(arrived.peer, <<client>>) = client
    BY <2>2, AloneOnItsLine
  <2>4. arrived = Received(client, claimed, hops, joins)
    BY <2>1 DEF arrived
  <2> QED BY <2>2, <2>3, <2>4, Zenon
<1>3. CASE hops # <<>> /\ joins
  <2> DEFINE arrived == Received(client, claimed, hops, TRUE)
             line    == FirstLine(arrived.forwarded)
             at == Len(claimed) + 1
             foreign == {i \in DOMAIN line : line[i] \in Addresses \ Trusted}
             parsed == {i \in DOMAIN line : line[i] \in Addresses}
  <2>1. /\ arrived.peer \in Trusted
        /\ DOMAIN line = 1..(Len(claimed) + Len(hops))
        /\ \A i \in 1..Len(claimed) : line[i] = claimed[i]
        /\ line[at] = client
        /\ \A i \in (Len(claimed) + 2)..(Len(claimed) + Len(hops)) : line[i] \in Trusted
    BY <1>3, ReceivedFrom
  <2>2. Len(claimed) \in Nat /\ Len(hops) \in Nat \ {0} /\ DOMAIN claimed = 1..Len(claimed)
    BY <1>3
  <2> HIDE DEF arrived, line
  <2>3. at \in DOMAIN line
    BY <2>1, <2>2
  <2>4. foreign \in SUBSET Int /\ at \in foreign /\ \A j \in foreign : j <= at
    <3>1. ASSUME NEW j \in DOMAIN line, j > at PROVE line[j] \in Trusted
      <4>1. j \in (Len(claimed) + 2)..(Len(claimed) + Len(hops))
        BY <2>1, <2>2, <3>1
      <4> QED BY <2>1, <4>1
    <3>2. \A j \in foreign : j \in Int /\ ~(j > at)
      BY <2>1, <2>2, <3>1
    <3> QED BY <2>1, <2>2, <2>3, <3>2
  <2>5. Largest(foreign) = at
    BY <2>4, LargestIs
  <2>6. ClientIP(arrived.peer, line) = client
    BY <2>1, <2>4, <2>5 DEF ClientIP
  <2>7. ASSUME \A i \in DOMAIN claimed : claimed[i] = Junk
        PROVE  MiddlewareIP(arrived.peer, line) = client
    <3>0. Junk \notin Addresses
      BY FrontDoorAssumption
    <3>1. \A j \in parsed : j \in Int /\ ~(j < at)
      BY <2>1, <2>2, <2>7, <3>0
    <3>2. parsed \in SUBSET Int /\ at \in parsed /\ \A j \in parsed : at <= j
      BY <2>1, <2>2, <2>3, <3>1
    <3>3. Least(parsed) = at
      BY <3>2, LeastIs
    <3> QED BY <2>1, <3>2, <3>3 DEF MiddlewareIP
  <2>8. joins = TRUE
    BY <1>3
  <2> QED BY <2>6, <2>7, <2>8 DEF arrived, line
<1> QED BY <1>1, <1>2, <1>3

LEMMA UpToAreSequences ==
  ASSUME NEW n \in Nat, NEW S, NEW s \in UpTo(n, S)
  PROVE  s \in Seq(S)
<1>1. PICK k \in 0..n : s \in [1..k -> S]
  BY DEF UpTo
<1> QED BY <1>1

LEMMA AddressesAreTheClients == AddressIsTheClients
<1> SUFFICES ASSUME NEW client \in Addresses \ Trusted,
                    NEW claimed \in UpTo(2, Addresses \cup {Junk}), NEW hops \in UpTo(2, Trusted),
                    NEW joins \in BOOLEAN, joins \/ claimed = <<>>
             PROVE  LET arrived == Received(client, claimed, hops, joins)
                        line    == FirstLine(arrived.forwarded)
                    IN  /\ ClientIP(arrived.peer, line) = client
                        /\ (\A i \in DOMAIN claimed : claimed[i] = Junk) => MiddlewareIP(arrived.peer, line) = client
  BY DEF AddressIsTheClients
<1>1. claimed \in Seq(Addresses \cup {Junk}) /\ hops \in Seq(Trusted)
  BY UpToAreSequences
<1> QED BY <1>1, ClientFound

LEMMA ClaimsAreInert == UntrustedClaimsInert
<1> SUFFICES ASSUME NEW raw \in Raws, NEW other \in Raws, ClaimsApart(raw, other)
             PROVE  EvaluateRequest("gateway", raw) = EvaluateRequest("gateway", other)
  BY DEF UntrustedClaimsInert
<1>1. \A f \in {"peer", "scene", "path", "ticket", "header", "cookie"} : raw[f] = other[f]
  BY DEF ClaimsApart, SameBut, RawFields
<1>2. /\ raw.peer = other.peer /\ raw.scene = other.scene /\ raw.path = other.path
      /\ raw.ticket = other.ticket /\ raw.header = other.header /\ raw.cookie = other.cookie
  BY <1>1
<1>3. ~TrustsContext(raw) /\ ~TrustsContext(other)
  BY <1>2 DEF TrustsContext, ClaimsApart
<1>4. ClientIP(raw.peer, FirstLine(raw.forwarded)) = ClientIP(other.peer, FirstLine(other.forwarded))
  <2>1. CASE raw.peer \notin Trusted
    BY <1>2, <2>1 DEF ClientIP
  <2>2. CASE raw.peer \in Trusted
    <3>1. raw["forwarded"] = other["forwarded"]
      BY <2>2 DEF ClaimsApart, SameBut, RawFields
    <3> QED BY <1>2, <3>1
  <2> QED BY <2>1, <2>2
<1>5. SceneFromRequest(raw) = SceneFromRequest(other) /\ ClearanceFromRequest(raw) = ClearanceFromRequest(other)
  BY <1>2 DEF SceneFromRequest, ClearanceFromRequest
<1> QED BY <1>2, <1>3, <1>4, <1>5 DEF EvaluateRequest

(* The gateway takes as a client's address the one the outermost of its        *)
(* proxies was connected from, behind any number of them and whatever the      *)
(* client wrote into the line of X-Forwarded-For they join theirs to           *)
(* (ClientFound; the property instantiates it), the middleware when the client *)
(* wrote no address; what an untrusted peer claims of account, risk and        *)
(* forwarding changes no question, and neither do claims of account and risk   *)
(* that come without the right context token, of a trusted proxy either.       *)
THEOREM HopsTrusted == Spec => []TrustedHopsOnly
<1>1. TrustedHopsOnly
  BY AddressesAreTheClients, ClaimsAreInert DEF TrustedHopsOnly, ClientAddress, ClaimsInert
<1> QED BY <1>1, PTL

(* For any sets of requests, decisions and configurations and any width of the *)
(* wire's integers that holds a risk score, gRPC and JSON carry the same        *)
(* question, the same effect, scene, session and clearance of the decision,     *)
(* and routes of which the same one is picked.                                 *)
THEOREM ContractHolds == Spec => []ContractKept
<1>1. ContractKept
  BY QuestionsKept, EffectsKept, RoutesKept DEF ContractKept, SameQuestion, SameEffect, SameRoute
<1> QED BY <1>1, PTL

-----------------------------------------------------------------------------
(* The invariant about requests.                                              *)

Places == {"new", "hard", "scene", "local", "ask", "waiting", "done"}
Outcomes == {"none", "health", "forwarded", "challenged", "refused", "unavailable"}
Reasons == {"none", "exempt", "local", "outage", "consumed", "invalid", "decision"}

\* The maps of requests and tickets.
Maps ==
  /\ pc \in [Requests -> Places]
  /\ wire \in [Requests -> {"none", "sent", "served"}]
  /\ outcome \in [Requests -> Outcomes]
  /\ why \in [Requests -> Reasons]
  /\ DOMAIN req = Requests /\ DOMAIN reply = Requests
  /\ DOMAIN reports = Requests /\ DOMAIN seen = Requests
  /\ redeemed \in [Tickets -> Requests \cup {None}]

\* What the platform, the configuration and the client hold.
Surroundings ==
  /\ setup \in Setups
  /\ snapshot \in {None} \cup {SnapshotProto(s) : s \in Snapshots}
  /\ jar \in {None} \cup Tickets
  /\ application \in BOOLEAN /\ secret \in BOOLEAN

\* The question and the answer of a request are records.
Shaped(r) ==
  /\ Record(req[r], RequestFields)
  /\ req[r].ticket \in Tickets \cup {None} /\ req[r].clearance \in Tickets \cup {None}
  /\ Record(reply[r], {"kind", "decision"})
  /\ wire[r] = "served" =>
       Record(reply[r].decision, DecisionFields) /\ reply[r].decision.clearance \in Tickets \cup {None}

\* Until its call nothing of a request has left the front end, until its end
\* nothing is decided; a call is not under way for what has been refused.
Placed(r) ==
  /\ pc[r] \notin {"waiting", "done"} => wire[r] = "none"
  /\ pc[r] # "done" => outcome[r] = "none" /\ reports[r] = <<>>
  /\ pc[r] = "local" => req[r].ticket = None
  /\ wire[r] = "sent" => outcome[r] # "refused"

\* The platform has redeemed a request's ticket if and only if it says so, and
\* then the request has not been refused.
Redeemer(r) ==
  /\ wire[r] = "served" /\ reply[r].kind = "valid" => LetByTicket(r) /\ outcome[r] # "refused"
  /\ \A t \in Tickets : redeemed[t] = r => wire[r] = "served" /\ reply[r].kind = "valid"

\* A request was seen by a configuration that does not block it, or is refused.
Unblocked(r) == \E s \in seen[r] : HardVerdict(s, req[r]) # "block"

Watched(r) ==
  /\ pc[r] \notin {"new", "done"} => snapshot \in seen[r]
  /\ setup.front = "gateway" /\ pc[r] \in {"scene", "local", "ask", "waiting"} => Unblocked(r)
  /\ setup.front = "gateway" /\ Done(r) /\ outcome[r] # "refused" => Unblocked(r)

\* Who has passed had a reason, and it was told once.
Reasoned(r) == Done(r) =>
  /\ Passed(r) => LetByConfig(r) \/ LetByTicket(r) \/ LetByDecision(r) \/ LetByFailure(r)
  /\ IF req[r].ticket = None /\ why[r] = "decision" THEN reports[r] = <<>> ELSE ToldOnce(r)

Handled(r) == Shaped(r) /\ Placed(r) /\ Redeemer(r) /\ Watched(r) /\ Reasoned(r)

Requested == Maps /\ Surroundings /\ \A r \in Requests : Handled(r)

-----------------------------------------------------------------------------
(* What a step on one request leaves of the others.                           *)

\* What is kept of request b while another is attended to.
Kept(b) ==
  /\ pc'[b] = pc[b] /\ req'[b] = req[b] /\ wire'[b] = wire[b] /\ reply'[b] = reply[b]
  /\ outcome'[b] = outcome[b] /\ reports'[b] = reports[b] /\ why'[b] = why[b]

LEMMA KeptHandled ==
  ASSUME NEW b \in Requests, Handled(b), UNCHANGED setup, Kept(b),
         seen[b] \subseteq seen'[b], pc[b] \notin {"new", "done"} => snapshot' \in seen'[b],
         \A t \in Tickets : redeemed'[t] = redeemed[t] \/ (redeemed[t] = None /\ redeemed'[t] # b)
  PROVE  Handled(b)'
<1>1. None \notin Requests /\ None \notin Tickets
  BY GatewayAssumption
<1>2. Shaped(b)'
  BY DEF Handled, Shaped, Kept, Record
<1>3. Placed(b)'
  BY DEF Handled, Placed, Kept
<1>4. LetByTicket(b) => LetByTicket(b)'
  BY <1>1 DEF LetByTicket, Kept, Handled, Shaped
<1>5. Redeemer(b)'
  BY <1>1, <1>4 DEF Handled, Redeemer, Kept
<1>6. Unblocked(b) => Unblocked(b)'
  BY DEF Unblocked, Kept
<1>7. Watched(b)'
  BY <1>6 DEF Handled, Watched, Kept, Done
<1>8. (LetByConfig(b) => LetByConfig(b)') /\ (LetByDecision(b) => LetByDecision(b)') /\ (LetByFailure(b) => LetByFailure(b)')
  BY DEF LetByConfig, LetByDecision, LetByFailure, Kept
<1>9. ToldOnce(b) => ToldOnce(b)'
  BY DEF ToldOnce, Passed, Kept
<1>10. Reasoned(b)'
  BY <1>4, <1>8, <1>9 DEF Handled, Reasoned, Done, Passed, Kept
<1> QED BY <1>2, <1>3, <1>5, <1>7, <1>10 DEF Handled

LEMMA ForwardedActions == \A action : action \in AllowActions \cup {"observe"} <=> Effect(action) = "forwarded"
<1> TAKE action
<1>1. ChallengeActions \cap (AllowActions \cup {"observe"}) = {}
  BY DEF AllowActions, ChallengeActions
<1> HIDE DEF AllowActions, ChallengeActions
<1>2. CASE action \in AllowActions \cup {"observe"}
  BY <1>1, <1>2 DEF Effect
<1>3. CASE action \in ChallengeActions
  BY <1>1, <1>3 DEF Effect
<1>4. CASE action \notin AllowActions \cup {"observe"} \cup ChallengeActions
  BY <1>4 DEF Effect
<1> QED BY <1>2, <1>3, <1>4

LEMMA EffectType == \A action : Effect(action) \in {"forwarded", "challenged", "refused"}
  BY DEF Effect

LEMMA Appended == ASSUME NEW e PROVE <<>> \o <<e>> = <<e>> /\ <<>> \o <<>> = <<>>
  OBVIOUS

LEMMA FinishDoes ==
  ASSUME Maps, NEW r \in Requests, NEW what \in Outcomes, NEW because \in Reasons, NEW events,
         Finish(r, what, because, events), UNCHANGED <<req, wire, reply, seen, redeemed>>
  PROVE  /\ Maps'
         /\ pc'[r] = "done" /\ outcome'[r] = what /\ why'[r] = because /\ reports'[r] = reports[r] \o events
         /\ \A b \in Requests \ {r} : Kept(b)
<1>1. /\ pc' = [pc EXCEPT ![r] = "done"]
      /\ outcome' = [outcome EXCEPT ![r] = what]
      /\ why' = [why EXCEPT ![r] = because]
      /\ reports' = [reports EXCEPT ![r] = reports[r] \o events]
  BY DEF Finish
<1>2. pc' \in [Requests -> Places] /\ outcome' \in [Requests -> Outcomes] /\ why' \in [Requests -> Reasons]
  <2>1. "done" \in Places
    BY DEF Places
  <2> QED BY <1>1, <2>1 DEF Maps
<1>3. DOMAIN reports' = Requests
  BY <1>1 DEF Maps
<1>4. Maps'
  <2>1. (pc \in [Requests -> Places] /\ outcome \in [Requests -> Outcomes] /\ why \in [Requests -> Reasons])'
    BY <1>2 DEF Places, Outcomes, Reasons
  <2> QED BY <1>3, <2>1 DEF Maps
<1>5. pc'[r] = "done" /\ outcome'[r] = what /\ why'[r] = because /\ reports'[r] = reports[r] \o events
  BY <1>1 DEF Maps
<1>6. \A b \in Requests \ {r} : Kept(b)
  BY <1>1 DEF Maps, Kept
<1> QED BY <1>4, <1>5, <1>6

\* A request comes to its end with a reason, and tells it.
LEMMA FinishHandled ==
  ASSUME Requested, NEW r \in Requests, NEW what \in Outcomes \ {"none"}, NEW because \in Reasons, NEW events,
         Finish(r, what, because, events),
         UNCHANGED <<setup, snapshot, req, wire, reply, seen, redeemed>>,
         pc[r] # "done",
         wire[r] = "sent" => what # "refused",
         wire[r] = "served" /\ reply[r].kind = "valid" => what # "refused",
         because # "exempt" =>
           /\ setup.front = "gateway" /\ what # "refused" => Unblocked(r)
           /\ what = "forwarded" =>
                \/ LetByConfig(r) \/ LetByTicket(r) \/ LetByDecision(r)
                \/ setup.fail # "fail_close" /\ because = "outage"
           /\ IF req[r].ticket = None /\ because = "decision" THEN events = <<>>
              ELSE \E e : events = <<e>> /\ ((e.action \in AllowActions \cup {"observe"}) <=> what = "forwarded")
  PROVE  Maps' /\ \A b \in Requests : Handled(b)'
<1>0. Handled(r) /\ Maps
  BY DEF Requested
<1>1. /\ Maps'
      /\ pc'[r] = "done" /\ outcome'[r] = what /\ why'[r] = because /\ reports'[r] = reports[r] \o events
      /\ \A b \in Requests \ {r} : Kept(b)
  BY <1>0, FinishDoes
<1>2. ASSUME NEW b \in Requests \ {r} PROVE Handled(b)'
  <2>1. Handled(b) /\ Kept(b)
    BY <1>1 DEF Requested
  <2> QED BY <2>1, KeptHandled DEF Handled, Watched
<1>3. Shaped(r)'
  BY <1>0 DEF Handled, Shaped, Record
<1>4. Placed(r)'
  BY <1>1 DEF Placed
<1>5. Redeemer(r)'
  BY <1>0, <1>1 DEF Handled, Redeemer, LetByTicket
<1>6. Watched(r)'
  BY <1>1 DEF Watched, Unblocked, Done
<1>7. ASSUME because # "exempt" PROVE Reasoned(r)'
  <2>1. (LetByConfig(r)' <=> LetByConfig(r)) /\ (LetByTicket(r)' <=> LetByTicket(r)) /\ (LetByDecision(r)' <=> LetByDecision(r))
    BY DEF LetByConfig, LetByTicket, LetByDecision
  <2>2. LetByFailure(r)' <=> setup.fail # "fail_close" /\ because = "outage"
    BY <1>1 DEF LetByFailure
  <2>3. Passed(r)' <=> what = "forwarded"
    BY <1>1 DEF Passed
  <2>4. reports[r] = <<>>
    BY <1>0 DEF Handled, Placed
  <2>5. CASE req[r].ticket = None /\ because = "decision"
    <3>1. reports'[r] = <<>>
      BY <1>1, <1>7, <2>4, <2>5, Appended
    <3> QED BY <1>1, <1>7, <2>1, <2>2, <2>3, <2>5, <3>1 DEF Reasoned
  <2>6. CASE ~(req[r].ticket = None /\ because = "decision")
    <3>1. PICK e : events = <<e>> /\ ((e.action \in AllowActions \cup {"observe"}) <=> what = "forwarded")
      BY <1>7, <2>6
    <3>2. reports'[r] = <<e>>
      BY <1>1, <2>4, <3>1, Appended
    <3>3. ToldOnce(r)'
      <4>1. Len(reports'[r]) = 1 /\ reports'[r][1] = e
        BY <3>2
      <4> QED BY <2>3, <3>1, <4>1 DEF ToldOnce
    <3> QED BY <1>1, <1>7, <2>1, <2>2, <2>3, <2>6, <3>3 DEF Reasoned
  <2> QED BY <2>5, <2>6
<1>8. ASSUME because = "exempt" PROVE Reasoned(r)'
  <2>1. ~Done(r)'
    BY <1>1, <1>8 DEF Done
  <2> QED BY <2>1 DEF Reasoned
<1>9. Reasoned(r)'
  BY <1>7, <1>8
<1> QED BY <1>1, <1>2, <1>3, <1>4, <1>5, <1>6, <1>9 DEF Handled

\* A request moves on within the handler.
LEMMA GotoDoes ==
  ASSUME Maps, NEW r \in Requests, NEW place \in Places, Goto(r, place)
  PROVE  /\ pc' \in [Requests -> Places] /\ pc'[r] = place
         /\ UNCHANGED <<outcome, why, reports>>
         /\ \A b \in Requests \ {r} : pc'[b] = pc[b]
  BY DEF Maps, Goto

LEMMA MoveHandled ==
  ASSUME Requested, NEW r \in Requests, NEW place \in {"scene", "local", "ask"}, Goto(r, place),
         UNCHANGED <<setup, snapshot, req, wire, reply, seen, redeemed>>,
         pc[r] \in {"hard", "local"},
         place = "local" => req[r].ticket = None,
         setup.front = "gateway" => Unblocked(r)
  PROVE  Maps' /\ \A b \in Requests : Handled(b)'
<1>0. Handled(r) /\ Maps /\ place \in Places
  BY DEF Requested, Places
<1>1. /\ pc' \in [Requests -> Places] /\ pc'[r] = place
      /\ UNCHANGED <<outcome, why, reports>>
      /\ \A b \in Requests \ {r} : pc'[b] = pc[b]
  BY <1>0, GotoDoes
<1>2. Maps'
  BY <1>0, <1>1 DEF Maps, Places, Outcomes, Reasons
<1>3. ASSUME NEW b \in Requests \ {r} PROVE Handled(b)'
  <2>1. Handled(b) /\ Kept(b)
    BY <1>1 DEF Requested, Kept
  <2> QED BY <2>1, KeptHandled DEF Handled, Watched
<1>4. Shaped(r)'
  BY <1>0 DEF Handled, Shaped, Record
<1>5. Placed(r)'
  BY <1>0, <1>1 DEF Handled, Placed
<1>6. Redeemer(r)'
  BY <1>0, <1>1 DEF Handled, Redeemer, LetByTicket
<1>7. Watched(r)' /\ Reasoned(r)'
  <2>1. ~Done(r)'
    BY <1>1 DEF Done
  <2>2. Unblocked(r)' <=> Unblocked(r)
    BY DEF Unblocked
  <2>3. snapshot \in seen[r]
    BY <1>0 DEF Handled, Watched
  <2> QED BY <2>1, <2>2, <2>3 DEF Watched, Reasoned
<1> QED BY <1>2, <1>3, <1>4, <1>5, <1>6, <1>7 DEF Handled

-----------------------------------------------------------------------------
(* One lemma per action.                                                      *)

LEMMA ArriveHandled ==
  ASSUME Requested, NEW r \in Requests, NEW raw \in Arrivals[r], Arrive(r, raw)
  PROVE  Requested'
<1> DEFINE q == EvaluateRequest(setup.front, [raw EXCEPT !.cookie = jar])
           place == IF setup.front = "gateway" THEN "hard" ELSE "ask"
<1>0. Handled(r) /\ Maps /\ Surroundings /\ place \in Places
  BY DEF Requested, Places
<1>1. /\ pc[r] = "new" /\ req' = [req EXCEPT ![r] = q] /\ seen' = [seen EXCEPT ![r] = {snapshot}]
      /\ Goto(r, place)
      /\ UNCHANGED <<setup, snapshot, wire, reply, jar, redeemed, application, secret>>
  BY DEF Arrive, platform
<1>2. /\ Record(q, RequestFields)
      /\ q.ticket \in Tickets \cup {None} /\ q.clearance \in Tickets \cup {None}
  <2> DEFINE asked == [raw EXCEPT !.cookie = jar]
  <2>1. raw \in Raws /\ raw.ticket \in Tickets \cup {None} /\ raw.header \in Tickets \cup {None}
    BY GatewayAssumption
  <2>2. DOMAIN raw = RawFields
    BY <2>1, FrontDoorAssumption DEF Record
  <2>3. asked.ticket = raw.ticket /\ asked.header = raw.header /\ asked.cookie = jar
    BY <2>2 DEF RawFields
  <2>3a. q = EvaluateRequest(setup.front, asked)
    OBVIOUS
  <2> HIDE DEF asked, q
  <2>4. q.ticket = asked.ticket /\ q.clearance \in {asked.header, asked.cookie} /\ Record(q, RequestFields)
    BY <2>3a, EvaluateRequestFacts
  <2>5. jar \in Tickets \cup {None}
    BY <1>0 DEF Surroundings
  <2> QED BY <2>1, <2>3, <2>4, <2>5
<1> HIDE DEF q
<1>3. /\ req'[r] = q /\ seen'[r] = {snapshot} /\ DOMAIN req' = Requests /\ DOMAIN seen' = Requests
      /\ \A b \in Requests \ {r} : req'[b] = req[b] /\ seen'[b] = seen[b]
  BY <1>0, <1>1 DEF Maps
<1>4. /\ pc' \in [Requests -> Places] /\ pc'[r] = place
      /\ UNCHANGED <<outcome, why, reports>>
      /\ \A b \in Requests \ {r} : pc'[b] = pc[b]
  BY <1>0, <1>1, GotoDoes
<1>5. Maps'
  BY <1>0, <1>1, <1>3, <1>4 DEF Maps, Places, Outcomes, Reasons
<1>6. Surroundings'
  BY <1>0, <1>1 DEF Surroundings
<1>7. ASSUME NEW b \in Requests \ {r} PROVE Handled(b)'
  <2>1. Handled(b) /\ Kept(b)
    BY <1>1, <1>3, <1>4 DEF Requested, Kept
  <2> QED BY <1>1, <1>3, <2>1, KeptHandled DEF Handled, Watched
<1>8. wire[r] = "none" /\ reports[r] = <<>> /\ outcome[r] = "none" /\ \A t \in Tickets : redeemed[t] # r
  BY <1>0, <1>1 DEF Handled, Placed, Redeemer
<1>9. Shaped(r)'
  BY <1>0, <1>1, <1>2, <1>3, <1>8 DEF Handled, Shaped, Record
<1>10. Placed(r)' /\ Redeemer(r)'
  BY <1>1, <1>4, <1>8 DEF Placed, Redeemer
<1>11. Watched(r)' /\ Reasoned(r)'
  <2>1. ~Done(r)'
    BY <1>4 DEF Done
  <2> QED BY <1>1, <1>3, <1>4, <2>1 DEF Watched, Reasoned
<1> QED BY <1>5, <1>6, <1>7, <1>9, <1>10, <1>11 DEF Handled, Requested

LEMMA ExemptHandled ==
  ASSUME Requested, NEW r \in Requests, Exempt(r)
  PROVE  Requested'
<1> DEFINE what == IF setup.front = "gateway" THEN "health" ELSE "forwarded"
<1>1. /\ pc[r] = "new" /\ Finish(r, what, "exempt", <<>>)
      /\ UNCHANGED <<setup, snapshot, req, wire, reply, seen, jar, redeemed, application, secret>>
      /\ what \in Outcomes \ {"none"} /\ what # "refused" /\ "exempt" \in Reasons
  BY DEF Exempt, platform, Outcomes, Reasons
<1> HIDE DEF what
<1>2. Maps' /\ \A b \in Requests : Handled(b)'
  BY <1>1, FinishHandled
<1> QED BY <1>1, <1>2 DEF Requested, Surroundings

\* Hard decisions and local ones let pass by the configuration, or refuse.
LEMMA ConcludeHandled ==
  ASSUME Requested, NEW r \in Requests, NEW action, Conclude(r, action),
         UNCHANGED <<setup, snapshot, req, wire, reply, seen, redeemed>>,
         pc[r] \in {"hard", "local"},
         setup.front = "gateway" /\ Effect(action) # "refused" => Unblocked(r),
         Effect(action) = "forwarded" => LetByConfig(r)
  PROVE  Maps' /\ \A b \in Requests : Handled(b)'
<1> DEFINE what == Effect(action)
           event == [action |-> action, reason |-> "local", scene |-> req[r].scene]
<1>1. what \in Outcomes \ {"none"} /\ "local" \in Reasons
  BY EffectType DEF Outcomes, Reasons
<1>2. Finish(r, what, "local", <<event>>)
  BY DEF Conclude, Event
<1>3. event.action \in AllowActions \cup {"observe"} <=> what = "forwarded"
  BY ForwardedActions
<1>4. wire[r] = "none"
  BY DEF Requested, Handled, Placed
<1> HIDE DEF what, event
<1>5. \E e : <<event>> = <<e>> /\ (e.action \in AllowActions \cup {"observe"} <=> what = "forwarded")
  BY <1>3
<1>6. /\ setup.front = "gateway" /\ what # "refused" => Unblocked(r)
      /\ what = "forwarded" => LetByConfig(r)
  BY DEF what
<1> QED BY <1>1, <1>2, <1>4, <1>5, <1>6, FinishHandled

LEMMA HardVerdictType == \A s, q : HardVerdict(s, q) \in {"ask", "allow", "block"}
  BY DEF HardVerdict

\* The hard decision goes by the address only.
LEMMA HardVerdictByAddress == \A s, p, q : p.ip = q.ip => HardVerdict(s, p) = HardVerdict(s, q)
  BY DEF HardVerdict

LEMMA DecideHardHandled ==
  ASSUME Requested, NEW r \in Requests, DecideHard(r)
  PROVE  Requested'
<1> DEFINE verdict == HardVerdict(snapshot, req[r])
           place == IF req[r].ticket # None THEN "scene" ELSE "local"
<1>1. /\ pc[r] = "hard"
      /\ UNCHANGED <<setup, snapshot, req, wire, reply, seen, jar, redeemed, application, secret>>
      /\ verdict # "ask" => Conclude(r, verdict)
      /\ verdict = "ask" => Goto(r, place)
  BY DEF DecideHard, HardFirst, platform
<1>2. snapshot \in seen[r] /\ verdict \in {"ask", "allow", "block"}
  BY <1>1, HardVerdictType DEF Requested, Handled, Watched
<1>3. Effect("block") = "refused"
  BY DEF Effect, AllowActions, ChallengeActions
<1>4. verdict # "block" => Unblocked(r)
  BY <1>2 DEF Unblocked
<1>5. verdict = "allow" => LetByConfig(r)
  BY <1>2 DEF LetByConfig
<1>6. place \in {"scene", "local", "ask"} /\ (place = "local" => req[r].ticket = None)
  OBVIOUS
<1> HIDE DEF verdict, place
<1>7. CASE verdict = "ask"
  <2>1. Maps' /\ \A b \in Requests : Handled(b)'
    BY <1>1, <1>4, <1>6, <1>7, MoveHandled
  <2> QED BY <1>1, <2>1 DEF Requested, Surroundings
<1>8. CASE verdict # "ask"
  <2>1. Maps' /\ \A b \in Requests : Handled(b)'
    BY <1>1, <1>2, <1>3, <1>4, <1>5, <1>8, ConcludeHandled
  <2> QED BY <1>1, <2>1 DEF Requested, Surroundings
<1> QED BY <1>7, <1>8

LEMMA DecideLocallyHandled ==
  ASSUME Requested, NEW r \in Requests, DecideLocally(r)
  PROVE  Requested'
<1> DEFINE verdict == LocalVerdict(snapshot, req[r])
<1>1. /\ pc[r] = "local"
      /\ UNCHANGED <<setup, snapshot, req, wire, reply, seen, jar, redeemed, application, secret>>
      /\ verdict # "ask" => Conclude(r, verdict)
      /\ verdict = "ask" => Goto(r, "ask")
  BY DEF DecideLocally, platform
<1>2. /\ snapshot \in seen[r] /\ req[r].ticket = None
      /\ setup.front = "gateway" => Unblocked(r)
  BY <1>1 DEF Requested, Handled, Watched, Placed
<1>3. Effect(verdict) = "forwarded" => LetByConfig(r)
  BY <1>2 DEF LetByConfig
<1> HIDE DEF verdict
<1>4. CASE verdict = "ask"
  <2>1. Maps' /\ \A b \in Requests : Handled(b)'
    BY <1>1, <1>2, <1>4, MoveHandled
  <2> QED BY <1>1, <2>1 DEF Requested, Surroundings
<1>5. CASE verdict # "ask"
  <2>1. Maps' /\ \A b \in Requests : Handled(b)'
    BY <1>1, <1>2, <1>3, <1>5, ConcludeHandled
  <2> QED BY <1>1, <2>1 DEF Requested, Surroundings
<1> QED BY <1>4, <1>5

LEMMA ChooseSceneHandled ==
  ASSUME Requested, NEW r \in Requests, ChooseScene(r)
  PROVE  Requested'
<1> DEFINE scene == SceneForTicket(snapshot, req[r])
<1>0. Handled(r) /\ Maps
  BY DEF Requested
<1>1. /\ pc[r] = "scene" /\ Goto(r, "ask")
      /\ req' = [req EXCEPT ![r].scene = scene]
      /\ UNCHANGED <<setup, snapshot, wire, reply, seen, jar, redeemed, application, secret>>
  BY DEF ChooseScene, platform
<1> HIDE DEF scene
<1>2. /\ req'[r] = [req[r] EXCEPT !.scene = scene] /\ DOMAIN req' = Requests
      /\ \A b \in Requests \ {r} : req'[b] = req[b]
  BY <1>0, <1>1 DEF Maps
<1>3. /\ Record(req'[r], RequestFields) /\ req'[r].ip = req[r].ip
      /\ req'[r].ticket = req[r].ticket /\ req'[r].clearance = req[r].clearance
  <2>1. DOMAIN req[r] = RequestFields
    BY <1>0 DEF Handled, Shaped, Record
  <2> QED BY <1>2, <2>1 DEF Record, RequestFields
<1>4. /\ pc' \in [Requests -> Places] /\ pc'[r] = "ask"
      /\ UNCHANGED <<outcome, why, reports>>
      /\ \A b \in Requests \ {r} : pc'[b] = pc[b]
  BY <1>0, <1>1, GotoDoes DEF Places
<1>5. Maps'
  BY <1>0, <1>1, <1>2, <1>4 DEF Maps, Places, Outcomes, Reasons
<1>6. ASSUME NEW b \in Requests \ {r} PROVE Handled(b)'
  <2>1. Handled(b) /\ Kept(b)
    BY <1>1, <1>2, <1>4 DEF Requested, Kept
  <2> QED BY <1>1, <2>1, KeptHandled DEF Handled, Watched
<1>7. Shaped(r)'
  BY <1>0, <1>1, <1>3 DEF Handled, Shaped, Record
<1>8. Placed(r)' /\ Redeemer(r)'
  <2>1. wire[r] = "none" /\ reports[r] = <<>> /\ outcome[r] = "none" /\ \A t \in Tickets : redeemed[t] # r
    BY <1>0, <1>1 DEF Handled, Placed, Redeemer
  <2> QED BY <1>1, <1>4, <2>1 DEF Placed, Redeemer
<1>9. Watched(r)' /\ Reasoned(r)'
  <2>1. ~Done(r)'
    BY <1>4 DEF Done
  <2>2. Unblocked(r) => Unblocked(r)'
    <3>1. req'[r].ip = req[r].ip
      BY <1>3
    <3>2. \A s : HardVerdict(s, req'[r]) = HardVerdict(s, req[r])
      BY <3>1, HardVerdictByAddress, Zenon
    <3> QED BY <1>1, <3>2 DEF Unblocked
  <2>3. snapshot \in seen[r] /\ (setup.front = "gateway" => Unblocked(r))
    BY <1>0, <1>1 DEF Handled, Watched
  <2> QED BY <1>1, <2>1, <2>2, <2>3 DEF Watched, Reasoned
<1> QED BY <1>1, <1>5, <1>6, <1>7, <1>8, <1>9 DEF Handled, Requested, Surroundings

LEMMA CallHandled ==
  ASSUME Requested, NEW r \in Requests, Call(r)
  PROVE  Requested'
<1>0. Handled(r) /\ Maps
  BY DEF Requested
<1>1. /\ pc[r] = "ask" /\ Goto(r, "waiting") /\ wire' = [wire EXCEPT ![r] = "sent"]
      /\ UNCHANGED <<setup, snapshot, req, reply, seen, jar, redeemed, application, secret>>
  BY DEF Call, platform
<1>2. /\ wire' \in [Requests -> {"none", "sent", "served"}] /\ wire'[r] = "sent"
      /\ \A b \in Requests \ {r} : wire'[b] = wire[b]
  BY <1>0, <1>1 DEF Maps
<1>3. /\ pc' \in [Requests -> Places] /\ pc'[r] = "waiting"
      /\ UNCHANGED <<outcome, why, reports>>
      /\ \A b \in Requests \ {r} : pc'[b] = pc[b]
  BY <1>0, <1>1, GotoDoes DEF Places
<1>4. Maps'
  BY <1>0, <1>1, <1>2, <1>3 DEF Maps, Places, Outcomes, Reasons
<1>5. ASSUME NEW b \in Requests \ {r} PROVE Handled(b)'
  <2>1. Handled(b) /\ Kept(b)
    BY <1>1, <1>2, <1>3 DEF Requested, Kept
  <2> QED BY <1>1, <2>1, KeptHandled DEF Handled, Watched
<1>6. Shaped(r)'
  BY <1>0, <1>1, <1>2 DEF Handled, Shaped, Record
<1>7. Placed(r)' /\ Redeemer(r)'
  <2>1. reports[r] = <<>> /\ outcome[r] = "none" /\ \A t \in Tickets : redeemed[t] # r
    BY <1>0, <1>1 DEF Handled, Placed, Redeemer
  <2> QED BY <1>1, <1>2, <1>3, <2>1 DEF Placed, Redeemer
<1>8. Watched(r)' /\ Reasoned(r)'
  <2>1. ~Done(r)'
    BY <1>3 DEF Done
  <2>2. Unblocked(r) => Unblocked(r)'
    BY <1>1 DEF Unblocked
  <2>3. snapshot \in seen[r] /\ (setup.front = "gateway" => Unblocked(r))
    BY <1>0, <1>1 DEF Handled, Watched
  <2> QED BY <1>1, <1>3, <2>1, <2>2, <2>3 DEF Watched, Reasoned
<1> QED BY <1>1, <1>4, <1>5, <1>6, <1>7, <1>8 DEF Handled, Requested, Surroundings

\* Failures let pass under fail_open, and are told.
LEMMA GiveUpHandled ==
  ASSUME Requested, NEW r \in Requests, GiveUp(r), pc[r] \in {"ask", "waiting"},
         UNCHANGED <<setup, snapshot, req, wire, reply, seen, jar, redeemed, application, secret>>
  PROVE  Requested'
<1> DEFINE what == IF setup.fail = "fail_close" THEN "unavailable" ELSE "forwarded"
           action == IF setup.fail = "fail_close" THEN "block" ELSE "allow"
           event == [action |-> action, reason |-> "outage", scene |-> req[r].scene]
<1>1. Finish(r, what, "outage", <<event>>)
  BY DEF GiveUp, Event
<1>2. event.action \in AllowActions \cup {"observe"} <=> what = "forwarded"
  BY DEF AllowActions
<1>3. /\ what \in Outcomes \ {"none"} /\ what # "refused" /\ "outage" \in Reasons
      /\ what = "forwarded" => setup.fail # "fail_close"
  BY DEF Outcomes, Reasons
<1> HIDE DEF what, event
<1>4. \E e : <<event>> = <<e>> /\ (e.action \in AllowActions \cup {"observe"} <=> what = "forwarded")
  BY <1>2
<1>5. setup.front = "gateway" => Unblocked(r)
  BY DEF Requested, Handled, Watched
<1>6. Maps' /\ \A b \in Requests : Handled(b)'
  BY <1>1, <1>3, <1>4, <1>5, FinishHandled
<1> QED BY <1>6 DEF Requested, Surroundings

LEMMA CallReturnsHandled ==
  ASSUME Requested, NEW r \in Requests, CallReturns(r)
  PROVE  Requested'
<1> DEFINE decision == Answered(setup.transport, reply[r].decision)
           answer == [reply[r] EXCEPT !.decision = decision]
           ticket == Service(r) = "ticket"
           valid == reply[r].kind = "valid"
<1>0. Handled(r) /\ Surroundings
  BY DEF Requested
<1>1. /\ pc[r] = "waiting" /\ wire[r] = "served"
      /\ UNCHANGED <<setup, snapshot, req, wire, reply, seen, redeemed, application, secret>>
      /\ ticket => ConcludeTicket(r, answer)
      /\ ~ticket => ConcludePolicy(r, answer)
      /\ jar' = Cookie(r, answer)
  BY DEF CallReturns, platform
<1>2. /\ Record(reply[r].decision, DecisionFields) /\ reply[r].decision.clearance \in Tickets \cup {None}
      /\ Record(reply[r], {"kind", "decision"})
  BY <1>0, <1>1 DEF Handled, Shaped
<1>3. answer.kind = reply[r].kind /\ answer.decision = decision
  BY <1>2 DEF Record
<1>4. /\ Effect(decision.action) = Effect(reply[r].decision.action)
      /\ decision.clearance = reply[r].decision.clearance
  BY <1>2, AnsweredFacts
<1>5. ticket <=> req[r].ticket # None
  BY DEF Service
<1>6. /\ setup.front = "gateway" => Unblocked(r)
      /\ valid => LetByTicket(r)
  BY <1>0, <1>1 DEF Handled, Watched, Redeemer
<1>7. jar' \in {None} \cup Tickets
  <2>1. jar' \in {answer.decision.clearance, jar}
    BY <1>1 DEF Cookie
  <2> QED BY <1>0, <1>2, <1>3, <1>4, <2>1 DEF Surroundings
<1> HIDE DEF decision, answer
<1>8. CASE ticket /\ valid
  <2> DEFINE event == [action |-> "allow", reason |-> "consumed", scene |-> answer.decision.scene]
  <2>1. Finish(r, "forwarded", "consumed", <<event>>)
    BY <1>1, <1>3, <1>8 DEF ConcludeTicket, Event
  <2>2. event.action \in AllowActions \cup {"observe"}
    BY DEF AllowActions
  <2> HIDE DEF event
  <2>3. \E e : <<event>> = <<e>> /\ e.action \in AllowActions \cup {"observe"}
    BY <2>2
  <2>4. "forwarded" \in Outcomes \ {"none"} /\ "consumed" \in Reasons
    BY DEF Outcomes, Reasons
  <2>5. Maps' /\ \A b \in Requests : Handled(b)'
    BY <1>1, <1>6, <1>8, <2>1, <2>3, <2>4, FinishHandled
  <2> QED BY <1>0, <1>1, <1>7, <2>5 DEF Requested, Surroundings
<1>9. CASE ticket /\ ~valid
  <2> DEFINE event == [action |-> "block", reason |-> "invalid", scene |-> req[r].scene]
  <2>1. Finish(r, "refused", "invalid", <<event>>)
    BY <1>1, <1>3, <1>9 DEF ConcludeTicket, Event
  <2>2. event.action \notin AllowActions \cup {"observe"}
    BY DEF AllowActions
  <2> HIDE DEF event
  <2>3. \E e : <<event>> = <<e>> /\ e.action \notin AllowActions \cup {"observe"}
    BY <2>2
  <2>4. "refused" \in Outcomes \ {"none"} /\ "invalid" \in Reasons
    BY DEF Outcomes, Reasons
  <2>5. Maps' /\ \A b \in Requests : Handled(b)'
    BY <1>1, <1>9, <2>1, <2>3, <2>4, FinishHandled
  <2> QED BY <1>0, <1>1, <1>7, <2>5 DEF Requested, Surroundings
<1>10. CASE ~ticket
  <2> DEFINE what == Effect(decision.action)
  <2>1. Finish(r, what, "decision", <<>>)
    BY <1>1, <1>3, <1>10 DEF ConcludePolicy
  <2>2. what \in Outcomes \ {"none"} /\ "decision" \in Reasons
    BY EffectType DEF Outcomes, Reasons
  <2>3. what = "forwarded" => LetByDecision(r)
    BY <1>1, <1>4, <1>5, <1>10 DEF LetByDecision
  <2>4. ~valid /\ req[r].ticket = None
    BY <1>5, <1>6, <1>10 DEF LetByTicket
  <2> HIDE DEF what
  <2>5. Maps' /\ \A b \in Requests : Handled(b)'
    BY <1>1, <1>6, <2>1, <2>2, <2>3, <2>4, FinishHandled
  <2> QED BY <1>0, <1>1, <1>7, <2>5 DEF Requested, Surroundings
<1> QED BY <1>8, <1>9, <1>10

\* The platform answers, for a request that still waits or one given up.
LEMMA ServeHandled ==
  ASSUME Requested, NEW r \in Requests, NEW answer, Serve(r, answer), wire[r] = "sent",
         UNCHANGED <<setup, snapshot, flow, req, seen, jar>>,
         application' \in BOOLEAN, secret' \in BOOLEAN,
         redeemed' \in [Tickets -> Requests \cup {None}],
         Record(answer, {"kind", "decision"}),
         Record(answer.decision, DecisionFields), answer.decision.clearance \in Tickets \cup {None},
         \A t \in Tickets : redeemed'[t] = redeemed[t] \/ (redeemed[t] = None /\ redeemed'[t] = r),
         \A t \in Tickets : redeemed'[t] # redeemed[t] => answer.kind = "valid",
         answer.kind = "valid" => LetByTicket(r)'
  PROVE  Requested'
<1>0. Handled(r) /\ Maps /\ Surroundings
  BY DEF Requested
<1>1. /\ wire' = [wire EXCEPT ![r] = "served"] /\ reply' = [reply EXCEPT ![r] = answer]
      /\ UNCHANGED <<pc, outcome, why, reports>>
  BY DEF Serve, flow
<1>2. /\ wire' \in [Requests -> {"none", "sent", "served"}] /\ wire'[r] = "served"
      /\ DOMAIN reply' = Requests /\ reply'[r] = answer
      /\ \A b \in Requests \ {r} : wire'[b] = wire[b] /\ reply'[b] = reply[b]
  BY <1>0, <1>1 DEF Maps
<1>3. Maps'
  BY <1>0, <1>1, <1>2 DEF Maps, Places, Outcomes, Reasons
<1>4. ASSUME NEW b \in Requests \ {r} PROVE Handled(b)'
  <2>1. Handled(b) /\ Kept(b)
    BY <1>1, <1>2 DEF Requested, Kept
  <2> QED BY <2>1, KeptHandled DEF Handled, Watched
<1>5. Shaped(r)'
  BY <1>0, <1>1, <1>2 DEF Handled, Shaped, Record
<1>6. outcome[r] # "refused" /\ pc[r] \in {"waiting", "done"} /\ \A t \in Tickets : redeemed[t] # r
  BY <1>0 DEF Handled, Placed, Redeemer
<1>7. Placed(r)'
  BY <1>0, <1>1, <1>2, <1>6 DEF Handled, Placed
<1>8. Redeemer(r)'
  BY <1>1, <1>2, <1>6 DEF Redeemer
<1>9. Watched(r)'
  BY <1>0, <1>1 DEF Handled, Watched, Unblocked, Done
<1>10. Reasoned(r)'
  <2>1. (Done(r)' <=> Done(r)) /\ (Passed(r)' <=> Passed(r)) /\ (ToldOnce(r)' <=> ToldOnce(r))
    BY <1>1 DEF Done, Passed, ToldOnce
  <2>2. (LetByConfig(r)' <=> LetByConfig(r)) /\ (LetByFailure(r)' <=> LetByFailure(r))
    BY <1>1 DEF LetByConfig, LetByFailure
  <2>3. ~LetByTicket(r) /\ ~LetByDecision(r)
    BY <1>0, <1>6 DEF LetByTicket, LetByDecision, Handled, Shaped
  <2> QED BY <1>0, <1>1, <2>1, <2>2, <2>3 DEF Handled, Reasoned
<1> QED BY <1>0, <1>3, <1>4, <1>5, <1>7, <1>8, <1>9, <1>10 DEF Handled, Requested, Surroundings

LEMMA PlainFacts ==
  ASSUME NEW action, NEW scene, NEW clearance \in Tickets \cup {None}, NEW kind
  PROVE  LET answer == Verdict(kind, Plain(action, scene, clearance))
         IN  /\ Record(answer, {"kind", "decision"}) /\ answer.kind = kind
             /\ Record(answer.decision, DecisionFields) /\ answer.decision.clearance \in Tickets \cup {None}
  BY DEF Verdict, Plain, Record, DecisionFields

LEMMA PlatformHandled ==
  ASSUME Requested, NEW r \in Requests, Platform(r)
  PROVE  Requested'
<1> DEFINE q == Arrived(setup.transport, req[r])
<1>0. Handled(r) /\ Maps /\ Surroundings /\ None \notin Requests /\ None \in Tickets \cup {None}
  BY GatewayAssumption DEF Requested
<1>1. /\ TurnedAway(r, q) \/ ServeTicket(r, q) \/ ServePolicy(r, q)
      /\ UNCHANGED <<setup, snapshot, flow, req, seen, jar>>
  BY DEF Platform
<1>2. /\ q.ticket = req[r].ticket /\ q.scene = req[r].scene /\ q.clearance = req[r].clearance
      /\ req[r].ticket \in Tickets \cup {None} /\ req[r].clearance \in Tickets \cup {None}
  <2>1. Record(req[r], RequestFields)
    BY <1>0 DEF Handled, Shaped
  <2>2. \A f \in RequestFields \ {"risk"} : q[f] = req[r][f]
    BY <2>1, ArrivedFacts
  <2>3. {"ticket", "scene", "clearance"} \subseteq RequestFields \ {"risk"}
    BY DEF RequestFields
  <2> QED BY <1>0, <2>2, <2>3 DEF Handled, Shaped
<1> HIDE DEF q
<1>3. ASSUME NEW answer, Serve(r, answer), wire[r] = "sent", UNCHANGED platform,
             Record(answer, {"kind", "decision"}), answer.kind # "valid",
             Record(answer.decision, DecisionFields), answer.decision.clearance \in Tickets \cup {None}
      PROVE  Requested'
  <2>1. /\ redeemed' \in [Tickets -> Requests \cup {None}] /\ UNCHANGED redeemed
        /\ application' \in BOOLEAN /\ secret' \in BOOLEAN
    BY <1>0, <1>3 DEF platform, Maps, Surroundings
  <2> QED BY <1>1, <1>3, <2>1, ServeHandled
<1>4. ASSUME NEW kind, kind # "valid", Serve(r, Verdict(kind, Blocked(q))), wire[r] = "sent", UNCHANGED platform
      PROVE  Requested'
  <2> DEFINE answer == Verdict(kind, Blocked(q))
  <2>1. /\ Record(answer, {"kind", "decision"}) /\ answer.kind = kind
        /\ Record(answer.decision, DecisionFields) /\ answer.decision.clearance \in Tickets \cup {None}
    BY PlainFacts DEF Blocked
  <2> HIDE DEF answer
  <2>2. Serve(r, answer)
    BY <1>4 DEF answer
  <2> QED BY <1>3, <1>4, <2>1, <2>2
<1>5. CASE TurnedAway(r, q)
  <2>1. wire[r] = "sent" /\ UNCHANGED platform
    BY <1>5 DEF TurnedAway
  <2>2. Serve(r, Verdict("answer", Blocked(q))) \/ Serve(r, Verdict("error", Blocked(q)))
    BY <1>5 DEF TurnedAway
  <2> QED BY <1>4, <2>1, <2>2
<1>6. CASE ServePolicy(r, q)
  <2>1. wire[r] = "sent" /\ UNCHANGED platform
    BY <1>6 DEF ServePolicy
  <2>2. ASSUME NEW d \in Answers, Serve(r, Verdict("answer", d)) PROVE Requested'
    <3>1. Record(d, DecisionFields) /\ d.clearance \in Tickets \cup {None}
      BY FrontDoorAssumption, GatewayAssumption
    <3> DEFINE answer == Verdict("answer", d)
    <3>2. Record(answer, {"kind", "decision"}) /\ answer.kind # "valid" /\ answer.decision = d
      BY DEF Verdict, Record
    <3>3. Serve(r, answer)
      BY <2>2
    <3> HIDE DEF answer
    <3> QED BY <1>3, <2>1, <3>1, <3>2, <3>3
  <2>3. ASSUME Serve(r, Verdict("answer", Plain("allow", q.scene, q.clearance))) PROVE Requested'
    <3> DEFINE answer == Verdict("answer", Plain("allow", q.scene, q.clearance))
    <3>1. /\ Record(answer, {"kind", "decision"}) /\ answer.kind = "answer"
          /\ Record(answer.decision, DecisionFields) /\ answer.decision.clearance \in Tickets \cup {None}
      BY <1>2, PlainFacts
    <3>2. Serve(r, answer)
      BY <2>3
    <3> HIDE DEF answer
    <3> QED BY <1>3, <2>1, <3>1, <3>2
  <2> QED BY <1>6, <2>2, <2>3 DEF ServePolicy
<1>7. CASE ServeTicket(r, q)
  <2> DEFINE t == req[r].ticket
  <2>1. wire[r] = "sent" /\ t # None /\ t \in Tickets /\ UNCHANGED <<application, secret>>
    BY <1>2, <1>7 DEF ServeTicket
  <2>2. CASE redeemed[q.ticket] = None /\ TicketScene[q.ticket] = q.scene
    <3>1. PICK token \in {None, q.ticket} : Serve(r, Verdict("valid", Plain("allow", q.scene, token)))
      BY <1>7, <2>2 DEF ServeTicket
    <3> DEFINE answer == Verdict("valid", Plain("allow", q.scene, token))
    <3>2. redeemed' = [redeemed EXCEPT ![t] = r] /\ redeemed[t] = None /\ TicketScene[t] = req[r].scene
      BY <1>2, <1>7, <2>2 DEF ServeTicket
    <3>3. token \in Tickets \cup {None}
      BY <1>2, <2>1
    <3>4. /\ Record(answer, {"kind", "decision"}) /\ answer.kind = "valid"
          /\ Record(answer.decision, DecisionFields) /\ answer.decision.clearance \in Tickets \cup {None}
      BY <3>3, PlainFacts
    <3>5. Serve(r, answer)
      BY <3>1
    <3>6. /\ redeemed' \in [Tickets -> Requests \cup {None}] /\ redeemed'[t] = r
          /\ \A u \in Tickets : redeemed'[u] = redeemed[u] \/ (redeemed[u] = None /\ redeemed'[u] = r)
      BY <1>0, <2>1, <3>2 DEF Maps
    <3>7. LetByTicket(r)'
      BY <1>1, <2>1, <3>2, <3>6 DEF LetByTicket
    <3>8. application' \in BOOLEAN /\ secret' \in BOOLEAN
      BY <1>0, <2>1 DEF Surroundings
    <3> HIDE DEF answer, t
    <3> QED BY <1>1, <2>1, <3>4, <3>5, <3>6, <3>7, <3>8, ServeHandled
  <2>3. CASE ~(redeemed[q.ticket] = None /\ TicketScene[q.ticket] = q.scene)
    <3>1. Serve(r, Verdict("answer", Blocked(q))) /\ UNCHANGED platform
      BY <1>7, <2>1, <2>3 DEF ServeTicket, platform
    <3> QED BY <1>4, <2>1, <3>1
  <2> QED BY <2>2, <2>3
<1> QED BY <1>1, <1>5, <1>6, <1>7

\* Steps that attend to no request.
LEMMA ElsewhereHandled ==
  ASSUME Requested, UNCHANGED <<setup, flow, req, wire, reply, jar, redeemed>>,
         Surroundings', DOMAIN seen' = Requests,
         \A b \in Requests : seen[b] \subseteq seen'[b],
         \A b \in Requests : pc[b] \notin {"new", "done"} => snapshot' \in seen'[b]
  PROVE  Requested'
<1>1. Maps'
  BY DEF Requested, Maps, flow, Places, Outcomes, Reasons
<1>2. ASSUME NEW b \in Requests PROVE Handled(b)'
  BY KeptHandled DEF Requested, Kept, flow
<1> QED BY <1>1, <1>2 DEF Requested

LEMMA RequestedStep == Requested /\ [Next]_vars => Requested'
<1> SUFFICES ASSUME Requested, [Next]_vars PROVE Requested'
  OBVIOUS
<1>0. /\ Surroundings /\ DOMAIN seen = Requests
      /\ \A b \in Requests : pc[b] \notin {"new", "done"} => snapshot \in seen[b]
  BY DEF Requested, Maps, Handled, Watched
<1>1. ASSUME NEW r \in Requests, Handle(r) PROVE Requested'
  <2>1. CASE SkipCall(r)
    BY <2>1, GiveUpHandled DEF SkipCall, platform
  <2>2. CASE CallFails(r)
    BY <2>2, GiveUpHandled DEF CallFails, platform
  <2> QED BY <1>1, <2>1, <2>2, DecideHardHandled, ChooseSceneHandled, DecideLocallyHandled, CallHandled,
             CallReturnsHandled DEF Handle
<1>2. ASSUME NEW r \in Requests, NEW raw \in Arrivals[r], Arrive(r, raw) PROVE Requested'
  BY <1>2, ArriveHandled
<1>3. ASSUME NEW r \in Requests, Exempt(r) \/ Platform(r) PROVE Requested'
  BY <1>3, ExemptHandled, PlatformHandled
<1>4. CASE Administer
  <2>1. UNCHANGED <<setup, snapshot, flow, req, wire, reply, jar, redeemed, seen>>
    BY <1>4 DEF Administer
  <2>2. application' \in BOOLEAN /\ secret' \in BOOLEAN
    BY <1>0, <1>4 DEF Administer, Surroundings
  <2>3. Surroundings'
    BY <1>0, <2>1, <2>2 DEF Surroundings
  <2> QED BY <1>0, <2>1, <2>3, ElsewhereHandled
<1>5. ASSUME NEW s \in Snapshots, Update(s) PROVE Requested'
  <2>1. /\ snapshot' = SnapshotProto(s)
        /\ seen' = [r \in Requests |-> IF pc[r] \in {"new", "done"} THEN seen[r] ELSE seen[r] \cup {snapshot'}]
        /\ UNCHANGED <<setup, flow, req, wire, reply, jar, redeemed, application, secret>>
    BY <1>5 DEF Update, platform
  <2>2. Surroundings'
    BY <1>0, <2>1 DEF Surroundings
  <2>3. DOMAIN seen' = Requests /\ \A b \in Requests :
          seen[b] \subseteq seen'[b] /\ (pc[b] \notin {"new", "done"} => snapshot' \in seen'[b])
    BY <2>1
  <2> QED BY <2>1, <2>2, <2>3, ElsewhereHandled
<1>6. CASE Tick \/ UNCHANGED vars
  <2>1. UNCHANGED <<setup, snapshot, flow, req, wire, reply, jar, redeemed, seen, application, secret>>
    BY <1>6 DEF Tick, vars, platform, flow
  <2>2. Surroundings'
    BY <1>0, <2>1 DEF Surroundings
  <2> QED BY <1>0, <2>1, <2>2, ElsewhereHandled
<1> QED BY <1>1, <1>2, <1>3, <1>4, <1>5, <1>6 DEF Next

LEMMA InitRequested == Init => Requested
<1> SUFFICES ASSUME Init PROVE Requested
  OBVIOUS
<1>1. Maps
  BY DEF Init, Maps, Places, Outcomes, Reasons
<1>2. Surroundings
  BY DEF Init, Surroundings
<1>3. ASSUME NEW r \in Requests PROVE Handled(r)
  <2> DEFINE raw == CHOOSE a \in Arrivals[r] : TRUE
  <2>1. /\ pc[r] = "new" /\ wire[r] = "none" /\ outcome[r] = "none" /\ reports[r] = <<>>
        /\ reply[r] = NoReply /\ req[r] = EvaluateRequest(setup.front, raw)
        /\ \A t \in Tickets : redeemed[t] = None
    BY DEF Init
  <2>2. raw \in Arrivals[r] /\ {raw.header, raw.cookie, raw.ticket} \subseteq Tickets \cup {None}
    BY GatewayAssumption
  <2> HIDE DEF raw
  <2>3. /\ Record(req[r], RequestFields) /\ req[r].ticket = raw.ticket
        /\ req[r].clearance \in {raw.header, raw.cookie}
    BY <2>1, EvaluateRequestFacts
  <2>4. Record(reply[r], {"kind", "decision"})
    BY <2>1 DEF NoReply, Record
  <2>5. None \notin Requests
    BY GatewayAssumption
  <2>6. Shaped(r)
    BY <2>1, <2>2, <2>3, <2>4 DEF Shaped
  <2>7. Placed(r) /\ Redeemer(r)
    BY <2>1, <2>5 DEF Placed, Redeemer
  <2>8. Watched(r) /\ Reasoned(r)
    BY <2>1 DEF Watched, Reasoned, Done
  <2> QED BY <2>6, <2>7, <2>8 DEF Handled
<1> QED BY <1>1, <1>2, <1>3 DEF Requested

LEMMA RequestedHolds == Spec => []Requested
  BY InitRequested, RequestedStep, PTL DEF Spec

-----------------------------------------------------------------------------
(* Theorems about the specification.                                          *)

(* Every variable has its type in every reachable state, and no breaker's      *)
(* count reaches the threshold.                                               *)
THEOREM TypeCorrect == Spec => []TypeOK
<1>1. Breakers /\ Requested => TypeOK
  BY DEF Breakers, Requested, Maps, Surroundings, TypeOK, Places, Outcomes
<1> QED BY <1>1, BreakersHold, RequestedHolds, PTL

(* Whatever the configurations that arrive while a request is under way, the   *)
(* answers, failures and late effects of the platform and the other requests:  *)
(* what all configurations of its time block is refused; who passes has been   *)
(* let pass by one of them, by its own ticket of its scene, by the platform or *)
(* by a failure under fail_open; a redeemed ticket is not called invalid; and  *)
(* the audit trail tells each once.  The invariant says at every place of the  *)
(* handler, of every request and its call, what has been seen and redeemed.    *)
THEOREM EveryRequestJudged == Spec => []RequestsJudged
<1>1. Requested => RequestsJudged
  <2> SUFFICES ASSUME Requested PROVE RequestsJudged
    OBVIOUS
  <2>1. \A r \in Requests : Handled(r)
    BY DEF Requested
  <2>2. RefusedWhatConfigBlocks
    BY <2>1 DEF RefusedWhatConfigBlocks, Handled, Watched, Unblocked
  <2>3. ForwardedForAReason /\ ReportsTell
    BY <2>1 DEF ForwardedForAReason, ReportsTell, Handled, Reasoned
  <2>4. RedeemedIsNotRefused
    <3>1. ASSUME NEW t \in Tickets, redeemed[t] # None PROVE outcome[redeemed[t]] # "refused"
      <4>1. redeemed[t] \in Requests
        BY <3>1 DEF Requested, Maps
      <4> QED BY <2>1, <4>1 DEF Handled, Redeemer
    <3> QED BY <3>1 DEF RedeemedIsNotRefused
  <2> QED BY <2>2, <2>3, <2>4 DEF RequestsJudged
<1> QED BY <1>1, RequestedHolds, PTL

\* A call starts only where the breaker lets it.
LEMMA CallsStartAllowed ==
  ASSUME Requested, [Next]_vars, NEW r \in Requests, pc[r] = "ask", pc'[r] = "waiting"
  PROVE  Allowed(Service(r))
<1>0. Maps
  BY DEF Requested
<1>1. ASSUME NEW b \in Requests, NEW place, place # "waiting", pc' = [pc EXCEPT ![b] = place] PROVE FALSE
  BY <1>0, <1>1 DEF Maps
<1>2. ASSUME NEW b \in Requests, NEW what, NEW because, NEW events, Finish(b, what, because, events) PROVE FALSE
  BY <1>1, <1>2 DEF Finish
<1>3. ASSUME NEW b \in Requests, NEW place, place # "waiting", Goto(b, place) PROVE FALSE
  BY <1>1, <1>3 DEF Goto
<1>4. ASSUME NEW b \in Requests, Handle(b) PROVE Allowed(Service(r))
  <2>1. CASE Call(b)
    <3>1. b = r
      BY <1>0, <2>1 DEF Call, Goto, Maps
    <3> QED BY <2>1, <3>1 DEF Call
  <2>2. CASE DecideHard(b)
    BY <1>2, <1>3, <2>2 DEF DecideHard, Conclude
  <2>3. CASE ChooseScene(b)
    BY <1>3, <2>3 DEF ChooseScene
  <2>4. CASE DecideLocally(b)
    BY <1>2, <1>3, <2>4 DEF DecideLocally, Conclude
  <2>5. CASE SkipCall(b) \/ CallFails(b)
    BY <1>2, <2>5 DEF SkipCall, CallFails, GiveUp
  <2>6. CASE CallReturns(b)
    BY <1>2, <2>6 DEF CallReturns, ConcludeTicket, ConcludePolicy
  <2> QED BY <1>4, <2>1, <2>2, <2>3, <2>4, <2>5, <2>6 DEF Handle
<1>5. ASSUME NEW b \in Requests, NEW raw \in Arrivals[b], Arrive(b, raw) PROVE FALSE
  BY <1>3, <1>5 DEF Arrive
<1>6. ASSUME NEW b \in Requests, Exempt(b) PROVE FALSE
  BY <1>2, <1>6 DEF Exempt
<1>7. ASSUME UNCHANGED pc PROVE FALSE
  BY <1>7
<1>8. (\E b \in Requests : Platform(b)) \/ Administer \/ (\E s \in Snapshots : Update(s)) \/ Tick \/ UNCHANGED vars
        => UNCHANGED pc
  BY DEF Platform, Administer, Update, Tick, vars, flow
<1> QED BY <1>4, <1>5, <1>6, <1>7, <1>8 DEF Next

(* For every threshold and cooldown: a breaker counts the failures since the   *)
(* last success modulo the threshold and is open for the cooldown after each   *)
(* multiple of it, and no call starts while it is, whatever results come late. *)
THEOREM BreakersAreTrue == Spec => BreakerHolds
<1>1. Breakers => BreakerCounts
  BY DEF Breakers
<1>2. Breakers /\ Requested /\ [Next]_vars =>
        [\A r \in Requests : pc[r] = "ask" /\ pc'[r] = "waiting" /\ setup.threshold > 0 =>
           \/ streak[Service(r)] < setup.threshold
           \/ clock > opened[Service(r)] + Cooldown]_vars
  <2> SUFFICES ASSUME Breakers, Requested, [Next]_vars,
                      NEW r \in Requests, pc[r] = "ask", pc'[r] = "waiting", setup.threshold > 0
               PROVE  \/ streak[Service(r)] < setup.threshold
                      \/ clock > opened[Service(r)] + Cooldown
    OBVIOUS
  <2> DEFINE s == Service(r)
  <2>1. s \in Services
    BY DEF Service, Services
  <2>2. Allowed(s)
    BY CallsStartAllowed
  <2>3. setup.threshold # 0
    BY ThresholdType
  <2> HIDE DEF s
  <2>4. clock > breaker[s].openUntil
    BY <2>2, <2>3 DEF Allowed
  <2>5. breaker[s].openUntil = IF streak[s] < setup.threshold THEN 0 ELSE opened[s] + Cooldown
    BY <2>1 DEF Breakers, BreakerCounts
  <2> QED BY <2>4, <2>5 DEF s
<1> QED BY <1>1, <1>2, BreakersHold, RequestedHolds, PTL DEF Spec, BreakerHolds, OpenMeansQuiet

-----------------------------------------------------------------------------
(* The event batcher (EventBatcher), that the gateway hands its events to.    *)
\* Where the reporters are: one that is idle has offered what it holds, one
\* that goes on has an event left, one that offers has an event in hand.
ReportersPlaced ==
  \A r \in Reporters :
    /\ rpc[r] = "check" => offered[r] < goal[r]
    /\ rpc[r] = "offer" => offered[r] \in 1..goal[r]

\* run leaves its loop only when stop is closed; it is done before Close returns.
Stopping ==
  /\ closer = "open" <=> ~stopped
  /\ runner \notin {"select", "sending"} => stopped
  /\ closer = "closed" => runner = "done"

\* Until stop is closed every accepted event is an early one.
EarlyInv ==
  /\ early <= Len(accepted)
  /\ ~stopped => early = Len(accepted)

\* After the last flush everything accepted before Close has been sent.
LastFlushInv == runner \in {"last_sending", "done"} => Len(sent) >= early

BatcherInv == BatcherTypeOK /\ ReportersPlaced /\ HandedOnInOrder /\ Stopping /\ EarlyInv /\ LastFlushInv

-----------------------------------------------------------------------------
(* Sequences.                                                               *)

\* An event moves from the head of a queue to the end of the batch.
LEMMA MoveOne ==
  ASSUME NEW s \in Seq(Events), NEW b \in Seq(Events), NEW h \in Events, NEW t \in Seq(Events)
  PROVE  s \o Append(b, h) \o t = s \o b \o (<<h>> \o t)
<1>1. s \o b \in Seq(Events) /\ <<h>> \in Seq(Events)
  BY ConcatProperties
<1>2. Append(b, h) = b \o <<h>>
  BY AppendIsConcat
<1>3. s \o (b \o <<h>>) = (s \o b) \o <<h>>
  BY <1>1, ConcatAssociative
<1>4. ((s \o b) \o <<h>>) \o t = (s \o b) \o (<<h>> \o t)
  BY <1>1, ConcatAssociative
<1> QED BY <1>2, <1>3, <1>4

LEMMA HeadAndTail ==
  ASSUME NEW b \in Seq(Events), NEW q \in Seq(Events), q # << >>
  PROVE  /\ Append(b, Head(q)) \in Seq(Events) /\ Len(Append(b, Head(q))) = Len(b) + 1
         /\ Head(q) \in Events /\ Tail(q) \in Seq(Events) /\ Len(Tail(q)) = Len(q) - 1
         /\ q = <<Head(q)>> \o Tail(q)
<1>1. Head(q) \in Events /\ Tail(q) \in Seq(Events) /\ Len(Tail(q)) = Len(q) - 1
  BY HeadTailProperties
<1>2. Len(Append(b, Head(q))) = Len(b) + 1 /\ Append(b, Head(q)) \in Seq(Events)
  BY <1>1, AppendProperties
<1>3. q = <<Head(q)>> \o Tail(q)
  BY <1>1
<1> QED BY <1>1, <1>2, <1>3

\* An event is accepted at the end of the queue.
LEMMA AcceptLast ==
  ASSUME NEW s \in Seq(Events), NEW b \in Seq(Events), NEW q \in Seq(Events), NEW e \in Events
  PROVE  s \o b \o Append(q, e) = Append(s \o b \o q, e)
<1>1. s \o b \in Seq(Events) /\ <<e>> \in Seq(Events)
  BY ConcatProperties
<1>2. s \o b \o q \in Seq(Events)
  BY <1>1, ConcatProperties
<1>3. Append(q, e) = q \o <<e>> /\ Append(s \o b \o q, e) = s \o b \o q \o <<e>>
  BY <1>2, AppendIsConcat
<1>4. (s \o b) \o (q \o <<e>>) = (s \o b \o q) \o <<e>>
  BY <1>1, ConcatAssociative
<1> QED BY <1>3, <1>4

\* A batch is moved behind what was sent.
LEMMA MoveBatch ==
  ASSUME NEW s \in Seq(Events), NEW b \in Seq(Events), NEW q \in Seq(Events)
  PROVE  /\ s \o b \in Seq(Events) /\ Len(s \o b) = Len(s) + Len(b)
         /\ (s \o b) \o << >> \o q = s \o b \o q
BY ConcatProperties, ConcatEmptySeq

LEMMA EmptyBatch == << >> \in Seq(Events) /\ Len(<< >>) = 0
BY EmptySeq

-----------------------------------------------------------------------------
\* What a flush does, wherever it is called.
LEMMA FlushFacts ==
  ASSUME BatcherTypeOK, NEW events \in Seq(Events), Len(events) <= MaxSize,
         NEW whileSending \in RunnerStates, NEW otherwise \in RunnerStates,
         Flush(events, whileSending, otherwise)
  PROVE  /\ runner' \in {whileSending, otherwise} /\ batch' = << >>
         /\ inHand' \in Seq(Events) /\ Len(inHand') <= MaxSize
         /\ sent' \in Seq(Events) /\ Len(sent') >= Len(sent)
         /\ sent' = sent \o events
<1>1. sent \in Seq(Events) /\ inHand \in Seq(Events) /\ Len(inHand) <= MaxSize
  BY DEF BatcherTypeOK
<1>2. CASE events = << >>
  <2>1. runner' = otherwise /\ batch' = << >> /\ inHand' = inHand /\ sent' = sent
    BY <1>2 DEF Flush
  <2>2. sent \o events = sent
    BY <1>1, <1>2, ConcatEmptySeq
  <2>3. Len(sent) \in Nat
    BY <1>1, LenProperties
  <2> QED BY <1>1, <2>1, <2>2, <2>3
<1>3. CASE events # << >>
  <2>1. runner' = whileSending /\ batch' = << >> /\ inHand' = events /\ sent' = sent \o events
    BY <1>3 DEF Flush, AfterFlush
  <2>2. sent \o events \in Seq(Events) /\ Len(sent \o events) = Len(sent) + Len(events)
    BY <1>1, MoveBatch
  <2>3. Len(sent) \in Nat /\ Len(events) \in Nat
    BY <1>1, LenProperties
  <2> QED BY <2>1, <2>2, <2>3
<1> QED BY <1>2, <1>3

LEMMA BatcherStarts == BatcherInit => BatcherInv
<1> SUFFICES ASSUME BatcherInit PROVE BatcherInv
  OBVIOUS
<1>1. << >> \in Seq(Events) /\ Len(<< >>) = 0
  BY EmptyBatch
<1>2. BatcherTypeOK
  <2>1. 0 \in 0..MaxEvents /\ 0 <= QueueSize /\ 0 < MaxSize /\ 0 <= MaxSize
    BY BatcherAssumption
  <2>2. /\ rpc \in [Reporters -> {"idle", "check", "offer"}]
        /\ offered \in [Reporters -> 0..MaxEvents] /\ goal \in [Reporters -> 0..MaxEvents]
    BY <2>1 DEF BatcherInit
  <2>3. /\ queue \in Seq(Events) /\ Len(queue) <= QueueSize
        /\ batch \in Seq(Events) /\ Len(batch) < MaxSize
        /\ inHand \in Seq(Events) /\ Len(inHand) <= MaxSize
        /\ sent \in Seq(Events) /\ accepted \in Seq(Events)
    BY <1>1, <2>1, Zenon DEF BatcherInit
  <2>4. stopped \in BOOLEAN /\ ticked \in BOOLEAN /\ early \in Nat
    BY DEF BatcherInit
  <2>5. runner \in RunnerStates /\ closer \in {"open", "waiting", "closed"}
    BY DEF BatcherInit, RunnerStates
  <2> QED BY <2>2, <2>3, <2>4, <2>5 DEF BatcherTypeOK
<1>3. HandedOnInOrder
  BY <1>1, ConcatEmptySeq DEF BatcherInit, HandedOnInOrder
<1>4. ReportersPlaced
  BY DEF BatcherInit, ReportersPlaced
<1>5. Stopping /\ LastFlushInv
  BY DEF BatcherInit, Stopping, LastFlushInv
<1>6. EarlyInv
  BY <1>1 DEF BatcherInit, EarlyInv
<1> QED BY <1>2, <1>3, <1>4, <1>5, <1>6 DEF BatcherInv

LEMMA ReportStep ==
  ASSUME BatcherInv, NEW r \in Reporters, NEW n \in 1..MaxEvents, Report(r, n)
  PROVE  BatcherInv'
<1>1. UNCHANGED <<offered, queue, stopped, ticked, runner, batch, inHand, closer, sent, accepted, early>>
  BY DEF Report
<1>2. /\ rpc' = [rpc EXCEPT ![r] = "check"]
      /\ goal' = [goal EXCEPT ![r] = offered[r] + n]
      /\ offered[r] + n \in 0..MaxEvents /\ offered[r] < offered[r] + n
  BY BatcherAssumption DEF Report, BatcherInv, BatcherTypeOK
<1>3. BatcherTypeOK'
  BY <1>1, <1>2 DEF BatcherInv, BatcherTypeOK
<1>4. ReportersPlaced'
  BY <1>1, <1>2 DEF BatcherInv, BatcherTypeOK, ReportersPlaced
<1> QED BY <1>1, <1>3, <1>4 DEF BatcherInv, HandedOnInOrder, Stopping, EarlyInv, LastFlushInv

LEMMA CheckStep ==
  ASSUME BatcherInv, NEW r \in Reporters, Check(r)
  PROVE  BatcherInv'
<1>1. UNCHANGED <<goal, queue, stopped, ticked, runner, batch, inHand, closer, sent, accepted, early>>
  BY DEF Check
<1>2. /\ rpc' = [rpc EXCEPT ![r] = IF stopped THEN "idle" ELSE "offer"]
      /\ offered' = [offered EXCEPT ![r] = IF stopped THEN goal[r] ELSE offered[r] + 1]
      /\ offered[r] < goal[r] /\ offered[r] \in 0..MaxEvents /\ goal[r] \in 0..MaxEvents
  BY DEF Check, BatcherInv, BatcherTypeOK, ReportersPlaced
<1>3. offered'[r] \in 0..MaxEvents /\ (rpc'[r] = "offer" => offered'[r] \in 1..goal[r]) /\ rpc'[r] \in {"idle", "offer"}
  BY <1>2, BatcherAssumption DEF BatcherInv, BatcherTypeOK
<1>4. BatcherTypeOK'
  BY <1>1, <1>2, <1>3 DEF BatcherInv, BatcherTypeOK
<1>5. ReportersPlaced'
  BY <1>1, <1>2, <1>3 DEF BatcherInv, BatcherTypeOK, ReportersPlaced
<1> QED BY <1>1, <1>4, <1>5 DEF BatcherInv, HandedOnInOrder, Stopping, EarlyInv, LastFlushInv

LEMMA OfferStep ==
  ASSUME BatcherInv, NEW r \in Reporters, Offer(r)
  PROVE  BatcherInv'
<1> DEFINE e == <<r, offered[r]>>
<1>1. UNCHANGED <<offered, goal, stopped, ticked, runner, batch, inHand, closer, sent>>
  BY DEF Offer
<1>2. /\ queue' = Append(queue, e) /\ accepted' = Append(accepted, e)
      /\ Len(queue) < QueueSize
      /\ early' = IF stopped THEN early ELSE early + 1
      /\ rpc' = [rpc EXCEPT ![r] = IF offered[r] = goal[r] THEN "idle" ELSE "check"]
  BY DEF Offer, Room
<1>3. offered[r] \in 1..goal[r] /\ goal[r] \in 0..MaxEvents /\ e \in Events
  BY DEF Offer, BatcherInv, BatcherTypeOK, ReportersPlaced, Events
<1>4. queue \in Seq(Events) /\ accepted \in Seq(Events) /\ sent \in Seq(Events) /\ batch \in Seq(Events)
  BY DEF BatcherInv, BatcherTypeOK
<1>5. /\ queue' \in Seq(Events) /\ Len(queue') = Len(queue) + 1 /\ Len(queue) \in Nat
      /\ accepted' \in Seq(Events) /\ Len(accepted') = Len(accepted) + 1 /\ Len(accepted) \in Nat
  BY <1>2, <1>3, <1>4, AppendProperties, LenProperties
<1>6. BatcherTypeOK'
  BY <1>1, <1>2, <1>5, BatcherAssumption DEF BatcherInv, BatcherTypeOK
<1>7. ReportersPlaced'
  BY <1>1, <1>2, <1>3 DEF BatcherInv, BatcherTypeOK, ReportersPlaced
<1>8. HandedOnInOrder'
  <2>1. sent \o batch \o Append(queue, e) = Append(sent \o batch \o queue, e)
    <3>1. e \in Events
      BY <1>3
    <3> HIDE DEF e
    <3> QED BY <1>4, <3>1, AcceptLast, Zenon
  <2> QED BY <1>1, <1>2, <2>1 DEF BatcherInv, HandedOnInOrder
<1>9. EarlyInv' /\ LastFlushInv' /\ Stopping'
  <2>1. early \in Nat /\ Len(sent) \in Nat
    BY <1>4, LenProperties DEF BatcherInv, BatcherTypeOK
  <2>2. Stopping'
    BY <1>1 DEF BatcherInv, Stopping
  <2>3. \/ stopped /\ early' = early
        \/ ~stopped /\ early' = early + 1 /\ early = Len(accepted) /\ runner \in {"select", "sending"}
    <3>1. CASE stopped
      BY <1>2, <3>1
    <3>2. CASE ~stopped
      BY <1>2, <3>2 DEF BatcherInv, EarlyInv, Stopping
    <3> QED BY <3>1, <3>2
  <2>4. early <= Len(accepted)
    BY DEF BatcherInv, EarlyInv
  <2>5. EarlyInv'
    BY <1>1, <1>5, <2>1, <2>3, <2>4 DEF EarlyInv
  <2>6. LastFlushInv'
    BY <1>1, <2>3 DEF BatcherInv, LastFlushInv
  <2> QED BY <2>2, <2>5, <2>6
<1> QED BY <1>6, <1>7, <1>8, <1>9 DEF BatcherInv

LEMMA GiveUpStep ==
  ASSUME BatcherInv, NEW r \in Reporters, GiveUpReport(r)
  PROVE  BatcherInv'
<1>1. UNCHANGED <<goal, queue, stopped, ticked, runner, batch, inHand, closer, sent, accepted, early>>
  BY DEF GiveUpReport
<1>2. /\ rpc' = [rpc EXCEPT ![r] = "idle"]
      /\ offered' = [offered EXCEPT ![r] = goal[r]]
  BY DEF GiveUpReport
<1>3. BatcherTypeOK'
  BY <1>1, <1>2 DEF BatcherInv, BatcherTypeOK
<1>4. ReportersPlaced'
  BY <1>1, <1>2 DEF BatcherInv, BatcherTypeOK, ReportersPlaced
<1> QED BY <1>1, <1>3, <1>4 DEF BatcherInv, HandedOnInOrder, Stopping, EarlyInv, LastFlushInv

\* TakeEvent and DrainEvent.
LEMMA TakeStep ==
  ASSUME BatcherInv, NEW where \in RunnerStates, NEW whileSending \in RunnerStates,
         <<where, whileSending>> \in {<<"select", "sending">>, <<"drain", "drain_sending">>},
         Take(where, whileSending)
  PROVE  BatcherInv'
<1> DEFINE events == Append(batch, Head(queue))
<1>1. /\ UNCHANGED <<rpc, offered, goal, stopped, ticked, closer, accepted, early>>
      /\ runner = where /\ queue # << >> /\ queue' = Tail(queue)
      /\ \/ Full(events) /\ Flush(events, whileSending, where)
         \/ ~Full(events) /\ batch' = events /\ UNCHANGED <<runner, inHand, sent>>
  BY DEF Take
<1>2. /\ sent \in Seq(Events) /\ batch \in Seq(Events) /\ queue \in Seq(Events)
      /\ Len(batch) < MaxSize /\ Len(queue) <= QueueSize /\ early \in Nat
  BY DEF BatcherInv, BatcherTypeOK
<1>3. Len(sent) \in Nat /\ Len(batch) \in Nat /\ Len(queue) \in Nat
  BY <1>2, LenProperties
<1>4. /\ events \in Seq(Events) /\ Len(events) = Len(batch) + 1
      /\ queue' \in Seq(Events) /\ Len(queue') = Len(queue) - 1
      /\ sent \o events \o queue' = sent \o batch \o queue
  <2>1. queue # << >> /\ sent \in Seq(Events) /\ batch \in Seq(Events) /\ queue \in Seq(Events)
    BY <1>1, <1>2
  <2> DEFINE h == Head(queue)
             t == Tail(queue)
  <2>2. /\ Append(batch, h) \in Seq(Events) /\ Len(Append(batch, h)) = Len(batch) + 1
        /\ h \in Events /\ t \in Seq(Events) /\ Len(t) = Len(queue) - 1
        /\ queue = <<h>> \o t
    BY <2>1, HeadAndTail
  <2> HIDE DEF h, t
  <2>3. sent \o Append(batch, h) \o t = sent \o batch \o (<<h>> \o t)
    <3>1. sent \in Seq(Events) /\ batch \in Seq(Events) /\ h \in Events /\ t \in Seq(Events)
      BY <2>1, <2>2
    <3> QED BY <3>1, MoveOne, Zenon
  <2>4. events = Append(batch, h) /\ queue' = t
    BY <1>1 DEF h, t
  <2>5. sent \o Append(batch, h) \o t = sent \o batch \o queue
    BY <2>2, <2>3, Zenon
  <2> QED BY <2>2, <2>4, <2>5, Zenon
<1>5. Len(events) <= MaxSize
  BY <1>2, <1>3, <1>4, BatcherAssumption
<1>6. /\ batch' \in Seq(Events) /\ Len(batch') < MaxSize
      /\ inHand' \in Seq(Events) /\ Len(inHand') <= MaxSize
      /\ sent' \in Seq(Events) /\ runner' \in {where, whileSending}
      /\ sent' \o batch' \o queue' = sent \o events \o queue'
  <2>1. CASE Full(events) /\ Flush(events, whileSending, where)
    <3>1. /\ runner' \in {whileSending, where} /\ batch' = << >>
          /\ inHand' \in Seq(Events) /\ Len(inHand') <= MaxSize
          /\ sent' \in Seq(Events) /\ sent' = sent \o events
      BY <1>4, <1>5, <2>1, FlushFacts DEF BatcherInv
    <3>2. sent' \o batch' \o queue' = sent \o events \o queue'
      BY <1>2, <1>4, <3>1, MoveBatch
    <3>3. batch' \in Seq(Events) /\ Len(batch') < MaxSize
      BY <3>1, EmptyBatch, BatcherAssumption
    <3> QED BY <3>1, <3>2, <3>3
  <2>2. CASE ~Full(events) /\ batch' = events /\ UNCHANGED <<runner, inHand, sent>>
    <3>1. Len(events) < MaxSize
      BY <1>2, <1>3, <1>4, <2>2, BatcherAssumption DEF Full
    <3> QED BY <1>1, <1>2, <1>4, <2>2, <3>1 DEF BatcherInv, BatcherTypeOK
  <2> QED BY <1>1, <2>1, <2>2
<1>7. BatcherTypeOK'
  <2>1. Len(queue') <= QueueSize
    BY <1>2, <1>3, <1>4, BatcherAssumption
  <2> QED BY <1>1, <1>4, <1>6, <2>1 DEF BatcherInv, BatcherTypeOK
<1>8. HandedOnInOrder'
  BY <1>1, <1>4, <1>6 DEF BatcherInv, HandedOnInOrder
<1>9. Stopping' /\ LastFlushInv'
  BY <1>1, <1>6 DEF BatcherInv, Stopping, LastFlushInv
<1>10. ReportersPlaced' /\ EarlyInv'
  BY <1>1 DEF BatcherInv, ReportersPlaced, EarlyInv
<1> QED BY <1>7, <1>8, <1>9, <1>10 DEF BatcherInv

\* FlushOnTick and EndDrain: the batch is sent, or is empty.
LEMMA BatchFlushed ==
  ASSUME BatcherInv, NEW whileSending \in RunnerStates, NEW otherwise \in RunnerStates,
         Flush(batch, whileSending, otherwise), queue' = queue, accepted' = accepted
  PROVE  /\ batch' \in Seq(Events) /\ Len(batch') < MaxSize
         /\ inHand' \in Seq(Events) /\ Len(inHand') <= MaxSize
         /\ sent' \in Seq(Events) /\ runner' \in {whileSending, otherwise}
         /\ HandedOnInOrder'
         /\ queue = << >> => Len(sent') = Len(accepted)
<1>1. /\ sent \in Seq(Events) /\ batch \in Seq(Events) /\ queue \in Seq(Events)
      /\ Len(batch) < MaxSize /\ Len(batch) \in Nat
  BY LenProperties DEF BatcherInv, BatcherTypeOK
<1>2. Len(batch) <= MaxSize
  BY <1>1, BatcherAssumption
<1>3. /\ runner' \in {whileSending, otherwise} /\ batch' = << >>
      /\ inHand' \in Seq(Events) /\ Len(inHand') <= MaxSize
      /\ sent' \in Seq(Events) /\ sent' = sent \o batch
  BY <1>1, <1>2, FlushFacts DEF BatcherInv
<1>4. batch' \in Seq(Events) /\ Len(batch') < MaxSize
  BY <1>3, EmptyBatch, BatcherAssumption
<1>5. sent' \o batch' \o queue = sent \o batch \o queue
  BY <1>1, <1>3, MoveBatch
<1>6. HandedOnInOrder'
  BY <1>5 DEF BatcherInv, HandedOnInOrder
<1>7. ASSUME queue = << >> PROVE Len(sent') = Len(accepted)
  <2>1. (sent \o batch) \o queue = sent \o batch
    BY <1>3, <1>7, ConcatEmptySeq
  <2> QED BY <1>3, <2>1 DEF BatcherInv, HandedOnInOrder
<1> QED BY <1>3, <1>4, <1>6, <1>7

LEMMA FlushOnTickStep ==
  ASSUME BatcherInv, FlushOnTick
  PROVE  BatcherInv'
<1>1. /\ UNCHANGED <<rpc, offered, goal, queue, stopped, closer, accepted, early>>
      /\ ticked' = FALSE /\ runner = "select" /\ Flush(batch, "sending", "select")
  BY DEF FlushOnTick
<1>2. "sending" \in RunnerStates /\ "select" \in RunnerStates
  BY DEF RunnerStates
<1>3. /\ batch' \in Seq(Events) /\ Len(batch') < MaxSize
      /\ inHand' \in Seq(Events) /\ Len(inHand') <= MaxSize
      /\ sent' \in Seq(Events) /\ runner' \in {"sending", "select"}
      /\ HandedOnInOrder'
  BY <1>1, <1>2, BatchFlushed
<1>4. BatcherTypeOK'
  BY <1>1, <1>2, <1>3 DEF BatcherInv, BatcherTypeOK
<1>5. Stopping' /\ LastFlushInv'
  BY <1>1, <1>3 DEF BatcherInv, Stopping, LastFlushInv
<1> QED BY <1>1, <1>3, <1>4, <1>5 DEF BatcherInv, ReportersPlaced, EarlyInv

\* The queue is empty when run ends, so that everything accepted has gone.
LEMMA EndDrainStep ==
  ASSUME BatcherInv, EndDrain
  PROVE  BatcherInv'
<1>1. /\ UNCHANGED <<rpc, offered, goal, queue, stopped, ticked, closer, accepted, early>>
      /\ runner = "drain" /\ queue = << >> /\ Flush(batch, "last_sending", "done")
  BY DEF EndDrain
<1>2. "last_sending" \in RunnerStates /\ "done" \in RunnerStates
  BY DEF RunnerStates
<1>3. /\ batch' \in Seq(Events) /\ Len(batch') < MaxSize
      /\ inHand' \in Seq(Events) /\ Len(inHand') <= MaxSize
      /\ sent' \in Seq(Events) /\ runner' \in {"last_sending", "done"}
      /\ HandedOnInOrder' /\ Len(sent') = Len(accepted)
  BY <1>1, <1>2, BatchFlushed
<1>4. BatcherTypeOK'
  BY <1>1, <1>2, <1>3 DEF BatcherInv, BatcherTypeOK
<1>5. LastFlushInv'
  BY <1>1, <1>3 DEF BatcherInv, EarlyInv, LastFlushInv
<1>6. Stopping'
  BY <1>1, <1>3 DEF BatcherInv, Stopping
<1> QED BY <1>1, <1>3, <1>4, <1>5, <1>6 DEF BatcherInv, ReportersPlaced, EarlyInv

LEMMA SeeStopStep ==
  ASSUME BatcherInv, SeeStop
  PROVE  BatcherInv'
<1>1. /\ UNCHANGED <<rpc, offered, goal, queue, stopped, ticked, batch, inHand, closer, sent, accepted, early>>
      /\ runner = "select" /\ stopped /\ runner' = "drain"
  BY DEF SeeStop, AfterStop
<1>2. BatcherTypeOK'
  BY <1>1 DEF BatcherInv, BatcherTypeOK, RunnerStates
<1>3. Stopping' /\ LastFlushInv'
  BY <1>1 DEF BatcherInv, Stopping, LastFlushInv
<1> QED BY <1>1, <1>2, <1>3 DEF BatcherInv, HandedOnInOrder, ReportersPlaced, EarlyInv

LEMMA SentStep ==
  ASSUME BatcherInv, Sent
  PROVE  BatcherInv'
<1>1. UNCHANGED <<rpc, offered, goal, queue, stopped, ticked, batch, closer, sent, accepted, early>>
  BY DEF Sent
<1>2. /\ inHand' = << >>
      /\ \/ runner = "sending" /\ runner' = "select"
         \/ runner = "drain_sending" /\ runner' = "drain"
         \/ runner = "last_sending" /\ runner' = "done"
  BY DEF Sent
<1>3. inHand' \in Seq(Events) /\ Len(inHand') <= MaxSize
  BY <1>2, EmptyBatch, BatcherAssumption
<1>4. BatcherTypeOK'
  BY <1>1, <1>2, <1>3 DEF BatcherInv, BatcherTypeOK, RunnerStates
<1>5. Stopping' /\ LastFlushInv'
  BY <1>1, <1>2 DEF BatcherInv, Stopping, LastFlushInv
<1> QED BY <1>1, <1>4, <1>5 DEF BatcherInv, HandedOnInOrder, ReportersPlaced, EarlyInv

LEMMA CloseStep ==
  ASSUME BatcherInv, Close \/ CloseReturns \/ TickerFires
  PROVE  BatcherInv'
<1>1. UNCHANGED <<rpc, offered, goal, queue, runner, batch, inHand, sent, accepted, early>>
  BY DEF Close, CloseReturns, TickerFires
<1>2. /\ stopped' \in BOOLEAN /\ ticked' \in BOOLEAN
      /\ closer' \in {"open", "waiting", "closed"} /\ (stopped => stopped')
  BY DEF BatcherInv, BatcherTypeOK, Close, CloseReturns, TickerFires
<1>3. BatcherTypeOK'
  BY <1>1, <1>2 DEF BatcherInv, BatcherTypeOK
<1>4. Stopping'
  <2>1. CASE Close
    BY <2>1 DEF BatcherInv, Stopping, Close
  <2>2. CASE CloseReturns
    BY <2>2 DEF BatcherInv, Stopping, CloseReturns
  <2>3. CASE TickerFires
    BY <2>3 DEF BatcherInv, Stopping, TickerFires
  <2> QED BY <2>1, <2>2, <2>3
<1>5. EarlyInv'
  BY <1>1, <1>2, Zenon DEF BatcherInv, EarlyInv
<1> QED BY <1>1, <1>3, <1>4, <1>5 DEF BatcherInv, HandedOnInOrder, ReportersPlaced, LastFlushInv

LEMMA BatcherSteps == BatcherInv /\ [BatcherNext]_batcherVars => BatcherInv'
<1> SUFFICES ASSUME BatcherInv, [BatcherNext]_batcherVars PROVE BatcherInv'
  OBVIOUS
<1>1. CASE UNCHANGED batcherVars
  <2>1. UNCHANGED <<rpc, offered, goal, queue, stopped, ticked, runner, batch, inHand, closer, sent, accepted, early>>
    BY <1>1 DEF batcherVars
  <2>2. BatcherTypeOK'
    BY <2>1 DEF BatcherInv, BatcherTypeOK
  <2> QED BY <2>1, <2>2 DEF BatcherInv, ReportersPlaced, HandedOnInOrder, Stopping, EarlyInv, LastFlushInv
<1>2. ASSUME NEW r \in Reporters, (\E n \in 1..MaxEvents : Report(r, n)) \/ Check(r) \/ Offer(r) \/ GiveUpReport(r)
      PROVE  BatcherInv'
  BY <1>2, ReportStep, CheckStep, OfferStep, GiveUpStep
<1>3. CASE TakeEvent \/ DrainEvent
  <2>1. {"select", "sending", "drain", "drain_sending"} \subseteq RunnerStates
    BY DEF RunnerStates
  <2> QED BY <1>3, <2>1, TakeStep DEF TakeEvent, DrainEvent
<1>4. CASE FlushOnTick \/ SeeStop \/ EndDrain \/ Sent
  BY <1>4, FlushOnTickStep, SeeStopStep, EndDrainStep, SentStep
<1>5. CASE TickerFires \/ Close \/ CloseReturns
  BY <1>5, CloseStep
<1> QED BY <1>1, <1>2, <1>3, <1>4, <1>5 DEF BatcherNext, Run

LEMMA BatcherInvariance == BatcherSpec => []BatcherInv
BY BatcherStarts, BatcherSteps, PTL DEF BatcherSpec

-----------------------------------------------------------------------------
(* The batcher keeps within its bounds: the queue within its capacity, the    *)
(* batch below maxSize, and no send takes more than maxSize events.           *)
THEOREM BatcherKeepsBounds == BatcherSpec => []BatcherTypeOK
<1>1. BatcherInv => BatcherTypeOK
  BY DEF BatcherInv
<1> QED BY <1>1, BatcherInvariance, PTL

(* Events leave the batcher in the order in which Report accepted them, none  *)
(* lost and none twice, and Close returns after those accepted before it.     *)
THEOREM NothingIsLost == BatcherSpec => []NothingLost
<1>1. BatcherInv => NothingLost
  BY DEF BatcherInv, NothingLost, ClosedMeansFlushed, Stopping, LastFlushInv
<1> QED BY <1>1, BatcherInvariance, PTL

-----------------------------------------------------------------------------
(* The distribution of configurations to the gateways' caches (ConfigSync).   *)
\* A channel is empty or holds the current version; a stream that has emptied
\* it is reading, or has sent, that version.
ChannelInv ==
  \A g \in Gateways :
    /\ channel[g] \in {0, version}
    /\ phase[g] \notin Subscribed => channel[g] = 0
    /\ got[g] <= version \/ phase[g] \notin {"subscribed", "reading"}
    /\ phase[g] = "idle" => last[g] <= version
    /\ phase[g] = "idle" /\ channel[g] = 0 => last[g] = version

\* What was announced is in the store, which only grows.
AnnouncedInv ==
  \A v \in 1..version, p \in Parts : announced[v][p] <= content[p]

\* The parts read so far are at least as new as those cached and as those
\* announced when the reading began.
ReadingInv ==
  \A g \in Gateways : phase[g] \in Reading =>
    /\ trigger[g].reading \in 1..version
    /\ \A p \in Parts : p < next[g] =>
         /\ draft[g][p] >= cache[g].parts[p]
         /\ draft[g][p] <= content[p]
         /\ draft[g][p] >= announced[trigger[g].reading][p]

CacheInv ==
  \A g \in Gateways :
    /\ cache[g].epoch <= epoch
    /\ \A p \in Parts : cache[g].parts[p] <= content[p]
    /\ cache[g].epoch = epoch =>
         /\ cache[g].version <= version
         /\ trigger[g].cached \in 1..version
         /\ \A p \in Parts : cache[g].parts[p] >= announced[trigger[g].cached][p]

SyncInv == SyncTypeOK /\ ChannelInv /\ AnnouncedInv /\ ReadingInv /\ CacheInv

Triggers == [reading: Nat, cached: Nat]

-----------------------------------------------------------------------------
LEMMA BeginReadingFacts ==
  ASSUME SyncTypeOK, NEW g \in Gateways, NEW received \in Nat, NEW since \in Nat,
         BeginReading(g, received, since)
  PROVE  /\ next' \in [Gateways -> 1..(NumParts + 1)] /\ next'[g] = 1
         /\ got' \in [Gateways -> Nat] /\ got'[g] = received
         /\ trigger' \in [Gateways -> Triggers]
         /\ trigger'[g].reading = since /\ trigger'[g].cached = trigger[g].cached
         /\ \A o \in Gateways \ {g} : next'[o] = next[o] /\ got'[o] = got[o] /\ trigger'[o] = trigger[o]
<1>1. 1 \in 1..(NumParts + 1)
  BY ConfigSyncAssumption
<1>2. next' \in [Gateways -> 1..(NumParts + 1)] /\ next'[g] = 1
  BY <1>1 DEF SyncTypeOK, BeginReading, FirstPart
<1>3. got' \in [Gateways -> Nat] /\ got'[g] = received
  BY DEF SyncTypeOK, BeginReading
<1>4. trigger \in [Gateways -> Triggers] /\ trigger' = [trigger EXCEPT ![g].reading = since]
  BY DEF SyncTypeOK, BeginReading, Triggers
<1>5. [trigger[g] EXCEPT !.reading = since] \in Triggers
  BY <1>4 DEF Triggers
<1>6. trigger' \in [Gateways -> Triggers] /\ trigger'[g].reading = since /\ trigger'[g].cached = trigger[g].cached
  BY <1>4, <1>5 DEF Triggers
<1>7. \A o \in Gateways \ {g} : next'[o] = next[o] /\ got'[o] = got[o] /\ trigger'[o] = trigger[o]
  BY <1>4 DEF SyncTypeOK, BeginReading
<1> QED BY <1>2, <1>3, <1>6, <1>7

LEMMA UpdateCacheFacts ==
  ASSUME SyncTypeOK, NEW g \in Gateways, NEW v \in Nat, UpdateCache(g, v)
  PROVE  /\ cache' \in [Gateways -> CachedSnapshots]
         /\ cache'[g].version = v /\ cache'[g].parts = draft[g] /\ cache'[g].epoch = epoch
         /\ trigger' \in [Gateways -> Triggers]
         /\ trigger'[g].cached = trigger[g].reading /\ trigger'[g].reading = trigger[g].reading
         /\ \A o \in Gateways \ {g} : cache'[o] = cache[o] /\ trigger'[o] = trigger[o]
<1>1. [version |-> v, parts |-> draft[g], epoch |-> epoch] \in CachedSnapshots
  BY DEF SyncTypeOK, CachedSnapshots
<1>2. trigger \in [Gateways -> Triggers] /\ trigger' = [trigger EXCEPT ![g].cached = trigger[g].reading]
  BY DEF SyncTypeOK, UpdateCache, Triggers
<1>3. [trigger[g] EXCEPT !.cached = trigger[g].reading] \in Triggers
  BY <1>2 DEF Triggers
<1>4. /\ trigger' \in [Gateways -> Triggers]
      /\ trigger'[g].cached = trigger[g].reading /\ trigger'[g].reading = trigger[g].reading
  BY <1>2, <1>3 DEF Triggers
<1>5. /\ cache' \in [Gateways -> CachedSnapshots]
      /\ cache'[g] = [version |-> v, parts |-> draft[g], epoch |-> epoch]
      /\ \A o \in Gateways \ {g} : cache'[o] = cache[o] /\ trigger'[o] = trigger[o]
  BY <1>1, <1>2 DEF SyncTypeOK, UpdateCache
<1> QED BY <1>4, <1>5

\* A snapshot is labelled with the version read: it is never below the one
\* received, as the notifier only counts up.
LEMMA LabelFacts ==
  ASSUME NEW received \in Nat, NEW current \in Nat, received <= current
  PROVE  Label(received, current) = current
BY DEF Label

LEMMA SyncStarts == SyncInit => SyncInv
<1> SUFFICES ASSUME SyncInit PROVE SyncInv
  OBVIOUS
<1>1. SyncTypeOK
  <2>1. /\ content \in Contents /\ version = 1 /\ version \in Nat \ {0}
        /\ channel \in [Gateways -> Nat]
        /\ got \in [Gateways -> Nat] /\ last \in [Gateways -> Nat]
        /\ failures \in Nat /\ epoch \in Nat
        /\ trigger \in [Gateways -> [reading: Nat, cached: Nat]]
    BY DEF SyncInit, Contents
  <2>2. /\ admin \in [Admins -> {"idle", "written"}] /\ phase \in [Gateways -> Phases]
        /\ next \in [Gateways -> 1..(NumParts + 1)]
    BY ConfigSyncAssumption DEF SyncInit, Phases
  <2>3. draft \in [Gateways -> Contents] /\ cache \in [Gateways -> CachedSnapshots]
    BY DEF SyncInit, Contents, CachedSnapshots
  <2>4. announced \in [1..version -> Contents]
    <3>1. 1..version = {1}
      BY <2>1
    <3> QED BY <3>1 DEF SyncInit, Contents
  <2> QED BY <2>1, <2>2, <2>3, <2>4 DEF SyncTypeOK
<1>2. ChannelInv /\ ReadingInv
  BY DEF SyncInit, ChannelInv, ReadingInv, Reading
<1>3. AnnouncedInv /\ CacheInv
  <2>1. 1..1 = {1}
    OBVIOUS
  <2> QED BY <2>1 DEF SyncInit, AnnouncedInv, CacheInv
<1> QED BY <1>1, <1>2, <1>3 DEF SyncInv

LEMMA PartWrittenStep ==
  ASSUME SyncInv, NEW a \in Admins, NEW p \in Parts, Write(a, p)
  PROVE  SyncInv'
<1>1. /\ UNCHANGED <<version, channel, phase, next, draft, got, last, cache, failures, epoch, announced, trigger>>
      /\ content' = [content EXCEPT ![p] = @ + 1]
      /\ admin' = [admin EXCEPT ![a] = "written"]
  BY DEF Write
<1>2. /\ content' \in Contents
      /\ \A q \in Parts : content[q] <= content'[q] /\ content[q] \in Nat /\ content'[q] \in Nat
  BY <1>1 DEF SyncInv, SyncTypeOK, Contents
<1>3. SyncTypeOK'
  BY <1>1, <1>2 DEF SyncInv, SyncTypeOK
<1>4. ChannelInv'
  BY <1>1 DEF SyncInv, ChannelInv
<1>5. AnnouncedInv'
  <2>1. \A v \in 1..version, q \in Parts : announced[v][q] \in Nat
    BY DEF SyncInv, SyncTypeOK, Contents
  <2> QED BY <1>1, <1>2, <2>1 DEF SyncInv, AnnouncedInv
<1>6. ReadingInv'
  <2>1. \A g \in Gateways, q \in Parts : draft[g][q] \in Nat
    BY DEF SyncInv, SyncTypeOK, Contents
  <2> QED BY <1>1, <1>2, <2>1 DEF SyncInv, ReadingInv
<1>7. CacheInv'
  <2>1. \A g \in Gateways, q \in Parts : cache[g].parts[q] \in Nat
    BY DEF SyncInv, SyncTypeOK, Contents, CachedSnapshots
  <2> QED BY <1>1, <1>2, <2>1 DEF SyncInv, CacheInv
<1> QED BY <1>3, <1>4, <1>5, <1>6, <1>7 DEF SyncInv

LEMMA AnnounceStep ==
  ASSUME SyncInv, NEW a \in Admins, Notify(a)
  PROVE  SyncInv'
<1>1. /\ UNCHANGED <<content, phase, next, draft, got, last, cache, failures, epoch, trigger>>
      /\ version' = version + 1
      /\ admin' = [admin EXCEPT ![a] = "idle"]
      /\ announced' = [v \in 1..(version + 1) |-> IF v = version + 1 THEN content ELSE announced[v]]
      /\ version \in Nat \ {0} /\ content \in Contents /\ announced \in [1..version -> Contents]
  BY DEF Notify, SyncInv, SyncTypeOK
<1>2. /\ channel' \in [Gateways -> Nat]
      /\ \A g \in Gateways : channel'[g] = IF phase[g] \in Subscribed THEN version + 1 ELSE channel[g]
  BY <1>1 DEF Notify, Enqueue, SyncInv, SyncTypeOK
<1>3. \A v \in 1..version : v \in 1..version' /\ announced'[v] = announced[v]
  BY <1>1
<1>4. announced'[version'] = content
  BY <1>1
<1>5. SyncTypeOK'
  BY <1>1, <1>2 DEF SyncInv, SyncTypeOK
<1>6. ChannelInv'
  <2>1. \A g \in Gateways : phase[g] = "idle" => phase[g] \in Subscribed
    BY DEF Subscribed
  <2>2. \A g \in Gateways : got[g] \in Nat /\ last[g] \in Nat
    BY DEF SyncInv, SyncTypeOK
  <2>3. \A g \in Gateways : phase[g] \notin Subscribed => channel[g] = 0
    BY DEF SyncInv, ChannelInv
  <2> QED BY <1>1, <1>2, <2>1, <2>2, <2>3 DEF SyncInv, ChannelInv
<1>7. AnnouncedInv'
  <2>1. \A v \in 1..version' : v = version' \/ v \in 1..version
    BY <1>1
  <2>2. \A p \in Parts : content[p] \in Nat
    BY <1>1 DEF Contents
  <2> QED BY <1>1, <1>3, <1>4, <2>1, <2>2 DEF SyncInv, AnnouncedInv
<1>8. ReadingInv'
  BY <1>1, <1>3 DEF SyncInv, ReadingInv
<1>9. CacheInv'
  <2>1. \A g \in Gateways : cache[g].version \in Nat
    BY DEF SyncInv, SyncTypeOK, CachedSnapshots
  <2> QED BY <1>1, <1>3, <2>1 DEF SyncInv, CacheInv
<1> QED BY <1>5, <1>6, <1>7, <1>8, <1>9 DEF SyncInv

LEMMA StartFetchStep ==
  ASSUME SyncInv, NEW g \in Gateways, StartFetch(g)
  PROVE  SyncInv'
<1>0. version \in Nat \ {0} /\ version \in 1..version
  BY DEF SyncInv, SyncTypeOK
<1>1. /\ UNCHANGED <<content, version, channel, admin, draft, last, cache, failures, epoch, announced>>
      /\ phase[g] = "offline" /\ phase' \in [Gateways -> Phases]
      /\ phase'[g] = "fetch" /\ \A o \in Gateways \ {g} : phase'[o] = phase[o]
  BY DEF StartFetch, SyncInv, SyncTypeOK, Phases
<1>2. /\ next' \in [Gateways -> 1..(NumParts + 1)] /\ next'[g] = 1
      /\ got' \in [Gateways -> Nat] /\ got'[g] = 0
      /\ trigger' \in [Gateways -> Triggers]
      /\ trigger'[g].reading = version /\ trigger'[g].cached = trigger[g].cached
      /\ \A o \in Gateways \ {g} : next'[o] = next[o] /\ got'[o] = got[o] /\ trigger'[o] = trigger[o]
  BY <1>0, BeginReadingFacts DEF SyncInv, StartFetch
<1>3. SyncTypeOK'
  BY <1>1, <1>2 DEF SyncInv, SyncTypeOK, Triggers
<1>4. ChannelInv'
  BY <1>1, <1>2 DEF SyncInv, ChannelInv, Subscribed
<1>5. AnnouncedInv'
  BY <1>1 DEF SyncInv, AnnouncedInv
<1>6. ReadingInv'
  BY <1>0, <1>1, <1>2 DEF SyncInv, ReadingInv, Parts
<1>7. CacheInv'
  BY <1>1, <1>2 DEF SyncInv, CacheInv
<1> QED BY <1>3, <1>4, <1>5, <1>6, <1>7 DEF SyncInv

LEMMA ReadPartStep ==
  ASSUME SyncInv, NEW g \in Gateways, ReadPart(g)
  PROVE  SyncInv'
<1> DEFINE i == next[g]
<1>1. /\ UNCHANGED <<content, version, channel, admin, phase, got, last, cache, failures, epoch, announced, trigger>>
      /\ phase[g] \in Reading /\ i \in Parts
      /\ next' = [next EXCEPT ![g] = i + 1]
      /\ draft' = [draft EXCEPT ![g][i] = content[i]]
  BY DEF ReadPart, SyncInv, SyncTypeOK, Parts
<1>2. /\ next' \in [Gateways -> 1..(NumParts + 1)] /\ next'[g] = i + 1
      /\ \A o \in Gateways \ {g} : next'[o] = next[o]
  BY <1>1, ConfigSyncAssumption DEF SyncInv, SyncTypeOK, Parts
<1>3. [draft[g] EXCEPT ![i] = content[i]] \in Contents
  BY <1>1 DEF SyncInv, SyncTypeOK, Contents
<1>4. /\ draft' \in [Gateways -> Contents]
      /\ draft'[g][i] = content[i]
      /\ \A p \in Parts \ {i} : draft'[g][p] = draft[g][p]
      /\ \A o \in Gateways \ {g} : draft'[o] = draft[o]
  BY <1>1, <1>3 DEF SyncInv, SyncTypeOK, Contents
<1>5. i \in Nat
  BY <1>1 DEF Parts
<1> HIDE DEF i
<1>6. SyncTypeOK'
  BY <1>1, <1>2, <1>4 DEF SyncInv, SyncTypeOK
<1>7. ChannelInv'
  BY <1>1 DEF SyncInv, ChannelInv
<1>8. AnnouncedInv'
  BY <1>1 DEF SyncInv, AnnouncedInv
<1>9. CacheInv'
  BY <1>1 DEF SyncInv, CacheInv
<1>10. ReadingInv'
  <2> SUFFICES ASSUME NEW o \in Gateways, phase[o] \in Reading
               PROVE  /\ trigger[o].reading \in 1..version
                      /\ \A p \in Parts : p < next'[o] =>
                           /\ draft'[o][p] >= cache[o].parts[p]
                           /\ draft'[o][p] <= content[p]
                           /\ draft'[o][p] >= announced[trigger[o].reading][p]
    BY <1>1 DEF ReadingInv
  <2>1. /\ trigger[o].reading \in 1..version
        /\ \A p \in Parts : p < next[o] =>
             /\ draft[o][p] >= cache[o].parts[p]
             /\ draft[o][p] <= content[p]
             /\ draft[o][p] >= announced[trigger[o].reading][p]
    BY DEF SyncInv, ReadingInv
  <2>2. CASE o # g
    BY <1>2, <1>4, <2>1, <2>2
  <2>3. CASE o = g
    <3>1. \A p \in Parts : p < i + 1 => p < i \/ p = i
      BY <1>5 DEF Parts
    <3>2. cache[g].parts[i] <= content[i] /\ announced[trigger[g].reading][i] <= content[i]
      BY <1>1, <2>1, <2>3 DEF SyncInv, CacheInv, AnnouncedInv
    <3>3. content[i] \in Nat /\ cache[g].parts[i] \in Nat /\ announced[trigger[g].reading][i] \in Nat
      BY <1>1, <2>1, <2>3 DEF SyncInv, SyncTypeOK, Contents, CachedSnapshots
    <3>4. \A p \in Parts : p < i => p < next[o]
      BY <2>3 DEF i
    <3> QED BY <1>2, <1>4, <2>1, <2>3, <3>1, <3>2, <3>3, <3>4
  <2> QED BY <2>2, <2>3
<1> QED BY <1>6, <1>7, <1>8, <1>9, <1>10 DEF SyncInv

\* A snapshot read to the end goes into the cache.
LEMMA CacheUpdated ==
  ASSUME SyncInv, NEW g \in Gateways, phase[g] \in Reading, next[g] > NumParts, UpdateCache(g, version),
         UNCHANGED <<content, version, epoch, announced>>
  PROVE  CacheInv'
<1>1. version \in Nat
  BY DEF SyncInv, SyncTypeOK
<1>2. /\ cache'[g].version = version /\ cache'[g].parts = draft[g] /\ cache'[g].epoch = epoch
      /\ trigger'[g].cached = trigger[g].reading /\ trigger'[g].reading = trigger[g].reading
      /\ \A o \in Gateways \ {g} : cache'[o] = cache[o] /\ trigger'[o] = trigger[o]
  BY <1>1, UpdateCacheFacts DEF SyncInv
<1>3. \A p \in Parts : p < next[g]
  BY ConfigSyncAssumption DEF SyncInv, SyncTypeOK, Parts
<1>4. /\ trigger[g].reading \in 1..version
      /\ \A p \in Parts : /\ draft[g][p] <= content[p]
                          /\ draft[g][p] >= announced[trigger[g].reading][p]
  BY <1>3 DEF SyncInv, ReadingInv
<1>5. epoch \in Nat
  BY DEF SyncInv, SyncTypeOK
<1> QED BY <1>1, <1>2, <1>4, <1>5 DEF SyncInv, CacheInv

LEMMA FinishFetchStep ==
  ASSUME SyncInv, NEW g \in Gateways, FinishFetch(g)
  PROVE  SyncInv'
<1>1. /\ UNCHANGED <<content, version, channel, admin, next, draft, got, last, failures, epoch, announced>>
      /\ phase[g] = "fetch" /\ next[g] > NumParts /\ UpdateCache(g, version)
      /\ phase' \in [Gateways -> Phases]
      /\ phase'[g] = "fetched" /\ \A o \in Gateways \ {g} : phase'[o] = phase[o]
  BY DEF FinishFetch, SyncInv, SyncTypeOK, Phases
<1>2. version \in Nat
  BY DEF SyncInv, SyncTypeOK
<1>3. /\ cache' \in [Gateways -> CachedSnapshots] /\ trigger' \in [Gateways -> Triggers]
      /\ \A o \in Gateways \ {g} : cache'[o] = cache[o] /\ trigger'[o] = trigger[o]
  BY <1>1, <1>2, UpdateCacheFacts DEF SyncInv
<1>4. SyncTypeOK'
  BY <1>1, <1>3 DEF SyncInv, SyncTypeOK, Triggers
<1>5. ChannelInv' /\ AnnouncedInv'
  BY <1>1 DEF SyncInv, ChannelInv, AnnouncedInv, Subscribed
<1>6. ReadingInv'
  BY <1>1, <1>3 DEF SyncInv, ReadingInv, Reading
<1>7. CacheInv'
  BY <1>1, CacheUpdated DEF Reading
<1> QED BY <1>4, <1>5, <1>6, <1>7 DEF SyncInv

LEMMA SubscribeStep ==
  ASSUME SyncInv, NEW g \in Gateways, Subscribe(g)
  PROVE  SyncInv'
<1>0. version \in Nat \ {0} /\ version \in 1..version
  BY DEF SyncInv, SyncTypeOK
<1>1. /\ UNCHANGED <<content, version, admin, draft, last, cache, failures, epoch, announced>>
      /\ phase[g] = "fetched" /\ phase' \in [Gateways -> Phases]
      /\ phase'[g] = "subscribed" /\ \A o \in Gateways \ {g} : phase'[o] = phase[o]
      /\ channel' \in [Gateways -> Nat]
      /\ channel'[g] = 0 /\ \A o \in Gateways \ {g} : channel'[o] = channel[o]
  BY DEF Subscribe, SyncInv, SyncTypeOK, Phases
<1>2. /\ next' \in [Gateways -> 1..(NumParts + 1)] /\ next'[g] = 1
      /\ got' \in [Gateways -> Nat] /\ got'[g] = 0
      /\ trigger' \in [Gateways -> Triggers]
      /\ trigger'[g].reading = version /\ trigger'[g].cached = trigger[g].cached
      /\ \A o \in Gateways \ {g} : next'[o] = next[o] /\ got'[o] = got[o] /\ trigger'[o] = trigger[o]
  BY <1>0, BeginReadingFacts DEF SyncInv, Subscribe
<1>3. SyncTypeOK'
  BY <1>1, <1>2 DEF SyncInv, SyncTypeOK, Triggers
<1>4. ChannelInv'
  BY <1>0, <1>1, <1>2 DEF SyncInv, ChannelInv, Subscribed
<1>5. AnnouncedInv'
  BY <1>1 DEF SyncInv, AnnouncedInv
<1>6. ReadingInv'
  BY <1>0, <1>1, <1>2 DEF SyncInv, ReadingInv, Parts
<1>7. CacheInv'
  BY <1>1, <1>2 DEF SyncInv, CacheInv
<1> QED BY <1>3, <1>4, <1>5, <1>6, <1>7 DEF SyncInv

LEMMA PushStep ==
  ASSUME SyncInv, NEW g \in Gateways, Push(g)
  PROVE  SyncInv'
<1>1. version \in Nat /\ got[g] \in Nat /\ phase[g] \in {"subscribed", "reading"}
  BY DEF Push, SyncInv, SyncTypeOK
<1>2. Label(got[g], version) = version
  BY <1>1, LabelFacts DEF SyncInv, ChannelInv
<1>3. /\ UNCHANGED <<content, version, channel, admin, next, draft, got, failures, epoch, announced>>
      /\ phase[g] \in Reading /\ next[g] > NumParts /\ UpdateCache(g, version)
      /\ phase' \in [Gateways -> Phases]
      /\ phase'[g] = "idle" /\ \A o \in Gateways \ {g} : phase'[o] = phase[o]
      /\ last' \in [Gateways -> Nat]
      /\ last'[g] = version /\ \A o \in Gateways \ {g} : last'[o] = last[o]
  BY <1>1, <1>2 DEF Push, SyncInv, SyncTypeOK, Phases, Reading
<1>4. /\ cache' \in [Gateways -> CachedSnapshots] /\ trigger' \in [Gateways -> Triggers]
      /\ \A o \in Gateways \ {g} : cache'[o] = cache[o] /\ trigger'[o] = trigger[o]
  BY <1>1, <1>3, UpdateCacheFacts DEF SyncInv
<1>5. SyncTypeOK'
  BY <1>3, <1>4 DEF SyncInv, SyncTypeOK, Triggers
<1>6. ChannelInv'
  BY <1>1, <1>3 DEF SyncInv, ChannelInv, Subscribed
<1>7. AnnouncedInv'
  BY <1>3 DEF SyncInv, AnnouncedInv
<1>8. ReadingInv'
  BY <1>3, <1>4 DEF SyncInv, ReadingInv, Reading
<1>9. CacheInv'
  BY <1>3, CacheUpdated
<1> QED BY <1>5, <1>6, <1>7, <1>8, <1>9 DEF SyncInv

LEMMA ReceiveStep ==
  ASSUME SyncInv, NEW g \in Gateways, Receive(g)
  PROVE  SyncInv'
<1>0. /\ version \in Nat \ {0} /\ version \in 1..version
      /\ phase[g] = "idle" /\ channel[g] = version /\ last[g] <= version /\ last[g] \in Nat
  BY DEF Receive, SyncInv, SyncTypeOK, ChannelInv
<1>1. /\ UNCHANGED <<content, version, admin, draft, last, cache, failures, epoch, announced>>
      /\ channel' \in [Gateways -> Nat]
      /\ channel'[g] = 0 /\ \A o \in Gateways \ {g} : channel'[o] = channel[o]
  BY DEF Receive, SyncInv, SyncTypeOK
<1>2. CASE Skipped(channel[g], last[g])
  <2>1. UNCHANGED <<phase, next, got, trigger>> /\ last[g] = version
    BY <1>0, <1>2 DEF Receive, Skipped
  <2>2. SyncTypeOK'
    BY <1>1, <2>1 DEF SyncInv, SyncTypeOK
  <2>3. ChannelInv'
    BY <1>0, <1>1, <2>1 DEF SyncInv, ChannelInv
  <2>4. AnnouncedInv' /\ ReadingInv' /\ CacheInv'
    BY <1>1, <2>1 DEF SyncInv, AnnouncedInv, ReadingInv, CacheInv
  <2> QED BY <2>2, <2>3, <2>4 DEF SyncInv
<1>3. CASE ~Skipped(channel[g], last[g])
  <2>1. /\ phase' \in [Gateways -> Phases]
        /\ phase'[g] = "reading" /\ \A o \in Gateways \ {g} : phase'[o] = phase[o]
        /\ BeginReading(g, version, version)
    BY <1>0, <1>3 DEF Receive, SyncInv, SyncTypeOK, Phases
  <2>2. /\ next' \in [Gateways -> 1..(NumParts + 1)] /\ next'[g] = 1
        /\ got' \in [Gateways -> Nat] /\ got'[g] = version
        /\ trigger' \in [Gateways -> Triggers]
        /\ trigger'[g].reading = version /\ trigger'[g].cached = trigger[g].cached
        /\ \A o \in Gateways \ {g} : next'[o] = next[o] /\ got'[o] = got[o] /\ trigger'[o] = trigger[o]
    BY <1>0, <2>1, BeginReadingFacts DEF SyncInv
  <2>3. SyncTypeOK'
    BY <1>1, <2>1, <2>2 DEF SyncInv, SyncTypeOK, Triggers
  <2>4. ChannelInv'
    BY <1>0, <1>1, <2>1, <2>2 DEF SyncInv, ChannelInv, Subscribed
  <2>5. AnnouncedInv'
    BY <1>1 DEF SyncInv, AnnouncedInv
  <2>6. ReadingInv'
    BY <1>0, <1>1, <2>1, <2>2 DEF SyncInv, ReadingInv, Parts
  <2>7. CacheInv'
    BY <1>1, <2>2 DEF SyncInv, CacheInv
  <2> QED BY <2>3, <2>4, <2>5, <2>6, <2>7 DEF SyncInv
<1> QED BY <1>2, <1>3

LEMMA FailStep ==
  ASSUME SyncInv, NEW g \in Gateways, Fail(g)
  PROVE  SyncInv'
<1>1. /\ UNCHANGED <<content, version, admin, next, draft, got, last, cache, epoch, announced, trigger>>
      /\ failures' \in Nat
      /\ phase' \in [Gateways -> Phases]
      /\ phase'[g] = "offline" /\ \A o \in Gateways \ {g} : phase'[o] = phase[o]
      /\ channel' \in [Gateways -> Nat]
      /\ channel'[g] = 0 /\ \A o \in Gateways \ {g} : channel'[o] = channel[o]
  BY DEF Fail, SyncInv, SyncTypeOK, Phases
<1>2. SyncTypeOK'
  BY <1>1 DEF SyncInv, SyncTypeOK
<1>3. ChannelInv'
  BY <1>1 DEF SyncInv, ChannelInv, Subscribed
<1>4. AnnouncedInv' /\ ReadingInv' /\ CacheInv'
  BY <1>1 DEF SyncInv, AnnouncedInv, ReadingInv, CacheInv, Reading
<1> QED BY <1>2, <1>3, <1>4 DEF SyncInv

LEMMA RestartStep ==
  ASSUME SyncInv, Restart
  PROVE  SyncInv'
<1>1. /\ UNCHANGED <<content, next, draft, got, last, cache, failures, trigger>>
      /\ epoch' = epoch + 1 /\ version' = 1 /\ announced' = [v \in {1} |-> content]
      /\ admin' = [a \in Admins |-> "idle"]
      /\ phase' = [g \in Gateways |-> "offline"]
      /\ channel' = [g \in Gateways |-> 0]
      /\ epoch \in Nat /\ content \in Contents
  BY DEF Restart, SyncInv, SyncTypeOK
<1>2. 1..1 = {1}
  OBVIOUS
<1>3. SyncTypeOK'
  BY <1>1, <1>2 DEF SyncInv, SyncTypeOK, Phases
<1>4. ChannelInv'
  BY <1>1 DEF SyncInv, ChannelInv
<1>5. AnnouncedInv'
  <2>1. \A p \in Parts : content[p] \in Nat
    BY <1>1 DEF Contents
  <2> QED BY <1>1, <1>2, <2>1 DEF AnnouncedInv
<1>6. ReadingInv'
  BY <1>1 DEF ReadingInv, Reading
<1>7. CacheInv'
  <2>1. \A g \in Gateways : cache[g].epoch \in Nat
    BY DEF SyncInv, SyncTypeOK, CachedSnapshots
  <2> QED BY <1>1, <2>1 DEF SyncInv, CacheInv
<1> QED BY <1>3, <1>4, <1>5, <1>6, <1>7 DEF SyncInv

LEMMA SyncSteps == SyncInv /\ [SyncNext]_syncVars => SyncInv'
<1> SUFFICES ASSUME SyncInv, [SyncNext]_syncVars PROVE SyncInv'
  OBVIOUS
<1>1. CASE UNCHANGED syncVars
  BY <1>1 DEF syncVars, SyncInv, SyncTypeOK, ChannelInv, AnnouncedInv, ReadingInv, CacheInv
<1> QED
  BY <1>1, PartWrittenStep, AnnounceStep, StartFetchStep, ReadPartStep, FinishFetchStep, SubscribeStep,
     PushStep, ReceiveStep, FailStep, RestartStep DEF SyncNext, ServeGateway

LEMMA SyncInvariance == SyncSpec => []SyncInv
BY SyncStarts, SyncSteps, PTL DEF SyncSpec

(* The state always has the types of the code's records.                     *)
THEOREM SyncTypes == SyncSpec => []SyncTypeOK
BY SyncInvariance, PTL DEF SyncInv

(* A waiting stream with an empty channel has sent the current version: with  *)
(* any number of concurrent notifications, no wake-up is lost.                *)
THEOREM WakeupsKept == SyncSpec => []NoLostWakeup
<1>1. SyncInv => NoLostWakeup
  BY DEF SyncInv, SyncTypeOK, ChannelInv, NoLostWakeup
<1> QED BY <1>1, SyncInvariance, PTL

(* A cached snapshot covers what was announced when its reading began.        *)
THEOREM TriggerCovered == SyncSpec => []SnapshotCoversTrigger
<1>1. SyncInv => SnapshotCoversTrigger
  BY DEF SyncInv, CacheInv, SnapshotCoversTrigger
<1> QED BY <1>1, SyncInvariance, PTL

(* No version is missed: an idle stream has sent the current one or is woken   *)
(* for it, and what is cached holds what was announced before its reading      *)
(* began.  A change announced while it was read may be lacking.                *)
THEOREM VersionsReachCaches == SyncSpec => []NoVersionMissed
<1>1. NoLostWakeup /\ SnapshotCoversTrigger => NoVersionMissed
  BY DEF NoVersionMissed
<1> QED BY <1>1, WakeupsKept, TriggerCovered, PTL

\* A step that does not put a snapshot into g's cache leaves it alone.
LEMMA CacheStep ==
  ASSUME SyncInv, [SyncNext]_syncVars, NEW g \in Gateways
  PROVE  \/ cache'[g] = cache[g]
         \/ /\ phase[g] \in Reading /\ next[g] > NumParts
            /\ cache'[g] = [version |-> version, parts |-> draft[g], epoch |-> epoch]
<1>1. ASSUME NEW o \in Gateways, FinishFetch(o)
      PROVE  \/ cache'[g] = cache[g]
             \/ /\ phase[g] \in Reading /\ next[g] > NumParts
                /\ cache'[g] = [version |-> version, parts |-> draft[g], epoch |-> epoch]
  BY <1>1 DEF FinishFetch, UpdateCache, SyncInv, SyncTypeOK, Reading
<1>2. ASSUME NEW o \in Gateways, Push(o)
      PROVE  \/ cache'[g] = cache[g]
             \/ /\ phase[g] \in Reading /\ next[g] > NumParts
                /\ cache'[g] = [version |-> version, parts |-> draft[g], epoch |-> epoch]
  <2>1. Label(got[o], version) = version
    BY <1>2, LabelFacts DEF Push, SyncInv, SyncTypeOK, ChannelInv
  <2> QED BY <1>2, <2>1 DEF Push, UpdateCache, SyncInv, SyncTypeOK, Reading
<1>3. CASE UNCHANGED cache
  BY <1>3
<1> QED
  BY <1>1, <1>2, <1>3 DEF SyncNext, ServeGateway, Write, Notify, StartFetch, ReadPart, Subscribe, Receive,
     Fail, Restart, syncVars

(* Neither a part nor, within a server process, the version of a gateway's    *)
(* configuration ever goes back.                                              *)
THEOREM CacheForward == SyncSpec => CacheMovesForward
<1> DEFINE Forward ==
      \A g \in Gateways :
        /\ \A p \in Parts : cache'[g].parts[p] >= cache[g].parts[p]
        /\ cache'[g].epoch = cache[g].epoch => cache'[g].version >= cache[g].version
<1>1. SyncInv /\ [SyncNext]_syncVars => [Forward]_syncVars
  <2> SUFFICES ASSUME SyncInv, [SyncNext]_syncVars, NEW g \in Gateways
               PROVE  /\ \A p \in Parts : cache'[g].parts[p] >= cache[g].parts[p]
                      /\ cache'[g].epoch = cache[g].epoch => cache'[g].version >= cache[g].version
    OBVIOUS
  <2>1. /\ cache[g].version \in Nat /\ version \in Nat /\ epoch \in Nat
        /\ \A p \in Parts : cache[g].parts[p] \in Nat
    BY DEF SyncInv, SyncTypeOK, CachedSnapshots, Contents
  <2>2. CASE cache'[g] = cache[g]
    BY <2>1, <2>2
  <2>3. CASE /\ phase[g] \in Reading /\ next[g] > NumParts
             /\ cache'[g] = [version |-> version, parts |-> draft[g], epoch |-> epoch]
    <3>1. \A p \in Parts : p < next[g]
      BY <2>3, ConfigSyncAssumption DEF SyncInv, SyncTypeOK, Parts
    <3>2. \A p \in Parts : draft[g][p] >= cache[g].parts[p]
      BY <2>3, <3>1 DEF SyncInv, ReadingInv
    <3>3. cache[g].epoch = epoch => cache[g].version <= version
      BY DEF SyncInv, CacheInv
    <3> QED BY <2>1, <2>3, <3>2, <3>3
  <2> QED BY <2>2, <2>3, CacheStep
<1> QED BY <1>1, SyncInvariance, PTL DEF SyncSpec, CacheMovesForward
=============================================================================
