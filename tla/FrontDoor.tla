------------------------------- MODULE FrontDoor -------------------------------
(***************************************************************************)
(* What a front end, the gateway (internal/gateway) or the Go middleware    *)
(* (integrations/go-middleware), makes of an HTTP request before it asks    *)
(* the platform, and how questions, answers and configurations cross the    *)
(* wire, as JSON or as protocol buffers (internal/grpccontract).            *)
(*                                                                         *)
(* A path is the sequence of its segments; X-Forwarded-For is the sequence  *)
(* of its header lines, a line the sequence of its parts, which need not be *)
(* addresses.  Of the fields that                                           *)
(* are copied as they are (client, method, user agent, nonce, tag, route)   *)
(* only the ticket is kept, of the context headers the account and one      *)
(* score.                                                                  *)
(***************************************************************************)
EXTENDS Integers, Sequences

CONSTANTS
  Addresses,  \* what netip.ParseAddr accepts
  Trusted,    \* the addresses of the configured proxies
  None,       \* the empty string: no header, no ticket, no scene
  TokenSet,   \* whether a context token is configured
  Junk,       \* a part of X-Forwarded-For that is no address
  Width,      \* bits of the integers of the protocol buffers: 32
  Raws,       \* requests a front end may receive
  Decisions,  \* decisions the platform may answer
  Snapshots   \* configurations a gateway may be sent

\* The fields of a request as it is received, of the policy request made of
\* it, of a decision, of a configuration and of its routes.
RawFields == {"peer", "forwarded", "token", "account", "risk", "scene", "path", "header", "cookie", "ticket"}
RequestFields == {"scene", "path", "ip", "account", "risk", "ticket", "clearance"}
DecisionFields == {"action", "scene", "session", "ttl", "cooldown", "business", "clearance"}
SnapshotFields == {"status", "allowed", "blocked", "rule", "routes"}
RouteFields == {"enabled", "pattern", "priority", "scene", "mode"}

Record(rec, fields) == rec = [f \in fields |-> rec[f]]

ASSUME FrontDoorAssumption ==
  /\ Trusted \subseteq Addresses
  /\ {None, Junk} \cap Addresses = {}
  /\ TokenSet \in BOOLEAN
  /\ Width \in Nat \ {0}
  /\ \A raw \in Raws : Record(raw, RawFields)
  /\ \A d \in Decisions : Record(d, DecisionFields)
  /\ \A s \in Snapshots :
       /\ Record(s, SnapshotFields)
       /\ Record(s.routes, 1..Len(s.routes))
       /\ \A i \in DOMAIN s.routes : Record(s.routes[i], RouteFields)

----------------------------------------------------------------------------
(* The client's address.                                                    *)

Largest(S) == CHOOSE i \in S : \A j \in S : j <= i
Least(S) == CHOOSE i \in S : \A j \in S : i <= j

\* Header.Get: the first line of a header that may have several.
FirstLine(lines) == IF lines = <<>> THEN <<>> ELSE Head(lines)

\* Mutant: the outermost foreign address is the client's.
ClientIPOutermost(peer, forwarded) ==
  LET foreign == {i \in DOMAIN forwarded : forwarded[i] \in Addresses \ Trusted}
  IN  IF peer \notin Trusted \/ foreign = {} THEN peer ELSE forwarded[Least(foreign)]

\* nettrust.ClientIP: from the nearest hop outwards, the first that is not a proxy.
ClientIP(peer, forwarded) ==
  LET foreign == {i \in DOMAIN forwarded : forwarded[i] \in Addresses \ Trusted}
  IN  IF peer \notin Trusted \/ foreign = {} THEN peer ELSE forwarded[Largest(foreign)]

\* The middleware takes the outermost part that is an address.
MiddlewareIP(peer, forwarded) ==
  LET parsed == {i \in DOMAIN forwarded : forwarded[i] \in Addresses}
  IN  IF peer \notin Trusted \/ parsed = {} THEN peer ELSE forwarded[Least(parsed)]

----------------------------------------------------------------------------
(* The policy request.                                                      *)

\* sceneFromRequest: the header, else the first segment of the path.
SceneFromRequest(raw) ==
  CASE raw.scene # None                     -> raw.scene
    [] raw.scene = None /\ raw.path # <<>>  -> Head(raw.path)
    [] OTHER                                -> "default"

ClearanceFromRequest(raw) == IF raw.header # None THEN raw.header ELSE raw.cookie

\* intHeader: no number counts as 0.
IntHeader(value) ==
  CASE value \notin Int -> 0
    [] value \in Int /\ value > 100 -> 100
    [] value \in Int /\ value < 0   -> 0
    [] OTHER -> value

\* Mutant: the token is enough.
TrustsContextOfAnyPeer(raw) == TokenSet /\ raw.token = "right"

\* Mutant: the peer is enough.
TrustsContextOfAnyToken(raw) == TokenSet /\ raw.token # None /\ raw.peer \in Trusted

\* sanitizeContextHeaders keeps the context headers of a trusted proxy that knows the token.
TrustsContext(raw) == TokenSet /\ raw.token = "right" /\ raw.peer \in Trusted

\* Handler of the gateway; buildEvaluateRequest, which believes its own process.
EvaluateRequest(front, raw) ==
  LET believed == front = "middleware" \/ TrustsContext(raw)
  IN  [scene     |-> SceneFromRequest(raw),
       path      |-> raw.path,
       ip        |-> IF front = "middleware" THEN MiddlewareIP(raw.peer, FirstLine(raw.forwarded))
                                             ELSE ClientIP(raw.peer, FirstLine(raw.forwarded)),
       account   |-> IF believed THEN raw.account ELSE None,
       risk      |-> IF believed THEN IntHeader(raw.risk) ELSE 0,
       ticket    |-> raw.ticket,
       clearance |-> ClearanceFromRequest(raw)]

----------------------------------------------------------------------------
(* The wire.                                                                *)

Half == 2 ^ (Width - 1)

\* The wire's integers hold a risk score, which intHeader keeps within 0..100.
ASSUME WidthAssumption == Half \in Nat /\ 100 < Half

\* Mutant: the sign bit is read as a number.
Int32Unsigned(n) == n % (2 * Half)

\* int32(n): the high bits are lost.
Int32(n) == ((n + Half) % (2 * Half)) - Half

\* omitempty drops what is zero; what is absent is decoded as zero.
Zero(field) == CASE field \in {"risk", "ttl", "cooldown"} -> 0 [] field = "path" -> <<>> [] OTHER -> None
JSON(rec, omitted) == [f \in {g \in DOMAIN rec : g \in omitted => rec[g] # Zero(g)} |-> rec[f]]
FromJSON(json, fields) == [f \in fields |-> IF f \in DOMAIN json THEN json[f] ELSE Zero(f)]

\* Mutant: the clearance is not carried.
RequestProtoForgetful(req) == [req EXCEPT !.risk = Int32(@), !.clearance = None]

\* PolicyEvaluateRequestToProto and -FromProto
RequestProto(req) == [req EXCEPT !.risk = Int32(@)]

\* What the platform sees of the question.
Arrived(transport, req) ==
  IF transport = "grpc" THEN RequestProto(req)
  ELSE FromJSON(JSON(req, {"account", "ticket", "clearance", "risk"}), DOMAIN req)

AllowActions == {"allow", "pass", "skip_challenge"}
ChallengeActions == {"challenge", "challenge_harder", "step_up_challenge", "rate_limit"}
BlockActions == {"block", "cooldown", "require_business_verify"}

\* The empty string is no action.
ASSUME NoAction == None \notin AllowActions \cup ChallengeActions \cup BlockActions \cup {"observe"}

\* Mutant: a rate limit is not among the actions with a number.
ActionProtoUnlisted(action) ==
  CASE action \in AllowActions                      -> "allow"
    [] action \in ChallengeActions \ {"rate_limit"} -> "challenge"
    [] action \in BlockActions                      -> "block"
    [] action = "observe"                           -> "observe"
    [] OTHER                                        -> None

\* decisionToProto and back: four kinds have a number, a rest (retry) has none.
ActionProto(action) ==
  CASE action \in AllowActions     -> "allow"
    [] action \in ChallengeActions -> "challenge"
    [] action \in BlockActions     -> "block"
    [] action = "observe"          -> "observe"
    [] OTHER                       -> None

\* PolicyDecisionToProto and -FromProto have no field for a cooldown or a business check.
DecisionProto(d) ==
  [d EXCEPT !.action = ActionProto(@), !.ttl = Int32(@), !.cooldown = 0, !.business = None]

\* What the front end sees of a decision.
Answered(transport, d) ==
  IF transport = "grpc" THEN DecisionProto(d)
  ELSE FromJSON(JSON(d, DOMAIN d \ {"action"}), DOMAIN d)

\* handleDecision, alike in both front ends: anything unknown is refused.
Effect(action) ==
  CASE action \in AllowActions \cup {"observe"} -> "forwarded"
    [] action \in ChallengeActions              -> "challenged"
    [] OTHER                                    -> "refused"

\* routePolicyToProto and -FromProto: of the numbers, the priority is kept.
RouteProto(route) == [route EXCEPT !.priority = Int32(@)]

\* ConfigSnapshotToProto and -FromProto keep the lists and their order.
SnapshotProto(snapshot) ==
  [snapshot EXCEPT !.routes = [i \in DOMAIN snapshot.routes |-> RouteProto(snapshot.routes[i])]]

\* matchCachedPath: a pattern is empty, is the path, or ends in "*".
MatchesPath(pattern, path) ==
  \/ pattern \in {<<>>, <<"*">>, path}
  \/ /\ pattern # <<>> /\ pattern[Len(pattern)] = "*"
     /\ Len(path) >= Len(pattern)
     /\ SubSeq(path, 1, Len(pattern) - 1) = SubSeq(pattern, 1, Len(pattern) - 1)

\* matchCachedRoute (all routes rolled out): the highest priority, in the order of the list.
CachedRoute(routes, req) ==
  LET hits == {i \in DOMAIN routes : routes[i].enabled /\ MatchesPath(routes[i].pattern, req.path)}
      best == {i \in hits : \A j \in hits : routes[j].priority <= routes[i].priority}
  IN  IF best = {} THEN None ELSE routes[Least(best)]

----------------------------------------------------------------------------
(* Properties of these functions, over Raws, Decisions and Snapshots.        *)

\* A proxy appends the address it was connected from to the line it joins the
\* lines into, or it adds a line of its own.
Received(client, claimed, hops, joins) ==
  IF hops = <<>> THEN [peer |-> client, forwarded |-> <<claimed>>]
  ELSE [peer      |-> hops[Len(hops)],
        forwarded |->
          LET own == [i \in 1..Len(hops) |-> IF i = 1 THEN <<client>> ELSE <<hops[i - 1]>>]
          IN  IF joins THEN <<claimed \o <<client>> \o SubSeq(hops, 1, Len(hops) - 1)>>
              ELSE IF claimed = <<>> THEN own ELSE <<claimed>> \o own]

UpTo(n, S) == UNION {[1..k -> S] : k \in 0..n}

(* The gateway's address of a request that came through trusted proxies is    *)
(* the one the outermost of them was connected from, whatever the client      *)
(* claimed before, provided they join the header's lines (of a line the       *)
(* client sent itself no later line is read) or the client sent none; the     *)
(* middleware's is when it claimed no address besides (the two walk           *)
(* X-Forwarded-For from opposite ends).                                       *)
AddressIsTheClients ==
  \A client \in Addresses \ Trusted, claimed \in UpTo(2, Addresses \cup {Junk}), hops \in UpTo(2, Trusted),
     joins \in BOOLEAN :
    joins \/ claimed = <<>> =>
      LET got  == Received(client, claimed, hops, joins)
          line == FirstLine(got.forwarded)
      IN  /\ ClientIP(got.peer, line) = client
          /\ (\A i \in DOMAIN claimed : claimed[i] = Junk) => MiddlewareIP(got.peer, line) = client

\* What two requests that make the same claims may differ in.
SameBut(raw, other, fields) == \A f \in RawFields \ fields : raw[f] = other[f]

\* They differ in no more than a peer that is no trusted proxy says of its account,
\* its risk and its forwarding, or than anyone says of account and risk who has
\* not the right token.
ClaimsApart(raw, other) ==
  \/ raw.peer \notin Trusted /\ SameBut(raw, other, {"forwarded", "token", "account", "risk"})
  \/ /\ ~TokenSet \/ "right" \notin {raw.token, other.token}
     /\ SameBut(raw, other, {"token", "account", "risk"})

(* Claims of account and risk count only of a trusted proxy with the right     *)
(* context token, and forwarding only of a trusted proxy: nothing else a peer  *)
(* says of them changes what the gateway asks the platform.                    *)
UntrustedClaimsInert ==
  \A raw, other \in Raws :
    ClaimsApart(raw, other) => EvaluateRequest("gateway", raw) = EvaluateRequest("gateway", other)

(* The platform is asked the same over either transport: no field of the       *)
(* question, the ticket, the clearance and the account among them, gets lost.  *)
QuestionKept ==
  \A raw \in Raws, front \in {"gateway", "middleware"} :
    LET req == EvaluateRequest(front, raw) IN Arrived("grpc", req) = Arrived("http", req)

(* The protocol buffers know fewer actions than the policies have, but every   *)
(* decision has the same effect over either transport, for the same scene,    *)
(* session and clearance.                                                     *)
EffectKept ==
  \A d \in Decisions :
    LET http == Answered("http", d)  grpc == Answered("grpc", d)
    IN  /\ Effect(grpc.action) = Effect(http.action)
        /\ \A f \in {"scene", "session", "clearance"} : grpc[f] = http[f]

(* A configuration whose priorities fit the wire's integers picks the same     *)
(* route of the gateway's copy, whatever their sign and their order.           *)
RouteKept ==
  \A snapshot \in Snapshots, raw \in Raws :
    LET req == EvaluateRequest("gateway", raw)
    IN  (\A i \in DOMAIN snapshot.routes : snapshot.routes[i].priority \in (-Half)..(Half - 1)) =>
          CachedRoute(SnapshotProto(snapshot).routes, req) = CachedRoute(snapshot.routes, req)
=============================================================================
