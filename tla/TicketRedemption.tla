--------------------------- MODULE TicketRedemption ---------------------------
(***************************************************************************)
(* Tickets and clearances: POST /policy/evaluate, POST /tickets/verify and  *)
(* the ConsumeTicket RPC over the ticket store.                             *)
(*                                                                         *)
(* The store may be Redis; then VerifyTicket is the optimistic              *)
(* transaction of internal/store/redis.go: WATCH the key, GET and validate  *)
(* it, and MULTI/SET/EXEC, each a round trip between which the commands of  *)
(* every other server take effect.  Otherwise it is the in-memory store,    *)
(* whose VerifyTicket is one step under its mutex.  A redeemed ticket is    *)
(* then exchanged for a clearance, which is a second write.                 *)
(*                                                                         *)
(* What a request comes with is a value for each of Fields: its scope       *)
(* (client and scene), its origin (the hashes of IP and user agent), its    *)
(* subject (the hashes of account and device) and its way (path and request *)
(* nonce).  Any but the scope may be absent.  A ticket carries some of the  *)
(* fields of the session it was earned with and a clearance those of the    *)
(* request that redeemed the ticket, without the way; what is not carried   *)
(* is not compared.                                                         *)
(***************************************************************************)
EXTENDS Naturals

CONSTANTS
  Values,     \* ticket values: 32 random bytes, never drawn twice
  Requests,   \* requests that present a ticket or a clearance
  Fields,     \* what a request can be told apart by
  Scope,      \* the fields every ticket carries: client and scene
  Origin,     \* the fields every clearance carries besides: hashes of IP and user agent
  Way,        \* the fields no clearance carries: path and request nonce
  Marks,      \* the values of a field
  Contexts,   \* the contexts requests come from
  None,       \* no ticket, no request, no value of a field
  TicketTTL, ClearanceTTL,  \* in clock ticks
  Backends,   \* the ticket stores the servers may be configured with
  MaxClock    \* bound: the clock stops here

ASSUME RedemptionAssumption ==
  /\ None \notin Values \cup Requests \cup Marks
  /\ Scope \subseteq Fields
  /\ Origin \subseteq Fields
  /\ Way \subseteq Fields \ (Scope \cup Origin)
  /\ Contexts \subseteq [Fields -> Marks \cup {None}]
  /\ Contexts # {}
  /\ \A c \in Contexts : \A f \in Scope : c[f] # None
  /\ TicketTTL \in Nat
  /\ ClearanceTTL \in Nat
  /\ Backends \subseteq {"redis", "memory"}
  /\ MaxClock \in Nat

VARIABLES
  backend,    \* the ticket store in use: Redis shared by the servers, or memory
  kept,       \* the store: "absent", "live" or "consumed", by ticket value
  binding,    \* what was issued under a value (the rest of the record never changes)
  clearances, \* the clearances kept
  pc,         \* where each request is in its handler
  ticketOf,   \* the ticket it presents
  contextOf,  \* the context it comes from
  dirty,      \* Redis: the requests whose watched key has been touched
  answer,     \* what each request has been answered
  clock,
  redeemer    \* history: the request that consumed a ticket

vars == <<backend, kept, binding, clearances, pc, ticketOf, contextOf, dirty, answer,
          clock, redeemer>>

Durable == backend = "redis"

Carriers == [Fields -> Marks \cup {None}]

Bindings == [issued: BOOLEAN, carries: Carriers, deadline: Nat]

Clearances == [ticket: Values, carries: Carriers, deadline: Nat]

\* The values a context has for the fields S, and none for the others.
Part(context, S) == [f \in Fields |-> IF f \in S THEN context[f] ELSE None]

PCs == {"new", "sent", "watched", "validated", "inspect", "redeemed", "clear", "answered"}

Answers == {"none", "redeemed", "valid", "CONSUMED", "EXPIRED", "NOT_FOUND", "error", "lost", "cleared", "evaluate"}

InFlight == {r \in Requests : pc[r] \notin {"new", "answered"}}

Watching(v) == {r \in Requests : ticketOf[r] = v /\ pc[r] \in {"watched", "validated"}}

\* time.Now().After(ticket.ExpiresAt)
Lapsed(v) == clock > binding[v].deadline

\* The comparisons of validateTicket and validateClearance: a field that is not
\* carried admits any value, and none.
Matches(carried, context) == \A f \in Fields : carried[f] \in {None, context[f]}

Admits(v, context) == Matches(binding[v].carries, context)

\* Mutants: a consumed ticket is not told apart, the binding is not compared,
\* redis.Nil is not translated.
ValidateConsumedToo(v, context) ==
  CASE kept[v] = "absent"              -> "NOT_FOUND"
    [] kept[v] # "absent" /\ Lapsed(v) -> "EXPIRED"
    [] OTHER                           -> IF Admits(v, context) THEN "ok" ELSE "NOT_FOUND"
ValidateUnbound(v, context) ==
  CASE kept[v] = "absent"                 -> "NOT_FOUND"
    [] kept[v] # "absent" /\ Lapsed(v)    -> "EXPIRED"
    [] kept[v] = "consumed" /\ ~Lapsed(v) -> "CONSUMED"
    [] OTHER                              -> "ok"
ValidateRawNil(v, context) ==
  CASE kept[v] = "absent"                 -> "redis: nil"
    [] kept[v] # "absent" /\ Lapsed(v)    -> "EXPIRED"
    [] kept[v] = "consumed" /\ ~Lapsed(v) -> "CONSUMED"
    [] OTHER                              -> IF Admits(v, context) THEN "ok" ELSE "NOT_FOUND"

\* getTicket, then validateTicket.
Validate(v, context) ==
  CASE kept[v] = "absent"                   -> "NOT_FOUND"
    [] kept[v] # "absent" /\ Lapsed(v)      -> "EXPIRED"
    [] kept[v] = "consumed" /\ ~Lapsed(v)   -> "CONSUMED"
    [] kept[v] = "live" /\ ~Lapsed(v)       -> IF Admits(v, context) THEN "ok" ELSE "NOT_FOUND"

Answer(r, what) ==
  /\ pc' = [pc EXCEPT ![r] = "answered"]
  /\ answer' = [answer EXCEPT ![r] = what]

Goto(r, where) ==
  /\ pc' = [pc EXCEPT ![r] = where]
  /\ UNCHANGED answer

-----------------------------------------------------------------------------
\* A session of POST /sessions has neither origin nor subject, one a policy
\* decision opens has those of the evaluated request; the path is the verifying
\* request's, the nonce the session's, either may be empty.
Carriable == {Scope \cup w : w \in SUBSET Way} \cup {(Fields \ Way) \cup w : w \in SUBSET Way}

(* token.Service.Issue draws a fresh value and puts the ticket.  Redis' SET   *)
(* may fail; its error is discarded and the value handed out all the same.    *)
Issue(v, context, S) ==
  /\ ~binding[v].issued
  /\ binding' = [binding EXCEPT ![v] = [issued |-> TRUE, carries |-> Part(context, S),
                                        deadline |-> clock + TicketTTL]]
  /\ \/ kept' = [kept EXCEPT ![v] = "live"]
     \/ Durable /\ UNCHANGED kept
  /\ UNCHANGED <<clearances, pc, ticketOf, contextOf, dirty, answer, clock, redeemer>>

(* A request arrives with a ticket that was handed out, to consume it or      *)
(* (consume = false, the VerifyTicket RPC) only to inspect it.                *)
Present(r, v, context, consume) ==
  /\ pc[r] = "new"
  /\ binding[v].issued
  /\ ticketOf' = [ticketOf EXCEPT ![r] = v]
  /\ contextOf' = [contextOf EXCEPT ![r] = context]
  /\ Goto(r, IF consume THEN "sent" ELSE "inspect")
  /\ UNCHANGED <<kept, binding, clearances, dirty, clock, redeemer>>

\* WATCH: later changes of the key by others will stop EXEC.
Watch(r) ==
  /\ Durable
  /\ pc[r] = "sent"
  /\ dirty' = dirty \ {r}
  /\ Goto(r, "watched")
  /\ UNCHANGED <<kept, binding, clearances, ticketOf, contextOf, clock, redeemer>>

\* The GET of the transaction and validateTicket on what it returns.
Read(r) ==
  /\ pc[r] = "watched"
  /\ LET outcome == Validate(ticketOf[r], contextOf[r])
     IN IF outcome = "ok" THEN Goto(r, "validated") ELSE Answer(r, outcome)
  /\ UNCHANGED <<kept, binding, clearances, ticketOf, contextOf, dirty, clock, redeemer>>

\* Mutant: the key is not watched, so EXEC always applies.
ExecutableUnwatched(r) == TRUE

\* EXEC applies unless a watched key was touched.
Executable(r) == r \notin dirty

(* EXEC applies the SET: the ticket is stored as consumed (an expired key is  *)
(* thereby stored again) and every other connection watching it is flagged.   *)
Consume(r) ==
  LET v == ticketOf[r]
  IN /\ kept' = [kept EXCEPT ![v] = "consumed"]
     /\ dirty' = dirty \cup (Watching(v) \ {r})
     /\ redeemer' = [redeemer EXCEPT ![v] = r]

Exec(r) ==
  /\ pc[r] = "validated"
  /\ Executable(r)
  /\ Consume(r)
  /\ Goto(r, "redeemed")
  /\ UNCHANGED <<binding, clearances, ticketOf, contextOf, clock>>

\* redis.TxFailedErr is answered as ErrConsumed.
ExecAborted(r) ==
  /\ pc[r] = "validated"
  /\ ~Executable(r)
  /\ Answer(r, "CONSUMED")
  /\ UNCHANGED <<kept, binding, clearances, ticketOf, contextOf, dirty, clock, redeemer>>

(* Redis cannot be reached, or not any more: also when EXEC has been applied   *)
(* and only its reply is lost, so that the ticket is consumed all the same.    *)
Unavailable(r) ==
  /\ Durable
  /\ pc[r] \in {"sent", "watched", "validated", "redeemed", "inspect"}
  /\ Answer(r, "error")
  /\ UNCHANGED <<kept, binding, clearances, ticketOf, contextOf, dirty, clock, redeemer>>

\* MemoryStore.VerifyTicket with consume, under the store's mutex.
ConsumeLocked(r) ==
  /\ ~Durable
  /\ pc[r] = "sent"
  /\ LET outcome == Validate(ticketOf[r], contextOf[r])
     IN IF outcome = "ok"
        THEN Consume(r) /\ Goto(r, "redeemed")
        ELSE Answer(r, outcome) /\ UNCHANGED <<kept, dirty, redeemer>>
  /\ UNCHANGED <<binding, clearances, ticketOf, contextOf, clock>>

\* VerifyTicket without consume, on either store: one read.
Inspect(r) ==
  /\ pc[r] = "inspect"
  /\ LET outcome == Validate(ticketOf[r], contextOf[r])
     IN Answer(r, IF outcome = "ok" THEN "valid" ELSE outcome)
  /\ UNCHANGED <<kept, binding, clearances, ticketOf, contextOf, dirty, clock, redeemer>>

\* Mutant: a request without a user agent gets a clearance as well.
ClearableAnyway(context) == TRUE

\* No clearance is made for a request without address or user agent.
Clearable(context) == \A f \in Origin : context[f] # None

(* withClearance, addClearanceFields: a clearance that carries what the       *)
(* redeeming request came with, its way aside.  A failed SET is discarded,    *)
(* and without random bytes none is issued.                                   *)
Mint(r) ==
  /\ pc[r] = "redeemed"
  /\ \/ /\ Clearable(contextOf[r])
        /\ clearances' = clearances \cup {[ticket |-> ticketOf[r],
                                          carries |-> Part(contextOf[r], Fields \ Way),
                                          deadline |-> clock + ClearanceTTL]}
     \/ UNCHANGED clearances
  /\ Answer(r, "redeemed")
  /\ UNCHANGED <<kept, binding, ticketOf, contextOf, dirty, clock, redeemer>>

\* A request arrives with a clearance and no ticket.
PresentClearance(r, context) ==
  /\ pc[r] = "new"
  /\ contextOf' = [contextOf EXCEPT ![r] = context]
  /\ Goto(r, "clear")
  /\ UNCHANGED <<kept, binding, clearances, ticketOf, dirty, clock, redeemer>>

\* Mutant: what the clearance carries is not compared.
HonouredForAll(c, context) == clock <= c.deadline

\* validateClearance
Honoured(c, context) == clock <= c.deadline /\ Matches(c.carries, context)

(* VerifyClearance of the clearance c: an expired one is deleted.  When it is *)
(* not honoured the request goes on to the policy's evaluation.               *)
VerifyClearance(r, c) ==
  /\ pc[r] = "clear"
  /\ Answer(r, IF Honoured(c, contextOf[r]) THEN "cleared" ELSE "evaluate")
  /\ clearances' = IF clock > c.deadline THEN clearances \ {c} ELSE clearances
  /\ UNCHANGED <<kept, binding, ticketOf, contextOf, dirty, clock, redeemer>>

\* The clearance it presents is not kept.
UnknownClearance(r) ==
  /\ pc[r] = "clear"
  /\ Answer(r, "evaluate")
  /\ UNCHANGED <<kept, binding, clearances, ticketOf, contextOf, dirty, clock, redeemer>>

-----------------------------------------------------------------------------
(* Redis drops a key at the end of its TTL; whether an expired key that is    *)
(* watched stops EXEC has changed between Redis versions.                     *)
ExpireKey(v) ==
  /\ Durable
  /\ kept[v] # "absent"
  /\ clock >= binding[v].deadline
  /\ kept' = [kept EXCEPT ![v] = "absent"]
  /\ dirty' \in {dirty, dirty \cup Watching(v)}
  /\ UNCHANGED <<binding, clearances, pc, ticketOf, contextOf, answer, clock, redeemer>>

ExpireClearance(c) ==
  /\ Durable
  /\ clock >= c.deadline
  /\ clearances' = clearances \ {c}
  /\ UNCHANGED <<kept, binding, pc, ticketOf, contextOf, dirty, answer, clock, redeemer>>

(* A server dies with the requests it was serving, and with the store when    *)
(* that is its memory.                                                        *)
Crash(S) ==
  /\ Durable \/ S = InFlight
  /\ pc' = [r \in Requests |-> IF r \in S THEN "answered" ELSE pc[r]]
  /\ answer' = [r \in Requests |-> IF r \in S THEN "lost" ELSE answer[r]]
  /\ kept' = IF Durable THEN kept ELSE [v \in Values |-> "absent"]
  /\ clearances' = IF Durable THEN clearances ELSE {}
  /\ UNCHANGED <<binding, ticketOf, contextOf, dirty, clock, redeemer>>

Tick ==
  /\ clock < MaxClock
  /\ clock' = clock + 1
  /\ UNCHANGED <<kept, binding, clearances, pc, ticketOf, contextOf, dirty, answer, redeemer>>

-----------------------------------------------------------------------------
Init ==
  /\ backend \in Backends
  /\ kept = [v \in Values |-> "absent"]
  /\ binding = [v \in Values |-> [issued |-> FALSE, carries |-> [f \in Fields |-> None], deadline |-> 0]]
  /\ clearances = {}
  /\ pc = [r \in Requests |-> "new"]
  /\ ticketOf = [r \in Requests |-> None]
  /\ contextOf = [r \in Requests |-> CHOOSE c \in Contexts : TRUE]
  /\ dirty = {}
  /\ answer = [r \in Requests |-> "none"]
  /\ clock = 0
  /\ redeemer = [v \in Values |-> None]

Next ==
  /\ UNCHANGED backend
  /\ \/ \E v \in Values, c \in Contexts, S \in Carriable : Issue(v, c, S)
     \/ \E r \in Requests, v \in Values, c \in Contexts, consume \in BOOLEAN : Present(r, v, c, consume)
     \/ \E r \in Requests, c \in Contexts : PresentClearance(r, c)
     \/ \E r \in Requests :
          \/ Watch(r)
          \/ Read(r)
          \/ Exec(r)
          \/ ExecAborted(r)
          \/ Unavailable(r)
          \/ ConsumeLocked(r)
          \/ Inspect(r)
          \/ Mint(r)
          \/ UnknownClearance(r)
          \/ \E c \in clearances : VerifyClearance(r, c)
     \/ \E v \in Values : ExpireKey(v)
     \/ \E c \in clearances : ExpireClearance(c)
     \/ \E S \in SUBSET InFlight : Crash(S)
     \/ Tick

Spec == Init /\ [][Next]_vars

-----------------------------------------------------------------------------
\* Every variable has its type; an answer is one of the codes the API knows.
TypeOK ==
  /\ backend \in Backends
  /\ kept \in [Values -> {"absent", "live", "consumed"}]
  /\ binding \in [Values -> Bindings]
  /\ clearances \subseteq Clearances
  /\ pc \in [Requests -> PCs]
  /\ ticketOf \in [Requests -> Values \cup {None}]
  /\ contextOf \in [Requests -> Contexts]
  /\ dirty \subseteq Requests
  /\ answer \in [Requests -> Answers]
  /\ clock \in Nat
  /\ redeemer \in [Values -> Requests \cup {None}]

\* The abstract state of OneShotTicket.
Admitted == [v \in Values |-> {r \in Requests : ticketOf[r] = v /\ Admits(v, contextOf[r])}]
LapsedTickets == {v \in Values : binding[v].issued /\ clock >= binding[v].deadline}
Told == [r \in Requests |-> IF answer[r] \in {"none", "redeemed", "CONSUMED"} THEN answer[r] ELSE "other"]

OneShot == INSTANCE OneShotTicket WITH
             admits <- Admitted, lapsed <- LapsedTickets, verdict <- Told

(* VerifyTicket keeps the promise of OneShotTicket: however the round trips   *)
(* of concurrent redemptions, expiry, errors and crashes interleave, one      *)
(* request at most redeems a ticket, it is one the ticket is bound to, and    *)
(* CONSUMED (also when it stands for an aborted transaction) is the truth.    *)
RedemptionIsOneShot == OneShot!Spec

(* A clearance stands for one redemption: no ticket is exchanged for two.  It *)
(* pins client, scene, address and user agent, and whatever else its ticket   *)
(* was bound to (path and nonce aside): it is never wider than the ticket.    *)
ClearancesEarned ==
  \A c \in clearances :
    /\ redeemer[c.ticket] # None
    /\ answer[redeemer[c.ticket]] = "redeemed"
    /\ c.carries = Part(contextOf[redeemer[c.ticket]], Fields \ Way)
    /\ \A f \in Scope \cup Origin : c.carries[f] # None
    /\ \A f \in Fields \ Way : binding[c.ticket].carries[f] \in {None, c.carries[f]}
    /\ \A d \in clearances : d.ticket = c.ticket => d = c

(* A request let through on a clearance is of the client and scene, and comes *)
(* from the address and user agent, of a request that redeemed a ticket, and  *)
(* from its account and device where that one named them, even if ticket,     *)
(* clearance or server are gone by now.                                       *)
ClearedByRedemption ==
  \A r \in Requests : answer[r] = "cleared" =>
    \E v \in Values :
      /\ redeemer[v] # None
      /\ \A f \in Scope \cup Origin : contextOf[redeemer[v]][f] = contextOf[r][f]
      /\ \A f \in Fields \ Way : contextOf[redeemer[v]][f] \in {None, contextOf[r][f]}

(* What a clearance stands for, where it is kept and where it is used         *)
(* (withClearance, VerifyClearance).                                          *)
ClearancesHold == ClearancesEarned /\ ClearedByRedemption
=============================================================================
