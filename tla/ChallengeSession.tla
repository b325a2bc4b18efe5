--------------------------- MODULE ChallengeSession ---------------------------
(***************************************************************************)
(* A challenge session as the HTTP API drives it (internal/api/server.go)  *)
(* over the session store (internal/store).                                *)
(*                                                                         *)
(* Every endpoint loads a private COPY of the session, checks it, changes  *)
(* it and writes the whole copy back.  The store's mutex (or one Redis     *)
(* command) covers the load and the write, never what lies between, so     *)
(* the handlers of two requests on one session interleave freely.  The     *)
(* module keeps the control of that path and abstracts what the customer   *)
(* sees: a challenge is the number of its generation, a captcha type is    *)
(* its position in the escalation sequence, and the engine's verdict on an *)
(* answer is a choice among the verdicts it can give.                      *)
(***************************************************************************)
EXTENDS Naturals

CONSTANTS
  Sessions,      \* session identifiers (random, never reused)
  Handlers,      \* goroutines serving one request each at a time
  TicketValues,  \* ticket values randomID can draw
  None,          \* "no session": the target of an idle handler
  MaxFailures,   \* maxSessionFailures
  SessionTTL,    \* the engine's sessionTTL, in clock ticks
  TopLevel,      \* length of the session's escalation sequence
  Backends,      \* the session stores a server may be configured with
  MaxClock,      \* bound: the clock stops here
  MaxChallenges, \* bound: challenges generated in a behaviour
  MaxAttempts    \* bound: failed verifications of one session

ASSUME SessionAssumption ==
  /\ None \notin Sessions
  /\ MaxFailures \in Nat \ {0}
  /\ SessionTTL \in Nat
  /\ TopLevel \in Nat \ {0}
  /\ Backends \subseteq {"redis", "memory"}
  /\ MaxClock \in Nat
  /\ MaxChallenges \in Nat
  /\ MaxAttempts \in Nat

VARIABLES
  backend,     \* the session store this server is configured with
  store,       \* SessionStore: the stored session of every identifier
  pc,          \* where each handler is in its endpoint
  target,      \* the session it works on
  copy,        \* its private copy of that session
  tickets,     \* the tickets put so far
  appActive,   \* whether the client's application is "active"
  clock,       \* time.Now()
  challenges,  \* how many challenges the engine has generated
  failed,      \* history: failed verifications, by session
  disturbed    \* history: sessions on which requests overlapped, or whose
               \* last update a crash or a failed write dropped

vars == <<backend, store, pc, target, copy, tickets, appActive, clock, challenges,
          failed, disturbed>>

\* Sessions live in Redis, and not in the memory of the process.
Durable == backend = "redis"

-----------------------------------------------------------------------------
(* The session record.  challenge = 0 stands for a cleared Answer and       *)
(* RenderPayload; "none" for an identifier the store does not hold.         *)

Statuses == {"none", "active", "refresh_required", "verified", "expired"}

SessionRecords ==
  [status: Statuses, failures: Nat, challenge: Nat, level: 1..TopLevel, deadline: Nat]

NoSession ==
  [status |-> "none", failures |-> 0, challenge |-> 0, level |-> 1, deadline |-> 0]

NewSession(n, level) ==
  [status |-> "active", failures |-> 0, challenge |-> n, level |-> level,
   deadline |-> clock + SessionTTL]

TicketRecords == [value: TicketValues, session: Sessions, challenge: Nat, failures: Nat]

PCs == {"idle", "verify", "verify_admitted", "ticket_put", "refresh", "refresh_admitted"}

\* time.Now().After(session.ExpiresAt)
Lapsed(session) == clock > session.deadline

\* Mutants of the two checks below: a verified session verified again, a
\* session verified before its refresh, an expired one refreshed.
VerifiableTwice(session) == session.status \in {"active", "verified"}
VerifiableUnrefreshed(session) == session.status \in {"active", "refresh_required"}
RefreshableExpired(session) == session.status \in {"active", "refresh_required", "expired"}

\* requireActiveSession and requireRefreshableSession, on the loaded copy.
Verifiable(session) == session.status = "active"
Refreshable(session) == session.status \in {"active", "refresh_required"}

\* Mutant: the end of the sequence is not checked.
HarderTypeUnbounded(level) == level + 1

\* HarderType: the next type of the sequence, or the same at its end.
HarderType(level) == IF level < TopLevel THEN level + 1 ELSE level

\* Mutants: the limit is off by one; the answer is left in place.
RecordFailureLate(session, verdict) ==
  LET counted == [session EXCEPT !.failures = @ + 1]
  IN IF counted.failures > MaxFailures
     THEN [counted EXCEPT !.status = "expired"]
     ELSE [counted EXCEPT !.status = "refresh_required", !.challenge = 0]
RecordFailureKeepsAnswer(session, verdict) ==
  [session EXCEPT !.failures = @ + 1,
                  !.status = IF session.failures + 1 >= MaxFailures THEN "expired" ELSE "refresh_required"]

(* What recordFailedVerification writes back.  engine.Verify, the route and  *)
(* the nonce check decide "retry" or "harder", never "block", so the branch   *)
(* for DecisionBlock is not reached.                                          *)
RecordFailure(session, verdict) ==
  LET lockedOut == session.failures + 1 >= MaxFailures
  IN [status    |-> IF lockedOut THEN "expired" ELSE "refresh_required",
      failures  |-> session.failures + 1,
      challenge |-> IF lockedOut THEN session.challenge ELSE 0,
      level     |-> IF verdict = "harder" THEN HarderType(session.level) ELSE session.level,
      deadline  |-> session.deadline]

\* Mutants: a refresh is charged as a failure; a refresh forgets the failures.
RefreshedCharged(session, n) ==
  [session EXCEPT !.challenge = n, !.status = "active", !.deadline = clock + SessionTTL,
                  !.failures = IF @ + 1 < MaxFailures THEN @ + 1 ELSE @]
RefreshedForgetting(session, n) ==
  [session EXCEPT !.challenge = n, !.status = "active", !.deadline = clock + SessionTTL,
                  !.failures = 0]

\* engine.Refresh: a new challenge of the session's type and a new deadline;
\* the failure count is kept.
Refreshed(session, n) ==
  [status |-> "active", failures |-> session.failures, challenge |-> n,
   level |-> session.level, deadline |-> clock + SessionTTL]

\* engine.Verify accepted the copy's challenge.
Verified(session) == [session EXCEPT !.status = "verified"]

-----------------------------------------------------------------------------
Busy(s) == {h \in Handlers : target[h] = s}

Finish(h) ==
  /\ pc' = [pc EXCEPT ![h] = "idle"]
  /\ target' = [target EXCEPT ![h] = None]
  /\ copy' = [copy EXCEPT ![h] = NoSession]

(* UpdateSession: the whole record is replaced, whatever was written since    *)
(* the handler loaded its copy.  The Redis store discards the error of its    *)
(* SET, so there the update may be dropped and the handler still answers.     *)
UpdateSession(s, session) ==
  \/ /\ store' = [store EXCEPT ![s] = session]
     /\ UNCHANGED disturbed
  \/ /\ Durable
     /\ disturbed' = disturbed \cup {s}
     /\ UNCHANGED store

-----------------------------------------------------------------------------
Init ==
  /\ backend \in Backends
  /\ store = [s \in Sessions |-> NoSession]
  /\ pc = [h \in Handlers |-> "idle"]
  /\ target = [h \in Handlers |-> None]
  /\ copy = [h \in Handlers |-> NoSession]
  /\ tickets = {}
  /\ appActive = TRUE
  /\ clock = 0
  /\ challenges = 0
  /\ failed = [s \in Sessions |-> 0]
  /\ disturbed = {}

\* handleCreateSession, and policyDecisionWithChallengeSession when a policy
\* asks for a challenge.  Nobody knows the identifier before it is answered.
CreateSession(s) ==
  /\ appActive
  /\ store[s].status = "none"
  /\ challenges < MaxChallenges
  /\ challenges' = challenges + 1
  /\ \E level \in 1..TopLevel : UpdateSession(s, NewSession(challenges + 1, level))
  /\ UNCHANGED <<pc, target, copy, tickets, appActive, clock, failed>>

\* loadSession when the session lives: the handler gets a copy.
Load(h, s, entry) ==
  /\ pc[h] = "idle"
  /\ store[s].status # "none"
  /\ ~Lapsed(store[s])
  /\ pc' = [pc EXCEPT ![h] = entry]
  /\ target' = [target EXCEPT ![h] = s]
  /\ copy' = [copy EXCEPT ![h] = store[s]]
  /\ disturbed' = IF Busy(s) = {} THEN disturbed ELSE disturbed \cup {s}
  /\ UNCHANGED <<store, tickets, appActive, clock, challenges, failed>>

\* loadSession, by any endpoint, when the deadline has passed: the memory
\* store marks the session expired under its mutex and answers ErrExpired; the
\* Redis store only answers.
LoadLapsed(s) ==
  /\ ~Durable
  /\ store[s].status \notin {"none", "expired"}
  /\ Lapsed(store[s])
  /\ store' = [store EXCEPT ![s].status = "expired"]
  /\ disturbed' = IF Busy(s) = {} THEN disturbed ELSE disturbed \cup {s}
  /\ UNCHANGED <<pc, target, copy, tickets, appActive, clock, challenges, failed>>

\* requireActiveApplication, then the check of the copy's status.
Admit(h) ==
  /\ appActive
  /\ \/ pc[h] = "verify" /\ Verifiable(copy[h])
        /\ pc' = [pc EXCEPT ![h] = "verify_admitted"]
     \/ pc[h] = "refresh" /\ Refreshable(copy[h])
        /\ pc' = [pc EXCEPT ![h] = "refresh_admitted"]
  /\ UNCHANGED <<store, target, copy, tickets, appActive, clock, challenges,
                 failed, disturbed>>

\* The early returns: application not active, malformed or forbidden body,
\* session not active, challenge or ticket generation failed.
Reject(h) ==
  /\ \/ pc[h] \in {"verify", "verify_admitted", "refresh_admitted"}
     \/ pc[h] = "refresh" /\ ~(appActive /\ Refreshable(copy[h]))
  /\ Finish(h)
  /\ UNCHANGED <<store, tickets, appActive, clock, challenges, failed, disturbed>>

\* handleVerifySession, a failed attempt: recordFailedVerification.
FailVerification(h, verdict) ==
  /\ pc[h] = "verify_admitted"
  /\ failed[target[h]] < MaxAttempts
  /\ failed' = [failed EXCEPT ![target[h]] = @ + 1]
  /\ UpdateSession(target[h], RecordFailure(copy[h], verdict))
  /\ Finish(h)
  /\ UNCHANGED <<tickets, appActive, clock, challenges>>

\* handleVerifySession, an accepted answer: tokens.Issue puts a ticket with a
\* fresh random value BEFORE the session is marked verified.
IssueTicket(h, value) ==
  /\ pc[h] = "verify_admitted"
  /\ value \notin {t.value : t \in tickets}
  /\ tickets' = tickets \cup
       {[value |-> value, session |-> target[h], challenge |-> copy[h].challenge,
         failures |-> copy[h].failures]}
  /\ pc' = [pc EXCEPT ![h] = "ticket_put"]
  /\ UNCHANGED <<store, target, copy, appActive, clock, challenges, failed, disturbed>>

\* ... and then the copy is written back as verified.
MarkVerified(h) ==
  /\ pc[h] = "ticket_put"
  /\ UpdateSession(target[h], Verified(copy[h]))
  /\ Finish(h)
  /\ UNCHANGED <<tickets, appActive, clock, challenges, failed>>

\* handleRefreshSession.
RefreshSession(h) ==
  /\ pc[h] = "refresh_admitted"
  /\ challenges < MaxChallenges
  /\ challenges' = challenges + 1
  /\ UpdateSession(target[h], Refreshed(copy[h], challenges + 1))
  /\ Finish(h)
  /\ UNCHANGED <<tickets, appActive, clock, failed>>

\* The server process dies and restarts: every request in flight is gone, the
\* sessions in Redis are not.  (With the memory store nothing survives and the
\* restart is Init.)
Crash ==
  /\ Durable
  /\ \E h \in Handlers : pc[h] # "idle"
  /\ pc' = [h \in Handlers |-> "idle"]
  /\ target' = [h \in Handlers |-> None]
  /\ copy' = [h \in Handlers |-> NoSession]
  /\ disturbed' = disturbed \cup {s \in Sessions : Busy(s) # {}}
  /\ UNCHANGED <<store, tickets, appActive, clock, challenges, failed>>

\* An administrator enables or disables the application.
SetApplicationStatus ==
  /\ appActive' = ~appActive
  /\ UNCHANGED <<store, pc, target, copy, tickets, clock, challenges, failed, disturbed>>

Tick ==
  /\ clock < MaxClock
  /\ clock' = clock + 1
  /\ UNCHANGED <<store, pc, target, copy, tickets, appActive, challenges, failed, disturbed>>

Next ==
  /\ UNCHANGED backend
  /\ \/ \E s \in Sessions : CreateSession(s) \/ LoadLapsed(s)
     \/ \E h \in Handlers, s \in Sessions, entry \in {"verify", "refresh"} : Load(h, s, entry)
     \/ \E h \in Handlers :
          \/ Admit(h) \/ Reject(h)
          \/ \E verdict \in {"retry", "harder"} : FailVerification(h, verdict)
          \/ \E value \in TicketValues : IssueTicket(h, value)
          \/ MarkVerified(h) \/ RefreshSession(h)
     \/ Crash \/ SetApplicationStatus \/ Tick

Spec == Init /\ [][Next]_vars

-----------------------------------------------------------------------------
TypeOK ==
  /\ backend \in Backends
  /\ store \in [Sessions -> SessionRecords]
  /\ pc \in [Handlers -> PCs]
  /\ target \in [Handlers -> Sessions \cup {None}]
  /\ copy \in [Handlers -> SessionRecords]
  /\ tickets \in SUBSET TicketRecords
  /\ appActive \in BOOLEAN
  /\ clock \in Nat
  /\ challenges \in Nat
  /\ failed \in [Sessions -> Nat]
  /\ disturbed \in SUBSET Sessions

(* A usable session is one a request may still verify or refresh.            *)
WellFormed(session) ==
  /\ Refreshable(session) => session.failures < MaxFailures
  /\ session.status = "active" => session.challenge # 0
  /\ session.status = "refresh_required" => session.challenge = 0

(* Whatever stale copies are written back, the stored session never combines *)
(* fields of two histories: a session that can still be verified or          *)
(* refreshed is below the failure limit (recordFailedVerification), one that *)
(* can be verified holds a challenge, so that an empty answer is compared    *)
(* with nothing, and one that waits for a refresh holds none.                *)
StoredSessionsWellFormed == \A s \in Sessions : WellFormed(store[s])

(* No ticket is put on behalf of a copy that had used up its failures or had *)
(* no challenge to answer (handleVerifySession, tokens.Issue).               *)
TicketsEarned ==
  \A t \in tickets : t.failures < MaxFailures /\ t.challenge \in 1..challenges

(* Lost updates only lose: the failures a session is charged with never      *)
(* exceed the verifications that failed, so nobody is locked out early.      *)
NeverOvercharged == \A s \in Sessions : store[s].failures <= failed[s]

(* What overlapping requests, dropped writes and crashes leave of a session's *)
(* promises: what is stored is of one history, tickets were earned, and       *)
(* nobody is charged with more failures than happened.                       *)
SessionsSound == StoredSessionsWellFormed /\ TicketsEarned /\ NeverOvercharged

(* As long as the requests on a session do not overlap and no update of it   *)
(* is dropped, every failed verification is charged.                         *)
QuietFailuresCharged ==
  \A s \in Sessions \ disturbed : store[s].failures = failed[s]

(* ... and a session yields one ticket at most: the second verify of a       *)
(* verified session is refused (requireActiveSession).                       *)
QuietSessionOneTicket ==
  \A t1, t2 \in tickets :
    t1.session = t2.session /\ t1.session \notin disturbed => t1 = t2

(* ... and it only moves forward: verified and expired are final (a verified *)
(* session may lapse), the failure count and the escalation level never drop.*)
Forward(old, new) ==
  /\ old.failures <= new.failures
  /\ old.level <= new.level \/ old.status = "none"
  /\ old.status = "expired" => new.status = "expired"
  /\ old.status = "verified" => new.status \in {"verified", "expired"}

QuietSessionMovesForward ==
  [][\A s \in Sessions : s \notin disturbed' => Forward(store[s], store'[s])]_vars

(* A session nothing has disturbed keeps what the documents promise of every  *)
(* session: failures are charged, there is one ticket, nothing comes back.    *)
QuietSessionsOrderly ==
  [](QuietFailuresCharged /\ QuietSessionOneTicket) /\ QuietSessionMovesForward

(* What docs/zh/architecture-design.md:36 says of every session, whatever    *)
(* the requests: a verified session is not exchanged for a ticket again...   *)
OneTicketPerSession ==
  \A t1, t2 \in tickets : t1.session = t2.session => t1 = t2

(* ... and a session that reached the failure limit is never verified or     *)
(* refreshed again (the same line, and line 2179).                           *)
LockedOutForGood ==
  [][\A s \in Sessions : store[s].failures >= MaxFailures => ~Refreshable(store'[s])]_vars
=============================================================================
