------------------------ MODULE ChallengeSession_proofs ------------------------
(***************************************************************************)
(* Proofs about ChallengeSession, for any sets of sessions, handlers and   *)
(* ticket values and any limits.                                           *)
(*                                                                         *)
(* The stored session alone is no inductive invariant: what a handler      *)
(* writes back comes from its copy.  The invariant therefore says of the   *)
(* copies what it says of the store, that a copy past the status check     *)
(* still passes it, and, for a session on which requests did not overlap,  *)
(* that the only copy IS the stored session.                               *)
(***************************************************************************)
EXTENDS ChallengeSession, TLAPS

HandlersPlaced ==
  \A h \in Handlers :
    /\ pc[h] = "idle" <=> target[h] = None
    /\ pc[h] # "idle" => copy[h].status # "none"
    /\ pc[h] = "idle" => copy[h] = NoSession
    /\ pc[h] \in {"verify_admitted", "ticket_put"} => Verifiable(copy[h])
    /\ pc[h] = "refresh_admitted" => Refreshable(copy[h])

WellFormedInv ==
  /\ \A s \in Sessions : WellFormed(store[s]) /\ store[s].challenge <= challenges
  /\ \A h \in Handlers : WellFormed(copy[h]) /\ copy[h].challenge <= challenges

ChargeInv ==
  /\ \A s \in Sessions : store[s].failures <= failed[s]
  /\ \A h \in Handlers : pc[h] # "idle" => copy[h].failures <= failed[target[h]]

(* A session nobody disturbed: one request at a time, working on what is stored. *)
QuietInv ==
  \A s \in Sessions \ disturbed :
    /\ \A h, g \in Handlers : target[h] = s /\ target[g] = s => h = g
    /\ \A h \in Handlers : target[h] = s => copy[h] = store[s]
    /\ store[s].failures = failed[s]
    /\ store[s].status = "none" => store[s].failures = 0
    /\ \A t \in tickets : t.session = s =>
         \/ store[s].status \in {"verified", "expired"}
         \/ \E h \in Handlers : target[h] = s /\ pc[h] = "ticket_put"

IInv ==
  /\ TypeOK
  /\ HandlersPlaced
  /\ WellFormedInv
  /\ TicketsEarned
  /\ ChargeInv
  /\ QuietInv
  /\ QuietSessionOneTicket

-----------------------------------------------------------------------------
(* What the endpoints compute from a copy.                                  *)

LEMMA NewSessionFacts ==
  ASSUME NEW n \in Nat, n > 0, NEW level \in 1..TopLevel, clock \in Nat
  PROVE  /\ NewSession(n, level) \in SessionRecords
         /\ WellFormed(NewSession(n, level))
         /\ NewSession(n, level).status = "active"
         /\ NewSession(n, level).failures = 0
         /\ NewSession(n, level).challenge = n
BY SessionAssumption
   DEF NewSession, SessionRecords, Statuses, WellFormed, Refreshable

LEMMA HarderTypeFacts ==
  ASSUME NEW level \in 1..TopLevel
  PROVE  HarderType(level) \in 1..TopLevel /\ level <= HarderType(level)
BY SessionAssumption DEF HarderType

LEMMA RecordFailureFacts ==
  ASSUME NEW session \in SessionRecords, NEW verdict
  PROVE  /\ RecordFailure(session, verdict) \in SessionRecords
         /\ WellFormed(RecordFailure(session, verdict))
         /\ RecordFailure(session, verdict).failures = session.failures + 1
         /\ RecordFailure(session, verdict).challenge \in {0, session.challenge}
         /\ RecordFailure(session, verdict).status \in {"expired", "refresh_required"}
         /\ session.level <= RecordFailure(session, verdict).level
<1> DEFINE next == RecordFailure(session, verdict)
<1>1. session.level \in 1..TopLevel /\ session.failures \in Nat /\ session.challenge \in Nat
      /\ session.deadline \in Nat
  BY DEF SessionRecords
<1>2. /\ HarderType(session.level) \in 1..TopLevel
      /\ session.level <= HarderType(session.level)
  BY <1>1, HarderTypeFacts
<1>3. next \in SessionRecords
  BY <1>1, <1>2 DEF RecordFailure, SessionRecords, Statuses
<1>4. /\ next.failures = session.failures + 1
      /\ next.challenge \in {0, session.challenge}
      /\ next.status \in {"expired", "refresh_required"}
  BY DEF RecordFailure
<1>5. session.level <= next.level
  BY <1>1, <1>2, SessionAssumption DEF RecordFailure
<1>6. WellFormed(next)
  BY <1>1, SessionAssumption DEF RecordFailure, WellFormed, Refreshable
<1> QED BY <1>3, <1>4, <1>5, <1>6

LEMMA RefreshedFacts ==
  ASSUME NEW session \in SessionRecords, Refreshable(session), WellFormed(session),
         NEW n \in Nat, n > 0, clock \in Nat
  PROVE  /\ Refreshed(session, n) \in SessionRecords
         /\ WellFormed(Refreshed(session, n))
         /\ Refreshed(session, n).status = "active"
         /\ Refreshed(session, n).failures = session.failures
         /\ Refreshed(session, n).challenge = n
         /\ Refreshed(session, n).level = session.level
BY SessionAssumption
   DEF Refreshed, SessionRecords, Statuses, WellFormed, Refreshable

LEMMA VerifiedFacts ==
  ASSUME NEW session \in SessionRecords
  PROVE  /\ Verified(session) \in SessionRecords
         /\ WellFormed(Verified(session))
         /\ Verified(session).status = "verified"
         /\ Verified(session).failures = session.failures
         /\ Verified(session).challenge = session.challenge
         /\ Verified(session).level = session.level
BY DEF Verified, SessionRecords, Statuses, WellFormed, Refreshable

LEMMA NoSessionFacts ==
  NoSession \in SessionRecords /\ WellFormed(NoSession) /\ NoSession.challenge = 0
  /\ NoSession.status = "none" /\ NoSession.failures = 0
BY SessionAssumption DEF NoSession, SessionRecords, Statuses, WellFormed, Refreshable

-----------------------------------------------------------------------------
(* The two steps the endpoints share.                                       *)

LEMMA UpdateSessionFacts ==
  ASSUME TypeOK, NEW s \in Sessions, NEW session \in SessionRecords,
         UpdateSession(s, session)
  PROVE  /\ store' \in [Sessions -> SessionRecords]
         /\ disturbed' \in SUBSET Sessions
         /\ disturbed \subseteq disturbed'
         /\ \A r \in Sessions : r # s => store'[r] = store[r]
         /\ \A r \in Sessions : r # s /\ r \notin disturbed => r \notin disturbed'
         /\ store'[s] \in {store[s], session}
         /\ s \notin disturbed' => store'[s] = session
BY DEF TypeOK, UpdateSession

LEMMA FinishFacts ==
  ASSUME TypeOK, NEW h \in Handlers, Finish(h)
  PROVE  /\ pc' \in [Handlers -> PCs]
         /\ target' \in [Handlers -> Sessions \cup {None}]
         /\ copy' \in [Handlers -> SessionRecords]
         /\ pc'[h] = "idle" /\ target'[h] = None /\ copy'[h] = NoSession
         /\ \A g \in Handlers : g # h =>
              pc'[g] = pc[g] /\ target'[g] = target[g] /\ copy'[g] = copy[g]
BY NoSessionFacts DEF TypeOK, Finish, PCs

(* A handler past "idle" has a session, and its copy is a session record.    *)
LEMMA PlacedFacts ==
  ASSUME TypeOK, HandlersPlaced, NEW h \in Handlers, pc[h] # "idle"
  PROVE  target[h] \in Sessions /\ copy[h] \in SessionRecords
BY SessionAssumption DEF TypeOK, HandlersPlaced

-----------------------------------------------------------------------------
LEMMA InitIInv == Init => IInv
<1> SUFFICES ASSUME Init PROVE IInv
  OBVIOUS
<1> USE DEF Init
<1>1. TypeOK
  BY NoSessionFacts DEF TypeOK, PCs
<1>2. HandlersPlaced
  BY SessionAssumption DEF HandlersPlaced
<1>3. WellFormedInv
  BY NoSessionFacts DEF WellFormedInv
<1>4. TicketsEarned /\ QuietSessionOneTicket
  BY DEF TicketsEarned, QuietSessionOneTicket
<1>5. ChargeInv
  BY NoSessionFacts DEF ChargeInv
<1>6. QuietInv
  BY NoSessionFacts, SessionAssumption DEF QuietInv
<1> QED BY <1>1, <1>2, <1>3, <1>4, <1>5, <1>6 DEF IInv

-----------------------------------------------------------------------------
(* One lemma per part of the invariant, one step per action in each.         *)

LEMMA TypeStep == TypeOK /\ HandlersPlaced /\ WellFormedInv /\ [Next]_vars => TypeOK'
<1> SUFFICES ASSUME TypeOK, HandlersPlaced, WellFormedInv, [Next]_vars PROVE TypeOK'
  OBVIOUS
<1>0. (backend \in Backends)'
  BY DEF TypeOK, Next, vars
<1> USE <1>0
<1>1. ASSUME NEW s \in Sessions, CreateSession(s) PROVE TypeOK'
  <2> PICK level \in 1..TopLevel : UpdateSession(s, NewSession(challenges + 1, level))
    BY <1>1 DEF CreateSession
  <2>1. NewSession(challenges + 1, level) \in SessionRecords
    BY NewSessionFacts DEF TypeOK
  <2> QED BY <1>1, <2>1, UpdateSessionFacts DEF CreateSession, TypeOK
<1>2. ASSUME NEW s \in Sessions, LoadLapsed(s) PROVE TypeOK'
  <2>1. [store[s] EXCEPT !.status = "expired"] \in SessionRecords
    BY DEF TypeOK, SessionRecords, Statuses
  <2>2. store' = [store EXCEPT ![s] = [store[s] EXCEPT !.status = "expired"]]
    BY <1>2 DEF LoadLapsed
  <2>3. store' \in [Sessions -> SessionRecords]
    BY <2>1, <2>2 DEF TypeOK
  <2> QED BY <1>2, <2>3 DEF LoadLapsed, TypeOK
<1>3. ASSUME NEW h \in Handlers, NEW s \in Sessions, NEW entry \in {"verify", "refresh"},
             Load(h, s, entry)
      PROVE  TypeOK'
  BY <1>3 DEF Load, TypeOK, PCs
<1>4. ASSUME NEW h \in Handlers, Admit(h) PROVE TypeOK'
  BY <1>4 DEF Admit, TypeOK, PCs
<1>5. ASSUME NEW h \in Handlers, Reject(h) PROVE TypeOK'
  BY <1>5, FinishFacts DEF Reject, TypeOK
<1>6. ASSUME NEW h \in Handlers, NEW verdict, FailVerification(h, verdict) PROVE TypeOK'
  <2>1. target[h] \in Sessions /\ RecordFailure(copy[h], verdict) \in SessionRecords
    BY <1>6, PlacedFacts, RecordFailureFacts DEF FailVerification
  <2> QED BY <1>6, <2>1, UpdateSessionFacts, FinishFacts DEF FailVerification, TypeOK
<1>7. ASSUME NEW h \in Handlers, NEW value \in TicketValues, IssueTicket(h, value)
      PROVE  TypeOK'
  <2>1. target[h] \in Sessions /\ copy[h].challenge \in Nat /\ copy[h].failures \in Nat
    BY <1>7, PlacedFacts DEF IssueTicket, SessionRecords
  <2>2. [value |-> value, session |-> target[h], challenge |-> copy[h].challenge,
         failures |-> copy[h].failures] \in TicketRecords
    BY <2>1 DEF TicketRecords
  <2>3. tickets' \in SUBSET TicketRecords
    BY <1>7, <2>2 DEF IssueTicket, TypeOK
  <2> QED BY <1>7, <2>3 DEF IssueTicket, TypeOK, PCs
<1>8. ASSUME NEW h \in Handlers, MarkVerified(h) PROVE TypeOK'
  <2>1. target[h] \in Sessions /\ Verified(copy[h]) \in SessionRecords
    BY <1>8, PlacedFacts, VerifiedFacts DEF MarkVerified
  <2> QED BY <1>8, <2>1, UpdateSessionFacts, FinishFacts DEF MarkVerified, TypeOK
<1>9. ASSUME NEW h \in Handlers, RefreshSession(h) PROVE TypeOK'
  <2>1. target[h] \in Sessions /\ Refreshed(copy[h], challenges + 1) \in SessionRecords
    BY <1>9, PlacedFacts, RefreshedFacts
    DEF RefreshSession, TypeOK, HandlersPlaced, WellFormedInv
  <2> QED BY <1>9, <2>1, UpdateSessionFacts, FinishFacts DEF RefreshSession, TypeOK
<1>10. CASE Crash
  BY <1>10, NoSessionFacts DEF Crash, TypeOK, PCs
<1>11. CASE SetApplicationStatus
  BY <1>11 DEF SetApplicationStatus, TypeOK
<1>12. CASE Tick
  BY <1>12 DEF Tick, TypeOK
<1>13. CASE UNCHANGED vars
  BY <1>13 DEF vars, TypeOK
<1> QED
  BY <1>1, <1>2, <1>3, <1>4, <1>5, <1>6, <1>7, <1>8, <1>9, <1>10, <1>11, <1>12, <1>13
  DEF Next

LEMMA PlacedStep == TypeOK /\ HandlersPlaced /\ [Next]_vars => HandlersPlaced'
<1> SUFFICES ASSUME TypeOK, HandlersPlaced, [Next]_vars PROVE HandlersPlaced'
  OBVIOUS
<1>1. ASSUME NEW s \in Sessions, CreateSession(s) PROVE HandlersPlaced'
  BY <1>1 DEF CreateSession, HandlersPlaced, Verifiable, Refreshable
<1>2. ASSUME NEW s \in Sessions, LoadLapsed(s) PROVE HandlersPlaced'
  BY <1>2 DEF LoadLapsed, HandlersPlaced, Verifiable, Refreshable
<1>3. ASSUME NEW h \in Handlers, NEW s \in Sessions, NEW entry \in {"verify", "refresh"},
             Load(h, s, entry)
      PROVE  HandlersPlaced'
  BY <1>3, SessionAssumption DEF Load, TypeOK, HandlersPlaced, Verifiable, Refreshable
<1>4. ASSUME NEW h \in Handlers, Admit(h) PROVE HandlersPlaced'
  BY <1>4 DEF Admit, TypeOK, HandlersPlaced, Verifiable, Refreshable
<1>5. ASSUME NEW h \in Handlers, Finish(h) PROVE HandlersPlaced'
  BY <1>5, FinishFacts, NoSessionFacts DEF HandlersPlaced, Verifiable, Refreshable
<1>6. ASSUME NEW h \in Handlers, NEW verdict, FailVerification(h, verdict)
      PROVE  HandlersPlaced'
  BY <1>5, <1>6 DEF FailVerification
<1>7. ASSUME NEW h \in Handlers, NEW value \in TicketValues, IssueTicket(h, value)
      PROVE  HandlersPlaced'
  BY <1>7 DEF IssueTicket, TypeOK, HandlersPlaced, Verifiable, Refreshable
<1>8. ASSUME NEW h \in Handlers, Reject(h) \/ MarkVerified(h) \/ RefreshSession(h)
      PROVE  HandlersPlaced'
  BY <1>5, <1>8 DEF Reject, MarkVerified, RefreshSession
<1>9. CASE Crash
  BY <1>9 DEF Crash, HandlersPlaced
<1>10. CASE SetApplicationStatus
  BY <1>10 DEF SetApplicationStatus, HandlersPlaced, Verifiable, Refreshable
<1>11. CASE Tick
  BY <1>11 DEF Tick, HandlersPlaced, Verifiable, Refreshable
<1>12. CASE UNCHANGED vars
  BY <1>12 DEF vars, HandlersPlaced, Verifiable, Refreshable
<1> QED
  BY <1>1, <1>2, <1>3, <1>4, <1>6, <1>7, <1>8, <1>9, <1>10, <1>11, <1>12 DEF Next

(* Every action writes a well-formed record or none, and reads well-formed    *)
(* records into copies.                                                      *)
LEMMA WellFormedStep ==
  TypeOK /\ HandlersPlaced /\ WellFormedInv /\ [Next]_vars => WellFormedInv'
<1> SUFFICES ASSUME TypeOK, HandlersPlaced, WellFormedInv, [Next]_vars
             PROVE  WellFormedInv'
  OBVIOUS
<1>0. challenges \in Nat
  BY DEF TypeOK
<1>1. ASSUME NEW s \in Sessions, CreateSession(s) PROVE WellFormedInv'
  <2> PICK level \in 1..TopLevel : UpdateSession(s, NewSession(challenges + 1, level))
    BY <1>1 DEF CreateSession
  <2> DEFINE new == NewSession(challenges + 1, level)
  <2>1. new \in SessionRecords /\ WellFormed(new) /\ new.challenge = challenges + 1
    BY <1>0, NewSessionFacts DEF TypeOK
  <2> HIDE DEF new
  <2>2. \A r \in Sessions : store'[r] \in {store[r], new}
    BY <2>1, UpdateSessionFacts DEF new
  <2>3. challenges' = challenges + 1 /\ copy' = copy
    BY <1>1 DEF CreateSession
  <2>4. \A r \in Sessions : WellFormed(store'[r]) /\ store'[r].challenge <= challenges'
    BY <1>0, <2>1, <2>2, <2>3 DEF WellFormedInv, TypeOK, SessionRecords
  <2>5. \A g \in Handlers : WellFormed(copy'[g]) /\ copy'[g].challenge <= challenges'
    BY <1>0, <2>3 DEF WellFormedInv, TypeOK, SessionRecords
  <2> QED BY <2>4, <2>5 DEF WellFormedInv, WellFormed, Refreshable
<1>2. ASSUME NEW s \in Sessions, LoadLapsed(s) PROVE WellFormedInv'
  <2> DEFINE lapsed == [store[s] EXCEPT !.status = "expired"]
  <2>1. WellFormed(lapsed) /\ lapsed.challenge = store[s].challenge
    BY DEF TypeOK, SessionRecords, WellFormed, Refreshable
  <2>2. \A r \in Sessions : store'[r] = IF r = s THEN lapsed ELSE store[r]
    BY <1>2 DEF LoadLapsed, TypeOK
  <2> HIDE DEF lapsed
  <2>3. copy' = copy /\ challenges' = challenges
    BY <1>2 DEF LoadLapsed
  <2> QED BY <2>1, <2>2, <2>3 DEF WellFormedInv, WellFormed, Refreshable
<1>3. ASSUME NEW h \in Handlers, NEW s \in Sessions, NEW entry \in {"verify", "refresh"},
             Load(h, s, entry)
      PROVE  WellFormedInv'
  BY <1>3 DEF Load, TypeOK, WellFormedInv, WellFormed, Refreshable
<1>4. ASSUME NEW h \in Handlers, Finish(h), NEW new \in SessionRecords,
             target[h] \in Sessions, UpdateSession(target[h], new),
             challenges' \in Nat, challenges <= challenges',
             WellFormed(new), new.challenge <= challenges'
      PROVE  WellFormedInv'
  <2>1. \A r \in Sessions : store'[r] \in {store[r], new}
    BY <1>4, UpdateSessionFacts
  <2>2. \A g \in Handlers : copy'[g] \in {copy[g], NoSession}
    BY <1>4, FinishFacts
  <2>3. \A r \in Sessions : WellFormed(store'[r]) /\ store'[r].challenge <= challenges'
    BY <1>0, <1>4, <2>1 DEF WellFormedInv, TypeOK, SessionRecords
  <2>4. \A g \in Handlers : WellFormed(copy'[g]) /\ copy'[g].challenge <= challenges'
    BY <1>0, <1>4, <2>2, NoSessionFacts DEF WellFormedInv, TypeOK, SessionRecords
  <2> QED BY <2>3, <2>4 DEF WellFormedInv, WellFormed, Refreshable
<1>5. ASSUME NEW h \in Handlers, NEW verdict, FailVerification(h, verdict)
      PROVE  WellFormedInv'
  <2>1. target[h] \in Sessions /\ copy[h] \in SessionRecords
    BY <1>5, PlacedFacts DEF FailVerification
  <2>2. RecordFailure(copy[h], verdict).challenge <= challenges
    BY <1>0, <2>1, RecordFailureFacts DEF WellFormedInv
  <2> QED BY <1>0, <1>4, <1>5, <2>1, <2>2, RecordFailureFacts DEF FailVerification
<1>6. ASSUME NEW h \in Handlers, MarkVerified(h) PROVE WellFormedInv'
  <2>1. target[h] \in Sessions /\ copy[h] \in SessionRecords
    BY <1>6, PlacedFacts DEF MarkVerified
  <2> QED BY <1>0, <1>4, <1>6, <2>1, VerifiedFacts DEF MarkVerified, WellFormedInv
<1>7. ASSUME NEW h \in Handlers, RefreshSession(h) PROVE WellFormedInv'
  <2>1. target[h] \in Sessions /\ copy[h] \in SessionRecords
    BY <1>7, PlacedFacts DEF RefreshSession
  <2>2. Refreshable(copy[h]) /\ WellFormed(copy[h]) /\ clock \in Nat
    BY <1>7 DEF RefreshSession, HandlersPlaced, WellFormedInv, TypeOK
  <2>3. challenges' = challenges + 1
    BY <1>7 DEF RefreshSession
  <2> QED BY <1>0, <1>4, <1>7, <2>1, <2>2, <2>3, RefreshedFacts DEF RefreshSession
<1>8. ASSUME NEW h \in Handlers, Reject(h) PROVE WellFormedInv'
  BY <1>8, FinishFacts, NoSessionFacts, <1>0 DEF Reject, WellFormedInv, WellFormed, Refreshable
<1>9. ASSUME NEW h \in Handlers,
             Admit(h) \/ (\E value \in TicketValues : IssueTicket(h, value))
      PROVE  WellFormedInv'
  BY <1>9 DEF Admit, IssueTicket, WellFormedInv, WellFormed, Refreshable
<1>10. CASE Crash
  BY <1>10, NoSessionFacts, <1>0 DEF Crash, WellFormedInv, WellFormed, Refreshable
<1>11. CASE SetApplicationStatus
  BY <1>11 DEF SetApplicationStatus, WellFormedInv, WellFormed, Refreshable
<1>12. CASE Tick
  BY <1>12 DEF Tick, WellFormedInv, WellFormed, Refreshable
<1>13. CASE UNCHANGED vars
  BY <1>13 DEF vars, WellFormedInv, WellFormed, Refreshable
<1> QED
  BY <1>1, <1>2, <1>3, <1>5, <1>6, <1>7, <1>8, <1>9, <1>10, <1>11, <1>12, <1>13 DEF Next

LEMMA TicketsStep ==
  TypeOK /\ HandlersPlaced /\ WellFormedInv /\ TicketsEarned /\ [Next]_vars => TicketsEarned'
<1> SUFFICES ASSUME TypeOK, HandlersPlaced, WellFormedInv, TicketsEarned, [Next]_vars
             PROVE  TicketsEarned'
  OBVIOUS
<1>1. CASE tickets' = tickets /\ challenges' \in {challenges, challenges + 1}
  BY <1>1 DEF TicketsEarned, TypeOK
<1>2. ASSUME NEW h \in Handlers, NEW value \in TicketValues, IssueTicket(h, value)
      PROVE  TicketsEarned'
  <2>1. /\ copy[h] \in SessionRecords /\ Verifiable(copy[h]) /\ WellFormed(copy[h])
        /\ copy[h].challenge <= challenges
    BY <1>2, PlacedFacts DEF IssueTicket, HandlersPlaced, WellFormedInv
  <2>2. copy[h].failures < MaxFailures /\ copy[h].challenge \in 1..challenges
    BY <2>1 DEF SessionRecords, Verifiable, WellFormed, Refreshable, TypeOK
  <2> QED BY <1>2, <2>2 DEF IssueTicket, TicketsEarned
<1> QED
  BY <1>1, <1>2 DEF Next, CreateSession, Load, LoadLapsed, Admit, Reject, FailVerification,
     MarkVerified, RefreshSession, Crash, SetApplicationStatus, Tick, vars

LEMMA ChargeStep ==
  TypeOK /\ HandlersPlaced /\ WellFormedInv /\ ChargeInv /\ [Next]_vars => ChargeInv'
<1> SUFFICES ASSUME TypeOK, HandlersPlaced, WellFormedInv, ChargeInv, [Next]_vars
             PROVE  ChargeInv'
  OBVIOUS
<1>0. \A s \in Sessions : store[s].failures \in Nat /\ failed[s] \in Nat
  BY DEF TypeOK, SessionRecords
<1>1. ASSUME NEW s \in Sessions, CreateSession(s) PROVE ChargeInv'
  <2> PICK level \in 1..TopLevel : UpdateSession(s, NewSession(challenges + 1, level))
    BY <1>1 DEF CreateSession
  <2> DEFINE new == NewSession(challenges + 1, level)
  <2>1. new \in SessionRecords /\ new.failures = 0
    BY NewSessionFacts DEF TypeOK
  <2> HIDE DEF new
  <2>2. \A r \in Sessions : store'[r] \in {store[r], new}
    BY <2>1, UpdateSessionFacts DEF new
  <2>3. UNCHANGED <<pc, copy, target, failed>>
    BY <1>1 DEF CreateSession
  <2> QED BY <1>0, <2>1, <2>2, <2>3 DEF ChargeInv
<1>2. ASSUME NEW s \in Sessions, LoadLapsed(s) PROVE ChargeInv'
  <2>1. \A r \in Sessions : store'[r].failures = store[r].failures
    BY <1>2 DEF LoadLapsed, TypeOK, SessionRecords
  <2> QED BY <1>2, <2>1 DEF LoadLapsed, ChargeInv
<1>3. ASSUME NEW h \in Handlers, NEW s \in Sessions, NEW entry \in {"verify", "refresh"},
             Load(h, s, entry)
      PROVE  ChargeInv'
  BY <1>3 DEF Load, TypeOK, ChargeInv
<1>4. ASSUME NEW h \in Handlers, Finish(h), pc[h] # "idle", NEW new \in SessionRecords,
             target[h] \in Sessions, UpdateSession(target[h], new),
             failed' \in [Sessions -> Nat], \A s \in Sessions : failed[s] <= failed'[s],
             new.failures <= failed'[target[h]]
      PROVE  ChargeInv'
  <2>1. \A r \in Sessions : store'[r].failures <= failed'[r]
    <3> TAKE r \in Sessions
    <3>1. store'[r] = store[r] \/ (r = target[h] /\ store'[r] = new)
      BY <1>4, UpdateSessionFacts
    <3>2. store[r].failures <= failed[r] /\ failed[r] <= failed'[r] /\ failed'[r] \in Nat
      BY <1>4 DEF ChargeInv
    <3> QED BY <1>0, <1>4, <3>1, <3>2
  <2>2. ASSUME NEW g \in Handlers, pc'[g] # "idle"
        PROVE  copy'[g].failures <= failed'[target'[g]]
    <3>1. g # h /\ pc'[g] = pc[g] /\ copy'[g] = copy[g] /\ target'[g] = target[g]
      BY <1>4, <2>2, FinishFacts
    <3>2. target[g] \in Sessions /\ copy[g].failures \in Nat
      BY <2>2, <3>1, PlacedFacts DEF SessionRecords
    <3>3. copy[g].failures <= failed[target[g]] /\ failed[target[g]] <= failed'[target[g]]
      BY <1>4, <2>2, <3>1, <3>2 DEF ChargeInv
    <3> QED BY <1>0, <1>4, <3>1, <3>2, <3>3
  <2> QED BY <2>1, <2>2 DEF ChargeInv
<1>5. ASSUME NEW h \in Handlers, pc[h] # "idle"
      PROVE  /\ target[h] \in Sessions /\ copy[h] \in SessionRecords
             /\ copy[h].failures \in Nat /\ copy[h].failures <= failed[target[h]]
             /\ failed[target[h]] \in Nat
  BY <1>5, <1>0, PlacedFacts DEF ChargeInv, SessionRecords
<1>6. ASSUME NEW h \in Handlers, NEW verdict, FailVerification(h, verdict) PROVE ChargeInv'
  <2>1. pc[h] # "idle"
    BY <1>6 DEF FailVerification
  <2>2. failed' \in [Sessions -> Nat] /\ failed'[target[h]] = failed[target[h]] + 1
        /\ \A s \in Sessions : failed[s] <= failed'[s]
    BY <1>6, <1>5, <2>1, <1>0 DEF FailVerification, TypeOK
  <2>3. RecordFailure(copy[h], verdict).failures = copy[h].failures + 1
        /\ RecordFailure(copy[h], verdict) \in SessionRecords
    BY <1>5, <2>1, RecordFailureFacts
  <2>4. RecordFailure(copy[h], verdict).failures <= failed'[target[h]]
    BY <1>5, <2>1, <2>2, <2>3
  <2> QED BY <1>4, <1>5, <1>6, <2>1, <2>2, <2>3, <2>4 DEF FailVerification
<1>7. ASSUME NEW h \in Handlers, MarkVerified(h) PROVE ChargeInv'
  <2>1. pc[h] # "idle" /\ failed' = failed
    BY <1>7 DEF MarkVerified
  <2>2. failed' \in [Sessions -> Nat] /\ \A s \in Sessions : failed[s] <= failed'[s]
    BY <1>0, <2>1 DEF TypeOK
  <2>3. Verified(copy[h]) \in SessionRecords /\ Verified(copy[h]).failures <= failed'[target[h]]
    BY <1>5, <2>1, VerifiedFacts
  <2> QED BY <1>4, <1>5, <1>7, <2>1, <2>2, <2>3 DEF MarkVerified
<1>8. ASSUME NEW h \in Handlers, RefreshSession(h) PROVE ChargeInv'
  <2>1. pc[h] # "idle" /\ failed' = failed
    BY <1>8 DEF RefreshSession
  <2>2. failed' \in [Sessions -> Nat] /\ \A s \in Sessions : failed[s] <= failed'[s]
    BY <1>0, <2>1 DEF TypeOK
  <2>3. Refreshable(copy[h]) /\ WellFormed(copy[h]) /\ clock \in Nat /\ challenges \in Nat
    BY <1>8 DEF RefreshSession, HandlersPlaced, WellFormedInv, TypeOK
  <2> DEFINE new == Refreshed(copy[h], challenges + 1)
  <2>4. new \in SessionRecords /\ new.failures <= failed'[target[h]]
    BY <1>5, <2>1, <2>3, RefreshedFacts
  <2>5. UpdateSession(target[h], new) /\ Finish(h)
    BY <1>8 DEF RefreshSession
  <2> HIDE DEF new
  <2> QED BY <1>4, <1>5, <2>1, <2>2, <2>4, <2>5
<1>9. ASSUME NEW h \in Handlers, Reject(h) PROVE ChargeInv'
  BY <1>9, FinishFacts DEF Reject, ChargeInv
<1>10. ASSUME NEW h \in Handlers,
              Admit(h) \/ (\E value \in TicketValues : IssueTicket(h, value))
       PROVE  ChargeInv'
  BY <1>10 DEF Admit, IssueTicket, ChargeInv, TypeOK
<1>11. CASE Crash
  BY <1>11 DEF Crash, ChargeInv
<1>12. CASE SetApplicationStatus
  BY <1>12 DEF SetApplicationStatus, ChargeInv
<1>13. CASE Tick
  BY <1>13 DEF Tick, ChargeInv
<1>14. CASE UNCHANGED vars
  BY <1>14 DEF vars, ChargeInv
<1> QED
  BY <1>1, <1>2, <1>3, <1>6, <1>7, <1>8, <1>9, <1>10, <1>11, <1>12, <1>13, <1>14 DEF Next

(* On a quiet session, a handler past the status check is alone, holds what   *)
(* is stored and, unless it is the one that put it, no ticket exists yet.     *)
LEMMA QuietHolder ==
  ASSUME TypeOK, HandlersPlaced, QuietInv, NEW h \in Handlers,
         pc[h] \in {"verify_admitted", "refresh_admitted", "ticket_put"},
         target[h] \notin disturbed
  PROVE  /\ target[h] \in Sessions
         /\ store[target[h]] = copy[h]
         /\ copy[h].status \in {"active", "refresh_required"}
         /\ copy[h].failures = failed[target[h]]
         /\ \A g \in Handlers : target[g] = target[h] => g = h
         /\ pc[h] # "ticket_put" => \A t \in tickets : t.session # target[h]
<1>1. target[h] \in Sessions
  BY PlacedFacts
<1>2. copy[h].status \in {"active", "refresh_required"}
  BY DEF HandlersPlaced, Verifiable, Refreshable
<1> QED BY <1>1, <1>2 DEF QuietInv

(* The write-back of an alone holder keeps its session quiet.                 *)
LEMMA QuietWriteBack ==
  ASSUME TypeOK, HandlersPlaced, QuietInv,
         NEW h \in Handlers, Finish(h), tickets' = tickets,
         target[h] \in Sessions, NEW new \in SessionRecords,
         UpdateSession(target[h], new),
         \A s \in Sessions : s # target[h] => failed'[s] = failed[s],
         target[h] \notin disturbed =>
           /\ \A g \in Handlers : target[g] = target[h] => g = h
           /\ new.failures = failed'[target[h]]
           /\ new.status # "none"
           /\ \A t \in tickets : t.session = target[h] =>
                new.status \in {"verified", "expired"}
  PROVE  QuietInv'
<1> SUFFICES ASSUME NEW s \in Sessions, s \notin disturbed'
             PROVE
    /\ \A f, g \in Handlers : target'[f] = s /\ target'[g] = s => f = g
    /\ \A g \in Handlers : target'[g] = s => copy'[g] = store'[s]
    /\ store'[s].failures = failed'[s]
    /\ store'[s].status = "none" => store'[s].failures = 0
    /\ \A t \in tickets : t.session = s =>
         \/ store'[s].status \in {"verified", "expired"}
         \/ \E g \in Handlers : target'[g] = s /\ pc'[g] = "ticket_put"
  BY DEF QuietInv
<1>1. s \notin disturbed
  BY UpdateSessionFacts
<1>2. target'[h] # s
  BY FinishFacts, SessionAssumption
<1>3. CASE s = target[h]
  <2>1. store'[s] = new
    BY <1>3, UpdateSessionFacts
  <2>2. \A g \in Handlers : target'[g] # s
    BY <1>1, <1>2, <1>3, FinishFacts
  <2> QED BY <1>1, <1>3, <2>1, <2>2
<1>4. CASE s # target[h]
  <2>1. store'[s] = store[s] /\ failed'[s] = failed[s]
    BY <1>4, UpdateSessionFacts
  <2>2. \A g \in Handlers : target'[g] = s =>
          g # h /\ target[g] = s /\ copy'[g] = copy[g] /\ pc'[g] = pc[g]
    BY <1>2, FinishFacts
  <2>3. \A g \in Handlers : target[g] = s => target'[g] = s /\ pc'[g] = pc[g]
    BY <1>4, FinishFacts
  <2> QED BY <1>1, <2>1, <2>2, <2>3 DEF QuietInv
<1> QED BY <1>3, <1>4

LEMMA QuietStep ==
  TypeOK /\ HandlersPlaced /\ WellFormedInv /\ QuietInv /\ [Next]_vars => QuietInv'
<1> SUFFICES ASSUME TypeOK, HandlersPlaced, WellFormedInv, QuietInv, [Next]_vars
             PROVE  QuietInv'
  OBVIOUS
<1>1. ASSUME NEW s \in Sessions, CreateSession(s) PROVE QuietInv'
  <2> PICK level \in 1..TopLevel : UpdateSession(s, NewSession(challenges + 1, level))
    BY <1>1 DEF CreateSession
  <2> DEFINE new == NewSession(challenges + 1, level)
  <2>1. new \in SessionRecords /\ new.failures = 0 /\ new.status = "active"
    BY NewSessionFacts DEF TypeOK
  <2>2. UNCHANGED <<pc, target, copy, tickets, failed>> /\ store[s].status = "none"
    BY <1>1 DEF CreateSession
  <2> HIDE DEF new
  <2>3. /\ disturbed \subseteq disturbed'
        /\ \A r \in Sessions : r # s => store'[r] = store[r]
        /\ s \notin disturbed' => store'[s] = new
    BY <2>1, UpdateSessionFacts DEF new
  <2>4. s \notin disturbed => \A g \in Handlers : target[g] # s
    BY <2>2, SessionAssumption DEF QuietInv, HandlersPlaced
  <2>5. s \notin disturbed => failed[s] = 0 /\ \A t \in tickets : t.session # s
    BY <2>2, <2>4 DEF QuietInv
  <2> QED BY <2>1, <2>2, <2>3, <2>4, <2>5 DEF QuietInv
<1>2. ASSUME NEW s \in Sessions, LoadLapsed(s) PROVE QuietInv'
  <2>1. \A r \in Sessions : r # s => store'[r] = store[r]
    BY <1>2 DEF LoadLapsed, TypeOK
  <2>2. store'[s].failures = store[s].failures /\ store'[s].status = "expired"
    BY <1>2 DEF LoadLapsed, TypeOK, SessionRecords
  <2>3. /\ disturbed \subseteq disturbed'
        /\ s \notin disturbed' => \A g \in Handlers : target[g] # s
        /\ UNCHANGED <<pc, target, copy, tickets, failed>>
    BY <1>2 DEF LoadLapsed, Busy
  <2> QED BY <2>1, <2>2, <2>3 DEF QuietInv
<1>3. ASSUME NEW h \in Handlers, NEW s \in Sessions, NEW entry \in {"verify", "refresh"},
             Load(h, s, entry)
      PROVE  QuietInv'
  <2>1. /\ target[h] = None /\ s # None
        /\ disturbed \subseteq disturbed'
        /\ s \notin disturbed' => \A g \in Handlers : target[g] # s
        /\ UNCHANGED <<store, tickets, failed>>
    BY <1>3, SessionAssumption DEF Load, Busy, HandlersPlaced
  <2>2. /\ target'[h] = s /\ copy'[h] = store[s] /\ pc'[h] # "ticket_put" /\ pc[h] # "ticket_put"
        /\ \A g \in Handlers : g # h =>
             target'[g] = target[g] /\ copy'[g] = copy[g] /\ pc'[g] = pc[g]
    BY <1>3 DEF Load, TypeOK
  <2> QED BY <2>1, <2>2 DEF QuietInv
<1>4. ASSUME NEW h \in Handlers, Admit(h) PROVE QuietInv'
  <2>1. \A g \in Handlers : pc'[g] = "ticket_put" <=> pc[g] = "ticket_put"
    BY <1>4 DEF Admit, TypeOK
  <2>2. UNCHANGED <<store, target, copy, tickets, failed, disturbed>>
    BY <1>4 DEF Admit
  <2> QED BY <2>1, <2>2 DEF QuietInv
<1>5. ASSUME NEW h \in Handlers, Reject(h) PROVE QuietInv'
  <2>1. pc[h] # "ticket_put" /\ UNCHANGED <<store, tickets, failed, disturbed>> /\ Finish(h)
    BY <1>5 DEF Reject
  <2>2. \A g \in Handlers : target'[g] \in Sessions =>
          g # h /\ target'[g] = target[g] /\ copy'[g] = copy[g]
    BY <2>1, FinishFacts, SessionAssumption
  <2>3. \A g \in Handlers : pc[g] = "ticket_put" =>
          pc'[g] = "ticket_put" /\ target'[g] = target[g]
    BY <2>1, FinishFacts
  <2> QED BY <2>1, <2>2, <2>3 DEF QuietInv
<1>6. ASSUME NEW h \in Handlers, NEW verdict, FailVerification(h, verdict) PROVE QuietInv'
  <2> DEFINE new == RecordFailure(copy[h], verdict)
  <2>1. target[h] \in Sessions /\ copy[h] \in SessionRecords
    BY <1>6, PlacedFacts DEF FailVerification
  <2>2. new \in SessionRecords /\ new.failures = copy[h].failures + 1 /\ new.status # "none"
    BY <2>1, RecordFailureFacts
  <2>3. UpdateSession(target[h], new) /\ Finish(h) /\ tickets' = tickets
        /\ pc[h] = "verify_admitted"
    BY <1>6 DEF FailVerification
  <2>4. failed'[target[h]] = failed[target[h]] + 1
        /\ \A s \in Sessions : s # target[h] => failed'[s] = failed[s]
    BY <1>6, <2>1 DEF FailVerification, TypeOK
  <2> HIDE DEF new
  <2> QED BY <2>1, <2>2, <2>3, <2>4, QuietHolder, QuietWriteBack
<1>7. ASSUME NEW h \in Handlers, NEW value \in TicketValues, IssueTicket(h, value)
      PROVE  QuietInv'
  <2>1. UNCHANGED <<store, target, copy, failed, disturbed>> /\ pc[h] = "verify_admitted"
    BY <1>7 DEF IssueTicket
  <2>2. \A g \in Handlers : pc[g] = "ticket_put" => pc'[g] = "ticket_put"
    BY <1>7 DEF IssueTicket, TypeOK
  <2>3. pc'[h] = "ticket_put"
    BY <1>7 DEF IssueTicket, TypeOK
  <2>4. \A t \in tickets' : t \in tickets \/ t.session = target[h]
    BY <1>7 DEF IssueTicket
  <2> QED BY <2>1, <2>2, <2>3, <2>4 DEF QuietInv
<1>8. ASSUME NEW h \in Handlers, MarkVerified(h) PROVE QuietInv'
  <2> DEFINE new == Verified(copy[h])
  <2>1. target[h] \in Sessions /\ copy[h] \in SessionRecords
    BY <1>8, PlacedFacts DEF MarkVerified
  <2>2. new \in SessionRecords /\ new.failures = copy[h].failures /\ new.status = "verified"
    BY <2>1, VerifiedFacts
  <2>3. UpdateSession(target[h], new) /\ Finish(h) /\ tickets' = tickets /\ failed' = failed
        /\ pc[h] = "ticket_put"
    BY <1>8 DEF MarkVerified
  <2> HIDE DEF new
  <2> QED BY <2>1, <2>2, <2>3, QuietHolder, QuietWriteBack
<1>9. ASSUME NEW h \in Handlers, RefreshSession(h) PROVE QuietInv'
  <2> DEFINE new == Refreshed(copy[h], challenges + 1)
  <2>1. target[h] \in Sessions /\ copy[h] \in SessionRecords
    BY <1>9, PlacedFacts DEF RefreshSession
  <2>2. Refreshable(copy[h]) /\ WellFormed(copy[h]) /\ clock \in Nat /\ challenges \in Nat
    BY <1>9 DEF RefreshSession, HandlersPlaced, WellFormedInv, TypeOK
  <2>3. new \in SessionRecords /\ new.failures = copy[h].failures /\ new.status = "active"
    BY <2>1, <2>2, RefreshedFacts
  <2>4. UpdateSession(target[h], new) /\ Finish(h) /\ tickets' = tickets /\ failed' = failed
        /\ pc[h] = "refresh_admitted"
    BY <1>9 DEF RefreshSession
  <2> HIDE DEF new
  <2> QED BY <2>1, <2>3, <2>4, QuietHolder, QuietWriteBack
<1>10. CASE Crash
  <2>1. UNCHANGED <<store, tickets, failed>> /\ disturbed \subseteq disturbed'
    BY <1>10 DEF Crash
  <2>2. \A g \in Handlers : target'[g] \notin Sessions
    BY <1>10, SessionAssumption DEF Crash
  <2>3. \A s \in Sessions \ disturbed' : \A g \in Handlers : target[g] # s
    BY <1>10 DEF Crash, Busy
  <2> QED BY <2>1, <2>2, <2>3 DEF QuietInv
<1>11. CASE SetApplicationStatus
  BY <1>11 DEF SetApplicationStatus, QuietInv
<1>12. CASE Tick
  BY <1>12 DEF Tick, QuietInv
<1>13. CASE UNCHANGED vars
  BY <1>13 DEF vars, QuietInv
<1> QED
  BY <1>1, <1>2, <1>3, <1>4, <1>5, <1>6, <1>7, <1>8, <1>9, <1>10, <1>11, <1>12, <1>13
  DEF Next

LEMMA OneTicketStep ==
  TypeOK /\ HandlersPlaced /\ QuietInv /\ QuietSessionOneTicket /\ disturbed \subseteq disturbed'
    /\ [Next]_vars => QuietSessionOneTicket'
<1> SUFFICES ASSUME TypeOK, HandlersPlaced, QuietInv, QuietSessionOneTicket,
                    disturbed \subseteq disturbed', [Next]_vars
             PROVE  QuietSessionOneTicket'
  OBVIOUS
<1>1. CASE tickets' = tickets
  BY <1>1 DEF QuietSessionOneTicket
<1>2. ASSUME NEW h \in Handlers, NEW value \in TicketValues, IssueTicket(h, value)
      PROVE  QuietSessionOneTicket'
  <2>1. target[h] \notin disturbed => \A t \in tickets : t.session # target[h]
    BY <1>2, QuietHolder DEF IssueTicket
  <2> DEFINE new == [value |-> value, session |-> target[h],
                     challenge |-> copy[h].challenge, failures |-> copy[h].failures]
  <2>2. tickets' = tickets \cup {new} /\ new.session = target[h] /\ disturbed' = disturbed
    BY <1>2 DEF IssueTicket
  <2> HIDE DEF new
  <2> QED BY <2>1, <2>2 DEF QuietSessionOneTicket
<1> QED
  BY <1>1, <1>2 DEF Next, CreateSession, Load, LoadLapsed, Admit, Reject, FailVerification,
     MarkVerified, RefreshSession, Crash, SetApplicationStatus, Tick, vars

LEMMA DisturbedGrows == [Next]_vars => disturbed \subseteq disturbed'
BY DEF Next, CreateSession, Load, LoadLapsed, Admit, Reject, FailVerification, IssueTicket,
   MarkVerified, RefreshSession, Crash, SetApplicationStatus, Tick, vars, UpdateSession

-----------------------------------------------------------------------------
LEMMA IInvStep == IInv /\ [Next]_vars => IInv'
BY TypeStep, PlacedStep, WellFormedStep, TicketsStep, ChargeStep, QuietStep,
   OneTicketStep, DisturbedGrows DEF IInv

LEMMA Invariance == Spec => []IInv
BY InitIInv, IInvStep, PTL DEF Spec

(* The state always has the types of the code's records.                     *)
THEOREM TypeCorrect == Spec => []TypeOK
BY Invariance, PTL DEF IInv

(* Whatever requests overlap, crash or lose their update, a session that can  *)
(* still be verified or refreshed is below the failure limit, one that can be *)
(* verified holds a challenge, and one that waits for a refresh holds none.   *)
THEOREM StoredWellFormed == Spec => []StoredSessionsWellFormed
<1>1. IInv => StoredSessionsWellFormed
  BY DEF IInv, WellFormedInv, StoredSessionsWellFormed
<1> QED BY <1>1, Invariance, PTL

(* Every ticket was put for a copy below the failure limit whose challenge    *)
(* the engine had generated.                                                  *)
THEOREM EveryTicketEarned == Spec => []TicketsEarned
BY Invariance, PTL DEF IInv

(* No interleaving charges a session with more failures than happened.        *)
THEOREM NoOvercharge == Spec => []NeverOvercharged
<1>1. IInv => NeverOvercharged
  BY DEF IInv, ChargeInv, NeverOvercharged
<1> QED BY <1>1, Invariance, PTL

(* While its requests do not overlap and no update is dropped, a session is   *)
(* charged with every failure...                                              *)
THEOREM QuietCharged == Spec => []QuietFailuresCharged
<1>1. IInv => QuietFailuresCharged
  BY DEF IInv, QuietInv, QuietFailuresCharged
<1> QED BY <1>1, Invariance, PTL

(* ... and yields at most one ticket.                                         *)
THEOREM QuietOneTicket == Spec => []QuietSessionOneTicket
BY Invariance, PTL DEF IInv

-----------------------------------------------------------------------------
(* What a request writes back on a quiet session moves it forward.            *)

LEMMA ForwardWriteBack ==
  ASSUME IInv, NEW h \in Handlers, target[h] \in Sessions, NEW new \in SessionRecords,
         UpdateSession(target[h], new),
         target[h] \notin disturbed => Forward(store[target[h]], new)
  PROVE  \A s \in Sessions : s \notin disturbed' => Forward(store[s], store'[s])
<1> SUFFICES ASSUME NEW s \in Sessions, s \notin disturbed'
             PROVE  Forward(store[s], store'[s])
  OBVIOUS
<1>1. s \notin disturbed /\ (s = target[h] => store'[s] = new)
      /\ (s # target[h] => store'[s] = store[s])
  BY UpdateSessionFacts DEF IInv
<1>2. Forward(store[s], store[s])
  BY DEF IInv, TypeOK, SessionRecords, Forward
<1> QED BY <1>1, <1>2

LEMMA ForwardStep ==
  IInv /\ [Next]_vars => \A s \in Sessions : s \notin disturbed' => Forward(store[s], store'[s])
<1> SUFFICES ASSUME IInv, [Next]_vars
             PROVE  \A s \in Sessions : s \notin disturbed' => Forward(store[s], store'[s])
  OBVIOUS
<1> USE DEF IInv
<1>0. \A s \in Sessions : Forward(store[s], store[s])
  BY DEF TypeOK, SessionRecords, Forward
<1>1. ASSUME NEW s \in Sessions, CreateSession(s)
      PROVE  \A r \in Sessions : r \notin disturbed' => Forward(store[r], store'[r])
  <2> PICK level \in 1..TopLevel : UpdateSession(s, NewSession(challenges + 1, level))
    BY <1>1 DEF CreateSession
  <2> DEFINE new == NewSession(challenges + 1, level)
  <2>1. new \in SessionRecords /\ new.failures = 0
    BY NewSessionFacts DEF TypeOK
  <2>2. store[s].status = "none"
    BY <1>1 DEF CreateSession
  <2> HIDE DEF new
  <2>3. /\ \A r \in Sessions : r # s => store'[r] = store[r]
        /\ s \notin disturbed' => s \notin disturbed /\ store'[s] = new
    BY <2>1, UpdateSessionFacts DEF new
  <2>4. s \notin disturbed => Forward(store[s], new)
    BY <2>1, <2>2 DEF QuietInv, Forward
  <2> QED BY <1>0, <2>3, <2>4
<1>2. ASSUME NEW s \in Sessions, LoadLapsed(s)
      PROVE  \A r \in Sessions : r \notin disturbed' => Forward(store[r], store'[r])
  <2>1. \A r \in Sessions : r # s => store'[r] = store[r]
    BY <1>2 DEF LoadLapsed, TypeOK
  <2>2. Forward(store[s], store'[s])
    BY <1>2 DEF LoadLapsed, TypeOK, SessionRecords, Forward
  <2> QED BY <1>0, <2>1, <2>2
<1>3. ASSUME NEW h \in Handlers, NEW verdict, FailVerification(h, verdict)
      PROVE  \A r \in Sessions : r \notin disturbed' => Forward(store[r], store'[r])
  <2> DEFINE new == RecordFailure(copy[h], verdict)
  <2>1. target[h] \in Sessions /\ copy[h] \in SessionRecords
    BY <1>3, PlacedFacts DEF FailVerification
  <2>2. new \in SessionRecords /\ new.failures = copy[h].failures + 1
        /\ copy[h].level <= new.level
    BY <2>1, RecordFailureFacts
  <2>3. UpdateSession(target[h], new) /\ pc[h] = "verify_admitted"
    BY <1>3 DEF FailVerification
  <2> HIDE DEF new
  <2>4. target[h] \notin disturbed => Forward(store[target[h]], new)
    BY <2>1, <2>2, <2>3, QuietHolder DEF Forward, SessionRecords
  <2> QED BY <2>1, <2>2, <2>3, <2>4, ForwardWriteBack
<1>4. ASSUME NEW h \in Handlers, MarkVerified(h)
      PROVE  \A r \in Sessions : r \notin disturbed' => Forward(store[r], store'[r])
  <2> DEFINE new == Verified(copy[h])
  <2>1. target[h] \in Sessions /\ copy[h] \in SessionRecords
    BY <1>4, PlacedFacts DEF MarkVerified
  <2>2. new \in SessionRecords /\ new.failures = copy[h].failures /\ new.level = copy[h].level
    BY <2>1, VerifiedFacts
  <2>3. UpdateSession(target[h], new) /\ pc[h] = "ticket_put"
    BY <1>4 DEF MarkVerified
  <2> HIDE DEF new
  <2>4. target[h] \notin disturbed => Forward(store[target[h]], new)
    BY <2>1, <2>2, <2>3, QuietHolder DEF Forward, SessionRecords
  <2> QED BY <2>1, <2>2, <2>3, <2>4, ForwardWriteBack
<1>5. ASSUME NEW h \in Handlers, RefreshSession(h)
      PROVE  \A r \in Sessions : r \notin disturbed' => Forward(store[r], store'[r])
  <2> DEFINE new == Refreshed(copy[h], challenges + 1)
  <2>1. target[h] \in Sessions /\ copy[h] \in SessionRecords
    BY <1>5, PlacedFacts DEF RefreshSession
  <2>2. Refreshable(copy[h]) /\ WellFormed(copy[h]) /\ clock \in Nat /\ challenges \in Nat
    BY <1>5 DEF RefreshSession, HandlersPlaced, WellFormedInv, TypeOK
  <2>3. new \in SessionRecords /\ new.failures = copy[h].failures /\ new.level = copy[h].level
    BY <2>1, <2>2, RefreshedFacts
  <2>4. UpdateSession(target[h], new) /\ pc[h] = "refresh_admitted"
    BY <1>5 DEF RefreshSession
  <2> HIDE DEF new
  <2>5. target[h] \notin disturbed => Forward(store[target[h]], new)
    BY <2>1, <2>3, <2>4, QuietHolder DEF Forward, SessionRecords
  <2> QED BY <2>1, <2>3, <2>4, <2>5, ForwardWriteBack
<1>6. CASE UNCHANGED store
  BY <1>0, <1>6
<1> QED
  BY <1>1, <1>2, <1>3, <1>4, <1>5, <1>6
  DEF Next, Load, Admit, Reject, IssueTicket, Crash, SetApplicationStatus, Tick, vars

(* ... and only moves forward: verified and expired stay final, the failure   *)
(* count and the escalation level never drop.                                 *)
THEOREM QuietForward == Spec => QuietSessionMovesForward
<1>1. IInv /\ [Next]_vars
        => [\A s \in Sessions : s \notin disturbed' => Forward(store[s], store'[s])]_vars
  BY ForwardStep
<1> QED BY <1>1, Invariance, PTL DEF Spec, QuietSessionMovesForward

-----------------------------------------------------------------------------
(* What holds of every session whatever overlaps, and what holds of the       *)
(* sessions nothing disturbs.                                                 *)

(* Stored sessions are of one history, tickets were earned and failures       *)
(* happened, under every interleaving of stale write-backs.                   *)
THEOREM SessionsStaySound == Spec => []SessionsSound
<1>1. StoredSessionsWellFormed /\ TicketsEarned /\ NeverOvercharged => SessionsSound
  BY DEF SessionsSound
<1> QED BY <1>1, StoredWellFormed, EveryTicketEarned, NoOvercharge, PTL

(* An undisturbed session is charged with every failure, yields one ticket    *)
(* at most and moves forward.                                                 *)
THEOREM QuietStayOrderly == Spec => QuietSessionsOrderly
BY QuietCharged, QuietOneTicket, QuietForward, PTL DEF QuietSessionsOrderly
=============================================================================
