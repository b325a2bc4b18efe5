------------------------ MODULE TicketRedemption_proofs ------------------------
(***************************************************************************)
(* Proofs about TicketRedemption, for every number of tickets, requests,    *)
(* fields and contexts: one inductive invariant, and from it that every step *)
(* of a redemption is a step of OneShotTicket or leaves it alone.           *)
(***************************************************************************)
EXTENDS TicketRedemption, TLAPS

Working == {"sent", "watched", "validated", "inspect", "redeemed"}

\* Where a request is says what it carries.
Placed ==
  \A r \in Requests :
    /\ pc[r] = "answered" <=> answer[r] # "none"
    /\ pc[r] \in {"new", "clear"} => ticketOf[r] = None
    /\ pc[r] \in Working => ticketOf[r] \in Values
    /\ answer[r] = "redeemed" => ticketOf[r] \in Values
    /\ ticketOf[r] # None => binding[ticketOf[r]].issued

\* The store and the redemption history agree.
StoreAgrees ==
  \A v \in Values :
    /\ kept[v] = "live" => redeemer[v] = None
    /\ kept[v] = "consumed" => redeemer[v] # None
    /\ kept[v] # "absent" => binding[v].issued

\* A redeemer presented the ticket and is past its transaction.
RedeemersPlaced ==
  \A v \in Values : redeemer[v] # None =>
    /\ ticketOf[redeemer[v]] = v
    /\ Admits(v, contextOf[redeemer[v]])
    /\ pc[redeemer[v]] \in {"redeemed", "answered"}

\* Redis' optimistic lock: a validated request whose key is untouched finds
\* the ticket unredeemed, and a key is touched by a redemption or by expiry.
LockSound ==
  \A r \in Requests :
    /\ pc[r] = "validated" => Admits(ticketOf[r], contextOf[r])
    /\ pc[r] = "validated" /\ r \notin dirty => redeemer[ticketOf[r]] = None
    /\ pc[r] \in {"watched", "validated"} /\ r \in dirty =>
         redeemer[ticketOf[r]] # None \/ ticketOf[r] \in LapsedTickets
    /\ pc[r] = "redeemed" => redeemer[ticketOf[r]] = r
    /\ answer[r] = "redeemed" => redeemer[ticketOf[r]] = r

\* Some redeemer vouches for the request r.
ClearedBy(r) ==
  \E v \in Values :
    /\ redeemer[v] # None
    /\ \A f \in Scope \cup Origin : contextOf[redeemer[v]][f] = contextOf[r][f]
    /\ \A f \in Fields \ Way : contextOf[redeemer[v]][f] \in {None, contextOf[r][f]}

IInv ==
  /\ TypeOK
  /\ Placed
  /\ StoreAgrees
  /\ RedeemersPlaced
  /\ LockSound
  /\ ClearancesEarned
  /\ ClearedByRedemption

-----------------------------------------------------------------------------
(* What the building blocks of the actions do.                                *)

LEMMA AnswerFacts ==
  ASSUME TypeOK, NEW r \in Requests, NEW what \in Answers, Answer(r, what)
  PROVE  /\ pc' \in [Requests -> PCs] /\ answer' \in [Requests -> Answers]
         /\ pc'[r] = "answered" /\ answer'[r] = what
         /\ \A q \in Requests \ {r} : pc'[q] = pc[q] /\ answer'[q] = answer[q]
  BY DEF TypeOK, Answer, PCs

LEMMA GotoFacts ==
  ASSUME TypeOK, NEW r \in Requests, NEW where \in PCs, Goto(r, where)
  PROVE  /\ pc' \in [Requests -> PCs] /\ answer' = answer
         /\ pc'[r] = where
         /\ \A q \in Requests \ {r} : pc'[q] = pc[q]
  BY DEF TypeOK, Goto

LEMMA ConsumeFacts ==
  ASSUME TypeOK, NEW r \in Requests, ticketOf[r] \in Values, Consume(r)
  PROVE  /\ kept' \in [Values -> {"absent", "live", "consumed"}]
         /\ redeemer' \in [Values -> Requests \cup {None}]
         /\ dirty' \subseteq Requests
         /\ kept'[ticketOf[r]] = "consumed" /\ redeemer'[ticketOf[r]] = r
         /\ \A v \in Values \ {ticketOf[r]} : kept'[v] = kept[v] /\ redeemer'[v] = redeemer[v]
         /\ dirty \subseteq dirty'
         /\ \A q \in Requests : q \in dirty' <=>
              \/ q \in dirty
              \/ q # r /\ ticketOf[q] = ticketOf[r] /\ pc[q] \in {"watched", "validated"}
  BY DEF TypeOK, Consume, Watching

\* VerifyTicket's checks answer with a code, and pass only a live ticket in
\* the context it is bound to.
LEMMA ValidateFacts ==
  ASSUME TypeOK, NEW v \in Values, NEW context \in Contexts
  PROVE  /\ Validate(v, context) \in {"ok", "NOT_FOUND", "EXPIRED", "CONSUMED"}
         /\ Validate(v, context) = "ok" => kept[v] = "live" /\ Admits(v, context)
         /\ Validate(v, context) = "CONSUMED" => kept[v] = "consumed"
<1>1. kept[v] \in {"absent", "live", "consumed"}
  BY DEF TypeOK
<1>2. CASE kept[v] = "absent"
  BY <1>2 DEF Validate
<1>3. CASE kept[v] = "consumed" /\ Lapsed(v)
  BY <1>3 DEF Validate
<1>4. CASE kept[v] = "consumed" /\ ~Lapsed(v)
  BY <1>4 DEF Validate
<1>5. CASE kept[v] = "live" /\ Lapsed(v)
  BY <1>5 DEF Validate
<1>6. CASE kept[v] = "live" /\ ~Lapsed(v)
  BY <1>6 DEF Validate
<1>7. QED BY <1>1, <1>2, <1>3, <1>4, <1>5, <1>6

-----------------------------------------------------------------------------
(* IInv is inductive.                                                         *)

THEOREM InitIInv == Init => IInv
<1> SUFFICES ASSUME Init PROVE IInv
  OBVIOUS
<1>1. TypeOK
  BY RedemptionAssumption DEF Init, TypeOK, PCs, Answers, Bindings, Carriers
<1>2. Placed /\ StoreAgrees
  BY RedemptionAssumption DEF Init, Placed, StoreAgrees, Working
<1>3. RedeemersPlaced /\ LockSound /\ ClearancesEarned /\ ClearedByRedemption
  BY DEF Init, RedeemersPlaced, LockSound, ClearancesEarned, ClearedByRedemption
<1> QED BY <1>1, <1>2, <1>3 DEF IInv

\* What is told of redemptions and their requests is not taken back.
Remembered ==
  \A v \in Values : redeemer[v] # None =>
    /\ redeemer'[v] = redeemer[v]
    /\ contextOf'[redeemer[v]] = contextOf[redeemer[v]]
    /\ binding'[v] = binding[v]

\* A clearance that was earned stays earned.
LEMMA EarnedStays ==
  ASSUME IInv, Remembered, clearances' \subseteq clearances,
         \A r \in Requests : answer[r] = "redeemed" => answer'[r] = "redeemed"
  PROVE  ClearancesEarned'
<1> SUFFICES ASSUME NEW c \in clearances
             PROVE  /\ redeemer'[c.ticket] # None
                    /\ answer'[redeemer'[c.ticket]] = "redeemed"
                    /\ c.carries = Part(contextOf'[redeemer'[c.ticket]], Fields \ Way)
                    /\ \A f \in Scope \cup Origin : c.carries[f] # None
                    /\ \A f \in Fields \ Way : binding'[c.ticket].carries[f] \in {None, c.carries[f]}
                    /\ \A d \in clearances : d.ticket = c.ticket => d = c
  BY DEF ClearancesEarned, Part
<1>1. /\ c.ticket \in Values /\ redeemer[c.ticket] # None
      /\ redeemer[c.ticket] \in Requests
      /\ answer[redeemer[c.ticket]] = "redeemed"
      /\ c.carries = Part(contextOf[redeemer[c.ticket]], Fields \ Way)
      /\ \A f \in Scope \cup Origin : c.carries[f] # None
      /\ \A f \in Fields \ Way : binding[c.ticket].carries[f] \in {None, c.carries[f]}
      /\ \A d \in clearances : d.ticket = c.ticket => d = c
  BY DEF IInv, TypeOK, ClearancesEarned, Clearances
<1>2. /\ redeemer'[c.ticket] = redeemer[c.ticket]
      /\ contextOf'[redeemer[c.ticket]] = contextOf[redeemer[c.ticket]]
      /\ binding'[c.ticket] = binding[c.ticket]
  BY <1>1 DEF Remembered
<1> QED BY <1>1, <1>2

\* Who was let through on a clearance keeps its voucher.
LEMMA ClearedStays ==
  ASSUME IInv, Remembered,
         \A r \in Requests : answer'[r] = "cleared" =>
           answer[r] = "cleared" /\ contextOf'[r] = contextOf[r]
  PROVE  ClearedByRedemption'
<1> SUFFICES ASSUME NEW r \in Requests, answer'[r] = "cleared"
             PROVE  ClearedBy(r)'
  BY DEF ClearedByRedemption, ClearedBy
<1>1. PICK v \in Values :
        /\ redeemer[v] # None
        /\ \A f \in Scope \cup Origin : contextOf[redeemer[v]][f] = contextOf[r][f]
        /\ \A f \in Fields \ Way : contextOf[redeemer[v]][f] \in {None, contextOf[r][f]}
  BY DEF IInv, ClearedByRedemption
<1>2. /\ redeemer'[v] = redeemer[v]
      /\ contextOf'[redeemer[v]] = contextOf[redeemer[v]]
      /\ contextOf'[r] = contextOf[r]
  BY <1>1 DEF Remembered
<1> QED BY <1>1, <1>2 DEF ClearedBy

\* A request in flight that is refused, or told of an error, disturbs nothing.
LEMMA AnswerStep ==
  ASSUME IInv, UNCHANGED backend, NEW r \in Requests, pc[r] \notin {"new", "answered"},
         NEW what \in Answers \ {"none", "redeemed", "cleared"}, Answer(r, what),
         UNCHANGED <<kept, binding, clearances, ticketOf, contextOf, dirty, clock, redeemer>>
  PROVE  IInv'
<1> DEFINE P == pc'  A == answer'
<1>1. /\ P \in [Requests -> PCs] /\ A \in [Requests -> Answers]
      /\ P[r] = "answered" /\ A[r] = what
      /\ \A q \in Requests \ {r} : P[q] = pc[q] /\ A[q] = answer[q]
  BY AnswerFacts DEF IInv
<1>2. answer[r] = "none"
  BY DEF IInv, Placed
<1> HIDE DEF P, A
<1>3. TypeOK'
  BY <1>1 DEF IInv, TypeOK, P, A
<1>4. Placed'
  BY <1>1 DEF IInv, Placed, Working, P, A
<1>5. StoreAgrees'
  BY DEF IInv, StoreAgrees
<1>6. RedeemersPlaced'
  BY <1>1 DEF IInv, TypeOK, RedeemersPlaced, Admits, P, A
<1>7. LockSound'
  BY <1>1 DEF IInv, LockSound, Admits, LapsedTickets, P, A
<1>8. ClearancesEarned'
  BY <1>1, <1>2, EarnedStays DEF Remembered, P, A
<1>9. ClearedByRedemption'
  BY <1>1, <1>2, ClearedStays DEF Remembered, P, A
<1> QED BY <1>3, <1>4, <1>5, <1>6, <1>7, <1>8, <1>9 DEF IInv

\* The transaction that redeems an unredeemed ticket.
LEMMA ConsumeStep ==
  ASSUME IInv, UNCHANGED backend, NEW r \in Requests, pc[r] \in {"sent", "validated"},
         redeemer[ticketOf[r]] = None, Admits(ticketOf[r], contextOf[r]),
         Consume(r), Goto(r, "redeemed"),
         UNCHANGED <<binding, clearances, ticketOf, contextOf, clock>>
  PROVE  IInv'
<1> DEFINE P == pc'  v0 == ticketOf[r]
<1>0. v0 \in Values /\ binding[v0].issued /\ answer[r] = "none"
  BY RedemptionAssumption DEF IInv, Placed, Working
<1>1. /\ P \in [Requests -> PCs] /\ answer' = answer
      /\ P[r] = "redeemed"
      /\ \A q \in Requests \ {r} : P[q] = pc[q]
  BY GotoFacts DEF IInv, PCs
<1>2. /\ kept' \in [Values -> {"absent", "live", "consumed"}]
      /\ redeemer' \in [Values -> Requests \cup {None}]
      /\ dirty' \subseteq Requests
      /\ kept'[v0] = "consumed" /\ redeemer'[v0] = r
      /\ \A v \in Values \ {v0} : kept'[v] = kept[v] /\ redeemer'[v] = redeemer[v]
      /\ dirty \subseteq dirty'
      /\ \A q \in Requests : q \in dirty' <=>
              \/ q \in dirty
              \/ q # r /\ ticketOf[q] = v0 /\ pc[q] \in {"watched", "validated"}
  BY <1>0, ConsumeFacts DEF IInv
<1>3. r # None
  BY RedemptionAssumption
<1>4. redeemer[v0] = None /\ Admits(v0, contextOf[r])
  OBVIOUS
<1>5. \A v \in Values : redeemer[v] # None => redeemer[v] \in Requests /\ redeemer[v] # r
  BY DEF IInv, TypeOK, RedeemersPlaced
<1> HIDE DEF P, v0
<1>6. TypeOK'
  BY <1>1, <1>2 DEF IInv, TypeOK, P
<1>7. Placed'
  BY <1>0, <1>1 DEF IInv, Placed, Working, P, v0
<1>8. StoreAgrees'
  BY <1>0, <1>2, <1>3 DEF IInv, StoreAgrees
<1>9. RedeemersPlaced'
  BY <1>1, <1>2, <1>4, <1>5 DEF IInv, RedeemersPlaced, Admits, P, v0
<1>10. LockSound'
  <2> SUFFICES ASSUME NEW q \in Requests
               PROVE  /\ P[q] = "validated" => Admits(ticketOf[q], contextOf[q])
                      /\ P[q] = "validated" /\ q \notin dirty' => redeemer'[ticketOf[q]] = None
                      /\ P[q] \in {"watched", "validated"} /\ q \in dirty' =>
                           redeemer'[ticketOf[q]] # None \/ ticketOf[q] \in LapsedTickets
                      /\ P[q] = "redeemed" => redeemer'[ticketOf[q]] = q
                      /\ answer[q] = "redeemed" => redeemer'[ticketOf[q]] = q
    BY <1>1 DEF LockSound, Admits, LapsedTickets, P
  <2>1. CASE q = r
    BY <1>0, <1>1, <1>2, <2>1 DEF v0
  <2>2. CASE q # r
    <3>1. P[q] = pc[q]
      BY <1>1, <2>2
    <3>2. pc[q] \in Working \/ answer[q] = "redeemed" => ticketOf[q] \in Values
      BY DEF IInv, Placed
    <3>3. pc[q] = "redeemed" \/ answer[q] = "redeemed" => ticketOf[q] # v0
      BY <1>4, <3>2, RedemptionAssumption DEF IInv, LockSound
    <3> QED BY <1>2, <1>3, <2>2, <3>1, <3>2, <3>3 DEF IInv, LockSound, Working
  <2> QED BY <2>1, <2>2
<1>11. Remembered
  BY <1>2, <1>4 DEF Remembered
<1>12. ClearancesEarned' /\ ClearedByRedemption'
  BY <1>1, <1>11, EarnedStays, ClearedStays
<1> QED BY <1>6, <1>7, <1>8, <1>9, <1>10, <1>12 DEF IInv

\* What is carried of a context has its values.
LEMMA PartTyped ==
  ASSUME NEW c \in Contexts, NEW S
  PROVE  Part(c, S) \in Carriers
BY RedemptionAssumption DEF Part, Carriers

LEMMA IssueStep ==
  ASSUME IInv, UNCHANGED backend, NEW v \in Values, NEW h \in Contexts, NEW S \in Carriable, Issue(v, h, S)
  PROVE  IInv'
<1> DEFINE new == [issued |-> TRUE, carries |-> Part(h, S), deadline |-> clock + TicketTTL]
           B == binding'
<1>0. Part(h, S) \in Carriers
  BY PartTyped
<1>1. new \in Bindings /\ new.issued
  BY <1>0, RedemptionAssumption DEF IInv, TypeOK, Bindings
<1> HIDE DEF new
<1>2. B = [binding EXCEPT ![v] = new]
  BY DEF Issue, new
<1>3. /\ B \in [Values -> Bindings] /\ B[v].issued
      /\ \A w \in Values \ {v} : B[w] = binding[w]
  BY <1>1, <1>2 DEF IInv, TypeOK
<1> HIDE DEF B
<1>4. /\ kept' \in [Values -> {"absent", "live", "consumed"}]
      /\ kept'[v] \in {kept[v], "live"}
      /\ \A w \in Values \ {v} : kept'[w] = kept[w]
  BY DEF IInv, TypeOK, Issue
<1>5. ~binding[v].issued /\ kept[v] = "absent"
  BY DEF IInv, TypeOK, StoreAgrees, Issue
<1>6. \A r \in Requests : ticketOf[r] # v
  BY <1>5, RedemptionAssumption DEF IInv, Placed
<1>7. redeemer[v] = None
  BY <1>6 DEF IInv, TypeOK, RedeemersPlaced
<1>8. UNCHANGED <<clearances, pc, ticketOf, contextOf, dirty, answer, clock, redeemer>>
  BY DEF Issue
<1>9. TypeOK'
  BY <1>3, <1>4, <1>8 DEF IInv, TypeOK, B
<1>10. Placed'
  BY <1>3, <1>6, <1>8 DEF IInv, TypeOK, Placed, Working, B
<1>11. StoreAgrees'
  BY <1>3, <1>4, <1>7, <1>8 DEF IInv, StoreAgrees, B
<1>12. RedeemersPlaced'
  BY <1>3, <1>7, <1>8 DEF IInv, RedeemersPlaced, Admits, B
<1>13. LockSound'
  BY <1>3, <1>6, <1>8, RedemptionAssumption DEF IInv, TypeOK, Placed, Working, LockSound, Admits, LapsedTickets, B
<1>14. Remembered
  BY <1>3, <1>7, <1>8 DEF Remembered, B
<1>15. ClearancesEarned' /\ ClearedByRedemption'
  BY <1>8, <1>14, EarnedStays, ClearedStays
<1> QED BY <1>9, <1>10, <1>11, <1>12, <1>13, <1>15 DEF IInv

LEMMA PresentStep ==
  ASSUME IInv, UNCHANGED backend, NEW r \in Requests, NEW v \in Values, NEW c \in Contexts, NEW consume \in BOOLEAN,
         Present(r, v, c, consume)
  PROVE  IInv'
<1> DEFINE where == IF consume THEN "sent" ELSE "inspect"
<1>1. /\ pc' \in [Requests -> PCs] /\ answer' = answer
      /\ pc'[r] \in {"sent", "inspect"}
      /\ \A q \in Requests \ {r} : pc'[q] = pc[q]
  <2>1. where \in PCs /\ Goto(r, where) /\ where \in {"sent", "inspect"}
    BY DEF Present, PCs
  <2> HIDE DEF where
  <2> QED BY <2>1, GotoFacts DEF IInv
<1>2. /\ ticketOf' \in [Requests -> Values \cup {None}] /\ ticketOf'[r] = v
      /\ contextOf' \in [Requests -> Contexts]
      /\ \A q \in Requests \ {r} : ticketOf'[q] = ticketOf[q] /\ contextOf'[q] = contextOf[q]
  BY DEF IInv, TypeOK, Present
<1>3. /\ UNCHANGED <<kept, binding, clearances, dirty, clock, redeemer>>
      /\ pc[r] = "new" /\ binding[v].issued
  BY DEF Present
<1>4. answer[r] = "none" /\ ticketOf[r] = None
  BY <1>3 DEF IInv, Placed
<1>5. \A w \in Values : redeemer[w] # None => redeemer[w] \in Requests /\ redeemer[w] # r
  BY <1>3 DEF IInv, TypeOK, RedeemersPlaced
<1>6. TypeOK'
  BY <1>1, <1>2, <1>3 DEF IInv, TypeOK
<1>7. Placed'
  BY <1>1, <1>2, <1>3, <1>4 DEF IInv, Placed, Working
<1>8. StoreAgrees'
  BY <1>3 DEF IInv, StoreAgrees
<1>9. RedeemersPlaced'
  BY <1>1, <1>2, <1>3, <1>5 DEF IInv, RedeemersPlaced, Admits
<1>10. LockSound'
  BY <1>1, <1>2, <1>3, <1>4 DEF IInv, LockSound, Admits, LapsedTickets
<1>11. Remembered
  BY <1>2, <1>3, <1>5 DEF Remembered
<1>12. ClearancesEarned' /\ ClearedByRedemption'
  BY <1>1, <1>2, <1>3, <1>4, <1>11, EarnedStays, ClearedStays
<1> QED BY <1>6, <1>7, <1>8, <1>9, <1>10, <1>12 DEF IInv

LEMMA PresentClearanceStep ==
  ASSUME IInv, UNCHANGED backend, NEW r \in Requests, NEW c \in Contexts, PresentClearance(r, c)
  PROVE  IInv'
<1>1. /\ pc' \in [Requests -> PCs] /\ answer' = answer
      /\ pc'[r] = "clear"
      /\ \A q \in Requests \ {r} : pc'[q] = pc[q]
  BY GotoFacts DEF IInv, PresentClearance, PCs
<1>2. /\ contextOf' \in [Requests -> Contexts]
      /\ \A q \in Requests \ {r} : contextOf'[q] = contextOf[q]
  BY DEF IInv, TypeOK, PresentClearance
<1>3. /\ UNCHANGED <<kept, binding, clearances, ticketOf, dirty, clock, redeemer>>
      /\ pc[r] = "new"
  BY DEF PresentClearance
<1>4. answer[r] = "none" /\ ticketOf[r] = None
  BY <1>3 DEF IInv, Placed
<1>5. \A w \in Values : redeemer[w] # None => redeemer[w] \in Requests /\ redeemer[w] # r
  BY <1>3 DEF IInv, TypeOK, RedeemersPlaced
<1>6. TypeOK'
  BY <1>1, <1>2, <1>3 DEF IInv, TypeOK
<1>7. Placed'
  BY <1>1, <1>3, <1>4 DEF IInv, Placed, Working
<1>8. StoreAgrees'
  BY <1>3 DEF IInv, StoreAgrees
<1>9. RedeemersPlaced'
  BY <1>1, <1>2, <1>3, <1>5 DEF IInv, RedeemersPlaced, Admits
<1>10. LockSound'
  BY <1>1, <1>2, <1>3, <1>4 DEF IInv, LockSound, Admits, LapsedTickets
<1>11. Remembered
  BY <1>2, <1>3, <1>5 DEF Remembered
<1>12. ClearancesEarned' /\ ClearedByRedemption'
  BY <1>1, <1>2, <1>3, <1>4, <1>11, EarnedStays, ClearedStays
<1> QED BY <1>6, <1>7, <1>8, <1>9, <1>10, <1>12 DEF IInv

LEMMA WatchStep ==
  ASSUME IInv, UNCHANGED backend, NEW r \in Requests, Watch(r)
  PROVE  IInv'
<1>1. /\ pc' \in [Requests -> PCs] /\ answer' = answer
      /\ pc'[r] = "watched"
      /\ \A q \in Requests \ {r} : pc'[q] = pc[q]
  BY GotoFacts DEF IInv, Watch, PCs
<1>2. /\ UNCHANGED <<kept, binding, clearances, ticketOf, contextOf, clock, redeemer>>
      /\ pc[r] = "sent" /\ dirty' = dirty \ {r}
  BY DEF Watch
<1>3. answer[r] = "none" /\ ticketOf[r] \in Values
  BY <1>2 DEF IInv, Placed, Working
<1>4. TypeOK'
  BY <1>1, <1>2 DEF IInv, TypeOK
<1>5. Placed'
  BY <1>1, <1>2, <1>3 DEF IInv, Placed, Working
<1>6. StoreAgrees'
  BY <1>2 DEF IInv, StoreAgrees
<1>7. RedeemersPlaced'
  BY <1>1, <1>2 DEF IInv, TypeOK, RedeemersPlaced, Admits
<1>8. LockSound'
  BY <1>1, <1>2, <1>3 DEF IInv, LockSound, Admits, LapsedTickets
<1>9. ClearancesEarned' /\ ClearedByRedemption'
  BY <1>1, <1>2, EarnedStays, ClearedStays DEF Remembered
<1> QED BY <1>4, <1>5, <1>6, <1>7, <1>8, <1>9 DEF IInv

\* A validated request read a live ticket, so nobody has redeemed it, and
\* whoever does from now on touches the key.
LEMMA ReadStep ==
  ASSUME IInv, UNCHANGED backend, NEW r \in Requests, Read(r)
  PROVE  IInv'
<1> DEFINE outcome == Validate(ticketOf[r], contextOf[r])
<1>1. ticketOf[r] \in Values /\ contextOf[r] \in Contexts /\ pc[r] = "watched"
  BY DEF IInv, TypeOK, Placed, Working, Read
<1>2. /\ outcome \in {"ok", "NOT_FOUND", "EXPIRED", "CONSUMED"}
      /\ outcome = "ok" => kept[ticketOf[r]] = "live" /\ Admits(ticketOf[r], contextOf[r])
  BY <1>1, ValidateFacts DEF IInv
<1>3. /\ UNCHANGED <<kept, binding, clearances, ticketOf, contextOf, dirty, clock, redeemer>>
      /\ outcome = "ok" => Goto(r, "validated")
      /\ outcome # "ok" => Answer(r, outcome)
  BY DEF Read
<1> HIDE DEF outcome
<1>4. CASE outcome # "ok"
  <2>1. outcome \in Answers \ {"none", "redeemed", "cleared"}
    BY <1>2, <1>4 DEF Answers
  <2> QED BY <1>1, <1>3, <1>4, <2>1, AnswerStep
<1>5. CASE outcome = "ok"
  <2>1. /\ pc' \in [Requests -> PCs] /\ answer' = answer
        /\ pc'[r] = "validated"
        /\ \A q \in Requests \ {r} : pc'[q] = pc[q]
    BY <1>3, <1>5, GotoFacts DEF IInv, PCs
  <2>2. redeemer[ticketOf[r]] = None
    BY <1>1, <1>2, <1>5 DEF IInv, StoreAgrees
  <2>3. TypeOK'
    BY <1>3, <2>1 DEF IInv, TypeOK
  <2>4. Placed'
    BY <1>1, <1>3, <2>1 DEF IInv, Placed, Working
  <2>5. StoreAgrees'
    BY <1>3 DEF IInv, StoreAgrees
  <2>6. RedeemersPlaced'
    BY <1>1, <1>3, <2>1 DEF IInv, TypeOK, RedeemersPlaced, Admits
  <2>7. LockSound'
    <3>1. answer[r] # "redeemed"
      BY <1>1 DEF IInv, Placed
    <3> QED BY <1>1, <1>2, <1>3, <1>5, <2>1, <2>2, <3>1 DEF IInv, LockSound, Admits, LapsedTickets
  <2>8. ClearancesEarned' /\ ClearedByRedemption'
    BY <1>3, <2>1, EarnedStays, ClearedStays DEF Remembered
  <2> QED BY <2>3, <2>4, <2>5, <2>6, <2>7, <2>8 DEF IInv
<1> QED BY <1>4, <1>5

LEMMA ExecStep ==
  ASSUME IInv, UNCHANGED backend, NEW r \in Requests, Exec(r)
  PROVE  IInv'
<1>1. /\ pc[r] = "validated" /\ r \notin dirty /\ Consume(r) /\ Goto(r, "redeemed")
      /\ UNCHANGED <<binding, clearances, ticketOf, contextOf, clock>>
  BY DEF Exec, Executable
<1>2. redeemer[ticketOf[r]] = None /\ Admits(ticketOf[r], contextOf[r])
  BY <1>1 DEF IInv, LockSound
<1> QED BY <1>1, <1>2, ConsumeStep

LEMMA ConsumeLockedStep ==
  ASSUME IInv, UNCHANGED backend, NEW r \in Requests, ConsumeLocked(r)
  PROVE  IInv'
<1> DEFINE outcome == Validate(ticketOf[r], contextOf[r])
<1>1. ticketOf[r] \in Values /\ contextOf[r] \in Contexts /\ pc[r] = "sent"
  BY DEF IInv, TypeOK, Placed, Working, ConsumeLocked
<1>2. /\ outcome \in {"ok", "NOT_FOUND", "EXPIRED", "CONSUMED"}
      /\ outcome = "ok" => kept[ticketOf[r]] = "live" /\ Admits(ticketOf[r], contextOf[r])
  BY <1>1, ValidateFacts DEF IInv
<1>3. /\ UNCHANGED <<binding, clearances, ticketOf, contextOf, clock>>
      /\ outcome = "ok" => Consume(r) /\ Goto(r, "redeemed")
      /\ outcome # "ok" => Answer(r, outcome) /\ UNCHANGED <<kept, dirty, redeemer>>
  BY DEF ConsumeLocked
<1> HIDE DEF outcome
<1>4. CASE outcome # "ok"
  <2>1. outcome \in Answers \ {"none", "redeemed", "cleared"}
    BY <1>2, <1>4 DEF Answers
  <2> QED BY <1>1, <1>3, <1>4, <2>1, AnswerStep
<1>5. CASE outcome = "ok"
  <2>1. redeemer[ticketOf[r]] = None
    BY <1>1, <1>2, <1>5 DEF IInv, StoreAgrees
  <2> QED BY <1>1, <1>2, <1>3, <1>5, <2>1, ConsumeStep
<1> QED BY <1>4, <1>5

LEMMA InspectStep ==
  ASSUME IInv, UNCHANGED backend, NEW r \in Requests, Inspect(r)
  PROVE  IInv'
<1> DEFINE outcome == Validate(ticketOf[r], contextOf[r])
           what == IF outcome = "ok" THEN "valid" ELSE outcome
<1>1. ticketOf[r] \in Values /\ contextOf[r] \in Contexts /\ pc[r] = "inspect"
  BY DEF IInv, TypeOK, Placed, Working, Inspect
<1>2. outcome \in {"ok", "NOT_FOUND", "EXPIRED", "CONSUMED"}
  BY <1>1, ValidateFacts DEF IInv
<1>3. what \in Answers \ {"none", "redeemed", "cleared"}
  BY <1>2 DEF Answers
<1>4. /\ UNCHANGED <<kept, binding, clearances, ticketOf, contextOf, dirty, clock, redeemer>>
      /\ Answer(r, what)
  BY DEF Inspect
<1> HIDE DEF what
<1> QED BY <1>1, <1>3, <1>4, AnswerStep

LEMMA MintStep ==
  ASSUME IInv, UNCHANGED backend, NEW r \in Requests, Mint(r)
  PROVE  IInv'
<1> DEFINE new == [ticket |-> ticketOf[r], carries |-> Part(contextOf[r], Fields \ Way),
                   deadline |-> clock + ClearanceTTL]
<1>1. /\ pc' \in [Requests -> PCs] /\ answer' \in [Requests -> Answers]
      /\ pc'[r] = "answered" /\ answer'[r] = "redeemed"
      /\ \A q \in Requests \ {r} : pc'[q] = pc[q] /\ answer'[q] = answer[q]
  BY AnswerFacts DEF IInv, Mint, Answers
<1>2. /\ UNCHANGED <<kept, binding, ticketOf, contextOf, dirty, clock, redeemer>>
      /\ \/ clearances' = clearances
         \/ clearances' = clearances \cup {new} /\ Clearable(contextOf[r])
      /\ pc[r] = "redeemed"
  BY DEF Mint
<1>3. /\ ticketOf[r] \in Values /\ contextOf[r] \in Contexts /\ answer[r] = "none"
      /\ redeemer[ticketOf[r]] = r /\ r # None
  BY <1>2, RedemptionAssumption DEF IInv, TypeOK, Placed, Working, LockSound
<1>4. \A f \in Fields : binding[ticketOf[r]].carries[f] \in {None, contextOf[r][f]}
  BY <1>3 DEF IInv, RedeemersPlaced, Admits, Matches
<1>5. /\ new \in Clearances
      /\ new.ticket = ticketOf[r] /\ new.carries = Part(contextOf[r], Fields \ Way)
  BY <1>3, PartTyped, RedemptionAssumption DEF IInv, TypeOK, Clearances
<1>51. /\ \A f \in Fields \ Way : binding[ticketOf[r]].carries[f] \in {None, new.carries[f]}
       /\ Clearable(contextOf[r]) => \A f \in Scope \cup Origin : new.carries[f] # None
  <2>1. \A f \in Fields \ Way : new.carries[f] = contextOf[r][f]
    BY <1>5 DEF Part
  <2>2. Scope \cup Origin \subseteq Fields \ Way /\ \A f \in Scope : contextOf[r][f] # None
    BY <1>3, RedemptionAssumption
  <2> QED BY <1>4, <2>1, <2>2 DEF Clearable
<1> HIDE DEF new
<1>6. TypeOK'
  BY <1>1, <1>2, <1>5 DEF IInv, TypeOK
<1>7. Placed'
  BY <1>1, <1>2, <1>3 DEF IInv, Placed, Working
<1>8. StoreAgrees'
  BY <1>2 DEF IInv, StoreAgrees
<1>9. RedeemersPlaced'
  BY <1>1, <1>2 DEF IInv, TypeOK, RedeemersPlaced, Admits
<1>10. LockSound'
  BY <1>1, <1>2, <1>3 DEF IInv, LockSound, Admits, LapsedTickets
<1>11. Remembered
  BY <1>2 DEF Remembered
<1>12. ClearancesEarned'
  <2>1. \A c \in clearances : c.ticket \in Values /\ c.ticket # ticketOf[r] /\ redeemer[c.ticket] # r
    BY <1>3 DEF IInv, TypeOK, ClearancesEarned, Clearances
  <2>2. CASE clearances' = clearances
    BY <1>1, <1>3, <1>11, <2>2, EarnedStays
  <2>3. CASE clearances' = clearances \cup {new} /\ Clearable(contextOf[r])
    <3>1. /\ redeemer'[new.ticket] = r /\ r # None /\ answer'[r] = "redeemed"
          /\ contextOf' = contextOf /\ binding' = binding /\ redeemer' = redeemer
      BY <1>1, <1>2, <1>3, <1>5
    <3>2. ASSUME NEW c \in clearances
          PROVE  /\ redeemer[c.ticket] # None
                 /\ answer'[redeemer[c.ticket]] = "redeemed"
                 /\ c.carries = Part(contextOf[redeemer[c.ticket]], Fields \ Way)
                 /\ \A f \in Scope \cup Origin : c.carries[f] # None
                 /\ \A f \in Fields \ Way : binding[c.ticket].carries[f] \in {None, c.carries[f]}
                 /\ c.ticket # new.ticket
                 /\ \A d \in clearances : d.ticket = c.ticket => d = c
      <4>1. redeemer[c.ticket] \in Requests \ {r}
        BY <2>1 DEF IInv, TypeOK, ClearancesEarned
      <4> QED BY <1>1, <1>5, <2>1, <4>1 DEF IInv, ClearancesEarned
    <3> QED BY <1>5, <1>51, <2>3, <3>1, <3>2 DEF ClearancesEarned, Part
  <2> QED BY <1>2, <2>2, <2>3
<1>13. ClearedByRedemption'
  BY <1>1, <1>2, <1>11, ClearedStays
<1> QED BY <1>6, <1>7, <1>8, <1>9, <1>10, <1>12, <1>13 DEF IInv

LEMMA VerifyClearanceStep ==
  ASSUME IInv, UNCHANGED backend, NEW r \in Requests, NEW c \in clearances, VerifyClearance(r, c)
  PROVE  IInv'
<1> DEFINE what == IF Honoured(c, contextOf[r]) THEN "cleared" ELSE "evaluate"
<1>1. /\ UNCHANGED <<kept, binding, ticketOf, contextOf, dirty, clock, redeemer>>
      /\ clearances' \subseteq clearances
      /\ pc[r] = "clear" /\ Answer(r, what)
  BY DEF VerifyClearance
<1>2. /\ what \in Answers \ {"none", "redeemed"}
      /\ what = "cleared" => Matches(c.carries, contextOf[r])
  BY DEF Honoured, Answers
<1> HIDE DEF what
<1>3. /\ pc' \in [Requests -> PCs] /\ answer' \in [Requests -> Answers]
      /\ pc'[r] = "answered" /\ answer'[r] = what
      /\ \A q \in Requests \ {r} : pc'[q] = pc[q] /\ answer'[q] = answer[q]
  BY <1>1, <1>2, AnswerFacts DEF IInv
<1>4. answer[r] = "none" /\ ticketOf[r] = None
  BY <1>1 DEF IInv, Placed
<1>5. /\ c.ticket \in Values /\ redeemer[c.ticket] # None
      /\ c.carries = Part(contextOf[redeemer[c.ticket]], Fields \ Way)
      /\ \A f \in Scope \cup Origin : c.carries[f] # None
  BY DEF IInv, TypeOK, ClearancesEarned, Clearances
<1>51. what = "cleared" => ClearedBy(r)
  <2>1. \A f \in Fields \ Way : c.carries[f] = contextOf[redeemer[c.ticket]][f]
    BY <1>5 DEF Part
  <2>2. Scope \cup Origin \subseteq Fields \ Way
    BY RedemptionAssumption
  <2> QED BY <1>2, <1>5, <2>1, <2>2 DEF ClearedBy, Matches
<1>6. TypeOK'
  BY <1>1, <1>3 DEF IInv, TypeOK
<1>7. Placed'
  BY <1>1, <1>2, <1>3, <1>4 DEF IInv, Placed, Working
<1>8. StoreAgrees'
  BY <1>1 DEF IInv, StoreAgrees
<1>9. RedeemersPlaced'
  BY <1>1, <1>3 DEF IInv, TypeOK, RedeemersPlaced, Admits
<1>10. LockSound'
  BY <1>1, <1>2, <1>3 DEF IInv, LockSound, Admits, LapsedTickets
<1>11. ClearancesEarned'
  BY <1>1, <1>3, <1>4, EarnedStays DEF Remembered
<1>12. ClearedByRedemption'
  BY <1>1, <1>3, <1>51 DEF IInv, ClearedByRedemption, ClearedBy
<1> QED BY <1>6, <1>7, <1>8, <1>9, <1>10, <1>11, <1>12 DEF IInv

\* Expiry takes keys and clearances away; it can only touch the keys of
\* tickets whose lifetime is over.
LEMMA ExpireStep ==
  ASSUME IInv, UNCHANGED backend, \/ \E v \in Values : ExpireKey(v)
               \/ \E c \in clearances : ExpireClearance(c)
  PROVE  IInv'
<1>1. ASSUME NEW v \in Values, ExpireKey(v)
      PROVE  IInv'
  <2>1. /\ UNCHANGED <<binding, clearances, pc, ticketOf, contextOf, answer, clock, redeemer>>
        /\ kept[v] # "absent" /\ kept' = [kept EXCEPT ![v] = "absent"]
        /\ clock >= binding[v].deadline
        /\ dirty' \in {dirty, dirty \cup Watching(v)}
    BY <1>1 DEF ExpireKey
  <2>2. v \in LapsedTickets
    BY <2>1 DEF IInv, StoreAgrees, LapsedTickets
  <2>3. TypeOK'
    BY <2>1 DEF IInv, TypeOK, Watching
  <2>4. Placed' /\ RedeemersPlaced'
    BY <2>1 DEF IInv, Placed, RedeemersPlaced, Admits
  <2>7. ClearancesEarned' /\ ClearedByRedemption'
    BY <2>1, EarnedStays, ClearedStays DEF Remembered
  <2>5. StoreAgrees'
    BY <2>1 DEF IInv, TypeOK, StoreAgrees
  <2>6. LockSound'
    <3>1. dirty \subseteq dirty' /\ \A q \in dirty' \ dirty : ticketOf[q] = v
      BY <2>1 DEF Watching
    <3> QED BY <2>1, <2>2, <3>1 DEF IInv, LockSound, Admits, LapsedTickets
  <2> QED BY <2>3, <2>4, <2>5, <2>6, <2>7 DEF IInv
<1>2. ASSUME NEW c \in clearances, ExpireClearance(c)
      PROVE  IInv'
  <2>1. /\ UNCHANGED <<kept, binding, pc, ticketOf, contextOf, dirty, answer, clock, redeemer>>
        /\ clearances' \subseteq clearances
    BY <1>2 DEF ExpireClearance
  <2>2. ClearancesEarned' /\ ClearedByRedemption'
    BY <2>1, EarnedStays, ClearedStays DEF Remembered
  <2> QED BY <2>1, <2>2 DEF IInv, TypeOK, Placed, StoreAgrees, RedeemersPlaced, Admits, LockSound,
               LapsedTickets
<1> QED BY <1>1, <1>2

LEMMA CrashStep ==
  ASSUME IInv, UNCHANGED backend, NEW S \in SUBSET InFlight, Crash(S)
  PROVE  IInv'
<1>1. /\ UNCHANGED <<binding, ticketOf, contextOf, dirty, clock, redeemer>>
      /\ clearances' \subseteq clearances
      /\ kept' \in [Values -> {"absent", "live", "consumed"}]
      /\ \A v \in Values : kept'[v] \in {kept[v], "absent"}
      /\ pc' \in [Requests -> PCs] /\ answer' \in [Requests -> Answers]
      /\ \A q \in S : pc'[q] = "answered" /\ answer'[q] = "lost"
      /\ \A q \in Requests \ S : pc'[q] = pc[q] /\ answer'[q] = answer[q]
  <2>1. /\ UNCHANGED <<binding, ticketOf, contextOf, dirty, clock, redeemer>>
        /\ pc' = [r \in Requests |-> IF r \in S THEN "answered" ELSE pc[r]]
        /\ answer' = [r \in Requests |-> IF r \in S THEN "lost" ELSE answer[r]]
    BY DEF Crash
  <2>2. kept' = kept \/ kept' = [v \in Values |-> "absent"]
    BY DEF Crash
  <2>3. clearances' = clearances \/ clearances' = {}
    BY DEF Crash
  <2>4. S \subseteq Requests
    BY DEF InFlight
  <2>5. pc \in [Requests -> PCs] /\ answer \in [Requests -> Answers]
        /\ kept \in [Values -> {"absent", "live", "consumed"}]
    BY DEF IInv, TypeOK
  <2> QED BY <2>1, <2>2, <2>3, <2>4, <2>5 DEF PCs, Answers
<1>2. \A q \in S : q \in Requests /\ answer[q] = "none" /\ pc[q] \notin {"new", "answered"}
  BY DEF IInv, Placed, InFlight
<1>3. TypeOK'
  BY <1>1 DEF IInv, TypeOK
<1>4. Placed'
  BY <1>1, <1>2 DEF IInv, Placed, Working
<1>5. StoreAgrees'
  BY <1>1 DEF IInv, StoreAgrees
<1>6. RedeemersPlaced'
  BY <1>1, <1>2 DEF IInv, TypeOK, RedeemersPlaced, Admits
<1>7. LockSound'
  BY <1>1, <1>2 DEF IInv, LockSound, Admits, LapsedTickets
<1>8. ClearancesEarned'
  BY <1>1, <1>2, EarnedStays DEF Remembered
<1>9. ClearedByRedemption'
  BY <1>1, <1>2 DEF IInv, ClearedByRedemption
<1> QED BY <1>3, <1>4, <1>5, <1>6, <1>7, <1>8, <1>9 DEF IInv

LEMMA TickStep ==
  ASSUME IInv, UNCHANGED backend, Tick
  PROVE  IInv'
<1>1. /\ UNCHANGED <<kept, binding, clearances, pc, ticketOf, contextOf, dirty, answer, redeemer>>
      /\ clock' = clock + 1
  BY DEF Tick
<1>2. LapsedTickets \subseteq LapsedTickets'
  BY <1>1 DEF IInv, TypeOK, Bindings, LapsedTickets
<1>3. TypeOK'
  BY <1>1 DEF IInv, TypeOK
<1>4. LockSound'
  BY <1>1, <1>2 DEF IInv, LockSound, Admits
<1>5. Placed' /\ StoreAgrees' /\ RedeemersPlaced'
  BY <1>1 DEF IInv, Placed, StoreAgrees, RedeemersPlaced, Admits
<1>6. ClearancesEarned' /\ ClearedByRedemption'
  BY <1>1, EarnedStays, ClearedStays DEF Remembered
<1> QED BY <1>3, <1>4, <1>5, <1>6 DEF IInv

LEMMA OtherAnswerStep ==
  ASSUME IInv, UNCHANGED backend, NEW r \in Requests, ExecAborted(r) \/ Unavailable(r) \/ UnknownClearance(r)
  PROVE  IInv'
<1>1. ASSUME NEW what \in {"CONSUMED", "error", "evaluate"}, Answer(r, what),
             pc[r] \notin {"new", "answered"},
             UNCHANGED <<kept, binding, clearances, ticketOf, contextOf, dirty, clock, redeemer>>
      PROVE  IInv'
  BY <1>1, AnswerStep DEF Answers
<1> QED BY <1>1 DEF ExecAborted, Unavailable, UnknownClearance

LEMMA IInvStep == IInv /\ [Next]_vars => IInv'
<1> SUFFICES ASSUME IInv, [Next]_vars PROVE IInv'
  OBVIOUS
<1>0. UNCHANGED backend
  BY DEF Next, vars
<1>1. CASE UNCHANGED vars
  <2>1. ClearancesEarned' /\ ClearedByRedemption'
    BY <1>1, EarnedStays, ClearedStays DEF vars, Remembered
  <2> QED BY <1>1, <2>1 DEF vars, IInv, TypeOK, Placed, StoreAgrees, RedeemersPlaced, Admits,
            LockSound, LapsedTickets
<1> QED
  BY <1>0, <1>1, IssueStep, PresentStep, PresentClearanceStep, WatchStep, ReadStep, ExecStep,
     OtherAnswerStep, ConsumeLockedStep, InspectStep, MintStep, VerifyClearanceStep,
     ExpireStep, CrashStep, TickStep DEF Next

LEMMA Invariance == Spec => []IInv
BY InitIInv, IInvStep, PTL DEF Spec

(* The state always has the types of the code's records, and every answer is  *)
(* one the API knows.                                                         *)
THEOREM TypeCorrect == Spec => []TypeOK
BY Invariance, PTL DEF IInv

(* No ticket is exchanged for two clearances.  A clearance carries what the    *)
(* request that redeemed its ticket came with, always an address and a user    *)
(* agent, and every field but path and nonce that its ticket carried.         *)
THEOREM EveryClearanceEarned == Spec => []ClearancesEarned
BY Invariance, PTL DEF IInv

(* Whoever is let through on a clearance is like a request that redeemed a     *)
(* ticket: in client, scene, address and user agent, and in the account and    *)
(* device that one named, if it named any.                                    *)
THEOREM ClearedEarned == Spec => []ClearedByRedemption
BY Invariance, PTL DEF IInv

(* Clearances are earned where they are kept and where they are used, whatever *)
(* fields tickets carry: none but client and scene, too (POST /sessions).      *)
THEOREM ClearancesStayEarned == Spec => []ClearancesHold
<1>1. ClearancesEarned /\ ClearedByRedemption => ClearancesHold
  BY DEF ClearancesHold
<1> QED BY <1>1, EveryClearanceEarned, ClearedEarned, PTL

-----------------------------------------------------------------------------
(* The refinement of OneShotTicket.                                           *)

\* The abstract state depends on these variables alone.
LEMMA AbstractUnchanged ==
  ASSUME UNCHANGED <<binding, ticketOf, contextOf, clock, redeemer, answer>>
  PROVE  UNCHANGED OneShot!vars
BY DEF OneShot!vars, Admitted, Admits, LapsedTickets, Told

\* A request in flight is answered, with anything but "redeemed".
LEMMA AnswerRefines ==
  ASSUME IInv, NEW r \in Requests, pc[r] \notin {"new", "answered"},
         NEW what \in Answers \ {"none", "redeemed"}, Answer(r, what),
         UNCHANGED <<binding, ticketOf, contextOf, clock, redeemer>>,
         what = "CONSUMED" => /\ ticketOf[r] \in Values
                              /\ redeemer[ticketOf[r]] # None \/ ticketOf[r] \in LapsedTickets
  PROVE  OneShot!Next
<1>1. answer[r] = "none" /\ Told[r] = "none"
  BY DEF IInv, Placed, Told
<1>2. UNCHANGED <<Admitted, LapsedTickets, redeemer>>
  BY DEF Admitted, Admits, LapsedTickets
<1>3. answer' = [answer EXCEPT ![r] = what] /\ answer \in [Requests -> Answers]
  BY DEF Answer, IInv, TypeOK
<1>4. CASE what = "CONSUMED"
  <2>1. Told' = [Told EXCEPT ![r] = "CONSUMED"]
    BY <1>3, <1>4 DEF Told
  <2>2. OneShot!TellConsumed(ticketOf[r], r)
    BY <1>1, <1>2, <1>4, <2>1 DEF OneShot!TellConsumed
  <2> QED BY <1>4, <2>2 DEF OneShot!Next
<1>5. CASE what # "CONSUMED"
  <2>1. Told' = [q \in Requests |-> IF q \in {r} THEN "other" ELSE Told[q]]
    BY <1>3, <1>5 DEF Told
  <2>2. OneShot!TellOther({r})
    BY <1>1, <1>2, <2>1 DEF OneShot!TellOther
  <2> QED BY <2>2 DEF OneShot!Next
<1> QED BY <1>4, <1>5

\* The transaction that marks the ticket consumed is the abstract redemption.
LEMMA ConsumeRefines ==
  ASSUME IInv, NEW r \in Requests, ticketOf[r] \in Values, redeemer[ticketOf[r]] = None,
         Admits(ticketOf[r], contextOf[r]), Consume(r), Goto(r, "redeemed"),
         UNCHANGED <<binding, ticketOf, contextOf, clock>>
  PROVE  OneShot!Next
<1>1. UNCHANGED <<Admitted, LapsedTickets, Told>>
  BY DEF Admitted, Admits, LapsedTickets, Told, Goto
<1>2. r \in Admitted[ticketOf[r]]
  BY DEF Admitted
<1>3. OneShot!Redeem(ticketOf[r], r)
  BY <1>1, <1>2 DEF OneShot!Redeem, Consume
<1> QED BY <1>3 DEF OneShot!Next

LEMMA IssueRefines ==
  ASSUME IInv, NEW v \in Values, NEW h \in Contexts, NEW S \in Carriable, Issue(v, h, S)
  PROVE  OneShot!Next
<1>1. /\ UNCHANGED <<ticketOf, contextOf, answer, clock, redeemer>>
      /\ ~binding[v].issued
      /\ \A w \in Values \ {v} : binding'[w] = binding[w]
      /\ binding'[v].issued
  BY DEF Issue, IInv, TypeOK
<1>2. \A r \in Requests : ticketOf[r] # v
  BY <1>1, RedemptionAssumption DEF IInv, Placed
<1>3. Admitted' = Admitted
  BY <1>1, <1>2 DEF Admitted, Admits
<1>4. Told' = Told
  BY <1>1 DEF Told
<1>5. PICK L \in SUBSET Values : LapsedTickets' = LapsedTickets \cup L
  <2>1. LapsedTickets \subseteq LapsedTickets' /\ LapsedTickets' \subseteq Values
    BY <1>1 DEF LapsedTickets
  <2> QED BY <2>1
<1>6. OneShot!Lapse(L)
  BY <1>1, <1>3, <1>4, <1>5 DEF OneShot!Lapse
<1> QED BY <1>6 DEF OneShot!Next

LEMMA PresentRefines ==
  ASSUME IInv, NEW r \in Requests, NEW v \in Values, NEW c \in Contexts, NEW consume \in BOOLEAN,
         Present(r, v, c, consume)
  PROVE  OneShot!Next \/ UNCHANGED OneShot!vars
<1>1. /\ UNCHANGED <<binding, clock, redeemer, answer>>
      /\ pc[r] = "new"
      /\ ticketOf'[r] = v /\ contextOf'[r] = c
      /\ \A q \in Requests \ {r} : ticketOf'[q] = ticketOf[q] /\ contextOf'[q] = contextOf[q]
  BY DEF Present, Goto, IInv, TypeOK
<1>2. ticketOf[r] = None
  BY <1>1 DEF IInv, Placed
<1>3. UNCHANGED <<LapsedTickets, Told>>
  BY <1>1 DEF LapsedTickets, Told
<1>4. CASE Admits(v, c)
  <2>1. Admitted' = [Admitted EXCEPT ![v] = @ \cup {r}]
    <3>1. Admitted'[v] = Admitted[v] \cup {r}
      BY <1>1, <1>2, <1>4, RedemptionAssumption DEF Admitted, Admits
    <3>2. \A w \in Values \ {v} : Admitted'[w] = Admitted[w]
      BY <1>1, <1>2, RedemptionAssumption DEF Admitted, Admits
    <3>3. Admitted' = [w \in Values |-> Admitted'[w]] /\ DOMAIN Admitted = Values
      BY DEF Admitted
    <3> QED BY <3>1, <3>2, <3>3, Zenon
  <2>2. OneShot!Match(v, r)
    BY <1>1, <1>3, <2>1 DEF OneShot!Match
  <2> QED BY <2>2 DEF OneShot!Next
<1>5. CASE ~Admits(v, c)
  <2>1. Admitted' = Admitted
    BY <1>1, <1>2, <1>5, RedemptionAssumption DEF Admitted, Admits
  <2> QED BY <1>1, <1>3, <2>1 DEF OneShot!vars
<1> QED BY <1>4, <1>5

LEMMA PresentClearanceRefines ==
  ASSUME IInv, NEW r \in Requests, NEW c \in Contexts, PresentClearance(r, c)
  PROVE  UNCHANGED OneShot!vars
<1>1. /\ UNCHANGED <<binding, clock, redeemer, answer, ticketOf>>
      /\ pc[r] = "new"
      /\ \A q \in Requests \ {r} : contextOf'[q] = contextOf[q]
  BY DEF PresentClearance, Goto, IInv, TypeOK
<1>2. ticketOf[r] = None
  BY <1>1 DEF IInv, Placed
<1>3. Admitted' = Admitted
  BY <1>1, <1>2, RedemptionAssumption DEF Admitted, Admits
<1> QED BY <1>1, <1>3 DEF OneShot!vars, LapsedTickets, Told

\* Minting a clearance tells the redeemer, and it alone, that it redeemed.
LEMMA MintRefines ==
  ASSUME IInv, NEW r \in Requests, Mint(r)
  PROVE  OneShot!Next
<1>1. /\ UNCHANGED <<binding, ticketOf, contextOf, clock, redeemer>>
      /\ pc[r] = "redeemed" /\ answer' = [answer EXCEPT ![r] = "redeemed"]
      /\ answer \in [Requests -> Answers]
  BY DEF Mint, Answer, IInv, TypeOK
<1>2. /\ ticketOf[r] \in Values /\ redeemer[ticketOf[r]] = r /\ answer[r] = "none"
  BY <1>1 DEF IInv, Placed, Working, LockSound
<1>3. UNCHANGED <<Admitted, LapsedTickets>>
  BY <1>1 DEF Admitted, Admits, LapsedTickets
<1>4. Told' = [Told EXCEPT ![r] = "redeemed"] /\ Told[r] = "none"
  BY <1>1, <1>2 DEF Told
<1>5. OneShot!TellRedeemed(ticketOf[r], r)
  BY <1>1, <1>2, <1>3, <1>4 DEF OneShot!TellRedeemed
<1> QED BY <1>2, <1>5 DEF OneShot!Next

LEMMA CrashRefines ==
  ASSUME IInv, NEW S \in SUBSET InFlight, Crash(S)
  PROVE  OneShot!Next
<1>1. /\ UNCHANGED <<binding, ticketOf, contextOf, clock, redeemer>>
      /\ answer' = [r \in Requests |-> IF r \in S THEN "lost" ELSE answer[r]]
      /\ S \in SUBSET Requests
  BY DEF Crash, InFlight
<1>2. \A r \in S : Told[r] = "none"
  BY DEF IInv, Placed, InFlight, Told
<1>3. UNCHANGED <<Admitted, LapsedTickets>>
  BY <1>1 DEF Admitted, Admits, LapsedTickets
<1>4. Told' = [r \in Requests |-> IF r \in S THEN "other" ELSE Told[r]]
  BY <1>1 DEF Told
<1>5. OneShot!TellOther(S)
  BY <1>1, <1>2, <1>3, <1>4 DEF OneShot!TellOther
<1> QED BY <1>1, <1>5 DEF OneShot!Next

LEMMA TickRefines ==
  ASSUME IInv, Tick
  PROVE  OneShot!Next
<1>1. /\ UNCHANGED <<binding, ticketOf, contextOf, answer, redeemer>>
      /\ clock' = clock + 1
  BY DEF Tick
<1>2. UNCHANGED <<Admitted, Told>>
  BY <1>1 DEF Admitted, Admits, Told
<1>3. PICK S \in SUBSET Values : LapsedTickets' = LapsedTickets \cup S
  <2>1. LapsedTickets \subseteq LapsedTickets' /\ LapsedTickets' \subseteq Values
    BY <1>1 DEF IInv, TypeOK, Bindings, LapsedTickets
  <2> QED BY <2>1
<1>4. OneShot!Lapse(S)
  BY <1>1, <1>2, <1>3 DEF OneShot!Lapse
<1> QED BY <1>4 DEF OneShot!Next

LEMMA ReadRefines ==
  ASSUME IInv, NEW r \in Requests, Read(r) \/ Inspect(r) \/ ConsumeLocked(r)
  PROVE  OneShot!Next \/ UNCHANGED OneShot!vars
<1> DEFINE outcome == Validate(ticketOf[r], contextOf[r])
           what == IF outcome = "ok" THEN "valid" ELSE outcome
<1>1. /\ ticketOf[r] \in Values /\ contextOf[r] \in Contexts
      /\ pc[r] \in {"watched", "inspect", "sent"}
  BY DEF IInv, TypeOK, Placed, Working, Read, Inspect, ConsumeLocked
<1>2. /\ outcome \in {"ok", "NOT_FOUND", "EXPIRED", "CONSUMED"}
      /\ outcome = "ok" => kept[ticketOf[r]] = "live" /\ Admits(ticketOf[r], contextOf[r])
      /\ outcome = "CONSUMED" => kept[ticketOf[r]] = "consumed"
  BY <1>1, ValidateFacts DEF IInv
<1>3. UNCHANGED <<binding, ticketOf, contextOf, clock>>
  BY DEF Read, Inspect, ConsumeLocked
<1>4. \/ Answer(r, what) /\ UNCHANGED redeemer
      \/ Goto(r, "validated") /\ UNCHANGED redeemer
      \/ outcome = "ok" /\ Consume(r) /\ Goto(r, "redeemed")
  BY DEF Read, Inspect, ConsumeLocked
<1>5. /\ what \in Answers \ {"none", "redeemed"}
      /\ what = "CONSUMED" => outcome = "CONSUMED"
  BY <1>2 DEF Answers
<1> HIDE DEF outcome, what
<1>6. CASE Answer(r, what) /\ UNCHANGED redeemer
  <2>1. what = "CONSUMED" => redeemer[ticketOf[r]] # None
    BY <1>1, <1>2, <1>5 DEF IInv, StoreAgrees
  <2> QED BY <1>1, <1>3, <1>5, <1>6, <2>1, AnswerRefines
<1>7. CASE Goto(r, "validated") /\ UNCHANGED redeemer
  BY <1>3, <1>7, AbstractUnchanged DEF Goto
<1>8. CASE outcome = "ok" /\ Consume(r) /\ Goto(r, "redeemed")
  <2>1. redeemer[ticketOf[r]] = None
    BY <1>1, <1>2, <1>8 DEF IInv, StoreAgrees
  <2> QED BY <1>1, <1>2, <1>3, <1>8, <2>1, ConsumeRefines
<1> QED BY <1>4, <1>6, <1>7, <1>8

LEMMA TransactionRefines ==
  ASSUME IInv, NEW r \in Requests, Exec(r) \/ ExecAborted(r) \/ Unavailable(r)
  PROVE  OneShot!Next
<1>1. CASE Exec(r)
  <2>1. /\ ticketOf[r] \in Values /\ pc[r] = "validated" /\ r \notin dirty
        /\ Consume(r) /\ Goto(r, "redeemed")
        /\ UNCHANGED <<binding, ticketOf, contextOf, clock>>
    BY <1>1 DEF Exec, Executable, IInv, Placed, Working
  <2>2. redeemer[ticketOf[r]] = None /\ Admits(ticketOf[r], contextOf[r])
    BY <2>1 DEF IInv, LockSound
  <2> QED BY <2>1, <2>2, ConsumeRefines
<1>2. CASE ExecAborted(r)
  <2>1. /\ ticketOf[r] \in Values /\ pc[r] = "validated" /\ r \in dirty
        /\ Answer(r, "CONSUMED")
        /\ UNCHANGED <<binding, ticketOf, contextOf, clock, redeemer>>
    BY <1>2 DEF ExecAborted, Executable, IInv, Placed, Working
  <2>2. redeemer[ticketOf[r]] # None \/ ticketOf[r] \in LapsedTickets
    BY <2>1 DEF IInv, LockSound
  <2>3. "CONSUMED" \in Answers \ {"none", "redeemed"}
    BY DEF Answers
  <2> QED BY <2>1, <2>2, <2>3, AnswerRefines
<1>3. CASE Unavailable(r)
  <2>1. /\ pc[r] \notin {"new", "answered"} /\ Answer(r, "error")
        /\ UNCHANGED <<binding, ticketOf, contextOf, clock, redeemer>>
    BY <1>3 DEF Unavailable
  <2>2. "error" \in Answers \ {"none", "redeemed"}
    BY DEF Answers
  <2> QED BY <2>1, <2>2, AnswerRefines
<1> QED BY <1>1, <1>2, <1>3

LEMMA ClearanceRefines ==
  ASSUME IInv, NEW r \in Requests,
         UnknownClearance(r) \/ \E c \in clearances : VerifyClearance(r, c)
  PROVE  OneShot!Next
<1>1. PICK what \in {"cleared", "evaluate"} : Answer(r, what)
  BY DEF UnknownClearance, VerifyClearance
<1>2. pc[r] = "clear" /\ UNCHANGED <<binding, ticketOf, contextOf, clock, redeemer>>
  BY DEF UnknownClearance, VerifyClearance
<1>3. what \in Answers \ {"none", "redeemed"}
  BY DEF Answers
<1> QED BY <1>1, <1>2, <1>3, AnswerRefines

LEMMA StepRefines == IInv /\ [Next]_vars => [OneShot!Next]_(OneShot!vars)
<1> SUFFICES ASSUME IInv, [Next]_vars PROVE OneShot!Next \/ UNCHANGED OneShot!vars
  OBVIOUS
<1>1. CASE UNCHANGED vars
  BY <1>1, AbstractUnchanged DEF vars
<1>3. ASSUME NEW r \in Requests, Watch(r)
      PROVE  UNCHANGED OneShot!vars
  BY <1>3, AbstractUnchanged DEF Watch, Goto
<1>4. ASSUME \/ \E v \in Values : ExpireKey(v)
             \/ \E c \in clearances : ExpireClearance(c)
      PROVE  UNCHANGED OneShot!vars
  BY <1>4, AbstractUnchanged DEF ExpireKey, ExpireClearance
<1> QED
  BY <1>1, <1>3, <1>4, IssueRefines, PresentRefines, PresentClearanceRefines, ReadRefines,
     TransactionRefines, MintRefines, ClearanceRefines, CrashRefines, TickRefines DEF Next

LEMMA InitRefines == Init => OneShot!Init
<1> SUFFICES ASSUME Init PROVE OneShot!Init
  OBVIOUS
<1>1. Admitted = [v \in Values |-> {}]
  BY RedemptionAssumption DEF Init, Admitted
<1>2. LapsedTickets = {} /\ Told = [r \in Requests |-> "none"]
  BY DEF Init, LapsedTickets, Told
<1> QED BY <1>1, <1>2 DEF OneShot!Init, Init

(* VerifyTicket implements OneShotTicket: for every number of concurrent      *)
(* redemptions a ticket is redeemed once at most, by a request it is bound    *)
(* to, and CONSUMED is said only of a ticket that is redeemed or over.        *)
THEOREM RedemptionImplementsOneShot == Spec => RedemptionIsOneShot
<1>1. Init => OneShot!Init
  BY InitRefines
<1>2. IInv /\ [Next]_vars => [OneShot!Next]_(OneShot!vars)
  BY StepRefines
<1> QED BY <1>1, <1>2, Invariance, PTL DEF Spec, OneShot!Spec, RedemptionIsOneShot
=============================================================================
