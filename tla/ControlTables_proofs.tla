-------------------------- MODULE ControlTables_proofs --------------------------
(***************************************************************************)
(* Proofs about the tables of the control store, for any sets of admins,    *)
(* clients and ids, any number of changes, failures and restarts, over both *)
(* stores and all four tables, and any length of the memory store's audit   *)
(* trail: what is stored is kept, and is told to the gateways and the trail.*)
(*                                                                         *)
(* What a handler in flight still owes is half of each invariant: who has   *)
(* changed the table owes the gateways a notice and the trail an event, and *)
(* an upload owns the id of the image it has just written.                  *)
(***************************************************************************)
EXTENDS ControlTables, TLAPS

RowUpTo(n) == [client : Clients, change : 0..n, born : Nat, image : BOOLEAN]
AnyRow == [client : Clients \union {None}, change : Nat, born : Nat, image : BOOLEAN]
Rows(n) == [Ids -> {NoRow} \union RowUpTo(n)]
Content(n) == [rows : Rows(n), forgotten : SUBSET Seeds]
Request(n) ==
  [step : {"idle", "upload", "audit", "notify"}, change : 0..n, client : Clients \union {None},
   left : 0..MaxItems, image : Ids \union {None}, stored : BOOLEAN]
AtWork(a) == request[a].step # "idle"

\* The changes that have had an event.
Taken == DOMAIN since

\* The types of what TypeOK does not speak of.
Typed ==
  /\ request \in [Admins -> Request(changes)]
  /\ kept \in Content(changes)
  /\ behind \in BOOLEAN /\ hushed \in BOOLEAN
  /\ Taken \subseteq 1..changes

\* The marks are of the seeds that are not there, in the table and in what was written last, which is
\* what the file holds; the other tables have neither marks nor a file.
FileInv ==
  /\ KeepsFile => forgotten = Seeds \ Used(rows) /\ kept.forgotten = Seeds \ Used(kept.rows)
  /\ KeepsFile => file = kept \/ (file = None /\ kept = [rows |-> Seeded, forgotten |-> {}])
  /\ ~KeepsFile => forgotten = {} /\ file = None
  /\ KeepsFile /\ ~behind => kept = [rows |-> rows, forgotten |-> forgotten]

\* The images of the resources there are, and of those a restart brings back.
ImagesInv == ImagesAreThere /\ \A i \in Ids : kept.rows[i].image => i \in disk

\* No two handlers make the same change, nor store the same image.
Apart ==
  \A a, b \in Admins : a # b =>
    /\ AtWork(a) => request[a].change # request[b].change
    /\ request[a].image # None => request[a].image # request[b].image

\* Where a handler may be; the image of an upload is written before its row.
Placed(a) ==
  LET r == request[a] IN
  /\ r.step = "idle" => r = Idle
  /\ r.step # "idle" => r.change # 0
  /\ r.step = "upload" => r.client \in Clients /\ table = "resource"
  /\ r.image # None => r.step = "upload" /\ r.left > 0 /\ r.image \in disk

\* What the table does not hold yet the gateways are going to hear of, or nobody is.
NoticeDue(a) == request[a].step \in {"audit", "notify"} \/ (request[a].step = "upload" /\ request[a].stored)
NoticeInv == published = rows \/ hushed \/ \E a \in Admins : NoticeDue(a)

\* The same of the audit trail, change by change.
EventDue(a, n) == request[a].change = n /\ request[a].step \in {"upload", "audit"}
EventInv == \A n \in made : n \in Taken \/ n \in excused \/ \E a \in Admins : EventDue(a, n)
TakenTruly == Taken \subseteq made \union excused

\* Where the event of a change is: behind as many as are newer, until it is pushed out.
InPlace(n) == since[n] = AuditCap \/ (since[n] + 1 \in 1..Len(trail) /\ trail[since[n] + 1] = n)
TrailInv ==
  /\ trail \in Seq(Nat) /\ Audited \subseteq Taken
  /\ \A n \in Taken : since[n] \in 0..AuditCap
  /\ backend = "memory" => Len(trail) <= AuditCap /\ \A n \in Taken : InPlace(n)
  /\ backend = "postgres" => Taken \subseteq Audited

\* An event is written of what was stored, or could not be; an upload knows whether it stored anything.
Truthful(a) ==
  LET r == request[a] IN
  /\ r.step = "audit" \/ (r.step = "upload" /\ r.left = 0) => r.change \in made \union excused
  /\ r.step = "upload" /\ ~r.stored => r.change \notin made

\* If another admin has saved the row of an image before the upload did, that was the later change.
Younger(a) ==
  LET r == request[a] IN
  r.image # None /\ rows[r.image] # NoRow => rows[r.image].change > r.change

HandlerInv(a) == Placed(a) /\ Truthful(a) /\ Younger(a)

IInv ==
  /\ TypeOK /\ Typed
  /\ FileInv /\ ImagesInv
  /\ Apart /\ NoticeInv /\ EventInv /\ TakenTruly /\ TrailInv
  /\ \A a \in Admins : HandlerInv(a)

----------------------------------------------------------------------------
(* Rows and what is loaded of them.                                         *)

LEMMA RowFacts ==
  /\ \A n \in Nat : NoRow \notin RowUpTo(n)
  /\ \A m, n \in Nat : m <= n => RowUpTo(m) \subseteq RowUpTo(n)
  /\ NoRow.image = FALSE /\ NoRow.change = 0
  /\ NoRow \in AnyRow /\ \A n \in Nat : RowUpTo(n) \subseteq AnyRow
<1>1. \A n \in Nat : NoRow \notin RowUpTo(n)
  BY TablesAssumption DEF NoRow, RowUpTo
<1>2. ASSUME NEW m \in Nat, NEW n \in Nat, m <= n
      PROVE  RowUpTo(m) \subseteq RowUpTo(n)
  <2>1. 0..m \subseteq 0..n
    BY <1>2
  <2> QED BY <2>1 DEF RowUpTo
<1>3. NoRow \in AnyRow
  BY DEF NoRow, AnyRow
<1>4. ASSUME NEW n \in Nat
      PROVE  RowUpTo(n) \subseteq AnyRow
  <2>1. 0..n \subseteq Nat
    OBVIOUS
  <2> QED BY <2>1 DEF RowUpTo, AnyRow
<1> QED BY <1>1, <1>2, <1>3, <1>4 DEF NoRow

LEMMA TablesGrow ==
  ASSUME NEW m \in Nat, NEW n \in Nat, m <= n
  PROVE  Rows(m) \subseteq Rows(n) /\ Content(m) \subseteq Content(n)
<1>1. Rows(m) \subseteq Rows(n)
  BY RowFacts DEF Rows
<1> QED BY <1>1 DEF Content

LEMMA SeededFacts ==
  ASSUME NEW n \in Nat
  PROVE  /\ Seeded \in Rows(n)
         /\ Used(Seeded) = Seeds
         /\ \A i \in Ids : Seeded[i].image = FALSE
<1> DEFINE seed == [client |-> CHOOSE c \in Registered : TRUE, change |-> 0, born |-> 0, image |-> FALSE]
<1>1. seed \in RowUpTo(n)
  <2>1. (CHOOSE c \in Registered : TRUE) \in Registered
    BY TablesAssumption
  <2>2. 0 \in 0..n
    OBVIOUS
  <2> QED BY <2>1, <2>2, TablesAssumption DEF RowUpTo
<1>2. seed # NoRow /\ seed.image = FALSE
  BY <1>1, RowFacts
<1>3. Seeded = [i \in Ids |-> IF i \in Seeds THEN seed ELSE NoRow]
  BY DEF Seeded
<1> HIDE DEF seed
<1>4. Seeded \in Rows(n)
  BY <1>1, <1>3 DEF Rows
<1>5. Used(Seeded) = Seeds
  BY <1>2, <1>3, TablesAssumption DEF Used
<1> QED BY <1>2, <1>3, <1>4, <1>5, RowFacts

\* What has its marks right is loaded as it was written (loadResourcesFromDisk of memory.go).
LEMMA LoadFacts ==
  ASSUME NEW n \in Nat, NEW c \in Content(n), c.forgotten = Seeds \ Used(c.rows)
  PROVE  Load(c) = c
<1>1. c # None /\ c.rows \in Rows(n) /\ c = [rows |-> c.rows, forgotten |-> c.forgotten]
  <2>1. c.rows \in Rows(n) /\ c = [rows |-> c.rows, forgotten |-> c.forgotten]
    BY DEF Content
  <2>2. c.rows \in [Ids -> AnyRow]
    BY <2>1, RowFacts DEF Rows
  <2>3. c \in [rows : [Ids -> AnyRow], forgotten : SUBSET Seeds]
    BY <2>2 DEF Content
  <2>4. None \notin [rows : [Ids -> AnyRow], forgotten : SUBSET Seeds]
    BY TablesAssumption DEF AnyRow
  <2> QED BY <2>1, <2>3, <2>4
<1>2. \A i \in Ids \ Seeds : Seeded[i] = NoRow
  BY DEF Seeded
<1>3. [i \in Ids |-> IF c.rows[i] # NoRow THEN c.rows[i]
                     ELSE IF i \in c.forgotten THEN NoRow ELSE Seeded[i]] = c.rows
  BY <1>1, <1>2 DEF Used, Rows
<1>4. {i \in c.forgotten : c.rows[i] = NoRow} = c.forgotten
  BY TablesAssumption DEF Used
<1> QED BY <1>1, <1>3, <1>4 DEF Load

----------------------------------------------------------------------------
(* What the stores do.                                                      *)

\* What every operation of a store leaves behind: rows of their type, marks and file in agreement.
Stored(n) ==
  /\ rows' \in Rows(n) /\ forgotten' \subseteq Seeds \ Used(rows')
  /\ kept' \in Content(n) /\ behind' \in BOOLEAN
  /\ FileInv'
  /\ kept' = kept \/ kept'.rows = rows'

LEMMA UpsertFacts ==
  ASSUME IInv, NEW n \in Nat, changes <= n, NEW i \in Ids, NEW row \in RowUpTo(n),
         NEW stored \in BOOLEAN, NEW outcome, Upsert(i, row, stored, outcome), UNCHANGED <<backend, table>>
  PROVE  /\ Stored(n)
         /\ stored => rows' = [rows EXCEPT ![i] = row]
         /\ ~stored => rows' = rows
<1>0. /\ rows \in Rows(n) /\ rows \in Rows(changes) /\ kept \in Content(n) /\ changes \in Nat
      /\ forgotten \subseteq Seeds /\ behind \in BOOLEAN /\ row # NoRow
  <2>1. changes \in Nat /\ kept \in Content(changes) /\ rows \in Rows(changes) /\ forgotten \subseteq Seeds /\ behind \in BOOLEAN
    BY DEF IInv, TypeOK, Typed, Rows, Row, RowUpTo
  <2> QED BY <2>1, TablesGrow, RowFacts
<1>1. CASE ~stored
  BY <1>0, <1>1 DEF Upsert, IInv, TypeOK, FileInv, KeepsFile, Used, Stored
<1>2. CASE stored
  <2>1. rows' = [rows EXCEPT ![i] = row] /\ rows' \in Rows(n)
    BY <1>0, <1>2 DEF Upsert, Rows
  <2>2. Used(rows') = Used(rows) \union {i}
    BY <1>0, <2>1 DEF Used, Rows
  <2>3. CASE KeepsFile
    <3>1. forgotten' = forgotten \ {i}
      BY <1>2, <2>3 DEF Upsert, Undeleted
    <3>2. forgotten' = Seeds \ Used(rows')
      BY <2>2, <2>3, <3>1 DEF IInv, FileInv
    <3>3. CASE outcome = "unwritten"
      <4>1. file' = file /\ kept' = kept /\ behind' = TRUE
        BY <1>2, <2>3, <3>3 DEF Upsert, Persist, FailedWrite
      <4> QED BY <1>0, <1>2, <2>1, <2>3, <3>2, <4>1 DEF Stored, FileInv, KeepsFile, IInv
    <3>4. CASE outcome # "unwritten"
      <4>1. file' = kept' /\ kept' = [rows |-> rows', forgotten |-> forgotten'] /\ behind' = FALSE
        BY <1>2, <2>3, <3>4 DEF Upsert, Persist
      <4>2. kept' \in Content(n)
        BY <2>1, <3>2, <4>1 DEF Content
      <4> QED BY <1>0, <1>2, <2>1, <2>3, <3>2, <4>1, <4>2 DEF Stored, FileInv, KeepsFile
    <3> QED BY <3>3, <3>4
  <2>4. CASE ~KeepsFile
    <3>1. forgotten' = forgotten /\ UNCHANGED <<file, kept, behind>>
      BY <1>2, <2>4 DEF Upsert, Persist
    <3> QED BY <1>0, <1>2, <2>1, <2>4, <3>1 DEF Stored, FileInv, KeepsFile, IInv
  <2> QED BY <1>2, <2>1, <2>3, <2>4
<1> QED BY <1>1, <1>2

LEMMA RemoveFacts ==
  ASSUME IInv, NEW n \in Nat, changes <= n, NEW hit \in SUBSET Used(rows), NEW outcome,
         Remove(hit, outcome), UNCHANGED <<backend, table>>
  PROVE  /\ Stored(n)
         /\ rows' = [i \in Ids |-> IF i \in hit THEN NoRow ELSE rows[i]]
         /\ hit = {} => rows' = rows
<1>0. /\ rows \in Rows(n) /\ kept \in Content(n) /\ changes \in Nat
      /\ forgotten \subseteq Seeds /\ behind \in BOOLEAN
  <2>1. changes \in Nat /\ kept \in Content(changes) /\ rows \in Rows(changes) /\ forgotten \subseteq Seeds /\ behind \in BOOLEAN
    BY DEF IInv, TypeOK, Typed, Rows, Row, RowUpTo
  <2> QED BY <2>1, TablesGrow
<1>1. rows' = [i \in Ids |-> IF i \in hit THEN NoRow ELSE rows[i]] /\ rows' \in Rows(n)
  BY <1>0 DEF Remove, Rows
<1>2. hit = {} => rows' = rows
  BY <1>0, <1>1 DEF Rows
<1>3. Used(rows') = Used(rows) \ hit
  BY <1>1 DEF Used
<1>4. CASE KeepsFile
  <2>1. forgotten' = forgotten \union (hit \intersect Seeds)
    BY <1>4 DEF Remove
  <2>2. forgotten' = Seeds \ Used(rows')
    BY <1>3, <1>4, <2>1 DEF IInv, FileInv
  <2>3. CASE hit = {}
    BY <1>0, <1>1, <1>2, <1>4, <2>1, <2>2, <2>3 DEF Remove, Stored, FileInv, KeepsFile, IInv
  <2>4. CASE hit # {} /\ outcome = "unwritten"
    <3>1. file' = file /\ kept' = kept /\ behind' = TRUE
      BY <1>4, <2>4 DEF Remove, Persist, FailedWrite
    <3> QED BY <1>0, <1>1, <1>4, <2>2, <2>4, <3>1 DEF Stored, FileInv, KeepsFile, IInv
  <2>5. CASE hit # {} /\ outcome # "unwritten"
    <3>1. file' = kept' /\ kept' = [rows |-> rows', forgotten |-> forgotten'] /\ behind' = FALSE
      BY <1>4, <2>5 DEF Remove, Persist
    <3>2. kept' \in Content(n)
      BY <1>1, <2>2, <3>1 DEF Content
    <3> QED BY <1>0, <1>1, <1>4, <2>2, <2>5, <3>1, <3>2 DEF Stored, FileInv, KeepsFile
  <2> QED BY <2>3, <2>4, <2>5
<1>5. CASE ~KeepsFile
  <2>1. forgotten' = forgotten /\ UNCHANGED <<file, kept, behind>>
    BY <1>5 DEF Remove, Persist
  <2> QED BY <1>0, <1>1, <1>2, <1>5, <2>1 DEF Stored, FileInv, KeepsFile, IInv
<1> QED BY <1>1, <1>2, <1>4, <1>5

\* A handler takes a step with the change n, and the others keep what they owe and own.
LEMMA OthersKeep ==
  ASSUME IInv, NEW a \in Admins, NEW r, request' = [request EXCEPT ![a] = r],
         NEW n, n = changes + 1 \/ (AtWork(a) /\ n = request[a].change),
         r = Idle \/ r.change = n,
         r.image \in {None, request[a].image} \/ r.image \notin disk,
         made \subseteq made', made' \subseteq made \union {n}, excused \subseteq excused',
         disk \subseteq disk', UNCHANGED table,
         \A i \in Ids : rows'[i] \in {rows[i], NoRow} \/ rows'[i].change = changes + 1 \/ i = request[a].image
  PROVE  Apart' /\ \A b \in Admins \ {a} : HandlerInv(b)'
<1>1. request \in [Admins -> Request(changes)] /\ changes \in Nat
  BY DEF IInv, TypeOK, Typed
<1>2. request'[a] = r /\ \A b \in Admins \ {a} : request'[b] = request[b]
  BY <1>1
<1>3. ASSUME NEW b \in Admins \ {a}
      PROVE  /\ request[b].change \in 0..changes
             /\ AtWork(b) => request[b].change # 0
             /\ n # request[b].change
             /\ request[b].image # None => request[b].image \in disk \intersect Ids /\ request[b].image # request[a].image
  <2>1. request[b].change \in 0..changes /\ request[b].image \in Ids \union {None}
    BY <1>1 DEF Request
  <2>2. HandlerInv(b)
    BY DEF IInv
  <2>3. /\ AtWork(a) => request[a].change # request[b].change
        /\ request[b].image # None => request[b].image # request[a].image
    BY DEF IInv, Apart
  <2> QED BY <1>1, <2>1, <2>2, <2>3 DEF HandlerInv, Placed, AtWork
<1>4. ASSUME NEW b \in Admins \ {a}
      PROVE  HandlerInv(b)'
  <2>1. HandlerInv(b) /\ request'[b] = request[b]
    BY <1>2 DEF IInv
  <2>2. Placed(b)'
    BY <2>1 DEF HandlerInv, Placed
  <2>3. Truthful(b)'
    BY <1>3, <2>1 DEF HandlerInv, Truthful
  <2>4. Younger(b)'
    BY <1>1, <1>3, <2>1 DEF HandlerInv, Younger
  <2> QED BY <2>2, <2>3, <2>4 DEF HandlerInv
<1>5. Apart'
  <2>1. ASSUME NEW b \in Admins \ {a}
        PROVE  /\ AtWork(a)' => request'[a].change # request'[b].change
               /\ AtWork(b)' => request'[a].change # request'[b].change
               /\ request'[a].image # None \/ request'[b].image # None => request'[a].image # request'[b].image
    BY <1>2, <1>3 DEF AtWork, Idle
  <2>2. \A b, c \in Admins \ {a} : b # c =>
          /\ AtWork(b)' => request'[b].change # request'[c].change
          /\ request'[b].image # None => request'[b].image # request'[c].image
    BY <1>2 DEF IInv, Apart, AtWork
  <2> QED BY <2>1, <2>2 DEF Apart
<1> QED BY <1>4, <1>5

\* The changes that were asked for are counted.
LEMMA Counted ==
  ASSUME IInv
  PROVE  /\ changes \in Nat /\ changes \in 0..MaxChanges
         /\ made \subseteq 1..changes /\ excused \subseteq 1..changes /\ Taken \subseteq 1..changes
         /\ Taken \union excused \subseteq 1..changes /\ Taken \union made \union excused \subseteq 1..changes
<1>1. changes \in 0..MaxChanges /\ Audited \union made \union excused \subseteq 1..changes /\ Taken \subseteq 1..changes
  BY DEF IInv, TypeOK, Typed
<1>2. changes \in Nat
  BY <1>1, TablesAssumption
<1> QED BY <1>1, <1>2

\* The trail, as long as no event is written.
LEMMA TrailStays ==
  ASSUME IInv, UNCHANGED <<backend, trail, since>>
  PROVE  TrailInv'
BY DEF IInv, TrailInv, InPlace, Audited, Taken

\* An event goes before the others, which move back by one, and only one that has AuditCap newer ones
\* may leave (AddAuditEvent of memory.go).
LEMMA EventAdded ==
  ASSUME IInv, NEW n \in Nat, UNCHANGED backend, trail' = Added(n),
         Taken' = Taken \union ({n} \ {0}),
         \A m \in Taken' : since'[m] = IF m = n THEN 0 ELSE Older[m]
  PROVE  TrailInv'
<1> DEFINE L == Len(trail)
           M == Len(trail')
<1>0. /\ trail \in Seq(Nat) /\ L \in Nat /\ AuditCap \in Nat \ {0} /\ Audited \subseteq Taken /\ 0 \notin Taken
      /\ backend \in {"memory", "postgres"} /\ backend = "memory" => L <= AuditCap
  BY TablesAssumption DEF IInv, TrailInv, TypeOK, Typed
<1>1. /\ trail' \in Seq(Nat) /\ M \in Nat \ {0} /\ trail'[1] = n
      /\ \A k \in 1..M : k # 1 => k - 1 \in 1..L /\ trail'[k] = trail[k - 1]
      /\ M = L + 1 \/ (backend = "memory" /\ M = AuditCap)
      /\ backend = "memory" => M <= AuditCap
  <2>1. CASE backend = "memory" /\ L >= AuditCap
    <3>1. AuditCap - 1 \in Nat /\ L = AuditCap
      BY <1>0, <2>1
    <3>2. PICK u : u = SubSeq(trail, 1, AuditCap - 1)
      OBVIOUS
    <3>3. u \in Seq(Nat) /\ Len(u) = AuditCap - 1 /\ \A k \in 1..(AuditCap - 1) : u[k] = trail[k]
      BY <1>0, <3>1, <3>2
    <3>4. trail' = <<n>> \o u
      BY <2>1, <3>2 DEF Added
    <3>5. trail' \in Seq(Nat) /\ M = AuditCap /\ trail'[1] = n
      BY <1>0, <3>3, <3>4
    <3>6. \A k \in 1..M : k # 1 => k - 1 \in 1..L /\ trail'[k] = trail[k - 1]
      BY <1>0, <3>1, <3>3, <3>4, <3>5
    <3> QED BY <1>0, <2>1, <3>5, <3>6
  <2>2. CASE ~(backend = "memory" /\ L >= AuditCap)
    <3>1. trail' = <<n>> \o trail
      BY <2>2 DEF Added
    <3> QED BY <1>0, <2>2, <3>1
  <2> QED BY <2>1, <2>2
<1> HIDE DEF L, M
<1>2. Audited' \subseteq Taken'
  <2>1. DOMAIN trail' = 1..M /\ DOMAIN trail = 1..L
    BY <1>0, <1>1 DEF L, M
  <2>2. ASSUME NEW k \in 1..M, trail'[k] # 0
        PROVE  trail'[k] \in Taken'
    <3>1. CASE k = 1
      BY <1>1, <2>2, <3>1
    <3>2. CASE k # 1
      <4>1. k - 1 \in DOMAIN trail /\ trail'[k] = trail[k - 1]
        BY <1>1, <2>1, <3>2
      <4> QED BY <1>0, <2>2, <4>1 DEF Audited
    <3> QED BY <3>1, <3>2
  <2> QED BY <2>1, <2>2 DEF Audited
<1>3. ASSUME NEW m \in Taken'
      PROVE  since'[m] \in 0..AuditCap /\ (backend = "memory" => InPlace(m)')
  <2>1. CASE m = n
    BY <1>0, <1>1, <2>1 DEF InPlace, M
  <2>2. CASE m # n
    <3>1. m \in Taken /\ since[m] \in 0..AuditCap /\ since'[m] = Older[m] /\ (backend = "memory" => InPlace(m))
      BY <2>2 DEF IInv, TrailInv
    <3>2. since'[m] = IF since[m] < AuditCap THEN since[m] + 1 ELSE AuditCap
      BY <3>1 DEF Older, Taken
    <3>3. CASE since'[m] = AuditCap
      BY <1>0, <3>3 DEF InPlace
    <3>4. CASE since'[m] # AuditCap
      <4>1. since[m] + 1 < AuditCap /\ since'[m] = since[m] + 1
        BY <1>0, <3>1, <3>2, <3>4
      <4>2. backend = "memory" => since[m] + 1 \in 1..L /\ trail[since[m] + 1] = m
        BY <1>0, <3>1, <4>1 DEF InPlace, L
      <4>3. backend = "memory" => since'[m] + 1 \in 1..M /\ trail'[since'[m] + 1] = m
        <5> SUFFICES ASSUME backend = "memory" PROVE since'[m] + 1 \in 1..M /\ trail'[since'[m] + 1] = m
          OBVIOUS
        <5>1. PICK k \in Nat : k = since'[m] + 1 /\ k - 1 = since[m] + 1
          BY <1>0, <3>1, <4>1
        <5>2. k # 1 /\ k <= L + 1 /\ k <= AuditCap
          BY <1>0, <3>1, <4>1, <4>2, <5>1
        <5>3. k \in 1..M
          <6>1. M \in Nat /\ (M = L + 1 \/ M = AuditCap)
            BY <1>1
          <6>2. k <= M /\ 1 <= k
            BY <1>0, <4>2, <5>1, <5>2, <6>1
          <6> QED BY <5>1, <6>1, <6>2
        <5> QED BY <1>1, <4>2, <5>1, <5>2, <5>3
      <4>4. since'[m] \in 0..AuditCap
        BY <1>0, <3>1, <4>1
      <4> QED BY <4>3, <4>4 DEF InPlace, M
    <3> QED BY <3>3, <3>4
  <2> QED BY <2>1, <2>2
<1>4. backend = "postgres" => Taken' \subseteq Audited'
  <2> SUFFICES ASSUME backend = "postgres", NEW m \in Taken' PROVE m \in Audited'
    OBVIOUS
  <2>1. M = L + 1 /\ DOMAIN trail' = 1..M /\ DOMAIN trail = 1..L
    BY <1>0, <1>1 DEF L, M
  <2>2. CASE m = n
    <3>1. 1 \in DOMAIN trail' /\ trail'[1] = m /\ m # 0
      BY <1>0, <1>1, <2>1, <2>2
    <3> QED BY <3>1 DEF Audited
  <2>3. CASE m # n
    <3>1. m \in Audited
      BY <2>3 DEF IInv, TrailInv
    <3>2. PICK k \in 1..L : trail[k] = m /\ m # 0
      BY <2>1, <3>1 DEF Audited
    <3>3. k + 1 \in 1..M /\ k + 1 # 1 /\ (k + 1) - 1 = k
      BY <1>0, <2>1, <3>2
    <3>4. trail'[k + 1] = m
      BY <1>1, <3>2, <3>3
    <3> QED BY <2>1, <3>2, <3>3, <3>4 DEF Audited
  <2> QED BY <2>2, <2>3
<1> QED BY <1>1, <1>2, <1>3, <1>4 DEF TrailInv, M

LEMMA OutcomesFacts ==
  ASSUME IInv, NEW outcome \in Outcomes, Spend(outcome)
  PROVE  troubles' \in 0..MaxTroubles
BY TablesAssumption DEF Outcomes, Spend, MayFail, IInv, TypeOK

LEMMA TypesKeep ==
  ASSUME IInv, NEW a \in Admins, NEW r \in Request(changes'), request' = [request EXCEPT ![a] = r],
         changes' \in {changes, changes + 1}, changes' <= MaxChanges, troubles' \in 0..MaxTroubles,
         UNCHANGED <<backend, table>>, Stored(changes'), published' \in {published, rows'},
         disk' \subseteq Ids \ Seeds, Taken' \union made' \union excused' \subseteq 1..changes', TrailInv',
         hushed' \in BOOLEAN
  PROVE  TypeOK' /\ Typed'
<1>1. changes \in Nat /\ changes' \in 0..MaxChanges /\ changes <= changes'
  BY TablesAssumption DEF IInv, TypeOK
<1>2. request \in [Admins -> Request(changes)] /\ Request(changes) \subseteq Request(changes')
  <2>1. 0..changes \subseteq 0..changes'
    BY <1>1
  <2> QED BY <2>1 DEF Request, IInv, Typed
<1>3. request' \in [Admins -> Request(changes')]
  BY <1>2
<1>4. published' \in Rows(changes')
  BY <1>1, TablesGrow DEF Stored, IInv, TypeOK, Rows, Row, RowUpTo
<1>5. Typed'
  BY <1>3 DEF Typed, Stored, Taken
<1>6. \A b \in Admins : /\ request'[b].step \in {"idle", "upload", "audit", "notify"}
                        /\ request'[b].change \in 0..changes' /\ request'[b].left \in 0..MaxItems
  BY <1>3 DEF Request
<1>7. backend' \in {"memory", "postgres"} /\ table' \in Tables
  BY DEF IInv, TypeOK
<1>8. Audited' \union made' \union excused' \subseteq 1..changes'
  BY DEF TrailInv
<1> QED BY <1>1, <1>4, <1>5, <1>6, <1>7, <1>8 DEF TypeOK, Stored, Rows, Row, RowUpTo

----------------------------------------------------------------------------
(* The handlers.                                                            *)

\* A handler that has changed the table.
LEMMA OwesFacts ==
  ASSUME NEW n \in Nat, NEW c \in Clients \union {None}, NEW stored \in BOOLEAN
  PROVE  LET r == Owes(n, c, stored) IN
         /\ r \in Request(n) /\ Idle \in Request(n)
         /\ r.step = "audit" /\ r.change = n /\ r.client = c /\ r.left = 0 /\ r.image = None
<1>1. 0 \in 0..MaxItems /\ 0 \in 0..n /\ n \in 0..n
  BY TablesAssumption
<1>2. Idle \in Request(n)
  BY <1>1 DEF Idle, Request
<1>3. Owes(n, c, stored) \in Request(n)
  <2>1. \A q \in Request(n) : [q EXCEPT !.step = "audit", !.change = n, !.client = c, !.stored = stored] \in Request(n)
    BY <1>1 DEF Request
  <2> QED BY <1>2, <2>1 DEF Owes
<1>4. LET r == Owes(n, c, stored) IN
      r.step = "audit" /\ r.change = n /\ r.client = c /\ r.left = 0 /\ r.image = None
  BY DEF Owes, Idle
<1> QED BY <1>2, <1>3, <1>4

\* What a save writes (Upsert... of both stores).
LEMMA RowSavedFacts ==
  ASSUME IInv, NEW i \in Ids, NEW c \in Clients, NEW sent \in Sent(i), NEW n, n = changes + 1
  PROVE  /\ RowSaved(rows, i, c, sent, n) \in RowUpTo(n)
         /\ RowSaved(rows, i, c, sent, n).change = n
         /\ RowSaved(rows, i, c, sent, n).image = rows[i].image
         /\ rows[i] # NoRow /\ (backend = "postgres" \/ (table = "rule" /\ sent \in {None, rows[i].born})) =>
              RowSaved(rows, i, c, sent, n).born = rows[i].born
<1>1. rows[i] \in {NoRow} \union RowUpTo(changes) /\ changes \in Nat
  BY DEF IInv, TypeOK, Row, RowUpTo
<1>2. rows[i].image \in BOOLEAN /\ rows[i].born \in Nat
  <2>1. rows[i] \in AnyRow
    BY <1>1, RowFacts
  <2> QED BY <2>1 DEF AnyRow
<1>3. (IF rows[i] = NoRow THEN BornFirst(sent, n) ELSE BornAgain(rows[i], sent, n)) \in Nat
  <2>1. n \in Nat /\ (sent = None \/ sent \in Nat)
    <3>1. Ages \subseteq Nat
      BY TablesAssumption
    <3>2. rows[i].born \in Nat /\ changes + 1 \in Nat
      BY <1>1, <1>2
    <3> QED BY <3>1, <3>2 DEF Sent
  <2> QED BY <1>2, <2>1 DEF BornFirst, BornAgain
<1> QED BY <1>1, <1>2, <1>3 DEF RowSaved, RowUpTo, BornAgain

LEMMA SaveKeepsInv ==
  ASSUME IInv, NEW a \in Admins, NEW c \in Clients, NEW i \in Ids, NEW sent \in Sent(i), NEW outcome \in Outcomes,
         Save(a, c, i, sent, outcome)
  PROVE  IInv'
<1> DEFINE n == changes + 1
           stored == Stores(c, outcome)
           row == RowSaved(rows, i, c, sent, n)
           r == Owes(n, c, stored)
<1>0. /\ changes \in Nat /\ n \in Nat \ {0} /\ changes <= n /\ made \subseteq 1..changes /\ disk \subseteq Ids \ Seeds
      /\ Taken \union excused \subseteq 1..changes /\ rows \in [Ids -> {NoRow} \union Row] /\ hushed \in BOOLEAN
      /\ request \in [Admins -> Request(changes)]
  BY Counted DEF IInv, TypeOK, Typed
<1>1. /\ request[a] = Idle /\ changes < MaxChanges /\ changes' = n
      /\ Upsert(i, row, stored, outcome) /\ Spend(outcome)
      /\ made' = (IF stored THEN made \union {n} ELSE made)
      /\ excused' = (IF stored THEN excused ELSE excused \union {n})
      /\ request' = [request EXCEPT ![a] = r]
      /\ UNCHANGED <<backend, table, disk, published, trail, since, hushed>> /\ Taken' = Taken
  BY DEF Save, Taken
<1>2. /\ r.step = "audit" /\ r.change = n /\ r.client = c /\ r.left = 0 /\ r.image = None
      /\ stored \in BOOLEAN /\ r \in Request(n)
  <2>1. stored \in BOOLEAN
    BY DEF Stores
  <2> QED BY <1>0, <2>1, OwesFacts
<1>3. row \in RowUpTo(n) /\ row.change = n /\ row.image = rows[i].image
  BY RowSavedFacts
<1> HIDE DEF n, stored, row, r
<1>4. Stored(n) /\ (stored => rows' = [rows EXCEPT ![i] = row]) /\ (~stored => rows' = rows)
  BY <1>0, <1>1, <1>2, <1>3, UpsertFacts
<1>5. troubles' \in 0..MaxTroubles /\ n <= MaxChanges
  BY <1>0, <1>1, OutcomesFacts, TablesAssumption DEF n
<1>6. Taken' \union made' \union excused' \subseteq 1..n
  <2>1. 1..changes \subseteq 1..n /\ n \in 1..n
    BY <1>0 DEF n
  <2> QED BY <1>0, <1>1, <2>1
<1>7. TypeOK' /\ Typed'
  BY <1>0, <1>1, <1>2, <1>4, <1>5, <1>6, TypesKeep, TrailStays DEF n
<1>8. Apart' /\ \A b \in Admins \ {a} : HandlerInv(b)'
  <2>1. \A j \in Ids : rows'[j] = rows[j] \/ rows'[j].change = n
    BY <1>0, <1>3, <1>4
  <2> QED BY <1>1, <1>2, <2>1, OthersKeep DEF n
<1>9. request'[a] = r /\ \A b \in Admins \ {a} : request'[b] = request[b]
  BY <1>0, <1>1
<1>10. HandlerInv(a)'
  <2>1. Placed(a)' /\ Younger(a)'
    BY <1>0, <1>2, <1>9 DEF Placed, Younger
  <2>2. Truthful(a)'
    BY <1>1, <1>2, <1>9 DEF Truthful
  <2> QED BY <2>1, <2>2 DEF HandlerInv
<1>11. ImagesInv'
  <2>1. ImagesAreThere'
    BY <1>0, <1>1, <1>3, <1>4 DEF IInv, ImagesInv, ImagesAreThere
  <2> QED BY <1>1, <1>4, <2>1 DEF IInv, ImagesInv, ImagesAreThere, Stored
<1>12. NoticeInv'
  BY <1>2, <1>9 DEF NoticeInv, NoticeDue
<1>13. EventInv'
  <2>1. \A m \in made : m \in Taken' \/ m \in excused' \/ \E b \in Admins \ {a} : EventDue(b, m)'
    BY <1>1, <1>9 DEF IInv, EventInv, EventDue, Idle
  <2>2. \A m : m = n => EventDue(a, m)'
    BY <1>2, <1>9 DEF EventDue
  <2> QED BY <1>1, <2>1, <2>2 DEF EventInv
<1>14. TakenTruly'
  BY <1>1 DEF IInv, TakenTruly
<1> QED BY <1>1, <1>4, <1>7, <1>8, <1>10, <1>11, <1>12, <1>13, <1>14, TrailStays DEF IInv, Stored

LEMMA DeleteKeepsInv ==
  ASSUME IInv, NEW a \in Admins, NEW c \in Clients \union {None}, NEW ids \in SUBSET Ids, NEW outcome \in Outcomes,
         Delete(a, c, ids, outcome)
  PROVE  IInv'
<1> DEFINE n == changes + 1
           hit == IF outcome = "failed" THEN {} ELSE Hit(ids, c)
           owes == Counts(hit, outcome)
           r == IF owes THEN Owes(n, c, TRUE) ELSE Idle
<1>0. /\ changes \in Nat /\ n \in Nat \ {0} /\ changes <= n /\ made \subseteq 1..changes /\ disk \subseteq Ids \ Seeds
      /\ Taken \union excused \subseteq 1..changes /\ rows \in [Ids -> {NoRow} \union Row] /\ hushed \in BOOLEAN
      /\ request \in [Admins -> Request(changes)]
  BY Counted DEF IInv, TypeOK, Typed
<1>1. /\ request[a] = Idle /\ changes < MaxChanges /\ changes' = n
      /\ Remove(hit, outcome) /\ Spend(outcome)
      /\ made' = (IF hit # {} THEN made \union {n} ELSE made)
      /\ excused' = (IF hit # {} /\ ~owes THEN excused \union {n} ELSE excused)
      /\ hushed' = (hushed \/ (hit # {} /\ ~owes))
      /\ request' = (IF owes THEN [request EXCEPT ![a] = Owes(n, c, TRUE)] ELSE request)
      /\ UNCHANGED <<backend, table, disk, published, trail, since>> /\ Taken' = Taken
  BY DEF Delete, Taken
<1>2. hit \in SUBSET Used(rows) /\ owes \in BOOLEAN /\ (owes => hit # {})
  BY DEF Hit, Used, Counts
<1>3. /\ r \in Request(n) /\ r.image = None /\ r.stored \in BOOLEAN
      /\ owes => r.step = "audit" /\ r.change = n
      /\ ~owes => r = Idle
  <2>1. r \in Request(n) /\ r.image = None
    BY <1>0, OwesFacts DEF Idle
  <2>2. owes => r.step = "audit" /\ r.change = n
    BY <1>0, OwesFacts
  <2> QED BY <2>1, <2>2 DEF Request
<1> HIDE DEF n, hit, owes
<1>4. request' = [request EXCEPT ![a] = r]
  BY <1>0, <1>1, <1>2
<1> HIDE DEF r
<1>5. /\ Stored(n) /\ (hit = {} => rows' = rows)
      /\ rows' = [i \in Ids |-> IF i \in hit THEN NoRow ELSE rows[i]]
  BY <1>0, <1>1, <1>2, RemoveFacts
<1>6. troubles' \in 0..MaxTroubles /\ n <= MaxChanges
  BY <1>0, <1>1, OutcomesFacts, TablesAssumption DEF n
<1>7. Taken' \union made' \union excused' \subseteq 1..n
  <2>1. 1..changes \subseteq 1..n /\ n \in 1..n
    BY <1>0 DEF n
  <2> QED BY <1>0, <1>1, <2>1
<1>8. hushed' \in BOOLEAN
  BY <1>0, <1>1, <1>2
<1>9. TypeOK' /\ Typed'
  BY <1>0, <1>1, <1>3, <1>4, <1>5, <1>6, <1>7, <1>8, TypesKeep, TrailStays DEF n
<1>10. Apart' /\ \A b \in Admins \ {a} : HandlerInv(b)'
  <2>1. \A j \in Ids : rows'[j] \in {rows[j], NoRow}
    BY <1>5
  <2>2. r = Idle \/ r.change = n
    BY <1>2, <1>3
  <2> QED BY <1>1, <1>3, <1>4, <2>1, <2>2, OthersKeep DEF n
<1>11. request'[a] = r /\ \A b \in Admins \ {a} : request'[b] = request[b]
  BY <1>0, <1>4
<1>12. HandlerInv(a)'
  <2>1. Placed(a)' /\ Younger(a)'
    <3>1. request'[a].image = None /\ (request'[a] = Idle \/ (request'[a].step = "audit" /\ request'[a].change # 0))
      BY <1>0, <1>2, <1>3, <1>11
    <3>2. Idle.step = "idle"
      BY DEF Idle
    <3>3. Younger(a)'
      BY <3>1 DEF Younger
    <3>4. Placed(a)'
      BY <3>1, <3>2 DEF Placed
    <3> QED BY <3>3, <3>4
  <2>2. Truthful(a)'
    <3>1. request'[a].step = "idle" \/ (request'[a].step = "audit" /\ request'[a].change \in made')
      <4>1. CASE owes
        <5>1. n \in made'
          BY <1>1, <1>2, <4>1
        <5>2. r.step = "audit" /\ r.change = n
          BY <1>3, <4>1
        <5> QED BY <1>11, <5>1, <5>2
      <4>2. CASE ~owes
        BY <1>3, <1>11, <4>2 DEF Idle
      <4> QED BY <1>2, <4>1, <4>2
    <3> QED BY <3>1 DEF Truthful
  <2> QED BY <2>1, <2>2 DEF HandlerInv
<1>13. ImagesInv'
  <2>1. ImagesAreThere'
    BY <1>0, <1>1, <1>5, RowFacts DEF IInv, ImagesInv, ImagesAreThere
  <2> QED BY <1>1, <1>5, <2>1 DEF IInv, ImagesInv, ImagesAreThere, Stored
<1>14. NoticeInv'
  <2>1. CASE owes
    BY <1>3, <1>11, <2>1 DEF NoticeInv, NoticeDue
  <2>2. CASE ~owes /\ hit # {}
    BY <1>1, <2>2 DEF NoticeInv
  <2>3. CASE ~owes /\ hit = {}
    <3>1. ASSUME NEW b \in Admins, NoticeDue(b)
          PROVE  NoticeDue(b)'
      <4>1. b # a
        BY <1>1, <3>1 DEF NoticeDue, Idle
      <4> QED BY <1>11, <3>1, <4>1 DEF NoticeDue
    <3> QED BY <1>1, <1>5, <2>3, <3>1 DEF IInv, NoticeInv
  <2> QED BY <1>2, <2>1, <2>2, <2>3
<1>15. EventInv'
  <2>1. \A m \in made : m \in Taken' \/ m \in excused' \/ \E b \in Admins \ {a} : EventDue(b, m)'
    BY <1>1, <1>11 DEF IInv, EventInv, EventDue, Idle
  <2>2. owes => \A m : m = n => EventDue(a, m)'
    BY <1>3, <1>11 DEF EventDue
  <2> QED BY <1>1, <2>1, <2>2 DEF EventInv
<1>16. TakenTruly'
  BY <1>1 DEF IInv, TakenTruly
<1> QED BY <1>1, <1>5, <1>9, <1>10, <1>12, <1>13, <1>14, <1>15, <1>16, TrailStays DEF IInv, Stored

LEMMA StoreUntouched ==
  ASSUME IInv, NEW n \in Nat, changes <= n, UNCHANGED <<backend, table, rows, forgotten, file, kept, behind>>
  PROVE  Stored(n)
<1>1. changes \in Nat /\ kept \in Content(n) /\ rows \in Rows(n) /\ forgotten \subseteq Seeds \ Used(rows) /\ behind \in BOOLEAN
  <2>1. changes \in Nat /\ kept \in Content(changes) /\ rows \in Rows(changes)
    BY DEF IInv, TypeOK, Typed, Rows, Row, RowUpTo
  <2> QED BY <2>1, TablesGrow DEF IInv, TypeOK, Typed
<1>2. FileInv'
  BY DEF IInv, FileInv, KeepsFile, Used
<1> QED BY <1>1, <1>2 DEF Stored, Used

\* What is true of the state and of the handler at work before every step.
LEMMA Before ==
  ASSUME IInv, NEW a \in Admins
  PROVE  /\ changes \in 0..MaxChanges /\ changes \in Nat /\ troubles \in 0..MaxTroubles
         /\ made \subseteq 1..changes /\ Taken \union excused \subseteq 1..changes
         /\ disk \subseteq Ids \ Seeds /\ rows \in Rows(changes) /\ hushed \in BOOLEAN
         /\ request \in [Admins -> Request(changes)] /\ request[a] \in Request(changes)
         /\ HandlerInv(a)
BY Counted DEF IInv, TypeOK, Typed, Rows, Row, RowUpTo

\* What the steps of a handler make of its record.
StartedOf(n, c, k) == [Idle EXCEPT !.step = "upload", !.change = n, !.client = c, !.left = k]
WrittenOf(q, i) == [q EXCEPT !.image = i]
ItemOf(q, l, b) == [q EXCEPT !.image = None, !.left = l, !.stored = b]
AuditedOf(q) == [q EXCEPT !.step = "notify"]

LEMMA StartedFacts ==
  ASSUME NEW n \in Nat, NEW c \in Clients, NEW k \in 1..MaxItems, NEW r, r = StartedOf(n, c, k)
  PROVE  r \in Request(n) /\ r.step = "upload" /\ r.change = n /\ r.client = c /\ r.left = k /\ r.image = None
<1>1. r = [step |-> "upload", change |-> n, client |-> c, left |-> k, image |-> None, stored |-> FALSE]
  BY DEF StartedOf, Idle
<1>2. n \in 0..n /\ k \in 0..MaxItems
  BY TablesAssumption
<1> QED BY <1>1, <1>2 DEF Request

LEMMA WrittenFacts ==
  ASSUME NEW n \in Nat, NEW q \in Request(n), NEW i \in Ids, NEW r, r = WrittenOf(q, i)
  PROVE  /\ r \in Request(n) /\ r.step = q.step /\ r.change = q.change /\ r.client = q.client /\ r.left = q.left
         /\ r.image = i /\ r.stored = q.stored
BY DEF Request, WrittenOf

LEMMA ItemFacts ==
  ASSUME NEW n \in Nat, NEW q \in Request(n), NEW l \in 0..MaxItems, NEW b \in BOOLEAN, NEW r, r = ItemOf(q, l, b)
  PROVE  /\ r \in Request(n) /\ r.step = q.step /\ r.change = q.change /\ r.client = q.client /\ r.left = l
         /\ r.image = None /\ r.stored = b
BY DEF Request, ItemOf

LEMMA AuditedFacts ==
  ASSUME NEW n \in Nat, NEW q \in Request(n), NEW r, r = AuditedOf(q)
  PROVE  r \in Request(n) /\ r.step = "notify" /\ r.change = q.change /\ r.image = q.image
BY DEF Request, AuditedOf

LEMMA StartUploadKeepsInv ==
  ASSUME IInv, NEW a \in Admins, NEW c \in Clients, NEW k \in 1..MaxItems, StartUpload(a, c, k)
  PROVE  IInv'
<1> DEFINE n == changes + 1
           r == StartedOf(n, c, k)
<1>0. /\ changes \in 0..MaxChanges /\ n \in Nat \ {0} /\ changes <= n /\ made \subseteq 1..changes
      /\ Taken \union excused \subseteq 1..changes /\ disk \subseteq Ids \ Seeds
      /\ hushed \in BOOLEAN /\ troubles \in 0..MaxTroubles /\ request \in [Admins -> Request(changes)]
  BY Before, TablesAssumption
<1>1. /\ table = "resource" /\ request[a] = Idle /\ changes < MaxChanges /\ changes' = n
      /\ request' = [request EXCEPT ![a] = r]
      /\ UNCHANGED <<backend, table, rows, forgotten, file, disk, published, trail, since, made, kept, behind, hushed, excused, troubles>>
      /\ Taken' = Taken
  BY DEF StartUpload, StartedOf, control, history, Taken
<1>2. r \in Request(n) /\ r.step = "upload" /\ r.change = n /\ r.client = c /\ r.left = k /\ r.image = None
  <2>1. n \in Nat /\ r = StartedOf(n, c, k)
    BY <1>0
  <2> HIDE DEF n, r
  <2> QED BY <2>1, StartedFacts
<1> HIDE DEF n, r
<1>3. Stored(n)
  BY <1>0, <1>1, StoreUntouched
<1>4. TypeOK' /\ Typed'
  <2>1. Taken \union made \union excused \subseteq 1..n /\ n <= MaxChanges
    BY <1>0, <1>1, TablesAssumption DEF n
  <2> QED BY <1>0, <1>1, <1>2, <1>3, <2>1, TypesKeep, TrailStays DEF n
<1>5. Apart' /\ \A b \in Admins \ {a} : HandlerInv(b)'
  BY <1>1, <1>2, OthersKeep DEF n
<1>6. request'[a] = r /\ \A b \in Admins \ {a} : request'[b] = request[b]
  BY <1>0, <1>1
<1>7. HandlerInv(a)'
  <2>1. Placed(a)' /\ Younger(a)'
    BY <1>0, <1>1, <1>2, <1>6 DEF Placed, Younger
  <2>2. n \notin made /\ k # 0
    BY <1>0 DEF n
  <2>3. Truthful(a)'
    BY <1>1, <1>2, <1>6, <2>2 DEF Truthful
  <2> QED BY <2>1, <2>3 DEF HandlerInv
<1>8. ImagesInv' /\ TakenTruly'
  BY <1>1 DEF IInv, ImagesInv, ImagesAreThere, TakenTruly
<1>9. \A b \in Admins : AtWork(b) => request'[b] = request[b]
  BY <1>1, <1>6 DEF AtWork, Idle
<1>10. NoticeInv'
  BY <1>1, <1>9 DEF IInv, NoticeInv, NoticeDue, AtWork
<1>11. EventInv'
  BY <1>1, <1>9 DEF IInv, EventInv, EventDue, AtWork
<1> QED BY <1>1, <1>3, <1>4, <1>5, <1>7, <1>8, <1>10, <1>11, TrailStays DEF IInv, Stored

LEMMA WriteImageKeepsInv ==
  ASSUME IInv, NEW a \in Admins, NEW i \in Ids, WriteImage(a, i)
  PROVE  IInv'
<1> DEFINE q == request[a]
           r == WrittenOf(q, i)
<1>0. /\ changes \in 0..MaxChanges /\ changes \in Nat /\ made \subseteq 1..changes
      /\ Taken \union excused \subseteq 1..changes /\ disk \subseteq Ids \ Seeds
      /\ hushed \in BOOLEAN /\ troubles \in 0..MaxTroubles /\ request \in [Admins -> Request(changes)]
      /\ q \in Request(changes) /\ HandlerInv(a)
  BY Before
<1>1. /\ q.step = "upload" /\ q.left > 0 /\ q.image = None
      /\ i \in Ids \ Seeds /\ rows[i] = NoRow /\ i \notin disk
      /\ disk' = disk \union {i} /\ request' = [request EXCEPT ![a] = r]
      /\ UNCHANGED <<backend, table, rows, forgotten, file, published, trail, since, changes, made, kept, behind, hushed, excused, troubles>>
      /\ Taken' = Taken
  BY DEF WriteImage, WrittenOf, history, Fresh, Written, Taken
<1>2. /\ r \in Request(changes) /\ r.step = "upload" /\ r.change = q.change /\ r.client = q.client /\ r.left = q.left
      /\ r.image = i /\ r.stored = q.stored
  BY <1>0, <1>1, WrittenFacts
<1> HIDE DEF q, r
<1>3. Stored(changes)
  BY <1>0, <1>1, StoreUntouched
<1>4. TypeOK' /\ Typed'
  <2>1. disk' \subseteq Ids \ Seeds /\ changes <= MaxChanges
    BY <1>0, <1>1
  <2> QED BY <1>0, <1>1, <1>2, <1>3, <2>1, TypesKeep, TrailStays
<1>5. Apart' /\ \A b \in Admins \ {a} : HandlerInv(b)'
  BY <1>1, <1>2, OthersKeep DEF AtWork, q
<1>6. request'[a] = r /\ \A b \in Admins \ {a} : request'[b] = request[b]
  BY <1>0, <1>1
<1>7. HandlerInv(a)'
  <2>1. Placed(a)'
    BY <1>0, <1>1, <1>2, <1>6 DEF HandlerInv, Placed, q
  <2>2. Younger(a)'
    BY <1>1, <1>2, <1>6 DEF Younger
  <2>3. Truthful(a)'
    BY <1>0, <1>1, <1>2, <1>6 DEF HandlerInv, Truthful, q
  <2> QED BY <2>1, <2>2, <2>3 DEF HandlerInv
<1>8. ImagesInv' /\ TakenTruly'
  BY <1>1 DEF IInv, ImagesInv, ImagesAreThere, TakenTruly
<1>9. \A b \in Admins : /\ NoticeDue(b) => NoticeDue(b)'
                        /\ \A m \in made : EventDue(b, m) => EventDue(b, m)'
  BY <1>1, <1>2, <1>6 DEF NoticeDue, EventDue, q
<1>10. NoticeInv' /\ EventInv'
  BY <1>1, <1>9 DEF IInv, NoticeInv, EventInv
<1> QED BY <1>1, <1>3, <1>4, <1>5, <1>7, <1>8, <1>10, TrailStays DEF IInv, Stored

LEMMA StoreItemKeepsInv ==
  ASSUME IInv, NEW a \in Admins, NEW outcome \in Outcomes, StoreItem(a, outcome)
  PROVE  IInv'
<1> DEFINE q == request[a]
           stored == Stores(q.client, outcome)
           i == q.image
           row == [client |-> q.client, change |-> q.change, born |-> q.change, image |-> TRUE]
<1>0. /\ changes \in 0..MaxChanges /\ changes \in Nat /\ made \subseteq 1..changes
      /\ Taken \union excused \subseteq 1..changes /\ disk \subseteq Ids \ Seeds
      /\ hushed \in BOOLEAN /\ request \in [Admins -> Request(changes)] /\ rows \in Rows(changes)
      /\ q \in Request(changes) /\ HandlerInv(a)
  BY Before
<1>1. /\ q.step = "upload" /\ q.image # None
      /\ Upsert(i, row, stored, outcome) /\ Spend(outcome)
      /\ made' = (IF stored THEN made \union {q.change} ELSE made)
      /\ excused' = (IF stored THEN excused ELSE excused \union {q.change})
      /\ request' = [request EXCEPT ![a] = [q EXCEPT !.image = None, !.left = @ - 1, !.stored = @ \/ stored]]
      /\ UNCHANGED <<backend, table, disk, published, trail, since, changes, hushed>> /\ Taken' = Taken
  BY <1>0 DEF StoreItem, Taken
<1>2. /\ i \in Ids \intersect disk /\ q.client \in Clients /\ q.change \in 1..changes /\ stored \in BOOLEAN
      /\ row \in RowUpTo(changes) /\ row.image = TRUE
  <2>1. i \in Ids \intersect disk /\ q.client \in Clients /\ q.change \in 1..changes
    BY <1>0, <1>1 DEF HandlerInv, Placed, Request
  <2>2. q.change \in 0..changes
    BY <2>1
  <2> QED BY <2>1, <2>2 DEF RowUpTo, Stores
<1> HIDE DEF q, row, i, stored
<1>3. PICK l \in 0..MaxItems, b \in BOOLEAN : l = q.left - 1 /\ b = (q.stored \/ stored)
  <2>1. q.left - 1 \in 0..MaxItems
    BY <1>0, <1>1, TablesAssumption DEF HandlerInv, Placed, Request, q
  <2>2. (q.stored \/ stored) \in BOOLEAN
    OBVIOUS
  <2> QED BY <2>1, <2>2
<1>4. PICK r : r = ItemOf(q, l, b)
  OBVIOUS
<1>5. /\ request' = [request EXCEPT ![a] = r]
      /\ r \in Request(changes) /\ r.step = "upload" /\ r.change = q.change /\ r.client = q.client /\ r.left = l
      /\ r.image = None /\ r.stored = b
  <2>1. [q EXCEPT !.image = None, !.left = @ - 1, !.stored = @ \/ stored] = r
    <3>1. \A d : d = b => [q EXCEPT !.image = None, !.left = l, !.stored = d] = r
      BY <1>4 DEF ItemOf
    <3> QED BY <1>3, <3>1
  <2>2. request' = [request EXCEPT ![a] = r]
    BY <1>1, <2>1
  <2>3. q \in Request(changes) /\ changes \in Nat /\ q.step = "upload"
    BY <1>0, <1>1
  <2>4. /\ r \in Request(changes) /\ r.step = q.step /\ r.change = q.change /\ r.client = q.client /\ r.left = l
        /\ r.image = None /\ r.stored = b
    BY <1>4, <2>3, ItemFacts
  <2> QED BY <2>2, <2>3, <2>4
<1>6. /\ Stored(changes)
      /\ stored => rows' = [rows EXCEPT ![i] = row]
      /\ ~stored => rows' = rows
  BY <1>0, <1>1, <1>2, UpsertFacts
<1>7. TypeOK' /\ Typed'
  <2>1. troubles' \in 0..MaxTroubles /\ changes <= MaxChanges
    BY <1>0, <1>1, OutcomesFacts
  <2>2. Taken' \union made' \union excused' \subseteq 1..changes
    BY <1>0, <1>1, <1>2
  <2> QED BY <1>0, <1>1, <1>5, <1>6, <2>1, <2>2, TypesKeep, TrailStays
<1>8. Apart' /\ \A d \in Admins \ {a} : HandlerInv(d)'
  <2>1. \A j \in Ids : rows'[j] = rows[j] \/ j = i
    BY <1>0, <1>6 DEF Rows
  <2>2. AtWork(a) /\ i = request[a].image
    BY <1>1 DEF AtWork, q, i
  <2> QED BY <1>1, <1>2, <1>5, <2>1, <2>2, OthersKeep DEF q
<1>9. request'[a] = r /\ \A d \in Admins \ {a} : request'[d] = request[d]
  BY <1>0, <1>5
<1>10. HandlerInv(a)'
  <2>1. Placed(a)' /\ Younger(a)'
    BY <1>0, <1>1, <1>2, <1>5, <1>9 DEF HandlerInv, Placed, Younger, q
  <2>2. q.change \in made' \union excused'
    BY <1>1, <1>2
  <2>3. ~b => q.change \notin made'
    BY <1>0, <1>1, <1>3 DEF HandlerInv, Truthful, q
  <2>4. Truthful(a)'
    BY <1>5, <1>9, <2>2, <2>3 DEF Truthful
  <2> QED BY <2>1, <2>4 DEF HandlerInv
<1>11. ImagesInv' /\ TakenTruly'
  <2>1. ImagesAreThere'
    BY <1>0, <1>1, <1>2, <1>6 DEF IInv, ImagesInv, ImagesAreThere, Rows
  <2> QED BY <1>1, <1>6, <2>1 DEF IInv, ImagesInv, ImagesAreThere, TakenTruly, Stored
<1>12. NoticeInv'
  <2>1. stored => NoticeDue(a)'
    BY <1>3, <1>5, <1>9 DEF NoticeDue
  <2>2. \A d \in Admins : NoticeDue(d) => NoticeDue(d)'
    BY <1>1, <1>3, <1>5, <1>9 DEF NoticeDue, q
  <2> QED BY <1>1, <1>6, <2>1, <2>2 DEF IInv, NoticeInv
<1>13. EventInv'
  <2>1. \A d \in Admins : \A m \in made : EventDue(d, m) => EventDue(d, m)'
    BY <1>1, <1>5, <1>9 DEF EventDue, q
  <2>2. \A m : m = q.change => EventDue(a, m)'
    BY <1>5, <1>9 DEF EventDue
  <2> QED BY <1>1, <2>1, <2>2 DEF IInv, EventInv
<1> QED BY <1>1, <1>6, <1>7, <1>8, <1>10, <1>11, <1>12, <1>13, TrailStays DEF IInv, Stored

LEMMA BreakOffUploadKeepsInv ==
  ASSUME IInv, NEW a \in Admins, BreakOffUpload(a)
  PROVE  IInv'
<1> DEFINE q == request[a]
<1>0. /\ changes \in 0..MaxChanges /\ changes \in Nat /\ troubles \in 0..MaxTroubles /\ made \subseteq 1..changes
      /\ Taken \union excused \subseteq 1..changes /\ disk \subseteq Ids \ Seeds
      /\ hushed \in BOOLEAN /\ request \in [Admins -> Request(changes)]
      /\ q \in Request(changes) /\ HandlerInv(a)
  BY Before
<1>1. /\ q.step = "upload" /\ request' = [request EXCEPT ![a] = Idle]
      /\ hushed' = (hushed \/ q.stored)
      /\ excused' = (IF q.stored THEN excused \union {q.change} ELSE excused)
      /\ UNCHANGED <<backend, table, rows, forgotten, file, disk, published, trail, since, changes, made, kept, behind, troubles>>
      /\ Taken' = Taken
  BY DEF BreakOffUpload, control, Taken
<1>2. /\ q.change \in 1..changes /\ q.stored \in BOOLEAN
      /\ Idle \in Request(changes) /\ Idle.step = "idle" /\ Idle.image = None
  <2>1. q.change \in 0..changes /\ q.change # 0 /\ q.stored \in BOOLEAN
    BY <1>0, <1>1 DEF HandlerInv, Placed, Request
  <2>2. Idle \in Request(changes)
    BY <1>0, OwesFacts
  <2> QED BY <1>0, <2>1, <2>2 DEF Idle
<1>3. q.stored = FALSE => q.change \notin made
  BY <1>0, <1>1 DEF HandlerInv, Truthful
<1> HIDE DEF q
<1>4. Stored(changes)
  BY <1>0, <1>1, StoreUntouched
<1>5. TypeOK' /\ Typed'
  <2>1. Taken \union made \union excused' \subseteq 1..changes
    BY <1>1, <1>2, Counted
  <2>2. hushed' \in BOOLEAN /\ changes <= MaxChanges
    BY <1>0, <1>1, <1>2
  <2> QED BY <1>0, <1>1, <1>2, <1>4, <2>1, <2>2, TypesKeep, TrailStays
<1>6. Apart' /\ \A b \in Admins \ {a} : HandlerInv(b)'
  <2>1. excused \subseteq excused' /\ AtWork(a)
    BY <1>1 DEF AtWork, q
  <2> QED BY <1>1, <1>2, <2>1, OthersKeep DEF q
<1>7. request'[a] = Idle /\ \A b \in Admins \ {a} : request'[b] = request[b]
  BY <1>0, <1>1
<1>8. HandlerInv(a)'
  BY <1>2, <1>7 DEF HandlerInv, Placed, Truthful, Younger
<1>9. ImagesInv' /\ TakenTruly'
  BY <1>1 DEF IInv, ImagesInv, ImagesAreThere, TakenTruly
<1>10. NoticeInv'
  <2>1. \A b \in Admins : NoticeDue(b) => hushed' \/ NoticeDue(b)'
    BY <1>1, <1>7 DEF NoticeDue, q
  <2> QED BY <1>1, <2>1 DEF IInv, NoticeInv
<1>11. EventInv'
  <2>1. \A b \in Admins : \A m \in made : EventDue(b, m) => m \in excused' \/ EventDue(b, m)'
    BY <1>1, <1>2, <1>3, <1>7 DEF EventDue, q
  <2> QED BY <1>1, <2>1 DEF IInv, EventInv
<1> QED BY <1>1, <1>4, <1>5, <1>6, <1>8, <1>9, <1>10, <1>11, TrailStays DEF IInv, Stored

LEMMA FinishUploadKeepsInv ==
  ASSUME IInv, NEW a \in Admins, FinishUpload(a)
  PROVE  IInv'
<1> DEFINE q == request[a]
           r == Owes(q.change, q.client, q.stored)
<1>0. /\ changes \in 0..MaxChanges /\ changes \in Nat /\ troubles \in 0..MaxTroubles /\ made \subseteq 1..changes
      /\ Taken \union excused \subseteq 1..changes /\ disk \subseteq Ids \ Seeds
      /\ hushed \in BOOLEAN /\ request \in [Admins -> Request(changes)]
      /\ q \in Request(changes) /\ HandlerInv(a)
  BY Before
<1>1. /\ q.step = "upload" /\ q.left = 0 /\ request' = [request EXCEPT ![a] = r]
      /\ UNCHANGED <<backend, table, rows, forgotten, file, disk, published, trail, since, changes, made, kept, behind, hushed, excused, troubles>>
      /\ Taken' = Taken
  BY DEF FinishUpload, control, history, Taken
<1>2. q.change \in 1..changes /\ q.client \in Clients /\ q.stored \in BOOLEAN /\ q.change \in made \union excused
  <2>1. q.change \in 0..changes /\ q.change # 0 /\ q.stored \in BOOLEAN /\ q.client \in Clients
    BY <1>0, <1>1 DEF HandlerInv, Placed, Request
  <2>2. q.change \in made \union excused
    BY <1>0, <1>1 DEF HandlerInv, Truthful
  <2> QED BY <1>0, <2>1, <2>2
<1>3. r \in Request(changes) /\ r.step = "audit" /\ r.change = q.change /\ r.image = None
  <2> DEFINE n == q.change
  <2>1. n \in Nat /\ 0..n \subseteq 0..changes
    BY <1>0, <1>2
  <2>2. r \in Request(n) /\ r.step = "audit" /\ r.change = n /\ r.image = None
    BY <1>2, <2>1, OwesFacts
  <2> QED BY <2>1, <2>2 DEF Request
<1> HIDE DEF q, r
<1>4. Stored(changes)
  BY <1>0, <1>1, StoreUntouched
<1>5. TypeOK' /\ Typed'
  <2>1. Taken \union made \union excused \subseteq 1..changes /\ changes <= MaxChanges
    BY TablesAssumption, <1>0
  <2> QED BY <1>0, <1>1, <1>3, <1>4, <2>1, TypesKeep, TrailStays
<1>6. Apart' /\ \A b \in Admins \ {a} : HandlerInv(b)'
  BY <1>1, <1>3, OthersKeep DEF AtWork, q
<1>7. request'[a] = r /\ \A b \in Admins \ {a} : request'[b] = request[b]
  BY <1>0, <1>1
<1>8. HandlerInv(a)'
  <2>1. Placed(a)' /\ Younger(a)'
    BY <1>2, <1>3, <1>7 DEF Placed, Younger
  <2>2. Truthful(a)'
    BY <1>1, <1>2, <1>3, <1>7 DEF Truthful
  <2> QED BY <2>1, <2>2 DEF HandlerInv
<1>9. ImagesInv' /\ TakenTruly'
  BY <1>1 DEF IInv, ImagesInv, ImagesAreThere, TakenTruly
<1>10. \A b \in Admins : /\ NoticeDue(b) => NoticeDue(b)'
                         /\ \A m \in made : EventDue(b, m) => EventDue(b, m)'
  BY <1>1, <1>3, <1>7 DEF NoticeDue, EventDue, q
<1>11. NoticeInv' /\ EventInv'
  BY <1>1, <1>10 DEF IInv, NoticeInv, EventInv
<1> QED BY <1>1, <1>4, <1>5, <1>6, <1>8, <1>9, <1>11, TrailStays DEF IInv, Stored

\* A step that touches but the trail.
LEMMA RestStays ==
  ASSUME IInv, Taken' = Taken, TrailInv',
         UNCHANGED <<backend, table, rows, forgotten, file, disk, request, changes, published, made, kept, behind,
                     hushed, excused, troubles>>
  PROVE  IInv'
<1>1. TypeOK' /\ Typed'
  <2>1. Audited' \subseteq 1..changes
    BY DEF IInv, Typed, TrailInv
  <2> QED BY <2>1 DEF IInv, TypeOK, Typed, Used, Row, Taken
<1>2. FileInv' /\ ImagesInv'
  BY DEF IInv, FileInv, KeepsFile, Used, ImagesInv, ImagesAreThere
<1>3. NoticeInv' /\ EventInv' /\ TakenTruly'
  BY DEF IInv, NoticeInv, NoticeDue, EventInv, EventDue, TakenTruly
<1>4. Apart' /\ \A a \in Admins : HandlerInv(a)'
  BY DEF IInv, Apart, AtWork, HandlerInv, Placed, Truthful, Younger
<1> QED BY <1>1, <1>2, <1>3, <1>4 DEF IInv

LEMMA AuditKeepsInv ==
  ASSUME IInv, NEW a \in Admins, NEW outcome \in Outcomes, Audit(a, outcome)
  PROVE  IInv'
<1> DEFINE q == request[a]
           r == AuditedOf(q)
           taken == outcome # "failed"
<1>0. /\ changes \in 0..MaxChanges /\ changes \in Nat /\ made \subseteq 1..changes
      /\ Taken \union excused \subseteq 1..changes /\ disk \subseteq Ids \ Seeds
      /\ hushed \in BOOLEAN /\ request \in [Admins -> Request(changes)]
      /\ q \in Request(changes) /\ HandlerInv(a)
  BY Before
<1>1. /\ q.step = "audit" /\ Spend(outcome) /\ request' = [request EXCEPT ![a] = r]
      /\ Taken' = (IF taken THEN Taken \union {q.change} ELSE Taken)
      /\ taken => /\ trail' = Added(q.change)
                  /\ \A m \in Taken' : since'[m] = IF m = q.change THEN 0 ELSE Older[m]
      /\ ~taken => UNCHANGED <<trail, since>>
      /\ excused' = (IF taken THEN excused ELSE excused \union {q.change})
      /\ UNCHANGED <<backend, table, rows, forgotten, file, disk, published, changes, made, kept, behind, hushed>>
  BY DEF Audit, AuditedOf, Taken
<1>2. q.change \in 1..changes /\ q.change \in made \union excused /\ q.image = None
  <2>1. q.change \in 0..changes /\ q.change # 0 /\ q.image = None
    BY <1>0, <1>1 DEF HandlerInv, Placed, Request
  <2>2. q.change \in made \union excused
    BY <1>0, <1>1 DEF HandlerInv, Truthful
  <2> QED BY <1>0, <2>1, <2>2
<1>3. r \in Request(changes) /\ r.step = "notify" /\ r.change = q.change /\ r.image = None
  <2> HIDE DEF q
  <2> QED BY <1>0, <1>2, AuditedFacts
<1> HIDE DEF q, r, taken
<1>12. TrailInv'
  <2>1. CASE taken
    <3>1. q.change \in Nat /\ Taken' = Taken \union ({q.change} \ {0})
      BY <1>0, <1>1, <1>2, <2>1
    <3> QED BY <1>1, <2>1, <3>1, EventAdded
  <2>2. CASE ~taken
    BY <1>1, <2>2, TrailStays
  <2> QED BY <2>1, <2>2
<1>4. Stored(changes)
  BY <1>0, <1>1, StoreUntouched
<1>5. TypeOK' /\ Typed'
  <2>1. Taken' \union made \union excused' \subseteq 1..changes /\ changes <= MaxChanges
    BY TablesAssumption, <1>0, <1>1, <1>2
  <2>2. troubles' \in 0..MaxTroubles
    BY <1>1, OutcomesFacts
  <2> QED BY <1>0, <1>1, <1>3, <1>4, <2>1, <2>2, <1>12, TypesKeep
<1>6. Apart' /\ \A b \in Admins \ {a} : HandlerInv(b)'
  <2>1. excused \subseteq excused' /\ AtWork(a)
    BY <1>1 DEF AtWork, q
  <2> QED BY <1>1, <1>3, <2>1, OthersKeep DEF q
<1>7. request'[a] = r /\ \A b \in Admins \ {a} : request'[b] = request[b]
  BY <1>0, <1>1
<1>8. HandlerInv(a)'
  BY <1>2, <1>3, <1>7 DEF HandlerInv, Placed, Younger, Truthful
<1>9. ImagesInv' /\ TakenTruly'
  BY <1>1, <1>2 DEF IInv, ImagesInv, ImagesAreThere, TakenTruly
<1>10. NoticeInv'
  <2>1. \A b \in Admins : NoticeDue(b) => NoticeDue(b)'
    BY <1>3, <1>7 DEF NoticeDue
  <2> QED BY <1>1, <2>1 DEF IInv, NoticeInv
<1>11. EventInv'
  <2>1. \A b \in Admins : \A m \in made :
          EventDue(b, m) => m \in Taken' \/ m \in excused' \/ EventDue(b, m)'
    BY <1>1, <1>7 DEF EventDue, q
  <2> QED BY <1>1, <2>1 DEF IInv, EventInv
<1> QED BY <1>4, <1>5, <1>6, <1>8, <1>9, <1>10, <1>11, <1>12 DEF IInv, Stored

LEMMA OtherEventKeepsInv ==
  ASSUME IInv, OtherEvent
  PROVE  IInv'
<1>1. /\ trail' = Added(0) /\ since' = Older /\ Taken' = Taken
      /\ UNCHANGED <<backend, table, rows, forgotten, file, disk, published, request, changes, made, kept, behind,
                     hushed, excused, troubles>>
  BY DEF OtherEvent, Older, Taken
<1>2. TrailInv'
  <2>1. 0 \notin Taken
    BY DEF IInv, Typed
  <2>2. \A m \in Taken' : since'[m] = IF m = 0 THEN 0 ELSE Older[m]
    BY <1>1, <2>1
  <2> QED BY <1>1, <2>2, EventAdded
<1>3. IInv'
  BY <1>1, <1>2, RestStays
<1> QED BY <1>3

LEMMA NotifyKeepsInv ==
  ASSUME IInv, NEW a \in Admins, Notify(a)
  PROVE  IInv'
<1>0. /\ changes \in 0..MaxChanges /\ changes \in Nat /\ troubles \in 0..MaxTroubles /\ made \subseteq 1..changes
      /\ Taken \union excused \subseteq 1..changes /\ disk \subseteq Ids \ Seeds
      /\ request \in [Admins -> Request(changes)]
  BY Before
<1>1. /\ request[a].step = "notify" /\ published' = rows /\ hushed' = FALSE
      /\ request' = [request EXCEPT ![a] = Idle]
      /\ UNCHANGED <<backend, table, rows, forgotten, file, disk, trail, since, changes, made, kept, behind, excused, troubles>>
      /\ Taken' = Taken
  BY DEF Notify, Told, Taken
<1>2. Idle \in Request(changes) /\ Idle.step = "idle" /\ Idle.image = None
  <2>1. Idle \in Request(changes)
    BY <1>0, OwesFacts
  <2> QED BY <2>1 DEF Idle
<1>3. Stored(changes)
  BY <1>0, <1>1, StoreUntouched
<1>4. TypeOK' /\ Typed'
  <2>1. Taken \union made \union excused \subseteq 1..changes /\ changes <= MaxChanges
    BY TablesAssumption, <1>0
  <2>2. hushed' \in BOOLEAN
    BY <1>1
  <2> QED BY <1>0, <1>1, <1>2, <1>3, <2>1, <2>2, TypesKeep, TrailStays
<1>5. Apart' /\ \A b \in Admins \ {a} : HandlerInv(b)'
  BY <1>1, <1>2, OthersKeep
<1>6. request'[a] = Idle /\ \A b \in Admins \ {a} : request'[b] = request[b]
  BY <1>0, <1>1
<1>7. HandlerInv(a)'
  BY <1>2, <1>6 DEF HandlerInv, Placed, Truthful, Younger
<1>8. ImagesInv' /\ TakenTruly' /\ NoticeInv'
  BY <1>1 DEF IInv, ImagesInv, ImagesAreThere, TakenTruly, NoticeInv
<1>9. EventInv'
  <2>1. \A b \in Admins : \A m \in made : EventDue(b, m) => EventDue(b, m)'
    BY <1>1, <1>6 DEF EventDue
  <2> QED BY <1>1, <2>1 DEF IInv, EventInv
<1> QED BY <1>1, <1>3, <1>4, <1>5, <1>7, <1>8, <1>9, TrailStays DEF IInv, Stored

----------------------------------------------------------------------------
(* Restarts.                                                                *)

\* The file brings back what was written last (loadResourcesFromDisk of memory.go).
LEMMA FileBringsBack ==
  ASSUME IInv, KeepsFile
  PROVE  Load(file) = kept
<1>1. changes \in Nat /\ kept \in Content(changes) /\ kept.forgotten = Seeds \ Used(kept.rows)
  BY DEF IInv, TypeOK, Typed, FileInv
<1>2. CASE file = kept
  BY <1>1, <1>2, LoadFacts
<1>3. CASE file = None /\ kept = [rows |-> Seeded, forgotten |-> {}]
  BY <1>3 DEF Load
<1> QED BY <1>2, <1>3 DEF IInv, FileInv

LEMMA RestartFacts ==
  ASSUME IInv, Restart
  PROVE  /\ rows' \in Rows(changes) /\ forgotten' \subseteq Seeds \ Used(rows')
         /\ FileInv'
         /\ \A i \in Ids : rows'[i].image => i \in disk
         /\ rows' = rows \/ rows' = Seeded \/ (KeepsFile /\ rows' = kept.rows)
         /\ backend = "postgres" \/ table = "rule" => rows' \in {rows, Seeded}
         /\ backend = "postgres" => rows' = rows
<1>1. /\ changes \in Nat /\ kept \in Content(changes) /\ rows \in Rows(changes)
      /\ forgotten \subseteq Seeds \ Used(rows) /\ backend \in {"memory", "postgres"}
  BY DEF IInv, TypeOK, Typed, Rows, Row, RowUpTo
<1>2. behind' = FALSE /\ UNCHANGED <<backend, table, file, disk, changes, kept>>
  BY DEF Restart
<1>3. KeepsFile' <=> KeepsFile
  BY <1>2 DEF KeepsFile
<1>4. CASE KeepsFile
  <2>1. rows' = kept.rows /\ forgotten' = kept.forgotten /\ backend = "memory" /\ table = "resource"
    BY <1>4, FileBringsBack DEF Restart, KeepsFile
  <2>2. /\ kept.rows \in Rows(changes) /\ kept = [rows |-> kept.rows, forgotten |-> kept.forgotten]
        /\ kept.forgotten = Seeds \ Used(kept.rows)
    BY <1>1, <1>4 DEF Content, IInv, FileInv
  <2>3. \A i \in Ids : rows'[i].image => i \in disk
    BY <2>1 DEF IInv, ImagesInv
  <2>4. FileInv'
    <3>1. forgotten' = Seeds \ Used(rows') /\ kept.forgotten = Seeds \ Used(kept.rows)
      BY <2>1, <2>2
    <3>2. file = kept \/ (file = None /\ kept = [rows |-> Seeded, forgotten |-> {}])
      BY <1>4 DEF IInv, FileInv
    <3>3. kept = [rows |-> rows', forgotten |-> forgotten']
      BY <2>1, <2>2
    <3> QED BY <1>2, <1>3, <1>4, <3>1, <3>2, <3>3 DEF FileInv
  <2> QED BY <1>4, <2>1, <2>2, <2>3, <2>4
<1>5. CASE ~KeepsFile /\ backend = "memory"
  <2>1. rows' = Seeded /\ forgotten' = {}
    BY <1>5 DEF Restart, Load
  <2>2. Seeded \in Rows(changes) /\ \A i \in Ids : Seeded[i].image = FALSE
    BY <1>1, SeededFacts
  <2>3. FileInv'
    BY <1>2, <1>3, <1>5, <2>1 DEF IInv, FileInv
  <2> QED BY <1>5, <2>1, <2>2, <2>3
<1>6. CASE backend = "postgres"
  <2>1. rows' = rows /\ forgotten' = forgotten /\ ~KeepsFile
    BY <1>6 DEF Restart, KeepsFile
  <2>2. FileInv'
    BY <1>2, <1>3, <2>1 DEF IInv, FileInv
  <2>3. \A i \in Ids : rows'[i].image => i \in disk
    BY <2>1 DEF IInv, ImagesInv, ImagesAreThere
  <2> QED BY <1>1, <1>6, <2>1, <2>2, <2>3
<1> QED BY <1>1, <1>4, <1>5, <1>6

LEMMA RestartKeepsInv ==
  ASSUME IInv, Restart
  PROVE  IInv'
<1>1. /\ changes \in 0..MaxChanges /\ changes \in Nat /\ troubles \in 0..MaxTroubles
      /\ Taken \union made \union excused \subseteq 1..changes /\ disk \subseteq Ids \ Seeds
      /\ kept \in Content(changes) /\ backend \in {"memory", "postgres"} /\ table \in Tables
  BY Counted DEF IInv, TypeOK, Typed
<1>2. /\ troubles < MaxTroubles /\ troubles' = troubles + 1 /\ request' = [a \in Admins |-> Idle]
      /\ published' = rows' /\ hushed' = FALSE /\ behind' = FALSE
      /\ UNCHANGED <<backend, table, file, disk, changes, kept>>
  BY DEF Restart, MayFail
<1>3. /\ Taken' \subseteq Taken /\ made' \subseteq made /\ excused' \subseteq made \union excused
      /\ Taken' \subseteq made' \union excused'
      /\ \A m \in made' : m \in Taken' \/ m \in excused'
  <2>1. CASE backend = "memory"
    BY <1>1, <2>1 DEF Restart, Taken
  <2>2. CASE backend = "postgres"
    <3>1. Taken' = Taken /\ made' = made /\ excused' = excused \union (made \ Audited)
      BY <2>2 DEF Restart, Taken
    <3> QED BY <1>1, <2>2, <3>1 DEF IInv, TakenTruly, TrailInv
  <2> QED BY <1>1, <2>1, <2>2
<1>12. TrailInv'
  <2>1. CASE backend = "memory"
    <3>1. trail' = <<>> /\ Taken' = {} /\ backend' = "memory"
      BY <2>1 DEF Restart, Taken
    <3> QED BY <3>1, TablesAssumption DEF TrailInv, Audited
  <2>2. CASE backend = "postgres"
    BY <2>2, TrailStays DEF Restart
  <2> QED BY <1>1, <2>1, <2>2
<1>4. Idle \in Request(changes) /\ Idle.step = "idle" /\ Idle.image = None
  <2>1. Idle \in Request(changes)
    BY <1>1, OwesFacts
  <2> QED BY <2>1 DEF Idle
<1>5. rows' \in Rows(changes) /\ forgotten' \subseteq Seeds \ Used(rows') /\ FileInv'
  BY RestartFacts
<1>6. request' \in [Admins -> Request(changes)] /\ \A a \in Admins : request'[a] = Idle
  BY <1>2, <1>4
<1>7. TypeOK'
  <2>1. troubles' \in 0..MaxTroubles
    BY <1>1, <1>2, TablesAssumption
  <2>2. \A a \in Admins : /\ request'[a].step \in {"idle", "upload", "audit", "notify"}
                          /\ request'[a].change \in 0..changes /\ request'[a].left \in 0..MaxItems
    BY <1>6 DEF Request
  <2>3. Taken' \union made' \union excused' \subseteq 1..changes
    BY <1>1, <1>3
  <2>4. Audited' \subseteq 1..changes
    BY <1>12, <2>3 DEF TrailInv
  <2> QED BY <1>1, <1>2, <1>5, <2>1, <2>2, <2>3, <2>4 DEF TypeOK, Rows, Row, RowUpTo
<1>8. Typed'
  <2>1. hushed' \in BOOLEAN /\ behind' \in BOOLEAN
    BY <1>2
  <2>2. Taken' \subseteq 1..changes
    BY <1>1, <1>3
  <2> QED BY <1>1, <1>2, <1>6, <2>1, <2>2 DEF Typed
<1>9. ImagesInv'
  BY <1>2, RestartFacts DEF IInv, ImagesInv, ImagesAreThere
<1>10. Apart' /\ \A a \in Admins : HandlerInv(a)'
  BY <1>4, <1>6 DEF Apart, AtWork, HandlerInv, Placed, Truthful, Younger
<1>11. NoticeInv' /\ EventInv' /\ TakenTruly'
  BY <1>2, <1>3 DEF NoticeInv, EventInv, TakenTruly
<1> QED BY <1>5, <1>7, <1>8, <1>9, <1>10, <1>11, <1>12 DEF IInv

----------------------------------------------------------------------------
(* The theorems.                                                            *)

LEMMA InitInv == Init => IInv
<1> SUFFICES ASSUME Init PROVE IInv
  OBVIOUS
<1>1. /\ backend \in {"memory", "postgres"} /\ table \in Tables
      /\ rows = Seeded /\ forgotten = {} /\ file = None /\ disk = {}
      /\ request = [a \in Admins |-> Idle] /\ changes = 0 /\ published = rows /\ trail = <<>> /\ Taken = {}
      /\ made = {} /\ kept = [rows |-> Seeded, forgotten |-> {}] /\ behind = FALSE /\ hushed = FALSE
      /\ excused = {} /\ troubles = 0
  BY DEF Init, Taken
<1>2. Seeded \in Rows(0) /\ Used(Seeded) = Seeds /\ \A i \in Ids : Seeded[i].image = FALSE
  BY SeededFacts
<1>3. Idle \in Request(0) /\ Idle.step = "idle" /\ Idle.image = None
  <2>1. Idle \in Request(0)
    BY OwesFacts
  <2> QED BY <2>1 DEF Idle
<1>4. request \in [Admins -> Request(0)] /\ \A a \in Admins : request[a] = Idle
  BY <1>1, <1>3
<1>5. TypeOK
  <2>1. 0 \in 0..MaxChanges /\ 0 \in 0..MaxTroubles
    BY TablesAssumption
  <2>2. \A a \in Admins : /\ request[a].step \in {"idle", "upload", "audit", "notify"}
                          /\ request[a].change \in 0..changes /\ request[a].left \in 0..MaxItems
    BY <1>1, <1>4 DEF Request
  <2>3. Audited = {}
    BY <1>1 DEF Audited
  <2> QED BY <1>1, <1>2, <2>1, <2>2, <2>3 DEF TypeOK, Rows, Row, RowUpTo
<1>6. Typed
  <2>1. kept \in Content(changes)
    BY <1>1, <1>2 DEF Content
  <2>2. hushed \in BOOLEAN /\ behind \in BOOLEAN
    BY <1>1
  <2> QED BY <1>1, <1>4, <2>1, <2>2 DEF Typed
<1>7. FileInv
  <2>1. KeepsFile => file = None /\ kept = [rows |-> rows, forgotten |-> forgotten]
    BY <1>1
  <2>2. forgotten = Seeds \ Used(rows) /\ kept.forgotten = Seeds \ Used(kept.rows)
    BY <1>1, <1>2
  <2> QED BY <1>1, <2>1, <2>2 DEF FileInv
<1>10. TrailInv /\ Audited = {}
  BY <1>1, TablesAssumption DEF TrailInv, Audited
<1>8. ImagesInv /\ NoticeInv /\ EventInv /\ TakenTruly
  BY <1>1, <1>2 DEF ImagesInv, ImagesAreThere, NoticeInv, EventInv, TakenTruly
<1>9. Apart /\ \A a \in Admins : HandlerInv(a)
  BY <1>3, <1>4 DEF Apart, AtWork, HandlerInv, Placed, Truthful, Younger
<1> QED BY <1>5, <1>6, <1>7, <1>8, <1>9, <1>10 DEF IInv

LEMMA StutterKeepsInv ==
  ASSUME IInv, UNCHANGED vars
  PROVE  IInv'
<1>1. UNCHANGED <<backend, table, rows, forgotten, file, disk, request, changes, published, trail, made, kept, behind,
                  hushed, since, excused, troubles>>
  BY DEF vars, control, history
<1> QED BY <1>1, TrailStays, RestStays DEF Taken

LEMMA StepInv == IInv /\ [Next]_vars => IInv'
<1> SUFFICES ASSUME IInv, [Next]_vars PROVE IInv'
  OBVIOUS
<1>1. ASSUME NEW a \in Admins, NEW c \in Clients, NEW i \in Ids, NEW b \in Sent(i), NEW o \in Outcomes, Save(a, c, i, b, o)
      PROVE  IInv'
  BY <1>1, SaveKeepsInv
<1>2. ASSUME NEW a \in Admins, NEW c \in Clients \union {None}, NEW s \in SUBSET Ids, NEW o \in Outcomes, Delete(a, c, s, o)
      PROVE  IInv'
  BY <1>2, DeleteKeepsInv
<1>3. ASSUME NEW a \in Admins, NEW c \in Clients, NEW k \in 1..MaxItems, StartUpload(a, c, k)
      PROVE  IInv'
  BY <1>3, StartUploadKeepsInv
<1>4. ASSUME NEW a \in Admins, NEW i \in Ids, WriteImage(a, i)
      PROVE  IInv'
  BY <1>4, WriteImageKeepsInv
<1>5. ASSUME NEW a \in Admins, NEW o \in Outcomes, StoreItem(a, o) \/ Audit(a, o)
      PROVE  IInv'
  BY <1>5, StoreItemKeepsInv, AuditKeepsInv
<1>6. ASSUME NEW a \in Admins, BreakOffUpload(a) \/ FinishUpload(a) \/ Notify(a)
      PROVE  IInv'
  BY <1>6, BreakOffUploadKeepsInv, FinishUploadKeepsInv, NotifyKeepsInv
<1>7. OtherEvent \/ Restart => IInv'
  BY OtherEventKeepsInv, RestartKeepsInv
<1>8. UNCHANGED vars => IInv'
  BY StutterKeepsInv
<1> QED BY <1>1, <1>2, <1>3, <1>4, <1>5, <1>6, <1>7, <1>8 DEF Next

LEMMA Invariance == Spec => []IInv
BY InitInv, StepInv, PTL DEF Spec

\* Rows and marks, the requests in flight and the histories have their types: a mark is only ever of a
\* seed that is not there (memory.go, Upsert... and Delete...Resources).
THEOREM TypeCorrect == Spec => []TypeOK
<1>1. IInv => TypeOK
  BY DEF IInv
<1> QED BY <1>1, Invariance, PTL

\* When all handlers have answered, the gateways hold what is stored and the audit trail has an event of
\* it, in the memory store until AuditCap newer events have followed (memory.go:568-571), whatever the
\* order in which handlers, other events, failures and restarts came (server.go:918-1194), but for the
\* exceptions GatewaysHoldWhatIsStored, ChangesAreAudited and AuditTellsTheTruth name.
THEOREM ChangesTold == Spec => []ChangesAreTold
<1>1. ASSUME IInv
      PROVE  ChangesAreTold
  <2>1. GatewaysHoldWhatIsStored
    BY <1>1 DEF IInv, NoticeInv, NoticeDue, Idle, GatewaysHoldWhatIsStored
  <2>2. ASSUME NEW n \in Taken
        PROVE  n \in Audited \/ PushedOut(n)
    <3>1. CASE backend = "postgres"
      BY <1>1, <3>1 DEF IInv, TrailInv
    <3>2. CASE backend = "memory" /\ since[n] = AuditCap
      BY <3>2 DEF PushedOut, Taken
    <3>3. CASE backend = "memory" /\ since[n] # AuditCap
      <4>1. PICK k \in 1..Len(trail) : trail[k] = n
        BY <1>1, <3>3 DEF IInv, TrailInv, InPlace
      <4>2. DOMAIN trail = 1..Len(trail) /\ n # 0
        BY <1>1 DEF IInv, TrailInv, Typed
      <4> QED BY <4>1, <4>2 DEF Audited
    <3> QED BY <1>1, <3>1, <3>2, <3>3 DEF IInv, TypeOK
  <2>3. ChangesAreAudited
    BY <1>1, <2>2 DEF IInv, EventInv, EventDue, ChangesAreAudited
  <2>4. AuditTellsTheTruth
    BY <1>1 DEF IInv, TrailInv, TakenTruly, AuditTellsTheTruth
  <2> QED BY <2>1, <2>3, <2>4 DEF ChangesAreTold
<1>2. IInv => ChangesAreTold
  BY <1>1
<1> QED BY <1>2, Invariance, PTL

\* What a step may do to the age of a row, where ages are kept.
AgesStay ==
  backend = "postgres" \/ (table = "rule" /\ ~reaged') =>
    \A i \in Ids : rows[i] # NoRow /\ rows'[i] # NoRow /\ rows'[i].change > rows[i].change => rows'[i].born = rows[i].born

\* A row that stays as it is has no later change, and one that is gone has no age.
LEMMA AgesOfOldRows ==
  ASSUME IInv, NEW i \in Ids, rows'[i] \in {rows[i], NoRow, Seeded[i]}
  PROVE  ~(rows[i] # NoRow /\ rows'[i] # NoRow /\ rows'[i].change > rows[i].change)
<1>1. rows[i] # NoRow => rows[i].change \in Nat
  <2>1. rows[i] \in {NoRow} \union Row
    BY DEF IInv, TypeOK
  <2> QED BY <2>1 DEF Row
<1>2. Seeded[i].change = 0
  BY DEF Seeded, NoRow
<1> QED BY <1>1, <1>2

LEMMA StepAges == IInv /\ [Next]_vars => [AgesStay]_vars
<1> SUFFICES ASSUME IInv, Next PROVE AgesStay
  OBVIOUS
<1>0. rows \in [Ids -> {NoRow} \union Row] /\ changes \in Nat
  BY DEF IInv, TypeOK
<1>1. ASSUME NEW a \in Admins, NEW c \in Clients, NEW i \in Ids, NEW b \in Sent(i), NEW o \in Outcomes, Save(a, c, i, b, o)
      PROVE  AgesStay
  <2> DEFINE row == RowSaved(rows, i, c, b, changes + 1)
  <2>1. rows' = rows \/ rows' = [rows EXCEPT ![i] = row]
    BY <1>1 DEF Save, Upsert
  <2>2. rows[i] # NoRow /\ (backend = "postgres" \/ (table = "rule" /\ ~reaged')) => row.born = rows[i].born
    <3>1. ~reaged' => b \in {None, rows[i].born}
      BY <1>1 DEF Save
    <3> QED BY <3>1, RowSavedFacts
  <2> HIDE DEF row
  <2> QED BY <1>0, <2>1, <2>2, AgesOfOldRows DEF AgesStay
<1>2. ASSUME NEW a \in Admins, NEW c \in Clients \union {None}, NEW s \in SUBSET Ids, NEW o \in Outcomes, Delete(a, c, s, o)
      PROVE  AgesStay
  <2>1. \A i \in Ids : rows'[i] \in {rows[i], NoRow}
    BY <1>2 DEF Delete, Remove
  <2> QED BY <2>1, AgesOfOldRows DEF AgesStay
<1>3. ASSUME NEW a \in Admins, NEW o \in Outcomes, StoreItem(a, o)
      PROVE  AgesStay
  <2> DEFINE q == request[a]
             row == [client |-> q.client, change |-> q.change, born |-> q.change, image |-> TRUE]
  <2>1. q.image # None /\ (rows' = rows \/ rows' = [rows EXCEPT ![q.image] = row])
    BY <1>3 DEF StoreItem, Upsert
  <2>2. q.change \in Nat /\ (rows[q.image] # NoRow => rows[q.image].change > q.change)
    BY <1>0, <2>1, Before DEF HandlerInv, Younger, Request
  <2>3. row.change = q.change
    OBVIOUS
  <2> HIDE DEF q, row
  <2>4. ASSUME NEW i \in Ids
        PROVE  ~(rows[i] # NoRow /\ rows'[i] # NoRow /\ rows'[i].change > rows[i].change)
    <3>1. CASE rows'[i] = rows[i]
      BY <3>1, AgesOfOldRows
    <3>2. CASE rows'[i] # rows[i]
      <4>1. i = q.image /\ rows'[i] = row
        BY <1>0, <2>1, <3>2
      <4>2. rows[i] # NoRow => rows[i].change \in Nat
        BY <1>0 DEF Row
      <4> QED BY <2>2, <2>3, <4>1, <4>2
    <3> QED BY <3>1, <3>2
  <2> QED BY <2>4 DEF AgesStay
<1>4. Restart => AgesStay
  <2> SUFFICES ASSUME Restart, backend = "postgres" \/ table = "rule" PROVE AgesStay
    BY DEF AgesStay
  <2>1. rows' \in {rows, Seeded}
    BY RestartFacts
  <2> QED BY <2>1, AgesOfOldRows DEF AgesStay
<1>5. rows' = rows => AgesStay
  BY AgesOfOldRows DEF AgesStay
<1>6. ASSUME NEW a \in Admins,
             \/ \E c \in Clients, k \in 1..MaxItems : StartUpload(a, c, k)
             \/ \E i \in Ids : WriteImage(a, i)
             \/ \E o \in Outcomes : Audit(a, o)
             \/ BreakOffUpload(a) \/ FinishUpload(a) \/ Notify(a)
      PROVE  rows' = rows
  BY <1>6 DEF StartUpload, WriteImage, Audit, BreakOffUpload, FinishUpload, Notify, control
<1>7. OtherEvent => rows' = rows
  BY DEF OtherEvent
<1> QED BY <1>1, <1>2, <1>3, <1>4, <1>5, <1>6, <1>7 DEF Next

\* What is stored is kept (memory.go:505-553, 299-320; resource_upload.go:76-93, 296-310): the file brings
\* back what was last written and, unless a write failed since, what the table holds; the image of every
\* resource is in the upload directory; every row of Postgres keeps its age whatever a body says, and a
\* rule of the memory store unless the body of the save has another one.
THEOREM StoredStays == Spec => StoredIsKept
<1>1. ASSUME IInv
      PROVE  FileTells /\ ImagesAreThere
  BY <1>1, FileBringsBack DEF IInv, FileInv, ImagesInv, FileTells
<1>2. IInv => FileTells /\ ImagesAreThere
  BY <1>1
<1>3. Spec => [](FileTells /\ ImagesAreThere)
  BY <1>2, Invariance, PTL
<1>4. Spec => [][AgesStay]_vars
  BY StepAges, Invariance, PTL DEF Spec
<1> QED BY <1>3, <1>4 DEF StoredIsKept, AgeIsKept, AgesStay
=============================================================================
