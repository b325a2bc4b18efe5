----------------------- MODULE RiskModelRegistry_proofs -----------------------
(***************************************************************************)
(* Proofs about RiskModelRegistry, for every number of versions, names and  *)
(* admin requests and both stores: type correctness; that in Postgres a     *)
(* name once active stays active through any interleaving of the            *)
(* transactions; and that a name on which they do not overlap has one       *)
(* active version at most, in Postgres the one activated last.              *)
(***************************************************************************)
EXTENDS RiskModelRegistry, TLAPS

\* In the memory store no transaction is ever under way.
MemoryIdle == ~Postgres => disturbed = {} /\ \A a \in Admins : step[a] = "idle"

\* What a transaction under way knows: its versions exist and share a name,
\* it has written rows of that name only, and at the end it promotes one.
Chosen(a) == step[a] # "idle" =>
  /\ subject[a] \in Ids /\ promoted[a] \in Ids
  /\ Registered(subject[a]) /\ Registered(promoted[a])
  /\ models[subject[a]].name = models[promoted[a]].name

Scanning(a) == \A i \in scan[a] :
  /\ step[a] = "demote"
  /\ Registered(i) /\ models[i].name = models[promoted[a]].name

Writing(a) == \A i \in Ids : writes[a][i] # "" =>
  /\ step[a] # "idle"
  /\ Registered(i) /\ models[i].name = models[promoted[a]].name
  /\ writes[a][i] = "active" => i = promoted[a]

Promoted(a) == step[a] = "commit" => writes[a][promoted[a]] = "active"

Transaction(a) == Chosen(a) /\ Scanning(a) /\ Writing(a) /\ Promoted(a)

Transactions == \A a \in Admins : Transaction(a)

-----------------------------------------------------------------------------
(* What the building blocks of the actions do.                                *)

LEMMA NormalizeType ==
  ASSUME NEW spelling
  PROVE  Normalize(spelling) \in Statuses
<1>1. CASE spelling \in Statuses
  BY <1>1, Zenon DEF Normalize, Statuses
<1>2. CASE spelling = " active" /\ spelling \notin Statuses
  <2>1. Normalize(spelling) = "active"
    BY <1>2, Zenon DEF Normalize
  <2> QED BY <2>1 DEF Statuses
<1>3. CASE spelling # " active" /\ spelling \notin Statuses
  <2>1. Normalize(spelling) = "candidate"
    BY <1>3, Zenon DEF Normalize
  <2> QED BY <2>1 DEF Statuses
<1> QED BY <1>1, <1>2, <1>3

LEMMA NewRowType ==
  ASSUME TypeOK, NEW n \in Names, NEW s \in Statuses
  PROVE  /\ NewRow(n, s) \in Rows
         /\ NewRow(n, s).name = n /\ NewRow(n, s).status = s
<1> DEFINE activated == IF s = "active" /\ ~Postgres THEN clock + 1 ELSE 0
<1>1. clock \in Nat
  BY DEF TypeOK
<1>2. activated \in Nat
  <2>1. activated = clock + 1 \/ activated = 0
    OBVIOUS
  <2> QED BY <1>1, <2>1
<1>3. NewRow(n, s) = [status |-> s, name |-> n, created |-> clock + 1, activated |-> activated]
  BY DEF NewRow
<1> HIDE DEF activated
<1> QED BY <1>1, <1>2, <1>3 DEF Rows

\* Rows keep their form when status, name or activation change.
LEMMA RowUpdates ==
  ASSUME NEW row \in Rows, NEW s \in Statuses, NEW n \in Names, NEW t \in Nat
  PROVE  /\ [row EXCEPT !.status = s] \in Rows
         /\ [row EXCEPT !.status = s].status = s /\ [row EXCEPT !.status = s].name = row.name
         /\ [row EXCEPT !.status = s, !.activated = t] \in Rows
         /\ [row EXCEPT !.status = s, !.activated = t].status = s
         /\ [row EXCEPT !.status = s, !.activated = t].name = row.name
         /\ [row EXCEPT !.status = s, !.name = n, !.activated = t] \in Rows
         /\ [row EXCEPT !.status = s, !.name = n, !.activated = t].status = s
         /\ [row EXCEPT !.status = s, !.name = n, !.activated = t].name = n
<1>1. DOMAIN row = {"status", "name", "activated", "created"}
  BY DEF Rows
<1>2. row.status \in Statuses \cup {"absent"} /\ row.name \in Names /\ row.activated \in Nat /\ row.created \in Nat
  BY DEF Rows
<1>3. [row EXCEPT !.status = s] \in Rows
  BY <1>1, <1>2 DEF Rows
<1>4. [row EXCEPT !.status = s, !.activated = t] \in Rows
  BY <1>1, <1>2 DEF Rows
<1>5. [row EXCEPT !.status = s, !.name = n, !.activated = t] \in Rows
  BY <1>1, <1>2 DEF Rows
<1> QED BY <1>1, <1>2, <1>3, <1>4, <1>5

LEMMA RetireActiveFacts ==
  ASSUME TypeOK, NEW n \in Names, NEW kept \in Ids
  PROVE  /\ RetireActive(n, kept) \in [Ids -> Rows]
         /\ \A i \in Ids :
              /\ RetireActive(n, kept)[i].name = models[i].name
              /\ RetireActive(n, kept)[i].status =
                   IF i # kept /\ models[i].status = "active" /\ models[i].name = n
                   THEN "retired" ELSE models[i].status
  BY DEF TypeOK, RetireActive, Active, Rows, Statuses

LEMMA FinishFacts ==
  ASSUME TypeOK, NEW a \in Admins, Finish(a)
  PROVE  /\ step' \in [Admins -> {"idle", "chosen", "demote", "promote", "commit"}]
         /\ subject' \in [Admins -> Ids \cup {None}]
         /\ promoted' \in [Admins -> Ids \cup {None}]
         /\ scan' \in [Admins -> SUBSET Ids]
         /\ writes' \in [Admins -> [Ids -> Statuses \cup {""}]]
         /\ clock' = clock /\ stamp' \in [Admins -> Nat] /\ disturbed' = disturbed
         /\ step'[a] = "idle" /\ scan'[a] = {} /\ \A i \in Ids : writes'[a][i] = ""
         /\ \A b \in Admins \ {a} :
              /\ step'[b] = step[b] /\ subject'[b] = subject[b] /\ promoted'[b] = promoted[b]
              /\ scan'[b] = scan[b] /\ writes'[b] = writes[b] /\ stamp'[b] = stamp[b]
         /\ stamp'[a] = 0
  BY DEF TypeOK, Finish

\* The statuses a transaction gives the versions it demotes.
LEMMA DemotedType == \A a : Demoted(a) \in {"rolled_back", "retired"}
  BY DEF Demoted

\* An UPDATE that demotes is about active versions of the subject's name.
LEMMA ToDemoteFacts ==
  ASSUME NEW a \in Admins
  PROVE  /\ ToDemote(a) \subseteq Ids
         /\ \A i \in ToDemote(a) : models[i].status = "active" /\ models[i].name = models[subject[a]].name
  BY DEF ToDemote, Active

-----------------------------------------------------------------------------
(* Types.                                                                     *)

\* Operations outside transactions change rows and clock only.
LEMMA TypeKept ==
  ASSUME TypeOK, models' \in [Ids -> Rows], clock' \in Nat, disturbed' \subseteq Names,
         UNCHANGED <<step, subject, promoted, scan, stamp, writes>>,
         UNCHANGED backend
  PROVE  TypeOK'
<1>1. (models \in [Ids -> Rows])'
  BY DEF Rows, Statuses
<1>2. (clock \in Nat)'
  OBVIOUS
<1>3. (step \in [Admins -> {"idle", "chosen", "demote", "promote", "commit"}])'
  BY DEF TypeOK
<1>4. (subject \in [Admins -> Ids \cup {None}] /\ promoted \in [Admins -> Ids \cup {None}])'
  BY DEF TypeOK
<1>5. (scan \in [Admins -> SUBSET Ids] /\ stamp \in [Admins -> Nat])'
  BY DEF TypeOK
<1>6. (writes \in [Admins -> [Ids -> Statuses \cup {""}]])'
  BY DEF TypeOK, Statuses
<1>7. (backend \in Backends /\ disturbed \subseteq Names)'
  BY DEF TypeOK
<1> QED BY <1>1, <1>2, <1>3, <1>4, <1>5, <1>6, <1>7 DEF TypeOK

LEMMA UpsertInMemoryTyped ==
  ASSUME TypeOK, NEW i \in Ids, NEW n \in Names, NEW s \in Statuses, UpsertInMemory(i, n, s),
         UNCHANGED backend
  PROVE  TypeOK'
<1> DEFINE others == IF s = "active" THEN RetireActive(n, i) ELSE models
           known == [models[i] EXCEPT !.status = s, !.name = n,
                                      !.activated = IF s = "active" /\ @ = 0 THEN clock + 1 ELSE @]
<1>1. clock \in Nat /\ clock' = clock + 1 /\ models[i] \in Rows /\ disturbed' \subseteq Names
  BY DEF TypeOK, UpsertInMemory
<1>2. others \in [Ids -> Rows]
  <2>1. RetireActive(n, i) \in [Ids -> Rows] /\ models \in [Ids -> Rows]
    BY RetireActiveFacts DEF TypeOK
  <2> QED BY <2>1
<1>3. known \in Rows
  <2> DEFINE t == IF s = "active" /\ models[i].activated = 0 THEN clock + 1 ELSE models[i].activated
  <2>1. t \in Nat
    <3>1. models[i].activated \in Nat
      BY <1>1 DEF Rows
    <3>2. t = clock + 1 \/ t = models[i].activated
      OBVIOUS
    <3> QED BY <1>1, <3>1, <3>2
  <2>2. known = [models[i] EXCEPT !.status = s, !.name = n, !.activated = t]
    BY <1>1 DEF Rows
  <2> HIDE DEF t, known
  <2> QED BY <1>1, <2>1, <2>2, RowUpdates
<1>4. NewRow(n, s) \in Rows
  BY NewRowType
<1>5. models' = [others EXCEPT ![i] = IF Registered(i) THEN known ELSE NewRow(n, s)]
  BY DEF UpsertInMemory
<1>6. models' = [others EXCEPT ![i] = known] \/ models' = [others EXCEPT ![i] = NewRow(n, s)]
  BY <1>5
<1> HIDE DEF others, known
<1>7. models' \in [Ids -> Rows]
  BY <1>2, <1>3, <1>4, <1>6
<1>8. UNCHANGED <<step, subject, promoted, scan, stamp, writes>>
  BY DEF UpsertInMemory
<1> QED BY <1>1, <1>7, <1>8, TypeKept

LEMMA UpsertInPostgresFacts ==
  ASSUME TypeOK, NEW i \in Ids, NEW n \in Names, NEW s \in Statuses, UpsertInPostgres(i, n, s),
         UNCHANGED backend
  PROVE  /\ TypeOK'
         /\ \A j \in Ids \ {i} : models'[j] = models[j]
         /\ Registered(i) => models'[i].name = models[i].name
         /\ models'[i].name = n
         /\ models'[i].status = "active" => models[i].status = "active" \/ s = "active"
         /\ models'[i].status \in Statuses
         /\ models[i].status = "active" => models'[i].status = "active"
         /\ models'[i].activated = IF Registered(i) THEN models[i].activated ELSE 0
         /\ clock' = clock + 1
         /\ UNCHANGED <<step, subject, promoted, scan, stamp, writes>>
<1>1. clock \in Nat /\ clock' = clock + 1 /\ models \in [Ids -> Rows] /\ models[i] \in Rows
  BY DEF TypeOK, UpsertInPostgres
<1>5. disturbed' \subseteq Names
  BY DEF TypeOK, UpsertInPostgres
<1>0. UNCHANGED <<step, subject, promoted, scan, stamp, writes>>
  BY DEF UpsertInPostgres
<1>2. UpsertedStatus(models[i].status, s) \in Statuses
  BY DEF UpsertedStatus, Statuses
<1>3. CASE Registered(i)
  <2> DEFINE row == [models[i] EXCEPT !.status = UpsertedStatus(models[i].status, s)]
  <2>1. models' = [models EXCEPT ![i] = row]
    <3>1. models' = [models EXCEPT ![i] = IF Registered(i) THEN row ELSE NewRow(n, s)]
      BY Zenon DEF UpsertInPostgres
    <3> HIDE DEF row
    <3> QED BY <1>3, <3>1
  <2>2. row \in Rows /\ row.name = models[i].name /\ row.status = UpsertedStatus(models[i].status, s)
    <3>1. models[i].name \in Names
      BY <1>1 DEF Rows
    <3> QED BY <1>1, <1>2, <3>1, RowUpdates
  <2> HIDE DEF row
  <2>3. models' \in [Ids -> Rows] /\ models'[i] = row /\ \A j \in Ids \ {i} : models'[j] = models[j]
    BY <1>1, <2>1, <2>2
  <2>4. /\ models[i].status = "active" => models'[i].status = "active"
        /\ models'[i].status = "active" => models[i].status = "active" \/ s = "active"
    BY <2>2, <2>3 DEF UpsertedStatus
  <2>6. models[i].name = n
    BY <1>3 DEF UpsertInPostgres
  <2>7. row.activated = models[i].activated
    BY <1>1 DEF row, Rows
  <2>5. TypeOK'
    BY <1>0, <1>1, <1>5, <2>3, TypeKept
  <2> QED BY <1>0, <1>1, <1>2, <1>3, <2>2, <2>3, <2>4, <2>5, <2>6, <2>7
<1>4. CASE ~Registered(i)
  <2>1. models' = [models EXCEPT ![i] = NewRow(n, s)]
    BY <1>4 DEF UpsertInPostgres
  <2>2. NewRow(n, s) \in Rows /\ NewRow(n, s).status = s /\ NewRow(n, s).name = n
    BY NewRowType
  <2>3. models' \in [Ids -> Rows] /\ models'[i] = NewRow(n, s) /\ \A j \in Ids \ {i} : models'[j] = models[j]
    BY <1>1, <2>1, <2>2
  <2>4. models[i].status # "active"
    BY <1>4 DEF Registered
  <2>5. TypeOK'
    BY <1>0, <1>1, <1>5, <2>3, TypeKept
  <2>6. NewRow(n, s).activated = 0
    BY DEF NewRow, UpsertInPostgres
  <2> QED BY <1>0, <1>1, <1>4, <2>2, <2>3, <2>4, <2>5, <2>6
<1> QED BY <1>3, <1>4

LEMMA ActivateInMemoryTyped ==
  ASSUME TypeOK, NEW i \in Ids, ActivateInMemory(i),
         UNCHANGED backend
  PROVE  TypeOK'
<1> DEFINE retired == RetireActive(models[i].name, i)
<1>1. clock \in Nat /\ clock' = clock + 1 /\ models[i] \in Rows /\ disturbed' \subseteq Names
  BY DEF TypeOK, ActivateInMemory
<1>2. retired \in [Ids -> Rows]
  <2>1. models[i].name \in Names
    BY <1>1 DEF Rows
  <2> QED BY <2>1, RetireActiveFacts
<1>3. models' = [retired EXCEPT ![i].status = "active", ![i].activated = clock + 1]
  BY DEF ActivateInMemory
<1> HIDE DEF retired
<1>4. models' = [retired EXCEPT ![i] = [retired[i] EXCEPT !.status = "active", !.activated = clock + 1]]
  BY <1>2, <1>3
<1>5. [retired[i] EXCEPT !.status = "active", !.activated = clock + 1] \in Rows
  <2>1. retired[i] \in Rows /\ retired[i].name \in Names
    BY <1>2 DEF Rows
  <2>2. clock + 1 \in Nat /\ "active" \in Statuses
    BY <1>1 DEF Statuses
  <2> QED BY <2>1, <2>2, RowUpdates
<1>6. models' \in [Ids -> Rows]
  BY <1>2, <1>4, <1>5
<1>7. UNCHANGED <<step, subject, promoted, scan, stamp, writes>>
  BY DEF ActivateInMemory
<1> QED BY <1>1, <1>6, <1>7, TypeKept

\* A rollback in memory restores one version and marks the active ones.
LEMMA RollbackInMemoryFacts ==
  ASSUME TypeOK, NEW i \in Ids, RollbackInMemory(i),
         UNCHANGED backend
  PROVE  /\ TypeOK'
         /\ \E j \in RetiredOf(i) : \A k \in Ids :
              /\ models'[k].name = models[k].name
              /\ k = j => models'[k].status = "active"
              /\ k # j /\ models[k].status = "active" /\ models[k].name = models[i].name
                   => models'[k].status = "rolled_back"
              /\ k # j /\ ~(models[k].status = "active" /\ models[k].name = models[i].name)
                   => models'[k].status = models[k].status
<1>1. clock \in Nat /\ clock' = clock + 1 /\ models \in [Ids -> Rows] /\ disturbed' \subseteq Names
  BY DEF TypeOK, RollbackInMemory
<1>2. PICK j \in LastActivated(RetiredOf(i)) :
        models' = [k \in Ids |->
                    CASE k = j -> [models[k] EXCEPT !.status = "active", !.activated = clock + 1]
                      [] k # j /\ k \in Active(models[i].name) -> [models[k] EXCEPT !.status = "rolled_back"]
                      [] OTHER -> models[k]]
  BY DEF RollbackInMemory
<1>3. j \in RetiredOf(i) /\ j \in Ids
  BY <1>2 DEF LastActivated, RetiredOf
<1>4. ASSUME NEW k \in Ids
      PROVE  /\ models'[k] \in Rows
             /\ models'[k].name = models[k].name
             /\ k = j => models'[k].status = "active"
             /\ k # j /\ k \in Active(models[i].name) => models'[k].status = "rolled_back"
             /\ k # j /\ k \notin Active(models[i].name) => models'[k].status = models[k].status
  <2>0. models[k] \in Rows
    BY <1>1
  <2>1. CASE k = j
    <3> DEFINE t == clock + 1
    <3> DEFINE row == [models[k] EXCEPT !.status = "active", !.activated = t]
    <3>1. models'[k] = row
      BY <1>2, <2>1
    <3>2. models[k].name \in Names
      BY <2>0 DEF Rows
    <3>3. t \in Nat /\ "active" \in Statuses
      BY <1>1 DEF Statuses
    <3> HIDE DEF t
    <3>4. row \in Rows
      BY <2>0, <3>2, <3>3, RowUpdates
    <3>5. row.status = "active" /\ row.name = models[k].name
      BY <2>0 DEF Rows
    <3> HIDE DEF row
    <3> QED BY <2>1, <3>1, <3>4, <3>5
  <2>2. CASE k # j /\ k \in Active(models[i].name)
    <3>1. models'[k] = [models[k] EXCEPT !.status = "rolled_back"]
      BY <1>2, <2>2
    <3> QED BY <2>0, <2>2, <3>1 DEF Rows, Statuses
  <2>3. CASE k # j /\ k \notin Active(models[i].name)
    <3>1. models'[k] = models[k]
      BY <1>2, <2>3
    <3> QED BY <2>0, <2>3, <3>1
  <2> QED BY <2>1, <2>2, <2>3
<1>5. models' = [k \in Ids |-> models'[k]]
  BY <1>2
<1>6. models' \in [Ids -> Rows]
  BY <1>4, <1>5
<1>7. TypeOK'
  <2>1. UNCHANGED <<step, subject, promoted, scan, stamp, writes>>
    BY DEF RollbackInMemory
  <2> QED BY <1>1, <1>6, <2>1, TypeKept
<1> QED BY <1>3, <1>4, <1>7 DEF Active

LEMMA CommitFacts ==
  ASSUME TypeOK, NEW a \in Admins, Commit(a),
         UNCHANGED backend
  PROVE  /\ TypeOK'
         /\ \A i \in Ids :
              /\ models'[i].name = models[i].name
              /\ models'[i].status = IF writes[a][i] = "" THEN models[i].status ELSE writes[a][i]
              /\ models'[i].activated = IF writes[a][i] = "active" THEN stamp[a] ELSE models[i].activated
<1>1. models \in [Ids -> Rows] /\ stamp[a] \in Nat /\ writes[a] \in [Ids -> Statuses \cup {""}]
  BY DEF TypeOK
<1>2. models' = [i \in Ids |->
                  CASE writes[a][i] = ""       -> models[i]
                    [] writes[a][i] = "active" -> [models[i] EXCEPT !.status = "active", !.activated = Stamped(a, i)]
                    [] OTHER                   -> [models[i] EXCEPT !.status = writes[a][i]]]
  BY DEF Commit
<1>3. ASSUME NEW i \in Ids
      PROVE  /\ models'[i] \in Rows
             /\ models'[i].name = models[i].name
             /\ models'[i].status = IF writes[a][i] = "" THEN models[i].status ELSE writes[a][i]
             /\ models'[i].activated = IF writes[a][i] = "active" THEN stamp[a] ELSE models[i].activated
  <2>0. models[i] \in Rows /\ writes[a][i] \in Statuses \cup {""}
    BY <1>1
  <2>1. CASE writes[a][i] = ""
    <3>1. models'[i] = models[i]
      BY <1>2, <2>1
    <3> QED BY <2>0, <2>1, <3>1
  <2>2. CASE writes[a][i] = "active"
    <3>1. models'[i] = [models[i] EXCEPT !.status = "active", !.activated = stamp[a]]
      BY <1>2, <2>2 DEF Stamped
    <3> QED BY <1>1, <2>0, <2>2, <3>1 DEF Rows, Statuses
  <2>3. CASE writes[a][i] \notin {"", "active"}
    <3>1. models'[i] = [models[i] EXCEPT !.status = writes[a][i]]
      BY <1>2, <2>3
    <3> QED BY <2>0, <2>3, <3>1 DEF Rows
  <2> QED BY <2>1, <2>2, <2>3
<1>4. models' \in [Ids -> Rows]
  <2>1. models' = [i \in Ids |-> models'[i]]
    BY <1>2
  <2> QED BY <1>3, <2>1
<1>5. Finish(a)
  BY DEF Commit
<1>6. TypeOK'
  BY <1>4, <1>5, FinishFacts DEF TypeOK
<1> QED BY <1>3, <1>6

\* Steps of a transaction before its end leave the committed rows alone.
Underway(a) ==
  \/ \E i \in Ids : BeginActivate(a, i) \/ BeginRollback(a, i) \/ Demote(a, i)
  \/ StartDemoting(a) \/ StartPromoting(a) \/ Promote(a)

LEMMA BeginFacts ==
  ASSUME NEW a \in Admins, NEW i \in Ids, BeginActivate(a, i) \/ BeginRollback(a, i)
  PROVE  \E j \in Ids :
           /\ Registered(i) /\ Registered(j) /\ models[j].name = models[i].name
           /\ Begin(a, i, j)
<1>1. CASE BeginActivate(a, i)
  BY <1>1 DEF BeginActivate, Begin
<1>2. CASE BeginRollback(a, i)
  <2>1. PICK j \in LastActivated(RetiredOf(i)) : Begin(a, i, j)
    BY <1>2 DEF BeginRollback
  <2>2. j \in Ids /\ models[j].name = models[i].name /\ models[j].status = "retired"
    BY <2>1 DEF LastActivated, RetiredOf
  <2> QED BY <2>1, <2>2 DEF Begin, Registered
<1> QED BY <1>1, <1>2

LEMMA UnderwayTyped ==
  ASSUME TypeOK, NEW a \in Admins, Underway(a),
         UNCHANGED backend
  PROVE  TypeOK' /\ UNCHANGED models
<1>1. ASSUME NEW i \in Ids, BeginActivate(a, i) \/ BeginRollback(a, i)
      PROVE  TypeOK' /\ UNCHANGED models
  <2>1. PICK j \in Ids : Begin(a, i, j)
    BY <1>1, BeginFacts
  <2> QED BY <2>1 DEF Begin, TypeOK, Rows, Statuses
<1>2. ASSUME NEW i \in Ids, Demote(a, i)
      PROVE  TypeOK' /\ UNCHANGED models
  <2>1. /\ UNCHANGED <<models, clock, step, subject, promoted, stamp, disturbed>>
        /\ scan' = [scan EXCEPT ![a] = @ \ {i}]
    BY <1>2 DEF Demote
  <2> DEFINE w == IF models[i].status = "active" THEN Demoted(a) ELSE writes[a][i]
  <2>2. w \in Statuses \cup {""}
    BY DemotedType DEF Statuses, TypeOK
  <2>3. (writes \in [Admins -> [Ids -> Statuses \cup {""}]])'
    <3>1. writes' = [writes EXCEPT ![a][i] = w]
      BY <1>2 DEF Demote
    <3> HIDE DEF w
    <3>2. writes' = [writes EXCEPT ![a] = [writes[a] EXCEPT ![i] = w]]
      BY <3>1
    <3>3. [writes[a] EXCEPT ![i] = w] \in [Ids -> Statuses \cup {""}]
      BY <2>2 DEF TypeOK
    <3>4. writes' \in [Admins -> [Ids -> Statuses \cup {""}]]
      BY <3>2, <3>3 DEF TypeOK
    <3> QED BY <3>4 DEF Statuses
  <2>4. (scan \in [Admins -> SUBSET Ids])'
    BY <2>1 DEF TypeOK
  <2> QED BY <2>1, <2>3, <2>4 DEF TypeOK, Rows, Statuses
<1>3. CASE StartDemoting(a)
  <2>1. ToDemote(a) \subseteq Ids
    BY ToDemoteFacts
  <2> QED BY <1>3, <2>1 DEF StartDemoting, TypeOK, Rows, Statuses
<1>4. CASE StartPromoting(a)
  <2>0. clock \in Nat
    BY DEF TypeOK
  <2>1. clock + 1 \in Nat
    BY <2>0
  <2>2. /\ clock' \in Nat
        /\ stamp' \in [Admins -> Nat]
        /\ step' \in [Admins -> {"idle", "chosen", "demote", "promote", "commit"}]
        /\ UNCHANGED <<models, subject, promoted, scan, writes, disturbed>>
    BY <1>4, <2>1 DEF StartPromoting, TypeOK
  <2> QED BY <2>2 DEF TypeOK, Rows, Statuses
<1>5. CASE Promote(a)
  BY <1>5 DEF Promote, TypeOK, Rows, Statuses
<1> QED BY <1>1, <1>2, <1>3, <1>4, <1>5 DEF Underway

LEMMA AbortTyped ==
  ASSUME TypeOK, NEW a \in Admins, Abort(a),
         UNCHANGED backend
  PROVE  TypeOK' /\ UNCHANGED models
<1>1. Finish(a) /\ UNCHANGED models
  BY DEF Abort
<1> QED BY <1>1, FinishFacts DEF TypeOK, Rows, Statuses

\* The disjuncts of Next.
LEMMA Steps ==
  ASSUME Next
  PROVE  UNCHANGED backend /\ (
         \/ \E i \in Ids, n \in Names, s \in Statuses : UpsertInMemory(i, n, s) \/ UpsertInPostgres(i, n, s)
         \/ \E i \in Ids : ActivateInMemory(i) \/ RollbackInMemory(i)
         \/ \E a \in Admins : Underway(a)
         \/ \E a \in Admins : Commit(a) \/ Abort(a))
<1>1. ASSUME NEW spelling \in Spellings, NEW i \in Ids, NEW n \in Names,
             UpsertInMemory(i, n, Normalize(spelling)) \/ UpsertInPostgres(i, n, Normalize(spelling))
      PROVE  \E s \in Statuses : UpsertInMemory(i, n, s) \/ UpsertInPostgres(i, n, s)
  BY <1>1, NormalizeType
<1> QED BY <1>1 DEF Next, Underway

LEMMA TypeStep == TypeOK /\ [Next]_vars => TypeOK'
<1> SUFFICES ASSUME TypeOK, [Next]_vars PROVE TypeOK'
  OBVIOUS
<1>0. UNCHANGED backend
  BY DEF Next, vars
<1>1. ASSUME NEW i \in Ids, NEW n \in Names, NEW s \in Statuses, UpsertInMemory(i, n, s) \/ UpsertInPostgres(i, n, s)
      PROVE  TypeOK'
  BY <1>0, <1>1, UpsertInMemoryTyped, UpsertInPostgresFacts
<1>2. ASSUME NEW i \in Ids, ActivateInMemory(i) \/ RollbackInMemory(i)
      PROVE  TypeOK'
  BY <1>0, <1>2, ActivateInMemoryTyped, RollbackInMemoryFacts
<1>3. ASSUME NEW a \in Admins, Underway(a)
      PROVE  TypeOK'
  BY <1>0, <1>3, UnderwayTyped
<1>4. ASSUME NEW a \in Admins, Commit(a) \/ Abort(a)
      PROVE  TypeOK'
  BY <1>0, <1>4, CommitFacts, AbortTyped
<1>5. CASE UNCHANGED vars
  BY <1>5 DEF vars, TypeOK, Rows, Statuses
<1>6. CASE Next
  BY <1>1, <1>2, <1>3, <1>4, <1>6, Steps
<1> QED BY <1>5, <1>6

(* Every variable has its type in every reachable state, whatever the store   *)
(* and however requests and transactions interleave.                          *)
THEOREM TypeCorrect == Spec => []TypeOK
<1>1. ASSUME Init PROVE TypeOK
  <2>1. PICK n \in Names :
          models = [i \in Ids |-> [status |-> "absent", name |-> n, activated |-> 0, created |-> 0]]
    BY <1>1 DEF Init
  <2>2. [status |-> "absent", name |-> n, activated |-> 0, created |-> 0] \in Rows
    BY DEF Rows
  <2>3. models \in [Ids -> Rows]
    BY <2>1, <2>2
  <2> QED BY <1>1, <2>3 DEF Init, TypeOK
<1>2. TypeOK /\ [Next]_vars => TypeOK'
  BY TypeStep
<1> QED BY <1>1, <1>2, PTL DEF Spec

-----------------------------------------------------------------------------
(* One active version per name in the memory store.                           *)

LEMMA UpsertInMemoryKeepsOne ==
  ASSUME TypeOK, OneActivePerName,
         NEW i \in Ids, NEW n \in Names, NEW s \in Statuses, UpsertInMemory(i, n, s),
         UNCHANGED backend
  PROVE  OneActivePerName'
<1> DEFINE others == IF s = "active" THEN RetireActive(n, i) ELSE models
           known == [models[i] EXCEPT !.status = s, !.name = n,
                                      !.activated = IF s = "active" /\ @ = 0 THEN clock + 1 ELSE @]
<1>1. models \in [Ids -> Rows] /\ models[i] \in Rows
  BY DEF TypeOK
<1>2. known.status = s /\ known.name = n
  BY <1>1 DEF Rows
<1>3. NewRow(n, s).status = s /\ NewRow(n, s).name = n
  BY NewRowType
<1>4. models' = [others EXCEPT ![i] = IF Registered(i) THEN known ELSE NewRow(n, s)]
  BY DEF UpsertInMemory
<1> HIDE DEF known
<1>5. /\ DOMAIN others = Ids
      /\ \A j \in Ids : others[j].name = models[j].name
      /\ \A j \in Ids \ {i} : others[j].status = "active" =>
           models[j].status = "active" /\ (s = "active" => models[j].name # n)
  <2>1. CASE s = "active"
    BY <2>1, RetireActiveFacts
  <2>2. CASE s # "active"
    BY <1>1, <2>2
  <2> QED BY <2>1, <2>2
<1> HIDE DEF others
<1>6. models'[i].status = s /\ models'[i].name = n /\ \A j \in Ids \ {i} : models'[j] = others[j]
  BY <1>2, <1>3, <1>4, <1>5
<1>7. ASSUME NEW m \in Names, NEW j \in Ids, NEW k \in Ids, j \in Active(m)', k \in Active(m)'
      PROVE  j = k
  <2>1. models'[j].status = "active" /\ models'[j].name = m /\ models'[k].status = "active" /\ models'[k].name = m
    BY <1>7 DEF Active
  <2>2. CASE j # i /\ k # i
    <3>1. j \in Active(m) /\ k \in Active(m)
      BY <1>5, <1>6, <2>1, <2>2 DEF Active
    <3> QED BY <3>1 DEF OneActivePerName
  <2>3. CASE j = i /\ k # i
    BY <1>5, <1>6, <2>1, <2>3
  <2>4. CASE j # i /\ k = i
    BY <1>5, <1>6, <2>1, <2>4
  <2> QED BY <2>2, <2>3, <2>4
<1> QED BY <1>7 DEF OneActivePerName, Active

LEMMA ActivateInMemoryKeepsOne ==
  ASSUME TypeOK, OneActivePerName, NEW i \in Ids, ActivateInMemory(i),
         UNCHANGED backend
  PROVE  OneActivePerName'
<1> DEFINE retired == RetireActive(models[i].name, i)
<1>1. models[i] \in Rows /\ models[i].name \in Names
  BY DEF TypeOK, Rows
<1>2. /\ retired \in [Ids -> Rows]
      /\ \A j \in Ids :
           /\ retired[j].name = models[j].name
           /\ retired[j].status = IF j # i /\ models[j].status = "active" /\ models[j].name = models[i].name
                                  THEN "retired" ELSE models[j].status
  BY <1>1, RetireActiveFacts
<1>3. models' = [retired EXCEPT ![i].status = "active", ![i].activated = clock + 1]
  BY DEF ActivateInMemory
<1> HIDE DEF retired
<1>4. models' = [retired EXCEPT ![i] = [retired[i] EXCEPT !.status = "active", !.activated = clock + 1]]
  BY <1>2, <1>3
<1>5. /\ models'[i].status = "active" /\ models'[i].name = models[i].name
      /\ \A j \in Ids \ {i} : models'[j] = retired[j]
  BY <1>2, <1>4 DEF Rows
<1>6. ASSUME NEW m \in Names, NEW j \in Ids, NEW k \in Ids, j \in Active(m)', k \in Active(m)'
      PROVE  j = k
  <2>1. models'[j].status = "active" /\ models'[j].name = m /\ models'[k].status = "active" /\ models'[k].name = m
    BY <1>6 DEF Active
  <2>2. CASE j # i /\ k # i
    <3>1. j \in Active(m) /\ k \in Active(m)
      BY <1>2, <1>5, <2>1, <2>2 DEF Active
    <3> QED BY <3>1 DEF OneActivePerName
  <2>3. CASE j = i /\ k # i
    BY <1>2, <1>5, <2>1, <2>3
  <2>4. CASE j # i /\ k = i
    BY <1>2, <1>5, <2>1, <2>4
  <2> QED BY <2>2, <2>3, <2>4
<1> QED BY <1>6 DEF OneActivePerName, Active

LEMMA RollbackInMemoryKeepsOne ==
  ASSUME TypeOK, OneActivePerName, NEW i \in Ids, RollbackInMemory(i),
         UNCHANGED backend
  PROVE  OneActivePerName'
<1>1. PICK r \in RetiredOf(i) : \A k \in Ids :
        /\ models'[k].name = models[k].name
        /\ k = r => models'[k].status = "active"
        /\ k # r /\ models[k].status = "active" /\ models[k].name = models[i].name
             => models'[k].status = "rolled_back"
        /\ k # r /\ ~(models[k].status = "active" /\ models[k].name = models[i].name)
             => models'[k].status = models[k].status
  BY RollbackInMemoryFacts
<1>2. r \in Ids /\ models[r].name = models[i].name
  BY DEF RetiredOf
<1>3. ASSUME NEW m \in Names, NEW j \in Ids, NEW k \in Ids, j \in Active(m)', k \in Active(m)'
      PROVE  j = k
  <2>1. models'[j].status = "active" /\ models'[j].name = m /\ models'[k].status = "active" /\ models'[k].name = m
    BY <1>3 DEF Active
  <2>2. CASE m = models[i].name
    BY <1>1, <1>2, <2>1, <2>2
  <2>3. CASE m # models[i].name
    <3>1. j \in Active(m) /\ k \in Active(m)
      BY <1>1, <1>2, <2>1, <2>3 DEF Active
    <3> QED BY <3>1 DEF OneActivePerName
  <2> QED BY <2>2, <2>3
<1> QED BY <1>3 DEF OneActivePerName, Active

-----------------------------------------------------------------------------
(* In Postgres a name once active stays active.                               *)

LEMMA InitTransactions == Init => Transactions
<1> SUFFICES ASSUME Init PROVE Transactions
  OBVIOUS
<1> QED BY DEF Init, Transactions, Transaction, Chosen, Scanning, Writing, Promoted

\* The rows stay registered under their names, as they do in every step.
NamesKept == \A i \in Ids : Registered(i) => models'[i].status # "absent" /\ models'[i].name = models[i].name

\* A step that leaves a transaction's own variables alone leaves what it knows.
LEMMA TransactionFrame ==
  ASSUME TypeOK, NamesKept, NEW a \in Admins, Transaction(a),
         step'[a] = step[a], subject'[a] = subject[a], promoted'[a] = promoted[a],
         scan'[a] = scan[a], writes'[a] = writes[a]
  PROVE  Transaction(a)'
<1>1. scan[a] \subseteq Ids
  BY DEF TypeOK
<1>2. Chosen(a)'
  BY DEF Transaction, Chosen, NamesKept, Registered
<1>3. Scanning(a)'
  BY <1>1 DEF Transaction, Chosen, Scanning, NamesKept, Registered
<1>4. Writing(a)'
  BY DEF Transaction, Chosen, Writing, NamesKept, Registered
<1>5. Promoted(a)'
  BY DEF Transaction, Promoted
<1> QED BY <1>2, <1>3, <1>4, <1>5 DEF Transaction

LEMMA UpsertKeepsTransactions ==
  ASSUME TypeOK, Transactions,
         NEW i \in Ids, NEW n \in Names, NEW s \in Statuses, UpsertInPostgres(i, n, s),
         UNCHANGED backend
  PROVE  Transactions'
<1>1. NamesKept
  <2> SUFFICES ASSUME NEW j \in Ids, Registered(j)
               PROVE  models'[j].status # "absent" /\ models'[j].name = models[j].name
    BY DEF NamesKept
  <2>1. CASE j = i
    <3>1. models'[i].status \in Statuses /\ models'[i].name = models[i].name
      BY <2>1, UpsertInPostgresFacts
    <3> QED BY <2>1, <3>1 DEF Statuses
  <2>2. CASE j # i
    <3>1. models'[j] = models[j]
      BY <2>2, UpsertInPostgresFacts
    <3> QED BY <3>1 DEF Registered
  <2> QED BY <2>1, <2>2
<1>2. UNCHANGED <<step, subject, promoted, scan, stamp, writes>>
  BY UpsertInPostgresFacts
<1> QED BY <1>1, <1>2, TransactionFrame DEF Transactions

\* The steps under way change no row.
LEMMA UnderwayFrame ==
  ASSUME UNCHANGED models
  PROVE  NamesKept
  BY DEF NamesKept, Registered

LEMMA BeginKeepsTransactions ==
  ASSUME TypeOK, Transactions, NEW a \in Admins, NEW i \in Ids,
         BeginActivate(a, i) \/ BeginRollback(a, i),
         UNCHANGED backend
  PROVE  Transactions'
<1>1. PICK j \in Ids :
        /\ Registered(i) /\ Registered(j) /\ models[j].name = models[i].name
        /\ Begin(a, i, j)
  BY BeginFacts
<1>2. /\ step[a] = "idle"
      /\ step' = [step EXCEPT ![a] = "chosen"]
      /\ subject' = [subject EXCEPT ![a] = i]
      /\ promoted' = [promoted EXCEPT ![a] = j]
      /\ UNCHANGED <<models, scan, writes>>
  BY <1>1 DEF Begin
<1>3. scan[a] = {} /\ \A k \in Ids : writes[a][k] = ""
  BY <1>2 DEF TypeOK, Transactions, Transaction, Scanning, Writing
<1>4. /\ step'[a] = "chosen" /\ subject'[a] = i /\ promoted'[a] = j
      /\ \A b \in Admins \ {a} : step'[b] = step[b] /\ subject'[b] = subject[b] /\ promoted'[b] = promoted[b]
  BY <1>2 DEF TypeOK
<1>5. Transaction(a)'
  <2>1. Chosen(a)'
    BY <1>1, <1>2, <1>4 DEF Chosen, Registered
  <2>2. Scanning(a)' /\ Writing(a)' /\ Promoted(a)'
    BY <1>2, <1>3, <1>4 DEF Scanning, Writing, Promoted
  <2> QED BY <2>1, <2>2 DEF Transaction
<1> QED BY <1>2, <1>4, <1>5, UnderwayFrame, TransactionFrame DEF Transactions

LEMMA StartDemotingKeepsTransactions ==
  ASSUME TypeOK, Transactions, NEW a \in Admins, StartDemoting(a),
         UNCHANGED backend
  PROVE  Transactions'
<1>1. /\ step[a] = "chosen"
      /\ step'[a] = "demote" /\ scan'[a] = ToDemote(a)
      /\ \A b \in Admins \ {a} : step'[b] = step[b] /\ scan'[b] = scan[b]
      /\ UNCHANGED <<models, subject, promoted, writes>>
  BY DEF StartDemoting, TypeOK
<1>2. Transaction(a)
  BY DEF Transactions
<1>3. \A i \in ToDemote(a) : models[i].status # "absent" /\ models[i].name = models[promoted[a]].name
  BY <1>1, <1>2, ToDemoteFacts DEF Transaction, Chosen
<1>4. Transaction(a)'
  <2>1. Chosen(a)'
    BY <1>1, <1>2 DEF Transaction, Chosen, Registered
  <2>2. Scanning(a)'
    BY <1>1, <1>3 DEF Scanning, Registered
  <2>3. Writing(a)' /\ Promoted(a)'
    BY <1>1, <1>2 DEF Transaction, Writing, Promoted, Registered
  <2> QED BY <2>1, <2>2, <2>3 DEF Transaction
<1> QED BY <1>1, <1>4, UnderwayFrame, TransactionFrame DEF Transactions

LEMMA DemoteKeepsTransactions ==
  ASSUME TypeOK, Transactions, NEW a \in Admins, NEW j \in Ids, Demote(a, j),
         UNCHANGED backend
  PROVE  Transactions'
<1>1. /\ step[a] = "demote" /\ j \in scan[a]
      /\ scan'[a] = scan[a] \ {j}
      /\ \A b \in Admins \ {a} : scan'[b] = scan[b] /\ writes'[b] = writes[b]
      /\ \A i \in Ids \ {j} : writes'[a][i] = writes[a][i]
      /\ UNCHANGED <<models, step, subject, promoted>>
  BY DEF Demote, TypeOK
<1>2. Transaction(a)
  BY DEF Transactions
<1>3. Transaction(a)'
  <2>1. Chosen(a)' /\ Promoted(a)'
    BY <1>1, <1>2 DEF Transaction, Chosen, Promoted, Registered
  <2>2. Scanning(a)'
    BY <1>1, <1>2 DEF Transaction, Scanning, Registered
  <2>3. Writing(a)'
    <3>1. writes'[a][j] # "active" \/ writes'[a][j] = writes[a][j]
      BY DemotedType DEF Demote, TypeOK
    <3> QED BY <1>1, <1>2, <3>1 DEF Transaction, Scanning, Writing, Registered
  <2> QED BY <2>1, <2>2, <2>3 DEF Transaction
<1> QED BY <1>1, <1>3, UnderwayFrame, TransactionFrame DEF Transactions

LEMMA StartPromotingKeepsTransactions ==
  ASSUME TypeOK, Transactions, NEW a \in Admins, StartPromoting(a),
         UNCHANGED backend
  PROVE  Transactions'
<1>1. /\ step[a] = "demote" /\ scan[a] = {}
      /\ step'[a] = "promote"
      /\ \A b \in Admins \ {a} : step'[b] = step[b]
      /\ UNCHANGED <<models, subject, promoted, scan, writes>>
  BY DEF StartPromoting, TypeOK
<1>2. Transaction(a)
  BY DEF Transactions
<1>3. Transaction(a)'
  <2>1. Chosen(a)' /\ Scanning(a)' /\ Promoted(a)'
    BY <1>1, <1>2 DEF Transaction, Chosen, Scanning, Promoted, Registered
  <2>2. Writing(a)'
    BY <1>1, <1>2 DEF Transaction, Writing, Registered
  <2> QED BY <2>1, <2>2 DEF Transaction
<1> QED BY <1>1, <1>3, UnderwayFrame, TransactionFrame DEF Transactions

LEMMA PromoteKeepsTransactions ==
  ASSUME TypeOK, Transactions, NEW a \in Admins, Promote(a),
         UNCHANGED backend
  PROVE  Transactions'
<1>1. Transaction(a)
  BY DEF Transactions
<1>2. step[a] = "promote" /\ promoted[a] \in Ids /\ Registered(promoted[a])
  BY <1>1 DEF Promote, Transaction, Chosen
<1>3. /\ step'[a] = "commit" /\ writes'[a][promoted[a]] = "active"
      /\ \A i \in Ids \ {promoted[a]} : writes'[a][i] = writes[a][i]
      /\ \A b \in Admins \ {a} : step'[b] = step[b] /\ writes'[b] = writes[b]
      /\ UNCHANGED <<models, subject, promoted, scan>>
  BY <1>2 DEF Promote, TypeOK
<1>4. Transaction(a)'
  <2>1. Chosen(a)' /\ Promoted(a)'
    BY <1>1, <1>2, <1>3 DEF Transaction, Chosen, Promoted, Registered
  <2>2. Scanning(a)'
    BY <1>1, <1>2, <1>3 DEF Transaction, Scanning
  <2>3. Writing(a)'
    BY <1>1, <1>2, <1>3 DEF Transaction, Writing, Registered
  <2> QED BY <2>1, <2>2, <2>3 DEF Transaction
<1> QED BY <1>3, <1>4, UnderwayFrame, TransactionFrame DEF Transactions

LEMMA FinishKeepsTransactions ==
  ASSUME TypeOK, Transactions, NEW a \in Admins, Commit(a) \/ Abort(a),
         UNCHANGED backend
  PROVE  Transactions'
<1>1. Finish(a)
  BY DEF Commit, Abort
<1>2. NamesKept
  <2>1. CASE Commit(a)
    <3>1. \A i \in Ids : writes[a][i] \in Statuses \cup {""}
      BY DEF TypeOK
    <3> QED BY <2>1, <3>1, CommitFacts DEF NamesKept, Registered, Statuses
  <2>2. CASE Abort(a)
    BY <2>2, UnderwayFrame DEF Abort
  <2> QED BY <2>1, <2>2
<1>3. Transaction(a)'
  <2>1. step'[a] = "idle" /\ scan'[a] = {} /\ \A i \in Ids : writes'[a][i] = ""
    BY <1>1, FinishFacts
  <2> QED BY <2>1 DEF Transaction, Chosen, Scanning, Writing, Promoted
<1>4. \A b \in Admins \ {a} :
        /\ step'[b] = step[b] /\ subject'[b] = subject[b] /\ promoted'[b] = promoted[b]
        /\ scan'[b] = scan[b] /\ writes'[b] = writes[b]
  BY <1>1, FinishFacts
<1>5. ASSUME NEW b \in Admins, b # a PROVE Transaction(b)'
  <2>1. Transaction(b)
    BY DEF Transactions
  <2> QED BY <1>2, <1>4, <1>5, <2>1, TransactionFrame
<1> QED BY <1>3, <1>5 DEF Transactions

\* A commit takes a version down only to put another of its name in its place.
LEMMA CommitKeepsActive ==
  ASSUME TypeOK, Transactions, NEW a \in Admins, Commit(a), NEW n \in Names, Active(n) # {},
         UNCHANGED backend
  PROVE  Active(n)' # {}
<1>1. PICK i \in Ids : models[i].status = "active" /\ models[i].name = n
  BY DEF Active
<1>2. promoted[a] \in Ids /\ writes[a][promoted[a]] = "active"
  BY DEF Commit, Transactions, Transaction, Chosen, Promoted
<1>3. CASE writes[a][i] = ""
  <2>1. models'[i].status = "active" /\ models'[i].name = n
    BY <1>1, <1>3, CommitFacts
  <2> QED BY <2>1 DEF Active
<1>4. CASE writes[a][i] # ""
  <2>1. models[promoted[a]].name = n
    BY <1>1, <1>4 DEF Transactions, Transaction, Writing
  <2>2. models'[promoted[a]].status = "active" /\ models'[promoted[a]].name = n
    BY <1>2, <2>1, CommitFacts
  <2> QED BY <1>2, <2>2 DEF Active
<1> QED BY <1>3, <1>4


\* In the memory store no transaction begins.
LEMMA IdleStep ==
  ASSUME MemoryIdle, Next
  PROVE  MemoryIdle'
<1> SUFFICES ASSUME ~Postgres PROVE disturbed' = {} /\ \A a \in Admins : step'[a] = "idle"
  BY DEF MemoryIdle, Next, Postgres
<1>1. disturbed = {} /\ \A a \in Admins : step[a] = "idle"
  BY DEF MemoryIdle
<1>2. ASSUME NEW i \in Ids, NEW n \in Names, NEW s \in Statuses PROVE ~UpsertInPostgres(i, n, s)
  BY DEF UpsertInPostgres
<1>3. ASSUME NEW a \in Admins PROVE ~Underway(a) /\ ~Commit(a) /\ ~Abort(a)
  <2>1. ASSUME NEW i \in Ids PROVE ~BeginActivate(a, i) /\ ~BeginRollback(a, i)
    BY DEF BeginActivate, BeginRollback, Begin
  <2> QED BY <1>1, <2>1 DEF Underway, Demote, StartDemoting, StartPromoting, Promote, Commit, Abort
<1>4. ASSUME NEW i \in Ids, NEW n \in Names, NEW s \in Statuses,
             UpsertInMemory(i, n, s) \/ ActivateInMemory(i) \/ RollbackInMemory(i)
      PROVE  step' = step /\ disturbed' = disturbed
  BY <1>4 DEF UpsertInMemory, ActivateInMemory, RollbackInMemory
<1>5. step' = step /\ disturbed' = disturbed
  <2>1. ASSUME NEW i \in Ids, ActivateInMemory(i) \/ RollbackInMemory(i)
        PROVE  step' = step /\ disturbed' = disturbed
    BY <2>1 DEF ActivateInMemory, RollbackInMemory
  <2> QED BY <1>2, <1>3, <1>4, <2>1, Steps
<1> QED BY <1>1, <1>5

\* The operations of the memory store find and leave no transaction.
LEMMA InMemoryKeepsTransactions ==
  ASSUME Transactions, MemoryIdle, NEW i \in Ids, NEW n \in Names, NEW s \in Statuses,
         UpsertInMemory(i, n, s) \/ ActivateInMemory(i) \/ RollbackInMemory(i)
  PROVE  Transactions'
<1>1. /\ UNCHANGED <<step, subject, promoted, scan, writes>>
      /\ \A a \in Admins : step[a] = "idle"
  BY DEF UpsertInMemory, ActivateInMemory, RollbackInMemory, MemoryIdle
<1>2. \A a \in Admins : scan[a] = {} /\ \A j \in Ids : writes[a][j] = ""
  BY <1>1 DEF Transactions, Transaction, Scanning, Writing
<1> QED BY <1>1, <1>2 DEF Transactions, Transaction, Chosen, Scanning, Writing, Promoted

LEMMA TransactionsStep ==
  ASSUME TypeOK, Transactions, MemoryIdle, [Next]_vars
  PROVE  Transactions' /\ MemoryIdle'
<1>0. UNCHANGED backend
  BY DEF Next, vars
<1>1. ASSUME NEW i \in Ids, NEW n \in Names, NEW s \in Statuses,
             UpsertInMemory(i, n, s) \/ UpsertInPostgres(i, n, s)
      PROVE  Transactions'
  BY <1>0, <1>1, UpsertKeepsTransactions, InMemoryKeepsTransactions
<1>2. ASSUME NEW i \in Ids, ActivateInMemory(i) \/ RollbackInMemory(i)
      PROVE  Transactions'
  <2>1. models[i].name \in Names /\ "active" \in Statuses
    BY DEF TypeOK, Rows, Statuses
  <2> QED BY <1>2, <2>1, InMemoryKeepsTransactions
<1>3. ASSUME NEW a \in Admins, Underway(a) PROVE Transactions'
  BY <1>0, <1>3, BeginKeepsTransactions, StartDemotingKeepsTransactions, DemoteKeepsTransactions,
     StartPromotingKeepsTransactions, PromoteKeepsTransactions DEF Underway
<1>4. ASSUME NEW a \in Admins, Commit(a) \/ Abort(a) PROVE Transactions'
  BY <1>0, <1>4, FinishKeepsTransactions
<1>5. CASE UNCHANGED vars
  BY <1>5, UnderwayFrame, TransactionFrame DEF vars, Transactions, MemoryIdle, Postgres
<1>6. CASE Next
  BY <1>1, <1>2, <1>3, <1>4, <1>6, Steps, IdleStep
<1> QED BY <1>5, <1>6

\* What transactions know holds in every reachable state.
LEMMA TransactionsHold == Spec => [](Transactions /\ MemoryIdle)
<1>1. Init => MemoryIdle
  BY DEF Init, MemoryIdle
<1> QED BY <1>1, InitTransactions, TransactionsStep, TypeCorrect, PTL DEF Spec

(* In Postgres no registration, and no commit or abort of any number of       *)
(* interleaved activations and rollbacks, leaves a name that had an active    *)
(* version without one.                                                       *)
THEOREM NameStaysServed == Spec => StaysServed
<1> DEFINE Kept == Postgres => \A n \in Names : Active(n) # {} => Active(n)' # {}
<1>1. TypeOK /\ Transactions /\ [Next]_vars => [Kept]_vars
  <2> SUFFICES ASSUME TypeOK, Transactions, Next PROVE Kept
    OBVIOUS
  <2>0. (UNCHANGED models => Kept) /\ UNCHANGED backend
    BY DEF Active, Next
  <2>1. ASSUME NEW i \in Ids, NEW n \in Names, NEW s \in Statuses, UpsertInPostgres(i, n, s)
        PROVE  Kept
    <3>1. ASSUME NEW m \in Names, NEW j \in Active(m) PROVE j \in Active(m)'
      <4>1. CASE j = i
        BY <2>0, <2>1, <3>1, <4>1, UpsertInPostgresFacts DEF Active, Registered
      <4>2. CASE j # i
        BY <2>0, <2>1, <3>1, <4>2, UpsertInPostgresFacts DEF Active
      <4> QED BY <4>1, <4>2
    <3> QED BY <3>1
  <2>2. ASSUME NEW a \in Admins, Underway(a) PROVE Kept
    BY <2>0, <2>2, UnderwayTyped
  <2>3. ASSUME NEW a \in Admins, Commit(a) \/ Abort(a) PROVE Kept
    BY <2>0, <2>3, CommitKeepsActive DEF Abort
  <2>4. ASSUME NEW i \in Ids, NEW n \in Names, NEW s \in Statuses, UpsertInMemory(i, n, s)
        PROVE  Kept
    BY <2>4 DEF UpsertInMemory
  <2>5. ASSUME NEW i \in Ids, ActivateInMemory(i) \/ RollbackInMemory(i)
        PROVE  Kept
    BY <2>5 DEF ActivateInMemory, RollbackInMemory
  <2> HIDE DEF Kept
  <2> QED BY <2>1, <2>2, <2>3, <2>4, <2>5, Steps
<1> QED BY <1>1, TransactionsHold, TypeCorrect, PTL DEF Spec, StaysServed

-----------------------------------------------------------------------------
(* One active version per undisturbed name.                                   *)

\* Transaction a is about name n.
Of(a, n) == step[a] # "idle" /\ models[subject[a]].name = n

\* A name has one active version; one transaction at most is about it; and once
\* that has looked for the active versions, it will take down, has taken down or
\* promotes whatever is active.
QuietName(n) == n \notin disturbed =>
  /\ \A i, j \in Active(n) : i = j
  /\ \A a, b \in Admins : Of(a, n) /\ Of(b, n) => a = b
  /\ \A a \in Admins : Of(a, n) /\ step[a] # "chosen" =>
       \A j \in Active(n) : j \in scan[a] \/ writes[a][j] # "" \/ j = promoted[a]

QuietNames == \A n \in Names : QuietName(n)

\* A step that adds no active version of the name and touches no transaction on
\* it.
LEMMA QuietFrame ==
  ASSUME NEW n \in Names, QuietName(n),
         n \notin disturbed' => n \notin disturbed,
         n \notin disturbed' => Active(n)' \subseteq Active(n),
         \A a \in Admins : Of(a, n)' =>
           /\ Of(a, n)
           /\ step'[a] = step[a] /\ promoted'[a] = promoted[a]
           /\ scan'[a] = scan[a] /\ writes'[a] = writes[a]
  PROVE  QuietName(n)'
<1> SUFFICES ASSUME n \notin disturbed'
             PROVE  /\ (\A i, j \in Active(n) : i = j)'
                    /\ (\A a, b \in Admins : Of(a, n) /\ Of(b, n) => a = b)'
                    /\ (\A a \in Admins : Of(a, n) /\ step[a] # "chosen" =>
                          \A j \in Active(n) : j \in scan[a] \/ writes[a][j] # "" \/ j = promoted[a])'
  BY DEF QuietName
<1>1. Active(n)' \subseteq Active(n)
  OBVIOUS
<1>2. /\ \A i, j \in Active(n) : i = j
      /\ \A a, b \in Admins : Of(a, n) /\ Of(b, n) => a = b
      /\ \A a \in Admins : Of(a, n) /\ step[a] # "chosen" =>
           \A j \in Active(n) : j \in scan[a] \/ writes[a][j] # "" \/ j = promoted[a]
  BY DEF QuietName
<1> QED BY <1>1, <1>2

\* In the memory store nothing is disturbed and nothing under way.
LEMMA QuietInMemory ==
  ASSUME MemoryIdle, ~Postgres
  PROVE  QuietNames <=> OneActivePerName
  BY DEF MemoryIdle, QuietNames, QuietName, Of, OneActivePerName

LEMMA UpsertKeepsQuiet ==
  ASSUME TypeOK, QuietNames,
         NEW i \in Ids, NEW m \in Names, NEW s \in Statuses, UpsertInPostgres(i, m, s),
         UNCHANGED backend, NEW n \in Names, Transactions
  PROVE  QuietName(n)'
<1>1. /\ UNCHANGED <<step, subject, promoted, scan, writes>>
      /\ \A j \in Ids \ {i} : models'[j] = models[j]
      /\ Registered(i) => models'[i].name = models[i].name
      /\ models'[i].name = m
      /\ models'[i].status = "active" => models[i].status = "active" \/ s = "active"
  BY UpsertInPostgresFacts
<1>2. /\ disturbed \subseteq disturbed'
      /\ s = "active" => m \in disturbed'
  BY DEF UpsertInPostgres
<1>3. n \notin disturbed' => Active(n)' \subseteq Active(n)
  BY <1>1, <1>2 DEF Active, Registered
<1>4. ASSUME NEW a \in Admins, Of(a, n)' PROVE Of(a, n)
  <2>1. subject[a] \in Ids /\ Registered(subject[a])
    BY <1>1, <1>4 DEF Of, Transactions, Transaction, Chosen
  <2> QED BY <1>1, <1>4, <2>1 DEF Of
<1> QED BY <1>1, <1>2, <1>3, <1>4, QuietFrame DEF QuietNames

LEMMA BeginKeepsQuiet ==
  ASSUME TypeOK, QuietNames, NEW a \in Admins, NEW i \in Ids,
         BeginActivate(a, i) \/ BeginRollback(a, i), NEW n \in Names
  PROVE  QuietName(n)'
<1>1. PICK j \in Ids : Begin(a, i, j)
  BY BeginFacts
<1>2. /\ step' = [step EXCEPT ![a] = "chosen"]
      /\ subject' = [subject EXCEPT ![a] = i]
      /\ promoted' = [promoted EXCEPT ![a] = j]
      /\ UNCHANGED <<models, scan, writes>>
      /\ disturbed \subseteq disturbed'
      /\ Busy(models[i].name) => models[i].name \in disturbed'
  BY <1>1 DEF Begin
<1>3. /\ step'[a] = "chosen" /\ subject'[a] = i
      /\ \A b \in Admins \ {a} :
           step'[b] = step[b] /\ subject'[b] = subject[b] /\ promoted'[b] = promoted[b]
  BY <1>2 DEF TypeOK
<1>4. Active(n)' = Active(n)
  BY <1>2 DEF Active
<1>5. \A b \in Admins \ {a} : Of(b, n)' <=> Of(b, n)
  BY <1>2, <1>3 DEF Of
<1>6. CASE models[i].name # n
  <2>1. ~Of(a, n)'
    BY <1>2, <1>3, <1>6 DEF Of
  <2> QED BY <1>2, <1>3, <1>4, <1>5, <2>1, QuietFrame DEF QuietNames
<1>7. CASE models[i].name = n
  <2> SUFFICES ASSUME n \notin disturbed'
               PROVE  /\ (\A k, l \in Active(n) : k = l)'
                      /\ (\A b, c \in Admins : Of(b, n) /\ Of(c, n) => b = c)'
                      /\ (\A b \in Admins : Of(b, n) /\ step[b] # "chosen" =>
                            \A k \in Active(n) : k \in scan[b] \/ writes[b][k] # "" \/ k = promoted[b])'
    BY DEF QuietName
  <2>1. ~Busy(n)
    BY <1>2, <1>7
  <2>2. \A b \in Admins \ {a} : ~Of(b, n)'
    BY <1>5, <2>1 DEF Busy, Of
  <2>3. \A k, l \in Active(n) : k = l
    BY <1>2 DEF QuietNames, QuietName
  <2> QED BY <1>3, <1>4, <2>2, <2>3
<1> QED BY <1>6, <1>7

\* A step of transaction a that leaves the rows alone: what it leaves to show is
\* that a still covers the active versions of its name.
LEMMA QuietCover ==
  ASSUME QuietNames, NEW a \in Admins, NEW n \in Names,
         UNCHANGED <<models, subject, promoted, disturbed>>,
         step[a] # "idle",
         \A b \in Admins \ {a} : step'[b] = step[b] /\ scan'[b] = scan[b] /\ writes'[b] = writes[b],
         n \notin disturbed /\ Of(a, n) =>
           \A j \in Active(n) : j \in scan'[a] \/ writes'[a][j] # "" \/ j = promoted[a]
  PROVE  QuietName(n)'
<1>1. Active(n)' = Active(n)
  BY DEF Active
<1>2. \A b \in Admins : Of(b, n)' => Of(b, n)
  BY DEF Of
<1>3. QuietName(n)
  BY DEF QuietNames
<1> QED BY <1>1, <1>2, <1>3 DEF QuietName

LEMMA UnderwayKeepsQuiet ==
  ASSUME TypeOK, Transactions, QuietNames, NEW a \in Admins, Underway(a), NEW n \in Names
  PROVE  QuietName(n)'
<1>0. Transaction(a) /\ QuietName(n)
  BY DEF Transactions, QuietNames
<1>1. CASE StartDemoting(a)
  <2>1. /\ step[a] = "chosen" /\ scan'[a] = ToDemote(a)
        /\ \A b \in Admins \ {a} : step'[b] = step[b] /\ scan'[b] = scan[b]
        /\ UNCHANGED <<models, subject, promoted, writes, disturbed>>
    BY <1>1 DEF StartDemoting, TypeOK
  <2>2. Of(a, n) => \A j \in Active(n) : j \in ToDemote(a) \/ j = promoted[a]
    BY DEF Of, ToDemote
  <2> QED BY <2>1, <2>2, QuietCover
<1>2. ASSUME NEW i \in Ids, Demote(a, i) PROVE QuietName(n)'
  <2>1. /\ step[a] = "demote" /\ scan'[a] = scan[a] \ {i}
        /\ \A b \in Admins \ {a} : scan'[b] = scan[b] /\ writes'[b] = writes[b]
        /\ \A j \in Ids \ {i} : writes'[a][j] = writes[a][j]
        /\ UNCHANGED <<models, step, subject, promoted, disturbed>>
    BY <1>2 DEF Demote, TypeOK
  <2>2. models[i].status = "active" => writes'[a][i] # ""
    <3>1. models[i].status = "active" => writes'[a][i] = Demoted(a)
      BY <1>2 DEF Demote, TypeOK
    <3> QED BY <3>1, DemotedType
  <2>3. n \notin disturbed /\ Of(a, n) =>
          \A j \in Active(n) : j \in scan'[a] \/ writes'[a][j] # "" \/ j = promoted[a]
    BY <1>0, <2>1, <2>2 DEF QuietName, Active
  <2> QED BY <2>1, <2>3, QuietCover
<1>3. CASE StartPromoting(a)
  <2>1. /\ step[a] = "demote"
        /\ \A b \in Admins \ {a} : step'[b] = step[b]
        /\ UNCHANGED <<models, subject, promoted, scan, writes, disturbed>>
    BY <1>3 DEF StartPromoting, TypeOK
  <2> QED BY <1>0, <2>1, QuietCover DEF QuietName
<1>4. CASE Promote(a)
  <2>1. /\ step[a] = "promote"
        /\ \A b \in Admins \ {a} : step'[b] = step[b] /\ writes'[b] = writes[b]
        /\ \A j \in Ids \ {promoted[a]} : writes'[a][j] = writes[a][j]
        /\ UNCHANGED <<models, subject, promoted, scan, disturbed>>
    BY <1>4 DEF Promote, TypeOK
  <2>2. n \notin disturbed /\ Of(a, n) =>
          \A j \in Active(n) : j \in scan'[a] \/ writes'[a][j] # "" \/ j = promoted[a]
    BY <1>0, <2>1 DEF QuietName, Active
  <2> QED BY <2>1, <2>2, QuietCover
<1>5. ASSUME NEW i \in Ids, BeginActivate(a, i) \/ BeginRollback(a, i) PROVE QuietName(n)'
  BY <1>5, BeginKeepsQuiet
<1> QED BY <1>1, <1>2, <1>3, <1>4, <1>5 DEF Underway

\* Once a transaction has ended nothing of it is left, and the rows keep their
\* names: what is about n was so before.
LEMMA FinishLeaves ==
  ASSUME TypeOK, Transactions, NEW a \in Admins, Commit(a) \/ Abort(a), UNCHANGED backend, NEW n \in Names
  PROVE  \A b \in Admins : Of(b, n)' =>
           /\ b # a /\ Of(b, n)
           /\ step'[b] = step[b] /\ promoted'[b] = promoted[b]
           /\ scan'[b] = scan[b] /\ writes'[b] = writes[b]
<1>1. Finish(a)
  BY DEF Commit, Abort
<1>2. /\ step'[a] = "idle"
      /\ \A b \in Admins \ {a} :
           /\ step'[b] = step[b] /\ subject'[b] = subject[b] /\ promoted'[b] = promoted[b]
           /\ scan'[b] = scan[b] /\ writes'[b] = writes[b]
  BY <1>1, FinishFacts
<1>3. \A i \in Ids : models'[i].name = models[i].name
  BY CommitFacts DEF Abort
<1>4. \A b \in Admins : step[b] # "idle" => subject[b] \in Ids
  BY DEF Transactions, Transaction, Chosen
<1> QED BY <1>2, <1>3, <1>4 DEF Of

LEMMA CommitKeepsQuiet ==
  ASSUME TypeOK, Transactions, QuietNames, NEW a \in Admins, Commit(a), UNCHANGED backend, NEW n \in Names
  PROVE  QuietName(n)'
<1>1. /\ Transaction(a) /\ QuietName(n)
      /\ step[a] = "commit" /\ UNCHANGED disturbed
  BY DEF Transactions, QuietNames, Commit, Finish
<1>2. \A i \in Ids :
        /\ models'[i].name = models[i].name
        /\ models'[i].status = IF writes[a][i] = "" THEN models[i].status ELSE writes[a][i]
  BY CommitFacts
<1>3. promoted[a] \in Ids /\ models[subject[a]].name = models[promoted[a]].name
  BY <1>1 DEF Transaction, Chosen
<1>4. scan[a] = {}
  BY <1>1 DEF Transaction, Scanning
<1>5. CASE models[promoted[a]].name # n
  <2>1. Active(n)' \subseteq Active(n)
    BY <1>1, <1>2, <1>5 DEF Active, Transaction, Writing
  <2> QED BY <1>1, <2>1, FinishLeaves, QuietFrame
<1>6. CASE models[promoted[a]].name = n
  <2> SUFFICES ASSUME n \notin disturbed
               PROVE  /\ (\A i, j \in Active(n) : i = j)'
                      /\ \A b \in Admins : ~Of(b, n)'
    BY <1>1 DEF QuietName
  <2>1. Of(a, n)
    BY <1>1, <1>3, <1>6 DEF Of
  <2>2. \A b \in Admins : ~Of(b, n)'
    BY <1>1, <2>1, FinishLeaves DEF QuietName
  <2>3. ASSUME NEW i \in Ids, i \in Active(n)' PROVE i = promoted[a]
    <3>0. models'[i].status = "active" /\ models'[i].name = n
      BY <2>3 DEF Active
    <3>1. CASE writes[a][i] = ""
      <4>1. i \in Active(n)
        BY <1>2, <3>0, <3>1 DEF Active
      <4> QED BY <1>1, <1>4, <2>1, <3>1, <4>1 DEF QuietName
    <3>2. CASE writes[a][i] # ""
      BY <1>1, <1>2, <3>0, <3>2 DEF Transaction, Writing
    <3> QED BY <3>1, <3>2
  <2>4. Active(n)' \subseteq Ids
    BY DEF Active
  <2> QED BY <2>2, <2>3, <2>4
<1> QED BY <1>5, <1>6

LEMMA AbortKeepsQuiet ==
  ASSUME TypeOK, Transactions, QuietNames, NEW a \in Admins, Abort(a), UNCHANGED backend, NEW n \in Names
  PROVE  QuietName(n)'
<1>1. UNCHANGED <<models, disturbed>>
  BY DEF Abort, Finish
<1>2. Active(n)' = Active(n)
  BY <1>1 DEF Active
<1> QED BY <1>1, <1>2, FinishLeaves, QuietFrame DEF QuietNames

LEMMA QuietStep ==
  ASSUME TypeOK, Transactions, MemoryIdle, QuietNames, Next
  PROVE  QuietNames'
<1>0. UNCHANGED backend /\ MemoryIdle'
  BY IdleStep DEF Next
<1>1. ASSUME NEW i \in Ids, NEW m \in Names, NEW s \in Statuses, UpsertInPostgres(i, m, s)
      PROVE  QuietNames'
  BY <1>0, <1>1, UpsertKeepsQuiet DEF QuietNames
<1>2. ASSUME NEW a \in Admins, Underway(a) PROVE QuietNames'
  BY <1>2, UnderwayKeepsQuiet DEF QuietNames
<1>3. ASSUME NEW a \in Admins, Commit(a) \/ Abort(a) PROVE QuietNames'
  BY <1>0, <1>3, CommitKeepsQuiet, AbortKeepsQuiet DEF QuietNames
<1>4. ASSUME ~Postgres, OneActivePerName' PROVE QuietNames'
  <2>1. (~Postgres)'
    BY <1>0, <1>4 DEF Postgres
  <2> QED BY <1>0, <1>4, <2>1 DEF MemoryIdle, QuietNames, QuietName, Of, OneActivePerName
<1>5. ASSUME NEW i \in Ids, NEW m \in Names, NEW s \in Statuses, UpsertInMemory(i, m, s)
      PROVE  QuietNames'
  <2>1. ~Postgres
    BY <1>5 DEF UpsertInMemory
  <2> QED BY <1>0, <1>4, <1>5, <2>1, QuietInMemory, UpsertInMemoryKeepsOne
<1>6. ASSUME NEW i \in Ids, ActivateInMemory(i) \/ RollbackInMemory(i)
      PROVE  QuietNames'
  <2>1. ~Postgres
    BY <1>6 DEF ActivateInMemory, RollbackInMemory
  <2> QED BY <1>0, <1>4, <1>6, <2>1, QuietInMemory, ActivateInMemoryKeepsOne, RollbackInMemoryKeepsOne
<1> QED BY <1>1, <1>2, <1>3, <1>5, <1>6, Steps

(* As long as the transactions on a name do not overlap and nobody registers  *)
(* it active, the name has one active version at most, for any number of      *)
(* versions, names and admin requests and wherever transactions end; in the   *)
(* memory store, where nothing overlaps, for ever.  The invariant follows the *)
(* one transaction on the name: what is active it has found, has written, or  *)
(* is what it promotes.                                                       *)
THEOREM QuietOneActive == Spec => []QuietNameOneActive
<1>1. Init => QuietNames
  <2> SUFFICES ASSUME Init PROVE QuietNames
    OBVIOUS
  <2>1. PICK n \in Names :
          models = [i \in Ids |-> [status |-> "absent", name |-> n, activated |-> 0, created |-> 0]]
    BY DEF Init
  <2>2. \A m \in Names : Active(m) = {}
    BY <2>1 DEF Active
  <2> QED BY <2>2 DEF Init, QuietNames, QuietName, Of
<1>2. TypeOK /\ Transactions /\ MemoryIdle /\ QuietNames /\ [Next]_vars => QuietNames'
  <2> SUFFICES ASSUME TypeOK, Transactions, MemoryIdle, QuietNames, [Next]_vars PROVE QuietNames'
    OBVIOUS
  <2>1. CASE UNCHANGED vars
    BY <2>1 DEF vars, QuietNames, QuietName, Of, Active
  <2> QED BY <2>1, QuietStep
<1>3. QuietNames => QuietNameOneActive
  BY DEF QuietNames, QuietName, QuietNameOneActive
<1> QED BY <1>1, <1>2, <1>3, TypeCorrect, TransactionsHold, PTL DEF Spec

-----------------------------------------------------------------------------
(* The active version is the one activated last.                              *)

\* No row and no transaction bears an instant that is still to come.
Instants ==
  /\ \A i \in Ids : models[i].activated <= clock
  /\ \A a \in Admins : stamp[a] <= clock

\* The instants at which versions of a name were activated.
Activations(n) == {models[j].activated : j \in {i \in Ids : Registered(i) /\ models[i].name = n}}

\* Nothing of the name was activated after what is active, nor after the
\* instant of the transaction that is about to commit.
NewestName(n) == n \notin disturbed =>
  /\ \A i \in Active(n) : \A t \in Activations(n) : t <= models[i].activated
  /\ \A a \in Admins : Of(a, n) /\ step[a] \in {"promote", "commit"} =>
       \A t \in Activations(n) : t <= stamp[a]

Newest == Postgres => Instants /\ \A n \in Names : NewestName(n)

\* A step that activates nothing and stamps no transaction keeps the instants.
LEMMA NewestFrame ==
  ASSUME NEW n \in Names, NewestName(n),
         n \notin disturbed' => n \notin disturbed,
         UNCHANGED models,
         \A a \in Admins : Of(a, n)' /\ step'[a] \in {"promote", "commit"} =>
           /\ Of(a, n) /\ step[a] \in {"promote", "commit"}
           /\ stamp'[a] = stamp[a]
  PROVE  NewestName(n)'
<1>1. Active(n)' = Active(n) /\ Activations(n)' = Activations(n)
  BY DEF Active, Activations, Registered
<1> QED BY <1>1 DEF NewestName

LEMMA UpsertKeepsNewest ==
  ASSUME TypeOK, Transactions, Instants, \A n \in Names : NewestName(n),
         NEW i \in Ids, NEW m \in Names, NEW s \in Statuses, UpsertInPostgres(i, m, s),
         UNCHANGED backend
  PROVE  Instants' /\ \A n \in Names : NewestName(n)'
<1>1. /\ UNCHANGED <<step, subject, promoted, scan, stamp, writes>>
      /\ \A j \in Ids \ {i} : models'[j] = models[j]
      /\ Registered(i) => models'[i].name = models[i].name
      /\ models'[i].name = m
      /\ models'[i].status = "active" => models[i].status = "active" \/ s = "active"
      /\ models'[i].activated = IF Registered(i) THEN models[i].activated ELSE 0
      /\ clock' = clock + 1
  BY UpsertInPostgresFacts
<1>2. /\ disturbed \subseteq disturbed'
      /\ s = "active" => m \in disturbed'
  BY DEF UpsertInPostgres
<1>3. clock \in Nat /\ \A j \in Ids : models[j].activated \in Nat
  BY DEF TypeOK, Rows
<1>3a. \A a \in Admins : stamp[a] \in Nat
  BY DEF TypeOK
<1>4. Instants'
  <2>1. \A j \in Ids : models'[j].activated <= clock
    BY <1>1, <1>3 DEF Instants
  <2>2. \A j \in Ids : models'[j].activated \in Nat
    BY <1>1, <1>3
  <2> QED BY <1>1, <1>3, <1>3a, <2>1, <2>2 DEF Instants
<1>5. ASSUME NEW n \in Names, n \notin disturbed' PROVE NewestName(n)'
  <2>1. Active(n)' \subseteq Active(n) /\ n \notin disturbed
    BY <1>1, <1>2, <1>5 DEF Active, Registered
  <2>2. ASSUME NEW a \in Admins, Of(a, n)' PROVE Of(a, n)
    <3>1. subject[a] \in Ids /\ Registered(subject[a])
      BY <1>1, <2>2 DEF Of, Transactions, Transaction, Chosen
    <3> QED BY <1>1, <2>2, <3>1 DEF Of
  <2>3. Activations(n)' \subseteq Activations(n) \cup {0}
    <3>1. ASSUME NEW j \in Ids, Registered(j)', models'[j].name = n
          PROVE  models'[j].activated \in Activations(n) \cup {0}
      <4>1. CASE j = i /\ ~Registered(i)
        BY <1>1, <4>1
      <4>2. CASE j = i /\ Registered(i)
        BY <1>1, <3>1, <4>2 DEF Activations
      <4>3. CASE j # i
        BY <1>1, <3>1, <4>3 DEF Activations, Registered
      <4> QED BY <4>1, <4>2, <4>3
    <3> QED BY <3>1 DEF Activations
  <2>4. \A j \in Active(n)' : j \in Active(n) /\ models'[j].activated = models[j].activated /\ 0 <= models[j].activated
    BY <1>1, <1>3, <2>1 DEF Active, Registered
  <2>5. \A a \in Admins : 0 <= stamp[a]
    BY <1>3a
  <2> QED BY <1>1, <2>1, <2>2, <2>3, <2>4, <2>5 DEF NewestName
<1> QED BY <1>4, <1>5 DEF NewestName

LEMMA UnderwayKeepsNewest ==
  ASSUME TypeOK, Instants, \A n \in Names : NewestName(n), NEW a \in Admins, Underway(a), UNCHANGED backend
  PROVE  Instants' /\ \A n \in Names : NewestName(n)'
<1>0. UNCHANGED models /\ clock \in Nat /\ stamp \in [Admins -> Nat] /\ step \in [Admins -> {"idle", "chosen", "demote", "promote", "commit"}]
  BY UnderwayTyped DEF TypeOK
<1>1. \A j \in Ids : models[j].activated \in Nat
  BY DEF TypeOK, Rows
<1>2. CASE StartPromoting(a)
  <2>1. /\ clock' = clock + 1 /\ stamp'[a] = clock + 1 /\ step'[a] = "promote"
        /\ \A b \in Admins \ {a} : stamp'[b] = stamp[b] /\ step'[b] = step[b]
        /\ UNCHANGED <<models, subject, disturbed>>
    BY <1>0, <1>2 DEF StartPromoting
  <2>2. Instants'
    <3>1. \A j \in Ids : models[j].activated <= clock + 1
      BY <1>0, <1>1 DEF Instants
    <3>2. \A b \in Admins : stamp'[b] <= clock + 1
      BY <1>0, <2>1 DEF Instants
    <3> QED BY <2>1, <3>1, <3>2 DEF Instants
  <2>3. ASSUME NEW n \in Names PROVE NewestName(n)'
    <3>1. \A t \in Activations(n) : t <= clock + 1
      BY <1>0, <1>1 DEF Instants, Activations
    <3>2. Active(n)' = Active(n) /\ Activations(n)' = Activations(n)
      BY <2>1 DEF Active, Activations, Registered
    <3>3. \A b \in Admins \ {a} : Of(b, n)' /\ step'[b] \in {"promote", "commit"} =>
            Of(b, n) /\ step[b] \in {"promote", "commit"}
      BY <2>1 DEF Of
    <3> QED BY <2>1, <3>1, <3>2, <3>3 DEF NewestName
  <2> QED BY <2>2, <2>3
<1>3. CASE ~StartPromoting(a)
  <2>1. /\ UNCHANGED <<clock, stamp>> /\ disturbed \subseteq disturbed'
        /\ \A n \in Names, b \in Admins : Of(b, n)' /\ step'[b] \in {"promote", "commit"} =>
             Of(b, n) /\ step[b] \in {"promote", "commit"}
    <3>1. ASSUME NEW i \in Ids, BeginActivate(a, i) \/ BeginRollback(a, i)
          PROVE  <2>1!:
      <4>1. PICK j \in Ids : Begin(a, i, j)
        BY <3>1, BeginFacts
      <4> QED BY <1>0, <4>1 DEF Begin, Of, TypeOK
    <3>2. ASSUME NEW i \in Ids, Demote(a, i) PROVE <2>1!:
      BY <3>2 DEF Demote, Of
    <3>3. CASE StartDemoting(a)
      BY <1>0, <3>3 DEF StartDemoting, Of
    <3>4. CASE Promote(a)
      BY <1>0, <3>4 DEF Promote, Of
    <3> QED BY <1>3, <3>1, <3>2, <3>3, <3>4 DEF Underway
  <2>2. Instants'
    BY <1>0, <2>1 DEF Instants
  <2>3. ASSUME NEW n \in Names PROVE NewestName(n)'
    BY <1>0, <2>1, NewestFrame
  <2> QED BY <2>2, <2>3
<1> QED BY <1>2, <1>3

LEMMA FinishKeepsStamps ==
  ASSUME TypeOK, Transactions, NEW a \in Admins, Commit(a) \/ Abort(a), UNCHANGED backend, NEW n \in Names
  PROVE  /\ UNCHANGED <<clock, disturbed>>
         /\ \A b \in Admins : stamp'[b] = stamp[b] \/ stamp'[b] = 0
         /\ \A b \in Admins : Of(b, n)' => b # a /\ Of(b, n) /\ step'[b] = step[b] /\ stamp'[b] = stamp[b]
<1>1. Finish(a)
  BY DEF Commit, Abort
<1>2. /\ UNCHANGED <<clock, disturbed>> /\ stamp'[a] = 0
      /\ \A b \in Admins \ {a} : stamp'[b] = stamp[b]
  BY <1>1, FinishFacts
<1> QED BY <1>2, FinishLeaves

LEMMA AbortKeepsNewest ==
  ASSUME TypeOK, Transactions, Instants, \A n \in Names : NewestName(n),
         NEW a \in Admins, Abort(a), UNCHANGED backend
  PROVE  Instants' /\ \A n \in Names : NewestName(n)'
<1>1. UNCHANGED models /\ clock \in Nat /\ \A b \in Admins : stamp[b] \in Nat
  BY DEF Abort, TypeOK
<1>2. ASSUME NEW n \in Names PROVE NewestName(n)' /\ UNCHANGED clock /\ \A b \in Admins : stamp'[b] = stamp[b] \/ stamp'[b] = 0
  BY <1>1, FinishKeepsStamps, NewestFrame
<1>3. UNCHANGED clock /\ \A b \in Admins : stamp'[b] <= clock
  <2>1. Finish(a)
    BY DEF Abort
  <2>2. UNCHANGED clock /\ stamp'[a] = 0 /\ \A b \in Admins \ {a} : stamp'[b] = stamp[b]
    BY <2>1, FinishFacts
  <2> QED BY <1>1, <2>2 DEF Instants
<1> QED BY <1>1, <1>2, <1>3 DEF Instants

LEMMA CommitKeepsNewest ==
  ASSUME TypeOK, Transactions, QuietNames, Instants, \A n \in Names : NewestName(n),
         NEW a \in Admins, Commit(a), UNCHANGED backend
  PROVE  Instants' /\ \A n \in Names : NewestName(n)'
<1>1. /\ clock \in Nat /\ (\A b \in Admins : stamp[b] \in Nat)
      /\ \A i \in Ids : models[i].activated \in Nat
  BY DEF TypeOK, Rows
<1>2. \A i \in Ids :
        /\ models'[i].name = models[i].name
        /\ models'[i].status = IF writes[a][i] = "" THEN models[i].status ELSE writes[a][i]
        /\ models'[i].activated = IF writes[a][i] = "active" THEN stamp[a] ELSE models[i].activated
  BY CommitFacts
<1>3. /\ Transaction(a) /\ step[a] = "commit" /\ Finish(a)
      /\ promoted[a] \in Ids /\ models[subject[a]].name = models[promoted[a]].name
      /\ scan[a] = {} /\ writes[a][promoted[a]] = "active"
      /\ \A i \in Ids : writes[a][i] # "" => Registered(i) /\ models[i].name = models[promoted[a]].name
      /\ \A i \in Ids : writes[a][i] = "active" => i = promoted[a]
  <2>1. Transaction(a) /\ step[a] = "commit" /\ Finish(a)
    BY DEF Transactions, Commit
  <2>2. scan[a] = {}
    BY <2>1 DEF Transaction, Scanning
  <2> QED BY <2>1, <2>2 DEF Transaction, Chosen, Writing, Promoted
<1>4. UNCHANGED <<clock, disturbed>> /\ \A b \in Admins : stamp'[b] <= clock
  <2>2. UNCHANGED <<clock, disturbed>> /\ stamp'[a] = 0 /\ \A b \in Admins \ {a} : stamp'[b] = stamp[b]
    BY <1>3, FinishFacts
  <2> QED BY <1>1, <2>2 DEF Instants
<1>5. Instants'
  <2>1. \A i \in Ids : models'[i].activated <= clock
    BY <1>1, <1>2 DEF Instants
  <2> QED BY <1>4, <2>1 DEF Instants
<1>6. ASSUME NEW i \in Ids, Registered(i)' PROVE Registered(i)
  BY <1>2, <1>3, <1>6 DEF Registered
<1>7. ASSUME NEW n \in Names, models[promoted[a]].name # n PROVE NewestName(n)'
  <2>1. \A i \in Ids : models[i].name = n =>
          models'[i].status = models[i].status /\ models'[i].activated = models[i].activated
    BY <1>2, <1>3, <1>7
  <2>2. Activations(n)' \subseteq Activations(n)
    <3>1. ASSUME NEW j \in Ids, Registered(j)', models'[j].name = n
          PROVE  models'[j].activated \in Activations(n)
      <4>1. Registered(j) /\ models[j].name = n /\ models'[j].activated = models[j].activated
        BY <1>2, <1>6, <2>1, <3>1, Zenon
      <4> QED BY <4>1 DEF Activations
    <3> QED BY <3>1 DEF Activations
  <2>3. \A i \in Active(n)' : i \in Active(n) /\ models'[i].activated = models[i].activated
    BY <1>2, <2>1 DEF Active
  <2>4. \A b \in Admins : Of(b, n)' => Of(b, n) /\ step'[b] = step[b] /\ stamp'[b] = stamp[b]
    BY FinishKeepsStamps
  <2>5. NewestName(n) /\ UNCHANGED disturbed
    BY <1>4
  <2> SUFFICES ASSUME n \notin disturbed
               PROVE  /\ (\A i \in Active(n) : \A t \in Activations(n) : t <= models[i].activated)'
                      /\ (\A b \in Admins : Of(b, n) /\ step[b] \in {"promote", "commit"} =>
                            \A t \in Activations(n) : t <= stamp[b])'
    BY <2>5 DEF NewestName
  <2> QED BY <2>2, <2>3, <2>4, <2>5 DEF NewestName
<1>8. ASSUME NEW n \in Names, models[promoted[a]].name = n, n \notin disturbed PROVE NewestName(n)'
  <2>1. Of(a, n) /\ QuietName(n) /\ NewestName(n)
    BY <1>3, <1>8 DEF Of, QuietNames
  <2>2. \A b \in Admins : ~Of(b, n)'
    BY <1>8, <2>1, FinishLeaves DEF QuietName
  <2>3. ASSUME NEW i \in Active(n)' PROVE i = promoted[a]
    <3>0. i \in Ids /\ models'[i].status = "active" /\ models'[i].name = n
      BY DEF Active
    <3>1. CASE writes[a][i] = ""
      <4>1. i \in Active(n)
        BY <1>2, <3>0, <3>1 DEF Active
      <4> QED BY <1>3, <1>8, <2>1, <3>1, <4>1 DEF QuietName
    <3>2. CASE writes[a][i] # ""
      BY <1>2, <1>3, <3>0, <3>2
    <3> QED BY <3>1, <3>2
  <2>4. \A t \in Activations(n) : t <= stamp[a]
    BY <1>3, <1>8, <2>1 DEF NewestName
  <2>5. Activations(n)' \subseteq Activations(n) \cup {stamp[a]}
    BY <1>2, <1>6 DEF Activations
  <2>6. models'[promoted[a]].activated = stamp[a] /\ stamp[a] <= stamp[a]
    <3>1. models'[promoted[a]].activated = stamp[a]
      BY <1>2, <1>3, Zenon
    <3>2. stamp[a] <= stamp[a]
      BY <1>1
    <3> QED BY <3>1, <3>2
  <2>7. \A i \in Active(n)' : \A t \in Activations(n)' : t <= models'[i].activated
    BY <2>3, <2>4, <2>5, <2>6
  <2> QED BY <2>2, <2>7 DEF NewestName
<1>9. ASSUME NEW n \in Names, n \in disturbed PROVE NewestName(n)'
  BY <1>4, <1>9 DEF NewestName
<1> QED BY <1>5, <1>7, <1>8, <1>9

LEMMA NewestStep ==
  ASSUME TypeOK, Transactions, QuietNames, Newest, Next
  PROVE  Newest'
<1>0. UNCHANGED backend /\ (Postgres' <=> Postgres)
  BY DEF Next, Postgres
<1> SUFFICES ASSUME Postgres PROVE Instants' /\ \A n \in Names : NewestName(n)'
  BY <1>0 DEF Newest
<1>1. Instants /\ \A n \in Names : NewestName(n)
  BY DEF Newest
<1>2. ASSUME NEW i \in Ids, NEW n \in Names, NEW s \in Statuses,
             UpsertInMemory(i, n, s) \/ UpsertInPostgres(i, n, s)
      PROVE  Instants' /\ \A m \in Names : NewestName(m)'
  BY <1>0, <1>1, <1>2, UpsertKeepsNewest DEF UpsertInMemory
<1>3. ASSUME NEW a \in Admins, Underway(a) PROVE Instants' /\ \A m \in Names : NewestName(m)'
  BY <1>0, <1>1, <1>3, UnderwayKeepsNewest
<1>4. ASSUME NEW a \in Admins, Commit(a) \/ Abort(a) PROVE Instants' /\ \A m \in Names : NewestName(m)'
  BY <1>0, <1>1, <1>4, CommitKeepsNewest, AbortKeepsNewest
<1>5. ~\E i \in Ids : ActivateInMemory(i) \/ RollbackInMemory(i)
  BY DEF ActivateInMemory, RollbackInMemory
<1> QED BY <1>2, <1>3, <1>4, <1>5, Steps

(* In Postgres, as long as the transactions on a name do not overlap and      *)
(* nobody registers it active, its active version is the one activated last,  *)
(* whatever aborts and however transactions on other names interleave; the    *)
(* activated_at that a rollback goes by never leads past the version that was *)
(* active before.  The instant of an UPDATE that promotes is drawn before the *)
(* commit: the invariant says nothing of the name is activated in between.    *)
THEOREM ActiveVersionIsNewest == Spec => []ActiveIsNewest
<1>1. Init => QuietNames /\ Newest
  <2> SUFFICES ASSUME Init PROVE QuietNames /\ Newest
    OBVIOUS
  <2>1. PICK n \in Names :
          models = [i \in Ids |-> [status |-> "absent", name |-> n, activated |-> 0, created |-> 0]]
    BY DEF Init
  <2>2. \A i \in Ids : models[i].status = "absent" /\ models[i].activated = 0
    BY <2>1
  <2>3. \A m \in Names : Active(m) = {}
    BY <2>2 DEF Active
  <2>4. clock = 0 /\ \A a \in Admins : stamp[a] = 0 /\ step[a] = "idle"
    BY DEF Init
  <2>5. QuietNames /\ \A m \in Names : NewestName(m)
    BY <2>3, <2>4, Zenon DEF QuietNames, QuietName, Of, NewestName
  <2>6. Instants
    BY <2>2, <2>4 DEF Instants
  <2> QED BY <2>5, <2>6 DEF Newest
<1>2. TypeOK /\ Transactions /\ MemoryIdle /\ QuietNames /\ Newest /\ [Next]_vars => QuietNames' /\ Newest'
  <2> SUFFICES ASSUME TypeOK, Transactions, MemoryIdle, QuietNames, Newest, [Next]_vars
               PROVE  QuietNames' /\ Newest'
    OBVIOUS
  <2>1. CASE UNCHANGED vars
    <3>1. QuietNames'
      BY <2>1 DEF vars, QuietNames, QuietName, Of, Active
    <3>2. Newest'
      BY <2>1 DEF vars, Newest, Instants, NewestName, Activations, Of, Active, Postgres, Registered
    <3> QED BY <3>1, <3>2
  <2> QED BY <2>1, QuietStep, NewestStep
<1>3. TypeOK /\ Newest => ActiveIsNewest
  <2> SUFFICES ASSUME TypeOK, Newest, Postgres, NEW i \in Ids, NEW j \in Ids,
                      models[i].status = "active", models[i].name \notin disturbed,
                      Registered(j), models[i].name = models[j].name
               PROVE  models[j].activated <= models[i].activated
    BY DEF ActiveIsNewest
  <2>1. models[i].name \in Names /\ i \in Active(models[i].name)
    BY DEF TypeOK, Rows, Active
  <2>2. models[j].activated \in Activations(models[i].name)
    BY DEF Activations
  <2> QED BY <2>1, <2>2 DEF Newest, NewestName
<1> QED BY <1>1, <1>2, <1>3, TypeCorrect, TransactionsHold, PTL DEF Spec
=============================================================================
