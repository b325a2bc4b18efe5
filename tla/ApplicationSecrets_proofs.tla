------------------------ MODULE ApplicationSecrets_proofs ------------------------
(***************************************************************************)
(* Proofs about the client secrets, for any sets of admins, clients and     *)
(* ids, any number of secrets, failures and restarts, over both stores:     *)
(* the secret in force is the one that was told last, and only a rotation   *)
(* changes it.                                                              *)
(*                                                                         *)
(* What a save in flight carries is as much part of the argument as the     *)
(* rows: as long as no other save or rotation of its client came between    *)
(* (stale), its hash is the one in force or a newer one.                    *)
(***************************************************************************)
EXTENDS ApplicationSecrets, FiniteSetTheorems, TLAPS

Row == [client : Clients, secret : 0..issued]
Save == [client : Clients, id : Ids \union {None}, hash : 1..issued,
         fresh : BOOLEAN, blind : BOOLEAN, stale : BOOLEAN]
AnySave == [client : Clients, id : Ids \union {None}, hash : Nat,
            fresh : BOOLEAN, blind : BOOLEAN, stale : BOOLEAN]
Hidden == {"unheard", "mixed"}

\* One row of the client, not older than its last rotation, told to somebody, and not older than
\* anything that was told: each as far as the history of the client does not excuse it.
OneRow(c) == "mixed" \notin upset[c] => \A i, j \in RowsOf(rows, c) : i = j
NotRotatedOut(c) == "mixed" \notin upset[c] => \A i \in RowsOf(rows, c) : rotated[c] <= rows[i].secret
RowsWereTold(c) ==
  upset[c] \intersect Hidden = {} => \A i \in RowsOf(rows, c) : rows[i].secret # 0 => <<c, rows[i].secret>> \in told
RowIsNewest(c) ==
  upset[c] = {} => \A v \in 1..issued : <<c, v>> \in told => \E i \in RowsOf(rows, c) : v <= rows[i].secret
ClientInv(c) == OneRow(c) /\ NotRotatedOut(c) /\ RowsWereTold(c) /\ RowIsNewest(c)

\* The same of the hash r that a save carries for the client.
Carries(r, c) ==
  /\ "mixed" \notin upset[c] => rotated[c] <= r.hash
  /\ ~r.fresh /\ upset[c] \intersect Hidden = {} => <<c, r.hash>> \in told
  /\ upset[c] = {} => \A v \in 1..issued : <<c, v>> \in told => v <= r.hash
  /\ ~r.blind => \A i \in RowsOf(rows, c) : rows[i].secret # 0 => rows[i].secret = r.hash
RequestInv(a) == request[a] # NoSave /\ ~request[a].stale => Carries(request[a], request[a].client)

IInv ==
  /\ TypeOK
  /\ \A a \in Admins : request[a] # NoSave => request[a].hash # 0
  /\ \A c \in Clients : ClientInv(c)
  /\ \A a \in Admins : RequestInv(a)

----------------------------------------------------------------------------
(* The rows.                                                                *)

\* A client has not several rows exactly when any two of its rows are the same.
LEMMA FewRows ==
  ASSUME NEW t, NEW c
  PROVE  /\ ~(Cardinality(RowsOf(t, c)) > 1) => \A i, j \in RowsOf(t, c) : i = j
         /\ (\A i, j \in RowsOf(t, c) : i = j) => ~(Cardinality(RowsOf(t, c)) > 1)
         /\ ~(Cardinality(RowsOf(t, c)) > 0) => RowsOf(t, c) = {}
<1> DEFINE R == RowsOf(t, c)
<1>1. IsFiniteSet(R) /\ Cardinality(R) \in Nat
  BY FS_Subset, FS_CardinalityType, SecretsAssumption DEF RowsOf
<1>2. ASSUME ~(Cardinality(R) > 1), NEW i \in R, NEW j \in R
      PROVE  i = j
  <2>1. Cardinality(R) # 0
    BY <1>1, FS_EmptySet
  <2>2. Cardinality(R) = 1
    <3> HIDE DEF R
    <3> QED BY <1>1, <1>2, <2>1
  <2>3. PICK x : R = {x}
    BY <1>1, <2>2, FS_Singleton
  <2> QED BY <2>3
<1>3. ASSUME \A i, j \in R : i = j
      PROVE  ~(Cardinality(R) > 1)
  <2>1. CASE R = {}
    BY <2>1, FS_EmptySet
  <2>2. CASE R # {}
    <3>1. PICK x : x \in R
      BY <2>2
    <3>2. R = {x}
      BY <1>3, <3>1
    <3>3. Cardinality({x}) = 1
      BY FS_Singleton
    <3> HIDE DEF R
    <3> QED BY <3>2, <3>3
  <2> QED BY <2>1, <2>2
<1>4. ASSUME ~(Cardinality(R) > 0)
      PROVE  R = {}
  <2>1. Cardinality(R) = 0
    <3> HIDE DEF R
    <3> QED BY <1>1, <1>4
  <2> QED BY <1>1, <2>1, FS_EmptySet
<1> QED BY <1>2, <1>3, <1>4

\* Both stores put the client and the hash in one row (UpsertApplication of memory.go and postgres.go).
LEMMA UpsertFacts ==
  ASSUME TypeOK, NEW c \in Clients, NEW id \in Ids \union {None}, NEW h \in 1..issued,
         NEW t \in Upsert(rows, c, id, h)
  PROVE  \E i \in Ids : t = [rows EXCEPT ![i] = [client |-> c, secret |-> h]]
<1>1. CASE backend = "memory"
  <2>1. MemoryTargets(rows, c, id) \subseteq Ids
    BY DEF MemoryTargets, Unused, RowsOf
  <2> QED BY <1>1, <2>1 DEF Upsert, UpsertInMemory
<1>2. CASE backend # "memory" /\ RowsOf(rows, c) # {}
  <2>1. PICK i \in RowsOf(rows, c) : t = [rows EXCEPT ![i].secret = Coalesce(h, @)]
    BY <1>2 DEF Upsert, UpsertInPostgres
  <2>2. i \in Ids /\ rows[i].client = c /\ Coalesce(h, rows[i].secret) = h
    BY <2>1 DEF RowsOf, Coalesce
  <2>3. rows[i] \in [client : Clients, secret : 0..issued]
    BY <2>2, SecretsAssumption DEF TypeOK, NoRow
  <2>4. [rows[i] EXCEPT !.secret = h] = [client |-> c, secret |-> h]
    BY <2>2, <2>3
  <2>5. t = [rows EXCEPT ![i] = [rows[i] EXCEPT !.secret = h]]
    BY <2>1, <2>2 DEF TypeOK
  <2> QED BY <2>2, <2>4, <2>5
<1>3. CASE backend # "memory" /\ RowsOf(rows, c) = {}
  BY <1>3 DEF Upsert, UpsertInPostgres, Unused, RowsOf
<1> QED BY <1>1, <1>2, <1>3

\* A rotation changes the secret of one row of the client.
LEMMA RotatedFacts ==
  ASSUME TypeOK, NEW c \in Clients, NEW h, NEW t \in Rotated(rows, c, h)
  PROVE  \E i \in RowsOf(rows, c) : t = [rows EXCEPT ![i] = [client |-> c, secret |-> h]]
<1>1. PICK i \in RowsOf(rows, c) : t = [rows EXCEPT ![i].secret = h]
  BY DEF Rotated
<1>2. i \in Ids /\ rows[i].client = c
  BY DEF RowsOf
<1>3. rows[i] \in [client : Clients, secret : 0..issued]
  BY <1>2, SecretsAssumption DEF TypeOK, NoRow
<1>4. [rows[i] EXCEPT !.secret = h] = [client |-> c, secret |-> h]
  BY <1>2, <1>3
<1> QED BY <1>1, <1>4

\* A row with a secret opens the calls with that secret, and one without opens all.
LEMMA AcceptsFacts ==
  ASSUME TypeOK, NEW c \in Clients
  PROVE  /\ \A v \in Nat \ {0} : Accepts(c, v, TRUE) <=> \E i \in RowsOf(rows, c) : rows[i].secret = v
         /\ Accepts(c, 0, FALSE) <=> \E i \in RowsOf(rows, c) : rows[i].secret = 0
<1> SUFFICES ASSUME NEW v \in Nat, NEW production \in BOOLEAN
             PROVE  Accepts(c, v, production) <=>
                    \E i \in RowsOf(rows, c) :
                      IF rows[i].secret = 0 THEN ~production ELSE v = rows[i].secret
  OBVIOUS
<1>1. \A i \in RowsOf(rows, c) : rows[i].client = c /\ c # None
  BY SecretsAssumption DEF RowsOf
<1> QED BY <1>1 DEF Accepts, Lookups, Admits, VerifyClientSecret, NoRow

LEMMA AcceptsAfter ==
  ASSUME NEW c \in Clients
  PROVE  (Accepts(c, 0, FALSE) <=> \E i \in RowsOf(rows, c) : rows[i].secret = 0)'
<1>1. \A i \in RowsOf(rows', c) : rows'[i].client = c /\ c # None
  BY SecretsAssumption DEF RowsOf
<1> QED BY <1>1 DEF Accepts, Lookups, Admits, VerifyClientSecret, NoRow

----------------------------------------------------------------------------
(* One lemma per action: type correctness and what the action does, from which  *)
(* the rest follows.                                                        *)

LEMMA OutcomeSpends ==
  ASSUME TypeOK, NEW outcome \in Outcomes, Spend(outcome)
  PROVE  troubles' \in 0..MaxTroubles
BY SecretsAssumption DEF TypeOK, Outcomes, Spend, MayFail

LEMMA InitInv == Init => IInv
<1> SUFFICES ASSUME Init PROVE IInv
  OBVIOUS
<1>1. Seeded \in [Ids -> {NoRow} \union [client : Clients, secret : 0..0]]
  BY SecretsAssumption DEF Seeded, NoRow
<1>2. TypeOK
  BY <1>1, SecretsAssumption DEF Init, TypeOK
<1>3. ASSUME NEW c \in Clients PROVE ClientInv(c)
  <2>1. \A i \in RowsOf(Seeded, c) : i = DemoId /\ Seeded[i].secret = 0
    BY SecretsAssumption DEF RowsOf, Seeded, NoRow
  <2> QED BY <2>1, <1>3 DEF Init, ClientInv, OneRow, NotRotatedOut, RowsWereTold, RowIsNewest
<1>4. \A a \in Admins : request[a] = NoSave
  BY DEF Init
<1> QED BY <1>2, <1>3, <1>4 DEF IInv, RequestInv

\* What a look-up finds is a row of the client, if it has one, or nothing.
LEMMA LookForApplicationFacts ==
  ASSUME TypeOK, NEW a \in Admins, NEW c \in Clients, NEW id \in Ids \union {None}, NEW failed \in BOOLEAN,
         LookForApplication(a, c, id, failed)
  PROVE  /\ TypeOK'
         /\ \E found \in IF failed THEN {NoRow} ELSE Lookups(rows, c) :
              /\ request' = [request EXCEPT ![a] =
                   [client |-> c, id |-> id, hash |-> HashFor(found), fresh |-> ~Keeps(found),
                    blind |-> Cardinality(RowsOf(rows, c)) > (IF failed THEN 0 ELSE 1), stale |-> FALSE]]
              /\ issued' = IF Keeps(found) THEN issued ELSE issued + 1
              /\ HashFor(found) \in 1..issued'
         /\ UNCHANGED <<rows, told, rotated, upset>>
<1>1. PICK found \in IF failed THEN {NoRow} ELSE Lookups(rows, c) :
        /\ Keeps(found) \/ issued < MaxSecrets
        /\ issued' = IF Keeps(found) THEN issued ELSE issued + 1
        /\ request' = [request EXCEPT ![a] =
             [client |-> c, id |-> id, hash |-> HashFor(found), fresh |-> ~Keeps(found),
              blind |-> Cardinality(RowsOf(rows, c)) > (IF failed THEN 0 ELSE 1), stale |-> FALSE]]
  BY DEF LookForApplication
<1>2. found = NoRow \/ found \in Row
  BY DEF Lookups, RowsOf, TypeOK, Row
<1>3. found.secret \in 0..issued
  BY <1>2 DEF Row, NoRow, TypeOK
<1>4. issued \in Nat /\ issued' \in 0..MaxSecrets /\ issued <= issued' /\ HashFor(found) \in 1..issued'
  BY <1>1, <1>3, SecretsAssumption DEF HashFor, Keeps, TypeOK
<1>5. UNCHANGED <<backend, rows, told, rotated, upset, restarts>> /\ troubles' \in 0..MaxTroubles
  BY SecretsAssumption DEF LookForApplication, TypeOK, MayFail
<1>6. TypeOK'
  <2> DEFINE b == Cardinality(RowsOf(rows, c)) > (IF failed THEN 0 ELSE 1)
             new == [client |-> c, id |-> id, hash |-> HashFor(found), fresh |-> ~Keeps(found),
                     blind |-> b, stale |-> FALSE]
             Saves(n) == [client : Clients, id : Ids \union {None}, hash : 0..n,
                          fresh : BOOLEAN, blind : BOOLEAN, stale : BOOLEAN]
  <2>1. (~Keeps(found)) \in BOOLEAN /\ b \in BOOLEAN
    BY DEF Keeps
  <2>2. new \in Saves(issued')
    <3> HIDE DEF b
    <3> QED BY <1>4, <2>1
  <2>3. 0..issued \subseteq 0..issued' /\ 1..issued \subseteq 1..issued'
    BY <1>4
  <2>4. Saves(issued) \subseteq Saves(issued')
    BY <2>3
  <2>5. request' \in [Admins -> {NoSave} \union Saves(issued')]
    <3> HIDE DEF new, Saves
    <3>1. request \in [Admins -> {NoSave} \union Saves(issued)] /\ request' = [request EXCEPT ![a] = new]
      BY <1>1 DEF new, Saves, TypeOK
    <3> QED BY <3>1, <2>2, <2>4
  <2>6. rows' \in [Ids -> {NoRow} \union [client : Clients, secret : 0..issued']]
    BY <1>5, <2>3 DEF TypeOK
  <2>7. rotated' \in [Clients -> 0..issued'] /\ told' \subseteq Clients \X (1..issued')
    BY <1>5, <2>3 DEF TypeOK
  <2> QED BY <1>4, <1>5, <2>5, <2>6, <2>7 DEF TypeOK
<1> QED BY <1>1, <1>4, <1>5, <1>6

LEMMA LookForApplicationInv ==
  ASSUME IInv, NEW a \in Admins, NEW c \in Clients, NEW id \in Ids \union {None}, NEW failed \in BOOLEAN,
         LookForApplication(a, c, id, failed)
  PROVE  IInv'
<1>0. TypeOK
  BY DEF IInv
<1>1. PICK found \in IF failed THEN {NoRow} ELSE Lookups(rows, c) :
        /\ request' = [request EXCEPT ![a] =
             [client |-> c, id |-> id, hash |-> HashFor(found), fresh |-> ~Keeps(found),
              blind |-> Cardinality(RowsOf(rows, c)) > (IF failed THEN 0 ELSE 1), stale |-> FALSE]]
        /\ issued' = IF Keeps(found) THEN issued ELSE issued + 1
        /\ HashFor(found) \in 1..issued'
  BY <1>0, LookForApplicationFacts
<1>2. TypeOK' /\ UNCHANGED <<rows, told, rotated, upset>>
  BY <1>0, LookForApplicationFacts
<1>3. /\ request \in [Admins -> {NoSave} \union Save] /\ issued \in Nat
      /\ told \subseteq Clients \X (1..issued)
      /\ \A i \in RowsOf(rows, c) : rows[i].secret \in 0..issued
      /\ rotated[c] \in 0..issued
  BY DEF IInv, TypeOK, Save, RowsOf, NoRow, Row
<1>4. ASSUME NEW d \in Clients PROVE ClientInv(d)'
  <2>1. ClientInv(d)
    BY DEF IInv
  <2>2. \A v : <<d, v>> \in told => v \in 1..issued
    BY <1>3
  <2> QED BY <1>2, <2>1, <2>2 DEF ClientInv, OneRow, NotRotatedOut, RowsWereTold, RowIsNewest
<1>r. PICK r : r = request'[a]
  OBVIOUS
<1>5. /\ r.client = c /\ r.hash = HashFor(found) /\ r.fresh = (~Keeps(found))
      /\ r.blind = (Cardinality(RowsOf(rows, c)) > (IF failed THEN 0 ELSE 1))
  BY <1>r, <1>1, <1>3
<1>6. Carries(r, c)'
  <2>1. ClientInv(c)
    BY DEF IInv
  <2>2. found = NoRow \/ \E i \in RowsOf(rows, c) : found = rows[i]
    BY DEF Lookups
  <2>3. CASE Keeps(found)
    <3>1. PICK i \in RowsOf(rows, c) : found = rows[i]
      BY <2>2, <2>3 DEF Keeps, NoRow
    <3>2. r.hash = rows[i].secret /\ ~r.fresh /\ r.hash # 0
      BY <1>5, <2>3, <3>1 DEF Keeps, HashFor
    <3>3. "mixed" \notin upset[c] => rotated[c] <= r.hash
      BY <2>1, <3>1, <3>2 DEF ClientInv, NotRotatedOut
    <3>4. upset[c] \intersect Hidden = {} => <<c, r.hash>> \in told
      BY <2>1, <3>1, <3>2 DEF ClientInv, RowsWereTold
    <3>5. upset[c] = {} => \A j \in RowsOf(rows, c) : j = i
      BY <2>1, <3>1 DEF ClientInv, OneRow
    <3>6. upset[c] = {} => \A v \in 1..issued : <<c, v>> \in told => v <= r.hash
      BY <2>1, <3>1, <3>2, <3>5 DEF ClientInv, RowIsNewest
    <3>7. issued' = issued
      BY <1>1, <2>3
    <3>8. ~r.blind => \A j \in RowsOf(rows, c) : j = i
      <4>1. ~failed
        BY <2>3 DEF Keeps, NoRow
      <4> QED BY <3>1, <1>5, <4>1, FewRows
    <3> QED BY <1>2, <3>2, <3>3, <3>4, <3>6, <3>7, <3>8 DEF Carries
  <2>4. CASE ~Keeps(found)
    <3>1. r.hash = issued + 1 /\ r.fresh /\ issued' = issued + 1
      BY <1>1, <1>5, <2>4 DEF HashFor
    <3>2. \A v \in 1..issued' : <<c, v>> \in told => v <= r.hash
      BY <1>3, <3>1
    <3>3. rotated[c] <= r.hash
      BY <1>3, <3>1
    <3>4. ~r.blind => \A i \in RowsOf(rows, c) : rows[i].secret = 0
      <4>1. CASE failed
        BY <4>1, <1>5, FewRows
      <4>2. CASE ~failed
        <5>1. ASSUME ~r.blind, NEW i \in RowsOf(rows, c)
              PROVE  rows[i].secret = 0
          <6>1. \A j \in RowsOf(rows, c) : j = i
            BY <5>1, <4>2, <1>5, FewRows
          <6>2. found = rows[i]
            BY <4>2, <6>1, <5>1 DEF Lookups
          <6> QED BY <6>2, <2>4 DEF Keeps
        <5> QED BY <5>1
      <4> QED BY <4>1, <4>2
    <3> QED BY <1>2, <3>1, <3>2, <3>3, <3>4 DEF Carries
  <2> QED BY <2>3, <2>4
<1>7. ASSUME NEW b \in Admins PROVE RequestInv(b)' /\ (request'[b] # NoSave => request'[b].hash # 0)
  <2>1. CASE b = a
    BY <2>1, <1>r, <1>1, <1>3, <1>5, <1>6 DEF RequestInv
  <2>2. CASE b # a
    <3>1. request'[b] = request[b]
      BY <2>2, <1>1, <1>3
    <3>2. RequestInv(b) /\ (request[b] # NoSave => request[b].hash # 0)
      BY DEF IInv
    <3>3. \A d, v : <<d, v>> \in told => v \in 1..issued
      BY <1>3
    <3> QED BY <1>2, <3>1, <3>2, <3>3 DEF RequestInv, Carries
  <2> QED BY <2>1, <2>2
<1> QED BY <1>2, <1>4, <1>7 DEF IInv

\* After a change of a client's row, the saves in flight are what they were, but that those of the
\* client are stale.
Passed(q, c, stored) == IF stored THEN Overtake(q, c) ELSE q
LEMMA OvertakeFacts ==
  ASSUME NEW R, NEW q \in [Admins -> {NoSave} \union R], R \subseteq AnySave, NEW c \in Clients, NEW stored \in BOOLEAN,
         \A x \in R : [x EXCEPT !.stale = TRUE] \in R
  PROVE  /\ Passed(q, c, stored) \in [Admins -> {NoSave} \union R]
         /\ \A b \in Admins :
              /\ q[b] = NoSave => Passed(q, c, stored)[b] = NoSave
              /\ Passed(q, c, stored)[b].hash = q[b].hash
              /\ Passed(q, c, stored)[b] # NoSave /\ ~Passed(q, c, stored)[b].stale =>
                   Passed(q, c, stored)[b] = q[b] /\ ~(stored /\ q[b].client = c)
<1> DEFINE t == Passed(q, c, stored)
<1>1. ASSUME NEW b \in Admins, stored
      PROVE  /\ t[b] \in {NoSave} \union R
             /\ q[b] = NoSave => t[b] = NoSave
             /\ t[b].hash = q[b].hash
             /\ t[b] # NoSave /\ ~t[b].stale => t[b] = q[b] /\ q[b].client # c
  <2>1. t[b] = [q[b] EXCEPT !.stale = @ \/ q[b].client = c]
    BY <1>1 DEF Overtake, Passed
  <2> HIDE DEF t
  <2>2. CASE q[b] = NoSave
    <3>1. q[b].client # c
      BY <2>2, SecretsAssumption DEF NoSave
    <3>2. t[b] = NoSave
      <4>1. (q[b].stale \/ q[b].client = c) = FALSE
        BY <2>2, <3>1 DEF NoSave
      <4>2. t[b] = [q[b] EXCEPT !.stale = FALSE]
        BY <2>1, <4>1
      <4>3. [NoSave EXCEPT !.stale = FALSE] = NoSave
        <5>1. /\ NoSave \in [client : {None}, id : {None}, hash : Nat,
                            fresh : BOOLEAN, blind : BOOLEAN, stale : BOOLEAN]
              /\ NoSave.stale = FALSE
          BY DEF NoSave
        <5> HIDE DEF NoSave
        <5> QED BY <5>1
      <4> QED BY <2>2, <4>2, <4>3, Zenon
    <3> QED BY <2>2, <3>2
  <2>3. CASE q[b] \in R
    <3>1. q[b] \in AnySave
      BY <2>3
    <3>2. CASE q[b].client = c
      <4>1. t[b] = [q[b] EXCEPT !.stale = TRUE]
        BY <2>1, <3>2
      <4>2. t[b].stale = TRUE /\ t[b].hash = q[b].hash
        BY <4>1, <3>1 DEF AnySave
      <4>3. q[b] # NoSave
        BY <3>1, SecretsAssumption DEF AnySave, NoSave
      <4> QED BY <2>3, <4>1, <4>2, <4>3
    <3>3. CASE q[b].client # c
      <4>1. t[b] = [q[b] EXCEPT !.stale = q[b].stale \/ FALSE]
        BY <2>1, <3>3
      <4>2. t[b] = q[b]
        BY <4>1, <3>1 DEF AnySave
      <4>3. q[b] # NoSave
        BY <3>1, SecretsAssumption DEF AnySave, NoSave
      <4> QED BY <2>3, <3>3, <4>2, <4>3
    <3> QED BY <3>2, <3>3
  <2> QED BY <2>2, <2>3
<1>2. stored => t = [b \in Admins |-> t[b]]
  BY DEF Overtake, Passed
<1>3. CASE stored
  <2> HIDE DEF t
  <2>1. t \in [Admins -> {NoSave} \union R]
    BY <1>1, <1>2, <1>3
  <2> QED BY <1>1, <1>3, <2>1 DEF t
<1>4. CASE ~stored
  BY <1>4 DEF Passed
<1> QED BY <1>3, <1>4

\* What has happened to a client after a save, as the history has it.
History(r, t, stored, answered, d) == upset[d] \union Upsetting(r, t, stored, answered)[d]

\* A save leaves the row it stores, or no change, and puts the rest into the history.
SaveDoes(a, outcome, stored, answered) ==
  /\ request[a] \in Save
  /\ stored => \E i \in Ids : rows' = [rows EXCEPT ![i] = [client |-> request[a].client, secret |-> request[a].hash]]
  /\ ~stored => rows' = rows
  /\ told' = IF request[a].fresh /\ answered THEN told \union {<<request[a].client, request[a].hash>>} ELSE told
  /\ upset' = [d \in Clients |-> History(request[a], rows', stored, answered, d)]
  /\ request' = Passed([request EXCEPT ![a] = NoSave], request[a].client, stored)
  /\ UNCHANGED <<backend, issued, rotated, restarts>>
  /\ outcome \in Outcomes /\ Spend(outcome)
LEMMA SaveApplicationFacts ==
  ASSUME TypeOK, NEW a \in Admins, request[a] # NoSave, request[a].hash # 0, NEW outcome, SaveApplication(a, outcome)
  PROVE  \E stored, answered \in BOOLEAN : SaveDoes(a, outcome, stored, answered)
<1> DEFINE r == request[a]
<1>s. PICK stored \in BOOLEAN : stored = (outcome # "failed" /\ Upsert(rows, r.client, r.id, r.hash) # {})
  OBVIOUS
<1>a. PICK answered \in BOOLEAN : answered = (outcome # "unheard")
  OBVIOUS
<1>1. r \in Save
  BY SecretsAssumption DEF TypeOK, Save
<1>3. rows' \in IF stored THEN Upsert(rows, r.client, r.id, r.hash) ELSE {rows}
  BY <1>s DEF SaveApplication
<1>4. stored => \E i \in Ids : rows' = [rows EXCEPT ![i] = [client |-> r.client, secret |-> r.hash]]
  <2>1. r.client \in Clients /\ r.id \in Ids \union {None} /\ r.hash \in 1..issued
    BY <1>1 DEF Save
  <2> QED BY <1>3, <2>1, UpsertFacts
<1>5. ~stored => rows' = rows
  BY <1>3
<1>6. upset' = [d \in Clients |-> History(r, rows', stored, answered, d)]
  BY <1>s, <1>a DEF SaveApplication, History
<1>7. request' = IF stored THEN Overtake([request EXCEPT ![a] = NoSave], r.client) ELSE [request EXCEPT ![a] = NoSave]
  BY <1>s DEF SaveApplication
<1>8. /\ told' = IF r.fresh /\ answered THEN told \union {<<r.client, r.hash>>} ELSE told
      /\ UNCHANGED <<backend, issued, rotated, restarts>> /\ outcome \in Outcomes /\ Spend(outcome)
  BY <1>a DEF SaveApplication, Tells
<1> QED BY <1>1, <1>4, <1>5, <1>6, <1>7, <1>8 DEF SaveDoes, Passed

\* What the history says of a client after a save.
LEMMA UpsettingFacts ==
  ASSUME TypeOK, NEW r \in Save, NEW t, NEW stored \in BOOLEAN, NEW answered \in BOOLEAN, NEW d \in Clients
  PROVE  /\ History(r, t, stored, answered, d) \in SUBSET {"mixed", "failed", "unheard"}
         /\ upset[d] \subseteq History(r, t, stored, answered, d)
         /\ "mixed" \notin History(r, t, stored, answered, d) =>
              /\ ~(d = r.client /\ r.stale)
              /\ \A i, j \in RowsOf(t, d) : i = j
              /\ d # r.client => RowsOf(t, d) = RowsOf(rows, d)
         /\ d = r.client /\ "failed" \notin History(r, t, stored, answered, d) => ~r.blind /\ stored
         /\ d = r.client /\ "unheard" \notin History(r, t, stored, answered, d) => answered
<1>u. PICK u : u = History(r, t, stored, answered, d)
  OBVIOUS
<1>1. upset[d] \in SUBSET {"mixed", "failed", "unheard"}
  BY DEF TypeOK
<1>2. u = upset[d] \union
          ((IF (d = r.client /\ r.stale) \/ Cardinality(RowsOf(t, d)) > 1
              \/ (d # r.client /\ RowsOf(t, d) # RowsOf(rows, d)) THEN {"mixed"} ELSE {})
          \union (IF d = r.client /\ (r.blind \/ ~stored) THEN {"failed"} ELSE {})
          \union (IF d = r.client /\ ~answered THEN {"unheard"} ELSE {}))
  BY <1>u DEF Upsetting, History
<1>3. "mixed" \notin u => ~((d = r.client /\ r.stale) \/ Cardinality(RowsOf(t, d)) > 1
                            \/ (d # r.client /\ RowsOf(t, d) # RowsOf(rows, d)))
  BY <1>2, Zenon
<1>4. d = r.client /\ "failed" \notin u => ~(r.blind \/ ~stored)
  BY <1>2, Zenon
<1>5. d = r.client /\ "unheard" \notin u => answered
  BY <1>2, Zenon
<1>6. "mixed" \notin u => \A i, j \in RowsOf(t, d) : i = j
  BY <1>3, FewRows
<1>7. u \in SUBSET {"mixed", "failed", "unheard"} /\ upset[d] \subseteq u
  BY <1>1, <1>2
<1> QED BY <1>u, <1>3, <1>4, <1>5, <1>6, <1>7, Zenon

LEMMA SaveApplicationType ==
  ASSUME TypeOK, NEW a \in Admins, request[a] # NoSave, request[a].hash # 0, NEW outcome, SaveApplication(a, outcome)
  PROVE  TypeOK'
<1>1. PICK stored, answered \in BOOLEAN : SaveDoes(a, outcome, stored, answered)
  BY SaveApplicationFacts
<1>2. request[a].client \in Clients /\ request[a].hash \in 1..issued
  BY <1>1 DEF Save, SaveDoes
<1>3. rows' \in [Ids -> {NoRow} \union [client : Clients, secret : 0..issued]]
  BY <1>1, <1>2 DEF TypeOK, SaveDoes
<1>4. told' \subseteq Clients \X (1..issued)
  BY <1>1, <1>2 DEF TypeOK, SaveDoes
<1>5. upset' \in [Clients -> SUBSET {"mixed", "failed", "unheard"}]
  <2>1. ASSUME NEW d \in Clients
        PROVE  History(request[a], rows', stored, answered, d) \in SUBSET {"mixed", "failed", "unheard"}
    BY <1>1, UpsettingFacts DEF SaveDoes
  <2> QED BY <1>1, <2>1 DEF SaveDoes
<1>6. request' \in [Admins -> {NoSave} \union [client : Clients, id : Ids \union {None}, hash : 0..issued,
                                              fresh : BOOLEAN, blind : BOOLEAN, stale : BOOLEAN]]
  <2> DEFINE R == [client : Clients, id : Ids \union {None}, hash : 0..issued,
                   fresh : BOOLEAN, blind : BOOLEAN, stale : BOOLEAN]
             q == [request EXCEPT ![a] = NoSave]
  <2>1. q \in [Admins -> {NoSave} \union R]
    BY DEF TypeOK
  <2>2. ASSUME NEW x \in R PROVE [x EXCEPT !.stale = TRUE] \in R
    OBVIOUS
  <2>3. request' = Passed(q, request[a].client, stored)
    BY <1>1 DEF Passed, SaveDoes
  <2>5. R \subseteq AnySave
    BY DEF AnySave
  <2> HIDE DEF q, R
  <2>4. request' \in [Admins -> {NoSave} \union R]
    BY <1>2, <2>1, <2>2, <2>3, <2>5, OvertakeFacts
  <2> QED BY <2>4 DEF R
<1> QED BY <1>1, <1>3, <1>4, <1>5, <1>6, OutcomeSpends DEF TypeOK, SaveDoes

LEMMA SaveApplicationInv ==
  ASSUME IInv, NEW a \in Admins, NEW outcome, SaveApplication(a, outcome)
  PROVE  IInv'
<1>0. /\ TypeOK /\ request[a] # NoSave /\ request[a].hash # 0
      /\ Carries(request[a], request[a].client) \/ request[a].stale
  BY DEF IInv, SaveApplication, RequestInv
<1>1. PICK stored, answered \in BOOLEAN : SaveDoes(a, outcome, stored, answered)
  BY <1>0, SaveApplicationFacts
<1>2. PICK r \in Save : r = request[a]
  BY <1>1 DEF SaveDoes
<1>3. ASSUME NEW d \in Clients
      PROVE  upset'[d] = History(r, rows', stored, answered, d)
  BY <1>1, <1>2 DEF SaveDoes
<1>4. ASSUME NEW d \in Clients, "mixed" \notin upset'[d]
      PROVE  ~(d = r.client /\ r.stale) /\ (d # r.client => RowsOf(rows', d) = RowsOf(rows, d))
  BY <1>0, <1>3, <1>4, UpsettingFacts
<1>o. ASSUME NEW d \in Clients
      PROVE  OneRow(d)'
  BY <1>0, <1>3, UpsettingFacts DEF OneRow
<1>g. ASSUME NEW d \in Clients
      PROVE  upset[d] \subseteq upset'[d]
  BY <1>0, <1>3, UpsettingFacts
<1>f. ASSUME "failed" \notin upset'[r.client]
      PROVE  ~r.blind /\ stored
  <2>1. r.client \in Clients
    BY DEF Save
  <2> QED BY <1>0, <1>3, <1>f, <2>1, UpsettingFacts
<1>h. ASSUME "unheard" \notin upset'[r.client]
      PROVE  answered
  <2>1. r.client \in Clients
    BY DEF Save
  <2> QED BY <1>0, <1>3, <1>h, <2>1, UpsettingFacts
<1>5. /\ rows \in [Ids -> {NoRow} \union Row] /\ issued \in Nat
      /\ told \subseteq Clients \X (1..issued)
      /\ r.client \in Clients /\ r.hash \in 1..issued
  BY <1>0, <1>2 DEF TypeOK, Row, Save
<1>6. ASSUME stored
      PROVE  \E i \in Ids : /\ rows' = [rows EXCEPT ![i] = [client |-> r.client, secret |-> r.hash]]
                           /\ i \in RowsOf(rows', r.client) /\ rows'[i].secret = r.hash
  BY <1>1, <1>2, <1>5, <1>6 DEF RowsOf, SaveDoes
<1>7. ASSUME NEW d \in Clients, d # r.client
      PROVE  \A i \in RowsOf(rows', d) : i \in RowsOf(rows, d) /\ rows'[i] = rows[i]
  <2>1. CASE stored
    BY <1>6, <1>7, <1>5, <2>1 DEF RowsOf
  <2>2. CASE ~stored
    BY <1>1, <2>2 DEF SaveDoes
  <2> QED BY <2>1, <2>2
<1>8. /\ told \subseteq told'
      /\ \A d, v : <<d, v>> \in told' => <<d, v>> \in told \/ (d = r.client /\ v = r.hash)
      /\ r.fresh /\ answered => <<r.client, r.hash>> \in told'
  BY <1>1, <1>2 DEF SaveDoes
<1>9. rotated' = rotated /\ issued' = issued
  BY <1>1 DEF SaveDoes
<1>10. ASSUME NEW d \in Clients, d # r.client
       PROVE  ClientInv(d)'
  <2>1. ClientInv(d)
    BY DEF IInv
  <2>2. OneRow(d)'
    BY <1>10, <1>o
  <2>3. NotRotatedOut(d)'
    BY <2>1, <1>g, <1>7, <1>9, <1>10 DEF ClientInv, NotRotatedOut
  <2>4. RowsWereTold(d)'
    BY <2>1, <1>g, <1>7, <1>8, <1>10 DEF ClientInv, RowsWereTold
  <2>5. RowIsNewest(d)'
    <3>1. SUFFICES ASSUME upset'[d] = {}, NEW v \in 1..issued, <<d, v>> \in told'
                   PROVE  \E i \in RowsOf(rows', d) : v <= rows'[i].secret
      BY <1>9 DEF RowIsNewest
    <3>2. upset[d] = {} /\ <<d, v>> \in told /\ RowsOf(rows', d) = RowsOf(rows, d)
      BY <1>4, <1>g, <1>8, <1>10, <3>1
    <3> QED BY <2>1, <3>2, <1>7, <1>10 DEF ClientInv, RowIsNewest
  <2> QED BY <2>2, <2>3, <2>4, <2>5 DEF ClientInv
<1>11. ClientInv(r.client)'
  <2> DEFINE c == r.client
  <2>1. ClientInv(c)
    BY <1>5 DEF IInv
  <2>c. c \in Clients
    BY <1>5
  <2> HIDE DEF c
  <2>2. OneRow(c)'
    BY <1>o, <2>c
  <2>3. ASSUME "mixed" \notin upset'[c]
        PROVE  /\ Carries(r, c) /\ "mixed" \notin upset[c]
               /\ stored => \E i \in RowsOf(rows', c) : rows'[i].secret = r.hash /\ \A j \in RowsOf(rows', c) : j = i
    <3>1. ~r.stale /\ "mixed" \notin upset[c] /\ \A i, j \in RowsOf(rows', c) : i = j
      BY <1>4, <1>g, <2>2, <2>3, <2>c DEF c, OneRow
    <3> QED BY <3>1, <1>0, <1>2, <1>6 DEF c
  <2>4. NotRotatedOut(c)'
    <3>1. CASE stored
      BY <2>3, <3>1, <1>9 DEF NotRotatedOut, Carries
    <3>2. CASE ~stored
      BY <2>1, <2>3, <3>2, <1>1, <1>9 DEF NotRotatedOut, ClientInv, SaveDoes
    <3> QED BY <3>1, <3>2
  <2>5. RowsWereTold(c)'
    <3>1. SUFFICES ASSUME upset'[c] \intersect Hidden = {}, NEW i \in RowsOf(rows', c), rows'[i].secret # 0
                   PROVE  <<c, rows'[i].secret>> \in told'
      BY DEF RowsWereTold
    <3>2. "mixed" \notin upset'[c] /\ "unheard" \notin upset'[c] /\ upset[c] \intersect Hidden = {}
      BY <3>1, <1>g, <2>c DEF Hidden
    <3>3. answered
      BY <3>2, <1>h DEF c
    <3>4. CASE stored
      <4>1. rows'[i].secret = r.hash
        BY <2>3, <3>1, <3>2, <3>4
      <4>2. CASE r.fresh
        BY <1>8, <3>3, <4>1, <4>2 DEF c
      <4>3. CASE ~r.fresh
        <5>1. <<c, r.hash>> \in told
          BY <2>3, <3>2, <4>3 DEF Carries
        <5> QED BY <5>1, <4>1, <1>8
      <4> QED BY <4>2, <4>3
    <3>5. CASE ~stored
      BY <2>1, <3>1, <3>2, <3>5, <1>1, <1>8 DEF ClientInv, RowsWereTold, SaveDoes
    <3> QED BY <3>4, <3>5
  <2>6. RowIsNewest(c)'
    <3>1. SUFFICES ASSUME upset'[c] = {}, NEW v \in 1..issued, <<c, v>> \in told'
                   PROVE  \E i \in RowsOf(rows', c) : v <= rows'[i].secret
      BY <1>9 DEF RowIsNewest
    <3>2. stored /\ upset[c] = {} /\ "mixed" \notin upset'[c]
      BY <1>f, <1>g, <3>1, <2>c DEF c
    <3>3. v <= r.hash
      BY <1>5, <1>8, <2>3, <3>1, <3>2 DEF Carries
    <3> QED BY <2>3, <3>2, <3>3
  <2>7. ClientInv(c)'
    BY <2>2, <2>4, <2>5, <2>6 DEF ClientInv
  <2> QED BY <2>7 DEF c
<1>12. ASSUME NEW b \in Admins
       PROVE  RequestInv(b)' /\ (request'[b] # NoSave => request'[b].hash # 0)
  <2> DEFINE q == [request EXCEPT ![a] = NoSave]
  <2>1. q \in [Admins -> {NoSave} \union Save]
    BY <1>0 DEF IInv, TypeOK, Save
  <2>c. r.client \in Clients /\ 1..issued \subseteq Nat
    BY <1>5
  <2>r. Save \subseteq AnySave
    BY <2>c DEF Save, AnySave
  <2>2. ASSUME NEW x \in Save PROVE [x EXCEPT !.stale = TRUE] \in Save
    BY DEF Save
  <2>3. request' = Passed(q, r.client, stored)
    BY <1>1, <1>2 DEF Passed, SaveDoes
  <2>4. q[b] = IF b = a THEN NoSave ELSE request[b]
    BY <1>0 DEF TypeOK
  <2> HIDE DEF q
  <2>5. /\ q[b] = NoSave => request'[b] = NoSave
        /\ request'[b].hash = q[b].hash
        /\ request'[b] # NoSave /\ ~request'[b].stale => request'[b] = q[b] /\ ~(stored /\ q[b].client = r.client)
    BY <2>1, <2>2, <2>3, <2>c, <2>r, OvertakeFacts
  <2>6. request'[b] # NoSave => request'[b].hash # 0
    BY <2>4, <2>5 DEF IInv
  <2>7. RequestInv(b)'
    <3>1. CASE request'[b] = NoSave \/ request'[b].stale
      BY <3>1 DEF RequestInv
    <3>2. CASE ~(request'[b] = NoSave \/ request'[b].stale)
      <4>1. PICK x \in Save : x = request[b]
        BY <2>1, <2>4, <2>5, <3>2
      <4>2. request'[b] = x /\ x # NoSave /\ ~x.stale /\ ~(stored /\ x.client = r.client)
        BY <2>4, <2>5, <3>2, <4>1
      <4>3. PICK d \in Clients : d = x.client
        BY DEF Save
      <4>4. Carries(x, d)
        BY <4>1, <4>2, <4>3 DEF IInv, RequestInv
      <4>5. upset[d] \subseteq upset'[d] /\ (d = r.client => "failed" \in upset'[d])
        BY <1>f, <1>g, <4>2, <4>3
      <4>6. \A i \in RowsOf(rows', d) : i \in RowsOf(rows, d) /\ rows'[i] = rows[i]
        BY <1>1, <1>7, <4>2, <4>3 DEF SaveDoes
      <4>7. upset'[d] = {} => \A v \in 1..issued : <<d, v>> \in told' => <<d, v>> \in told
        BY <1>8, <4>5
      <4>8. Carries(x, d)'
        BY <1>8, <1>9, <4>4, <4>5, <4>6, <4>7 DEF Carries
      <4> QED BY <4>2, <4>3, <4>8 DEF RequestInv
    <3> QED BY <3>1, <3>2
  <2> QED BY <2>6, <2>7
<1> QED BY <1>0, <1>10, <1>11, <1>12, SaveApplicationType DEF IInv

\* A rotation that is stored changes one row of the client to a secret newer than all others, and
\* clears the history of a client with one row.
RotateDoes(c, outcome, stored, answered) ==
  /\ answered => stored
  /\ stored => \E i \in RowsOf(rows, c) : rows' = [rows EXCEPT ![i] = [client |-> c, secret |-> issued + 1]]
  /\ ~stored => rows' = rows
  /\ told' = IF answered THEN told \union {<<c, issued + 1>>} ELSE told
  /\ rotated' = IF answered THEN [rotated EXCEPT ![c] = issued + 1] ELSE rotated
  /\ upset' = [upset EXCEPT ![c] = IF answered THEN (IF Cardinality(RowsOf(rows, c)) > 1 THEN @ ELSE {})
                                   ELSE IF stored THEN @ \union {"unheard"} ELSE @]
  /\ request' = Passed(request, c, stored)
  /\ issued' = issued + 1 /\ issued' \in 0..MaxSecrets
  /\ UNCHANGED <<backend, restarts>> /\ outcome \in Outcomes /\ Spend(outcome)
LEMMA RotateFacts ==
  ASSUME TypeOK, NEW a \in Admins, NEW c \in Clients, NEW outcome, RotateApplicationSecret(a, c, outcome)
  PROVE  \E stored, answered \in BOOLEAN : RotateDoes(c, outcome, stored, answered)
<1>s. PICK stored \in BOOLEAN : stored = (RowsOf(rows, c) # {} /\ outcome # "failed")
  OBVIOUS
<1>a. PICK answered \in BOOLEAN : answered = (stored /\ outcome = "done")
  OBVIOUS
<1>1. rows' \in IF stored THEN Rotated(rows, c, issued + 1) ELSE {rows}
  BY <1>s DEF RotateApplicationSecret
<1>2. stored => \E i \in RowsOf(rows, c) : rows' = [rows EXCEPT ![i] = [client |-> c, secret |-> issued + 1]]
  BY <1>1, RotatedFacts
<1>3. ~stored => rows' = rows
  BY <1>1
<1>4. /\ told' = IF answered THEN told \union {<<c, issued + 1>>} ELSE told
      /\ rotated' = IF answered THEN [rotated EXCEPT ![c] = issued + 1] ELSE rotated
  BY <1>s, <1>a DEF RotateApplicationSecret
<1>5. upset' = [upset EXCEPT ![c] = IF answered THEN (IF Cardinality(RowsOf(rows, c)) > 1 THEN @ ELSE {})
                                     ELSE IF stored THEN @ \union {"unheard"} ELSE @]
  BY <1>s, <1>a DEF RotateApplicationSecret
<1>6. request' = Passed(request, c, stored)
  BY <1>s DEF RotateApplicationSecret, Passed
<1>7. issued' = issued + 1 /\ issued' \in 0..MaxSecrets
  BY SecretsAssumption DEF RotateApplicationSecret, TypeOK
<1>8. UNCHANGED <<backend, restarts>> /\ outcome \in Outcomes /\ Spend(outcome)
  BY DEF RotateApplicationSecret
<1>9. answered => stored
  BY <1>a
<1> QED BY <1>2, <1>3, <1>4, <1>5, <1>6, <1>7, <1>8, <1>9 DEF RotateDoes

LEMMA RotateInv ==
  ASSUME IInv, NEW a \in Admins, NEW c \in Clients, NEW outcome, RotateApplicationSecret(a, c, outcome)
  PROVE  IInv'
<1>0. TypeOK
  BY DEF IInv
<1>1. PICK stored, answered \in BOOLEAN : RotateDoes(c, outcome, stored, answered)
  BY <1>0, RotateFacts
<1>2. /\ rows \in [Ids -> {NoRow} \union Row] /\ issued \in Nat
      /\ told \subseteq Clients \X (1..issued)
      /\ rotated \in [Clients -> 0..issued]
      /\ upset \in [Clients -> SUBSET {"mixed", "failed", "unheard"}]
  BY <1>0 DEF TypeOK, Row
<1>3. ASSUME NEW d \in Clients
      PROVE  /\ RowsOf(rows', d) = RowsOf(rows, d)
             /\ d # c \/ ~stored => \A i \in RowsOf(rows, d) : rows'[i] = rows[i]
  BY <1>1, <1>2 DEF RowsOf, RotateDoes
<1>4. ASSUME NEW i \in RowsOf(rows, c), stored
      PROVE  /\ rows'[i].secret = issued + 1 \/ rows'[i].secret = rows[i].secret
             /\ (\A j \in RowsOf(rows, c) : j = i) => rows'[i].secret = issued + 1
  BY <1>1, <1>2, <1>4 DEF RowsOf, RotateDoes
<1>5. \A i \in RowsOf(rows, c) : rows[i].secret \in 0..issued
  BY <1>2, SecretsAssumption DEF RowsOf, Row, NoRow
<1>6. ASSUME NEW d \in Clients, d # c \/ ~stored
      PROVE  /\ upset'[d] = upset[d] /\ rotated'[d] = rotated[d]
             /\ \A v : <<d, v>> \in told' <=> <<d, v>> \in told
  BY <1>1, <1>2, <1>6 DEF RotateDoes
<1>7. \A d, v : <<d, v>> \in told => v \in 1..issued
  BY <1>2
<1>8. TypeOK'
  <2>1. 0..issued \subseteq 0..issued' /\ 1..issued \subseteq 1..issued' /\ issued + 1 \in 1..issued' /\ issued + 1 \in 0..issued'
    BY <1>1, <1>2 DEF RotateDoes
  <2>2. rows' \in [Ids -> {NoRow} \union [client : Clients, secret : 0..issued']]
    <3>1. Row \subseteq [client : Clients, secret : 0..issued']
      BY <2>1 DEF Row
    <3>2. [client |-> c, secret |-> issued + 1] \in [client : Clients, secret : 0..issued']
      BY <2>1
    <3>3. rows \in [Ids -> {NoRow} \union [client : Clients, secret : 0..issued']]
      BY <1>2, <3>1
    <3>4. rows' = rows \/ \E i \in RowsOf(rows, c) : rows' = [rows EXCEPT ![i] = [client |-> c, secret |-> issued + 1]]
      BY <1>1 DEF RotateDoes
    <3> QED BY <3>2, <3>3, <3>4 DEF RowsOf
  <2>3. told' \subseteq Clients \X (1..issued') /\ rotated' \in [Clients -> 0..issued']
    BY <1>1, <1>2, <2>1 DEF RotateDoes
  <2>4. upset' \in [Clients -> SUBSET {"mixed", "failed", "unheard"}]
    BY <1>1, <1>2 DEF RotateDoes
  <2>5. request' \in [Admins -> {NoSave} \union [client : Clients, id : Ids \union {None}, hash : 0..issued',
                                                fresh : BOOLEAN, blind : BOOLEAN, stale : BOOLEAN]]
    <3> DEFINE R(n) == [client : Clients, id : Ids \union {None}, hash : 0..n,
                        fresh : BOOLEAN, blind : BOOLEAN, stale : BOOLEAN]
    <3>1. request \in [Admins -> {NoSave} \union R(issued)]
      BY <1>0 DEF TypeOK
    <3>2. R(issued) \subseteq R(issued') /\ R(issued') \subseteq AnySave
      BY <1>1, <2>1 DEF AnySave, RotateDoes
    <3>3. ASSUME NEW x \in R(issued') PROVE [x EXCEPT !.stale = TRUE] \in R(issued')
      OBVIOUS
    <3> HIDE DEF R
    <3>4. request \in [Admins -> {NoSave} \union R(issued')]
      BY <3>1, <3>2
    <3>5. Passed(request, c, stored) \in [Admins -> {NoSave} \union R(issued')]
      BY <3>2, <3>3, <3>4, OvertakeFacts
    <3> QED BY <1>1, <3>5 DEF R, RotateDoes
  <2> QED BY <1>0, <1>1, <2>2, <2>3, <2>4, <2>5, OutcomeSpends DEF TypeOK, RotateDoes
<1>9. ASSUME NEW d \in Clients, d # c \/ ~stored
      PROVE  ClientInv(d)'
  <2>1. ClientInv(d)
    BY DEF IInv
  <2> QED BY <2>1, <1>3, <1>6, <1>7, <1>9 DEF ClientInv, OneRow, NotRotatedOut, RowsWereTold, RowIsNewest
<1>10. ASSUME stored
       PROVE  ClientInv(c)'
  <2>1. ClientInv(c)
    BY DEF IInv
  <2>2. CASE ~answered
    <3>1. upset'[c] = upset[c] \union {"unheard"} /\ rotated'[c] = rotated[c]
      BY <1>1, <1>2, <1>10, <2>2 DEF RotateDoes
    <3>2. OneRow(c)'
      BY <2>1, <3>1, <1>3 DEF ClientInv, OneRow
    <3>3. NotRotatedOut(c)'
      <4>1. SUFFICES ASSUME "mixed" \notin upset'[c], NEW i \in RowsOf(rows, c)
                     PROVE  rotated[c] <= rows'[i].secret
        BY <1>3, <3>1 DEF NotRotatedOut
      <4>2. rotated[c] <= rows[i].secret
        BY <2>1, <3>1, <4>1 DEF ClientInv, NotRotatedOut
      <4>3. rotated[c] \in 0..issued
        BY <1>2
      <4> QED BY <1>2, <1>4, <1>10, <4>1, <4>2, <4>3
    <3>4. RowsWereTold(c)' /\ RowIsNewest(c)'
      BY <3>1 DEF RowsWereTold, RowIsNewest, Hidden
    <3> QED BY <3>2, <3>3, <3>4 DEF ClientInv
  <2>3. CASE answered /\ Cardinality(RowsOf(rows, c)) > 1
    <3>1. "mixed" \in upset[c]
      BY <2>1, <2>3, FewRows DEF ClientInv, OneRow
    <3>2. upset'[c] = upset[c]
      BY <1>1, <1>2, <2>3 DEF RotateDoes
    <3> QED BY <3>1, <3>2 DEF ClientInv, OneRow, NotRotatedOut, RowsWereTold, RowIsNewest, Hidden
  <2>4. CASE answered /\ ~(Cardinality(RowsOf(rows, c)) > 1)
    <3>1. rotated'[c] = issued + 1 /\ told' = told \union {<<c, issued + 1>>} /\ issued' = issued + 1
      BY <1>1, <1>2, <2>4 DEF RotateDoes
    <3>2. \A i, j \in RowsOf(rows, c) : i = j
      BY <2>4, FewRows
    <3>3. \A i \in RowsOf(rows', c) : rows'[i].secret = issued + 1
      BY <1>3, <1>4, <1>10, <3>2
    <3>4. PICK i : i \in RowsOf(rows', c)
      BY <1>1, <1>3, <1>10 DEF RotateDoes
    <3>5. OneRow(c)'
      BY <1>3, <3>2 DEF OneRow
    <3>6. NotRotatedOut(c)'
      BY <3>1, <3>3, <1>2 DEF NotRotatedOut
    <3>7. RowsWereTold(c)'
      BY <3>1, <3>3 DEF RowsWereTold
    <3>8. RowIsNewest(c)'
      BY <3>1, <3>3, <3>4, <1>2 DEF RowIsNewest
    <3> QED BY <3>5, <3>6, <3>7, <3>8 DEF ClientInv
  <2> QED BY <2>2, <2>3, <2>4
<1>11. ASSUME NEW b \in Admins
       PROVE  RequestInv(b)' /\ (request'[b] # NoSave => request'[b].hash # 0)
  <2>q. PICK q : q = request
    OBVIOUS
  <2>1. q \in [Admins -> {NoSave} \union Save]
    BY <2>q, <1>0 DEF IInv, TypeOK, Save
  <2>2. 1..issued \subseteq Nat
    BY <1>2
  <2>3. Save \subseteq AnySave
    BY <2>2 DEF Save, AnySave
  <2>4. ASSUME NEW x \in Save PROVE [x EXCEPT !.stale = TRUE] \in Save
    BY DEF Save
  <2>5. request' = Passed(q, c, stored)
    BY <2>q, <1>1 DEF RotateDoes
  <2>6. /\ q[b] = NoSave => request'[b] = NoSave
        /\ request'[b].hash = q[b].hash
        /\ request'[b] # NoSave /\ ~request'[b].stale => request'[b] = q[b] /\ ~(stored /\ q[b].client = c)
    BY <2>1, <2>3, <2>4, <2>5, OvertakeFacts
  <2>7. request'[b] # NoSave => request'[b].hash # 0
    <3>1. request[b] # NoSave => request[b].hash # 0
      BY DEF IInv
    <3>2. request'[b].hash = request[b].hash /\ (request[b] = NoSave => request'[b] = NoSave)
      BY <2>q, <2>6
    <3> QED BY <3>1, <3>2, Zenon
  <2>8. CASE request'[b] = NoSave \/ request'[b].stale
    BY <2>7, <2>8 DEF RequestInv
  <2>9. CASE ~(request'[b] = NoSave \/ request'[b].stale)
    <3>1. PICK x \in Save : x = request[b]
      BY <2>q, <2>1, <2>6, <2>9
    <3>2. request'[b] = x /\ x # NoSave /\ ~x.stale /\ ~(stored /\ x.client = c)
      BY <2>q, <2>6, <2>9, <3>1
    <3>3. PICK d \in Clients : d = x.client
      BY DEF Save
    <3>4. Carries(x, d)
      BY <3>1, <3>2, <3>3 DEF IInv, RequestInv
    <3>5. d # c \/ ~stored
      BY <3>2, <3>3
    <3>a. /\ upset'[d] = upset[d] /\ rotated'[d] = rotated[d]
          /\ \A v : <<d, v>> \in told' <=> <<d, v>> \in told
      BY <1>6, <3>5
    <3>b. \A i \in RowsOf(rows', d) : i \in RowsOf(rows, d) /\ rows'[i] = rows[i]
      BY <1>3, <3>5
    <3>c. ("mixed" \notin upset[d] => rotated[d] <= x.hash)'
      BY <3>4, <3>a DEF Carries
    <3>d. (~x.fresh /\ upset[d] \intersect Hidden = {} => <<d, x.hash>> \in told)'
      BY <3>4, <3>a DEF Carries
    <3>e. (upset[d] = {} => \A v \in 1..issued : <<d, v>> \in told => v <= x.hash)'
      BY <1>7, <3>4, <3>a DEF Carries
    <3>f. (~x.blind => \A i \in RowsOf(rows, d) : rows[i].secret # 0 => rows[i].secret = x.hash)'
      BY <3>4, <3>b DEF Carries
    <3>6. Carries(x, d)'
      BY <3>c, <3>d, <3>e, <3>f DEF Carries
    <3> QED BY <2>7, <3>2, <3>3, <3>6 DEF RequestInv
  <2> QED BY <2>7, <2>8, <2>9
<1> QED BY <1>8, <1>9, <1>10, <1>11 DEF IInv

LEMMA RestartInv ==
  ASSUME IInv, Restart
  PROVE  IInv'
<1>0. TypeOK
  BY DEF IInv
<1>1. /\ request' = [a \in Admins |-> NoSave] /\ UNCHANGED <<backend, issued, troubles>>
      /\ restarts' \in 0..MaxTroubles
  BY <1>0, SecretsAssumption DEF Restart, MayFail, TypeOK
<1>2. ASSUME NEW a \in Admins PROVE request'[a] = NoSave
  BY <1>1
<1>3. CASE backend = "memory"
  <2>1. /\ rows' = Seeded /\ told' = {}
        /\ rotated' = [c \in Clients |-> 0] /\ upset' = [c \in Clients |-> {}]
    BY <1>3 DEF Restart
  <2>2. Seeded \in [Ids -> {NoRow} \union [client : Clients, secret : 0..0]]
    BY SecretsAssumption DEF Seeded, NoRow
  <2>3. issued \in Nat
    BY <1>0 DEF TypeOK
  <2>4. TypeOK'
    BY <1>0, <1>1, <2>1, <2>2, <2>3 DEF TypeOK
  <2>5. ASSUME NEW c \in Clients PROVE ClientInv(c)'
    <3>1. \A i \in RowsOf(Seeded, c) : i = DemoId /\ Seeded[i].secret = 0
      BY SecretsAssumption DEF RowsOf, Seeded, NoRow
    <3> QED BY <2>1, <3>1 DEF ClientInv, OneRow, NotRotatedOut, RowsWereTold, RowIsNewest
  <2> QED BY <1>2, <2>4, <2>5 DEF IInv, RequestInv
<1>4. CASE backend # "memory"
  <2>1. UNCHANGED <<rows, rotated, upset, told>>
    BY <1>4 DEF Restart
  <2>2. TypeOK'
    BY <1>0, <1>1, <2>1 DEF TypeOK
  <2>3. ASSUME NEW c \in Clients PROVE ClientInv(c)'
    BY <1>1, <2>1 DEF IInv, ClientInv, OneRow, NotRotatedOut, RowsWereTold, RowIsNewest
  <2> QED BY <1>2, <2>2, <2>3 DEF IInv, RequestInv
<1> QED BY <1>3, <1>4

LEMMA StepInv == IInv /\ [Next]_vars => IInv'
<1> SUFFICES ASSUME IInv, [Next]_vars PROVE IInv'
  OBVIOUS
<1>1. ASSUME NEW a \in Admins, NEW c \in Clients, NEW i \in Ids \union {None}, NEW failed \in BOOLEAN,
             LookForApplication(a, c, i, failed)
      PROVE  IInv'
  BY <1>1, LookForApplicationInv
<1>2. ASSUME NEW a \in Admins, NEW o \in {"done", "failed", "unheard"}, SaveApplication(a, o)
      PROVE  IInv'
  BY <1>2, SaveApplicationInv
<1>3. ASSUME NEW a \in Admins, NEW c \in Clients, NEW o \in {"done", "failed", "unheard"}, RotateApplicationSecret(a, c, o)
      PROVE  IInv'
  BY <1>3, RotateInv
<1>4. CASE Restart
  BY <1>4, RestartInv
<1>5. CASE UNCHANGED vars
  BY <1>5 DEF vars, IInv, TypeOK, ClientInv, OneRow, NotRotatedOut, RowsWereTold, RowIsNewest,
              RequestInv, Carries
<1> QED BY <1>1, <1>2, <1>3, <1>4, <1>5 DEF Next

----------------------------------------------------------------------------
(* The theorems.                                                            *)

THEOREM Inductive == Spec => []IInv
<1>1. Init => IInv
  BY InitInv
<1>2. IInv /\ [Next]_vars => IInv'
  BY StepInv
<1> QED BY <1>1, <1>2, PTL DEF Spec

\* Every variable has its type, and no secret is stored that was not generated.
THEOREM TypeCorrect == Spec => []TypeOK
<1>1. IInv => TypeOK
  BY DEF IInv
<1> QED BY <1>1, Inductive, PTL

\* The secret in force is the one that was told last: a rotated one stays out, the newest told one
\* opens the calls, and what is stored was told, however saves and rotations interleave
\* (handleUpsertApplication, handleRotateApplicationSecret).
THEOREM SecretInForceIsTheLast == Spec => []SecretsInForce
<1>1. ASSUME IInv PROVE SecretsInForce
  <2>0. /\ TypeOK /\ issued \in Nat
        /\ told \subseteq Clients \X (1..issued) /\ rotated \in [Clients -> 0..issued]
        /\ rows \in [Ids -> {NoRow} \union Row]
    BY <1>1 DEF IInv, TypeOK, Row
  <2>1. RotatedOutStaysOut
    <3>1. SUFFICES ASSUME NEW c \in Clients, NEW v \in 1..issued, v < rotated[c], Accepts(c, v, TRUE), "mixed" \notin upset[c]
                   PROVE  FALSE
      BY DEF RotatedOutStaysOut
    <3>2. PICK i \in RowsOf(rows, c) : rows[i].secret = v
      <4>1. v \in Nat \ {0}
        BY <2>0
      <4> QED BY <2>0, <3>1, <4>1, AcceptsFacts
    <3>3. rotated[c] <= v
      BY <1>1, <3>1, <3>2 DEF IInv, ClientInv, NotRotatedOut
    <3>4. rotated[c] \in Nat /\ v \in Nat
      BY <2>0
    <3> QED BY <3>1, <3>3, <3>4
  <2>2. NewestToldWorks
    <3>1. SUFFICES ASSUME NEW c \in Clients, NEW x \in told, x[1] = c, upset[c] = {}
                   PROVE  Accepts(c, Newest(c), TRUE)
      BY DEF NewestToldWorks
    <3>2. ClientInv(c)
      BY <1>1 DEF IInv
    <3>3. \A y \in told : y = <<y[1], y[2]>> /\ y[2] \in 1..issued
      BY <2>0
    <3>4. \A i, j \in RowsOf(rows, c) : i = j
      BY <3>1, <3>2 DEF ClientInv, OneRow
    <3>5. PICK i \in RowsOf(rows, c) : x[2] <= rows[i].secret
      BY <3>1, <3>2, <3>3 DEF ClientInv, RowIsNewest
    <3>6. rows[i].secret \in Nat /\ rows[i].secret # 0
      <4>1. rows[i].secret \in Nat
        BY <2>0 DEF RowsOf, Row, NoRow
      <4> QED BY <2>0, <3>3, <3>5, <4>1
    <3>7. <<c, rows[i].secret>> \in told
      BY <3>1, <3>2, <3>6 DEF ClientInv, RowsWereTold
    <3>8. \A y \in told : y[1] = c => y[2] <= rows[i].secret
      <4>1. SUFFICES ASSUME NEW y \in told, y[1] = c
                     PROVE  y[2] <= rows[i].secret
        OBVIOUS
      <4>2. PICK j \in RowsOf(rows, c) : y[2] <= rows[j].secret
        BY <3>1, <3>2, <3>3, <4>1 DEF ClientInv, RowIsNewest
      <4> QED BY <3>4, <4>2
    <3>9. Newest(c) = rows[i].secret
      <4> DEFINE S == {y[2] : y \in {z \in told : z[1] = c}}
                 P(v) == \A y \in told : y[1] = c => y[2] <= v
      <4>1. rows[i].secret \in S /\ P(rows[i].secret)
        BY <3>7, <3>8
      <4>2. \A v \in S : P(v) => v = rows[i].secret
        <5>1. SUFFICES ASSUME NEW y \in told, y[1] = c, P(y[2])
                       PROVE  y[2] = rows[i].secret
          OBVIOUS
        <5>2. rows[i].secret <= y[2] /\ y[2] <= rows[i].secret
          BY <3>7, <3>8, <5>1
        <5> QED BY <2>0, <3>3, <3>6, <5>2
      <4>3. Newest(c) = CHOOSE v \in S : P(v)
        BY DEF Newest
      <4> HIDE DEF S, P
      <4> QED BY <4>1, <4>2, <4>3
    <3>10. rows[i].secret \in Nat \ {0}
      BY <3>6
    <3> QED BY <2>0, <3>9, <3>10, AcceptsFacts
  <2>3. InForceWasTold
    <3>1. SUFFICES ASSUME NEW i \in Ids, rows[i].secret # 0, upset[rows[i].client] \intersect Hidden = {}
                   PROVE  <<rows[i].client, rows[i].secret>> \in told
      BY DEF InForceWasTold, Hidden
    <3>2. rows[i].client \in Clients /\ i \in RowsOf(rows, rows[i].client)
      BY <2>0, <3>1 DEF Row, NoRow, RowsOf
    <3>3. RowsWereTold(rows[i].client)
      BY <1>1, <3>2 DEF IInv, ClientInv
    <3> QED BY <3>1, <3>2, <3>3 DEF RowsWereTold
  <2> QED BY <2>1, <2>2, <2>3 DEF SecretsInForce
<1> QED BY <1>1, Inductive, PTL

\* A save leaves the secret that is in force, unless it was overtaken or could not see it, and no
\* call opens an application with a secret without one again (handleUpsertApplication).
THEOREM OnlyRotationChanges == Spec => SecretsKept
<1>1. ASSUME IInv, [Next]_vars, rows' # rows, issued' = issued, restarts' = restarts
      PROVE  \A i \in Ids :
               rows[i].secret # 0 /\ rows'[i].client = rows[i].client /\ rows'[i].secret # rows[i].secret =>
                 \E a \in Admins : /\ request[a].client = rows[i].client /\ request'[a] = NoSave
                                  /\ (request[a].stale \/ request[a].blind)
  <2>0. TypeOK /\ issued \in Nat /\ rows \in [Ids -> {NoRow} \union Row]
    BY <1>1 DEF IInv, TypeOK, Row
  <2>1. SUFFICES ASSUME NEW i \in Ids, rows[i].secret # 0,
                        rows'[i].client = rows[i].client, rows'[i].secret # rows[i].secret
                 PROVE  \E a \in Admins : /\ request[a].client = rows[i].client /\ request'[a] = NoSave
                                          /\ (request[a].stale \/ request[a].blind)
    OBVIOUS
  <2>2. ASSUME NEW a \in Admins, NEW c \in Clients, NEW o, RotateApplicationSecret(a, c, o)
        PROVE  FALSE
    BY <1>1, <2>0, <2>2 DEF RotateApplicationSecret
  <2>3. PICK a \in Admins, o \in {"done", "failed", "unheard"} : SaveApplication(a, o)
    <3>1. ~Restart /\ ~UNCHANGED vars
      BY <1>1, <2>0, SecretsAssumption DEF Restart, vars, TypeOK
    <3>2. ASSUME NEW a \in Admins, NEW c \in Clients, NEW j \in Ids \union {None}, NEW failed \in BOOLEAN,
                 LookForApplication(a, c, j, failed)
          PROVE  FALSE
      BY <1>1, <2>0, <3>2, LookForApplicationFacts
    <3> QED BY <1>1, <2>2, <3>1, <3>2 DEF Next
  <2>4. request[a] # NoSave /\ request[a].hash # 0
    BY <1>1, <2>3 DEF SaveApplication, IInv
  <2>5. PICK stored, answered \in BOOLEAN : SaveDoes(a, o, stored, answered)
    BY <2>0, <2>3, <2>4, SaveApplicationFacts
  <2>6. stored /\ rows'[i] = [client |-> request[a].client, secret |-> request[a].hash]
    BY <1>1, <2>0, <2>1, <2>5 DEF SaveDoes
  <2>7. request[a].client = rows[i].client /\ request[a].hash # rows[i].secret
    BY <2>1, <2>6
  <2>8. request'[a] = NoSave
    <3> DEFINE q == [request EXCEPT ![a] = NoSave]
    <3>1. q \in [Admins -> {NoSave} \union AnySave] /\ q[a] = NoSave
      BY <2>0 DEF TypeOK, AnySave
    <3>2. \A x \in AnySave : [x EXCEPT !.stale = TRUE] \in AnySave
      BY DEF AnySave
    <3>3. request' = Passed(q, request[a].client, stored) /\ request[a].client \in Clients
      BY <2>0, <2>1, <2>5, <2>7 DEF Passed, Row, NoRow, SaveDoes
    <3> HIDE DEF q
    <3> QED BY <3>1, <3>2, <3>3, OvertakeFacts
  <2>9. ~request[a].stale => request[a].blind
    <3>1. ASSUME ~request[a].stale PROVE Carries(request[a], request[a].client)
      BY <1>1, <2>4, <3>1 DEF IInv, RequestInv
    <3>2. i \in RowsOf(rows, request[a].client)
      BY <2>7 DEF RowsOf
    <3> QED BY <2>1, <2>7, <3>1, <3>2 DEF Carries
  <2> QED BY <2>7, <2>8, <2>9
<1>2. ASSUME IInv, [Next]_vars, restarts' = restarts
      PROVE  \A c \in Clients : RowsOf(rows, c) # {} /\ ~Accepts(c, 0, FALSE) => ~Accepts(c, 0, FALSE)'
  <2>0. TypeOK /\ issued \in Nat /\ rows \in [Ids -> {NoRow} \union Row] /\ TypeOK'
    BY <1>2, StepInv DEF IInv, TypeOK, Row
  <2>1. rows' = rows \/ \E j \in Ids, d \in Clients : \E h \in Nat \ {0} :
                            rows' = [rows EXCEPT ![j] = [client |-> d, secret |-> h]]
    <3>1. ASSUME NEW a \in Admins, NEW o \in {"done", "failed", "unheard"}, SaveApplication(a, o)
          PROVE  <2>1!1 \/ <2>1!2
      <4>1. request[a] # NoSave /\ request[a].hash # 0
        BY <1>2, <3>1 DEF SaveApplication, IInv
      <4>2. PICK r \in Save : r = request[a]
        BY <2>0, <3>1, <4>1, SaveApplicationFacts DEF SaveDoes
      <4>3. r.client \in Clients /\ r.hash \in Nat \ {0}
        BY <2>0 DEF Save
      <4>4. rows' = rows \/ \E j \in Ids : rows' = [rows EXCEPT ![j] = [client |-> r.client, secret |-> r.hash]]
        BY <2>0, <3>1, <4>1, <4>2, SaveApplicationFacts DEF SaveDoes
      <4> QED BY <4>3, <4>4
    <3>2. ASSUME NEW a \in Admins, NEW c \in Clients, NEW o \in {"done", "failed", "unheard"}, RotateApplicationSecret(a, c, o)
          PROVE  <2>1!1 \/ <2>1!2
      <4>1. issued + 1 \in Nat \ {0}
        BY <2>0
      <4>2. rows' = rows \/ \E j \in RowsOf(rows, c) : rows' = [rows EXCEPT ![j] = [client |-> c, secret |-> issued + 1]]
        BY <2>0, <3>2, RotateFacts DEF RotateDoes
      <4> QED BY <4>1, <4>2 DEF RowsOf
    <3>3. ASSUME NEW a \in Admins, NEW c \in Clients, NEW j \in Ids \union {None}, NEW failed \in BOOLEAN,
                 LookForApplication(a, c, j, failed)
          PROVE  rows' = rows
      BY <2>0, <3>3, LookForApplicationFacts
    <3>4. ~Restart
      BY <1>2, <2>0, SecretsAssumption DEF Restart, TypeOK
    <3>5. UNCHANGED vars => rows' = rows
      BY DEF vars
    <3> QED BY <1>2, <3>1, <3>2, <3>3, <3>4, <3>5 DEF Next
  <2>2. ASSUME NEW c \in Clients, NEW j \in RowsOf(rows', c), rows'[j].secret = 0
        PROVE  \E i \in RowsOf(rows, c) : rows[i].secret = 0
    BY <2>0, <2>1, <2>2 DEF RowsOf
  <2>3. ASSUME NEW c \in Clients, Accepts(c, 0, FALSE)'
        PROVE  Accepts(c, 0, FALSE)
    <3>1. (Accepts(c, 0, FALSE) <=> \E i \in RowsOf(rows, c) : rows[i].secret = 0)'
      BY <2>0, AcceptsAfter
    <3>2. Accepts(c, 0, FALSE) <=> \E i \in RowsOf(rows, c) : rows[i].secret = 0
      BY <2>0, AcceptsFacts
    <3> QED BY <2>2, <2>3, <3>1, <3>2
  <2> QED BY <2>3
<1>3. IInv /\ [Next]_vars => [rows' # rows /\ issued' = issued /\ restarts' = restarts =>
        \A i \in Ids :
          rows[i].secret # 0 /\ rows'[i].client = rows[i].client /\ rows'[i].secret # rows[i].secret =>
            \E a \in Admins : /\ request[a].client = rows[i].client /\ request'[a] = NoSave
                             /\ (request[a].stale \/ request[a].blind)]_vars
  BY <1>1
<1>4. IInv /\ [Next]_vars => [restarts' = restarts =>
        \A c \in Clients : RowsOf(rows, c) # {} /\ ~Accepts(c, 0, FALSE) => ~Accepts(c, 0, FALSE)']_vars
  BY <1>2
<1>5. Spec => SaveKeepsSecret
  BY <1>3, Inductive, PTL DEF Spec, SaveKeepsSecret
<1>6. Spec => NeverOpenAgain
  BY <1>4, Inductive, PTL DEF Spec, NeverOpenAgain
<1> QED BY <1>5, <1>6 DEF SecretsKept
=============================================================================
