--------------------------- MODULE ApplicationSecrets ---------------------------
(***************************************************************************)
(* The applications and their client secrets: the admin handlers that save  *)
(* an application and rotate its secret (internal/api/server.go) over the   *)
(* two control stores, the memory store and Postgres, and the check of the  *)
(* secret on every call of an integration.                                  *)
(*                                                                         *)
(* A secret is the number of its generation, 0 is no secret; the hash that  *)
(* is stored stands for the secret it was made of.  Saving is two calls of  *)
(* the store: the handler looks for the application, keeps the hash it      *)
(* found or makes one, and stores the row.  The status, the name and the    *)
(* dates of an application are left out.                                    *)
(***************************************************************************)
EXTENDS Naturals, FiniteSets

CONSTANTS
  Admins,      \* requests to the admin API that may be served at a time
  Clients,
  DemoClient,  \* the client both stores are seeded with
  Ids, DemoId, \* the ids an application may have
  None,
  MaxSecrets,  \* bound: secrets generated
  MaxTroubles  \* bound: statements that fail, answers that are lost and restarts, together

ASSUME SecretsAssumption ==
  /\ DemoClient \in Clients /\ DemoId \in Ids /\ IsFiniteSet(Ids)
  /\ None \notin Clients \union Ids
  /\ MaxSecrets \in Nat /\ MaxTroubles \in Nat

VARIABLES
  backend,  \* the control store in use
  rows,     \* the applications stored, by id
  request,  \* per admin: the save in flight
  issued,   \* secrets generated so far
  told,     \* history: the secrets in answers, with the client they were for
  rotated,  \* history: per client, the secret of the last rotation that was answered
  upset,    \* history: per client, what has happened since that a secret may suffer from
  troubles, restarts

vars == <<backend, rows, request, issued, told, rotated, upset, troubles, restarts>>

NoRow == [client |-> None, secret |-> 0]
Seeded == [i \in Ids |-> IF i = DemoId THEN [client |-> DemoClient, secret |-> 0] ELSE NoRow]
NoSave == [client |-> None, id |-> None, hash |-> 0, fresh |-> FALSE, blind |-> FALSE, stale |-> FALSE]

RowsOf(t, c) == {i \in Ids : t[i].client = c}
Unused(t) == RowsOf(t, None)

\* ListApplications in the order of a Go map: any row of the client may be the first.
Lookups(t, c) == IF RowsOf(t, c) = {} THEN {NoRow} ELSE {t[i] : i \in RowsOf(t, c)}

\* requireClientSecret: may a call with secret v pass for the client, in production mode or not?
VerifyClientSecret(hash, v) == hash # 0 /\ v # 0 /\ hash = v
Admits(row, v, production) ==
  /\ row.client # None
  /\ IF row.secret = 0 THEN ~production ELSE VerifyClientSecret(row.secret, v)
Accepts(c, v, production) == \E row \in Lookups(rows, c) : Admits(row, v, production)

----------------------------------------------------------------------------
(* The stores.                                                              *)

\* MemoryStore.UpsertApplication: a body without an id takes the id of a row of its client.
MemoryTargets(t, client, id) ==
  IF id # None THEN {id} ELSE IF RowsOf(t, client) # {} THEN RowsOf(t, client) ELSE Unused(t)
\* Mutant: the secret a row of the client has is kept, whatever the body brings.
UpsertInMemoryKeeping(t, client, id, hash) ==
  {[t EXCEPT ![i] = [client |-> client, secret |-> IF @.client = client THEN @.secret ELSE hash]] : i \in MemoryTargets(t, client, id)}
UpsertInMemory(t, client, id, hash) ==
  {[t EXCEPT ![i] = [client |-> client, secret |-> hash]] : i \in MemoryTargets(t, client, id)}

\* INSERT ... ON CONFLICT (client_id) DO UPDATE: the id stays, no hash keeps the hash, and a new
\* client under the id of another row breaks the primary key.
Coalesce(new, old) == IF new # 0 THEN new ELSE old
UpsertInPostgres(t, client, id, hash) ==
  IF RowsOf(t, client) # {} THEN {[t EXCEPT ![i].secret = Coalesce(hash, @)] : i \in RowsOf(t, client)}
  ELSE {[t EXCEPT ![i] = [client |-> client, secret |-> hash]] : i \in (IF id = None THEN Ids ELSE {id}) \intersect Unused(t)}

Upsert(t, client, id, hash) ==
  IF backend = "memory" THEN UpsertInMemory(t, client, id, hash) ELSE UpsertInPostgres(t, client, id, hash)

\* Mutant: only a row without a secret is given the new one.
RotatedOnlyWhenBare(t, client, hash) == {[t EXCEPT ![i].secret = IF @ = 0 THEN hash ELSE @] : i \in RowsOf(t, client)}

\* RotateApplicationSecret: the first row of the client, or the UPDATE of its only one.
Rotated(t, client, hash) == {[t EXCEPT ![i].secret = hash] : i \in RowsOf(t, client)}

MayFail == troubles + restarts < MaxTroubles

\* What may become of a request: it is done, its statement fails, or it is done and its answer is lost.
Outcomes == {"done"} \union (IF MayFail THEN {"unheard"} ELSE {})
            \union (IF MayFail /\ backend = "postgres" THEN {"failed"} ELSE {})
Spend(outcome) == troubles' = IF outcome = "done" THEN troubles ELSE troubles + 1

----------------------------------------------------------------------------
(* The handlers.                                                            *)

Init ==
  /\ backend \in {"memory", "postgres"}
  /\ rows = Seeded
  /\ request = [a \in Admins |-> NoSave]
  /\ issued = 0 /\ told = {}
  /\ rotated = [c \in Clients |-> 0] /\ upset = [c \in Clients |-> {}]
  /\ troubles = 0 /\ restarts = 0

\* Mutants: a secret that nobody was told is stored; the hash is left to the store, which may
\* have none to keep; the hash found is not used again.
HashForSkipping(found) == IF found.secret # 0 THEN found.secret ELSE issued + 2
HashForLeftToTheStore(found) == IF found.secret # 0 THEN 0 ELSE issued + 1
KeepsNothing(found) == FALSE

\* The hash to store: the one found, or a new one.
Keeps(found) == found.secret # 0
HashFor(found) == IF Keeps(found) THEN found.secret ELSE issued + 1

\* handleUpsertApplication up to the store: a list that fails is a list without the application.
LookForApplication(a, client, id, failed) ==
  /\ request[a] = NoSave
  /\ failed => backend = "postgres" /\ MayFail
  /\ \E found \in IF failed THEN {NoRow} ELSE Lookups(rows, client) :
       /\ Keeps(found) \/ issued < MaxSecrets
       /\ issued' = IF Keeps(found) THEN issued ELSE issued + 1
       /\ request' = [request EXCEPT ![a] =
            [client |-> client, id |-> id, hash |-> HashFor(found), fresh |-> ~Keeps(found),
             blind |-> Cardinality(RowsOf(rows, client)) > (IF failed THEN 0 ELSE 1), stale |-> FALSE]]
  /\ troubles' = IF failed THEN troubles + 1 ELSE troubles
  /\ UNCHANGED <<backend, rows, told, rotated, upset, restarts>>

\* The saves in flight for a client whose row changes have seen the row that was.
Overtake(reqs, client) == [b \in Admins |-> [reqs[b] EXCEPT !.stale = @ \/ reqs[b].client = client]]

\* What a save may do to the secrets of a client: it stores what was in force before, beside the
\* row in force or over the row of another client ("mixed"), it is not what it says ("failed"), or
\* it is answered to nobody ("unheard").
Upsetting(r, new, stored, answered) ==
  [c \in Clients |->
     (IF (c = r.client /\ r.stale) \/ Cardinality(RowsOf(new, c)) > 1
         \/ (c # r.client /\ RowsOf(new, c) # RowsOf(rows, c)) THEN {"mixed"} ELSE {})
     \union (IF c = r.client /\ (r.blind \/ ~stored) THEN {"failed"} ELSE {})
     \union (IF c = r.client /\ ~answered THEN {"unheard"} ELSE {})]

\* Mutant: the secret is told only when the application is new.
TellsNewClients(r) == r.fresh /\ RowsOf(rows, r.client) = {}
\* A new secret is in the answer, whether the application is new or had none.
Tells(r) == r.fresh

\* The rest of the handler.  A statement that fails is logged, and the save is answered as if it
\* were stored.
SaveApplication(a, outcome) ==
  LET r == request[a]
      new == Upsert(rows, r.client, r.id, r.hash)
      stored == outcome # "failed" /\ new # {}
      answered == outcome # "unheard"
  IN /\ r # NoSave /\ outcome \in Outcomes
     /\ r.id = None /\ RowsOf(rows, r.client) = {} => Unused(rows) # {}  \* bound: the ids
     /\ rows' \in IF stored THEN new ELSE {rows}
     /\ told' = IF Tells(r) /\ answered THEN told \union {<<r.client, r.hash>>} ELSE told
     /\ upset' = [c \in Clients |-> upset[c] \union Upsetting(r, rows', stored, answered)[c]]
     /\ request' = IF stored THEN Overtake([request EXCEPT ![a] = NoSave], r.client)
                   ELSE [request EXCEPT ![a] = NoSave]
     /\ Spend(outcome)
     /\ UNCHANGED <<backend, issued, rotated, restarts>>

\* handleRotateApplicationSecret: 404 without a row, 500 when the statement fails or goes unheard.
RotateApplicationSecret(a, client, outcome) ==
  /\ request[a] = NoSave /\ issued < MaxSecrets
  /\ outcome \in Outcomes
  /\ issued' = issued + 1
  /\ LET found == RowsOf(rows, client) # {}
         stored == found /\ outcome # "failed"
         answered == stored /\ outcome = "done"
     IN /\ rows' \in IF stored THEN Rotated(rows, client, issued + 1) ELSE {rows}
        /\ told' = IF answered THEN told \union {<<client, issued + 1>>} ELSE told
        /\ rotated' = IF answered THEN [rotated EXCEPT ![client] = issued + 1] ELSE rotated
        /\ upset' = [upset EXCEPT ![client] = IF answered THEN (IF Cardinality(RowsOf(rows, client)) > 1 THEN @ ELSE {})
                                              ELSE IF stored THEN @ \union {"unheard"} ELSE @]
        /\ request' = IF stored THEN Overtake(request, client) ELSE request
  /\ Spend(outcome)
  /\ UNCHANGED <<backend, restarts>>

\* The process is started again: the memory store with its seed, Postgres with its rows.
Restart ==
  /\ MayFail
  /\ restarts' = restarts + 1
  /\ request' = [a \in Admins |-> NoSave]
  /\ IF backend = "memory"
     THEN /\ rows' = Seeded
          /\ rotated' = [c \in Clients |-> 0] /\ upset' = [c \in Clients |-> {}]
          /\ told' = {}
     ELSE UNCHANGED <<rows, rotated, upset, told>>
  /\ UNCHANGED <<backend, issued, troubles>>

Next ==
  \/ \E a \in Admins, c \in Clients, i \in Ids \union {None}, failed \in BOOLEAN : LookForApplication(a, c, i, failed)
  \/ \E a \in Admins, o \in {"done", "failed", "unheard"} : SaveApplication(a, o)
  \/ \E a \in Admins, c \in Clients, o \in {"done", "failed", "unheard"} : RotateApplicationSecret(a, c, o)
  \/ Restart

Spec == Init /\ [][Next]_vars

----------------------------------------------------------------------------
(* Properties.                                                              *)

\* Every variable has its type, and no secret is stored that was not generated.
TypeOK ==
  /\ backend \in {"memory", "postgres"}
  /\ rows \in [Ids -> {NoRow} \union [client : Clients, secret : 0..issued]]
  /\ request \in [Admins -> {NoSave} \union [client : Clients, id : Ids \union {None}, hash : 0..issued,
                                            fresh : BOOLEAN, blind : BOOLEAN, stale : BOOLEAN]]
  /\ issued \in 0..MaxSecrets /\ told \subseteq Clients \X (1..issued)
  /\ rotated \in [Clients -> 0..issued]
  /\ upset \in [Clients -> SUBSET {"mixed", "failed", "unheard"}]
  /\ troubles \in 0..MaxTroubles /\ restarts \in 0..MaxTroubles

\* A secret older than the one the last rotation answered with opens no call any more (server.go:881),
\* but for a save that had looked for the application before the rotation and stores what it found,
\* a second row of the client in the memory store, and a row given to another client.
RotatedOutStaysOut ==
  \A c \in Clients : \A v \in 1..issued :
    v < rotated[c] /\ Accepts(c, v, TRUE) => "mixed" \in upset[c]

Newest(c) == CHOOSE v \in {t[2] : t \in {x \in told : x[1] = c}} : \A t \in told : t[1] = c => t[2] <= v

\* The newest secret an integration was given opens its calls, unless a save was overtaken, was not
\* stored, or its answer lost (server.go:864-879 and postgres.go:150-154).
NewestToldWorks ==
  \A c \in Clients : (\E t \in told : t[1] = c) => Accepts(c, Newest(c), TRUE) \/ upset[c] # {}

\* The secret in force is one that somebody was given: nobody is locked out of an application,
\* unless the answer that carried it was lost, or a save put such a secret back (server.go:864-904).
InForceWasTold ==
  \A i \in Ids : rows[i].secret # 0 =>
    <<rows[i].client, rows[i].secret>> \in told \/ upset[rows[i].client] \intersect {"unheard", "mixed"} # {}

\* Saving an application leaves its secret alone (server.go:859-871), unless the list failed, the
\* secret changed after the look-up, or the client had several rows to find.
SaveKeepsSecret ==
  [][rows' # rows /\ issued' = issued /\ restarts' = restarts =>
      \A i \in Ids :
        rows[i].secret # 0 /\ rows'[i].client = rows[i].client /\ rows'[i].secret # rows[i].secret =>
          \E a \in Admins : /\ request[a].client = rows[i].client /\ request'[a] = NoSave
                           /\ (request[a].stale \/ request[a].blind)]_vars

\* An application that has a secret never opens to calls without one again while the server runs:
\* the memory store keeps no hash a body comes without (memory.go:236-241), the handler brings it.
NeverOpenAgain ==
  [][restarts' = restarts =>
      \A c \in Clients : RowsOf(rows, c) # {} /\ ~Accepts(c, 0, FALSE) => ~Accepts(c, 0, FALSE)']_vars

\* The secret that opens an application's calls is one its owner was given last, not one that was
\* rotated out (handleUpsertApplication, handleRotateApplicationSecret).
SecretsInForce == RotatedOutStaysOut /\ NewestToldWorks /\ InForceWasTold

\* Only a rotation changes a secret, and nothing takes it away.
SecretsKept == SaveKeepsSecret /\ NeverOpenAgain
=============================================================================
