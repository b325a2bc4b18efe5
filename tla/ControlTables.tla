----------------------------- MODULE ControlTables -----------------------------
(***************************************************************************)
(* One table of the control store and the admin handlers that edit it:      *)
(* route policies, policy rules, IP policies or captcha resources           *)
(* (internal/api/server.go, resource_upload.go) over the memory store, with *)
(* the file it keeps the resources in, or Postgres.                         *)
(*                                                                         *)
(* A handler changes the table, writes an audit event, and tells the        *)
(* gateways' streams, each a step of its own.  A change is a number; what   *)
(* it says, the checks of the body and the list handlers are left out.  An  *)
(* upload stores its images one by one.  What the gateways hold is the      *)
(* table at the last notice (ConfigSync has their side).                    *)
(***************************************************************************)
EXTENDS Naturals, FiniteSets, Sequences

CONSTANTS
  Admins,      \* requests to the admin API that may be served at a time
  Clients,
  Registered,  \* the clients with an application: Postgres has a foreign key on it
  Ids, Seeds,  \* the ids of rows, those both stores are seeded with
  None,
  Ages,        \* the times an admin may send as the created_at of a row
  AuditCap,    \* the events the memory store keeps, 500 in the code
  MaxItems,    \* bound: images of an upload
  MaxChanges,  \* bound: requests that change the table
  MaxTroubles  \* bound: statements and writes that fail, answers lost, restarts

ASSUME TablesAssumption ==
  /\ Registered \subseteq Clients /\ Registered # {} /\ Seeds \subseteq Ids
  /\ None \notin Clients \union Ids \union Nat /\ Ages \subseteq Nat /\ AuditCap \in Nat \ {0}
  /\ None \notin [rows : [Ids -> [client : Clients \union {None}, change : Nat, born : Nat, image : BOOLEAN]],
                  forgotten : SUBSET Seeds]
  /\ MaxItems \in Nat /\ MaxChanges \in Nat /\ MaxTroubles \in Nat

VARIABLES
  backend, table,
  rows,       \* the rows, by id
  forgotten,  \* deletedSeeds: the seeds that were deleted
  file,       \* the resource file, None while there is none
  disk,       \* the ids whose image is in the upload directory
  request,    \* per admin: the handler in flight
  changes,    \* changes asked for so far
  published,  \* the rows at the last notice to the gateways
  trail,      \* the audit trail, newest event first: the change it is of, 0 if of none of this table
  made,       \* history: the changes that were stored
  kept,       \* history: what the last write of the file that succeeded wrote
  behind,     \* history: a write of the file has failed since
  hushed,     \* history: a change was stored and its handler told nobody
  since,      \* history: per change that has had an event, how many were newer, up to AuditCap
  reaged,     \* history: the last save brought another created_at than the row had
  excused,    \* history: the changes without an event, or with a false one, and why
  troubles

control == <<rows, forgotten, file, disk, published, trail>>
history == <<made, kept, behind, hushed, since, reaged, excused>>
vars == <<backend, table, control, request, changes, history, troubles>>

Tables == {"route", "rule", "ip", "resource"}
NoRow == [client |-> None, change |-> 0, born |-> 0, image |-> FALSE]
Seeded == [i \in Ids |-> IF i \in Seeds
                         THEN [client |-> CHOOSE c \in Registered : TRUE, change |-> 0, born |-> 0, image |-> FALSE]
                         ELSE NoRow]
Idle == [step |-> "idle", change |-> 0, client |-> None, left |-> 0, image |-> None, stored |-> FALSE]

Used(t) == {i \in Ids : t[i] # NoRow}
MayFail == troubles < MaxTroubles

----------------------------------------------------------------------------
(* The resource file of the memory store.                                   *)

KeepsFile == backend = "memory" /\ table = "resource"

\* loadResourcesFromDisk over the seed.
Load(f) ==
  IF f = None THEN [rows |-> Seeded, forgotten |-> {}]
  ELSE [rows |-> [i \in Ids |-> IF f.rows[i] # NoRow THEN f.rows[i]
                                ELSE IF i \in f.forgotten THEN NoRow ELSE Seeded[i]],
        forgotten |-> {i \in f.forgotten : f.rows[i] = NoRow}]

TornFile == [rows |-> [i \in Ids |-> NoRow], forgotten |-> {}]

\* Mutant: the file is written in place, and left torn.
FailedWriteInPlace == TornFile
\* The new content goes to a file beside it, which takes its name when it is complete.
FailedWrite == file

\* persistResourcesLocked, whose errors nobody sees.
Persist(t, gone, fails) ==
  IF KeepsFile
  THEN /\ file' = IF fails THEN FailedWrite ELSE [rows |-> t, forgotten |-> gone]
       /\ kept' = IF fails THEN kept ELSE [rows |-> t, forgotten |-> gone]
       /\ behind' = fails
  ELSE UNCHANGED <<file, kept, behind>>

\* What may become of a change: it is done, it fails, or it is done and its answer is lost.  The
\* memory store can only fail to write its file.
Outcomes ==
  {"done"} \union (IF MayFail /\ backend = "postgres" THEN {"failed", "unheard"} ELSE {})
           \union (IF MayFail /\ KeepsFile THEN {"unwritten"} ELSE {})
Spend(outcome) == troubles' = IF outcome = "done" THEN troubles ELSE troubles + 1

----------------------------------------------------------------------------
(* The stores.                                                              *)

\* Mutant: a row saved again without a created_at is as young as a new one.
BornOfNew(old, sent, n) == IF sent = None THEN n ELSE sent

\* created_at of a row that is saved again.  Postgres keeps it, whatever the body has; the memory
\* store takes that of the body, and keeps its own only for a rule whose body has none.
BornAgain(old, sent, n) ==
  IF backend = "postgres" THEN old.born
  ELSE IF sent # None THEN sent ELSE IF table = "rule" THEN old.born ELSE 0

\* That of a row that was not there: the body's, or now; of the memory store's other tables, no time.
BornFirst(sent, n) == IF sent # None THEN sent ELSE IF backend = "postgres" \/ table = "rule" THEN n ELSE 0

\* What the created_at of a body may be: none, that of the row, now (which the memory store also
\* gives a row that comes without an id), or one of another time, as of an earlier row of the id.
Sent(i) == {None, rows[i].born, changes + 1} \union Ages

RowSaved(t, i, client, sent, n) ==
  [client |-> client, change |-> n, image |-> t[i].image,
   born |-> IF t[i] = NoRow THEN BornFirst(sent, n) ELSE BornAgain(t[i], sent, n)]

Stores(client, outcome) == outcome # "failed" /\ (backend = "memory" \/ client \in Registered)

\* Mutant: the mark of a deleted seed outlives its return.
StillForgotten(i) == forgotten
\* A resource that is saved is no deleted seed any more.
Undeleted(i) == forgotten \ {i}

\* Upsert...: the row of an id is replaced, whichever client it was of.
Upsert(i, row, stored, outcome) ==
  /\ rows' = IF stored THEN [rows EXCEPT ![i] = row] ELSE rows
  /\ forgotten' = IF stored /\ KeepsFile THEN Undeleted(i) ELSE forgotten
  /\ IF stored THEN Persist(rows', forgotten', outcome = "unwritten") ELSE UNCHANGED <<file, kept, behind>>

\* Delete...: the rows of the ids that are of the client, or of any when none is named.
Hit(ids, client) == {i \in ids : rows[i] # NoRow /\ (client = None \/ rows[i].client = client)}
Remove(hit, outcome) ==
  /\ rows' = [i \in Ids |-> IF i \in hit THEN NoRow ELSE rows[i]]
  /\ forgotten' = IF KeepsFile THEN forgotten \union (hit \intersect Seeds) ELSE forgotten
  /\ IF hit # {} THEN Persist(rows', forgotten', outcome = "unwritten") ELSE UNCHANGED <<file, kept, behind>>

----------------------------------------------------------------------------
(* The handlers.                                                            *)

Init ==
  /\ backend \in {"memory", "postgres"} /\ table \in Tables
  /\ rows = Seeded /\ forgotten = {} /\ file = None /\ disk = {}
  /\ request = [a \in Admins |-> Idle] /\ changes = 0
  /\ published = rows /\ trail = <<>> /\ since = [n \in {} |-> 0] /\ reaged = FALSE
  /\ made = {} /\ kept = [rows |-> Seeded, forgotten |-> {}] /\ behind = FALSE /\ hushed = FALSE
  /\ excused = {} /\ troubles = 0

\* Mutant: the audit event is left out.
OwesNotice(n, client, stored) == [Idle EXCEPT !.step = "notify", !.change = n, !.client = client, !.stored = stored]
\* A handler has changed the table: the audit event is next.
Owes(n, client, stored) == [Idle EXCEPT !.step = "audit", !.change = n, !.client = client, !.stored = stored]

\* handleUpsertRoutePolicy and the like: what the store could not do is answered as done.
Save(a, client, i, sent, outcome) ==
  LET n == changes + 1
      stored == Stores(client, outcome)
  IN /\ request[a] = Idle /\ changes < MaxChanges
     /\ outcome \in Outcomes /\ sent \in Sent(i)
     /\ Upsert(i, RowSaved(rows, i, client, sent, n), stored, outcome)
     /\ reaged' = (sent \notin {None, rows[i].born})
     /\ changes' = n
     /\ made' = IF stored THEN made \union {n} ELSE made
     /\ excused' = IF stored THEN excused ELSE excused \union {n}
     /\ request' = [request EXCEPT ![a] = Owes(n, client, stored)]
     /\ Spend(outcome)
     /\ UNCHANGED <<backend, table, disk, published, trail, since, hushed>>

\* Mutant: a deletion that hits nothing counts, and one whose file cannot be written does not.
CountsAlways(hit, outcome) == outcome = "done"
\* The number of rows deleted, as the handler hears it: none when the statement fails or goes unheard.
Counts(hit, outcome) == hit # {} /\ outcome \in {"done", "unwritten"}

\* handleDeleteRoutePolicies and the like; only the resources may be deleted without a client.
Delete(a, client, ids, outcome) ==
  LET n == changes + 1
      hit == IF outcome = "failed" THEN {} ELSE Hit(ids, client)
      owes == Counts(hit, outcome)
  IN /\ request[a] = Idle /\ changes < MaxChanges
     /\ ids # {} /\ (client = None => table = "resource")
     /\ outcome \in Outcomes
     /\ Remove(hit, outcome)
     /\ changes' = n
     /\ made' = IF hit # {} THEN made \union {n} ELSE made
     /\ excused' = IF hit # {} /\ ~owes THEN excused \union {n} ELSE excused
     /\ hushed' = (hushed \/ (hit # {} /\ ~owes))
     /\ request' = IF owes THEN [request EXCEPT ![a] = Owes(n, client, TRUE)] ELSE request
     /\ Spend(outcome)
     /\ UNCHANGED <<backend, table, disk, published, trail, since, reaged>>

\* handleUploadResources, item by item: the image is written, its row stored.
StartUpload(a, client, items) ==
  /\ table = "resource" /\ request[a] = Idle /\ changes < MaxChanges
  /\ changes' = changes + 1
  /\ request' = [request EXCEPT ![a] =
       [Idle EXCEPT !.step = "upload", !.change = changes + 1, !.client = client, !.left = items]]
  /\ UNCHANGED <<backend, table, control, history, troubles>>

Fresh == {i \in Ids \ Seeds : rows[i] = NoRow /\ i \notin disk}

\* Mutant: the image is not written.
WrittenNowhere(i) == disk
\* saveUploadedResource: a new id, and its image in the upload directory.
Written(i) == disk \union {i}
WriteImage(a, i) ==
  /\ request[a].step = "upload" /\ request[a].left > 0 /\ request[a].image = None
  /\ i \in Fresh
  /\ disk' = Written(i)
  /\ request' = [request EXCEPT ![a].image = i]
  /\ UNCHANGED <<backend, table, rows, forgotten, file, published, trail, changes, history, troubles>>

StoreItem(a, outcome) ==
  LET r == request[a]
      stored == Stores(r.client, outcome)
      row == [client |-> r.client, change |-> r.change, born |-> r.change, image |-> TRUE]
  IN /\ r.step = "upload" /\ r.image # None
     /\ outcome \in Outcomes
     /\ Upsert(r.image, row, stored, outcome)
     /\ made' = IF stored THEN made \union {r.change} ELSE made
     /\ excused' = IF stored THEN excused ELSE excused \union {r.change}
     /\ request' = [request EXCEPT ![a].image = None, ![a].left = @ - 1, ![a].stored = @ \/ stored]
     /\ Spend(outcome)
     /\ UNCHANGED <<backend, table, disk, published, trail, changes, since, reaged, hushed>>

\* An item that cannot be read, written or is no valid resource ends the upload with 400: what was
\* stored before it stays, and nobody is told.
BreakOffUpload(a) ==
  LET r == request[a] IN
  /\ r.step = "upload" /\ r.left > 0
  /\ request' = [request EXCEPT ![a] = Idle]
  /\ hushed' = (hushed \/ r.stored)
  /\ excused' = IF r.stored THEN excused \union {r.change} ELSE excused
  /\ UNCHANGED <<backend, table, control, changes, made, kept, behind, since, reaged, troubles>>

FinishUpload(a) ==
  /\ request[a].step = "upload" /\ request[a].left = 0
  /\ request' = [request EXCEPT ![a] = Owes(@.change, @.client, @.stored)]
  /\ UNCHANGED <<backend, table, control, changes, history, troubles>>

\* Mutant: an event goes to the end, and the first ones are kept.
AppendedLast(event) == IF backend = "memory" /\ Len(trail) >= AuditCap THEN trail ELSE Append(trail, event)
\* AddAuditEvent: the event goes first, and the memory store keeps the AuditCap newest.
Added(event) ==
  IF backend = "memory" /\ Len(trail) >= AuditCap
  THEN <<event>> \o SubSeq(trail, 1, AuditCap - 1) ELSE <<event>> \o trail

Older == [n \in DOMAIN since |-> IF since[n] < AuditCap THEN since[n] + 1 ELSE AuditCap]

\* recordConfigAuditEvent: Postgres may refuse the event.
Audit(a, outcome) ==
  LET n == request[a].change
      taken == outcome # "failed"
  IN /\ request[a].step = "audit"
     /\ outcome \in Outcomes \ {"unwritten"}
     /\ trail' = IF taken THEN Added(n) ELSE trail
     /\ since' = IF taken THEN [m \in DOMAIN since \union {n} |-> IF m = n THEN 0 ELSE Older[m]] ELSE since
     /\ excused' = IF taken THEN excused ELSE excused \union {n}
     /\ request' = [request EXCEPT ![a].step = "notify"]
     /\ Spend(outcome)
     /\ UNCHANGED <<backend, table, rows, forgotten, file, disk, published, changes, made, kept, behind, hushed, reaged>>

\* The events of other handlers, the decisions first of all, are in the same trail; in Postgres they
\* push nothing out.
OtherEvent ==
  /\ backend = "memory"
  /\ trail' = Added(0) /\ since' = Older
  /\ UNCHANGED <<backend, table, rows, forgotten, file, disk, published, request, changes, made, kept, behind, hushed,
                 reaged, excused, troubles>>

\* Mutant: only the rows of the client the change was of are told.
ToldOneClient(r) ==
  [i \in Ids |-> IF r.client \in {rows[i].client, published[i].client} THEN rows[i] ELSE published[i]]
\* Every stream sends a new snapshot, whichever client the change was of.
Told(r) == rows

\* notifyConfigChanged, and the answer.
Notify(a) ==
  /\ request[a].step = "notify"
  /\ published' = Told(request[a])
  /\ hushed' = FALSE
  /\ request' = [request EXCEPT ![a] = Idle]
  /\ UNCHANGED <<backend, table, rows, forgotten, file, disk, trail, changes, made, kept, behind, since, reaged, excused, troubles>>

\* The changes the trail has an event of.
Audited == {trail[k] : k \in DOMAIN trail} \ {0}

\* The server is started again, and the gateways ask it anew.  The memory store has its seed and
\* its file, and an empty audit trail.
Restart ==
  /\ MayFail /\ troubles' = troubles + 1
  /\ request' = [a \in Admins |-> Idle]
  /\ IF backend = "memory"
     THEN /\ rows' = Load(IF KeepsFile THEN file ELSE None).rows
          /\ forgotten' = Load(IF KeepsFile THEN file ELSE None).forgotten
          /\ trail' = <<>> /\ since' = [n \in {} |-> 0] /\ made' = {} /\ excused' = {}
     ELSE /\ UNCHANGED <<rows, forgotten, trail, since, made>>
          /\ excused' = excused \union (made \ Audited)
  /\ published' = rows' /\ hushed' = FALSE /\ behind' = FALSE
  /\ UNCHANGED <<backend, table, file, disk, changes, kept, reaged>>

Next ==
  \/ \E a \in Admins, c \in Clients, i \in Ids, o \in Outcomes : \E b \in Sent(i) : Save(a, c, i, b, o)
  \/ \E a \in Admins, c \in Clients \union {None}, s \in SUBSET Ids, o \in Outcomes : Delete(a, c, s, o)
  \/ \E a \in Admins, c \in Clients, k \in 1..MaxItems : StartUpload(a, c, k)
  \/ \E a \in Admins, i \in Ids : WriteImage(a, i)
  \/ \E a \in Admins, o \in Outcomes : StoreItem(a, o) \/ Audit(a, o)
  \/ \E a \in Admins : BreakOffUpload(a) \/ FinishUpload(a) \/ Notify(a)
  \/ OtherEvent \/ Restart

Spec == Init /\ [][Next]_vars

----------------------------------------------------------------------------
(* Properties.                                                              *)

Row == [client : Clients, change : 0..changes, born : Nat, image : BOOLEAN]

\* Every variable has its type: the memory store's mark of a deleted seed is of a seed that is not there.
TypeOK ==
  /\ backend \in {"memory", "postgres"} /\ table \in Tables
  /\ rows \in [Ids -> {NoRow} \union Row] /\ published \in [Ids -> {NoRow} \union Row]
  /\ forgotten \subseteq Seeds \ Used(rows)
  /\ disk \subseteq Ids \ Seeds
  /\ \A a \in Admins : /\ request[a].step \in {"idle", "upload", "audit", "notify"}
                       /\ request[a].change \in 0..changes /\ request[a].left \in 0..MaxItems
  /\ changes \in 0..MaxChanges /\ troubles \in 0..MaxTroubles
  /\ Audited \union made \union excused \subseteq 1..changes

\* What the resource file holds is what was last written, whatever happens to a later write, and it
\* brings back every resource and every deletion of a seed (memory.go:505-553): a restart loses
\* nothing an admin was told is stored, unless a write failed.
FileTells ==
  KeepsFile => /\ Load(file) = kept
               /\ ~behind => kept = [rows |-> rows, forgotten |-> forgotten]

\* When no handler is at work the gateways hold what is stored (server.go:918-944, 963-1030, 1168-1194),
\* unless an upload was broken off after it stored an image or rows were deleted and not counted.
GatewaysHoldWhatIsStored ==
  (\A a \in Admins : request[a] = Idle) => published = rows \/ hushed

\* AuditCap newer events have followed that of a change, and the memory store has dropped it.
PushedOut(n) == backend = "memory" /\ n \in DOMAIN since /\ since[n] = AuditCap

\* A change that is stored is in the audit trail once its handler has answered
\* (docs/zh/architecture-design.md:57, 2182), unless an upload was broken off, rows were deleted and
\* not counted, Postgres refused the event, or the server died in between.  The memory store keeps it
\* there until AuditCap events of any kind are newer, and no event leaves sooner (memory.go:568-571).
ChangesAreAudited ==
  \A n \in made : n \in Audited \/ n \in excused \/ PushedOut(n) \/ \E a \in Admins : request[a].change = n

\* The trail tells of no change that was not stored, unless a statement failed and its handler
\* answered as if it had not (postgres.go:291-295).
AuditTellsTheTruth == Audited \subseteq made \union excused

\* A resource that was uploaded has its image in the upload directory, at every point of an upload
\* and after a restart (resource_upload.go:76-93, 296-310).
ImagesAreThere == \A i \in Ids : rows[i].image => i \in disk

\* A row of Postgres that is saved again keeps its age, which is its place among rows of one priority
\* (postgres.go:193, 336), whatever the body says.  A rule of the memory store keeps it through every
\* save whose body has no created_at or that of the row; a body with another one, as of a rule that
\* had the id before, changes it (memory.go:325-334).
AgeIsKept ==
  [][backend = "postgres" \/ (table = "rule" /\ ~reaged') =>
      \A i \in Ids : rows[i] # NoRow /\ rows'[i] # NoRow /\ rows'[i].change > rows[i].change => rows'[i].born = rows[i].born]_vars

\* A change an admin made is with the gateways and in the audit trail, and the trail tells of no other.
ChangesAreTold == GatewaysHoldWhatIsStored /\ ChangesAreAudited /\ AuditTellsTheTruth

\* What is stored is kept: resources and deletions by the file, images by the upload directory,
\* a rule's place among its equals by its age.
StoredIsKept == [](FileTells /\ ImagesAreThere) /\ AgeIsKept
=============================================================================
