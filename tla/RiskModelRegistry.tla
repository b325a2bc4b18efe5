--------------------------- MODULE RiskModelRegistry ---------------------------
(***************************************************************************)
(* The registry of risk model versions: the admin API registers versions    *)
(* of named models, activates one and rolls back to the one before, and the *)
(* policy service and the feature pool look up the active version.          *)
(*                                                                         *)
(* In the memory store every operation is one step under the mutex.  In     *)
(* Postgres activation and rollback are transactions of several statements  *)
(* at READ COMMITTED, the level BeginTx(ctx, nil) leaves in force: a SELECT *)
(* or an UPDATE finds its rows in what is committed when it starts; an      *)
(* UPDATE then locks them one by one, waits where another transaction has   *)
(* written, and looks at its condition again before it writes.              *)
(*                                                                         *)
(* Registration requests leave created_at and activated_at to the store, as *)
(* the console's form does.                                                 *)
(***************************************************************************)
EXTENDS Naturals

CONSTANTS
  Ids,            \* versions; in Postgres one per name and version string
  Names,          \* model names
  Admins,         \* admin requests served at a time
  None,           \* no version
  Backends,       \* the control stores a server may be configured with
  Spellings,      \* what a registration request may give as status
  MaxClock        \* bound: instants drawn from time.Now()

Statuses == {"candidate", "active", "retired", "rolled_back"}

\* Mutant: the status is stored as it was spelled.
NormalizeAsIs(spelling) == spelling

\* normalizeModelStatus: blanks are trimmed, an unknown status is "candidate".
Normalize(spelling) ==
  CASE spelling \in Statuses                          -> spelling
    [] spelling = " active"                           -> "active"
    [] spelling \notin Statuses /\ spelling # " active" -> "candidate"

ASSUME RegistryAssumption ==
  /\ None \notin Ids
  /\ Backends \subseteq {"memory", "postgres"}
  /\ MaxClock \in Nat

VARIABLES
  backend,  \* the control store in use: MemoryStore or PostgresControlStore
  models,   \* the committed rows
  clock,    \* time.Now(): no two operations see the same instant
  step,     \* Postgres: where the transaction of each admin request is
  subject,  \* the version named by the request
  promoted, \* the version it is going to activate
  scan,     \* the rows its UPDATE has found and not visited yet
  stamp,    \* its activated_at
  writes,   \* the statuses it has written and not committed; "" for none
  disturbed \* history: names on which transactions overlapped, or that were
            \* registered active

vars == <<backend, models, clock, step, subject, promoted, scan, stamp, writes, disturbed>>

Postgres == backend = "postgres"

Rows == [status: Statuses \cup {"absent"}, name: Names, activated: Nat, created: Nat]

Registered(i) == models[i].status # "absent"

Active(name) == {i \in Ids : models[i].status = "active" /\ models[i].name = name}

\* Ordering by activation, never activated last, then by creation.
LaterActivated(i, j) ==
  \/ models[i].activated > models[j].activated
  \/ models[i].activated = models[j].activated /\ models[i].created >= models[j].created

\* The first of S in that order.
LastActivated(S) == {i \in S : \A j \in S : LaterActivated(i, j)}

\* The versions a rollback of i may restore.
RetiredOf(i) ==
  {j \in Ids \ {i} : models[j].name = models[i].name /\ models[j].status = "retired"}

-----------------------------------------------------------------------------
(* MemoryStore, and the single statements of Postgres *)

\* retireActiveModels
RetireActive(name, kept) ==
  [i \in Ids |-> IF i # kept /\ i \in Active(name) THEN [models[i] EXCEPT !.status = "retired"] ELSE models[i]]

NewRow(name, status) ==
  [status |-> status, name |-> name, created |-> clock + 1,
   activated |-> IF status = "active" /\ ~Postgres THEN clock + 1 ELSE 0]

Locked(i) == \E a \in Admins : writes[a][i] # ""

(* handleUpsertRiskModelVersion refuses the status "active" and leaves the      *)
(* rest to the store.                                                         *)
Accepted(spelling) == spelling # "active"

(* In memory a known version takes name and status of the request and keeps   *)
(* its instants.                                                              *)
UpsertInMemory(i, name, status) ==
  /\ ~Postgres
  /\ clock < MaxClock
  /\ clock' = clock + 1
  /\ LET others == IF status = "active" THEN RetireActive(name, i) ELSE models
         known == [models[i] EXCEPT !.status = status, !.name = name,
                                    !.activated = IF status = "active" /\ @ = 0 THEN clock + 1 ELSE @]
     IN models' = [others EXCEPT ![i] = IF Registered(i) THEN known ELSE NewRow(name, status)]
  /\ UNCHANGED <<step, subject, promoted, scan, stamp, writes, disturbed>>

\* Mutant: the request's status is taken over as it is.
UpsertedStatusAsIs(held, status) == status

\* The CASE of the INSERT ... ON CONFLICT: an active version stays active.
UpsertedStatus(held, status) == IF held = "active" THEN held ELSE status

(* The INSERT ... ON CONFLICT DO UPDATE of Postgres, on a row nobody holds.    *)
UpsertInPostgres(i, name, status) ==
  /\ Postgres
  /\ ~Locked(i)
  /\ Registered(i) => models[i].name = name
  /\ clock < MaxClock
  /\ clock' = clock + 1
  /\ models' = [models EXCEPT ![i] =
                  IF Registered(i) THEN [models[i] EXCEPT !.status = UpsertedStatus(@, status)]
                  ELSE NewRow(name, status)]
  /\ disturbed' = IF status = "active" THEN disturbed \cup {name} ELSE disturbed
  /\ UNCHANGED <<step, subject, promoted, scan, stamp, writes>>

ActivateInMemory(i) ==
  /\ ~Postgres
  /\ clock < MaxClock
  /\ Registered(i)
  /\ clock' = clock + 1
  /\ models' = [RetireActive(models[i].name, i) EXCEPT ![i].status = "active", ![i].activated = clock + 1]
  /\ UNCHANGED <<step, subject, promoted, scan, stamp, writes, disturbed>>

(* The latest retired version of the name comes back and what was active is    *)
(* marked, whether or not i itself was active.                                *)
RollbackInMemory(i) ==
  /\ ~Postgres
  /\ clock < MaxClock
  /\ Registered(i)
  /\ clock' = clock + 1
  /\ \E j \in LastActivated(RetiredOf(i)) :
       models' = [k \in Ids |->
                    CASE k = j -> [models[k] EXCEPT !.status = "active", !.activated = clock + 1]
                      [] k # j /\ k \in Active(models[i].name) -> [models[k] EXCEPT !.status = "rolled_back"]
                      [] OTHER -> models[k]]
  /\ UNCHANGED <<step, subject, promoted, scan, stamp, writes, disturbed>>

-----------------------------------------------------------------------------
(* PostgresControlStore: ActivateRiskModelVersion, RollbackRiskModelVersion *)

Busy(name) == \E a \in Admins : step[a] # "idle" /\ models[subject[a]].name = name

Begin(a, i, j) ==
  /\ Postgres
  /\ step[a] = "idle"
  /\ Registered(i)
  /\ step' = [step EXCEPT ![a] = "chosen"]
  /\ subject' = [subject EXCEPT ![a] = i]
  /\ promoted' = [promoted EXCEPT ![a] = j]
  /\ disturbed' = IF Busy(models[i].name) THEN disturbed \cup {models[i].name} ELSE disturbed
  /\ UNCHANGED <<models, clock, scan, stamp, writes>>

\* The SELECT of the name.
BeginActivate(a, i) == Begin(a, i, i)

\* The SELECTs of the name and of the version to restore.
BeginRollback(a, i) == \E j \in LastActivated(RetiredOf(i)) : Begin(a, i, j)

\* subject tells activation and rollback apart: a rollback never promotes its own.
Rollback(a) == subject[a] # promoted[a]

Demoted(a) == IF Rollback(a) THEN "rolled_back" ELSE "retired"

\* Mutant: a rollback takes down the version it names only.
ToDemoteNamed(a) ==
  Active(models[subject[a]].name) \cap (IF Rollback(a) THEN {subject[a]} ELSE Ids \ {promoted[a]})

\* What the UPDATE that takes the active versions down is about.
ToDemote(a) ==
  Active(models[subject[a]].name) \ (IF Rollback(a) THEN {} ELSE {promoted[a]})

\* It finds its rows.
StartDemoting(a) ==
  /\ step[a] = "chosen"
  /\ step' = [step EXCEPT ![a] = "demote"]
  /\ scan' = [scan EXCEPT ![a] = ToDemote(a)]
  /\ UNCHANGED <<models, clock, subject, promoted, stamp, writes, disturbed>>

\* It visits one of them, when no other transaction holds it.
Demote(a, j) ==
  /\ step[a] = "demote"
  /\ j \in scan[a]
  /\ ~Locked(j)
  /\ scan' = [scan EXCEPT ![a] = @ \ {j}]
  /\ writes' = [writes EXCEPT ![a][j] = IF models[j].status = "active" THEN Demoted(a) ELSE @]
  /\ UNCHANGED <<models, clock, step, subject, promoted, stamp, disturbed>>

\* All visited: the UPDATE that promotes is sent with the present instant.
StartPromoting(a) ==
  /\ step[a] = "demote"
  /\ scan[a] = {}
  /\ clock < MaxClock
  /\ clock' = clock + 1
  /\ stamp' = [stamp EXCEPT ![a] = clock + 1]
  /\ step' = [step EXCEPT ![a] = "promote"]
  /\ UNCHANGED <<models, subject, promoted, scan, writes, disturbed>>

Promote(a) ==
  /\ step[a] = "promote"
  /\ \A b \in Admins \ {a} : writes[b][promoted[a]] = ""
  /\ writes' = [writes EXCEPT ![a][promoted[a]] = "active"]
  /\ step' = [step EXCEPT ![a] = "commit"]
  /\ UNCHANGED <<models, clock, subject, promoted, scan, stamp, disturbed>>

Finish(a) ==
  /\ step' = [step EXCEPT ![a] = "idle"]
  /\ subject' = [subject EXCEPT ![a] = None]
  /\ promoted' = [promoted EXCEPT ![a] = None]
  /\ scan' = [scan EXCEPT ![a] = {}]
  /\ stamp' = [stamp EXCEPT ![a] = 0]
  /\ writes' = [writes EXCEPT ![a] = [i \in Ids |-> ""]]
  /\ UNCHANGED <<clock, disturbed>>

\* Mutant: activated_at is set once and for all.
StampedOnce(a, i) == IF models[i].activated = 0 THEN stamp[a] ELSE models[i].activated

\* The activated_at of a promoted version.
Stamped(a, i) == stamp[a]

Commit(a) ==
  /\ step[a] = "commit"
  /\ models' = [i \in Ids |->
                  CASE writes[a][i] = ""       -> models[i]
                    [] writes[a][i] = "active" -> [models[i] EXCEPT !.status = "active", !.activated = Stamped(a, i)]
                    [] OTHER                   -> [models[i] EXCEPT !.status = writes[a][i]]]
  /\ Finish(a)

\* The connection fails, postgresTimeout is over, or Postgres ends a deadlock.
Abort(a) ==
  /\ step[a] # "idle"
  /\ Finish(a)
  /\ UNCHANGED models

-----------------------------------------------------------------------------
Init ==
  /\ backend \in Backends
  /\ \E n \in Names :
       models = [i \in Ids |-> [status |-> "absent", name |-> n, activated |-> 0, created |-> 0]]
  /\ clock = 0
  /\ step = [a \in Admins |-> "idle"]
  /\ subject = [a \in Admins |-> None]
  /\ promoted = [a \in Admins |-> None]
  /\ scan = [a \in Admins |-> {}]
  /\ stamp = [a \in Admins |-> 0]
  /\ writes = [a \in Admins |-> [i \in Ids |-> ""]]
  /\ disturbed = {}

Next ==
  /\ UNCHANGED backend
  /\ \/ \E spelling \in Spellings :
          /\ Accepted(spelling)
          /\ \E i \in Ids, n \in Names :
               \/ UpsertInMemory(i, n, Normalize(spelling))
               \/ UpsertInPostgres(i, n, Normalize(spelling))
     \/ \E i \in Ids : ActivateInMemory(i) \/ RollbackInMemory(i)
     \/ \E a \in Admins :
          \/ \E i \in Ids : BeginActivate(a, i) \/ BeginRollback(a, i) \/ Demote(a, i)
          \/ StartDemoting(a)
          \/ StartPromoting(a)
          \/ Promote(a)
          \/ Commit(a)
          \/ Abort(a)

Spec == Init /\ [][Next]_vars

-----------------------------------------------------------------------------
\* Every variable has its type.
TypeOK ==
  /\ backend \in Backends
  /\ models \in [Ids -> Rows]
  /\ clock \in Nat
  /\ step \in [Admins -> {"idle", "chosen", "demote", "promote", "commit"}]
  /\ subject \in [Admins -> Ids \cup {None}]
  /\ promoted \in [Admins -> Ids \cup {None}]
  /\ scan \in [Admins -> SUBSET Ids]
  /\ stamp \in [Admins -> Nat]
  /\ writes \in [Admins -> [Ids -> Statuses \cup {""}]]
  /\ disturbed \subseteq Names

(* docs/zh/architecture-design.md:1702: when a version of a name is activated *)
(* the active one is retired, so that no name has two active versions.        *)
OneActivePerName == \A n \in Names : \A i, j \in Active(n) : i = j

(* As long as transactions on a name do not overlap and nobody registers it   *)
(* active, that is so, by any sequence of operations and whatever aborts; in  *)
(* the memory store always (retireActiveModels, the UPDATEs of Postgres).     *)
QuietNameOneActive == \A n \in Names \ disturbed : \A i, j \in Active(n) : i = j

(* In Postgres a name that has an active version keeps having one: activation *)
(* and rollback replace it, however their transactions interleave or abort,   *)
(* and registering a version again does not take it down.                     *)
StaysServed == [][Postgres => \A n \in Names : Active(n) # {} => Active(n)' # {}]_vars

(* In Postgres the active version of an undisturbed name is the one activated *)
(* last, so that the version a rollback restores, the last activated of the   *)
(* retired, is the one that was active before it.                             *)
ActiveIsNewest ==
  Postgres =>
    \A i, j \in Ids :
      /\ models[i].status = "active" /\ models[i].name \notin disturbed
      /\ Registered(j) /\ models[i].name = models[j].name
      => models[j].activated <= models[i].activated
=============================================================================
