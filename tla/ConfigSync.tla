------------------------------ MODULE ConfigSync ------------------------------
(***************************************************************************)
(* How a change made through the admin API reaches the caches of the        *)
(* gateways: the notifier (internal/configsync), the config service's       *)
(* GetConfig and WatchConfig (internal/grpcserver) and the gateway's cache  *)
(* loop (internal/gateway).                                                *)
(*                                                                         *)
(* An admin handler first writes the store and then calls Notify.  A        *)
(* snapshot is put together by reading the parts of the configuration one   *)
(* after the other, each under the store's lock, and the version last;      *)
(* writes and notifications fall in between.  The content of a part is      *)
(* abstracted to the number of times it has been written.  The stream       *)
(* delivers in order, and a snapshot that is lost with its stream is one    *)
(* that was not sent: sending and caching are one step.                     *)
(***************************************************************************)
EXTENDS Naturals, FiniteSets

CONSTANTS
  Gateways,    \* gateways, each with its cache loop and at most one stream
  Admins,      \* goroutines that serve an admin request
  NumParts,    \* application, routes, rules, IP policies, resources
  MaxVersion,  \* bound: versions a server process announces
  MaxFailures, \* bound: failed calls and broken streams
  MaxEpoch     \* bound: server processes

ASSUME ConfigSyncAssumption ==
  /\ NumParts \in Nat \ {0}
  /\ MaxVersion \in Nat \ {0}
  /\ MaxFailures \in Nat
  /\ MaxEpoch \in Nat

VARIABLES
  content,   \* the store: how often each part was written
  version,   \* Notifier.version
  channel,   \* per subscriber, the version in its channel of capacity 1; 0: empty
  admin,     \* where each admin handler is
  phase,     \* where each gateway's loop, or the stream serving it, is
  next,      \* the part it reads next
  draft,     \* the parts getConfig has read for it so far
  got,       \* the version that made the stream read again; 0: none
  last,      \* lastVersion of the stream
  cache,     \* ConfigCache: the snapshot each gateway decides on
  failures,  \* counted against MaxFailures
  epoch,     \* which server process is running
  announced, \* history: the content when a version was announced
  trigger    \* history: the version current when the cached snapshot's reading began

syncVars == <<content, version, channel, admin, phase, next, draft, got, last,
              cache, failures, epoch, announced, trigger>>

Parts == 1..NumParts

Contents == [Parts -> Nat]

CachedSnapshots == [version: Nat, parts: Contents, epoch: Nat]

Phases == {"offline", "fetch", "fetched", "subscribed", "idle", "reading"}

\* The phases in which getConfig is reading, and those of a subscribed stream.
Reading == {"fetch", "subscribed", "reading"}
Subscribed == {"subscribed", "idle", "reading"}

\* Mutant: a full channel keeps what it holds.
EnqueueDropNewest(held, v) == IF held = 0 THEN v ELSE held

\* Notify's send: a full channel is emptied and sent to again.
Enqueue(held, v) == v

\* Mutant: the next version counts as seen.
SkippedNext(v, seen) == v <= seen + 1

\* WatchConfig passes over a version that it has already sent.
Skipped(v, seen) == v <= seen

\* Mutant: the version read is not used, only the one received.
LabelReceived(received, current) == received

\* The version of a snapshot sent: the one read, but not below the one received.
Label(received, current) == IF current < received THEN received ELSE current

\* Mutants: a part is kept from the snapshot before; reading starts too early.
FirstPartKept == 2
FirstPartEarly == 0

\* getConfig starts with the application and reads every part anew.
FirstPart == 1

-----------------------------------------------------------------------------
(* An admin handler writes one part of the configuration...                  *)
Write(a, p) ==
  /\ admin[a] = "idle"
  /\ version + Cardinality({b \in Admins : admin[b] = "written"}) < MaxVersion
  /\ content' = [content EXCEPT ![p] = @ + 1]
  /\ admin' = [admin EXCEPT ![a] = "written"]
  /\ UNCHANGED <<version, channel, phase, next, draft, got, last, cache, failures, epoch, announced, trigger>>

(* ... and then calls Notify: the version grows and every subscriber's        *)
(* channel is left holding it.                                                *)
Notify(a) ==
  /\ admin[a] = "written"
  /\ admin' = [admin EXCEPT ![a] = "idle"]
  /\ version' = version + 1
  /\ channel' = [g \in Gateways |->
                   IF phase[g] \in Subscribed THEN Enqueue(channel[g], version + 1) ELSE channel[g]]
  /\ announced' = [v \in 1..(version + 1) |-> IF v = version + 1 THEN content ELSE announced[v]]
  /\ UNCHANGED <<content, phase, next, draft, got, last, cache, failures, epoch, trigger>>

-----------------------------------------------------------------------------
BeginReading(g, received, since) ==
  /\ next' = [next EXCEPT ![g] = FirstPart]
  /\ got' = [got EXCEPT ![g] = received]
  /\ trigger' = [trigger EXCEPT ![g].reading = since]

\* The cache loop starts over with GetConfig.
StartFetch(g) ==
  /\ phase[g] = "offline"
  /\ phase' = [phase EXCEPT ![g] = "fetch"]
  /\ BeginReading(g, 0, version)
  /\ UNCHANGED <<content, version, channel, admin, draft, last, cache, failures, epoch, announced>>

\* getConfig lists one part of the configuration from the store.
ReadPart(g) ==
  /\ phase[g] \in Reading
  /\ next[g] <= NumParts
  /\ draft' = [draft EXCEPT ![g][next[g]] = content[next[g]]]
  /\ next' = [next EXCEPT ![g] = @ + 1]
  /\ UNCHANGED <<content, version, channel, admin, phase, got, last, cache, failures, epoch, announced, trigger>>

UpdateCache(g, v) ==
  /\ cache' = [cache EXCEPT ![g] = [version |-> v, parts |-> draft[g], epoch |-> epoch]]
  /\ trigger' = [trigger EXCEPT ![g].cached = trigger[g].reading]

\* getConfig reads the version last; the reply goes into the cache.
FinishFetch(g) ==
  /\ phase[g] = "fetch"
  /\ next[g] > NumParts
  /\ UpdateCache(g, version)
  /\ phase' = [phase EXCEPT ![g] = "fetched"]
  /\ UNCHANGED <<content, version, channel, admin, next, draft, got, last, failures, epoch, announced>>

\* WatchConfig subscribes before it reads the first snapshot.
Subscribe(g) ==
  /\ phase[g] = "fetched"
  /\ phase' = [phase EXCEPT ![g] = "subscribed"]
  /\ channel' = [channel EXCEPT ![g] = 0]
  /\ BeginReading(g, 0, version)
  /\ UNCHANGED <<content, version, admin, draft, last, cache, failures, epoch, announced>>

\* The stream sends the snapshot it has read, and waits.
Push(g) ==
  /\ phase[g] \in {"subscribed", "reading"}
  /\ next[g] > NumParts
  /\ UpdateCache(g, Label(got[g], version))
  /\ last' = [last EXCEPT ![g] = Label(got[g], version)]
  /\ phase' = [phase EXCEPT ![g] = "idle"]
  /\ UNCHANGED <<content, version, channel, admin, next, draft, got, failures, epoch, announced>>

\* A version arrives on the stream's channel.
Receive(g) ==
  /\ phase[g] = "idle"
  /\ channel[g] # 0
  /\ channel' = [channel EXCEPT ![g] = 0]
  /\ IF Skipped(channel[g], last[g])
     THEN UNCHANGED <<phase, next, got, trigger>>
     ELSE /\ phase' = [phase EXCEPT ![g] = "reading"]
          /\ BeginReading(g, channel[g], channel[g])
  /\ UNCHANGED <<content, version, admin, draft, last, cache, failures, epoch, announced>>

(* A call fails or the stream breaks: the stream unsubscribes and the loop    *)
(* starts over after a second.                                                *)
Fail(g) ==
  /\ phase[g] # "offline"
  /\ failures < MaxFailures
  /\ failures' = failures + 1
  /\ phase' = [phase EXCEPT ![g] = "offline"]
  /\ channel' = [channel EXCEPT ![g] = 0]
  /\ UNCHANGED <<content, version, admin, next, draft, got, last, cache, epoch, announced, trigger>>

(* The server process is replaced: the notifier starts again at version 1,    *)
(* streams and admin requests die, also between write and Notify; the store   *)
(* is persistent.                                                             *)
Restart ==
  /\ epoch < MaxEpoch
  /\ epoch' = epoch + 1
  /\ version' = 1
  /\ announced' = [v \in {1} |-> content]
  /\ admin' = [a \in Admins |-> "idle"]
  /\ phase' = [g \in Gateways |-> "offline"]
  /\ channel' = [g \in Gateways |-> 0]
  /\ UNCHANGED <<content, next, draft, got, last, cache, failures, trigger>>

-----------------------------------------------------------------------------
SyncInit ==
  /\ content = [p \in Parts |-> 0]
  /\ version = 1
  /\ channel = [g \in Gateways |-> 0]
  /\ admin = [a \in Admins |-> "idle"]
  /\ phase = [g \in Gateways |-> "offline"]
  /\ next = [g \in Gateways |-> 1]
  /\ draft = [g \in Gateways |-> [p \in Parts |-> 0]]
  /\ got = [g \in Gateways |-> 0]
  /\ last = [g \in Gateways |-> 0]
  /\ cache = [g \in Gateways |-> [version |-> 0, parts |-> [p \in Parts |-> 0], epoch |-> 0]]
  /\ failures = 0
  /\ epoch = 1
  /\ announced = [v \in {1} |-> [p \in Parts |-> 0]]
  /\ trigger = [g \in Gateways |-> [reading |-> 1, cached |-> 1]]

ServeGateway(g) == StartFetch(g) \/ ReadPart(g) \/ FinishFetch(g) \/ Subscribe(g) \/ Push(g) \/ Receive(g)

SyncNext ==
  \/ \E a \in Admins : Notify(a) \/ \E p \in Parts : Write(a, p)
  \/ \E g \in Gateways : ServeGateway(g) \/ Fail(g)
  \/ Restart

SyncSpec == SyncInit /\ [][SyncNext]_syncVars

(* Goroutines that can run do run: a handler that has written gets to Notify, *)
(* a stream and a cache loop go on.  Nothing makes a failure, a restart or    *)
(* another admin request happen.                                              *)
Fairness ==
  /\ \A a \in Admins : WF_syncVars(Notify(a))
  /\ \A g \in Gateways : WF_syncVars(ServeGateway(g))

FairSyncSpec == SyncSpec /\ Fairness

-----------------------------------------------------------------------------
\* Every variable has its type.
SyncTypeOK ==
  /\ content \in Contents
  /\ version \in Nat \ {0}
  /\ channel \in [Gateways -> Nat]
  /\ admin \in [Admins -> {"idle", "written"}]
  /\ phase \in [Gateways -> Phases]
  /\ next \in [Gateways -> 1..(NumParts + 1)]
  /\ draft \in [Gateways -> Contents]
  /\ got \in [Gateways -> Nat]
  /\ last \in [Gateways -> Nat]
  /\ cache \in [Gateways -> CachedSnapshots]
  /\ failures \in Nat
  /\ epoch \in Nat
  /\ announced \in [1..version -> Contents]
  /\ trigger \in [Gateways -> [reading: Nat, cached: Nat]]

(* No lost wake-up: a stream that waits with an empty channel has sent the    *)
(* notifier's current version, although Notify never blocks and throws        *)
(* versions away when a channel is full.                                      *)
NoLostWakeup ==
  \A g \in Gateways :
    phase[g] = "idle" =>
      \/ channel[g] = version
      \/ channel[g] = 0 /\ last[g] = version

(* A cached snapshot holds every change that had been announced when its      *)
(* reading began: for a pushed one, up to the version that triggered it.  It  *)
(* may lack changes up to the version it is labelled with.                    *)
SnapshotCoversTrigger ==
  \A g \in Gateways :
    cache[g].epoch = epoch =>
      \A p \in Parts : cache[g].parts[p] >= announced[trigger[g].cached][p]

(* No version is missed, although changes may be (ContentConverges): an idle   *)
(* stream has sent the current version or will be woken for it, and what a    *)
(* gateway caches holds the changes announced before its reading began, not   *)
(* those announced while it was read (Notify, WatchConfig).                   *)
NoVersionMissed == NoLostWakeup /\ SnapshotCoversTrigger

(* A gateway's configuration never goes back: no part of a new snapshot is    *)
(* older than the part it replaces, and while the server process lives its    *)
(* version does not fall, whether it was fetched or pushed.                   *)
CacheMovesForward ==
  [][\A g \in Gateways :
       /\ \A p \in Parts : cache'[g].parts[p] >= cache[g].parts[p]
       /\ cache'[g].epoch = cache[g].epoch => cache'[g].version >= cache[g].version]_syncVars

(* Once changes, failures and restarts stop, every gateway's cache ends up at *)
(* the notifier's version of the running server.                              *)
VersionsConverge ==
  \A g \in Gateways : <>[](cache[g].version = version /\ cache[g].epoch = epoch)

(* docs/zh/architecture-design.md:63: an admin change pushes a snapshot of    *)
(* the new configuration, so that every cache ends up with the content of     *)
(* the store.  A change announced between getConfig's listing of its part and *)
(* its reading of the version is labelled as seen and passed over.            *)
ContentConverges ==
  \A g \in Gateways : <>[](cache[g].parts = content)
=============================================================================
