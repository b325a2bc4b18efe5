------------------------------- MODULE RateLimit -------------------------------
(***************************************************************************)
(* The counter behind one key of a rate limit (IncrementRate of             *)
(* internal/store/memory.go and internal/store/redis.go): a fixed window,   *)
(* a sliding window or a token bucket, as the policy says at the moment.    *)
(*                                                                         *)
(* The memory store counts under its mutex.  In Redis the fixed window is   *)
(* two commands, the sliding window four, with the time of the server: they *)
(* are sent together, but the pipeline is no transaction, so that commands  *)
(* of other servers and the end of the key's time come between them.  The   *)
(* token bucket is an optimistic transaction that is tried three times.  A  *)
(* key keeps its type when the policy changes the strategy.                 *)
(* Tokens are counted in parts of 1/Window.                                 *)
(***************************************************************************)
EXTENDS Integers, Sequences, FiniteSets

CONSTANTS
  Servers,     \* requests that may be counted at a time
  Limit,       \* max_requests
  Window,      \* window_seconds, in ticks
  Strategies,  \* the strategies the policy may ask for
  None,
  MaxClock,    \* bound: the clock stops here
  MaxHits,     \* bound: requests counted
  MaxTroubles  \* bound: Redis commands that fail, and changes of the strategy

ASSUME RateAssumption ==
  /\ IsFiniteSet(Servers)
  /\ Limit \in Nat \ {0} /\ Window \in Nat \ {0}
  /\ Strategies \subseteq {"fixed_window", "sliding_window", "token_bucket"}
  /\ None \notin Int
  /\ MaxClock \in Nat /\ MaxHits \in Nat /\ MaxTroubles \in Nat

VARIABLES
  store, strategy,
  entry,     \* Redis: the value of the key, its type and when it expires
  counter,   \* memory: rateCounters[key]
  clock,
  pc, local, \* per server: the place in IncrementRate, its variables
  broken,    \* Redis: the servers whose WATCH was broken
  faults, switches,
  log        \* history: what was answered, with the times of arrival and answer

limiterVars == <<store, strategy, entry, counter, clock, pc, local, broken, faults,
                 switches, log>>

Full == Limit * Window
CeilDiv(a, b) == (a + b - 1) \div b

\* born is history: when the key was created.
Absent == [kind |-> "none", count |-> 0, scores |-> {}, tokens |-> 0, refill |-> 0,
           expires |-> None, born |-> 0]
NoCounter == [start |-> None, count |-> 0, hits |-> {}, tokens |-> 0, refill |-> None]
\* nr tells the members of the sorted set apart; the answer of a pipeline is 1
\* from the first command that fails.  epoch, alone, window and lapsed are
\* history: the change of strategy since which the request has met nothing of
\* another one, whether it overlaps with no other, when the fixed window began
\* that it was counted in, and whether the key ended between its ZADD and EXPIRE.
Idle == [nr |-> 0, arrived |-> 0, now |-> 0, how |-> "fixed_window", attempt |-> 0, tokens |-> 0,
         refill |-> 0, answer |-> 0, epoch |-> None, alone |-> TRUE, window |-> 0, lapsed |-> FALSE]

\* A key that has expired is no more.
Entry == IF entry.expires # None /\ entry.expires <= clock THEN Absent ELSE entry

KindOf(how) ==
  CASE how = "fixed_window" -> "string" [] how = "sliding_window" -> "zset" [] OTHER -> "hash"
WrongType(how) == Entry.kind \notin {"none", KindOf(how)}

----------------------------------------------------------------------------
(* The three counts.                                                        *)

\* Mutant: one request more is let through.
OverLimitLate(n) == n > Limit + 1

\* What evaluateRateLimit makes of the count.
OverLimit(n) == n > Limit

\* Mutant: hits are forgotten a tick early.
RecentEarly(hits, now) == {h \in hits : h.at > now - Window + 1}

\* The hits of the last Window; each is a member of its own.
Recent(hits, now) == {h \in hits : h.at > now - Window}
Hit(nr, now) == [nr |-> nr, at |-> now]

\* Mutant: the bucket is refilled for the same time again.
StampKept(refill, now) == refill

Refilled(tokens, refill, now) ==
  IF now > refill /\ tokens + (now - refill) * Limit > Full THEN Full
  ELSE IF now > refill THEN tokens + (now - refill) * Limit ELSE tokens
Stamp(refill, now) == IF now > refill THEN now ELSE refill

\* Mutant: a token is taken from an empty bucket.
TakenAlways(tokens) == tokens - Window

\* The tokens left, and the count that is answered.
Taken(tokens) == IF tokens < Window THEN tokens ELSE tokens - Window
TokenCount(tokens) ==
  LET used == CeilDiv(Full - (tokens - Window), Window)
  IN  IF tokens < Window THEN Limit + 1 ELSE IF used < 1 THEN 1 ELSE used

----------------------------------------------------------------------------
(* Requests.                                                                *)

Busy == {s \in Servers : pc[s] # "idle"}

Begin(how) ==
  CASE how = "fixed_window" -> "incr" [] how = "sliding_window" -> "evict" [] OTHER -> "watch"

\* Neither a request under way nor the key is left from another strategy.
Pure == (\A s \in Busy : local[s].how = strategy /\ pc[s] # "delete") /\ ~WrongType(strategy)

(* A request is about to be counted, with the strategy of the policy it was    *)
(* evaluated by; the server reads its clock before it sends a command.         *)
Arrive(s) ==
  /\ pc[s] = "idle"
  /\ Len(log) + Cardinality(Busy) < MaxHits
  /\ pc' = [pc EXCEPT ![s] = IF store = "memory" THEN "locked" ELSE Begin(strategy)]
  /\ local' = [t \in Servers |->
       IF t = s THEN [Idle EXCEPT !.nr = Len(log) + Cardinality(Busy) + 1, !.arrived = clock,
                                  !.now = clock, !.how = strategy,
                                  !.epoch = IF Pure THEN switches ELSE None, !.alone = (Busy = {})]
       ELSE IF t \in Busy THEN [local[t] EXCEPT !.alone = FALSE] ELSE local[t]]
  /\ UNCHANGED <<store, strategy, entry, counter, clock, broken, faults, switches, log>>

AnswerCount(s, n, window) ==
  /\ pc' = [pc EXCEPT ![s] = "idle"]
  /\ local' = [local EXCEPT ![s] = Idle]
  /\ log' = Append(log, [nr |-> local[s].nr, arrived |-> local[s].arrived, decided |-> clock,
                         how |-> local[s].how, over |-> OverLimit(n), epoch |-> local[s].epoch,
                         alone |-> local[s].alone, window |-> window, lapsed |-> local[s].lapsed])

Goto(s, place, rec) ==
  /\ pc' = [pc EXCEPT ![s] = place]
  /\ local' = [local EXCEPT ![s] = rec]
  /\ UNCHANGED log

(* MemoryStore.IncrementRate: one record for all strategies.                  *)
CountLocked(s) ==
  /\ pc[s] = "locked"
  /\ LET how == local[s].how
         fresh == counter.start = None \/ clock - counter.start >= Window
         hits == Recent(counter.hits, clock) \cup {Hit(local[s].nr, clock)}
         refill == IF counter.refill = None THEN clock ELSE counter.refill
         tokens == Refilled(IF counter.refill = None THEN Full ELSE counter.tokens, refill, clock)
     IN  \/ /\ how = "fixed_window"
            /\ counter' = IF fresh THEN [NoCounter EXCEPT !.start = clock, !.count = 1]
                          ELSE [counter EXCEPT !.count = @ + 1]
            /\ AnswerCount(s, counter'.count, counter'.start)
         \/ /\ how = "sliding_window"
            /\ counter' = [counter EXCEPT !.hits = hits, !.count = Cardinality(hits), !.start = clock]
            /\ AnswerCount(s, Cardinality(hits), 0)
         \/ /\ how = "token_bucket"
            /\ counter' = [counter EXCEPT !.tokens = Taken(tokens), !.refill = Stamp(refill, clock),
                                          !.count = TokenCount(tokens)]
            /\ AnswerCount(s, TokenCount(tokens), 0)
  /\ UNCHANGED <<store, strategy, entry, clock, broken, faults, switches>>

\* A command changes the key, and breaks the WATCH of the others.
Write(s, value) ==
  /\ entry' = value
  /\ broken' = broken \cup {t \in Servers \ {s} : pc[t] = "exec"}

Untouched == UNCHANGED <<entry, broken>>

Incremented ==
  [Entry EXCEPT !.kind = "string", !.count = @ + 1, !.born = IF Entry.kind = "none" THEN clock ELSE @]

\* Mutant: the window starts again with every request.
IncrRenewing(s) ==
  /\ pc[s] = "incr"
  /\ IF WrongType("fixed_window") THEN AnswerCount(s, 1, 0) /\ Untouched
     ELSE /\ Write(s, Incremented)
          /\ Goto(s, "expire", [local[s] EXCEPT !.answer = entry'.count, !.window = entry'.born])
  /\ UNCHANGED <<store, strategy, counter, clock, faults, switches>>

(* INCR: a new key gets its EXPIRE by a second command.                       *)
Incr(s) ==
  /\ pc[s] = "incr"
  /\ IF WrongType("fixed_window") THEN AnswerCount(s, 1, 0) /\ Untouched
     ELSE /\ Write(s, Incremented)
          /\ IF entry'.count = 1 THEN Goto(s, "expire", [local[s] EXCEPT !.answer = 1, !.window = entry'.born])
             ELSE AnswerCount(s, entry'.count, entry'.born)
  /\ UNCHANGED <<store, strategy, counter, clock, faults, switches>>

\* EXPIRE gives a key of any type its time.
Renewed(s) ==
  IF Entry.kind = "none" THEN Untouched ELSE Write(s, [Entry EXCEPT !.expires = clock + Window])

\* EXPIRE; its error is dropped.
Expire(s) ==
  /\ pc[s] = "expire"
  /\ \/ Renewed(s) /\ UNCHANGED faults
     \/ /\ faults + switches < MaxTroubles
        /\ faults' = faults + 1
        /\ Untouched
  /\ AnswerCount(s, local[s].answer, local[s].window)
  /\ UNCHANGED <<store, strategy, counter, clock, switches>>

(* ZREMRANGEBYSCORE: a set without members is no key.  A command that meets a  *)
(* key of another type fails, the ones after it are carried out all the same.  *)
Evict(s) ==
  /\ pc[s] = "evict"
  /\ LET kept == Recent(Entry.scores, local[s].now)
     IN  IF WrongType("sliding_window") \/ kept = Entry.scores THEN Untouched
         ELSE Write(s, IF kept = {} THEN Absent ELSE [Entry EXCEPT !.scores = kept])
  /\ Goto(s, "add", [local[s] EXCEPT !.answer = IF WrongType("sliding_window") THEN 1 ELSE 0])
  /\ UNCHANGED <<store, strategy, counter, clock, faults, switches>>

Added(s) == [Entry EXCEPT !.kind = "zset", !.scores = @ \cup {Hit(local[s].nr, local[s].now)}]

(* ZADD: a new key has no end until an EXPIRE.                                *)
Add(s) ==
  /\ pc[s] = "add"
  /\ IF WrongType("sliding_window") THEN Untouched /\ Goto(s, "count", [local[s] EXCEPT !.answer = 1])
     ELSE Write(s, Added(s)) /\ Goto(s, "count", local[s])
  /\ UNCHANGED <<store, strategy, counter, clock, faults, switches>>

(* ZCARD.                                                                     *)
CountHits(s) ==
  /\ pc[s] = "count"
  /\ Goto(s, "renew", [local[s] EXCEPT
       !.answer = IF WrongType("sliding_window") \/ @ = 1 THEN 1 ELSE Cardinality(Entry.scores)])
  /\ UNCHANGED <<store, strategy, entry, counter, clock, broken, faults, switches>>

(* EXPIRE, on a key of any type, and the answer of the pipeline.              *)
Renew(s) ==
  /\ pc[s] = "renew"
  /\ Renewed(s)
  /\ AnswerCount(s, local[s].answer, 0)
  /\ UNCHANGED <<store, strategy, counter, clock, faults, switches>>

\* Another attempt of three, or the request passes uncounted.
Again(s) ==
  IF local[s].attempt < 2 THEN Goto(s, "watch", [local[s] EXCEPT !.attempt = @ + 1, !.now = clock])
  ELSE AnswerCount(s, 1, 0)

\* WATCH and HMGET.
ReadBucket(s) ==
  /\ pc[s] = "watch"
  /\ IF WrongType("token_bucket")
     THEN Goto(s, "delete", local[s]) /\ Untouched
     ELSE /\ Goto(s, "exec", [local[s] EXCEPT
                !.tokens = IF Entry.kind = "none" THEN Full ELSE Entry.tokens,
                !.refill = IF Entry.kind = "none" THEN local[s].now ELSE Entry.refill])
          /\ broken' = broken \ {s}
          /\ UNCHANGED entry
  /\ UNCHANGED <<store, strategy, counter, clock, faults, switches>>

\* DEL of a key of another type, or whatever it is by now; its error is dropped.
Delete(s) ==
  /\ pc[s] = "delete"
  /\ \/ /\ IF Entry.kind = "none" THEN Untouched ELSE Write(s, Absent)
        /\ UNCHANGED faults
     \/ /\ faults + switches < MaxTroubles
        /\ faults' = faults + 1
        /\ Untouched
  /\ Again(s)
  /\ UNCHANGED <<store, strategy, counter, clock, switches>>

\* The tokens by the time read before; HSET and EXPIRE.
Flowed(s) == Refilled(local[s].tokens, local[s].refill, local[s].now)
Spent(s) ==
  [Absent EXCEPT !.kind = "hash", !.tokens = Taken(Flowed(s)), !.refill = local[s].now,
                 !.expires = clock + 2 * Window]

(* MULTI and EXEC; last_refill goes back when a later request was faster.      *)
ExecBucket(s) ==
  /\ pc[s] = "exec"
  /\ IF s \in broken THEN Again(s) /\ Untouched
     ELSE Write(s, Spent(s)) /\ AnswerCount(s, TokenCount(Flowed(s)), 0)
  /\ UNCHANGED <<store, strategy, counter, clock, faults, switches>>

(* Redis cannot be reached, at any command of a pipeline, or its answer is      *)
(* lost: the request passes.                                                   *)
Unreachable(s) ==
  /\ pc[s] \in {"incr", "evict", "add", "count", "renew", "watch", "exec"}
  /\ faults + switches < MaxTroubles
  /\ faults' = faults + 1
  /\ \/ Untouched
     \/ pc[s] = "incr" /\ ~WrongType("fixed_window") /\ Write(s, Incremented)
     \/ pc[s] = "renew" /\ Renewed(s)
     \/ pc[s] = "exec" /\ s \notin broken /\ Write(s, Spent(s))
  /\ AnswerCount(s, 1, 0)
  /\ UNCHANGED <<store, strategy, counter, clock, switches>>

\* The admin API changes the strategy of the policy the key belongs to.
Switch(how) ==
  /\ faults + switches < MaxTroubles
  /\ how # strategy
  /\ strategy' = how
  /\ switches' = switches + 1
  /\ UNCHANGED <<store, entry, counter, clock, pc, local, broken, faults, log>>

\* The key may end with it.
Tick ==
  /\ clock < MaxClock
  /\ clock' = clock + 1
  /\ local' = [s \in Servers |->
       IF pc[s] \in {"count", "renew"} /\ entry.expires = clock' THEN [local[s] EXCEPT !.lapsed = TRUE]
       ELSE local[s]]
  /\ UNCHANGED <<store, strategy, entry, counter, pc, broken, faults, switches, log>>

----------------------------------------------------------------------------
LimiterInit ==
  /\ store \in {"memory", "redis"}
  /\ strategy \in Strategies
  /\ entry = Absent
  /\ counter = NoCounter
  /\ clock = 0
  /\ pc = [s \in Servers |-> "idle"]
  /\ local = [s \in Servers |-> Idle]
  /\ broken = {}
  /\ faults = 0 /\ switches = 0
  /\ log = <<>>

LimiterNext ==
  \/ \E s \in Servers :
       Arrive(s) \/ CountLocked(s) \/ Incr(s) \/ Expire(s)
         \/ Evict(s) \/ Add(s) \/ CountHits(s) \/ Renew(s)
         \/ ReadBucket(s) \/ Delete(s) \/ ExecBucket(s) \/ Unreachable(s)
  \/ \E how \in Strategies : Switch(how)
  \/ Tick

LimiterSpec == LimiterInit /\ [][LimiterNext]_limiterVars

----------------------------------------------------------------------------
Times == 0..MaxClock
Hits == [nr : 1..MaxHits, at : Times]

LimiterTypeOK ==
  /\ strategy \in Strategies
  /\ entry \in [kind : {"none", "string", "zset", "hash"}, count : 0..MaxHits, scores : SUBSET Hits,
                tokens : 0..Full, refill : Times, expires : {None} \cup 0..(MaxClock + 2 * Window),
                born : Times]
  /\ counter \in [start : {None} \cup Times, count : 0..(MaxHits + Limit), hits : SUBSET Hits,
                  tokens : 0..Full, refill : {None} \cup Times]
  /\ pc \in [Servers -> {"idle", "locked", "incr", "expire", "evict", "add", "count", "renew",
                         "watch", "delete", "exec"}]
  /\ broken \subseteq Servers
  /\ Len(log) <= MaxHits

\* The requests a strategy let through since it was chosen and the last request
\* and key of another had gone, that arrived and were answered from a to b.
Within(how, a, b) ==
  {i \in DOMAIN log : /\ log[i].epoch = switches /\ log[i].how = how /\ ~log[i].over
                      /\ a <= log[i].arrived /\ log[i].decided <= b}

Spans == {span \in Times \X Times : span[1] <= span[2] /\ span[2] <= clock}
Short(span) == span[2] - span[1] < Window

(* Without failing commands, a fixed window lets twice the limit pass at most   *)
(* in a time shorter than the window, however INCR and EXPIRE of several       *)
(* servers interleave; after a change of strategy, from when what is left of   *)
(* the old one has gone.                                                      *)
FixedWindowHolds ==
  faults = 0 => \A span \in Spans :
    Short(span) => Cardinality(Within("fixed_window", span[1], span[2])) <= 2 * Limit

(* Likewise a sliding window lets no more than the limit pass among the         *)
(* requests that arrive and are answered within any window, although the       *)
(* commands of the servers mix and each evicts by the time it read before:     *)
(* but for the requests between whose ZADD and EXPIRE the key ended, which      *)
(* took their hits with it.                                                   *)
SlidingWindowHolds ==
  faults = 0 => \A span \in Spans :
    Short(span) =>
      Cardinality({i \in Within("sliding_window", span[1], span[2]) : ~log[i].lapsed}) <= Limit

(* A token bucket lets the burst of a full bucket pass and what flows in        *)
(* meanwhile: always in memory, in Redis while requests do not overlap (one     *)
(* that overlaps may put last_refill back, or be let through after three        *)
(* attempts).                                                                 *)
TokenBucketHolds ==
  faults = 0 /\ (store = "memory" \/ (\A i \in DOMAIN log : log[i].alone)) =>
    \A span \in Spans :
      Cardinality(Within("token_bucket", span[1], span[2])) * Window <= Full + (span[2] - span[1]) * Limit

(* Nobody is stopped for less than the limit: a request is over it only when    *)
(* that many others were let through in the window before, in a sliding window  *)
(* that many were counted, which goes on while a client keeps trying (in        *)
(* Redis, with requests that do not overlap and EXPIREs that do not fail).     *)
StoppedForHits ==
  faults = 0 /\ switches = 0 /\ (store = "memory" \/ (\A i \in DOMAIN log : log[i].alone)) =>
    \A i \in DOMAIN log : log[i].over =>
      Cardinality({j \in 1..(i - 1) : /\ log[j].decided > log[i].arrived - Window
                                      /\ log[i].how = "sliding_window" \/ ~log[j].over}) >= Limit

(* Neither do more requests pass than a strategy allows, nor is anybody stopped *)
(* before the limit is used up (IncrementRate of both stores).                *)
LimitsHold ==
  FixedWindowHolds /\ SlidingWindowHolds /\ TokenBucketHolds /\ StoppedForHits
=============================================================================
