----------------------------- MODULE EventBatcher -----------------------------
(***************************************************************************)
(* The gateway's event batcher (internal/gateway/event_batcher.go): the     *)
(* goroutines of reportDecision offer audit events to a bounded queue       *)
(* without ever waiting, one goroutine collects them into batches that it   *)
(* sends when they are full, when the ticker fires and when the batcher is  *)
(* closed, and Close waits for that goroutine to end.                       *)
(*                                                                         *)
(* An event is its reporter and its position in what the reporter offers.   *)
(* Go's select picks any case that is ready: each is an action of its own.  *)
(***************************************************************************)
EXTENDS Naturals, Sequences, FiniteSets

CONSTANTS
  Reporters,   \* goroutines calling Report
  MaxSize,     \* maxSize of a batch
  QueueSize,   \* capacity of the queue
  MaxEvents    \* bound: events one reporter offers

ASSUME BatcherAssumption ==
  /\ MaxSize \in Nat \ {0}
  /\ QueueSize \in Nat
  /\ QueueSize >= MaxSize  \* newEventBatcher raises it
  /\ MaxEvents \in Nat

VARIABLES
  rpc,      \* where each reporter is in Report
  offered,  \* how many events it has offered; the one in hand included
  goal,     \* how many events this call of Report holds, from the first ever
  queue,    \* the buffered channel
  stopped,  \* the stop channel is closed
  ticked,   \* the ticker's channel holds a tick
  runner,   \* where run() is
  batch,    \* the batch being collected
  inHand,   \* the events of the send in progress
  closer,   \* where the caller of Close is
  sent,     \* history: the events given to the client, in order
  accepted, \* history: the events Report counted as accepted, in order
  early     \* history: how many of them were accepted before Close

batcherVars == <<rpc, offered, goal, queue, stopped, ticked, runner, batch,
                 inHand, closer, sent, accepted, early>>

Events == Reporters \X (1..MaxEvents)

RunnerStates == {"select", "sending", "drain", "drain_sending", "last_sending", "done"}

-----------------------------------------------------------------------------
(* Report *)

Report(r, n) ==
  /\ rpc[r] = "idle"
  /\ n > 0 /\ offered[r] + n <= MaxEvents
  /\ goal' = [goal EXCEPT ![r] = offered[r] + n]
  /\ rpc' = [rpc EXCEPT ![r] = "check"]
  /\ UNCHANGED <<offered, queue, stopped, ticked, runner, batch, inHand, closer, sent, accepted, early>>

\* The first select: give up when stop is closed.
Check(r) ==
  /\ rpc[r] = "check"
  /\ rpc' = [rpc EXCEPT ![r] = IF stopped THEN "idle" ELSE "offer"]
  /\ offered' = [offered EXCEPT ![r] = IF stopped THEN goal[r] ELSE @ + 1]
  /\ UNCHANGED <<goal, queue, stopped, ticked, runner, batch, inHand, closer, sent, accepted, early>>

\* Mutant: the queue takes one event more than its capacity.
RoomOverrun(q) == Len(q) <= QueueSize

Room(q) == Len(q) < QueueSize

\* The second select finds room in the queue, be stop closed by now or not.
Offer(r) ==
  /\ rpc[r] = "offer"
  /\ Room(queue)
  /\ queue' = Append(queue, <<r, offered[r]>>)
  /\ accepted' = Append(accepted, <<r, offered[r]>>)
  /\ early' = IF stopped THEN early ELSE early + 1
  /\ rpc' = [rpc EXCEPT ![r] = IF offered[r] = goal[r] THEN "idle" ELSE "check"]
  /\ UNCHANGED <<offered, goal, stopped, ticked, runner, batch, inHand, closer, sent>>

\* Or it finds stop closed, the context over, or nothing ready (queue full):
\* the rest of the events is given up with an error.
GiveUpReport(r) ==
  /\ rpc[r] = "offer"
  /\ rpc' = [rpc EXCEPT ![r] = "idle"]
  /\ offered' = [offered EXCEPT ![r] = goal[r]]
  /\ UNCHANGED <<goal, queue, stopped, ticked, runner, batch, inHand, closer, sent, accepted, early>>

-----------------------------------------------------------------------------
(* run *)

TickerFires ==
  /\ runner # "done"
  /\ ticked' = TRUE
  /\ UNCHANGED <<rpc, offered, goal, queue, stopped, runner, batch, inHand, closer, sent, accepted, early>>

\* Mutants: a flush waits for one event too many; it does not empty the batch.
FullLate(b) == Len(b) > MaxSize
AfterFlushKept(b) == b

\* len(batch) >= maxSize
Full(b) == Len(b) >= MaxSize

\* What flush leaves in the batch.
AfterFlush(b) == << >>

\* flush: the batch is copied, emptied and sent; nothing is sent when empty.
Flush(events, whileSending, otherwise) ==
  IF events = << >>
  THEN /\ runner' = otherwise
       /\ batch' = events
       /\ UNCHANGED <<inHand, sent>>
  ELSE /\ runner' = whileSending
       /\ batch' = AfterFlush(events)
       /\ inHand' = events
       /\ sent' = sent \o events

\* An event is taken from the queue, in the loop or while draining.
Take(where, whileSending) ==
  /\ runner = where
  /\ queue # << >>
  /\ queue' = Tail(queue)
  /\ LET events == Append(batch, Head(queue))
     IN IF Full(events)
        THEN Flush(events, whileSending, where)
        ELSE batch' = events /\ UNCHANGED <<runner, inHand, sent>>
  /\ UNCHANGED <<rpc, offered, goal, stopped, ticked, closer, accepted, early>>

TakeEvent == Take("select", "sending")

FlushOnTick ==
  /\ runner = "select"
  /\ ticked
  /\ ticked' = FALSE
  /\ Flush(batch, "sending", "select")
  /\ UNCHANGED <<rpc, offered, goal, queue, stopped, closer, accepted, early>>

\* Mutants: the loop ends without draining; `break` only leaves the select.
AfterStopAtOnce == "done"
AfterStopBreaks == "select"

\* What run does once it has seen stop.
AfterStop == "drain"

SeeStop ==
  /\ runner = "select"
  /\ stopped
  /\ runner' = AfterStop
  /\ UNCHANGED <<rpc, offered, goal, queue, stopped, ticked, batch, inHand, closer, sent, accepted, early>>

DrainEvent == Take("drain", "drain_sending")

\* The queue is found empty: the last flush, and run returns.
EndDrain ==
  /\ runner = "drain"
  /\ queue = << >>
  /\ Flush(batch, "last_sending", "done")
  /\ UNCHANGED <<rpc, offered, goal, queue, stopped, ticked, closer, accepted, early>>

\* The client's Report returns, with an error at the latest when
\* reportTimeout is over; a failed batch is logged and dropped.
Sent ==
  /\ runner \in {"sending", "drain_sending", "last_sending"}
  /\ runner' = CASE runner = "sending"       -> "select"
                 [] runner = "drain_sending" -> "drain"
                 [] runner = "last_sending"  -> "done"
  /\ inHand' = << >>
  /\ UNCHANGED <<rpc, offered, goal, queue, stopped, ticked, batch, closer, sent, accepted, early>>

-----------------------------------------------------------------------------
(* Close *)

Close ==
  /\ closer = "open"
  /\ stopped' = TRUE
  /\ closer' = "waiting"
  /\ UNCHANGED <<rpc, offered, goal, queue, ticked, runner, batch, inHand, sent, accepted, early>>

CloseReturns ==
  /\ closer = "waiting"
  /\ runner = "done"
  /\ closer' = "closed"
  /\ UNCHANGED <<rpc, offered, goal, queue, stopped, ticked, runner, batch, inHand, sent, accepted, early>>

-----------------------------------------------------------------------------
BatcherInit ==
  /\ rpc = [r \in Reporters |-> "idle"]
  /\ offered = [r \in Reporters |-> 0]
  /\ goal = [r \in Reporters |-> 0]
  /\ queue = << >>
  /\ stopped = FALSE
  /\ ticked = FALSE
  /\ runner = "select"
  /\ batch = << >>
  /\ inHand = << >>
  /\ closer = "open"
  /\ sent = << >>
  /\ accepted = << >>
  /\ early = 0

Run == TakeEvent \/ FlushOnTick \/ SeeStop \/ DrainEvent \/ EndDrain \/ Sent

BatcherNext ==
  \/ \E r \in Reporters :
       \/ \E n \in 1..MaxEvents : Report(r, n)
       \/ Check(r)
       \/ Offer(r)
       \/ GiveUpReport(r)
  \/ Run
  \/ TickerFires
  \/ Close
  \/ CloseReturns

BatcherSpec == BatcherInit /\ [][BatcherNext]_batcherVars

(* The goroutine of run goes on, sends end by reportTimeout, the ticker       *)
(* fires and a Close that can return returns.  select picks at random among   *)
(* the cases that are ready, so none of run's is passed over for ever.        *)
(* Nobody has to report or to close.                                          *)
FairBatcherSpec ==
  /\ BatcherSpec
  /\ WF_batcherVars(Run)
  /\ WF_batcherVars(TickerFires)
  /\ SF_batcherVars(TakeEvent)
  /\ SF_batcherVars(FlushOnTick)
  /\ SF_batcherVars(SeeStop)
  /\ WF_batcherVars(CloseReturns)

-----------------------------------------------------------------------------
\* Types, and the bounds of what the batcher keeps in memory.
BatcherTypeOK ==
  /\ rpc \in [Reporters -> {"idle", "check", "offer"}]
  /\ offered \in [Reporters -> 0..MaxEvents]
  /\ goal \in [Reporters -> 0..MaxEvents]
  /\ queue \in Seq(Events) /\ Len(queue) <= QueueSize
  /\ stopped \in BOOLEAN
  /\ ticked \in BOOLEAN
  /\ runner \in RunnerStates
  /\ batch \in Seq(Events) /\ Len(batch) < MaxSize
  /\ inHand \in Seq(Events) /\ Len(inHand) <= MaxSize
  /\ closer \in {"open", "waiting", "closed"}
  /\ sent \in Seq(Events)
  /\ accepted \in Seq(Events)
  /\ early \in Nat

(* Nothing is lost, repeated or overtaken on the way: what has been sent, the *)
(* batch and the queue are together the events Report accepted, in order,     *)
(* through full, timed and final flushes.                                     *)
HandedOnInOrder == sent \o batch \o queue = accepted

(* When Close has returned every event accepted before Close was called has   *)
(* been sent.  (One accepted by a Report that checked stop just before may    *)
(* stay in the queue of the ended batcher.)                                   *)
ClosedMeansFlushed == closer = "closed" => Len(sent) >= early

(* An accepted event is sent in the end, by the ticker or by Close, also when *)
(* no further event fills its batch...                                        *)
EarlyEventsSent ==
  \A n \in 1..(MaxEvents * Cardinality(Reporters)) : early >= n ~> Len(sent) >= n

\* ... and Close does not wait for ever, whoever keeps reporting.
CloseEnds == closer = "waiting" ~> closer = "closed"

(* No event that was accepted is lost on the way to the client (run, send),   *)
(* and Close returns after those accepted before it have gone.                *)
NothingLost == HandedOnInOrder /\ ClosedMeansFlushed

(* Every event accepted while the batcher is open is sent, and Close ends.    *)
SentAndClosed == EarlyEventsSent /\ CloseEnds
=============================================================================
