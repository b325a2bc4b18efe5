---------------------------- MODULE ChallengeEngine ----------------------------
(***************************************************************************)
(* How visitors get their challenges: the type is settled from the list of *)
(* resources, the challenge comes from the pool that goroutines keep full  *)
(* or is made on the spot, the list is read once more and the picture is   *)
(* drawn; a refresh takes another challenge of the session's type.         *)
(*                                                                         *)
(* internal/engine/engine.go      : StartPreGeneration, WarmPreGeneration, *)
(*                                  fillPreGenerated, takeChallenge,       *)
(*                                  NewSession, Refresh                    *)
(* internal/api/server.go         : handleCreateSession,                   *)
(*                                  handleRefreshSession (the rest of a    *)
(*                                  session's life is ChallengeSession)    *)
(* internal/resource/selector.go  : ApplyVisualsAndAttachForStore          *)
(*                                                                         *)
(* A challenge is known by the order it was made in (its serial); what it  *)
(* asks is chosen when it is taken, which the visitor cannot tell from     *)
(* choosing it when it is made.                                            *)
(***************************************************************************)
EXTENDS ChallengeVisuals

CONSTANTS
    Requests,       \* the requests for a session there may be
    Setups,         \* the surroundings: see Init
    Offered,        \* rows an admin may save
    Pooled,         \* the types whose pool is modelled
    PoolSize,       \* the size of a pool
    MaxMade,        \* bound: the fillers stop making challenges
    MaxRefreshes,   \* bound: refreshes of a session
    MaxEdits        \* bound: changes of the resources in a run

ASSUME EngineAssumption ==
    /\ \A s \in Setups : DOMAIN s.asks \subseteq Requests
    /\ Pooled \subseteq Concrete
    /\ PoolSize \in Nat /\ MaxMade \in Nat /\ MaxRefreshes \in Nat /\ MaxEdits \in Nat

VARIABLES
    setup,      \* what each request asks for, the lists of resources there
                \* may be, and the places resources lie at
    list,       \* the active resources, as the store lists them
    world,      \* what lies where
    edits,      \* changes so far
    made,       \* challenges made so far
    warm,       \* the pools have been filled once
    pool,       \* the serials in the pool of a type, oldest first
    hand,       \* the serial the filler of a type holds, 0: none
    stage,      \* how far a request is
    session     \* the session of a request

vars == <<setup, list, world, edits, made, warm, pool, hand, stage, session>>

\* The challenges there may be.
Challenges == UNION {Generate(t) : t \in Concrete}

\* The requests that are made.
Asking == DOMAIN setup.asks

None == [kind |-> "none"]

Unserved == [type |-> "", read |-> <<>>, serials |-> <<>>,
             challenge |-> None, view |-> None, drawnFrom |-> <<>>, drawnIn |-> None]

Init ==
    /\ setup \in Setups
    /\ list \in setup.lists
    /\ world \in setup.worlds
    /\ edits = 0 /\ made = 0 /\ warm = FALSE
    /\ pool = [t \in Pooled |-> <<>>]
    /\ hand = [t \in Pooled |-> 0]
    /\ stage = [r \in Requests |-> "asked"]
    /\ session = [r \in Requests |-> Unserved]

-----------------------------------------------------------------------------
(* The pools.                                                               *)

\* Mutants of Room: one too many, one too few.
RoomForOneMore(t) == Len(pool[t]) <= PoolSize
RoomForTwo(t) == Len(pool[t]) + 1 < PoolSize

Room(t) == Len(pool[t]) < PoolSize

\* Before any filler runs, and before a request is served, every pool is
\* filled.
Warm ==
    /\ ~warm
    /\ LET order == SetToSeq(Pooled)
           before(t) == PoolSize * ((CHOOSE i \in DOMAIN order : order[i] = t) - 1)
       IN  pool' = [t \in Pooled |-> [i \in 1 .. PoolSize |-> before(t) + i]]
    /\ made' = PoolSize * Cardinality(Pooled)
    /\ warm' = TRUE
    /\ UNCHANGED <<setup, list, world, edits, hand, stage, session>>

\* A filler makes a challenge whether or not there is room for it ...
FillerMakes(t) ==
    /\ warm /\ hand[t] = 0 /\ made < MaxMade
    /\ made' = made + 1
    /\ hand' = [hand EXCEPT ![t] = made + 1]
    /\ UNCHANGED <<setup, list, world, edits, warm, pool, stage, session>>

\* ... and waits with it until there is.
FillerSends(t) ==
    /\ hand[t] # 0 /\ Room(t)
    /\ pool' = [pool EXCEPT ![t] = Append(@, hand[t])]
    /\ hand' = [hand EXCEPT ![t] = 0]
    /\ UNCHANGED <<setup, list, world, edits, made, warm, stage, session>>

\* Mutant of TakeChallenge: the pool keeps what is taken.
TakeChallengePeeking(t) ==
    IF t \in Pooled /\ pool[t] # <<>>
    THEN [serial |-> Head(pool[t]), pool |-> pool, made |-> made]
    ELSE [serial |-> made + 1, pool |-> pool, made |-> made + 1]

\* The serial a taker of a challenge gets, and the pools afterwards: the oldest
\* of the pool, or one made on the spot.
TakeChallenge(t) ==
    IF t \in Pooled /\ pool[t] # <<>>
    THEN [serial |-> Head(pool[t]), pool |-> [pool EXCEPT ![t] = Tail(@)], made |-> made]
    ELSE [serial |-> made + 1, pool |-> pool, made |-> made + 1]

\* A session gets a challenge after so many more have been made for it.
Taken(r, c, more) ==
    LET got == TakeChallenge(session[r].type)
        serial == IF more = 0 THEN got.serial ELSE got.made + more
    IN  /\ made' = got.made + more /\ pool' = got.pool
        /\ session' = [session EXCEPT ![r].challenge = c,
                                      ![r].serials = Append(@, serial)]
        /\ UNCHANGED <<setup, list, world, edits, warm, hand>>

-----------------------------------------------------------------------------
(* A request for a session.                                                 *)

Following == [asked |-> "chosen", chosen |-> "drawing", drawing |-> "shown"]

\* Mutant of GetsOn: a taker waits for the pool (no default branch).
GetsOnWaiting(r) ==
    /\ warm /\ r \in Asking /\ stage[r] # "shown"
    /\ session[r].type \in Pooled => pool[session[r].type] # <<>>
    /\ stage' = [stage EXCEPT ![r] = Following[@]]

\* The server is up and the request gets on with what comes next.
GetsOn(r) ==
    /\ warm /\ r \in Asking /\ stage[r] # "shown"
    /\ stage' = [stage EXCEPT ![r] = Following[@]]

\* The type is settled from one reading of the list.
Choose(r) ==
    /\ stage[r] = "asked" /\ GetsOn(r)
    /\ \E t \in ChooseCaptchaType(list, setup.asks[r], <<>>) :
           session' = [session EXCEPT ![r].type = t, ![r].read = list]
    /\ UNCHANGED <<setup, list, world, edits, made, warm, pool, hand>>

NewSession(r) ==
    /\ stage[r] = "chosen" /\ GetsOn(r)
    /\ \E c \in Challenges : c.type = session[r].type /\ Taken(r, c, 0)

\* The list is read again for the picture, which is made of the resources
\* selected from it.
Draw(r) ==
    /\ stage[r] = "drawing" /\ GetsOn(r)
    /\ LET ask == [setup.asks[r] EXCEPT !.type = session[r].type]
       IN  \E v \in ApplyVisuals(session[r].challenge, Select(list, ask), world, setup.roots) :
               session' = [session EXCEPT ![r].view = v, ![r].drawnFrom = list,
                                          ![r].drawnIn = world]
    /\ UNCHANGED <<setup, list, world, edits, made, warm, pool, hand>>

\* A refresh takes a challenge of the session's type.  While a gesture is of
\* the family just shown another is made, eight times at most.
Refresh(r) ==
    /\ stage[r] = "shown" /\ Len(session[r].serials) <= MaxRefreshes
    /\ stage' = [stage EXCEPT ![r] = "drawing"]
    /\ \E c \in Challenges, more \in {0, 1, 8} :
           /\ c.type = session[r].type
           /\ more > 0 => session[r].type = "GESTURE"
           /\ session[r].type = "GESTURE" /\ more < 8 =>
                  c.answer.family # session[r].challenge.answer.family
           /\ Taken(r, c, more)

-----------------------------------------------------------------------------
(* The surroundings change.                                                 *)

EditResources ==
    /\ edits < MaxEdits
    /\ edits' = edits + 1
    /\ \/ list' \in setup.lists \ {list} /\ world' = world
       \/ world' \in setup.worlds \ {world} /\ list' = list
    /\ UNCHANGED <<setup, made, warm, pool, hand, stage, session>>

Next ==
    \/ Warm
    \/ \E t \in Pooled : FillerMakes(t) \/ FillerSends(t)
    \/ \E r \in Asking : Choose(r) \/ NewSession(r) \/ Draw(r) \/ Refresh(r)
    \/ EditResources

\* Requests run to their end (every step of one is a GetsOn, and there is
\* always a type, a challenge and a picture to go on with), and the fillers run
\* for ever.
Fairness ==
    /\ WF_vars(Warm)
    /\ \A t \in Pooled : WF_vars(FillerMakes(t)) /\ WF_vars(FillerSends(t))
    /\ \A r \in Requests : WF_stage(GetsOn(r))

Spec == Init /\ [][Next]_vars /\ Fairness

-----------------------------------------------------------------------------
(* Properties.                                                              *)

\* Every variable keeps its type; no pool holds more than its size.
TypeOK ==
    /\ setup \in Setups /\ list \in setup.lists /\ world \in setup.worlds
    /\ edits \in 0 .. MaxEdits /\ made \in Nat /\ warm \in BOOLEAN
    /\ \A t \in Pooled : /\ Len(pool[t]) <= PoolSize
                          /\ \A i \in DOMAIN pool[t] : pool[t][i] \in 1 .. made
                          /\ hand[t] \in 0 .. made
    /\ \A r \in Requests :
           /\ stage[r] \in {"asked", "chosen", "drawing", "shown"}
           /\ stage[r] # "asked" => session[r].type \in Concrete
           /\ stage[r] \in {"drawing", "shown"} =>
                  session[r].challenge.type = session[r].type

\* Whoever holds challenges, and the serials he holds: the sessions, the pools
\* and the fillers on their way to one.
Holders == ({"session"} \X Requests) \cup ({"pool", "hand"} \X Pooled)

Held ==
    [h \in Holders |->
        IF h[1] = "session" THEN session[h[2]].serials
        ELSE IF h[1] = "pool" THEN pool[h[2]]
        ELSE IF hand[h[2]] = 0 THEN <<>> ELSE <<hand[h[2]]>>]

\* No challenge is given to two sessions or to one session twice, and none
\* that was given is still in a pool or on its way to one: takers and fillers
\* share the pools without a lock.
EachChallengeOnce ==
    \A h, k \in Holders : \A i \in DOMAIN Held[h], j \in DOMAIN Held[k] :
        Held[h][i] = Held[k][j] => h = k /\ i = j

Shown(r) == stage[r] = "shown"

Ask(r) == [setup.asks[r] EXCEPT !.type = session[r].type]

\* The track of a visitor who did what the answer says.
HonestTrack(answer) ==
    [score |-> 45, points |-> IF answer.points = <<>> THEN <<<<0, 0>>, <<answer.value, 0>>>>
                              ELSE answer.points]

\* The icons of a picture have each a label of its own; pictures of a grid
\* have the same label when they have the same category.
ClearlyLabelled(r) ==
    LET view == session[r].view
        rows == {row \in Select(session[r].drawnFrom, Ask(r)) : row.kind = "grid_category_library"}
    IN  /\ view.type = "IMAGE_CLICK" =>
               /\ Cardinality({o.called : o \in Range(view.objects)}) = Len(view.objects)
               /\ \A o \in Range(view.objects) : o.called # ""
        /\ \A a, b \in rows : (a.category = b.category) = (GridLabel(a) = GridLabel(b))

\* Whatever the visitor sees, after whatever refreshes and changes of the
\* resources, it can be completed with the controls it has, and every way of
\* completing it is taken for right.
EverySolutionPasses ==
    \A r \in Asking :
        Shown(r) /\ session[r].type # "GESTURE" /\ ClearlyLabelled(r) =>
            /\ Completes(session[r].view) # {}
            /\ \A a \in Completes(session[r].view) :
                   Verify(session[r].challenge, a, HonestTrack(a)) = "OK"

\* A type that was settled on from the resources, not asked for by name, is
\* drawn from resources when nothing changed in between and all images load.
PictureAsChosen ==
    \A r \in Asking :
        /\ Shown(r) /\ setup.asks[r].type \notin Concrete
        /\ session[r].read = session[r].drawnFrom
        /\ SupportsCaptchaType(session[r].read, Ask(r))
        /\ \A row \in Range(session[r].read) :
               Image(row, session[r].drawnIn, setup.roots) # Nothing
        => session[r].view.image # OwnPicture

-----------------------------------------------------------------------------
(* Properties of the rules themselves: stated of the initial states, for the *)
(* lists and challenges a run is set up with.                               *)

Untouched == ~warm /\ edits = 0 /\ \A r \in Requests : stage[r] = "asked"

\* Where it matters neither who asks nor what is listed: everybody asks.
AllAsk == Untouched /\ Asking = Requests

\* Of every list, in whatever order its rows come, Select keeps exactly the
\* best rows: of a library all with the highest score there is, of any other
\* kind the one with the smallest id among them.
SelectionIsTheBest ==
    Untouched =>
        \A rows \in UNION {kSubset(k, Range(list)) : k \in 0 .. Min({3, Len(list)})},
            r \in Asking, t \in {"AUTO", "IMAGE_CLICK", "CONCAT"} :
            LET ask == [setup.asks[r] EXCEPT !.type = t]
                rivals(row) == {s \in rows : s.kind = row.kind /\ Eligible(s, ask)}
                top(row) == {s \in rivals(row) : \A q \in rivals(row) : Score(s, ask) >= Score(q, ask)}
                best == {row \in rows :
                            /\ row \in top(row)
                            /\ row.kind \in Collections \/ \A s \in top(row) : row.id <= s.id}
            IN  \A order \in SetToSeqs(rows) : Select(order, ask) = best

\* A row that was accepted is accepted again as it was stored and stays as it
\* is, and with a hash given in the row or in its metadata, no other bytes are
\* ever drawn for it, wherever they are found.
OnlyDeclaredBytes ==
    Untouched =>
        \A row \in Offered :
            LET saved == Normalized(row)
                given == IF row.sum = <<>> THEN row.metasum ELSE row.sum
                image == Image(saved, world, setup.roots)
            IN  Accepted(row) =>
                    /\ Accepted(saved) /\ Normalized(saved) = saved
                    /\ given # <<>> /\ saved.storage # "embedded" =>
                           image = Nothing \/ image.sum = Last(given)

\* What a visitor might hand in without solving the challenge.
Guesses(c) ==
    LET points == c.answer.points
        end == Len(points)
        straight == [i \in 1 .. 5 |-> [k \in 1 .. 2 |->
                        points[1][k] + ((points[end][k] - points[1][k]) * (i - 1)) \div 4]]
        spots == Range(c.objects) \ Range(points)
    IN  CASE c.type \in {WordClick, "IMAGE_CLICK"} ->
                {Clicks([points EXCEPT ![p[1]] = points[p[2]], ![p[2]] = points[p[1]]]) :
                    p \in {q \in (1 .. end) \X (1 .. end) : q[1] < q[2]}}
                \cup {Clicks([points EXCEPT ![i] = spot]) : i \in 1 .. end, spot \in spots}
                \cup {Clicks(SubSeq(points, 1, end - 1))}
          [] c.type = GridClick ->
                {Clicks([points EXCEPT ![i] = tile]) :
                    i \in 1 .. end, tile \in Range(GridTiles)} \ {c.answer}
          [] c.type = "JIGSAW" ->
                {Tiles(Exchanged(Len(c.answer.order), 1, k)) :
                    k \in 1 .. Len(c.answer.order) - 1} \ {Tiles(c.answer.order)}
          [] c.type = "GESTURE" ->
                {Clicks(straight), Clicks(Reverse(points)), Clicks(SubSeq(points, 1, end \div 2))}
          [] OTHER -> {}

\* At most one in six of the values a control can take is taken for right;
\* clicks in another order, on other objects or tiles and too few of them,
\* other tiles exchanged, and a straight, a reversed or a broken off stroke
\* are refused.
GuessesAreRefused ==
    AllAsk =>
        \A c \in Challenges :
            /\ \A guess \in Guesses(c) : VerifyAnswer(c, guess) # "OK"
            /\ c.type \in ControlTypes =>
                   LET control == Control(c.type)
                       right == {v \in 0 .. control.max :
                                    VerifyAnswer(c, Number(control.field, v)) = "OK"}
                   IN  6 * Cardinality(right) <= control.max + 1

\* A stroke drawn by hand, off by ten pixels or trembling by eight, is taken
\* for right together with its own track, but not with another family's.
HandDrawnPasses ==
    AllAsk =>
        \A c \in {x \in Challenges : x.type = "GESTURE"} :
            LET points == c.answer.points
                stroke(off, shiver) ==
                    [i \in DOMAIN points |-> <<points[i][1] - off,
                        points[i][2] + off + (IF i % 2 = 0 THEN shiver ELSE -shiver)>>]
                tries == {<<p, p, "OK">> : p \in {stroke(7, 0), stroke(0, 8)}}
                             \cup {<<points, Reverse(points), "TRACK_ANSWER_MISMATCH">>}
            IN  \A try \in tries :
                    Verify(c, Clicks(try[1]), [score |-> 45, points |-> try[2]]) = try[3]

-----------------------------------------------------------------------------
(* Liveness.                                                                *)

\* Every request ends with a challenge shown, however empty the pools are.
EveryoneServed == \A r \in Requests : <>(r \in Asking => Shown(r))

\* The pools fill up again after every visit.
PoolsFillUp == \A t \in Pooled : []<>(Len(pool[t]) = PoolSize \/ (made >= MaxMade /\ hand[t] = 0))

\* Solving a challenge as it is seen passes, by hand too, and guessing does not.
SolvedNotGuessed == EverySolutionPasses /\ GuessesAreRefused /\ HandDrawnPasses

\* From the rows there are, the best are drawn, with the bytes that were declared.
DrawnAsConfigured == PictureAsChosen /\ SelectionIsTheBest /\ OnlyDeclaredBytes

\* Whoever asks is served, and the pools recover from it.
ServedAndRefilled == EveryoneServed /\ PoolsFillUp
=============================================================================
