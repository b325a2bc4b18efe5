------------------------------- MODULE Captchas --------------------------------
(***************************************************************************)
(* The challenges the engine makes and the answers it takes.               *)
(*                                                                         *)
(* internal/engine/engine.go : generate, the makers of points and tiles,   *)
(*                             verifyAnswer, verifyAnswerTrackConsistency, *)
(*                             Verify                                      *)
(*                                                                         *)
(* Random draws are represented by their extremes (Draws says which), the  *)
(* pictures by what they show (module ChallengeVisuals).                   *)
(***************************************************************************)
EXTENDS Integers, Sequences, FiniteSets, PathMatch, ResourceChoice

LOCAL Apart(a, b) == IF a < b THEN b - a ELSE a - b

AngleDiff(a, b) ==
    LET diff == Apart(a % 360, b % 360)
    IN  IF diff > 180 THEN 360 - diff ELSE diff

\* The form of every answer, the engine's and the visitor's: the field that is
\* set and its number, the points, and the order of the tiles.  The engine
\* keeps a gesture's family besides.
Blank == [field |-> "none", value |-> 0, points |-> <<>>, order |-> <<>>, family |-> ""]

Number(field, value) == [Blank EXCEPT !.field = field, !.value = value]
Clicks(points) == [Blank EXCEPT !.points = points]
Tiles(order) == [Blank EXCEPT !.order = order]

-----------------------------------------------------------------------------
(* The challenges with one control.                                         *)

ControlTypes == Curves \cup Sliders \cup {"ROTATE", "CONCAT", "ROTATE_DEGREE"}

\* Where the answer may lie, how far the control goes, how far off an answer
\* may be, and how far its track may end from it.
Control(type) ==
    LET control(field, low, high, max, slack, trackSlack) ==
            [field |-> field, low |-> low, high |-> high, max |-> max,
             slack |-> slack, trackSlack |-> trackSlack]
    IN  CASE type = "CURVE"    -> control("x", 72, 176, 300 - 63, 18, 26)
          [] type = "CURVE_V2" -> control("x", 78, 184, 300 - 63, 18, 26)
          [] type = "CURVE_V3" -> control("x", 82, 192, 300 - 63, 18, 26)
          [] type \in Sliders  -> control("x", 86, 320 - 47 - 20, 320 - 47, 6, 12)
          [] type = "ROTATE"   -> control("angle", 360 - 325, 360 - 35, 359, 8, 14)
          [] type = "CONCAT"   -> control("offset", 45, 120, Min({320, 160}), 6, 12)
          [] OTHER             -> control("angle", 30, 330, 359, 7, 14)

Off(type, a, b) == IF Control(type).field = "angle" THEN AngleDiff(a, b) ELSE Apart(a, b)

\* The height a slider's gap may have.
SliderHeights == {24, 180 - 47 - 14}

-----------------------------------------------------------------------------
(* The challenges with points to click.                                     *)

Anchors == <<<<42, 48>>, <<122, 48>>, <<202, 48>>, <<282, 48>>,
             <<42, 132>>, <<122, 132>>, <<202, 132>>, <<282, 132>>>>

\* Anchors that are neighbours, and anchors in no order.
Arrangements == {<<1, 2, 6, 5, 3, 7>>, <<8, 1, 4, 6, 2, 3>>}

\* Points are moved off their anchors; here neighbours move towards or away
\* from each other.
SeparatedClickPoints(arrangement, count, jitter) ==
    [i \in 1 .. count |->
        LET shift == IF arrangement[i] % 2 = 1 THEN jitter ELSE -jitter
        IN  <<Anchors[arrangement[i]][1] + shift, Anchors[arrangement[i]][2] + shift>>]

ClickTolerance == 28

\* distance(...) <= tolerance, squared.
Near(p, q, tolerance) ==
    (p[1] - q[1]) ^ 2 + (p[2] - q[2]) ^ 2 <= tolerance ^ 2

\* Mutant of VerifyPointSequence: clicks in any order.
VerifyPointSet(expected, actual) ==
    IF Len(actual) # Len(expected) THEN "ANSWER_MISSING"
    ELSE IF \A i \in DOMAIN expected : \E j \in DOMAIN actual :
                Near(actual[j], expected[i], ClickTolerance)
         THEN "OK" ELSE "ANSWER_MISMATCH"

VerifyPointSequence(expected, actual) ==
    IF Len(actual) # Len(expected) THEN "ANSWER_MISSING"
    ELSE IF \A i \in DOMAIN expected : Near(actual[i], expected[i], ClickTolerance)
         THEN "OK" ELSE "ANSWER_MISMATCH"

-----------------------------------------------------------------------------
(* The tiles of a jigsaw and of a grid of pictures.  Tiles count from 0.    *)

TileCentre(index, cols, width, height) ==
    <<(index % cols) * width + width \div 2, (index \div cols) * height + height \div 2>>

\* The order with two tiles exchanged: what the shuffled picture shows.
Exchanged(count, a, b) ==
    [i \in 1 .. count |-> IF i - 1 = a THEN b ELSE IF i - 1 = b THEN a ELSE i - 1]

InvertOrder(order) ==
    [i \in DOMAIN order |-> (CHOOSE j \in DOMAIN order : order[j] = i - 1) - 1]

InTile(point, centre, width, height) ==
    /\ Apart(point[1], centre[1]) <= width \div 2
    /\ Apart(point[2], centre[2]) <= height \div 2

\* Each click takes the first expected tile it lies in that no earlier click
\* took.
VerifySelection(expected, actual, width, height) ==
    LET fits(i, point) == InTile(point, expected[i], width, height)
        take(left, point) ==
            LET hits == {i \in left : fits(i, point)}
            IN  IF hits = {} THEN {0} ELSE left \ {Min(hits)}
        left == FoldLeft(LAMBDA l, point : IF l = {0} THEN l ELSE take(l, point),
                         DOMAIN expected, actual)
    IN  IF Len(actual) # Len(expected) THEN "ANSWER_MISSING"
        ELSE IF left = {} THEN "OK" ELSE "ANSWER_MISMATCH"

VerifyTileOrder(expected, actual) ==
    IF Len(actual) # Len(expected) THEN "ANSWER_MISSING"
    ELSE IF actual = expected THEN "OK" ELSE "ANSWER_MISMATCH"

-----------------------------------------------------------------------------
(* Making a challenge.                                                      *)

\* A challenge.  payload is what the visitor's side is told: the height of the
\* piece, the size of the tiles, where the line of a curve starts that moves
\* back by a step for a step of the control.  objects are the points drawn on
\* the engine's own picture, targets first.
Made(type, answer, payload, objects) ==
    [type |-> type, answer |-> answer, objects |-> objects,
     payload |-> payload @@ [y |-> 0, line |-> 0, cols |-> 0, width |-> 0, height |-> 0]]

LOCAL Plain == [y |-> 0]
LOCAL TilesOf(cols, width, height) == [cols |-> cols, width |-> width, height |-> height]
LOCAL Ends(type) == {Control(type).low, Control(type).high}

SliderChallenges(type) ==
    {Made(type, Number("x", x), [y |-> y], <<>>) : x \in Ends(type), y \in SliderHeights}

\* The picture is turned by start; the answer turns it on to a full turn.
RotateChallenges ==
    {Made("ROTATE", Number("angle", (360 - start) % 360), Plain, <<>>) : start \in {35, 325}}

\* A curve's profile fixes where its line starts by the answer.
CurveChallenges(type) == {Made(type, Number("x", x), [line |-> 100 + x], <<>>) : x \in Ends(type)}

ConcatChallenges == {Made("CONCAT", Number("offset", o), Plain, <<>>) : o \in Ends("CONCAT")}

DegreeChallenges ==
    {Made("ROTATE_DEGREE", Number("angle", a), Plain, <<>>) : a \in Ends("ROTATE_DEGREE")}

GestureChallenges ==
    {Made("GESTURE", [Clicks(GesturePath(f, 1)) EXCEPT !.family = f], Plain, <<>>) : f \in Families}

WordChallenges ==
    {LET points == SeparatedClickPoints(a, targets + decoys, 4)
     IN  Made(WordClick, Clicks(SubSeq(points, 1, targets)), Plain, points) :
        a \in Arrangements, targets \in {3, 4}, decoys \in {1, 2}}

IconChallenges ==
    {LET points == SeparatedClickPoints(a, 3, j)
     IN  Made("IMAGE_CLICK", Clicks(points), Plain, points) : a \in Arrangements, j \in {-4, 4}}

JigsawChallenges ==
    {LET width == 300 \div n
         height == 180 \div n
         shown == Exchanged(n * n, 0, last)
         centre(i) == TileCentre(i, n, width, height)
     IN  Made("JIGSAW", [Tiles(InvertOrder(shown)) EXCEPT !.points = <<centre(0), centre(last)>>],
              TilesOf(n, width, height), <<>>) : n \in {2, 3}, last \in {1, 3}}

GridChallenges ==
    {Made(GridClick, Clicks([i \in 1 .. 3 |-> TileCentre(picks[i], 3, 100, 100)]),
          TilesOf(3, 100, 100), <<>>) : picks \in {<<0, 4, 8>>, <<5, 2, 1>>}}

\* The challenges a type may be given.
Generate(type) ==
    CASE type \in Sliders         -> SliderChallenges(type)
      [] type \in Curves          -> CurveChallenges(type)
      [] type = "ROTATE"          -> RotateChallenges
      [] type = "CONCAT"          -> ConcatChallenges
      [] type = "ROTATE_DEGREE"   -> DegreeChallenges
      [] type = "GESTURE"         -> GestureChallenges
      [] type = WordClick         -> WordChallenges
      [] type = "IMAGE_CLICK"     -> IconChallenges
      [] type = "JIGSAW"          -> JigsawChallenges
      [] OTHER                    -> GridChallenges

-----------------------------------------------------------------------------
(* Taking an answer.                                                        *)

VerifyAnswer(challenge, answer) ==
    LET type == challenge.type
        expected == challenge.answer
        size == challenge.payload
    IN
    CASE type \in ControlTypes ->
            IF answer.field # Control(type).field THEN "ANSWER_MISSING"
            ELSE IF Off(type, answer.value, expected.value) <= Control(type).slack
                 THEN "OK" ELSE "ANSWER_MISMATCH"
      [] type = "GESTURE" ->
            IF Len(answer.points) < 4 THEN "ANSWER_MISSING"
            ELSE IF VerifyGesture(expected.points, answer.points)
                 THEN "OK" ELSE "ANSWER_MISMATCH"
      [] type \in {WordClick, "IMAGE_CLICK"} ->
            VerifyPointSequence(expected.points, answer.points)
      [] type = "JIGSAW" ->
            IF answer.order # <<>> THEN VerifyTileOrder(expected.order, answer.order)
            ELSE VerifySelection(expected.points, answer.points, size.width, size.height)
      [] OTHER -> VerifySelection(expected.points, answer.points, size.width, size.height)

\* A track as far as the engine looks at it: its score, where its last point
\* lies, and its points.
MatchesTrack(challenge, answer, track) ==
    CASE challenge.type \in ControlTypes ->
            /\ Len(track.points) >= 2
            /\ LET end == Last(track.points)[1]
               IN  Off(challenge.type, end, answer.value) <= Control(challenge.type).trackSlack
      [] challenge.type = "GESTURE" -> StrokeMatchesTrack(answer.points, track.points)
      [] OTHER -> TRUE

TrackOptional == {WordClick, "IMAGE_CLICK", "JIGSAW", GridClick}

\* A wrong answer is told apart from a poor track, and a poor track from one
\* that does not go with the answer.
LOCAL Judged(reason, challenge, answer, track) ==
    IF reason # "OK" THEN reason
    ELSE IF challenge.type \notin TrackOptional /\ track.score < 45
         THEN "TRACK_CHALLENGE_HARDER"
    ELSE IF ~MatchesTrack(challenge, answer, track) THEN "TRACK_ANSWER_MISMATCH"
    ELSE "OK"

Verify(challenge, answer, track) ==
    Judged(VerifyAnswer(challenge, answer), challenge, answer, track)
=============================================================================
