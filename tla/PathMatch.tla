------------------------------- MODULE PathMatch -------------------------------
(***************************************************************************)
(* How the engine compares a drawn stroke with the stroke it asked for,    *)
(* internal/engine/engine.go : verifyGesturePathSequence,                  *)
(* verifyPathSequence, resamplePath, hasMonotonicPathProgress and          *)
(* curveAnswerMatchesTrack.                                                *)
(*                                                                         *)
(* A path is a sequence of points <<x, y>> in pixels.  Lengths are whole   *)
(* tenths of a pixel where the code has floats; a factor like 1.8 is       *)
(* written as 18 / 10.                                                     *)
(***************************************************************************)
EXTENDS Integers, Sequences, FiniteSets, FiniteSetsExt, SequencesExt, Functions

LOCAL Size(n) == IF n < 0 THEN -n ELSE n
LOCAL Total(seq) == FoldSeq(+, 0, seq)

\* A sequence, with its elements worked out once.
LOCAL Listed(seq) == SubSeq(seq, 1, Len(seq))

LOCAL Between(low, n, high) == IF n < low THEN low ELSE IF n > high THEN high ELSE n

\* Two of Newton's steps from a guess at most an eighth too long: right to a
\* tenth within a picture.
LOCAL Closer(square, guess) == (guess + square \div guess) \div 2
LOCAL Root(square, guess) ==
    IF square = 0 THEN 0 ELSE Closer(square, Closer(square, guess))
LOCAL Hypotenuse(dx, dy) ==
    Root(100 * (dx * dx + dy * dy), 10 * Max({dx, dy}) + 5 * Min({dx, dy}))

Distance(a, b) == Hypotenuse(Size(a[1] - b[1]), Size(a[2] - b[2]))

Steps(path) == Listed([i \in 1 .. Len(path) - 1 |-> Distance(path[i], path[i + 1])])

PathLength(path) == Total(Steps(path))

\* The legs of a path that lead somewhere, each with the length before it.
LOCAL LegsOf(path, steps) ==
    SelectSeq([i \in 1 .. Len(path) - 1 |->
                  [from |-> path[i], to |-> path[i + 1], length |-> steps[i],
                   before |-> Total(SubSeq(steps, 1, i - 1))]],
              LAMBDA l : l.length > 0)

Legs(path) == LegsOf(path, Steps(path))

\* The place on a leg nearest to a point, as the length walked from its start.
LOCAL Foot(point, leg) ==
    LET dx == leg.to[1] - leg.from[1]
        dy == leg.to[2] - leg.from[2]
        along == (point[1] - leg.from[1]) * dx + (point[2] - leg.from[2]) * dy
    IN  Between(0, (100 * along) \div leg.length, leg.length)

\* How far a point is from a leg: from one of its ends, or across.
LOCAL OffFrom(point, leg, foot) ==
    LET dx == leg.to[1] - leg.from[1]
        dy == leg.to[2] - leg.from[2]
        across == (point[1] - leg.from[1]) * dy - (point[2] - leg.from[2]) * dx
    IN  IF foot \in {0, leg.length}
        THEN Distance(point, IF foot = 0 THEN leg.from ELSE leg.to)
        ELSE (100 * Size(across)) \div leg.length

LOCAL Off(point, leg) == OffFrom(point, leg, Foot(point, leg))

MinDistance(point, legs) == Min({Off(point, leg) : leg \in Range(legs)})

\* How far along the path its place nearest to a point is: on the first of
\* the legs equally near.
LOCAL FirstLeast(seq) == Min({i \in DOMAIN seq : \A j \in DOMAIN seq : seq[i] <= seq[j]})
LOCAL WalkedTo(point, leg) == leg.before + Foot(point, leg)

Progress(point, legs) ==
    WalkedTo(point, legs[FirstLeast(Listed([i \in DOMAIN legs |-> Off(point, legs[i])]))])

Samples == 18

\* A path as Samples points at equal distances along it, to whole pixels.
LOCAL Shift(a, b, part, whole) == a + (2 * (b - a) * part + whole) \div (2 * whole)
LOCAL PointOn(leg, at) ==
    Listed([c \in 1 .. 2 |-> Shift(leg.from[c], leg.to[c], at - leg.before, leg.length)])
LOCAL PointAt(legs, at) ==
    PointOn(legs[Min({j \in DOMAIN legs : legs[j].before + legs[j].length >= at} \cup {Len(legs)})], at)

Resample(path, legs, length) ==
    Listed([i \in 1 .. Samples |->
        IF length = 0 THEN path[1] ELSE PointAt(legs, (length * (i - 1)) \div (Samples - 1))])

\* Both ends near, and the paths near each other on average and at worst:
\* the drawn points to the asked path, the asked path to the drawn one, and
\* the two walked side by side.
LOCAL Within(distances, mean, worst) ==
    /\ Total(distances) <= mean * Len(distances)
    /\ \A i \in DOMAIN distances : distances[i] <= worst

LOCAL Alike(actual, asked, drawn, expectedLegs, actualLegs, tolerance) ==
    /\ Within(Listed([i \in DOMAIN actual |-> MinDistance(actual[i], expectedLegs)]),
              16 * tolerance, 42 * tolerance)
    /\ Within(Listed([i \in 1 .. Samples |-> MinDistance(asked[i], actualLegs)]),
              18 * tolerance, 44 * tolerance)
    /\ Within(Listed([i \in 1 .. Samples |-> Distance(asked[i], drawn[i])]),
              22 * tolerance, 48 * tolerance)

LOCAL AlikeAlong(expected, actual, expectedLegs, actualLegs, tolerance) ==
    Alike(actual, Resample(expected, expectedLegs, PathLength(expected)),
          Resample(actual, actualLegs, PathLength(actual)), expectedLegs, actualLegs, tolerance)

VerifyPathSequence(expected, actual, tolerance) ==
    /\ Len(actual) >= 4 /\ Len(expected) >= 2
    /\ \A ends \in {<<Head(actual), Head(expected)>>, <<Last(actual), Last(expected)>>} :
           Distance(ends[1], ends[2]) <= 18 * tolerance
    /\ AlikeAlong(expected, actual, Legs(expected), Legs(actual), tolerance)

LOCAL ReachedAlong(legs, actual) == Listed([i \in DOMAIN actual |-> Progress(actual[i], legs)])
LOCAL NeverBack(reached, allowed) ==
    \A i, j \in DOMAIN reached : i < j /\ reached[i] > 0 => reached[j] + allowed >= reached[i]

\* Mutant of MonotonicProgress: no falling back at all is allowed.
MonotonicProgressStrictly(expected, actual, allowed) ==
    NeverBack(ReachedAlong(Legs(expected), actual), 0)

\* No point of the stroke falls back behind an earlier one by more than the
\* allowance.
MonotonicProgress(expected, actual, allowed) ==
    NeverBack(ReachedAlong(Legs(expected), actual), allowed)

GestureTolerance == 14

\* A gesture must be about as long and as bent as the one asked for.
LOCAL AsLong(asked, drawn, chord) ==
    /\ asked > 0 /\ chord > 0
    /\ 100 * drawn >= 92 * chord /\ 100 * drawn <= 225 * asked
    /\ 100 * asked > 108 * chord => 100 * drawn >= 100 * chord + 45 * (asked - chord)

VerifyGesture(expected, actual) ==
    /\ Len(actual) >= 4 /\ Len(expected) >= 2
    /\ AsLong(PathLength(expected), PathLength(actual), Distance(Head(expected), Last(expected)))
    /\ VerifyPathSequence(expected, actual, GestureTolerance)
    /\ MonotonicProgress(expected, actual, (24 * PathLength(expected)) \div 100)

\* The pointer's track must run along the stroke that was handed in.
LOCAL LikeInLength(drawn, tracked) ==
    drawn > 0 /\ 100 * tracked >= 72 * drawn /\ 100 * tracked <= 135 * drawn

StrokeMatchesTrack(answer, track) ==
    /\ Len(answer) >= 4 /\ Len(track) >= 4
    /\ LikeInLength(PathLength(answer), PathLength(track))
    /\ VerifyPathSequence(answer, track, 22)

-----------------------------------------------------------------------------
(* The strokes the engine asks for.  A family is a chain of cubic curves    *)
(* whose control points are drawn from small boxes; reach \in {0, 1, 2}     *)
(* stands for the draws (all low, in the middle, all high), and Fine for    *)
(* the number of steps a curve is split into.                               *)

Fine == 6

LOCAL Drawn(reach, low, high) == low + (reach * (high - low)) \div 2
LOCAL In(reach, x1, x2, y1, y2) == <<Drawn(reach, x1, x2), Drawn(reach, y1, y2)>>

Cubic(a, b, c, d) ==
    LET weigh(i, k) == (Fine - k) ^ 3 * a[i] + 3 * (Fine - k) ^ 2 * k * b[i]
                         + 3 * (Fine - k) * k ^ 2 * c[i] + k ^ 3 * d[i]
    IN  [k \in 1 .. Fine + 1 |-> <<weigh(1, k - 1) \div Fine ^ 3, weigh(2, k - 1) \div Fine ^ 3>>]

\* The sine of i eighths of a turn, in hundredths.
LOCAL Sine(i) == <<0, 71, 100, 71, 0, -71, -100, -71>>[1 + (i % 8)]

Families == {"soft_wave", "arch", "s_curve", "soft_hook", "open_loop", "lazy_loop"}

FamilyPath(family, r) ==
    CASE family = "soft_wave" ->
            [i \in 1 .. 13 |-> <<38 + (244 * (i - 1)) \div 12,
                                 Drawn(r, 72, 92) + (Sine(i - 1) * Drawn(r, 22, 34)) \div 100>>]
      [] family = "arch" ->
            Cubic(In(r, 38, 52, 104, 122), In(r, 78, 104, 28, 48),
                  In(r, 206, 238, 28, 48), In(r, 270, 286, 98, 124))
      [] family = "s_curve" ->
            LET join == In(r, 150, 174, 72, 92)
            IN  Cubic(In(r, 38, 52, 52, 78), In(r, 84, 118, 26, 44), In(r, 112, 144, 112, 132), join)
                  \o Cubic(join, In(r, 188, 218, 34, 56), In(r, 216, 250, 112, 132),
                           In(r, 270, 288, 72, 100))
      [] family = "soft_hook" ->
            LET turn == In(r, 184, 214, 86, 112)
            IN  Cubic(In(r, 40, 54, 80, 106), In(r, 86, 118, 34, 56), In(r, 148, 184, 38, 62), turn)
                  \o Cubic(turn, In(r, 214, 238, 124, 134), In(r, 246, 274, 112, 132),
                           In(r, 266, 288, 66, 96))
      [] family = "open_loop" ->
            LET upper == In(r, 104, 132, 36, 56)
                lower == In(r, 72, 98, 96, 120)
                right == In(r, 212, 244, 112, 132)
            IN  Cubic(In(r, 226, 252, 48, 70), In(r, 190, 222, 30, 46), In(r, 142, 170, 30, 48), upper)
                  \o Cubic(upper, In(r, 72, 98, 58, 80), In(r, 60, 86, 80, 106), lower)
                  \o Cubic(lower, In(r, 110, 140, 130, 134), In(r, 174, 206, 130, 134), right)
                  \o Cubic(right, In(r, 248, 268, 112, 130), In(r, 266, 286, 96, 118),
                           In(r, 276, 292, 76, 104))
      [] OTHER ->
            LET mid == In(r, 154, 176, 82, 106)
            IN  Cubic(In(r, 42, 58, 86, 110), In(r, 76, 104, 38, 56), In(r, 126, 150, 118, 134), mid)
                  \o Cubic(mid, In(r, 198, 226, 34, 58), In(r, 234, 260, 112, 132),
                           In(r, 268, 288, 68, 98))

\* Fitted into the picture, 320 by 180 (the families are laid out for 160).
GesturePath(family, r) ==
    LET base == FamilyPath(family, r)
    IN  Listed([i \in DOMAIN base |->
            <<Between(24, base[i][1], 320 - 24),
              Between(26, (base[i][2] * 9 + 4) \div 8, 180 - 26)>>])
=============================================================================
