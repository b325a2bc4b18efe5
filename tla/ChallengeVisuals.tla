---------------------------- MODULE ChallengeVisuals ---------------------------
(***************************************************************************)
(* The picture a challenge is shown with, and what completes it.           *)
(*                                                                         *)
(* internal/resource/renderer.go : ApplyVisuals and the composers          *)
(* internal/engine/engine.go     : the engine's own pictures               *)
(* web/runtime/src/main.tsx      : what the visitor moves (Completes)      *)
(*                                                                         *)
(* A view is what the visitor sees: the picture it is made from (image),   *)
(* the place of the thing to be matched, the false gaps beside it, what    *)
(* the prompt names, in order, the objects drawn, each called something    *)
(* and standing at a point, and the order the tiles are in.                *)
(***************************************************************************)
EXTENDS Captchas

OwnPicture == [sum |-> "drawn by the engine"]

LOCAL Clamped(low, n, high) == Max({low, Min({n, high})})
LOCAL Size(n) == Max({n, -n})
LOCAL Called(labels, points) ==
    [i \in DOMAIN points |-> [called |-> labels[i], at |-> points[i]]]

-----------------------------------------------------------------------------
(* Things to be matched with a control.                                     *)

\* Sliders are drawn at twice the size of the view.  The second slider has
\* two false gaps, unless one would touch the gap that counts.
FalseGaps(challenge) ==
    LET touches(spot) ==
            /\ Size(spot[1] - 2 * challenge.answer.value) < 94
            /\ Size(spot[2] - 2 * challenge.payload.y) < 94
        spots == {<<36, 48>>, <<640 - 94 - 36, 320 - 94 - 44>>}
    IN  IF challenge.type = "SLIDER_V2" THEN {s \in spots : ~touches(s)} ELSE {}

\* Where the gap is: the answer at twice the size, kept within the picture.
GapAt(challenge) == Clamped(0, 2 * challenge.answer.value, 640 - 94) \div 2

\* Mutant of TurnedBy: by the answer instead of back.
TurnedOn(challenge) == challenge.answer.value

\* How far the picture is turned.
TurnedBy(challenge) == (((360 - challenge.answer.value) % 360) + 360) % 360

\* How far the strip is pushed.
PushedBy(challenge) == 160 - Clamped(0, challenge.answer.value, 160)

\* Where the fixed line of a curve is.
LineAt(challenge) == challenge.payload.line - challenge.answer.value

Place(challenge) ==
    CASE challenge.type \in Sliders -> GapAt(challenge)
      [] challenge.type = "ROTATE"  -> TurnedBy(challenge)
      [] challenge.type = "CONCAT"  -> PushedBy(challenge)
      [] challenge.type \in Curves  -> LineAt(challenge)
      [] OTHER                      -> challenge.answer.value

-----------------------------------------------------------------------------
(* Things to be clicked.                                                    *)

LOCAL Words == <<"w1", "w2", "w3", "w4">>
LOCAL Others == <<"d1", "d2", "d3", "d4">>

\* Other words stand at spots far from the words that count and each other
\* (the jitter of two pixels at a spot is left out).
WordDecoys(points) ==
    LET spots == [i \in 1 .. 9 |-> <<<<53, 160, 266>>[1 + ((i - 1) % 3)], 45 + 45 * ((i - 1) \div 3)>>]
        square(p, q) == (p[1] - q[1]) ^ 2 + (p[2] - q[2]) ^ 2
        far(spot, taken) == \A i \in DOMAIN taken : 100 * square(spot, taken[i]) >= 512 ^ 2
        found == FoldLeft(LAMBDA seq, s : IF far(s, points \o seq) THEN Append(seq, s) ELSE seq,
                          <<>>, spots)
    IN  SubSeq(found, 1, Min({4, Len(found)}))

ByRowId(images) == SetToSortSeq(images, LAMBDA i, j : i.row.id < j.row.id)

DisplayLabel(row) ==
    CASE row.label # ""                  -> row.label
      [] row.category # ""               -> row.category
      [] row.tag \notin {"", "default"}  -> row.tag
      [] OTHER                           -> ""

\* The icons of the library in turn.  An icon without a label is announced by
\* the word of the icon the engine had drawn.
LibraryIcons(points, images) ==
    LET icons == ByRowId(images)
        row(i) == icons[1 + ((i - 1) % Len(icons))].row
    IN  [prompt |-> [i \in DOMAIN points |-> Or(DisplayLabel(row(i)), Words[i])],
         objects |-> Called([i \in DOMAIN points |-> DisplayLabel(row(i))], points)]

GridLabel(row) == Or(row.label, row.category)

\* A grid shows pictures of one category on the targets and pictures of the
\* others elsewhere, drawn at random there and taken in turn here; the prompt
\* has the label of the category's first picture.
GridTiles == [i \in 1 .. 9 |-> TileCentre(i - 1, 3, 100, 100)]

GridOf(points, images, category) ==
    LET own == ByRowId({i \in images : i.row.category = category})
        rest == ByRowId({i \in images : i.row.category # category})
        pick(from, i) == from[1 + (i % Len(from))]
        target(i) == GridTiles[i] \in Range(points)
    IN  [image |-> own[1], prompt |-> <<GridLabel(own[1].row)>>,
         objects |-> Called([i \in 1 .. 9 |->
                                GridLabel(pick(IF target(i) THEN own ELSE rest, i).row)],
                            GridTiles)]

-----------------------------------------------------------------------------
(* The views of a challenge.                                                *)

\* The grid the engine draws by itself.
OwnTiles(points) ==
    Called([i \in 1 .. 9 |-> IF GridTiles[i] \in Range(points) THEN "circle" ELSE "other"],
           GridTiles)

\* What the engine draws by itself.
OwnView(challenge) ==
    LET points == challenge.answer.points
        targets == Len(points)
    IN  [type |-> challenge.type, image |-> OwnPicture, payload |-> challenge.payload,
         place |-> Place(challenge), gaps |-> FalseGaps(challenge),
         prompt |-> CASE challenge.type = GridClick -> <<"circle">>
                      [] challenge.type \in {WordClick, "IMAGE_CLICK"} -> SubSeq(Words, 1, targets)
                      [] OTHER -> <<>>,
         objects |-> IF challenge.type = GridClick THEN OwnTiles(points)
                     ELSE Called(SubSeq(Words, 1, targets) \o Others, challenge.objects),
         order |-> InvertOrder(challenge.answer.order)]

\* The pictures a challenge of a type may be made from.
Pictures(type, rows, world, roots) ==
    LET rotated == Images(rows, "rotate_library", world, roots)
        plain == Background(rows, "background_image", "background_library", world, roots)
    IN  CASE type = "ROTATE_DEGREE" -> {}
          [] type = GridClick -> Images(rows, "grid_category_library", world, roots)
          [] type = "ROTATE"  -> IF rotated = {} THEN plain ELSE rotated
          [] type = "CONCAT"  -> Background(rows, "concat_background_image",
                                            "concat_background_library", world, roots)
          [] type = "JIGSAW"  -> Background(rows, "jigsaw_background_image",
                                            "jigsaw_background_library", world, roots)
          [] OTHER            -> plain

\* The views a challenge may get: with a picture of the resources if there is
\* one that loads, and else the engine's own.
ApplyVisuals(challenge, rows, world, roots) ==
    LET own == OwnView(challenge)
        points == challenge.answer.points
        pictures == Pictures(challenge.type, rows, world, roots)
        sorted == {p \in pictures : p.row.category # ""}
        categories == {p.row.category : p \in sorted}
        icons == Images(rows, "icon_library", world, roots)
        decoys == WordDecoys(points)
    IN
    CASE challenge.type = GridClick /\ Cardinality(categories) >= 2 ->
            {GridOf(points, sorted, c) @@ own : c \in categories}
      [] challenge.type = WordClick ->
            {[own EXCEPT !.image = p,
                         !.objects = Called(own.prompt \o SubSeq(Others, 1, Len(decoys)),
                                            points \o decoys)] : p \in pictures}
            \cup (IF pictures = {} THEN {own} ELSE {})
      [] challenge.type = "IMAGE_CLICK" /\ pictures # {} /\ icons # {} ->
            {LibraryIcons(points, icons) @@ [own EXCEPT !.image = p] : p \in pictures}
      [] challenge.type # GridClick /\ pictures # {} ->
            {[own EXCEPT !.image = p] : p \in pictures}
      [] OTHER -> {own}

-----------------------------------------------------------------------------
(* What completes a view, as the visitor's browser shows it.                *)

\* The value of the control that makes things match: it moves the piece of a
\* slider, turns the picture back, pulls the strip (which starts 160 to the
\* left and repeats after 320) and moves the line of a curve.
Matching(view) ==
    CASE view.type \in Sliders -> view.place
      [] view.type = "ROTATE"  -> (360 - view.place) % 360
      [] view.type = "CONCAT"  -> (160 - view.place) % 320
      [] view.type \in Curves  -> view.payload.line - view.place
      [] OTHER                 -> view.place

\* The answers that complete a view: the control at a matching value, a click
\* on an object for every name of the prompt, all the objects of a grid that
\* are what the prompt names, the tiles back in order.
Completes(view) ==
    LET control == Control(view.type)
        count == Len(view.order)
        named(i) == {o \in Range(view.objects) : o.called = view.prompt[i]}
        asked == UNION {named(i) : i \in DOMAIN view.prompt}
        clicks == {seq \in [DOMAIN view.prompt -> asked] :
                        \A i \in DOMAIN view.prompt : seq[i].called = view.prompt[i]}
    IN
    CASE view.type \in ControlTypes ->
            {Number(control.field, v) : v \in {Matching(view)} \cap (0 .. control.max)}
      [] view.type = GridClick ->
            {Clicks(SetToSeq({o.at : o \in named(1)})), Clicks(Reverse(SetToSeq({o.at : o \in named(1)})))}
      [] view.type \in {WordClick, "IMAGE_CLICK"} ->
            {Clicks([i \in DOMAIN seq |-> seq[i].at]) : seq \in clicks}
      [] OTHER ->
            {Tiles(InvertOrder(view.order))}
=============================================================================
