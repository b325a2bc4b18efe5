--------------------------- MODULE MCChallengeEngine ---------------------------
EXTENDS ChallengeEngine

CONSTANTS r1, r2

Row(id, kind, storage, place) ==
    [id |-> id, type |-> "AUTO", scene |-> "", tag |-> "default", kind |-> kind,
     status |-> "active", storage |-> storage, scheme |-> storage, place |-> place,
     sum |-> <<>>, metasum |-> <<>>, mime |-> "", width |-> 0, label |-> "", category |-> ""]

File(id, kind, place) == Row(id, kind, "classpath", place)

Icon(id, label) == [File(id, "icon_library", "icon") EXCEPT !.label = label]
Tile(id, category, label) ==
    [File(id, "grid_category_library", "tile") EXCEPT !.category = category, !.label = label]

Labelled ==
    <<Row(1, "background_library", "embedded", "backgrounds"),
      [File(2, "background_image", "photo") EXCEPT !.sum = <<"sha256", "h1">>],
      Row(3, "slider_template", "embedded", "slider-template"),
      Icon(4, "apple"), Icon(5, "pear"), Icon(6, "plum"),
      Tile(7, "cat", "Cats"), Tile(8, "dog", ""), Tile(9, "cat", "Cats"),
      File(10, "rotate_library", "photo")>>

\* Too few icons and mixed up labels; one row switched off, one for another
\* scene, one for a type of its own, one that beats another.
Mixed ==
    <<Icon(2, "apple"), Icon(1, ""),
      [File(4, "background_image", "photo") EXCEPT !.scene = "login", !.tag = ""],
      [File(3, "background_image", "photo") EXCEPT !.scene = "login", !.tag = ""],
      [File(5, "slider_template", "photo") EXCEPT !.status = "disabled"],
      Tile(6, "cat", "Cats"), Tile(7, "dog", "Cats"),
      [File(8, "concat_background_image", "photo") EXCEPT !.type = "CONCAT"],
      [File(9, "concat_template", "photo") EXCEPT !.scene = "shop"],
      Row(10, "jigsaw_background_library", "embedded", "jigsaw-backgrounds")>>

Seen(sum) == [sum |-> sum, mime |-> "image/png", width |-> 300]

\* What lies at the places of the rows, below either root.
World(own, other) ==
    [spot \in {"a", "b", "row", ""} \X {"photo", "icon", "tile"} |->
        IF spot[2] # "photo" THEN IF spot[1] = "b" THEN Seen("h3") ELSE Nothing
        ELSE IF spot[1] = "a" THEN own ELSE other]

Worlds == {World(Nothing, Seen("h1")), World(Seen("h2"), Nothing)}

MCOffered ==
    {[Row(1, kind, storage, "photo") EXCEPT
        !.type = "", !.status = "", !.scheme = scheme, !.sum = s, !.metasum = m, !.mime = mime] :
        kind \in {"background_image", "font"}, storage \in {"classpath", "file", "url", "database"},
        scheme \in {"classpath", "file", "http", "db"},
        s \in {<<>>, <<"h1">>, <<"sha256", "h1">>, <<"malformed">>},
        m \in {<<>>, <<"h2">>}, mime \in {"", "image/png", "image/jpeg"}}

Wish(type, tag) == [type |-> type, scene |-> "login", tag |-> tag]

Around(asks, lists, worlds) ==
    [asks |-> asks, lists |-> lists, worlds |-> worlds, roots |-> <<"a", "b">>]

\* One visitor for every type, by draw and by the list's preferences; one who
\* names a type; two who share a pool.
MCSetups ==
    {Around(r1 :> Wish("RANDOM", ""), {Labelled, Mixed, <<>>}, Worlds),
     Around(r1 :> Wish("AUTO", "gold"), {Mixed, Labelled}, Worlds),
     Around(r1 :> Wish("ROTATE_DEGREE", ""), {<<>>}, Worlds),
     Around(r1 :> Wish("GESTURE", ""), {Labelled}, Worlds),
     Around((r1 :> Wish("SLIDER", "")) @@ (r2 :> Wish("AUTO", "")), {<<>>}, {World(Nothing, Nothing)})}
=============================================================================
