---------------------------- MODULE ResourceChoice ----------------------------
(***************************************************************************)
(* What the platform accepts as a captcha resource, which resources it     *)
(* picks for a challenge, which challenge type it settles on, and which    *)
(* bytes it draws of them.                                                 *)
(*                                                                         *)
(* internal/resource/validator.go : ValidateAndNormalize                   *)
(* internal/resource/selector.go  : Select, SupportsCaptchaType,           *)
(*                                  ChooseCaptchaType                      *)
(* internal/resource/renderer.go  : the loaders                            *)
(*                                                                         *)
(* A row of captcha_resources is a record.  Rows reach the store only      *)
(* through Normalized, so letter case and blanks are not modelled.  "" is  *)
(* an absent field.  place is what the URI names, scheme its scheme, sum   *)
(* the declared SHA-256 (<<>>: none, <<h>> or <<"sha256", h>> as written), *)
(* metasum one declared in the metadata, mime and width the declared       *)
(* content type and width (0: none), label and category the texts the      *)
(* prompt may use.                                                         *)
(***************************************************************************)
EXTENDS Integers, Sequences, FiniteSets, FiniteSetsExt, SequencesExt

Curves == {"CURVE", "CURVE_V2", "CURVE_V3"}
Sliders == {"SLIDER", "SLIDER_V2"}
WordClick == "WORD_IMAGE_CLICK"
GridClick == "GRID_IMAGE_CLICK"

\* The types one can ask for by name.
Concrete == Curves \cup Sliders \cup
    {"GESTURE", "ROTATE", "CONCAT", "ROTATE_DEGREE", WordClick,
     "IMAGE_CLICK", "JIGSAW", GridClick}

\* The types RANDOM draws from, and the order AUTO tries.
Drawable == Concrete \ {"ROTATE_DEGREE"}
DefaultPreferences == <<"SLIDER", "ROTATE", "CONCAT", WordClick>>

-----------------------------------------------------------------------------
(* Saving a resource: what is accepted, and what is stored for it.          *)

Kinds ==
    {"background_image", "background_library", "concat_background_image",
     "concat_background_library", "jigsaw_background_image",
     "jigsaw_background_library", "rotate_library", "grid_category_library",
     "slider_template", "rotate_template", "concat_template", "font", "icon",
     "icon_library", "degree_template", "curve_template", "gesture_template",
     "jigsaw_template"}

\* The URI schemes a storage type takes.
Schemes(storage) ==
    CASE storage = "embedded"       -> {"embedded"}
      [] storage = "classpath"      -> {"classpath"}
      [] storage = "file"           -> {"file"}
      [] storage = "url"            -> {"http", "https"}
      [] storage = "object_storage" -> {"s3", "oss", "cos", "obs", "minio"}
      [] storage = "database"       -> {"db", "database", "resource"}
      [] OTHER                      -> {}

MayHold(kind, mime) ==
    \/ mime = ""
    \/ kind = "font" /\ mime \in {"font/ttf", "font/otf", "font/woff"}
    \/ kind = "concat_template" /\ mime = "application/json"
    \/ kind # "font" /\ mime \in {"image/png", "image/jpeg", "image/svg+xml"}

Or(value, default) == IF value = "" THEN default ELSE value

\* Mutant of Checksum: a hash in the metadata is overlooked.
ChecksumOfTheField(row) ==
    IF row.sum = <<>> THEN <<>> ELSE <<"sha256", Last(row.sum)>>

\* A checksum may also come as metadata and is stored with its prefix.
Checksum(row) ==
    LET given == IF row.sum = <<>> THEN row.metasum ELSE row.sum
    IN  IF given = <<>> THEN <<>> ELSE <<"sha256", Last(given)>>

Normalized(row) ==
    [row EXCEPT !.type = Or(@, "AUTO"), !.storage = Or(@, "embedded"),
                !.status = Or(@, "active"), !.sum = Checksum(row)]

Accepted(row) ==
    LET saved == Normalized(row) IN
    /\ saved.type \in Concrete \cup {"AUTO"}
    /\ saved.kind \in Kinds
    /\ saved.status \in {"active", "disabled"}
    /\ saved.place # ""
    /\ saved.scheme \in Schemes(saved.storage)
    /\ MayHold(saved.kind, saved.mime)
    /\ saved.width \in 0 .. 4096
    /\ saved.sum = <<>> \/ Last(saved.sum) # "malformed"

-----------------------------------------------------------------------------
(* Picking the resources of a challenge.                                    *)

Backgrounds == {"background_image", "background_library"}

\* The groups of kinds a type needs, one kind of each group.
RequiredKinds(type) ==
    CASE type = "GESTURE"       -> {Backgrounds}
      [] type \in Curves        -> {Backgrounds, {"curve_template"}}
      [] type \in Sliders       -> {Backgrounds, {"slider_template"}}
      [] type = "ROTATE"        -> {{"rotate_library"}}
      [] type = "CONCAT"        -> {{"concat_background_image", "concat_background_library"},
                                    {"concat_template"}}
      [] type = WordClick       -> {Backgrounds, {"font"}}
      [] type = "IMAGE_CLICK"   -> {Backgrounds, {"icon", "icon_library"}}
      [] type = "ROTATE_DEGREE" -> {Backgrounds, {"degree_template"}}
      [] type = "JIGSAW"        -> {{"jigsaw_background_image", "jigsaw_background_library"}}
      [] type = GridClick       -> {{"grid_category_library"}}
      [] OTHER                  -> {}

Collections ==
    {"background_library", "concat_background_library", "jigsaw_background_library",
     "rotate_library", "grid_category_library", "icon_library"}

\* What a challenge asks resources for.
Score(row, ask) ==
    (IF row.type = ask.type THEN 100 ELSE 0)
    + (IF ask.scene # "" /\ row.scene = ask.scene THEN 50 ELSE 0)
    + (IF ask.tag # "" /\ row.tag = ask.tag THEN 30 ELSE 0)
    + (IF row.tag = "default" THEN 10 ELSE 0)

Eligible(row, ask) ==
    /\ row.status = "active"
    /\ row.type \in {ask.type, "AUTO"}
    /\ row.scene \in {"", ask.scene}
    /\ ask.tag = "" \/ row.tag \in {"", "default", ask.tag}
    /\ row.kind \in UNION RequiredKinds(ask.type)

\* Mutant of Better: rows of the same score stay in the order they come.
BetterByScore(row, other, ask) == Score(row, ask) > Score(other, ask)

Better(row, other, ask) ==
    \/ Score(row, ask) > Score(other, ask)
    \/ Score(row, ask) = Score(other, ask) /\ row.id < other.id

\* One turn of the loop: of a library all rows of the best score stay, of any
\* other kind the best row.
Weigh(chosen, row, ask) ==
    LET rivals == {r \in chosen : r.kind = row.kind} IN
    IF ~Eligible(row, ask) THEN chosen
    ELSE IF row.kind \notin Collections
         THEN IF \A r \in rivals : Better(row, r, ask)
              THEN (chosen \ rivals) \cup {row} ELSE chosen
    ELSE IF \A r \in rivals : Score(row, ask) > Score(r, ask)
         THEN (chosen \ rivals) \cup {row}
    ELSE IF \A r \in rivals : Score(row, ask) = Score(r, ask)
         THEN chosen \cup {row} ELSE chosen

Select(list, ask) == FoldLeft(LAMBDA chosen, row : Weigh(chosen, row, ask), {}, list)

SupportsCaptchaType(list, ask) ==
    /\ RequiredKinds(ask.type) # {}
    /\ \A group \in RequiredKinds(ask.type) : \E r \in Select(list, ask) : r.kind \in group

Available(list, ask) ==
    {t \in Drawable : list = <<>> \/ SupportsCaptchaType(list, [ask EXCEPT !.type = t])}

\* The outcomes ChooseCaptchaType may have.  A type asked for by name is
\* given whatever the resources are; a preference that is no such type is
\* passed over.
ChooseCaptchaType(list, ask, preferences) ==
    LET available == Available(list, ask)
        order == preferences \o DefaultPreferences
        first(types) == order[Min({i \in DOMAIN order : order[i] \in types})]
    IN  IF ask.type = "RANDOM"
        THEN IF available = {} THEN {"SLIDER"} ELSE available
        ELSE IF ask.type \in Concrete THEN {ask.type}
        ELSE IF Range(order) \cap available # {} THEN {first(available)} ELSE {first(Concrete)}

-----------------------------------------------------------------------------
(* Loading the image of a resource.  world says what lies at a place: the   *)
(* hash, the content type and the width of it, or Nothing.  A class path    *)
(* resource is looked for below every root in turn.                         *)

Nothing == [sum |-> "nothing", mime |-> "", width |-> 0]

\* The places a row's bytes are looked for, in order.  The bytes of a
\* database resource are in the row itself.
Places(row, roots) ==
    CASE row.storage = "classpath" -> [i \in DOMAIN roots |-> <<roots[i], row.place>>]
      [] row.storage = "database"  -> <<<<"row", row.place>>>>
      [] OTHER                     -> <<<<"", row.place>>>>

\* Bytes that do not have the declared hash are not taken.
Vouched(row, there) == there # Nothing /\ (row.sum = <<>> \/ there.sum = Last(row.sum))

\* A remote answer must also have the declared type, whatever the bytes are.
AsDeclared(row, there) ==
    row.storage \in {"url", "object_storage"} =>
        MayHold(row.kind, there.mime) /\ row.mime \in {"", there.mime}

Bytes(row, world, roots) ==
    LET places == Places(row, roots)
        good == {i \in DOMAIN places : /\ Vouched(row, world[places[i]])
                                       /\ AsDeclared(row, world[places[i]])}
    IN  IF good = {} THEN Nothing ELSE world[places[Min(good)]]

Decodes(row, there) ==
    /\ there # Nothing
    /\ there.mime \in {"image/png", "image/jpeg", "image/svg+xml"}
    /\ MayHold(row.kind, there.mime)
    /\ row.mime \in {"", there.mime}
    /\ there.mime # "image/svg+xml" => row.width \in {0, there.width}

\* The pictures the platform draws itself.
Builtin == {"default-backgrounds", "backgrounds", "concat-backgrounds",
            "jigsaw-backgrounds", "rotate-backgrounds", "slider-template"}

\* The image of a row: the row and the hash of what was read for it.
Image(row, world, roots) ==
    IF row.storage = "embedded"
    THEN IF row.place \in Builtin THEN [row |-> row, sum |-> "built in"] ELSE Nothing
    ELSE LET there == Bytes(row, world, roots)
         IN  IF Decodes(row, there) THEN [row |-> row, sum |-> there.sum] ELSE Nothing

Images(rows, kind, world, roots) ==
    {Image(r, world, roots) : r \in {s \in rows : s.kind = kind}} \ {Nothing}

\* Mutant of Background: without the pictures that are built in.
BackgroundUploaded(rows, single, library, world, roots) ==
    LET own(kind) == {i \in Images(rows, kind, world, roots) : i.row.storage # "embedded"}
    IN  IF own(single) # {} THEN own(single) ELSE own(library)

\* A background comes from the first of these that has one: single images and
\* libraries that are not built in, then built in ones.
Background(rows, single, library, world, roots) ==
    LET singles == Images(rows, single, world, roots)
        libraries == Images(rows, library, world, roots)
        own(images) == {i \in images : i.row.storage # "embedded"}
        first == SelectSeq(<<own(singles), own(libraries), singles, libraries>>,
                           LAMBDA s : s # {})
    IN  IF first = <<>> THEN {} ELSE Head(first)
=============================================================================
