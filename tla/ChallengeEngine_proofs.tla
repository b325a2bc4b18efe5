------------------------- MODULE ChallengeEngine_proofs -------------------------
(***************************************************************************)
(* Proofs about the challenge engine: the types of its variables, and that *)
(* no challenge is handed out twice although takers and fillers share the  *)
(* pools without a lock.                                                   *)
(*                                                                         *)
(* The argument looks at the places that hold challenges, the sessions,    *)
(* the pools and the fillers' hands, as one function from places to        *)
(* sequences of serials.  A step of the engine does one of two things to   *)
(* it: a place gets a serial above all that were ever made, or it gets the *)
(* first serial of another place, which loses it.                          *)
(***************************************************************************)
EXTENDS ChallengeEngine, FiniteSetTheorems, SequenceTheorems, TLAPS

-----------------------------------------------------------------------------
(* Places that hold serials.                                                *)

Once(S, H) ==
    \A h, k \in S : \A i \in DOMAIN H[h], j \in DOMAIN H[k] :
        H[h][i] = H[k][j] => h = k /\ i = j

\* A sequence within a larger bound is one of the same numbers.
LEMMA WiderSeq ==
    ASSUME NEW n \in Nat, NEW m \in Nat, n <= m, NEW s \in Seq(1 .. n)
    PROVE  s \in Seq(1 .. m)
<1>1. 1 .. n \subseteq 1 .. m  OBVIOUS
<1>2. QED  BY <1>1

\* What is where in a sequence that got longer, or shorter.
LEMMA Longer ==
    ASSUME NEW n \in Nat, NEW m \in Nat, n <= m, NEW s \in Seq(1 .. n), NEW v \in 1 .. m
    PROVE  /\ Append(s, v) \in Seq(1 .. m)
           /\ \A i \in DOMAIN Append(s, v) :
                  \/ i \in DOMAIN s /\ Append(s, v)[i] = s[i] /\ s[i] <= n
                  \/ i = Len(s) + 1 /\ Append(s, v)[i] = v
<1>1. s \in Seq(1 .. m)
  BY WiderSeq
<1>2. QED  BY <1>1

LEMMA Shorter ==
    ASSUME NEW n \in Nat, NEW m \in Nat, n <= m, NEW s \in Seq(1 .. n), s # <<>>
    PROVE  /\ Tail(s) \in Seq(1 .. m)
           /\ Head(s) = s[1] /\ 1 \in DOMAIN s
           /\ \A i \in DOMAIN Tail(s) : /\ i \in Nat \ {0} /\ i + 1 \in DOMAIN s
                                         /\ Tail(s)[i] = s[i + 1]
<1>1. s \in Seq(1 .. m)
  BY WiderSeq
<1>2. QED  BY <1>1

LEMMA InRange ==
    ASSUME NEW n \in Nat, NEW s \in Seq(1 .. n), NEW i \in DOMAIN s
    PROVE  s[i] \in 1 .. n
OBVIOUS

\* A place that gets a serial above all others holds it alone.
GetsNew(S, n, m, H, x, v, G) ==
    /\ n \in Nat /\ m \in Nat /\ n <= m
    /\ H \in [S -> Seq(1 .. n)] /\ Once(S, H) /\ x \in S
    /\ v \in 1 .. m /\ v > n
    /\ \A h \in S \ {x} : G[h] = H[h]
    /\ G[x] = Append(H[x], v)

LEMMA MadeOnce ==
    ASSUME NEW S, NEW n, NEW m, NEW H, NEW x, NEW v, NEW G, GetsNew(S, n, m, H, x, v, G)
    PROVE  Once(S, G)
<1> DEFINE Kept(h, i) == i \in DOMAIN H[h] /\ G[h][i] = H[h][i] /\ G[h][i] \in 1 .. n
           New(h, i) == h = x /\ i = Len(H[x]) + 1 /\ G[h][i] = v
<1> USE DEF GetsNew
<1>1. \A h \in S : H[h] \in Seq(1 .. n)
  OBVIOUS
<1>3. ASSUME NEW h \in S, NEW i \in DOMAIN G[h]
      PROVE  Kept(h, i) \/ New(h, i)
  <2>1. H[h] \in Seq(1 .. n)
    BY <1>1
  <2>2. CASE h = x
    <3>1. i \in DOMAIN Append(H[h], v) /\ G[h] = Append(H[h], v)
      BY <2>2
    <3>2. \/ i \in DOMAIN H[h] /\ Append(H[h], v)[i] = H[h][i]
          \/ i = Len(H[h]) + 1 /\ Append(H[h], v)[i] = v
      BY <2>1, <3>1, Longer
    <3>3. i \in DOMAIN H[h] => H[h][i] \in 1 .. n
      BY <2>1, InRange
    <3>4. QED  BY <2>2, <3>1, <3>2, <3>3
  <2>3. CASE h # x
    BY <2>1, <2>3, InRange
  <2>4. QED  BY <2>2, <2>3
<1>4. ASSUME NEW h \in S, NEW k \in S, NEW i \in DOMAIN G[h], NEW j \in DOMAIN G[k],
             G[h][i] = G[k][j]
      PROVE  h = k /\ i = j
  <2>1. (Kept(h, i) \/ New(h, i)) /\ (Kept(k, j) \/ New(k, j))
    BY <1>3
  <2>2. CASE Kept(h, i) /\ Kept(k, j)
    <3>1. i \in DOMAIN H[h] /\ j \in DOMAIN H[k] /\ H[h][i] = H[k][j]
      BY <2>2, <1>4
    <3>2. QED  BY <3>1 DEF Once
  <2>3. QED  BY <2>1, <2>2, <1>4
<1>5. QED  BY <1>4 DEF Once

\* A place y loses its first serial, and a place x gets that one or one above
\* all others.
GetsFrom(S, n, m, H, x, y, v, G) ==
    /\ n \in Nat /\ m \in Nat /\ n <= m
    /\ H \in [S -> Seq(1 .. n)] /\ Once(S, H)
    /\ x \in S /\ y \in S /\ x # y /\ H[y] # <<>>
    /\ v \in 1 .. m /\ (v = Head(H[y]) \/ v > n)
    /\ \A h \in S \ {x, y} : G[h] = H[h]
    /\ G[x] = Append(H[x], v) /\ G[y] = Tail(H[y])

LEMMA TakenOnce ==
    ASSUME NEW S, NEW n, NEW m, NEW H, NEW x, NEW y, NEW v, NEW G,
           GetsFrom(S, n, m, H, x, y, v, G)
    PROVE  Once(S, G)
<1> DEFINE Kept(h, i) == h # y /\ i \in DOMAIN H[h] /\ G[h][i] = H[h][i] /\ G[h][i] \in 1 .. n
           Left(h, i) == /\ h = y /\ i \in Nat \ {0} /\ i + 1 \in DOMAIN H[h]
                         /\ G[h][i] = H[h][i + 1] /\ G[h][i] \in 1 .. n
           New(h, i) == h = x /\ i = Len(H[x]) + 1 /\ G[h][i] = v
<1> USE DEF GetsFrom
<1>1. \A h \in S : H[h] \in Seq(1 .. n)
  OBVIOUS
<1>3. ASSUME NEW h \in S, NEW i \in DOMAIN G[h]
      PROVE  Kept(h, i) \/ Left(h, i) \/ New(h, i)
  <2>1. H[h] \in Seq(1 .. n)
    BY <1>1
  <2>2. CASE h = x
    <3>1. i \in DOMAIN Append(H[h], v) /\ G[h] = Append(H[h], v)
      BY <2>2
    <3>2. \/ i \in DOMAIN H[h] /\ Append(H[h], v)[i] = H[h][i]
          \/ i = Len(H[h]) + 1 /\ Append(H[h], v)[i] = v
      BY <2>1, <3>1, Longer
    <3>3. i \in DOMAIN H[h] => H[h][i] \in 1 .. n
      BY <2>1, InRange
    <3>4. QED  BY <2>2, <3>1, <3>2, <3>3
  <2>3. CASE h = y
    <3>1. i \in DOMAIN Tail(H[h]) /\ H[h] # <<>>
      BY <2>3
    <3>2. i \in Nat \ {0} /\ i + 1 \in DOMAIN H[h] /\ Tail(H[h])[i] = H[h][i + 1]
      BY <3>1, <2>1, Shorter
    <3>3. H[h][i + 1] \in 1 .. n
      BY <3>2, <2>1, InRange
    <3>4. QED  BY <2>3, <3>2, <3>3
  <2>4. CASE h # x /\ h # y
    BY <2>1, <2>4, InRange
  <2>5. QED  BY <2>2, <2>3, <2>4
<1>4. v > n \/ (v = H[y][1] /\ 1 \in DOMAIN H[y])
  BY <1>1, Shorter
<1>5. ASSUME NEW h \in S, NEW k \in S, NEW i \in DOMAIN G[h], NEW j \in DOMAIN G[k],
             G[h][i] = G[k][j]
      PROVE  h = k /\ i = j
  <2>1. /\ Kept(h, i) \/ Left(h, i) \/ New(h, i)
        /\ Kept(k, j) \/ Left(k, j) \/ New(k, j)
    BY <1>3
  <2>2. CASE Kept(h, i) /\ Kept(k, j)
    <3>1. i \in DOMAIN H[h] /\ j \in DOMAIN H[k] /\ H[h][i] = H[k][j]
      BY <2>2, <1>5
    <3>2. QED  BY <3>1 DEF Once
  <2>3. CASE Kept(h, i) /\ Left(k, j)
    <3>1. i \in DOMAIN H[h] /\ j + 1 \in DOMAIN H[k] /\ H[h][i] = H[k][j + 1] /\ h # k
      BY <2>3, <1>5
    <3>2. QED  BY <3>1 DEF Once
  <2>4. CASE Left(h, i) /\ Kept(k, j)
    <3>1. i + 1 \in DOMAIN H[h] /\ j \in DOMAIN H[k] /\ H[h][i + 1] = H[k][j] /\ h # k
      BY <2>4, <1>5
    <3>2. QED  BY <3>1 DEF Once
  <2>5. CASE Left(h, i) /\ Left(k, j)
    <3>1. i + 1 \in DOMAIN H[h] /\ j + 1 \in DOMAIN H[k] /\ H[h][i + 1] = H[k][j + 1]
      BY <2>5, <1>5
    <3>2. h = k /\ i + 1 = j + 1
      BY <3>1 DEF Once
    <3>3. QED  BY <3>2, <2>5
  <2>6. CASE Kept(h, i) /\ New(k, j)
    <3>1. i \in DOMAIN H[h] /\ 1 \in DOMAIN H[y] /\ H[h][i] = H[y][1] /\ h # y
      BY <2>6, <1>4, <1>5
    <3>2. QED  BY <3>1 DEF Once
  <2>7. CASE New(h, i) /\ Kept(k, j)
    <3>1. j \in DOMAIN H[k] /\ 1 \in DOMAIN H[y] /\ H[k][j] = H[y][1] /\ k # y
      BY <2>7, <1>4, <1>5
    <3>2. QED  BY <3>1 DEF Once
  <2>8. CASE Left(h, i) /\ New(k, j)
    <3>1. i + 1 \in DOMAIN H[y] /\ 1 \in DOMAIN H[y] /\ H[y][i + 1] = H[y][1]
      BY <2>8, <1>4, <1>5
    <3>2. i + 1 = 1
      BY <3>1 DEF Once
    <3>3. QED  BY <3>2, <2>8
  <2>9. CASE New(h, i) /\ Left(k, j)
    <3>1. j + 1 \in DOMAIN H[y] /\ 1 \in DOMAIN H[y] /\ H[y][j + 1] = H[y][1]
      BY <2>9, <1>4, <1>5
    <3>2. j + 1 = 1
      BY <3>1 DEF Once
    <3>3. QED  BY <3>2, <2>9
  <2>10. CASE New(h, i) /\ New(k, j)
    BY <2>10
  <2>11. QED
    BY <2>1, <2>2, <2>3, <2>4, <2>5, <2>6, <2>7, <2>8, <2>9, <2>10
<1>6. QED  BY <1>5 DEF Once
-----------------------------------------------------------------------------
(* The order in which the pools are filled.                                 *)

Order == SetToSeq(Pooled)

Turn(t) == CHOOSE i \in DOMAIN Order : Order[i] = t

LEMMA PooledIsFinite == IsFiniteSet(Pooled)
<1>1. ASSUME NEW a, NEW b
      PROVE  IsFiniteSet({a, b})
  <2>1. {a, b} = {a} \cup {b}
    OBVIOUS
  <2>2. IsFiniteSet({a}) /\ IsFiniteSet({b})
    BY FS_Singleton
  <2>3. IsFiniteSet({a} \cup {b})
    BY <2>2, FS_Union
  <2>4. QED  BY <2>1, <2>3
<1>2. IsFiniteSet({"CURVE", "CURVE_V2"} \cup {"CURVE_V3", "SLIDER"})
  BY <1>1, FS_Union
<1>3. IsFiniteSet({"SLIDER_V2", "GESTURE"} \cup {"ROTATE", "CONCAT"})
  BY <1>1, FS_Union
<1>4. IsFiniteSet({"ROTATE_DEGREE", "WORD_IMAGE_CLICK"} \cup {"IMAGE_CLICK", "JIGSAW"})
  BY <1>1, FS_Union
<1> DEFINE A == {"CURVE", "CURVE_V2"} \cup {"CURVE_V3", "SLIDER"}
           B == {"SLIDER_V2", "GESTURE"} \cup {"ROTATE", "CONCAT"}
           C == {"ROTATE_DEGREE", "WORD_IMAGE_CLICK"} \cup {"IMAGE_CLICK", "JIGSAW"}
           D == {"GRID_IMAGE_CLICK"}
<1>5. IsFiniteSet((A \cup B) \cup (C \cup D))
  <2>1. IsFiniteSet(A) /\ IsFiniteSet(B) /\ IsFiniteSet(C) /\ IsFiniteSet(D)
    BY <1>2, <1>3, <1>4, FS_Singleton
  <2> HIDE DEF A, B, C, D
  <2>2. IsFiniteSet(A \cup B) /\ IsFiniteSet(C \cup D)
    BY <2>1, FS_Union
  <2>3. QED  BY <2>2, FS_Union
<1>6. Concrete = (A \cup B) \cup (C \cup D)
  BY DEF Concrete, Curves, Sliders, WordClick, GridClick
<1>7. IsFiniteSet(Concrete)
  <2> HIDE DEF A, B, C, D
  <2>1. QED  BY <1>5, <1>6
<1>8. Pooled \in SUBSET Concrete
  BY EngineAssumption DEF EngineAssumption
<1>9. QED  BY <1>7, <1>8, FS_Subset

\* Every pool has a turn of its own.
LEMMA Turns ==
    /\ Cardinality(Pooled) \in Nat
    /\ \A t \in Pooled : Turn(t) \in 1 .. Cardinality(Pooled)
    /\ \A t, u \in Pooled : Turn(t) = Turn(u) => t = u
<1> DEFINE n == Cardinality(Pooled)
<1>1. n \in Nat /\ ExistsBijection(1 .. n, Pooled)
  BY PooledIsFinite, FS_CardinalityType
<1>2. \E f \in [1 .. n -> Pooled] : IsInjective(f)
  BY <1>1 DEF ExistsBijection, Bijection, Injection
<1>3. Order \in [1 .. n -> Pooled] /\ IsInjective(Order)
  BY <1>2 DEF Order, SetToSeq
<1>4. Order \in Injection(1 .. n, Pooled)
  BY <1>3 DEF Injection
<1>5. IsFiniteSet(1 .. n) /\ Cardinality(1 .. n) = n
  BY <1>1, FS_Interval
<1>6. Order \in Surjection(1 .. n, Pooled)
  BY <1>4, <1>5, PooledIsFinite, FS_Injection
<1>7. \A t \in Pooled : \E i \in 1 .. n : Order[i] = t
  BY <1>6 DEF Surjection
<1>8. DOMAIN Order = 1 .. n
  BY <1>3
<1>9. \A t \in Pooled : Turn(t) \in 1 .. n /\ Order[Turn(t)] = t
  BY <1>7, <1>8 DEF Turn
<1>10. QED  BY <1>1, <1>9

\* Blocks of numbers of the same size, one after the other, do not meet.
SameNumber(size, a, b, i, j) ==
    /\ size \in Nat /\ a \in Nat /\ b \in Nat
    /\ i \in 1 .. size /\ j \in 1 .. size
    /\ size * a + i = size * b + j

LEMMA Blocks ==
    ASSUME NEW size, NEW a, NEW b, NEW i, NEW j, SameNumber(size, a, b, i, j)
    PROVE  a = b /\ i = j
<1> USE DEF SameNumber
<1>1. \A p, q \in Nat : p < q => size * q >= size * p + size
  <2>1. SUFFICES ASSUME NEW p \in Nat, NEW q \in Nat, p < q
                 PROVE  size * q >= size * p + size
    OBVIOUS
  <2>2. PICK d \in Nat : q = p + 1 + d
    <3>1. q - p - 1 \in Nat /\ q = p + 1 + (q - p - 1)
      BY <2>1
    <3>2. QED  BY <3>1
  <2>3. size * q = size * p + size + size * d
    BY <2>2
  <2>4. size * d \in Nat /\ size * p \in Nat
    OBVIOUS
  <2>5. QED  BY <2>3, <2>4
<1>2. size * a \in Nat /\ size * b \in Nat
  OBVIOUS
<1>3. ~(a < b) /\ ~(b < a)
  BY <1>1, <1>2
<1>4. a = b
  BY <1>3
<1>5. QED  BY <1>2, <1>4

LEMMA BlocksFit ==
    ASSUME NEW size \in Nat, NEW n \in Nat, NEW a \in 1 .. n, NEW i \in 1 .. size
    PROVE  size * (a - 1) + i \in 1 .. size * n
<1>1. PICK d \in Nat : n = a + d
  <2>1. n - a \in Nat /\ n = a + (n - a)
    OBVIOUS
  <2>2. QED  BY <2>1
<1>2. size * n = size * (a - 1) + size + size * d
  BY <1>1
<1>3. size * d \in Nat /\ size * (a - 1) \in Nat
  OBVIOUS
<1>4. QED  BY <1>2, <1>3
-----------------------------------------------------------------------------
(* The inductive invariant.                                                 *)

Stages == {"asked", "chosen", "drawing", "shown"}

\* What the variables are, sessions and challenges left open where nothing
\* depends on them.
Shapes ==
    /\ setup \in Setups /\ list \in setup.lists /\ world \in setup.worlds
    /\ edits \in 0 .. MaxEdits /\ made \in Nat /\ warm \in BOOLEAN
    /\ pool \in [Pooled -> Seq(1 .. made)]
    /\ hand \in [Pooled -> 0 .. made]
    /\ stage \in [Requests -> Stages]
    /\ session = [r \in Requests |-> session[r]]
    /\ \A r \in Requests : /\ DOMAIN session[r] = DOMAIN Unserved
                           /\ session[r].serials \in Seq(1 .. made)

PoolsBounded == \A t \in Pooled : Len(pool[t]) <= PoolSize

\* A session has the type that was settled on, and challenges of that type.
SessionsTyped ==
    \A r \in Requests :
        /\ stage[r] # "asked" => session[r].type \in Concrete
        /\ stage[r] \in {"drawing", "shown"} => session[r].challenge.type = session[r].type

\* Nothing happens before the pools were filled.
NothingYet ==
    warm = FALSE =>
        /\ made = 0
        /\ \A t \in Pooled : hand[t] = 0
        /\ \A r \in Requests : stage[r] = "asked" /\ session[r].serials = <<>>

IInv == Shapes /\ PoolsBounded /\ SessionsTyped /\ NothingYet /\ EachChallengeOnce

-----------------------------------------------------------------------------
(* The holders.                                                             *)

InHand(n) == IF n = 0 THEN <<>> ELSE <<n>>

LEMMA InHandIs ==
    /\ InHand(0) = <<>>
    /\ \A n : n # 0 => InHand(n) = <<n>>
BY DEF InHand

HeldOf(ses, po, ha) ==
    [h \in Holders |->
        IF h[1] = "session" THEN ses[h[2]].serials
        ELSE IF h[1] = "pool" THEN po[h[2]] ELSE InHand(ha[h[2]])]

LEMMA HeldIs ==
    /\ Held = HeldOf(session, pool, hand)
    /\ Held' = HeldOf(session', pool', hand')
BY DEF Held, HeldOf, Holders, InHand

LEMMA HeldAt ==
    ASSUME NEW ses, NEW po, NEW ha
    PROVE  /\ \A r \in Requests : HeldOf(ses, po, ha)[<<"session", r>>] = ses[r].serials
           /\ \A t \in Pooled : HeldOf(ses, po, ha)[<<"pool", t>>] = po[t]
           /\ \A t \in Pooled : HeldOf(ses, po, ha)[<<"hand", t>>] = InHand(ha[t])
BY DEF HeldOf, Holders

LEMMA PoolAfter ==
    ASSUME NEW t \in Pooled
    PROVE  HeldOf(session', pool', hand')[<<"pool", t>>] = pool'[t]
BY HeldAt

LEMMA HoldersAre ==
    /\ \A r \in Requests : <<"session", r>> \in Holders
    /\ \A t \in Pooled : <<"pool", t>> \in Holders /\ <<"hand", t>> \in Holders
    /\ \A h \in Holders : \/ \E r \in Requests : h = <<"session", r>>
                          \/ \E t \in Pooled : h = <<"pool", t>>
                          \/ \E t \in Pooled : h = <<"hand", t>>
BY DEF Holders

\* What was said of places that hold serials, said of the state.
LEMMA OnceIs ==
    /\ EachChallengeOnce <=> Once(Holders, HeldOf(session, pool, hand))
    /\ EachChallengeOnce' <=> Once(Holders, HeldOf(session', pool', hand'))
<1>1. EachChallengeOnce <=> Once(Holders, Held)
  BY DEF EachChallengeOnce, Once
<1>2. EachChallengeOnce' <=> Once(Holders, Held')
  BY DEF EachChallengeOnce, Once, Holders
<1>3. QED  BY <1>1, <1>2, HeldIs

LEMMA FunctionInto ==
    ASSUME NEW S, NEW T, NEW f, f = [x \in S |-> f[x]], \A x \in S : f[x] \in T
    PROVE  f \in [S -> T]
OBVIOUS

LEMMA EmptySerials == \A n \in Nat : <<>> \in Seq(1 .. n)
OBVIOUS

LEMMA HeldTyped ==
    ASSUME NEW n \in Nat, NEW ses, NEW po \in [Pooled -> Seq(1 .. n)],
           NEW ha \in [Pooled -> 0 .. n],
           \A r \in Requests : ses[r].serials \in Seq(1 .. n)
    PROVE  HeldOf(ses, po, ha) \in [Holders -> Seq(1 .. n)]
<1>1. ASSUME NEW h \in Holders
      PROVE  HeldOf(ses, po, ha)[h] \in Seq(1 .. n)
  <2>1. CASE \E r \in Requests : h = <<"session", r>>
    BY <2>1, HeldAt
  <2>2. CASE \E t \in Pooled : h = <<"pool", t>>
    BY <2>2, HeldAt
  <2>3. CASE \E t \in Pooled : h = <<"hand", t>>
    <3>1. PICK t \in Pooled : h = <<"hand", t>>
      BY <2>3
    <3>2. HeldOf(ses, po, ha)[h] = InHand(ha[t])
      BY <3>1, HeldAt
    <3>3. ASSUME NEW v \in 1 .. n
          PROVE  <<v>> \in Seq(1 .. n)
      OBVIOUS
    <3>4. CASE ha[t] = 0
      BY <3>2, <3>4, InHandIs, EmptySerials
    <3>5. CASE ha[t] # 0
      <4>1. ha[t] \in 1 .. n
        BY <3>5
      <4>2. QED  BY <3>2, <3>3, <3>5, <4>1, InHandIs
    <3>6. QED  BY <3>4, <3>5
  <2>4. QED  BY <2>1, <2>2, <2>3, HoldersAre
<1>2. HeldOf(ses, po, ha) = [h \in Holders |-> HeldOf(ses, po, ha)[h]]
  BY DEF HeldOf
<1>3. \A h \in Holders : HeldOf(ses, po, ha)[h] \in Seq(1 .. n)
  BY <1>1
<1>4. QED  BY <1>2, <1>3, FunctionInto
\* Only the holders in E have got or lost something.
SameBut(E, ses, po, ha, ses2, po2, ha2) ==
    /\ \A r \in Requests : <<"session", r>> \in E \/ ses2[r].serials = ses[r].serials
    /\ \A t \in Pooled : <<"pool", t>> \in E \/ po2[t] = po[t]
    /\ \A t \in Pooled : <<"hand", t>> \in E \/ ha2[t] = ha[t]

LEMMA HeldSame ==
    ASSUME NEW E, NEW ses, NEW po, NEW ha, NEW ses2, NEW po2, NEW ha2,
           SameBut(E, ses, po, ha, ses2, po2, ha2)
    PROVE  \A h \in Holders \ E : HeldOf(ses2, po2, ha2)[h] = HeldOf(ses, po, ha)[h]
<1> USE DEF SameBut
<1>1. ASSUME NEW h \in Holders \ E
      PROVE  HeldOf(ses2, po2, ha2)[h] = HeldOf(ses, po, ha)[h]
  <2>1. CASE \E r \in Requests : h = <<"session", r>>
    BY <2>1, HeldAt
  <2>2. CASE \E t \in Pooled : h = <<"pool", t>>
    BY <2>2, HeldAt
  <2>3. CASE \E t \in Pooled : h = <<"hand", t>>
    BY <2>3, HeldAt
  <2>4. QED  BY <2>1, <2>2, <2>3, HoldersAre
<1>2. QED  BY <1>1

LEMMA HeldNow ==
    ASSUME Shapes
    PROVE  HeldOf(session, pool, hand) \in [Holders -> Seq(1 .. made)]
BY HeldTyped DEF Shapes

LEMMA WiderPools ==
    ASSUME NEW n \in Nat, NEW m \in Nat, n <= m, NEW f \in [Pooled -> Seq(1 .. n)]
    PROVE  f \in [Pooled -> Seq(1 .. m)]
<1>1. \A t \in Pooled : f[t] \in Seq(1 .. n)
  OBVIOUS
<1>2. \A t \in Pooled : f[t] \in Seq(1 .. m)
  BY <1>1, WiderSeq
<1>3. f = [t \in Pooled |-> f[t]]
  OBVIOUS
<1>4. QED  BY <1>2, <1>3, FunctionInto

-----------------------------------------------------------------------------
(* The first state, and steps of the pools.                                 *)

LEMMA InitInv == Init => IInv
<1> SUFFICES ASSUME Init  PROVE IInv
  OBVIOUS
<1>1. \A r \in Requests : session[r] = Unserved /\ session[r].serials = <<>>
  BY DEF Init, Unserved
<1>2. Shapes
  <2>1. made = 0 /\ made \in Nat
    BY DEF Init
  <2>2. pool \in [Pooled -> Seq(1 .. made)]
    BY <2>1, EmptySerials DEF Init
  <2>3. hand \in [Pooled -> 0 .. made]
    BY <2>1 DEF Init
  <2>4. session = [r \in Requests |-> session[r]]
    BY DEF Init
  <2>5. \A r \in Requests : /\ DOMAIN session[r] = DOMAIN Unserved
                            /\ session[r].serials \in Seq(1 .. made)
    BY <1>1, <2>1, EmptySerials
  <2>6. stage \in [Requests -> Stages]
    BY DEF Init, Stages
  <2>7. edits \in 0 .. MaxEdits
    BY EngineAssumption DEF Init, EngineAssumption
  <2>8. QED  BY <2>1, <2>2, <2>3, <2>4, <2>5, <2>6, <2>7 DEF Init, Shapes
<1>3. PoolsBounded
  BY EngineAssumption DEF Init, PoolsBounded, EngineAssumption
<1>4. SessionsTyped
  BY DEF Init, SessionsTyped
<1>5. NothingYet
  BY <1>1 DEF Init, NothingYet
<1>6. \A h \in Holders : HeldOf(session, pool, hand)[h] = <<>>
  <2>1. \A t \in Pooled : pool[t] = <<>> /\ hand[t] = 0 /\ InHand(hand[t]) = <<>>
    BY InHandIs DEF Init
  <2>2. QED  BY <1>1, <2>1, HeldAt, HoldersAre
<1>7. Once(Holders, HeldOf(session, pool, hand))
  BY <1>6 DEF Once
<1>8. QED  BY <1>2, <1>3, <1>4, <1>5, <1>7, OnceIs DEF IInv

LEMMA FillerMakesKeepsInv ==
    ASSUME IInv, NEW t \in Pooled, FillerMakes(t)
    PROVE  IInv'
<1> USE DEF IInv
<1>1. made \in Nat /\ made' = made + 1 /\ made' \in Nat /\ made <= made' /\ made' > made
  BY DEF Shapes, FillerMakes
<1>2. hand' = [hand EXCEPT ![t] = made']
  BY <1>1 DEF FillerMakes
<1>3. hand \in [Pooled -> 0 .. made] /\ hand[t] = 0
  BY DEF Shapes, FillerMakes
<1>4. Shapes'
  <2>1. pool' \in [Pooled -> Seq(1 .. made')]
    BY <1>1, WiderPools DEF Shapes, FillerMakes
  <2>2. hand' \in [Pooled -> 0 .. made']
    BY <1>1, <1>2, <1>3
  <2>3. \A r \in Requests : session'[r].serials \in Seq(1 .. made')
    BY <1>1, WiderSeq DEF Shapes, FillerMakes
  <2>4. QED  BY <1>1, <2>1, <2>2, <2>3 DEF Shapes, FillerMakes
<1>5. PoolsBounded'
  BY DEF PoolsBounded, FillerMakes
<1>6. SessionsTyped'
  BY DEF SessionsTyped, FillerMakes
<1>7. NothingYet'
  BY DEF NothingYet, FillerMakes
<1>8. EachChallengeOnce'
  <2> DEFINE H == HeldOf(session, pool, hand)
             G == HeldOf(session', pool', hand')
             x == <<"hand", t>>
  <2>1. H \in [Holders -> Seq(1 .. made)] /\ Once(Holders, H)
    BY HeldNow, OnceIs
  <2>2. x \in Holders
    BY HoldersAre
  <2>3. \A u \in Pooled \ {t} : hand'[u] = hand[u]
    BY <1>2, <1>3
  <2>4. session' = session /\ pool' = pool
    BY DEF FillerMakes
  <2>5. \A h \in Holders \ {x} : G[h] = H[h]
    <3>1. \A r \in Requests : session'[r].serials = session[r].serials
      BY <2>4
    <3>2. \A u \in Pooled : pool'[u] = pool[u] /\ (<<"hand", u>> \in {x} \/ hand'[u] = hand[u])
      BY <2>3, <2>4
    <3>3. SameBut({x}, session, pool, hand, session', pool', hand')
      BY <3>1, <3>2 DEF SameBut
    <3>4. QED  BY <3>3, HeldSame
  <2>6. H[x] = <<>> /\ G[x] = <<made'>>
    <3>1. hand'[t] = made' /\ made' # 0
      BY <1>1, <1>2, <1>3
    <3>2. InHand(hand[t]) = <<>> /\ InHand(hand'[t]) = <<made'>>
      BY <1>3, <3>1, InHandIs
    <3>3. QED  BY <3>2, HeldAt
  <2>7. G[x] = Append(H[x], made')
    BY <2>6, <1>1
  <2>8. made' \in 1 .. made'
    BY <1>1
  <2> HIDE DEF H, G, x
  <2>9. GetsNew(Holders, made, made', H, x, made', G)
    BY <1>1, <2>1, <2>2, <2>5, <2>7, <2>8 DEF GetsNew
  <2>10. Once(Holders, G)
    BY <2>9, MadeOnce
  <2>11. QED  BY <2>10, OnceIs DEF G
<1>9. QED  BY <1>4, <1>5, <1>6, <1>7, <1>8

LEMMA FillerSendsKeepsInv ==
    ASSUME IInv, NEW t \in Pooled, FillerSends(t)
    PROVE  IInv'
<1> USE DEF IInv
<1>1. made \in Nat /\ made' = made /\ hand \in [Pooled -> 0 .. made]
      /\ pool \in [Pooled -> Seq(1 .. made)]
  BY DEF Shapes, FillerSends
<1>2. /\ pool' = [pool EXCEPT ![t] = Append(pool[t], hand[t])]
      /\ hand' = [hand EXCEPT ![t] = 0]
      /\ hand[t] # 0 /\ Len(pool[t]) < PoolSize /\ session' = session
  BY DEF FillerSends, Room
<1>3. hand[t] \in 1 .. made
  BY <1>1, <1>2
<1>4. Append(pool[t], hand[t]) \in Seq(1 .. made) /\ Len(Append(pool[t], hand[t])) = Len(pool[t]) + 1
  BY <1>1, <1>3
<1>5. Shapes'
  <2>1. pool' \in [Pooled -> Seq(1 .. made')]
    BY <1>1, <1>2, <1>4
  <2>2. hand' \in [Pooled -> 0 .. made']
    BY <1>1, <1>2
  <2>3. QED  BY <1>1, <2>1, <2>2 DEF Shapes, FillerSends
<1>6. PoolsBounded'
  <2>1. ASSUME NEW u \in Pooled
        PROVE  Len(pool'[u]) <= PoolSize
    <3>1. CASE u = t
      <4>1. pool'[u] = Append(pool[t], hand[t])
        BY <3>1, <1>1, <1>2
      <4>2. Len(pool[t]) \in Nat /\ PoolSize \in Nat
        BY <1>1, EngineAssumption DEF EngineAssumption
      <4>3. QED  BY <4>1, <4>2, <1>2, <1>4
    <3>2. CASE u # t
      BY <3>2, <1>1, <1>2 DEF PoolsBounded
    <3>3. QED  BY <3>1, <3>2
  <2>2. QED  BY <2>1 DEF PoolsBounded
<1>7. SessionsTyped'
  BY DEF SessionsTyped, FillerSends
<1>8. NothingYet'
  BY <1>2 DEF NothingYet, FillerSends
<1>9. EachChallengeOnce'
  <2> DEFINE H == HeldOf(session, pool, hand)
             G == HeldOf(session', pool', hand')
             x == <<"pool", t>>
             y == <<"hand", t>>
             v == hand[t]
  <2>1. H \in [Holders -> Seq(1 .. made)] /\ Once(Holders, H)
    BY HeldNow, OnceIs
  <2>2. x \in Holders /\ y \in Holders /\ x # y
    BY HoldersAre
  <2>3. \A u \in Pooled \ {t} : hand'[u] = hand[u] /\ pool'[u] = pool[u]
    BY <1>1, <1>2
  <2>4. \A h \in Holders \ {x, y} : G[h] = H[h]
    <3>1. \A r \in Requests : session'[r].serials = session[r].serials
      BY <1>2
    <3>2. \A u \in Pooled : /\ <<"pool", u>> \in {x, y} \/ pool'[u] = pool[u]
                            /\ <<"hand", u>> \in {x, y} \/ hand'[u] = hand[u]
      BY <2>3
    <3>3. SameBut({x, y}, session, pool, hand, session', pool', hand')
      BY <3>1, <3>2 DEF SameBut
    <3>4. QED  BY <3>3, HeldSame
  <2>5. H[x] = pool[t] /\ G[x] = Append(pool[t], hand[t])
    <3>1. pool'[t] = Append(pool[t], hand[t])
      BY <1>1, <1>2
    <3>2. QED  BY <3>1, HeldAt
  <2>6. H[y] = <<hand[t]>> /\ G[y] = <<>>
    <3>1. hand'[t] = 0
      BY <1>1, <1>2
    <3>2. InHand(hand[t]) = <<hand[t]>> /\ InHand(hand'[t]) = <<>>
      BY <1>2, <3>1, InHandIs
    <3>3. QED  BY <3>2, HeldAt
  <2>7. G[x] = Append(H[x], v) /\ G[y] = Tail(H[y]) /\ v = Head(H[y]) /\ H[y] # <<>>
    BY <2>5, <2>6
  <2>8. v \in 1 .. made
    BY <1>3
  <2>9. made <= made
    BY <1>1
  <2> HIDE DEF H, G, x, y, v
  <2>10. GetsFrom(Holders, made, made, H, x, y, v, G)
    BY <1>1, <2>1, <2>2, <2>4, <2>7, <2>8, <2>9 DEF GetsFrom
  <2>11. Once(Holders, G)
    BY <2>10, TakenOnce
  <2>12. QED  BY <2>11, OnceIs DEF G
<1>10. QED  BY <1>5, <1>6, <1>7, <1>8, <1>9

-----------------------------------------------------------------------------
(* The pools are filled for the first time.                                 *)

Block(t) == [i \in 1 .. PoolSize |-> PoolSize * (Turn(t) - 1) + i]

LEMMA WarmKeepsInv ==
    ASSUME IInv, Warm
    PROVE  IInv'
<1> USE DEF IInv
<1> DEFINE n == Cardinality(Pooled)
<1>1. /\ pool' = [t \in Pooled |-> Block(t)]
      /\ made' = PoolSize * n
  BY DEF Warm, Block, Turn, Order
<1>2. n \in Nat /\ PoolSize \in Nat /\ made' \in Nat
  BY <1>1, Turns, EngineAssumption DEF EngineAssumption
<1>3. /\ warm = FALSE /\ warm' = TRUE /\ hand' = hand /\ stage' = stage /\ session' = session
      /\ setup' = setup /\ list' = list /\ world' = world /\ edits' = edits
  BY DEF Warm, Shapes
<1>4. /\ made = 0 /\ \A t \in Pooled : hand[t] = 0
      /\ \A r \in Requests : stage[r] = "asked" /\ session[r].serials = <<>>
  BY <1>3 DEF NothingYet
<1> HIDE DEF n
<1>5. ASSUME NEW t \in Pooled
      PROVE  /\ Block(t) \in Seq(1 .. made') /\ Len(Block(t)) = PoolSize
             /\ DOMAIN Block(t) = 1 .. PoolSize
  <2>1. Turn(t) \in 1 .. n
    BY Turns DEF n
  <2>2. \A i \in 1 .. PoolSize : PoolSize * (Turn(t) - 1) + i \in 1 .. made'
    BY <1>1, <1>2, <2>1, BlocksFit
  <2> DEFINE e(i) == PoolSize * (Turn(t) - 1) + i
  <2>3. Block(t) = [i \in 1 .. PoolSize |-> e(i)] /\ \A i \in 1 .. PoolSize : e(i) \in 1 .. made'
    BY <2>2 DEF Block
  <2> HIDE DEF e
  <2>4. QED  BY <1>2, <2>3
<1>6. Shapes'
  <2>1. \A t \in Pooled : pool'[t] = Block(t) /\ pool'[t] \in Seq(1 .. made')
    BY <1>1, <1>5
  <2>2. pool' = [t \in Pooled |-> pool'[t]]
    BY <1>1
  <2>3. pool' \in [Pooled -> Seq(1 .. made')]
    BY <2>1, <2>2, FunctionInto
  <2>4. hand' \in [Pooled -> 0 .. made']
    BY <1>2, <1>3, <1>4 DEF Shapes
  <2>5. \A r \in Requests : session'[r].serials \in Seq(1 .. made')
    BY <1>2, <1>3, <1>4, EmptySerials
  <2>6. QED  BY <1>2, <1>3, <2>3, <2>4, <2>5 DEF Shapes
<1>7. PoolsBounded'
  BY <1>1, <1>2, <1>5 DEF PoolsBounded
<1>8. SessionsTyped'
  BY <1>3 DEF SessionsTyped
<1>9. NothingYet'
  BY <1>3 DEF NothingYet
<1>10. EachChallengeOnce'
  <2> DEFINE G == HeldOf(session', pool', hand')
  <2>1. ASSUME NEW r \in Requests
        PROVE  G[<<"session", r>>] = <<>>
    <3>1. session'[r].serials = <<>>
      BY <1>3, <1>4
    <3>2. QED  BY <3>1, HeldAt
  <2>2. ASSUME NEW t \in Pooled
        PROVE  G[<<"hand", t>>] = <<>>
    <3>1. hand'[t] = 0
      BY <1>3, <1>4
    <3>2. InHand(hand'[t]) = <<>>
      BY <3>1, InHandIs
    <3>3. QED  BY <3>2, HeldAt
  <2>3. ASSUME NEW t \in Pooled
        PROVE  G[<<"pool", t>>] = Block(t)
    <3>1. pool'[t] = Block(t)
      BY <1>1
    <3>2. QED  BY <3>1, HeldAt
  <2> HIDE DEF G
  <2>4. ASSUME NEW h \in Holders, NEW k \in Holders, NEW i \in DOMAIN G[h], NEW j \in DOMAIN G[k],
               G[h][i] = G[k][j]
        PROVE  h = k /\ i = j
    <3>1. PICK t \in Pooled : h = <<"pool", t>>
      BY <2>1, <2>2, <2>4, HoldersAre
    <3>2. PICK u \in Pooled : k = <<"pool", u>>
      BY <2>1, <2>2, <2>4, HoldersAre
    <3>3. G[h] = Block(t) /\ G[k] = Block(u)
      BY <2>3, <3>1, <3>2
    <3>4. i \in 1 .. PoolSize /\ j \in 1 .. PoolSize
      BY <3>3, <1>5, <2>4
    <3>5. PoolSize * (Turn(t) - 1) + i = PoolSize * (Turn(u) - 1) + j
      BY <2>4, <3>3, <3>4 DEF Block
    <3>6. Turn(t) - 1 \in Nat /\ Turn(u) - 1 \in Nat
      BY <1>2, Turns DEF n
    <3>7. SameNumber(PoolSize, Turn(t) - 1, Turn(u) - 1, i, j)
      BY <1>2, <3>4, <3>5, <3>6 DEF SameNumber
    <3>8. Turn(t) - 1 = Turn(u) - 1 /\ i = j
      BY <3>7, Blocks
    <3>9. t = u
      BY <3>8, <1>2, Turns
    <3>10. QED  BY <3>1, <3>2, <3>8, <3>9
  <2>5. Once(Holders, G)
    BY <2>4 DEF Once
  <2>6. QED  BY <2>5, OnceIs DEF G
<1>11. QED  BY <1>6, <1>7, <1>8, <1>9, <1>10

-----------------------------------------------------------------------------
(* A session gets a challenge.                                              *)

Given(f, r, c, v) ==
    f = [session EXCEPT ![r].challenge = c, ![r].serials = Append(@, v)]

LEMMA SessionGets ==
    ASSUME Shapes, NEW r \in Requests, NEW c, NEW v, NEW f, Given(f, r, c, v)
    PROVE  /\ f = [q \in Requests |-> f[q]]
           /\ \A q \in Requests \ {r} : f[q] = session[q]
           /\ f[r].challenge = c /\ f[r].type = session[r].type
           /\ f[r].serials = Append(session[r].serials, v)
           /\ DOMAIN f[r] = DOMAIN Unserved
<1>1. session = [q \in Requests |-> session[q]] /\ DOMAIN session[r] = DOMAIN Unserved
  BY DEF Shapes
<1> DEFINE one == [session[r] EXCEPT !.challenge = c]
           two == [one EXCEPT !.serials = Append(one.serials, v)]
<1>2. f = [session EXCEPT ![r] = two]
  BY <1>1 DEF Given
<1>3. f = [q \in Requests |-> f[q]] /\ f[r] = two /\ \A q \in Requests \ {r} : f[q] = session[q]
  BY <1>1, <1>2
<1>4. DOMAIN session[r] = {"type", "read", "serials", "challenge", "view", "drawnFrom", "drawnIn"}
  BY <1>1 DEF Unserved
<1>5. /\ one.challenge = c /\ one.type = session[r].type /\ one.serials = session[r].serials
      /\ DOMAIN one = DOMAIN session[r]
  BY <1>4
<1>6. /\ two.challenge = one.challenge /\ two.type = one.type
      /\ two.serials = Append(one.serials, v) /\ DOMAIN two = DOMAIN one
  <2> HIDE DEF one
  <2>1. QED  BY <1>4, <1>5
<1>7. QED  BY <1>1, <1>3, <1>5, <1>6

\* The pools and the numbers after a session got a challenge.
LEMMA TakenFacts ==
    ASSUME NEW r \in Requests, NEW c, NEW more \in Nat, made \in Nat, Taken(r, c, more)
    PROVE  LET t == session[r].type IN
           /\ hand' = hand
           /\ \/ /\ t \in Pooled /\ pool[t] # <<>>
                 /\ pool' = [pool EXCEPT ![t] = Tail(pool[t])] /\ made' = made + more
                 /\ Given(session', r, c, IF more = 0 THEN Head(pool[t]) ELSE made')
              \/ /\ pool' = pool /\ made' = made + 1 + more
                 /\ Given(session', r, c, made')
<1> DEFINE t == session[r].type
<1>1. hand' = hand
  BY DEF Taken
<1>2. CASE t \in Pooled /\ pool[t] # <<>>
  <2>1. TakeChallenge(t) = [serial |-> Head(pool[t]), pool |-> [pool EXCEPT ![t] = Tail(@)],
                            made |-> made]
    BY <1>2 DEF TakeChallenge
  <2>2. pool' = [pool EXCEPT ![t] = Tail(pool[t])] /\ made' = made + more
    BY <2>1 DEF Taken
  <2>3. Given(session', r, c, IF more = 0 THEN Head(pool[t]) ELSE made')
    BY <2>1, <2>2 DEF Taken, Given
  <2>4. QED  BY <1>1, <1>2, <2>2, <2>3
<1>3. CASE ~(t \in Pooled /\ pool[t] # <<>>)
  <2>1. TakeChallenge(t) = [serial |-> made + 1, pool |-> pool, made |-> made + 1]
    BY <1>3 DEF TakeChallenge
  <2>2. pool' = pool /\ made' = made + 1 + more
    BY <2>1 DEF Taken
  <2>3. Given(session', r, c, IF more = 0 THEN made + 1 ELSE made + 1 + more)
    BY <2>1 DEF Taken, Given
  <2>4. (IF more = 0 THEN made + 1 ELSE made + 1 + more) = made'
    BY <2>2
  <2>5. Given(session', r, c, made')
    BY <2>3, <2>4
  <2>6. QED  BY <1>1, <2>2, <2>5
<1>4. QED  BY <1>2, <1>3

\* What a session that got a challenge looks like, and the others.
GotOne(r, c) ==
    /\ session' = [q \in Requests |-> session'[q]]
    /\ \A q \in Requests \ {r} : session'[q] = session[q]
    /\ session'[r].challenge = c /\ session'[r].type = session[r].type
    /\ DOMAIN session'[r] = DOMAIN Unserved

LEMMA TakenKeeps ==
    ASSUME IInv, NEW r \in Requests, NEW c, NEW more \in Nat, Taken(r, c, more)
    PROVE  /\ made' \in Nat
           /\ pool' \in [Pooled -> Seq(1 .. made')] /\ hand' \in [Pooled -> 0 .. made']
           /\ \A q \in Requests : session'[q].serials \in Seq(1 .. made')
           /\ GotOne(r, c) /\ PoolsBounded' /\ EachChallengeOnce'
<1> USE DEF IInv
<1> DEFINE t == session[r].type
           x == <<"session", r>>
           y == <<"pool", t>>
           H == HeldOf(session, pool, hand)
           G == HeldOf(session', pool', hand')
<1>1. /\ made \in Nat /\ pool \in [Pooled -> Seq(1 .. made)] /\ hand \in [Pooled -> 0 .. made]
      /\ \A q \in Requests : session[q].serials \in Seq(1 .. made)
  BY DEF Shapes
<1>2. H \in [Holders -> Seq(1 .. made)] /\ Once(Holders, H)
  BY HeldNow, OnceIs
<1>3. hand' = hand
  BY DEF Taken
<1>4. CASE /\ t \in Pooled /\ pool[t] # <<>>
           /\ pool' = [pool EXCEPT ![t] = Tail(pool[t])] /\ made' = made + more
           /\ Given(session', r, c, IF more = 0 THEN Head(pool[t]) ELSE made')
  <2> DEFINE v == IF more = 0 THEN Head(pool[t]) ELSE made'
  <2>1. made' \in Nat /\ made <= made'
    BY <1>1, <1>4
  <2>2. v \in 1 .. made' /\ (v = Head(pool[t]) \/ v > made)
    <3>1. pool[t] \in Seq(1 .. made) /\ pool[t] # <<>>
      BY <1>1, <1>4
    <3>2. Head(pool[t]) = pool[t][1] /\ 1 \in DOMAIN pool[t]
      BY <3>1
    <3>3. Head(pool[t]) \in 1 .. made
      BY <1>1, <3>1, <3>2, InRange
    <3>4. QED  BY <1>1, <1>4, <2>1, <3>3
  <2>3. Tail(pool[t]) \in Seq(1 .. made') /\ Len(Tail(pool[t])) <= Len(pool[t])
    <3>1. pool[t] \in Seq(1 .. made) /\ pool[t] # <<>>
      BY <1>1, <1>4
    <3>2. Tail(pool[t]) \in Seq(1 .. made')
      BY <1>1, <2>1, <3>1, Shorter
    <3>3. QED  BY <3>1, <3>2
  <2>4. pool'[t] = Tail(pool[t]) /\ \A u \in Pooled \ {t} : pool'[u] = pool[u]
    BY <1>1, <1>4
  <2>5. pool' \in [Pooled -> Seq(1 .. made')]
    <3>1. pool \in [Pooled -> Seq(1 .. made')]
      BY <1>1, <2>1, WiderPools
    <3>2. QED  BY <3>1, <2>3, <1>4
  <2>6. hand' \in [Pooled -> 0 .. made']
    BY <1>1, <1>3, <2>1
  <2>7. PoolsBounded'
    <3>1. ASSUME NEW u \in Pooled
          PROVE  Len(pool'[u]) <= PoolSize
      <4>1. Len(pool[u]) \in Nat /\ Len(pool[u]) <= PoolSize /\ PoolSize \in Nat
        BY <1>1, EngineAssumption DEF PoolsBounded, EngineAssumption
      <4>2. CASE u # t
        BY <4>1, <4>2, <2>4
      <4>3. CASE u = t
        BY <4>1, <4>3, <2>3, <2>4
      <4>4. QED  BY <4>2, <4>3
    <3>2. QED  BY <3>1 DEF PoolsBounded
  <2>8. /\ GotOne(r, c) /\ session'[r].serials = Append(session[r].serials, v)
        /\ \A q \in Requests \ {r} : session'[q] = session[q]
    <3>1. Given(session', r, c, v)
      BY <1>4
    <3> HIDE DEF v
    <3>2. QED  BY <3>1, SessionGets DEF GotOne
  <2>9. \A q \in Requests : session'[q].serials \in Seq(1 .. made')
    <3>1. Append(session[r].serials, v) \in Seq(1 .. made')
      BY <1>1, <2>1, <2>2, Longer
    <3>2. \A q \in Requests : session[q].serials \in Seq(1 .. made')
      BY <1>1, <2>1, WiderSeq
    <3>3. QED  BY <2>8, <3>1, <3>2
  <2>10. \A h \in Holders \ {x, y} : G[h] = H[h]
    <3>1. \A q \in Requests : <<"session", q>> \in {x, y} \/ session'[q].serials = session[q].serials
      BY <2>8
    <3>2. \A u \in Pooled : /\ <<"pool", u>> \in {x, y} \/ pool'[u] = pool[u]
                            /\ <<"hand", u>> \in {x, y} \/ hand'[u] = hand[u]
      BY <2>4, <1>3
    <3>3. SameBut({x, y}, session, pool, hand, session', pool', hand')
      BY <3>1, <3>2 DEF SameBut
    <3>4. QED  BY <3>3, HeldSame
  <2>11. /\ H[x] = session[r].serials /\ G[x] = Append(session[r].serials, v)
    <3>1. H[x] = session[r].serials
      BY HeldAt
    <3>2. G[x] = session'[r].serials
      BY HeldAt
    <3>3. QED  BY <3>1, <3>2, <2>8
  <2>12. H[y] = pool[t] /\ G[y] = Tail(pool[t])
    <3>1. H[y] = pool[t]
      BY <1>4, HeldAt
    <3>2. G[y] = pool'[t]
      BY <1>4, PoolAfter
    <3>3. QED  BY <3>1, <3>2, <2>4
  <2>13. x \in Holders /\ y \in Holders /\ x # y
    BY <1>4, HoldersAre
  <2>14. G[x] = Append(H[x], v) /\ G[y] = Tail(H[y]) /\ H[y] # <<>> /\ (v = Head(H[y]) \/ v > made)
    BY <1>4, <2>2, <2>11, <2>12
  <2>15. GetsFrom(Holders, made, made', H, x, y, v, G)
    <3> HIDE DEF H, G, x, y
    <3>1. QED  BY <1>1, <1>2, <2>1, <2>2, <2>10, <2>13, <2>14 DEF GetsFrom
  <2>16. EachChallengeOnce'
    <3>1. Once(Holders, G)
      BY <2>15, TakenOnce
    <3>2. QED  BY <3>1, OnceIs
  <2>17. QED  BY <2>1, <2>5, <2>6, <2>7, <2>8, <2>9, <2>16
<1>5. CASE pool' = pool /\ made' = made + 1 + more /\ Given(session', r, c, made')
  <2>1. made' \in Nat /\ made <= made' /\ made' > made /\ made' \in 1 .. made'
    BY <1>1, <1>5
  <2>2. pool' \in [Pooled -> Seq(1 .. made')]
    BY <1>1, <1>5, <2>1, WiderPools
  <2>3. hand' \in [Pooled -> 0 .. made']
    BY <1>1, <1>3, <2>1
  <2>4. PoolsBounded'
    BY <1>5 DEF PoolsBounded
  <2>5. /\ GotOne(r, c) /\ session'[r].serials = Append(session[r].serials, made')
        /\ \A q \in Requests \ {r} : session'[q] = session[q]
    BY <1>5, SessionGets DEF GotOne
  <2>6. \A q \in Requests : session'[q].serials \in Seq(1 .. made')
    <3>1. Append(session[r].serials, made') \in Seq(1 .. made')
      BY <1>1, <2>1, Longer
    <3>2. \A q \in Requests : session[q].serials \in Seq(1 .. made')
      BY <1>1, <2>1, WiderSeq
    <3>3. QED  BY <2>5, <3>1, <3>2
  <2>7. \A h \in Holders \ {x} : G[h] = H[h]
    <3>1. \A q \in Requests : <<"session", q>> \in {x} \/ session'[q].serials = session[q].serials
      BY <2>5
    <3>2. SameBut({x}, session, pool, hand, session', pool', hand')
      BY <1>3, <1>5, <3>1 DEF SameBut
    <3>3. QED  BY <3>2, HeldSame
  <2>8. x \in Holders
    BY HoldersAre
  <2>9. G[x] = Append(H[x], made')
    <3>1. H[x] = session[r].serials
      BY HeldAt
    <3>2. G[x] = session'[r].serials
      BY HeldAt
    <3>3. QED  BY <3>1, <3>2, <2>5
  <2>10. GetsNew(Holders, made, made', H, x, made', G)
    <3> HIDE DEF H, G, x
    <3>1. QED  BY <1>1, <1>2, <2>1, <2>7, <2>8, <2>9 DEF GetsNew
  <2>11. EachChallengeOnce'
    <3>1. Once(Holders, G)
      BY <2>10, MadeOnce
    <3>2. QED  BY <3>1, OnceIs
  <2>12. QED  BY <2>1, <2>2, <2>3, <2>4, <2>5, <2>6, <2>11
<1>6. QED
  <2>1. made \in Nat
    BY <1>1
  <2>2. QED  BY <2>1, <1>4, <1>5, TakenFacts

-----------------------------------------------------------------------------
(* Steps of a request.                                                      *)

\* A request is one there may be.
LEMMA AskingIsRequests == Shapes => Asking \subseteq Requests
BY EngineAssumption DEF Shapes, Asking, EngineAssumption

\* Whatever the resources are, the type settled on is one there is.
LEMMA ChosenIsConcrete ==
    ASSUME NEW rows, NEW ask
    PROVE  ChooseCaptchaType(rows, ask, <<>>) \subseteq Concrete
<1> DEFINE order == <<>> \o DefaultPreferences
           available == Available(rows, ask)
           first(types) == order[Min({i \in DOMAIN order : order[i] \in types})]
<1>1. /\ DOMAIN order = 1 .. 4
      /\ \A i \in 1 .. 4 : order[i] \in Concrete
  BY DEF DefaultPreferences, Concrete, Curves, Sliders, WordClick, GridClick
<1>2. available \subseteq Concrete
  BY DEF Available, Drawable
<1>3. "SLIDER" \in Concrete
  BY DEF Concrete, Sliders
<1>4. ASSUME NEW types, NEW i \in DOMAIN order, order[i] \in types
      PROVE  first(types) \in Concrete
  <2> DEFINE places == {k \in DOMAIN order : order[k] \in types}
  <2>1. places \subseteq 1 .. 4 /\ places # {}
    BY <1>1, <1>4
  <2>2. \E k \in places : \A l \in places : k <= l
    BY <2>1
  <2>3. Min(places) \in places
    BY <2>2 DEF Min
  <2> HIDE DEF order
  <2>4. QED  BY <1>1, <2>1, <2>3
<1>5. Range(order) \cap available # {} => first(available) \in Concrete
  BY <1>4 DEF Range
<1>6. first(Concrete) \in Concrete
  <2>1. 1 \in DOMAIN order /\ order[1] \in Concrete
    BY <1>1
  <2>2. QED  BY <2>1, <1>4
<1>7. ChooseCaptchaType(rows, ask, <<>>) =
          IF ask.type = "RANDOM" THEN IF available = {} THEN {"SLIDER"} ELSE available
          ELSE IF ask.type \in Concrete THEN {ask.type}
          ELSE IF Range(order) \cap available # {} THEN {first(available)}
          ELSE {first(Concrete)}
  BY DEF ChooseCaptchaType
<1> HIDE DEF order, available, first
<1>8. QED  BY <1>2, <1>3, <1>5, <1>6, <1>7

LEMMA StageMoves ==
    ASSUME Shapes, NEW r \in Requests, GetsOn(r)
    PROVE  /\ stage' \in [Requests -> Stages] /\ warm = TRUE
           /\ stage[r] = "asked" => stage'[r] = "chosen"
           /\ stage[r] = "chosen" => stage'[r] = "drawing"
           /\ stage[r] = "drawing" => stage'[r] = "shown"
           /\ \A q \in Requests \ {r} : stage'[q] = stage[q]
<1>1. stage \in [Requests -> Stages] /\ stage' = [stage EXCEPT ![r] = Following[stage[r]]]
      /\ stage[r] # "shown"
  BY DEF Shapes, GetsOn
<1>2. /\ Following["asked"] = "chosen" /\ Following["chosen"] = "drawing"
      /\ Following["drawing"] = "shown"
  BY DEF Following
<1>3. stage[r] \in {"asked", "chosen", "drawing"}
  BY <1>1 DEF Stages
<1>4. Following[stage[r]] \in Stages
  BY <1>2, <1>3 DEF Stages
<1>5. warm = TRUE
  BY DEF Shapes, GetsOn
<1>6. QED  BY <1>1, <1>2, <1>3, <1>4, <1>5

\* A session whose serials and shape stay, whatever else of it changes.
LEMMA SerialsStay ==
    ASSUME EachChallengeOnce, pool' = pool, hand' = hand,
           \A q \in Requests : session'[q].serials = session[q].serials
    PROVE  EachChallengeOnce'
<1> DEFINE H == HeldOf(session, pool, hand)
           G == HeldOf(session', pool', hand')
<1>1. SameBut({}, session, pool, hand, session', pool', hand')
  BY DEF SameBut
<1>2. \A h \in Holders : G[h] = H[h]
  BY <1>1, HeldSame
<1>3. Once(Holders, H)
  BY OnceIs
<1> HIDE DEF H, G
<1>4. Once(Holders, G)
  BY <1>2, <1>3 DEF Once
<1>5. QED  BY <1>4, OnceIs DEF G

\* Fields of one session that are not its serials are set.
Settled(f, r, t, rows) == f = [session EXCEPT ![r].type = t, ![r].read = rows]

Drawn(f, r, v, rows, w) ==
    f = [session EXCEPT ![r].view = v, ![r].drawnFrom = rows, ![r].drawnIn = w]

LEMMA ChooseSession ==
    ASSUME Shapes, NEW r \in Requests, NEW t, NEW rows, NEW f, Settled(f, r, t, rows)
    PROVE  /\ f = [q \in Requests |-> f[q]]
           /\ \A q \in Requests \ {r} : f[q] = session[q]
           /\ f[r].type = t /\ f[r].serials = session[r].serials
           /\ DOMAIN f[r] = DOMAIN Unserved
<1>1. session = [q \in Requests |-> session[q]] /\ DOMAIN session[r] = DOMAIN Unserved
  BY DEF Shapes
<1> DEFINE one == [session[r] EXCEPT !.type = t]
           two == [one EXCEPT !.read = rows]
<1>2. f = [session EXCEPT ![r] = two]
  BY <1>1 DEF Settled
<1>3. f = [q \in Requests |-> f[q]] /\ f[r] = two /\ \A q \in Requests \ {r} : f[q] = session[q]
  BY <1>1, <1>2
<1>4. DOMAIN session[r] = {"type", "read", "serials", "challenge", "view", "drawnFrom", "drawnIn"}
  BY <1>1 DEF Unserved
<1>5. one.type = t /\ one.serials = session[r].serials /\ DOMAIN one = DOMAIN session[r]
  BY <1>4
<1>6. two.type = one.type /\ two.serials = one.serials /\ DOMAIN two = DOMAIN one
  <2> HIDE DEF one
  <2>1. QED  BY <1>4, <1>5
<1>7. QED  BY <1>1, <1>3, <1>5, <1>6

LEMMA DrawSession ==
    ASSUME Shapes, NEW r \in Requests, NEW v, NEW rows, NEW w, NEW f,
           Drawn(f, r, v, rows, w)
    PROVE  /\ f = [q \in Requests |-> f[q]]
           /\ \A q \in Requests \ {r} : f[q] = session[q]
           /\ f[r].type = session[r].type /\ f[r].serials = session[r].serials
           /\ f[r].challenge = session[r].challenge
           /\ DOMAIN f[r] = DOMAIN Unserved
<1>1. session = [q \in Requests |-> session[q]] /\ DOMAIN session[r] = DOMAIN Unserved
  BY DEF Shapes
<1> DEFINE one == [session[r] EXCEPT !.view = v]
           two == [one EXCEPT !.drawnFrom = rows]
           three == [two EXCEPT !.drawnIn = w]
           Alike(a) == /\ a.type = session[r].type /\ a.serials = session[r].serials
                       /\ a.challenge = session[r].challenge /\ DOMAIN a = DOMAIN session[r]
<1>2. f = [session EXCEPT ![r] = three]
  BY <1>1 DEF Drawn
<1>3. f = [q \in Requests |-> f[q]] /\ f[r] = three /\ \A q \in Requests \ {r} : f[q] = session[q]
  BY <1>1, <1>2
<1>4. DOMAIN session[r] = {"type", "read", "serials", "challenge", "view", "drawnFrom", "drawnIn"}
  BY <1>1 DEF Unserved
<1>5. Alike(one)
  BY <1>4
<1>6. Alike(two)
  <2> HIDE DEF one
  <2>1. QED  BY <1>4, <1>5
<1>7. Alike(three)
  <2> HIDE DEF two
  <2>1. QED  BY <1>4, <1>6
<1>8. QED  BY <1>1, <1>3, <1>7

LEMMA ChooseKeepsInv ==
    ASSUME IInv, NEW r \in Requests, Choose(r)
    PROVE  IInv'
<1> USE DEF IInv
<1>1. PICK t \in ChooseCaptchaType(list, setup.asks[r], <<>>) :
          Settled(session', r, t, list)
  BY DEF Choose, Settled
<1>2. t \in Concrete
  BY ChosenIsConcrete
<1>3. /\ session' = [q \in Requests |-> session'[q]]
      /\ \A q \in Requests \ {r} : session'[q] = session[q]
      /\ session'[r].type = t /\ session'[r].serials = session[r].serials
      /\ DOMAIN session'[r] = DOMAIN Unserved
  BY <1>1, ChooseSession
<1>4. /\ stage' \in [Requests -> Stages] /\ warm = TRUE /\ stage'[r] = "chosen"
      /\ \A q \in Requests \ {r} : stage'[q] = stage[q]
  BY StageMoves DEF Choose
<1>5. UNCHANGED <<setup, list, world, edits, made, warm, pool, hand>>
  BY DEF Choose
<1>6. \A q \in Requests : session'[q].serials = session[q].serials
  BY <1>3
<1>7. Shapes'
  <2>1. \A q \in Requests : session'[q].serials \in Seq(1 .. made)
    BY <1>6 DEF Shapes
  <2>2. \A q \in Requests : DOMAIN session'[q] = DOMAIN Unserved
    BY <1>3 DEF Shapes
  <2>3. QED  BY <1>3, <1>4, <1>5, <2>1, <2>2 DEF Shapes
<1>8. PoolsBounded'
  BY <1>5 DEF PoolsBounded
<1>9. SessionsTyped'
  <2>1. ASSUME NEW q \in Requests
        PROVE  /\ stage'[q] # "asked" => session'[q].type \in Concrete
               /\ stage'[q] \in {"drawing", "shown"} =>
                      session'[q].challenge.type = session'[q].type
    <3>1. CASE q = r
      BY <3>1, <1>2, <1>3, <1>4
    <3>2. CASE q # r
      BY <3>2, <1>3, <1>4 DEF SessionsTyped
    <3>3. QED  BY <3>1, <3>2
  <2>2. QED  BY <2>1 DEF SessionsTyped
<1>10. NothingYet'
  BY <1>4, <1>5 DEF NothingYet
<1>11. EachChallengeOnce'
  BY <1>5, <1>6, SerialsStay
<1>12. QED  BY <1>7, <1>8, <1>9, <1>10, <1>11

LEMMA DrawKeepsInv ==
    ASSUME IInv, NEW r \in Requests, Draw(r)
    PROVE  IInv'
<1> USE DEF IInv
<1>1. \E v : Drawn(session', r, v, list, world)
  BY DEF Draw, Drawn
<1>2. /\ session' = [q \in Requests |-> session'[q]]
      /\ \A q \in Requests \ {r} : session'[q] = session[q]
      /\ session'[r].type = session[r].type /\ session'[r].serials = session[r].serials
      /\ session'[r].challenge = session[r].challenge
      /\ DOMAIN session'[r] = DOMAIN Unserved
  BY <1>1, DrawSession
<1>3. /\ stage' \in [Requests -> Stages] /\ warm = TRUE
      /\ stage[r] = "drawing" /\ stage'[r] = "shown"
      /\ \A q \in Requests \ {r} : stage'[q] = stage[q]
  BY StageMoves DEF Draw
<1>4. UNCHANGED <<setup, list, world, edits, made, warm, pool, hand>>
  BY DEF Draw
<1>5. \A q \in Requests : session'[q].serials = session[q].serials
  BY <1>2
<1>6. Shapes'
  <2>1. \A q \in Requests : session'[q].serials \in Seq(1 .. made)
    BY <1>5 DEF Shapes
  <2>2. \A q \in Requests : DOMAIN session'[q] = DOMAIN Unserved
    BY <1>2 DEF Shapes
  <2>3. QED  BY <1>2, <1>3, <1>4, <2>1, <2>2 DEF Shapes
<1>7. PoolsBounded'
  BY <1>4 DEF PoolsBounded
<1>8. SessionsTyped'
  <2>1. ASSUME NEW q \in Requests
        PROVE  /\ stage'[q] # "asked" => session'[q].type \in Concrete
               /\ stage'[q] \in {"drawing", "shown"} =>
                      session'[q].challenge.type = session'[q].type
    <3>1. CASE q = r
      BY <3>1, <1>2, <1>3 DEF SessionsTyped
    <3>2. CASE q # r
      BY <3>2, <1>2, <1>3 DEF SessionsTyped
    <3>3. QED  BY <3>1, <3>2
  <2>2. QED  BY <2>1 DEF SessionsTyped
<1>9. NothingYet'
  BY <1>3, <1>4 DEF NothingYet
<1>10. EachChallengeOnce'
  BY <1>4, <1>5, SerialsStay
<1>11. QED  BY <1>6, <1>7, <1>8, <1>9, <1>10

\* What follows when a session got a challenge of its type and its picture is
\* to be drawn.
LEMMA GettingKeepsInv ==
    ASSUME IInv, NEW r \in Requests, NEW c, NEW more \in Nat, Taken(r, c, more),
           c.type = session[r].type, stage[r] # "asked", warm = TRUE,
           stage' \in [Requests -> Stages], stage'[r] = "drawing",
           \A q \in Requests \ {r} : stage'[q] = stage[q]
    PROVE  IInv'
<1> USE DEF IInv
<1>1. /\ made' \in Nat
      /\ pool' \in [Pooled -> Seq(1 .. made')] /\ hand' \in [Pooled -> 0 .. made']
      /\ \A q \in Requests : session'[q].serials \in Seq(1 .. made')
      /\ GotOne(r, c) /\ PoolsBounded' /\ EachChallengeOnce'
  BY TakenKeeps
<1>2. UNCHANGED <<setup, list, world, edits, warm, hand>>
  BY DEF Taken
<1>3. Shapes'
  <2>1. \A q \in Requests : DOMAIN session'[q] = DOMAIN Unserved
    BY <1>1 DEF Shapes, GotOne
  <2>2. session' = [q \in Requests |-> session'[q]]
    BY <1>1 DEF GotOne
  <2>3. QED  BY <1>1, <1>2, <2>1, <2>2 DEF Shapes
<1>4. SessionsTyped'
  <2>1. ASSUME NEW q \in Requests
        PROVE  /\ stage'[q] # "asked" => session'[q].type \in Concrete
               /\ stage'[q] \in {"drawing", "shown"} =>
                      session'[q].challenge.type = session'[q].type
    <3>1. CASE q = r
      BY <3>1, <1>1 DEF SessionsTyped, GotOne
    <3>2. CASE q # r
      BY <3>2, <1>1 DEF SessionsTyped, GotOne
    <3>3. QED  BY <3>1, <3>2
  <2>2. QED  BY <2>1 DEF SessionsTyped
<1>5. NothingYet'
  BY <1>2 DEF NothingYet
<1>6. QED  BY <1>1, <1>3, <1>4, <1>5

LEMMA NewSessionKeepsInv ==
    ASSUME IInv, NEW r \in Requests, NewSession(r)
    PROVE  IInv'
<1>1. PICK c \in Challenges : c.type = session[r].type /\ Taken(r, c, 0)
  BY DEF NewSession
<1>2. GetsOn(r) /\ stage[r] = "chosen" /\ Shapes
  BY DEF NewSession, IInv
<1>3. /\ stage' \in [Requests -> Stages] /\ warm = TRUE /\ stage'[r] = "drawing"
      /\ \A q \in Requests \ {r} : stage'[q] = stage[q]
  BY <1>2, StageMoves
<1>4. stage[r] # "asked" /\ 0 \in Nat
  BY <1>2
<1>5. QED  BY <1>1, <1>3, <1>4, GettingKeepsInv

LEMMA RefreshKeepsInv ==
    ASSUME IInv, NEW r \in Requests, Refresh(r)
    PROVE  IInv'
<1>1. PICK c \in Challenges, more \in {0, 1, 8} :
          c.type = session[r].type /\ Taken(r, c, more)
  BY DEF Refresh
<1>2. stage[r] = "shown" /\ stage' = [stage EXCEPT ![r] = "drawing"]
  BY DEF Refresh
<1>3. stage \in [Requests -> Stages] /\ warm \in BOOLEAN
  BY DEF IInv, Shapes
<1>4. warm = TRUE
  BY <1>2, <1>3 DEF IInv, NothingYet
<1>5. /\ stage' \in [Requests -> Stages] /\ stage'[r] = "drawing"
      /\ \A q \in Requests \ {r} : stage'[q] = stage[q]
  BY <1>2, <1>3 DEF Stages
<1>6. stage[r] # "asked" /\ more \in Nat
  BY <1>2
<1>7. QED  BY <1>1, <1>4, <1>5, <1>6, GettingKeepsInv

-----------------------------------------------------------------------------
(* The surroundings, and all steps together.                                *)

LEMMA EditResourcesKeepsInv ==
    ASSUME IInv, EditResources
    PROVE  IInv'
<1> USE DEF IInv
<1>1. /\ UNCHANGED <<setup, made, warm, pool, hand, stage, session>>
      /\ list' \in setup.lists /\ world' \in setup.worlds
      /\ edits' = edits + 1 /\ edits < MaxEdits
  BY DEF EditResources, Shapes
<1>2. edits' \in 0 .. MaxEdits
  BY <1>1, EngineAssumption DEF Shapes, EngineAssumption
<1>3. Shapes'
  BY <1>1, <1>2 DEF Shapes
<1>4. PoolsBounded' /\ SessionsTyped' /\ NothingYet'
  BY <1>1 DEF PoolsBounded, SessionsTyped, NothingYet
<1>5. EachChallengeOnce'
  BY <1>1, SerialsStay
<1>6. QED  BY <1>3, <1>4, <1>5

LEMMA StutterKeepsInv ==
    ASSUME IInv, UNCHANGED vars
    PROVE  IInv'
<1> USE DEF IInv, vars
<1>1. Shapes' /\ PoolsBounded' /\ SessionsTyped' /\ NothingYet'
  BY DEF Shapes, PoolsBounded, SessionsTyped, NothingYet
<1>2. EachChallengeOnce'
  BY SerialsStay
<1>3. QED  BY <1>1, <1>2

LEMMA StepInv == IInv /\ [Next]_vars => IInv'
<1> SUFFICES ASSUME IInv, [Next]_vars
             PROVE  IInv'
  OBVIOUS
<1>1. ASSUME NEW r \in Asking
      PROVE  r \in Requests
  BY AskingIsRequests DEF IInv
<1>2. CASE Warm
  BY <1>2, WarmKeepsInv
<1>3. ASSUME NEW t \in Pooled, FillerMakes(t) \/ FillerSends(t)
      PROVE  IInv'
  BY <1>3, FillerMakesKeepsInv, FillerSendsKeepsInv
<1>4. ASSUME NEW r \in Asking, Choose(r) \/ NewSession(r) \/ Draw(r) \/ Refresh(r)
      PROVE  IInv'
  BY <1>1, <1>4, ChooseKeepsInv, NewSessionKeepsInv, DrawKeepsInv, RefreshKeepsInv
<1>5. CASE EditResources
  BY <1>5, EditResourcesKeepsInv
<1>6. CASE UNCHANGED vars
  BY <1>6, StutterKeepsInv
<1>7. QED  BY <1>2, <1>3, <1>4, <1>5, <1>6 DEF Next

THEOREM Invariance == Spec => []IInv
BY InitInv, StepInv, PTL DEF Spec

\* IInv says all that TypeOK does.
LEMMA InvTypes == IInv => TypeOK
<1> SUFFICES ASSUME IInv
             PROVE  TypeOK
  OBVIOUS
<1> USE DEF IInv
<1>1. ASSUME NEW t \in Pooled
      PROVE  /\ Len(pool[t]) <= PoolSize
             /\ \A i \in DOMAIN pool[t] : pool[t][i] \in 1 .. made
             /\ hand[t] \in 0 .. made
  <2>1. made \in Nat /\ pool[t] \in Seq(1 .. made) /\ hand[t] \in 0 .. made
    BY DEF Shapes
  <2>2. QED  BY <2>1, InRange DEF PoolsBounded
<1>2. \A r \in Requests : stage[r] \in {"asked", "chosen", "drawing", "shown"}
  BY DEF Shapes, Stages
<1>3. QED  BY <1>1, <1>2 DEF TypeOK, Shapes, SessionsTyped

\* The variables keep their types, no pool holds more than its size, and a
\* session is shown challenges of the type it was settled on.
THEOREM TypeCorrect == Spec => []TypeOK
BY Invariance, InvTypes, PTL

\* However takers and fillers interleave (engine.go: fillPreGenerated and
\* takeChallenge), no challenge is given out twice, and none that was given
\* lies in a pool or in a filler's hand.
THEOREM GivenOnce == Spec => []EachChallengeOnce
<1>1. IInv => EachChallengeOnce
  BY DEF IInv
<1>2. QED  BY <1>1, Invariance, PTL
=============================================================================
