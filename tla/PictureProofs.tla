---------------------------- MODULE PictureProofs ----------------------------
(***************************************************************************)
(* Theorems about pictures: the exact orientations, the chain of units run *)
(* tile by tile, and the budget the tiles and the point queries share.     *)
(*                                                                         *)
(* The orientations are a group the four actions act on, and the mapping   *)
(* an orientation compiles to is the composition of the mappings of the    *)
(* actions that reached it, for a stage of any width and height.           *)
(*                                                                         *)
(* For every stage, tile size, chain of at most four halos, mask and odd   *)
(* pixel, a unit of the chain finds its neighbours, the last rectangle     *)
(* contains the tile, and what is written tile by tile is what one         *)
(* evaluation over the whole frame gives.  The invariant says of the tile  *)
(* being run that its rectangle covers the tile grown by the halos still   *)
(* to come, and that every value in it comes from the pixels within the    *)
(* halos already spent.                                                    *)
(*                                                                         *)
(* For every number of renders and point queries, every target, working    *)
(* set and stage, the bytes in use are exactly what the evaluations have   *)
(* reserved and hold, what runs passes the target by a working set each at *)
(* most, and a query evaluates a tile once while what it reads fits.  The  *)
(* invariant says of each evaluation where it stands (its reservation, a   *)
(* render's tiles written in order, the nested tiles a query fills and the *)
(* ones it holds, all in the cone of its points), that the use is the sum  *)
(* of what they have, that what runs passes the target by no more, and     *)
(* that the peak is the highest use or about to be raised to it.  A sum is *)
(* the size of a set of numbered bytes, so that the laws of sums are those *)
(* of cardinality.                                                         *)
(***************************************************************************)
EXTENDS TileChain, TileBudget, Orientation, FiniteSetTheorems, TLAPS

\* ------------------------------------------------- one action, and several ----

LEMMA OrientedFields ==
    ASSUME NEW m, NEW n
    PROVE  Oriented(m, n).mirror = m /\ Oriented(m, n).turns = n
  BY DEF Oriented

\* An orientation is what its two fields say.
LEMMA OrientationFields ==
    ASSUME NEW o \in Orientations
    PROVE  o.mirror \in 0..1 /\ o.turns \in 0..3 /\ o = Oriented(o.mirror, o.turns)
  BY DEF Oriented, Orientations

LEMMA OrientationTyped ==
    ASSUME NEW m \in 0..1, NEW n \in 0..3
    PROVE  Oriented(m, n) \in Orientations
  BY DEF Oriented, Orientations

\* The actions, by the fields they make.
LEMMA Actions ==
    ASSUME NEW m \in 0..1, NEW n \in 0..3
    PROVE  /\ Then(Oriented(m, n), "RotateRight") = Oriented(m, (n + 1) % 4)
           /\ Then(Oriented(m, n), "RotateLeft") = Oriented(m, (n + 3) % 4)
           /\ Then(Oriented(m, n), "MirrorHorizontal") = Oriented(1 - m, (4 - n) % 4)
           /\ Then(Oriented(m, n), "FlipVertical") = Oriented(1 - m, (6 - n) % 4)
  BY OrientedFields DEF Then, Reflections, Quarters

\* An action makes an orientation of an orientation.
LEMMA ThenTyped ==
    ASSUME NEW o \in Orientations, NEW t \in Transforms
    PROVE  Then(o, t) \in Orientations
  BY OrientationFields, Actions, OrientationTyped DEF Transforms

\* k turns to the right add k.
LEMMA TurnedRight ==
    ASSUME NEW m \in 0..1, NEW n \in 0..3, NEW k \in 0..3
    PROVE  Turned(Oriented(m, n), k, "RotateRight") = Oriented(m, (n + k) % 4)
  <1> DEFINE two == Then(Then(Oriented(m, n), "RotateRight"), "RotateRight")
  <1>1. (n + 1) % 4 \in 0..3 /\ (n + 2) % 4 \in 0..3 /\ (((n + 1) % 4) + 1) % 4 = (n + 2) % 4
        /\ (((n + 2) % 4) + 1) % 4 = (n + 3) % 4 /\ n % 4 = n
    OBVIOUS
  <1>2. two = Oriented(m, (n + 2) % 4)
    BY <1>1, Actions
  <1>3. Then(two, "RotateRight") = Oriented(m, (n + 3) % 4)
    BY <1>1, <1>2, Actions
  <1>4. k = 0 \/ k = 1 \/ k = 2 \/ k = 3
    OBVIOUS
  <1> QED BY <1>1, <1>2, <1>3, <1>4, Actions DEF Turned

\* k turns to the left of the neutral orientation are 4 - k to the right.
LEMMA TurnedLeft ==
    ASSUME NEW k \in 0..3
    PROVE  Turned(Neutral, k, "RotateLeft") = Oriented(0, (4 - k) % 4)
  <1>1. Neutral = Oriented(0, 0)
    BY DEF Neutral, Oriented
  <1>2. Then(Oriented(0, 0), "RotateLeft") = Oriented(0, 3)
    BY Actions
  <1>3. Then(Oriented(0, 3), "RotateLeft") = Oriented(0, 2)
    BY Actions
  <1>4. Then(Oriented(0, 2), "RotateLeft") = Oriented(0, 1)
    BY Actions
  <1>5. k = 0 \/ k = 1 \/ k = 2 \/ k = 3
    OBVIOUS
  <1> QED BY <1>1, <1>2, <1>3, <1>4, <1>5 DEF Turned

\* One orientation and then another, by their fields.
LEMMA Composed ==
    ASSUME NEW m \in 0..1, NEW n \in 0..3, NEW p \in 0..1, NEW k \in 0..3
    PROVE  FollowedBy(Oriented(m, n), Oriented(p, k))
             = IF p = 1 THEN Oriented(1 - m, (4 - n + k) % 4) ELSE Oriented(m, (n + k) % 4)
  <1>1. CASE p = 1
    <2>1. (4 - n) % 4 \in 0..3 /\ (((4 - n) % 4) + k) % 4 = (4 - n + k) % 4 /\ 1 - m \in 0..1
      OBVIOUS
    <2>2. Turned(Oriented(1 - m, (4 - n) % 4), k, "RotateRight")
            = Oriented(1 - m, (4 - n + k) % 4)
      BY <2>1, TurnedRight
    <2> QED BY <1>1, <2>2, Actions, OrientedFields DEF FollowedBy
  <1>2. CASE p = 0
    BY <1>2, TurnedRight, OrientedFields DEF FollowedBy
  <1> QED BY <1>1, <1>2

\* The inverse of an orientation, by its fields: a reflected one undoes itself.
LEMMA Inverted ==
    ASSUME NEW m \in 0..1, NEW n \in 0..3
    PROVE  InverseOf(Oriented(m, n)) = IF m = 1 THEN Oriented(1, n) ELSE Oriented(0, (4 - n) % 4)
  <1>1. (4 - n) % 4 \in 0..3 /\ (4 - ((4 - n) % 4)) % 4 = n
    OBVIOUS
  <1>2. Then(Oriented(0, (4 - n) % 4), "MirrorHorizontal") = Oriented(1, n)
    BY <1>1, Actions
  <1> QED BY <1>2, TurnedLeft, OrientedFields DEF InverseOf

\* ------------------------------------------------------------- the group ----

\* One orientation and then another is an orientation, and the grouping of three
\* does not matter: any number of transforms stays one layer.
THEOREM Associative ==
    ASSUME NEW o \in Orientations, NEW p \in Orientations, NEW q \in Orientations
    PROVE  /\ FollowedBy(o, p) \in Orientations
           /\ FollowedBy(FollowedBy(o, p), q) = FollowedBy(o, FollowedBy(p, q))
  <1>1. PICK m \in 0..1, n \in 0..3 : o = Oriented(m, n)
    BY OrientationFields
  <1>2. PICK mp \in 0..1, np \in 0..3 : p = Oriented(mp, np)
    BY OrientationFields
  <1>3. PICK mq \in 0..1, nq \in 0..3 : q = Oriented(mq, nq)
    BY OrientationFields
  <1> DEFINE a == IF mp = 1 THEN 1 - m ELSE m
             i == IF mp = 1 THEN (4 - n + np) % 4 ELSE (n + np) % 4
             b == IF mq = 1 THEN 1 - mp ELSE mp
             j == IF mq = 1 THEN (4 - np + nq) % 4 ELSE (np + nq) % 4
  <1>4. a \in 0..1 /\ i \in 0..3 /\ b \in 0..1 /\ j \in 0..3
    OBVIOUS
  <1>5. FollowedBy(o, p) = Oriented(a, i)
    BY <1>1, <1>2, Composed
  <1>6. FollowedBy(p, q) = Oriented(b, j)
    BY <1>2, <1>3, Composed
  <1>7. FollowedBy(Oriented(a, i), q)
          = IF mq = 1 THEN Oriented(1 - a, (4 - i + nq) % 4) ELSE Oriented(a, (i + nq) % 4)
    <2> HIDE DEF a, i
    <2> QED BY <1>3, <1>4, Composed
  <1>8. FollowedBy(o, Oriented(b, j))
          = IF b = 1 THEN Oriented(1 - m, (4 - n + j) % 4) ELSE Oriented(m, (n + j) % 4)
    <2> HIDE DEF b, j
    <2> QED BY <1>1, <1>4, Composed
  <1>9. (IF mq = 1 THEN Oriented(1 - a, (4 - i + nq) % 4) ELSE Oriented(a, (i + nq) % 4))
          = IF b = 1 THEN Oriented(1 - m, (4 - n + j) % 4) ELSE Oriented(m, (n + j) % 4)
    <2>1. CASE mp = 1 /\ mq = 1
      <3>1. (4 - ((4 - n + np) % 4) + nq) % 4 = (n + ((4 - np + nq) % 4)) % 4
        OBVIOUS
      <3> QED BY <2>1, <3>1
    <2>2. CASE mp = 1 /\ mq = 0
      <3>1. (((4 - n + np) % 4) + nq) % 4 = (4 - n + ((np + nq) % 4)) % 4
        OBVIOUS
      <3> QED BY <2>2, <3>1
    <2>3. CASE mp = 0 /\ mq = 1
      <3>1. (4 - ((n + np) % 4) + nq) % 4 = (4 - n + ((4 - np + nq) % 4)) % 4
        OBVIOUS
      <3> QED BY <2>3, <3>1
    <2>4. CASE mp = 0 /\ mq = 0
      <3>1. (((n + np) % 4) + nq) % 4 = (n + ((np + nq) % 4)) % 4
        OBVIOUS
      <3> QED BY <2>4, <3>1
    <2> QED BY <2>1, <2>2, <2>3, <2>4
  <1>10. FollowedBy(o, p) \in Orientations
    <2> HIDE DEF a, i
    <2> QED BY <1>4, <1>5, OrientationTyped
  <1> QED BY <1>5, <1>6, <1>7, <1>8, <1>9, <1>10

\* The inverse undoes an orientation, made after it or before it.
THEOREM Undone ==
    ASSUME NEW o \in Orientations
    PROVE  /\ FollowedBy(o, InverseOf(o)) = Neutral
           /\ FollowedBy(InverseOf(o), o) = Neutral
  <1>1. PICK m \in 0..1, n \in 0..3 : o = Oriented(m, n)
    BY OrientationFields
  <1>2. (4 - n) % 4 \in 0..3 /\ (n + ((4 - n) % 4)) % 4 = 0 /\ (((4 - n) % 4) + n) % 4 = 0
        /\ (4 - n + n) % 4 = 0
    OBVIOUS
  <1>3. Neutral = Oriented(0, 0)
    BY DEF Neutral, Oriented
  <1>4. CASE m = 1
    BY <1>1, <1>2, <1>3, <1>4, Inverted, Composed
  <1>5. CASE m = 0
    BY <1>1, <1>2, <1>3, <1>5, Inverted, Composed
  <1> QED BY <1>4, <1>5

\* An action is the orientation it makes of the neutral one: composing a stored
\* orientation with a new one is what applying the actions one by one would be.
THEOREM ActionIsOrientation ==
    ASSUME NEW o \in Orientations, NEW t \in Transforms
    PROVE  Then(o, t) = FollowedBy(o, Of(t))
  <1>1. PICK m \in 0..1, n \in 0..3 : o = Oriented(m, n)
    BY OrientationFields
  <1>2. Neutral = Oriented(0, 0)
    BY DEF Neutral, Oriented
  <1>3. /\ Of("RotateRight") = Oriented(0, 1)
        /\ Of("RotateLeft") = Oriented(0, 3)
        /\ Of("MirrorHorizontal") = Oriented(1, 0)
        /\ Of("FlipVertical") = Oriented(1, 2)
    BY <1>2, Actions DEF Of
  <1>4. (4 - n + 0) % 4 = (4 - n) % 4 /\ (4 - n + 2) % 4 = (6 - n) % 4
    OBVIOUS
  <1> QED BY <1>1, <1>3, <1>4, Actions, Composed DEF Transforms

\* ---------------------------------------------------------- the mappings ----

\* The mappings of the four actions.
LEMMA Steps ==
    ASSUME NEW w, NEW h
    PROVE  /\ Step("RotateRight", w, h) = Mapping(0, -1, 1, 0, h - 1, 0, h, w)
           /\ Step("RotateLeft", w, h) = Mapping(0, 1, -1, 0, 0, w - 1, h, w)
           /\ Step("MirrorHorizontal", w, h) = Mapping(-1, 0, 0, 1, w - 1, 0, w, h)
           /\ Step("FlipVertical", w, h) = Mapping(1, 0, 0, -1, 0, h - 1, w, h)
  BY DEF Step

LEMMA Extents ==
    ASSUME NEW a, NEW b, NEW c, NEW d, NEW x, NEW y, NEW w, NEW h
    PROVE  /\ Mapping(a, b, c, d, x, y, w, h).width = w
           /\ Mapping(a, b, c, d, x, y, w, h).height = h
  BY DEF Mapping

\* Each of the eight mappings, made after by each of the actions.

LEMMA Upright ==
    ASSUME NEW w \in Int, NEW h \in Int, NEW t \in Transforms
    PROVE  LET g == Mapping(1, 0, 0, 1, 0, 0, w, h)
           IN  After(g, Step(t, g.width, g.height))
                 = IF t = "RotateRight" THEN Mapping(0, -1, 1, 0, h - 1, 0, h, w)
                   ELSE IF t = "RotateLeft" THEN Mapping(0, 1, -1, 0, 0, w - 1, h, w)
                   ELSE IF t = "MirrorHorizontal" THEN Mapping(-1, 0, 0, 1, w - 1, 0, w, h)
                   ELSE Mapping(1, 0, 0, -1, 0, h - 1, w, h)
  <1> DEFINE g == Mapping(1, 0, 0, 1, 0, 0, w, h)
  <1>1. g.width = w /\ g.height = h
    BY Extents
  <1>2. After(g, Mapping(0, -1, 1, 0, h - 1, 0, h, w))
          = Mapping(0, -1, 1, 0, h - 1, 0, h, w)
    BY DEF After, Mapping
  <1>3. After(g, Mapping(0, 1, -1, 0, 0, w - 1, h, w))
          = Mapping(0, 1, -1, 0, 0, w - 1, h, w)
    BY DEF After, Mapping
  <1>4. After(g, Mapping(-1, 0, 0, 1, w - 1, 0, w, h))
          = Mapping(-1, 0, 0, 1, w - 1, 0, w, h)
    BY DEF After, Mapping
  <1>5. After(g, Mapping(1, 0, 0, -1, 0, h - 1, w, h))
          = Mapping(1, 0, 0, -1, 0, h - 1, w, h)
    BY DEF After, Mapping
  <1> HIDE DEF g
  <1>6. After(g, Step(t, g.width, g.height))
          = IF t = "RotateRight" THEN Mapping(0, -1, 1, 0, h - 1, 0, h, w)
            ELSE IF t = "RotateLeft" THEN Mapping(0, 1, -1, 0, 0, w - 1, h, w)
            ELSE IF t = "MirrorHorizontal" THEN Mapping(-1, 0, 0, 1, w - 1, 0, w, h)
            ELSE Mapping(1, 0, 0, -1, 0, h - 1, w, h)
    BY <1>1, <1>2, <1>3, <1>4, <1>5, Steps DEF Transforms
  <1> QED BY <1>6 DEF g

LEMMA UprightRight ==
    ASSUME NEW w \in Int, NEW h \in Int, NEW t \in Transforms
    PROVE  LET g == Mapping(0, -1, 1, 0, h - 1, 0, h, w)
           IN  After(g, Step(t, g.width, g.height))
                 = IF t = "RotateRight" THEN Mapping(-1, 0, 0, -1, w - 1, h - 1, w, h)
                   ELSE IF t = "RotateLeft" THEN Mapping(1, 0, 0, 1, 0, 0, w, h)
                   ELSE IF t = "MirrorHorizontal" THEN Mapping(0, 1, 1, 0, 0, 0, h, w)
                   ELSE Mapping(0, -1, -1, 0, h - 1, w - 1, h, w)
  <1> DEFINE g == Mapping(0, -1, 1, 0, h - 1, 0, h, w)
  <1>1. g.width = h /\ g.height = w
    BY Extents
  <1>2. After(g, Mapping(0, -1, 1, 0, w - 1, 0, w, h))
          = Mapping(-1, 0, 0, -1, w - 1, h - 1, w, h)
    BY DEF After, Mapping
  <1>3. After(g, Mapping(0, 1, -1, 0, 0, h - 1, w, h))
          = Mapping(1, 0, 0, 1, 0, 0, w, h)
    BY DEF After, Mapping
  <1>4. After(g, Mapping(-1, 0, 0, 1, h - 1, 0, h, w))
          = Mapping(0, 1, 1, 0, 0, 0, h, w)
    BY DEF After, Mapping
  <1>5. After(g, Mapping(1, 0, 0, -1, 0, w - 1, h, w))
          = Mapping(0, -1, -1, 0, h - 1, w - 1, h, w)
    BY DEF After, Mapping
  <1> HIDE DEF g
  <1>6. After(g, Step(t, g.width, g.height))
          = IF t = "RotateRight" THEN Mapping(-1, 0, 0, -1, w - 1, h - 1, w, h)
            ELSE IF t = "RotateLeft" THEN Mapping(1, 0, 0, 1, 0, 0, w, h)
            ELSE IF t = "MirrorHorizontal" THEN Mapping(0, 1, 1, 0, 0, 0, h, w)
            ELSE Mapping(0, -1, -1, 0, h - 1, w - 1, h, w)
    BY <1>1, <1>2, <1>3, <1>4, <1>5, Steps DEF Transforms
  <1> QED BY <1>6 DEF g

LEMMA UprightHalfTurned ==
    ASSUME NEW w \in Int, NEW h \in Int, NEW t \in Transforms
    PROVE  LET g == Mapping(-1, 0, 0, -1, w - 1, h - 1, w, h)
           IN  After(g, Step(t, g.width, g.height))
                 = IF t = "RotateRight" THEN Mapping(0, 1, -1, 0, 0, w - 1, h, w)
                   ELSE IF t = "RotateLeft" THEN Mapping(0, -1, 1, 0, h - 1, 0, h, w)
                   ELSE IF t = "MirrorHorizontal" THEN Mapping(1, 0, 0, -1, 0, h - 1, w, h)
                   ELSE Mapping(-1, 0, 0, 1, w - 1, 0, w, h)
  <1> DEFINE g == Mapping(-1, 0, 0, -1, w - 1, h - 1, w, h)
  <1>1. g.width = w /\ g.height = h
    BY Extents
  <1>2. After(g, Mapping(0, -1, 1, 0, h - 1, 0, h, w))
          = Mapping(0, 1, -1, 0, 0, w - 1, h, w)
    BY DEF After, Mapping
  <1>3. After(g, Mapping(0, 1, -1, 0, 0, w - 1, h, w))
          = Mapping(0, -1, 1, 0, h - 1, 0, h, w)
    BY DEF After, Mapping
  <1>4. After(g, Mapping(-1, 0, 0, 1, w - 1, 0, w, h))
          = Mapping(1, 0, 0, -1, 0, h - 1, w, h)
    BY DEF After, Mapping
  <1>5. After(g, Mapping(1, 0, 0, -1, 0, h - 1, w, h))
          = Mapping(-1, 0, 0, 1, w - 1, 0, w, h)
    BY DEF After, Mapping
  <1> HIDE DEF g
  <1>6. After(g, Step(t, g.width, g.height))
          = IF t = "RotateRight" THEN Mapping(0, 1, -1, 0, 0, w - 1, h, w)
            ELSE IF t = "RotateLeft" THEN Mapping(0, -1, 1, 0, h - 1, 0, h, w)
            ELSE IF t = "MirrorHorizontal" THEN Mapping(1, 0, 0, -1, 0, h - 1, w, h)
            ELSE Mapping(-1, 0, 0, 1, w - 1, 0, w, h)
    BY <1>1, <1>2, <1>3, <1>4, <1>5, Steps DEF Transforms
  <1> QED BY <1>6 DEF g

LEMMA UprightLeft ==
    ASSUME NEW w \in Int, NEW h \in Int, NEW t \in Transforms
    PROVE  LET g == Mapping(0, 1, -1, 0, 0, w - 1, h, w)
           IN  After(g, Step(t, g.width, g.height))
                 = IF t = "RotateRight" THEN Mapping(1, 0, 0, 1, 0, 0, w, h)
                   ELSE IF t = "RotateLeft" THEN Mapping(-1, 0, 0, -1, w - 1, h - 1, w, h)
                   ELSE IF t = "MirrorHorizontal" THEN Mapping(0, -1, -1, 0, h - 1, w - 1, h, w)
                   ELSE Mapping(0, 1, 1, 0, 0, 0, h, w)
  <1> DEFINE g == Mapping(0, 1, -1, 0, 0, w - 1, h, w)
  <1>1. g.width = h /\ g.height = w
    BY Extents
  <1>2. After(g, Mapping(0, -1, 1, 0, w - 1, 0, w, h))
          = Mapping(1, 0, 0, 1, 0, 0, w, h)
    BY DEF After, Mapping
  <1>3. After(g, Mapping(0, 1, -1, 0, 0, h - 1, w, h))
          = Mapping(-1, 0, 0, -1, w - 1, h - 1, w, h)
    BY DEF After, Mapping
  <1>4. After(g, Mapping(-1, 0, 0, 1, h - 1, 0, h, w))
          = Mapping(0, -1, -1, 0, h - 1, w - 1, h, w)
    BY DEF After, Mapping
  <1>5. After(g, Mapping(1, 0, 0, -1, 0, w - 1, h, w))
          = Mapping(0, 1, 1, 0, 0, 0, h, w)
    BY DEF After, Mapping
  <1> HIDE DEF g
  <1>6. After(g, Step(t, g.width, g.height))
          = IF t = "RotateRight" THEN Mapping(1, 0, 0, 1, 0, 0, w, h)
            ELSE IF t = "RotateLeft" THEN Mapping(-1, 0, 0, -1, w - 1, h - 1, w, h)
            ELSE IF t = "MirrorHorizontal" THEN Mapping(0, -1, -1, 0, h - 1, w - 1, h, w)
            ELSE Mapping(0, 1, 1, 0, 0, 0, h, w)
    BY <1>1, <1>2, <1>3, <1>4, <1>5, Steps DEF Transforms
  <1> QED BY <1>6 DEF g

LEMMA Mirrored ==
    ASSUME NEW w \in Int, NEW h \in Int, NEW t \in Transforms
    PROVE  LET g == Mapping(-1, 0, 0, 1, w - 1, 0, w, h)
           IN  After(g, Step(t, g.width, g.height))
                 = IF t = "RotateRight" THEN Mapping(0, -1, -1, 0, h - 1, w - 1, h, w)
                   ELSE IF t = "RotateLeft" THEN Mapping(0, 1, 1, 0, 0, 0, h, w)
                   ELSE IF t = "MirrorHorizontal" THEN Mapping(1, 0, 0, 1, 0, 0, w, h)
                   ELSE Mapping(-1, 0, 0, -1, w - 1, h - 1, w, h)
  <1> DEFINE g == Mapping(-1, 0, 0, 1, w - 1, 0, w, h)
  <1>1. g.width = w /\ g.height = h
    BY Extents
  <1>2. After(g, Mapping(0, -1, 1, 0, h - 1, 0, h, w))
          = Mapping(0, -1, -1, 0, h - 1, w - 1, h, w)
    BY DEF After, Mapping
  <1>3. After(g, Mapping(0, 1, -1, 0, 0, w - 1, h, w))
          = Mapping(0, 1, 1, 0, 0, 0, h, w)
    BY DEF After, Mapping
  <1>4. After(g, Mapping(-1, 0, 0, 1, w - 1, 0, w, h))
          = Mapping(1, 0, 0, 1, 0, 0, w, h)
    BY DEF After, Mapping
  <1>5. After(g, Mapping(1, 0, 0, -1, 0, h - 1, w, h))
          = Mapping(-1, 0, 0, -1, w - 1, h - 1, w, h)
    BY DEF After, Mapping
  <1> HIDE DEF g
  <1>6. After(g, Step(t, g.width, g.height))
          = IF t = "RotateRight" THEN Mapping(0, -1, -1, 0, h - 1, w - 1, h, w)
            ELSE IF t = "RotateLeft" THEN Mapping(0, 1, 1, 0, 0, 0, h, w)
            ELSE IF t = "MirrorHorizontal" THEN Mapping(1, 0, 0, 1, 0, 0, w, h)
            ELSE Mapping(-1, 0, 0, -1, w - 1, h - 1, w, h)
    BY <1>1, <1>2, <1>3, <1>4, <1>5, Steps DEF Transforms
  <1> QED BY <1>6 DEF g

LEMMA MirroredRight ==
    ASSUME NEW w \in Int, NEW h \in Int, NEW t \in Transforms
    PROVE  LET g == Mapping(0, -1, -1, 0, h - 1, w - 1, h, w)
           IN  After(g, Step(t, g.width, g.height))
                 = IF t = "RotateRight" THEN Mapping(1, 0, 0, -1, 0, h - 1, w, h)
                   ELSE IF t = "RotateLeft" THEN Mapping(-1, 0, 0, 1, w - 1, 0, w, h)
                   ELSE IF t = "MirrorHorizontal" THEN Mapping(0, 1, -1, 0, 0, w - 1, h, w)
                   ELSE Mapping(0, -1, 1, 0, h - 1, 0, h, w)
  <1> DEFINE g == Mapping(0, -1, -1, 0, h - 1, w - 1, h, w)
  <1>1. g.width = h /\ g.height = w
    BY Extents
  <1>2. After(g, Mapping(0, -1, 1, 0, w - 1, 0, w, h))
          = Mapping(1, 0, 0, -1, 0, h - 1, w, h)
    BY DEF After, Mapping
  <1>3. After(g, Mapping(0, 1, -1, 0, 0, h - 1, w, h))
          = Mapping(-1, 0, 0, 1, w - 1, 0, w, h)
    BY DEF After, Mapping
  <1>4. After(g, Mapping(-1, 0, 0, 1, h - 1, 0, h, w))
          = Mapping(0, 1, -1, 0, 0, w - 1, h, w)
    BY DEF After, Mapping
  <1>5. After(g, Mapping(1, 0, 0, -1, 0, w - 1, h, w))
          = Mapping(0, -1, 1, 0, h - 1, 0, h, w)
    BY DEF After, Mapping
  <1> HIDE DEF g
  <1>6. After(g, Step(t, g.width, g.height))
          = IF t = "RotateRight" THEN Mapping(1, 0, 0, -1, 0, h - 1, w, h)
            ELSE IF t = "RotateLeft" THEN Mapping(-1, 0, 0, 1, w - 1, 0, w, h)
            ELSE IF t = "MirrorHorizontal" THEN Mapping(0, 1, -1, 0, 0, w - 1, h, w)
            ELSE Mapping(0, -1, 1, 0, h - 1, 0, h, w)
    BY <1>1, <1>2, <1>3, <1>4, <1>5, Steps DEF Transforms
  <1> QED BY <1>6 DEF g

LEMMA MirroredHalfTurned ==
    ASSUME NEW w \in Int, NEW h \in Int, NEW t \in Transforms
    PROVE  LET g == Mapping(1, 0, 0, -1, 0, h - 1, w, h)
           IN  After(g, Step(t, g.width, g.height))
                 = IF t = "RotateRight" THEN Mapping(0, 1, 1, 0, 0, 0, h, w)
                   ELSE IF t = "RotateLeft" THEN Mapping(0, -1, -1, 0, h - 1, w - 1, h, w)
                   ELSE IF t = "MirrorHorizontal" THEN Mapping(-1, 0, 0, -1, w - 1, h - 1, w, h)
                   ELSE Mapping(1, 0, 0, 1, 0, 0, w, h)
  <1> DEFINE g == Mapping(1, 0, 0, -1, 0, h - 1, w, h)
  <1>1. g.width = w /\ g.height = h
    BY Extents
  <1>2. After(g, Mapping(0, -1, 1, 0, h - 1, 0, h, w))
          = Mapping(0, 1, 1, 0, 0, 0, h, w)
    BY DEF After, Mapping
  <1>3. After(g, Mapping(0, 1, -1, 0, 0, w - 1, h, w))
          = Mapping(0, -1, -1, 0, h - 1, w - 1, h, w)
    BY DEF After, Mapping
  <1>4. After(g, Mapping(-1, 0, 0, 1, w - 1, 0, w, h))
          = Mapping(-1, 0, 0, -1, w - 1, h - 1, w, h)
    BY DEF After, Mapping
  <1>5. After(g, Mapping(1, 0, 0, -1, 0, h - 1, w, h))
          = Mapping(1, 0, 0, 1, 0, 0, w, h)
    BY DEF After, Mapping
  <1> HIDE DEF g
  <1>6. After(g, Step(t, g.width, g.height))
          = IF t = "RotateRight" THEN Mapping(0, 1, 1, 0, 0, 0, h, w)
            ELSE IF t = "RotateLeft" THEN Mapping(0, -1, -1, 0, h - 1, w - 1, h, w)
            ELSE IF t = "MirrorHorizontal" THEN Mapping(-1, 0, 0, -1, w - 1, h - 1, w, h)
            ELSE Mapping(1, 0, 0, 1, 0, 0, w, h)
    BY <1>1, <1>2, <1>3, <1>4, <1>5, Steps DEF Transforms
  <1> QED BY <1>6 DEF g

LEMMA MirroredLeft ==
    ASSUME NEW w \in Int, NEW h \in Int, NEW t \in Transforms
    PROVE  LET g == Mapping(0, 1, 1, 0, 0, 0, h, w)
           IN  After(g, Step(t, g.width, g.height))
                 = IF t = "RotateRight" THEN Mapping(-1, 0, 0, 1, w - 1, 0, w, h)
                   ELSE IF t = "RotateLeft" THEN Mapping(1, 0, 0, -1, 0, h - 1, w, h)
                   ELSE IF t = "MirrorHorizontal" THEN Mapping(0, -1, 1, 0, h - 1, 0, h, w)
                   ELSE Mapping(0, 1, -1, 0, 0, w - 1, h, w)
  <1> DEFINE g == Mapping(0, 1, 1, 0, 0, 0, h, w)
  <1>1. g.width = h /\ g.height = w
    BY Extents
  <1>2. After(g, Mapping(0, -1, 1, 0, w - 1, 0, w, h))
          = Mapping(-1, 0, 0, 1, w - 1, 0, w, h)
    BY DEF After, Mapping
  <1>3. After(g, Mapping(0, 1, -1, 0, 0, h - 1, w, h))
          = Mapping(1, 0, 0, -1, 0, h - 1, w, h)
    BY DEF After, Mapping
  <1>4. After(g, Mapping(-1, 0, 0, 1, h - 1, 0, h, w))
          = Mapping(0, -1, 1, 0, h - 1, 0, h, w)
    BY DEF After, Mapping
  <1>5. After(g, Mapping(1, 0, 0, -1, 0, w - 1, h, w))
          = Mapping(0, 1, -1, 0, 0, w - 1, h, w)
    BY DEF After, Mapping
  <1> HIDE DEF g
  <1>6. After(g, Step(t, g.width, g.height))
          = IF t = "RotateRight" THEN Mapping(-1, 0, 0, 1, w - 1, 0, w, h)
            ELSE IF t = "RotateLeft" THEN Mapping(1, 0, 0, -1, 0, h - 1, w, h)
            ELSE IF t = "MirrorHorizontal" THEN Mapping(0, -1, 1, 0, h - 1, 0, h, w)
            ELSE Mapping(0, 1, -1, 0, 0, w - 1, h, w)
    BY <1>1, <1>2, <1>3, <1>4, <1>5, Steps DEF Transforms
  <1> QED BY <1>6 DEF g

\* The eight mappings of a stage.
LEMMA Eight ==
    ASSUME NEW w \in Int, NEW h \in Int
    PROVE  /\ GeometryOf(Oriented(0, 0), w, h) = Mapping(1, 0, 0, 1, 0, 0, w, h)
           /\ GeometryOf(Oriented(0, 1), w, h) = Mapping(0, -1, 1, 0, h - 1, 0, h, w)
           /\ GeometryOf(Oriented(0, 2), w, h) = Mapping(-1, 0, 0, -1, w - 1, h - 1, w, h)
           /\ GeometryOf(Oriented(0, 3), w, h) = Mapping(0, 1, -1, 0, 0, w - 1, h, w)
           /\ GeometryOf(Oriented(1, 0), w, h) = Mapping(-1, 0, 0, 1, w - 1, 0, w, h)
           /\ GeometryOf(Oriented(1, 1), w, h) = Mapping(0, -1, -1, 0, h - 1, w - 1, h, w)
           /\ GeometryOf(Oriented(1, 2), w, h) = Mapping(1, 0, 0, -1, 0, h - 1, w, h)
           /\ GeometryOf(Oriented(1, 3), w, h) = Mapping(0, 1, 1, 0, 0, 0, h, w)
  <1>1. /\ QuarterTurn(Mapping(1, 0, 0, 1, 0, 0, w, h))
             = Mapping(0, -1, 1, 0, h - 1, 0, h, w)
        /\ QuarterTurn(Mapping(0, -1, 1, 0, h - 1, 0, h, w))
             = Mapping(-1, 0, 0, -1, w - 1, h - 1, w, h)
        /\ QuarterTurn(Mapping(-1, 0, 0, -1, w - 1, h - 1, w, h))
             = Mapping(0, 1, -1, 0, 0, w - 1, h, w)
        /\ QuarterTurn(Mapping(-1, 0, 0, 1, w - 1, 0, w, h))
             = Mapping(0, -1, -1, 0, h - 1, w - 1, h, w)
        /\ QuarterTurn(Mapping(0, -1, -1, 0, h - 1, w - 1, h, w))
             = Mapping(1, 0, 0, -1, 0, h - 1, w, h)
        /\ QuarterTurn(Mapping(1, 0, 0, -1, 0, h - 1, w, h))
             = Mapping(0, 1, 1, 0, 0, 0, h, w)
    BY Upright, UprightRight, UprightHalfTurned, Mirrored, MirroredRight, MirroredHalfTurned
       DEF QuarterTurn, Transforms
  <1>2. After(Identity(w, h), Step("MirrorHorizontal", w, h)) = Mapping(-1, 0, 0, 1, w - 1, 0, w, h)
    <2>1. "MirrorHorizontal" \in Transforms
      BY DEF Transforms
    <2>2. /\ Mapping(1, 0, 0, 1, 0, 0, w, h).width = w
          /\ Mapping(1, 0, 0, 1, 0, 0, w, h).height = h
      BY Extents
    <2> QED BY <2>1, <2>2, Upright DEF Identity
  <1> QED BY <1>1, <1>2, OrientedFields DEF GeometryOf, Identity

\* Turning the picture of an orientation is the picture of the orientation turned:
\* for every stage, the one mapping that a composed orientation compiles to is the
\* composition of the mappings of the actions.
THEOREM OneMapping ==
    ASSUME NEW o \in Orientations, NEW t \in Transforms, NEW w \in Int, NEW h \in Int
    PROVE  LET g == GeometryOf(o, w, h)
           IN  GeometryOf(Then(o, t), w, h) = After(g, Step(t, g.width, g.height))
  <1>1. PICK m \in 0..1, n \in 0..3 : o = Oriented(m, n)
    BY OrientationFields
  <1>2. CASE m = 0 /\ n = 0
    <2> DEFINE g == Mapping(1, 0, 0, 1, 0, 0, w, h)
               next == After(g, Step(t, g.width, g.height))
    <2>1. /\ Then(o, "RotateRight") = Oriented(0, 1)
          /\ Then(o, "RotateLeft") = Oriented(0, 3)
          /\ Then(o, "MirrorHorizontal") = Oriented(1, 0)
          /\ Then(o, "FlipVertical") = Oriented(1, 2)
      BY <1>1, <1>2, Actions
    <2>2. next = IF t = "RotateRight" THEN Mapping(0, -1, 1, 0, h - 1, 0, h, w)
                 ELSE IF t = "RotateLeft" THEN Mapping(0, 1, -1, 0, 0, w - 1, h, w)
                 ELSE IF t = "MirrorHorizontal" THEN Mapping(-1, 0, 0, 1, w - 1, 0, w, h)
                 ELSE Mapping(1, 0, 0, -1, 0, h - 1, w, h)
      BY Upright
    <2>3. GeometryOf(o, w, h) = g
      BY <1>1, <1>2, Eight
    <2> HIDE DEF g, next
    <2>4. GeometryOf(Then(o, t), w, h) = next
      BY <2>1, <2>2, Eight DEF Transforms
    <2> QED BY <2>3, <2>4 DEF next
  <1>3. CASE m = 0 /\ n = 1
    <2> DEFINE g == Mapping(0, -1, 1, 0, h - 1, 0, h, w)
               next == After(g, Step(t, g.width, g.height))
    <2>1. /\ Then(o, "RotateRight") = Oriented(0, 2)
          /\ Then(o, "RotateLeft") = Oriented(0, 0)
          /\ Then(o, "MirrorHorizontal") = Oriented(1, 3)
          /\ Then(o, "FlipVertical") = Oriented(1, 1)
      BY <1>1, <1>3, Actions
    <2>2. next = IF t = "RotateRight" THEN Mapping(-1, 0, 0, -1, w - 1, h - 1, w, h)
                 ELSE IF t = "RotateLeft" THEN Mapping(1, 0, 0, 1, 0, 0, w, h)
                 ELSE IF t = "MirrorHorizontal" THEN Mapping(0, 1, 1, 0, 0, 0, h, w)
                 ELSE Mapping(0, -1, -1, 0, h - 1, w - 1, h, w)
      BY UprightRight
    <2>3. GeometryOf(o, w, h) = g
      BY <1>1, <1>3, Eight
    <2> HIDE DEF g, next
    <2>4. GeometryOf(Then(o, t), w, h) = next
      BY <2>1, <2>2, Eight DEF Transforms
    <2> QED BY <2>3, <2>4 DEF next
  <1>4. CASE m = 0 /\ n = 2
    <2> DEFINE g == Mapping(-1, 0, 0, -1, w - 1, h - 1, w, h)
               next == After(g, Step(t, g.width, g.height))
    <2>1. /\ Then(o, "RotateRight") = Oriented(0, 3)
          /\ Then(o, "RotateLeft") = Oriented(0, 1)
          /\ Then(o, "MirrorHorizontal") = Oriented(1, 2)
          /\ Then(o, "FlipVertical") = Oriented(1, 0)
      BY <1>1, <1>4, Actions
    <2>2. next = IF t = "RotateRight" THEN Mapping(0, 1, -1, 0, 0, w - 1, h, w)
                 ELSE IF t = "RotateLeft" THEN Mapping(0, -1, 1, 0, h - 1, 0, h, w)
                 ELSE IF t = "MirrorHorizontal" THEN Mapping(1, 0, 0, -1, 0, h - 1, w, h)
                 ELSE Mapping(-1, 0, 0, 1, w - 1, 0, w, h)
      BY UprightHalfTurned
    <2>3. GeometryOf(o, w, h) = g
      BY <1>1, <1>4, Eight
    <2> HIDE DEF g, next
    <2>4. GeometryOf(Then(o, t), w, h) = next
      BY <2>1, <2>2, Eight DEF Transforms
    <2> QED BY <2>3, <2>4 DEF next
  <1>5. CASE m = 0 /\ n = 3
    <2> DEFINE g == Mapping(0, 1, -1, 0, 0, w - 1, h, w)
               next == After(g, Step(t, g.width, g.height))
    <2>1. /\ Then(o, "RotateRight") = Oriented(0, 0)
          /\ Then(o, "RotateLeft") = Oriented(0, 2)
          /\ Then(o, "MirrorHorizontal") = Oriented(1, 1)
          /\ Then(o, "FlipVertical") = Oriented(1, 3)
      BY <1>1, <1>5, Actions
    <2>2. next = IF t = "RotateRight" THEN Mapping(1, 0, 0, 1, 0, 0, w, h)
                 ELSE IF t = "RotateLeft" THEN Mapping(-1, 0, 0, -1, w - 1, h - 1, w, h)
                 ELSE IF t = "MirrorHorizontal" THEN Mapping(0, -1, -1, 0, h - 1, w - 1, h, w)
                 ELSE Mapping(0, 1, 1, 0, 0, 0, h, w)
      BY UprightLeft
    <2>3. GeometryOf(o, w, h) = g
      BY <1>1, <1>5, Eight
    <2> HIDE DEF g, next
    <2>4. GeometryOf(Then(o, t), w, h) = next
      BY <2>1, <2>2, Eight DEF Transforms
    <2> QED BY <2>3, <2>4 DEF next
  <1>6. CASE m = 1 /\ n = 0
    <2> DEFINE g == Mapping(-1, 0, 0, 1, w - 1, 0, w, h)
               next == After(g, Step(t, g.width, g.height))
    <2>1. /\ Then(o, "RotateRight") = Oriented(1, 1)
          /\ Then(o, "RotateLeft") = Oriented(1, 3)
          /\ Then(o, "MirrorHorizontal") = Oriented(0, 0)
          /\ Then(o, "FlipVertical") = Oriented(0, 2)
      BY <1>1, <1>6, Actions
    <2>2. next = IF t = "RotateRight" THEN Mapping(0, -1, -1, 0, h - 1, w - 1, h, w)
                 ELSE IF t = "RotateLeft" THEN Mapping(0, 1, 1, 0, 0, 0, h, w)
                 ELSE IF t = "MirrorHorizontal" THEN Mapping(1, 0, 0, 1, 0, 0, w, h)
                 ELSE Mapping(-1, 0, 0, -1, w - 1, h - 1, w, h)
      BY Mirrored
    <2>3. GeometryOf(o, w, h) = g
      BY <1>1, <1>6, Eight
    <2> HIDE DEF g, next
    <2>4. GeometryOf(Then(o, t), w, h) = next
      BY <2>1, <2>2, Eight DEF Transforms
    <2> QED BY <2>3, <2>4 DEF next
  <1>7. CASE m = 1 /\ n = 1
    <2> DEFINE g == Mapping(0, -1, -1, 0, h - 1, w - 1, h, w)
               next == After(g, Step(t, g.width, g.height))
    <2>1. /\ Then(o, "RotateRight") = Oriented(1, 2)
          /\ Then(o, "RotateLeft") = Oriented(1, 0)
          /\ Then(o, "MirrorHorizontal") = Oriented(0, 3)
          /\ Then(o, "FlipVertical") = Oriented(0, 1)
      BY <1>1, <1>7, Actions
    <2>2. next = IF t = "RotateRight" THEN Mapping(1, 0, 0, -1, 0, h - 1, w, h)
                 ELSE IF t = "RotateLeft" THEN Mapping(-1, 0, 0, 1, w - 1, 0, w, h)
                 ELSE IF t = "MirrorHorizontal" THEN Mapping(0, 1, -1, 0, 0, w - 1, h, w)
                 ELSE Mapping(0, -1, 1, 0, h - 1, 0, h, w)
      BY MirroredRight
    <2>3. GeometryOf(o, w, h) = g
      BY <1>1, <1>7, Eight
    <2> HIDE DEF g, next
    <2>4. GeometryOf(Then(o, t), w, h) = next
      BY <2>1, <2>2, Eight DEF Transforms
    <2> QED BY <2>3, <2>4 DEF next
  <1>8. CASE m = 1 /\ n = 2
    <2> DEFINE g == Mapping(1, 0, 0, -1, 0, h - 1, w, h)
               next == After(g, Step(t, g.width, g.height))
    <2>1. /\ Then(o, "RotateRight") = Oriented(1, 3)
          /\ Then(o, "RotateLeft") = Oriented(1, 1)
          /\ Then(o, "MirrorHorizontal") = Oriented(0, 2)
          /\ Then(o, "FlipVertical") = Oriented(0, 0)
      BY <1>1, <1>8, Actions
    <2>2. next = IF t = "RotateRight" THEN Mapping(0, 1, 1, 0, 0, 0, h, w)
                 ELSE IF t = "RotateLeft" THEN Mapping(0, -1, -1, 0, h - 1, w - 1, h, w)
                 ELSE IF t = "MirrorHorizontal" THEN Mapping(-1, 0, 0, -1, w - 1, h - 1, w, h)
                 ELSE Mapping(1, 0, 0, 1, 0, 0, w, h)
      BY MirroredHalfTurned
    <2>3. GeometryOf(o, w, h) = g
      BY <1>1, <1>8, Eight
    <2> HIDE DEF g, next
    <2>4. GeometryOf(Then(o, t), w, h) = next
      BY <2>1, <2>2, Eight DEF Transforms
    <2> QED BY <2>3, <2>4 DEF next
  <1>9. CASE m = 1 /\ n = 3
    <2> DEFINE g == Mapping(0, 1, 1, 0, 0, 0, h, w)
               next == After(g, Step(t, g.width, g.height))
    <2>1. /\ Then(o, "RotateRight") = Oriented(1, 0)
          /\ Then(o, "RotateLeft") = Oriented(1, 2)
          /\ Then(o, "MirrorHorizontal") = Oriented(0, 1)
          /\ Then(o, "FlipVertical") = Oriented(0, 3)
      BY <1>1, <1>9, Actions
    <2>2. next = IF t = "RotateRight" THEN Mapping(-1, 0, 0, 1, w - 1, 0, w, h)
                 ELSE IF t = "RotateLeft" THEN Mapping(1, 0, 0, -1, 0, h - 1, w, h)
                 ELSE IF t = "MirrorHorizontal" THEN Mapping(0, -1, 1, 0, h - 1, 0, h, w)
                 ELSE Mapping(0, 1, -1, 0, 0, w - 1, h, w)
      BY MirroredLeft
    <2>3. GeometryOf(o, w, h) = g
      BY <1>1, <1>9, Eight
    <2> HIDE DEF g, next
    <2>4. GeometryOf(Then(o, t), w, h) = next
      BY <2>1, <2>2, Eight DEF Transforms
    <2> QED BY <2>3, <2>4 DEF next
  <1> QED BY <1>2, <1>3, <1>4, <1>5, <1>6, <1>7, <1>8, <1>9

-----------------------------------------------------------------------------
\* A chain of units, tile by tile.

\* A span within a stage of this size.
Within(span, size) ==
    /\ span.lo \in Nat /\ span.hi \in Nat /\ span.hi <= size

\* A span covers another grown by a halo and clamped to the stage.
Covers(outer, inner, halo, size) ==
    /\ outer.lo <= Greater(inner.lo - halo, 0)
    /\ outer.hi >= Lesser(inner.hi + halo, size)

\* The span of a tile, as far as the proof needs it.
TileLike(span, size) ==
    /\ span.lo \in Nat /\ span.hi \in Nat
    /\ span.lo <= span.hi /\ span.hi <= size
TileShaped(t) == TileLike(t.x, stage.width) /\ TileLike(t.y, stage.height)

Spent == Summed - Rest(index + 1)

Job ==
    /\ stage.width \in Nat \ {0} /\ stage.height \in Nat \ {0}
    /\ halos \in Seq(Nat) /\ Len(halos) \in 1 .. MaxUnits
    /\ mask.covered \subseteq mask.bounds
    /\ asked # Everything => asked \in Pixels

Ready ==
    /\ \A t \in left : TileShaped(t)
    /\ step \in {"tile", "chain"} => TileShaped(tile)

ChainHolds ==
    /\ index \in 0 .. Units
    /\ Within(region.x, stage.width) /\ Within(region.y, stage.height)
    /\ Covers(region.x, tile.x, Rest(index + 1), stage.width)
    /\ Covers(region.y, tile.y, Rest(index + 1), stage.height)
    /\ DOMAIN values = Inside(region)
    /\ \A p \in Inside(region) : values[p] = Box(p, Spent)
    /\ input = [p \in Inside(tile) |-> {p}]

IInv ==
    /\ Job
    /\ Ready
    /\ step = "chain" => ChainHolds
    /\ FrameAsWhole

---------------------------------------------------------------------------
\* Spans.

LEMMA GrownCovers ==
    ASSUME NEW span, NEW size \in Nat, NEW halo \in Nat, TileLike(span, size)
    PROVE  /\ Within(GrownSpan(span, halo, size), size)
           /\ Covers(GrownSpan(span, halo, size), span, halo, size)
BY DEF TileLike, Within, GrownSpan, Covers, Greater, Lesser

LEMMA CoversLess ==
    ASSUME NEW outer, NEW inner, NEW size \in Nat, NEW halo \in Nat,
           Within(outer, size), TileLike(inner, size), Covers(outer, inner, halo, size)
    PROVE  Covers(outer, inner, 0, size)
BY DEF TileLike, Within, Covers, Greater, Lesser

LEMMA ShrunkCovers ==
    ASSUME NEW outer, NEW inner, NEW size \in Nat, NEW halo \in Nat, NEW rest \in Nat,
           Within(outer, size), TileLike(inner, size),
           Covers(outer, inner, halo + rest, size)
    PROVE  /\ Within(ShrunkSpan(outer, halo, size), size)
           /\ Covers(ShrunkSpan(outer, halo, size), inner, rest, size)
<1>1. /\ ShrunkSpan(outer, halo, size).lo =
            (IF outer.lo = 0 THEN 0 ELSE outer.lo + halo)
      /\ ShrunkSpan(outer, halo, size).hi =
            Greater(IF outer.lo = 0 THEN 0 ELSE outer.lo + halo,
                    IF outer.hi >= size THEN size ELSE Greater(outer.hi - halo, 0))
  BY DEF ShrunkSpan
<1> QED
  BY <1>1 DEF TileLike, Within, Covers, Greater, Lesser

\* What a unit writes has its neighbours, clamped to the stage, in what it reads.
LEMMA NeighboursInSpan ==
    ASSUME NEW span, NEW size \in Nat, NEW halo \in Nat, Within(span, size),
           NEW a \in 0 .. size - 1, NEW b \in 0 .. size - 1,
           InSpan(ShrunkSpan(span, halo, size), a), Near(a, b, halo)
    PROVE  InSpan(span, b)
<1>1. /\ ShrunkSpan(span, halo, size).lo =
            (IF span.lo = 0 THEN 0 ELSE span.lo + halo)
      /\ ShrunkSpan(span, halo, size).hi =
            Greater(IF span.lo = 0 THEN 0 ELSE span.lo + halo,
                    IF span.hi >= size THEN size ELSE Greater(span.hi - halo, 0))
  BY DEF ShrunkSpan
<1> QED
  BY <1>1 DEF InSpan, Near, Within, Greater

LEMMA Contained ==
    ASSUME NEW outer, NEW inner, NEW size \in Nat, Within(outer, size),
           TileLike(inner, size), Covers(outer, inner, 0, size),
           NEW a \in 0 .. size - 1, InSpan(inner, a)
    PROVE  InSpan(outer, a)
BY DEF InSpan, Covers, TileLike, Within, Greater, Lesser

\* Two pixels that two units' halos span have a pixel of the stage between them.
LEMMA Between ==
    ASSUME NEW size \in Nat, NEW a \in 0 .. size - 1, NEW b \in 0 .. size - 1,
           NEW near \in Nat, NEW far \in Nat, Near(a, b, near + far)
    PROVE  \E c \in 0 .. size - 1 : Near(a, c, near) /\ Near(c, b, far)
<1>1. CASE b - a > near
  <2>1. a + near \in 0 .. size - 1 /\ Near(a, a + near, near) /\ Near(a + near, b, far)
    BY <1>1 DEF Near
  <2> QED BY <2>1
<1>2. CASE a - b > near
  <2>1. a - near \in 0 .. size - 1 /\ Near(a, a - near, near) /\ Near(a - near, b, far)
    BY <1>2 DEF Near
  <2> QED BY <2>1
<1>3. CASE b - a <= near /\ a - b <= near
  <2>1. Near(a, b, near) /\ Near(b, b, far)
    BY <1>3 DEF Near
  <2> QED BY <2>1
<1> QED BY <1>1, <1>2, <1>3

LEMMA Further ==
    ASSUME NEW a \in Int, NEW b \in Int, NEW c \in Int, NEW near \in Nat, NEW far \in Nat,
           Near(a, b, near), Near(b, c, far)
    PROVE  Near(a, c, near + far)
BY DEF Near

---------------------------------------------------------------------------
\* Boxes of pixels.

LEMMA Grid ==
    ASSUME Job
    PROVE  /\ \A p \in Pixels : /\ p[1] \in 0 .. stage.width - 1
                                /\ p[2] \in 0 .. stage.height - 1
                                /\ p = <<p[1], p[2]>>
           /\ \A a \in 0 .. stage.width - 1, b \in 0 .. stage.height - 1 :
                 <<a, b>> \in Pixels
BY DEF Pixels, Frame, Job

LEMMA BoxOfNone ==
    ASSUME Job, NEW p \in Pixels
    PROVE  Box(p, 0) = {p}
<1>1. p \in Box(p, 0)
  BY Grid DEF Box, Near
<1>2. ASSUME NEW q \in Box(p, 0)
      PROVE  q = p
  <2>1. q \in Pixels /\ Near(p[1], q[1], 0) /\ Near(p[2], q[2], 0)
    BY DEF Box
  <2>2. q[1] = p[1] /\ q[2] = p[2]
    BY <2>1, Grid DEF Near
  <2> QED BY <2>1, <2>2, Grid
<1> QED BY <1>1, <1>2

\* One unit after others: the neighbours' boxes make one larger box.
LEMMA BoxOfBoxes ==
    ASSUME Job, NEW p \in Pixels, NEW near \in Nat, NEW far \in Nat
    PROVE  UNION {Box(q, far) : q \in Box(p, near)} = Box(p, near + far)
<1>1. ASSUME NEW r \in Box(p, near + far)
      PROVE  \E q \in Box(p, near) : r \in Box(q, far)
  <2>1. r \in Pixels /\ Near(p[1], r[1], near + far) /\ Near(p[2], r[2], near + far)
    BY DEF Box
  <2>2. PICK a \in 0 .. stage.width - 1 : Near(p[1], a, near) /\ Near(a, r[1], far)
    BY <2>1, Between, Grid DEF Job
  <2>3. PICK b \in 0 .. stage.height - 1 : Near(p[2], b, near) /\ Near(b, r[2], far)
    BY <2>1, Between, Grid DEF Job
  <2>4. <<a, b>> \in Box(p, near)
    BY <2>2, <2>3, Grid DEF Box
  <2>5. r \in Box(<<a, b>>, far)
    BY <2>1, <2>2, <2>3 DEF Box
  <2> QED BY <2>4, <2>5
<1>2. ASSUME NEW q \in Box(p, near), NEW r \in Box(q, far)
      PROVE  r \in Box(p, near + far)
  <2>1. /\ q \in Pixels /\ Near(p[1], q[1], near) /\ Near(p[2], q[2], near)
        /\ r \in Pixels /\ Near(q[1], r[1], far) /\ Near(q[2], r[2], far)
    BY DEF Box
  <2>2. Near(p[1], r[1], near + far) /\ Near(p[2], r[2], near + far)
    BY <2>1, Further, Grid
  <2> QED BY <2>1, <2>2 DEF Box
<1> QED BY <1>1, <1>2

---------------------------------------------------------------------------
\* Halos.

LEMMA Rests ==
    ASSUME Job
    PROVE  /\ \A i \in 1 .. 5 : Rest(i) \in Nat
           /\ \A i \in 1 .. Units :
                 halos[i] \in Nat /\ Rest(i) = halos[i] + Rest(i + 1)
           /\ Rest(Units + 1) = 0
<1>1. \A i \in 1 .. 4 : Halo(i) \in Nat
  BY DEF Halo, Job
<1>2. \A i \in 1 .. Units : halos[i] \in Nat /\ Halo(i) = halos[i]
  BY DEF Halo, Job, Units
<1>3. \A i \in 1 .. 5 : i > Units => Halo(i) = 0
  BY DEF Halo, Job, Units
<1>4. /\ Rest(1) = Halo(1) + Halo(2) + Halo(3) + Halo(4)
      /\ Rest(2) = Halo(2) + Halo(3) + Halo(4)
      /\ Rest(3) = Halo(3) + Halo(4)
      /\ Rest(4) = Halo(4)
      /\ Rest(5) = 0
  BY <1>1 DEF Rest, From
<1>5. Units \in 1 .. 4
  BY DEF Job, Units, MaxUnits
<1>6. \A i \in 1 .. 5 : Rest(i) \in Nat
  BY <1>1, <1>4
<1>7. \A i \in 1 .. 4 : Rest(i) = Halo(i) + Rest(i + 1)
  <2>1. Halo(1) \in Nat /\ Halo(2) \in Nat /\ Halo(3) \in Nat /\ Halo(4) \in Nat
    BY <1>1
  <2>2. /\ Rest(1) = Halo(1) + Rest(2) /\ Rest(2) = Halo(2) + Rest(3)
        /\ Rest(3) = Halo(3) + Rest(4) /\ Rest(4) = Halo(4) + Rest(5)
    BY <1>4, <2>1
  <2>3. 1 + 1 = 2 /\ 2 + 1 = 3 /\ 3 + 1 = 4 /\ 4 + 1 = 5 /\ 1 .. 4 = {1, 2, 3, 4}
    OBVIOUS
  <2> QED BY <2>2, <2>3
<1>8. Rest(Units + 1) = 0
  <2>2. CASE Units = 1
    <3>1. Halo(2) = 0 /\ Halo(3) = 0 /\ Halo(4) = 0
      BY <1>3, <2>2
    <3> QED BY <1>4, <2>2, <3>1
  <2>3. CASE Units = 2
    <3>1. Halo(3) = 0 /\ Halo(4) = 0
      BY <1>3, <2>3
    <3> QED BY <1>4, <2>3, <3>1
  <2>4. CASE Units = 3
    <3>1. Halo(4) = 0
      BY <1>3, <2>4
    <3> QED BY <1>4, <2>4, <3>1
  <2>5. CASE Units = 4
    BY <1>4, <2>5
  <2> QED BY <1>5, <2>2, <2>3, <2>4, <2>5
<1>9. ASSUME NEW i \in 1 .. Units
      PROVE  halos[i] \in Nat /\ Rest(i) = halos[i] + Rest(i + 1)
  <2>1. i \in 1 .. 4
    BY <1>5
  <2> QED BY <1>2, <1>7, <2>1
<1> QED BY <1>6, <1>8, <1>9

---------------------------------------------------------------------------
\* What is written.

\* A copied tile is the tile blended at no coverage.
LEMMA CopyIsBlend ==
    ASSUME Job, NEW t, Copied(t), NEW p \in Inside(t)
    PROVE  Kept({p}) = OfWholeFrame(p)
<1>1. mask.there /\ (odd.kind = "negative_zero" => odd.at # p)
  BY DEF Copied, CopiesExactly
<1>2. Coverage(p) # "some"
  <2>1. CASE Reached(t)
    BY <2>1 DEF Copied, Uncovered
  <2>2. CASE ~Reached(t)
    <3>1. p \notin mask.covered
      BY <2>2 DEF Reached, Job
    <3> QED BY <3>1 DEF Coverage
  <2> QED BY <2>1, <2>2
<1> QED
  BY <1>1, <1>2 DEF Blended, OfWholeFrame

\* A pixel that is not evaluated again has the coverage it is given.
LEMMA KnownIsPlus ==
    ASSUME Job, NEW p \in Known(tile)
    PROVE  Coverage(p) = "plus"
<1>1. p \in Inside(tile) /\ NotAfter(p, p)
  <2>1. p \in Inside(tile)
    BY DEF Known
  <2>2. p[1] \in Int /\ p[2] \in Int
    BY <2>1, Grid DEF Inside, Job
  <2> QED BY <2>1, <2>2 DEF NotAfter
<1> QED BY <1>1 DEF Known

LEMMA TileInside ==
    ASSUME Job, Ready, step = "chain", ChainHolds, index = Units,
           NEW p \in Inside(tile)
    PROVE  p \in Inside(region)
<1>1. Rest(index + 1) = 0
  BY Rests
<1>2. p \in Inside(region)
  <2>1. /\ Within(region.x, stage.width) /\ Within(region.y, stage.height)
        /\ Covers(region.x, tile.x, 0, stage.width)
        /\ Covers(region.y, tile.y, 0, stage.height)
        /\ TileLike(tile.x, stage.width) /\ TileLike(tile.y, stage.height)
    BY <1>1 DEF ChainHolds, Ready, TileShaped
  <2>2. /\ p \in Pixels /\ InSpan(tile.x, p[1]) /\ InSpan(tile.y, p[2])
        /\ p[1] \in 0 .. stage.width - 1 /\ p[2] \in 0 .. stage.height - 1
    BY Grid DEF Inside
  <2>3. InSpan(region.x, p[1])
    BY <2>1, <2>2, Contained DEF Job
  <2>4. InSpan(region.y, p[2])
    BY <2>1, <2>2, Contained DEF Job
  <2> QED BY <2>2, <2>3, <2>4 DEF Inside
<1> QED BY <1>2

LEMMA WrittenIsWhole ==
    ASSUME Job, Ready, step = "chain", ChainHolds, index = Units,
           NEW p \in Inside(tile)
    PROVE  Written(p) = OfWholeFrame(p)
<1>1. Rest(index + 1) = 0 /\ Summed \in Nat
  BY Rests DEF Summed
<1>2. p \in Inside(region)
  BY TileInside
<1>3. values[p] = Box(p, Summed) /\ input[p] = {p}
  <2>1. Spent = Summed
    BY <1>1 DEF Spent
  <2> QED BY <1>2, <2>1 DEF ChainHolds
<1>4. (IF p \in Known(tile) THEN "plus" ELSE Coverage(p)) = Coverage(p)
  BY KnownIsPlus
<1> QED BY <1>3, <1>4 DEF Written, OfWholeFrame

\* What the whole frame holds depends on the job alone.
LEMMA SameJob ==
    ASSUME UNCHANGED job
    PROVE  \A p : OfWholeFrame(p)' = OfWholeFrame(p)
<1>1. ASSUME NEW p
      PROVE  OfWholeFrame(p)' = OfWholeFrame(p)
  <2>1. halos' = halos /\ stage' = stage /\ mask' = mask /\ odd' = odd
    BY DEF job
  <2>2. Summed' = Summed
    BY <2>1 DEF Summed, Rest, From, Halo
  <2>3. Box(p, Summed)' = Box(p, Summed)
    BY <2>1, <2>2 DEF Box, Pixels
  <2>4. Coverage(p)' = Coverage(p)
    BY <2>1 DEF Coverage
  <2> HIDE DEF Summed
  <2> QED BY <2>1, <2>3, <2>4 DEF OfWholeFrame, Blended
<1> QED BY <1>1

\* The pixels placed are the tile's, the others stay.
LEMMA PlacedWhole ==
    ASSUME NEW result, FrameAsWhole, Placed(result), UNCHANGED job,
           \A p \in Inside(tile) : result[p] = OfWholeFrame(p)
    PROVE  FrameAsWhole'
<1>1. \A p : OfWholeFrame(p)' = OfWholeFrame(p)
  BY SameJob
<1>2. ASSUME NEW p \in DOMAIN frame'
      PROVE  frame'[p] = OfWholeFrame(p)
  <2>1. CASE p \in Inside(tile)
    BY <2>1 DEF Placed
  <2>2. CASE p \notin Inside(tile)
    BY <2>2 DEF Placed, FrameAsWhole
  <2> QED BY <2>1, <2>2
<1> QED BY <1>1, <1>2 DEF FrameAsWhole

---------------------------------------------------------------------------
\* The steps.

LEMMA JobKept ==
    ASSUME Job, UNCHANGED job
    PROVE  Job'
BY DEF Job, job, Pixels

LEMMA ReadyKept ==
    ASSUME Ready, UNCHANGED job, left' \subseteq left, tile' = tile,
           step' \in {"tile", "chain"} => step \in {"tile", "chain"}
    PROVE  Ready'
<1>1. stage' = stage
  BY DEF job
<1> QED BY <1>1 DEF Ready, TileShaped

LEMMA FrameKept ==
    ASSUME FrameAsWhole, UNCHANGED job, frame' = frame
    PROVE  FrameAsWhole'
<1>1. \A p : OfWholeFrame(p)' = OfWholeFrame(p)
  BY SameJob
<1> QED BY <1>1 DEF FrameAsWhole

\* A tile of the stage's grid, and a pixel's tile, lie in the stage.
LEMMA TilesFit ==
    ASSUME Job
    PROVE  /\ \A t \in Tiles : TileShaped(t)
           /\ \A p \in Pixels : TileShaped(TileContaining(p))
<1>1. Side \in Nat \ {0}
  BY TileChainAssumption
<1>2. ASSUME NEW size \in Nat, NEW lo \in Nat, lo <= size
      PROVE  TileLike(TileSpan(lo, size), size)
  BY <1>1, <1>2 DEF TileLike, TileSpan, Lesser
<1>3. ASSUME NEW a \in Nat
      PROVE  (a \div Side) * Side \in Nat /\ (a \div Side) * Side <= a
  BY <1>1
<1>4. ASSUME NEW t \in Tiles
      PROVE  TileShaped(t)
  <2>1. PICK p \in Starts(stage.width) \X Starts(stage.height) :
           t = [x |-> TileSpan(p[1], stage.width), y |-> TileSpan(p[2], stage.height)]
    BY DEF Tiles
  <2>2. /\ p[1] \in Nat /\ p[1] <= stage.width
        /\ p[2] \in Nat /\ p[2] <= stage.height
        /\ stage.width \in Nat /\ stage.height \in Nat
    BY DEF Starts, Job
  <2> QED BY <1>2, <2>1, <2>2 DEF TileShaped
<1>5. ASSUME NEW p \in Pixels
      PROVE  TileShaped(TileContaining(p))
  <2>1. /\ p[1] \in Nat /\ p[1] <= stage.width
        /\ p[2] \in Nat /\ p[2] <= stage.height
        /\ stage.width \in Nat /\ stage.height \in Nat
    BY Grid DEF Job
  <2>2. /\ (p[1] \div Side) * Side \in Nat /\ (p[1] \div Side) * Side <= stage.width
        /\ (p[2] \div Side) * Side \in Nat /\ (p[2] \div Side) * Side <= stage.height
    BY <1>3, <2>1
  <2> QED BY <1>2, <2>1, <2>2 DEF TileShaped, TileContaining
<1> QED BY <1>4, <1>5

LEMMA InitSound ==
    ASSUME Init
    PROVE  IInv
<1>1. Job
  <2>1. stage.width \in Nat \ {0} /\ stage.height \in Nat \ {0}
    BY TileChainAssumption DEF Init
  <2>2. PICK units \in 1 .. MaxUnits : halos \in [1 .. units -> Nat]
    BY TileChainAssumption DEF Init
  <2>3. halos \in Seq(Nat) /\ Len(halos) = units
    BY <2>2 DEF MaxUnits
  <2>4. mask.covered \subseteq mask.bounds
    <3>1. CASE mask = NoMask
      BY <3>1 DEF NoMask
    <3>2. CASE mask = WholeMask(stage)
      BY <3>2 DEF WholeMask
    <3>3. CASE mask \in MasksOver(stage)
      BY <3>3 DEF MasksOver
    <3> QED BY <3>1, <3>2, <3>3 DEF Init
  <2>5. asked # Everything => asked \in Pixels
    BY DEF Init
  <2> QED BY <2>1, <2>2, <2>3, <2>4, <2>5 DEF Job
<1>2. Ready
  BY DEF Init, Ready
<1>3. FrameAsWhole
  BY DEF Init, FrameAsWhole
<1>4. step = "plan"
  BY DEF Init
<1> QED BY <1>1, <1>2, <1>3, <1>4 DEF IInv

\* The first rectangle of a chain and the input pixels in it.
LEMMA FillSound ==
    ASSUME IInv, Fill
    PROVE  ChainHolds'
<1>1. Job /\ TileShaped(tile) /\ stage' = stage /\ halos' = halos /\ tile' = tile
  BY DEF IInv, Fill, Ready, job
<1>2. Summed \in Nat /\ Units \in Nat
  BY <1>1, Rests DEF Summed, Job, Units
<1>3. Summed' = Summed /\ Units' = Units /\ Rest(index + 1)' = Summed
  <2>1. index' + 1 = 1
    BY DEF Fill
  <2> QED BY <1>1, <2>1 DEF Summed, Units, Rest, From, Halo
<1>4. /\ Within(region'.x, stage.width) /\ Covers(region'.x, tile.x, Summed, stage.width)
      /\ Within(region'.y, stage.height) /\ Covers(region'.y, tile.y, Summed, stage.height)
  <2>1. /\ region'.x = GrownSpan(tile.x, Summed, stage.width)
        /\ region'.y = GrownSpan(tile.y, Summed, stage.height)
    BY DEF Fill, Filled, Grown
  <2> QED BY <1>1, <1>2, <2>1, GrownCovers DEF TileShaped, Job
<1>5. Inside(region)' = Inside(Filled) /\ Inside(tile)' = Inside(tile)
  BY <1>1 DEF Inside, Pixels, Fill
<1>6. ASSUME NEW p \in Inside(Filled)
      PROVE  values'[p] = Box(p, Spent)'
  <2>1. values'[p] = {p} /\ p \in Pixels
    BY DEF Fill, FirstValues, Inside
  <2>2. Spent' = 0
    BY <1>2, <1>3 DEF Spent
  <2>3. Box(p, Spent)' = Box(p, 0)
    BY <1>1, <2>2 DEF Box, Pixels
  <2> QED BY <1>1, <2>1, <2>3, BoxOfNone
<1>7. input' = [p \in Inside(tile) |-> {p}]
  <2>1. \A p \in Inside(tile) : p \in Inside(Filled)
    <3>1. /\ Within(Filled.x, stage.width) /\ Covers(Filled.x, tile.x, Summed, stage.width)
          /\ Within(Filled.y, stage.height) /\ Covers(Filled.y, tile.y, Summed, stage.height)
      BY <1>4 DEF Fill
    <3>2. /\ Covers(Filled.x, tile.x, 0, stage.width)
          /\ Covers(Filled.y, tile.y, 0, stage.height)
      BY <1>1, <1>2, <3>1, CoversLess DEF TileShaped, Job
    <3>3. ASSUME NEW p \in Inside(tile)
          PROVE  p \in Inside(Filled)
      <4>1. /\ p \in Pixels /\ InSpan(tile.x, p[1]) /\ InSpan(tile.y, p[2])
            /\ p[1] \in 0 .. stage.width - 1 /\ p[2] \in 0 .. stage.height - 1
        BY <1>1, Grid DEF Inside
      <4>2. InSpan(Filled.x, p[1])
        BY <1>1, <3>1, <3>2, <4>1, Contained DEF TileShaped, Job
      <4>3. InSpan(Filled.y, p[2])
        BY <1>1, <3>1, <3>2, <4>1, Contained DEF TileShaped, Job
      <4> QED BY <4>1, <4>2, <4>3 DEF Inside
    <3> QED BY <3>3
  <2> QED BY <2>1 DEF Fill, FirstValues
<1>8. DOMAIN values' = Inside(Filled) /\ index' = 0
  BY DEF Fill, FirstValues
<1> QED BY <1>1, <1>2, <1>3, <1>4, <1>5, <1>6, <1>7, <1>8 DEF ChainHolds

\* A unit's output: the rectangle still covers the tile grown by the halos to come,
\* and each of its pixels comes from the halos spent.
LEMMA UnitFinds ==
    ASSUME IInv, step = "chain", index < Units
    PROVE  \A p \in Inside(Output) : Box(p, halos[index + 1]) \subseteq Inside(region)
<1>1. /\ Job /\ Within(region.x, stage.width) /\ Within(region.y, stage.height)
      /\ index + 1 \in 1 .. Units
  BY DEF IInv, ChainHolds, Job, Units
<1>2. halos[index + 1] \in Nat
  BY <1>1, Rests
<1>3. /\ Output.x = ShrunkSpan(region.x, halos[index + 1], stage.width)
      /\ Output.y = ShrunkSpan(region.y, halos[index + 1], stage.height)
  BY DEF Output, Shrunk
<1>4. ASSUME NEW p \in Inside(Output), NEW q \in Box(p, halos[index + 1])
      PROVE  q \in Inside(region)
  <2>1. /\ p \in Pixels /\ InSpan(Output.x, p[1]) /\ InSpan(Output.y, p[2])
        /\ p[1] \in 0 .. stage.width - 1 /\ p[2] \in 0 .. stage.height - 1
    BY <1>1, Grid DEF Inside
  <2>2. /\ q \in Pixels
        /\ Near(p[1], q[1], halos[index + 1]) /\ Near(p[2], q[2], halos[index + 1])
        /\ q[1] \in 0 .. stage.width - 1 /\ q[2] \in 0 .. stage.height - 1
    BY <1>1, Grid DEF Box
  <2>3. InSpan(region.x, q[1])
    BY <1>1, <1>2, <1>3, <2>1, <2>2, NeighboursInSpan DEF Job
  <2>4. InSpan(region.y, q[2])
    BY <1>1, <1>2, <1>3, <2>1, <2>2, NeighboursInSpan DEF Job
  <2> QED BY <2>2, <2>3, <2>4 DEF Inside
<1> QED BY <1>4

LEMMA UnitSound ==
    ASSUME IInv, RunUnit
    PROVE  ChainHolds'
<1> DEFINE h == halos[index + 1]
           rest == Rest(index + 2)
<1>1. /\ Job /\ TileShaped(tile) /\ ChainHolds /\ stage' = stage /\ halos' = halos
      /\ tile' = tile /\ input' = input /\ index' = index + 1 /\ region' = Output
      /\ step = "chain" /\ index < Units /\ values' = Applied
  BY DEF IInv, RunUnit, Ready, job
<1>2. /\ h \in Nat /\ rest \in Nat /\ Rest(index + 1) = h + rest /\ Summed \in Nat
      /\ index + 1 \in 1 .. Units /\ Units \in 1 .. 4 /\ index \in 0 .. 3
  <2>0. index \in 0 .. Units /\ index < Units /\ Units \in 1 .. 4
    <3>1. index \in 0 .. Units
      BY <1>1 DEF ChainHolds
    <3>2. Units \in 1 .. 4
      BY <1>1 DEF Job, Units, MaxUnits
    <3> QED BY <1>1, <3>1, <3>2
  <2>1. /\ index + 1 \in 1 .. Units /\ Units \in 1 .. 4 /\ index + 2 \in 1 .. 5
        /\ index \in 0 .. 3
    BY <2>0
  <2>2. h \in Nat /\ Rest(index + 1) = h + Rest((index + 1) + 1)
    BY <1>1, <2>1, Rests
  <2>3. (index + 1) + 1 = index + 2
    BY <2>0
  <2>4. rest \in Nat /\ Summed \in Nat
    BY <1>1, <2>1, Rests DEF Summed
  <2> QED BY <2>1, <2>2, <2>3, <2>4
<1>3. Summed' = Summed /\ Units' = Units /\ Rest(index + 1)' = rest
  <2>1. index' + 1 = index + 2
    BY <1>1, <1>2
  <2> QED BY <1>1, <2>1 DEF Summed, Units, Rest, From, Halo
<1>4. /\ Within(Output.x, stage.width) /\ Covers(Output.x, tile.x, rest, stage.width)
      /\ Within(Output.y, stage.height) /\ Covers(Output.y, tile.y, rest, stage.height)
  <2>1. /\ Output.x = ShrunkSpan(region.x, h, stage.width)
        /\ Output.y = ShrunkSpan(region.y, h, stage.height)
    BY DEF Output, Shrunk
  <2>2. /\ Within(region.x, stage.width) /\ Covers(region.x, tile.x, h + rest, stage.width)
        /\ Within(region.y, stage.height) /\ Covers(region.y, tile.y, h + rest, stage.height)
    BY <1>1, <1>2 DEF ChainHolds
  <2> QED BY <1>1, <1>2, <2>1, <2>2, ShrunkCovers DEF TileShaped, Job
<1>5. Inside(region)' = Inside(Output) /\ Inside(tile)' = Inside(tile)
  BY <1>1 DEF Inside, Pixels
<1>6. Spent' = h + Spent /\ Spent \in Nat
  <2>1. Spent = Summed - (h + rest) /\ Spent' = Summed - rest
    BY <1>2, <1>3 DEF Spent
  <2>2. h + rest <= Summed
    <3>1. Units \in 1 .. 4 /\ index \in 0 .. 3
      BY <1>1, <1>2
    <3>2. \A i \in 1 .. 4 : Halo(i) \in Nat
      BY <1>1 DEF Halo, Job
    <3>3. Rest(index + 1) <= Rest(1)
      BY <3>1, <3>2 DEF Rest, From
    <3> QED BY <1>2, <3>3 DEF Summed
  <2> QED BY <1>2, <2>1, <2>2
<1>7. ASSUME NEW p \in Inside(Output)
      PROVE  values'[p] = Box(p, Spent)'
  <2>1. p \in Pixels /\ Box(p, h) \subseteq Inside(region)
    BY <1>1, UnitFinds DEF Inside
  <2>2. values'[p] = UNION {values[q] : q \in Box(p, h)}
    <3>1. Box(p, h) \intersect DOMAIN values = Box(p, h)
      BY <1>1, <2>1 DEF ChainHolds
    <3> QED BY <1>1, <3>1 DEF Applied
  <2>3. \A q \in Box(p, h) : values[q] = Box(q, Spent)
    BY <1>1, <2>1 DEF ChainHolds
  <2>4. values'[p] = UNION {Box(q, Spent) : q \in Box(p, h)}
    BY <2>2, <2>3
  <2>5. values'[p] = Box(p, h + Spent)
    BY <1>1, <1>2, <1>6, <2>1, <2>4, BoxOfBoxes
  <2>6. Box(p, Spent)' = Box(p, h + Spent)
    BY <1>1, <1>6 DEF Box, Pixels
  <2> QED BY <2>5, <2>6
<1>8. DOMAIN values' = Inside(Output) /\ index' \in 0 .. Units
  BY <1>1, <1>2 DEF Applied
<1>9. input' = [p \in Inside(tile) |-> {p}]
  BY <1>1 DEF ChainHolds
<1> QED BY <1>1, <1>3, <1>4, <1>5, <1>7, <1>8, <1>9 DEF ChainHolds

\* A tile without coverage is written as it was read.
LEMMA CopySound ==
    ASSUME IInv, step = "tile", Copied(tile), UNCHANGED <<job, left, run>>, step' = "next",
           Placed([p \in Inside(tile) |-> Kept({p})])
    PROVE  IInv'
<1>1. Job' /\ Ready'
  BY JobKept, ReadyKept DEF IInv, run
<1>2. FrameAsWhole'
  <2>1. \A p \in Inside(tile) :
           [q \in Inside(tile) |-> Kept({q})][p] = OfWholeFrame(p)
    BY CopyIsBlend DEF IInv
  <2> QED BY <2>1, PlacedWhole DEF IInv
<1> QED BY <1>1, <1>2 DEF IInv

LEMMA StepSound ==
    ASSUME IInv, [Next]_vars
    PROVE  IInv'
<1>1. Job /\ Ready /\ FrameAsWhole
  BY DEF IInv
<1>2. CASE Refuse
  <2>1. Job' /\ Ready' /\ FrameAsWhole'
    BY <1>1, <1>2, JobKept, ReadyKept, FrameKept DEF Refuse, run
  <2> QED BY <1>2, <2>1 DEF IInv, Refuse
<1>3. CASE Accept
  <2>1. Job' /\ FrameAsWhole' /\ stage' = stage
    BY <1>1, <1>3, JobKept, FrameKept DEF Accept, job
  <2>2. Ready'
    <3>1. \A t \in left' : TileShaped(t)
      <4>1. CASE asked = Everything
        BY <1>1, <1>3, <4>1, TilesFit DEF Accept
      <4>2. CASE asked # Everything
        <5>1. left' = {TileContaining(asked)}
          BY <1>3, <4>2 DEF Accept
        <5>2. TileShaped(TileContaining(asked))
          BY <1>1, <4>2, TilesFit DEF Job
        <5> QED BY <5>1, <5>2
      <4> QED BY <4>1, <4>2
    <3>2. step' = "next"
      BY <1>3 DEF Accept
    <3> QED BY <2>1, <3>1, <3>2 DEF Ready, TileShaped
  <2> QED BY <1>3, <2>1, <2>2 DEF IInv, Accept
<1>4. ASSUME NEW t \in left, Begin(t)
      PROVE  IInv'
  <2>1. Job' /\ FrameAsWhole' /\ stage' = stage
    BY <1>1, <1>4, JobKept, FrameKept DEF Begin, job
  <2>2. Ready'
    BY <1>1, <1>4, <2>1 DEF Begin, Ready, TileShaped
  <2> QED BY <1>4, <2>1, <2>2 DEF IInv, Begin
<1>5. CASE CopyUnread
  BY <1>5, CopySound DEF CopyUnread
<1>6. CASE CopyRead
  BY <1>6, CopySound DEF CopyRead
<1>7. CASE Fill
  <2>1. Job' /\ FrameAsWhole' /\ ChainHolds'
    BY <1>1, <1>7, JobKept, FrameKept, FillSound DEF Fill
  <2>2. Ready'
    BY <1>1, <1>7, ReadyKept DEF Fill
  <2> QED BY <2>1, <2>2 DEF IInv
<1>8. CASE RunUnit
  <2>1. Job' /\ FrameAsWhole' /\ ChainHolds'
    BY <1>1, <1>8, JobKept, FrameKept, UnitSound DEF RunUnit
  <2>2. Ready'
    BY <1>1, <1>8, ReadyKept DEF RunUnit
  <2> QED BY <2>1, <2>2 DEF IInv
<1>9. CASE UnitFails
  <2>1. Job' /\ Ready' /\ FrameAsWhole'
    BY <1>1, <1>9, JobKept, ReadyKept, FrameKept DEF UnitFails, run
  <2> QED BY <1>9, <2>1 DEF IInv, UnitFails
<1>10. CASE Write
  <2>1. step = "chain" /\ index = Units /\ ChainHolds
    BY <1>10 DEF Write, IInv
  <2>2. \A p \in Inside(tile) :
           [q \in Inside(tile) |-> Written(q)][p] = OfWholeFrame(p)
    BY <1>1, <2>1, WrittenIsWhole
  <2>3. FrameAsWhole'
    BY <1>1, <1>10, <2>2, PlacedWhole DEF Write
  <2>4. Job' /\ Ready'
    BY <1>1, <1>10, JobKept, ReadyKept DEF Write, run
  <2> QED BY <1>10, <2>3, <2>4 DEF IInv, Write
<1>11. CASE Finish
  <2>1. Job' /\ Ready' /\ FrameAsWhole'
    BY <1>1, <1>11, JobKept, ReadyKept, FrameKept DEF Finish, run
  <2> QED BY <1>11, <2>1 DEF IInv, Finish
<1>12. CASE UNCHANGED vars
  <2>1. UNCHANGED job /\ UNCHANGED run /\ step' = step /\ left' = left /\ frame' = frame
    BY <1>12 DEF vars, job, run
  <2>2. Job' /\ Ready' /\ FrameAsWhole'
    BY <1>1, <2>1, JobKept, ReadyKept, FrameKept DEF run
  <2>3. ChainHolds' <=> ChainHolds
    BY <2>1 DEF ChainHolds, run, job, Units, Inside, Pixels, Box, Spent, Summed, Rest, From, Halo
  <2> QED BY <2>1, <2>2, <2>3 DEF IInv
<1> QED
  BY <1>2, <1>3, <1>4, <1>5, <1>6, <1>7, <1>8, <1>9, <1>10, <1>11, <1>12 DEF Next, Finished

LEMMA Invariant == Spec => []IInv
BY InitSound, StepSound, PTL DEF Spec

---------------------------------------------------------------------------
\* Every unit of every chain finds the pixels within its halo in the
\* rectangle it is given (Region::grown, Region::shrunk).
THEOREM NeighboursCorrect == Spec => []NeighboursFound
<1>1. IInv => NeighboursFound
  BY UnitFinds DEF NeighboursFound
<1> QED BY <1>1, Invariant, PTL

\* The last rectangle of a chain contains the tile that is taken from it.
THEOREM TileCorrect == Spec => []TileDelivered
<1>1. ASSUME IInv, step = "chain", index = Units, NEW p \in Inside(tile)
      PROVE  p \in Inside(region)
  BY <1>1, TileInside DEF IInv
<1>2. IInv => TileDelivered
  BY <1>1 DEF TileDelivered
<1> QED BY <1>2, Invariant, PTL

\* Whatever the stage, the tile size, the halos, the mask and the odd
\* pixel: what run_tile writes, copied or blended, for a render or for a
\* sample, is the value of one evaluation over the whole frame.
THEOREM FrameCorrect == Spec => []FrameAsWhole
<1>1. IInv => FrameAsWhole
  BY DEF IInv
<1> QED BY <1>1, Invariant, PTL

---------------------------------------------------------------------------
\* The tiles divide the stage.

\* A multiple that is not zero is as large as what it is a multiple of.
LEMMA MultipleAtLeast ==
    ASSUME NEW side \in Nat \ {0}, NEW k \in Int, k >= 1
    PROVE  side * k >= side
OBVIOUS

LEMMA Multiple ==
    ASSUME NEW side \in Nat \ {0}, NEW a \in Nat
    PROVE  /\ a \div side \in Nat /\ a % side \in 0 .. side - 1
           /\ a = side * (a \div side) + (a % side)
OBVIOUS

\* Two multiples less than one apart are the same.
LEMMA MultiplesApart ==
    ASSUME NEW side \in Nat \ {0}, NEW k \in Int, NEW l \in Int,
           side * k < side * l + side, side * l < side * k + side
    PROVE  k = l
<1>1. CASE k - l >= 1
  <2>1. side * (k - l) >= side
    BY <1>1, MultipleAtLeast
  <2>2. side * (k - l) = side * k - side * l
    OBVIOUS
  <2> QED BY <2>1, <2>2
<1>2. CASE l - k >= 1
  <2>1. side * (l - k) >= side
    BY <1>2, MultipleAtLeast
  <2>2. side * (l - k) = side * l - side * k
    OBVIOUS
  <2> QED BY <2>1, <2>2
<1> QED BY <1>1, <1>2

LEMMA MultipleOf ==
    ASSUME NEW side \in Nat \ {0}, NEW k \in Nat
    PROVE  (side * k) % side = 0
<1> DEFINE a == side * k
           q == a \div side
           r == a % side
<1>1. a \in Nat
  OBVIOUS
<1>2. q \in Nat /\ r \in 0 .. side - 1 /\ a = side * q + r
  BY <1>1, Multiple
<1>3. side * k < side * q + side /\ side * q < side * k + side
  <2>1. side * k = side * q + r /\ side * q \in Int /\ side * k \in Int
    BY <1>2
  <2> QED BY <1>2, <2>1
<1> HIDE DEF q, r
<1>4. k = q
  BY <1>2, <1>3, MultiplesApart
<1>5. r = 0
  BY <1>2, <1>4
<1> QED BY <1>5 DEF r

\* The multiple that a number stands in.
LEMMA StartOf ==
    ASSUME NEW size \in Nat, NEW a \in 0 .. size - 1
    PROVE  /\ (a \div Side) * Side \in Starts(size)
           /\ InSpan(TileSpan((a \div Side) * Side, size), a)
<1> DEFINE q == a \div Side
           r == a % Side
<1>1. Side \in Nat \ {0} /\ a \in Nat
  BY TileChainAssumption
<1>2. q \in Nat /\ r \in 0 .. Side - 1 /\ a = Side * q + r
  BY <1>1, Multiple
<1>3. (Side * q) % Side = 0
  BY <1>1, <1>2, MultipleOf
<1> HIDE DEF q, r
<1>4. q * Side = Side * q /\ Side * q \in Nat
  BY <1>1, <1>2
<1>5. q * Side \in Starts(size)
  <2>1. Side * q \in 0 .. size - 1
    BY <1>1, <1>2, <1>4
  <2> QED BY <1>3, <1>4, <2>1 DEF Starts
<1>6. InSpan(TileSpan(q * Side, size), a)
  BY <1>1, <1>2, <1>4 DEF InSpan, TileSpan, Lesser
<1> QED BY <1>5, <1>6 DEF q

\* Two starts whose spans have a number in common are one.
LEMMA OneStart ==
    ASSUME NEW size \in Nat, NEW lo \in Starts(size), NEW other \in Starts(size),
           NEW a \in Int, InSpan(TileSpan(lo, size), a), InSpan(TileSpan(other, size), a)
    PROVE  lo = other
<1>1. Side \in Nat \ {0} /\ lo \in Nat /\ other \in Nat /\ lo % Side = 0 /\ other % Side = 0
  BY TileChainAssumption DEF Starts
<1>2. PICK k \in Nat : lo = Side * k
  <2> DEFINE q == lo \div Side
             r == lo % Side
  <2>1. q \in Nat /\ r = 0 /\ lo = Side * q + r
    BY <1>1, Multiple
  <2> HIDE DEF q, r
  <2>2. lo = Side * q
    BY <1>1, <2>1
  <2> QED BY <2>1, <2>2
<1>3. PICK l \in Nat : other = Side * l
  <2> DEFINE q == other \div Side
             r == other % Side
  <2>1. q \in Nat /\ r = 0 /\ other = Side * q + r
    BY <1>1, Multiple
  <2> HIDE DEF q, r
  <2>2. other = Side * q
    BY <1>1, <2>1
  <2> QED BY <2>1, <2>2
<1>4. lo <= a /\ a < lo + Side /\ other <= a /\ a < other + Side
  BY <1>1 DEF InSpan, TileSpan, Lesser
<1>5. lo < other + Side /\ other < lo + Side
  BY <1>1, <1>4
<1>6. k = l
  BY <1>1, <1>2, <1>3, <1>5, MultiplesApart
<1> QED BY <1>2, <1>3, <1>6

LEMMA OneTile ==
    ASSUME Job, NEW t \in Tiles, NEW u \in Tiles, NEW p \in Inside(t), p \in Inside(u)
    PROVE  t = u
<1>1. PICK s \in Starts(stage.width) \X Starts(stage.height) :
         t = [x |-> TileSpan(s[1], stage.width), y |-> TileSpan(s[2], stage.height)]
  BY DEF Tiles
<1>2. PICK r \in Starts(stage.width) \X Starts(stage.height) :
         u = [x |-> TileSpan(r[1], stage.width), y |-> TileSpan(r[2], stage.height)]
  BY DEF Tiles
<1>3. /\ InSpan(t.x, p[1]) /\ InSpan(t.y, p[2]) /\ InSpan(u.x, p[1]) /\ InSpan(u.y, p[2])
      /\ p[1] \in Int /\ p[2] \in Int /\ stage.width \in Nat /\ stage.height \in Nat
  BY Grid DEF Inside, Job
<1>4. s[1] = r[1]
  BY <1>1, <1>2, <1>3, OneStart
<1>5. s[2] = r[2]
  BY <1>1, <1>2, <1>3, OneStart
<1> QED BY <1>1, <1>2, <1>4, <1>5

\* Every pixel is in the tile that contains it, and that is a tile of the stage.
LEMMA TileOfPixel ==
    ASSUME Job, NEW p \in Pixels
    PROVE  TileContaining(p) \in Tiles /\ p \in Inside(TileContaining(p))
<1> DEFINE lo == (p[1] \div Side) * Side
           top == (p[2] \div Side) * Side
<1>1. /\ p[1] \in 0 .. stage.width - 1 /\ p[2] \in 0 .. stage.height - 1
      /\ stage.width \in Nat /\ stage.height \in Nat
  BY Grid DEF Job
<1>2. lo \in Starts(stage.width) /\ InSpan(TileSpan(lo, stage.width), p[1])
  BY <1>1, StartOf
<1>3. top \in Starts(stage.height) /\ InSpan(TileSpan(top, stage.height), p[2])
  BY <1>1, StartOf
<1>4. TileContaining(p) = [x |-> TileSpan(lo, stage.width), y |-> TileSpan(top, stage.height)]
  BY DEF TileContaining
<1> HIDE DEF lo, top
<1>5. TileContaining(p) \in Tiles
  <2>1. /\ <<lo, top>> \in Starts(stage.width) \X Starts(stage.height)
        /\ <<lo, top>>[1] = lo /\ <<lo, top>>[2] = top
    BY <1>2, <1>3
  <2> QED BY <1>4, <2>1 DEF Tiles
<1>6. p \in Inside(TileContaining(p))
  BY <1>2, <1>3, <1>4 DEF Inside
<1> QED BY <1>5, <1>6

---------------------------------------------------------------------------
\* What is delivered, and what is finite.

\* The tiles asked for, and those of them that are not written yet.
TilesToRun == IF asked = Everything THEN Tiles ELSE {TileContaining(asked)}
Running == step \in {"tile", "chain"}
Missing == left \union (IF Running THEN {tile} ELSE {})
WrittenTiles == UNION {Inside(t) : t \in TilesToRun \ Missing}

DeliveryHolds ==
    /\ step \in {"plan", "refused"} \/ DOMAIN frame = WrittenTiles
    /\ step = "plan" => DOMAIN frame = {} /\ left = {}
    /\ step # "plan" => left \subseteq TilesToRun
    /\ Running => tile \in TilesToRun \ left
    /\ step = "done" => left = {}

FiniteHolds ==
    /\ step = "chain" /\ index > 0 => \A p \in Inside(region) : ~NonFinite(values[p])
    /\ FrameFinite

LEMMA WantedAreTiles ==
    ASSUME Job
    PROVE  TilesToRun \subseteq Tiles
<1>1. CASE asked = Everything
  BY <1>1 DEF TilesToRun
<1>2. CASE asked # Everything
  <2>1. TileContaining(asked) \in Tiles
    BY <1>2, TileOfPixel DEF Job
  <2> QED BY <1>2, <2>1 DEF TilesToRun
<1> QED BY <1>1, <1>2

LEMMA InitDelivers ==
    ASSUME Init
    PROVE  DeliveryHolds /\ FiniteHolds
<1>1. DOMAIN frame = {} /\ left = {}
  <2>1. frame = <<>> /\ left = {}
    BY DEF Init
  <2> QED BY <2>1
<1>2. step = "plan"
  BY DEF Init
<1>3. FrameFinite
  BY <1>1 DEF FrameFinite
<1> QED BY <1>1, <1>2, <1>3 DEF DeliveryHolds, FiniteHolds, Running

\* The grid and what was asked do not change.
LEMMA SameTiles ==
    ASSUME UNCHANGED job
    PROVE  /\ TilesToRun' = TilesToRun
           /\ \A t : Inside(t)' = Inside(t)
<1>1. stage' = stage /\ asked' = asked
  BY DEF job
<1>2. Tiles' = Tiles /\ \A p : TileContaining(p)' = TileContaining(p)
  BY <1>1 DEF Tiles, TileContaining
<1>3. \A t : Inside(t)' = Inside(t)
  BY <1>1 DEF Inside, Pixels
<1> QED BY <1>1, <1>2, <1>3 DEF TilesToRun

\* A tile's pixels are placed: it is missing no longer.
LEMMA PlacedDelivers ==
    ASSUME NEW result, Job, DeliveryHolds, Running, Placed(result),
           UNCHANGED <<job, left>>, step' = "next"
    PROVE  DeliveryHolds'
<1>1. TilesToRun' = TilesToRun /\ \A t : Inside(t)' = Inside(t)
  BY SameTiles
<1>2. DOMAIN frame = WrittenTiles /\ tile \in TilesToRun \ left /\ left \subseteq TilesToRun
  BY DEF DeliveryHolds, Running
<1>3. DOMAIN frame' = DOMAIN frame \union Inside(tile)
  BY DEF Placed
<1>4. ~Running' /\ Missing' = left
  BY DEF Running, Missing
<1>5. WrittenTiles' = UNION {Inside(t) : t \in TilesToRun \ left}
  BY <1>1, <1>4 DEF WrittenTiles
<1>6. TilesToRun \ left = (TilesToRun \ Missing) \union {tile}
  BY <1>2 DEF Missing
<1>7. WrittenTiles' = WrittenTiles \union Inside(tile)
  BY <1>5, <1>6 DEF WrittenTiles
<1> QED BY <1>1, <1>2, <1>3, <1>4, <1>7 DEF DeliveryHolds

LEMMA PlacedFinite ==
    ASSUME NEW result, FrameFinite, Placed(result), UNCHANGED job,
           \A p \in Inside(tile) :
              /\ ~NonFinite(result[p].units)
              /\ odd.kind = "not_finite" => odd.at \notin result[p].from
    PROVE  FrameFinite'
<1>1. odd' = odd
  BY DEF job
<1>2. ASSUME NEW p \in DOMAIN frame'
      PROVE  /\ ~NonFinite(frame'[p].units)
             /\ odd.kind = "not_finite" => odd.at \notin frame'[p].from
  <2>1. CASE p \in Inside(tile)
    BY <2>1 DEF Placed
  <2>2. CASE p \notin Inside(tile)
    BY <2>2 DEF Placed, FrameFinite
  <2> QED BY <2>1, <2>2
<1> QED BY <1>1, <1>2 DEF FrameFinite, NonFinite

\* A copy of a tile that has nothing in it that is not finite.
LEMMA CopyFinite ==
    ASSUME Copied(tile), NEW p \in Inside(tile)
    PROVE  /\ ~NonFinite(Kept({p}).units)
           /\ odd.kind = "not_finite" => odd.at \notin Kept({p}).from
<1>1. Kept({p}).units = {} /\ Kept({p}).from = {p}
  BY DEF Kept, Result
<1>2. odd.kind = "not_finite" => odd.at # p
  BY DEF Copied, CopiesExactly
<1> QED BY <1>1, <1>2 DEF NonFinite

\* What a tile's chain has made is finite, and so is what it started from.
LEMMA WrittenFinite ==
    ASSUME Job, Ready, step = "chain", ChainHolds, index = Units, FiniteHolds,
           NEW p \in Inside(tile)
    PROVE  /\ ~NonFinite(Written(p).units)
           /\ odd.kind = "not_finite" => odd.at \notin Written(p).from
<1>1. p \in Inside(region) /\ index > 0
  BY TileInside DEF Job, Units
<1>2. ~NonFinite(values[p])
  BY <1>1 DEF FiniteHolds
<1>3. p \in values[p] /\ input[p] = {p}
  <2>1. Rest(index + 1) = 0 /\ Summed \in Nat
    BY Rests DEF Summed
  <2>2. Spent = Summed
    BY <2>1 DEF Spent
  <2>3. values[p] = Box(p, Summed)
    BY <1>1, <2>2 DEF ChainHolds
  <2>4. p \in Box(p, Summed)
    <3>1. p \in Pixels /\ p[1] \in Int /\ p[2] \in Int
      BY Grid DEF Inside, Job
    <3>2. Near(p[1], p[1], Summed) /\ Near(p[2], p[2], Summed)
      BY <2>1, <3>1 DEF Near
    <3> QED BY <3>1, <3>2 DEF Box
  <2> QED BY <2>3, <2>4 DEF ChainHolds
<1>4. \/ Written(p).units = values[p] \/ Written(p).units = {}
  BY DEF Written, Blended, Kept, Result
<1>5. Written(p).from = {p} \/ Written(p).from = {}
  BY <1>3 DEF Written, Blended, Kept, Result
<1>6. odd.kind = "not_finite" => odd.at # p
  BY <1>2, <1>3 DEF NonFinite
<1> QED BY <1>2, <1>4, <1>5, <1>6 DEF NonFinite

LEMMA SameDelivers ==
    ASSUME DeliveryHolds, UNCHANGED job, left' = left, tile' = tile, frame' = frame,
           step # "plan", step' = step \/ (step = "tile" /\ step' = "chain")
    PROVE  DeliveryHolds'
<1>1. TilesToRun' = TilesToRun /\ \A t : Inside(t)' = Inside(t)
  BY SameTiles
<1>2. WrittenTiles' = WrittenTiles /\ (Running' <=> Running)
  BY <1>1 DEF WrittenTiles, Missing, Running
<1>3. step' \in {"plan", "refused"} => step \in {"plan", "refused"}
  OBVIOUS
<1>4. step' = "done" => step = "done"
  OBVIOUS
<1>5. step' # "plan"
  OBVIOUS
<1> QED BY <1>1, <1>2, <1>3, <1>4, <1>5 DEF DeliveryHolds

LEMMA StepDelivers ==
    ASSUME IInv, DeliveryHolds, [Next]_vars
    PROVE  DeliveryHolds'
<1>1. Job
  BY DEF IInv
<1>2. CASE Refuse
  BY <1>2 DEF Refuse, DeliveryHolds, Running
<1>3. CASE Accept
  <2>1. /\ TilesToRun' = TilesToRun /\ left' = TilesToRun /\ step' = "next" /\ DOMAIN frame' = {}
        /\ ~Running'
    BY <1>3, SameTiles DEF Accept, TilesToRun, DeliveryHolds, Running
  <2>2. WrittenTiles' = {}
    BY <2>1 DEF WrittenTiles, Missing
  <2> QED BY <2>1, <2>2 DEF DeliveryHolds
<1>4. ASSUME NEW t \in left, Begin(t)
      PROVE  DeliveryHolds'
  <2>1. /\ TilesToRun' = TilesToRun /\ \A u : Inside(u)' = Inside(u)
        /\ left' = left \ {t} /\ tile' = t /\ step' = "tile" /\ step = "next"
        /\ Running' /\ ~Running /\ frame' = frame
    BY <1>4, SameTiles DEF Begin, Running
  <2>2. Missing' = Missing
    BY <2>1 DEF Missing
  <2>3. WrittenTiles' = WrittenTiles
    BY <2>1, <2>2 DEF WrittenTiles
  <2> QED BY <2>1, <2>3 DEF DeliveryHolds
<1>5. CASE CopyUnread
  <2>1. Running
    BY <1>5 DEF CopyUnread, Running
  <2> QED BY <1>1, <1>5, <2>1, PlacedDelivers DEF CopyUnread
<1>6. CASE CopyRead
  <2>1. Running
    BY <1>6 DEF CopyRead, Running
  <2> QED BY <1>1, <1>6, <2>1, PlacedDelivers DEF CopyRead
<1>7. CASE Fill
  BY <1>7, SameDelivers DEF Fill, Running
<1>8. CASE RunUnit
  BY <1>8, SameDelivers DEF RunUnit, Running
<1>9. CASE UnitFails
  <2>1. /\ TilesToRun' = TilesToRun /\ left' = left /\ step' = "refused" /\ step = "chain"
        /\ ~Running'
    BY <1>9, SameTiles DEF UnitFails, Running
  <2> QED BY <2>1 DEF DeliveryHolds
<1>10. CASE Write
  <2>1. Running
    BY <1>10 DEF Write, Running
  <2> QED BY <1>1, <1>10, <2>1, PlacedDelivers DEF Write
<1>11. CASE Finish
  <2>1. /\ TilesToRun' = TilesToRun /\ \A u : Inside(u)' = Inside(u)
        /\ left' = left /\ left = {} /\ step' = "done" /\ step = "next"
        /\ ~Running' /\ ~Running /\ frame' = frame
    BY <1>11, SameTiles DEF Finish, Running
  <2>2. WrittenTiles' = WrittenTiles
    BY <2>1 DEF WrittenTiles, Missing
  <2> QED BY <2>1, <2>2 DEF DeliveryHolds
<1>12. CASE UNCHANGED vars
  <2>1. /\ UNCHANGED job /\ left' = left /\ tile' = tile /\ frame' = frame
        /\ step' = step
    BY <1>12 DEF vars, job
  <2>2. CASE step = "plan"
    <3>1. step' = "plan" /\ DOMAIN frame' = {} /\ left' = {} /\ ~Running'
      BY <2>1, <2>2 DEF DeliveryHolds, Running
    <3> QED BY <3>1 DEF DeliveryHolds
  <2>3. CASE step # "plan"
    BY <2>1, <2>3, SameDelivers
  <2> QED BY <2>2, <2>3
<1> QED
  BY <1>2, <1>3, <1>4, <1>5, <1>6, <1>7, <1>8, <1>9, <1>10, <1>11, <1>12 DEF Next, Finished

LEMMA SameFinite ==
    ASSUME FrameFinite, UNCHANGED job, frame' = frame
    PROVE  FrameFinite'
BY DEF FrameFinite, NonFinite, job

LEMMA StepFinite ==
    ASSUME IInv, FiniteHolds, [Next]_vars
    PROVE  FiniteHolds'
<1>1. Job /\ Ready /\ FrameFinite
  BY DEF IInv, FiniteHolds
<1>2. CASE Refuse
  BY <1>1, <1>2, SameFinite DEF Refuse, FiniteHolds
<1>3. CASE Accept
  BY <1>1, <1>3, SameFinite DEF Accept, FiniteHolds
<1>4. ASSUME NEW t \in left, Begin(t)
      PROVE  FiniteHolds'
  BY <1>1, <1>4, SameFinite DEF Begin, FiniteHolds
<1>5. CASE CopyUnread
  <2>1. Copied(tile) /\ step' = "next" /\ UNCHANGED job
    BY <1>5 DEF CopyUnread
  <2>2. \A p \in Inside(tile) :
           /\ ~NonFinite([q \in Inside(tile) |-> Kept({q})][p].units)
           /\ odd.kind = "not_finite" => odd.at \notin [q \in Inside(tile) |-> Kept({q})][p].from
    BY <2>1, CopyFinite
  <2>3. FrameFinite'
    BY <1>1, <1>5, <2>1, <2>2, PlacedFinite DEF CopyUnread
  <2> QED BY <2>1, <2>3 DEF FiniteHolds
<1>6. CASE CopyRead
  <2>1. Copied(tile) /\ step' = "next" /\ UNCHANGED job
    BY <1>6 DEF CopyRead
  <2>2. \A p \in Inside(tile) :
           /\ ~NonFinite([q \in Inside(tile) |-> Kept({q})][p].units)
           /\ odd.kind = "not_finite" => odd.at \notin [q \in Inside(tile) |-> Kept({q})][p].from
    BY <2>1, CopyFinite
  <2>3. FrameFinite'
    BY <1>1, <1>6, <2>1, <2>2, PlacedFinite DEF CopyRead
  <2> QED BY <2>1, <2>3 DEF FiniteHolds
<1>7. CASE Fill
  <2>1. FrameFinite' /\ index' = 0
    BY <1>1, <1>7, SameFinite DEF Fill
  <2> QED BY <2>1 DEF FiniteHolds
<1>8. CASE RunUnit
  <2>1. FrameFinite' /\ UNCHANGED job
    BY <1>1, <1>8, SameFinite DEF RunUnit
  <2>2. odd' = odd /\ stage' = stage
    BY <2>1 DEF job
  <2>3. region' = Output /\ values' = Applied /\ \A p \in DOMAIN Applied : ~NonFinite(Applied[p])
    BY <1>8 DEF RunUnit
  <2>4. Inside(region)' = DOMAIN Applied
    BY <2>2, <2>3 DEF Applied, Inside, Pixels
  <2>5. \A p \in Inside(region)' : ~NonFinite(values'[p])
    BY <2>3, <2>4
  <2>6. \A p \in Inside(region)' : ~NonFinite(values[p])'
    BY <2>2, <2>5 DEF NonFinite
  <2> QED BY <2>1, <2>6 DEF FiniteHolds
<1>9. CASE UnitFails
  BY <1>1, <1>9, SameFinite DEF UnitFails, FiniteHolds
<1>10. CASE Write
  <2>1. step = "chain" /\ index = Units /\ ChainHolds /\ step' = "next" /\ UNCHANGED job
    BY <1>10 DEF Write, IInv
  <2>2. \A p \in Inside(tile) :
           /\ ~NonFinite([q \in Inside(tile) |-> Written(q)][p].units)
           /\ odd.kind = "not_finite" => odd.at \notin [q \in Inside(tile) |-> Written(q)][p].from
    BY <1>1, <2>1, WrittenFinite
  <2>3. FrameFinite'
    BY <1>1, <1>10, <2>1, <2>2, PlacedFinite DEF Write
  <2> QED BY <2>1, <2>3 DEF FiniteHolds
<1>11. CASE Finish
  BY <1>1, <1>11, SameFinite DEF Finish, FiniteHolds
<1>12. CASE UNCHANGED vars
  <2>1. UNCHANGED job /\ frame' = frame /\ step' = step /\ index' = index
        /\ region' = region /\ values' = values /\ stage' = stage /\ odd' = odd
    BY <1>12 DEF vars, job
  <2>2. FrameFinite'
    BY <1>1, <2>1, SameFinite
  <2>3. Inside(region)' = Inside(region) /\ \A p : NonFinite(values[p])' = NonFinite(values[p])
    BY <2>1 DEF Inside, Pixels, NonFinite
  <2> QED BY <2>1, <2>2, <2>3 DEF FiniteHolds
<1> QED
  BY <1>2, <1>3, <1>4, <1>5, <1>6, <1>7, <1>8, <1>9, <1>10, <1>11, <1>12 DEF Next, Finished

LEMMA DeliveryInvariant == Spec => [](IInv /\ DeliveryHolds /\ FiniteHolds)
<1>1. IInv /\ DeliveryHolds /\ FiniteHolds /\ [Next]_vars
      => (IInv /\ DeliveryHolds /\ FiniteHolds)'
  BY StepSound, StepDelivers, StepFinite
<1> QED BY InitSound, InitDelivers, <1>1, PTL DEF Spec

\* The tiles of the stage together are the stage.
LEMMA TilesCover ==
    ASSUME Job
    PROVE  UNION {Inside(t) : t \in Tiles} = Pixels
<1>1. \A p \in Pixels : \E t \in Tiles : p \in Inside(t)
  BY TileOfPixel
<1>2. \A t \in Tiles : Inside(t) \subseteq Pixels
  BY DEF Inside
<1> QED BY <1>1, <1>2

\* A render that is done has written every pixel, a sample the pixel that
\* was asked for and the rest of its tile, and no tile is written twice:
\* the tiles of any size divide a stage of any size.
THEOREM DeliveredCorrect == Spec => []Delivered
<1>1. ASSUME IInv, DeliveryHolds
      PROVE  Delivered
  <2>1. Job /\ TilesToRun \subseteq Tiles
    BY <1>1, WantedAreTiles DEF IInv
  <2>2. CASE step = "done" /\ asked = Everything
    <3>1. DOMAIN frame = UNION {Inside(t) : t \in Tiles}
      BY <1>1, <2>2 DEF DeliveryHolds, WrittenTiles, Missing, Running, TilesToRun
    <3> QED BY <2>1, <2>2, <3>1, TilesCover DEF Delivered
  <2>3. CASE step = "done" /\ asked # Everything
    <3>1. DOMAIN frame = Inside(TileContaining(asked))
      BY <1>1, <2>3 DEF DeliveryHolds, WrittenTiles, Missing, Running, TilesToRun
    <3>2. asked \in Pixels
      BY <2>1, <2>3 DEF Job
    <3>3. TileContaining(asked) \in Tiles /\ asked \in Inside(TileContaining(asked))
      BY <2>1, <3>2, TileOfPixel
    <3> QED BY <2>3, <3>1, <3>3 DEF Delivered
  <2>4. CASE Running
    <3>1. tile \in TilesToRun /\ DOMAIN frame = WrittenTiles
      BY <1>1, <2>4 DEF DeliveryHolds, Running
    <3>2. ASSUME NEW p \in Inside(tile), p \in DOMAIN frame
          PROVE  FALSE
      <4>1. PICK t \in TilesToRun \ Missing : p \in Inside(t)
        BY <3>1, <3>2 DEF WrittenTiles
      <4>2. t = tile
        BY <2>1, <3>1, <3>2, <4>1, OneTile
      <4> QED BY <2>4, <4>1, <4>2 DEF Missing
    <3> QED BY <2>4, <3>2 DEF Delivered, Running
  <2>5. CASE step # "done" /\ ~Running
    BY <2>5 DEF Delivered, Running
  <2> QED BY <2>2, <2>3, <2>4, <2>5
<1> QED BY <1>1, DeliveryInvariant, PTL

\* Nothing that a tile writes comes from a value that is not finite,
\* whatever pixel is odd and wherever the tiles' edges lie.
THEOREM FiniteCorrect == Spec => []FrameFinite
<1>1. FiniteHolds => FrameFinite
  BY DEF FiniteHolds
<1> QED BY <1>1, DeliveryInvariant, PTL

---------------------------------------------------------------------------
\* Types.

\* A span that covers a tile's begins within the stage.
LEMMA CoveringSpan ==
    ASSUME NEW outer, NEW inner, NEW size \in Nat, NEW halo \in Nat,
           Within(outer, size), TileLike(inner, size), Covers(outer, inner, halo, size)
    PROVE  outer.lo \in 0 .. size /\ outer.hi \in 0 .. size
BY DEF Within, TileLike, Covers, Greater, Lesser

LEMMA TileTyped ==
    ASSUME Job, NEW t \in Tiles
    PROVE  t \in Rectangles
<1>1. TileShaped(t)
  BY TilesFit
<1>2. PICK s \in Starts(stage.width) \X Starts(stage.height) :
         t = [x |-> TileSpan(s[1], stage.width), y |-> TileSpan(s[2], stage.height)]
  BY DEF Tiles
<1>3. /\ t.x.lo \in 0 .. stage.width /\ t.x.hi \in 0 .. stage.width
      /\ t.y.lo \in 0 .. stage.height /\ t.y.hi \in 0 .. stage.height
  BY <1>1 DEF TileShaped, TileLike, Job
<1>4. t.x = [lo |-> t.x.lo, hi |-> t.x.hi] /\ t.y = [lo |-> t.y.lo, hi |-> t.y.hi]
  BY <1>2 DEF TileSpan
<1>5. t = [x |-> t.x, y |-> t.y]
  BY <1>2
<1>6. t.x \in Spans(stage.width) /\ t.y \in Spans(stage.height)
  BY <1>3, <1>4 DEF Spans
<1> QED BY <1>5, <1>6 DEF Rectangles

LEMMA InitTyped ==
    ASSUME Init
    PROVE  TypeOK
<1>1. Job
  BY InitSound DEF IInv
<1>2. /\ stage \in Stages /\ halos \in Chains /\ asked \in {Everything} \union Pixels
      /\ step = "plan" /\ left = {} /\ tile = Whole(stage) /\ region = Whole(stage)
      /\ index = 0 /\ frame = <<>>
  BY DEF Init
<1>3. Whole(stage) \in Rectangles
  <2>1. /\ [lo |-> 0, hi |-> stage.width] \in Spans(stage.width)
        /\ [lo |-> 0, hi |-> stage.height] \in Spans(stage.height)
    BY <1>1 DEF Spans, Job
  <2> QED BY <2>1 DEF Whole, Rectangles
<1>4. 0 \in 0 .. Units
  BY <1>1 DEF Job, Units
<1>5. DOMAIN frame = {}
  BY <1>2
<1> QED BY <1>2, <1>3, <1>4, <1>5 DEF TypeOK

\* Rectangles and pixels of a job that does not change.
LEMMA SameTypes ==
    ASSUME UNCHANGED job
    PROVE  /\ stage' = stage /\ halos' = halos /\ asked' = asked
           /\ Pixels' = Pixels /\ Tiles' = Tiles /\ Rectangles' = Rectangles
           /\ Units' = Units
<1>1. stage' = stage /\ halos' = halos /\ asked' = asked
  BY DEF job
<1> QED BY <1>1 DEF Pixels, Tiles, Rectangles, Units

\* The rectangle a chain is in the middle of lies in the stage.
RegionInStage ==
    step = "chain" =>
       /\ region.x.lo \in 0 .. stage.width /\ region.x.hi \in 0 .. stage.width
       /\ region.y.lo \in 0 .. stage.height /\ region.y.hi \in 0 .. stage.height

LEMMA RegionTyped ==
    ASSUME IInv
    PROVE  RegionInStage
<1> SUFFICES ASSUME step = "chain"
             PROVE  /\ region.x.lo \in 0 .. stage.width /\ region.x.hi \in 0 .. stage.width
                    /\ region.y.lo \in 0 .. stage.height /\ region.y.hi \in 0 .. stage.height
  BY DEF RegionInStage
<1>0. Job /\ Ready /\ ChainHolds
  BY DEF IInv
<1>1. Rest(index + 1) \in Nat
  <2>1. index \in 0 .. Units /\ Units \in 1 .. 4
    BY <1>0 DEF ChainHolds, Job, Units, MaxUnits
  <2>2. index + 1 \in 1 .. 5
    BY <2>1
  <2> QED BY <1>0, <2>2, Rests
<1>2. /\ stage.width \in Nat /\ stage.height \in Nat
      /\ TileLike(tile.x, stage.width) /\ TileLike(tile.y, stage.height)
  BY <1>0 DEF Job, Ready, TileShaped
<1>3. /\ Within(region.x, stage.width) /\ Covers(region.x, tile.x, Rest(index + 1), stage.width)
      /\ Within(region.y, stage.height) /\ Covers(region.y, tile.y, Rest(index + 1), stage.height)
  BY <1>0 DEF ChainHolds
<1> QED BY <1>1, <1>2, <1>3, CoveringSpan

LEMMA RectangleOf ==
    ASSUME NEW r, NEW x, NEW y, NEW width, NEW height, r = [x |-> x, y |-> y],
           x = [lo |-> x.lo, hi |-> x.hi], y = [lo |-> y.lo, hi |-> y.hi],
           x.lo \in 0 .. width, x.hi \in 0 .. width,
           y.lo \in 0 .. height, y.hi \in 0 .. height
    PROVE  r \in [x : Spans(width), y : Spans(height)]
<1>1. x \in Spans(width) /\ y \in Spans(height)
  BY DEF Spans
<1> QED BY <1>1

LEMMA StepTyped ==
    ASSUME IInv, IInv', DeliveryHolds, DeliveryHolds', RegionInStage', TypeOK, [Next]_vars
    PROVE  TypeOK'
<1>1. UNCHANGED job
  BY DEF Next, Refuse, Accept, Begin, CopyUnread, CopyRead, Fill, RunUnit, UnitFails,
         Write, Finish, Finished, vars, job
<1>2. /\ stage' = stage /\ halos' = halos /\ asked' = asked
      /\ Pixels' = Pixels /\ Tiles' = Tiles /\ Rectangles' = Rectangles /\ Units' = Units
  BY <1>1, SameTypes
<1>3. Job /\ Job' /\ Ready' /\ TilesToRun \subseteq Tiles /\ TilesToRun' \subseteq Tiles
  <2>1. TilesToRun' = TilesToRun
    BY <1>1, SameTiles
  <2> QED BY <2>1, WantedAreTiles DEF IInv
<1>4. step' \in {"plan", "next", "tile", "chain"} \union Over
  BY DEF TypeOK, Next, Refuse, Accept, Begin, CopyUnread, CopyRead, Fill, RunUnit, UnitFails,
         Write, Finish, Finished, vars, Over
<1>5. left' \subseteq Tiles
  <2>1. CASE step' = "plan"
    BY <2>1, <1>3 DEF DeliveryHolds
  <2>2. CASE step' # "plan"
    BY <2>2, <1>3 DEF DeliveryHolds
  <2> QED BY <2>1, <2>2
<1>6. tile' \in Rectangles
  <2>1. CASE tile' = tile
    BY <2>1 DEF TypeOK
  <2>2. ASSUME NEW t \in left, Begin(t)
        PROVE  tile' \in Rectangles
    <3>1. t \in Tiles /\ tile' = t
      BY <2>2 DEF TypeOK, Begin
    <3> QED BY <1>3, <3>1, TileTyped
  <2>3. tile' = tile \/ \E t \in left : Begin(t)
    BY DEF Next, Refuse, Accept, CopyUnread, CopyRead, Fill, RunUnit, UnitFails,
           Write, Finish, Finished, vars, run
  <2> QED BY <2>1, <2>2, <2>3
<1>7. step' = "chain" => ChainHolds'
  BY DEF IInv
<1>8. region' \in Rectangles
  <2>1. CASE region' = region
    BY <2>1 DEF TypeOK
  <2>2. CASE Fill \/ RunUnit
    <3>1. step' = "chain"
      BY <2>2 DEF Fill, RunUnit
    <3>2. /\ region'.x.lo \in 0 .. stage.width /\ region'.x.hi \in 0 .. stage.width
          /\ region'.y.lo \in 0 .. stage.height /\ region'.y.hi \in 0 .. stage.height
      BY <1>2, <3>1 DEF RegionInStage
    <3>3. /\ region' = [x |-> region'.x, y |-> region'.y]
          /\ region'.x = [lo |-> region'.x.lo, hi |-> region'.x.hi]
          /\ region'.y = [lo |-> region'.y.lo, hi |-> region'.y.hi]
      BY <2>2 DEF Fill, RunUnit, Filled, Grown, GrownSpan, Output, Shrunk, ShrunkSpan
    <3> QED BY <3>2, <3>3, RectangleOf DEF Rectangles
  <2>3. region' = region \/ Fill \/ RunUnit
    BY DEF Next, Refuse, Accept, Begin, CopyUnread, CopyRead, UnitFails,
           Write, Finish, Finished, vars, run
  <2> QED BY <2>1, <2>2, <2>3
<1>9. index' \in 0 .. Units
  <2>1. index' = index \/ index' = 0 \/ (index < Units /\ index' = index + 1)
    BY DEF Next, Refuse, Accept, Begin, CopyUnread, CopyRead, Fill, RunUnit, UnitFails,
           Write, Finish, Finished, vars, run
  <2>2. index \in 0 .. Units /\ Units \in Nat
    BY <1>3 DEF TypeOK, Job, Units
  <2> QED BY <2>1, <2>2
<1>10. DOMAIN frame' \subseteq Pixels
  <2>1. frame' = frame \/ \E result : Placed(result)
    BY DEF Next, Refuse, Accept, Begin, CopyUnread, CopyRead, Fill, RunUnit, UnitFails,
           Write, Finish, Finished, vars
  <2>2. \A result : Placed(result) => DOMAIN frame' = DOMAIN frame \union Inside(tile)
    BY DEF Placed
  <2>3. Inside(tile) \subseteq Pixels
    BY DEF Inside
  <2> QED BY <2>1, <2>2, <2>3 DEF TypeOK
<1>11. (step = "chain" => DOMAIN values = Inside(region) /\ DOMAIN input = Inside(tile))'
  <2>1. ASSUME ChainHolds
        PROVE  DOMAIN values = Inside(region) /\ DOMAIN input = Inside(tile)
    BY <2>1 DEF ChainHolds
  <2>2. ChainHolds' => (DOMAIN values = Inside(region) /\ DOMAIN input = Inside(tile))'
    BY DEF ChainHolds
  <2> QED BY <1>7, <2>2
<1> QED
  BY <1>2, <1>4, <1>5, <1>6, <1>8, <1>9, <1>10, <1>11 DEF TypeOK

\* Every rectangle that a chain runs over lies in the stage, a tile is one
\* of its grid, and the values cover the rectangle.
THEOREM ChainTyped == Spec => []TypeOK
<1>1. IInv => RegionInStage
  BY RegionTyped
<1>2. TypeOK /\ [Next]_vars /\ IInv /\ IInv' /\ DeliveryHolds /\ DeliveryHolds'
      /\ RegionInStage' => TypeOK'
  BY StepTyped
<1> QED BY InitTyped, DeliveryInvariant, <1>1, <1>2, PTL DEF Spec

---------------------------------------------------------------------------
\* What a chain finds, what it delivers of a tile, and what the frame
\* becomes: whole, finite, and all of what was asked for.
THEOREM ChainCorrect == Spec => []ChainSound
<1>1. NeighboursFound /\ TileDelivered /\ FrameAsWhole /\ FrameFinite /\ Delivered
      => ChainSound
  BY DEF ChainSound
<1> QED
  BY NeighboursCorrect, TileCorrect, FrameCorrect, FiniteCorrect, DeliveredCorrect, <1>1, PTL

\* ------------------------------------------------- larger and smaller ----

LEMMA MaxOfTwo ==
    ASSUME NEW a \in Int, NEW b \in Int
    PROVE  /\ Max({a, b}) = a \/ Max({a, b}) = b
           /\ Max({a, b}) >= a /\ Max({a, b}) >= b
           /\ Max({a, b}) \in Int
<1>1. \E x \in {a, b} : \A y \in {a, b} : x >= y
  OBVIOUS
<1>2. Max({a, b}) \in {a, b} /\ \A y \in {a, b} : Max({a, b}) >= y
  BY <1>1 DEF Max
<1> QED BY <1>2

LEMMA MinOfTwo ==
    ASSUME NEW a \in Int, NEW b \in Int
    PROVE  /\ Min({a, b}) = a \/ Min({a, b}) = b
           /\ Min({a, b}) <= a /\ Min({a, b}) <= b
           /\ Min({a, b}) \in Int
<1>1. \E x \in {a, b} : \A y \in {a, b} : x <= y
  OBVIOUS
<1>2. Min({a, b}) \in {a, b} /\ \A y \in {a, b} : Min({a, b}) <= y
  BY <1>1 DEF Min
<1> QED BY <1>2

LEMMA MaxOfNaturals ==
    ASSUME NEW a \in Nat, NEW b \in Nat
    PROVE  Max({a, b}) \in Nat
<1>1. a \in Int /\ b \in Int
  OBVIOUS
<1>2. Max({a, b}) = a \/ Max({a, b}) = b
  BY <1>1, MaxOfTwo
<1> QED BY <1>2

\* What is reserved: at least one tile, no more than is wanted, and more than one
\* only while the use stays within the target.
LEMMA FitsWithin ==
    ASSUME TileBudgetAssumption, NEW bytes \in Nat \ {0}, NEW wanted \in Nat \ {0},
           NEW seen \in Nat
    PROVE  /\ Fits(bytes, wanted, seen) \in 1 .. wanted
           /\ Fits(bytes, wanted, seen) = 1
              \/ seen + Fits(bytes, wanted, seen) * bytes <= TargetBytes
<1> DEFINE room == Max({0, TargetBytes - seen})
<1> DEFINE many == room \div bytes
<1> DEFINE n == Min({wanted, many})
<1>1. TargetBytes \in Nat /\ TargetBytes - seen \in Int
  BY DEF TileBudgetAssumption
<1>2. room \in Nat /\ (room = 0 \/ room = TargetBytes - seen)
  <2>1. 0 \in Int /\ TargetBytes - seen \in Int
    BY <1>1
  <2>2. /\ room = 0 \/ room = TargetBytes - seen
        /\ room >= 0 /\ room \in Int
    BY <2>1, MaxOfTwo
  <2> HIDE DEF room
  <2> QED BY <2>2
<1>3. many \in Nat /\ many * bytes <= room
  <2> HIDE DEF room
  <2> QED BY <1>2, Z3
<1> HIDE DEF many, room
<1>4. n \in Nat /\ n <= wanted /\ n <= many
  <2>1. wanted \in Int /\ many \in Int
    BY <1>3
  <2>2. /\ n = wanted \/ n = many
        /\ n <= wanted /\ n <= many
    BY <2>1, MinOfTwo
  <2> QED BY <1>3, <2>2
<1> HIDE DEF n
<1>5. /\ Max({1, n}) = 1 \/ Max({1, n}) = n
      /\ Max({1, n}) >= 1 /\ Max({1, n}) >= n /\ Max({1, n}) \in Int
  <2>1. 1 \in Int /\ n \in Int
    BY <1>4
  <2> QED BY <2>1, MaxOfTwo
<1>6. Max({1, n}) \in 1 .. wanted
  BY <1>4, <1>5
<1>7. ASSUME Max({1, n}) # 1 PROVE seen + Max({1, n}) * bytes <= TargetBytes
  <2>1. Max({1, n}) = n /\ n >= 1
    BY <1>5, <1>7, <1>4
  <2>2. n * bytes <= many * bytes
    BY <1>3, <1>4, Z3
  <2>3. n * bytes \in Nat /\ n * bytes >= 1 /\ many * bytes \in Nat
    BY <1>3, <1>4, <2>1, Z3
  <2>4. room = TargetBytes - seen
    BY <1>2, <1>3, <2>2, <2>3
  <2>5. n * bytes <= TargetBytes - seen
    BY <1>2, <1>3, <2>2, <2>3, <2>4
  <2>6. ASSUME NEW p \in Nat, p <= TargetBytes - seen PROVE seen + p <= TargetBytes
    BY <1>1, <2>6
  <2> QED BY <2>1, <2>3, <2>5, <2>6
<1>8. Fits(bytes, wanted, seen) = Max({1, n})
  BY DEF Fits, n, many, room
<1> QED BY <1>6, <1>7, <1>8

LEMMA OneFits ==
    ASSUME TileBudgetAssumption, NEW bytes \in Nat \ {0}, NEW seen \in Nat
    PROVE  Fits(bytes, 1, seen) = 1
  BY FitsWithin

LEMMA CapacityType ==
    ASSUME TileBudgetAssumption
    PROVE  Capacity \in Nat \ {0} /\ Room \in Nat
<1>1. TargetBytes \in Nat /\ TileBytes \in Nat \ {0} /\ Floor \in Nat \ {0}
  BY DEF TileBudgetAssumption
<1>2. TargetBytes \div TileBytes \in Nat
  BY <1>1, Z3
<1>3. Capacity \in Int /\ Capacity >= Floor
  BY <1>1, <1>2, MaxOfTwo DEF Capacity
<1> QED BY <1>1, <1>3 DEF Room

\* ------------------------------------------------- the sum of what each has ----

\* The bytes of one evaluation, as a set.
Heap(e, n) == {e} \X (1 .. n)
Heaps(bytes, few) == UNION {Heap(e, bytes[e]) : e \in few}

LEMMA HeapCount ==
    ASSUME NEW e, NEW n \in Nat
    PROVE  IsFiniteSet(Heap(e, n)) /\ Cardinality(Heap(e, n)) = n
<1>1. IsFiniteSet(1 .. n) /\ Cardinality(1 .. n) = n
  BY FS_Interval
<1>2. IsFiniteSet({e}) /\ Cardinality({e}) = 1
  BY FS_Singleton
<1>3. IsFiniteSet({e} \X (1 .. n)) /\ Cardinality({e} \X (1 .. n)) = 1 * n
  BY <1>1, <1>2, FS_Product
<1> QED BY <1>3 DEF Heap

LEMMA HeapsFinite ==
    ASSUME NEW few, IsFiniteSet(few), NEW bytes \in [few -> Nat], NEW fewer \in SUBSET few
    PROVE  IsFiniteSet(Heaps(bytes, fewer))
<1> DEFINE all == {Heap(e, bytes[e]) : e \in fewer}
<1>1. IsFiniteSet(fewer)
  BY FS_Subset
<1>2. IsFiniteSet(all)
  <2> DEFINE f == [e \in fewer |-> Heap(e, bytes[e])]
  <2>1. f \in [fewer -> all] /\ \A h \in all : \E e \in fewer : f[e] = h
    OBVIOUS
  <2>2. f \in Surjection(fewer, all)
    BY <2>1 DEF Surjection
  <2> QED BY <1>1, <2>2, FS_Surjection
<1>3. \A h \in all : IsFiniteSet(h)
  BY HeapCount
<1>4. IsFiniteSet(UNION all)
  <2> HIDE DEF all
  <2> QED BY <1>2, <1>3, FS_UNION
<1> QED BY <1>4 DEF Heaps

\* The sum is one of them and the sum of the others.
LEMMA HeapsSplit ==
    ASSUME NEW few, IsFiniteSet(few), NEW bytes \in [few -> Nat], NEW e \in few
    PROVE  /\ Cardinality(Heaps(bytes, few))
              = Cardinality(Heaps(bytes, few \ {e})) + bytes[e]
           /\ Cardinality(Heaps(bytes, few \ {e})) \in Nat
<1>1. /\ IsFiniteSet(Heaps(bytes, few \ {e}))
      /\ IsFiniteSet(Heap(e, bytes[e])) /\ Cardinality(Heap(e, bytes[e])) = bytes[e]
  BY HeapsFinite, HeapCount
<1>2. Heaps(bytes, few) = Heaps(bytes, few \ {e}) \cup Heap(e, bytes[e])
  BY DEF Heaps
<1>3. Heaps(bytes, few \ {e}) \cap Heap(e, bytes[e]) = {}
  BY DEF Heaps, Heap
<1>4. Cardinality(Heaps(bytes, few \ {e})) \in Nat
  BY <1>1, FS_CardinalityType
<1>5. Cardinality(Heaps(bytes, few \ {e}) \cup Heap(e, bytes[e]))
        = Cardinality(Heaps(bytes, few \ {e})) + bytes[e] - 0
  <2>1. Cardinality(Heaps(bytes, few \ {e}) \cup Heap(e, bytes[e]))
          = Cardinality(Heaps(bytes, few \ {e})) + Cardinality(Heap(e, bytes[e]))
            - Cardinality(Heaps(bytes, few \ {e}) \cap Heap(e, bytes[e]))
    BY <1>1, FS_Union
  <2>2. Cardinality(Heaps(bytes, few \ {e}) \cap Heap(e, bytes[e])) = 0
    BY <1>3, FS_EmptySet
  <2> QED BY <1>1, <2>1, <2>2
<1> QED BY <1>2, <1>4, <1>5

LEMMA TogetherIsHeaps ==
    ASSUME NEW bytes
    PROVE  Together(bytes) = Cardinality(Heaps(bytes, Evaluations))
  BY DEF Together, Heaps, Heap

LEMMA TogetherType ==
    ASSUME TileBudgetAssumption, NEW bytes \in [Evaluations -> Nat]
    PROVE  Together(bytes) \in Nat
<1>1. IsFiniteSet(Heaps(bytes, Evaluations))
  BY HeapsFinite DEF TileBudgetAssumption
<1> QED BY <1>1, FS_CardinalityType, TogetherIsHeaps

\* A sum changes by what one of its parts does.
LEMMA TogetherMoves ==
    ASSUME TileBudgetAssumption, NEW f \in [Evaluations -> Nat], NEW g \in [Evaluations -> Nat],
           NEW e \in Evaluations, \A x \in Evaluations \ {e} : g[x] = f[x]
    PROVE  Together(g) + f[e] = Together(f) + g[e]
<1>1. Heaps(g, Evaluations \ {e}) = Heaps(f, Evaluations \ {e})
  BY DEF Heaps
<1>2. IsFiniteSet(Evaluations)
  BY DEF TileBudgetAssumption
<1> DEFINE rest == Cardinality(Heaps(f, Evaluations \ {e}))
<1>3. Together(f) = rest + f[e] /\ rest \in Nat
  BY <1>2, HeapsSplit, TogetherIsHeaps
<1>4. Together(g) = rest + g[e]
  BY <1>1, <1>2, HeapsSplit, TogetherIsHeaps
<1>5. f[e] \in Nat /\ g[e] \in Nat
  OBVIOUS
<1> HIDE DEF rest
<1> QED BY ONLY <1>3, <1>4, <1>5

LEMMA TogetherLess ==
    ASSUME TileBudgetAssumption, NEW f \in [Evaluations -> Nat], NEW g \in [Evaluations -> Nat],
           \A x \in Evaluations : f[x] <= g[x]
    PROVE  Together(f) <= Together(g)
<1>1. IsFiniteSet(Heaps(g, Evaluations))
  BY HeapsFinite DEF TileBudgetAssumption
<1>2. ASSUME NEW x \in Evaluations PROVE Heap(x, f[x]) \subseteq Heap(x, g[x])
  <2>1. f[x] <= g[x] /\ f[x] \in Nat /\ g[x] \in Nat
    OBVIOUS
  <2> QED BY <2>1 DEF Heap
<1>3. Heaps(f, Evaluations) \in SUBSET Heaps(g, Evaluations)
  BY <1>2 DEF Heaps
<1> QED BY <1>1, <1>3, FS_Subset, TogetherIsHeaps

LEMMA TogetherNothing ==
    ASSUME TileBudgetAssumption, NEW f \in [Evaluations -> Nat], \A x \in Evaluations : f[x] = 0
    PROVE  Together(f) = 0
<1>1. \A x \in Evaluations : Heap(x, f[x]) = {}
  BY DEF Heap
<1>2. Heaps(f, Evaluations) = {}
  BY <1>1 DEF Heaps
<1> QED BY <1>2, FS_EmptySet, TogetherIsHeaps

\* ------------------------------------------------- the tiles a tile reads ----

LEMMA DividedLess ==
    ASSUME NEW a \in Nat, NEW b \in Nat \ {0}, NEW c \in Nat, a < c * b
    PROVE  a \div b \in Nat /\ a \div b < c
<1> DEFINE d == a \div b
<1>1. d \in Nat /\ d * b <= a
  BY Z3
<1>2. ASSUME d >= c PROVE FALSE
  <2>1. c * b <= d * b
    BY <1>1, <1>2, Z3
  <2>2. c * b \in Nat /\ d * b \in Nat
    BY <1>1, Z3
  <2> HIDE DEF d
  <2> QED BY <1>1, <2>1, <2>2
<1> QED BY <1>1, <1>2

\* The places a tile's region crosses, along one side.
LEMMA AcrossPlaces ==
    ASSUME TileBudgetAssumption, NEW n \in 0 .. GridSide - 1
    PROVE  /\ Lowest(n) \in 0 .. GridSide - 1 /\ Lowest(n) >= n - 1
           /\ Across(n) \in Nat \ {0}
           /\ Lowest(n) + Across(n) - 1 <= n + 1
           /\ Lowest(n) + Across(n) - 1 <= GridSide - 1
<1>1. GridSide \in Nat \ {0} /\ n \in Nat /\ n <= GridSide - 1
  BY DEF TileBudgetAssumption
<1>2. /\ Lowest(n) \in Int /\ (Lowest(n) = 0 \/ Lowest(n) = n - 1)
      /\ Lowest(n) >= 0 /\ Lowest(n) >= n - 1
  <2>1. 0 \in Int /\ n - 1 \in Int
    BY <1>1
  <2> QED BY <2>1, MaxOfTwo DEF Lowest
<1>3. /\ Highest(n) \in Int /\ (Highest(n) = GridSide - 1 \/ Highest(n) = n + 1)
      /\ Highest(n) <= GridSide - 1 /\ Highest(n) <= n + 1
  <2>1. GridSide - 1 \in Int /\ n + 1 \in Int
    BY <1>1
  <2> QED BY <2>1, MinOfTwo DEF Highest
<1>4. Across(n) = Highest(n) - Lowest(n) + 1
  BY DEF Across
<1> HIDE DEF Across
<1> QED BY <1>1, <1>2, <1>3, <1>4

OfSegment(n) == {t \in SegmentTiles : t.segment = n}
Close(a, b, d) == a - b <= d /\ b - a <= d
Beside(t, at, d) == Close(t.at[1], at[1], d) /\ Close(t.at[2], at[2], d)

LEMMA TileParts ==
    ASSUME NEW t \in SegmentTiles
    PROVE  /\ t.segment \in 1 .. Segments /\ t.at \in Positions
           /\ t.at[1] \in 0 .. GridSide - 1 /\ t.at[2] \in 0 .. GridSide - 1
  BY DEF SegmentTiles, Positions

LEMMA TileMade ==
    ASSUME NEW n, NEW x, NEW y
    PROVE  /\ Tile(n, <<x, y>>).segment = n
           /\ Tile(n, <<x, y>>).at[1] = x /\ Tile(n, <<x, y>>).at[2] = y
           /\ n \in 1 .. Segments /\ x \in 0 .. GridSide - 1 /\ y \in 0 .. GridSide - 1
                => Tile(n, <<x, y>>) \in SegmentTiles
  BY DEF Tile, SegmentTiles, Positions

\* A tile reads tiles of the segment before, at most one place away.
LEMMA ReadsBeside ==
    ASSUME TileBudgetAssumption, NEW t \in SegmentTiles
    PROVE  /\ ReadBy(t) \in Seq(OfSegment(t.segment - 1))
           /\ \A i \in DOMAIN ReadBy(t) : Beside(ReadBy(t)[i], t.at, 1)
<1>t. /\ t.segment \in 1 .. Segments /\ Segments \in Nat
      /\ t.at[1] \in 0 .. GridSide - 1 /\ t.at[2] \in 0 .. GridSide - 1
      /\ RowsOfTile \in Nat \ {0}
  BY TileParts DEF TileBudgetAssumption
<1>1. CASE t.segment = 1
  <2>1. ReadBy(t) = <<>>
    BY <1>1 DEF ReadBy
  <2> QED BY <2>1
<1>2. CASE t.segment # 1
  <2> DEFINE wide == Across(t.at[1])
             high == Across(t.at[2])
             x0 == Lowest(t.at[1])
             y0 == Lowest(t.at[2])
             read(i) == Tile(t.segment - 1, <<x0 + ((i - 1) % wide),
                             y0 + (((i - 1) \div wide) \div RowsOfTile)>>)
  <2>1. ReadBy(t) = [i \in 1 .. RowsOfTile * high * wide |-> read(i)]
    BY <1>2 DEF ReadBy
  <2>2. /\ x0 \in 0 .. GridSide - 1 /\ x0 >= t.at[1] - 1 /\ wide \in Nat \ {0}
        /\ x0 + wide - 1 <= t.at[1] + 1 /\ x0 + wide - 1 <= GridSide - 1
        /\ y0 \in 0 .. GridSide - 1 /\ y0 >= t.at[2] - 1 /\ high \in Nat \ {0}
        /\ y0 + high - 1 <= t.at[2] + 1 /\ y0 + high - 1 <= GridSide - 1
    BY <1>t, AcrossPlaces
  <2>3. GridSide \in Nat \ {0}
    BY DEF TileBudgetAssumption
  <2>4. RowsOfTile * high \in Nat /\ RowsOfTile * high * wide \in Nat
    <3> HIDE DEF high, wide
    <3> QED BY <1>t, <2>2, Z3
  <2>5. ASSUME NEW i \in 1 .. RowsOfTile * high * wide
        PROVE  read(i) \in OfSegment(t.segment - 1) /\ Beside(read(i), t.at, 1)
    <3> DEFINE dx == (i - 1) % wide
               row == (i - 1) \div wide
               dy == row \div RowsOfTile
    <3> HIDE DEF high, wide, x0, y0
    <3>1. i - 1 \in Nat /\ i - 1 < (RowsOfTile * high) * wide
      BY <2>4
    <3>2. dx \in Nat /\ dx < wide
      BY <2>2, <3>1, Z3
    <3>3. row \in Nat /\ row < RowsOfTile * high
      BY <2>2, <2>4, <3>1, DividedLess
    <3> HIDE DEF dx, row
    <3>4. row < high * RowsOfTile
      BY <1>t, <2>2, <3>3, Z3
    <3>5. dy \in Nat /\ dy < high
      BY <1>t, <2>2, <3>3, <3>4, DividedLess
    <3> HIDE DEF dy
    <3>6. /\ x0 + dx \in 0 .. GridSide - 1 /\ Close(x0 + dx, t.at[1], 1)
          /\ y0 + dy \in 0 .. GridSide - 1 /\ Close(y0 + dy, t.at[2], 1)
      <4>1. /\ x0 + dx \in 0 .. GridSide - 1 /\ Close(x0 + dx, t.at[1], 1)
        BY <1>t, <2>2, <2>3, <3>2 DEF Close
      <4>2. /\ y0 + dy \in 0 .. GridSide - 1 /\ Close(y0 + dy, t.at[2], 1)
        BY <1>t, <2>2, <2>3, <3>5 DEF Close
      <4> QED BY <4>1, <4>2
    <3>7. read(i) = Tile(t.segment - 1, <<x0 + dx, y0 + dy>>)
      BY DEF dx, dy, row
    <3>8. t.segment - 1 \in 1 .. Segments
      BY <1>t, <1>2
    <3> QED BY <3>6, <3>7, <3>8, TileMade DEF OfSegment, Beside
  <2> HIDE DEF read, wide, high
  <2>6. [i \in 1 .. RowsOfTile * high * wide |-> read(i)] \in Seq(OfSegment(t.segment - 1))
    BY <2>4, <2>5
  <2> QED BY <2>1, <2>5, <2>6
<1> QED BY <1>1, <1>2

\* The tiles that a query of these points reads: of an earlier segment they stand
\* further from a point.
Cone(p) ==
    {t \in SegmentTiles : \E i \in DOMAIN p : Beside(t, p[i], Segments - t.segment)}

LEMMA ConeReads ==
    ASSUME TileBudgetAssumption, NEW p \in Seq(Positions), NEW t \in Cone(p)
    PROVE  Range(ReadBy(t)) \subseteq Cone(p)
<1> SUFFICES ASSUME NEW i \in DOMAIN ReadBy(t) PROVE ReadBy(t)[i] \in Cone(p)
  BY DEF Range
<1> DEFINE u == ReadBy(t)[i]
<1>1. t \in SegmentTiles /\ Segments \in Nat
  BY DEF Cone, TileBudgetAssumption
<1>2. u \in OfSegment(t.segment - 1) /\ Beside(u, t.at, 1)
  BY <1>1, ReadsBeside
<1> HIDE DEF u
<1>3. PICK j \in DOMAIN p : Beside(t, p[j], Segments - t.segment)
  BY DEF Cone
<1>4. p[j] \in Positions
  OBVIOUS
<1>5. p[j][1] \in Int /\ p[j][2] \in Int
  BY <1>4 DEF Positions
<1>6. /\ u \in SegmentTiles /\ u.segment = t.segment - 1
      /\ u.at[1] \in Int /\ u.at[2] \in Int /\ t.at[1] \in Int /\ t.at[2] \in Int
      /\ t.segment \in Int
  BY <1>1, <1>2, TileParts DEF OfSegment
<1>7. Segments - u.segment = (Segments - t.segment) + 1 /\ Segments - t.segment \in Int
  BY <1>1, <1>6
<1>8. ASSUME NEW a \in Int, NEW b \in Int, NEW c \in Int, NEW d \in Int,
             Close(a, b, 1), Close(b, c, d)
      PROVE  Close(a, c, d + 1)
  BY <1>8 DEF Close
<1>9. Beside(u, p[j], (Segments - t.segment) + 1)
  BY <1>2, <1>3, <1>5, <1>6, <1>7, <1>8 DEF Beside
<1> QED BY <1>6, <1>7, <1>9 DEF Cone, u

LEMMA ConePoints ==
    ASSUME TileBudgetAssumption, NEW p \in Seq(Positions), NEW i \in DOMAIN p
    PROVE  Tile(Segments, p[i]) \in Cone(p) \cap OfSegment(Segments)
<1>1. p[i] \in Positions /\ Segments \in Nat \ {0}
  BY DEF TileBudgetAssumption
<1>2. Tile(Segments, p[i]) \in SegmentTiles
  BY <1>1 DEF Tile, SegmentTiles
<1>3. Tile(Segments, p[i]).segment = Segments /\ Tile(Segments, p[i]).at = p[i]
  BY DEF Tile
<1>4. Beside(Tile(Segments, p[i]), p[i], Segments - Segments)
  BY <1>1, <1>3 DEF Beside, Close, Positions
<1> QED BY <1>2, <1>3, <1>4 DEF Cone, OfSegment

\* A cone has as many tiles as its points have cells around them.
LEMMA CellsFinite ==
    ASSUME TileBudgetAssumption
    PROVE  IsFiniteSet(Cells)
<1>1. Segments \in Nat \ {0}
  BY DEF TileBudgetAssumption
<1> DEFINE box == (-Segments .. Segments) \X (-Segments .. Segments)
<1>2. IsFiniteSet(0 .. Segments - 1) /\ IsFiniteSet(-Segments .. Segments)
  BY <1>1, FS_Interval
<1>3. IsFiniteSet(box)
  BY <1>2, FS_Product
<1>4. IsFiniteSet((0 .. Segments - 1) \X box)
  BY <1>2, <1>3, FS_Product
<1>5. Cells \in SUBSET ((0 .. Segments - 1) \X box)
  BY <1>1 DEF Cells
<1> QED BY <1>4, <1>5, FS_Subset

LEMMA ConeSize ==
    ASSUME TileBudgetAssumption, NEW p \in Seq(Positions), NEW some \in SUBSET Cone(p)
    PROVE  Cardinality(some) <= Cardinality(Range(p)) * Cardinality(Cells)
<1> DEFINE whole == Range(p) \X Cells
           at(c) == Tile(Segments - c[2][1], <<c[1][1] + c[2][2][1], c[1][2] + c[2][2][2]>>)
           f == [c \in whole |-> at(c)]
           all == {at(c) : c \in whole}
<1>1. IsFiniteSet(Range(p))
  <2>1. IsFiniteSet(1 .. Len(p))
    BY FS_Interval
  <2>2. p \in Surjection(1 .. Len(p), Range(p))
    BY DEF Surjection, Range
  <2> QED BY <2>1, <2>2, FS_Surjection
<1>2. IsFiniteSet(whole) /\ Cardinality(whole) = Cardinality(Range(p)) * Cardinality(Cells)
  BY <1>1, CellsFinite, FS_Product
<1>3. f \in Surjection(whole, all)
  BY DEF Surjection
<1>4. IsFiniteSet(all) /\ Cardinality(all) <= Cardinality(whole)
  <2> HIDE DEF f, all, whole
  <2> QED BY <1>2, <1>3, FS_Surjection
<1>5. Cone(p) \subseteq all
  <2> SUFFICES ASSUME NEW t \in Cone(p) PROVE t \in all
    OBVIOUS
  <2>1. PICK i \in DOMAIN p : Beside(t, p[i], Segments - t.segment)
    BY DEF Cone
  <2>2. t \in SegmentTiles /\ Segments \in Nat
    BY DEF Cone, TileBudgetAssumption
  <2> DEFINE d == Segments - t.segment
             x == t.at[1] - p[i][1]
             y == t.at[2] - p[i][2]
             c == <<p[i], <<d, <<x, y>>>>>>
  <2>3. /\ t.segment \in 1 .. Segments /\ t.at \in Positions
        /\ t.at[1] \in Int /\ t.at[2] \in Int /\ p[i][1] \in Int /\ p[i][2] \in Int
    <3>1. p[i] \in Positions
      OBVIOUS
    <3> QED BY <2>2, <3>1, TileParts DEF Positions
  <2>4. d \in 0 .. Segments - 1 /\ x \in -d .. d /\ y \in -d .. d
    <3>1. d \in 0 .. Segments - 1
      BY <2>2, <2>3
    <3>2. x \in Int /\ y \in Int
      BY <2>3
    <3>3. x <= d /\ p[i][1] - t.at[1] <= d /\ y <= d /\ p[i][2] - t.at[2] <= d
      BY <2>1 DEF Beside, Close
    <3>4. -x = p[i][1] - t.at[1] /\ -y = p[i][2] - t.at[2]
      BY <2>3
    <3> HIDE DEF d, x, y
    <3> QED BY <3>1, <3>2, <3>3, <3>4
  <2>5. c \in whole
    <3>1. <<d, <<x, y>>>> \in Cells
      BY <2>4 DEF Cells
    <3>2. p[i] \in Range(p)
      BY DEF Range
    <3> QED BY <3>1, <3>2
  <2>6. at(c) = t
    <3>1. Segments - d = t.segment
      BY <2>2, <2>3
    <3>2. p[i][1] + x = t.at[1] /\ p[i][2] + y = t.at[2]
      BY <2>3
    <3>3. at(c) = Tile(Segments - d, <<p[i][1] + x, p[i][2] + y>>)
      OBVIOUS
    <3>4. t.at = <<t.at[1], t.at[2]>>
      BY <2>3 DEF Positions
    <3> QED BY <2>2, <3>1, <3>2, <3>3, <3>4 DEF Tile, SegmentTiles
  <2> QED BY <2>5, <2>6
<1>6. IsFiniteSet(some) /\ Cardinality(some) <= Cardinality(all)
  <2>1. some \in SUBSET all
    BY <1>5
  <2> QED BY <1>4, <2>1, FS_Subset
<1>7. Cardinality(some) \in Nat /\ Cardinality(all) \in Nat /\ Cardinality(whole) \in Nat
  BY <1>2, <1>4, <1>6, FS_CardinalityType
<1> HIDE DEF all, whole
<1> QED BY <1>2, <1>4, <1>6, <1>7

\* ------------------------------------------------- sequences without repeats ----

LEMMA InjectiveLength ==
    ASSUME NEW S, NEW s \in Seq(S), IsInjective(s)
    PROVE  IsFiniteSet(Range(s)) /\ Cardinality(Range(s)) = Len(s)
<1>1. IsFiniteSet(1 .. Len(s)) /\ Cardinality(1 .. Len(s)) = Len(s)
  <2> DEFINE n == Len(s)
  <2>1. n \in Nat
    OBVIOUS
  <2> HIDE DEF n
  <2>2. IsFiniteSet(1 .. n) /\ Cardinality(1 .. n) = n
    BY <2>1, FS_Interval
  <2> QED BY <2>2 DEF n
<1>2. s \in Surjection(1 .. Len(s), Range(s)) /\ s \in Injection(1 .. Len(s), Range(s))
  BY DEF Surjection, Injection, Range, IsInjective
<1> QED BY <1>1, <1>2, FS_Surjection

LEMMA RangeFinite ==
    ASSUME NEW S, NEW s \in Seq(S)
    PROVE  IsFiniteSet(Range(s)) /\ Cardinality(Range(s)) \in Nat
<1>1. IsFiniteSet(1 .. Len(s))
  BY FS_Interval
<1>2. s \in Surjection(1 .. Len(s), Range(s))
  BY DEF Surjection, Range
<1>3. IsFiniteSet(Range(s))
  BY <1>1, <1>2, FS_Surjection
<1> QED BY <1>3, FS_CardinalityType

LEMMA AppendedRange ==
    ASSUME NEW S, NEW s \in Seq(S), NEW t \in S
    PROVE  /\ Append(s, t) \in Seq(S) /\ Range(Append(s, t)) = Range(s) \cup {t}
           /\ IsInjective(s) /\ t \notin Range(s) => IsInjective(Append(s, t))
<1>1. /\ Append(s, t) \in Seq(S) /\ Len(Append(s, t)) = Len(s) + 1
      /\ DOMAIN Append(s, t) = 1 .. Len(s) + 1 /\ DOMAIN s = 1 .. Len(s)
      /\ \A i \in 1 .. Len(s) : Append(s, t)[i] = s[i]
      /\ Append(s, t)[Len(s) + 1] = t
  OBVIOUS
<1> DEFINE a == Append(s, t)
<1> HIDE DEF a
<1>2. Range(a) = Range(s) \cup {t}
  <2>1. \A i \in DOMAIN a : a[i] \in Range(s) \cup {t}
    BY <1>1 DEF Range, a
  <2>2. \A i \in DOMAIN s : i \in DOMAIN a /\ a[i] = s[i]
    BY <1>1 DEF a
  <2>3. Len(s) + 1 \in DOMAIN a /\ a[Len(s) + 1] = t
    BY <1>1 DEF a
  <2> QED BY <2>1, <2>2, <2>3 DEF Range
<1>3. ASSUME IsInjective(s), t \notin Range(s) PROVE IsInjective(a)
  <2> SUFFICES ASSUME NEW i \in DOMAIN a, NEW j \in DOMAIN a, a[i] = a[j] PROVE i = j
    BY DEF IsInjective
  <2>1. DOMAIN a = 1 .. Len(s) + 1 /\ (\A k \in 1 .. Len(s) : a[k] = s[k] /\ a[k] # t)
        /\ a[Len(s) + 1] = t
    BY <1>1, <1>3 DEF a, Range
  <2>2. CASE i = Len(s) + 1
    BY <2>1, <2>2
  <2>3. CASE j = Len(s) + 1
    BY <2>1, <2>3
  <2>4. CASE i # Len(s) + 1 /\ j # Len(s) + 1
    <3>1. i \in 1 .. Len(s) /\ j \in 1 .. Len(s)
      BY <2>1, <2>4
    <3> QED BY <1>3, <2>1, <3>1 DEF IsInjective
  <2> QED BY <2>2, <2>3, <2>4
<1> QED BY <1>1, <1>2, <1>3 DEF a

LEMMA LedRange ==
    ASSUME NEW S, NEW s \in Seq(S), NEW t \in S
    PROVE  /\ <<t>> \o s \in Seq(S) /\ Len(<<t>> \o s) = Len(s) + 1
           /\ Range(<<t>> \o s) = Range(s) \cup {t}
           /\ IsInjective(s) /\ t \notin Range(s) => IsInjective(<<t>> \o s)
<1>1. /\ <<t>> \o s \in Seq(S) /\ Len(<<t>> \o s) = Len(s) + 1
      /\ DOMAIN (<<t>> \o s) = 1 .. Len(s) + 1 /\ DOMAIN s = 1 .. Len(s)
      /\ \A i \in 1 .. Len(s) : (<<t>> \o s)[i + 1] = s[i]
      /\ (<<t>> \o s)[1] = t
  OBVIOUS
<1> DEFINE a == <<t>> \o s
<1> HIDE DEF a
<1>2. /\ DOMAIN a = 1 .. Len(s) + 1 /\ DOMAIN s = 1 .. Len(s) /\ Len(s) \in Nat
      /\ \A i \in 1 .. Len(s) : a[i + 1] = s[i]
      /\ a[1] = t
  BY <1>1 DEF a
<1>3. \A i \in DOMAIN a : i = 1 \/ (i - 1 \in 1 .. Len(s) /\ a[i] = s[i - 1])
  <2> SUFFICES ASSUME NEW i \in DOMAIN a, i # 1 PROVE i - 1 \in 1 .. Len(s) /\ a[i] = s[i - 1]
    OBVIOUS
  <2>1. i - 1 \in 1 .. Len(s) /\ (i - 1) + 1 = i
    BY <1>2
  <2> QED BY <1>2, <2>1
<1>4. Range(a) = Range(s) \cup {t}
  <2>1. \A i \in DOMAIN a : a[i] \in Range(s) \cup {t}
    BY <1>2, <1>3 DEF Range
  <2>2. \A i \in DOMAIN s : i + 1 \in DOMAIN a /\ a[i + 1] = s[i]
    BY <1>2
  <2>3. 1 \in DOMAIN a
    BY <1>2
  <2> QED BY <1>2, <2>1, <2>2, <2>3 DEF Range
<1>5. ASSUME IsInjective(s), t \notin Range(s) PROVE IsInjective(a)
  <2> SUFFICES ASSUME NEW i \in DOMAIN a, NEW j \in DOMAIN a, a[i] = a[j] PROVE i = j
    BY DEF IsInjective
  <2>1. \A k \in 1 .. Len(s) : s[k] # t
    BY <1>2, <1>5 DEF Range
  <2>2. CASE i = 1
    BY <1>2, <1>3, <2>1, <2>2
  <2>3. CASE j = 1
    BY <1>2, <1>3, <2>1, <2>3
  <2>4. CASE i # 1 /\ j # 1
    <3>1. i - 1 \in 1 .. Len(s) /\ j - 1 \in 1 .. Len(s) /\ s[i - 1] = s[j - 1]
      BY <1>3, <2>4
    <3>2. i - 1 = j - 1
      BY <1>2, <1>5, <3>1 DEF IsInjective
    <3>3. i \in Int /\ j \in Int
      BY <1>2
    <3> QED BY <3>2, <3>3
  <2> QED BY <2>2, <2>3, <2>4
<1> QED BY <1>1, <1>4, <1>5 DEF a

LEMMA TruncatedRange ==
    ASSUME NEW S, NEW s \in Seq(S), NEW n \in 0 .. Len(s)
    PROVE  /\ SubSeq(s, 1, n) \in Seq(S) /\ Len(SubSeq(s, 1, n)) = n
           /\ \A i \in 1 .. n : SubSeq(s, 1, n)[i] = s[i]
           /\ Range(SubSeq(s, 1, n)) \subseteq Range(s)
           /\ IsInjective(s) => IsInjective(SubSeq(s, 1, n))
           /\ n = Len(s) => SubSeq(s, 1, n) = s
<1>1. /\ SubSeq(s, 1, n) \in Seq(S) /\ Len(SubSeq(s, 1, n)) = n
      /\ DOMAIN SubSeq(s, 1, n) = 1 .. n /\ DOMAIN s = 1 .. Len(s)
      /\ \A i \in 1 .. n : SubSeq(s, 1, n)[i] = s[i]
  OBVIOUS
<1>2. n = Len(s) => SubSeq(s, 1, n) = s
  BY <1>1
<1> DEFINE a == SubSeq(s, 1, n)
<1> HIDE DEF a
<1>3. DOMAIN a = 1 .. n /\ 1 .. n \subseteq DOMAIN s /\ \A i \in 1 .. n : a[i] = s[i]
  BY <1>1 DEF a
<1>4. Range(a) \subseteq Range(s) /\ (IsInjective(s) => IsInjective(a))
  BY <1>3 DEF Range, IsInjective
<1> QED BY <1>1, <1>2, <1>4 DEF a

\* What is read moves to the front; nothing is lost and nothing comes twice.
LEMMA RefreshedRange ==
    ASSUME NEW S, NEW s \in Seq(S), NEW t \in Range(s), IsInjective(s)
    PROVE  /\ Refreshed(s, t) \in Seq(S) /\ Len(Refreshed(s, t)) = Len(s)
           /\ Range(Refreshed(s, t)) = Range(s) /\ IsInjective(Refreshed(s, t))
<1> DEFINE c == Place(s, t)
           from(i) == IF i = 1 THEN c ELSE IF i <= c THEN i - 1 ELSE i
           a == Refreshed(s, t)
<1>1. c \in DOMAIN s /\ s[c] = t /\ DOMAIN s = 1 .. Len(s) /\ Len(s) \in Nat
  <2>1. \E i \in DOMAIN s : s[i] = t
    BY DEF Range
  <2> QED BY <2>1 DEF Place
<1> HIDE DEF c
<1>2. c \in 1 .. Len(s) /\ c \in Int
  BY <1>1
<1>3. \A i \in 1 .. Len(s) : from(i) \in 1 .. Len(s)
  BY <1>1, <1>2
<1>4. \A i, j \in 1 .. Len(s) : from(i) = from(j) => i = j
  BY <1>1, <1>2
<1>5. a = [i \in DOMAIN s |-> IF i = 1 THEN t ELSE IF i <= c THEN s[i - 1] ELSE s[i]]
  BY DEF Refreshed, c
<1>6. DOMAIN a = 1 .. Len(s) /\ \A i \in 1 .. Len(s) : a[i] = s[from(i)]
  BY <1>1, <1>5
<1>7. \A j \in 1 .. Len(s) : \E i \in 1 .. Len(s) : from(i) = j
  <2> SUFFICES ASSUME NEW j \in 1 .. Len(s) PROVE \E i \in 1 .. Len(s) : from(i) = j
    OBVIOUS
  <2>1. CASE j = c
    <3>1. 1 \in 1 .. Len(s) /\ from(1) = j
      BY <1>2, <2>1
    <3> QED BY <3>1
  <2>2. CASE j < c
    <3>1. j + 1 \in 1 .. Len(s) /\ from(j + 1) = j
      BY <1>1, <1>2, <2>2
    <3> QED BY <3>1
  <2>3. CASE j > c
    <3>1. from(j) = j
      BY <1>1, <1>2, <2>3
    <3> QED BY <3>1
  <2> QED BY <1>2, <2>1, <2>2, <2>3
<1> HIDE DEF from, a
<1>8. a \in Seq(S) /\ Len(a) = Len(s)
  <2>1. \A i \in 1 .. Len(s) : a[i] \in S
    BY <1>3, <1>6
  <2>2. a = [i \in 1 .. Len(s) |-> a[i]]
    BY <1>1, <1>5
  <2> QED BY <1>1, <1>6, <2>1, <2>2
<1>9. Range(a) = Range(s)
  <2>1. \A i \in DOMAIN a : a[i] \in Range(s)
    BY <1>1, <1>3, <1>6 DEF Range
  <2>2. \A j \in DOMAIN s : \E i \in DOMAIN a : a[i] = s[j]
    BY <1>1, <1>6, <1>7
  <2> QED BY <2>1, <2>2 DEF Range
<1>10. IsInjective(a)
  BY <1>1, <1>3, <1>4, <1>6 DEF IsInjective
<1> QED BY <1>8, <1>9, <1>10 DEF a

\* ------------------------------------------------- the tiles being evaluated ----

Filling == [tile : SegmentTiles, reads : Seq(SegmentTiles)]

\* Each evaluation under way is of the segment before the one that waits for it, and
\* that one has not been answered yet.
StackRight(f) ==
    /\ f \in Seq(Filling)
    /\ \A k \in DOMAIN f :
          /\ f[k].tile \in OfSegment(Segments - k + 1)
          /\ f[k].reads \in Seq(OfSegment(Segments - k))
          /\ k < Len(f) => f[k].reads # <<>>

LEMMA OfSegmentTiles ==
    ASSUME NEW n, NEW s \in Seq(OfSegment(n))
    PROVE  s \in Seq(SegmentTiles)
  BY DEF OfSegment

LEMMA StackHeight ==
    ASSUME TileBudgetAssumption, NEW f, StackRight(f)
    PROVE  Len(f) \in 0 .. Segments
<1>1. Len(f) \in Nat /\ DOMAIN f = 1 .. Len(f) /\ Segments \in Nat \ {0}
  BY DEF StackRight, TileBudgetAssumption
<1>2. CASE Len(f) = 0
  BY <1>1, <1>2
<1>3. CASE Len(f) # 0
  <2>1. f[Len(f)].tile \in OfSegment(Segments - Len(f) + 1)
    BY <1>1, <1>3 DEF StackRight
  <2>2. Segments - Len(f) + 1 \in 1 .. Segments
    BY <2>1, TileParts DEF OfSegment
  <2> QED BY <1>1, <2>2
<1> QED BY <1>2, <1>3

LEMMA EmptyStack == StackRight(<<>>)
  BY DEF StackRight

\* The innermost evaluation reads one more.
LEMMA ReadOneRight ==
    ASSUME TileBudgetAssumption, NEW f, StackRight(f), f # <<>>, f[Len(f)].reads # <<>>
    PROVE  /\ StackRight(ReadOne(f)) /\ Len(ReadOne(f)) = Len(f)
           /\ ReadOne(f) # <<>>
           /\ \A k \in DOMAIN f : /\ ReadOne(f)[k].tile = f[k].tile
                                  /\ Range(ReadOne(f)[k].reads) \subseteq Range(f[k].reads)
<1> DEFINE n == Len(f)
           g == ReadOne(f)
           rest == Tail(f[n].reads)
<1>1. f \in Seq(Filling) /\ n \in Nat \ {0} /\ DOMAIN f = 1 .. n
  BY DEF StackRight
<1>2. f[n] \in Filling /\ f[n].reads \in Seq(OfSegment(Segments - n))
      /\ f[n].tile \in OfSegment(Segments - n + 1)
  BY <1>1 DEF StackRight
<1>3. rest \in Seq(OfSegment(Segments - n)) /\ Range(rest) \subseteq Range(f[n].reads)
  <2> DEFINE s == f[n].reads
  <2>1. s \in Seq(OfSegment(Segments - n)) /\ s # <<>>
    BY <1>2
  <2> HIDE DEF s
  <2>2. /\ Tail(s) \in Seq(OfSegment(Segments - n)) /\ DOMAIN Tail(s) = 1 .. Len(s) - 1
        /\ \A i \in 1 .. Len(s) - 1 : Tail(s)[i] = s[i + 1] /\ i + 1 \in DOMAIN s
    BY <2>1
  <2> QED BY <2>2 DEF s, Range
<1>4. g = [f EXCEPT ![n].reads = rest]
  BY DEF ReadOne
<1> DEFINE last == [tile |-> f[n].tile, reads |-> rest]
<1>5. last \in Filling
  <2>1. rest \in Seq(SegmentTiles)
    BY <1>3, OfSegmentTiles
  <2>2. f[n].tile \in SegmentTiles
    BY <1>2 DEF Filling
  <2> QED BY <2>1, <2>2 DEF Filling
<1>6. [f[n] EXCEPT !.reads = rest] = last
  BY <1>2 DEF Filling
<1>7. g = [k \in 1 .. n |-> IF k = n THEN last ELSE f[k]]
  <2> HIDE DEF last, rest
  <2>1. g = [f EXCEPT ![n] = [f[n] EXCEPT !.reads = rest]]
    BY <1>4
  <2>2. g = [f EXCEPT ![n] = last]
    BY <1>6, <2>1
  <2>3. f = [k \in 1 .. n |-> f[k]]
    BY <1>1
  <2> QED BY <1>1, <2>2, <2>3
<1>13. last.tile = f[n].tile /\ last.reads = rest
  OBVIOUS
<1> HIDE DEF g, last, rest
<1>8. g \in Seq(Filling) /\ Len(g) = n
  <2>1. \A k \in 1 .. n : f[k] \in Filling
    BY <1>1
  <2> HIDE DEF n
  <2> QED BY <1>1, <1>5, <1>7, <2>1
<1>9. DOMAIN g = 1 .. n /\ g[n] = last /\ \A k \in 1 .. n : k # n => g[k] = f[k]
  <2>1. n \in 1 .. n
    BY <1>1
  <2> HIDE DEF n
  <2>2. DOMAIN g = 1 .. n
    BY <1>7
  <2>3. \A k \in 1 .. n : g[k] = IF k = n THEN last ELSE f[k]
    BY ONLY <1>7
  <2> QED BY <2>1, <2>2, <2>3
<1>10. StackRight(g)
  <2> SUFFICES ASSUME NEW k \in 1 .. n
               PROVE  /\ g[k].tile \in OfSegment(Segments - k + 1)
                      /\ g[k].reads \in Seq(OfSegment(Segments - k))
                      /\ k < n => g[k].reads # <<>>
    BY <1>8, <1>9 DEF StackRight
  <2>1. CASE k = n
    BY <1>2, <1>3, <1>9, <1>13, <2>1
  <2>2. CASE k # n
    BY <1>1, <1>9, <2>2 DEF StackRight
  <2> QED BY <2>1, <2>2
<1>11. \A k \in DOMAIN f : g[k].tile = f[k].tile /\ Range(g[k].reads) \subseteq Range(f[k].reads)
  BY <1>1, <1>3, <1>9, <1>13
<1>12. g # <<>>
  BY <1>1, <1>8
<1> QED BY <1>8, <1>10, <1>11, <1>12 DEF g

\* The innermost one ends.
LEMMA PoppedRight ==
    ASSUME TileBudgetAssumption, NEW f, StackRight(f), f # <<>>,
           NEW g, g = Popped(f)
    PROVE  /\ StackRight(g) /\ Len(g) = Len(f) - 1
           /\ \A k \in DOMAIN g : k \in DOMAIN f /\ g[k] = f[k]
           /\ g # <<>> => g[Len(g)].reads # <<>>
<1>1. f \in Seq(Filling) /\ Len(f) \in Nat \ {0} /\ DOMAIN f = 1 .. Len(f)
  BY DEF StackRight
<1>2. Len(f) - 1 \in 0 .. Len(f)
  BY <1>1
<1>3. g \in Seq(Filling) /\ Len(g) = Len(f) - 1
      /\ \A k \in 1 .. Len(f) - 1 : g[k] = f[k]
  BY <1>1, <1>2, TruncatedRange DEF Popped
<1>4. DOMAIN g = 1 .. Len(f) - 1
  BY <1>3
<1>5. \A k \in DOMAIN g : k \in DOMAIN f /\ g[k] = f[k] /\ k < Len(f)
  BY <1>1, <1>3, <1>4
<1>6. StackRight(g)
  BY <1>3, <1>5 DEF StackRight
<1>7. g # <<>> => g[Len(g)].reads # <<>>
  <2> SUFFICES ASSUME g # <<>> PROVE g[Len(g)].reads # <<>>
    OBVIOUS
  <2>1. Len(g) \in DOMAIN g
    BY <1>3
  <2> QED BY <1>5, <2>1 DEF StackRight
<1> QED BY <1>3, <1>5, <1>6, <1>7

\* What the innermost one reads is evaluated first.
LEMMA PushedRight ==
    ASSUME TileBudgetAssumption, NEW f, StackRight(f),
           f # <<>> => f[Len(f)].reads # <<>>,
           NEW t \in OfSegment(Segments - Len(f)),
           NEW g, g = Pushed(f, t)
    PROVE  /\ StackRight(g) /\ Len(g) = Len(f) + 1 /\ g # <<>>
           /\ \A k \in DOMAIN f : k \in DOMAIN g /\ g[k] = f[k]
           /\ g[Len(g)].tile = t /\ g[Len(g)].reads = ReadBy(t)
<1> DEFINE x == [tile |-> t, reads |-> ReadBy(t)]
<1>1. f \in Seq(Filling) /\ Len(f) \in Nat /\ DOMAIN f = 1 .. Len(f)
  BY DEF StackRight
<1>2. t \in SegmentTiles /\ t.segment = Segments - Len(f) /\ Segments \in Nat
  BY DEF OfSegment, TileBudgetAssumption
<1>3. ReadBy(t) \in Seq(OfSegment(t.segment - 1))
  BY <1>2, ReadsBeside
<1>4. x \in Filling /\ x.tile = t /\ x.reads = ReadBy(t)
  <2>1. ReadBy(t) \in Seq(SegmentTiles)
    BY <1>3, OfSegmentTiles
  <2> QED BY <1>2, <2>1 DEF Filling
<1> HIDE DEF x
<1>5. /\ g \in Seq(Filling) /\ Len(g) = Len(f) + 1 /\ DOMAIN g = 1 .. Len(f) + 1
      /\ g[Len(f) + 1] = x /\ \A k \in 1 .. Len(f) : g[k] = f[k]
  BY <1>1, <1>4 DEF x, Pushed
<1>6. StackRight(g)
  <2> SUFFICES ASSUME NEW k \in DOMAIN g
               PROVE  /\ g[k].tile \in OfSegment(Segments - k + 1)
                      /\ g[k].reads \in Seq(OfSegment(Segments - k))
                      /\ k < Len(g) => g[k].reads # <<>>
    BY <1>5 DEF StackRight
  <2>1. CASE k = Len(f) + 1
    <3>1. Segments - k + 1 = Segments - Len(f) /\ Segments - k = t.segment - 1 /\ ~(k < Len(g))
      BY <1>1, <1>2, <1>5, <2>1
    <3> QED BY <1>3, <1>4, <1>5, <2>1, <3>1
  <2>2. CASE k # Len(f) + 1
    <3>1. k \in 1 .. Len(f) /\ g[k] = f[k]
      BY <1>1, <1>5, <2>2
    <3>2. CASE k < Len(f)
      BY <1>1, <3>1, <3>2 DEF StackRight
    <3>3. CASE k = Len(f)
      <4>1. f # <<>>
        BY <1>1, <3>1
      <4> QED BY <1>1, <3>1, <3>3, <4>1 DEF StackRight
    <3> QED BY <1>1, <3>1, <3>2, <3>3
  <2> QED BY <2>1, <2>2
<1>7. g # <<>>
  BY <1>1, <1>5
<1>8. \A k \in DOMAIN f : k \in DOMAIN g
  BY <1>1, <1>5
<1> QED BY <1>1, <1>4, <1>5, <1>6, <1>7, <1>8

\* ------------------------------------------------- what is true of each ----

Late == {"releases", "charges", "holds", "stores"}
Busy == {"reserves", "raises", "runs"} \cup Late

\* Every variable has a value for each of its own.
Shaped ==
    /\ doing = [e \in Evaluations |-> doing[e]]
    /\ ask = [e \in Evaluations |-> ask[e]]
    /\ runs = [e \in Evaluations |-> runs[e]]
    /\ inFrame = [r \in Renders |-> inFrame[r]]
    /\ fill = [q \in Queries |-> fill[q]]
    /\ toRead = [q \in Queries |-> toRead[q]]
    /\ heldTiles = [q \in Queries |-> heldTiles[q]]
    /\ evaluated = [q \in Queries |-> evaluated[q]]

\* A reservation is of a working set, or of a tile that is held; a query wants one.
AskSound(e, d, a, n) ==
    /\ a \in [bytes : Nat, wanted : Nat, seen : Nat] /\ n \in Nat
    /\ d \in {"reserves", "raises", "runs"} => a.bytes = WorkingBytes[e] /\ a.wanted >= 1
    /\ d \in {"charges", "holds"} => a.bytes = TileBytes /\ a.wanted = 1
    /\ e \in Queries => /\ d = "reserves" => a.wanted = 1
                        /\ d \in {"raises", "holds"} => n = 1

\* A render's tiles are in its frame in order, and what it reserved is of tiles that
\* are left.
RenderSound(r, d, a, n, w) ==
    /\ d \in {"looks", "remembers", "checks", "reserves", "raises", "runs"} \cup Ended
    /\ w \in Seq(Nat) /\ w = [i \in 1 .. Len(w) |-> i] /\ Len(w) <= TileCount[r]
    /\ d = "done" => Len(w) = TileCount[r]
    /\ d = "reserves" => a.wanted <= TileCount[r] - Len(w)
    /\ d \in {"raises", "runs"} => n \in 1 .. TileCount[r] - Len(w)

\* A query evaluates while a tile is under way, for a tile that it still reads.
QueryShape(d, f, r) ==
    /\ d \in {"idle", "reads", "done"} \cup Busy
    /\ d \in Busy => f # <<>>
    /\ d = "idle" => f = <<>>
    /\ StackRight(f)
    /\ r \in Seq(OfSegment(Segments))
    /\ f # <<>> => r # <<>>

Innermost(f) == f[Len(f)].tile

\* It holds what it has evaluated, none of it twice nor while it is under way.
QueryHeld(d, f, h, v) ==
    /\ h \in Seq(SegmentTiles) /\ v \in Seq(SegmentTiles)
    /\ IsInjective(h) /\ Range(h) \subseteq Range(v)
    /\ \A k \in DOMAIN f : f[k].tile \notin Range(h)
    /\ Len(h) <= Capacity
    /\ d \in {"charges", "holds", "stores"} => Len(h) < Capacity
    /\ d \in Late => Innermost(f) \in Range(v)
    /\ d = "idle" => h = <<>> /\ v = <<>>

\* While all it evaluated fits, it has pushed nothing out.
QueryOnce(d, f, h, v) ==
    Cardinality(Range(v)) <= Capacity =>
        /\ IsInjective(v)
        /\ d # "done" => \A t \in Range(v) : t \in Range(h) \/ (d \in Late /\ t = Innermost(f))

\* It reads and evaluates tiles of the cone of its points.
InCone(p, f, r, v) ==
    /\ Range(r) \subseteq Cone(p) /\ Range(v) \subseteq Cone(p)
    /\ \A k \in DOMAIN f : f[k].tile \in Cone(p) /\ Range(f[k].reads) \subseteq Cone(p)
QueryCone(f, r, v) == \E p \in Points : InCone(p, f, r, v)

QuerySound(d, f, r, h, v) ==
    QueryShape(d, f, r) /\ QueryHeld(d, f, h, v) /\ QueryOnce(d, f, h, v) /\ QueryCone(f, r, v)

QuerySoundOf(q) == QuerySound(doing[q], fill[q], toRead[q], heldTiles[q], evaluated[q])

\* ------------------------------------------------- what a query does next ----

\* A step that changes no tile, from one of these to another.
LEMMA QueryGoesOn ==
    ASSUME TileBudgetAssumption, NEW d, NEW f, NEW r, NEW h, NEW v, NEW e,
           QuerySound(d, f, r, h, v),
           \/ d = "reserves" /\ e = "raises"
           \/ d = "raises" /\ e = "runs"
           \/ d = "runs" /\ e = "reads"
           \/ d = "charges" /\ e = "holds"
           \/ d = "holds" /\ e = "stores"
    PROVE  QuerySound(e, f, r, h, v)
<1>1. QueryShape(e, f, r)
  BY DEF QuerySound, QueryShape, Busy, Late
<1>2. QueryHeld(e, f, h, v)
  BY DEF QuerySound, QueryHeld, Late
<1>3. QueryOnce(e, f, h, v)
  BY DEF QuerySound, QueryOnce, Late
<1> QED BY <1>1, <1>2, <1>3 DEF QuerySound

LEMMA QueryBegins ==
    ASSUME TileBudgetAssumption, NEW f, NEW r, NEW h, NEW v, NEW p \in Points,
           QuerySound("idle", f, r, h, v)
    PROVE  QuerySound("reads", f, [i \in DOMAIN p |-> Tile(Segments, p[i])], h, v)
<1> DEFINE s == [i \in DOMAIN p |-> Tile(Segments, p[i])]
<1>1. f = <<>> /\ h = <<>> /\ v = <<>>
  BY DEF QuerySound, QueryShape, QueryHeld
<1>2. p \in Seq(Positions)
  BY DEF TileBudgetAssumption
<1>3. \A i \in DOMAIN p : Tile(Segments, p[i]) \in Cone(p) \cap OfSegment(Segments)
  BY <1>2, ConePoints
<1>4. s \in Seq(OfSegment(Segments))
  <2>1. DOMAIN p = 1 .. Len(p) /\ Len(p) \in Nat
    BY <1>2
  <2>2. s = [i \in 1 .. Len(p) |-> Tile(Segments, p[i])]
    BY <2>1
  <2> QED BY <1>3, <2>1, <2>2
<1>5. Range(s) \subseteq Cone(p)
  BY <1>3 DEF Range
<1> HIDE DEF s
<1>6. QueryShape("reads", f, s)
  BY <1>1, <1>4, EmptyStack DEF QueryShape, Busy, Late
<1>7. QueryHeld("reads", f, h, v) /\ QueryOnce("reads", f, h, v)
  BY DEF QuerySound, QueryHeld, QueryOnce, Late
<1>8. QueryCone(f, s, v)
  <2>1. Range(v) = {} /\ DOMAIN f = {}
    BY <1>1 DEF Range
  <2> QED BY <1>5, <2>1 DEF QueryCone, InCone
<1> QED BY <1>6, <1>7, <1>8 DEF QuerySound, s

\* What the innermost evaluation, or the query itself, reads next.
Next1(f, r) == IF f = <<>> THEN r ELSE f[Len(f)].reads

LEMMA NextRead ==
    ASSUME TileBudgetAssumption, NEW d, NEW f, NEW r, QueryShape(d, f, r), Next1(f, r) # <<>>
    PROVE  /\ Head(Next1(f, r)) \in OfSegment(Segments - Len(f))
           /\ r # <<>>
           /\ f # <<>> => f[Len(f)].reads # <<>>
           /\ \A p : (\E v : InCone(p, f, r, v)) => Head(Next1(f, r)) \in Cone(p)
<1> DEFINE s == Next1(f, r)
<1>1. Segments \in Nat \ {0} /\ f \in Seq(Filling) /\ Len(f) \in Nat
  BY DEF QueryShape, StackRight, TileBudgetAssumption
<1>2. s \in Seq(OfSegment(Segments - Len(f)))
  <2>1. CASE f = <<>>
    BY <1>1, <2>1 DEF Next1, QueryShape
  <2>2. CASE f # <<>>
    <3>1. Len(f) \in DOMAIN f
      BY <1>1, <2>2
    <3> QED BY <2>2, <3>1 DEF Next1, QueryShape, StackRight
  <2> QED BY <2>1, <2>2
<1>3. \A p : (\E v : InCone(p, f, r, v)) => Range(s) \subseteq Cone(p)
  <2> SUFFICES ASSUME NEW p, NEW v, InCone(p, f, r, v) PROVE Range(s) \subseteq Cone(p)
    OBVIOUS
  <2>1. CASE f = <<>>
    BY <2>1 DEF Next1, InCone
  <2>2. CASE f # <<>>
    <3>1. Len(f) \in DOMAIN f
      BY <1>1, <2>2
    <3> QED BY <2>2, <3>1 DEF Next1, InCone
  <2> QED BY <2>1, <2>2
<1>4. f # <<>> => f[Len(f)].reads # <<>>
  BY DEF Next1
<1>5. r # <<>>
  BY DEF Next1, QueryShape
<1> HIDE DEF s
<1>6. s # <<>> /\ Head(s) \in OfSegment(Segments - Len(f)) /\ Head(s) \in Range(s)
  <2>1. s # <<>>
    BY DEF s
  <2>2. 1 \in DOMAIN s /\ Head(s) = s[1]
    BY <1>2, <2>1
  <2> QED BY <1>2, <2>1, <2>2 DEF Range
<1> QED BY <1>3, <1>4, <1>5, <1>6 DEF s

LEMMA TailSound ==
    ASSUME NEW S, NEW s \in Seq(S), s # <<>>
    PROVE  Tail(s) \in Seq(S) /\ Range(Tail(s)) \subseteq Range(s)
<1>1. /\ Tail(s) \in Seq(S) /\ DOMAIN Tail(s) = 1 .. Len(s) - 1
      /\ \A i \in 1 .. Len(s) - 1 : Tail(s)[i] = s[i + 1] /\ i + 1 \in DOMAIN s
  OBVIOUS
<1> QED BY <1>1 DEF Range

\* A read is answered: what is read next is one less.
LEMMA AdvanceSound ==
    ASSUME TileBudgetAssumption, NEW f, NEW r, NEW v,
           StackRight(f), r \in Seq(OfSegment(Segments)), r # <<>>,
           f # <<>> => f[Len(f)].reads # <<>>,
           NEW p, InCone(p, f, r, v)
    PROVE  /\ StackRight(ReadOne(f)) /\ ReadOn(f, r) \in Seq(OfSegment(Segments))
           /\ (ReadOne(f) # <<>> => ReadOn(f, r) # <<>>)
           /\ InCone(p, ReadOne(f), ReadOn(f, r), v)
           /\ DOMAIN ReadOne(f) = DOMAIN f
           /\ \A k \in DOMAIN f : ReadOne(f)[k].tile = f[k].tile
<1>1. CASE f = <<>>
  <2>1. ReadOne(f) = <<>> /\ ReadOn(f, r) = Tail(r) /\ DOMAIN f = {}
    BY <1>1 DEF ReadOne, ReadOn
  <2>2. ReadOn(f, r) \in Seq(OfSegment(Segments)) /\ Range(ReadOn(f, r)) \subseteq Range(r)
    BY <2>1, TailSound
  <2> QED BY <1>1, <2>1, <2>2, EmptyStack DEF InCone
<1>2. CASE f # <<>>
  <2>1. /\ StackRight(ReadOne(f)) /\ Len(ReadOne(f)) = Len(f) /\ ReadOne(f) # <<>>
        /\ \A k \in DOMAIN f : /\ ReadOne(f)[k].tile = f[k].tile
                               /\ Range(ReadOne(f)[k].reads) \subseteq Range(f[k].reads)
    BY <1>2, ReadOneRight
  <2>2. ReadOn(f, r) = r
    BY <1>2 DEF ReadOn
  <2> DEFINE g == ReadOne(f)
  <2> HIDE DEF g
  <2>3. DOMAIN g = DOMAIN f
    <3>1. g \in Seq(Filling) /\ f \in Seq(Filling) /\ Len(g) = Len(f)
      BY <2>1 DEF g, StackRight
    <3> QED BY <3>1
  <2> QED BY <1>2, <2>1, <2>2, <2>3 DEF InCone, g
<1> QED BY <1>1, <1>2

LEMMA QueryHits ==
    ASSUME TileBudgetAssumption, NEW f, NEW r, NEW h, NEW v,
           QuerySound("reads", f, r, h, v), Next1(f, r) # <<>>,
           Head(Next1(f, r)) \in Range(h),
           NEW g, g = ReadOne(f),
           NEW s, s = ReadOn(f, r),
           NEW k, k = Refreshed(h, Head(Next1(f, r)))
    PROVE  QuerySound("reads", g, s, k, v) /\ Len(k) = Len(h) /\ Len(g) = Len(f)
<1>1. PICK p \in Points : InCone(p, f, r, v)
  BY DEF QuerySound, QueryCone
<1>2. QueryShape("reads", f, r) /\ QueryHeld("reads", f, h, v) /\ QueryOnce("reads", f, h, v)
  BY DEF QuerySound
<1>3. r # <<>> /\ (f # <<>> => f[Len(f)].reads # <<>>)
  BY <1>2, NextRead
<1>4. /\ StackRight(g) /\ s \in Seq(OfSegment(Segments)) /\ (g # <<>> => s # <<>>)
      /\ InCone(p, g, s, v)
      /\ DOMAIN g = DOMAIN f /\ \A i \in DOMAIN g : g[i].tile = f[i].tile
  <2>1. StackRight(f) /\ r \in Seq(OfSegment(Segments))
    BY <1>2 DEF QueryShape
  <2>2. /\ StackRight(ReadOne(f)) /\ ReadOn(f, r) \in Seq(OfSegment(Segments))
        /\ (ReadOne(f) # <<>> => ReadOn(f, r) # <<>>)
        /\ InCone(p, ReadOne(f), ReadOn(f, r), v)
        /\ DOMAIN ReadOne(f) = DOMAIN f
        /\ \A i \in DOMAIN f : ReadOne(f)[i].tile = f[i].tile
    BY ONLY TileBudgetAssumption, <1>1, <1>3, <2>1, AdvanceSound
  <2> QED BY ONLY <2>2, g = ReadOne(f), s = ReadOn(f, r)
<1>5. k \in Seq(SegmentTiles) /\ Len(k) = Len(h) /\ Range(k) = Range(h) /\ IsInjective(k)
  BY <1>2, RefreshedRange DEF QueryHeld
<1>6. QueryShape("reads", g, s)
  BY <1>4 DEF QueryShape, Busy, Late
<1>7. QueryHeld("reads", g, k, v)
  BY <1>2, <1>4, <1>5 DEF QueryHeld, Late
<1>8. QueryOnce("reads", g, k, v)
  BY <1>2, <1>5 DEF QueryOnce, Late
<1>9. Len(g) = Len(f)
  BY <1>2, <1>4 DEF QueryShape, StackRight
<1> QED BY <1>4, <1>5, <1>6, <1>7, <1>8, <1>9 DEF QuerySound, QueryCone

LEMMA QueryMisses ==
    ASSUME TileBudgetAssumption, NEW f, NEW r, NEW h, NEW v,
           QuerySound("reads", f, r, h, v), Next1(f, r) # <<>>,
           NEW t, t = Head(Next1(f, r)), t \notin Range(h),
           NEW g, g = Pushed(f, t)
    PROVE  QuerySound("reserves", g, r, h, v) /\ Len(g) = Len(f) + 1
<1>1. PICK p \in Points : InCone(p, f, r, v)
  BY DEF QuerySound, QueryCone
<1>2. QueryShape("reads", f, r) /\ QueryHeld("reads", f, h, v) /\ QueryOnce("reads", f, h, v)
  BY DEF QuerySound
<1>3. /\ t \in OfSegment(Segments - Len(f)) /\ t \in Cone(p)
      /\ r # <<>> /\ (f # <<>> => f[Len(f)].reads # <<>>)
  BY <1>1, <1>2, NextRead
<1>4. /\ StackRight(g) /\ Len(g) = Len(f) + 1 /\ g # <<>>
      /\ \A i \in DOMAIN f : i \in DOMAIN g /\ g[i] = f[i]
      /\ g[Len(g)].tile = t /\ g[Len(g)].reads = ReadBy(t)
  <2>1. StackRight(f)
    BY <1>2 DEF QueryShape
  <2> QED BY <1>3, <2>1, PushedRight
<1>5. \A i \in DOMAIN g : (i \in DOMAIN f /\ g[i] = f[i]) \/ i = Len(g)
  <2>1. DOMAIN g = 1 .. Len(f) + 1 /\ DOMAIN f = 1 .. Len(f) /\ Len(f) \in Nat
    BY <1>2, <1>4 DEF StackRight, QueryShape
  <2> QED BY <1>4, <2>1
<1>6. p \in Seq(Positions)
  BY DEF TileBudgetAssumption
<1>7. Range(ReadBy(t)) \subseteq Cone(p)
  BY <1>3, <1>6, ConeReads
<1>8. InCone(p, g, r, v)
  BY <1>1, <1>3, <1>4, <1>5, <1>7 DEF InCone
<1>9. QueryShape("reserves", g, r)
  BY <1>2, <1>3, <1>4 DEF QueryShape, Busy
<1>10. QueryHeld("reserves", g, h, v)
  BY <1>2, <1>4, <1>5 DEF QueryHeld, Late
<1>11. QueryOnce("reserves", g, h, v)
  BY <1>2 DEF QueryOnce, Late
<1> QED BY <1>4, <1>8, <1>9, <1>10, <1>11 DEF QuerySound, QueryCone

LEMMA QueryEvaluates ==
    ASSUME TileBudgetAssumption, NEW f, NEW r, NEW h, NEW v,
           QuerySound("reads", f, r, h, v), f # <<>>,
           NEW w, w = Append(v, Innermost(f))
    PROVE  QuerySound("releases", f, r, h, w)
<1>1. PICK p \in Points : InCone(p, f, r, v)
  BY DEF QuerySound, QueryCone
<1>2. QueryShape("reads", f, r) /\ QueryHeld("reads", f, h, v) /\ QueryOnce("reads", f, h, v)
  BY DEF QuerySound
<1>3. Len(f) \in DOMAIN f
  BY <1>2 DEF QueryShape, StackRight
<1> DEFINE t == Innermost(f)
<1>4. t \in SegmentTiles /\ t \in Cone(p) /\ t \notin Range(h)
  BY <1>1, <1>2, <1>3 DEF Innermost, InCone, QueryHeld, Cone
<1> HIDE DEF t
<1>5. w = Append(v, t)
  BY DEF t
<1>6. w \in Seq(SegmentTiles) /\ Range(w) = Range(v) \cup {t}
      /\ (IsInjective(v) /\ t \notin Range(v) => IsInjective(w))
  BY <1>2, <1>4, <1>5, AppendedRange DEF QueryHeld
<1>7. QueryShape("releases", f, r)
  BY <1>2, <1>3 DEF QueryShape, Busy, Late
<1>8. QueryHeld("releases", f, h, w)
  BY <1>2, <1>6 DEF QueryHeld, Late, t
<1>9. QueryOnce("releases", f, h, w)
  <2> SUFFICES ASSUME Cardinality(Range(w)) <= Capacity
               PROVE  /\ IsInjective(w)
                      /\ \A x \in Range(w) : x \in Range(h) \/ x = t
    BY DEF QueryOnce, t, Late
  <2>1. Cardinality(Range(v)) <= Cardinality(Range(w))
    <3>1. IsFiniteSet(Range(w)) /\ Range(v) \in SUBSET Range(w)
      BY <1>6, RangeFinite
    <3> QED BY <3>1, FS_Subset
  <2>2. /\ Cardinality(Range(v)) \in Nat /\ Cardinality(Range(w)) \in Nat /\ Capacity \in Nat
    BY <1>2, <1>6, RangeFinite, CapacityType DEF QueryHeld
  <2>3. Cardinality(Range(v)) <= Capacity
    BY <2>1, <2>2
  <2>4. IsInjective(v) /\ \A x \in Range(v) : x \in Range(h)
    BY <1>2, <2>3 DEF QueryOnce, Late
  <2> QED BY <1>4, <1>6, <2>4
<1>10. InCone(p, f, r, w)
  BY <1>1, <1>4, <1>6 DEF InCone
<1> QED BY <1>7, <1>8, <1>9, <1>10 DEF QuerySound, QueryCone

LEMMA QueryMakesRoom ==
    ASSUME TileBudgetAssumption, NEW f, NEW r, NEW h, NEW v,
           QuerySound("releases", f, r, h, v),
           NEW k, k = Truncated(h)
    PROVE  QuerySound("charges", f, r, k, v) /\ Len(k) \in 0 .. Len(h)
<1>1. QueryShape("releases", f, r) /\ QueryHeld("releases", f, h, v)
      /\ QueryOnce("releases", f, h, v)
  BY DEF QuerySound
<1> DEFINE n == Min({Room, Len(h)})
<1>2. h \in Seq(SegmentTiles) /\ v \in Seq(SegmentTiles) /\ Len(h) \in Nat
  BY <1>1 DEF QueryHeld
<1>3. Capacity \in Nat \ {0} /\ Room \in Nat /\ Room = Capacity - 1
  BY CapacityType DEF Room
<1>4. n \in 0 .. Len(h) /\ n <= Room /\ (n = Room \/ n = Len(h))
  <2>1. Room \in Int /\ Len(h) \in Int
    BY <1>2, <1>3
  <2>2. /\ n = Room \/ n = Len(h)
        /\ n <= Room /\ n <= Len(h) /\ n \in Int
    BY <2>1, MinOfTwo
  <2> HIDE DEF n
  <2> QED BY <1>2, <1>3, <2>2
<1> HIDE DEF n
<1>5. k = SubSeq(h, 1, n)
  BY DEF n, Truncated
<1>6. /\ k \in Seq(SegmentTiles) /\ Len(k) = n /\ Range(k) \subseteq Range(h)
      /\ IsInjective(k) /\ (n = Len(h) => k = h)
  <2>1. IsInjective(h)
    BY <1>1 DEF QueryHeld
  <2> QED BY <1>2, <1>4, <1>5, <2>1, TruncatedRange
<1>7. QueryShape("charges", f, r)
  BY <1>1 DEF QueryShape, Busy, Late
<1>8. QueryHeld("charges", f, k, v)
  <2>1. Len(k) < Capacity /\ Len(k) <= Capacity
    <3>1. Len(k) = n
      BY <1>6
    <3> QED BY ONLY <1>2, <1>3, <1>4, <3>1
  <2> QED BY <1>1, <1>6, <2>1 DEF QueryHeld, Late
\* All it evaluated fits, and the tile just evaluated is not held yet: nothing goes.
<1>9. QueryOnce("charges", f, k, v)
  <2> SUFFICES ASSUME Cardinality(Range(v)) <= Capacity PROVE k = h
    BY <1>1 DEF QueryOnce, Late
  <2> DEFINE t == Innermost(f)
  <2>1. t \in Range(v) /\ t \notin Range(h) /\ Range(h) \subseteq Range(v) /\ IsInjective(h)
    <3>1. Len(f) \in DOMAIN f
      BY <1>1 DEF QueryShape, StackRight, Busy, Late
    <3> QED BY <1>1, <3>1 DEF QueryHeld, Late, Innermost
  <2> HIDE DEF t
  <2>2. IsFiniteSet(Range(h)) /\ Cardinality(Range(h)) = Len(h)
    BY <1>2, <2>1, InjectiveLength
  <2>3. Cardinality(Range(h) \cup {t}) = Len(h) + 1
    BY <2>1, <2>2, FS_AddElement
  <2>4. Cardinality(Range(h) \cup {t}) <= Cardinality(Range(v))
    <3>1. IsFiniteSet(Range(v)) /\ Range(h) \cup {t} \in SUBSET Range(v)
      BY <1>2, <2>1, RangeFinite
    <3> QED BY <3>1, FS_Subset
  <2>5. Cardinality(Range(v)) \in Nat
    BY <1>2, RangeFinite
  <2>6. Len(h) <= Room
    BY <1>2, <1>3, <2>3, <2>4, <2>5
  <2>7. n = Len(h)
    BY <1>2, <1>3, <1>4, <2>6
  <2> QED BY <1>6, <2>7
<1> QED BY <1>4, <1>6, <1>7, <1>8, <1>9 DEF QuerySound

LEMMA QueryHolds ==
    ASSUME TileBudgetAssumption, NEW f, NEW r, NEW h, NEW v,
           QuerySound("stores", f, r, h, v)
    PROVE  /\ QuerySound("reads", ReadOne(Popped(f)), ReadOn(Popped(f), r), <<Innermost(f)>> \o h, v)
           /\ Len(<<Innermost(f)>> \o h) = Len(h) + 1 /\ Len(ReadOne(Popped(f))) = Len(f) - 1
<1> DEFINE w == Popped(f)  g == ReadOne(w)  s == ReadOn(w, r)  k == <<Innermost(f)>> \o h
<1>0. w = Popped(f) /\ g = ReadOne(w) /\ s = ReadOn(w, r) /\ k = <<Innermost(f)>> \o h
  OBVIOUS
<1> SUFFICES QuerySound("reads", g, s, k, v) /\ Len(k) = Len(h) + 1 /\ Len(g) = Len(f) - 1
  OBVIOUS
<1> HIDE DEF w, g, s, k
<1>1. PICK p \in Points : InCone(p, f, r, v)
  BY DEF QuerySound, QueryCone
<1>2. QueryShape("stores", f, r) /\ QueryHeld("stores", f, h, v) /\ QueryOnce("stores", f, h, v)
  BY DEF QuerySound
<1>3. f # <<>> /\ r # <<>> /\ StackRight(f) /\ Len(f) \in DOMAIN f /\ DOMAIN f = 1 .. Len(f)
      /\ r \in Seq(OfSegment(Segments)) /\ Len(f) \in Nat /\ Segments \in Nat
  BY <1>2 DEF QueryShape, StackRight, Busy, Late, TileBudgetAssumption
<1>4. /\ StackRight(w) /\ Len(w) = Len(f) - 1
      /\ \A i \in DOMAIN w : i \in DOMAIN f /\ w[i] = f[i]
      /\ w # <<>> => w[Len(w)].reads # <<>>
  <2>1. StackRight(f) /\ f # <<>>
    BY <1>3
  <2> QED BY ONLY TileBudgetAssumption, <2>1, <1>0, PoppedRight
<1>5. InCone(p, w, r, v)
  BY <1>1, <1>4 DEF InCone
<1>6. /\ StackRight(g) /\ s \in Seq(OfSegment(Segments)) /\ (g # <<>> => s # <<>>)
      /\ InCone(p, g, s, v)
      /\ DOMAIN g = DOMAIN w /\ \A i \in DOMAIN g : g[i].tile = w[i].tile
  <2>1. StackRight(w) /\ r \in Seq(OfSegment(Segments)) /\ r # <<>>
        /\ (w # <<>> => w[Len(w)].reads # <<>>)
    BY <1>3, <1>4
  <2>2. /\ StackRight(ReadOne(w)) /\ ReadOn(w, r) \in Seq(OfSegment(Segments))
        /\ (ReadOne(w) # <<>> => ReadOn(w, r) # <<>>)
        /\ InCone(p, ReadOne(w), ReadOn(w, r), v)
        /\ DOMAIN ReadOne(w) = DOMAIN w
        /\ \A i \in DOMAIN w : ReadOne(w)[i].tile = w[i].tile
    BY ONLY TileBudgetAssumption, <1>5, <2>1, AdvanceSound
  <2> QED BY ONLY <2>2, <1>0
<1>7. Len(g) = Len(f) - 1 /\ DOMAIN w = 1 .. Len(f) - 1
  <2>1. /\ g \in Seq(Filling) /\ w \in Seq(Filling)
    BY <1>4, <1>6 DEF StackRight
  <2> QED BY <1>4, <1>6, <2>1
<1> DEFINE t == Innermost(f)
<1>8. t \in Range(v) /\ t \notin Range(h) /\ t \in OfSegment(Segments - Len(f) + 1)
      /\ t \in SegmentTiles
  BY <1>2, <1>3 DEF QueryHeld, Late, Innermost, StackRight, OfSegment
\* Those that wait are of later segments.
<1>9. \A i \in DOMAIN g : g[i].tile # t
  <2> SUFFICES ASSUME NEW i \in DOMAIN g, g[i].tile = t PROVE FALSE
    OBVIOUS
  <2>1. i \in 1 .. Len(f) - 1 /\ f[i].tile = t
    BY <1>4, <1>6, <1>7
  <2>2. f[i].tile \in OfSegment(Segments - i + 1)
    BY <1>3, <2>1 DEF StackRight
  <2>3. Segments - i + 1 = Segments - Len(f) + 1
    BY <1>8, <2>1, <2>2 DEF OfSegment
  <2> QED BY <1>3, <2>1, <2>3
<1> HIDE DEF t
<1>10. k = <<t>> \o h
  BY <1>0 DEF t
<1>11. /\ k \in Seq(SegmentTiles) /\ Len(k) = Len(h) + 1 /\ Range(k) = Range(h) \cup {t}
       /\ IsInjective(k)
  BY <1>2, <1>8, <1>10, LedRange DEF QueryHeld
<1>12. QueryShape("reads", g, s)
  BY <1>6 DEF QueryShape, Busy, Late
<1>13. QueryHeld("reads", g, k, v)
  <2>1. Len(k) <= Capacity
    <3>1. Len(h) < Capacity /\ Len(h) \in Nat /\ Capacity \in Nat
      BY <1>2, CapacityType DEF QueryHeld
    <3> QED BY <1>11, <3>1
  <2>2. \A i \in DOMAIN g : g[i].tile \notin Range(k)
    <3> SUFFICES ASSUME NEW i \in DOMAIN g PROVE g[i].tile \notin Range(k)
      OBVIOUS
    <3>1. g[i].tile \notin Range(h)
      BY <1>2, <1>4, <1>6 DEF QueryHeld
    <3> QED BY <1>9, <1>11, <3>1
  <2> QED BY <1>2, <1>8, <1>11, <2>1, <2>2 DEF QueryHeld, Late
<1>14. QueryOnce("reads", g, k, v)
  BY <1>2, <1>11 DEF QueryOnce, Late, t
<1> QED BY <1>6, <1>7, <1>11, <1>12, <1>13, <1>14 DEF QuerySound, QueryCone

LEMMA QueryAnswers ==
    ASSUME TileBudgetAssumption, NEW f, NEW r, NEW h, NEW v,
           QuerySound("reads", f, r, h, v)
    PROVE  QuerySound("done", f, r, <<>>, v)
<1>1. QueryShape("reads", f, r) /\ QueryHeld("reads", f, h, v) /\ QueryOnce("reads", f, h, v)
  BY DEF QuerySound
<1>2. QueryShape("done", f, r)
  BY <1>1 DEF QueryShape, Busy, Late
<1>3. <<>> \in Seq(SegmentTiles) /\ Range(<<>>) = {} /\ IsInjective(<<>>) /\ Len(<<>>) = 0
  BY DEF Range, IsInjective
<1>4. QueryHeld("done", f, <<>>, v)
  BY <1>1, <1>3, CapacityType DEF QueryHeld, Late
<1>5. QueryOnce("done", f, <<>>, v)
  BY <1>1 DEF QueryOnce
<1> QED BY <1>2, <1>4, <1>5 DEF QuerySound

\* ------------------------------------------------- what each has reserved ----

UnderNow(d, f) ==
    Len(f) - (IF d \in {"reserves", "releases", "charges", "holds", "stores"} THEN 1 ELSE 0)
RunNow(e, d, n, f) ==
    IF e \in Renders THEN IF d \in {"raises", "runs"} THEN n * WorkingBytes[e] ELSE 0
    ELSE UnderNow(d, f) * WorkingBytes[e]
HeldNow(e, d, h) ==
    IF e \in Renders THEN 0
    ELSE (Len(h) + (IF d \in {"holds", "stores"} THEN 1 ELSE 0)) * TileBytes

\* One working set for each render that runs, and for each tile a query evaluates.
OverNow(e, d, f) ==
    IF e \in Renders THEN IF d \in {"raises", "runs"} THEN WorkingBytes[e] ELSE 0
    ELSE UnderNow(d, f) * WorkingBytes[e]
Overshoot == [e \in Evaluations |-> OverNow(e, doing[e], fill[e])]

\* What runs passes the target by no more.
Paced == Together(RunBytes) <= TargetBytes + Together(Overshoot)

\* The most that was reserved is the peak, or is still to be raised to it.
Raising(d) == d \in {"raises", "holds"}
Peaks ==
    /\ used <= highest /\ peak <= highest
    /\ \A e \in Evaluations : Raising(doing[e]) => Reaches(e) <= highest
    /\ peak = highest \/ \E e \in Evaluations : Raising(doing[e]) /\ Reaches(e) = highest

EachSound ==
    /\ \A e \in Evaluations : AskSound(e, doing[e], ask[e], runs[e])
    /\ \A r \in Renders : RenderSound(r, doing[r], ask[r], runs[r], inFrame[r])
    /\ \A q \in Queries : QuerySoundOf(q)

SharedSound ==
    /\ store \in Seq(Range(KeyOf)) /\ IsInjective(store) /\ Len(store) <= StoreEntries
    /\ cancelled \subseteq Renders

BudgetInv ==
    /\ Shaped /\ EachSound /\ SharedSound
    /\ used \in Nat /\ peak \in Nat /\ highest \in Nat
    /\ UsedIsReserved /\ Paced /\ Peaks

LEMMA RunBytesNow ==
    /\ RunBytes = [e \in Evaluations |-> RunNow(e, doing[e], runs[e], fill[e])]
    /\ HeldBytes = [e \in Evaluations |-> HeldNow(e, doing[e], heldTiles[e])]
  BY DEF RunBytes, HeldBytes, RunNow, HeldNow, BatchOf, Under, UnderNow, HeldBy

LEMMA RunBytesNext ==
    /\ RunBytes' = [e \in Evaluations |-> RunNow(e, doing'[e], runs'[e], fill'[e])]
    /\ HeldBytes' = [e \in Evaluations |-> HeldNow(e, doing'[e], heldTiles'[e])]
    /\ Overshoot' = [e \in Evaluations |-> OverNow(e, doing'[e], fill'[e])]
  BY DEF RunBytes, HeldBytes, RunNow, HeldNow, BatchOf, Under, UnderNow, HeldBy, Overshoot, OverNow

LEMMA Sizes ==
    ASSUME TileBudgetAssumption, NEW e \in Evaluations
    PROVE  WorkingBytes[e] \in Nat \ {0} /\ TileBytes \in Nat \ {0} /\ TargetBytes \in Nat
           /\ (e \in Renders \/ e \in Queries) /\ ~(e \in Renders /\ e \in Queries)
  BY DEF TileBudgetAssumption, Evaluations

LEMMA ProductNatural ==
    ASSUME NEW a \in Nat, NEW b \in Nat
    PROVE  a * b \in Nat
  BY Z3

LEMMA NowNatural ==
    ASSUME TileBudgetAssumption, NEW e \in Evaluations, NEW d, NEW a, NEW n, NEW f, NEW r,
           NEW h, NEW v, AskSound(e, d, a, n), e \in Queries => QuerySound(d, f, r, h, v)
    PROVE  /\ RunNow(e, d, n, f) \in Nat /\ HeldNow(e, d, h) \in Nat /\ OverNow(e, d, f) \in Nat
           /\ e \in Queries => UnderNow(d, f) \in Nat /\ UnderNow(d, f) <= Segments
<1>1. CASE e \in Renders
  <2>1. n \in Nat
    BY DEF AskSound
  <2>2. WorkingBytes[e] \in Nat /\ n * WorkingBytes[e] \in Nat /\ e \notin Queries
    BY <1>1, <2>1, Sizes, ProductNatural
  <2> QED BY <1>1, <2>2 DEF RunNow, HeldNow, OverNow
<1>2. CASE e \notin Renders
  <2>1. e \in Queries /\ QueryShape(d, f, r) /\ QueryHeld(d, f, h, v)
    BY <1>2, Sizes DEF QuerySound
  <2>2. StackRight(f) /\ f \in Seq(Filling) /\ Len(h) \in Nat /\ (d \in Busy => f # <<>>)
    BY <2>1 DEF QueryShape, StackRight, QueryHeld
  <2>3. Len(f) \in 0 .. Segments /\ Segments \in Nat
    BY <2>2, StackHeight DEF TileBudgetAssumption
  <2>4. UnderNow(d, f) \in Nat /\ UnderNow(d, f) <= Segments
    <3>1. CASE d \in {"reserves", "releases", "charges", "holds", "stores"}
      <4>1. Len(f) >= 1 /\ UnderNow(d, f) = Len(f) - 1
        BY <2>2, <3>1 DEF UnderNow, Busy, Late
      <4> QED BY <2>3, <4>1
    <3>2. CASE d \notin {"reserves", "releases", "charges", "holds", "stores"}
      BY <2>3, <3>2 DEF UnderNow
    <3> QED BY <3>1, <3>2
  <2>5. Len(h) + (IF d \in {"holds", "stores"} THEN 1 ELSE 0) \in Nat
    BY <2>2
  <2>6. WorkingBytes[e] \in Nat /\ TileBytes \in Nat
    BY Sizes
  <2>7. RunNow(e, d, n, f) \in Nat /\ OverNow(e, d, f) \in Nat
    BY <1>2, <2>4, <2>6, ProductNatural DEF RunNow, OverNow
  <2>8. HeldNow(e, d, h) \in Nat
    BY <1>2, <2>5, <2>6, ProductNatural DEF HeldNow
  <2> QED BY <2>4, <2>7, <2>8
<1> QED BY <1>1, <1>2

\* ------------------------------------------------- a step of one ----

\* A step changes what is of one evaluation and nothing of the others.
Apart(e) ==
    /\ Shaped'
    /\ \A x \in Evaluations \ {e} : doing'[x] = doing[x] /\ ask'[x] = ask[x] /\ runs'[x] = runs[x]
    /\ \A r \in Renders \ {e} : inFrame'[r] = inFrame[r]
    /\ \A q \in Queries \ {e} : /\ fill'[q] = fill[q] /\ toRead'[q] = toRead[q]
                                /\ heldTiles'[q] = heldTiles[q] /\ evaluated'[q] = evaluated[q]

EachSoundNext(e) ==
    /\ AskSound(e, doing'[e], ask'[e], runs'[e])
    /\ e \in Renders => RenderSound(e, doing'[e], ask'[e], runs'[e], inFrame'[e])
    /\ e \in Queries => QuerySound(doing'[e], fill'[e], toRead'[e], heldTiles'[e], evaluated'[e])

LEMMA EachStays ==
    ASSUME TileBudgetAssumption, EachSound, NEW e \in Evaluations, Apart(e), EachSoundNext(e)
    PROVE  EachSound'
<1>1. ASSUME NEW x \in Evaluations PROVE AskSound(x, doing'[x], ask'[x], runs'[x])
  BY DEF EachSound, EachSoundNext, Apart
<1>2. ASSUME NEW r \in Renders PROVE RenderSound(r, doing'[r], ask'[r], runs'[r], inFrame'[r])
  <2>1. r \in Evaluations
    BY DEF Evaluations
  <2>2. CASE r = e
    BY <2>2 DEF EachSoundNext
  <2>3. CASE r # e
    <3>1. doing'[r] = doing[r] /\ ask'[r] = ask[r] /\ runs'[r] = runs[r] /\ inFrame'[r] = inFrame[r]
      BY <2>1, <2>3 DEF Apart
    <3> QED BY <3>1 DEF EachSound
  <2> QED BY <2>2, <2>3
<1>3. ASSUME NEW q \in Queries
      PROVE  QuerySound(doing'[q], fill'[q], toRead'[q], heldTiles'[q], evaluated'[q])
  <2>1. q \in Evaluations
    BY DEF Evaluations
  <2>2. CASE q = e
    BY <2>2 DEF EachSoundNext
  <2>3. CASE q # e
    <3>1. /\ doing'[q] = doing[q] /\ fill'[q] = fill[q] /\ toRead'[q] = toRead[q]
          /\ heldTiles'[q] = heldTiles[q] /\ evaluated'[q] = evaluated[q]
      BY <2>1, <2>3 DEF Apart
    <3> QED BY <3>1 DEF EachSound, QuerySoundOf
  <2> QED BY <2>2, <2>3
<1> QED BY <1>1, <1>2, <1>3 DEF EachSound, QuerySoundOf

\* What a step does to the sums: as much to the use as to what is reserved.
Balanced(e) ==
    used' + (RunNow(e, doing[e], runs[e], fill[e]) + HeldNow(e, doing[e], heldTiles[e]))
      = used + (RunNow(e, doing'[e], runs'[e], fill'[e]) + HeldNow(e, doing'[e], heldTiles'[e]))

\* And no more to what runs than to what it may pass the target by, unless all fits.
PacedStep(e) ==
    \/ RunNow(e, doing'[e], runs'[e], fill'[e]) + OverNow(e, doing[e], fill[e])
         <= RunNow(e, doing[e], runs[e], fill[e]) + OverNow(e, doing'[e], fill'[e])
    \/ used' <= TargetBytes

LEMMA BytesTyped ==
    ASSUME TileBudgetAssumption, EachSound
    PROVE  /\ RunBytes \in [Evaluations -> Nat] /\ HeldBytes \in [Evaluations -> Nat]
           /\ Overshoot \in [Evaluations -> Nat]
<1> SUFFICES ASSUME NEW e \in Evaluations
             PROVE  /\ RunNow(e, doing[e], runs[e], fill[e]) \in Nat
                    /\ HeldNow(e, doing[e], heldTiles[e]) \in Nat
                    /\ OverNow(e, doing[e], fill[e]) \in Nat
  BY RunBytesNow DEF Overshoot
<1> QED BY NowNatural DEF EachSound, QuerySoundOf

LEMMA BytesTypedNext ==
    ASSUME TileBudgetAssumption, EachSound'
    PROVE  /\ RunBytes' \in [Evaluations -> Nat] /\ HeldBytes' \in [Evaluations -> Nat]
           /\ Overshoot' \in [Evaluations -> Nat]
<1> SUFFICES ASSUME NEW e \in Evaluations
             PROVE  /\ RunNow(e, doing'[e], runs'[e], fill'[e]) \in Nat
                    /\ HeldNow(e, doing'[e], heldTiles'[e]) \in Nat
                    /\ OverNow(e, doing'[e], fill'[e]) \in Nat
  BY RunBytesNext
<1> QED BY NowNatural DEF EachSound, QuerySoundOf

LEMMA SumsStay ==
    ASSUME TileBudgetAssumption, EachSound, EachSound', NEW e \in Evaluations, Apart(e),
           used \in Nat, used' \in Int, UsedIsReserved, Paced, Balanced(e), PacedStep(e)
    PROVE  UsedIsReserved' /\ Paced' /\ used' \in Nat
<1> DEFINE F == RunBytes  G == RunBytes'  H == HeldBytes  K == HeldBytes'
           O == Overshoot P == Overshoot'
<1>1. /\ F \in [Evaluations -> Nat] /\ H \in [Evaluations -> Nat] /\ O \in [Evaluations -> Nat]
      /\ G \in [Evaluations -> Nat] /\ K \in [Evaluations -> Nat] /\ P \in [Evaluations -> Nat]
  BY BytesTyped, BytesTypedNext
<1>2. ASSUME NEW x \in Evaluations \ {e} PROVE G[x] = F[x] /\ K[x] = H[x] /\ P[x] = O[x]
  <2>1. doing'[x] = doing[x] /\ runs'[x] = runs[x]
    BY DEF Apart
  <2>2. CASE x \in Renders
    BY <2>1, <2>2, RunBytesNow, RunBytesNext DEF RunNow, HeldNow, OverNow, Overshoot
  <2>3. CASE x \notin Renders
    <3>1. fill'[x] = fill[x] /\ heldTiles'[x] = heldTiles[x]
      BY <2>3, Sizes DEF Apart
    <3> QED BY <2>1, <3>1, RunBytesNow, RunBytesNext DEF Overshoot
  <2> QED BY <2>2, <2>3
<1>3. used' + (F[e] + H[e]) = used + (G[e] + K[e])
  BY RunBytesNow, RunBytesNext DEF Balanced
<1>4. G[e] + O[e] <= F[e] + P[e] \/ used' <= TargetBytes
  BY RunBytesNow, RunBytesNext DEF PacedStep, Overshoot
<1>5. used = Together(F) + Together(H) /\ Together(F) <= TargetBytes + Together(O)
  BY DEF UsedIsReserved, Paced
<1> HIDE DEF F, G, H, K, O, P
<1>6. /\ Together(G) + F[e] = Together(F) + G[e]
      /\ Together(K) + H[e] = Together(H) + K[e]
      /\ Together(P) + O[e] = Together(O) + P[e]
  BY <1>1, <1>2, TogetherMoves
<1>7. /\ Together(F) \in Nat /\ Together(G) \in Nat /\ Together(H) \in Nat
      /\ Together(K) \in Nat /\ Together(O) \in Nat /\ Together(P) \in Nat
  BY <1>1, TogetherType
<1>8. /\ F[e] \in Nat /\ G[e] \in Nat /\ H[e] \in Nat /\ K[e] \in Nat /\ O[e] \in Nat /\ P[e] \in Nat
      /\ TargetBytes \in Nat
  BY <1>1, Sizes
<1>9. used' = Together(G) + Together(K)
  <2> DEFINE u == used  v == used'  f == Together(F)  g == Together(G)  h == Together(H)
             k == Together(K)  a == F[e]  b == G[e]  c == H[e]  d == K[e]
  <2>1. /\ a \in Int /\ b \in Int /\ c \in Int /\ d \in Int /\ u \in Int /\ v \in Int
        /\ f \in Int /\ g \in Int /\ h \in Int /\ k \in Int
    BY <1>7, <1>8
  <2>2. v + (a + c) = u + (b + d) /\ u = f + h /\ g + a = f + b /\ k + c = h + d
    BY <1>3, <1>5, <1>6
  <2> HIDE DEF u, v, f, g, h, k, a, b, c, d
  <2>3. v = g + k
    BY ONLY <2>1, <2>2
  <2> QED BY <2>3 DEF v, g, k
<1>10. Together(G) <= TargetBytes + Together(P)
  <2>1. CASE used' <= TargetBytes
    BY ONLY <1>7, <1>8, <1>9, <2>1
  <2>2. CASE G[e] + O[e] <= F[e] + P[e]
    BY ONLY <1>5, <1>6, <1>7, <1>8, <2>2
  <2> QED BY <1>4, <2>1, <2>2
<1>11. Together(RunBytes)' = Together(G) /\ Together(HeldBytes)' = Together(K)
       /\ Together(Overshoot)' = Together(P)
  BY DEF G, K, P, Together
<1> QED BY <1>7, <1>9, <1>10, <1>11 DEF UsedIsReserved, Paced

\* A step between no swap and raise leaves the peak as it was, if the use does not grow.
LEMMA PeaksStay ==
    ASSUME Peaks, NEW e \in Evaluations, Apart(e), ~Raising(doing[e]), ~Raising(doing'[e]),
           used \in Nat, used' \in Nat, highest \in Nat, used' <= used, peak' = peak,
           highest' = highest
    PROVE  Peaks'
<1>1. used' <= highest
  BY DEF Peaks
<1>2. ASSUME NEW x \in Evaluations, Raising(doing'[x])
      PROVE  Raising(doing[x]) /\ Reaches(x)' = Reaches(x)
  <2>1. x # e
    BY <1>2
  <2>2. doing'[x] = doing[x] /\ ask'[x] = ask[x] /\ runs'[x] = runs[x]
    BY <2>1 DEF Apart
  <2> QED BY <1>2, <2>2 DEF Reaches
<1>3. ASSUME NEW x \in Evaluations, Raising(doing[x])
      PROVE  Raising(doing'[x]) /\ Reaches(x)' = Reaches(x)
  <2>1. x # e
    BY <1>3
  <2>2. doing'[x] = doing[x] /\ ask'[x] = ask[x] /\ runs'[x] = runs[x]
    BY <2>1 DEF Apart
  <2> QED BY <1>3, <2>2 DEF Reaches
<1>4. \A x \in Evaluations : Raising(doing'[x]) => Reaches(x)' <= highest'
  BY <1>2 DEF Peaks
<1>5. peak' = highest' \/ \E x \in Evaluations : Raising(doing'[x]) /\ Reaches(x)' = highest'
  BY <1>3 DEF Peaks
<1>6. used' <= highest' /\ peak' <= highest'
  BY <1>1 DEF Peaks
<1> QED BY <1>4, <1>5, <1>6 DEF Peaks

\* What a step must show of its own.
LEMMA StepStays ==
    ASSUME TileBudgetAssumption, BudgetInv, NEW e \in Evaluations, Apart(e), EachSoundNext(e),
           SharedSound', used' \in Int, peak' \in Nat, highest' \in Nat,
           Balanced(e), PacedStep(e), used' \in Nat => Peaks'
    PROVE  BudgetInv'
<1>1. EachSound'
  BY EachStays DEF BudgetInv
<1>2. UsedIsReserved' /\ Paced' /\ used' \in Nat
  BY <1>1, SumsStay DEF BudgetInv
<1> QED BY <1>1, <1>2 DEF BudgetInv, Apart

\* One that changes no count and is not between a swap and a raise.
LEMMA QuietStep ==
    ASSUME TileBudgetAssumption, BudgetInv, NEW e \in Evaluations, Apart(e), EachSoundNext(e),
           SharedSound', UNCHANGED counters, ~Raising(doing[e]), ~Raising(doing'[e]),
           RunNow(e, doing'[e], runs'[e], fill'[e]) = RunNow(e, doing[e], runs[e], fill[e]),
           HeldNow(e, doing'[e], heldTiles'[e]) = HeldNow(e, doing[e], heldTiles[e]),
           OverNow(e, doing'[e], fill'[e]) = OverNow(e, doing[e], fill[e])
    PROVE  BudgetInv'
<1>1. used' = used /\ peak' = peak /\ highest' = highest
  BY DEF counters
<1>2. used \in Nat /\ peak \in Nat /\ highest \in Nat /\ Peaks
  BY DEF BudgetInv
<1>3. Balanced(e)
  BY <1>1 DEF Balanced
<1>4. PacedStep(e)
  <2>1. /\ RunNow(e, doing[e], runs[e], fill[e]) \in Nat
        /\ OverNow(e, doing[e], fill[e]) \in Nat
    BY NowNatural DEF BudgetInv, EachSound, QuerySoundOf
  <2> QED BY <2>1 DEF PacedStep
<1>5. Peaks'
  BY <1>1, <1>2, PeaksStay
<1> QED BY <1>1, <1>2, <1>3, <1>4, <1>5, StepStays


\* ------------------------------------------------- the steps ----

\* A function that is as it was but for one argument.
Turns(f, g, e, S) == g = [x \in S |-> IF x = e THEN g[e] ELSE f[x]]

LEMMA ApartOne ==
    ASSUME NEW e,
           Turns(doing, doing', e, Evaluations), Turns(ask, ask', e, Evaluations),
           Turns(runs, runs', e, Evaluations), Turns(inFrame, inFrame', e, Renders),
           Turns(fill, fill', e, Queries), Turns(toRead, toRead', e, Queries),
           Turns(heldTiles, heldTiles', e, Queries), Turns(evaluated, evaluated', e, Queries)
    PROVE  Apart(e)
<1>1. ASSUME NEW f, NEW g, NEW S, Turns(f, g, e, S)
      PROVE  g = [x \in S |-> g[x]] /\ \A x \in S \ {e} : g[x] = f[x]
  BY <1>1 DEF Turns
<1>2. Shaped'
  BY <1>1 DEF Shaped
<1>3. \A x \in Evaluations \ {e} : doing'[x] = doing[x] /\ ask'[x] = ask[x] /\ runs'[x] = runs[x]
  BY <1>1
<1>4. \A r \in Renders \ {e} : inFrame'[r] = inFrame[r]
  BY <1>1
<1>5. \A q \in Queries \ {e} : /\ fill'[q] = fill[q] /\ toRead'[q] = toRead[q]
                               /\ heldTiles'[q] = heldTiles[q] /\ evaluated'[q] = evaluated[q]
  BY <1>1
<1> QED BY <1>2, <1>3, <1>4, <1>5 DEF Apart

LEMMA SameTurns ==
    ASSUME Shaped, NEW e
    PROVE  /\ doing' = doing => Turns(doing, doing', e, Evaluations)
           /\ ask' = ask => Turns(ask, ask', e, Evaluations)
           /\ runs' = runs => Turns(runs, runs', e, Evaluations)
           /\ inFrame' = inFrame => Turns(inFrame, inFrame', e, Renders)
           /\ fill' = fill => Turns(fill, fill', e, Queries)
           /\ toRead' = toRead => Turns(toRead, toRead', e, Queries)
           /\ heldTiles' = heldTiles => Turns(heldTiles, heldTiles', e, Queries)
           /\ evaluated' = evaluated => Turns(evaluated, evaluated', e, Queries)
<1>1. ASSUME NEW f, NEW S, f = [x \in S |-> f[x]] PROVE f = [x \in S |-> IF x = e THEN f[e] ELSE f[x]]
  BY <1>1
<1> QED BY <1>1 DEF Shaped, Turns

LEMMA GoesTurns ==
    ASSUME Shaped, NEW e \in Evaluations, NEW d, Goes(e, d)
    PROVE  Turns(doing, doing', e, Evaluations) /\ doing'[e] = d
  BY DEF Shaped, Goes, Turns

LEMMA SwapMoves ==
    ASSUME Shaped, NEW e \in Evaluations, Swap(e)
    PROVE  /\ Apart(e) /\ Reserving(e) /\ ask[e].seen = used
           /\ runs'[e] = Fits(ask[e].bytes, ask[e].wanted, used)
           /\ used' = used + runs'[e] * ask[e].bytes
           /\ doing'[e] = (IF doing[e] = "reserves" THEN "raises" ELSE "holds")
           /\ highest' = Max({highest, used'})
           /\ UNCHANGED <<peak, store, ask, inFrame, cancelled, fill, toRead, heldTiles, evaluated>>
<1>1. /\ Goes(e, IF doing[e] = "reserves" THEN "raises" ELSE "holds")
      /\ ask[e].seen = used /\ Reserving(e)
      /\ used' = ask[e].seen + Fits(ask[e].bytes, ask[e].wanted, ask[e].seen) * ask[e].bytes
      /\ runs' = [runs EXCEPT ![e] = Fits(ask[e].bytes, ask[e].wanted, ask[e].seen)]
      /\ highest' = Max({highest, used'})
      /\ UNCHANGED <<peak, store, ask, inFrame, cancelled, fill, toRead, heldTiles, evaluated>>
  BY DEF Swap, Unmoved, queryVars
<1>2. /\ Turns(runs, runs', e, Evaluations)
      /\ runs'[e] = Fits(ask[e].bytes, ask[e].wanted, ask[e].seen)
  BY <1>1 DEF Shaped, Turns
<1>3. Apart(e)
  BY <1>1, <1>2, SameTurns, GoesTurns, ApartOne
<1> QED BY <1>1, <1>2, <1>3, GoesTurns

LEMMA SameShared ==
    ASSUME SharedSound, UNCHANGED <<store, cancelled>>
    PROVE  SharedSound'
  BY DEF SharedSound

LEMMA Distributes ==
    ASSUME NEW a \in Int, NEW b \in Int
    PROVE  (a - 1) * b + b = a * b /\ (a + 1) * b = a * b + b /\ 1 * b = b
  BY Z3

LEMMA RenderAmounts ==
    ASSUME TileBudgetAssumption, NEW e \in Renders, NEW d, NEW n, NEW f, NEW h
    PROVE  /\ HeldNow(e, d, h) = 0
           /\ d \in {"raises", "runs"} => RunNow(e, d, n, f) = n * WorkingBytes[e]
                                          /\ OverNow(e, d, f) = WorkingBytes[e]
           /\ d \notin {"raises", "runs"} => RunNow(e, d, n, f) = 0 /\ OverNow(e, d, f) = 0
  BY DEF RunNow, HeldNow, OverNow

LEMMA QueryAmounts ==
    ASSUME TileBudgetAssumption, NEW e \in Queries, NEW d, NEW n, NEW f
    PROVE  /\ OverNow(e, d, f) = RunNow(e, d, n, f)
           /\ d \in {"reserves", "releases", "charges", "holds", "stores"}
                => RunNow(e, d, n, f) = (Len(f) - 1) * WorkingBytes[e]
           /\ d \notin {"reserves", "releases", "charges", "holds", "stores"}
                => RunNow(e, d, n, f) = (Len(f) - 0) * WorkingBytes[e]
<1>1. e \notin Renders
  BY DEF TileBudgetAssumption
<1> QED BY <1>1 DEF RunNow, OverNow, UnderNow

LEMMA QueryHoldings ==
    ASSUME TileBudgetAssumption, NEW e \in Queries, NEW d, NEW h
    PROVE  /\ d \in {"holds", "stores"} => HeldNow(e, d, h) = (Len(h) + 1) * TileBytes
           /\ d \notin {"holds", "stores"} => HeldNow(e, d, h) = (Len(h) + 0) * TileBytes
<1>1. e \notin Renders
  BY DEF TileBudgetAssumption
<1> QED BY <1>1 DEF HeldNow

\* The lengths that the amounts of a query are made of.
LEMMA QueryLengths ==
    ASSUME TileBudgetAssumption, NEW d, NEW f, NEW r, NEW h, NEW v, QuerySound(d, f, r, h, v)
    PROVE  /\ Len(f) \in Nat /\ Len(f) <= Segments /\ Len(h) \in Nat
           /\ d \in Busy => Len(f) >= 1
<1>1. StackRight(f) /\ h \in Seq(SegmentTiles) /\ (d \in Busy => f # <<>>)
  BY DEF QuerySound, QueryShape, QueryHeld
<1>2. Len(f) \in 0 .. Segments /\ f \in Seq(Filling)
  BY <1>1, StackHeight DEF StackRight
<1>3. f # <<>> => Len(f) >= 1
  BY <1>2
<1> QED BY <1>1, <1>2, <1>3 DEF TileBudgetAssumption

LEMMA QueryKept ==
    ASSUME TileBudgetAssumption, BudgetInv, NEW e \in Evaluations, NEW d,
           UNCHANGED <<fill, toRead, heldTiles, evaluated>>, doing'[e] = d,
           \/ doing[e] = "reserves" /\ d = "raises"
           \/ doing[e] = "raises" /\ d = "runs"
           \/ doing[e] = "runs" /\ d = "reads"
           \/ doing[e] = "charges" /\ d = "holds"
           \/ doing[e] = "holds" /\ d = "stores"
    PROVE  e \in Queries =>
             QuerySound(doing'[e], fill'[e], toRead'[e], heldTiles'[e], evaluated'[e])
<1> SUFFICES ASSUME e \in Queries
             PROVE  QuerySound(d, fill[e], toRead[e], heldTiles[e], evaluated[e])
  OBVIOUS
<1>1. QuerySound(doing[e], fill[e], toRead[e], heldTiles[e], evaluated[e])
  BY DEF BudgetInv, EachSound, QuerySoundOf
<1> QED BY <1>1, QueryGoesOn

LEMMA SwapEach ==
    ASSUME TileBudgetAssumption, BudgetInv, NEW e \in Evaluations, Swap(e)
    PROVE  /\ EachSoundNext(e) /\ runs'[e] \in Nat \ {0} /\ ask[e].bytes \in Nat \ {0}
           /\ e \in Queries => runs'[e] = 1
           /\ runs'[e] = 1 \/ used' <= TargetBytes
<1>1. /\ Apart(e) /\ doing[e] \in {"reserves", "charges"}
      /\ runs'[e] = Fits(ask[e].bytes, ask[e].wanted, used)
      /\ used' = used + runs'[e] * ask[e].bytes
      /\ doing'[e] = (IF doing[e] = "reserves" THEN "raises" ELSE "holds")
      /\ UNCHANGED <<store, ask, inFrame, cancelled, fill, toRead, heldTiles, evaluated>>
  BY SwapMoves DEF BudgetInv, Reserving
<1>2. AskSound(e, doing[e], ask[e], runs[e]) /\ used \in Nat
  BY DEF BudgetInv, EachSound
<1>3. ask[e].bytes \in Nat \ {0} /\ ask[e].wanted \in Nat \ {0}
  BY <1>1, <1>2, Sizes DEF AskSound
<1>4. /\ runs'[e] \in 1 .. ask[e].wanted
      /\ runs'[e] = 1 \/ used' <= TargetBytes
  BY <1>1, <1>2, <1>3, FitsWithin
<1>5. e \in Queries => ask[e].wanted = 1 /\ runs'[e] = 1
  <2>1. e \in Queries => ask[e].wanted = 1
    BY <1>1, <1>2 DEF AskSound
  <2> QED BY <1>3, <1>4, <2>1
<1>6. AskSound(e, doing'[e], ask'[e], runs'[e])
  BY <1>1, <1>2, <1>3, <1>4, <1>5 DEF AskSound
<1>7. ASSUME e \in Renders PROVE RenderSound(e, doing'[e], ask'[e], runs'[e], inFrame'[e])
  <2>1. RenderSound(e, doing[e], ask[e], runs[e], inFrame[e])
    BY <1>7 DEF BudgetInv, EachSound
  <2>2. doing[e] = "reserves"
    BY <1>1, <2>1 DEF RenderSound, Ended
  <2>3. doing'[e] = "raises" /\ inFrame'[e] = inFrame[e]
    BY <1>1, <2>2
  <2>4. Len(inFrame[e]) \in Nat /\ TileCount[e] \in Nat /\ ask[e].wanted <= TileCount[e] - Len(inFrame[e])
    BY <1>7, <2>1, <2>2 DEF RenderSound, TileBudgetAssumption
  <2>5. runs'[e] \in 1 .. TileCount[e] - Len(inFrame[e])
    BY <1>3, <1>4, <2>4
  <2> QED BY <2>1, <2>3, <2>5 DEF RenderSound, Ended
<1>8. e \in Queries => QuerySound(doing'[e], fill'[e], toRead'[e], heldTiles'[e], evaluated'[e])
  BY <1>1, QueryKept
<1> QED BY <1>3, <1>4, <1>5, <1>6, <1>7, <1>8 DEF EachSoundNext

LEMMA SwapPeaks ==
    ASSUME BudgetInv, NEW e \in Evaluations, Swap(e), used' \in Nat
    PROVE  Peaks' /\ highest' \in Nat /\ peak' \in Nat
<1>1. /\ Apart(e) /\ doing'[e] \in {"raises", "holds"} /\ ask'[e] = ask[e] /\ ask[e].seen = used
      /\ used' = used + runs'[e] * ask[e].bytes
      /\ highest' = Max({highest, used'}) /\ peak' = peak
  BY SwapMoves DEF BudgetInv
<1>2. /\ Peaks /\ used \in Nat /\ peak \in Nat /\ highest \in Nat
  BY DEF BudgetInv
<1>3. /\ highest' = highest \/ highest' = used'
      /\ highest' >= highest /\ highest' >= used' /\ highest' \in Nat
  <2>1. highest \in Int /\ used' \in Int
    BY <1>2
  <2> QED BY <1>1, <1>2, <2>1, MaxOfTwo
<1>4. Reaches(e)' = used'
  BY <1>1 DEF Reaches
<1>5. Raising(doing'[e]) /\ ~Raising(doing[e])
  BY <1>1 DEF Raising, Swap, Reserving
<1>6. ASSUME NEW x \in Evaluations, x # e
      PROVE  Reaches(x)' = Reaches(x) /\ doing'[x] = doing[x]
  BY <1>6, <1>1 DEF Apart, Reaches
<1>7. \A x \in Evaluations : Raising(doing'[x]) => Reaches(x)' <= highest'
  <2> SUFFICES ASSUME NEW x \in Evaluations, Raising(doing'[x]) PROVE Reaches(x)' <= highest'
    OBVIOUS
  <2>1. CASE x = e
    BY <1>3, <1>4, <2>1
  <2>2. CASE x # e
    <3>1. Reaches(x)' = Reaches(x) /\ Reaches(x) <= highest
      BY <1>2, <1>6, <2>2 DEF Peaks
    <3>2. Reaches(x) \in Int
      BY <2>2, <1>1 DEF BudgetInv, EachSound, AskSound, Reaches
    <3> QED BY <1>2, <1>3, <3>1, <3>2
  <2> QED BY <2>1, <2>2
<1>8. peak' = highest' \/ \E x \in Evaluations : Raising(doing'[x]) /\ Reaches(x)' = highest'
  <2>1. CASE highest' = used'
    BY <1>4, <1>5, <2>1
  <2>2. CASE highest' = highest
    <3>1. peak = highest \/ \E x \in Evaluations : Raising(doing[x]) /\ Reaches(x) = highest
      BY <1>2 DEF Peaks
    <3> QED BY <1>1, <1>5, <1>6, <2>2, <3>1
  <2> QED BY <1>3, <2>1, <2>2
<1>9. used' <= highest' /\ peak' <= highest'
  BY <1>1, <1>2, <1>3 DEF Peaks
<1> QED BY <1>1, <1>2, <1>3, <1>7, <1>8, <1>9 DEF Peaks

LEMMA SwapStays ==
    ASSUME TileBudgetAssumption, BudgetInv, NEW e \in Evaluations, Swap(e)
    PROVE  BudgetInv'
<1>1. /\ Apart(e) /\ doing[e] \in {"reserves", "charges"}
      /\ used' = used + runs'[e] * ask[e].bytes
      /\ doing'[e] = (IF doing[e] = "reserves" THEN "raises" ELSE "holds")
      /\ UNCHANGED <<peak, store, ask, inFrame, cancelled, fill, toRead, heldTiles, evaluated>>
  BY SwapMoves DEF BudgetInv, Reserving
<1>2. /\ EachSoundNext(e) /\ runs'[e] \in Nat \ {0} /\ ask[e].bytes \in Nat \ {0}
      /\ e \in Queries => runs'[e] = 1
      /\ runs'[e] = 1 \/ used' <= TargetBytes
  BY SwapEach
<1>3. /\ used \in Nat /\ AskSound(e, doing[e], ask[e], runs[e])
      /\ WorkingBytes[e] \in Nat \ {0} /\ TileBytes \in Nat \ {0} /\ TargetBytes \in Nat
      /\ e \in Renders \/ e \in Queries
  BY Sizes DEF BudgetInv, EachSound
<1>4. used' \in Nat
  BY <1>1, <1>2, <1>3, ProductNatural
<1>5. SharedSound'
  BY <1>1, SameShared DEF BudgetInv
<1>6. Balanced(e) /\ PacedStep(e)
  <2>1. CASE e \in Renders
    <3>1. RenderSound(e, doing[e], ask[e], runs[e], inFrame[e])
      BY <2>1 DEF BudgetInv, EachSound
    <3>2. doing[e] = "reserves" /\ doing'[e] = "raises" /\ ask[e].bytes = WorkingBytes[e]
      BY <1>1, <1>3, <3>1 DEF RenderSound, Ended, AskSound
    <3>3. /\ RunNow(e, doing[e], runs[e], fill[e]) = 0
          /\ OverNow(e, doing[e], fill[e]) = 0
          /\ HeldNow(e, doing[e], heldTiles[e]) = 0
          /\ RunNow(e, doing'[e], runs'[e], fill'[e]) = runs'[e] * WorkingBytes[e]
          /\ OverNow(e, doing'[e], fill'[e]) = WorkingBytes[e]
          /\ HeldNow(e, doing'[e], heldTiles'[e]) = 0
      BY <2>1, <3>2, RenderAmounts
    <3>4. runs'[e] * WorkingBytes[e] \in Nat /\ (runs'[e] = 1 => runs'[e] * WorkingBytes[e] = WorkingBytes[e])
      BY <1>2, <1>3, ProductNatural
    <3> QED BY <1>1, <1>2, <1>3, <3>2, <3>3, <3>4 DEF Balanced, PacedStep
  <2>2. CASE e \in Queries
    <3>1. Len(fill[e]) \in Nat /\ Len(heldTiles[e]) \in Nat
      BY <2>2, QueryLengths DEF BudgetInv, EachSound, QuerySoundOf
    <3>2. runs'[e] = 1 /\ used' = used + ask[e].bytes
      BY <1>1, <1>2, <1>3, <2>2, Distributes
    <3>3. CASE doing[e] = "reserves"
      <4>1. doing'[e] = "raises" /\ ask[e].bytes = WorkingBytes[e]
        BY <1>1, <1>3, <3>3 DEF AskSound
      <4>2. /\ OverNow(e, doing[e], fill[e]) = RunNow(e, doing[e], runs[e], fill[e])
            /\ RunNow(e, doing[e], runs[e], fill[e]) = (Len(fill[e]) - 1) * WorkingBytes[e]
            /\ HeldNow(e, doing[e], heldTiles[e]) = (Len(heldTiles[e]) + 0) * TileBytes
        BY <2>2, <3>3, QueryAmounts, QueryHoldings
      <4>3. /\ OverNow(e, doing'[e], fill[e]) = RunNow(e, doing'[e], runs'[e], fill[e])
            /\ RunNow(e, doing'[e], runs'[e], fill[e]) = (Len(fill[e]) - 0) * WorkingBytes[e]
            /\ HeldNow(e, doing'[e], heldTiles[e]) = (Len(heldTiles[e]) + 0) * TileBytes
        BY <2>2, <4>1, QueryAmounts, QueryHoldings
      <4>4. fill'[e] = fill[e] /\ heldTiles'[e] = heldTiles[e]
        BY <1>1
      <4> DEFINE f == Len(fill[e])  h == Len(heldTiles[e])  w == WorkingBytes[e]  t == TileBytes
      <4>5. /\ (f - 1) * w + w = (f - 0) * w /\ (h + 1) * t = (h + 0) * t + t
            /\ (f - 1) * w \in Int /\ (f - 0) * w \in Int
            /\ (h + 1) * t \in Int /\ (h + 0) * t \in Int
        <5>1. f \in Int /\ h \in Int /\ w \in Int /\ t \in Int
          BY <1>3, <3>1
        <5> HIDE DEF f, h, w, t
        <5> QED BY ONLY <5>1, Z3
      <4>6. /\ Balanced(e) <=> used' + ((f - 1) * w + (h + 0) * t)
                               = used + (RunNow(e, doing'[e], runs'[e], fill[e])
                                          + HeldNow(e, doing'[e], heldTiles[e]))
            /\ PacedStep(e)
        <5>1. RunNow(e, doing'[e], runs'[e], fill[e]) \in Int
          BY <4>3, <4>5
        <5> QED BY <4>2, <4>3, <4>4, <4>5, <5>1 DEF Balanced, PacedStep
      <4>7. /\ used' = used + w
            /\ RunNow(e, doing'[e], runs'[e], fill[e]) = (f - 0) * w
            /\ HeldNow(e, doing'[e], heldTiles[e]) = (h + 0) * t
        BY <3>2, <4>1, <4>3
      <4>8. used' + ((f - 1) * w + (h + 0) * t) = used + ((f - 0) * w + (h + 0) * t)
        <5> DEFINE runBefore == (f - 1) * w  runAfter == (f - 0) * w
                   heldBefore == (h + 0) * t  heldAfter == (h + 0) * t  before == used
        <5>1. runBefore \in Int /\ heldBefore \in Int /\ before \in Int /\ w \in Int
          BY <1>3, <4>5
        <5>2. runBefore + w = runAfter /\ heldAfter = heldBefore
          BY <4>5
        <5>3. used' = before + w
          BY <4>7
        <5>4. runAfter \in Int /\ heldAfter \in Int
          BY <4>5
        <5> HIDE DEF runBefore, runAfter, heldBefore, heldAfter, before, f, h, w, t
        <5>5. used' + (runBefore + heldBefore) = before + (runAfter + heldAfter)
          BY ONLY <5>1, <5>2, <5>3, <5>4, Z3
        <5> QED BY <5>5 DEF runBefore, runAfter, heldBefore, heldAfter, before
      <4> HIDE DEF f, h, w, t
      <4> QED BY <4>6, <4>7, <4>8
    <3>4. CASE doing[e] = "charges"
      <4>1. doing'[e] = "holds" /\ ask[e].bytes = TileBytes
        BY <1>1, <1>3, <3>4 DEF AskSound
      <4>2. /\ OverNow(e, doing[e], fill[e]) = RunNow(e, doing[e], runs[e], fill[e])
            /\ RunNow(e, doing[e], runs[e], fill[e]) = (Len(fill[e]) - 1) * WorkingBytes[e]
            /\ HeldNow(e, doing[e], heldTiles[e]) = (Len(heldTiles[e]) + 0) * TileBytes
        BY <2>2, <3>4, QueryAmounts, QueryHoldings
      <4>3. /\ OverNow(e, doing'[e], fill[e]) = RunNow(e, doing'[e], runs'[e], fill[e])
            /\ RunNow(e, doing'[e], runs'[e], fill[e]) = (Len(fill[e]) - 1) * WorkingBytes[e]
            /\ HeldNow(e, doing'[e], heldTiles[e]) = (Len(heldTiles[e]) + 1) * TileBytes
        BY <2>2, <4>1, QueryAmounts, QueryHoldings
      <4>4. fill'[e] = fill[e] /\ heldTiles'[e] = heldTiles[e]
        BY <1>1
      <4> DEFINE f == Len(fill[e])  h == Len(heldTiles[e])  w == WorkingBytes[e]  t == TileBytes
      <4>5. /\ (f - 1) * w + w = (f - 0) * w /\ (h + 1) * t = (h + 0) * t + t
            /\ (f - 1) * w \in Int /\ (f - 0) * w \in Int
            /\ (h + 1) * t \in Int /\ (h + 0) * t \in Int
        <5>1. f \in Int /\ h \in Int /\ w \in Int /\ t \in Int
          BY <1>3, <3>1
        <5> HIDE DEF f, h, w, t
        <5> QED BY ONLY <5>1, Z3
      <4>6. /\ Balanced(e) <=> used' + ((f - 1) * w + (h + 0) * t)
                               = used + (RunNow(e, doing'[e], runs'[e], fill[e])
                                          + HeldNow(e, doing'[e], heldTiles[e]))
            /\ PacedStep(e)
        <5>1. RunNow(e, doing'[e], runs'[e], fill[e]) \in Int
          BY <4>3, <4>5
        <5> QED BY <4>2, <4>3, <4>4, <4>5, <5>1 DEF Balanced, PacedStep
      <4>7. /\ used' = used + t
            /\ RunNow(e, doing'[e], runs'[e], fill[e]) = (f - 1) * w
            /\ HeldNow(e, doing'[e], heldTiles[e]) = (h + 1) * t
        BY <3>2, <4>1, <4>3
      <4>8. used' + ((f - 1) * w + (h + 0) * t) = used + ((f - 1) * w + (h + 1) * t)
        <5> DEFINE runBefore == (f - 1) * w  runAfter == (f - 1) * w
                   heldBefore == (h + 0) * t  heldAfter == (h + 1) * t  before == used
        <5>1. runBefore \in Int /\ heldBefore \in Int /\ before \in Int /\ t \in Int
          BY <1>3, <4>5
        <5>2. runBefore = runAfter /\ heldBefore + t = heldAfter
          BY <4>5
        <5>3. used' = before + t
          BY <4>7
        <5>4. runAfter \in Int /\ heldAfter \in Int
          BY <4>5
        <5> HIDE DEF runBefore, runAfter, heldBefore, heldAfter, before, f, h, w, t
        <5>5. used' + (runBefore + heldBefore) = before + (runAfter + heldAfter)
          BY ONLY <5>1, <5>2, <5>3, <5>4, Z3
        <5> QED BY <5>5 DEF runBefore, runAfter, heldBefore, heldAfter, before
      <4> HIDE DEF f, h, w, t
      <4> QED BY <4>6, <4>7, <4>8
    <3> QED BY <1>1, <3>3, <3>4
  <2> QED BY <1>3, <2>1, <2>2
<1>7. Peaks' /\ highest' \in Nat /\ peak' \in Nat
  BY <1>4, SwapPeaks
<1>8. used' \in Int
  BY <1>4
<1> QED BY <1>1, <1>2, <1>5, <1>6, <1>7, <1>8, StepStays

\* Another render raises its token, or nothing happens.
LEMMA NothingMoves ==
    ASSUME BudgetInv, SharedSound',
           UNCHANGED <<used, peak, highest, doing, ask, runs, inFrame, fill, toRead, heldTiles,
                       evaluated>>
    PROVE  BudgetInv'
<1>1. Shaped' /\ EachSound'
  BY DEF BudgetInv, Shaped, EachSound, QuerySoundOf
<1>2. RunBytes' = RunBytes /\ HeldBytes' = HeldBytes /\ Overshoot' = Overshoot
  BY RunBytesNow, RunBytesNext DEF Overshoot
<1>3. UsedIsReserved' /\ Paced'
  <2>1. /\ Together(RunBytes)' = Together(RunBytes) /\ Together(HeldBytes)' = Together(HeldBytes)
        /\ Together(Overshoot)' = Together(Overshoot)
    BY <1>2 DEF Together
  <2> QED BY <2>1 DEF BudgetInv, UsedIsReserved, Paced
<1>4. Peaks'
  <2>1. \A e \in Evaluations : Reaches(e)' = Reaches(e) /\ doing'[e] = doing[e]
    BY DEF Reaches
  <2> QED BY <2>1 DEF BudgetInv, Peaks
<1> QED BY <1>1, <1>3, <1>4 DEF BudgetInv

LEMMA CancelStays ==
    ASSUME TileBudgetAssumption, BudgetInv, NEW r \in Renders, Cancel(r)
    PROVE  BudgetInv'
<1>1. /\ cancelled' = cancelled \cup {r}
      /\ UNCHANGED <<used, peak, highest, store, doing, ask, runs, inFrame, fill, toRead,
                     heldTiles, evaluated>>
  BY DEF Cancel, counters, queryVars
<1>2. SharedSound'
  BY <1>1 DEF BudgetInv, SharedSound
<1> QED BY <1>1, <1>2, NothingMoves

LEMMA SwapFailsStays ==
    ASSUME TileBudgetAssumption, BudgetInv, NEW e \in Evaluations, SwapFails(e)
    PROVE  BudgetInv'
<1>1. /\ doing[e] \in {"reserves", "charges"}
      /\ ask' = [ask EXCEPT ![e].seen = used]
      /\ UNCHANGED counters
      /\ UNCHANGED <<store, doing, runs, inFrame, cancelled, fill, toRead, heldTiles, evaluated>>
  BY DEF SwapFails, Reserving, queryVars
<1>2. /\ Turns(ask, ask', e, Evaluations) /\ ask'[e] = [ask[e] EXCEPT !.seen = used]
  BY <1>1 DEF BudgetInv, Shaped, Turns
<1>3. Apart(e)
  BY <1>1, <1>2, SameTurns, ApartOne DEF BudgetInv
<1>4. AskSound(e, doing[e], ask[e], runs[e]) /\ used \in Nat
  BY DEF BudgetInv, EachSound
<1>5. /\ ask'[e].bytes = ask[e].bytes /\ ask'[e].wanted = ask[e].wanted
      /\ ask'[e] \in [bytes : Nat, wanted : Nat, seen : Nat]
  BY <1>2, <1>4 DEF AskSound
<1>6. EachSoundNext(e)
  <2>1. AskSound(e, doing'[e], ask'[e], runs'[e])
    BY <1>1, <1>4, <1>5 DEF AskSound
  <2>2. e \in Renders => RenderSound(e, doing'[e], ask'[e], runs'[e], inFrame'[e])
    BY <1>1, <1>5 DEF BudgetInv, EachSound, RenderSound
  <2>3. e \in Queries => QuerySound(doing'[e], fill'[e], toRead'[e], heldTiles'[e], evaluated'[e])
    BY <1>1 DEF BudgetInv, EachSound, QuerySoundOf
  <2> QED BY <2>1, <2>2, <2>3 DEF EachSoundNext
<1>7. SharedSound'
  BY <1>1, SameShared DEF BudgetInv
<1>8. ~Raising(doing[e]) /\ ~Raising(doing'[e])
  BY <1>1 DEF Raising
<1> QED BY <1>1, <1>3, <1>6, <1>7, <1>8, QuietStep

LEMMA RaisePeaks ==
    ASSUME BudgetInv, NEW e \in Evaluations, doing[e] \in {"raises", "holds"}, Apart(e),
           doing'[e] \notin {"raises", "holds"}, ask' = ask, runs' = runs,
           peak' = Raised(e), UNCHANGED <<used, highest>>
    PROVE  Peaks' /\ peak' \in Nat
<1>1. Peaks /\ used \in Nat /\ peak \in Nat /\ highest \in Nat
  BY DEF BudgetInv
<1>2. Reaches(e) \in Nat /\ Reaches(e) <= highest
  <2>1. Reaches(e) \in Nat
    <3>1. ask[e].seen \in Nat /\ runs[e] \in Nat /\ ask[e].bytes \in Nat
      BY DEF BudgetInv, EachSound, AskSound
    <3> QED BY <3>1, ProductNatural DEF Reaches
  <2> QED BY <1>1, <2>1 DEF Peaks, Raising
<1>3. /\ peak' = peak \/ peak' = Reaches(e)
      /\ peak' >= peak /\ peak' >= Reaches(e)
  <2>1. peak \in Int /\ Reaches(e) \in Int
    BY <1>1, <1>2
  <2> QED BY <2>1, MaxOfTwo DEF Raised
<1>4. ASSUME NEW x \in Evaluations
      PROVE  Reaches(x)' = Reaches(x) /\ (Raising(doing'[x]) <=> Raising(doing[x]) /\ x # e)
  <2>1. Reaches(x)' = Reaches(x)
    BY DEF Reaches
  <2>2. CASE x = e
    BY <2>1, <2>2 DEF Raising
  <2>3. CASE x # e
    BY <2>1, <2>3 DEF Apart
  <2> QED BY <2>2, <2>3
<1>5. \A x \in Evaluations : Raising(doing'[x]) => Reaches(x)' <= highest'
  BY <1>1, <1>4 DEF Peaks
<1>6. peak' = highest' \/ \E x \in Evaluations : Raising(doing'[x]) /\ Reaches(x)' = highest'
  <2>1. CASE peak = highest
    <3>1. peak' = highest
      BY <1>1, <1>2, <1>3, <2>1
    <3> QED BY <3>1
  <2>2. CASE \E x \in Evaluations : Raising(doing[x]) /\ Reaches(x) = highest
    <3>1. PICK x \in Evaluations : Raising(doing[x]) /\ Reaches(x) = highest
      BY <2>2
    <3>2. CASE x = e
      <4>1. peak' = highest
        BY <1>1, <1>2, <1>3, <3>1, <3>2 DEF Peaks
      <4> QED BY <4>1
    <3>3. CASE x # e
      BY <1>4, <3>1, <3>3
    <3> QED BY <3>2, <3>3
  <2> QED BY <1>1, <2>1, <2>2 DEF Peaks
<1>7. used' <= highest' /\ peak' <= highest' /\ peak' \in Nat
  BY <1>1, <1>2, <1>3 DEF Peaks
<1> QED BY <1>5, <1>6, <1>7 DEF Peaks

LEMMA RaiseStays ==
    ASSUME TileBudgetAssumption, BudgetInv, NEW e \in Evaluations, Raise(e)
    PROVE  BudgetInv'
<1>1. /\ doing[e] \in {"raises", "holds"} /\ peak' = Raised(e)
      /\ Goes(e, IF doing[e] = "raises" THEN "runs" ELSE "stores")
      /\ UNCHANGED <<used, highest, store, ask, runs, inFrame, cancelled, fill, toRead,
                     heldTiles, evaluated>>
  BY DEF Raise, queryVars
<1>2. Apart(e) /\ doing'[e] = (IF doing[e] = "raises" THEN "runs" ELSE "stores")
  BY <1>1, SameTurns, GoesTurns, ApartOne DEF BudgetInv
<1>3. AskSound(e, doing[e], ask[e], runs[e]) /\ used \in Nat /\ highest \in Nat
      /\ (e \in Renders \/ e \in Queries)
  BY Sizes DEF BudgetInv, EachSound
<1>4. EachSoundNext(e)
  <2>1. AskSound(e, doing'[e], ask'[e], runs'[e])
    BY <1>1, <1>2, <1>3 DEF AskSound
  <2>2. ASSUME e \in Renders PROVE RenderSound(e, doing'[e], ask'[e], runs'[e], inFrame'[e])
    <3>1. RenderSound(e, doing[e], ask[e], runs[e], inFrame[e])
      BY <2>2 DEF BudgetInv, EachSound
    <3>2. doing[e] = "raises" /\ doing'[e] = "runs"
      BY <1>1, <1>2, <3>1 DEF RenderSound, Ended
    <3> QED BY <1>1, <3>1, <3>2 DEF RenderSound, Ended
  <2>3. e \in Queries => QuerySound(doing'[e], fill'[e], toRead'[e], heldTiles'[e], evaluated'[e])
    BY <1>1, <1>2, QueryKept
  <2> QED BY <2>1, <2>2, <2>3 DEF EachSoundNext
<1>5. SharedSound'
  BY <1>1, SameShared DEF BudgetInv
<1>6. /\ RunNow(e, doing'[e], runs'[e], fill'[e]) = RunNow(e, doing[e], runs[e], fill[e])
      /\ HeldNow(e, doing'[e], heldTiles'[e]) = HeldNow(e, doing[e], heldTiles[e])
      /\ OverNow(e, doing'[e], fill'[e]) = OverNow(e, doing[e], fill[e])
  <2>1. CASE e \in Renders
    <3>1. RenderSound(e, doing[e], ask[e], runs[e], inFrame[e])
      BY <2>1 DEF BudgetInv, EachSound
    <3>2. doing[e] = "raises" /\ doing'[e] = "runs"
      BY <1>1, <1>2, <3>1 DEF RenderSound, Ended
    <3> QED BY <1>1, <2>1, <3>2 DEF RunNow, HeldNow, OverNow
  <2>2. CASE e \notin Renders
    BY <1>1, <1>2, <2>2 DEF RunNow, HeldNow, OverNow, UnderNow
  <2> QED BY <2>1, <2>2
<1>7. Balanced(e) /\ PacedStep(e)
  <2>1. /\ RunNow(e, doing[e], runs[e], fill[e]) \in Nat
        /\ OverNow(e, doing[e], fill[e]) \in Nat
        /\ HeldNow(e, doing[e], heldTiles[e]) \in Nat
    BY NowNatural DEF BudgetInv, EachSound, QuerySoundOf
  <2> QED BY <1>1, <1>3, <1>6, <2>1 DEF Balanced, PacedStep
<1>8. Peaks' /\ peak' \in Nat
  BY <1>1, <1>2, RaisePeaks
<1>9. used' \in Int /\ highest' \in Nat
  BY <1>1, <1>3
<1> QED BY <1>2, <1>4, <1>5, <1>7, <1>8, <1>9, StepStays

\* ------------------------------------------------- the steps of a render ----

\* A step of a render before or between batches.
LEMMA RenderQuiet ==
    ASSUME TileBudgetAssumption, BudgetInv, NEW r \in Renders, r \in Evaluations, Apart(r),
           doing[r] \notin {"raises", "runs", "holds"}, doing'[r] \notin {"raises", "runs", "holds"},
           AskSound(r, doing'[r], ask'[r], runs'[r]),
           RenderSound(r, doing'[r], ask'[r], runs'[r], inFrame'[r]),
           SharedSound', UNCHANGED <<used, peak, highest>>
    PROVE  BudgetInv'
<1>1. r \notin Queries
  BY DEF TileBudgetAssumption
<1>2. EachSoundNext(r)
  BY <1>1 DEF EachSoundNext
<1>3. /\ RunNow(r, doing'[r], runs'[r], fill'[r]) = RunNow(r, doing[r], runs[r], fill[r])
      /\ HeldNow(r, doing'[r], heldTiles'[r]) = HeldNow(r, doing[r], heldTiles[r])
      /\ OverNow(r, doing'[r], fill'[r]) = OverNow(r, doing[r], fill[r])
  BY DEF RunNow, HeldNow, OverNow
<1>4. ~Raising(doing[r]) /\ ~Raising(doing'[r]) /\ UNCHANGED counters
  BY DEF Raising, counters
<1> QED BY <1>2, <1>3, <1>4, QuietStep

LEMMA LookStays ==
    ASSUME TileBudgetAssumption, BudgetInv, NEW r \in Renders, r \in Evaluations, Look(r)
    PROVE  BudgetInv'
<1>1. /\ doing[r] = "looks"
      /\ Goes(r, IF KeyOf[r] \in Range(store) THEN "checks" ELSE "remembers")
      /\ UNCHANGED <<used, peak, highest, store, ask, runs, inFrame, cancelled, fill, toRead,
                     heldTiles, evaluated>>
  BY DEF Look, counters, queryVars
<1>2. Apart(r) /\ doing'[r] = (IF KeyOf[r] \in Range(store) THEN "checks" ELSE "remembers")
  BY <1>1, SameTurns, GoesTurns, ApartOne DEF BudgetInv
<1>3. doing'[r] \in {"checks", "remembers"}
  BY <1>2
<1>4. AskSound(r, doing'[r], ask'[r], runs'[r])
  BY <1>1, <1>3 DEF BudgetInv, EachSound, AskSound
<1>5. RenderSound(r, doing'[r], ask'[r], runs'[r], inFrame'[r])
  BY <1>1, <1>3 DEF BudgetInv, EachSound, RenderSound, Ended
<1>6. SharedSound'
  BY <1>1, SameShared DEF BudgetInv
<1> QED BY <1>1, <1>2, <1>3, <1>4, <1>5, <1>6, RenderQuiet

LEMMA TailInjective ==
    ASSUME NEW S, NEW s \in Seq(S), s # <<>>, IsInjective(s)
    PROVE  Tail(s) \in Seq(S) /\ IsInjective(Tail(s)) /\ Len(Tail(s)) = Len(s) - 1
<1>1. /\ Tail(s) \in Seq(S) /\ DOMAIN Tail(s) = 1 .. Len(s) - 1 /\ Len(Tail(s)) = Len(s) - 1
      /\ \A i \in 1 .. Len(s) - 1 : Tail(s)[i] = s[i + 1] /\ i + 1 \in DOMAIN s
  OBVIOUS
<1>2. ASSUME NEW i \in DOMAIN Tail(s), NEW j \in DOMAIN Tail(s), Tail(s)[i] = Tail(s)[j]
      PROVE  i = j
  <2>1. i \in 1 .. Len(s) - 1 /\ j \in 1 .. Len(s) - 1
    BY <1>1
  <2>2. s[i + 1] = s[j + 1] /\ i + 1 \in DOMAIN s /\ j + 1 \in DOMAIN s
    BY <1>1, <1>2, <2>1
  <2>3. i + 1 = j + 1
    BY <2>2 DEF IsInjective
  <2> QED BY <2>1, <2>3
<1> QED BY <1>1, <1>2 DEF IsInjective

\* The store keeps a key once and no more than its entries.
LEMMA StoreKept ==
    ASSUME TileBudgetAssumption, SharedSound, NEW k \in Range(KeyOf)
    PROVE  /\ Trimmed(WithKey(k)) \in Seq(Range(KeyOf)) /\ IsInjective(Trimmed(WithKey(k)))
           /\ Len(Trimmed(WithKey(k))) <= StoreEntries
<1> DEFINE s == WithKey(k)
<1>1. /\ store \in Seq(Range(KeyOf)) /\ IsInjective(store) /\ Len(store) <= StoreEntries
      /\ StoreEntries \in Nat \ {0} /\ Len(store) \in Nat
  BY DEF SharedSound, TileBudgetAssumption
<1>2. s \in Seq(Range(KeyOf)) /\ IsInjective(s) /\ Len(s) <= StoreEntries + 1
  <2>1. CASE k \in Range(store)
    BY <1>1, <2>1 DEF WithKey
  <2>2. CASE k \notin Range(store)
    <3>1. s = Append(store, k)
      BY <2>2 DEF WithKey
    <3>2. Append(store, k) \in Seq(Range(KeyOf)) /\ IsInjective(Append(store, k))
      BY <1>1, <2>2, AppendedRange
    <3>3. Len(Append(store, k)) = Len(store) + 1
      BY <1>1
    <3> QED BY <1>1, <3>1, <3>2, <3>3
  <2> QED BY <2>1, <2>2
<1> HIDE DEF s
<1>3. CASE Len(s) > StoreEntries
  <2>1. s # <<>> /\ Trimmed(s) = Tail(s)
    BY <1>1, <1>2, <1>3 DEF Trimmed
  <2>2. Tail(s) \in Seq(Range(KeyOf)) /\ IsInjective(Tail(s)) /\ Len(Tail(s)) = Len(s) - 1
    BY <1>2, <2>1, TailInjective
  <2>3. Len(s) \in Nat
    BY <1>2
  <2> QED BY <1>1, <1>2, <2>1, <2>2, <2>3 DEF s
<1>4. CASE ~(Len(s) > StoreEntries)
  <2>1. Trimmed(s) = s /\ Len(s) \in Nat
    BY <1>2, <1>4 DEF Trimmed
  <2> QED BY <1>1, <1>2, <1>4, <2>1 DEF s
<1> QED BY <1>3, <1>4

LEMMA RememberStays ==
    ASSUME TileBudgetAssumption, BudgetInv, NEW r \in Renders, r \in Evaluations, Remember(r)
    PROVE  BudgetInv'
<1>1. /\ doing[r] = "remembers" /\ Goes(r, "checks") /\ store' = Trimmed(WithKey(KeyOf[r]))
      /\ UNCHANGED <<used, peak, highest, ask, runs, inFrame, cancelled, fill, toRead,
                     heldTiles, evaluated>>
  BY DEF Remember, counters, queryVars
<1>2. Apart(r) /\ doing'[r] = "checks"
  BY <1>1, SameTurns, GoesTurns, ApartOne DEF BudgetInv
<1>3. AskSound(r, doing'[r], ask'[r], runs'[r])
  BY <1>1, <1>2 DEF BudgetInv, EachSound, AskSound
<1>4. RenderSound(r, doing'[r], ask'[r], runs'[r], inFrame'[r])
  BY <1>1, <1>2 DEF BudgetInv, EachSound, RenderSound, Ended
<1>5. SharedSound'
  <2>1. KeyOf[r] \in Range(KeyOf)
    BY DEF TileBudgetAssumption, Range
  <2>2. SharedSound /\ cancelled' = cancelled
    BY <1>1 DEF BudgetInv
  <2>3. /\ store' \in Seq(Range(KeyOf)) /\ IsInjective(store') /\ Len(store') <= StoreEntries
    BY <1>1, <2>1, <2>2, StoreKept
  <2> QED BY <2>2, <2>3 DEF SharedSound
<1> QED BY <1>1, <1>2, <1>3, <1>4, <1>5, RenderQuiet

LEMMA CheckStays ==
    ASSUME TileBudgetAssumption, BudgetInv, NEW r \in Renders, r \in Evaluations, Check(r)
    PROVE  BudgetInv'
<1>1. /\ doing[r] = "checks"
      /\ UNCHANGED <<used, peak, highest, store, runs, inFrame, cancelled, fill, toRead,
                     heldTiles, evaluated>>
  BY DEF Check, counters, queryVars
<1>2. /\ AskSound(r, doing[r], ask[r], runs[r]) /\ RenderSound(r, doing[r], ask[r], runs[r], inFrame[r])
      /\ used \in Nat /\ TileCount[r] \in Nat \ {0} /\ Len(inFrame[r]) \in Nat
      /\ Len(inFrame[r]) <= TileCount[r]
  BY DEF BudgetInv, EachSound, RenderSound, TileBudgetAssumption
<1>3. SharedSound'
  BY <1>1, SameShared DEF BudgetInv
<1>4. ASSUME NEW d, d \in {"done", "stopped"}, Goes(r, d), UNCHANGED ask,
             d = "done" => Left(r) = 0
      PROVE  BudgetInv'
  <2>1. Apart(r) /\ doing'[r] = d
    BY <1>1, <1>4, SameTurns, GoesTurns, ApartOne DEF BudgetInv
  <2>2. AskSound(r, doing'[r], ask'[r], runs'[r])
    BY <1>1, <1>2, <1>4, <2>1 DEF AskSound
  <2>3. RenderSound(r, doing'[r], ask'[r], runs'[r], inFrame'[r])
    <3>1. d = "done" => Len(inFrame[r]) = TileCount[r]
      BY <1>2, <1>4 DEF Left
    <3> QED BY <1>1, <1>2, <1>4, <2>1, <3>1 DEF RenderSound, Ended
  <2>4. doing'[r] \notin {"raises", "runs", "holds"}
    BY <1>4, <2>1
  <2> QED BY <1>1, <1>3, <2>1, <2>2, <2>3, <2>4, RenderQuiet
<1>5. ASSUME Left(r) # 0, Goes(r, "reserves"),
             Asks(r, WorkingBytes[r], Min({Concurrency(r), Left(r)}))
      PROVE  BudgetInv'
  <2> DEFINE n == Min({Concurrency(r), Left(r)})
  <2>1. Turns(ask, ask', r, Evaluations)
        /\ ask'[r] = [bytes |-> WorkingBytes[r], wanted |-> n, seen |-> used]
    BY <1>5 DEF Asks, BudgetInv, Shaped, Turns
  <2>2. Apart(r) /\ doing'[r] = "reserves"
    BY <1>1, <1>5, <2>1, SameTurns, GoesTurns, ApartOne DEF BudgetInv
  <2>3. n \in Nat /\ n >= 1 /\ n <= TileCount[r] - Len(inFrame[r])
    <3>1. Left(r) \in Nat \ {0} /\ Left(r) = TileCount[r] - Len(inFrame[r])
      BY <1>2, <1>5 DEF Left
    <3>2. Concurrency(r) \in Int /\ Concurrency(r) >= 1
      <4>1. Min({Workers, TargetBytes \div WorkingBytes[r]}) \in Int
        <5>1. Workers \in Int /\ TargetBytes \div WorkingBytes[r] \in Int
          <6>1. Workers \in Nat /\ TargetBytes \in Nat /\ WorkingBytes[r] \in Nat \ {0}
            BY Sizes DEF TileBudgetAssumption
          <6> QED BY <6>1
        <5> QED BY <5>1, MinOfTwo
      <4>2. 1 \in Int
        OBVIOUS
      <4> QED BY <4>1, <4>2, MaxOfTwo DEF Concurrency
    <3>3. (n = Concurrency(r) \/ n = Left(r)) /\ n <= Left(r) /\ n \in Int
      <4>1. Left(r) \in Int
        BY <3>1
      <4> QED BY <3>2, <4>1, MinOfTwo
    <3> HIDE DEF n
    <3> QED BY <3>1, <3>2, <3>3
  <2> HIDE DEF n
  <2>4. WorkingBytes[r] \in Nat
    BY Sizes
  <2>5. AskSound(r, doing'[r], ask'[r], runs'[r])
    <3>1. r \notin Queries /\ runs'[r] \in Nat
      BY <1>1, <1>2 DEF TileBudgetAssumption, AskSound
    <3> QED BY <1>2, <2>1, <2>2, <2>3, <2>4, <3>1 DEF AskSound
  <2>6. RenderSound(r, doing'[r], ask'[r], runs'[r], inFrame'[r])
    <3>1. ask'[r].wanted = n /\ inFrame'[r] = inFrame[r]
      BY <1>1, <2>1
    <3> QED BY <1>2, <2>2, <2>3, <3>1 DEF RenderSound, Ended
  <2>7. doing'[r] \notin {"raises", "runs", "holds"} /\ doing[r] \notin {"raises", "runs", "holds"}
    BY <1>1, <2>2
  <2> QED BY <1>1, <1>3, <2>2, <2>5, <2>6, <2>7, RenderQuiet
<1> QED BY <1>4, <1>5 DEF Check

\* A batch ends: what it reserved is given back.
LEMMA BatchGivesBack ==
    ASSUME TileBudgetAssumption, BudgetInv, NEW r \in Renders, r \in Evaluations, Apart(r),
           doing[r] = "runs", doing'[r] \in {"checks", "failed"},
           used' = used - BatchBytes(r), UNCHANGED <<peak, highest, ask, runs, store, cancelled>>,
           RenderSound(r, doing'[r], ask'[r], runs'[r], inFrame'[r])
    PROVE  BudgetInv'
<1>1. /\ AskSound(r, doing[r], ask[r], runs[r]) /\ RenderSound(r, doing[r], ask[r], runs[r], inFrame[r])
      /\ used \in Nat /\ highest \in Nat /\ peak \in Nat /\ Peaks
      /\ WorkingBytes[r] \in Nat \ {0}
  BY Sizes DEF BudgetInv, EachSound
<1>2. runs[r] \in Nat \ {0}
  BY <1>1 DEF RenderSound, AskSound
<1>3. ask[r].bytes = WorkingBytes[r]
  BY <1>1 DEF AskSound
<1> DEFINE b == runs[r] * WorkingBytes[r]
<1>4. b \in Nat /\ b >= WorkingBytes[r]
  <2>1. ASSUME NEW x \in Nat \ {0}, NEW y \in Nat \ {0} PROVE x * y \in Nat /\ x * y >= y
    BY Z3
  <2> QED BY <1>1, <1>2, <2>1
<1>5. used' = used - b
  BY <1>3 DEF BatchBytes
<1>6. /\ RunNow(r, doing[r], runs[r], fill[r]) = b
      /\ OverNow(r, doing[r], fill[r]) = WorkingBytes[r]
      /\ HeldNow(r, doing[r], heldTiles[r]) = 0
  <2>1. doing[r] \in {"raises", "runs"}
    OBVIOUS
  <2> QED BY <2>1, RenderAmounts
<1>7. /\ RunNow(r, doing'[r], runs'[r], fill'[r]) = 0
      /\ OverNow(r, doing'[r], fill'[r]) = 0
      /\ HeldNow(r, doing'[r], heldTiles'[r]) = 0
  <2>1. doing'[r] \notin {"raises", "runs"}
    OBVIOUS
  <2> QED BY <2>1, RenderAmounts
<1> HIDE DEF b
<1>8. Balanced(r) /\ PacedStep(r)
  BY <1>1, <1>4, <1>5, <1>6, <1>7 DEF Balanced, PacedStep
<1>9. EachSoundNext(r)
  <2>1. r \notin Queries
    BY DEF TileBudgetAssumption
  <2>2. AskSound(r, doing'[r], ask'[r], runs'[r])
    BY <1>1 DEF AskSound
  <2> QED BY <2>1, <2>2 DEF EachSoundNext
<1>10. SharedSound'
  BY SameShared DEF BudgetInv
<1>11. used' \in Int /\ used' <= used /\ ~Raising(doing[r]) /\ ~Raising(doing'[r])
  BY <1>1, <1>4, <1>5 DEF Raising
<1>12. used' \in Nat => Peaks'
  BY <1>1, <1>11, PeaksStay
<1>13. peak' \in Nat /\ highest' \in Nat
  BY <1>1
<1> QED BY <1>8, <1>9, <1>10, <1>11, <1>12, <1>13, StepStays

LEMMA BatchFailsStays ==
    ASSUME TileBudgetAssumption, BudgetInv, NEW r \in Renders, r \in Evaluations, BatchFails(r)
    PROVE  BudgetInv'
<1>1. /\ doing[r] = "runs" /\ Goes(r, "failed") /\ used' = used - BatchBytes(r)
      /\ UNCHANGED <<peak, highest, store, ask, runs, inFrame, cancelled, fill, toRead,
                     heldTiles, evaluated>>
  BY DEF BatchFails, queryVars
<1>2. Apart(r) /\ doing'[r] = "failed"
  BY <1>1, SameTurns, GoesTurns, ApartOne DEF BudgetInv
<1>3. RenderSound(r, doing'[r], ask'[r], runs'[r], inFrame'[r])
  BY <1>1, <1>2 DEF BudgetInv, EachSound, RenderSound, Ended
<1> QED BY <1>1, <1>2, <1>3, BatchGivesBack

\* The tiles of a batch follow those in the frame.
LEMMA BatchInOrder ==
    ASSUME NEW w \in Seq(Nat), w = [i \in 1 .. Len(w) |-> i], NEW n \in Nat,
           NEW v, v = w \o [i \in 1 .. n |-> Len(w) + i]
    PROVE  v \in Seq(Nat) /\ Len(v) = Len(w) + n /\ v = [i \in 1 .. Len(v) |-> i]
<1> DEFINE b == [i \in 1 .. n |-> Len(w) + i]
<1>1. b \in Seq(Nat) /\ Len(b) = n /\ \A i \in 1 .. n : b[i] = Len(w) + i
  <2>1. Len(w) \in Nat
    OBVIOUS
  <2>2. b \in [1 .. n -> Nat]
    BY <2>1
  <2>3. b \in Seq(Nat)
    BY <2>2
  <2> QED BY <2>2, <2>3
<1>2. v = w \o b
  OBVIOUS
<1> HIDE DEF b
<1>3. v \in Seq(Nat) /\ Len(v) = Len(w) + n /\ Len(w) \in Nat
  BY <1>1, <1>2
<1>4. \A i \in 1 .. Len(v) : v[i] = i
  <2> SUFFICES ASSUME NEW i \in 1 .. Len(v) PROVE v[i] = i
    OBVIOUS
  <2>1. CASE i <= Len(w)
    <3>1. v[i] = w[i] /\ i \in 1 .. Len(w)
      BY <1>1, <1>2, <1>3, <2>1
    <3> QED BY <3>1
  <2>2. CASE i > Len(w)
    <3>1. v[i] = b[i - Len(w)] /\ i - Len(w) \in 1 .. n
      BY <1>1, <1>2, <1>3, <2>2
    <3> QED BY <1>1, <1>3, <3>1
  <2> QED BY <1>3, <2>1, <2>2
<1> QED BY <1>3, <1>4

LEMMA BatchWrittenStays ==
    ASSUME TileBudgetAssumption, BudgetInv, NEW r \in Renders, r \in Evaluations, BatchWritten(r)
    PROVE  BudgetInv'
<1>1. /\ doing[r] = "runs" /\ Goes(r, "checks") /\ used' = used - BatchBytes(r)
      /\ inFrame' = [inFrame EXCEPT ![r] = @ \o Batch(r)]
      /\ UNCHANGED <<peak, highest, store, ask, runs, cancelled, fill, toRead,
                     heldTiles, evaluated>>
  BY DEF BatchWritten, queryVars
<1>2. Turns(inFrame, inFrame', r, Renders) /\ inFrame'[r] = inFrame[r] \o Batch(r)
  BY <1>1 DEF BudgetInv, Shaped, Turns
<1>3. Apart(r) /\ doing'[r] = "checks"
  BY <1>1, <1>2, SameTurns, GoesTurns, ApartOne DEF BudgetInv
<1>4. RenderSound(r, doing[r], ask[r], runs[r], inFrame[r]) /\ TileCount[r] \in Nat
  BY DEF BudgetInv, EachSound, TileBudgetAssumption
<1>5. /\ inFrame[r] \in Seq(Nat) /\ inFrame[r] = [i \in 1 .. Len(inFrame[r]) |-> i]
      /\ runs[r] \in Nat /\ Len(inFrame[r]) \in Nat
      /\ Len(inFrame[r]) + runs[r] <= TileCount[r]
  BY <1>1, <1>4 DEF RenderSound
<1>6. /\ inFrame'[r] \in Seq(Nat) /\ Len(inFrame'[r]) = Len(inFrame[r]) + runs[r]
      /\ inFrame'[r] = [i \in 1 .. Len(inFrame'[r]) |-> i]
  BY <1>2, <1>5, BatchInOrder DEF Batch
<1>7. RenderSound(r, doing'[r], ask'[r], runs'[r], inFrame'[r])
  BY <1>3, <1>5, <1>6 DEF RenderSound
<1> QED BY <1>1, <1>3, <1>7, BatchGivesBack

\* ------------------------------------------------- the steps of a query ----

LEMMA NextOf ==
    /\ \A q \in Queries : Wanted(q) = Next1(fill[q], toRead[q])
    /\ \A q \in Queries : Inner(q).tile = Innermost(fill[q])
  BY DEF Wanted, Next1, Inner, Innermost

\* A step of a query that reserves nothing.
LEMMA QueryMoves ==
    ASSUME TileBudgetAssumption, BudgetInv, NEW q \in Queries, q \in Evaluations, Apart(q),
           doing[q] \notin {"raises", "holds"}, doing'[q] \notin {"raises", "holds"},
           AskSound(q, doing'[q], ask'[q], runs'[q]),
           QuerySound(doing'[q], fill'[q], toRead'[q], heldTiles'[q], evaluated'[q]),
           UNCHANGED <<peak, highest, store, cancelled>>,
           used' \in Int, used' <= used, Balanced(q)
    PROVE  BudgetInv'
<1>1. q \notin Renders
  BY DEF TileBudgetAssumption
<1>2. EachSoundNext(q)
  BY <1>1 DEF EachSoundNext
<1>3. PacedStep(q)
  <2>1. /\ RunNow(q, doing[q], runs[q], fill[q]) \in Nat
        /\ OverNow(q, doing[q], fill[q]) = RunNow(q, doing[q], runs[q], fill[q])
    BY NowNatural, QueryAmounts DEF BudgetInv, EachSound, QuerySoundOf
  <2>2. /\ RunNow(q, doing'[q], runs'[q], fill'[q]) \in Nat
        /\ OverNow(q, doing'[q], fill'[q]) = RunNow(q, doing'[q], runs'[q], fill'[q])
    BY NowNatural, QueryAmounts
  <2> QED BY <2>1, <2>2 DEF PacedStep
<1>4. SharedSound'
  BY SameShared DEF BudgetInv
<1>5. ~Raising(doing[q]) /\ ~Raising(doing'[q])
  BY DEF Raising
<1>6. used \in Nat /\ peak \in Nat /\ highest \in Nat /\ Peaks
  BY DEF BudgetInv
<1>7. used' \in Nat => Peaks'
  BY <1>5, <1>6, PeaksStay
<1> QED BY <1>2, <1>3, <1>4, <1>6, <1>7, StepStays

\* And one that gives nothing back.
LEMMA QuerySame ==
    ASSUME TileBudgetAssumption, BudgetInv, NEW q \in Queries, q \in Evaluations, Apart(q),
           doing[q] \notin {"raises", "holds"}, doing'[q] \notin {"raises", "holds"},
           AskSound(q, doing'[q], ask'[q], runs'[q]),
           QuerySound(doing'[q], fill'[q], toRead'[q], heldTiles'[q], evaluated'[q]),
           UNCHANGED <<peak, highest, store, cancelled, used>>,
           RunNow(q, doing'[q], runs'[q], fill'[q]) = RunNow(q, doing[q], runs[q], fill[q]),
           HeldNow(q, doing'[q], heldTiles'[q]) = HeldNow(q, doing[q], heldTiles[q])
    PROVE  BudgetInv'
<1>1. used \in Nat
  BY DEF BudgetInv
<1>2. Balanced(q)
  BY DEF Balanced
<1>3. used' \in Int /\ used' <= used
  BY <1>1
<1> QED BY <1>2, <1>3, QueryMoves

LEMMA QueryAsk ==
    ASSUME NEW q, NEW d, NEW c, NEW a, NEW n, AskSound(q, d, a, n),
           c \in {"reads", "releases", "done"}
    PROVE  AskSound(q, c, a, n)
  BY DEF AskSound

LEMMA BeginStays ==
    ASSUME TileBudgetAssumption, BudgetInv, NEW q \in Queries, q \in Evaluations, BeginQuery(q)
    PROVE  BudgetInv'
<1>1. PICK p \in Points :
         toRead' = [toRead EXCEPT ![q] = [i \in DOMAIN p |-> Tile(Segments, p[i])]]
  BY DEF BeginQuery
<1>2. /\ doing[q] = "idle" /\ Goes(q, "reads")
      /\ UNCHANGED <<used, peak, highest, store, ask, runs, inFrame, cancelled, fill, heldTiles,
                     evaluated>>
  BY DEF BeginQuery, counters
<1>3. Turns(toRead, toRead', q, Queries) /\ toRead'[q] = [i \in DOMAIN p |-> Tile(Segments, p[i])]
  BY <1>1 DEF BudgetInv, Shaped, Turns
<1>4. Apart(q) /\ doing'[q] = "reads"
  BY <1>2, <1>3, SameTurns, GoesTurns, ApartOne DEF BudgetInv
<1>5. AskSound(q, doing'[q], ask'[q], runs'[q])
  BY <1>2, <1>4, QueryAsk DEF BudgetInv, EachSound
<1>6. QuerySound(doing'[q], fill'[q], toRead'[q], heldTiles'[q], evaluated'[q])
  <2>1. QuerySound("idle", fill[q], toRead[q], heldTiles[q], evaluated[q])
    BY <1>2 DEF BudgetInv, EachSound, QuerySoundOf
  <2> QED BY <1>2, <1>3, <1>4, <2>1, QueryBegins
<1>7. /\ RunNow(q, doing'[q], runs'[q], fill'[q]) = RunNow(q, doing[q], runs[q], fill[q])
      /\ HeldNow(q, doing'[q], heldTiles'[q]) = HeldNow(q, doing[q], heldTiles[q])
  BY <1>2, <1>4 DEF RunNow, HeldNow, UnderNow
<1>8. doing[q] \notin {"raises", "holds"} /\ doing'[q] \notin {"raises", "holds"}
  BY <1>2, <1>4
<1> QED BY <1>2, <1>4, <1>5, <1>6, <1>7, <1>8, QuerySame

\* What is read next moves on.
LEMMA AdvancesTurns ==
    ASSUME Shaped, NEW q \in Queries, NEW f, Advances(q, f)
    PROVE  /\ Turns(fill, fill', q, Queries) /\ fill'[q] = ReadOne(f)
           /\ Turns(toRead, toRead', q, Queries) /\ toRead'[q] = ReadOn(f, toRead[q])
  BY DEF Shaped, Advances, Turns

LEMMA HitStays ==
    ASSUME TileBudgetAssumption, BudgetInv, NEW q \in Queries, q \in Evaluations, Hit(q)
    PROVE  BudgetInv'
<1> DEFINE t == Head(Wanted(q))
<1>1. /\ doing[q] = "reads" /\ Wanted(q) # <<>> /\ t \in Range(heldTiles[q])
      /\ heldTiles' = [heldTiles EXCEPT ![q] = Refreshed(@, t)]
      /\ Advances(q, fill[q])
      /\ UNCHANGED <<used, peak, highest, store, doing, ask, runs, inFrame, cancelled, evaluated>>
  BY DEF Hit, counters
<1>2. Turns(heldTiles, heldTiles', q, Queries) /\ heldTiles'[q] = Refreshed(heldTiles[q], t)
  BY <1>1 DEF BudgetInv, Shaped, Turns
<1>3. /\ Turns(fill, fill', q, Queries) /\ fill'[q] = ReadOne(fill[q])
      /\ Turns(toRead, toRead', q, Queries) /\ toRead'[q] = ReadOn(fill[q], toRead[q])
  BY <1>1, AdvancesTurns DEF BudgetInv
<1>4. Apart(q)
  BY <1>1, <1>2, <1>3, SameTurns, ApartOne DEF BudgetInv
<1>5. t = Head(Next1(fill[q], toRead[q])) /\ Next1(fill[q], toRead[q]) # <<>>
  BY <1>1, NextOf
<1>6. QuerySound("reads", fill[q], toRead[q], heldTiles[q], evaluated[q])
  BY <1>1 DEF BudgetInv, EachSound, QuerySoundOf
<1> HIDE DEF t
<1>7. /\ QuerySound("reads", fill'[q], toRead'[q], heldTiles'[q], evaluated[q])
      /\ Len(heldTiles'[q]) = Len(heldTiles[q]) /\ Len(fill'[q]) = Len(fill[q])
  <2>1. /\ Head(Next1(fill[q], toRead[q])) \in Range(heldTiles[q])
        /\ heldTiles'[q] = Refreshed(heldTiles[q], Head(Next1(fill[q], toRead[q])))
    BY <1>1, <1>2, <1>5
  <2> QED BY <1>3, <1>5, <1>6, <2>1, QueryHits
<1>8. AskSound(q, doing'[q], ask'[q], runs'[q])
  BY <1>1 DEF BudgetInv, EachSound
<1>9. /\ RunNow(q, doing'[q], runs'[q], fill'[q]) = RunNow(q, doing[q], runs[q], fill[q])
      /\ HeldNow(q, doing'[q], heldTiles'[q]) = HeldNow(q, doing[q], heldTiles[q])
  <2>1. q \notin Renders
    BY DEF TileBudgetAssumption
  <2>2. UnderNow(doing'[q], fill'[q]) = UnderNow(doing[q], fill[q])
    BY <1>1, <1>7 DEF UnderNow
  <2>3. RunNow(q, doing'[q], runs'[q], fill'[q]) = RunNow(q, doing[q], runs[q], fill[q])
    BY <2>1, <2>2 DEF RunNow
  <2>4. HeldNow(q, doing'[q], heldTiles'[q]) = HeldNow(q, doing[q], heldTiles[q])
    <3>1. doing'[q] = "reads" /\ doing[q] = "reads"
      BY <1>1
    <3>2. Len(heldTiles'[q]) + 0 = Len(heldTiles[q]) + 0
      BY <1>7
    <3> QED BY <3>1, <3>2, QueryHoldings
  <2> QED BY <2>3, <2>4
<1>10. doing[q] \notin {"raises", "holds"} /\ doing'[q] = "reads" /\ doing'[q] \notin {"raises", "holds"}
  BY <1>1
<1> QED BY <1>1, <1>4, <1>7, <1>8, <1>9, <1>10, QuerySame

LEMMA MissStays ==
    ASSUME TileBudgetAssumption, BudgetInv, NEW q \in Queries, q \in Evaluations, Miss(q)
    PROVE  BudgetInv'
<1> DEFINE t == Head(Wanted(q))
<1>1. /\ doing[q] = "reads" /\ Wanted(q) # <<>> /\ t \notin Range(heldTiles[q])
      /\ fill' = [fill EXCEPT ![q] = Pushed(@, t)]
      /\ Asks(q, WorkingBytes[q], 1) /\ Goes(q, "reserves")
      /\ UNCHANGED <<used, peak, highest, store, runs, inFrame, cancelled, toRead, heldTiles,
                     evaluated>>
  BY DEF Miss, counters
<1>2. Turns(fill, fill', q, Queries) /\ fill'[q] = Pushed(fill[q], t)
  BY <1>1 DEF BudgetInv, Shaped, Turns
<1>3. Turns(ask, ask', q, Evaluations)
      /\ ask'[q] = [bytes |-> WorkingBytes[q], wanted |-> 1, seen |-> used]
  BY <1>1 DEF Asks, BudgetInv, Shaped, Turns
<1>4. Apart(q) /\ doing'[q] = "reserves"
  BY <1>1, <1>2, <1>3, SameTurns, GoesTurns, ApartOne DEF BudgetInv
<1>5. t = Head(Next1(fill[q], toRead[q])) /\ Next1(fill[q], toRead[q]) # <<>>
  BY <1>1, NextOf
<1>6. QuerySound("reads", fill[q], toRead[q], heldTiles[q], evaluated[q])
  BY <1>1 DEF BudgetInv, EachSound, QuerySoundOf
<1> HIDE DEF t
<1>7. /\ QuerySound("reserves", fill'[q], toRead[q], heldTiles[q], evaluated[q])
      /\ Len(fill'[q]) = Len(fill[q]) + 1
  BY <1>1, <1>2, <1>5, <1>6, QueryMisses
<1>8. AskSound(q, doing'[q], ask'[q], runs'[q])
  <2>1. runs'[q] \in Nat /\ used \in Nat /\ WorkingBytes[q] \in Nat
    BY <1>1, Sizes DEF BudgetInv, EachSound, AskSound
  <2> QED BY <1>3, <1>4, <2>1 DEF AskSound
<1>9. /\ RunNow(q, doing'[q], runs'[q], fill'[q]) = RunNow(q, doing[q], runs[q], fill[q])
      /\ HeldNow(q, doing'[q], heldTiles'[q]) = HeldNow(q, doing[q], heldTiles[q])
  <2>1. q \notin Renders
    BY DEF TileBudgetAssumption
  <2>2. Len(fill[q]) \in Nat
    BY <1>6, QueryLengths
  <2>3. UnderNow(doing'[q], fill'[q]) = UnderNow(doing[q], fill[q])
    BY <1>1, <1>4, <1>7, <2>2 DEF UnderNow
  <2> QED BY <1>1, <1>4, <2>1, <2>3 DEF RunNow, HeldNow
<1>10. doing[q] \notin {"raises", "holds"} /\ doing'[q] \notin {"raises", "holds"}
  BY <1>1, <1>4
<1>11. QuerySound(doing'[q], fill'[q], toRead'[q], heldTiles'[q], evaluated'[q])
  BY <1>1, <1>4, <1>7
<1> QED BY <1>1, <1>4, <1>8, <1>9, <1>10, <1>11, QuerySame

LEMMA RunStays ==
    ASSUME TileBudgetAssumption, BudgetInv, NEW q \in Queries, q \in Evaluations, Run(q)
    PROVE  BudgetInv'
<1>1. /\ doing[q] = "runs" /\ Goes(q, "reads")
      /\ UNCHANGED <<used, peak, highest, store, ask, runs, inFrame, cancelled, fill, toRead,
                     heldTiles, evaluated>>
  BY DEF Run, counters, queryVars
<1>2. Apart(q) /\ doing'[q] = "reads"
  BY <1>1, SameTurns, GoesTurns, ApartOne DEF BudgetInv
<1>3. AskSound(q, doing'[q], ask'[q], runs'[q])
  BY <1>1, <1>2, QueryAsk DEF BudgetInv, EachSound
<1>4. QuerySound(doing'[q], fill'[q], toRead'[q], heldTiles'[q], evaluated'[q])
  BY <1>1, <1>2, QueryKept
<1>5. /\ RunNow(q, doing'[q], runs'[q], fill'[q]) = RunNow(q, doing[q], runs[q], fill[q])
      /\ HeldNow(q, doing'[q], heldTiles'[q]) = HeldNow(q, doing[q], heldTiles[q])
  <2>1. q \notin Renders
    BY DEF TileBudgetAssumption
  <2> QED BY <1>1, <1>2, <2>1 DEF RunNow, HeldNow, UnderNow
<1>6. doing[q] \notin {"raises", "holds"} /\ doing'[q] \notin {"raises", "holds"}
  BY <1>1, <1>2
<1> QED BY <1>1, <1>2, <1>3, <1>4, <1>5, <1>6, QuerySame

LEMMA EvaluatedStays ==
    ASSUME TileBudgetAssumption, BudgetInv, NEW q \in Queries, q \in Evaluations, Evaluated(q)
    PROVE  BudgetInv'
<1>1. /\ doing[q] = "reads" /\ fill[q] # <<>> /\ Goes(q, "releases")
      /\ used' = used - WorkingBytes[q]
      /\ evaluated' = [evaluated EXCEPT ![q] = Append(@, Inner(q).tile)]
      /\ UNCHANGED <<peak, highest, store, ask, runs, inFrame, cancelled, fill, toRead,
                     heldTiles>>
  BY DEF Evaluated
<1>2. Turns(evaluated, evaluated', q, Queries) /\ evaluated'[q] = Append(evaluated[q], Innermost(fill[q]))
  <2>1. Inner(q).tile = Innermost(fill[q])
    BY NextOf
  <2> QED BY <1>1, <2>1 DEF BudgetInv, Shaped, Turns
<1>3. Apart(q) /\ doing'[q] = "releases"
  BY <1>1, <1>2, SameTurns, GoesTurns, ApartOne DEF BudgetInv
<1>4. QuerySound("reads", fill[q], toRead[q], heldTiles[q], evaluated[q])
  BY <1>1 DEF BudgetInv, EachSound, QuerySoundOf
<1>5. QuerySound("releases", fill[q], toRead[q], heldTiles[q], evaluated'[q])
  BY <1>1, <1>2, <1>4, QueryEvaluates
<1>6. QuerySound(doing'[q], fill'[q], toRead'[q], heldTiles'[q], evaluated'[q])
  BY <1>1, <1>3, <1>5
<1>7. AskSound(q, doing'[q], ask'[q], runs'[q])
  BY <1>1, <1>3, QueryAsk DEF BudgetInv, EachSound
<1>8. /\ used \in Nat /\ WorkingBytes[q] \in Nat \ {0} /\ TileBytes \in Nat
      /\ Len(fill[q]) \in Nat /\ Len(heldTiles[q]) \in Nat
  BY <1>4, QueryLengths, Sizes DEF BudgetInv
<1>9. Balanced(q)
  <2>1. /\ RunNow(q, doing[q], runs[q], fill[q]) = (Len(fill[q]) - 0) * WorkingBytes[q]
        /\ HeldNow(q, doing[q], heldTiles[q]) = (Len(heldTiles[q]) + 0) * TileBytes
    BY <1>1, QueryAmounts, QueryHoldings
  <2>2. /\ RunNow(q, doing'[q], runs'[q], fill'[q]) = (Len(fill[q]) - 1) * WorkingBytes[q]
        /\ HeldNow(q, doing'[q], heldTiles'[q]) = (Len(heldTiles[q]) + 0) * TileBytes
    BY <1>1, <1>3, QueryAmounts, QueryHoldings
  <2> DEFINE f == Len(fill[q])  w == WorkingBytes[q]  h == (Len(heldTiles[q]) + 0) * TileBytes
             u == used
  <2>3. f \in Int /\ w \in Int /\ h \in Int /\ u \in Int
    <3>1. Len(heldTiles[q]) + 0 \in Nat
      BY <1>8
    <3> QED BY <1>8, <3>1, ProductNatural
  <2>4. (u - w) + ((f - 0) * w + h) = u + ((f - 1) * w + h)
    <3> HIDE DEF f, w, h, u
    <3> QED BY ONLY <2>3, Z3
  <2> QED BY <1>1, <2>1, <2>2, <2>4 DEF Balanced
<1>10. used' \in Int /\ used' <= used
  BY <1>1, <1>8
<1>11. doing[q] \notin {"raises", "holds"} /\ doing'[q] \notin {"raises", "holds"}
  BY <1>1, <1>3
<1> QED BY <1>1, <1>3, <1>6, <1>7, <1>9, <1>10, <1>11, QueryMoves

\* The use covers what a query holds.
LEMMA UsedCovers ==
    ASSUME TileBudgetAssumption, BudgetInv, NEW e \in Evaluations
    PROVE  /\ HeldNow(e, doing[e], heldTiles[e]) \in Nat
           /\ HeldNow(e, doing[e], heldTiles[e]) <= used
<1>1. /\ RunBytes \in [Evaluations -> Nat] /\ HeldBytes \in [Evaluations -> Nat]
      /\ IsFiniteSet(Evaluations)
  BY BytesTyped DEF BudgetInv, TileBudgetAssumption
<1>2. /\ Cardinality(Heaps(HeldBytes, Evaluations))
          = Cardinality(Heaps(HeldBytes, Evaluations \ {e})) + HeldBytes[e]
      /\ Cardinality(Heaps(HeldBytes, Evaluations \ {e})) \in Nat
  BY <1>1, HeapsSplit
<1>3. Together(HeldBytes) = Cardinality(Heaps(HeldBytes, Evaluations))
  BY TogetherIsHeaps
<1>4. Together(RunBytes) \in Nat /\ used = Together(RunBytes) + Together(HeldBytes)
  BY <1>1, TogetherType DEF BudgetInv, UsedIsReserved
<1>5. HeldBytes[e] \in Nat /\ HeldBytes[e] = HeldNow(e, doing[e], heldTiles[e])
  BY <1>1, RunBytesNow
<1> QED BY <1>2, <1>3, <1>4, <1>5

LEMMA MakeRoomStays ==
    ASSUME TileBudgetAssumption, BudgetInv, NEW q \in Queries, q \in Evaluations, MakeRoom(q)
    PROVE  BudgetInv'
<1>1. /\ doing[q] = "releases" /\ Goes(q, "charges")
      /\ heldTiles' = [heldTiles EXCEPT ![q] = Truncated(@)]
      /\ used' = used - (Len(heldTiles[q]) - Len(heldTiles'[q])) * TileBytes
      /\ ask' = [ask EXCEPT ![q] = [bytes |-> TileBytes, wanted |-> 1, seen |-> used']]
      /\ UNCHANGED <<peak, highest, store, runs, inFrame, cancelled, fill, toRead, evaluated>>
  BY DEF MakeRoom
<1>2. Turns(heldTiles, heldTiles', q, Queries) /\ heldTiles'[q] = Truncated(heldTiles[q])
  BY <1>1 DEF BudgetInv, Shaped, Turns
<1>3. Turns(ask, ask', q, Evaluations)
      /\ ask'[q] = [bytes |-> TileBytes, wanted |-> 1, seen |-> used']
  BY <1>1 DEF BudgetInv, Shaped, Turns
<1>4. Apart(q) /\ doing'[q] = "charges"
  BY <1>1, <1>2, <1>3, SameTurns, GoesTurns, ApartOne DEF BudgetInv
<1>5. QuerySound("releases", fill[q], toRead[q], heldTiles[q], evaluated[q])
  BY <1>1 DEF BudgetInv, EachSound, QuerySoundOf
<1>6. /\ QuerySound("charges", fill[q], toRead[q], heldTiles'[q], evaluated[q])
      /\ Len(heldTiles'[q]) \in 0 .. Len(heldTiles[q])
  BY <1>2, <1>5, QueryMakesRoom
<1>7. QuerySound(doing'[q], fill'[q], toRead'[q], heldTiles'[q], evaluated'[q])
  BY <1>1, <1>4, <1>6
<1>8. /\ used \in Nat /\ WorkingBytes[q] \in Nat /\ TileBytes \in Nat \ {0}
      /\ Len(fill[q]) \in Nat /\ Len(heldTiles[q]) \in Nat
  BY <1>5, QueryLengths, Sizes DEF BudgetInv
<1> DEFINE h == Len(heldTiles[q])  k == Len(heldTiles'[q])  t == TileBytes
<1>9. h \in Nat /\ k \in Nat /\ k <= h /\ t \in Nat
  BY <1>6, <1>8
<1>10. /\ (h - k) * t \in Nat /\ (h - k) * t <= (h + 0) * t /\ (h - k) * t + (k + 0) * t = (h + 0) * t
       /\ (k + 0) * t \in Nat
  <2> HIDE DEF h, k, t
  <2>1. (h - k) * t \in Nat /\ (k + 0) * t \in Nat
    <3>1. h - k \in Nat /\ k + 0 \in Nat
      BY <1>9
    <3> QED BY <1>9, <3>1, ProductNatural
  <2>2. (h - k) * t + (k + 0) * t = (h + 0) * t
    BY ONLY <1>9, Z3
  <2>3. (h + 0) * t \in Nat
    <3>1. h + 0 \in Nat
      BY <1>9
    <3> QED BY <1>9, <3>1, ProductNatural
  <2> QED BY <2>1, <2>2, <2>3
<1>11. HeldNow(q, doing[q], heldTiles[q]) = (h + 0) * t /\ (h + 0) * t <= used
  BY <1>1, QueryHoldings, UsedCovers
<1>12. HeldNow(q, doing'[q], heldTiles'[q]) = (k + 0) * t
  BY <1>4, QueryHoldings
<1>13. used' = used - (h - k) * t
  BY <1>1
<1>14. RunNow(q, doing'[q], runs'[q], fill'[q]) = RunNow(q, doing[q], runs[q], fill[q])
       /\ RunNow(q, doing[q], runs[q], fill[q]) \in Nat
  <2>1. q \notin Renders
    BY DEF TileBudgetAssumption
  <2>2. UnderNow(doing'[q], fill'[q]) = UnderNow(doing[q], fill[q])
    BY <1>1, <1>4 DEF UnderNow
  <2>3. RunNow(q, doing[q], runs[q], fill[q]) \in Nat
    BY NowNatural DEF BudgetInv, EachSound, QuerySoundOf
  <2> QED BY <2>1, <2>2, <2>3 DEF RunNow
<1> HIDE DEF h, k, t
<1>15. used' \in Nat /\ used' <= used
  BY <1>8, <1>10, <1>11, <1>13
<1>16. Balanced(q)
  <2>1. HeldNow(q, doing'[q], heldTiles'[q]) \in Nat /\ HeldNow(q, doing[q], heldTiles[q]) \in Nat
    BY <1>10, <1>11, <1>12, UsedCovers
  <2>2. used' + HeldNow(q, doing[q], heldTiles[q]) = used + HeldNow(q, doing'[q], heldTiles'[q])
    BY <1>8, <1>10, <1>11, <1>12, <1>13
  <2> QED BY <1>8, <1>14, <1>15, <2>1, <2>2 DEF Balanced
<1>17. AskSound(q, doing'[q], ask'[q], runs'[q])
  <2>1. runs'[q] \in Nat
    BY <1>1 DEF BudgetInv, EachSound, AskSound
  <2> QED BY <1>3, <1>4, <1>8, <1>15, <2>1 DEF AskSound
<1>18. doing[q] \notin {"raises", "holds"} /\ doing'[q] \notin {"raises", "holds"} /\ used' \in Int
  BY <1>1, <1>4, <1>15
<1> QED BY <1>1, <1>4, <1>7, <1>15, <1>16, <1>17, <1>18, QueryMoves

LEMMA HoldStays ==
    ASSUME TileBudgetAssumption, BudgetInv, NEW q \in Queries, q \in Evaluations, Hold(q)
    PROVE  BudgetInv'
<1> DEFINE w == Popped(fill[q])
<1>1. /\ doing[q] = "stores" /\ Goes(q, "reads")
      /\ heldTiles' = [heldTiles EXCEPT ![q] = <<Inner(q).tile>> \o @]
      /\ Advances(q, w)
      /\ UNCHANGED <<used, peak, highest, store, ask, runs, inFrame, cancelled, evaluated>>
  BY DEF Hold, counters
<1>2. /\ Turns(heldTiles, heldTiles', q, Queries)
      /\ heldTiles'[q] = <<Innermost(fill[q])>> \o heldTiles[q]
  <2>1. Inner(q).tile = Innermost(fill[q])
    BY NextOf
  <2> QED BY <1>1, <2>1 DEF BudgetInv, Shaped, Turns
<1> HIDE DEF w
<1>3. /\ Turns(fill, fill', q, Queries) /\ fill'[q] = ReadOne(w)
      /\ Turns(toRead, toRead', q, Queries) /\ toRead'[q] = ReadOn(w, toRead[q])
  BY <1>1, AdvancesTurns DEF BudgetInv
<1>4. Apart(q) /\ doing'[q] = "reads"
  BY <1>1, <1>2, <1>3, SameTurns, GoesTurns, ApartOne DEF BudgetInv
<1>5. QuerySound("stores", fill[q], toRead[q], heldTiles[q], evaluated[q])
  BY <1>1 DEF BudgetInv, EachSound, QuerySoundOf
<1>6. /\ QuerySound("reads", fill'[q], toRead'[q], heldTiles'[q], evaluated[q])
      /\ Len(heldTiles'[q]) = Len(heldTiles[q]) + 1 /\ Len(fill'[q]) = Len(fill[q]) - 1
  <2>1. w = Popped(fill[q])
    BY DEF w
  <2>2. /\ fill'[q] = ReadOne(w) /\ toRead'[q] = ReadOn(w, toRead[q])
        /\ heldTiles'[q] = <<Innermost(fill[q])>> \o heldTiles[q]
    BY <1>2, <1>3
  <2>3. /\ QuerySound("reads", ReadOne(Popped(fill[q])), ReadOn(Popped(fill[q]), toRead[q]),
                       <<Innermost(fill[q])>> \o heldTiles[q], evaluated[q])
        /\ Len(<<Innermost(fill[q])>> \o heldTiles[q]) = Len(heldTiles[q]) + 1
        /\ Len(ReadOne(Popped(fill[q]))) = Len(fill[q]) - 1
    BY <1>5, QueryHolds
  <2> QED BY ONLY <2>1, <2>2, <2>3
<1>7. QuerySound(doing'[q], fill'[q], toRead'[q], heldTiles'[q], evaluated'[q])
  BY <1>1, <1>4, <1>6
<1>8. AskSound(q, doing'[q], ask'[q], runs'[q])
  BY <1>1, <1>4, QueryAsk DEF BudgetInv, EachSound
<1>9. Len(fill[q]) \in Nat /\ Len(heldTiles[q]) \in Nat
  BY <1>5, QueryLengths
<1>10. RunNow(q, doing'[q], runs'[q], fill'[q]) = RunNow(q, doing[q], runs[q], fill[q])
  <2>1. q \notin Renders
    BY DEF TileBudgetAssumption
  <2>2. UnderNow(doing'[q], fill'[q]) = UnderNow(doing[q], fill[q])
    BY <1>1, <1>4, <1>6, <1>9 DEF UnderNow
  <2> QED BY <2>1, <2>2 DEF RunNow
<1>11. HeldNow(q, doing'[q], heldTiles'[q]) = HeldNow(q, doing[q], heldTiles[q])
  <2>1. HeldNow(q, doing[q], heldTiles[q]) = (Len(heldTiles[q]) + 1) * TileBytes
    BY <1>1, QueryHoldings
  <2>2. HeldNow(q, doing'[q], heldTiles'[q]) = (Len(heldTiles'[q]) + 0) * TileBytes
    BY <1>4, QueryHoldings
  <2>3. Len(heldTiles'[q]) + 0 = Len(heldTiles[q]) + 1
    BY <1>6, <1>9
  <2> QED BY <2>1, <2>2, <2>3
<1>12. doing[q] \notin {"raises", "holds"} /\ doing'[q] \notin {"raises", "holds"}
  BY <1>1, <1>4
<1> QED BY <1>1, <1>4, <1>7, <1>8, <1>10, <1>11, <1>12, QuerySame

LEMMA AnsweredStays ==
    ASSUME TileBudgetAssumption, BudgetInv, NEW q \in Queries, q \in Evaluations, Answered(q)
    PROVE  BudgetInv'
<1>1. /\ doing[q] = "reads" /\ Goes(q, "done")
      /\ used' = used - Len(heldTiles[q]) * TileBytes
      /\ heldTiles' = [heldTiles EXCEPT ![q] = <<>>]
      /\ UNCHANGED <<peak, highest, store, ask, runs, inFrame, cancelled, fill, toRead, evaluated>>
  BY DEF Answered
<1>2. Turns(heldTiles, heldTiles', q, Queries) /\ heldTiles'[q] = <<>>
  BY <1>1 DEF BudgetInv, Shaped, Turns
<1>3. Apart(q) /\ doing'[q] = "done"
  BY <1>1, <1>2, SameTurns, GoesTurns, ApartOne DEF BudgetInv
<1>4. QuerySound("reads", fill[q], toRead[q], heldTiles[q], evaluated[q])
  BY <1>1 DEF BudgetInv, EachSound, QuerySoundOf
<1>5. QuerySound(doing'[q], fill'[q], toRead'[q], heldTiles'[q], evaluated'[q])
  <2>1. QuerySound("done", fill[q], toRead[q], <<>>, evaluated[q])
    BY <1>4, QueryAnswers
  <2> QED BY <1>1, <1>2, <1>3, <2>1
<1>6. AskSound(q, doing'[q], ask'[q], runs'[q])
  BY <1>1, <1>3, QueryAsk DEF BudgetInv, EachSound
<1>7. used \in Nat /\ TileBytes \in Nat /\ Len(heldTiles[q]) \in Nat
  BY <1>4, QueryLengths, Sizes DEF BudgetInv
<1>8. /\ HeldNow(q, doing[q], heldTiles[q]) = Len(heldTiles[q]) * TileBytes
      /\ Len(heldTiles[q]) * TileBytes \in Nat
  <2>1. HeldNow(q, doing[q], heldTiles[q]) = (Len(heldTiles[q]) + 0) * TileBytes
    BY <1>1, QueryHoldings
  <2>2. Len(heldTiles[q]) + 0 = Len(heldTiles[q])
    BY <1>7
  <2> QED BY <1>7, <2>1, <2>2, ProductNatural
<1>9. HeldNow(q, doing'[q], heldTiles'[q]) = 0
  <2>1. HeldNow(q, doing'[q], heldTiles'[q]) = (Len(heldTiles'[q]) + 0) * TileBytes
    BY <1>3, QueryHoldings
  <2>2. Len(heldTiles'[q]) + 0 = 0
    BY <1>2
  <2>3. 0 * TileBytes = 0
    BY <1>7
  <2> QED BY <2>1, <2>2, <2>3
<1>10. RunNow(q, doing'[q], runs'[q], fill'[q]) = RunNow(q, doing[q], runs[q], fill[q])
       /\ RunNow(q, doing[q], runs[q], fill[q]) \in Nat
  <2>1. q \notin Renders
    BY DEF TileBudgetAssumption
  <2>2. UnderNow(doing'[q], fill'[q]) = UnderNow(doing[q], fill[q])
    BY <1>1, <1>3 DEF UnderNow
  <2>3. RunNow(q, doing[q], runs[q], fill[q]) \in Nat
    BY NowNatural DEF BudgetInv, EachSound, QuerySoundOf
  <2> QED BY <2>1, <2>2, <2>3 DEF RunNow
<1>11. used' \in Int /\ used' <= used
  BY <1>1, <1>7, <1>8
<1>12. Balanced(q)
  BY <1>1, <1>7, <1>8, <1>9, <1>10 DEF Balanced
<1>13. doing[q] \notin {"raises", "holds"} /\ doing'[q] \notin {"raises", "holds"}
  BY <1>1, <1>3
<1> QED BY <1>1, <1>3, <1>5, <1>6, <1>11, <1>12, <1>13, QueryMoves

\* ------------------------------------------------- every step ----

LEMMA BudgetStarts ==
    ASSUME TileBudgetAssumption, BudgetInit
    PROVE  BudgetInv
<1>1. Shaped
  BY DEF BudgetInit, Shaped
<1>2. ASSUME NEW e \in Evaluations
      PROVE  /\ doing[e] = (IF e \in Renders THEN "looks" ELSE "idle")
             /\ ask[e] = NoAsk /\ runs[e] = 0
  BY DEF BudgetInit
<1>3. ASSUME NEW e \in Evaluations PROVE AskSound(e, doing[e], ask[e], runs[e])
  BY <1>2 DEF AskSound, NoAsk
<1>4. ASSUME NEW r \in Renders PROVE RenderSound(r, doing[r], ask[r], runs[r], inFrame[r])
  <2>1. doing[r] = "looks" /\ inFrame[r] = <<>> /\ TileCount[r] \in Nat
    BY DEF BudgetInit, Evaluations, TileBudgetAssumption
  <2>2. <<>> \in Seq(Nat) /\ Len(<<>>) = 0 /\ <<>> = [i \in 1 .. 0 |-> i]
    OBVIOUS
  <2> QED BY <2>1, <2>2 DEF RenderSound, Ended
<1>5. ASSUME NEW q \in Queries PROVE QuerySoundOf(q)
  <2>1. /\ doing[q] = "idle" /\ fill[q] = <<>> /\ toRead[q] = <<>> /\ heldTiles[q] = <<>>
        /\ evaluated[q] = <<>>
    BY DEF BudgetInit, Evaluations, TileBudgetAssumption
  <2>2. /\ \A S : <<>> \in Seq(S)
        /\ Range(<<>>) = {} /\ IsInjective(<<>>) /\ Len(<<>>) = 0 /\ DOMAIN <<>> = {}
    BY DEF Range, IsInjective
  <2>3. QueryShape("idle", <<>>, <<>>)
    BY <2>2, EmptyStack DEF QueryShape, Busy, Late
  <2>4. QueryHeld("idle", <<>>, <<>>, <<>>)
    BY <2>2, CapacityType DEF QueryHeld, Late
  <2>5. QueryOnce("idle", <<>>, <<>>, <<>>)
    BY <2>2 DEF QueryOnce
  <2>6. QueryCone(<<>>, <<>>, <<>>)
    <3>1. PICK p : p \in Points
      BY DEF TileBudgetAssumption
    <3> QED BY <2>2, <3>1 DEF QueryCone, InCone
  <2> QED BY <2>1, <2>3, <2>4, <2>5, <2>6 DEF QuerySoundOf, QuerySound
<1>6. EachSound
  BY <1>3, <1>4, <1>5 DEF EachSound
<1>7. SharedSound
  <2>1. store = <<>> /\ cancelled = {} /\ StoreEntries \in Nat
    BY DEF BudgetInit, TileBudgetAssumption
  <2>2. <<>> \in Seq(Range(KeyOf)) /\ IsInjective(<<>>) /\ Len(<<>>) = 0
    BY DEF IsInjective
  <2> QED BY <2>1, <2>2 DEF SharedSound
<1>8. used = 0 /\ peak = 0 /\ highest = 0
  BY DEF BudgetInit
<1>9. ASSUME NEW e \in Evaluations
      PROVE  RunNow(e, doing[e], runs[e], fill[e]) = 0 /\ HeldNow(e, doing[e], heldTiles[e]) = 0
  <2>1. CASE e \in Renders
    BY <1>2, <2>1, RenderAmounts
  <2>2. CASE e \notin Renders
    <3>1. e \in Queries /\ doing[e] = "idle" /\ Len(fill[e]) = 0 /\ Len(heldTiles[e]) = 0
      BY <2>2 DEF BudgetInit, Evaluations
    <3>2. /\ RunNow(e, doing[e], runs[e], fill[e]) = (Len(fill[e]) - 0) * WorkingBytes[e]
          /\ HeldNow(e, doing[e], heldTiles[e]) = (Len(heldTiles[e]) + 0) * TileBytes
      BY <3>1, QueryAmounts, QueryHoldings
    <3>3. 0 * WorkingBytes[e] = 0 /\ 0 * TileBytes = 0
      BY Sizes
    <3> QED BY <3>1, <3>2, <3>3
  <2> QED BY <2>1, <2>2
<1>10. /\ RunBytes \in [Evaluations -> Nat] /\ HeldBytes \in [Evaluations -> Nat]
       /\ Overshoot \in [Evaluations -> Nat]
  BY <1>6, BytesTyped
<1>11. Together(RunBytes) = 0 /\ Together(HeldBytes) = 0
  <2>1. \A e \in Evaluations : RunBytes[e] = 0 /\ HeldBytes[e] = 0
    BY <1>9, RunBytesNow
  <2> QED BY <1>10, <2>1, TogetherNothing
<1>12. UsedIsReserved /\ Paced
  <2>1. Together(Overshoot) \in Nat /\ TargetBytes \in Nat
    BY <1>10, TogetherType DEF TileBudgetAssumption
  <2> QED BY <1>8, <1>11, <2>1 DEF UsedIsReserved, Paced
<1>13. Peaks
  BY <1>2, <1>8 DEF Peaks, Raising
<1> QED BY <1>1, <1>6, <1>7, <1>8, <1>12, <1>13 DEF BudgetInv

LEMMA WorkingStays ==
    ASSUME TileBudgetAssumption, BudgetInv, NEW e \in Evaluations, Working(e)
    PROVE  BudgetInv'
<1>1. CASE Swap(e)
  BY <1>1, SwapStays
<1>2. CASE SwapFails(e)
  BY <1>2, SwapFailsStays
<1>3. CASE Raise(e)
  BY <1>3, RaiseStays
<1>4. CASE e \in Renders /\ Rendering(e)
  <2>1. CASE Look(e)
    BY <1>4, <2>1, LookStays
  <2>2. CASE Remember(e)
    BY <1>4, <2>2, RememberStays
  <2>3. CASE Check(e)
    BY <1>4, <2>3, CheckStays
  <2>4. CASE BatchWritten(e)
    BY <1>4, <2>4, BatchWrittenStays
  <2>5. CASE BatchFails(e)
    BY <1>4, <2>5, BatchFailsStays
  <2> QED BY <1>4, <2>1, <2>2, <2>3, <2>4, <2>5 DEF Rendering
<1>5. CASE e \in Queries /\ Querying(e)
  <2>1. CASE BeginQuery(e)
    BY <1>5, <2>1, BeginStays
  <2>2. CASE Hit(e)
    BY <1>5, <2>2, HitStays
  <2>3. CASE Miss(e)
    BY <1>5, <2>3, MissStays
  <2>4. CASE Run(e)
    BY <1>5, <2>4, RunStays
  <2>5. CASE Evaluated(e)
    BY <1>5, <2>5, EvaluatedStays
  <2>6. CASE MakeRoom(e)
    BY <1>5, <2>6, MakeRoomStays
  <2>7. CASE Hold(e)
    BY <1>5, <2>7, HoldStays
  <2>8. CASE Answered(e)
    BY <1>5, <2>8, AnsweredStays
  <2> QED BY <1>5, <2>1, <2>2, <2>3, <2>4, <2>5, <2>6, <2>7, <2>8 DEF Querying
<1> QED BY <1>1, <1>2, <1>3, <1>4, <1>5 DEF Working

LEMMA BudgetStays ==
    ASSUME TileBudgetAssumption, BudgetInv, [BudgetNext]_budgetVars
    PROVE  BudgetInv'
<1>1. ASSUME UNCHANGED budgetVars PROVE BudgetInv'
  <2>1. UNCHANGED <<used, peak, highest, store, doing, ask, runs, inFrame, cancelled, fill, toRead,
                    heldTiles, evaluated>>
    BY <1>1 DEF budgetVars
  <2>2. SharedSound'
    BY <2>1, SameShared DEF BudgetInv
  <2> QED BY <2>1, <2>2, NothingMoves
<1>2. ASSUME NEW e \in Evaluations, Working(e) PROVE BudgetInv'
  BY <1>2, WorkingStays
<1>3. ASSUME NEW r \in Renders, Cancel(r) PROVE BudgetInv'
  BY <1>3, CancelStays
<1> QED BY <1>1, <1>2, <1>3 DEF BudgetNext

\* ------------------------------------------------- what it means ----

LEMMA BudgetTyped ==
    ASSUME TileBudgetAssumption, BudgetInv
    PROVE  BudgetTypeOK
<1>1. Shaped /\ EachSound /\ SharedSound /\ used \in Nat /\ peak \in Nat /\ highest \in Nat
  BY DEF BudgetInv
<1>2. ASSUME NEW e \in Evaluations
      PROVE  /\ doing[e] \in {"idle", "looks", "remembers", "checks", "reserves", "raises", "runs",
                              "reads", "releases", "charges", "holds", "stores"} \union Ended
             /\ ask[e] \in [bytes : Nat, wanted : Nat, seen : Nat] /\ runs[e] \in Nat
  <2>1. AskSound(e, doing[e], ask[e], runs[e])
    BY <1>1 DEF EachSound
  <2>2. CASE e \in Renders
    <3>1. RenderSound(e, doing[e], ask[e], runs[e], inFrame[e])
      BY <1>1, <2>2 DEF EachSound
    <3> QED BY <2>1, <3>1 DEF RenderSound, AskSound
  <2>3. CASE e \in Queries
    <3>1. QueryShape(doing[e], fill[e], toRead[e])
      BY <1>1, <2>3 DEF EachSound, QuerySoundOf, QuerySound
    <3> QED BY <2>1, <3>1 DEF QueryShape, Busy, Late, AskSound, Ended
  <2> QED BY <2>2, <2>3 DEF Evaluations
<1>3. ASSUME NEW r \in Renders PROVE inFrame[r] \in Seq(Nat)
  BY <1>1 DEF EachSound, RenderSound
<1>4. ASSUME NEW q \in Queries
      PROVE  /\ fill[q] \in Seq([tile : SegmentTiles, reads : Seq(SegmentTiles)])
             /\ toRead[q] \in Seq(SegmentTiles) /\ heldTiles[q] \in Seq(SegmentTiles)
             /\ evaluated[q] \in Seq(SegmentTiles)
  <2>1. /\ StackRight(fill[q]) /\ toRead[q] \in Seq(OfSegment(Segments))
        /\ heldTiles[q] \in Seq(SegmentTiles) /\ evaluated[q] \in Seq(SegmentTiles)
    BY <1>1 DEF EachSound, QuerySoundOf, QuerySound, QueryShape, QueryHeld
  <2> QED BY <2>1, OfSegmentTiles DEF StackRight, Filling
<1>5. /\ doing \in [Evaluations -> {"idle", "looks", "remembers", "checks", "reserves", "raises",
                       "runs", "reads", "releases", "charges", "holds", "stores"} \union Ended]
      /\ ask \in [Evaluations -> [bytes : Nat, wanted : Nat, seen : Nat]]
      /\ runs \in [Evaluations -> Nat]
  BY <1>1, <1>2 DEF Shaped
<1>6. inFrame \in [Renders -> Seq(Nat)]
  BY <1>1, <1>3 DEF Shaped
<1>7. /\ fill \in [Queries -> Seq([tile : SegmentTiles, reads : Seq(SegmentTiles)])]
      /\ {toRead, heldTiles, evaluated} \subseteq [Queries -> Seq(SegmentTiles)]
  BY <1>1, <1>4 DEF Shaped
<1> QED BY <1>1, <1>5, <1>6, <1>7 DEF BudgetTypeOK, SharedSound

LEMMA BudgetPaced ==
    ASSUME TileBudgetAssumption, BudgetInv
    PROVE  PacedByTarget
<1> DEFINE most == [e \in Evaluations |->
                      IF e \in Renders THEN WorkingBytes[e] ELSE Segments * WorkingBytes[e]]
<1>1. /\ RunBytes \in [Evaluations -> Nat] /\ HeldBytes \in [Evaluations -> Nat]
      /\ Overshoot \in [Evaluations -> Nat]
  BY BytesTyped DEF BudgetInv
<1>2. ASSUME NEW e \in Evaluations PROVE most[e] \in Nat /\ Overshoot[e] <= most[e]
  <2>1. WorkingBytes[e] \in Nat /\ Segments \in Nat
    BY Sizes DEF TileBudgetAssumption
  <2>2. Overshoot[e] = OverNow(e, doing[e], fill[e])
    BY DEF Overshoot
  <2>3. CASE e \in Renders
    BY <2>1, <2>2, <2>3 DEF OverNow
  <2>4. CASE e \notin Renders
    <3>1. UnderNow(doing[e], fill[e]) \in Nat /\ UnderNow(doing[e], fill[e]) <= Segments
      <4>1. e \in Queries /\ QuerySound(doing[e], fill[e], toRead[e], heldTiles[e], evaluated[e])
            /\ AskSound(e, doing[e], ask[e], runs[e])
        BY <2>4, Sizes DEF BudgetInv, EachSound, QuerySoundOf
      <4> QED BY <4>1, NowNatural
    <3>2. ASSUME NEW a \in Nat, NEW b \in Nat, NEW c \in Nat, a <= b
          PROVE  a * c <= b * c /\ b * c \in Nat
      BY <3>2, Z3
    <3> QED BY <2>1, <2>2, <2>4, <3>1, <3>2 DEF OverNow
  <2> QED BY <2>3, <2>4
<1>3. most \in [Evaluations -> Nat]
  BY <1>2
<1> HIDE DEF most
<1>4. Together(Overshoot) <= Together(most)
  BY <1>1, <1>2, <1>3, TogetherLess
<1>5. /\ Together(Overshoot) \in Nat /\ Together(most) \in Nat /\ Together(RunBytes) \in Nat
      /\ Together(HeldBytes) \in Nat /\ TargetBytes \in Nat
  BY <1>1, <1>3, TogetherType DEF TileBudgetAssumption
<1>6. used = Together(RunBytes) + Together(HeldBytes)
      /\ Together(RunBytes) <= TargetBytes + Together(Overshoot)
  BY DEF BudgetInv, UsedIsReserved, Paced
<1>7. used - Together(HeldBytes) <= TargetBytes + Together(most)
  BY <1>4, <1>5, <1>6
<1> QED BY <1>7 DEF PacedByTarget, most

LEMMA BudgetIsSound ==
    ASSUME TileBudgetAssumption, BudgetInv
    PROVE  BudgetSound
<1>1. EachSound /\ SharedSound /\ Peaks /\ UsedIsReserved
  BY DEF BudgetInv
<1>2. PeakIsHighest
  BY <1>1 DEF Peaks, PeakIsHighest, Raising
<1>3. TilesInOrder
  BY <1>1 DEF EachSound, RenderSound, TilesInOrder
<1>4. StoreSound
  BY <1>1 DEF SharedSound, StoreSound
<1>5. ASSUME NEW q \in Queries
      PROVE  /\ QueryHeld(doing[q], fill[q], heldTiles[q], evaluated[q])
             /\ QueryOnce(doing[q], fill[q], heldTiles[q], evaluated[q])
             /\ QueryCone(fill[q], toRead[q], evaluated[q])
  BY <1>1 DEF EachSound, QuerySoundOf, QuerySound
<1>6. EvaluatedOnce
  BY <1>5 DEF EvaluatedOnce, QueryOnce
<1>7. HeldWithinCapacity
  BY <1>5 DEF HeldWithinCapacity, QueryHeld
<1>8. PointCost
  <2> SUFFICES ASSUME NEW q \in Queries
               PROVE  \E p \in Points : Cardinality(Range(evaluated[q]))
                                          <= Cardinality(Range(p)) * Cardinality(Cells)
    BY DEF PointCost
  <2>1. PICK p \in Points : Range(evaluated[q]) \subseteq Cone(p)
    BY <1>5 DEF QueryCone, InCone
  <2>2. p \in Seq(Positions)
    BY DEF TileBudgetAssumption
  <2> QED BY <2>1, <2>2, ConeSize
<1> QED BY <1>1, <1>2, <1>3, <1>4, <1>6, <1>7, <1>8, BudgetTyped, BudgetPaced DEF BudgetSound

\* The budget is true of every number of renders and queries, of every target, working
\* set and stage (render/context.rs SpatialBudget, render/spatial.rs run_batches and
\* PointTiles): see BudgetSound.
THEOREM BudgetCorrect ==
    ASSUME TileBudgetAssumption PROVE BudgetSpec => []BudgetSound
<1>1. BudgetInit => BudgetInv
  BY BudgetStarts
<1>2. BudgetInv /\ [BudgetNext]_budgetVars => BudgetInv'
  BY BudgetStays
<1>3. BudgetInv => BudgetSound
  BY BudgetIsSound
<1> QED BY <1>1, <1>2, <1>3, PTL DEF BudgetSpec
=============================================================================
