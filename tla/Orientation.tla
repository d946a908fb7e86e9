----------------------------- MODULE Orientation -----------------------------
(***************************************************************************)
(* The exact orientations (modules/transform.rs) and the integer mappings  *)
(* they compile to (render.rs).                                            *)
(*                                                                         *)
(* An orientation is a reflection that may be made first and a number of   *)
(* clockwise quarter turns that follow it. Four actions move between the   *)
(* eight of them. Each compiles, for a stage of a width and a height, to a *)
(* mapping of its pixels: (x, y) goes to (a x + b y + tx, c x + d y + ty). *)
(***************************************************************************)
EXTENDS Integers

Transforms == {"RotateRight", "RotateLeft", "MirrorHorizontal", "FlipVertical"}
Orientations == [mirror : 0..1, turns : 0..3]   \* the flag "mirror" as 0 or 1
Neutral == [mirror |-> 0, turns |-> 0]

-----------------------------------------------------------------------------
\* The algebra.

Oriented(mirror, turns) == [mirror |-> mirror, turns |-> turns]

Reflections == {"MirrorHorizontal", "FlipVertical"}

\* The quarter turns an action adds; a flip is a mirror and a half turn.
Quarters(t) ==
    IF t = "RotateRight" THEN 1
    ELSE IF t = "RotateLeft" THEN 3
    ELSE IF t = "MirrorHorizontal" THEN 4 ELSE 6

\* A bug for the mutants: a reflection leaves the turns made before it as they are.
UnreversedThen(o, t) ==
    Oriented(IF t \in Reflections THEN 1 - o.mirror ELSE o.mirror, (o.turns + Quarters(t)) % 4)

\* The orientation reached by one action: a reflection also reverses the
\* direction of the turns before it.
Then(o, t) ==
    IF t \in Reflections THEN Oriented(1 - o.mirror, (Quarters(t) - o.turns) % 4)
    ELSE Oriented(o.mirror, (o.turns + Quarters(t)) % 4)

Of(t) == Then(Neutral, t)

\* The same quarter turn, n times.
Turned(o, n, t) ==
    LET half == IF n \in {2, 3} THEN Then(Then(o, t), t) ELSE o
    IN  IF n \in {1, 3} THEN Then(half, t) ELSE half

\* One orientation and then another.
FollowedBy(o, next) ==
    Turned(IF next.mirror = 1 THEN Then(o, "MirrorHorizontal") ELSE o, next.turns, "RotateRight")

\* The one that undoes it: its turns back, then its reflection.
InverseOf(o) ==
    LET unturned == Turned(Neutral, o.turns, "RotateLeft")
    IN  IF o.mirror = 1 THEN Then(unturned, "MirrorHorizontal") ELSE unturned

-----------------------------------------------------------------------------
\* The mappings.

Mapping(a, b, c, d, tx, ty, w, h) ==
    [a |-> a, b |-> b, c |-> c, d |-> d, tx |-> tx, ty |-> ty, width |-> w, height |-> h]

Identity(w, h) == Mapping(1, 0, 0, 1, 0, 0, w, h)

\* What one action does to a stage of this width and height.
Step(t, w, h) ==
    IF t = "RotateRight" THEN Mapping(0, -1, 1, 0, h - 1, 0, h, w)
    ELSE IF t = "RotateLeft" THEN Mapping(0, 1, -1, 0, 0, w - 1, h, w)
    ELSE IF t = "MirrorHorizontal" THEN Mapping(-1, 0, 0, 1, w - 1, 0, w, h)
    ELSE Mapping(1, 0, 0, -1, 0, h - 1, w, h)

\* One mapping and then another.
After(g, next) ==
    Mapping(next.a * g.a + next.b * g.c, next.a * g.b + next.b * g.d,
            next.c * g.a + next.d * g.c, next.c * g.b + next.d * g.d,
            next.a * g.tx + next.b * g.ty + next.tx,
            next.c * g.tx + next.d * g.ty + next.ty,
            next.width, next.height)

\* A quarter turn of what the mapping produces.
QuarterTurn(g) == After(g, Step("RotateRight", g.width, g.height))

\* The mapping of an orientation: the reflection, then the turns one by one.
GeometryOf(o, w, h) ==
    LET first == IF o.mirror = 1 THEN After(Identity(w, h), Step("MirrorHorizontal", w, h))
                 ELSE Identity(w, h)
        half  == IF o.turns \in {2, 3} THEN QuarterTurn(QuarterTurn(first)) ELSE first
    IN  IF o.turns \in {1, 3} THEN QuarterTurn(half) ELSE half

\* A rectangle of whole pixels.
Rect(x, y, w, h) == [x |-> x, y |-> y, width |-> w, height |-> h]

\* A crop that is not straightened copies a rectangle of its stage.
Cropping(r) == Mapping(1, 0, 0, 1, -r.x, -r.y, r.width, r.height)

\* The input pixel an output pixel of the mapping reads: the linear part is a
\* signed permutation, so its transpose undoes it.
Reads(g, x, y) ==
    <<g.a * (x - g.tx) + g.c * (y - g.ty), g.b * (x - g.tx) + g.d * (y - g.ty)>>

\* Whether every output pixel reads a pixel of the input stage: the corners say.
ReadsInside(g, w, h) ==
    /\ g.width # 0 /\ g.height # 0
    /\ \A x \in {0, g.width - 1}, y \in {0, g.height - 1} :
          LET p == Reads(g, x, y) IN p[1] \in 0..(w - 1) /\ p[2] \in 0..(h - 1)

LOCAL Nearer(m, n) == IF m <= n THEN m ELSE n
LOCAL Larger(m, n) == IF m <= n THEN n ELSE m
LOCAL Clamped(n, side) == Larger(0, Nearer(n, side))

\* Where a rectangle of the input lands, clipped to the output: the images of two
\* opposite corners decide it.
MapRegion(g, r) ==
    LET fx == g.a * r.x + g.b * r.y + g.tx
        fy == g.c * r.x + g.d * r.y + g.ty
        lx == g.a * (r.x + r.width - 1) + g.b * (r.y + r.height - 1) + g.tx
        ly == g.c * (r.x + r.width - 1) + g.d * (r.y + r.height - 1) + g.ty
        x0 == Clamped(Nearer(fx, lx), g.width)
        x1 == Clamped(Larger(fx, lx) + 1, g.width)
        y0 == Clamped(Nearer(fy, ly), g.height)
        y1 == Clamped(Larger(fy, ly) + 1, g.height)
    IN  IF 0 \in {r.width, r.height, g.width, g.height} \/ x1 <= x0 \/ y1 <= y0
        THEN Rect(0, 0, 0, 0)
        ELSE Rect(x0, y0, x1 - x0, y1 - y0)

\* The rectangle of the input that a rectangle of the output reads.
UnmapRegion(g, r) ==
    LET f == Reads(g, r.x, r.y)
        l == Reads(g, r.x + r.width - 1, r.y + r.height - 1)
        x == Nearer(f[1], l[1])
        y == Nearer(f[2], l[2])
    IN  Rect(x, y, Larger(f[1], l[1]) - x + 1, Larger(f[2], l[2]) - y + 1)

\* The pixels of a rectangle.
PixelsOf(r) == (r.x..(r.x + r.width - 1)) \X (r.y..(r.y + r.height - 1))
=============================================================================
