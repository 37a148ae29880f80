------------------------------ MODULE GameWorld ------------------------------
(***************************************************************************)
(* The client's game: the screens of OnUserUpdate in Client.cpp, the move  *)
(* of the character in RenderGameFg, and the collision of the character    *)
(* with the walls around it (resolveCollision, helper/olcCollision.h).     *)
(*                                                                         *)
(* Lengths are whole numbers of units, U to a tile, and arithmetic is      *)
(* exact: rounding is left out.  A frame's displacement, vel * elapsed, is *)
(* what the collision code works on; a collision time is a fraction of it, *)
(* a pair <<n, d>> with d > 0.  The float infinities of a division by a    *)
(* zero displacement are +-Huge, and its NaN is "no hit", as in the code.  *)
(***************************************************************************)
EXTENDS Integers, Folds

CONSTANTS Width, Height,    \* world.size
          U,                \* units to a tile
          Steps,            \* how far a frame moves the character
          LongStep,         \* the same, for a frame after a sleep of a second
          Maps              \* the sets of wall cells LoadMap may read

ASSUME WorldAssumption ==
    /\ Width \in Nat \ {0} /\ Height \in Nat \ {0} /\ U \in Nat \ {0}
    /\ Steps \subseteq Nat \ {0} /\ LongStep \in Nat \ {0}
    /\ Maps \subseteq SUBSET ((0 .. Width - 1) \X (0 .. Height - 1))

\* The character walks ten tiles a second: a frame that did not follow a sleep
\* takes less than a tenth of one.
ASSUME ShortFrames == \A step \in Steps : step < U

\* The character starts in the first cell, which the map has to leave free.
ASSUME StartIsFree == \A map \in Maps : <<0, 0>> \notin map

Axes == {1, 2}
Size == <<Width * U, Height * U>>
Huge == 1000 * U * LongStep

\* surroundRect, in its order.
Surround == << <<-1, -1>>, <<0, -1>>, <<1, -1>>, <<-1, 0>>, <<1, 0>>,
               <<-1, 1>>, <<0, 1>>, <<1, 1>> >>

VARIABLES
    screen,     \* layerToRender
    showing,    \* isShowingLayer
    late,       \* the frame before this one slept
    running,
    walls,      \* the walls of world
    pos,        \* vCharPos
    asked,      \* history: the displacement the last frame asked for
    strayed     \* history: a frame was one of those that Strays names

vars == <<screen, showing, late, running, walls, pos, asked, strayed>>

Init ==
    /\ screen = "Splash" /\ showing = FALSE /\ late = FALSE /\ running = TRUE
    /\ walls = {} /\ pos = <<0, 0>>
    /\ asked = <<0, 0>> /\ strayed = FALSE

-----------------------------------------------------------------------------
(* Collision of the character at p, to be displaced by d, with a wall w.   *)

Sgn(n) == IF n > 0 THEN 1 ELSE IF n < 0 THEN -1 ELSE 0

\* n / d
Time(n, d) == IF d = 0 THEN <<Sgn(n) * Huge, 1>> ELSE <<n * Sgn(d), d * Sgn(d)>>

Before(s, t) == s[1] * t[2] < t[1] * s[2]
Sooner(s, t) == IF Before(t, s) THEN t ELSE s
Later(s, t) == IF Before(s, t) THEN t ELSE s

\* The two edges of the wall, expanded by the size of the character.
LowEdge(p, w, i) == (w[i] - 1) * U - p[i]
HighEdge(p, w, i) == (w[i] + 1) * U - p[i]

Near(p, d, w, i) == Sooner(Time(LowEdge(p, w, i), d[i]), Time(HighEdge(p, w, i), d[i]))
Far(p, d, w, i) == Later(Time(LowEdge(p, w, i), d[i]), Time(HighEdge(p, w, i), d[i]))

\* 0/0 is NaN.
NotANumber(p, d, w) ==
    \E i \in Axes : d[i] = 0 /\ 0 \in {LowEdge(p, w, i), HighEdge(p, w, i)}

HitTime(p, d, w) == Later(Near(p, d, w, 1), Near(p, d, w, 2))

\* Slip: only what lies ahead is a hit.
HitsAhead(p, d, w) ==
    /\ ~NotANumber(p, d, w)
    /\ ~Before(Far(p, d, w, 2), Near(p, d, w, 1))
    /\ ~Before(Far(p, d, w, 1), Near(p, d, w, 2))
    /\ ~Before(HitTime(p, d, w), <<0, 1>>)
    /\ Before(HitTime(p, d, w), <<1, 1>>)

\* RayVsRect and DynamicRectVsRect
Hits(p, d, w) ==
    /\ ~NotANumber(p, d, w)
    /\ ~Before(Far(p, d, w, 2), Near(p, d, w, 1))
    /\ ~Before(Far(p, d, w, 1), Near(p, d, w, 2))
    /\ ~Before(Sooner(Far(p, d, w, 1), Far(p, d, w, 2)), <<0, 1>>)
    /\ ~Before(HitTime(p, d, w), <<-1, 1>>)
    /\ Before(HitTime(p, d, w), <<1, 1>>)

\* The axis of contact_normal.  There is none when both sides are met at once.
Contact(p, d, w) ==
    {i \in Axes : Before(Near(p, d, w, 3 - i), Near(p, d, w, i))}

\* Slip: a character inside a wall is stopped, not put out.
ResolveStops(p, d, w) ==
    IF Hits(p, d, w)
    THEN [i \in Axes |-> IF i \notin Contact(p, d, w) THEN d[i]
                         ELSE IF d[i] > 0 /\ LowEdge(p, w, i) > 0 THEN LowEdge(p, w, i)
                         ELSE IF d[i] < 0 /\ HighEdge(p, w, i) < 0 THEN HighEdge(p, w, i)
                         ELSE 0]
    ELSE d

\* ResolveDynamicRectVsRect: what is left of the displacement is its part up to
\* the contact, backwards when the contact lies behind.
Resolve(p, d, w) ==
    IF Hits(p, d, w)
    THEN [i \in Axes |-> IF i \notin Contact(p, d, w) THEN d[i]
                         ELSE IF d[i] > 0 THEN LowEdge(p, w, i) ELSE HighEdge(p, w, i)]
    ELSE d

\* viPos = vfPos, and a surrounding cell
CellOf(p) == [i \in Axes |-> p[i] \div U]
CellAt(p, k) == <<CellOf(p)[1] + Surround[k][1], CellOf(p)[2] + Surround[k][2]>>

\* The surrounding walls that would be hit, in the order in which they are met.
\* A sort of at most eight elements keeps the order of equal times.
HitWalls(p, d) == {k \in 1..8 : CellAt(p, k) \in walls /\ Hits(p, d, CellAt(p, k))}

MetBefore(p, d, j, k) ==
    LET time(n) == HitTime(p, d, CellAt(p, n))
    IN  Before(time(j), time(k)) \/ (~Before(time(k), time(j)) /\ j < k)

MetLast(p, d, s) == CHOOSE k \in s : \A j \in s \ {k} : MetBefore(p, d, j, k)

\* Slip: only the wall that is met first is resolved.
ResolvedFirst(p, d) ==
    LET first == CHOOSE k \in HitWalls(p, d) :
                    \A j \in HitWalls(p, d) \ {k} : MetBefore(p, d, k, j)
    IN  IF HitWalls(p, d) = {} THEN d ELSE Resolve(p, d, CellAt(p, first))

\* resolveCollision: the walls that would be hit, each resolved with what the
\* ones before it have left.
Resolved(p, d) ==
    MapThenFoldSet(LAMBDA k, left : Resolve(p, left, CellAt(p, k)), d,
                   LAMBDA k : k, LAMBDA s : MetLast(p, d, s), HitWalls(p, d))

\* Slip: the far border is forgotten.
ClampLow(n, i) == IF n < 0 THEN 0 ELSE n

\* The map's border.  The far one puts the character back by a tile.
Clamp(n, i) == IF n < 0 THEN 0 ELSE IF n >= Size[i] THEN Size[i] - U ELSE n

-----------------------------------------------------------------------------
(* Frames.                                                                 *)

Distance(n) == Sgn(n) * n

\* How far the character reaches into the wall w along axis i.
Depth(p, w, i) == U - Distance(p[i] - w[i] * U)

Overlaps(p, w) == \A i \in Axes : Depth(p, w, i) > 0

\* OnUserUpdate draws a screen in one frame, and leaves it in the next.
ShowScreen ==
    /\ running /\ screen # "GameFg" /\ ~showing
    /\ showing' = TRUE /\ late' = FALSE
    /\ UNCHANGED <<screen, walls, pos, asked, strayed>>

LeaveSplash ==
    /\ running /\ screen = "Splash" /\ showing
    /\ walls' \in Maps
    /\ screen' = "OpeningBg" /\ showing' = FALSE /\ late' = TRUE
    /\ UNCHANGED <<pos, asked, strayed>>

LeaveOpeningBg ==
    /\ running /\ screen = "OpeningBg" /\ showing
    /\ screen' = "OpeningFg" /\ showing' = FALSE /\ late' = FALSE
    /\ UNCHANGED <<walls, pos, asked, strayed>>

LeaveOpeningFg ==
    /\ running /\ screen = "OpeningFg" /\ showing
    /\ screen' = "GameFg" /\ showing' = FALSE /\ late' = TRUE
    /\ UNCHANGED <<walls, pos, asked, strayed>>

\* A frame that moves along both axes; that moves after a sleep; that moves by
\* less than the character already reaches into a wall; that passes the far
\* border of the map.
Strays(d, end) ==
    \/ d[1] # 0 /\ d[2] # 0
    \/ late /\ d # <<0, 0>>
    \/ \E w \in walls, i \in Axes :
            Overlaps(pos, w) /\ d[i] # 0 /\ Distance(d[i]) < Depth(pos, w, i)
    \/ \E i \in Axes : end[i] >= Size[i]

\* Where a displacement ends, before and after the border is looked at.
End(d) ==
    LET left == Resolved(pos, d)
    IN  <<pos[1] + left[1], pos[2] + left[2]>>

Clamped(end) == <<Clamp(end[1], 1), Clamp(end[2], 2)>>

\* RenderGameFg: the keys give the direction, the frame's length the step.
Move(d) ==
    /\ running /\ screen = "GameFg"
    /\ LET end == End(d)
       IN  pos' = Clamped(end) /\ strayed' = (strayed \/ Strays(d, end))
    /\ asked' = d
    /\ late' = FALSE
    /\ UNCHANGED <<screen, showing, walls>>

Frame ==
    \/ ShowScreen \/ LeaveSplash \/ LeaveOpeningBg \/ LeaveOpeningFg
    \/ \E x, y \in -1 .. 1, step \in IF late THEN {LongStep} ELSE Steps :
            Move(<<x * step, y * step>>)

\* ESC: the frame in which it is pressed is the last one.
Escape ==
    /\ running
    /\ running' = FALSE
    /\ UNCHANGED <<screen, showing, late, walls, pos, asked, strayed>>

Next == (Frame /\ UNCHANGED running) \/ Escape

Spec == Init /\ [][Next]_vars

-----------------------------------------------------------------------------
(* Properties                                                              *)

TypeOK ==
    /\ screen \in {"Splash", "OpeningBg", "OpeningFg", "GameFg"}
    /\ showing \in BOOLEAN /\ late \in BOOLEAN /\ running \in BOOLEAN
    /\ strayed \in BOOLEAN /\ asked \in (Int \X Int)
    /\ walls \in Maps \cup {{}}
    /\ pos \in (0 .. Size[1] - 1) \X (0 .. Size[2] - 1)

Free == \A w \in walls : ~Overlaps(pos, w)

\* Walking never brings the character onto a wall's tile: it reaches into a
\* wall by less than a frame's step at most, whatever the lengths of the frames
\* within ShortFrames, as long as none of them strays.
StaysOffWalls ==
    ~strayed =>
        /\ CellOf(pos) \notin walls
        /\ \A w \in walls : Overlaps(pos, w) =>
                \E i \in Axes, step \in Steps : Depth(pos, w, i) < step

\* Along axis i alone, by step towards the middle of the wall w.
Towards(w, i, step) ==
    [j \in Axes |-> IF j = i THEN Sgn(w[i] * U - pos[i]) * step ELSE 0]

\* A character that reaches into a wall, which resolveCollision did not look at
\* in the frame before, is put out of it by any frame that walks on towards it
\* and is not shorter than the character is deep.
HeldComesOut ==
    ~strayed /\ ~late =>
        \A w \in walls, i \in Axes, step \in Steps :
            LET end == End(Towards(w, i, step))
            IN  /\ Overlaps(pos, w) /\ pos[i] # w[i] * U
                /\ ~Strays(Towards(w, i, step), end)
                => ~Overlaps(Clamped(end), w)

\* From outside all walls, no frame but the one after a sleep, along whatever
\* axes, brings the character onto a wall's tile except by a corner: a wall
\* that both of its sides meet at once is "pointless to resolve".  The far
\* border is left out.
OnlyCornersLetIn ==
    [][Free /\ ~late /\ CellOf(pos') \in walls
        /\ (\A i \in Axes : pos[i] + asked'[i] < Size[i])
            => \E w \in walls : Hits(pos, asked', w) /\ Contact(pos, asked', w) = {}]_vars

\* olcCollision.h:92: "we assume rectangles are NOT in collision to start".
StartsFree == ~strayed => Free
=============================================================================
