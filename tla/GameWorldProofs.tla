-------------------------- MODULE GameWorldProofs --------------------------
(***************************************************************************)
(* Proofs about GameWorld, for maps, tiles and frames of any size.         *)
(*                                                                         *)
(* Resolved is a fold over the walls hit, in the order of their times.     *)
(* SetRecursion makes of a fold over a finite set a function on its        *)
(* subsets (Walk), and AlongSets an induction along that function; from    *)
(* these, WalkType gives the types of what is left of a displacement.      *)
(*                                                                         *)
(* A displacement along one axis (Along) hits, of the cells around the     *)
(* character, those that lie ahead or that it already reaches into, and    *)
(* the first of those ahead takes it back to its edge (StepHits,           *)
(* StepLeaves).  Slipped says how a character can reach into a wall that   *)
(* resolveCollision did not look at: SlippedForward, SlippedBackward and   *)
(* SlippedNowhere follow it through a frame, and WalkInv is inductive.     *)
(*                                                                         *)
(* A displacement along both axes that starts outside all walls may be     *)
(* resolved in many orders; Parts holds what any of them can leave.  For   *)
(* each way to come onto a wall's tile (Ends), either that very wall turns *)
(* all that still leads there (Turns, TurnedAway), or no order can leave   *)
(* it (PastBeside, PastBelow), or it is a corner met by both sides at once *)
(* (CornerMet).                                                            *)
(***************************************************************************)
EXTENDS GameWorld, FiniteSetTheorems, WellFoundedInduction, TLAPS

-----------------------------------------------------------------------------
(* Induction over finite sets, and the function a fold defines: the        *)
(* induction theorems of the library take an operator, these take sets.    *)

LEMMA Least ==
    ASSUME NEW T, T \subseteq Nat, T # {}
    PROVE  \E x \in T : \A y \in T : x <= y
<1> DEFINE R == OpToRel(<, Nat)
<1>1. \A y, z \in Nat : y < z => <<y, z>> \in R
  BY DEF OpToRel
<1>2. IsWellFoundedOn(R, Nat)
  BY NatLessThanWellFounded
<1> HIDE DEF R
<1>3. PICK x \in T : \A y \in T : ~ (<<y, x>> \in R)
  BY <1>2, WFMin
<1>4. ASSUME NEW y \in T PROVE x <= y
  <2>1. x \in Nat /\ y \in Nat /\ ~ (y < x)
    BY <1>1, <1>3
  <2>2. QED
    BY <2>1
<1>5. QED
  BY <1>4

LEMMA Induction ==
    ASSUME NEW T, 0 \in T, \A n \in Nat : n \in T => n + 1 \in T
    PROVE  Nat \subseteq T
<1> SUFFICES ASSUME Nat \ T # {} PROVE FALSE
  OBVIOUS
<1>1. PICK x \in Nat \ T : \A y \in Nat \ T : x <= y
  BY Least
<1>2. x # 0 /\ x - 1 \in Nat
  BY <1>1
<1>3. x - 1 \in T
  BY <1>1, <1>2
<1>4. QED
  BY <1>1, <1>2, <1>3

\* Every finite set is reached from the empty one, an element at a time.
LEMMA AlongSets ==
    ASSUME NEW D, IsFiniteSet(D), NEW T, {} \in T,
           \A s \in SUBSET D : s # {} => \E x \in s : s \ {x} \in T => s \in T
    PROVE  SUBSET D \subseteq T
<1> DEFINE I == {m \in Nat : \A s \in SUBSET D : Cardinality(s) = m => s \in T}
<1>1. ASSUME NEW s \in SUBSET D
      PROVE  Cardinality(s) \in Nat /\ (Cardinality(s) = 0 <=> s = {})
  BY FS_Subset, FS_EmptySet, FS_CardinalityType
<1>2. ASSUME NEW s \in SUBSET D, NEW x \in s
      PROVE  s \ {x} \in SUBSET D /\ Cardinality(s \ {x}) = Cardinality(s) - 1
  BY FS_Subset, FS_RemoveElement
<1>3. 0 \in I
  BY <1>1
<1>4. ASSUME NEW m \in Nat, m \in I PROVE m + 1 \in I
  <2> SUFFICES ASSUME NEW s \in SUBSET D, Cardinality(s) = m + 1 PROVE s \in T
    OBVIOUS
  <2>1. s # {}
    BY <1>1
  <2>2. PICK x \in s : s \ {x} \in T => s \in T
    BY <2>1
  <2>3. s \ {x} \in T
    BY <1>2, <1>4
  <2>4. QED
    BY <2>2, <2>3
<1>5. Nat \subseteq I
  <2> HIDE DEF I
  <2>1. QED
    BY <1>3, <1>4, Induction
<1>6. QED
  BY <1>1, <1>5

\* A strict order on a finite set has a last element in every part of it.
LEMMA LastExists ==
    ASSUME NEW D, IsFiniteSet(D), NEW R,
           \A x, y \in D : x # y => <<x, y>> \in R \/ <<y, x>> \in R,
           \A x, y, z \in D : <<x, y>> \in R /\ <<y, z>> \in R => <<x, z>> \in R
    PROVE  \A s \in SUBSET D : s # {} => \E k \in s : \A j \in s \ {k} : <<j, k>> \in R
<1> DEFINE T == {s \in SUBSET D : s # {} => \E k \in s : \A j \in s \ {k} : <<j, k>> \in R}
<1>1. {} \in T
  OBVIOUS
<1>2. ASSUME NEW s \in SUBSET D, NEW x \in s, s \ {x} \in T PROVE s \in T
  <2>1. CASE s \ {x} = {}
    BY <2>1
  <2>2. CASE s \ {x} # {}
    <3>1. PICK k \in s \ {x} : \A j \in (s \ {x}) \ {k} : <<j, k>> \in R
      BY <1>2, <2>2
    <3>2. CASE <<k, x>> \in R
      <4>1. \A j \in s \ {x} : <<j, x>> \in R
        BY <3>1, <3>2
      <4>2. QED
        BY <4>1
    <3>3. CASE <<x, k>> \in R
      BY <3>1, <3>3
    <3>4. QED
      BY <3>1, <3>2, <3>3
  <2>3. QED
    BY <2>1, <2>2
<1>3. \A s \in SUBSET D : s # {} => \E x \in s : s \ {x} \in T => s \in T
  BY <1>2
<1>4. SUBSET D \subseteq T
  <2> HIDE DEF T
  <2>1. QED
    BY <1>1, <1>3, AlongSets
<1>5. QED
  BY <1>4

\* A fold over a finite set D, of which last[s] is the next to be taken out of s.
FoldOver(f, V, base, D, last, H) ==
    /\ f \in [SUBSET D -> V]
    /\ \A s \in SUBSET D : f[s] = IF s = {} THEN base ELSE H[last[s]][f[s \ {last[s]}]]

LEMMA SetRecursion ==
    ASSUME NEW V, NEW base \in V, NEW D, IsFiniteSet(D),
           NEW last, \A s \in SUBSET D : s # {} => last[s] \in s,
           NEW H \in [D -> [V -> V]]
    PROVE  \E f : FoldOver(f, V, base, D, last, H)
<1> DEFINE Small(m) == {s \in SUBSET D : Cardinality(s) <= m}
           Good(m, f) == /\ f \in [Small(m) -> V]
                         /\ \A s \in Small(m) :
                              f[s] = IF s = {} THEN base ELSE H[last[s]][f[s \ {last[s]}]]
           T == {m \in Nat : \E f : Good(m, f)}
<1>1. ASSUME NEW s \in SUBSET D
      PROVE  Cardinality(s) \in Nat /\ (Cardinality(s) = 0 <=> s = {})
             /\ Cardinality(s) <= Cardinality(D) /\ Cardinality(D) \in Nat
  BY FS_Subset, FS_EmptySet, FS_CardinalityType
<1>2. ASSUME NEW s \in SUBSET D, s # {}
      PROVE  s \ {last[s]} \in SUBSET D /\ Cardinality(s \ {last[s]}) = Cardinality(s) - 1
             /\ last[s] \in D
  BY <1>2, FS_Subset, FS_RemoveElement
<1>3. 0 \in T
  <2> DEFINE f == [s \in Small(0) |-> base]
  <2>1. \A s \in Small(0) : s = {}
    BY <1>1
  <2>2. Good(0, f)
    BY <2>1
  <2>3. QED
    BY <2>2
<1>4. ASSUME NEW m \in Nat, m \in T PROVE m + 1 \in T
  <2>1. PICK f : Good(m, f)
    BY <1>4
  <2> DEFINE g == [s \in Small(m + 1) |->
                      IF s = {} THEN base ELSE H[last[s]][f[s \ {last[s]}]]]
  <2>2. ASSUME NEW s \in Small(m + 1), s # {}
        PROVE  s \ {last[s]} \in Small(m) /\ last[s] \in D
    BY <2>2, <1>1, <1>2
  <2>3. ASSUME NEW s \in Small(m) PROVE s \in Small(m + 1) /\ g[s] = f[s]
    <3>1. s \in Small(m + 1)
      BY <1>1
    <3>2. f[s] = IF s = {} THEN base ELSE H[last[s]][f[s \ {last[s]}]]
      BY <2>1
    <3> HIDE DEF Small, Good
    <3>3. g[s] = IF s = {} THEN base ELSE H[last[s]][f[s \ {last[s]}]]
      BY <3>1
    <3> HIDE DEF g
    <3>4. QED
      BY <3>1, <3>2, <3>3
  <2>4. g \in [Small(m + 1) -> V]
    <3> SUFFICES ASSUME NEW s \in Small(m + 1) PROVE g[s] \in V
      OBVIOUS
    <3>1. CASE s = {}
      BY <3>1
    <3>2. CASE s # {}
      <4>1. f[s \ {last[s]}] \in V /\ H[last[s]] \in [V -> V]
        BY <2>1, <2>2, <3>2
      <4>2. QED
        BY <4>1, <3>2
    <3>3. QED
      BY <3>1, <3>2
  <2>5. ASSUME NEW s \in Small(m + 1)
        PROVE  g[s] = IF s = {} THEN base ELSE H[last[s]][g[s \ {last[s]}]]
    <3>1. CASE s = {}
      BY <3>1
    <3>2. CASE s # {}
      <4>1. g[s \ {last[s]}] = f[s \ {last[s]}]
        BY <2>2, <2>3, <3>2
      <4> HIDE DEF Small
      <4>2. g[s] = H[last[s]][f[s \ {last[s]}]]
        BY <3>2
      <4> HIDE DEF g
      <4>3. QED
        BY <3>2, <4>1, <4>2
    <3>3. QED
      BY <3>1, <3>2
  <2>6. Good(m + 1, g)
    <3> HIDE DEF g, Small
    <3>1. QED
      BY <2>4, <2>5
  <2>7. QED
    <3> HIDE DEF Good
    <3>1. QED
      BY <2>6
<1>5. Nat \subseteq T
  <2> HIDE DEF T
  <2>1. QED
    BY <1>3, <1>4, Induction
<1>6. Cardinality(D) \in T
  BY <1>5, FS_CardinalityType
<1>7. PICK f : Good(Cardinality(D), f)
  BY <1>6
<1>8. SUBSET D = Small(Cardinality(D))
  BY <1>1
<1>9. f \in [SUBSET D -> V]
  <2> HIDE DEF Small
  <2>1. QED
    BY <1>7, <1>8
<1>10. \A s \in SUBSET D : f[s] = IF s = {} THEN base ELSE H[last[s]][f[s \ {last[s]}]]
  <2> HIDE DEF Small
  <2>1. QED
    BY <1>7, <1>8
<1>11. QED
  BY <1>9, <1>10 DEF FoldOver

-----------------------------------------------------------------------------
(* Sizes and times. *)

LEMMA SizeFacts ==
    /\ Width \in Nat /\ Width >= 1 /\ Height \in Nat /\ Height >= 1
    /\ U \in Nat /\ U >= 1 /\ LongStep \in Nat /\ LongStep >= 1
    /\ Steps \subseteq Nat /\ \A step \in Steps : step >= 1
BY WorldAssumption DEF WorldAssumption

LEMMA Multiples ==
    ASSUME NEW m \in Int, NEW n \in Int, m <= n, NEW k \in Nat
    PROVE  m * k <= n * k
OBVIOUS

LEMMA StrictMultiples ==
    ASSUME NEW m \in Int, NEW n \in Int, m < n, NEW k \in Nat, k >= 1
    PROVE  m * k < n * k
<1>1. m + 1 <= n
  OBVIOUS
<1>2. (m + 1) * k <= n * k
  BY <1>1
<1>3. QED
  BY <1>2

LEMMA SizeType ==
    /\ Size[1] = Width * U /\ Size[2] = Height * U
    /\ \A i \in Axes : Size[i] \in Nat /\ Size[i] >= U
<1>1. 1 * U <= Width * U /\ 1 * U <= Height * U
  BY SizeFacts, Multiples
<1>2. Width * U \in Nat /\ Height * U \in Nat
  BY SizeFacts
<1>3. QED
  BY <1>1, <1>2, SizeFacts DEF Size, Axes

Times == Int \X (Nat \ {0})

Point == [Axes -> Int]

LEMMA Crosses ==
    ASSUME NEW a \in Int, NEW b \in Nat, b >= 1, NEW c \in Int, NEW d \in Nat, d >= 1,
           NEW e \in Int, NEW f \in Nat, f >= 1
    PROVE  /\ a * d < c * b /\ c * f <= e * d => a * f < e * b
           /\ a * d <= c * b /\ c * f < e * d => a * f < e * b
           /\ a * d <= c * b /\ c * f <= e * d => a * f <= e * b
<1> DEFINE x == a * d
           y == c * b
           z == c * f
           t == e * d
           m == a * f
           n == e * b
<1>1. x \in Int /\ y \in Int /\ z \in Int /\ t \in Int /\ m \in Int /\ n \in Int
  OBVIOUS
<1>2. x * f = m * d /\ y * f = z * b /\ t * b = n * d
  OBVIOUS
<1> HIDE DEF x, y, z, t, m, n
<1>3. CASE x < y /\ z <= t
  <2>1. x * f < y * f /\ z * b <= t * b
    BY <1>1, <1>3, StrictMultiples, Multiples
  <2>2. m * d < n * d
    BY <1>1, <1>2, <2>1
  <2>3. ~(n <= m)
    BY <1>1, <2>2, Multiples
  <2>4. QED
    BY <1>1, <1>3, <2>3 DEF x, y, z, t, m, n
<1>4. CASE x <= y /\ z < t
  <2>1. x * f <= y * f /\ z * b < t * b
    BY <1>1, <1>4, StrictMultiples, Multiples
  <2>2. m * d < n * d
    BY <1>1, <1>2, <2>1
  <2>3. ~(n <= m)
    BY <1>1, <2>2, Multiples
  <2>4. QED
    BY <1>1, <1>4, <2>3 DEF x, y, z, t, m, n
<1>5. CASE x <= y /\ z <= t
  <2>1. x * f <= y * f /\ z * b <= t * b
    BY <1>1, <1>5, Multiples
  <2>2. m * d <= n * d
    BY <1>1, <1>2, <2>1
  <2>3. ~(n < m)
    BY <1>1, <2>2, StrictMultiples
  <2>4. QED
    BY <1>1, <1>5, <2>3 DEF x, y, z, t, m, n
<1>6. QED
  BY <1>3, <1>4, <1>5 DEF x, y, z, t, m, n

\* Fractions are ordered.
LEMMA TimesAreOrdered ==
    ASSUME NEW s \in Times, NEW t \in Times, NEW u \in Times
    PROVE  /\ ~(Before(s, t) /\ Before(t, s))
           /\ Before(s, t) /\ ~Before(u, t) => Before(s, u)
           /\ ~Before(t, s) /\ Before(t, u) => Before(s, u)
           /\ ~Before(t, s) /\ ~Before(u, t) => ~Before(u, s)
<1> DEFINE a == s[1]
           b == s[2]
           c == t[1]
           d == t[2]
           e == u[1]
           f == u[2]
<1>1. /\ a \in Int /\ b \in Nat /\ b >= 1 /\ c \in Int /\ d \in Nat /\ d >= 1
      /\ e \in Int /\ f \in Nat /\ f >= 1
  BY DEF Times
<1>2. /\ Before(s, t) <=> a * d < c * b
      /\ Before(t, s) <=> c * b < a * d
      /\ Before(t, u) <=> c * f < e * d
      /\ Before(u, t) <=> e * d < c * f
      /\ Before(s, u) <=> a * f < e * b
      /\ Before(u, s) <=> e * b < a * f
  BY DEF Before
<1> HIDE DEF a, b, c, d, e, f
<1>3. /\ a * d < c * b /\ c * f <= e * d => a * f < e * b
      /\ a * d <= c * b /\ c * f < e * d => a * f < e * b
      /\ a * d <= c * b /\ c * f <= e * d => a * f <= e * b
  BY <1>1, Crosses
<1>4. /\ a * d \in Int /\ c * b \in Int /\ c * f \in Int
      /\ e * d \in Int /\ a * f \in Int /\ e * b \in Int
  BY <1>1
<1>5. QED
  BY <1>2, <1>3, <1>4

LEMMA TimeType ==
    ASSUME NEW n \in Int, NEW d \in Int
    PROVE  Time(n, d) \in Times
<1>1. Huge \in Int /\ Sgn(n) \in -1 .. 1 /\ Sgn(d) \in -1 .. 1
  BY SizeFacts DEF Huge, Sgn
<1>2. Sgn(n) * Huge \in Int /\ n * Sgn(d) \in Int
  BY <1>1
<1>3. CASE d = 0
  BY <1>2, <1>3 DEF Time, Times
<1>4. CASE d # 0
  <2>1. d * Sgn(d) \in Nat \ {0}
    BY <1>4 DEF Sgn
  <2>2. QED
    BY <1>2, <1>4, <2>1 DEF Time, Times
<1>5. QED
  BY <1>3, <1>4

Cell == Int \X Int

\* The edges of a wall are whole numbers and its times fractions.
LEMMA WallType ==
    ASSUME NEW p \in Point, NEW d \in Point, NEW w \in Cell
    PROVE  /\ \A i \in Axes : LowEdge(p, w, i) \in Int /\ HighEdge(p, w, i) \in Int
           /\ \A i \in Axes : Near(p, d, w, i) \in Times /\ Far(p, d, w, i) \in Times
           /\ HitTime(p, d, w) \in Times
           /\ Resolve(p, d, w) \in Point
<1>1. ASSUME NEW i \in Axes
      PROVE  LowEdge(p, w, i) \in Int /\ HighEdge(p, w, i) \in Int
  <2>1. w[i] \in Int /\ p[i] \in Int
    BY DEF Cell, Axes, Point
  <2>2. (w[i] - 1) * U \in Int /\ (w[i] + 1) * U \in Int
    BY <2>1, SizeFacts
  <2>3. QED
    BY <2>1, <2>2 DEF LowEdge, HighEdge
<1>2. ASSUME NEW i \in Axes
      PROVE  Near(p, d, w, i) \in Times /\ Far(p, d, w, i) \in Times
  <2>1. d[i] \in Int
    BY DEF Point
  <2>2. Time(LowEdge(p, w, i), d[i]) \in Times /\ Time(HighEdge(p, w, i), d[i]) \in Times
    BY <1>1, <2>1, TimeType
  <2>3. QED
    BY <2>2 DEF Near, Far, Sooner, Later
<1>3. HitTime(p, d, w) \in Times
  BY <1>2 DEF HitTime, Later, Axes
<1>4. Resolve(p, d, w) \in Point
  <2>1. ASSUME NEW i \in Axes
        PROVE  (IF i \notin Contact(p, d, w) THEN d[i]
                ELSE IF d[i] > 0 THEN LowEdge(p, w, i) ELSE HighEdge(p, w, i)) \in Int
    BY <1>1 DEF Point
  <2>2. QED
    BY <2>1 DEF Resolve, Point
<1>5. QED
  BY <1>1, <1>2, <1>3, <1>4

\* The cells around the character are those that are at most one off on an axis.
LEMMA SurroundIs ==
    /\ \A k \in 1..8 : /\ Surround[k][1] \in -1 .. 1 /\ Surround[k][2] \in -1 .. 1
                       /\ Surround[k][1] # 0 \/ Surround[k][2] # 0
    /\ \A a, b \in -1 .. 1 : a # 0 \/ b # 0 => 
            \E k \in 1..8 : Surround[k][1] = a /\ Surround[k][2] = b
    /\ \A j, k \in 1..8 : Surround[j][1] = Surround[k][1] /\ Surround[j][2] = Surround[k][2]
            => j = k
BY DEF Surround

LEMMA CellType ==
    ASSUME NEW p \in Point
    PROVE  /\ CellOf(p) \in Point
           /\ \A i \in Axes : /\ CellOf(p)[i] * U <= p[i]
                              /\ p[i] < CellOf(p)[i] * U + U
           /\ \A k \in 1..8 : CellAt(p, k) \in Cell
<1>1. ASSUME NEW i \in Axes
      PROVE  /\ CellOf(p)[i] \in Int
             /\ CellOf(p)[i] * U <= p[i] /\ p[i] < CellOf(p)[i] * U + U
  <2>1. p[i] \in Int /\ CellOf(p)[i] = p[i] \div U
    BY DEF Point, CellOf
  <2>2. QED
    BY <2>1, SizeFacts
<1>2. CellOf(p) \in Point
  BY <1>1 DEF CellOf, Point
<1>3. \A k \in 1..8 : CellAt(p, k) \in Cell
  BY <1>2, SurroundIs DEF CellAt, Cell, Point, Axes
<1>4. QED
  BY <1>1, <1>2, <1>3

-----------------------------------------------------------------------------
(* The walls that are met, in their order. *)

LEMMA HitsAreFinite ==
    /\ IsFiniteSet(1..8)
    /\ \A p, d : HitWalls(p, d) \in SUBSET (1..8) /\ IsFiniteSet(HitWalls(p, d))
<1> DEFINE one == 1
           eight == 8
<1>1. IsFiniteSet(one..eight)
  <2>1. one \in Int /\ eight \in Int
    OBVIOUS
  <2> HIDE DEF one, eight
  <2>2. QED
    BY <2>1, FS_Interval
<1>2. ASSUME NEW p, NEW d
      PROVE  HitWalls(p, d) \in SUBSET (1..8) /\ IsFiniteSet(HitWalls(p, d))
  <2>1. HitWalls(p, d) \in SUBSET (1..8)
    BY DEF HitWalls
  <2>2. QED
    BY <1>1, <2>1, FS_Subset, Zenon
<1>3. QED
  BY <1>1, <1>2

LEMMA MetLastIs ==
    ASSUME NEW p \in Point, NEW d \in Point, NEW s \in SUBSET (1..8), s # {}
    PROVE  /\ MetLast(p, d, s) \in s
           /\ \A j \in s \ {MetLast(p, d, s)} : MetBefore(p, d, j, MetLast(p, d, s))
<1> DEFINE D == 1..8
           R == {jk \in D \X D : MetBefore(p, d, jk[1], jk[2])}
<1>1. ASSUME NEW j \in D PROVE HitTime(p, d, CellAt(p, j)) \in Times
  BY CellType, WallType
<1>2. \A x, y \in D : x # y => <<x, y>> \in R \/ <<y, x>> \in R
  <2> SUFFICES ASSUME NEW x \in D, NEW y \in D, x # y
               PROVE  MetBefore(p, d, x, y) \/ MetBefore(p, d, y, x)
    OBVIOUS
  <2>1. QED
    BY <1>1, TimesAreOrdered DEF MetBefore
<1>3. \A x, y, z \in D : <<x, y>> \in R /\ <<y, z>> \in R => <<x, z>> \in R
  <2> SUFFICES ASSUME NEW x \in D, NEW y \in D, NEW z \in D,
                      MetBefore(p, d, x, y), MetBefore(p, d, y, z)
               PROVE  MetBefore(p, d, x, z)
    OBVIOUS
  <2> DEFINE t(n) == HitTime(p, d, CellAt(p, n))
  <2>1. t(x) \in Times /\ t(y) \in Times /\ t(z) \in Times
    BY <1>1
  <2>2. /\ Before(t(x), t(y)) \/ (~Before(t(y), t(x)) /\ x < y)
        /\ Before(t(y), t(z)) \/ (~Before(t(z), t(y)) /\ y < z)
    BY DEF MetBefore
  <2> HIDE DEF t
  <2>3. Before(t(x), t(z)) \/ (~Before(t(z), t(x)) /\ x < z)
    <3>1. CASE Before(t(x), t(y)) /\ Before(t(y), t(z))
      BY <2>1, <3>1, TimesAreOrdered
    <3>2. CASE Before(t(x), t(y)) /\ ~Before(t(z), t(y))
      BY <2>1, <3>2, TimesAreOrdered
    <3>3. CASE ~Before(t(y), t(x)) /\ Before(t(y), t(z))
      BY <2>1, <3>3, TimesAreOrdered
    <3>4. CASE ~Before(t(y), t(x)) /\ x < y /\ ~Before(t(z), t(y)) /\ y < z
      <4>1. x < z
        BY <3>4
      <4>2. ~Before(t(z), t(x))
        BY <2>1, <3>4, TimesAreOrdered
      <4>3. QED
        BY <4>1, <4>2
    <3>5. QED
      BY <2>2, <3>1, <3>2, <3>3, <3>4
  <2>4. QED
    BY <2>3 DEF t, MetBefore
<1>4. IsFiniteSet(D)
  BY HitsAreFinite
<1> DEFINE Last(k) == \A j \in s \ {k} : MetBefore(p, d, j, k)
<1>5. \E k \in s : Last(k)
  <2>1. s \in SUBSET D
    OBVIOUS
  <2>2. \E k \in s : \A j \in s \ {k} : <<j, k>> \in R
    <3> HIDE DEF D, R
    <3>1. \A t \in SUBSET D : t # {} => \E k \in t : \A j \in t \ {k} : <<j, k>> \in R
      BY <1>2, <1>3, <1>4, LastExists
    <3>2. QED
      BY <2>1, <3>1
  <2>3. QED
    BY <2>2
<1>6. MetLast(p, d, s) = CHOOSE k \in s : Last(k)
  BY DEF MetLast
<1>7. MetLast(p, d, s) \in s /\ Last(MetLast(p, d, s))
  <2> HIDE DEF Last
  <2>1. QED
    BY <1>5, <1>6
<1>8. QED
  BY <1>7

\* What the walls of each part of those that are hit, resolved in their order,
\* leave of the displacement d.
Walk(F, p, d) ==
    /\ Resolved(p, d) = F[HitWalls(p, d)]
    /\ F[{}] = d
    /\ \A s \in SUBSET HitWalls(p, d) :
          s # {} => F[s] = Resolve(p, F[s \ {MetLast(p, d, s)}],
                                   CellAt(p, MetLast(p, d, s)))

LEMMA WalkExists ==
    ASSUME NEW p \in Point, NEW d \in Point
    PROVE  \E F : Walk(F, p, d)
<1> DEFINE D == HitWalls(p, d)
           V == Point
           last == [s \in SUBSET D |-> MetLast(p, d, s)]
           H == [k \in D |-> [v \in V |-> Resolve(p, v, CellAt(p, k))]]
<1>1. D \in SUBSET (1..8) /\ IsFiniteSet(D)
  BY HitsAreFinite
<1>2. \A s \in SUBSET D : s # {} => MetLast(p, d, s) \in s
  <2> HIDE DEF D
  <2>1. QED
    BY <1>1, MetLastIs
<1>3. ASSUME NEW k \in D, NEW v \in V PROVE Resolve(p, v, CellAt(p, k)) \in V
  BY <1>1, CellType, WallType
<1>4. H \in [D -> [V -> V]]
  <2> HIDE DEF D, V
  <2>1. QED
    BY <1>3
<1>5. \A k \in D, v \in V : H[k][v] = Resolve(p, v, CellAt(p, k))
  OBVIOUS
<1>6. \A s \in SUBSET D : last[s] = MetLast(p, d, s)
  OBVIOUS
<1>7. \A s \in SUBSET D : s # {} => last[s] \in s
  BY <1>2, <1>6
<1> HIDE DEF D, V, last, H
<1>8. d \in V
  BY DEF V
<1>9. PICK f : FoldOver(f, V, d, D, last, H)
  BY <1>1, <1>4, <1>7, <1>8, SetRecursion
<1> DEFINE P(g) == g = [s \in SUBSET D |->
                IF s = {} THEN d
                ELSE LET x == MetLast(p, d, s) IN Resolve(p, g[s \ {x}], CellAt(p, x))]
           F == CHOOSE g : P(g)
<1>10. ASSUME NEW s \in SUBSET D, s # {}
      PROVE  f[s] = Resolve(p, f[s \ {MetLast(p, d, s)}], CellAt(p, MetLast(p, d, s)))
  <2>1. last[s] = MetLast(p, d, s) /\ last[s] \in D /\ s \ {last[s]} \in SUBSET D
    BY <1>6, <1>7, <1>10
  <2>2. f[s \ {last[s]}] \in V /\ f[s] = H[last[s]][f[s \ {last[s]}]]
    BY <1>9, <1>10, <2>1 DEF FoldOver
  <2>3. QED
    BY <1>5, <2>1, <2>2
<1>11. P(f)
  BY <1>9, <1>10 DEF FoldOver
<1>12. P(F)
  <2> HIDE DEF P
  <2>1. QED
    BY <1>11
<1>13. Resolved(p, d) = F[D]
  BY DEF Resolved, MapThenFoldSet, D
<1> HIDE DEF F
<1>14. F[{}] = d
  BY <1>12
<1>15. ASSUME NEW s \in SUBSET D, s # {}
       PROVE  F[s] = Resolve(p, F[s \ {MetLast(p, d, s)}], CellAt(p, MetLast(p, d, s)))
  BY <1>12, <1>15
<1>16. Walk(F, p, d)
  BY <1>13, <1>14, <1>15 DEF Walk, D
<1>17. QED
  BY <1>16

LEMMA LastHit ==
    ASSUME NEW p \in Point, NEW d \in Point, NEW s \in SUBSET HitWalls(p, d), s # {}
    PROVE  /\ MetLast(p, d, s) \in s /\ MetLast(p, d, s) \in 1..8
           /\ \A j \in s : j # MetLast(p, d, s) =>
                    MetBefore(p, d, j, MetLast(p, d, s))
<1>1. s \in SUBSET (1..8)
  BY DEF HitWalls
<1>2. QED
  BY <1>1, MetLastIs

\* What holds of d, and stays true when a wall is resolved, holds of what is left.
LEMMA WalkType ==
    ASSUME NEW p \in Point, NEW d \in Point
    PROVE  Resolved(p, d) \in Point
<1>1. PICK F : Walk(F, p, d)
  BY WalkExists
<1> DEFINE D == HitWalls(p, d)
           T == {s \in SUBSET D : F[s] \in Point}
<1>2. IsFiniteSet(D)
  BY HitsAreFinite
<1>3. {} \in T
  BY <1>1 DEF Walk
<1>4. ASSUME NEW s \in SUBSET D, s # {}
      PROVE  \E x \in s : s \ {x} \in T => s \in T
  <2> DEFINE k == MetLast(p, d, s)
  <2>1. k \in s /\ k \in 1..8
    BY <1>4, LastHit
  <2>2. F[s] = Resolve(p, F[s \ {k}], CellAt(p, k))
    BY <1>1, <1>4 DEF Walk
  <2> HIDE DEF k
  <2>3. F[s \ {k}] \in Point => F[s] \in Point
    BY <2>1, <2>2, CellType, WallType
  <2>4. QED
    BY <2>1, <2>3
<1>5. SUBSET D \subseteq T
  <2> HIDE DEF D, T
  <2>1. QED
    BY <1>2, <1>3, <1>4, AlongSets
<1>6. QED
  BY <1>1, <1>5 DEF Walk

-----------------------------------------------------------------------------
(* Types. *)

LEMMA PairIsPoint ==
    ASSUME NEW v \in Int \X Int
    PROVE  v \in Point /\ v[1] \in Int /\ v[2] \in Int
<1>1. v[1] \in Int /\ v[2] \in Int /\ v = <<v[1], v[2]>>
  OBVIOUS
<1>2. DOMAIN v = 1..2 /\ \A i \in 1..2 : v[i] \in Int
  BY <1>1
<1>3. Axes = 1..2
  BY DEF Axes
<1>4. v = [i \in 1..2 |-> v[i]]
  BY <1>1
<1>5. v \in Point
  BY <1>2, <1>3, <1>4 DEF Point
<1>6. QED
  BY <1>1, <1>5

LEMMA PosType ==
    ASSUME TypeOK
    PROVE  /\ pos \in Int \X Int /\ pos \in Point
           /\ \A i \in Axes : pos[i] >= 0 /\ pos[i] < Size[i]
<1>1. pos[1] \in 0 .. Size[1] - 1 /\ pos[2] \in 0 .. Size[2] - 1 /\ pos = <<pos[1], pos[2]>>
  BY DEF TypeOK
<1>2. pos[1] \in Int /\ pos[2] \in Int
  BY <1>1
<1>3. pos \in Int \X Int
  BY <1>1, <1>2
<1>4. QED
  BY <1>1, <1>3, PairIsPoint, SizeType DEF Axes

LEMMA ClampIn ==
    ASSUME NEW n \in Int, NEW i \in Axes
    PROVE  Clamp(n, i) \in 0 .. Size[i] - 1
BY SizeType, SizeFacts DEF Clamp

LEMMA InitType == Init => TypeOK
<1> SUFFICES ASSUME Init PROVE TypeOK
  OBVIOUS
<1>1. 0 \in 0 .. Size[1] - 1 /\ 0 \in 0 .. Size[2] - 1
  BY SizeType, SizeFacts DEF Axes
<1>2. pos \in (0 .. Size[1] - 1) \X (0 .. Size[2] - 1)
  BY <1>1 DEF Init
<1>3. walls \in Maps \cup {{}} /\ asked \in Int \X Int
  BY DEF Init
<1>4. screen \in {"Splash", "OpeningBg", "OpeningFg", "GameFg"}
  BY DEF Init
<1>5. showing \in BOOLEAN /\ late \in BOOLEAN /\ running \in BOOLEAN /\ strayed \in BOOLEAN
  BY DEF Init
<1>6. QED
  BY <1>2, <1>3, <1>4, <1>5 DEF TypeOK

\* A frame's displacement.
LEMMA KeysGive ==
    ASSUME NEW x \in -1 .. 1, NEW y \in -1 .. 1, NEW step \in Nat
    PROVE  /\ <<x * step, y * step>> \in Int \X Int
           /\ x * step \in {-step, 0, step} /\ y * step \in {-step, 0, step}
<1>1. x \in {-1, 0, 1} /\ y \in {-1, 0, 1}
  OBVIOUS
<1>2. x * step \in {-step, 0, step} /\ y * step \in {-step, 0, step}
  BY <1>1
<1>3. QED
  BY <1>2

LEMMA MoveType ==
    ASSUME TypeOK, NEW d \in Int \X Int, Move(d), UNCHANGED running
    PROVE  TypeOK'
<1>1. pos \in Point /\ d \in Point
  BY PosType, PairIsPoint
<1>2. Resolved(pos, d) \in Point
  BY <1>1, WalkType
<1>3. End(d)[1] \in Int /\ End(d)[2] \in Int
  BY <1>1, <1>2 DEF End, Point, Axes
<1>4. Clamped(End(d)) \in (0 .. Size[1] - 1) \X (0 .. Size[2] - 1)
  BY <1>3, ClampIn DEF Clamped, Axes
<1>5. pos' \in (0 .. Size[1] - 1) \X (0 .. Size[2] - 1)
  BY <1>4 DEF Move
<1>6. strayed' \in BOOLEAN
  BY DEF Move, TypeOK
<1>7. /\ asked' \in Int \X Int /\ late' \in BOOLEAN
      /\ UNCHANGED <<screen, showing, walls, running>>
  BY DEF Move
<1>8. QED
  BY <1>5, <1>6, <1>7 DEF TypeOK

LEMMA NextType == ASSUME TypeOK, [Next]_vars PROVE TypeOK'
<1>1. CASE Frame /\ UNCHANGED running
  <2>1. CASE ShowScreen
    BY <1>1, <2>1 DEF ShowScreen, TypeOK
  <2>2. CASE LeaveSplash
    BY <1>1, <2>2 DEF LeaveSplash, TypeOK
  <2>3. CASE LeaveOpeningBg
    BY <1>1, <2>3 DEF LeaveOpeningBg, TypeOK
  <2>4. CASE LeaveOpeningFg
    BY <1>1, <2>4 DEF LeaveOpeningFg, TypeOK
  <2>5. ASSUME NEW x \in -1 .. 1, NEW y \in -1 .. 1,
               NEW step \in IF late THEN {LongStep} ELSE Steps,
               Move(<<x * step, y * step>>)
        PROVE  TypeOK'
    <3>1. step \in Nat
      BY SizeFacts
    <3>2. QED
      BY <1>1, <2>5, <3>1, KeysGive, MoveType
  <2>6. QED
    BY <1>1, <2>1, <2>2, <2>3, <2>4, <2>5 DEF Frame
<1>2. CASE Escape
  BY <1>2 DEF Escape, TypeOK
<1>3. CASE UNCHANGED vars
  BY <1>3 DEF vars, TypeOK
<1>4. QED
  BY <1>1, <1>2, <1>3 DEF Next

(* RenderGameFg: whatever resolveCollision leaves of the displacement, the *)
(* character stays on the map.                                             *)
THEOREM TypeCorrect == Spec => []TypeOK
<1>1. TypeOK /\ [Next]_vars => TypeOK'
  BY NextType
<1>2. QED
  BY <1>1, InitType, PTL DEF Spec

-----------------------------------------------------------------------------
(* A displacement along one axis.  The other axis has infinite times: its  *)
(* edges must lie on both sides of the character for a wall to be hit.     *)

LEMMA EdgesApart ==
    ASSUME NEW p \in Point, NEW w \in Cell, NEW i \in Axes
    PROVE  /\ LowEdge(p, w, i) \in Int /\ HighEdge(p, w, i) \in Int
           /\ HighEdge(p, w, i) = LowEdge(p, w, i) + 2 * U
<1>1. w[i] \in Int /\ p[i] \in Int
  BY DEF Cell, Axes, Point
<1>2. (w[i] - 1) * U = w[i] * U - U /\ (w[i] + 1) * U = w[i] * U + U /\ w[i] * U \in Int
  BY <1>1, SizeFacts
<1>3. QED
  BY <1>1, <1>2, SizeFacts DEF LowEdge, HighEdge

LEMMA TimesOfStep ==
    ASSUME NEW n \in Int, NEW d \in Int
    PROVE  /\ d > 0 => Time(n, d) = <<n, d>>
           /\ d < 0 => Time(n, d) = <<-n, -d>>
           /\ d = 0 /\ n > 0 => Time(n, d) = <<Huge, 1>>
           /\ d = 0 /\ n < 0 => Time(n, d) = <<-Huge, 1>>
<1>1. Huge \in Int
  BY SizeFacts DEF Huge
<1>2. CASE d > 0
  BY <1>2 DEF Time, Sgn
<1>3. CASE d < 0
  BY <1>3 DEF Time, Sgn
<1>4. CASE d = 0
  <2>1. Time(n, d) = <<Sgn(n) * Huge, 1>>
    BY <1>4 DEF Time
  <2>2. n > 0 => Sgn(n) * Huge = Huge
    BY <1>1 DEF Sgn
  <2>3. n < 0 => Sgn(n) * Huge = -Huge
    BY <1>1 DEF Sgn
  <2>4. QED
    BY <1>4, <2>1, <2>2, <2>3
<1>5. QED
  BY <1>2, <1>3, <1>4

LEMMA NearAndFar ==
    ASSUME NEW p \in Point, NEW d \in Point, NEW w \in Cell, NEW i \in Axes
    PROVE  /\ d[i] > 0 => /\ Near(p, d, w, i) = <<LowEdge(p, w, i), d[i]>>
                          /\ Far(p, d, w, i) = <<HighEdge(p, w, i), d[i]>>
           /\ d[i] < 0 => /\ Near(p, d, w, i) = <<-HighEdge(p, w, i), -d[i]>>
                          /\ Far(p, d, w, i) = <<-LowEdge(p, w, i), -d[i]>>
           /\ d[i] = 0 /\ LowEdge(p, w, i) > 0 =>
                Near(p, d, w, i) = <<Huge, 1>> /\ Far(p, d, w, i) = <<Huge, 1>>
           /\ d[i] = 0 /\ HighEdge(p, w, i) < 0 =>
                Near(p, d, w, i) = <<-Huge, 1>> /\ Far(p, d, w, i) = <<-Huge, 1>>
           /\ d[i] = 0 /\ LowEdge(p, w, i) < 0 /\ HighEdge(p, w, i) > 0 =>
                Near(p, d, w, i) = <<-Huge, 1>> /\ Far(p, d, w, i) = <<Huge, 1>>
<1> DEFINE lo == LowEdge(p, w, i)
           hi == HighEdge(p, w, i)
           s == d[i]
<1>1. s \in Int /\ lo \in Int /\ hi \in Int /\ lo <= hi
  BY EdgesApart, SizeFacts DEF Point
<1>2. /\ Near(p, d, w, i) = Sooner(Time(lo, s), Time(hi, s))
      /\ Far(p, d, w, i) = Later(Time(lo, s), Time(hi, s))
  BY DEF Near, Far
<1>3. Huge \in Nat
  BY SizeFacts DEF Huge
<1> HIDE DEF lo, hi, s
<1>4. CASE s > 0
  <2>1. Time(lo, s) = <<lo, s>> /\ Time(hi, s) = <<hi, s>>
    BY <1>1, <1>4, TimesOfStep
  <2>2. lo * s <= hi * s
    BY <1>1, <1>4, Multiples
  <2>3. ~Before(<<hi, s>>, <<lo, s>>)
    BY <1>1, <2>2 DEF Before
  <2>4. lo = hi \/ Before(<<lo, s>>, <<hi, s>>)
    BY <1>1, <1>4, StrictMultiples DEF Before
  <2>5. Near(p, d, w, i) = <<lo, s>>
    BY <1>2, <2>1, <2>3 DEF Sooner
  <2>6. Far(p, d, w, i) = <<hi, s>>
    BY <1>2, <2>1, <2>4 DEF Later
  <2>7. ~(s < 0) /\ s # 0
    BY <1>1, <1>4
  <2>8. QED
    BY <2>5, <2>6, <2>7 DEF lo, hi, s
<1>5. CASE s < 0
  <2>1. Time(lo, s) = <<-lo, -s>> /\ Time(hi, s) = <<-hi, -s>>
    BY <1>1, <1>5, TimesOfStep
  <2>2. -s \in Nat /\ -s >= 1 /\ -lo \in Int /\ -hi \in Int /\ -hi <= -lo
    BY <1>1, <1>5
  <2>3. (-hi) * (-s) <= (-lo) * (-s)
    BY <2>2, Multiples
  <2>4. ~Before(<<-lo, -s>>, <<-hi, -s>>)
    BY <1>1, <2>3 DEF Before
  <2>5. lo = hi \/ Before(<<-hi, -s>>, <<-lo, -s>>)
    BY <1>1, <2>2, StrictMultiples DEF Before
  <2>6. Near(p, d, w, i) = <<-hi, -s>>
    BY <1>2, <2>1, <2>5 DEF Sooner
  <2>7. Far(p, d, w, i) = <<-lo, -s>>
    BY <1>2, <2>1, <2>4 DEF Later
  <2>8. ~(s > 0) /\ s # 0
    BY <1>1, <1>5
  <2>9. QED
    BY <2>6, <2>7, <2>8 DEF lo, hi, s
<1>6. CASE s = 0
  <2>1. CASE lo > 0
    <3>1. Time(lo, s) = <<Huge, 1>> /\ Time(hi, s) = <<Huge, 1>>
      BY <1>1, <1>6, <2>1, TimesOfStep
    <3>2. QED
      BY <1>1, <1>2, <1>6, <2>1, <3>1 DEF Sooner, Later, lo, hi, s
  <2>2. CASE hi < 0
    <3>1. Time(lo, s) = <<-Huge, 1>> /\ Time(hi, s) = <<-Huge, 1>>
      BY <1>1, <1>6, <2>2, TimesOfStep
    <3>2. QED
      BY <1>1, <1>2, <1>6, <2>2, <3>1 DEF Sooner, Later, lo, hi, s
  <2>3. CASE lo < 0 /\ hi > 0
    <3>1. Time(lo, s) = <<-Huge, 1>> /\ Time(hi, s) = <<Huge, 1>>
      BY <1>1, <1>6, <2>3, TimesOfStep
    <3>2. ~Before(<<Huge, 1>>, <<-Huge, 1>>)
      BY <1>3 DEF Before
    <3>3. Huge = -Huge \/ Before(<<-Huge, 1>>, <<Huge, 1>>)
      BY <1>3 DEF Before
    <3>4. QED
      BY <1>1, <1>2, <1>6, <2>3, <3>1, <3>2, <3>3 DEF Sooner, Later, lo, hi, s
  <2>4. QED
    BY <1>1, <1>6, <2>1, <2>2, <2>3 DEF lo, hi, s
<1>7. QED
  BY <1>1, <1>4, <1>5, <1>6

\* The infinities are beyond every time of a wall around the character.
LEMMA HugeIsBeyond ==
    ASSUME NEW t \in Times, -Huge < t[1], t[1] < Huge
    PROVE  /\ Before(t, <<Huge, 1>>) /\ ~Before(<<Huge, 1>>, t)
           /\ Before(<<-Huge, 1>>, t) /\ ~Before(t, <<-Huge, 1>>)
<1> DEFINE n == t[1]
           d == t[2]
<1>1. n \in Int /\ d \in Nat /\ d >= 1 /\ Huge \in Nat
  BY SizeFacts DEF Times, Huge
<1>2. 1 * Huge <= d * Huge
  BY <1>1, Multiples
<1>3. Huge <= Huge * d /\ Huge * d \in Int /\ (-Huge) * d = -(Huge * d)
  BY <1>1, <1>2
<1>4. n * 1 = n
  BY <1>1
<1>5. n < Huge * d /\ (-Huge) * d < n
  BY <1>1, <1>3
<1>6. QED
  BY <1>1, <1>3, <1>4, <1>5 DEF Before

LEMMA HugeIsHuge == Huge \in Nat /\ Huge >= 1000 * U
<1>1. 1000 * U \in Nat /\ 1 * (1000 * U) <= LongStep * (1000 * U)
  BY SizeFacts, Multiples
<1>2. Huge = LongStep * (1000 * U)
  BY SizeFacts DEF Huge
<1>3. QED
  BY <1>1, <1>2, SizeFacts

\* The character's side is in front of the wall's along the axis i.
Facing(p, w, i) == LowEdge(p, w, i) < 0 /\ HighEdge(p, w, i) > 0

LEMMA AxisTimes ==
    ASSUME NEW p \in Point, NEW d \in Point, NEW w \in Cell, NEW i \in Axes,
           d[3 - i] = 0, d[i] # 0,
           -Huge < LowEdge(p, w, i), HighEdge(p, w, i) < Huge
    PROVE  /\ Facing(p, w, 3 - i) => HitTime(p, d, w) = Near(p, d, w, i) /\ Contact(p, d, w) = {i}
           /\ Hits(p, d, w) <=> /\ Facing(p, w, 3 - i)
                                /\ ~Before(Far(p, d, w, i), <<0, 1>>)
                                /\ ~Before(Near(p, d, w, i), <<-1, 1>>)
                                /\ Before(Near(p, d, w, i), <<1, 1>>)
<1> DEFINE j == 3 - i
           near == Near(p, d, w, i)
           far == Far(p, d, w, i)
           nj == Near(p, d, w, j)
           fj == Far(p, d, w, j)
           lo == LowEdge(p, w, j)
           hi == HighEdge(p, w, j)
<1>1. j \in Axes /\ i # j /\ \A a \in Axes : a = i \/ a = j
  BY DEF Axes
<1>2. near \in Times /\ far \in Times /\ -Huge < near[1] /\ near[1] < Huge
      /\ -Huge < far[1] /\ far[1] < Huge
  <2>1. /\ LowEdge(p, w, i) \in Int /\ HighEdge(p, w, i) \in Int
        /\ LowEdge(p, w, i) <= HighEdge(p, w, i) /\ Huge \in Nat /\ d[i] \in Int
    BY EdgesApart, SizeFacts DEF Huge, Point
  <2>2. d[i] > 0 \/ d[i] < 0
    BY <2>1
  <2>3. near \in Times /\ far \in Times
    BY WallType
  <2>4. CASE d[i] > 0
    <3>1. near = <<LowEdge(p, w, i), d[i]>> /\ far = <<HighEdge(p, w, i), d[i]>>
      BY <2>4, NearAndFar
    <3>2. QED
      BY <2>1, <2>3, <3>1
  <2>5. CASE d[i] < 0
    <3>1. near = <<-HighEdge(p, w, i), -d[i]>> /\ far = <<-LowEdge(p, w, i), -d[i]>>
      BY <2>5, NearAndFar
    <3>2. QED
      BY <2>1, <2>3, <3>1
  <2>6. QED
    BY <2>2, <2>4, <2>5
<1>3. /\ Before(near, <<Huge, 1>>) /\ ~Before(<<Huge, 1>>, near)
      /\ Before(<<-Huge, 1>>, near) /\ ~Before(near, <<-Huge, 1>>)
      /\ Before(far, <<Huge, 1>>) /\ ~Before(<<Huge, 1>>, far)
      /\ Before(<<-Huge, 1>>, far) /\ ~Before(far, <<-Huge, 1>>)
  <2> HIDE DEF near, far
  <2>1. QED
    BY <1>2, HugeIsBeyond
<1>4. /\ lo > 0 => nj = <<Huge, 1>> /\ fj = <<Huge, 1>>
      /\ hi < 0 => nj = <<-Huge, 1>> /\ fj = <<-Huge, 1>>
      /\ lo < 0 /\ hi > 0 => nj = <<-Huge, 1>> /\ fj = <<Huge, 1>>
  BY <1>1, NearAndFar
<1>5. NotANumber(p, d, w) <=> lo = 0 \/ hi = 0
  BY <1>1 DEF NotANumber
<1>6. lo \in Int /\ hi \in Int
  BY <1>1, EdgesApart
<1>7. HitTime(p, d, w) \in {Later(near, nj), Later(nj, near)}
  BY DEF HitTime, Axes
<1>8. Sooner(Far(p, d, w, 1), Far(p, d, w, 2)) \in {Sooner(far, fj), Sooner(fj, far)}
  BY DEF Axes
<1>9. \A a \in Axes : a \in Contact(p, d, w) <=> Before(Near(p, d, w, 3 - a), Near(p, d, w, a))
  BY DEF Contact
<1>10. Facing(p, w, j) <=> lo < 0 /\ hi > 0
  BY DEF Facing
<1>11. Hits(p, d, w) <=> /\ ~NotANumber(p, d, w)
                         /\ ~Before(far, nj) /\ ~Before(fj, near)
                         /\ ~Before(Sooner(Far(p, d, w, 1), Far(p, d, w, 2)), <<0, 1>>)
                         /\ ~Before(HitTime(p, d, w), <<-1, 1>>)
                         /\ Before(HitTime(p, d, w), <<1, 1>>)
  BY DEF Hits, Axes
<1>12. 3 - j = i
  BY DEF Axes
<1>13. Contact(p, d, w) \subseteq Axes
  BY DEF Contact
<1>14. i \in Contact(p, d, w) <=> Before(nj, near)
  BY <1>9
<1>15. j \in Contact(p, d, w) <=> Before(near, nj)
  BY <1>1, <1>9, <1>12
<1> HIDE DEF near, far, nj, fj, lo, hi, j
<1>16. CASE lo < 0 /\ hi > 0
  <2>1. nj = <<-Huge, 1>> /\ fj = <<Huge, 1>>
    BY <1>4, <1>16
  <2>2. HitTime(p, d, w) = near
    BY <1>3, <1>7, <2>1 DEF Later
  <2>3. Sooner(Far(p, d, w, 1), Far(p, d, w, 2)) = far
    BY <1>3, <1>8, <2>1 DEF Sooner
  <2>4. Contact(p, d, w) = {i}
    BY <1>1, <1>3, <1>13, <1>14, <1>15, <2>1
  <2>5. ~NotANumber(p, d, w)
    BY <1>5, <1>6, <1>16
  <2>6. ~Before(far, nj) /\ ~Before(fj, near)
    BY <1>3, <2>1
  <2>7. Hits(p, d, w) <=> /\ ~Before(far, <<0, 1>>)
                          /\ ~Before(near, <<-1, 1>>) /\ Before(near, <<1, 1>>)
    BY <1>11, <2>2, <2>3, <2>5, <2>6
  <2>8. QED
    BY <1>10, <1>16, <2>2, <2>4, <2>7 DEF near, far, j
<1>17. CASE ~(lo < 0 /\ hi > 0)
  <2>1. lo = 0 \/ hi = 0 \/ lo > 0 \/ hi < 0
    BY <1>6, <1>17
  <2>2. ~Hits(p, d, w)
    BY <1>3, <1>4, <1>5, <1>11, <2>1
  <2>3. ~Facing(p, w, 3 - i)
    BY <1>10, <1>17 DEF j
  <2>4. QED
    BY <2>2, <2>3
<1>18. QED
  BY <1>16, <1>17

\* What a displacement of e along the axis i, and none along the other, hits,
\* when, and what is left of it.
LEMMA AxisHits ==
    ASSUME NEW p \in Point, NEW d \in Point, NEW w \in Cell, NEW i \in Axes,
           d[3 - i] = 0,
           -Huge < LowEdge(p, w, i), HighEdge(p, w, i) < Huge
    PROVE  LET lo == LowEdge(p, w, i)
               hi == HighEdge(p, w, i)
           IN  /\ d[i] = 0 => ~Hits(p, d, w)
               /\ d[i] > 0 => (Hits(p, d, w) <=> /\ Facing(p, w, 3 - i)
                                                 /\ hi >= 0 /\ lo >= -d[i] /\ lo < d[i])
               /\ d[i] < 0 => (Hits(p, d, w) <=> /\ Facing(p, w, 3 - i)
                                                 /\ lo <= 0 /\ hi <= -d[i] /\ hi > d[i])
               /\ ~Hits(p, d, w) => Resolve(p, d, w) = d
               /\ Hits(p, d, w) =>
                    /\ HitTime(p, d, w) = IF d[i] > 0 THEN <<lo, d[i]>> ELSE <<-hi, -d[i]>>
                    /\ Resolve(p, d, w)[i] = IF d[i] > 0 THEN lo ELSE hi
                    /\ Resolve(p, d, w)[3 - i] = 0
<1> DEFINE lo == LowEdge(p, w, i)
           hi == HighEdge(p, w, i)
           e == d[i]
<1>1. e \in Int /\ lo \in Int /\ hi \in Int
  BY EdgesApart DEF Point
<1>2. ~Hits(p, d, w) => Resolve(p, d, w) = d
  BY DEF Resolve
<1>3. 3 - i \in Axes /\ 3 - i # i
  BY DEF Axes
<1>4. CASE e = 0
  <2>1. ~Hits(p, d, w)
    <3> DEFINE far == Far(p, d, w, 1)
               near == HitTime(p, d, w)
    <3>1. \A a \in Axes : d[a] = 0
      BY <1>4 DEF Axes
    <3>2. \A a \in Axes : LowEdge(p, w, a) \in Int /\ HighEdge(p, w, a) \in Int
      BY EdgesApart
    <3>3. CASE NotANumber(p, d, w)
      BY <3>3 DEF Hits
    <3>4. CASE ~NotANumber(p, d, w)
      <4>1. \A a \in Axes : LowEdge(p, w, a) # 0 /\ HighEdge(p, w, a) # 0
        BY <3>1, <3>4 DEF NotANumber
      <4>2. \A a \in Axes : Near(p, d, w, a) \in {<<Huge, 1>>, <<-Huge, 1>>}
        <5> TAKE a \in Axes
        <5>1. \/ LowEdge(p, w, a) > 0 \/ HighEdge(p, w, a) < 0
              \/ LowEdge(p, w, a) < 0 /\ HighEdge(p, w, a) > 0
          BY <3>2, <4>1
        <5>2. QED
          BY <3>1, <5>1, NearAndFar
      <4>3. HitTime(p, d, w) \in {<<Huge, 1>>, <<-Huge, 1>>}
        BY <4>2 DEF HitTime, Later, Axes
      <4>4. Huge \in Nat /\ Huge > 1
        BY SizeFacts, HugeIsHuge
      <4>5. ~Before(<<Huge, 1>>, <<1, 1>>) /\ Before(<<-Huge, 1>>, <<-1, 1>>)
        BY <4>4 DEF Before
      <4>6. QED
        BY <4>3, <4>5 DEF Hits
    <3>5. QED
      BY <3>3, <3>4
  <2>2. QED
    BY <1>1, <1>2, <1>4, <2>1
<1>5. CASE e > 0
  <2>1. Near(p, d, w, i) = <<lo, e>> /\ Far(p, d, w, i) = <<hi, e>>
    BY <1>5, NearAndFar
  <2>2. /\ Facing(p, w, 3 - i) => HitTime(p, d, w) = <<lo, e>> /\ Contact(p, d, w) = {i}
        /\ Hits(p, d, w) <=> /\ Facing(p, w, 3 - i)
                             /\ ~Before(<<hi, e>>, <<0, 1>>)
                             /\ ~Before(<<lo, e>>, <<-1, 1>>)
                             /\ Before(<<lo, e>>, <<1, 1>>)
    BY <1>1, <1>5, <2>1, AxisTimes
  <2>3. /\ Before(<<hi, e>>, <<0, 1>>) <=> hi < 0
        /\ Before(<<lo, e>>, <<-1, 1>>) <=> lo < -e
        /\ Before(<<lo, e>>, <<1, 1>>) <=> lo < e
    BY <1>1 DEF Before
  <2>4. Hits(p, d, w) =>
            Resolve(p, d, w) = [a \in Axes |-> IF a \notin {i} THEN d[a]
                                    ELSE IF d[a] > 0 THEN LowEdge(p, w, a)
                                    ELSE HighEdge(p, w, a)]
    BY <2>2 DEF Resolve
  <2>5. Hits(p, d, w) => Resolve(p, d, w)[i] = lo /\ Resolve(p, d, w)[3 - i] = 0
    BY <1>3, <1>5, <2>4
  <2>6. ~(e < 0) /\ e # 0
    BY <1>1, <1>5
  <2>7. Hits(p, d, w) <=> Facing(p, w, 3 - i) /\ hi >= 0 /\ lo >= -e /\ lo < e
    BY <1>1, <2>2, <2>3
  <2>8. QED
    BY <1>2, <1>5, <2>2, <2>5, <2>6, <2>7
<1>6. CASE e < 0
  <2>1. Near(p, d, w, i) = <<-hi, -e>> /\ Far(p, d, w, i) = <<-lo, -e>>
    BY <1>6, NearAndFar
  <2>2. /\ Facing(p, w, 3 - i) => HitTime(p, d, w) = <<-hi, -e>> /\ Contact(p, d, w) = {i}
        /\ Hits(p, d, w) <=> /\ Facing(p, w, 3 - i)
                             /\ ~Before(<<-lo, -e>>, <<0, 1>>)
                             /\ ~Before(<<-hi, -e>>, <<-1, 1>>)
                             /\ Before(<<-hi, -e>>, <<1, 1>>)
    BY <1>1, <1>6, <2>1, AxisTimes
  <2>3. /\ Before(<<-lo, -e>>, <<0, 1>>) <=> -lo < 0
        /\ Before(<<-hi, -e>>, <<-1, 1>>) <=> -hi < e
        /\ Before(<<-hi, -e>>, <<1, 1>>) <=> -hi < -e
    BY <1>1 DEF Before
  <2>4. Hits(p, d, w) =>
            Resolve(p, d, w) = [a \in Axes |-> IF a \notin {i} THEN d[a]
                                    ELSE IF d[a] > 0 THEN LowEdge(p, w, a)
                                    ELSE HighEdge(p, w, a)]
    BY <2>2 DEF Resolve
  <2>5. ~(e > 0) /\ e # 0
    BY <1>1, <1>6
  <2>6. Hits(p, d, w) => Resolve(p, d, w)[i] = hi /\ Resolve(p, d, w)[3 - i] = 0
    BY <1>3, <2>4, <2>5
  <2>7. Hits(p, d, w) <=> Facing(p, w, 3 - i) /\ lo <= 0 /\ hi <= -e /\ hi > e
    BY <1>1, <2>2, <2>3
  <2>8. QED
    BY <1>2, <1>6, <2>2, <2>5, <2>6, <2>7
<1>7. QED
  BY <1>1, <1>4, <1>5, <1>6

-----------------------------------------------------------------------------
(* Walls by their place around the character. *)

\* How far the character is past the corner of its cell.
Rest(p, i) == p[i] - CellOf(p)[i] * U

LEMMA RestType ==
    ASSUME NEW p \in Point, NEW i \in Axes
    PROVE  /\ Rest(p, i) \in Nat /\ Rest(p, i) < U
           /\ p[i] \in Int /\ CellOf(p)[i] \in Int /\ CellOf(p)[i] * U \in Int
           /\ p[i] = CellOf(p)[i] * U + Rest(p, i)
<1>1. p[i] \in Int /\ CellOf(p)[i] \in Int
  BY CellType DEF Point
<1>2. CellOf(p)[i] * U \in Int
  BY <1>1, SizeFacts
<1>3. QED
  BY <1>1, <1>2, CellType, SizeFacts DEF Rest

LEMMA OtherAxis ==
    ASSUME NEW i \in Axes
    PROVE  3 - i \in Axes /\ 3 - i # i /\ 3 - (3 - i) = i /\ \A a \in Axes : a \in {i, 3 - i}
BY DEF Axes

LEMMA Offsets ==
    ASSUME NEW k \in 1..8, NEW i \in Axes
    PROVE  /\ Surround[k][i] \in {-1, 0, 1} /\ Surround[k][3 - i] \in {-1, 0, 1}
           /\ Surround[k][i] = 0 => Surround[k][3 - i] # 0
<1>1. /\ Surround[k][1] \in {-1, 0, 1} /\ Surround[k][2] \in {-1, 0, 1}
      /\ Surround[k][1] # 0 \/ Surround[k][2] # 0
  BY SurroundIs
<1>2. QED
  BY <1>1 DEF Axes

LEMMA Edges ==
    ASSUME NEW p \in Point, NEW k \in 1..8, NEW i \in Axes
    PROVE  LET lo == LowEdge(p, CellAt(p, k), i)
               hi == HighEdge(p, CellAt(p, k), i)
           IN  /\ Surround[k][i] = -1 => lo = -(2 * U) - Rest(p, i) /\ hi = -Rest(p, i)
               /\ Surround[k][i] = 0 => lo = -U - Rest(p, i) /\ hi = U - Rest(p, i)
               /\ Surround[k][i] = 1 => lo = -Rest(p, i) /\ hi = 2 * U - Rest(p, i)
               /\ -Huge < lo /\ hi < Huge
<1> DEFINE a == Surround[k][i]
           c == CellOf(p)[i]
<1>1. a \in {-1, 0, 1} /\ c \in Int /\ c * U \in Int
  BY Offsets, RestType
<1>2. CellAt(p, k)[i] = c + a
  BY DEF CellAt, Axes
<1>3. /\ LowEdge(p, CellAt(p, k), i) = (c + a - 1) * U - p[i]
      /\ HighEdge(p, CellAt(p, k), i) = (c + a + 1) * U - p[i]
  <2> DEFINE x == CellAt(p, k)[i]
             y == c + a
  <2>1. /\ LowEdge(p, CellAt(p, k), i) = (x - 1) * U - p[i]
        /\ HighEdge(p, CellAt(p, k), i) = (x + 1) * U - p[i]
    BY DEF LowEdge, HighEdge
  <2>2. x = y
    BY <1>2
  <2> HIDE DEF x, y
  <2>3. /\ LowEdge(p, CellAt(p, k), i) = (y - 1) * U - p[i]
        /\ HighEdge(p, CellAt(p, k), i) = (y + 1) * U - p[i]
    BY <2>1, <2>2
  <2> HIDE DEF a, c
  <2>4. y \in Int /\ y - 1 = c + a - 1 /\ y + 1 = c + a + 1
    BY <1>1 DEF y
  <2>5. QED
    BY <2>3, <2>4
<1>4. /\ Rest(p, i) \in Nat /\ Rest(p, i) < U /\ p[i] \in Int /\ p[i] = c * U + Rest(p, i)
      /\ U \in Nat /\ U >= 1 /\ Huge \in Nat /\ Huge >= 1000 * U
  BY RestType, SizeFacts, HugeIsHuge
<1> HIDE DEF a, c
<1>5. CASE a = -1
  <2>1. (c + a - 1) * U = c * U - 2 * U /\ (c + a + 1) * U = c * U
    BY <1>1, <1>4, <1>5
  <2>2. QED
    BY <1>1, <1>3, <1>4, <1>5, <2>1 DEF a
<1>6. CASE a = 0
  <2>1. (c + a - 1) * U = c * U - U /\ (c + a + 1) * U = c * U + U
    BY <1>1, <1>4, <1>6
  <2>2. QED
    BY <1>1, <1>3, <1>4, <1>6, <2>1 DEF a
<1>7. CASE a = 1
  <2>1. (c + a - 1) * U = c * U /\ (c + a + 1) * U = c * U + 2 * U
    BY <1>1, <1>4, <1>7
  <2>2. QED
    BY <1>1, <1>3, <1>4, <1>7, <2>1 DEF a
<1>8. QED
  BY <1>1, <1>5, <1>6, <1>7

\* The wall at k is in front of the character for a displacement along i.
Ahead(p, k, i) ==
    Surround[k][3 - i] = 0 \/ (Surround[k][3 - i] = 1 /\ Rest(p, 3 - i) > 0)

\* A displacement of less than a tile along the axis i.
Along(d, i) == d \in Point /\ d[3 - i] = 0 /\ -U < d[i] /\ d[i] < U

LEMMA StepHits ==
    ASSUME NEW p \in Point, NEW i \in Axes, NEW d, Along(d, i), NEW k \in 1..8
    PROVE  LET w == CellAt(p, k)
               a == Surround[k][i]
               r == Rest(p, i)
           IN  /\ d[i] = 0 => ~Hits(p, d, w)
               /\ d[i] > 0 => (Hits(p, d, w) <=> Ahead(p, k, i) /\ a = 1 /\ r <= d[i])
               /\ d[i] < 0 => (Hits(p, d, w) <=>
                                /\ Ahead(p, k, i)
                                /\ (a = 0 /\ U - r <= -d[i]) \/ (a = -1 /\ r < -d[i]))
               /\ ~Hits(p, d, w) => Resolve(p, d, w) = d
               /\ Hits(p, d, w) =>
                    /\ Along(Resolve(p, d, w), i)
                    /\ Resolve(p, d, w)[i] = IF d[i] < 0 /\ a = 0 THEN U - r ELSE -r
               /\ Hits(p, d, w) /\ d[i] < 0 =>
                    HitTime(p, d, w) = IF a = 0 THEN <<-(U - r), -d[i]>> ELSE <<r, -d[i]>>
<1> DEFINE w == CellAt(p, k)
           a == Surround[k][i]
           r == Rest(p, i)
           lo == LowEdge(p, w, i)
           hi == HighEdge(p, w, i)
           e == d[i]
<1>1. /\ d \in Point /\ d[3 - i] = 0 /\ -U < e /\ e < U /\ e \in Int
      /\ r \in Nat /\ r < U /\ U \in Nat /\ a \in {-1, 0, 1}
  BY RestType, SizeFacts, Offsets DEF Along, Point
<1>2. Ahead(p, k, i) <=> Facing(p, w, 3 - i)
  <2> DEFINE b == Surround[k][3 - i]
             q == Rest(p, 3 - i)
             lj == LowEdge(p, w, 3 - i)
             hj == HighEdge(p, w, 3 - i)
  <2>1. 3 - i \in Axes
    BY OtherAxis
  <2>2. b \in {-1, 0, 1} /\ q \in Nat /\ q < U
    BY <2>1, Offsets, RestType
  <2>3. /\ b = -1 => lj = -(2 * U) - q /\ hj = -q
        /\ b = 0 => lj = -U - q /\ hj = U - q
        /\ b = 1 => lj = -q /\ hj = 2 * U - q
    BY <2>1, Edges
  <2>4. /\ Ahead(p, k, i) <=> b = 0 \/ (b = 1 /\ q > 0)
        /\ Facing(p, w, 3 - i) <=> lj < 0 /\ hj > 0
    BY DEF Ahead, Facing
  <2> HIDE DEF b, q, lj, hj
  <2>5. QED
    BY <1>1, <2>2, <2>3, <2>4, SizeFacts
<1>3. /\ a = -1 => lo = -(2 * U) - r /\ hi = -r
      /\ a = 0 => lo = -U - r /\ hi = U - r
      /\ a = 1 => lo = -r /\ hi = 2 * U - r
      /\ -Huge < lo /\ hi < Huge
  BY Edges
<1>4. w \in Cell
  BY CellType
<1> DEFINE H == Hits(p, d, w)
           R == Resolve(p, d, w)
           A == Ahead(p, k, i)
           t == HitTime(p, d, w)
<1>5. /\ e = 0 => ~H
      /\ e > 0 => (H <=> Facing(p, w, 3 - i) /\ hi >= 0 /\ lo >= -e /\ lo < e)
      /\ e < 0 => (H <=> Facing(p, w, 3 - i) /\ lo <= 0 /\ hi <= -e /\ hi > e)
      /\ ~H => R = d
      /\ H => /\ t = IF e > 0 THEN <<lo, e>> ELSE <<-hi, -e>>
              /\ R[i] = IF e > 0 THEN lo ELSE hi
              /\ R[3 - i] = 0
  <2> HIDE DEF w
  <2>1. QED
    BY <1>1, <1>3, <1>4, AxisHits
<1>6. R \in Point
  BY <1>1, <1>4, WallType
<1> HIDE DEF w, a, r, lo, hi, e, H, R, A, t
<1>7. lo \in Int /\ hi \in Int
  BY <1>1, <1>3
<1>8. e > 0 => (H <=> A /\ a = 1 /\ r <= e)
  BY <1>1, <1>2, <1>3, <1>5 DEF A
<1>9. e < 0 => (H <=> A /\ ((a = 0 /\ U - r <= -e) \/ (a = -1 /\ r < -e)))
  BY <1>1, <1>2, <1>3, <1>5 DEF A
<1>10. H => R[i] = IF e < 0 /\ a = 0 THEN U - r ELSE -r
  BY <1>1, <1>3, <1>5, <1>8, <1>9
<1>11. H => Along(R, i)
  <2>1. H => -U < R[i] /\ R[i] < U
    BY <1>1, <1>5, <1>8, <1>9, <1>10
  <2>2. QED
    BY <1>5, <1>6, <2>1 DEF Along
<1>12. H /\ e < 0 => t = IF a = 0 THEN <<-(U - r), -e>> ELSE <<r, -e>>
  <2> SUFFICES ASSUME H, e < 0 PROVE t = IF a = 0 THEN <<-(U - r), -e>> ELSE <<r, -e>>
    OBVIOUS
  <2>1. t = <<-hi, -e>>
    BY <1>1, <1>5
  <2>2. a = 0 \/ a = -1
    BY <1>9
  <2>3. CASE a = 0
    BY <1>3, <2>1, <2>3
  <2>4. CASE a = -1
    <3>1. -hi = r
      BY <1>1, <1>3, <2>4
    <3>2. QED
      BY <2>1, <2>4, <3>1
  <2>5. QED
    BY <2>2, <2>3, <2>4
<1>13. QED
  BY <1>5, <1>8, <1>9, <1>10, <1>11, <1>12 DEF w, a, r, e, H, R, A, t

\* The only wall beside the character that is in front of it.
LEMMA OneBeside ==
    ASSUME NEW p, NEW i \in Axes, NEW j \in 1..8, NEW k \in 1..8,
           Surround[j][i] = 0, Surround[k][i] = 0, Ahead(p, j, i), Ahead(p, k, i)
    PROVE  j = k
<1>1. Surround[j][3 - i] # 0 /\ Surround[k][3 - i] # 0
  BY Offsets
<1>2. Surround[j][3 - i] = 1 /\ Surround[k][3 - i] = 1
  BY <1>1 DEF Ahead
<1>3. QED
  BY <1>2, SurroundIs DEF Axes

\* Backwards, the wall beside the character is met before those behind it.
LEMMA BesideIsFirst ==
    ASSUME NEW p \in Point, NEW i \in Axes, NEW d, Along(d, i), d[i] < 0,
           NEW j \in HitWalls(p, d), NEW k \in HitWalls(p, d), Surround[k][i] = 0,
           MetBefore(p, d, j, k)
    PROVE  Surround[j][i] = 0
<1> SUFFICES ASSUME Surround[j][i] # 0 PROVE FALSE
  OBVIOUS
<1> DEFINE r == Rest(p, i)
           s == -d[i]
           tj == HitTime(p, d, CellAt(p, j))
           tk == HitTime(p, d, CellAt(p, k))
<1>1. /\ j \in 1..8 /\ k \in 1..8
      /\ Hits(p, d, CellAt(p, j)) /\ Hits(p, d, CellAt(p, k))
  BY DEF HitWalls
<1>2. tj = <<r, s>> /\ tk = <<-(U - r), s>>
  BY <1>1, StepHits
<1>3. r \in Nat /\ r < U /\ U \in Nat /\ s \in Nat /\ s >= 1
  BY RestType, SizeFacts DEF Along, Point
<1>4. MetBefore(p, d, j, k) => Before(tj, tk) \/ ~Before(tk, tj)
  BY DEF MetBefore
<1> HIDE DEF r, s, tj, tk
<1>5. -(U - r) * s < r * s /\ -(U - r) * s \in Int /\ r * s \in Int
  BY <1>3, StrictMultiples
<1>6. Before(tk, tj) /\ ~Before(tj, tk)
  BY <1>2, <1>3, <1>5 DEF Before
<1>7. QED
  BY <1>4, <1>6

\* What the walls in s leave of the displacement d along i: backwards, the wall
\* beside the character puts it out to the next cell, and every other wall puts
\* it back to the corner of its own.
LeftBy(p, d, i, s) ==
    IF s = {} THEN d[i]
    ELSE IF d[i] < 0 /\ \E k \in s : Surround[k][i] = 0 THEN U - Rest(p, i)
    ELSE -Rest(p, i)

LEMMA StepLeaves ==
    ASSUME NEW p \in Point, NEW i \in Axes, NEW d, Along(d, i)
    PROVE  /\ Along(Resolved(p, d), i)
           /\ Resolved(p, d)[i] = LeftBy(p, d, i, HitWalls(p, d))
<1> DEFINE D == HitWalls(p, d)
           r == Rest(p, i)
           Left(s) == LeftBy(p, d, i, s)
<1>1. d \in Point /\ d[i] \in Int /\ r \in Nat /\ r < U /\ U \in Nat
  BY RestType, SizeFacts DEF Along, Point
<1>2. PICK F : Walk(F, p, d)
  BY <1>1, WalkExists
<1> DEFINE T == {s \in SUBSET D : Along(F[s], i) /\ F[s][i] = Left(s)}
<1>3. IsFiniteSet(D)
  BY HitsAreFinite
<1>4. {} \in T
  BY <1>2 DEF Walk, LeftBy
<1>5. ASSUME NEW s \in SUBSET D, s # {}
      PROVE  \E x \in s : s \ {x} \in T => s \in T
  <2> DEFINE k == MetLast(p, d, s)
             v == F[s \ {k}]
             w == CellAt(p, k)
             a == Surround[k][i]
  <2>1. k \in s /\ k \in 1..8 /\ \A j \in s : j # k => MetBefore(p, d, j, k)
    BY <1>1, <1>5, LastHit
  <2>2. F[s] = Resolve(p, v, w)
    BY <1>2, <1>5 DEF Walk
  <2>3. Hits(p, d, w)
    BY <2>1 DEF HitWalls
  <2>4. a \in {-1, 0, 1}
    BY <2>1, Offsets
  <2> SUFFICES ASSUME Along(v, i), v[i] = Left(s \ {k})
               PROVE  Along(F[s], i) /\ F[s][i] = Left(s)
    BY <2>1
  <2>5. v[i] \in Int /\ v \in Point
    BY DEF Along, Point
  <2>6. /\ d[i] # 0
        /\ d[i] > 0 => a = 1 /\ r <= d[i] /\ Ahead(p, k, i)
        /\ d[i] < 0 => Ahead(p, k, i) /\ ((a = 0 /\ U - r <= -d[i]) \/ (a = -1 /\ r < -d[i]))
    BY <1>1, <2>1, <2>3, StepHits
  <2>7. CASE s \ {k} = {}
    <3>1. s = {k}
      BY <2>1, <2>7
    <3>2. v = d
      BY <1>2, <2>7 DEF Walk
    <3>3. Along(F[s], i) /\ F[s][i] = IF d[i] < 0 /\ a = 0 THEN U - r ELSE -r
      BY <2>1, <2>2, <2>3, <3>2, StepHits
    <3>4. Left(s) = IF d[i] < 0 /\ a = 0 THEN U - r ELSE -r
      BY <3>1 DEF LeftBy
    <3>5. QED
      BY <3>3, <3>4
  <2>8. CASE s \ {k} # {}
    <3>1. ASSUME ~Hits(p, v, w), Left(s) = Left(s \ {k})
          PROVE  Along(F[s], i) /\ F[s][i] = Left(s)
      <4>1. Resolve(p, v, w) = v
        BY <2>1, <3>1, StepHits
      <4>2. QED
        BY <2>2, <3>1, <4>1
    <3>2. CASE d[i] > 0
      <4>1. v[i] = -r /\ Left(s) = -r
        BY <1>1, <2>8, <3>2 DEF LeftBy
      <4>2. ~Hits(p, v, w)
        <5>1. CASE r = 0
          BY <2>1, <4>1, <5>1, StepHits
        <5>2. CASE r > 0
          <6>1. v[i] < 0 /\ a = 1
            BY <1>1, <2>6, <3>2, <4>1, <5>2
          <6>2. QED
            BY <2>1, <6>1, StepHits
        <5>3. QED
          BY <1>1, <5>1, <5>2
      <4>3. QED
        BY <3>1, <4>1, <4>2
    <3>3. CASE d[i] < 0 /\ a = 0
      <4>1. PICK j \in s : j # k
        BY <2>8
      <4>2. j \in D /\ k \in D /\ MetBefore(p, d, j, k)
        BY <2>1, <4>1
      <4>3. Surround[j][i] = 0
        BY <3>3, <4>2, BesideIsFirst
      <4>4. j \in 1..8 /\ Hits(p, d, CellAt(p, j))
        BY <4>2 DEF HitWalls
      <4>5. Ahead(p, j, i)
        BY <3>3, <4>4, StepHits
      <4>6. j = k
        BY <2>1, <2>6, <3>3, <4>3, <4>4, <4>5, OneBeside
      <4>7. QED
        BY <4>1, <4>6
    <3>4. CASE d[i] < 0 /\ a # 0
      <4>1. a = -1
        BY <2>6, <3>4
      <4>2. (\E j \in s : Surround[j][i] = 0) <=> (\E j \in s \ {k} : Surround[j][i] = 0)
        BY <3>4
      <4>3. Left(s) = Left(s \ {k})
        BY <2>8, <3>4, <4>2, <1>5 DEF LeftBy
      <4>4. v[i] = U - r \/ v[i] = -r
        BY <2>8 DEF LeftBy
      <4>5. ~Hits(p, v, w)
        <5>1. CASE v[i] > 0
          BY <2>1, <4>1, <5>1, StepHits
        <5>2. CASE v[i] = 0
          BY <2>1, <5>2, StepHits
        <5>3. CASE v[i] < 0
          <6>1. v[i] = -r /\ ~(r < -v[i])
            BY <1>1, <4>4, <5>3
          <6>2. QED
            BY <2>1, <4>1, <5>3, <6>1, StepHits
        <5>4. QED
          BY <2>5, <5>1, <5>2, <5>3
      <4>6. QED
        BY <3>1, <4>3, <4>5
    <3>5. QED
      BY <1>1, <2>6, <3>2, <3>3, <3>4
  <2>9. QED
    BY <2>7, <2>8
<1>6. SUBSET D \subseteq T
  <2> HIDE DEF D, T
  <2>1. QED
    BY <1>3, <1>4, <1>5, AlongSets
<1>7. QED
  BY <1>2, <1>6 DEF Walk

\* The cell that is a off along the axis i and b along the other is a wall.
Place(i, x, y) == IF i = 1 THEN <<x, y>> ELSE <<y, x>>

Wall(p, i, a, b) == Place(i, CellOf(p)[i] + a, CellOf(p)[3 - i] + b) \in walls

LEMMA AtPlace ==
    ASSUME NEW p, NEW i \in Axes, NEW k \in 1..8
    PROVE  CellAt(p, k) \in walls <=> Wall(p, i, Surround[k][i], Surround[k][3 - i])
<1>1. CASE i = 1
  <2>1. 3 - i = 2
    BY <1>1
  <2>2. QED
    BY <1>1, <2>1 DEF CellAt, Wall, Place
<1>2. CASE i = 2
  <2>1. 3 - i = 1
    BY <1>2
  <2>2. QED
    BY <1>2, <2>1 DEF CellAt, Wall, Place
<1>3. QED
  BY <1>1, <1>2 DEF Axes

LEMMA PlaceAt ==
    ASSUME NEW i \in Axes, NEW a \in -1 .. 1, NEW b \in -1 .. 1, a # 0 \/ b # 0
    PROVE  \E k \in 1..8 : Surround[k][i] = a /\ Surround[k][3 - i] = b
<1>1. CASE i = 1
  <2>1. 3 - i = 2
    BY <1>1
  <2>2. QED
    BY <1>1, <2>1, SurroundIs
<1>2. CASE i = 2
  <2>1. 3 - i = 1
    BY <1>2
  <2>2. QED
    BY <1>2, <2>1, SurroundIs
<1>3. QED
  BY <1>1, <1>2 DEF Axes

\* A wall in a column next to the character's, in front of it.
InColumn(p, i, a) == Wall(p, i, a, 0) \/ (Wall(p, i, a, 1) /\ Rest(p, 3 - i) > 0)

LEMMA AheadInColumn ==
    ASSUME NEW p, NEW i \in Axes, NEW a \in {-1, 1}
    PROVE  InColumn(p, i, a) <=>
            \E k \in 1..8 : CellAt(p, k) \in walls /\ Ahead(p, k, i) /\ Surround[k][i] = a
<1>1. a \in -1 .. 1 /\ a # 0
  OBVIOUS
<1>2. PICK k0 \in 1..8 : Surround[k0][i] = a /\ Surround[k0][3 - i] = 0
  BY <1>1, PlaceAt
<1>3. PICK k1 \in 1..8 : Surround[k1][i] = a /\ Surround[k1][3 - i] = 1
  BY <1>1, PlaceAt
<1>4. /\ CellAt(p, k0) \in walls <=> Wall(p, i, a, 0)
      /\ CellAt(p, k1) \in walls <=> Wall(p, i, a, 1)
  BY <1>2, <1>3, AtPlace
<1>5. ASSUME InColumn(p, i, a)
      PROVE  \E k \in 1..8 : CellAt(p, k) \in walls /\ Ahead(p, k, i) /\ Surround[k][i] = a
  <2>1. CASE Wall(p, i, a, 0)
    BY <1>2, <1>4, <2>1 DEF Ahead
  <2>2. CASE Wall(p, i, a, 1) /\ Rest(p, 3 - i) > 0
    BY <1>3, <1>4, <2>2 DEF Ahead
  <2>3. QED
    BY <1>5, <2>1, <2>2 DEF InColumn
<1>6. ASSUME NEW k \in 1..8, CellAt(p, k) \in walls, Ahead(p, k, i), Surround[k][i] = a
      PROVE  InColumn(p, i, a)
  BY <1>6, AtPlace DEF Ahead, InColumn
<1>7. QED
  BY <1>5, <1>6

LEMMA AheadBeside ==
    ASSUME NEW p, NEW i \in Axes
    PROVE  Wall(p, i, 0, 1) /\ Rest(p, 3 - i) > 0 <=>
            \E k \in 1..8 : CellAt(p, k) \in walls /\ Ahead(p, k, i) /\ Surround[k][i] = 0
<1>1. PICK k1 \in 1..8 : Surround[k1][i] = 0 /\ Surround[k1][3 - i] = 1
  BY PlaceAt
<1>2. CellAt(p, k1) \in walls <=> Wall(p, i, 0, 1)
  BY <1>1, AtPlace
<1>3. ASSUME Wall(p, i, 0, 1), Rest(p, 3 - i) > 0
      PROVE  \E k \in 1..8 : CellAt(p, k) \in walls /\ Ahead(p, k, i) /\ Surround[k][i] = 0
  BY <1>1, <1>2, <1>3 DEF Ahead
<1>4. ASSUME NEW k \in 1..8, CellAt(p, k) \in walls, Ahead(p, k, i), Surround[k][i] = 0
      PROVE  Wall(p, i, 0, 1) /\ Rest(p, 3 - i) > 0
  <2>1. Surround[k][3 - i] # 0
    BY <1>4, Offsets
  <2>2. Surround[k][3 - i] = 1 /\ Rest(p, 3 - i) > 0
    BY <1>4, <2>1 DEF Ahead
  <2>3. QED
    BY <1>4, <2>2, AtPlace
<1>5. QED
  BY <1>3, <1>4

\* Forwards along i.
LEMMA StepForward ==
    ASSUME NEW p \in Point, NEW i \in Axes, NEW d, Along(d, i), d[i] > 0
    PROVE  Resolved(p, d)[i] = IF Rest(p, i) <= d[i] /\ InColumn(p, i, 1)
                               THEN -Rest(p, i) ELSE d[i]
<1>1. d[i] \in Int
  BY DEF Along, Point
<1>2. \A k \in 1..8 : k \in HitWalls(p, d) <=>
            /\ CellAt(p, k) \in walls /\ Ahead(p, k, i)
            /\ Surround[k][i] = 1 /\ Rest(p, i) <= d[i]
  BY StepHits DEF HitWalls
<1>3. HitWalls(p, d) # {} <=> Rest(p, i) <= d[i] /\ InColumn(p, i, 1)
  <2>1. HitWalls(p, d) \subseteq 1..8
    BY DEF HitWalls
  <2>2. QED
    BY <1>2, <2>1, AheadInColumn
<1>4. Resolved(p, d)[i] = IF HitWalls(p, d) = {} THEN d[i] ELSE -Rest(p, i)
  <2>1. ~(d[i] < 0)
    BY <1>1
  <2>2. QED
    BY <2>1, StepLeaves DEF LeftBy
<1>5. QED
  BY <1>3, <1>4

\* Backwards along i.
LEMMA StepBackward ==
    ASSUME NEW p \in Point, NEW i \in Axes, NEW d, Along(d, i), d[i] < 0
    PROVE  Resolved(p, d)[i] =
             IF U - Rest(p, i) <= -d[i] /\ Wall(p, i, 0, 1) /\ Rest(p, 3 - i) > 0
             THEN U - Rest(p, i)
             ELSE IF Rest(p, i) < -d[i] /\ InColumn(p, i, -1) THEN -Rest(p, i) ELSE d[i]
<1> DEFINE D == HitWalls(p, d)
           r == Rest(p, i)
           e == d[i]
<1>1. \A k \in 1..8 : k \in D <=>
            /\ CellAt(p, k) \in walls /\ Ahead(p, k, i)
            /\ \/ Surround[k][i] = 0 /\ U - r <= -e
               \/ Surround[k][i] = -1 /\ r < -e
  BY StepHits DEF HitWalls
<1>2. D \subseteq 1..8
  BY DEF HitWalls
<1>3. (\E k \in D : Surround[k][i] = 0) <=> U - r <= -e /\ Wall(p, i, 0, 1) /\ Rest(p, 3 - i) > 0
  <2>1. Wall(p, i, 0, 1) /\ Rest(p, 3 - i) > 0 <=>
          \E k \in 1..8 : CellAt(p, k) \in walls /\ Ahead(p, k, i) /\ Surround[k][i] = 0
    BY AheadBeside
  <2> HIDE DEF D, r, e
  <2>2. ASSUME NEW k \in D, Surround[k][i] = 0
        PROVE  U - r <= -e /\ Wall(p, i, 0, 1) /\ Rest(p, 3 - i) > 0
    <3>1. k \in 1..8 /\ CellAt(p, k) \in walls /\ Ahead(p, k, i) /\ U - r <= -e
      BY <1>1, <1>2, <2>2
    <3>2. QED
      BY <2>1, <2>2, <3>1
  <2>3. ASSUME U - r <= -e, Wall(p, i, 0, 1), Rest(p, 3 - i) > 0
        PROVE  \E k \in D : Surround[k][i] = 0
    <3>1. PICK k \in 1..8 : CellAt(p, k) \in walls /\ Ahead(p, k, i) /\ Surround[k][i] = 0
      BY <2>1, <2>3
    <3>2. k \in D
      BY <1>1, <2>3, <3>1
    <3>3. QED
      BY <3>1, <3>2
  <2>4. QED
    BY <2>2, <2>3
<1>4. (\E k \in D : Surround[k][i] = -1) <=> r < -e /\ InColumn(p, i, -1)
  <2>1. InColumn(p, i, -1) <=>
          \E k \in 1..8 : CellAt(p, k) \in walls /\ Ahead(p, k, i) /\ Surround[k][i] = -1
    BY AheadInColumn
  <2> HIDE DEF D, r, e
  <2>2. ASSUME NEW k \in D, Surround[k][i] = -1
        PROVE  r < -e /\ InColumn(p, i, -1)
    <3>1. k \in 1..8 /\ CellAt(p, k) \in walls /\ Ahead(p, k, i) /\ r < -e
      BY <1>1, <1>2, <2>2
    <3>2. QED
      BY <2>1, <2>2, <3>1
  <2>3. ASSUME r < -e, InColumn(p, i, -1)
        PROVE  \E k \in D : Surround[k][i] = -1
    <3>1. PICK k \in 1..8 : CellAt(p, k) \in walls /\ Ahead(p, k, i) /\ Surround[k][i] = -1
      BY <2>1, <2>3
    <3>2. k \in D
      BY <1>1, <2>3, <3>1
    <3>3. QED
      BY <3>1, <3>2
  <2>4. QED
    BY <2>2, <2>3
<1>5. D = {} <=> ~(\E k \in D : Surround[k][i] = 0) /\ ~(\E k \in D : Surround[k][i] = -1)
  <2> HIDE DEF D, r, e
  <2>1. QED
    BY <1>1, <1>2
<1>6. Resolved(p, d)[i] = IF D = {} THEN e
                          ELSE IF \E k \in D : Surround[k][i] = 0 THEN U - r ELSE -r
  BY StepLeaves DEF LeftBy
<1> HIDE DEF D
<1>7. QED
  BY <1>3, <1>4, <1>5, <1>6

LEMMA StepNowhere ==
    ASSUME NEW p \in Point, NEW i \in Axes, NEW d, Along(d, i), d[i] = 0
    PROVE  Resolved(p, d)[i] = 0
<1>1. HitWalls(p, d) = {}
  BY StepHits DEF HitWalls
<1>2. QED
  BY <1>1, StepLeaves DEF LeftBy

-----------------------------------------------------------------------------
(* Walls the character has slipped into. *)

Small(r) == \E step \in Steps : r < step

\* Seen along i from its own cell: the cell is no wall, what it reaches into to
\* the right, below or across is less than a frame deep, and it is not caught
\* in a corner, between a wall on its right and one below.
Slipped(p, i) ==
    LET r == Rest(p, i)
        q == Rest(p, 3 - i)
    IN  /\ ~Wall(p, i, 0, 0)
        /\ Wall(p, i, 1, 0) /\ r > 0 => Small(r)
        /\ Wall(p, i, 0, 1) /\ q > 0 => Small(q)
        /\ Wall(p, i, 1, 1) /\ r > 0 /\ q > 0 => Small(r) \/ Small(q)
        /\ r > 0 /\ q > 0 => ~(Wall(p, i, 1, 0) /\ Wall(p, i, 0, 1))

LEMMA WallAcross ==
    ASSUME NEW p, NEW i \in Axes, NEW a, NEW b
    PROVE  Wall(p, 3 - i, a, b) <=> Wall(p, i, b, a)
<1>1. CASE i = 1
  <2>1. 3 - i = 2 /\ 3 - 2 = 1
    BY <1>1
  <2>2. QED
    BY <1>1, <2>1 DEF Wall, Place
<1>2. CASE i = 2
  <2>1. 3 - i = 1 /\ 3 - 1 = 2
    BY <1>2
  <2>2. QED
    BY <1>2, <2>1 DEF Wall, Place
<1>3. QED
  BY <1>1, <1>2 DEF Axes

LEMMA SlippedAcross ==
    ASSUME NEW p, NEW i \in Axes
    PROVE  Slipped(p, 3 - i) <=> Slipped(p, i)
<1>1. 3 - (3 - i) = i
  BY OtherAxis
<1>2. \A a, b : Wall(p, 3 - i, a, b) <=> Wall(p, i, b, a)
  BY WallAcross
<1>3. QED
  BY <1>1, <1>2 DEF Slipped

\* A character that stands r past the corner of a cell is in it.
LEMMA CellIs ==
    ASSUME NEW p \in Point, NEW i \in Axes, NEW c \in Int, NEW r \in Nat, r < U,
           p[i] = c * U + r
    PROVE  CellOf(p)[i] = c /\ Rest(p, i) = r
<1> DEFINE b == CellOf(p)[i]
           s == Rest(p, i)
<1>1. b \in Int /\ s \in Nat /\ s < U /\ p[i] = b * U + s /\ b * U \in Int
  BY RestType
<1>2. U \in Nat /\ U >= 1 /\ c * U \in Int
  BY SizeFacts
<1> HIDE DEF b, s
<1>3. ~(b < c)
  <2> SUFFICES ASSUME b < c PROVE FALSE
    OBVIOUS
  <2>1. b + 1 <= c /\ b + 1 \in Int
    BY <1>1
  <2>2. (b + 1) * U <= c * U
    BY <1>2, <2>1, Multiples
  <2>3. (b + 1) * U = b * U + U
    BY <1>1, <1>2
  <2>4. QED
    BY <1>1, <1>2, <2>2, <2>3
<1>4. ~(c < b)
  <2> SUFFICES ASSUME c < b PROVE FALSE
    OBVIOUS
  <2>1. c + 1 <= b /\ c + 1 \in Int
    BY <1>1
  <2>2. (c + 1) * U <= b * U
    BY <1>1, <1>2, <2>1, Multiples
  <2>3. (c + 1) * U = c * U + U
    BY <1>2
  <2>4. QED
    BY <1>1, <1>2, <2>2, <2>3
<1>5. b = c
  BY <1>1, <1>3, <1>4
<1>6. s = r
  BY <1>1, <1>2, <1>5
<1>7. QED
  BY <1>5, <1>6 DEF b, s

\* A character that has moved along i by e cells, to x past the corner.
Landed(p, q, i, e, x) ==
    /\ q \in Point /\ q[3 - i] = p[3 - i]
    /\ x \in Nat /\ x < U /\ q[i] = (CellOf(p)[i] + e) * U + x

LEMMA LandedWalls ==
    ASSUME NEW p \in Point, NEW q, NEW i \in Axes, NEW e \in {-1, 0, 1}, NEW x,
           Landed(p, q, i, e, x)
    PROVE  /\ \A a, b \in {-1, 0, 1} : Wall(q, i, a, b) <=> Wall(p, i, e + a, b)
           /\ Rest(q, i) = x /\ Rest(q, 3 - i) = Rest(p, 3 - i)
<1>1. /\ q \in Point /\ q[3 - i] = p[3 - i] /\ 3 - i \in Axes
      /\ x \in Nat /\ x < U /\ CellOf(p)[i] \in Int /\ CellOf(p)[i] + e \in Int
      /\ q[i] = (CellOf(p)[i] + e) * U + x
  BY OtherAxis, RestType DEF Landed
<1>2. CellOf(q)[i] = CellOf(p)[i] + e /\ Rest(q, i) = x
  BY <1>1, CellIs
<1>3. CellOf(q)[3 - i] = CellOf(p)[3 - i] /\ Rest(q, 3 - i) = Rest(p, 3 - i)
  BY <1>1 DEF CellOf, Rest
<1>4. ASSUME NEW a \in {-1, 0, 1}, NEW b \in {-1, 0, 1}
      PROVE  Wall(q, i, a, b) <=> Wall(p, i, e + a, b)
  <2>1. CellOf(q)[i] + a = CellOf(p)[i] + (e + a)
    BY <1>1, <1>2
  <2>2. QED
    BY <1>3, <2>1 DEF Wall
<1>5. QED
  BY <1>2, <1>3, <1>4

\* What has to hold of the walls around p for a character that lands there.
LEMMA SlippedAt ==
    ASSUME NEW p \in Point, NEW q, NEW i \in Axes, NEW e \in {-1, 0, 1}, NEW x,
           Landed(p, q, i, e, x)
    PROVE  LET y == Rest(p, 3 - i)
           IN  Slipped(q, i) <=>
                  /\ ~Wall(p, i, e, 0)
                  /\ Wall(p, i, e + 1, 0) /\ x > 0 => Small(x)
                  /\ Wall(p, i, e, 1) /\ y > 0 => Small(y)
                  /\ Wall(p, i, e + 1, 1) /\ x > 0 /\ y > 0 => Small(x) \/ Small(y)
                  /\ x > 0 /\ y > 0 => ~(Wall(p, i, e + 1, 0) /\ Wall(p, i, e, 1))
<1>1. /\ \A a, b \in {-1, 0, 1} : Wall(q, i, a, b) <=> Wall(p, i, e + a, b)
      /\ Rest(q, i) = x /\ Rest(q, 3 - i) = Rest(p, 3 - i)
  BY LandedWalls
<1>2. e + 0 = e
  OBVIOUS
<1>3. /\ Wall(q, i, 0, 0) <=> Wall(p, i, e, 0)
      /\ Wall(q, i, 1, 0) <=> Wall(p, i, e + 1, 0)
      /\ Wall(q, i, 0, 1) <=> Wall(p, i, e, 1)
      /\ Wall(q, i, 1, 1) <=> Wall(p, i, e + 1, 1)
  <2>1. /\ Wall(q, i, 0, 0) <=> Wall(p, i, e + 0, 0)
        /\ Wall(q, i, 0, 1) <=> Wall(p, i, e + 0, 1)
        /\ Wall(q, i, 1, 0) <=> Wall(p, i, e + 1, 0)
        /\ Wall(q, i, 1, 1) <=> Wall(p, i, e + 1, 1)
    BY <1>1
  <2>2. QED
    BY <1>2, <2>1
<1>4. QED
  BY <1>1, <1>3 DEF Slipped

-----------------------------------------------------------------------------
(* Walls the character overlaps. *)

LEMMA DistanceIs ==
    ASSUME NEW n \in Int
    PROVE  Distance(n) = IF n >= 0 THEN n ELSE -n
<1>1. CASE n > 0
  BY <1>1 DEF Distance, Sgn
<1>2. CASE n < 0
  BY <1>2 DEF Distance, Sgn
<1>3. CASE n = 0
  BY <1>3 DEF Distance, Sgn
<1>4. QED
  BY <1>1, <1>2, <1>3

LEMMA DepthIs ==
    ASSUME NEW p \in Point, NEW i \in Axes, NEW w \in Cell, NEW a \in Int,
           w[i] = CellOf(p)[i] + a
    PROVE  /\ a = 0 => Depth(p, w, i) = U - Rest(p, i)
           /\ a = 1 => Depth(p, w, i) = Rest(p, i)
           /\ a \notin {0, 1} => Depth(p, w, i) <= 0
<1> DEFINE c == CellOf(p)[i]
           r == Rest(p, i)
           x == p[i]
<1>1. /\ r \in Nat /\ r < U /\ U \in Nat /\ U >= 1 /\ x \in Int /\ c \in Int
      /\ c * U \in Int /\ x = c * U + r
  BY RestType, SizeFacts
<1>2. Depth(p, w, i) = U - Distance(x - (c + a) * U)
  BY DEF Depth
<1> HIDE DEF c, r, x
<1>3. (c + a) * U = c * U + a * U /\ a * U \in Int
  BY <1>1
<1>4. x - (c + a) * U = r - a * U /\ r - a * U \in Int
  BY <1>1, <1>3
<1>5. Depth(p, w, i) = U - (IF r - a * U >= 0 THEN r - a * U ELSE -(r - a * U))
  BY <1>2, <1>4, DistanceIs
<1>6. CASE a = 0
  <2>1. a * U = 0
    BY <1>1, <1>6
  <2>2. Depth(p, w, i) = U - r
    BY <1>1, <1>5, <2>1
  <2>3. QED
    BY <1>6, <2>2 DEF r
<1>7. CASE a = 1
  <2>1. a * U = U
    BY <1>1, <1>7
  <2>2. Depth(p, w, i) = r
    BY <1>1, <1>5, <2>1
  <2>3. QED
    BY <1>7, <2>2 DEF r
<1>8. CASE a <= -1
  <2>1. a * U <= (-1) * U
    BY <1>1, <1>8, Multiples
  <2>2. Depth(p, w, i) <= 0
    BY <1>1, <1>3, <1>5, <2>1
  <2>3. QED
    BY <1>8, <2>2
<1>9. CASE a >= 2
  <2>1. 2 * U <= a * U
    BY <1>1, <1>9, Multiples
  <2>2. Depth(p, w, i) <= 0
    BY <1>1, <1>3, <1>5, <2>1
  <2>3. QED
    BY <1>9, <2>2
<1>10. QED
  BY <1>6, <1>7, <1>8, <1>9

\* A wall that is overlapped lies on the character's cell, on its right, below
\* it or across.
Reaches(p, w, i, a, b) ==
    /\ a \in {0, 1} /\ b \in {0, 1} /\ Wall(p, i, a, b)
    /\ w[i] = CellOf(p)[i] + a
    /\ a = 1 => Rest(p, i) > 0
    /\ b = 1 => Rest(p, 3 - i) > 0
    /\ Depth(p, w, i) = IF a = 0 THEN U - Rest(p, i) ELSE Rest(p, i)
    /\ Depth(p, w, 3 - i) = IF b = 0 THEN U - Rest(p, 3 - i) ELSE Rest(p, 3 - i)

LEMMA PlaceIs ==
    ASSUME NEW i \in Axes, NEW w \in Cell
    PROVE  w = Place(i, w[i], w[3 - i])
<1>1. w = <<w[1], w[2]>>
  BY DEF Cell
<1>2. CASE i = 1
  <2>1. 3 - i = 2
    BY <1>2
  <2>2. QED
    BY <1>1, <1>2, <2>1 DEF Place
<1>3. CASE i = 2
  <2>1. 3 - i = 1
    BY <1>3
  <2>2. QED
    BY <1>1, <1>3, <2>1 DEF Place
<1>4. QED
  BY <1>2, <1>3 DEF Axes

LEMMA OverlapReaches ==
    ASSUME NEW p \in Point, NEW i \in Axes, NEW w \in walls, w \in Cell, Overlaps(p, w)
    PROVE  \E a, b : Reaches(p, w, i, a, b)
<1> DEFINE a == w[i] - CellOf(p)[i]
           b == w[3 - i] - CellOf(p)[3 - i]
<1>1. 3 - i \in Axes
  BY OtherAxis
<1>2. /\ a \in Int /\ w[i] = CellOf(p)[i] + a
      /\ b \in Int /\ w[3 - i] = CellOf(p)[3 - i] + b
  <2>1. w[i] \in Int /\ w[3 - i] \in Int
    BY <1>1 DEF Cell, Axes
  <2>2. CellOf(p)[i] \in Int /\ CellOf(p)[3 - i] \in Int
    BY <1>1, RestType
  <2>3. QED
    BY <2>1, <2>2
<1> HIDE DEF a, b
<1>3. Depth(p, w, i) > 0 /\ Depth(p, w, 3 - i) > 0
  BY <1>1 DEF Overlaps
<1>4. /\ a = 0 => Depth(p, w, i) = U - Rest(p, i)
      /\ a = 1 => Depth(p, w, i) = Rest(p, i)
      /\ a \notin {0, 1} => Depth(p, w, i) <= 0
  BY <1>2, DepthIs
<1>5. /\ b = 0 => Depth(p, w, 3 - i) = U - Rest(p, 3 - i)
      /\ b = 1 => Depth(p, w, 3 - i) = Rest(p, 3 - i)
      /\ b \notin {0, 1} => Depth(p, w, 3 - i) <= 0
  BY <1>1, <1>2, DepthIs
<1>6. Depth(p, w, i) \in Int /\ Depth(p, w, 3 - i) \in Int
  <2>1. \A n \in Int : Distance(n) \in Int
    BY DistanceIs
  <2>2. \A l \in Axes : p[l] - w[l] * U \in Int
    BY SizeFacts DEF Point, Cell, Axes
  <2>3. QED
    BY <1>1, <2>1, <2>2, SizeFacts DEF Depth
<1>7. a \in {0, 1} /\ b \in {0, 1}
  BY <1>3, <1>4, <1>5, <1>6
<1>8. Wall(p, i, a, b)
  BY <1>2, PlaceIs DEF Wall
<1>9. Reaches(p, w, i, a, b)
  BY <1>2, <1>3, <1>4, <1>5, <1>7, <1>8 DEF Reaches
<1>10. QED
  BY <1>9

LEMMA ReachesOverlap ==
    ASSUME NEW p \in Point, NEW i \in Axes, NEW a \in {0, 1}, NEW b \in {0, 1},
           Wall(p, i, a, b),
           a = 1 => Rest(p, i) > 0, b = 1 => Rest(p, 3 - i) > 0
    PROVE  \E w \in walls : /\ Overlaps(p, w)
                            /\ Depth(p, w, i) = IF a = 0 THEN U - Rest(p, i) ELSE Rest(p, i)
<1> DEFINE x == CellOf(p)[i] + a
           y == CellOf(p)[3 - i] + b
           w == Place(i, x, y)
<1>1. /\ 3 - i \in Axes /\ x \in Int /\ y \in Int
      /\ Rest(p, i) \in Nat /\ Rest(p, i) < U /\ U \in Nat
      /\ Rest(p, 3 - i) \in Nat /\ Rest(p, 3 - i) < U
  BY OtherAxis, RestType, SizeFacts
<1>2. w \in walls
  BY DEF Wall
<1>3. w \in Cell /\ w[i] = x /\ w[3 - i] = y
  <2> HIDE DEF x, y
  <2>1. CASE i = 1
    <3>1. 3 - i = 2 /\ w = <<x, y>>
      BY <2>1 DEF Place
    <3>2. QED
      BY <1>1, <2>1, <3>1 DEF Cell
  <2>2. CASE i = 2
    <3>1. 3 - i = 1 /\ w = <<y, x>>
      BY <2>2 DEF Place
    <3>2. QED
      BY <1>1, <2>2, <3>1 DEF Cell
  <2>3. QED
    BY <2>1, <2>2 DEF Axes
<1> HIDE DEF w
<1>4. Depth(p, w, i) = IF a = 0 THEN U - Rest(p, i) ELSE Rest(p, i)
  BY <1>3, DepthIs
<1>5. Depth(p, w, 3 - i) = IF b = 0 THEN U - Rest(p, 3 - i) ELSE Rest(p, 3 - i)
  BY <1>1, <1>3, DepthIs
<1>6. Depth(p, w, i) > 0 /\ Depth(p, w, 3 - i) > 0
  BY <1>1, <1>4, <1>5
<1>7. Overlaps(p, w)
  BY <1>6, OtherAxis DEF Overlaps
<1>8. QED
  BY <1>2, <1>4, <1>7

-----------------------------------------------------------------------------
(* A frame along one axis that does not stray. *)

LEMMA WallsAreCells ==
    ASSUME TypeOK, NEW w \in walls
    PROVE  w \in Cell
<1>1. walls \in SUBSET ((0 .. Width - 1) \X (0 .. Height - 1))
  BY WorldAssumption DEF WorldAssumption, TypeOK
<1>2. QED
  BY <1>1, SizeFacts DEF Cell

LEMMA EndsAlong ==
    ASSUME TypeOK, NEW i \in Axes, NEW d, Along(d, i), ~Strays(d, End(d))
    PROVE  LET q == Clamped(End(d))
               n == pos[i] + Resolved(pos, d)[i]
           IN  /\ q \in Point /\ q[3 - i] = pos[3 - i]
               /\ q[i] = IF n < 0 THEN 0 ELSE n
               /\ n \in Int /\ n < Size[i]
<1> DEFINE R == Resolved(pos, d)
           E == End(d)
           q == Clamped(E)
<1>1. pos \in Point /\ \A l \in Axes : pos[l] \in Int /\ pos[l] >= 0 /\ pos[l] < Size[l]
  BY PosType DEF Point
<1>2. R \in Point /\ R[3 - i] = 0
  BY <1>1, StepLeaves DEF Along
<1>3. 3 - i \in Axes /\ \A l \in Axes : l = i \/ l = 3 - i
  BY OtherAxis
<1>4. \A l \in Axes : E[l] = pos[l] + R[l] /\ E[l] \in Int
  BY <1>1, <1>2 DEF End, Axes, Point
<1>5. \A l \in Axes : E[l] < Size[l]
  BY <1>4, SizeType DEF Strays
<1>6. \A l \in Axes : q[l] = IF E[l] < 0 THEN 0 ELSE E[l]
  <2>1. \A l \in Axes : Clamp(E[l], l) = IF E[l] < 0 THEN 0 ELSE E[l]
    BY <1>4, <1>5, SizeType DEF Clamp
  <2>2. \A l \in Axes : q[l] = Clamp(E[l], l)
    BY DEF Clamped, Axes
  <2>3. QED
    BY <2>1, <2>2
<1>7. q \in Point
  <2>1. q = <<q[1], q[2]>>
    BY DEF Clamped
  <2>2. q[1] \in Int /\ q[2] \in Int
    BY <1>4, <1>6 DEF Axes
  <2>3. q \in Int \X Int
    <3> HIDE DEF q
    <3>1. QED
      BY <2>1, <2>2
  <2>4. QED
    BY <2>3, PairIsPoint
<1>8. q[3 - i] = pos[3 - i]
  <2>1. E[3 - i] = pos[3 - i]
    BY <1>1, <1>2, <1>3, <1>4
  <2>2. QED
    BY <1>1, <1>3, <1>6, <2>1
<1> HIDE DEF q, E, R
<1>9. q[i] = IF pos[i] + R[i] < 0 THEN 0 ELSE pos[i] + R[i]
  BY <1>4, <1>6
<1>10. pos[i] + R[i] \in Int /\ pos[i] + R[i] < Size[i]
  BY <1>4, <1>5
<1>11. QED
  BY <1>7, <1>8, <1>9, <1>10 DEF q, E, R

\* A frame that does not stray is not shorter than the character is deep in a
\* wall, on its right, across, or below.
LEMMA NotTooShort ==
    ASSUME TypeOK, NEW i \in Axes, NEW d, Along(d, i), d[i] # 0, ~Strays(d, End(d))
    PROVE  LET r == Rest(pos, i)
               q == Rest(pos, 3 - i)
               s == Distance(d[i])
           IN  /\ Wall(pos, i, 1, 0) /\ r > 0 => r <= s
               /\ Wall(pos, i, 1, 1) /\ r > 0 /\ q > 0 => r <= s
               /\ Wall(pos, i, 0, 1) /\ q > 0 => U - r <= s
<1> DEFINE r == Rest(pos, i)
           q == Rest(pos, 3 - i)
           s == Distance(d[i])
<1>1. pos \in Point /\ d[i] \in Int
  BY PosType DEF Along, Point
<1>2. r \in Nat /\ r < U /\ U \in Nat /\ s \in Int
  BY <1>1, RestType, SizeFacts, DistanceIs
<1>3. ASSUME NEW a \in {0, 1}, NEW b \in {0, 1}, Wall(pos, i, a, b),
             a = 1 => r > 0, b = 1 => q > 0
      PROVE  (IF a = 0 THEN U - r ELSE r) <= s
  <2>1. PICK w \in walls : /\ Overlaps(pos, w)
                           /\ Depth(pos, w, i) = IF a = 0 THEN U - r ELSE r
    BY <1>1, <1>3, ReachesOverlap
  <2>2. ~(s < Depth(pos, w, i))
    BY <2>1 DEF Strays
  <2>3. QED
    BY <1>2, <2>1, <2>2
<1> HIDE DEF r, q, s
<1>4. Wall(pos, i, 1, 0) /\ r > 0 => r <= s
  BY <1>3
<1>5. Wall(pos, i, 1, 1) /\ r > 0 /\ q > 0 => r <= s
  BY <1>3
<1>6. Wall(pos, i, 0, 1) /\ q > 0 => U - r <= s
  BY <1>3
<1>7. QED
  BY <1>4, <1>5, <1>6 DEF r, q, s

\* Where the character lands: e cells on, x past the corner.
LEMMA LandsAt ==
    ASSUME TypeOK, NEW i \in Axes, NEW d, Along(d, i), ~Strays(d, End(d)),
           NEW e \in {-1, 0, 1}, NEW x \in Nat, x < U,
           Resolved(pos, d)[i] = e * U + x - Rest(pos, i),
           CellOf(pos)[i] + e >= 0
    PROVE  Landed(pos, Clamped(End(d)), i, e, x)
<1> DEFINE c == CellOf(pos)[i]
           r == Rest(pos, i)
           n == pos[i] + Resolved(pos, d)[i]
           q == Clamped(End(d))
<1>1. q \in Point /\ q[3 - i] = pos[3 - i] /\ q[i] = IF n < 0 THEN 0 ELSE n
  BY EndsAlong
<1>2. /\ pos \in Point /\ pos[i] = c * U + r /\ pos[i] \in Int /\ c \in Int /\ c * U \in Int
      /\ r \in Nat /\ U \in Nat /\ e * U \in Int
  BY PosType, RestType, SizeFacts
<1>3. (c + e) * U = c * U + e * U
  <2> HIDE DEF c
  <2>1. QED
    BY <1>2
<1>4. n = (c + e) * U + x
  <2> HIDE DEF c, r
  <2>1. QED
    BY <1>2, <1>3 DEF r
<1>5. 0 * U <= (c + e) * U
  <2> HIDE DEF c
  <2>1. c + e \in Int /\ 0 <= c + e
    BY <1>2 DEF c
  <2>2. QED
    BY <1>2, <2>1, Multiples
<1>6. ~(n < 0)
  <2> HIDE DEF c, n
  <2>1. 0 * U = 0 /\ (c + e) * U \in Int
    BY <1>2
  <2>2. QED
    BY <1>4, <1>5, <2>1
<1>7. QED
  BY <1>1, <1>4, <1>6 DEF Landed

LEMMA CellIsOnMap ==
    ASSUME TypeOK, NEW i \in Axes
    PROVE  /\ CellOf(pos)[i] \in Nat
           /\ pos[i] < U => CellOf(pos)[i] = 0
           /\ pos[i] >= U => CellOf(pos)[i] >= 1
<1> DEFINE c == CellOf(pos)[i]
           r == Rest(pos, i)
<1>1. /\ pos[i] \in Nat /\ pos[i] = c * U + r /\ c \in Int /\ c * U \in Int
      /\ r \in Nat /\ r < U /\ U \in Nat /\ U >= 1
  BY PosType, RestType, SizeFacts DEF Point
<1> HIDE DEF c, r
<1>2. ~(c <= -1)
  <2> SUFFICES ASSUME c <= -1 PROVE FALSE
    OBVIOUS
  <2>1. c * U <= (-1) * U
    BY <1>1, Multiples
  <2>2. QED
    BY <1>1, <2>1
<1>3. c \in Nat
  BY <1>1, <1>2
<1>4. ASSUME pos[i] < U PROVE c = 0
  <2> SUFFICES ASSUME c >= 1 PROVE FALSE
    BY <1>3
  <2>1. 1 * U <= c * U
    BY <1>1, Multiples
  <2>2. QED
    BY <1>1, <1>4, <2>1
<1>5. ASSUME pos[i] >= U PROVE c >= 1
  <2> SUFFICES ASSUME c = 0 PROVE FALSE
    BY <1>3
  <2>1. c * U = 0
    BY <1>1
  <2>2. QED
    BY <1>1, <1>5, <2>1
<1>6. QED
  BY <1>3, <1>4, <1>5 DEF c

\* A step forwards goes to the corner of the cell, in front of a wall that it
\* would reach, or all the way.
LEMMA LandsForward ==
    ASSUME TypeOK, NEW i \in Axes, NEW d, Along(d, i), d[i] > 0, ~Strays(d, End(d))
    PROVE  LET q == Clamped(End(d))
               r == Rest(pos, i)
           IN  IF r <= d[i] /\ InColumn(pos, i, 1) THEN Landed(pos, q, i, 0, 0)
               ELSE /\ ~Wall(pos, i, 1, 0)
                    /\ Rest(pos, 3 - i) > 0 => ~Wall(pos, i, 1, 1)
                    /\ IF r + d[i] < U THEN Landed(pos, q, i, 0, r + d[i])
                       ELSE Landed(pos, q, i, 1, r + d[i] - U)
<1> DEFINE c == CellOf(pos)[i]
           r == Rest(pos, i)
           s == d[i]
           q == Clamped(End(d))
           x == Resolved(pos, d)[i]
<1>1. /\ pos \in Point /\ c \in Nat /\ r \in Nat /\ r < U /\ U \in Nat /\ U >= 1
      /\ s \in Nat /\ s >= 1 /\ s < U
  BY PosType, RestType, SizeFacts, CellIsOnMap DEF Along, Point
<1>2. x = IF r <= s /\ InColumn(pos, i, 1) THEN -r ELSE s
  BY <1>1, StepForward
<1>3. ASSUME NEW e \in {-1, 0, 1}, NEW y \in Nat, y < U, x = e * U + y - r, c + e >= 0
      PROVE  Landed(pos, q, i, e, y)
  BY <1>3, LandsAt
<1>4. Distance(s) = s
  BY <1>1, DistanceIs
<1>5. /\ Wall(pos, i, 1, 0) /\ r > 0 => r <= s
      /\ Wall(pos, i, 1, 1) /\ r > 0 /\ Rest(pos, 3 - i) > 0 => r <= s
  <2>1. s # 0
    BY <1>1
  <2>2. QED
    BY <1>4, <2>1, NotTooShort
<1>6. InColumn(pos, i, 1) <=> Wall(pos, i, 1, 0) \/ (Wall(pos, i, 1, 1) /\ Rest(pos, 3 - i) > 0)
  BY DEF InColumn
<1> HIDE DEF c, r, s, q, x
<1>7. CASE r <= s /\ InColumn(pos, i, 1)
  <2>1. x = 0 * U + 0 - r /\ c + 0 >= 0 /\ 0 < U
    BY <1>1, <1>2, <1>7
  <2>2. Landed(pos, q, i, 0, 0)
    BY <1>3, <2>1
  <2>3. QED
    BY <1>7, <2>2 DEF r, s, q
<1>8. CASE ~(r <= s /\ InColumn(pos, i, 1))
  <2>1. ~Wall(pos, i, 1, 0) /\ (Rest(pos, 3 - i) > 0 => ~Wall(pos, i, 1, 1))
    BY <1>1, <1>5, <1>6, <1>8
  <2>2. ASSUME r + s < U PROVE Landed(pos, q, i, 0, r + s)
    <3>1. x = 0 * U + (r + s) - r /\ c + 0 >= 0 /\ r + s \in Nat
      BY <1>1, <1>2, <1>8
    <3>2. QED
      BY <1>3, <2>2, <3>1
  <2>3. ASSUME ~(r + s < U) PROVE Landed(pos, q, i, 1, r + s - U)
    <3>1. x = 1 * U + (r + s - U) - r /\ c + 1 >= 0 /\ r + s - U \in Nat /\ r + s - U < U
      BY <1>1, <1>2, <1>8, <2>3
    <3>2. QED
      BY <1>3, <3>1
  <2>4. QED
    BY <1>8, <2>1, <2>2, <2>3 DEF r, s, q
<1>9. QED
  BY <1>7, <1>8

\* A step backwards puts the character out of a wall beside it, to the next
\* cell, or goes to the corner of the cell, before a wall that it would reach
\* or at the border, or all the way.
LEMMA LandsBackward ==
    ASSUME TypeOK, NEW i \in Axes, NEW d, Along(d, i), d[i] < 0, ~Strays(d, End(d))
    PROVE  LET q == Clamped(End(d))
               r == Rest(pos, i)
               beside == Wall(pos, i, 0, 1) /\ Rest(pos, 3 - i) > 0
           IN  \/ beside /\ r > 0 /\ U - r <= -d[i] /\ Landed(pos, q, i, 1, 0)
               \/ ~beside /\ r <= -d[i] /\ Landed(pos, q, i, 0, 0)
               \/ ~beside /\ r >= -d[i] /\ Landed(pos, q, i, 0, r + d[i])
               \/ /\ ~beside /\ r < -d[i] /\ ~InColumn(pos, i, -1)
                  /\ Landed(pos, q, i, -1, U + r + d[i])
<1> DEFINE c == CellOf(pos)[i]
           r == Rest(pos, i)
           s == -d[i]
           q == Clamped(End(d))
           x == Resolved(pos, d)[i]
           beside == Wall(pos, i, 0, 1) /\ Rest(pos, 3 - i) > 0
<1>1. /\ pos \in Point /\ c \in Nat /\ r \in Nat /\ r < U /\ U \in Nat /\ U >= 1
      /\ s \in Nat /\ s >= 1 /\ s < U /\ d[i] = -s /\ pos[i] \in Nat
      /\ c * U \in Int /\ pos[i] = c * U + r
  <2>1. pos \in Point /\ pos[i] \in Int /\ pos[i] >= 0
    BY PosType DEF Point
  <2>2. d[i] \in Int /\ -U < d[i] /\ U \in Nat /\ U >= 1
    BY SizeFacts DEF Along, Point
  <2>3. c \in Nat /\ r \in Nat /\ r < U /\ c * U \in Int /\ pos[i] = c * U + r
    BY <2>1, RestType, CellIsOnMap
  <2>4. QED
    BY <2>1, <2>2, <2>3
<1>2. x = IF U - r <= s /\ Wall(pos, i, 0, 1) /\ Rest(pos, 3 - i) > 0 THEN U - r
          ELSE IF r < s /\ InColumn(pos, i, -1) THEN -r ELSE d[i]
  BY <1>1, StepBackward
<1>3. ASSUME NEW e \in {-1, 0, 1}, NEW y \in Nat, y < U, x = e * U + y - r, c + e >= 0
      PROVE  Landed(pos, q, i, e, y)
  BY <1>3, LandsAt
<1>4. beside => U - r <= s
  <2>1. Distance(d[i]) = s /\ d[i] # 0
    <3>1. d[i] \in Int /\ ~(d[i] >= 0)
      BY <1>1
    <3>2. QED
      BY <3>1, DistanceIs
  <2>2. QED
    BY <2>1, NotTooShort
<1>5. /\ q \in Point /\ q[3 - i] = pos[3 - i]
      /\ q[i] = IF pos[i] + x < 0 THEN 0 ELSE pos[i] + x
  BY EndsAlong
<1>6. /\ pos[i] < U => c = 0
      /\ pos[i] >= U => c >= 1
  BY CellIsOnMap
<1>7. c = 0 => Landed(pos, q, i, 0, 0) <=> q[i] = 0
  <2> SUFFICES ASSUME c = 0 PROVE Landed(pos, q, i, 0, 0) <=> q[i] = 0
    OBVIOUS
  <2>1. (c + 0) * U + 0 = 0 /\ 0 < U
    BY <1>1
  <2>2. QED
    BY <1>5, <2>1 DEF Landed
<1> HIDE DEF c, r, s, q, x
<1>8. CASE beside
  <2>1. U - r <= s /\ x = U - r /\ r > 0
    BY <1>1, <1>2, <1>4, <1>8
  <2>2. x = 1 * U + 0 - r /\ c + 1 >= 0 /\ 0 < U
    BY <1>1, <2>1
  <2>3. Landed(pos, q, i, 1, 0)
    BY <1>3, <2>2
  <2>4. QED
    BY <1>8, <2>1, <2>3 DEF r, s, q
<1>9. CASE ~beside /\ r < s /\ InColumn(pos, i, -1)
  <2>1. x = 0 * U + 0 - r /\ c + 0 >= 0 /\ 0 < U
    BY <1>1, <1>2, <1>9
  <2>2. Landed(pos, q, i, 0, 0) /\ r <= s
    BY <1>1, <1>3, <1>9, <2>1
  <2>3. QED
    BY <1>9, <2>2 DEF r, s, q
<1>10. CASE ~beside /\ r >= s
  <2>1. x = 0 * U + (r - s) - r /\ c + 0 >= 0 /\ r - s \in Nat /\ r - s < U
    BY <1>1, <1>2, <1>10
  <2>2. Landed(pos, q, i, 0, r - s)
    BY <1>3, <2>1
  <2>3. r + d[i] = r - s
    BY <1>1
  <2>4. Landed(pos, q, i, 0, r + d[i])
    BY <2>2, <2>3
  <2>5. QED
    BY <1>10, <2>4 DEF r, s, q
<1>11. CASE ~beside /\ r < s /\ ~InColumn(pos, i, -1)
  <2>1. x = -s
    BY <1>1, <1>2, <1>11
  <2>2. CASE pos[i] < U
    <3>1. c = 0
      BY <1>6, <2>2
    <3>2. c * U = 0
      BY <1>1, <3>1
    <3>3. q[i] = 0
      BY <1>1, <1>5, <1>11, <2>1, <3>2
    <3>4. Landed(pos, q, i, 0, 0) /\ r <= s
      BY <1>1, <1>7, <1>11, <3>1, <3>3
    <3>5. QED
      BY <1>11, <3>4 DEF r, s, q
  <2>3. CASE pos[i] >= U
    <3>1. c >= 1
      BY <1>6, <2>3
    <3>2. x = (-1) * U + (U + r - s) - r /\ c + (-1) >= 0 /\ U + r - s \in Nat /\ U + r - s < U
      BY <1>1, <1>11, <2>1, <3>1
    <3>3. Landed(pos, q, i, -1, U + r - s)
      BY <1>3, <3>2
    <3>4. U + r + d[i] = U + r - s
      BY <1>1
    <3>5. Landed(pos, q, i, -1, U + r + d[i])
      BY <3>3, <3>4
    <3>6. QED
      BY <1>11, <3>5 DEF r, s, q
  <2>4. QED
    BY <1>1, <2>2, <2>3
<1>12. QED
  <2>1. r >= s \/ r < s
    BY <1>1
  <2>2. QED
    BY <1>8, <1>9, <1>10, <1>11, <2>1

LEMMA SmallerIsSmall ==
    ASSUME NEW x \in Int, NEW y \in Int, x <= y, Small(y)
    PROVE  Small(x)
BY SizeFacts DEF Small

LEMMA SlippedForward ==
    ASSUME TypeOK, NEW i \in Axes, NEW d, Along(d, i), d[i] > 0, d[i] \in Steps,
           ~Strays(d, End(d)), Slipped(pos, i)
    PROVE  Slipped(Clamped(End(d)), i)
<1> DEFINE r == Rest(pos, i)
           y == Rest(pos, 3 - i)
           s == d[i]
           q == Clamped(End(d))
           W(a, b) == Wall(pos, i, a, b)
<1>1. /\ pos \in Point /\ r \in Nat /\ r < U /\ U \in Nat /\ s \in Nat /\ s >= 1 /\ s < U
      /\ y \in Nat
  BY PosType, RestType, SizeFacts, OtherAxis DEF Along, Point
<1>2. /\ ~W(0, 0)
      /\ W(1, 0) /\ r > 0 => Small(r)
      /\ W(0, 1) /\ y > 0 => Small(y)
      /\ W(1, 1) /\ r > 0 /\ y > 0 => Small(r) \/ Small(y)
      /\ r > 0 /\ y > 0 => ~(W(1, 0) /\ W(0, 1))
  BY DEF Slipped
<1>3. IF r <= s /\ InColumn(pos, i, 1) THEN Landed(pos, q, i, 0, 0)
      ELSE /\ ~W(1, 0) /\ (y > 0 => ~W(1, 1))
           /\ IF r + s < U THEN Landed(pos, q, i, 0, r + s)
              ELSE Landed(pos, q, i, 1, r + s - U)
  BY LandsForward
<1>4. ASSUME NEW e \in {-1, 0, 1}, NEW x, Landed(pos, q, i, e, x),
             ~W(e, 0),
             W(e + 1, 0) /\ x > 0 => Small(x),
             W(e, 1) /\ y > 0 => Small(y),
             W(e + 1, 1) /\ x > 0 /\ y > 0 => Small(x) \/ Small(y),
             x > 0 /\ y > 0 => ~(W(e + 1, 0) /\ W(e, 1))
      PROVE  Slipped(q, i)
  BY <1>1, <1>4, SlippedAt
<1> SUFFICES Slipped(q, i)
  OBVIOUS
<1> HIDE DEF r, y, s, q, W
<1>5. CASE r <= s /\ InColumn(pos, i, 1)
  <2>1. Landed(pos, q, i, 0, 0) /\ ~(0 > 0) /\ 0 \in {-1, 0, 1}
    BY <1>3, <1>5
  <2>2. QED
    BY <1>2, <1>4, <2>1
<1>6. CASE ~(r <= s /\ InColumn(pos, i, 1)) /\ r + s < U
  <2>1. Landed(pos, q, i, 0, r + s) /\ ~W(1, 0) /\ (y > 0 => ~W(1, 1)) /\ 0 + 1 = 1
    BY <1>3, <1>6
  <2>2. QED
    BY <1>2, <1>4, <2>1
<1>7. CASE ~(r <= s /\ InColumn(pos, i, 1)) /\ ~(r + s < U)
  <2>1. Landed(pos, q, i, 1, r + s - U) /\ ~W(1, 0) /\ (y > 0 => ~W(1, 1)) /\ 1 + 1 = 2
    BY <1>3, <1>7
  <2>2. r + s - U < s
    BY <1>1
  <2>3. Small(r + s - U)
    BY <1>1, <2>2 DEF Small, s
  <2>4. QED
    BY <1>2, <1>4, <2>1, <2>3
<1>8. QED
  BY <1>5, <1>6, <1>7

LEMMA SlippedBackward ==
    ASSUME TypeOK, NEW i \in Axes, NEW d, Along(d, i), d[i] < 0,
           ~Strays(d, End(d)), Slipped(pos, i)
    PROVE  Slipped(Clamped(End(d)), i)
<1> DEFINE r == Rest(pos, i)
           y == Rest(pos, 3 - i)
           s == -d[i]
           q == Clamped(End(d))
           W(a, b) == Wall(pos, i, a, b)
           beside == W(0, 1) /\ y > 0
<1>1. /\ pos \in Point /\ r \in Nat /\ r < U /\ U \in Nat /\ y \in Nat
      /\ s \in Nat /\ s >= 1 /\ s < U /\ d[i] = -s
  <2>1. pos \in Point
    BY PosType
  <2>2. d[i] \in Int /\ -U < d[i] /\ U \in Nat
    BY SizeFacts DEF Along, Point
  <2>3. QED
    BY <2>1, <2>2, RestType, OtherAxis
<1>2. /\ ~W(0, 0)
      /\ W(1, 0) /\ r > 0 => Small(r)
      /\ W(0, 1) /\ y > 0 => Small(y)
      /\ W(1, 1) /\ r > 0 /\ y > 0 => Small(r) \/ Small(y)
      /\ r > 0 /\ y > 0 => ~(W(1, 0) /\ W(0, 1))
  BY DEF Slipped
<1>3. \/ beside /\ r > 0 /\ U - r <= s /\ Landed(pos, q, i, 1, 0)
      \/ ~beside /\ r <= s /\ Landed(pos, q, i, 0, 0)
      \/ ~beside /\ r >= s /\ Landed(pos, q, i, 0, r + d[i])
      \/ /\ ~beside /\ r < s /\ ~InColumn(pos, i, -1)
         /\ Landed(pos, q, i, -1, U + r + d[i])
  BY LandsBackward
<1>4. ASSUME NEW e \in {-1, 0, 1}, NEW x, Landed(pos, q, i, e, x),
             ~W(e, 0),
             W(e + 1, 0) /\ x > 0 => Small(x),
             W(e, 1) /\ y > 0 => Small(y),
             W(e + 1, 1) /\ x > 0 /\ y > 0 => Small(x) \/ Small(y),
             x > 0 /\ y > 0 => ~(W(e + 1, 0) /\ W(e, 1))
      PROVE  Slipped(q, i)
  BY <1>1, <1>4, SlippedAt
<1>5. InColumn(pos, i, -1) <=> W(-1, 0) \/ (W(-1, 1) /\ y > 0)
  BY DEF InColumn
<1> SUFFICES Slipped(q, i)
  OBVIOUS
<1> HIDE DEF r, y, s, q, W
<1>6. CASE beside /\ r > 0 /\ Landed(pos, q, i, 1, 0)
  <2>1. ~W(1, 0) /\ Small(y) /\ ~(0 > 0)
    BY <1>2, <1>6
  <2>2. QED
    BY <1>4, <1>6, <2>1
<1>7. CASE Landed(pos, q, i, 0, 0)
  <2>1. ~(0 > 0) /\ 0 \in {-1, 0, 1}
    OBVIOUS
  <2>2. QED
    BY <1>2, <1>4, <1>7, <2>1
<1>8. CASE r >= s /\ Landed(pos, q, i, 0, r + d[i])
  <2> DEFINE x == r + d[i]
  <2>1. x \in Nat /\ x <= r /\ (x > 0 => r > 0) /\ 0 + 1 = 1
    BY <1>1, <1>8
  <2>2. Small(r) => Small(x)
    BY <1>1, <2>1, SmallerIsSmall
  <2>3. Landed(pos, q, i, 0, x)
    BY <1>8
  <2> HIDE DEF x
  <2>4. QED
    BY <1>2, <1>4, <2>1, <2>2, <2>3
<1>9. CASE ~beside /\ ~InColumn(pos, i, -1) /\ Landed(pos, q, i, -1, U + r + d[i])
  <2> DEFINE x == U + r + d[i]
  <2>1. ~W(-1, 0) /\ (y > 0 => ~W(-1, 1)) /\ ~W(0, 0) /\ (y > 0 => ~W(0, 1)) /\ -1 + 1 = 0
    BY <1>2, <1>5, <1>9
  <2>2. Landed(pos, q, i, -1, x)
    BY <1>9
  <2> HIDE DEF x
  <2>3. QED
    BY <1>4, <2>1, <2>2
<1>10. QED
  BY <1>3, <1>6, <1>7, <1>8, <1>9

LEMMA SlippedNowhere ==
    ASSUME TypeOK, NEW i \in Axes, NEW d, Along(d, i), d[i] = 0,
           ~Strays(d, End(d)), Slipped(pos, i)
    PROVE  Slipped(Clamped(End(d)), i)
<1> DEFINE q == Clamped(End(d))
           r == Rest(pos, i)
           x == Resolved(pos, d)[i]
<1>1. /\ pos \in Point /\ r \in Nat /\ r < U /\ CellOf(pos)[i] \in Nat /\ U \in Nat
  BY PosType, RestType, CellIsOnMap, SizeFacts
<1>2. x = 0
  BY <1>1, StepNowhere
<1> HIDE DEF x
<1>3. x = 0 * U + r - r /\ CellOf(pos)[i] + 0 >= 0
  BY <1>1, <1>2
<1>4. Landed(pos, q, i, 0, r)
  BY <1>1, <1>3, LandsAt DEF x
<1>5. 0 \in {-1, 0, 1} /\ 0 + 1 = 1
  OBVIOUS
<1> HIDE DEF q
<1>6. Slipped(q, i)
  BY <1>1, <1>4, <1>5, SlippedAt DEF Slipped
<1>7. QED
  BY <1>6 DEF q

-----------------------------------------------------------------------------
(* The invariant of a walk. *)

WalkInv ==
    /\ TypeOK
    /\ screen # "GameFg" => pos = <<0, 0>>
    /\ ~strayed => Slipped(pos, 1)

\* A character in the first cell's corner reaches into no other cell.
LEMMA StartRest ==
    LET p == <<0, 0>>
    IN  CellOf(p)[1] = 0 /\ CellOf(p)[2] = 0 /\ Rest(p, 1) = 0 /\ Rest(p, 2) = 0
<1> DEFINE p == <<0, 0>>
<1>1. p \in Point /\ 0 < U /\ U \in Nat
  <2>1. p \in Int \X Int
    OBVIOUS
  <2>2. QED
    BY <2>1, PairIsPoint, SizeFacts
<1>2. \A i \in Axes : p[i] = 0 * U + 0
  <2>1. \A i \in Axes : p[i] = 0
    BY DEF Axes
  <2>2. 0 * U + 0 = 0
    BY <1>1
  <2>3. QED
    BY <2>1, <2>2
<1> HIDE DEF p
<1>3. \A i \in Axes : CellOf(p)[i] = 0 /\ Rest(p, i) = 0
  BY <1>1, <1>2, CellIs
<1>4. QED
  BY <1>3 DEF Axes, p

LEMMA StartIsSlipped ==
    ASSUME NEW p, p = <<0, 0>>, <<0, 0>> \notin walls
    PROVE  Slipped(p, 1)
<1>1. /\ CellOf(p)[1] = 0 /\ CellOf(p)[2] = 0 /\ Rest(p, 1) = 0 /\ Rest(p, 2) = 0
      /\ 3 - 1 = 2 /\ 0 + 0 = 0
  BY StartRest
<1>2. ~Wall(p, 1, 0, 0)
  BY <1>1 DEF Wall, Place
<1>3. QED
  BY <1>1, <1>2 DEF Slipped

LEMMA InitWalk == Init => WalkInv
<1> SUFFICES ASSUME Init PROVE WalkInv
  OBVIOUS
<1>1. pos = <<0, 0>> /\ <<0, 0>> \notin walls
  BY DEF Init
<1>2. QED
  BY <1>1, InitType, StartIsSlipped DEF WalkInv

\* No frame but one of the game touches the character, and no screen but the
\* first touches the walls.
LEMMA ScreenWalk ==
    ASSUME WalkInv, TypeOK',
           ShowScreen \/ LeaveSplash \/ LeaveOpeningBg \/ LeaveOpeningFg
    PROVE  WalkInv'
<1>1. screen # "GameFg" /\ pos = <<0, 0>> /\ pos' = pos /\ strayed' = strayed
  BY DEF ShowScreen, LeaveSplash, LeaveOpeningBg, LeaveOpeningFg, WalkInv
<1>2. CASE LeaveSplash
  <2>1. walls' \in Maps
    BY <1>2 DEF LeaveSplash
  <2>2. <<0, 0>> \notin walls'
    BY <2>1, StartIsFree DEF StartIsFree
  <2>3. Slipped(pos, 1)'
    <3>1. /\ CellOf(pos)[1] = 0 /\ CellOf(pos)[2] = 0 /\ Rest(pos, 1) = 0 /\ Rest(pos, 2) = 0
          /\ 3 - 1 = 2 /\ 0 + 0 = 0
      BY <1>1, StartRest
    <3>2. /\ CellOf(pos)[1]' = 0 /\ CellOf(pos)[2]' = 0
          /\ Rest(pos, 1)' = 0 /\ Rest(pos, 2)' = 0
      BY <1>1, <3>1 DEF Rest, CellOf
    <3>3. ~Wall(pos, 1, 0, 0)'
      BY <2>2, <3>1, <3>2 DEF Wall, Place
    <3>4. QED
      BY <3>1, <3>2, <3>3 DEF Slipped
  <2>4. QED
    BY <1>1, <2>3 DEF WalkInv
<1>3. CASE ShowScreen \/ LeaveOpeningBg \/ LeaveOpeningFg
  <2>1. UNCHANGED walls
    BY <1>3 DEF ShowScreen, LeaveOpeningBg, LeaveOpeningFg
  <2>2. Slipped(pos, 1) => Slipped(pos, 1)'
    BY <1>1, <2>1 DEF Slipped, Wall, Place, Rest, CellOf
  <2>3. QED
    BY <1>1, <2>2 DEF WalkInv
<1>4. QED
  BY <1>2, <1>3


\* Of the frames of the game, those that do not stray move along one axis.
LEMMA MoveWalk ==
    ASSUME WalkInv, TypeOK', NEW x \in -1 .. 1, NEW y \in -1 .. 1,
           NEW step \in IF late THEN {LongStep} ELSE Steps,
           Move(<<x * step, y * step>>)
    PROVE  WalkInv'
<1> DEFINE d == <<x * step, y * step>>
<1>1. step \in Nat /\ (late \/ step \in Steps)
  BY SizeFacts
<1>2. d \in Point /\ d[1] \in {-step, 0, step} /\ d[2] \in {-step, 0, step}
  BY <1>1, KeysGive, PairIsPoint
<1> HIDE DEF d
<1>3. /\ screen = "GameFg" /\ screen' = screen /\ walls' = walls
      /\ pos' = Clamped(End(d)) /\ strayed' = (strayed \/ Strays(d, End(d)))
  BY DEF Move, d
<1>4. SUFFICES ASSUME ~strayed' PROVE Slipped(pos, 1)'
  BY <1>3 DEF WalkInv
<1>5. TypeOK /\ ~strayed /\ ~Strays(d, End(d)) /\ Slipped(pos, 1)
  BY <1>3, <1>4 DEF WalkInv, TypeOK
<1>6. /\ d[1] = 0 \/ d[2] = 0
      /\ late => d = <<0, 0>>
  BY <1>5 DEF Strays
<1>7. ASSUME NEW i \in Axes, d[3 - i] = 0 PROVE Slipped(Clamped(End(d)), i)
  <2>1. Slipped(pos, i)
    <3>1. CASE i = 1
      BY <1>5, <3>1
    <3>2. CASE i = 2
      <4>1. 3 - 1 = 2 /\ 1 \in Axes
        BY DEF Axes
      <4>2. QED
        BY <1>5, <3>2, <4>1, SlippedAcross
    <3>3. QED
      BY <3>1, <3>2 DEF Axes
  <2>2. d[i] \in {-step, 0, step}
    BY <1>2 DEF Axes
  <2>3. d[i] # 0 => step \in Steps
    <3>1. late => d[1] = 0 /\ d[2] = 0
      BY <1>6
    <3>2. QED
      BY <1>1, <3>1 DEF Axes
  <2>4. d[i] \in Int /\ U \in Nat /\ U >= 1
    BY <1>1, <2>2, SizeFacts
  <2>5. step \in Steps => step < U /\ step >= 1
    BY ShortFrames, SizeFacts DEF ShortFrames
  <2>6. Along(d, i)
    <3>1. -U < d[i] /\ d[i] < U
      BY <1>1, <2>2, <2>3, <2>4, <2>5
    <3>2. QED
      BY <1>2, <1>7, <3>1 DEF Along
  <2>7. CASE d[i] = 0
    BY <1>5, <2>1, <2>6, <2>7, SlippedNowhere
  <2>8. CASE d[i] > 0
    <3>1. d[i] \in Steps
      BY <1>1, <2>2, <2>3, <2>8
    <3>2. QED
      BY <1>5, <2>1, <2>6, <2>8, <3>1, SlippedForward
  <2>9. CASE d[i] < 0
    BY <1>5, <2>1, <2>6, <2>9, SlippedBackward
  <2>10. QED
    BY <2>4, <2>7, <2>8, <2>9
<1>8. Slipped(Clamped(End(d)), 1)
  <2>1. CASE d[2] = 0
    <3>1. 1 \in Axes /\ 3 - 1 = 2
      BY DEF Axes
    <3>2. QED
      BY <1>7, <2>1, <3>1
  <2>2. CASE d[1] = 0
    <3>1. 2 \in Axes /\ 1 \in Axes /\ 3 - 2 = 1 /\ 3 - 1 = 2
      BY DEF Axes
    <3>2. Slipped(Clamped(End(d)), 2)
      BY <1>7, <2>2, <3>1
    <3>3. QED
      BY <3>1, <3>2, SlippedAcross
  <2>3. QED
    BY <1>6, <2>1, <2>2
<1> DEFINE q == Clamped(End(d))
<1>9. pos' = q /\ Slipped(q, 1)
  BY <1>3, <1>8
<1> HIDE DEF q
<1>10. QED
  BY <1>3, <1>9 DEF Slipped, Wall, Rest, CellOf

LEMMA NextWalk == ASSUME WalkInv, [Next]_vars PROVE WalkInv'
<1>1. TypeOK'
  BY NextType DEF WalkInv
<1>2. CASE Frame /\ UNCHANGED running
  <2>1. CASE ShowScreen \/ LeaveSplash \/ LeaveOpeningBg \/ LeaveOpeningFg
    BY <1>1, <2>1, ScreenWalk
  <2>2. ASSUME NEW x \in -1 .. 1, NEW y \in -1 .. 1,
               NEW step \in IF late THEN {LongStep} ELSE Steps,
               Move(<<x * step, y * step>>)
        PROVE  WalkInv'
    BY <1>1, <2>2, MoveWalk
  <2>3. QED
    BY <1>2, <2>1, <2>2 DEF Frame
<1>3. CASE Escape \/ UNCHANGED vars
  <2>1. UNCHANGED <<screen, walls, pos, strayed>>
    BY <1>3 DEF Escape, vars
  <2>2. Slipped(pos, 1) => Slipped(pos, 1)'
    BY <2>1 DEF Slipped, Wall, Place, Rest, CellOf
  <2>3. QED
    BY <1>1, <2>1, <2>2 DEF WalkInv
<1>4. QED
  BY <1>2, <1>3 DEF Next

LEMMA WalkInvariant == Spec => []WalkInv
<1>1. WalkInv /\ [Next]_vars => WalkInv'
  BY NextWalk
<1>2. QED
  BY <1>1, InitWalk, PTL DEF Spec

LEMMA SlippedIsOff ==
    ASSUME WalkInv PROVE StaysOffWalls
<1> SUFFICES ASSUME ~strayed PROVE StaysOffWalls
  BY DEF StaysOffWalls
<1>1. /\ TypeOK /\ Slipped(pos, 1) /\ pos \in Point
      /\ 1 \in Axes /\ 2 \in Axes /\ 3 - 1 = 2
  BY PosType DEF WalkInv, Axes
<1>2. CellOf(pos) \notin walls
  <2> SUFFICES ASSUME CellOf(pos) \in walls PROVE FALSE
    OBVIOUS
  <2>1. CellOf(pos) \in Cell
    BY <1>1, WallsAreCells
  <2>2. CellOf(pos) = Place(1, CellOf(pos)[1], CellOf(pos)[2])
    BY <1>1, <2>1, PlaceIs
  <2>3. CellOf(pos)[1] + 0 = CellOf(pos)[1] /\ CellOf(pos)[2] + 0 = CellOf(pos)[2]
    BY <1>1, RestType
  <2>4. Wall(pos, 1, 0, 0)
    BY <1>1, <2>2, <2>3 DEF Wall
  <2>5. QED
    BY <1>1, <2>4 DEF Slipped
<1>3. ASSUME NEW w \in walls, Overlaps(pos, w)
      PROVE  \E i \in Axes, step \in Steps : Depth(pos, w, i) < step
  <2>1. w \in Cell
    BY <1>1, WallsAreCells
  <2>2. PICK a, b : Reaches(pos, w, 1, a, b)
    BY <1>1, <1>3, <2>1, OverlapReaches
  <2> DEFINE r == Rest(pos, 1)
             y == Rest(pos, 2)
  <2>3. /\ a \in {0, 1} /\ b \in {0, 1} /\ Wall(pos, 1, a, b)
        /\ a = 1 => r > 0
        /\ b = 1 => y > 0
        /\ a = 1 => Depth(pos, w, 1) = r
        /\ b = 1 => Depth(pos, w, 2) = y
    BY <1>1, <2>2 DEF Reaches
  <2>4. /\ ~Wall(pos, 1, 0, 0)
        /\ Wall(pos, 1, 1, 0) /\ r > 0 => Small(r)
        /\ Wall(pos, 1, 0, 1) /\ y > 0 => Small(y)
        /\ Wall(pos, 1, 1, 1) /\ r > 0 /\ y > 0 => Small(r) \/ Small(y)
    BY <1>1 DEF Slipped
  <2>5. (a = 1 /\ Small(r)) \/ (b = 1 /\ Small(y))
    BY <2>3, <2>4
  <2>6. QED
    BY <1>1, <2>3, <2>5 DEF Small
<1>4. QED
  BY <1>2, <1>3 DEF StaysOffWalls

(* Client.cpp, resolveCollision: with walls one row beyond the nine cells  *)
(* it looks at, the character still comes onto no wall's tile, and reaches *)
(* into a wall by less than a frame's step.                                *)
THEOREM StaysOff == Spec => []StaysOffWalls
<1>1. WalkInv => StaysOffWalls
  BY SlippedIsOff
<1>2. QED
  BY <1>1, WalkInvariant, PTL

LEMMA NoDepth ==
    ASSUME NEW p, NEW w, NEW i \in Axes, p[i] - w[i] * U = U \/ p[i] - w[i] * U = -U
    PROVE  ~Overlaps(p, w)
<1>1. Distance(p[i] - w[i] * U) = U
  BY SizeFacts, DistanceIs
<1>2. Depth(p, w, i) = 0
  BY <1>1, SizeFacts DEF Depth
<1>3. QED
  BY <1>2 DEF Overlaps

\* A step towards the middle of an overlapped wall, along the axis i.
LEMMA SlippedComesOut ==
    ASSUME WalkInv, ~strayed, NEW w \in walls, NEW i \in Axes, NEW step \in Steps,
           Overlaps(pos, w), pos[i] # w[i] * U,
           ~Strays(Towards(w, i, step), End(Towards(w, i, step)))
    PROVE  ~Overlaps(Clamped(End(Towards(w, i, step))), w)
<1> DEFINE d == Towards(w, i, step)
           q == Clamped(End(d))
           r == Rest(pos, i)
           c == CellOf(pos)[i]
<1>1. /\ TypeOK /\ Slipped(pos, 1) /\ pos \in Point /\ w \in Cell /\ 3 - i \in Axes
      /\ 1 \in Axes /\ 3 - 1 = 2
  BY WallsAreCells, PosType, OtherAxis DEF WalkInv, Axes
<1>2. /\ r \in Nat /\ r < U /\ U \in Nat /\ U >= 1 /\ c \in Int /\ c * U \in Int
      /\ pos[i] \in Int /\ pos[i] = c * U + r
  BY <1>1, RestType, SizeFacts
<1>3. step \in Nat /\ step >= 1 /\ step < U
  BY ShortFrames, SizeFacts DEF ShortFrames
<1>4. PICK a, b : Reaches(pos, w, i, a, b)
  BY <1>1, OverlapReaches
<1>5. /\ a \in {0, 1} /\ b \in {0, 1} /\ Wall(pos, i, a, b) /\ w[i] = c + a
      /\ a = 1 => r > 0
      /\ b = 1 => Rest(pos, 3 - i) > 0
      /\ a = 0 \/ a = 1
  BY <1>4 DEF Reaches
<1>6. ~Wall(pos, i, 0, 0)
  <2>1. Slipped(pos, i)
    <3>1. CASE i = 1
      BY <1>1, <3>1
    <3>2. CASE i = 2
      BY <1>1, <3>2, SlippedAcross
    <3>3. QED
      BY <3>1, <3>2 DEF Axes
  <2>2. QED
    BY <2>1 DEF Slipped
<1>7. w[i] * U = c * U + a * U /\ a * U = IF a = 0 THEN 0 ELSE U
  <2> HIDE DEF c
  <2>1. (c + a) * U = c * U + a * U
    BY <1>2, <1>5
  <2>2. a * U = IF a = 0 THEN 0 ELSE U
    BY <1>2, <1>5
  <2>3. QED
    BY <1>5, <2>1, <2>2
<1>8. d[i] = IF a = 0 THEN -step ELSE step
  <2>1. w[i] * U - pos[i] = IF a = 0 THEN -r ELSE U - r
    BY <1>2, <1>5, <1>7
  <2>2. d[i] = Sgn(w[i] * U - pos[i]) * step
    BY DEF Towards
  <2>3. a = 0 => r > 0
    BY <1>2, <1>7
  <2>4. Sgn(w[i] * U - pos[i]) = IF a = 0 THEN -1 ELSE 1
    BY <1>2, <1>5, <2>1, <2>3 DEF Sgn
  <2>5. QED
    BY <1>3, <1>5, <2>2, <2>4
<1>9. Along(d, i)
  <2>1. d[3 - i] = 0
    BY OtherAxis DEF Towards
  <2>2. d \in Point
    <3>1. \A l \in Axes : d[l] \in Int
      BY <1>3, <1>8, <2>1, OtherAxis
    <3>2. d = [l \in Axes |-> d[l]]
      BY DEF Towards
    <3> HIDE DEF d
    <3>3. QED
      BY <3>1, <3>2 DEF Point
  <2>3. -U < d[i] /\ d[i] < U
    BY <1>2, <1>3, <1>8
  <2>4. QED
    BY <2>1, <2>2, <2>3 DEF Along
<1>10. ~Strays(d, End(d))
  OBVIOUS
<1> HIDE DEF d
<1>11. q \in Point /\ q[i] \in Int
  <2>1. q \in Point
    BY <1>1, <1>9, <1>10, EndsAlong
  <2>2. QED
    BY <2>1 DEF Point
<1>12. CASE a = 1
  <2>1. d[i] > 0 /\ d[i] = step
    BY <1>3, <1>8, <1>12
  <2>2. InColumn(pos, i, 1)
    BY <1>5, <1>12 DEF InColumn
  <2>3. r <= step
    <3>1. /\ Wall(pos, i, 1, 0) /\ r > 0 => r <= Distance(d[i])
          /\ Wall(pos, i, 1, 1) /\ r > 0 /\ Rest(pos, 3 - i) > 0 => r <= Distance(d[i])
      <4>1. d[i] # 0
        BY <1>3, <2>1
      <4>2. QED
        BY <1>1, <1>9, <1>10, <4>1, NotTooShort
    <3>2. Distance(d[i]) = step
      BY <1>3, <2>1, DistanceIs
    <3>3. QED
      BY <1>5, <1>12, <3>1, <3>2
  <2>4. Landed(pos, q, i, 0, 0)
    BY <1>1, <1>9, <1>10, <2>1, <2>2, <2>3, LandsForward
  <2>5. q[i] = c * U
    <3>1. q[i] = (c + 0) * U + 0
      BY <2>4 DEF Landed
    <3> HIDE DEF c, q
    <3>2. c + 0 = c
      BY <1>2
    <3>3. QED
      BY <1>2, <3>1, <3>2
  <2>6. q[i] - w[i] * U = -U
    BY <1>2, <1>7, <1>12, <2>5
  <2>7. QED
    BY <1>2, <2>6, NoDepth DEF d
<1>13. CASE a = 0
  <2>1. d[i] < 0 /\ b = 1
    BY <1>3, <1>5, <1>6, <1>8, <1>13
  <2>2. Landed(pos, q, i, 1, 0)
    BY <1>1, <1>5, <1>9, <1>10, <1>13, <2>1, LandsBackward
  <2>3. q[i] = c * U + U
    <3>1. q[i] = (c + 1) * U + 0
      BY <2>2 DEF Landed
    <3> HIDE DEF c, q
    <3>2. (c + 1) * U = c * U + U
      BY <1>2
    <3>3. QED
      BY <1>2, <3>1, <3>2
  <2>4. q[i] - w[i] * U = U
    BY <1>2, <1>7, <1>13, <2>3
  <2>5. QED
    BY <1>2, <2>4, NoDepth DEF d
<1>14. QED
  BY <1>5, <1>12, <1>13

(* Client.cpp, resolveCollision: a wall that the character has slipped     *)
(* into puts it out again when it walks on.                                *)
THEOREM ComesOut == Spec => []HeldComesOut
<1>1. WalkInv => HeldComesOut
  BY SlippedComesOut DEF HeldComesOut
<1>2. QED
  BY <1>1, WalkInvariant, PTL

-----------------------------------------------------------------------------
(* A frame from outside all walls, along both axes or one.  The order in   *)
(* which walls are resolved matters to what is left of its displacement;   *)
(* what is shown here holds after the walls of any set, in any order.      *)

LEMMA WalkKeeps ==
    ASSUME NEW p \in Point, NEW d \in Point, NEW G,
           <<{}, d>> \in G,
           \A s \in SUBSET HitWalls(p, d) : \A k \in s : \A v :
                <<s \ {k}, v>> \in G => <<s, Resolve(p, v, CellAt(p, k))>> \in G
    PROVE  <<HitWalls(p, d), Resolved(p, d)>> \in G
<1> DEFINE D == HitWalls(p, d)
<1>1. PICK F : Walk(F, p, d)
  BY WalkExists
<1> DEFINE T == {s \in SUBSET D : <<s, F[s]>> \in G}
<1>2. IsFiniteSet(D)
  BY HitsAreFinite
<1>3. {} \in T
  BY <1>1 DEF Walk
<1>4. ASSUME NEW s \in SUBSET D, s # {}
      PROVE  \E x \in s : s \ {x} \in T => s \in T
  <2> DEFINE k == MetLast(p, d, s)
  <2>1. k \in s
    BY <1>4, LastHit
  <2>2. F[s] = Resolve(p, F[s \ {k}], CellAt(p, k))
    BY <1>1, <1>4 DEF Walk
  <2> HIDE DEF k
  <2>3. <<s \ {k}, F[s \ {k}]>> \in G => <<s, F[s]>> \in G
    BY <2>1, <2>2
  <2>4. QED
    BY <2>1, <2>3
<1>5. SUBSET D \subseteq T
  <2> HIDE DEF D, T
  <2>1. QED
    BY <1>2, <1>3, <1>4, AlongSets
<1>6. QED
  BY <1>1, <1>5 DEF Walk

\* Along each axis a wall leaves a displacement as it is, or leaves the way to
\* the corner of the character's cell or to that of the next.
LEMMA ResolveAxis ==
    ASSUME NEW p \in Point, NEW v \in Point, NEW k \in 1..8, NEW l \in Axes,
           -U < v[l], v[l] < U
    PROVE  LET w == CellAt(p, k)
               x == Resolve(p, v, w)[l]
               a == Surround[k][l]
               r == Rest(p, l)
           IN  \/ x = v[l]
               \/ /\ Hits(p, v, w) /\ l \in Contact(p, v, w)
                  /\ \/ v[l] > 0 /\ a = 1 /\ x = -r /\ r <= v[l]
                     \/ v[l] < 0 /\ a = -1 /\ x = -r /\ r <= -v[l]
                     \/ v[l] < 0 /\ a = 0 /\ x = U - r /\ U - r <= -v[l]
<1> DEFINE w == CellAt(p, k)
           x == Resolve(p, v, w)[l]
           a == Surround[k][l]
           r == Rest(p, l)
           lo == LowEdge(p, w, l)
           hi == HighEdge(p, w, l)
           e == v[l]
<1>1. CASE ~(Hits(p, v, w) /\ l \in Contact(p, v, w))
  BY <1>1 DEF Resolve
<1>2. CASE Hits(p, v, w) /\ l \in Contact(p, v, w)
  <2>1. w \in Cell /\ 3 - l \in Axes
    BY CellType, OtherAxis
  <2>2. /\ e \in Int /\ r \in Nat /\ r < U /\ U \in Nat /\ a \in {-1, 0, 1}
        /\ lo \in Int /\ hi \in Int
    BY <2>1, RestType, SizeFacts, Offsets, EdgesApart DEF Point
  <2>3. /\ a = -1 => lo = -(2 * U) - r /\ hi = -r
        /\ a = 0 => lo = -U - r /\ hi = U - r
        /\ a = 1 => lo = -r /\ hi = 2 * U - r
    BY Edges
  <2>4. x = IF e > 0 THEN lo ELSE hi
    BY <1>2 DEF Resolve
  <2> DEFINE near == Near(p, v, w, l)
             other == Near(p, v, w, 3 - l)
  <2>5. near \in Times /\ other \in Times
    BY <2>1, WallType
  <2>6. Before(other, near)
    BY <1>2 DEF Contact
  <2>7. ~Before(near, other)
    BY <2>5, <2>6, TimesAreOrdered
  <2>8. HitTime(p, v, w) \in {Later(near, other), Later(other, near)}
    BY DEF HitTime, Axes
  <2>9. HitTime(p, v, w) = near
    <3> HIDE DEF near, other
    <3>1. QED
      BY <2>6, <2>7, <2>8 DEF Later
  <2>10. ~Before(near, <<-1, 1>>) /\ Before(near, <<1, 1>>) /\ ~NotANumber(p, v, w)
    BY <1>2, <2>9 DEF Hits
  <2>11. /\ e > 0 => near = <<lo, e>>
         /\ e < 0 => near = <<-hi, -e>>
         /\ e = 0 /\ lo > 0 => near = <<Huge, 1>>
         /\ e = 0 /\ hi < 0 => near = <<-Huge, 1>>
         /\ e = 0 /\ lo < 0 /\ hi > 0 => near = <<-Huge, 1>>
    BY <2>1, NearAndFar
  <2>12. Huge \in Nat /\ Huge > 1
    BY SizeFacts, HugeIsHuge
  <2>13. e = 0 => lo # 0 /\ hi # 0
    BY <2>10 DEF NotANumber
  <2>14. Hits(p, v, w) /\ l \in Contact(p, v, w)
    BY <1>2
  <2> HIDE DEF w, x, a, r, lo, hi, e, near, other
  <2>15. CASE e = 0
    <3>1. near = <<Huge, 1>> \/ near = <<-Huge, 1>>
      BY <2>2, <2>11, <2>13, <2>15
    <3>2. ~Before(<<Huge, 1>>, <<1, 1>>) /\ Before(<<-Huge, 1>>, <<-1, 1>>)
      BY <2>12 DEF Before
    <3>3. QED
      BY <2>10, <3>1, <3>2
  <2>16. CASE e > 0
    <3>1. near = <<lo, e>>
      BY <2>11, <2>16
    <3>2. lo >= -e /\ lo < e
      BY <2>2, <2>10, <3>1 DEF Before
    <3>3. a = 1 /\ lo = -r /\ r <= e
      BY <2>2, <2>3, <3>2 DEF e
    <3>4. QED
      BY <2>4, <2>14, <2>16, <3>3 DEF w, x, a, r, e
  <2>17. CASE e < 0
    <3>1. near = <<-hi, -e>>
      BY <2>11, <2>17
    <3>2. -hi >= e /\ -hi < -e
      BY <2>2, <2>10, <3>1 DEF Before
    <3>3. (a = -1 /\ hi = -r /\ r <= -e) \/ (a = 0 /\ hi = U - r /\ U - r <= -e)
      BY <2>2, <2>3, <3>2 DEF e
    <3>4. ~(e > 0)
      BY <2>2, <2>17
    <3>5. x = hi
      BY <2>4, <3>4
    <3>6. QED
      BY <2>14, <2>17, <3>3, <3>5 DEF w, x, a, r, e
  <2>18. QED
    BY <2>2, <2>15, <2>16, <2>17
<1>3. QED
  BY <1>1, <1>2

\* The other side of a wall, across the axis i, is met before its side along i,
\* and is not passed by then: the wall turns the displacement v along i.
Turns(p, v, k, i) ==
    /\ ~NotANumber(p, v, CellAt(p, k))
    /\ Before(Near(p, v, CellAt(p, k), 3 - i), <<Rest(p, i), -v[i]>>)
    /\ ~Before(Far(p, v, CellAt(p, k), 3 - i), <<Rest(p, i), -v[i]>>)

LEMMA Turned ==
    ASSUME NEW p \in Point, NEW v \in Point, NEW k \in 1..8, NEW i \in Axes,
           Surround[k][i] = -1, v[i] < 0, Rest(p, i) < -v[i], Turns(p, v, k, i)
    PROVE  /\ Hits(p, v, CellAt(p, k))
           /\ Resolve(p, v, CellAt(p, k))[i] = -Rest(p, i)
<1> DEFINE w == CellAt(p, k)
           r == Rest(p, i)
           s == -v[i]
           near == Near(p, v, w, i)
           far == Far(p, v, w, i)
           nj == Near(p, v, w, 3 - i)
           fj == Far(p, v, w, 3 - i)
           zero == <<0, 1>>
<1>1. /\ 3 - i \in Axes /\ 3 - i # i /\ 3 - (3 - i) = i
      /\ \A a \in Axes : a = i \/ a = 3 - i
  BY OtherAxis
<1>2. r \in Nat /\ s \in Nat /\ r < s /\ s >= 1 /\ U \in Nat /\ U >= 1
  BY RestType, SizeFacts DEF Point
<1>3. LowEdge(p, w, i) = -(2 * U) - r /\ HighEdge(p, w, i) = -r
  BY Edges
<1>4. near = <<r, s>> /\ far = <<2 * U + r, s>>
  <2>1. near = <<-HighEdge(p, w, i), s>> /\ far = <<-LowEdge(p, w, i), s>>
    <3>1. w \in Cell
      BY CellType
    <3>2. QED
      BY <3>1, NearAndFar
  <2>2. -HighEdge(p, w, i) = r /\ -LowEdge(p, w, i) = 2 * U + r
    <3> HIDE DEF w, r
    <3>1. QED
      BY <1>2, <1>3
  <2>3. QED
    BY <2>1, <2>2
<1>5. nj \in Times /\ fj \in Times /\ near \in Times /\ far \in Times /\ zero \in Times
  <2>1. w \in Cell
    BY CellType
  <2>2. nj \in Times /\ fj \in Times
    BY <1>1, <2>1, WallType
  <2>3. near \in Times /\ far \in Times
    BY <2>1, WallType
  <2>4. zero \in Times
    BY DEF Times
  <2>5. QED
    BY <2>2, <2>3, <2>4
<1>6. Before(nj, near) /\ ~Before(fj, near)
  BY <1>4 DEF Turns
<1>7. HitTime(p, v, w) \in {Later(near, nj), Later(nj, near)}
  BY DEF HitTime, Axes
<1>8. Sooner(Far(p, v, w, 1), Far(p, v, w, 2)) \in {far, fj}
  BY DEF Sooner, Axes
<1>9. /\ i \in Contact(p, v, w) <=> Before(nj, near)
      /\ 3 - i \in Contact(p, v, w) <=> Before(near, nj)
      /\ Contact(p, v, w) \subseteq Axes
  BY <1>1 DEF Contact
<1>10. Hits(p, v, w) <=> /\ ~NotANumber(p, v, w)
                         /\ ~Before(far, nj) /\ ~Before(fj, near)
                         /\ ~Before(Sooner(Far(p, v, w, 1), Far(p, v, w, 2)), zero)
                         /\ ~Before(HitTime(p, v, w), <<-1, 1>>)
                         /\ Before(HitTime(p, v, w), <<1, 1>>)
  BY DEF Hits, Axes
<1>11. /\ ~Before(near, zero) /\ ~Before(near, <<-1, 1>>) /\ Before(near, <<1, 1>>)
       /\ ~Before(far, zero)
  BY <1>2, <1>4 DEF Before
<1>12. Before(near, far)
  <2>1. r * s < (2 * U + r) * s
    BY <1>2, StrictMultiples
  <2>2. QED
    BY <1>4, <2>1 DEF Before
<1>13. ~NotANumber(p, v, w)
  BY DEF Turns
<1>14. Resolve(p, v, w) = IF Hits(p, v, w)
          THEN [a \in Axes |-> IF a \notin Contact(p, v, w) THEN v[a]
                               ELSE IF v[a] > 0 THEN LowEdge(p, w, a) ELSE HighEdge(p, w, a)]
          ELSE v
  BY DEF Resolve
<1>15. ~(v[i] > 0)
  BY DEF Point
<1> HIDE DEF near, far, nj, fj, zero, w
<1>16. ~Before(near, nj) /\ HitTime(p, v, w) = near
  BY <1>5, <1>6, <1>7, TimesAreOrdered DEF Later
<1>17. ~Before(far, nj)
  <2>1. Before(nj, far)
    BY <1>5, <1>6, <1>12, TimesAreOrdered
  <2>2. QED
    BY <1>5, <2>1, TimesAreOrdered
<1>18. ~Before(fj, zero)
  BY <1>5, <1>6, <1>11, TimesAreOrdered
<1>19. Contact(p, v, w) = {i}
  BY <1>1, <1>6, <1>9, <1>16
<1>20. Hits(p, v, w)
  BY <1>6, <1>8, <1>10, <1>11, <1>13, <1>16, <1>17, <1>18
<1>21. Resolve(p, v, w)[i] = HighEdge(p, w, i) /\ Resolve(p, v, w)[3 - i] = v[3 - i]
  BY <1>1, <1>14, <1>15, <1>19, <1>20
<1>22. QED
  BY <1>3, <1>19, <1>20, <1>21 DEF w


\* A frame's displacement, by s along each axis or not at all.
Stride(d, s) ==
    /\ d \in Point /\ s \in Nat /\ 0 < s /\ s < U
    /\ \A l \in Axes : d[l] \in {-s, 0, s}

\* What walls can leave of it.
Parts(p, d, s) ==
    {v \in Point : \A l \in Axes :
        /\ v[l] \in {d[l], -Rest(p, l), U - Rest(p, l)}
        /\ -s <= v[l] /\ v[l] <= s}

LEMMA PartsStay ==
    ASSUME NEW p \in Point, NEW s, NEW d, Stride(d, s), NEW v \in Parts(p, d, s),
           NEW k \in 1..8
    PROVE  /\ Resolve(p, v, CellAt(p, k)) \in Parts(p, d, s)
           /\ \A l \in Axes :
                Rest(p, l) < s /\ Resolve(p, v, CellAt(p, k))[l] = -s => v[l] = -s
<1> DEFINE u == Resolve(p, v, CellAt(p, k))
<1>1. v \in Point /\ u \in Point /\ s \in Nat /\ U \in Nat /\ s < U
  BY CellType, WallType, SizeFacts DEF Parts, Stride
<1>2. ASSUME NEW l \in Axes
      PROVE  /\ u[l] \in {d[l], -Rest(p, l), U - Rest(p, l)}
             /\ -s <= u[l] /\ u[l] <= s
             /\ Rest(p, l) < s /\ u[l] = -s => v[l] = -s
  <2> DEFINE x == u[l]
             e == v[l]
             r == Rest(p, l)
             a == Surround[k][l]
  <2>1. e \in Int /\ x \in Int /\ r \in Nat /\ r < U
    BY <1>1, RestType DEF Point
  <2>2. e \in {d[l], -r, U - r} /\ -s <= e /\ e <= s
    BY DEF Parts
  <2>3. \/ x = e
        \/ e > 0 /\ x = -r /\ r <= e
        \/ e < 0 /\ x = -r /\ r <= -e
        \/ e < 0 /\ x = U - r /\ U - r <= -e
    <3>1. -U < e /\ e < U
      BY <1>1, <2>1, <2>2
    <3>2. QED
      BY <1>1, <3>1, ResolveAxis
  <2> SUFFICES /\ x \in {d[l], -r, U - r}
               /\ -s <= x /\ x <= s
               /\ r < s /\ x = -s => e = -s
    OBVIOUS
  <2> HIDE DEF x, e, r, u
  <2>4. QED
    BY <1>1, <2>1, <2>2, <2>3
<1> HIDE DEF u
<1>3. u \in Parts(p, d, s)
  BY <1>1, <1>2 DEF Parts
<1>4. QED
  BY <1>2, <1>3 DEF u

LEMMA Whole ==
    ASSUME NEW p, NEW s, NEW d, Stride(d, s)
    PROVE  d \in Parts(p, d, s)
<1>1. s \in Nat /\ \A l \in Axes : d[l] \in {-s, 0, s}
  BY DEF Stride
<1>2. \A l \in Axes : -s <= d[l] /\ d[l] <= s
  BY <1>1
<1>3. QED
  BY <1>2 DEF Parts, Stride

\* What holds of the whole displacement, and of what any wall that is hit leaves
\* of a part of which it holds, holds of what is left in the end.
LEMMA PartsKeep ==
    ASSUME NEW p \in Point, NEW s, NEW d, Stride(d, s), NEW Q, d \in Q,
           \A k \in HitWalls(p, d) : \A v \in Q \cap Parts(p, d, s) :
                Resolve(p, v, CellAt(p, k)) \in Q
    PROVE  Resolved(p, d) \in Q \cap Parts(p, d, s)
<1> DEFINE D == HitWalls(p, d)
           G == (SUBSET D) \X (Q \cap Parts(p, d, s))
<1>1. D \subseteq 1..8 /\ d \in Point
  BY DEF HitWalls, Stride
<1>2. <<{}, d>> \in G
  BY Whole
<1>3. ASSUME NEW t \in SUBSET D, NEW k \in t, NEW v, <<t \ {k}, v>> \in G
      PROVE  <<t, Resolve(p, v, CellAt(p, k))>> \in G
  <2>1. k \in D /\ k \in 1..8 /\ v \in Q \cap Parts(p, d, s)
    BY <1>1, <1>3
  <2>2. Resolve(p, v, CellAt(p, k)) \in Parts(p, d, s)
    BY <2>1, PartsStay
  <2>3. Resolve(p, v, CellAt(p, k)) \in Q
    BY <2>1
  <2>4. QED
    BY <2>2, <2>3
<1>4. <<D, Resolved(p, d)>> \in G
  <2> HIDE DEF G
  <2>1. QED
    BY <1>1, <1>2, <1>3, WalkKeeps
<1>5. QED
  BY <1>4

\* A displacement that a wall would turn, as long as it is one of Q, is not one
\* of Q in the end, if no other wall can bring it there.
LEMMA TurnedAway ==
    ASSUME NEW p \in Point, NEW s, NEW d, Stride(d, s), NEW Q, d \in Q,
           \A v \in Parts(p, d, s), k \in 1..8 :
                Resolve(p, v, CellAt(p, k)) \in Q => v \in Q,
           NEW m \in 1..8, NEW i \in Axes,
           CellAt(p, m) \in walls, Surround[m][i] = -1, Rest(p, i) < s,
           \A v \in Q \cap Parts(p, d, s) : v[i] = -s /\ Turns(p, v, m, i)
    PROVE  Resolved(p, d) \notin Q
<1> DEFINE D == HitWalls(p, d)
           V == Parts(p, d, s)
           G == {g \in (SUBSET D) \X V : m \in g[1] => g[2] \notin Q}
           w == CellAt(p, m)
<1>1. D \subseteq 1..8 /\ d \in Point /\ s \in Nat /\ 0 < s
  BY DEF HitWalls, Stride
<1>2. d \in V
  BY Whole
<1>3. ASSUME NEW v \in Q \cap V
      PROVE  Hits(p, v, w) /\ Resolve(p, v, w) \notin Q
  <2>1. v \in Point /\ v[i] = -s /\ Turns(p, v, m, i)
    BY <1>3 DEF Parts
  <2>2. Rest(p, i) \in Nat
    BY RestType
  <2>3. v[i] < 0 /\ Rest(p, i) < -v[i]
    BY <1>1, <2>1
  <2>4. Hits(p, v, w) /\ Resolve(p, v, w)[i] = -Rest(p, i)
    BY <2>1, <2>3, Turned
  <2>5. Resolve(p, v, w) \in V
    BY PartsStay
  <2> DEFINE u == Resolve(p, v, w)
  <2>6. u \in Q \cap V => u[i] = -s
    <3> HIDE DEF u, V
    <3>1. \A x \in Q \cap V : x[i] = -s
      BY DEF V
    <3>2. QED
      BY <3>1
  <2>7. u[i] # -s
    <3>1. u[i] = -Rest(p, i)
      BY <2>4
    <3> HIDE DEF u
    <3>2. QED
      BY <1>1, <2>2, <3>1
  <2>8. QED
    BY <2>4, <2>5, <2>6, <2>7
<1>4. m \in D
  BY <1>2, <1>3 DEF HitWalls
<1>5. <<{}, d>> \in G
  BY <1>2
<1>6. ASSUME NEW t \in SUBSET D, NEW k \in t, NEW v, <<t \ {k}, v>> \in G
      PROVE  <<t, Resolve(p, v, CellAt(p, k))>> \in G
  <2> DEFINE u == Resolve(p, v, CellAt(p, k))
  <2>1. k \in 1..8 /\ v \in V /\ (m \in t \ {k} => v \notin Q)
    BY <1>1, <1>6
  <2>2. u \in V
    BY <2>1, PartsStay
  <2>3. u \in Q => v \in Q
    BY <2>1
  <2>4. m \in t => u \notin Q
    <3>1. CASE m = k
      BY <1>3, <2>1, <2>3, <3>1
    <3>2. CASE m # k
      <4> HIDE DEF u
      <4>1. QED
        BY <2>1, <2>3, <3>2
    <3>3. QED
      BY <3>1, <3>2
  <2> HIDE DEF u, V
  <2>5. <<t, u>> \in G
    BY <2>2, <2>4
  <2>6. QED
    BY <2>5 DEF u
<1>7. <<D, Resolved(p, d)>> \in G
  <2> HIDE DEF G
  <2>1. QED
    BY <1>1, <1>5, <1>6, WalkKeeps
<1>8. QED
  BY <1>4, <1>7

\* A number of tiles that is not less than what is walked takes the whole frame.
LEMMA Slower ==
    ASSUME NEW n \in Nat, NEW x \in Nat, NEW r \in Nat, NEW s \in Nat, x <= n, r <= s
    PROVE  ~(n * s < r * x)
<1>1. r * x <= s * x
  BY Multiples
<1>2. x * s <= n * s
  BY Multiples
<1> DEFINE rx == r * x
           sx == s * x
           ns == n * s
<1>3. rx \in Int /\ sx \in Int /\ ns \in Int /\ s * x = x * s
  OBVIOUS
<1>4. rx <= sx /\ sx <= ns
  BY <1>1, <1>2, <1>3
<1> SUFFICES ~(ns < rx)
  OBVIOUS
<1> HIDE DEF rx, sx, ns
<1>5. QED
  BY <1>3, <1>4

LEMMA Behind ==
    ASSUME NEW n \in Int, n < 0, NEW s \in Nat, s >= 1, NEW r \in Nat, NEW x \in Nat
    PROVE  n * s < r * x
<1>1. n * s < 0 * s
  BY StrictMultiples
<1>2. 0 * x <= r * x
  BY Multiples
<1> DEFINE ns == n * s
           rx == r * x
<1>3. ns \in Int /\ rx \in Int /\ 0 * s = 0 /\ 0 * x = 0
  OBVIOUS
<1>4. ns < 0 /\ 0 <= rx
  BY <1>1, <1>2, <1>3
<1> SUFFICES ns < rx
  OBVIOUS
<1> HIDE DEF ns, rx
<1>5. QED
  BY <1>3, <1>4

\* When a wall turns a displacement by -s along i, in terms of its edges along
\* the other axis.
LEMMA TurnsWhen ==
    ASSUME NEW p \in Point, NEW v \in Point, NEW k \in 1..8, NEW i \in Axes,
           NEW s \in Nat, v[i] = -s, Rest(p, i) < s, s < U, Surround[k][i] = -1,
           LowEdge(p, CellAt(p, k), 3 - i) < 0,
           LET lo == LowEdge(p, CellAt(p, k), 3 - i)
               hi == HighEdge(p, CellAt(p, k), 3 - i)
               x == v[3 - i]
           IN  \/ x = 0 /\ hi > 0
               \/ x > 0 /\ hi > 0 /\ ~(hi * s < Rest(p, i) * x)
               \/ x < 0 /\ -hi * s < Rest(p, i) * (-x) /\ ~(-lo * s < Rest(p, i) * (-x))
    PROVE  Turns(p, v, k, i)
<1> DEFINE w == CellAt(p, k)
           j == 3 - i
           lo == LowEdge(p, w, j)
           hi == HighEdge(p, w, j)
           x == v[j]
           r == Rest(p, i)
<1>1. w \in Cell /\ j \in Axes /\ \A a \in Axes : a = i \/ a = j
  BY CellType, OtherAxis
<1>2. r \in Nat /\ lo \in Int /\ hi \in Int /\ x \in Int /\ s >= 1 /\ -v[i] = s /\ r < s
  BY <1>1, RestType, EdgesApart DEF Point
<1>3. /\ x > 0 => Near(p, v, w, j) = <<lo, x>> /\ Far(p, v, w, j) = <<hi, x>>
      /\ x < 0 => Near(p, v, w, j) = <<-hi, -x>> /\ Far(p, v, w, j) = <<-lo, -x>>
      /\ x = 0 /\ hi > 0 => Near(p, v, w, j) = <<-Huge, 1>> /\ Far(p, v, w, j) = <<Huge, 1>>
  BY <1>1, NearAndFar
<1>4. ~NotANumber(p, v, w)
  <2>1. v[i] # 0
    BY <1>2
  <2>2. x = 0 => lo # 0 /\ hi # 0
    BY <1>2
  <2>3. QED
    BY <1>1, <2>1, <2>2 DEF NotANumber
<1>5. \/ x = 0 /\ hi > 0
      \/ x > 0 /\ hi > 0 /\ ~(hi * s < r * x)
      \/ x < 0 /\ -hi * s < r * (-x) /\ ~(-lo * s < r * (-x))
  OBVIOUS
<1>6. lo < 0
  OBVIOUS
<1> SUFFICES ~NotANumber(p, v, w) /\ Before(Near(p, v, w, j), <<r, s>>)
             /\ ~Before(Far(p, v, w, j), <<r, s>>)
  BY <1>2 DEF Turns
<1>7. Huge \in Nat /\ Huge >= 1000 * U /\ U \in Nat /\ U >= 1
  BY HugeIsHuge, SizeFacts
<1> HIDE DEF w, j, lo, hi, x, r
<1>8. CASE x = 0 /\ hi > 0
  <2>1. Near(p, v, w, j) = <<-Huge, 1>> /\ Far(p, v, w, j) = <<Huge, 1>>
    BY <1>3, <1>8
  <2>2. -Huge < 0 /\ r <= s /\ 1 <= Huge
    BY <1>2, <1>7
  <2>3. (-Huge) * s < r * 1
    BY <1>2, <1>7, <2>2, Behind
  <2>4. ~(Huge * s < r * 1)
    BY <1>2, <1>7, <2>2, Slower
  <2>5. QED
    BY <1>4, <2>1, <2>3, <2>4 DEF Before
<1>9. CASE x > 0 /\ hi > 0 /\ ~(hi * s < r * x)
  <2>1. Near(p, v, w, j) = <<lo, x>> /\ Far(p, v, w, j) = <<hi, x>>
    BY <1>3, <1>9
  <2>2. lo * s < r * x
    BY <1>2, <1>6, <1>9, Behind
  <2>3. QED
    BY <1>4, <1>9, <2>1, <2>2 DEF Before
<1>10. CASE x < 0 /\ -hi * s < r * (-x) /\ ~(-lo * s < r * (-x))
  <2>1. Near(p, v, w, j) = <<-hi, -x>> /\ Far(p, v, w, j) = <<-lo, -x>>
    BY <1>3, <1>10
  <2>2. -hi * s = (-hi) * s /\ -lo * s = (-lo) * s
    BY <1>2
  <2>3. QED
    BY <1>4, <1>10, <2>1, <2>2 DEF Before
<1>11. QED
  BY <1>5, <1>8, <1>9, <1>10

\* The wall to the left turns whatever still goes to the left, unless that has
\* passed the wall by then.
LEMMA TurnsBeside ==
    ASSUME NEW p \in Point, NEW s, NEW d, Stride(d, s), NEW v \in Parts(p, d, s),
           NEW k \in 1..8, NEW i \in Axes, v[i] = -s, Rest(p, i) < s,
           Surround[k][i] = -1, Surround[k][3 - i] = 0,
           ~(d[3 - i] = s /\ Rest(p, i) + Rest(p, 3 - i) > U)
    PROVE  Turns(p, v, k, i)
<1> DEFINE w == CellAt(p, k)
           j == 3 - i
           lo == LowEdge(p, w, j)
           hi == HighEdge(p, w, j)
           x == v[j]
           r == Rest(p, i)
           q == Rest(p, j)
<1>1. /\ j \in Axes /\ v \in Point /\ r \in Nat /\ q \in Nat /\ q < U
      /\ U \in Nat /\ s \in Nat /\ s < U /\ s >= 1 /\ x \in Int
  BY OtherAxis, RestType, SizeFacts DEF Parts, Stride, Point
<1>2. x \in {d[j], -q, U - q} /\ -s <= x /\ x <= s /\ d[j] \in {-s, 0, s}
  BY <1>1 DEF Parts, Stride
<1>3. lo = -U - q /\ hi = U - q
  BY <1>1, Edges
<1>4. r < s /\ ~(d[j] = s /\ r + q > U)
  OBVIOUS
<1>5. \/ x = 0 /\ hi > 0
      \/ x > 0 /\ hi > 0 /\ ~(hi * s < r * x)
      \/ x < 0 /\ -hi * s < r * (-x) /\ ~(-lo * s < r * (-x))
  <2> HIDE DEF lo, hi, x, r, q, j
  <2>1. lo \in Int /\ hi \in Nat /\ hi >= 1 /\ -lo \in Nat /\ -lo >= s
    BY <1>1, <1>3
  <2>2. CASE x > 0
    <3>1. x <= hi \/ (x = s /\ r <= hi)
      BY <1>1, <1>2, <1>3, <1>4, <2>2
    <3>2. CASE x <= hi
      BY <1>1, <1>4, <2>1, <2>2, <3>2, Slower
    <3>3. CASE x = s /\ r <= hi
      <4>1. r * s <= hi * s
        BY <1>1, <2>1, <3>3, Multiples
      <4>2. ~(hi * s < r * s)
        <5> DEFINE a == r * s
                   b == hi * s
        <5>1. a \in Int /\ b \in Int /\ a <= b
          BY <1>1, <2>1, <4>1
        <5> SUFFICES ~(b < a)
          OBVIOUS
        <5> HIDE DEF a, b
        <5>2. QED
          BY <5>1
      <4>3. QED
        BY <2>1, <2>2, <3>3, <4>2
    <3>4. QED
      BY <3>1, <3>2, <3>3
  <2>3. CASE x < 0
    <3>1. -x \in Nat /\ -x <= -lo /\ -hi \in Int /\ -hi < 0 /\ r <= s
      BY <1>1, <1>2, <1>4, <2>1, <2>3
    <3>2. (-hi) * s < r * (-x)
      BY <1>1, <3>1, Behind
    <3>3. ~((-lo) * s < r * (-x))
      BY <1>1, <2>1, <3>1, Slower
    <3>4. -hi * s = (-hi) * s /\ -lo * s = (-lo) * s
      BY <1>1, <2>1
    <3>5. QED
      BY <2>3, <3>2, <3>3, <3>4
  <2>4. QED
    BY <1>1, <2>1, <2>2, <2>3
<1>6. lo < 0
  <2> HIDE DEF lo, q
  <2>1. QED
    BY <1>1, <1>3
<1>7. QED
  BY <1>1, <1>5, <1>6, TurnsWhen

\* So does the wall below that, which the character already reaches by its
\* lower edge.
LEMMA TurnsBelow ==
    ASSUME NEW p \in Point, NEW s, NEW d, Stride(d, s), NEW v \in Parts(p, d, s),
           NEW k \in 1..8, NEW i \in Axes, v[i] = -s, Rest(p, i) < s,
           Surround[k][i] = -1, Surround[k][3 - i] = 1, Rest(p, 3 - i) > 0,
           ~(d[3 - i] = -s /\ Rest(p, 3 - i) < Rest(p, i))
    PROVE  Turns(p, v, k, i)
<1> DEFINE w == CellAt(p, k)
           j == 3 - i
           lo == LowEdge(p, w, j)
           hi == HighEdge(p, w, j)
           x == v[j]
           r == Rest(p, i)
           q == Rest(p, j)
<1>1. /\ j \in Axes /\ v \in Point /\ r \in Nat /\ q \in Nat /\ q < U
      /\ U \in Nat /\ s \in Nat /\ s < U /\ s >= 1 /\ x \in Int
  BY OtherAxis, RestType, SizeFacts DEF Parts, Stride, Point
<1>2. x \in {d[j], -q, U - q} /\ -s <= x /\ x <= s /\ d[j] \in {-s, 0, s}
  BY <1>1 DEF Parts, Stride
<1>3. lo = -q /\ hi = 2 * U - q
  BY <1>1, Edges
<1>4. r < s /\ q > 0 /\ ~(d[j] = -s /\ q < r)
  OBVIOUS
<1>5. \/ x = 0 /\ hi > 0
      \/ x > 0 /\ hi > 0 /\ ~(hi * s < r * x)
      \/ x < 0 /\ -hi * s < r * (-x) /\ ~(-lo * s < r * (-x))
  <2> HIDE DEF lo, hi, x, r, q, j
  <2>1. lo \in Int /\ hi \in Nat /\ hi >= s /\ hi >= 1 /\ -lo \in Nat /\ -lo = q
    BY <1>1, <1>3
  <2>2. CASE x > 0
    <3>1. x \in Nat /\ x <= hi /\ r <= s
      BY <1>1, <1>2, <1>4, <2>1, <2>2
    <3>2. QED
      BY <1>1, <2>1, <2>2, <3>1, Slower
  <2>3. CASE x < 0
    <3>1. -x \in Nat /\ -hi \in Int /\ -hi < 0 /\ r <= s
      BY <1>1, <1>2, <1>4, <2>1, <2>3
    <3>2. (-hi) * s < r * (-x)
      BY <1>1, <3>1, Behind
    <3>3. -x <= q \/ (-x = s /\ r <= q)
      BY <1>1, <1>2, <1>4, <2>3
    <3>4. ~(q * s < r * (-x))
      <4>1. CASE -x <= q
        BY <1>1, <3>1, <4>1, Slower
      <4>2. CASE -x = s /\ r <= q
        <5>1. r * s <= q * s
          BY <1>1, <4>2, Multiples
        <5> DEFINE a == r * s
                   b == q * s
        <5>2. a \in Int /\ b \in Int /\ a <= b
          BY <1>1, <5>1
        <5>3. ~(b < a)
          <6> HIDE DEF a, b
          <6>1. QED
            BY <5>2
        <5>4. QED
          BY <4>2, <5>3
      <4>3. QED
        BY <3>3, <4>1, <4>2
    <3>5. -hi * s = (-hi) * s /\ -lo * s = q * s
      BY <1>1, <1>3, <2>1
    <3>6. QED
      BY <2>3, <3>2, <3>4, <3>5
  <2>4. QED
    BY <1>1, <2>1, <2>2, <2>3
<1>6. lo < 0
  <2> HIDE DEF lo, q
  <2>1. QED
    BY <1>1, <1>3, <1>4
<1>7. QED
  BY <1>1, <1>5, <1>6, TurnsWhen

\* So does the wall across the upper left corner, for a character that is
\* closer to its row than to its column.
LEMMA TurnsCorner ==
    ASSUME NEW p \in Point, NEW s, NEW d, Stride(d, s), NEW v \in Parts(p, d, s),
           NEW k \in 1..8, NEW i \in Axes, v[i] = -s, v[3 - i] = -s,
           Surround[k][i] = -1, Surround[k][3 - i] = -1,
           Rest(p, 3 - i) < Rest(p, i), Rest(p, i) < s
    PROVE  Turns(p, v, k, i)
<1> DEFINE w == CellAt(p, k)
           j == 3 - i
           lo == LowEdge(p, w, j)
           hi == HighEdge(p, w, j)
           x == v[j]
           r == Rest(p, i)
           q == Rest(p, j)
<1>1. /\ j \in Axes /\ v \in Point /\ r \in Nat /\ q \in Nat /\ q < U
      /\ U \in Nat /\ s \in Nat /\ s < U /\ s >= 1 /\ x \in Int
  BY OtherAxis, RestType, SizeFacts DEF Parts, Stride, Point
<1>2. lo = -(2 * U) - q /\ hi = -q
  BY <1>1, Edges
<1>3. r < s /\ q < r /\ x = -s
  OBVIOUS
<1>4. x < 0 /\ -hi * s < r * (-x) /\ ~(-lo * s < r * (-x))
  <2> HIDE DEF lo, hi, x, r, q, j
  <2>1. q * s < r * s
    BY <1>1, <1>3, StrictMultiples
  <2>2. ~((2 * U + q) * s < r * s)
    BY <1>1, <1>3, Slower
  <2>3. -hi * s = q * s /\ -lo * s = (2 * U + q) * s /\ -x = s
    BY <1>1, <1>2, <1>3
  <2>4. QED
    BY <1>1, <1>3, <2>1, <2>2, <2>3
<1>5. lo < 0
  <2> HIDE DEF lo, q
  <2>1. QED
    BY <1>1, <1>2
<1>6. QED
  BY <1>1, <1>4, <1>5, TurnsWhen

LEMMA FreeWalls ==
    ASSUME TypeOK, Free, NEW i \in Axes
    PROVE  /\ ~Wall(pos, i, 0, 0)
           /\ Wall(pos, i, 1, 0) => Rest(pos, i) = 0
           /\ Wall(pos, i, 0, 1) => Rest(pos, 3 - i) = 0
           /\ Wall(pos, i, 1, 1) => Rest(pos, i) = 0 \/ Rest(pos, 3 - i) = 0
<1> DEFINE r == Rest(pos, i)
           q == Rest(pos, 3 - i)
<1>1. pos \in Point /\ r \in Nat /\ q \in Nat
  BY PosType, OtherAxis, RestType
<1>2. ASSUME NEW a \in {0, 1}, NEW b \in {0, 1}, Wall(pos, i, a, b),
             a = 1 => r > 0, b = 1 => q > 0
      PROVE  FALSE
  BY <1>1, <1>2, ReachesOverlap DEF Free
<1> HIDE DEF r, q
<1>3. /\ ~Wall(pos, i, 0, 0)
      /\ Wall(pos, i, 1, 0) => r = 0
      /\ Wall(pos, i, 0, 1) => q = 0
      /\ Wall(pos, i, 1, 1) => r = 0 \/ q = 0
  BY <1>1, <1>2
<1>4. QED
  BY <1>3 DEF r, q

\* The cell in which a frame ends, along the axis i, seen from the one it
\* started in: what must have been left of the displacement.
Ends(p, q, d, v, s, i, e) ==
    /\ e \in {-1, 0, 1} /\ CellOf(q)[i] = CellOf(p)[i] + e
    /\ e = -1 => d[i] = -s /\ v[i] = -s /\ Rest(p, i) < s
    /\ e = 0 /\ d[i] = s /\ v[i] = s => Rest(p, i) + s < U
    /\ e = 1 => Rest(p, i) > 0 /\ (v[i] = U - Rest(p, i) \/ (d[i] = s /\ v[i] = s))

LEMMA BorderOfTiles ==
    ASSUME NEW i \in Axes
    PROVE  \E n \in Nat : Size[i] = n * U
<1>1. CASE i = 1
  BY <1>1, SizeType, SizeFacts
<1>2. CASE i = 2
  BY <1>2, SizeType, SizeFacts
<1>3. QED
  BY <1>1, <1>2 DEF Axes

LEMMA FrameEnds ==
    ASSUME TypeOK, NEW s, NEW d, Stride(d, s), NEW i \in Axes,
           Resolved(pos, d) \in Parts(pos, d, s), pos[i] + d[i] < Size[i]
    PROVE  \E e : Ends(pos, Clamped(End(d)), d, Resolved(pos, d), s, i, e)
<1> DEFINE v == Resolved(pos, d)
           q == Clamped(End(d))
           c == CellOf(pos)[i]
           r == Rest(pos, i)
           x == v[i]
           g == d[i]
           m == pos[i]
           S == Size[i]
<1>1. /\ c \in Nat /\ c * U \in Int /\ r \in Nat /\ r < U /\ m = c * U + r
      /\ U \in Nat /\ s \in Nat /\ s >= 1 /\ s < U /\ g \in {-s, 0, s}
      /\ m \in Nat /\ m < S /\ S \in Nat
  BY PosType, RestType, SizeFacts, CellIsOnMap, SizeType DEF Stride, Point
<1>2. v \in Point /\ x \in Int /\ x \in {g, -r, U - r} /\ -s <= x /\ x <= s
  BY DEF Parts, Point
<1>3. q \in Point /\ q[i] = Clamp(m + x, i)
  <2>1. \A l \in Axes : pos[l] + v[l] \in Int /\ End(d)[l] = pos[l] + v[l]
    BY <1>2, PosType DEF End, Axes, Point
  <2>2. \A l \in Axes : Clamp(End(d)[l], l) \in Int /\ q[l] = Clamp(End(d)[l], l)
    BY <2>1, ClampIn, SizeType DEF Clamped, Axes
  <2>3. q = <<q[1], q[2]>> /\ q[1] \in Int /\ q[2] \in Int
    BY <2>2 DEF Clamped, Axes
  <2>4. q \in Point
    <3> HIDE DEF q
    <3>1. q \in Int \X Int
      BY <2>3
    <3>2. QED
      BY <3>1, PairIsPoint
  <2>5. QED
    BY <2>1, <2>2, <2>4
<1>4. q[i] = IF m + x < 0 THEN 0 ELSE IF m + x >= S THEN S - U ELSE m + x
  BY <1>3 DEF Clamp
<1>5. ASSUME NEW k \in Int, NEW y \in Nat, y < U, q[i] = k * U + y
      PROVE  CellOf(q)[i] = k
  BY <1>3, <1>5, CellIs
<1>6. PICK n \in Nat : S = n * U
  BY BorderOfTiles
<1>7. g = s => m + s < S
  OBVIOUS
<1>8. r = Rest(pos, i) /\ c = CellOf(pos)[i] /\ x = v[i] /\ g = d[i]
  OBVIOUS
<1> HIDE DEF v, q, c, r, x, g, m, S
<1>9. /\ (c + 1) * U = c * U + U /\ (c - 1) * U = c * U - U
      /\ (c + 1) * U \in Int /\ (c - 1) * U \in Int
  BY <1>1
<1> DEFINE E(e) == /\ e \in {-1, 0, 1} /\ CellOf(q)[i] = c + e
                   /\ e = -1 => g = -s /\ x = -s /\ r < s
                   /\ e = 0 /\ g = s /\ x = s => r + s < U
                   /\ e = 1 => r > 0 /\ (x = U - r \/ (g = s /\ x = s))
<1>10. SUFFICES \E e : E(e)
  <2>1. ASSUME NEW e, E(e) PROVE Ends(pos, q, d, v, s, i, e)
    <3>1. e = -1 => Rest(pos, i) < s
      BY <1>8, <2>1
    <3>2. QED
      BY <1>8, <2>1 DEF Ends
  <2>2. QED
    BY <1>10, <2>1 DEF v, q
<1> DEFINE cu == c * U
<1>11. cu \in Int /\ m = cu + r /\ (c + 1) * U = cu + U /\ (c - 1) * U = cu - U /\ 0 <= cu
  <2>1. 0 * U <= c * U /\ 0 * U = 0
    BY <1>1, Multiples
  <2>2. QED
    BY <1>1, <1>9, <2>1
<1>12. CASE x = -r
  <2>1. m + x = cu /\ cu >= 0 /\ cu < S
    <3> HIDE DEF cu
    <3>1. QED
      BY <1>1, <1>11, <1>12
  <2>2. q[i] = c * U + 0
    BY <1>1, <1>4, <2>1
  <2>3. CellOf(q)[i] = c /\ c = c + 0
    BY <1>1, <1>5, <2>2
  <2>4. E(0)
    BY <1>1, <1>12, <2>3
  <2>5. QED
    BY <2>4
<1>13. CASE x = U - r /\ m + x < S
  <2>1. m + x = cu + U /\ m + x >= 0 /\ r > 0
    <3> HIDE DEF cu
    <3>1. QED
      BY <1>1, <1>2, <1>11, <1>13
  <2>2. q[i] = (c + 1) * U + 0
    BY <1>1, <1>4, <1>9, <1>13, <2>1
  <2>3. CellOf(q)[i] = c + 1
    BY <1>1, <1>5, <2>2
  <2>4. E(1)
    BY <1>13, <2>1, <2>3
  <2>5. QED
    BY <2>4
<1>14. CASE x = U - r /\ m + x >= S
  <2>1. m + x = cu + U /\ m + x >= 0
    <3> HIDE DEF cu
    <3>1. QED
      BY <1>1, <1>11, <1>14
  <2>2. c < n
    <3> SUFFICES ASSUME n <= c PROVE FALSE
      BY <1>1
    <3>1. n * U <= c * U
      BY <1>1, Multiples
    <3>2. S <= cu
      BY <1>6, <3>1
    <3> HIDE DEF cu
    <3>3. QED
      BY <1>1, <1>11, <3>2
  <2>3. n <= c + 1
    <3> SUFFICES ASSUME c + 1 < n PROVE FALSE
      BY <1>1
    <3>1. (c + 1) * U < n * U
      BY <1>1, StrictMultiples
    <3>2. cu + U < S
      BY <1>6, <1>11, <3>1
    <3> HIDE DEF cu
    <3>3. QED
      BY <1>1, <1>11, <1>14, <2>1, <3>2
  <2>4. n = c + 1
    BY <1>1, <2>2, <2>3
  <2>5. S - U = cu
    <3>1. S = cu + U
      BY <1>6, <1>11, <2>4
    <3> HIDE DEF cu
    <3>2. QED
      BY <1>1, <1>11, <3>1
  <2>6. q[i] = c * U + 0
    <3>1. ~(m + x < 0) /\ m + x \in Int
      <4> HIDE DEF cu
      <4>1. QED
        BY <1>1, <1>2, <2>1
    <3>2. q[i] = cu
      BY <1>4, <1>14, <2>5, <3>1
    <3>3. QED
      BY <1>1, <3>2
  <2>7. CellOf(q)[i] = c /\ c = c + 0
    BY <1>1, <1>5, <2>6
  <2>8. ~(g = s /\ x = s)
    BY <1>1, <1>7, <1>14
  <2>9. E(0)
    BY <2>7, <2>8
  <2>10. QED
    BY <2>9
<1>15. CASE x = g /\ g = s
  <2>1. m + x < S /\ m + x = cu + (r + s) /\ m + x >= 0
    <3> HIDE DEF cu
    <3>1. QED
      BY <1>1, <1>7, <1>11, <1>15
  <2>2. CASE r + s < U
    <3>1. q[i] = c * U + (r + s) /\ r + s \in Nat
      BY <1>1, <1>4, <2>1
    <3>2. CellOf(q)[i] = c /\ c = c + 0
      BY <1>1, <1>5, <2>2, <3>1
    <3>3. E(0)
      BY <2>2, <3>2
    <3>4. QED
      BY <3>3
  <2>3. CASE r + s >= U
    <3>1. r + s - U \in Nat /\ r + s - U < U /\ r > 0
      BY <1>1, <2>3
    <3>2. m + x = (cu + U) + (r + s - U)
      <4> HIDE DEF cu
      <4>1. QED
        BY <1>1, <1>11, <2>1
    <3>3. q[i] = (c + 1) * U + (r + s - U)
      BY <1>1, <1>4, <1>11, <2>1, <3>2
    <3>4. CellOf(q)[i] = c + 1
      BY <1>1, <1>5, <3>1, <3>3
    <3>5. E(1)
      BY <1>15, <3>1, <3>4
    <3>6. QED
      BY <3>5
  <2>4. QED
    BY <1>1, <2>2, <2>3
<1>16. CASE x = g /\ g = 0
  <2>1. m + x = m
    BY <1>1, <1>16
  <2>2. q[i] = c * U + r
    BY <1>1, <1>4, <2>1
  <2>3. CellOf(q)[i] = c /\ c = c + 0
    BY <1>1, <1>5, <2>2
  <2>4. E(0)
    BY <1>1, <1>16, <2>3
  <2>5. QED
    BY <2>4
<1>17. CASE x = g /\ g = -s
  <2>1. m + x = cu + (r - s) /\ m + x < S
    <3> HIDE DEF cu
    <3>1. QED
      BY <1>1, <1>11, <1>17
  <2>2. CASE r >= s
    <3>1. r - s \in Nat /\ r - s < U
      BY <1>1, <2>2
    <3>2. m + x >= 0
      <4> HIDE DEF cu
      <4>1. QED
        BY <1>1, <1>11, <2>1, <3>1
    <3>3. q[i] = c * U + (r - s)
      BY <1>1, <1>4, <2>1, <3>2
    <3>4. CellOf(q)[i] = c /\ c = c + 0
      BY <1>1, <1>5, <3>1, <3>3
    <3>5. E(0)
      BY <1>1, <1>17, <3>4
    <3>6. QED
      BY <3>5
  <2>3. CASE r < s /\ c = 0
    <3>1. cu = 0
      BY <1>1, <2>3
    <3>2. m + x < 0
      <4> HIDE DEF cu
      <4>1. QED
        BY <1>1, <2>1, <2>3, <3>1
    <3>3. q[i] = c * U + 0
      BY <1>1, <1>4, <3>1, <3>2
    <3>4. CellOf(q)[i] = c /\ c = c + 0
      BY <1>1, <1>5, <3>3
    <3>5. E(0)
      BY <1>1, <1>17, <3>4
    <3>6. QED
      BY <3>5
  <2>4. CASE r < s /\ c >= 1
    <3>1. U + r - s \in Nat /\ U + r - s < U
      BY <1>1, <2>4
    <3>2. m + x = (cu - U) + (U + r - s)
      <4> HIDE DEF cu
      <4>1. QED
        BY <1>1, <1>11, <2>1
    <3>3. 0 <= cu - U
      <4>1. 1 * U <= c * U /\ 1 * U = U
        BY <1>1, <2>4, Multiples
      <4>2. U <= cu
        BY <4>1
      <4> HIDE DEF cu
      <4>3. QED
        BY <1>1, <1>11, <4>2
    <3>4. m + x >= 0
      <4> HIDE DEF cu
      <4>1. QED
        BY <1>1, <1>11, <3>1, <3>2, <3>3
    <3>5. q[i] = (c - 1) * U + (U + r - s)
      BY <1>1, <1>4, <1>11, <2>1, <3>2, <3>4
    <3>6. CellOf(q)[i] = c - 1 /\ c - 1 = c + (-1)
      <4> DEFINE k == c - 1
                 y == U + r - s
      <4>1. k \in Int /\ y \in Nat /\ y < U /\ q[i] = k * U + y /\ k = c + (-1)
        BY <1>1, <3>1, <3>5
      <4> HIDE DEF k, y
      <4>2. CellOf(q)[i] = k
        BY <1>5, <4>1
      <4>3. QED
        BY <4>1, <4>2 DEF k
    <3>7. E(-1)
      BY <1>17, <2>4, <3>6
    <3>8. QED
      BY <3>7
  <2>5. QED
    BY <1>1, <2>2, <2>3, <2>4
<1>18. QED
  <2>1. m + x < S \/ m + x >= S
    BY <1>1, <1>2
  <2>2. QED
    BY <1>1, <1>2, <1>12, <1>13, <1>14, <1>15, <1>16, <1>17, <2>1

\* The walls on the left are met along i when r of the s units are walked.
LEMMA NearLeft ==
    ASSUME NEW p \in Point, NEW v \in Point, NEW k \in 1..8, NEW i \in Axes,
           NEW s \in Nat, s >= 1, v[i] = -s, Surround[k][i] = -1
    PROVE  /\ Near(p, v, CellAt(p, k), i) = <<Rest(p, i), s>>
           /\ Far(p, v, CellAt(p, k), i) = <<2 * U + Rest(p, i), s>>
<1> DEFINE w == CellAt(p, k)
           lo == LowEdge(p, w, i)
           hi == HighEdge(p, w, i)
           r == Rest(p, i)
<1>1. w \in Cell /\ r \in Nat /\ U \in Nat
  BY CellType, RestType, SizeFacts
<1>2. lo = -(2 * U) - r /\ hi = -r
  BY Edges
<1>3. v[i] < 0 /\ -v[i] = s
  OBVIOUS
<1>4. Near(p, v, w, i) = <<-hi, s>> /\ Far(p, v, w, i) = <<-lo, s>>
  BY <1>1, <1>3, NearAndFar
<1>5. -hi = r /\ -lo = 2 * U + r
  <2> HIDE DEF lo, hi, r
  <2>1. QED
    BY <1>1, <1>2
<1>6. QED
  BY <1>4, <1>5

\* A wall whose two sides are met at once is hit, and not resolved.
LEMMA CornerMet ==
    ASSUME NEW p \in Point, NEW s, NEW d, Stride(d, s), NEW k \in 1..8, NEW i \in Axes,
           d[i] = -s, d[3 - i] = -s, Surround[k][i] = -1, Surround[k][3 - i] = -1,
           Rest(p, 3 - i) = Rest(p, i), Rest(p, i) < s
    PROVE  Hits(p, d, CellAt(p, k)) /\ Contact(p, d, CellAt(p, k)) = {}
<1> DEFINE w == CellAt(p, k)
           r == Rest(p, i)
           near == <<r, s>>
           far == <<2 * U + r, s>>
<1>1. /\ d \in Point /\ s \in Nat /\ s >= 1 /\ r \in Nat /\ U \in Nat /\ U >= 1 /\ r < s
      /\ 3 - i \in Axes /\ \A l \in Axes : l = i \/ l = 3 - i
  BY OtherAxis, RestType, SizeFacts DEF Stride
<1>2. \A l \in Axes : Near(p, d, w, l) = near /\ Far(p, d, w, l) = far
  <2>1. Near(p, d, w, i) = near /\ Far(p, d, w, i) = far
    BY <1>1, NearLeft
  <2>2. Near(p, d, w, 3 - i) = near /\ Far(p, d, w, 3 - i) = far
    BY <1>1, NearLeft
  <2>3. QED
    BY <1>1, <2>1, <2>2
<1>3. r * s < (2 * U + r) * s
  BY <1>1, StrictMultiples
<1>4. /\ ~Before(near, near) /\ ~Before(far, near)
      /\ ~Before(near, <<-1, 1>>) /\ Before(near, <<1, 1>>) /\ ~Before(far, <<0, 1>>)
  <2>1. ~Before(near, near)
    <3> DEFINE a == r * s
    <3>1. a \in Int
      BY <1>1
    <3>2. Before(near, near) <=> a < a
      BY DEF Before
    <3> HIDE DEF a, near
    <3>3. QED
      BY <3>1, <3>2
  <2>2. ~Before(far, near)
    <3> DEFINE a == r * s
               b == (2 * U + r) * s
    <3>1. a \in Int /\ b \in Int /\ a < b
      BY <1>1, <1>3
    <3>2. Before(far, near) <=> b < a
      BY DEF Before
    <3> HIDE DEF a, b, near, far
    <3>3. QED
      BY <3>1, <3>2
  <2>3. ~Before(near, <<-1, 1>>) /\ Before(near, <<1, 1>>) /\ ~Before(far, <<0, 1>>)
    <3> HIDE DEF r
    <3>1. QED
      BY <1>1 DEF Before
  <2>4. QED
    BY <2>1, <2>2, <2>3
<1>5. ~NotANumber(p, d, w)
  <2>1. \A l \in Axes : d[l] = -s
    BY <1>1
  <2>2. QED
    BY <1>1, <2>1 DEF NotANumber
<1> HIDE DEF near, far
<1>6. HitTime(p, d, w) = near /\ Sooner(Far(p, d, w, 1), Far(p, d, w, 2)) = far
  BY <1>2, <1>4 DEF HitTime, Later, Sooner, Axes
<1>7. Hits(p, d, w)
  BY <1>2, <1>4, <1>5, <1>6 DEF Hits, Axes
<1>8. Contact(p, d, w) = {}
  <2>1. \A l \in Axes : 3 - l \in Axes
    BY OtherAxis
  <2>2. \A l \in Axes : ~Before(Near(p, d, w, 3 - l), Near(p, d, w, l))
    BY <1>2, <1>4, <2>1
  <2>3. QED
    BY <2>2 DEF Contact
<1>9. QED
  BY <1>7, <1>8

LEMMA ResolvedIsPart ==
    ASSUME NEW p \in Point, NEW s, NEW d, Stride(d, s)
    PROVE  Resolved(p, d) \in Parts(p, d, s)
<1>1. d \in Point
  BY DEF Stride
<1>2. \A k \in HitWalls(p, d) : \A v \in Point \cap Parts(p, d, s) :
            Resolve(p, v, CellAt(p, k)) \in Point
  BY CellType, WallType DEF HitWalls
<1>3. QED
  BY <1>1, <1>2, PartsKeep

\* Nothing is left that goes to the left, with a wall there that turns it.
LEMMA LeftIsTurned ==
    ASSUME NEW p \in Point, NEW s, NEW d, Stride(d, s), NEW i \in Axes, d[i] = -s,
           NEW m \in 1..8, CellAt(p, m) \in walls, Surround[m][i] = -1, Rest(p, i) < s,
           \A v \in Parts(p, d, s) : v[i] = -s => Turns(p, v, m, i)
    PROVE  Resolved(p, d)[i] # -s
<1> DEFINE Q == {v \in Point : v[i] = -s}
<1>1. d \in Q /\ Resolved(p, d) \in Point
  BY WalkType DEF Stride
<1>2. ASSUME NEW v \in Parts(p, d, s), NEW k \in 1..8, Resolve(p, v, CellAt(p, k)) \in Q
      PROVE  v \in Q
  <2>1. v[i] = -s
    BY <1>2, PartsStay
  <2>2. QED
    BY <2>1 DEF Parts
<1>3. \A v \in Q \cap Parts(p, d, s) : v[i] = -s /\ Turns(p, v, m, i)
  OBVIOUS
<1>4. Resolved(p, d) \notin Q
  <2> HIDE DEF Q
  <2>1. QED
    BY <1>1, <1>2, <1>3, TurnedAway
<1>5. QED
  BY <1>1, <1>4

\* Nor is all of a displacement left that goes to the upper left corner, with
\* a wall across it that is not met by both sides at once.
LEMMA CornerIsTurned ==
    ASSUME NEW p \in Point, NEW s, NEW d, Stride(d, s), NEW i \in Axes,
           d[i] = -s, d[3 - i] = -s, NEW m \in 1..8, CellAt(p, m) \in walls,
           Surround[m][i] = -1, Surround[m][3 - i] = -1,
           Rest(p, 3 - i) < Rest(p, i), Rest(p, i) < s
    PROVE  ~(Resolved(p, d)[i] = -s /\ Resolved(p, d)[3 - i] = -s)
<1> DEFINE Q == {v \in Point : v[i] = -s /\ v[3 - i] = -s}
<1>1. d \in Q /\ Resolved(p, d) \in Point
  BY WalkType DEF Stride
<1>2. 3 - i \in Axes /\ Rest(p, 3 - i) < s
  <2>1. 3 - i \in Axes
    BY OtherAxis
  <2>2. Rest(p, i) \in Nat /\ Rest(p, 3 - i) \in Nat /\ s \in Nat
    BY <2>1, RestType DEF Stride
  <2>3. QED
    BY <2>1, <2>2
<1>3. ASSUME NEW v \in Parts(p, d, s), NEW k \in 1..8, Resolve(p, v, CellAt(p, k)) \in Q
      PROVE  v \in Q
  <2>1. v[i] = -s /\ v[3 - i] = -s
    BY <1>2, <1>3, PartsStay
  <2>2. QED
    BY <2>1 DEF Parts
<1>4. \A v \in Q \cap Parts(p, d, s) : v[i] = -s /\ Turns(p, v, m, i)
  BY TurnsCorner
<1>5. Resolved(p, d) \notin Q
  <2> HIDE DEF Q
  <2>1. QED
    BY <1>1, <1>3, <1>4, TurnedAway
<1>6. QED
  BY <1>1, <1>5

\* A character that has passed the wall on its left by the time it gets there
\* has no wall below that could hold it back.
LEMMA PastBeside ==
    ASSUME TypeOK, Free, NEW s, NEW d, Stride(d, s), NEW i \in Axes,
           d[i] = -s, d[3 - i] = s, Rest(pos, i) < s,
           Rest(pos, i) + Rest(pos, 3 - i) > U, Resolved(pos, d)[i] = -s
    PROVE  Resolved(pos, d)[3 - i] = s
<1> DEFINE j == 3 - i
           r == Rest(pos, i)
           q == Rest(pos, j)
           Q == {v \in Point : v[i] = -s => v[j] = s}
<1>1. /\ pos \in Point /\ j \in Axes /\ 3 - j = i /\ s \in Nat /\ s >= 1 /\ s < U /\ U \in Nat
      /\ r \in Nat /\ q \in Nat /\ r < U /\ q < U /\ r < s /\ r + q > U
  BY PosType, OtherAxis, RestType, SizeFacts DEF Stride
<1>2. d \in Q
  BY DEF Stride
<1>3. ASSUME NEW k \in HitWalls(pos, d), NEW v \in Q \cap Parts(pos, d, s)
      PROVE  Resolve(pos, v, CellAt(pos, k)) \in Q
  <2> DEFINE w == CellAt(pos, k)
             u == Resolve(pos, v, w)
  <2>1. k \in 1..8 /\ w \in walls /\ v \in Point /\ u \in Point
    BY <1>1, CellType, WallType DEF HitWalls
  <2> SUFFICES ASSUME u[i] = -s PROVE u[j] = s
    BY <2>1
  <2>2. v[i] = -s /\ v[j] = s
    <3>1. v[i] = -s
      BY <1>1, <2>1, PartsStay
    <3>2. QED
      BY <3>1
  <2>3. SUFFICES ASSUME u[j] # v[j] PROVE FALSE
    BY <2>2
  <2>4. j \in Contact(pos, v, w) /\ Surround[k][j] = 1
    <3>1. -U < v[j] /\ v[j] < U /\ ~(v[j] < 0)
      BY <1>1, <2>2
    <3>2. QED
      BY <1>1, <2>1, <2>3, <3>1, ResolveAxis
  <2>5. Wall(pos, i, Surround[k][i], 1)
    BY <2>1, <2>4, AtPlace
  <2>6. r # 0 /\ q # 0
    <3> HIDE DEF r, q
    <3>1. QED
      BY <1>1
  <2>7. Surround[k][i] = -1
    <3>1. Surround[k][i] # 0 /\ Surround[k][i] # 1
      BY <2>5, <2>6, FreeWalls
    <3>2. QED
      BY <2>1, <3>1, Offsets
  <2>8. Near(pos, v, w, i) = <<r, s>>
    BY <1>1, <2>1, <2>2, <2>7, NearLeft
  <2>9. Near(pos, v, w, j) = <<-q, s>>
    <3>1. LowEdge(pos, w, j) = -q
      BY <1>1, <2>1, <2>4, Edges
    <3>2. w \in Cell /\ v[j] > 0
      BY <1>1, <2>1, <2>2, CellType
    <3>3. Near(pos, v, w, j) = <<LowEdge(pos, w, j), v[j]>>
      BY <1>1, <2>1, <3>2, NearAndFar
    <3>4. QED
      BY <2>2, <3>1, <3>3
  <2>10. Before(<<r, s>>, <<-q, s>>)
    BY <1>1, <2>4, <2>8, <2>9 DEF Contact
  <2>11. (-q) * s < r * s
    <3> HIDE DEF r, q
    <3>1. -q \in Int /\ -q < r
      BY <1>1, <2>6 DEF q
    <3>2. QED
      BY <1>1, <3>1, StrictMultiples
  <2>12. r * s < (-q) * s
    BY <2>10 DEF Before
  <2> DEFINE a == r * s
             b == (-q) * s
  <2>13. a \in Int /\ b \in Int /\ a < b /\ b < a
    BY <1>1, <2>11, <2>12
  <2> HIDE DEF a, b
  <2>14. QED
    BY <2>13
<1>4. Resolved(pos, d) \in Q
  <2> HIDE DEF Q
  <2>1. QED
    BY <1>1, <1>2, <1>3, PartsKeep
<1>5. QED
  BY <1>4

\* A character that is lower in its cell than it is to the right of its corner,
\* and goes to the upper left, is not moved into the row below on the way.
LEMMA PastBelow ==
    ASSUME TypeOK, Free, NEW s, NEW d, Stride(d, s), NEW i \in Axes,
           d[i] = -s, d[3 - i] = -s, Rest(pos, i) < s,
           Rest(pos, 3 - i) < Rest(pos, i), Resolved(pos, d)[i] = -s
    PROVE  Resolved(pos, d)[3 - i] \in {-s, -Rest(pos, 3 - i)}
<1> DEFINE j == 3 - i
           r == Rest(pos, i)
           q == Rest(pos, j)
           Q == {v \in Point : v[i] = -s => v[j] \in {-s, -q}}
<1>1. /\ pos \in Point /\ j \in Axes /\ 3 - j = i /\ s \in Nat /\ s >= 1 /\ s < U /\ U \in Nat
      /\ r \in Nat /\ q \in Nat /\ r < U /\ q < U /\ r < s /\ q < r
  BY PosType, OtherAxis, RestType, SizeFacts DEF Stride
<1>2. d \in Q
  BY DEF Stride
<1>3. ASSUME NEW k \in HitWalls(pos, d), NEW v \in Q \cap Parts(pos, d, s)
      PROVE  Resolve(pos, v, CellAt(pos, k)) \in Q
  <2> DEFINE w == CellAt(pos, k)
             u == Resolve(pos, v, w)
  <2>1. k \in 1..8 /\ w \in walls /\ v \in Point /\ u \in Point
    BY <1>1, CellType, WallType DEF HitWalls
  <2> SUFFICES ASSUME u[i] = -s PROVE u[j] \in {-s, -q}
    BY <2>1
  <2>2. v[i] = -s /\ v[j] \in {-s, -q}
    <3>1. v[i] = -s
      BY <1>1, <2>1, PartsStay
    <3>2. QED
      BY <3>1
  <2>3. SUFFICES ASSUME u[j] # v[j], u[j] # -q PROVE FALSE
    BY <2>2
  <2>4. j \in Contact(pos, v, w) /\ v[j] < 0 /\ Surround[k][j] = 0
    <3>1. -U < v[j] /\ v[j] < U
      BY <1>1, <2>2
    <3>2. QED
      BY <1>1, <2>1, <2>3, <3>1, ResolveAxis
  <2>5. Wall(pos, i, Surround[k][i], 0)
    BY <2>1, <2>4, AtPlace
  <2>6. r # 0
    <3> HIDE DEF r, q
    <3>1. QED
      BY <1>1
  <2>7. Surround[k][i] = -1
    <3>1. Surround[k][i] # 0 /\ Surround[k][i] # 1
      BY <2>5, <2>6, FreeWalls
    <3>2. QED
      BY <2>1, <3>1, Offsets
  <2>8. Near(pos, v, w, i) = <<r, s>>
    BY <1>1, <2>1, <2>2, <2>7, NearLeft
  <2> DEFINE y == -v[j]
             h == q - U
  <2>9. y \in Nat /\ h \in Int /\ h < 0
    <3>1. v[j] \in Int
      BY <1>1, <2>1 DEF Point
    <3> HIDE DEF q
    <3>2. QED
      BY <1>1, <2>4, <3>1 DEF q
  <2>10. Near(pos, v, w, j) = <<h, y>>
    <3>1. HighEdge(pos, w, j) = U - q
      BY <1>1, <2>1, <2>4, Edges
    <3>2. w \in Cell
      BY <1>1, <2>1, CellType
    <3>3. Near(pos, v, w, j) = <<-HighEdge(pos, w, j), -v[j]>>
      BY <1>1, <2>1, <2>4, <3>2, NearAndFar
    <3>4. -(U - q) = h
      <4> HIDE DEF q
      <4>1. QED
        BY <1>1 DEF q
    <3>5. QED
      BY <3>1, <3>3, <3>4
  <2>11. Before(<<r, s>>, <<h, y>>)
    BY <1>1, <2>4, <2>8, <2>10 DEF Contact
  <2> HIDE DEF y, h
  <2>12. h * s < r * y
    BY <1>1, <2>9, Behind
  <2>13. r * y < h * s
    BY <2>11 DEF Before
  <2> DEFINE a == r * y
             b == h * s
  <2>14. a \in Int /\ b \in Int /\ a < b /\ b < a
    BY <1>1, <2>9, <2>12, <2>13
  <2> HIDE DEF a, b
  <2>15. QED
    BY <2>14
<1>4. Resolved(pos, d) \in Q
  <2> HIDE DEF Q
  <2>1. QED
    BY <1>1, <1>2, <1>3, PartsKeep
<1>5. QED
  BY <1>4

\* A corner that a displacement meets by both sides at once.
AtCorner(d) == \E w \in walls : Hits(pos, d, w) /\ Contact(pos, d, w) = {}

\* A frame from outside all walls that leads to the left, onto a wall there.
LEMMA LeftIsCorner ==
    ASSUME TypeOK, Free, NEW s, NEW d, Stride(d, s), NEW i \in Axes,
           NEW q, NEW e, Ends(pos, q, d, Resolved(pos, d), s, i, -1),
           Ends(pos, q, d, Resolved(pos, d), s, 3 - i, e), Wall(pos, i, -1, e)
    PROVE  AtCorner(d)
<1> DEFINE v == Resolved(pos, d)
           j == 3 - i
           r == Rest(pos, i)
           y == Rest(pos, j)
<1>1. /\ pos \in Point /\ j \in Axes /\ 3 - j = i /\ s \in Nat /\ s >= 1 /\ s < U /\ U \in Nat
      /\ r \in Nat /\ y \in Nat /\ r < U /\ y < U
  BY PosType, OtherAxis, RestType, SizeFacts DEF Stride
<1>2. d[i] = -s /\ v[i] = -s /\ r < s /\ v \in Parts(pos, d, s)
  BY <1>1, ResolvedIsPart DEF Ends
<1>3. /\ e \in {-1, 0, 1}
      /\ e = -1 => d[j] = -s /\ v[j] = -s /\ y < s
      /\ e = 0 /\ d[j] = s /\ v[j] = s => y + s < U
      /\ e = 1 => y > 0 /\ (v[j] = U - y \/ (d[j] = s /\ v[j] = s))
  BY DEF Ends
<1>4. PICK k \in 1..8 : Surround[k][i] = -1 /\ Surround[k][j] = e
  <2>1. -1 \in -1 .. 1 /\ e \in -1 .. 1
    BY <1>3
  <2>2. QED
    BY <2>1, PlaceAt
<1>5. CellAt(pos, k) \in walls
  BY <1>4, AtPlace
<1>6. ~(\A u \in Parts(pos, d, s) : u[i] = -s => Turns(pos, u, k, i))
  BY <1>1, <1>2, <1>4, <1>5, LeftIsTurned
<1>7. CASE e = 0
  <2>1. d[j] = s /\ r + y > U
    BY <1>1, <1>2, <1>4, <1>6, <1>7, TurnsBeside
  <2>2. v[j] = s
    BY <1>1, <1>2, <2>1, PastBeside
  <2>3. y + s < U
    BY <1>3, <1>7, <2>1, <2>2
  <2> HIDE DEF r, y
  <2>4. QED
    BY <1>1, <1>2, <2>1, <2>3
<1>8. CASE e = 1
  <2>1. d[j] = -s /\ y < r
    BY <1>1, <1>2, <1>3, <1>4, <1>6, <1>8, TurnsBelow
  <2>2. v[j] \in {-s, -y}
    BY <1>1, <1>2, <2>1, PastBelow
  <2>3. v[j] = U - y
    BY <1>1, <1>3, <1>8, <2>1
  <2> HIDE DEF r, y, v
  <2>4. QED
    BY <1>1, <1>2, <2>1, <2>2, <2>3
<1>9. CASE e = -1
  <2>1. d[j] = -s /\ v[j] = -s /\ y < s
    BY <1>3, <1>9
  <2>2. ~(y < r)
    BY <1>1, <1>2, <1>4, <1>5, <1>9, <2>1, CornerIsTurned
  <2>3. ~(r < y)
    BY <1>1, <1>2, <1>4, <1>5, <1>9, <2>1, CornerIsTurned
  <2>4. y = r
    <3> HIDE DEF r, y
    <3>1. QED
      BY <1>1, <2>2, <2>3
  <2>5. Hits(pos, d, CellAt(pos, k)) /\ Contact(pos, d, CellAt(pos, k)) = {}
    BY <1>1, <1>2, <1>4, <1>9, <2>1, <2>4, CornerMet
  <2>6. QED
    BY <1>5, <2>5 DEF AtCorner
<1>10. QED
  BY <1>3, <1>7, <1>8, <1>9

LEMMA OntoWall ==
    ASSUME TypeOK, Free, NEW s, NEW d, Stride(d, s),
           \A i \in Axes : pos[i] + d[i] < Size[i],
           CellOf(Clamped(End(d))) \in walls
    PROVE  AtCorner(d)
<1> DEFINE q == Clamped(End(d))
           v == Resolved(pos, d)
<1>1. pos \in Point /\ 1 \in Axes /\ 2 \in Axes /\ 3 - 1 = 2 /\ 3 - 2 = 1
  BY PosType DEF Axes
<1>2. \A i \in Axes : \E e : Ends(pos, q, d, v, s, i, e)
  BY <1>1, ResolvedIsPart, FrameEnds
<1>3. PICK e : Ends(pos, q, d, v, s, 1, e)
  BY <1>1, <1>2
<1>4. PICK f : Ends(pos, q, d, v, s, 2, f)
  BY <1>1, <1>2
<1>5. /\ e \in {-1, 0, 1} /\ CellOf(q)[1] = CellOf(pos)[1] + e
      /\ f \in {-1, 0, 1} /\ CellOf(q)[2] = CellOf(pos)[2] + f
  BY <1>3, <1>4 DEF Ends
<1>6. Wall(pos, 1, e, f)
  <2>1. CellOf(q) \in Cell
    BY WallsAreCells
  <2>2. CellOf(q) = Place(1, CellOf(q)[1], CellOf(q)[2])
    BY <1>1, <2>1, PlaceIs
  <2> HIDE DEF q
  <2>3. Place(1, CellOf(pos)[1] + e, CellOf(pos)[2] + f) \in walls
    BY <1>5, <2>2 DEF q
  <2>4. QED
    BY <1>1, <2>3 DEF Wall
<1> HIDE DEF q, v
<1>7. CASE e = -1
  BY <1>1, <1>3, <1>4, <1>6, <1>7, LeftIsCorner DEF v
<1>8. CASE f = -1
  <2>1. Wall(pos, 2, -1, e)
    BY <1>1, <1>6, <1>8, WallAcross
  <2>2. QED
    BY <1>1, <1>3, <1>4, <1>8, <2>1, LeftIsCorner DEF v
<1>9. CASE e # -1 /\ f # -1
  <2>1. /\ e = 1 => Rest(pos, 1) > 0
        /\ f = 1 => Rest(pos, 2) > 0
    BY <1>3, <1>4 DEF Ends
  <2>2. Rest(pos, 1) \in Nat /\ Rest(pos, 2) \in Nat
    BY <1>1, RestType
  <2>3. /\ e = 1 => Rest(pos, 1) # 0
        /\ f = 1 => Rest(pos, 2) # 0
    BY <2>1, <2>2
  <2>4. /\ ~Wall(pos, 1, 0, 0)
        /\ Wall(pos, 1, 1, 0) => Rest(pos, 1) = 0
        /\ Wall(pos, 1, 0, 1) => Rest(pos, 2) = 0
        /\ Wall(pos, 1, 1, 1) => Rest(pos, 1) = 0 \/ Rest(pos, 2) = 0
    BY <1>1, FreeWalls
  <2>5. (e = 0 \/ e = 1) /\ (f = 0 \/ f = 1)
    BY <1>5, <1>9
  <2>6. QED
    BY <1>6, <2>3, <2>4, <2>5
<1>10. QED
  BY <1>7, <1>8, <1>9

LEMMA CornersStep ==
    ASSUME TypeOK, Next, Free, ~late, CellOf(pos') \in walls,
           \A i \in Axes : pos[i] + asked'[i] < Size[i]
    PROVE  AtCorner(asked')
<1>1. pos' # pos
  <2> SUFFICES ASSUME CellOf(pos) \in walls PROVE FALSE
    BY DEF CellOf
  <2>1. pos \in Point /\ 1 \in Axes /\ 2 \in Axes /\ 3 - 1 = 2 /\ CellOf(pos) \in Cell
    BY PosType, WallsAreCells DEF Axes
  <2>2. CellOf(pos) = Place(1, CellOf(pos)[1], CellOf(pos)[2])
    BY <2>1, PlaceIs
  <2>3. CellOf(pos)[1] + 0 = CellOf(pos)[1] /\ CellOf(pos)[2] + 0 = CellOf(pos)[2]
    BY <2>1, RestType
  <2>4. Wall(pos, 1, 0, 0)
    BY <2>1, <2>2, <2>3 DEF Wall
  <2>5. QED
    BY <2>1, <2>4, FreeWalls
<1>2. PICK x \in -1 .. 1, y \in -1 .. 1, step \in Steps : Move(<<x * step, y * step>>)
  BY <1>1 DEF Next, Frame, ShowScreen, LeaveSplash, LeaveOpeningBg, LeaveOpeningFg, Escape
<1> DEFINE d == <<x * step, y * step>>
<1>3. asked' = d /\ pos' = Clamped(End(d))
  BY <1>2 DEF Move
<1>4. Stride(d, step)
  <2>1. step \in Nat /\ step >= 1 /\ step < U
    BY SizeFacts, ShortFrames DEF ShortFrames
  <2>2. d \in Point /\ d[1] \in {-step, 0, step} /\ d[2] \in {-step, 0, step}
    BY <2>1, KeysGive, PairIsPoint
  <2> HIDE DEF d
  <2>3. \A l \in Axes : d[l] \in {-step, 0, step}
    BY <2>2 DEF Axes
  <2>4. QED
    BY <2>1, <2>2, <2>3 DEF Stride
<1> HIDE DEF d
<1>5. QED
  BY <1>3, <1>4, OntoWall

(* Client.cpp, resolveCollision, with RayVsRect of olcCollision.h: of the  *)
(* frames that start outside all walls, along one axis or both, only those *)
(* that meet both sides of a wall at once end on a wall's tile, whatever   *)
(* the order in which walls are resolved.                                  *)
THEOREM OnlyCorners == Spec => OnlyCornersLetIn
<1> DEFINE A == Free /\ ~late /\ CellOf(pos') \in walls
                /\ (\A i \in Axes : pos[i] + asked'[i] < Size[i])
                => \E w \in walls : Hits(pos, asked', w) /\ Contact(pos, asked', w) = {}
<1>1. ASSUME TypeOK, [Next]_vars PROVE [A]_vars
  <2>1. CASE Next
    <3> SUFFICES ASSUME Free, ~late, CellOf(pos') \in walls,
                        \A i \in Axes : pos[i] + asked'[i] < Size[i]
                 PROVE  \E w \in walls : Hits(pos, asked', w) /\ Contact(pos, asked', w) = {}
      OBVIOUS
    <3>1. AtCorner(asked')
      BY <1>1, <2>1, CornersStep
    <3>2. QED
      BY <3>1 DEF AtCorner
  <2>2. CASE UNCHANGED vars
    BY <2>2
  <2>3. QED
    BY <1>1, <2>1, <2>2
<1>2. QED
  BY <1>1, TypeCorrect, PTL DEF Spec, OnlyCornersLetIn
=============================================================================
