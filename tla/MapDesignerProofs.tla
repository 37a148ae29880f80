-------------------------- MODULE MapDesignerProofs --------------------------
(***************************************************************************)
(* What MapDesigner promises for a map of any size that is not higher than *)
(* it is wide:                                                             *)
(*                                                                         *)
(*   keys     a key is read back as the cell that it was made of, so no    *)
(*            two cells share one;                                         *)
(*   types    TypeOK;                                                      *)
(*   the map  OnlyStraysDiverge and ClientSeesDesign, from MapInv.         *)
(***************************************************************************)
EXTENDS MapDesigner, TLAPS

LEMMA SizeFacts ==
    /\ Width \in Nat /\ Width > 0 /\ Height \in Nat /\ Height > 0 /\ Height <= Width
    /\ Floor \in Faces /\ Blank \in Tiles /\ Ground \in Tiles /\ NoTile \notin Tiles
BY MapAssumption DEF MapAssumption

-----------------------------------------------------------------------------
(* Keys.                                                                   *)

LEMMA DivisionIsUnique ==
    ASSUME NEW w \in Nat, w > 0, NEW a \in Nat, NEW b \in 0 .. w - 1
    PROVE  (b + a * w) \div w = a
<1> DEFINE q == (b + a * w) \div w
<1>1. q \in Int /\ q * w <= b + a * w /\ b + a * w < q * w + w
  OBVIOUS
<1>2. CASE q < a
  <2>1. q + 1 <= a /\ (q + 1) * w <= a * w
    BY <1>1, <1>2
  <2>2. QED
    BY <1>1, <2>1
<1>3. CASE q > a
  <2>1. a + 1 <= q /\ (a + 1) * w <= q * w
    BY <1>1, <1>3
  <2>2. QED
    BY <1>1, <2>1
<1>4. QED
  BY <1>1, <1>2, <1>3

(* MapDesigner.cpp and LoadMap of Client.cpp: the key of a cell is read    *)
(* back as that cell.                                                      *)
THEOREM KeyIsReadBack == \A c \in Cells : CellOf(Key(c)) = c
<1> SUFFICES ASSUME NEW c \in Cells PROVE CellOf(Key(c)) = c
  OBVIOUS
<1>1. c[1] \in Nat /\ c[2] \in 0 .. Width - 1 /\ c = <<c[1], c[2]>>
  BY SizeFacts DEF Cells
<1>2. Key(c) \div Width = c[1]
  BY <1>1, SizeFacts, DivisionIsUnique DEF Key
<1>3. Key(c) - c[1] * Width = c[2]
  BY <1>1, SizeFacts DEF Key
<1>4. QED
  BY <1>1, <1>2, <1>3 DEF CellOf

LEMMA KeysDiffer ==
    ASSUME NEW c \in Cells, NEW d \in Cells, Key(c) = Key(d)
    PROVE  c = d
BY KeyIsReadBack

LEMMA KeyOfCell == \A c \in Cells : Key(c) \in Keys
BY DEF Keys

-----------------------------------------------------------------------------
(* Types.                                                                  *)

Worlds == [Cells -> SCell]

LEMMA Specials ==
    /\ Missing \notin Entry /\ Unreadable \notin Dicts /\ None \notin Worlds
BY MissingAssumption DEF MissingAssumption, Dicts, Worlds

LEMMA ClampIn ==
    ASSUME NEW n \in Int, NEW size \in Nat, size > 0
    PROVE  Clamp(n, size) \in 0 .. size - 1
BY DEF Clamp

LEMMA MovedIn ==
    ASSUME NEW c \in Cells, NEW dx \in -1 .. 1, NEW dy \in -1 .. 1
    PROVE  Moved(c, dx, dy) \in Cells
<1>1. c[1] + dx \in Int /\ c[2] + dy \in Int
  BY SizeFacts DEF Cells
<1>2. QED
  BY <1>1, SizeFacts, ClampIn DEF Moved, Cells

\* What the face keys do to each cell.
LEMMA PutAt ==
    ASSUME NEW w \in Worlds, NEW c \in Cells, NEW fs \in SUBSET Faces, NEW t \in Tiles
    PROVE  /\ FacesPut(w, c, fs, t) \in Worlds
           /\ \A d \in Cells : d # c => FacesPut(w, c, fs, t)[d] = w[d]
           /\ FacesPut(w, c, fs, t)[c] =
                [wall |-> w[c].wall,
                 id |-> [f \in Faces |-> IF f \in fs THEN t ELSE w[c].id[f]]]
<1> DEFINE id == [f \in Faces |-> IF f \in fs THEN t ELSE w[c].id[f]]
<1>1. w[c] \in SCell
  BY DEF Worlds
<1>2. \A f \in Faces : w[c].id[f] \in Tiles
  BY <1>1 DEF SCell
<1>3. id \in [Faces -> Tiles]
  BY <1>2
<1>4. FacesPut(w, c, fs, t) = [w EXCEPT ![c] = [w[c] EXCEPT !.id = id]]
  BY DEF FacesPut
<1> HIDE DEF id
<1>5. [w[c] EXCEPT !.id = id] = [wall |-> w[c].wall, id |-> id]
  BY <1>1 DEF SCell
<1>6. [wall |-> w[c].wall, id |-> id] \in SCell
  BY <1>1, <1>3 DEF SCell
<1>7. QED
  BY <1>4, <1>5, <1>6 DEF Worlds, id

LEMMA EntryAtIn ==
    ASSUME NEW d \in Dicts, NEW k \in Keys
    PROVE  EntryAt(d, k) \in Entry
<1>1. [f \in Faces |-> NoTile] \in [Faces -> Tiles \cup {NoTile}]
  OBVIOUS
<1>2. [type |-> FALSE, id |-> [f \in Faces |-> NoTile]] \in Entry
  BY <1>1 DEF Entry
<1>3. QED
  BY <1>2 DEF EntryAt, Dicts

LEMMA RecordedAt ==
    ASSUME NEW d \in Dicts, NEW k \in Keys, NEW fs \in SUBSET Faces, fs # {}, NEW t \in Tiles
    PROVE  /\ FacesRecorded(d, k, fs, t) \in Dicts
           /\ \A l \in Keys : l # k => FacesRecorded(d, k, fs, t)[l] = d[l]
           /\ FacesRecorded(d, k, fs, t)[k] =
                [type |-> EntryAt(d, k).type,
                 id |-> [f \in Faces |-> IF f \in fs THEN t ELSE EntryAt(d, k).id[f]]]
           /\ FacesRecorded(d, k, fs, t)[k] \in Entry
<1> DEFINE e == EntryAt(d, k)
           id == [f \in Faces |-> IF f \in fs THEN t ELSE e.id[f]]
<1>1. e \in Entry
  BY EntryAtIn
<1>2. \A f \in Faces : e.id[f] \in Tiles \cup {NoTile}
  BY <1>1 DEF Entry
<1>3. id \in [Faces -> Tiles \cup {NoTile}]
  <2> HIDE DEF e
  <2>1. QED
    BY <1>2
<1>4. FacesRecorded(d, k, fs, t) = [d EXCEPT ![k] = [e EXCEPT !.id = id]]
  BY DEF FacesRecorded
<1> HIDE DEF id, e
<1>5. [e EXCEPT !.id = id] = [type |-> e.type, id |-> id]
  BY <1>1 DEF Entry
<1>6. [type |-> e.type, id |-> id] \in Entry
  BY <1>1, <1>3 DEF Entry
<1>7. FacesRecorded(d, k, fs, t) = [d EXCEPT ![k] = [type |-> e.type, id |-> id]]
  BY <1>4, <1>5
<1>8. QED
  BY <1>6, <1>7 DEF Dicts, id, e

LEMMA RecordedIn ==
    ASSUME NEW d \in Dicts, NEW k \in Keys, NEW fs \in SUBSET Faces, NEW t \in Tiles
    PROVE  FacesRecorded(d, k, fs, t) \in Dicts
<1>1. CASE fs = {}
  BY <1>1 DEF FacesRecorded
<1>2. CASE fs # {}
  BY <1>2, RecordedAt
<1>3. QED
  BY <1>1, <1>2

LEMMA ToggledAt ==
    ASSUME NEW w \in Worlds, NEW c \in Cells
    PROVE  /\ Toggled(w, c) \in Worlds
           /\ \A d \in Cells : d # c => Toggled(w, c)[d] = w[d]
           /\ Toggled(w, c)[c].wall = ~w[c].wall
           /\ Toggled(w, c)[c].id = w[c].id
<1>1. w[c] \in SCell
  BY DEF Worlds
<1>2. Toggled(w, c) = [w EXCEPT ![c] = [w[c] EXCEPT !.wall = ~w[c].wall]]
  BY DEF Toggled
<1>3. [w[c] EXCEPT !.wall = ~w[c].wall] = [wall |-> ~w[c].wall, id |-> w[c].id]
  BY <1>1 DEF SCell
<1>4. [wall |-> ~w[c].wall, id |-> w[c].id] \in SCell
  BY <1>1 DEF SCell
<1>5. Toggled(w, c) = [w EXCEPT ![c] = [wall |-> ~w[c].wall, id |-> w[c].id]]
  BY <1>2, <1>3
<1>6. QED
  BY <1>4, <1>5 DEF Worlds

\* The entry of a new wall.
BlankWall == [type |-> TRUE, id |-> [f \in Faces |-> Blank]]

LEMMA BlankWallIn ==
    /\ BlankWall \in Entry /\ BlankWall # Missing
    /\ BlankWall.type /\ \A f \in Faces : BlankWall.id[f] = Blank
<1>1. [f \in Faces |-> Blank] \in [Faces -> Tiles \cup {NoTile}]
  BY SizeFacts
<1>2. BlankWall \in Entry
  BY <1>1 DEF BlankWall, Entry
<1>3. QED
  BY <1>2, Specials DEF BlankWall

LEMMA ToggleRecordedAt ==
    ASSUME NEW d \in Dicts, NEW k \in Keys, NEW wall \in BOOLEAN
    PROVE  /\ ToggleRecorded(d, k, wall) \in Dicts
           /\ \A l \in Keys : l # k => ToggleRecorded(d, k, wall)[l] = d[l]
           /\ ToggleRecorded(d, k, wall)[k] = IF wall THEN BlankWall ELSE Missing
<1>1. ToggleRecorded(d, k, wall) = [d EXCEPT ![k] = IF wall THEN BlankWall ELSE Missing]
  BY DEF ToggleRecorded, BlankWall
<1>2. QED
  BY <1>1, BlankWallIn DEF Dicts

-----------------------------------------------------------------------------
(* Loading.                                                                *)

LEMMA OverlaidIn ==
    ASSUME NEW cell \in SCell, NEW e \in Entry
    PROVE  /\ Overlaid(cell, e) \in SCell
           /\ Overlaid(cell, e).wall = e.type
           /\ \A f \in Faces : Overlaid(cell, e).id[f] =
                                 IF e.id[f] = NoTile THEN cell.id[f] ELSE e.id[f]
<1> DEFINE id == [f \in Faces |-> IF e.id[f] = NoTile THEN cell.id[f] ELSE e.id[f]]
<1>1. \A f \in Faces : cell.id[f] \in Tiles /\ e.id[f] \in Tiles \cup {NoTile}
  BY DEF SCell, Entry
<1>2. id \in [Faces -> Tiles]
  BY <1>1
<1>3. Overlaid(cell, e) = [wall |-> e.type, id |-> id]
  BY DEF Overlaid
<1>4. \A f \in Faces : id[f] = IF e.id[f] = NoTile THEN cell.id[f] ELSE e.id[f]
  OBVIOUS
<1> HIDE DEF id
<1>5. e.type \in BOOLEAN
  BY DEF Entry
<1>6. QED
  BY <1>2, <1>3, <1>4, <1>5 DEF SCell

\* Each cell gets the entry of its own key, and of no other.
LEMMA ReadAt ==
    ASSUME NEW w \in Worlds, NEW d \in Dicts
    PROVE  /\ ReadInto(w, d) \in Worlds
           /\ \A c \in Cells :
                /\ d[Key(c)] = Missing => ReadInto(w, d)[c] = w[c]
                /\ d[Key(c)] # Missing =>
                     /\ d[Key(c)] \in Entry
                     /\ ReadInto(w, d)[c] = Overlaid(w[c], d[Key(c)])
<1> DEFINE Ks(c) == {k \in Keys : d[k] # Missing /\ CellOf(k) = c}
           At(c) == IF Ks(c) = {} THEN w[c] ELSE Overlaid(w[c], d[CHOOSE k \in Ks(c) : TRUE])
<1>1. ReadInto(w, d) = [c \in Cells |-> At(c)]
  BY DEF ReadInto
<1>2. ASSUME NEW c \in Cells, NEW k \in Keys, CellOf(k) = c PROVE k = Key(c)
  BY <1>2, KeyIsReadBack DEF Keys
<1>3. ASSUME NEW c \in Cells, d[Key(c)] = Missing PROVE At(c) = w[c]
  <2>1. Ks(c) = {}
    BY <1>2, <1>3
  <2>2. QED
    BY <2>1
<1>4. ASSUME NEW c \in Cells, d[Key(c)] # Missing
      PROVE  d[Key(c)] \in Entry /\ At(c) = Overlaid(w[c], d[Key(c)])
  <2>1. Key(c) \in Keys /\ CellOf(Key(c)) = c
    BY KeyOfCell, KeyIsReadBack
  <2>2. Ks(c) = {Key(c)}
    BY <1>2, <1>4, <2>1
  <2>3. (CHOOSE k \in Ks(c) : TRUE) = Key(c)
    BY <2>2
  <2>4. At(c) = Overlaid(w[c], d[Key(c)])
    BY <2>2, <2>3
  <2>5. QED
    BY <1>4, <2>1, <2>4 DEF Dicts
<1>5. \A c \in Cells : At(c) \in SCell
  <2> SUFFICES ASSUME NEW c \in Cells PROVE At(c) \in SCell
    OBVIOUS
  <2>1. w[c] \in SCell
    BY DEF Worlds
  <2> HIDE DEF At
  <2>2. QED
    BY <1>3, <1>4, <2>1, OverlaidIn
<1> HIDE DEF At
<1>6. QED
  BY <1>1, <1>3, <1>4, <1>5 DEF Worlds

LEMMA EmptyIn == EmptyWorld \in Worlds /\ EmptyDict \in Dicts
<1>1. \A c \in Cells : EmptyWorld[c] \in SCell
  BY SizeFacts DEF EmptyWorld, SCell
<1>2. EmptyWorld \in Worlds
  BY <1>1 DEF EmptyWorld, Worlds
<1>3. QED
  BY <1>2 DEF EmptyDict, Dicts

-----------------------------------------------------------------------------
(* Type correctness.                                                       *)

LEMMA FrameFacts ==
    ASSUME TypeOK, NEW fs \in SUBSET Faces, NEW dx \in -1 .. 1, NEW dy \in -1 .. 1,
           NEW space \in BOOLEAN, NEW later \in SUBSET {"write", "load"},
           Frame(fs, dx, dy, space, later)
    PROVE  /\ cursor \in Cells /\ cursor' \in Cells /\ Key(cursor) \in Keys
           /\ FacesPut(world, cursor, fs, tile) \in Worlds
           /\ FacesRecorded(mapDict, Key(cursor), fs, tile) \in Dicts
           /\ world' \in Worlds /\ mapDict' \in Dicts
<1> DEFINE put == FacesPut(world, cursor, fs, tile)
           recorded == FacesRecorded(mapDict, Key(cursor), fs, tile)
<1>1. world \in Worlds /\ mapDict \in Dicts /\ cursor \in Cells /\ tile \in Tiles
  BY DEF TypeOK, Worlds
<1>2. cursor' \in Cells /\ Key(cursor) \in Keys
  BY <1>1, MovedIn, KeyOfCell DEF Frame
<1>3. put \in Worlds /\ recorded \in Dicts
  BY <1>1, <1>2, PutAt, RecordedIn
<1>4. CASE ~space
  BY <1>1, <1>2, <1>3, <1>4 DEF Frame
<1>5. CASE space
  <2>1. /\ world' = Toggled(put, cursor')
        /\ mapDict' = ToggleRecorded(recorded, Key(cursor), world'[cursor'].wall)
    BY <1>5 DEF Frame
  <2> HIDE DEF put, recorded
  <2>2. world' \in Worlds
    BY <1>2, <1>3, <2>1, ToggledAt
  <2>3. world'[cursor'].wall \in BOOLEAN
    BY <1>2, <2>2 DEF Worlds, SCell
  <2>4. mapDict' \in Dicts
    BY <1>2, <1>3, <2>1, <2>3, ToggleRecordedAt
  <2>5. QED
    BY <1>1, <1>2, <1>3, <2>2, <2>4 DEF put, recorded
<1>6. QED
  BY <1>4, <1>5

LEMMA OriginIn == <<0, 0>> \in Cells
BY SizeFacts DEF Cells

LEMMA InitType == Init => TypeOK
<1> SUFFICES ASSUME Init PROVE TypeOK
  OBVIOUS
<1>1. world \in Worlds /\ mapDict \in Dicts
  BY EmptyIn DEF Init
<1>2. cursor \in Cells /\ tile \in Tiles /\ todo \subseteq {"write", "load"}
  BY OriginIn, SizeFacts DEF Init
<1>3. /\ running \in BOOLEAN /\ file = Unreadable /\ shown = None /\ drawn = None
      /\ edits \in Nat /\ strayed \in BOOLEAN
  BY DEF Init
<1>4. QED
  BY <1>1, <1>2, <1>3 DEF TypeOK, Worlds

LEMMA NextType == TypeOK /\ [Next]_vars => TypeOK'
<1> SUFFICES ASSUME TypeOK, [Next]_vars PROVE TypeOK'
  OBVIOUS
<1>1. ASSUME NEW fs \in SUBSET Faces, NEW dx \in -1 .. 1, NEW dy \in -1 .. 1,
             NEW space \in BOOLEAN, NEW later \in SUBSET {"write", "load"},
             Frame(fs, dx, dy, space, later)
      PROVE  TypeOK'
  <2>1. world' \in Worlds /\ mapDict' \in Dicts /\ cursor' \in Cells
    BY <1>1, FrameFacts
  <2>2. /\ todo' = later /\ running' = running /\ tile' = tile /\ shown' = shown
        /\ strayed' = (strayed \/ (space /\ cursor' # cursor))
        /\ edits' \in {edits, edits + 1}
        /\ file' \in {file, Unreadable} /\ drawn' \in {drawn, None}
    BY <1>1 DEF Frame
  <2>3. todo' \subseteq {"write", "load"} /\ edits' \in Nat /\ strayed' \in BOOLEAN
    BY <2>2 DEF TypeOK
  <2>4. QED
    BY <2>1, <2>2, <2>3 DEF TypeOK, Worlds
<1>2. ASSUME NEW t \in Tiles, Pick(t) PROVE TypeOK'
  BY <1>2 DEF Pick, TypeOK
<1>3. CASE Write
  BY <1>3 DEF Write, TypeOK
<1>4. CASE Load
  <2>1. CASE file = Unreadable
    BY <1>4, <2>1 DEF Load, TypeOK
  <2>2. CASE file # Unreadable
    <3>1. file \in Dicts /\ world \in Worlds
      BY <2>2 DEF TypeOK, Worlds
    <3>2. world' \in Worlds /\ mapDict' \in Dicts
      BY <1>4, <2>2, <3>1, ReadAt DEF Load
    <3>3. strayed' \in BOOLEAN
      BY <1>4, <2>2 DEF Load
    <3>4. QED
      BY <1>4, <2>2, <3>2, <3>3 DEF Load, TypeOK, Worlds
  <2>3. QED
    BY <2>1, <2>2
<1>5. CASE Quit
  BY <1>5 DEF Quit, TypeOK
<1>6. CASE Start
  BY <1>6, EmptyIn, OriginIn, SizeFacts DEF Start, TypeOK, Worlds
<1>7. CASE ClientLoads
  <2>1. file # Unreadable => ReadInto(EmptyWorld, file) \in Worlds
    BY EmptyIn, ReadAt DEF TypeOK
  <2>2. QED
    BY <1>7, <2>1 DEF ClientLoads, TypeOK, Worlds
<1>8. CASE UNCHANGED vars
  BY <1>8 DEF vars, TypeOK
<1>9. QED
  BY <1>1, <1>2, <1>3, <1>4, <1>5, <1>6, <1>7, <1>8 DEF Next

(* The types of the designer's two copies of the map, the file and what a  *)
(* client has loaded.                                                      *)
THEOREM TypeCorrect == Spec => []TypeOK
BY InitType, NextType, PTL DEF Spec

-----------------------------------------------------------------------------
(* What is drawn and what is saved.                                        *)

Agreement(w, d) == \A c \in Cells : Agree(w[c], d[Key(c)])

\* The face keys keep the agreement: they write the same tiles in both.
LEMMA PutAgrees ==
    ASSUME NEW w \in Worlds, NEW d \in Dicts, NEW c \in Cells, NEW fs \in SUBSET Faces,
           NEW t \in Tiles, Agreement(w, d)
    PROVE  Agreement(FacesPut(w, c, fs, t), FacesRecorded(d, Key(c), fs, t))
<1> DEFINE W == FacesPut(w, c, fs, t)
           D == FacesRecorded(d, Key(c), fs, t)
<1>1. /\ \A b \in Cells : b # c => W[b] = w[b]
      /\ W[c].wall = w[c].wall
      /\ \A f \in Faces : W[c].id[f] = IF f \in fs THEN t ELSE w[c].id[f]
  <2>1. /\ \A b \in Cells : b # c => W[b] = w[b]
        /\ W[c] = [wall |-> w[c].wall,
                   id |-> [f \in Faces |-> IF f \in fs THEN t ELSE w[c].id[f]]]
    BY PutAt
  <2> HIDE DEF W
  <2>2. QED
    BY <2>1
<1>2. Key(c) \in Keys
  BY KeyOfCell
<1>3. CASE fs = {}
  <2>1. D = d
    BY <1>3 DEF FacesRecorded
  <2>2. \A f \in Faces : W[c].id[f] = w[c].id[f]
    BY <1>1, <1>3
  <2> HIDE DEF W, D
  <2>3. ASSUME NEW b \in Cells PROVE Agree(W[b], D[Key(b)])
    <3>1. Agree(w[b], d[Key(b)])
      BY DEF Agreement
    <3>2. CASE b = c
      BY <1>1, <2>1, <2>2, <3>1, <3>2 DEF Agree
    <3>3. CASE b # c
      BY <1>1, <2>1, <3>1, <3>3
    <3>4. QED
      BY <3>2, <3>3
  <2>4. QED
    BY <2>3 DEF Agreement, W, D
<1>4. CASE fs # {}
  <2> DEFINE e == EntryAt(d, Key(c))
  <2>1. /\ \A l \in Keys : l # Key(c) => D[l] = d[l]
        /\ D[Key(c)].type = e.type /\ D[Key(c)] \in Entry
        /\ \A f \in Faces : D[Key(c)].id[f] = IF f \in fs THEN t ELSE e.id[f]
    <3>1. /\ \A l \in Keys : l # Key(c) => D[l] = d[l]
          /\ D[Key(c)] \in Entry
          /\ D[Key(c)] = [type |-> e.type,
                          id |-> [f \in Faces |-> IF f \in fs THEN t ELSE e.id[f]]]
      BY <1>2, <1>4, RecordedAt
    <3> HIDE DEF D, e
    <3>2. QED
      BY <3>1
  <2>2. D[Key(c)] # Missing
    BY <2>1, Specials
  <2>3. /\ d[Key(c)] = Missing => ~e.type /\ \A f \in Faces : e.id[f] = NoTile
        /\ d[Key(c)] # Missing => e = d[Key(c)]
    BY DEF EntryAt
  <2>4. Agree(w[c], d[Key(c)])
    BY DEF Agreement
  <2> HIDE DEF W, D, e
  <2>5. W[c].wall <=> D[Key(c)].type
    BY <1>1, <2>1, <2>3, <2>4 DEF Agree
  <2>6. ASSUME NEW f \in Faces
        PROVE  \/ D[Key(c)].id[f] \in {NoTile, W[c].id[f]}
               \/ D[Key(c)].type /\ D[Key(c)].id[f] = Blank
    <3>1. CASE f \in fs
      BY <1>1, <2>1, <3>1
    <3>2. CASE f \notin fs /\ d[Key(c)] = Missing
      BY <2>1, <2>3, <3>2
    <3>3. CASE f \notin fs /\ d[Key(c)] # Missing
      BY <1>1, <2>1, <2>3, <2>4, <3>3 DEF Agree
    <3>4. QED
      BY <3>1, <3>2, <3>3
  <2>7. Agree(W[c], D[Key(c)])
    BY <2>2, <2>5, <2>6 DEF Agree
  <2>8. ASSUME NEW b \in Cells, b # c PROVE Agree(W[b], D[Key(b)])
    <3>1. Key(b) \in Keys /\ Key(b) # Key(c)
      BY <2>8, KeyOfCell, KeysDiffer
    <3>2. QED
      BY <1>1, <2>1, <2>8, <3>1 DEF Agreement
  <2>9. QED
    BY <2>7, <2>8 DEF Agreement, W, D
<1>5. QED
  BY <1>3, <1>4

\* A block toggled where the cursor stays.
LEMMA ToggleAgrees ==
    ASSUME NEW w \in Worlds, NEW d \in Dicts, NEW c \in Cells, Agreement(w, d)
    PROVE  Agreement(Toggled(w, c), ToggleRecorded(d, Key(c), Toggled(w, c)[c].wall))
<1> DEFINE W == Toggled(w, c)
           D == ToggleRecorded(d, Key(c), W[c].wall)
<1>1. W \in Worlds /\ \A b \in Cells : b # c => W[b] = w[b]
  BY ToggledAt
<1>2. W[c].wall \in BOOLEAN
  BY <1>1 DEF Worlds, SCell
<1>3. Key(c) \in Keys
  BY KeyOfCell
<1> HIDE DEF W
<1>4. /\ \A l \in Keys : l # Key(c) => D[l] = d[l]
      /\ D[Key(c)] = IF W[c].wall THEN BlankWall ELSE Missing
  BY <1>2, <1>3, ToggleRecordedAt
<1> HIDE DEF D
<1>5. Agree(W[c], D[Key(c)])
  BY <1>4, BlankWallIn DEF Agree
<1>6. ASSUME NEW b \in Cells, b # c PROVE Agree(W[b], D[Key(b)])
  <2>1. Key(b) \in Keys /\ Key(b) # Key(c)
    BY <1>6, KeyOfCell, KeysDiffer
  <2>2. QED
    BY <1>1, <1>4, <1>6, <2>1 DEF Agreement
<1>7. QED
  BY <1>5, <1>6 DEF Agreement, W, D

\* A load keeps or restores the agreement, unless a wall is left over.
LEMMA ReadAgrees ==
    ASSUME NEW w \in Worlds, NEW d \in Dicts,
           \A c \in Cells : w[c].wall => d[Key(c)] # Missing
    PROVE  Agreement(ReadInto(w, d), d)
<1> SUFFICES ASSUME NEW c \in Cells PROVE Agree(ReadInto(w, d)[c], d[Key(c)])
  BY DEF Agreement
<1>1. w[c] \in SCell
  BY DEF Worlds
<1>2. CASE d[Key(c)] = Missing
  BY <1>2, ReadAt DEF Agree
<1>3. CASE d[Key(c)] # Missing
  <2>1. d[Key(c)] \in Entry /\ ReadInto(w, d)[c] = Overlaid(w[c], d[Key(c)])
    BY <1>3, ReadAt
  <2>2. /\ Overlaid(w[c], d[Key(c)]).wall = d[Key(c)].type
        /\ \A f \in Faces : Overlaid(w[c], d[Key(c)]).id[f] =
             IF d[Key(c)].id[f] = NoTile THEN w[c].id[f] ELSE d[Key(c)].id[f]
    BY <1>1, <2>1, OverlaidIn
  <2>3. QED
    BY <1>3, <2>1, <2>2 DEF Agree
<1>4. QED
  BY <1>2, <1>3

-----------------------------------------------------------------------------
(* The invariant: the copies agree until a stray, and the file holds what  *)
(* was drawn when it was written.                                          *)

SavedWalls == \A c \in Cells :
    drawn[c].wall <=> file[Key(c)] # Missing /\ file[Key(c)].type

SavedInv == drawn # None => file # Unreadable /\ SavedWalls

MapInv == TypeOK /\ OnlyStraysDiverge /\ SavedInv

LEMMA StraysAre == OnlyStraysDiverge <=> (strayed \/ Agreement(world, mapDict))
BY DEF OnlyStraysDiverge, Agreement

LEMMA EmptyAgrees == Agreement(EmptyWorld, EmptyDict)
BY KeyOfCell DEF Agreement, Agree, EmptyWorld, EmptyDict

LEMMA InitMap == Init => MapInv
<1> SUFFICES ASSUME Init PROVE MapInv
  OBVIOUS
<1>1. Agreement(world, mapDict) /\ drawn = None
  BY EmptyAgrees DEF Init
<1>2. QED
  BY <1>1, InitType, StraysAre DEF MapInv, SavedInv

LEMMA FrameAgrees ==
    ASSUME TypeOK, OnlyStraysDiverge, NEW fs \in SUBSET Faces, NEW dx \in -1 .. 1,
           NEW dy \in -1 .. 1, NEW space \in BOOLEAN, NEW later \in SUBSET {"write", "load"},
           Frame(fs, dx, dy, space, later), ~strayed'
    PROVE  Agreement(world', mapDict')
<1> DEFINE put == FacesPut(world, cursor, fs, tile)
           recorded == FacesRecorded(mapDict, Key(cursor), fs, tile)
<1>1. ~strayed /\ (space => cursor' = cursor)
  BY DEF Frame
<1>2. put \in Worlds /\ recorded \in Dicts /\ cursor \in Cells
  BY FrameFacts
<1>3. Agreement(put, recorded)
  <2>1. world \in Worlds /\ mapDict \in Dicts /\ tile \in Tiles
    BY DEF TypeOK, Worlds
  <2>2. Agreement(world, mapDict)
    BY <1>1, StraysAre
  <2>3. QED
    BY <1>2, <2>1, <2>2, PutAgrees
<1>4. CASE ~space
  BY <1>3, <1>4 DEF Frame
<1>5. CASE space
  <2>1. /\ world' = Toggled(put, cursor)
        /\ mapDict' = ToggleRecorded(recorded, Key(cursor), world'[cursor].wall)
    BY <1>1, <1>5 DEF Frame
  <2> HIDE DEF put, recorded
  <2>2. Agreement(Toggled(put, cursor),
                  ToggleRecorded(recorded, Key(cursor), Toggled(put, cursor)[cursor].wall))
    BY <1>2, <1>3, ToggleAgrees
  <2>3. QED
    BY <2>1, <2>2
<1>6. QED
  BY <1>4, <1>5

LEMMA NextMap == MapInv /\ [Next]_vars => MapInv'
<1> SUFFICES ASSUME MapInv, [Next]_vars PROVE MapInv'
  OBVIOUS
<1> USE DEF MapInv
<1>1. TypeOK'
  BY NextType
<1>2. OnlyStraysDiverge'
  <2> SUFFICES ASSUME ~strayed' PROVE Agreement(world', mapDict')
    BY DEF OnlyStraysDiverge, Agreement
  <2>1. ASSUME ~strayed PROVE Agreement(world, mapDict)
    BY <2>1, StraysAre
  <2>2. ASSUME NEW fs \in SUBSET Faces, NEW dx \in -1 .. 1, NEW dy \in -1 .. 1,
               NEW space \in BOOLEAN, NEW later \in SUBSET {"write", "load"},
               Frame(fs, dx, dy, space, later)
        PROVE  Agreement(world', mapDict')
    BY <2>2, FrameAgrees
  <2>3. CASE (\E t \in Tiles : Pick(t)) \/ Write \/ Quit \/ ClientLoads \/ UNCHANGED vars
    <3>1. UNCHANGED <<world, mapDict, strayed>>
      BY <2>3 DEF Pick, Write, Quit, ClientLoads, vars
    <3>2. QED
      BY <2>1, <3>1
  <2>4. CASE Load
    <3>1. CASE file = Unreadable
      BY <2>1, <2>4, <3>1 DEF Load
    <3>2. CASE file # Unreadable
      <4>1. world \in Worlds /\ file \in Dicts
        BY <3>2 DEF TypeOK, Worlds
      <4>2. mapDict' = file /\ world' = ReadInto(world, file) /\ ~LeftOver(file)
        BY <2>4, <3>2 DEF Load
      <4>3. Agreement(ReadInto(world, file), file)
        BY <4>1, <4>2, ReadAgrees DEF LeftOver
      <4>4. QED
        BY <4>2, <4>3
    <3>3. QED
      BY <3>1, <3>2
  <2>5. CASE Start
    BY <2>5, EmptyAgrees DEF Start
  <2>6. QED
    BY <2>2, <2>3, <2>4, <2>5 DEF Next
<1>3. SavedInv'
  <2> SUFFICES ASSUME drawn' # None PROVE file' # Unreadable /\ SavedWalls'
    BY DEF SavedInv
  <2>1. CASE Write
    <3>1. ~strayed /\ drawn' = world /\ file' = mapDict
      BY <2>1 DEF Write
    <3>2. mapDict # Unreadable
      BY Specials DEF TypeOK
    <3>3. \A c \in Cells : world[c].wall <=> mapDict[Key(c)] # Missing /\ mapDict[Key(c)].type
      BY <3>1 DEF OnlyStraysDiverge, Agree
    <3>4. QED
      BY <3>1, <3>2, <3>3 DEF SavedWalls
  <2>2. CASE UNCHANGED <<file, drawn>>
    BY <2>2 DEF SavedInv, SavedWalls
  <2>3. ASSUME NEW fs \in SUBSET Faces, NEW dx \in -1 .. 1, NEW dy \in -1 .. 1,
               NEW space \in BOOLEAN, NEW later \in SUBSET {"write", "load"},
               Frame(fs, dx, dy, space, later)
        PROVE  UNCHANGED <<file, drawn>>
    BY <2>3 DEF Frame
  <2>4. CASE (\E t \in Tiles : Pick(t)) \/ Load \/ Quit \/ Start \/ ClientLoads \/ UNCHANGED vars
    BY <2>2, <2>4 DEF Pick, Load, Quit, Start, ClientLoads, vars
  <2>5. QED
    BY <2>1, <2>2, <2>3, <2>4 DEF Next
<1>4. QED
  BY <1>1, <1>2, <1>3

LEMMA MapAlways == Spec => []MapInv
BY InitMap, NextMap, PTL DEF Spec

(* MapDesigner.cpp: what is saved is what is drawn, as long as no block is *)
(* toggled in a frame that moves the cursor and no file is loaded over     *)
(* walls that it does not mention.                                         *)
THEOREM SavedIsDrawn == Spec => []OnlyStraysDiverge
BY MapAlways, PTL DEF MapInv

LEMMA LoadedWalls == MapInv /\ [Next]_vars =>
    [ClientLoads /\ drawn # None => \A c \in Cells : shown'[c].wall = drawn[c].wall]_vars
<1> SUFFICES ASSUME MapInv, ClientLoads, drawn # None, NEW c \in Cells
             PROVE  shown'[c].wall = drawn[c].wall
  OBVIOUS
<1> USE DEF MapInv
<1>1. file \in Dicts /\ drawn \in Worlds /\ shown' = ReadInto(EmptyWorld, file)
  BY DEF SavedInv, TypeOK, Worlds, ClientLoads
<1>2. drawn[c].wall \in BOOLEAN
  BY <1>1 DEF Worlds, SCell
<1>3. drawn[c].wall <=> file[Key(c)] # Missing /\ file[Key(c)].type
  BY DEF SavedInv, SavedWalls
<1>4. CASE file[Key(c)] = Missing
  <2>1. shown'[c].wall = FALSE
    BY <1>1, <1>4, EmptyIn, ReadAt DEF EmptyWorld
  <2>2. QED
    BY <1>2, <1>3, <1>4, <2>1
<1>5. CASE file[Key(c)] # Missing
  <2>1. EmptyWorld[c] \in SCell
    BY EmptyIn DEF Worlds
  <2>2. shown'[c].wall = file[Key(c)].type /\ file[Key(c)].type \in BOOLEAN
    BY <1>1, <1>5, <2>1, EmptyIn, ReadAt, OverlaidIn DEF Entry
  <2>3. QED
    BY <1>2, <1>3, <1>5, <2>2
<1>6. QED
  BY <1>4, <1>5

(* Client.cpp LoadMap: the walls of the client's world are those that the  *)
(* designer drew when it saved the file.                                   *)
THEOREM ClientSeesTheDesign == Spec => ClientSeesDesign
BY MapAlways, LoadedWalls, PTL DEF Spec, ClientSeesDesign
=============================================================================
