----------------------------- MODULE MapDesigner -----------------------------
(***************************************************************************)
(* MapDesigner.cpp, the map file, and LoadMap of Client.cpp which reads    *)
(* it.                                                                     *)
(*                                                                         *)
(* The designer keeps the map twice: in world, which it draws, and in      *)
(* mapDict, which it saves.  Each frame (OnUserUpdate) edits both, in the  *)
(* order of the code: the key of the cursor's cell is computed first, the  *)
(* face keys come next, then the cursor moves, then a block is toggled,    *)
(* then the map is saved, then loaded.  Any set of keys may be pressed     *)
(* within one frame.                                                       *)
(*                                                                         *)
(* Opening the file to save truncates it; a client that loads just then,   *)
(* or a designer started after a crash just then, finds nothing to parse.  *)
(* A tile is a value; the sprite sheet's coordinates are left out, and so  *)
(* are the camera and all drawing.                                         *)
(***************************************************************************)
EXTENDS Integers

CONSTANTS Width, Height,        \* mapSize
          Faces, Floor,         \* the faces of a cell, among them the floor
          Tiles,                \* the tiles of the sprite sheet
          Blank, Ground,        \* tiles {0, 0} and {3, 1}
          NoTile,               \* a face the map file does not mention
          Missing,              \* a key the map file does not have
          Unreadable,           \* no map file, or a truncated one
          None,                 \* no client world, no saved world
          MaxEdits              \* bound: how many frames edit the map

ASSUME MapAssumption ==
    /\ Width \in Nat \ {0} /\ Height \in Nat \ {0}
    /\ Height <= Width
    /\ Floor \in Faces
    /\ {Blank, Ground} \subseteq Tiles
    /\ NoTile \notin Tiles
    /\ MaxEdits \in Nat

Cells == (0 .. Width - 1) \X (0 .. Height - 1)

\* Slip: the key has x and y the wrong way round.
KeySwapped(c) == c[1] + c[2] * Width

\* cursorId: std::to_string(vCursor.y + vCursor.x*mapSize.x)
Key(c) == c[2] + c[1] * Width

Keys == {Key(c) : c \in Cells}

\* x = key_ / mapSize.x, y = key_ - x * mapSize.x
CellOf(k) == <<k \div Width, k - (k \div Width) * Width>>

SCell == [wall : BOOLEAN, id : [Faces -> Tiles]]
Entry == [type : BOOLEAN, id : [Faces -> Tiles \cup {NoTile}]]

ASSUME MissingAssumption ==
    /\ Missing \notin Entry
    /\ Unreadable \notin [Keys -> Entry \cup {Missing}]
    /\ None \notin [Cells -> SCell]

VARIABLES
    world,      \* what the designer draws
    mapDict,    \* what it saves: an entry, or Missing, for each key
    cursor, tile,   \* vCursor, vTileCursor
    todo,       \* what is left of this frame: "write", "load"
    running,    \* the designer's process
    file,       \* mapJsonPath
    shown,      \* the world a client has loaded
    edits,
    strayed,    \* history: this session had an edit or a load of the kind below
    drawn       \* history: the world at the last save, None if it had strayed

vars == <<world, mapDict, cursor, tile, todo, running, file, shown, edits, strayed, drawn>>

EmptyWorld ==
    [c \in Cells |-> [wall |-> FALSE,
                      id |-> [f \in Faces |-> IF f = Floor THEN Ground ELSE Blank]]]
EmptyDict == [k \in Keys |-> Missing]

Init ==
    /\ world = EmptyWorld /\ mapDict = EmptyDict
    /\ cursor = <<0, 0>> /\ tile = Blank
    /\ todo = {} /\ running = TRUE
    /\ file = Unreadable /\ shown = None
    /\ edits = 0 /\ strayed = FALSE /\ drawn = None

-----------------------------------------------------------------------------
(* Editing.                                                                *)

\* mapDict[key], which makes an entry when there is none.
EntryAt(d, k) ==
    IF d[k] = Missing THEN [type |-> FALSE, id |-> [f \in Faces |-> NoTile]] ELSE d[k]

\* The face keys fs of this frame apply the tile t.
FacesPut(w, c, fs, t) ==
    [w EXCEPT ![c].id = [f \in Faces |-> IF f \in fs THEN t ELSE w[c].id[f]]]

FacesRecorded(d, k, fs, t) ==
    IF fs = {} THEN d
    ELSE [d EXCEPT ![k] = [EntryAt(d, k) EXCEPT
            !.id = [f \in Faces |-> IF f \in fs THEN t ELSE EntryAt(d, k).id[f]]]]

\* The space key: the wall at cell c, and the entry of key k.
Toggled(w, c) == [w EXCEPT ![c].wall = ~w[c].wall]

\* Slip: the entry of a wall that is taken away is kept.
ToggleKept(d, k, wall) ==
    IF wall THEN [d EXCEPT ![k] = [type |-> TRUE, id |-> [f \in Faces |-> Blank]]] ELSE d

ToggleRecorded(d, k, wall) ==
    [d EXCEPT ![k] = IF wall THEN [type |-> TRUE, id |-> [f \in Faces |-> Blank]]
                             ELSE Missing]

\* Slip: the boundary check forgets the right and lower sides.
ClampLow(n, size) == IF n < 0 THEN 0 ELSE n

Clamp(n, size) == IF n < 0 THEN 0 ELSE IF n >= size THEN size - 1 ELSE n

Moved(c, dx, dy) == <<Clamp(c[1] + dx, Width), Clamp(c[2] + dy, Height)>>

\* A frame, TAB not held, up to the opening of the file.  A block toggled in
\* the frame that moves the cursor is recorded under the key of the cell that
\* the cursor has left.
Frame(fs, dx, dy, space, later) ==
    /\ running /\ todo = {}
    /\ IF fs = {} /\ ~space THEN UNCHANGED edits
       ELSE edits < MaxEdits /\ edits' = edits + 1
    /\ cursor' = Moved(cursor, dx, dy)
    /\ LET put == FacesPut(world, cursor, fs, tile)
           recorded == FacesRecorded(mapDict, Key(cursor), fs, tile)
       IN  IF space
           THEN /\ world' = Toggled(put, cursor')
                /\ mapDict' = ToggleRecorded(recorded, Key(cursor), world'[cursor'].wall)
           ELSE world' = put /\ mapDict' = recorded
    /\ strayed' = (strayed \/ (space /\ cursor' # cursor))
    /\ todo' = later
    /\ file' = IF "write" \in later THEN Unreadable ELSE file
    /\ drawn' = IF "write" \in later THEN None ELSE drawn
    /\ UNCHANGED <<tile, running, shown>>

\* A frame with TAB held: the mouse picks a tile, and nothing else is read.
Pick(t) ==
    /\ running /\ todo = {}
    /\ tile' = t
    /\ UNCHANGED <<world, mapDict, cursor, todo, running, file, shown, edits, strayed, drawn>>

-----------------------------------------------------------------------------
(* Saving and loading.                                                     *)

Write ==
    /\ running /\ "write" \in todo
    /\ todo' = todo \ {"write"}
    /\ file' = mapDict
    /\ drawn' = IF strayed THEN None ELSE world
    /\ UNCHANGED <<world, mapDict, cursor, tile, running, shown, edits, strayed>>

Overlaid(cell, e) ==
    [wall |-> e.type,
     id |-> [f \in Faces |-> IF e.id[f] = NoTile THEN cell.id[f] ELSE e.id[f]]]

\* The loop over the file's keys.  A cell whose key the file does not have
\* stays as it is.
ReadInto(w, d) ==
    [c \in Cells |->
        LET ks == {k \in Keys : d[k] # Missing /\ CellOf(k) = c}
        IN  IF ks = {} THEN w[c] ELSE Overlaid(w[c], d[CHOOSE k \in ks : TRUE])]

\* A wall that the file does not mention is still drawn after the load.
LeftOver(d) == \E c \in Cells : world[c].wall /\ d[Key(c)] = Missing

Load ==
    /\ running /\ todo = {"load"}
    /\ todo' = {}
    /\ IF file = Unreadable
       THEN running' = FALSE /\ UNCHANGED <<world, mapDict, strayed>>
       ELSE /\ mapDict' = file
            /\ world' = ReadInto(world, file)
            /\ strayed' = (strayed \/ LeftOver(file))
            /\ UNCHANGED running
    /\ UNCHANGED <<cursor, tile, file, shown, edits, drawn>>

\* ESC at the end of a frame, or a crash at any moment.
Quit ==
    /\ running
    /\ running' = FALSE
    /\ UNCHANGED <<world, mapDict, cursor, tile, todo, file, shown, edits, strayed, drawn>>

\* OnUserCreate of a new process.
Start ==
    /\ ~running
    /\ running' = TRUE
    /\ world' = EmptyWorld /\ mapDict' = EmptyDict
    /\ cursor' = <<0, 0>> /\ tile' = Blank
    /\ todo' = {} /\ strayed' = FALSE
    /\ UNCHANGED <<file, shown, edits, drawn>>

\* A client's LoadMap: it clears its world first.  An exception of the parser
\* ends the client.
ClientLoads ==
    /\ shown' = IF file = Unreadable THEN None ELSE ReadInto(EmptyWorld, file)
    /\ UNCHANGED <<world, mapDict, cursor, tile, todo, running, file, edits, strayed, drawn>>

-----------------------------------------------------------------------------
Next ==
    \/ \E fs \in SUBSET Faces, dx \in -1 .. 1, dy \in -1 .. 1, space \in BOOLEAN,
          later \in SUBSET {"write", "load"} : Frame(fs, dx, dy, space, later)
    \/ \E t \in Tiles : Pick(t)
    \/ Write \/ Load \/ Quit \/ Start \/ ClientLoads

Spec == Init /\ [][Next]_vars

-----------------------------------------------------------------------------
(* Properties                                                              *)

Dicts == [Keys -> Entry \cup {Missing}]

TypeOK ==
    /\ world \in [Cells -> SCell]
    /\ mapDict \in Dicts
    /\ cursor \in Cells /\ tile \in Tiles
    /\ todo \subseteq {"write", "load"} /\ running \in BOOLEAN
    /\ file \in Dicts \cup {Unreadable}
    /\ shown \in [Cells -> SCell] \cup {None}
    /\ edits \in Nat /\ strayed \in BOOLEAN
    /\ drawn \in [Cells -> SCell] \cup {None}

\* The entry says of the cell what the designer draws: the same kind, and the
\* same tile on each face it mentions; a new wall's faces are recorded blank
\* whatever is drawn.
Agree(cell, e) ==
    /\ cell.wall <=> e # Missing /\ e.type
    /\ e # Missing =>
        \A f \in Faces : e.id[f] \in {NoTile, cell.id[f]} \/ (e.type /\ e.id[f] = Blank)

\* What is saved is what is drawn, cell by cell, until a block is toggled in
\* the frame that moves the cursor, or a file is loaded over walls that it does
\* not mention; up to then the faces of a new wall, saved blank, are the only
\* difference.
OnlyStraysDiverge ==
    ~strayed => \A c \in Cells : Agree(world[c], mapDict[Key(c)])

\* A client that loads the file has walls exactly where the designer drew them
\* when the file was saved, whatever it had loaded before.
ClientSeesDesign ==
    [][ClientLoads /\ drawn # None
         => \A c \in Cells : shown'[c].wall = drawn[c].wall]_vars
=============================================================================
