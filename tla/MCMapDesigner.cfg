\* Four cells with one face each, two tiles, two edits.
CONSTANTS
    Width = 2
    Height = 2
    Faces = {Floor}
    Floor = Floor
    Tiles = {Blank, Ground}
    Blank = Blank
    Ground = Ground
    NoTile = NoTile
    Missing = Missing
    Unreadable = Unreadable
    None = None
    MaxEdits = 2
SPECIFICATION Spec
INVARIANTS TypeOK 
PROPERTIES ClientSeesDesign
