\* Nine cells, thirty-six maps, four units to a tile.
CONSTANTS
    Width = 3
    Height = 3
    U = 4
    Steps = {1, 3}
    LongStep = 40
    Maps <- MCMaps
SPECIFICATION Spec
INVARIANTS StartsFree
CHECK_DEADLOCK FALSE
