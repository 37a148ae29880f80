\* Three clients that announce two updates of a shared key, with two ids.
CONSTANTS
    Clients = {c1, c2, c3}
    Server = server
    k1 = k1
    k2 = k2
    x = x
    v0 = v0
    v1 = v1
    Keys = {k1, k2}
    OtherKeys = {x}
    Values = {v0, v1}
    Fresh <- FreshDatabase
    Updates <- SomeUpdates
    Ids = {i1, i2}
    Opening = Opening
    Closing = Closing
    MaxUpdates = 2
SPECIFICATION FairSpec
INVARIANTS TypeOK AlwaysParsed CopiesHoldOthersValues CopyIsOthersView AcksInOrder
PROPERTIES BystandersConverge
CHECK_DEADLOCK FALSE
