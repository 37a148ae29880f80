\* Whoever announces an update does not get it.
CONSTANTS
    Clients = {c1, c2}
    Server = server
    k1 = k1
    k2 = k2
    x = x
    v0 = v0
    v1 = v1
    Keys = {k1, k2}
    OtherKeys = {x}
    Values = {v0, v1}
    Fresh <- FreshDatabase
    Updates <- SomeUpdates
    Ids = {i1}
    Opening = Opening
    Closing = Closing
    MaxUpdates = 1
SPECIFICATION FairSpec
PROPERTIES ChangesReflected
CHECK_DEADLOCK FALSE
