\* Two pushing threads, four pushes of two distinguishable messages.
CONSTANTS
    Producers = {p1, p2}
    Consumer = c
    Messages = {m1, m2}
    None = None
    MaxPushes = 4
SPECIFICATION FairSpec
INVARIANTS TypeOK PopNonEmpty LockOrder Conserved
PROPERTIES ImplementsFifo OnlyMissedNotifyStalls NextPushEndsStall
