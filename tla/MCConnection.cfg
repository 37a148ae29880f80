\* Two messages, shared out between the two directions in every way.
CONSTANTS
    Server = server
    Client = client
    Types = {ping}
    ZeroType = ping
    Bodies = {b0, b1}
    NoBytes = b0
    Bye = Bye
    MaxSends = 2
SPECIFICATION FairSpec
INVARIANTS TypeOK Framed OneWriter
PROPERTIES ImplementsFifo HealthyDelivers PeerCloses
CHECK_DEADLOCK FALSE
