\* Two connections, two messages from the server, one message to it.
CONSTANTS
    MaxConnects = 2
    MaxMessages = 2
    MaxSends = 1
SPECIFICATION FairSpec
INVARIANTS DisconnectIsGraceful

CHECK_DEADLOCK FALSE
