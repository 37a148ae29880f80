\* Two connections, two messages from the server, one message to it.
CONSTANTS
    MaxConnects = 2
    MaxMessages = 2
    MaxSends = 1
SPECIFICATION FairSpec
INVARIANTS TypeOK QuietWithoutConnection OnlyReconnectDangles OnlyDisconnectNulls
PROPERTIES DisconnectReturns
CHECK_DEADLOCK FALSE
