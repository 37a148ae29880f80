\* One client, the limits of Constants.h: several pings answered, early and late.
CONSTANTS
    Clients = {c1}
    Timer = Timer
    Main = Main
    None = None
    MAX_TIME_CLIENT_ACCEPT = 1
    MAX_FAIL_PINGS = 1
    MaxTalk = 2
    MaxAnswers = 4
SPECIFICATION FairSpec
INVARIANTS TypeOK LockExclusive OneTimer DisconnectOnce AcceptFirst CountBounded
PROPERTIES LockReturns GoneDies GivenUpForGood
CHECK_DEADLOCK FALSE
