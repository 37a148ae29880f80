\* A check and an answer at the same time.
CONSTANTS
    Clients = {c1}
    Timer = Timer
    Main = Main
    None = None
    MAX_TIME_CLIENT_ACCEPT = 1
    MAX_FAIL_PINGS = 1
    MaxTalk = 0
    MaxAnswers = 2
SPECIFICATION Spec
INVARIANTS LoopSurvives
CHECK_DEADLOCK FALSE
