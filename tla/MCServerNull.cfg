\* A message for all after the socket closed.
CONSTANTS
    Clients = {c1, c2}
    Timer = Timer
    Main = Main
    None = None
    MAX_TIME_CLIENT_ACCEPT = 1
    MAX_FAIL_PINGS = 1
    MaxTalk = 1
    MaxAnswers = 2
SPECIFICATION Spec
INVARIANTS ContainerOfConnections
CHECK_DEADLOCK FALSE
SYMMETRY Interchangeable
