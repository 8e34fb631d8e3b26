SPECIFICATION Spec
CONSTANTS
    m1 = m1
    m2 = m2
    w1 = w1
    w2 = w2
    c1 = c1
    c2 = c2
    Msgs = {m1, m2}
    NoMsg = NoMsg
    NoReply = {}
    Workers = {w1, w2}
    Callers = {}
    NoTask = NoTask
    Deliveries = {"queue"}
    MaxRow = 2
    MaxCtl = 0
    MaxRun = 2
    MaxStep = 0
    MaxCall = 0
    MaxFault = 0
SYMMETRY Symmetry
PROPERTY StopHolds
CHECK_DEADLOCK FALSE
