SPECIFICATION Spec
CONSTANTS
    m1 = m1
    m2 = m2
    m3 = m3
    w1 = w1
    w2 = w2
    c1 = c1
    c2 = c2
    Msgs = {m1, m2, m3}
    NoMsg = NoMsg
    NoReply = {m3}
    Workers = {w1, w2}
    Callers = {c1}
    NoTask = NoTask
    Deliveries = {"steer"}
    MaxRow = 1
    MaxCtl = 0
    MaxRun = 3
    MaxStep = 1
    MaxCall = 2
    MaxFault = 1
SYMMETRY MsgSymmetry
INVARIANTS RunExclusive ExecutedOnce
CHECK_DEADLOCK FALSE
