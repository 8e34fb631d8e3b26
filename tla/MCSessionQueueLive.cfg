SPECIFICATION FairSpec
CONSTANTS
    m1 = m1
    w1 = w1
    c1 = c1
    Msgs = {m1}
    NoMsg = NoMsg
    NoReply = {}
    Workers = {w1}
    Callers = {c1}
    NoTask = NoTask
    Deliveries = {"steer"}
    MaxRow = 2
    MaxCtl = 0
    MaxRun = 2
    MaxStep = 0
    MaxCall = 1
    MaxFault = 1
PROPERTIES QueuedIsServed SlotIsReleased
CHECK_DEADLOCK FALSE
