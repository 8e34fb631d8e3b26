SPECIFICATION FairSpec
CONSTANTS
    s1 = s1
    s2 = s2
    r1 = r1
    r2 = r2
    Senders = {s1, s2}
    Receivers = {r1, r2}
    First = s1
    Sizes = {1, 3}
    MaxEvents = 2
    MaxBytes = 2
    MaxSends = 3
INVARIANTS NothingKeptUnread LagMeansOverflow NoLostWake
PROPERTIES FeedImplemented NewsIsHeard
CHECK_DEADLOCK FALSE
