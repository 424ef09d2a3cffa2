SPECIFICATION FairPipe
CONSTANTS
    c1 = c1
    c2 = c2
    p1 = p1
    p2 = p2
    Charges = {c1, c2}
    PayLinks = {p1, p2}
    PayLinkOf <- OneEach
    Slots = {s1, s2}
    Times = {1, 2}
    Cancellable = {p1}
    MaxFaults = 1
INVARIANTS
    SentOnce  NoncesContiguous

    
CHECK_DEADLOCK FALSE
