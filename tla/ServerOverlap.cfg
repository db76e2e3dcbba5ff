CONSTANTS
    c1 = c1
    c2 = c2
    a1 = a1
    Clicks <- MCClicks
    Calls <- MCNoCalls
    QueueSize = 2
    MaxReloads = 0
SPECIFICATION Spec
INVARIANT OneRoundAtATime
