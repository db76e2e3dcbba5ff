CONSTANTS
    c1 = c1
    c2 = c2
    a1 = a1
    Clicks <- MCOneClick
    Calls <- MCCalls
    QueueSize = 2
    MaxReloads = 1
SPECIFICATION FairSpec
INVARIANTS
    TypeOK
    RunningIsHeld
PROPERTIES
    RoundsEnd
    
    ButtonComesBack
