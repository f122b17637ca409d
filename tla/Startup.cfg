SPECIFICATION Spec
CONSTANTS
    s1 = s1
    s2 = s2
    w1 = w1
    w2 = w2
    Servers <- MCServers
    Waiters <- MCWaiters
    Timed <- MCTimed
    None = None
    MaxCrashes = 1
CHECK_DEADLOCK FALSE
INVARIANTS ListenerHasPath TokenMeansServer UntimedNeverFails
PROPERTY UnsignalledLetGo
