SPECIFICATION FairSpec
CONSTANTS
    u1 = u1
    u2 = u2
    other = other
    Tasks <- MCTasks
    Victims <- MCVictims
INVARIANTS LockComesBack Exclusive
PROPERTIES PrintsGoOn
CHECK_DEADLOCK FALSE
