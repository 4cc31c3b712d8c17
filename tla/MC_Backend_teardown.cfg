CONSTANTS
    t1 = t1
    t2 = t2
    NoThread = NoThread
    Threads <- MCThreads

SPECIFICATION Spec

PROPERTY TeardownOnlyWhenIdle

CHECK_DEADLOCK FALSE
