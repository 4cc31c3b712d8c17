CONSTANTS
    t1 = t1
    t2 = t2
    NoThread = NoThread
    Threads <- MCThreads

SPECIFICATION Spec

INVARIANT NoTeardownWhileWaiting
INVARIANT IInv

PROPERTY EveryCallReturns
PROPERTY ImplementsSession

\* After the GC has freed the object and joined its worker nothing is left
\* to run: that end state is not a hang.
CHECK_DEADLOCK FALSE
