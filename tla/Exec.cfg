CONSTANT
    MaxResizes = 2
SPECIFICATION FairSpec
INVARIANTS TypeOK ExitIsReal OneWriter
PROPERTIES ExecReturns ListenerStops
\* A command that has been executed is not executed again.
CHECK_DEADLOCK FALSE
