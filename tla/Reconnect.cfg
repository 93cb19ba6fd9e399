CONSTANTS
    MaxStarts = 4
    MaxExits = 1
SPECIFICATION FairSpec
INVARIANTS TypeOK HandledOnce RestIsConnected
PROPERTIES ClientMovesOn ListenerArrives ClientArrives
\* LXD or lxe may end for good.
CHECK_DEADLOCK FALSE
