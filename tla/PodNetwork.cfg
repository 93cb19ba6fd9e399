CONSTANTS
    Pods = {p1, p2}
    Files = {1, 2}
    Networks = {"net1", "net2"}
    Subnets <- MCSubnets
    Bridges <- MCBridges
    Directories <- MCDirectories
    Foreign = {254}
    MaxRestarts = 1
    MaxEdits = 1
SPECIFICATION FairSpec
INVARIANTS TypeOK AddressUsable SharedOnlyUnseen DetachedUnlessMoved
PROPERTY SearchEnds
CHECK_DEADLOCK FALSE
