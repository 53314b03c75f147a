CONSTANTS
    Leader = leader
    p1 = p1
    Participants = {p1}
    PortOf <- OnePort
    Punct <- TwoBlocks
    Comm <- Committed
    Block = 2
    DefaultLen = 7
    MayFragment = FALSE
    Tails <- Clear
    Mortal = {}
    None = none
SPECIFICATION FairSpec
PROPERTIES CommitmentArrives
CHECK_DEADLOCK FALSE
