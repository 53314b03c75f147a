CONSTANTS
    Leader = leader
    p1 = p1
    Participants = {p1}
    PortOf <- ShortPort
    Punct <- TwoBlocks
    Comm <- Committed
    Block = 2
    DefaultLen = 7
    MayFragment = TRUE
    Tails <- Stale
    Mortal = {leader, p1}
    None = none
SPECIFICATION FairSpec
PROPERTIES CommitmentFollowsKey SeparateMessagesComplete
