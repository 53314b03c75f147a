CONSTANTS
    Leader = leader
    p1 = p1
    p2 = p2
    Participants = {p1, p2}
    PortOf <- Ports
    Key <- KeyBits
    DefaultLen = 4
    MayFragment = TRUE
    Tails <- Stale
    Mortal = {leader, p1}
    None = none
SPECIFICATION FairSpec
INVARIANTS TypeOK StaleBytesOnlyFollow
PROPERTIES HelloOnlyByMistake OnlyKillEndsMutualWait AcceptedIsServed
