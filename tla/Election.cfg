CONSTANTS
    W = 4
    Rounds = 6
    WordSize = 16
    IntSize = 8
    NumNodes = 3
    Secret = 5
    Hash = 6
    Win = 12
    Lose = 3
    Xor <- XorWords
    Generator <- PrvHashPrf
SPECIFICATION FairSpec
INVARIANTS TypeOK AtMostOneWinner WinnerIsRemainder OutputVerifiable KeyRecoverable
PROPERTIES PhaseEnds ImplementsElection
