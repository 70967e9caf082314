\* Level 1 and level 2 quotes of one contract.
CONSTANTS
    i1 = i1  b1 = b1  b2 = b2
    Insts <- OneInst
    Books <- TwoBooks
    MaxTime = 1
    MaxVolume = 2
    HighOf <- Rising
    MaxPrice = 2
    MaxQuotes = 4
SPECIFICATION Spec
INVARIANT OneOpen
PROPERTIES NeverBackUnlessCleared HighNeverFallsUnlessCleared
