\* Both receiver threads, one instrument.
CONSTANTS
    lc = lc  b1 = b1  empty = empty  nan = nan
    Insts <- OneInst
    Feeds <- BothFeeds
    Books <- AllBooks
    EmptyBook = empty
    NaNBook = nan
    MaxTime = 2
    MaxVolume = 1
    CloseTime = 1
    MaxQuotes = 2
SPECIFICATION Spec
INVARIANT UselessWasPublished
PROPERTIES NeverBackUnlessOverlapped
