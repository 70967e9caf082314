\* Two messages beside the rows of the file, and each instrument subscribed twice.
CONSTANTS
    Codes = {1, 2, 3}
    Configured = {2, 3}
    Idxs = {11, 13}
    Exchange <- MCExchange
    File <- MCFile
    Fields = {"ap1", "av1"}
    MaxMsgs = 2
    MaxSubscribes = 2
SPECIFICATION Spec
INVARIANTS CodesInv DefinedUnlessOverlapped QuoteOfItsCode MergedIsCurrent
PROPERTY HandlerReturns
