\* One gfex worker or up to two shfe workers; three quotes in all.
CONSTANTS
    Variants <- BothVariants
    Configs = 2
    NaN = NaN
    Quotes <- MCQuotes
    MaxQuotes = 3
SPECIFICATION Spec
INVARIANTS ReceiverInv WholeUnlessOverlapped
PROPERTIES DestroyReturns SignalStops
