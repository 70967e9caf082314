\* Every plugin; enough packets for one of each receiver before and after release.
CONSTANTS
    Plugins <- AllPlugins
    MaxQuotes = 3
SPECIFICATION Spec
INVARIANT StartInv
PROPERTIES SilentAfterRelease  Drained InTimeReceives
