\* Packets of any size up to ten bytes; one missed, one seen twice.
CONSTANTS
    Streams <- MCStreams
    MarkLen = 2
    HeadLen = 3
    Peek = 4
    LenOf <- MCLenOf
    Cap = 10
    Sizes = {1, 2, 3, 4, 5, 6, 7, 8, 9, 10}
    MaxLost = 1
    MaxDuplicates = 1
SPECIFICATION Spec
INVARIANTS StreamInv NothingForeign ExactStream PacketHandled
PROPERTY HandlerReturns
