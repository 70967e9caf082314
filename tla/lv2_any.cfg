\* Any cuts, missed and doubled segments, header lookalikes.
CONSTANTS
    Lens <- Stream
    Lookalikes <- Inside
    FakeLen = 12
    Sizes <- Any
    MaxLost = 1
    MaxDuplicates = 1
SPECIFICATION Spec
INVARIANTS BufferInv HalfInv SegmentDelivered ExactStream
