\* The level 1 and the level 2 receiver threads share one ring.
CONSTANTS
    l1 = l1
    l2 = l2
    Producers <- TwoProducers
    Size = 2
    MaxPush = 1
SPECIFICATION Spec
INVARIANT PoppedInOrder
