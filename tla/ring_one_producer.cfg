\* One receiver thread and the dispatcher; the ring wraps twice.
CONSTANTS
    l1 = l1
    l2 = l2
    Producers <- OneProducer
    Size = 2
    MaxPush = 5
SPECIFICATION FairSpec
INVARIANTS PoppedInOrder
PROPERTIES ImplementsFifo AllPopped
