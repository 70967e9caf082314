\* Two lost connections: one before and one after the subscription.
CONSTANTS
    MaxDrops = 2
    MaxDelivered = 2
SPECIFICATION SessionSpec
INVARIANTS FailedIsQuiet AskedUnlessDropped
PROPERTIES InitReturns
