\* A tick is half a heartbeat; two messages, one ping of the broker.
CONSTANTS
    Heartbeat = 2
    WriteTimeout = 3
    Writers = 2
    PongDelay = 1
    Layouts <- MCLayouts
    MaxFragments = 2
    MaxMessages = 2
    MaxPings = 1
    MaxWire = 2
    NoTimer = NoTimer
SPECIFICATION Spec
INVARIANTS
    DeliveredInOrder
    DeadBrokerNoticed
    QuietBrokerKept
