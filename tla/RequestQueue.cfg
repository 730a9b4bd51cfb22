SPECIFICATION Spec
CONSTANTS
    QueueLen = 3
    Headers = {h1, h2}
    Bodies = {b1, b2}
    Callbacks = {c1}
    CallBackNull = CallBackNull
    NoHeader = NoHeader
    NoBody = NoBody
    CharIsSigned = TRUE
INVARIANTS
    RingConsistent
PROPERTIES
    ImplementsFifo
