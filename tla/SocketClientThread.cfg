SPECIFICATION Spec
CONSTANTS
    QueueLen = 5
    Bodies = {"control", "params", "monitor", "command"}
    Callbacks = {"CallbackCompControl"}
    NoBody = NoBody
    CallBackNull = CallBackNull
    PenLen = 2
    TimeoutResponse = 1
    WaitParam = 2
    RunsPerSecond = 2
INVARIANTS
    FetchFindsRequest
    AddsHaveRoom
    CallbackOfControl
PROPERTIES
    FetchesInOrder
    PollingGoesOn
CONSTRAINT
    NoneLost
