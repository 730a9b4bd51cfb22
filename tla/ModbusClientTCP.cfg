SPECIFICATION Spec
CONSTANTS
    QueueLen = 2
    TransactionMax = 2
    TimeoutResponse = 2
    RetryLimit = 2
    TransidLimit = 3
    Units = {u1}
    Functions = {"WRITE_SINGLE"}
    Areas = {a1, a2, a3}
    Clients = {c1}
    Threads = FALSE
    ChecksResult = TRUE
    ReplyKinds = {"response"}
    MaxAdds = 3
    CallBackNull = CallBackNull
SYMMETRY AreaSymmetry
INVARIANTS
    NoSlotLeak
    DistinctInFlight
    SendBudget
    CallbackOfOwnRequest
PROPERTIES
    AnswerReachesOwner
    RequestsAge
