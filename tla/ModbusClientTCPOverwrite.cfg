SPECIFICATION Spec
CONSTANTS
    QueueLen = 2
    TransactionMax = 2
    TimeoutResponse = 1
    RetryLimit = 2
    TransidLimit = 9
    Units = {u1}
    Functions = {"READ_HOLDING", "WRITE_SINGLE"}
    Areas = {a1}
    Clients = {c1}
    Threads = FALSE
    ChecksResult = TRUE
    ReplyKinds = {"response", "exception"}
    MaxAdds = 3
    CallBackNull = CallBackNull
INVARIANTS
    CounterCoversInUse
