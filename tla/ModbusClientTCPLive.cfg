SPECIFICATION FairSpec
CONSTANTS
    QueueLen = 1
    TransactionMax = 2
    TimeoutResponse = 1
    RetryLimit = 1
    TransidLimit = 9
    Units = {u1}
    Functions = {"READ_HOLDING", "WRITE_SINGLE"}
    Areas = {a1}
    Clients = {c1}
    Threads = TRUE
    ChecksResult = TRUE
    ReplyKinds = {"exception", "otherFunction", "badProtocol"}
    MaxAdds = 3
    CallBackNull = CallBackNull
PROPERTIES
    EveryRequestFetched
    EveryRequestResolved
