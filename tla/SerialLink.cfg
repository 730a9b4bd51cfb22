SPECIFICATION FairSpec
CONSTANTS
    QueueLen = 2
    Addresses = {1}
    ParamTad = 1
    ParamWfr = 8
    ParamRetry = 2
    T35 = 0
    FrameSize = 1
    LeavesRoom = TRUE
    MaxAdds = 2
    SlaveAddress = 1
    SlaveT35 = 2
    ParamWait = 0
    ControlInterval = 1
    WriteResults = {"OK", "FAILURE"}
    Drift = 1
CHECK_DEADLOCK FALSE
INVARIANT
    ExecutedAsSent
PROPERTIES
    AnsweredWasWritten
    AnswerReachesOwner
    EveryRequestServed
