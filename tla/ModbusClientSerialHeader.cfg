SPECIFICATION Spec
CONSTANTS
    QueueLen = 2
    Addresses = {0, 1, 2}
    Functions = {"WRITE_SINGLE", "UNSUPPORTED"}
    ParamTad = 1
    ParamWfr = 4
    T35 = 1
    ParamRetry = 2
    ManyRegisters = {}
    FrameSize = 2
    ReplyKinds = {"response", "exception"}
    Noise = FALSE
    LateAnswers = FALSE
    TransmitFails = FALSE
    LogLen = 1
    CountLimit = 3
    StrayIndexes = {0, 1}
    LeavesRoom = FALSE
    MaxAdds = 3
    MaxLogUses = 0
CHECK_DEADLOCK FALSE
PROPERTIES
    SentToItsSlave
