SPECIFICATION Spec
CONSTANTS
    QueueLen = 2
    Addresses = {1, 2}
    Functions = {"WRITE_SINGLE", "READ_HOLDING"}
    ParamTad = 1
    ParamWfr = 2
    T35 = 0
    ParamRetry = 1
    ManyRegisters = {"READ_HOLDING"}
    FrameSize = 2
    ReplyKinds = {"response", "exception"}
    Noise = FALSE
    LateAnswers = FALSE
    TransmitFails = FALSE
    LogLen = 2
    CountLimit = 2
    StrayIndexes = {0, 2}
    LeavesRoom = TRUE
    MaxAdds = 2
    MaxLogUses = 2
CHECK_DEADLOCK FALSE
INVARIANTS
    LogKeysDistinct
    LogNeverOvercounts
