SPECIFICATION FairSpec
CONSTANTS
    SlaveAddress = 1
    Addresses = {0, 1, 129}
    Functions = {"READ_HOLDING", "WRITE_SINGLE", "UNSUPPORTED"}
    Areas = {a1, a2}
    Present = {a1}
    Values = {v1, v2}
    WriteResults = {"OK", "BUSY"}
    T35 = 3
    ParamWait = 1
    ControlInterval = 1
    FrameSize = 2
    MaxFrames = 2
CHECK_DEADLOCK FALSE
INVARIANTS
    ExecutedOnce
PROPERTIES
    OnlyOwnFramesExecuted
    FrameEndsInSilence
    AnswerMatchesRegisters
    ListensAgain
    EveryFrameAnswered
