SPECIFICATION Spec
CONSTANTS
    Masters = {"tcp"}
    Functions = {3, 6}
    Starts = {0, 1}
    Counts = {1, 2}
    Seeds = {300}
    Present = {0, 1, 2, 3}
    WriteResults = {0}
    MaxExchanges = 2
    MaxRegisters = 4
INVARIANT TCPReadsRegisters
CHECK_DEADLOCK FALSE
