SPECIFICATION FrameSpec
CONSTANTS
    Masters = {"serial", "tcp", "other"}
    Functions = {3, 4, 6, 16}
    Starts = {0, 20, 65535}
    Counts = {0, 1, 66, 126}
    Seeds = {65280}
    Present <- MCPresent
    WriteResults = {0, 1, 3}
    MaxExchanges = 2
    MaxRegisters = 126
    SlaveAddress = 17
    Masks = {129}
    DamagedLen = 8
    MaxDamage = 1
INVARIANTS SerialReadsRegisters WriteApplied ConfirmationNamesRequest BuildsAgree
PROPERTY ImplementsExchange
CHECK_DEADLOCK FALSE
