--------------------------- MODULE ModbusClientLog ---------------------------
(***************************************************************************)
(* The error log of a Modbus client, mc_log.c: a table of the requests     *)
(* that failed, one entry per request, kept in an array the application    *)
(* provides.  Entries from head on are free, though the getters read them. *)
(* The serial master calls addMCL; the other operations are the            *)
(* application's.                                                          *)
(***************************************************************************)
EXTENDS Integers, FiniteSetsExt

CONSTANTS
    LogLen,            \* the size of the application's array
    CountLimit,        \* the largest error_count: 65535
    StrayIndexes,      \* indexes an unset variable may hold by chance
    Keys,              \* what tells requests apart: slave_adr, func_no,
                       \* start_adr and quantity_reg
    LargeKeys,         \* those whose quantity_reg is 0x8000 or more
    NoKey              \* the key of an entry never written

VARIABLES
    elements,       \* the array, empty until the application provides it
    head,           \* the number of entries
    eMC_LOG_x,      \* whether failures are logged
    err_total       \* the failures since the log was cleared

logVars == <<elements, head, eMC_LOG_x, err_total>>

Errors == {"ERRCRC", "ERRFUNC", "ERRTO"}

Entry == [key : Keys \cup {NoKey}, error_count : 0 .. CountLimit,
          error : Errors \cup {"ERRNO"}]

Cleared == [key |-> NoKey, error_count |-> 0, error |-> "ERRNO"]

Array == 0 .. LogLen - 1

Indexes == DOMAIN elements

LogInit ==
    /\ elements = <<>>
    /\ head = 0
    /\ eMC_LOG_x = "OFF"
    /\ err_total = 0

-----------------------------------------------------------------------------

\* setModbusClientSerialLogFile; the application has one array.
setLogFile ==
    /\ elements' = IF elements = <<>> THEN [i \in Array |-> Cleared] ELSE elements
    /\ head' = 0
    /\ eMC_LOG_x' = "ON"
    /\ UNCHANGED err_total

setMCLActivation(x) ==
    /\ eMC_LOG_x' = x
    /\ UNCHANGED <<elements, head, err_total>>

clearMCL ==
    /\ elements' = [i \in Indexes |-> Cleared]
    /\ head' = 0
    /\ err_total' = 0
    /\ UNCHANGED eMC_LOG_x

Logged == 0 .. head - 1

\* An entry keeps quantity_reg as an int16_t, the lookup compares it with an
\* uint16_t: 0x8000 registers or more are negative in the entry, equal to none.
Equals(i, key) == elements[i].key = key /\ key \notin LargeKeys

\* Mutant of isCurrentLogExist: the newest entry is not compared.
isOlderLogExist(key) ==
    LET same == {i \in 0 .. head - 2 : Equals(i, key)}
    IN  IF head = 0 THEN StrayIndexes \cup {-1}
        ELSE IF same = {} THEN {-1} ELSE {Min(same)}

\* The indexes the lookup may return: with no entry its result is never set.
isCurrentLogExist(key) ==
    LET same == {i \in Logged : Equals(i, key)}
    IN  IF head = 0 THEN StrayIndexes \cup {-1}
        ELSE IF same = {} THEN {-1} ELSE {Min(same)}

Incremented(n) == IF n < CountLimit THEN n + 1 ELSE 1

\* Mutant of NewEntry: the count of an older log is kept.
NewEntryKeepingCount(key, err) ==
    /\ elements' = [elements EXCEPT ![head].key = key, ![head].error = err]
    /\ head' = head + 1

NewEntry(key, err) ==
    /\ elements' = [elements EXCEPT ![head] =
                       [key |-> key, error_count |-> 0, error |-> err]]
    /\ head' = head + 1

\* An index outside the array damages what is not the log's.
CountAt(i, key, err) ==
    /\ elements' = IF i \in Indexes
                   THEN [elements EXCEPT ![i] =
                            [key |-> key, error_count |-> Incremented(@.error_count),
                             error |-> err]]
                   ELSE elements
    /\ UNCHANGED head

\* With no entry left the failures of logged requests are not counted either.
addMCL(key, err) ==
    /\ err_total' = err_total + 1
    /\ IF head >= Cardinality(Indexes) \/ eMC_LOG_x = "OFF"
       THEN UNCHANGED <<elements, head>>
       ELSE \E i \in isCurrentLogExist(key) :
               IF i < 0 THEN NewEntry(key, err) ELSE CountAt(i, key, err)
    /\ UNCHANGED eMC_LOG_x

-----------------------------------------------------------------------------
LogTypeOK ==
    /\ elements \in [Array -> Entry] \/ elements = <<>>
    /\ head \in 0 .. Cardinality(Indexes)
    /\ eMC_LOG_x \in {"ON", "OFF"}
    /\ err_total \in Nat
=============================================================================
