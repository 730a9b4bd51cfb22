------------------------- MODULE ModbusClientSerial -------------------------
(***************************************************************************)
(* The Modbus master on a serial line, mcserial.c.  The application puts   *)
(* requests in the request list; every call of modbusClientSerialRun takes *)
(* one step of a machine with five states that serves one request at a     *)
(* time: transmit it, wait until it has left, leave the slaves time after  *)
(* a broadcast or wait for the answer otherwise, judge the answer, and     *)
(* transmit the request again if there was none or a bad one.              *)
(*                                                                         *)
(* The request list is the bounded fifo RequestQueue implements; fetched   *)
(* is req_waitreply.  Its header pointer is the one of the list's slot, so *)
(* the list changes the address of the request being served when it takes  *)
(* the header back.                                                        *)
(*                                                                         *)
(* rcv_size is the size of the driver's frame after every step, and        *)
(* rcv_size_prev its size before the step, so neither is a variable.       *)
(* Frames of less than 5 bytes are never looked at: they have size 0.      *)
(***************************************************************************)
EXTENDS Integers, Sequences, Bags, FiniteSetsExt

CONSTANTS
    QueueLen,          \* request_quantity
    Addresses,         \* slave addresses; 0 is the broadcast address
    Functions,         \* function codes
    ParamTad,          \* param_tad, param_wfr and t35, in calls of Run
    ParamWfr,
    T35,
    ParamRetry,        \* param_retry
    ManyRegisters,     \* the functions whose requests name 0x8000 registers
                       \* or more
    FrameSize,         \* the size of a complete answer
    ReplyKinds,        \* what slaves answer
    Noise,             \* whether the line carries corrupt frames
    LateAnswers,       \* whether a slave may answer an earlier transmission
    TransmitFails,     \* whether the driver may refuse to transmit
    LogLen,            \* the size of the array of the error log
    CountLimit,        \* the largest error_count: 65535
    StrayIndexes,      \* indexes an unset variable may hold by chance
    LeavesRoom,        \* whether the application never fills the list
                       \* while a request is being served
    MaxAdds,           \* bound: the number of requests ever accepted
    MaxLogUses         \* bound: how often the application uses the log

Supported == {"READ_HOLDING", "WRITE_SINGLE", "WRITE_MULTIPLE"}

Broadcast == 0

ASSUME LengthAssumption == QueueLen \in Nat \ {0}

UINT16_MAX == 65535

INT16_MAX == 32767

\* The timers and retry have 16 bits: they would not exceed a parameter of
\* UINT16_MAX, nor retry reach it after one failure more.
ASSUME TimeAssumption ==
    /\ ParamTad \in 0 .. UINT16_MAX - 1
    /\ ParamWfr \in 0 .. UINT16_MAX - 1
    /\ T35 \in 0 .. UINT16_MAX - 1
    /\ ParamRetry \in 0 .. UINT16_MAX - 1

ASSUME ApplicationAssumption ==
    /\ Addresses \subseteq 0 .. 255
    /\ Functions \subseteq Supported \cup {"UNSUPPORTED"}
    /\ ManyRegisters \subseteq Functions
    /\ LeavesRoom \in BOOLEAN
    /\ {MaxAdds, MaxLogUses} \subseteq Nat

\* The lookup's index is an int16_t.
ASSUME LogAssumption ==
    /\ LogLen \in 0 .. INT16_MAX
    /\ CountLimit \in Nat \ {0}
    /\ StrayIndexes \subseteq Nat

ASSUME LineAssumption ==
    /\ FrameSize \in Nat \ {0}
    /\ ReplyKinds \subseteq {"response", "exception"}
    /\ {Noise, LateAnswers, TransmitFails} \subseteq BOOLEAN

VARIABLES
    state,
    fifo,           \* req_obj: the requests not fetched yet
    fetched,        \* req_waitreply: the request fetched last
    result,         \* what modbusRequestAdd returned last
    retry,
    timer_tad,
    timer_wfr,
    ticker,
    rx,             \* the frame the receive driver holds
    wire,           \* the bag of requests slaves have not answered
    elements,       \* logfile: its entries,
    head,           \* their number,
    eMC_LOG_x,      \* whether it is on,
    err_total,      \* and the failures it was told of
    app,            \* the request the application may attach a callback to
    added,          \* history: the number of requests accepted
    sends,          \* history: per request, how often it was transmitted
    outcome,        \* history: per request, how its service ended
    failures,       \* history: per slave and function, the failures since the
                    \* log was set up or cleared
    log_uses        \* history: how often the application used the log

queueVars == <<fifo, fetched, result>>
lineVars == <<rx, wire>>
logVars == <<elements, head, eMC_LOG_x, err_total, failures, log_uses>>
vars == <<state, fifo, fetched, result, retry, timer_tad, timer_wfr, ticker,
          rx, wire, elements, head, eMC_LOG_x, err_total, app, added, sends,
          outcome, failures, log_uses>>

Requests == 1 .. MaxAdds

NoAddress == 256

\* id and dest, the address the request was added for, are history: the code
\* keeps the address in the header only.
Bodies == [func : Functions, id : Requests, dest : Addresses]

NoBody == [func |-> "NONE", id |-> 0, dest |-> NoAddress]

\* A callback is named after the request it was written for.
Queue == INSTANCE RequestFifo
             WITH Headers <- Addresses, NoHeader <- NoAddress,
                  Callbacks <- Requests, CallBackNull <- 0

\* Requests of one function have one start address and register count.
LogKeys == [slave_adr : Addresses, func_no : Supported]

LogKey(a, f) == [slave_adr |-> a, func_no |-> f]

Log == INSTANCE ModbusClientLog
           WITH Keys <- LogKeys, NoKey <- LogKey(NoAddress, "NONE"),
                LargeKeys <- {k \in LogKeys : k.func_no \in ManyRegisters}

\* id, the request a frame answers, is history.
NoFrame == [from |-> NoAddress, id |-> 0, kind |-> "none", size |-> 0]

Init ==
    /\ state = "IDLE"
    /\ Queue!Init
    /\ retry = 0
    /\ timer_tad = 0
    /\ timer_wfr = 0
    /\ ticker = 0
    /\ rx = NoFrame
    /\ wire = EmptyBag
    /\ Log!LogInit
    /\ failures = [k \in LogKeys |-> 0]
    /\ log_uses = 0
    /\ app = 0
    /\ added = 0
    /\ sends = [r \in Requests |-> 0]
    /\ outcome = [r \in Requests |-> "none"]

-----------------------------------------------------------------------------
(***************************************************************************)
(* The application, between two calls of Run or in a callback.             *)
(***************************************************************************)
Serving == state # "IDLE" \/ retry # 0

RequestAdd(a, f) ==
    /\ added < MaxAdds
    /\ LeavesRoom /\ Serving => Len(fifo) + 1 < QueueLen
    /\ Queue!Accept(a, [func |-> f, id |-> added + 1, dest |-> a])
    /\ app' = added + 1
    /\ added' = added + 1
    /\ UNCHANGED <<state, retry, timer_tad, timer_wfr, ticker, lineVars, sends,
                   outcome, logVars>>

RequestAddFails ==
    /\ Queue!RefuseFull
    /\ app' = 0
    /\ UNCHANGED <<state, retry, timer_tad, timer_wfr, ticker, lineVars, added,
                   sends, outcome, logVars>>

RequestCallbackAdd ==
    /\ app # 0
    /\ Queue!AttachCallback(app) \/ (fifo = <<>> /\ UNCHANGED queueVars)
    /\ app' = 0
    /\ UNCHANGED <<state, retry, timer_tad, timer_wfr, ticker, lineVars, added,
                   sends, outcome, logVars>>

\* setModbusClientSerialLogFile, setModbusClientSerialLogStop, clearMCL.
UseLog ==
    /\ log_uses < MaxLogUses
    /\ log_uses' = log_uses + 1
    /\ \/ Log!setLogFile /\ failures' = [k \in LogKeys |-> 0]
       \/ Log!setMCLActivation("OFF") /\ UNCHANGED failures
       \/ Log!clearMCL /\ failures' = [k \in LogKeys |-> 0]
    /\ UNCHANGED <<state, queueVars, retry, timer_tad, timer_wfr, ticker, lineVars,
                   app, added, sends, outcome>>

Application ==
    \/ UseLog
    \/ \E a \in Addresses, f \in Functions : RequestAdd(a, f)
    \/ RequestAddFails
    \/ RequestCallbackAdd

-----------------------------------------------------------------------------
(***************************************************************************)
(* IDLE: fetch a request, unless the last one is to be transmitted again,  *)
(* and transmit it.                                                        *)
(***************************************************************************)
Take == IF retry = 0 THEN Queue!Fetch ELSE UNCHANGED queueVars

\* Mutant of BeginRequest: the reception is not stopped.
BeginRequestKeepingFrame ==
    /\ state = "IDLE"
    /\ fifo # <<>> \/ retry # 0
    /\ Take
    /\ timer_wfr' = 0
    /\ timer_tad' = 0
    /\ UNCHANGED <<retry, ticker, rx, app, added, logVars>>

\* The ticker is not among the variables cleared.
BeginRequest ==
    /\ state = "IDLE"
    /\ fifo # <<>> \/ retry # 0
    /\ Take
    /\ timer_wfr' = 0
    /\ timer_tad' = 0
    /\ rx' = NoFrame
    /\ UNCHANGED <<retry, ticker, app, added, logVars>>

SkipUnsupported ==
    /\ BeginRequest
    /\ fetched'.body.func \notin Supported
    /\ outcome' = [outcome EXCEPT ![fetched'.body.id] = "unsupported"]
    /\ UNCHANGED <<state, wire, sends>>

\* A first transmission the driver refuses is not tried again.
TransmitRefused ==
    /\ TransmitFails
    /\ BeginRequest
    /\ fetched'.body.func \in Supported
    /\ outcome' = IF retry = 0
                  THEN [outcome EXCEPT ![fetched'.body.id] = "refused"]
                  ELSE outcome
    /\ UNCHANGED <<state, wire, sends>>

OnTheLine ==
    LET earlier == IF LateAnswers THEN wire ELSE EmptyBag
    IN  IF fetched'.header = Broadcast
        THEN earlier
        ELSE earlier (+) SetToBag({[to |-> fetched'.header,
                                    id |-> fetched'.body.id]})

Transmit ==
    /\ BeginRequest
    /\ fetched'.body.func \in Supported
    /\ state' = "TRANSCOMPLT"
    /\ wire' = OnTheLine
    /\ sends' = [sends EXCEPT ![fetched'.body.id] = Min({@ + 1, ParamRetry + 2})]
    /\ UNCHANGED outcome

-----------------------------------------------------------------------------
(***************************************************************************)
(* TRANSCOMPLT, TURN: wait until the request has left, and leave the       *)
(* slaves time after a broadcast.                                          *)
(***************************************************************************)

\* Mutant of TransmitCompleted: broadcasts are not told apart.
TransmitCompletedToWait ==
    /\ state = "TRANSCOMPLT"
    /\ state' = "WAIT"
    /\ UNCHANGED <<queueVars, retry, timer_tad, timer_wfr, ticker, lineVars, app,
                   added, sends, outcome, logVars>>

\* A poll that finds the transmission incomplete changes nothing.
TransmitCompleted ==
    /\ state = "TRANSCOMPLT"
    /\ state' = IF fetched.header = Broadcast THEN "TURN" ELSE "WAIT"
    /\ UNCHANGED <<queueVars, retry, timer_tad, timer_wfr, ticker, lineVars, app,
                   added, sends, outcome, logVars>>

TurnaroundTick ==
    /\ state = "TURN"
    /\ timer_tad + 1 <= ParamTad
    /\ timer_tad' = timer_tad + 1
    /\ UNCHANGED <<state, queueVars, retry, timer_wfr, ticker, lineVars, app,
                   added, sends, outcome, logVars>>

TurnaroundOver ==
    /\ state = "TURN"
    /\ timer_tad + 1 > ParamTad
    /\ timer_tad' = 0
    /\ state' = "IDLE"
    /\ outcome' = [outcome EXCEPT ![fetched.body.id] = "broadcast"]
    /\ UNCHANGED <<queueVars, retry, timer_wfr, ticker, lineVars, app, added, sends, logVars>>

-----------------------------------------------------------------------------
(***************************************************************************)
(* WAIT: poll the receive driver for the answer, for ParamWfr calls.       *)
(***************************************************************************)

\* Mutant of WaitExpired: the retry is not counted.
WaitExpiredUncounted ==
    /\ state = "WAIT"
    /\ timer_wfr + 1 > ParamWfr
    /\ timer_wfr' = 0
    /\ state' = IF retry + 1 >= ParamRetry THEN "PROCESS" ELSE "IDLE"
    /\ UNCHANGED <<queueVars, retry, timer_tad, ticker, lineVars, app, added,
                   sends, outcome, logVars>>

WaitExpired ==
    /\ state = "WAIT"
    /\ timer_wfr + 1 > ParamWfr
    /\ timer_wfr' = 0
    /\ retry' = retry + 1
    /\ state' = IF retry' >= ParamRetry THEN "PROCESS" ELSE "IDLE"
    /\ UNCHANGED <<queueVars, timer_tad, ticker, lineVars, app, added, sends, outcome, logVars>>

(***************************************************************************)
(* The receive driver holds frame f: what it held before, more of it, the  *)
(* beginning of an answer, or a corrupt frame.                             *)
(***************************************************************************)
Driver(f) ==
    \/ f = rx /\ UNCHANGED wire
    \/ /\ f \in {[rx EXCEPT !.size = n] : n \in rx.size + 1 .. FrameSize}
       /\ rx # NoFrame
       /\ UNCHANGED wire
    \/ /\ rx = NoFrame
       /\ \E p \in BagToSet(wire) :
             /\ f \in [from : {p.to}, id : {p.id}, kind : ReplyKinds,
                       size : 1 .. FrameSize]
             /\ wire' = wire (-) SetToBag({p})
    \/ /\ Noise
       /\ rx = NoFrame
       /\ f \in [from : Addresses, id : {0}, kind : {"corrupt"}, size : 1 .. FrameSize]
       /\ UNCHANGED wire

Frames ==
    [from : Addresses, id : Requests \cup {0},
     kind : ReplyKinds \cup {"corrupt"}, size : 1 .. FrameSize] \cup {NoFrame}

\* Mutant of Heard: the address of the frame is not checked.
HeardFromAnyone(f) == f

\* _slaveAddrCheck: a frame from another slave is thrown away.
Heard(f) == IF f.from = fetched.header THEN f ELSE NoFrame

Unchanged(f) == Heard(f).size = rx.size /\ rx.size > 0

Poll(f) ==
    /\ state = "WAIT"
    /\ timer_wfr + 1 <= ParamWfr
    /\ timer_wfr' = timer_wfr + 1
    /\ Driver(f)
    /\ rx' = Heard(f)
    /\ UNCHANGED <<queueVars, retry, timer_tad, app, added, sends, outcome, logVars>>

\* The ticker is not cleared when the frame grows.
FrameGoesOn(f) ==
    /\ Poll(f)
    /\ ~Unchanged(f) \/ ticker + 1 <= T35
    /\ ticker' = IF Unchanged(f) THEN ticker + 1 ELSE ticker
    /\ UNCHANGED state

FrameEnds(f) ==
    /\ Poll(f)
    /\ Unchanged(f)
    /\ ticker + 1 > T35
    /\ ticker' = 0
    /\ state' = "PROCESS"

-----------------------------------------------------------------------------
(***************************************************************************)
(* PROCESS: judge the frame, unless the retries are used up.               *)
(***************************************************************************)
\* Mutant of RetriesUsedUp: one retry more.
RetriesExceeded == retry > ParamRetry

RetriesUsedUp == retry >= ParamRetry

\* The CRC of a corrupt frame, or of one that goes on, is wrong.
Intact == rx.kind # "corrupt" /\ rx.size = FrameSize

Failed == ~Intact \/ rx.kind = "exception"

LogFailure(error) ==
    IF eMC_LOG_x = "ON"
    THEN /\ Log!addMCL(LogKey(fetched.header, fetched.body.func), error)
         /\ failures' = [failures EXCEPT
                            ![LogKey(fetched.body.dest, fetched.body.func)] = @ + 1]
         /\ UNCHANGED log_uses
    ELSE UNCHANGED logVars

\* Mutant of GiveUp: the retries of this request are left to the next.
GiveUpKeepingRetry ==
    /\ state = "PROCESS"
    /\ RetriesUsedUp
    /\ state' = "IDLE"
    /\ outcome' = [outcome EXCEPT ![fetched.body.id] = "timeout"]
    /\ LogFailure("ERRTO")
    /\ UNCHANGED <<queueVars, retry, timer_tad, timer_wfr, ticker, lineVars, app,
                   added, sends>>

\* The frame is not looked at: an answer after ParamRetry bad ones is lost.
GiveUp ==
    /\ state = "PROCESS"
    /\ RetriesUsedUp
    /\ state' = "IDLE"
    /\ retry' = 0
    /\ outcome' = [outcome EXCEPT ![fetched.body.id] = "timeout"]
    /\ LogFailure("ERRTO")
    /\ UNCHANGED <<queueVars, timer_tad, timer_wfr, ticker, lineVars, app, added, sends>>

RetryRequest ==
    /\ state = "PROCESS"
    /\ ~RetriesUsedUp
    /\ Failed
    /\ state' = "IDLE"
    /\ retry' = retry + 1
    /\ LogFailure(IF Intact THEN "ERRFUNC" ELSE "ERRCRC")
    /\ UNCHANGED <<queueVars, timer_tad, timer_wfr, ticker, lineVars, app, added,
                   sends, outcome>>

\* Mutant of Complete: the retries of this request are left to the next.
CompleteKeepingRetry ==
    /\ state = "PROCESS"
    /\ ~RetriesUsedUp
    /\ ~Failed
    /\ state' = "IDLE"
    /\ outcome' = [outcome EXCEPT ![fetched.body.id] = "answered"]
    /\ UNCHANGED <<queueVars, retry, timer_tad, timer_wfr, ticker, lineVars, app,
                   added, sends, logVars>>

\* responseOperation copies the data and runs the callback.
Complete ==
    /\ state = "PROCESS"
    /\ ~RetriesUsedUp
    /\ ~Failed
    /\ state' = "IDLE"
    /\ retry' = 0
    /\ outcome' = [outcome EXCEPT ![fetched.body.id] = "answered"]
    /\ UNCHANGED <<queueVars, timer_tad, timer_wfr, ticker, lineVars, app, added, sends, logVars>>

Run ==
    \/ SkipUnsupported
    \/ TransmitRefused
    \/ Transmit
    \/ TransmitCompleted
    \/ TurnaroundTick
    \/ TurnaroundOver
    \/ WaitExpired
    \/ \E f \in Frames : FrameGoesOn(f) \/ FrameEnds(f)
    \/ GiveUp
    \/ RetryRequest
    \/ Complete

Next == Run \/ Application

Spec == Init /\ [][Next]_vars

-----------------------------------------------------------------------------
Queued(r) == \E k \in 1 .. Len(fifo) : fifo[k].body.id = r

Awaited(r) == Serving /\ fetched.body.id = r

Request == [header : Addresses, body : Bodies, cb : Requests \cup {0}]

Outcomes == {"none", "answered", "timeout", "broadcast", "refused", "unsupported"}

TypeOK ==
    /\ state \in {"IDLE", "TRANSCOMPLT", "TURN", "WAIT", "PROCESS"}
    /\ fifo \in Seq(Request)
    /\ Len(fifo) <= QueueLen
    /\ fetched \in Request \cup {Queue!NullRequest}
    /\ retry \in 0 .. ParamRetry + 1
    /\ timer_tad \in 0 .. ParamTad
    /\ timer_wfr \in 0 .. ParamWfr
    /\ ticker \in 0 .. T35
    /\ rx \in Frames
    /\ Log!LogTypeOK
    /\ BagToSet(wire) \subseteq [to : Addresses \ {Broadcast}, id : Requests]
    /\ app \in 0 .. added
    /\ added \in 0 .. MaxAdds
    /\ sends \in [Requests -> 0 .. ParamRetry + 2]
    /\ outcome \in [Requests -> Outcomes]

(***************************************************************************)
(* No request is lost: one that was accepted is in the list, is being      *)
(* served, or its service ended.  In particular a request is not fetched   *)
(* over one that is still to be transmitted again.                         *)
(***************************************************************************)
NothingLost ==
    \A r \in 1 .. added : Queued(r) \/ Awaited(r) \/ outcome[r] # "none"

(***************************************************************************)
(* A request whose service ended is neither served nor transmitted again.  *)
(***************************************************************************)
ServedOnce ==
    [][\A r \in Requests :
          outcome[r] # "none" => /\ outcome'[r] = outcome[r]
                                 /\ sends'[r] = sends[r]]_vars

(***************************************************************************)
(* Retries are counted for one request, not carried over to another: a     *)
(* request reported as timed out was transmitted ParamRetry times, or once *)
(* more if the last failure was a bad answer; no request is transmitted    *)
(* more often, and a broadcast is transmitted once.                        *)
(***************************************************************************)
RetriesInBudget ==
    \A r \in Requests :
        /\ sends[r] <= ParamRetry + 1
        /\ outcome[r] = "timeout" => sends[r] >= ParamRetry
        /\ outcome[r] = "broadcast" => sends[r] = 1

(***************************************************************************)
(* The answer of a broadcast is never awaited, and the turnaround delay is *)
(* never left with retries that would transmit the broadcast again.        *)
(***************************************************************************)
BroadcastNotAwaited ==
    /\ state \in {"WAIT", "PROCESS"} => fetched.body.dest # Broadcast
    /\ state = "TURN" => fetched.body.dest = Broadcast /\ retry = 0

(***************************************************************************)
(* A request ends as answered, and its callback runs, only with a complete *)
(* and correct frame from the slave it was added for, whatever other       *)
(* slaves answer late and whatever noise is on the line.                   *)
(***************************************************************************)
AnswerFromItsSlave ==
    [][\A r \in Requests :
          outcome[r] = "none" /\ outcome'[r] = "answered" =>
              /\ fetched.body.id = r
              /\ fetched.cb \in {0, r}
              /\ rx.from = fetched.body.dest
              /\ rx.kind = "response"
              /\ rx.size = FrameSize]_vars

(***************************************************************************)
(* The error log holds one entry per request it tells apart, but one per   *)
(* failure of a request for 0x8000 registers or more, which its lookup     *)
(* never finds; and it blames no slave for more failures than the requests *)
(* it was asked for had, whatever the lookup in an empty table returns and *)
(* however often the log is stopped, cleared and set up again.             *)
(***************************************************************************)
LogKeysDistinct ==
    \A i, j \in Log!Logged :
        /\ elements[i].key = elements[j].key
        /\ elements[i].key.func_no \notin ManyRegisters
        => i = j

LogNeverOvercounts ==
    \A i \in Log!Logged : elements[i].error_count < failures[elements[i].key]

(***************************************************************************)
(* The calls of Run a request that was transmitted still has before its    *)
(* service ends, with every retry it is left and no answer to any of them. *)
(* Polls of a transmission under way are not counted: the driver decides.  *)
(***************************************************************************)
RetriesLeft == IF retry < ParamRetry THEN ParamRetry - retry ELSE 0

Trial == ParamWfr + 4

ServiceLeft ==
    CASE state = "IDLE" -> IF retry = 0 THEN 0 ELSE RetriesLeft * Trial + Trial
      [] state = "TRANSCOMPLT" ->
            IF fetched.body.dest = Broadcast
            THEN ParamTad - timer_tad + 2
            ELSE RetriesLeft * Trial + ParamWfr - timer_wfr + 3
      [] state = "TURN" -> ParamTad - timer_tad + 1
      [] state = "WAIT" -> RetriesLeft * Trial + ParamWfr - timer_wfr + 2
      [] state = "PROCESS" -> RetriesLeft * Trial + 1

MaxService == Max({ParamRetry * Trial + ParamWfr + 3, ParamTad + 2})

(***************************************************************************)
(* No slave, no noise and no application keeps the master busy: the        *)
(* service of a request ends MaxService calls after its transmission at    *)
(* the latest, but for the calls in which the driver refuses to transmit   *)
(* it again.                                                               *)
(***************************************************************************)
ServiceBounded ==
    [][/\ ServiceLeft' <= MaxService
       /\ \/ ServiceLeft = 0
          \/ ServiceLeft' < ServiceLeft
          \/ (Application \/ TransmitRefused) /\ ServiceLeft' = ServiceLeft]_vars

(***************************************************************************)
(* The answer that ends a request answers that request.  It holds against  *)
(* the slave of SerialLink, which is quicker than the master's wait; the   *)
(* late answers of this module break it.                                   *)
(***************************************************************************)
AnswerReachesOwner ==
    [][\A r \in Requests :
          outcome[r] = "none" /\ outcome'[r] = "answered" => rx.id = r]_vars

(***************************************************************************)
(* Liveness: the service of every request ends, though no slave answers.   *)
(***************************************************************************)
EveryRequestServed ==
    \A r \in Requests : Queued(r) ~> outcome[r] # "none"

-----------------------------------------------------------------------------
(***************************************************************************)
(* What comments of the code promise and the code does not keep.           *)
(***************************************************************************)

\* mcserial.h:53: req_waitreply has a header of its own, so a request keeps
\* the address it was added for and is transmitted to no other slave.
SentToItsSlave ==
    [][Transmit => fetched'.header = fetched'.body.dest]_vars
=============================================================================
