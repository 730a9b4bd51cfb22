------------------------------ MODULE SerialLink ------------------------------
(***************************************************************************)
(* The serial master and a serial slave of this library on one line: the   *)
(* frame the slave hears is the one the master transmits, and the answer   *)
(* the master hears is the one the slave transmits.  Nobody else is on the *)
(* line, so requests for other addresses are not answered.                 *)
(*                                                                         *)
(* Both machines count time in calls of their Run.  The two are called at  *)
(* the same rate, but for Drift calls that one may be ahead of the other.  *)
(* The variables of the slave are those of ModbusServerSerial with s_      *)
(* before their names.                                                     *)
(***************************************************************************)
EXTENDS Integers, Sequences, Bags, FiniteSetsExt

CONSTANTS
    QueueLen, Addresses, ParamTad, ParamWfr, ParamRetry, T35, FrameSize,
    LeavesRoom, MaxAdds,                     \* as in ModbusClientSerial
    SlaveAddress, SlaveT35, ParamWait, ControlInterval,
    WriteResults,                            \* as in ModbusServerSerial
    Drift          \* how many calls one Run may be ahead of the other

UINT16_MAX == 65535

\* As in ModbusClientSerial: timers and retry have 16 bits.
ASSUME MasterTimeAssumption ==
    /\ ParamTad \in 0 .. UINT16_MAX - 1
    /\ ParamWfr \in 0 .. UINT16_MAX - 1
    /\ T35 \in 0 .. UINT16_MAX - 1
    /\ ParamRetry \in 0 .. UINT16_MAX - 1

ASSUME ApplicationAssumption ==
    /\ QueueLen \in Nat \ {0}
    /\ Addresses \subseteq 0 .. 255
    /\ LeavesRoom \in BOOLEAN
    /\ MaxAdds \in Nat

ASSUME FrameAssumption == FrameSize \in Nat \ {0}

\* As in ModbusServerSerial.
ASSUME SlaveAssumption ==
    /\ SlaveAddress \in 0 .. 255
    /\ SlaveT35 \in Nat
    /\ ParamWait \in Nat
    /\ ControlInterval \in Nat \ {0}
    /\ WriteResults \subseteq {"OK", "DATA_VALUE", "BUSY", "FAILURE"}

\* As in ModbusServerSerial: its tick has 16 bits.
ASSUME SlaveWidthAssumption ==
    /\ SlaveT35 <= UINT16_MAX
    /\ ParamWait + ControlInterval <= UINT16_MAX

ASSUME DriftAssumption == Drift \in Nat \ {0}

VARIABLES
    state, fifo, fetched, result, retry, timer_tad, timer_wfr, ticker, rx, wire,
    elements, head, eMC_LOG_x, err_total, app, added, sends, outcome,
    failures, log_uses,
    s_state, s_rx, s_size_rcv_prev, s_tick, s_registers, s_tx, s_heard,
    s_executed, s_answered, s_quiet,
    line,          \* the frame on the line that was not heard yet
    lead,          \* calls of the master's Run more than of the slave's
    carried        \* history: per frame the slave heard, the request it carries

masterVars == <<state, fifo, fetched, result, retry, timer_tad, timer_wfr,
                ticker, rx, wire, elements, head, eMC_LOG_x, err_total, app,
                added, sends, outcome, failures, log_uses>>
slaveVars == <<s_state, s_rx, s_size_rcv_prev, s_tick, s_registers, s_tx,
               s_heard, s_executed, s_answered, s_quiet>>
vars == <<masterVars, slaveVars, line, lead, carried>>

\* A request writes its own number.
Master == INSTANCE ModbusClientSerial
    WITH Functions <- {"WRITE_SINGLE"}, ReplyKinds <- {"response", "exception"},
         Noise <- FALSE, LateAnswers <- TRUE, TransmitFails <- FALSE,
         ManyRegisters <- {}, LogLen <- 0, CountLimit <- 1, StrayIndexes <- {},
         MaxLogUses <- 0

Requests == 1 .. MaxAdds

Slave == INSTANCE ModbusServerSerial
    WITH Functions <- {"WRITE_SINGLE"}, Areas <- {"area"}, Present <- {"area"},
         Values <- Requests \cup {0}, T35 <- SlaveT35,
         MaxFrames <- MaxAdds * (ParamRetry + 1),
         state <- s_state, rx <- s_rx, size_rcv_prev <- s_size_rcv_prev,
         tick <- s_tick, registers <- s_registers, tx <- s_tx,
         heard <- s_heard, executed <- s_executed, answered <- s_answered,
         quiet <- s_quiet

Silence == [by |-> "none", to |-> 0, id |-> 0, kind |-> "none"]

Init ==
    /\ Master!Init
    /\ Slave!Init
    /\ s_registers = [a \in {"area"} |-> 0]
    /\ line = Silence
    /\ lead = 0
    /\ carried = <<>>

-----------------------------------------------------------------------------
(***************************************************************************)
(* A frame that is transmitted replaces the one on the line.               *)
(***************************************************************************)
MasterTransmits == state = "IDLE" /\ state' = "TRANSCOMPLT"

MasterHears == state = "WAIT" /\ wire' # wire

\* A poll of the driver finds a frame that is on the line.
MasterMustHear == state = "WAIT" /\ timer_wfr' # 0 /\ rx = Master!NoFrame /\ line.by = "slave"

\* The application attaches the callback before it calls Run again.
MasterRun ==
    /\ app = 0
    /\ lead < Drift
    /\ lead' = lead + 1
    /\ Master!Run
    /\ \/ /\ MasterTransmits
          /\ line' = [by |-> "master", to |-> fetched'.header,
                      id |-> fetched'.body.id, kind |-> "request"]
       \/ /\ MasterHears
          /\ line.by = "slave"
          /\ wire' = wire (-) SetToBag({[to |-> line.to, id |-> line.id]})
          /\ rx' # Master!NoFrame => rx'.kind = line.kind
          /\ line' = Silence
       \/ /\ ~MasterTransmits
          /\ ~MasterHears
          /\ ~MasterMustHear
          /\ UNCHANGED line
    /\ UNCHANGED <<slaveVars, carried>>

SlaveHears == s_heard' # s_heard

SlaveMustHear == s_state = "IDLE" /\ s_rx = Slave!NoFrame /\ line.by = "master"

SlaveTransmits == s_state = "WAITOPER" /\ s_state' = "WAITDIR"

SlaveRun ==
    /\ lead > 0 - Drift
    /\ lead' = lead - 1
    /\ Slave!Run
    /\ \/ /\ SlaveHears
          /\ line.by = "master"
          /\ IF s_rx' = Slave!NoFrame
             THEN ~Slave!CheckAddres(line)
             ELSE s_rx'.to = line.to /\ s_rx'.val = line.id
          /\ carried' = Append(carried, line.id)
          /\ line' = Silence
       \/ /\ SlaveTransmits
          /\ line' = [by |-> "slave", to |-> SlaveAddress,
                      id |-> carried[s_tx.id], kind |-> s_tx.kind]
          /\ UNCHANGED carried
       \/ /\ ~SlaveHears
          /\ ~SlaveTransmits
          /\ ~SlaveMustHear
          /\ UNCHANGED <<line, carried>>
    /\ UNCHANGED masterVars

Add ==
    /\ \/ \E a \in Addresses : Master!RequestAdd(a, "WRITE_SINGLE")
       \/ Master!RequestAddFails
    /\ UNCHANGED <<slaveVars, line, lead, carried>>

Attach ==
    /\ Master!RequestCallbackAdd
    /\ UNCHANGED <<slaveVars, line, lead, carried>>

Next == MasterRun \/ SlaveRun \/ Add \/ Attach

Spec == Init /\ [][Next]_vars

\* Both main loops call their Run forever, and the application attaches the
\* callback of a request it has added.
FairSpec == Spec /\ WF_vars(MasterRun) /\ WF_vars(SlaveRun) /\ WF_vars(Attach)

-----------------------------------------------------------------------------
\* The frames the slave heard that carry request r, and their executions.
Carrying(r) == {n \in 1 .. Len(carried) : carried[n] = r}

Executions(r) == UNION {{n} \X (1 .. s_executed[n]) : n \in Carrying(r)}

(***************************************************************************)
(* An answered write was executed: when the master believes the answer,    *)
(* the slave's register has the value that was written, if the slave's     *)
(* application has not written it since.                                   *)
(***************************************************************************)
AnsweredWasWritten ==
    [][\A r \in Requests :
          outcome[r] = "none" /\ outcome'[r] = "answered" =>
              s_registers["area"] = r]_vars

(***************************************************************************)
(* The slave executes no request more often than it was transmitted.       *)
(***************************************************************************)
ExecutedAsSent == \A r \in Requests : Cardinality(Executions(r)) <= sends[r]

(***************************************************************************)
(* If the master waits longer than the slave takes, an answer is given to  *)
(* the request it answers, though an answer does not name its request.     *)
(***************************************************************************)
AnswerReachesOwner == Master!AnswerReachesOwner

(***************************************************************************)
(* Liveness: the service of every request ends.                            *)
(***************************************************************************)
EveryRequestServed == Master!EveryRequestServed
=============================================================================
