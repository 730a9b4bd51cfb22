------------------------- MODULE ModbusServerSerial -------------------------
(***************************************************************************)
(* The Modbus slave on a serial line, msserial.c.  Every call of           *)
(* modbusServerSerialRun takes one step: poll the receive driver until a   *)
(* frame ends, check its address, check its CRC, execute the request,      *)
(* wait, transmit the answer, wait until it has left.  The address is      *)
(* checked in the call that finds the frame, and the answer transmitted in *)
(* the call that ends the wait, so these two states are never between      *)
(* calls.                                                                  *)
(*                                                                         *)
(* size_rcv is the size of the driver's frame.  The registers are the      *)
(* application's, which is not modelled and leaves them alone; a request   *)
(* reads or writes one area of them.                                       *)
(***************************************************************************)
EXTENDS Integers, FiniteSetsExt

CONSTANTS
    SlaveAddress,      \* slave_address
    Addresses,         \* addresses of the frames on the line
    Functions,         \* function codes
    Areas,             \* start address and register count of a request
    Present,           \* the areas IParamAdressCheck knows
    Values,            \* register values
    WriteResults,      \* what IParamWrite answers
    T35,               \* t35, in calls of Run
    ParamWait,         \* param_wait
    ControlInterval,   \* control_intervals
    FrameSize,         \* the size of a complete request
    MaxFrames          \* bound: the number of frames ever on the line

Writes == {"WRITE_SINGLE", "WRITE_MULTIPLE"}

ASSUME AddressAssumption ==
    /\ SlaveAddress \in 0 .. 255
    /\ Addresses \subseteq 0 .. 255

ASSUME RequestAssumption ==
    /\ Functions \subseteq {"READ_HOLDING", "UNSUPPORTED"} \cup Writes
    /\ Present \subseteq Areas
    /\ WriteResults \subseteq {"OK", "DATA_VALUE", "BUSY", "FAILURE"}

ASSUME TimeAssumption ==
    /\ T35 \in Nat
    /\ ParamWait \in Nat
    /\ ControlInterval \in Nat \ {0}
    /\ FrameSize \in Nat \ {0}
    /\ MaxFrames \in Nat

UINT16_MAX == 65535

\* tick has 16 bits: beyond these it may never reach t35 or pass param_wait.
ASSUME WidthAssumption ==
    /\ T35 <= UINT16_MAX
    /\ ParamWait + ControlInterval <= UINT16_MAX

VARIABLES
    state,
    rx,             \* the frame the receive driver holds
    size_rcv_prev,
    tick,
    registers,      \* per area, its value
    tx,             \* buffer_tx: the answer built last
    heard,          \* history: the number of frames begun
    executed,       \* history: per frame, how often it was executed
    answered,       \* history: per frame, how often it was answered
    quiet           \* history: polls since the last byte, up to T35

historyVars == <<heard, executed, answered>>
vars == <<state, rx, size_rcv_prev, tick, registers, tx, heard, executed,
          answered, quiet>>

FrameIds == 1 .. MaxFrames

NoFrame == [to |-> 256, func |-> "NONE", area |-> "NONE", val |-> "NONE",
            id |-> 0, size |-> 0]

\* A frame of another size than FrameSize is damaged: its CRC is wrong.
Requests ==
    [to : Addresses, func : Functions, area : Areas, val : Values,
     id : FrameIds, size : 1 .. FrameSize + 1]

NoAnswer == [kind |-> "NONE", id |-> 0, val |-> "NONE"]

Init ==
    /\ state = "IDLE"
    /\ rx = NoFrame
    /\ size_rcv_prev = 0
    /\ tick = 0
    /\ registers \in [Areas -> Values]
    /\ tx = NoAnswer
    /\ heard = 0
    /\ executed = [r \in FrameIds |-> 0]
    /\ answered = [r \in FrameIds |-> 0]
    /\ quiet = 0

-----------------------------------------------------------------------------
(***************************************************************************)
(* IDLE: poll the receive driver until a frame ends.                       *)
(***************************************************************************)

\* The driver holds what it held before, more of it, or a new frame.
Driver(f) ==
    \/ f = rx /\ UNCHANGED heard
    \/ /\ rx # NoFrame
       /\ f \in {[rx EXCEPT !.size = n] : n \in rx.size + 1 .. FrameSize + 1}
       /\ UNCHANGED heard
    \/ /\ rx = NoFrame
       /\ f \in Requests
       /\ f.id = heard + 1
       /\ heard' = heard + 1

Frames == Requests \cup {NoFrame}

\* What tick holds of n.
Wrapped(n) == n % (UINT16_MAX + 1)

\* Mutant of TickAfter: the tick is not cleared when the frame grows.
TickKept(f) ==
    IF f.size # 0 /\ f.size = size_rcv_prev THEN Wrapped(tick + 1) ELSE tick

\* Mutant of TickAfter: the tick is set, not counted up.
TickCleared(f) == IF f.size = 0 THEN tick ELSE IF f.size = size_rcv_prev THEN 1 ELSE 0

\* An empty driver leaves the tick alone.
TickAfter(f) ==
    IF f.size = 0 THEN tick
    ELSE IF f.size = size_rcv_prev THEN Wrapped(tick + 1) ELSE 0

FrameEnded(f) == f.size # 0 /\ TickAfter(f) >= T35

Poll(f) ==
    /\ state = "IDLE"
    /\ Driver(f)
    /\ size_rcv_prev' = f.size
    /\ quiet' = IF f = rx /\ f # NoFrame THEN Min({quiet + 1, T35}) ELSE 0
    /\ UNCHANGED <<registers, tx, executed, answered>>

Listen(f) ==
    /\ Poll(f)
    /\ ~FrameEnded(f)
    /\ rx' = f
    /\ tick' = TickAfter(f)
    /\ UNCHANGED state

\* Mutant of CheckAddres: every frame is for this slave.
CheckNoAddres(f) == f.to \in Addresses

\* A byte of the buffer is signed, slave_address is not.
CheckAddres(f) == (IF f.to >= 128 THEN f.to - 256 ELSE f.to) = SlaveAddress

\* The driver forgets a frame that is not taken.
SkipFrame(f) ==
    /\ Poll(f)
    /\ FrameEnded(f)
    /\ ~CheckAddres(f)
    /\ rx' = NoFrame
    /\ tick' = 0
    /\ UNCHANGED state

TakeFrame(f) ==
    /\ Poll(f)
    /\ FrameEnded(f)
    /\ CheckAddres(f)
    /\ rx' = f
    /\ tick' = 0
    /\ state' = "CRC"

-----------------------------------------------------------------------------
(***************************************************************************)
(* CRC, PDU: check the frame and execute the request.  IReceiveStop has    *)
(* emptied the driver; rx is now buffer_rx, until the next poll.           *)
(***************************************************************************)
Damaged == rx.size # FrameSize

CrcWrong ==
    /\ state = "CRC"
    /\ Damaged
    /\ state' = "IDLE"
    /\ rx' = NoFrame
    /\ UNCHANGED <<size_rcv_prev, tick, registers, tx, historyVars, quiet>>

CrcRight ==
    /\ state = "CRC"
    /\ ~Damaged
    /\ state' = "PDU"
    /\ UNCHANGED <<rx, size_rcv_prev, tick, registers, tx, historyVars, quiet>>

Exception == [kind |-> "exception", id |-> rx.id, val |-> "NONE"]

Response(v) == [kind |-> "response", id |-> rx.id, val |-> v]

ReadHolding ==
    /\ rx.func = "READ_HOLDING"
    /\ tx' = IF rx.area \in Present THEN Response(registers[rx.area]) ELSE Exception
    /\ UNCHANGED registers

\* Mutant of Write: the answer is built before the write is known to succeed.
WriteAnsweredFirst ==
    /\ rx.func \in Writes
    /\ \E res \in WriteResults :
          LET written == rx.area \in Present /\ res = "OK"
          IN  /\ tx' = IF rx.area \in Present THEN Response(rx.val) ELSE Exception
              /\ registers' = IF written
                              THEN [registers EXCEPT ![rx.area] = rx.val]
                              ELSE registers

Write ==
    /\ rx.func \in Writes
    /\ \E res \in WriteResults :
          LET written == rx.area \in Present /\ res = "OK"
          IN  /\ tx' = IF written THEN Response(rx.val) ELSE Exception
              /\ registers' = IF written
                              THEN [registers EXCEPT ![rx.area] = rx.val]
                              ELSE registers

IllegalFunction ==
    /\ rx.func = "UNSUPPORTED"
    /\ tx' = Exception
    /\ UNCHANGED registers

Execute ==
    /\ state = "PDU"
    /\ ReadHolding \/ Write \/ IllegalFunction
    /\ state' = "WAITOPER"
    /\ executed' = [executed EXCEPT ![rx.id] = @ + 1]
    /\ UNCHANGED <<rx, size_rcv_prev, tick, heard, answered, quiet>>

-----------------------------------------------------------------------------
(***************************************************************************)
(* WAITOPER, WAITDIR: wait, transmit the answer, wait until it has left.   *)
(***************************************************************************)

WaitTick ==
    /\ state = "WAITOPER"
    /\ tick <= ParamWait
    /\ tick' = Wrapped(tick + ControlInterval)
    /\ UNCHANGED <<state, rx, size_rcv_prev, registers, tx, historyVars, quiet>>

\* Mutant of Answer: the time is compared for equality.
AnswerAtEqual ==
    /\ state = "WAITOPER"
    /\ tick = ParamWait
    /\ tick' = 0
    /\ state' = "WAITDIR"
    /\ answered' = [answered EXCEPT ![tx.id] = @ + 1]
    /\ UNCHANGED <<rx, size_rcv_prev, registers, tx, heard, executed, quiet>>

\* What the driver answers to the transmission is not looked at.
Answer ==
    /\ state = "WAITOPER"
    /\ tick > ParamWait
    /\ tick' = 0
    /\ state' = "WAITDIR"
    /\ answered' = [answered EXCEPT ![tx.id] = @ + 1]
    /\ UNCHANGED <<rx, size_rcv_prev, registers, tx, heard, executed, quiet>>

\* Mutant of AnswerLeft: the driver keeps the frame that was answered.
AnswerLeftKeepingFrame ==
    /\ state = "WAITDIR"
    /\ state' = "IDLE"
    /\ UNCHANGED <<rx, size_rcv_prev, tick, registers, tx, historyVars, quiet>>

\* A poll that finds the transmission incomplete changes nothing.
AnswerLeft ==
    /\ state = "WAITDIR"
    /\ state' = "IDLE"
    /\ rx' = NoFrame
    /\ UNCHANGED <<size_rcv_prev, tick, registers, tx, historyVars, quiet>>

Run ==
    \/ \E f \in Frames : Listen(f) \/ SkipFrame(f) \/ TakeFrame(f)
    \/ CrcWrong
    \/ CrcRight
    \/ Execute
    \/ WaitTick
    \/ Answer
    \/ AnswerLeft

Next == Run

Spec == Init /\ [][Next]_vars

\* The main loop calls Run forever, and a transmission completes.
FairSpec == Spec /\ WF_vars(Run)

-----------------------------------------------------------------------------
TypeOK ==
    /\ state \in {"IDLE", "CRC", "PDU", "WAITOPER", "WAITDIR"}
    /\ rx \in Frames
    /\ size_rcv_prev \in 0 .. FrameSize + 1
    /\ tick \in 0 .. Max({T35, ParamWait + ControlInterval})
    /\ registers \in [Areas -> Values]
    /\ tx.id \in 0 .. heard
    /\ heard \in 0 .. MaxFrames
    /\ executed \in [FrameIds -> Nat]
    /\ answered \in [FrameIds -> Nat]
    /\ quiet \in 0 .. T35

(***************************************************************************)
(* A frame is executed at most once, and answered only after it was        *)
(* executed, at most once.                                                 *)
(***************************************************************************)
ExecutedOnce ==
    \A r \in FrameIds : executed[r] <= 1 /\ answered[r] <= executed[r]

(***************************************************************************)
(* Only a complete frame for this slave is executed.                       *)
(***************************************************************************)
OnlyOwnFramesExecuted ==
    [][executed' # executed => rx.to = SlaveAddress /\ rx.size = FrameSize]_vars

\* A frame is thrown away, one that was never heard before included.
Skips == rx' = NoFrame /\ (rx # NoFrame \/ heard' # heard)

(***************************************************************************)
(* A frame ends in silence: no byte came in the last T35 - 1 polls before  *)
(* the slave takes or skips it, however its bytes were spread.  One poll   *)
(* is missing from T35 because size_rcv_prev survives the last frame: a    *)
(* frame of the same size that comes in one piece counts as unchanged.     *)
(***************************************************************************)
FrameEndsInSilence ==
    [][state = "IDLE" /\ (state' = "CRC" \/ Skips) => quiet' + 1 >= T35]_vars

(***************************************************************************)
(* An answer tells the truth when it is transmitted: a response to a write *)
(* or a read carries the value the registers have.  It is a property of    *)
(* the slave alone: an application that writes the registers between the   *)
(* request and the end of the wait makes the answer out of date.           *)
(***************************************************************************)
AnswerMatchesRegisters ==
    [][state = "WAITOPER" /\ state' = "WAITDIR" /\ tx.kind = "response" =>
          tx.val = registers[rx.area]]_vars

(***************************************************************************)
(* The slave does not listen while it hears a frame, works on it, or       *)
(* answers it.  CallsLeft counts the calls of Run until it listens again,  *)
(* a call that finds the answer still being transmitted left out: whatever *)
(* the line brings, they grow fewer, and they never are more than          *)
(* MaxCalls.                                                               *)
(***************************************************************************)
Waits == ParamWait \div ControlInterval + 1

CallsLeft ==
    IF rx = NoFrame THEN 0
    ELSE CASE state = "IDLE" ->
                  (FrameSize + 1 - rx.size) * T35 + (T35 - tick) + Waits + 4
           [] state = "CRC" -> IF Damaged THEN 1 ELSE Waits + 4
           [] state = "PDU" -> Waits + 3
           [] state = "WAITOPER" ->
                  IF tick <= ParamWait THEN (ParamWait - tick) \div ControlInterval + 3 ELSE 2
           [] state = "WAITDIR" -> 1

MaxCalls == (FrameSize + 1) * T35 + Waits + 4

ListensAgain ==
    [][CallsLeft' <= MaxCalls /\ (CallsLeft > 0 => CallsLeft' < CallsLeft)]_vars

(***************************************************************************)
(* Liveness: a frame for this slave that ends complete is answered.        *)
(***************************************************************************)
Taken(r) == state = "CRC" /\ rx.id = r /\ rx.size = FrameSize

EveryFrameAnswered == \A r \in FrameIds : Taken(r) ~> answered[r] = 1
=============================================================================
