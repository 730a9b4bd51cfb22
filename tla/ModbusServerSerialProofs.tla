----------------------- MODULE ModbusServerSerialProofs -----------------------
(***************************************************************************)
(* The serial slave executes only its own complete frames, each at most    *)
(* once, takes a frame only after silence, answers with what its registers *)
(* hold, and listens again MaxCalls calls after the first byte of a frame: *)
(* for every t35 and wait that 16 bits hold, every frame size, and         *)
(* whatever is on the line.                                                *)
(***************************************************************************)
EXTENDS ModbusServerSerial, TLAPS

USE AddressAssumption, RequestAssumption, TimeAssumption

\* A number of 16 bits is not wrapped, and wrapping makes none larger.
LEMMA Width ==
    ASSUME NEW n \in Nat
    PROVE  /\ Wrapped(n) \in Nat /\ Wrapped(n) <= n
           /\ n <= UINT16_MAX => Wrapped(n) = n
BY DEF Wrapped, UINT16_MAX

LEMMA MinOfTwo ==
    ASSUME NEW a \in Int, NEW b \in Int
    PROVE  Min({a, b}) = IF a <= b THEN a ELSE b
<1> DEFINE S == {a, b}
<1>1. \E x \in S : \A y \in S : x <= y
  OBVIOUS
<1>2. Min(S) \in S /\ \A y \in S : Min(S) <= y
  BY <1>1 DEF Min
<1> QED
  BY <1>2

LEMMA MaxOfTwo ==
    ASSUME NEW a \in Int, NEW b \in Int
    PROVE  Max({a, b}) = IF a >= b THEN a ELSE b
<1> DEFINE S == {a, b}
<1>1. \E x \in S : \A y \in S : x >= y
  OBVIOUS
<1>2. Max(S) \in S /\ \A y \in S : Max(S) >= y
  BY <1>1 DEF Max
<1> QED
  BY <1>2

-----------------------------------------------------------------------------
(***************************************************************************)
(* The inductive invariant.  Of a frame: the one the driver or the buffer  *)
(* holds is the last one heard, and what the later states have checked.    *)
(***************************************************************************)
FrameInv ==
    /\ rx # NoFrame => rx.id = heard
    /\ state # "IDLE" => rx # NoFrame /\ rx.to = SlaveAddress
    /\ state \in {"PDU", "WAITOPER", "WAITDIR"} => rx.size = FrameSize

\* Of the counts: nothing is executed before its turn, and the answer that
\* waits is that of the frame just executed.
ExecutionInv ==
    /\ ExecutedOnce
    /\ \A r \in FrameIds :
          r > heard \/ (r = rx.id /\ state \in {"IDLE", "CRC", "PDU"}) => executed[r] = 0
    /\ state = "WAITOPER" =>
          tx.id = rx.id /\ executed[rx.id] = 1 /\ answered[rx.id] = 0

\* Of the time: the tick counts the quiet polls, and at most one more.
SilenceInv ==
    /\ state = "IDLE" => tick <= quiet + 1
    /\ state = "IDLE" /\ rx # NoFrame => size_rcv_prev = rx.size
    /\ rx = NoFrame => tick = 0
    /\ state \in {"CRC", "PDU", "WAITDIR"} => tick = 0

AnswerInv ==
    state = "WAITOPER" /\ tx.kind = "response" => tx.val = registers[rx.area]

IInv == TypeOK /\ FrameInv /\ ExecutionInv /\ SilenceInv /\ AnswerInv

LEMMA NoFrameIsNone == NoFrame \notin Requests /\ NoFrame.id = 0 /\ NoFrame.size = 0
BY DEF NoFrame, Requests

LEMMA RequestFields ==
    ASSUME NEW f \in Requests
    PROVE  /\ f.id \in 1 .. MaxFrames /\ f.to \in Addresses /\ f.area \in Areas
           /\ f.val \in Values /\ f.size \in 1 .. FrameSize + 1
BY DEF Requests, FrameIds

LEMMA InitIInv == Init => IInv
<1> SUFFICES ASSUME Init PROVE IInv
  OBVIOUS
<1>1. Max({T35, ParamWait + ControlInterval}) \in Nat
  BY MaxOfTwo
<1> QED
  BY <1>1, NoFrameIsNone
  DEF Init, IInv, TypeOK, FrameInv, ExecutionInv, ExecutedOnce, SilenceInv,
      AnswerInv, Frames, NoAnswer, FrameIds

LEMMA PolledFrame ==
    ASSUME IInv, NEW f \in Frames, Poll(f)
    PROVE  /\ \/ f = rx /\ heard' = heard
              \/ /\ rx \in Requests /\ f \in Requests /\ f.id = rx.id
                 /\ f.size > rx.size /\ f # rx /\ heard' = heard
              \/ /\ rx = NoFrame /\ f \in Requests
                 /\ f.id = heard + 1 /\ heard' = heard + 1
           /\ heard' \in 0 .. MaxFrames
           /\ f # NoFrame => f \in Requests /\ f.id = heard'
           /\ f.size \in 0 .. FrameSize + 1
<1> USE DEF IInv, TypeOK, FrameInv
<1>1. CASE f = rx /\ UNCHANGED heard
  BY <1>1, NoFrameIsNone, RequestFields DEF Frames
<1>2. CASE /\ rx # NoFrame
           /\ f \in {[rx EXCEPT !.size = n] : n \in rx.size + 1 .. FrameSize + 1}
           /\ UNCHANGED heard
  <2>1. rx \in Requests
    BY <1>2 DEF Frames
  <2>2. PICK n \in rx.size + 1 .. FrameSize + 1 : f = [rx EXCEPT !.size = n]
    BY <1>2
  <2>3. f \in Requests /\ f.id = rx.id /\ f.size = n
    BY <2>1, <2>2, RequestFields DEF Requests
  <2>4. f.size > rx.size
    BY <2>1, <2>3, RequestFields
  <2> QED
    BY <1>2, <2>1, <2>3, <2>4, RequestFields, NoFrameIsNone
<1>3. CASE rx = NoFrame /\ f \in Requests /\ f.id = heard + 1 /\ heard' = heard + 1
  BY <1>3, RequestFields, NoFrameIsNone
<1> QED
  BY <1>1, <1>2, <1>3 DEF Poll, Driver

-----------------------------------------------------------------------------
(***************************************************************************)
(* The actions preserve the inductive invariant.                           *)
(***************************************************************************)

LEMMA TickAfterPoll ==
    ASSUME IInv, NEW f \in Frames, Poll(f)
    PROVE  /\ TickAfter(f) \in Nat
           /\ quiet' \in 0 .. T35
           /\ FrameEnded(f) => quiet' + 1 >= T35
           /\ ~FrameEnded(f) => TickAfter(f) <= quiet' + 1
           /\ ~FrameEnded(f) => TickAfter(f) <= tick \/ TickAfter(f) < T35
           /\ f = NoFrame => TickAfter(f) = 0
<1> USE DEF IInv, TypeOK, TickAfter
<1>1. tick \in Nat /\ Wrapped(tick + 1) \in Nat /\ Wrapped(tick + 1) <= tick + 1
  BY MaxOfTwo, Width
<1>2. quiet' = IF f = rx /\ f # NoFrame
               THEN (IF quiet + 1 <= T35 THEN quiet + 1 ELSE T35) ELSE 0
  BY MinOfTwo DEF Poll
<1>3. f = NoFrame => f = rx /\ TickAfter(f) = 0
  BY PolledFrame, NoFrameIsNone DEF SilenceInv
<1>4. ASSUME f # NoFrame
      PROVE  /\ f.size \in Nat \ {0}
             /\ TickAfter(f) \in Nat
             /\ f = rx => TickAfter(f) <= quiet + 2
             /\ f # rx => TickAfter(f) <= 1
  <2>1. f.size \in Nat \ {0}
    BY <1>4, PolledFrame, RequestFields
  <2>2. CASE f = rx
    BY <1>1, <1>4, <2>1, <2>2 DEF SilenceInv, Poll
  <2>3. CASE f # rx /\ rx = NoFrame
    BY <1>1, <2>1, <2>3 DEF SilenceInv, Poll
  <2>4. CASE f # rx /\ rx # NoFrame
    BY <1>1, <1>4, <2>1, <2>4, PolledFrame, RequestFields DEF SilenceInv, Poll
  <2> QED
    BY <2>1, <2>2, <2>3, <2>4
<1> QED
  BY <1>1, <1>2, <1>3, <1>4, NoFrameIsNone DEF FrameEnded

LEMMA ListenIInv == ASSUME IInv, NEW f \in Frames, Listen(f) PROVE IInv'
<1> USE DEF IInv, Listen
<1>1. Poll(f) /\ state = "IDLE"
  BY DEF Poll
<1>2. UNCHANGED <<state, registers, tx, executed, answered>>
      /\ rx' = f /\ tick' = TickAfter(f) /\ size_rcv_prev' = f.size
  BY DEF Poll
<1>3. /\ heard' \in 0 .. MaxFrames /\ heard <= heard'
      /\ f.size \in 0 .. FrameSize + 1
      /\ f # NoFrame => f.id = heard'
      /\ f = rx \/ f.id = rx.id \/ (f.id = heard + 1 /\ heard' = heard + 1)
  BY <1>1, PolledFrame DEF TypeOK
<1>4. tick' \in 0 .. Max({T35, ParamWait + ControlInterval}) /\ quiet' \in 0 .. T35
  BY <1>1, <1>2, TickAfterPoll, MaxOfTwo DEF TypeOK
<1>5. TypeOK'
  BY <1>2, <1>3, <1>4 DEF TypeOK
<1>6. FrameInv'
  BY <1>1, <1>2, <1>3 DEF FrameInv
<1>7. ExecutionInv'
  BY <1>1, <1>2, <1>3 DEF ExecutionInv, ExecutedOnce, TypeOK, FrameIds
<1>8. SilenceInv'
  BY <1>1, <1>2, TickAfterPoll DEF SilenceInv
<1> QED
  BY <1>1, <1>2, <1>5, <1>6, <1>7, <1>8 DEF AnswerInv

LEMMA SkipFrameIInv == ASSUME IInv, NEW f \in Frames, SkipFrame(f) PROVE IInv'
<1> USE DEF IInv, SkipFrame
<1>1. Poll(f) /\ state = "IDLE"
  BY DEF Poll
<1>2. UNCHANGED <<state, registers, tx, executed, answered>>
      /\ rx' = NoFrame /\ tick' = 0 /\ size_rcv_prev' = f.size
  BY DEF Poll
<1>3. /\ heard' \in 0 .. MaxFrames /\ heard <= heard'
      /\ f.size \in 0 .. FrameSize + 1
  BY <1>1, PolledFrame DEF TypeOK
<1>4. tick' \in 0 .. Max({T35, ParamWait + ControlInterval}) /\ quiet' \in 0 .. T35
  BY <1>1, <1>2, TickAfterPoll, MaxOfTwo DEF TypeOK
<1>5. TypeOK'
  BY <1>2, <1>3, <1>4 DEF TypeOK, Frames
<1>6. FrameInv' /\ AnswerInv'
  BY <1>1, <1>2 DEF FrameInv, AnswerInv
<1>7. ExecutionInv'
  BY <1>1, <1>2, <1>3, NoFrameIsNone DEF ExecutionInv, ExecutedOnce, TypeOK, FrameIds
<1>8. SilenceInv'
  BY <1>2, <1>4 DEF SilenceInv
<1> QED
  BY <1>5, <1>6, <1>7, <1>8

\* A frame taken is for this slave: a signed byte equals an address that is
\* not negative only if it is below 128.
LEMMA TakenForThisSlave ==
    ASSUME NEW f \in Requests, CheckAddres(f)
    PROVE  f.to = SlaveAddress
<1> DEFINE a == f.to
<1>1. a \in 0 .. 255
  BY RequestFields
<1>2. (IF a >= 128 THEN a - 256 ELSE a) = SlaveAddress
  BY DEF CheckAddres
<1> HIDE DEF a
<1>3. a = SlaveAddress
  BY <1>1, <1>2
<1> QED
  BY <1>3 DEF a

LEMMA TakeFrameIInv == ASSUME IInv, NEW f \in Frames, TakeFrame(f) PROVE IInv'
<1> USE DEF IInv, TakeFrame
<1>1. Poll(f) /\ state = "IDLE"
  BY DEF Poll
<1>2. UNCHANGED <<registers, tx, executed, answered>> /\ state' = "CRC"
      /\ rx' = f /\ tick' = 0 /\ size_rcv_prev' = f.size
  BY DEF Poll
<1>3. /\ heard' \in 0 .. MaxFrames /\ heard <= heard'
      /\ f.size \in 0 .. FrameSize + 1
      /\ f # NoFrame => f \in Requests /\ f.id = heard'
      /\ f = rx \/ f.id = rx.id \/ (f.id = heard + 1 /\ heard' = heard + 1)
  BY <1>1, PolledFrame DEF TypeOK
<1>4. tick' \in 0 .. Max({T35, ParamWait + ControlInterval}) /\ quiet' \in 0 .. T35
  BY <1>1, <1>2, TickAfterPoll, MaxOfTwo DEF TypeOK
<1>5. f # NoFrame
  BY NoFrameIsNone DEF FrameEnded
<1>6. TypeOK'
  BY <1>2, <1>3, <1>4 DEF TypeOK
<1>7. FrameInv' /\ AnswerInv'
  BY <1>2, <1>3, <1>5, TakenForThisSlave DEF FrameInv, AnswerInv
<1>8. ExecutionInv'
  BY <1>1, <1>2, <1>3 DEF ExecutionInv, ExecutedOnce, TypeOK, FrameIds
<1>9. SilenceInv'
  BY <1>2, <1>5 DEF SilenceInv
<1> QED
  BY <1>6, <1>7, <1>8, <1>9

LEMMA CrcIInv == ASSUME IInv, CrcWrong \/ CrcRight PROVE IInv'
<1> USE DEF IInv, CrcWrong, CrcRight, historyVars
<1>1. TypeOK'
  BY DEF TypeOK, Frames
<1>2. FrameInv'
  BY DEF FrameInv, Damaged
<1>3. ExecutionInv'
  BY NoFrameIsNone DEF ExecutionInv, ExecutedOnce, TypeOK, FrameIds
<1>4. SilenceInv' /\ AnswerInv'
  BY DEF SilenceInv, AnswerInv, TypeOK
<1> QED
  BY <1>1, <1>2, <1>3, <1>4

LEMMA ExecuteIInv == ASSUME IInv, Execute PROVE IInv'
<1> USE DEF IInv
<1>1. rx \in Requests /\ rx.id = heard /\ rx.id \in FrameIds
      /\ rx.area \in Areas /\ rx.val \in Values
  BY RequestFields DEF Execute, FrameInv, TypeOK, Frames, FrameIds
<1>2. /\ state = "PDU" /\ state' = "WAITOPER"
      /\ executed' = [executed EXCEPT ![rx.id] = @ + 1]
      /\ UNCHANGED <<rx, size_rcv_prev, tick, heard, answered, quiet>>
  BY DEF Execute
<1>3. /\ registers' \in [Areas -> Values]
      /\ tx'.id = rx.id
      /\ tx'.kind = "response" => tx'.val = registers'[rx.area]
  <2>1. CASE ReadHolding
    BY <1>1, <2>1 DEF ReadHolding, Response, Exception, TypeOK
  <2>2. CASE Write
    BY <1>1, <2>2 DEF Write, Response, Exception, TypeOK
  <2>3. CASE IllegalFunction
    BY <1>1, <2>3 DEF IllegalFunction, Exception, TypeOK
  <2> QED
    BY <2>1, <2>2, <2>3 DEF Execute
<1>4. executed' \in [FrameIds -> Nat]
  BY <1>1, <1>2 DEF TypeOK
<1>5. TypeOK'
  BY <1>1, <1>2, <1>3, <1>4 DEF TypeOK
<1>6. FrameInv' /\ SilenceInv' /\ AnswerInv'
  BY <1>2, <1>3 DEF FrameInv, SilenceInv, AnswerInv
<1>7. executed[rx.id] = 0 /\ answered[rx.id] = 0
  BY <1>1, <1>2 DEF ExecutionInv, ExecutedOnce, TypeOK
<1>8. ExecutionInv'
  BY <1>1, <1>2, <1>3, <1>7 DEF ExecutionInv, ExecutedOnce, TypeOK
<1> QED
  BY <1>5, <1>6, <1>8

LEMMA WaitTickIInv == ASSUME IInv, WaitTick PROVE IInv'
<1> USE DEF IInv, WaitTick, historyVars
<1>1. TypeOK'
  <2>1. tick \in Nat /\ tick <= ParamWait
    BY MaxOfTwo DEF TypeOK
  <2>2. PICK t \in Nat : tick' = t /\ t <= tick + ControlInterval
    BY <2>1, Width
  <2>3. t \in 0 .. Max({T35, ParamWait + ControlInterval})
    BY <2>1, <2>2, MaxOfTwo
  <2> QED
    BY <2>2, <2>3 DEF TypeOK
<1>2. FrameInv' /\ AnswerInv'
  BY DEF FrameInv, AnswerInv
<1>3. ExecutionInv'
  BY DEF ExecutionInv, ExecutedOnce
<1>4. SilenceInv'
  BY DEF SilenceInv, FrameInv
<1> QED
  BY <1>1, <1>2, <1>3, <1>4

LEMMA AnswerIInv == ASSUME IInv, Answer PROVE IInv'
<1> USE DEF IInv, Answer
<1>1. tx.id = rx.id /\ rx.id \in FrameIds
  BY RequestFields DEF ExecutionInv, FrameInv, TypeOK, Frames, FrameIds
<1>2. TypeOK'
  BY <1>1, MaxOfTwo DEF TypeOK
<1>3. FrameInv' /\ SilenceInv' /\ AnswerInv'
  BY DEF FrameInv, SilenceInv, AnswerInv
<1>4. ExecutionInv'
  BY <1>1 DEF ExecutionInv, ExecutedOnce, TypeOK
<1> QED
  BY <1>2, <1>3, <1>4

LEMMA AnswerLeftIInv == ASSUME IInv, AnswerLeft PROVE IInv'
<1> USE DEF IInv, AnswerLeft, historyVars
<1>1. TypeOK'
  BY DEF TypeOK, Frames
<1>2. FrameInv' /\ SilenceInv' /\ AnswerInv'
  BY DEF FrameInv, SilenceInv, AnswerInv, TypeOK
<1>3. ExecutionInv'
  BY NoFrameIsNone DEF ExecutionInv, ExecutedOnce, TypeOK, FrameIds
<1> QED
  BY <1>1, <1>2, <1>3

LEMMA NextIInv == ASSUME IInv, [Next]_vars PROVE IInv'
<1>1. CASE UNCHANGED vars
  BY <1>1 DEF vars, IInv, TypeOK, FrameInv, ExecutionInv, ExecutedOnce, SilenceInv,
              AnswerInv
<1>2. CASE Next
  BY <1>2, ListenIInv, SkipFrameIInv, TakeFrameIInv, CrcIInv, ExecuteIInv,
     WaitTickIInv, AnswerIInv, AnswerLeftIInv
  DEF Next, Run
<1> QED
  BY <1>1, <1>2

LEMMA Invariance == Spec => []IInv
BY InitIInv, NextIInv, PTL DEF Spec

-----------------------------------------------------------------------------

(***************************************************************************)
(* Whatever is on the line, every variable of the slave keeps its type:    *)
(* the tick in particular never outgrows t35 or the wait before an answer. *)
(***************************************************************************)
THEOREM TypeCorrect == Spec => []TypeOK
<1>1. IInv => TypeOK
  BY DEF IInv
<1> QED
  BY <1>1, Invariance, PTL

(***************************************************************************)
(* No frame is executed twice, and none is answered that was not executed. *)
(***************************************************************************)
THEOREM FramesExecutedOnce == Spec => []ExecutedOnce
<1>1. IInv => ExecutedOnce
  BY DEF IInv, ExecutionInv
<1> QED
  BY <1>1, Invariance, PTL

(***************************************************************************)
(* Only complete frames for this slave are executed: the signed comparison *)
(* of the address lets no other frame through.                             *)
(***************************************************************************)
THEOREM OwnFramesExecuted == Spec => OnlyOwnFramesExecuted
<1>1. IInv /\ [Next]_vars => [executed' # executed =>
                                 rx.to = SlaveAddress /\ rx.size = FrameSize]_vars
  <2> SUFFICES ASSUME IInv, Next, executed' # executed
               PROVE  rx.to = SlaveAddress /\ rx.size = FrameSize
    BY DEF vars
  <2>1. state = "PDU"
    BY DEF Next, Run, Listen, SkipFrame, TakeFrame, Poll, CrcWrong, CrcRight, Execute,
           WaitTick, Answer, AnswerLeft, historyVars
  <2> QED
    BY <2>1 DEF IInv, FrameInv
<1> QED
  BY <1>1, Invariance, PTL DEF Spec, OnlyOwnFramesExecuted

(***************************************************************************)
(* A frame is taken or skipped only after T35 - 1 polls without a byte,    *)
(* also when the size of the frame before was left in size_rcv_prev.       *)
(***************************************************************************)
THEOREM FramesEndInSilence == Spec => FrameEndsInSilence
<1>1. IInv /\ [Next]_vars => [state = "IDLE" /\ (state' = "CRC" \/ Skips) =>
                                 quiet' + 1 >= T35]_vars
  <2> SUFFICES ASSUME IInv, Next, state = "IDLE", state' = "CRC" \/ Skips
               PROVE  quiet' + 1 >= T35
    BY DEF vars, Skips
  <2>1. PICK f \in Frames : Listen(f) \/ SkipFrame(f) \/ TakeFrame(f)
    BY DEF Next, Run, CrcWrong, CrcRight, Execute, WaitTick, Answer, AnswerLeft
  <2>2. ~Listen(f)
    <3> SUFFICES ASSUME Listen(f) PROVE FALSE
      OBVIOUS
    <3>1. Poll(f) /\ rx' = f /\ state' = state
      BY DEF Listen
    <3>2. rx' = NoFrame /\ (rx # NoFrame \/ heard' # heard)
      BY <3>1 DEF Skips
    <3> QED
      BY <3>1, <3>2, PolledFrame, NoFrameIsNone
  <2> QED
    BY <2>1, <2>2, TickAfterPoll DEF SkipFrame, TakeFrame
<1> QED
  BY <1>1, Invariance, PTL DEF Spec, FrameEndsInSilence

(***************************************************************************)
(* A response that is transmitted carries what the registers hold then, if *)
(* the application does not write them during the wait (Next is Run only). *)
(***************************************************************************)
THEOREM AnswersMatchRegisters == Spec => AnswerMatchesRegisters
<1>1. IInv /\ [Next]_vars =>
        [state = "WAITOPER" /\ state' = "WAITDIR" /\ tx.kind = "response" =>
            tx.val = registers[rx.area]]_vars
  BY DEF IInv, AnswerInv
<1> QED
  BY <1>1, Invariance, PTL DEF Spec, AnswerMatchesRegisters
-----------------------------------------------------------------------------
(***************************************************************************)
(* Time.  A frame that is still heard has not been quiet for T35 polls.    *)
(***************************************************************************)
GoesOn == state = "IDLE" /\ rx # NoFrame => tick < T35

\* For the provers: a division of natural numbers, and a product.
LEMMA Division ==
    ASSUME NEW x \in Int, NEW c \in Nat \ {0}
    PROVE  /\ x \div c \in Int
           /\ x >= 0 => x \div c >= 0
           /\ (x - c) \div c = x \div c - 1
OBVIOUS

LEMMA Product ==
    ASSUME NEW a \in Nat, NEW b \in Nat, NEW t \in Nat, a <= b
    PROVE  a * t \in Nat /\ a * t <= b * t /\ (a + 1) * t = a * t + t
<1>1. b = a + (b - a) /\ b - a \in Nat
  OBVIOUS
<1>2. \A d \in Nat : (a + d) * t = a * t + d * t /\ d * t \in Nat
  OBVIOUS
<1> QED
  BY <1>1, <1>2

LEMMA TimeTypes ==
    /\ Waits \in Nat /\ Waits >= 1
    /\ FrameSize * T35 \in Nat /\ MaxCalls \in Nat
    /\ MaxCalls = FrameSize * T35 + T35 + Waits + 4
<1>1. Waits \in Nat /\ Waits >= 1
  <2>1. ParamWait \div ControlInterval \in Int /\ ParamWait \div ControlInterval >= 0
    BY Division
  <2> DEFINE q == ParamWait \div ControlInterval
  <2>2. q \in Nat /\ Waits = q + 1
    BY <2>1 DEF Waits
  <2> HIDE DEF q
  <2> QED
    BY <2>2
<1>2. FrameSize * T35 \in Nat /\ (FrameSize + 1) * T35 = FrameSize * T35 + T35
  BY Product
<1> QED
  BY <1>1, <1>2 DEF MaxCalls

\* The calls left, after a step.
LEMMA CallsLeftNext ==
    /\ rx' = NoFrame => CallsLeft' = 0
    /\ rx' # NoFrame /\ state' = "IDLE" =>
          CallsLeft' = (FrameSize + 1 - rx'.size) * T35 + (T35 - tick') + Waits + 4
    /\ rx' # NoFrame /\ state' = "CRC" =>
          CallsLeft' = IF rx'.size # FrameSize THEN 1 ELSE Waits + 4
    /\ rx' # NoFrame /\ state' = "PDU" => CallsLeft' = Waits + 3
    /\ rx' # NoFrame /\ state' = "WAITOPER" =>
          CallsLeft' = IF tick' <= ParamWait THEN (ParamWait - tick') \div ControlInterval + 3
                       ELSE 2
    /\ rx' # NoFrame /\ state' = "WAITDIR" => CallsLeft' = 1
BY Zenon DEF CallsLeft, Damaged, Waits

LEMMA CallsLeftNow ==
    /\ rx = NoFrame => CallsLeft = 0
    /\ rx # NoFrame /\ state = "IDLE" =>
          CallsLeft = (FrameSize + 1 - rx.size) * T35 + (T35 - tick) + Waits + 4
    /\ rx # NoFrame /\ state = "CRC" =>
          CallsLeft = IF rx.size # FrameSize THEN 1 ELSE Waits + 4
    /\ rx # NoFrame /\ state = "PDU" => CallsLeft = Waits + 3
    /\ rx # NoFrame /\ state = "WAITOPER" =>
          CallsLeft = IF tick <= ParamWait THEN (ParamWait - tick) \div ControlInterval + 3
                      ELSE 2
    /\ rx # NoFrame /\ state = "WAITDIR" => CallsLeft = 1
BY Zenon DEF CallsLeft, Damaged

\* The product of the bytes that may still come with T35.
LEMMA BytesToCome ==
    ASSUME NEW n \in 1 .. FrameSize + 1, NEW s \in 1 .. FrameSize + 1
    PROVE  /\ (FrameSize + 1 - n) * T35 \in Nat
           /\ (FrameSize + 1 - n) * T35 <= FrameSize * T35
           /\ n > s => (FrameSize + 1 - n) * T35 + T35 <= (FrameSize + 1 - s) * T35
<1> DEFINE a == FrameSize + 1 - n
           b == FrameSize + 1 - s
<1>1. a \in Nat /\ b \in Nat /\ a <= FrameSize /\ (n > s => a + 1 <= b)
  OBVIOUS
<1> HIDE DEF a, b
<1>2. a * T35 \in Nat /\ a * T35 <= FrameSize * T35
  BY <1>1, Product
<1>3. n > s => a * T35 + T35 <= b * T35
  <2>1. (a + 1) * T35 = a * T35 + T35
    BY <1>1, Product
  <2>2. n > s => (a + 1) * T35 <= b * T35
    BY <1>1, Product
  <2> QED
    BY <2>1, <2>2
<1> QED
  BY <1>2, <1>3 DEF a, b

LEMMA TickIsNatural == ASSUME IInv PROVE tick \in Nat
BY MaxOfTwo DEF IInv, TypeOK

\* While a frame is heard, at least the wait is still to come.
LEMMA HeardCalls ==
    ASSUME IInv, GoesOn, state = "IDLE", rx # NoFrame
    PROVE  \E p \in Nat : /\ p = (FrameSize + 1 - rx.size) * T35
                          /\ CallsLeft = p + (T35 - tick) + Waits + 4
                          /\ T35 - tick >= 1 /\ tick \in Nat
                          /\ rx.size \in 1 .. FrameSize + 1
<1>1. rx.size \in 1 .. FrameSize + 1
  BY RequestFields DEF IInv, TypeOK, Frames
<1>2. (FrameSize + 1 - rx.size) * T35 \in Nat
  BY <1>1, BytesToCome
<1>3. tick \in Nat /\ tick < T35
  BY TickIsNatural DEF GoesOn
<1> QED
  BY <1>1, <1>2, <1>3, CallsLeftNow

LEMMA ListenCalls ==
    ASSUME IInv, GoesOn, NEW f \in Frames, Listen(f)
    PROVE  /\ GoesOn' /\ CallsLeft' <= MaxCalls
           /\ CallsLeft > 0 => CallsLeft' < CallsLeft
<1>1. /\ Poll(f) /\ rx' = f /\ tick' = TickAfter(f) /\ state = "IDLE" /\ state' = "IDLE"
      /\ ~FrameEnded(f)
  BY DEF Listen, Poll
<1>2. CASE f = NoFrame
  <2>1. CallsLeft' = 0 /\ rx = NoFrame
    BY <1>1, <1>2, CallsLeftNext, PolledFrame, NoFrameIsNone
  <2>2. CallsLeft = 0
    BY <2>1, CallsLeftNow
  <2> QED
    BY <1>1, <1>2, <2>1, <2>2, TimeTypes DEF GoesOn
<1>3. CASE f # NoFrame
  <2>1. f \in Requests /\ f.size \in 1 .. FrameSize + 1
    BY <1>1, <1>3, PolledFrame, RequestFields
  <2>2. PICK t \in Nat : tick' = t /\ TickAfter(f) = t /\ t < T35
    BY <1>1, <2>1, TickAfterPoll DEF FrameEnded
  <2> DEFINE q == (FrameSize + 1 - f.size) * T35
  <2>3. q \in Nat /\ q <= FrameSize * T35 /\ CallsLeft' = q + (T35 - t) + Waits + 4
    BY <1>1, <1>3, <2>1, <2>2, BytesToCome, CallsLeftNext
  <2>4. GoesOn'
    BY <2>2 DEF GoesOn
  <2>5. CASE rx = NoFrame
    <3>1. CallsLeft = 0
      BY <2>5, CallsLeftNow
    <3> HIDE DEF q
    <3> QED
      BY <2>2, <2>3, <2>4, <3>1, TimeTypes
  <2>6. CASE rx # NoFrame
    <3>1. PICK p \in Nat : /\ p = (FrameSize + 1 - rx.size) * T35
                           /\ CallsLeft = p + (T35 - tick) + Waits + 4
                           /\ T35 - tick >= 1 /\ tick \in Nat
                           /\ rx.size \in 1 .. FrameSize + 1
      BY <1>1, <2>6, HeardCalls
    <3>2. CASE f = rx
      <4>1. t = tick + 1
        <5>1. t = Wrapped(tick + 1)
          BY <1>1, <2>1, <2>2, <2>6, <3>1, <3>2 DEF TickAfter, IInv, SilenceInv
        <5>2. tick + 1 <= UINT16_MAX
          BY <3>1, WidthAssumption DEF UINT16_MAX
        <5> QED
          BY <3>1, <5>1, <5>2, Width
      <4>2. q = p
        BY <3>1, <3>2
      <4> HIDE DEF q
      <4> QED
        BY <2>2, <2>3, <2>4, <3>1, <4>1, <4>2, TimeTypes
    <3>3. CASE f # rx
      <4>1. f.size > rx.size
        BY <1>1, <2>6, <3>3, PolledFrame
      <4>2. q + T35 <= p
        BY <2>1, <3>1, <4>1, BytesToCome
      <4>3. t = 0
        BY <1>1, <2>1, <2>2, <2>6, <3>1, <4>1 DEF TickAfter, IInv, SilenceInv
      <4> HIDE DEF q
      <4> QED
        BY <2>2, <2>3, <2>4, <3>1, <4>2, <4>3, TimeTypes
    <3> QED
      BY <3>2, <3>3
  <2> QED
    BY <2>5, <2>6
<1> QED
  BY <1>2, <1>3

LEMMA FrameEndCalls ==
    ASSUME IInv, IInv', GoesOn, NEW f \in Frames, SkipFrame(f) \/ TakeFrame(f)
    PROVE  /\ GoesOn' /\ CallsLeft' <= MaxCalls
           /\ CallsLeft > 0 => CallsLeft' < CallsLeft
<1>1. CASE SkipFrame(f)
  <2>1. rx' = NoFrame
    BY <1>1 DEF SkipFrame
  <2>2. CallsLeft' = 0
    BY <2>1, CallsLeftNext
  <2>3. CallsLeft > 0 => 0 < CallsLeft
    OBVIOUS
  <2> QED
    BY <2>1, <2>2, <2>3, TimeTypes DEF GoesOn
<1>2. CASE TakeFrame(f)
  <2>1. state = "IDLE" /\ state' = "CRC" /\ rx' # NoFrame
    BY <1>2 DEF TakeFrame, Poll, IInv, FrameInv
  <2>2. PICK n \in Nat : CallsLeft' = n /\ n <= Waits + 4
    BY <2>1, CallsLeftNext, TimeTypes
  <2>3. CallsLeft > 0 => n < CallsLeft
    <3>1. CASE rx = NoFrame
      BY <3>1, CallsLeftNow
    <3>2. CASE rx # NoFrame
      <4>1. PICK p \in Nat : /\ CallsLeft = p + (T35 - tick) + Waits + 4
                             /\ T35 - tick >= 1 /\ tick \in Nat
        BY <2>1, <3>2, HeardCalls
      <4> QED
        BY <2>2, <4>1, TimeTypes
    <3> QED
      BY <3>1, <3>2
  <2> QED
    BY <2>1, <2>2, <2>3, TimeTypes DEF GoesOn
<1> QED
  BY <1>1, <1>2

LEMMA DivisionMonotone ==
    ASSUME NEW a \in Nat, NEW b \in Nat, NEW c \in Nat \ {0}, a <= b
    PROVE  a \div c <= b \div c
OBVIOUS

LEMMA WorkCalls ==
    ASSUME IInv, IInv', CrcWrong \/ CrcRight \/ Execute \/ WaitTick \/ Answer \/ AnswerLeft
    PROVE  /\ GoesOn' /\ CallsLeft' <= MaxCalls
           /\ CallsLeft > 0 => CallsLeft' < CallsLeft
<1>1. /\ state # "IDLE" => rx # NoFrame
      /\ state' # "IDLE" => rx' # NoFrame
      /\ tick \in Nat
      /\ state \in {"CRC", "PDU", "WAITDIR"} => tick = 0
  BY TickIsNatural DEF IInv, FrameInv, SilenceInv
<1>2. CASE CrcWrong \/ AnswerLeft
  <2>1. rx' = NoFrame
    BY <1>2 DEF CrcWrong, AnswerLeft
  <2>2. CallsLeft' = 0
    BY <2>1, CallsLeftNext
  <2>3. CallsLeft > 0 => 0 < CallsLeft
    OBVIOUS
  <2> QED
    BY <2>1, <2>2, <2>3, TimeTypes DEF GoesOn
<1>3. CASE CrcRight
  <2>1. state = "CRC" /\ state' = "PDU" /\ rx.size = FrameSize
    BY <1>3 DEF CrcRight, Damaged
  <2>2. CallsLeft = Waits + 4 /\ CallsLeft' = Waits + 3
    BY <1>1, <2>1, CallsLeftNow, CallsLeftNext
  <2> QED
    BY <2>1, <2>2, TimeTypes DEF GoesOn
<1>4. CASE Execute
  <2>1. state = "PDU" /\ state' = "WAITOPER" /\ tick' = 0
    BY <1>1, <1>4 DEF Execute
  <2> DEFINE q == ParamWait \div ControlInterval
  <2>2. CallsLeft' = (ParamWait - 0) \div ControlInterval + 3
    BY <1>1, <2>1, CallsLeftNext
  <2>3. CallsLeft' = q + 3 /\ Waits = q + 1 /\ q \in Int
    BY <2>2, Division DEF Waits
  <2>4. CallsLeft = Waits + 3
    BY <1>1, <2>1, CallsLeftNow
  <2> HIDE DEF q
  <2> QED
    BY <2>1, <2>3, <2>4, TimeTypes DEF GoesOn
<1>5. CASE WaitTick
  <2>1. state = "WAITOPER" /\ state' = "WAITOPER" /\ tick <= ParamWait
        /\ tick' = tick + ControlInterval
    <3>1. state = "WAITOPER" /\ state' = "WAITOPER" /\ tick <= ParamWait
          /\ tick' = Wrapped(tick + ControlInterval)
      BY <1>5 DEF WaitTick
    <3>2. tick + ControlInterval \in Nat /\ tick + ControlInterval <= UINT16_MAX
      BY <1>1, <3>1, WidthAssumption DEF UINT16_MAX
    <3> QED
      BY <3>1, <3>2, Width
  <2> DEFINE x == ParamWait - tick
             d == x \div ControlInterval
             w == ParamWait \div ControlInterval
  <2>2. x \in Nat /\ ParamWait - (tick + ControlInterval) = x - ControlInterval
    BY <1>1, <2>1
  <2>3. CallsLeft = d + 3
    BY <1>1, <2>1, CallsLeftNow
  <2>4. CallsLeft' = IF tick + ControlInterval <= ParamWait
                     THEN (x - ControlInterval) \div ControlInterval + 3 ELSE 2
    BY <1>1, <2>1, <2>2, CallsLeftNext
  <2>5. x \in Nat /\ x <= ParamWait /\ ControlInterval \in Nat \ {0} /\ ParamWait \in Nat
    BY <1>1, <2>1, TimeTypes
  <2> HIDE DEF x
  <2>6. d \in Int /\ d >= 0 /\ (x - ControlInterval) \div ControlInterval = d - 1
    <3>1. x \in Int /\ x >= 0 /\ ControlInterval \in Nat \ {0}
      BY <2>5
    <3> QED
      BY <3>1, Division
  <2>7. d <= w /\ w \in Int
    BY <2>5, Division, DivisionMonotone
  <2>8. Waits = w + 1
    BY DEF Waits
  <2> HIDE DEF d, w
  <2> QED
    BY <2>1, <2>3, <2>4, <2>6, <2>7, <2>8, TimeTypes DEF GoesOn
<1>6. CASE Answer
  <2>1. state = "WAITOPER" /\ state' = "WAITDIR" /\ tick > ParamWait
    BY <1>6 DEF Answer
  <2>2. CallsLeft = 2 /\ CallsLeft' = 1
    BY <1>1, <2>1, CallsLeftNow, CallsLeftNext
  <2> QED
    BY <2>1, <2>2, TimeTypes DEF GoesOn
<1> QED
  BY <1>2, <1>3, <1>4, <1>5, <1>6

(***************************************************************************)
(* ListensAgain: whatever comes over the line, every call of Run takes the *)
(* slave nearer to listening again, which it does MaxCalls calls after the *)
(* first byte at the latest.  That tick has 16 bits matters:               *)
(* WidthAssumption keeps t35 and the wait within them.                     *)
(***************************************************************************)
THEOREM SlaveListensAgain == Spec => ListensAgain
<1> DEFINE Fewer == CallsLeft' <= MaxCalls /\ (CallsLeft > 0 => CallsLeft' < CallsLeft)
<1>1. IInv /\ IInv' /\ GoesOn /\ Next => GoesOn' /\ Fewer
  BY ListenCalls, FrameEndCalls, WorkCalls DEF Next, Run
<1>2. Init => GoesOn
  BY DEF Init, GoesOn
<1>3. GoesOn /\ UNCHANGED vars => GoesOn'
  BY DEF GoesOn, vars
<1>4. IInv /\ IInv' /\ GoesOn /\ [Next]_vars => GoesOn' /\ [Fewer]_vars
  BY <1>1, <1>3
<1> HIDE DEF Fewer
<1>5. Spec => [][Fewer]_vars
  BY <1>2, <1>4, Invariance, PTL DEF Spec
<1> QED
  BY <1>5 DEF ListensAgain, Fewer

===============================================================================
