---------------------------- MODULE SerialLinkProofs ----------------------------
(***************************************************************************)
(* A master and a slave of this library on one line: each of them behaves  *)
(* as its own module says, so whatever is proved of it holds on the line;  *)
(* a request is executed no more often than it was transmitted; and if the *)
(* master waits longer than the slave takes, in calls of Run, an answer    *)
(* reaches its own request and an answered write was executed.             *)
(***************************************************************************)
EXTENDS SerialLink, FiniteSetTheorems, TLAPS

\* The results about the master and about the slave, for those on the line.
MasterProofs == INSTANCE ModbusClientSerialProofs
    WITH Functions <- {"WRITE_SINGLE"}, ReplyKinds <- {"response", "exception"},
         Noise <- FALSE, LateAnswers <- TRUE, TransmitFails <- FALSE,
         ManyRegisters <- {}, LogLen <- 0, CountLimit <- 1, StrayIndexes <- {},
         MaxLogUses <- 0

SlaveProofs == INSTANCE ModbusServerSerialProofs
    WITH Functions <- {"WRITE_SINGLE"}, Areas <- {"area"}, Present <- {"area"},
         Values <- Requests \cup {0}, T35 <- SlaveT35,
         MaxFrames <- MaxAdds * (ParamRetry + 1),
         state <- s_state, rx <- s_rx, size_rcv_prev <- s_size_rcv_prev,
         tick <- s_tick, registers <- s_registers, tx <- s_tx,
         heard <- s_heard, executed <- s_executed, answered <- s_answered,
         quiet <- s_quiet

-----------------------------------------------------------------------------
(***************************************************************************)
(* The constants on the line are what the two modules assume of theirs.    *)
(***************************************************************************)
LEMMA MasterConstants ==
    /\ MasterProofs!LengthAssumption /\ MasterProofs!TimeAssumption
    /\ MasterProofs!ApplicationAssumption /\ MasterProofs!LogAssumption
    /\ MasterProofs!LineAssumption
<1>1. MasterProofs!LengthAssumption
  BY Zenon, ApplicationAssumption DEF MasterProofs!LengthAssumption
<1>2. MasterProofs!TimeAssumption
  <2>1. MasterProofs!UINT16_MAX = UINT16_MAX
    BY DEF MasterProofs!UINT16_MAX, UINT16_MAX
  <2> QED
    BY Zenon, <2>1, MasterTimeAssumption DEF MasterProofs!TimeAssumption
<1>3. MasterProofs!ApplicationAssumption
  <2>1. /\ 0 \in Nat /\ {"WRITE_SINGLE"} \subseteq MasterProofs!Supported
        /\ {} \subseteq {"WRITE_SINGLE"}
    BY DEF MasterProofs!Supported
  <2> QED
    BY Zenon, <2>1, ApplicationAssumption DEF MasterProofs!ApplicationAssumption
<1>4. MasterProofs!LogAssumption
  BY DEF MasterProofs!LogAssumption, MasterProofs!INT16_MAX
<1>5. MasterProofs!LineAssumption
  <2>1. {FALSE, TRUE, FALSE} \subseteq BOOLEAN
    BY Zenon
  <2> QED
    BY Zenon, <2>1, FrameAssumption DEF MasterProofs!LineAssumption
<1> QED
  BY <1>1, <1>2, <1>3, <1>4, <1>5

LEMMA BoundTypes == MaxAdds \in Nat /\ ParamRetry \in Nat
<1>1. ParamRetry \in Nat
  <2>1. UINT16_MAX \in Nat
    BY DEF UINT16_MAX
  <2> QED
    BY <2>1, MasterTimeAssumption
<1> QED
  BY <1>1, ApplicationAssumption

LEMMA SlaveConstants ==
    /\ SlaveProofs!AddressAssumption /\ SlaveProofs!RequestAssumption
    /\ SlaveProofs!TimeAssumption /\ SlaveProofs!WidthAssumption
<1>1. MaxAdds * (ParamRetry + 1) \in Nat
  BY BoundTypes
<1>2. SlaveProofs!AddressAssumption
  BY Zenon, ApplicationAssumption, SlaveAssumption DEF SlaveProofs!AddressAssumption
<1>3. SlaveProofs!RequestAssumption
  BY Zenon, SlaveAssumption DEF SlaveProofs!RequestAssumption, SlaveProofs!Writes
<1>4. SlaveProofs!TimeAssumption
  BY Zenon, <1>1, FrameAssumption, SlaveAssumption DEF SlaveProofs!TimeAssumption
<1>5. SlaveProofs!WidthAssumption
  BY SlaveWidthAssumption DEF SlaveProofs!WidthAssumption, SlaveProofs!UINT16_MAX, UINT16_MAX
<1> QED
  BY <1>2, <1>3, <1>4, <1>5

-----------------------------------------------------------------------------
(***************************************************************************)
(* Each of the two programs takes the steps of its own module.             *)
(***************************************************************************)
LEMMA MasterSteps ==
    /\ Init => Master!Init
    /\ [Next]_vars => [Master!Next]_masterVars
<1>1. MasterRun => Master!Next
  BY DEF MasterRun, Master!Next
<1>2. SlaveRun => UNCHANGED masterVars
  BY DEF SlaveRun
<1>3. Add => Master!Next
  <2>1. \A a : Master!RequestAdd(a, "WRITE_SINGLE") /\ a \in Addresses => Master!Application
    BY DEF Master!Application
  <2>2. Master!RequestAddFails => Master!Application
    BY DEF Master!Application
  <2> QED
    BY <2>1, <2>2 DEF Add, Master!Next
<1>4. Attach => Master!Next
  BY DEF Attach, Master!Next, Master!Application
<1>5. UNCHANGED vars => UNCHANGED masterVars
  BY DEF vars
<1> QED
  BY <1>1, <1>2, <1>3, <1>4, <1>5 DEF Init, Next

LEMMA SlaveSteps ==
    /\ Init => Slave!Init
    /\ [Next]_vars => [Slave!Next]_slaveVars
<1>1. SlaveRun => Slave!Next
  BY DEF SlaveRun, Slave!Next
<1>2. MasterRun \/ Add \/ Attach => UNCHANGED slaveVars
  BY DEF MasterRun, Add, Attach
<1>3. UNCHANGED vars => UNCHANGED slaveVars
  BY DEF vars
<1> QED
  BY <1>1, <1>2, <1>3 DEF Init, Next

(***************************************************************************)
(* The line adds no behaviour to its two ends: the master on it implements *)
(* the master that may hear anything, and the slave the slave that may     *)
(* hear anything.  Every property proved of one of them alone therefore    *)
(* holds on the line.                                                      *)
(***************************************************************************)
THEOREM EndsBehaveAlone == Spec => Master!Spec /\ Slave!Spec
<1>1. [Next]_vars => [Master!Next]_(Master!vars)
  BY Zenon, MasterSteps DEF masterVars, Master!vars
<1>2. [Next]_vars => [Slave!Next]_(Slave!vars)
  BY Zenon, SlaveSteps DEF slaveVars, Slave!vars
<1>3. Init => Master!Init /\ Slave!Init
  BY DEF Init
<1> QED
  BY <1>1, <1>2, <1>3, PTL DEF Spec, Master!Spec, Slave!Spec

-----------------------------------------------------------------------------
(***************************************************************************)
(* The module of the master and the module of its proofs say the same of   *)
(* it, and so do the two of the slave.                                     *)
(***************************************************************************)
LEMMA SameMaster == Master!Spec => MasterProofs!Spec
<1> USE DEF Master!Serving, MasterProofs!Serving, Master!Requests,
            MasterProofs!Requests, Master!NoAddress, MasterProofs!NoAddress,
            Master!Bodies, MasterProofs!Bodies, Master!NoBody, MasterProofs!NoBody,
            Master!LogKeys, MasterProofs!LogKeys, Master!LogKey, MasterProofs!LogKey,
            Master!NoFrame, MasterProofs!NoFrame, Master!Supported,
            MasterProofs!Supported, Master!Broadcast, MasterProofs!Broadcast,
            Master!queueVars, MasterProofs!queueVars, Master!lineVars,
            MasterProofs!lineVars, Master!logVars, MasterProofs!logVars,
            Master!Queue!NullRequest, MasterProofs!Queue!NullRequest,
            Master!Queue!NewRequest, MasterProofs!Queue!NewRequest,
            Master!Queue!Reclaim, MasterProofs!Queue!Reclaim, Master!Queue!Accept,
            MasterProofs!Queue!Accept, Master!Queue!RefuseFull,
            MasterProofs!Queue!RefuseFull, Master!Queue!Fetch, MasterProofs!Queue!Fetch,
            Master!Queue!AttachCallback, MasterProofs!Queue!AttachCallback,
            Master!Queue!Init, MasterProofs!Queue!Init, Master!Log!setLogFile,
            MasterProofs!Log!setLogFile, Master!Log!setMCLActivation,
            MasterProofs!Log!setMCLActivation, Master!Log!clearMCL,
            MasterProofs!Log!clearMCL, Master!Log!addMCL, MasterProofs!Log!addMCL,
            Master!Log!isCurrentLogExist, MasterProofs!Log!isCurrentLogExist,
            Master!Log!Equals, MasterProofs!Log!Equals,
            Master!Log!NewEntry, MasterProofs!Log!NewEntry, Master!Log!CountAt,
            MasterProofs!Log!CountAt, Master!Log!Incremented,
            MasterProofs!Log!Incremented, Master!Log!Logged, MasterProofs!Log!Logged,
            Master!Log!Indexes, MasterProofs!Log!Indexes, Master!Log!Array,
            MasterProofs!Log!Array, Master!Log!Cleared, MasterProofs!Log!Cleared,
            Master!Log!LogInit, MasterProofs!Log!LogInit, Master!Log!Cardinality,
            MasterProofs!Log!Cardinality, Master!Log!IsFiniteSet,
            MasterProofs!Log!IsFiniteSet, Master!Log!Min, MasterProofs!Log!Min,
            Master!Take, MasterProofs!Take, Master!BeginRequest,
            MasterProofs!BeginRequest, Master!OnTheLine, MasterProofs!OnTheLine,
            Master!Driver, MasterProofs!Driver, Master!Frames, MasterProofs!Frames,
            Master!Heard, MasterProofs!Heard, Master!Unchanged, MasterProofs!Unchanged,
            Master!Poll, MasterProofs!Poll, Master!RetriesUsedUp,
            MasterProofs!RetriesUsedUp, Master!Intact, MasterProofs!Intact,
            Master!Failed, MasterProofs!Failed, Master!LogFailure,
            MasterProofs!LogFailure, Master!Min, MasterProofs!Min, Master!EmptyBag,
            MasterProofs!EmptyBag, Master!SetToBag, MasterProofs!SetToBag,
            Master!BagToSet, MasterProofs!BagToSet, Master!(+), MasterProofs!(+),
            Master!(-), MasterProofs!(-)
<1>1. Master!Init => MasterProofs!Init
  BY Zenon DEF Master!Init, MasterProofs!Init
<1>2. Master!UseLog => MasterProofs!UseLog
  BY Zenon DEF Master!UseLog, MasterProofs!UseLog
<1>3. Master!RequestAddFails => MasterProofs!RequestAddFails
  BY Zenon DEF Master!RequestAddFails, MasterProofs!RequestAddFails
<1>4. Master!RequestCallbackAdd => MasterProofs!RequestCallbackAdd
  BY Zenon DEF Master!RequestCallbackAdd, MasterProofs!RequestCallbackAdd
<1>5. Master!SkipUnsupported => MasterProofs!SkipUnsupported
  BY Zenon DEF Master!SkipUnsupported, MasterProofs!SkipUnsupported
<1>6. Master!TransmitRefused => MasterProofs!TransmitRefused
  BY Zenon DEF Master!TransmitRefused, MasterProofs!TransmitRefused
<1>7. Master!Transmit => MasterProofs!Transmit
  BY Zenon DEF Master!Transmit, MasterProofs!Transmit
<1>8. Master!TransmitCompleted => MasterProofs!TransmitCompleted
  BY Zenon DEF Master!TransmitCompleted, MasterProofs!TransmitCompleted
<1>9. Master!TurnaroundTick => MasterProofs!TurnaroundTick
  BY Zenon DEF Master!TurnaroundTick, MasterProofs!TurnaroundTick
<1>10. Master!TurnaroundOver => MasterProofs!TurnaroundOver
  BY Zenon DEF Master!TurnaroundOver, MasterProofs!TurnaroundOver
<1>11. Master!WaitExpired => MasterProofs!WaitExpired
  BY Zenon DEF Master!WaitExpired, MasterProofs!WaitExpired
<1>12. Master!GiveUp => MasterProofs!GiveUp
  BY Zenon DEF Master!GiveUp, MasterProofs!GiveUp
<1>13. Master!RetryRequest => MasterProofs!RetryRequest
  BY Zenon DEF Master!RetryRequest, MasterProofs!RetryRequest
<1>14. Master!Complete => MasterProofs!Complete
  BY Zenon DEF Master!Complete, MasterProofs!Complete
<1>15. \A a, f : Master!RequestAdd(a, f) => MasterProofs!RequestAdd(a, f)
  BY Zenon DEF Master!RequestAdd, MasterProofs!RequestAdd
<1>16. \A f : Master!FrameGoesOn(f) => MasterProofs!FrameGoesOn(f)
  BY Zenon DEF Master!FrameGoesOn, MasterProofs!FrameGoesOn
<1>17. \A f : Master!FrameEnds(f) => MasterProofs!FrameEnds(f)
  BY Zenon DEF Master!FrameEnds, MasterProofs!FrameEnds
<1>18. Master!Next => MasterProofs!Next
  BY Zenon, <1>2, <1>3, <1>4, <1>5, <1>6, <1>7, <1>8, <1>9, <1>10, <1>11,
     <1>12, <1>13, <1>14, <1>15, <1>16, <1>17
     DEF Master!Next, MasterProofs!Next, Master!Run, MasterProofs!Run,
         Master!Application, MasterProofs!Application
<1>19. [Master!Next]_(Master!vars) => [MasterProofs!Next]_(MasterProofs!vars)
  BY Zenon, <1>18 DEF Master!vars, MasterProofs!vars
<1> QED
  BY <1>1, <1>19, PTL DEF Master!Spec, MasterProofs!Spec

LEMMA SameSlave == Slave!Spec => SlaveProofs!Spec
<1> USE DEF Slave!historyVars, SlaveProofs!historyVars, Slave!FrameIds,
            SlaveProofs!FrameIds, Slave!NoFrame, SlaveProofs!NoFrame, Slave!Requests,
            SlaveProofs!Requests, Slave!NoAnswer, SlaveProofs!NoAnswer, Slave!Driver,
            SlaveProofs!Driver, Slave!Frames, SlaveProofs!Frames, Slave!FrameEnded, SlaveProofs!FrameEnded, Slave!Poll,
            SlaveProofs!Poll, Slave!CheckAddres, SlaveProofs!CheckAddres, Slave!Damaged,
            SlaveProofs!Damaged, Slave!Exception, SlaveProofs!Exception, Slave!Response,
            SlaveProofs!Response, Slave!ReadHolding, SlaveProofs!ReadHolding,
            Slave!Write, SlaveProofs!Write, Slave!IllegalFunction,
            SlaveProofs!IllegalFunction, Slave!Writes, SlaveProofs!Writes, Slave!Min,
            SlaveProofs!Min
<1>0. /\ \A n : Slave!Wrapped(n) = SlaveProofs!Wrapped(n)
      /\ \A f : Slave!TickAfter(f) = SlaveProofs!TickAfter(f)
  BY SMT DEF Slave!TickAfter, SlaveProofs!TickAfter, Slave!Wrapped, SlaveProofs!Wrapped,
             Slave!UINT16_MAX, SlaveProofs!UINT16_MAX
<1>1. Slave!Init => SlaveProofs!Init
  BY Zenon DEF Slave!Init, SlaveProofs!Init
<1>2. Slave!CrcWrong => SlaveProofs!CrcWrong
  BY Zenon DEF Slave!CrcWrong, SlaveProofs!CrcWrong
<1>3. Slave!CrcRight => SlaveProofs!CrcRight
  BY Zenon DEF Slave!CrcRight, SlaveProofs!CrcRight
<1>4. Slave!Execute => SlaveProofs!Execute
  BY Zenon DEF Slave!Execute, SlaveProofs!Execute
<1>5. Slave!WaitTick => SlaveProofs!WaitTick
  BY Zenon, <1>0 DEF Slave!WaitTick, SlaveProofs!WaitTick
<1>6. Slave!Answer => SlaveProofs!Answer
  BY Zenon DEF Slave!Answer, SlaveProofs!Answer
<1>7. Slave!AnswerLeft => SlaveProofs!AnswerLeft
  BY Zenon DEF Slave!AnswerLeft, SlaveProofs!AnswerLeft
<1>8. \A f : Slave!Listen(f) => SlaveProofs!Listen(f)
  BY Zenon, <1>0 DEF Slave!Listen, SlaveProofs!Listen
<1>9. \A f : Slave!SkipFrame(f) => SlaveProofs!SkipFrame(f)
  BY Zenon, <1>0 DEF Slave!SkipFrame, SlaveProofs!SkipFrame
<1>10. \A f : Slave!TakeFrame(f) => SlaveProofs!TakeFrame(f)
  BY Zenon, <1>0 DEF Slave!TakeFrame, SlaveProofs!TakeFrame
<1>11. Slave!Next => SlaveProofs!Next
  BY Zenon, <1>2, <1>3, <1>4, <1>5, <1>6, <1>7, <1>8, <1>9, <1>10
     DEF Slave!Next, SlaveProofs!Next, Slave!Run, SlaveProofs!Run
<1>12. [Slave!Next]_(Slave!vars) => [SlaveProofs!Next]_(SlaveProofs!vars)
  BY Zenon, <1>11 DEF Slave!vars, SlaveProofs!vars
<1> QED
  BY <1>1, <1>12, PTL DEF Slave!Spec, SlaveProofs!Spec

(***************************************************************************)
(* What is proved of the two ends, in the words of the line.               *)
(***************************************************************************)
MasterFacts ==
    /\ fetched \in MasterProofs!Request \cup {MasterProofs!Queue!NullRequest}
    /\ sends \in [Requests -> Nat]

SlaveFacts ==
    /\ s_heard \in Nat
    /\ \A n \in 1 .. s_heard : s_executed[n] \in Nat /\ s_executed[n] <= 1

SendsBounded == \A r \in Requests : sends[r] <= ParamRetry + 1

LEMMA MasterFactsHold == Spec => []MasterFacts
<1>1. MasterProofs!TypeOK => MasterFacts
  BY BoundTypes DEF MasterProofs!TypeOK, MasterFacts, MasterProofs!Requests, Requests
<1>2. MasterProofs!Spec => []MasterProofs!TypeOK
  BY MasterConstants, MasterProofs!TypeCorrect
<1> QED
  BY <1>1, <1>2, EndsBehaveAlone, SameMaster, PTL

LEMMA SlaveFactsHold == Spec => []SlaveFacts
<1>1. SlaveProofs!TypeOK /\ SlaveProofs!ExecutedOnce => SlaveFacts
  <2> SUFFICES ASSUME SlaveProofs!TypeOK, SlaveProofs!ExecutedOnce
               PROVE  SlaveFacts
    OBVIOUS
  <2> DEFINE M == MaxAdds * (ParamRetry + 1)
  <2>1. M \in Nat
    BY BoundTypes
  <2> HIDE DEF M
  <2>2. /\ s_heard \in 0 .. M
        /\ s_executed \in [1 .. M -> Nat]
        /\ \A n \in 1 .. M : s_executed[n] <= 1
    BY Zenon DEF SlaveProofs!TypeOK, SlaveProofs!ExecutedOnce, SlaveProofs!FrameIds, M
  <2>3. s_heard \in Nat /\ 1 .. s_heard \subseteq 1 .. M
    BY <2>1, <2>2
  <2> QED
    BY <2>2, <2>3 DEF SlaveFacts
<1>2. SlaveProofs!Spec => []SlaveProofs!TypeOK /\ []SlaveProofs!ExecutedOnce
  BY SlaveConstants, SlaveProofs!TypeCorrect, SlaveProofs!FramesExecutedOnce, PTL
<1> QED
  BY <1>1, <1>2, EndsBehaveAlone, SameSlave, PTL

LEMMA SendsBoundedHolds == ASSUME LeavesRoom PROVE Spec => []SendsBounded
<1>1. MasterProofs!RetriesInBudget => SendsBounded
  BY DEF MasterProofs!RetriesInBudget, SendsBounded, MasterProofs!Requests, Requests
<1>2. MasterProofs!Spec => []MasterProofs!RetriesInBudget
  BY MasterConstants, MasterProofs!RetriesKeptApart
<1> QED
  BY <1>1, <1>2, EndsBehaveAlone, SameMaster, PTL

-----------------------------------------------------------------------------
(***************************************************************************)
(* Every frame the slave heard, and the one it may hear next, is a         *)
(* transmission of its own.                                                *)
(***************************************************************************)
Pending(r) == IF line.by = "master" /\ line.id = r THEN 1 ELSE 0

LinkInv ==
    /\ carried \in Seq(Requests)
    /\ Len(carried) = s_heard
    /\ line.by = "master" => line.id \in Requests
    /\ \A r \in Requests : Cardinality(Carrying(r)) + Pending(r) <= sends[r]

LEMMA CarryingFinite ==
    ASSUME carried \in Seq(Requests), NEW r
    PROVE  IsFiniteSet(Carrying(r)) /\ Cardinality(Carrying(r)) \in Nat
<1>1. IsFiniteSet(1 .. Len(carried))
  BY FS_Interval
<1> QED
  BY <1>1, FS_Subset, FS_CardinalityType DEF Carrying

LEMMA InitLink == Init => LinkInv
<1> SUFFICES ASSUME Init PROVE LinkInv
  OBVIOUS
<1>1. carried = <<>> /\ line.by = "none" /\ s_heard = 0 /\ sends = [r \in Requests |-> 0]
  BY DEF Init, Silence, Master!Init, Slave!Init, Master!Requests, Requests
<1>2. \A r \in Requests : Carrying(r) = {} /\ Pending(r) = 0
  BY <1>1 DEF Carrying, Pending
<1> QED
  BY <1>1, <1>2, FS_EmptySet DEF LinkInv

\* A step of the master transmits one request, or none.
LEMMA MasterStep ==
    ASSUME MasterRun, MasterFacts'
    PROVE  \/ sends' = sends /\ (line' = line \/ line' = Silence)
           \/ \E r \in Requests :
                 /\ sends' = [sends EXCEPT ![r] = Master!Min({@ + 1, ParamRetry + 2})]
                 /\ line'.by = "master" /\ line'.id = r
<1>1. CASE Master!Transmit
  <2>1. MasterTransmits
    BY <1>1 DEF MasterTransmits, Master!Transmit, Master!BeginRequest
  <2>2. line' = [by |-> "master", to |-> fetched'.header,
                 id |-> fetched'.body.id, kind |-> "request"]
    BY <2>1 DEF MasterRun, MasterTransmits, MasterHears
  <2>3. fetched'.body.id \in Requests
    <3>1. fetched'.body.func # "NONE"
      BY <1>1 DEF Master!Transmit, Master!Supported
    <3>2. MasterProofs!Queue!NullRequest.body.func = "NONE"
      BY DEF MasterProofs!Queue!NullRequest, MasterProofs!NoBody
    <3>3. fetched' \in MasterProofs!Request
      BY <3>1, <3>2 DEF MasterFacts
    <3> QED
      BY <3>3 DEF MasterProofs!Request, MasterProofs!Bodies, MasterProofs!Requests, Requests
  <2>4. sends' = [sends EXCEPT ![fetched'.body.id] = Master!Min({@ + 1, ParamRetry + 2})]
    BY <1>1 DEF Master!Transmit
  <2> QED
    BY <2>2, <2>3, <2>4
<1>2. CASE ~Master!Transmit
  <2>1. sends' = sends /\ ~MasterTransmits
    BY <1>2 DEF MasterRun, MasterTransmits, Master!Run, Master!SkipUnsupported,
        Master!TransmitRefused, Master!TransmitCompleted, Master!TurnaroundTick,
        Master!TurnaroundOver, Master!WaitExpired, Master!FrameGoesOn,
        Master!FrameEnds, Master!Poll, Master!GiveUp, Master!RetryRequest,
        Master!Complete
  <2> QED
    BY <2>1 DEF MasterRun
<1> QED
  BY <1>1, <1>2

LEMMA MasterRunLink ==
    ASSUME LinkInv, MasterRun, MasterFacts, MasterFacts', SendsBounded
    PROVE  LinkInv'
<1>1. UNCHANGED <<carried, s_heard>>
  BY DEF MasterRun, slaveVars
<1>2. \A r \in Requests : Carrying(r)' = Carrying(r)
  BY <1>1 DEF Carrying
<1>3. \A r \in Requests : Cardinality(Carrying(r)) \in Nat /\ sends[r] \in Nat
  BY CarryingFinite DEF LinkInv, MasterFacts
<1>4. CASE sends' = sends /\ (line' = line \/ line' = Silence)
  <2>1. \A r \in Requests : Pending(r)' = Pending(r) \/ Pending(r)' = 0
    BY <1>4 DEF Pending, Silence
  <2>2. line'.by = "master" => line'.id \in Requests
    BY <1>4 DEF LinkInv, Silence
  <2>3. \A r \in Requests : Pending(r) \in Nat
    BY DEF Pending
  <2>4. \A r \in Requests : Cardinality(Carrying(r)') + Pending(r)' <= sends'[r]
    BY <1>2, <1>3, <1>4, <2>1, <2>3 DEF LinkInv
  <2> QED
    BY <1>1, <2>2, <2>4 DEF LinkInv
<1>5. CASE \E r \in Requests :
              /\ sends' = [sends EXCEPT ![r] = Master!Min({@ + 1, ParamRetry + 2})]
              /\ line'.by = "master" /\ line'.id = r
  <2> PICK q \in Requests :
              /\ sends' = [sends EXCEPT ![q] = Master!Min({@ + 1, ParamRetry + 2})]
              /\ line'.by = "master" /\ line'.id = q
    BY <1>5
  <2>1. Master!Min({sends[q] + 1, ParamRetry + 2}) = sends[q] + 1
    <3>1. sends[q] + 1 <= ParamRetry + 2 /\ sends[q] \in Nat /\ ParamRetry \in Nat
      BY <1>3, BoundTypes DEF SendsBounded
    <3> DEFINE a == sends[q] + 1
               b == ParamRetry + 2
    <3>2. a \in Nat /\ b \in Nat /\ a <= b
      BY <3>1
    <3> HIDE DEF a, b
    <3>3. Master!Min({a, b}) = CHOOSE x \in {a, b} : \A y \in {a, b} : x <= y
      BY Zenon DEF Master!Min
    <3>4. Master!Min({a, b}) = a
      BY <3>2, <3>3
    <3> QED
      BY <3>4 DEF a, b
  <2>2. \A r \in Requests :
           /\ Pending(r)' = IF r = q THEN 1 ELSE 0
           /\ Pending(r) \in Nat
           /\ sends'[r] = IF r = q THEN sends[r] + 1 ELSE sends[r]
    BY <2>1 DEF Pending, MasterFacts
  <2>3. \A r \in Requests : Cardinality(Carrying(r)') + Pending(r)' <= sends'[r]
    <3> TAKE r \in Requests
    <3>1. Cardinality(Carrying(r)) + Pending(r) <= sends[r]
      BY DEF LinkInv
    <3> DEFINE c == Cardinality(Carrying(r))
    <3>2. Cardinality(Carrying(r)') = c
      BY <1>2
    <3>3. c \in Nat /\ c + Pending(r) <= sends[r]
      BY <1>3, <3>1
    <3> HIDE DEF c
    <3> QED
      BY <1>3, <2>2, <3>2, <3>3
  <2> QED
    BY <1>1, <2>3 DEF LinkInv
<1> QED
  BY <1>4, <1>5, MasterStep

LEMMA HearingCounts ==
    ASSUME carried \in Seq(Requests), NEW q \in Requests,
           carried' = Append(carried, q), NEW r \in Requests
    PROVE  Cardinality(Carrying(r)') =
              IF r = q THEN Cardinality(Carrying(r)) + 1 ELSE Cardinality(Carrying(r))
<1> DEFINE n == Len(carried) + 1
<1>1. Len(carried') = n /\ n \in Nat /\ carried'[n] = q
      /\ \A i \in 1 .. n - 1 : carried'[i] = carried[i]
  OBVIOUS
<1>2. 1 .. n = (1 .. n - 1) \cup {n} /\ n - 1 = Len(carried) /\ n \notin 1 .. n - 1
  BY <1>1
<1> HIDE DEF n
<1>3. Carrying(r)' = IF r = q THEN Carrying(r) \cup {n} ELSE Carrying(r)
  BY <1>1, <1>2 DEF Carrying
<1>4. n \notin Carrying(r)
  BY <1>2 DEF Carrying
<1> QED
  BY <1>3, <1>4, CarryingFinite, FS_AddElement

LEMMA SlaveRunLink ==
    ASSUME LinkInv, SlaveRun, MasterFacts, SlaveFacts
    PROVE  LinkInv'
<1>1. sends' = sends
  BY DEF SlaveRun, masterVars
<1>2. \A r \in Requests : /\ Cardinality(Carrying(r)) \in Nat /\ sends[r] \in Nat
                          /\ Pending(r) \in Nat
  BY CarryingFinite DEF LinkInv, MasterFacts, Pending
<1>3. s_heard' = s_heard \/ s_heard' = s_heard + 1
  BY DEF SlaveRun, Slave!Run, Slave!Listen, Slave!SkipFrame, Slave!TakeFrame, Slave!Poll,
      Slave!Driver, Slave!CrcWrong, Slave!CrcRight, Slave!Execute, Slave!WaitTick,
      Slave!Answer, Slave!AnswerLeft, Slave!historyVars
<1>4. CASE SlaveHears
  <2>1. /\ line.by = "master" /\ carried' = Append(carried, line.id)
        /\ line' = Silence /\ s_heard' = s_heard + 1
    <3>1. ~SlaveTransmits
      BY <1>4 DEF SlaveHears, SlaveTransmits, SlaveRun, Slave!Run, Slave!Listen,
          Slave!SkipFrame, Slave!TakeFrame, Slave!Poll, Slave!CrcWrong, Slave!CrcRight,
          Slave!Execute, Slave!WaitTick, Slave!Answer, Slave!AnswerLeft, Slave!historyVars
    <3> QED
      BY <1>3, <1>4, <3>1 DEF SlaveRun, SlaveHears
  <2>2. line.id \in Requests
    BY <2>1 DEF LinkInv
  <2>3. carried' \in Seq(Requests) /\ Len(carried') = Len(carried) + 1
    BY <2>1, <2>2 DEF LinkInv
  <2>4. \A r \in Requests :
           /\ Pending(r)' = 0
           /\ Pending(r) = IF r = line.id THEN 1 ELSE 0
           /\ Cardinality(Carrying(r)') = IF r = line.id THEN Cardinality(Carrying(r)) + 1
                                          ELSE Cardinality(Carrying(r))
    <3>1. carried \in Seq(Requests)
      BY DEF LinkInv
    <3>2. \A r \in Requests :
            Cardinality(Carrying(r)') = IF r = line.id THEN Cardinality(Carrying(r)) + 1
                                        ELSE Cardinality(Carrying(r))
      BY <2>1, <2>2, <3>1, HearingCounts
    <3> QED
      BY <2>1, <3>2 DEF Pending, Silence
  <2>5. \A r \in Requests : Cardinality(Carrying(r)') + Pending(r)' <= sends'[r]
    BY <1>1, <1>2, <2>4 DEF LinkInv
  <2>6. ~(line'.by = "master")
    BY <2>1 DEF Silence
  <2> QED
    BY <2>1, <2>3, <2>5, <2>6 DEF LinkInv
<1>5. CASE ~SlaveHears
  <2>1. carried' = carried /\ s_heard' = s_heard
        /\ (line' = line \/ line'.by = "slave")
    BY <1>5 DEF SlaveRun, SlaveHears
  <2>2. \A r \in Requests : Carrying(r)' = Carrying(r)
                            /\ (Pending(r)' = Pending(r) \/ Pending(r)' = 0)
    BY <2>1 DEF Carrying, Pending
  <2>3. \A r \in Requests : Cardinality(Carrying(r)') + Pending(r)' <= sends'[r]
    BY <1>1, <1>2, <2>2 DEF LinkInv
  <2>4. line'.by = "master" => line'.id \in Requests
    BY <2>1 DEF LinkInv
  <2> QED
    BY <2>1, <2>3, <2>4 DEF LinkInv
<1> QED
  BY <1>4, <1>5

LEMMA NextLink ==
    LinkInv /\ [Next]_vars /\ MasterFacts /\ MasterFacts' /\ SlaveFacts /\ SendsBounded
    => LinkInv'
<1>1. UNCHANGED <<carried, s_heard, line, sends>> /\ LinkInv => LinkInv'
  BY DEF LinkInv, Carrying, Pending
<1>2. Add \/ Attach => UNCHANGED <<carried, s_heard, line, sends>>
  BY DEF Add, Attach, slaveVars, Master!RequestAdd, Master!RequestAddFails,
      Master!RequestCallbackAdd
<1>3. UNCHANGED vars => UNCHANGED <<carried, s_heard, line, sends>>
  BY DEF vars, slaveVars, masterVars
<1> QED
  BY <1>1, <1>2, <1>3, MasterRunLink, SlaveRunLink DEF Next

LEMMA LinkBoundsExecutions ==
    ASSUME LinkInv, SlaveFacts, MasterFacts
    PROVE  ExecutedAsSent
<1> SUFFICES ASSUME NEW r \in Requests
             PROVE  Cardinality(Executions(r)) <= sends[r]
  BY DEF ExecutedAsSent
<1> DEFINE f == [p \in Executions(r) |-> p[1]]
<1>1. \A p \in Executions(r) : p[1] \in Carrying(r) /\ p = <<p[1], 1>>
  <2> SUFFICES ASSUME NEW n \in Carrying(r), NEW p \in {n} \X (1 .. s_executed[n])
               PROVE  p[1] \in Carrying(r) /\ p = <<p[1], 1>>
    BY DEF Executions
  <2>1. s_executed[n] \in Nat /\ s_executed[n] <= 1
    BY DEF Carrying, LinkInv, SlaveFacts
  <2>2. p = <<p[1], p[2]>> /\ p[1] = n /\ p[2] \in 1 .. s_executed[n]
    OBVIOUS
  <2>3. p[2] = 1
    BY <2>1, <2>2
  <2> QED
    BY <2>2, <2>3
<1>2. f \in Injection(Executions(r), Carrying(r))
  <2>1. f \in [Executions(r) -> Carrying(r)]
    BY <1>1
  <2>2. \A p, q \in Executions(r) : f[p] = f[q] => p = q
    BY <1>1
  <2> QED
    BY <2>1, <2>2 DEF Injection, IsInjective
<1>3. IsFiniteSet(Carrying(r)) /\ Cardinality(Carrying(r)) \in Nat
  BY CarryingFinite DEF LinkInv
<1>4. Cardinality(Executions(r)) <= Cardinality(Carrying(r))
      /\ Cardinality(Executions(r)) \in Nat
  BY <1>2, <1>3, FS_Injection, FS_CardinalityType
<1>5. Cardinality(Carrying(r)) + Pending(r) <= sends[r] /\ Pending(r) \in Nat
      /\ sends[r] \in Nat
  BY DEF LinkInv, Pending, MasterFacts
<1> QED
  BY <1>3, <1>4, <1>5

LEMMA LinkHolds == ASSUME LeavesRoom PROVE Spec => []LinkInv
BY InitLink, NextLink, MasterFactsHold, SlaveFactsHold, SendsBoundedHolds, PTL DEF Spec

(***************************************************************************)
(* The slave executes no request more often than the master transmitted    *)
(* it, if the application leaves room in the request list while a request  *)
(* is served: a frame is never executed twice, however long the driver     *)
(* keeps it and however late it is answered.                               *)
(***************************************************************************)
THEOREM ExecutionsAreTransmissions ==
    ASSUME LeavesRoom
    PROVE  Spec => []ExecutedAsSent
<1>1. LinkInv /\ SlaveFacts /\ MasterFacts => ExecutedAsSent
  BY LinkBoundsExecutions
<1> QED
  BY <1>1, LinkHolds, MasterFactsHold, SlaveFactsHold, PTL

-----------------------------------------------------------------------------
(***************************************************************************)
(* Time.  The calls of its Run the slave needs: for the waits before an    *)
(* answer, from the end of a frame until it listens again, and from the    *)
(* call that hears the frame.                                              *)
(***************************************************************************)
Waits == ParamWait \div ControlInterval + 1

Handling == IF Waits + 4 >= SlaveT35 + 1 THEN Waits + 4 ELSE SlaveT35 + 1

Hearing == 1 + FrameSize * SlaveT35 + Handling

(***************************************************************************)
(* The master waits longer than the slave takes, if one of them may be     *)
(* Drift calls ahead of the other; and so it does after a broadcast, which *)
(* no slave answers.                                                       *)
(***************************************************************************)
WaitsLongEnough ==
    /\ ParamWfr >= Hearing + 2 * Drift - 2
    /\ Master!Broadcast \in Addresses =>
          /\ SlaveAddress # Master!Broadcast
          /\ ParamTad >= Hearing + 2 * Drift - 2

\* For the provers: a division of natural numbers.
LEMMA Division ==
    ASSUME NEW x \in Int, NEW c \in Nat \ {0}
    PROVE  /\ x \div c \in Int
           /\ x >= 0 => x \div c >= 0
           /\ (x - c) \div c = x \div c - 1
OBVIOUS

LEMMA TimesTypes ==
    /\ SlaveT35 \in Nat /\ ParamWait \in Nat /\ ControlInterval \in Nat \ {0}
    /\ FrameSize \in Nat \ {0} /\ Drift \in Nat \ {0}
    /\ ParamWfr \in Nat /\ ParamTad \in Nat
<1>1. SlaveT35 \in Nat /\ ParamWait \in Nat /\ ControlInterval \in Nat \ {0}
  BY SlaveAssumption
<1>2. ParamWfr \in Nat /\ ParamTad \in Nat
  <2>1. UINT16_MAX \in Nat
    BY DEF UINT16_MAX
  <2> QED
    BY <2>1, MasterTimeAssumption
<1> QED
  BY <1>1, <1>2, FrameAssumption, DriftAssumption

LEMMA HearingTypes ==
    /\ Waits \in Nat /\ Handling \in Nat /\ FrameSize * SlaveT35 \in Nat /\ Hearing \in Nat
    /\ Handling >= Waits + 4 /\ Handling >= SlaveT35 + 1
    /\ Hearing = 1 + FrameSize * SlaveT35 + Handling
<1>1. Waits \in Nat
  BY TimesTypes, Division DEF Waits
<1>2. FrameSize * SlaveT35 \in Nat
  BY TimesTypes
<1>3. Handling \in Nat /\ Handling >= Waits + 4 /\ Handling >= SlaveT35 + 1
  BY <1>1, TimesTypes DEF Handling
<1> QED
  BY <1>1, <1>2, <1>3 DEF Hearing

-----------------------------------------------------------------------------
(***************************************************************************)
(* What the invariants of the two proof modules say of the line.           *)
(***************************************************************************)
Listening == s_state = "IDLE" /\ s_rx = Slave!NoFrame

MasterState ==
    /\ state \in {"IDLE", "TRANSCOMPLT", "TURN", "WAIT", "PROCESS"}
    /\ timer_wfr \in 0 .. ParamWfr
    /\ timer_tad \in 0 .. ParamTad
    /\ state # "IDLE" => fetched.header \in Addresses
    /\ state = "TRANSCOMPLT" => rx = Master!NoFrame
    /\ DOMAIN outcome = Requests

SlaveState ==
    /\ s_state \in {"IDLE", "CRC", "PDU", "WAITOPER", "WAITDIR"}
    /\ s_rx # Slave!NoFrame =>
          /\ s_rx.size \in 1 .. FrameSize + 1
          /\ s_rx.id = s_heard
          /\ s_rx.area = "area"
          /\ s_rx.func = "WRITE_SINGLE"
    /\ s_state # "IDLE" => s_rx # Slave!NoFrame /\ s_rx.to = SlaveAddress
    /\ s_state \in {"PDU", "WAITOPER", "WAITDIR"} => s_rx.size = FrameSize
    /\ s_state = "WAITOPER" => s_tx.id = s_rx.id
    /\ s_state = "IDLE" /\ s_rx # Slave!NoFrame => s_size_rcv_prev = s_rx.size
    /\ s_state \in {"CRC", "PDU", "WAITDIR"} => s_tick = 0
    /\ s_tick \in Nat
    /\ DOMAIN s_registers = {"area"}

LEMMA MasterStateHolds == ASSUME LeavesRoom PROVE Spec => []MasterState
<1>1. MasterProofs!IInv /\ MasterProofs!RoomInv => MasterState
  <2> SUFFICES ASSUME MasterProofs!IInv, MasterProofs!RoomInv PROVE MasterState
    OBVIOUS
  <2>1. /\ state \in {"IDLE", "TRANSCOMPLT", "TURN", "WAIT", "PROCESS"}
        /\ timer_wfr \in 0 .. ParamWfr
        /\ timer_tad \in 0 .. ParamTad
    BY Zenon DEF MasterProofs!IInv, MasterProofs!TypeInv, MasterProofs!TypeOK
  <2>2. state # "IDLE" => fetched \in MasterProofs!Request
    BY Zenon DEF MasterProofs!IInv, MasterProofs!ServingInv, MasterProofs!Serving
  <2>3. state # "IDLE" => fetched.header \in Addresses
    BY <2>2 DEF MasterProofs!Request
  <2>4. state = "TRANSCOMPLT" => rx = Master!NoFrame
    BY Zenon DEF MasterProofs!RoomInv, MasterProofs!ServedInv, MasterProofs!ReceptionInv,
       MasterProofs!NoFrame, Master!NoFrame, MasterProofs!NoAddress, Master!NoAddress
  <2>5. DOMAIN outcome = Requests
    <3>1. outcome \in [Requests -> MasterProofs!Outcomes]
      BY Zenon DEF MasterProofs!IInv, MasterProofs!TypeInv, MasterProofs!TypeOK,
         MasterProofs!Requests, Requests
    <3> QED
      BY <3>1
  <2> QED
    BY <2>1, <2>3, <2>4, <2>5 DEF MasterState
<1>2. MasterProofs!Spec => [](MasterProofs!IInv /\ MasterProofs!RoomInv)
  BY MasterConstants, MasterProofs!RoomInvariance
<1> QED
  BY <1>1, <1>2, EndsBehaveAlone, SameMaster, PTL

LEMMA SlaveStateHolds == Spec => []SlaveState
<1>1. SlaveProofs!IInv => SlaveState
  <2> SUFFICES ASSUME SlaveProofs!IInv PROVE SlaveState
    OBVIOUS
  <2>1. Slave!NoFrame = SlaveProofs!NoFrame
    BY Zenon DEF Slave!NoFrame, SlaveProofs!NoFrame
  <2>2. s_rx # Slave!NoFrame =>
          /\ s_rx.size \in 1 .. FrameSize + 1
          /\ s_rx.id = s_heard
          /\ s_rx.area = "area"
          /\ s_rx.func = "WRITE_SINGLE"
    <3> SUFFICES ASSUME s_rx # Slave!NoFrame
                 PROVE  /\ s_rx.size \in 1 .. FrameSize + 1
                        /\ s_rx.id = s_heard
                        /\ s_rx.area = "area"
                        /\ s_rx.func = "WRITE_SINGLE"
      OBVIOUS
    <3>1. s_rx \in SlaveProofs!Requests
      BY <2>1, Zenon DEF SlaveProofs!IInv, SlaveProofs!TypeOK, SlaveProofs!Frames
    <3>2. s_rx.id = s_heard
      BY <2>1, Zenon DEF SlaveProofs!IInv, SlaveProofs!FrameInv
    <3>3. s_rx.area \in {"area"} /\ s_rx.func \in {"WRITE_SINGLE"}
          /\ s_rx.size \in 1 .. FrameSize + 1
      BY <3>1 DEF SlaveProofs!Requests
    <3> QED
      BY <3>2, <3>3
  <2>3. /\ s_state # "IDLE" => s_rx # Slave!NoFrame /\ s_rx.to = SlaveAddress
        /\ s_state \in {"PDU", "WAITOPER", "WAITDIR"} => s_rx.size = FrameSize
    BY <2>1, Zenon DEF SlaveProofs!IInv, SlaveProofs!FrameInv
  <2>4. s_state = "WAITOPER" => s_tx.id = s_rx.id
    BY Zenon DEF SlaveProofs!IInv, SlaveProofs!ExecutionInv
  <2>5. /\ s_state = "IDLE" /\ s_rx # Slave!NoFrame => s_size_rcv_prev = s_rx.size
        /\ s_state \in {"CRC", "PDU", "WAITDIR"} => s_tick = 0
    BY <2>1, Zenon DEF SlaveProofs!IInv, SlaveProofs!SilenceInv
  <2>6. /\ s_state \in {"IDLE", "CRC", "PDU", "WAITOPER", "WAITDIR"}
        /\ s_registers \in [{"area"} -> Requests \cup {0}]
    BY Zenon DEF SlaveProofs!IInv, SlaveProofs!TypeOK
  <2>7. s_tick \in Nat
    <3>1. s_tick \in 0 .. SlaveProofs!Max({SlaveT35, ParamWait + ControlInterval})
      BY Zenon DEF SlaveProofs!IInv, SlaveProofs!TypeOK
    <3> DEFINE m == SlaveProofs!Max({SlaveT35, ParamWait + ControlInterval})
    <3>2. m \in Int
      BY TimesTypes, SlaveProofs!MaxOfTwo, SlaveConstants
    <3> HIDE DEF m
    <3>3. s_tick \in 0 .. m
      BY <3>1 DEF m
    <3> QED
      BY <3>2, <3>3
  <2> QED
    BY <2>2, <2>3, <2>4, <2>5, <2>6, <2>7 DEF SlaveState
<1>2. SlaveProofs!Spec => []SlaveProofs!IInv
  BY SlaveConstants, SlaveProofs!Invariance
<1> QED
  BY <1>1, <1>2, EndsBehaveAlone, SameSlave, PTL

-----------------------------------------------------------------------------
(***************************************************************************)
(* The slave at work: the calls it needs until it listens again.           *)
(***************************************************************************)
SlaveTime ==
    CASE Listening -> 0
      [] s_state = "IDLE" /\ ~Listening ->
            IF s_rx.size <= FrameSize
            THEN (FrameSize - s_rx.size) * SlaveT35 + (SlaveT35 - s_tick) + Handling
            ELSE (SlaveT35 - s_tick) + 1
      [] s_state = "CRC" -> IF s_rx.size = FrameSize THEN Waits + 4 ELSE 1
      [] s_state = "PDU" -> Waits + 3
      [] s_state = "WAITOPER" ->
            IF s_tick <= ParamWait
            THEN (ParamWait - s_tick) \div ControlInterval + 3
            ELSE 2
      [] s_state = "WAITDIR" -> 1

\* A frame that goes on has not been quiet for t35.
GoesOn == s_state = "IDLE" /\ ~Listening => s_tick < SlaveT35

LEMMA SlaveTimes ==
    ASSUME SlaveState
    PROVE  /\ Listening => SlaveTime = 0
           /\ s_state = "IDLE" /\ ~Listening /\ s_rx.size <= FrameSize =>
                 SlaveTime = (FrameSize - s_rx.size) * SlaveT35 + (SlaveT35 - s_tick) + Handling
           /\ s_state = "IDLE" /\ ~Listening /\ ~(s_rx.size <= FrameSize) =>
                 SlaveTime = (SlaveT35 - s_tick) + 1
           /\ s_state = "CRC" => SlaveTime = IF s_rx.size = FrameSize THEN Waits + 4 ELSE 1
           /\ s_state = "PDU" => SlaveTime = Waits + 3
           /\ s_state = "WAITOPER" =>
                 SlaveTime = IF s_tick <= ParamWait
                             THEN (ParamWait - s_tick) \div ControlInterval + 3
                             ELSE 2
           /\ s_state = "WAITDIR" => SlaveTime = 1
BY Zenon DEF SlaveTime, SlaveState, Listening

LEMMA ProductOrder ==
    ASSUME NEW a \in Nat, NEW b \in Nat, NEW t \in Nat, a <= b
    PROVE  a * t \in Nat /\ a * t <= b * t /\ (a + 1) * t = a * t + t
<1>1. b = a + (b - a) /\ b - a \in Nat
  OBVIOUS
<1>2. \A d \in Nat : (a + d) * t = a * t + d * t /\ d * t \in Nat
  OBVIOUS
<1> QED
  BY <1>1, <1>2

LEMMA SlaveTimeTypes ==
    ASSUME SlaveState, GoesOn
    PROVE  /\ SlaveTime \in Nat
           /\ s_state \in {"CRC", "PDU", "WAITOPER"} => SlaveTime >= 1
           /\ s_state = "IDLE" /\ ~Listening => SlaveTime >= 2
           /\ s_state \in {"PDU", "WAITOPER"} => SlaveTime >= 2
<1>1. CASE Listening
  BY <1>1, SlaveTimes DEF Listening
<1>2. CASE s_state = "IDLE" /\ ~Listening
  <2>1. s_rx.size \in 1 .. FrameSize + 1 /\ s_tick \in Nat /\ s_tick < SlaveT35
    BY <1>2 DEF SlaveState, GoesOn, Listening
  <2>2. CASE s_rx.size <= FrameSize
    <3>1. (FrameSize - s_rx.size) * SlaveT35 \in Nat
      <4> DEFINE a == FrameSize - s_rx.size
      <4>1. a \in Nat
        BY <2>1, <2>2, TimesTypes
      <4> HIDE DEF a
      <4>2. a * SlaveT35 \in Nat
        BY <4>1, TimesTypes
      <4> QED
        BY <4>2 DEF a
    <3>2. SlaveTime = (FrameSize - s_rx.size) * SlaveT35 + (SlaveT35 - s_tick) + Handling
      BY <1>2, <2>2, SlaveTimes
    <3> QED
      BY <1>2, <2>1, <3>1, <3>2, TimesTypes, HearingTypes
  <2>3. CASE ~(s_rx.size <= FrameSize)
    <3>1. SlaveTime = (SlaveT35 - s_tick) + 1
      BY <1>2, <2>3, SlaveTimes
    <3> QED
      BY <1>2, <2>1, <3>1, TimesTypes
  <2> QED
    BY <2>2, <2>3
<1>3. CASE s_state \in {"CRC", "PDU", "WAITDIR"}
  BY <1>3, SlaveTimes, HearingTypes DEF Listening
<1>4. CASE s_state = "WAITOPER"
  <2>1. s_tick \in Nat /\ ParamWait \in Nat
    BY TimesTypes DEF SlaveState
  <2>2. s_tick <= ParamWait => (ParamWait - s_tick) \div ControlInterval \in Nat
    BY <2>1, TimesTypes, Division
  <2> QED
    BY <1>4, <2>2, SlaveTimes DEF Listening
<1> QED
  BY <1>1, <1>2, <1>3, <1>4 DEF SlaveState

-----------------------------------------------------------------------------
(***************************************************************************)
(* The steps of the slave, as far as the line knows them.                  *)
(***************************************************************************)

\* The time of a frame that goes on, and of the wait, fits the tick.
LEMMA TickFits ==
    ASSUME NEW n \in Nat, n <= SlaveT35 \/ n <= ParamWait + ControlInterval
    PROVE  Slave!Wrapped(n) = n
<1>1. n <= 65535
  BY TimesTypes, SlaveWidthAssumption DEF UINT16_MAX
<1> QED
  BY <1>1 DEF Slave!Wrapped, Slave!UINT16_MAX

\* A poll finds a new frame, none, the frame as it was, or more of it.
LEMMA PollCases ==
    ASSUME SlaveState, SlaveFacts, NEW f \in Slave!Frames, Slave!Poll(f)
    PROVE  /\ s_state = "IDLE"
           /\ \/ Listening /\ s_heard' = s_heard + 1 /\ f.size \in 1 .. FrameSize + 1
              \/ Listening /\ s_heard' = s_heard /\ f = Slave!NoFrame
              \/ /\ ~Listening /\ s_heard' = s_heard
                 /\ f = s_rx /\ (GoesOn => Slave!TickAfter(f) = s_tick + 1)
              \/ /\ ~Listening /\ s_heard' = s_heard /\ Slave!TickAfter(f) = 0
                 /\ \E n \in s_rx.size + 1 .. FrameSize + 1 : f = [s_rx EXCEPT !.size = n]
                 /\ f.size \in s_rx.size + 1 .. FrameSize + 1
<1>1. s_state = "IDLE" /\ Slave!Driver(f)
  BY DEF Slave!Poll
<1>2. CASE s_rx = Slave!NoFrame
  <2>1. \/ f = Slave!NoFrame /\ s_heard' = s_heard
        \/ f \in Slave!Requests /\ s_heard' = s_heard + 1
    BY <1>1, <1>2 DEF Slave!Driver
  <2>2. f \in Slave!Requests => f.size \in 1 .. FrameSize + 1
    BY DEF Slave!Requests
  <2> QED
    BY <1>1, <1>2, <2>1, <2>2 DEF Listening
<1>3. CASE s_rx # Slave!NoFrame
  <2>1. s_rx.size \in 1 .. FrameSize + 1 /\ s_size_rcv_prev = s_rx.size
    BY <1>1, <1>3 DEF SlaveState
  <2>2. CASE f = s_rx /\ s_heard' = s_heard
    <3>1. GoesOn => Slave!TickAfter(f) = s_tick + 1
      <4> SUFFICES ASSUME GoesOn PROVE Slave!TickAfter(f) = s_tick + 1
        OBVIOUS
      <4>1. s_tick + 1 \in Nat /\ s_tick + 1 <= SlaveT35
        BY <1>1, <1>3, TimesTypes DEF GoesOn, SlaveState, Listening
      <4>2. Slave!Wrapped(s_tick + 1) = s_tick + 1
        BY <4>1, TickFits
      <4> QED
        BY <2>1, <2>2, <4>2, TimesTypes DEF Slave!TickAfter
    <3> QED
      BY <1>1, <1>3, <2>2, <3>1 DEF Listening
  <2>3. CASE /\ f \in {[s_rx EXCEPT !.size = n] : n \in s_rx.size + 1 .. FrameSize + 1}
             /\ s_heard' = s_heard
    <3>1. PICK n \in s_rx.size + 1 .. FrameSize + 1 : f = [s_rx EXCEPT !.size = n]
      BY <2>3
    <3>2. f.size = n
      <4>1. "size" \in DOMAIN s_rx
        <5>1. f \in Slave!Requests \/ f = Slave!NoFrame
          BY DEF Slave!Frames
        <5>2. "size" \in DOMAIN f
          BY <5>1 DEF Slave!Requests, Slave!NoFrame
        <5> QED
          BY <3>1, <5>2
      <4> QED
        BY <3>1, <4>1
    <3>3. n \in Nat /\ n > s_rx.size
      BY <2>1, <3>1, TimesTypes
    <3>4. Slave!TickAfter(f) = 0
      BY <2>1, <3>2, <3>3 DEF Slave!TickAfter
    <3> QED
      BY <1>1, <1>3, <2>3, <3>1, <3>2, <3>4 DEF Listening
  <2> QED
    BY <1>1, <1>3, <2>2, <2>3 DEF Slave!Driver
<1> QED
  BY <1>2, <1>3

\* The frame that ends, goes on or is skipped keeps its address and value.
LEMMA PolledFrame ==
    ASSUME SlaveState, SlaveFacts, ~Listening, NEW f \in Slave!Frames, Slave!Poll(f)
    PROVE  f.to = s_rx.to /\ f.val = s_rx.val /\ s_heard' = s_heard
           /\ f.size # 0 /\ f # Slave!NoFrame
<1>1. s_rx.size \in 1 .. FrameSize + 1 /\ s_state = "IDLE"
  BY PollCases DEF SlaveState, Listening
<1>2. f = s_rx \/ \E n \in s_rx.size + 1 .. FrameSize + 1 : f = [s_rx EXCEPT !.size = n]
  BY PollCases
<1>3. f.to = s_rx.to /\ f.val = s_rx.val
  <2>1. "to" \in DOMAIN f /\ "val" \in DOMAIN f
    BY DEF Slave!Frames, Slave!Requests, Slave!NoFrame
  <2>2. CASE \E n \in s_rx.size + 1 .. FrameSize + 1 : f = [s_rx EXCEPT !.size = n]
    <3>1. PICK n \in s_rx.size + 1 .. FrameSize + 1 : f = [s_rx EXCEPT !.size = n]
      BY <2>2
    <3>2. "to" \in DOMAIN s_rx /\ "val" \in DOMAIN s_rx
      BY <2>1, <3>1
    <3> QED
      BY <3>1, <3>2
  <2> QED
    BY <1>2, <2>2
<1>4. f.size \in s_rx.size .. FrameSize + 1 /\ s_heard' = s_heard
  BY <1>1, PollCases, TimesTypes
<1>5. f.size # 0
  BY <1>1, <1>4, TimesTypes
<1>6. Slave!NoFrame.size = 0
  BY DEF Slave!NoFrame
<1> QED
  BY <1>3, <1>4, <1>5, <1>6

LEMMA ListenTime ==
    ASSUME SlaveState, SlaveState', SlaveFacts, GoesOn, ~Listening,
           NEW f \in Slave!Frames, Slave!Listen(f)
    PROVE  GoesOn' /\ SlaveTime' <= SlaveTime - 1
<1>1. Slave!Poll(f) /\ s_rx' = f /\ s_tick' = Slave!TickAfter(f) /\ s_state' = s_state
  BY DEF Slave!Listen
<1>2. f.size # 0 /\ f # Slave!NoFrame /\ s_state = "IDLE"
  BY <1>1, PolledFrame, PollCases
<1>3. s_tick' < SlaveT35
  <2>1. Slave!TickAfter(f) \in Nat
    BY <1>1, PollCases DEF SlaveState
  <2> QED
    BY <1>1, <1>2, <2>1, TimesTypes DEF Slave!Listen, Slave!FrameEnded
<1>4. GoesOn'
  BY <1>3 DEF GoesOn
<1>5. ~Listening' /\ s_state' = "IDLE"
  BY <1>1, <1>2 DEF Listening
<1>6. s_rx.size \in 1 .. FrameSize + 1 /\ s_tick \in Nat /\ s_tick < SlaveT35
      /\ s_rx'.size \in 1 .. FrameSize + 1 /\ s_tick' \in Nat
  BY <1>2, <1>5 DEF SlaveState, Listening, GoesOn
<1> DEFINE s == s_rx.size
           n == s_rx'.size
           t == SlaveT35
<1>7. /\ s \in 1 .. FrameSize + 1 /\ n \in 1 .. FrameSize + 1 /\ t \in Nat
      /\ s_tick \in Nat /\ s_tick < t /\ s_tick' \in Nat /\ s_tick' < t
      /\ \/ n = s /\ s_tick' = s_tick + 1
         \/ n > s /\ s_tick' = 0
  <2>1. \/ f = s_rx /\ Slave!TickAfter(f) = s_tick + 1
        \/ Slave!TickAfter(f) = 0 /\ f.size \in s_rx.size + 1 .. FrameSize + 1
    BY <1>1, PollCases
  <2>2. \/ n = s /\ s_tick' = s_tick + 1
        \/ n > s /\ s_tick' = 0
    BY <1>1, <1>6, <2>1, TimesTypes
  <2> QED
    BY <1>3, <1>6, <2>2, TimesTypes
<1>8. /\ s <= FrameSize => SlaveTime = (FrameSize - s) * t + (t - s_tick) + Handling
      /\ ~(s <= FrameSize) => SlaveTime = (t - s_tick) + 1
  BY <1>2, SlaveTimes
<1>9. /\ n <= FrameSize => SlaveTime' = (FrameSize - n) * t + (t - s_tick') + Handling
      /\ ~(n <= FrameSize) => SlaveTime' = (t - s_tick') + 1
  <2>1. /\ s_state' = "IDLE" /\ ~Listening' /\ s_rx'.size <= FrameSize =>
             SlaveTime' = (FrameSize - s_rx'.size) * SlaveT35 + (SlaveT35 - s_tick') + Handling
        /\ s_state' = "IDLE" /\ ~Listening' /\ ~(s_rx'.size <= FrameSize) =>
             SlaveTime' = (SlaveT35 - s_tick') + 1
    BY Zenon DEF SlaveTime, SlaveState, Listening
  <2> QED
    BY <1>5, <2>1
<1> HIDE DEF s, n, t
<1>10. CASE n = s /\ s_tick' = s_tick + 1
  <2>1. CASE s <= FrameSize
    <3> DEFINE p == (FrameSize - s) * t
    <3>1. p \in Nat
      BY <1>7, <2>1, TimesTypes, ProductOrder
    <3>2. SlaveTime = p + (t - s_tick) + Handling /\ SlaveTime' = p + (t - s_tick') + Handling
      BY <1>8, <1>9, <1>10, <2>1
    <3> HIDE DEF p
    <3> QED
      BY <1>4, <1>7, <1>10, <3>1, <3>2, HearingTypes
  <2>2. CASE ~(s <= FrameSize)
    BY <1>4, <1>7, <1>8, <1>9, <1>10, <2>2
  <2> QED
    BY <2>1, <2>2
<1>11. CASE n > s /\ s_tick' = 0
  <2>0. s <= FrameSize
    BY <1>7, <1>11, TimesTypes
  <2> DEFINE p == (FrameSize - s) * t
             q == (FrameSize - n) * t
  <2>1. p \in Nat
    BY <1>7, <2>0, TimesTypes, ProductOrder
  <2>2. SlaveTime = p + (t - s_tick) + Handling
    BY <1>8, <2>0
  <2>3. CASE n <= FrameSize
    <3>1. q \in Nat /\ q + t <= p
      <4>1. FrameSize - n \in Nat /\ FrameSize - s \in Nat /\ (FrameSize - n) + 1 \in Nat
            /\ (FrameSize - n) + 1 <= FrameSize - s
        BY <1>7, <1>11, <2>0, <2>3, TimesTypes
      <4>2. q \in Nat /\ ((FrameSize - n) + 1) * t = q + t
        BY <1>7, <4>1, ProductOrder
      <4>3. ((FrameSize - n) + 1) * t <= p
        BY <1>7, <4>1, ProductOrder
      <4> QED
        BY <4>2, <4>3
    <3>2. SlaveTime' = q + (t - s_tick') + Handling
      BY <1>9, <2>3
    <3> HIDE DEF p, q
    <3> QED
      BY <1>4, <1>7, <1>11, <2>1, <2>2, <3>1, <3>2, HearingTypes
  <2>4. CASE ~(n <= FrameSize)
    <3>1. SlaveTime' = (t - s_tick') + 1
      BY <1>9, <2>4
    <3> HIDE DEF p, q
    <3>2. Handling \in Nat /\ Handling >= t + 1
      BY HearingTypes DEF t
    <3> QED
      BY <1>4, <1>7, <1>11, <2>1, <2>2, <3>1, <3>2
  <2> QED
    BY <2>3, <2>4
<1> QED
  BY <1>7, <1>10, <1>11

LEMMA FrameEndTime ==
    ASSUME SlaveState, SlaveState', SlaveFacts, GoesOn, ~Listening,
           NEW f \in Slave!Frames, Slave!SkipFrame(f) \/ Slave!TakeFrame(f)
    PROVE  GoesOn' /\ SlaveTime' <= SlaveTime - 1
<1>1. Slave!Poll(f) /\ Slave!FrameEnded(f)
  BY DEF Slave!SkipFrame, Slave!TakeFrame
<1>2. s_state = "IDLE" /\ s_rx.size \in 1 .. FrameSize + 1 /\ s_tick \in Nat /\ s_tick < SlaveT35
  BY <1>1, PollCases DEF SlaveState, GoesOn, Listening
<1>3. f = s_rx
  BY <1>1, <1>2, PollCases, TimesTypes DEF Slave!FrameEnded
<1>4. SlaveTime >= 2 /\ (s_rx.size = FrameSize => SlaveTime >= Waits + 5)
  <2>1. SlaveTime \in Nat /\ SlaveTime >= 2
    BY <1>2, SlaveTimeTypes
  <2>2. CASE s_rx.size = FrameSize
    <3>1. SlaveTime = (FrameSize - FrameSize) * SlaveT35 + (SlaveT35 - s_tick) + Handling
      BY <1>2, <2>2, SlaveTimes, TimesTypes
    <3>2. (FrameSize - FrameSize) * SlaveT35 = 0
      <4>1. FrameSize - FrameSize = 0
        BY TimesTypes
      <4>2. 0 * SlaveT35 = 0
        BY TimesTypes
      <4> QED
        BY <4>1, <4>2
    <3> QED
      BY <1>2, <2>1, <3>1, <3>2, HearingTypes, TimesTypes
  <2> QED
    BY <2>1, <2>2
<1>5. CASE Slave!SkipFrame(f)
  <2>1. Listening'
    BY <1>2, <1>5 DEF Slave!SkipFrame, Listening
  <2>2. SlaveTime' = 0
    BY <2>1, Zenon DEF SlaveTime, Listening
  <2> QED
    BY <1>4, <2>1, <2>2, <1>2, SlaveTimeTypes DEF GoesOn
<1>6. CASE Slave!TakeFrame(f)
  <2>1. s_state' = "CRC" /\ s_rx' = s_rx
    BY <1>3, <1>6 DEF Slave!TakeFrame
  <2>2. SlaveTime' = IF s_rx.size = FrameSize THEN Waits + 4 ELSE 1
    <3>1. s_state' = "CRC" => SlaveTime' = IF s_rx'.size = FrameSize THEN Waits + 4 ELSE 1
      BY Zenon DEF SlaveTime, SlaveState, Listening
    <3> QED
      BY <2>1, <3>1
  <2>3. SlaveTime \in Nat /\ Waits \in Nat
    BY SlaveTimeTypes, HearingTypes
  <2> QED
    BY <1>4, <2>1, <2>2, <2>3 DEF GoesOn
<1> QED
  BY <1>5, <1>6

LEMMA ExecutionTime ==
    ASSUME SlaveState, SlaveState', SlaveFacts, GoesOn,
           \/ Slave!CrcWrong \/ Slave!CrcRight \/ Slave!Execute
           \/ Slave!WaitTick \/ Slave!Answer \/ Slave!AnswerLeft
    PROVE  GoesOn' /\ SlaveTime' <= SlaveTime - 1
<1>1. /\ Listening' => SlaveTime' = 0
      /\ s_state' = "CRC" => SlaveTime' = IF s_rx'.size = FrameSize THEN Waits + 4 ELSE 1
      /\ s_state' = "PDU" => SlaveTime' = Waits + 3
      /\ s_state' = "WAITOPER" =>
            SlaveTime' = IF s_tick' <= ParamWait
                         THEN (ParamWait - s_tick') \div ControlInterval + 3
                         ELSE 2
      /\ s_state' = "WAITDIR" => SlaveTime' = 1
  BY Zenon DEF SlaveTime, SlaveState, Listening
<1>2. SlaveTime \in Nat /\ Waits \in Nat /\ Waits >= 1
  <2>1. ParamWait \div ControlInterval \in Nat
    BY TimesTypes, Division
  <2> QED
    BY <2>1, SlaveTimeTypes DEF Waits
<1>3. CASE Slave!CrcWrong
  <2>1. Listening' /\ s_state = "CRC"
    BY <1>3 DEF Slave!CrcWrong, Listening
  <2> QED
    BY <1>1, <1>2, <2>1, SlaveTimeTypes DEF GoesOn
<1>4. CASE Slave!CrcRight
  <2>1. s_state' = "PDU" /\ s_state = "CRC" /\ s_rx.size = FrameSize
    BY <1>4 DEF Slave!CrcRight, Slave!Damaged
  <2> QED
    BY <1>1, <1>2, <2>1, SlaveTimes DEF GoesOn
<1>5. CASE Slave!Execute
  <2>1. s_state = "PDU" /\ s_state' = "WAITOPER" /\ s_tick' = 0
    BY <1>5 DEF Slave!Execute, SlaveState
  <2>2. SlaveTime' = ParamWait \div ControlInterval + 3
    BY <1>1, <2>1, TimesTypes
  <2> DEFINE q == ParamWait \div ControlInterval
  <2>3. SlaveTime' = q + 3 /\ Waits = q + 1 /\ q \in Int
    BY <2>2, TimesTypes, Division DEF Waits
  <2> HIDE DEF q
  <2>4. SlaveTime = Waits + 3
    BY <2>1, SlaveTimes
  <2> QED
    BY <2>1, <2>3, <2>4 DEF GoesOn
<1>6. CASE Slave!WaitTick
  <2>1. s_state = "WAITOPER" /\ s_state' = "WAITOPER" /\ s_tick <= ParamWait
        /\ s_tick' = s_tick + ControlInterval /\ s_tick \in Nat
    <3>1. /\ s_state = "WAITOPER" /\ s_state' = "WAITOPER" /\ s_tick <= ParamWait
          /\ s_tick' = Slave!Wrapped(s_tick + ControlInterval) /\ s_tick \in Nat
      BY <1>6 DEF Slave!WaitTick, SlaveState
    <3>2. s_tick + ControlInterval \in Nat
          /\ s_tick + ControlInterval <= ParamWait + ControlInterval
      BY <3>1, TimesTypes
    <3>3. Slave!Wrapped(s_tick + ControlInterval) = s_tick + ControlInterval
      BY <3>2, TickFits
    <3> QED
      BY <3>1, <3>3
  <2> DEFINE x == ParamWait - s_tick
  <2>2. x \in Nat /\ x \div ControlInterval \in Nat
        /\ (x - ControlInterval) \div ControlInterval = x \div ControlInterval - 1
    <3>1. x \in Nat
      BY <2>1, TimesTypes
    <3> HIDE DEF x
    <3>2. x \in Int /\ x >= 0 /\ ControlInterval \in Nat \ {0}
      BY <3>1, TimesTypes
    <3>3. /\ x \div ControlInterval \in Int
          /\ x \div ControlInterval >= 0
          /\ (x - ControlInterval) \div ControlInterval = x \div ControlInterval - 1
      BY <3>2, Division
    <3> QED
      BY <3>1, <3>3
  <2>3. ParamWait - s_tick' = x - ControlInterval
    BY <2>1, TimesTypes
  <2>4. SlaveTime = x \div ControlInterval + 3
    BY <2>1, SlaveTimes
  <2>5. SlaveTime' = IF s_tick' <= ParamWait
                     THEN (x - ControlInterval) \div ControlInterval + 3 ELSE 2
    BY <1>1, <2>1, <2>3
  <2> HIDE DEF x
  <2> QED
    BY <2>1, <2>2, <2>4, <2>5 DEF GoesOn
<1>7. CASE Slave!Answer
  <2>1. s_state = "WAITOPER" /\ s_state' = "WAITDIR" /\ s_tick > ParamWait /\ s_tick \in Nat
    BY <1>7 DEF Slave!Answer, SlaveState
  <2>2. SlaveTime = 2
    BY <2>1, SlaveTimes, TimesTypes
  <2> QED
    BY <1>1, <2>1, <2>2 DEF GoesOn
<1>8. CASE Slave!AnswerLeft
  <2>1. Listening' /\ s_state = "WAITDIR"
    BY <1>8 DEF Slave!AnswerLeft, Listening
  <2> QED
    BY <1>1, <2>1, SlaveTimes DEF GoesOn
<1> QED
  BY <1>3, <1>4, <1>5, <1>6, <1>7, <1>8

-----------------------------------------------------------------------------
(***************************************************************************)
(* The calls of the slave: it hears a frame, finds none, works on the one  *)
(* it has, or transmits the answer.                                        *)
(***************************************************************************)
Hears ==
    /\ Listening
    /\ line.by = "master"
    /\ line' = Silence
    /\ carried' = Append(carried, line.id)
    /\ s_heard' = s_heard + 1
    /\ UNCHANGED s_registers
    /\ GoesOn'
    /\ \/ Listening'
       \/ /\ ~Listening'
          /\ s_state' \in {"IDLE", "CRC"}
          /\ s_rx'.to = line.to
          /\ s_rx'.val = line.id

FindsNone ==
    /\ Listening
    /\ Listening'
    /\ line.by # "master"
    /\ UNCHANGED <<line, carried, s_heard, s_registers>>

Works ==
    /\ ~Listening
    /\ UNCHANGED <<line, carried, s_heard>>
    /\ GoesOn'
    /\ SlaveTime' <= SlaveTime - 1
    /\ ~Listening' => s_rx'.to = s_rx.to /\ s_rx'.val = s_rx.val
    /\ s_state # "PDU" => UNCHANGED s_registers
    /\ s_state' = "WAITDIR" => s_state = "WAITDIR"
    /\ s_state' = "WAITOPER" =>
          \/ s_state = "WAITOPER" /\ UNCHANGED s_tx
          \/ s_state = "PDU" /\ (s_tx'.kind = "response" => s_registers'["area"] = s_rx.val)

Transmits ==
    /\ s_state = "WAITOPER"
    /\ s_state' = "WAITDIR"
    /\ line' = [by |-> "slave", to |-> SlaveAddress,
                id |-> carried[s_tx.id], kind |-> s_tx.kind]
    /\ UNCHANGED <<carried, s_heard, s_registers>>
    /\ GoesOn'
    /\ SlaveTime' <= SlaveTime - 1

LEMMA PollingCalls ==
    ASSUME SlaveState, SlaveState', SlaveFacts, GoesOn, SlaveRun,
           NEW f \in Slave!Frames,
           Slave!Listen(f) \/ Slave!SkipFrame(f) \/ Slave!TakeFrame(f)
    PROVE  Hears \/ FindsNone \/ Works
<1>1. Slave!Poll(f) /\ s_state = "IDLE" /\ UNCHANGED <<s_registers, s_tx>>
  BY DEF Slave!Listen, Slave!SkipFrame, Slave!TakeFrame, Slave!Poll
<1>2. ~SlaveTransmits
  BY <1>1 DEF SlaveTransmits
<1>3. s_heard \in Nat /\ (SlaveHears <=> s_heard' # s_heard)
  BY DEF SlaveFacts, SlaveHears
<1>4. CASE SlaveHears
  <2>1. Listening /\ s_heard' = s_heard + 1 /\ f.size \in 1 .. FrameSize + 1
    BY <1>1, <1>3, <1>4, PollCases
  <2>2. /\ line.by = "master" /\ carried' = Append(carried, line.id) /\ line' = Silence
        /\ IF s_rx' = Slave!NoFrame
           THEN ~Slave!CheckAddres(line)
           ELSE s_rx'.to = line.to /\ s_rx'.val = line.id
    BY <1>2, <1>4 DEF SlaveRun
  <2>3. s_state' \in {"IDLE", "CRC"}
    BY <1>1 DEF Slave!Listen, Slave!SkipFrame, Slave!TakeFrame
  <2>4. GoesOn'
    <3>1. CASE Slave!Listen(f)
      <4>1. s_tick' = Slave!TickAfter(f) /\ ~Slave!FrameEnded(f) /\ s_rx' = f
        BY <3>1 DEF Slave!Listen
      <4>2. ~(s_tick' >= SlaveT35) /\ s_tick' \in Nat
        BY <2>1, <4>1, TimesTypes DEF Slave!FrameEnded, SlaveState
      <4> QED
        BY <4>2, TimesTypes DEF GoesOn
    <3>2. CASE Slave!SkipFrame(f) \/ Slave!TakeFrame(f)
      BY <1>1, <3>2 DEF Slave!SkipFrame, Slave!TakeFrame, GoesOn, Listening
    <3> QED
      BY <3>1, <3>2
  <2>5. s_rx' = Slave!NoFrame => Listening'
    BY <2>3 DEF Listening, SlaveState
  <2> QED
    BY <1>1, <2>1, <2>2, <2>3, <2>4, <2>5 DEF Hears, Listening
<1>5. CASE ~SlaveHears /\ Listening
  <2>1. f = Slave!NoFrame /\ s_heard' = s_heard
    BY <1>1, <1>3, <1>5, PollCases
  <2>2. ~Slave!FrameEnded(f)
    BY <2>1 DEF Slave!FrameEnded, Slave!NoFrame
  <2>3. Listening'
    BY <1>1, <2>1, <2>2 DEF Slave!Listen, Slave!SkipFrame, Slave!TakeFrame, Listening
  <2>4. ~SlaveMustHear /\ UNCHANGED <<line, carried>>
    BY <1>2, <1>5 DEF SlaveRun
  <2> QED
    BY <1>1, <1>5, <2>1, <2>3, <2>4 DEF FindsNone, SlaveMustHear, Listening
<1>6. CASE ~SlaveHears /\ ~Listening
  <2>1. UNCHANGED <<line, carried, s_heard>>
    BY <1>2, <1>3, <1>6 DEF SlaveRun
  <2>2. GoesOn' /\ SlaveTime' <= SlaveTime - 1
    BY <1>6, ListenTime, FrameEndTime
  <2>3. f.to = s_rx.to /\ f.val = s_rx.val
    BY <1>1, <1>6, PolledFrame
  <2>4. ~Listening' => s_rx' = f
    BY <1>1 DEF Slave!Listen, Slave!SkipFrame, Slave!TakeFrame, Listening
  <2>5. s_state' \notin {"WAITDIR", "WAITOPER"}
    BY <1>1 DEF Slave!Listen, Slave!SkipFrame, Slave!TakeFrame
  <2> QED
    BY <1>1, <1>6, <2>1, <2>2, <2>3, <2>4, <2>5 DEF Works
<1> QED
  BY <1>4, <1>5, <1>6

LEMMA WorkingCalls ==
    ASSUME SlaveState, SlaveState', SlaveFacts, GoesOn, SlaveRun,
           \/ Slave!CrcWrong \/ Slave!CrcRight \/ Slave!Execute
           \/ Slave!WaitTick \/ Slave!Answer \/ Slave!AnswerLeft
    PROVE  Works \/ Transmits
<1>1. s_state \in {"CRC", "PDU", "WAITOPER", "WAITDIR"} /\ ~Listening /\ s_heard' = s_heard
  BY DEF Slave!CrcWrong, Slave!CrcRight, Slave!Execute, Slave!WaitTick, Slave!Answer,
      Slave!AnswerLeft, Slave!historyVars, Listening
<1>2. GoesOn' /\ SlaveTime' <= SlaveTime - 1
  BY ExecutionTime
<1>3. ~SlaveHears
  BY <1>1 DEF SlaveHears
<1>4. s_state # "PDU" => UNCHANGED s_registers
  BY DEF Slave!CrcWrong, Slave!CrcRight, Slave!Execute, Slave!WaitTick, Slave!Answer,
      Slave!AnswerLeft
<1>5. CASE Slave!Answer
  <2>1. s_state = "WAITOPER" /\ s_state' = "WAITDIR"
    BY <1>5 DEF Slave!Answer
  <2>2. /\ line' = [by |-> "slave", to |-> SlaveAddress,
                    id |-> carried[s_tx.id], kind |-> s_tx.kind]
        /\ UNCHANGED carried
    BY <1>3, <2>1 DEF SlaveRun, SlaveTransmits
  <2> QED
    BY <1>1, <1>2, <1>4, <2>1, <2>2 DEF Transmits
<1>6. CASE Slave!Execute
  <2>1. s_state = "PDU" /\ s_state' = "WAITOPER" /\ s_rx' = s_rx
    BY <1>6 DEF Slave!Execute
  <2>2. UNCHANGED <<line, carried>>
    BY <1>3, <2>1 DEF SlaveRun, SlaveTransmits
  <2>3. s_tx'.kind = "response" => s_registers'["area"] = s_rx.val
    <3>1. s_rx.func = "WRITE_SINGLE" /\ s_rx.area = "area" /\ DOMAIN s_registers = {"area"}
      BY <1>1 DEF SlaveState
    <3>2. Slave!Write
      BY <1>6, <3>1 DEF Slave!Execute, Slave!ReadHolding, Slave!IllegalFunction
    <3>3. PICK res \in WriteResults :
             /\ s_tx' = IF s_rx.area \in {"area"} /\ res = "OK"
                        THEN Slave!Response(s_rx.val) ELSE Slave!Exception
             /\ s_registers' = IF s_rx.area \in {"area"} /\ res = "OK"
                               THEN [s_registers EXCEPT ![s_rx.area] = s_rx.val]
                               ELSE s_registers
      BY <3>2, Zenon DEF Slave!Write
    <3>4. Slave!Exception.kind # "response"
      BY DEF Slave!Exception
    <3> QED
      BY <3>1, <3>3, <3>4
  <2> QED
    BY <1>1, <1>2, <2>1, <2>2, <2>3 DEF Works
<1>7. CASE Slave!CrcWrong \/ Slave!CrcRight \/ Slave!WaitTick \/ Slave!AnswerLeft
  <2>1. /\ s_state' # "WAITDIR" /\ UNCHANGED s_registers
        /\ s_state' = "WAITOPER" => s_state = "WAITOPER" /\ UNCHANGED s_tx
        /\ ~Listening' => s_rx' = s_rx
    BY <1>7 DEF Slave!CrcWrong, Slave!CrcRight, Slave!WaitTick, Slave!AnswerLeft, Listening
  <2>2. UNCHANGED <<line, carried>>
    BY <1>3, <2>1 DEF SlaveRun, SlaveTransmits
  <2> QED
    BY <1>1, <1>2, <2>1, <2>2 DEF Works
<1> QED
  BY <1>5, <1>6, <1>7

LEMMA SlaveCalls ==
    ASSUME SlaveState, SlaveState', SlaveFacts, GoesOn, SlaveRun
    PROVE  /\ Hears \/ FindsNone \/ Works \/ Transmits
           /\ lead' = lead - 1
           /\ lead > 0 - Drift
           /\ UNCHANGED masterVars
<1>1. Slave!Run
  BY DEF SlaveRun
<1>2. ASSUME NEW f \in Slave!Frames,
             Slave!Listen(f) \/ Slave!SkipFrame(f) \/ Slave!TakeFrame(f)
      PROVE  Hears \/ FindsNone \/ Works
  BY <1>2, PollingCalls
<1>3. Hears \/ FindsNone \/ Works \/ Transmits
  BY <1>1, <1>2, WorkingCalls DEF Slave!Run
<1> QED
  BY <1>3 DEF SlaveRun

-----------------------------------------------------------------------------
(***************************************************************************)
(* The answers slaves owe the master are a bag, so that the one the master *)
(* hears is the one that leaves it.                                        *)
(***************************************************************************)
Without(B, p) ==
    LET C == [e \in DOMAIN B |-> IF e = p THEN B[e] - 1 ELSE B[e]]
    IN  [e \in {d \in DOMAIN B : C[d] > 0} |-> C[e]]

LEMMA BagWithout ==
    ASSUME NEW B, NEW p
    PROVE  /\ B (-) SetToBag({p}) = Without(B, p)
           /\ Master!(-)(B, Master!SetToBag({p})) = Without(B, p)
<1> DEFINE one == [e \in {p} |-> 1]
<1>1. \A e : (e \in DOMAIN one <=> e = p) /\ one[p] = 1
  OBVIOUS
<1>2. [e \in DOMAIN B |-> IF e \in DOMAIN one THEN B[e] - one[e] ELSE B[e]]
      = [e \in DOMAIN B |-> IF e = p THEN B[e] - 1 ELSE B[e]]
  BY <1>1
<1> DEFINE C == [e \in DOMAIN B |-> IF e = p THEN B[e] - 1 ELSE B[e]]
<1>3. DOMAIN C = DOMAIN B
  OBVIOUS
<1> HIDE DEF one, C
<1>4. /\ B (-) one = Without(B, p)
      /\ Master!(-)(B, one) = Without(B, p)
  BY <1>2, <1>3 DEF (-), Master!(-), Without, C
<1> QED
  BY <1>4 DEF one, SetToBag, Master!SetToBag

LEMMA BagRemoval ==
    ASSUME NEW B, IsABag(B), NEW p \in DOMAIN B, NEW q
    PROVE  /\ IsABag(Without(B, p))
           /\ Without(B, p) # B
           /\ Without(B, p) = Without(B, q) => p = q
<1>1. \A e \in DOMAIN B : B[e] \in Nat /\ B[e] > 0
  BY DEF IsABag
<1> DEFINE C(x) == [e \in DOMAIN B |-> IF e = x THEN B[e] - 1 ELSE B[e]]
<1>2. \A x : Without(B, x) = [e \in {d \in DOMAIN B : C(x)[d] > 0} |-> C(x)[e]]
  BY DEF Without
<1>3. \A x : \A e \in DOMAIN B : C(x)[e] = IF e = x THEN B[e] - 1 ELSE B[e]
  OBVIOUS
<1> HIDE DEF C
<1>4. \A x : /\ \A e : e \in DOMAIN Without(B, x) <=> e \in DOMAIN B /\ C(x)[e] > 0
             /\ \A e \in DOMAIN Without(B, x) : Without(B, x)[e] = C(x)[e]
  BY <1>2
<1>5. IsABag(Without(B, p))
  <2> DEFINE W == Without(B, p)
  <2>1. W = [e \in DOMAIN W |-> W[e]]
    BY <1>2
  <2>2. \A e \in DOMAIN W : W[e] \in Nat /\ W[e] > 0
    BY <1>1, <1>3, <1>4
  <2> HIDE DEF W
  <2>3. W \in [DOMAIN W -> {n \in Nat : n > 0}]
    BY <2>1, <2>2
  <2> QED
    BY <2>3 DEF IsABag, W
<1>6. Without(B, p) # B
  <2> SUFFICES ASSUME Without(B, p) = B PROVE FALSE
    OBVIOUS
  <2>1. B[p] = C(p)[p]
    BY <1>4
  <2> QED
    BY <1>1, <1>3, <2>1
<1>7. ASSUME Without(B, p) = Without(B, q), p # q PROVE FALSE
  <2>1. C(q)[p] = B[p] /\ B[p] > 0
    BY <1>1, <1>3, <1>7
  <2>2. p \in DOMAIN Without(B, q) /\ Without(B, q)[p] = B[p]
    BY <1>4, <2>1
  <2>3. Without(B, p)[p] = C(p)[p]
    BY <1>4, <1>7, <2>2
  <2> QED
    BY <1>1, <1>3, <1>7, <2>2, <2>3
<1> QED
  BY <1>5, <1>6, <1>7

-----------------------------------------------------------------------------
(***************************************************************************)
(* The calls of the master.                                                *)
(***************************************************************************)
TransmitsRequest ==
    /\ state = "IDLE" /\ state' = "TRANSCOMPLT"
    /\ timer_wfr' = 0 /\ timer_tad' = 0
    /\ rx' = Master!NoFrame
    /\ line' = [by |-> "master", to |-> fetched'.header,
                id |-> fetched'.body.id, kind |-> "request"]

StaysQuiet ==
    /\ state \in {"IDLE", "PROCESS"} /\ state' = "IDLE"
    /\ UNCHANGED line

HasTransmitted ==
    /\ state = "TRANSCOMPLT"
    /\ state' = IF fetched.header = Master!Broadcast THEN "TURN" ELSE "WAIT"
    /\ UNCHANGED <<fetched, rx, timer_wfr, timer_tad, line>>

LeavesTime ==
    /\ state = "TURN"
    /\ UNCHANGED <<fetched, line>>
    /\ \/ state' = "TURN" /\ timer_tad' = timer_tad + 1
       \/ state' = "IDLE" /\ timer_tad + 1 > ParamTad

StopsWaiting ==
    /\ state = "WAIT" /\ state' \in {"IDLE", "PROCESS"}
    /\ timer_wfr + 1 > ParamWfr
    /\ UNCHANGED <<fetched, rx, line>>

\* What the driver holds is what it held, or more of it, or is thrown away.
Waiting ==
    /\ state = "WAIT" /\ state' \in {"WAIT", "PROCESS"}
    /\ timer_wfr' = timer_wfr + 1
    /\ UNCHANGED <<fetched, line>>
    /\ line.by = "slave" => rx # Master!NoFrame
    /\ state' = "PROCESS" => rx # Master!NoFrame
    /\ rx' # Master!NoFrame =>
          rx # Master!NoFrame /\ rx'.id = rx.id /\ rx'.kind = rx.kind

HearsAnswer ==
    /\ state = "WAIT" /\ state' = "WAIT"
    /\ timer_wfr' = timer_wfr + 1
    /\ UNCHANGED fetched
    /\ line.by = "slave" /\ line' = Silence
    /\ rx = Master!NoFrame
    /\ rx' # Master!NoFrame => rx'.id = line.id /\ rx'.kind = line.kind

\* A poll changes the bag by the answer it begins to hear, if any.
LEMMA PollOfMaster ==
    ASSUME MasterRun, IsABag(wire), NEW f \in Master!Frames, Master!Poll(f)
    PROVE  /\ IsABag(wire')
           /\ \/ /\ wire' = wire
                 /\ f # Master!NoFrame =>
                       rx # Master!NoFrame /\ f.id = rx.id /\ f.kind = rx.kind
              \/ /\ wire' # wire /\ rx = Master!NoFrame
                 /\ wire' = wire (-) SetToBag({[to |-> line.to, id |-> line.id]})
                       => f.id = line.id
<1>1. Master!Driver(f)
  BY DEF Master!Poll
<1>2. CASE f = rx /\ UNCHANGED wire
  BY <1>2
<1>3. CASE /\ f \in {[rx EXCEPT !.size = n] : n \in rx.size + 1 .. FrameSize}
           /\ rx # Master!NoFrame
           /\ UNCHANGED wire
  <2>1. PICK n \in rx.size + 1 .. FrameSize : f = [rx EXCEPT !.size = n]
    BY <1>3
  <2>2. "id" \in DOMAIN f /\ "kind" \in DOMAIN f
    BY DEF Master!Frames, Master!NoFrame
  <2>3. f.id = rx.id /\ f.kind = rx.kind
    BY <2>1, <2>2
  <2> QED
    BY <1>3, <2>3
<1>4. CASE /\ rx = Master!NoFrame
           /\ \E p \in Master!BagToSet(wire) :
                 /\ f \in [from : {p.to}, id : {p.id},
                           kind : {"response", "exception"}, size : 1 .. FrameSize]
                 /\ wire' = Master!(-)(wire, Master!SetToBag({p}))
  <2>1. PICK p \in DOMAIN wire : /\ f.id = p.id
                                 /\ wire' = Master!(-)(wire, Master!SetToBag({p}))
    BY <1>4 DEF Master!BagToSet
  <2>2. wire' = Without(wire, p)
    BY <2>1, BagWithout, Zenon
  <2>3. IsABag(wire') /\ wire' # wire
    BY <2>2, BagRemoval
  <2>4. ASSUME wire' = wire (-) SetToBag({[to |-> line.to, id |-> line.id]})
        PROVE  f.id = line.id
    <3> DEFINE q == [to |-> line.to, id |-> line.id]
    <3>1. q.id = line.id
      OBVIOUS
    <3> HIDE DEF q
    <3>2. wire' = Without(wire, q)
      BY <2>4, BagWithout, Zenon DEF q
    <3>3. p = q
      BY <2>2, <3>2, BagRemoval
    <3> QED
      BY <2>1, <3>1, <3>3
  <2> QED
    BY <1>4, <2>3, <2>4
<1> QED
  BY <1>1, <1>2, <1>3, <1>4 DEF Master!Driver

LEMMA PollingMaster ==
    ASSUME MasterState, MasterRun, IsABag(wire), NEW f \in Master!Frames,
           Master!FrameGoesOn(f) \/ Master!FrameEnds(f)
    PROVE  IsABag(wire') /\ (Waiting \/ HearsAnswer)
<1>1. Master!Poll(f)
  BY DEF Master!FrameGoesOn, Master!FrameEnds
<1>2. /\ state = "WAIT" /\ timer_wfr' = timer_wfr + 1 /\ fetched' = fetched
      /\ rx' = f \/ rx' = Master!NoFrame
  BY <1>1 DEF Master!Poll, Master!Heard, Master!queueVars
<1>3. /\ state' \in {"WAIT", "PROCESS"}
      /\ state' = "PROCESS" => rx # Master!NoFrame
  BY <1>2 DEF Master!FrameGoesOn, Master!FrameEnds, Master!Unchanged, Master!NoFrame
<1>4. timer_wfr' # 0
  BY <1>2 DEF MasterState
<1>5. ~MasterTransmits
  BY <1>2 DEF MasterTransmits
<1>6. CASE wire' = wire
  <2>1. line' = line /\ ~MasterMustHear
    BY <1>2, <1>5, <1>6 DEF MasterRun, MasterHears
  <2>2. line.by = "slave" => rx # Master!NoFrame
    BY <1>2, <1>4, <2>1 DEF MasterMustHear
  <2>3. rx' # Master!NoFrame =>
            rx # Master!NoFrame /\ rx'.id = rx.id /\ rx'.kind = rx.kind
    BY <1>1, <1>2, <1>6, PollOfMaster
  <2> QED
    BY <1>1, <1>2, <1>3, <2>1, <2>2, <2>3, PollOfMaster DEF Waiting
<1>7. CASE wire' # wire
  <2>1. /\ line.by = "slave" /\ line' = Silence
        /\ wire' = wire (-) SetToBag({[to |-> line.to, id |-> line.id]})
        /\ rx' # Master!NoFrame => rx'.kind = line.kind
    BY <1>2, <1>5, <1>7 DEF MasterRun, MasterHears
  <2>2. rx = Master!NoFrame /\ f.id = line.id /\ IsABag(wire')
    BY <1>1, <1>7, <2>1, PollOfMaster
  <2>3. state' = "WAIT"
    BY <1>3, <2>2
  <2> QED
    BY <1>2, <2>1, <2>2, <2>3 DEF HearsAnswer
<1> QED
  BY <1>6, <1>7

LEMMA BagAddition ==
    ASSUME NEW B, IsABag(B), NEW p
    PROVE  IsABag(Master!(+)(B, Master!SetToBag({p})))
<1> DEFINE one == [e \in {p} |-> 1]
<1>1. \A e : (e \in DOMAIN one <=> e = p) /\ one[p] = 1
  OBVIOUS
<1>2. \A e \in DOMAIN B : B[e] \in Nat /\ B[e] > 0
  BY DEF IsABag
<1> HIDE DEF one
<1> DEFINE S == Master!(+)(B, one)
<1>3. S = [e \in DOMAIN B \cup DOMAIN one |->
              (IF e \in DOMAIN B THEN B[e] ELSE 0)
              + (IF e \in DOMAIN one THEN one[e] ELSE 0)]
  BY DEF Master!(+)
<1>4. DOMAIN S = DOMAIN B \cup DOMAIN one
  BY <1>3
<1>5. \A e \in DOMAIN S : S[e] \in {n \in Nat : n > 0}
  BY <1>1, <1>2, <1>3
<1>6. S = [e \in DOMAIN S |-> S[e]]
  BY <1>3
<1> HIDE DEF S
<1>7. IsABag(S)
  BY <1>5, <1>6 DEF IsABag
<1> QED
  BY <1>7 DEF S, one, Master!SetToBag

LEMMA MasterCalls ==
    ASSUME MasterState, IsABag(wire), MasterRun
    PROVE  /\ \/ TransmitsRequest
              \/ StaysQuiet
              \/ HasTransmitted
              \/ LeavesTime
              \/ StopsWaiting
              \/ Waiting
              \/ HearsAnswer
           /\ IsABag(wire')
           /\ lead < Drift
           /\ lead' = lead + 1
           /\ UNCHANGED <<slaveVars, carried>>
<1> DEFINE Shapes == \/ TransmitsRequest \/ StaysQuiet \/ HasTransmitted \/ LeavesTime
                      \/ StopsWaiting \/ Waiting \/ HearsAnswer
<1>1. ASSUME Master!Transmit PROVE IsABag(wire') /\ Shapes
  <2>1. /\ state = "IDLE" /\ state' = "TRANSCOMPLT"
        /\ timer_wfr' = 0 /\ timer_tad' = 0 /\ rx' = Master!NoFrame
        /\ wire' = Master!OnTheLine
    BY <1>1 DEF Master!Transmit, Master!BeginRequest
  <2>2. line' = [by |-> "master", to |-> fetched'.header,
                 id |-> fetched'.body.id, kind |-> "request"]
    BY <2>1 DEF MasterRun, MasterTransmits, MasterHears
  <2>3. IsABag(wire')
    BY <2>1, BagAddition DEF Master!OnTheLine
  <2> QED
    BY <2>1, <2>2, <2>3 DEF TransmitsRequest
<1>2. ASSUME \/ Master!SkipUnsupported \/ Master!TransmitRefused
             \/ Master!GiveUp \/ Master!RetryRequest \/ Master!Complete
      PROVE  IsABag(wire') /\ Shapes
  <2>1. state \in {"IDLE", "PROCESS"} /\ state' = "IDLE" /\ wire' = wire
    BY <1>2 DEF Master!SkipUnsupported, Master!TransmitRefused, Master!GiveUp,
       Master!RetryRequest, Master!Complete, Master!BeginRequest, Master!lineVars
  <2>2. line' = line
    BY <2>1 DEF MasterRun, MasterTransmits, MasterHears
  <2>3. IsABag(wire')
    BY <2>1, Zenon
  <2> QED
    BY <2>1, <2>2, <2>3 DEF StaysQuiet
<1>3. ASSUME \/ Master!TransmitCompleted \/ Master!TurnaroundTick \/ Master!TurnaroundOver
             \/ Master!WaitExpired
      PROVE  IsABag(wire') /\ Shapes
  <2>1. /\ UNCHANGED <<fetched, rx, wire>>
        /\ state # "IDLE"
    BY <1>3 DEF Master!TransmitCompleted, Master!TurnaroundTick, Master!TurnaroundOver,
       Master!WaitExpired, Master!lineVars, Master!queueVars
  <2>2. line' = line
    BY <2>1 DEF MasterRun, MasterTransmits, MasterHears
  <2>3. IsABag(wire')
    BY <2>1, Zenon
  <2> QED
    BY <1>3, <2>1, <2>2, <2>3 DEF Master!TransmitCompleted, Master!TurnaroundTick,
       Master!TurnaroundOver, Master!WaitExpired, HasTransmitted, LeavesTime, StopsWaiting
<1>4. ASSUME NEW f \in Master!Frames, Master!FrameGoesOn(f) \/ Master!FrameEnds(f)
      PROVE  IsABag(wire') /\ Shapes
  BY <1>4, PollingMaster
<1>5. Master!Run /\ lead < Drift /\ lead' = lead + 1 /\ UNCHANGED <<slaveVars, carried>>
  BY DEF MasterRun
<1>6. IsABag(wire') /\ Shapes
  <2> HIDE DEF Shapes
  <2> QED
    BY <1>1, <1>2, <1>3, <1>4, <1>5 DEF Master!Run
<1> QED
  BY <1>5, <1>6

-----------------------------------------------------------------------------
(***************************************************************************)
(* The invariant of time and owner: while the master waits, the calls the  *)
(* slave still needs fit into the wait, so what the slave works on is what *)
(* the master waits for, and between two requests nothing is under way.    *)
(***************************************************************************)
Left == IF line.by = "master" THEN Hearing + SlaveTime ELSE SlaveTime

Awaiting == state \in {"TRANSCOMPLT", "TURN", "WAIT"}

Calls == CASE state = "WAIT" -> timer_wfr + 1
           [] state = "TURN" -> timer_tad + 1
           [] OTHER -> 0

\* The slave has no frame, or has answered the one it has.
AtRest == Listening \/ s_state = "WAITDIR"

TimeInv ==
    /\ GoesOn
    /\ lead \in 0 - Drift .. Drift
    /\ Awaiting => Left = 0 \/ Left - lead + Calls <= Hearing + Drift
    /\ state = "TRANSCOMPLT" => timer_wfr = 0 /\ timer_tad = 0

RequestInv ==
    /\ line.by \in {"none", "master", "slave"}
    /\ ~Awaiting => line.by = "none" /\ AtRest
    /\ state = "TURN" => fetched.header = Master!Broadcast
    /\ line.by = "master" => line.to = fetched.header /\ line.id = fetched.body.id
    /\ ~AtRest => /\ s_rx.to = fetched.header
                  /\ s_rx.val = fetched.body.id
                  /\ carried[s_heard] = s_rx.val
    /\ s_state = "WAITOPER" /\ s_tx.kind = "response" => s_registers["area"] = s_rx.val

AnswerInv ==
    line.by = "slave" =>
        /\ AtRest
        /\ state \in {"TRANSCOMPLT", "WAIT"}
        /\ timer_wfr < ParamWfr
        /\ fetched.header # Master!Broadcast
        /\ rx = Master!NoFrame
        /\ line.id = fetched.body.id
        /\ line.kind = "response" => s_registers["area"] = line.id

ReceivedInv ==
    state \in {"WAIT", "PROCESS"} /\ rx # Master!NoFrame =>
        /\ line.by = "none"
        /\ AtRest
        /\ rx.id = fetched.body.id
        /\ rx.kind = "response" => s_registers["area"] = rx.id

OwnerInv == TimeInv /\ RequestInv /\ AnswerInv /\ ReceivedInv

LEMMA InitOwner == Init => OwnerInv
<1> SUFFICES ASSUME Init PROVE OwnerInv
  OBVIOUS
<1>1. state = "IDLE" /\ Listening /\ line.by = "none" /\ lead = 0 /\ s_state = "IDLE"
  BY DEF Init, Master!Init, Slave!Init, Listening, Silence
<1> QED
  BY <1>1, TimesTypes DEF OwnerInv, TimeInv, RequestInv, AnswerInv, ReceivedInv, Awaiting,
     AtRest, GoesOn

LEMMA LeftTypes ==
    ASSUME SlaveState, GoesOn
    PROVE  /\ Left \in Nat
           /\ Left >= SlaveTime
           /\ Left = 0 <=> Listening /\ line.by # "master"
           /\ line.by # "master" => Left = SlaveTime
           /\ line.by = "master" => Left = Hearing + SlaveTime
<1>1. Hearing \in Nat /\ Hearing >= 1
  BY HearingTypes, TimesTypes
<1>2. SlaveTime \in Nat
  BY SlaveTimeTypes
<1>3. SlaveTime = 0 <=> Listening
  <2>1. s_state = "WAITDIR" => SlaveTime = 1
    BY SlaveTimes
  <2>2. Listening => SlaveTime = 0
    BY SlaveTimes
  <2> QED
    BY <2>1, <2>2, SlaveTimeTypes DEF SlaveState
<1> QED
  BY <1>1, <1>2, <1>3 DEF Left

\* From the call that hears the frame until it listens again.
LEMMA HearingBound ==
    ASSUME SlaveState, GoesOn, ~Listening, s_state \in {"IDLE", "CRC"}
    PROVE  SlaveTime <= Hearing - 1
<1>1. CASE s_state = "CRC"
  BY <1>1, SlaveTimes, HearingTypes
<1>2. CASE s_state = "IDLE" /\ s_rx.size <= FrameSize
  <2>1. s_rx.size \in 1 .. FrameSize + 1 /\ s_tick \in Nat
    BY <1>2 DEF SlaveState, Listening
  <2> DEFINE a == FrameSize - s_rx.size
  <2>2. a \in Nat /\ a + 1 \in Nat /\ a + 1 <= FrameSize
    BY <1>2, <2>1, TimesTypes
  <2>3. SlaveTime = a * SlaveT35 + (SlaveT35 - s_tick) + Handling
    BY <1>2, SlaveTimes
  <2> HIDE DEF a
  <2>4. a * SlaveT35 \in Nat /\ (a + 1) * SlaveT35 = a * SlaveT35 + SlaveT35
    BY <2>2, TimesTypes, ProductOrder
  <2>5. (a + 1) * SlaveT35 <= FrameSize * SlaveT35
    BY <2>2, TimesTypes, ProductOrder
  <2> DEFINE p == a * SlaveT35
             q == FrameSize * SlaveT35
  <2>6. /\ p \in Nat /\ q \in Nat /\ p + SlaveT35 <= q
        /\ SlaveTime = p + (SlaveT35 - s_tick) + Handling
        /\ Hearing = 1 + q + Handling
    BY <2>3, <2>4, <2>5, HearingTypes
  <2> HIDE DEF p, q
  <2> QED
    BY <2>1, <2>6, TimesTypes, HearingTypes
<1>3. CASE s_state = "IDLE" /\ ~(s_rx.size <= FrameSize)
  <2>1. SlaveTime = (SlaveT35 - s_tick) + 1 /\ s_tick \in Nat
    BY <1>3, SlaveTimes DEF SlaveState
  <2> DEFINE q == FrameSize * SlaveT35
  <2>2. q \in Nat /\ Hearing = 1 + q + Handling
    BY HearingTypes
  <2> HIDE DEF q
  <2> QED
    BY <2>1, <2>2, HearingTypes, TimesTypes
<1> QED
  BY <1>1, <1>2, <1>3

LEMMA CallsTypes ==
    ASSUME MasterState
    PROVE  /\ Calls \in Nat
           /\ state = "WAIT" => Calls = timer_wfr + 1
           /\ state = "TURN" => Calls = timer_tad + 1
           /\ state = "TRANSCOMPLT" => Calls = 0
<1>1. timer_wfr \in Nat /\ timer_tad \in Nat
  BY TimesTypes DEF MasterState
<1> QED
  BY <1>1 DEF Calls

\* What the steps of the master leave alone of the slave.
LEMMA SlaveUntouched ==
    ASSUME UNCHANGED slaveVars
    PROVE  /\ SlaveTime' = SlaveTime
           /\ Listening' <=> Listening
           /\ AtRest' <=> AtRest
           /\ GoesOn' <=> GoesOn
           /\ UNCHANGED <<s_state, s_rx, s_heard, s_registers, s_tx>>
BY Zenon DEF slaveVars, SlaveTime, Listening, AtRest, GoesOn

\* When a wait ends, nothing is left to be waited for.
LEMMA NothingLeft ==
    ASSUME MasterState, SlaveState, OwnerInv, WaitsLongEnough, lead < Drift,
           \/ state = "WAIT" /\ timer_wfr + 1 > ParamWfr
           \/ state = "TURN" /\ timer_tad + 1 > ParamTad
    PROVE  Listening /\ line.by = "none"
<1>1. GoesOn /\ lead \in Int /\ (Left = 0 \/ Left - lead + Calls <= Hearing + Drift)
  BY TimesTypes DEF OwnerInv, TimeInv, Awaiting
<1>2. timer_wfr \in Nat /\ timer_tad \in Nat
  BY TimesTypes DEF MasterState
<1>3. Calls >= Hearing + 2 * Drift - 1
  <2>1. CASE state = "WAIT"
    BY <1>2, <2>1, CallsTypes, TimesTypes, HearingTypes DEF WaitsLongEnough
  <2>2. CASE state = "TURN"
    <3>1. Master!Broadcast \in Addresses
      BY <2>2 DEF OwnerInv, RequestInv, MasterState
    <3> QED
      BY <1>2, <2>2, <3>1, CallsTypes, TimesTypes, HearingTypes DEF WaitsLongEnough
  <2> QED
    BY <2>1, <2>2
<1>4. Left \in Nat /\ Calls \in Nat /\ Hearing \in Nat
  BY <1>1, LeftTypes, CallsTypes, HearingTypes
<1>5. Left = 0
  BY <1>1, <1>3, <1>4, TimesTypes
<1>6. Listening /\ line.by # "master"
  BY <1>1, <1>5, LeftTypes
<1>7. line.by # "slave"
  BY <1>2, TimesTypes DEF OwnerInv, AnswerInv
<1> QED
  BY <1>6, <1>7 DEF OwnerInv, RequestInv

LEMMA MasterRunOwner ==
    ASSUME MasterState, MasterState', SlaveState, IsABag(wire), OwnerInv,
           WaitsLongEnough, MasterRun
    PROVE  OwnerInv'
<1>1. UNCHANGED slaveVars /\ carried' = carried /\ lead < Drift /\ lead' = lead + 1
  BY MasterCalls
<1>2. GoesOn /\ lead \in 0 - Drift .. Drift
  BY DEF OwnerInv, TimeInv
<1>3. /\ lead \in Int /\ lead' \in 0 - Drift .. Drift /\ lead' = lead + 1
      /\ lead >= 0 - Drift
  BY <1>1, <1>2, TimesTypes
<1>4. /\ SlaveTime' = SlaveTime
      /\ Listening' <=> Listening
      /\ AtRest' <=> AtRest
      /\ GoesOn'
      /\ UNCHANGED <<s_state, s_rx, s_heard, s_registers, s_tx, carried>>
  BY <1>1, <1>2, SlaveUntouched
<1>5. Left \in Nat /\ Hearing \in Nat /\ Calls \in Nat /\ SlaveTime \in Nat
  BY <1>2, LeftTypes, HearingTypes, CallsTypes, SlaveTimeTypes
<1>6. timer_wfr \in Nat /\ timer_tad \in Nat
  BY TimesTypes DEF MasterState
<1>7. line' = line => Left' = Left
  BY <1>4, Zenon DEF Left
<1>8. CASE TransmitsRequest
  <2>1. line.by = "none" /\ AtRest
    BY <1>8 DEF OwnerInv, RequestInv, TransmitsRequest, Awaiting
  <2>2. SlaveTime <= 1
    BY <2>1, SlaveTimes DEF AtRest
  <2>3. line'.by = "master" /\ line'.to = fetched'.header /\ line'.id = fetched'.body.id
    BY <1>8 DEF TransmitsRequest
  <2>4. Left' = Hearing + SlaveTime
    BY <1>4, <2>3 DEF Left
  <2>5. state' = "TRANSCOMPLT" /\ Calls' = 0
    BY <1>8 DEF TransmitsRequest, Calls
  <2>6. TimeInv'
    BY <1>3, <1>4, <1>5, <1>8, <2>2, <2>4, <2>5, TimesTypes DEF TimeInv, TransmitsRequest
  <2>7. RequestInv'
    BY <1>4, <2>1, <2>3, <2>5 DEF RequestInv, Awaiting, OwnerInv
  <2> QED
    BY <2>3, <2>5, <2>6, <2>7 DEF OwnerInv, AnswerInv, ReceivedInv
<1>9. CASE StaysQuiet
  <2>1. line' = line /\ state' = "IDLE" /\ line.by = "none" /\ AtRest
    BY <1>9 DEF OwnerInv, RequestInv, StaysQuiet, Awaiting
  <2>2. s_state # "WAITOPER"
    BY <2>1 DEF AtRest, Listening
  <2> QED
    BY <1>3, <1>4, <2>1, <2>2 DEF OwnerInv, TimeInv, RequestInv, AnswerInv, ReceivedInv, Awaiting
<1>10. CASE HasTransmitted
  <2>1. /\ state = "TRANSCOMPLT" /\ UNCHANGED <<fetched, rx, timer_wfr, timer_tad, line>>
        /\ state' = IF fetched.header = Master!Broadcast THEN "TURN" ELSE "WAIT"
        /\ timer_wfr = 0 /\ timer_tad = 0
    BY <1>10 DEF HasTransmitted, OwnerInv, TimeInv
  <2>2. Calls = 0 /\ Calls' = 1 /\ Left' = Left
    <3>1. state' \in {"TURN", "WAIT"} /\ timer_wfr' = 0 /\ timer_tad' = 0
      BY <2>1
    <3> QED
      BY <1>7, <2>1, <3>1 DEF Calls
  <2>3. Left = 0 \/ Left - lead + Calls <= Hearing + Drift
    BY <2>1 DEF OwnerInv, TimeInv, Awaiting
  <2>4. Left' = 0 \/ Left' - lead' + Calls' <= Hearing + Drift
    BY <1>3, <1>5, <2>2, <2>3, TimesTypes
  <2>5. TimeInv'
    BY <1>3, <1>4, <2>1, <2>4 DEF TimeInv
  <2>6. RequestInv'
    BY <1>4, <2>1 DEF RequestInv, OwnerInv, Awaiting
  <2>7. AnswerInv'
    BY <1>4, <2>1 DEF AnswerInv, OwnerInv
  <2>8. rx' = Master!NoFrame
    BY <2>1 DEF MasterState
  <2> QED
    BY <2>5, <2>6, <2>7, <2>8 DEF OwnerInv, ReceivedInv
<1>11. CASE LeavesTime
  <2>1. state = "TURN" /\ UNCHANGED <<fetched, line>> /\ line.by # "slave"
    BY <1>11 DEF LeavesTime, OwnerInv, AnswerInv
  <2>2. CASE state' = "TURN" /\ timer_tad' = timer_tad + 1
    <3>1. Left = 0 \/ Left - lead + Calls <= Hearing + Drift
      BY <2>1 DEF OwnerInv, TimeInv, Awaiting
    <3>2. Calls = timer_tad + 1 /\ Calls' = timer_tad + 1 + 1
      BY <2>1, <2>2 DEF Calls
    <3>3. Left' = 0 \/ Left' - lead' + Calls' <= Hearing + Drift
      BY <1>3, <1>5, <1>6, <1>7, <2>1, <3>1, <3>2, TimesTypes
    <3>4. TimeInv'
      BY <1>3, <1>4, <2>2, <3>3 DEF TimeInv
    <3>5. RequestInv'
      BY <1>4, <2>1, <2>2 DEF RequestInv, OwnerInv, Awaiting
    <3> QED
      BY <2>1, <2>2, <3>4, <3>5 DEF OwnerInv, AnswerInv, ReceivedInv
  <2>3. CASE state' = "IDLE" /\ timer_tad + 1 > ParamTad
    <3>1. Listening /\ line.by = "none"
      BY <1>1, <2>1, <2>3, NothingLeft
    <3>2. AtRest /\ s_state = "IDLE"
      BY <3>1 DEF AtRest, Listening
    <3> QED
      BY <1>3, <1>4, <2>1, <2>3, <3>1, <3>2
         DEF OwnerInv, TimeInv, RequestInv, AnswerInv, ReceivedInv, Awaiting
  <2> QED
    BY <1>11, <2>2, <2>3 DEF LeavesTime
<1>12. CASE StopsWaiting
  <2>1. /\ state = "WAIT" /\ state' \in {"IDLE", "PROCESS"}
        /\ timer_wfr + 1 > ParamWfr /\ UNCHANGED <<fetched, rx, line>>
    BY <1>12 DEF StopsWaiting
  <2>2. Listening /\ line.by = "none"
    BY <1>1, <2>1, NothingLeft
  <2>3. AtRest /\ s_state = "IDLE"
    BY <2>2 DEF AtRest, Listening
  <2>4. ReceivedInv'
    BY <1>4, <2>1 DEF OwnerInv, ReceivedInv
  <2> QED
    BY <1>3, <1>4, <2>1, <2>2, <2>3, <2>4
       DEF OwnerInv, TimeInv, RequestInv, AnswerInv, Awaiting
<1>13. CASE Waiting \/ HearsAnswer
  <2>1. state = "WAIT" /\ timer_wfr' = timer_wfr + 1 /\ fetched' = fetched
    BY <1>13 DEF Waiting, HearsAnswer
  <2>2. Left' = Left
    BY <1>4, <1>7, <1>13 DEF Waiting, HearsAnswer, Left, Silence
  <2>3. Left = 0 \/ Left - lead + Calls <= Hearing + Drift
    BY <2>1 DEF OwnerInv, TimeInv, Awaiting
  <2>4. state' = "WAIT" => Left' = 0 \/ Left' - lead' + Calls' <= Hearing + Drift
    <3>1. Calls = timer_wfr + 1 /\ (state' = "WAIT" => Calls' = timer_wfr + 1 + 1)
      BY <2>1 DEF Calls
    <3> QED
      BY <1>3, <1>5, <1>6, <2>2, <2>3, <3>1, TimesTypes
  <2>5. state' \in {"WAIT", "PROCESS"}
    BY <1>13 DEF Waiting, HearsAnswer
  <2>6. TimeInv'
    BY <1>3, <1>4, <2>4, <2>5 DEF TimeInv, Awaiting
  <2>7. CASE Waiting
    <3>1. line.by # "slave" /\ line' = line
      BY <2>7 DEF Waiting, OwnerInv, AnswerInv
    <3>2. rx # Master!NoFrame => line.by = "none" /\ AtRest
      BY <2>1 DEF OwnerInv, ReceivedInv
    <3>3. RequestInv'
      BY <1>4, <2>1, <2>5, <2>7, <3>1, <3>2 DEF RequestInv, OwnerInv, Awaiting, Waiting
    <3>4. ReceivedInv'
      BY <1>4, <2>1, <2>7, <3>1, <3>2 DEF ReceivedInv, OwnerInv, Waiting
    <3> QED
      BY <2>6, <3>1, <3>3, <3>4 DEF OwnerInv, AnswerInv
  <2>8. CASE HearsAnswer
    <3>1. line'.by = "none" /\ AtRest /\ state' = "WAIT"
      BY <2>8 DEF HearsAnswer, Silence, OwnerInv, AnswerInv
    <3>2. RequestInv'
      BY <1>4, <2>1, <3>1 DEF RequestInv, OwnerInv, Awaiting
    <3>3. ReceivedInv'
      BY <1>4, <2>1, <2>8, <3>1 DEF ReceivedInv, OwnerInv, AnswerInv, HearsAnswer
    <3> QED
      BY <2>6, <3>1, <3>2, <3>3 DEF OwnerInv, AnswerInv
  <2> QED
    BY <1>13, <2>7, <2>8
<1> QED
  BY <1>8, <1>9, <1>10, <1>11, <1>12, <1>13, MasterCalls

\* The same of the state after a call.
TimeFacts ==
    SlaveState =>
        /\ Listening => SlaveTime = 0
        /\ s_state = "WAITDIR" => SlaveTime = 1
        /\ GoesOn => Left \in Nat /\ SlaveTime \in Nat
        /\ GoesOn /\ ~Listening => SlaveTime # 0
        /\ GoesOn /\ ~Listening /\ s_state \in {"IDLE", "CRC"} => SlaveTime <= Hearing - 1

LEMMA TimesAfter == TimeFacts'
<1>1. TimeFacts
  <2> SUFFICES ASSUME SlaveState
               PROVE  /\ Listening => SlaveTime = 0
                      /\ s_state = "WAITDIR" => SlaveTime = 1
                      /\ GoesOn => Left \in Nat /\ SlaveTime \in Nat
                      /\ GoesOn /\ ~Listening => SlaveTime # 0
                      /\ GoesOn /\ ~Listening /\ s_state \in {"IDLE", "CRC"} =>
                            SlaveTime <= Hearing - 1
    BY DEF TimeFacts
  <2>1. /\ Listening => SlaveTime = 0
        /\ s_state = "WAITDIR" => SlaveTime = 1
    BY SlaveTimes
  <2>2. ASSUME GoesOn
        PROVE  /\ Left \in Nat /\ SlaveTime \in Nat
               /\ ~Listening => SlaveTime # 0
    BY <2>1, <2>2, LeftTypes, SlaveTimeTypes DEF SlaveState
  <2>3. GoesOn /\ ~Listening /\ s_state \in {"IDLE", "CRC"} => SlaveTime <= Hearing - 1
    BY HearingBound
  <2> QED
    BY <2>1, <2>2, <2>3
<1> QED
  BY <1>1, PTL

\* What the slave works on is awaited, and the answer is not held yet.
LEMMA WorkAwaited ==
    ASSUME OwnerInv, MasterState, ~AtRest
    PROVE  Awaiting /\ line.by # "slave" /\ (state # "TURN" => rx = Master!NoFrame)
BY DEF OwnerInv, RequestInv, AnswerInv, ReceivedInv, MasterState, Awaiting

LEMMA SlaveRunOwner ==
    ASSUME MasterState, SlaveState, SlaveState', SlaveFacts, LinkInv, OwnerInv,
           WaitsLongEnough, SlaveRun
    PROVE  OwnerInv'
<1>1. /\ UNCHANGED <<state, fetched, rx, timer_wfr, timer_tad>>
      /\ lead > 0 - Drift /\ lead' = lead - 1
  BY SlaveCalls DEF OwnerInv, TimeInv, masterVars
<1>2. /\ GoesOn /\ lead \in 0 - Drift .. Drift
      /\ Awaiting => Left = 0 \/ Left - lead + Calls <= Hearing + Drift
      /\ state = "TRANSCOMPLT" => timer_wfr = 0 /\ timer_tad = 0
  BY DEF OwnerInv, TimeInv
<1>3. lead \in Int /\ lead' \in 0 - Drift .. Drift /\ lead' = lead - 1 /\ lead <= Drift
  BY <1>1, <1>2, TimesTypes
<1>4. (Awaiting' <=> Awaiting) /\ Calls' = Calls
  BY <1>1 DEF Awaiting, Calls
<1>5. /\ Left \in Nat /\ Hearing \in Nat /\ Calls \in Nat /\ SlaveTime \in Nat
      /\ GoesOn' => Left' \in Nat /\ SlaveTime' \in Nat
  <2>1. GoesOn' => Left' \in Nat /\ SlaveTime' \in Nat
    BY TimesAfter DEF TimeFacts
  <2> QED
    BY <1>2, <2>1, LeftTypes, HearingTypes, CallsTypes, SlaveTimeTypes
<1>6. ASSUME GoesOn', Left' = 0 \/ Left' <= Left - 1
      PROVE  TimeInv'
  <2>1. Awaiting => Left' = 0 \/ Left' - lead' + Calls' <= Hearing + Drift
    BY <1>2, <1>3, <1>4, <1>5, <1>6, TimesTypes
  <2> QED
    BY <1>1, <1>2, <1>3, <1>4, <1>6, <2>1 DEF TimeInv
<1>7. CASE Hears
  <2>1. /\ Listening /\ line.by = "master" /\ line' = Silence /\ GoesOn'
        /\ UNCHANGED s_registers
        /\ carried' = Append(carried, line.id) /\ s_heard' = s_heard + 1
    BY <1>7 DEF Hears
  <2>2. Left = Hearing + SlaveTime /\ SlaveTime = 0 /\ Left' = SlaveTime'
    BY <1>2, <2>1, LeftTypes, SlaveTimes DEF Left, Silence
  <2>3. Listening' => Left' = 0
    <3>1. Listening' => SlaveTime' = 0
      BY TimesAfter DEF TimeFacts
    <3> QED
      BY <2>2, <3>1
  <2>4. ~Listening' => Left' <= Left - 1
    <3>1. ~Listening' => SlaveTime' <= Hearing - 1
      <4>1. ~Listening' => s_state' \in {"IDLE", "CRC"}
        BY <1>7 DEF Hears
      <4> QED
        BY <2>1, <4>1, TimesAfter DEF TimeFacts
    <3> QED
      BY <1>5, <2>2, <3>1
  <2>5. TimeInv'
    BY <1>6, <2>1, <2>3, <2>4
  <2>6. Awaiting /\ line.to = fetched.header /\ line.id = fetched.body.id
    BY <2>1 DEF OwnerInv, RequestInv
  <2>7. carried'[s_heard'] = line.id
    BY <2>1 DEF LinkInv
  <2>8. ~Listening' => /\ s_state' \in {"IDLE", "CRC"}
                       /\ s_rx'.to = line.to /\ s_rx'.val = line.id
    BY <1>7 DEF Hears
  <2>9. s_state' # "WAITOPER"
    BY <2>8 DEF Listening
  <2>10. RequestInv'
    BY <1>1, <1>4, <2>1, <2>6, <2>7, <2>8, <2>9 DEF RequestInv, OwnerInv, AtRest, Silence
  <2>11. rx # Master!NoFrame => state \notin {"WAIT", "PROCESS"}
    BY <2>1 DEF OwnerInv, ReceivedInv
  <2> QED
    BY <1>1, <2>1, <2>5, <2>10, <2>11 DEF OwnerInv, AnswerInv, ReceivedInv, Silence
<1>8. CASE FindsNone
  <2>1. /\ Listening /\ Listening' /\ line.by # "master"
        /\ UNCHANGED <<line, carried, s_heard, s_registers>>
    BY <1>8 DEF FindsNone
  <2>2. GoesOn' /\ AtRest /\ AtRest' /\ s_state' = "IDLE"
    BY <2>1 DEF GoesOn, AtRest, Listening
  <2>3. Left' = 0
    <3>1. SlaveTime' = 0
      BY <2>1, TimesAfter DEF TimeFacts
    <3> QED
      BY <2>1, <3>1 DEF Left
  <2>4. TimeInv'
    BY <1>6, <2>2, <2>3
  <2> QED
    BY <1>1, <1>4, <2>1, <2>2, <2>4 DEF OwnerInv, RequestInv, AnswerInv, ReceivedInv
<1>9. CASE Works
  <2>1. /\ ~Listening /\ GoesOn' /\ SlaveTime' <= SlaveTime - 1
        /\ UNCHANGED <<line, carried, s_heard>>
    BY <1>9 DEF Works
  <2>2. Left' <= Left - 1
    BY <1>5, <2>1 DEF Left
  <2>3. TimeInv'
    BY <1>6, <2>1, <2>2
  <2>4. s_state = "WAITDIR" => Listening'
    <3>1. s_state = "WAITDIR" => SlaveTime = 1
      BY SlaveTimes
    <3>2. SlaveTime' \in Nat /\ (~Listening' => SlaveTime' # 0)
      BY <2>1, TimesAfter DEF TimeFacts
    <3> QED
      BY <1>5, <2>1, <3>1, <3>2
  <2>5. AtRest => AtRest'
    BY <2>1, <2>4 DEF AtRest
  <2>6. AtRest => s_state # "PDU" /\ UNCHANGED s_registers
    BY <1>9, <2>1 DEF AtRest, Works
  <2>7. ~AtRest' => s_rx'.to = s_rx.to /\ s_rx'.val = s_rx.val
    BY <1>9 DEF AtRest, Works
  <2>8. s_state' = "WAITOPER" /\ s_tx'.kind = "response" => s_registers'["area"] = s_rx'.val
    <3> SUFFICES ASSUME s_state' = "WAITOPER", s_tx'.kind = "response"
                 PROVE  s_registers'["area"] = s_rx'.val
      OBVIOUS
    <3>1. ~AtRest'
      BY DEF AtRest, Listening
    <3>2. CASE s_state = "WAITOPER" /\ UNCHANGED s_tx
      BY <1>9, <2>7, <3>1, <3>2 DEF Works, OwnerInv, RequestInv
    <3>3. CASE s_state = "PDU" /\ (s_tx'.kind = "response" => s_registers'["area"] = s_rx.val)
      BY <2>7, <3>1, <3>3
    <3> QED
      BY <1>9, <3>2, <3>3 DEF Works
  <2>9. RequestInv'
    BY <1>1, <1>4, <2>1, <2>5, <2>7, <2>8 DEF OwnerInv, RequestInv
  <2>10. AnswerInv'
    BY <1>1, <2>1, <2>5, <2>6 DEF OwnerInv, AnswerInv
  <2>11. ReceivedInv'
    BY <1>1, <2>1, <2>5, <2>6 DEF OwnerInv, ReceivedInv
  <2> QED
    BY <2>3, <2>9, <2>10, <2>11 DEF OwnerInv
<1>10. CASE Transmits
  <2>1. /\ s_state = "WAITOPER" /\ s_state' = "WAITDIR" /\ GoesOn'
        /\ UNCHANGED <<carried, s_heard, s_registers>>
        /\ SlaveTime' <= SlaveTime - 1
        /\ line' = [by |-> "slave", to |-> SlaveAddress,
                    id |-> carried[s_tx.id], kind |-> s_tx.kind]
    BY <1>10 DEF Transmits
  <2>2. ~AtRest /\ AtRest' /\ ~Listening
    BY <2>1 DEF AtRest, Listening
  <2>3. /\ line'.by = "slave" /\ line'.id = carried[s_tx.id] /\ line'.kind = s_tx.kind
    BY <2>1
  <2>4. Left' = SlaveTime' /\ Left >= SlaveTime /\ SlaveTime >= 2
    BY <1>2, <2>1, <2>3, LeftTypes, SlaveTimeTypes DEF Left
  <2>5. TimeInv'
    BY <1>5, <1>6, <2>1, <2>4
  <2>6. /\ s_rx.to = fetched.header /\ s_rx.val = fetched.body.id
        /\ carried[s_heard] = s_rx.val /\ s_rx.to = SlaveAddress
        /\ s_tx.id = s_rx.id /\ s_rx.id = s_heard
    BY <2>1, <2>2 DEF OwnerInv, RequestInv, SlaveState
  <2>7. line'.id = fetched.body.id
    BY <2>3, <2>6
  <2>8. line'.kind = "response" => s_registers'["area"] = line'.id
    BY <2>1, <2>3, <2>6 DEF OwnerInv, RequestInv
  <2>9. Awaiting /\ fetched.header # Master!Broadcast
    BY <2>2, <2>6, WorkAwaited DEF MasterState, WaitsLongEnough, Awaiting
  <2>10. state \in {"TRANSCOMPLT", "WAIT"}
    BY <2>9 DEF Awaiting, OwnerInv, RequestInv
  <2>11. timer_wfr < ParamWfr
    <3>1. timer_wfr \in Nat
      BY TimesTypes DEF MasterState
    <3>2. CASE state = "TRANSCOMPLT"
      <4>1. timer_wfr = 0 /\ Hearing >= 5
        BY <1>2, <3>2, HearingTypes, TimesTypes
      <4> QED
        BY <1>5, <4>1, TimesTypes DEF WaitsLongEnough
    <3>3. CASE state = "WAIT"
      <4>1. Left - lead + Calls <= Hearing + Drift /\ Calls = timer_wfr + 1
        BY <1>2, <1>5, <2>4, <2>9, <3>3, CallsTypes
      <4> QED
        BY <1>3, <1>5, <2>4, <3>1, <4>1, TimesTypes DEF WaitsLongEnough
    <3> QED
      BY <2>10, <3>2, <3>3
  <2>12. rx = Master!NoFrame
    BY <2>2, <2>10, WorkAwaited
  <2>13. RequestInv'
    BY <1>1, <1>4, <2>1, <2>2, <2>3, <2>9 DEF OwnerInv, RequestInv
  <2>14. AnswerInv'
    BY <1>1, <2>2, <2>7, <2>8, <2>9, <2>10, <2>11, <2>12 DEF AnswerInv
  <2> QED
    BY <1>1, <2>5, <2>12, <2>13, <2>14 DEF OwnerInv, ReceivedInv
<1> QED
  BY <1>7, <1>8, <1>9, <1>10, SlaveCalls DEF OwnerInv, TimeInv

\* The application changes the request served only between two requests.
LEMMA OtherStepsOwner ==
    ASSUME LeavesRoom, MasterState, OwnerInv, Add \/ Attach \/ UNCHANGED vars
    PROVE  OwnerInv'
<1>1. UNCHANGED <<state, rx, wire, timer_wfr, timer_tad, slaveVars, line, lead, carried>>
  BY DEF Add, Attach, Master!RequestAdd, Master!RequestAddFails, Master!RequestCallbackAdd,
     Master!lineVars, vars, masterVars
<1>2. state # "IDLE" => fetched' = fetched
  <2>1. CASE Add
    <3>1. CASE Master!RequestAddFails
      BY <3>1 DEF Master!RequestAddFails, Master!Queue!RefuseFull
    <3>2. CASE \E a \in Addresses : Master!RequestAdd(a, "WRITE_SINGLE")
      <4>1. state # "IDLE" => Len(fifo) + 1 < QueueLen
        BY <3>2 DEF Master!RequestAdd, Master!Serving
      <4>2. \E a \in Addresses : fetched' = Master!Queue!Reclaim(a)
        BY <3>2 DEF Master!RequestAdd, Master!Queue!Accept
      <4>3. state # "IDLE" => Len(fifo) + 1 # QueueLen
        BY <4>1, ApplicationAssumption
      <4> QED
        BY <4>2, <4>3 DEF Master!Queue!Reclaim
    <3> QED
      BY <2>1, <3>1, <3>2 DEF Add
  <2>2. CASE Attach
    BY <2>2 DEF Attach, Master!RequestCallbackAdd, Master!Queue!AttachCallback,
       Master!queueVars
  <2>3. CASE UNCHANGED vars
    BY <2>3 DEF vars, masterVars
  <2> QED
    BY <2>1, <2>2, <2>3
<1>3. /\ SlaveTime' = SlaveTime
      /\ Listening' <=> Listening
      /\ AtRest' <=> AtRest
      /\ GoesOn' <=> GoesOn
      /\ UNCHANGED <<s_state, s_rx, s_heard, s_registers, s_tx>>
  BY <1>1, SlaveUntouched
<1>4. Left' = Left /\ Calls' = Calls /\ (Awaiting' <=> Awaiting)
  BY <1>1, <1>3 DEF Left, Calls, Awaiting
<1>5. TimeInv'
  BY <1>1, <1>3, <1>4 DEF OwnerInv, TimeInv
<1>6. CASE state # "IDLE"
  <2>1. RequestInv'
    BY <1>1, <1>2, <1>3, <1>4, <1>6 DEF OwnerInv, RequestInv
  <2>2. AnswerInv' /\ ReceivedInv'
    BY <1>1, <1>2, <1>3, <1>6 DEF OwnerInv, AnswerInv, ReceivedInv
  <2> QED
    BY <1>5, <2>1, <2>2 DEF OwnerInv
<1>7. CASE state = "IDLE"
  <2>1. line.by = "none" /\ AtRest
    BY <1>7 DEF OwnerInv, RequestInv, Awaiting
  <2>2. s_state # "WAITOPER"
    BY <2>1 DEF AtRest, Listening
  <2> QED
    BY <1>1, <1>3, <1>4, <1>5, <1>7, <2>1, <2>2
       DEF OwnerInv, RequestInv, AnswerInv, ReceivedInv
<1> QED
  BY <1>6, <1>7

LEMMA WireHolds == ASSUME LeavesRoom PROVE Spec => []IsABag(wire)
<1>1. Init => IsABag(wire)
  <2> SUFFICES ASSUME wire = Master!EmptyBag PROVE IsABag(wire)
    BY DEF Init, Master!Init
  <2> DEFINE none == {}
  <2>1. wire = [e \in none |-> 1]
    BY DEF Master!EmptyBag, Master!SetToBag
  <2> QED
    BY <2>1 DEF IsABag
<1>2. IsABag(wire) /\ MasterState /\ [Next]_vars => IsABag(wire)'
  <2> SUFFICES ASSUME IsABag(wire), MasterState, [Next]_vars PROVE IsABag(wire')
    BY DEF IsABag
  <2>1. CASE MasterRun
    BY <2>1, MasterCalls
  <2>2. CASE SlaveRun \/ Add \/ Attach \/ UNCHANGED vars
    <3>1. wire' = wire
      BY <2>2 DEF SlaveRun, Add, Attach, Master!RequestAdd, Master!RequestAddFails,
         Master!RequestCallbackAdd, Master!lineVars, vars, masterVars
    <3> QED
      BY <3>1, Zenon
  <2> QED
    BY <2>1, <2>2 DEF Next
<1> QED
  BY <1>1, <1>2, MasterStateHolds, PTL DEF Spec

LEMMA OwnerHolds == ASSUME LeavesRoom, WaitsLongEnough PROVE Spec => []OwnerInv
<1>1. /\ OwnerInv /\ MasterState /\ MasterState' /\ SlaveState /\ SlaveState'
      /\ SlaveFacts /\ LinkInv /\ IsABag(wire) /\ [Next]_vars
      => OwnerInv'
  BY MasterRunOwner, SlaveRunOwner, OtherStepsOwner DEF Next
<1> QED
  BY <1>1, InitOwner, MasterStateHolds, SlaveStateHolds, SlaveFactsHold, LinkHolds,
     WireHolds, PTL DEF Spec

\* Only a frame that was judged ends a request as answered.
LEMMA AnswersAreJudged ==
    ASSUME MasterState, [Next]_vars, NEW r \in Requests,
           outcome[r] = "none", outcome'[r] = "answered"
    PROVE  state = "PROCESS"
<1>1. outcome' # outcome
  OBVIOUS
<1>2. MasterRun
  BY <1>1 DEF Next, SlaveRun, Add, Attach, Master!RequestAdd, Master!RequestAddFails,
     Master!RequestCallbackAdd, vars, masterVars
<1>3. CASE Master!Complete
  BY <1>3 DEF Master!Complete
<1>4. CASE Master!GiveUp
  BY <1>4 DEF Master!GiveUp
<1>5. CASE Master!SkipUnsupported \/ Master!TransmitRefused \/ Master!TurnaroundOver
  <2>1. \/ outcome' = outcome
        \/ \E o \in {"unsupported", "refused", "broadcast"} : \E q :
              outcome' = [outcome EXCEPT ![q] = o]
    BY <1>5 DEF Master!SkipUnsupported, Master!TransmitRefused, Master!TurnaroundOver
  <2>2. r \in DOMAIN outcome
    BY DEF MasterState
  <2> QED
    BY <1>1, <2>1, <2>2
<1> QED
  BY <1>1, <1>2, <1>3, <1>4, <1>5 DEF MasterRun, Master!Run, Master!Transmit,
     Master!TransmitCompleted, Master!TurnaroundTick, Master!WaitExpired,
     Master!FrameGoesOn, Master!FrameEnds, Master!Poll, Master!RetryRequest

LEMMA AnswerOwned ==
    ASSUME OwnerInv, MasterState, [Next]_vars, NEW r \in Requests,
           outcome[r] = "none", outcome'[r] = "answered",
           fetched.body.id = r, rx.kind = "response"
    PROVE  rx.id = r /\ s_registers["area"] = r
<1>1. state = "PROCESS"
  BY AnswersAreJudged
<1>2. rx # Master!NoFrame
  BY DEF Master!NoFrame
<1> QED
  BY <1>1, <1>2 DEF OwnerInv, ReceivedInv

LEMMA AnswersOwned ==
    ASSUME LeavesRoom, WaitsLongEnough
    PROVE  Spec => [][\A r \in Requests :
                         outcome[r] = "none" /\ outcome'[r] = "answered" =>
                             rx.id = r /\ s_registers["area"] = r]_vars
<1> DEFINE Judged == \A r \in Requests :
               outcome[r] = "none" /\ outcome'[r] = "answered" =>
                  fetched.body.id = r /\ rx.kind = "response"
           Owned == \A r \in Requests :
               outcome[r] = "none" /\ outcome'[r] = "answered" =>
                  rx.id = r /\ s_registers["area"] = r
           Answered == \A r \in MasterProofs!Requests :
               outcome[r] = "none" /\ outcome'[r] = "answered" =>
                  /\ fetched.body.id = r
                  /\ fetched.cb \in {0, r}
                  /\ rx.from = fetched.body.dest
                  /\ rx.kind = "response"
                  /\ rx.size = FrameSize
<1>1. MasterProofs!Spec => MasterProofs!AnswerFromItsSlave
  BY MasterConstants, MasterProofs!AnswersFromTheirSlaves
<1>2. MasterProofs!AnswerFromItsSlave => [][Answered]_(MasterProofs!vars)
  BY PTL DEF MasterProofs!AnswerFromItsSlave
<1>3. [Answered]_(MasterProofs!vars) => Judged
  <2>1. Answered => Judged
    BY DEF MasterProofs!Requests, Requests
  <2>2. UNCHANGED MasterProofs!vars => Judged
    <3>1. UNCHANGED MasterProofs!vars => outcome' = outcome
      BY DEF MasterProofs!vars
    <3> QED
      BY <3>1
  <2> QED
    BY <2>1, <2>2
<1>4. OwnerInv /\ MasterState /\ [Next]_vars /\ Judged => Owned
  BY AnswerOwned
<1> HIDE DEF Owned, Judged, Answered
<1>5. OwnerInv /\ MasterState /\ [Next]_vars /\ [Answered]_(MasterProofs!vars) => [Owned]_vars
  BY <1>3, <1>4
<1>6. Spec => [][Owned]_vars
  BY <1>1, <1>2, <1>5, EndsBehaveAlone, SameMaster, OwnerHolds,
     MasterStateHolds, PTL DEF Spec
<1> QED
  BY <1>6 DEF Owned

(***************************************************************************)
(* An answer does not name the request it answers, and still the one that  *)
(* ends a request answers that request, if the master's waits are longer   *)
(* than the slave takes with Drift calls between the two clocks, and the   *)
(* application leaves room in the request list while a request is served:  *)
(* what the code leaves to whoever sets param_tad and param_wfr            *)
(* (mcserial.h:59 and 62), as a bound in calls of Run.                     *)
(***************************************************************************)
THEOREM AnswersReachTheirOwners ==
    ASSUME LeavesRoom, WaitsLongEnough
    PROVE  Spec => AnswerReachesOwner
<1> DEFINE Owned == \A r \in Requests :
               outcome[r] = "none" /\ outcome'[r] = "answered" =>
                  rx.id = r /\ s_registers["area"] = r
           Reached == \A r \in Master!Requests :
               outcome[r] = "none" /\ outcome'[r] = "answered" => rx.id = r
<1>1. [Owned]_vars => [Reached]_(Master!vars)
  BY DEF Master!Requests, Requests, vars, masterVars, Master!vars
<1>2. Spec => [][Owned]_vars
  BY AnswersOwned
<1> HIDE DEF Owned, Reached
<1>3. Spec => [][Reached]_(Master!vars)
  BY <1>1, <1>2, PTL
<1> QED
  BY <1>3 DEF AnswerReachesOwner, Master!AnswerReachesOwner, Reached

(***************************************************************************)
(* Under the same conditions an answered write was executed: the slave's   *)
(* register has the value of the request when its callback runs.           *)
(***************************************************************************)
THEOREM AnsweredWritesWereExecuted ==
    ASSUME LeavesRoom, WaitsLongEnough
    PROVE  Spec => AnsweredWasWritten
<1> DEFINE Owned == \A r \in Requests :
               outcome[r] = "none" /\ outcome'[r] = "answered" =>
                  rx.id = r /\ s_registers["area"] = r
           Written == \A r \in Requests :
               outcome[r] = "none" /\ outcome'[r] = "answered" => s_registers["area"] = r
<1>1. [Owned]_vars => [Written]_vars
  OBVIOUS
<1>2. Spec => [][Owned]_vars
  BY AnswersOwned
<1> HIDE DEF Owned, Written
<1>3. Spec => [][Written]_vars
  BY <1>1, <1>2, PTL
<1> QED
  BY <1>3 DEF AnsweredWasWritten, Written
===============================================================================
