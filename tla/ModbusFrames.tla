----------------------------- MODULE ModbusFrames -----------------------------
(***************************************************************************)
(* The PDUs of ModbusExchange in the frames that carry them: between a     *)
(* serial master and the slave, the slave's address, the PDU and its CRC,  *)
(* low byte first; between a TCP client and its server the PDU alone (the  *)
(* header is modelled in ModbusClientTCP).  Noise changes a byte of a      *)
(* serial frame.  A frame whose CRC is wrong, or that is for another       *)
(* slave, is thrown away.                                                  *)
(*                                                                         *)
(* pdu remains the PDU that was sent.  What is served and taken is the     *)
(* payload of the frame, so that Spec of ModbusExchange says that a PDU    *)
(* arrives as it was sent or not at all.                                   *)
(***************************************************************************)
EXTENDS ModbusExchange, ModbusCRC

CONSTANTS
    SlaveAddress,   \* the address of the slave
    Masks,          \* what noise does to a byte: the bits it flips
    DamagedLen,     \* bound: the longest frame noise changes
    MaxDamage       \* bound: how often noise changes a frame

ASSUME NoiseAssumption ==
    /\ SlaveAddress \in 1 .. 127
    /\ Masks \subseteq 1 .. 255
    /\ {DamagedLen, MaxDamage} \subseteq Nat

VARIABLES
    frame,          \* the frame on the line
    damage          \* history: how often noise changed a frame

frameVars == <<phase, request, pdu, registers, buffer_tx, area, confirmation,
               before, exchanges, asked, frame, damage>>

FrameInit ==
    /\ Init
    /\ frame = <<>>
    /\ damage = 0

Framed(via, payload) ==
    IF via = "tcp" THEN payload
    ELSE LET body == <<SlaveAddress>> \o payload
             crc == ModbusCRC(body)
         IN  body \o <<crc % 256, crc \div 256>>

Payload == IF request.via = "tcp" THEN frame ELSE SubSeq(frame, 2, Len(frame) - 2)

\* Mutant of CrcRight: the CRC is not compared.
CrcUnchecked == Len(frame) > 2

CrcRight ==
    LET n == Len(frame)
    IN  frame[n - 1] + 256 * frame[n] = ModbusCRC(SubSeq(frame, 1, n - 2))

\* Slave and master compare the address, then the CRC.
Accepted == request.via = "tcp" \/ (frame[1] = SlaveAddress /\ CrcRight)

AskFrame(r) ==
    /\ Ask(r)
    /\ frame' = Framed(r.via, pdu')
    /\ UNCHANGED damage

ServeFrame ==
    /\ phase = "asked"
    /\ Accepted
    /\ Serve(Payload)
    /\ frame' = Framed(request.via, pdu')
    /\ UNCHANGED damage

TakeFrame ==
    /\ phase = "answered"
    /\ Accepted
    /\ Take(Payload)
    /\ UNCHANGED <<frame, damage>>

Noise(i, mask) ==
    /\ phase \in {"asked", "answered"}
    /\ request.via # "tcp"
    /\ Len(frame) <= DamagedLen
    /\ damage < MaxDamage
    /\ frame' = [frame EXCEPT ![i] = @ ^^ mask]
    /\ damage' = damage + 1
    /\ UNCHANGED vars

\* Nobody accepts the frame, or it is lost.
LoseFrame ==
    /\ Lose
    /\ UNCHANGED <<frame, damage>>

FinishFrame ==
    /\ Finish
    /\ frame' = <<>>
    /\ UNCHANGED damage

FrameNext ==
    \/ \E r \in Requests : AskFrame(r)
    \/ ServeFrame
    \/ TakeFrame
    \/ \E i \in 1 .. Len(frame), mask \in Masks : Noise(i, mask)
    \/ LoseFrame
    \/ FinishFrame

FrameSpec == FrameInit /\ [][FrameNext]_frameVars

-----------------------------------------------------------------------------
(***************************************************************************)
(* Over frames that noise damages and loses, the slave executes and the    *)
(* client believes only PDUs that were sent: the frames implement the      *)
(* exchange of PDUs, which is the step from WITH to the variables of       *)
(* ModbusExchange by their own names.                                      *)
(***************************************************************************)
ImplementsExchange == Spec

(***************************************************************************)
(* The two builds of ModbusCRC agree on frames without a byte of 128 or    *)
(* more; on others they do not, for the one without a table widens a byte  *)
(* with its sign.                                                          *)
(***************************************************************************)
BuildsAgree ==
    LET body == SubSeq(frame, 1, Len(frame) - 2)
    IN  phase = "asked" /\ request.via # "tcp" /\ Len(frame) <= DamagedLen
            /\ (\A i \in 1 .. Len(body) : body[i] < 128)
        => ModbusCRC(body) = ModbusCRCBitwise(body)
=============================================================================
