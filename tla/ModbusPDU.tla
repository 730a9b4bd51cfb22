------------------------------- MODULE ModbusPDU -------------------------------
(***************************************************************************)
(* The bytes of a Modbus PDU, modbus_pdu.c, and what the two clients read  *)
(* out of an answer, mcserial.c and mctcp.c.  The C code keeps bytes in    *)
(* int8_t; here a byte is its bit pattern, 0 .. 255, and an expression     *)
(* that depends on the sign says so.  The bytes of a PDU are counted from  *)
(* 1: pdu[i + 1] is buffer[i].                                             *)
(***************************************************************************)
EXTENDS Integers, Sequences

Byte == 0 .. 255
UINT16_MAX == 65535
Word == 0 .. UINT16_MAX

FN_CODE_READ_HOLDING == 3
FN_CODE_WRITE_SINGLE == 6
FN_CODE_WRITE_MULTIPLE == 16
FunctionCodes ==
    {FN_CODE_READ_HOLDING, FN_CODE_WRITE_SINGLE, FN_CODE_WRITE_MULTIPLE}

EX_ILLEGAL_FUNCTION == 1
EX_ILLEGAL_DATA_ADDRES == 2
EX_ILLEGAL_DATA_VALUE == 3
EX_ILLEGAL_SERVER_DEVICE_FAILURE == 4
EX_ILLEGAL_SERVER_DEVICE_BUSY == 6

\* The bytes of words, the high one first.
Bytes(ws) ==
    [i \in 1 .. 2 * Len(ws) |->
        IF i % 2 = 1 THEN ws[(i + 1) \div 2] \div 256 ELSE ws[i \div 2] % 256]

WordAt(pdu, i) == 256 * pdu[i] + pdu[i + 1]

\* Mutant of Words: the bytes of a register are swapped.
WordsSwapped(pdu, first, n) ==
    [k \in 1 .. n |-> 256 * pdu[first + 2 * k - 1] + pdu[first + 2 * k - 2]]

\* n registers, the first in the bytes first and first + 1.
Words(pdu, first, n) == [k \in 1 .. n |-> WordAt(pdu, first + 2 * k - 2)]

SetBit7(b) == IF b < 128 THEN b + 128 ELSE b
ClearBit7(b) == b % 128
IsException(pdu) == pdu[1] >= 128

-----------------------------------------------------------------------------
(***************************************************************************)
(* Requests, as the clients build them.  Nothing limits reg_count: the     *)
(* byte count is its double in 8 bits.                                     *)
(***************************************************************************)
RequestPacketReadHolding(req) ==
    <<req.func_no>> \o Bytes(<<req.start_addr, req.reg_count>>)

RequestPacketWriteSingle(req) ==
    <<req.func_no>> \o Bytes(<<req.start_addr, req.data[1]>>)

\* From 124 registers on the code writes past buffer_tx[256] with the CRC; a
\* sequence has no such end.
RequestPacketWriteMultiple(req) ==
    <<req.func_no>> \o Bytes(<<req.start_addr, req.reg_count>>)
        \o <<(2 * req.reg_count) % 256>> \o Bytes(req.data)

RequestPacket(req) ==
    CASE req.func_no = FN_CODE_WRITE_SINGLE -> RequestPacketWriteSingle(req)
      [] req.func_no = FN_CODE_WRITE_MULTIPLE -> RequestPacketWriteMultiple(req)
      [] OTHER -> RequestPacketReadHolding(req)

-----------------------------------------------------------------------------
(***************************************************************************)
(* What the slave reads in a request.                                      *)
(***************************************************************************)
Address(pdu) == WordAt(pdu, 2)
Quantity(pdu) == WordAt(pdu, 4)
LastAddress(pdu) == (Address(pdu) + Quantity(pdu) - 1) % 65536
WrittenWords(pdu) == Words(pdu, 7, Quantity(pdu))

\* register_adr_end has 16 bits: the loop that copies the registers of a read
\* that reaches the last one ends before it begins.
ReadsToTheEnd(pdu) == Address(pdu) + Quantity(pdu) > 65535

-----------------------------------------------------------------------------
(***************************************************************************)
(* What the clients read in an answer.                                     *)
(***************************************************************************)

\* responseOperation of the serial master: the byte count is unsigned.
SerialArea(pdu) == Words(pdu, 3, pdu[2] \div 2)

\* modbusPDUResponseOperation of the TCP client: the high byte is shifted right
\* as an int8_t, so what is left of it is its sign, in every bit.
TCPWord(high, low) == IF high >= 128 THEN 255 ELSE low

TCPArea(pdu, req) ==
    [k \in 1 .. req.reg_count |-> TCPWord(pdu[2 * k + 1], pdu[2 * k + 2])]

\* The byte count is halved as an int8_t.
CountOfBytes(b) == IF b >= 128 THEN 65536 - (256 - b) \div 2 ELSE b \div 2

\* Mutant of StartOfAnswer: an answer to a read is taken to name its registers.
StartOfBytes(pdu, req) == IF IsException(pdu) THEN req.start_addr ELSE WordAt(pdu, 2)

StartOfAnswer(pdu, req) ==
    IF pdu[1] \in {FN_CODE_WRITE_SINGLE, FN_CODE_WRITE_MULTIPLE}
    THEN WordAt(pdu, 2) ELSE req.start_addr

\* fillTheConfirmationPDUPart: an answer to a write names its registers itself.
TCPConfirmation(pdu, req) ==
    [func_code |-> pdu[1],
     start_addr |-> StartOfAnswer(pdu, req),
     reg_count |-> CASE pdu[1] = FN_CODE_READ_HOLDING -> CountOfBytes(pdu[2])
                     [] pdu[1] = FN_CODE_WRITE_SINGLE -> 1
                     [] pdu[1] = FN_CODE_WRITE_MULTIPLE -> WordAt(pdu, 4)
                     [] OTHER -> 0]
=============================================================================
