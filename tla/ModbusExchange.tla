---------------------------- MODULE ModbusExchange ----------------------------
(***************************************************************************)
(* One master and one slave exchange PDUs, byte by byte: a client builds   *)
(* the request, the slave executes it on its registers and builds the      *)
(* answer in the buffer that still holds the answer before, and the client *)
(* copies the registers it reads.  The master is the serial one            *)
(* (mcserial.c), the TCP client (mctcp.c), or another program; the slave   *)
(* is _StateProcessPDU of msserial.c with modbus_pdu.c, and stands for the *)
(* server of the TCP client too.  A PDU may be lost on the way.            *)
(***************************************************************************)
EXTENDS ModbusPDU

CONSTANTS
    Masters,        \* which clients there are
    Functions,      \* function codes
    Starts,         \* start addresses
    Counts,         \* register counts
    Seeds,          \* first values of what is written
    Present,        \* the addresses IParamAdressCheck knows
    WriteResults,   \* what IParamWrite answers, negated: 0 is success
    MaxExchanges,   \* bound: the number of requests
    MaxRegisters    \* bound: the registers asked for, all requests together

ASSUME MasterAssumption == Masters \subseteq {"serial", "tcp", "other"}

ASSUME RequestAssumption ==
    /\ Functions \subseteq 1 .. 127
    /\ Starts \subseteq Word
    /\ Counts \subseteq Word
    /\ Seeds \subseteq Word

ASSUME SlaveAssumption ==
    /\ Present \subseteq Word
    /\ WriteResults \subseteq {0, 1, 2, 3}

ASSUME BoundAssumption == {MaxExchanges, MaxRegisters} \subseteq Nat

VARIABLES
    phase,          \* where the exchange is
    request,        \* the request of the client
    pdu,            \* the PDU on the way
    registers,      \* of the slave
    buffer_tx,      \* of the slave
    area,           \* the registers the client has read
    confirmation,   \* what the TCP client tells its application
    before,         \* history: the registers when the request was made
    exchanges,      \* history: the number of requests
    asked           \* history: the number of registers asked for

clientVars == <<request, area, confirmation>>
slaveVars == <<registers, buffer_tx>>
historyVars == <<before, exchanges, asked>>
vars == <<phase, request, pdu, registers, buffer_tx, area, confirmation, before,
          exchanges, asked>>

\* The longest answer has 125 registers.
BufferLen == 252

NoRequest == [via |-> "none", func_no |-> 0, start_addr |-> 0, reg_count |-> 0,
              data |-> <<>>]

NoConfirmation == [func_code |-> 0, start_addr |-> 0, reg_count |-> 0]

Init ==
    /\ phase = "idle"
    /\ request = NoRequest
    /\ pdu = <<>>
    /\ registers = [a \in Present |-> (515 * a + 128) % 65536]
    /\ buffer_tx = [i \in 1 .. BufferLen |-> 0]
    /\ area = <<>>
    /\ confirmation = NoConfirmation
    /\ before = registers
    /\ exchanges = 0
    /\ asked = 0

-----------------------------------------------------------------------------
Values(n, x) == [k \in 1 .. n |-> (x + 257 * (k - 1)) % 65536]

DataOf(f, n, x) ==
    IF f \in {FN_CODE_WRITE_SINGLE, FN_CODE_WRITE_MULTIPLE} THEN Values(n, x) ELSE <<>>

\* A client writes one register with WRITE_SINGLE, and sends no function it
\* does not know; another program does.
Requests ==
    {r \in [via : Masters, func_no : Functions, start_addr : Starts,
            reg_count : Counts, seed : Seeds] :
        /\ r.func_no = FN_CODE_WRITE_SINGLE => r.reg_count = 1
        /\ r.func_no \in FunctionCodes <=> r.via # "other"}

Ask(r) ==
    /\ phase = "idle"
    /\ exchanges < MaxExchanges
    /\ asked + r.reg_count <= MaxRegisters
    /\ request' = [via |-> r.via, func_no |-> r.func_no, start_addr |-> r.start_addr,
                   reg_count |-> r.reg_count,
                   data |-> DataOf(r.func_no, r.reg_count, r.seed)]
    /\ pdu' = RequestPacket(request')
    /\ area' = <<>>
    /\ confirmation' = NoConfirmation
    /\ before' = registers
    /\ exchanges' = exchanges + 1
    /\ asked' = asked + r.reg_count
    /\ phase' = "asked"
    /\ UNCHANGED slaveVars

-----------------------------------------------------------------------------
(***************************************************************************)
(* The slave: _StateProcessPDU on the PDU rx.                              *)
(***************************************************************************)

\* The bytes written over the beginning of the buffer, and the n of it sent.
Send(bytes, n) ==
    /\ buffer_tx' = bytes \o SubSeq(buffer_tx, Len(bytes) + 1, BufferLen)
    /\ pdu' = SubSeq(buffer_tx', 1, n)

ResponsePacketException(rx, code) ==
    /\ Send(<<SetBit7(rx[1]), code>>, 2)
    /\ UNCHANGED registers

\* Only the first and the last address are checked.
AddressRefused(rx) == {Address(rx), LastAddress(rx)} \ Present # {}

IParamRead(a) == IF a \in Present THEN registers[a] ELSE 0

ResponsePacketReadHolding(rx) ==
    LET n == Quantity(rx)
        read == IF ReadsToTheEnd(rx) THEN <<>>
                ELSE [k \in 1 .. n |-> IParamRead(Address(rx) + k - 1)]
    IN  /\ rx[1] = FN_CODE_READ_HOLDING
        /\ IF n \notin 1 .. 125
           THEN ResponsePacketException(rx, EX_ILLEGAL_DATA_VALUE)
           ELSE IF AddressRefused(rx)
           THEN ResponsePacketException(rx, EX_ILLEGAL_DATA_ADDRES)
           ELSE /\ Send(<<FN_CODE_READ_HOLDING, 2 * n>> \o Bytes(read), 2 + 2 * n)
                /\ UNCHANGED registers

\* The registers after the first n of the words were written from address a on.
Written(a, ws, n) ==
    [r \in Present |-> LET k == (r - a) % 65536
                       IN  IF k < n THEN ws[k + 1] ELSE registers[r]]

WriteException ==
    <<EX_ILLEGAL_DATA_VALUE, EX_ILLEGAL_SERVER_DEVICE_BUSY,
      EX_ILLEGAL_SERVER_DEVICE_FAILURE>>

\* Mutant of IParamWrite: a write that fails is answered as if it had not.
IParamWriteUnchecked(rx, ws, rest) ==
    \E res \in WriteResults :
        \E n \in IF res = 0 THEN {Len(ws)}
                 ELSE IF res = 1 THEN {0, Len(ws) - 1}
                 ELSE {0} :
            /\ registers' = Written(Address(rx), ws, n)
            /\ Send(SubSeq(rx, 1, 5), 5)

\* The application writes all of the words; or those before one out of its
\* limits (result -1); or, busy (-2) or failed (-3), none.  rest is what is left
\* of an answer that was built before.
IParamWrite(rx, ws, rest) ==
    \E res \in WriteResults :
        \E n \in IF res = 0 THEN {Len(ws)}
                 ELSE IF res = 1 THEN {0, Len(ws) - 1}
                 ELSE {0} :
            /\ registers' = Written(Address(rx), ws, n)
            /\ IF res = 0 THEN Send(SubSeq(rx, 1, 5), 5)
               ELSE Send(<<SetBit7(rx[1]), WriteException[res]>> \o rest, 2)

\* Bytes 4 and 5 are the value, and echoed like the quantity of the other write.
ResponsePacketWriteSingle(rx) ==
    /\ rx[1] = FN_CODE_WRITE_SINGLE
    /\ IF Address(rx) \notin Present
       THEN ResponsePacketException(rx, EX_ILLEGAL_DATA_ADDRES)
       ELSE IParamWrite(rx, Words(rx, 4, 1), <<>>)

ResponsePacketWriteMultiple(rx) ==
    /\ rx[1] = FN_CODE_WRITE_MULTIPLE
    /\ IF Quantity(rx) \notin 1 .. 123
       THEN ResponsePacketException(rx, EX_ILLEGAL_DATA_VALUE)
       ELSE IF AddressRefused(rx)
       THEN ResponsePacketException(rx, EX_ILLEGAL_DATA_ADDRES)
       ELSE IParamWrite(rx, WrittenWords(rx), SubSeq(rx, 3, 5))

IllegalFunction(rx) ==
    /\ rx[1] \notin FunctionCodes
    /\ ResponsePacketException(rx, EX_ILLEGAL_FUNCTION)

Serve(rx) ==
    /\ phase = "asked"
    /\ \/ ResponsePacketReadHolding(rx)
       \/ ResponsePacketWriteSingle(rx)
       \/ ResponsePacketWriteMultiple(rx)
       \/ IllegalFunction(rx)
    /\ phase' = "answered"
    /\ UNCHANGED <<clientVars, historyVars>>

-----------------------------------------------------------------------------
(***************************************************************************)
(* The client takes the answer rx.  The serial master transmits a request  *)
(* again after an exception, and looks at the function code of the answer; *)
(* the TCP client looks at that of the request.                            *)
(***************************************************************************)
SerialTake(rx) ==
    /\ request.via = "serial"
    /\ area' = IF rx[1] = FN_CODE_READ_HOLDING THEN SerialArea(rx) ELSE area
    /\ UNCHANGED confirmation

TCPTake(rx) ==
    /\ request.via = "tcp"
    /\ area' = IF request.func_no = FN_CODE_READ_HOLDING /\ ~IsException(rx)
               THEN TCPArea(rx, request) ELSE area
    /\ confirmation' = TCPConfirmation(rx, request)

OtherTake ==
    /\ request.via = "other"
    /\ UNCHANGED <<area, confirmation>>

Take(rx) ==
    /\ phase = "answered"
    /\ SerialTake(rx) \/ TCPTake(rx) \/ OtherTake
    /\ phase' = "taken"
    /\ UNCHANGED <<request, pdu, slaveVars, historyVars>>

\* The request or the answer is lost.
Lose ==
    /\ phase \in {"asked", "answered"}
    /\ phase' = "lost"
    /\ UNCHANGED <<pdu, clientVars, slaveVars, historyVars>>

Finish ==
    /\ phase \in {"taken", "lost"}
    /\ phase' = "idle"
    /\ UNCHANGED <<pdu, clientVars, slaveVars, historyVars>>

Next ==
    \/ \E r \in Requests : Ask(r)
    \/ Serve(pdu)
    \/ Take(pdu)
    \/ Lose
    \/ Finish

Spec == Init /\ [][Next]_vars

-----------------------------------------------------------------------------
TypeOK ==
    /\ phase \in {"idle", "asked", "answered", "taken", "lost"}
    /\ pdu \in Seq(Byte)
    /\ registers \in [Present -> Word]
    /\ buffer_tx \in [1 .. BufferLen -> Byte]
    /\ area \in Seq(Word)
    /\ confirmation \in [func_code : Byte, start_addr : Word, reg_count : Word]
    /\ exchanges \in 0 .. MaxExchanges
    /\ asked \in 0 .. MaxRegisters

Asked == {(request.start_addr + k) % 65536 : k \in 0 .. request.reg_count - 1}

ToTheEnd == request.start_addr + request.reg_count > 65535

(***************************************************************************)
(* A read answered without an exception gives the client the registers of  *)
(* the slave, as many as it asked for and in their order, except where it  *)
(* reaches the last register of the address space.                         *)
(***************************************************************************)
ReadTruthful(master) ==
    phase = "taken" /\ request.via = master /\ ~ToTheEnd
        /\ request.func_no = FN_CODE_READ_HOLDING /\ ~IsException(pdu)
    => area = [k \in 1 .. request.reg_count |->
                    IParamRead(request.start_addr + k - 1)]

SerialReadsRegisters == ReadTruthful("serial")

\* What is written to an address that was asked for.
Value(a) == request.data[((a - request.start_addr) % 65536) + 1]

(***************************************************************************)
(* The answer tells what became of the registers.  Without an exception    *)
(* all that was asked is written, in its order; with one, at most the      *)
(* application's part of it; and nothing else is ever written.             *)
(***************************************************************************)
WriteApplied ==
    phase \in {"answered", "taken"} =>
        \A a \in Present :
            IF /\ request.func_no \in {FN_CODE_WRITE_SINGLE, FN_CODE_WRITE_MULTIPLE}
               /\ a \in Asked
            THEN registers[a] = Value(a) \/ (IsException(pdu) /\ registers[a] = before[a])
            ELSE registers[a] = before[a]

(***************************************************************************)
(* The confirmation the TCP client gives its application names the         *)
(* registers of the request, for reads of less than 64 registers: the byte *)
(* count of a longer one is negative as an int8_t.                         *)
(***************************************************************************)
ConfirmationNamesRequest ==
    phase = "taken" /\ request.via = "tcp" =>
        /\ ClearBit7(confirmation.func_code) = request.func_no
        /\ confirmation.start_addr = request.start_addr
        /\ IsException(pdu) => confirmation.reg_count = 0
        /\ ~IsException(pdu) /\ (request.func_no = FN_CODE_READ_HOLDING =>
                                    request.reg_count < 64)
              => confirmation.reg_count = request.reg_count

-----------------------------------------------------------------------------
(***************************************************************************)
(* What comments of the code promise and the code does not keep.           *)
(***************************************************************************)

\* mctcp.c:674: the data that comes with the answer to a read is written to
\* the application's area.
TCPReadsRegisters == ReadTruthful("tcp")
===============================================================================
