-------------------------- MODULE ModbusExchangeProofs --------------------------
(***************************************************************************)
(* What a master and a slave of this library make of each other's PDUs,    *)
(* for every set of requests, registers and answers of the application,    *)
(* and any number of exchanges: a read returns the registers, a write is   *)
(* applied as its answer says, and the TCP client's confirmation names its *)
(* request.                                                                *)
(***************************************************************************)
EXTENDS ModbusExchange, SequenceTheorems, TLAPS

-----------------------------------------------------------------------------
(***************************************************************************)
(* Bytes and words.                                                        *)
(***************************************************************************)

\* The solvers know the intervals by their bounds.
LEMMA Intervals == \A a, b \in Int : \A x : x \in a .. b <=> x \in Int /\ a <= x /\ x <= b
OBVIOUS

LEMMA ByteRange == \A x : x \in Byte <=> x \in Int /\ 0 <= x /\ x <= 255
<1>1. 0 \in Int /\ 255 \in Int
  OBVIOUS
<1> QED
  BY <1>1, Intervals, Zenon DEF Byte

LEMMA WordRange == \A x : x \in Word <=> x \in Int /\ 0 <= x /\ x <= 65535
<1>1. 0 \in Int /\ UINT16_MAX \in Int
  BY DEF UINT16_MAX
<1>2. \A x : x \in Word <=> x \in Int /\ 0 <= x /\ x <= UINT16_MAX
  BY <1>1, Intervals, Zenon DEF Word
<1> QED
  BY <1>2 DEF UINT16_MAX

LEMMA FunctionRange == \A x : x \in 1 .. 127 <=> x \in Int /\ 1 <= x /\ x <= 127
<1>1. 1 \in Int /\ 127 \in Int
  OBVIOUS
<1> QED
  BY <1>1, Intervals, Zenon

\* The high and the low byte of a word.
LEMMA WordOfBytes ==
    ASSUME NEW w \in Word
    PROVE  /\ w \div 256 \in Byte /\ w % 256 \in Byte
           /\ 256 * (w \div 256) + (w % 256) = w
BY ByteRange, WordRange

\* Each word is two bytes, the high one first.
LEMMA BytesOfWords ==
    ASSUME NEW ws \in Seq(Word)
    PROVE  /\ Bytes(ws) \in Seq(Byte)
           /\ Len(Bytes(ws)) = 2 * Len(ws)
           /\ \A k \in 1 .. Len(ws) :
                 /\ Bytes(ws)[2 * k - 1] = ws[k] \div 256
                 /\ Bytes(ws)[2 * k] = ws[k] % 256
<1> DEFINE n == Len(ws)
           b(i) == IF i % 2 = 1 THEN ws[(i + 1) \div 2] \div 256 ELSE ws[i \div 2] % 256
<1>1. n \in Nat /\ \A k \in 1 .. n : ws[k] \in Word
  OBVIOUS
<1> HIDE DEF n
<1>2. ASSUME NEW i \in 1 .. 2 * n
      PROVE  b(i) \in Byte
  <2>1. CASE i % 2 = 1
    <3>1. (i + 1) \div 2 \in 1 .. n
      BY <1>1, <2>1
    <3>2. ws[(i + 1) \div 2] \div 256 \in Byte
      BY <1>1, <3>1, WordOfBytes
    <3> QED
      BY <2>1, <3>2
  <2>2. CASE i % 2 # 1
    <3>1. i \div 2 \in 1 .. n
      BY <1>1, <2>2
    <3>2. ws[i \div 2] % 256 \in Byte
      BY <1>1, <3>1, WordOfBytes
    <3> QED
      BY <2>2, <3>2
  <2> QED
    BY <2>1, <2>2
<1>3. ASSUME NEW k \in 1 .. n
      PROVE  /\ 2 * k - 1 \in 1 .. 2 * n /\ 2 * k \in 1 .. 2 * n
             /\ b(2 * k - 1) = ws[k] \div 256 /\ b(2 * k) = ws[k] % 256
  <2>1. (2 * k - 1) % 2 = 1 /\ (2 * k) % 2 = 0 /\ (2 * k - 1 + 1) \div 2 = k /\ (2 * k) \div 2 = k
    BY <1>1
  <2> QED
    BY <1>1, <2>1
<1> HIDE DEF b
<1>4. Bytes(ws) = [i \in 1 .. 2 * n |-> b(i)]
  BY DEF Bytes, b, n
<1>5. Bytes(ws) \in Seq(Byte) /\ Len(Bytes(ws)) = 2 * n
  BY <1>1, <1>2, <1>4
<1>6. \A k \in 1 .. n : Bytes(ws)[2 * k - 1] = ws[k] \div 256 /\ Bytes(ws)[2 * k] = ws[k] % 256
  BY <1>3, <1>4
<1> QED
  BY <1>5, <1>6 DEF n

\* A word read from a PDU.
LEMMA WordsOfPdu ==
    ASSUME NEW p \in Seq(Byte), NEW first \in Nat \ {0}, NEW n \in Nat,
           first + 2 * n - 1 <= Len(p)
    PROVE  /\ Words(p, first, n) \in Seq(Word)
           /\ Len(Words(p, first, n)) = n
           /\ \A k \in 1 .. n :
                 Words(p, first, n)[k] = 256 * p[first + 2 * k - 2] + p[first + 2 * k - 1]
<1>1. ASSUME NEW k \in 1 .. n
      PROVE  /\ WordAt(p, first + 2 * k - 2)
                    = 256 * p[first + 2 * k - 2] + p[first + 2 * k - 1]
             /\ WordAt(p, first + 2 * k - 2) \in Word
  <2>1. first + 2 * k - 2 \in 1 .. Len(p) /\ first + 2 * k - 1 \in 1 .. Len(p)
    OBVIOUS
  <2>2. p[first + 2 * k - 2] \in Byte /\ p[first + 2 * k - 1] \in Byte
    BY <2>1
  <2>3. first + 2 * k - 2 + 1 = first + 2 * k - 1
    OBVIOUS
  <2> DEFINE h == p[first + 2 * k - 2]
             l == p[first + 2 * k - 1]
  <2> HIDE DEF h, l
  <2>4. WordAt(p, first + 2 * k - 2) = 256 * h + l
    BY <2>3 DEF WordAt, h, l
  <2>5. h \in Byte /\ l \in Byte => 256 * h + l \in Word
    BY ByteRange, WordRange
  <2> QED
    BY <2>2, <2>4, <2>5 DEF h, l
<1>2. Words(p, first, n) = [k \in 1 .. n |-> WordAt(p, first + 2 * k - 2)]
  BY DEF Words
<1> QED
  BY <1>1, <1>2

LEMMA ExceptionBit ==
    ASSUME NEW f, f \in 1 .. 127
    PROVE  /\ SetBit7(f) = f + 128 /\ SetBit7(f) \in Byte
           /\ ClearBit7(f) = f /\ ClearBit7(SetBit7(f)) = f
BY ByteRange, FunctionRange DEF SetBit7, ClearBit7

-----------------------------------------------------------------------------
(***************************************************************************)
(* Requests.                                                               *)
(***************************************************************************)
Writes == {FN_CODE_WRITE_SINGLE, FN_CODE_WRITE_MULTIPLE}

Request ==
    {r \in [via : Masters, func_no : 1 .. 127, start_addr : Word, reg_count : Word,
            data : Seq(Word)] :
        /\ r.func_no \in Writes => Len(r.data) = r.reg_count
        /\ r.func_no = FN_CODE_WRITE_SINGLE => r.reg_count = 1
        /\ r.func_no \in FunctionCodes <=> r.via # "other"}

LEMMA AskedRequest ==
    ASSUME NEW r \in Requests
    PROVE  [via |-> r.via, func_no |-> r.func_no, start_addr |-> r.start_addr,
            reg_count |-> r.reg_count,
            data |-> DataOf(r.func_no, r.reg_count, r.seed)] \in Request
<1>1. /\ r.via \in Masters /\ r.func_no \in 1 .. 127 /\ r.start_addr \in Word
      /\ r.reg_count \in Word /\ r.seed \in Word
      /\ r.func_no = FN_CODE_WRITE_SINGLE => r.reg_count = 1
      /\ r.func_no \in FunctionCodes <=> r.via # "other"
  BY RequestAssumption DEF Requests
<1>2. /\ Values(r.reg_count, r.seed) \in Seq(Word)
      /\ Len(Values(r.reg_count, r.seed)) = r.reg_count
  <2> DEFINE n == r.reg_count
             x == r.seed
             v(k) == (x + 257 * (k - 1)) % 65536
  <2>1. n \in Nat /\ x \in Nat
    BY <1>1, WordRange
  <2> HIDE DEF n, x
  <2>2. \A k \in 1 .. n : v(k) \in Word
    BY <2>1, WordRange
  <2> HIDE DEF v
  <2>3. Values(n, x) = [k \in 1 .. n |-> v(k)]
    BY DEF Values, v
  <2>4. Values(n, x) \in Seq(Word) /\ Len(Values(n, x)) = n
    BY <2>1, <2>2, <2>3
  <2> QED
    BY <2>4 DEF n, x
<1>3. <<>> \in Seq(Word)
  OBVIOUS
<1> DEFINE d == DataOf(r.func_no, r.reg_count, r.seed)
<1>4. d \in Seq(Word) /\ (r.func_no \in Writes => Len(d) = r.reg_count)
  BY <1>2, <1>3 DEF DataOf, Writes
<1> HIDE DEF d
<1> QED
  BY <1>1, <1>4 DEF Request, d

\* The first five bytes of every request.
LEMMA FiveBytes ==
    ASSUME NEW f \in Byte, NEW a \in Word, NEW c \in Word
    PROVE  LET p == <<f>> \o Bytes(<<a, c>>)
           IN  /\ p \in Seq(Byte) /\ Len(p) = 5
               /\ p[1] = f
               /\ p[2] = a \div 256 /\ p[3] = a % 256
               /\ p[4] = c \div 256 /\ p[5] = c % 256
<1> DEFINE ws == <<a, c>>
           b == Bytes(ws)
           h == <<f>>
<1>1. ws \in Seq(Word) /\ Len(ws) = 2 /\ ws[1] = a /\ ws[2] = c
  OBVIOUS
<1>2. h \in Seq(Byte) /\ Len(h) = 1 /\ h[1] = f
  OBVIOUS
<1> HIDE DEF ws, h
<1>3. /\ b \in Seq(Byte) /\ Len(b) = 2 * 2
      /\ \A k \in 1 .. 2 : b[2 * k - 1] = ws[k] \div 256 /\ b[2 * k] = ws[k] % 256
  <2>1. /\ b \in Seq(Byte) /\ Len(b) = 2 * Len(ws)
        /\ \A k \in 1 .. Len(ws) : b[2 * k - 1] = ws[k] \div 256 /\ b[2 * k] = ws[k] % 256
    BY <1>1, BytesOfWords, Zenon
  <2> HIDE DEF b
  <2> QED
    BY <1>1, <2>1
<1> HIDE DEF b
<1>4. /\ b[2 * 1 - 1] = a \div 256 /\ b[2 * 1] = a % 256
      /\ b[2 * 2 - 1] = c \div 256 /\ b[2 * 2] = c % 256
  BY <1>1, <1>3
<1> DEFINE p == h \o b
<1>5. /\ p \in Seq(Byte) /\ Len(p) = Len(h) + Len(b)
      /\ \A i \in 1 .. Len(h) + Len(b) : p[i] = IF i <= Len(h) THEN h[i] ELSE b[i - Len(h)]
  BY <1>2, <1>3, ConcatProperties
<1> HIDE DEF p
<1>6. p \in Seq(Byte) /\ Len(p) = 5
  BY <1>2, <1>3, <1>5
<1>7. \A i \in 1 .. 5 : p[i] = IF i <= 1 THEN h[i] ELSE b[i - 1]
  BY <1>2, <1>3, <1>5
<1>8. p[1] = h[1] /\ p[2] = b[1] /\ p[3] = b[2] /\ p[4] = b[3] /\ p[5] = b[4]
  BY <1>7
<1>9. b[1] = a \div 256 /\ b[2] = a % 256 /\ b[3] = c \div 256 /\ b[4] = c % 256
  BY <1>4
<1> QED
  BY <1>2, <1>6, <1>8, <1>9 DEF p, b, ws, h

\* Words that are put after a header are read there again.
LEMMA WordsAfter ==
    ASSUME NEW h \in Seq(Byte), NEW ws \in Seq(Word)
    PROVE  LET p == h \o Bytes(ws)
           IN  /\ p \in Seq(Byte) /\ Len(p) = Len(h) + 2 * Len(ws)
               /\ \A i \in 1 .. Len(h) : p[i] = h[i]
               /\ Words(p, Len(h) + 1, Len(ws)) = ws
<1> DEFINE b == Bytes(ws)
           p == h \o b
           m == Len(h)
           n == Len(ws)
<1>1. m \in Nat /\ n \in Nat /\ Len(h) = m /\ Len(ws) = n
  OBVIOUS
<1> HIDE DEF m, n
<1>2. /\ b \in Seq(Byte) /\ Len(b) = 2 * n
      /\ \A k \in 1 .. n : b[2 * k - 1] = ws[k] \div 256 /\ b[2 * k] = ws[k] % 256
  BY <1>1, BytesOfWords, Zenon
<1> HIDE DEF b
<1>3. /\ p \in Seq(Byte) /\ Len(p) = m + 2 * n
      /\ \A i \in 1 .. m + 2 * n : p[i] = IF i <= m THEN h[i] ELSE b[i - m]
  <2>1. /\ p \in Seq(Byte) /\ Len(p) = Len(h) + Len(b)
        /\ \A i \in 1 .. Len(h) + Len(b) : p[i] = IF i <= Len(h) THEN h[i] ELSE b[i - Len(h)]
    BY <1>2, ConcatProperties
  <2> HIDE DEF p
  <2> QED
    BY <1>1, <1>2, <2>1
<1> HIDE DEF p
<1>4. \A i \in 1 .. m : p[i] = h[i]
  BY <1>1, <1>3
<1>5. \A j \in 1 .. 2 * n : p[m + j] = b[j]
  <2> SUFFICES ASSUME NEW j \in 1 .. 2 * n PROVE p[m + j] = b[j]
    OBVIOUS
  <2> DEFINE i == m + j
  <2>1. i \in 1 .. m + 2 * n /\ ~(i <= m) /\ i - m = j
    BY <1>1
  <2> HIDE DEF i
  <2>2. p[i] = b[i - m]
    BY <1>3, <2>1
  <2> QED
    BY <2>1, <2>2 DEF i
<1>6. m + 1 \in Nat \ {0} /\ m + 1 + 2 * n - 1 <= Len(p)
  BY <1>1, <1>3
<1>7. /\ Words(p, m + 1, n) \in Seq(Word) /\ Len(Words(p, m + 1, n)) = n
      /\ \A k \in 1 .. n :
            Words(p, m + 1, n)[k] = 256 * p[m + 1 + 2 * k - 2] + p[m + 1 + 2 * k - 1]
  <2> DEFINE first == m + 1
  <2>1. first \in Nat \ {0} /\ first + 2 * n - 1 <= Len(p)
    BY <1>6
  <2> HIDE DEF first
  <2>2. /\ Words(p, first, n) \in Seq(Word) /\ Len(Words(p, first, n)) = n
        /\ \A k \in 1 .. n :
              Words(p, first, n)[k] = 256 * p[first + 2 * k - 2] + p[first + 2 * k - 1]
    <3>1. p \in Seq(Byte) /\ n \in Nat
      BY <1>1, <1>3
    <3> QED
      BY <3>1, <2>1, WordsOfPdu
  <2> QED
    BY <2>2 DEF first
<1>8. ASSUME NEW k \in 1 .. n
      PROVE  Words(p, m + 1, n)[k] = ws[k]
  <2> DEFINE w == ws[k]
  <2>1. w \in Word
    BY <1>1
  <2> HIDE DEF w
  <2>2. 256 * (w \div 256) + (w % 256) = w
    BY <2>1, WordOfBytes
  <2>3. b[2 * k - 1] = w \div 256 /\ b[2 * k] = w % 256
    BY <1>2 DEF w
  <2>4. m + 1 + 2 * k - 2 = m + (2 * k - 1) /\ m + 1 + 2 * k - 1 = m + 2 * k
    BY <1>1
  <2>5. 2 * k - 1 \in 1 .. 2 * n /\ 2 * k \in 1 .. 2 * n
    BY <1>1
  <2>6. p[m + (2 * k - 1)] = b[2 * k - 1] /\ p[m + 2 * k] = b[2 * k]
    BY <1>5, <2>5
  <2> QED
    BY <1>7, <2>2, <2>3, <2>4, <2>6 DEF w
<1>9. Words(p, m + 1, n) = ws
  BY <1>1, <1>7, <1>8, SeqEqual
<1> QED
  BY <1>3, <1>4, <1>9 DEF p, b, m, n

LEMMA RequestFields ==
    ASSUME NEW r \in Request
    PROVE  /\ r.via \in Masters /\ r.func_no \in 1 .. 127 /\ r.func_no \in Byte
           /\ r.start_addr \in Word /\ r.reg_count \in Word /\ r.data \in Seq(Word)
           /\ r.func_no \in Writes => Len(r.data) = r.reg_count
           /\ r.func_no = FN_CODE_WRITE_SINGLE => r.reg_count = 1
           /\ r.func_no \in FunctionCodes <=> r.via # "other"
<1>1. /\ r.via \in Masters /\ r.func_no \in 1 .. 127
      /\ r.start_addr \in Word /\ r.reg_count \in Word /\ r.data \in Seq(Word)
      /\ r.func_no \in Writes => Len(r.data) = r.reg_count
      /\ r.func_no = FN_CODE_WRITE_SINGLE => r.reg_count = 1
      /\ r.func_no \in FunctionCodes <=> r.via # "other"
  BY Zenon DEF Request
<1>2. \A f : f \in 1 .. 127 => f \in Byte
  BY FunctionRange, ByteRange
<1> QED
  BY <1>1, <1>2, Zenon

LEMMA HeaderWords ==
    ASSUME NEW p, NEW a \in Word, NEW c \in Word,
           p[2] = a \div 256, p[3] = a % 256, p[4] = c \div 256, p[5] = c % 256
    PROVE  Address(p) = a /\ Quantity(p) = c
<1>1. Address(p) = 256 * p[2] + p[3] /\ Quantity(p) = 256 * p[4] + p[5]
  BY DEF Address, Quantity, WordAt
<1>2. 256 * (a \div 256) + (a % 256) = a /\ 256 * (c \div 256) + (c % 256) = c
  BY WordOfBytes
<1> QED
  BY <1>1, <1>2

\* What the slave reads in the request of a client.
LEMMA RequestBytes ==
    ASSUME NEW r \in Request
    PROVE  LET p == RequestPacket(r)
           IN  /\ p \in Seq(Byte) /\ Len(p) >= 5
               /\ p[1] = r.func_no /\ Address(p) = r.start_addr
               /\ r.func_no # FN_CODE_WRITE_SINGLE => Quantity(p) = r.reg_count
               /\ r.func_no = FN_CODE_WRITE_SINGLE => Words(p, 4, 1) = r.data
               /\ r.func_no = FN_CODE_WRITE_MULTIPLE => WrittenWords(p) = r.data
<1> DEFINE p == RequestPacket(r)
           f == r.func_no
           a == r.start_addr
           c == r.reg_count
           d == r.data
<1> SUFFICES /\ p \in Seq(Byte) /\ Len(p) >= 5
             /\ p[1] = f /\ Address(p) = a
             /\ f # FN_CODE_WRITE_SINGLE => Quantity(p) = c
             /\ f = FN_CODE_WRITE_SINGLE => Words(p, 4, 1) = d
             /\ f = FN_CODE_WRITE_MULTIPLE => WrittenWords(p) = d
  OBVIOUS
<1>1. /\ f \in Byte /\ a \in Word /\ c \in Word /\ d \in Seq(Word)
      /\ f \in Writes => Len(d) = c
      /\ f = FN_CODE_WRITE_SINGLE => c = 1
  BY RequestFields
<1> HIDE DEF p, f, a, c, d
<1>2. CASE f = FN_CODE_WRITE_SINGLE
  <2> DEFINE e == d[1]
             q == <<f>> \o Bytes(<<a, e>>)
  <2>1. p = q
    <3>1. RequestPacket(r) = RequestPacketWriteSingle(r)
      BY <1>2 DEF RequestPacket, FN_CODE_WRITE_SINGLE, FN_CODE_WRITE_MULTIPLE, f
    <3> QED
      BY <3>1, Zenon DEF RequestPacketWriteSingle, p, f, a, d
  <2>2. Len(d) = 1 /\ e \in Word
    <3>1. f \in Writes
      BY <1>2 DEF Writes
    <3>2. Len(d) = 1
      BY <1>1, <1>2, <3>1
    <3>3. d \in Seq(Word)
      BY <1>1
    <3> QED
      BY <3>2, <3>3
  <2> HIDE DEF e
  <2>3. /\ q \in Seq(Byte) /\ Len(q) = 5 /\ q[1] = f
        /\ q[2] = a \div 256 /\ q[3] = a % 256 /\ q[4] = e \div 256 /\ q[5] = e % 256
    BY <1>1, <2>2, FiveBytes
  <2> HIDE DEF q
  <2>4. Address(q) = a
    BY <1>1, <2>2, <2>3, HeaderWords
  <2>5. /\ Words(q, 4, 1) \in Seq(Word) /\ Len(Words(q, 4, 1)) = 1
        /\ \A k \in 1 .. 1 : Words(q, 4, 1)[k] = 256 * q[4 + 2 * k - 2] + q[4 + 2 * k - 1]
    <3> DEFINE first == 4
               n == 1
    <3>1. q \in Seq(Byte) /\ first \in Nat \ {0} /\ n \in Nat /\ first + 2 * n - 1 <= Len(q)
      BY <2>3
    <3> HIDE DEF first, n
    <3>2. /\ Words(q, first, n) \in Seq(Word) /\ Len(Words(q, first, n)) = n
          /\ \A k \in 1 .. n :
                Words(q, first, n)[k] = 256 * q[first + 2 * k - 2] + q[first + 2 * k - 1]
      BY <3>1, WordsOfPdu
    <3> QED
      BY <3>2 DEF first, n
  <2>6. Words(q, 4, 1)[1] = e
    <3>1. Words(q, 4, 1)[1] = 256 * q[4] + q[5]
      BY <2>5
    <3>2. 256 * (e \div 256) + (e % 256) = e
      BY <2>2, WordOfBytes
    <3> QED
      BY <2>3, <3>1, <3>2
  <2>7. Words(q, 4, 1) = d
    BY <1>1, <2>2, <2>5, <2>6, SeqEqual DEF e
  <2>8. f # FN_CODE_WRITE_MULTIPLE
    BY <1>2 DEF FN_CODE_WRITE_SINGLE, FN_CODE_WRITE_MULTIPLE
  <2> QED
    BY <1>2, <2>1, <2>3, <2>4, <2>7, <2>8
<1>3. CASE f # FN_CODE_WRITE_SINGLE
  <2> DEFINE q == <<f>> \o Bytes(<<a, c>>)
  <2>1. /\ q \in Seq(Byte) /\ Len(q) = 5 /\ q[1] = f
        /\ q[2] = a \div 256 /\ q[3] = a % 256 /\ q[4] = c \div 256 /\ q[5] = c % 256
    BY <1>1, FiveBytes
  <2>2. CASE f # FN_CODE_WRITE_MULTIPLE
    <3>1. p = q
      BY <1>3, <2>2 DEF RequestPacket, RequestPacketReadHolding, p, f, a, c
    <3> HIDE DEF q
    <3>2. Address(q) = a /\ Quantity(q) = c
      BY <1>1, <2>1, HeaderWords
    <3>3. q \in Seq(Byte) /\ q[1] = f /\ Len(q) >= 5
      <4>1. Len(q) = 5
        BY <2>1
      <4>2. Len(q) >= 5
        BY <4>1
      <4> QED
        BY <2>1, <4>2, Zenon
    <3> QED
      BY <1>3, <2>2, <3>1, <3>2, <3>3, Zenon
  <2>3. CASE f = FN_CODE_WRITE_MULTIPLE
    <3> DEFINE b == (2 * c) % 256
               h == q \o <<b>>
               s == h \o Bytes(d)
    <3>1. p = s
      BY <1>3, <2>3 DEF RequestPacket, RequestPacketWriteMultiple, p, f, a, c, d
    <3>2. b \in Byte
      BY <1>1, WordRange, ByteRange
    <3> HIDE DEF q, b
    <3>3. <<b>> \in Seq(Byte) /\ Len(<<b>>) = 1
      BY <3>2
    <3>4. h \in Seq(Byte) /\ Len(h) = 6 /\ \A i \in 1 .. 5 : h[i] = q[i]
      <4> DEFINE t == <<b>>
      <4> HIDE DEF t
      <4>1. t \in Seq(Byte) /\ Len(t) = 1
        BY <3>3 DEF t
      <4> DEFINE u == q \o t
      <4>2. /\ u \in Seq(Byte) /\ Len(u) = Len(q) + Len(t)
            /\ \A i \in 1 .. Len(q) + Len(t) : u[i] = IF i <= Len(q) THEN q[i] ELSE t[i - Len(q)]
        <5>1. q \in Seq(Byte) /\ t \in Seq(Byte)
          BY <2>1, <4>1
        <5> QED
          BY <5>1, ConcatProperties
      <4> HIDE DEF u
      <4>3. u \in Seq(Byte) /\ Len(u) = 6 /\ \A i \in 1 .. 5 : u[i] = q[i]
        BY <2>1, <4>1, <4>2
      <4> QED
        BY <4>3 DEF u, t
    <3> HIDE DEF h
    <3>5. /\ s \in Seq(Byte) /\ Len(s) = Len(h) + 2 * Len(d)
          /\ \A i \in 1 .. Len(h) : s[i] = h[i]
          /\ Words(s, Len(h) + 1, Len(d)) = d
      BY <1>1, <3>4, WordsAfter
    <3> HIDE DEF s
    <3>6. /\ s[1] = q[1] /\ s[2] = q[2] /\ s[3] = q[3] /\ s[4] = q[4] /\ s[5] = q[5]
      BY <3>4, <3>5
    <3>7. Address(s) = a /\ Quantity(s) = c
      BY <1>1, <2>1, <3>6, HeaderWords
    <3>8. Len(d) = c /\ Len(d) \in Nat
      BY <1>1, <2>3 DEF Writes
    <3>9. WrittenWords(s) = d
      <4>1. Len(h) + 1 = 7
        BY <3>4
      <4> QED
        BY <3>5, <3>7, <3>8, <4>1 DEF WrittenWords
    <3>10. Len(s) >= 5
      BY <3>4, <3>5, <3>8
    <3> QED
      BY <1>3, <2>1, <2>3, <3>1, <3>5, <3>6, <3>7, <3>9, <3>10
  <2> QED
    BY <2>2, <2>3
<1> QED
  BY <1>2, <1>3

-----------------------------------------------------------------------------
(***************************************************************************)
(* Answers.                                                                *)
(***************************************************************************)
Buffer == [1 .. BufferLen -> Byte]

\* What is sent, where it is written over.
LEMMA SentBytes ==
    ASSUME buffer_tx \in Buffer, NEW bytes \in Seq(Byte), Len(bytes) <= BufferLen,
           NEW n \in Nat, n <= BufferLen, Send(bytes, n)
    PROVE  /\ buffer_tx' \in Buffer
           /\ pdu' \in Seq(Byte) /\ Len(pdu') = n
           /\ \A i \in 1 .. n : i <= Len(bytes) => pdu'[i] = bytes[i]
<1> DEFINE m == BufferLen
           l == Len(bytes)
           rest == SubSeq(buffer_tx, l + 1, m)
           b == bytes \o rest
<1>1. m \in Nat /\ l \in Nat /\ l <= m /\ n <= m /\ Len(bytes) = l
  BY DEF BufferLen
<1>2. buffer_tx \in Seq(Byte) /\ Len(buffer_tx) = m
  <2> HIDE DEF m
  <2> QED
    BY <1>1 DEF Buffer, m
<1>3. buffer_tx' = b /\ pdu' = SubSeq(b, 1, n)
  BY DEF Send
<1> HIDE DEF m, l
<1>4. rest \in Seq(Byte) /\ Len(rest) = m - l
  BY <1>1, <1>2
<1> HIDE DEF rest
<1>5. /\ b \in Seq(Byte) /\ Len(b) = m
      /\ \A i \in 1 .. l : b[i] = bytes[i]
  <2>1. /\ b \in Seq(Byte) /\ Len(b) = Len(bytes) + Len(rest)
        /\ \A i \in 1 .. Len(bytes) + Len(rest) :
              b[i] = IF i <= Len(bytes) THEN bytes[i] ELSE rest[i - Len(bytes)]
    BY <1>4, ConcatProperties
  <2> HIDE DEF b
  <2> QED
    BY <1>1, <1>4, <2>1
<1> HIDE DEF b
<1>6. SubSeq(b, 1, n) \in Seq(Byte) /\ Len(SubSeq(b, 1, n)) = n
  BY <1>1, <1>5
<1>7. \A i \in 1 .. n : SubSeq(b, 1, n)[i] = b[i]
  BY <1>1, <1>5
<1>8. b \in [1 .. m -> Byte]
  BY <1>1, <1>5
<1>9. \A i \in 1 .. n : i <= l => SubSeq(b, 1, n)[i] = bytes[i]
  BY <1>1, <1>5, <1>7
<1> QED
  BY <1>1, <1>3, <1>6, <1>8, <1>9 DEF Buffer, m, l


\* An exception names the function of the request with bit 7.
LEMMA ExceptionSent ==
    ASSUME request \in Request, pdu = RequestPacket(request), buffer_tx \in Buffer,
           NEW bytes \in Seq(Byte), 2 <= Len(bytes), Len(bytes) <= BufferLen,
           bytes[1] = SetBit7(pdu[1]), Send(bytes, 2)
    PROVE  /\ buffer_tx' \in Buffer /\ pdu' \in Seq(Byte)
           /\ pdu'[1] = request.func_no + 128
<1>1. pdu[1] = request.func_no /\ request.func_no \in 1 .. 127
  BY RequestBytes, RequestFields
<1>2. bytes[1] = request.func_no + 128
  BY <1>1, ExceptionBit
<1>3. 2 \in Nat /\ 2 <= BufferLen
  BY DEF BufferLen
<1>4. /\ buffer_tx' \in Buffer /\ pdu' \in Seq(Byte) /\ Len(pdu') = 2
      /\ \A i \in 1 .. 2 : i <= Len(bytes) => pdu'[i] = bytes[i]
  BY <1>3, SentBytes
<1>5. pdu'[1] = bytes[1]
  BY <1>4
<1> QED
  BY <1>2, <1>4, <1>5

LEMMA Refused ==
    ASSUME request \in Request, pdu = RequestPacket(request), buffer_tx \in Buffer,
           NEW code \in 1 .. 3, ResponsePacketException(pdu, code)
    PROVE  /\ buffer_tx' \in Buffer /\ pdu' \in Seq(Byte)
           /\ pdu'[1] = request.func_no + 128
           /\ registers' = registers
<1> DEFINE b == SetBit7(pdu[1])
           bytes == <<b, code>>
<1>1. pdu[1] = request.func_no /\ request.func_no \in 1 .. 127
  BY RequestBytes, RequestFields
<1>2. b \in Byte
  BY <1>1, ExceptionBit
<1>3. code \in Byte
  BY ByteRange
<1> HIDE DEF b
<1>4. bytes \in Seq(Byte) /\ Len(bytes) = 2 /\ bytes[1] = b
  BY <1>2, <1>3
<1>5. Send(bytes, 2) /\ registers' = registers
  BY DEF ResponsePacketException, b
<1> HIDE DEF bytes
<1>6. 2 <= Len(bytes) /\ Len(bytes) <= BufferLen
  BY <1>4 DEF BufferLen
<1>7. bytes[1] = SetBit7(pdu[1])
  BY <1>4 DEF b
<1>8. /\ buffer_tx' \in Buffer /\ pdu' \in Seq(Byte)
      /\ pdu'[1] = request.func_no + 128
  BY <1>4, <1>5, <1>6, <1>7, ExceptionSent
<1> QED
  BY <1>5, <1>8

-----------------------------------------------------------------------------
(***************************************************************************)
(* The inductive invariant.                                                *)
(***************************************************************************)
AskedInv ==
    phase = "asked" =>
        request \in Request /\ pdu = RequestPacket(request) /\ registers = before

RefusedAnswer == pdu[1] = request.func_no + 128

ReadAnswer ==
    /\ request.func_no = FN_CODE_READ_HOLDING
    /\ pdu[1] = FN_CODE_READ_HOLDING
    /\ 1 <= request.reg_count /\ request.reg_count <= 125
    /\ pdu[2] = 2 * request.reg_count
    /\ Len(pdu) = 2 + 2 * request.reg_count
    /\ ~ToTheEnd => Words(pdu, 3, request.reg_count)
                        = [k \in 1 .. request.reg_count |->
                                IParamRead(request.start_addr + k - 1)]

WriteAnswer ==
    /\ request.func_no \in Writes
    /\ pdu[1] = request.func_no
    /\ WordAt(pdu, 2) = request.start_addr
    /\ request.func_no = FN_CODE_WRITE_MULTIPLE => WordAt(pdu, 4) = request.reg_count

AnswerInv ==
    phase \in {"answered", "taken"} =>
        request \in Request /\ (RefusedAnswer \/ ReadAnswer \/ WriteAnswer)

TakenInv ==
    phase = "taken" =>
        /\ request.via = "serial" /\ pdu[1] = FN_CODE_READ_HOLDING => area = SerialArea(pdu)
        /\ request.via = "tcp" =>
              /\ confirmation = TCPConfirmation(pdu, request)
              /\ request.func_no = FN_CODE_READ_HOLDING /\ ~IsException(pdu) =>
                    area = TCPArea(pdu, request)

IInv == TypeOK /\ AskedInv /\ AnswerInv /\ WriteApplied /\ TakenInv

-----------------------------------------------------------------------------
(***************************************************************************)
(* The slave executes a write.                                             *)
(***************************************************************************)

\* An address is written when its distance from the first is below the count.
LEMMA AskedOffset ==
    ASSUME request.start_addr \in Word, request.reg_count \in Word, NEW a \in Word
    PROVE  LET off == (a - request.start_addr) % 65536
           IN  off \in Nat /\ (a \in Asked <=> off < request.reg_count)
<1> DEFINE s == request.start_addr
           c == request.reg_count
<1>1. a \in Asked <=> \E k \in 0 .. c - 1 : a = (s + k) % 65536
  BY DEF Asked
<1> HIDE DEF s, c
<1>2. s \in Word /\ c \in Word
  BY DEF s, c
<1>3. s \in Int /\ c \in Int /\ a \in Int /\ 0 <= s /\ s <= 65535 /\ 0 <= c /\ c <= 65535
      /\ 0 <= a /\ a <= 65535
  BY <1>2, WordRange
<1>4. ASSUME NEW k \in 0 .. c - 1, a = (s + k) % 65536
      PROVE  (a - s) % 65536 < c
  <2>1. k \in Int /\ 0 <= k /\ k < c
    BY <1>3
  <2>2. a = s + k \/ a = s + k - 65536
    BY <1>3, <1>4, <2>1
  <2>3. (a - s) % 65536 = k
    BY <1>3, <2>1, <2>2
  <2> QED
    BY <2>1, <2>3
<1>5. ASSUME (a - s) % 65536 < c
      PROVE  \E k \in 0 .. c - 1 : a = (s + k) % 65536
  <2> DEFINE k == (a - s) % 65536
  <2>1. k \in 0 .. c - 1
    BY <1>3, <1>5
  <2>2. a = (s + k) % 65536
    BY <1>3
  <2> HIDE DEF k
  <2> QED
    BY <2>1, <2>2
<1>6. (a - s) % 65536 \in Nat
  BY <1>3
<1> QED
  BY <1>4, <1>5, <1>1, <1>6 DEF s, c

\* The first n of the words are written: no register but those that were asked
\* for, and each of those when n is all.
LEMMA WrittenRegisters ==
    ASSUME request \in Request, request.func_no \in Writes,
           registers \in [Present -> Word], NEW n \in Int, n <= request.reg_count,
           registers' = Written(request.start_addr, request.data, n)
    PROVE  /\ registers' \in [Present -> Word]
           /\ \A a \in Present :
                 /\ a \notin Asked => registers'[a] = registers[a]
                 /\ a \in Asked => registers'[a] \in {registers[a], Value(a)}
                 /\ a \in Asked /\ n = request.reg_count => registers'[a] = Value(a)
<1> DEFINE s == request.start_addr
           c == request.reg_count
           d == request.data
           off(a) == (a - s) % 65536
<1>1. s \in Word /\ c \in Word /\ d \in Seq(Word) /\ Len(d) = c
  BY RequestFields
<1>2. registers' = [a \in Present |-> IF off(a) < n THEN d[off(a) + 1] ELSE registers[a]]
  BY DEF Written
<1>3. c \in Nat
  BY <1>1, WordRange
<1>4. \A a \in Present : a \in Word
  BY SlaveAssumption
<1>5. \A a \in Present : off(a) \in Nat /\ (a \in Asked <=> off(a) < c)
  <2> SUFFICES ASSUME NEW a \in Present
               PROVE  off(a) \in Nat /\ (a \in Asked <=> off(a) < c)
    OBVIOUS
  <2>1. a \in Word
    BY <1>4
  <2> QED
    BY <1>1, <2>1, AskedOffset
<1>6. \A a \in Present : Value(a) = d[off(a) + 1]
  BY DEF Value
<1>7. n <= c
  OBVIOUS
<1> HIDE DEF s, c, d, off
<1>8. \A a \in Present : off(a) < n => d[off(a) + 1] \in Word
  BY <1>1, <1>3, <1>5, <1>7
<1>9. registers' \in [Present -> Word]
  BY <1>2, <1>8
<1>10. \A a \in Present : registers'[a] = IF off(a) < n THEN d[off(a) + 1] ELSE registers[a]
  BY <1>2
<1>11. ASSUME NEW a \in Present
       PROVE  /\ a \notin Asked => registers'[a] = registers[a]
              /\ a \in Asked => registers'[a] \in {registers[a], Value(a)}
              /\ a \in Asked /\ n = c => registers'[a] = Value(a)
  <2>1. a \notin Asked => ~(off(a) < n)
    BY <1>3, <1>5, <1>7
  <2>2. a \in Asked /\ n = c => off(a) < n
    BY <1>3, <1>5, <1>7
  <2> QED
    BY <1>6, <1>10, <2>1, <2>2
<1> QED
  BY <1>9, <1>11 DEF c

\* The whole of a write: what is answered, and what became of the registers.
LEMMA WriteExecuted ==
    ASSUME request \in Request, request' = request, pdu = RequestPacket(request),
           buffer_tx \in Buffer, registers \in [Present -> Word],
           request.func_no \in Writes, NEW rest \in Seq(Byte), Len(rest) <= 3,
           IParamWrite(pdu, request.data, rest)
    PROVE  /\ buffer_tx' \in Buffer /\ pdu' \in Seq(Byte)
           /\ registers' \in [Present -> Word]
           /\ RefusedAnswer' \/ WriteAnswer'
           /\ \A a \in Present :
                 /\ a \notin Asked => registers'[a] = registers[a]
                 /\ a \in Asked => registers'[a] \in {registers[a], Value(a)}
                 /\ a \in Asked /\ WriteAnswer' => registers'[a] = Value(a)
<1> DEFINE f == request.func_no
           s == request.start_addr
           c == request.reg_count
           d == request.data
<1>1. /\ f \in 1 .. 127 /\ f \in Byte /\ s \in Word /\ c \in Word /\ d \in Seq(Word)
      /\ Len(d) = c /\ c \in Nat
  <2>1. f \in Byte /\ s \in Word /\ c \in Word /\ d \in Seq(Word) /\ Len(d) = c
    BY RequestFields
  <2>2. f \in 1 .. 127
    BY RequestFields
  <2>3. c \in Nat
    BY <2>1, WordRange
  <2> QED
    BY <2>1, <2>2, <2>3
<1>2. /\ pdu \in Seq(Byte) /\ Len(pdu) >= 5
      /\ pdu[1] = f /\ Address(pdu) = s
      /\ f # FN_CODE_WRITE_SINGLE => Quantity(pdu) = c
  BY RequestBytes
<1>3. PICK res \in WriteResults :
          \E n \in IF res = 0 THEN {Len(d)} ELSE IF res = 1 THEN {0, Len(d) - 1} ELSE {0} :
              /\ registers' = Written(Address(pdu), d, n)
              /\ IF res = 0 THEN Send(SubSeq(pdu, 1, 5), 5)
                 ELSE Send(<<SetBit7(pdu[1]), WriteException[res]>> \o rest, 2)
  BY DEF IParamWrite
<1>4. PICK n \in IF res = 0 THEN {Len(d)} ELSE IF res = 1 THEN {0, Len(d) - 1} ELSE {0} :
          /\ registers' = Written(Address(pdu), d, n)
          /\ IF res = 0 THEN Send(SubSeq(pdu, 1, 5), 5)
             ELSE Send(<<SetBit7(pdu[1]), WriteException[res]>> \o rest, 2)
  BY <1>3
<1>5. n \in Int /\ n <= c /\ (res = 0 => n = c)
  BY <1>1, <1>4
<1>6. /\ registers' \in [Present -> Word]
      /\ \A a \in Present :
            /\ a \notin Asked => registers'[a] = registers[a]
            /\ a \in Asked => registers'[a] \in {registers[a], Value(a)}
            /\ a \in Asked /\ n = c => registers'[a] = Value(a)
  BY <1>2, <1>4, <1>5, WrittenRegisters, Zenon
<1>7. CASE res = 0
  <2> DEFINE bytes == SubSeq(pdu, 1, 5)
  <2>1. Send(bytes, 5)
    BY <1>4, <1>7
  <2>2. bytes \in Seq(Byte) /\ Len(bytes) = 5 /\ \A i \in 1 .. 5 : bytes[i] = pdu[i]
    BY <1>2
  <2> HIDE DEF bytes
  <2>3. Len(bytes) <= BufferLen /\ 5 \in Nat /\ 5 <= BufferLen
    BY <2>2 DEF BufferLen
  <2>4. /\ buffer_tx' \in Buffer /\ pdu' \in Seq(Byte) /\ Len(pdu') = 5
        /\ \A i \in 1 .. 5 : i <= Len(bytes) => pdu'[i] = bytes[i]
    BY <2>1, <2>2, <2>3, SentBytes
  <2>5. pdu'[1] = pdu[1] /\ pdu'[2] = pdu[2] /\ pdu'[3] = pdu[3] /\ pdu'[4] = pdu[4]
        /\ pdu'[5] = pdu[5]
    BY <2>2, <2>4
  <2>6. WordAt(pdu', 2) = s /\ (f # FN_CODE_WRITE_SINGLE => WordAt(pdu', 4) = c)
    <3>1. WordAt(pdu', 2) = Address(pdu)
      BY <2>5 DEF WordAt, Address
    <3>2. WordAt(pdu', 4) = Quantity(pdu)
      BY <2>5 DEF WordAt, Quantity
    <3> QED
      BY <1>2, <3>1, <3>2
  <2>7. WriteAnswer'
    BY <1>2, <2>5, <2>6 DEF WriteAnswer, FN_CODE_WRITE_SINGLE, FN_CODE_WRITE_MULTIPLE
  <2> QED
    BY <1>5, <1>6, <1>7, <2>4, <2>7, Zenon
<1>8. CASE res # 0
  <2> DEFINE b == SetBit7(pdu[1])
             code == WriteException[res]
             h == <<b, code>>
             bytes == h \o rest
  <2>1. b \in Byte /\ b # f /\ b = f + 128
    <3>1. SetBit7(f) = f + 128 /\ SetBit7(f) \in Byte
      BY <1>1, ExceptionBit
    <3>2. f \in Int
      BY <1>1, ByteRange
    <3> HIDE DEF f
    <3>3. f + 128 # f
      BY <3>2
    <3> QED
      BY <1>2, <3>1, <3>3, Zenon
  <2>2. code \in Byte
    <3>1. res \in {1, 2, 3}
      BY <1>8, SlaveAssumption
    <3>2. code \in {3, 6, 4}
      BY <3>1 DEF WriteException, EX_ILLEGAL_DATA_VALUE, EX_ILLEGAL_SERVER_DEVICE_BUSY,
                  EX_ILLEGAL_SERVER_DEVICE_FAILURE
    <3> HIDE DEF code
    <3> QED
      BY <3>2, ByteRange
  <2>3. Send(bytes, 2)
    BY <1>4, <1>8
  <2> HIDE DEF b, code
  <2>4. h \in Seq(Byte) /\ Len(h) = 2 /\ h[1] = b
    BY <2>1, <2>2
  <2> HIDE DEF h
  <2>5. /\ bytes \in Seq(Byte) /\ Len(bytes) = Len(h) + Len(rest)
        /\ \A i \in 1 .. Len(h) + Len(rest) :
              bytes[i] = IF i <= Len(h) THEN h[i] ELSE rest[i - Len(h)]
    BY <2>4, ConcatProperties
  <2> HIDE DEF bytes
  <2>6. 2 <= Len(bytes) /\ Len(bytes) <= BufferLen /\ bytes[1] = b
    BY <2>4, <2>5 DEF BufferLen
  <2>7. /\ buffer_tx' \in Buffer /\ pdu' \in Seq(Byte)
        /\ pdu'[1] = request.func_no + 128
    BY <2>3, <2>5, <2>6, ExceptionSent DEF b
  <2>8. RefusedAnswer' /\ ~WriteAnswer'
    BY <2>1, <2>7 DEF RefusedAnswer, WriteAnswer
  <2> QED
    BY <1>6, <2>7, <2>8, Zenon
<1> QED
  BY <1>7, <1>8

-----------------------------------------------------------------------------
(***************************************************************************)
(* The slave executes a request.                                           *)
(***************************************************************************)

\* The state in which the slave gets a request.
Arrived ==
    /\ request \in Request /\ request' = request
    /\ pdu = RequestPacket(request)
    /\ buffer_tx \in Buffer /\ registers \in [Present -> Word]

\* What the slave makes of it.
Executed ==
    /\ buffer_tx' \in Buffer /\ pdu' \in Seq(Byte)
    /\ registers' \in [Present -> Word]
    /\ RefusedAnswer' \/ ReadAnswer' \/ WriteAnswer'
    /\ \A a \in Present :
          /\ request.func_no \notin Writes \/ a \notin Asked => registers'[a] = registers[a]
          /\ request.func_no \in Writes /\ a \in Asked =>
                /\ registers'[a] \in {registers[a], Value(a)}
                /\ WriteAnswer' => registers'[a] = Value(a)

LEMMA ReadRange == \A x : x \in 1 .. 125 <=> x \in Int /\ 1 <= x /\ x <= 125
<1>1. 1 \in Int /\ 125 \in Int
  OBVIOUS
<1> QED
  BY <1>1, Intervals, Zenon

LEMMA SameWords ==
    ASSUME NEW p, NEW q, NEW first \in Nat, NEW n \in Nat, NEW m \in Nat,
           first + 2 * n - 1 <= m, 1 <= first, \A i \in 1 .. m : p[i] = q[i]
    PROVE  Words(p, first, n) = Words(q, first, n)
<1>1. ASSUME NEW k \in 1 .. n
      PROVE  WordAt(p, first + 2 * k - 2) = WordAt(q, first + 2 * k - 2)
  <2> DEFINE i == first + 2 * k - 2
  <2>1. i \in 1 .. m /\ i + 1 \in 1 .. m
    OBVIOUS
  <2> HIDE DEF i
  <2>2. p[i] = q[i] /\ p[i + 1] = q[i + 1]
    BY <2>1
  <2>3. WordAt(p, i) = WordAt(q, i)
    BY <2>2 DEF WordAt
  <2> QED
    BY <2>3 DEF i
<1> QED
  BY <1>1 DEF Words

LEMMA RefusedExecuted ==
    ASSUME Arrived, NEW code \in 1 .. 3, ResponsePacketException(pdu, code)
    PROVE  Executed
<1>1. /\ buffer_tx' \in Buffer /\ pdu' \in Seq(Byte)
      /\ pdu'[1] = request.func_no + 128
      /\ registers' = registers
  BY Refused DEF Arrived
<1>2. RefusedAnswer' /\ ~WriteAnswer'
  <2>1. request.func_no \in Byte /\ request' = request
    BY RequestFields DEF Arrived
  <2>2. request.func_no \in Int
    BY <2>1, ByteRange
  <2> QED
    BY <1>1, <2>1, <2>2 DEF RefusedAnswer, WriteAnswer
<1> QED
  BY <1>1, <1>2, Zenon DEF Executed, Arrived

LEMMA ExceptionCodes ==
    /\ EX_ILLEGAL_FUNCTION \in 1 .. 3
    /\ EX_ILLEGAL_DATA_ADDRES \in 1 .. 3
    /\ EX_ILLEGAL_DATA_VALUE \in 1 .. 3
BY DEF EX_ILLEGAL_FUNCTION, EX_ILLEGAL_DATA_ADDRES, EX_ILLEGAL_DATA_VALUE

LEMMA ReadExecuted ==
    ASSUME Arrived, ResponsePacketReadHolding(pdu)
    PROVE  Executed
<1> DEFINE f == request.func_no
           s == request.start_addr
           c == request.reg_count
           n == Quantity(pdu)
           read == IF ReadsToTheEnd(pdu) THEN <<>>
                   ELSE [k \in 1 .. n |-> IParamRead(Address(pdu) + k - 1)]
<1>1. f \in Byte /\ s \in Word /\ c \in Word /\ request \in Request /\ request' = request
  BY RequestFields DEF Arrived
<1>2. /\ pdu \in Seq(Byte) /\ pdu[1] = f /\ Address(pdu) = s
      /\ f # FN_CODE_WRITE_SINGLE => Quantity(pdu) = c
  BY RequestBytes DEF Arrived
<1>3. f = FN_CODE_READ_HOLDING /\ f \notin Writes /\ f # FN_CODE_WRITE_SINGLE
  BY <1>2 DEF ResponsePacketReadHolding, Writes, FN_CODE_READ_HOLDING,
              FN_CODE_WRITE_SINGLE, FN_CODE_WRITE_MULTIPLE
<1>4. n = c
  BY <1>2, <1>3
<1>5. CASE n \notin 1 .. 125
  <2>1. ResponsePacketException(pdu, EX_ILLEGAL_DATA_VALUE)
    BY <1>5, Zenon DEF ResponsePacketReadHolding
  <2> QED
    BY <2>1, RefusedExecuted, ExceptionCodes, Zenon
<1>6. CASE n \in 1 .. 125 /\ AddressRefused(pdu)
  <2>1. ResponsePacketException(pdu, EX_ILLEGAL_DATA_ADDRES)
    BY <1>6, Zenon DEF ResponsePacketReadHolding
  <2> QED
    BY <2>1, RefusedExecuted, ExceptionCodes, Zenon
<1>7. CASE n \in 1 .. 125 /\ ~AddressRefused(pdu)
  <2> DEFINE h == <<FN_CODE_READ_HOLDING, 2 * n>>
             bytes == h \o Bytes(read)
  <2>1. Send(bytes, 2 + 2 * n) /\ registers' = registers
    BY <1>7, Zenon DEF ResponsePacketReadHolding
  <2>2. n \in Nat /\ 1 <= n /\ n <= 125
    BY <1>7, ReadRange
  <2>3. \A a : IParamRead(a) \in Word
    <3>1. 0 \in Word
      BY WordRange
    <3> QED
      BY <3>1 DEF IParamRead, Arrived
  <2>4. /\ read \in Seq(Word) /\ Len(read) <= 125
        /\ ~ReadsToTheEnd(pdu) => Len(read) = n
    <3> HIDE DEF n
    <3>1. CASE ReadsToTheEnd(pdu)
      BY <3>1
    <3>2. CASE ~ReadsToTheEnd(pdu)
      <4> DEFINE v(k) == IParamRead(Address(pdu) + k - 1)
      <4>1. \A k \in 1 .. n : v(k) \in Word
        BY <2>3
      <4> HIDE DEF v
      <4>2. read = [k \in 1 .. n |-> v(k)]
        BY <3>2 DEF v
      <4> HIDE DEF read
      <4> QED
        BY <2>2, <3>2, <4>1, <4>2
    <3> QED
      BY <3>1, <3>2
  <2> HIDE DEF n, read
  <2>5. Len(read) \in Nat
    BY <2>4
  <2>6. h \in Seq(Byte) /\ Len(h) = 2 /\ h[1] = FN_CODE_READ_HOLDING /\ h[2] = 2 * n
    <3>1. FN_CODE_READ_HOLDING \in Byte /\ 2 * n \in Byte
      BY <2>2, ByteRange DEF FN_CODE_READ_HOLDING
    <3> QED
      BY <3>1
  <2> HIDE DEF h
  <2>7. /\ bytes \in Seq(Byte) /\ Len(bytes) = Len(h) + 2 * Len(read)
        /\ \A i \in 1 .. Len(h) : bytes[i] = h[i]
        /\ Words(bytes, Len(h) + 1, Len(read)) = read
    BY <2>4, <2>6, WordsAfter
  <2> HIDE DEF bytes
  <2>8. Len(bytes) <= BufferLen /\ 2 + 2 * n \in Nat /\ 2 + 2 * n <= BufferLen
    BY <2>2, <2>4, <2>5, <2>6, <2>7 DEF BufferLen
  <2>9. /\ buffer_tx' \in Buffer /\ pdu' \in Seq(Byte) /\ Len(pdu') = 2 + 2 * n
        /\ \A i \in 1 .. 2 + 2 * n : i <= Len(bytes) => pdu'[i] = bytes[i]
    BY <2>1, <2>7, <2>8, SentBytes DEF Arrived
  <2>10. pdu'[1] = FN_CODE_READ_HOLDING /\ pdu'[2] = 2 * n
    <3>1. 1 \in 1 .. 2 + 2 * n /\ 2 \in 1 .. 2 + 2 * n /\ 2 <= Len(bytes) /\ 1 <= Len(bytes)
      BY <2>2, <2>5, <2>6, <2>7
    <3>2. bytes[1] = h[1] /\ bytes[2] = h[2]
      BY <2>6, <2>7
    <3> QED
      BY <2>6, <2>9, <3>1, <3>2
  <2>11. ASSUME ~ReadsToTheEnd(pdu)
         PROVE  Words(pdu', 3, n) = [k \in 1 .. n |-> IParamRead(s + k - 1)]
    <3>1. Len(read) = n /\ Len(bytes) = 2 + 2 * n
      BY <2>4, <2>6, <2>7, <2>11
    <3>2. Words(bytes, 3, n) = read
      <4>1. Len(h) + 1 = 3
        BY <2>6
      <4> QED
        BY <2>7, <3>1, <4>1
    <3>3. \A i \in 1 .. 2 + 2 * n : pdu'[i] = bytes[i]
      BY <2>2, <2>9, <3>1
    <3>4. 3 + 2 * n - 1 <= 2 + 2 * n /\ 3 \in Nat /\ 2 + 2 * n \in Nat /\ 1 <= 3
      BY <2>2
    <3>5. Words(pdu', 3, n) = Words(bytes, 3, n)
      BY <2>2, <3>3, <3>4, SameWords
    <3>6. read = [k \in 1 .. n |-> IParamRead(s + k - 1)]
      BY <1>2, <2>11, Zenon DEF read
    <3> QED
      BY <3>2, <3>5, <3>6
  <2>12. ToTheEnd <=> ReadsToTheEnd(pdu)
    BY <1>2, <1>4 DEF ToTheEnd, ReadsToTheEnd, n
  <2>13. ReadAnswer'
    <3>1. /\ request'.func_no = FN_CODE_READ_HOLDING
          /\ pdu'[1] = FN_CODE_READ_HOLDING
          /\ 1 <= request'.reg_count /\ request'.reg_count <= 125
          /\ pdu'[2] = 2 * request'.reg_count
          /\ Len(pdu') = 2 + 2 * request'.reg_count
      BY <1>1, <1>3, <1>4, <2>2, <2>9, <2>10
    <3>2. ~ToTheEnd' => ~ReadsToTheEnd(pdu)
      BY <1>1, <2>12 DEF ToTheEnd
    <3>3. ~ToTheEnd' => Words(pdu', 3, request'.reg_count)
              = [k \in 1 .. request'.reg_count |-> IParamRead(request'.start_addr + k - 1)]
      BY <1>1, <1>4, <2>11, <3>2, Zenon
    <3>4. ~ToTheEnd' => Words(pdu', 3, request'.reg_count)
              = [k \in 1 .. request'.reg_count |-> IParamRead(request.start_addr + k - 1)']
      BY <1>1, <2>1, <3>3, Zenon DEF IParamRead
    <3> QED
      BY <1>1, <3>1, <3>4, Zenon DEF ReadAnswer
  <2> QED
    BY <1>3, <2>1, <2>9, <2>13, Zenon DEF Executed, Arrived
<1> QED
  BY <1>5, <1>6, <1>7

LEMMA WriteSingleExecuted ==
    ASSUME Arrived, ResponsePacketWriteSingle(pdu)
    PROVE  Executed
<1>1. pdu[1] = request.func_no /\ (request.func_no = FN_CODE_WRITE_SINGLE =>
                                        Words(pdu, 4, 1) = request.data)
  BY RequestBytes DEF Arrived
<1>2. request.func_no = FN_CODE_WRITE_SINGLE /\ request.func_no \in Writes
  BY <1>1 DEF ResponsePacketWriteSingle, Writes
<1>3. CASE Address(pdu) \notin Present
  <2>1. ResponsePacketException(pdu, EX_ILLEGAL_DATA_ADDRES)
    BY <1>3, Zenon DEF ResponsePacketWriteSingle
  <2> QED
    BY <2>1, RefusedExecuted, ExceptionCodes, Zenon
<1>4. CASE Address(pdu) \in Present
  <2>1. IParamWrite(pdu, request.data, <<>>)
    BY <1>1, <1>2, <1>4, Zenon DEF ResponsePacketWriteSingle
  <2> DEFINE rest == <<>>
  <2>2. rest \in Seq(Byte) /\ Len(rest) <= 3
    OBVIOUS
  <2>3. IParamWrite(pdu, request.data, rest)
    BY <2>1
  <2> HIDE DEF rest
  <2> QED
    BY <1>2, <2>2, <2>3, WriteExecuted, Zenon DEF Executed, Arrived
<1> QED
  BY <1>3, <1>4

LEMMA WriteMultipleExecuted ==
    ASSUME Arrived, ResponsePacketWriteMultiple(pdu)
    PROVE  Executed
<1>1. /\ pdu \in Seq(Byte) /\ Len(pdu) >= 5
      /\ pdu[1] = request.func_no
      /\ request.func_no = FN_CODE_WRITE_MULTIPLE => WrittenWords(pdu) = request.data
  BY RequestBytes DEF Arrived
<1>2. request.func_no = FN_CODE_WRITE_MULTIPLE /\ request.func_no \in Writes
  BY <1>1 DEF ResponsePacketWriteMultiple, Writes
<1>3. CASE Quantity(pdu) \notin 1 .. 123
  <2>1. ResponsePacketException(pdu, EX_ILLEGAL_DATA_VALUE)
    BY <1>3, Zenon DEF ResponsePacketWriteMultiple
  <2> QED
    BY <2>1, RefusedExecuted, ExceptionCodes, Zenon
<1>4. CASE Quantity(pdu) \in 1 .. 123 /\ AddressRefused(pdu)
  <2>1. ResponsePacketException(pdu, EX_ILLEGAL_DATA_ADDRES)
    BY <1>4, Zenon DEF ResponsePacketWriteMultiple
  <2> QED
    BY <2>1, RefusedExecuted, ExceptionCodes, Zenon
<1>5. CASE Quantity(pdu) \in 1 .. 123 /\ ~AddressRefused(pdu)
  <2> DEFINE rest == SubSeq(pdu, 3, 5)
  <2>1. IParamWrite(pdu, request.data, rest)
    BY <1>1, <1>2, <1>5, Zenon DEF ResponsePacketWriteMultiple
  <2>2. rest \in Seq(Byte) /\ Len(rest) <= 3
    BY <1>1
  <2> HIDE DEF rest
  <2> QED
    BY <1>2, <2>1, <2>2, WriteExecuted, Zenon DEF Executed, Arrived
<1> QED
  BY <1>3, <1>4, <1>5

LEMMA Served ==
    ASSUME Arrived, Serve(pdu)
    PROVE  Executed
<1>1. CASE ResponsePacketReadHolding(pdu)
  BY <1>1, ReadExecuted
<1>2. CASE ResponsePacketWriteSingle(pdu)
  BY <1>2, WriteSingleExecuted
<1>3. CASE ResponsePacketWriteMultiple(pdu)
  BY <1>3, WriteMultipleExecuted
<1>4. CASE IllegalFunction(pdu)
  <2>1. ResponsePacketException(pdu, EX_ILLEGAL_FUNCTION)
    BY <1>4 DEF IllegalFunction
  <2> QED
    BY <2>1, RefusedExecuted, ExceptionCodes, Zenon
<1> QED
  BY <1>1, <1>2, <1>3, <1>4, Zenon DEF Serve

-----------------------------------------------------------------------------
(***************************************************************************)
(* The client takes the answer.                                            *)
(***************************************************************************)

\* What an answer is, whatever the request was.
LEMMA AnswerKinds ==
    ASSUME request \in Request, RefusedAnswer \/ ReadAnswer \/ WriteAnswer
    PROVE  /\ IsException(pdu) <=> RefusedAnswer
           /\ ~IsException(pdu) => pdu[1] = request.func_no
           /\ ClearBit7(pdu[1]) = request.func_no
           /\ pdu[1] \in Byte
           /\ pdu[1] = FN_CODE_READ_HOLDING => ReadAnswer
           /\ pdu[1] \in Writes => WriteAnswer
<1> DEFINE f == request.func_no
<1>1. f \in 1 .. 127
  BY RequestFields
<1>2. f \in Int /\ 1 <= f /\ f <= 127
  BY <1>1, FunctionRange
<1>3. SetBit7(f) = f + 128 /\ SetBit7(f) \in Byte /\ ClearBit7(f) = f
      /\ ClearBit7(SetBit7(f)) = f
  BY <1>1, ExceptionBit
<1>4. f \in Byte
  BY <1>2, ByteRange
<1> HIDE DEF f
<1>5. CASE RefusedAnswer
  <2>1. pdu[1] = f + 128
    BY <1>5 DEF RefusedAnswer, f
  <2>2. IsException(pdu)
    BY <1>2, <2>1 DEF IsException
  <2>3. ClearBit7(pdu[1]) = f /\ pdu[1] \in Byte
    BY <1>3, <2>1
  <2>4. pdu[1] # FN_CODE_READ_HOLDING /\ pdu[1] \notin Writes
    BY <1>2, <2>1 DEF Writes, FN_CODE_READ_HOLDING, FN_CODE_WRITE_SINGLE,
                      FN_CODE_WRITE_MULTIPLE
  <2> QED
    BY <1>5, <2>2, <2>3, <2>4 DEF f
<1>6. CASE ~RefusedAnswer
  <2>1. pdu[1] = f
    BY <1>6 DEF ReadAnswer, WriteAnswer, f
  <2>2. ~IsException(pdu)
    BY <1>2, <2>1 DEF IsException
  <2>3. f = FN_CODE_READ_HOLDING => ReadAnswer
    BY <1>6 DEF WriteAnswer, Writes, FN_CODE_READ_HOLDING, FN_CODE_WRITE_SINGLE,
                FN_CODE_WRITE_MULTIPLE, f
  <2>4. f \in Writes => WriteAnswer
    BY <1>6 DEF ReadAnswer, Writes, FN_CODE_READ_HOLDING, FN_CODE_WRITE_SINGLE,
                FN_CODE_WRITE_MULTIPLE, f
  <2>5. ClearBit7(pdu[1]) = f
    BY <1>3, <2>1
  <2> QED
    BY <1>4, <1>6, <2>1, <2>2, <2>3, <2>4, <2>5 DEF f
<1> QED
  BY <1>5, <1>6

\* The registers that a serial master takes of a read.
LEMMA SerialAreaOfRead ==
    ASSUME request \in Request, ReadAnswer
    PROVE  SerialArea(pdu) = Words(pdu, 3, request.reg_count)
<1> DEFINE n == request.reg_count
<1>1. n \in Word
  BY RequestFields
<1>2. n \in Int
  BY <1>1, WordRange
<1>3. pdu[2] = 2 * n
  BY DEF ReadAnswer
<1> HIDE DEF n
<1>4. pdu[2] \div 2 = n
  BY <1>2, <1>3
<1> QED
  BY <1>4, Zenon DEF SerialArea, n

\* The confirmation of the TCP client.
LEMMA ConfirmationOfAnswer ==
    ASSUME request \in Request, pdu \in Seq(Byte), RefusedAnswer \/ ReadAnswer \/ WriteAnswer
    PROVE  LET c == TCPConfirmation(pdu, request)
           IN  /\ c \in [func_code : Byte, start_addr : Word, reg_count : Word]
               /\ ClearBit7(c.func_code) = request.func_no
               /\ c.start_addr = request.start_addr
               /\ IsException(pdu) => c.reg_count = 0
               /\ ~IsException(pdu) /\ (request.func_no = FN_CODE_READ_HOLDING =>
                                            request.reg_count < 64)
                     => c.reg_count = request.reg_count
<1> DEFINE n == request.reg_count
           a == StartOfAnswer(pdu, request)
           m == IF pdu[1] = FN_CODE_READ_HOLDING THEN CountOfBytes(pdu[2])
                ELSE IF pdu[1] = FN_CODE_WRITE_SINGLE THEN 1
                ELSE IF pdu[1] = FN_CODE_WRITE_MULTIPLE THEN WordAt(pdu, 4) ELSE 0
           c == TCPConfirmation(pdu, request)
<1>1. c = [func_code |-> pdu[1], start_addr |-> a, reg_count |-> m]
  <2>1. m = CASE pdu[1] = FN_CODE_READ_HOLDING -> CountOfBytes(pdu[2])
              [] pdu[1] = FN_CODE_WRITE_SINGLE -> 1
              [] pdu[1] = FN_CODE_WRITE_MULTIPLE -> WordAt(pdu, 4)
              [] OTHER -> 0
    BY DEF FN_CODE_READ_HOLDING, FN_CODE_WRITE_SINGLE, FN_CODE_WRITE_MULTIPLE
  <2> HIDE DEF m
  <2> QED
    BY <2>1, Zenon DEF TCPConfirmation
<1>2. /\ IsException(pdu) <=> RefusedAnswer
      /\ ~IsException(pdu) => pdu[1] = request.func_no
      /\ ClearBit7(pdu[1]) = request.func_no
      /\ pdu[1] \in Byte
      /\ pdu[1] = FN_CODE_READ_HOLDING => ReadAnswer
      /\ pdu[1] \in Writes => WriteAnswer
  BY AnswerKinds
<1>3. /\ n \in Word /\ n \in Int /\ request.start_addr \in Word
      /\ request.func_no = FN_CODE_WRITE_SINGLE => n = 1
      /\ 0 \in Word /\ 1 \in Word
  <2>1. /\ n \in Word /\ request.start_addr \in Word
        /\ request.func_no = FN_CODE_WRITE_SINGLE => n = 1
    BY RequestFields
  <2>2. 0 \in Word /\ 1 \in Word
    BY WordRange
  <2> HIDE DEF n
  <2>3. n \in Int
    BY <2>1, WordRange
  <2> QED
    BY <2>1, <2>2, <2>3, Zenon
<1>4. a = request.start_addr
  BY <1>2 DEF StartOfAnswer, Writes, WriteAnswer
<1>5. ReadAnswer => /\ CountOfBytes(pdu[2]) \in Word
                    /\ n < 64 => CountOfBytes(pdu[2]) = n
  <2> SUFFICES ASSUME ReadAnswer
               PROVE  /\ CountOfBytes(pdu[2]) \in Word
                      /\ n < 64 => CountOfBytes(pdu[2]) = n
    OBVIOUS
  <2>1. 1 <= n /\ n <= 125 /\ pdu[2] = 2 * n
    BY DEF ReadAnswer
  <2> HIDE DEF n
  <2>2. CountOfBytes(pdu[2]) = IF 2 * n >= 128 THEN 65536 - (256 - 2 * n) \div 2
                               ELSE (2 * n) \div 2
    BY <2>1 DEF CountOfBytes
  <2>3. CountOfBytes(pdu[2]) \in Word
    BY <1>3, <2>1, <2>2, WordRange
  <2>4. n < 64 => CountOfBytes(pdu[2]) = n
    BY <1>3, <2>2
  <2> QED
    BY <2>3, <2>4
<1>6. /\ pdu[1] = FN_CODE_READ_HOLDING =>
            m \in Word /\ (n < 64 => m = n)
      /\ pdu[1] = FN_CODE_WRITE_SINGLE => m = 1
      /\ pdu[1] = FN_CODE_WRITE_MULTIPLE => m = n
      /\ pdu[1] \notin FunctionCodes => m = 0
  <2>1. pdu[1] = FN_CODE_WRITE_MULTIPLE => WordAt(pdu, 4) = n
    BY <1>2 DEF WriteAnswer, Writes
  <2> QED
    BY <1>2, <1>5, <2>1 DEF FunctionCodes, FN_CODE_READ_HOLDING, FN_CODE_WRITE_SINGLE,
                            FN_CODE_WRITE_MULTIPLE
<1>7. m \in Word
  BY <1>3, <1>6 DEF FunctionCodes
<1>8. IsException(pdu) => pdu[1] \notin FunctionCodes
  BY DEF IsException, FunctionCodes, FN_CODE_READ_HOLDING, FN_CODE_WRITE_SINGLE,
         FN_CODE_WRITE_MULTIPLE
<1>9. ~IsException(pdu) => pdu[1] \in FunctionCodes
  BY <1>2 DEF RefusedAnswer, ReadAnswer, WriteAnswer, FunctionCodes, Writes
<1> HIDE DEF m, a, c
<1>10. /\ c \in [func_code : Byte, start_addr : Word, reg_count : Word]
       /\ c.func_code = pdu[1] /\ c.start_addr = a /\ c.reg_count = m
  BY <1>1, <1>2, <1>3, <1>4, <1>7
<1>11. ~IsException(pdu) /\ (request.func_no = FN_CODE_READ_HOLDING => n < 64) => m = n
  BY <1>2, <1>3, <1>6, <1>9 DEF FunctionCodes
<1> QED
  BY <1>2, <1>4, <1>6, <1>8, <1>10, <1>11, Zenon DEF c

\* The area of the TCP client: each register is there if it is below 256.
LEMMA TCPAreaOfRead ==
    ASSUME request \in Request, pdu \in Seq(Byte), ReadAnswer
    PROVE  /\ TCPArea(pdu, request) \in Seq(Word)
           /\ (\A k \in 1 .. request.reg_count : Words(pdu, 3, request.reg_count)[k] < 256)
                 => TCPArea(pdu, request) = Words(pdu, 3, request.reg_count)
<1> DEFINE n == request.reg_count
           w(k) == TCPWord(pdu[2 * k + 1], pdu[2 * k + 2])
<1>1. n \in Nat /\ Len(pdu) = 2 + 2 * n
  BY RequestFields, WordRange DEF ReadAnswer
<1>2. TCPArea(pdu, request) = [k \in 1 .. n |-> w(k)]
  BY DEF TCPArea
<1>3. /\ Words(pdu, 3, n) \in Seq(Word) /\ Len(Words(pdu, 3, n)) = n
      /\ \A k \in 1 .. n : Words(pdu, 3, n)[k] = 256 * pdu[2 * k + 1] + pdu[2 * k + 2]
  <2> DEFINE first == 3
  <2>1. first \in Nat \ {0} /\ first + 2 * n - 1 <= Len(pdu)
    BY <1>1
  <2>2. \A k \in 1 .. n : first + 2 * k - 2 = 2 * k + 1 /\ first + 2 * k - 1 = 2 * k + 2
    BY <1>1
  <2> HIDE DEF first, n
  <2>3. /\ Words(pdu, first, n) \in Seq(Word) /\ Len(Words(pdu, first, n)) = n
        /\ \A k \in 1 .. n :
              Words(pdu, first, n)[k] = 256 * pdu[first + 2 * k - 2] + pdu[first + 2 * k - 1]
    <3>1. pdu \in Seq(Byte) /\ n \in Nat
      BY <1>1
    <3> QED
      BY <2>1, <3>1, WordsOfPdu
  <2> QED
    BY <2>2, <2>3 DEF first
<1> HIDE DEF n
<1>4. ASSUME NEW k \in 1 .. n
      PROVE  /\ pdu[2 * k + 1] \in Byte /\ pdu[2 * k + 2] \in Byte
             /\ w(k) \in Word
             /\ Words(pdu, 3, n)[k] < 256 => w(k) = Words(pdu, 3, n)[k]
  <2>1. 2 * k + 1 \in 1 .. Len(pdu) /\ 2 * k + 2 \in 1 .. Len(pdu)
    BY <1>1
  <2>2. pdu[2 * k + 1] \in Byte /\ pdu[2 * k + 2] \in Byte
    BY <2>1
  <2> DEFINE h == pdu[2 * k + 1]
             l == pdu[2 * k + 2]
  <2> HIDE DEF h, l
  <2>3. h \in Int /\ 0 <= h /\ h <= 255 /\ l \in Int /\ 0 <= l /\ l <= 255
    BY <2>2, ByteRange DEF h, l
  <2>4. TCPWord(h, l) \in Word /\ (256 * h + l < 256 => TCPWord(h, l) = 256 * h + l)
    BY <2>3, WordRange DEF TCPWord
  <2> QED
    BY <1>3, <2>2, <2>4 DEF h, l
<1> HIDE DEF w
<1>5. TCPArea(pdu, request) \in Seq(Word) /\ Len(TCPArea(pdu, request)) = n
      /\ \A k \in 1 .. n : TCPArea(pdu, request)[k] = w(k)
  BY <1>1, <1>2, <1>4
<1>6. ASSUME \A k \in 1 .. n : Words(pdu, 3, n)[k] < 256
      PROVE  TCPArea(pdu, request) = Words(pdu, 3, n)
  BY <1>1, <1>3, <1>4, <1>5, <1>6, SeqEqual
<1> QED
  BY <1>5, <1>6 DEF n

-----------------------------------------------------------------------------
(***************************************************************************)
(* The invariant holds initially, and every step keeps it.                 *)
(***************************************************************************)
LEMMA InitIInv ==
    ASSUME Init
    PROVE  IInv
<1>1. registers \in [Present -> Word]
  <2> DEFINE v(a) == (515 * a + 128) % 65536
  <2>1. \A a \in Present : v(a) \in Word
    <3> SUFFICES ASSUME NEW a \in Present PROVE v(a) \in Word
      OBVIOUS
    <3>1. a \in Int
      BY SlaveAssumption, WordRange
    <3> QED
      BY <3>1, WordRange
  <2> HIDE DEF v
  <2>2. registers = [a \in Present |-> v(a)]
    BY DEF Init, v
  <2> QED
    BY <2>1, <2>2
<1>2. buffer_tx \in [1 .. BufferLen -> Byte]
  <2>1. 0 \in Byte
    BY ByteRange
  <2> QED
    BY <2>1 DEF Init
<1>3. confirmation \in [func_code : Byte, start_addr : Word, reg_count : Word]
  BY ByteRange, WordRange DEF Init, NoConfirmation
<1>4. exchanges \in 0 .. MaxExchanges /\ asked \in 0 .. MaxRegisters
  BY BoundAssumption DEF Init
<1>5. phase = "idle" /\ pdu = <<>> /\ area = <<>>
  BY DEF Init
<1>6. TypeOK
  BY <1>1, <1>2, <1>3, <1>4, <1>5 DEF TypeOK
<1>7. AskedInv /\ AnswerInv /\ WriteApplied /\ TakenInv
  BY <1>5 DEF AskedInv, AnswerInv, WriteApplied, TakenInv
<1> QED
  BY <1>6, <1>7 DEF IInv

LEMMA AskIInv ==
    ASSUME IInv, NEW r \in Requests, Ask(r)
    PROVE  IInv'
<1>1. request' \in Request
  BY AskedRequest DEF Ask
<1>2. pdu' = RequestPacket(request') /\ pdu' \in Seq(Byte)
  <2>1. pdu' = RequestPacket(request')
    BY DEF Ask
  <2> QED
    BY <1>1, <2>1, RequestBytes
<1>3. phase' = "asked" /\ area' = <<>> /\ before' = registers /\ registers' = registers
      /\ buffer_tx' = buffer_tx /\ confirmation' = NoConfirmation
  BY DEF Ask, slaveVars
<1>4. confirmation' \in [func_code : Byte, start_addr : Word, reg_count : Word]
  BY <1>3, ByteRange, WordRange DEF NoConfirmation
<1>5. exchanges' \in 0 .. MaxExchanges /\ asked' \in 0 .. MaxRegisters
  <2>1. r.reg_count \in Word
    BY RequestAssumption DEF Requests
  <2>2. r.reg_count \in Nat
    BY <2>1, WordRange
  <2> QED
    BY <2>2, BoundAssumption DEF Ask, IInv, TypeOK
<1>6. registers' \in [Present -> Word] /\ buffer_tx' \in [1 .. BufferLen -> Byte]
  BY <1>3 DEF IInv, TypeOK
<1>7. TypeOK'
  BY <1>2, <1>3, <1>4, <1>5, <1>6 DEF TypeOK
<1>8. AskedInv' /\ AnswerInv' /\ WriteApplied' /\ TakenInv'
  BY <1>1, <1>2, <1>3 DEF AskedInv, AnswerInv, WriteApplied, TakenInv
<1> QED
  BY <1>7, <1>8 DEF IInv

LEMMA ServeIInv ==
    ASSUME IInv, Serve(pdu)
    PROVE  IInv'
<1>1. phase = "asked" /\ phase' = "answered" /\ request' = request /\ before' = before
      /\ area' = area /\ confirmation' = confirmation /\ exchanges' = exchanges
      /\ asked' = asked
  BY DEF Serve, clientVars, historyVars
<1>2. request \in Request /\ pdu = RequestPacket(request) /\ registers = before
  BY <1>1 DEF IInv, AskedInv
<1>3. Arrived
  BY <1>1, <1>2 DEF Arrived, IInv, TypeOK, Buffer
<1>4. /\ buffer_tx' \in Buffer /\ pdu' \in Seq(Byte)
      /\ registers' \in [Present -> Word]
      /\ RefusedAnswer' \/ ReadAnswer' \/ WriteAnswer'
      /\ \A a \in Present :
            /\ request.func_no \notin Writes \/ a \notin Asked => registers'[a] = registers[a]
            /\ request.func_no \in Writes /\ a \in Asked =>
                  /\ registers'[a] \in {registers[a], Value(a)}
                  /\ WriteAnswer' => registers'[a] = Value(a)
  BY <1>3, Served, Zenon DEF Executed
<1>5. TypeOK'
  BY <1>1, <1>4 DEF IInv, TypeOK, Buffer
<1>6. AskedInv' /\ TakenInv'
  BY <1>1 DEF AskedInv, TakenInv
<1>7. AnswerInv'
  BY <1>1, <1>2, <1>4 DEF AnswerInv
<1>8. ASSUME request.func_no \in Writes, ~IsException(pdu')
      PROVE  WriteAnswer'
  <2>1. request.func_no \in Int
    <3>1. request.func_no \in Byte
      BY <1>2, RequestFields
    <3> QED
      BY <3>1, ByteRange
  <2>2. 1 <= request.func_no
    BY <1>8, <2>1 DEF Writes, FN_CODE_WRITE_SINGLE, FN_CODE_WRITE_MULTIPLE
  <2>3. ~RefusedAnswer'
    BY <1>1, <1>8, <2>1, <2>2 DEF RefusedAnswer, IsException
  <2>4. ~ReadAnswer'
    BY <1>1, <1>8 DEF ReadAnswer, Writes, FN_CODE_READ_HOLDING, FN_CODE_WRITE_SINGLE,
                      FN_CODE_WRITE_MULTIPLE
  <2> QED
    BY <1>4, <2>3, <2>4
<1>9. ASSUME NEW a \in Present
      PROVE  /\ request.func_no \in Writes /\ a \in Asked =>
                   registers'[a] = Value(a) \/ (IsException(pdu') /\ registers'[a] = before[a])
             /\ ~(request.func_no \in Writes /\ a \in Asked) => registers'[a] = before[a]
  BY <1>2, <1>4, <1>8
<1>10. WriteApplied'
  <2> SUFFICES ASSUME NEW a \in Present
               PROVE  (IF request.func_no \in Writes /\ a \in Asked
                       THEN \/ registers[a] = Value(a)
                            \/ IsException(pdu) /\ registers[a] = before[a]
                       ELSE registers[a] = before[a])'
    BY DEF WriteApplied, Writes
  <2>1. Asked' = Asked /\ Value(a)' = Value(a) /\ IsException(pdu)' = IsException(pdu')
    BY <1>1 DEF Asked, Value, IsException
  <2> QED
    BY <1>1, <1>9, <2>1
<1> QED
  BY <1>5, <1>6, <1>7, <1>10 DEF IInv

LEMMA TakeIInv ==
    ASSUME IInv, Take(pdu)
    PROVE  IInv'
<1>1. /\ phase = "answered" /\ phase' = "taken"
      /\ request' = request /\ pdu' = pdu /\ registers' = registers
      /\ buffer_tx' = buffer_tx /\ before' = before /\ exchanges' = exchanges
      /\ asked' = asked
  BY DEF Take, slaveVars, historyVars
<1>2. request \in Request /\ (RefusedAnswer \/ ReadAnswer \/ WriteAnswer)
  BY <1>1 DEF IInv, AnswerInv
<1>3. pdu \in Seq(Byte)
  BY DEF IInv, TypeOK
<1>4. /\ ~IsException(pdu) => pdu[1] = request.func_no
      /\ pdu[1] = FN_CODE_READ_HOLDING => ReadAnswer
  BY <1>2, AnswerKinds
<1>5. ReadAnswer => SerialArea(pdu) \in Seq(Word) /\ TCPArea(pdu, request) \in Seq(Word)
  <2> SUFFICES ASSUME ReadAnswer
               PROVE  SerialArea(pdu) \in Seq(Word) /\ TCPArea(pdu, request) \in Seq(Word)
    OBVIOUS
  <2> DEFINE n == request.reg_count
             first == 3
  <2>1. n \in Nat /\ Len(pdu) = 2 + 2 * n
    BY <1>2, RequestFields, WordRange DEF ReadAnswer
  <2>2. first \in Nat \ {0} /\ first + 2 * n - 1 <= Len(pdu)
    BY <2>1
  <2>3. SerialArea(pdu) = Words(pdu, first, n)
    BY <1>2, SerialAreaOfRead
  <2> HIDE DEF n, first
  <2>4. Words(pdu, first, n) \in Seq(Word)
    BY <1>3, <2>1, <2>2, WordsOfPdu
  <2>5. TCPArea(pdu, request) \in Seq(Word)
    BY <1>2, <1>3, TCPAreaOfRead
  <2> QED
    BY <2>3, <2>4, <2>5
<1>6. /\ area' \in Seq(Word)
      /\ confirmation' \in [func_code : Byte, start_addr : Word, reg_count : Word]
      /\ request.via = "serial" /\ pdu[1] = FN_CODE_READ_HOLDING => area' = SerialArea(pdu)
      /\ request.via = "tcp" =>
            /\ confirmation' = TCPConfirmation(pdu, request)
            /\ request.func_no = FN_CODE_READ_HOLDING /\ ~IsException(pdu) =>
                  area' = TCPArea(pdu, request)
  <2>1. area \in Seq(Word)
        /\ confirmation \in [func_code : Byte, start_addr : Word, reg_count : Word]
    BY DEF IInv, TypeOK
  <2>2. CASE SerialTake(pdu)
    BY <1>4, <1>5, <2>1, <2>2 DEF SerialTake
  <2>3. CASE TCPTake(pdu)
    <3>1. TCPConfirmation(pdu, request)
             \in [func_code : Byte, start_addr : Word, reg_count : Word]
      BY <1>2, <1>3, ConfirmationOfAnswer
    <3>2. request.via = "tcp" /\ confirmation' = TCPConfirmation(pdu, request)
          /\ area' = IF request.func_no = FN_CODE_READ_HOLDING /\ ~IsException(pdu)
                     THEN TCPArea(pdu, request) ELSE area
      BY <2>3 DEF TCPTake
    <3>3. request.func_no = FN_CODE_READ_HOLDING /\ ~IsException(pdu) =>
              TCPArea(pdu, request) \in Seq(Word)
      BY <1>4, <1>5
    <3> QED
      BY <2>1, <3>1, <3>2, <3>3
  <2>4. CASE OtherTake
    BY <2>1, <2>4 DEF OtherTake
  <2> QED
    BY <2>2, <2>3, <2>4 DEF Take
<1>7. TypeOK'
  BY <1>1, <1>6 DEF IInv, TypeOK
<1>8. AskedInv' /\ AnswerInv'
  BY <1>1, <1>2 DEF AskedInv, AnswerInv, RefusedAnswer, ReadAnswer, WriteAnswer, ToTheEnd,
                    IParamRead
<1>9. WriteApplied'
  BY <1>1 DEF IInv, WriteApplied, Asked, Value, IsException
<1>10. TakenInv'
  BY <1>1, <1>6 DEF TakenInv, IsException
<1> QED
  BY <1>7, <1>8, <1>9, <1>10 DEF IInv

\* A PDU is lost, or the exchange is over: nothing is said of it any more.
LEMMA OverIInv ==
    ASSUME IInv, Lose \/ Finish
    PROVE  IInv'
<1>1. /\ phase' \in {"lost", "idle"}
      /\ pdu' = pdu /\ registers' = registers /\ buffer_tx' = buffer_tx
      /\ area' = area /\ confirmation' = confirmation /\ exchanges' = exchanges
      /\ asked' = asked
  BY DEF Lose, Finish, clientVars, slaveVars, historyVars
<1>2. TypeOK'
  BY <1>1 DEF IInv, TypeOK
<1>3. AskedInv' /\ AnswerInv' /\ WriteApplied' /\ TakenInv'
  BY <1>1 DEF AskedInv, AnswerInv, WriteApplied, TakenInv
<1> QED
  BY <1>2, <1>3 DEF IInv

\* The invariant from which everything below follows.
THEOREM Inductive == Spec => []IInv
<1>1. Init => IInv
  BY InitIInv
<1>2. IInv /\ [Next]_vars => IInv'
  <2> SUFFICES ASSUME IInv, [Next]_vars PROVE IInv'
    OBVIOUS
  <2>1. ASSUME NEW r \in Requests, Ask(r) PROVE IInv'
    BY <2>1, AskIInv
  <2>2. CASE Serve(pdu)
    BY <2>2, ServeIInv
  <2>3. CASE Take(pdu)
    BY <2>3, TakeIInv
  <2>4. CASE Lose \/ Finish
    BY <2>4, OverIInv
  <2>5. CASE UNCHANGED vars
    BY <2>5 DEF vars, IInv, TypeOK, AskedInv, AnswerInv, RefusedAnswer, ReadAnswer,
                WriteAnswer, ToTheEnd, IParamRead, WriteApplied, Asked, Value, IsException,
                TakenInv
  <2> QED
    BY <2>1, <2>2, <2>3, <2>4, <2>5 DEF Next
<1> QED
  BY <1>1, <1>2, PTL DEF Spec

-----------------------------------------------------------------------------
(***************************************************************************)
(* The variables keep their types: in particular what a client copies out  *)
(* of an answer never reaches beyond the bytes of the answer.              *)
(***************************************************************************)
THEOREM TypeCorrect == Spec => []TypeOK
<1>1. IInv => TypeOK
  BY DEF IInv
<1> QED
  BY <1>1, Inductive, PTL

\* The registers that were answered, where the read is of the TCP client or of
\* the serial master.
LEMMA AreaOfRead ==
    ASSUME IInv, phase = "taken", ~ToTheEnd, request.func_no = FN_CODE_READ_HOLDING,
           ~IsException(pdu)
    PROVE  LET answered == [k \in 1 .. request.reg_count |->
                                IParamRead(request.start_addr + k - 1)]
           IN  /\ request.via = "serial" => area = answered
               /\ request.via = "tcp" /\ (\A a \in Present : registers[a] < 256)
                     => area = answered
<1> DEFINE n == request.reg_count
           v(k) == IParamRead(request.start_addr + k - 1)
           ws == Words(pdu, 3, n)
<1>1. request \in Request /\ (RefusedAnswer \/ ReadAnswer \/ WriteAnswer)
  BY DEF IInv, AnswerInv
<1>2. pdu[1] = FN_CODE_READ_HOLDING /\ ReadAnswer
  BY <1>1, AnswerKinds
<1>3. ws = [k \in 1 .. n |-> v(k)]
  BY <1>2 DEF ReadAnswer
<1>4. request.via = "serial" => area = ws
  BY <1>1, <1>2, SerialAreaOfRead DEF IInv, TakenInv
<1>5. ASSUME request.via = "tcp", \A a \in Present : registers[a] < 256
      PROVE  area = ws
  <2>1. area = TCPArea(pdu, request)
    BY <1>5 DEF IInv, TakenInv
  <2>2. \A k \in 1 .. n : v(k) < 256
    BY <1>5 DEF IParamRead
  <2> HIDE DEF v
  <2>3. \A k \in 1 .. n : ws[k] < 256
    BY <1>3, <2>2
  <2>4. pdu \in Seq(Byte)
    BY DEF IInv, TypeOK
  <2> QED
    BY <1>1, <1>2, <2>1, <2>3, <2>4, TCPAreaOfRead
<1> QED
  BY <1>3, <1>4, <1>5

(***************************************************************************)
(* A read that is answered without an exception gives the serial master    *)
(* the registers of the slave, for every request, every set of registers   *)
(* and whatever happened in the exchanges before: the answer is built over *)
(* the one before in the same buffer, and nothing of that is read.         *)
(***************************************************************************)
THEOREM SerialReadsTheRegisters == Spec => []SerialReadsRegisters
<1>1. IInv => SerialReadsRegisters
  BY AreaOfRead DEF SerialReadsRegisters, ReadTruthful
<1> QED
  BY <1>1, Inductive, PTL

SmallRegisters == \A a \in Present : registers[a] < 256

(***************************************************************************)
(* The TCP client reads them while all of them are below 256: then nothing *)
(* is lost with the high bytes it shifts away.                             *)
(***************************************************************************)
THEOREM TCPReadsSmallRegisters == Spec => [](SmallRegisters => TCPReadsRegisters)
<1>1. IInv => (SmallRegisters => TCPReadsRegisters)
  BY AreaOfRead DEF SmallRegisters, TCPReadsRegisters, ReadTruthful
<1> QED
  BY <1>1, Inductive, PTL

(***************************************************************************)
(* The answer to a write tells what became of the registers, for every     *)
(* answer of the application's IParamWrite.                                *)
(***************************************************************************)
THEOREM WritesApplied == Spec => []WriteApplied
<1>1. IInv => WriteApplied
  BY DEF IInv
<1> QED
  BY <1>1, Inductive, PTL

(***************************************************************************)
(* The confirmation of the TCP client names the registers of its request.  *)
(***************************************************************************)
THEOREM ConfirmationsNameRequests == Spec => []ConfirmationNamesRequest
<1>1. IInv => ConfirmationNamesRequest
  <2> SUFFICES ASSUME IInv, phase = "taken", request.via = "tcp"
               PROVE  /\ ClearBit7(confirmation.func_code) = request.func_no
                      /\ confirmation.start_addr = request.start_addr
                      /\ IsException(pdu) => confirmation.reg_count = 0
                      /\ ~IsException(pdu) /\ (request.func_no = FN_CODE_READ_HOLDING =>
                                                  request.reg_count < 64)
                            => confirmation.reg_count = request.reg_count
    BY DEF ConfirmationNamesRequest
  <2>1. request \in Request /\ (RefusedAnswer \/ ReadAnswer \/ WriteAnswer)
    BY DEF IInv, AnswerInv
  <2>2. pdu \in Seq(Byte) /\ confirmation = TCPConfirmation(pdu, request)
    BY DEF IInv, TypeOK, TakenInv
  <2> QED
    BY <2>1, <2>2, ConfirmationOfAnswer
<1> QED
  BY <1>1, Inductive, PTL
===============================================================================
