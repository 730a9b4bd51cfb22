----------------------- MODULE ModbusClientSerialProofs -----------------------
(***************************************************************************)
(* The serial master loses no request, and its log has one entry per       *)
(* request whose register count an entry can hold: always.  It serves      *)
(* every request once, keeps its retries apart, awaits no answer of a      *)
(* broadcast, believes only the slave a request was added for, blames no   *)
(* slave too much and ends every service in MaxService calls: if the       *)
(* application leaves room in the request list while a request is served.  *)
(***************************************************************************)
EXTENDS ModbusClientSerial, FiniteSetTheorems, SequenceTheorems,
        WellFoundedInduction, TLAPS

USE LengthAssumption, TimeAssumption

\* The bounds and parameters as numbers.
LEMMA ConstantTypes ==
    /\ Addresses \subseteq 0 .. 255
    /\ Functions \subseteq Supported \cup {"UNSUPPORTED"}
    /\ MaxAdds \in Nat /\ MaxLogUses \in Nat
    /\ LogLen \in Nat /\ CountLimit \in Nat \ {0} /\ StrayIndexes \subseteq Nat
    /\ FrameSize \in Nat \ {0}
    /\ ReplyKinds \subseteq {"response", "exception"}
BY ApplicationAssumption, LogAssumption, LineAssumption DEF INT16_MAX

LEMMA MinOfNaturals ==
    ASSUME NEW S \in SUBSET Nat, S # {}
    PROVE  Min(S) \in S
<1>1. \E x \in S : \A y \in S : ~(<<y, x>> \in OpToRel(<, Nat))
  BY NatLessThanWellFounded, WFMin
<1>2. \A x, y \in S : ~(<<y, x>> \in OpToRel(<, Nat)) => x <= y
  BY DEF OpToRel
<1>3. \E x \in S : \A y \in S : x <= y
  BY <1>1, <1>2
<1> QED
  BY <1>3 DEF Min

LEMMA MinOfTwo ==
    ASSUME NEW a \in Int, NEW b \in Int
    PROVE  Min({a, b}) = IF a <= b THEN a ELSE b
<1> DEFINE S == {a, b}
<1>1. \E x \in S : \A y \in S : x <= y
  OBVIOUS
<1>2. Min(S) \in S /\ \A y \in S : Min(S) <= y
  BY <1>1 DEF Min
<1> QED
  BY <1>2

-----------------------------------------------------------------------------
(***************************************************************************)
(* The inductive invariant that holds for every application.               *)
(***************************************************************************)
TypeInv == TypeOK /\ failures \in [LogKeys -> Nat]

\* A request that is served is a real one the master can transmit, and only
\* the wait for its answer may count one retry too many.
ServingInv ==
    /\ Serving => fetched \in Request /\ fetched.body.func \in Supported
    /\ state # "PROCESS" => retry <= ParamRetry

\* Requests are fetched in the order they were added.
OrderInv ==
    /\ added = fetched.body.id + Len(fifo)
    /\ \A k \in 1 .. Len(fifo) : fifo[k].body.id = fetched.body.id + k

\* Those fetched before the last one have ended, those behind it not begun.
OutcomeInv ==
    \A r \in Requests :
        /\ r > fetched.body.id => outcome[r] = "none" /\ sends[r] = 0
        /\ r < fetched.body.id => outcome[r] # "none"
        /\ r = fetched.body.id => outcome[r] # "none" \/ Serving

\* A callback is that of its request.
CallbackInv ==
    /\ app \in {0, added}
    /\ fetched.cb \in {0, fetched.body.id}
    /\ \A k \in 1 .. Len(fifo) : fifo[k].cb \in {0, fifo[k].body.id}

\* The entries in use are those of real requests.
LoggedKeys == \A i \in Log!Logged : elements[i].key \in LogKeys

IInv == /\ TypeInv /\ ServingInv /\ OrderInv /\ OutcomeInv /\ CallbackInv
        /\ LogKeysDistinct /\ LoggedKeys

(***************************************************************************)
(* What holds besides if the application leaves room in the list: then     *)
(* the list never takes back the header of a request that is served.       *)
(***************************************************************************)
ListedHeaders == \A k \in 1 .. Len(fifo) : fifo[k].header = fifo[k].body.dest

\* No request is transmitted again after a broadcast.
TurnInv ==
    /\ BroadcastNotAwaited
    /\ retry # 0 => fetched.body.dest # Broadcast

\* How often the request that is served was transmitted.
SendsInv ==
    LET n == sends[fetched.body.id]
    IN  /\ state = "IDLE" /\ retry # 0 => n = retry
        /\ state \in {"TRANSCOMPLT", "TURN", "WAIT"} => n = retry + 1
        /\ state = "PROCESS" => n = retry + 1 \/ (n = retry /\ retry >= ParamRetry)

\* The frame that is judged is from the slave the request names.
ReceptionInv ==
    /\ state = "TRANSCOMPLT" => rx = NoFrame
    /\ state \in {"WAIT", "PROCESS"} /\ rx # NoFrame => rx.from = fetched.header

ServedInv ==
    /\ Serving => /\ fetched.header = fetched.body.dest
                  /\ outcome[fetched.body.id] = "none"
    /\ TurnInv /\ SendsInv /\ ReceptionInv

RoomInv == ListedHeaders /\ ServedInv /\ RetriesInBudget /\ LogNeverOvercounts

-----------------------------------------------------------------------------
LEMMA NullIsNone ==
    /\ Queue!NullRequest \notin Request
    /\ Queue!NullRequest.body.id = 0
    /\ Queue!NullRequest.cb = 0
<1>1. NoAddress \notin Addresses
  BY ConstantTypes DEF NoAddress
<1>2. Queue!NullRequest.header = NoAddress
  BY DEF Queue!NullRequest
<1> QED
  BY <1>1, <1>2 DEF Queue!NullRequest, NoBody, Request

LEMMA RequestFields ==
    ASSUME NEW r \in Request
    PROVE  /\ r.header \in Addresses /\ r.body \in Bodies
           /\ r.body.id \in Requests /\ r.body.dest \in Addresses
           /\ r.body.func \in Functions /\ r.cb \in Requests \cup {0}
BY DEF Request, Bodies

LEMMA RequestUpdates ==
    ASSUME NEW r \in Request
    PROVE  /\ \A h \in Addresses : /\ [r EXCEPT !.header = h] \in Request
                                   /\ [r EXCEPT !.header = h].body = r.body
                                   /\ [r EXCEPT !.header = h].cb = r.cb
           /\ \A c \in Requests \cup {0} : /\ [r EXCEPT !.cb = c] \in Request
                                           /\ [r EXCEPT !.cb = c].header = r.header
                                           /\ [r EXCEPT !.cb = c].body = r.body
                                           /\ [r EXCEPT !.cb = c].cb = c
BY DEF Request

LEMMA FetchedFields ==
    ASSUME TypeOK
    PROVE  fetched.body.id \in 0 .. MaxAdds
<1>1. CASE fetched \in Request
  BY <1>1, RequestFields, ConstantTypes DEF Requests
<1>2. CASE fetched = Queue!NullRequest
  BY <1>2, NullIsNone, ConstantTypes
<1> QED
  BY <1>1, <1>2 DEF TypeOK

(***************************************************************************)
(* What the operations of the request list do.                             *)
(***************************************************************************)
LEMMA AcceptStep ==
    ASSUME TypeOK, NEW a \in Addresses, NEW b \in Bodies, Queue!Accept(a, b)
    PROVE  /\ fifo' \in Seq(Request)
           /\ Len(fifo') = Len(fifo) + 1 /\ Len(fifo') <= QueueLen
           /\ \A k \in 1 .. Len(fifo) : fifo'[k] = fifo[k]
           /\ fifo'[Len(fifo) + 1] = [header |-> a, body |-> b, cb |-> 0]
           /\ fetched' \in Request \cup {Queue!NullRequest}
           /\ fetched \in Request => fetched' \in Request
           /\ fetched'.body = fetched.body /\ fetched'.cb = fetched.cb
           /\ Len(fifo) + 1 < QueueLen => fetched' = fetched
<1> USE DEF TypeOK
<1> DEFINE new == [header |-> a, body |-> b, cb |-> 0]
<1>1. new \in Request /\ fifo' = Append(fifo, new)
  BY DEF Queue!Accept, Queue!NewRequest, Request
<1> HIDE DEF new
<1>2. /\ fifo' \in Seq(Request) /\ Len(fifo') = Len(fifo) + 1
      /\ \A k \in 1 .. Len(fifo) : fifo'[k] = fifo[k]
      /\ fifo'[Len(fifo) + 1] = new
  BY <1>1, AppendProperties
<1>3. Len(fifo) < QueueLen /\ Len(fifo) \in Nat
  BY LenProperties DEF Queue!Accept
<1>4. fetched' = fetched \/ (fetched \in Request /\ fetched' = [fetched EXCEPT !.header = a])
  BY DEF Queue!Accept, Queue!Reclaim
<1>5. /\ fetched' \in Request \cup {Queue!NullRequest}
      /\ fetched \in Request => fetched' \in Request
      /\ fetched'.body = fetched.body /\ fetched'.cb = fetched.cb
  <2>1. CASE fetched' = fetched
    BY <2>1
  <2>2. CASE fetched \in Request /\ fetched' = [fetched EXCEPT !.header = a]
    BY <2>2, RequestUpdates
  <2> QED
    BY <1>4, <2>1, <2>2
<1>6. Len(fifo) + 1 < QueueLen => fetched' = fetched
  BY <1>3 DEF Queue!Accept, Queue!Reclaim
<1> QED
  BY <1>2, <1>3, <1>5, <1>6 DEF new

LEMMA FetchStep ==
    ASSUME TypeOK, Queue!Fetch
    PROVE  /\ fifo' \in Seq(Request)
           /\ Len(fifo) \in Nat \ {0}
           /\ Len(fifo') = Len(fifo) - 1 /\ Len(fifo') <= QueueLen
           /\ \A k \in 1 .. Len(fifo') : fifo'[k] = fifo[k + 1]
           /\ fetched' \in Request /\ fetched' = fifo[1]
<1> USE DEF TypeOK, Queue!Fetch
<1>1. fifo \in Seq(Request) /\ fifo # <<>>
  OBVIOUS
<1>2. Len(fifo) \in Nat \ {0}
  BY <1>1, EmptySeq, LenProperties
<1>3. /\ Tail(fifo) \in Seq(Request) /\ Len(Tail(fifo)) = Len(fifo) - 1
      /\ \A k \in 1 .. Len(Tail(fifo)) : Tail(fifo)[k] = fifo[k + 1]
      /\ Head(fifo) = fifo[1] /\ Head(fifo) \in Request
  BY <1>1, HeadTailProperties
<1> QED
  BY <1>2, <1>3

LEMMA AttachStep ==
    ASSUME TypeOK, NEW c \in Requests, Queue!AttachCallback(c)
    PROVE  /\ fifo' \in Seq(Request) /\ Len(fifo') = Len(fifo)
           /\ Len(fifo) \in 1 .. QueueLen
           /\ \A k \in 1 .. Len(fifo) : /\ fifo'[k].header = fifo[k].header
                                        /\ fifo'[k].body = fifo[k].body
                                        /\ k < Len(fifo) => fifo'[k].cb = fifo[k].cb
                                        /\ k = Len(fifo) => fifo'[k].cb = c
           /\ UNCHANGED <<fetched, result>>
<1> USE DEF TypeOK
<1>1. Len(fifo) \in 1 .. Len(fifo) /\ Len(fifo) \in Nat
  BY EmptySeq, LenProperties DEF Queue!AttachCallback
<1> DEFINE last == fifo[Len(fifo)]
           new == [last EXCEPT !.cb = c]
<1>2. last \in Request
  BY <1>1, ElementOfSeq
<1> HIDE DEF last
<1>3. /\ new \in Request /\ new.header = last.header /\ new.body = last.body
      /\ new.cb = c
  BY <1>2, RequestUpdates
<1>4. fifo' = [fifo EXCEPT ![Len(fifo)] = new]
  BY DEF Queue!AttachCallback, last
<1> HIDE DEF new
<1>5. /\ fifo' \in Seq(Request) /\ Len(fifo') = Len(fifo)
      /\ \A k \in 1 .. Len(fifo) : fifo'[k] = IF k = Len(fifo) THEN new ELSE fifo[k]
  BY <1>1, <1>3, <1>4, ExceptSeq
<1> QED
  BY <1>1, <1>3, <1>5 DEF last, Queue!AttachCallback

(***************************************************************************)
(* What the error log does with a failure.                                 *)
(***************************************************************************)
LEMMA LogOperators ==
    /\ \A S : Log!Cardinality(S) = Cardinality(S)
    /\ \A S : Log!Min(S) = Min(S)
<1>1. ASSUME NEW S PROVE Log!Cardinality(S) = Cardinality(S)
  BY DEF Log!Cardinality, Cardinality
<1>2. ASSUME NEW S PROVE Log!Min(S) = Min(S)
  BY DEF Log!Min, Min
<1> QED
  BY <1>1, <1>2

LEMMA IndexesOfLog ==
    ASSUME Log!LogTypeOK
    PROVE  /\ head \in Nat /\ Cardinality(Log!Indexes) \in Nat
           /\ head < Cardinality(Log!Indexes) =>
                 elements \in [Log!Array -> Log!Entry] /\ head \in Log!Array
           /\ head # 0 => elements \in [Log!Array -> Log!Entry] /\ Log!Logged \subseteq Log!Array
<1> USE ConstantTypes, LogOperators
<1>1. CASE elements = <<>>
  <2>1. Log!Indexes = {}
    BY <1>1 DEF Log!Indexes
  <2>2. Cardinality(Log!Indexes) = 0
    BY <2>1, FS_EmptySet
  <2> QED
    BY <2>2 DEF Log!LogTypeOK
<1>2. CASE elements \in [Log!Array -> Log!Entry]
  <2>1. Log!Indexes = 0 .. LogLen - 1
    BY <1>2 DEF Log!Indexes, Log!Array
  <2>2. Cardinality(Log!Indexes) = LogLen
    <3>1. Cardinality(0 .. LogLen - 1) = IF 0 > LogLen - 1 THEN 0 ELSE LogLen - 1 - 0 + 1
      BY FS_Interval
    <3> QED
      BY <2>1, <3>1
  <2> QED
    BY <1>2, <2>2 DEF Log!LogTypeOK, Log!Array, Log!Logged
<1> QED
  BY <1>1, <1>2 DEF Log!LogTypeOK

LEMMA LogLookup ==
    ASSUME Log!LogTypeOK, NEW key, NEW i \in Log!isCurrentLogExist(key)
    PROVE  /\ i \in Int
           /\ i < 0 => \/ key \in {k \in LogKeys : k.func_no \in ManyRegisters}
                       \/ \A j \in Log!Logged : elements[j].key # key
           /\ i >= 0 => \/ i \in Log!Logged /\ elements[i].key = key
                        \/ head = 0
<1> DEFINE same == {j \in Log!Logged : Log!Equals(j, key)}
<1> USE DEF Log!Equals
<1>1. head \in Nat
  BY IndexesOfLog
<1>2. CASE head = 0
  <2>1. i \in StrayIndexes \cup {-1} /\ Log!Logged = {}
    BY <1>2 DEF Log!isCurrentLogExist, Log!Logged
  <2> QED
    BY <1>2, <2>1, ConstantTypes
<1>3. CASE head # 0 /\ same = {}
  BY <1>3 DEF Log!isCurrentLogExist
<1>4. CASE head # 0 /\ same # {}
  <2>1. i = Min(same)
    BY <1>4, LogOperators DEF Log!isCurrentLogExist
  <2>2. same \in SUBSET Nat
    BY <1>1 DEF Log!Logged
  <2>3. i \in same
    BY <1>4, <2>1, <2>2, MinOfNaturals
  <2> QED
    BY <2>2, <2>3
<1> QED
  BY <1>2, <1>3, <1>4

LEMMA EntryCounted ==
    ASSUME NEW key \in LogKeys, NEW err \in Log!Errors, NEW e \in Log!Entry
    PROVE  LET new == [key |-> key, error_count |-> Log!Incremented(e.error_count), error |-> err]
           IN  /\ new \in Log!Entry /\ new.key = key
               /\ new.error_count = Log!Incremented(e.error_count)
<1>1. Log!Incremented(e.error_count) \in 0 .. CountLimit
  BY ConstantTypes DEF Log!Incremented, Log!Entry
<1> QED
  BY <1>1 DEF Log!Entry

LEMMA LogStep ==
    ASSUME Log!LogTypeOK, LogKeysDistinct,
           NEW key \in LogKeys, NEW err \in Log!Errors, Log!addMCL(key, err)
    PROVE  /\ Log!LogTypeOK'
           /\ LogKeysDistinct'
           /\ \A i \in (Log!Logged)' :
                 \/ i \in Log!Logged /\ elements'[i] = elements[i]
                 \/ elements'[i].key = key /\ elements'[i].error_count = 0
                 \/ /\ i \in Log!Logged /\ elements[i].key = key
                    /\ elements'[i].key = key
                    /\ elements'[i].error_count = Log!Incremented(elements[i].error_count)
<1> DEFINE LogResult ==
             /\ Log!LogTypeOK'
             /\ LogKeysDistinct'
             /\ \A i \in (Log!Logged)' :
                   \/ i \in Log!Logged /\ elements'[i] = elements[i]
                   \/ elements'[i].key = key /\ elements'[i].error_count = 0
                   \/ /\ i \in Log!Logged /\ elements[i].key = key
                      /\ elements'[i].key = key
                      /\ elements'[i].error_count = Log!Incremented(elements[i].error_count)
<1>0. err_total' \in Nat /\ eMC_LOG_x' \in {"ON", "OFF"}
  BY DEF Log!addMCL, Log!LogTypeOK
<1>1. CASE UNCHANGED <<elements, head>>
  BY <1>0, <1>1 DEF Log!LogTypeOK, Log!Indexes, Log!Logged, LogKeysDistinct
<1>2. ASSUME elements \in [Log!Array -> Log!Entry], head \in Log!Array,
             \/ key.func_no \in ManyRegisters
             \/ \A j \in Log!Logged : elements[j].key # key,
             Log!NewEntry(key, err)
      PROVE  LogResult
  <2> DEFINE new == [key |-> key, error_count |-> 0, error |-> err]
  <2>1. new \in Log!Entry /\ new.key = key /\ new.error_count = 0
    BY ConstantTypes DEF Log!Entry
  <2>2. elements' = [elements EXCEPT ![head] = new] /\ head' = head + 1
    BY <1>2 DEF Log!NewEntry
  <2> HIDE DEF new
  <2>3. /\ elements' \in [Log!Array -> Log!Entry]
        /\ \A j \in Log!Array : elements'[j] = IF j = head THEN new ELSE elements[j]
    BY <1>2, <2>1, <2>2
  <2>4. head \in Nat /\ head < LogLen /\ LogLen \in Nat
    BY <1>2, ConstantTypes DEF Log!Array
  <2>5. (Log!Indexes)' = 0 .. LogLen - 1
    BY <2>3 DEF Log!Indexes, Log!Array
  <2>6. Cardinality((Log!Indexes)') = LogLen
    BY <2>4, <2>5, FS_Interval
  <2>7. Log!LogTypeOK'
    BY <1>0, <2>2, <2>3, <2>4, <2>6, LogOperators DEF Log!LogTypeOK
  <2>8. (Log!Logged)' = Log!Logged \cup {head} /\ (Log!Logged)' \subseteq Log!Array
    BY <2>2, <2>4 DEF Log!Logged, Log!Array
  <2>9. LogKeysDistinct'
    BY <1>2, <2>1, <2>3, <2>8 DEF LogKeysDistinct
  <2> QED
    BY <2>1, <2>3, <2>7, <2>8, <2>9
<1>3. ASSUME NEW i \in Nat, Log!CountAt(i, key, err), elements \in [Log!Array -> Log!Entry],
             (i \in Log!Logged /\ elements[i].key = key) \/ head = 0
      PROVE  LogResult
  <2>1. CASE head = 0
    <3>1. (Log!Logged)' = {} /\ head' = 0
      BY <1>3, <2>1 DEF Log!CountAt, Log!Logged
    <3>2. elements' \in [Log!Array -> Log!Entry]
      <4>1. ASSUME i \in Log!Array
            PROVE  [key |-> key, error_count |-> Log!Incremented(elements[i].error_count),
                    error |-> err] \in Log!Entry
        BY <1>3, <4>1, EntryCounted
      <4> QED
        BY <1>3, <4>1 DEF Log!CountAt, Log!Indexes
    <3>3. Log!Indexes' = Log!Indexes
      BY <1>3, <3>2 DEF Log!Indexes
    <3> QED
      BY <1>0, <2>1, <3>1, <3>2, <3>3 DEF Log!LogTypeOK, LogKeysDistinct
  <2>2. CASE i \in Log!Logged /\ elements[i].key = key /\ head # 0
    <3> DEFINE new == [key |-> key, error_count |-> Log!Incremented(elements[i].error_count),
                       error |-> err]
    <3>1. i \in Log!Array /\ Log!Logged \subseteq Log!Array
      BY <2>2, IndexesOfLog
    <3>2. new \in Log!Entry /\ new.key = key
              /\ new.error_count = Log!Incremented(elements[i].error_count)
      BY <1>3, <3>1, EntryCounted
    <3>3. elements' = [elements EXCEPT ![i] = new] /\ head' = head
      BY <1>3, <3>1 DEF Log!CountAt, Log!Indexes
    <3> HIDE DEF new
    <3>4. /\ elements' \in [Log!Array -> Log!Entry]
          /\ \A j \in Log!Array : elements'[j] = IF j = i THEN new ELSE elements[j]
      BY <1>3, <3>1, <3>2, <3>3
    <3>5. Log!Indexes' = Log!Indexes /\ Log!Logged' = Log!Logged
      BY <1>3, <3>3, <3>4 DEF Log!Indexes, Log!Logged
    <3>6. Log!LogTypeOK'
      BY <1>0, <3>3, <3>4, <3>5 DEF Log!LogTypeOK
    <3>7. \A j \in Log!Logged : elements'[j].key = elements[j].key
      BY <2>2, <3>1, <3>2, <3>4
    <3>8. LogKeysDistinct'
      BY <3>5, <3>7 DEF LogKeysDistinct
    <3> QED
      BY <2>2, <3>1, <3>2, <3>4, <3>5, <3>6, <3>8
  <2> QED
    BY <1>3, <2>1, <2>2
<1>4. CASE /\ head < Cardinality(Log!Indexes)
           /\ \E i \in Log!isCurrentLogExist(key) :
                 IF i < 0 THEN Log!NewEntry(key, err) ELSE Log!CountAt(i, key, err)
  <2>1. elements \in [Log!Array -> Log!Entry] /\ head \in Log!Array
    BY <1>4, IndexesOfLog
  <2>2. PICK i \in Log!isCurrentLogExist(key) :
              IF i < 0 THEN Log!NewEntry(key, err) ELSE Log!CountAt(i, key, err)
    BY <1>4
  <2>3. CASE i < 0
    BY <1>2, <2>1, <2>2, <2>3, LogLookup
  <2>4. CASE ~(i < 0)
    <3>1. i \in Nat
      BY <2>4, LogLookup
    <3> QED
      BY <1>3, <2>1, <2>2, <2>4, <3>1, LogLookup
  <2> QED
    BY <2>3, <2>4
<1>5. Log!Cardinality(Log!Indexes) = Cardinality(Log!Indexes)
  BY LogOperators
<1>6. ~(head >= Log!Cardinality(Log!Indexes)) => head < Cardinality(Log!Indexes)
  BY <1>5, IndexesOfLog
<1> QED
  BY <1>1, <1>4, <1>6 DEF Log!addMCL

(***************************************************************************)
(* Every step keeps the log in order: only UseLog and the failures judged  *)
(* in PROCESS touch it.                                                    *)
(***************************************************************************)
LogInv == /\ Log!LogTypeOK
          /\ LogKeysDistinct /\ LoggedKeys
          /\ failures \in [LogKeys -> Nat]

LEMMA ServedKey ==
    ASSUME IInv, state = "PROCESS"
    PROVE  /\ fetched \in Request
           /\ LogKey(fetched.header, fetched.body.func) \in LogKeys
           /\ LogKey(fetched.body.dest, fetched.body.func) \in LogKeys
<1>1. fetched \in Request /\ fetched.body.func \in Supported
  BY DEF IInv, ServingInv, Serving
<1> QED
  BY <1>1, RequestFields DEF LogKeys, LogKey

LEMMA LogFailureStep ==
    ASSUME IInv, state = "PROCESS", NEW err \in Log!Errors, LogFailure(err)
    PROVE  LogInv'
<1>0. LogInv
  BY DEF IInv, TypeInv, TypeOK, LogInv
<1>1. CASE eMC_LOG_x = "ON"
  <2> DEFINE key == LogKey(fetched.header, fetched.body.func)
             blamed == LogKey(fetched.body.dest, fetched.body.func)
  <2>1. key \in LogKeys /\ blamed \in LogKeys
    BY ServedKey
  <2>2. Log!addMCL(key, err) /\ failures' = [failures EXCEPT ![blamed] = @ + 1]
    BY <1>1 DEF LogFailure
  <2> HIDE DEF key, blamed
  <2>3. Log!LogTypeOK' /\ LogKeysDistinct' /\ LoggedKeys'
    BY <1>0, <2>1, <2>2, LogStep DEF LogInv, LoggedKeys
  <2>4. failures' \in [LogKeys -> Nat]
    BY <1>0, <2>1, <2>2 DEF LogInv
  <2> QED
    BY <2>3, <2>4 DEF LogInv
<1>2. CASE eMC_LOG_x # "ON"
  BY <1>0, <1>2 DEF LogFailure, logVars, LogInv, Log!LogTypeOK, Log!Indexes,
                    Log!Logged, LogKeysDistinct, LoggedKeys
<1> QED
  BY <1>1, <1>2

LEMMA UseLogStep ==
    ASSUME IInv, UseLog
    PROVE  LogInv'
<1>0. LogInv
  BY DEF IInv, TypeInv, TypeOK, LogInv
<1>1. failures' \in [LogKeys -> Nat]
  BY <1>0 DEF UseLog, LogInv
<1>2. Log!Cleared \in Log!Entry
  BY ConstantTypes DEF Log!Cleared, Log!Entry
<1>3. ASSUME head' = 0, elements' \in [Log!Array -> Log!Entry] \/ elements' = <<>>,
             eMC_LOG_x' \in {"ON", "OFF"}, err_total' \in Nat
      PROVE  Log!LogTypeOK' /\ LogKeysDistinct' /\ LoggedKeys'
  <2>1. Log!Cardinality((Log!Indexes)') \in Nat
    <3>1. CASE elements' = <<>>
      <4>1. (Log!Indexes)' = {}
        BY <3>1 DEF Log!Indexes
      <4> QED
        BY <4>1, FS_EmptySet, LogOperators
    <3>2. CASE elements' \in [Log!Array -> Log!Entry]
      <4>1. (Log!Indexes)' = 0 .. LogLen - 1
        BY <3>2 DEF Log!Indexes, Log!Array
      <4>2. IsFiniteSet(0 .. LogLen - 1)
        BY FS_Interval, ConstantTypes
      <4> QED
        BY <4>1, <4>2, FS_CardinalityType, LogOperators
    <3> QED
      BY <1>3, <3>1, <3>2
  <2>2. (Log!Logged)' = {}
    BY <1>3 DEF Log!Logged
  <2> QED
    BY <1>3, <2>1, <2>2 DEF Log!LogTypeOK, LogKeysDistinct, LoggedKeys
<1>4. CASE Log!setLogFile
  BY <1>0, <1>1, <1>2, <1>3, <1>4 DEF Log!setLogFile, LogInv, Log!LogTypeOK
<1>5. CASE Log!clearMCL
  <2>1. elements' \in [Log!Array -> Log!Entry] \/ elements' = <<>>
    <3>1. CASE elements \in [Log!Array -> Log!Entry]
      BY <1>2, <1>5, <3>1 DEF Log!clearMCL, Log!Indexes
    <3>2. CASE elements = <<>>
      BY <1>5, <3>2 DEF Log!clearMCL, Log!Indexes
    <3> QED
      BY <1>0, <3>1, <3>2 DEF LogInv, Log!LogTypeOK
  <2> QED
    BY <1>0, <1>1, <1>3, <1>5, <2>1 DEF Log!clearMCL, LogInv, Log!LogTypeOK
<1>6. CASE Log!setMCLActivation("OFF")
  BY <1>0, <1>1, <1>6 DEF Log!setMCLActivation, LogInv, Log!LogTypeOK, Log!Indexes,
                    Log!Logged, LogKeysDistinct, LoggedKeys
<1> QED
  BY <1>4, <1>5, <1>6 DEF UseLog

LEMMA LogInvStep ==
    ASSUME IInv, [Next]_vars
    PROVE  LogInv'
<1>0. LogInv
  BY DEF IInv, TypeInv, TypeOK, LogInv
<1>1. CASE UNCHANGED logVars
  BY <1>0, <1>1 DEF logVars, LogInv, Log!LogTypeOK, Log!Indexes, Log!Logged,
                    LogKeysDistinct, LoggedKeys
<1>2. CASE GiveUp \/ RetryRequest
  BY <1>2, LogFailureStep DEF GiveUp, RetryRequest, Log!Errors
<1>3. CASE ~UNCHANGED logVars /\ ~GiveUp /\ ~RetryRequest
  <2>1. UseLog
    BY <1>3 DEF Next, Run, Application, SkipUnsupported, TransmitRefused, Transmit,
                BeginRequest, TransmitCompleted, TurnaroundTick, TurnaroundOver,
                WaitExpired, FrameGoesOn, FrameEnds, Poll, Complete, RequestAdd,
                RequestAddFails, RequestCallbackAdd, vars, logVars
  <2> QED
    BY <2>1, UseLogStep
<1> QED
  BY <1>1, <1>2, <1>3

(***************************************************************************)
(* What a step does with the requests: the next one is fetched, one more   *)
(* is added, a callback is attached, or all stay where they are.           *)
(***************************************************************************)
QueueInv == /\ fifo \in Seq(Request) /\ Len(fifo) <= QueueLen
            /\ fetched \in Request \cup {Queue!NullRequest}
            /\ app \in 0 .. added /\ added \in 0 .. MaxAdds
            /\ OrderInv /\ CallbackInv

LEMMA QueueInvHolds ==
    ASSUME IInv
    PROVE  QueueInv
BY DEF IInv, TypeInv, TypeOK, QueueInv

LEMMA TakeStep ==
    ASSUME IInv, Queue!Fetch, UNCHANGED <<app, added>>
    PROVE  /\ QueueInv'
           /\ fetched' \in Request
           /\ Len(fifo) \in Nat \ {0} /\ fetched' = fifo[1]
           /\ Len(fifo') = Len(fifo) - 1
           /\ \A k \in 1 .. Len(fifo') : fifo'[k] = fifo[k + 1]
           /\ fetched'.body.id = fetched.body.id + 1
<1>1. TypeOK /\ QueueInv /\ OrderInv /\ CallbackInv
  BY QueueInvHolds DEF IInv, TypeInv
<1>2. /\ fifo' \in Seq(Request) /\ fetched' \in Request
      /\ Len(fifo) \in Nat \ {0} /\ fetched' = fifo[1]
      /\ Len(fifo') = Len(fifo) - 1 /\ Len(fifo') <= QueueLen
      /\ \A k \in 1 .. Len(fifo') : fifo'[k] = fifo[k + 1]
  BY <1>1, FetchStep
<1>3. fetched.body.id \in Nat
  BY <1>1, FetchedFields
<1>4. /\ fifo[1].body.id = fetched.body.id + 1
      /\ fifo[1].cb \in {0, fifo[1].body.id}
  BY <1>1, <1>2 DEF OrderInv, CallbackInv
<1>5. OrderInv'
  <2>1. ASSUME NEW k \in 1 .. Len(fifo')
        PROVE  fifo'[k].body.id = fetched'.body.id + k
    <3>1. k + 1 \in 1 .. Len(fifo)
      BY <1>2, <2>1
    <3>2. fifo[k + 1].body.id = fetched.body.id + (k + 1)
      BY <1>1, <3>1 DEF OrderInv
    <3> QED
      <4>1. fetched'.body.id = fetched.body.id + 1 /\ k \in Int
        BY <1>2, <1>4
      <4>2. fifo'[k].body.id = fetched.body.id + (k + 1)
        BY <1>2, <3>2
      <4> QED
        BY <1>3, <4>1, <4>2
  <2>2. added' = fetched'.body.id + Len(fifo')
    BY <1>1, <1>2, <1>3, <1>4 DEF OrderInv
  <2> QED
    BY <2>1, <2>2 DEF OrderInv
<1>6. CallbackInv'
  <2>1. ASSUME NEW k \in 1 .. Len(fifo')
        PROVE  fifo'[k].cb \in {0, fifo'[k].body.id}
    <3>1. k + 1 \in 1 .. Len(fifo)
      BY <1>2, <2>1
    <3> QED
      BY <1>1, <1>2, <2>1, <3>1 DEF CallbackInv
  <2>2. fetched'.cb \in {0, fetched'.body.id} /\ app' \in {0, added'}
    BY <1>1, <1>2, <1>4 DEF CallbackInv
  <2> QED
    BY <2>1, <2>2 DEF CallbackInv
<1> QED
  BY <1>1, <1>2, <1>4, <1>5, <1>6 DEF QueueInv

LEMMA AddStep ==
    ASSUME IInv, NEW a \in Addresses, NEW f \in Functions, RequestAdd(a, f)
    PROVE  /\ QueueInv'
           /\ fetched \in Request => fetched' \in Request
           /\ fetched'.body = fetched.body /\ fetched'.cb = fetched.cb
           /\ Len(fifo) \in Nat /\ Len(fifo') = Len(fifo) + 1
           /\ \A k \in 1 .. Len(fifo) : fifo'[k] = fifo[k]
           /\ fifo'[Len(fifo')].header = fifo'[Len(fifo')].body.dest
           /\ LeavesRoom /\ Serving => fetched' = fetched
<1> DEFINE b == [func |-> f, id |-> added + 1, dest |-> a]
<1>1. TypeOK /\ QueueInv /\ OrderInv /\ CallbackInv
  BY QueueInvHolds DEF IInv, TypeInv
<1>2. b \in Bodies /\ b.id = added + 1 /\ b.dest = a
  BY <1>1, ConstantTypes DEF RequestAdd, QueueInv, Bodies, Requests
<1>3. /\ Queue!Accept(a, b)
      /\ added' = added + 1 /\ app' = added + 1
      /\ added < MaxAdds
      /\ LeavesRoom /\ Serving => Len(fifo) + 1 < QueueLen
  BY DEF RequestAdd
<1> HIDE DEF b
<1>4. /\ fifo' \in Seq(Request)
      /\ Len(fifo') = Len(fifo) + 1 /\ Len(fifo') <= QueueLen
      /\ \A k \in 1 .. Len(fifo) : fifo'[k] = fifo[k]
      /\ fifo'[Len(fifo) + 1] = [header |-> a, body |-> b, cb |-> 0]
      /\ fetched' \in Request \cup {Queue!NullRequest}
      /\ fetched \in Request => fetched' \in Request
      /\ fetched'.body = fetched.body /\ fetched'.cb = fetched.cb
      /\ Len(fifo) + 1 < QueueLen => fetched' = fetched
  BY <1>1, <1>2, <1>3, AcceptStep
<1>5. /\ Len(fifo) \in Nat /\ fetched.body.id \in Nat
      /\ fetched'.body.id = fetched.body.id
      /\ added = fetched.body.id + Len(fifo)
  BY <1>1, <1>4, FetchedFields, LenProperties DEF QueueInv, OrderInv
<1>6. OrderInv'
  <2>1. ASSUME NEW k \in 1 .. Len(fifo')
        PROVE  fifo'[k].body.id = fetched'.body.id + k
    <3>1. CASE k = Len(fifo) + 1
      <4>1. fifo'[k].body.id = added + 1
        BY <1>2, <1>4, <3>1
      <4>2. added + 1 = fetched'.body.id + k
        <5> DEFINE last == fetched'.body.id
                   len == Len(fifo)
        <5>1. last \in Nat /\ len \in Nat /\ added = last + len /\ k = len + 1
          BY <1>5, <3>1
        <5> HIDE DEF last, len
        <5> QED
          BY <5>1 DEF last
      <4> QED
        BY <4>1, <4>2
    <3>2. CASE k \in 1 .. Len(fifo)
      BY <1>1, <1>4, <3>2 DEF OrderInv
    <3> QED
      BY <1>4, <1>5, <3>1, <3>2
  <2>2. added' = fetched'.body.id + Len(fifo')
    <3>1. added' = fetched.body.id + Len(fifo) + 1
      BY <1>3, <1>5
    <3>2. Len(fifo') = Len(fifo) + 1
      BY <1>4
    <3> QED
      BY <1>5, <3>1, <3>2
  <2> QED
    BY <2>1, <2>2 DEF OrderInv
<1>7. CallbackInv'
  <2>1. ASSUME NEW k \in 1 .. Len(fifo')
        PROVE  fifo'[k].cb \in {0, fifo'[k].body.id}
    <3>1. CASE k = Len(fifo) + 1
      BY <1>4, <3>1
    <3>2. CASE k \in 1 .. Len(fifo)
      BY <1>1, <1>4, <3>2 DEF CallbackInv
    <3> QED
      BY <1>4, <1>5, <3>1, <3>2
  <2>2. fetched'.cb \in {0, fetched'.body.id} /\ app' \in {0, added'}
    BY <1>1, <1>3, <1>4 DEF CallbackInv
  <2> QED
    BY <2>1, <2>2 DEF CallbackInv
<1>8. app' \in 0 .. added' /\ added' \in 0 .. MaxAdds
  BY <1>1, <1>3, ConstantTypes DEF QueueInv
<1> QED
  BY <1>2, <1>3, <1>4, <1>5, <1>6, <1>7, <1>8 DEF QueueInv

LEMMA CallbackAddStep ==
    ASSUME IInv, RequestCallbackAdd
    PROVE  /\ QueueInv'
           /\ UNCHANGED <<fetched, added>>
           /\ Len(fifo) \in Nat /\ Len(fifo') = Len(fifo)
           /\ \A k \in 1 .. Len(fifo) : /\ fifo'[k].header = fifo[k].header
                                        /\ fifo'[k].body = fifo[k].body
<1>1. TypeOK /\ QueueInv /\ OrderInv /\ CallbackInv
  BY QueueInvHolds DEF IInv, TypeInv
<1>2. app = added /\ app \in Requests /\ added' = added /\ app' = 0 /\ added \in Nat
  BY <1>1, ConstantTypes DEF RequestCallbackAdd, CallbackInv, QueueInv, Requests
<1>3. Len(fifo) \in Nat
  BY <1>1, LenProperties DEF QueueInv
<1>4. CASE Queue!AttachCallback(app)
  <2>1. /\ fifo' \in Seq(Request) /\ Len(fifo') = Len(fifo)
        /\ Len(fifo) \in 1 .. QueueLen
        /\ \A k \in 1 .. Len(fifo) : /\ fifo'[k].header = fifo[k].header
                                     /\ fifo'[k].body = fifo[k].body
                                     /\ k < Len(fifo) => fifo'[k].cb = fifo[k].cb
                                     /\ k = Len(fifo) => fifo'[k].cb = app
        /\ UNCHANGED <<fetched, result>>
    BY <1>1, <1>2, <1>4, AttachStep
  <2>2. OrderInv'
    BY <1>1, <1>2, <2>1 DEF OrderInv
  <2>3. fifo[Len(fifo)].body.id = app
    BY <1>1, <1>2, <1>3, <2>1 DEF OrderInv
  <2>4. CallbackInv'
    <3>1. ASSUME NEW k \in 1 .. Len(fifo)
          PROVE  fifo'[k].cb \in {0, fifo'[k].body.id}
      <4>1. CASE k = Len(fifo)
        BY <2>1, <2>3, <4>1
      <4>2. CASE k < Len(fifo)
        BY <1>1, <2>1, <4>2 DEF CallbackInv
      <4> QED
        BY <1>3, <4>1, <4>2
    <3> QED
      BY <1>1, <1>2, <2>1, <3>1 DEF CallbackInv
  <2> QED
    BY <1>1, <1>2, <1>3, <2>1, <2>2, <2>4 DEF QueueInv
<1>5. CASE fifo = <<>> /\ UNCHANGED queueVars
  BY <1>1, <1>2, <1>3, <1>5 DEF queueVars, QueueInv, OrderInv, CallbackInv
<1> QED
  BY <1>4, <1>5 DEF RequestCallbackAdd

LEMMA SameQueue ==
    ASSUME IInv, UNCHANGED <<fifo, fetched, added>>, app' = app \/ app' = 0
    PROVE  QueueInv'
BY QueueInvHolds DEF QueueInv, OrderInv, CallbackInv

(***************************************************************************)
(* What a step that starts to serve a request does.                        *)
(***************************************************************************)
LEMMA BeginStep ==
    ASSUME IInv, BeginRequest
    PROVE  /\ QueueInv'
           /\ state = "IDLE" /\ retry \in 0 .. ParamRetry
           /\ UNCHANGED <<retry, ticker, app, added, logVars>>
           /\ timer_wfr' = 0 /\ timer_tad' = 0 /\ rx' = NoFrame
           /\ fetched' \in Request
           /\ \/ /\ retry = 0
                 /\ Len(fifo) \in Nat \ {0} /\ fetched' = fifo[1]
                 /\ Len(fifo') = Len(fifo) - 1
                 /\ \A k \in 1 .. Len(fifo') : fifo'[k] = fifo[k + 1]
                 /\ fetched'.body.id = fetched.body.id + 1
              \/ /\ retry # 0
                 /\ UNCHANGED <<fifo, fetched>>
                 /\ fetched.body.func \in Supported
<1>1. /\ state = "IDLE"
      /\ timer_wfr' = 0 /\ timer_tad' = 0 /\ rx' = NoFrame
      /\ UNCHANGED <<retry, ticker, app, added, logVars>>
      /\ retry = 0 => Queue!Fetch
      /\ retry # 0 => UNCHANGED queueVars
  BY DEF BeginRequest, Take
<1>2. retry \in 0 .. ParamRetry
  BY <1>1 DEF IInv, TypeInv, TypeOK, ServingInv
<1>3. CASE retry = 0
  BY <1>1, <1>2, <1>3, TakeStep
<1>4. CASE retry # 0
  <2>1. fetched \in Request /\ fetched.body.func \in Supported
    BY <1>4 DEF IInv, ServingInv, Serving
  <2> QED
    BY <1>1, <1>2, <1>4, <2>1, SameQueue DEF queueVars
<1> QED
  BY <1>3, <1>4

LEMMA QueueInvStep ==
    ASSUME IInv, [Next]_vars
    PROVE  QueueInv'
<1>1. CASE UNCHANGED <<fifo, fetched, added, app>>
  BY <1>1, SameQueue
<1>2. CASE SkipUnsupported \/ TransmitRefused \/ Transmit
  BY <1>2, BeginStep DEF SkipUnsupported, TransmitRefused, Transmit
<1>3. CASE \E a \in Addresses, f \in Functions : RequestAdd(a, f)
  BY <1>3, AddStep
<1>4. CASE RequestAddFails
  BY <1>4, SameQueue DEF RequestAddFails, Queue!RefuseFull
<1>5. CASE RequestCallbackAdd
  BY <1>5, CallbackAddStep
<1>6. CASE UNCHANGED queueVars /\ UNCHANGED <<added, app>>
  BY <1>1, <1>6 DEF queueVars
<1> QED
  BY <1>1, <1>2, <1>3, <1>4, <1>5, <1>6
  DEF Next, Run, Application, UseLog, TransmitCompleted, TurnaroundTick, TurnaroundOver,
      WaitExpired, FrameGoesOn, FrameEnds, Poll, GiveUp, RetryRequest, Complete,
      vars, queueVars

(***************************************************************************)
(* What the line and the receive driver do.                                *)
(***************************************************************************)
LineInv == /\ rx \in Frames
           /\ BagToSet(wire) \subseteq [to : Addresses \ {Broadcast}, id : Requests]

LEMMA FrameFields ==
    /\ NoFrame \in Frames
    /\ \A f \in Frames : f.size \in 0 .. FrameSize /\ f.from \in Addresses \cup {NoAddress}
    /\ \A f \in Frames : f # NoFrame => f.size \in 1 .. FrameSize /\ f.from \in Addresses
BY ConstantTypes DEF Frames, NoFrame

LEMMA PollStep ==
    ASSUME LineInv, NEW f \in Frames, Poll(f)
    PROVE  /\ LineInv'
           /\ rx' # NoFrame => rx' = f /\ rx'.from = fetched.header
<1>1. rx' \in Frames /\ (rx' # NoFrame => rx' = f /\ rx'.from = fetched.header)
  BY FrameFields DEF Poll, Heard
<1>2. BagToSet(wire') \subseteq BagToSet(wire)
  <2>1. CASE wire' = wire
    BY <2>1
  <2>2. ASSUME NEW p \in BagToSet(wire), wire' = wire (-) SetToBag({p})
        PROVE  BagToSet(wire') \subseteq BagToSet(wire)
    BY <2>2 DEF BagToSet, SetToBag, (-)
  <2> QED
    BY <2>1, <2>2 DEF Poll, Driver
<1> QED
  BY <1>1, <1>2 DEF LineInv

LEMMA OnTheLineStep ==
    ASSUME LineInv, fetched' \in Request, wire' = OnTheLine
    PROVE  BagToSet(wire') \subseteq [to : Addresses \ {Broadcast}, id : Requests]
<1> DEFINE earlier == IF LateAnswers THEN wire ELSE EmptyBag
           sent == [to |-> fetched'.header, id |-> fetched'.body.id]
<1>1. BagToSet(earlier) \subseteq BagToSet(wire)
  BY DEF BagToSet, EmptyBag, SetToBag
<1>2. CASE fetched'.header = Broadcast
  BY <1>1, <1>2 DEF OnTheLine, LineInv
<1>3. CASE fetched'.header # Broadcast
  <2>1. wire' = earlier (+) SetToBag({sent})
    BY <1>3 DEF OnTheLine
  <2>2. sent \in [to : Addresses \ {Broadcast}, id : Requests]
    BY <1>3, RequestFields
  <2> HIDE DEF earlier, sent
  <2>3. BagToSet(wire') = BagToSet(earlier) \cup {sent}
    BY <2>1 DEF BagToSet, SetToBag, (+)
  <2> QED
    BY <1>1, <2>2, <2>3 DEF LineInv
<1> QED
  BY <1>2, <1>3

(***************************************************************************)
(* The parts of TypeOK and ServingInv that are not the list's, the log's   *)
(* or the line's.                                                          *)
(***************************************************************************)
ControlInv ==
    /\ state \in {"IDLE", "TRANSCOMPLT", "TURN", "WAIT", "PROCESS"}
    /\ retry \in 0 .. ParamRetry + 1
    /\ timer_tad \in 0 .. ParamTad
    /\ timer_wfr \in 0 .. ParamWfr
    /\ ticker \in 0 .. T35
    /\ sends \in [Requests -> 0 .. ParamRetry + 2]
    /\ outcome \in [Requests -> Outcomes]
    /\ ServingInv

LEMMA Parts ==
    /\ IInv => /\ QueueInv /\ LogInv /\ LineInv /\ ControlInv /\ OutcomeInv
               /\ fetched.body.id \in 0 .. MaxAdds
               /\ Serving => fetched.body.id \in Requests
    /\ QueueInv' /\ LogInv' /\ LineInv' /\ ControlInv' /\ OutcomeInv' => IInv'
<1>1. ASSUME IInv
      PROVE  /\ QueueInv /\ LogInv /\ LineInv /\ ControlInv /\ OutcomeInv
             /\ fetched.body.id \in 0 .. MaxAdds
             /\ Serving => fetched.body.id \in Requests
  <2>1. TypeOK /\ ServingInv
    BY <1>1 DEF IInv, TypeInv
  <2>2. QueueInv /\ LogInv /\ LineInv /\ ControlInv /\ OutcomeInv
    BY <1>1 DEF IInv, TypeInv, TypeOK, QueueInv, LogInv, LineInv, ControlInv
  <2>3. fetched.body.id \in 0 .. MaxAdds
    BY <2>1, FetchedFields
  <2>4. Serving => fetched.body.id \in Requests
    BY <2>1, RequestFields DEF ServingInv
  <2> QED
    BY <2>2, <2>3, <2>4
<1>2. QueueInv' /\ LogInv' /\ LineInv' /\ ControlInv' /\ OutcomeInv' => IInv'
  BY DEF IInv, TypeInv, TypeOK, QueueInv, LogInv, LineInv, ControlInv
<1> QED
  BY <1>1, <1>2

LEMMA LineInvStep ==
    ASSUME IInv, [Next]_vars
    PROVE  LineInv'
<1>0. LineInv
  BY Parts
<1>1. CASE UNCHANGED lineVars
  BY <1>0, <1>1 DEF lineVars, LineInv
<1>2. CASE \E f \in Frames : FrameGoesOn(f) \/ FrameEnds(f)
  BY <1>0, <1>2, PollStep DEF FrameGoesOn, FrameEnds
<1>3. CASE SkipUnsupported \/ TransmitRefused \/ Transmit
  <2>1. rx' = NoFrame /\ fetched' \in Request
    BY <1>3, BeginStep DEF SkipUnsupported, TransmitRefused, Transmit
  <2>2. BagToSet(wire') \subseteq [to : Addresses \ {Broadcast}, id : Requests]
    BY <1>0, <1>3, <2>1, OnTheLineStep
    DEF SkipUnsupported, TransmitRefused, Transmit, LineInv
  <2> QED
    BY <2>1, <2>2, FrameFields DEF LineInv
<1> QED
  BY <1>1, <1>2, <1>3
  DEF Next, Run, Application, UseLog, TransmitCompleted, TurnaroundTick, TurnaroundOver,
      WaitExpired, GiveUp, RetryRequest, Complete, RequestAdd, RequestAddFails,
      RequestCallbackAdd, vars, lineVars

\* The transmissions that are counted.
LEMMA TransmitCount ==
    ASSUME IInv, Transmit
    PROVE  /\ fetched'.body.id \in Requests
           /\ sends' \in [Requests -> 0 .. ParamRetry + 2]
           /\ \A r \in Requests : r # fetched'.body.id => sends'[r] = sends[r]
           /\ sends[fetched'.body.id] <= ParamRetry =>
                 sends'[fetched'.body.id] = sends[fetched'.body.id] + 1
<1> DEFINE r == fetched'.body.id
           n == sends[r]
           m == Min({n + 1, ParamRetry + 2})
<1>1. r \in Requests
  BY BeginStep, RequestFields DEF Transmit
<1>2. sends \in [Requests -> 0 .. ParamRetry + 2] /\ ParamRetry \in Nat
  BY Parts DEF ControlInv
<1>3. n \in 0 .. ParamRetry + 2
  BY <1>1, <1>2
<1>4. sends' = [sends EXCEPT ![r] = m]
  BY DEF Transmit
<1> HIDE DEF r, n
<1>5. m = IF n + 1 <= ParamRetry + 2 THEN n + 1 ELSE ParamRetry + 2
  BY <1>2, <1>3, MinOfTwo
<1> HIDE DEF m
<1>6. m \in 0 .. ParamRetry + 2 /\ (n <= ParamRetry => m = n + 1)
  BY <1>2, <1>3, <1>5
<1> QED
  BY <1>1, <1>2, <1>4, <1>6 DEF r, n

LEMMA ControlInvStep ==
    ASSUME IInv, [Next]_vars
    PROVE  ControlInv'
<1> USE Parts
<1>0. /\ ControlInv
      /\ ParamRetry \in Nat /\ ParamTad \in Nat /\ ParamWfr \in Nat /\ T35 \in Nat
  OBVIOUS
<1>1. CASE UNCHANGED vars
  BY <1>0, <1>1 DEF vars, ControlInv, ServingInv, Serving
<1>2. ASSUME BeginRequest
      PROVE  /\ fetched' \in Request /\ state = "IDLE"
             /\ retry' \in 0 .. ParamRetry
             /\ timer_wfr' = 0 /\ timer_tad' = 0 /\ ticker' = ticker
             /\ fetched'.body.id \in Requests
             /\ retry' = retry
             /\ retry = 0 \/ fetched'.body.func \in Supported
  BY <1>2, BeginStep, RequestFields
<1>3. CASE SkipUnsupported
  <2>1. BeginRequest /\ retry = 0 /\ state' = state /\ sends' = sends
    BY <1>2, <1>3 DEF SkipUnsupported
  <2>2. outcome' \in [Requests -> Outcomes]
    BY <1>0, <1>2, <1>3 DEF SkipUnsupported, ControlInv, Outcomes
  <2> QED
    BY <1>0, <1>2, <2>1, <2>2 DEF ControlInv, ServingInv, Serving
<1>4. CASE TransmitRefused
  <2>1. BeginRequest /\ state' = state /\ sends' = sends /\ fetched'.body.func \in Supported
    BY <1>4 DEF TransmitRefused
  <2>2. outcome' \in [Requests -> Outcomes]
    BY <1>0, <1>2, <1>4, <2>1 DEF TransmitRefused, ControlInv, Outcomes
  <2> QED
    BY <1>0, <1>2, <2>1, <2>2 DEF ControlInv, ServingInv
<1>5. CASE Transmit
  <2>1. /\ BeginRequest /\ state' = "TRANSCOMPLT" /\ outcome' = outcome
        /\ fetched'.body.func \in Supported
    BY <1>5 DEF Transmit
  <2> QED
    BY <1>0, <1>2, <1>5, <2>1, TransmitCount DEF ControlInv, ServingInv
<1>6. CASE TransmitCompleted
  BY <1>0, <1>6 DEF TransmitCompleted, queueVars, ControlInv, ServingInv, Serving
<1>7. CASE TurnaroundTick
  BY <1>0, <1>7 DEF TurnaroundTick, queueVars, ControlInv, ServingInv, Serving
<1>8. CASE TurnaroundOver
  <2>1. outcome' \in [Requests -> Outcomes]
    BY <1>0, <1>8 DEF TurnaroundOver, Serving, ControlInv, Outcomes
  <2> QED
    BY <1>0, <1>8, <2>1 DEF TurnaroundOver, queueVars, ControlInv, ServingInv, Serving
<1>9. CASE WaitExpired
  <2>1. retry \in 0 .. ParamRetry
    BY <1>0, <1>9 DEF WaitExpired, ControlInv, ServingInv
  <2> QED
    BY <1>0, <1>9, <2>1 DEF WaitExpired, queueVars, ControlInv, ServingInv, Serving
<1>10. ASSUME NEW f \in Frames, FrameGoesOn(f) \/ FrameEnds(f)
       PROVE  ControlInv'
  <2>1. /\ state = "WAIT" /\ state' \in {"WAIT", "PROCESS"}
        /\ timer_wfr + 1 <= ParamWfr /\ timer_wfr' = timer_wfr + 1
        /\ UNCHANGED <<queueVars, retry, timer_tad, sends, outcome>>
    BY <1>10 DEF FrameGoesOn, FrameEnds, Poll
  <2>2. ticker' \in 0 .. T35
    BY <1>0, <1>10 DEF FrameGoesOn, FrameEnds, ControlInv
  <2> QED
    BY <1>0, <2>1, <2>2 DEF queueVars, ControlInv, ServingInv, Serving
<1>11. CASE GiveUp
  <2>1. outcome' \in [Requests -> Outcomes]
    BY <1>0, <1>11 DEF GiveUp, Serving, ControlInv, Outcomes
  <2> QED
    BY <1>0, <1>11, <2>1 DEF GiveUp, queueVars, ControlInv, ServingInv, Serving
<1>12. CASE RetryRequest
  BY <1>0, <1>12 DEF RetryRequest, RetriesUsedUp, queueVars, ControlInv, ServingInv, Serving
<1>13. CASE Complete
  <2>1. outcome' \in [Requests -> Outcomes]
    BY <1>0, <1>13 DEF Complete, Serving, ControlInv, Outcomes
  <2> QED
    BY <1>0, <1>13, <2>1 DEF Complete, queueVars, ControlInv, ServingInv, Serving
<1>14. CASE UseLog
  BY <1>0, <1>14 DEF UseLog, queueVars, ControlInv, ServingInv, Serving
<1>15. ASSUME NEW a \in Addresses, NEW f \in Functions, RequestAdd(a, f)
       PROVE  ControlInv'
  <2>1. /\ fetched \in Request => fetched' \in Request
        /\ fetched'.body = fetched.body
    BY <1>15, AddStep
  <2> QED
    BY <1>0, <1>15, <2>1 DEF RequestAdd, ControlInv, ServingInv, Serving
<1>16. CASE RequestAddFails
  BY <1>0, <1>16 DEF RequestAddFails, Queue!RefuseFull, ControlInv, ServingInv, Serving
<1>17. CASE RequestCallbackAdd
  BY <1>0, <1>17 DEF RequestCallbackAdd, Queue!AttachCallback, queueVars, ControlInv,
                     ServingInv, Serving
<1> QED
  BY <1>1, <1>3, <1>4, <1>5, <1>6, <1>7, <1>8, <1>9, <1>10, <1>11, <1>12, <1>13,
     <1>14, <1>15, <1>16, <1>17 DEF Next, Run, Application

(***************************************************************************)
(* Which requests have ended.                                              *)
(***************************************************************************)
LEMMA ServiceGoesOn ==
    ASSUME IInv, UNCHANGED <<outcome, sends>>, fetched'.body = fetched.body,
           Serving => Serving'
    PROVE  OutcomeInv'
BY Parts DEF OutcomeInv

LEMMA ServiceEnds ==
    ASSUME IInv, Serving, UNCHANGED <<fetched, sends>>, NEW o, o # "none",
           outcome' = [outcome EXCEPT ![fetched.body.id] = o]
    PROVE  OutcomeInv'
<1>1. OutcomeInv /\ outcome \in [Requests -> Outcomes] /\ fetched.body.id \in Requests
  BY Parts DEF ControlInv
<1>2. \A r \in Requests : outcome'[r] = IF r = fetched.body.id THEN o ELSE outcome[r]
  BY <1>1
<1>3. fetched.body.id \in Nat
  BY Parts, ConstantTypes
<1> QED
  BY <1>1, <1>2, <1>3 DEF OutcomeInv, Requests

LEMMA ServiceBegins ==
    ASSUME IInv, BeginRequest
    PROVE  LET id == fetched'.body.id
           IN  /\ id \in Requests
               /\ \A r \in Requests : r > id => outcome[r] = "none" /\ sends[r] = 0
               /\ \A r \in Requests : r < id => outcome[r] # "none"
               /\ retry = 0 => outcome[id] = "none" /\ sends[id] = 0
               /\ retry # 0 => id = fetched.body.id
<1> DEFINE id == fetched'.body.id
           old == fetched.body.id
<1>1. /\ OutcomeInv /\ old \in 0 .. MaxAdds /\ MaxAdds \in Nat
      /\ id \in Requests
      /\ retry = 0 => id = old + 1 /\ ~Serving
      /\ retry # 0 => id = old
  BY Parts, ConstantTypes, BeginStep, RequestFields DEF Serving
<1>2. \A r \in Requests :
        /\ r \in Int
        /\ r > old => outcome[r] = "none" /\ sends[r] = 0
        /\ r < old => outcome[r] # "none"
        /\ r = old => outcome[r] # "none" \/ Serving
  BY <1>1 DEF OutcomeInv, Requests
<1> HIDE DEF id, old
<1> QED
  <2>1. CASE retry = 0
    BY <1>1, <1>2, <2>1 DEF id, old
  <2>2. CASE retry # 0
    BY <1>1, <1>2, <2>2 DEF id, old
  <2> QED
    BY <2>1, <2>2

LEMMA OutcomeInvStep ==
    ASSUME IInv, [Next]_vars
    PROVE  OutcomeInv'
<1> USE Parts
<1>0. /\ retry \in Nat /\ outcome \in [Requests -> Outcomes]
      /\ sends \in [Requests -> 0 .. ParamRetry + 2]
  BY DEF ControlInv
<1>1. CASE BeginRequest /\ sends' = sends /\ state' = state
           /\ \E o \in {"unsupported", "refused"} :
                 outcome' = [outcome EXCEPT ![fetched'.body.id] = o]
  <2> DEFINE id == fetched'.body.id
  <2>1. /\ id \in Requests
        /\ \A r \in Requests : r > id => outcome[r] = "none" /\ sends[r] = 0
        /\ \A r \in Requests : r < id => outcome[r] # "none"
    BY <1>1, ServiceBegins
  <2>2. PICK o : o # "none" /\ outcome' = [outcome EXCEPT ![id] = o]
    BY <1>1
  <2> HIDE DEF id
  <2>3. \A r \in Requests : /\ outcome'[r] = IF r = id THEN o ELSE outcome[r]
                            /\ sends'[r] = sends[r]
    BY <1>0, <1>1, <2>1, <2>2
  <2>4. \A r \in Requests : r \in Int /\ id \in Int
    BY <2>1, ConstantTypes DEF Requests
  <2> QED
    BY <2>1, <2>2, <2>3, <2>4 DEF OutcomeInv, id
<1>2. CASE BeginRequest /\ retry # 0 /\ UNCHANGED <<sends, outcome, state>>
  <2>1. fetched' = fetched /\ retry' = retry
    BY <1>2, BeginStep
  <2> QED
    BY <1>2, <2>1, ServiceGoesOn DEF Serving
<1>3. CASE Transmit
  <2> DEFINE id == fetched'.body.id
  <2>1. /\ id \in Requests
        /\ \A r \in Requests : r > id => outcome[r] = "none" /\ sends[r] = 0
        /\ \A r \in Requests : r < id => outcome[r] # "none"
    BY <1>3, ServiceBegins DEF Transmit
  <2>2. \A r \in Requests : r # id => sends'[r] = sends[r]
    BY <1>3, TransmitCount
  <2>3. outcome' = outcome /\ Serving'
    BY <1>3 DEF Transmit, Serving
  <2> HIDE DEF id
  <2>4. \A r \in Requests : r \in Int /\ id \in Int
    BY <2>1, ConstantTypes DEF Requests
  <2> QED
    BY <2>1, <2>2, <2>3, <2>4 DEF OutcomeInv, id
<1>4. CASE SkipUnsupported \/ TransmitRefused
  BY <1>1, <1>2, <1>4 DEF SkipUnsupported, TransmitRefused
<1>5. CASE TurnaroundOver \/ GiveUp \/ Complete
  BY <1>5, ServiceEnds DEF TurnaroundOver, GiveUp, Complete, queueVars, Serving
<1>6. CASE UNCHANGED <<fetched, outcome, sends, state, retry>>
  BY <1>6, ServiceGoesOn DEF Serving
<1>7. CASE UNCHANGED <<fetched, outcome, sends>> /\ (state' # "IDLE" \/ retry' = retry + 1)
  BY <1>0, <1>7, ServiceGoesOn DEF Serving
<1>8. CASE TransmitCompleted \/ TurnaroundTick \/ WaitExpired \/ RetryRequest
  BY <1>7, <1>8 DEF TransmitCompleted, TurnaroundTick, WaitExpired, RetryRequest, queueVars
<1>9. ASSUME NEW f \in Frames, FrameGoesOn(f) \/ FrameEnds(f)
      PROVE  OutcomeInv'
  BY <1>7, <1>9 DEF FrameGoesOn, FrameEnds, Poll, queueVars
<1>10. ASSUME NEW a \in Addresses, NEW f \in Functions, RequestAdd(a, f)
       PROVE  OutcomeInv'
  <2>1. fetched'.body = fetched.body
    BY <1>10, AddStep
  <2> QED
    BY <1>10, <2>1, ServiceGoesOn DEF RequestAdd, Serving
<1>11. CASE UseLog \/ RequestAddFails \/ RequestCallbackAdd \/ UNCHANGED vars
  BY <1>6, <1>11 DEF UseLog, RequestAddFails, RequestCallbackAdd, Queue!RefuseFull,
                     Queue!AttachCallback, queueVars, vars
<1> QED
  BY <1>3, <1>4, <1>5, <1>8, <1>9, <1>10, <1>11 DEF Next, Run, Application

-----------------------------------------------------------------------------
LEMMA InitInv == Init => IInv
<1> SUFFICES ASSUME Init
             PROVE  IInv
  OBVIOUS
<1>0. /\ fifo = <<>> /\ fifo \in Seq(Request) /\ Len(fifo) = 0
      /\ fetched = Queue!NullRequest
  BY EmptySeq DEF Init, Queue!Init
<1>1. QueueInv
  BY <1>0, NullIsNone, ConstantTypes DEF Init, QueueInv, OrderInv, CallbackInv
<1>2. LogInv
  <2>1. elements = <<>> /\ head = 0 /\ eMC_LOG_x = "OFF" /\ err_total = 0
    BY DEF Init, Log!LogInit
  <2>2. Log!Indexes = {} /\ Log!Logged = {}
    BY <2>1 DEF Log!Indexes, Log!Logged
  <2>3. Log!Cardinality(Log!Indexes) = 0
    BY <2>2, FS_EmptySet, LogOperators
  <2>4. failures \in [LogKeys -> Nat]
    BY DEF Init
  <2> QED
    BY <2>1, <2>2, <2>3, <2>4 DEF LogInv, Log!LogTypeOK, LogKeysDistinct, LoggedKeys
<1>3. LineInv
  BY FrameFields DEF Init, LineInv, BagToSet, EmptyBag, SetToBag
<1>4. ControlInv
  BY DEF Init, ControlInv, ServingInv, Serving, Outcomes
<1>5. OutcomeInv
  BY <1>0, NullIsNone DEF Init, OutcomeInv, Requests
<1> QED
  BY <1>1, <1>2, <1>3, <1>4, <1>5
  DEF IInv, TypeInv, TypeOK, QueueInv, LogInv, LineInv, ControlInv

LEMMA StepInv == IInv /\ [Next]_vars => IInv'
BY QueueInvStep, LogInvStep, LineInvStep, ControlInvStep, OutcomeInvStep, Parts

LEMMA Invariance == Spec => []IInv
BY InitInv, StepInv, PTL DEF Spec

LEMMA IInvSafe == IInv => TypeOK /\ NothingLost /\ LogKeysDistinct
<1> SUFFICES ASSUME IInv, NEW r \in 1 .. added
             PROVE  Queued(r) \/ Awaited(r) \/ outcome[r] # "none"
  BY DEF IInv, TypeInv, NothingLost
<1> DEFINE id == fetched.body.id
<1>1. /\ OrderInv /\ OutcomeInv /\ QueueInv
      /\ id \in 0 .. MaxAdds /\ MaxAdds \in Nat
  BY Parts, ConstantTypes DEF QueueInv
<1>2. /\ added = id + Len(fifo) /\ Len(fifo) \in Nat /\ r \in Requests
      /\ \A k \in 1 .. Len(fifo) : fifo[k].body.id = id + k
  BY <1>1, LenProperties DEF QueueInv, OrderInv, Requests
<1>3. CASE r > id
  <2>1. r - id \in 1 .. Len(fifo) /\ id + (r - id) = r
    BY <1>1, <1>2, <1>3
  <2> QED
    BY <1>2, <2>1 DEF Queued
<1>4. CASE r <= id
  BY <1>1, <1>2, <1>4 DEF OutcomeInv, Awaited
<1> QED
  BY <1>1, <1>3, <1>4

(***************************************************************************)
(* Every variable keeps its type: the retries never exceed their limit by  *)
(* more than the one a wait may add, the list never overflows, the log     *)
(* stays in its array, whatever the application and the line do.           *)
(***************************************************************************)
THEOREM TypeCorrect == Spec => []TypeOK
BY Invariance, IInvSafe, PTL

(***************************************************************************)
(* No request is lost, not even when the list changes the header of the    *)
(* request being served: it is in the list, being served, or it has ended. *)
(***************************************************************************)
THEOREM NoRequestLost == Spec => []NothingLost
BY Invariance, IInvSafe, PTL

(***************************************************************************)
(* The log has one entry per request it tells apart, whatever the lookup   *)
(* in an empty table returns and however often the log is cleared: but for *)
(* requests for 0x8000 registers or more, of which the lookup, comparing   *)
(* an int16_t with an uint16_t, finds no entry again.                      *)
(***************************************************************************)
THEOREM LogEntriesDistinct == Spec => []LogKeysDistinct
BY Invariance, IInvSafe, PTL

-----------------------------------------------------------------------------
(***************************************************************************)
(* While the application leaves room in the list, the request that is      *)
(* served is the one that was added.                                       *)
(***************************************************************************)
LEMMA ServedRequestKept ==
    ASSUME LeavesRoom, IInv, [Next]_vars, Serving
    PROVE  fetched' = fetched
<1>1. CASE BeginRequest
  BY <1>1, BeginStep DEF Serving
<1>2. CASE \E a \in Addresses, f \in Functions : RequestAdd(a, f)
  BY <1>2, AddStep
<1>3. CASE UNCHANGED fetched
  BY <1>3
<1> QED
  BY <1>1, <1>2, <1>3
  DEF Next, Run, Application, UseLog, SkipUnsupported, TransmitRefused, Transmit,
      TransmitCompleted, TurnaroundTick, TurnaroundOver, WaitExpired, FrameGoesOn,
      FrameEnds, Poll, GiveUp, RetryRequest, Complete, RequestAddFails,
      Queue!RefuseFull, RequestCallbackAdd, Queue!AttachCallback, vars, queueVars

LEMMA ListedHeadersStep ==
    ASSUME IInv, ListedHeaders, [Next]_vars
    PROVE  ListedHeaders'
<1>1. Len(fifo) \in Nat
  BY Parts, LenProperties DEF QueueInv
<1>2. CASE UNCHANGED fifo
  BY <1>2 DEF ListedHeaders
<1>3. CASE BeginRequest
  <2>1. CASE UNCHANGED fifo
    BY <1>2, <2>1
  <2>2. CASE /\ Len(fifo') = Len(fifo) - 1
             /\ \A k \in 1 .. Len(fifo') : fifo'[k] = fifo[k + 1]
    <3>1. ASSUME NEW k \in 1 .. Len(fifo')
          PROVE  k + 1 \in 1 .. Len(fifo) /\ fifo'[k] = fifo[k + 1]
      BY <1>1, <2>2, <3>1
    <3> QED
      BY <3>1 DEF ListedHeaders
  <2> QED
    BY <1>3, <2>1, <2>2, BeginStep
<1>4. ASSUME NEW a \in Addresses, NEW f \in Functions, RequestAdd(a, f)
      PROVE  ListedHeaders'
  <2>1. /\ Len(fifo') = Len(fifo) + 1
        /\ \A k \in 1 .. Len(fifo) : fifo'[k] = fifo[k]
        /\ fifo'[Len(fifo')].header = fifo'[Len(fifo')].body.dest
    BY <1>4, AddStep
  <2>2. \A k \in 1 .. Len(fifo') : k \in 1 .. Len(fifo) \/ k = Len(fifo')
    BY <1>1, <2>1
  <2> QED
    BY <2>1, <2>2 DEF ListedHeaders
<1>5. CASE RequestCallbackAdd
  BY <1>5, CallbackAddStep DEF ListedHeaders
<1> QED
  BY <1>2, <1>3, <1>4, <1>5
  DEF Next, Run, Application, UseLog, SkipUnsupported, TransmitRefused, Transmit,
      TransmitCompleted, TurnaroundTick, TurnaroundOver, WaitExpired, FrameGoesOn,
      FrameEnds, Poll, GiveUp, RetryRequest, Complete, RequestAddFails,
      Queue!RefuseFull, vars, queueVars

(***************************************************************************)
(* The request that is served: its header, its transmissions, its retries  *)
(* and the frame that is taken for its answer.                             *)
(***************************************************************************)
LEMMA NotServing ==
    ASSUME state' = "IDLE", retry' = 0
    PROVE  ServedInv'
BY DEF ServedInv, Serving, TurnInv, BroadcastNotAwaited, SendsInv, ReceptionInv

\* Steps after which the service is where it was, but for a frame thrown away.
LEMMA ServiceUnchanged ==
    ASSUME LeavesRoom, IInv, ServedInv, [Next]_vars,
           UNCHANGED <<state, retry, sends, outcome>>, rx' = rx \/ state = "IDLE"
    PROVE  ServedInv'
<1>1. CASE Serving
  <2>1. fetched' = fetched
    BY <1>1, ServedRequestKept
  <2> QED
    BY <2>1 DEF ServedInv, Serving, TurnInv, BroadcastNotAwaited, SendsInv, ReceptionInv
<1>2. CASE ~Serving
  BY <1>2, NotServing DEF Serving
<1> QED
  BY <1>1, <1>2

LEMMA ServedInvTransmit ==
    ASSUME IInv, ServedInv, ListedHeaders, Transmit
    PROVE  /\ ServedInv'
           /\ sends'[fetched'.body.id] = retry + 1 /\ retry + 1 <= ParamRetry + 1
<1> DEFINE id == fetched'.body.id
<1>1. /\ BeginRequest /\ state = "IDLE" /\ state' = "TRANSCOMPLT" /\ outcome' = outcome
      /\ rx' = NoFrame /\ retry' = retry /\ retry \in 0 .. ParamRetry
  BY BeginStep DEF Transmit
<1>2. CASE retry = 0
  <2>1. outcome[id] = "none" /\ sends[id] = 0
    BY <1>1, <1>2, ServiceBegins
  <2>2. sends'[id] = 1
    BY <1>1, <2>1, TransmitCount
  <2>3. fetched'.header = fetched'.body.dest
    BY <1>1, <1>2, BeginStep DEF ListedHeaders
  <2> QED
    BY <1>1, <1>2, <2>1, <2>2, <2>3
    DEF ServedInv, Serving, TurnInv, BroadcastNotAwaited, SendsInv, ReceptionInv
<1>3. CASE retry # 0
  <2>1. fetched' = fetched /\ Serving
    BY <1>1, <1>3, BeginStep DEF Serving
  <2>2. sends[id] = retry
    BY <1>1, <1>3, <2>1 DEF ServedInv, SendsInv
  <2>3. sends'[id] = retry + 1
    BY <1>1, <2>2, TransmitCount
  <2> QED
    BY <1>1, <1>3, <2>1, <2>3
    DEF ServedInv, Serving, TurnInv, BroadcastNotAwaited, SendsInv, ReceptionInv
<1> QED
  BY <1>2, <1>3

LEMMA ServedInvStep ==
    ASSUME LeavesRoom, IInv, ServedInv, ListedHeaders, [Next]_vars
    PROVE  ServedInv'
<1> USE Parts
<1>0. retry \in 0 .. ParamRetry + 1
  BY DEF ControlInv
<1>1. CASE UseLog \/ RequestAddFails \/ RequestCallbackAdd \/ TurnaroundTick \/ UNCHANGED vars
  BY <1>1, ServiceUnchanged DEF UseLog, RequestAddFails, RequestCallbackAdd, TurnaroundTick,
                                lineVars, vars
<1>2. CASE \E a \in Addresses, f \in Functions : RequestAdd(a, f)
  BY <1>2, ServiceUnchanged DEF RequestAdd, lineVars
<1>3. CASE SkipUnsupported
  <2>1. state' = "IDLE" /\ retry' = 0
    BY <1>3, BeginStep DEF SkipUnsupported
  <2> QED
    BY <2>1, NotServing
<1>4. CASE TransmitRefused
  <2>1. state' = state /\ state = "IDLE" /\ retry' = retry /\ sends' = sends
    BY <1>4, BeginStep DEF TransmitRefused
  <2>2. CASE retry = 0
    BY <2>1, <2>2, NotServing
  <2>3. CASE retry # 0
    BY <1>4, <2>1, <2>3, ServiceUnchanged DEF TransmitRefused
  <2> QED
    BY <2>2, <2>3
<1>5. CASE Transmit
  BY <1>5, ServedInvTransmit
<1>6. CASE TransmitCompleted
  BY <1>6 DEF TransmitCompleted, queueVars, lineVars, ServedInv, Serving, TurnInv,
              BroadcastNotAwaited, SendsInv, ReceptionInv
<1>7. CASE TurnaroundOver
  BY <1>7, NotServing DEF TurnaroundOver, ServedInv, TurnInv, BroadcastNotAwaited
<1>8. CASE WaitExpired
  <2>1. /\ state = "WAIT" /\ retry' = retry + 1
        /\ UNCHANGED <<fetched, sends, outcome, rx>>
        /\ state' = IF retry' >= ParamRetry THEN "PROCESS" ELSE "IDLE"
    BY <1>8 DEF WaitExpired, queueVars, lineVars
  <2> QED
    BY <1>0, <2>1 DEF ServedInv, Serving, TurnInv, BroadcastNotAwaited, SendsInv, ReceptionInv
<1>9. ASSUME NEW f \in Frames, FrameGoesOn(f) \/ FrameEnds(f)
      PROVE  ServedInv'
  <2>1. /\ state = "WAIT" /\ state' \in {"WAIT", "PROCESS"}
        /\ UNCHANGED <<fetched, retry, sends, outcome>>
        /\ rx' # NoFrame => rx'.from = fetched.header
    BY <1>9, PollStep DEF FrameGoesOn, FrameEnds, Poll, queueVars
  <2> QED
    BY <2>1 DEF ServedInv, Serving, TurnInv, BroadcastNotAwaited, SendsInv, ReceptionInv
<1>10. CASE GiveUp \/ Complete
  BY <1>10, NotServing DEF GiveUp, Complete
<1>11. CASE RetryRequest
  <2>1. /\ state = "PROCESS" /\ state' = "IDLE" /\ retry' = retry + 1 /\ retry < ParamRetry
        /\ UNCHANGED <<fetched, sends, outcome, rx>>
    BY <1>0, <1>11 DEF RetryRequest, RetriesUsedUp, queueVars, lineVars
  <2> QED
    BY <1>0, <2>1 DEF ServedInv, Serving, TurnInv, BroadcastNotAwaited, SendsInv, ReceptionInv
<1> QED
  BY <1>1, <1>2, <1>3, <1>4, <1>5, <1>6, <1>7, <1>8, <1>9, <1>10, <1>11
  DEF Next, Run, Application

LEMMA RetriesStep ==
    ASSUME LeavesRoom, IInv, ServedInv, ListedHeaders, RetriesInBudget, [Next]_vars
    PROVE  RetriesInBudget'
<1> USE Parts
<1>0. /\ retry \in 0 .. ParamRetry + 1 /\ ParamRetry \in Nat
      /\ sends \in [Requests -> 0 .. ParamRetry + 2]
      /\ outcome \in [Requests -> Outcomes]
  BY DEF ControlInv
<1>1. CASE UNCHANGED <<sends, outcome>>
  BY <1>1 DEF RetriesInBudget
<1>2. CASE Transmit
  <2> DEFINE id == fetched'.body.id
  <2>1. /\ id \in Requests /\ outcome' = outcome
        /\ \A r \in Requests : r # id => sends'[r] = sends[r]
        /\ sends'[id] <= ParamRetry + 1
    BY <1>2, TransmitCount, ServedInvTransmit DEF Transmit
  <2>2. outcome'[id] = "none"
    BY <1>2, ServedInvTransmit DEF ServedInv, Serving, Transmit
  <2> QED
    BY <2>1, <2>2 DEF RetriesInBudget
<1>3. ASSUME NEW id \in Requests, NEW o, outcome' = [outcome EXCEPT ![id] = o],
             sends' = sends, o = "timeout" => sends[id] >= ParamRetry,
             o = "broadcast" => sends[id] = 1
      PROVE  RetriesInBudget'
  <2>1. \A r \in Requests : outcome'[r] = IF r = id THEN o ELSE outcome[r]
    BY <1>0, <1>3
  <2> QED
    BY <1>3, <2>1 DEF RetriesInBudget
<1>4. CASE SkipUnsupported \/ TransmitRefused
  <2>1. fetched'.body.id \in Requests /\ sends' = sends
    BY <1>4, ServiceBegins DEF SkipUnsupported, TransmitRefused
  <2> QED
    BY <1>1, <1>3, <1>4, <2>1 DEF SkipUnsupported, TransmitRefused
<1>5. CASE TurnaroundOver
  <2>1. fetched.body.id \in Requests /\ sends[fetched.body.id] = 1
    BY <1>0, <1>5 DEF TurnaroundOver, ServedInv, Serving, TurnInv, BroadcastNotAwaited, SendsInv
  <2> QED
    BY <1>3, <1>5, <2>1 DEF TurnaroundOver
<1>6. CASE GiveUp
  <2>1. fetched.body.id \in Requests /\ sends[fetched.body.id] >= ParamRetry
    BY <1>0, <1>6 DEF GiveUp, RetriesUsedUp, ServedInv, Serving, SendsInv
  <2> QED
    BY <1>3, <1>6, <2>1 DEF GiveUp
<1>7. CASE Complete
  BY <1>3, <1>7 DEF Complete, Serving
<1> QED
  BY <1>1, <1>2, <1>4, <1>5, <1>6, <1>7
  DEF Next, Run, Application, UseLog, TransmitCompleted, TurnaroundTick, WaitExpired,
      FrameGoesOn, FrameEnds, Poll, RetryRequest, RequestAdd, RequestAddFails,
      RequestCallbackAdd, vars

LEMMA BlameStep ==
    ASSUME IInv, ServedInv, LogNeverOvercounts, state = "PROCESS",
           NEW err \in Log!Errors, LogFailure(err)
    PROVE  LogNeverOvercounts'
<1> USE Parts DEF LogInv
<1>1. CASE eMC_LOG_x = "ON"
  <2> DEFINE key == LogKey(fetched.header, fetched.body.func)
  <2>1. key \in LogKeys
    BY ServedKey
  <2>2. key = LogKey(fetched.body.dest, fetched.body.func)
    BY DEF ServedInv, Serving
  <2>3. Log!addMCL(key, err) /\ failures' = [failures EXCEPT ![key] = @ + 1]
    BY <1>1, <2>2 DEF LogFailure
  <2> HIDE DEF key
  <2>4. \A i \in (Log!Logged)' :
          \/ i \in Log!Logged /\ elements'[i] = elements[i]
          \/ elements'[i].key = key /\ elements'[i].error_count = 0
          \/ /\ i \in Log!Logged /\ elements[i].key = key
             /\ elements'[i].key = key
             /\ elements'[i].error_count = Log!Incremented(elements[i].error_count)
    BY <2>1, <2>3, LogStep
  <2>5. /\ failures[key] \in Nat /\ failures'[key] = failures[key] + 1
        /\ \A k \in LogKeys : k # key => failures'[k] = failures[k]
    BY <2>1, <2>3
  <2>6. \A i \in Log!Logged : elements[i].error_count \in Nat
    <3>1. ASSUME NEW i \in Log!Logged
          PROVE  elements[i] \in Log!Entry
      <4>1. head # 0
        BY <3>1 DEF Log!Logged
      <4> QED
        BY <3>1, <4>1, IndexesOfLog
    <3> QED
      BY <3>1 DEF Log!Entry
  <2>7. \A i \in Log!Logged : elements[i].error_count < failures[elements[i].key]
    BY DEF LogNeverOvercounts
  <2>8. \A n \in Nat : n < failures[key] => Log!Incremented(n) < failures[key] + 1
    BY <2>5 DEF Log!Incremented
  <2>9. ASSUME NEW i \in (Log!Logged)'
        PROVE  elements'[i].error_count < failures'[elements'[i].key]
    <3>1. CASE i \in Log!Logged /\ elements'[i] = elements[i] /\ elements[i].key = key
      <4>1. elements'[i].key = key /\ elements'[i].error_count \in Nat
            /\ elements'[i].error_count < failures[key]
        BY <2>6, <2>7, <3>1
      <4> QED
        BY <2>5, <4>1
    <3>2. CASE i \in Log!Logged /\ elements'[i] = elements[i] /\ elements[i].key # key
      <4>1. elements[i].key \in LogKeys
        BY <3>2 DEF LoggedKeys
      <4>2. failures'[elements[i].key] = failures[elements[i].key]
        BY <2>5, <3>2, <4>1
      <4> QED
        BY <2>7, <3>2, <4>2
    <3>3. CASE elements'[i].key = key /\ elements'[i].error_count = 0
      BY <2>5, <3>3
    <3>4. CASE /\ i \in Log!Logged /\ elements[i].key = key
               /\ elements'[i].key = key
               /\ elements'[i].error_count = Log!Incremented(elements[i].error_count)
      <4>1. elements[i].error_count \in Nat /\ elements[i].error_count < failures[key]
        BY <2>6, <2>7, <3>4
      <4>2. elements'[i].error_count < failures[key] + 1
        BY <2>8, <3>4, <4>1
      <4> QED
        BY <2>5, <3>4, <4>2
    <3> QED
      BY <2>4, <2>9, <3>1, <3>2, <3>3, <3>4
  <2> QED
    BY <2>9 DEF LogNeverOvercounts
<1>2. CASE eMC_LOG_x # "ON"
  BY <1>2 DEF LogFailure, logVars, LogNeverOvercounts, Log!Logged
<1> QED
  BY <1>1, <1>2

LEMMA OvercountStep ==
    ASSUME IInv, ServedInv, LogNeverOvercounts, [Next]_vars
    PROVE  LogNeverOvercounts'
<1>1. CASE UNCHANGED <<elements, head, failures>>
  BY <1>1 DEF LogNeverOvercounts, Log!Logged
<1>2. CASE head' = 0
  BY <1>2 DEF LogNeverOvercounts, Log!Logged
<1>3. CASE UseLog
  BY <1>1, <1>2, <1>3 DEF UseLog, Log!setLogFile, Log!clearMCL, Log!setMCLActivation
<1>4. CASE GiveUp \/ RetryRequest
  BY <1>4, BlameStep DEF GiveUp, RetryRequest, Log!Errors
<1> QED
  BY <1>1, <1>3, <1>4
  DEF Next, Run, Application, SkipUnsupported, TransmitRefused, Transmit, BeginRequest,
      TransmitCompleted, TurnaroundTick, TurnaroundOver, WaitExpired, FrameGoesOn,
      FrameEnds, Poll, Complete, RequestAdd, RequestAddFails, RequestCallbackAdd,
      vars, logVars

LEMMA InitRoom == Init => RoomInv
<1> SUFFICES ASSUME Init
             PROVE  RoomInv
  OBVIOUS
<1>1. fifo = <<>> /\ Len(fifo) = 0
  BY EmptySeq DEF Init, Queue!Init
<1>2. ListedHeaders
  BY <1>1 DEF ListedHeaders
<1>3. ServedInv
  BY DEF Init, ServedInv, Serving, TurnInv, BroadcastNotAwaited, SendsInv, ReceptionInv
<1>4. RetriesInBudget
  BY DEF Init, RetriesInBudget
<1>5. LogNeverOvercounts
  BY DEF Init, Log!LogInit, LogNeverOvercounts, Log!Logged
<1> QED
  BY <1>2, <1>3, <1>4, <1>5 DEF RoomInv

LEMMA RoomInvariance ==
    ASSUME LeavesRoom
    PROVE  Spec => [](IInv /\ RoomInv)
<1>1. Init => IInv /\ RoomInv
  BY InitInv, InitRoom
<1>2. IInv /\ RoomInv /\ [Next]_vars => IInv' /\ RoomInv'
  BY StepInv, ListedHeadersStep, ServedInvStep, RetriesStep, OvercountStep DEF RoomInv
<1> QED
  BY <1>1, <1>2, PTL DEF Spec

(***************************************************************************)
(* Retries are counted for one request: a request reported as timed out    *)
(* was transmitted ParamRetry times, or once more, none is transmitted     *)
(* more often, and a broadcast is transmitted once.                        *)
(***************************************************************************)
THEOREM RetriesKeptApart ==
    ASSUME LeavesRoom
    PROVE  Spec => []RetriesInBudget
BY RoomInvariance, PTL DEF RoomInv

(***************************************************************************)
(* The answer of a broadcast is never awaited, and the turnaround delay    *)
(* is never left to transmit it again.                                     *)
(***************************************************************************)
THEOREM NoBroadcastAwaited ==
    ASSUME LeavesRoom
    PROVE  Spec => []BroadcastNotAwaited
<1>1. RoomInv => BroadcastNotAwaited
  BY DEF RoomInv, ServedInv, TurnInv
<1> QED
  BY <1>1, RoomInvariance, PTL

(***************************************************************************)
(* The error log blames no slave for more failures than the requests the   *)
(* application added for it had.                                           *)
(***************************************************************************)
THEOREM NoSlaveOverblamed ==
    ASSUME LeavesRoom
    PROVE  Spec => []LogNeverOvercounts
BY RoomInvariance, PTL DEF RoomInv

(***************************************************************************)
(* A request whose service ended is neither served nor transmitted again.  *)
(***************************************************************************)
THEOREM RequestsServedOnce ==
    ASSUME LeavesRoom
    PROVE  Spec => ServedOnce
<1> DEFINE Kept == \A r \in Requests :
                      outcome[r] # "none" => /\ outcome'[r] = outcome[r]
                                             /\ sends'[r] = sends[r]
<1>1. IInv /\ RoomInv /\ [Next]_vars => [Kept]_vars
  <2> SUFFICES ASSUME IInv, RoomInv, Next
               PROVE  Kept
    OBVIOUS
  <2> USE Parts
  <2>1. /\ sends \in [Requests -> 0 .. ParamRetry + 2]
        /\ outcome \in [Requests -> Outcomes]
    BY DEF ControlInv
  <2>2. CASE UNCHANGED <<sends, outcome>>
    BY <2>2
  <2>3. ASSUME Serving, NEW o, outcome' = [outcome EXCEPT ![fetched.body.id] = o],
               sends' = sends
        PROVE  Kept
    <3>1. \A r \in Requests : r # fetched.body.id => outcome'[r] = outcome[r]
      BY <2>1, <2>3
    <3>2. outcome[fetched.body.id] = "none"
      BY <2>3 DEF RoomInv, ServedInv
    <3> QED
      BY <2>3, <3>1, <3>2
  <2>4. CASE TurnaroundOver \/ GiveUp \/ Complete
    BY <2>3, <2>4 DEF TurnaroundOver, GiveUp, Complete, Serving
  <2>5. ASSUME BeginRequest
        PROVE  outcome[fetched'.body.id] = "none" \/ (retry # 0 /\ fetched' = fetched /\ Serving)
    BY <2>5, ServiceBegins, BeginStep DEF Serving
  <2>6. ASSUME BeginRequest
        PROVE  outcome[fetched'.body.id] = "none"
    BY <2>5, <2>6 DEF RoomInv, ServedInv
  <2>7. ASSUME BeginRequest, sends' = sends, NEW o,
               outcome' = [outcome EXCEPT ![fetched'.body.id] = o]
        PROVE  Kept
    <3>1. \A r \in Requests : r # fetched'.body.id => outcome'[r] = outcome[r]
      BY <2>1, <2>7
    <3> QED
      BY <2>6, <2>7, <3>1
  <2>8. CASE SkipUnsupported \/ TransmitRefused
    BY <2>2, <2>7, <2>8 DEF SkipUnsupported, TransmitRefused
  <2>9. CASE Transmit
    BY <2>6, <2>9, TransmitCount DEF Transmit
  <2> QED
    BY <2>2, <2>4, <2>8, <2>9
    DEF Next, Run, Application, UseLog, TransmitCompleted, TurnaroundTick, WaitExpired,
        FrameGoesOn, FrameEnds, Poll, RetryRequest, RequestAdd, RequestAddFails,
        RequestCallbackAdd
<1> QED
  BY <1>1, RoomInvariance, PTL DEF Spec, ServedOnce

(***************************************************************************)
(* A request ends as answered only with a complete and correct frame from  *)
(* the slave it was added for, and the callback is that request's.         *)
(***************************************************************************)
THEOREM AnswersFromTheirSlaves ==
    ASSUME LeavesRoom
    PROVE  Spec => AnswerFromItsSlave
<1> DEFINE Answered == \A r \in Requests :
               outcome[r] = "none" /\ outcome'[r] = "answered" =>
                  /\ fetched.body.id = r
                  /\ fetched.cb \in {0, r}
                  /\ rx.from = fetched.body.dest
                  /\ rx.kind = "response"
                  /\ rx.size = FrameSize
<1>1. IInv /\ RoomInv /\ [Next]_vars => [Answered]_vars
  <2> SUFFICES ASSUME IInv, RoomInv, Next, NEW r \in Requests,
                      outcome[r] = "none", outcome'[r] = "answered"
               PROVE  /\ fetched.body.id = r
                      /\ fetched.cb \in {0, r}
                      /\ rx.from = fetched.body.dest
                      /\ rx.kind = "response"
                      /\ rx.size = FrameSize
    OBVIOUS
  <2> USE Parts
  <2>1. outcome \in [Requests -> Outcomes]
    BY DEF ControlInv
  <2>2. Complete
    <3>1. ASSUME NEW id, NEW o, o # "answered", outcome' = [outcome EXCEPT ![id] = o]
          PROVE  FALSE
      BY <2>1, <3>1
    <3>2. outcome' # outcome
      OBVIOUS
    <3> QED
      BY <3>1, <3>2
      DEF Next, Run, Application, UseLog, SkipUnsupported, TransmitRefused, Transmit,
          TransmitCompleted, TurnaroundTick, TurnaroundOver, WaitExpired, FrameGoesOn,
          FrameEnds, Poll, GiveUp, RetryRequest, RequestAdd, RequestAddFails,
          RequestCallbackAdd
  <2>3. fetched.body.id = r
    BY <2>1, <2>2 DEF Complete
  <2>4. fetched.cb \in {0, r}
    BY <2>3 DEF IInv, CallbackInv
  <2>5. Serving /\ state = "PROCESS" /\ Intact /\ rx.kind # "exception"
    BY <2>2 DEF Complete, Serving, Failed
  <2>6. rx \in Frames /\ rx # NoFrame
    BY <2>5, ConstantTypes DEF LineInv, Intact, NoFrame
  <2>7. rx.kind = "response" /\ rx.size = FrameSize
    BY <2>5, <2>6, ConstantTypes DEF Frames, Intact
  <2>8. rx.from = fetched.body.dest
    BY <2>5, <2>6 DEF RoomInv, ServedInv, ReceptionInv
  <2> QED
    BY <2>3, <2>4, <2>7, <2>8
<1> QED
  BY <1>1, RoomInvariance, PTL DEF Spec, AnswerFromItsSlave

(***************************************************************************)
(* Every transmission goes to the slave the request was added for: what    *)
(* the comment at mcserial.h:53 promises is true of such an application.   *)
(***************************************************************************)
THEOREM TransmissionsToTheirSlaves ==
    ASSUME LeavesRoom
    PROVE  Spec => SentToItsSlave
<1>1. IInv /\ RoomInv /\ [Next]_vars => [Transmit => fetched'.header = fetched'.body.dest]_vars
  <2> SUFFICES ASSUME IInv, RoomInv, Transmit
               PROVE  fetched'.header = fetched'.body.dest
    OBVIOUS
  <2> QED
    BY ServedInvTransmit DEF RoomInv, ServedInv, Serving, Transmit
<1> QED
  BY <1>1, RoomInvariance, PTL DEF Spec, SentToItsSlave
-----------------------------------------------------------------------------
(***************************************************************************)
(* Time.  The calls of the retries that are left after r.                  *)
(***************************************************************************)
Trials(r) == (IF r < ParamRetry THEN ParamRetry - r ELSE 0) * Trial

\* For the provers: a product with a factor one less.
LEMMA OneLess ==
    ASSUME NEW n \in Nat, NEW m \in Nat, NEW t \in Nat, m <= n
    PROVE  n * t \in Nat /\ m * t <= n * t /\ (m + 1) * t = m * t + t
<1>1. n = m + (n - m) /\ n - m \in Nat
  OBVIOUS
<1>2. \A d \in Nat : (m + d) * t = m * t + d * t /\ d * t \in Nat
  OBVIOUS
<1> QED
  BY <1>1, <1>2

LEMMA TrialsLeft ==
    ASSUME NEW r \in Nat
    PROVE  /\ Trials(r) \in Nat /\ Trials(r) <= ParamRetry * Trial
           /\ r < ParamRetry => Trials(r) = Trials(r + 1) + Trial
           /\ r >= ParamRetry => Trials(r) = 0
           /\ ParamRetry * Trial \in Nat
           /\ Trials(0) = ParamRetry * Trial
<1>1. Trial \in Nat /\ ParamRetry \in Nat
  BY DEF Trial
<1> HIDE DEF Trial
<1>2. ParamRetry * Trial \in Nat /\ 0 * Trial = 0
  BY <1>1, OneLess
<1>3. Trials(0) = ParamRetry * Trial
  <2>1. (IF 0 < ParamRetry THEN ParamRetry - 0 ELSE 0) = ParamRetry
    BY <1>1
  <2> QED
    BY <2>1 DEF Trials
<1>4. CASE r < ParamRetry
  <2>1. PICK m \in Nat : m = ParamRetry - (r + 1)
    BY <1>1, <1>4
  <2>2. (IF r < ParamRetry THEN ParamRetry - r ELSE 0) = m + 1
        /\ (IF r + 1 < ParamRetry THEN ParamRetry - (r + 1) ELSE 0) = m
    BY <1>1, <1>4, <2>1
  <2>3. Trials(r) = (m + 1) * Trial /\ Trials(r + 1) = m * Trial
    BY <2>2 DEF Trials
  <2>4. PICK k \in Nat : k = m + 1 /\ k <= ParamRetry
    BY <1>1, <1>4, <2>1
  <2>5. k * Trial \in Nat /\ k * Trial <= ParamRetry * Trial
    BY <1>1, <2>4, OneLess
  <2>6. (m + 1) * Trial = m * Trial + Trial
    BY <1>1, OneLess
  <2> QED
    BY <1>1, <1>2, <1>3, <1>4, <2>3, <2>4, <2>5, <2>6
<1>5. CASE ~(r < ParamRetry)
  <2>1. Trials(r) = 0 * Trial
    BY <1>5 DEF Trials
  <2> QED
    BY <1>1, <1>2, <1>3, <1>5, <2>1
<1> QED
  BY <1>4, <1>5

LEMMA MaxOfNaturals ==
    ASSUME NEW a \in Nat, NEW b \in Nat
    PROVE  Max({a, b}) \in Nat /\ a <= Max({a, b}) /\ b <= Max({a, b})
<1> DEFINE S == {a, b}
<1>1. \E x \in S : \A y \in S : x >= y
  OBVIOUS
<1>2. Max(S) \in S /\ \A y \in S : Max(S) >= y
  BY <1>1 DEF Max
<1> QED
  BY <1>2

LEMMA LongestService ==
    /\ MaxService \in Nat
    /\ ParamRetry * Trial + ParamWfr + 3 <= MaxService
    /\ ParamTad + 2 <= MaxService
<1> DEFINE p == ParamRetry * Trial
<1>1. p \in Nat
  BY TrialsLeft
<1> HIDE DEF p
<1>2. PICK a \in Nat, b \in Nat : a = p + ParamWfr + 3 /\ b = ParamTad + 2
  BY <1>1
<1>3. MaxService = Max({a, b})
  BY <1>2 DEF MaxService, p
<1> QED
  BY <1>2, <1>3, MaxOfNaturals DEF p

LEMMA LeftNow ==
    /\ state = "IDLE" => ServiceLeft = IF retry = 0 THEN 0 ELSE Trials(retry) + Trial
    /\ state = "TRANSCOMPLT" =>
          ServiceLeft = IF fetched.body.dest = Broadcast
                        THEN ParamTad - timer_tad + 2
                        ELSE Trials(retry) + ParamWfr - timer_wfr + 3
    /\ state = "TURN" => ServiceLeft = ParamTad - timer_tad + 1
    /\ state = "WAIT" => ServiceLeft = Trials(retry) + ParamWfr - timer_wfr + 2
    /\ state = "PROCESS" => ServiceLeft = Trials(retry) + 1
BY Zenon DEF ServiceLeft, RetriesLeft, Trials

LEMMA LeftNext ==
    /\ state' = "IDLE" => ServiceLeft' = IF retry' = 0 THEN 0 ELSE Trials(retry') + Trial
    /\ state' = "TRANSCOMPLT" =>
          ServiceLeft' = IF fetched'.body.dest = Broadcast
                         THEN ParamTad - timer_tad' + 2
                         ELSE Trials(retry') + ParamWfr - timer_wfr' + 3
    /\ state' = "TURN" => ServiceLeft' = ParamTad - timer_tad' + 1
    /\ state' = "WAIT" => ServiceLeft' = Trials(retry') + ParamWfr - timer_wfr' + 2
    /\ state' = "PROCESS" => ServiceLeft' = Trials(retry') + 1
BY Zenon DEF ServiceLeft, RetriesLeft, Trials

\* The numbers of a step.
LEMMA Numbers ==
    ASSUME IInv
    PROVE  /\ retry \in Nat /\ timer_wfr \in 0 .. ParamWfr /\ timer_tad \in 0 .. ParamTad
           /\ state \in {"IDLE", "TRANSCOMPLT", "TURN", "WAIT", "PROCESS"}
           /\ Trials(retry) \in Nat /\ Trial \in Nat /\ Trial = ParamWfr + 4
           /\ ParamWfr \in Nat /\ ParamTad \in Nat /\ MaxService \in Nat
<1>1. /\ retry \in Nat /\ timer_wfr \in 0 .. ParamWfr /\ timer_tad \in 0 .. ParamTad
      /\ state \in {"IDLE", "TRANSCOMPLT", "TURN", "WAIT", "PROCESS"}
  BY Parts DEF ControlInv
<1>2. Trials(retry) \in Nat
  BY <1>1, TrialsLeft
<1> QED
  BY <1>1, <1>2, LongestService DEF Trial

LEMMA ServingCalls ==
    ASSUME IInv
    PROVE  ServiceLeft \in Nat /\ (Serving <=> ServiceLeft > 0)
<1> USE Numbers
<1> HIDE DEF Trial
<1>1. CASE state = "IDLE"
  BY <1>1, LeftNow DEF Serving
<1>2. CASE state = "TRANSCOMPLT"
  BY <1>2, LeftNow DEF Serving
<1>3. CASE state = "TURN"
  BY <1>3, LeftNow DEF Serving
<1>4. CASE state = "WAIT"
  BY <1>4, LeftNow DEF Serving
<1>5. CASE state = "PROCESS"
  BY <1>5, LeftNow DEF Serving
<1> QED
  BY <1>1, <1>2, <1>3, <1>4, <1>5

LEMMA ApplicationCalls ==
    ASSUME LeavesRoom, IInv, [Next]_vars, UNCHANGED <<state, retry, timer_tad, timer_wfr>>
    PROVE  ServiceLeft' = ServiceLeft
<1>1. CASE Serving
  <2>1. fetched' = fetched
    BY <1>1, ServedRequestKept
  <2> QED
    BY <2>1, Zenon DEF ServiceLeft, RetriesLeft
<1>2. CASE ~Serving
  <2>1. state = "IDLE" /\ retry = 0 /\ state' = "IDLE" /\ retry' = 0
    BY <1>2 DEF Serving
  <2> QED
    BY <2>1, LeftNow, LeftNext
<1> QED
  BY <1>1, <1>2

LEMMA BeginCalls ==
    ASSUME IInv, RoomInv, SkipUnsupported \/ TransmitRefused \/ Transmit,
           ServiceLeft <= MaxService
    PROVE  /\ ServiceLeft' <= MaxService
           /\ \/ ServiceLeft = 0
              \/ ServiceLeft' < ServiceLeft
              \/ TransmitRefused /\ ServiceLeft' = ServiceLeft
<1>1. /\ BeginRequest /\ state = "IDLE" /\ retry' = retry
      /\ timer_wfr' = 0 /\ timer_tad' = 0
      /\ retry # 0 => fetched' = fetched /\ fetched.body.func \in Supported
      /\ retry # 0 => fetched.body.dest # Broadcast
      /\ retry \in Nat
  BY BeginStep, Numbers DEF SkipUnsupported, TransmitRefused, Transmit, RoomInv, ServedInv,
                            TurnInv
<1>2. ServiceLeft = IF retry = 0 THEN 0 ELSE Trials(retry) + Trial
  BY <1>1, LeftNow
<1>3. CASE SkipUnsupported
  <2>1. retry = 0 /\ state' = "IDLE" /\ retry' = 0
    BY <1>1, <1>3 DEF SkipUnsupported
  <2>2. ServiceLeft' = 0 /\ ServiceLeft = 0
    BY <1>2, <2>1, LeftNext
  <2> QED
    BY <2>2, Numbers
<1>4. CASE TransmitRefused
  <2>1. state' = "IDLE"
    BY <1>1, <1>4 DEF TransmitRefused
  <2>2. ServiceLeft' = IF retry = 0 THEN 0 ELSE Trials(retry) + Trial
    BY <1>1, <2>1, LeftNext
  <2> QED
    BY <1>2, <1>4, <2>2
<1>5. CASE Transmit
  <2>1. state' = "TRANSCOMPLT"
    BY <1>5 DEF Transmit
  <2>2. ServiceLeft' = IF fetched'.body.dest = Broadcast
                       THEN ParamTad - 0 + 2
                       ELSE Trials(retry) + ParamWfr - 0 + 3
    BY <1>1, <2>1, LeftNext
  <2>3. CASE retry = 0
    <3>1. ServiceLeft' = ParamTad + 2 \/ ServiceLeft' = ParamRetry * Trial + ParamWfr + 3
      BY <2>2, <2>3, Numbers, TrialsLeft
    <3>2. ServiceLeft = 0
      BY <1>2, <2>3
    <3> QED
      BY <3>1, <3>2, LongestService
  <2>4. CASE retry # 0
    <3>1. ServiceLeft' = Trials(retry) + ParamWfr + 3
      BY <1>1, <2>2, <2>4, Numbers
    <3>2. ServiceLeft = Trials(retry) + Trial
      BY <1>2, <2>4
    <3>3. PICK n \in Nat : n = Trials(retry) + ParamWfr + 3
      BY Numbers
    <3>4. ServiceLeft' = n /\ ServiceLeft = n + 1
      BY <3>1, <3>2, <3>3, Numbers
    <3> QED
      BY <3>4, Numbers
  <2> QED
    BY <2>3, <2>4
<1> QED
  BY <1>3, <1>4, <1>5

LEMMA TransmittedCalls ==
    ASSUME IInv, RoomInv, TransmitCompleted \/ TurnaroundTick \/ TurnaroundOver
    PROVE  ServiceLeft' < ServiceLeft
<1> USE Numbers
<1>1. CASE TransmitCompleted
  <2>1. /\ state = "TRANSCOMPLT" /\ fetched' = fetched
        /\ state' = IF fetched.body.dest = Broadcast THEN "TURN" ELSE "WAIT"
        /\ retry' = retry /\ timer_wfr' = timer_wfr /\ timer_tad' = timer_tad
    BY <1>1 DEF TransmitCompleted, RoomInv, ServedInv, Serving, queueVars
  <2>2. CASE fetched.body.dest = Broadcast
    <3>1. ServiceLeft' = ParamTad - timer_tad + 1
      BY <2>1, <2>2, LeftNext
    <3>2. ServiceLeft = ParamTad - timer_tad + 2
      BY <2>1, <2>2, LeftNow
    <3> QED
      BY <3>1, <3>2
  <2>3. CASE fetched.body.dest # Broadcast
    <3>1. ServiceLeft' = Trials(retry) + ParamWfr - timer_wfr + 2
      BY <2>1, <2>3, LeftNext
    <3>2. ServiceLeft = Trials(retry) + ParamWfr - timer_wfr + 3
      BY <2>1, <2>3, LeftNow
    <3> QED
      BY <3>1, <3>2
  <2> QED
    BY <2>2, <2>3
<1>2. CASE TurnaroundTick
  <2>1. state = "TURN" /\ state' = "TURN" /\ timer_tad' = timer_tad + 1
    BY <1>2 DEF TurnaroundTick
  <2>2. ServiceLeft' = ParamTad - (timer_tad + 1) + 1 /\ ServiceLeft = ParamTad - timer_tad + 1
    BY <2>1, LeftNow, LeftNext
  <2> QED
    BY <2>2
<1>3. CASE TurnaroundOver
  <2>1. state = "TURN" /\ state' = "IDLE" /\ retry = 0 /\ retry' = 0
    BY <1>3 DEF TurnaroundOver, RoomInv, ServedInv, TurnInv, BroadcastNotAwaited
  <2>2. ServiceLeft' = 0 /\ ServiceLeft = ParamTad - timer_tad + 1
    BY <2>1, LeftNow, LeftNext
  <2> QED
    BY <2>2
<1> QED
  BY <1>1, <1>2, <1>3

LEMMA WaitCalls ==
    ASSUME IInv, WaitExpired \/ \E f \in Frames : FrameGoesOn(f) \/ FrameEnds(f)
    PROVE  ServiceLeft' < ServiceLeft
<1> USE Numbers
<1>1. state = "WAIT"
  BY DEF WaitExpired, FrameGoesOn, FrameEnds, Poll
<1>2. ServiceLeft = Trials(retry) + ParamWfr - timer_wfr + 2
  BY <1>1, LeftNow
<1>3. CASE WaitExpired
  <2>1. PICK r \in Nat : r = retry + 1
    OBVIOUS
  <2>2. retry' = r /\ state' = IF r >= ParamRetry THEN "PROCESS" ELSE "IDLE"
    BY <1>3, <2>1 DEF WaitExpired
  <2>3. Trials(r) \in Nat /\ (r >= ParamRetry => Trials(r) = 0)
    BY TrialsLeft
  <2>4. r < ParamRetry => Trials(retry) = Trials(r) + Trial
    <3>1. r < ParamRetry => Trials(retry) = Trials(retry + 1) + Trial
      BY <2>1, TrialsLeft
    <3> QED
      BY <2>1, <3>1
  <2>5. CASE r >= ParamRetry
    <3>1. ServiceLeft' = Trials(r) + 1
      BY <2>2, <2>5, LeftNext
    <3> QED
      BY <1>2, <2>3, <2>5, <3>1
  <2>6. CASE r < ParamRetry
    <3>1. ServiceLeft' = Trials(r) + Trial
      BY <2>1, <2>2, <2>6, LeftNext
    <3> QED
      BY <1>2, <2>3, <2>4, <2>6, <3>1
  <2> QED
    BY <2>5, <2>6
<1>4. CASE \E f \in Frames : FrameGoesOn(f) \/ FrameEnds(f)
  <2>1. /\ state' \in {"WAIT", "PROCESS"} /\ retry' = retry
        /\ timer_wfr + 1 <= ParamWfr /\ timer_wfr' = timer_wfr + 1
    BY <1>4 DEF FrameGoesOn, FrameEnds, Poll
  <2>2. CASE state' = "WAIT"
    <3>1. ServiceLeft' = Trials(retry) + ParamWfr - (timer_wfr + 1) + 2
      BY <2>1, <2>2, LeftNext
    <3> QED
      BY <1>2, <3>1
  <2>3. CASE state' = "PROCESS"
    <3>1. ServiceLeft' = Trials(retry) + 1
      BY <2>1, <2>3, LeftNext
    <3> QED
      BY <1>2, <3>1
  <2> QED
    BY <2>1, <2>2, <2>3
<1> QED
  BY <1>3, <1>4

LEMMA ProcessCalls ==
    ASSUME IInv, GiveUp \/ RetryRequest \/ Complete
    PROVE  ServiceLeft' < ServiceLeft
<1> USE Numbers
<1>1. state = "PROCESS" /\ state' = "IDLE"
  BY DEF GiveUp, RetryRequest, Complete
<1>2. ServiceLeft = Trials(retry) + 1
  BY <1>1, LeftNow
<1>3. CASE GiveUp \/ Complete
  <2>1. retry' = 0
    BY <1>3 DEF GiveUp, Complete
  <2>2. ServiceLeft' = 0
    BY <1>1, <2>1, LeftNext
  <2> QED
    BY <1>2, <2>2
<1>4. CASE RetryRequest
  <2>1. retry' = retry + 1 /\ retry < ParamRetry
    BY <1>4 DEF RetryRequest, RetriesUsedUp
  <2>2. PICK r \in Nat : r = retry + 1
    OBVIOUS
  <2>3. Trials(r) \in Nat
    BY TrialsLeft
  <2>4. Trials(retry) = Trials(r) + Trial
    BY <2>1, <2>2, TrialsLeft
  <2>5. retry' = r /\ r # 0
    BY <2>1, <2>2
  <2>6. ServiceLeft' = Trials(r) + Trial
    BY <1>1, <2>5, LeftNext
  <2> QED
    BY <1>2, <2>3, <2>4, <2>6
<1> QED
  BY <1>3, <1>4

(***************************************************************************)
(* ServiceBounded: whatever the slaves answer and whatever is on the line, *)
(* every call of Run but those in which the driver refuses to transmit     *)
(* takes the request that is served nearer to its end, and the application *)
(* does not put it off.                                                    *)
(***************************************************************************)
THEOREM ServiceIsBounded ==
    ASSUME LeavesRoom
    PROVE  Spec => ServiceBounded
<1> DEFINE InTime == ServiceLeft <= MaxService
           Counted == ServiceLeft \in Nat
           Nearer == /\ ServiceLeft' <= MaxService
                     /\ \/ ServiceLeft = 0
                        \/ ServiceLeft' < ServiceLeft
                        \/ (Application \/ TransmitRefused) /\ ServiceLeft' = ServiceLeft
<1>1. IInv /\ Counted' /\ RoomInv /\ InTime /\ Next => Nearer
  <2> SUFFICES ASSUME IInv, Counted', RoomInv, InTime, Next
               PROVE  Nearer
    OBVIOUS
  <2>1. ServiceLeft \in Nat /\ MaxService \in Nat
    BY ServingCalls, LongestService
  <2>2. PICK n \in Nat : ServiceLeft' = n
    OBVIOUS
  <2>3. CASE Application
    <3>1. UNCHANGED <<state, retry, timer_tad, timer_wfr>>
      BY <2>3 DEF Application, UseLog, RequestAdd, RequestAddFails, RequestCallbackAdd
    <3> QED
      BY <2>1, <2>3, <3>1, ApplicationCalls
  <2>4. CASE SkipUnsupported \/ TransmitRefused \/ Transmit
    BY <2>4, BeginCalls
  <2>5. ASSUME ServiceLeft' < ServiceLeft
        PROVE  Nearer
    BY <2>1, <2>2, <2>5
  <2> QED
    BY <2>3, <2>4, <2>5, TransmittedCalls, WaitCalls, ProcessCalls DEF Next, Run
<1>2. Init => InTime
  <2> SUFFICES ASSUME Init PROVE InTime
    OBVIOUS
  <2>1. ServiceLeft = 0
    BY LeftNow DEF Init
  <2> QED
    BY <2>1, LongestService
<1>3. IInv /\ UNCHANGED vars => ServiceLeft' = ServiceLeft
  BY Zenon DEF ServiceLeft, RetriesLeft, vars
<1>4. IInv /\ Counted' /\ RoomInv /\ InTime /\ [Next]_vars => InTime' /\ [Nearer]_vars
  <2>1. (ServiceLeft <= MaxService)' <=> ServiceLeft' <= MaxService
    BY DEF MaxService
  <2> QED
    BY <1>1, <1>3, <2>1
<1>5. IInv => Counted
  BY ServingCalls
<1> HIDE DEF InTime, Nearer, Counted
<1>6. Spec => [][Nearer]_vars
  BY <1>2, <1>4, <1>5, RoomInvariance, PTL DEF Spec
<1> QED
  BY <1>6 DEF ServiceBounded, Nearer

===============================================================================
