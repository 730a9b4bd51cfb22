---------------------------- MODULE RequestQueue ----------------------------
(***************************************************************************)
(* The request list of both Modbus clients, request_structure.c: a ring of *)
(* QueueLen ModbusRequest_t slots and the Queue_t that indexes it.  Every  *)
(* call (modbusRequestAdd, modbusRequestFetch, the CallbackAdd functions)  *)
(* is one action.                                                          *)
(*                                                                         *)
(* Every slot owns the storage of one ADU header: enqueueMC copies the     *)
(* caller's header into it and dequeueMC hands out its address.  The       *)
(* fetched request therefore names a slot, not a header.                   *)
(***************************************************************************)
EXTENDS Integers, FiniteSetsExt

CONSTANTS
    QueueLen,
    Headers,
    Bodies,
    Callbacks,
    CallBackNull,
    NoHeader,
    NoBody,
    CharIsSigned     \* whether plain char is signed in the build

ASSUME QueueLenAssumption == QueueLen \in Nat \ {0}

ASSUME CharAssumption == CharIsSigned \in BOOLEAN

ASSUME NullAssumption ==
    /\ NoHeader \notin Headers
    /\ NoBody \notin Bodies
    /\ CallBackNull \notin Callbacks

VARIABLES
    slot,       \* requestList
    head,       \* queue.head: the slot the next request is offered to
    tail,       \* queue.tail: the slot the next fetch looks at
    used,       \* queue.field_used
    fetched,    \* the static request of modbusRequestFetch
    result      \* what the latest modbusRequestAdd returned

vars == <<slot, head, tail, used, fetched, result>>

Slots == 0 .. QueueLen - 1

\* header pointer of a request that has none
NULL == -1

Slot == [status : {"QUEUE_EMPTY", "QUEUE_FULL"},
         header : Headers \cup {NoHeader},
         body   : Bodies \cup {NoBody},
         cb     : Callbacks \cup {CallBackNull}]

FetchedRequest == [header : Slots \cup {NULL},
                   body   : Bodies \cup {NoBody},
                   cb     : Callbacks \cup {CallBackNull}]

TypeOK ==
    /\ slot \in [Slots -> Slot]
    /\ head \in Slots
    /\ tail \in Slots
    /\ used \in 0 .. QueueLen
    /\ fetched \in FetchedRequest
    /\ result \in {"none", "ERROR_OK", "ERROR_QUEUE_FULL", "ERROR_HEADER_NULL"}

NullRequest == [header |-> NULL, body |-> NoBody, cb |-> CallBackNull]

Init ==
    /\ slot = [i \in Slots |-> [status |-> "QUEUE_EMPTY", header |-> NoHeader,
                                body |-> NoBody, cb |-> CallBackNull]]
    /\ head = 0
    /\ tail = 0
    /\ used = 0
    /\ fetched = NullRequest
    /\ result = "none"

\* An index that ran past the end of the list starts over.
Wrap(i) == IF i >= QueueLen THEN i - QueueLen ELSE i

(***************************************************************************)
(* enqueueMC.  The do-while walks from head to the first empty slot, or    *)
(* once around up to tail.                                                 *)
(***************************************************************************)
HasRoom == used < QueueLen

WalkLength == IF head < tail THEN tail - head ELSE tail - head + QueueLen

EmptyAhead ==
    {d \in 0 .. WalkLength - 1 : slot[Wrap(head + d)].status = "QUEUE_EMPTY"}

FirstEmpty == Wrap(head + Min(EmptyAhead))

Enqueue(h, b) ==
    /\ HasRoom
    /\ EmptyAhead # {}
    /\ slot' = [slot EXCEPT ![FirstEmpty] =
                   [status |-> "QUEUE_FULL", header |-> h,
                    body |-> b, cb |-> CallBackNull]]
    /\ used' = used + 1
    /\ head' = Wrap(FirstEmpty + 1)
    /\ result' = "ERROR_OK"
    /\ UNCHANGED <<tail, fetched>>

\* The -1 of enqueueMC is tested with "< 0" after its conversion to char.
EnqueueFails ==
    /\ ~HasRoom \/ EmptyAhead = {}
    /\ head' = IF HasRoom THEN tail ELSE head
    /\ result' = IF CharIsSigned THEN "ERROR_QUEUE_FULL" ELSE "ERROR_OK"
    /\ UNCHANGED <<slot, tail, used, fetched>>

AddWithoutHeader ==
    /\ result' = "ERROR_HEADER_NULL"
    /\ UNCHANGED <<slot, head, tail, used, fetched>>

\* modbusRequestAdd
RequestAdd ==
    \/ \E h \in Headers, b \in Bodies : Enqueue(h, b)
    \/ EnqueueFails
    \/ AddWithoutHeader

\* Mutant of Dequeue: field_used is not counted down.
DequeueUncounted ==
    /\ slot[tail].status = "QUEUE_FULL"
    /\ fetched' = [header |-> tail, body |-> slot[tail].body, cb |-> slot[tail].cb]
    /\ slot' = [slot EXCEPT ![tail].status = "QUEUE_EMPTY"]
    /\ tail' = Wrap(tail + 1)
    /\ UNCHANGED <<head, used, result>>

\* modbusRequestFetch when the tail slot holds a request
Dequeue ==
    /\ slot[tail].status = "QUEUE_FULL"
    /\ fetched' = [header |-> tail, body |-> slot[tail].body, cb |-> slot[tail].cb]
    /\ slot' = [slot EXCEPT ![tail].status = "QUEUE_EMPTY"]
    /\ tail' = Wrap(tail + 1)
    /\ used' = IF used > 0 THEN used - 1 ELSE used
    /\ UNCHANGED <<head, result>>

\* modbusRequestFetch when it does not
DequeueNothing ==
    /\ slot[tail].status = "QUEUE_EMPTY"
    /\ fetched' = NullRequest
    /\ UNCHANGED <<slot, head, tail, used, result>>

\* Mutant of CallbackAdd: head taken for the newest request's slot, as the
\* comment on Queue_t.head says it is.
CallbackAddAtHead(cb) ==
    /\ slot' = [slot EXCEPT ![head].cb = cb]
    /\ UNCHANGED <<head, tail, used, fetched, result>>

\* modbusClientTCPRequestCallbackAdd, modbusClientSerialRequestCallbackAdd
CallbackAdd(cb) ==
    /\ slot' = [slot EXCEPT ![IF head = 0 THEN QueueLen - 1 ELSE head - 1].cb = cb]
    /\ UNCHANGED <<head, tail, used, fetched, result>>

Next ==
    \/ RequestAdd
    \/ Dequeue
    \/ DequeueNothing
    \/ \E cb \in Callbacks : CallbackAdd(cb)

Spec == Init /\ [][Next]_vars

-----------------------------------------------------------------------------

(***************************************************************************)
(* The full slots are exactly the used ones that start at tail, and head   *)
(* is the slot after them.  It is what lets enqueueMC find a place at its  *)
(* first probe and dequeueMC look at a single slot: one index that wraps   *)
(* differently, or one count that drifts, and requests are skipped, served *)
(* twice or stranded.                                                      *)
(***************************************************************************)
InWindow(i) ==
    \/ tail <= i /\ i < tail + used
    \/ i + QueueLen < tail + used

RingConsistent ==
    /\ head = Wrap(tail + used)
    /\ \A i \in Slots : (slot[i].status = "QUEUE_FULL") <=> InWindow(i)

(***************************************************************************)
(* The list implements the bounded fifo: requests leave in the order they  *)
(* came, none is lost, doubled or changed, a full list refuses, a callback *)
(* goes to the newest request, and the header of a fetched request stays   *)
(* what it was until the list is full again.                               *)
(***************************************************************************)
fifo == [k \in 1 .. used |->
            LET s == slot[Wrap(tail + k - 1)]
            IN  [header |-> s.header, body |-> s.body, cb |-> s.cb]]

lent == [header |-> IF fetched.header = NULL THEN NoHeader
                    ELSE slot[fetched.header].header,
         body   |-> fetched.body,
         cb     |-> fetched.cb]

Fifo == INSTANCE RequestFifo WITH fetched <- lent

ImplementsFifo == Fifo!Spec
=============================================================================
