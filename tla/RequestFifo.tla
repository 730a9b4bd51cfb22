----------------------------- MODULE RequestFifo -----------------------------
(***************************************************************************)
(* What the request list of a Modbus client promises to the code that uses *)
(* it: a bounded first-in first-out list of requests.  RequestQueue, the   *)
(* ring buffer of request_structure.c, implements this specification; the  *)
(* clients are composed with it.                                           *)
(*                                                                         *)
(* A request is its ADU header, its body (function code, start address,    *)
(* register count, data buffer) and its callback.                          *)
(***************************************************************************)
EXTENDS Sequences, Naturals

CONSTANTS
    QueueLen,        \* the number of requests the list can hold
    Headers,         \* ADU headers
    Bodies,          \* the remaining fields of a request
    Callbacks,       \* the callbacks an application may attach
    CallBackNull,    \* the callback of a request nobody attached one to
    NoHeader,        \* the NULL header pointer
    NoBody           \* func_no 0, no registers, no buffer

VARIABLES
    fifo,       \* the requests in the list, the oldest first
    fetched,    \* the request the latest Fetch delivered
    result      \* what the latest RequestAdd returned

vars == <<fifo, fetched, result>>

NullRequest == [header |-> NoHeader, body |-> NoBody, cb |-> CallBackNull]

NewRequest(h, b) == [header |-> h, body |-> b, cb |-> CallBackNull]

Init ==
    /\ fifo = <<>>
    /\ fetched = NullRequest
    /\ result = "none"

(***************************************************************************)
(* The header of the fetched request is on loan: the list takes it back,   *)
(* for the request it has just accepted, at the moment it becomes full.    *)
(***************************************************************************)
Reclaim(h) ==
    IF fetched # NullRequest /\ Len(fifo) + 1 = QueueLen
    THEN [fetched EXCEPT !.header = h]
    ELSE fetched

Accept(h, b) ==
    /\ Len(fifo) < QueueLen
    /\ fifo' = Append(fifo, NewRequest(h, b))
    /\ fetched' = Reclaim(h)
    /\ result' = "ERROR_OK"

RefuseFull ==
    /\ Len(fifo) = QueueLen
    /\ result' = "ERROR_QUEUE_FULL"
    /\ UNCHANGED <<fifo, fetched>>

RefuseNoHeader ==
    /\ result' = "ERROR_HEADER_NULL"
    /\ UNCHANGED <<fifo, fetched>>

Fetch ==
    /\ fifo # <<>>
    /\ fetched' = Head(fifo)
    /\ fifo' = Tail(fifo)
    /\ UNCHANGED result

FetchNothing ==
    /\ fifo = <<>>
    /\ fetched' = NullRequest
    /\ UNCHANGED <<fifo, result>>

\* A callback goes to the newest request of the list; without one it is lost.
AttachCallback(cb) ==
    /\ fifo # <<>>
    /\ fifo' = [fifo EXCEPT ![Len(fifo)].cb = cb]
    /\ UNCHANGED <<fetched, result>>

Next ==
    \/ \E h \in Headers, b \in Bodies : Accept(h, b)
    \/ RefuseFull
    \/ RefuseNoHeader
    \/ Fetch
    \/ FetchNothing
    \/ \E cb \in Callbacks : AttachCallback(cb)

Spec == Init /\ [][Next]_vars
=============================================================================
