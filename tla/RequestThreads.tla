--------------------------- MODULE RequestThreads ---------------------------
(***************************************************************************)
(* The request list of request_structure.c between two threads that share  *)
(* no lock: SocketClientThread.c adds requests in ThreadCompRequest and    *)
(* fetches them in ThreadModbus.  RequestQueue takes a whole call as one   *)
(* step; here a step is one access to what the threads share, in the order *)
(* of the program, and field_used++ is a load and a store.                 *)
(***************************************************************************)
EXTENDS Integers, Sequences, FiniteSetsExt

CONSTANTS
    QueueLen,
    Bodies,          \* requests
    Callbacks,
    NoBody,
    CallBackNull

ASSUME QueueLenAssumption == QueueLen \in Nat \ {0}

ASSUME NullAssumption == NoBody \notin Bodies /\ CallBackNull \notin Callbacks

VARIABLES
    slot,         \* requestList
    head,         \* queue.head, tail and field_used
    tail,
    used,
    fetched,      \* the static request of modbusRequestFetch
    add_pc,       \* where the adding thread is in enqueueMC,
    add_body,     \* the static request of modbusRequestAdd,
    add_count,    \* and the field_used it loaded
    run_pc,       \* where the fetching thread is,
    run_count,    \* and the field_used it loaded
    lost          \* history: updates of field_used that were overwritten

ringVars == <<slot, head, tail, used, lost>>
addVars == <<add_pc, add_body, add_count>>
runVars == <<fetched, run_pc, run_count>>
threadVars == <<ringVars, addVars, runVars>>

Slots == 0 .. QueueLen - 1

Wrap(i) == IF i >= QueueLen THEN i - QueueLen ELSE i

NullRequest == [body |-> NoBody, cb |-> CallBackNull]

ThreadsInit ==
    /\ slot = [i \in Slots |-> [status |-> "QUEUE_EMPTY", body |-> NoBody,
                                cb |-> CallBackNull]]
    /\ head = 0
    /\ tail = 0
    /\ used = 0
    /\ fetched = NullRequest
    /\ add_pc = "idle"
    /\ add_body = NoBody
    /\ add_count = 0
    /\ run_pc = "idle"
    /\ run_count = 0
    /\ lost = 0

-----------------------------------------------------------------------------
(***************************************************************************)
(* modbusRequestAdd and enqueueMC, in the adding thread.                   *)
(***************************************************************************)
Adding(from, to) ==
    /\ add_pc = from
    /\ add_pc' = to
    /\ UNCHANGED <<tail, runVars>>

BeginAdd(b) ==
    /\ Adding("idle", IF used < QueueLen THEN "probe" ELSE "idle")
    /\ add_body' = b
    /\ UNCHANGED <<slot, head, used, lost, add_count>>

\* A full slot is passed over; a full round ends the search.
Probe ==
    LET empty == slot[head].status = "QUEUE_EMPTY"
        next == Wrap(head + 1)
    IN  /\ Adding("probe", IF empty THEN "status" ELSE IF next = tail THEN "idle" ELSE "probe")
        /\ slot' = IF empty THEN [slot EXCEPT ![head].body = add_body] ELSE slot
        /\ head' = IF empty THEN head ELSE next
        /\ UNCHANGED <<used, lost, add_body, add_count>>

SetFull ==
    /\ Adding("status", "callback")
    /\ slot' = [slot EXCEPT ![head].status = "QUEUE_FULL"]
    /\ UNCHANGED <<head, used, lost, add_body, add_count>>

\* Mutant of ResetCallback: the callback of the slot's last request stays.
CallbackStays ==
    /\ Adding("callback", "count")
    /\ UNCHANGED <<slot, head, used, lost, add_body, add_count>>

ResetCallback ==
    /\ Adding("callback", "count")
    /\ slot' = [slot EXCEPT ![head].cb = CallBackNull]
    /\ UNCHANGED <<head, used, lost, add_body, add_count>>

LoadToCountUp ==
    /\ Adding("count", "store")
    /\ add_count' = used
    /\ UNCHANGED <<slot, head, used, lost, add_body>>

\* When the other thread stored since the load, what it stored is lost.
CountUp ==
    /\ Adding("store", "head")
    /\ used' = add_count + 1
    /\ lost' = IF used # add_count THEN lost + 1 ELSE lost
    /\ add_count' = 0
    /\ UNCHANGED <<slot, head, add_body>>

AdvanceHead ==
    /\ Adding("head", "idle")
    /\ head' = Wrap(head + 1)
    /\ UNCHANGED <<slot, used, lost, add_body, add_count>>

EnqueueSteps ==
    Probe \/ SetFull \/ ResetCallback \/ LoadToCountUp \/ CountUp \/ AdvanceHead

\* modbusClientTCPRequestCallbackAdd
CallbackAdd(cb) ==
    /\ Adding("idle", "idle")
    /\ slot' = [slot EXCEPT ![IF head = 0 THEN QueueLen - 1 ELSE head - 1].cb = cb]
    /\ UNCHANGED <<head, used, lost, add_body, add_count>>

-----------------------------------------------------------------------------
(***************************************************************************)
(* modbusRequestFetch and dequeueMC, in the thread that calls Run, once it *)
(* has seen that field_used > 0.                                           *)
(***************************************************************************)
Fetching(from, to) ==
    /\ run_pc = from
    /\ run_pc' = to
    /\ UNCHANGED <<head, addVars>>

BeginFetch ==
    /\ used > 0
    /\ Fetching("idle", "status")
    /\ UNCHANGED <<slot, tail, used, lost, fetched, run_count>>

CheckTail ==
    LET full == slot[tail].status = "QUEUE_FULL"
    IN  /\ Fetching("status", IF full THEN "copy" ELSE "fetched")
        /\ fetched' = IF full THEN fetched ELSE NullRequest
        /\ UNCHANGED <<slot, tail, used, lost, run_count>>

CopyRequest ==
    /\ Fetching("copy", "empty")
    /\ fetched' = [body |-> slot[tail].body, cb |-> slot[tail].cb]
    /\ UNCHANGED <<slot, tail, used, lost, run_count>>

\* Mutant of SetEmpty: the slot keeps its status.
SetEmptyForgotten ==
    /\ Fetching("empty", "tail")
    /\ UNCHANGED <<slot, tail, used, lost, fetched, run_count>>

SetEmpty ==
    /\ Fetching("empty", "tail")
    /\ slot' = [slot EXCEPT ![tail].status = "QUEUE_EMPTY"]
    /\ UNCHANGED <<tail, used, lost, fetched, run_count>>

AdvanceTail ==
    /\ Fetching("tail", "count")
    /\ tail' = Wrap(tail + 1)
    /\ UNCHANGED <<slot, used, lost, fetched, run_count>>

LoadToCountDown ==
    /\ Fetching("count", "store")
    /\ run_count' = used
    /\ UNCHANGED <<slot, tail, used, lost, fetched>>

\* Mutant of CountDown: field_used is not counted down.
CountDownForgotten ==
    /\ Fetching("store", "fetched")
    /\ UNCHANGED <<slot, tail, used, lost, fetched, run_count>>

CountDown ==
    /\ Fetching("store", "fetched")
    /\ used' = IF run_count > 0 THEN run_count - 1 ELSE used
    /\ lost' = IF used # run_count THEN lost + 1 ELSE lost
    /\ run_count' = 0
    /\ UNCHANGED <<slot, tail, fetched>>

DequeueSteps ==
    CheckTail \/ CopyRequest \/ SetEmpty \/ AdvanceTail \/ LoadToCountDown \/ CountDown

-----------------------------------------------------------------------------
(***************************************************************************)
(* What is listed: the full slots from tail on, less the request that was  *)
(* copied last.  A request is in the list from SetFull to CopyRequest.     *)
(* Callbacks are reset after the status, and are not part of the promise.  *)
(***************************************************************************)
ListedSlots ==
    {i \in Slots : slot[i].status = "QUEUE_FULL"}
        \ (IF run_pc = "empty" THEN {tail} ELSE {})

FirstListed == IF run_pc \in {"empty", "tail"} THEN Wrap(tail + 1) ELSE tail

Order ==
    [k \in 1 .. Cardinality(ListedSlots) |->
        [header |-> "ADU", body |-> slot[Wrap(FirstListed + k - 1)].body,
         cb |-> CallBackNull]]

Fifo ==
    INSTANCE RequestFifo
        WITH Headers <- {"ADU"}, NoHeader <- "NONE", fifo <- Order,
             fetched <- [header |-> IF fetched = NullRequest THEN "NONE" ELSE "ADU",
                         body |-> fetched.body, cb |-> CallBackNull],
             result <- "ERROR_OK"

\* field_used is right until the threads overwrite each other's update of it.
NoneLost == lost = 0

(***************************************************************************)
(* Without a lock the list still is a fifo, at every interleaving of the   *)
(* two threads' accesses, until an update of field_used is lost: the order *)
(* in which enqueueMC and dequeueMC write status, index and count is what  *)
(* keeps a slot from being used by both.                                   *)
(***************************************************************************)
FetchesInOrder == [][NoneLost => Fifo!Next]_<<Order, fetched.body>>

(***************************************************************************)
(* mctcp.c:108, 'Talep listesinde isleme alinmamis talep varsa': until an  *)
(* update of field_used is lost, a fetch that field_used > 0 led to finds  *)
(* a request, so Run does not place the null request, for which it would   *)
(* transmit once more what it transmitted last.  The other thread may be   *)
(* at any point of an add, its load of field_used included.                *)
(***************************************************************************)
FetchFindsRequest ==
    NoneLost /\ run_pc = "status" => slot[tail].status = "QUEUE_FULL"
=============================================================================
