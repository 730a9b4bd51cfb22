--------------------------- MODULE ModbusClientTCP ---------------------------
(***************************************************************************)
(* The Modbus TCP client, mctcp.c.  The application puts requests in the   *)
(* request list; ModbusClientTCPRun, called forever, moves them one at a   *)
(* time to the pending list, transmits them, matches the answers by        *)
(* transaction id, and retransmits or gives up what is not answered.       *)
(*                                                                         *)
(* One call of Run is the phases "request", "place" (only after a fetch),  *)
(* "receive" and "timeout", in that order.  Between two phases the threads *)
(* of the application may call RequestAdd and RequestCallbackAdd.          *)
(*                                                                         *)
(* The request list is the bounded fifo RequestQueue implements.           *)
(***************************************************************************)
EXTENDS Integers, Sequences, Bags, FiniteSetsExt

CONSTANTS
    QueueLen,          \* request_quantity
    TransactionMax,    \* transaction_max: the slots of the pending list
    TimeoutResponse,   \* timeout_response, in calls of Run
    RetryLimit,        \* retry_limit
    TransidLimit,      \* the transaction id that is never used: 65534
    Units,             \* unit ids
    Functions,         \* function codes
    Areas,             \* start address and register count of a request
    Clients,           \* the parts of the application that add requests
    Threads,           \* whether they run in threads of their own
    ChecksResult,      \* whether they look at what RequestAdd returns
    ReplyKinds,        \* what servers answer
    MaxAdds,           \* bound: the number of requests ever accepted
    CallBackNull

Supported == {"READ_HOLDING", "WRITE_SINGLE", "WRITE_MULTIPLE"}

ASSUME LengthAssumption ==
    /\ QueueLen \in Nat \ {0}
    /\ TransactionMax \in Nat \ {0}

ASSUME LimitAssumption ==
    /\ TimeoutResponse \in Nat \ {0}
    /\ RetryLimit \in Nat
    /\ TransidLimit \in Nat /\ TransidLimit > 1
    /\ MaxAdds \in Nat

ASSUME ApplicationAssumption ==
    /\ Functions \subseteq Supported \cup {"UNSUPPORTED"}
    /\ Threads \in BOOLEAN
    /\ ChecksResult \in BOOLEAN

ASSUME NetworkAssumption ==
    ReplyKinds \subseteq {"response", "exception", "otherFunction", "badProtocol"}

VARIABLES
    pc,             \* the phase Run is about to execute
    fifo,           \* reqlist_obj: the requests not fetched yet
    fetched,        \* request_new: the request fetched last
    result,         \* what modbusRequestAdd returned last
    transid_cnt,    \* the transaction id of the next request
    pendings_list,
    heap_head,      \* heap_pendinglist.head
    heap_used,      \* heap_pendinglist.field_used
    i_pending,      \* the slot whose timeout is looked at next
    rx_tid,         \* the transaction id of the header parsed last
    tx,             \* buffer_tx: header and PDU of the packet sent last
    conf,           \* the confirmation Run fills
    app,            \* per client, the request it may attach a callback to
    wire,           \* the bag of packets on their way to a server or back
    added,          \* history: the number of requests accepted
    sends,          \* history: per request, how often it was transmitted
    calls           \* history: per request, how often its callback ran

queueVars == <<fifo, fetched, result>>
pendVars == <<pendings_list, heap_head, heap_used>>
vars == <<pc, fifo, fetched, result, transid_cnt, pendings_list, heap_head,
          heap_used, i_pending, rx_tid, tx, conf, app, wire, added, sends, calls>>

Slots == 0 .. TransactionMax - 1

Requests == 1 .. MaxAdds

\* What isSamePackageExistInPendingList compares of a request.
Bodies == [func : Functions, area : Areas]

NoBody == [func |-> "NONE", area |-> "NONE"]

Transids == 1 .. TransidLimit - 1

\* An ADU header.  id is history: it numbers the accepted requests, and the
\* code does not have it.
Headers == [tid : Transids, unit : Units, id : Requests]

NoHeader == [tid |-> 0, unit |-> 0, id |-> 0]

\* A callback is written for requests of one body, and named after it.
Queue == INSTANCE RequestFifo WITH Callbacks <- Bodies

InUse == {i \in Slots : pendings_list[i].status = "INUSE"}

Init ==
    /\ pc = "request"
    /\ Queue!Init
    /\ transid_cnt = 1
    /\ pendings_list = [i \in Slots |->
           [status |-> "FREE", header |-> NoHeader, body |-> NoBody,
            cb |-> CallBackNull, timer |-> 0, retries |-> 0]]
    /\ heap_head = 0
    /\ heap_used = 0
    /\ i_pending = 0
    /\ rx_tid = 0
    /\ tx = [header |-> NoHeader, body |-> NoBody]
    /\ conf = [request |-> "NONE", receive |-> "NONE", pending |-> "NONE",
               pending_tid |-> 0]
    /\ app = [c \in Clients |-> NoBody]
    /\ wire = EmptyBag
    /\ added = 0
    /\ sends = [r \in Requests |-> 0]
    /\ calls = [r \in Requests |-> 0]

-----------------------------------------------------------------------------
(***************************************************************************)
(* The application.                                                        *)
(***************************************************************************)

\* A thread runs at any time; otherwise the application has its turn between
\* two calls of Run, and in the callback an answer runs, after which Run goes on
\* with the timeout phase.  An exception runs no callback, but gives the same turn.
ApplicationMayRun ==
    \/ Threads
    \/ pc = "request"
    \/ pc = "timeout" /\ conf.receive = "POZITIVE"

NextTransid == IF transid_cnt + 1 >= TransidLimit THEN 1 ELSE transid_cnt + 1

RequestAdd(c, u, b) ==
    /\ ApplicationMayRun
    /\ added < MaxAdds
    /\ Queue!Accept([tid |-> transid_cnt, unit |-> u, id |-> added + 1], b)
    /\ transid_cnt' = NextTransid
    /\ added' = added + 1
    /\ app' = [app EXCEPT ![c] = b]
    /\ UNCHANGED <<pc, pendVars, i_pending, rx_tid, tx, conf, wire, sends, calls>>

\* Mutant of RequestAddFails: a client that goes on as if its request were in
\* the list.
RequestAddFailsUnnoticed(c, b) ==
    /\ ApplicationMayRun
    /\ Queue!RefuseFull
    /\ app' = [app EXCEPT ![c] = b]
    /\ UNCHANGED <<pc, transid_cnt, pendVars, i_pending, rx_tid, tx, conf, wire,
                   added, sends, calls>>

RequestAddFails(c, b) ==
    /\ ApplicationMayRun
    /\ Queue!RefuseFull
    /\ app' = [app EXCEPT ![c] = IF ChecksResult THEN NoBody ELSE b]
    /\ UNCHANGED <<pc, transid_cnt, pendVars, i_pending, rx_tid, tx, conf, wire,
                   added, sends, calls>>

RequestCallbackAdd(c) ==
    /\ ApplicationMayRun
    /\ app[c] # NoBody
    /\ Queue!AttachCallback(app[c]) \/ (fifo = <<>> /\ UNCHANGED queueVars)
    /\ app' = [app EXCEPT ![c] = NoBody]
    /\ UNCHANGED <<pc, transid_cnt, pendVars, i_pending, rx_tid, tx, conf, wire,
                   added, sends, calls>>

Application ==
    \E c \in Clients :
        \/ \E u \in Units, b \in Bodies : RequestAdd(c, u, b)
        \/ \E b \in Bodies : RequestAddFails(c, b)
        \/ RequestCallbackAdd(c)

-----------------------------------------------------------------------------
(***************************************************************************)
(* Run, request phase: a request moves to the pending list and the wire.   *)
(***************************************************************************)
hasPendingListEnoughSpace == heap_used < TransactionMax

PendingListFull ==
    /\ pc = "request"
    /\ ~hasPendingListEnoughSpace
    /\ conf' = [conf EXCEPT !.request = "NEGATIVE"]
    /\ pc' = "receive"
    /\ UNCHANGED <<queueVars, transid_cnt, pendVars, i_pending, rx_tid, tx, app,
                   wire, added, sends, calls>>

RequestListEmpty ==
    /\ pc = "request"
    /\ hasPendingListEnoughSpace
    /\ fifo = <<>>
    /\ conf' = [conf EXCEPT !.request = "NONE"]
    /\ pc' = "receive"
    /\ UNCHANGED <<queueVars, transid_cnt, pendVars, i_pending, rx_tid, tx, app,
                   wire, added, sends, calls>>

FetchRequest ==
    /\ pc = "request"
    /\ hasPendingListEnoughSpace
    /\ Queue!Fetch
    /\ conf' = [conf EXCEPT !.request = "NONE"]
    /\ pc' = "place"
    /\ UNCHANGED <<transid_cnt, pendVars, i_pending, rx_tid, tx, app, wire,
                   added, sends, calls>>

\* Mutant of isSamePackageExistInPendingList: only the first slot is compared.
isSamePackageInFirstSlot ==
    0 \in InUse /\ pendings_list[0].body = fetched.body

\* The unit id and the data buffer are not compared.
isSamePackageExistInPendingList ==
    \E i \in InUse : pendings_list[i].body = fetched.body

\* A request like one that still waits for its answer goes no further.
DropRequest ==
    /\ pc = "place"
    /\ isSamePackageExistInPendingList
    /\ pc' = "receive"
    /\ UNCHANGED <<queueVars, transid_cnt, pendVars, i_pending, rx_tid, tx, conf,
                   app, wire, added, sends, calls>>

\* The PDU of a function the client does not know is whatever was sent last.
packageSendFromPendingList(header, body) ==
    LET pdu == IF body.func \in Supported THEN body ELSE tx.body
    IN  /\ tx' = [header |-> header, body |-> pdu]
        /\ wire' = wire (+) SetToBag({tx'})
        /\ sends' = [sends EXCEPT ![header.id] = @ + 1]

\* With no slot free the one at head is taken.
PlaceOfNewRequest ==
    IF heap_head \in InUse /\ InUse # Slots
    THEN Min(Slots \ InUse)
    ELSE heap_head

addNewRequestToPendingList ==
    LET i == PlaceOfNewRequest
    IN  /\ pendings_list' = [pendings_list EXCEPT ![i] =
               [status |-> "INUSE", header |-> fetched.header,
                body |-> fetched.body, cb |-> fetched.cb,
                timer |-> 0, retries |-> 0]]
        /\ heap_head' = IF i + 1 >= TransactionMax THEN 0 ELSE i + 1
        /\ heap_used' = heap_used + 1

PlaceRequest ==
    /\ pc = "place"
    /\ ~isSamePackageExistInPendingList
    /\ addNewRequestToPendingList
    /\ packageSendFromPendingList(fetched.header, fetched.body)
    /\ pc' = "receive"
    /\ UNCHANGED <<queueVars, transid_cnt, i_pending, rx_tid, conf, app, added, calls>>

-----------------------------------------------------------------------------
(***************************************************************************)
(* Run, receive phase: at most one packet is taken from the receive driver.*)
(* An answer on the wire may arrive now, later, or never.                  *)
(***************************************************************************)
Less(n) == IF n > 0 THEN n - 1 ELSE 0

\* Mutant of removeItemFromPendingList: field_used is not counted down.
removeItemUncounted(i) ==
    /\ pendings_list' = [pendings_list EXCEPT ![i].status = "FREE"]
    /\ UNCHANGED <<heap_head, heap_used>>

removeItemFromPendingList(i) ==
    /\ pendings_list' = [pendings_list EXCEPT ![i].status = "FREE"]
    /\ heap_used' = Less(heap_used)
    /\ UNCHANGED heap_head

\* Mutant of Matching: any slot that waits for an answer will do.
MatchingInUse(tid) == InUse

\* The slots, in use or not, whose header has the transaction id.
Matching(tid) == {i \in Slots : pendings_list[i].header.tid = tid}

ReceiveNothing ==
    /\ pc = "receive"
    /\ conf' = [conf EXCEPT !.receive = "NONE"]
    /\ pc' = "timeout"
    /\ UNCHANGED <<queueVars, transid_cnt, pendVars, i_pending, rx_tid, tx, app,
                   wire, added, sends, calls>>

Arrives(p) ==
    /\ pc = "receive"
    /\ BagIn(p, wire)
    /\ wire' = wire (-) SetToBag({p})
    /\ rx_tid' = p.header.tid
    /\ pc' = "timeout"
    /\ UNCHANGED <<queueVars, transid_cnt, i_pending, tx, app, added, sends>>

ReceiveUnknown(p) ==
    /\ Arrives(p)
    /\ Matching(p.header.tid) = {}
    /\ conf' = [conf EXCEPT !.receive = "NONE"]
    /\ UNCHANGED <<pendVars, calls>>

ReceiveBadProtocol(p) ==
    /\ "badProtocol" \in ReplyKinds
    /\ Arrives(p)
    /\ Matching(p.header.tid) # {}
    /\ conf' = [conf EXCEPT !.receive = "NEGATIVE"]
    /\ UNCHANGED <<pendVars, calls>>

isCurrentMsgFuncCodeCorrect(p, i) == p.body.func = pendings_list[i].body.func

\* The function code is neither the request's nor that of its exception.
ReceiveOtherFunction(p) ==
    /\ Arrives(p)
    /\ Matching(p.header.tid) # {}
    /\ LET i == Min(Matching(p.header.tid))
       IN  /\ \/ "otherFunction" \in ReplyKinds
              \/ ~isCurrentMsgFuncCodeCorrect(p, i)
           /\ removeItemFromPendingList(i)
    /\ conf' = [conf EXCEPT !.receive = "NEGATIVE"]
    /\ UNCHANGED calls

ReceiveException(p) ==
    /\ "exception" \in ReplyKinds
    /\ Arrives(p)
    /\ Matching(p.header.tid) # {}
    /\ LET i == Min(Matching(p.header.tid))
       IN  /\ isCurrentMsgFuncCodeCorrect(p, i)
           /\ removeItemFromPendingList(i)
    /\ conf' = [conf EXCEPT !.receive = "POZITIVE"]
    /\ UNCHANGED calls

\* modbusPDUResponseOperation: the data is copied and the callback runs.
ReceiveResponse(p) ==
    /\ "response" \in ReplyKinds
    /\ Arrives(p)
    /\ Matching(p.header.tid) # {}
    /\ LET i == Min(Matching(p.header.tid))
       IN  /\ isCurrentMsgFuncCodeCorrect(p, i)
           /\ removeItemFromPendingList(i)
           /\ calls' = [calls EXCEPT ![pendings_list[i].header.id] = @ + 1]
    /\ conf' = [conf EXCEPT !.receive = "POZITIVE"]

Receive ==
    \/ ReceiveNothing
    \/ \E p \in BagToSet(wire) :
          \/ ReceiveUnknown(p)
          \/ ReceiveBadProtocol(p)
          \/ ReceiveOtherFunction(p)
          \/ ReceiveException(p)
          \/ ReceiveResponse(p)

-----------------------------------------------------------------------------
(***************************************************************************)
(* Run, timeout phase: the timers advance, and one slot is looked at.      *)
(***************************************************************************)
Ticked ==
    [i \in Slots |-> IF i \in InUse
                     THEN [pendings_list[i] EXCEPT !.timer = @ + 1]
                     ELSE pendings_list[i]]

Expired == Ticked[i_pending].timer >= TimeoutResponse

\* Mutant of LastTry: one retransmission more than the limit allows.
LastTryExceeded == pendings_list[i_pending].retries + 1 > RetryLimit

LastTry == pendings_list[i_pending].retries + 1 >= RetryLimit

FinishRun(status) ==
    /\ pc = "timeout"
    /\ pc' = "request"
    /\ conf' = [conf EXCEPT !.pending = status, !.pending_tid = rx_tid]
    /\ i_pending' = IF i_pending + 1 >= TransactionMax THEN 0 ELSE i_pending + 1
    /\ UNCHANGED <<queueVars, transid_cnt, heap_head, rx_tid, app, added, calls>>

KeepWaiting ==
    /\ FinishRun("NONE")
    /\ ~Expired
    /\ pendings_list' = Ticked
    /\ UNCHANGED <<heap_used, tx, wire, sends>>

\* Mutant of Retransmit: the timer of the slot keeps its value.
RetransmitUntimed ==
    /\ FinishRun("NONE")
    /\ Expired
    /\ ~LastTry
    /\ pendings_list' = [Ticked EXCEPT ![i_pending].retries = @ + 1]
    /\ packageSendFromPendingList(pendings_list[i_pending].header,
                                  pendings_list[i_pending].body)
    /\ UNCHANGED heap_used

Retransmit ==
    /\ FinishRun("NONE")
    /\ Expired
    /\ ~LastTry
    /\ pendings_list' = [Ticked EXCEPT ![i_pending].timer = 0,
                                       ![i_pending].retries = @ + 1]
    /\ packageSendFromPendingList(pendings_list[i_pending].header,
                                  pendings_list[i_pending].body)
    /\ UNCHANGED heap_used

\* Mutant of GiveUp: the slot starts over instead of being freed.
GiveUpKeepingSlot ==
    /\ FinishRun("NEGATIVE")
    /\ Expired
    /\ LastTry
    /\ pendings_list' = [Ticked EXCEPT ![i_pending].timer = 0,
                                       ![i_pending].retries = 0]
    /\ heap_used' = Less(Less(heap_used))
    /\ UNCHANGED <<tx, wire, sends>>

\* The slot is freed twice, and counted down twice.
GiveUp ==
    /\ FinishRun("NEGATIVE")
    /\ Expired
    /\ LastTry
    /\ pendings_list' = [Ticked EXCEPT ![i_pending].timer = 0,
                                       ![i_pending].retries = @ + 1,
                                       ![i_pending].status = "FREE"]
    /\ heap_used' = Less(Less(heap_used))
    /\ UNCHANGED <<tx, wire, sends>>

Run ==
    \/ PendingListFull
    \/ RequestListEmpty
    \/ FetchRequest
    \/ DropRequest
    \/ PlaceRequest
    \/ Receive
    \/ KeepWaiting
    \/ Retransmit
    \/ GiveUp

Next == Run \/ Application

Spec == Init /\ [][Next]_vars

\* ThreadModbus calls Run forever; nothing makes the application or a server act.
FairSpec == Spec /\ WF_vars(Run)

-----------------------------------------------------------------------------

Statuses == {"NONE", "POZITIVE", "NEGATIVE"}

Request == [header : Headers, body : Bodies, cb : Bodies \cup {CallBackNull}]

Slot == [status : {"FREE", "INUSE"}, header : Headers \cup {NoHeader},
         body : Bodies \cup {NoBody}, cb : Bodies \cup {CallBackNull},
         timer : Nat, retries : Nat]

Packet == [header : Headers, body : Bodies \cup {NoBody}]

TypeOK ==
    /\ pc \in {"request", "place", "receive", "timeout"}
    /\ fifo \in Seq(Request)
    /\ Len(fifo) <= QueueLen
    /\ fetched \in Request \cup {Queue!NullRequest}
    /\ transid_cnt \in Transids
    /\ pendings_list \in [Slots -> Slot]
    /\ heap_head \in Slots
    /\ heap_used \in 0 .. TransactionMax
    /\ i_pending \in Slots
    /\ rx_tid \in Transids \cup {0}
    /\ tx \in [header : Headers \cup {NoHeader}, body : Bodies \cup {NoBody}]
    /\ conf \in [request : Statuses, receive : Statuses, pending : Statuses,
                 pending_tid : Transids \cup {0}]
    /\ app \in [Clients -> Bodies \cup {NoBody}]
    /\ BagToSet(wire) \subseteq Packet
    /\ added \in 0 .. MaxAdds
    /\ sends \in [Requests -> Nat]
    /\ calls \in [Requests -> Nat]

(***************************************************************************)
(* heap_pendinglist.field_used never counts more slots than are in use.    *)
(* When hasPendingListEnoughSpace holds requests back the list really is   *)
(* full, so an answer or a timeout will make room: no slot is leaked, in   *)
(* spite of slots that are freed twice and of answers to free slots.       *)
(***************************************************************************)
NoSlotLeak == heap_used <= Cardinality(InUse)

(***************************************************************************)
(* Two requests in flight are never the same: DropRequest sees every slot, *)
(* even after a slot was overwritten or freed and filled in another order. *)
(***************************************************************************)
DistinctInFlight ==
    \A i, j \in InUse : pendings_list[i].body = pendings_list[j].body => i = j

(***************************************************************************)
(* One slot is looked at per call of Run, so a timeout is noticed late,    *)
(* but no try takes TryTime calls.  So a request in flight leaves the      *)
(* pending list, or is overwritten, RetryLimit times TryTime calls after   *)
(* it was sent at the latest: LifeLeft counts the calls, and only placing  *)
(* a request in the slot may give it more.                                 *)
(***************************************************************************)
TryTime == TimeoutResponse + TransactionMax - 1

TriesLeft(i) ==
    IF pendings_list[i].retries + 1 < RetryLimit
    THEN RetryLimit - (pendings_list[i].retries + 1)
    ELSE 0

LifeLeft(i) == TriesLeft(i) * TryTime + TryTime - pendings_list[i].timer

MaxLife == (IF RetryLimit > 1 THEN RetryLimit ELSE 1) * TryTime

RequestsAge ==
    [][\A i \in InUse :
          /\ pendings_list[i].timer < TryTime
          /\ LifeLeft(i) <= MaxLife
          /\ \/ i \notin InUse' \/ (PlaceRequest /\ i = PlaceOfNewRequest)
             \/ LifeLeft(i)' <=
                   LifeLeft(i) - (IF pc = "timeout" /\ pc' # pc THEN 1 ELSE 0)]_vars

(***************************************************************************)
(* A request is transmitted at most RetryLimit times, the first included,  *)
(* also when its slot was answered, overwritten or given up in between.    *)
(***************************************************************************)
SendBudget ==
    \A r \in Requests : sends[r] <= IF RetryLimit = 0 THEN 1 ELSE RetryLimit

\* The headers in the request list, in the pending list and on the wire.
KnownHeaders ==
    ({fifo[k].header : k \in 1 .. Len(fifo)}
        \cup {fetched.header}
        \cup {pendings_list[i].header : i \in Slots}
        \cup {p.header : p \in BagToSet(wire)}) \ {NoHeader}

\* The number of transaction ids the counter gives out before it starts over.
Round == TransidLimit - 1

RecentIds == \A h \in KnownHeaders : added - h.id < Round

(***************************************************************************)
(* An answer runs the callback of the request it answers, and of no other, *)
(* whatever slots were reused since the request was sent, and also when    *)
(* the transaction ids have started over: as long as every header in the   *)
(* lists and on the wire was given out in the last round of transid_cnt.   *)
(* What waits longer meets a request with its own id: nothing looks at the *)
(* ids in use when the counter starts over (mctcp.c:232).                  *)
(***************************************************************************)
AnswerReachesOwner ==
    [][RecentIds /\ calls' # calls =>
          \E p \in BagToSet(wire) :
              /\ wire' = wire (-) SetToBag({p})
              /\ calls' = [calls EXCEPT ![p.header.id] = @ + 1]]_vars

(***************************************************************************)
(* A callback runs for no other request than the one it was written for:   *)
(* a client that attaches a callback only after its RequestAdd succeeded,  *)
(* and is the only one, never hands it to a request added earlier.         *)
(***************************************************************************)
CallbackOfOwnRequest ==
    /\ \A k \in 1 .. Len(fifo) : fifo[k].cb \in {CallBackNull, fifo[k].body}
    /\ \A i \in InUse : pendings_list[i].cb \in {CallBackNull, pendings_list[i].body}

(***************************************************************************)
(* Liveness: a request accepted by RequestAdd is fetched one day, and a    *)
(* request in flight is answered, given up or overwritten one day, though  *)
(* no server ever answers.                                                 *)
(***************************************************************************)
Queued(r) == \E k \in 1 .. Len(fifo) : fifo[k].header.id = r

InFlight(r) == \E i \in InUse : pendings_list[i].header.id = r

EveryRequestFetched == \A r \in Requests : Queued(r) ~> ~Queued(r)

EveryRequestResolved == \A r \in Requests : InFlight(r) ~> ~InFlight(r)

-----------------------------------------------------------------------------
(***************************************************************************)
(* What comments of the code promise and the code does not keep.           *)
(***************************************************************************)

\* mctcp.c:469-471: when there is room according to the counter, a free slot
\* is found.
CounterCoversInUse == hasPendingListEnoughSpace => InUse # Slots
=============================================================================
