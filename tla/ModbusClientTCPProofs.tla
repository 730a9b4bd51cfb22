------------------------ MODULE ModbusClientTCPProofs ------------------------
(***************************************************************************)
(* The Modbus TCP client is type correct, leaks no slot of its pending     *)
(* list, keeps the requests in flight distinct, notices a timeout within   *)
(* one round of the list and places no request over one that waits before  *)
(* it has counted a slot down twice: for every length of the two lists,    *)
(* every timeout and retry limit, with and without threads, and whatever   *)
(* servers answer.                                                         *)
(***************************************************************************)
EXTENDS ModbusClientTCP, FiniteSetTheorems, SequenceTheorems,
        WellFoundedInduction, TLAPS

USE LengthAssumption, LimitAssumption

LEMMA MinOfNaturals ==
    ASSUME NEW S \in SUBSET Nat, S # {}
    PROVE  Min(S) \in S
<1>1. \E x \in S : \A y \in S : ~(<<y, x>> \in OpToRel(<, Nat))
  BY NatLessThanWellFounded, WFMin
<1>2. \A x, y \in S : ~(<<y, x>> \in OpToRel(<, Nat)) => x <= y
  BY DEF OpToRel
<1>3. \E x \in S : \A y \in S : x <= y
  BY <1>1, <1>2
<1> QED
  BY <1>3 DEF Min

LEMMA SlotsFinite == IsFiniteSet(Slots) /\ Cardinality(Slots) = TransactionMax
BY FS_Interval DEF Slots

(***************************************************************************)
(* What type correctness needs: between the fetch and the place phase the  *)
(* fetched request is a real one and there is room for it, and a slot      *)
(* whose timer ran holds a real request.                                   *)
(***************************************************************************)
PlaceInv == pc = "place" => fetched \in Request /\ heap_used < TransactionMax

SlotInv ==
    \A i \in Slots :
        pendings_list[i].status = "INUSE" \/ pendings_list[i].timer > 0
            => pendings_list[i].header \in Headers /\ pendings_list[i].body \in Bodies

IInv == TypeOK /\ PlaceInv /\ SlotInv

LEMMA NoneIsReal ==
    /\ NoHeader \notin Headers
    /\ Queue!NullRequest \notin Request
BY DEF NoHeader, Headers, Transids, Request, Queue!NullRequest

\* What the assignments to the fields of a slot do.
LEMMA SlotUpdates ==
    ASSUME NEW s \in Slot
    PROVE  /\ [s EXCEPT !.status = "FREE"] \in Slot
           /\ [s EXCEPT !.status = "FREE"].status = "FREE"
           /\ [s EXCEPT !.status = "FREE"].header = s.header
           /\ [s EXCEPT !.status = "FREE"].body = s.body
           /\ [s EXCEPT !.status = "FREE"].timer = s.timer
           /\ [s EXCEPT !.timer = @ + 1] \in Slot
           /\ [s EXCEPT !.timer = @ + 1].timer = s.timer + 1
           /\ [s EXCEPT !.timer = @ + 1].status = s.status
           /\ [s EXCEPT !.timer = @ + 1].header = s.header
           /\ [s EXCEPT !.timer = @ + 1].body = s.body
           /\ [s EXCEPT !.timer = @ + 1].retries = s.retries
BY DEF Slot

LEMMA SlotRestarts ==
    ASSUME NEW s \in Slot
    PROVE  LET r == [s EXCEPT !.timer = 0, !.retries = @ + 1]
               f == [s EXCEPT !.timer = 0, !.retries = @ + 1, !.status = "FREE"]
           IN  /\ r \in Slot /\ r.header = s.header /\ r.body = s.body
               /\ r.status = s.status /\ r.timer = 0
               /\ f \in Slot /\ f.header = s.header /\ f.body = s.body
               /\ f.status = "FREE"
<1> DEFINE t == [s EXCEPT !.timer = 0]
           r == [t EXCEPT !.retries = t.retries + 1]
           f == [r EXCEPT !.status = "FREE"]
<1>1. /\ t \in Slot /\ t.header = s.header /\ t.body = s.body
      /\ t.status = s.status /\ t.timer = 0 /\ t.retries = s.retries
  BY DEF Slot
<1> HIDE DEF t
<1>2. /\ r \in Slot /\ r.header = s.header /\ r.body = s.body
      /\ r.status = s.status /\ r.timer = 0
  BY <1>1 DEF Slot
<1> HIDE DEF r
<1>3. /\ f \in Slot /\ f.header = s.header /\ f.body = s.body
      /\ f.status = "FREE"
  BY <1>1, <1>2 DEF Slot
<1> HIDE DEF f
<1>4. r = [s EXCEPT !.timer = 0, !.retries = @ + 1]
  BY <1>1 DEF r, t
<1>5. f = [s EXCEPT !.timer = 0, !.retries = @ + 1, !.status = "FREE"]
  BY <1>1 DEF f, r, t
<1> QED
  BY <1>2, <1>3, <1>4, <1>5

LEMMA RequestUpdates ==
    ASSUME NEW r \in Request
    PROVE  /\ \A h \in Headers : [r EXCEPT !.header = h] \in Request
           /\ \A b \in Bodies : [r EXCEPT !.cb = b] \in Request
BY DEF Request

LEMMA InitIInv == Init => IInv
<1> SUFFICES ASSUME Init PROVE IInv
  OBVIOUS
<1> USE DEF Init
<1>1. fifo \in Seq(Request) /\ Len(fifo) <= QueueLen
  BY EmptySeq DEF Queue!Init
<1>2. fetched \in Request \cup {Queue!NullRequest}
  BY DEF Queue!Init
<1>3. pendings_list \in [Slots -> Slot]
  BY DEF Slot
<1>4. BagToSet(wire) \subseteq Packet
  BY DEF BagToSet, EmptyBag, SetToBag
<1>5. conf \in [request : Statuses, receive : Statuses, pending : Statuses,
               pending_tid : Transids \cup {0}]
  BY DEF Statuses
<1>6. tx \in [header : Headers \cup {NoHeader}, body : Bodies \cup {NoBody}]
  OBVIOUS
<1>7. /\ pc \in {"request", "place", "receive", "timeout"}
      /\ transid_cnt \in Transids
      /\ heap_head \in Slots /\ i_pending \in Slots
      /\ heap_used \in 0 .. TransactionMax
      /\ rx_tid \in Transids \cup {0}
      /\ added \in 0 .. MaxAdds
  BY DEF Transids, Slots
<1>8. /\ app \in [Clients -> Bodies \cup {NoBody}]
      /\ sends \in [Requests -> Nat]
      /\ calls \in [Requests -> Nat]
  OBVIOUS
<1>9. TypeOK
  BY <1>1, <1>2, <1>3, <1>4, <1>5, <1>6, <1>7, <1>8 DEF TypeOK
<1>10. PlaceInv /\ SlotInv
  BY DEF PlaceInv, SlotInv
<1> QED
  BY <1>9, <1>10 DEF IInv

-----------------------------------------------------------------------------
(***************************************************************************)
(* The building blocks of the actions.                                     *)
(***************************************************************************)

LEMMA AcceptType ==
    ASSUME IInv, NEW h \in Headers, NEW b \in Bodies, Queue!Accept(h, b)
    PROVE  /\ fifo' \in Seq(Request) /\ Len(fifo') <= QueueLen
           /\ fetched' \in Request \cup {Queue!NullRequest}
           /\ fetched \in Request => fetched' \in Request
<1> USE DEF IInv, TypeOK
<1>1. Queue!NewRequest(h, b) \in Request
  BY DEF Queue!NewRequest, Request
<1>2. fifo' \in Seq(Request) /\ Len(fifo') = Len(fifo) + 1
  BY <1>1, AppendProperties DEF Queue!Accept
<1>3. Len(fifo') <= QueueLen
  BY <1>2, LenProperties DEF Queue!Accept
<1>4. fetched' = fetched \/ fetched' = [fetched EXCEPT !.header = h]
  BY DEF Queue!Accept, Queue!Reclaim
<1>5. fetched \in Request => [fetched EXCEPT !.header = h] \in Request
  BY RequestUpdates
<1>6. fetched = Queue!NullRequest => fetched' = fetched
  BY <1>1 DEF Queue!Accept, Queue!Reclaim
<1> QED
  BY <1>2, <1>3, <1>4, <1>5, <1>6

LEMMA FetchType ==
    ASSUME IInv, Queue!Fetch
    PROVE  /\ fifo' \in Seq(Request) /\ Len(fifo') <= QueueLen
           /\ fetched' \in Request
BY HeadTailProperties, LenProperties DEF IInv, TypeOK, Queue!Fetch

LEMMA AttachType ==
    ASSUME IInv, NEW cb \in Bodies, Queue!AttachCallback(cb)
    PROVE  fifo' \in Seq(Request) /\ Len(fifo') <= QueueLen
<1> USE DEF IInv, TypeOK
<1>1. Len(fifo) \in 1 .. Len(fifo)
  BY EmptySeq DEF Queue!AttachCallback
<1> DEFINE last == fifo[Len(fifo)]
<1>3. last \in Request
  BY <1>1, ElementOfSeq
<1> HIDE DEF last
<1>2. [last EXCEPT !.cb = cb] \in Request
  BY <1>3, RequestUpdates
<1> USE DEF last
<1> QED
  BY <1>1, <1>2, ExceptSeq DEF Queue!AttachCallback

LEMMA SendType ==
    ASSUME IInv, NEW h \in Headers, NEW b \in Bodies,
           packageSendFromPendingList(h, b)
    PROVE  /\ tx' \in [header : Headers \cup {NoHeader}, body : Bodies \cup {NoBody}]
           /\ BagToSet(wire') \subseteq Packet
           /\ sends' \in [Requests -> Nat]
<1> USE DEF IInv, TypeOK
<1>1. tx' \in Packet
  BY DEF packageSendFromPendingList, Packet
<1>2. BagToSet(wire') = BagToSet(wire) \cup {tx'}
  BY DEF packageSendFromPendingList, BagToSet, SetToBag, (+)
<1>3. sends' \in [Requests -> Nat]
  BY DEF packageSendFromPendingList, Headers
<1> QED
  BY <1>1, <1>2, <1>3 DEF Packet

LEMMA ArrivesType ==
    ASSUME IInv, NEW p, Arrives(p)
    PROVE  /\ p \in Packet
           /\ BagToSet(wire') \subseteq Packet
           /\ rx_tid' \in Transids
           /\ Matching(p.header.tid) \subseteq Slots
           /\ \A i \in Matching(p.header.tid) : pendings_list[i].header \in Headers
<1> USE DEF IInv, TypeOK
<1>1. p \in Packet
  BY DEF Arrives, BagIn, BagToSet
<1>2. BagToSet(wire') \subseteq BagToSet(wire)
  BY DEF Arrives, BagToSet, SetToBag, (-)
<1>3. p.header.tid \in Transids
  BY <1>1 DEF Packet, Headers
<1>4. \A i \in Matching(p.header.tid) : pendings_list[i].header \in Headers
  BY <1>3 DEF Matching, Slot, Transids, NoHeader
<1> QED
  BY <1>1, <1>2, <1>3, <1>4 DEF Arrives, Matching

LEMMA RemoveType ==
    ASSUME IInv, NEW i \in Slots, removeItemFromPendingList(i)
    PROVE  /\ pendings_list' \in [Slots -> Slot]
           /\ heap_used' \in 0 .. TransactionMax
           /\ heap_head' = heap_head
           /\ SlotInv'
<1> USE DEF IInv, TypeOK
<1> DEFINE s == [pendings_list[i] EXCEPT !.status = "FREE"]
<1>1. s \in Slot /\ s.header = pendings_list[i].header
      /\ s.body = pendings_list[i].body /\ s.timer = pendings_list[i].timer
      /\ s.status = "FREE"
  BY SlotUpdates
<1>2. pendings_list' = [pendings_list EXCEPT ![i] = s]
  BY DEF removeItemFromPendingList
<1> HIDE DEF s
<1>3. pendings_list' \in [Slots -> Slot]
  BY <1>1, <1>2
<1>4. heap_used' \in 0 .. TransactionMax /\ heap_head' = heap_head
  BY DEF removeItemFromPendingList, Less
<1>5. SlotInv'
  BY <1>1, <1>2 DEF SlotInv
<1> QED
  BY <1>3, <1>4, <1>5

LEMMA MatchedSlot ==
    ASSUME IInv, NEW p, Arrives(p), Matching(p.header.tid) # {}
    PROVE  /\ Min(Matching(p.header.tid)) \in Slots
           /\ Min(Matching(p.header.tid)) \in Matching(p.header.tid)
<1>1. Matching(p.header.tid) \in SUBSET Nat
  BY ArrivesType DEF Slots
<1> QED
  BY <1>1, ArrivesType, MinOfNaturals

LEMMA TickedType ==
    ASSUME IInv
    PROVE  /\ Ticked \in [Slots -> Slot]
           /\ i_pending \in Slots
           /\ Expired => /\ pendings_list[i_pending].header \in Headers
                         /\ pendings_list[i_pending].body \in Bodies
           /\ \A i \in Slots :
                 /\ Ticked[i].timer =
                       IF i \in InUse THEN pendings_list[i].timer + 1
                                      ELSE pendings_list[i].timer
                 /\ Ticked[i].status = pendings_list[i].status
                 /\ Ticked[i].header = pendings_list[i].header
                 /\ Ticked[i].body = pendings_list[i].body
                 /\ Ticked[i].retries = pendings_list[i].retries
<1> USE DEF IInv, TypeOK
<1>0. ASSUME NEW i \in Slots
      PROVE  [pendings_list[i] EXCEPT !.timer = @ + 1] \in Slot
  BY SlotUpdates
<1>1. Ticked \in [Slots -> Slot]
  BY <1>0 DEF Ticked
<1>2. \A i \in Slots :
         /\ Ticked[i].timer = IF i \in InUse THEN pendings_list[i].timer + 1
                                             ELSE pendings_list[i].timer
         /\ Ticked[i].status = pendings_list[i].status
         /\ Ticked[i].header = pendings_list[i].header
         /\ Ticked[i].body = pendings_list[i].body
         /\ Ticked[i].retries = pendings_list[i].retries
  BY SlotUpdates DEF Ticked
<1>3. ASSUME Expired
      PROVE  /\ pendings_list[i_pending].header \in Headers
             /\ pendings_list[i_pending].body \in Bodies
  BY <1>2, <1>3 DEF Expired, SlotInv, InUse, Slot
<1> QED
  BY <1>1, <1>2, <1>3

-----------------------------------------------------------------------------
(***************************************************************************)
(* The actions preserve the inductive invariant.                           *)
(***************************************************************************)

LEMMA RequestAddIInv ==
    ASSUME IInv, NEW c \in Clients, NEW u \in Units, NEW b \in Bodies,
           RequestAdd(c, u, b)
    PROVE  IInv'
<1> DEFINE h == [tid |-> transid_cnt, unit |-> u, id |-> added + 1]
<1> USE DEF IInv
<1>1. h \in Headers
  BY DEF TypeOK, RequestAdd, Headers, Requests
<1>2. Queue!Accept(h, b)
  BY DEF RequestAdd
<1> HIDE DEF h
<1>3. /\ fifo' \in Seq(Request) /\ Len(fifo') <= QueueLen
      /\ fetched' \in Request \cup {Queue!NullRequest}
      /\ fetched \in Request => fetched' \in Request
  BY <1>1, <1>2, AcceptType
<1>4. transid_cnt' \in Transids /\ added' \in 0 .. MaxAdds
  BY DEF TypeOK, RequestAdd, NextTransid, Transids
<1>5. app' \in [Clients -> Bodies \cup {NoBody}]
  BY DEF TypeOK, RequestAdd
<1>6. UNCHANGED <<pc, pendVars, i_pending, rx_tid, tx, conf, wire, sends, calls>>
  BY DEF RequestAdd
<1>7. TypeOK'
  BY <1>3, <1>4, <1>5, <1>6 DEF TypeOK, pendVars
<1>8. PlaceInv' /\ SlotInv'
  BY <1>3, <1>6 DEF PlaceInv, SlotInv, pendVars
<1> QED
  BY <1>7, <1>8

LEMMA RequestAddFailsIInv ==
    ASSUME IInv, NEW c \in Clients, NEW b \in Bodies, RequestAddFails(c, b)
    PROVE  IInv'
<1> USE DEF IInv, RequestAddFails, Queue!RefuseFull, pendVars
<1>1. app' \in [Clients -> Bodies \cup {NoBody}]
  BY DEF TypeOK
<1>2. TypeOK'
  BY <1>1 DEF TypeOK
<1>3. PlaceInv' /\ SlotInv'
  BY DEF PlaceInv, SlotInv
<1> QED
  BY <1>2, <1>3

LEMMA RequestCallbackAddIInv ==
    ASSUME IInv, NEW c \in Clients, RequestCallbackAdd(c)
    PROVE  IInv'
<1> USE DEF IInv
<1>1. app[c] \in Bodies /\ app' \in [Clients -> Bodies \cup {NoBody}]
  BY DEF TypeOK, RequestCallbackAdd
<1>2. Queue!AttachCallback(app[c]) \/ UNCHANGED queueVars
  BY DEF RequestCallbackAdd
<1>3. fetched' = fetched
  BY <1>2 DEF Queue!AttachCallback, queueVars
<1>4. fifo' \in Seq(Request) /\ Len(fifo') <= QueueLen
  BY <1>1, <1>2, AttachType DEF queueVars, TypeOK
<1>5. UNCHANGED <<pc, transid_cnt, pendVars, i_pending, rx_tid, tx, conf, wire,
                  added, sends, calls>>
  BY DEF RequestCallbackAdd
<1>6. TypeOK'
  BY <1>1, <1>3, <1>4, <1>5 DEF TypeOK, pendVars
<1>7. PlaceInv' /\ SlotInv'
  BY <1>3, <1>5 DEF PlaceInv, SlotInv, pendVars
<1> QED
  BY <1>6, <1>7

\* The actions of the request phase but PlaceRequest leave the slots alone.
LEMMA RequestPhaseIInv ==
    ASSUME IInv,
           PendingListFull \/ RequestListEmpty \/ FetchRequest \/ DropRequest
    PROVE  IInv'
<1> USE DEF IInv
<1>1. UNCHANGED <<transid_cnt, pendVars, i_pending, rx_tid, tx, app, wire,
                  added, sends, calls>>
  BY DEF PendingListFull, RequestListEmpty, FetchRequest, DropRequest
<1>2. conf' \in [request : Statuses, receive : Statuses, pending : Statuses,
                pending_tid : Transids \cup {0}]
  BY DEF TypeOK, Statuses, PendingListFull, RequestListEmpty, FetchRequest, DropRequest
<1>3. /\ pc' \in {"request", "place", "receive", "timeout"}
      /\ fifo' \in Seq(Request) /\ Len(fifo') <= QueueLen
      /\ fetched' \in Request \cup {Queue!NullRequest}
      /\ PlaceInv'
  <2>1. CASE FetchRequest
    BY <2>1, FetchType DEF FetchRequest, TypeOK, PlaceInv, hasPendingListEnoughSpace,
                           pendVars
  <2>2. CASE PendingListFull \/ RequestListEmpty \/ DropRequest
    BY <2>2 DEF PendingListFull, RequestListEmpty, DropRequest, TypeOK, PlaceInv,
                queueVars
  <2> QED
    BY <2>1, <2>2
<1>4. TypeOK'
  BY <1>1, <1>2, <1>3 DEF TypeOK, pendVars
<1>5. SlotInv'
  BY <1>1 DEF SlotInv, pendVars
<1> QED
  BY <1>3, <1>4, <1>5

LEMMA PlaceIsSlot ==
    ASSUME IInv
    PROVE  /\ PlaceOfNewRequest \in Slots
           /\ PlaceOfNewRequest \in InUse => InUse = Slots
<1> USE DEF IInv, TypeOK
<1>1. CASE heap_head \in InUse /\ InUse # Slots
  <2>1. Slots \ InUse \in SUBSET Nat /\ Slots \ InUse # {}
    BY <1>1 DEF Slots, InUse
  <2> QED
    BY <1>1, <2>1, MinOfNaturals DEF PlaceOfNewRequest
<1>2. CASE ~(heap_head \in InUse /\ InUse # Slots)
  BY <1>2 DEF PlaceOfNewRequest
<1> QED
  BY <1>1, <1>2

LEMMA PlaceRequestIInv ==
    ASSUME IInv, PlaceRequest
    PROVE  IInv'
<1> DEFINE i == PlaceOfNewRequest
           s == [status |-> "INUSE", header |-> fetched.header,
                 body |-> fetched.body, cb |-> fetched.cb,
                 timer |-> 0, retries |-> 0]
<1> USE DEF IInv
<1>1. fetched \in Request /\ heap_used < TransactionMax
  BY DEF PlaceRequest, PlaceInv
<1>2. fetched.header \in Headers /\ fetched.body \in Bodies
  BY <1>1 DEF Request
<1>3. s \in Slot /\ s.header \in Headers /\ s.body \in Bodies
  BY <1>1 DEF Request, Slot
<1>4. i \in Slots
  BY PlaceIsSlot
<1>5. /\ pendings_list' = [pendings_list EXCEPT ![i] = s]
      /\ heap_head' = IF i + 1 >= TransactionMax THEN 0 ELSE i + 1
      /\ heap_used' = heap_used + 1
  BY DEF PlaceRequest, addNewRequestToPendingList
<1> HIDE DEF i, s
<1>6. pendings_list' \in [Slots -> Slot] /\ SlotInv'
  BY <1>3, <1>4, <1>5 DEF TypeOK, SlotInv
<1>7. heap_head' \in Slots /\ heap_used' \in 0 .. TransactionMax
  BY <1>1, <1>4, <1>5 DEF Slots, TypeOK
<1>8. /\ tx' \in [header : Headers \cup {NoHeader}, body : Bodies \cup {NoBody}]
      /\ BagToSet(wire') \subseteq Packet
      /\ sends' \in [Requests -> Nat]
  BY <1>2, SendType DEF PlaceRequest
<1>9. /\ pc' = "receive"
      /\ UNCHANGED <<queueVars, transid_cnt, i_pending, rx_tid, conf, app, added, calls>>
  BY DEF PlaceRequest
<1>10. TypeOK' /\ PlaceInv'
  BY <1>6, <1>7, <1>8, <1>9 DEF TypeOK, PlaceInv, queueVars
<1> QED
  BY <1>6, <1>10

\* What every arrival leaves to show.
LEMMA ArrivesIInv ==
    ASSUME IInv, NEW p, Arrives(p),
           pendings_list' \in [Slots -> Slot],
           heap_used' \in 0 .. TransactionMax,
           heap_head' = heap_head,
           SlotInv',
           NEW st \in Statuses, conf' = [conf EXCEPT !.receive = st],
           calls' \in [Requests -> Nat]
    PROVE  IInv'
<1> USE DEF IInv
<1>1. rx_tid' \in Transids /\ BagToSet(wire') \subseteq Packet
  BY ArrivesType
<1>2. conf' \in [request : Statuses, receive : Statuses, pending : Statuses,
                pending_tid : Transids \cup {0}]
  BY DEF TypeOK
<1>3. /\ pc' = "timeout"
      /\ UNCHANGED <<queueVars, transid_cnt, i_pending, tx, app, added, sends>>
  BY DEF Arrives
<1>4. TypeOK' /\ PlaceInv'
  BY <1>1, <1>2, <1>3 DEF TypeOK, PlaceInv, queueVars
<1> QED
  BY <1>4

LEMMA KeptSlotsIInv ==
    ASSUME IInv, UNCHANGED pendVars
    PROVE  /\ pendings_list' \in [Slots -> Slot]
           /\ heap_used' \in 0 .. TransactionMax
           /\ heap_head' = heap_head
           /\ SlotInv'
BY DEF IInv, TypeOK, SlotInv, pendVars

LEMMA ReceiveIInv ==
    ASSUME IInv, Receive
    PROVE  IInv'
<1> USE DEF Statuses
<1>1. CASE ReceiveNothing
  <2>1. conf' \in [request : Statuses, receive : Statuses, pending : Statuses,
                  pending_tid : Transids \cup {0}]
    BY <1>1 DEF ReceiveNothing, IInv, TypeOK
  <2>2. /\ pc' = "timeout"
        /\ UNCHANGED <<queueVars, transid_cnt, pendVars, i_pending, rx_tid, tx, app,
                       wire, added, sends, calls>>
    BY <1>1 DEF ReceiveNothing
  <2> QED
    BY <2>1, <2>2 DEF IInv, TypeOK, PlaceInv, SlotInv, queueVars, pendVars
<1>2. ASSUME NEW p \in BagToSet(wire), ReceiveUnknown(p)
      PROVE  IInv'
  <2>1. calls' \in [Requests -> Nat]
    BY <1>2 DEF ReceiveUnknown, IInv, TypeOK
  <2> QED
    BY <1>2, <2>1, ArrivesIInv, KeptSlotsIInv DEF ReceiveUnknown
<1>3. ASSUME NEW p \in BagToSet(wire), ReceiveBadProtocol(p)
      PROVE  IInv'
  <2>1. calls' \in [Requests -> Nat]
    BY <1>3 DEF ReceiveBadProtocol, IInv, TypeOK
  <2> QED
    BY <1>3, <2>1, ArrivesIInv, KeptSlotsIInv DEF ReceiveBadProtocol
<1>4. ASSUME NEW p \in BagToSet(wire),
             ReceiveOtherFunction(p) \/ ReceiveException(p)
      PROVE  IInv'
  <2> DEFINE i == Min(Matching(p.header.tid))
  <2>1. Arrives(p) /\ Matching(p.header.tid) # {} /\ removeItemFromPendingList(i)
    BY <1>4 DEF ReceiveOtherFunction, ReceiveException
  <2>2. i \in Slots
    BY <2>1, MatchedSlot
  <2>3. calls' \in [Requests -> Nat]
    BY <1>4 DEF ReceiveOtherFunction, ReceiveException, IInv, TypeOK
  <2>4. \E st \in Statuses : conf' = [conf EXCEPT !.receive = st]
    BY <1>4 DEF ReceiveOtherFunction, ReceiveException
  <2> HIDE DEF i
  <2> QED
    BY <2>1, <2>2, <2>3, <2>4, RemoveType, ArrivesIInv
<1>5. ASSUME NEW p \in BagToSet(wire), ReceiveResponse(p)
      PROVE  IInv'
  <2> DEFINE i == Min(Matching(p.header.tid))
  <2>1. /\ Arrives(p) /\ Matching(p.header.tid) # {}
        /\ removeItemFromPendingList(i)
        /\ calls' = [calls EXCEPT ![pendings_list[i].header.id] = @ + 1]
        /\ conf' = [conf EXCEPT !.receive = "POZITIVE"]
    BY <1>5 DEF ReceiveResponse
  <2>2. i \in Slots /\ i \in Matching(p.header.tid)
    BY <2>1, MatchedSlot
  <2> HIDE DEF i
  <2>3. pendings_list[i].header \in Headers
    BY <2>1, <2>2, ArrivesType
  <2>4. calls' \in [Requests -> Nat]
    BY <2>1, <2>3 DEF Headers, IInv, TypeOK
  <2> QED
    BY <2>1, <2>2, <2>4, RemoveType, ArrivesIInv
<1> QED
  BY <1>1, <1>2, <1>3, <1>4, <1>5 DEF Receive

\* What the three ends of Run leave to show.
LEMMA FinishIInv ==
    ASSUME IInv, NEW st \in Statuses, FinishRun(st),
           pendings_list' \in [Slots -> Slot],
           heap_used' \in 0 .. TransactionMax,
           SlotInv',
           tx' \in [header : Headers \cup {NoHeader}, body : Bodies \cup {NoBody}],
           BagToSet(wire') \subseteq Packet,
           sends' \in [Requests -> Nat]
    PROVE  IInv'
<1> USE DEF IInv
<1>1. conf' \in [request : Statuses, receive : Statuses, pending : Statuses,
                pending_tid : Transids \cup {0}]
  BY DEF TypeOK, FinishRun
<1>2. i_pending' \in Slots
  BY DEF TypeOK, FinishRun, Slots
<1>3. /\ pc' = "request"
      /\ UNCHANGED <<queueVars, transid_cnt, heap_head, rx_tid, app, added, calls>>
  BY DEF FinishRun
<1>4. TypeOK' /\ PlaceInv'
  BY <1>1, <1>2, <1>3 DEF TypeOK, PlaceInv, queueVars
<1> QED
  BY <1>4

LEMMA KeepWaitingIInv ==
    ASSUME IInv, KeepWaiting
    PROVE  IInv'
<1>1. pendings_list' \in [Slots -> Slot]
  BY TickedType DEF KeepWaiting
<1>2. SlotInv'
  BY TickedType DEF KeepWaiting, SlotInv, IInv, InUse
<1>3. UNCHANGED <<heap_used, tx, wire, sends>> /\ FinishRun("NONE")
  BY DEF KeepWaiting
<1> QED
  BY <1>1, <1>2, <1>3, FinishIInv DEF IInv, TypeOK, Statuses

LEMMA RetransmitIInv ==
    ASSUME IInv, Retransmit
    PROVE  IInv'
<1> DEFINE i == i_pending
           s == [Ticked[i] EXCEPT !.timer = 0, !.retries = @ + 1]
<1>1. Expired /\ FinishRun("NONE") /\ UNCHANGED heap_used
  BY DEF Retransmit
<1>2. i \in Slots /\ pendings_list[i].header \in Headers
                  /\ pendings_list[i].body \in Bodies
  BY <1>1, TickedType
<1>3. Ticked[i] \in Slot
  BY <1>2, TickedType
<1>4. s \in Slot /\ s.header = Ticked[i].header /\ s.body = Ticked[i].body
  BY <1>3, SlotRestarts
<1>5. pendings_list' = [Ticked EXCEPT ![i] = s]
  BY DEF Retransmit
<1> HIDE DEF i, s
<1>6. pendings_list' \in [Slots -> Slot]
  BY <1>2, <1>4, <1>5, TickedType
<1>7. SlotInv'
  BY <1>2, <1>4, <1>5, TickedType DEF SlotInv, IInv, InUse
<1>8. /\ tx' \in [header : Headers \cup {NoHeader}, body : Bodies \cup {NoBody}]
      /\ BagToSet(wire') \subseteq Packet
      /\ sends' \in [Requests -> Nat]
  BY <1>2, SendType DEF Retransmit, i
<1> QED
  BY <1>1, <1>6, <1>7, <1>8, FinishIInv DEF IInv, TypeOK, Statuses

LEMMA GiveUpIInv ==
    ASSUME IInv, GiveUp
    PROVE  IInv'
<1> DEFINE i == i_pending
           s == [Ticked[i] EXCEPT !.timer = 0, !.retries = @ + 1, !.status = "FREE"]
<1>1. Expired /\ FinishRun("NEGATIVE") /\ UNCHANGED <<tx, wire, sends>>
  BY DEF GiveUp
<1>2. i \in Slots /\ pendings_list[i].header \in Headers
                  /\ pendings_list[i].body \in Bodies
  BY <1>1, TickedType
<1>3. Ticked[i] \in Slot
  BY <1>2, TickedType
<1>4. s \in Slot /\ s.header = Ticked[i].header /\ s.body = Ticked[i].body
  BY <1>3, SlotRestarts
<1>5. pendings_list' = [Ticked EXCEPT ![i] = s]
  BY DEF GiveUp
<1> HIDE DEF i, s
<1>6. pendings_list' \in [Slots -> Slot]
  BY <1>2, <1>4, <1>5, TickedType
<1>7. SlotInv'
  BY <1>2, <1>4, <1>5, TickedType DEF SlotInv, IInv, InUse
<1>8. heap_used' \in 0 .. TransactionMax
  BY DEF GiveUp, Less, IInv, TypeOK
<1> QED
  BY <1>1, <1>6, <1>7, <1>8, FinishIInv DEF IInv, TypeOK, Statuses

LEMMA NextIInv == IInv /\ [Next]_vars => IInv'
<1> SUFFICES ASSUME IInv, [Next]_vars PROVE IInv'
  OBVIOUS
<1>1. CASE Application
  BY <1>1, RequestAddIInv, RequestAddFailsIInv, RequestCallbackAddIInv DEF Application
<1>2. CASE PendingListFull \/ RequestListEmpty \/ FetchRequest \/ DropRequest
  BY <1>2, RequestPhaseIInv
<1>3. CASE PlaceRequest
  BY <1>3, PlaceRequestIInv
<1>4. CASE Receive
  BY <1>4, ReceiveIInv
<1>5. CASE KeepWaiting \/ Retransmit \/ GiveUp
  BY <1>5, KeepWaitingIInv, RetransmitIInv, GiveUpIInv
<1>6. CASE UNCHANGED vars
  BY <1>6 DEF vars, IInv, TypeOK, PlaceInv, SlotInv
<1> QED
  BY <1>1, <1>2, <1>3, <1>4, <1>5, <1>6 DEF Next, Run

THEOREM Inductive == Spec => []IInv
BY InitIInv, NextIInv, PTL DEF Spec

(***************************************************************************)
(* Every variable keeps its type: the list is never indexed outside, the   *)
(* counter field_used stays within the list though give-ups count twice.   *)
(***************************************************************************)
THEOREM TypeCorrect == Spec => []TypeOK
<1>1. IInv => TypeOK
  BY DEF IInv
<1> QED
  BY <1>1, Inductive, PTL

-----------------------------------------------------------------------------
(***************************************************************************)
(* The safety properties of the pending list.  A step leaves the list      *)
(* alone, fills a slot, frees one, or is a timeout phase; the four cases   *)
(* are stated by their effect on the set of the slots in use.              *)
(***************************************************************************)
Untouched == UNCHANGED <<pendings_list, heap_used, i_pending>>

Freed(i) == removeItemFromPendingList(i) /\ i_pending' = i_pending

TimeoutPhase == KeepWaiting \/ Retransmit \/ GiveUp

LEMMA StepOfPendingList ==
    ASSUME IInv, [Next]_vars
    PROVE  \/ Untouched
           \/ PlaceRequest
           \/ \E i \in Slots : Freed(i)
           \/ TimeoutPhase
<1>1. CASE Application
  BY <1>1 DEF Application, RequestAdd, RequestAddFails, RequestCallbackAdd,
              Untouched, pendVars
<1>2. CASE PendingListFull \/ RequestListEmpty \/ FetchRequest \/ DropRequest
  BY <1>2 DEF PendingListFull, RequestListEmpty, FetchRequest, DropRequest,
              Untouched, pendVars
<1>3. CASE Receive
  <2>1. ASSUME NEW p \in BagToSet(wire),
               ReceiveOtherFunction(p) \/ ReceiveException(p) \/ ReceiveResponse(p)
        PROVE  \E i \in Slots : Freed(i)
    <3>1. /\ Arrives(p) /\ Matching(p.header.tid) # {}
          /\ removeItemFromPendingList(Min(Matching(p.header.tid)))
      BY <2>1 DEF ReceiveOtherFunction, ReceiveException, ReceiveResponse
    <3>2. i_pending' = i_pending
      BY <3>1 DEF Arrives
    <3> QED
      BY <3>1, <3>2, MatchedSlot DEF Freed
  <2>2. ASSUME NEW p \in BagToSet(wire), ReceiveUnknown(p) \/ ReceiveBadProtocol(p)
        PROVE  Untouched
    BY <2>2 DEF ReceiveUnknown, ReceiveBadProtocol, Arrives, Untouched, pendVars
  <2>3. CASE ReceiveNothing
    BY <2>3 DEF ReceiveNothing, Untouched, pendVars
  <2> QED
    BY <1>3, <2>1, <2>2, <2>3 DEF Receive
<1>4. CASE UNCHANGED vars
  BY <1>4 DEF vars, Untouched
<1> QED
  BY <1>1, <1>2, <1>3, <1>4 DEF Next, Run, TimeoutPhase

\* PlaceRequest fills a slot that was free, unless none was.
LEMMA Filled ==
    ASSUME IInv, PlaceRequest
    PROVE  /\ PlaceOfNewRequest \in Slots
           /\ InUse' = InUse \cup {PlaceOfNewRequest}
           /\ PlaceOfNewRequest \in InUse => InUse = Slots
           /\ heap_used' = heap_used + 1 /\ heap_used < TransactionMax
           /\ i_pending' = i_pending
           /\ pendings_list'[PlaceOfNewRequest].body = fetched.body
           /\ pendings_list'[PlaceOfNewRequest].timer = 0
           /\ \A j \in Slots \ {PlaceOfNewRequest} :
                  pendings_list'[j] = pendings_list[j]
<1> DEFINE i == PlaceOfNewRequest
           s == [status |-> "INUSE", header |-> fetched.header,
                 body |-> fetched.body, cb |-> fetched.cb,
                 timer |-> 0, retries |-> 0]
<1>1. i \in Slots /\ (i \in InUse => InUse = Slots)
  BY PlaceIsSlot
<1>2. /\ pendings_list' = [pendings_list EXCEPT ![i] = s]
      /\ heap_used' = heap_used + 1 /\ i_pending' = i_pending
  BY DEF PlaceRequest, addNewRequestToPendingList
<1>3. s.status = "INUSE" /\ s.body = fetched.body /\ s.timer = 0
  OBVIOUS
<1>4. heap_used < TransactionMax
  BY DEF PlaceRequest, IInv, PlaceInv
<1> HIDE DEF i, s
<1>5. pendings_list'[i] = s /\ \A j \in Slots \ {i} : pendings_list'[j] = pendings_list[j]
  BY <1>1, <1>2 DEF IInv, TypeOK
<1>6. InUse' = InUse \cup {i}
  BY <1>1, <1>3, <1>5 DEF InUse
<1> QED
  BY <1>1, <1>2, <1>3, <1>4, <1>5, <1>6 DEF i

LEMMA FreedSlot ==
    ASSUME IInv, NEW i \in Slots, Freed(i)
    PROVE  /\ InUse' = InUse \ {i}
           /\ heap_used' = Less(heap_used)
           /\ i_pending' = i_pending
           /\ \A j \in Slots \ {i} : pendings_list'[j] = pendings_list[j]
<1>1. /\ pendings_list'[i].status = "FREE"
      /\ \A j \in Slots \ {i} : pendings_list'[j] = pendings_list[j]
  BY SlotUpdates DEF IInv, TypeOK, Freed, removeItemFromPendingList
<1>2. InUse' = InUse \ {i}
  BY <1>1 DEF InUse
<1> QED
  BY <1>1, <1>2 DEF Freed, removeItemFromPendingList

\* The timeout phase looks at the slot i_pending only.
LEMMA TimeoutPhaseSlots ==
    ASSUME IInv, TimeoutPhase
    PROVE  /\ i_pending \in Slots
           /\ i_pending' = IF i_pending + 1 >= TransactionMax THEN 0 ELSE i_pending + 1
           /\ \/ InUse' = InUse /\ heap_used' = heap_used
              \/ /\ InUse' = InUse \ {i_pending}
                 /\ heap_used' = Less(Less(heap_used))
           /\ \A j \in Slots : pendings_list'[j].body = pendings_list[j].body
           /\ \A j \in InUse \ {i_pending} :
                  pendings_list'[j].timer = pendings_list[j].timer + 1
           /\ i_pending \in InUse' => pendings_list'[i_pending].timer < TimeoutResponse
<1> DEFINE i == i_pending
           r == [Ticked[i] EXCEPT !.timer = 0, !.retries = @ + 1]
           f == [Ticked[i] EXCEPT !.timer = 0, !.retries = @ + 1, !.status = "FREE"]
<1>1. i \in Slots /\ Ticked \in [Slots -> Slot] /\ Ticked[i] \in Slot
  BY TickedType
<1>2. /\ r.body = Ticked[i].body /\ r.status = Ticked[i].status /\ r.timer = 0
      /\ f.body = Ticked[i].body /\ f.status = "FREE"
  BY <1>1, SlotRestarts
<1>3. i_pending' = IF i + 1 >= TransactionMax THEN 0 ELSE i + 1
  BY DEF TimeoutPhase, KeepWaiting, Retransmit, GiveUp, FinishRun
<1>4. CASE KeepWaiting
  <2>1. pendings_list' = Ticked /\ heap_used' = heap_used /\ ~Expired
    BY <1>4 DEF KeepWaiting
  <2>2. InUse' = InUse
    BY <2>1, TickedType DEF InUse
  <2>3. Ticked[i].timer < TimeoutResponse
    BY <1>1, <2>1 DEF Expired, Slot
  <2> QED
    BY <1>1, <1>3, <2>1, <2>2, <2>3, TickedType DEF InUse
<1>5. CASE Retransmit
  <2>1. pendings_list' = [Ticked EXCEPT ![i] = r] /\ heap_used' = heap_used
    BY <1>5 DEF Retransmit
  <2> HIDE DEF i, r
  <2>2. pendings_list'[i] = r /\ \A j \in Slots \ {i} : pendings_list'[j] = Ticked[j]
    BY <1>1, <2>1
  <2>3. InUse' = InUse
    BY <1>1, <1>2, <2>2, TickedType DEF InUse
  <2> QED
    BY <1>1, <1>2, <1>3, <2>1, <2>2, <2>3, TickedType DEF InUse, i
<1>6. CASE GiveUp
  <2>1. /\ pendings_list' = [Ticked EXCEPT ![i] = f]
        /\ heap_used' = Less(Less(heap_used))
    BY <1>6 DEF GiveUp
  <2> HIDE DEF i, f
  <2>2. pendings_list'[i] = f /\ \A j \in Slots \ {i} : pendings_list'[j] = Ticked[j]
    BY <1>1, <2>1
  <2>3. InUse' = InUse \ {i}
    BY <1>1, <1>2, <2>2, TickedType DEF InUse
  <2> QED
    BY <1>1, <1>2, <1>3, <2>1, <2>2, <2>3, TickedType DEF InUse, i
<1> QED
  BY <1>4, <1>5, <1>6 DEF TimeoutPhase

LEMMA InUseFinite ==
    /\ InUse \subseteq Slots
    /\ IsFiniteSet(InUse)
    /\ Cardinality(InUse) \in Nat
<1>1. InUse \subseteq Slots
  BY DEF InUse
<1>2. IsFiniteSet(InUse)
  BY <1>1, SlotsFinite, FS_Subset
<1> QED
  BY <1>1, <1>2, FS_CardinalityType

(***************************************************************************)
(* hasPendingListEnoughSpace holds requests back only while the list       *)
(* really is full: field_used never counts a slot nobody uses, though a    *)
(* give-up and a late answer count a slot down that was already counted.   *)
(***************************************************************************)
THEOREM NoSlotIsLeaked == Spec => []NoSlotLeak
<1>1. Init => NoSlotLeak
  <2> SUFFICES ASSUME Init PROVE NoSlotLeak
    OBVIOUS
  <2>1. heap_used = 0
    BY DEF Init
  <2> QED
    BY <2>1, InUseFinite DEF NoSlotLeak
<1>2. IInv /\ NoSlotLeak /\ [Next]_vars => NoSlotLeak'
  <2> SUFFICES ASSUME IInv, NoSlotLeak, [Next]_vars PROVE NoSlotLeak'
    OBVIOUS
  <2> USE InUseFinite DEF NoSlotLeak
  <2>1. heap_used \in 0 .. TransactionMax
    BY DEF IInv, TypeOK
  <2>2. CASE Untouched
    BY <2>2 DEF Untouched, InUse
  <2>3. CASE PlaceRequest
    <3> DEFINE i == PlaceOfNewRequest
    <3>1. /\ i \in Slots /\ InUse' = InUse \cup {i}
          /\ i \in InUse => InUse = Slots
          /\ heap_used' = heap_used + 1 /\ heap_used < TransactionMax
      BY <2>3, Filled
    <3> HIDE DEF i
    <3>2. CASE i \in InUse
      <4>1. InUse' = Slots
        BY <3>1, <3>2
      <4> QED
        BY <2>1, <3>1, <4>1, SlotsFinite
    <3>3. CASE i \notin InUse
      <4>1. Cardinality(InUse \cup {i}) = Cardinality(InUse) + 1
        BY <3>3, FS_AddElement
      <4> QED
        BY <2>1, <3>1, <4>1
    <3> QED
      BY <3>2, <3>3
  <2>4. \A i : Cardinality(InUse \ {i}) >= Cardinality(InUse) - 1
               /\ Cardinality(InUse \ {i}) \in Nat
    <3> TAKE i
    <3>1. CASE i \in InUse
      <4>1. IsFiniteSet(InUse \ {i})
               /\ Cardinality(InUse \ {i}) = Cardinality(InUse) - 1
        BY <3>1, FS_RemoveElement
      <4>2. Cardinality(InUse \ {i}) \in Nat
        BY <4>1, FS_CardinalityType
      <4> QED
        BY <4>1, <4>2
    <3>2. CASE i \notin InUse
      <4>1. InUse \ {i} = InUse
        BY <3>2
      <4> QED
        BY <4>1
    <3> QED
      BY <3>1, <3>2
  <2>5. CASE \E i \in Slots : Freed(i)
    <3>1. PICK i \in Slots : InUse' = InUse \ {i} /\ heap_used' = Less(heap_used)
      BY <2>5, FreedSlot
    <3> QED
      BY <2>1, <2>4, <3>1 DEF Less
  <2>6. CASE TimeoutPhase
    <3>1. \/ InUse' = InUse /\ heap_used' = heap_used
          \/ /\ InUse' = InUse \ {i_pending}
             /\ heap_used' = Less(Less(heap_used))
      BY <2>6, TimeoutPhaseSlots
    <3>2. CASE InUse' = InUse /\ heap_used' = heap_used
      BY <3>2
    <3>3. CASE InUse' = InUse \ {i_pending} /\ heap_used' = Less(Less(heap_used))
      <4>1. Less(Less(heap_used)) <= Cardinality(InUse \ {i_pending})
        BY <2>1, <2>4 DEF Less
      <4> QED
        BY <3>3, <4>1
    <3> QED
      BY <3>1, <3>2, <3>3
  <2> QED
    BY <2>2, <2>3, <2>5, <2>6, StepOfPendingList
<1> QED
  BY <1>1, <1>2, Inductive, PTL DEF Spec

(***************************************************************************)
(* No two requests that wait for an answer are the same.                   *)
(***************************************************************************)
THEOREM RequestsInFlightDistinct == Spec => []DistinctInFlight
<1>1. Init => DistinctInFlight
  BY DEF Init, DistinctInFlight, InUse
<1>2. IInv /\ DistinctInFlight /\ [Next]_vars => DistinctInFlight'
  <2> SUFFICES ASSUME IInv, DistinctInFlight, [Next]_vars PROVE DistinctInFlight'
    OBVIOUS
  <2> USE InUseFinite DEF DistinctInFlight
  <2>1. CASE Untouched
    BY <2>1 DEF Untouched, InUse
  <2>2. CASE PlaceRequest
    <3>1. \A i \in InUse : pendings_list[i].body # fetched.body
      BY <2>2 DEF PlaceRequest, isSamePackageExistInPendingList
    <3> QED
      BY <2>2, <3>1, Filled
  <2>3. CASE \E i \in Slots : Freed(i)
    BY <2>3, FreedSlot
  <2>4. CASE TimeoutPhase
    BY <2>4, TimeoutPhaseSlots
  <2> QED
    BY <2>1, <2>2, <2>3, <2>4, StepOfPendingList
<1> QED
  BY <1>1, <1>2, Inductive, PTL DEF Spec

(***************************************************************************)
(* One slot is looked at per call of Run, so a timeout is noticed late,    *)
(* but never by more than a round of the list: after TimeoutResponse +     *)
(* TransactionMax - 2 calls an unanswered request has been retransmitted   *)
(* or given up.                                                            *)
(***************************************************************************)
Turns(i) == IF i_pending <= i THEN i - i_pending ELSE i - i_pending + TransactionMax

TimerBounded ==
    \A i \in InUse :
        pendings_list[i].timer + Turns(i) + 1 < TimeoutResponse + TransactionMax

(***************************************************************************)
(* Though one slot only is looked at per call of Run, a request that is    *)
(* not answered is retransmitted or given up within TimeoutResponse +      *)
(* TransactionMax - 2 calls.                                               *)
(***************************************************************************)
THEOREM TimeoutsAreNoticed == Spec => []TimerBounded
<1>1. Init => TimerBounded
  BY DEF Init, TimerBounded, InUse
<1>2. IInv /\ TimerBounded /\ [Next]_vars => TimerBounded'
  <2> SUFFICES ASSUME IInv, TimerBounded, [Next]_vars PROVE TimerBounded'
    OBVIOUS
  <2> USE InUseFinite DEF TimerBounded
  <2>1. /\ i_pending \in Slots /\ Slots = 0 .. TransactionMax - 1
        /\ \A j \in Slots : pendings_list[j].timer \in Nat
    BY DEF IInv, TypeOK, Slot, Slots
  <2>2. CASE Untouched
    BY <2>2 DEF Untouched, InUse, Turns
  <2>3. CASE PlaceRequest
    <3> SUFFICES ASSUME NEW j \in InUse'
                 PROVE  pendings_list'[j].timer + Turns(j)' + 1
                            < TimeoutResponse + TransactionMax
      OBVIOUS
    <3>1. i_pending' = i_pending
      BY <2>3, Filled
    <3>2. CASE j = PlaceOfNewRequest
      <4>1. j \in Slots /\ pendings_list'[j].timer = 0
        BY <2>3, <3>2, Filled
      <4> QED
        BY <2>1, <3>1, <4>1 DEF Turns
    <3>3. CASE j # PlaceOfNewRequest
      <4>1. j \in InUse /\ pendings_list'[j] = pendings_list[j]
        BY <2>3, <3>3, Filled
      <4> QED
        BY <3>1, <4>1 DEF Turns
    <3> QED
      BY <3>2, <3>3
  <2>4. CASE \E i \in Slots : Freed(i)
    BY <2>4, FreedSlot DEF Turns
  <2>5. CASE TimeoutPhase
    <3> SUFFICES ASSUME NEW j \in InUse'
                 PROVE  pendings_list'[j].timer + Turns(j)' + 1
                            < TimeoutResponse + TransactionMax
      OBVIOUS
    <3>1. /\ j \in InUse
          /\ i_pending' = IF i_pending + 1 >= TransactionMax THEN 0 ELSE i_pending + 1
      BY <2>5, TimeoutPhaseSlots
    <3>2. j \in 0 .. TransactionMax - 1 /\ i_pending \in 0 .. TransactionMax - 1
      BY <2>1, <3>1 DEF InUse
    <3>3. CASE j = i_pending
      <4>1. pendings_list'[j].timer < TimeoutResponse
        BY <2>5, <3>3, TimeoutPhaseSlots
      <4>2. pendings_list'[j].timer \in Nat
        BY <3>1, NextIInv DEF IInv, TypeOK, Slot
      <4>3. Turns(j)' = TransactionMax - 1
        BY <3>1, <3>2, <3>3 DEF Turns
      <4> QED
        BY <4>1, <4>2, <4>3
    <3>4. CASE j # i_pending
      <4>1. pendings_list'[j].timer = pendings_list[j].timer + 1
        BY <2>5, <3>1, <3>4, TimeoutPhaseSlots
      <4>2. Turns(j)' = Turns(j) - 1 /\ Turns(j) \in Int
        BY <3>1, <3>2, <3>4 DEF Turns
      <4>3. pendings_list[j].timer \in Nat
        BY <2>1, <3>2
      <4>4. pendings_list[j].timer + Turns(j) + 1 < TimeoutResponse + TransactionMax
        BY <3>1
      <4> QED
        BY <4>1, <4>2, <4>3, <4>4
    <3> QED
      BY <3>3, <3>4
  <2> QED
    BY <2>2, <2>3, <2>4, <2>5, StepOfPendingList
<1> QED
  BY <1>1, <1>2, Inductive, PTL DEF Spec
-----------------------------------------------------------------------------
(***************************************************************************)
(* The steps that count field_used down once more than a slot in use is    *)
(* freed: a give-up while another request is in flight, and an answer to a *)
(* slot that is free already while any is.                                 *)
(***************************************************************************)
CountsTwice ==
    \/ GiveUp /\ InUse \ {i_pending} # {}
    \/ InUse # {} /\ \E i \in Slots \ InUse : Freed(i)

CountIsExact == heap_used = Cardinality(InUse)

PlaceIsFree == pc = "place" => PlaceOfNewRequest \notin InUse

LEMMA CardinalityWithout ==
    ASSUME NEW i
    PROVE  /\ i \in InUse => Cardinality(InUse \ {i}) = Cardinality(InUse) - 1
           /\ i \notin InUse => Cardinality(InUse \ {i}) = Cardinality(InUse)
           /\ Cardinality(InUse \ {i}) \in Nat
           /\ Cardinality(InUse \ {i}) = 0 <=> InUse \ {i} = {}
           /\ Cardinality(InUse) = 0 <=> InUse = {}
<1>1. IsFiniteSet(InUse \ {i})
  BY InUseFinite, FS_Subset
<1>2. i \in InUse => Cardinality(InUse \ {i}) = Cardinality(InUse) - 1
  BY InUseFinite, FS_RemoveElement
<1>3. i \notin InUse => InUse \ {i} = InUse
  OBVIOUS
<1> QED
  BY <1>1, <1>2, <1>3, InUseFinite, FS_CardinalityType, FS_EmptySet

LEMMA SameSlotsInUse ==
    ASSUME IInv, KeepWaiting \/ Retransmit
    PROVE  InUse' = InUse
<1> DEFINE i == i_pending
           r == [Ticked[i] EXCEPT !.timer = 0, !.retries = @ + 1]
<1>1. i \in Slots /\ Ticked \in [Slots -> Slot] /\ Ticked[i] \in Slot
  BY TickedType
<1>2. r.status = Ticked[i].status
  BY <1>1, SlotRestarts
<1>3. CASE KeepWaiting
  BY <1>3, TickedType DEF KeepWaiting, InUse
<1>4. CASE Retransmit
  <2>1. pendings_list' = [Ticked EXCEPT ![i] = r]
    BY <1>4 DEF Retransmit
  <2> HIDE DEF i, r
  <2>2. pendings_list'[i] = r /\ \A j \in Slots \ {i} : pendings_list'[j] = Ticked[j]
    BY <1>1, <2>1
  <2> QED
    BY <1>1, <1>2, <2>2, TickedType DEF InUse
<1> QED
  BY <1>3, <1>4

LEMMA GivenUp ==
    ASSUME IInv, GiveUp
    PROVE  InUse' = InUse \ {i_pending} /\ heap_used' = Less(Less(heap_used))
<1> DEFINE i == i_pending
           f == [Ticked[i] EXCEPT !.timer = 0, !.retries = @ + 1, !.status = "FREE"]
<1>1. i \in Slots /\ Ticked \in [Slots -> Slot] /\ Ticked[i] \in Slot
  BY TickedType
<1>2. f.status = "FREE"
  BY <1>1, SlotRestarts
<1>3. pendings_list' = [Ticked EXCEPT ![i] = f] /\ heap_used' = Less(Less(heap_used))
  BY DEF GiveUp
<1> HIDE DEF i, f
<1>4. pendings_list'[i] = f /\ \A j \in Slots \ {i} : pendings_list'[j] = Ticked[j]
  BY <1>1, <1>3
<1>5. InUse' = InUse \ {i}
  BY <1>1, <1>2, <1>4, TickedType DEF InUse
<1> QED
  BY <1>3, <1>5 DEF i

LEMMA ExactStep ==
    ASSUME IInv, CountIsExact, [Next]_vars
    PROVE  CountsTwice \/ CountIsExact'
<1> USE InUseFinite
<1>0. heap_used \in Nat
  BY DEF IInv, TypeOK
<1>1. CASE Untouched
  BY <1>1 DEF Untouched, InUse, CountIsExact
<1>2. CASE PlaceRequest
  <2> DEFINE i == PlaceOfNewRequest
  <2>1. /\ InUse' = InUse \cup {i}
        /\ i \in InUse => InUse = Slots
        /\ heap_used' = heap_used + 1 /\ heap_used < TransactionMax
    BY <1>2, Filled
  <2> HIDE DEF i
  <2>2. i \notin InUse
    BY <1>0, <2>1, SlotsFinite DEF CountIsExact
  <2>3. Cardinality(InUse \cup {i}) = Cardinality(InUse) + 1
    BY <2>2, FS_AddElement
  <2> QED
    BY <2>1, <2>3 DEF CountIsExact
<1>3. ASSUME NEW i \in Slots, Freed(i), ~CountsTwice
      PROVE  CountIsExact'
  <2>1. InUse' = InUse \ {i} /\ heap_used' = Less(heap_used)
    BY <1>3, FreedSlot
  <2>2. i \in InUse \/ InUse = {}
    BY <1>3 DEF CountsTwice
  <2>3. Less(heap_used) = Cardinality(InUse \ {i})
    BY <1>0, <2>2, CardinalityWithout DEF Less, CountIsExact
  <2> QED
    BY <2>1, <2>3 DEF CountIsExact
<1>4. CASE KeepWaiting \/ Retransmit
  <2>1. InUse' = InUse /\ heap_used' = heap_used
    <3>1. heap_used' = heap_used
      BY <1>4 DEF KeepWaiting, Retransmit
    <3>2. InUse' = InUse
      BY <1>4, SameSlotsInUse
    <3> QED
      BY <3>1, <3>2
  <2> QED
    BY <2>1 DEF CountIsExact
<1>5. ASSUME GiveUp, ~CountsTwice
      PROVE  CountIsExact'
  <2> DEFINE i == i_pending
  <2>1. /\ InUse' = InUse \ {i} /\ heap_used' = Less(Less(heap_used))
    BY <1>5, GivenUp
  <2>2. InUse \ {i} = {}
    BY <1>5 DEF CountsTwice
  <2> HIDE DEF i
  <2>3. Less(Less(heap_used)) = Cardinality(InUse \ {i})
    BY <1>0, <2>2, CardinalityWithout DEF Less, CountIsExact
  <2> QED
    BY <2>1, <2>3 DEF CountIsExact
<1> QED
  BY <1>1, <1>2, <1>3, <1>4, <1>5, StepOfPendingList DEF TimeoutPhase

LEMMA TwiceIsInexact ==
    ASSUME IInv, CountIsExact, CountsTwice
    PROVE  ~CountIsExact'
<1> USE InUseFinite
<1>0. heap_used \in Nat
  BY DEF IInv, TypeOK
<1>1. ASSUME NEW i \in Slots \ InUse, Freed(i), InUse # {}
      PROVE  ~CountIsExact'
  <2>1. InUse' = InUse \ {i} /\ heap_used' = Less(heap_used)
    BY <1>1, FreedSlot
  <2>2. Less(heap_used) # Cardinality(InUse \ {i})
    BY <1>0, <1>1, CardinalityWithout DEF Less, CountIsExact
  <2> QED
    BY <2>1, <2>2 DEF CountIsExact
<1>2. ASSUME GiveUp, InUse \ {i_pending} # {}
      PROVE  ~CountIsExact'
  <2> DEFINE i == i_pending
  <2>1. InUse' = InUse \ {i} /\ heap_used' = Less(Less(heap_used))
    BY <1>2, GivenUp
  <2>2. InUse \ {i} # {}
    BY <1>2
  <2> HIDE DEF i
  <2>3. Less(Less(heap_used)) # Cardinality(InUse \ {i})
    BY <1>0, <2>2, CardinalityWithout DEF Less, CountIsExact
  <2> QED
    BY <2>1, <2>3 DEF CountIsExact
<1> QED
  BY <1>1, <1>2 DEF CountsTwice

(***************************************************************************)
(* While field_used is the number of requests in flight, exactly the steps *)
(* that count twice make it another number.                                *)
(***************************************************************************)
THEOREM OnlyCountingTwiceMiscounts ==
    Spec => [][CountIsExact => (CountIsExact' <=> ~CountsTwice)]_vars
<1>1. IInv /\ [Next]_vars => [CountIsExact => (CountIsExact' <=> ~CountsTwice)]_vars
  BY ExactStep, TwiceIsInexact
<1> QED
  BY <1>1, Inductive, PTL DEF Spec

(***************************************************************************)
(* Until the first step that counts twice there is a free slot whenever    *)
(* field_used says so, and no request is placed over one that waits:       *)
(* nothing else breaks what the comment at mctcp.c:469-471 says.           *)
(***************************************************************************)
THEOREM OverwrittenOnlyIfCountedTwice ==
    Spec /\ [][~CountsTwice]_vars => [](CounterCoversInUse /\ PlaceIsFree)
<1>1. Init => CountIsExact
  <2> SUFFICES ASSUME Init PROVE CountIsExact
    OBVIOUS
  <2>1. heap_used = 0 /\ InUse = {}
    BY DEF Init, InUse
  <2> QED
    BY <2>1, FS_EmptySet DEF CountIsExact
<1>2. IInv /\ CountIsExact /\ [Next]_vars /\ [~CountsTwice]_vars => CountIsExact'
  <2>1. CountIsExact /\ UNCHANGED vars => CountIsExact'
    BY DEF CountIsExact, InUse, vars, pendVars
  <2> QED
    BY <2>1, ExactStep
<1>3. IInv /\ CountIsExact => CounterCoversInUse /\ PlaceIsFree
  <2> SUFFICES ASSUME IInv, CountIsExact PROVE CounterCoversInUse /\ PlaceIsFree
    OBVIOUS
  <2>1. heap_used < TransactionMax => InUse # Slots
    BY SlotsFinite DEF CountIsExact
  <2>2. pc = "place" => heap_used < TransactionMax
    BY DEF IInv, PlaceInv
  <2> QED
    BY <2>1, <2>2, PlaceIsSlot DEF CounterCoversInUse, hasPendingListEnoughSpace, PlaceIsFree
<1> QED
  BY <1>1, <1>2, <1>3, Inductive, PTL DEF Spec

-----------------------------------------------------------------------------
(***************************************************************************)
(* Time.  Life(r, t) is LifeLeft of a slot after r retries and t calls.    *)
(***************************************************************************)
Tries(r) == IF r + 1 < RetryLimit THEN RetryLimit - (r + 1) ELSE 0

Life(r, t) == Tries(r) * TryTime + TryTime - t

\* For the provers: a product with a factor one less.
LEMMA OneLess ==
    ASSUME NEW n \in Nat, NEW m \in Nat, NEW t \in Nat, m <= n
    PROVE  n * t \in Nat /\ m * t <= n * t /\ (m + 1) * t = m * t + t
<1>1. n = m + (n - m) /\ n - m \in Nat
  OBVIOUS
<1>2. \A d \in Nat : (m + d) * t = m * t + d * t /\ d * t \in Nat
  OBVIOUS
<1> QED
  BY <1>1, <1>2

LEMMA TriesAreNatural ==
    ASSUME NEW r \in Nat
    PROVE  Tries(r) \in Nat
<1>1. CASE r + 1 < RetryLimit
  <2>1. RetryLimit - (r + 1) \in Nat
    BY <1>1
  <2> QED
    BY <1>1, <2>1 DEF Tries
<1>2. CASE ~(r + 1 < RetryLimit)
  BY <1>2 DEF Tries
<1> QED
  BY <1>1, <1>2

LEMMA LifeOfTries ==
    ASSUME NEW r \in Nat
    PROVE  /\ TryTime \in Nat /\ Tries(r) * TryTime \in Nat /\ MaxLife \in Nat
           /\ Tries(r) * TryTime + TryTime <= MaxLife
           /\ r + 1 < RetryLimit => Tries(r) * TryTime = Tries(r + 1) * TryTime + TryTime
<1>1. TryTime \in Nat /\ RetryLimit \in Nat
  BY DEF TryTime
<1> HIDE DEF TryTime
<1>2. PICK n \in Nat : n = IF RetryLimit > 1 THEN RetryLimit ELSE 1
  BY <1>1
<1>3. MaxLife = n * TryTime
  BY <1>2, Zenon DEF MaxLife
<1>4. PICK m \in Nat : m = Tries(r)
  BY TriesAreNatural
<1>5. PICK k \in Nat : k = m + 1 /\ k <= n
  <2>1. CASE r + 1 < RetryLimit
    <3>1. m = RetryLimit - (r + 1) /\ n = RetryLimit
      BY <1>1, <1>2, <1>4, <2>1 DEF Tries
    <3> QED
      BY <1>1, <3>1
  <2>2. CASE ~(r + 1 < RetryLimit)
    <3>1. m = 0
      BY <1>4, <2>2 DEF Tries
    <3> QED
      BY <1>1, <1>2, <3>1
  <2> QED
    BY <2>1, <2>2
<1>6. k * TryTime \in Nat /\ n * TryTime \in Nat /\ k * TryTime <= n * TryTime
  BY <1>1, <1>5, OneLess
<1>7. (m + 1) * TryTime = m * TryTime + TryTime /\ m * TryTime \in Nat
  BY <1>1, OneLess
<1>8. ASSUME r + 1 < RetryLimit
      PROVE  Tries(r) * TryTime = Tries(r + 1) * TryTime + TryTime
  <2>1. PICK j \in Nat : j = Tries(r + 1)
    <3>1. PICK x \in Nat : x = r + 1
      OBVIOUS
    <3> QED
      BY <3>1, TriesAreNatural
  <2>2. Tries(r) = j + 1
    BY <1>1, <1>8, <2>1 DEF Tries
  <2>3. (j + 1) * TryTime = j * TryTime + TryTime
    BY <1>1, OneLess
  <2> QED
    BY <2>1, <2>2, <2>3
<1> QED
  BY <1>1, <1>3, <1>4, <1>5, <1>6, <1>7, <1>8

LEMMA LifeOfSlot ==
    /\ \A i : LifeLeft(i) = Life(pendings_list[i].retries, pendings_list[i].timer)
    /\ \A i : LifeLeft(i)' = Life(pendings_list'[i].retries, pendings_list'[i].timer)
BY Zenon DEF LifeLeft, TriesLeft, Life, Tries

\* A slot in use has not used up its time.
LEMMA Alive ==
    ASSUME IInv, TimerBounded, NEW i \in InUse
    PROVE  /\ pendings_list[i].timer \in Nat /\ pendings_list[i].retries \in Nat
           /\ pendings_list[i].timer < TryTime
           /\ LifeLeft(i) \in 1 .. MaxLife
<1>1. /\ i \in Slots /\ Slots = 0 .. TransactionMax - 1 /\ i_pending \in Slots
      /\ pendings_list[i] \in Slot
  BY DEF IInv, TypeOK, InUse, Slots
<1>2. PICK t \in Nat, r \in Nat : t = pendings_list[i].timer /\ r = pendings_list[i].retries
  BY <1>1 DEF Slot
<1>3. Turns(i) \in Nat
  BY <1>1 DEF Turns
<1>4. t + Turns(i) + 1 < TimeoutResponse + TransactionMax
  BY <1>2 DEF TimerBounded
<1>5. t < TryTime
  BY <1>3, <1>4 DEF TryTime
<1>6. LifeLeft(i) = Tries(r) * TryTime + TryTime - t
  BY <1>2, LifeOfSlot DEF Life
<1> HIDE DEF TryTime
<1>7. PICK p \in Nat : p = Tries(r) * TryTime
  BY LifeOfTries
<1>8. TryTime \in Nat /\ MaxLife \in Nat /\ p + TryTime <= MaxLife
  BY <1>7, LifeOfTries
<1>9. LifeLeft(i) = p + TryTime - t
  BY <1>6, <1>7
<1> QED
  BY <1>2, <1>5, <1>8, <1>9

LEMMA Restarted ==
    ASSUME NEW s \in Slot
    PROVE  LET u == [s EXCEPT !.timer = 0, !.retries = @ + 1]
           IN  u.timer = 0 /\ u.retries = s.retries + 1
BY DEF Slot

LEMMA SlotOlder ==
    ASSUME IInv, TimerBounded, NEW i \in InUse, TimeoutPhase, i \in InUse'
    PROVE  LifeLeft(i)' <= LifeLeft(i) - 1
<1> DEFINE s == pendings_list[i]
           u == [Ticked[i] EXCEPT !.timer = 0, !.retries = @ + 1]
<1>1. i \in Slots /\ Ticked \in [Slots -> Slot] /\ Ticked[i] \in Slot
      /\ i_pending \in Slots
  BY TickedType DEF InUse
<1>2. PICK t \in Nat, r \in Nat :
         /\ t = s.timer /\ r = s.retries /\ t < TryTime
         /\ Ticked[i].timer = t + 1 /\ Ticked[i].retries = r
  BY <1>1, Alive, TickedType
<1>3. PICK p \in Nat : p = Tries(r) * TryTime
  BY LifeOfTries
<1>4. TryTime \in Nat
  BY LifeOfTries
<1>5. LifeLeft(i) = p + TryTime - t
  BY <1>2, <1>3, LifeOfSlot DEF Life
<1> HIDE DEF TryTime
<1>6. CASE pendings_list'[i] = Ticked[i]
  <2>1. LifeLeft(i)' = Life(r, t + 1)
    BY <1>2, <1>6, LifeOfSlot
  <2>2. LifeLeft(i)' = p + TryTime - (t + 1)
    BY <1>3, <2>1 DEF Life
  <2> QED
    BY <1>4, <1>5, <2>2
<1>7. ASSUME i = i_pending, Retransmit
      PROVE  LifeLeft(i)' <= LifeLeft(i) - 1
  <2>1. pendings_list' = [Ticked EXCEPT ![i] = u] /\ ~LastTry
    BY <1>7 DEF Retransmit
  <2>2. r + 1 < RetryLimit
    BY <1>2, <1>7, <2>1 DEF LastTry
  <2>3. u.timer = 0 /\ u.retries = r + 1
    BY <1>1, <1>2, Restarted
  <2> HIDE DEF u
  <2>4. pendings_list'[i] = u
    BY <1>1, <2>1
  <2>5. LifeLeft(i)' = Life(r + 1, 0)
    BY <2>3, <2>4, LifeOfSlot
  <2>6. PICK q \in Nat : q = Tries(r + 1) * TryTime
    BY LifeOfTries
  <2>7. p = q + TryTime
    BY <1>3, <2>2, <2>6, LifeOfTries
  <2>8. LifeLeft(i)' = q + TryTime - 0
    BY <2>5, <2>6 DEF Life
  <2> QED
    BY <1>2, <1>4, <1>5, <2>7, <2>8
<1>8. CASE KeepWaiting
  BY <1>6, <1>8 DEF KeepWaiting
<1>9. CASE Retransmit
  <2>1. i # i_pending => pendings_list'[i] = Ticked[i]
    BY <1>1, <1>9 DEF Retransmit
  <2> QED
    BY <1>6, <1>7, <1>9, <2>1
<1>10. CASE GiveUp
  <2>1. i # i_pending
    BY <1>10, GivenUp
  <2>2. pendings_list'[i] = Ticked[i]
    BY <1>1, <1>10, <2>1 DEF GiveUp
  <2> QED
    BY <1>6, <2>2
<1> QED
  BY <1>8, <1>9, <1>10 DEF TimeoutPhase

(***************************************************************************)
(* RequestsAge: however servers and application interfere, every call of   *)
(* Run takes every request in flight one call nearer to the end of its     *)
(* last try, of which there are at most MaxLife from the first             *)
(* transmission on.                                                        *)
(***************************************************************************)
THEOREM RequestsInFlightAge == Spec => RequestsAge
<1> DEFINE Calls == IF pc = "timeout" /\ pc' # pc THEN 1 ELSE 0
           Ages(i) == /\ pendings_list[i].timer < TryTime
                      /\ LifeLeft(i) <= MaxLife
                      /\ \/ i \notin InUse' \/ (PlaceRequest /\ i = PlaceOfNewRequest)
                         \/ LifeLeft(i)' <= LifeLeft(i) - Calls
           Age == \A i \in InUse : Ages(i)
<1>1. IInv /\ TimerBounded /\ [Next]_vars => [Age]_vars
  <2> SUFFICES ASSUME IInv, TimerBounded, [Next]_vars, NEW i \in InUse, i \in InUse',
                      ~(PlaceRequest /\ i = PlaceOfNewRequest)
               PROVE  LifeLeft(i)' <= LifeLeft(i) - Calls
    <3>1. ASSUME IInv, TimerBounded, NEW i \in InUse
          PROVE  pendings_list[i].timer < TryTime /\ LifeLeft(i) <= MaxLife
      BY <3>1, Alive, LifeOfTries
    <3> QED
      BY <3>1
  <2>1. LifeLeft(i) \in 1 .. MaxLife /\ LifeLeft(i) \in Int
    BY Alive, LifeOfTries
  <2>2. i \in Slots
    BY DEF InUse
  <2>3. CASE TimeoutPhase
    <3>1. LifeLeft(i)' <= LifeLeft(i) - 1 /\ Calls = 1
      BY <2>3, SlotOlder DEF TimeoutPhase, KeepWaiting, Retransmit, GiveUp, FinishRun
    <3> QED
      BY <2>1, <3>1
  <2>4. ASSUME ~TimeoutPhase
        PROVE  Calls = 0
    <3>1. CASE Application
      BY <3>1 DEF Application, RequestAdd, RequestAddFails, RequestCallbackAdd
    <3>2. CASE Run
      BY <2>4, <3>2 DEF Run, TimeoutPhase, PendingListFull, RequestListEmpty, FetchRequest,
                        DropRequest, PlaceRequest, Receive, ReceiveNothing, ReceiveUnknown,
                        ReceiveBadProtocol, ReceiveOtherFunction, ReceiveException,
                        ReceiveResponse, Arrives
    <3>3. CASE UNCHANGED vars
      BY <3>3 DEF vars
    <3> QED
      BY <3>1, <3>2, <3>3 DEF Next
  <2>5. ASSUME pendings_list'[i] = pendings_list[i], ~TimeoutPhase
        PROVE  LifeLeft(i)' <= LifeLeft(i) - Calls
    <3>1. LifeLeft(i)' = LifeLeft(i) /\ Calls = 0
      BY <2>4, <2>5, LifeOfSlot
    <3> QED
      BY <2>1, <3>1
  <2>6. CASE Untouched /\ ~TimeoutPhase
    BY <2>1, <2>5, <2>6 DEF Untouched
  <2>7. CASE PlaceRequest /\ ~TimeoutPhase
    BY <2>1, <2>2, <2>5, <2>7, Filled
  <2>8. CASE (\E j \in Slots : Freed(j)) /\ ~TimeoutPhase
    BY <2>1, <2>2, <2>5, <2>8, FreedSlot
  <2> QED
    BY <2>1, <2>3, <2>6, <2>7, <2>8, StepOfPendingList
<1> HIDE DEF Ages
<1>2. Spec => [][Age]_vars
  BY <1>1, Inductive, TimeoutsAreNoticed, PTL DEF Spec
<1> QED
  BY <1>2 DEF RequestsAge, Ages

===============================================================================
