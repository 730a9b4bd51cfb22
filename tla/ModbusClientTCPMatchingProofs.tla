-------------------- MODULE ModbusClientTCPMatchingProofs --------------------
(***************************************************************************)
(* The Modbus TCP client keeps requests, packets, answers and callbacks    *)
(* together: no two requests that wait share a transaction id and an       *)
(* answer reaches the request it answers as long as the ids concerned were *)
(* given out in the last round of the counter; a request is transmitted    *)
(* RetryLimit times at most, and a callback goes to the request it was     *)
(* written for.                                                            *)
(***************************************************************************)
EXTENDS ModbusClientTCPProofs

USE LengthAssumption, LimitAssumption

-----------------------------------------------------------------------------
(***************************************************************************)
(* The transaction ids.  A header is known (KnownHeaders) while it is in   *)
(* the request list, was fetched last, is in a slot, in use or not, or on  *)
(* a packet.                                                               *)
(***************************************************************************)
\* The id that follows n ids after tid.
After(tid, n) == IF tid + n <= Round THEN tid + n ELSE tid + n - Round

\* A header given out less than a round ago is known by its distance from the
\* counter, and two headers share an id only if a round lies between them.
IdsInv ==
    /\ \A h \in KnownHeaders :
          /\ h.id <= added
          /\ added + 1 - h.id < Round => transid_cnt = After(h.tid, added + 1 - h.id)
    /\ \A h, k \in KnownHeaders :
          h.tid = k.tid => \/ h.id = k.id
                           \/ h.id - k.id >= Round
                           \/ k.id - h.id >= Round

(***************************************************************************)
(* Without threads the header of a fetched request is not taken back       *)
(* before the request is placed: every accepted request is in one place.   *)
(***************************************************************************)
PlacesInv ==
    LET last == added - Len(fifo)
    IN  /\ \A k \in 1 .. Len(fifo) : fifo[k].header.id = last + k
        /\ pc = "place" => fetched.header.id = last
        /\ \A i \in Slots :
              pendings_list[i].header # NoHeader =>
                  /\ pendings_list[i].header.id <= last
                  /\ pc = "place" => pendings_list[i].header.id < last
        /\ \A i, j \in Slots :
              pendings_list[i].header # NoHeader /\ pendings_list[j].header # NoHeader =>
                  (pendings_list[i].header.id = pendings_list[j].header.id => i = j)

\* The requests that wait: in the request list, in the pending list, or fetched.
WaitingHeaders ==
    {fifo[k].header : k \in 1 .. Len(fifo)}
        \cup {pendings_list[i].header : i \in InUse}
        \cup (IF pc = "place" THEN {fetched.header} ELSE {})

LiveTransidsDistinct ==
    /\ \A h, k \in WaitingHeaders : h.tid = k.tid => h = k
    /\ Cardinality(WaitingHeaders) =
           Len(fifo) + Cardinality(InUse) + (IF pc = "place" THEN 1 ELSE 0)

\* The retransmissions of a request whose slot can still expire, in use or not.
Budget == IF RetryLimit = 0 THEN 1 ELSE RetryLimit

MayExpire(i) == i \in InUse \/ pendings_list[i].timer > 0

SendsInv ==
    /\ \A r \in Requests :
          /\ r > added - Len(fifo) => sends[r] = 0
          /\ pc = "place" /\ r = added - Len(fifo) => sends[r] = 0
    /\ \A i \in Slots :
          MayExpire(i) => /\ sends[pendings_list[i].header.id] <= pendings_list[i].retries + 1
                          /\ pendings_list[i].retries < Budget

(***************************************************************************)
(* A client that looks at what RequestAdd returns, and is alone, attaches  *)
(* its callback to the request it added last, if it attaches it at all.    *)
(***************************************************************************)
CallbackInv ==
    /\ CallbackOfOwnRequest
    /\ fetched.cb \in {CallBackNull, fetched.body}
    /\ \A c \in Clients : app[c] # NoBody /\ fifo # <<>> => fifo[Len(fifo)].body = app[c]

-----------------------------------------------------------------------------
(***************************************************************************)
(* What a step does to the request list, the slots and the wire.           *)
(***************************************************************************)
LEMMA RequestFields ==
    /\ \A r \in Request :
          /\ r.header \in Headers /\ r.body \in Bodies /\ r.cb \in Bodies \cup {CallBackNull}
          /\ \A h \in Headers : LET n == [r EXCEPT !.header = h]
                                IN  n.header = h /\ n.body = r.body /\ n.cb = r.cb
          /\ \A c \in Bodies : LET n == [r EXCEPT !.cb = c]
                               IN  n.header = r.header /\ n.body = r.body /\ n.cb = c
    /\ Queue!NullRequest.header = NoHeader
    /\ Queue!NullRequest.cb = CallBackNull
BY DEF Request, Queue!NullRequest

LEMMA AddStep ==
    ASSUME IInv, NEW c \in Clients, NEW u \in Units, NEW b \in Bodies,
           RequestAdd(c, u, b)
    PROVE  \E h \in Headers :
              /\ h.tid = transid_cnt /\ h.id = added + 1
              /\ Len(fifo) \in Nat /\ Len(fifo') = Len(fifo) + 1
              /\ \A k \in 1 .. Len(fifo) : fifo'[k] = fifo[k]
              /\ fifo'[Len(fifo')].header = h
              /\ fifo'[Len(fifo')].body = b
              /\ fifo'[Len(fifo')].cb = CallBackNull
              /\ fetched'.header \in {fetched.header, h}
              /\ fetched'.body = fetched.body /\ fetched'.cb = fetched.cb
<1> DEFINE h == [tid |-> transid_cnt, unit |-> u, id |-> added + 1]
           new == [header |-> h, body |-> b, cb |-> CallBackNull]
<1>1. h \in Headers /\ h.tid = transid_cnt /\ h.id = added + 1
  BY DEF IInv, TypeOK, RequestAdd, Headers, Requests
<1>2. Queue!Accept(h, b)
  BY DEF RequestAdd
<1> HIDE DEF h
<1>3. new \in Request /\ new.header = h /\ new.body = b /\ new.cb = CallBackNull
  BY <1>1 DEF Request
<1>4. fifo \in Seq(Request) /\ fifo' = Append(fifo, new)
  BY <1>2 DEF Queue!Accept, Queue!NewRequest, IInv, TypeOK
<1> HIDE DEF new
<1>5. /\ Len(fifo) \in Nat /\ Len(fifo') = Len(fifo) + 1
      /\ \A k \in 1 .. Len(fifo) : fifo'[k] = fifo[k]
      /\ fifo'[Len(fifo')] = new
  BY <1>3, <1>4, AppendProperties, LenProperties
<1>6. \/ fetched' = fetched
      \/ fetched \in Request /\ fetched' = [fetched EXCEPT !.header = h]
  BY <1>2 DEF Queue!Accept, Queue!Reclaim, IInv, TypeOK
<1>7. /\ fetched'.header \in {fetched.header, h}
      /\ fetched'.body = fetched.body /\ fetched'.cb = fetched.cb
  <2>1. CASE fetched' = fetched
    BY <2>1
  <2>2. CASE fetched \in Request /\ fetched' = [fetched EXCEPT !.header = h]
    BY <1>1, <2>2, RequestFields
  <2> QED
    BY <1>6, <2>1, <2>2
<1> QED
  BY <1>1, <1>3, <1>5, <1>7

LEMMA FetchStep ==
    ASSUME IInv, Queue!Fetch
    PROVE  /\ Len(fifo) \in Nat \ {0} /\ Len(fifo') = Len(fifo) - 1
           /\ \A k \in 1 .. Len(fifo') : k + 1 \in 1 .. Len(fifo) /\ fifo'[k] = fifo[k + 1]
           /\ fifo' # <<>> => fifo'[Len(fifo')] = fifo[Len(fifo)]
           /\ fetched' = fifo[1] /\ fetched' \in Request
<1>1. fifo \in Seq(Request) /\ fifo # <<>>
  BY DEF IInv, TypeOK, Queue!Fetch
<1>2. Len(fifo) \in Nat \ {0}
  BY <1>1, EmptySeq, LenProperties
<1>6. /\ Tail(fifo) \in Seq(Request) /\ Len(Tail(fifo)) = Len(fifo) - 1
      /\ \A k \in 1 .. Len(Tail(fifo)) : Tail(fifo)[k] = fifo[k + 1]
      /\ Head(fifo) = fifo[1] /\ Head(fifo) \in Request
  BY <1>1, HeadTailProperties
<1>3. /\ fifo' \in Seq(Request) /\ Len(fifo') = Len(fifo) - 1
      /\ \A k \in 1 .. Len(fifo') : fifo'[k] = fifo[k + 1]
      /\ fetched' = fifo[1] /\ fetched' \in Request
  BY <1>6 DEF Queue!Fetch
<1>4. \A k \in 1 .. Len(fifo') : k + 1 \in 1 .. Len(fifo)
  BY <1>2, <1>3
<1>5. ASSUME fifo' # <<>>
      PROVE  fifo'[Len(fifo')] = fifo[Len(fifo)]
  <2>1. Len(fifo') \in 1 .. Len(fifo') /\ Len(fifo') + 1 = Len(fifo)
    BY <1>2, <1>3, <1>5, EmptySeq
  <2> QED
    BY <1>3, <2>1
<1> QED
  BY <1>2, <1>3, <1>4, <1>5

LEMMA AttachStep ==
    ASSUME IInv, NEW cb \in Bodies, Queue!AttachCallback(cb)
    PROVE  /\ Len(fifo') = Len(fifo) /\ Len(fifo) \in Nat \ {0} /\ fetched' = fetched
           /\ \A k \in 1 .. Len(fifo) :
                 /\ fifo'[k].header = fifo[k].header /\ fifo'[k].body = fifo[k].body
                 /\ fifo'[k].cb = IF k = Len(fifo) THEN cb ELSE fifo[k].cb
<1>1. fifo \in Seq(Request) /\ Len(fifo) \in 1 .. Len(fifo) /\ Len(fifo) \in Nat \ {0}
  BY EmptySeq, LenProperties DEF Queue!AttachCallback, IInv, TypeOK
<1> DEFINE last == fifo[Len(fifo)]
           new == [last EXCEPT !.cb = cb]
<1>2. last \in Request
  BY <1>1, ElementOfSeq
<1> HIDE DEF last
<1>3. /\ new \in Request /\ new.header = last.header /\ new.body = last.body
      /\ new.cb = cb
  BY <1>2, RequestFields, RequestUpdates
<1>4. fifo' = [fifo EXCEPT ![Len(fifo)] = new] /\ fetched' = fetched
  BY DEF Queue!AttachCallback, last
<1> HIDE DEF new
<1>5. /\ Len(fifo') = Len(fifo)
      /\ \A k \in 1 .. Len(fifo) : fifo'[k] = IF k = Len(fifo) THEN new ELSE fifo[k]
  BY <1>1, <1>3, <1>4, ExceptSeq
<1>6. last = fifo[Len(fifo)]
  BY DEF last
<1>7. ASSUME NEW k \in 1 .. Len(fifo)
      PROVE  /\ fifo'[k].header = fifo[k].header /\ fifo'[k].body = fifo[k].body
             /\ fifo'[k].cb = IF k = Len(fifo) THEN cb ELSE fifo[k].cb
  <2>1. CASE k = Len(fifo)
    <3>1. fifo'[k] = new /\ fifo[k] = last
      BY <1>5, <1>6, <1>7, <2>1
    <3> QED
      BY <1>3, <2>1, <3>1
  <2>2. CASE k # Len(fifo)
    BY <1>5, <1>7, <2>2
  <2> QED
    BY <2>1, <2>2
<1> QED
  BY <1>1, <1>4, <1>5, <1>7

LEMMA PlaceStep ==
    ASSUME IInv, PlaceRequest
    PROVE  LET i == PlaceOfNewRequest
           IN  /\ i \in Slots /\ fetched \in Request
               /\ InUse' = InUse \cup {i}
               /\ pendings_list'[i] = [status |-> "INUSE", header |-> fetched.header,
                                       body |-> fetched.body, cb |-> fetched.cb,
                                       timer |-> 0, retries |-> 0]
               /\ \A j \in Slots \ {i} : pendings_list'[j] = pendings_list[j]
               /\ tx'.header = fetched.header
               /\ sends' = [sends EXCEPT ![fetched.header.id] = @ + 1]
               /\ BagToSet(wire') = BagToSet(wire) \cup {tx'}
               /\ pc = "place" /\ pc' = "receive"
               /\ UNCHANGED <<fifo, fetched, transid_cnt, added, app, calls>>
<1> DEFINE i == PlaceOfNewRequest
           s == [status |-> "INUSE", header |-> fetched.header,
                 body |-> fetched.body, cb |-> fetched.cb,
                 timer |-> 0, retries |-> 0]
<1>1. i \in Slots /\ pendings_list \in [Slots -> Slot] /\ fetched \in Request
  BY PlaceIsSlot DEF IInv, TypeOK, PlaceInv, PlaceRequest
<1>2. pendings_list' = [pendings_list EXCEPT ![i] = s]
  BY DEF PlaceRequest, addNewRequestToPendingList
<1>3. InUse' = InUse \cup {i}
  BY Filled
<1> HIDE DEF i, s
<1>4. pendings_list'[i] = s /\ \A j \in Slots \ {i} : pendings_list'[j] = pendings_list[j]
  BY <1>1, <1>2
<1>5. /\ tx'.header = fetched.header
      /\ sends' = [sends EXCEPT ![fetched.header.id] = @ + 1]
      /\ BagToSet(wire') = BagToSet(wire) \cup {tx'}
  BY DEF PlaceRequest, packageSendFromPendingList, BagToSet, SetToBag, (+)
<1>6. /\ pc = "place" /\ pc' = "receive"
      /\ UNCHANGED <<fifo, fetched, transid_cnt, added, app, calls>>
  BY DEF PlaceRequest, queueVars
<1> QED
  BY <1>1, <1>3, <1>4, <1>5, <1>6 DEF i, s

\* Every other step leaves what identifies the request of a slot alone.
SameSlots ==
    /\ InUse' \subseteq InUse
    /\ \A j \in Slots : /\ pendings_list'[j].header = pendings_list[j].header
                        /\ pendings_list'[j].body = pendings_list[j].body
                        /\ pendings_list'[j].cb = pendings_list[j].cb

LEMMA SlotCallbacks ==
    ASSUME NEW s \in Slot
    PROVE  /\ [s EXCEPT !.status = "FREE"].cb = s.cb
           /\ [s EXCEPT !.status = "FREE"].retries = s.retries
           /\ [s EXCEPT !.timer = @ + 1].cb = s.cb
           /\ LET r == [s EXCEPT !.timer = 0, !.retries = @ + 1]
                  f == [s EXCEPT !.timer = 0, !.retries = @ + 1, !.status = "FREE"]
              IN  /\ r.cb = s.cb /\ r.retries = s.retries + 1
                  /\ f.cb = s.cb /\ f.timer = 0
<1> DEFINE t == [s EXCEPT !.timer = 0]
           r == [t EXCEPT !.retries = t.retries + 1]
           f == [r EXCEPT !.status = "FREE"]
<1>1. t \in Slot /\ t.cb = s.cb /\ t.retries = s.retries /\ t.timer = 0
  BY DEF Slot
<1> HIDE DEF t
<1>2. r \in Slot /\ r.cb = t.cb /\ r.retries = t.retries + 1 /\ r.timer = t.timer
  BY <1>1 DEF Slot
<1> HIDE DEF r
<1>3. f.cb = r.cb /\ f.timer = r.timer
  BY <1>2 DEF Slot
<1> HIDE DEF f
<1>4. r = [s EXCEPT !.timer = 0, !.retries = @ + 1]
  BY <1>1 DEF r, t
<1>5. f = [s EXCEPT !.timer = 0, !.retries = @ + 1, !.status = "FREE"]
  BY <1>1 DEF f, r, t
<1>6. /\ [s EXCEPT !.status = "FREE"].cb = s.cb
      /\ [s EXCEPT !.status = "FREE"].retries = s.retries
      /\ [s EXCEPT !.timer = @ + 1].cb = s.cb
  BY DEF Slot
<1> QED
  BY <1>1, <1>2, <1>3, <1>4, <1>5, <1>6

LEMMA FreedSame ==
    ASSUME IInv, NEW i \in Slots, Freed(i)
    PROVE  /\ SameSlots
           /\ \A j \in Slots : /\ pendings_list'[j].timer = pendings_list[j].timer
                               /\ pendings_list'[j].retries = pendings_list[j].retries
<1> DEFINE s == [pendings_list[i] EXCEPT !.status = "FREE"]
<1>1. pendings_list \in [Slots -> Slot] /\ InUse' \subseteq InUse
  BY FreedSlot DEF IInv, TypeOK
<1>2. pendings_list' = [pendings_list EXCEPT ![i] = s]
  BY DEF Freed, removeItemFromPendingList
<1>3. /\ s.header = pendings_list[i].header /\ s.body = pendings_list[i].body
      /\ s.cb = pendings_list[i].cb /\ s.timer = pendings_list[i].timer
      /\ s.retries = pendings_list[i].retries
  BY <1>1, SlotUpdates, SlotCallbacks
<1> HIDE DEF s
<1> QED
  BY <1>1, <1>2, <1>3 DEF SameSlots

LEMMA TickedSame ==
    ASSUME IInv
    PROVE  /\ \A j \in Slots : Ticked[j].cb = pendings_list[j].cb
           /\ \A j \in Slots : Ticked[j] \in Slot
BY TickedType, SlotUpdates, SlotCallbacks DEF Ticked, IInv, TypeOK

LEMMA TimeoutPhaseSame ==
    ASSUME IInv, TimeoutPhase
    PROVE  /\ SameSlots
           /\ \A j \in Slots \ {i_pending} :
                 /\ pendings_list'[j].timer = Ticked[j].timer
                 /\ pendings_list'[j].retries = pendings_list[j].retries
           /\ \/ /\ KeepWaiting /\ UNCHANGED <<sends, tx, wire>>
                 /\ pendings_list'[i_pending].timer = Ticked[i_pending].timer
                 /\ pendings_list'[i_pending].retries = pendings_list[i_pending].retries
              \/ /\ Retransmit
                 /\ pendings_list'[i_pending].retries = pendings_list[i_pending].retries + 1
              \/ /\ GiveUp /\ UNCHANGED <<sends, tx, wire>>
                 /\ pendings_list'[i_pending].timer = 0
                 /\ pendings_list'[i_pending].status = "FREE"
<1> DEFINE i == i_pending
           r == [Ticked[i] EXCEPT !.timer = 0, !.retries = @ + 1]
           f == [Ticked[i] EXCEPT !.timer = 0, !.retries = @ + 1, !.status = "FREE"]
<1>1. i \in Slots /\ Ticked \in [Slots -> Slot] /\ Ticked[i] \in Slot /\ InUse' \subseteq InUse
  BY TickedType, TimeoutPhaseSlots
<1>2. /\ r.header = Ticked[i].header /\ r.body = Ticked[i].body /\ r.cb = Ticked[i].cb
      /\ r.retries = Ticked[i].retries + 1
      /\ f.header = Ticked[i].header /\ f.body = Ticked[i].body /\ f.cb = Ticked[i].cb
      /\ f.timer = 0 /\ f.status = "FREE"
  BY <1>1, SlotRestarts, SlotCallbacks
<1>3. \A j \in Slots : /\ Ticked[j].header = pendings_list[j].header
                       /\ Ticked[j].body = pendings_list[j].body
                       /\ Ticked[j].cb = pendings_list[j].cb
                       /\ Ticked[j].retries = pendings_list[j].retries
  BY TickedType, TickedSame
<1>4. CASE KeepWaiting
  BY <1>1, <1>3, <1>4 DEF KeepWaiting, SameSlots
<1>5. CASE Retransmit
  <2>1. pendings_list' = [Ticked EXCEPT ![i] = r]
    BY <1>5 DEF Retransmit
  <2> HIDE DEF i, r
  <2>2. pendings_list'[i] = r /\ \A j \in Slots \ {i} : pendings_list'[j] = Ticked[j]
    BY <1>1, <2>1
  <2> QED
    BY <1>1, <1>2, <1>3, <1>5, <2>2 DEF SameSlots, i
<1>6. CASE GiveUp
  <2>1. pendings_list' = [Ticked EXCEPT ![i] = f] /\ UNCHANGED <<sends, tx, wire>>
    BY <1>6 DEF GiveUp
  <2> HIDE DEF i, f
  <2>2. pendings_list'[i] = f /\ \A j \in Slots \ {i} : pendings_list'[j] = Ticked[j]
    BY <1>1, <2>1
  <2> QED
    BY <1>1, <1>2, <1>3, <1>6, <2>1, <2>2 DEF SameSlots, i
<1> QED
  BY <1>4, <1>5, <1>6 DEF TimeoutPhase

LEMMA SlotStep ==
    ASSUME IInv, [Next]_vars
    PROVE  PlaceRequest \/ SameSlots
<1>1. CASE Untouched
  BY <1>1 DEF Untouched, SameSlots, InUse
<1> QED
  BY <1>1, StepOfPendingList, FreedSame, TimeoutPhaseSame

LEMMA FrameStep ==
    ASSUME IInv, [Next]_vars
    PROVE  \/ \E c \in Clients, u \in Units, b \in Bodies : RequestAdd(c, u, b)
           \/ \E c \in Clients : RequestCallbackAdd(c) /\ Queue!AttachCallback(app[c])
           \/ FetchRequest
           \/ PlaceRequest
           \/ Retransmit
           \/ /\ UNCHANGED <<fifo, fetched, transid_cnt, added, sends>>
              /\ BagToSet(wire') \subseteq BagToSet(wire)
<1> DEFINE Rest == /\ UNCHANGED <<fifo, fetched, transid_cnt, added, sends>>
                   /\ BagToSet(wire') \subseteq BagToSet(wire)
<1>1. CASE Application
  <2>1. ASSUME NEW c \in Clients, NEW b \in Bodies, RequestAddFails(c, b)
        PROVE  Rest
    BY <2>1 DEF RequestAddFails, Queue!RefuseFull
  <2>2. ASSUME NEW c \in Clients, RequestCallbackAdd(c), ~Queue!AttachCallback(app[c])
        PROVE  Rest
    BY <2>2 DEF RequestCallbackAdd, queueVars
  <2> HIDE DEF Rest
  <2> QED
    BY <1>1, <2>1, <2>2 DEF Application, Rest
<1>2. CASE PendingListFull \/ RequestListEmpty \/ DropRequest
  BY <1>2 DEF PendingListFull, RequestListEmpty, DropRequest, queueVars
<1>3. CASE Receive
  <2>1. CASE ReceiveNothing
    BY <2>1 DEF ReceiveNothing, queueVars
  <2>2. ASSUME NEW p, Arrives(p)
        PROVE  Rest
    BY <2>2 DEF Arrives, queueVars, BagToSet, SetToBag, (-)
  <2> HIDE DEF Rest
  <2> QED
    BY <1>3, <2>1, <2>2 DEF Receive, ReceiveUnknown, ReceiveBadProtocol,
                            ReceiveOtherFunction, ReceiveException, ReceiveResponse, Rest
<1>4. CASE KeepWaiting \/ GiveUp
  BY <1>4 DEF KeepWaiting, GiveUp, FinishRun, queueVars
<1>5. CASE UNCHANGED vars
  BY <1>5 DEF vars
<1> QED
  BY <1>1, <1>2, <1>3, <1>4, <1>5 DEF Next, Run

-----------------------------------------------------------------------------
(***************************************************************************)
(* Transaction ids.                                                        *)
(***************************************************************************)
LEMMA HeaderFields ==
    ASSUME NEW h \in Headers
    PROVE  /\ h.tid \in 1 .. Round /\ h.id \in 1 .. MaxAdds
           /\ h # NoHeader
BY DEF Headers, Transids, Round, Requests, NoHeader

LEMMA KnownAreHeaders ==
    ASSUME IInv
    PROVE  /\ KnownHeaders \subseteq Headers
           /\ \A k \in 1 .. Len(fifo) : fifo[k].header \in KnownHeaders
           /\ fetched \in Request => fetched.header \in KnownHeaders
           /\ \A i \in Slots :
                 pendings_list[i].header \in Headers =>
                     pendings_list[i].header \in KnownHeaders
           /\ \A p \in BagToSet(wire) : p.header \in KnownHeaders
<1>1. \A k \in 1 .. Len(fifo) : fifo[k].header \in Headers
  BY ElementOfSeq, RequestFields DEF IInv, TypeOK
<1>2. fetched.header \in Headers \cup {NoHeader}
  BY RequestFields DEF IInv, TypeOK
<1>3. \A i \in Slots : pendings_list[i].header \in Headers \cup {NoHeader}
  BY DEF IInv, TypeOK, Slot
<1>4. \A p \in BagToSet(wire) : p.header \in Headers
  BY DEF IInv, TypeOK, Packet
<1>5. NoHeader \notin Headers
  BY NoneIsReal
<1> QED
  BY <1>1, <1>2, <1>3, <1>4, <1>5, RequestFields DEF KnownHeaders

\* A step knows no header it did not know, but that of a request added.
LEMMA KnownStep ==
    ASSUME IInv, [Next]_vars
    PROVE  \/ /\ KnownHeaders' \subseteq KnownHeaders
              /\ UNCHANGED <<transid_cnt, added>>
           \/ \E h \in Headers :
                 /\ h.tid = transid_cnt /\ h.id = added + 1
                 /\ KnownHeaders' \subseteq KnownHeaders \cup {h}
                 /\ transid_cnt' = NextTransid /\ added' = added + 1
<1>1. CASE \E c \in Clients, u \in Units, b \in Bodies : RequestAdd(c, u, b)
  <2>1. PICK c \in Clients, u \in Units, b \in Bodies : RequestAdd(c, u, b)
    BY <1>1
  <2>2. PICK h \in Headers :
           /\ h.tid = transid_cnt /\ h.id = added + 1
           /\ Len(fifo) \in Nat /\ Len(fifo') = Len(fifo) + 1
           /\ \A k \in 1 .. Len(fifo) : fifo'[k] = fifo[k]
           /\ fifo'[Len(fifo')].header = h
           /\ fetched'.header \in {fetched.header, h}
    BY <2>1, AddStep
  <2>3. /\ transid_cnt' = NextTransid /\ added' = added + 1
        /\ UNCHANGED <<pendings_list, wire>>
    BY <2>1 DEF RequestAdd, pendVars
  <2>4. \A k \in 1 .. Len(fifo') : \/ fifo'[k].header = h
                                   \/ k \in 1 .. Len(fifo) /\ fifo'[k] = fifo[k]
    BY <2>2
  <2>5. KnownHeaders' \subseteq KnownHeaders \cup {h}
    BY <2>2, <2>3, <2>4 DEF KnownHeaders
  <2> QED
    BY <2>2, <2>3, <2>5
<1>2. ASSUME NEW c \in Clients, RequestCallbackAdd(c), Queue!AttachCallback(app[c])
      PROVE  KnownHeaders' \subseteq KnownHeaders /\ UNCHANGED <<transid_cnt, added>>
  <2>1. app[c] \in Bodies
    BY <1>2 DEF RequestCallbackAdd, IInv, TypeOK
  <2>2. /\ Len(fifo') = Len(fifo) /\ fetched' = fetched
        /\ \A k \in 1 .. Len(fifo) : fifo'[k].header = fifo[k].header
    BY <1>2, <2>1, AttachStep
  <2>3. UNCHANGED <<transid_cnt, added, pendings_list, wire>>
    BY <1>2 DEF RequestCallbackAdd, pendVars
  <2> QED
    BY <2>2, <2>3 DEF KnownHeaders
<1>3. CASE FetchRequest
  <2>1. /\ Len(fifo) \in Nat \ {0}
        /\ \A k \in 1 .. Len(fifo') : k + 1 \in 1 .. Len(fifo) /\ fifo'[k] = fifo[k + 1]
        /\ fetched' = fifo[1] /\ 1 \in 1 .. Len(fifo)
    BY <1>3, FetchStep DEF FetchRequest
  <2>2. UNCHANGED <<transid_cnt, added, pendings_list, wire>>
    BY <1>3 DEF FetchRequest, pendVars
  <2> QED
    BY <2>1, <2>2 DEF KnownHeaders
<1>4. CASE PlaceRequest
  <2>1. /\ \A j \in Slots : \/ pendings_list'[j].header = fetched.header
                            \/ pendings_list'[j] = pendings_list[j]
        /\ tx'.header = fetched.header
        /\ BagToSet(wire') = BagToSet(wire) \cup {tx'}
        /\ UNCHANGED <<fifo, fetched, transid_cnt, added>>
    BY <1>4, PlaceStep
  <2> QED
    BY <2>1 DEF KnownHeaders
<1>5. CASE Retransmit
  <2>1. i_pending \in Slots /\ \A j \in Slots : pendings_list'[j].header = pendings_list[j].header
    BY <1>5, TimeoutPhaseSame DEF TimeoutPhase, SameSlots, IInv, TypeOK
  <2>2. /\ tx'.header = pendings_list[i_pending].header
        /\ BagToSet(wire') = BagToSet(wire) \cup {tx'}
    BY <1>5 DEF Retransmit, packageSendFromPendingList, BagToSet, SetToBag, (+)
  <2>3. UNCHANGED <<fifo, fetched, transid_cnt, added>>
    BY <1>5 DEF Retransmit, FinishRun, queueVars
  <2> QED
    BY <2>1, <2>2, <2>3 DEF KnownHeaders
<1>6. CASE /\ UNCHANGED <<fifo, fetched, transid_cnt, added>>
           /\ BagToSet(wire') \subseteq BagToSet(wire)
           /\ ~PlaceRequest
  <2>1. \A j \in Slots : pendings_list'[j].header = pendings_list[j].header
    BY <1>6, SlotStep DEF SameSlots
  <2> QED
    BY <1>6, <2>1 DEF KnownHeaders
<1> QED
  BY <1>1, <1>2, <1>3, <1>4, <1>5, <1>6, FrameStep

LEMMA IdsStep ==
    ASSUME IInv, IdsInv, [Next]_vars
    PROVE  IdsInv'
<1>0. Round \in Nat \ {0} /\ added \in Nat /\ transid_cnt \in 1 .. Round
  BY DEF Round, IInv, TypeOK, Transids
<1>1. KnownHeaders \subseteq Headers
  BY KnownAreHeaders
<1>2. CASE KnownHeaders' \subseteq KnownHeaders /\ UNCHANGED <<transid_cnt, added>>
  BY <1>2 DEF IdsInv
<1>3. ASSUME NEW h \in Headers,
             h.tid = transid_cnt, h.id = added + 1,
             KnownHeaders' \subseteq KnownHeaders \cup {h},
             transid_cnt' = NextTransid, added' = added + 1
      PROVE  IdsInv'
  <2>0. NextTransid = IF transid_cnt + 1 > Round THEN 1 ELSE transid_cnt + 1
    BY <1>0 DEF NextTransid, Round
  <2>1. ASSUME NEW k \in KnownHeaders
        PROVE  /\ k.id <= added
               /\ added + 1 - k.id < Round => transid_cnt = After(k.tid, added + 1 - k.id)
               /\ k.tid \in 1 .. Round /\ k.id \in Nat
    BY <1>1, <2>1, HeaderFields DEF IdsInv
  <2>2. ASSUME NEW k \in KnownHeaders
        PROVE  /\ k.id <= added'
               /\ added' + 1 - k.id < Round =>
                      transid_cnt' = After(k.tid, added' + 1 - k.id)
               /\ k.tid = h.tid => h.id - k.id >= Round
    BY <1>0, <1>3, <2>0, <2>1, <2>2 DEF After
  <2>3. /\ h.id <= added'
        /\ added' + 1 - h.id < Round => transid_cnt' = After(h.tid, added' + 1 - h.id)
    BY <1>0, <1>3, <2>0 DEF After
  <2>4. ASSUME NEW a \in KnownHeaders', NEW b \in KnownHeaders', a.tid = b.tid
        PROVE  a.id = b.id \/ a.id - b.id >= Round \/ b.id - a.id >= Round
    <3>1. a \in KnownHeaders \cup {h} /\ b \in KnownHeaders \cup {h}
      BY <1>3, <2>4
    <3>2. CASE a \in KnownHeaders /\ b \in KnownHeaders
      BY <2>4, <3>2 DEF IdsInv
    <3>3. CASE a = h \/ b = h
      BY <2>2, <2>4, <3>1, <3>3
    <3> QED
      BY <3>1, <3>2, <3>3
  <2>5. \A a \in KnownHeaders' :
           /\ a.id <= added'
           /\ added' + 1 - a.id < Round => transid_cnt' = After(a.tid, added' + 1 - a.id)
    BY <1>3, <2>2, <2>3
  <2> QED
    BY <2>4, <2>5 DEF IdsInv
<1> QED
  BY <1>2, <1>3, KnownStep

LEMMA InitIds == Init => IdsInv
<1> SUFFICES ASSUME Init PROVE IdsInv
  OBVIOUS
<1>1. /\ \A k \in 1 .. Len(fifo) : FALSE
      /\ fetched.header = NoHeader
      /\ \A i \in Slots : pendings_list[i].header = NoHeader
      /\ BagToSet(wire) = {}
  BY EmptySeq DEF Init, Queue!Init, Queue!NullRequest, BagToSet, EmptyBag, SetToBag
<1>2. KnownHeaders = {}
  BY <1>1 DEF KnownHeaders
<1> QED
  BY <1>2 DEF IdsInv

LEMMA IdsInductive == Spec => []IdsInv
BY InitIds, IdsStep, Inductive, PTL DEF Spec

\* Headers of the last round that share an id belong to the same request.
LEMMA RecentTransids ==
    ASSUME IInv, IdsInv, RecentIds,
           NEW h \in KnownHeaders, NEW k \in KnownHeaders, h.tid = k.tid
    PROVE  h.id = k.id
<1>1. h.id \in Nat /\ k.id \in Nat
  BY KnownAreHeaders, HeaderFields
<1>2. added \in Nat /\ Round \in Nat
  BY DEF IInv, TypeOK, Round
<1>3. added - h.id < Round /\ added - k.id < Round
  BY DEF RecentIds
<1>4. h.id <= added /\ k.id <= added
  BY DEF IdsInv
<1>5. h.id = k.id \/ h.id - k.id >= Round \/ k.id - h.id >= Round
  BY DEF IdsInv
<1> QED
  BY <1>1, <1>2, <1>3, <1>4, <1>5

LEMMA AnswerStep ==
    ASSUME IInv, IdsInv, RecentIds, [Next]_vars, calls' # calls
    PROVE  \E p \in BagToSet(wire) :
              /\ wire' = wire (-) SetToBag({p})
              /\ calls' = [calls EXCEPT ![p.header.id] = @ + 1]
<1>1. PICK p \in BagToSet(wire) : ReceiveResponse(p)
  <2>1. CASE Application
    BY <2>1 DEF Application, RequestAdd, RequestAddFails, RequestCallbackAdd
  <2>2. CASE PendingListFull \/ RequestListEmpty \/ FetchRequest \/ DropRequest \/ PlaceRequest
    BY <2>2 DEF PendingListFull, RequestListEmpty, FetchRequest, DropRequest, PlaceRequest
  <2>3. CASE Receive
    BY <2>3 DEF Receive, ReceiveNothing, ReceiveUnknown, ReceiveBadProtocol,
                ReceiveOtherFunction, ReceiveException
  <2>4. CASE KeepWaiting \/ Retransmit \/ GiveUp
    BY <2>4 DEF KeepWaiting, Retransmit, GiveUp, FinishRun
  <2>5. CASE UNCHANGED vars
    BY <2>5 DEF vars
  <2> QED
    BY <2>1, <2>2, <2>3, <2>4, <2>5 DEF Next, Run
<1> DEFINE i == Min(Matching(p.header.tid))
<1>2. /\ Arrives(p) /\ Matching(p.header.tid) # {}
      /\ calls' = [calls EXCEPT ![pendings_list[i].header.id] = @ + 1]
  BY <1>1 DEF ReceiveResponse
<1>3. i \in Slots /\ i \in Matching(p.header.tid)
  BY <1>2, MatchedSlot
<1> HIDE DEF i
<1>4. pendings_list[i].header \in Headers /\ pendings_list[i].header.tid = p.header.tid
  BY <1>2, <1>3, ArrivesType DEF Matching
<1>5. pendings_list[i].header.id = p.header.id
  BY <1>3, <1>4, KnownAreHeaders, RecentTransids
<1> QED
  BY <1>2, <1>5 DEF Arrives

(***************************************************************************)
(* AnswerReachesOwner: with and without threads, whatever slots were       *)
(* freed, reused or overwritten since the request was sent, and however    *)
(* often the request and its answer were sent and the ids started over.    *)
(***************************************************************************)
THEOREM AnswersReachOwners == Spec => AnswerReachesOwner
<1> DEFINE Reaches ==
        RecentIds /\ calls' # calls =>
            \E p \in BagToSet(wire) :
                /\ wire' = wire (-) SetToBag({p})
                /\ calls' = [calls EXCEPT ![p.header.id] = @ + 1]
<1>1. IInv /\ IdsInv /\ [Next]_vars => [Reaches]_vars
  BY AnswerStep
<1> QED
  BY <1>1, Inductive, IdsInductive, PTL DEF Spec, AnswerReachesOwner

-----------------------------------------------------------------------------
(***************************************************************************)
(* The requests of an application without threads.                         *)
(***************************************************************************)
LEMMA Counts ==
    ASSUME IInv
    PROVE  /\ Len(fifo) \in Nat /\ added \in Nat
           /\ \A k \in 1 .. Len(fifo) : fifo[k] \in Request /\ fifo[k].header.id \in Nat
           /\ pc = "place" => fetched \in Request /\ fetched.header.id \in Requests
           /\ \A i \in Slots : pendings_list[i].header # NoHeader =>
                  pendings_list[i].header \in Headers /\ pendings_list[i].header.id \in Requests
           /\ \A i \in Slots : MayExpire(i) => pendings_list[i].header # NoHeader
           /\ \A i \in Slots : pendings_list[i].retries \in Nat /\ pendings_list[i].timer \in Nat
<1>1. \A k \in 1 .. Len(fifo) : fifo[k] \in Request
  BY ElementOfSeq DEF IInv, TypeOK
<1>2. \A h \in Headers : h.id \in Requests /\ h.id \in Nat /\ h # NoHeader
  BY HeaderFields DEF Requests, Headers
<1>3. \A i \in Slots : pendings_list[i] \in Slot
  BY DEF IInv, TypeOK
<1>4. Len(fifo) \in Nat /\ added \in Nat
  BY LenProperties DEF IInv, TypeOK
<1>5. \A i \in Slots : MayExpire(i) => pendings_list[i].header # NoHeader
  BY <1>2 DEF MayExpire, InUse, IInv, SlotInv
<1>6. pc = "place" => fetched \in Request
  BY DEF IInv, PlaceInv
<1> QED
  BY <1>1, <1>2, <1>3, <1>4, <1>5, <1>6, RequestFields DEF Slot

\* A request is added while Run is not about to place one.
LEMMA AddedBetween ==
    ASSUME IInv, ~Threads, NEW c \in Clients, NEW u \in Units, NEW b \in Bodies,
           RequestAdd(c, u, b)
    PROVE  pc # "place" /\ pc' = pc /\ UNCHANGED <<pendings_list, sends>>
                        /\ added' = added + 1
BY DEF RequestAdd, ApplicationMayRun, pendVars

\* Every other step that does not fetch or place leaves the lists in order.
LEMMA PlaceComes ==
    ASSUME IInv, [Next]_vars, ~FetchRequest
    PROVE  pc' = "place" => pc = "place"
<1>1. CASE Application
  BY <1>1 DEF Application, RequestAdd, RequestAddFails, RequestCallbackAdd
<1>2. CASE PendingListFull \/ RequestListEmpty \/ DropRequest \/ PlaceRequest
  BY <1>2 DEF PendingListFull, RequestListEmpty, DropRequest, PlaceRequest
<1>3. CASE Receive
  BY <1>3 DEF Receive, ReceiveNothing, Arrives, ReceiveUnknown, ReceiveBadProtocol,
              ReceiveOtherFunction, ReceiveException, ReceiveResponse
<1>4. CASE KeepWaiting \/ Retransmit \/ GiveUp
  BY <1>4 DEF KeepWaiting, Retransmit, GiveUp, FinishRun
<1>5. CASE UNCHANGED vars
  BY <1>5 DEF vars
<1> QED
  BY <1>1, <1>2, <1>3, <1>4, <1>5 DEF Next, Run

LEMMA PlacesStep ==
    ASSUME IInv, ~Threads, PlacesInv, [Next]_vars
    PROVE  PlacesInv'
<1> DEFINE last == added - Len(fifo)
<1>0. /\ \A k \in 1 .. Len(fifo) : fifo[k].header.id = last + k
      /\ pc = "place" => fetched.header.id = last
      /\ \A i \in Slots :
            pendings_list[i].header # NoHeader =>
                /\ pendings_list[i].header.id <= last
                /\ pc = "place" => pendings_list[i].header.id < last
      /\ \A i, j \in Slots :
            pendings_list[i].header # NoHeader /\ pendings_list[j].header # NoHeader =>
                (pendings_list[i].header.id = pendings_list[j].header.id => i = j)
  BY DEF PlacesInv
<1>7. /\ Len(fifo) \in Nat /\ added \in Nat /\ last \in Int
      /\ \A i \in Slots : pendings_list[i].header # NoHeader =>
             pendings_list[i].header.id \in Nat
  BY Counts DEF Requests
<1> HIDE DEF last
<1>1. ASSUME NEW c \in Clients, NEW u \in Units, NEW b \in Bodies, RequestAdd(c, u, b)
      PROVE  PlacesInv'
  <2>1. PICK h \in Headers :
           /\ h.id = added + 1
           /\ Len(fifo') = Len(fifo) + 1
           /\ \A k \in 1 .. Len(fifo) : fifo'[k] = fifo[k]
           /\ fifo'[Len(fifo')].header = h
    BY <1>1, AddStep
  <2>2. pc # "place" /\ pc' = pc /\ UNCHANGED pendings_list /\ added' = added + 1
    BY <1>1, AddedBetween
  <2>3. last' = last /\ last = added - Len(fifo)
    BY <1>7, <2>1, <2>2 DEF last
  <2>4. ASSUME NEW k \in 1 .. Len(fifo')
        PROVE  fifo'[k].header.id = last' + k
    <3>1. CASE k \in 1 .. Len(fifo)
      BY <1>0, <2>1, <2>3, <3>1
    <3>2. CASE k = Len(fifo')
      BY <1>7, <2>1, <2>3, <3>2
    <3> QED
      BY <1>7, <2>1, <3>1, <3>2
  <2> QED
    BY <1>0, <2>2, <2>3, <2>4 DEF PlacesInv, last
<1>2. ASSUME NEW c \in Clients, RequestCallbackAdd(c), Queue!AttachCallback(app[c])
      PROVE  PlacesInv'
  <2>1. app[c] \in Bodies
    BY <1>2 DEF RequestCallbackAdd, IInv, TypeOK
  <2>2. /\ Len(fifo') = Len(fifo) /\ fetched' = fetched
        /\ \A k \in 1 .. Len(fifo) : fifo'[k].header = fifo[k].header
    BY <1>2, <2>1, AttachStep
  <2>3. UNCHANGED <<pc, added, pendings_list>>
    BY <1>2 DEF RequestCallbackAdd, pendVars
  <2> QED
    BY <1>0, <2>2, <2>3 DEF PlacesInv, last
<1>3. CASE FetchRequest
  <2>1. /\ Len(fifo) \in Nat \ {0} /\ Len(fifo') = Len(fifo) - 1
        /\ \A k \in 1 .. Len(fifo') : k + 1 \in 1 .. Len(fifo) /\ fifo'[k] = fifo[k + 1]
        /\ fetched' = fifo[1] /\ 1 \in 1 .. Len(fifo)
    BY <1>3, FetchStep DEF FetchRequest
  <2>2. UNCHANGED <<added, pendings_list>>
    BY <1>3 DEF FetchRequest, pendVars
  <2>3. last' = last + 1
    BY <1>7, <2>1, <2>2 DEF last
  <2>4. \A k \in 1 .. Len(fifo') : fifo'[k].header.id = last' + k
    BY <1>0, <1>7, <2>1, <2>3
  <2>5. fetched'.header.id = last'
    BY <1>0, <2>1, <2>3
  <2>6. \A i \in Slots : pendings_list'[i].header # NoHeader =>
            pendings_list'[i].header.id <= last' /\ pendings_list'[i].header.id < last'
    BY <1>0, <1>7, <2>2, <2>3
  <2> QED
    BY <1>0, <2>2, <2>4, <2>5, <2>6 DEF PlacesInv, last
<1>4. CASE PlaceRequest
  <2> DEFINE i == PlaceOfNewRequest
  <2>1. /\ i \in Slots /\ pendings_list'[i].header = fetched.header
        /\ \A j \in Slots \ {i} : pendings_list'[j] = pendings_list[j]
        /\ pc = "place" /\ pc' # "place"
        /\ UNCHANGED <<fifo, fetched, added>>
    BY <1>4, PlaceStep
  <2> HIDE DEF i
  <2>2. fetched.header.id = last /\ last' = last
    BY <1>0, <2>1 DEF last
  <2>3. \A j \in Slots \ {i} : pendings_list'[j].header # NoHeader =>
            pendings_list'[j].header.id < last /\ pendings_list'[j].header.id \in Nat
    BY <1>0, <1>7, <2>1
  <2>4. \A j \in Slots : pendings_list'[j].header # NoHeader =>
            pendings_list'[j].header.id <= last'
    BY <1>7, <2>1, <2>2, <2>3
  <2>5. \A j, k \in Slots :
            pendings_list'[j].header # NoHeader /\ pendings_list'[k].header # NoHeader =>
                (pendings_list'[j].header.id = pendings_list'[k].header.id => j = k)
    <3> SUFFICES ASSUME NEW j \in Slots, NEW k \in Slots,
                        pendings_list'[j].header # NoHeader,
                        pendings_list'[k].header # NoHeader,
                        pendings_list'[j].header.id = pendings_list'[k].header.id,
                        j # k
                 PROVE  FALSE
      OBVIOUS
    <3>1. CASE j = i \/ k = i
      BY <1>7, <2>1, <2>2, <2>3, <3>1
    <3>2. CASE j # i /\ k # i
      BY <1>0, <2>1, <3>2
    <3> QED
      BY <3>1, <3>2
  <2> QED
    BY <1>0, <2>1, <2>2, <2>4, <2>5 DEF PlacesInv, last
<1>5. CASE ~PlaceRequest /\ ~FetchRequest /\ UNCHANGED <<fifo, fetched, added>>
  <2>1. \A j \in Slots : pendings_list'[j].header = pendings_list[j].header
    BY <1>5, SlotStep DEF SameSlots
  <2>2. pc' = "place" => pc = "place"
    BY <1>5, PlaceComes
  <2> QED
    BY <1>0, <1>5, <2>1, <2>2 DEF PlacesInv, last
<1>6. Retransmit => UNCHANGED <<fifo, fetched, added>> /\ ~PlaceRequest /\ ~FetchRequest
  BY DEF Retransmit, FinishRun, queueVars, PlaceRequest, FetchRequest
<1> QED
  BY <1>1, <1>2, <1>3, <1>4, <1>5, <1>6, FrameStep

LEMMA InitPlaces == Init => PlacesInv
<1> SUFFICES ASSUME Init PROVE PlacesInv
  OBVIOUS
<1>1. /\ \A k \in 1 .. Len(fifo) : FALSE
      /\ pc = "request"
      /\ \A i \in Slots : pendings_list[i].header = NoHeader
  BY EmptySeq DEF Init, Queue!Init
<1> QED
  BY <1>1 DEF PlacesInv

LEMMA PlacesInductive ==
    ASSUME ~Threads
    PROVE  Spec => []PlacesInv
BY InitPlaces, PlacesStep, Inductive, PTL DEF Spec

LEMMA FirstNumbers ==
    ASSUME NEW n \in Nat
    PROVE  IsFiniteSet(1 .. n) /\ Cardinality(1 .. n) = n
BY FS_Interval

LEMMA ImageSize ==
    ASSUME NEW S, IsFiniteSet(S), NEW f,
           \A x, y \in S : f[x] = f[y] => x = y
    PROVE  /\ IsFiniteSet({f[x] : x \in S})
           /\ Cardinality({f[x] : x \in S}) = Cardinality(S)
<1> DEFINE g == [x \in S |-> f[x]]
           T == {f[x] : x \in S}
<1>1. g \in Surjection(S, T) /\ g \in Injection(S, T)
  BY DEF Surjection, Injection, IsInjective
<1> QED
  BY <1>1, FS_Surjection

\* Requests in different places have different headers, whatever their ids.
LEMMA WaitingOnce ==
    ASSUME IInv, PlacesInv
    PROVE  /\ \A h, k \in WaitingHeaders : h.id = k.id => h = k
           /\ Cardinality(WaitingHeaders) =
                  Len(fifo) + Cardinality(InUse) + (IF pc = "place" THEN 1 ELSE 0)
<1> DEFINE last == added - Len(fifo)
           F == {fifo[k].header : k \in 1 .. Len(fifo)}
           S == {pendings_list[i].header : i \in InUse}
           P == IF pc = "place" THEN {fetched.header} ELSE {}
<1>0. WaitingHeaders = (F \cup S) \cup P
  BY DEF WaitingHeaders
<1>1. Len(fifo) \in Nat /\ last \in Int /\ InUse \subseteq Slots
  BY Counts DEF InUse
<1>2. \A k \in 1 .. Len(fifo) : fifo[k].header.id = last + k
  BY DEF PlacesInv
<1>3. \A i \in InUse : /\ pendings_list[i].header # NoHeader
                       /\ pendings_list[i].header.id \in Nat
                       /\ pendings_list[i].header.id <= last
                       /\ pc = "place" => pendings_list[i].header.id < last
  BY <1>1, Counts DEF PlacesInv, MayExpire, Requests
<1>4. \A i, j \in InUse :
         pendings_list[i].header.id = pendings_list[j].header.id => i = j
  BY <1>1, <1>3 DEF PlacesInv
<1>5. pc = "place" => fetched.header.id = last
  BY DEF PlacesInv
<1> HIDE DEF last
<1>6. /\ \A h \in F : h.id > last /\ h.id \in Int
      /\ \A h \in S : h.id <= last /\ h.id \in Int
      /\ \A h \in P : h.id = last
      /\ pc = "place" => \A h \in S : h.id < last
  BY <1>1, <1>2, <1>3, <1>5
<1>7. /\ \A h, k \in F : h.id = k.id => h = k
      /\ \A h, k \in S : h.id = k.id => h = k
      /\ \A h, k \in P : h.id = k.id => h = k
  <2>1. \A h, k \in F : h.id = k.id => h = k
    <3> SUFFICES ASSUME NEW m \in 1 .. Len(fifo), NEW n \in 1 .. Len(fifo),
                        fifo[m].header.id = fifo[n].header.id
                 PROVE  fifo[m].header = fifo[n].header
      OBVIOUS
    <3>1. m = n
      BY <1>1, <1>2
    <3> QED
      BY <3>1
  <2>2. \A h, k \in S : h.id = k.id => h = k
    BY <1>4
  <2> QED
    BY <2>1, <2>2
<1>8. F \cap S = {} /\ (F \cup S) \cap P = {}
  <2>3. P # {} => pc = "place"
    OBVIOUS
  <2> HIDE DEF F, S, P
  <2>1. F \cap S = {} /\ F \cap P = {}
    BY <1>6, <1>1
  <2>2. S \cap P = {}
    BY <1>6, <1>1, <2>3
  <2> QED
    BY <2>1, <2>2
<1>9. IsFiniteSet(F) /\ Cardinality(F) = Len(fifo)
  <2> DEFINE f == [k \in 1 .. Len(fifo) |-> fifo[k].header]
  <2>1. \A x, y \in 1 .. Len(fifo) : f[x] = f[y] => x = y
    BY <1>1, <1>2
  <2>2. IsFiniteSet(1 .. Len(fifo)) /\ Cardinality(1 .. Len(fifo)) = Len(fifo)
    <3>1. Len(fifo) \in Nat
      BY <1>1
    <3> QED
      BY <3>1, FirstNumbers
  <2>3. F = {f[k] : k \in 1 .. Len(fifo)}
    OBVIOUS
  <2> HIDE DEF f, F
  <2> QED
    BY <2>1, <2>2, <2>3, ImageSize
<1>10. IsFiniteSet(S) /\ Cardinality(S) = Cardinality(InUse)
  <2> DEFINE f == [i \in InUse |-> pendings_list[i].header]
  <2>1. \A x, y \in InUse : f[x] = f[y] => x = y
    BY <1>4
  <2>2. S = {f[i] : i \in InUse}
    OBVIOUS
  <2> HIDE DEF f, S
  <2> QED
    BY <2>1, <2>2, ImageSize, InUseFinite
<1>11. IsFiniteSet(P) /\ Cardinality(P) = (IF pc = "place" THEN 1 ELSE 0)
  BY FS_EmptySet, FS_Singleton
<1> HIDE DEF F, S, P
<1>12. \A h, k \in WaitingHeaders : h.id = k.id => h = k
  <2> SUFFICES ASSUME NEW h \in WaitingHeaders, NEW k \in WaitingHeaders, h.id = k.id
               PROVE  h = k
    OBVIOUS
  <2>1. h \in F \/ h \in S \/ h \in P
    BY <1>0
  <2>2. k \in F \/ k \in S \/ k \in P
    BY <1>0
  <2>3. (h \in F) <=> (k \in F)
    BY <1>1, <1>6, <2>1, <2>2
  <2>4. (h \in S) <=> (k \in S)
    <3>1. CASE h \in P \/ k \in P
      <4>1. pc = "place"
        BY <3>1 DEF P
      <4> QED
        BY <1>1, <1>6, <2>1, <2>2, <2>3, <4>1
    <3> QED
      BY <2>1, <2>2, <2>3, <3>1, <1>6, <1>1
  <2> QED
    BY <1>7, <2>1, <2>2, <2>3, <2>4
<1>13. IsFiniteSet(F \cup S) /\ Cardinality(F \cup S) = Cardinality(F) + Cardinality(S)
  <2>1. Cardinality(F \cap S) = 0
    BY <1>8, FS_EmptySet
  <2>2. Cardinality(F) \in Nat /\ Cardinality(S) \in Nat
    BY <1>9, <1>10, FS_CardinalityType
  <2>3. Cardinality(F \cup S) = Cardinality(F) + Cardinality(S) - Cardinality(F \cap S)
    BY <1>9, <1>10, FS_Union
  <2>4. IsFiniteSet(F \cup S)
    BY <1>9, <1>10, FS_Union
  <2> QED
    BY <2>1, <2>2, <2>3, <2>4
<1>14. Cardinality((F \cup S) \cup P) = Cardinality(F \cup S) + Cardinality(P)
  <2>1. Cardinality((F \cup S) \cap P) = 0
    BY <1>8, FS_EmptySet
  <2>2. Cardinality(F \cup S) \in Nat /\ Cardinality(P) \in Nat
    BY <1>11, <1>13, FS_CardinalityType
  <2> QED
    BY <1>11, <1>13, <2>1, <2>2, FS_Union
<1> QED
  BY <1>0, <1>9, <1>10, <1>11, <1>12, <1>13, <1>14

LEMMA WaitingKnown ==
    ASSUME IInv
    PROVE  WaitingHeaders \subseteq KnownHeaders
<1>1. pc = "place" => fetched \in Request
  BY DEF IInv, PlaceInv
<1>2. \A i \in InUse : i \in Slots /\ pendings_list[i].header \in Headers
  BY DEF IInv, SlotInv, InUse
<1> QED
  BY <1>1, <1>2, KnownAreHeaders DEF WaitingHeaders

LEMMA RecentDistinct ==
    ASSUME IInv, IdsInv, PlacesInv, RecentIds
    PROVE  LiveTransidsDistinct
BY WaitingOnce, WaitingKnown, RecentTransids DEF LiveTransidsDistinct

(***************************************************************************)
(* As long as the ids in the lists and on the wire are of the last round   *)
(* of transid_cnt, no two requests that wait share one, and every waiting  *)
(* request has a header of its own, though the client frees and refills    *)
(* headers all the time.  The application and Run take turns: a thread     *)
(* that calls RequestAdd between the fetch and the place phase takes the   *)
(* header of the fetched request.                                          *)
(***************************************************************************)
THEOREM RecentTransidsDistinct ==
    ASSUME ~Threads
    PROVE  Spec => [](RecentIds => LiveTransidsDistinct)
<1>1. IInv /\ IdsInv /\ PlacesInv => (RecentIds => LiveTransidsDistinct)
  BY RecentDistinct
<1> QED
  BY <1>1, Inductive, IdsInductive, PlacesInductive, PTL

-----------------------------------------------------------------------------
(***************************************************************************)
(* The transmissions of a request.                                         *)
(***************************************************************************)

\* What a step that transmits nothing leaves to show.
LEMMA QuietSends ==
    ASSUME IInv, SendsInv, SendBudget, UNCHANGED sends,
           LET last == added - Len(fifo)
           IN  /\ (added - Len(fifo))' \in {last, last + 1}
               /\ pc' = "place" => \/ (added - Len(fifo))' = last + 1
                                   \/ pc = "place" /\ (added - Len(fifo))' = last,
           \A i \in Slots :
               MayExpire(i)' =>
                   /\ MayExpire(i)
                   /\ pendings_list'[i].header = pendings_list[i].header
                   /\ pendings_list'[i].retries = pendings_list[i].retries
    PROVE  SendsInv' /\ SendBudget'
<1> DEFINE last == added - Len(fifo)
<1>1. last \in Int /\ Requests \subseteq Nat
  BY Counts DEF Requests
<1>2. SendBudget'
  BY DEF SendBudget
<1>3. \A i \in Slots :
         MayExpire(i)' => /\ sends'[pendings_list'[i].header.id] <= pendings_list'[i].retries + 1
                          /\ pendings_list'[i].retries < Budget
  BY DEF SendsInv
<1>4. \A r \in Requests : r > last => sends'[r] = 0
  BY DEF SendsInv
<1>5. pc = "place" => \A r \in Requests : r = last => sends'[r] = 0
  BY DEF SendsInv
<1>6. /\ last' \in {last, last + 1}
      /\ pc' = "place" => last' = last + 1 \/ (pc = "place" /\ last' = last)
  OBVIOUS
<1> HIDE DEF last
<1>7. ASSUME NEW r \in Requests
      PROVE  /\ r > last' => sends'[r] = 0
             /\ pc' = "place" /\ r = last' => sends'[r] = 0
  BY <1>1, <1>4, <1>5, <1>6, <1>7
<1> QED
  BY <1>2, <1>3, <1>7 DEF SendsInv, last, Budget

LEMMA KeptSlots ==
    ASSUME IInv, Untouched, NEW i \in Slots, MayExpire(i)'
    PROVE  /\ MayExpire(i)
           /\ pendings_list'[i].header = pendings_list[i].header
           /\ pendings_list'[i].retries = pendings_list[i].retries
BY DEF Untouched, MayExpire, InUse

LEMMA PlaceSends ==
    ASSUME IInv, PlacesInv, SendsInv, SendBudget, PlaceRequest
    PROVE  SendsInv' /\ SendBudget'
<1> DEFINE last == added - Len(fifo)
           i == PlaceOfNewRequest
           id == fetched.header.id
<1>1. /\ last \in Int /\ Requests \subseteq Nat /\ sends \in [Requests -> Nat]
      /\ Budget \in Nat /\ Budget >= 1
  BY Counts DEF Requests, Budget, IInv, TypeOK
<1>2. /\ i \in Slots
      /\ InUse' = InUse \cup {i}
      /\ pendings_list'[i].header.id = id /\ pendings_list'[i].retries = 0
      /\ \A j \in Slots \ {i} : pendings_list'[j] = pendings_list[j]
      /\ sends' = [sends EXCEPT ![id] = @ + 1]
      /\ pc = "place" /\ pc' = "receive"
      /\ UNCHANGED <<fifo, added>>
  BY PlaceStep
<1>3. id \in Requests /\ id = last
  <2>1. pc = "place"
    BY <1>2
  <2>2. id \in Requests
    BY <2>1, Counts
  <2>3. id = last
    BY <2>1 DEF PlacesInv
  <2> QED
    BY <2>2, <2>3
<1>4. sends[id] = 0 /\ \A r \in Requests : r > last => sends[r] = 0
  <2>1. pc = "place"
    BY <1>2
  <2> QED
    BY <1>3, <2>1 DEF SendsInv
<1>5. /\ sends' \in [Requests -> Nat] /\ sends'[id] = 1
       /\ \A r \in Requests : r # id => sends'[r] = sends[r]
  <2>1. sends' = [sends EXCEPT ![id] = @ + 1]
    BY <1>2
  <2> HIDE DEF id
  <2> QED
    BY <1>1, <1>3, <1>4, <2>1
<1>6. ASSUME NEW j \in Slots \ {i}, MayExpire(j)'
      PROVE  /\ sends'[pendings_list'[j].header.id] <= pendings_list'[j].retries + 1
             /\ pendings_list'[j].retries < Budget
  <2>1. MayExpire(j) /\ pendings_list'[j] = pendings_list[j]
    BY <1>2, <1>6 DEF MayExpire
  <2>2. pendings_list[j].header.id \in Requests /\ pendings_list[j].header.id < last
    <3>1. pc = "place" /\ j \in Slots
      BY <1>2, <1>6
    <3>2. pendings_list[j].header # NoHeader /\ pendings_list[j].header.id \in Requests
      BY <2>1, <3>1, Counts
    <3> QED
      BY <3>1, <3>2 DEF PlacesInv
  <2>3. sends'[pendings_list[j].header.id] = sends[pendings_list[j].header.id]
    <3> DEFINE k == pendings_list[j].header.id
    <3>1. k \in Requests /\ k < last
      BY <2>2
    <3> HIDE DEF k, id, last
    <3>2. k # id
      BY <1>1, <1>3, <3>1
    <3>3. sends'[k] = sends[k]
      BY <1>5, <3>1, <3>2
    <3> QED
      BY <3>3 DEF k
  <2>4. /\ sends[pendings_list[j].header.id] <= pendings_list[j].retries + 1
        /\ pendings_list[j].retries < Budget
    BY <1>6, <2>1 DEF SendsInv
  <2> QED
    BY <2>1, <2>3, <2>4
<1>7. last' = last
  BY <1>2
<1> HIDE DEF i, last, id
<1>8. \A r \in Requests : r > last' => sends'[r] = 0
  BY <1>1, <1>3, <1>4, <1>5, <1>7
<1>9. /\ sends'[pendings_list'[i].header.id] <= pendings_list'[i].retries + 1
      /\ pendings_list'[i].retries < Budget
  BY <1>1, <1>2, <1>5
<1>10. SendBudget'
  BY <1>1, <1>5 DEF SendBudget, Budget
<1>11. SendsInv'
  <2>1. pc' # "place"
    BY <1>2
  <2>2. \A j \in Slots :
           MayExpire(j)' =>
               /\ sends'[pendings_list'[j].header.id] <= pendings_list'[j].retries + 1
               /\ pendings_list'[j].retries < Budget
    BY <1>6, <1>9
  <2> QED
    BY <1>8, <2>1, <2>2 DEF SendsInv, last, Budget
<1> QED
  BY <1>10, <1>11

LEMMA RetransmitSends ==
    ASSUME IInv, PlacesInv, SendsInv, SendBudget, Retransmit
    PROVE  SendsInv' /\ SendBudget'
<1> DEFINE last == added - Len(fifo)
           i == i_pending
           id == pendings_list[i].header.id
<1>1. /\ last \in Int /\ Requests \subseteq Nat /\ sends \in [Requests -> Nat]
      /\ Budget \in Nat /\ Budget >= 1 /\ i \in Slots
  BY Counts DEF Requests, Budget, IInv, TypeOK
<1>2. /\ Expired /\ ~LastTry /\ pc' = "request" /\ UNCHANGED <<fifo, added>>
      /\ sends' = [sends EXCEPT ![id] = @ + 1]
  BY DEF Retransmit, packageSendFromPendingList, FinishRun, queueVars
<1>3. MayExpire(i)
  <2>1. Ticked[i].timer >= TimeoutResponse
    BY <1>2 DEF Expired
  <2>2. Ticked[i].timer = IF i \in InUse THEN pendings_list[i].timer + 1
                                         ELSE pendings_list[i].timer
    BY <1>1, TickedType
  <2>3. pendings_list[i].timer \in Nat
    BY <1>1, Counts
  <2> QED
    BY <2>1, <2>2, <2>3 DEF MayExpire
<1>4. /\ InUse' \subseteq InUse
      /\ \A j \in Slots : pendings_list'[j].header = pendings_list[j].header
      /\ \A j \in Slots \ {i} : /\ pendings_list'[j].timer = Ticked[j].timer
                                /\ pendings_list'[j].retries = pendings_list[j].retries
      /\ pendings_list'[i].retries = pendings_list[i].retries + 1
  <2>1. TimeoutPhase /\ ~KeepWaiting /\ ~GiveUp
    BY <1>2 DEF TimeoutPhase, Retransmit, KeepWaiting, GiveUp
  <2> QED
    BY <2>1, TimeoutPhaseSame DEF SameSlots
<1>5. \A j \in Slots \ {i} : MayExpire(j)' => MayExpire(j)
  BY <1>4, TickedType DEF MayExpire
<1>6. id \in Requests /\ id <= last /\ pendings_list[i].header # NoHeader
  BY <1>1, <1>3, Counts DEF PlacesInv
<1>7. /\ sends[id] <= pendings_list[i].retries + 1
      /\ pendings_list[i].retries + 1 < Budget
      /\ pendings_list[i].retries \in Nat
  <2>1. sends[id] <= pendings_list[i].retries + 1 /\ pendings_list[i].retries \in Nat
    BY <1>1, <1>3, Counts DEF SendsInv
  <2>2. pendings_list[i].retries + 1 < RetryLimit
    BY <1>2, <2>1 DEF LastTry
  <2> QED
    BY <2>1, <2>2 DEF Budget
<1>8. ASSUME NEW j \in Slots \ {i}, MayExpire(j)'
      PROVE  /\ sends'[pendings_list'[j].header.id] <= pendings_list'[j].retries + 1
             /\ pendings_list'[j].retries < Budget
  <2>1. MayExpire(j) /\ pendings_list[j].header # NoHeader
        /\ pendings_list[j].header.id \in Requests
    BY <1>5, <1>8, Counts
  <2>2. pendings_list[j].header.id # id
    BY <1>1, <1>6, <2>1 DEF PlacesInv
  <2>3. sends'[pendings_list[j].header.id] = sends[pendings_list[j].header.id]
    BY <1>1, <1>2, <1>6, <2>1, <2>2
  <2> QED
    BY <1>4, <2>1, <2>3 DEF SendsInv
<1>9. last' = last
  BY <1>2
<1>10. pendings_list'[i].header.id = id
  BY <1>1, <1>4
<1>11. \A r \in Requests : r > last => sends[r] = 0
  BY DEF SendsInv
<1> HIDE DEF i, last, id
<1>12. /\ sends' \in [Requests -> Nat] /\ sends'[id] = sends[id] + 1
       /\ \A r \in Requests : r # id => sends'[r] = sends[r]
  BY <1>1, <1>2, <1>6
<1>13. \A r \in Requests : r > last' => sends'[r] = 0
  BY <1>1, <1>6, <1>9, <1>11, <1>12
<1>14. /\ sends'[pendings_list'[i].header.id] <= pendings_list'[i].retries + 1
       /\ pendings_list'[i].retries < Budget
  BY <1>1, <1>4, <1>6, <1>7, <1>10, <1>12
<1>15. SendBudget'
  <2>1. sends'[id] <= Budget
    BY <1>1, <1>6, <1>7, <1>12
  <2> QED
    BY <1>12, <2>1 DEF SendBudget, Budget
<1>16. SendsInv'
  BY <1>2, <1>8, <1>13, <1>14 DEF SendsInv, last, Budget
<1> QED
  BY <1>15, <1>16

LEMMA QuietSlots ==
    ASSUME IInv, [Next]_vars, ~PlaceRequest, ~Retransmit
    PROVE  \A i \in Slots :
               MayExpire(i)' =>
                   /\ MayExpire(i)
                   /\ pendings_list'[i].header = pendings_list[i].header
                   /\ pendings_list'[i].retries = pendings_list[i].retries
<1>1. CASE Untouched
  BY <1>1, KeptSlots
<1>2. CASE \E i \in Slots : Freed(i)
  BY <1>2, FreedSame DEF SameSlots, MayExpire
<1>3. CASE TimeoutPhase
  <2>1. /\ InUse' \subseteq InUse
        /\ \A j \in Slots : pendings_list'[j].header = pendings_list[j].header
        /\ \A j \in Slots \ {i_pending} :
              /\ pendings_list'[j].timer = Ticked[j].timer
              /\ pendings_list'[j].retries = pendings_list[j].retries
        /\ \/ /\ pendings_list'[i_pending].timer = Ticked[i_pending].timer
              /\ pendings_list'[i_pending].retries = pendings_list[i_pending].retries
           \/ /\ pendings_list'[i_pending].timer = 0
              /\ pendings_list'[i_pending].status = "FREE"
    BY <1>3, TimeoutPhaseSame DEF SameSlots
  <2>2. \A j \in Slots : Ticked[j].timer = IF j \in InUse THEN pendings_list[j].timer + 1
                                                          ELSE pendings_list[j].timer
    BY TickedType
  <2>3. ASSUME NEW j \in Slots \ {i_pending}, MayExpire(j)'
        PROVE  MayExpire(j) /\ pendings_list'[j].retries = pendings_list[j].retries
    BY <2>1, <2>2, <2>3 DEF MayExpire
  <2>4. ASSUME NEW j \in Slots, j = i_pending, MayExpire(j)'
        PROVE  MayExpire(j) /\ pendings_list'[j].retries = pendings_list[j].retries
    <3>1. CASE pendings_list'[j].timer = 0 /\ pendings_list'[j].status = "FREE"
      <4>1. j \notin InUse'
        BY <3>1 DEF InUse
      <4>2. ~(pendings_list'[j].timer > 0)
        BY <3>1
      <4> QED
        BY <2>4, <4>1, <4>2 DEF MayExpire
    <3>2. CASE /\ pendings_list'[j].timer = Ticked[j].timer
               /\ pendings_list'[j].retries = pendings_list[j].retries
      BY <2>1, <2>2, <2>4, <3>2 DEF MayExpire
    <3> QED
      BY <2>1, <2>4, <3>1, <3>2
  <2> QED
    BY <2>1, <2>3, <2>4
<1> QED
  BY <1>1, <1>2, <1>3, StepOfPendingList

LEMMA SendsStep ==
    ASSUME IInv, ~Threads, PlacesInv, SendsInv, SendBudget, [Next]_vars
    PROVE  SendsInv' /\ SendBudget'
<1>0. Len(fifo) \in Nat /\ added \in Nat
  BY Counts
<1>1. ASSUME NEW c \in Clients, NEW u \in Units, NEW b \in Bodies, RequestAdd(c, u, b)
      PROVE  SendsInv' /\ SendBudget'
  <2>1. Len(fifo') = Len(fifo) + 1
    BY <1>1, AddStep
  <2>2. /\ pc # "place" /\ pc' = pc /\ UNCHANGED <<pendings_list, sends>>
        /\ added' = added + 1
    BY <1>1, AddedBetween
  <2>3. (added - Len(fifo))' = added - Len(fifo)
    BY <1>0, <2>1, <2>2
  <2>4. ~PlaceRequest /\ ~Retransmit
    BY <2>2 DEF PlaceRequest, Retransmit, packageSendFromPendingList, FinishRun
  <2> QED
    BY <2>2, <2>3, <2>4, QuietSlots, QuietSends
<1>2. ASSUME NEW c \in Clients, RequestCallbackAdd(c), Queue!AttachCallback(app[c])
      PROVE  SendsInv' /\ SendBudget'
  <2>1. app[c] \in Bodies
    BY <1>2 DEF RequestCallbackAdd, IInv, TypeOK
  <2>2. Len(fifo') = Len(fifo)
    BY <1>2, <2>1, AttachStep
  <2>3. UNCHANGED <<pc, added, pendings_list, sends>>
    BY <1>2 DEF RequestCallbackAdd, pendVars
  <2>4. (added - Len(fifo))' = added - Len(fifo)
    BY <2>2, <2>3
  <2>5. ~PlaceRequest /\ ~Retransmit
    BY <2>3 DEF PlaceRequest, Retransmit, FinishRun
  <2> QED
    BY <2>3, <2>4, <2>5, QuietSlots, QuietSends
<1>3. CASE FetchRequest
  <2>1. Len(fifo') = Len(fifo) - 1
    BY <1>3, FetchStep DEF FetchRequest
  <2>2. UNCHANGED <<added, pendings_list, sends>> /\ pc = "request"
    BY <1>3 DEF FetchRequest, pendVars
  <2>3. (added - Len(fifo))' = (added - Len(fifo)) + 1
    BY <1>0, <2>1, <2>2
  <2>4. ~PlaceRequest /\ ~Retransmit
    BY <2>2 DEF PlaceRequest, Retransmit, FinishRun
  <2> QED
    BY <2>2, <2>3, <2>4, QuietSlots, QuietSends
<1>4. CASE PlaceRequest
  BY <1>4, PlaceSends
<1>5. CASE Retransmit
  BY <1>5, RetransmitSends
<1>6. CASE /\ ~PlaceRequest /\ ~Retransmit /\ ~FetchRequest
           /\ UNCHANGED <<fifo, added, sends>>
  <2>1. (added - Len(fifo))' = added - Len(fifo)
    BY <1>6
  <2>2. pc' = "place" => pc = "place"
    BY <1>6, PlaceComes
  <2> QED
    BY <1>6, <2>1, <2>2, QuietSlots, QuietSends
<1> QED
  BY <1>1, <1>2, <1>3, <1>4, <1>5, <1>6, FrameStep

(***************************************************************************)
(* A request is transmitted at most RetryLimit times, the first included,  *)
(* also when its slot was answered, overwritten or given up in between: a  *)
(* free slot whose timer ran out is retransmitted like any other, and its  *)
(* retries still count.  The application and Run take turns.               *)
(***************************************************************************)
THEOREM TransmissionsAreBounded ==
    ASSUME ~Threads
    PROVE  Spec => []SendBudget
<1>1. Init => SendsInv /\ SendBudget
  <2> SUFFICES ASSUME Init PROVE SendsInv /\ SendBudget
    OBVIOUS
  <2>1. \A r \in Requests : sends[r] = 0
    BY DEF Init
  <2>2. \A i \in Slots : ~MayExpire(i)
    BY DEF Init, MayExpire, InUse
  <2> QED
    BY <2>1, <2>2 DEF SendsInv, SendBudget
<1>2. IInv /\ PlacesInv /\ SendsInv /\ SendBudget /\ [Next]_vars => SendsInv' /\ SendBudget'
  BY SendsStep
<1> QED
  BY <1>1, <1>2, Inductive, PlacesInductive, PTL DEF Spec

-----------------------------------------------------------------------------
(***************************************************************************)
(* Callbacks.                                                              *)
(***************************************************************************)
LEMMA CallbackStep ==
    ASSUME IInv, ChecksResult, \A c, d \in Clients : c = d, CallbackInv, [Next]_vars
    PROVE  CallbackInv'
<1>1. /\ \A k \in 1 .. Len(fifo) : fifo[k].cb \in {CallBackNull, fifo[k].body}
      /\ \A i \in InUse : pendings_list[i].cb \in {CallBackNull, pendings_list[i].body}
      /\ fetched.cb \in {CallBackNull, fetched.body}
      /\ \A c \in Clients : app[c] # NoBody /\ fifo # <<>> => fifo[Len(fifo)].body = app[c]
  BY DEF CallbackInv, CallbackOfOwnRequest
<1>2. app \in [Clients -> Bodies \cup {NoBody}] /\ fifo \in Seq(Request)
  BY DEF IInv, TypeOK
<1>3. ASSUME ~PlaceRequest
      PROVE  \A i \in InUse' : pendings_list'[i].cb \in {CallBackNull, pendings_list'[i].body}
  BY <1>1, <1>3, SlotStep DEF SameSlots, InUse
<1>4. ASSUME NEW c \in Clients, NEW u \in Units, NEW b \in Bodies, RequestAdd(c, u, b)
      PROVE  CallbackInv'
  <2>1. /\ Len(fifo) \in Nat /\ Len(fifo') = Len(fifo) + 1
        /\ \A k \in 1 .. Len(fifo) : fifo'[k] = fifo[k]
        /\ fifo'[Len(fifo')].body = b
        /\ fifo'[Len(fifo')].cb = CallBackNull
        /\ fetched'.body = fetched.body /\ fetched'.cb = fetched.cb
    BY <1>4, AddStep
  <2>2. app' = [app EXCEPT ![c] = b] /\ ~PlaceRequest
    BY <1>4 DEF RequestAdd, PlaceRequest, addNewRequestToPendingList, pendVars, FinishRun,
                packageSendFromPendingList
  <2>3. \A k \in 1 .. Len(fifo') : fifo'[k].cb \in {CallBackNull, fifo'[k].body}
    <3> SUFFICES ASSUME NEW k \in 1 .. Len(fifo')
                 PROVE  fifo'[k].cb \in {CallBackNull, fifo'[k].body}
      OBVIOUS
    <3>1. k \in 1 .. Len(fifo) \/ k = Len(fifo')
      BY <2>1
    <3> QED
      BY <1>1, <2>1, <3>1
  <2>4. \A d \in Clients : app'[d] = b
    BY <1>2, <2>2
  <2> QED
    BY <1>1, <1>3, <2>1, <2>2, <2>3, <2>4 DEF CallbackInv, CallbackOfOwnRequest
<1>5. ASSUME NEW c \in Clients, NEW b \in Bodies, RequestAddFails(c, b)
      PROVE  CallbackInv'
  <2>1. /\ app' = [app EXCEPT ![c] = NoBody] /\ UNCHANGED <<fifo, fetched, pendings_list>>
    BY <1>5 DEF RequestAddFails, Queue!RefuseFull, pendVars
  <2>2. \A d \in Clients : app'[d] = NoBody
    BY <1>2, <2>1
  <2>3. InUse' = InUse
    BY <2>1 DEF InUse
  <2> QED
    BY <1>1, <2>1, <2>2, <2>3 DEF CallbackInv, CallbackOfOwnRequest
<1>6. ASSUME NEW c \in Clients, RequestCallbackAdd(c)
      PROVE  CallbackInv'
  <2>1. /\ app[c] # NoBody /\ app[c] \in Bodies
        /\ app' = [app EXCEPT ![c] = NoBody] /\ UNCHANGED pendings_list
        /\ Queue!AttachCallback(app[c]) \/ UNCHANGED <<fifo, fetched>>
    BY <1>2, <1>6 DEF RequestCallbackAdd, pendVars, queueVars
  <2>2. \A d \in Clients : app'[d] = NoBody
    BY <1>2, <2>1
  <2>3. InUse' = InUse
    BY <2>1 DEF InUse
  <2>4. CASE UNCHANGED <<fifo, fetched>>
    BY <1>1, <2>1, <2>2, <2>3, <2>4 DEF CallbackInv, CallbackOfOwnRequest
  <2>5. CASE Queue!AttachCallback(app[c])
    <3>1. /\ Len(fifo') = Len(fifo) /\ Len(fifo) \in Nat \ {0} /\ fetched' = fetched
          /\ \A k \in 1 .. Len(fifo) :
                /\ fifo'[k].body = fifo[k].body
                /\ fifo'[k].cb = IF k = Len(fifo) THEN app[c] ELSE fifo[k].cb
      BY <2>1, <2>5, AttachStep
    <3>2. fifo[Len(fifo)].body = app[c]
      BY <1>1, <2>1, <2>5 DEF Queue!AttachCallback
    <3>3. \A k \in 1 .. Len(fifo') : fifo'[k].cb \in {CallBackNull, fifo'[k].body}
      BY <1>1, <3>1, <3>2
    <3> QED
      BY <1>1, <2>1, <2>2, <2>3, <3>1, <3>3 DEF CallbackInv, CallbackOfOwnRequest
  <2> QED
    BY <2>1, <2>4, <2>5
<1>7. CASE FetchRequest
  <2>1. /\ Len(fifo) \in Nat \ {0} /\ Len(fifo') = Len(fifo) - 1
        /\ \A k \in 1 .. Len(fifo') : k + 1 \in 1 .. Len(fifo) /\ fifo'[k] = fifo[k + 1]
        /\ fifo' # <<>> => fifo'[Len(fifo')] = fifo[Len(fifo)]
        /\ fetched' = fifo[1] /\ 1 \in 1 .. Len(fifo)
    BY <1>7, FetchStep DEF FetchRequest
  <2>2. app' = app /\ ~PlaceRequest /\ fifo # <<>>
    BY <1>7 DEF FetchRequest, PlaceRequest, Queue!Fetch
  <2> QED
    BY <1>1, <1>3, <2>1, <2>2 DEF CallbackInv, CallbackOfOwnRequest
<1>8. CASE PlaceRequest
  <2> DEFINE i == PlaceOfNewRequest
  <2>1. /\ InUse' = InUse \cup {i}
        /\ pendings_list'[i].cb = fetched.cb /\ pendings_list'[i].body = fetched.body
        /\ \A j \in Slots \ {i} : pendings_list'[j] = pendings_list[j]
        /\ UNCHANGED <<fifo, fetched, app>>
    BY <1>8, PlaceStep
  <2>2. InUse \subseteq Slots
    BY InUseFinite
  <2> HIDE DEF i
  <2>3. \A j \in InUse' : pendings_list'[j].cb \in {CallBackNull, pendings_list'[j].body}
    BY <1>1, <2>1, <2>2
  <2> QED
    BY <1>1, <2>1, <2>3 DEF CallbackInv, CallbackOfOwnRequest
<1>9. ASSUME ~PlaceRequest, UNCHANGED <<fifo, fetched, app>>
      PROVE  CallbackInv'
  BY <1>1, <1>3, <1>9 DEF CallbackInv, CallbackOfOwnRequest
<1>10. \/ Application \/ FetchRequest \/ PlaceRequest
       \/ ~PlaceRequest /\ UNCHANGED <<fifo, fetched, app>>
  <2>1. CASE PendingListFull \/ RequestListEmpty \/ DropRequest
    BY <2>1 DEF PendingListFull, RequestListEmpty, DropRequest, queueVars
  <2>2. CASE Receive
    BY <2>2 DEF Receive, ReceiveNothing, Arrives, ReceiveUnknown, ReceiveBadProtocol,
                ReceiveOtherFunction, ReceiveException, ReceiveResponse, queueVars
  <2>3. CASE KeepWaiting \/ Retransmit \/ GiveUp
    BY <2>3 DEF KeepWaiting, Retransmit, GiveUp, FinishRun, queueVars
  <2>4. CASE UNCHANGED vars
    BY <2>4 DEF vars
  <2> QED
    BY <2>1, <2>2, <2>3, <2>4 DEF Next, Run
<1>11. Application => CallbackInv'
  BY <1>4, <1>5, <1>6 DEF Application
<1> QED
  BY <1>7, <1>8, <1>9, <1>10, <1>11

(***************************************************************************)
(* A client that is the only one and looks at what RequestAdd returns      *)
(* never hands its callback to another request, though RequestCallbackAdd  *)
(* names none: also when Run fetches the request before the callback is    *)
(* attached, from a thread or not.                                         *)
(***************************************************************************)
THEOREM CallbacksStayWithRequests ==
    ASSUME ChecksResult, \A c, d \in Clients : c = d
    PROVE  Spec => []CallbackOfOwnRequest
<1>1. Init => CallbackInv
  <2> SUFFICES ASSUME Init PROVE CallbackInv
    OBVIOUS
  <2>1. /\ \A k \in 1 .. Len(fifo) : FALSE
        /\ fetched.cb = CallBackNull
        /\ \A c \in Clients : app[c] = NoBody
        /\ InUse = {}
    BY EmptySeq DEF Init, Queue!Init, Queue!NullRequest, InUse
  <2> QED
    BY <2>1 DEF CallbackInv, CallbackOfOwnRequest
<1>2. IInv /\ CallbackInv /\ [Next]_vars => CallbackInv'
  BY CallbackStep
<1>3. CallbackInv => CallbackOfOwnRequest
  BY DEF CallbackInv
<1> QED
  BY <1>1, <1>2, <1>3, Inductive, PTL DEF Spec
===============================================================================
