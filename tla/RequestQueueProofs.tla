------------------------- MODULE RequestQueueProofs -------------------------
(***************************************************************************)
(* RequestQueue is type correct, keeps its ring in order and implements    *)
(* the bounded fifo, for every length of the list and all headers, bodies  *)
(* and callbacks.                                                          *)
(***************************************************************************)
EXTENDS RequestQueue, SequenceTheorems, TLAPS

USE QueueLenAssumption

(***************************************************************************)
(* The inductive invariant.                                                *)
(***************************************************************************)
IInv == TypeOK /\ RingConsistent

LEMMA WrapInSlots ==
    ASSUME NEW i \in Slots
    PROVE  Wrap(i + 1) \in Slots
BY DEF Slots, Wrap

LEMMA LeastIsZero ==
    ASSUME NEW S \in SUBSET Nat, 0 \in S
    PROVE  Min(S) = 0
<1>1. \A y \in S : y \in Nat /\ 0 <= y
  OBVIOUS
<1>2. \A x \in S : (\A y \in S : x <= y) => x = 0
  BY <1>1
<1> QED
  BY <1>1, <1>2 DEF Min

(***************************************************************************)
(* With room in the list the slot at head is empty: the walk of enqueueMC  *)
(* ends at its first probe, and its other branch is never taken.           *)
(***************************************************************************)
LEMMA HeadIsFree ==
    ASSUME IInv, HasRoom
    PROVE  EmptyAhead # {} /\ FirstEmpty = head
<1>1. slot[head].status = "QUEUE_EMPTY"
  <2>1. ~InWindow(head)
    BY DEF IInv, TypeOK, RingConsistent, HasRoom, InWindow, Wrap, Slots
  <2> QED
    BY <2>1 DEF IInv, TypeOK, RingConsistent, Slot
<1>2. WalkLength \in Nat \ {0}
  BY DEF IInv, TypeOK, WalkLength, Slots
<1>3. 0 \in EmptyAhead /\ EmptyAhead \subseteq Nat
  BY <1>1, <1>2 DEF EmptyAhead, Wrap, IInv, TypeOK, Slots
<1>4. Min(EmptyAhead) = 0
  BY <1>3, LeastIsZero
<1> QED
  BY <1>3, <1>4 DEF FirstEmpty, Wrap, IInv, TypeOK, Slots

LEMMA InitIInv == Init => IInv
<1> SUFFICES ASSUME Init PROVE IInv
  OBVIOUS
<1>1. TypeOK
  BY DEF Init, TypeOK, Slots, Slot, FetchedRequest, NullRequest
<1>2. RingConsistent
  BY DEF Init, RingConsistent, InWindow, Slots, Wrap
<1> QED
  BY <1>1, <1>2 DEF IInv

LEMMA NextIInv == IInv /\ [Next]_vars => IInv'
<1> SUFFICES ASSUME IInv, [Next]_vars PROVE IInv'
  OBVIOUS
<1> USE DEF IInv
<1>1. ASSUME NEW h \in Headers, NEW b \in Bodies, Enqueue(h, b)
      PROVE  IInv'
  <2>1. FirstEmpty = head /\ HasRoom
    BY <1>1, HeadIsFree DEF Enqueue
  <2>2. /\ slot' = [slot EXCEPT ![head] = [status |-> "QUEUE_FULL", header |-> h,
                                           body |-> b, cb |-> CallBackNull]]
        /\ used' = used + 1
        /\ head' = Wrap(head + 1)
        /\ UNCHANGED <<tail, fetched>>
        /\ result' = "ERROR_OK"
    BY <1>1, <2>1 DEF Enqueue
  <2>3. TypeOK'
    BY <2>1, <2>2, WrapInSlots DEF TypeOK, Slot, HasRoom, Slots
  <2>4. head' = Wrap(tail' + used')
    BY <2>1, <2>2 DEF TypeOK, RingConsistent, Wrap, Slots, HasRoom
  <2>5. ASSUME NEW i \in Slots
        PROVE  (slot'[i].status = "QUEUE_FULL") <=> InWindow(i)'
    <3>1. InWindow(i)' <=> InWindow(i) \/ i = head
      BY <2>1, <2>2 DEF TypeOK, RingConsistent, InWindow, Wrap, Slots, HasRoom
    <3>2. CASE i = head
      BY <2>2, <3>1, <3>2 DEF TypeOK
    <3>3. CASE i # head
      BY <2>2, <3>1, <3>3 DEF TypeOK, RingConsistent
    <3> QED
      BY <3>2, <3>3
  <2> QED
    BY <2>3, <2>4, <2>5 DEF RingConsistent
<1>2. CASE EnqueueFails
  <2>1. ~HasRoom
    BY <1>2, HeadIsFree DEF EnqueueFails
  <2>2. UNCHANGED <<slot, head, tail, used, fetched>>
    BY <1>2, <2>1 DEF EnqueueFails
  <2>3. TypeOK'
    BY <1>2, <2>2 DEF TypeOK, EnqueueFails
  <2> QED
    BY <2>2, <2>3 DEF RingConsistent, InWindow
<1>3. CASE AddWithoutHeader
  BY <1>3 DEF AddWithoutHeader, TypeOK, RingConsistent, InWindow
<1>4. CASE Dequeue
  <2>1. used > 0
    BY <1>4 DEF Dequeue, TypeOK, RingConsistent, InWindow, Slots
  <2>2. used' = used - 1 /\ tail' = Wrap(tail + 1) /\ head' = head
    BY <1>4, <2>1 DEF Dequeue
  <2>3. TypeOK'
    <3>1. slot' \in [Slots -> Slot]
      BY <1>4 DEF Dequeue, TypeOK, Slot
    <3>2. fetched' \in FetchedRequest
      BY <1>4 DEF Dequeue, TypeOK, Slot, FetchedRequest
    <3>3. tail' \in Slots
      BY <1>4, WrapInSlots DEF Dequeue, TypeOK
    <3> QED
      BY <1>4, <2>1, <3>1, <3>2, <3>3 DEF Dequeue, TypeOK
  <2>4. head' = Wrap(tail' + used')
    BY <2>1, <2>2 DEF TypeOK, RingConsistent, Wrap, Slots
  <2>5. ASSUME NEW i \in Slots
        PROVE  (slot'[i].status = "QUEUE_FULL") <=> InWindow(i)'
    <3>1. InWindow(i)' <=> InWindow(i) /\ i # tail
      BY <2>1, <2>2 DEF TypeOK, InWindow, Wrap, Slots
    <3>2. CASE i = tail
      BY <1>4, <3>1, <3>2 DEF Dequeue, TypeOK
    <3>3. CASE i # tail
      BY <1>4, <3>1, <3>3 DEF Dequeue, TypeOK, RingConsistent
    <3> QED
      BY <3>2, <3>3
  <2> QED
    BY <2>3, <2>4, <2>5 DEF RingConsistent
<1>5. CASE DequeueNothing
  BY <1>5 DEF DequeueNothing, TypeOK, RingConsistent, InWindow,
              FetchedRequest, NullRequest
<1>6. ASSUME NEW cb \in Callbacks, CallbackAdd(cb)
      PROVE  IInv'
  <2>1. TypeOK'
    BY <1>6 DEF CallbackAdd, TypeOK, Slot
  <2>2. \A i \in Slots : slot'[i].status = slot[i].status
    BY <1>6 DEF CallbackAdd, TypeOK, Slot
  <2> QED
    BY <1>6, <2>1, <2>2 DEF CallbackAdd, RingConsistent, InWindow
<1>7. CASE UNCHANGED vars
  BY <1>7 DEF vars, TypeOK, RingConsistent, InWindow
<1> QED
  BY <1>1, <1>2, <1>3, <1>4, <1>5, <1>6, <1>7 DEF Next, RequestAdd

(***************************************************************************)
(* The list is type correct, and its indices and count always describe the *)
(* same slots.                                                             *)
(***************************************************************************)
THEOREM RingCorrect == Spec => [](TypeOK /\ RingConsistent)
<1>1. IInv => TypeOK /\ RingConsistent
  BY DEF IInv
<1> QED
  BY <1>1, InitIInv, NextIInv, PTL DEF Spec

-----------------------------------------------------------------------------

(***************************************************************************)
(* What the loan of a header needs besides: every full slot holds a real   *)
(* header, and the fetched request, when there is one, names the slot just *)
(* before tail.                                                            *)
(***************************************************************************)
LoanInv ==
    /\ \A i \in Slots : slot[i].status = "QUEUE_FULL" => slot[i].header \in Headers
    /\ fetched # NullRequest =>
          /\ fetched.header \in Slots
          /\ tail = Wrap(fetched.header + 1)
          /\ slot[fetched.header].header \in Headers

RInv == IInv /\ LoanInv

LEMMA InitRInv == Init => RInv
<1>1. Init => LoanInv
  BY DEF Init, LoanInv, Slots
<1> QED
  BY <1>1, InitIInv DEF RInv

LEMMA NextRInv == RInv /\ [Next]_vars => RInv'
<1> SUFFICES ASSUME RInv, [Next]_vars PROVE LoanInv'
  BY NextIInv DEF RInv
<1> USE DEF RInv
<1>1. ASSUME NEW h \in Headers, NEW b \in Bodies, Enqueue(h, b)
      PROVE  LoanInv'
  <2>1. FirstEmpty = head
    BY <1>1, HeadIsFree DEF Enqueue
  <2>2. /\ slot' = [slot EXCEPT ![head] = [status |-> "QUEUE_FULL", header |-> h,
                                           body |-> b, cb |-> CallBackNull]]
        /\ UNCHANGED <<tail, fetched>>
    BY <1>1, <2>1 DEF Enqueue
  <2>3. \A i \in Slots : slot'[i] = slot[i] \/ slot'[i].header = h
    BY <2>2 DEF IInv, TypeOK
  <2>4. \A i \in Slots : slot'[i].status = "QUEUE_FULL" => slot'[i].header \in Headers
    BY <2>3 DEF LoanInv
  <2> QED
    BY <2>2, <2>3, <2>4 DEF LoanInv, NullRequest
<1>2. CASE EnqueueFails
  BY <1>2 DEF EnqueueFails, LoanInv, NullRequest
<1>3. CASE AddWithoutHeader
  BY <1>3 DEF AddWithoutHeader, LoanInv, NullRequest
<1>4. CASE Dequeue
  <2>1. \A i \in Slots : slot'[i].header = slot[i].header
    BY <1>4 DEF Dequeue, IInv, TypeOK, Slot
  <2>2. \A i \in Slots : slot'[i].status = "QUEUE_FULL" => slot[i].status = "QUEUE_FULL"
    BY <1>4 DEF Dequeue, IInv, TypeOK, Slot
  <2>3. /\ fetched'.header = tail
        /\ tail \in Slots
        /\ tail' = Wrap(tail + 1)
        /\ slot[tail].header \in Headers
    BY <1>4 DEF Dequeue, LoanInv, IInv, TypeOK
  <2> QED
    BY <2>1, <2>2, <2>3 DEF LoanInv
<1>5. CASE DequeueNothing
  BY <1>5 DEF DequeueNothing, LoanInv, NullRequest
<1>6. ASSUME NEW cb \in Callbacks, CallbackAdd(cb)
      PROVE  LoanInv'
  <2>1. \A i \in Slots : /\ slot'[i].header = slot[i].header
                         /\ slot'[i].status = slot[i].status
    BY <1>6 DEF CallbackAdd, IInv, TypeOK, Slot
  <2> QED
    BY <1>6, <2>1 DEF CallbackAdd, LoanInv, NullRequest
<1>7. CASE UNCHANGED vars
  BY <1>7 DEF vars, LoanInv, NullRequest
<1> QED
  BY <1>1, <1>2, <1>3, <1>4, <1>5, <1>6, <1>7 DEF Next, RequestAdd

-----------------------------------------------------------------------------

Entry == [header : Headers \cup {NoHeader},
          body   : Bodies \cup {NoBody},
          cb     : Callbacks \cup {CallBackNull}]

LEMMA FifoType ==
    IInv => /\ fifo \in Seq(Entry)
            /\ Len(fifo) = used
            /\ \A k \in 1 .. used : Wrap(tail + k - 1) \in Slots
<1> SUFFICES ASSUME IInv
             PROVE  /\ fifo \in Seq(Entry)
                    /\ Len(fifo) = used
                    /\ \A k \in 1 .. used : Wrap(tail + k - 1) \in Slots
  OBVIOUS
<1>1. used \in Nat /\ used <= QueueLen
  BY DEF IInv, TypeOK
<1>2. ASSUME NEW k \in 1 .. used
      PROVE  Wrap(tail + k - 1) \in Slots
  BY <1>1 DEF IInv, TypeOK, Wrap, Slots
<1>3. fifo \in [1 .. used -> Entry]
  BY <1>2 DEF fifo, Entry, IInv, TypeOK, Slot
<1>4. fifo \in Seq(Entry)
  BY <1>1, <1>3, SeqDef
<1>5. Len(fifo) = used
  BY <1>1, <1>4, LenProperties DEF fifo
<1> QED
  BY <1>2, <1>4, <1>5

(***************************************************************************)
(* The request the fetched one stands for is the null request of the fifo  *)
(* exactly when nothing was fetched.                                       *)
(***************************************************************************)
LEMMA LentIsNull ==
    ASSUME RInv
    PROVE  lent = Fifo!NullRequest <=> fetched = NullRequest
BY NullAssumption DEF RInv, LoanInv, lent, Fifo!NullRequest, NullRequest,
                      Slots, NULL, IInv, TypeOK, FetchedRequest

LEMMA InitRefines == Init => Fifo!Init
<1> SUFFICES ASSUME Init PROVE Fifo!Init
  OBVIOUS
<1>1. IInv
  BY InitIInv
<1>2. fifo = <<>>
  BY <1>1, FifoType, EmptySeq DEF Init
<1>3. lent = Fifo!NullRequest
  BY DEF Init, lent, NullRequest, Fifo!NullRequest, NULL
<1> QED
  BY <1>2, <1>3 DEF Fifo!Init, Init

LEMMA EnqueueRefines ==
    ASSUME RInv, RInv', NEW h \in Headers, NEW b \in Bodies, Enqueue(h, b)
    PROVE  Fifo!Accept(h, b)
<1> USE DEF RInv
<1> DEFINE new == Fifo!NewRequest(h, b)
<1>1. /\ used < QueueLen
      /\ slot' = [slot EXCEPT ![head] = [status |-> "QUEUE_FULL", header |-> h,
                                         body |-> b, cb |-> CallBackNull]]
      /\ used' = used + 1
      /\ tail' = tail
      /\ fetched' = fetched
      /\ result' = "ERROR_OK"
  BY HeadIsFree DEF Enqueue, HasRoom
<1>2. head = Wrap(tail + used) /\ head \in Slots
  BY DEF IInv, TypeOK, RingConsistent
<1>3. used \in Nat /\ tail \in Slots
  BY DEF IInv, TypeOK
<1>4. new \in Entry
  BY DEF Entry, Fifo!NewRequest
<1>5. fifo' = Append(fifo, new)
  <2>1. fifo \in Seq(Entry) /\ Len(fifo) = used
    BY FifoType
  <2>2. fifo' \in Seq(Entry) /\ Len(fifo') = used + 1
    <3>1. (IInv => fifo \in Seq(Entry) /\ Len(fifo) = used)'
      BY FifoType, PTL
    <3> QED
      BY <1>1, <3>1
  <2>3. /\ Append(fifo, new) \in Seq(Entry)
        /\ Len(Append(fifo, new)) = used + 1
        /\ Append(fifo, new)[used + 1] = new
        /\ \A k \in 1 .. used : Append(fifo, new)[k] = fifo[k]
    BY <2>1, <1>4, AppendProperties
  <2>4. ASSUME NEW k \in 1 .. used + 1
        PROVE  fifo'[k] = Append(fifo, new)[k]
    <3>1. fifo'[k] = [header |-> slot'[Wrap(tail + k - 1)].header,
                      body |-> slot'[Wrap(tail + k - 1)].body,
                      cb |-> slot'[Wrap(tail + k - 1)].cb]
      BY <1>1 DEF fifo, Wrap
    <3>2. CASE k = used + 1
      <4>1. Wrap(tail + k - 1) = head
        BY <1>2, <1>3, <3>2 DEF Wrap
      <4> QED
        BY <1>1, <1>2, <2>3, <3>1, <3>2, <4>1 DEF IInv, TypeOK, Fifo!NewRequest
    <3>3. CASE k \in 1 .. used
      <4>1. Wrap(tail + k - 1) # head /\ Wrap(tail + k - 1) \in Slots
        BY <1>1, <1>2, <1>3, <3>3 DEF Wrap, Slots
      <4>2. slot'[Wrap(tail + k - 1)] = slot[Wrap(tail + k - 1)]
        BY <1>1, <4>1 DEF IInv, TypeOK
      <4> QED
        BY <2>3, <3>1, <3>3, <4>2 DEF fifo
    <3>4. k = used + 1 \/ k \in 1 .. used
      BY <1>3
    <3> QED
      BY <3>2, <3>3, <3>4
  <2> QED
    BY <2>2, <2>3, <2>4, SeqEqual
<1>6. lent' = Fifo!Reclaim(h)
  <2>1. CASE fetched = NullRequest
    BY <1>1, <2>1, LentIsNull DEF Fifo!Reclaim, lent, NullRequest, NULL
  <2>2. CASE fetched # NullRequest
    <3>1. /\ fetched.header \in Slots
          /\ fetched.header # NULL
          /\ tail = Wrap(fetched.header + 1)
      BY <2>2 DEF LoanInv, Slots, NULL
    <3>2. head = fetched.header <=> used + 1 = QueueLen
      BY <1>1, <1>2, <1>3, <3>1 DEF Wrap, Slots
    <3>3. slot'[fetched.header].header =
             IF used + 1 = QueueLen THEN h ELSE slot[fetched.header].header
      BY <1>1, <1>2, <3>1, <3>2 DEF IInv, TypeOK
    <3>4. Len(fifo) = used
      BY FifoType
    <3> QED
      BY <1>1, <2>2, <3>1, <3>3, <3>4, LentIsNull DEF Fifo!Reclaim, lent
  <2> QED
    BY <2>1, <2>2
<1>7. Len(fifo) < QueueLen
  BY <1>1, FifoType
<1> QED
  BY <1>1, <1>5, <1>6, <1>7 DEF Fifo!Accept

LEMMA DequeueRefines ==
    ASSUME RInv, RInv', Dequeue
    PROVE  Fifo!Fetch
<1> USE DEF RInv
<1>1. /\ used > 0
      /\ used' = used - 1
      /\ tail' = Wrap(tail + 1)
      /\ fetched' = [header |-> tail, body |-> slot[tail].body, cb |-> slot[tail].cb]
      /\ slot' = [slot EXCEPT ![tail].status = "QUEUE_EMPTY"]
      /\ result' = result
  BY DEF Dequeue, IInv, TypeOK, RingConsistent, InWindow, Slots
<1>2. used \in Nat /\ tail \in Slots /\ used <= QueueLen
  BY DEF IInv, TypeOK
<1>3. fifo \in Seq(Entry) /\ Len(fifo) = used /\ fifo # <<>>
  BY <1>1, FifoType, EmptySeq
<1>4. \A i \in Slots : /\ slot'[i].header = slot[i].header
                       /\ slot'[i].body = slot[i].body
                       /\ slot'[i].cb = slot[i].cb
  BY <1>1 DEF IInv, TypeOK, Slot
<1>5. lent' = Head(fifo)
  <2>1. Head(fifo) = [header |-> slot[tail].header, body |-> slot[tail].body,
                      cb |-> slot[tail].cb]
    <3>1. Head(fifo) = fifo[1]
      BY <1>3
    <3>2. Wrap(tail + 1 - 1) = tail
      BY <1>2 DEF Wrap, Slots
    <3> QED
      BY <1>1, <1>2, <3>1, <3>2 DEF fifo
  <2>2. tail # NULL
    BY <1>2 DEF Slots, NULL
  <2> QED
    BY <1>1, <1>2, <1>4, <2>1, <2>2 DEF lent
<1>6. fifo' = Tail(fifo)
  <2>1. fifo' \in Seq(Entry) /\ Len(fifo') = used - 1
    <3>1. (IInv => fifo \in Seq(Entry) /\ Len(fifo) = used)'
      BY FifoType, PTL
    <3> QED
      BY <1>1, <3>1
  <2>2. /\ Tail(fifo) \in Seq(Entry)
        /\ Len(Tail(fifo)) = used - 1
        /\ \A k \in 1 .. used - 1 : Tail(fifo)[k] = fifo[k + 1]
    BY <1>3, HeadTailProperties
  <2>3. ASSUME NEW k \in 1 .. used - 1
        PROVE  fifo'[k] = Tail(fifo)[k]
    <3>1. Wrap(tail' + k - 1) = Wrap(tail + (k + 1) - 1)
      BY <1>1, <1>2 DEF Wrap, Slots
    <3>2. Wrap(tail + (k + 1) - 1) \in Slots
      BY <1>2 DEF Wrap, Slots
    <3>3. fifo'[k] = [header |-> slot'[Wrap(tail' + k - 1)].header,
                      body |-> slot'[Wrap(tail' + k - 1)].body,
                      cb |-> slot'[Wrap(tail' + k - 1)].cb]
      BY <1>1 DEF fifo, Wrap
    <3>4. fifo[k + 1] = [header |-> slot[Wrap(tail + (k + 1) - 1)].header,
                         body |-> slot[Wrap(tail + (k + 1) - 1)].body,
                         cb |-> slot[Wrap(tail + (k + 1) - 1)].cb]
      BY <1>2 DEF fifo
    <3> QED
      BY <1>4, <2>2, <3>1, <3>2, <3>3, <3>4
  <2> QED
    BY <2>1, <2>2, <2>3, SeqEqual
<1> QED
  BY <1>1, <1>3, <1>5, <1>6 DEF Fifo!Fetch

(***************************************************************************)
(* A callback set while the list is empty reaches no request: the fifo     *)
(* does not see the step.                                                  *)
(***************************************************************************)
LEMMA CallbackAddRefines ==
    ASSUME RInv, RInv', NEW cb \in Callbacks, CallbackAdd(cb)
    PROVE  Fifo!AttachCallback(cb) \/ UNCHANGED Fifo!vars
<1> USE DEF RInv
<1> DEFINE last == IF head = 0 THEN QueueLen - 1 ELSE head - 1
<1>1. /\ slot' = [slot EXCEPT ![last].cb = cb]
      /\ UNCHANGED <<head, tail, used, fetched, result>>
  BY DEF CallbackAdd
<1>2. /\ used \in Nat /\ used <= QueueLen
      /\ tail \in Slots /\ head \in Slots /\ last \in Slots
      /\ head = Wrap(tail + used)
  BY DEF IInv, TypeOK, RingConsistent, Slots
<1>3. \A i \in Slots : /\ slot'[i].header = slot[i].header
                       /\ slot'[i].body = slot[i].body
                       /\ slot'[i].cb = IF i = last THEN cb ELSE slot[i].cb
  BY <1>1, <1>2 DEF IInv, TypeOK, Slot
<1>4. lent' = lent
  BY <1>1, <1>3 DEF lent, IInv, TypeOK, FetchedRequest
<1>5. fifo \in Seq(Entry) /\ Len(fifo) = used
  BY FifoType
<1>6. fifo' \in Seq(Entry) /\ Len(fifo') = used
  <2>1. (IInv => fifo \in Seq(Entry) /\ Len(fifo) = used)'
    BY FifoType, PTL
  <2> QED
    BY <1>1, <2>1
<1>7. ASSUME NEW k \in 1 .. used
      PROVE  fifo'[k] = [header |-> fifo[k].header, body |-> fifo[k].body,
                         cb |-> IF k = used THEN cb ELSE fifo[k].cb]
  <2>1. Wrap(tail + k - 1) \in Slots
    BY FifoType
  <2>2. Wrap(tail + k - 1) = last <=> k = used
    BY <1>2 DEF Wrap, Slots
  <2>3. fifo[k] = [header |-> slot[Wrap(tail + k - 1)].header,
                   body |-> slot[Wrap(tail + k - 1)].body,
                   cb |-> slot[Wrap(tail + k - 1)].cb]
    BY DEF fifo
  <2>4. fifo'[k] = [header |-> slot'[Wrap(tail + k - 1)].header,
                    body |-> slot'[Wrap(tail + k - 1)].body,
                    cb |-> slot'[Wrap(tail + k - 1)].cb]
    BY <1>1 DEF fifo, Wrap
  <2> QED
    BY <1>3, <2>1, <2>2, <2>3, <2>4
<1>8. CASE used = 0
  <2>1. fifo' = <<>> /\ fifo = <<>>
    BY <1>5, <1>6, <1>8, EmptySeq
  <2> QED
    BY <1>1, <1>4, <2>1 DEF Fifo!vars
<1>9. CASE used > 0
  <2>1. fifo # <<>>
    BY <1>5, <1>9, EmptySeq
  <2> DEFINE marked == [fifo EXCEPT ![Len(fifo)].cb = cb]
  <2>2. \A k \in 1 .. used : fifo[k] \in Entry
    BY <1>5, ElementOfSeq
  <2>3. [fifo[used] EXCEPT !.cb = cb] \in Entry
    BY <1>2, <1>9, <2>2 DEF Entry
  <2>4. /\ marked \in Seq(Entry)
        /\ Len(marked) = used
        /\ \A k \in 1 .. used :
              marked[k] = IF k = used THEN [fifo[used] EXCEPT !.cb = cb] ELSE fifo[k]
    BY <1>2, <1>5, <1>9, <2>3, ExceptSeq
  <2> HIDE DEF marked
  <2>5. ASSUME NEW k \in 1 .. used
        PROVE  fifo'[k] = marked[k]
    <3>1. fifo[k] = [header |-> fifo[k].header, body |-> fifo[k].body,
                     cb |-> fifo[k].cb]
      BY <2>2 DEF Entry
    <3>2. CASE k = used
      <4>1. marked[k] = [fifo[k] EXCEPT !.cb = cb]
        BY <2>4, <3>2
      <4>2. [fifo[k] EXCEPT !.cb = cb] = [header |-> fifo[k].header,
                                          body |-> fifo[k].body, cb |-> cb]
        BY <2>2 DEF Entry
      <4> QED
        BY <1>7, <3>2, <4>1, <4>2
    <3>3. CASE k # used
      BY <1>7, <2>4, <3>1, <3>3
    <3> QED
      BY <3>2, <3>3
  <2>6. fifo' = marked
    BY <1>6, <2>4, <2>5, SeqEqual
  <2> QED
    BY <1>1, <1>4, <2>1, <2>6 DEF marked, Fifo!AttachCallback
<1> QED
  BY <1>2, <1>8, <1>9

LEMMA NextRefines ==
    ASSUME CharIsSigned, RInv, RInv', [Next]_vars
    PROVE  [Fifo!Next]_(Fifo!vars)
<1> USE DEF RInv
<1>1. ASSUME NEW h \in Headers, NEW b \in Bodies, Enqueue(h, b)
      PROVE  Fifo!Next
  BY <1>1, EnqueueRefines DEF Fifo!Next
<1>2. CASE EnqueueFails
  <2>1. ~HasRoom
    BY <1>2, HeadIsFree DEF EnqueueFails
  <2>2. Len(fifo) = QueueLen
    BY <2>1, FifoType DEF HasRoom, IInv, TypeOK
  <2>3. UNCHANGED <<fifo, lent>> /\ result' = "ERROR_QUEUE_FULL"
    BY <1>2 DEF EnqueueFails, fifo, lent, Wrap
  <2> QED
    BY <2>2, <2>3 DEF Fifo!Next, Fifo!RefuseFull
<1>3. CASE AddWithoutHeader
  BY <1>3 DEF AddWithoutHeader, Fifo!Next, Fifo!RefuseNoHeader, fifo, lent, Wrap
<1>4. CASE Dequeue
  BY <1>4, DequeueRefines DEF Fifo!Next
<1>5. CASE DequeueNothing
  <2>1. used = 0
    BY <1>5 DEF DequeueNothing, IInv, TypeOK, RingConsistent, InWindow, Slots
  <2>2. fifo = <<>>
    BY <2>1, FifoType, EmptySeq
  <2>3. UNCHANGED fifo
    BY <1>5 DEF DequeueNothing, fifo, Wrap
  <2>4. lent' = Fifo!NullRequest
    BY <1>5 DEF DequeueNothing, lent, NullRequest, Fifo!NullRequest, NULL
  <2>5. result' = result
    BY <1>5 DEF DequeueNothing
  <2> QED
    BY <2>2, <2>3, <2>4, <2>5 DEF Fifo!Next, Fifo!FetchNothing
<1>6. ASSUME NEW cb \in Callbacks, CallbackAdd(cb)
      PROVE  [Fifo!Next]_(Fifo!vars)
  BY <1>6, CallbackAddRefines DEF Fifo!Next
<1>7. CASE UNCHANGED vars
  BY <1>7 DEF vars, Fifo!vars, fifo, lent, Wrap
<1> QED
  BY <1>1, <1>2, <1>3, <1>4, <1>5, <1>6, <1>7 DEF Next, RequestAdd

(***************************************************************************)
(* In a build whose char is signed the ring is the bounded fifo: requests  *)
(* leave in the order of the calls that added them, unchanged and once.    *)
(***************************************************************************)
THEOREM RingImplementsFifo ==
    ASSUME CharIsSigned
    PROVE  Spec => ImplementsFifo
<1>1. Init => Fifo!Init
  BY InitRefines
<1>2. RInv /\ RInv' /\ [Next]_vars => [Fifo!Next]_(Fifo!vars)
  BY NextRefines
<1> QED
  BY <1>1, <1>2, InitRInv, NextRInv, PTL DEF Spec, ImplementsFifo, Fifo!Spec
=============================================================================
