---------------------- MODULE SocketClientThreadProofs ----------------------
(***************************************************************************)
(* The request list between the two threads of the demo application, for   *)
(* every length of the two lists and every interleaving of the accesses:   *)
(* as long as no update of field_used is lost a fetch finds the request    *)
(* that field_used announced, the list is a fifo, and a callback stays     *)
(* with its request if smActionControl finds room for what it adds, which  *)
(* it does if its wait is long enough for Run to drain the list.           *)
(***************************************************************************)
EXTENDS SocketClientThread, FiniteSetTheorems, SequenceTheorems,
        WellFoundedInduction, TLAPS

USE QueueLenAssumption, NullAssumption, DemoAssumption, NamesAssumption

-----------------------------------------------------------------------------
(***************************************************************************)
(* Types, and where the two threads can be.                                *)
(***************************************************************************)
RingSlot == [status : {"QUEUE_EMPTY", "QUEUE_FULL"},
             body : Bodies \cup {NoBody}, cb : Callbacks \cup {CallBackNull}]

PenSlot == [status : {"FREE", "INUSE"}, body : Bodies \cup {NoBody},
            cb : Callbacks \cup {CallBackNull}, timer : Nat, open : BOOLEAN]

Todos ==
    {<<>>, AreasToRead,
     <<"CallbackCompControl", "params", "monitor", "NEXT">>,
     <<"params", "monitor", "NEXT">>, <<"monitor", "NEXT">>, <<"NEXT">>}

PlaceInv ==
    /\ add_pc \in {"idle", "probe", "status", "callback", "count", "store", "head"}
    /\ run_pc \in {"idle", "status", "copy", "empty", "tail", "count", "store",
                   "fetched", "receive", "timeout"}
    /\ todo \in Todos
    /\ lost \in Nat
    /\ fetched \in [body : Bodies \cup {NoBody}, cb : Callbacks \cup {CallBackNull}]
    /\ pend \in [PenSlots -> PenSlot]
    /\ add_body \in Bodies \cup {NoBody}
    /\ add_pc # "idle" => add_body \in Bodies
    /\ add_pc \in {"probe", "status", "callback", "count"} => used < QueueLen
    /\ add_pc = "store" => add_count < QueueLen
    /\ run_pc \in {"status", "copy", "empty", "tail", "count", "store", "fetched"} =>
           pen_used < PenLen

IInv == TypeOK /\ PlaceInv

-----------------------------------------------------------------------------
(***************************************************************************)
(* The full slots are a window of the ring.  It starts after the slot that *)
(* SetEmpty has emptied and AdvanceTail has not passed yet, and it holds   *)
(* what field_used counts, the request that is written and not counted     *)
(* yet, and not the one that is emptied and still counted.                 *)
(***************************************************************************)
Uncounted == IF add_pc \in {"callback", "count", "store"} THEN 1 ELSE 0

StillCounted == IF run_pc \in {"tail", "count", "store"} THEN 1 ELSE 0

Length == used + Uncounted - StillCounted

First == IF run_pc = "tail" THEN Wrap(tail + 1) ELSE tail

\* The slot after the last one written.
Beyond == IF add_pc \in {"callback", "count", "store", "head"} THEN Wrap(head + 1) ELSE head

Distance(i, j) == IF i <= j THEN j - i ELSE j - i + QueueLen

WindowInv ==
    /\ Length \in 0 .. QueueLen
    /\ Beyond = Wrap(First + Length)
    /\ \A i \in Slots : slot[i].status = "QUEUE_FULL" <=> Distance(First, i) < Length
    /\ \A i \in Slots : slot[i].status = "QUEUE_FULL" => slot[i].body \in Bodies
    /\ add_pc = "status" => slot[head].body \in Bodies
    /\ add_pc = "store" => used < QueueLen
    /\ run_pc \in {"status", "copy", "empty", "tail", "count", "store"} => used > 0

(***************************************************************************)
(* Callbacks.  A slot that is written again keeps the callback of its last *)
(* request until ResetCallback.                                            *)
(***************************************************************************)
Before(i) == IF i = 0 THEN QueueLen - 1 ELSE i - 1

CallbacksPlaced ==
    /\ fetched.cb # CallBackNull => fetched.body = "control"
    /\ \A i \in PenSlots : pend[i].cb # CallBackNull => pend[i].body = "control"

CallbackInv ==
    /\ CallbacksPlaced
    /\ \A i \in Slots :
          slot[i].cb # CallBackNull => \/ slot[i].body = "control"
                                       \/ i = head /\ add_pc \in {"status", "callback"}
    /\ todo = Tail(AreasToRead) =>
          /\ add_pc = "probe" => add_body = "control"
          /\ add_pc = "idle" => slot[Before(head)].body = "control"
          /\ add_pc \notin {"probe", "idle"} => slot[head].body = "control"

-----------------------------------------------------------------------------
(***************************************************************************)
(* Type correctness.                                                       *)
(***************************************************************************)
LEMMA WrapInSlots ==
    /\ \A i \in Slots : i \in 0 .. QueueLen - 1 /\ Wrap(i + 1) \in Slots /\ Before(i) \in Slots
    /\ 0 \in Slots
BY DEF Slots, Wrap, Before

LEMMA TodoSteps ==
    /\ \A t \in Todos : t # <<>> => Tail(t) \in Todos
    /\ AreasToRead \in Todos /\ <<>> \in Todos
    /\ \A t \in Todos : Tail(t) = Tail(AreasToRead) /\ t # <<>> => Head(t) = "control"
    /\ \A t \in Todos : t = Tail(AreasToRead) => Head(t) = "CallbackCompControl"
    /\ \A t \in Todos : t # <<>> /\ Head(t) = "CallbackCompControl" => t = Tail(AreasToRead)
    /\ Tail(AreasToRead) # <<>> /\ AreasToRead # Tail(AreasToRead)
BY DEF Todos, AreasToRead

\* What the assignments to the fields of a slot of the ring do.
LEMMA RingUpdates ==
    ASSUME NEW s \in RingSlot
    PROVE  /\ \A b \in Bodies : LET n == [s EXCEPT !.body = b]
                                IN  n \in RingSlot /\ n.status = s.status /\ n.body = b
                                                   /\ n.cb = s.cb
           /\ \A x \in {"QUEUE_EMPTY", "QUEUE_FULL"} :
                  LET n == [s EXCEPT !.status = x]
                  IN  n \in RingSlot /\ n.status = x /\ n.body = s.body /\ n.cb = s.cb
           /\ \A c \in Callbacks \cup {CallBackNull} :
                  LET n == [s EXCEPT !.cb = c]
                  IN  n \in RingSlot /\ n.status = s.status /\ n.body = s.body /\ n.cb = c
BY DEF RingSlot

\* What the assignments to the fields of a slot of the pending list do.
LEMMA PenUpdates ==
    ASSUME NEW s \in PenSlot
    PROVE  /\ LET n == [s EXCEPT !.timer = @ + 1]
              IN  n \in PenSlot /\ n.body = s.body /\ n.cb = s.cb
           /\ LET n == [s EXCEPT !.status = "FREE", !.open = FALSE]
              IN  n \in PenSlot /\ n.body = s.body /\ n.cb = s.cb
           /\ LET n == [s EXCEPT !.timer = 0, !.status = "FREE"]
              IN  n \in PenSlot /\ n.body = s.body /\ n.cb = s.cb
<1>1. LET n == [s EXCEPT !.timer = @ + 1]
      IN  n \in PenSlot /\ n.body = s.body /\ n.cb = s.cb
  BY DEF PenSlot
<1>2. LET n == [s EXCEPT !.status = "FREE", !.open = FALSE]
      IN  n \in PenSlot /\ n.body = s.body /\ n.cb = s.cb
  BY DEF PenSlot
<1>3. LET n == [s EXCEPT !.timer = 0, !.status = "FREE"]
      IN  n \in PenSlot /\ n.body = s.body /\ n.cb = s.cb
  BY DEF PenSlot
<1> QED
  BY <1>1, <1>2, <1>3

LEMMA TypesOfSlots ==
    ASSUME IInv
    PROVE  /\ slot \in [Slots -> RingSlot]
           /\ head \in Slots /\ tail \in Slots
           /\ used \in 0 .. QueueLen /\ add_count \in 0 .. QueueLen
           /\ run_count \in 0 .. QueueLen
           /\ pend \in [PenSlots -> PenSlot]
           /\ pen_used \in 0 .. PenLen /\ pen_head \in PenSlots /\ i_pending \in PenSlots
BY DEF IInv, TypeOK, PlaceInv, RingSlot

LEMMA TickedType ==
    ASSUME IInv
    PROVE  /\ Ticked \in [PenSlots -> PenSlot]
           /\ \A i \in PenSlots : Ticked[i].body = pend[i].body /\ Ticked[i].cb = pend[i].cb
<1>1. pend \in [PenSlots -> PenSlot]
  BY TypesOfSlots
<1>2. \A i \in PenSlots : LET n == [pend[i] EXCEPT !.timer = @ + 1]
                          IN  n \in PenSlot /\ n.body = pend[i].body /\ n.cb = pend[i].cb
  BY <1>1, PenUpdates
<1> QED
  BY <1>1, <1>2 DEF Ticked

LEMMA PlaceIsSlot ==
    ASSUME IInv
    PROVE  PlaceOfNewRequest \in PenSlots
<1>1. CASE pen_head \in InUse /\ InUse # PenSlots
  <2> DEFINE S == PenSlots \ InUse
  <2>1. S \in SUBSET Nat /\ S # {}
    BY <1>1 DEF PenSlots, InUse
  <2>2. \E x \in S : \A y \in S : ~(<<y, x>> \in OpToRel(<, Nat))
    BY <2>1, NatLessThanWellFounded, WFMin
  <2>3. \A x, y \in S : ~(<<y, x>> \in OpToRel(<, Nat)) => x <= y
    BY <2>1 DEF OpToRel
  <2>4. \E x \in S : \A y \in S : x <= y
    BY <2>2, <2>3
  <2> QED
    BY <1>1, <2>4 DEF PlaceOfNewRequest, Min
<1>2. CASE ~(pen_head \in InUse /\ InUse # PenSlots)
  BY <1>2, TypesOfSlots DEF PlaceOfNewRequest
<1> QED
  BY <1>1, <1>2

(***************************************************************************)
(* What the calls of the pending list change.                              *)
(***************************************************************************)
LEMMA PendStep ==
    ASSUME IInv, [Next]_vars
    PROVE  \/ pend' = pend
           \/ /\ PlaceRequest
              /\ PlaceOfNewRequest \in PenSlots
              /\ pend' = [pend EXCEPT ![PlaceOfNewRequest] =
                             [status |-> "INUSE", body |-> fetched.body, cb |-> fetched.cb,
                              timer |-> 0, open |-> TRUE]]
           \/ /\ pend' \in [PenSlots -> PenSlot]
              /\ \A i \in PenSlots : pend'[i].body = pend[i].body /\ pend'[i].cb = pend[i].cb
<1> USE DEF penVars
<1>1. pend \in [PenSlots -> PenSlot] /\ i_pending \in PenSlots
  BY TypesOfSlots
<1>2. ASSUME NEW i \in PenSlots, ReceiveAnswer(i)
      PROVE  /\ pend' \in [PenSlots -> PenSlot]
             /\ \A j \in PenSlots : pend'[j].body = pend[j].body /\ pend'[j].cb = pend[j].cb
  <2> DEFINE n == [pend[i] EXCEPT !.status = "FREE", !.open = FALSE]
  <2>1. n \in PenSlot /\ n.body = pend[i].body /\ n.cb = pend[i].cb
    BY <1>1, PenUpdates
  <2>2. pend' = [pend EXCEPT ![i] = n]
    BY <1>2 DEF ReceiveAnswer
  <2> HIDE DEF n
  <2> QED
    BY <1>1, <2>1, <2>2
<1>3. ASSUME KeepWaiting
      PROVE  /\ pend' \in [PenSlots -> PenSlot]
             /\ \A j \in PenSlots : pend'[j].body = pend[j].body /\ pend'[j].cb = pend[j].cb
  BY <1>3, TickedType DEF KeepWaiting
<1>4. ASSUME GiveUp
      PROVE  /\ pend' \in [PenSlots -> PenSlot]
             /\ \A j \in PenSlots : pend'[j].body = pend[j].body /\ pend'[j].cb = pend[j].cb
  <2> DEFINE n == [Ticked[i_pending] EXCEPT !.timer = 0, !.status = "FREE"]
  <2>1. n \in PenSlot /\ n.body = Ticked[i_pending].body /\ n.cb = Ticked[i_pending].cb
    BY <1>1, TickedType, PenUpdates
  <2>2. pend' = [Ticked EXCEPT ![i_pending] = n]
    BY <1>4 DEF GiveUp
  <2> HIDE DEF n
  <2> QED
    BY <1>1, <2>1, <2>2, TickedType
<1>5. ASSUME PlaceRequest
      PROVE  \/ pend' = pend
             \/ pend' = [pend EXCEPT ![PlaceOfNewRequest] =
                             [status |-> "INUSE", body |-> fetched.body, cb |-> fetched.cb,
                              timer |-> 0, open |-> TRUE]]
  BY <1>5 DEF PlaceRequest
<1>6. CASE ThreadCompRequest
  BY <1>6 DEF ThreadCompRequest, ActionStarts, ActionStays, AddArea, AttachCallback,
              AddSteps, ActionEnds, Wait, Handle
<1>7. CASE NoRequest \/ FetchSteps \/ ReceiveNothing \/ UNCHANGED vars
  BY <1>7 DEF NoRequest, FetchSteps, ReceiveNothing, vars
<1> QED
  BY <1>2, <1>3, <1>4, <1>5, <1>6, <1>7, PlaceIsSlot DEF Next, ThreadModbus

LEMMA InitIInv == Init => IInv
<1> SUFFICES ASSUME Init PROVE IInv
  OBVIOUS
<1> USE DEF Init, ThreadsInit
<1>1. TypeOK
  BY WrapInSlots DEF TypeOK, PenSlots
<1>2. pend \in [PenSlots -> PenSlot]
  BY DEF PenSlot
<1>3. PlaceInv
  BY <1>2, TodoSteps DEF PlaceInv, NullRequest
<1> QED
  BY <1>1, <1>3 DEF IInv

\* The types of the pending list.
LEMMA PendType ==
    ASSUME IInv, [Next]_vars
    PROVE  pend' \in [PenSlots -> PenSlot]
<1> DEFINE s == [status |-> "INUSE", body |-> fetched.body, cb |-> fetched.cb,
                 timer |-> 0, open |-> TRUE]
<1>1. pend \in [PenSlots -> PenSlot]
  BY TypesOfSlots
<1>2. s \in PenSlot
  BY DEF PenSlot, IInv, PlaceInv
<1> HIDE DEF s
<1>3. /\ PlaceOfNewRequest \in PenSlots /\ pend' = [pend EXCEPT ![PlaceOfNewRequest] = s]
      => pend' \in [PenSlots -> PenSlot]
  BY <1>1, <1>2
<1> QED
  BY <1>1, <1>3, PendStep DEF s

\* The slots of the ring.
LEMMA RingType ==
    ASSUME IInv, [Next]_vars
    PROVE  slot' \in [Slots -> RingSlot]
<1> USE DEF ringVars, addVars, runVars, threadVars, smVars, penVars
<1>1. slot \in [Slots -> RingSlot] /\ head \in Slots /\ tail \in Slots
  BY TypesOfSlots
<1>2. ASSUME EnqueueSteps
      PROVE  slot' \in [Slots -> RingSlot]
  <2>1. CASE Probe
    <3>1. add_body \in Bodies
      BY <2>1 DEF Probe, Adding, IInv, PlaceInv
    <3>2. [slot[head] EXCEPT !.body = add_body] \in RingSlot
      BY <1>1, <3>1, RingUpdates
    <3>3. slot' = slot \/ slot' = [slot EXCEPT ![head] = [slot[head] EXCEPT !.body = add_body]]
      BY <2>1 DEF Probe
    <3> QED
      BY <1>1, <3>2, <3>3
  <2>2. CASE SetFull
    <3>1. [slot[head] EXCEPT !.status = "QUEUE_FULL"] \in RingSlot
      BY <1>1, RingUpdates
    <3> QED
      BY <1>1, <2>2, <3>1 DEF SetFull
  <2>3. CASE ResetCallback
    <3>1. [slot[head] EXCEPT !.cb = CallBackNull] \in RingSlot
      BY <1>1, RingUpdates
    <3> QED
      BY <1>1, <2>3, <3>1 DEF ResetCallback
  <2> QED
    BY <1>1, <1>2, <2>1, <2>2, <2>3 DEF EnqueueSteps, LoadToCountUp, CountUp, AdvanceHead
<1>3. ASSUME NEW cb \in Callbacks, CallbackAdd(cb)
      PROVE  slot' \in [Slots -> RingSlot]
  <2> DEFINE i == IF head = 0 THEN QueueLen - 1 ELSE head - 1
  <2>1. i \in Slots
    BY <1>1 DEF Slots
  <2>2. slot' = [slot EXCEPT ![i] = [slot[i] EXCEPT !.cb = cb]]
    BY <1>3 DEF CallbackAdd
  <2> HIDE DEF i
  <2>3. [slot[i] EXCEPT !.cb = cb] \in RingSlot
    BY <1>1, <2>1, RingUpdates
  <2> QED
    BY <1>1, <2>1, <2>2, <2>3
<1>4. ASSUME DequeueSteps
      PROVE  slot' \in [Slots -> RingSlot]
  <2>1. CASE SetEmpty
    <3>1. [slot[tail] EXCEPT !.status = "QUEUE_EMPTY"] \in RingSlot
      BY <1>1, RingUpdates
    <3> QED
      BY <1>1, <2>1, <3>1 DEF SetEmpty
  <2> QED
    BY <1>1, <1>4, <2>1 DEF DequeueSteps, CheckTail, CopyRequest, AdvanceTail,
                            LoadToCountDown, CountDown
<1>5. ASSUME AddCommand
      PROVE  slot' \in [Slots -> RingSlot]
  <2> DEFINE s == [status |-> "QUEUE_FULL", body |-> "command", cb |-> CallBackNull]
  <2>1. s \in RingSlot
    BY DEF RingSlot
  <2>2. slot' = slot \/ slot' = [slot EXCEPT ![head] = s]
    BY <1>5 DEF AddCommand
  <2> HIDE DEF s
  <2> QED
    BY <1>1, <2>1, <2>2
<1>6. CASE ThreadCompRequest
  <2>1. CASE AddArea
    BY <1>1, <2>1 DEF AddArea, BeginAdd
  <2>2. CASE AttachCallback
    BY <1>3, <2>2 DEF AttachCallback
  <2>3. CASE AddSteps
    BY <1>2, <2>3 DEF AddSteps
  <2> QED
    BY <1>1, <1>6, <2>1, <2>2, <2>3 DEF ThreadCompRequest, ActionStarts, ActionStays,
                                         ActionEnds, Wait, Handle
<1>7. CASE FetchSteps
  BY <1>1, <1>4, <1>7 DEF FetchSteps, BeginFetch
<1>8. CASE \E i \in PenSlots : ReceiveAnswer(i)
  BY <1>1, <1>5, <1>8 DEF ReceiveAnswer
<1>9. CASE NoRequest \/ PlaceRequest \/ ReceiveNothing \/ KeepWaiting \/ GiveUp \/ UNCHANGED vars
  BY <1>1, <1>9 DEF NoRequest, PlaceRequest, ReceiveNothing, KeepWaiting, GiveUp, FinishRun, vars
<1> QED
  BY <1>6, <1>7, <1>8, <1>9 DEF Next, ThreadModbus

\* The adding thread.
LEMMA AddIInv ==
    ASSUME IInv, ThreadCompRequest
    PROVE  IInv'
<1> USE DEF ringVars, addVars, runVars, threadVars, smVars, penVars, NextSecond, NextCall, Resting
<1>1. slot' \in [Slots -> RingSlot] /\ pend' \in [PenSlots -> PenSlot]
  BY RingType, PendType DEF Next
<1>2. UNCHANGED <<tail, fetched, run_pc, run_count, pen_used, pen_head, i_pending>>
  BY DEF ThreadCompRequest, ActionStarts, ActionStays, AddArea, AttachCallback, AddSteps,
         ActionEnds, Wait, Handle, EnqueueSteps, Probe, SetFull, ResetCallback, LoadToCountUp,
         CountUp, AdvanceHead, BeginAdd, CallbackAdd, Adding
<1>3. todo' \in Todos
  BY TodoSteps DEF ThreadCompRequest, ActionStarts, ActionStays, AddArea, AttachCallback,
         AddSteps, ActionEnds, Wait, Handle, IInv, PlaceInv
<1>4. /\ head' \in Slots /\ used' \in 0 .. QueueLen /\ add_count' \in 0 .. QueueLen
      /\ lost' \in Nat
      /\ add_pc' \in {"idle", "probe", "status", "callback", "count", "store", "head"}
      /\ add_body' \in Bodies \cup {NoBody}
      /\ add_pc' # "idle" => add_body' \in Bodies
      /\ add_pc' \in {"probe", "status", "callback", "count"} => used' < QueueLen
      /\ add_pc' = "store" => add_count' < QueueLen
  <2> USE TypesOfSlots, WrapInSlots
  <2>1. /\ add_pc \in {"idle", "probe", "status", "callback", "count", "store", "head"}
        /\ lost \in Nat /\ add_body \in Bodies \cup {NoBody}
        /\ add_pc # "idle" => add_body \in Bodies
        /\ add_pc \in {"probe", "status", "callback", "count"} => used < QueueLen
        /\ add_pc = "store" => add_count < QueueLen
    BY DEF IInv, PlaceInv
  <2>2. CASE AddArea
    BY <2>1, <2>2 DEF AddArea, BeginAdd, Adding
  <2>3. CASE AttachCallback
    BY <2>1, <2>3 DEF AttachCallback, CallbackAdd, Adding
  <2>4. CASE AddSteps
    <3>1. CASE Probe
      BY <2>1, <3>1 DEF Probe, Adding
    <3>2. CASE SetFull \/ ResetCallback
      BY <2>1, <3>2 DEF SetFull, ResetCallback, Adding
    <3>3. CASE LoadToCountUp
      BY <2>1, <3>3 DEF LoadToCountUp, Adding
    <3>4. CASE CountUp
      BY <2>1, <3>4 DEF CountUp, Adding
    <3>5. CASE AdvanceHead
      BY <2>1, <3>5 DEF AdvanceHead, Adding
    <3> QED
      BY <2>4, <3>1, <3>2, <3>3, <3>4, <3>5 DEF AddSteps, EnqueueSteps
  <2>5. CASE ActionStarts \/ ActionStays \/ ActionEnds \/ Wait \/ Handle
    BY <2>1, <2>5 DEF ActionStarts, ActionStays, ActionEnds, Wait, Handle
  <2> QED
    BY <2>2, <2>3, <2>4, <2>5 DEF ThreadCompRequest
<1>5. TypeOK'
  BY <1>1, <1>2, <1>4, TypesOfSlots DEF TypeOK, RingSlot
<1>6. PlaceInv'
  BY <1>1, <1>2, <1>3, <1>4 DEF IInv, PlaceInv
<1> QED
  BY <1>5, <1>6 DEF IInv

\* The thread that calls Run.
LEMMA RunIInv ==
    ASSUME IInv, ThreadModbus
    PROVE  IInv'
<1> USE DEF ringVars, addVars, runVars, threadVars, smVars, penVars, Running, Resting, Fetching
<1>1. slot' \in [Slots -> RingSlot] /\ pend' \in [PenSlots -> PenSlot]
  BY RingType, PendType DEF Next
<1>2. UNCHANGED <<add_pc, add_body, add_count, todo>>
  BY DEF ThreadModbus, NoRequest, FetchSteps, BeginFetch, DequeueSteps, CheckTail, CopyRequest,
         SetEmpty, AdvanceTail, LoadToCountDown, CountDown, PlaceRequest, ReceiveNothing,
         ReceiveAnswer, KeepWaiting, GiveUp, FinishRun
<1>3. /\ run_pc \in {"idle", "status", "copy", "empty", "tail", "count", "store",
                     "fetched", "receive", "timeout"}
      /\ lost \in Nat
      /\ fetched \in [body : Bodies \cup {NoBody}, cb : Callbacks \cup {CallBackNull}]
      /\ add_pc \in {"probe", "status", "callback", "count"} => used < QueueLen
      /\ run_pc \in {"status", "copy", "empty", "tail", "count", "store", "fetched"} =>
             pen_used < PenLen
  BY DEF IInv, PlaceInv
<1>4. /\ head' \in Slots /\ tail' \in Slots
      /\ used' \in 0 .. QueueLen /\ run_count' \in 0 .. QueueLen
      /\ lost' \in Nat
      /\ run_pc' \in {"idle", "status", "copy", "empty", "tail", "count", "store",
                      "fetched", "receive", "timeout"}
      /\ fetched' \in [body : Bodies \cup {NoBody}, cb : Callbacks \cup {CallBackNull}]
      /\ add_pc' \in {"probe", "status", "callback", "count"} => used' < QueueLen
      /\ pen_used' \in 0 .. PenLen /\ pen_head' \in PenSlots /\ i_pending' \in PenSlots
      /\ run_pc' \in {"status", "copy", "empty", "tail", "count", "store", "fetched"} =>
             pen_used' < PenLen
  <2> USE <1>2, <1>3, TypesOfSlots, WrapInSlots
  <2>1. CASE NoRequest
    BY <2>1 DEF NoRequest
  <2>2. CASE FetchSteps
    <3>1. CASE BeginFetch /\ pen_used < PenLen
      BY <2>2, <3>1 DEF FetchSteps, BeginFetch
    <3>2. CASE CheckTail
      BY <2>2, <3>2 DEF FetchSteps, CheckTail, NullRequest
    <3>3. CASE CopyRequest
      <4>1. slot[tail].body \in Bodies \cup {NoBody} /\ slot[tail].cb \in Callbacks \cup {CallBackNull}
        BY DEF RingSlot
      <4> QED
        BY <2>2, <3>3, <4>1 DEF FetchSteps, CopyRequest
    <3>4. CASE SetEmpty
      BY <2>2, <3>4 DEF FetchSteps, SetEmpty
    <3>5. CASE AdvanceTail
      BY <2>2, <3>5 DEF FetchSteps, AdvanceTail
    <3>6. CASE LoadToCountDown
      BY <2>2, <3>6 DEF FetchSteps, LoadToCountDown
    <3>7. CASE CountDown
      BY <2>2, <3>7 DEF FetchSteps, CountDown
    <3> QED
      BY <2>2, <3>1, <3>2, <3>3, <3>4, <3>5, <3>6, <3>7 DEF FetchSteps, DequeueSteps
  <2>3. CASE PlaceRequest
    <3> DEFINE i == PlaceOfNewRequest
    <3>1. i \in 0 .. PenLen - 1 /\ PenSlots = 0 .. PenLen - 1
      BY PlaceIsSlot DEF PenSlots
    <3>2. \/ UNCHANGED <<pen_head, pen_used>>
          \/ /\ pen_head' = IF i + 1 >= PenLen THEN 0 ELSE i + 1
             /\ pen_used' = pen_used + 1
      BY <2>3 DEF PlaceRequest
    <3> HIDE DEF i
    <3>3. pen_head' \in PenSlots /\ pen_used' \in 0 .. PenLen
      BY <2>3, <3>1, <3>2 DEF PlaceRequest
    <3> QED
      BY <2>3, <3>3 DEF PlaceRequest
  <2>4. CASE ReceiveNothing
    BY <2>4 DEF ReceiveNothing
  <2>5. CASE \E i \in PenSlots : ReceiveAnswer(i)
    <3>1. /\ pen_used' \in 0 .. PenLen /\ run_pc' = "timeout"
          /\ UNCHANGED <<fetched, run_count, pen_head, i_pending>>
      BY <2>5 DEF ReceiveAnswer, Less
    <3>2. AddCommand
      BY <2>5 DEF ReceiveAnswer, AddCommand
    <3>3. /\ head' \in Slots /\ tail' \in Slots /\ used' \in 0 .. QueueLen /\ lost' \in Nat
          /\ add_pc' \in {"probe", "status", "callback", "count"} => used' < QueueLen
      BY <3>2 DEF AddCommand
    <3> QED
      BY <3>1, <3>3
  <2>6. CASE KeepWaiting \/ GiveUp
    <3>1. FinishRun /\ pen_used' \in 0 .. PenLen
      BY <2>6 DEF KeepWaiting, GiveUp, Less, FinishRun
    <3>2. i_pending' \in PenSlots
      BY <3>1 DEF FinishRun, PenSlots
    <3> QED
      BY <3>1, <3>2 DEF FinishRun
  <2> QED
    BY <2>1, <2>2, <2>3, <2>4, <2>5, <2>6 DEF ThreadModbus
<1>5. TypeOK'
  BY <1>1, <1>2, <1>4, TypesOfSlots DEF TypeOK, RingSlot
<1>6. PlaceInv'
  BY <1>1, <1>2, <1>4 DEF IInv, PlaceInv
<1> QED
  BY <1>5, <1>6 DEF IInv

LEMMA NextIInv == IInv /\ [Next]_vars => IInv'
<1>1. IInv /\ UNCHANGED vars => IInv'
  BY DEF vars, threadVars, ringVars, addVars, runVars, smVars, penVars, IInv, TypeOK, PlaceInv
<1> QED
  BY <1>1, AddIInv, RunIInv DEF Next

THEOREM Inductive == Spec => []IInv
BY InitIInv, NextIInv, PTL DEF Spec

-----------------------------------------------------------------------------
(***************************************************************************)
(* The window.                                                             *)
(***************************************************************************)
LEMMA WindowGrows ==
    ASSUME NEW f \in Slots, NEW h \in Slots, NEW n \in 0 .. QueueLen - 1, h = Wrap(f + n)
    PROVE  /\ Wrap(h + 1) = Wrap(f + (n + 1))
           /\ Distance(f, h) = n
           /\ \A i \in Slots : Distance(f, i) < n + 1 <=> Distance(f, i) < n \/ i = h
BY DEF Slots, Wrap, Distance

LEMMA WindowShrinks ==
    ASSUME NEW t \in Slots, NEW n \in 1 .. QueueLen
    PROVE  /\ Wrap(t + 1) \in Slots
           /\ Wrap(Wrap(t + 1) + (n - 1)) = Wrap(t + n)
           /\ Distance(t, t) = 0
           /\ \A i \in Slots : Distance(Wrap(t + 1), i) < n - 1 <=> Distance(t, i) < n /\ i # t
BY DEF Slots, Wrap, Distance

LEMMA WindowTypes ==
    ASSUME IInv
    PROVE  /\ First \in Slots /\ Beyond \in Slots
           /\ Uncounted \in 0 .. 1 /\ StillCounted \in 0 .. 1
           /\ Length \in Int
BY TypesOfSlots, WrapInSlots DEF First, Beyond, Uncounted, StillCounted, Length

\* A step that moves neither the window nor its ends.
LEMMA WindowStays ==
    ASSUME IInv, WindowInv,
           UNCHANGED <<Length, First, Beyond>>,
           \A i \in Slots : /\ slot'[i].status = slot[i].status
                            /\ slot[i].status = "QUEUE_FULL" => slot'[i].body = slot[i].body,
           add_pc' = "status" => slot'[head'].body \in Bodies,
           add_pc' = "store" => used' < QueueLen,
           run_pc' \in {"status", "copy", "empty", "tail", "count", "store"} => used' > 0
    PROVE  WindowInv'
<1>1. ASSUME NEW i \in Slots
      PROVE  /\ slot'[i].status = "QUEUE_FULL" <=> Distance(First', i) < Length'
             /\ slot'[i].status = "QUEUE_FULL" => slot'[i].body \in Bodies
  BY <1>1 DEF WindowInv
<1>2. Length' \in 0 .. QueueLen /\ Beyond' = Wrap(First' + Length')
  BY DEF WindowInv
<1> QED
  BY <1>1, <1>2 DEF WindowInv, Distance

\* The slots that a write leaves alone.
LEMMA SlotWritten ==
    ASSUME IInv, NEW i \in Slots, NEW s \in RingSlot, slot' = [slot EXCEPT ![i] = s]
    PROVE  slot'[i] = s /\ \A j \in Slots \ {i} : slot'[j] = slot[j]
BY TypesOfSlots

LEMMA ProbeWindow ==
    ASSUME IInv, WindowInv, Probe
    PROVE  /\ WindowInv'
           /\ add_pc' = "status" /\ head' = head
           /\ slot[head].status = "QUEUE_EMPTY"
           /\ slot' = [slot EXCEPT ![head].body = add_body]
<1>1. /\ add_pc = "probe" /\ UNCHANGED <<tail, fetched, run_pc, run_count, used, lost>>
      /\ used < QueueLen /\ add_body \in Bodies
  BY DEF Probe, Adding, runVars, IInv, PlaceInv
<1>2. slot[head].status # "QUEUE_FULL"
  <2>1. Uncounted = 0 /\ Beyond = head /\ Length \in 0 .. QueueLen - 1
    BY <1>1, TypesOfSlots, WindowTypes DEF Uncounted, StillCounted, Beyond, Length, WindowInv
  <2>2. head = Wrap(First + Length)
    BY <2>1 DEF WindowInv
  <2>3. Distance(First, head) = Length
    BY <2>1, <2>2, WindowGrows, WindowTypes, TypesOfSlots
  <2> QED
    BY <2>1, <2>3, TypesOfSlots DEF WindowInv
<1>3. slot[head].status = "QUEUE_EMPTY"
  BY <1>2, TypesOfSlots DEF RingSlot
<1> DEFINE s == [slot[head] EXCEPT !.body = add_body]
<1>4. s \in RingSlot /\ s.status = slot[head].status /\ s.body = add_body
  <2>1. slot[head] \in RingSlot
    BY TypesOfSlots
  <2>2. \A b \in Bodies :
            LET n == [slot[head] EXCEPT !.body = b]
            IN  n \in RingSlot /\ n.status = slot[head].status /\ n.body = b
    BY <2>1 DEF RingSlot
  <2> QED
    BY <1>1, <2>2
<1>5. slot' = [slot EXCEPT ![head] = s] /\ head' = head /\ add_pc' = "status"
  BY <1>3 DEF Probe, Adding
<1> HIDE DEF s
<1>6. slot'[head] = s /\ \A j \in Slots \ {head} : slot'[j] = slot[j]
  BY <1>4, <1>5, SlotWritten, TypesOfSlots
<1>7. UNCHANGED <<Length, First, Beyond>>
  BY <1>1, <1>5 DEF Length, Uncounted, StillCounted, First, Beyond
<1>8. WindowInv'
  <2>1. \A i \in Slots : /\ slot'[i].status = slot[i].status
                         /\ slot[i].status = "QUEUE_FULL" => slot'[i].body = slot[i].body
    BY <1>2, <1>4, <1>6
  <2>2. slot'[head'].body \in Bodies
    BY <1>1, <1>4, <1>5, <1>6
  <2>3. run_pc' \in {"status", "copy", "empty", "tail", "count", "store"} => used' > 0
    BY <1>1 DEF WindowInv
  <2> QED
    BY <1>1, <1>5, <1>7, <2>1, <2>2, <2>3, WindowStays
<1> QED
  BY <1>3, <1>5, <1>8 DEF s

LEMMA SetFullWindow ==
    ASSUME IInv, WindowInv, SetFull
    PROVE  WindowInv'
<1>1. /\ add_pc = "status" /\ add_pc' = "callback"
      /\ UNCHANGED <<head, tail, run_pc, used>>
      /\ used < QueueLen
  BY DEF SetFull, Adding, runVars, IInv, PlaceInv
<1> DEFINE s == [slot[head] EXCEPT !.status = "QUEUE_FULL"]
<1>2. s \in RingSlot /\ s.status = "QUEUE_FULL" /\ s.body = slot[head].body
  BY TypesOfSlots, RingUpdates
<1>3. slot' = [slot EXCEPT ![head] = s]
  BY DEF SetFull
<1> HIDE DEF s
<1>4. slot'[head] = s /\ \A j \in Slots \ {head} : slot'[j] = slot[j]
  BY <1>2, <1>3, SlotWritten, TypesOfSlots
<1>5. /\ Length \in 0 .. QueueLen - 1 /\ Beyond = head /\ Length' = Length + 1
      /\ First' = First /\ Beyond' = Wrap(head + 1)
  BY <1>1, TypesOfSlots, WindowTypes
     DEF Uncounted, StillCounted, Beyond, First, Length, WindowInv
<1>6. head = Wrap(First + Length)
  BY <1>5 DEF WindowInv
<1>7. /\ Wrap(head + 1) = Wrap(First + (Length + 1))
      /\ \A i \in Slots : Distance(First, i) < Length + 1
                              <=> Distance(First, i) < Length \/ i = head
  BY <1>5, <1>6, WindowGrows, WindowTypes, TypesOfSlots
<1>8. ASSUME NEW i \in Slots
      PROVE  /\ slot'[i].status = "QUEUE_FULL" <=> Distance(First', i) < Length'
             /\ slot'[i].status = "QUEUE_FULL" => slot'[i].body \in Bodies
  <2>1. CASE i = head
    <3>1. slot[head].body \in Bodies
      BY <1>1 DEF WindowInv
    <3> QED
      BY <1>2, <1>4, <1>5, <1>7, <2>1, <3>1
  <2>2. CASE i # head
    <3>1. slot[i].status = "QUEUE_FULL" <=> Distance(First, i) < Length
      BY DEF WindowInv
    <3>2. slot[i].status = "QUEUE_FULL" => slot[i].body \in Bodies
      BY DEF WindowInv
    <3> QED
      BY <1>4, <1>5, <1>7, <2>2, <3>1, <3>2
  <2> QED
    BY <2>1, <2>2
<1>9. /\ Length' \in 0 .. QueueLen /\ Beyond' = Wrap(First' + Length')
      /\ run_pc' \in {"status", "copy", "empty", "tail", "count", "store"} => used' > 0
  BY <1>1, <1>5, <1>7 DEF WindowInv
<1> QED
  BY <1>1, <1>8, <1>9 DEF WindowInv, Distance

LEMMA SetEmptyWindow ==
    ASSUME IInv, WindowInv, SetEmpty
    PROVE  WindowInv'
<1>1. /\ run_pc = "empty" /\ run_pc' = "tail"
      /\ UNCHANGED <<head, tail, add_pc, used>>
      /\ used > 0
  BY DEF SetEmpty, Fetching, addVars, WindowInv
<1> DEFINE s == [slot[tail] EXCEPT !.status = "QUEUE_EMPTY"]
<1>2. s \in RingSlot /\ s.status = "QUEUE_EMPTY" /\ s.body = slot[tail].body
  BY TypesOfSlots, RingUpdates
<1>3. slot' = [slot EXCEPT ![tail] = s]
  BY DEF SetEmpty
<1> HIDE DEF s
<1>4. slot'[tail] = s /\ \A j \in Slots \ {tail} : slot'[j] = slot[j]
  BY <1>2, <1>3, SlotWritten, TypesOfSlots
<1>5. /\ Length \in 1 .. QueueLen /\ First = tail /\ Length' = Length - 1
      /\ First' = Wrap(tail + 1) /\ Beyond' = Beyond
  BY <1>1, TypesOfSlots, WindowTypes
     DEF Uncounted, StillCounted, Beyond, First, Length, WindowInv
<1>7. /\ Wrap(Wrap(tail + 1) + (Length - 1)) = Wrap(tail + Length)
      /\ \A i \in Slots : Distance(Wrap(tail + 1), i) < Length - 1
                              <=> Distance(tail, i) < Length /\ i # tail
  BY <1>5, WindowShrinks, TypesOfSlots
<1>8. ASSUME NEW i \in Slots
      PROVE  /\ slot'[i].status = "QUEUE_FULL" <=> Distance(First', i) < Length'
             /\ slot'[i].status = "QUEUE_FULL" => slot'[i].body \in Bodies
  <2>1. CASE i = tail
    BY <1>2, <1>4, <1>5, <1>7, <2>1
  <2>2. CASE i # tail
    <3>1. slot[i].status = "QUEUE_FULL" <=> Distance(First, i) < Length
      BY DEF WindowInv
    <3>2. slot[i].status = "QUEUE_FULL" => slot[i].body \in Bodies
      BY DEF WindowInv
    <3> QED
      BY <1>4, <1>5, <1>7, <2>2, <3>1, <3>2
  <2> QED
    BY <2>1, <2>2
<1>9. Length' \in 0 .. QueueLen /\ Beyond' = Wrap(First' + Length')
  <2>1. Beyond = Wrap(tail + Length)
    BY <1>5 DEF WindowInv
  <2> QED
    BY <1>5, <1>7, <2>1
<1>10. add_pc' = "status" => slot'[head'].body \in Bodies
  <2>1. add_pc = "status" => slot[head].body \in Bodies
    BY DEF WindowInv
  <2> QED
    BY <1>1, <1>2, <1>4, <2>1, TypesOfSlots
<1>11. add_pc' = "store" => used' < QueueLen
  BY <1>1 DEF WindowInv
<1> QED
  BY <1>1, <1>8, <1>9, <1>10, <1>11 DEF WindowInv, Distance

\* The other steps of the adding thread.
LEMMA AddWindow ==
    ASSUME IInv, WindowInv, ThreadCompRequest, lost' = lost
    PROVE  WindowInv'
<1> USE DEF ringVars, addVars, runVars, threadVars, smVars, penVars
<1>1. /\ UNCHANGED <<tail, run_pc>>
      /\ slot \in [Slots -> RingSlot] /\ head \in Slots /\ tail \in Slots
      /\ used \in 0 .. QueueLen /\ add_count \in 0 .. QueueLen /\ lost \in Nat
      /\ add_pc \in {"probe", "status", "callback", "count"} => used < QueueLen
      /\ run_pc \in {"status", "copy", "empty", "tail", "count", "store"} => used > 0
      /\ add_pc = "status" => slot[head].body \in Bodies
      /\ add_pc = "store" => used < QueueLen
  <2>1. UNCHANGED <<tail, run_pc>>
    BY DEF ThreadCompRequest, ActionStarts, ActionStays, AddArea, AttachCallback, AddSteps,
           ActionEnds, Wait, Handle, EnqueueSteps, Probe, SetFull, ResetCallback,
           LoadToCountUp, CountUp, AdvanceHead, BeginAdd, CallbackAdd, Adding
  <2> QED
    BY <2>1, TypesOfSlots DEF IInv, PlaceInv, WindowInv
<1>2. CASE AddSteps
  <2>1. CASE Probe
    BY <2>1, ProbeWindow
  <2>2. CASE SetFull
    BY <2>2, SetFullWindow
  <2>3. CASE ResetCallback
    <3> DEFINE s == [slot[head] EXCEPT !.cb = CallBackNull]
    <3>1. s \in RingSlot /\ s.status = slot[head].status /\ s.body = slot[head].body
      <4>1. slot[head] \in RingSlot
        BY <1>1
      <4> QED
        BY <4>1 DEF RingSlot
    <3>2. slot' = [slot EXCEPT ![head] = s]
      BY <2>3 DEF ResetCallback
    <3> HIDE DEF s
    <3>3. \A i \in Slots : slot'[i].status = slot[i].status /\ slot'[i].body = slot[i].body
      BY <1>1, <3>1, <3>2, SlotWritten
    <3>4. UNCHANGED <<Length, First, Beyond, used>> /\ add_pc' = "count"
      BY <1>1, <2>3 DEF ResetCallback, Adding, Length, Uncounted, StillCounted, First, Beyond
    <3> QED
      BY <1>1, <3>3, <3>4, WindowStays
  <2>4. CASE LoadToCountUp
    <3>1. /\ UNCHANGED <<Length, First, Beyond, used, slot>>
          /\ add_pc = "count" /\ add_pc' = "store"
      BY <1>1, <2>4 DEF LoadToCountUp, Adding, Length, Uncounted, StillCounted, First, Beyond
    <3> QED
      BY <1>1, <3>1, WindowStays
  <2>5. CASE CountUp
    <3>1. used = add_count
      BY <1>1, <2>5 DEF CountUp
    <3>2. /\ add_pc = "store" /\ add_pc' = "head" /\ UNCHANGED <<slot, head>>
          /\ used' = used + 1
      BY <2>5, <3>1 DEF CountUp, Adding
    <3>3. UNCHANGED <<Length, First, Beyond>>
      BY <1>1, <3>2 DEF Length, Uncounted, StillCounted, First, Beyond
    <3> QED
      BY <1>1, <3>2, <3>3, WindowStays
  <2>6. CASE AdvanceHead
    <3>1. /\ add_pc = "head" /\ add_pc' = "idle" /\ UNCHANGED <<slot, used>>
          /\ head' = Wrap(head + 1)
      BY <2>6 DEF AdvanceHead, Adding
    <3>2. UNCHANGED <<Length, First, Beyond>>
      BY <1>1, <3>1 DEF Length, Uncounted, StillCounted, First, Beyond
    <3> QED
      BY <1>1, <3>1, <3>2, WindowStays
  <2> QED
    BY <1>2, <2>1, <2>2, <2>3, <2>4, <2>5, <2>6 DEF AddSteps, EnqueueSteps
<1>3. CASE AddArea
  <2>1. /\ UNCHANGED <<slot, head, used>> /\ add_pc' \in {"idle", "probe"} /\ add_pc = "idle"
    BY <1>3 DEF AddArea, BeginAdd, Adding
  <2>2. UNCHANGED <<Length, First, Beyond>>
    BY <1>1, <2>1 DEF Length, Uncounted, StillCounted, First, Beyond
  <2> QED
    BY <1>1, <2>1, <2>2, WindowStays
<1>4. CASE AttachCallback
  <2>1. PICK cb \in Callbacks : CallbackAdd(cb)
    BY <1>4 DEF AttachCallback
  <2>2. UNCHANGED <<head, used, add_pc>> /\ add_pc = "idle"
    BY <2>1 DEF CallbackAdd, Adding
  <2> DEFINE i == IF head = 0 THEN QueueLen - 1 ELSE head - 1
             s == [slot[i] EXCEPT !.cb = cb]
  <2>3. i \in Slots
    BY <1>1 DEF Slots
  <2>4. slot' = [slot EXCEPT ![i] = s]
    BY <2>1 DEF CallbackAdd
  <2>5. s \in RingSlot /\ s.status = slot[i].status /\ s.body = slot[i].body
    <3> HIDE DEF i
    <3>1. slot[i] \in RingSlot
      BY <1>1, <2>3
    <3> QED
      BY <3>1 DEF RingSlot
  <2> HIDE DEF i, s
  <2>6. \A j \in Slots : slot'[j].status = slot[j].status /\ slot'[j].body = slot[j].body
    BY <1>1, <2>3, <2>4, <2>5, SlotWritten
  <2>7. UNCHANGED <<Length, First, Beyond>>
    BY <1>1, <2>2 DEF Length, Uncounted, StillCounted, First, Beyond
  <2> QED
    BY <1>1, <2>2, <2>6, <2>7, WindowStays
<1>5. CASE ActionStarts \/ ActionStays \/ ActionEnds \/ Wait \/ Handle
  <2>1. UNCHANGED threadVars
    BY <1>5 DEF ActionStarts, ActionStays, ActionEnds, Wait, Handle
  <2>2. UNCHANGED <<Length, First, Beyond, slot, head, used, add_pc>>
    BY <1>1, <2>1 DEF Length, Uncounted, StillCounted, First, Beyond
  <2> QED
    BY <1>1, <2>2, WindowStays
<1> QED
  BY <1>2, <1>3, <1>4, <1>5 DEF ThreadCompRequest

\* The command that a callback adds while the other thread rests.
LEMMA CommandWindow ==
    ASSUME IInv, WindowInv, AddCommand, run_pc = "receive", run_pc' = "timeout",
           UNCHANGED add_pc
    PROVE  WindowInv'
<1> USE DEF ringVars
<1>1. CASE UNCHANGED ringVars
  <2>1. UNCHANGED <<Length, First, Beyond, used, slot, head>>
    BY <1>1 DEF Length, Uncounted, StillCounted, First, Beyond
  <2> QED
    BY <2>1, WindowStays DEF WindowInv
<1>2. CASE ~UNCHANGED ringVars
  <2> DEFINE s == [status |-> "QUEUE_FULL", body |-> "command", cb |-> CallBackNull]
  <2>1. /\ add_pc = "idle" /\ used < QueueLen /\ used' = used + 1
        /\ head' = Wrap(head + 1) /\ UNCHANGED tail
        /\ slot' = [slot EXCEPT ![head] = s]
    BY <1>2 DEF AddCommand, Resting
  <2>2. s \in RingSlot /\ s.status = "QUEUE_FULL" /\ s.body \in Bodies
    BY DEF RingSlot
  <2> HIDE DEF s
  <2>3. slot'[head] = s /\ \A j \in Slots \ {head} : slot'[j] = slot[j]
    BY <2>1, <2>2, SlotWritten, TypesOfSlots
  <2>4. /\ Length \in 0 .. QueueLen - 1 /\ Beyond = head /\ Length' = Length + 1
        /\ First' = First /\ Beyond' = Wrap(head + 1)
    BY <2>1, TypesOfSlots DEF Uncounted, StillCounted, Beyond, First, Length
  <2>5. head = Wrap(First + Length)
    BY <2>4 DEF WindowInv
  <2>6. /\ Wrap(head + 1) = Wrap(First + (Length + 1))
        /\ \A i \in Slots : Distance(First, i) < Length + 1
                                <=> Distance(First, i) < Length \/ i = head
    BY <2>4, <2>5, WindowGrows, WindowTypes, TypesOfSlots
  <2>7. ASSUME NEW i \in Slots
        PROVE  /\ slot'[i].status = "QUEUE_FULL" <=> Distance(First', i) < Length'
               /\ slot'[i].status = "QUEUE_FULL" => slot'[i].body \in Bodies
    <3>1. CASE i = head
      BY <2>2, <2>3, <2>4, <2>6, <3>1
    <3>2. CASE i # head
      <4>1. slot[i].status = "QUEUE_FULL" <=> Distance(First, i) < Length
        BY DEF WindowInv
      <4>2. slot[i].status = "QUEUE_FULL" => slot[i].body \in Bodies
        BY DEF WindowInv
      <4> QED
        BY <2>3, <2>4, <2>6, <3>2, <4>1, <4>2
    <3> QED
      BY <3>1, <3>2
  <2>8. Length' \in 0 .. QueueLen /\ Beyond' = Wrap(First' + Length')
    BY <2>4, <2>6
  <2> QED
    BY <2>1, <2>7, <2>8 DEF WindowInv, Distance
<1> QED
  BY <1>1, <1>2

\* The thread that calls Run.
LEMMA RunWindow ==
    ASSUME IInv, WindowInv, ThreadModbus, lost' = lost
    PROVE  WindowInv'
<1> USE DEF ringVars, addVars, runVars, threadVars, Running
<1>1. /\ UNCHANGED add_pc
      /\ slot \in [Slots -> RingSlot] /\ head \in Slots /\ tail \in Slots
      /\ used \in 0 .. QueueLen /\ run_count \in 0 .. QueueLen /\ lost \in Nat
      /\ run_pc \in {"status", "copy", "empty", "tail", "count", "store"} => used > 0
      /\ add_pc = "status" => slot[head].body \in Bodies
      /\ add_pc = "store" => used < QueueLen
  <2>1. UNCHANGED add_pc
    BY DEF ThreadModbus, NoRequest, FetchSteps, BeginFetch, DequeueSteps, CheckTail,
           CopyRequest, SetEmpty, AdvanceTail, LoadToCountDown, CountDown, PlaceRequest,
           ReceiveNothing, ReceiveAnswer, KeepWaiting, GiveUp, FinishRun, Fetching
  <2>2. lost \in Nat
    BY DEF IInv, PlaceInv
  <2> QED
    BY <2>1, <2>2, TypesOfSlots DEF WindowInv
<1>2. CASE FetchSteps
  <2>1. CASE SetEmpty
    BY <2>1, SetEmptyWindow
  <2>2. CASE BeginFetch \/ CheckTail \/ CopyRequest
    <3>1. /\ UNCHANGED <<slot, head, tail, used>> /\ used > 0
          /\ run_pc \in {"idle", "status", "copy"}
          /\ run_pc' \in {"status", "copy", "empty", "fetched"}
      BY <1>1, <2>2 DEF BeginFetch, CheckTail, CopyRequest, Fetching
    <3>2. UNCHANGED <<Length, First, Beyond>>
      BY <1>1, <3>1 DEF Length, Uncounted, StillCounted, First, Beyond
    <3> QED
      BY <1>1, <3>1, <3>2, WindowStays
  <2>3. CASE AdvanceTail
    <3>1. /\ UNCHANGED <<slot, head, used>> /\ tail' = Wrap(tail + 1)
          /\ run_pc = "tail" /\ run_pc' = "count"
      BY <2>3 DEF AdvanceTail, Fetching
    <3>2. UNCHANGED <<Length, First, Beyond>>
      BY <1>1, <3>1 DEF Length, Uncounted, StillCounted, First, Beyond
    <3> QED
      BY <1>1, <3>1, <3>2, WindowStays
  <2>4. CASE LoadToCountDown
    <3>1. /\ UNCHANGED <<slot, head, tail, used>>
          /\ run_pc = "count" /\ run_pc' = "store"
      BY <2>4 DEF LoadToCountDown, Fetching
    <3>2. UNCHANGED <<Length, First, Beyond>>
      BY <1>1, <3>1 DEF Length, Uncounted, StillCounted, First, Beyond
    <3> QED
      BY <1>1, <3>1, <3>2, WindowStays
  <2>5. CASE CountDown
    <3>1. used = run_count
      BY <1>1, <2>5 DEF CountDown
    <3>2. /\ UNCHANGED <<slot, head, tail>> /\ used' = used - 1
          /\ run_pc = "store" /\ run_pc' = "fetched"
      BY <1>1, <2>5, <3>1 DEF CountDown, Fetching
    <3>3. UNCHANGED <<Length, First, Beyond>>
      BY <1>1, <3>2 DEF Length, Uncounted, StillCounted, First, Beyond
    <3> QED
      BY <1>1, <3>2, <3>3, WindowStays
  <2> QED
    BY <1>2, <2>1, <2>2, <2>3, <2>4, <2>5 DEF FetchSteps, DequeueSteps
<1>3. CASE \E i \in PenSlots : ReceiveAnswer(i)
  <2>1. AddCommand /\ run_pc = "receive" /\ run_pc' = "timeout"
    BY <1>3 DEF ReceiveAnswer, AddCommand
  <2> QED
    BY <1>1, <2>1, CommandWindow
<1>4. CASE NoRequest \/ PlaceRequest \/ ReceiveNothing \/ KeepWaiting \/ GiveUp
  <2>1. /\ UNCHANGED <<slot, head, tail, used>>
        /\ run_pc \in {"idle", "fetched", "receive", "timeout"}
        /\ run_pc' \in {"idle", "receive", "timeout"}
    BY <1>4 DEF NoRequest, PlaceRequest, ReceiveNothing, KeepWaiting, GiveUp, FinishRun
  <2>2. UNCHANGED <<Length, First, Beyond>>
    BY <1>1, <2>1 DEF Length, Uncounted, StillCounted, First, Beyond
  <2> QED
    BY <1>1, <2>1, <2>2, WindowStays
<1> QED
  BY <1>2, <1>3, <1>4 DEF ThreadModbus

LEMMA InitWindow == Init => WindowInv
<1> SUFFICES ASSUME Init PROVE WindowInv
  OBVIOUS
<1> USE DEF Init, ThreadsInit
<1>1. Length = 0 /\ First = 0 /\ Beyond = 0
  BY DEF Length, Uncounted, StillCounted, First, Beyond
<1>2. \A i \in Slots : slot[i].status # "QUEUE_FULL" /\ Distance(First, i) >= 0
  BY <1>1 DEF Distance, Slots
<1>3. Length \in 0 .. QueueLen /\ Beyond = Wrap(First + Length)
  BY <1>1 DEF Wrap
<1>4. \A i \in Slots : Distance(First, i) \in Int
  BY <1>1 DEF Distance, Slots
<1>5. add_pc = "idle" /\ run_pc = "idle"
  OBVIOUS
<1> HIDE DEF Init, ThreadsInit
<1> QED
  BY <1>1, <1>2, <1>3, <1>4, <1>5 DEF WindowInv

\* A lost update stays lost.
LEMMA LostGrows ==
    ASSUME IInv, [Next]_vars
    PROVE  lost' = lost \/ lost' = lost + 1
BY DEF Next, vars, threadVars, ringVars, addVars, runVars, Running, Resting, Fetching, Adding,
       ThreadCompRequest, ActionStarts, ActionStays, AddArea, AttachCallback, AddSteps,
       ActionEnds, Wait, Handle, EnqueueSteps, Probe, SetFull, ResetCallback, LoadToCountUp,
       CountUp, AdvanceHead, BeginAdd, CallbackAdd, ThreadModbus, NoRequest, FetchSteps,
       BeginFetch, DequeueSteps, CheckTail, CopyRequest, SetEmpty, AdvanceTail,
       LoadToCountDown, CountDown, PlaceRequest, ReceiveNothing, ReceiveAnswer, AddCommand,
       KeepWaiting, GiveUp, FinishRun

LEMMA NextWindow ==
    ASSUME IInv, [Next]_vars, lost = 0 => WindowInv, lost' = 0
    PROVE  WindowInv'
<1>1. lost = 0 /\ lost' = lost /\ WindowInv
  BY LostGrows DEF IInv, PlaceInv
<1>2. CASE UNCHANGED vars
  BY <1>1, <1>2 DEF vars, threadVars, ringVars, addVars, runVars, WindowInv, Length,
                     Uncounted, StillCounted, First, Beyond
<1> QED
  BY <1>1, <1>2, AddWindow, RunWindow DEF Next

\* While nothing is lost the full slots are a window of the ring.
LEMMA WindowHolds == Spec => [](IInv /\ (lost = 0 => WindowInv))
<1>1. Init => IInv /\ (lost = 0 => WindowInv)
  BY InitIInv, InitWindow
<1>2. IInv /\ (lost = 0 => WindowInv) /\ [Next]_vars => (IInv /\ (lost = 0 => WindowInv))'
  BY NextIInv, NextWindow
<1> QED
  BY <1>1, <1>2, PTL DEF Spec

-----------------------------------------------------------------------------
(***************************************************************************)
(* A fetch finds the request that field_used announced.                    *)
(***************************************************************************)
LEMMA WindowFetch ==
    ASSUME IInv, WindowInv
    PROVE  run_pc = "status" => slot[tail].status = "QUEUE_FULL"
<1> SUFFICES ASSUME run_pc = "status" PROVE slot[tail].status = "QUEUE_FULL"
  OBVIOUS
<1>1. First = tail /\ Length > 0 /\ tail \in Slots
  BY TypesOfSlots DEF First, Length, Uncounted, StillCounted, WindowInv
<1>2. Distance(tail, tail) = 0
  BY <1>1 DEF Distance, Slots
<1> QED
  BY <1>1, <1>2 DEF WindowInv

(***************************************************************************)
(* FetchFindsRequest: until the two threads overwrite each other's update  *)
(* of field_used for the first time, a fetch that field_used > 0 led to    *)
(* (mctcp.c:108) finds a request, whatever the lengths of the lists.       *)
(***************************************************************************)
THEOREM FetchesFindRequests == Spec => []FetchFindsRequest
<1>1. IInv /\ (lost = 0 => WindowInv) => FetchFindsRequest
  BY WindowFetch DEF FetchFindsRequest, NoneLost
<1> QED
  BY <1>1, WindowHolds, PTL

-----------------------------------------------------------------------------
(***************************************************************************)
(* The order of the list.  It is the window less the request copied last.  *)
(***************************************************************************)
Listed == IF run_pc = "empty" THEN Length - 1 ELSE Length

Entry(b) == [header |-> "ADU", body |-> b, cb |-> CallBackNull]

LEMMA WindowSize ==
    ASSUME NEW f \in Slots, NEW n \in 0 .. QueueLen
    PROVE  LET S == {i \in Slots : Distance(f, i) < n}
           IN  /\ IsFiniteSet(S)
               /\ Cardinality(S) = n
               /\ \A k \in 1 .. n : Wrap(f + k - 1) \in S
<1> DEFINE S == {i \in Slots : Distance(f, i) < n}
           g == [k \in 1 .. n |-> Wrap(f + k - 1)]
           back(i) == IF i >= f THEN i - f + 1 ELSE i - f + 1 + QueueLen
<1>1. \A k \in 1 .. n : Wrap(f + k - 1) \in S /\ back(Wrap(f + k - 1)) = k
  BY DEF Slots, Wrap, Distance
<1>2. \A i \in S : back(i) \in 1 .. n /\ Wrap(f + back(i) - 1) = i
  BY DEF Slots, Wrap, Distance
<1> HIDE DEF S, back
<1>3. g \in [1 .. n -> S]
  BY <1>1
<1>4. \A a, b \in 1 .. n : g[a] = g[b] => a = b
  BY <1>1
<1>5. \A i \in S : \E k \in 1 .. n : g[k] = i
  BY <1>2
<1> HIDE DEF g
<1>6. ExistsBijection(1 .. n, S)
  <2>1. g \in Bijection(1 .. n, S)
    BY <1>3, <1>4, <1>5 DEF Bijection, Injection, Surjection, IsInjective
  <2> QED
    BY <2>1 DEF ExistsBijection
<1>7. Cardinality(S) = n
  BY <1>6, FS_CountingElements
<1>8. IsFiniteSet(S)
  <2>1. IsFiniteSet(Slots)
    BY FS_Interval DEF Slots
  <2> QED
    BY <2>1, FS_Subset DEF S
<1> QED
  BY <1>1, <1>7, <1>8 DEF S

\* ListedSlots, from which Order is made, is that window.
LEMMA OrderWindow ==
    ASSUME IInv, WindowInv
    PROVE  /\ Listed \in 0 .. QueueLen
           /\ FirstListed \in Slots
           /\ IsFiniteSet(ListedSlots)
           /\ Cardinality(ListedSlots) = Listed
           /\ \A k \in 1 .. Listed : Wrap(FirstListed + k - 1) \in ListedSlots
           /\ Beyond = Wrap(FirstListed + Listed)
           /\ \A i \in Slots : i \in ListedSlots <=> Distance(FirstListed, i) < Listed
<1>1. /\ Length \in 0 .. QueueLen /\ First \in Slots
      /\ Beyond = Wrap(First + Length)
      /\ \A i \in Slots : slot[i].status = "QUEUE_FULL" <=> Distance(First, i) < Length
  BY WindowTypes DEF WindowInv
<1>2. /\ Listed \in 0 .. QueueLen
      /\ FirstListed \in Slots
      /\ Beyond = Wrap(FirstListed + Listed)
      /\ ListedSlots = {i \in Slots : Distance(FirstListed, i) < Listed}
  <2>1. CASE run_pc = "empty"
    <3>1. /\ First = tail /\ Length \in 1 .. QueueLen
          /\ FirstListed = Wrap(tail + 1) /\ Listed = Length - 1
      BY <1>1, <2>1, TypesOfSlots
         DEF First, Length, StillCounted, Uncounted, FirstListed, Listed, WindowInv
    <3>2. /\ Wrap(tail + 1) \in Slots
          /\ Wrap(Wrap(tail + 1) + (Length - 1)) = Wrap(tail + Length)
          /\ \A i \in Slots : Distance(Wrap(tail + 1), i) < Length - 1
                                  <=> Distance(tail, i) < Length /\ i # tail
      BY <3>1, WindowShrinks, TypesOfSlots
    <3>3. ListedSlots = {i \in Slots : slot[i].status = "QUEUE_FULL" /\ i # tail}
      BY <2>1 DEF ListedSlots
    <3>4. \A i \in Slots : Distance(tail, i) < Length <=> slot[i].status = "QUEUE_FULL"
      BY <1>1, <3>1
    <3>5. \A i \in Slots : slot[i].status = "QUEUE_FULL" /\ i # tail
                               <=> Distance(FirstListed, i) < Listed
      BY <3>1, <3>2, <3>4
    <3> QED
      BY <1>1, <3>1, <3>2, <3>3, <3>5
  <2>2. CASE run_pc # "empty"
    <3>1. FirstListed = First /\ Listed = Length
      BY <2>2 DEF FirstListed, First, Listed
    <3>2. ListedSlots = {i \in Slots : slot[i].status = "QUEUE_FULL"}
      BY <2>2 DEF ListedSlots
    <3> QED
      BY <1>1, <3>1, <3>2
  <2> QED
    BY <2>1, <2>2
<1> HIDE DEF Listed
<1>3. LET S == {i \in Slots : Distance(FirstListed, i) < Listed}
      IN  /\ IsFiniteSet(S)
          /\ Cardinality(S) = Listed
          /\ \A k \in 1 .. Listed : Wrap(FirstListed + k - 1) \in S
  BY <1>2, WindowSize
<1> QED
  BY <1>2, <1>3

\* A step that leaves the listed slots alone.
LEMMA OrderStays ==
    ASSUME IInv, WindowInv, UNCHANGED <<ListedSlots, FirstListed>>,
           \A i \in ListedSlots : slot'[i].body = slot[i].body
    PROVE  UNCHANGED Order
<1>1. \A k \in 1 .. Cardinality(ListedSlots) : Wrap(FirstListed + k - 1) \in ListedSlots
  BY OrderWindow
<1> QED
  BY <1>1 DEF Order

\* A step that adds the slot after the window.
LEMMA OrderAppends ==
    ASSUME IInv, WindowInv, Listed < QueueLen, NEW b \in Bodies,
           FirstListed' = FirstListed, ListedSlots' = ListedSlots \cup {Beyond},
           slot'[Beyond].body = b,
           \A i \in ListedSlots : slot'[i].body = slot[i].body
    PROVE  Len(Order) < QueueLen /\ Order' = Append(Order, Entry(b))
<1> DEFINE n == Cardinality(ListedSlots)
<1>1. /\ n \in 0 .. QueueLen - 1 /\ n = Listed
      /\ FirstListed \in Slots /\ IsFiniteSet(ListedSlots)
      /\ Beyond = Wrap(FirstListed + n)
      /\ \A k \in 1 .. n : Wrap(FirstListed + k - 1) \in ListedSlots
      /\ Beyond \in Slots
  BY OrderWindow, WindowTypes
<1>2. Beyond \notin ListedSlots
  <2>1. Distance(FirstListed, Beyond) = n
    BY <1>1, WindowGrows
  <2> QED
    BY <1>1, <2>1, OrderWindow
<1>3. Cardinality(ListedSlots') = n + 1
  BY <1>1, <1>2, FS_AddElement
<1> HIDE DEF n
<1> DEFINE e(k) == Entry(slot[Wrap(FirstListed + k - 1)].body)
           f(k) == Entry(slot'[Wrap(FirstListed + k - 1)].body)
<1>4. Order = [k \in 1 .. n |-> e(k)]
  BY DEF Order, Entry, n
<1>5. Order' = [k \in 1 .. n + 1 |-> f(k)]
  BY <1>3 DEF Order, Entry
<1>6. \A k \in 1 .. n : f(k) = e(k)
  BY <1>1
<1>7. f(n + 1) = Entry(b)
  <2>1. FirstListed + (n + 1) - 1 = FirstListed + n
    BY <1>1 DEF Slots
  <2> QED
    BY <1>1, <2>1
<1> HIDE DEF e, f
<1>8. Len(Order) = n
  BY <1>1, <1>4
<1>9. Order' = Append(Order, Entry(b))
  <2> DEFINE S == {e(k) : k \in 1 .. n} \cup {Entry(b)}
  <2>1. \A k \in 1 .. n : e(k) \in S
    OBVIOUS
  <2>2. Entry(b) \in S
    OBVIOUS
  <2> HIDE DEF S
  <2>3. Order \in Seq(S)
    BY <1>1, <1>4, <2>1
  <2>4. Order' \in Seq(S) /\ Len(Order') = n + 1
    <3>1. \A k \in 1 .. n + 1 : f(k) \in S
      BY <1>1, <1>6, <1>7, <2>1, <2>2
    <3> QED
      BY <1>1, <1>5, <3>1
  <2>5. /\ Append(Order, Entry(b)) \in Seq(S)
        /\ Len(Append(Order, Entry(b))) = n + 1
        /\ Append(Order, Entry(b))[n + 1] = Entry(b)
        /\ \A k \in 1 .. n : Append(Order, Entry(b))[k] = Order[k]
    BY <1>8, <2>2, <2>3, AppendProperties
  <2>6. \A k \in 1 .. n + 1 : Order'[k] = Append(Order, Entry(b))[k]
    BY <1>1, <1>4, <1>5, <1>6, <1>7, <2>5
  <2> QED
    BY <2>4, <2>5, <2>6, SeqEqual
<1> QED
  BY <1>1, <1>8, <1>9

\* The step that copies the first request.
LEMMA OrderShrinks ==
    ASSUME IInv, WindowInv, run_pc = "copy", run_pc' = "empty", UNCHANGED <<slot, tail>>
    PROVE  /\ slot[tail].status = "QUEUE_FULL" /\ slot[tail].body \in Bodies
           /\ Order # <<>> /\ Head(Order) = Entry(slot[tail].body) /\ Order' = Tail(Order)
<1> DEFINE n == Cardinality(ListedSlots)
<1>1. /\ n \in 1 .. QueueLen /\ FirstListed = tail /\ FirstListed' = Wrap(tail + 1)
      /\ tail \in Slots /\ IsFiniteSet(ListedSlots) /\ n = Listed
  <2>1. Listed >= 1 /\ FirstListed = tail /\ FirstListed' = Wrap(tail + 1)
    BY TypesOfSlots DEF Listed, Length, StillCounted, Uncounted, WindowInv, FirstListed
  <2> QED
    BY <2>1, OrderWindow, TypesOfSlots
<1>2. tail \in ListedSlots
  <2>1. Distance(tail, tail) = 0
    BY <1>1 DEF Distance, Slots
  <2> QED
    BY <1>1, <2>1, OrderWindow
<1>3. slot[tail].status = "QUEUE_FULL" /\ slot[tail].body \in Bodies
  <2>1. slot[tail].status = "QUEUE_FULL"
    BY <1>2 DEF ListedSlots
  <2> QED
    BY <1>1, <2>1 DEF WindowInv
<1>4. ListedSlots' = ListedSlots \ {tail}
  BY DEF ListedSlots
<1>5. Cardinality(ListedSlots') = n - 1
  BY <1>1, <1>2, <1>4, FS_RemoveElement
<1> HIDE DEF n
<1> DEFINE e(k) == Entry(slot[Wrap(tail + k - 1)].body)
           f(k) == Entry(slot[Wrap(Wrap(tail + 1) + k - 1)].body)
<1>6. Order = [k \in 1 .. n |-> e(k)]
  BY <1>1 DEF Order, Entry, n
<1>7. Order' = [k \in 1 .. n - 1 |-> f(k)]
  BY <1>1, <1>5 DEF Order, Entry
<1>8. \A k \in 1 .. n - 1 : f(k) = e(k + 1)
  <2>1. \A k \in 1 .. n - 1 : Wrap(Wrap(tail + 1) + k - 1) = Wrap(tail + (k + 1) - 1)
    BY <1>1 DEF Wrap, Slots
  <2> QED
    BY <2>1
<1>9. e(1) = Entry(slot[tail].body)
  <2>1. Wrap(tail + 1 - 1) = tail
    BY <1>1 DEF Wrap, Slots
  <2> QED
    BY <2>1
<1> HIDE DEF e, f
<1>10. Len(Order) = n /\ Order # <<>>
  BY <1>1, <1>6
<1>11. Head(Order) = Entry(slot[tail].body)
  BY <1>1, <1>6, <1>9, <1>10
<1>12. Order' = Tail(Order)
  <2> DEFINE S == {e(k) : k \in 1 .. n}
  <2>1. \A k \in 1 .. n : e(k) \in S
    OBVIOUS
  <2> HIDE DEF S
  <2>2. Order \in Seq(S)
    BY <1>1, <1>6, <2>1
  <2>3. Order' \in Seq(S) /\ Len(Order') = n - 1
    <3>1. \A k \in 1 .. n - 1 : f(k) \in S
      BY <1>1, <1>8, <2>1
    <3> QED
      BY <1>1, <1>7, <3>1
  <2>4. /\ Tail(Order) \in Seq(S)
        /\ Len(Tail(Order)) = n - 1
        /\ \A k \in 1 .. n - 1 : Tail(Order)[k] = Order[k + 1]
    BY <1>10, <2>2, HeadTailProperties
  <2>5. \A k \in 1 .. n - 1 : Order'[k] = Tail(Order)[k]
    BY <1>1, <1>6, <1>7, <1>8, <2>4
  <2> QED
    BY <2>3, <2>4, <2>5, SeqEqual
<1> QED
  BY <1>3, <1>10, <1>11, <1>12

\* How a request that is written into the list, and one that is copied from it,
\* look in the abstract list.
LEMMA AcceptStep ==
    ASSUME NEW b \in Bodies, Len(Order) < QueueLen, Order' = Append(Order, Entry(b)),
           UNCHANGED fetched
    PROVE  Fifo!Next
<1> DEFINE a == [header |-> IF fetched = NullRequest THEN "NONE" ELSE "ADU",
                 body |-> fetched.body, cb |-> CallBackNull]
           null == [header |-> "NONE", body |-> NoBody, cb |-> CallBackNull]
<1>1. a' = a
  OBVIOUS
<1>2. a # null => [a EXCEPT !.header = "ADU"] = a
  <2>1. CASE fetched = NullRequest
    BY <2>1 DEF NullRequest
  <2>2. CASE fetched # NullRequest
    BY <2>2
  <2> QED
    BY <2>1, <2>2
<1> HIDE DEF a, null
<1>3. Fifo!Accept("ADU", b)
  BY <1>1, <1>2 DEF Fifo!Accept, Fifo!NewRequest, Fifo!Reclaim, Fifo!NullRequest, Entry, a, null
<1> QED
  BY <1>3 DEF Fifo!Next

LEMMA FetchStep ==
    ASSUME NEW b \in Bodies, Order # <<>>, Head(Order) = Entry(b), Order' = Tail(Order),
           fetched'.body = b
    PROVE  Fifo!Next
<1>1. fetched' # NullRequest
  BY DEF NullRequest
<1>2. Fifo!Fetch
  BY <1>1 DEF Fifo!Fetch, Entry
<1> QED
  BY <1>2 DEF Fifo!Next

\* A slot that is written, when it is not listed.
LEMMA HeadNotListed ==
    ASSUME IInv, WindowInv, add_pc \notin {"callback", "count", "store", "head"},
           Length < QueueLen
    PROVE  Beyond = head /\ head \notin ListedSlots /\ Listed < QueueLen
<1>1. Beyond = head
  BY DEF Beyond
<1>2. Listed \in 0 .. QueueLen - 1
  BY OrderWindow, WindowTypes DEF Listed
<1>3. FirstListed \in Slots /\ head \in Slots /\ head = Wrap(FirstListed + Listed)
  BY <1>1, OrderWindow, TypesOfSlots
<1>4. Distance(FirstListed, head) = Listed
  BY <1>2, <1>3, WindowGrows
<1> QED
  BY <1>1, <1>2, <1>3, <1>4, OrderWindow

LEMMA AddOrder ==
    ASSUME IInv, WindowInv, ThreadCompRequest
    PROVE  Fifo!Next \/ UNCHANGED <<Order, fetched.body>>
<1> USE DEF ringVars, addVars, runVars, threadVars, smVars, penVars
<1>1. /\ UNCHANGED <<tail, run_pc, fetched>>
      /\ slot \in [Slots -> RingSlot] /\ head \in Slots /\ tail \in Slots
  <2>1. UNCHANGED <<tail, run_pc, fetched>>
    BY DEF ThreadCompRequest, ActionStarts, ActionStays, AddArea, AttachCallback, AddSteps,
           ActionEnds, Wait, Handle, EnqueueSteps, Probe, SetFull, ResetCallback,
           LoadToCountUp, CountUp, AdvanceHead, BeginAdd, CallbackAdd, Adding
  <2> QED
    BY <2>1, TypesOfSlots
<1>2. ASSUME \A i \in Slots : /\ slot'[i].status = slot[i].status
                              /\ i \in ListedSlots => slot'[i].body = slot[i].body
      PROVE  UNCHANGED <<Order, fetched.body>>
  <2>1. UNCHANGED <<ListedSlots, FirstListed>>
    BY <1>1, <1>2 DEF ListedSlots, FirstListed
  <2>2. \A i \in ListedSlots : slot'[i].body = slot[i].body
    BY <1>2 DEF ListedSlots
  <2>3. UNCHANGED Order
    BY <2>1, <2>2, OrderStays
  <2> QED
    BY <1>1, <2>3
<1>3. CASE Probe
  <2>1. CASE slot[head].status = "QUEUE_EMPTY"
    <3> DEFINE s == [slot[head] EXCEPT !.body = add_body]
    <3>1. add_body \in Bodies
      BY <1>3 DEF Probe, Adding, IInv, PlaceInv
    <3>2. s \in RingSlot /\ s.status = slot[head].status
      <4>1. slot[head] \in RingSlot
        BY <1>1
      <4> QED
        BY <3>1, <4>1 DEF RingSlot
    <3>3. slot' = [slot EXCEPT ![head] = s]
      BY <1>3, <2>1 DEF Probe
    <3> HIDE DEF s
    <3>4. head \notin ListedSlots
      BY <2>1 DEF ListedSlots
    <3>5. slot'[head] = s /\ \A j \in Slots \ {head} : slot'[j] = slot[j]
      BY <1>1, <3>2, <3>3, SlotWritten
    <3> QED
      BY <1>2, <3>2, <3>4, <3>5
  <2>2. CASE slot[head].status # "QUEUE_EMPTY"
    BY <1>2, <1>3, <2>2 DEF Probe
  <2> QED
    BY <2>1, <2>2
<1>4. CASE SetFull
  <2> DEFINE s == [slot[head] EXCEPT !.status = "QUEUE_FULL"]
             b == slot[head].body
  <2>1. s \in RingSlot /\ s.status = "QUEUE_FULL" /\ s.body = b
    <3>1. slot[head] \in RingSlot
      BY <1>1
    <3> QED
      BY <3>1 DEF RingSlot
  <2>2. slot' = [slot EXCEPT ![head] = s] /\ add_pc = "status"
    BY <1>4 DEF SetFull, Adding
  <2>3. b \in Bodies /\ Length < QueueLen
    BY <2>2, TypesOfSlots
       DEF WindowInv, IInv, PlaceInv, Length, Uncounted, StillCounted
  <2> HIDE DEF s, b
  <2>4. Beyond = head /\ head \notin ListedSlots /\ Listed < QueueLen
    BY <2>2, <2>3, HeadNotListed
  <2>5. slot'[head] = s /\ \A j \in Slots \ {head} : slot'[j] = slot[j]
    BY <1>1, <2>1, <2>2, SlotWritten
  <2>6. head # tail \/ run_pc # "empty"
    <3>1. CASE run_pc = "empty"
      <4>1. Length > 0 /\ First = tail
        BY <2>2, <3>1, TypesOfSlots DEF WindowInv, Length, Uncounted, StillCounted, First
      <4>2. Distance(tail, tail) = 0
        BY <1>1 DEF Distance, Slots
      <4>3. slot[tail].status = "QUEUE_FULL"
        BY <1>1, <4>1, <4>2 DEF WindowInv
      <4>4. Length \in 0 .. QueueLen - 1 /\ head = Wrap(First + Length)
        BY <2>3, <2>4 DEF WindowInv
      <4>5. Distance(First, head) = Length
        BY <1>1, <4>4, WindowGrows, WindowTypes
      <4> QED
        BY <4>1, <4>2, <4>5
    <3> QED
      BY <3>1
  <2>7. ListedSlots' = ListedSlots \cup {head} /\ FirstListed' = FirstListed
    <3>1. \A i \in Slots : slot'[i].status = "QUEUE_FULL"
                               <=> slot[i].status = "QUEUE_FULL" \/ i = head
      BY <2>1, <2>5
    <3> QED
      BY <1>1, <2>6, <3>1 DEF ListedSlots, FirstListed
  <2>8. \A i \in ListedSlots : slot'[i].body = slot[i].body
    BY <2>4, <2>5 DEF ListedSlots
  <2>9. Len(Order) < QueueLen /\ Order' = Append(Order, Entry(b))
    BY <2>1, <2>3, <2>4, <2>5, <2>7, <2>8, OrderAppends
  <2> QED
    BY <1>1, <2>3, <2>9, AcceptStep
<1>5. CASE ResetCallback
  <2> DEFINE s == [slot[head] EXCEPT !.cb = CallBackNull]
  <2>1. s \in RingSlot /\ s.status = slot[head].status /\ s.body = slot[head].body
    <3>1. slot[head] \in RingSlot
      BY <1>1
    <3> QED
      BY <3>1 DEF RingSlot
  <2>2. slot' = [slot EXCEPT ![head] = s]
    BY <1>5 DEF ResetCallback
  <2> HIDE DEF s
  <2>3. slot'[head] = s /\ \A j \in Slots \ {head} : slot'[j] = slot[j]
    BY <1>1, <2>1, <2>2, SlotWritten
  <2> QED
    BY <1>2, <2>1, <2>3
<1>6. CASE AttachCallback
  <2>1. PICK cb \in Callbacks : CallbackAdd(cb)
    BY <1>6 DEF AttachCallback
  <2> DEFINE i == IF head = 0 THEN QueueLen - 1 ELSE head - 1
             s == [slot[i] EXCEPT !.cb = cb]
  <2>2. i \in Slots
    BY <1>1 DEF Slots
  <2>3. slot' = [slot EXCEPT ![i] = s]
    BY <2>1 DEF CallbackAdd
  <2> HIDE DEF i
  <2>4. s \in RingSlot /\ s.status = slot[i].status /\ s.body = slot[i].body
    <3>1. slot[i] \in RingSlot
      BY <1>1, <2>2
    <3> QED
      BY <3>1 DEF RingSlot
  <2> HIDE DEF s
  <2>5. slot'[i] = s /\ \A j \in Slots \ {i} : slot'[j] = slot[j]
    BY <2>2, <2>3, <2>4, SlotWritten
  <2> QED
    BY <1>2, <2>4, <2>5
<1>7. CASE ~(Probe \/ SetFull \/ ResetCallback \/ AttachCallback)
  <2>1. UNCHANGED slot
    BY <1>7 DEF ThreadCompRequest, ActionStarts, ActionStays, AddArea, AddSteps,
           ActionEnds, Wait, Handle, EnqueueSteps, LoadToCountUp, CountUp, AdvanceHead, BeginAdd
  <2> QED
    BY <1>2, <2>1
<1> QED
  BY <1>3, <1>4, <1>5, <1>6, <1>7

LEMMA RunOrder ==
    ASSUME IInv, WindowInv, ThreadModbus
    PROVE  Fifo!Next \/ UNCHANGED <<Order, fetched.body>>
<1> USE DEF ringVars, addVars, runVars, threadVars, Running, Fetching
<1>1. /\ slot \in [Slots -> RingSlot] /\ head \in Slots /\ tail \in Slots
  BY TypesOfSlots
<1>2. CASE FetchSteps
  <2>1. CASE CopyRequest
    <3>1. /\ run_pc = "copy" /\ run_pc' = "empty" /\ UNCHANGED <<slot, tail>>
          /\ fetched'.body = slot[tail].body
      BY <2>1 DEF CopyRequest
    <3> QED
      BY <3>1, OrderShrinks, FetchStep
  <2>2. CASE CheckTail
    <3>1. slot[tail].status = "QUEUE_FULL"
      BY <2>2, WindowFetch DEF CheckTail
    <3>2. run_pc = "status" /\ run_pc' = "copy" /\ UNCHANGED <<slot, tail, fetched>>
      BY <2>2, <3>1 DEF CheckTail
    <3>3. UNCHANGED <<ListedSlots, FirstListed>>
      BY <3>2 DEF ListedSlots, FirstListed
    <3>4. UNCHANGED Order
      BY <3>2, <3>3, OrderStays DEF ListedSlots
    <3> QED
      BY <3>2, <3>4
  <2>3. CASE SetEmpty
    <3> DEFINE s == [slot[tail] EXCEPT !.status = "QUEUE_EMPTY"]
    <3>1. s \in RingSlot /\ s.status = "QUEUE_EMPTY" /\ s.body = slot[tail].body
      <4>1. slot[tail] \in RingSlot
        BY <1>1
      <4> QED
        BY <4>1 DEF RingSlot
    <3>2. /\ run_pc = "empty" /\ run_pc' = "tail" /\ UNCHANGED <<tail, fetched>>
          /\ slot' = [slot EXCEPT ![tail] = s]
      BY <2>3 DEF SetEmpty
    <3> HIDE DEF s
    <3>3. slot'[tail] = s /\ \A j \in Slots \ {tail} : slot'[j] = slot[j]
      BY <1>1, <3>1, <3>2, SlotWritten
    <3>4. UNCHANGED <<ListedSlots, FirstListed>>
      <4>1. \A i \in Slots : slot'[i].status = "QUEUE_FULL"
                                 <=> slot[i].status = "QUEUE_FULL" /\ i # tail
        BY <3>1, <3>3
      <4> QED
        BY <3>2, <4>1 DEF ListedSlots, FirstListed
    <3>5. \A i \in Slots : slot'[i].body = slot[i].body
      BY <3>1, <3>3
    <3>6. UNCHANGED Order
      BY <3>4, <3>5, OrderStays DEF ListedSlots
    <3> QED
      BY <3>2, <3>6
  <2>4. CASE AdvanceTail \/ LoadToCountDown \/ CountDown \/ BeginFetch
    <3>1. /\ UNCHANGED <<slot, fetched>> /\ run_pc # "empty" /\ run_pc' \notin {"empty", "tail"}
          /\ \/ run_pc = "tail" /\ tail' = Wrap(tail + 1)
             \/ run_pc # "tail" /\ tail' = tail
      BY <2>4 DEF AdvanceTail, LoadToCountDown, CountDown, BeginFetch
    <3>2. UNCHANGED <<ListedSlots, FirstListed>>
      BY <3>1 DEF ListedSlots, FirstListed
    <3>3. UNCHANGED Order
      BY <3>1, <3>2, OrderStays DEF ListedSlots
    <3> QED
      BY <3>1, <3>3
  <2> QED
    BY <1>2, <2>1, <2>2, <2>3, <2>4 DEF FetchSteps, DequeueSteps
<1>3. ASSUME NEW i \in PenSlots, ReceiveAnswer(i)
      PROVE  Fifo!Next \/ UNCHANGED <<Order, fetched.body>>
  <2>1. /\ AddCommand /\ run_pc = "receive" /\ run_pc' = "timeout" /\ UNCHANGED fetched
    BY <1>3 DEF ReceiveAnswer, AddCommand
  <2>2. CASE UNCHANGED ringVars
    <3>1. UNCHANGED <<ListedSlots, FirstListed>>
      BY <2>1, <2>2 DEF ListedSlots, FirstListed
    <3>2. UNCHANGED Order
      BY <2>2, <3>1, OrderStays
    <3> QED
      BY <2>1, <3>2
  <2>3. CASE ~UNCHANGED ringVars
    <3> DEFINE s == [status |-> "QUEUE_FULL", body |-> "command", cb |-> CallBackNull]
    <3>1. /\ add_pc = "idle" /\ used < QueueLen /\ UNCHANGED tail
          /\ slot' = [slot EXCEPT ![head] = s]
      BY <2>1, <2>3 DEF AddCommand, Resting
    <3>2. s \in RingSlot /\ s.status = "QUEUE_FULL" /\ s.body = "command" /\ "command" \in Bodies
      BY DEF RingSlot
    <3> HIDE DEF s
    <3>3. Length < QueueLen
      BY <2>1, <3>1, TypesOfSlots DEF Length, Uncounted, StillCounted
    <3>4. Beyond = head /\ head \notin ListedSlots /\ Listed < QueueLen
      BY <3>1, <3>3, HeadNotListed
    <3>5. slot'[head] = s /\ \A j \in Slots \ {head} : slot'[j] = slot[j]
      BY <1>1, <3>1, <3>2, SlotWritten
    <3>6. ListedSlots' = ListedSlots \cup {head} /\ FirstListed' = FirstListed
      <4>1. \A j \in Slots : slot'[j].status = "QUEUE_FULL"
                                 <=> slot[j].status = "QUEUE_FULL" \/ j = head
        BY <3>2, <3>5
      <4> QED
        BY <1>1, <2>1, <3>1, <4>1 DEF ListedSlots, FirstListed
    <3>7. \A j \in ListedSlots : slot'[j].body = slot[j].body
      BY <3>4, <3>5 DEF ListedSlots
    <3>8. Len(Order) < QueueLen /\ Order' = Append(Order, Entry("command"))
      BY <3>2, <3>4, <3>5, <3>6, <3>7, OrderAppends
    <3> QED
      BY <2>1, <3>2, <3>8, AcceptStep
  <2> QED
    BY <2>2, <2>3
<1>4. CASE NoRequest \/ PlaceRequest \/ ReceiveNothing \/ KeepWaiting \/ GiveUp
  <2>1. /\ UNCHANGED <<slot, tail, fetched>>
        /\ run_pc \notin {"empty", "tail"} /\ run_pc' \notin {"empty", "tail"}
    BY <1>4 DEF NoRequest, PlaceRequest, ReceiveNothing, KeepWaiting, GiveUp, FinishRun
  <2>2. UNCHANGED <<ListedSlots, FirstListed>>
    BY <2>1 DEF ListedSlots, FirstListed
  <2>3. UNCHANGED Order
    BY <2>1, <2>2, OrderStays
  <2> QED
    BY <2>1, <2>3
<1> QED
  BY <1>2, <1>3, <1>4 DEF ThreadModbus

LEMMA OrderStep ==
    ASSUME IInv, WindowInv, [Next]_vars
    PROVE  [Fifo!Next]_<<Order, fetched.body>>
<1>1. CASE UNCHANGED vars
  BY <1>1 DEF vars, threadVars, ringVars, runVars, Order, ListedSlots, FirstListed
<1>2. UNCHANGED <<Order, fetched.body>> => [Fifo!Next]_<<Order, fetched.body>>
  OBVIOUS
<1>3. Fifo!Next => [Fifo!Next]_<<Order, fetched.body>>
  OBVIOUS
<1> QED
  BY <1>1, <1>2, <1>3, AddOrder, RunOrder DEF Next

(***************************************************************************)
(* FetchesInOrder: without a lock the list between the two threads is a    *)
(* fifo, for every length of it and at every interleaving of their         *)
(* accesses to requestList and its indices, until an update of field_used  *)
(* is lost.                                                                *)
(***************************************************************************)
THEOREM RequestsFetchedInOrder == Spec => FetchesInOrder
<1>1. /\ IInv /\ (lost = 0 => WindowInv)
      /\ [Next]_vars
      => [NoneLost => Fifo!Next]_<<Order, fetched.body>>
  BY OrderStep DEF NoneLost
<1> QED
  BY <1>1, WindowHolds, PTL DEF Spec, FetchesInOrder

-----------------------------------------------------------------------------
(***************************************************************************)
(* Callbacks.                                                              *)
(***************************************************************************)
\* The slots and todo, in the steps of the adding thread.
LEMMA AddCallbacks ==
    ASSUME lost = 0, IInv, WindowInv, AddsHaveRoom, CallbackInv, ThreadCompRequest
    PROVE  CallbackInv'
<1> USE DEF ringVars, addVars, runVars, threadVars, smVars, penVars
<1> DEFINE Cb(i) == slot[i].cb # CallBackNull => \/ slot[i].body = "control"
                                                 \/ i = head /\ add_pc \in {"status", "callback"}
<1>1. /\ slot \in [Slots -> RingSlot] /\ head \in Slots /\ todo \in Todos
      /\ \A i \in Slots : Cb(i)
      /\ \A i \in Slots : Before(Wrap(i + 1)) = i /\ Before(i) \in Slots
  <2>1. \A i \in Slots : Before(Wrap(i + 1)) = i /\ Before(i) \in Slots
    BY DEF Before, Wrap, Slots
  <2> QED
    BY <2>1, TypesOfSlots DEF CallbackInv, IInv, PlaceInv
<1>2. CallbacksPlaced'
  <2>1. UNCHANGED <<fetched, pend>>
    BY DEF ThreadCompRequest, ActionStarts, ActionStays, AddArea, AttachCallback, AddSteps,
           ActionEnds, Wait, Handle, EnqueueSteps, Probe, SetFull, ResetCallback,
           LoadToCountUp, CountUp, AdvanceHead, BeginAdd, CallbackAdd, Adding
  <2> QED
    BY <2>1 DEF CallbackInv, CallbacksPlaced
<1>3. todo = Tail(AreasToRead) =>
          /\ add_pc = "probe" => add_body = "control"
          /\ add_pc = "idle" => slot[Before(head)].body = "control"
          /\ add_pc \notin {"probe", "idle"} => slot[head].body = "control"
  BY DEF CallbackInv
<1>4. ASSUME \A i \in Slots : Cb(i)',
             todo' = Tail(AreasToRead) =>
                 /\ add_pc' = "probe" => add_body' = "control"
                 /\ add_pc' = "idle" => slot'[Before(head')].body = "control"
                 /\ add_pc' \notin {"probe", "idle"} => slot'[head'].body = "control"
      PROVE  CallbackInv'
  BY <1>2, <1>4 DEF CallbackInv, Before
<1>5. CASE AddSteps
  <2>1. UNCHANGED todo
    BY <1>5 DEF AddSteps
  <2>2. CASE Probe
    <3>1. /\ add_pc = "probe" /\ add_pc' = "status" /\ head' = head
          /\ slot' = [slot EXCEPT ![head].body = add_body]
      BY <2>2, ProbeWindow DEF Probe, Adding
    <3> DEFINE s == [slot[head] EXCEPT !.body = add_body]
    <3>2. s \in RingSlot /\ s.body = add_body
      <4>1. slot[head] \in RingSlot /\ add_body \in Bodies
        BY <1>1, <3>1 DEF IInv, PlaceInv
      <4> QED
        BY <4>1 DEF RingSlot
    <3>3. slot' = [slot EXCEPT ![head] = s]
      BY <3>1
    <3> HIDE DEF s
    <3>4. slot'[head] = s /\ \A j \in Slots \ {head} : slot'[j] = slot[j]
      BY <1>1, <3>2, <3>3, SlotWritten
    <3>5. \A i \in Slots : Cb(i)'
      BY <1>1, <3>1, <3>4
    <3>6. todo = Tail(AreasToRead) => slot'[head'].body = "control"
      BY <1>3, <3>1, <3>2, <3>4
    <3> QED
      BY <1>4, <2>1, <3>1, <3>5, <3>6
  <2>3. CASE SetFull
    <3>1. /\ add_pc = "status" /\ add_pc' = "callback" /\ head' = head
          /\ slot' = [slot EXCEPT ![head].status = "QUEUE_FULL"]
      BY <2>3 DEF SetFull, Adding
    <3> DEFINE s == [slot[head] EXCEPT !.status = "QUEUE_FULL"]
    <3>2. s \in RingSlot /\ s.body = slot[head].body
      <4>1. slot[head] \in RingSlot
        BY <1>1
      <4> QED
        BY <4>1 DEF RingSlot
    <3>3. slot' = [slot EXCEPT ![head] = s]
      BY <3>1
    <3> HIDE DEF s
    <3>4. slot'[head] = s /\ \A j \in Slots \ {head} : slot'[j] = slot[j]
      BY <1>1, <3>2, <3>3, SlotWritten
    <3>5. \A i \in Slots : Cb(i)'
      BY <1>1, <3>1, <3>4
    <3>6. todo = Tail(AreasToRead) => slot'[head'].body = "control"
      BY <1>3, <3>1, <3>2, <3>4
    <3> QED
      BY <1>4, <2>1, <3>1, <3>5, <3>6
  <2>4. CASE ResetCallback
    <3>1. /\ add_pc = "callback" /\ add_pc' = "count" /\ head' = head
          /\ slot' = [slot EXCEPT ![head].cb = CallBackNull]
      BY <2>4 DEF ResetCallback, Adding
    <3> DEFINE s == [slot[head] EXCEPT !.cb = CallBackNull]
    <3>2. s \in RingSlot /\ s.body = slot[head].body /\ s.cb = CallBackNull
      <4>1. slot[head] \in RingSlot
        BY <1>1
      <4> QED
        BY <4>1 DEF RingSlot
    <3>3. slot' = [slot EXCEPT ![head] = s]
      BY <3>1
    <3> HIDE DEF s
    <3>4. slot'[head] = s /\ \A j \in Slots \ {head} : slot'[j] = slot[j]
      BY <1>1, <3>2, <3>3, SlotWritten
    <3>5. \A i \in Slots : Cb(i)'
      BY <1>1, <3>1, <3>2, <3>4
    <3>6. todo = Tail(AreasToRead) => slot'[head'].body = "control"
      BY <1>3, <3>1, <3>2, <3>4
    <3> QED
      BY <1>4, <2>1, <3>1, <3>5, <3>6
  <2>5. CASE LoadToCountUp \/ CountUp
    <3>1. /\ add_pc \in {"count", "store"} /\ add_pc' \in {"store", "head"}
          /\ UNCHANGED <<slot, head>>
      BY <2>5 DEF LoadToCountUp, CountUp, Adding
    <3>2. \A i \in Slots : Cb(i)'
      BY <1>1, <3>1
    <3> QED
      BY <1>3, <1>4, <2>1, <3>1, <3>2
  <2>6. CASE AdvanceHead
    <3>1. /\ add_pc = "head" /\ add_pc' = "idle" /\ UNCHANGED slot
          /\ head' = Wrap(head + 1)
      BY <2>6 DEF AdvanceHead, Adding
    <3>2. \A i \in Slots : Cb(i)'
      BY <1>1, <3>1
    <3>3. Before(head') = head
      BY <1>1, <3>1
    <3> QED
      BY <1>3, <1>4, <2>1, <3>1, <3>2, <3>3
  <2> QED
    BY <1>5, <2>2, <2>3, <2>4, <2>5, <2>6 DEF AddSteps, EnqueueSteps
<1>6. CASE AddArea
  <2>1. /\ todo # <<>> /\ Head(todo) \in Bodies /\ add_pc = "idle" /\ todo' = Tail(todo)
        /\ UNCHANGED <<slot, head>>
        /\ add_body' = Head(todo)
        /\ add_pc' = IF used < QueueLen THEN "probe" ELSE "idle"
    BY <1>6 DEF AddArea, BeginAdd, Adding, NextCall
  <2>2. add_pc' = "probe"
    BY <2>1 DEF AddsHaveRoom, NoneLost
  <2>3. \A i \in Slots : Cb(i)'
    BY <1>1, <2>1
  <2>4. todo' = Tail(AreasToRead) => add_body' = "control"
    BY <1>1, <2>1, TodoSteps
  <2> QED
    BY <1>4, <2>2, <2>3, <2>4
<1>7. CASE AttachCallback
  <2>1. PICK cb \in Callbacks : CallbackAdd(cb) /\ Head(todo) = cb
    BY <1>7 DEF AttachCallback
  <2>2. /\ todo # <<>> /\ Head(todo) = "CallbackCompControl" /\ todo' = Tail(todo)
        /\ add_pc = "idle" /\ add_pc' = "idle" /\ UNCHANGED head
        /\ slot' = [slot EXCEPT ![Before(head)].cb = cb]
    BY <1>7, <2>1 DEF AttachCallback, NextCall, CallbackAdd, Adding, Before
  <2>3. todo = Tail(AreasToRead) /\ todo' # Tail(AreasToRead)
    BY <1>1, <2>2, TodoSteps
  <2> DEFINE i == Before(head)
             s == [slot[i] EXCEPT !.cb = cb]
  <2>4. i \in Slots /\ slot[i].body = "control"
    BY <1>1, <1>3, <2>2, <2>3
  <2>5. slot' = [slot EXCEPT ![i] = s]
    BY <2>2
  <2> HIDE DEF i
  <2>6. s \in RingSlot /\ s.body = slot[i].body
    <3>1. slot[i] \in RingSlot
      BY <1>1, <2>4
    <3> QED
      BY <3>1 DEF RingSlot
  <2> HIDE DEF s
  <2>7. slot'[i] = s /\ \A j \in Slots \ {i} : slot'[j] = slot[j]
    BY <2>4, <2>5, <2>6, SlotWritten
  <2>8. \A j \in Slots : Cb(j)'
    BY <1>1, <2>2, <2>4, <2>6, <2>7
  <2> QED
    BY <1>4, <2>3, <2>8
<1>8. CASE ActionStarts \/ ActionStays \/ ActionEnds \/ Wait \/ Handle
  <2>1. UNCHANGED threadVars
    BY <1>8 DEF ActionStarts, ActionStays, ActionEnds, Wait, Handle
  <2>2. \A i \in Slots : Cb(i)'
    BY <1>1, <2>1
  <2>3. todo' = todo \/ todo' # Tail(AreasToRead)
    <3>1. CASE ActionStarts
      BY <3>1, TodoSteps DEF ActionStarts
    <3>2. CASE ActionEnds
      BY <1>1, <3>2, TodoSteps DEF ActionEnds, NextCall
    <3>3. CASE ActionStays \/ Wait \/ Handle
      BY <3>3 DEF ActionStays, Wait, Handle
    <3> QED
      BY <1>8, <3>1, <3>2, <3>3
  <2> QED
    BY <1>3, <1>4, <2>1, <2>2, <2>3
<1> QED
  BY <1>5, <1>6, <1>7, <1>8 DEF ThreadCompRequest

\* A slot whose last callback still stands is not the one that is copied.
LEMMA CopiedCallback ==
    ASSUME IInv, WindowInv, CallbackInv, run_pc = "copy", slot[tail].cb # CallBackNull
    PROVE  slot[tail].body = "control"
<1>1. head \in Slots /\ tail \in Slots
  BY TypesOfSlots
<1>2. add_pc \in {"status", "callback"} => tail # head
  <2> SUFFICES ASSUME add_pc \in {"status", "callback"} PROVE tail # head
    OBVIOUS
  <2>1. used > 0 /\ used < QueueLen
    BY TypesOfSlots DEF WindowInv, IInv, PlaceInv
  <2>2. First = tail
    BY DEF First
  <2>3. CASE add_pc = "status"
    <3>1. Length = used /\ Beyond = head
      BY <2>3, TypesOfSlots DEF Length, Uncounted, StillCounted, Beyond
    <3>2. head = Wrap(tail + used) /\ used \in 0 .. QueueLen - 1
      BY <2>1, <2>2, <3>1 DEF WindowInv
    <3> QED
      BY <1>1, <2>1, <3>2 DEF Wrap, Slots
  <2>4. CASE add_pc = "callback"
    <3>1. Length = used + 1 /\ Beyond = Wrap(head + 1)
      BY <2>4, TypesOfSlots DEF Length, Uncounted, StillCounted, Beyond
    <3>2. Wrap(head + 1) = Wrap(tail + (used + 1)) /\ used \in 0 .. QueueLen - 1
      BY <2>1, <2>2, <3>1, TypesOfSlots DEF WindowInv
    <3> QED
      BY <1>1, <2>1, <3>2 DEF Wrap, Slots
  <2> QED
    BY <2>3, <2>4
<1> QED
  BY <1>1, <1>2 DEF CallbackInv

\* The steps of the thread that calls Run.
LEMMA RunCallbacks ==
    ASSUME IInv, WindowInv, CallbackInv, ThreadModbus
    PROVE  CallbackInv'
<1> USE DEF ringVars, addVars, runVars, threadVars, smVars, penVars, Running, Fetching
<1> DEFINE Cb(i) == slot[i].cb # CallBackNull => \/ slot[i].body = "control"
                                                 \/ i = head /\ add_pc \in {"status", "callback"}
<1>1. /\ slot \in [Slots -> RingSlot] /\ head \in Slots /\ tail \in Slots
      /\ pend \in [PenSlots -> PenSlot]
      /\ \A i \in Slots : Cb(i) /\ Before(i) \in Slots
      /\ CallbacksPlaced
  BY TypesOfSlots, WrapInSlots DEF CallbackInv, Slots
<1>2. UNCHANGED <<add_pc, add_body, todo>>
  BY DEF ThreadModbus, NoRequest, FetchSteps, BeginFetch, DequeueSteps, CheckTail, CopyRequest,
         SetEmpty, AdvanceTail, LoadToCountDown, CountDown, PlaceRequest, ReceiveNothing,
         ReceiveAnswer, KeepWaiting, GiveUp, FinishRun
<1>3. fetched'.cb # CallBackNull => fetched'.body = "control"
  <2>1. CASE CopyRequest
    BY <2>1, CopiedCallback DEF CopyRequest
  <2>2. CASE CheckTail
    BY <1>1, <2>2 DEF CheckTail, NullRequest, CallbacksPlaced
  <2>3. CASE ~CopyRequest /\ ~CheckTail
    <3>1. UNCHANGED fetched
      BY <2>3 DEF ThreadModbus, NoRequest, FetchSteps, BeginFetch, DequeueSteps, SetEmpty,
                  AdvanceTail, LoadToCountDown, CountDown, PlaceRequest, ReceiveNothing,
                  ReceiveAnswer, KeepWaiting, GiveUp, FinishRun
    <3> QED
      BY <1>1, <3>1 DEF CallbacksPlaced
  <2> QED
    BY <2>1, <2>2, <2>3
<1>4. \A i \in PenSlots : pend'[i].cb # CallBackNull => pend'[i].body = "control"
  <2> DEFINE s == [status |-> "INUSE", body |-> fetched.body, cb |-> fetched.cb,
                   timer |-> 0, open |-> TRUE]
  <2>1. s.cb # CallBackNull => s.body = "control"
    BY <1>1 DEF CallbacksPlaced
  <2> HIDE DEF s
  <2>2. \/ pend' = pend
        \/ PlaceOfNewRequest \in PenSlots /\ pend' = [pend EXCEPT ![PlaceOfNewRequest] = s]
        \/ \A i \in PenSlots : pend'[i].body = pend[i].body /\ pend'[i].cb = pend[i].cb
    BY PendStep DEF Next, s
  <2> QED
    BY <1>1, <2>1, <2>2 DEF CallbacksPlaced
<1>5. /\ \A i \in Slots : Cb(i)'
      /\ todo # <<>> => /\ UNCHANGED head
                        /\ \A i \in Slots : slot'[i].body = slot[i].body
  <2>1. CASE SetEmpty
    <3> DEFINE s == [slot[tail] EXCEPT !.status = "QUEUE_EMPTY"]
    <3>1. s \in RingSlot /\ s.body = slot[tail].body /\ s.cb = slot[tail].cb
      <4>1. slot[tail] \in RingSlot
        BY <1>1
      <4> QED
        BY <4>1 DEF RingSlot
    <3>2. slot' = [slot EXCEPT ![tail] = s] /\ UNCHANGED head
      BY <2>1 DEF SetEmpty
    <3> HIDE DEF s
    <3>3. slot'[tail] = s /\ \A j \in Slots \ {tail} : slot'[j] = slot[j]
      BY <1>1, <3>1, <3>2, SlotWritten
    <3> QED
      BY <1>1, <1>2, <3>1, <3>2, <3>3
  <2>2. CASE AddCommand /\ ~UNCHANGED ringVars
    <3> DEFINE s == [status |-> "QUEUE_FULL", body |-> "command", cb |-> CallBackNull]
    <3>1. todo = <<>> /\ add_pc = "idle" /\ slot' = [slot EXCEPT ![head] = s]
      BY <2>2 DEF AddCommand, Resting
    <3>2. s \in RingSlot /\ s.cb = CallBackNull
      BY DEF RingSlot
    <3> HIDE DEF s
    <3>3. slot'[head] = s /\ \A j \in Slots \ {head} : slot'[j] = slot[j]
      BY <1>1, <3>1, <3>2, SlotWritten
    <3> QED
      BY <1>1, <1>2, <3>1, <3>2, <3>3
  <2>3. CASE UNCHANGED <<slot, head>>
    BY <1>1, <1>2, <2>3
  <2> QED
    BY <2>1, <2>2, <2>3
       DEF ThreadModbus, NoRequest, FetchSteps, BeginFetch, DequeueSteps, CheckTail,
           CopyRequest, AdvanceTail, LoadToCountDown, CountDown, PlaceRequest, ReceiveNothing,
           ReceiveAnswer, KeepWaiting, GiveUp, FinishRun, AddCommand
<1>6. todo' = Tail(AreasToRead) =>
          /\ add_pc' = "probe" => add_body' = "control"
          /\ add_pc' = "idle" => slot'[Before(head')].body = "control"
          /\ add_pc' \notin {"probe", "idle"} => slot'[head'].body = "control"
  <2>1. todo = Tail(AreasToRead) => todo # <<>>
    BY TodoSteps
  <2> QED
    BY <1>1, <1>2, <1>5, <2>1 DEF CallbackInv
<1> QED
  BY <1>3, <1>4, <1>5, <1>6 DEF CallbackInv, CallbacksPlaced, Before

LEMMA CallbacksHold ==
    Spec /\ []AddsHaveRoom => [](IInv /\ (lost = 0 => WindowInv /\ CallbackInv))
<1> DEFINE W == IInv /\ (lost = 0 => WindowInv)
           C == lost = 0 => CallbackInv
<1>1. Init => C
  <2> SUFFICES ASSUME Init PROVE CallbackInv
    OBVIOUS
  <2>1. todo # Tail(AreasToRead)
    BY TodoSteps DEF Init
  <2> QED
    BY <2>1 DEF Init, ThreadsInit, CallbackInv, CallbacksPlaced, NullRequest
<1>2. ASSUME W, C, AddsHaveRoom, [Next]_vars
      PROVE  C'
  <2> SUFFICES ASSUME lost' = 0 PROVE CallbackInv'
    OBVIOUS
  <2>1. lost = 0
    BY <1>2, LostGrows DEF IInv, PlaceInv
  <2>2. CASE UNCHANGED vars
    BY <1>2, <2>1, <2>2 DEF vars, threadVars, ringVars, addVars, runVars, smVars, penVars,
                            CallbackInv, CallbacksPlaced
  <2> QED
    BY <1>2, <2>1, <2>2, AddCallbacks, RunCallbacks DEF Next
<1>3. W /\ C => IInv /\ (lost = 0 => WindowInv /\ CallbackInv)
  OBVIOUS
<1>4. Spec => []W
  BY WindowHolds
<1> HIDE DEF W, C
<1> QED
  BY <1>1, <1>2, <1>3, <1>4, PTL DEF Spec

(***************************************************************************)
(* CallbackOfControl: if smActionControl finds room for what it adds,      *)
(* CallbackCompControl is run by the answer to no request but its own,     *)
(* until an update of field_used is lost, also when the request was        *)
(* fetched before the callback was attached to its slot.                   *)
(***************************************************************************)
THEOREM CallbackStaysWithControl == Spec /\ []AddsHaveRoom => []CallbackOfControl
<1>1. IInv /\ (lost = 0 => WindowInv /\ CallbackInv) => CallbackOfControl
  BY DEF CallbackInv, CallbacksPlaced, CallbackOfControl, NoneLost
<1> QED
  BY <1>1, CallbacksHold, PTL

(***************************************************************************)
(* TypeOK: whatever the two threads overwrite, the count and the indices   *)
(* of both lists stay within them.                                         *)
(***************************************************************************)
THEOREM TypeCorrect == Spec => []TypeOK
<1>1. IInv => TypeOK
  BY DEF IInv
<1> QED
  BY <1>1, Inductive, PTL

-----------------------------------------------------------------------------
(***************************************************************************)
(* Room in the list.  A request is work for Run until it is placed in the  *)
(* pending list, and a callback is work until its answer has come: it may  *)
(* add a command.  Late answers keep the callbacks of as many requests as  *)
(* the pending list has slots, so Run never ends all work.                 *)
(***************************************************************************)
Requests == used + (IF run_pc = "fetched" THEN 1 ELSE 0)

\* A slot just written may still hold the callback of its last request.
ListedCallbacks ==
    {i \in ListedSlots : slot[i].cb # CallBackNull /\ ~(add_pc = "callback" /\ i = head)}

FetchedCallback ==
    IF fetched.cb # CallBackNull /\ run_pc \in {"empty", "tail", "count", "store", "fetched"}
    THEN 1 ELSE 0

OpenCallbacks == {i \in PenSlots : pend[i].open /\ pend[i].cb # CallBackNull}

Work == Requests + Cardinality(ListedCallbacks) + FetchedCallback + Cardinality(OpenCallbacks)

\* What smActionControl will still add, and attach.
AddsIn(t) == IF Len(t) = 5 THEN 3 ELSE IF Len(t) >= 3 THEN 2 ELSE IF Len(t) = 2 THEN 1 ELSE 0

AttachesIn(t) == IF Len(t) >= 4 THEN 1 ELSE 0

StillToAdd ==
    AddsIn(todo) + (IF add_pc \in {"probe", "status", "callback", "count", "store"} THEN 1 ELSE 0)

StillToAttach == AttachesIn(todo)

LEMMA CardSteps ==
    ASSUME NEW T, IsFiniteSet(T), NEW S
    PROVE  /\ Cardinality(T) \in Nat
           /\ S \subseteq T => Cardinality(S) \in Nat /\ Cardinality(S) <= Cardinality(T)
           /\ \A x : S \subseteq T \cup {x} =>
                  Cardinality(S) \in Nat /\ Cardinality(S) <= Cardinality(T) + 1
           /\ \A x \in T : S \subseteq T \ {x} =>
                  Cardinality(S) \in Nat /\ Cardinality(S) <= Cardinality(T) - 1
<1>1. Cardinality(T) \in Nat
  BY FS_CardinalityType
<1>2. ASSUME NEW U, IsFiniteSet(U), S \subseteq U
      PROVE  Cardinality(S) \in Nat /\ Cardinality(U) \in Nat /\ Cardinality(S) <= Cardinality(U)
  BY <1>2, FS_CardinalityType, FS_Subset
<1>3. ASSUME NEW x
      PROVE  IsFiniteSet(T \cup {x}) /\ Cardinality(T \cup {x}) <= Cardinality(T) + 1
  <2>1. /\ IsFiniteSet(T \cup {x})
        /\ Cardinality(T \cup {x}) = IF x \in T THEN Cardinality(T) ELSE Cardinality(T) + 1
    BY FS_AddElement, Zenon
  <2> QED
    BY <1>1, <2>1
<1>4. ASSUME NEW x \in T
      PROVE  IsFiniteSet(T \ {x}) /\ Cardinality(T \ {x}) = Cardinality(T) - 1
  BY <1>1, FS_RemoveElement
<1>5. S \subseteq T => Cardinality(S) \in Nat /\ Cardinality(S) <= Cardinality(T)
  BY <1>2
<1>6. ASSUME NEW x, S \subseteq T \cup {x}
      PROVE  Cardinality(S) \in Nat /\ Cardinality(S) <= Cardinality(T) + 1
  <2>1. IsFiniteSet(T \cup {x})
    BY <1>3
  <2>2. Cardinality(S) \in Nat /\ Cardinality(S) <= Cardinality(T \cup {x})
    BY <1>2, <1>6, <2>1
  <2>3. Cardinality(T \cup {x}) \in Nat
    BY <2>1, FS_CardinalityType
  <2> QED
    BY <1>1, <1>3, <2>2, <2>3
<1>7. ASSUME NEW x \in T, S \subseteq T \ {x}
      PROVE  Cardinality(S) \in Nat /\ Cardinality(S) <= Cardinality(T) - 1
  <2>1. IsFiniteSet(T \ {x})
    BY <1>4
  <2>2. Cardinality(S) \in Nat /\ Cardinality(S) <= Cardinality(T \ {x})
    BY <1>2, <1>7, <2>1
  <2>3. Cardinality(T \ {x}) \in Nat
    BY <2>1, FS_CardinalityType
  <2> QED
    BY <1>1, <1>4, <2>2, <2>3
<1> QED
  BY <1>1, <1>5, <1>6, <1>7

LEMMA CallbackSets ==
    /\ \A S \in SUBSET Slots : IsFiniteSet(S)
    /\ \A S \in SUBSET PenSlots : /\ IsFiniteSet(S)
                                  /\ Cardinality(S) \in Nat /\ Cardinality(S) <= PenLen
<1>1. IsFiniteSet(Slots) /\ IsFiniteSet(PenSlots) /\ Cardinality(PenSlots) = PenLen
  BY FS_Interval DEF Slots, PenSlots
<1> QED
  BY <1>1, FS_Subset, FS_CardinalityType

LEMMA TodoWeights ==
    /\ AddsIn(AreasToRead) = 3 /\ AttachesIn(AreasToRead) = 1 /\ AreasToRead # <<>>
    /\ AddsIn(<<>>) = 0 /\ AttachesIn(<<>>) = 0
    /\ \A t \in Todos :
          /\ AddsIn(t) \in 0 .. 3 /\ AttachesIn(t) \in 0 .. 1
          /\ t # <<>> =>
                /\ Head(t) \in Bodies =>
                      /\ AddsIn(Tail(t)) = AddsIn(t) - 1 /\ AttachesIn(Tail(t)) = AttachesIn(t)
                      /\ Tail(t) # <<>>
                /\ Head(t) \in Callbacks =>
                      /\ AddsIn(Tail(t)) = AddsIn(t) /\ AttachesIn(Tail(t)) = AttachesIn(t) - 1
                      /\ Tail(t) # <<>>
                /\ Head(t) = "NEXT" => Tail(t) = <<>> /\ AddsIn(t) = 0 /\ AttachesIn(t) = 0
BY DEF Todos, AreasToRead, AddsIn, AttachesIn

LEMMA WorkType ==
    ASSUME IInv
    PROVE  /\ ListedCallbacks \in SUBSET Slots /\ IsFiniteSet(ListedCallbacks)
           /\ OpenCallbacks \in SUBSET PenSlots /\ IsFiniteSet(OpenCallbacks)
           /\ Cardinality(ListedCallbacks) \in Nat
           /\ Cardinality(OpenCallbacks) \in 0 .. PenLen
           /\ FetchedCallback \in 0 .. 1 /\ Requests \in Nat /\ Work \in Nat
           /\ StillToAdd \in Nat /\ StillToAttach \in 0 .. 1
<1>1. ListedCallbacks \in SUBSET Slots /\ OpenCallbacks \in SUBSET PenSlots
  BY DEF ListedCallbacks, ListedSlots, OpenCallbacks
<1>2. /\ IsFiniteSet(ListedCallbacks) /\ IsFiniteSet(OpenCallbacks)
      /\ Cardinality(OpenCallbacks) \in 0 .. PenLen
  BY <1>1, CallbackSets
<1>3. Cardinality(ListedCallbacks) \in Nat
  BY <1>2, FS_CardinalityType
<1>4. FetchedCallback \in 0 .. 1 /\ Requests \in Nat
  BY TypesOfSlots DEF FetchedCallback, Requests
<1>5. todo \in Todos
  BY DEF IInv, PlaceInv
<1>6. StillToAdd \in Nat /\ StillToAttach \in 0 .. 1
  BY <1>5, TodoWeights DEF StillToAdd, StillToAttach
<1> QED
  BY <1>1, <1>2, <1>3, <1>4, <1>6 DEF Work

\* The callbacks in the list, as the thread that adds changes it.
LEMMA AddListed ==
    ASSUME IInv, ThreadCompRequest
    PROVE  /\ ~AttachCallback => ListedCallbacks' \subseteq ListedCallbacks
           /\ AttachCallback => \E x : ListedCallbacks' \subseteq ListedCallbacks \cup {x}
<1> USE DEF ringVars, addVars, runVars, threadVars, smVars, penVars
<1>1. /\ UNCHANGED <<tail, run_pc>>
      /\ slot \in [Slots -> RingSlot] /\ head \in Slots /\ tail \in Slots
  <2>1. UNCHANGED <<tail, run_pc>>
    BY DEF ThreadCompRequest, ActionStarts, ActionStays, AddArea, AttachCallback, AddSteps,
           ActionEnds, Wait, Handle, EnqueueSteps, Probe, SetFull, ResetCallback,
           LoadToCountUp, CountUp, AdvanceHead, BeginAdd, CallbackAdd, Adding
  <2> QED
    BY <2>1, TypesOfSlots
\* What changes no status and no callback in the list.
<1>2. ASSUME \A i \in Slots : /\ slot'[i].status = slot[i].status
                              /\ slot'[i].cb = slot[i].cb \/ slot'[i].cb = CallBackNull,
             add_pc' # "callback" /\ (add_pc = "callback" => slot'[head].cb = CallBackNull)
      PROVE  ListedCallbacks' \subseteq ListedCallbacks
  BY <1>1, <1>2 DEF ListedCallbacks, ListedSlots
<1>3. CASE AddSteps
  <2>1. CASE Probe
    <3>1. \A i \in Slots : slot'[i].status = slot[i].status /\ slot'[i].cb = slot[i].cb
      <4>1. [slot[head] EXCEPT !.body = add_body].status = slot[head].status
            /\ [slot[head] EXCEPT !.body = add_body].cb = slot[head].cb
        BY <1>1 DEF RingSlot
      <4>2. slot' = slot \/ slot' = [slot EXCEPT ![head] = [slot[head] EXCEPT !.body = add_body]]
        BY <2>1 DEF Probe
      <4> QED
        BY <1>1, <4>1, <4>2
    <3>2. add_pc' # "callback" /\ add_pc # "callback"
      BY <2>1 DEF Probe, Adding
    <3> QED
      BY <1>2, <2>1, <3>1, <3>2 DEF Probe, Adding, AttachCallback, CallbackAdd
  <2>2. CASE SetFull
    <3>1. /\ \A i \in Slots \ {head} : slot'[i] = slot[i]
          /\ head' = head /\ add_pc' = "callback" /\ add_pc = "status"
      BY <1>1, <2>2 DEF SetFull, Adding
    <3>2. ListedCallbacks' \subseteq ListedCallbacks
      BY <1>1, <3>1 DEF ListedCallbacks, ListedSlots
    <3> QED
      BY <3>1, <3>2 DEF AttachCallback, CallbackAdd, Adding
  <2>3. CASE ResetCallback
    <3> DEFINE n == [slot[head] EXCEPT !.cb = CallBackNull]
    <3>1. n.status = slot[head].status /\ n.cb = CallBackNull
      BY <1>1 DEF RingSlot
    <3>2. slot' = [slot EXCEPT ![head] = n]
      BY <2>3 DEF ResetCallback
    <3> HIDE DEF n
    <3>3. \A i \in Slots : /\ slot'[i].status = slot[i].status
                           /\ slot'[i].cb = slot[i].cb \/ slot'[i].cb = CallBackNull
      BY <1>1, <3>1, <3>2
    <3>4. slot'[head].cb = CallBackNull /\ add_pc' = "count" /\ add_pc = "callback"
      BY <1>1, <2>3, <3>1, <3>2 DEF ResetCallback, Adding
    <3> QED
      BY <1>2, <3>3, <3>4 DEF AttachCallback, CallbackAdd, Adding
  <2>4. CASE LoadToCountUp \/ CountUp \/ AdvanceHead
    <3>1. /\ slot' = slot /\ add_pc \in {"count", "store", "head"}
          /\ add_pc' \in {"store", "head", "idle"}
      BY <2>4 DEF LoadToCountUp, CountUp, AdvanceHead, Adding
    <3> QED
      BY <1>2, <3>1 DEF AttachCallback, CallbackAdd, Adding
  <2> QED
    BY <1>3, <2>1, <2>2, <2>3, <2>4 DEF AddSteps, EnqueueSteps
<1>4. CASE AttachCallback
  <2> DEFINE i == IF head = 0 THEN QueueLen - 1 ELSE head - 1
  <2>1. PICK cb \in Callbacks : CallbackAdd(cb)
    BY <1>4 DEF AttachCallback
  <2>2. i \in Slots
    BY <1>1 DEF Slots
  <2>3. /\ slot' = [slot EXCEPT ![i] = [slot[i] EXCEPT !.cb = cb]]
        /\ UNCHANGED head /\ add_pc' = add_pc
    BY <2>1 DEF CallbackAdd, Adding
  <2> HIDE DEF i
  <2>4. \A j \in Slots \ {i} : slot'[j] = slot[j]
    BY <1>1, <2>2, <2>3
  <2>5. ListedCallbacks' \subseteq ListedCallbacks \cup {i}
    BY <1>1, <2>3, <2>4 DEF ListedCallbacks, ListedSlots
  <2> QED
    BY <1>4, <2>5
<1>5. CASE AddArea
  <2>1. slot' = slot /\ add_pc = "idle" /\ add_pc' # "callback"
    BY <1>5 DEF AddArea, BeginAdd, Adding
  <2>2. ListedCallbacks' \subseteq ListedCallbacks
    BY <1>2, <2>1
  <2>3. AttachCallback => \E x : ListedCallbacks' \subseteq ListedCallbacks \cup {x}
    BY <1>4
  <2> QED
    BY <2>2, <2>3
<1>6. CASE ActionStarts \/ ActionStays \/ ActionEnds \/ Wait \/ Handle
  <2>1. UNCHANGED <<slot, head, add_pc>>
    BY <1>6 DEF ActionStarts, ActionStays, ActionEnds, Wait, Handle
  <2>2. ListedCallbacks' = ListedCallbacks
    BY <1>1, <2>1 DEF ListedCallbacks, ListedSlots
  <2>3. AttachCallback => \E x : ListedCallbacks' \subseteq ListedCallbacks \cup {x}
    BY <1>4
  <2> QED
    BY <2>2, <2>3
<1> QED
  BY <1>3, <1>4, <1>5, <1>6 DEF ThreadCompRequest

\* What the thread that adds leaves alone.
LEMMA AddKeeps ==
    ASSUME ThreadCompRequest
    PROVE  UNCHANGED <<tail, runVars, penVars>>
BY DEF ThreadCompRequest, ActionStarts, ActionStays, AddArea, AttachCallback, AddSteps,
       ActionEnds, Wait, Handle, EnqueueSteps, Probe, SetFull, ResetCallback,
       LoadToCountUp, CountUp, AdvanceHead, BeginAdd, CallbackAdd, Adding, threadVars, ringVars,
       addVars, runVars, penVars

(***************************************************************************)
(* The thread that adds: what a round adds to the work is what is still to *)
(* be added and attached when it starts.                                   *)
(***************************************************************************)
LEMMA AddWork ==
    ASSUME lost = 0, lost' = 0, IInv, IInv', WindowInv, ThreadCompRequest
    PROVE  /\ ActionStarts =>
                 /\ Work' = Work /\ Requests' = Requests /\ pen_used = 0
                 /\ todo' # <<>> /\ StillToAdd' = 3 /\ StillToAttach' = 1
           /\ ~ActionStarts =>
                 /\ Work' + StillToAdd' + StillToAttach' <= Work + StillToAdd + StillToAttach
                 /\ Requests' + StillToAdd' <= Requests + StillToAdd
                 /\ todo' # <<>> => todo # <<>>
<1> USE DEF ringVars, addVars, runVars, threadVars, smVars, penVars
<1> DEFINE L == Cardinality(ListedCallbacks)
           O == Cardinality(OpenCallbacks)
           A == IF add_pc \in {"probe", "status", "callback", "count", "store"} THEN 1 ELSE 0
<1>1. /\ UNCHANGED <<run_pc, fetched, pend, pen_used>>
      /\ O' = O /\ FetchedCallback' = FetchedCallback
      /\ \E x \in 0 .. 1 : Requests = used + x /\ Requests' = used' + x
  <2>1. UNCHANGED <<run_pc, fetched, pend, pen_used>>
    BY AddKeeps
  <2>2. used \in Nat /\ \E u \in Nat : used' = u
    BY TypesOfSlots DEF IInv, TypeOK
  <2>3. O' = O /\ FetchedCallback' = FetchedCallback
    BY <2>1 DEF OpenCallbacks, FetchedCallback
  <2> DEFINE X == IF run_pc = "fetched" THEN 1 ELSE 0
  <2>4. X \in 0 .. 1 /\ X' = X /\ Requests = used + X /\ Requests' = used' + X'
    BY <2>1 DEF Requests
  <2> HIDE DEF X
  <2>5. \E x \in 0 .. 1 : Requests = used + x /\ Requests' = used' + x
    BY <2>4
  <2> HIDE DEF O
  <2> QED
    BY <2>1, <2>3, <2>5
<1>2. /\ used \in Nat /\ \E u \in Nat : used' = u
      /\ todo \in Todos /\ todo' \in Todos
      /\ CountUp => add_count = used
  <2>1. used \in Nat /\ \E u \in Nat : used' = u
    BY TypesOfSlots DEF IInv, TypeOK
  <2>2. CountUp => add_count = used
    BY DEF CountUp
  <2> QED
    BY <2>1, <2>2 DEF IInv, PlaceInv
<1>9. /\ L \in Nat /\ O \in Nat /\ FetchedCallback \in Nat /\ Requests \in Nat
      /\ Work = Requests + L + FetchedCallback + O
      /\ Work' = Requests' + L' + FetchedCallback' + O'
  BY WorkType DEF Work
<1>3. /\ ~AttachCallback => \E l \in Nat : L' = l /\ l <= L
      /\ AttachCallback => \E l \in Nat : L' = l /\ l <= L + 1
  <2>1. IsFiniteSet(ListedCallbacks)
    BY WorkType
  <2> QED
    BY <2>1, AddListed, CardSteps
<1>4. /\ StillToAdd = AddsIn(todo) + A /\ StillToAdd' = AddsIn(todo') + A'
      /\ StillToAttach = AttachesIn(todo) /\ StillToAttach' = AttachesIn(todo')
      /\ AddsIn(todo) \in 0 .. 3 /\ AttachesIn(todo) \in 0 .. 1
      /\ \E x \in Nat : AddsIn(todo') = x
      /\ \E x \in Nat : AttachesIn(todo') = x
      /\ A \in 0 .. 1 /\ \E x \in 0 .. 1 : A' = x
  BY <1>2, TodoWeights DEF StillToAdd, StillToAttach
<1>5. CASE ActionStarts
  <2>1. /\ UNCHANGED <<used, slot, head, tail, add_pc>> /\ todo' = AreasToRead
        /\ add_pc = "idle" /\ pen_used = 0
    BY <1>5 DEF ActionStarts, NextSecond, Resting, ReqListItemCount
  <2>2. ListedCallbacks' = ListedCallbacks
    BY <1>1, <2>1 DEF ListedCallbacks, ListedSlots
  <2>3. A' = 0
    BY <2>1
  <2>4. L' = L
    BY <2>2
  <2>5. Requests' = Requests
    BY <1>1, <2>1 DEF Requests
  <2> HIDE DEF L, O, A
  <2> QED
    BY <1>1, <1>2, <1>4, <1>5, <1>9, <2>1, <2>3, <2>4, <2>5, TodoWeights
<1>6. ASSUME ~ActionStarts
      PROVE  /\ AttachCallback => /\ used' = used /\ A' = A /\ AddsIn(todo') = AddsIn(todo)
                                  /\ AttachesIn(todo') = AttachesIn(todo) - 1 /\ todo # <<>>
             /\ ~AttachCallback =>
                   /\ used' + A' + AddsIn(todo') <= used + A + AddsIn(todo)
                   /\ AttachesIn(todo') <= AttachesIn(todo)
                   /\ todo' # <<>> => todo # <<>>
  <2>1. CASE AttachCallback
    <3>1. /\ todo # <<>> /\ todo' = Tail(todo) /\ Head(todo) \in Callbacks
          /\ used' = used /\ add_pc' = add_pc
      BY <2>1 DEF AttachCallback, NextCall, CallbackAdd, Adding
    <3>2. A' = A
      BY <3>1
    <3> QED
      BY <1>2, <2>1, <3>1, <3>2, TodoWeights
  <2>2. CASE AddArea
    <3>1. /\ todo # <<>> /\ todo' = Tail(todo) /\ Head(todo) \in Bodies
          /\ used' = used /\ add_pc = "idle"
      BY <2>2 DEF AddArea, NextCall, BeginAdd, Adding
    <3>2. A = 0 /\ AddsIn(todo') = AddsIn(todo) - 1 /\ AttachesIn(todo') = AttachesIn(todo)
      BY <1>2, <3>1, TodoWeights
    <3>3. ~AttachCallback
      BY <3>1 DEF AttachCallback
    <3> HIDE DEF A
    <3> QED
      BY <1>2, <1>4, <3>1, <3>2, <3>3
  <2>3. CASE AddSteps /\ ~CountUp
    <3>1. /\ todo' = todo /\ used' = used /\ A' <= A
      BY <2>3, <1>4 DEF AddSteps, EnqueueSteps, Probe, SetFull, ResetCallback, LoadToCountUp,
                  AdvanceHead, Adding
    <3>2. ~AttachCallback
      BY <2>3 DEF AddSteps, EnqueueSteps, Probe, SetFull, ResetCallback, LoadToCountUp,
                  AdvanceHead, Adding, AttachCallback, CallbackAdd
    <3> HIDE DEF A
    <3> QED
      BY <1>2, <1>4, <3>1, <3>2
  <2>4. CASE AddSteps /\ CountUp
    <3>1. /\ todo' = todo /\ used' = used + 1 /\ A' = 0 /\ A = 1
      BY <1>2, <2>4 DEF AddSteps, CountUp, Adding
    <3>2. ~AttachCallback
      BY <2>4 DEF CountUp, Adding, AttachCallback, CallbackAdd
    <3> HIDE DEF A
    <3> QED
      BY <1>2, <1>4, <3>1, <3>2
  <2>5. CASE ActionStays \/ Wait \/ Handle
    <3>1. UNCHANGED <<todo, used, add_pc>> /\ todo = <<>>
      BY <2>5 DEF ActionStays, Wait, Handle, NextSecond, Resting
    <3>2. A' = A /\ ~AttachCallback
      BY <3>1 DEF AttachCallback, NextCall
    <3> HIDE DEF A
    <3> QED
      BY <1>2, <1>4, <3>1, <3>2
  <2>6. CASE ActionEnds
    <3>1. /\ UNCHANGED <<used, add_pc>> /\ todo # <<>> /\ todo' = Tail(todo)
          /\ Head(todo) = "NEXT"
      BY <2>6 DEF ActionEnds, NextCall
    <3>2. A' = A /\ ~AttachCallback
      BY <3>1 DEF AttachCallback
    <3>3. /\ AddsIn(todo) = 0 /\ AttachesIn(todo) = 0
          /\ AddsIn(todo') = 0 /\ AttachesIn(todo') = 0
      BY <1>2, <3>1, TodoWeights
    <3> HIDE DEF A
    <3> QED
      BY <1>2, <1>4, <3>1, <3>2, <3>3
  <2> QED
    BY <1>6, <2>1, <2>2, <2>3, <2>4, <2>5, <2>6 DEF ThreadCompRequest
<1> HIDE DEF L, O, A
<1>7. ASSUME ~ActionStarts, AttachCallback
      PROVE  /\ Work' + StillToAdd' + StillToAttach' <= Work + StillToAdd + StillToAttach
             /\ Requests' + StillToAdd' <= Requests + StillToAdd
  <2>1. PICK u \in Nat : used' = u
    BY <1>2
  <2>2. PICK a \in 0 .. 1 : A' = a
    BY <1>4
  <2>3. PICK d \in Nat : AddsIn(todo') = d
    BY <1>4
  <2>4. PICK c \in Nat : AttachesIn(todo') = c
    BY <1>4
  <2>5. PICK l \in Nat : L' = l /\ l <= L + 1
    BY <1>3, <1>7
  <2>6. PICK x \in 0 .. 1 : Requests = used + x /\ Requests' = used' + x
    BY <1>1
  <2>7. /\ Requests' = u + x /\ Work' = u + x + l + FetchedCallback + O
        /\ StillToAdd' = d + a /\ StillToAttach' = c
    BY <1>1, <1>4, <1>9, <2>1, <2>2, <2>3, <2>4, <2>5, <2>6
  <2>8. u = used /\ a = A /\ d = AddsIn(todo) /\ c = AttachesIn(todo) - 1
    BY <1>6, <1>7, <2>1, <2>2, <2>3, <2>4
  <2> QED
    BY <1>2, <1>4, <1>9, <2>5, <2>6, <2>7, <2>8
<1>8. ASSUME ~ActionStarts, ~AttachCallback
      PROVE  /\ Work' + StillToAdd' + StillToAttach' <= Work + StillToAdd + StillToAttach
             /\ Requests' + StillToAdd' <= Requests + StillToAdd
  <2>1. PICK u \in Nat : used' = u
    BY <1>2
  <2>2. PICK a \in 0 .. 1 : A' = a
    BY <1>4
  <2>3. PICK d \in Nat : AddsIn(todo') = d
    BY <1>4
  <2>4. PICK c \in Nat : AttachesIn(todo') = c
    BY <1>4
  <2>5. PICK l \in Nat : L' = l /\ l <= L
    BY <1>3, <1>8
  <2>6. PICK x \in 0 .. 1 : Requests = used + x /\ Requests' = used' + x
    BY <1>1
  <2>7. /\ Requests' = u + x /\ Work' = u + x + l + FetchedCallback + O
        /\ StillToAdd' = d + a /\ StillToAttach' = c
    BY <1>1, <1>4, <1>9, <2>1, <2>2, <2>3, <2>4, <2>5, <2>6
  <2>8. u + a + d <= used + A + AddsIn(todo) /\ c <= AttachesIn(todo)
    BY <1>6, <1>8, <2>1, <2>2, <2>3, <2>4
  <2> QED
    BY <1>2, <1>4, <1>9, <2>5, <2>6, <2>7, <2>8
<1> QED
  BY <1>5, <1>6, <1>7, <1>8

\* The slot that is written next to the callback is not the one that is copied.
LEMMA CopiedNotWritten ==
    ASSUME IInv, WindowInv, run_pc = "copy", add_pc = "callback"
    PROVE  head # tail
<1>1. head \in Slots /\ tail \in Slots /\ used \in 1 .. QueueLen - 1
  BY TypesOfSlots DEF WindowInv, IInv, PlaceInv
<1>2. First = tail /\ Length = used + 1 /\ Beyond = Wrap(head + 1)
  BY TypesOfSlots DEF First, Length, Uncounted, StillCounted, Beyond
<1>3. Wrap(head + 1) = Wrap(tail + (used + 1))
  BY <1>2 DEF WindowInv
<1> QED
  BY <1>1, <1>3 DEF Wrap, Slots

\* The callbacks in the list, as the thread that calls Run changes it.
LEMMA RunListed ==
    ASSUME IInv, WindowInv, ThreadModbus
    PROVE  /\ ListedCallbacks' \subseteq ListedCallbacks
           /\ CopyRequest => /\ ListedCallbacks' \subseteq ListedCallbacks \ {tail}
                             /\ slot[tail].cb # CallBackNull => tail \in ListedCallbacks
<1> USE DEF ringVars, addVars, runVars, threadVars, smVars, penVars, Running, Fetching
<1>1. slot \in [Slots -> RingSlot] /\ head \in Slots /\ tail \in Slots
  BY TypesOfSlots
<1>2. CASE FetchSteps
  <2>1. CASE CopyRequest
    <3>1. UNCHANGED <<slot, head, tail, add_pc>> /\ run_pc = "copy" /\ run_pc' = "empty"
      BY <2>1 DEF CopyRequest
    <3>2. ListedCallbacks' \subseteq ListedCallbacks \ {tail}
      BY <3>1 DEF ListedCallbacks, ListedSlots
    <3>3. slot[tail].status = "QUEUE_FULL"
      <4>1. First = tail /\ Length > 0
        BY <3>1, TypesOfSlots DEF First, Length, Uncounted, StillCounted, WindowInv
      <4>2. Distance(tail, tail) = 0
        BY <1>1 DEF Distance, Slots
      <4> QED
        BY <1>1, <4>1, <4>2 DEF WindowInv
    <3>4. slot[tail].cb # CallBackNull => tail \in ListedCallbacks
      BY <1>1, <3>1, <3>3, CopiedNotWritten DEF ListedCallbacks, ListedSlots
    <3> QED
      BY <3>2, <3>4
  <2>2. CASE SetEmpty
    <3> DEFINE n == [slot[tail] EXCEPT !.status = "QUEUE_EMPTY"]
    <3>1. n.status = "QUEUE_EMPTY" /\ n.cb = slot[tail].cb
      BY <1>1 DEF RingSlot
    <3>2. /\ slot' = [slot EXCEPT ![tail] = n] /\ UNCHANGED <<head, tail, add_pc>>
          /\ run_pc = "empty" /\ run_pc' = "tail"
      BY <2>2 DEF SetEmpty
    <3> HIDE DEF n
    <3>3. /\ slot'[tail].status # "QUEUE_FULL" /\ \A i \in Slots \ {tail} : slot'[i] = slot[i]
      BY <1>1, <3>1, <3>2
    <3> QED
      BY <3>2, <3>3 DEF ListedCallbacks, ListedSlots, CopyRequest
  <2>3. CASE BeginFetch \/ CheckTail \/ AdvanceTail \/ LoadToCountDown \/ CountDown
    <3>1. UNCHANGED <<slot, head, add_pc>> /\ run_pc # "empty" /\ run_pc' # "empty"
      BY <2>3 DEF BeginFetch, CheckTail, AdvanceTail, LoadToCountDown, CountDown
    <3> QED
      BY <3>1 DEF ListedCallbacks, ListedSlots, CopyRequest
  <2> QED
    BY <1>2, <2>1, <2>2, <2>3 DEF FetchSteps, DequeueSteps
<1>3. CASE \E i \in PenSlots : ReceiveAnswer(i)
  <2> DEFINE s == [status |-> "QUEUE_FULL", body |-> "command", cb |-> CallBackNull]
  <2>1. /\ AddCommand /\ UNCHANGED add_pc
        /\ run_pc = "receive" /\ run_pc' = "timeout"
    BY <1>3 DEF ReceiveAnswer, AddCommand
  <2>2. \/ UNCHANGED ringVars
        \/ add_pc = "idle" /\ slot' = [slot EXCEPT ![head] = s] /\ UNCHANGED tail
    BY <2>1 DEF AddCommand, Resting
  <2>3. s.cb = CallBackNull
    OBVIOUS
  <2> HIDE DEF s
  <2>4. \/ UNCHANGED <<slot, head, tail>>
        \/ /\ add_pc = "idle" /\ slot'[head].cb = CallBackNull
           /\ \A i \in Slots \ {head} : slot'[i] = slot[i]
    BY <1>1, <2>2, <2>3
  <2> QED
    BY <2>1, <2>4 DEF ListedCallbacks, ListedSlots, CopyRequest
<1>4. CASE NoRequest \/ PlaceRequest \/ ReceiveNothing \/ KeepWaiting \/ GiveUp
  <2>1. /\ UNCHANGED <<slot, head, tail, add_pc>>
        /\ run_pc # "empty" /\ run_pc # "copy" /\ run_pc' # "empty"
    BY <1>4 DEF NoRequest, PlaceRequest, ReceiveNothing, KeepWaiting, GiveUp, FinishRun
  <2> QED
    BY <2>1 DEF ListedCallbacks, ListedSlots, CopyRequest
<1> QED
  BY <1>2, <1>3, <1>4 DEF ThreadModbus

\* The slots whose answer may still come.
LEMMA OpenSteps ==
    ASSUME IInv, ThreadModbus
    PROVE  /\ FetchSteps \/ NoRequest \/ ReceiveNothing \/ KeepWaiting \/ GiveUp =>
                 OpenCallbacks' = OpenCallbacks
           /\ PlaceRequest =>
                 /\ OpenCallbacks' \subseteq OpenCallbacks \cup {PlaceOfNewRequest}
                 /\ fetched.cb = CallBackNull => OpenCallbacks' \subseteq OpenCallbacks
           /\ \A i \in PenSlots : ReceiveAnswer(i) =>
                 /\ OpenCallbacks' \subseteq OpenCallbacks \ {i}
                 /\ pend[i].cb # CallBackNull => i \in OpenCallbacks
<1> USE DEF penVars, smVars, Running
<1>1. pend \in [PenSlots -> PenSlot] /\ i_pending \in PenSlots
  BY TypesOfSlots
<1>2. ASSUME FetchSteps \/ NoRequest \/ ReceiveNothing
      PROVE  OpenCallbacks' = OpenCallbacks
  BY <1>2 DEF FetchSteps, NoRequest, ReceiveNothing, OpenCallbacks
<1>3. \A i \in PenSlots : Ticked[i].open = pend[i].open /\ Ticked[i].cb = pend[i].cb
                          /\ Ticked[i] \in PenSlot
  <2>1. ASSUME NEW s \in PenSlot
        PROVE  LET n == [s EXCEPT !.timer = @ + 1] IN n.open = s.open /\ n.cb = s.cb
    BY DEF PenSlot
  <2>2. \A i \in PenSlots : Ticked[i] \in {pend[i], [pend[i] EXCEPT !.timer = @ + 1]}
    BY DEF Ticked
  <2>3. \A i \in PenSlots : Ticked[i].open = pend[i].open /\ Ticked[i].cb = pend[i].cb
    BY <1>1, <2>1, <2>2
  <2> QED
    BY <2>3, TickedType
<1>4. ASSUME KeepWaiting
      PROVE  OpenCallbacks' = OpenCallbacks
  <2>1. pend' = Ticked
    BY <1>4 DEF KeepWaiting
  <2> QED
    BY <1>3, <2>1 DEF OpenCallbacks
<1>5. ASSUME GiveUp
      PROVE  OpenCallbacks' = OpenCallbacks
  <2> DEFINE n == [Ticked[i_pending] EXCEPT !.timer = 0, !.status = "FREE"]
  <2>1. n.open = Ticked[i_pending].open /\ n.cb = Ticked[i_pending].cb
    BY <1>1, <1>3 DEF PenSlot
  <2>2. pend' = [Ticked EXCEPT ![i_pending] = n]
    BY <1>5 DEF GiveUp
  <2> HIDE DEF n
  <2>3. \A i \in PenSlots : pend'[i].open = pend[i].open /\ pend'[i].cb = pend[i].cb
    BY <1>1, <1>3, <2>1, <2>2, TickedType
  <2> QED
    BY <2>3 DEF OpenCallbacks
<1>6. ASSUME PlaceRequest
      PROVE  /\ OpenCallbacks' \subseteq OpenCallbacks \cup {PlaceOfNewRequest}
             /\ fetched.cb = CallBackNull => OpenCallbacks' \subseteq OpenCallbacks
  <2> DEFINE s == [status |-> "INUSE", body |-> fetched.body, cb |-> fetched.cb,
                   timer |-> 0, open |-> TRUE]
  <2>1. pend' = pend \/ pend' = [pend EXCEPT ![PlaceOfNewRequest] = s]
    BY <1>6 DEF PlaceRequest
  <2>2. s.cb = fetched.cb
    OBVIOUS
  <2> HIDE DEF s
  <2>3. pend' = pend \/ /\ pend'[PlaceOfNewRequest].cb = fetched.cb
                        /\ \A i \in PenSlots \ {PlaceOfNewRequest} : pend'[i] = pend[i]
    BY <1>1, <2>1, <2>2, PlaceIsSlot
  <2> QED
    BY <2>3 DEF OpenCallbacks
<1>7. ASSUME NEW i \in PenSlots, ReceiveAnswer(i)
      PROVE  /\ OpenCallbacks' \subseteq OpenCallbacks \ {i}
             /\ pend[i].cb # CallBackNull => i \in OpenCallbacks
  <2> DEFINE n == [pend[i] EXCEPT !.status = "FREE", !.open = FALSE]
  <2>1. n.open = FALSE
    BY <1>1 DEF PenSlot
  <2>2. pend' = [pend EXCEPT ![i] = n] /\ pend[i].open
    BY <1>7 DEF ReceiveAnswer
  <2> HIDE DEF n
  <2>3. /\ ~pend'[i].open
        /\ \A j \in PenSlots \ {i} : pend'[j] = pend[j]
    BY <1>1, <2>1, <2>2
  <2> QED
    BY <2>2, <2>3 DEF OpenCallbacks
<1> QED
  BY <1>2, <1>4, <1>5, <1>6, <1>7

\* What the thread that calls Run leaves alone.
LEMMA RunKeeps ==
    ASSUME ThreadModbus
    PROVE  /\ UNCHANGED <<add_pc, add_body, add_count, todo, sm_state, sm_wait>>
           /\ StillToAdd' = StillToAdd /\ StillToAttach' = StillToAttach
<1>1. UNCHANGED <<add_pc, add_body, add_count, todo, sm_state, sm_wait>>
  BY DEF ThreadModbus, NoRequest, FetchSteps, BeginFetch, DequeueSteps, CheckTail, CopyRequest,
         SetEmpty, AdvanceTail, LoadToCountDown, CountDown, PlaceRequest, ReceiveNothing,
         ReceiveAnswer, KeepWaiting, GiveUp, FinishRun, Running, Fetching, addVars, smVars
<1> QED
  BY <1>1 DEF StillToAdd, StillToAttach

\* The numbers that make up the work, after a step.
LEMMA WorkAfter ==
    ASSUME IInv'
    PROVE  /\ \E x \in Nat : Requests' = x
           /\ \E x \in Nat : Cardinality(ListedCallbacks)' = x
           /\ \E x \in Nat : Cardinality(OpenCallbacks)' = x
           /\ \E x \in 0 .. 1 : FetchedCallback' = x
           /\ \E x \in Nat : Work' = x
           /\ \E x \in Nat : StillToAdd' = x
           /\ \E x \in Nat : StillToAttach' = x
           /\ \E x \in 0 .. QueueLen : used' = x
           /\ \E x \in 0 .. PenLen : pen_used' = x
<1>1. /\ IsFiniteSet(ListedCallbacks') /\ IsFiniteSet(OpenCallbacks')
  BY CallbackSets DEF ListedCallbacks, ListedSlots, OpenCallbacks
<1>2. /\ \E x \in Nat : Cardinality(ListedCallbacks)' = x
      /\ \E x \in Nat : Cardinality(OpenCallbacks)' = x
  BY <1>1, FS_CardinalityType
<1>3. /\ \E x \in 0 .. QueueLen : used' = x
      /\ \E x \in 0 .. PenLen : pen_used' = x
      /\ todo' \in Todos
  BY DEF IInv, TypeOK, PlaceInv
<1>4. \E x \in 0 .. 1 : FetchedCallback' = x
  BY DEF FetchedCallback
<1>5. \E x \in Nat : Requests' = x
  <2>1. PICK u \in Nat : used' = u
    BY <1>3
  <2>2. Requests' = u \/ Requests' = u + 1
    BY <2>1 DEF Requests
  <2> QED
    BY <2>2
<1>6. \E x \in Nat : Work' = x
  <2>1. PICK r \in Nat : Requests' = r
    BY <1>5
  <2>2. PICK l \in Nat : Cardinality(ListedCallbacks)' = l
    BY <1>2
  <2>3. PICK o \in Nat : Cardinality(OpenCallbacks)' = o
    BY <1>2
  <2>4. PICK f \in 0 .. 1 : FetchedCallback' = f
    BY <1>4
  <2>5. Work' = r + l + f + o
    BY <2>1, <2>2, <2>3, <2>4 DEF Work
  <2> QED
    BY <2>5
<1>7. (\E x \in Nat : StillToAdd' = x) /\ (\E x \in Nat : StillToAttach' = x)
  <2>1. PICK x \in 0 .. 3 : AddsIn(todo)' = x
    BY <1>3, TodoWeights
  <2>2. StillToAdd' = x \/ StillToAdd' = x + 1
    BY <2>1 DEF StillToAdd
  <2>3. \E y \in Nat : AttachesIn(todo') = y
    BY <1>3, TodoWeights
  <2> QED
    BY <2>2, <2>3 DEF StillToAttach
<1> QED
  BY <1>2, <1>3, <1>4, <1>5, <1>6, <1>7

(***************************************************************************)
(* The thread that calls Run never adds work: a command it adds replaces   *)
(* the callback that adds it.  A request that is placed is work done.      *)
(***************************************************************************)
LEMMA RunWork ==
    ASSUME lost = 0, lost' = 0, IInv, IInv', WindowInv, ThreadModbus
    PROVE  /\ \E w \in Nat : Work' = w /\ w <= Work /\ (PlaceRequest => w <= Work - 1)
           /\ \E r \in Nat : Requests' = r /\ (todo # <<>> => r <= Requests)
<1> USE DEF ringVars, addVars, runVars, threadVars, smVars, penVars, Running, Fetching
<1> DEFINE L == Cardinality(ListedCallbacks)
           O == Cardinality(OpenCallbacks)
           F == FetchedCallback
           Pcs == {"empty", "tail", "count", "store", "fetched"}
<1>1. /\ L \in Nat /\ O \in Nat /\ F \in 0 .. 1 /\ Requests \in Nat
      /\ Work = Requests + L + F + O /\ Work' = Requests' + L' + F' + O'
      /\ used \in Nat
  BY WorkType, TypesOfSlots DEF Work
<1>2. /\ \E l \in Nat : L' = l /\ l <= L
      /\ CopyRequest /\ slot[tail].cb # CallBackNull => \E l \in Nat : L' = l /\ l <= L - 1
  BY WorkType, RunListed, CardSteps
<1>3. /\ FetchSteps \/ NoRequest \/ ReceiveNothing \/ KeepWaiting \/ GiveUp => O' = O
      /\ PlaceRequest => \E o \in Nat : /\ O' = o /\ o <= O + 1
                                        /\ fetched.cb = CallBackNull => o <= O
      /\ \A i \in PenSlots : ReceiveAnswer(i) =>
            \E o \in Nat : /\ O' = o /\ o <= O
                           /\ pend[i].cb # CallBackNull => o <= O - 1
  <2>1. IsFiniteSet(OpenCallbacks)
    BY WorkType
  <2>2. ASSUME PlaceRequest
        PROVE  \E o \in Nat : /\ O' = o /\ o <= O + 1
                              /\ fetched.cb = CallBackNull => o <= O
    BY <2>1, <2>2, OpenSteps, CardSteps
  <2>3. ASSUME NEW i \in PenSlots, ReceiveAnswer(i)
        PROVE  \E o \in Nat : /\ O' = o /\ o <= O
                              /\ pend[i].cb # CallBackNull => o <= O - 1
    <3>1. OpenCallbacks' \subseteq OpenCallbacks
      BY <2>3, OpenSteps
    <3>2. \E o \in Nat : O' = o /\ o <= O
      BY <2>1, <3>1, CardSteps
    <3>3. pend[i].cb # CallBackNull => \E o \in Nat : O' = o /\ o <= O - 1
      BY <2>1, <2>3, OpenSteps, CardSteps
    <3> QED
      BY <3>2, <3>3
  <2> QED
    BY <2>2, <2>3, OpenSteps
<1> HIDE DEF L, O, F
<1>4. CASE FetchSteps
  <2>1. PICK l \in Nat : L' = l /\ l <= L
    BY <1>2
  <2>2. O' = O
    BY <1>3, <1>4
  <2>3. CASE CountDown
    <3>1. used' = used - 1 /\ run_pc = "store" /\ run_pc' = "fetched" /\ UNCHANGED fetched
      BY <1>1, <2>3, TypesOfSlots DEF CountDown, WindowInv
    <3>2. Requests = used /\ Requests' = used
      <4>1. used \in Nat /\ used > 0
        BY <2>3, <3>1, TypesOfSlots DEF WindowInv, IInv, PlaceInv
      <4>2. PICK u \in Nat : used' = u /\ u = used - 1
        BY <3>1, <4>1
      <4>3. Requests' = u + 1
        BY <3>1, <4>2 DEF Requests
      <4> QED
        BY <3>1, <4>1, <4>2, <4>3 DEF Requests
    <3>3. F' = F
      BY <3>1 DEF F, FetchedCallback
    <3>4. ~PlaceRequest
      BY <3>1 DEF PlaceRequest
    <3> QED
      BY <1>1, <2>1, <2>2, <2>3, <3>2, <3>3, <3>4
  <2>4. CASE ~CountDown
    <3>1. /\ UNCHANGED used /\ run_pc # "fetched" /\ run_pc' # "fetched"
      <4>1. CASE CheckTail
        <5>1. slot[tail].status = "QUEUE_FULL"
          BY <4>1, WindowFetch DEF CheckTail
        <5> QED
          BY <4>1, <5>1 DEF CheckTail
      <4>2. CASE ~CheckTail
        BY <1>4, <2>4, <4>2 DEF FetchSteps, BeginFetch, DequeueSteps, CopyRequest, SetEmpty,
                                AdvanceTail, LoadToCountDown
      <4> QED
        BY <4>1, <4>2
    <3>2. Requests' = used /\ Requests = used
      BY <1>1, <3>1 DEF Requests
    <3>3. CASE CopyRequest
      <4>1. F = 0 /\ fetched' = [body |-> slot[tail].body, cb |-> slot[tail].cb]
        BY <3>3 DEF CopyRequest, F, FetchedCallback
      <4>2. (F' = 0 \/ F' = 1) /\ (slot[tail].cb = CallBackNull => F' = 0)
        BY <4>1 DEF F, FetchedCallback
      <4>3. CASE F' = 0
        BY <1>1, <2>1, <2>2, <3>2, <3>3, <4>1, <4>3 DEF CopyRequest, PlaceRequest
      <4>4. CASE F' = 1
        <5>1. PICK m \in Nat : L' = m /\ m <= L - 1
          BY <1>2, <3>3, <4>2, <4>4
        <5> QED
          BY <1>1, <2>2, <3>2, <3>3, <4>1, <4>4, <5>1 DEF CopyRequest, PlaceRequest
      <4> QED
        BY <4>2, <4>3, <4>4
    <3>4. CASE ~CopyRequest
      <4>1. F' = F
        <5>1. CASE CheckTail
          <6>1. run_pc = "status" /\ run_pc' = "copy"
            BY <3>1, <5>1 DEF CheckTail
          <6> QED
            BY <6>1 DEF F, FetchedCallback
        <5>2. CASE ~CheckTail
          <6>1. UNCHANGED fetched /\ (run_pc \in Pcs <=> run_pc' \in Pcs)
            BY <1>4, <2>4, <3>4, <5>2 DEF FetchSteps, BeginFetch, DequeueSteps, SetEmpty,
                                          AdvanceTail, LoadToCountDown
          <6> QED
            BY <6>1 DEF F, FetchedCallback
        <5> QED
          BY <5>1, <5>2
      <4>2. ~PlaceRequest
        BY <3>1 DEF PlaceRequest
      <4> QED
        BY <1>1, <2>1, <2>2, <3>2, <4>1, <4>2
    <3> QED
      BY <3>3, <3>4
  <2> QED
    BY <2>3, <2>4
<1>5. CASE PlaceRequest
  <2>1. PICK l \in Nat : L' = l /\ l <= L
    BY <1>2
  <2>2. UNCHANGED used /\ run_pc = "fetched" /\ run_pc' = "receive"
    BY <1>5 DEF PlaceRequest
  <2>3. Requests = used + 1 /\ Requests' = used
    BY <1>1, <2>2 DEF Requests
  <2>4. F' = 0 /\ (fetched.cb # CallBackNull => F = 1)
    BY <2>2 DEF F, FetchedCallback
  <2>5. PICK o \in Nat : /\ O' = o /\ o <= O + 1
                         /\ fetched.cb = CallBackNull => o <= O
    BY <1>3, <1>5
  <2> QED
    BY <1>1, <2>1, <2>3, <2>4, <2>5
<1>6. CASE \E i \in PenSlots : ReceiveAnswer(i)
  <2>1. PICK i \in PenSlots : ReceiveAnswer(i)
    BY <1>6
  <2>2. PICK l \in Nat : L' = l /\ l <= L
    BY <1>2
  <2>3. run_pc = "receive" /\ run_pc' = "timeout"
    BY <2>1 DEF ReceiveAnswer
  <2>4. F = 0 /\ F' = 0
    BY <2>3 DEF F, FetchedCallback
  <2>5. PICK o \in Nat : O' = o /\ o <= O /\ (pend[i].cb # CallBackNull => o <= O - 1)
    BY <1>3, <2>1
  <2>6. CASE used' = used
    <3>1. Requests' = used /\ Requests = used
      BY <1>1, <2>3, <2>6 DEF Requests
    <3> QED
      BY <1>1, <2>2, <2>3, <2>4, <2>5, <3>1 DEF PlaceRequest
  <2>7. CASE used' # used
    <3>1. used' = used + 1 /\ todo = <<>> /\ pend[i].cb # CallBackNull
      BY <2>1, <2>7 DEF ReceiveAnswer, AddCommand, Resting
    <3>2. Requests' = used + 1 /\ Requests = used
      BY <1>1, <2>3, <3>1 DEF Requests
    <3> QED
      BY <1>1, <2>2, <2>3, <2>4, <2>5, <3>1, <3>2 DEF PlaceRequest
  <2> QED
    BY <2>6, <2>7
<1>7. CASE NoRequest \/ ReceiveNothing \/ KeepWaiting \/ GiveUp
  <2>1. PICK l \in Nat : L' = l /\ l <= L
    BY <1>2
  <2>2. O' = O
    BY <1>3, <1>7
  <2>3. /\ UNCHANGED used /\ run_pc \in {"idle", "receive", "timeout"}
        /\ run_pc' \in {"idle", "receive", "timeout"}
    BY <1>7 DEF NoRequest, ReceiveNothing, KeepWaiting, GiveUp, FinishRun
  <2>4. Requests' = used /\ Requests = used /\ F = 0 /\ F' = 0 /\ ~PlaceRequest
    BY <1>1, <2>3 DEF Requests, F, FetchedCallback, PlaceRequest
  <2> QED
    BY <1>1, <2>1, <2>2, <2>4
<1> QED
  BY <1>4, <1>5, <1>6, <1>7 DEF ThreadModbus

(***************************************************************************)
(* Time, in calls of Run since the action ended.  A call of Run places a   *)
(* request, or the pending list is full and its oldest request is given up *)
(* after GiveUpTime calls at most, or answered before.                     *)
(***************************************************************************)
GiveUpTime == TimeoutResponse + PenLen - 1

MustWait == IF PenLen < 4 THEN 4 - PenLen ELSE 0

\* The wait of the state machine is long enough for what a round adds.
WaitDrainsList ==
    /\ QueueLen >= PenLen + 3
    /\ WaitParam * RunsPerSecond >= 5 + GiveUpTime * MustWait

Seconds ==
    IF sm_state = "WAIT" THEN sm_wait - 1
    ELSE IF sm_state = "HANDLE" THEN WaitParam - 1 ELSE WaitParam

Elapsed == Seconds * RunsPerSecond + ran

\* The call under way that has placed its request and is not counted yet.
Late == IF run_pc \in {"receive", "timeout"} THEN 1 ELSE 0

Limit == 5 + RunsPerSecond + GiveUpTime * MustWait

FreeTime(w, u, l, s) ==
    /\ (w - PenLen) + l + s <= Limit
    /\ (w - PenLen) + GiveUpTime * (w + u - 2 * PenLen) + l + s <= Limit

FullTime(w, t, s) == (w - PenLen) + GiveUpTime * (w - PenLen) - t + s <= Limit

TimeInv ==
    todo = <<>> /\ Work > PenLen =>
        IF pen_used < PenLen THEN FreeTime(Work, pen_used, Late, Elapsed)
        ELSE \E i \in InUse : FullTime(Work, pend[i].timer, Elapsed)

LEMMA Products ==
    ASSUME NEW g \in Nat, NEW a \in Int, NEW b \in Int
    PROVE  /\ g * a \in Int
           /\ a <= b => g * a <= g * b
           /\ g * (a - 1) = g * a - g
           /\ a >= 1 => g <= g * a
           /\ a <= 0 => g * a <= 0
<1>1. g * a \in Int /\ g * b \in Int /\ g * (b - a) = g * b - g * a
  OBVIOUS
<1>2. ASSUME NEW c \in Int, c >= 0
      PROVE  g * c >= 0
  BY <1>2
<1>3. ASSUME a <= b
      PROVE  g * a <= g * b
  <2>1. g * (b - a) >= 0
    BY <1>2, <1>3
  <2> DEFINE x == g * a
             y == g * b
             z == g * (b - a)
  <2>2. x \in Int /\ y \in Int /\ z = y - x /\ z >= 0
    BY <1>1, <2>1
  <2> HIDE DEF x, y, z
  <2>3. x <= y
    BY <2>2
  <2> QED
    BY <2>3 DEF x, y
<1>4. g * (a - 1) = g * a - g
  OBVIOUS
<1>5. ASSUME a >= 1
      PROVE  g <= g * a
  <2>1. g * (a - 1) >= 0
    BY <1>2, <1>5
  <2> DEFINE x == g * a
             z == g * (a - 1)
  <2>2. x \in Int /\ z = x - g /\ z >= 0
    BY <1>1, <1>4, <2>1
  <2> HIDE DEF x, z
  <2>3. g <= x
    BY <2>2
  <2> QED
    BY <2>3 DEF x
<1>6. ASSUME a <= 0
      PROVE  g * a <= 0
  <2>1. g * (0 - a) >= 0
    BY <1>2, <1>6
  <2>2. g * (0 - a) = 0 - g * a
    OBVIOUS
  <2> DEFINE x == g * a
             z == g * (0 - a)
  <2>3. x \in Int /\ z = 0 - x /\ z >= 0
    BY <1>1, <2>1, <2>2
  <2> HIDE DEF x, z
  <2>4. x <= 0
    BY <2>3
  <2> QED
    BY <2>4 DEF x
<1> QED
  BY <1>1, <1>3, <1>4, <1>5, <1>6

LEMMA TimeTypes ==
    /\ GiveUpTime \in Nat /\ GiveUpTime >= 1 /\ MustWait \in Nat
    /\ GiveUpTime * MustWait \in Nat /\ Limit \in Nat
<1>1. GiveUpTime \in Nat /\ GiveUpTime >= 1 /\ MustWait \in Nat
  BY DEF GiveUpTime, MustWait
<1>2. GiveUpTime * MustWait \in Int /\ 0 <= GiveUpTime * MustWait
  <2>1. GiveUpTime * 0 <= GiveUpTime * MustWait /\ GiveUpTime * MustWait \in Int
    BY <1>1, Products
  <2> QED
    BY <1>1, <2>1
<1> QED
  BY <1>1, <1>2 DEF Limit

\* Nothing has been added, nobody is later.
LEMMA QuietFree ==
    ASSUME NEW w \in Nat, NEW u \in Nat, NEW l \in 0 .. 1, NEW s \in Int,
           NEW v \in Nat, NEW x \in Nat, NEW m \in 0 .. 1, NEW z \in Int,
           v <= w, x <= u, m + z <= l + s, FreeTime(w, u, l, s)
    PROVE  FreeTime(v, x, m, z)
<1> DEFINE p == GiveUpTime * (w + u - 2 * PenLen)
           q == GiveUpTime * (v + x - 2 * PenLen)
<1>1. p \in Int /\ q \in Int /\ q <= p
  BY TimeTypes, Products
<1>2. /\ w - PenLen + l + s <= Limit /\ w - PenLen + p + l + s <= Limit
      /\ FreeTime(v, x, m, z) <=> v - PenLen + m + z <= Limit /\ v - PenLen + q + m + z <= Limit
  BY Zenon DEF FreeTime
<1> HIDE DEF p, q
<1> QED
  BY <1>1, <1>2, TimeTypes

LEMMA QuietFull ==
    ASSUME NEW w \in Nat, NEW t \in Nat, NEW s \in Int, NEW v \in Nat, NEW y \in Nat,
           NEW z \in Int, v <= w, z - y <= s - t, FullTime(w, t, s)
    PROVE  FullTime(v, y, z)
<1> DEFINE p == GiveUpTime * (w - PenLen)
           q == GiveUpTime * (v - PenLen)
<1>1. p \in Int /\ q \in Int /\ q <= p
  BY TimeTypes, Products
<1>2. /\ w - PenLen + p - t + s <= Limit
      /\ FullTime(v, y, z) <=> v - PenLen + q - y + z <= Limit
  BY Zenon DEF FullTime
<1> HIDE DEF p, q
<1> QED
  BY <1>1, <1>2, TimeTypes

\* A request is placed, perhaps in the last place.
LEMMA PlaceTime ==
    ASSUME NEW w \in Nat, NEW u \in Nat, NEW s \in Int, NEW v \in Nat, NEW x \in Nat,
           v <= w - 1, x <= u + 1, FreeTime(w, u, 0, s)
    PROVE  /\ FreeTime(v, x, 1, s)
           /\ x = PenLen => FullTime(v, 0, s)
<1> DEFINE g == GiveUpTime
           p == g * (w + u - 2 * PenLen)
           q == g * (v + x - 2 * PenLen)
           qq == g * (v - PenLen)
<1>1. p \in Int /\ q \in Int /\ q <= p
  BY TimeTypes, Products
<1>2. qq \in Int /\ (x = PenLen => qq <= p)
  BY TimeTypes, Products
<1>3. /\ w - PenLen + 0 + s <= Limit /\ w - PenLen + p + 0 + s <= Limit
      /\ FreeTime(v, x, 1, s) <=> v - PenLen + 1 + s <= Limit /\ v - PenLen + q + 1 + s <= Limit
      /\ FullTime(v, 0, s) <=> v - PenLen + qq - 0 + s <= Limit
  BY Zenon DEF FreeTime, FullTime
<1> HIDE DEF g, p, q, qq
<1> QED
  BY <1>1, <1>2, <1>3, TimeTypes

\* A place of the full list becomes free.
LEMMA UnblockTime ==
    ASSUME NEW w \in Nat, NEW t \in Nat, NEW s \in Int, NEW v \in Nat, NEW u \in Nat,
           NEW m \in 0 .. 1, NEW z \in Int,
           w > PenLen, v <= w, u <= PenLen - 1, t <= GiveUpTime - 1, m + z <= s + 1,
           FullTime(w, t, s)
    PROVE  FreeTime(v, u, m, z)
<1> DEFINE g == GiveUpTime
           p == g * (w - PenLen)
           q == g * (v + u - 2 * PenLen)
           r == g * (w - PenLen - 1)
<1>1. p \in Int /\ q \in Int /\ r \in Int /\ q <= r /\ r = p - g /\ p >= g
  BY TimeTypes, Products
<1>2. /\ w - PenLen + p - t + s <= Limit
      /\ FreeTime(v, u, m, z) <=> v - PenLen + m + z <= Limit /\ v - PenLen + q + m + z <= Limit
  BY Zenon DEF FreeTime, FullTime
<1>3. g \in Nat /\ t <= g - 1
  BY TimeTypes
<1> HIDE DEF g, p, q, r
<1> QED
  BY <1>1, <1>2, <1>3, TimeTypes

\* The action ends: nothing is left to add.
LEMMA StartTime ==
    ASSUME NEW w \in Nat, NEW u \in Nat, NEW l \in 0 .. 1, NEW s \in 0 .. RunsPerSecond,
           NEW t \in Nat, w > PenLen, w + u <= PenLen + 4
    PROVE  /\ FreeTime(w, u, l, s)
           /\ u = PenLen => FullTime(w, t, s)
<1> DEFINE g == GiveUpTime
           p == g * (w + u - 2 * PenLen)
           q == g * (w - PenLen)
           r == g * MustWait
<1>1. w + u - 2 * PenLen <= MustWait /\ (u = PenLen => w - PenLen <= MustWait)
  BY DEF MustWait
<1>2. p \in Int /\ q \in Int /\ r \in Int /\ p <= r /\ (u = PenLen => q <= r) /\ r >= 0
  BY <1>1, TimeTypes, Products
<1>3. /\ FreeTime(w, u, l, s) <=> w - PenLen + l + s <= Limit /\ w - PenLen + p + l + s <= Limit
      /\ FullTime(w, t, s) <=> w - PenLen + q - t + s <= Limit
      /\ Limit = 5 + RunsPerSecond + r
  BY Zenon DEF FreeTime, FullTime, Limit
<1> HIDE DEF g, p, q, r
<1> QED
  BY <1>2, <1>3

\* When the wait is over, the limit is passed.
LEMMA EndTime ==
    ASSUME WaitDrainsList, NEW w \in Nat, NEW u \in Nat, NEW l \in 0 .. 1,
           FreeTime(w, u, l, WaitParam * RunsPerSecond + RunsPerSecond)
    PROVE  w <= PenLen
<1> DEFINE r == GiveUpTime * MustWait
           d == WaitParam * RunsPerSecond
<1>1. r \in Nat /\ d \in Nat
  BY TimeTypes
<1>2. /\ w - PenLen + l + (d + RunsPerSecond) <= Limit /\ Limit = 5 + RunsPerSecond + r
      /\ d >= 5 + r
  BY Zenon DEF FreeTime, Limit, WaitDrainsList
<1> HIDE DEF r, d
<1> QED
  BY <1>1, <1>2

(***************************************************************************)
(* The state machine.                                                      *)
(***************************************************************************)
SmInv ==
    /\ sm_state \in {"ACTION", "WAIT", "HANDLE"}
    /\ sm_state = "WAIT" => sm_wait \in 1 .. WaitParam - 1
    /\ todo # <<>> => sm_state = "ACTION"
    /\ add_pc # "idle" => todo # <<>>
    /\ ran \in 0 .. RunsPerSecond

LEMMA SmStep ==
    ASSUME IInv, SmInv, [Next]_vars
    PROVE  SmInv'
<1> USE DEF SmInv
<1>1. CASE ActionStarts
  BY <1>1 DEF ActionStarts, NextSecond, threadVars, addVars, AreasToRead
<1>2. CASE ActionStays
  BY <1>2 DEF ActionStays, NextSecond, threadVars, addVars
<1>3. CASE AddArea
  <2>1. todo \in Todos
    BY DEF IInv, PlaceInv
  <2>2. todo' # <<>>
    BY <1>3, <2>1, TodoWeights DEF AddArea, NextCall
  <2> QED
    BY <1>3, <2>2 DEF AddArea, NextCall
<1>4. CASE AttachCallback
  <2>1. todo \in Todos
    BY DEF IInv, PlaceInv
  <2>2. todo' # <<>>
    BY <1>4, <2>1, TodoWeights DEF AttachCallback, NextCall
  <2> QED
    BY <1>4, <2>2 DEF AttachCallback, NextCall
<1>5. CASE AddSteps
  <2>1. add_pc # "idle" /\ UNCHANGED smVars
    BY <1>5 DEF AddSteps, EnqueueSteps, Probe, SetFull, ResetCallback, LoadToCountUp, CountUp,
                AdvanceHead, Adding
  <2> QED
    BY <2>1 DEF smVars
<1>6. CASE ActionEnds
  <2>1. todo' = <<>> /\ add_pc' = "idle"
    <3>1. todo \in Todos
      BY DEF IInv, PlaceInv
    <3> QED
      BY <1>6, <3>1, TodoWeights DEF ActionEnds, NextCall, threadVars, addVars
  <2> QED
    BY <1>6, <2>1 DEF ActionEnds, NextCall, Waited
<1>7. CASE Wait
  <2>1. Waited(sm_wait) /\ sm_wait \in 1 .. WaitParam - 1
    BY <1>7 DEF Wait
  <2>2. /\ UNCHANGED <<add_pc, todo>> /\ todo = <<>> /\ ran' = 0
    BY <1>7 DEF Wait, NextSecond, Resting, threadVars, addVars
  <2> QED
    BY <2>1, <2>2 DEF Waited
<1>8. CASE Handle
  BY <1>8 DEF Handle, NextSecond, Resting, threadVars, addVars
<1>9. CASE ThreadModbus
  <2>1. UNCHANGED <<add_pc, todo, sm_state, sm_wait>>
    BY <1>9, RunKeeps
  <2>2. ran' = ran \/ (ran < RunsPerSecond /\ ran' = ran + 1)
    BY <1>9 DEF ThreadModbus, NoRequest, FetchSteps, PlaceRequest, ReceiveNothing,
                ReceiveAnswer, KeepWaiting, GiveUp, FinishRun, Running, smVars
  <2> QED
    BY <2>1, <2>2
<1>10. CASE UNCHANGED vars
  BY <1>10 DEF vars, threadVars, addVars, smVars
<1> QED
  BY <1>1, <1>2, <1>3, <1>4, <1>5, <1>6, <1>7, <1>8, <1>9, <1>10 DEF Next, ThreadCompRequest

LEMMA TimeSteps ==
    ASSUME IInv, SmInv
    PROVE  /\ Elapsed \in Int
           /\ ActionStarts => Elapsed = WaitParam * RunsPerSecond + RunsPerSecond
           /\ ActionStays \/ Wait \/ Handle => \E z \in Int : Elapsed' = z /\ z <= Elapsed
           /\ ActionEnds => \E z \in 0 .. RunsPerSecond : Elapsed' = z
           /\ ThreadModbus /\ ~FinishRun => Elapsed' = Elapsed
           /\ ThreadModbus /\ FinishRun => \E z \in Int : Elapsed' = z /\ z <= Elapsed + 1
<1>1. Seconds \in Nat /\ ran \in 0 .. RunsPerSecond
  BY DEF SmInv, Seconds
<1>2. Elapsed \in Int
  BY <1>1, Products DEF Elapsed
<1>3. \A n \in Nat : (n + 1) * RunsPerSecond = n * RunsPerSecond + RunsPerSecond
                     /\ n * RunsPerSecond \in Int
  OBVIOUS
<1>4. ASSUME ActionStarts
      PROVE  Elapsed = WaitParam * RunsPerSecond + RunsPerSecond
  BY <1>4 DEF ActionStarts, NextSecond, Elapsed, Seconds
<1>5. ASSUME ActionStays \/ Wait \/ Handle
      PROVE  \E z \in Int : Elapsed' = z /\ z <= Elapsed
  <2>1. ran = RunsPerSecond /\ ran' = 0
    BY <1>5 DEF ActionStays, Wait, Handle, NextSecond
  <2>2. PICK n \in Nat : Seconds' = n /\ n <= Seconds + 1
    <3>1. CASE ActionStays
      BY <1>1, <3>1 DEF ActionStays, Seconds
    <3>2. CASE Wait
      BY <3>2 DEF Wait, Waited, Seconds, SmInv
    <3>3. CASE Handle
      BY <3>3 DEF Handle, Seconds, SmInv
    <3> QED
      BY <1>5, <3>1, <3>2, <3>3
  <2>3. Elapsed' = n * RunsPerSecond + 0
    BY <2>1, <2>2 DEF Elapsed
  <2>4. n * RunsPerSecond <= (Seconds + 1) * RunsPerSecond
    <3>1. RunsPerSecond * n <= RunsPerSecond * (Seconds + 1)
      BY <1>1, <2>2, Products
    <3>2. \A a, b \in Nat : a * b = b * a
      OBVIOUS
    <3> QED
      BY <1>1, <3>1, <3>2
  <2>5. Elapsed = (Seconds + 1) * RunsPerSecond
    BY <1>1, <1>3, <2>1 DEF Elapsed
  <2> QED
    BY <1>2, <1>3, <2>3, <2>4, <2>5
<1>6. ASSUME ActionEnds
      PROVE  \E z \in 0 .. RunsPerSecond : Elapsed' = z
  <2>1. Seconds' = 0 /\ ran' = ran
    BY <1>6 DEF ActionEnds, NextCall, Waited, Seconds
  <2> QED
    BY <1>1, <2>1 DEF Elapsed
<1>7. ASSUME ThreadModbus
      PROVE  /\ ~FinishRun => Elapsed' = Elapsed
             /\ FinishRun => \E z \in Int : Elapsed' = z /\ z <= Elapsed + 1
  <2>1. Seconds' = Seconds
    BY <1>7, RunKeeps DEF Seconds
  <2>2. ~FinishRun => ran' = ran
    BY <1>7 DEF ThreadModbus, NoRequest, FetchSteps, PlaceRequest, ReceiveNothing,
                ReceiveAnswer, KeepWaiting, GiveUp, Running, smVars
  <2>3. FinishRun => \E x \in Int : ran' = x /\ x <= ran + 1
    BY <1>1 DEF FinishRun, Running
  <2> DEFINE p == Seconds * RunsPerSecond
  <2>4. p \in Int /\ Elapsed = p + ran
    BY <1>1, <1>3 DEF Elapsed
  <2>5. \A x : ran' = x => Elapsed' = p + x
    BY <2>1 DEF Elapsed
  <2> HIDE DEF p
  <2> QED
    BY <1>1, <2>2, <2>3, <2>4, <2>5
<1> QED
  BY <1>2, <1>4, <1>5, <1>6, <1>7

-----------------------------------------------------------------------------
(***************************************************************************)
(* The timers.  No slot waits longer than its timeout and the turn of the  *)
(* other slots.                                                            *)
(***************************************************************************)
CallsUntil(i, j) == IF i <= j THEN j - i ELSE j - i + PenLen

TimerInv == \A i \in InUse : pend[i].timer + CallsUntil(i_pending, i) <= GiveUpTime - 1

\* The list is not full of nothing.
PenInv == pen_used = PenLen => InUse # {}

LEMMA InUseSteps ==
    ASSUME IInv, ThreadModbus
    PROVE  /\ FetchSteps \/ NoRequest \/ ReceiveNothing => pend' = pend /\ InUse' = InUse
           /\ PlaceRequest =>
                 \/ UNCHANGED <<pend, pen_used>> /\ InUse' = InUse
                 \/ /\ pen_used' = pen_used + 1
                    /\ PlaceOfNewRequest \in InUse' /\ pend'[PlaceOfNewRequest].timer = 0
                    /\ \A j \in InUse' \ {PlaceOfNewRequest} :
                          j \in InUse /\ pend'[j].timer = pend[j].timer
           /\ (\E i \in PenSlots : ReceiveAnswer(i)) =>
                 \A j \in InUse' : j \in InUse /\ pend'[j].timer = pend[j].timer
           /\ KeepWaiting =>
                 /\ InUse' = InUse
                 /\ \A j \in InUse : pend'[j].timer = pend[j].timer + 1
                 /\ i_pending \in InUse => pend[i_pending].timer + 1 < TimeoutResponse
           /\ GiveUp =>
                 /\ InUse' = InUse \ {i_pending}
                 /\ \A j \in InUse' : pend'[j].timer = pend[j].timer + 1
<1> USE DEF penVars, smVars, Running
<1>1. /\ pend \in [PenSlots -> PenSlot] /\ i_pending \in PenSlots
      /\ \A i \in PenSlots : pend[i].timer \in Nat
  BY TypesOfSlots DEF PenSlot
<1>2. ASSUME FetchSteps \/ NoRequest \/ ReceiveNothing
      PROVE  pend' = pend /\ InUse' = InUse
  BY <1>2 DEF FetchSteps, NoRequest, ReceiveNothing, InUse
<1>3. \A i \in PenSlots : /\ Ticked[i].status = pend[i].status
                          /\ i \in InUse => Ticked[i].timer = pend[i].timer + 1
  <2>1. ASSUME NEW s \in PenSlot
        PROVE  LET n == [s EXCEPT !.timer = @ + 1]
               IN  n.status = s.status /\ n.timer = s.timer + 1
    BY DEF PenSlot
  <2>2. \A i \in PenSlots : Ticked[i] = IF i \in InUse THEN [pend[i] EXCEPT !.timer = @ + 1]
                                        ELSE pend[i]
    BY DEF Ticked
  <2> QED
    BY <1>1, <2>1, <2>2
<1>4. ASSUME KeepWaiting
      PROVE  /\ InUse' = InUse
             /\ \A j \in InUse : pend'[j].timer = pend[j].timer + 1
             /\ i_pending \in InUse => pend[i_pending].timer + 1 < TimeoutResponse
  <2>1. pend' = Ticked /\ ~(Ticked[i_pending].timer >= TimeoutResponse)
    BY <1>4 DEF KeepWaiting, Expired
  <2>2. InUse' = InUse
    BY <1>3, <2>1 DEF InUse
  <2>3. \A j \in InUse : pend'[j].timer = pend[j].timer + 1
    BY <1>3, <2>1 DEF InUse
  <2>4. i_pending \in InUse => pend[i_pending].timer + 1 < TimeoutResponse
    <3>1. ASSUME i_pending \in InUse
          PROVE  pend[i_pending].timer + 1 < TimeoutResponse
      <4>1. Ticked[i_pending].timer = pend[i_pending].timer + 1
        BY <1>1, <1>3, <3>1
      <4> QED
        BY <1>1, <2>1, <4>1
    <3> QED
      BY <3>1
  <2> QED
    BY <2>2, <2>3, <2>4
<1>5. ASSUME GiveUp
      PROVE  /\ InUse' = InUse \ {i_pending}
             /\ \A j \in InUse' : pend'[j].timer = pend[j].timer + 1
  <2> DEFINE n == [Ticked[i_pending] EXCEPT !.timer = 0, !.status = "FREE"]
  <2>1. n.status = "FREE"
    BY <1>1, TickedType DEF PenSlot
  <2>2. pend' = [Ticked EXCEPT ![i_pending] = n]
    BY <1>5 DEF GiveUp
  <2> HIDE DEF n
  <2>3. /\ pend'[i_pending].status = "FREE"
        /\ \A j \in PenSlots \ {i_pending} : pend'[j] = Ticked[j]
    BY <1>1, <2>1, <2>2, TickedType
  <2>4. InUse' = InUse \ {i_pending}
    BY <1>3, <2>3 DEF InUse
  <2> QED
    BY <1>3, <2>3, <2>4 DEF InUse
<1>6. ASSUME PlaceRequest
      PROVE  \/ UNCHANGED <<pend, pen_used>> /\ InUse' = InUse
             \/ /\ pen_used' = pen_used + 1
                /\ PlaceOfNewRequest \in InUse' /\ pend'[PlaceOfNewRequest].timer = 0
                /\ \A j \in InUse' \ {PlaceOfNewRequest} :
                      j \in InUse /\ pend'[j].timer = pend[j].timer
  <2> DEFINE s == [status |-> "INUSE", body |-> fetched.body, cb |-> fetched.cb,
                   timer |-> 0, open |-> TRUE]
             p == PlaceOfNewRequest
  <2>1. \/ UNCHANGED <<pend, pen_used>>
        \/ pend' = [pend EXCEPT ![p] = s] /\ pen_used' = pen_used + 1
    BY <1>6 DEF PlaceRequest
  <2>2. s.status = "INUSE" /\ s.timer = 0
    OBVIOUS
  <2>3. p \in PenSlots
    BY PlaceIsSlot
  <2> HIDE DEF s, p
  <2>4. CASE UNCHANGED <<pend, pen_used>>
    BY <2>4 DEF InUse
  <2>5. CASE pend' = [pend EXCEPT ![p] = s] /\ pen_used' = pen_used + 1
    <3>1. /\ pend'[p].status = "INUSE" /\ pend'[p].timer = 0
          /\ \A j \in PenSlots \ {p} : pend'[j] = pend[j]
      BY <1>1, <2>2, <2>3, <2>5
    <3> QED
      BY <2>3, <2>5, <3>1 DEF InUse, p
  <2> QED
    BY <2>1, <2>4, <2>5
<1>7. ASSUME NEW i \in PenSlots, ReceiveAnswer(i)
      PROVE  \A j \in InUse' : j \in InUse /\ pend'[j].timer = pend[j].timer
  <2> DEFINE n == [pend[i] EXCEPT !.status = "FREE", !.open = FALSE]
  <2>1. n.status = "FREE"
    BY <1>1 DEF PenSlot
  <2>2. pend' = [pend EXCEPT ![i] = n]
    BY <1>7 DEF ReceiveAnswer
  <2> HIDE DEF n
  <2>3. pend'[i].status = "FREE" /\ \A j \in PenSlots \ {i} : pend'[j] = pend[j]
    BY <1>1, <2>1, <2>2
  <2> QED
    BY <2>3 DEF InUse
<1> QED
  BY <1>2, <1>4, <1>5, <1>6, <1>7

LEMMA TurnSteps ==
    ASSUME NEW i \in PenSlots, NEW j \in PenSlots, NEW n,
           n = IF i + 1 >= PenLen THEN 0 ELSE i + 1
    PROVE  /\ CallsUntil(i, j) \in 0 .. PenLen - 1
           /\ j # i => CallsUntil(n, j) = CallsUntil(i, j) - 1
           /\ CallsUntil(n, i) = PenLen - 1
BY DEF CallsUntil, PenSlots

\* A slot is given up when its turn comes after its timeout.
LEMMA TimerStep ==
    ASSUME IInv, TimerInv, PenInv, [Next]_vars
    PROVE  TimerInv' /\ PenInv'
<1> USE DEF ringVars, addVars, runVars, threadVars, smVars, penVars, Running
<1>1. /\ i_pending \in PenSlots /\ pen_used \in 0 .. PenLen /\ pen_used \in Nat
      /\ \A i \in PenSlots : pend[i].timer \in Nat
      /\ InUse \subseteq PenSlots /\ InUse' \subseteq PenSlots
  BY TypesOfSlots DEF PenSlot, InUse
<1>2. \A i, j \in PenSlots : CallsUntil(i, j) \in 0 .. PenLen - 1
  BY TurnSteps
<1>3. CASE pend' = pend /\ UNCHANGED <<pen_used, i_pending>>
  BY <1>3 DEF TimerInv, PenInv, InUse
<1>4. CASE PlaceRequest
  <2>1. CASE UNCHANGED <<pend, pen_used>>
    BY <1>3, <1>4, <2>1 DEF PlaceRequest
  <2>2. CASE ~UNCHANGED <<pend, pen_used>>
    <3> DEFINE p == PlaceOfNewRequest
    <3>1. /\ p \in InUse' /\ pend'[p].timer = 0 /\ UNCHANGED i_pending
          /\ \A j \in InUse' \ {p} : j \in InUse /\ pend'[j].timer = pend[j].timer
      BY <1>4, <2>2, InUseSteps DEF ThreadModbus, PlaceRequest
    <3> HIDE DEF p
    <3>2. ASSUME NEW j \in InUse'
          PROVE  pend'[j].timer + CallsUntil(i_pending', j) <= GiveUpTime - 1
      <4>1. j \in PenSlots
        BY <1>1
      <4>2. CASE j = p
        <5>1. pend'[j].timer + CallsUntil(i_pending', j) = 0 + CallsUntil(i_pending, j)
          BY <3>1, <4>2
        <5> QED
          BY <1>1, <1>2, <4>1, <5>1 DEF GiveUpTime
      <4>3. CASE j # p
        BY <3>1, <3>2, <4>3 DEF TimerInv
      <4> QED
        BY <4>2, <4>3
    <3>3. TimerInv'
      BY <3>2 DEF TimerInv
    <3> QED
      BY <3>1, <3>3 DEF PenInv
  <2> QED
    BY <2>1, <2>2
<1>5. CASE \E i \in PenSlots : ReceiveAnswer(i)
  <2>1. /\ \A j \in InUse' : j \in InUse /\ pend'[j].timer = pend[j].timer
        /\ UNCHANGED i_pending /\ pen_used' = Less(pen_used)
    BY <1>5, InUseSteps DEF ThreadModbus, ReceiveAnswer
  <2>2. pen_used' # PenLen
    BY <1>1, <2>1 DEF Less
  <2>3. TimerInv'
    BY <2>1 DEF TimerInv
  <2> QED
    BY <2>2, <2>3 DEF PenInv
<1>6. CASE KeepWaiting \/ GiveUp
  <2>1. /\ \A j \in InUse' : j \in InUse /\ pend'[j].timer = pend[j].timer + 1
        /\ i_pending \in InUse' => pend[i_pending].timer + 1 < TimeoutResponse
        /\ i_pending' = IF i_pending + 1 >= PenLen THEN 0 ELSE i_pending + 1
    <3>1. i_pending' = IF i_pending + 1 >= PenLen THEN 0 ELSE i_pending + 1
      BY <1>6 DEF KeepWaiting, GiveUp, FinishRun
    <3>2. CASE KeepWaiting
      BY <3>1, <3>2, InUseSteps DEF ThreadModbus
    <3>3. CASE GiveUp
      BY <3>1, <3>3, InUseSteps DEF ThreadModbus
    <3> QED
      BY <1>6, <3>2, <3>3
  <2>2. KeepWaiting => InUse' = InUse /\ UNCHANGED pen_used
    BY InUseSteps DEF ThreadModbus, KeepWaiting
  <2>3. GiveUp => pen_used' # PenLen
    <3>1. GiveUp => pen_used' = Less(Less(pen_used))
      BY DEF GiveUp
    <3>2. Less(Less(pen_used)) # PenLen
      BY <1>1 DEF Less
    <3> QED
      BY <3>1, <3>2
  <2>4. ASSUME NEW j \in InUse'
        PROVE  pend'[j].timer + CallsUntil(i_pending', j) <= GiveUpTime - 1
    <3>1. j \in PenSlots /\ j \in InUse /\ pend[j].timer \in Nat
      BY <1>1, <2>1
    <3>2. PICK n : n = IF i_pending + 1 >= PenLen THEN 0 ELSE i_pending + 1
      OBVIOUS
    <3>3. pend'[j].timer + CallsUntil(i_pending', j) = pend[j].timer + 1 + CallsUntil(n, j)
      BY <2>1, <3>2
    <3>4. CASE j = i_pending
      <4>1. CallsUntil(n, j) = PenLen - 1 /\ pend[j].timer + 1 < TimeoutResponse
        BY <1>1, <2>1, <3>2, <3>4, TurnSteps
      <4> QED
        BY <3>1, <3>3, <4>1 DEF GiveUpTime
    <3>5. CASE j # i_pending
      <4>1. /\ CallsUntil(n, j) = CallsUntil(i_pending, j) - 1
            /\ CallsUntil(i_pending, j) \in 0 .. PenLen - 1
        BY <1>1, <3>1, <3>2, <3>5, TurnSteps
      <4>2. pend[j].timer + CallsUntil(i_pending, j) <= GiveUpTime - 1
        BY <3>1 DEF TimerInv
      <4> QED
        BY <3>1, <3>3, <4>1, <4>2
    <3> QED
      BY <3>4, <3>5
  <2>5. TimerInv'
    BY <2>4 DEF TimerInv
  <2>6. PenInv'
    BY <1>6, <2>2, <2>3 DEF PenInv
  <2> QED
    BY <2>5, <2>6
<1>7. CASE NoRequest \/ FetchSteps \/ ReceiveNothing
  BY <1>3, <1>7 DEF NoRequest, FetchSteps, ReceiveNothing
<1>8. CASE ThreadCompRequest
  BY <1>3, <1>8, AddKeeps
<1>9. CASE UNCHANGED vars
  BY <1>3, <1>9 DEF vars
<1> QED
  BY <1>4, <1>5, <1>6, <1>7, <1>8, <1>9 DEF Next, ThreadModbus

-----------------------------------------------------------------------------
(***************************************************************************)
(* What is to be done, and what there is room for.                         *)
(***************************************************************************)
LoadInv == Work + pen_used + StillToAdd + StillToAttach <= PenLen + 4

AddingInv == todo # <<>> => Requests + StillToAdd <= PenLen + 3

RoomInv == SmInv /\ TimerInv /\ PenInv /\ LoadInv /\ AddingInv /\ TimeInv

\* A new round starts with no more work than the pending list has slots.
LEMMA StartsDrained ==
    ASSUME WaitDrainsList, IInv, SmInv, TimeInv, ActionStarts
    PROVE  Work <= PenLen
<1>1. todo = <<>> /\ pen_used = 0
  BY DEF ActionStarts, NextSecond, Resting, ReqListItemCount
<1>2. Work \in Nat /\ Late \in 0 .. 1
  BY WorkType DEF Late
<1>3. Elapsed = WaitParam * RunsPerSecond + RunsPerSecond
  BY TimeSteps
<1>4. Work > PenLen => FreeTime(Work, 0, Late, WaitParam * RunsPerSecond + RunsPerSecond)
  BY <1>1, <1>3 DEF TimeInv
<1>5. FreeTime(Work, 0, Late, WaitParam * RunsPerSecond + RunsPerSecond) => Work <= PenLen
  BY <1>2, EndTime
<1> QED
  BY <1>2, <1>4, <1>5

LEMMA LoadStep ==
    ASSUME WaitDrainsList, lost = 0, lost' = 0, IInv, IInv', WindowInv, RoomInv, [Next]_vars
    PROVE  LoadInv' /\ AddingInv'
<1> USE DEF RoomInv, LoadInv, AddingInv
<1>1. /\ Work \in Nat /\ StillToAdd \in Nat /\ StillToAttach \in Nat /\ Requests \in Nat
      /\ pen_used \in Nat /\ Requests <= Work
  <2>1. pen_used \in Nat
    BY TypesOfSlots
  <2>2. /\ Requests \in Nat /\ Cardinality(ListedCallbacks) \in Nat /\ FetchedCallback \in Nat
        /\ Cardinality(OpenCallbacks) \in Nat /\ Work \in Nat
        /\ StillToAdd \in Nat /\ StillToAttach \in Nat
    BY WorkType
  <2>3. Requests <= Work
    BY <2>2 DEF Work
  <2> QED
    BY <2>1, <2>2, <2>3
<1>2. PICK w, a, c, r, u \in Nat : /\ Work' = w /\ StillToAdd' = a /\ StillToAttach' = c
                                   /\ Requests' = r /\ pen_used' = u
  BY WorkAfter
<1>3. SUFFICES w + u + a + c <= PenLen + 4 /\ (todo' # <<>> => r + a <= PenLen + 3)
  BY <1>2
<1>4. CASE ThreadCompRequest
  <2>1. u = pen_used
    BY <1>2, <1>4, AddKeeps DEF penVars
  <2>2. CASE ActionStarts
    <3>1. w = Work /\ r = Requests /\ pen_used = 0 /\ a = 3 /\ c = 1
      BY <1>2, <1>4, <2>2, AddWork
    <3>2. Work <= PenLen
      BY <2>2, StartsDrained
    <3> QED
      BY <1>1, <2>1, <3>1, <3>2
  <2>3. CASE ~ActionStarts
    <3>1. /\ w + a + c <= Work + StillToAdd + StillToAttach
          /\ r + a <= Requests + StillToAdd /\ (todo' # <<>> => todo # <<>>)
      BY <1>2, <1>4, <2>3, AddWork
    <3> QED
      BY <1>1, <2>1, <3>1
  <2> QED
    BY <2>2, <2>3
<1>5. CASE ThreadModbus
  <2>1. /\ todo' = todo /\ a = StillToAdd /\ c = StillToAttach
        /\ w <= Work /\ (PlaceRequest => w <= Work - 1) /\ (todo # <<>> => r <= Requests)
    BY <1>2, <1>5, RunKeeps, RunWork
  <2>2. u <= pen_used + 1 /\ (~PlaceRequest => u <= pen_used)
    <3>1. CASE PlaceRequest
      BY <1>1, <1>2, <3>1 DEF PlaceRequest
    <3>2. CASE ~PlaceRequest
      <4>1. pen_used' \in {pen_used, Less(pen_used), Less(Less(pen_used))}
        BY <1>5, <3>2 DEF ThreadModbus, NoRequest, FetchSteps, ReceiveNothing, ReceiveAnswer,
                          KeepWaiting, GiveUp, penVars
      <4> QED
        BY <1>1, <1>2, <4>1 DEF Less
    <3> QED
      BY <3>1, <3>2
  <2> QED
    BY <1>1, <2>1, <2>2
<1>6. CASE UNCHANGED vars
  <2>1. Work' = Work /\ StillToAdd' = StillToAdd /\ StillToAttach' = StillToAttach
        /\ Requests' = Requests /\ pen_used' = pen_used /\ todo' = todo
    BY <1>6 DEF vars, threadVars, ringVars, addVars, runVars, smVars, penVars, Work, Requests,
                ListedCallbacks, ListedSlots, FetchedCallback, OpenCallbacks, StillToAdd,
                StillToAttach
  <2> QED
    BY <1>1, <1>2, <2>1
<1> QED
  BY <1>4, <1>5, <1>6 DEF Next

\* With an empty list all work is in the answers that may still come.
LEMMA NothingToFetch ==
    ASSUME IInv, WindowInv, SmInv, todo = <<>>, run_pc = "idle", used = 0
    PROVE  Work <= PenLen
<1>1. add_pc = "idle"
  BY DEF SmInv
<1>2. Length = 0
  BY <1>1 DEF Length, Uncounted, StillCounted
<1>3. First \in Slots
  BY TypesOfSlots DEF First
<1>4. \A i \in Slots : slot[i].status # "QUEUE_FULL"
  BY <1>2, <1>3 DEF WindowInv, Distance, Slots
<1>5. ListedCallbacks = {}
  BY <1>4 DEF ListedCallbacks, ListedSlots
<1>6. Cardinality(ListedCallbacks) = 0
  BY <1>5, FS_EmptySet
<1>7. Requests = 0 /\ FetchedCallback = 0
  BY DEF Requests, FetchedCallback
<1>8. Cardinality(OpenCallbacks) \in 0 .. PenLen
  BY WorkType
<1>9. Work = 0 + 0 + 0 + Cardinality(OpenCallbacks)
  BY <1>6, <1>7 DEF Work
<1> QED
  BY <1>8, <1>9

\* What is left to do never takes longer than what is left of the wait.
LEMMA TimeStep ==
    ASSUME lost = 0, lost' = 0, IInv, IInv', WindowInv, RoomInv, PenInv', LoadInv',
           [Next]_vars
    PROVE  TimeInv'
<1> USE DEF RoomInv, smVars, penVars, Running
<1>1. SUFFICES ASSUME todo' = <<>>, Work' > PenLen
               PROVE  IF pen_used' < PenLen
                      THEN FreeTime(Work, pen_used, Late, Elapsed)'
                      ELSE (\E i \in InUse : FullTime(Work, pend[i].timer, Elapsed))'
  BY DEF TimeInv
<1>2. PICK w \in Nat, u \in 0 .. PenLen, l \in 0 .. 1 : Work' = w /\ pen_used' = u /\ Late' = l
  BY WorkAfter DEF Late
<1>3. /\ Work \in Nat /\ pen_used \in 0 .. PenLen /\ pen_used \in Nat /\ Late \in 0 .. 1
      /\ Elapsed \in Int /\ w > PenLen /\ u \in Nat
  BY <1>1, <1>2, WorkType, TypesOfSlots, TimeSteps DEF Late
<1>4. /\ \A i \in InUse : /\ i \in PenSlots /\ pend[i].timer \in Nat
                          /\ pend[i].timer <= GiveUpTime - 1
      /\ \A i \in InUse' : \E t \in Nat : pend'[i].timer = t
  <2>1. \A i \in InUse : i \in PenSlots /\ pend[i].timer \in Nat
    BY TypesOfSlots DEF PenSlot, InUse
  <2>2. ASSUME NEW i \in InUse
        PROVE  pend[i].timer <= GiveUpTime - 1
    <3>1. i_pending \in PenSlots
      BY TypesOfSlots
    <3>2. CallsUntil(i_pending, i) \in 0 .. PenLen - 1
      BY <2>1, <3>1, TurnSteps
    <3>3. pend[i].timer + CallsUntil(i_pending, i) <= GiveUpTime - 1
      BY DEF TimerInv
    <3> QED
      BY <2>1, <3>2, <3>3, TimeTypes
  <2>3. \A i \in InUse' : \E t \in Nat : pend'[i].timer = t
    BY DEF IInv, PlaceInv, PenSlot, InUse
  <2> QED
    BY <2>1, <2>2, <2>3
\* It is enough to show:
<1>5. ASSUME NEW z \in Int, Elapsed' = z,
             u < PenLen => FreeTime(w, u, l, z),
             u = PenLen => \E i \in InUse' : \E t \in Nat :
                               pend'[i].timer = t /\ FullTime(w, t, z)
      PROVE  IF pen_used' < PenLen
             THEN FreeTime(Work, pen_used, Late, Elapsed)'
             ELSE (\E i \in InUse : FullTime(Work, pend[i].timer, Elapsed))'
  <2>1. CASE u < PenLen
    <3>1. FreeTime(w, u, l, z)
      BY <1>5, <2>1
    <3>2. FreeTime(Work, pen_used, Late, Elapsed)' <=> FreeTime(w, u, l, z)
      BY <1>2, <1>5, Zenon DEF FreeTime, Limit
    <3> QED
      BY <1>2, <2>1, <3>1, <3>2
  <2>2. CASE u = PenLen
    <3>1. PICK i \in InUse', t \in Nat : pend'[i].timer = t /\ FullTime(w, t, z)
      BY <1>5, <2>2
    <3>2. FullTime(Work', pend'[i].timer, Elapsed') <=> FullTime(w, t, z)
      BY <1>2, <1>5, <3>1, Zenon DEF FullTime, Limit
    <3>3. (\E j \in InUse : FullTime(Work, pend[j].timer, Elapsed))'
      BY <3>1, <3>2 DEF FullTime, Limit
    <3> QED
      BY <1>2, <2>2, <3>3
  <2> QED
    BY <1>3, <2>1, <2>2
\* What holds before the step.
<1>6. ASSUME todo = <<>>, w <= Work
      PROVE  /\ Work > PenLen
             /\ pen_used < PenLen => FreeTime(Work, pen_used, Late, Elapsed)
             /\ pen_used = PenLen => \E i \in InUse : FullTime(Work, pend[i].timer, Elapsed)
  BY <1>3, <1>6 DEF TimeInv
\* A step that adds nothing and is not late.
<1>7. ASSUME NEW z \in Int, Elapsed' = z, z <= Elapsed, todo = <<>>, w <= Work,
             UNCHANGED <<pend, pen_used>>, pen_used < PenLen => l <= Late
      PROVE  IF pen_used' < PenLen
             THEN FreeTime(Work, pen_used, Late, Elapsed)'
             ELSE (\E i \in InUse : FullTime(Work, pend[i].timer, Elapsed))'
  <2>1. u = pen_used /\ InUse' = InUse
    BY <1>2, <1>7 DEF InUse
  <2>2. ASSUME u < PenLen
        PROVE  FreeTime(w, u, l, z)
    <3>1. FreeTime(Work, u, Late, Elapsed) /\ l + z <= Late + Elapsed
      BY <1>3, <1>6, <1>7, <2>1, <2>2
    <3> QED
      BY <1>3, <1>7, <3>1, QuietFree
  <2>3. ASSUME u = PenLen
        PROVE  \E i \in InUse' : \E t \in Nat : pend'[i].timer = t /\ FullTime(w, t, z)
    <3>1. PICK i \in InUse : FullTime(Work, pend[i].timer, Elapsed)
      BY <1>6, <1>7, <2>1, <2>3
    <3>2. PICK t \in Nat : t = pend[i].timer
      BY <1>4
    <3>3. z - t <= Elapsed - t /\ FullTime(Work, t, Elapsed)
      BY <1>3, <1>7, <3>1, <3>2
    <3>4. FullTime(w, t, z)
      BY <1>3, <1>7, <3>3, QuietFull
    <3> QED
      BY <1>7, <2>1, <3>2, <3>4
  <2> QED
    BY <1>5, <1>7, <2>2, <2>3
<1>8. CASE ThreadCompRequest
  <2>1. UNCHANGED <<pend, pen_used, run_pc>> /\ l = Late
    BY <1>2, <1>8, AddKeeps DEF runVars, Late
  <2>2. todo \in Todos
    BY DEF IInv, PlaceInv
  <2>3. ~ActionStarts /\ ~AddArea /\ ~AttachCallback /\ ~AddSteps
    <3>1. ~ActionStarts
      BY <1>1 DEF ActionStarts, AreasToRead
    <3>2. ~AddArea /\ ~AttachCallback
      BY <1>1, <2>2, TodoWeights DEF AddArea, AttachCallback, NextCall
    <3>3. AddSteps => add_pc # "idle" /\ todo' = todo
      BY DEF AddSteps, EnqueueSteps, Probe, SetFull, ResetCallback, LoadToCountUp, CountUp,
             AdvanceHead, Adding
    <3> QED
      BY <1>1, <3>1, <3>2, <3>3 DEF SmInv
  <2>4. CASE ActionStays \/ Wait \/ Handle
    <3>1. todo = <<>> /\ todo' = <<>> /\ add_pc' = add_pc
      BY <2>4 DEF ActionStays, Wait, Handle, NextSecond, Resting, threadVars, addVars
    <3>2. StillToAdd' = StillToAdd /\ StillToAttach' = StillToAttach
      BY <3>1 DEF StillToAdd, StillToAttach
    <3>3. PICK a \in Nat, c \in Nat : StillToAdd = a /\ StillToAttach = c
      BY WorkType
    <3>4. w + a + c <= Work + a + c
      BY <1>2, <1>8, <2>3, <3>2, <3>3, AddWork
    <3>5. w <= Work
      BY <1>3, <3>4
    <3>6. PICK z \in Int : Elapsed' = z /\ z <= Elapsed
      BY <2>4, TimeSteps
    <3> QED
      BY <1>3, <1>7, <2>1, <3>1, <3>5, <3>6
  <2>5. CASE ActionEnds
    <3>1. PICK z \in 0 .. RunsPerSecond : Elapsed' = z
      BY <2>5, TimeSteps
    <3>2. w + u <= PenLen + 4
      <4>1. PICK a \in Nat, c \in Nat : StillToAdd' = a /\ StillToAttach' = c
        BY WorkAfter
      <4>2. w + u + a + c <= PenLen + 4
        BY <1>2, <4>1 DEF LoadInv
      <4> QED
        BY <4>2
    <3>3. \A t \in Nat : FreeTime(w, u, l, z) /\ (u = PenLen => FullTime(w, t, z))
      BY <1>3, <3>2, StartTime
    <3>4. u = PenLen => \E i \in InUse' : \E t \in Nat : pend'[i].timer = t /\ FullTime(w, t, z)
      BY <1>2, <1>4, <3>3 DEF PenInv
    <3>5. FreeTime(w, u, l, z)
      BY <3>3
    <3> QED
      BY <1>5, <3>1, <3>4, <3>5
  <2> QED
    BY <1>8, <2>3, <2>4, <2>5 DEF ThreadCompRequest
<1>9. CASE ThreadModbus
  <2>1. todo = <<>> /\ w <= Work /\ (PlaceRequest => w <= Work - 1)
    BY <1>1, <1>2, <1>9, RunKeeps, RunWork
  <2>2. /\ ~FinishRun => Elapsed' = Elapsed
        /\ FinishRun => \E z \in Int : Elapsed' = z /\ z <= Elapsed + 1
    BY <1>9, TimeSteps
  <2>3. ASSUME pen_used = PenLen
        PROVE  \E i \in InUse, t \in Nat : /\ t = pend[i].timer /\ FullTime(Work, t, Elapsed)
                                           /\ t <= GiveUpTime - 1
    BY <1>4, <1>6, <2>1, <2>3
  <2>4. CASE FetchSteps
    <3>1. UNCHANGED <<pend, pen_used>> /\ ~FinishRun
      <4>1. run_pc # "timeout"
        BY <2>4 DEF FetchSteps, BeginFetch, DequeueSteps, CheckTail, CopyRequest, SetEmpty,
                    AdvanceTail, LoadToCountDown, CountDown, Fetching
      <4> QED
        BY <2>4, <4>1 DEF FetchSteps, FinishRun
    <3>2. run_pc' \notin {"receive", "timeout"}
      <4>1. CASE CheckTail
        <5>1. slot[tail].status = "QUEUE_FULL"
          BY <4>1, WindowFetch DEF CheckTail, Fetching
        <5> QED
          BY <4>1, <5>1 DEF CheckTail, Fetching
      <4>2. CASE ~CheckTail
        BY <2>4, <4>2 DEF FetchSteps, BeginFetch, DequeueSteps, CopyRequest, SetEmpty,
                          AdvanceTail, LoadToCountDown, CountDown, Fetching
      <4> QED
        BY <4>1, <4>2
    <3>3. l = 0
      BY <1>2, <3>2 DEF Late
    <3>4. Elapsed' = Elapsed /\ Elapsed <= Elapsed /\ l <= Late
      BY <1>3, <2>2, <3>1, <3>3
    <3> QED
      BY <1>3, <1>7, <2>1, <3>1, <3>4
  <2>5. CASE NoRequest
    <3>1. /\ UNCHANGED <<pend, pen_used>> /\ ~FinishRun /\ run_pc = "idle"
          /\ pen_used >= PenLen \/ used = 0
      BY <2>5 DEF NoRequest, FinishRun
    <3>2. ~(pen_used < PenLen)
      BY <1>3, <1>6, <2>1, <3>1, NothingToFetch
    <3>3. Elapsed' = Elapsed /\ Elapsed <= Elapsed
      BY <1>3, <2>2, <3>1
    <3> QED
      BY <1>3, <1>7, <2>1, <3>1, <3>2, <3>3
  <2>6. CASE ReceiveNothing
    <3>1. /\ UNCHANGED <<pend, pen_used>> /\ ~FinishRun
          /\ run_pc = "receive" /\ run_pc' = "timeout"
      BY <2>6 DEF ReceiveNothing, FinishRun
    <3>2. l = 1 /\ Late = 1
      BY <1>2, <3>1 DEF Late
    <3>3. Elapsed' = Elapsed /\ Elapsed <= Elapsed /\ l <= Late
      BY <1>3, <2>2, <3>1, <3>2
    <3> QED
      BY <1>3, <1>7, <2>1, <3>1, <3>3
  <2>7. CASE PlaceRequest
    <3>1. /\ run_pc = "fetched" /\ run_pc' = "receive" /\ ~FinishRun
          /\ Late = 0 /\ pen_used < PenLen
      BY <2>7 DEF PlaceRequest, FinishRun, Late, IInv, PlaceInv
    <3>2. \/ UNCHANGED <<pend, pen_used>>
          \/ u = pen_used + 1 /\ PlaceOfNewRequest \in InUse' /\ pend'[PlaceOfNewRequest].timer = 0
      BY <1>2, <1>9, <2>7, InUseSteps
    <3>3. Elapsed' = Elapsed
      BY <2>2, <3>1
    <3>4. FreeTime(Work, pen_used, 0, Elapsed) /\ u <= pen_used + 1
      BY <1>2, <1>3, <1>6, <2>1, <3>1, <3>2
    <3>5. FreeTime(w, u, 1, Elapsed) /\ (u = PenLen => FullTime(w, 0, Elapsed))
      BY <1>3, <2>1, <2>7, <3>4, PlaceTime
    <3>6. u < PenLen => FreeTime(w, u, l, Elapsed)
      <4>1. l + Elapsed <= 1 + Elapsed
        BY <1>3
      <4> QED
        BY <1>3, <3>5, <4>1, QuietFree
    <3>7. u = PenLen => \E i \in InUse' : \E t \in Nat :
                            pend'[i].timer = t /\ FullTime(w, t, Elapsed)
      BY <1>2, <1>3, <3>1, <3>2, <3>5
    <3> QED
      BY <1>3, <1>5, <3>3, <3>6, <3>7
  <2>8. CASE \E i \in PenSlots : ReceiveAnswer(i)
    <3>1. /\ run_pc = "receive" /\ run_pc' = "timeout" /\ ~FinishRun /\ u = Less(pen_used)
      BY <1>2, <2>8 DEF ReceiveAnswer, FinishRun
    <3>2. l = 1 /\ Late = 1 /\ u <= pen_used /\ u <= PenLen - 1 /\ u < PenLen
      BY <1>2, <1>3, <3>1 DEF Late, Less
    <3>3. Elapsed' = Elapsed
      BY <2>2, <3>1
    <3>4. CASE pen_used < PenLen
      <4>1. FreeTime(Work, pen_used, 1, Elapsed) /\ 1 + Elapsed <= 1 + Elapsed
        BY <1>3, <1>6, <2>1, <3>2, <3>4
      <4>2. FreeTime(w, u, l, Elapsed)
        BY <1>3, <2>1, <3>2, <4>1, QuietFree
      <4> QED
        BY <1>3, <1>5, <3>2, <3>3, <4>2
    <3>5. CASE pen_used = PenLen
      <4>1. PICK i \in InUse, t \in Nat : FullTime(Work, t, Elapsed) /\ t <= GiveUpTime - 1
        BY <2>3, <3>5
      <4>2. Work > PenLen /\ l + Elapsed <= Elapsed + 1
        BY <1>3, <1>6, <2>1
      <4>3. FreeTime(w, u, l, Elapsed)
        BY <1>3, <2>1, <3>2, <4>1, <4>2, UnblockTime
      <4> QED
        BY <1>3, <1>5, <3>2, <3>3, <4>3
    <3> QED
      BY <1>3, <3>4, <3>5
  <2>9. CASE KeepWaiting \/ GiveUp
    <3>1. FinishRun /\ run_pc = "timeout" /\ run_pc' = "idle" /\ l = 0 /\ Late = 1
      BY <1>2, <2>9 DEF KeepWaiting, GiveUp, FinishRun, Late
    <3>2. PICK z \in Int : Elapsed' = z /\ z <= Elapsed + 1
      BY <2>2, <3>1
    <3>3. /\ u <= pen_used
          /\ KeepWaiting => u = pen_used
          /\ GiveUp => u <= PenLen - 1 /\ u < PenLen
      <4>1. u = pen_used \/ u = Less(Less(pen_used))
        BY <1>2, <2>9 DEF KeepWaiting, GiveUp
      <4>2. KeepWaiting => u = pen_used
        BY <1>2 DEF KeepWaiting
      <4>3. GiveUp => u = Less(Less(pen_used))
        BY <1>2 DEF GiveUp
      <4> QED
        BY <1>3, <4>1, <4>2, <4>3 DEF Less
    <3>4. l + z <= Late + Elapsed /\ l + z <= Elapsed + 1
      BY <1>3, <3>1, <3>2
    <3>5. CASE pen_used < PenLen
      <4>1. FreeTime(w, u, l, z)
        BY <1>3, <1>6, <2>1, <3>3, <3>4, <3>5, QuietFree
      <4>2. u < PenLen
        BY <1>3, <3>3, <3>5
      <4> QED
        BY <1>3, <1>5, <3>2, <4>1, <4>2
    <3>6. CASE pen_used = PenLen
      <4>1. PICK i \in InUse, t \in Nat : /\ t = pend[i].timer /\ FullTime(Work, t, Elapsed)
                                          /\ t <= GiveUpTime - 1
        BY <2>3, <3>6
      <4>2. CASE KeepWaiting
        <5>1. i \in InUse' /\ pend'[i].timer = t + 1
          BY <1>9, <4>1, <4>2, InUseSteps
        <5>2. PICK y \in Nat : y = t + 1 /\ z - y <= Elapsed - t
          BY <1>3, <3>2
        <5>3. FullTime(w, y, z)
          <6>1. Work \in Nat /\ Elapsed \in Int /\ w <= Work /\ FullTime(Work, t, Elapsed)
            BY <1>3, <2>1, <4>1
          <6> QED
            BY <5>2, <6>1, QuietFull
        <5>4. u = PenLen
          BY <3>3, <3>6, <4>2
        <5> QED
          BY <1>3, <1>5, <3>2, <5>1, <5>2, <5>3, <5>4
      <4>3. CASE GiveUp
        <5>1. Work > PenLen
          BY <1>6, <2>1
        <5>2. FreeTime(w, u, l, z)
          BY <1>3, <2>1, <3>3, <3>4, <4>1, <4>3, <5>1, UnblockTime
        <5> QED
          BY <1>3, <1>5, <3>2, <3>3, <4>3, <5>2
      <4> QED
        BY <2>9, <4>2, <4>3
    <3> QED
      BY <1>3, <3>5, <3>6
  <2> QED
    BY <1>9, <2>4, <2>5, <2>6, <2>7, <2>8, <2>9 DEF ThreadModbus
<1>10. CASE UNCHANGED vars
  <2>1. /\ Work' = Work /\ Elapsed' = Elapsed /\ Late' = Late
        /\ UNCHANGED <<pend, pen_used, todo>>
    BY <1>10 DEF vars, threadVars, ringVars, addVars, runVars, Work, Requests, ListedCallbacks,
                 ListedSlots, FetchedCallback, OpenCallbacks, Late, Elapsed, Seconds
  <2>2. w <= Work /\ l <= Late /\ Elapsed <= Elapsed /\ todo = <<>>
    BY <1>1, <1>2, <1>3, <2>1
  <2> QED
    BY <1>3, <1>7, <2>1, <2>2
<1> QED
  BY <1>8, <1>9, <1>10 DEF Next

LEMMA InitRoom == Init => RoomInv
<1> SUFFICES ASSUME Init PROVE RoomInv
  OBVIOUS
<1> USE DEF Init, ThreadsInit
<1>1. SmInv
  BY DEF SmInv
<1>2. InUse = {}
  BY DEF InUse
<1>3. TimerInv /\ PenInv
  BY <1>2 DEF TimerInv, PenInv
<1>4. ListedCallbacks = {} /\ OpenCallbacks = {}
  BY DEF ListedCallbacks, ListedSlots, OpenCallbacks
<1>5. Cardinality(ListedCallbacks) = 0 /\ Cardinality(OpenCallbacks) = 0
  BY <1>4, FS_EmptySet
<1>6. Requests = 0 /\ FetchedCallback = 0 /\ StillToAdd = 0 /\ StillToAttach = 0
  BY TodoWeights DEF Requests, FetchedCallback, StillToAdd, StillToAttach
<1>7. Work = 0
  BY <1>5, <1>6 DEF Work
<1>8. LoadInv /\ AddingInv /\ TimeInv
  BY <1>6, <1>7 DEF LoadInv, AddingInv, TimeInv
<1> QED
  BY <1>1, <1>3, <1>8 DEF RoomInv

LEMMA RoomHolds ==
    ASSUME WaitDrainsList
    PROVE  Spec => [](IInv /\ (lost = 0 => WindowInv /\ RoomInv))
<1> DEFINE W == IInv /\ (lost = 0 => WindowInv)
           R == lost = 0 => RoomInv
<1>1. W /\ W' /\ R /\ [Next]_vars => R'
  <2> SUFFICES ASSUME W, W', R, [Next]_vars, lost' = 0 PROVE RoomInv'
    OBVIOUS
  <2>1. lost = 0 /\ WindowInv /\ RoomInv
    BY LostGrows DEF IInv, PlaceInv
  <2>2. SmInv'
    BY <2>1, SmStep DEF RoomInv
  <2>3. TimerInv' /\ PenInv'
    BY <2>1, TimerStep DEF RoomInv
  <2>4. LoadInv' /\ AddingInv'
    BY <2>1, LoadStep
  <2>5. TimeInv'
    BY <2>1, <2>3, <2>4, TimeStep
  <2> QED
    BY <2>2, <2>3, <2>4, <2>5 DEF RoomInv
<1>2. Spec => []W
  BY WindowHolds
<1>3. Init => R
  BY InitRoom
<1>4. W /\ R => IInv /\ (lost = 0 => WindowInv /\ RoomInv)
  OBVIOUS
<1> HIDE DEF W, R
<1> QED
  BY <1>1, <1>2, <1>3, <1>4, PTL DEF Spec

(***************************************************************************)
(* AddsHaveRoom: smActionControl, which does not look at what RequestAdd   *)
(* returns, always finds room, if the list has three places more than the  *)
(* pending list and the wait of the state machine lasts long enough for    *)
(* Run to give up what may stand before what the last round added, until   *)
(* an update of field_used is lost.                                        *)
(***************************************************************************)
THEOREM AddsFindRoom ==
    ASSUME WaitDrainsList
    PROVE  Spec => []AddsHaveRoom
<1>1. IInv /\ (lost = 0 => WindowInv /\ RoomInv) => AddsHaveRoom
  <2> SUFFICES ASSUME IInv, RoomInv, todo # <<>>, Head(todo) \in Bodies PROVE used < QueueLen
    BY DEF AddsHaveRoom, NoneLost
  <2>1. Requests + StillToAdd <= PenLen + 3
    BY DEF RoomInv, AddingInv
  <2>2. AddsIn(todo) \in Nat /\ AddsIn(todo) >= 1
    BY TodoWeights DEF IInv, PlaceInv, Todos, AreasToRead, AddsIn
  <2>3. StillToAdd \in Nat /\ StillToAdd >= 1
    BY <2>2 DEF StillToAdd
  <2>4. used \in Nat /\ Requests \in Nat /\ used <= Requests
    BY TypesOfSlots DEF Requests
  <2> QED
    BY <2>1, <2>3, <2>4 DEF WaitDrainsList
<1> QED
  BY <1>1, RoomHolds, PTL

(***************************************************************************)
(* CallbackOfControl under the conditions on the constants alone.          *)
(***************************************************************************)
THEOREM CallbackStaysWhileListDrains ==
    ASSUME WaitDrainsList
    PROVE  Spec => []CallbackOfControl
BY AddsFindRoom, CallbackStaysWithControl, PTL

===============================================================================
