------------------------- MODULE SocketClientThread -------------------------
(***************************************************************************)
(* The demo application: ThreadCompRequest asks for three register areas   *)
(* whenever its state machine is in the action state and the count it      *)
(* reads is 0; ThreadModbus calls ModbusClientTCPRun; the callback of the  *)
(* first area may add a command.                                           *)
(*                                                                         *)
(* Run is taken from ModbusClientTCP with the demo's retry limit of 1 and  *)
(* without what the demo cannot see of it: transaction ids, late answers   *)
(* to requests no slot remembers, and the buffers.                         *)
(***************************************************************************)
EXTENDS RequestThreads

CONSTANTS
    PenLen,              \* PEN_LEN
    TimeoutResponse,     \* the timeout, in calls of Run
    WaitParam,           \* wait_param of the state machine
    RunsPerSecond        \* the calls of Run that its sleep(1) lasts at least

ASSUME DemoAssumption ==
    /\ PenLen \in Nat \ {0}
    /\ TimeoutResponse \in Nat \ {0}
    /\ WaitParam \in Nat \ {0}
    /\ RunsPerSecond \in Nat \ {0}

\* The requests and the callback of SocketClientThread.c.
ASSUME NamesAssumption ==
    /\ Bodies = {"control", "params", "monitor", "command"}
    /\ Callbacks = {"CallbackCompControl"}

VARIABLES
    sm_state,      \* StateMachine_t
    sm_wait,
    todo,          \* what smActionControl has still to do
    pend,          \* pendings_list
    pen_head,      \* heap_pendinglist.head and field_used
    pen_used,
    i_pending,
    ran            \* calls of Run since the state machine was called, counted
                   \* as far as RunsPerSecond

smVars == <<sm_state, sm_wait, todo, ran>>
penVars == <<pend, pen_head, pen_used, i_pending>>
vars == <<threadVars, smVars, penVars>>

PenSlots == 0 .. PenLen - 1

InUse == {i \in PenSlots : pend[i].status = "INUSE"}

Init ==
    /\ ThreadsInit
    /\ sm_state = "ACTION"
    /\ sm_wait = 0
    /\ todo = <<>>
    /\ pend = [i \in PenSlots |->
           [status |-> "FREE", body |-> NoBody, cb |-> CallBackNull,
            timer |-> 0, open |-> FALSE]]
    /\ pen_head = 0
    /\ pen_used = 0
    /\ i_pending = 0
    /\ ran = 0

-----------------------------------------------------------------------------
(***************************************************************************)
(* ThreadCompRequest: stateMachineRun once a second.  What smActionControl *)
(* does is a list of calls; "NEXT" is its return to the state machine.     *)
(***************************************************************************)
AreasToRead ==
    <<"control", "CallbackCompControl", "params", "monitor", "NEXT">>

\* getModbusClientTCPReqListItemCount returns the count of the pending list.
ReqListItemCount == pen_used

Resting == todo = <<>> /\ add_pc = "idle"

\* sleep(1): Run, called every 100 us, has been called that often since.
NextSecond ==
    /\ Resting
    /\ ran = RunsPerSecond
    /\ ran' = 0

ActionStarts ==
    /\ NextSecond
    /\ sm_state = "ACTION"
    /\ ReqListItemCount = 0
    /\ todo' = AreasToRead
    /\ UNCHANGED <<threadVars, sm_state, sm_wait, penVars>>

NextCall ==
    /\ todo # <<>>
    /\ todo' = Tail(todo)
    /\ UNCHANGED ran

AddArea ==
    /\ NextCall
    /\ Head(todo) \in Bodies
    /\ BeginAdd(Head(todo))
    /\ UNCHANGED <<sm_state, sm_wait, penVars>>

AttachCallback ==
    /\ NextCall
    /\ Head(todo) \in Callbacks
    /\ CallbackAdd(Head(todo))
    /\ UNCHANGED <<sm_state, sm_wait, penVars>>

AddSteps ==
    /\ EnqueueSteps
    /\ UNCHANGED <<smVars, penVars>>

\* Mutant of Waited: the parameter is compared with the wrong side.
WaitedOnce(w) ==
    /\ sm_state' = IF w + 1 <= WaitParam THEN "HANDLE" ELSE "WAIT"
    /\ sm_wait' = IF w + 1 <= WaitParam THEN 0 ELSE w + 1

\* _FuncStateMachineWait with the counter at w
Waited(w) ==
    /\ sm_state' = IF w + 1 >= WaitParam THEN "HANDLE" ELSE "WAIT"
    /\ sm_wait' = IF w + 1 >= WaitParam THEN 0 ELSE w + 1

\* The call that ends the action goes on with the first wait.
ActionEnds ==
    /\ NextCall
    /\ Head(todo) = "NEXT"
    /\ add_pc = "idle"
    /\ Waited(0)
    /\ UNCHANGED <<threadVars, penVars>>

Wait ==
    /\ NextSecond
    /\ sm_state = "WAIT"
    /\ Waited(sm_wait)
    /\ UNCHANGED <<threadVars, todo, penVars>>

\* smHandleControl returns NEXT before it looks at anything.
Handle ==
    /\ NextSecond
    /\ sm_state = "HANDLE"
    /\ sm_state' = "ACTION"
    /\ sm_wait' = 0
    /\ UNCHANGED <<threadVars, todo, penVars>>

\* The pending list is not empty.
ActionStays ==
    /\ NextSecond
    /\ sm_state = "ACTION"
    /\ ReqListItemCount # 0
    /\ UNCHANGED <<threadVars, sm_state, sm_wait, todo, penVars>>

ThreadCompRequest ==
    ActionStarts \/ ActionStays \/ AddArea \/ AttachCallback \/ AddSteps \/ ActionEnds \/ Wait \/ Handle

-----------------------------------------------------------------------------
(***************************************************************************)
(* ThreadModbus: ModbusClientTCPRun forever.                               *)
(***************************************************************************)
Less(n) == IF n > 0 THEN n - 1 ELSE 0

Running(from, to) ==
    /\ run_pc = from
    /\ run_pc' = to
    /\ UNCHANGED <<addVars, sm_state, sm_wait, todo>>
    /\ ran' = IF from = "timeout" /\ ran < RunsPerSecond THEN ran + 1 ELSE ran

NoRequest ==
    /\ pen_used >= PenLen \/ used = 0
    /\ Running("idle", "receive")
    /\ UNCHANGED <<ringVars, fetched, run_count, penVars>>

FetchSteps ==
    /\ (pen_used < PenLen /\ BeginFetch) \/ DequeueSteps
    /\ UNCHANGED <<smVars, penVars>>

SameInFlight == \E i \in InUse : pend[i].body = fetched.body

PlaceOfNewRequest ==
    IF pen_head \in InUse /\ InUse # PenSlots THEN Min(PenSlots \ InUse) ELSE pen_head

\* A request like one in flight is dropped, which happens to this application
\* with null requests only.  A null request has no header to copy: the slot keeps
\* the one it had, and the PDU sent last goes out under it.
PlaceRequest ==
    LET i == PlaceOfNewRequest
    IN  /\ Running("fetched", "receive")
        /\ IF SameInFlight
           THEN UNCHANGED <<pend, pen_head, pen_used>>
           ELSE /\ pend' = [pend EXCEPT ![i] =
                       [status |-> "INUSE", body |-> fetched.body,
                        cb |-> fetched.cb, timer |-> 0, open |-> TRUE]]
                /\ pen_head' = IF i + 1 >= PenLen THEN 0 ELSE i + 1
                /\ pen_used' = pen_used + 1
        /\ UNCHANGED <<ringVars, fetched, run_count, i_pending>>

ReceiveNothing ==
    /\ Running("receive", "timeout")
    /\ UNCHANGED <<ringVars, fetched, run_count, penVars>>

\* CallbackCompControl adds a command when the compressor's state asks for one.
\* It does so while the other thread sleeps, which an answer that takes longer
\* than three adds ensures: nothing in the code keeps them from colliding.
AddCommand ==
    \/ UNCHANGED ringVars
    \/ /\ Resting
       /\ used < QueueLen
       /\ slot[head].status = "QUEUE_EMPTY"
       /\ slot' = [slot EXCEPT ![head] =
              [status |-> "QUEUE_FULL", body |-> "command", cb |-> CallBackNull]]
       /\ used' = used + 1
       /\ head' = Wrap(head + 1)
       /\ UNCHANGED <<tail, lost>>

\* Mutant of ReceiveAnswer: the slot is freed, but not counted down.
ReceiveAnswerUncounted(i) ==
    /\ pend[i].open
    /\ Running("receive", "timeout")
    /\ pend' = [pend EXCEPT ![i].status = "FREE", ![i].open = FALSE]
    /\ IF pend[i].cb = CallBackNull THEN UNCHANGED ringVars ELSE AddCommand
    /\ UNCHANGED <<fetched, run_count, pen_head, pen_used, i_pending>>

\* The answer to what a slot holds or held last: the slot is freed, also when it
\* was before.
ReceiveAnswer(i) ==
    /\ pend[i].open
    /\ Running("receive", "timeout")
    /\ pend' = [pend EXCEPT ![i].status = "FREE", ![i].open = FALSE]
    /\ pen_used' = Less(pen_used)
    /\ IF pend[i].cb = CallBackNull THEN UNCHANGED ringVars ELSE AddCommand
    /\ UNCHANGED <<fetched, run_count, pen_head, i_pending>>

Ticked ==
    [i \in PenSlots |-> IF i \in InUse THEN [pend[i] EXCEPT !.timer = @ + 1] ELSE pend[i]]

Expired == Ticked[i_pending].timer >= TimeoutResponse

FinishRun ==
    /\ Running("timeout", "idle")
    /\ i_pending' = IF i_pending + 1 >= PenLen THEN 0 ELSE i_pending + 1
    /\ UNCHANGED <<ringVars, fetched, run_count, pen_head>>

KeepWaiting ==
    /\ FinishRun
    /\ ~Expired
    /\ pend' = Ticked
    /\ UNCHANGED pen_used

\* With the retry limit 1 the first timeout is the last; it counts twice.
GiveUp ==
    /\ FinishRun
    /\ Expired
    /\ pend' = [Ticked EXCEPT ![i_pending].timer = 0, ![i_pending].status = "FREE"]
    /\ pen_used' = Less(Less(pen_used))

ThreadModbus ==
    \/ NoRequest
    \/ FetchSteps
    \/ PlaceRequest
    \/ ReceiveNothing
    \/ \E i \in PenSlots : ReceiveAnswer(i)
    \/ KeepWaiting
    \/ GiveUp

Next == ThreadCompRequest \/ ThreadModbus

\* Both threads run forever; no server has to answer.
Spec == Init /\ [][Next]_vars /\ WF_vars(ThreadCompRequest) /\ WF_vars(ThreadModbus)

-----------------------------------------------------------------------------
TypeOK ==
    /\ slot \in [Slots -> [status : {"QUEUE_EMPTY", "QUEUE_FULL"},
                           body : Bodies \cup {NoBody},
                           cb : Callbacks \cup {CallBackNull}]]
    /\ {head, tail} \subseteq Slots
    /\ {used, add_count, run_count} \subseteq 0 .. QueueLen
    /\ pen_used \in 0 .. PenLen
    /\ {pen_head, i_pending} \subseteq PenSlots

(***************************************************************************)
(* smActionControl does not look at what RequestAdd returns, and need not: *)
(* the wait of the state machine gives Run the time to empty the list,     *)
(* though the count the action waits for is not that of the list.  It says *)
(* nothing once an update of field_used was lost.                          *)
(***************************************************************************)
AddsHaveRoom ==
    NoneLost /\ todo # <<>> /\ Head(todo) \in Bodies /\ add_pc = "idle" =>
        used < QueueLen

(***************************************************************************)
(* CallbackCompControl, which sends the compressor commands, is run by the *)
(* answer to no other request than the one it is attached to, though it is *)
(* attached to whatever slot is before head, perhaps after the request was *)
(* fetched from it.  It says nothing once an update of field_used was      *)
(* lost.                                                                   *)
(***************************************************************************)
CallbackOfControl ==
    NoneLost =>
        /\ fetched.cb # CallBackNull => fetched.body = "control"
        /\ \A i \in PenSlots : pend[i].cb # CallBackNull => pend[i].body = "control"

(***************************************************************************)
(* The registers are asked for again and again, though the count that      *)
(* smActionControl waits for is the pending list's, give-ups count twice,  *)
(* answered slots are freed again, and no server has to answer, as long as *)
(* no update of field_used is lost.                                        *)
(***************************************************************************)
PollingGoesOn == []NoneLost => []<>(todo = AreasToRead)
=============================================================================
