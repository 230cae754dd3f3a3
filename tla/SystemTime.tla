----------------------------- MODULE SystemTime -----------------------------
(***************************************************************************)
(* src/systemTime.c: the millisecond counter and the callback slots.       *)
(*                                                                         *)
(* Two threads of control share the slots without a lock: the TIMER1       *)
(* interrupt, which runs to its end whenever it comes, and the main loop,  *)
(* whose every access to the shared memory is a step of its own here.      *)
(* The main loop arms slots with timerRun and calls the due callbacks from *)
(* userProcessingTimerCallbackFun.                                         *)
(***************************************************************************)
EXTENDS Naturals

CONSTANTS
    CallbackQuantity,  \* CALLBACK_QUANTITY, 5 in the firmware
    TickRange,         \* cntMs counts modulo this, 2^32 in the firmware
    WaitTimes,         \* the wait times timerRun is called with
    MaxAge             \* ticks are told apart up to this age of a timer

ASSUME SystemTimeAssumption ==
    /\ CallbackQuantity \in Nat \ {0}
    /\ TickRange \in Nat \ {0}
    /\ MaxAge \in Nat
    /\ WaitTimes \subseteq 0..MaxAge

VARIABLES
    cntMs, isNewTick,             \* written by the interrupt
    timeCallback, runCallback, waiteCallback,  \* timerCallbackHeap, by slot
    isCallbackFree,
    pc,      \* where the main loop is
    idx,     \* its cnt in userProcessingTimerCallbackFun, or CallbackQuantity
    slot,    \* the slot it arms in timerRun
    reg,     \* the value of cntMs + waitTime it has computed there
    age,     \* ticks since the last timerRun of a slot was called ...
    wait,    \* ... the time it was called with ...
    fired,   \* ... the calls of the callback since then (two is many) ...
    late,    \* ... its deadline was there before timerRun had returned ...
    wrapped  \* ... its deadline passed the range of the counter

shared  == <<cntMs, isNewTick, timeCallback, runCallback, waiteCallback>>
local   == <<isCallbackFree, pc, idx, slot, reg>>
history == <<age, wait, fired, late, wrapped>>
vars    == <<shared, local, history>>

Slots == 0 .. CallbackQuantity - 1

TypeOK ==
    /\ cntMs \in 0 .. TickRange - 1
    /\ isNewTick \in BOOLEAN
    /\ timeCallback \in [Slots -> 0 .. TickRange - 1]
    /\ runCallback \in [Slots -> BOOLEAN]
    /\ waiteCallback \in [Slots -> BOOLEAN]
    /\ isCallbackFree \in [Slots -> BOOLEAN]
    /\ pc \in {"user", "time", "run", "waite",
               "check", "clear", "test", "reset"}
    /\ idx \in 0 .. CallbackQuantity
    /\ slot \in Slots
    /\ reg \in 0 .. TickRange - 1
    /\ age \in [Slots -> 0 .. MaxAge]
    /\ wait \in [Slots -> 0 .. MaxAge]
    /\ fired \in [Slots -> 0 .. 2]
    /\ late \in [Slots -> BOOLEAN]
    /\ wrapped \in [Slots -> BOOLEAN]

Init ==
    /\ cntMs = 0
    /\ isNewTick = FALSE
    /\ timeCallback = [c \in Slots |-> 0]
    /\ runCallback = [c \in Slots |-> FALSE]
    /\ waiteCallback = [c \in Slots |-> FALSE]
    /\ isCallbackFree = [c \in Slots |-> TRUE]
    /\ pc = "user"
    /\ idx = CallbackQuantity
    /\ slot = 0
    /\ reg = 0
    /\ age = [c \in Slots |-> 0]
    /\ wait = [c \in Slots |-> 0]
    /\ fired = [c \in Slots |-> 0]
    /\ late = [c \in Slots |-> FALSE]
    /\ wrapped = [c \in Slots |-> FALSE]

\* timerRun(c, ..) has been called and has not returned
Arming(c) == slot = c /\ pc \in {"time", "run", "waite"}

-----------------------------------------------------------------------------
(* The interrupt.                                                          *)

Due(c, now) == waiteCallback[c] /\ timeCallback[c] <= now

\* mutant of StillWaiting: a due slot goes on waiting
StillWaitingAlways(c, now) == waiteCallback[c]

\* waiteCallback is cleared in the tick of the deadline, and in no later one
StillWaiting(c, now) ==
    waiteCallback[c] /\ ~(Due(c, now) /\ timeCallback[c] >= now)

Older(a) == IF a < MaxAge THEN a + 1 ELSE a

TIMER1_IRQHandler ==
    LET now == (cntMs + 1) % TickRange
    IN  /\ cntMs' = now
        /\ waiteCallback' = [c \in Slots |-> StillWaiting(c, now)]
        /\ runCallback' = [c \in Slots |-> runCallback[c] \/ Due(c, now)]
        /\ isNewTick' = TRUE
        /\ age' = [c \in Slots |-> Older(age[c])]
        /\ late' = [c \in Slots |->
                       late[c] \/ (Arming(c) /\ Older(age[c]) >= wait[c])]
        /\ UNCHANGED <<timeCallback, local, wait, fired, wrapped>>

-----------------------------------------------------------------------------
(* The main loop, one access to the shared memory at a time.               *)

\* timerGetCallback: a slot that was never handed out, neither due nor waiting
TimerGetCallback(c) ==
    /\ pc = "user"
    /\ isCallbackFree[c]
    /\ \A d \in Slots : d < c => ~isCallbackFree[d]
    /\ isCallbackFree' = [isCallbackFree EXCEPT ![c] = FALSE]
    /\ runCallback' = [runCallback EXCEPT ![c] = FALSE]
    /\ waiteCallback' = [waiteCallback EXCEPT ![c] = FALSE]
    /\ UNCHANGED <<cntMs, isNewTick, timeCallback, pc, idx, slot, reg, history>>

\* mutant of TimerRunCall: the sum is not cut to the width of the counter
TimerRunCallWide(c, w) ==
    /\ pc = "user"
    /\ ~isCallbackFree[c]
    /\ pc' = "time"
    /\ slot' = c
    /\ reg' = cntMs + w
    /\ age' = [age EXCEPT ![c] = 0]
    /\ wait' = [wait EXCEPT ![c] = w]
    /\ UNCHANGED <<shared, isCallbackFree, idx, fired, late, wrapped>>

\* timerRun(c, w): reads cntMs, adds
TimerRunCall(c, w) ==
    /\ pc = "user"
    /\ ~isCallbackFree[c]
    /\ pc' = "time"
    /\ slot' = c
    /\ reg' = (cntMs + w) % TickRange
    /\ age' = [age EXCEPT ![c] = 0]
    /\ wait' = [wait EXCEPT ![c] = w]
    /\ fired' = [fired EXCEPT ![c] = 0]
    /\ late' = [late EXCEPT ![c] = (w = 0)]
    /\ wrapped' = [wrapped EXCEPT ![c] = (cntMs + w >= TickRange)]
    /\ UNCHANGED <<shared, isCallbackFree, idx>>

TimerRunTime ==
    /\ pc = "time"
    /\ timeCallback' = [timeCallback EXCEPT ![slot] = reg]
    /\ pc' = "run"
    /\ UNCHANGED <<cntMs, isNewTick, runCallback, waiteCallback,
                   isCallbackFree, idx, slot, reg, history>>

\* mutant of TimerRunRun: a call still due from the last time is kept
TimerRunKeepDue ==
    /\ pc = "run"
    /\ pc' = "waite"
    /\ UNCHANGED <<shared, isCallbackFree, idx, slot, reg, history>>

TimerRunRun ==
    /\ pc = "run"
    /\ runCallback' = [runCallback EXCEPT ![slot] = FALSE]
    /\ pc' = "waite"
    /\ UNCHANGED <<cntMs, isNewTick, timeCallback, waiteCallback,
                   isCallbackFree, idx, slot, reg, history>>

\* back in the user's code: the main loop's, or the callback's of slot idx
TimerRunWaite ==
    /\ pc = "waite"
    /\ waiteCallback' = [waiteCallback EXCEPT ![slot] = TRUE]
    /\ pc' = "user"
    /\ slot' = 0 /\ reg' = 0
    /\ UNCHANGED <<cntMs, isNewTick, timeCallback, runCallback,
                   isCallbackFree, idx, history>>

InLoop == idx < CallbackQuantity

\* the main loop calls userProcessingTimerCallbackFun
ProcessCall ==
    /\ pc = "user"
    /\ ~InLoop
    /\ pc' = "check"
    /\ UNCHANGED <<shared, isCallbackFree, idx, slot, reg, history>>

ProcessCheck ==
    /\ pc = "check"
    /\ pc' = IF isNewTick THEN "clear" ELSE "user"
    /\ UNCHANGED <<shared, isCallbackFree, idx, slot, reg, history>>

ProcessClear ==
    /\ pc = "clear"
    /\ isNewTick' = FALSE
    /\ pc' = "test"
    /\ idx' = 0
    /\ UNCHANGED <<cntMs, timeCallback, runCallback, waiteCallback,
                   isCallbackFree, slot, reg, history>>

\* the next slot of the loop, or the return
StepLoop ==
    /\ idx' = idx + 1
    /\ pc' = IF idx + 1 < CallbackQuantity THEN "test" ELSE "user"

ProcessTest ==
    /\ pc = "test"
    /\ IF runCallback[idx] THEN pc' = "reset" /\ UNCHANGED idx ELSE StepLoop
    /\ UNCHANGED <<shared, isCallbackFree, slot, reg, history>>

\* runCallback is cleared and the callback called: its code runs at "user"
ProcessReset ==
    /\ pc = "reset"
    /\ runCallback' = [runCallback EXCEPT ![idx] = FALSE]
    /\ fired' = [fired EXCEPT ![idx] = IF @ < 2 THEN @ + 1 ELSE @]
    /\ pc' = "user"
    /\ UNCHANGED <<cntMs, isNewTick, timeCallback, waiteCallback,
                   isCallbackFree, idx, slot, reg, age, wait, late, wrapped>>

\* mutant of CallbackReturn: the loop ends with the first callback it calls
CallbackReturnBreak ==
    /\ pc = "user"
    /\ InLoop
    /\ idx' = CallbackQuantity
    /\ UNCHANGED <<shared, isCallbackFree, pc, slot, reg, history>>

CallbackReturn ==
    /\ pc = "user"
    /\ InLoop
    /\ StepLoop
    /\ UNCHANGED <<shared, isCallbackFree, slot, reg, history>>

TimerRunStep == TimerRunTime \/ TimerRunRun \/ TimerRunWaite

ProcessStep == ProcessCheck \/ ProcessClear \/ ProcessTest \/ ProcessReset

User ==
    \E c \in Slots :
        \/ TimerGetCallback(c)
        \/ \E w \in WaitTimes : TimerRunCall(c, w)

Next ==
    \/ TIMER1_IRQHandler
    \/ User
    \/ TimerRunStep
    \/ ProcessCall
    \/ ProcessStep
    \/ CallbackReturn

(* The timer ticks, the functions go on, a callback returns and the main   *)
(* loop comes round again however often it calls timerRun on the way;      *)
(* nothing makes the user arm a timer.                                     *)
Fairness ==
    /\ WF_vars(TIMER1_IRQHandler)
    /\ WF_vars(TimerRunStep)
    /\ WF_vars(ProcessStep)
    /\ SF_vars(ProcessCall)
    /\ SF_vars(CallbackReturn)

Spec == Init /\ [][Next]_vars

FairSpec == Spec /\ Fairness

-----------------------------------------------------------------------------
(* A due callback is never lost between the interrupt and the main loop:   *)
(* either a new tick is announced, which brings the main loop back to the  *)
(* slots, or the loop that is under way has still to come to the slot.     *)
NoLostCallback ==
    \A c \in Slots : runCallback[c] =>
        \/ isNewTick
        \/ InLoop /\ c > idx
        \/ InLoop /\ c = idx /\ pc \in {"test", "reset"}

(* A callback is not due before its time has passed, whatever the slot was *)
(* doing when timerRun was called, as long as the deadline is within the   *)
(* range of the counter.                                                   *)
NotEarly ==
    \A c \in Slots :
        runCallback[c] /\ ~Arming(c) /\ ~wrapped[c] => age[c] >= wait[c]

(* A callback is called at most once for a timerRun that returned before   *)
(* its deadline, and not any more while the slot is waiting again.         *)
OneShot ==
    \A c \in Slots :
        ~late[c] /\ ~wrapped[c] =>
            /\ fired[c] <= 1
            /\ fired[c] = 1 => ~waiteCallback[c] \/ Arming(c)

Called(c) == pc = "user" /\ idx = c

(* A slot that waits is called, unless it is armed anew.                   *)
WaitingIsCalled ==
    \A c \in Slots : waiteCallback[c] ~> (Called(c) \/ Arming(c))
=============================================================================
