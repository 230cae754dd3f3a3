------------------------- MODULE SystemTime_proofs -------------------------
(***************************************************************************)
(* Proofs about SystemTime, for every number of slots, every width of the  *)
(* counter and all wait times.                                             *)
(***************************************************************************)
EXTENDS SystemTime, TLAPS

\* the steps of timerRun and of userProcessingTimerCallbackFun
USE DEF shared, local, history, Slots

LEMMA OlderType ==
    ASSUME NEW a \in 0 .. MaxAge
    PROVE  Older(a) \in 0 .. MaxAge
BY SystemTimeAssumption DEF Older

-----------------------------------------------------------------------------
(* Types.                                                                  *)

\* The loop's counter is a slot exactly while the loop looks at a slot or a
\* callback runs: what timerRun and the check of isNewTick do not disturb.
LoopPlaces ==
    /\ pc \in {"test", "reset"} => InLoop
    /\ pc \in {"check", "clear"} => ~InLoop

TypeInv == TypeOK /\ LoopPlaces

LEMMA InitType == Init => TypeInv
<1>1. Init => isNewTick \in BOOLEAN
  BY Zenon DEF Init
<1>2. Init => TypeOK
  BY <1>1, SystemTimeAssumption DEF Init, TypeOK
<1>3. Init => LoopPlaces
  BY DEF Init, LoopPlaces
<1>. QED
  BY <1>2, <1>3 DEF TypeInv

LEMMA NextType == TypeInv /\ [Next]_vars => TypeInv'
<1>. SUFFICES ASSUME TypeInv, [Next]_vars PROVE TypeInv'
  OBVIOUS
<1>. USE SystemTimeAssumption DEF TypeInv, TypeOK, LoopPlaces, InLoop
<1>1. CASE TIMER1_IRQHandler
  <2>1. (cntMs + 1) % TickRange \in 0 .. TickRange - 1
    OBVIOUS
  <2>2. \A c \in Slots : Older(age[c]) \in 0 .. MaxAge
    BY OlderType
  <2>. QED
    BY <1>1, <2>1, <2>2 DEF TIMER1_IRQHandler, StillWaiting, Due, Arming
<1>2. ASSUME NEW c \in Slots, TimerGetCallback(c) PROVE TypeInv'
  BY <1>2 DEF TimerGetCallback
<1>3. ASSUME NEW c \in Slots, NEW w \in WaitTimes, TimerRunCall(c, w)
      PROVE  TypeInv'
  <2>1. w \in 0 .. MaxAge /\ (cntMs + w) % TickRange \in 0 .. TickRange - 1
    OBVIOUS
  <2>2. late' \in [Slots -> BOOLEAN] /\ wrapped' \in [Slots -> BOOLEAN]
    <3>1. CASE w = 0
      BY <1>3, <3>1 DEF TimerRunCall
    <3>2. CASE w # 0
      BY <1>3, <3>2 DEF TimerRunCall
    <3>. QED
      BY <3>1, <3>2
  <2>3. /\ age' \in [Slots -> 0 .. MaxAge] /\ wait' \in [Slots -> 0 .. MaxAge]
        /\ fired' \in [Slots -> 0 .. 2] /\ reg' \in 0 .. TickRange - 1
    BY <1>3, <2>1 DEF TimerRunCall
  <2>4. pc' = "time" /\ slot' = c /\ UNCHANGED <<shared, isCallbackFree, idx>>
    BY <1>3 DEF TimerRunCall
  <2>. QED
    BY <2>2, <2>3, <2>4
<1>4. CASE TimerRunTime
  BY <1>4 DEF TimerRunTime
<1>5. CASE TimerRunRun
  BY <1>5 DEF TimerRunRun
<1>6. CASE TimerRunWaite
  BY <1>6 DEF TimerRunWaite
<1>7. CASE ProcessCall \/ ProcessCheck
  BY <1>7 DEF ProcessCall, ProcessCheck
<1>8. CASE ProcessClear
  <2>1. isNewTick' \in BOOLEAN
    BY <1>8, Zenon DEF ProcessClear
  <2>. QED
    BY <1>8, <2>1 DEF ProcessClear
<1>9. CASE ProcessTest
  <2>1. pc = "test" /\ UNCHANGED <<shared, isCallbackFree, slot, reg, history>>
    BY <1>9 DEF ProcessTest
  <2>2. \/ pc' = "reset" /\ UNCHANGED idx
        \/ StepLoop
    BY <1>9, Zenon DEF ProcessTest
  <2>3. /\ idx' \in 0 .. CallbackQuantity
        /\ pc' \in {"reset", "test", "user"}
        /\ pc' \in {"reset", "test"} => idx' < CallbackQuantity
    <3>1. CASE StepLoop
      BY <2>1, <3>1 DEF StepLoop
    <3>2. CASE pc' = "reset" /\ UNCHANGED idx
      BY <2>1, <3>2
    <3>. QED
      BY <2>2, <3>1, <3>2
  <2>. QED
    BY <2>1, <2>3
<1>10. CASE ProcessReset
  <2>1. fired' \in [Slots -> 0 .. 2] /\ runCallback' \in [Slots -> BOOLEAN]
    BY <1>10 DEF ProcessReset
  <2>2. /\ pc' = "user"
        /\ UNCHANGED <<cntMs, isNewTick, timeCallback, waiteCallback,
                       isCallbackFree, idx, slot, reg, age, wait, late, wrapped>>
    BY <1>10 DEF ProcessReset
  <2>. QED
    BY <2>1, <2>2
<1>11. CASE CallbackReturn
  BY <1>11 DEF CallbackReturn, StepLoop
<1>12. CASE UNCHANGED vars
  BY <1>12 DEF vars
<1>. QED
  BY <1>1, <1>2, <1>3, <1>4, <1>5, <1>6, <1>7, <1>8, <1>9, <1>10, <1>11, <1>12
     DEF Next, User, TimerRunStep, ProcessStep

\* The variables keep the types of systemTime.c, the counter its width.
THEOREM TypeCorrect == Spec => []TypeOK
<1>1. Spec => []TypeInv
  BY InitType, NextType, PTL DEF Spec
<1>. QED
  BY <1>1, PTL DEF TypeInv

-----------------------------------------------------------------------------
(* No due callback is lost.                                                *)

LEMMA NextLosesNone ==
    TypeInv /\ NoLostCallback /\ [Next]_vars => NoLostCallback'
<1>. SUFFICES ASSUME TypeInv, NoLostCallback, [Next]_vars,
                     NEW c \in Slots, runCallback'[c]
              PROVE  (\/ isNewTick
                      \/ InLoop /\ c > idx
                      \/ InLoop /\ c = idx /\ pc \in {"test", "reset"})'
  BY DEF NoLostCallback
<1>. USE SystemTimeAssumption DEF TypeInv, TypeOK, LoopPlaces, InLoop,
                                  NoLostCallback
<1>1. CASE TIMER1_IRQHandler
  BY <1>1, Zenon DEF TIMER1_IRQHandler
<1>2. CASE User
  <2>1. ASSUME NEW d \in Slots, TimerGetCallback(d)
        PROVE  runCallback[c] /\ pc = "user" /\ UNCHANGED <<isNewTick, idx>>
    BY <2>1 DEF TimerGetCallback
  <2>2. ASSUME NEW d \in Slots, NEW w \in WaitTimes, TimerRunCall(d, w)
        PROVE  runCallback[c] /\ pc = "user" /\ UNCHANGED <<isNewTick, idx>>
    BY <2>2, Zenon DEF TimerRunCall
  <2>3. runCallback[c] /\ pc = "user" /\ UNCHANGED <<isNewTick, idx>>
    BY <1>2, <2>1, <2>2 DEF User
  <2>. QED
    BY <2>3
<1>3. CASE TimerRunStep
  BY <1>3 DEF TimerRunStep, TimerRunTime, TimerRunRun, TimerRunWaite
<1>4. CASE ProcessCall \/ ProcessCheck
  BY <1>4 DEF ProcessCall, ProcessCheck
<1>5. CASE ProcessClear
  BY <1>5 DEF ProcessClear
<1>6. CASE ProcessTest
  <2>1. /\ pc = "test" /\ runCallback[c] /\ UNCHANGED isNewTick
        /\ \/ pc' = "reset" /\ UNCHANGED idx
           \/ StepLoop /\ ~runCallback[idx]
    BY <1>6, Zenon DEF ProcessTest
  <2>2. CASE pc' = "reset" /\ UNCHANGED idx
    BY <2>1, <2>2
  <2>3. CASE StepLoop /\ ~runCallback[idx]
    BY <2>1, <2>3 DEF StepLoop
  <2>. QED
    BY <2>1, <2>2, <2>3
<1>7. CASE ProcessReset
  BY <1>7 DEF ProcessReset
<1>8. CASE CallbackReturn
  BY <1>8 DEF CallbackReturn, StepLoop
<1>9. CASE UNCHANGED vars
  BY <1>9 DEF vars
<1>. QED
  BY <1>1, <1>2, <1>3, <1>4, <1>5, <1>6, <1>7, <1>8, <1>9
     DEF Next, ProcessStep

\* A callback that is due stays ahead of the loop or is announced by isNewTick,
\* wherever the interrupt comes between the test of the flag, its clearing and
\* the loop over the slots.
THEOREM NoCallbackIsLost == Spec => []NoLostCallback
<1>1. Init => NoLostCallback
  BY DEF Init, NoLostCallback
<1>. QED
  BY <1>1, InitType, NextType, NextLosesNone, PTL DEF Spec

-----------------------------------------------------------------------------
(* What a tick and a call of timerRun do to one slot.                      *)

LEMMA TickAt ==
    ASSUME TypeInv, TIMER1_IRQHandler, NEW c \in Slots
    PROVE  /\ cntMs' = (cntMs + 1) % TickRange
           /\ age'[c] = Older(age[c])
           /\ waiteCallback'[c] <=> StillWaiting(c, cntMs')
           /\ runCallback'[c] <=> runCallback[c] \/ Due(c, cntMs')
           /\ late'[c] <=> late[c] \/ (Arming(c) /\ Older(age[c]) >= wait[c])
           /\ UNCHANGED <<timeCallback, isCallbackFree, pc, idx, slot, reg,
                          wait, fired, wrapped>>
BY Zenon DEF TIMER1_IRQHandler

LEMMA CallAt ==
    ASSUME TypeInv, NEW c \in Slots, NEW w \in WaitTimes, TimerRunCall(c, w)
    PROVE  /\ pc = "user" /\ pc' = "time" /\ slot' = c
           /\ reg' = (cntMs + w) % TickRange
           /\ age'[c] = 0 /\ wait'[c] = w /\ fired'[c] = 0
           /\ late'[c] <=> w = 0
           /\ wrapped'[c] <=> cntMs + w >= TickRange
           /\ UNCHANGED <<shared, isCallbackFree, idx>>
BY Zenon DEF TimerRunCall, TypeInv, TypeOK

LEMMA CallElsewhere ==
    ASSUME TypeInv, NEW c \in Slots, NEW w \in WaitTimes, TimerRunCall(c, w),
           NEW d \in Slots, d # c
    PROVE  /\ pc = "user" /\ pc' = "time" /\ slot' = c
           /\ age'[d] = age[d] /\ wait'[d] = wait[d] /\ fired'[d] = fired[d]
           /\ late'[d] = late[d] /\ wrapped'[d] = wrapped[d]
           /\ UNCHANGED <<shared, isCallbackFree, idx>>
BY Zenon DEF TimerRunCall, TypeInv, TypeOK

-----------------------------------------------------------------------------
(* No callback is early.                                                   *)

\* A slot whose time has not passed has the deadline it was armed with, in
\* timerRun's register until it is stored, in timeCallback from then on, and
\* the counter is as far from it as the slot is from its time.
Deadlines ==
    \A c \in Slots : age[c] < wait[c] /\ ~wrapped[c] =>
        cntMs + wait[c] =
            age[c] + (IF slot = c /\ pc = "time" THEN reg ELSE timeCallback[c])

LEMMA NextKeepsDeadlines ==
    TypeInv /\ Deadlines /\ [Next]_vars => Deadlines'
<1>. SUFFICES ASSUME TypeInv, Deadlines, [Next]_vars,
                     NEW c \in Slots, age'[c] < wait'[c], ~wrapped'[c]
              PROVE  cntMs' + wait'[c] =
                        age'[c] + (IF slot' = c /\ pc' = "time"
                                   THEN reg' ELSE timeCallback'[c])
  BY DEF Deadlines
<1>0. /\ cntMs \in 0 .. TickRange - 1 /\ timeCallback[c] \in 0 .. TickRange - 1
      /\ reg \in 0 .. TickRange - 1
      /\ age[c] \in 0 .. MaxAge /\ wait[c] \in 0 .. MaxAge
      /\ TickRange \in Nat \ {0} /\ MaxAge \in Nat
  BY SystemTimeAssumption DEF TypeInv, TypeOK
<1>. USE SystemTimeAssumption DEF TypeInv, TypeOK, Deadlines
<1>1. CASE TIMER1_IRQHandler
  <2>. HIDE DEF TypeInv, TypeOK, Deadlines
  <2>1. /\ cntMs' = (cntMs + 1) % TickRange /\ age'[c] = Older(age[c])
        /\ UNCHANGED <<timeCallback, pc, slot, reg, wait, wrapped>>
    BY <1>1, TickAt, Zenon
  <2>2. age[c] + 1 < wait[c] /\ age'[c] = age[c] + 1
    BY <1>0, <2>1 DEF Older
  <2>3. cntMs + wait[c] =
            age[c] + (IF slot = c /\ pc = "time" THEN reg ELSE timeCallback[c])
    BY <1>0, <2>1, <2>2 DEF Deadlines
  <2>4. cntMs + 1 < TickRange
    BY <1>0, <2>2, <2>3
  <2>5. cntMs' = cntMs + 1
    BY <1>0, <2>1, <2>4
  <2>. QED
    BY <1>0, <2>1, <2>2, <2>3, <2>5
<1>2. ASSUME NEW d \in Slots, TimerGetCallback(d)
      PROVE  UNCHANGED <<cntMs, timeCallback, pc, slot, reg, age, wait, wrapped>>
  BY <1>2 DEF TimerGetCallback
<1>3. ASSUME NEW d \in Slots, NEW w \in WaitTimes, TimerRunCall(d, w)
      PROVE  cntMs' + wait'[c] =
                age'[c] + (IF slot' = c /\ pc' = "time"
                           THEN reg' ELSE timeCallback'[c])
  <2>. HIDE DEF TypeInv, TypeOK, Deadlines
  <2>0. w \in Nat
    BY SystemTimeAssumption
  <2>1. CASE c = d
    <3>1. /\ pc' = "time" /\ slot' = c /\ reg' = (cntMs + w) % TickRange
          /\ age'[c] = 0 /\ wait'[c] = w /\ cntMs' = cntMs
          /\ wrapped'[c] <=> cntMs + w >= TickRange
      BY <1>3, <2>1, CallAt, Zenon DEF shared
    <3>2. cntMs + w < TickRange
      BY <1>0, <2>0, <3>1
    <3>. QED
      BY <1>0, <2>0, <3>1, <3>2
  <2>2. CASE c # d
    <3>1. /\ pc = "user" /\ slot' = d
          /\ age'[c] = age[c] /\ wait'[c] = wait[c] /\ wrapped'[c] = wrapped[c]
          /\ UNCHANGED <<cntMs, timeCallback>>
      BY <1>3, <2>2, CallElsewhere, Zenon DEF shared
    <3>. QED
      BY <2>2, <3>1 DEF Deadlines
  <2>. QED
    BY <2>1, <2>2
<1>4. CASE TimerRunTime
  BY <1>4 DEF TimerRunTime
<1>5. CASE TimerRunRun \/ TimerRunWaite
  BY <1>5 DEF TimerRunRun, TimerRunWaite
<1>6. CASE ProcessCall \/ ProcessCheck \/ ProcessClear
  BY <1>6 DEF ProcessCall, ProcessCheck, ProcessClear
<1>7. CASE ProcessTest \/ ProcessReset \/ CallbackReturn
  BY <1>7 DEF ProcessTest, ProcessReset, CallbackReturn, StepLoop
<1>8. CASE UNCHANGED vars
  BY <1>8 DEF vars
<1>. QED
  BY <1>1, <1>2, <1>3, <1>4, <1>5, <1>6, <1>7, <1>8
     DEF Next, User, TimerRunStep, ProcessStep

\* A callback is due only when the time of its slot has passed; until timerRun
\* has cleared runCallback, the call may be due from the time before.
DueInTime ==
    \A c \in Slots :
        runCallback[c] /\ ~wrapped[c] /\ ~(slot = c /\ pc \in {"time", "run"})
        => age[c] >= wait[c]

LEMMA NextKeepsDue ==
    TypeInv /\ Deadlines /\ DueInTime /\ [Next]_vars => DueInTime'
<1>. SUFFICES ASSUME TypeInv, Deadlines, DueInTime, [Next]_vars,
                     NEW c \in Slots, runCallback'[c], ~wrapped'[c],
                     ~(slot' = c /\ pc' \in {"time", "run"})
              PROVE  age'[c] >= wait'[c]
  BY DEF DueInTime
<1>0. /\ cntMs \in 0 .. TickRange - 1 /\ timeCallback[c] \in 0 .. TickRange - 1
      /\ age[c] \in 0 .. MaxAge /\ wait[c] \in 0 .. MaxAge
      /\ TickRange \in Nat \ {0} /\ MaxAge \in Nat
  BY SystemTimeAssumption DEF TypeInv, TypeOK
<1>1. CASE TIMER1_IRQHandler
  <2>1. /\ cntMs' = (cntMs + 1) % TickRange /\ age'[c] = Older(age[c])
        /\ UNCHANGED <<pc, slot, wait, wrapped>>
    BY <1>1, TickAt, Zenon
  <2>2. runCallback[c] \/ Due(c, cntMs')
    BY <1>1, TickAt, Zenon
  <2>3. CASE runCallback[c]
    <3>1. age[c] >= wait[c]
      BY <2>1, <2>3 DEF DueInTime
    <3>. QED
      BY <1>0, <2>1, <3>1 DEF Older
  <2>4. CASE Due(c, cntMs')
    <3>1. timeCallback[c] <= cntMs'
      BY <2>4 DEF Due
    <3>2. cntMs' <= cntMs + 1
      BY <1>0, <2>1
    <3>3. CASE age[c] < wait[c]
      <4>1. cntMs + wait[c] = age[c] + timeCallback[c]
        BY <2>1, <3>3 DEF Deadlines
      <4>. QED
        BY <1>0, <2>1, <3>1, <3>2, <3>3, <4>1 DEF Older
    <3>. QED
      BY <1>0, <2>1, <3>3 DEF Older
  <2>. QED
    BY <2>2, <2>3, <2>4
<1>2. ASSUME NEW d \in Slots, TimerGetCallback(d) PROVE age'[c] >= wait'[c]
  <2>1. runCallback[c]
    BY <1>2 DEF TimerGetCallback, TypeInv, TypeOK
  <2>2. pc = "user" /\ UNCHANGED <<age, wait, wrapped>>
    BY <1>2 DEF TimerGetCallback
  <2>. QED
    BY <2>1, <2>2 DEF DueInTime
<1>3. ASSUME NEW d \in Slots, NEW w \in WaitTimes, TimerRunCall(d, w)
      PROVE  age'[c] >= wait'[c]
  <2>1. c # d
    BY <1>3, CallAt
  <2>2. /\ pc = "user" /\ runCallback' = runCallback
        /\ age'[c] = age[c] /\ wait'[c] = wait[c] /\ wrapped'[c] = wrapped[c]
    BY <1>3, <2>1, CallElsewhere, Zenon DEF shared
  <2>. QED
    BY <2>2 DEF DueInTime
<1>4. CASE TimerRunStep
  <2>1. /\ UNCHANGED <<age, wait, wrapped>>
        /\ runCallback[c] /\ ~(slot = c /\ pc \in {"time", "run"})
    BY <1>4 DEF TimerRunStep, TimerRunTime, TimerRunRun, TimerRunWaite,
                TypeInv, TypeOK
  <2>. QED
    BY <2>1 DEF DueInTime
<1>5. CASE ProcessCall \/ ProcessStep \/ CallbackReturn
  <2>1. /\ UNCHANGED <<age, wait, wrapped>> /\ pc \notin {"time", "run"}
        /\ runCallback[c]
    BY <1>5 DEF ProcessCall, ProcessStep, ProcessCheck, ProcessClear,
                ProcessTest, ProcessReset, CallbackReturn, TypeInv, TypeOK
  <2>. QED
    BY <2>1 DEF DueInTime
<1>6. CASE UNCHANGED vars
  BY <1>6 DEF vars, DueInTime
<1>. QED
  BY <1>1, <1>2, <1>3, <1>4, <1>5, <1>6 DEF Next, User

\* No callback is due before the time timerRun was called with has passed,
\* whatever was left in the slot and wherever the interrupt finds timerRun, as
\* long as the deadline is within the range of the counter.
THEOREM NoneEarly == Spec => []NotEarly
<1>1. Init => Deadlines /\ DueInTime
  BY DEF Init, Deadlines, DueInTime
<1>2. DueInTime => NotEarly
  BY DEF DueInTime, NotEarly, Arming
<1>. QED
  BY <1>1, <1>2, InitType, NextType, NextKeepsDeadlines, NextKeepsDue, PTL
     DEF Spec

-----------------------------------------------------------------------------
(* No callback is called twice.                                            *)

\* timerRun returned, or will return, before the deadline of the slot
InTime(c) == ~late[c] /\ ~wrapped[c]

\* While timerRun arms a slot in time, and as long as the slot then waits, it
\* has neither been called nor had its time, and what it was armed for before
\* is forgotten; a call that is due has not been made.
CalledOnceAt(c) ==
    /\ fired[c] <= 1
    /\ Arming(c) => fired[c] = 0 /\ age[c] < wait[c]
    /\ Arming(c) /\ pc = "waite" => ~runCallback[c]
    /\ ~Arming(c) /\ waiteCallback[c] =>
           ~runCallback[c] /\ fired[c] = 0 /\ age[c] < wait[c]
    /\ ~Arming(c) /\ runCallback[c] => fired[c] = 0

CalledOnce == \A c \in Slots : InTime(c) => CalledOnceAt(c)

\* nothing takes the call back between the test of runCallback and its clearing
TestDue == pc = "reset" => runCallback[idx]

LEMMA NextKeepsTestDue == TypeInv /\ TestDue /\ [Next]_vars => TestDue'
<1>. SUFFICES ASSUME TypeInv, TestDue, [Next]_vars, pc' = "reset"
              PROVE  runCallback'[idx']
  BY DEF TestDue
<1>1. CASE TIMER1_IRQHandler
  <2>1. pc = "reset" /\ idx' = idx
    BY <1>1 DEF TIMER1_IRQHandler
  <2>2. idx \in Slots
    BY <2>1, SystemTimeAssumption DEF TypeInv, TypeOK, LoopPlaces, InLoop
  <2>3. runCallback'[idx] <=> runCallback[idx] \/ Due(idx, cntMs')
    BY <1>1, <2>2, TickAt, Zenon
  <2>. QED
    BY <2>1, <2>3 DEF TestDue
<1>2. CASE ProcessTest
  <2>1. /\ runCallback' = runCallback
        /\ \/ runCallback[idx] /\ idx' = idx
           \/ StepLoop
    BY <1>2, Zenon DEF ProcessTest
  <2>2. ~StepLoop
    BY DEF StepLoop
  <2>. QED
    BY <2>1, <2>2
<1>3. CASE User
  BY <1>3, Zenon DEF User, TimerGetCallback, TimerRunCall
<1>4. CASE TimerRunStep \/ ProcessCall \/ ProcessCheck \/ ProcessClear
  BY <1>4 DEF TimerRunStep, TimerRunTime, TimerRunRun, TimerRunWaite,
              ProcessCall, ProcessCheck, ProcessClear
<1>5. CASE ProcessReset \/ CallbackReturn
  BY <1>5 DEF ProcessReset, CallbackReturn, StepLoop
<1>6. CASE UNCHANGED vars
  BY <1>6 DEF vars, TestDue
<1>. QED
  BY <1>1, <1>2, <1>3, <1>4, <1>5, <1>6 DEF Next, ProcessStep

LEMMA NextKeepsCalledOnce ==
    TypeInv /\ Deadlines /\ TestDue /\ CalledOnce /\ [Next]_vars => CalledOnce'
<1>. SUFFICES ASSUME TypeInv, Deadlines, TestDue, CalledOnce, [Next]_vars,
                     NEW c \in Slots, InTime(c)'
              PROVE  CalledOnceAt(c)'
  BY DEF CalledOnce
<1>0. /\ cntMs \in 0 .. TickRange - 1 /\ timeCallback[c] \in 0 .. TickRange - 1
      /\ age[c] \in 0 .. MaxAge /\ wait[c] \in 0 .. MaxAge /\ fired[c] \in 0 .. 2
      /\ TickRange \in Nat \ {0} /\ MaxAge \in Nat
  BY SystemTimeAssumption DEF TypeInv, TypeOK
<1>1. CASE TIMER1_IRQHandler
  <2>1. /\ cntMs' = (cntMs + 1) % TickRange /\ age'[c] = Older(age[c])
        /\ UNCHANGED <<pc, slot, wait, fired, wrapped>>
        /\ waiteCallback'[c] <=> StillWaiting(c, cntMs')
        /\ runCallback'[c] <=> runCallback[c] \/ Due(c, cntMs')
    BY <1>1, TickAt, Zenon
  <2>2. ~late[c] /\ ~(Arming(c) /\ Older(age[c]) >= wait[c])
    BY <1>1, TickAt, Zenon DEF InTime
  <2>3. InTime(c) /\ CalledOnceAt(c)
    BY <2>1, <2>2 DEF InTime, CalledOnce
  <2>4. Arming(c)' <=> Arming(c)
    BY <2>1 DEF Arming
  <2>5. fired'[c] = fired[c] /\ wait'[c] = wait[c] /\ ~wrapped[c]
    BY <2>1, <2>3 DEF InTime
  \* before its time the deadline of the slot is the next tick or a later one
  <2>6. ASSUME age[c] < wait[c], ~(slot = c /\ pc = "time")
        PROVE  /\ age'[c] = age[c] + 1 /\ cntMs' = cntMs + 1
               /\ timeCallback[c] = cntMs + wait[c] - age[c]
    <3>1. cntMs + wait[c] = age[c] + timeCallback[c]
      BY <2>5, <2>6 DEF Deadlines
    <3>. QED
      BY <1>0, <2>1, <2>6, <3>1 DEF Older
  <2>7. CASE Arming(c)
    <3>1. fired[c] = 0 /\ age[c] < wait[c] /\ (pc = "waite" => ~runCallback[c])
      BY <2>3, <2>7 DEF CalledOnceAt
    <3>2. age'[c] < wait'[c]
      BY <1>0, <2>1, <2>2, <2>5, <2>7, <3>1 DEF Older
    <3>3. ASSUME pc = "waite" PROVE ~runCallback'[c]
      <4>1. timeCallback[c] > cntMs'
        BY <1>0, <2>5, <2>6, <3>1, <3>2, <3>3
      <4>2. ~Due(c, cntMs')
        BY <1>0, <2>1, <4>1 DEF Due
      <4>. QED
        BY <2>1, <3>1, <3>3, <4>2
    <3>. QED
      BY <2>1, <2>4, <2>5, <2>7, <3>1, <3>2, <3>3 DEF CalledOnceAt
  <2>8. CASE ~Arming(c)
    <3>1. ~(slot = c /\ pc = "time")
      BY <2>8 DEF Arming
    <3>2. ASSUME waiteCallback'[c]
          PROVE  ~runCallback'[c] /\ fired'[c] = 0 /\ age'[c] < wait'[c]
      <4>1. waiteCallback[c] /\ ~(Due(c, cntMs') /\ timeCallback[c] >= cntMs')
        BY <2>1, <3>2 DEF StillWaiting
      <4>2. ~runCallback[c] /\ fired[c] = 0 /\ age[c] < wait[c]
        BY <2>3, <2>8, <4>1 DEF CalledOnceAt
      <4>3. timeCallback[c] >= cntMs'
        BY <1>0, <2>6, <3>1, <4>2
      <4>4. ~Due(c, cntMs')
        BY <4>1, <4>3
      <4>5. timeCallback[c] # cntMs'
        BY <1>0, <2>1, <4>1, <4>3, <4>4 DEF Due
      <4>. QED
        BY <1>0, <2>1, <2>5, <2>6, <3>1, <4>2, <4>3, <4>4, <4>5
    <3>3. ASSUME runCallback'[c] PROVE fired'[c] = 0
      <4>1. runCallback[c] \/ waiteCallback[c]
        BY <2>1, <3>3 DEF Due
      <4>. QED
        BY <2>3, <2>5, <2>8, <4>1 DEF CalledOnceAt
    <3>4. fired'[c] <= 1
      BY <2>3, <2>5 DEF CalledOnceAt
    <3>. QED
      BY <2>4, <2>8, <3>2, <3>3, <3>4 DEF CalledOnceAt
  <2>. QED
    BY <2>7, <2>8
<1>2. ASSUME NEW d \in Slots, TimerGetCallback(d) PROVE CalledOnceAt(c)'
  <2>1. /\ runCallback'[c] => runCallback[c]
        /\ waiteCallback'[c] => waiteCallback[c]
    BY <1>2 DEF TimerGetCallback, TypeInv, TypeOK
  <2>2. UNCHANGED <<pc, slot, age, wait, fired, late, wrapped>>
    BY <1>2 DEF TimerGetCallback
  <2>3. CalledOnceAt(c)
    BY <2>2 DEF InTime, CalledOnce
  <2>. QED
    BY <2>1, <2>2, <2>3 DEF CalledOnceAt, Arming
<1>3. ASSUME NEW d \in Slots, NEW w \in WaitTimes, TimerRunCall(d, w)
      PROVE  CalledOnceAt(c)'
  <2>1. CASE c = d
    <3>1. /\ pc' = "time" /\ slot' = c /\ age'[c] = 0 /\ wait'[c] = w
          /\ fired'[c] = 0
          /\ late'[c] <=> w = 0
      BY <1>3, <2>1, CallAt, Zenon
    <3>2. ~late'[c] /\ w \in Nat
      BY SystemTimeAssumption DEF InTime
    <3>3. w > 0
      BY <3>1, <3>2
    <3>. QED
      BY <3>1, <3>3 DEF CalledOnceAt, Arming
  <2>2. CASE c # d
    <3>1. /\ pc = "user" /\ pc' = "time" /\ slot' = d
          /\ age'[c] = age[c] /\ wait'[c] = wait[c] /\ fired'[c] = fired[c]
          /\ late'[c] = late[c] /\ wrapped'[c] = wrapped[c]
          /\ UNCHANGED <<runCallback, waiteCallback>>
      BY <1>3, <2>2, CallElsewhere, Zenon DEF shared
    <3>2. CalledOnceAt(c) /\ ~Arming(c) /\ ~Arming(c)'
      BY <2>2, <3>1 DEF InTime, CalledOnce, Arming
    <3>. QED
      BY <3>1, <3>2 DEF CalledOnceAt
  <2>. QED
    BY <2>1, <2>2
<1>4. CASE TimerRunStep
  <2>1. CalledOnceAt(c)
    BY <1>4 DEF TimerRunStep, TimerRunTime, TimerRunRun, TimerRunWaite,
                InTime, CalledOnce, history
  <2>. USE DEF TypeInv, TypeOK
  <2>2. CASE TimerRunTime
    BY <2>1, <2>2 DEF TimerRunTime, CalledOnceAt, Arming
  <2>3. CASE TimerRunRun
    BY <2>1, <2>3 DEF TimerRunRun, CalledOnceAt, Arming
  <2>4. CASE TimerRunWaite
    BY <2>1, <2>4 DEF TimerRunWaite, CalledOnceAt, Arming
  <2>. QED
    BY <1>4, <2>2, <2>3, <2>4 DEF TimerRunStep
<1>5. CASE ProcessReset
  <2>1. /\ pc = "reset" /\ pc' = "user" /\ UNCHANGED <<slot, waiteCallback>>
        /\ UNCHANGED <<age, wait, late, wrapped>>
        /\ runCallback' = [runCallback EXCEPT ![idx] = FALSE]
        /\ fired' = [fired EXCEPT ![idx] = IF @ < 2 THEN @ + 1 ELSE @]
    BY <1>5 DEF ProcessReset
  <2>2. CalledOnceAt(c) /\ ~Arming(c) /\ ~Arming(c)'
    BY <2>1 DEF InTime, CalledOnce, Arming
  <2>3. CASE c = idx
    <3>1. runCallback[c] /\ fired[c] = 0 /\ ~waiteCallback[c]
      BY <2>1, <2>2, <2>3 DEF TestDue, CalledOnceAt
    <3>2. fired'[c] = 1 /\ ~runCallback'[c]
      BY <2>1, <2>3, <3>1 DEF TypeInv, TypeOK
    <3>. QED
      BY <2>1, <2>2, <3>1, <3>2 DEF CalledOnceAt
  <2>4. CASE c # idx
    <3>1. fired'[c] = fired[c] /\ runCallback'[c] = runCallback[c]
      BY <2>1, <2>4 DEF TypeInv, TypeOK
    <3>. QED
      BY <2>1, <2>2, <3>1 DEF CalledOnceAt
  <2>. QED
    BY <2>3, <2>4
<1>6. CASE ProcessCall \/ ProcessCheck \/ ProcessClear \/ ProcessTest
           \/ CallbackReturn
  <2>1. /\ pc \notin {"time", "run", "waite"}
        /\ pc' \notin {"time", "run", "waite"}
        /\ UNCHANGED <<runCallback, waiteCallback, history>>
    BY <1>6 DEF ProcessCall, ProcessCheck, ProcessClear, ProcessTest,
                CallbackReturn, StepLoop
  <2>2. CalledOnceAt(c)
    BY <2>1 DEF InTime, CalledOnce
  <2>. QED
    BY <2>1, <2>2 DEF CalledOnceAt, Arming
<1>7. CASE UNCHANGED vars
  BY <1>7 DEF vars, InTime, CalledOnce, CalledOnceAt, Arming
<1>. QED
  BY <1>1, <1>2, <1>3, <1>4, <1>5, <1>6, <1>7 DEF Next, User, ProcessStep

\* A callback is called at most once for a timerRun that returned before its
\* deadline, and never while the slot waits: neither a call left over from the
\* time before nor a second tick at the deadline brings another one.
THEOREM OnlyOneShot == Spec => []OneShot
<1>1. Init => CalledOnce /\ TestDue /\ Deadlines
  BY DEF Init, CalledOnce, CalledOnceAt, InTime, Arming, TestDue, Deadlines
<1>2. TypeInv /\ CalledOnce => OneShot
  <2>1. ASSUME TypeInv, CalledOnce, NEW c \in Slots, InTime(c)
        PROVE  /\ fired[c] <= 1
               /\ fired[c] = 1 => ~waiteCallback[c] \/ Arming(c)
    BY <2>1 DEF CalledOnce, CalledOnceAt
  <2>. QED
    BY <2>1 DEF OneShot, InTime
<1>. QED
  BY <1>1, <1>2, InitType, NextType, NextKeepsDeadlines, NextKeepsTestDue,
     NextKeepsCalledOnce, PTL DEF Spec
=============================================================================
