--------------------------- MODULE NrfSdh_proofs ---------------------------
(***************************************************************************)
(* Proofs about AppScheduler and NrfSdh, for every size of the queue, any  *)
(* interrupts and events and any number of arrivals.  No slot of the       *)
(* scheduler has two owners, and it implements the safety part of          *)
(* EventQueue.  NrfSdh uses it as AppScheduler allows, so that these       *)
(* theorems hold of the firmware, and no event of the stack is forgotten.  *)
(***************************************************************************)
EXTENDS NrfSdh, TLAPS

-----------------------------------------------------------------------------
(* The scheduler.                                                          *)

USE DEF queue, executing, At

\* what the main loop knows of the slot it handles
MainPlaces ==
    /\ pc \in {"call", "run"} <=> index # NoSlot
    /\ index # NoSlot => index = startIndex
    /\ pc \in {"take", "call", "run"} => startIndex # endIndex
    /\ pc = "run" => called \in Handlers

\* the header is written before the data
HeaderFirst ==
    \A i \in Interrupts :
        isr[i].pc = "data" => handler[isr[i].index] = isr[i].event.handler

\* what was written is an event
SlotsHoldEvents ==
    \A s \in Taken :
        \/ \E i \in Interrupts : Writing(i) /\ isr[i].index = s
        \/ handler[s] \in Handlers /\ data[s] \in Data

SchedInv ==
    /\ SchedTypeOK
    /\ SlotsAreExclusive
    /\ MainPlaces
    /\ HeaderFirst
    /\ SlotsHoldEvents

LEMMA NextIndexType ==
    ASSUME NEW s \in Slots
    PROVE  NextIndex(s) \in Slots
BY SchedulerAssumption DEF NextIndex, Slots

-----------------------------------------------------------------------------
LEMMA InitSchedInv == SchedInit => SchedInv
<1>. SUFFICES ASSUME SchedInit PROVE SchedInv
  OBVIOUS
<1>. USE SchedulerAssumption DEF SchedInit, Slots
<1>1. SchedTypeOK
  <2>1. fault \in BOOLEAN
    BY Zenon DEF SchedInit
  <2>. QED
    BY <2>1 DEF SchedTypeOK, Idle, Writing
<1>2. SlotsAreExclusive /\ MainPlaces /\ HeaderFirst
  BY DEF SlotsAreExclusive, MainPlaces, HeaderFirst, Writing, Idle
<1>3. SlotsHoldEvents
  BY DEF SlotsHoldEvents, Taken
<1>. QED
  BY <1>1, <1>2, <1>3 DEF SchedInv

LEMMA RestartSchedInv == Restart => SchedInv'
<1>. SUFFICES ASSUME Restart PROVE SchedInv'
  OBVIOUS
<1>. USE SchedulerAssumption DEF Restart, Slots
<1>1. SchedTypeOK'
  <2>1. fault' \in BOOLEAN
    BY Zenon DEF Restart
  <2>. QED
    BY <2>1 DEF SchedTypeOK, Idle, Writing
<1>2. (SlotsAreExclusive /\ MainPlaces /\ HeaderFirst)'
  BY DEF SlotsAreExclusive, MainPlaces, HeaderFirst, Writing, Idle
<1>3. SlotsHoldEvents'
  BY DEF SlotsHoldEvents, Taken
<1>. QED
  BY <1>1, <1>2, <1>3 DEF SchedInv

LEMMA EnterPutSchedInv ==
    ASSUME SchedInv, NEW i \in Interrupts, NEW e \in Events, EnterPut(i, e)
    PROVE  SchedInv'
<1>. USE SchedulerAssumption DEF SchedInv, EnterPut, MayEnter, Active
<1>1. isr'[i] = [pc |-> "reserve", event |-> e, index |-> NoSlot]
  BY DEF SchedTypeOK, Idle
<1>2. \A j \in Interrupts : j # i => isr'[j] = isr[j]
  BY DEF SchedTypeOK
<1>3. e # NoSlot
  BY DEF Events
<1>4. SchedTypeOK'
  BY <1>1, <1>2, <1>3 DEF SchedTypeOK, Writing, Idle
<1>5. SlotsAreExclusive'
  <2>1. \A j \in Interrupts : Writing(j)' =>
            Writing(j) /\ isr'[j].index = isr[j].index
    BY <1>1, <1>2 DEF Writing
  <2>2. SlotsAreExclusive /\ Taken' = Taken /\ index' = index
    BY DEF Taken
  <2>. QED
    BY ONLY <2>1, <2>2 DEF SlotsAreExclusive
<1>6. MainPlaces' /\ HeaderFirst'
  BY <1>1, <1>2 DEF MainPlaces, HeaderFirst
<1>7. SlotsHoldEvents'
  BY <1>1, <1>2 DEF SlotsHoldEvents, Writing, Taken
<1>. QED
  BY <1>4, <1>5, <1>6, <1>7

LEMMA ReserveSchedInv ==
    ASSUME SchedInv, NEW i \in Interrupts, Reserve(i)
    PROVE  SchedInv'
<1>. USE SchedulerAssumption DEF SchedInv, Reserve
<1>1. /\ isr'[i].pc = "header" /\ isr'[i].index = endIndex
      /\ isr'[i].event = isr[i].event
  BY DEF SchedTypeOK
<1>2. \A j \in Interrupts : j # i => isr'[j] = isr[j]
  BY DEF SchedTypeOK
<1>3. endIndex \in Slots /\ endIndex' = NextIndex(endIndex) /\ endIndex' \in Slots
  BY NextIndexType DEF SchedTypeOK
<1>4. SchedTypeOK'
  <2>1. isr' \in [Interrupts -> [pc : {"idle", "reserve", "header", "data"},
                                 event : Events \cup {NoSlot},
                                 index : Slots \cup {NoSlot}]]
    BY <1>3 DEF SchedTypeOK
  <2>2. endIndex # NoSlot
    BY <1>3 DEF Slots
  <2>3. \A j \in Interrupts :
           /\ isr'[j].pc = "idle" <=> isr'[j].event = NoSlot
           /\ Writing(j)' <=> isr'[j].index # NoSlot
    BY <1>1, <1>2, <2>2 DEF SchedTypeOK, Writing
  <2>. QED
    BY <1>3, <2>1, <2>3 DEF SchedTypeOK
<1>5. /\ endIndex \notin Taken
      /\ Taken' = Taken \cup {endIndex}
  BY <1>3 DEF Taken, Full, NextIndex, Slots, SchedTypeOK
<1>6. endIndex # index
  BY <1>3 DEF MainPlaces, SchedTypeOK, Slots
<1>7. SlotsAreExclusive'
  <2>1. \A j \in Interrupts : j # i /\ Writing(j)' =>
            Writing(j) /\ isr'[j].index = isr[j].index
    BY <1>2 DEF Writing
  <2>2. SlotsAreExclusive /\ index' = index
    OBVIOUS
  <2>. QED
    BY ONLY <1>1, <1>5, <1>6, <2>1, <2>2, i \in Interrupts DEF SlotsAreExclusive
<1>8. MainPlaces'
  <2>1. startIndex # endIndex'
    BY <1>3 DEF Full
  <2>2. MainPlaces /\ UNCHANGED <<startIndex, executing>>
    OBVIOUS
  <2>. QED
    BY ONLY <2>1, <2>2 DEF MainPlaces, executing
<1>9. HeaderFirst'
  <2>1. HeaderFirst /\ handler' = handler
    OBVIOUS
  <2>. QED
    BY ONLY <1>1, <1>2, <2>1 DEF HeaderFirst
<1>10. SlotsHoldEvents'
  <2>1. \A j \in Interrupts : Writing(j) =>
            Writing(j)' /\ isr'[j].index = isr[j].index
    BY <1>1, <1>2 DEF Writing
  <2>2. Writing(i)'
    BY <1>1 DEF Writing
  <2>3. SlotsHoldEvents /\ handler' = handler /\ data' = data
    OBVIOUS
  <2>. QED
    BY ONLY <1>1, <1>5, <2>1, <2>2, <2>3, i \in Interrupts DEF SlotsHoldEvents
<1>. QED
  BY <1>4, <1>7, <1>8, <1>9, <1>10

LEMMA PutRefusedSchedInv ==
    ASSUME SchedInv, NEW i \in Interrupts, PutRefused(i)
    PROVE  SchedInv'
<1>. USE DEF SchedInv, PutRefused
<1>1. SchedTypeOK'
  BY DEF SchedTypeOK, Writing
<1>2. SlotsAreExclusive' /\ SlotsHoldEvents'
  BY DEF SlotsAreExclusive, SlotsHoldEvents, Writing, Taken
<1>3. MainPlaces' /\ HeaderFirst'
  BY DEF MainPlaces, HeaderFirst
<1>. QED
  BY <1>1, <1>2, <1>3

LEMMA WriteHeaderSchedInv ==
    ASSUME SchedInv, NEW i \in Interrupts, WriteHeader(i)
    PROVE  SchedInv'
<1>. USE DEF SchedInv, WriteHeader
<1>1. /\ isr'[i].pc = "data" /\ isr'[i].index = isr[i].index
      /\ isr'[i].event = isr[i].event
      /\ isr' \in [Interrupts -> [pc : {"idle", "reserve", "header", "data"},
                                  event : Events \cup {NoSlot},
                                  index : Slots \cup {NoSlot}]]
  BY DEF SchedTypeOK
<1>2. \A j \in Interrupts : j # i => isr'[j] = isr[j]
  BY DEF SchedTypeOK
<1>3. \A j \in Interrupts : /\ Writing(j)' <=> Writing(j)
                            /\ isr'[j].index = isr[j].index
  BY <1>1, <1>2 DEF Writing
<1>4. isr[i].index \in Slots /\ isr[i].event \in Events
  BY DEF SchedTypeOK, Writing
<1>5. isr[i].event.handler \in Handlers
  BY <1>4 DEF Events
<1>6. SchedTypeOK'
  <2>1. handler' \in [Slots -> Handlers \cup {NoSlot}]
    BY <1>4, <1>5 DEF SchedTypeOK
  <2>2. \A j \in Interrupts :
           /\ isr'[j].pc = "idle" <=> isr'[j].event = NoSlot
           /\ Writing(j)' <=> isr'[j].index # NoSlot
    BY <1>1, <1>2, <1>3 DEF SchedTypeOK
  <2>. QED
    BY <1>1, <2>1, <2>2 DEF SchedTypeOK
<1>7. SlotsAreExclusive' /\ MainPlaces'
  BY <1>3 DEF SlotsAreExclusive, MainPlaces, Taken
<1>8. HeaderFirst'
  <2>1. handler'[isr[i].index] = isr[i].event.handler
    BY <1>4 DEF SchedTypeOK
  <2>2. \A j \in Interrupts : j # i /\ isr[j].pc = "data" =>
           handler'[isr[j].index] = handler[isr[j].index]
    BY <1>4 DEF SlotsAreExclusive, Writing, SchedTypeOK
  <2>. QED
    BY <1>1, <1>2, <2>1, <2>2 DEF HeaderFirst
<1>9. SlotsHoldEvents'
  <2>1. \A s \in Slots : s # isr[i].index => handler'[s] = handler[s]
    BY DEF SchedTypeOK
  <2>2. Writing(i)' /\ isr'[i].index = isr[i].index /\ Taken' = Taken
    BY <1>1 DEF Writing, Taken
  <2>3. Taken \subseteq Slots
    BY DEF Taken
  <2>. QED
    BY <1>3, <2>1, <2>2, <2>3 DEF SlotsHoldEvents
<1>. QED
  BY <1>6, <1>7, <1>8, <1>9

LEMMA WriteDataSchedInv ==
    ASSUME SchedInv, NEW i \in Interrupts, WriteData(i)
    PROVE  SchedInv'
<1>. USE DEF SchedInv, WriteData
<1>1. /\ isr'[i] = Idle
      /\ isr' \in [Interrupts -> [pc : {"idle", "reserve", "header", "data"},
                                  event : Events \cup {NoSlot},
                                  index : Slots \cup {NoSlot}]]
  BY DEF SchedTypeOK, Idle
<1>2. \A j \in Interrupts : j # i => isr'[j] = isr[j]
  BY DEF SchedTypeOK
<1>3. isr[i].index \in Slots /\ isr[i].event \in Events
  BY DEF SchedTypeOK, Writing
<1>4. isr[i].event.data \in Data /\ isr[i].event.handler \in Handlers
  BY <1>3 DEF Events
<1>5. SchedTypeOK'
  <2>1. data' \in [Slots -> Data \cup {NoSlot}]
    BY <1>3, <1>4 DEF SchedTypeOK
  <2>2. \A j \in Interrupts :
           /\ isr'[j].pc = "idle" <=> isr'[j].event = NoSlot
           /\ Writing(j)' <=> isr'[j].index # NoSlot
    BY <1>1, <1>2 DEF SchedTypeOK, Writing, Idle
  <2>. QED
    BY <1>1, <2>1, <2>2 DEF SchedTypeOK
<1>6. SlotsAreExclusive' /\ MainPlaces'
  BY <1>1, <1>2 DEF SlotsAreExclusive, MainPlaces, Writing, Taken, Idle
<1>7. HeaderFirst'
  BY <1>1, <1>2 DEF HeaderFirst, Idle
<1>8. SlotsHoldEvents'
  <2>1. \A s \in Slots : s # isr[i].index => data'[s] = data[s]
    BY DEF SchedTypeOK
  <2>2. /\ data'[isr[i].index] \in Data
        /\ handler[isr[i].index] \in Handlers
    BY <1>3, <1>4 DEF HeaderFirst, SchedTypeOK
  <2>3. Taken' = Taken /\ Taken \subseteq Slots
    BY DEF Taken
  <2>4. \A j \in Interrupts : j # i => (Writing(j)' <=> Writing(j))
    BY <1>2 DEF Writing
  <2>. QED
    BY <1>2, <2>1, <2>2, <2>3, <2>4 DEF SlotsHoldEvents
<1>. QED
  BY <1>5, <1>6, <1>7, <1>8

LEMMA MainLoopSchedInv ==
    ASSUME SchedInv, MainLoop
    PROVE  SchedInv'
<1>. USE SchedulerAssumption DEF SchedInv, Slots
<1>1. \A i \in Interrupts : ~Writing(i)
  BY DEF MainLoop, Execute, TakeIndex, CallHandler, HandlerReturns, LoopAgain,
         MainRuns, Active, Writing
<1>2. isr' = isr /\ \A i \in Interrupts : ~Writing(i)'
  BY <1>1 DEF MainLoop, Execute, TakeIndex, CallHandler, HandlerReturns,
              LoopAgain, Writing
<1>3. SlotsAreExclusive'
  BY <1>2 DEF SlotsAreExclusive
<1>4. HeaderFirst'
  BY <1>2 DEF HeaderFirst, Writing
<1>5. CASE Execute \/ TakeIndex \/ LoopAgain
  <2>. USE <1>5 DEF Execute, TakeIndex, LoopAgain
  <2>1. SchedTypeOK'
    BY DEF SchedTypeOK, Writing
  <2>2. MainPlaces'
    BY DEF MainPlaces, SchedTypeOK, Empty
  <2>3. SlotsHoldEvents'
    BY <1>2 DEF SlotsHoldEvents, Taken, Writing
  <2>. QED
    BY <1>3, <1>4, <2>1, <2>2, <2>3
<1>6. CASE CallHandler
  <2>. USE <1>6 DEF CallHandler
  <2>1. index = startIndex /\ startIndex \in Taken /\ handler[index] \in Handlers
    BY <1>1 DEF MainPlaces, SlotsHoldEvents, Taken, SchedTypeOK
  <2>2. SchedTypeOK'
    BY <2>1 DEF SchedTypeOK, Writing
  <2>3. MainPlaces'
    BY <2>1 DEF MainPlaces, SchedTypeOK
  <2>4. SlotsHoldEvents'
    BY <1>2 DEF SlotsHoldEvents, Taken, Writing
  <2>. QED
    BY <1>3, <1>4, <2>2, <2>3, <2>4
<1>7. CASE HandlerReturns
  <2>. USE <1>7 DEF HandlerReturns
  <2>1. startIndex' \in Slots
    BY NextIndexType DEF SchedTypeOK
  <2>2. SchedTypeOK'
    BY <2>1 DEF SchedTypeOK, Writing
  <2>3. MainPlaces'
    BY DEF MainPlaces
  <2>4. Taken' \subseteq Taken
    BY <2>1 DEF Taken, NextIndex, MainPlaces, SchedTypeOK
  <2>5. SlotsHoldEvents'
    BY <1>2, <2>4 DEF SlotsHoldEvents, Writing
  <2>. QED
    BY <1>3, <1>4, <2>2, <2>3, <2>5
<1>. QED
  BY <1>5, <1>6, <1>7 DEF MainLoop

LEMMA NextSchedInv == SchedInv /\ [SchedNext]_schedVars => SchedInv'
<1>. SUFFICES ASSUME SchedInv, [SchedNext]_schedVars PROVE SchedInv'
  OBVIOUS
<1>1. CASE UNCHANGED schedVars
  BY <1>1 DEF schedVars, SchedInv, SchedTypeOK, SlotsAreExclusive, MainPlaces,
              HeaderFirst, SlotsHoldEvents, Taken, Writing
<1>2. CASE \E i \in Interrupts, e \in Events : EnterPut(i, e)
  BY <1>2, EnterPutSchedInv
<1>3. CASE \E i \in Interrupts : Put(i)
  BY <1>3, ReserveSchedInv, PutRefusedSchedInv, WriteHeaderSchedInv,
     WriteDataSchedInv DEF Put
<1>4. CASE MainLoop
  BY <1>4, MainLoopSchedInv
<1>5. CASE Restart
  BY <1>5, RestartSchedInv
<1>. QED
  BY <1>1, <1>2, <1>3, <1>4, <1>5 DEF SchedNext

LEMMA SchedInvariant == SchedSpec => []SchedInv
BY InitSchedInv, NextSchedInv, PTL DEF SchedSpec

\* The indices stay in the buffer, whatever the interrupts do.
THEOREM SchedTypeCorrect == SchedSpec => []SchedTypeOK
BY SchedInvariant, PTL DEF SchedInv

\* No slot is written that the main loop handles or that another interrupt is
\* writing: the critical region around the index alone is enough.
THEOREM NoSlotHasTwoOwners == SchedSpec => []SlotsAreExclusive
BY SchedInvariant, PTL DEF SchedInv

-----------------------------------------------------------------------------
(* The refinement.                                                         *)

Written(s) == \A i \in Interrupts : ~(Writing(i) /\ isr[i].index = s)

Header(s) == [handler |-> handler[s], data |-> data[s]]

\* EventAt, without its CHOOSE
EventsAt ==
    \A s \in Slots :
        /\ \A i \in Interrupts :
             Writing(i) /\ isr[i].index = s => EventAt(s) = isr[i].event
        /\ Written(s) => EventAt(s) = Header(s)

LEMMA EventsAtHolds == SchedInv => EventsAt
<1>. SUFFICES ASSUME SchedInv, NEW s \in Slots
              PROVE  /\ \A i \in Interrupts :
                          Writing(i) /\ isr[i].index = s =>
                              EventAt(s) = isr[i].event
                     /\ Written(s) => EventAt(s) = Header(s)
  BY DEF EventsAt
<1>1. ASSUME NEW i \in Interrupts, Writing(i), isr[i].index = s
      PROVE  EventAt(s) = isr[i].event
  <2>1. isr[i].event \in Events
    BY <1>1 DEF SchedInv, SchedTypeOK, Writing
  <2>2. \A j \in Interrupts : Writing(j) /\ isr[j].index = s => j = i
    BY <1>1 DEF SchedInv, SlotsAreExclusive
  <2>. QED
    BY ONLY <1>1, <2>1, <2>2, i \in Interrupts DEF EventAt
<1>2. ASSUME Written(s) PROVE EventAt(s) = Header(s)
  BY <1>2 DEF EventAt, Written, Header
<1>. QED
  BY <1>1, <1>2

LEMMA CountType ==
    SchedInv => /\ Count \in 0 .. QueueSize
                /\ \A k \in 1 .. Count : Slot(k) \in Slots
BY SchedulerAssumption DEF SchedInv, SchedTypeOK, Slots, Count, Slot

\* the queue is unchanged when the indices are and its events are
LEMMA SamePending ==
    ASSUME SchedInv, UNCHANGED <<startIndex, endIndex>>,
           \A s \in Slots : EventAt(s)' = EventAt(s)
    PROVE  Pending' = Pending
<1>1. Count' = Count /\ \A k \in 1 .. Count : Slot(k)' = Slot(k)
  BY DEF Count, Slot
<1>2. \A k \in 1 .. Count : Slot(k) \in Slots
  BY CountType
<1>3. \A k \in 1 .. Count : EventAt(Slot(k))' = EventAt(Slot(k))
  BY <1>1, <1>2
<1>. QED
  BY <1>1, <1>3 DEF Pending

LEMMA EnterPutRefines ==
    ASSUME SchedInv, SchedInv', NEW i \in Interrupts, NEW e \in Events,
           EnterPut(i, e)
    PROVE  UNCHANGED Queue!vars
<1>. USE DEF EnterPut
<1>1. ~Writing(i) /\ ~Writing(i)'
  BY DEF SchedInv, SchedTypeOK, MayEnter, Active, Writing
<1>2. \A j \in Interrupts : j # i => isr'[j] = isr[j]
  BY DEF SchedInv, SchedTypeOK
<1>3. \A j \in Interrupts : Writing(j)' <=> Writing(j)
  BY <1>1, <1>2 DEF Writing
<1>4. EventsAt /\ EventsAt'
  BY EventsAtHolds, PTL
<1>5. ASSUME NEW s \in Slots PROVE EventAt(s)' = EventAt(s)
  <2>1. CASE Written(s)
    <3>1. Written(s)'
      BY <1>1, <1>2, <1>3, <2>1 DEF Written
    <3>. QED
      BY <1>4, <2>1, <3>1 DEF EventsAt, Header
  <2>2. CASE ~Written(s)
    <3>1. PICK j \in Interrupts : Writing(j) /\ isr[j].index = s
      BY <2>2 DEF Written
    <3>2. j # i /\ Writing(j)' /\ isr'[j] = isr[j]
      BY <1>1, <1>2, <1>3, <3>1
    <3>. QED
      BY <1>4, <3>1, <3>2 DEF EventsAt
  <2>. QED
    BY <2>1, <2>2
<1>6. Pending' = Pending
  BY <1>5, SamePending
<1>7. Handling' = Handling /\ fault' = fault
  BY DEF Handling
<1>. QED
  BY <1>6, <1>7 DEF Queue!vars

LEMMA WriteHeaderRefines ==
    ASSUME SchedInv, SchedInv', NEW i \in Interrupts, WriteHeader(i)
    PROVE  UNCHANGED Queue!vars
<1>. USE DEF WriteHeader
<1>1. /\ Writing(i) /\ Writing(i)' /\ isr'[i].index = isr[i].index
      /\ isr'[i].event = isr[i].event
  BY DEF SchedInv, SchedTypeOK, Writing
<1>2. \A j \in Interrupts : j # i => isr'[j] = isr[j]
  BY DEF SchedInv, SchedTypeOK
<1>3. \A j \in Interrupts : /\ Writing(j)' <=> Writing(j)
                            /\ isr'[j].index = isr[j].index
                            /\ isr'[j].event = isr[j].event
  BY <1>1, <1>2 DEF Writing
<1>4. EventsAt /\ EventsAt'
  BY EventsAtHolds, PTL
<1>5. ASSUME NEW s \in Slots PROVE EventAt(s)' = EventAt(s)
  <2>1. CASE Written(s)
    <3>1. Written(s)'
      BY <1>3, <2>1 DEF Written
    <3>2. s # isr[i].index
      BY <1>1, <2>1 DEF Written
    <3>3. Header(s)' = Header(s)
      BY <3>2 DEF Header, SchedInv, SchedTypeOK
    <3>. QED
      BY <1>4, <2>1, <3>1, <3>3 DEF EventsAt
  <2>2. CASE ~Written(s)
    <3>1. PICK j \in Interrupts : Writing(j) /\ isr[j].index = s
      BY <2>2 DEF Written
    <3>. QED
      BY <1>3, <1>4, <3>1 DEF EventsAt
  <2>. QED
    BY <2>1, <2>2
<1>6. Pending' = Pending
  BY <1>5, SamePending
<1>7. Handling' = Handling /\ fault' = fault
  BY DEF Handling
<1>. QED
  BY <1>6, <1>7 DEF Queue!vars

LEMMA WriteDataRefines ==
    ASSUME SchedInv, SchedInv', NEW i \in Interrupts, WriteData(i)
    PROVE  UNCHANGED Queue!vars
<1>. USE DEF WriteData
<1>1. Writing(i) /\ ~Writing(i)' /\ isr[i].index \in Slots
  BY DEF SchedInv, SchedTypeOK, Writing, Idle
<1>2. \A j \in Interrupts : j # i => isr'[j] = isr[j]
  BY DEF SchedInv, SchedTypeOK
<1>3. EventsAt /\ EventsAt'
  BY EventsAtHolds, PTL
<1>4. ASSUME NEW s \in Slots PROVE EventAt(s)' = EventAt(s)
  <2>1. CASE s = isr[i].index
    <3>1. EventAt(s) = isr[i].event
      BY <1>1, <1>3, <2>1 DEF EventsAt
    <3>2. Written(s)'
      BY <1>1, <1>2, <2>1 DEF Written, SchedInv, SlotsAreExclusive, Writing
    <3>3. Header(s)' = isr[i].event
      <4>1. isr[i].event \in Events
        BY <1>1 DEF SchedInv, SchedTypeOK, Writing
      <4>2. handler[s] = isr[i].event.handler /\ data'[s] = isr[i].event.data
        BY <1>1, <2>1 DEF SchedInv, HeaderFirst, SchedTypeOK
      <4>. QED
        BY <4>1, <4>2 DEF Header, Events
    <3>. QED
      BY <1>3, <3>1, <3>2, <3>3 DEF EventsAt
  <2>2. CASE s # isr[i].index /\ Written(s)
    <3>1. Written(s)'
      BY <1>1, <1>2, <2>2 DEF Written, Writing
    <3>2. Header(s)' = Header(s)
      BY <2>2 DEF Header, SchedInv, SchedTypeOK
    <3>. QED
      BY <1>3, <2>2, <3>1, <3>2 DEF EventsAt
  <2>3. CASE s # isr[i].index /\ ~Written(s)
    <3>1. PICK j \in Interrupts : Writing(j) /\ isr[j].index = s
      BY <2>3 DEF Written
    <3>2. j # i /\ Writing(j)' /\ isr'[j] = isr[j]
      BY <1>2, <2>3, <3>1 DEF Writing
    <3>. QED
      BY <1>3, <3>1, <3>2 DEF EventsAt
  <2>. QED
    BY <2>1, <2>2, <2>3
<1>5. Pending' = Pending
  BY <1>4, SamePending
<1>6. Handling' = Handling
  <2>1. pc = "run" => index \in Slots /\ index # isr[i].index
    BY <1>1 DEF SchedInv, MainPlaces, SlotsAreExclusive, SchedTypeOK
  <2>2. pc = "run" => data'[index] = data[index]
    BY <2>1 DEF SchedInv, SchedTypeOK
  <2>. QED
    BY <2>2 DEF Handling
<1>. QED
  BY <1>5, <1>6 DEF Queue!vars

LEMMA ReserveRefines ==
    ASSUME SchedInv, SchedInv', NEW i \in Interrupts, Reserve(i)
    PROVE  Queue!Accept(isr[i].event) /\ isr[i].event \in Events
<1>. USE SchedulerAssumption DEF Reserve
<1>1. /\ isr[i].event \in Events /\ ~Writing(i)
      /\ Writing(i)' /\ isr'[i].index = endIndex
      /\ isr'[i].event = isr[i].event
  BY DEF SchedInv, SchedTypeOK, Writing
<1>2. \A j \in Interrupts : j # i => isr'[j] = isr[j]
  BY DEF SchedInv, SchedTypeOK
<1>3. EventsAt /\ EventsAt'
  BY EventsAtHolds, PTL
<1>4. endIndex \in Slots /\ startIndex \in Slots
  BY DEF SchedInv, SchedTypeOK
<1>5. PICK t \in Slots : t = endIndex
  BY <1>4
<1>6. EventAt(t)' = isr[i].event
  BY <1>1, <1>3, <1>5 DEF EventsAt
<1>7. ASSUME NEW s \in Slots, s # t PROVE EventAt(s)' = EventAt(s)
  <2>1. CASE Written(s)
    <3>1. Written(s)'
      BY <1>1, <1>2, <1>5, <1>7, <2>1 DEF Written, Writing
    <3>. QED
      BY <1>3, <2>1, <3>1 DEF EventsAt, Header
  <2>2. CASE ~Written(s)
    <3>1. PICK j \in Interrupts : Writing(j) /\ isr[j].index = s
      BY <2>2 DEF Written
    <3>2. j # i /\ Writing(j)' /\ isr'[j] = isr[j]
      BY <1>1, <1>2, <3>1 DEF Writing
    <3>. QED
      BY <1>3, <3>1, <3>2 DEF EventsAt
  <2>. QED
    BY <2>1, <2>2
<1>8. Count \in 0 .. QueueSize - 1 /\ Count' = Count + 1
  BY <1>4 DEF Full, NextIndex, Count, Slots
<1>9. /\ Slot(Count)' = t
      /\ \A k \in 1 .. Count : /\ Slot(k)' = Slot(k)
                              /\ Slot(k) \in Slots
                              /\ Slot(k) # t
  <2>1. Slot(Count)' = t
    BY <1>4, <1>5, <1>8 DEF Slot, Slots, Count
  <2>2. \A k \in 1 .. Count : Slot(k)' = Slot(k)
    BY <1>4 DEF Slot
  <2>3. \A k \in 1 .. Count : Slot(k) \in Slots /\ Slot(k) # t
    BY <1>4, <1>5, <1>8 DEF Slot, Slots, Count
  <2>. QED
    BY <2>1, <2>2, <2>3
<1>10. Len(Pending) = Count /\ Pending' = Append(Pending, isr[i].event)
  <2>1. \A k \in 1 .. Count : EventAt(Slot(k))' = EventAt(Slot(k))
    BY <1>7, <1>9
  <2>2. EventAt(Slot(Count))' = isr[i].event
    BY <1>6, <1>9
  <2>3. Pending' = [k \in 1 .. Count' |-> EventAt(Slot(k))']
    BY DEF Pending
  <2>4. Pending = [k \in 1 .. Count |-> EventAt(Slot(k))]
    BY DEF Pending
  <2>5. Pending'[Count + 1] = isr[i].event
    BY <1>8, <2>2, <2>3
  <2>. QED
    BY ONLY <1>8, <2>1, <2>3, <2>4, <2>5, SchedulerAssumption
<1>11. Handling' = Handling /\ fault' = fault /\ ~fault
  BY DEF Handling, Runs
<1>. QED
  BY <1>1, <1>8, <1>9, <1>10, <1>11 DEF Queue!Accept

LEMMA PutRefusedRefines ==
    ASSUME SchedInv, NEW i \in Interrupts, PutRefused(i)
    PROVE  Queue!Refuse
<1>. USE SchedulerAssumption DEF PutRefused
<1>1. Count = QueueSize
  BY DEF SchedInv, SchedTypeOK, Slots, Full, NextIndex, Count
<1>2. Len(Pending) = QueueSize
  BY <1>1 DEF Pending
<1>3. Pending' = Pending
  BY DEF Pending, Count, Slot, EventAt, Writing
<1>4. Handling' = Handling /\ ~fault /\ fault' = TRUE
  BY DEF Handling, Runs
<1>. QED
  BY <1>2, <1>3, <1>4 DEF Queue!Refuse

LEMMA ReservePending ==
    ASSUME SchedInv, SchedInv', NEW i \in Interrupts, Reserve(i)
    PROVE  /\ Count \in Nat /\ Count' = Count + 1
           /\ Pending'[Count + 1] = isr[i].event
           /\ \A k \in 1 .. Count : Pending'[k] = Pending[k]
<1>1. Pending' = Append(Pending, isr[i].event)
  BY ReserveRefines DEF Queue!Accept
<1>2. Count \in 0 .. QueueSize - 1 /\ Count' = Count + 1
  BY SchedulerAssumption
     DEF Reserve, SchedInv, SchedTypeOK, Full, NextIndex, Count, Slots
<1>3. Pending = [k \in 1 .. Count |-> EventAt(Slot(k))]
  BY DEF Pending
<1>. QED
  BY ONLY <1>1, <1>2, <1>3, SchedulerAssumption

LEMMA CallPending ==
    ASSUME SchedInv, CallHandler
    PROVE  /\ Count \in 1 .. QueueSize /\ Count' = Count
           /\ Pending' = Pending
           /\ Pending # <<>> /\ Head(Pending) = Pending[1]
           /\ Pending[1] = [handler |-> handler[index], data |-> data[index]]
<1>. USE SchedulerAssumption DEF CallHandler
<1>1. \A s \in Slots : Written(s)
  BY DEF MainRuns, Active, Writing, Written
<1>2. ASSUME NEW s \in Slots PROVE EventAt(s)' = EventAt(s)
  BY DEF EventAt, Writing
<1>3. index = startIndex /\ startIndex # endIndex /\ startIndex \in Slots
      /\ endIndex \in Slots
  BY DEF SchedInv, MainPlaces, SchedTypeOK
<1>4. Count \in 1 .. QueueSize /\ Slot(1) = startIndex /\ Count' = Count
  BY <1>3 DEF Slots, Count, Slot
<1>5. /\ Pending # <<>> /\ Head(Pending) = Pending[1]
      /\ Pending[1] = EventAt(startIndex)
  BY <1>4 DEF Pending
<1>6. EventAt(startIndex) = [handler |-> handler[index], data |-> data[index]]
  BY <1>1, <1>3, EventsAtHolds DEF EventsAt, Header
<1>7. Pending' = Pending
  BY <1>2, SamePending
<1>. QED
  BY <1>4, <1>5, <1>6, <1>7

LEMMA ReturnPending ==
    ASSUME SchedInv, HandlerReturns
    PROVE  /\ Count \in 1 .. QueueSize /\ Count' = Count - 1
           /\ Pending' = Tail(Pending)
           /\ \A k \in 1 .. Count - 1 : Pending'[k] = Pending[k + 1]
<1>. USE SchedulerAssumption DEF HandlerReturns
<1>1. startIndex # endIndex /\ startIndex \in Slots /\ endIndex \in Slots
  BY DEF SchedInv, MainPlaces, SchedTypeOK
<1>2. /\ Count \in 1 .. QueueSize /\ Count' = Count - 1
      /\ \A k \in 1 .. Count - 1 : Slot(k)' = Slot(k + 1)
  BY <1>1 DEF NextIndex, Slots, Count, Slot
<1>3. Pending' = [k \in 1 .. Count - 1 |-> EventAt(Slot(k))']
  BY <1>2 DEF Pending
<1>4. ASSUME NEW s PROVE EventAt(s)' = EventAt(s)
  BY DEF EventAt, Writing
<1>5. \A k \in 1 .. Count - 1 : EventAt(Slot(k))' = EventAt(Slot(k + 1))
  BY <1>2, <1>4
<1>6. Pending = [k \in 1 .. Count |-> EventAt(Slot(k))]
  BY DEF Pending
<1>. QED
  BY ONLY <1>2, <1>3, <1>5, <1>6, SchedulerAssumption

LEMMA MainLoopRefines ==
    ASSUME SchedInv, MainLoop
    PROVE  [Queue!Next]_Queue!vars
<1>1. /\ UNCHANGED <<endIndex, handler, data, isr, fault>>
      /\ ~fault
  BY DEF MainLoop, Execute, TakeIndex, CallHandler, HandlerReturns, LoopAgain,
         MainRuns
<1>2. CASE Execute \/ TakeIndex \/ LoopAgain
  <2>1. ASSUME NEW s \in Slots PROVE EventAt(s)' = EventAt(s)
    BY <1>1 DEF EventAt, Writing
  <2>2. Pending' = Pending
    BY <1>2, <2>1, SamePending DEF Execute, TakeIndex, LoopAgain
  <2>3. Handling' = Handling
    BY <1>2 DEF Execute, TakeIndex, LoopAgain, Handling
  <2>. QED
    BY <1>1, <2>2, <2>3 DEF Queue!vars
<1>3. CASE CallHandler
  <2>1. Handling' = Head(Pending) /\ Handling = NoSlot
    BY <1>3, CallPending DEF CallHandler, Handling
  <2>. QED
    BY <1>1, <1>3, <2>1, CallPending DEF Queue!Next, Queue!Start
<1>4. CASE HandlerReturns
  <2>1. Handling # NoSlot
    <3>1. called \in Handlers /\ data[index] \in Data \cup {NoSlot}
      BY <1>4 DEF HandlerReturns, SchedInv, MainPlaces, SchedTypeOK
    <3>2. Handling \in [handler : Handlers, data : Data \cup {NoSlot}]
      BY <1>4, <3>1 DEF HandlerReturns, Handling
    <3>. QED
      BY <3>2, SchedulerAssumption
  <2>2. Handling' = NoSlot
    BY <1>4 DEF HandlerReturns, Handling
  <2>. QED
    BY <1>1, <1>4, <2>1, <2>2, ReturnPending DEF Queue!Next, Queue!Finish
<1>. QED
  BY <1>2, <1>3, <1>4 DEF MainLoop

LEMMA BootRefines ==
    /\ SchedInit => Queue!Init
    /\ Restart => Queue!Restart
<1>1. SchedInit => Queue!Init
  BY SchedulerAssumption DEF SchedInit, Queue!Init, Pending, Handling, Count
<1>2. Restart => Queue!Restart
  BY SchedulerAssumption DEF Restart, Queue!Restart, Pending, Handling, Count
<1>. QED
  BY <1>1, <1>2

LEMMA NextRefines ==
    SchedInv /\ SchedInv' /\ [SchedNext]_schedVars => [Queue!Next]_Queue!vars
<1>. SUFFICES ASSUME SchedInv, SchedInv', [SchedNext]_schedVars
              PROVE  [Queue!Next]_Queue!vars
  OBVIOUS
<1>1. CASE UNCHANGED schedVars
  <2>1. UNCHANGED <<Pending, Handling, fault>>
    BY <1>1 DEF schedVars, Pending, Handling, Count, Slot, EventAt, Writing
  <2>. QED
    BY <2>1 DEF Queue!vars
<1>2. CASE \E i \in Interrupts, e \in Events : EnterPut(i, e)
  BY <1>2, EnterPutRefines
<1>3. ASSUME NEW i \in Interrupts, Put(i) PROVE [Queue!Next]_Queue!vars
  BY <1>3, ReserveRefines, PutRefusedRefines, WriteHeaderRefines,
     WriteDataRefines DEF Put, Queue!Next
<1>4. CASE MainLoop
  BY <1>4, MainLoopRefines
<1>5. CASE Restart
  BY <1>5, BootRefines DEF Queue!Next
<1>. QED
  BY <1>1, <1>2, <1>3, <1>4, <1>5 DEF SchedNext

\* Every behaviour of the scheduler is one of the bounded queue: first in,
\* first out, nothing lost or half-written, refused only when it is full.
THEOREM SchedulerIsAQueue == SchedSpec => ImplementsQueue
<1>1. SchedInit => Queue!Init
  BY BootRefines
<1>. QED
  BY <1>1, SchedInvariant, NextRefines, PTL
     DEF SchedSpec, ImplementsQueue, Queue!SafeSpec

-----------------------------------------------------------------------------
(* The firmware with its sources of events.                                *)

USE DEF sdhVars

LEMMA PollIsEvent == PollEvent \in Events /\ \A t \in Timers : TimeoutEvent(t) \in Events
BY NrfSdhAssumption DEF PollEvent, TimeoutEvent, Events

\* a step of the firmware is one of the scheduler or leaves it alone
LEMMA StepOfScheduler == [Next]_vars => [SchedNext]_schedVars
<1>. SUFFICES ASSUME [Next]_vars PROVE [SchedNext]_schedVars
  OBVIOUS
<1>. USE DEF SchedNext
<1>1. CASE UNCHANGED vars
  BY <1>1 DEF vars
<1>2. CASE \E s \in Sources : StackEvent(s)
  BY <1>2 DEF StackEvent
<1>3. CASE SD_EVT_IRQHandler
  BY <1>3, PollIsEvent, NrfSdhAssumption DEF SD_EVT_IRQHandler
<1>4. CASE \E t \in Timers : Timeout(t)
  BY <1>4, PollIsEvent, NrfSdhAssumption DEF Timeout
<1>5. CASE \E i \in Interrupts : PutStep(i)
  BY <1>5 DEF PutStep
<1>6. CASE Main
  BY <1>6 DEF Main, ExecuteStep, PollGet, PollEnd, Returns, PowerManage, MainLoop
<1>7. CASE Reset
  BY <1>7 DEF Reset
<1>. QED
  BY <1>1, <1>2, <1>3, <1>4, <1>5, <1>6, <1>7 DEF Next

\* The firmware is a user of the scheduler as AppScheduler has them.
THEOREM UsesTheScheduler == Spec => SchedSpec
<1>1. Init => SchedInit
  BY DEF Init
<1>. QED
  BY <1>1, StepOfScheduler, PTL DEF Spec, SchedSpec

\* With the stack's events and the timers' as its sources the queue still is
\* the bounded first-in first-out queue, and no slot has two owners.
THEOREM FirmwareQueue == Spec => ImplementsQueue /\ []SlotsAreExclusive
BY UsesTheScheduler, SchedulerIsAQueue, NoSlotHasTwoOwners, PTL

-----------------------------------------------------------------------------
SdhTypes ==
    /\ stack \in [Sources -> Nat]
    /\ poll \in Sources \cup {NoSlot}

\* a poll runs in its handler, and SD_EVT puts nothing but polls
SdhPlaces ==
    /\ poll # NoSlot => pc = "run"
    /\ isr["SD_EVT"].pc # "idle" => isr["SD_EVT"].event = PollEvent

SdhInv == SdhTypes /\ SdhPlaces /\ StackEventsAnnounced

LEMMA InitSdhInv == Init => SdhInv
BY NrfSdhAssumption
   DEF Init, SchedInit, Idle, Sources, SdhInv, SdhTypes, SdhPlaces,
       StackEventsAnnounced

LEMMA ResetSdhInv == Reset => SdhInv'
BY NrfSdhAssumption
   DEF Reset, Restart, Idle, Sources, SdhInv, SdhTypes, SdhPlaces,
       StackEventsAnnounced

LEMMA StepSdhTypes == SdhTypes /\ [Next]_vars => SdhTypes'
<1>. SUFFICES ASSUME SdhTypes, [Next]_vars PROVE SdhTypes'
  OBVIOUS
<1>. USE DEF SdhTypes
<1>1. CASE UNCHANGED vars
  BY <1>1 DEF vars
<1>2. ASSUME NEW s \in Sources, StackEvent(s) PROVE SdhTypes'
  BY <1>2 DEF StackEvent
<1>3. CASE PollGet
  BY <1>3 DEF PollGet
<1>4. CASE PollEnd
  BY <1>4 DEF PollEnd, NextSource, Sources
<1>5. CASE ExecuteStep
  BY <1>5 DEF ExecuteStep, FirstSource, Sources
<1>6. CASE Reset
  BY <1>6 DEF Reset, Sources
<1>. QED
  BY <1>1, <1>2, <1>3, <1>4, <1>5, <1>6
     DEF Next, Main, SD_EVT_IRQHandler, Timeout, PutStep, Returns, PowerManage

LEMMA StepSdhPlaces ==
    SchedInv /\ SdhPlaces /\ [Next]_vars => SdhPlaces'
<1>. SUFFICES ASSUME SchedInv, SdhPlaces, [Next]_vars PROVE SdhPlaces'
  OBVIOUS
<1>. USE NrfSdhAssumption DEF SdhPlaces
<1>1. isr \in [Interrupts -> [pc : {"idle", "reserve", "header", "data"},
                              event : Events \cup {NoSlot},
                              index : Slots \cup {NoSlot}]]
  BY DEF SchedInv, SchedTypeOK
<1>2. CASE UNCHANGED vars \/ \E s \in Sources : StackEvent(s)
  BY <1>2 DEF vars, schedVars, StackEvent
<1>3. CASE SD_EVT_IRQHandler
  BY <1>1, <1>3 DEF SD_EVT_IRQHandler, EnterPut
<1>4. CASE \E t \in Timers : Timeout(t)
  BY <1>1, <1>4 DEF Timeout, EnterPut
<1>5. ASSUME NEW i \in Interrupts, PutStep(i) PROVE SdhPlaces'
  <2>. USE <1>1, <1>5 DEF PutStep
  <2>1. CASE Reserve(i)
    BY <2>1 DEF Reserve
  <2>2. CASE PutRefused(i)
    BY <2>2 DEF PutRefused
  <2>3. CASE WriteHeader(i)
    BY <2>3 DEF WriteHeader
  <2>4. CASE WriteData(i)
    BY <2>4 DEF WriteData, Idle
  <2>. QED
    BY <2>1, <2>2, <2>3, <2>4 DEF Put
<1>6. CASE ExecuteStep
  BY <1>6 DEF ExecuteStep, Execute, TakeIndex, CallHandler
<1>7. CASE PollGet \/ PollEnd
  BY <1>7 DEF PollGet, PollEnd, schedVars
<1>8. CASE Returns \/ PowerManage
  BY <1>8 DEF Returns, HandlerReturns, PowerManage, LoopAgain
<1>9. CASE Reset
  BY <1>9, ResetSdhInv DEF SdhInv
<1>. QED
  BY <1>2, <1>3, <1>4, <1>5, <1>6, <1>7, <1>8, <1>9 DEF Next, Main

\* the queue in the sequel: what the steps do to the polls in it
LEMMA SameQueue ==
    ASSUME UNCHANGED <<startIndex, endIndex, pc>>, Pending' = Pending
    PROVE  PollQueued' <=> PollQueued
BY DEF PollQueued, Count

LEMMA PutKeepsPolls ==
    ASSUME SchedInv, SchedInv', NEW i \in Interrupts, Put(i), PollQueued
    PROVE  PollQueued'
<1>1. CASE Reserve(i)
  <2>1. PICK k \in 1 .. Count : Pending[k] = PollEvent /\ (k = 1 => pc # "run")
    BY DEF PollQueued
  <2>2. k \in 1 .. Count' /\ Pending'[k] = PollEvent
    BY <1>1, <2>1, ReservePending
  <2>3. pc' = pc
    BY <1>1 DEF Reserve
  <2>. QED
    BY <2>1, <2>2, <2>3 DEF PollQueued
<1>2. CASE PutRefused(i)
  BY <1>2, SameQueue DEF PutRefused, Pending, Count, Slot, EventAt, Writing
<1>3. CASE WriteHeader(i)
  BY <1>3, SameQueue, WriteHeaderRefines DEF WriteHeader, Queue!vars
<1>4. CASE WriteData(i)
  BY <1>4, SameQueue, WriteDataRefines DEF WriteData, Queue!vars
<1>. QED
  BY <1>1, <1>2, <1>3, <1>4 DEF Put

LEMMA PutsPoll ==
    ASSUME SchedInv, SchedInv', SdhPlaces, Reserve("SD_EVT")
    PROVE  PollQueued'
<1>1. "SD_EVT" \in Interrupts
  BY NrfSdhAssumption
<1>2. isr["SD_EVT"].event = PollEvent
  BY DEF SdhPlaces, Reserve
<1>3. Count' = Count + 1 /\ Count \in Nat /\ Pending'[Count + 1] = PollEvent
  BY <1>1, <1>2, ReservePending
<1>4. Count = 0 => pc # "run"
  <2>1. Count = 0 => startIndex = endIndex
    BY SchedulerAssumption DEF SchedInv, SchedTypeOK, Slots, Count
  <2>. QED
    BY <2>1 DEF SchedInv, MainPlaces
<1>5. pc' = pc
  BY DEF Reserve
<1>. QED
  BY <1>3, <1>4, <1>5 DEF PollQueued

LEMMA StepAnnounced ==
    SchedInv /\ SchedInv' /\ SdhInv /\ [Next]_vars => StackEventsAnnounced'
<1>. SUFFICES ASSUME SchedInv, SchedInv', SdhInv, [Next]_vars
              PROVE  StackEventsAnnounced'
  OBVIOUS
<1>1. SdhTypes /\ SdhPlaces /\ StackEventsAnnounced
  BY DEF SdhInv
<1>2. CASE UNCHANGED vars
  <2>1. Pending' = Pending
    BY <1>2 DEF vars, schedVars, Pending, Count, Slot, EventAt, Writing
  <2>2. PollQueued' <=> PollQueued
    BY <1>2, <2>1, SameQueue DEF vars, schedVars
  <2>. QED
    BY <1>1, <1>2, <2>2 DEF vars, schedVars, StackEventsAnnounced, Announced
<1>3. ASSUME NEW s \in Sources, StackEvent(s) PROVE StackEventsAnnounced'
  BY <1>3 DEF StackEvent, StackEventsAnnounced, Announced
<1>4. CASE SD_EVT_IRQHandler
  <2>1. isr'["SD_EVT"].pc = "reserve"
    BY <1>4, NrfSdhAssumption
       DEF SD_EVT_IRQHandler, EnterPut, SchedInv, SchedTypeOK
  <2>. QED
    BY <2>1 DEF StackEventsAnnounced, Announced
<1>5. ASSUME NEW t \in Timers, Timeout(t) PROVE StackEventsAnnounced'
  <2>. USE <1>5 DEF Timeout
  <2>1. "RTC1" \in Interrupts /\ TimeoutEvent(t) \in Events
    BY PollIsEvent, NrfSdhAssumption
  <2>2. Pending' = Pending
    BY <2>1, EnterPutRefines DEF Queue!vars
  <2>3. PollQueued' <=> PollQueued
    BY <2>2, SameQueue DEF EnterPut
  <2>4. isr'["SD_EVT"] = isr["SD_EVT"]
    BY NrfSdhAssumption DEF EnterPut, SchedInv, SchedTypeOK
  <2>. QED
    BY <1>1, <2>3, <2>4 DEF EnterPut, StackEventsAnnounced, Announced
<1>6. ASSUME NEW i \in Interrupts, PutStep(i) PROVE StackEventsAnnounced'
  <2>. USE <1>6 DEF PutStep
  <2>1. PollQueued => PollQueued'
    BY PutKeepsPolls
  <2>2. isr["SD_EVT"].pc = "reserve" /\ ~fault' =>
            isr'["SD_EVT"].pc = "reserve" \/ PollQueued'
    <3>1. CASE i = "SD_EVT"
      BY <1>1, <3>1, PutsPoll DEF Put, PutRefused, WriteHeader, WriteData
    <3>2. CASE i # "SD_EVT"
      <4>1. isr'["SD_EVT"] = isr["SD_EVT"]
        BY <3>2, NrfSdhAssumption
           DEF Put, Reserve, PutRefused, WriteHeader, WriteData, SchedInv,
               SchedTypeOK
      <4>. QED
        BY <4>1
    <3>. QED
      BY <3>1, <3>2
  <2>3. ~fault' => ~fault
    BY DEF Put, Reserve, PutRefused, WriteHeader, WriteData, Runs
  <2>. QED
    BY <1>1, <2>1, <2>2, <2>3 DEF StackEventsAnnounced, Announced
<1>7. CASE ExecuteStep
  <2>. USE <1>7 DEF ExecuteStep
  <2>1. CASE Execute \/ TakeIndex
    <3>1. UNCHANGED <<queue, isr, fault>>
      BY <2>1 DEF Execute, TakeIndex
    <3>2. poll' = poll /\ pc # "run" /\ pc' # "run"
      BY <2>1 DEF Execute, TakeIndex
    <3>3. Pending' = Pending /\ Count' = Count
      BY <3>1 DEF Pending, Count, Slot, EventAt, Writing
    <3>4. PollQueued' <=> PollQueued
      BY <3>2, <3>3 DEF PollQueued
    <3>. QED
      BY <1>1, <3>1, <3>2, <3>4 DEF StackEventsAnnounced, Announced
  <2>2. CASE CallHandler
    <3>1. poll = NoSlot
      BY <1>1, <2>2 DEF SdhPlaces, CallHandler
    <3>2. CASE handler[index] = "appsh_events_poll"
      <4>1. poll' = "soc"
        BY <2>2, <3>2 DEF CallHandler, FirstSource
      <4>2. NoSlot # "soc"
        BY NrfSdhAssumption
      <4>3. \A s \in Sources : Announced(s)'
        BY ONLY <4>1, <4>2 DEF Announced, NextSource, Sources
      <4>. QED
        BY ONLY <4>3 DEF StackEventsAnnounced
    <3>3. CASE handler[index] # "appsh_events_poll"
      <4>1. PollQueued => PollQueued'
        <5>1. Pending[1].handler # PollEvent.handler
          BY <2>2, <3>3, CallPending DEF PollEvent
        <5>2. Pending' = Pending /\ Count' = Count
          BY <2>2, CallPending
        <5>. QED
          BY ONLY <5>1, <5>2 DEF PollQueued
      <4>. QED
        BY <1>1, <2>2, <3>1, <3>3, <4>1, NrfSdhAssumption
           DEF CallHandler, StackEventsAnnounced, Announced, Sources
    <3>. QED
      BY <3>2, <3>3
  <2>. QED
    BY <2>1, <2>2
<1>8. ASSUME PollGet \/ PollEnd PROVE StackEventsAnnounced'
  <2>1. UNCHANGED <<queue, isr, executing, fault>>
    BY <1>8 DEF PollGet, PollEnd, schedVars
  <2>2. PollQueued' <=> PollQueued
    <3>1. Pending' = Pending
      BY <2>1 DEF Pending, Count, Slot, EventAt, Writing
    <3>. QED
      BY <2>1, <3>1, SameQueue
  <2>3. CASE PollGet
    <3>1. \A s \in Sources : stack'[s] > 0 => stack[s] > 0
      BY <1>1, <2>3 DEF PollGet, SdhTypes
    <3>. QED
      BY <1>1, <2>2, <2>3, <3>1
         DEF PollGet, schedVars, StackEventsAnnounced, Announced
  <2>4. CASE PollEnd
    <3>1. /\ stack' = stack /\ stack[poll] = 0 /\ poll' = NextSource(poll)
          /\ UNCHANGED <<fault, sdPending, isr>> /\ poll # NoSlot
      BY <2>4 DEF PollEnd, schedVars
    <3>2. ASSUME NEW s \in Sources, ~fault, stack[s] > 0 PROVE Announced(s)'
      <4>1. Announced(s) /\ s # poll /\ s # NoSlot
        BY <1>1, <3>1, <3>2, NrfSdhAssumption
           DEF StackEventsAnnounced, SdhTypes, Sources
      <4>. QED
        BY <2>2, <3>1, <4>1 DEF Announced
    <3>3. StackEventsAnnounced' <=>
            \A s \in Sources : ~fault /\ stack[s] > 0 => Announced(s)'
      BY ONLY <3>1 DEF StackEventsAnnounced
    <3>. QED
      BY ONLY <3>2, <3>3
  <2>. QED
    BY <1>8, <2>3, <2>4
<1>9. CASE Returns
  <2>. USE <1>9 DEF Returns
  <2>1. PollQueued => PollQueued'
    <3>1. SUFFICES ASSUME PollQueued PROVE PollQueued'
      OBVIOUS
    <3>2. PICK k \in 1 .. Count : Pending[k] = PollEvent /\ (k = 1 => pc # "run")
      BY <3>1 DEF PollQueued
    <3>3. k # 1 /\ Count \in Nat
      BY <3>2, ReturnPending, SchedulerAssumption DEF HandlerReturns
    <3>4. k - 1 \in 1 .. Count' /\ Pending'[k - 1] = PollEvent
      BY <3>2, <3>3, ReturnPending
    <3>5. pc' # "run"
      BY DEF HandlerReturns
    <3>. QED
      BY <3>4, <3>5 DEF PollQueued
  <2>. QED
    BY <1>1, <2>1, NrfSdhAssumption
       DEF HandlerReturns, StackEventsAnnounced, Announced, Sources
<1>10. CASE PowerManage
  <2>. USE <1>10 DEF PowerManage, LoopAgain
  <2>1. Pending' = Pending
    BY DEF Pending, Count, Slot, EventAt, Writing
  <2>2. PollQueued' <=> PollQueued
    BY <2>1 DEF PollQueued, Count
  <2>. QED
    BY <1>1, <2>2 DEF StackEventsAnnounced, Announced
<1>11. CASE Reset
  BY <1>11, ResetSdhInv DEF SdhInv
<1>. QED
  BY <1>2, <1>3, <1>4, <1>5, <1>6, <1>7, <1>8, <1>9, <1>10, <1>11
     DEF Next, Main

\* No event that the stack holds is forgotten: until it is fetched there always
\* is a poll under way that will look for it.
THEOREM NoStackEventForgotten == Spec => []StackEventsAnnounced
<1>1. Spec => []SchedInv
  BY UsesTheScheduler, SchedInvariant, PTL
<1>2. SchedInv /\ SchedInv' /\ SdhInv /\ [Next]_vars => SdhInv'
  BY StepSdhTypes, StepSdhPlaces, StepAnnounced DEF SdhInv
<1>3. SdhInv => StackEventsAnnounced
  BY DEF SdhInv
<1>. QED
  BY <1>1, <1>2, <1>3, InitSdhInv, PTL DEF Spec
-----------------------------------------------------------------------------
\* what waits in the stack is part of what has come
SdhCounts ==
    /\ stack \in [Sources -> Nat]
    /\ \A s \in Sources : stack[s] <= arrivals
    /\ arrivals \in 0 .. MaxArrivals
    /\ sdPending \in BOOLEAN
    /\ latch \in BOOLEAN

LEMMA StepSdhCounts == SdhTypes /\ SdhCounts /\ [Next]_vars => SdhCounts'
<1>. SUFFICES ASSUME SdhTypes, SdhCounts, [Next]_vars PROVE SdhCounts'
  OBVIOUS
<1>1. sdPending' \in BOOLEAN /\ latch' \in BOOLEAN
  BY Zenon
     DEF SdhCounts, Next, vars, StackEvent, SD_EVT_IRQHandler, Timeout, PutStep,
         Main, ExecuteStep, PollGet, PollEnd, Returns, PowerManage, Reset
<1>. DEFINE Counts ==
              /\ stack \in [Sources -> Nat]
              /\ \A s \in Sources : stack[s] <= arrivals
              /\ arrivals \in 0 .. MaxArrivals
<1>2. Counts'
  <2>. USE NrfSdhAssumption DEF SdhCounts
  <2>1. ASSUME NEW s \in Sources, StackEvent(s) PROVE Counts'
    BY <2>1 DEF StackEvent
  <2>2. ASSUME NEW t \in Timers, Timeout(t) PROVE Counts'
    BY <2>2 DEF Timeout
  <2>3. CASE PollGet
    BY <2>3 DEF PollGet, SdhTypes
  <2>4. CASE Reset
    BY <2>4 DEF Reset
  <2>5. CASE UNCHANGED <<stack, arrivals>>
    BY <2>5
  <2>. QED
    BY <2>1, <2>2, <2>3, <2>4, <2>5
       DEF Next, vars, SD_EVT_IRQHandler, PutStep, Main, ExecuteStep, PollEnd,
           Returns, PowerManage
<1>. QED
  BY <1>1, <1>2, Zenon DEF SdhCounts

\* Whatever comes and however it interrupts, the stack, the poll and the
\* scheduler's queue keep the types of the variables they stand for.
THEOREM TypeCorrect == Spec => []TypeOK
<1>1. Spec => []SchedInv
  BY UsesTheScheduler, SchedInvariant, PTL
<1>2. Init => SdhTypes /\ SdhCounts
  <2>. SUFFICES ASSUME Init PROVE SdhTypes /\ SdhCounts
    OBVIOUS
  <2>1. SdhTypes
    BY InitSdhInv DEF SdhInv
  <2>2. sdPending \in BOOLEAN /\ latch \in BOOLEAN
    BY Zenon DEF Init
  <2>. QED
    BY <2>1, <2>2, NrfSdhAssumption DEF Init, SdhCounts
<1>3. SdhTypes /\ SdhCounts /\ [Next]_vars => SdhTypes' /\ SdhCounts'
  BY StepSdhTypes, StepSdhCounts
<1>4. SchedInv /\ SdhTypes /\ SdhCounts => TypeOK
  BY NrfSdhAssumption DEF SchedInv, SdhTypes, SdhCounts, TypeOK
<1>. QED
  BY <1>1, <1>2, <1>3, <1>4, PTL DEF Spec
=============================================================================
