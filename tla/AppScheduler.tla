---------------------------- MODULE AppScheduler ----------------------------
(***************************************************************************)
(* components/libraries/scheduler/app_scheduler.c: the queue that carries  *)
(* work from the interrupts to the main loop.                              *)
(*                                                                         *)
(* Interrupts put events: the slot is taken with the interrupts off, the   *)
(* event is written into it afterwards, with the interrupts on, so that an *)
(* interrupt of a higher priority takes and writes the next slot while a   *)
(* lower one is half-way.  The main loop executes the events.  The module  *)
(* that composes it with their sources says what the handlers do.          *)
(***************************************************************************)
EXTENDS Integers, Sequences

CONSTANTS
    QueueSize,   \* SCHED_QUEUE_SIZE of main.c, 10 in the firmware
    Interrupts,  \* the interrupts that put events
    Priority,    \* of an interrupt, the greater the more urgent
    Handlers,    \* the event handlers
    Data,        \* what an event carries
    NoSlot       \* no slot, no handler, no data

ASSUME SchedulerAssumption ==
    /\ QueueSize \in Nat \ {0}
    /\ Priority \in [Interrupts -> Nat]
    /\ \A i, j \in Interrupts : Priority[i] = Priority[j] => i = j
    /\ NoSlot \notin Nat
    /\ NoSlot \notin Handlers
    /\ NoSlot \notin [handler : Handlers, data : Data \cup {NoSlot}]

VARIABLES
    startIndex, endIndex,  \* m_queue_start_index, m_queue_end_index
    handler, data,         \* m_queue_event_headers, m_queue_event_data, by slot
    isr,      \* of each interrupt, where it is in app_sched_event_put
    pc,       \* where the main loop is
    index,    \* the event_index of app_sched_execute
    called,   \* the handler it has read there
    fault     \* a check has failed: the firmware is about to restart

queue     == <<startIndex, endIndex, handler, data>>
executing == <<pc, index, called>>
schedVars == <<queue, isr, executing, fault>>

Slots  == 0 .. QueueSize
Events == [handler : Handlers, data : Data]

At(p, e, s) == [pc |-> p, event |-> e, index |-> s]

Idle == At("idle", NoSlot, NoSlot)

Writing(i) == isr[i].pc \in {"header", "data"}

SchedTypeOK ==
    /\ startIndex \in Slots /\ endIndex \in Slots
    /\ handler \in [Slots -> Handlers \cup {NoSlot}]
    /\ data \in [Slots -> Data \cup {NoSlot}]
    /\ isr \in [Interrupts -> [pc : {"idle", "reserve", "header", "data"},
                               event : Events \cup {NoSlot},
                               index : Slots \cup {NoSlot}]]
    /\ \A i \in Interrupts :
        /\ isr[i].pc = "idle" <=> isr[i].event = NoSlot
        /\ Writing(i) <=> isr[i].index # NoSlot
    /\ pc \in {"exec", "take", "call", "run", "wait"}
    /\ index \in Slots \cup {NoSlot}
    /\ called \in Handlers \cup {NoSlot}
    /\ fault \in BOOLEAN

\* app_sched_init
SchedInit ==
    /\ startIndex = 0
    /\ endIndex = 0
    /\ handler = [s \in Slots |-> NoSlot]
    /\ data = [s \in Slots |-> NoSlot]
    /\ isr = [i \in Interrupts |-> Idle]
    /\ pc = "exec"
    /\ index = NoSlot
    /\ called = NoSlot
    /\ fault = FALSE

\* mutant of NextIndex: it wraps one slot too late
NextIndexLate(i) == IF i <= QueueSize THEN i + 1 ELSE 0

\* next_index
NextIndex(i) == IF i < QueueSize THEN i + 1 ELSE 0

\* app_sched_queue_full, app_sched_queue_empty
Full  == NextIndex(endIndex) = startIndex
Empty == endIndex = startIndex

-----------------------------------------------------------------------------
(* Interrupts preempt what is less urgent and the main loop.               *)

Active(i) == isr[i].pc # "idle"

MayEnter(i) ==
    /\ ~fault
    /\ ~Active(i)
    /\ \A j \in Interrupts : Active(j) => Priority[j] < Priority[i]

Runs(i) ==
    /\ ~fault
    /\ \A j \in Interrupts : Active(j) => Priority[j] <= Priority[i]

MainRuns == ~fault /\ \A i \in Interrupts : ~Active(i)

-----------------------------------------------------------------------------
(* app_sched_event_put                                                     *)

EnterPut(i, e) ==
    /\ MayEnter(i)
    /\ isr' = [isr EXCEPT ![i] = At("reserve", e, NoSlot)]
    /\ UNCHANGED <<queue, executing, fault>>

\* the critical region, when there is room
Reserve(i) ==
    /\ Runs(i)
    /\ isr[i].pc = "reserve"
    /\ ~Full
    /\ isr' = [isr EXCEPT ![i] = At("header", isr[i].event, endIndex)]
    /\ endIndex' = NextIndex(endIndex)
    /\ UNCHANGED <<startIndex, handler, data, executing, fault>>

\* ... and when there is none: NRF_ERROR_NO_MEM, which fails the check of both
\* callers (SD_EVT_IRQHandler, timeout_handler_exec)
PutRefused(i) ==
    /\ Runs(i)
    /\ isr[i].pc = "reserve"
    /\ Full
    /\ fault' = TRUE
    /\ UNCHANGED <<queue, isr, executing>>

WriteHeader(i) ==
    /\ Runs(i)
    /\ isr[i].pc = "header"
    /\ handler' = [handler EXCEPT ![isr[i].index] = isr[i].event.handler]
    /\ isr' = [isr EXCEPT ![i] = At("data", isr[i].event, isr[i].index)]
    /\ UNCHANGED <<startIndex, endIndex, data, executing, fault>>

WriteData(i) ==
    /\ Runs(i)
    /\ isr[i].pc = "data"
    /\ data' = [data EXCEPT ![isr[i].index] = isr[i].event.data]
    /\ isr' = [isr EXCEPT ![i] = Idle]
    /\ UNCHANGED <<startIndex, endIndex, handler, executing, fault>>

\* mutant of Put: the index moves once the event is written, and no critical
\* region is needed for that
PutUnlocked(i) ==
    \/ /\ Runs(i) /\ isr[i].pc = "reserve" /\ ~Full
       /\ isr' = [isr EXCEPT ![i] = At("header", isr[i].event, endIndex)]
       /\ UNCHANGED <<queue, executing, fault>>
    \/ PutRefused(i)
    \/ WriteHeader(i)
    \/ /\ Runs(i) /\ isr[i].pc = "data"
       /\ data' = [data EXCEPT ![isr[i].index] = isr[i].event.data]
       /\ endIndex' = NextIndex(isr[i].index)
       /\ isr' = [isr EXCEPT ![i] = Idle]
       /\ UNCHANGED <<startIndex, handler, executing, fault>>

Put(i) == Reserve(i) \/ PutRefused(i) \/ WriteHeader(i) \/ WriteData(i)

-----------------------------------------------------------------------------
(* app_sched_execute, by the main loop                                     *)

\* the test of the loop
Execute ==
    /\ MainRuns
    /\ pc = "exec"
    /\ pc' = IF Empty THEN "wait" ELSE "take"
    /\ UNCHANGED <<queue, isr, index, called, fault>>

TakeIndex ==
    /\ MainRuns
    /\ pc = "take"
    /\ index' = startIndex
    /\ pc' = "call"
    /\ UNCHANGED <<queue, isr, called, fault>>

\* the handler is read from the header; the data stay in the slot
CallHandler ==
    /\ MainRuns
    /\ pc = "call"
    /\ called' = handler[index]
    /\ pc' = "run"
    /\ UNCHANGED <<queue, isr, index, fault>>

\* mutant of HandlerReturns: one event each time the main loop wakes up
HandlerReturnsOnce ==
    /\ MainRuns
    /\ pc = "run"
    /\ startIndex' = NextIndex(startIndex)
    /\ index' = NoSlot
    /\ called' = NoSlot
    /\ pc' = "wait"
    /\ UNCHANGED <<endIndex, handler, data, isr, fault>>

HandlerReturns ==
    /\ MainRuns
    /\ pc = "run"
    /\ startIndex' = NextIndex(startIndex)
    /\ index' = NoSlot
    /\ called' = NoSlot
    /\ pc' = "exec"
    /\ UNCHANGED <<endIndex, handler, data, isr, fault>>

\* the rest of the loop, once it does not wait (any more)
LoopAgain ==
    /\ MainRuns
    /\ pc = "wait"
    /\ pc' = "exec"
    /\ UNCHANGED <<queue, isr, index, called, fault>>

MainLoop ==
    Execute \/ TakeIndex \/ CallHandler \/ HandlerReturns \/ LoopAgain

\* app_error_fault_handler
Restart ==
    /\ fault
    /\ startIndex' = 0
    /\ endIndex' = 0
    /\ handler' = [s \in Slots |-> NoSlot]
    /\ data' = [s \in Slots |-> NoSlot]
    /\ isr' = [i \in Interrupts |-> Idle]
    /\ pc' = "exec"
    /\ index' = NoSlot
    /\ called' = NoSlot
    /\ fault' = FALSE

SchedNext ==
    \/ \E i \in Interrupts, e \in Events : EnterPut(i, e)
    \/ \E i \in Interrupts : Put(i)
    \/ MainLoop
    \/ Restart

SchedSpec == SchedInit /\ [][SchedNext]_schedVars

-----------------------------------------------------------------------------
\* the slots between the two indices
Taken ==
    IF startIndex <= endIndex
    THEN {s \in Slots : startIndex <= s /\ s < endIndex}
    ELSE {s \in Slots : startIndex <= s \/ s < endIndex}

\* An event is written to a slot that is taken and that nobody else has: not
\* the main loop, which is handling the event of the oldest slot and passes
\* its handler a pointer into it, and not another interrupt, which took its
\* slot while this one was half-way.  The note in app_sched_event_put explains
\* why the writing needs no critical region.
SlotsAreExclusive ==
    \A i \in Interrupts : Writing(i) =>
        /\ isr[i].index \in Taken
        /\ isr[i].index # index
        /\ \A j \in Interrupts \ {i} : Writing(j) => isr[j].index # isr[i].index

-----------------------------------------------------------------------------
(* The queue this implements.  A slot that is being written counts for the *)
(* event that will be in it.                                               *)

Slot(k) == IF startIndex + k - 1 <= QueueSize
           THEN startIndex + k - 1 ELSE startIndex + k - 1 - (QueueSize + 1)

Count == IF startIndex <= endIndex
         THEN endIndex - startIndex ELSE endIndex - startIndex + QueueSize + 1

EventAt(s) ==
    IF \E i \in Interrupts : Writing(i) /\ isr[i].index = s
    THEN (CHOOSE e \in Events : \E i \in Interrupts :
             Writing(i) /\ isr[i].index = s /\ isr[i].event = e)
    ELSE [handler |-> handler[s], data |-> data[s]]

Pending == [k \in 1 .. Count |-> EventAt(Slot(k))]

\* what the handler sees that is running
Handling == IF pc = "run" THEN [handler |-> called, data |-> data[index]]
            ELSE NoSlot

Queue == INSTANCE EventQueue WITH
    Size <- QueueSize, NoEvent <- NoSlot,
    queue <- Pending, running <- Handling, down <- fault

\* The scheduler is the bounded queue of EventQueue, whatever the interrupts
\* do and whenever they come: no event is lost, doubled, overtaken or seen
\* half-written by its handler, and none is refused while there is room.
ImplementsQueue == Queue!SafeSpec

\* ... and every event that was accepted is handled.
EventsAreHandled == Queue!Fairness
=============================================================================
