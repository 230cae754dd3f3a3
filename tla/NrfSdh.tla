------------------------------- MODULE NrfSdh -------------------------------
(***************************************************************************)
(* components/softdevice/common (nrf_sdh.c, nrf_sdh_ble.c, nrf_sdh_soc.c)  *)
(* with the dispatch model of the firmware, APPSH, and the main loop of    *)
(* main.c: the stack raises SD_EVT, whose handler only puts a poll in the  *)
(* scheduler's queue; the poll, in the main loop, fetches from the stack   *)
(* until nothing is left, from one source after the other.  RTC1, the      *)
(* timers' interrupt, puts the time-outs.                                  *)
(***************************************************************************)
EXTENDS AppScheduler

CONSTANTS
    Timers,      \* the timers whose time-outs RTC1 puts
    MaxArrivals  \* bound: events of the stack and time-outs, over a behaviour

ASSUME NrfSdhAssumption ==
    /\ MaxArrivals \in Nat
    /\ Interrupts = {"SD_EVT", "RTC1"}
    /\ Handlers = {"appsh_events_poll", "timeout_handler_scheduled_exec"}
    /\ Data = Timers \cup {"none"}
    /\ NoSlot \notin {"soc", "ble"}

VARIABLES
    stack,      \* the events in the stack, by source
    sdPending,  \* SD_EVT is pending
    poll,       \* the source the poll is at, or NoSlot
    latch,      \* an interrupt came since the main loop last waited
    arrivals    \* what has come so far

sdhVars == <<stack, sdPending, poll, latch, arrivals>>
vars    == <<schedVars, sdhVars>>

\* the observers of the stack: nrf_sdh_soc_evts_poll, nrf_sdh_ble_evts_poll,
\* both of priority 0, in the order the linker leaves them in
Sources == {"soc", "ble"}
FirstSource == "soc"
NextSource(s) == IF s = "soc" THEN "ble" ELSE NoSlot

PollEvent == [handler |-> "appsh_events_poll", data |-> "none"]
TimeoutEvent(t) ==
    [handler |-> "timeout_handler_scheduled_exec", data |-> t]

TypeOK ==
    /\ SchedTypeOK
    /\ stack \in [Sources -> 0 .. MaxArrivals]
    /\ sdPending \in BOOLEAN
    /\ poll \in Sources \cup {NoSlot}
    /\ latch \in BOOLEAN
    /\ arrivals \in 0 .. MaxArrivals

Init ==
    /\ SchedInit
    /\ stack = [s \in Sources |-> 0]
    /\ sdPending = FALSE
    /\ poll = NoSlot
    /\ latch = FALSE
    /\ arrivals = 0

-----------------------------------------------------------------------------
(* The interrupts.                                                         *)

\* external: the stack has an event for the application
StackEvent(s) ==
    /\ ~fault
    /\ arrivals < MaxArrivals
    /\ stack' = [stack EXCEPT ![s] = @ + 1]
    /\ sdPending' = TRUE
    /\ arrivals' = arrivals + 1
    /\ UNCHANGED <<schedVars, poll, latch>>

\* mutant of SD_EVT_IRQHandler: no second poll while one is being handled
SD_EVT_IRQHandlerOnce ==
    /\ sdPending
    /\ IF called = "appsh_events_poll"
       THEN MayEnter("SD_EVT") /\ UNCHANGED schedVars
       ELSE EnterPut("SD_EVT", PollEvent)
    /\ sdPending' = FALSE
    /\ latch' = TRUE
    /\ UNCHANGED <<stack, poll, arrivals>>

SD_EVT_IRQHandler ==
    /\ sdPending
    /\ EnterPut("SD_EVT", PollEvent)
    /\ sdPending' = FALSE
    /\ latch' = TRUE
    /\ UNCHANGED <<stack, poll, arrivals>>

\* app_timer.c, timeout_handler_exec: a timer has expired
Timeout(t) ==
    /\ arrivals < MaxArrivals
    /\ EnterPut("RTC1", TimeoutEvent(t))
    /\ latch' = TRUE
    /\ arrivals' = arrivals + 1
    /\ UNCHANGED <<stack, sdPending, poll>>

PutStep(i) == Put(i) /\ UNCHANGED sdhVars

-----------------------------------------------------------------------------
(* The main loop.                                                          *)

\* the loop of app_sched_execute up to the call of the handler
ExecuteStep ==
    /\ \/ Execute
       \/ TakeIndex
       \/ CallHandler
    /\ poll' = IF pc = "call" /\ handler[index] = "appsh_events_poll"
               THEN FirstSource ELSE poll
    /\ UNCHANGED <<stack, sdPending, latch, arrivals>>

\* sd_evt_get, sd_ble_evt_get: an event is dispatched to its observers
PollGet ==
    /\ MainRuns
    /\ poll # NoSlot
    /\ stack[poll] > 0
    /\ stack' = [stack EXCEPT ![poll] = @ - 1]
    /\ UNCHANGED <<schedVars, sdPending, poll, latch, arrivals>>

\* mutant of PollEnd: the poll ends with the first source that has an event
PollEndEarly ==
    /\ MainRuns
    /\ poll # NoSlot
    /\ stack[poll] = 0
    /\ poll' = NoSlot
    /\ UNCHANGED <<schedVars, stack, sdPending, latch, arrivals>>

\* NRF_ERROR_NOT_FOUND: on to the next observer
PollEnd ==
    /\ MainRuns
    /\ poll # NoSlot
    /\ stack[poll] = 0
    /\ poll' = NextSource(poll)
    /\ UNCHANGED <<schedVars, stack, sdPending, latch, arrivals>>

\* a handler returns; that of a time-out does its work in this step
Returns ==
    /\ poll = NoSlot
    /\ HandlerReturns
    /\ UNCHANGED sdhVars

\* power_manage: sd_app_evt_wait returns at once when an interrupt has come
\* since it last returned, and otherwise when the next one does
PowerManage ==
    /\ LoopAgain
    /\ latch
    /\ latch' = FALSE
    /\ UNCHANGED <<stack, sdPending, poll, arrivals>>

\* the fault handler restarts the chip
Reset ==
    /\ Restart
    /\ stack' = [s \in Sources |-> 0]
    /\ sdPending' = FALSE
    /\ poll' = NoSlot
    /\ latch' = FALSE
    /\ UNCHANGED arrivals

Main == ExecuteStep \/ PollGet \/ PollEnd \/ Returns \/ PowerManage

Next ==
    \/ \E s \in Sources : StackEvent(s)
    \/ SD_EVT_IRQHandler
    \/ \E t \in Timers : Timeout(t)
    \/ \E i \in Interrupts : PutStep(i)
    \/ Main
    \/ Reset

Spec == Init /\ [][Next]_vars

\* the processor runs: what is pending is entered, and what runs goes on
FairSpec ==
    /\ Spec
    /\ WF_vars(Main)
    /\ WF_vars(SD_EVT_IRQHandler)
    /\ WF_vars(\E i \in Interrupts : PutStep(i))
    /\ WF_vars(Reset)

-----------------------------------------------------------------------------
\* An event that waits in the stack is announced: SD_EVT is pending, or about
\* to put a poll, or a poll is in the queue and not yet run, or the poll that
\* runs has yet to look at the source.  The events of the flash and of the
\* links come to the firmware in no other way.
PollQueued ==
    \E k \in 1 .. Count : Pending[k] = PollEvent /\ (k = 1 => pc # "run")

Announced(s) ==
    \/ sdPending
    \/ isr["SD_EVT"].pc = "reserve"
    \/ PollQueued
    \/ poll = s
    \/ poll # NoSlot /\ NextSource(poll) = s

StackEventsAnnounced ==
    \A s \in Sources : ~fault /\ stack[s] > 0 => Announced(s)

\* What waits in the stack is fetched in the end, and the main loop does not
\* sleep on it.
StackIsFetched == \A s \in Sources : stack[s] > 0 ~> stack[s] = 0
=============================================================================
