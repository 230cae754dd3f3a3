----------------------------- MODULE EventQueue -----------------------------
(***************************************************************************)
(* What components/libraries/scheduler promises its users: a bounded       *)
(* first-in first-out queue.  An event that was accepted is handled once,  *)
(* whole, in the order of acceptance, and it keeps its place in the queue  *)
(* while its handler runs.  An event is refused only when the queue is     *)
(* full; the firmware's callers take that for fatal and restart.           *)
(***************************************************************************)
EXTENDS Naturals, Sequences

CONSTANTS
    Size,      \* the number of events that fit
    Events,    \* the events
    NoEvent    \* no event is being handled

VARIABLES
    queue,     \* the accepted events, the oldest first
    running,   \* the event whose handler runs, or NoEvent
    down       \* an event was refused and the firmware is to restart

vars == <<queue, running, down>>

Init ==
    /\ queue = <<>>
    /\ running = NoEvent
    /\ down = FALSE

Accept(e) ==
    /\ ~down
    /\ Len(queue) < Size
    /\ queue' = Append(queue, e)
    /\ UNCHANGED <<running, down>>

Refuse ==
    /\ ~down
    /\ Len(queue) = Size
    /\ down' = TRUE
    /\ UNCHANGED <<queue, running>>

Start ==
    /\ ~down
    /\ running = NoEvent
    /\ queue # <<>>
    /\ running' = Head(queue)
    /\ UNCHANGED <<queue, down>>

Finish ==
    /\ ~down
    /\ running # NoEvent
    /\ queue' = Tail(queue)
    /\ running' = NoEvent
    /\ UNCHANGED down

Restart ==
    /\ down
    /\ queue' = <<>>
    /\ running' = NoEvent
    /\ down' = FALSE

Next ==
    \/ \E e \in Events : Accept(e)
    \/ Refuse
    \/ Start
    \/ Finish
    \/ Restart

SafeSpec == Init /\ [][Next]_vars

\* every accepted event is handled, and every handler returns
Fairness == WF_vars(Start) /\ WF_vars(Finish)

Spec == SafeSpec /\ Fairness
=============================================================================
