--------------------------- MODULE OrderProcessing ---------------------------
(***************************************************************************)
(* src/orderProcessing.c: the heap of HEAP_ORDER_QUANTITY lists, every     *)
(* operation on a list, and the saved copy the application keeps in flash. *)
(*                                                                         *)
(* flashMemReadBytes and flashMemWriteBytes are supplied by the user of    *)
(* the file; here they are a store that completes at once (`saved`).       *)
(***************************************************************************)
EXTENDS OrderList

CONSTANTS
    HeapOrderQuantity,  \* HEAP_ORDER_QUANTITY, 2 in the firmware
    NoRecord            \* no order record was ever written

ASSUME HeapAssumption ==
    /\ HeapOrderQuantity \in Nat \ {0}
    /\ NoRecord \notin OrderLists

VARIABLES
    heap,           \* heapDescriptor.heap
    heapItemState,  \* heapDescriptor.heapItemState
    saved           \* the order record in flash

vars == <<heap, heapItemState, saved>>

Handles == 0 .. HeapOrderQuantity - 1

TypeOK ==
    /\ heap \in [Handles -> OrderLists]
    /\ heapItemState \in [Handles -> {"FREE", "BUSY"}]
    /\ saved \in OrderLists \cup {NoRecord}

Boot ==
    /\ heap = [h \in Handles |-> ZeroOrder]
    /\ heapItemState = [h \in Handles |-> "FREE"]

Init == Boot /\ saved = NoRecord

-----------------------------------------------------------------------------
IsBusy(h) == heapItemState[h] = "BUSY"

\* mutant of OrderMalloc: the list keeps what its memory held
OrderMallocNoClear(h) ==
    /\ ~IsBusy(h)
    /\ \A k \in Handles : k < h => IsBusy(k)
    /\ heapItemState' = [heapItemState EXCEPT ![h] = "BUSY"]
    /\ UNCHANGED <<heap, saved>>

\* orderMalloc: the first free list, cleared
OrderMalloc(h) ==
    /\ ~IsBusy(h)
    /\ \A k \in Handles : k < h => IsBusy(k)
    /\ heapItemState' = [heapItemState EXCEPT ![h] = "BUSY"]
    /\ heap' = [heap EXCEPT ![h] = CleanOrder]
    /\ UNCHANGED saved

\* orderFree: no test that the list is in use
OrderFree(h) ==
    /\ heapItemState' = [heapItemState EXCEPT ![h] = "FREE"]
    /\ UNCHANGED <<heap, saved>>

\* a caller uses the lists orderMalloc gave it
SetFirst(h, inItem) ==
    /\ IsBusy(h)
    /\ heap' = [heap EXCEPT ![h] = OrderSetFirst(@, inItem)]
    /\ UNCHANGED <<heapItemState, saved>>

OrderClean(h) ==
    /\ IsBusy(h)
    /\ heap' = [heap EXCEPT ![h] = CleanOrder]
    /\ UNCHANGED <<heapItemState, saved>>

\* flashMemReadBytes leaves the list alone when there is no record
OrderReadFlash(h) ==
    /\ IsBusy(h)
    /\ saved # NoRecord
    /\ heap' = [heap EXCEPT ![h] = saved]
    /\ UNCHANGED <<heapItemState, saved>>

OrderWriteFlash(h) ==
    /\ IsBusy(h)
    /\ saved' = heap[h]
    /\ UNCHANGED <<heap, heapItemState>>

\* a reset of the chip: the memory is initialised again, the flash is not
Restart ==
    /\ heapItemState' = [h \in Handles |-> "FREE"]
    /\ heap' = [h \in Handles |-> ZeroOrder]
    /\ UNCHANGED saved

Next ==
    \/ \E h \in Handles :
          \/ OrderMalloc(h)
          \/ OrderFree(h)
          \/ OrderClean(h)
          \/ OrderReadFlash(h)
          \/ OrderWriteFlash(h)
          \/ \E i \in Items : SetFirst(h, i)
    \/ Restart

Spec == Init /\ [][Next]_vars

-----------------------------------------------------------------------------
(* Every list in use, and the saved one, names a device once and has its   *)
(* used places in front: orderGetPos, orderGetQuantity and the scan phase  *)
(* of main.c, which indexes listDetectedDev by this position, rely on it.  *)
ListsWellFormed ==
    /\ \A h \in Handles : IsBusy(h) => WellFormed(heap[h])
    /\ saved # NoRecord => WellFormed(saved)

(* What the lists of the heap promise together: refinement of the lists by *)
(* recency of MruLists (OrderProcessing does what its users expect).       *)
Used(order) == {p \in Positions : order[p] # OrderItemFree}

AsSeq(order) == [k \in 1..Cardinality(Used(order)) |-> order[k - 1]]

Mru == INSTANCE MruLists WITH
    Capacity <- OrderItemQuantity,
    Owners <- Handles,
    recent <- [h \in Handles |-> IF IsBusy(h) THEN AsSeq(heap[h]) ELSE <<>>],
    kept <- IF saved = NoRecord THEN {} ELSE {AsSeq(saved)}

ImplementsMru == Mru!Spec
=============================================================================
