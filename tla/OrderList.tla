------------------------------ MODULE OrderList ------------------------------
(***************************************************************************)
(* The order list of src/orderProcessing.c: an array of                    *)
(* ORDER_ITEM_QUANTITY device numbers, most recently secured device first, *)
(* 0xFFFF in the places not used.  Pure operators; OrderProcessing gives   *)
(* them a heap of lists, MouseApp the single list of the firmware.         *)
(***************************************************************************)
EXTENDS Naturals, FiniteSets

CONSTANTS
    OrderItemQuantity,  \* ORDER_ITEM_QUANTITY, 5 in the firmware
    Items               \* the device numbers in use (uint8_t)

(* With one place only, orderSetFirst returns before it stores anything.   *)
(* The zeroed memory a list starts from makes 0 a number like any other.   *)
ASSUME OrderListAssumption ==
    /\ OrderItemQuantity \in Nat \ {0, 1}
    /\ Items \subseteq 0..255
    /\ 0 \in Items

OrderItemFree == 65535

Positions == 0 .. OrderItemQuantity - 1

OrderLists == [Positions -> Items \cup {OrderItemFree}]

-----------------------------------------------------------------------------
\* mutant of CleanOrder: only the low byte of a place is cleared
CleanOrderByte == [p \in Positions |-> 255]

\* memset(order, ORDER_CLEAR_BYTE, ...): every uint16_t becomes 0xFFFF
CleanOrder == [p \in Positions |-> OrderItemFree]

\* the list lies in zeroed memory before its first orderMalloc
ZeroOrder == [p \in Positions |-> 0]

IsListed(order, inItem) == \E p \in Positions : order[p] = inItem

\* getIDPos: the first position that holds the item
GetIDPos(order, inItem) ==
    CHOOSE p \in Positions :
        /\ order[p] = inItem
        /\ \A q \in Positions : order[q] = inItem => p <= q

\* the places up to last move one down, the item takes the first
ShiftIn(order, last, inItem) ==
    [p \in Positions |-> IF p > last THEN order[p]
                         ELSE IF p = 0 THEN inItem ELSE order[p - 1]]

\* mutant of OrderSetFirst: the item swaps places with the first one
OrderSetFirstSwap(order, inItem) ==
    LET last == IF IsListed(order, inItem) THEN GetIDPos(order, inItem)
                                           ELSE OrderItemQuantity - 1
    IN  [order EXCEPT ![last] = order[0], ![0] = inItem]

\* orderSetFirst: an item not listed takes the place of the last one
OrderSetFirst(order, inItem) ==
    LET currentPos == IF IsListed(order, inItem)
                      THEN GetIDPos(order, inItem)
                      ELSE OrderItemQuantity - 1
    IN  IF currentPos = 0 THEN order ELSE ShiftIn(order, currentPos, inItem)

\* orderGetQuantity: the position of the first free place
OrderGetQuantity(order) ==
    IF IsListed(order, OrderItemFree) THEN GetIDPos(order, OrderItemFree)
                                      ELSE OrderItemQuantity

-----------------------------------------------------------------------------
\* a device is listed once
NoDuplicate(order) ==
    \A p, q \in Positions :
        order[p] = order[q] /\ order[p] # OrderItemFree => p = q

\* a used place has no free place before it
NoHole(order) ==
    \A p, q \in Positions :
        q <= p /\ order[p] # OrderItemFree => order[q] # OrderItemFree

WellFormed(order) == NoDuplicate(order) /\ NoHole(order)
=============================================================================
