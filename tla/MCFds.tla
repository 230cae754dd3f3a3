-------------------------------- MODULE MCFds --------------------------------
(***************************************************************************)
(* Three pages, as in the firmware, of two records each.  The flash is     *)
(* blank, or has been used: the swap page is the first one, as a fresh     *)
(* installation leaves it, or the last one, as a collection of the last    *)
(* page does.  Or the device was switched off while a page was collected:  *)
(* before the page was erased, or after.                                   *)
(***************************************************************************)
EXTENDS FdsClaims, FdsInvariant

WholeRec(id) == [st |-> "whole", id |-> id, file |-> "f"]
Dirty(id) == [WholeRec(id) EXCEPT !.st = "dirty"]

Page(tag, r1, r2) == [tag |-> tag, rec |-> <<r1, r2>>]

Blank == [p \in 1 .. 3 |-> Page("erased", ErasedSlot, ErasedSlot)]
Low   == <<Page("swap", ErasedSlot, ErasedSlot),
           Page("data", Dirty(1), WholeRec(2)),
           Page("data", WholeRec(3), ErasedSlot)>>
High  == <<Low[2], Low[3], Low[1]>>

\* record 2 is on its page and on the swap page; record 4 on the swap page only
Twice == <<Page("data", WholeRec(1), WholeRec(2)),
           Page("swap", WholeRec(2), ErasedSlot),
           Page("data", WholeRec(3), ErasedSlot)>>
Half  == <<Low[2], Page("swap", WholeRec(4), ErasedSlot), Blank[1]>>

Flashes == {Blank, Low, High, Half, Twice}
=============================================================================
