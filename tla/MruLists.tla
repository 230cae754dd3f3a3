------------------------------ MODULE MruLists ------------------------------
(***************************************************************************)
(* What the order lists of the firmware promise: each owner's list is the  *)
(* sequence of the devices it last touched, latest first, a device once,   *)
(* cut at Capacity; a list can be forgotten, saved and loaded back, and a  *)
(* power loss takes every list but the saved one.                          *)
(***************************************************************************)
EXTENDS Naturals, Sequences, SequencesExt

CONSTANTS Capacity, Owners, Items

VARIABLES
    recent,  \* each owner's list
    kept     \* the saved list, as the set {} or {list}

vars == <<recent, kept>>

Init ==
    /\ recent = [o \in Owners |-> <<>>]
    /\ kept = {}

Touched(list, i) ==
    LET moved == <<i>> \o RemoveFirst(list, i)
    IN  IF Len(moved) > Capacity THEN SubSeq(moved, 1, Capacity) ELSE moved

Touch(o, i) ==
    /\ recent' = [recent EXCEPT ![o] = Touched(@, i)]
    /\ UNCHANGED kept

Forget(o) ==
    /\ recent' = [recent EXCEPT ![o] = <<>>]
    /\ UNCHANGED kept

Save(o) ==
    /\ kept' = {recent[o]}
    /\ UNCHANGED recent

Load(o) ==
    /\ \E list \in kept : recent' = [recent EXCEPT ![o] = list]
    /\ UNCHANGED kept

PowerLoss ==
    /\ recent' = [o \in Owners |-> <<>>]
    /\ UNCHANGED kept

Next ==
    \/ \E o \in Owners :
          \/ Forget(o)
          \/ Save(o)
          \/ Load(o)
          \/ \E i \in Items : Touch(o, i)
    \/ PowerLoss

Spec == Init /\ [][Next]_vars
=============================================================================
