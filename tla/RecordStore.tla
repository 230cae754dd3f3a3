----------------------------- MODULE RecordStore -----------------------------
(***************************************************************************)
(* What components/libraries/fds promises its users: records that are      *)
(* changed one operation at a time, in the order of the calls, by the      *)
(* operation at the head of the queue only; that no garbage collection     *)
(* touches; and that a reset leaves as they were, up to the effect of the  *)
(* one write that was under way.                                           *)
(***************************************************************************)
EXTENDS Naturals, Sequences

VARIABLES
    records,   \* the records that can be found
    pending,   \* the operations that were accepted, the oldest first
    outcome,   \* of the oldest: "none" as long as it is under way
    up         \* the storage can be used

vars == <<records, pending, outcome, up>>

TypeOK ==
    /\ \A r \in records : r.id \in Nat
    /\ outcome \in {"none", "success", "error"}
    /\ up \in BOOLEAN

New(op) == [id |-> op.id, file |-> op.file]

\* the steps in which an operation changes the records
Effect(op) ==
    \/ /\ op.op \in {"write", "update"}
       /\ records' = records \cup {New(op)}
    \/ /\ op.op = "update"
       /\ New(op) \in records
       /\ records' = {r \in records : r.id # op.old}
    \/ /\ op.op = "delete"
       /\ records' = {r \in records : r.id # op.old}
    \/ /\ op.op = "deleteFile"
       /\ \E r \in records :
            r.file = op.file /\ records' = records \ {r}

\* what an operation that succeeded has done
Done(op) ==
    CASE op.op = "write"      -> New(op) \in records
      [] op.op = "update"     -> /\ New(op) \in records
                                 /\ \A r \in records : r.id # op.old
      [] op.op = "delete"     -> \A r \in records : r.id # op.old
      [] op.op = "deleteFile" -> \A r \in records : r.file # op.file
      [] OTHER                -> TRUE

Request ==
    /\ up
    /\ \E n \in {Len(pending) + 1} :
        /\ Len(pending') = n
        /\ SubSeq(pending', 1, n - 1) = pending
    /\ UNCHANGED <<records, outcome, up>>

Change ==
    /\ pending # <<>>
    /\ outcome = "none"
    /\ Effect(Head(pending))
    /\ UNCHANGED <<pending, outcome, up>>

Finish ==
    /\ pending # <<>>
    /\ outcome = "none"
    /\ \/ outcome' = "success" /\ Done(Head(pending))
       \/ outcome' = "error"
    /\ up \/ up' = (outcome' = "success")
    /\ up => up'
    /\ UNCHANGED <<records, pending>>

Remove ==
    /\ outcome # "none"
    /\ pending' = Tail(pending)
    /\ outcome' = "none"
    /\ UNCHANGED <<records, up>>

\* the device is switched off; what it was writing may just be written
Reset ==
    /\ \/ UNCHANGED records
       \/ pending # <<>> /\ outcome = "none" /\ Effect(Head(pending))
    /\ pending' = <<>>
    /\ outcome' = "none"
    /\ up' = FALSE

\* fds_init; what it has to write is an operation of its own
Start ==
    /\ ~up
    /\ pending = <<>>
    /\ \/ up' = TRUE /\ UNCHANGED pending
       \/ up' = FALSE /\ Len(pending') = 1
    /\ UNCHANGED <<records, outcome>>

Init ==
    /\ pending = <<>>
    /\ outcome = "none"
    /\ up = FALSE

Next == Request \/ Change \/ Finish \/ Remove \/ Reset \/ Start

Spec == Init /\ [][Next]_vars
=============================================================================
