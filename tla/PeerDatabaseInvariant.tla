----------------------- MODULE PeerDatabaseInvariant -----------------------
(***************************************************************************)
(* What the handlers of the peer manager rely on.  While they run at the   *)
(* end of an operation, it is still the first of the queue: n is the first *)
(* operation of which something holds, 1 or 2.                             *)
(***************************************************************************)
EXTENDS PeerDatabase

Datas   == {"bonding", "local"}
Records == [peer : Peers, data : Datas, token : Nat \ {0}]

Operations ==
    [op : {"write", "update"}, peer : Peers, data : Datas, token : Nat \ {0}, old : Nat]
    \cup [op : {"deleteFile"}, peer : Peers, data : {"none"}, token : {0}, old : {0}]
    \cup [op : {"gc"}, peer : {PeerIdInvalid}, data : {"none"}, token : {0}, old : {0}]

BufferRecords ==
    {Unused}
    \cup [peer : Peers, data : Datas, prepared : BOOLEAN, token : Nat, busy : BOOLEAN,
          full : BOOLEAN]

States ==
    [flash : SUBSET Records, garbage : 0..Places, reserved : -1..Places,
     queue : Seq(Operations), running : BOOLEAN, carried : BOOLEAN,
     used : SUBSET Peers, deleted : SUBSET Peers, ongoing : BOOLEAN,
     buf : [Buffers -> BufferRecords], pending : BOOLEAN,
     link : {"none", "up", "gone"}, peer : Peers \cup {PeerIdInvalid},
     proc : {"none", "pairing", "busy", "full"}, update : BOOLEAN, lock : BOOLEAN,
     fault : BOOLEAN, failed : BOOLEAN, left : Budget]

Typed(s) == s \in States /\ IsFiniteSet(s.flash) /\ Len(s.queue) <= QueueSize

IsWrite(op) == op.op \in {"write", "update"}

\* the buffer that the pairing has prepared
PreparedFor(id) ==
    [peer |-> id, data |-> "bonding", prepared |-> TRUE, token |-> StoreTokenInvalid,
     busy |-> FALSE, full |-> FALSE]

IsPrepared(s, b) ==
    /\ s.proc = "pairing" /\ s.peer \in Peers
    /\ s.buf[b] = PreparedFor(s.peer)

\* A buffer that is not handed over is free, or that of the pairing.
BuffersOK(s) ==
    /\ \A b \in Buffers : ~Stored(s.buf[b]) => s.buf[b] = Unused \/ IsPrepared(s, b)
    /\ \A b, c \in Buffers : IsPrepared(s, b) /\ IsPrepared(s, c) => b = c
    /\ s.proc = "pairing" => s.link = "up"
    /\ s.proc = "pairing" /\ s.peer \in Peers => \E b \in Buffers : IsPrepared(s, b)
    /\ s.link = "none" => s.proc = "none"

\* A buffer waits for the write with its token, and each write is waited for.
WaitsFor(s, b, k) ==
    /\ IsWrite(s.queue[k])
    /\ s.buf[b].token = s.queue[k].token
    /\ s.buf[b].peer = s.queue[k].peer
    /\ s.buf[b].data = s.queue[k].data

TokensOK(s, n) ==
    /\ \A j, k \in 1..Len(s.queue) :
          s.queue[j].token # 0 /\ s.queue[j].token = s.queue[k].token => j = k
    /\ \A b \in Buffers : s.buf[b].token # 0 =>
          /\ ~s.buf[b].busy /\ ~s.buf[b].full
          /\ \E k \in n..Len(s.queue) : WaitsFor(s, b, k)
    /\ \A k \in n..Len(s.queue) : IsWrite(s.queue[k]) => \E b \in Buffers : WaitsFor(s, b, k)
    /\ \A b, c \in Buffers :
          s.buf[b].token # 0 /\ s.buf[b].token = s.buf[c].token => b = c

\* One deletion is in the queue as long as one goes on, ...
IsDeletion(s, k) == s.queue[k].op = "deleteFile"

DeletionsOK(s, n) ==
    /\ s.ongoing <=> \E k \in n..Len(s.queue) : IsDeletion(s, k)
    /\ \A j, k \in n..Len(s.queue) : IsDeletion(s, j) /\ IsDeletion(s, k) => j = k

\* ... and it does as long as there are ids to be deleted.
DeletionsGoOn(s) == s.deleted # {} => s.ongoing

\* whoever waits will be woken
HasGc(s, n) == \E k \in n..Len(s.queue) : s.queue[k].op = "gc"

SomeStored(s) == \E b \in Buffers : Stored(s.buf[b])

\* who waits for a buffer is served after the store that keeps it ends
Waiting(s) ==
    s.proc = "busy" \/ (s.update /\ s.link # "none") => SomeStored(s)

LockHeld(s) == s.lock => \E b \in Buffers : s.buf[b].data = "local" /\ Stored(s.buf[b])

PendingOK(s) == \A b \in Buffers : s.buf[b].busy \/ s.buf[b].full => s.pending

BusyWake(s, n) == \A b \in Buffers : s.buf[b].busy => Len(s.queue) >= n
FullWake(s, n) == \A b \in Buffers : s.buf[b].full => HasGc(s, n)
ProcWakes(s, n) == s.proc = "full" => HasGc(s, n)

WakeOK(s, n) ==
    /\ Waiting(s) /\ LockHeld(s) /\ PendingOK(s)
    /\ BusyWake(s, n) /\ FullWake(s, n) /\ ProcWakes(s, n)

\* the places that are set aside
WritesFrom(s, n) == {k \in n..Len(s.queue) : IsWrite(s.queue[k])}
IsAside(r)       == r.prepared /\ ~Stored(r)
PreparedOnes(s)  == {b \in Buffers : IsAside(s.buf[b])}

SpaceOK(s, n) ==
    ~s.failed =>
        /\ s.reserved = Cardinality(WritesFrom(s, n)) + Cardinality(PreparedOnes(s))
        /\ \A b \in Buffers : ~s.buf[b].busy /\ (s.buf[b].full => ~s.buf[b].prepared)

Between(s) == (s.running => s.queue # <<>> /\ s.carried) /\ (~s.failed => s.carried)

Inductive ==
    /\ Typed(db)
    /\ Between(db)
    /\ ~db.fault =>
          /\ BuffersOK(db) /\ TokensOK(db, 1)
          /\ DeletionsOK(db, 1) /\ DeletionsGoOn(db)
          /\ WakeOK(db, 1) /\ SpaceOK(db, 1)
=============================================================================
