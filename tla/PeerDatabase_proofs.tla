-------------------------- MODULE PeerDatabase_proofs --------------------------
(***************************************************************************)
(* Proofs about the peer manager's way to the flash, for any number of     *)
(* buffers from two, of ids, of places and of queued operations.           *)
(***************************************************************************)
EXTENDS PeerDatabaseInvariant, WellFoundedInduction, FiniteSetTheorems, FunctionTheorems, TLAPS

-------------------------------------------------------------------------------
(* Numbers, sets and loops                                                   *)

\* a set of numbers has a least one
LEMMA Least ==
    ASSUME NEW T, T \subseteq Nat, T # {}
    PROVE  \E x \in T : \A y \in T : x <= y
<1>1. PICK x \in T : \A y \in T : ~(<<y, x>> \in OpToRel(<, Nat))
    BY WFMin, NatLessThanWellFounded
<1>2. ASSUME NEW y \in T PROVE x <= y
  <2>1. <<y, x>> \notin OpToRel(<, Nat)
    BY <1>1
  <2> QED
    BY <2>1 DEF OpToRel
<1> QED
    BY <1>2

LEMMA MinIn ==
    ASSUME NEW T, T \subseteq Nat, T # {}
    PROVE  Min(T) \in T
BY Least DEF Min

\* induction up to a number
LEMMA Induction ==
    ASSUME NEW n \in Nat, NEW T, 0 \in T, \A k \in 1..n : k - 1 \in T => k \in T
    PROVE  n \in T
<1> DEFINE U == {k \in 0..n : k \notin T}
<1> SUFFICES ASSUME U # {} PROVE FALSE
    OBVIOUS
<1>1. PICK k \in U : \A y \in U : k <= y
  <2>1. U \subseteq Nat
    OBVIOUS
  <2> HIDE DEF U
  <2> QED
    BY <2>1, Least
<1>2. k \in 1..n /\ k - 1 \notin U
    BY <1>1
<1> QED
    BY <1>1, <1>2

LEMMA IntervalIs ==
    ASSUME NEW n \in Nat
    PROVE  IsFiniteSet(1..n) /\ Cardinality(1..n) = n
<1>1. /\ IsFiniteSet(1..n)
      /\ Cardinality(1..n) = IF 1 > n THEN 0 ELSE n - 1 + 1
  <2>1. 1 \in Int /\ n \in Int
    OBVIOUS
  <2> QED
    BY <2>1, FS_Interval
<1> QED
    BY <1>1

LEMMA MinOfTwo ==
    ASSUME NEW m \in Nat, NEW n \in Nat
    PROVE  Min({m, n}) \in 0..n
<1>1. Min({m, n}) \in {m, n}
    BY MinIn
<1>2. CASE m <= n
    BY <1>1, <1>2
<1>3. CASE m > n
  <2>1. \E x \in {m, n} : \A y \in {m, n} : x <= y
    BY <1>3
  <2>2. \A y \in {m, n} : Min({m, n}) <= y
    BY <2>1 DEF Min
  <2> QED
    BY <1>1, <2>2
<1> QED
    BY <1>2, <1>3

LEMMA LessIs ==
    ASSUME NEW n \in Int, n >= -1
    PROVE  Less(n) = IF n >= 0 THEN n - 1 ELSE -1
<1> DEFINE T == {n - 1, -1}
<1>1. \E x \in T : \A y \in T : x >= y
    BY SMT
<1>2. Max(T) \in T /\ \A y \in T : Max(T) >= y
    BY <1>1 DEF Max
<1>3. Max(T) = IF n >= 0 THEN n - 1 ELSE -1
    BY <1>2
<1> QED
    BY <1>3 DEF Less

-------------------------------------------------------------------------------
(* States and their fields                                                   *)

Fields ==
    {"flash", "garbage", "reserved", "queue", "running", "carried", "used", "deleted",
     "ongoing", "buf", "pending", "link", "peer", "proc", "update", "lock", "fault",
     "failed", "left"}

\* t is s but for the fields in F
Same(F, s, t) == \A f \in Fields \ F : t[f] = s[f]

\* a flash operation is put behind the others
Appended(s, t, op) == t.queue = Append(s.queue, op)

\* operations are added behind the others
Grows(s, t) ==
    /\ Len(s.queue) <= Len(t.queue)
    /\ \A k \in 1..Len(s.queue) : t.queue[k] = s.queue[k]

LEMMA PutDoes ==
    ASSUME NEW s, Typed(s), NEW op \in Operations
    PROVE  /\ Typed(Put(s, op))
           /\ Same({"queue", "fault"}, s, Put(s, op))
           /\ Grows(s, Put(s, op))
           /\ ~Put(s, op).fault => ~s.fault /\ Appended(s, Put(s, op), op)
<1>1. s.queue \in Seq(Operations)
    BY DEF Typed, States
<1>2. /\ Append(s.queue, op) \in Seq(Operations)
      /\ Len(Append(s.queue, op)) = Len(s.queue) + 1 /\ Len(s.queue) \in Nat
      /\ \A k \in 1..Len(s.queue) : Append(s.queue, op)[k] = s.queue[k]
    BY <1>1
<1>3. CASE Len(s.queue) = QueueSize
    BY <1>3, <1>2 DEF Typed, States, Put, Fault, Same, Fields, Grows
<1>4. CASE Len(s.queue) # QueueSize
  <2>1. /\ Put(s, op) = [s EXCEPT !.queue = Append(s.queue, op)]
        /\ Len(s.queue) + 1 <= QueueSize
    BY <1>4, <1>1, PeerDatabaseAssumption DEF Put, Typed
  <2>2. [s EXCEPT !.queue = Append(s.queue, op)] \in States
    BY <1>2 DEF Typed, States
  <2>3. Put(s, op).queue = Append(s.queue, op)
    BY <2>1 DEF Typed, States
  <2>4. Grows(s, Put(s, op))
    BY <2>3, <1>2 DEF Grows
  <2> QED
    BY <2>1, <2>2, <2>4, <1>2 DEF Typed, States, Same, Fields, Appended
<1> QED
    BY <1>3, <1>4

LEMMA GcOperation ==
    Operation("gc", PeerIdInvalid, "none", 0, 0) \in Operations
BY DEF Operation, Operations

LEMMA DeleteOperation ==
    ASSUME NEW id \in Peers
    PROVE  Operation("deleteFile", id, "none", 0, 0) \in Operations
BY DEF Operation, Operations

LEMMA WriteOperation ==
    ASSUME NEW op \in {"write", "update"}, NEW id \in Peers, NEW data \in Datas,
           NEW token \in Nat \ {0}, NEW old \in Nat
    PROVE  Operation(op, id, data, token, old) \in Operations
BY DEF Operation, Operations

\* Only writes have tokens.
LEMMA TokenOfWrite ==
    ASSUME NEW s, Typed(s), NEW k \in 1..Len(s.queue)
    PROVE  /\ s.queue[k] \in Operations
           /\ s.queue[k].token \in Nat
           /\ s.queue[k].token # 0 <=> IsWrite(s.queue[k])
           /\ IsWrite(s.queue[k]) => s.queue[k].peer \in Peers /\ s.queue[k].data \in Datas
<1>1. s.queue[k] \in Operations
    BY DEF Typed, States
<1> QED
    BY <1>1 DEF Operations, IsWrite

LEMMA BufferType ==
    ASSUME NEW s, Typed(s), NEW b \in Buffers
    PROVE  /\ s.buf[b] \in BufferRecords
           /\ s.buf[b].token \in Nat
           /\ s.buf[b] # Unused => s.buf[b].peer \in Peers /\ s.buf[b].data \in Datas
           /\ Stored(s.buf[b]) => s.buf[b] # Unused
<1>1. s.buf[b] \in BufferRecords
    BY DEF Typed, States
<1>2. CASE s.buf[b] = Unused
    BY <1>1, <1>2 DEF Unused, Stored, StoreTokenInvalid
<1>3. CASE s.buf[b] # Unused
  <2>1. s.buf[b] \in [peer : Peers, data : Datas, prepared : BOOLEAN, token : Nat,
                      busy : BOOLEAN, full : BOOLEAN]
    BY <1>1, <1>3 DEF BufferRecords
  <2> QED
    BY <2>1, <1>1, <1>3
<1> QED
    BY <1>2, <1>3

LEMMA UnusedIs == ~Stored(Unused) /\ ~Unused.prepared /\ Unused.peer = PeerIdInvalid
BY DEF Stored, Unused

\* a buffer that is taken
Taken(id, data) ==
    [peer |-> id, data |-> data, prepared |-> FALSE, token |-> StoreTokenInvalid,
     busy |-> FALSE, full |-> FALSE]

LEMMA TakenIs ==
    ASSUME NEW id, NEW data, NEW q, q = Taken(id, data)
    PROVE  ~q.prepared /\ ~Stored(q) /\ q.peer = id /\ q.data = data /\ q.token = 0
BY DEF Taken, Stored, StoreTokenInvalid

LEMMA PreparedIs ==
    ASSUME NEW id, NEW q, q = PreparedFor(id)
    PROVE  /\ q.prepared /\ ~Stored(q) /\ q.peer = id /\ q.data = "bonding" /\ q.token = 0
           /\ q # Unused /\ ~q.busy /\ ~q.full
<1>1. /\ q.prepared /\ ~Stored(q) /\ q.peer = id /\ q.data = "bonding" /\ q.token = 0
      /\ ~q.busy /\ ~q.full
    BY DEF PreparedFor, Stored, StoreTokenInvalid
<1>2. q # Unused
    BY <1>1, UnusedIs
<1> QED
    BY <1>1, <1>2

LEMMA IsPreparedIs ==
    ASSUME NEW s, NEW b, IsPrepared(s, b)
    PROVE  /\ s.buf[b].prepared /\ ~Stored(s.buf[b]) /\ s.buf[b] # Unused
           /\ s.buf[b].peer = s.peer /\ s.buf[b].data = "bonding" /\ s.buf[b].token = 0
<1>1. s.buf[b] = PreparedFor(s.peer)
    BY DEF IsPrepared
<1> QED
    BY <1>1, PreparedIs

\* the components of the types
LEMMA Types ==
    ASSUME NEW s, Typed(s)
    PROVE  /\ s.flash \subseteq Records /\ IsFiniteSet(s.flash)
           /\ s.garbage \in 0..Places /\ s.reserved \in -1..Places
           /\ s.queue \in Seq(Operations) /\ Len(s.queue) \in 0..QueueSize
           /\ s.buf \in [Buffers -> BufferRecords]
           /\ s.used \subseteq Peers /\ s.deleted \subseteq Peers
           /\ s.peer \in Peers \cup {PeerIdInvalid}
           /\ PeerIdInvalid \notin Peers /\ Peers \subseteq Nat
           /\ QueueSize \in Nat /\ Places \in Nat /\ PmFlashBuffers \in Nat
<1>1. Len(s.queue) \in Nat
    BY DEF Typed, States
<1> QED
    BY <1>1, PeerDatabaseAssumption DEF Typed, States, PeerIdInvalid

-------------------------------------------------------------------------------
(* Operations put into the queue                                             *)

LEMMA AppendIs ==
    ASSUME NEW s, Typed(s), NEW op \in Operations, NEW t, Appended(s, t, op)
    PROVE  /\ Len(s.queue) \in Nat /\ Len(t.queue) = Len(s.queue) + 1
           /\ \A k \in 1..Len(s.queue) : t.queue[k] = s.queue[k]
           /\ t.queue[Len(s.queue) + 1] = op
<1>1. s.queue \in Seq(Operations)
    BY DEF Typed, States
<1> QED
    BY <1>1 DEF Appended

\* what waits still does
LEMMA TokensAppend ==
    ASSUME NEW s, Typed(s), NEW op \in Operations, NEW t, Appended(s, t, op),
           ~IsWrite(op), t.buf = s.buf, NEW n \in 1..2, TokensOK(s, n)
    PROVE  TokensOK(t, n)
<1>1. /\ Len(s.queue) \in Nat /\ Len(t.queue) = Len(s.queue) + 1
      /\ \A k \in 1..Len(s.queue) : t.queue[k] = s.queue[k]
      /\ t.queue[Len(s.queue) + 1] = op
    BY AppendIs
<1>2. op.token = 0
    BY DEF Operations, IsWrite
<1>3. ASSUME NEW j \in 1..Len(t.queue), NEW k \in 1..Len(t.queue),
             t.queue[j].token # 0, t.queue[j].token = t.queue[k].token
      PROVE  j = k
  <2>1. j \in 1..Len(s.queue) + 1 /\ k \in 1..Len(s.queue) + 1
    BY <1>1, <1>3
  <2>2. j # Len(s.queue) + 1 /\ k # Len(s.queue) + 1
    <3>1. t.queue[j].token # 0 /\ t.queue[k].token # 0
      BY <1>3
    <3>2. t.queue[Len(s.queue) + 1].token = 0
      BY <1>1, <1>2
    <3> QED
      BY <3>1, <3>2
  <2>3. j \in 1..Len(s.queue) /\ k \in 1..Len(s.queue)
    BY ONLY <2>1, <2>2, <1>1
  <2> QED
    BY <2>3, <1>1, <1>3 DEF TokensOK
<1>4. ASSUME NEW b \in Buffers, t.buf[b].token # 0
      PROVE  /\ ~t.buf[b].busy /\ ~t.buf[b].full
             /\ \E k \in n..Len(t.queue) : WaitsFor(t, b, k)
  <2>1. PICK k \in n..Len(s.queue) : WaitsFor(s, b, k)
    BY <1>4 DEF TokensOK
  <2>2. k \in n..Len(t.queue) /\ WaitsFor(t, b, k)
    BY <2>1, <1>1 DEF WaitsFor
  <2> QED
    BY <2>2, <1>4 DEF TokensOK
<1>5. ASSUME NEW k \in n..Len(t.queue), IsWrite(t.queue[k])
      PROVE  \E b \in Buffers : WaitsFor(t, b, k)
  <2>1. k \in n..Len(s.queue)
    BY <1>1, <1>5
  <2>2. PICK b \in Buffers : WaitsFor(s, b, k)
    BY <2>1, <1>1, <1>5 DEF TokensOK
  <2> QED
    BY <2>1, <2>2, <1>1 DEF WaitsFor
<1> QED
    BY <1>3, <1>4, <1>5 DEF TokensOK

\* a buffer is handed over
LEMMA TokensStore ==
    ASSUME NEW s, Typed(s), NEW op \in Operations, NEW t, Appended(s, t, op),
           NEW b \in Buffers, s.buf[b].token = 0, IsWrite(op),
           \A k \in 1..Len(s.queue) : s.queue[k].token # op.token,
           NEW r, t.buf = [s.buf EXCEPT ![b] = r],
           r.token = op.token, r.peer = op.peer, r.data = op.data, ~r.busy, ~r.full,
           NEW n \in 1..2, TokensOK(s, n), Len(s.queue) >= n - 1
    PROVE  TokensOK(t, n)
<1>1. /\ Len(s.queue) \in Nat /\ Len(t.queue) = Len(s.queue) + 1
      /\ \A k \in 1..Len(s.queue) : t.queue[k] = s.queue[k]
      /\ t.queue[Len(s.queue) + 1] = op
    BY AppendIs
<1>2. t.buf[b] = r /\ \A c \in Buffers : c # b => t.buf[c] = s.buf[c]
    BY DEF Typed, States
<1>3. ASSUME NEW j \in 1..Len(t.queue), NEW k \in 1..Len(t.queue),
             t.queue[j].token # 0, t.queue[j].token = t.queue[k].token
      PROVE  j = k
  <2>1. CASE j \in 1..Len(s.queue) /\ k \in 1..Len(s.queue)
    BY <2>1, <1>1, <1>3 DEF TokensOK
  <2>2. CASE j = Len(s.queue) + 1
    BY <2>2, <1>1, <1>3
  <2>3. CASE k = Len(s.queue) + 1
    BY <2>3, <1>1, <1>3
  <2> QED
    BY <2>1, <2>2, <2>3, <1>1
<1>4. ASSUME NEW c \in Buffers, t.buf[c].token # 0
      PROVE  /\ ~t.buf[c].busy /\ ~t.buf[c].full
             /\ \E k \in n..Len(t.queue) : WaitsFor(t, c, k)
  <2>1. CASE c = b
    <3>1. Len(s.queue) + 1 \in n..Len(t.queue) /\ WaitsFor(t, b, Len(s.queue) + 1)
      BY <1>1, <1>2 DEF WaitsFor
    <3> QED
      BY <3>1, <2>1, <1>2
  <2>2. CASE c # b
    <3>1. PICK k \in n..Len(s.queue) : WaitsFor(s, c, k)
      BY <1>4, <1>2, <2>2 DEF TokensOK
    <3>2. k \in n..Len(t.queue) /\ WaitsFor(t, c, k)
      BY <3>1, <1>1, <1>2, <2>2 DEF WaitsFor
    <3> QED
      BY <3>2, <1>4, <1>2, <2>2 DEF TokensOK
  <2> QED
    BY <2>1, <2>2
<1>5. ASSUME NEW k \in n..Len(t.queue), IsWrite(t.queue[k])
      PROVE  \E c \in Buffers : WaitsFor(t, c, k)
  <2>1. CASE k = Len(s.queue) + 1
    BY <2>1, <1>1, <1>2 DEF WaitsFor
  <2>2. CASE k # Len(s.queue) + 1
    <3>1. k \in n..Len(s.queue) /\ k \in 1..Len(s.queue)
      BY <2>2, <1>1
    <3>2. PICK c \in Buffers : WaitsFor(s, c, k)
      BY <3>1, <1>1, <1>5 DEF TokensOK
    <3>3. c # b
      BY <3>2, <3>1, TokenOfWrite DEF WaitsFor
    <3> QED
      BY <3>1, <3>2, <3>3, <1>1, <1>2 DEF WaitsFor
  <2> QED
    BY <2>1, <2>2
<1>6. ASSUME NEW c \in Buffers, NEW d \in Buffers,
             t.buf[c].token # 0, t.buf[c].token = t.buf[d].token
      PROVE  c = d
  <2>1. ASSUME NEW x \in Buffers, x # b, t.buf[x].token # 0
        PROVE  t.buf[x].token # op.token
    <3>1. PICK k \in n..Len(s.queue) : WaitsFor(s, x, k)
      BY <2>1, <1>2 DEF TokensOK
    <3> QED
      BY <3>1, <2>1, <1>1, <1>2 DEF WaitsFor
  <2> QED
    BY <2>1, <1>6, <1>2 DEF TokensOK
<1> QED
    BY <1>3, <1>4, <1>5, <1>6 DEF TokensOK

LEMMA DeletionsAppend ==
    ASSUME NEW s, Typed(s), NEW op \in Operations, NEW t, Appended(s, t, op),
           op.op # "deleteFile", t.ongoing = s.ongoing, NEW n \in 1..2, DeletionsOK(s, n)
    PROVE  DeletionsOK(t, n)
<1>1. /\ Len(s.queue) \in Nat /\ Len(t.queue) = Len(s.queue) + 1
      /\ \A k \in 1..Len(s.queue) : t.queue[k] = s.queue[k]
      /\ t.queue[Len(s.queue) + 1] = op
    BY AppendIs
<1>2. \A k \in n..Len(t.queue) : IsDeletion(t, k) => k \in n..Len(s.queue) /\ IsDeletion(s, k)
    BY <1>1 DEF IsDeletion
<1>3. \A k \in n..Len(s.queue) : IsDeletion(s, k) => k \in n..Len(t.queue) /\ IsDeletion(t, k)
    BY <1>1 DEF IsDeletion
<1> QED
    BY <1>2, <1>3 DEF DeletionsOK

\* a file is deleted while no other one is
LEMMA DeletionsStart ==
    ASSUME NEW s, Typed(s), NEW op \in Operations, NEW t, Appended(s, t, op),
           op.op = "deleteFile", ~s.ongoing, t.ongoing = TRUE,
           NEW n \in 1..2, DeletionsOK(s, n), Len(s.queue) >= n - 1
    PROVE  DeletionsOK(t, n)
<1>1. /\ Len(s.queue) \in Nat /\ Len(t.queue) = Len(s.queue) + 1
      /\ \A k \in 1..Len(s.queue) : t.queue[k] = s.queue[k]
      /\ t.queue[Len(s.queue) + 1] = op
    BY AppendIs
<1>2. \A k \in n..Len(t.queue) : IsDeletion(t, k) => k = Len(s.queue) + 1
    BY <1>1 DEF IsDeletion, DeletionsOK
<1>3. Len(s.queue) + 1 \in n..Len(t.queue) /\ IsDeletion(t, Len(s.queue) + 1)
    BY <1>1 DEF IsDeletion
<1> QED
    BY <1>2, <1>3 DEF DeletionsOK

-------------------------------------------------------------------------------
(* The places that are set aside                                             *)

LEMMA WritesFinite ==
    ASSUME NEW s, Typed(s), NEW n \in 1..2
    PROVE  /\ IsFiniteSet(WritesFrom(s, n)) /\ Cardinality(WritesFrom(s, n)) \in Nat
           /\ WritesFrom(s, n) \subseteq n..Len(s.queue)
<1>1. IsFiniteSet(n..Len(s.queue))
  <2>1. n \in Int /\ Len(s.queue) \in Int
    BY Types
  <2> QED
    BY <2>1, FS_Interval
<1>2. WritesFrom(s, n) \subseteq n..Len(s.queue)
    BY DEF WritesFrom
<1> QED
    BY <1>1, <1>2, FS_Subset, FS_CardinalityType

LEMMA PreparedFinite ==
    ASSUME NEW s
    PROVE  IsFiniteSet(PreparedOnes(s)) /\ Cardinality(PreparedOnes(s)) \in Nat
<1>1. IsFiniteSet(Buffers)
    BY PeerDatabaseAssumption, FS_Interval DEF Buffers
<1>2. PreparedOnes(s) \subseteq Buffers
    BY DEF PreparedOnes
<1> QED
    BY <1>1, <1>2, FS_Subset, FS_CardinalityType

LEMMA WritesAppend ==
    ASSUME NEW s, Typed(s), NEW op \in Operations, NEW t, Appended(s, t, op),
           NEW n \in 1..2, Len(s.queue) >= n - 1
    PROVE  Cardinality(WritesFrom(t, n))
               = Cardinality(WritesFrom(s, n)) + IF IsWrite(op) THEN 1 ELSE 0
<1>1. /\ Len(s.queue) \in Nat /\ Len(t.queue) = Len(s.queue) + 1
      /\ \A k \in 1..Len(s.queue) : t.queue[k] = s.queue[k]
      /\ t.queue[Len(s.queue) + 1] = op
    BY AppendIs
<1>2. CASE IsWrite(op)
  <2>1. WritesFrom(t, n) = WritesFrom(s, n) \cup {Len(s.queue) + 1}
    BY <1>1, <1>2 DEF WritesFrom
  <2>2. Len(s.queue) + 1 \notin WritesFrom(s, n)
    BY <1>1 DEF WritesFrom
  <2> QED
    BY <2>1, <2>2, <1>2, WritesFinite, FS_AddElement
<1>3. CASE ~IsWrite(op)
  <2>1. WritesFrom(t, n) = WritesFrom(s, n)
    BY <1>1, <1>3 DEF WritesFrom
  <2> QED
    BY <2>1, <1>3, WritesFinite
<1> QED
    BY <1>2, <1>3

LEMMA SpaceAppend ==
    ASSUME NEW s, Typed(s), NEW op \in Operations, NEW t, Appended(s, t, op),
           ~IsWrite(op), t.buf = s.buf, t.reserved = s.reserved, t.failed = s.failed,
           NEW n \in 1..2, Len(s.queue) >= n - 1, SpaceOK(s, n)
    PROVE  SpaceOK(t, n)
<1>1. Cardinality(WritesFrom(t, n)) = Cardinality(WritesFrom(s, n))
    BY WritesAppend, WritesFinite
<1>2. PreparedOnes(t) = PreparedOnes(s)
    BY DEF PreparedOnes
<1> QED
    BY <1>1, <1>2 DEF SpaceOK

\* one buffer changes
LEMMA PreparedChange ==
    ASSUME NEW s, Typed(s), NEW t, NEW b \in Buffers, NEW r, t.buf = [s.buf EXCEPT ![b] = r]
    PROVE  Cardinality(PreparedOnes(t)) = Cardinality(PreparedOnes(s))
               + (IF IsAside(r) THEN 1 ELSE 0) - (IF IsAside(s.buf[b]) THEN 1 ELSE 0)
<1>1. t.buf[b] = r /\ \A c \in Buffers : c # b => t.buf[c] = s.buf[c]
    BY DEF Typed, States
<1>2. IsAside(s.buf[b]) <=> b \in PreparedOnes(s)
    BY DEF PreparedOnes
<1>3. CASE IsAside(r)
  <2>1. PreparedOnes(t) = PreparedOnes(s) \cup {b}
    BY <1>1, <1>3 DEF PreparedOnes
  <2>2. Cardinality(PreparedOnes(t)) = Cardinality(PreparedOnes(s))
            + IF b \in PreparedOnes(s) THEN 0 ELSE 1
    <3>1. IsFiniteSet(PreparedOnes(s)) /\ Cardinality(PreparedOnes(s)) \in Nat
      BY PreparedFinite
    <3>2. Cardinality(PreparedOnes(s) \cup {b}) =
              IF b \in PreparedOnes(s) THEN Cardinality(PreparedOnes(s))
              ELSE Cardinality(PreparedOnes(s)) + 1
      BY <3>1, FS_AddElement
    <3> QED
      BY <3>1, <3>2, <2>1
  <2> QED
    BY <2>2, <1>2, <1>3, PreparedFinite
<1>4. CASE ~IsAside(r)
  <2>1. PreparedOnes(t) = PreparedOnes(s) \ {b}
    BY <1>1, <1>4 DEF PreparedOnes
  <2>2. Cardinality(PreparedOnes(t)) = Cardinality(PreparedOnes(s))
            - IF b \in PreparedOnes(s) THEN 1 ELSE 0
    <3>1. IsFiniteSet(PreparedOnes(s)) /\ Cardinality(PreparedOnes(s)) \in Nat
      BY PreparedFinite
    <3>2. Cardinality(PreparedOnes(s) \ {b}) =
              IF b \in PreparedOnes(s) THEN Cardinality(PreparedOnes(s)) - 1
              ELSE Cardinality(PreparedOnes(s))
      BY <3>1, FS_RemoveElement
    <3> QED
      BY <3>1, <3>2, <2>1
  <2> QED
    BY <2>2, <1>2, <1>4, PreparedFinite
<1> QED
    BY <1>3, <1>4

-------------------------------------------------------------------------------
(* Numbers of records                                                        *)

LEMMA FindIs ==
    ASSUME NEW s, Typed(s), NEW id, NEW data
    PROVE  /\ Find(s, id, data) \in Nat
           /\ Find(s, id, data) = 0 <=> Kind(s, id, data) = {}
<1> DEFINE T == {r.token : r \in Kind(s, id, data)}
<1>1. T \subseteq Nat \ {0}
    BY DEF Typed, States, Kind, Records
<1>2. CASE Kind(s, id, data) = {}
    BY <1>2 DEF Find
<1>3. CASE Kind(s, id, data) # {}
  <2>1. Min(T) \in T
    BY <1>1, <1>3, MinIn
  <2>2. Find(s, id, data) = Min(T)
    BY <1>3 DEF Find
  <2> QED
    BY <2>1, <2>2, <1>1, <1>3
<1> QED
    BY <1>2, <1>3

\* a new number is that of no operation
LEMMA RecordIdIsNew ==
    ASSUME NEW s, Typed(s), NEW id, NEW data,
           Cardinality(s.flash) <= Places \/ Kind(s, id, data) = {}
    PROVE  /\ RecordIdNew(s, id, data) \in Nat \ {0}
           /\ \A k \in 1..Len(s.queue) : s.queue[k].token # RecordIdNew(s, id, data)
<1> DEFINE Queued == {op.token : op \in Range(s.queue)}
           InFlash == {r.token : r \in Kind(s, id, data)}
           All == 1..(Places + QueueSize + 1)
<1>1. /\ s.queue \in Seq(Operations) /\ Len(s.queue) \in 0..QueueSize
      /\ IsFiniteSet(s.flash) /\ QueueSize \in Nat /\ Places \in Nat
      /\ s.garbage \in Nat /\ s.reserved \in Int
    BY Types
<1>2. Queued = {s.queue[k].token : k \in 1..Len(s.queue)}
    BY <1>1 DEF Range
<1>3. IsFiniteSet(Queued) /\ Cardinality(Queued) <= QueueSize
  <2> DEFINE tokens == [k \in 1..Len(s.queue) |-> s.queue[k].token]
  <2>1. tokens \in Surjection(1..Len(s.queue), Queued)
    <3>1. \A x \in Queued : \E k \in 1..Len(s.queue) : tokens[k] = x
      BY <1>2
    <3>2. tokens \in [1..Len(s.queue) -> Queued]
      BY <1>2
    <3> QED
      BY <3>1, <3>2 DEF Surjection
  <2>2. IsFiniteSet(1..Len(s.queue)) /\ Cardinality(1..Len(s.queue)) = Len(s.queue)
    BY <1>1, IntervalIs
  <2>3. IsFiniteSet(Queued) /\ Cardinality(Queued) <= Len(s.queue)
    BY <2>1, <2>2, FS_Surjection
  <2> QED
    BY <2>3, <1>1, FS_CardinalityType
<1>4. IsFiniteSet(InFlash) /\ Cardinality(InFlash) <= Places
  <2>1. Kind(s, id, data) \subseteq s.flash
    BY DEF Kind
  <2>2. /\ IsFiniteSet(Kind(s, id, data))
        /\ Cardinality(Kind(s, id, data)) <= Cardinality(s.flash)
    BY <2>1, <1>1, FS_Subset
  <2>3. [r \in Kind(s, id, data) |-> r.token] \in Surjection(Kind(s, id, data), InFlash)
    BY DEF Surjection
  <2>4. /\ IsFiniteSet(InFlash)
        /\ Cardinality(InFlash) <= Cardinality(Kind(s, id, data))
    BY <2>2, <2>3, FS_Surjection
  <2>5. Cardinality(Kind(s, id, data)) <= Places
    <3>1. CASE Kind(s, id, data) = {}
      BY <3>1, <1>1, FS_EmptySet
    <3>2. CASE Cardinality(s.flash) <= Places
      <4>1. Cardinality(s.flash) \in Nat /\ Cardinality(Kind(s, id, data)) \in Nat
        BY <1>1, <2>2, FS_CardinalityType
      <4> QED
        BY <4>1, <3>2, <2>2, <1>1
    <3> QED
      BY <3>1, <3>2
  <2> QED
    BY <2>2, <2>4, <2>5, <1>1, FS_CardinalityType
<1>5. \E n \in All : n \notin Queued \cup InFlash
  <2> SUFFICES ASSUME All \subseteq Queued \cup InFlash PROVE FALSE
    OBVIOUS
  <2>1. /\ IsFiniteSet(Queued \cup InFlash)
        /\ Cardinality(Queued \cup InFlash)
              = Cardinality(Queued) + Cardinality(InFlash) - Cardinality(Queued \cap InFlash)
    BY <1>3, <1>4, FS_Union
  <2>2. Cardinality(All) = Places + QueueSize + 1
    <3>1. Places + QueueSize + 1 \in Nat
      BY <1>1
    <3> QED
      BY <3>1, IntervalIs
  <2>3. Cardinality(All) <= Cardinality(Queued \cup InFlash)
    BY <2>1, FS_Subset
  <2>4. IsFiniteSet(Queued \cap InFlash)
    BY <1>3, FS_Intersection
  <2>5. /\ Cardinality(Queued) \in Nat /\ Cardinality(InFlash) \in Nat
        /\ Cardinality(Queued \cap InFlash) \in Nat
    BY <1>3, <1>4, <2>4, FS_CardinalityType
  <2> HIDE DEF Queued, InFlash, All
  <2> QED
    BY <2>1, <2>2, <2>3, <2>5, <1>1, <1>3, <1>4
<1>6. All \ (Queued \cup InFlash) \subseteq Nat /\ All \ (Queued \cup InFlash) # {}
  <2>1. All \subseteq Nat
    BY <1>1
  <2> HIDE DEF Queued, InFlash, All
  <2> QED
    BY <1>5, <2>1
<1>7. RecordIdNew(s, id, data) = Min(All \ (Queued \cup InFlash))
    BY DEF RecordIdNew
<1>8. RecordIdNew(s, id, data) \in All \ (Queued \cup InFlash)
  <2> HIDE DEF Queued, InFlash, All
  <2> QED
    BY <1>6, <1>7, MinIn
<1>9. All \subseteq Nat \ {0}
    BY <1>1
<1> QED
  <2> HIDE DEF InFlash, All
  <2> QED
    BY <1>8, <1>9, <1>2

-------------------------------------------------------------------------------
(* The ids and their files                                                   *)

QueueOK(s, n) == TokensOK(s, n) /\ DeletionsOK(s, n) /\ SpaceOK(s, n)

LEMMA GrowsRefl == ASSUME NEW s, NEW t, Typed(s), t.queue = s.queue PROVE Grows(s, t)
BY Types DEF Grows

LEMMA SameQueue ==
    ASSUME NEW s, NEW t, Typed(s), Same({"fault"}, s, t)
    PROVE  Grows(s, t)
BY GrowsRefl DEF Same, Fields

LEMMA GrowsTrans ==
    ASSUME NEW s, NEW t, NEW u, Typed(s), Typed(t), Typed(u), Grows(s, t), Grows(t, u)
    PROVE  Grows(s, u)
<1>1. Len(s.queue) \in Nat /\ Len(t.queue) \in Nat /\ Len(u.queue) \in Nat
    BY Types
<1> QED
    BY <1>1 DEF Grows

\* what the invariant says of the queue depends on these fields only
LEMMA QueueFrame ==
    ASSUME NEW s, NEW t, NEW n, QueueOK(s, n), t.queue = s.queue, t.buf = s.buf,
           t.ongoing = s.ongoing, t.reserved = s.reserved, t.failed = s.failed
    PROVE  QueueOK(t, n)
<1>1. TokensOK(t, n)
    BY DEF QueueOK, TokensOK, WaitsFor
<1>2. DeletionsOK(t, n)
    BY DEF QueueOK, DeletionsOK, IsDeletion
<1>3. SpaceOK(t, n)
    BY DEF QueueOK, SpaceOK, WritesFrom, PreparedOnes
<1> QED
    BY <1>1, <1>2, <1>3 DEF QueueOK

LEMMA BuffersFrame ==
    ASSUME NEW s, NEW t, BuffersOK(s), t.buf = s.buf, t.proc = s.proc, t.peer = s.peer,
           t.link = s.link
    PROVE  BuffersOK(t)
BY DEF BuffersOK, IsPrepared

LEMMA PeerDataDeleteDoes ==
    ASSUME NEW s, Typed(s), NEW t, t = PeerDataDelete(s)
    PROVE  /\ Typed(t)
           /\ Same({"used", "deleted", "ongoing", "queue", "fault"}, s, t)
           /\ Grows(s, t)
           /\ ~t.fault =>
                 /\ ~s.fault /\ DeletionsGoOn(t)
                 /\ \A n \in 1..2 : QueueOK(s, n) /\ Len(s.queue) >= n - 1 => QueueOK(t, n)
<1>1. CASE s.deleted = {}
  <2>1. t = s
    BY <1>1 DEF PeerDataDelete
  <2> QED
    BY <2>1, <1>1, GrowsRefl DEF Same, DeletionsGoOn
<1>2. CASE s.deleted # {} /\ ~HasFile(s, Min(s.deleted))
  <2>1. t = [s EXCEPT !.used = @ \ s.deleted, !.deleted = {}]
    BY <1>2 DEF PeerDataDelete
  <2>2. Typed(t) /\ Same({"used", "deleted", "ongoing", "queue", "fault"}, s, t)
    BY <2>1 DEF Typed, States, Same, Fields
  <2>3. /\ t.queue = s.queue /\ t.buf = s.buf /\ t.ongoing = s.ongoing
        /\ t.reserved = s.reserved /\ t.failed = s.failed /\ t.fault = s.fault
        /\ t.deleted = {}
    BY <2>1 DEF Typed, States
  <2>4. \A n \in 1..2 : QueueOK(s, n) => QueueOK(t, n)
    BY <2>3, QueueFrame
  <2> QED
    BY <2>2, <2>3, <2>4, GrowsRefl DEF DeletionsGoOn
<1>3. CASE s.deleted # {} /\ HasFile(s, Min(s.deleted)) /\ s.ongoing
  <2>1. t = s
    BY <1>3 DEF PeerDataDelete
  <2> QED
    BY <2>1, <1>3, GrowsRefl DEF Same, DeletionsGoOn
<1>4. CASE s.deleted # {} /\ HasFile(s, Min(s.deleted)) /\ ~s.ongoing
  <2> DEFINE op == Operation("deleteFile", Min(s.deleted), "none", 0, 0)
             u  == [s EXCEPT !.ongoing = TRUE]
  <2>1. Min(s.deleted) \in Peers
    BY <1>4, Types, MinIn
  <2>2. op \in Operations /\ op.op = "deleteFile"
    BY <2>1, DeleteOperation DEF Operation
  <2>3. t = Put(u, op)
    BY <1>4 DEF PeerDataDelete
  <2>4. Typed(u) /\ Same({"ongoing"}, s, u) /\ u.ongoing = TRUE /\ u.queue = s.queue
    BY DEF Typed, States, Same, Fields
  <2> HIDE DEF op, u
  <2>5. /\ Typed(t) /\ Same({"queue", "fault"}, u, t)
        /\ Grows(u, t)
        /\ ~t.fault => ~u.fault /\ Appended(u, t, op)
    BY <2>2, <2>3, <2>4, PutDoes
  <2>6. Same({"used", "deleted", "ongoing", "queue", "fault"}, s, t)
    BY <2>4, <2>5 DEF Same
  <2>7. /\ t.buf = s.buf /\ t.reserved = s.reserved /\ t.failed = s.failed
        /\ t.ongoing = TRUE /\ u.fault = s.fault
    BY <2>4, <2>5 DEF Same, Fields
  <2>8. ASSUME ~t.fault PROVE ~s.fault /\ Appended(s, t, op)
    BY <2>5, <2>7, <2>4, <2>8 DEF Appended
  <2>9. ASSUME ~t.fault, NEW n \in 1..2, QueueOK(s, n), Len(s.queue) >= n - 1
        PROVE  QueueOK(t, n)
    <3>1. Appended(s, t, op) /\ ~IsWrite(op)
      BY <2>8, <2>9, <2>2 DEF IsWrite
    <3>2. TokensOK(t, n)
      BY <3>1, <2>2, <2>7, <2>9, TokensAppend DEF QueueOK
    <3>3. DeletionsOK(t, n)
      BY <3>1, <2>2, <2>7, <2>9, <1>4, DeletionsStart DEF QueueOK
    <3>4. SpaceOK(t, n)
      BY <3>1, <2>2, <2>7, <2>9, SpaceAppend DEF QueueOK
    <3> QED
      BY <3>2, <3>3, <3>4 DEF QueueOK
  <2> QED
    BY <2>4, <2>5, <2>6, <2>7, <2>8, <2>9, <2>2 DEF DeletionsGoOn, Grows
<1> QED
    BY <1>1, <1>2, <1>3, <1>4

-------------------------------------------------------------------------------
(* A buffer is handed over                                                   *)

\* the buffers but b are left alone, and b keeps its data
BufferOnly(s, t, b) ==
    /\ \A c \in Buffers : c # b => t.buf[c] = s.buf[c]
    /\ t.buf[b].peer = s.buf[b].peer /\ t.buf[b].data = s.buf[b].data

LEMMA RecordChange ==
    ASSUME NEW r \in BufferRecords, r # Unused
    PROVE  /\ \A x \in Nat : [r EXCEPT !.token = x, !.busy = FALSE, !.full = FALSE] \in BufferRecords
           /\ [r EXCEPT !.busy = FALSE, !.full = TRUE] \in BufferRecords
           /\ [r EXCEPT !.token = StoreTokenInvalid, !.busy = TRUE] \in BufferRecords
           /\ DOMAIN r = {"peer", "data", "prepared", "token", "busy", "full"}
<1>1. r \in [peer : Peers, data : Datas, prepared : BOOLEAN, token : Nat, busy : BOOLEAN,
             full : BOOLEAN]
    BY DEF BufferRecords
<1>2. ASSUME NEW x \in Nat
      PROVE  [r EXCEPT !.token = x, !.busy = FALSE, !.full = FALSE] \in BufferRecords
    BY <1>1 DEF BufferRecords
<1>3. [r EXCEPT !.busy = FALSE, !.full = TRUE] \in BufferRecords
    BY <1>1 DEF BufferRecords
<1>4. [r EXCEPT !.token = StoreTokenInvalid, !.busy = TRUE] \in BufferRecords
    BY <1>1 DEF BufferRecords, StoreTokenInvalid
<1> QED
    BY <1>1, <1>2, <1>3, <1>4

\* A buffer without a write changes; it gets none.
LEMMA TokensKeep ==
    ASSUME NEW s, Typed(s), NEW t, NEW b \in Buffers, NEW r, t.queue = s.queue,
           t.buf = [s.buf EXCEPT ![b] = r], s.buf[b].token = 0, r.token = 0,
           NEW n \in 1..2, TokensOK(s, n)
    PROVE  TokensOK(t, n)
<1>1. t.buf[b] = r /\ \A c \in Buffers : c # b => t.buf[c] = s.buf[c]
    BY DEF Typed, States
<1>2. ASSUME NEW k \in n..Len(s.queue), IsWrite(s.queue[k])
      PROVE  \E c \in Buffers : WaitsFor(t, c, k)
  <2>1. PICK c \in Buffers : WaitsFor(s, c, k)
    BY <1>2 DEF TokensOK
  <2>2. k \in 1..Len(s.queue)
    BY Types
  <2>3. c # b
    BY <2>1, <2>2, <1>2, TokenOfWrite DEF WaitsFor
  <2> QED
    BY <2>1, <2>3, <1>1 DEF WaitsFor
<1>3. ASSUME NEW c \in Buffers, t.buf[c].token # 0
      PROVE  c # b /\ t.buf[c] = s.buf[c]
    BY <1>1, <1>3
<1> QED
    BY <1>2, <1>3 DEF TokensOK, WaitsFor

LEMMA BufferTyped ==
    ASSUME NEW s \in States, NEW b \in Buffers, NEW r \in BufferRecords
    PROVE  [s EXCEPT !.buf = [s.buf EXCEPT ![b] = r], !.pending = TRUE] \in States
BY DEF States

LEMMA WriteBufStoreDoes ==
    ASSUME NEW s, Typed(s), NEW b \in Buffers, s.buf[b] # Unused,
           NEW t, t = WriteBufStore(s, b)
    PROVE  /\ Typed(t)
           /\ Same({"reserved", "queue", "buf", "pending", "fault"}, s, t)
           /\ BufferOnly(s, t, b) /\ Stored(t.buf[b]) /\ ~t.buf[b].busy
           /\ s.pending => t.pending
           /\ t.buf[b].full => t.pending
           /\ Grows(s, t)
           /\ ~t.fault =>
                 /\ ~s.fault
                 /\ t.buf[b].full \/ Len(t.queue) = Len(s.queue) + 1
                 /\ \A n \in 1..2 :
                       /\ QueueOK(s, n) /\ Len(s.queue) >= n - 1 /\ s.buf[b].token = 0
                       /\ t.buf[b].full /\ ~s.failed => ~s.buf[b].prepared
                       => QueueOK(t, n)
<1> DEFINE r      == s.buf[b]
           old    == Find(s, r.peer, r.data)
           cancel == r.prepared /\ old # 0
           res    == IF cancel THEN Less(s.reserved) ELSE s.reserved
           s1     == [s EXCEPT !.reserved = res]
           takes  == ~r.prepared \/ old # 0
           id     == RecordIdNew(s, r.peer, r.data)
           kind   == IF old = 0 THEN "write" ELSE "update"
           op     == Operation(kind, r.peer, r.data, id, old)
<1>1. /\ r \in BufferRecords /\ r.peer \in Peers /\ r.data \in Datas
    BY BufferType
<1>2. old \in Nat /\ (old = 0 <=> Kind(s, r.peer, r.data) = {})
    BY FindIs
<1>3. /\ s.reserved \in -1..Places /\ Places \in Nat
      /\ s.garbage \in Nat /\ IsFiniteSet(s.flash)
      /\ s.buf \in [Buffers -> BufferRecords]
    BY Types
<1>4. Less(s.reserved) = IF s.reserved >= 0 THEN s.reserved - 1 ELSE -1
    BY <1>3, LessIs
<1>5. res \in -1..Places /\ res <= s.reserved
    BY <1>3, <1>4
<1>6. /\ s1.reserved = res /\ s1.flash = s.flash /\ s1.garbage = s.garbage
    BY DEF Typed, States
<1>7. HasRoom(s1) => Cardinality(s.flash) <= Places /\ res + 1 <= Places /\ res >= 0
  <2>1. Cardinality(s.flash) \in Nat
    BY <1>3, FS_CardinalityType
  <2> HIDE DEF res, s1
  <2> QED
    BY <2>1, <1>3, <1>5, <1>6 DEF HasRoom
<1>8. \A n \in 1..2 : SpaceOK(s, n) /\ ~s.failed /\ r.token = 0 =>
          /\ ~r.busy /\ (r.full => ~r.prepared)
          /\ IsAside(r) <=> r.prepared
    BY DEF SpaceOK, IsAside, Stored, StoreTokenInvalid
<1>9. CASE takes /\ ~HasRoom(s1)
  <2> DEFINE q == [r EXCEPT !.busy = FALSE, !.full = TRUE]
  <2>1. t = [s1 EXCEPT !.buf[b] = q, !.pending = TRUE]
    BY <1>9 DEF WriteBufStore
  <2>2. q \in BufferRecords
    BY <1>1, RecordChange
  <2>3. /\ q.peer = r.peer /\ q.data = r.data /\ q.token = r.token /\ ~q.busy /\ q.full
        /\ q.prepared = r.prepared
    BY <1>1, RecordChange
  <2> HIDE DEF q, res
  <2>7. Typed(s1) /\ Same({"reserved"}, s, s1) /\ s1.reserved = res
    BY <1>5 DEF Typed, States, Same, Fields
  <2>8. t = [s1 EXCEPT !.buf = [s1.buf EXCEPT ![b] = q], !.pending = TRUE]
    BY <2>1, <2>7 DEF Typed, States
  <2> HIDE DEF s1
  <2>9. /\ Typed(t) /\ Same({"buf", "pending"}, s1, t)
        /\ t.buf = [s1.buf EXCEPT ![b] = q] /\ t.pending = TRUE
    <3>1. t \in States
      BY <2>8, <2>2, <2>7, BufferTyped DEF Typed
    <3>2. t.flash = s1.flash /\ t.queue = s1.queue
      BY <2>8, <2>7 DEF Typed, States
    <3>3. Same({"buf", "pending"}, s1, t)
      BY <2>8, <2>7 DEF Typed, States, Same, Fields
    <3>4. t.buf = [s1.buf EXCEPT ![b] = q] /\ t.pending = TRUE
      BY <2>8, <2>7 DEF Typed, States
    <3> QED
      BY <3>1, <3>2, <3>3, <3>4, <2>7 DEF Typed
  <2>4. /\ Typed(t) /\ Same({"reserved", "queue", "buf", "pending", "fault"}, s, t)
        /\ t.buf = [s.buf EXCEPT ![b] = q] /\ t.pending /\ t.queue = s.queue
        /\ t.reserved = res /\ t.fault = s.fault /\ t.ongoing = s.ongoing
        /\ t.failed = s.failed
    BY <2>7, <2>9 DEF Same, Fields
  <2>5. t.buf[b] = q /\ BufferOnly(s, t, b)
    BY <2>3, <2>4, <1>3 DEF BufferOnly
  <2>6. ASSUME NEW n \in 1..2, QueueOK(s, n), r.token = 0,
               t.buf[b].full /\ ~s.failed => ~r.prepared
        PROVE  QueueOK(t, n)
    <3>1. TokensOK(t, n)
      BY <2>3, <2>4, <2>6, TokensKeep DEF QueueOK
    <3>2. DeletionsOK(t, n)
      BY <2>4, <2>6 DEF QueueOK, DeletionsOK, IsDeletion
    <3>3. ASSUME ~t.failed
          PROVE  /\ t.reserved = Cardinality(WritesFrom(t, n)) + Cardinality(PreparedOnes(t))
                 /\ \A c \in Buffers : ~t.buf[c].busy /\ (t.buf[c].full => ~t.buf[c].prepared)
      <4>1. SpaceOK(s, n) /\ ~s.failed
        BY <2>4, <2>6, <3>3 DEF QueueOK
      <4>2. WritesFrom(t, n) = WritesFrom(s, n)
        BY <2>4 DEF WritesFrom
      <4>3. ~IsAside(q)
        BY <2>3 DEF IsAside, Stored
      <4>4. Cardinality(PreparedOnes(t)) = Cardinality(PreparedOnes(s))
                + (IF IsAside(q) THEN 1 ELSE 0) - (IF IsAside(r) THEN 1 ELSE 0)
        BY <2>4, PreparedChange
      <4>5. r.prepared => old # 0
        BY <1>9
      <4>6. /\ Cardinality(PreparedOnes(s)) \in Nat /\ Cardinality(PreparedOnes(t)) \in Nat
            /\ Cardinality(WritesFrom(s, n)) \in Nat
        BY PreparedFinite, WritesFinite
      <4>7. t.reserved = Cardinality(WritesFrom(t, n)) + Cardinality(PreparedOnes(t))
        BY <4>1, <4>2, <4>3, <4>4, <4>5, <4>6, <1>8, <1>4, <2>4, <2>6 DEF SpaceOK, res
      <4>8. q.full => ~q.prepared
        BY <4>1, <2>6, <2>5, <2>3
      <4> QED
        BY <4>1, <4>7, <4>8, <2>3, <2>5 DEF SpaceOK, BufferOnly
    <3>4. SpaceOK(t, n)
      BY <3>3 DEF SpaceOK
    <3> QED
      BY <3>1, <3>2, <3>4 DEF QueueOK
  <2> QED
    BY <2>3, <2>4, <2>5, <2>6, GrowsRefl DEF Stored
<1>10. CASE ~(takes /\ ~HasRoom(s1))
  <2> DEFINE q  == [r EXCEPT !.token = id, !.busy = FALSE, !.full = FALSE]
             x  == IF takes THEN res + 1 ELSE res
             u  == [s1 EXCEPT !.reserved = x, !.buf[b] = q]
  <2>1. t = Put(u, op)
    BY <1>10, <1>6 DEF WriteBufStore
  <2>2. Cardinality(s.flash) <= Places \/ Kind(s, r.peer, r.data) = {}
    BY <1>2, <1>7, <1>10
  <2>3. id \in Nat \ {0} /\ \A k \in 1..Len(s.queue) : s.queue[k].token # id
    BY <2>2, RecordIdIsNew
  <2>4. op \in Operations
    <3>1. kind \in {"write", "update"}
      OBVIOUS
    <3> HIDE DEF kind, id, old, r
    <3> QED
      BY <3>1, <1>1, <1>2, <2>3, WriteOperation
  <2>5. op.token = id /\ op.peer = r.peer /\ op.data = r.data /\ IsWrite(op) /\ op.op # "deleteFile"
    BY DEF Operation, IsWrite
  <2>6. q \in BufferRecords
    BY <1>1, <2>3, RecordChange
  <2>7. /\ q.peer = r.peer /\ q.data = r.data /\ q.token = id /\ ~q.busy /\ ~q.full
        /\ q.prepared = r.prepared
    BY <1>1, RecordChange
  <2>8. x \in -1..Places
    BY <1>5, <1>7, <1>10
  <2> HIDE DEF q, res, op, x
  <2>9. /\ Typed(u) /\ Same({"reserved", "buf"}, s, u)
        /\ u.buf = [s.buf EXCEPT ![b] = q] /\ u.reserved = x /\ u.queue = s.queue
        /\ u.fault = s.fault
    BY <2>6, <2>8 DEF Typed, States, Same, Fields
  <2> HIDE DEF u
  <2>10. /\ Typed(t) /\ Same({"queue", "fault"}, u, t)
         /\ Grows(u, t)
         /\ ~t.fault => ~u.fault /\ Appended(u, t, op)
    BY <2>1, <2>4, <2>9, PutDoes
  <2>11. /\ t.buf = [s.buf EXCEPT ![b] = q] /\ t.reserved = x /\ t.ongoing = s.ongoing
         /\ t.failed = s.failed /\ t.pending = s.pending
         /\ Same({"reserved", "queue", "buf", "pending", "fault"}, s, t)
    BY <2>9, <2>10 DEF Same, Fields
  <2>12. t.buf[b] = q /\ BufferOnly(s, t, b)
    BY <2>7, <2>11, <1>3 DEF BufferOnly
  <2>13. ASSUME ~t.fault PROVE ~s.fault /\ Appended(s, t, op)
    BY <2>9, <2>10, <2>13 DEF Appended
  <2>14. ASSUME ~t.fault, NEW n \in 1..2, QueueOK(s, n), Len(s.queue) >= n - 1, r.token = 0
         PROVE  QueueOK(t, n)
    <3>1. TokensOK(t, n)
      BY <2>3, <2>4, <2>5, <2>7, <2>11, <2>13, <2>14, TokensStore DEF QueueOK
    <3>2. DeletionsOK(t, n)
      BY <2>4, <2>5, <2>11, <2>13, <2>14, DeletionsAppend DEF QueueOK
    <3>3. ASSUME ~t.failed
          PROVE  /\ t.reserved = Cardinality(WritesFrom(t, n)) + Cardinality(PreparedOnes(t))
                 /\ \A c \in Buffers : ~t.buf[c].busy /\ (t.buf[c].full => ~t.buf[c].prepared)
      <4>1. SpaceOK(s, n) /\ ~s.failed
        BY <2>11, <2>14, <3>3 DEF QueueOK
      <4>2. Cardinality(WritesFrom(t, n)) = Cardinality(WritesFrom(s, n)) + 1
        BY <2>4, <2>5, <2>13, <2>14, WritesAppend
      <4>3. ~IsAside(q)
        BY <2>3, <2>7 DEF IsAside, Stored, StoreTokenInvalid
      <4>4. Cardinality(PreparedOnes(t)) = Cardinality(PreparedOnes(s))
                + (IF IsAside(q) THEN 1 ELSE 0) - (IF IsAside(r) THEN 1 ELSE 0)
        BY <2>11, PreparedChange
      <4>5. /\ Cardinality(PreparedOnes(s)) \in Nat /\ Cardinality(PreparedOnes(t)) \in Nat
            /\ Cardinality(WritesFrom(s, n)) \in Nat
        BY PreparedFinite, WritesFinite
      <4>6. t.reserved = Cardinality(WritesFrom(t, n)) + Cardinality(PreparedOnes(t))
        <5>1. s.reserved = Cardinality(WritesFrom(s, n)) + Cardinality(PreparedOnes(s))
          BY <4>1 DEF SpaceOK
        <5>2. IsAside(r) <=> r.prepared
          BY <1>8, <4>1, <2>14
        <5>3. CASE r.prepared
          <6>1. Cardinality(PreparedOnes(t)) = Cardinality(PreparedOnes(s)) - 1
            BY <4>3, <4>4, <4>5, <5>2, <5>3
          <6>2. s.reserved \in Nat \ {0}
            BY <6>1, <5>1, <4>5
          <6>3. x = s.reserved
            BY <6>2, <5>3, <1>4 DEF res, x
          <6> QED
            BY <6>1, <6>3, <5>1, <4>2, <4>5, <2>11
        <5>4. CASE ~r.prepared
          <6>1. Cardinality(PreparedOnes(t)) = Cardinality(PreparedOnes(s))
            BY <4>3, <4>4, <4>5, <5>2, <5>4
          <6>2. x = s.reserved + 1
            BY <5>4 DEF res, x
          <6> QED
            BY <6>1, <6>2, <5>1, <4>2, <4>5, <2>11
        <5> QED
          BY <5>3, <5>4
      <4> QED
        BY <4>1, <4>6, <2>7, <2>12 DEF SpaceOK, BufferOnly
    <3>4. SpaceOK(t, n)
      BY <3>3 DEF SpaceOK
    <3> QED
      BY <3>1, <3>2, <3>4 DEF QueueOK
  <2> QED
    <3>1. Grows(s, t)
      BY <2>9, <2>10 DEF Grows
    <3> QED
      BY <3>1, <2>3, <2>4, <2>7, <2>10, <2>11, <2>12, <2>13, <2>14, AppendIs
         DEF Stored, StoreTokenInvalid
<1> QED
    BY <1>9, <1>10

\* PM_EVT_STORAGE_FULL: a collection is asked for
LEMMA FdsGcDoes ==
    ASSUME NEW s, Typed(s), NEW t, t = FdsGc(s)
    PROVE  /\ Typed(t) /\ Same({"queue", "fault"}, s, t)
           /\ Grows(s, t)
           /\ ~t.fault =>
                 /\ ~s.fault /\ Len(t.queue) = Len(s.queue) + 1
                 /\ \A n \in 1..2 : Len(s.queue) >= n - 1 =>
                       HasGc(t, n) /\ (QueueOK(s, n) => QueueOK(t, n))
<1> DEFINE op == Operation("gc", PeerIdInvalid, "none", 0, 0)
<1>1. op \in Operations /\ op.op = "gc"
    BY GcOperation DEF Operation
<1>2. t = Put(s, op)
    BY DEF FdsGc
<1> HIDE DEF op
<1>3. /\ Typed(t) /\ Same({"queue", "fault"}, s, t)
      /\ Grows(s, t)
      /\ ~t.fault => ~s.fault /\ Appended(s, t, op)
    BY <1>1, <1>2, PutDoes
<1>4. /\ t.buf = s.buf /\ t.reserved = s.reserved /\ t.failed = s.failed
      /\ t.ongoing = s.ongoing
    BY <1>3 DEF Same, Fields
<1>5. ASSUME ~t.fault, NEW n \in 1..2, Len(s.queue) >= n - 1
      PROVE  HasGc(t, n) /\ (QueueOK(s, n) => QueueOK(t, n))
  <2>1. Appended(s, t, op) /\ ~IsWrite(op) /\ op.op # "deleteFile"
    BY <1>1, <1>3, <1>5 DEF IsWrite
  <2>2. Len(s.queue) + 1 \in n..Len(t.queue) /\ t.queue[Len(s.queue) + 1].op = "gc"
    BY <1>1, <1>5, <2>1, AppendIs
  <2>3. ASSUME QueueOK(s, n) PROVE QueueOK(t, n)
    <3>1. TokensOK(t, n)
      BY <2>1, <2>3, <1>1, <1>4, TokensAppend DEF QueueOK
    <3>2. DeletionsOK(t, n)
      BY <2>1, <2>3, <1>1, <1>4, DeletionsAppend DEF QueueOK
    <3>3. SpaceOK(t, n)
      BY <2>1, <2>3, <1>1, <1>4, <1>5, SpaceAppend DEF QueueOK
    <3> QED
      BY <3>1, <3>2, <3>3 DEF QueueOK
  <2> QED
    BY <2>2, <2>3 DEF HasGc
<1> QED
    BY <1>1, <1>3, <1>5, AppendIs

LEMMA GcGrows ==
    ASSUME NEW s, NEW t, Typed(s), Typed(t), Grows(s, t), NEW n \in 1..2
    PROVE  HasGc(s, n) => HasGc(t, n)
<1>1. Len(s.queue) \in Nat /\ Len(t.queue) \in Nat
    BY Types
<1> QED
    BY <1>1 DEF Grows, HasGc

\* a buffer is stored, or a collection is asked for
LEMMA StoreInEventDoes ==
    ASSUME NEW s, Typed(s), NEW b \in Buffers, s.buf[b] # Unused,
           NEW t, t = StoreInEvent(s, b)
    PROVE  /\ Typed(t)
           /\ Same({"reserved", "queue", "buf", "pending", "fault"}, s, t)
           /\ BufferOnly(s, t, b) /\ Stored(t.buf[b]) /\ ~t.buf[b].busy
           /\ s.pending => t.pending
           /\ t.buf[b].full => t.pending
           /\ Grows(s, t)
           /\ ~t.fault =>
                 /\ ~s.fault /\ Len(t.queue) > Len(s.queue)
                 /\ \A n \in 1..2 : Len(s.queue) >= n - 1 =>
                       /\ t.buf[b].full => HasGc(t, n)
                       /\ /\ QueueOK(s, n) /\ s.buf[b].token = 0
                          /\ t.buf[b].full /\ ~s.failed => ~s.buf[b].prepared
                          => QueueOK(t, n)
<1>1. PICK u : u = WriteBufStore(s, b)
    OBVIOUS
<1>2. /\ Typed(u)
      /\ Same({"reserved", "queue", "buf", "pending", "fault"}, s, u)
      /\ BufferOnly(s, u, b) /\ Stored(u.buf[b]) /\ ~u.buf[b].busy
      /\ s.pending => u.pending
      /\ u.buf[b].full => u.pending
      /\ Grows(s, u)
      /\ ~u.fault =>
            /\ ~s.fault
            /\ u.buf[b].full \/ Len(u.queue) = Len(s.queue) + 1
            /\ \A n \in 1..2 :
                  /\ QueueOK(s, n) /\ Len(s.queue) >= n - 1 /\ s.buf[b].token = 0
                  /\ u.buf[b].full /\ ~s.failed => ~s.buf[b].prepared
                  => QueueOK(u, n)
    BY <1>1, WriteBufStoreDoes
<1>3. Len(s.queue) \in Nat /\ Len(u.queue) \in Nat
    BY <1>2, Types
<1>4. CASE ~u.buf[b].full
  <2>1. t = u
    BY <1>1, <1>4 DEF StoreInEvent
  <2> QED
    BY <2>1, <1>2, <1>3, <1>4
<1>5. CASE u.buf[b].full
  <2>1. t = FdsGc(u)
    BY <1>1, <1>5 DEF StoreInEvent
  <2>2. /\ Typed(t) /\ Same({"queue", "fault"}, u, t)
        /\ Grows(u, t)
        /\ ~t.fault =>
              /\ ~u.fault /\ Len(t.queue) = Len(u.queue) + 1
              /\ \A n \in 1..2 : Len(u.queue) >= n - 1 =>
                    HasGc(t, n) /\ (QueueOK(u, n) => QueueOK(t, n))
    BY <2>1, <1>2, FdsGcDoes
  <2>3. t.buf = u.buf /\ t.pending = u.pending
    BY <2>2 DEF Same, Fields
  <2>4. Same({"reserved", "queue", "buf", "pending", "fault"}, s, t)
    BY <1>2, <2>2 DEF Same
  <2>5. BufferOnly(s, t, b)
    BY <1>2, <2>3 DEF BufferOnly
  <2>8. Grows(s, t)
    BY <1>2, <2>2, GrowsTrans
  <2>6. ASSUME ~t.fault
        PROVE  ~s.fault /\ Grows(s, t) /\ Len(t.queue) > Len(s.queue) /\ Len(u.queue) >= Len(s.queue)
    <3>1. ~u.fault /\ ~s.fault /\ Grows(s, u) /\ Grows(u, t) /\ Len(t.queue) = Len(u.queue) + 1
      BY <1>2, <2>2, <2>6
    <3>2. Grows(s, t)
      BY <3>1, <1>2, <2>2, GrowsTrans
    <3> QED
      BY <3>1, <3>2, <1>3 DEF Grows
  <2>7. ASSUME ~t.fault, NEW n \in 1..2, Len(s.queue) >= n - 1
        PROVE  /\ HasGc(t, n)
               /\ /\ QueueOK(s, n) /\ s.buf[b].token = 0
                  /\ t.buf[b].full /\ ~s.failed => ~s.buf[b].prepared
                  => QueueOK(t, n)
    <3>1. Len(u.queue) >= n - 1 /\ ~u.fault
      BY <2>2, <2>6, <2>7, <1>3
    <3> QED
      BY <3>1, <2>2, <2>3, <2>7, <1>2
  <2> QED
    BY <2>2, <2>3, <2>4, <2>5, <2>6, <2>7, <2>8, <1>2
<1> QED
    BY <1>4, <1>5

-------------------------------------------------------------------------------
(* Buffers are tried again                                                   *)

RetryWaits(r, retryFull) == r.busy \/ (r.full /\ retryFull)

\* one turn of the loop of reattempt_previous_operations
RetryOne(acc, b, retryFull) ==
    IF acc.stop \/ ~RetryWaits(acc.s.buf[b], retryFull) THEN acc
    ELSE [s    |-> StoreInEvent(acc.s, b),
          stop |-> StoreInEvent(acc.s, b).buf[b].full]

\* the loop, turn by turn
LEMMA ReattemptRuns ==
    ASSUME NEW s, NEW retryFull, s.pending
    PROVE  \E c : /\ c[0] = [s |-> s, stop |-> FALSE]
                  /\ \A k \in 1..PmFlashBuffers : c[k] = RetryOne(c[k - 1], k, retryFull)
                  /\ Reattempt(s, retryFull) = c[PmFlashBuffers].s
<1> DEFINE N == PmFlashBuffers
           a == [s |-> s, stop |-> FALSE]
           Step(acc, b) == RetryOne(acc, b, retryFull)
           IsRun(g, m) == g = [k \in 0..m |-> IF k = 0 THEN a ELSE Step(g[k - 1], k)]
           T == {m \in Nat : \E g : IsRun(g, m)}
<1>1. N \in Nat
    BY Types, PeerDatabaseAssumption
<1>2. Reattempt(s, retryFull) = Loop(Step, a, N).s
    BY DEF Reattempt, RetryOne, RetryWaits
<1>3. N \in T
  <2> HIDE DEF a, Step
  <2>1. 0 \in T
    <3>1. IsRun([k \in 0..0 |-> a], 0)
      OBVIOUS
    <3> QED
      BY <3>1
  <2>2. ASSUME NEW m \in 1..N, m - 1 \in T PROVE m \in T
    <3>1. PICK g : IsRun(g, m - 1)
      BY <2>2
    <3>2. PICK h : h = [k \in 0..m |-> IF k = m THEN Step(g[m - 1], m) ELSE g[k]]
      OBVIOUS
    <3>3. ASSUME NEW k \in 0..m PROVE h[k] = IF k = 0 THEN a ELSE Step(h[k - 1], k)
      BY <1>1, <3>1, <3>2
    <3>4. IsRun(h, m)
      BY <3>2, <3>3
    <3> QED
      BY <3>4, <1>1
  <2> HIDE DEF T
  <2> QED
    BY <1>1, <2>1, <2>2, Induction
<1>4. PICK c : /\ c = [k \in 0..N |-> IF k = 0 THEN a ELSE Step(c[k - 1], k)]
               /\ Loop(Step, a, N) = c[N]
  <2> HIDE DEF a, Step, N
  <2> DEFINE c == CHOOSE c : c = [k \in 0..N |-> IF k = 0 THEN a ELSE Step(c[k - 1], k)]
  <2>1. c = [k \in 0..N |-> IF k = 0 THEN a ELSE Step(c[k - 1], k)]
    BY <1>3
  <2>2. Loop(Step, a, N) = c[N]
    BY DEF Loop
  <2> HIDE DEF c
  <2> QED
    BY <2>1, <2>2
<1>5. c[0] = a /\ \A k \in 1..N : c[k] = Step(c[k - 1], k)
  <2> HIDE DEF a, Step, N
  <2>1. \A k \in 0..N : c[k] = IF k = 0 THEN a ELSE Step(c[k - 1], k)
    BY <1>4
  <2>2. 0 \in 0..N /\ \A k \in 1..N : k \in 0..N /\ k # 0
    BY <1>1
  <2> QED
    BY <2>1, <2>2
<1> QED
    BY <1>5, <1>2, <1>4

\* the buffers keep their data, and those that are handed over stay so
BuffersKept(s, t) ==
    \A b \in Buffers :
        /\ t.buf[b].peer = s.buf[b].peer /\ t.buf[b].data = s.buf[b].data
        /\ Stored(t.buf[b]) <=> Stored(s.buf[b])
        /\ ~Stored(s.buf[b]) => t.buf[b] = s.buf[b]

StoreFields == {"reserved", "queue", "buf", "pending", "fault"}

\* the buffers up to k have been looked at
Retried(s, retryFull, acc, k) ==
    /\ Typed(acc.s) /\ Same(StoreFields, s, acc.s) /\ acc.s.pending
    /\ acc.stop \in BOOLEAN
    /\ BuffersKept(s, acc.s)
    /\ \A b \in Buffers : b > k => acc.s.buf[b] = s.buf[b]
    /\ Grows(s, acc.s)
    /\ ~acc.s.fault =>
          /\ ~s.fault
          /\ ~acc.stop => \A b \in Buffers : b <= k =>
                /\ ~acc.s.buf[b].busy
                /\ acc.s.buf[b].full => ~retryFull /\ s.buf[b].full
          /\ \A n \in 1..2 : QueueOK(s, n) /\ Len(s.queue) >= n - 1 =>
                QueueOK(acc.s, n) /\ (acc.stop => HasGc(acc.s, n))

LEMMA RetryDoes ==
    ASSUME NEW s, Typed(s), NEW retryFull \in BOOLEAN, NEW acc, NEW b \in Buffers,
           NEW next, next = RetryOne(acc, b, retryFull),
           Retried(s, retryFull, acc, b - 1)
    PROVE  Retried(s, retryFull, next, b)
<1> DEFINE u == acc.s
<1>1. /\ Typed(u) /\ Same(StoreFields, s, u) /\ u.pending /\ acc.stop \in BOOLEAN
      /\ BuffersKept(s, u)
      /\ \A c \in Buffers : c > b - 1 => u.buf[c] = s.buf[c]
      /\ Grows(s, u)
      /\ ~u.fault =>
            /\ ~s.fault
            /\ ~acc.stop => \A c \in Buffers : c <= b - 1 =>
                  ~u.buf[c].busy /\ (u.buf[c].full => ~retryFull /\ s.buf[c].full)
            /\ \A n \in 1..2 : QueueOK(s, n) /\ Len(s.queue) >= n - 1 =>
                  QueueOK(u, n) /\ (acc.stop => HasGc(u, n))
    BY DEF Retried
<1>2. Buffers \subseteq Nat
    BY DEF Buffers
<1>3. CASE acc.stop
  <2>1. next = acc
    BY <1>3 DEF RetryOne
  <2>2. \A c \in Buffers : c > b => c > b - 1
    BY <1>2
  <2> QED
    BY <2>1, <2>2, <1>1, <1>3 DEF Retried
<1>4. CASE ~acc.stop /\ ~RetryWaits(u.buf[b], retryFull)
  <2>1. next = acc
    BY <1>4 DEF RetryOne
  <2>2. u.buf[b] = s.buf[b] /\ ~u.buf[b].busy /\ (u.buf[b].full => ~retryFull)
    BY <1>1, <1>2, <1>4 DEF RetryWaits
  <2>3. \A c \in Buffers : (c > b => c > b - 1) /\ (c <= b => c <= b - 1 \/ c = b)
    BY <1>2
  <2> QED
    BY <2>1, <2>2, <2>3, <1>1, <1>4 DEF Retried
<1>5. CASE ~acc.stop /\ RetryWaits(u.buf[b], retryFull)
  <2> DEFINE t == StoreInEvent(u, b)
  <2>1. next = [s |-> t, stop |-> t.buf[b].full]
    BY <1>5 DEF RetryOne
  <2>2. Stored(u.buf[b]) /\ u.buf[b] # Unused /\ (u.buf[b].busy \/ u.buf[b].full)
    BY <1>1, <1>5, BufferType DEF RetryWaits, Stored
  <2>3. /\ Typed(t) /\ Same(StoreFields, u, t)
        /\ BufferOnly(u, t, b) /\ Stored(t.buf[b]) /\ ~t.buf[b].busy
        /\ u.pending => t.pending
        /\ Grows(u, t)
        /\ ~t.fault =>
              /\ ~u.fault
              /\ \A n \in 1..2 : Len(u.queue) >= n - 1 =>
                    /\ t.buf[b].full => HasGc(t, n)
                    /\ /\ QueueOK(u, n) /\ u.buf[b].token = 0
                       /\ t.buf[b].full /\ ~u.failed => ~u.buf[b].prepared
                       => QueueOK(t, n)
    BY <2>2, <1>1, StoreInEventDoes DEF StoreFields
  <2> HIDE DEF t
  <2>4. t.buf[b].full \in BOOLEAN
    BY <2>3, BufferType DEF BufferRecords, Unused
  <2>5. Same(StoreFields, s, t)
    BY <1>1, <2>3 DEF Same
  <2>6. BuffersKept(s, t)
    BY <1>1, <2>2, <2>3 DEF BuffersKept, BufferOnly
  <2>7. ASSUME NEW c \in Buffers, c > b PROVE t.buf[c] = s.buf[c]
    BY <2>7, <2>3, <1>1, <1>2 DEF BufferOnly
  <2>8. (~t.fault => ~s.fault) /\ Grows(s, t)
    BY <2>3, <1>1, GrowsTrans
  <2>9. ASSUME ~t.fault, ~t.buf[b].full, NEW c \in Buffers, c <= b
        PROVE  ~t.buf[c].busy /\ (t.buf[c].full => ~retryFull /\ s.buf[c].full)
    <3>1. CASE c = b
      BY <3>1, <2>9, <2>3
    <3>2. CASE c # b
      <4>1. c <= b - 1 /\ t.buf[c] = u.buf[c]
        BY <3>2, <2>9, <2>3, <1>2 DEF BufferOnly
      <4> QED
        BY <4>1, <2>3, <2>9, <1>1, <1>5
    <3> QED
      BY <3>1, <3>2
  <2>10. ASSUME ~t.fault, NEW n \in 1..2, QueueOK(s, n), Len(s.queue) >= n - 1
         PROVE  QueueOK(t, n) /\ (t.buf[b].full => HasGc(t, n))
    <3>1. ~u.fault /\ QueueOK(u, n) /\ Grows(s, u)
      BY <2>3, <2>10, <1>1
    <3>2. Len(u.queue) >= n - 1
      BY <3>1, <2>10, <1>1, Types DEF Grows
    <3>3. u.buf[b].token = 0
      BY <3>1, <2>2 DEF QueueOK, TokensOK
    <3>4. ~u.failed => ~u.buf[b].prepared
      BY <3>1, <2>2 DEF QueueOK, SpaceOK
    <3> QED
      BY <3>1, <3>2, <3>3, <3>4, <2>3, <2>10
  <2>11. next.s = t /\ next.stop = t.buf[b].full
    BY <2>1
  <2> QED
    BY <2>3, <2>4, <2>5, <2>6, <2>7, <2>8, <2>9, <2>10, <2>11, <1>1 DEF Retried
<1> QED
    BY <1>3, <1>4, <1>5

LEMMA BuffersKeptRefl == ASSUME NEW s PROVE BuffersKept(s, s)
BY DEF BuffersKept

\* After an operation the buffers that were busy, or full as well, are tried
\* again.  Who still waits has a collection behind the operation.
LEMMA ReattemptDoes ==
    ASSUME NEW s, Typed(s), NEW retryFull \in BOOLEAN,
           NEW t, t = Reattempt(s, retryFull)
    PROVE  /\ Typed(t) /\ Same(StoreFields, s, t) /\ BuffersKept(s, t)
           /\ PendingOK(s) => PendingOK(t)
           /\ Grows(s, t)
           /\ ~t.fault =>
                 /\ ~s.fault
                 /\ PendingOK(s) =>
                       \A n \in 1..2 : QueueOK(s, n) /\ Len(s.queue) >= n - 1 =>
                          /\ QueueOK(t, n)
                          /\ (\E b \in Buffers : t.buf[b].busy) => HasGc(t, n)
                          /\ (\E b \in Buffers : t.buf[b].full) =>
                                \/ HasGc(t, n)
                                \/ ~retryFull /\ \E b \in Buffers : s.buf[b].full
<1>1. CASE ~s.pending
  <2>1. t = s
    BY <1>1 DEF Reattempt
  <2>2. PendingOK(s) => \A b \in Buffers : ~s.buf[b].busy /\ ~s.buf[b].full
    BY <1>1 DEF PendingOK
  <2> QED
    BY <2>1, <2>2, GrowsRefl, BuffersKeptRefl DEF Same
<1>2. CASE s.pending
  <2>1. PICK c : /\ c[0] = [s |-> s, stop |-> FALSE]
                 /\ \A k \in 1..PmFlashBuffers : c[k] = RetryOne(c[k - 1], k, retryFull)
                 /\ t = c[PmFlashBuffers].s
    BY <1>2, ReattemptRuns
  <2> DEFINE T == {k \in 0..PmFlashBuffers : Retried(s, retryFull, c[k], k)}
  <2>2. PmFlashBuffers \in Nat /\ Buffers = 1..PmFlashBuffers
    BY Types DEF Buffers
  <2>3. 0 \in T
    <3>1. c[0].s = s /\ c[0].stop = FALSE
      BY <2>1
    <3>2. \A b \in Buffers : ~(b <= 0)
      BY <2>2
    <3>3. Retried(s, retryFull, c[0], 0)
      BY <3>1, <3>2, <1>2, GrowsRefl, BuffersKeptRefl DEF Retried, Same
    <3> QED
      BY <3>3, <2>2
  <2>4. ASSUME NEW k \in 1..PmFlashBuffers, k - 1 \in T PROVE k \in T
    <3>1. Retried(s, retryFull, c[k - 1], k - 1) /\ k \in Buffers
      BY <2>4, <2>2
    <3>2. Retried(s, retryFull, c[k], k)
      BY <3>1, <2>1, RetryDoes
    <3> QED
      BY <3>2, <2>2
  <2>5. PmFlashBuffers \in T
    <3> HIDE DEF T
    <3> QED
      BY <2>2, <2>3, <2>4, Induction
  <2>6. Retried(s, retryFull, c[PmFlashBuffers], PmFlashBuffers)
    BY <2>5
  <2>7. \A b \in Buffers : b <= PmFlashBuffers
    BY <2>2
  <2> QED
    BY <2>1, <2>6, <2>7 DEF Retried, PendingOK
<1> QED
    BY <1>1, <1>2

-------------------------------------------------------------------------------
(* Buffers and ids are given back                                            *)

\* A buffer that is not handed over changes, and is not handed over now.
LEMMA QueueKeeps ==
    ASSUME NEW s, Typed(s), NEW t, NEW b \in Buffers, NEW r, t.queue = s.queue,
           t.buf = [s.buf EXCEPT ![b] = r], ~Stored(s.buf[b]), ~Stored(r),
           t.ongoing = s.ongoing, t.failed = s.failed, NEW n \in 1..2, QueueOK(s, n),
           ~s.failed => t.reserved = s.reserved + (IF r.prepared THEN 1 ELSE 0)
                                                - (IF s.buf[b].prepared THEN 1 ELSE 0)
    PROVE  QueueOK(t, n)
<1>1. /\ ~s.buf[b].busy /\ ~s.buf[b].full /\ s.buf[b].token = 0
      /\ ~r.busy /\ ~r.full /\ r.token = 0
    BY DEF Stored, StoreTokenInvalid
<1>2. TokensOK(t, n)
    BY <1>1, TokensKeep DEF QueueOK
<1>3. DeletionsOK(t, n)
    BY DEF QueueOK, DeletionsOK, IsDeletion
<1>4. ASSUME ~t.failed PROVE SpaceOK(t, n)
  <2>1. /\ s.reserved = Cardinality(WritesFrom(s, n)) + Cardinality(PreparedOnes(s))
        /\ \A c \in Buffers : ~s.buf[c].busy /\ (s.buf[c].full => ~s.buf[c].prepared)
    BY <1>4 DEF QueueOK, SpaceOK
  <2>2. WritesFrom(t, n) = WritesFrom(s, n)
    BY DEF WritesFrom
  <2>3. (IsAside(r) <=> r.prepared) /\ (IsAside(s.buf[b]) <=> s.buf[b].prepared)
    BY DEF IsAside
  <2>4. Cardinality(PreparedOnes(t)) = Cardinality(PreparedOnes(s))
            + (IF IsAside(r) THEN 1 ELSE 0) - (IF IsAside(s.buf[b]) THEN 1 ELSE 0)
    BY PreparedChange
  <2>5. /\ Cardinality(PreparedOnes(s)) \in Nat /\ Cardinality(WritesFrom(s, n)) \in Nat
    BY PreparedFinite, WritesFinite
  <2>6. t.reserved = Cardinality(WritesFrom(t, n)) + Cardinality(PreparedOnes(t))
    BY <2>1, <2>2, <2>3, <2>4, <2>5, <1>4
  <2>7. t.buf[b] = r /\ \A c \in Buffers : c # b => t.buf[c] = s.buf[c]
    BY DEF Typed, States
  <2> QED
    BY <2>1, <2>6, <2>7, <1>1 DEF SpaceOK
<1>5. SpaceOK(t, n)
    BY <1>4 DEF SpaceOK
<1> QED
    BY <1>2, <1>3, <1>5 DEF QueueOK

LEMMA ReservedTyped ==
    ASSUME NEW s \in States, NEW b \in Buffers, NEW r \in BufferRecords, NEW x \in -1..Places
    PROVE  [s EXCEPT !.buf = [s.buf EXCEPT ![b] = r], !.reserved = x] \in States
BY DEF States

LEMMA BufReleaseDoes ==
    ASSUME NEW s, Typed(s), NEW b \in Buffers, ~Stored(s.buf[b]),
           NEW t, t = BufRelease(b, s)
    PROVE  /\ Typed(t) /\ Same({"buf", "reserved"}, s, t)
           /\ t.buf = [s.buf EXCEPT ![b] = Unused]
           /\ \A n \in 1..2 : QueueOK(s, n) => QueueOK(t, n)
<1> DEFINE x == IF s.buf[b].prepared THEN Less(s.reserved) ELSE s.reserved
<1>1. t = [s EXCEPT !.buf = [s.buf EXCEPT ![b] = Unused], !.reserved = x]
    BY DEF BufRelease, Typed, States
<1>2. s.reserved \in -1..Places /\ Places \in Nat
    BY Types
<1>3. Less(s.reserved) = IF s.reserved >= 0 THEN s.reserved - 1 ELSE -1
    BY <1>2, LessIs
<1>4. x \in -1..Places
    BY <1>2, <1>3
<1>5. Unused \in BufferRecords
    BY DEF BufferRecords
<1> HIDE DEF x
<1>6. t \in States
  <2>1. s \in States
    BY DEF Typed
  <2>2. [s EXCEPT !.buf = [s.buf EXCEPT ![b] = Unused], !.reserved = x] \in States
    BY <2>1, <1>4, <1>5, ReservedTyped
  <2> QED
    BY <2>2, <1>1
<1>7. /\ Typed(t) /\ Same({"buf", "reserved"}, s, t)
      /\ t.buf = [s.buf EXCEPT ![b] = Unused] /\ t.reserved = x
    BY <1>1, <1>6 DEF Typed, States, Same, Fields
<1>8. ASSUME NEW n \in 1..2, QueueOK(s, n) PROVE QueueOK(t, n)
  <2>1. ASSUME ~s.failed
        PROVE  t.reserved = s.reserved + (IF Unused.prepared THEN 1 ELSE 0)
                                       - (IF s.buf[b].prepared THEN 1 ELSE 0)
    <3>1. s.reserved = Cardinality(WritesFrom(s, n)) + Cardinality(PreparedOnes(s))
      BY <1>8, <2>1 DEF QueueOK, SpaceOK
    <3>2. s.reserved >= 0
      BY <3>1, PreparedFinite, WritesFinite
    <3> QED
      BY <3>2, <1>2, <1>3, <1>7 DEF x, Unused
  <2>2. ~Stored(Unused)
    BY DEF Stored, Unused
  <2>3. t.queue = s.queue /\ t.ongoing = s.ongoing /\ t.failed = s.failed
    BY <1>7 DEF Same, Fields
  <2> QED
    BY <2>1, <2>2, <2>3, <1>7, <1>8, QueueKeeps
<1> QED
    BY <1>7, <1>8

\* one turn of the loop of pdb_peer_free
ReleaseOne(t, b, id) ==
    IF t.buf[b].peer = id /\ ~Stored(t.buf[b]) THEN BufRelease(b, t) ELSE t

LEMMA BufsReleaseRuns ==
    ASSUME NEW s, NEW id
    PROVE  \E c : /\ c[0] = s
                  /\ \A k \in 1..PmFlashBuffers : c[k] = ReleaseOne(c[k - 1], k, id)
                  /\ BufsRelease(s, id) = c[PmFlashBuffers]
<1> DEFINE N == PmFlashBuffers
           Step(acc, b) == ReleaseOne(acc, b, id)
           IsRun(g, m) == g = [k \in 0..m |-> IF k = 0 THEN s ELSE Step(g[k - 1], k)]
           T == {m \in Nat : \E g : IsRun(g, m)}
<1>1. N \in Nat
    BY PeerDatabaseAssumption
<1>2. BufsRelease(s, id) = Loop(Step, s, N)
    BY DEF BufsRelease, ReleaseOne
<1>3. N \in T
  <2> HIDE DEF Step
  <2>1. 0 \in T
    <3>1. IsRun([k \in 0..0 |-> s], 0)
      OBVIOUS
    <3> QED
      BY <3>1
  <2>2. ASSUME NEW m \in 1..N, m - 1 \in T PROVE m \in T
    <3>1. PICK g : IsRun(g, m - 1)
      BY <2>2
    <3>2. PICK h : h = [k \in 0..m |-> IF k = m THEN Step(g[m - 1], m) ELSE g[k]]
      OBVIOUS
    <3>3. ASSUME NEW k \in 0..m PROVE h[k] = IF k = 0 THEN s ELSE Step(h[k - 1], k)
      BY <1>1, <3>1, <3>2
    <3>4. IsRun(h, m)
      BY <3>2, <3>3
    <3> QED
      BY <3>4, <1>1
  <2> HIDE DEF T
  <2> QED
    BY <1>1, <2>1, <2>2, Induction
<1>4. PICK c : /\ c = [k \in 0..N |-> IF k = 0 THEN s ELSE Step(c[k - 1], k)]
               /\ Loop(Step, s, N) = c[N]
  <2> HIDE DEF Step, N
  <2> DEFINE c == CHOOSE c : c = [k \in 0..N |-> IF k = 0 THEN s ELSE Step(c[k - 1], k)]
  <2>1. c = [k \in 0..N |-> IF k = 0 THEN s ELSE Step(c[k - 1], k)]
    BY <1>3
  <2>2. Loop(Step, s, N) = c[N]
    BY DEF Loop
  <2> HIDE DEF c
  <2> QED
    BY <2>1, <2>2
<1>5. c[0] = s /\ \A k \in 1..N : c[k] = Step(c[k - 1], k)
  <2> HIDE DEF Step, N
  <2>1. \A k \in 0..N : c[k] = IF k = 0 THEN s ELSE Step(c[k - 1], k)
    BY <1>4
  <2>2. 0 \in 0..N /\ \A k \in 1..N : k \in 0..N /\ k # 0
    BY <1>1
  <2> QED
    BY <2>1, <2>2
<1> QED
    BY <1>5, <1>2, <1>4

\* the buffer of an id that is freed
AfterRelease(r, id) == IF r.peer = id /\ ~Stored(r) THEN Unused ELSE r

LEMMA BufsReleaseDoes ==
    ASSUME NEW s, Typed(s), NEW id \in Peers, NEW t, t = BufsRelease(s, id)
    PROVE  /\ Typed(t) /\ Same({"buf", "reserved"}, s, t)
           /\ \A b \in Buffers : t.buf[b] = AfterRelease(s.buf[b], id)
           /\ \A n \in 1..2 : QueueOK(s, n) => QueueOK(t, n)
<1> DEFINE Released(u, k) ==
               /\ Typed(u) /\ Same({"buf", "reserved"}, s, u)
               /\ \A b \in Buffers :
                     u.buf[b] = IF b <= k THEN AfterRelease(s.buf[b], id) ELSE s.buf[b]
               /\ \A n \in 1..2 : QueueOK(s, n) => QueueOK(u, n)
<1>1. PICK c : /\ c[0] = s
               /\ \A k \in 1..PmFlashBuffers : c[k] = ReleaseOne(c[k - 1], k, id)
               /\ t = c[PmFlashBuffers]
    BY BufsReleaseRuns
<1> DEFINE T == {k \in 0..PmFlashBuffers : Released(c[k], k)}
<1>2. PmFlashBuffers \in Nat /\ Buffers = 1..PmFlashBuffers
    BY Types DEF Buffers
<1>3. 0 \in T
  <2>1. \A b \in Buffers : ~(b <= 0)
    BY <1>2
  <2>2. Released(c[0], 0)
    BY <2>1, <1>1 DEF Same
  <2> QED
    BY <2>2, <1>2
<1>4. ASSUME NEW k \in 1..PmFlashBuffers, k - 1 \in T PROVE k \in T
  <2> DEFINE u == c[k - 1]
             v == c[k]
  <2>1. Released(u, k - 1) /\ k \in Buffers /\ v = ReleaseOne(u, k, id)
    BY <1>1, <1>2, <1>4
  <2>2. \A b \in Buffers : (b <= k <=> b <= k - 1 \/ b = k) /\ ~(k <= k - 1)
    BY <1>2
  <2>3. u.buf[k] = s.buf[k]
    BY <2>1, <2>2
  <2> HIDE DEF u, v
  <2>4. CASE u.buf[k].peer = id /\ ~Stored(u.buf[k])
    <3>1. v = BufRelease(k, u)
      BY <2>1, <2>4 DEF ReleaseOne
    <3>2. /\ Typed(v) /\ Same({"buf", "reserved"}, u, v)
          /\ v.buf = [u.buf EXCEPT ![k] = Unused]
          /\ \A n \in 1..2 : QueueOK(u, n) => QueueOK(v, n)
      BY <3>1, <2>1, <2>4, BufReleaseDoes
    <3>3. v.buf[k] = Unused /\ \A b \in Buffers : b # k => v.buf[b] = u.buf[b]
      BY <3>2, <2>1 DEF Typed, States
    <3>4. AfterRelease(s.buf[k], id) = Unused
      BY <2>3, <2>4 DEF AfterRelease
    <3>5. \A b \in Buffers :
              v.buf[b] = IF b <= k THEN AfterRelease(s.buf[b], id) ELSE s.buf[b]
      BY <3>3, <3>4, <2>1, <2>2
    <3>6. Same({"buf", "reserved"}, s, v)
      BY <3>2, <2>1 DEF Same
    <3>7. Released(v, k)
      BY <3>2, <3>5, <3>6, <2>1
    <3> QED
      BY <3>7, <1>2 DEF v
  <2>5. CASE ~(u.buf[k].peer = id /\ ~Stored(u.buf[k]))
    <3>1. v = u
      BY <2>1, <2>5 DEF ReleaseOne
    <3>2. AfterRelease(s.buf[k], id) = s.buf[k]
      BY <2>3, <2>5 DEF AfterRelease
    <3>3. \A b \in Buffers :
              v.buf[b] = IF b <= k THEN AfterRelease(s.buf[b], id) ELSE s.buf[b]
      BY <3>1, <3>2, <2>1, <2>2, <2>3
    <3> QED
      BY <3>1, <3>3, <2>1, <1>2 DEF v
  <2> QED
    BY <2>4, <2>5
<1>5. PmFlashBuffers \in T
  <2> HIDE DEF T
  <2> QED
    BY <1>2, <1>3, <1>4, Induction
<1> QED
    BY <1>1, <1>2, <1>5

LEMMA PeerFreeDoes ==
    ASSUME NEW s, Typed(s), NEW id \in Peers, NEW t, t = PeerFree(s, id)
    PROVE  /\ Typed(t)
           /\ Same({"buf", "reserved", "used", "deleted", "ongoing", "queue", "fault", "peer"},
                   s, t)
           /\ \A b \in Buffers : t.buf[b] = AfterRelease(s.buf[b], id)
           /\ t.peer = IF s.peer = id THEN PeerIdInvalid ELSE s.peer
           /\ Grows(s, t)
           /\ ~t.fault =>
                 /\ ~s.fault /\ DeletionsGoOn(t)
                 /\ \A n \in 1..2 : QueueOK(s, n) /\ Len(s.queue) >= n - 1 => QueueOK(t, n)
<1>1. id # PeerIdInvalid
    BY Types
<1> DEFINE u == BufsRelease(s, id)
           v == [u EXCEPT !.deleted = u.deleted \cup {id}]
           w == PeerDataDelete(v)
           x == IF w.peer = id THEN PeerIdInvalid ELSE w.peer
<1>2. t = [w EXCEPT !.peer = x]
    BY <1>1 DEF PeerFree
<1> HIDE DEF x
<1>3. /\ Typed(u) /\ Same({"buf", "reserved"}, s, u)
      /\ \A b \in Buffers : u.buf[b] = AfterRelease(s.buf[b], id)
      /\ \A n \in 1..2 : QueueOK(s, n) => QueueOK(u, n)
    BY BufsReleaseDoes
<1> HIDE DEF u
<1>4. /\ Typed(v) /\ Same({"deleted"}, u, v)
    BY <1>3 DEF Typed, States, Same, Fields
<1> HIDE DEF v
<1>5. /\ Typed(w)
      /\ Same({"used", "deleted", "ongoing", "queue", "fault"}, v, w)
      /\ Grows(v, w)
      /\ ~w.fault =>
            /\ ~v.fault /\ DeletionsGoOn(w)
            /\ \A n \in 1..2 : QueueOK(v, n) /\ Len(v.queue) >= n - 1 => QueueOK(w, n)
    BY <1>4, PeerDataDeleteDoes
<1> HIDE DEF w
<1>6. /\ v.queue = s.queue /\ v.buf = u.buf /\ v.ongoing = u.ongoing
      /\ v.reserved = u.reserved /\ v.failed = u.failed /\ v.fault = s.fault
      /\ w.buf = u.buf /\ w.peer = s.peer /\ u.queue = v.queue
    BY <1>3, <1>4, <1>5 DEF Same, Fields
<1>7. x \in Peers \cup {PeerIdInvalid}
    BY <1>5, Types DEF x
<1>8. Typed(t) /\ Same({"peer"}, w, t) /\ t.peer = x
    BY <1>2, <1>5, <1>7 DEF Typed, States, Same, Fields
<1>9. /\ t.buf = w.buf /\ t.queue = w.queue /\ t.fault = w.fault /\ t.deleted = w.deleted
      /\ t.ongoing = w.ongoing /\ t.reserved = w.reserved /\ t.failed = w.failed
    BY <1>8 DEF Same, Fields
<1>10. Same({"buf", "reserved", "used", "deleted", "ongoing", "queue", "fault", "peer"}, s, t)
    BY <1>3, <1>4, <1>5, <1>8 DEF Same
<1>11. Grows(s, t) /\ (~t.fault => ~s.fault /\ DeletionsGoOn(t))
    BY <1>5, <1>6, <1>9 DEF Grows, DeletionsGoOn
<1>12. ASSUME ~t.fault, NEW n \in 1..2, QueueOK(s, n), Len(s.queue) >= n - 1
       PROVE  QueueOK(t, n)
  <2>1. QueueOK(v, n)
    BY <1>3, <1>6, <1>12, QueueFrame
  <2>2. QueueOK(w, n)
    BY <2>1, <1>5, <1>6, <1>9, <1>12
  <2> QED
    BY <2>2, <1>9, QueueFrame
<1> QED
    BY <1>3, <1>6, <1>8, <1>9, <1>10, <1>11, <1>12 DEF x

\* the pairing's buffer is released with its id, and no other
LEMMA BuffersFree ==
    ASSUME NEW s, NEW t, NEW id \in Peers, BuffersOK(s), t.proc = s.proc, t.link = s.link,
           \A b \in Buffers : t.buf[b] = AfterRelease(s.buf[b], id),
           t.peer = IF s.peer = id THEN PeerIdInvalid ELSE s.peer
    PROVE  BuffersOK(t)
<1>1. PeerIdInvalid \notin Peers
    BY PeerDatabaseAssumption DEF PeerIdInvalid
<1>2. ASSUME NEW b \in Buffers, ~Stored(t.buf[b]) PROVE t.buf[b] = Unused \/ IsPrepared(t, b)
  <2>1. CASE t.buf[b] = Unused
    BY <2>1
  <2>2. CASE t.buf[b] # Unused
    <3>1. t.buf[b] = s.buf[b] /\ ~(s.buf[b].peer = id /\ ~Stored(s.buf[b]))
      BY <2>2 DEF AfterRelease
    <3>2. IsPrepared(s, b) /\ s.buf[b].peer # id
      BY <3>1, <1>2, <2>2 DEF BuffersOK
    <3>3. s.buf[b].peer = s.peer
      BY <3>2, IsPreparedIs
    <3> QED
      BY <3>1, <3>2, <3>3 DEF IsPrepared
  <2> QED
    BY <2>1, <2>2
<1>3. ASSUME NEW b \in Buffers, IsPrepared(t, b) PROVE IsPrepared(s, b)
  <2>1. t.buf[b] # Unused /\ s.peer = t.peer
    <3>1. s.peer = t.peer
      BY <1>1, <1>3 DEF IsPrepared
    <3>2. t.buf[b] # Unused
      BY <1>3, IsPreparedIs
    <3> QED
      BY <3>1, <3>2
  <2>2. t.buf[b] = s.buf[b]
    BY <2>1 DEF AfterRelease
  <2> QED
    BY <2>1, <2>2, <1>3 DEF IsPrepared
<1>4. ASSUME t.proc = "pairing", t.peer \in Peers PROVE \E b \in Buffers : IsPrepared(t, b)
  <2>1. s.peer = t.peer /\ s.peer # id
    BY <1>1, <1>4
  <2>2. PICK b \in Buffers : IsPrepared(s, b)
    BY <2>1, <1>4 DEF BuffersOK
  <2>3. s.buf[b].peer = s.peer
    BY <2>2, IsPreparedIs
  <2>4. t.buf[b] = s.buf[b]
    BY <2>1, <2>3 DEF AfterRelease
  <2> QED
    BY <2>1, <2>2, <2>4 DEF IsPrepared
<1> QED
    BY <1>2, <1>3, <1>4 DEF BuffersOK

LEMMA BufOfIs ==
    ASSUME NEW s, NEW id, NEW data, NEW b, b = BufOf(s, id, data)
    PROVE  /\ b = 0 => Open(s, id, data) = {} /\ FreeBuffers(s) = {}
           /\ b # 0 => b \in Open(s, id, data) \cup FreeBuffers(s) /\ b \in Buffers
           /\ Open(s, id, data) # {} => b \in Open(s, id, data)
           /\ b # 0 => ~Stored(s.buf[b])
<1>1. Open(s, id, data) \subseteq Buffers /\ FreeBuffers(s) \subseteq Buffers
    BY DEF Open, FreeBuffers
<1>2. Buffers \subseteq Nat \ {0}
    BY DEF Buffers
<1>3. CASE Open(s, id, data) # {}
  <2>1. b \in Open(s, id, data)
    BY <1>1, <1>2, <1>3, MinIn DEF BufOf
  <2> QED
    BY <2>1, <1>1, <1>2, <1>3 DEF Open
<1>4. CASE Open(s, id, data) = {} /\ FreeBuffers(s) # {}
  <2>1. b \in FreeBuffers(s)
    BY <1>1, <1>2, <1>4, MinIn DEF BufOf
  <2> QED
    BY <2>1, <1>1, <1>2, <1>4 DEF Open, FreeBuffers
<1>5. CASE Open(s, id, data) = {} /\ FreeBuffers(s) = {}
    BY <1>5 DEF BufOf
<1> QED
    BY <1>3, <1>4, <1>5

LEMMA BufTyped ==
    ASSUME NEW s \in States, NEW b \in Buffers, NEW r \in BufferRecords
    PROVE  [s EXCEPT !.buf = [s.buf EXCEPT ![b] = r]] \in States
BY DEF States

Retaken(r, id, data) == [r EXCEPT !.peer = id, !.data = data]

LEMMA RecordTaken ==
    ASSUME NEW r \in BufferRecords, NEW id \in Peers, NEW data \in Datas,
           NEW q, q = Retaken(r, id, data)
    PROVE  /\ q \in BufferRecords /\ q.peer = id /\ q.data = data
           /\ q.token = r.token /\ q.busy = r.busy /\ q.full = r.full /\ q.prepared = r.prepared
           /\ r = Unused => q = Taken(id, data)
<1> DEFINE R == [peer : Peers, data : Datas, prepared : BOOLEAN, token : Nat,
                 busy : BOOLEAN, full : BOOLEAN]
<1>1. CASE r \in R
  <2>1. q \in R
    BY <1>1 DEF Retaken
  <2>2. r # Unused
    BY <1>1, PeerDatabaseAssumption DEF Unused, PeerIdInvalid
  <2> QED
    BY <1>1, <2>1, <2>2 DEF BufferRecords, Retaken
<1>2. CASE r = Unused
  <2>1. q = [peer |-> id, data |-> data, prepared |-> FALSE, token |-> 0, busy |-> FALSE,
             full |-> FALSE]
    BY <1>2 DEF Unused, StoreTokenInvalid, Retaken
  <2>2. [peer |-> id, data |-> data, prepared |-> FALSE, token |-> 0, busy |-> FALSE,
         full |-> FALSE] \in R
    OBVIOUS
  <2>3. q \in BufferRecords /\ q = Taken(id, data)
    BY <2>1, <2>2 DEF BufferRecords, Taken, StoreTokenInvalid
  <2>4. /\ q.token = 0 /\ q.peer = id /\ q.data = data
        /\ q.prepared = FALSE /\ q.busy = FALSE /\ q.full = FALSE
    BY <2>1
  <2>5. r.prepared = FALSE /\ r.token = 0 /\ r.busy = FALSE /\ r.full = FALSE
    BY <1>2 DEF Unused, StoreTokenInvalid
  <2> QED
    BY <2>3, <2>4, <2>5
<1> QED
    BY <1>1, <1>2 DEF BufferRecords

LEMMA BufTakeDoes ==
    ASSUME NEW s, Typed(s), NEW b \in Buffers, NEW id \in Peers, NEW data \in Datas,
           NEW t, t = BufTake(s, b, id, data)
    PROVE  /\ Typed(t) /\ Same({"buf"}, s, t)
           /\ \A c \in Buffers : c # b => t.buf[c] = s.buf[c]
           /\ t.buf[b].peer = id /\ t.buf[b].data = data
           /\ t.buf[b] # Unused
           /\ Stored(t.buf[b]) <=> Stored(s.buf[b])
           /\ s.buf[b] = Unused =>
                 /\ t.buf[b] = Taken(id, data)
                 /\ t.buf = [s.buf EXCEPT ![b] = Taken(id, data)]
                 /\ \A n \in 1..2 : QueueOK(s, n) => QueueOK(t, n)
<1> DEFINE r == s.buf[b]
<1>10. PICK q : q = Retaken(r, id, data)
    OBVIOUS
<1>1. t = [s EXCEPT !.buf = [s.buf EXCEPT ![b] = q]]
    BY <1>10 DEF BufTake, Retaken, Typed, States
<1>2. /\ r \in BufferRecords /\ s.buf \in [Buffers -> BufferRecords]
      /\ id # PeerIdInvalid
    BY Types
<1>3. /\ q \in BufferRecords /\ q.peer = id /\ q.data = data
      /\ q.token = r.token /\ q.busy = r.busy /\ q.full = r.full /\ q.prepared = r.prepared
    BY <1>10, <1>2, RecordTaken
<1>4. q # Unused
    BY <1>2, <1>3 DEF Unused
<1>5. r = Unused => q = Taken(id, data)
    BY <1>10, <1>2, RecordTaken
<1>6. t \in States
  <2>1. s \in States
    BY DEF Typed
  <2>2. [s EXCEPT !.buf = [s.buf EXCEPT ![b] = q]] \in States
    BY <2>1, <1>3, BufTyped
  <2> QED
    BY <2>2, <1>1
<1>7. /\ Typed(t) /\ Same({"buf"}, s, t) /\ t.buf = [s.buf EXCEPT ![b] = q]
    BY <1>1, <1>6 DEF Typed, States, Same, Fields
<1>8. t.buf[b] = q /\ \A c \in Buffers : c # b => t.buf[c] = s.buf[c]
    BY <1>2, <1>7
<1>9. ASSUME r = Unused, NEW n \in 1..2, QueueOK(s, n) PROVE QueueOK(t, n)
  <2>1. ~Stored(r) /\ ~Stored(q) /\ ~q.prepared /\ ~r.prepared
    BY <1>3, <1>9 DEF Stored, Unused
  <2>2. /\ t.queue = s.queue /\ t.ongoing = s.ongoing /\ t.failed = s.failed
        /\ t.reserved = s.reserved /\ s.reserved \in Int
    BY <1>7, Types DEF Same, Fields
  <2> QED
    BY <2>1, <2>2, <1>7, <1>9, QueueKeeps
<1> QED
    BY <1>3, <1>4, <1>5, <1>7, <1>8, <1>9 DEF Stored

-------------------------------------------------------------------------------
(* A pairing asks for a buffer                                               *)

\* what the handlers find and leave
Core(s, n) ==
    /\ BuffersOK(s) /\ QueueOK(s, n) /\ DeletionsGoOn(s) /\ PendingOK(s)
    /\ Len(s.queue) >= n - 1

\* Without a pairing, what is not handed over is free.
LEMMA FreeOnes ==
    ASSUME NEW s, BuffersOK(s), s.proc # "pairing", NEW b \in Buffers, ~Stored(s.buf[b])
    PROVE  s.buf[b] = Unused
BY DEF BuffersOK, IsPrepared

\* All buffers are free or handed over.
LEMMA NonePrepared ==
    ASSUME NEW s, s.proc # "pairing", \A b \in Buffers : ~Stored(s.buf[b]) => s.buf[b] = Unused,
           s.link = "none" => s.proc = "none"
    PROVE  BuffersOK(s)
BY DEF BuffersOK, IsPrepared

LEMMA PrepareDoes ==
    ASSUME NEW s, Typed(s), NEW b \in Buffers, s.buf[b] # Unused, NEW t, t = Prepare(s, b),
           s.buf[b].prepared \/ HasRoom(s)
    PROVE  /\ Typed(t) /\ Same({"buf", "reserved"}, s, t)
           /\ \A c \in Buffers : c # b => t.buf[c] = s.buf[c]
           /\ \A id \in Peers : s.buf[b] = Taken(id, "bonding") =>
                 /\ t.buf[b] = PreparedFor(id)
                 /\ t.buf = [s.buf EXCEPT ![b] = t.buf[b]]
                 /\ t.reserved = s.reserved + 1
<1>1. CASE s.buf[b].prepared
  <2>1. t = s
    BY <1>1 DEF Prepare
  <2>2. \A id, data : ~Taken(id, data).prepared
    BY DEF Taken, Unused
  <2> QED
    BY <2>1, <2>2, <1>1 DEF Same
<1>2. CASE ~s.buf[b].prepared
  <2> DEFINE r == s.buf[b]
             q == [r EXCEPT !.prepared = TRUE]
             x == s.reserved + 1
  <2>1. t = [s EXCEPT !.buf = [s.buf EXCEPT ![b] = q], !.reserved = x]
    BY <1>2 DEF Prepare, Typed, States
  <2>2. q \in BufferRecords
    <3>1. r \in BufferRecords /\ r # Unused
      BY BufferType
    <3>2. r \in [peer : Peers, data : Datas, prepared : BOOLEAN, token : Nat, busy : BOOLEAN,
                 full : BOOLEAN]
      BY <3>1 DEF BufferRecords
    <3> HIDE DEF r
    <3> QED
      BY <3>2 DEF BufferRecords
  <2>3. x \in -1..Places
    <3>1. /\ s.reserved \in -1..Places /\ s.garbage \in Nat /\ Places \in Nat
          /\ Cardinality(s.flash) \in Nat
      BY Types, FS_CardinalityType
    <3> QED
      BY <3>1, <1>2 DEF HasRoom
  <2>4. ASSUME NEW id \in Peers, r = Taken(id, "bonding") PROVE q = PreparedFor(id)
    <3>1. ASSUME NEW taken, taken = Taken(id, "bonding"),
                 NEW made, made = [taken EXCEPT !.prepared = TRUE]
          PROVE  made = PreparedFor(id)
      BY ONLY <3>1 DEF Taken, PreparedFor
    <3> HIDE DEF r
    <3> QED
      BY <3>1, <2>4
  <2>5. s \in States
    BY DEF Typed
  <2> HIDE DEF q, x
  <2>6. t \in States
    <3>1. [s EXCEPT !.buf = [s.buf EXCEPT ![b] = q], !.reserved = x] \in States
      BY <2>2, <2>3, <2>5, ReservedTyped
    <3> QED
      BY <3>1, <2>1
  <2>7. /\ Typed(t) /\ Same({"buf", "reserved"}, s, t)
        /\ t.buf = [s.buf EXCEPT ![b] = q] /\ t.reserved = x
    BY <2>1, <2>6 DEF Typed, States, Same, Fields
  <2>8. t.buf[b] = q /\ \A c \in Buffers : c # b => t.buf[c] = s.buf[c]
    BY <2>7, Types
  <2> QED
    BY <2>4, <2>7, <2>8 DEF x
<1> QED
    BY <1>1, <1>2

ReplyFields ==
    {"reserved", "queue", "used", "deleted", "ongoing", "buf", "peer", "proc", "fault"}

\* The pairing has its buffer, or all buffers are handed over, or a collection
\* is asked for.
Replied(s, t, n) ==
    /\ Core(t, n)
    /\ \A b \in Buffers : Stored(s.buf[b]) \/ Stored(t.buf[b]) => t.buf[b] = s.buf[b]
    /\ t.proc = "busy" => \A b \in Buffers : Stored(t.buf[b])
    /\ t.proc = "full" => HasGc(t, n)

WithProc(w, proc)  == [w EXCEPT !.proc = proc]
WithPairing(w, id) == [w EXCEPT !.proc = "pairing", !.peer = id]

LEMMA ProcTyped ==
    ASSUME NEW s, Typed(s), NEW proc \in {"none", "pairing", "busy", "full"},
           NEW t, t = WithProc(s, proc)
    PROVE  Typed(t) /\ Same({"proc"}, s, t) /\ t.proc = proc
BY DEF Typed, States, Same, Fields, WithProc

\* no buffer, or no room: the id is freed
LEMMA ReplyRefused ==
    ASSUME NEW s, Typed(s), NEW got, Typed(got), NEW id \in Peers,
           Same({"used", "buf"}, s, got),
           NEW why \in {"busy", "full"}, NEW w, w = PeerFree(got, id),
           NEW t, t = WithProc(w, why)
    PROVE  /\ Typed(t) /\ Same(ReplyFields, s, t) /\ t.proc = why
           /\ (~t.fault => ~s.fault) /\ Grows(s, t)
           /\ \A n \in 1..2 :
                 /\ ~t.fault /\ s.proc # "pairing" /\ s.link # "none"
                 /\ Core(s, n) /\ QueueOK(got, n)
                 /\ \A b \in Buffers : AfterRelease(got.buf[b], id) = s.buf[b]
                 => Core(t, n) /\ \A b \in Buffers : t.buf[b] = s.buf[b]
<1>1. /\ Typed(w)
      /\ Same({"buf", "reserved", "used", "deleted", "ongoing", "queue", "fault", "peer"}, got, w)
      /\ \A b \in Buffers : w.buf[b] = AfterRelease(got.buf[b], id)
      /\ Grows(got, w)
      /\ ~w.fault =>
            /\ ~got.fault /\ DeletionsGoOn(w)
            /\ \A n \in 1..2 : QueueOK(got, n) /\ Len(got.queue) >= n - 1 => QueueOK(w, n)
    BY PeerFreeDoes
<1>3. Typed(t) /\ Same({"proc"}, w, t) /\ t.proc = why
    BY <1>1, ProcTyped
<1>4. Same(ReplyFields, s, t)
    BY <1>1, <1>3 DEF Same, ReplyFields
<1>5. /\ got.queue = s.queue /\ got.fault = s.fault
      /\ t.queue = w.queue /\ t.fault = w.fault /\ t.buf = w.buf /\ t.deleted = w.deleted
      /\ t.ongoing = w.ongoing /\ t.reserved = w.reserved /\ t.failed = w.failed
      /\ t.pending = s.pending /\ t.link = s.link
    BY <1>1, <1>3, <1>4 DEF Same, Fields, ReplyFields
<1>6. (~t.fault => ~s.fault) /\ Grows(s, t)
    BY <1>1, <1>5, <1>6 DEF Grows
<1>7. ASSUME ~t.fault, s.proc # "pairing", s.link # "none", NEW n \in 1..2, Core(s, n),
             QueueOK(got, n),
             \A b \in Buffers : AfterRelease(got.buf[b], id) = s.buf[b]
      PROVE  Core(t, n) /\ \A b \in Buffers : t.buf[b] = s.buf[b]
  <2>1. \A b \in Buffers : t.buf[b] = s.buf[b]
    BY <1>1, <1>5, <1>7
  <2>2. BuffersOK(t)
    <3>1. \A b \in Buffers : ~Stored(t.buf[b]) => t.buf[b] = Unused
      BY <2>1, <1>7, FreeOnes DEF Core
    <3>2. t.proc # "pairing" /\ t.link # "none"
      BY <1>3, <1>5, <1>7
    <3> QED
      BY <3>1, <3>2, NonePrepared
  <2>3. QueueOK(w, n) /\ DeletionsGoOn(w)
    BY <1>1, <1>5, <1>7 DEF Core
  <2>4. QueueOK(t, n)
    BY <2>3, <1>5, QueueFrame
  <2>5. DeletionsGoOn(t) /\ PendingOK(t)
    BY <2>1, <2>3, <1>5, <1>7 DEF DeletionsGoOn, PendingOK, Core
  <2>6. Len(t.queue) >= n - 1
    BY <1>3, <1>6, <1>7, Types DEF Core, Grows
  <2> QED
    BY <2>1, <2>2, <2>4, <2>5, <2>6 DEF Core
<1> QED
    BY <1>3, <1>4, <1>6, <1>7

\* the pairing has its buffer and its id
LEMMA ReplyGranted ==
    ASSUME NEW s, Typed(s), NEW got, Typed(got), NEW id \in Peers,
           Same({"used", "buf"}, s, got), NEW b \in Buffers,
           \A c \in Buffers : c # b => got.buf[c] = s.buf[c],
           got.buf[b] # Unused, HasRoom(got) \/ got.buf[b].prepared,
           NEW w, w = Prepare(got, b), NEW t, t = WithPairing(w, id)
    PROVE  /\ Typed(t) /\ Same(ReplyFields, s, t)
           /\ (~t.fault => ~s.fault) /\ Grows(s, t)
           /\ \A n \in 1..2 :
                 /\ s.link \notin {"none", "gone"}
                 /\ s.proc # "pairing" /\ Core(s, n) /\ s.buf[b] = Unused
                 /\ got.buf[b] = Taken(id, "bonding")
                 => Replied(s, t, n)
<1>1. /\ Typed(w) /\ Same({"buf", "reserved"}, got, w)
      /\ \A c \in Buffers : c # b => w.buf[c] = got.buf[c]
      /\ \A i \in Peers : got.buf[b] = Taken(i, "bonding") =>
                 /\ w.buf[b] = PreparedFor(i)
                 /\ w.buf = [got.buf EXCEPT ![b] = w.buf[b]]
                 /\ w.reserved = got.reserved + 1
    BY PrepareDoes
<1>3. Typed(t) /\ Same({"proc", "peer"}, w, t) /\ t.proc = "pairing" /\ t.peer = id
  <2>1. t = [w EXCEPT !.proc = "pairing", !.peer = id] /\ Typed(w)
    BY <1>1 DEF WithPairing
  <2> QED
    BY ONLY <2>1, id \in Peers DEF Typed, States, Same, Fields
<1>4. Same(ReplyFields, s, t)
    BY <1>1, <1>3 DEF Same, ReplyFields
<1>5. /\ t.queue = s.queue /\ t.fault = s.fault /\ t.buf = w.buf /\ t.deleted = s.deleted
      /\ t.ongoing = s.ongoing /\ t.reserved = w.reserved /\ t.failed = s.failed
      /\ t.pending = s.pending /\ t.link = s.link /\ got.reserved = s.reserved
  <2>1. /\ got.queue = s.queue /\ got.fault = s.fault /\ got.deleted = s.deleted
        /\ got.ongoing = s.ongoing /\ got.reserved = s.reserved
    BY DEF Same, Fields
  <2>2. /\ w.queue = got.queue /\ w.fault = got.fault /\ w.deleted = got.deleted
        /\ w.ongoing = got.ongoing
    BY <1>1 DEF Same, Fields
  <2>3. /\ t.queue = w.queue /\ t.fault = w.fault /\ t.deleted = w.deleted
        /\ t.ongoing = w.ongoing /\ t.buf = w.buf /\ t.reserved = w.reserved
    BY <1>3 DEF Same, Fields
  <2>4. t.failed = s.failed /\ t.pending = s.pending /\ t.link = s.link
    BY <1>4 DEF Same, Fields, ReplyFields
  <2> QED
    BY <2>1, <2>2, <2>3, <2>4
<1>6. ASSUME s.link \notin {"none", "gone"}, s.proc # "pairing",
             NEW n \in 1..2, Core(s, n), s.buf[b] = Unused,
             got.buf[b] = Taken(id, "bonding")
      PROVE  Replied(s, t, n)
  <2> DEFINE q == t.buf[b]
  <2>1. /\ q = PreparedFor(id)
        /\ t.reserved = s.reserved + 1
        /\ \A c \in Buffers : c # b => t.buf[c] = s.buf[c]
    BY <1>1, <1>5, <1>6 DEF Datas
  <2>2. q.prepared /\ ~Stored(q) /\ ~Stored(Unused) /\ ~Unused.prepared
    BY <2>1, PreparedIs, UnusedIs
  <2>3. t.buf = [s.buf EXCEPT ![b] = q]
    <3>1. s.buf \in [Buffers -> BufferRecords] /\ t.buf \in [Buffers -> BufferRecords]
      BY <1>3, Types
    <3> QED
      BY <3>1, <2>1
  <2>4. IsPrepared(t, b)
    BY <2>1, <1>3 DEF IsPrepared
  <2>5. ASSUME NEW c \in Buffers, c # b, ~Stored(t.buf[c]) PROVE t.buf[c] = Unused
    BY <2>1, <2>5, <1>6, FreeOnes DEF Core
  <2>6. ASSUME NEW c \in Buffers, IsPrepared(t, c) PROVE c = b
    <3>1. t.buf[c] # Unused /\ ~Stored(t.buf[c])
      BY ONLY <2>6, IsPreparedIs
    <3> QED
      BY <3>1, <2>5
  <2>7. BuffersOK(t)
    <3>1. \A c \in Buffers : ~Stored(t.buf[c]) => t.buf[c] = Unused \/ IsPrepared(t, c)
      BY <2>4, <2>5
    <3>2. t.link = "up" /\ t.link # "none"
      BY <1>5, <1>6 DEF Typed, States
    <3> QED
      BY <3>1, <3>2, <2>4, <2>6 DEF BuffersOK
  <2>8. QueueOK(t, n)
    <3>1. s.reserved \in Int /\ QueueOK(s, n)
      BY <1>6, Types DEF Core
    <3>2. t.reserved = s.reserved + (IF q.prepared THEN 1 ELSE 0)
                                  - (IF s.buf[b].prepared THEN 1 ELSE 0)
      BY <2>1, <2>2, <3>1, <1>6
    <3> HIDE DEF q
    <3> QED
      BY ONLY <3>1, <3>2, <2>2, <2>3, <1>5, <1>6, QueueKeeps, Typed(s), b \in Buffers, n \in 1..2
  <2>9. DeletionsGoOn(t) /\ PendingOK(t) /\ Len(t.queue) >= n - 1
    <3>1. ~q.busy /\ ~q.full
      BY <2>2 DEF Stored
    <3> QED
      BY <3>1, <2>1, <1>5, <1>6 DEF DeletionsGoOn, PendingOK, Core
  <2>10. \A c \in Buffers : Stored(s.buf[c]) \/ Stored(t.buf[c]) => t.buf[c] = s.buf[c]
    BY <2>1, <2>2, <1>6
  <2> QED
    BY <2>7, <2>8, <2>9, <2>10, <1>3 DEF Core, Replied
<1> QED
    BY <1>3, <1>4, <1>5, <1>6, GrowsRefl

\* smd_params_reply_perform
LEMMA ParamsReplyDoes ==
    ASSUME NEW s, Typed(s), NEW t, t = ParamsReply(s)
    PROVE  /\ Typed(t) /\ Same(ReplyFields, s, t)
           /\ (~t.fault => ~s.fault) /\ Grows(s, t)
           /\ \A n \in 1..2 :
                 ~t.fault /\ s.proc # "pairing" /\ s.link # "none" /\ Core(s, n)
                 => Replied(s, t, n)
<1>1. CASE Peers \subseteq s.used
  <2>1. t = [s EXCEPT !.fault = TRUE]
    BY <1>1 DEF ParamsReply, Fault
  <2>2. Typed(t) /\ Same({"fault"}, s, t) /\ t.fault
    BY <2>1 DEF Typed, States, Same, Fields
  <2> QED
    BY <2>2, SameQueue DEF Same, ReplyFields
<1>2. CASE ~(Peers \subseteq s.used)
  <2>1. PICK id : id = Min(Peers \ s.used)
    OBVIOUS
  <2>2. id \in Peers
    BY <2>1, <1>2, Types, MinIn
  <2>3. PICK alloc : alloc = [s EXCEPT !.used = s.used \cup {id}]
    OBVIOUS
  <2>4. Typed(alloc) /\ Same({"used"}, s, alloc) /\ alloc.buf = s.buf
    BY <2>2, <2>3 DEF Typed, States, Same, Fields
  <2>5. PICK b : b = BufOf(alloc, id, "bonding")
    OBVIOUS
  <2>6. /\ b = 0 => FreeBuffers(alloc) = {}
        /\ b # 0 => b \in Buffers /\ ~Stored(alloc.buf[b])
    BY <2>5, BufOfIs
  <2>7. ASSUME NEW n \in 1..2, QueueOK(s, n) PROVE QueueOK(alloc, n)
    <3>1. /\ alloc.queue = s.queue /\ alloc.ongoing = s.ongoing
          /\ alloc.reserved = s.reserved /\ alloc.failed = s.failed
      BY <2>4 DEF Same, Fields
    <3> QED
      BY <3>1, <2>4, <2>7, QueueFrame
  <2>8. CASE b = 0
    <3>1. PICK w : w = PeerFree(alloc, id)
      OBVIOUS
    <3>2. t = WithProc(w, "busy")
      BY <1>2, <2>1, <2>3, <2>5, <2>8, <3>1 DEF ParamsReply, WithProc
    <3>3. Same({"used", "buf"}, s, alloc)
      BY <2>4 DEF Same
    <3>4. /\ Typed(t) /\ Same(ReplyFields, s, t) /\ t.proc = "busy"
          /\ (~t.fault => ~s.fault) /\ Grows(s, t)
          /\ \A n \in 1..2 :
                /\ ~t.fault /\ s.proc # "pairing" /\ s.link # "none"
                /\ Core(s, n) /\ QueueOK(alloc, n)
                /\ \A c \in Buffers : AfterRelease(alloc.buf[c], id) = s.buf[c]
                => Core(t, n) /\ \A c \in Buffers : t.buf[c] = s.buf[c]
      BY <3>1, <3>2, <3>3, <2>2, <2>4, ReplyRefused
    <3>5. ASSUME ~t.fault, s.proc # "pairing", s.link # "none", NEW n \in 1..2, Core(s, n)
          PROVE  Replied(s, t, n)
      <4>1. ASSUME NEW c \in Buffers PROVE Stored(s.buf[c])
        <5>1. ~Stored(s.buf[c]) => s.buf[c] = Unused
          BY <3>5, FreeOnes DEF Core
        <5>2. s.buf[c] # Unused \/ Stored(s.buf[c])
          <6>1. s.buf[c] = Unused /\ ~Stored(s.buf[c]) => c \in FreeBuffers(alloc)
            BY <2>4 DEF FreeBuffers, Open, Unused
          <6> QED
            BY <6>1, <2>6, <2>8
        <5> QED
          BY <5>1, <5>2
      <4>2. \A c \in Buffers : AfterRelease(alloc.buf[c], id) = s.buf[c]
        BY <4>1, <2>4 DEF AfterRelease
      <4>3. Core(t, n) /\ \A c \in Buffers : t.buf[c] = s.buf[c]
        BY <4>2, <3>4, <3>5, <2>7 DEF Core
      <4> QED
        BY <4>1, <4>3, <3>4 DEF Replied
    <3> QED
      BY <3>4, <3>5
  <2>9. CASE b # 0
    <3>1. PICK got : got = BufTake(alloc, b, id, "bonding")
      OBVIOUS
    <3>2. /\ Typed(got) /\ Same({"buf"}, alloc, got)
          /\ \A c \in Buffers : c # b => got.buf[c] = alloc.buf[c]
          /\ got.buf[b].peer = id /\ got.buf[b].data = "bonding"
          /\ got.buf[b] # Unused
          /\ Stored(got.buf[b]) <=> Stored(alloc.buf[b])
          /\ alloc.buf[b] = Unused =>
                /\ got.buf[b] = Taken(id, "bonding")
                /\ got.buf = [alloc.buf EXCEPT ![b] = Taken(id, "bonding")]
                /\ \A n \in 1..2 : QueueOK(alloc, n) => QueueOK(got, n)
      <4>1. "bonding" \in Datas /\ b \in Buffers /\ Typed(alloc)
        BY <2>4, <2>6, <2>9 DEF Datas
      <4> QED
        BY ONLY <3>1, <4>1, <2>2, BufTakeDoes
    <3>3. Same({"used", "buf"}, s, got) /\ \A c \in Buffers : c # b => got.buf[c] = s.buf[c]
      BY <3>2, <2>4 DEF Same
    <3>4. ASSUME s.proc # "pairing", NEW n \in 1..2, Core(s, n)
          PROVE  s.buf[b] = Unused /\ got.buf[b] = Taken(id, "bonding") /\ QueueOK(got, n)
      <4>1. s.buf[b] = Unused
        BY <3>4, <2>4, <2>6, <2>9, FreeOnes DEF Core
      <4> QED
        BY <4>1, <3>2, <3>4, <2>4, <2>7 DEF Core
    <3>5. CASE ~HasRoom(got) /\ ~got.buf[b].prepared
      <4>1. PICK w : w = PeerFree(got, id)
        OBVIOUS
      <4>2. PICK v : v = WithProc(w, "full")
        OBVIOUS
      <4>3. t = FdsGc(v)
        BY <1>2, <2>1, <2>3, <2>5, <2>9, <3>1, <3>5, <4>1, <4>2 DEF ParamsReply, WithProc
      <4>4. /\ Typed(v) /\ Same(ReplyFields, s, v) /\ v.proc = "full"
            /\ (~v.fault => ~s.fault) /\ Grows(s, v)
            /\ \A n \in 1..2 :
                  /\ ~v.fault /\ s.proc # "pairing" /\ s.link # "none"
                  /\ Core(s, n) /\ QueueOK(got, n)
                  /\ \A c \in Buffers : AfterRelease(got.buf[c], id) = s.buf[c]
                  => Core(v, n) /\ \A c \in Buffers : v.buf[c] = s.buf[c]
        BY <4>1, <4>2, <3>2, <3>3, <2>2, ReplyRefused
      <4>5. /\ Typed(t) /\ Same({"queue", "fault"}, v, t)
            /\ Grows(v, t)
            /\ ~t.fault =>
                 /\ ~v.fault /\ Len(t.queue) = Len(v.queue) + 1
                 /\ \A n \in 1..2 : Len(v.queue) >= n - 1 =>
                       HasGc(t, n) /\ (QueueOK(v, n) => QueueOK(t, n))
        BY <4>3, <4>4, FdsGcDoes
      <4>6. Same(ReplyFields, s, t)
        BY <4>4, <4>5 DEF Same, ReplyFields
      <4>7. /\ t.buf = v.buf /\ t.proc = "full" /\ t.peer = v.peer /\ t.link = v.link
            /\ t.deleted = v.deleted /\ t.ongoing = v.ongoing /\ t.pending = v.pending
        BY <4>4, <4>5 DEF Same, Fields
      <4>8. (~t.fault => ~s.fault) /\ Grows(s, t)
        BY <4>4, <4>5, GrowsTrans
      <4>9. ASSUME ~t.fault, s.proc # "pairing", s.link # "none", NEW n \in 1..2, Core(s, n)
            PROVE  Replied(s, t, n)
        <5>1. s.buf[b] = Unused /\ got.buf[b] = Taken(id, "bonding") /\ QueueOK(got, n)
          BY <3>4, <4>9
        <5>2. ASSUME NEW c \in Buffers PROVE AfterRelease(got.buf[c], id) = s.buf[c]
          <6>1. CASE c = b
            BY <6>1, <5>1, TakenIs DEF AfterRelease
          <6>2. CASE c # b
            <7>1. got.buf[c] = s.buf[c] /\ (~Stored(s.buf[c]) => s.buf[c] = Unused)
              BY <6>2, <3>3, <4>9, FreeOnes DEF Core
            <7> QED
              BY <7>1 DEF AfterRelease
          <6> QED
            BY <6>1, <6>2
        <5>3. Core(v, n) /\ \A c \in Buffers : v.buf[c] = s.buf[c]
          BY <5>1, <5>2, <4>4, <4>5, <4>9
        <5>4. HasGc(t, n) /\ QueueOK(t, n) /\ Len(t.queue) >= n - 1
          BY <5>3, <4>4, <4>5, <4>9, Types DEF Core
        <5>5. BuffersOK(t) /\ DeletionsGoOn(t) /\ PendingOK(t)
          BY <5>3, <4>4, <4>7, BuffersFrame DEF Core, DeletionsGoOn, PendingOK
        <5> QED
          BY <5>3, <5>4, <5>5, <4>7 DEF Core, Replied
      <4> QED
        BY <4>5, <4>6, <4>8, <4>9
    <3>6. CASE (HasRoom(got) \/ got.buf[b].prepared) /\ s.link = "gone"
      <4>1. t = [s EXCEPT !.fault = TRUE]
        BY <1>2, <2>1, <2>3, <2>5, <2>9, <3>1, <3>6 DEF ParamsReply, Fault
      <4>2. Typed(t) /\ Same({"fault"}, s, t) /\ t.fault
        BY <4>1 DEF Typed, States, Same, Fields
      <4> QED
        BY <4>2, SameQueue DEF Same, ReplyFields
    <3>7. CASE (HasRoom(got) \/ got.buf[b].prepared) /\ s.link # "gone"
      <4>1. PICK w : w = Prepare(got, b)
        OBVIOUS
      <4>2. t = WithPairing(w, id)
        BY <1>2, <2>1, <2>3, <2>5, <2>9, <3>1, <3>7, <4>1 DEF ParamsReply, WithPairing
      <4>3. /\ Typed(t) /\ Same(ReplyFields, s, t)
            /\ (~t.fault => ~s.fault) /\ Grows(s, t)
            /\ \A n \in 1..2 :
                  /\ s.link \notin {"none", "gone"}
                  /\ s.proc # "pairing" /\ Core(s, n) /\ s.buf[b] = Unused
                  /\ got.buf[b] = Taken(id, "bonding")
                  => Replied(s, t, n)
        BY <4>1, <4>2, <3>2, <3>3, <3>7, <2>2, <2>6, <2>9, ReplyGranted
      <4> QED
        BY <4>3, <3>4, <3>7
    <3> QED
      BY <3>5, <3>6, <3>7
  <2> QED
    BY <2>8, <2>9
<1> QED
    BY <1>1, <1>2

\* the end of an operation: a pairing that waited asks again
LEMMA SmPdbEventDoes ==
    ASSUME NEW s, Typed(s), NEW kind, NEW t, t = SmPdbEvent(s, kind)
    PROVE  /\ Typed(t) /\ Same(ReplyFields, s, t)
           /\ (~t.fault => ~s.fault) /\ Grows(s, t)
           /\ \A n \in 1..2 : ~t.fault /\ Core(s, n) =>
                 /\ Core(t, n)
                 /\ \A b \in Buffers :
                       Stored(s.buf[b]) \/ Stored(t.buf[b]) => t.buf[b] = s.buf[b]
                 /\ t.proc = "busy" => \A b \in Buffers : Stored(t.buf[b])
                 /\ t.proc = "full" => HasGc(t, n) \/ (s.proc = "full" /\ kind # "gc")
<1>1. PICK u : u = IF kind = "gc" /\ s.proc = "full" THEN ParamsReply(s) ELSE s
    OBVIOUS
<1>2. t = IF u.proc = "busy" THEN ParamsReply(u) ELSE u
    BY <1>1 DEF SmPdbEvent
<1>3. /\ Typed(u) /\ Same(ReplyFields, s, u)
      /\ (~u.fault => ~s.fault) /\ Grows(s, u)
      /\ \A n \in 1..2 : ~u.fault /\ Core(s, n) =>
            \/ u = s /\ ~(kind = "gc" /\ s.proc = "full")
            \/ Replied(s, u, n)
  <2>1. CASE ~(kind = "gc" /\ s.proc = "full")
    BY <2>1, <1>1, GrowsRefl DEF Same
  <2>2. CASE kind = "gc" /\ s.proc = "full"
    <3>1. u = ParamsReply(s)
      BY <2>2, <1>1
    <3>2. \A n : Core(s, n) => s.link # "none" /\ s.proc # "pairing"
      BY <2>2 DEF Core, BuffersOK
    <3> QED
      BY <3>1, <3>2, ParamsReplyDoes
  <2> QED
    BY <2>1, <2>2
<1>4. CASE u.proc # "busy"
  <2>1. t = u
    BY <1>2, <1>4
  <2> QED
    BY <2>1, <1>3, <1>4 DEF Replied
<1>5. CASE u.proc = "busy"
  <2>1. t = ParamsReply(u)
    BY <1>2, <1>5
  <2>2. /\ Typed(t) /\ Same(ReplyFields, u, t)
        /\ (~t.fault => ~u.fault) /\ Grows(u, t)
        /\ \A n \in 1..2 :
              ~t.fault /\ u.proc # "pairing" /\ u.link # "none" /\ Core(u, n)
              => Replied(u, t, n)
    BY <2>1, <1>3, ParamsReplyDoes
  <2>3. Same(ReplyFields, s, t)
    BY <2>2, <1>3 DEF Same
  <2>4. (~t.fault => ~s.fault) /\ Grows(s, t)
    BY <2>2, <1>3, GrowsTrans
  <2>5. ASSUME NEW n \in 1..2, ~t.fault, Core(s, n)
        PROVE  /\ Replied(u, t, n)
               /\ \A b \in Buffers :
                     Stored(s.buf[b]) \/ Stored(u.buf[b]) => u.buf[b] = s.buf[b]
    <3>1. Core(u, n)
      BY <2>2, <2>5, <1>3 DEF Replied
    <3>2. u.link # "none"
      BY <3>1, <1>5 DEF Core, BuffersOK
    <3> QED
      BY <3>1, <3>2, <2>2, <2>5, <1>3, <1>5 DEF Replied
  <2>6. ASSUME NEW n \in 1..2, ~t.fault, Core(s, n)
        PROVE  /\ Core(t, n)
               /\ \A b \in Buffers :
                     Stored(s.buf[b]) \/ Stored(t.buf[b]) => t.buf[b] = s.buf[b]
               /\ t.proc = "busy" => \A b \in Buffers : Stored(t.buf[b])
               /\ t.proc = "full" => HasGc(t, n)
    BY <2>5, <2>6 DEF Replied
  <2> QED
    BY <2>2, <2>3, <2>4, <2>6
<1> QED
    BY <1>4, <1>5

-------------------------------------------------------------------------------
(* The configuration of a client                                             *)

LocalFields == {"reserved", "queue", "buf", "pending", "update", "lock", "fault"}

\* What was handed over stays; what is handed over now has its write, or a
\* collection.
Hands(s, t, n) ==
    \A b \in Buffers :
        /\ Stored(s.buf[b]) => t.buf[b] = s.buf[b]
        /\ ~Stored(s.buf[b]) /\ Stored(t.buf[b]) =>
              ~t.buf[b].busy /\ (t.buf[b].full => HasGc(t, n))

WithUpdate(s, update)     == [s EXCEPT !.update = update]
WithLock(s, update, lock) == [s EXCEPT !.update = update, !.lock = lock]

LEMMA FlagsFrame ==
    ASSUME NEW s, NEW t, Typed(s), Typed(t), Same({"update", "lock"}, s, t)
    PROVE  Grows(s, t) /\ \A n \in 1..2 : Core(s, n) => Core(t, n)
<1>1. /\ t.queue = s.queue /\ t.buf = s.buf /\ t.proc = s.proc /\ t.link = s.link
      /\ t.peer = s.peer /\ t.reserved = s.reserved /\ t.ongoing = s.ongoing
      /\ t.failed = s.failed /\ t.deleted = s.deleted /\ t.pending = s.pending
    BY DEF Same, Fields
<1>2. ASSUME NEW n \in 1..2, Core(s, n) PROVE Core(t, n)
  <2>1. BuffersOK(t)
    BY <1>1, <1>2, BuffersFrame DEF Core
  <2>2. QueueOK(t, n)
    BY <1>1, <1>2, QueueFrame DEF Core
  <2> QED
    BY <2>1, <2>2, <1>1, <1>2 DEF Core, DeletionsGoOn, PendingOK
<1> QED
    BY <1>1, <1>2, GrowsRefl

LEMMA FlagsDo ==
    ASSUME NEW s, Typed(s), NEW update \in BOOLEAN, NEW lock \in BOOLEAN,
           NEW t, t = WithLock(s, update, lock)
    PROVE  /\ Typed(t) /\ Same({"update", "lock"}, s, t)
           /\ t.update = update /\ t.lock = lock /\ Grows(s, t)
           /\ \A n \in 1..2 : Core(s, n) => Core(t, n)
           /\ \A n \in 1..2 : HasGc(s, n) => HasGc(t, n)
<1>1. /\ Typed(t) /\ Same({"update", "lock"}, s, t) /\ t.update = update /\ t.lock = lock
    BY DEF WithLock, Typed, States, Same, Fields
<1>2. Grows(s, t) /\ \A n \in 1..2 : Core(s, n) => Core(t, n)
    BY <1>1, FlagsFrame
<1>3. t.queue = s.queue
    BY <1>1 DEF Same, Fields
<1> QED
    BY <1>1, <1>2, <1>3 DEF HasGc

\* if no buffer is free, one is handed over
LEMMA NoneFree ==
    ASSUME NEW s, BuffersOK(s), FreeBuffers(s) = {}
    PROVE  SomeStored(s)
<1>1. 1 \in Buffers /\ 2 \in Buffers
    BY PeerDatabaseAssumption DEF Buffers
<1>2. ASSUME NEW b \in Buffers, ~Stored(s.buf[b]) PROVE IsPrepared(s, b)
  <2>1. s.buf[b] # Unused
    <3>1. s.buf[b] = Unused => b \in FreeBuffers(s)
      BY <1>2 DEF FreeBuffers, Open, Unused
    <3> QED
      BY <3>1
  <2> QED
    BY <2>1, <1>2 DEF BuffersOK
<1> QED
    BY <1>1, <1>2 DEF BuffersOK, SomeStored

\* gscm_local_db_cache_update
LEMMA LocalDbCacheUpdateDoes ==
    ASSUME NEW s, Typed(s), NEW t, t = LocalDbCacheUpdate(s)
    PROVE  /\ Typed(t) /\ Same(LocalFields, s, t)
           /\ (~t.fault => ~s.fault) /\ Grows(s, t)
           /\ \A n \in 1..2 : ~t.fault /\ Core(s, n) =>
                 /\ Core(t, n) /\ Hands(s, t, n)
                 /\ t.update => SomeStored(t)
                 /\ t.lock => \/ s.lock
                              \/ \E b \in Buffers : t.buf[b].data = "local" /\ Stored(t.buf[b])
<1>1. PICK b : b = BufOf(s, s.peer, "local")
    OBVIOUS
<1>2. /\ b = 0 => FreeBuffers(s) = {}
      /\ b # 0 => /\ b \in Open(s, s.peer, "local") \cup FreeBuffers(s)
                  /\ b \in Buffers /\ ~Stored(s.buf[b])
    BY <1>1, BufOfIs
<1>3. s.lock \in BOOLEAN /\ s.used \subseteq Peers
    BY DEF Typed, States
<1>4. CASE s.peer = PeerIdInvalid
  <2>1. t = WithLock(s, FALSE, s.lock)
    <3>1. t = [s EXCEPT !.update = FALSE]
      <4>1. s.peer \notin s.used
        BY <1>3, <1>4, Types
      <4> QED
        BY <1>4, <4>1 DEF LocalDbCacheUpdate
    <3>2. s \in States
      BY DEF Typed
    <3> QED
      BY ONLY <3>1, <3>2 DEF WithLock, States
  <2>2. /\ Typed(t) /\ Same({"update", "lock"}, s, t)
        /\ t.update = FALSE /\ t.lock = s.lock /\ Grows(s, t)
        /\ \A n \in 1..2 : Core(s, n) => Core(t, n)
    BY <2>1, <1>3, FlagsDo
  <2>3. Same(LocalFields, s, t)
    BY <2>2 DEF Same, LocalFields
  <2>4. t.buf = s.buf /\ t.fault = s.fault
    BY <2>2 DEF Same, Fields
  <2> QED
    BY <2>2, <2>3, <2>4 DEF Hands
<1>5. CASE s.peer # PeerIdInvalid /\ s.peer \notin s.used
  <2>1. t = [s EXCEPT !.fault = TRUE]
    BY <1>5 DEF LocalDbCacheUpdate, Fault
  <2>2. Typed(t) /\ Same({"fault"}, s, t) /\ t.fault
    BY <2>1 DEF Typed, States, Same, Fields
  <2> QED
    BY <2>2, SameQueue DEF Same, LocalFields
<1>6. CASE s.peer # PeerIdInvalid /\ s.peer \in s.used /\ b = 0
  <2>1. t = s
    BY <1>1, <1>6 DEF LocalDbCacheUpdate
  <2>2. \A n : Core(s, n) => SomeStored(s)
    BY <1>2, <1>6, NoneFree DEF Core
  <2>3. Same(LocalFields, s, t) /\ Grows(s, t) /\ \A n : Hands(s, t, n)
    BY <2>1, GrowsRefl DEF Same, Hands
  <2> QED
    BY <2>1, <2>2, <2>3
<1>7. ASSUME s.peer \in Peers, b # 0, NEW n \in 1..2, Core(s, n) PROVE s.buf[b] = Unused
  <2>1. SUFFICES ASSUME IsPrepared(s, b) PROVE FALSE
    BY <1>2, <1>7 DEF Core, BuffersOK
  <2>2. s.buf[b].data = "bonding" /\ s.buf[b].peer = s.peer
    BY <2>1, IsPreparedIs
  <2>3. b \in Open(s, s.peer, "local") \cup FreeBuffers(s)
    BY <1>2, <1>7
  <2>4. s.buf[b].data \in {"local", "none"}
    BY <2>3 DEF Open, FreeBuffers
  <2> QED
    BY <2>2, <2>4
<1>8. CASE s.peer # PeerIdInvalid /\ s.peer \in s.used /\ b # 0 /\ s.link = "gone"
  <2>1. t = [s EXCEPT !.buf[b] = Unused, !.update = FALSE]
    BY <1>1, <1>8 DEF LocalDbCacheUpdate
  <2>2. PICK u : u = [s EXCEPT !.buf = [s.buf EXCEPT ![b] = Unused]]
    OBVIOUS
  <2>3. t = WithLock(u, FALSE, s.lock)
    BY <2>1, <2>2 DEF WithLock, Typed, States
  <2>4. Typed(u) /\ Same({"buf"}, s, u) /\ u.buf = [s.buf EXCEPT ![b] = Unused]
    <3>1. Unused \in BufferRecords /\ s \in States /\ b \in Buffers
      BY <1>2, <1>8 DEF BufferRecords, Typed
    <3>2. u \in States
      BY <2>2, <3>1, BufTyped
    <3> QED
      BY <2>2, <3>2 DEF Typed, States, Same, Fields
  <2>5. /\ Typed(t) /\ Same({"update", "lock"}, u, t)
        /\ t.update = FALSE /\ t.lock = s.lock /\ Grows(u, t)
        /\ \A n \in 1..2 : Core(u, n) => Core(t, n)
    BY <2>3, <2>4, <1>3, FlagsDo
  <2>6. Same(LocalFields, s, t)
    BY <2>4, <2>5 DEF Same, LocalFields
  <2>7. t.fault = s.fault /\ u.queue = s.queue /\ t.buf = u.buf
    BY <2>4, <2>5 DEF Same, Fields
  <2>8. ASSUME NEW n \in 1..2, Core(s, n) PROVE Core(t, n) /\ t.buf = s.buf
    <3>1. u.buf = s.buf
      BY <2>4, <1>7, <1>8, <1>3, <2>8, Types
    <3>2. u = s
      BY <2>2, <3>1, <2>4 DEF Typed, States
    <3> QED
      BY <3>2, <2>5, <2>7, <2>8
  <2> QED
    BY <2>5, <2>6, <2>7, <2>8 DEF Hands, Grows
<1>9. CASE s.peer # PeerIdInvalid /\ s.peer \in s.used /\ b # 0 /\ s.link # "gone"
  <2>1. PICK got : got = BufTake(s, b, s.peer, "local")
    OBVIOUS
  <2>2. PICK out : out = StoreInEvent(got, b)
    OBVIOUS
  <2>3. /\ Typed(got) /\ Same({"buf"}, s, got)
        /\ \A c \in Buffers : c # b => got.buf[c] = s.buf[c]
        /\ got.buf[b].peer = s.peer /\ got.buf[b].data = "local"
        /\ got.buf[b] # Unused
        /\ Stored(got.buf[b]) <=> Stored(s.buf[b])
        /\ s.buf[b] = Unused =>
              /\ got.buf[b] = Taken(s.peer, "local")
              /\ got.buf = [s.buf EXCEPT ![b] = Taken(s.peer, "local")]
              /\ \A n \in 1..2 : QueueOK(s, n) => QueueOK(got, n)
    <3>1. "local" \in Datas /\ b \in Buffers /\ s.peer \in Peers
      BY <1>2, <1>3, <1>9 DEF Datas
    <3> QED
      BY <2>1, <3>1, BufTakeDoes
  <2>4. /\ Typed(out) /\ Same(StoreFields, got, out)
        /\ BufferOnly(got, out, b) /\ Stored(out.buf[b]) /\ ~out.buf[b].busy
        /\ got.pending => out.pending
        /\ out.buf[b].full => out.pending
        /\ Grows(got, out)
        /\ ~out.fault =>
              /\ ~got.fault
              /\ \A n \in 1..2 : Len(got.queue) >= n - 1 =>
                    /\ out.buf[b].full => HasGc(out, n)
                    /\ /\ QueueOK(got, n) /\ got.buf[b].token = 0
                       /\ out.buf[b].full /\ ~got.failed => ~got.buf[b].prepared
                       => QueueOK(out, n)
    BY <2>2, <2>3, <1>2, <1>9, StoreInEventDoes DEF StoreFields
  <2>5. out.buf[b].full \in BOOLEAN
    BY <2>4, <1>2, <1>9, BufferType DEF BufferRecords, Unused
  <2>6. t = WithLock(out, FALSE, ~out.buf[b].full)
    BY <1>1, <1>9, <2>1, <2>2, <2>4 DEF LocalDbCacheUpdate, WithLock, Typed, States
  <2>7. /\ Typed(t) /\ Same({"update", "lock"}, out, t)
        /\ t.update = FALSE /\ t.lock = (~out.buf[b].full) /\ Grows(out, t)
        /\ \A n \in 1..2 : Core(out, n) => Core(t, n)
        /\ \A n \in 1..2 : HasGc(out, n) => HasGc(t, n)
    BY <2>4, <2>5, <2>6, FlagsDo
  <2>8. Same(LocalFields, s, t) /\ Same(LocalFields, s, out)
    BY <2>3, <2>4, <2>7 DEF Same, LocalFields, StoreFields
  <2>9. t.buf = out.buf /\ t.fault = out.fault /\ got.fault = s.fault /\ got.queue = s.queue
    BY <2>3, <2>7 DEF Same, Fields
  <2>10. /\ got.pending = s.pending /\ out.proc = s.proc /\ out.peer = s.peer
         /\ out.link = s.link /\ out.deleted = s.deleted /\ out.ongoing = s.ongoing
    BY <2>3, <2>4 DEF Same, Fields, StoreFields
  <2>11. (~t.fault => ~s.fault) /\ Grows(s, t)
    BY <2>4, <2>7, <2>9 DEF Grows
  <2>12. \A c \in Buffers : c # b => out.buf[c] = s.buf[c]
    BY <2>3, <2>4 DEF BufferOnly
  <2>13. out.buf[b].data = "local" /\ Stored(out.buf[b]) /\ b \in Buffers
    BY <2>3, <2>4, <1>2, <1>9 DEF BufferOnly
  <2>14. ASSUME NEW n \in 1..2, ~t.fault, Core(s, n)
         PROVE  Core(t, n) /\ Hands(s, t, n)
    <3>1. s.buf[b] = Unused /\ got.buf[b] = Taken(s.peer, "local") /\ QueueOK(got, n)
      BY <2>3, <2>14, <1>3, <1>7, <1>9 DEF Core
    <3>2. got.buf[b].token = 0 /\ ~got.buf[b].prepared
      BY <3>1, TakenIs
    <3>3. Len(got.queue) >= n - 1 /\ ~out.fault
      BY <2>9, <2>14 DEF Core
    <3>4. QueueOK(out, n) /\ (out.buf[b].full => HasGc(out, n))
      BY <2>4, <3>1, <3>2, <3>3
    <3>5. BuffersOK(out)
      <4>1. \A c \in Buffers : IsPrepared(out, c) => c # b /\ IsPrepared(s, c)
        BY <2>10, <2>12, <2>13, IsPreparedIs DEF IsPrepared
      <4>2. \A c \in Buffers : IsPrepared(s, c) => c # b /\ IsPrepared(out, c)
        BY <2>10, <2>12, <3>1, IsPreparedIs DEF IsPrepared
      <4>3. \A c \in Buffers : ~Stored(out.buf[c]) => c # b /\ out.buf[c] = s.buf[c]
        BY <2>12, <2>13
      <4> QED
        BY <4>1, <4>2, <4>3, <2>10, <2>14 DEF Core, BuffersOK
    <3>6. PendingOK(out)
      BY <2>4, <2>10, <2>12, <2>14 DEF Core, PendingOK
    <3>7. Len(out.queue) >= n - 1
      BY <2>4, <2>9, <3>3, Types DEF Grows
    <3>8. Core(out, n)
      BY <3>4, <3>5, <3>6, <3>7, <2>10, <2>14 DEF Core, DeletionsGoOn
    <3>9. Hands(s, out, n)
      BY <3>4, <2>4, <2>12, <1>2, <1>9 DEF Hands
    <3> QED
      BY <3>8, <3>9, <2>7, <2>9 DEF Hands
  <2> QED
    BY <2>7, <2>8, <2>9, <2>11, <2>13, <2>14
<1> QED
    BY <1>3, <1>4, <1>5, <1>6, <1>8, <1>9

\* update_pending_flags_check
Checked(s, t, n) ==
    /\ Core(t, n) /\ Hands(s, t, n) /\ LockHeld(t)
    /\ t.update /\ t.link # "none" => SomeStored(t)

LEMMA UpdatePendingCheckDoes ==
    ASSUME NEW s, Typed(s), NEW t, t = UpdatePendingCheck(s)
    PROVE  /\ Typed(t) /\ Same(LocalFields, s, t)
           /\ (~t.fault => ~s.fault) /\ Grows(s, t)
           /\ \A n \in 1..2 : ~t.fault /\ Core(s, n) /\ LockHeld(s) => Checked(s, t, n)
<1>1. CASE s.link # "none" /\ s.update /\ ~s.lock
  <2>1. t = LocalDbCacheUpdate(s)
    BY <1>1 DEF UpdatePendingCheck
  <2>2. /\ Typed(t) /\ Same(LocalFields, s, t)
        /\ (~t.fault => ~s.fault) /\ Grows(s, t)
        /\ \A n \in 1..2 : ~t.fault /\ Core(s, n) =>
              /\ Core(t, n) /\ Hands(s, t, n)
              /\ t.update => SomeStored(t)
              /\ t.lock => \/ s.lock
                           \/ \E b \in Buffers : t.buf[b].data = "local" /\ Stored(t.buf[b])
    BY <2>1, LocalDbCacheUpdateDoes
  <2> QED
    BY <2>2, <1>1 DEF Checked, LockHeld
<1>2. CASE ~(s.link # "none" /\ s.update /\ ~s.lock)
  <2>1. t = s
    BY <1>2 DEF UpdatePendingCheck
  <2>2. Same(LocalFields, s, t) /\ Grows(s, t) /\ \A n : Hands(s, t, n)
    BY <2>1, GrowsRefl DEF Same, Hands
  <2>3. t.update /\ t.link # "none" /\ LockHeld(t) => SomeStored(t)
    BY <2>1, <1>2 DEF LockHeld, SomeStored
  <2> QED
    BY <2>1, <2>2, <2>3 DEF Checked
<1> QED
    BY <1>1, <1>2

\* gcm_pdb_evt_handler: the store of a configuration releases the lock
LEMMA GcmPdbEventDoes ==
    ASSUME NEW s, Typed(s), NEW kind, NEW id, NEW data, NEW t, t = GcmPdbEvent(s, kind, id, data)
    PROVE  /\ Typed(t) /\ Same(LocalFields, s, t)
           /\ (~t.fault => ~s.fault) /\ Grows(s, t)
           /\ \A n \in 1..2 :
                 ~t.fault /\ Core(s, n) /\ (LockHeld(s) \/ (kind = "stored" /\ data = "local"))
                 => Checked(s, t, n)
<1>1. PICK u : u = CASE kind = "stored" /\ data = "bonding" /\ id = s.peer ->
                           [s EXCEPT !.update = TRUE]
                     [] kind = "stored" /\ data = "local" -> [s EXCEPT !.lock = FALSE]
                     [] OTHER -> s
    OBVIOUS
<1>2. t = UpdatePendingCheck(u)
    BY <1>1 DEF GcmPdbEvent
<1>3. s.lock \in BOOLEAN /\ s.update \in BOOLEAN
    BY DEF Typed, States
<1>4. /\ Typed(u) /\ Same({"update", "lock"}, s, u) /\ Grows(s, u)
      /\ \A n \in 1..2 : Core(s, n) => Core(u, n)
      /\ LockHeld(s) \/ (kind = "stored" /\ data = "local") => LockHeld(u)
  <2>1. CASE kind = "stored" /\ data = "bonding" /\ id = s.peer
    <3>1. u = [s EXCEPT !.update = TRUE]
      BY <1>1, <2>1
    <3>2. /\ Typed(u) /\ Same({"update", "lock"}, s, u) /\ u.lock = s.lock
      BY ONLY <3>1, Typed(s) DEF Typed, States, Same, Fields
    <3>3. u.buf = s.buf
      BY <3>2 DEF Same, Fields
    <3> QED
      BY <3>2, <3>3, <2>1, FlagsFrame DEF LockHeld
  <2>2. CASE ~(kind = "stored" /\ data = "bonding" /\ id = s.peer)
             /\ kind = "stored" /\ data = "local"
    <3>1. u = [s EXCEPT !.lock = FALSE]
      BY <1>1, <2>2
    <3>2. /\ Typed(u) /\ Same({"update", "lock"}, s, u) /\ ~u.lock
      BY ONLY <3>1, Typed(s) DEF Typed, States, Same, Fields
    <3> QED
      BY <3>2, FlagsFrame DEF LockHeld
  <2>3. CASE /\ ~(kind = "stored" /\ data = "bonding" /\ id = s.peer)
             /\ ~(kind = "stored" /\ data = "local")
    <3>1. u = s
      BY <1>1, <2>3
    <3> QED
      BY <3>1, <2>3, GrowsRefl DEF Same
  <2> QED
    BY <2>1, <2>2, <2>3
<1>5. u.buf = s.buf /\ u.fault = s.fault
    BY <1>4 DEF Same, Fields
<1>6. /\ Typed(t) /\ Same(LocalFields, u, t)
      /\ (~t.fault => ~u.fault) /\ Grows(u, t)
      /\ \A n \in 1..2 : ~t.fault /\ Core(u, n) /\ LockHeld(u) => Checked(u, t, n)
    BY <1>2, <1>4, UpdatePendingCheckDoes
<1>7. Same(LocalFields, s, t)
    BY <1>4, <1>6 DEF Same, LocalFields
<1>8. (~t.fault => ~s.fault) /\ Grows(s, t)
    BY <1>4, <1>5, <1>6, GrowsTrans
<1>9. ASSUME NEW n \in 1..2, Checked(u, t, n) PROVE Checked(s, t, n)
    BY <1>5, <1>9 DEF Checked, Hands
<1> QED
    BY <1>4, <1>6, <1>7, <1>8, <1>9

-------------------------------------------------------------------------------
(* The end of an operation                                                   *)

\* The buffer whose write ends is free, or it is to be stored again; the others
\* wait for the writes behind.
WriteEnded(s, t, op, success) ==
    \E b \in Buffers :
        /\ s.buf[b].token = op.token /\ s.buf[b].data = op.data /\ Stored(s.buf[b])
        /\ \A c \in Buffers : c # b => t.buf[c] = s.buf[c]
        /\ success => t.buf[b] = Unused
        /\ ~success => /\ t.buf[b].busy /\ ~t.buf[b].full
                       /\ t.buf[b].data = s.buf[b].data

LEMMA WriteEndsDoes ==
    ASSUME NEW s, Typed(s), Len(s.queue) >= 1, NEW op, op = s.queue[1], IsWrite(op),
           NEW success \in BOOLEAN, NEW t, t = WriteEnds(s, op, success)
    PROVE  /\ Typed(t) /\ Same({"buf", "pending"}, s, t)
           /\ /\ BuffersOK(s) /\ TokensOK(s, 1) /\ DeletionsOK(s, 1) /\ PendingOK(s)
              /\ SpaceOK(s, 2) /\ (~s.failed => success)
              => /\ BuffersOK(t) /\ QueueOK(t, 2) /\ PendingOK(t)
                 /\ WriteEnded(s, t, op, success)
<1> DEFINE W == BuffersOf(s, op)
           b == Min(W)
<1>1. op.token # 0 /\ 1 \in 1..Len(s.queue)
  <2>1. 1 \in 1..Len(s.queue)
    BY Types
  <2> QED
    BY <2>1, TokenOfWrite
<1>2. W = {x \in Buffers : s.buf[x].token = op.token}
    BY DEF BuffersOf
<1>3. W # {} => b \in Buffers /\ s.buf[b].token = op.token /\ s.buf[b] # Unused
                /\ Stored(s.buf[b])
  <2>1. SUFFICES ASSUME W # {} PROVE b \in W
    BY <2>1, <1>1, <1>2 DEF Unused, Stored, StoreTokenInvalid
  <2>2. W \subseteq Nat
    BY <1>2 DEF Buffers
  <2> HIDE DEF W
  <2> QED
    BY <2>1, <2>2, MinIn
<1>4. CASE W = {}
  <2>1. t = s
    BY <1>4 DEF WriteEnds
  <2>2. ASSUME TokensOK(s, 1) PROVE FALSE
    <3>1. PICK c \in Buffers : WaitsFor(s, c, 1)
      BY <1>1, <2>2 DEF TokensOK
    <3> QED
      BY <3>1, <1>2, <1>4 DEF WaitsFor
  <2> QED
    BY <2>1, <2>2 DEF Same
<1>5. CASE W # {}
  <2> HIDE DEF W
  <2>1. b \in Buffers /\ s.buf[b].token = op.token /\ s.buf[b] # Unused /\ Stored(s.buf[b])
    BY <1>3, <1>5
  <2>2. PICK r : r = IF success THEN Unused
                     ELSE [s.buf[b] EXCEPT !.token = StoreTokenInvalid, !.busy = TRUE]
    OBVIOUS
  <2>3. /\ r \in BufferRecords /\ r.token = 0
        /\ success => r = Unused
        /\ ~success => r.busy /\ r.full = s.buf[b].full /\ r.data = s.buf[b].data
    <3>1. s.buf[b] \in BufferRecords
      BY <2>1, BufferType
    <3>2. CASE success
      BY <3>2, <2>2 DEF BufferRecords, Unused, StoreTokenInvalid
    <3>3. CASE ~success
      BY <3>1, <3>3, <2>1, <2>2, RecordChange DEF StoreTokenInvalid
    <3> QED
      BY <3>2, <3>3
  <2>4. /\ Typed(t) /\ Same({"buf", "pending"}, s, t) /\ t.buf = [s.buf EXCEPT ![b] = r]
        /\ s.pending => t.pending
        /\ ~success => t.pending
    <3>1. CASE success
      <4>1. t = [s EXCEPT !.buf = [s.buf EXCEPT ![b] = r]]
        BY <1>5, <2>2, <3>1 DEF WriteEnds, W, Typed, States
      <4>2. s \in States
        BY DEF Typed
      <4>3. t \in States
        BY <4>1, <4>2, <2>1, <2>3, BufTyped
      <4> QED
        BY <4>1, <4>3, <3>1 DEF Typed, States, Same, Fields
    <3>2. CASE ~success
      <4>1. t = [s EXCEPT !.buf = [s.buf EXCEPT ![b] = r], !.pending = TRUE]
        BY <1>5, <2>2, <3>2 DEF WriteEnds, W, Typed, States
      <4>2. s \in States
        BY DEF Typed
      <4>3. t \in States
        BY <4>1, <4>2, <2>1, <2>3, BufferTyped
      <4> QED
        BY <4>1, <4>3, <3>2 DEF Typed, States, Same, Fields
    <3> QED
      BY <3>1, <3>2
  <2> HIDE DEF b
  <2>5. t.buf[b] = r /\ \A c \in Buffers : c # b => t.buf[c] = s.buf[c]
    BY <2>1, <2>4, Types
  <2>6. /\ t.queue = s.queue /\ t.ongoing = s.ongoing /\ t.failed = s.failed
        /\ t.reserved = s.reserved /\ t.proc = s.proc /\ t.peer = s.peer /\ t.link = s.link
    BY <2>4 DEF Same, Fields
  <2>7. ASSUME BuffersOK(s), TokensOK(s, 1), DeletionsOK(s, 1), PendingOK(s),
               SpaceOK(s, 2), ~s.failed => success
        PROVE  /\ BuffersOK(t) /\ QueueOK(t, 2) /\ PendingOK(t)
               /\ WriteEnded(s, t, op, success)
    <3>1. ~s.buf[b].busy /\ ~s.buf[b].full /\ \A c \in Buffers : s.buf[c].token = op.token => c = b
      BY <2>1, <2>7, <1>1 DEF TokensOK
    <3>2. WaitsFor(s, b, 1)
      BY <3>1, <1>1, <2>7 DEF TokensOK, WaitsFor
    <3>3. WriteEnded(s, t, op, success)
      BY <3>1, <3>2, <2>1, <2>3, <2>5 DEF WriteEnded, WaitsFor
    <3>4. PendingOK(t)
      BY <2>3, <2>4, <2>5, <2>7, UnusedIs DEF PendingOK, Stored
    <3>5. BuffersOK(t)
      <4>1. r = Unused \/ Stored(r)
        BY <2>3 DEF Stored
      <4>2. ~IsPrepared(s, b) /\ ~IsPrepared(t, b)
        BY <4>1, <2>1, <2>5, IsPreparedIs
      <4>3. \A c \in Buffers : IsPrepared(t, c) <=> IsPrepared(s, c)
        BY <4>2, <2>5, <2>6 DEF IsPrepared
      <4> QED
        BY <4>1, <4>3, <2>5, <2>6, <2>7 DEF BuffersOK
    <3>6. TokensOK(t, 2)
      <4>1. ASSUME NEW c \in Buffers, t.buf[c].token # 0
            PROVE  /\ ~t.buf[c].busy /\ ~t.buf[c].full
                   /\ \E k \in 2..Len(t.queue) : WaitsFor(t, c, k)
        <5>1. c # b /\ t.buf[c] = s.buf[c]
          BY <4>1, <2>3, <2>5
        <5>2. PICK k \in 1..Len(s.queue) : WaitsFor(s, c, k)
          BY <4>1, <5>1, <2>7 DEF TokensOK
        <5>3. k # 1
          BY <5>1, <5>2, <3>1 DEF WaitsFor
        <5>4. k \in 2..Len(t.queue) /\ WaitsFor(t, c, k)
          BY <5>1, <5>2, <5>3, <2>6, Types DEF WaitsFor
        <5> QED
          BY <4>1, <5>1, <5>4, <2>7 DEF TokensOK
      <4>2. ASSUME NEW k \in 2..Len(t.queue), IsWrite(t.queue[k])
            PROVE  \E c \in Buffers : WaitsFor(t, c, k)
        <5>1. k \in 1..Len(s.queue) /\ k # 1 /\ 1 \in 1..Len(s.queue)
          BY <2>6, <1>1, Types
        <5>2. PICK c \in Buffers : WaitsFor(s, c, k)
          BY <4>2, <5>1, <2>6, <2>7 DEF TokensOK
        <5>3. c # b
          BY <5>1, <5>2, <2>1, <2>7, <1>1 DEF WaitsFor, TokensOK
        <5> QED
          BY <5>2, <5>3, <2>5, <2>6 DEF WaitsFor
      <4>3. \A c, d \in Buffers : t.buf[c].token # 0 /\ t.buf[c].token = t.buf[d].token => c = d
        BY <2>3, <2>5, <2>7 DEF TokensOK
      <4>4. \A j, k \in 1..Len(t.queue) :
               t.queue[j].token # 0 /\ t.queue[j].token = t.queue[k].token => j = k
        BY <2>6, <2>7 DEF TokensOK
      <4> QED
        BY <4>1, <4>2, <4>3, <4>4 DEF TokensOK
    <3>7. DeletionsOK(t, 2)
      <4>1. ~IsDeletion(s, 1)
        BY DEF IsDeletion, IsWrite
      <4>2. \A k \in 1..Len(s.queue) : k = 1 \/ k \in 2..Len(s.queue)
        BY Types
      <4>3. \A k \in 2..Len(s.queue) : k \in 1..Len(s.queue)
        BY Types
      <4> QED
        BY <4>1, <4>2, <4>3, <2>6, <2>7 DEF DeletionsOK, IsDeletion
    <3>8. ASSUME ~t.failed
          PROVE  /\ t.reserved = Cardinality(WritesFrom(t, 2)) + Cardinality(PreparedOnes(t))
                 /\ \A c \in Buffers : ~t.buf[c].busy /\ (t.buf[c].full => ~t.buf[c].prepared)
      <4>1. success /\ ~s.failed
        BY <2>6, <2>7, <3>8
      <4>2. WritesFrom(t, 2) = WritesFrom(s, 2)
        BY <2>6 DEF WritesFrom
      <4>3. ~IsAside(r) /\ ~IsAside(s.buf[b])
        BY <4>1, <2>1, <2>3, UnusedIs DEF IsAside
      <4>4. Cardinality(PreparedOnes(t)) = Cardinality(PreparedOnes(s))
                + (IF IsAside(r) THEN 1 ELSE 0) - (IF IsAside(s.buf[b]) THEN 1 ELSE 0)
        BY <2>1, <2>4, PreparedChange
      <4>5. Cardinality(PreparedOnes(s)) \in Nat
        BY PreparedFinite
      <4>6. ~r.busy /\ ~r.full
        BY <4>1, <2>3, UnusedIs DEF Stored
      <4>7. /\ s.reserved = Cardinality(WritesFrom(s, 2)) + Cardinality(PreparedOnes(s))
            /\ \A c \in Buffers : ~s.buf[c].busy /\ (s.buf[c].full => ~s.buf[c].prepared)
        BY <4>1, <2>7 DEF SpaceOK
      <4>8. Cardinality(PreparedOnes(t)) = Cardinality(PreparedOnes(s))
        BY <4>3, <4>4, <4>5
      <4>9. t.reserved = Cardinality(WritesFrom(t, 2)) + Cardinality(PreparedOnes(t))
        BY <4>2, <4>7, <4>8, <2>6
      <4> QED
        BY <4>6, <4>7, <4>9, <2>5
    <3>9. SpaceOK(t, 2)
      BY <3>8 DEF SpaceOK
    <3> QED
      BY <3>3, <3>4, <3>5, <3>6, <3>7, <3>9 DEF QueueOK
  <2> QED
    BY <2>4, <2>7
<1> QED
    BY <1>4, <1>5

\* the first operation is not counted any more
LEMMA TokensShift ==
    ASSUME NEW s, Typed(s), TokensOK(s, 1), ~IsWrite(s.queue[1])
    PROVE  TokensOK(s, 2)
<1>1. \A k \in 1..Len(s.queue) : k = 1 \/ k \in 2..Len(s.queue)
    BY Types
<1>2. \A k \in 2..Len(s.queue) : k \in 1..Len(s.queue)
    BY Types
<1>3. \A b \in Buffers : ~WaitsFor(s, b, 1)
    BY DEF WaitsFor
<1> QED
    BY <1>1, <1>2, <1>3 DEF TokensOK

LEMMA DeletionsShift ==
    ASSUME NEW s, Typed(s), DeletionsOK(s, 1), ~IsDeletion(s, 1)
    PROVE  DeletionsOK(s, 2)
<1>1. \A k \in 1..Len(s.queue) : k = 1 \/ k \in 2..Len(s.queue)
    BY Types
<1>2. \A k \in 2..Len(s.queue) : k \in 1..Len(s.queue)
    BY Types
<1> QED
    BY <1>1, <1>2 DEF DeletionsOK

\* The deletion that ends is the only one; the next one is asked for.
LEMMA DeletionEndsDoes ==
    ASSUME NEW s, Typed(s), Len(s.queue) >= 1, NEW op, op = s.queue[1], IsDeletion(s, 1),
           NEW success \in BOOLEAN, NEW t, t = DeletionEnds(s, op, success)
    PROVE  /\ Typed(t) /\ Same({"used", "deleted", "ongoing", "queue", "fault"}, s, t)
           /\ Grows(s, t)
           /\ ~t.fault =>
                 /\ ~s.fault
                 /\ /\ TokensOK(s, 1) /\ DeletionsOK(s, 1) /\ SpaceOK(s, 2)
                    => QueueOK(t, 2) /\ DeletionsGoOn(t)
<1>1. PICK u : u = [(IF success THEN Freed(s, op.peer) ELSE s) EXCEPT !.ongoing = FALSE]
    OBVIOUS
<1>2. t = PeerDataDelete(u)
    BY <1>1 DEF DeletionEnds
<1>3. Typed(u) /\ Same({"used", "deleted", "ongoing"}, s, u) /\ ~u.ongoing
  <2>1. CASE success
    <3>1. u = [s EXCEPT !.used = s.used \ {op.peer}, !.deleted = s.deleted \ {op.peer},
                        !.ongoing = FALSE]
      BY <1>1, <2>1 DEF Freed, Typed, States
    <3> QED
      BY ONLY <3>1, Typed(s) DEF Typed, States, Same, Fields
  <2>2. CASE ~success
    <3>1. u = [s EXCEPT !.ongoing = FALSE]
      BY <1>1, <2>2
    <3> QED
      BY ONLY <3>1, Typed(s) DEF Typed, States, Same, Fields
  <2> QED
    BY <2>1, <2>2
<1>4. /\ u.queue = s.queue /\ u.buf = s.buf /\ u.reserved = s.reserved
      /\ u.failed = s.failed /\ u.fault = s.fault
    BY <1>3 DEF Same, Fields
<1>5. /\ Typed(t) /\ Same({"used", "deleted", "ongoing", "queue", "fault"}, u, t)
      /\ Grows(u, t)
      /\ ~t.fault =>
            /\ ~u.fault /\ DeletionsGoOn(t)
            /\ \A n \in 1..2 : QueueOK(u, n) /\ Len(u.queue) >= n - 1 => QueueOK(t, n)
    BY <1>2, <1>3, PeerDataDeleteDoes
<1>6. Same({"used", "deleted", "ongoing", "queue", "fault"}, s, t)
    BY <1>3, <1>5 DEF Same
<1>7. ASSUME TokensOK(s, 1), DeletionsOK(s, 1), SpaceOK(s, 2) PROVE QueueOK(u, 2)
  <2>1. TokensOK(u, 2)
    <3>1. TokensOK(s, 2)
      BY <1>7, TokensShift DEF IsDeletion, IsWrite
    <3> QED
      BY <3>1, <1>4 DEF TokensOK, WaitsFor
  <2>2. DeletionsOK(u, 2)
    <3>1. 1 \in 1..Len(s.queue) /\ \A k \in 2..Len(s.queue) : k \in 1..Len(s.queue) /\ k # 1
      BY Types
    <3>2. \A k \in 2..Len(u.queue) : ~IsDeletion(u, k)
      BY <3>1, <1>4, <1>7 DEF DeletionsOK, IsDeletion
    <3> QED
      BY <3>2, <1>3 DEF DeletionsOK
  <2>3. SpaceOK(u, 2)
    BY <1>4, <1>7 DEF SpaceOK, WritesFrom, PreparedOnes
  <2> QED
    BY <2>1, <2>2, <2>3 DEF QueueOK
<1>8. Len(u.queue) >= 2 - 1
    BY <1>4
<1> QED
    BY <1>4, <1>5, <1>6, <1>7, <1>8 DEF Grows

\* before the handlers of an operation's end run, and after
Before(s) ==
    /\ BuffersOK(s) /\ TokensOK(s, 1) /\ DeletionsOK(s, 1) /\ DeletionsGoOn(s)
    /\ Waiting(s) /\ LockHeld(s) /\ PendingOK(s) /\ FullWake(s, 1) /\ ProcWakes(s, 1)
    /\ SpaceOK(s, 2)

After(t) == BuffersOK(t) /\ QueueOK(t, 2) /\ DeletionsGoOn(t) /\ WakeOK(t, 2)

\* what pdb_pds_evt_handler and fds_evt_handler do themselves
OperationEnded(s, op, success) ==
    CASE op.op \in {"write", "update"} -> WriteEnds(s, op, success)
      [] op.op = "deleteFile" -> DeletionEnds(s, op, success)
      [] op.op = "gc" -> s

EndedFields == {"used", "deleted", "ongoing", "queue", "fault", "buf", "pending"}

LEMMA GcShift ==
    ASSUME NEW s, Typed(s), HasGc(s, 1), s.queue[1].op # "gc"
    PROVE  HasGc(s, 2)
<1>1. \A k \in 1..Len(s.queue) : k = 1 \/ k \in 2..Len(s.queue)
    BY Types
<1> QED
    BY <1>1 DEF HasGc

LEMMA OperationEndedDoes ==
    ASSUME NEW s, Typed(s), Len(s.queue) >= 1, NEW op, op = s.queue[1],
           NEW success \in BOOLEAN, NEW t, t = OperationEnded(s, op, success)
    PROVE  /\ Typed(t) /\ Same(EndedFields, s, t)
           /\ Grows(s, t)
           /\ ~t.fault =>
                 /\ ~s.fault
                 /\ Before(s) /\ (~s.failed => success) =>
                       /\ Core(t, 2)
                       /\ \A b \in Buffers : t.buf[b].full => s.buf[b].full
                       /\ \/ LockHeld(t)
                          \/ success /\ op.op \in {"write", "update"} /\ op.data = "local"
                       /\ op.op \in {"gc", "deleteFile"} \/ success \/ SomeStored(t)
<1>1. op \in Operations /\ 1 \in 1..Len(s.queue)
  <2>1. 1 \in 1..Len(s.queue)
    BY Types
  <2> QED
    BY <2>1, TokenOfWrite
<1>2. op.op \in {"write", "update", "deleteFile", "gc"}
    BY <1>1 DEF Operations
<1>3. CASE op.op \in {"write", "update"}
  <2>1. t = WriteEnds(s, op, success)
    BY <1>3 DEF OperationEnded
  <2>2. IsWrite(op) /\ op.op # "gc"
    BY <1>3 DEF IsWrite
  <2>3. /\ Typed(t) /\ Same({"buf", "pending"}, s, t)
        /\ /\ BuffersOK(s) /\ TokensOK(s, 1) /\ DeletionsOK(s, 1) /\ PendingOK(s)
           /\ SpaceOK(s, 2) /\ (~s.failed => success)
           => /\ BuffersOK(t) /\ QueueOK(t, 2) /\ PendingOK(t)
              /\ WriteEnded(s, t, op, success)
    BY <2>1, <2>2, WriteEndsDoes
  <2>4. /\ t.queue = s.queue /\ t.fault = s.fault /\ t.deleted = s.deleted
        /\ t.ongoing = s.ongoing /\ t.lock = s.lock
    BY <2>3 DEF Same, Fields
  <2>5. Same(EndedFields, s, t) /\ Grows(s, t)
    BY <2>3, <2>4, GrowsRefl DEF Same, EndedFields
  <2>6. ASSUME Before(s), ~s.failed => success
        PROVE  /\ Core(t, 2)
               /\ \A b \in Buffers : t.buf[b].full => s.buf[b].full
               /\ LockHeld(t) \/ (success /\ op.data = "local")
               /\ success \/ SomeStored(t)
    <3>1. BuffersOK(t) /\ QueueOK(t, 2) /\ PendingOK(t) /\ WriteEnded(s, t, op, success)
      BY <2>3, <2>6 DEF Before
    <3>2. Core(t, 2)
      BY <3>1, <2>4, <2>6 DEF Core, Before, DeletionsGoOn
    <3>3. PICK b \in Buffers :
              /\ s.buf[b].data = op.data
              /\ \A c \in Buffers : c # b => t.buf[c] = s.buf[c]
              /\ success => t.buf[b] = Unused
              /\ ~success => t.buf[b].busy /\ ~t.buf[b].full /\ t.buf[b].data = s.buf[b].data
      BY <3>1 DEF WriteEnded
    <3>4. \A c \in Buffers : t.buf[c].full => s.buf[c].full
      BY <3>3, UnusedIs DEF Stored
    <3>5. success \/ SomeStored(t)
      BY <3>3 DEF SomeStored, Stored
    <3>6. ASSUME ~(success /\ op.data = "local") PROVE LockHeld(t)
      <4>1. SUFFICES ASSUME t.lock
                     PROVE  \E c \in Buffers : t.buf[c].data = "local" /\ Stored(t.buf[c])
        BY DEF LockHeld
      <4>2. PICK c \in Buffers : s.buf[c].data = "local" /\ Stored(s.buf[c])
        BY <4>1, <2>4, <2>6 DEF Before, LockHeld
      <4>3. CASE c # b
        BY <4>2, <4>3, <3>3
      <4>4. CASE c = b
        BY <4>2, <4>4, <3>3, <3>6 DEF Stored
      <4> QED
        BY <4>3, <4>4
    <3> QED
      BY <3>2, <3>4, <3>5, <3>6
  <2> QED
    BY <2>3, <2>4, <2>5, <2>6, <1>3
<1>4. CASE op.op = "deleteFile"
  <2>1. t = DeletionEnds(s, op, success) /\ IsDeletion(s, 1)
    BY <1>4 DEF OperationEnded, IsDeletion
  <2>2. /\ Typed(t) /\ Same({"used", "deleted", "ongoing", "queue", "fault"}, s, t)
        /\ Grows(s, t)
        /\ ~t.fault =>
              /\ ~s.fault
              /\ /\ TokensOK(s, 1) /\ DeletionsOK(s, 1) /\ SpaceOK(s, 2)
                 => QueueOK(t, 2) /\ DeletionsGoOn(t)
    BY <2>1, DeletionEndsDoes
  <2>3. /\ t.buf = s.buf /\ t.lock = s.lock /\ t.proc = s.proc /\ t.peer = s.peer
        /\ t.link = s.link /\ t.pending = s.pending
    BY <2>2 DEF Same, Fields
  <2>4. Same(EndedFields, s, t)
    BY <2>2 DEF Same, EndedFields
  <2>5. ASSUME ~t.fault, Before(s) PROVE Core(t, 2) /\ LockHeld(t)
    <3>1. BuffersOK(t)
      BY <2>3, <2>5, BuffersFrame DEF Before
    <3>2. Len(t.queue) >= 2 - 1
      BY <2>2, <2>5, Types DEF Grows
    <3> QED
      BY <3>1, <3>2, <2>2, <2>3, <2>5 DEF Core, Before, LockHeld, PendingOK
  <2> QED
    BY <2>2, <2>3, <2>4, <2>5, <1>4
<1>5. CASE op.op = "gc"
  <2>1. t = s
    BY <1>5 DEF OperationEnded
  <2>2. ASSUME Before(s) PROVE Core(s, 2)
    <3>1. TokensOK(s, 2)
      BY <2>2, <1>5, TokensShift DEF Before, IsWrite
    <3>2. DeletionsOK(s, 2)
      BY <2>2, <1>5, DeletionsShift DEF Before, IsDeletion
    <3>3. Len(s.queue) >= 2 - 1
      OBVIOUS
    <3> QED
      BY <3>1, <3>2, <3>3, <2>2 DEF Core, Before, QueueOK
  <2> QED
    BY <2>1, <2>2, <1>5, GrowsRefl DEF Same, Before
<1> QED
    BY <1>2, <1>3, <1>4, <1>5

EndFields == EndedFields \cup {"reserved", "peer", "proc", "update", "lock"}

\* who still waits when the event has been handled
Woken(s, t, op) ==
    /\ Core(t, 2) /\ LockHeld(t) /\ Waiting(t) /\ ProcWakes(t, 2)
    /\ op.op # "gc" => FullWake(t, 2)

\* pdb_evt_send: the pairing first, then the configuration
LEMMA PdbEvtSendDoes ==
    ASSUME NEW s, Typed(s), NEW kind, NEW op, NEW t, t = PdbEvtSend(s, kind, op)
    PROVE  /\ Typed(t) /\ Same(EndFields, s, t)
           /\ Grows(s, t)
           /\ ~t.fault =>
                 /\ ~s.fault
                 /\ /\ Core(s, 2)
                    /\ LockHeld(s) \/ (kind = "stored" /\ op.data = "local")
                    /\ kind # "gc" => ProcWakes(s, 2)
                    /\ op.op # "gc" => FullWake(s, 2)
                    => Woken(s, t, op)
<1>1. PICK u : u = SmPdbEvent(s, kind)
    OBVIOUS
<1>2. t = GcmPdbEvent(u, kind, op.peer, op.data)
    BY <1>1 DEF PdbEvtSend
<1>3. /\ Typed(u) /\ Same(ReplyFields, s, u)
      /\ (~u.fault => ~s.fault) /\ Grows(s, u)
      /\ \A n \in 1..2 : ~u.fault /\ Core(s, n) =>
            /\ Core(u, n)
            /\ \A b \in Buffers :
                  Stored(s.buf[b]) \/ Stored(u.buf[b]) => u.buf[b] = s.buf[b]
            /\ u.proc = "busy" => \A b \in Buffers : Stored(u.buf[b])
            /\ u.proc = "full" => HasGc(u, n) \/ (s.proc = "full" /\ kind # "gc")
    BY <1>1, SmPdbEventDoes
<1>4. /\ Typed(t) /\ Same(LocalFields, u, t)
      /\ (~t.fault => ~u.fault) /\ Grows(u, t)
      /\ \A n \in 1..2 :
            ~t.fault /\ Core(u, n) /\ (LockHeld(u) \/ (kind = "stored" /\ op.data = "local"))
            => Checked(u, t, n)
    BY <1>2, <1>3, GcmPdbEventDoes
<1>5. Same(EndFields, s, t)
    BY <1>3, <1>4 DEF Same, ReplyFields, LocalFields, EndFields, EndedFields
<1>6. (~t.fault => ~s.fault) /\ Grows(s, t)
    BY <1>3, <1>4, GrowsTrans
<1>7. t.proc = u.proc /\ t.link = u.link /\ u.lock = s.lock
    BY <1>3, <1>4 DEF Same, Fields, ReplyFields, LocalFields
<1>8. ASSUME ~t.fault, Core(s, 2), LockHeld(s) \/ (kind = "stored" /\ op.data = "local"),
             kind # "gc" => ProcWakes(s, 2), op.op # "gc" => FullWake(s, 2)
      PROVE  Woken(s, t, op)
  <2>1. /\ Core(u, 2)
        /\ \A b \in Buffers : Stored(s.buf[b]) \/ Stored(u.buf[b]) => u.buf[b] = s.buf[b]
        /\ u.proc = "busy" => \A b \in Buffers : Stored(u.buf[b])
        /\ u.proc = "full" => HasGc(u, 2) \/ (s.proc = "full" /\ kind # "gc")
    BY <1>3, <1>4, <1>8
  <2>2. LockHeld(s) => LockHeld(u)
    BY <2>1, <1>7 DEF LockHeld
  <2>3. Core(t, 2) /\ Hands(u, t, 2) /\ LockHeld(t) /\ (t.update /\ t.link # "none" => SomeStored(t))
    BY <2>1, <2>2, <1>4, <1>8 DEF Checked
  <2>4. Grows(s, u) /\ Grows(u, t) /\ Grows(s, t)
    BY <1>3, <1>4, <1>6, <1>8
  <2>5. (HasGc(s, 2) \/ HasGc(u, 2)) => HasGc(t, 2)
    BY <2>4, <1>3, <1>4, GcGrows
  <2>6. Waiting(t)
    <3>1. 1 \in Buffers
      BY PeerDatabaseAssumption DEF Buffers
    <3>2. t.proc = "busy" => Stored(t.buf[1])
      BY <3>1, <2>1, <2>3, <1>7 DEF Hands
    <3> QED
      BY <3>1, <3>2, <2>3 DEF Waiting, SomeStored
  <2>7. ProcWakes(t, 2)
    BY <2>1, <2>5, <1>7, <1>8 DEF ProcWakes
  <2>8. ASSUME FullWake(s, 2) PROVE FullWake(t, 2)
    <3>1. ASSUME NEW b \in Buffers, t.buf[b].full PROVE HasGc(t, 2)
      <4>1. Stored(t.buf[b])
        BY <3>1 DEF Stored
      <4>2. CASE Stored(u.buf[b])
        <5>1. t.buf[b] = u.buf[b] /\ u.buf[b] = s.buf[b]
          BY <4>2, <2>1, <2>3 DEF Hands
        <5> QED
          BY <5>1, <3>1, <2>5, <2>8 DEF FullWake
      <4>3. CASE ~Stored(u.buf[b])
        BY <4>1, <4>3, <3>1, <2>3 DEF Hands
      <4> QED
        BY <4>2, <4>3
    <3> QED
      BY <3>1 DEF FullWake
  <2> QED
    BY <2>3, <2>6, <2>7, <2>8, <1>8 DEF Woken
<1> QED
    BY <1>4, <1>5, <1>6, <1>8

\* pdb_pds_evt_handler, and what it leads to
LEMMA PdbPdsEventDoes ==
    ASSUME NEW s, Typed(s), Len(s.queue) >= 1, NEW op, op = s.queue[1],
           NEW success \in BOOLEAN, NEW t, t = PdbPdsEvent(s, op, success)
    PROVE  /\ Typed(t) /\ Same(EndFields, s, t)
           /\ Grows(s, t)
           /\ ~t.fault =>
                 /\ ~s.fault
                 /\ Before(s) /\ (~s.failed => success) => After(t)
<1>1. PICK kind : kind = Event(op, success)
    OBVIOUS
<1>2. PICK done : done = OperationEnded(s, op, success)
    OBVIOUS
<1>3. PICK v : v = IF success \/ BuffersOf(s, op) = {} \/ op.op \in {"gc", "deleteFile"}
                   THEN PdbEvtSend(done, kind, op)
                   ELSE done
    OBVIOUS
<1>4. PICK all : all = (op.op = "gc")
    OBVIOUS
<1>5. t = Reattempt(v, all)
    BY <1>1, <1>2, <1>3, <1>4 DEF PdbPdsEvent, OperationEnded
<1>6. all \in BOOLEAN /\ (all <=> op.op = "gc")
    BY <1>4
<1>7. /\ Typed(done) /\ Same(EndedFields, s, done)
      /\ Grows(s, done)
      /\ ~done.fault =>
            /\ ~s.fault
            /\ Before(s) /\ (~s.failed => success) =>
                  /\ Core(done, 2)
                  /\ \A b \in Buffers : done.buf[b].full => s.buf[b].full
                  /\ \/ LockHeld(done)
                     \/ success /\ op.op \in {"write", "update"} /\ op.data = "local"
                  /\ op.op \in {"gc", "deleteFile"} \/ success \/ SomeStored(done)
    BY <1>2, OperationEndedDoes
<1>8. done.proc = s.proc
    BY <1>7 DEF Same, Fields, EndedFields
<1>9. ASSUME ~done.fault, Before(s), ~s.failed => success, op.op # "gc"
      PROVE  ProcWakes(done, 2) /\ FullWake(done, 2)
  <2>1. HasGc(s, 1) => HasGc(done, 2)
    BY <1>7, <1>9, GcShift, GcGrows
  <2> QED
    BY <2>1, <1>7, <1>8, <1>9 DEF Before, ProcWakes, FullWake
<1>10. /\ Typed(v) /\ Same(EndFields, s, v)
       /\ Grows(s, v)
       /\ ~v.fault =>
             /\ ~s.fault
             /\ Before(s) /\ (~s.failed => success) => Woken(done, v, op)
  <2>1. CASE success \/ BuffersOf(s, op) = {} \/ op.op \in {"gc", "deleteFile"}
    <3>1. v = PdbEvtSend(done, kind, op)
      BY <1>3, <2>1
    <3>2. /\ Typed(v) /\ Same(EndFields, done, v)
          /\ Grows(done, v)
          /\ ~v.fault =>
                /\ ~done.fault
                /\ /\ Core(done, 2)
                   /\ LockHeld(done) \/ (kind = "stored" /\ op.data = "local")
                   /\ kind # "gc" => ProcWakes(done, 2)
                   /\ op.op # "gc" => FullWake(done, 2)
                   => Woken(done, v, op)
      BY <3>1, <1>7, PdbEvtSendDoes
    <3>3. Same(EndFields, s, v)
      BY <3>2, <1>7 DEF Same, EndFields
    <3>4. (~v.fault => ~s.fault) /\ Grows(s, v)
      BY <3>2, <1>7, GrowsTrans
    <3>5. (kind = "gc" <=> op.op = "gc") /\ (success /\ op.op \in {"write", "update"} => kind = "stored")
      BY <1>1 DEF Event
    <3>6. ASSUME ~v.fault, Before(s), ~s.failed => success PROVE Woken(done, v, op)
      <4>1. ~done.fault /\ Core(done, 2)
        BY <3>2, <3>6, <1>7
      <4>2. LockHeld(done) \/ (kind = "stored" /\ op.data = "local")
        BY <3>5, <3>6, <4>1, <1>7
      <4>3. kind # "gc" => ProcWakes(done, 2)
        BY <3>5, <3>6, <4>1, <1>9
      <4>4. op.op # "gc" => FullWake(done, 2)
        BY <3>6, <4>1, <1>9
      <4> QED
        BY <4>1, <4>2, <4>3, <4>4, <3>2, <3>6
    <3> QED
      BY <3>2, <3>3, <3>4, <3>6
  <2>2. CASE ~(success \/ BuffersOf(s, op) = {} \/ op.op \in {"gc", "deleteFile"})
    <3>1. v = done
      BY <1>3, <2>2
    <3>2. Same(EndFields, s, v)
      BY <3>1, <1>7 DEF Same, EndFields
    <3>3. ASSUME ~v.fault, Before(s), ~s.failed => success PROVE Woken(done, v, op)
      BY <3>1, <3>3, <2>2, <1>7, <1>9 DEF Woken, Waiting
    <3> QED
      BY <3>1, <3>2, <3>3, <1>7
  <2> QED
    BY <2>1, <2>2
<1>11. /\ Typed(t) /\ Same(StoreFields, v, t) /\ BuffersKept(v, t)
       /\ PendingOK(v) => PendingOK(t)
       /\ Grows(v, t)
       /\ ~t.fault =>
             /\ ~v.fault
             /\ PendingOK(v) =>
                   \A n \in 1..2 : QueueOK(v, n) /\ Len(v.queue) >= n - 1 =>
                      /\ QueueOK(t, n)
                      /\ (\E b \in Buffers : t.buf[b].busy) => HasGc(t, n)
                      /\ (\E b \in Buffers : t.buf[b].full) =>
                            HasGc(t, n) \/ (~all /\ \E b \in Buffers : v.buf[b].full)
    BY <1>5, <1>6, <1>10, ReattemptDoes
<1>12. Same(EndFields, s, t)
    BY <1>10, <1>11 DEF Same, EndFields, EndedFields, StoreFields
<1>13. (~t.fault => ~s.fault) /\ Grows(s, t)
    BY <1>10, <1>11, GrowsTrans
<1>14. /\ t.proc = v.proc /\ t.peer = v.peer /\ t.link = v.link /\ t.update = v.update
       /\ t.lock = v.lock /\ t.deleted = v.deleted /\ t.ongoing = v.ongoing
    BY <1>11 DEF Same, Fields, StoreFields
<1>15. ASSUME ~t.fault, Before(s), ~s.failed => success PROVE After(t)
  <2>1. Woken(done, v, op)
    BY <1>10, <1>11, <1>15
  <2>2. /\ QueueOK(t, 2) /\ PendingOK(t)
        /\ (\E b \in Buffers : t.buf[b].busy) => HasGc(t, 2)
        /\ (\E b \in Buffers : t.buf[b].full) =>
              HasGc(t, 2) \/ (~all /\ \E b \in Buffers : v.buf[b].full)
    BY <2>1, <1>11, <1>15 DEF Woken, Core
  <2>3. BuffersOK(t)
    <3>1. \A b \in Buffers : (IsPrepared(t, b) <=> IsPrepared(v, b))
      <4>1. ASSUME NEW b \in Buffers, Stored(v.buf[b]) PROVE ~IsPrepared(t, b) /\ ~IsPrepared(v, b)
        BY <4>1, <1>11, IsPreparedIs DEF BuffersKept
      <4>2. ASSUME NEW b \in Buffers, ~Stored(v.buf[b]) PROVE IsPrepared(t, b) <=> IsPrepared(v, b)
        BY <4>2, <1>11, <1>14 DEF BuffersKept, IsPrepared
      <4> QED
        BY <4>1, <4>2
    <3>2. \A b \in Buffers : ~Stored(t.buf[b]) => t.buf[b] = v.buf[b] /\ ~Stored(v.buf[b])
      BY <1>11 DEF BuffersKept
    <3> QED
      BY <3>1, <3>2, <2>1, <1>14 DEF Woken, Core, BuffersOK
  <2>4. DeletionsGoOn(t)
    BY <2>1, <1>14 DEF Woken, Core, DeletionsGoOn
  <2>5. LockHeld(t) /\ Waiting(t)
    <3>1. \A b \in Buffers : Stored(v.buf[b]) => Stored(t.buf[b]) /\ t.buf[b].data = v.buf[b].data
      BY <1>11 DEF BuffersKept
    <3> QED
      BY <3>1, <2>1, <1>14 DEF Woken, LockHeld, Waiting, SomeStored
  <2>6. HasGc(v, 2) => HasGc(t, 2)
    BY <1>10, <1>11, <1>15, GcGrows
  <2>7. BusyWake(t, 2)
    <3>1. HasGc(t, 2) => Len(t.queue) >= 2
      BY <1>11, Types DEF HasGc
    <3> QED
      BY <3>1, <2>2 DEF BusyWake
  <2>8. FullWake(t, 2)
    BY <2>1, <2>2, <2>6, <1>6 DEF Woken, FullWake
  <2>9. ProcWakes(t, 2)
    BY <2>1, <2>6, <1>14 DEF Woken, ProcWakes
  <2> QED
    BY <2>2, <2>3, <2>4, <2>5, <2>7, <2>8, <2>9 DEF After, WakeOK
<1> QED
    BY <1>11, <1>12, <1>13, <1>15

\* between two steps
Holds(s) ==
    /\ BuffersOK(s) /\ TokensOK(s, 1) /\ DeletionsOK(s, 1) /\ DeletionsGoOn(s)
    /\ WakeOK(s, 1)

\* the first operation leaves the queue
Shifted(s, t) ==
    /\ Len(t.queue) = Len(s.queue) - 1
    /\ \A k \in 1..Len(t.queue) : t.queue[k] = s.queue[k + 1]

LEMMA WritesShift ==
    ASSUME NEW s, Typed(s), Len(s.queue) >= 1, NEW t, Typed(t), Shifted(s, t)
    PROVE  Cardinality(WritesFrom(t, 1)) = Cardinality(WritesFrom(s, 2))
<1> DEFINE S == WritesFrom(s, 2)
           T == WritesFrom(t, 1)
           f == [k \in T |-> k + 1]
<1>1. Len(s.queue) \in Nat /\ Len(t.queue) = Len(s.queue) - 1
    BY Types DEF Shifted
<1>2. T = {k \in 1..Len(t.queue) : IsWrite(s.queue[k + 1])}
    BY DEF WritesFrom, Shifted
<1>3. \A k \in T : k \in Nat /\ k + 1 \in S
    BY <1>1, <1>2 DEF WritesFrom
<1>4. \A k \in S : k - 1 \in T /\ (k - 1) + 1 = k
    BY <1>1, <1>2 DEF WritesFrom
<1>5. IsFiniteSet(T)
    BY WritesFinite
<1> HIDE DEF S, T
<1>6. f \in Bijection(T, S)
  <2>1. f \in [T -> S]
    BY <1>3
  <2>2. \A j, k \in T : f[j] = f[k] => j = k
    BY <1>3
  <2>3. \A k \in S : \E j \in T : f[j] = k
    BY <1>4
  <2> QED
    BY <2>1, <2>2, <2>3, Fun_IsBij
<1>7. ExistsBijection(T, S)
    BY <1>6 DEF ExistsBijection
<1>8. Cardinality(S) = Cardinality(T)
    BY <1>5, <1>7, FS_Bijection
<1> QED
    BY <1>8 DEF S, T

LEMMA LeaveDoes ==
    ASSUME NEW s, Typed(s), Len(s.queue) >= 1, NEW success \in BOOLEAN,
           NEW t, t = Leave(s, success)
    PROVE  /\ Typed(t) /\ Same({"queue", "carried"}, s, t)
           /\ success => t.carried
           /\ After(s) => Holds(t) /\ SpaceOK(t, 1)
<1>1. s.queue \in Seq(Operations) /\ s.queue # <<>>
    BY Types
<1>2. /\ Tail(s.queue) \in Seq(Operations) /\ Len(Tail(s.queue)) = Len(s.queue) - 1
      /\ \A k \in 1..Len(Tail(s.queue)) : Tail(s.queue)[k] = s.queue[k + 1]
    BY <1>1
<1>3. PICK on : on = (success \/ Len(s.queue) = 1)
    OBVIOUS
<1>4. on \in BOOLEAN /\ (success => on)
    BY <1>3
<1>5. t = [s EXCEPT !.queue = Tail(s.queue), !.carried = on]
    BY <1>3 DEF Leave, Typed, States
<1>6. t \in States
    BY <1>2, <1>4, <1>5 DEF Typed, States
<1>7. t.queue = Tail(s.queue) /\ t.carried = on /\ Same({"queue", "carried"}, s, t)
    BY <1>5 DEF Typed, States, Same, Fields
<1>8. Shifted(s, t) /\ Len(s.queue) \in Nat
    BY <1>2, <1>7, Types DEF Shifted
<1>9. Typed(t)
  <2>1. t.flash = s.flash /\ Len(t.queue) <= QueueSize
    BY <1>7, <1>8, Types DEF Same, Fields, Shifted
  <2> QED
    BY <2>1, <1>6 DEF Typed
<1>10. /\ t.buf = s.buf /\ t.proc = s.proc /\ t.peer = s.peer /\ t.link = s.link
       /\ t.reserved = s.reserved /\ t.ongoing = s.ongoing /\ t.failed = s.failed
       /\ t.deleted = s.deleted /\ t.pending = s.pending /\ t.update = s.update
       /\ t.lock = s.lock
    BY <1>7 DEF Same, Fields
<1>11. /\ \A k \in 1..Len(t.queue) : k + 1 \in 2..Len(s.queue) /\ k + 1 \in 1..Len(s.queue)
                                     /\ t.queue[k] = s.queue[k + 1]
       /\ \A k \in 2..Len(s.queue) : k - 1 \in 1..Len(t.queue) /\ t.queue[k - 1] = s.queue[k]
    BY <1>8 DEF Shifted
<1>12. ASSUME After(s) PROVE Holds(t) /\ SpaceOK(t, 1)
  <2>1. BuffersOK(t)
    BY <1>10, <1>12, BuffersFrame DEF After
  <2>2. TokensOK(t, 1)
    <3>1. TokensOK(s, 2)
      BY <1>12 DEF After, QueueOK
    <3>2. ASSUME NEW j \in 1..Len(t.queue), NEW k \in 1..Len(t.queue),
                 t.queue[j].token # 0, t.queue[j].token = t.queue[k].token
          PROVE  j = k
      <4>1. /\ j + 1 \in 1..Len(s.queue) /\ k + 1 \in 1..Len(s.queue)
            /\ s.queue[j + 1].token # 0 /\ s.queue[j + 1].token = s.queue[k + 1].token
        BY <3>2, <1>11
      <4>2. j + 1 = k + 1
        BY <3>1, <4>1 DEF TokensOK
      <4>3. Len(t.queue) \in Nat
        BY <1>9, Types
      <4> QED
        BY <4>2, <4>3
    <3>3. ASSUME NEW b \in Buffers, t.buf[b].token # 0
          PROVE  /\ ~t.buf[b].busy /\ ~t.buf[b].full
                 /\ \E k \in 1..Len(t.queue) : WaitsFor(t, b, k)
      <4>1. PICK k \in 2..Len(s.queue) : WaitsFor(s, b, k)
        BY <3>1, <3>3, <1>10 DEF TokensOK
      <4>2. k - 1 \in 1..Len(t.queue) /\ WaitsFor(t, b, k - 1)
        BY <4>1, <1>10, <1>11 DEF WaitsFor
      <4> QED
        BY <4>2, <3>1, <3>3, <1>10 DEF TokensOK
    <3>4. ASSUME NEW k \in 1..Len(t.queue), IsWrite(t.queue[k])
          PROVE  \E b \in Buffers : WaitsFor(t, b, k)
      <4>1. PICK b \in Buffers : WaitsFor(s, b, k + 1)
        BY <3>1, <3>4, <1>11 DEF TokensOK
      <4> QED
        BY <4>1, <1>10, <1>11 DEF WaitsFor
    <3> QED
      BY <3>1, <3>2, <3>3, <3>4, <1>10 DEF TokensOK
  <2>3. DeletionsOK(t, 1)
    <3>1. DeletionsOK(s, 2)
      BY <1>12 DEF After, QueueOK
    <3>2. \A k \in 1..Len(t.queue) : IsDeletion(t, k) <=> IsDeletion(s, k + 1)
      BY <1>11 DEF IsDeletion
    <3>3. \A k \in 2..Len(s.queue) : IsDeletion(s, k) => IsDeletion(t, k - 1)
      BY <1>11 DEF IsDeletion
    <3>4. t.ongoing <=> \E k \in 1..Len(t.queue) : IsDeletion(t, k)
      BY <3>1, <3>2, <3>3, <1>10, <1>11 DEF DeletionsOK
    <3>5. ASSUME NEW j \in 1..Len(t.queue), NEW k \in 1..Len(t.queue),
                 IsDeletion(t, j), IsDeletion(t, k)
          PROVE  j = k
      <4>1. j + 1 = k + 1
        BY <3>1, <3>2, <3>5, <1>11 DEF DeletionsOK
      <4> QED
        BY <4>1
    <3> QED
      BY <3>4, <3>5 DEF DeletionsOK
  <2>4. HasGc(s, 2) => HasGc(t, 1)
    BY <1>11 DEF HasGc
  <2>5. \A b \in Buffers : t.buf[b].busy => Len(t.queue) >= 1
    BY <1>8, <1>10, <1>12 DEF After, WakeOK, BusyWake, Shifted
  <2>6. WakeOK(t, 1)
    BY <2>4, <2>5, <1>10, <1>12
       DEF After, WakeOK, Waiting, SomeStored, LockHeld, PendingOK, BusyWake, FullWake, ProcWakes
  <2>7. SpaceOK(t, 1)
    <3>1. PreparedOnes(t) = PreparedOnes(s)
      BY <1>10 DEF PreparedOnes
    <3>2. Cardinality(WritesFrom(t, 1)) = Cardinality(WritesFrom(s, 2))
      BY <1>8, <1>9, WritesShift
    <3> QED
      BY <3>1, <3>2, <1>10, <1>12 DEF After, QueueOK, SpaceOK
  <2> QED
    BY <2>1, <2>2, <2>3, <2>6, <2>7, <1>10, <1>12 DEF After, Holds, DeletionsGoOn
<1> QED
    BY <1>4, <1>7, <1>9, <1>12

FlashFields == {"flash", "garbage", "reserved", "running", "carried", "failed", "left"}

\* what is about the flash leaves the rest alone
LEMMA HoldsFrame ==
    ASSUME NEW s, NEW t, Holds(s), Same(FlashFields, s, t)
    PROVE  Holds(t)
<1>1. /\ t.buf = s.buf /\ t.proc = s.proc /\ t.peer = s.peer /\ t.link = s.link
      /\ t.ongoing = s.ongoing /\ t.deleted = s.deleted /\ t.pending = s.pending
      /\ t.update = s.update /\ t.lock = s.lock /\ t.queue = s.queue
    BY DEF Same, Fields, FlashFields
<1>2. BuffersOK(t)
    BY <1>1, BuffersFrame DEF Holds
<1>3. TokensOK(t, 1)
    BY <1>1 DEF Holds, TokensOK, WaitsFor
<1>4. DeletionsOK(t, 1) /\ DeletionsGoOn(t)
    BY <1>1 DEF Holds, DeletionsOK, IsDeletion, DeletionsGoOn
<1>5. WakeOK(t, 1)
    BY <1>1 DEF Holds, WakeOK, Waiting, SomeStored, LockHeld, PendingOK, BusyWake, FullWake,
                ProcWakes, HasGc
<1> QED
    BY <1>2, <1>3, <1>4, <1>5 DEF Holds

LEMMA SpaceFrame ==
    ASSUME NEW s, NEW t, NEW n, t.queue = s.queue, t.buf = s.buf, t.failed = s.failed,
           t.reserved = s.reserved, SpaceOK(s, n)
    PROVE  SpaceOK(t, n)
BY DEF SpaceOK, WritesFrom, PreparedOnes

\* the end of an operation
LEMMA EndsDoes ==
    ASSUME NEW s, Typed(s), s.queue # <<>>, NEW success \in BOOLEAN, NEW t, t = Ends(s, success)
    PROVE  /\ Typed(t) /\ Between(t)
           /\ ~t.fault =>
                 /\ ~s.fault
                 /\ Holds(s) /\ (success => SpaceOK(s, 2)) => Holds(t) /\ SpaceOK(t, 1)
<1>1. PICK bad : bad = (s.failed \/ ~success)
    OBVIOUS
<1>2. bad \in BOOLEAN /\ (bad <=> s.failed \/ ~success)
    BY <1>1
<1>3. PICK u : u = [s EXCEPT !.running = FALSE, !.failed = bad]
    OBVIOUS
<1>4. PICK v : v = PdbPdsEvent(u, Head(s.queue), success)
    OBVIOUS
<1>5. t = Leave(v, success)
  <2>1. u = [s EXCEPT !.running = FALSE, !.failed = @ \/ ~success]
    BY <1>1, <1>3 DEF Typed, States
  <2> QED
    BY <2>1, <1>4 DEF Ends
<1>6. Typed(u) /\ Same({"running", "failed"}, s, u) /\ ~u.running /\ u.failed = bad
    BY ONLY <1>3, <1>2, Typed(s) DEF Typed, States, Same, Fields
<1>7. /\ u.queue = s.queue /\ u.buf = s.buf /\ u.reserved = s.reserved /\ u.fault = s.fault
      /\ Same(FlashFields, s, u)
    BY <1>6 DEF Same, Fields, FlashFields
<1>8. Len(u.queue) >= 1 /\ Head(s.queue) = u.queue[1]
  <2>1. s.queue \in Seq(Operations)
    BY Types
  <2> QED
    BY <2>1, <1>7
<1>9. /\ Typed(v) /\ Same(EndFields, u, v)
      /\ Grows(u, v)
      /\ ~v.fault =>
            /\ ~u.fault
            /\ Before(u) /\ (~u.failed => success) => After(v)
    BY <1>4, <1>6, <1>8, PdbPdsEventDoes
<1>10. ~v.running /\ v.failed = bad
    BY <1>6, <1>9 DEF Same, Fields, EndFields, EndedFields
<1>11. Len(v.queue) >= 1
  <2>1. Grows(u, v) /\ Len(u.queue) \in Nat /\ Len(v.queue) \in Nat
    BY <1>6, <1>9, Types
  <2> QED
    BY <2>1, <1>8 DEF Grows
<1>12. /\ Typed(t) /\ Same({"queue", "carried"}, v, t)
       /\ success => t.carried
       /\ After(v) => Holds(t) /\ SpaceOK(t, 1)
    BY <1>5, <1>9, <1>11, LeaveDoes
<1>13. ~t.running /\ t.failed = bad /\ t.fault = v.fault
    BY <1>12, <1>10 DEF Same, Fields
<1>14. Between(t)
    BY <1>12, <1>13, <1>2 DEF Between
<1>15. ASSUME ~t.fault, Holds(s), success => SpaceOK(s, 2) PROVE After(v)
  <2>1. SpaceOK(u, 2)
    <3>1. CASE bad
      BY <3>1, <1>6 DEF SpaceOK
    <3>2. CASE ~bad
      <4>1. SpaceOK(s, 2) /\ u.failed = s.failed
        BY <3>2, <1>15, <1>2, <1>6 DEF Typed, States
      <4> QED
        BY <4>1, <1>7, SpaceFrame
    <3> QED
      BY <3>1, <3>2
  <2>2. Holds(u)
    BY <1>15, <1>7, HoldsFrame
  <2>3. Before(u)
    BY <2>1, <2>2 DEF Before, Holds, WakeOK
  <2> QED
    BY <2>3, <1>13, <1>15, <1>2, <1>6, <1>9
<1>16. ~t.fault => ~s.fault
    BY <1>13, <1>7, <1>9
<1> QED
    BY <1>12, <1>14, <1>15, <1>16

-----------------------------------------------------------------------------
(* The loop of queue_process and the flash.                                *)

Inv(s) == Typed(s) /\ Between(s) /\ (~s.fault => Holds(s) /\ SpaceOK(s, 1))

WorkFields == {"flash", "garbage", "reserved", "running", "left"}

LEMMA SpaceBehind ==
    ASSUME NEW s, Typed(s), Len(s.queue) >= 1, SpaceOK(s, 1), NEW t, t.queue = s.queue,
           t.buf = s.buf, t.failed = s.failed,
           t.reserved = IF IsWrite(s.queue[1]) THEN Less(s.reserved) ELSE s.reserved
    PROVE  SpaceOK(t, 2)
<1>1. WritesFrom(t, 2) = WritesFrom(s, 2) /\ PreparedOnes(t) = PreparedOnes(s)
    BY DEF WritesFrom, PreparedOnes
<1>2. /\ IsFiniteSet(WritesFrom(s, 2)) /\ Cardinality(WritesFrom(s, 2)) \in Nat
      /\ Len(s.queue) \in Nat
    BY WritesFinite, Types
<1>3. CASE IsWrite(s.queue[1])
  <2>1. WritesFrom(s, 1) = WritesFrom(s, 2) \cup {1} /\ 1 \notin WritesFrom(s, 2)
    BY <1>2, <1>3 DEF WritesFrom
  <2>2. Cardinality(WritesFrom(s, 1)) = Cardinality(WritesFrom(s, 2)) + 1
    BY <2>1, <1>2, FS_AddElement
  <2>3. Cardinality(PreparedOnes(s)) \in Nat
    BY PreparedFinite
  <2>4. ASSUME ~s.failed PROVE t.reserved = s.reserved - 1
    <3>1. s.reserved \in Nat
      BY <2>2, <2>3, <2>4, <1>2 DEF SpaceOK
    <3> QED
      BY <3>1, <1>3, LessIs
  <2> QED
    BY <2>2, <2>3, <2>4, <1>1, <1>2 DEF SpaceOK
<1>4. CASE ~IsWrite(s.queue[1])
  <2>1. WritesFrom(s, 1) = WritesFrom(s, 2)
    BY <1>2, <1>4 DEF WritesFrom
  <2> QED
    BY <2>1, <1>1, <1>4 DEF SpaceOK
<1> QED
    BY <1>3, <1>4

LEMMA OffsetsUpdateDoes ==
    ASSUME NEW s, Typed(s), NEW lost \in BOOLEAN, NEW t, t = OffsetsUpdate(s, lost)
    PROVE  /\ Typed(t) /\ Same({"garbage", "reserved"}, s, t)
           /\ t.reserved = Less(s.reserved)
<1>1. PICK r : r = Less(s.reserved)
    OBVIOUS
<1>2. PICK g : g = Min({s.garbage + (IF lost THEN 1 ELSE 0), Places})
    OBVIOUS
<1>3. r \in -1..Places
  <2>1. s.reserved \in Int /\ s.reserved >= -1 /\ s.reserved <= Places /\ Places \in Nat
    BY Types
  <2> QED
    BY <2>1, <1>1, LessIs
<1>4. g \in 0..Places
  <2>1. s.garbage + (IF lost THEN 1 ELSE 0) \in Nat /\ Places \in Nat
    BY Types
  <2> QED
    BY <2>1, <1>2, MinOfTwo
<1>5. t = [s EXCEPT !.reserved = r, !.garbage = g]
    BY <1>1, <1>2, Typed(s) DEF OffsetsUpdate, Typed, States
<1> QED
  <2>1. Typed(t) /\ Same({"garbage", "reserved"}, s, t) /\ t.reserved = r
    BY ONLY <1>3, <1>4, <1>5, Typed(s) DEF Typed, States, Same, Fields
  <2> QED
    BY <2>1, <1>1

WithFlash(w, flash) == [w EXCEPT !.flash = flash]

LEMMA FlashTyped ==
    ASSUME NEW s, Typed(s), NEW flash, flash \subseteq Records, IsFiniteSet(flash),
           NEW t, t = WithFlash(s, flash)
    PROVE  Typed(t) /\ Same({"flash"}, s, t)
BY DEF WithFlash, Typed, States, Same, Fields

LEMMA WrittenDoes ==
    ASSUME NEW s, Typed(s), NEW op \in Operations, IsWrite(op), NEW t, t = Written(s, op)
    PROVE  /\ Typed(t) /\ Same({"garbage", "reserved", "flash"}, s, t)
           /\ t.reserved = Less(s.reserved)
<1>1. PICK no : no = FALSE
    OBVIOUS
<1>2. PICK w : w = OffsetsUpdate(s, no)
    OBVIOUS
<1>3. Typed(w) /\ Same({"garbage", "reserved"}, s, w) /\ w.reserved = Less(s.reserved)
    BY <1>1, <1>2, OffsetsUpdateDoes
<1>4. PICK record : record = [peer |-> op.peer, data |-> op.data, token |-> op.token]
    OBVIOUS
<1>5. record \in Records
    BY <1>4 DEF Operations, Records, IsWrite
<1>6. PICK flash : flash = w.flash \cup {record}
    OBVIOUS
<1>7. flash \subseteq Records /\ IsFiniteSet(flash)
  <2>1. w.flash \subseteq Records /\ IsFiniteSet(w.flash)
    BY <1>3, Types
  <2>2. IsFiniteSet(w.flash \cup {record})
    BY <2>1, FS_AddElement
  <2> QED
    BY <2>1, <2>2, <1>5, <1>6
<1>8. t = WithFlash(w, flash)
  <2>1. t = [w EXCEPT !.flash = w.flash \cup {record}]
    BY <1>1, <1>2, <1>4 DEF Written
  <2> QED
    BY <2>1, <1>6 DEF WithFlash
<1>9. Typed(t) /\ Same({"flash"}, w, t)
    BY <1>3, <1>7, <1>8, FlashTyped
<1> QED
    BY <1>3, <1>9 DEF Same, Fields

LEMMA DirtyDoes ==
    ASSUME NEW s, Typed(s), NEW records, IsFiniteSet(records), NEW t, t = Dirty(s, records)
    PROVE  Typed(t) /\ Same({"garbage", "flash"}, s, t)
<1>1. PICK g : g = Min({s.garbage + Cardinality(records), Places})
    OBVIOUS
<1>2. PICK flash : flash = s.flash \ records
    OBVIOUS
<1>3. s.flash \subseteq Records /\ IsFiniteSet(s.flash) /\ s.garbage \in Nat /\ Places \in Nat
    BY Types
<1>4. IsFiniteSet(flash)
    BY <1>2, <1>3, FS_Subset
<1>5. Cardinality(records) \in Nat
    BY <1>4, FS_CardinalityType
<1>6. g \in 0..Places
  <2>1. s.garbage + Cardinality(records) \in Nat
    BY <1>3, <1>5
  <2> QED
    BY <2>1, <1>1, <1>3, MinOfTwo
<1>7. flash \subseteq Records
    BY <1>2, <1>3
<1>8. t = [s EXCEPT !.flash = flash, !.garbage = g]
    BY <1>1, <1>2, Typed(s) DEF Dirty, Typed, States
<1> QED
    BY ONLY <1>4, <1>6, <1>7, <1>8, Typed(s) DEF Typed, States, Same, Fields

\* what the flash has done to the state, before the operation ends or goes on
Worked(s, u) == Typed(u) /\ Same(WorkFields, s, u)

LEMMA GoesOnDoes ==
    ASSUME NEW s, Inv(s), NEW u, Worked(s, u), Between(u), u.reserved = s.reserved,
           NEW t, t = Outcome(GoesOn(u))
    PROVE  Inv(t)
<1>1. t = u
    BY DEF Outcome, GoesOn
<1>2. /\ u.queue = s.queue /\ u.buf = s.buf /\ u.failed = s.failed /\ u.fault = s.fault
      /\ Same(FlashFields, s, u)
    BY DEF Worked, Same, WorkFields, FlashFields, Fields
<1>3. Holds(s) => Holds(u)
    BY <1>2, HoldsFrame
<1>4. SpaceOK(s, 1) => SpaceOK(u, 1)
    BY <1>2, SpaceFrame
<1> QED
    BY <1>1, <1>2, <1>3, <1>4 DEF Inv, Worked

LEMMA OperationEnds ==
    ASSUME NEW s, Inv(s), ~s.fault, s.queue # <<>>, NEW u, Worked(s, u),
           NEW success \in BOOLEAN, success => SpaceOK(u, 2), NEW t, t = Ends(u, success)
    PROVE  Inv(t)
<1>1. u.queue = s.queue /\ Same(FlashFields, s, u)
    BY DEF Worked, Same, WorkFields, FlashFields, Fields
<1>2. Holds(u)
    BY <1>1, HoldsFrame DEF Inv
<1>3. Typed(t) /\ Between(t) /\ (~t.fault => Holds(t) /\ SpaceOK(t, 1))
    BY <1>1, <1>2, EndsDoes DEF Worked
<1> QED
    BY <1>3 DEF Inv

LEMMA SucceedsDoes ==
    ASSUME NEW s, Inv(s), ~s.fault, s.queue # <<>>, NEW u, Worked(s, u), SpaceOK(u, 2),
           NEW t, t = Outcome(Succeeds(u))
    PROVE  Inv(t)
<1>1. PICK yes : yes = ("success" = "success")
    OBVIOUS
<1>2. yes \in BOOLEAN
    BY <1>1
<1>3. t = Ends(u, yes)
    BY <1>1 DEF Outcome, Succeeds
<1> QED
    BY <1>2, <1>3, OperationEnds

LEMMA FailsDoes ==
    ASSUME NEW s, Inv(s), ~s.fault, s.queue # <<>>, NEW u, Worked(s, u),
           NEW t, t = Outcome(Fails(u))
    PROVE  Inv(t)
<1>1. PICK yes : yes = ("error" = "success")
    OBVIOUS
<1>2. yes \in BOOLEAN /\ ~yes
    BY <1>1
<1>3. t = Ends(u, yes)
    BY <1>1 DEF Outcome, Fails
<1> QED
    BY <1>2, <1>3, OperationEnds

LEMMA RunningDoes ==
    ASSUME NEW s, Typed(s), NEW on \in BOOLEAN, NEW t, t = [s EXCEPT !.running = on]
    PROVE  Typed(t) /\ Same({"running"}, s, t) /\ t.running = on
BY DEF Typed, States, Same, Fields

LEMMA HeadIs ==
    ASSUME NEW s, Typed(s), s.queue # <<>>, NEW op, op = Head(s.queue)
    PROVE  /\ Len(s.queue) >= 1 /\ op = s.queue[1] /\ op \in Operations
           /\ op.op \in {"write", "update", "deleteFile", "gc"}
           /\ IsWrite(op) <=> op.op \in {"write", "update"}
<1>1. s.queue \in Seq(Operations)
    BY Types
<1>2. op \in Operations
    BY <1>1
<1> QED
    BY <1>1, <1>2 DEF Operations, IsWrite

\* a turn of the loop
LEMMA ProcessDoes ==
    ASSUME NEW s, Inv(s), ~s.fault, s.queue # <<>>, NEW op, op = Head(s.queue),
           NEW t, t = Outcome(Process(s, op))
    PROVE  Inv(t)
<1>1. /\ Len(s.queue) >= 1 /\ op = s.queue[1] /\ op \in Operations
      /\ op.op \in {"write", "update", "deleteFile", "gc"}
    BY HeadIs DEF Inv
<1>2. PICK yes : yes = TRUE
    OBVIOUS
<1>3. PICK lost : lost = IF op.op \in {"write", "update"} THEN OffsetsUpdate(s, yes) ELSE s
    OBVIOUS
<1>4. Worked(s, lost)
  <2>1. CASE op.op \in {"write", "update"}
    <3>1. Typed(lost) /\ Same({"garbage", "reserved"}, s, lost)
      BY <2>1, <1>2, <1>3, OffsetsUpdateDoes DEF Inv
    <3> QED
      BY <3>1 DEF Worked, Same, Fields, WorkFields
  <2>2. CASE op.op \notin {"write", "update"}
    BY <2>2, <1>3 DEF Worked, Inv, Same
  <2> QED
    BY <2>1, <2>2
<1>5. CASE Process(s, op) = Fails(lost)
    BY <1>4, <1>5, FailsDoes
<1>6. CASE Process(s, op) = GoesOn(Running(s)) /\ s.carried
  <2>1. PICK u : u = Running(s)
    OBVIOUS
  <2>2. Typed(u) /\ Same({"running"}, s, u) /\ u.running
    BY <2>1, <1>2, RunningDoes DEF Running, Inv
  <2>3. Worked(s, u) /\ u.reserved = s.reserved
    BY <2>2 DEF Worked, Same, Fields, WorkFields
  <2>4. Between(u)
    BY <2>2, <1>6 DEF Between, Same, Fields
  <2> QED
    BY <2>1, <2>3, <2>4, <1>6, GoesOnDoes
<1>7. CASE Process(s, op) = Succeeds(s) /\ op.op = "deleteFile"
  <2>1. Worked(s, s)
    BY DEF Worked, Inv, Same
  <2>2. SpaceOK(s, 2)
    BY <1>1, <1>7, SpaceBehind DEF Inv, IsWrite
  <2> QED
    BY <2>1, <2>2, <1>7, SucceedsDoes
<1>8. \/ Process(s, op) = Fails(lost)
      \/ Process(s, op) = GoesOn(Running(s)) /\ s.carried
      \/ Process(s, op) = Succeeds(s) /\ op.op = "deleteFile"
  <2>1. CASE ~s.carried
    BY <2>1, <1>2, <1>3 DEF Process
  <2>2. CASE s.carried /\ op.op = "update"
    BY <2>2, <1>2, <1>3 DEF Process
  <2>3. CASE s.carried /\ op.op = "deleteFile"
    BY <2>3 DEF Process
  <2>4. CASE s.carried /\ op.op \in {"write", "gc"}
    BY <2>4 DEF Process
  <2> QED
    BY <2>1, <2>2, <2>3, <2>4, <1>1
<1> QED
    BY <1>5, <1>6, <1>7, <1>8

\* the flash has done what it was asked for
LEMMA FlashDoneDoes ==
    ASSUME NEW s, Inv(s), ~s.fault, s.running, s.queue # <<>>, NEW op, op = Head(s.queue),
           NEW t, t = Outcome(FlashDoneStep(s, op))
    PROVE  Inv(t)
<1>1. /\ Len(s.queue) >= 1 /\ op = s.queue[1] /\ op \in Operations
      /\ op.op \in {"write", "update", "deleteFile", "gc"}
      /\ Typed(s)
    BY HeadIs DEF Inv
<1>2. PICK w : w = Written(s, op)
    OBVIOUS
<1>3. ASSUME IsWrite(op) PROVE Worked(s, w) /\ SpaceOK(w, 2)
  <2>1. Typed(w) /\ Same({"garbage", "reserved", "flash"}, s, w) /\ w.reserved = Less(s.reserved)
    BY <1>1, <1>2, <1>3, WrittenDoes
  <2>2. w.queue = s.queue /\ w.buf = s.buf /\ w.failed = s.failed
    BY <2>1 DEF Same, Fields
  <2>3. SpaceOK(w, 2)
    BY <2>1, <2>2, <1>1, <1>3, SpaceBehind DEF Inv
  <2> QED
    BY <2>1, <2>3 DEF Worked, Same, Fields, WorkFields
<1>4. CASE op.op = "write"
  <2>1. FlashDoneStep(s, op) = Succeeds(w)
    BY <1>2, <1>4 DEF FlashDoneStep
  <2> QED
    BY <2>1, <1>3, <1>4, SucceedsDoes DEF IsWrite
<1>5. CASE op.op = "update"
  <2>1. PICK v : v = Dirty(w, OldRecord(s, op))
    OBVIOUS
  <2>2. FlashDoneStep(s, op) = Succeeds(v)
    BY <2>1, <1>2, <1>5 DEF FlashDoneStep
  <2>3. Worked(s, w) /\ SpaceOK(w, 2)
    BY <1>3, <1>5 DEF IsWrite
  <2>4. IsFiniteSet(OldRecord(s, op))
    <3>1. OldRecord(s, op) \subseteq s.flash
      BY DEF OldRecord, Kind
    <3>2. IsFiniteSet(s.flash)
      BY <1>1, Types
    <3> QED
      BY <3>1, <3>2, FS_Subset
  <2>5. Typed(v) /\ Same({"garbage", "flash"}, w, v)
    BY <2>1, <2>3, <2>4, DirtyDoes DEF Worked
  <2>6. Worked(s, v)
    BY <2>3, <2>5 DEF Worked, Same, Fields, WorkFields
  <2>7. SpaceOK(v, 2)
    <3>1. v.queue = w.queue /\ v.buf = w.buf /\ v.failed = w.failed /\ v.reserved = w.reserved
      BY <2>5 DEF Same, Fields
    <3> QED
      BY <3>1, <2>3, SpaceFrame
  <2> QED
    BY <2>2, <2>6, <2>7, SucceedsDoes
<1>6. CASE op.op = "gc"
  <2>1. PICK v : v = [s EXCEPT !.garbage = 0]
    OBVIOUS
  <2>2. FlashDoneStep(s, op) = Succeeds(v)
    BY <2>1, <1>6 DEF FlashDoneStep
  <2>3. Typed(v) /\ Same({"garbage"}, s, v)
    <3>1. 0 \in 0..Places
      BY <1>1, Types
    <3> QED
      BY ONLY <3>1, <2>1, <1>1 DEF Typed, States, Same, Fields
  <2>4. v.queue = s.queue /\ v.buf = s.buf /\ v.failed = s.failed /\ v.reserved = s.reserved
    BY <2>3 DEF Same, Fields
  <2>5. SpaceOK(v, 2)
    BY <2>4, <1>1, <1>6, SpaceBehind DEF Inv, IsWrite
  <2>6. Worked(s, v)
    BY <2>3 DEF Worked, Same, Fields, WorkFields
  <2> QED
    BY <2>2, <2>5, <2>6, SucceedsDoes
<1>7. CASE op.op = "deleteFile"
  <2>1. PICK r : r = CHOOSE x \in s.flash : x.peer = op.peer
    OBVIOUS
  <2>2. IsFiniteSet({r})
    BY FS_Singleton
  <2>3. PICK d : d = Dirty(s, {r})
    OBVIOUS
  <2>4. Typed(d) /\ Same({"garbage", "flash"}, s, d)
    BY <2>2, <2>3, <1>1, DirtyDoes
  <2>5. PICK no : no = FALSE
    OBVIOUS
  <2>6. PICK u : u = [d EXCEPT !.running = no]
    OBVIOUS
  <2>7. Typed(u) /\ Same({"running"}, d, u) /\ ~u.running
    BY <2>4, <2>5, <2>6, RunningDoes
  <2>8. Worked(s, u) /\ u.reserved = s.reserved
    BY <2>4, <2>7 DEF Worked, Same, Fields, WorkFields
  <2>9. Between(u)
    BY <2>4, <2>7 DEF Between, Inv, Same, Fields
  <2>10. FlashDoneStep(s, op) = GoesOn(u)
    BY <2>1, <2>3, <2>5, <2>6, <1>7 DEF FlashDoneStep
  <2> QED
    BY <2>8, <2>9, <2>10, GoesOnDoes
<1> QED
    BY <1>1, <1>4, <1>5, <1>6, <1>7

\* an operation of the flash has timed out
LEMMA TimeoutDoes ==
    ASSUME NEW s, Inv(s), ~s.fault, s.queue # <<>>, NEW op, op = Head(s.queue),
           NEW out \in TimeoutSteps(s, op), NEW t, t = Outcome(out)
    PROVE  Inv(t)
<1>1. /\ op \in Operations
      /\ IsWrite(op) <=> op.op \in {"write", "update"}
      /\ Typed(s)
    BY HeadIs DEF Inv
<1>2. PICK lost : lost = OffsetsUpdate(s, TRUE)
    OBVIOUS
<1>3. Worked(s, lost)
  <2>1. PICK yes : yes = TRUE
    OBVIOUS
  <2>2. lost = OffsetsUpdate(s, yes)
    BY <2>1, <1>2
  <2>3. Typed(lost) /\ Same({"garbage", "reserved"}, s, lost)
    BY <2>1, <2>2, <1>1, OffsetsUpdateDoes
  <2> QED
    BY <2>3 DEF Worked, Same, Fields, WorkFields
<1>4. CASE out = Fails(lost)
    BY <1>3, <1>4, FailsDoes
<1>5. CASE out = Fails(Written(s, op)) /\ IsWrite(op)
  <2>1. PICK w : w = Written(s, op)
    OBVIOUS
  <2>2. Typed(w) /\ Same({"garbage", "reserved", "flash"}, s, w)
    BY <2>1, <1>1, <1>5, WrittenDoes
  <2>3. Worked(s, w)
    BY <2>2 DEF Worked, Same, Fields, WorkFields
  <2> QED
    BY <2>1, <2>3, <1>5, FailsDoes
<1>6. CASE out = Fails(s)
  <2>1. Worked(s, s)
    BY <1>1 DEF Worked, Same
  <2> QED
    BY <2>1, <1>6, FailsDoes
<1>7. out \in {Fails(lost), Fails(s)} \/ (out = Fails(Written(s, op)) /\ IsWrite(op))
    BY <1>1, <1>2 DEF TimeoutSteps
<1> QED
    BY <1>4, <1>5, <1>6, <1>7

\* a handler does not look at what is left of the bounds
LEMMA LeftTyped ==
    ASSUME NEW s, Typed(s), NEW left \in Budget, NEW t, t = [s EXCEPT !.left = left]
    PROVE  Typed(t) /\ Same({"left"}, s, t)
BY DEF Typed, States, Same, Fields

LEMMA LeftFrame ==
    ASSUME NEW s, Inv(s), NEW t, Typed(t), Same({"left"}, s, t)
    PROVE  Inv(t)
<1>1. /\ Same(FlashFields, s, t) /\ t.queue = s.queue /\ t.buf = s.buf /\ t.failed = s.failed
      /\ t.reserved = s.reserved /\ t.running = s.running /\ t.carried = s.carried
      /\ t.fault = s.fault
    BY DEF Same, Fields, FlashFields
<1>2. Holds(s) => Holds(t)
    BY <1>1, HoldsFrame
<1>3. SpaceOK(s, 1) => SpaceOK(t, 1)
    BY <1>1, SpaceFrame
<1> QED
    BY <1>1, <1>2, <1>3 DEF Inv, Between

-----------------------------------------------------------------------------
(* The start.                                                              *)

LEMMA BootTyped ==
    ASSUME NEW flash, flash \subseteq Records, IsFiniteSet(flash), NEW garbage \in 0..Places,
           NEW left \in Budget, NEW t, t = PdbBoot(flash, garbage, left)
    PROVE  Typed(t)
<1>1. PICK used : used = {r.peer : r \in {x \in flash : x.data = "bonding"}}
    OBVIOUS
<1>2. used \subseteq Peers
    BY <1>1 DEF Records
<1>3. PICK buf : buf = [b \in Buffers |-> Unused]
    OBVIOUS
<1>4. buf \in [Buffers -> BufferRecords]
    BY <1>3 DEF BufferRecords
<1>5. 0 \in -1..Places /\ QueueSize \in Nat
    BY PeerDatabaseAssumption
<1>6. <<>> \in Seq(Operations) /\ Len(<<>>) = 0
    OBVIOUS
<1>7. t = [flash |-> flash, garbage |-> garbage, reserved |-> 0, queue |-> <<>>,
           running |-> FALSE, carried |-> TRUE, used |-> used, deleted |-> {},
           ongoing |-> FALSE, buf |-> buf, pending |-> FALSE, link |-> "none",
           peer |-> PeerIdInvalid, proc |-> "none", update |-> FALSE, lock |-> FALSE,
           fault |-> FALSE, failed |-> FALSE, left |-> left]
    BY <1>1, <1>3 DEF PdbBoot
<1>8. t \in States
    BY <1>2, <1>4, <1>5, <1>6, <1>7 DEF States
<1> QED
    BY <1>5, <1>6, <1>7, <1>8 DEF Typed

LEMMA BootDoes ==
    ASSUME NEW flash, flash \subseteq Records, IsFiniteSet(flash), NEW garbage \in 0..Places,
           NEW left \in Budget, NEW t, t = PdbBoot(flash, garbage, left)
    PROVE  Inv(t)
<1>1. Typed(t)
    BY BootTyped
<1>2. /\ t.queue = <<>> /\ t.buf = [b \in Buffers |-> Unused] /\ t.deleted = {} /\ ~t.ongoing
      /\ ~t.running /\ t.carried /\ t.link = "none" /\ t.peer = PeerIdInvalid
      /\ t.proc = "none" /\ ~t.update /\ ~t.lock /\ t.reserved = 0
    BY DEF PdbBoot
<1>3. \A b \in Buffers : /\ t.buf[b] = Unused /\ ~Stored(t.buf[b]) /\ ~t.buf[b].prepared
                         /\ ~t.buf[b].busy /\ ~t.buf[b].full /\ t.buf[b].token = 0
    BY <1>2, UnusedIs DEF Unused, StoreTokenInvalid
<1>4. Len(t.queue) = 0
    BY <1>2
<1>5. BuffersOK(t)
    BY <1>2, <1>3 DEF BuffersOK, IsPrepared
<1>6. TokensOK(t, 1)
    BY <1>3, <1>4 DEF TokensOK
<1>7. DeletionsOK(t, 1) /\ DeletionsGoOn(t)
    BY <1>2, <1>4 DEF DeletionsOK, DeletionsGoOn
<1>8. WakeOK(t, 1)
    BY <1>2, <1>3
       DEF WakeOK, Waiting, LockHeld, PendingOK, BusyWake, FullWake, ProcWakes
<1>9. SpaceOK(t, 1)
  <2>1. WritesFrom(t, 1) = {} /\ PreparedOnes(t) = {}
    BY <1>3, <1>4 DEF WritesFrom, PreparedOnes, IsAside
  <2>2. Cardinality(WritesFrom(t, 1)) = 0 /\ Cardinality(PreparedOnes(t)) = 0
    BY <2>1, FS_EmptySet
  <2> QED
    BY <2>2, <1>2, <1>3 DEF SpaceOK
<1>10. Between(t)
    BY <1>2 DEF Between
<1> QED
    BY <1>1, <1>5, <1>6, <1>7, <1>8, <1>9, <1>10 DEF Inv, Holds

LEMMA AfterResetDoes ==
    ASSUME NEW s, Inv(s), NEW t \in AfterReset(s)
    PROVE  /\ t.flash \subseteq Records /\ IsFiniteSet(t.flash) /\ t.garbage \in 0..Places
           /\ t.left = s.left
<1>1. PICK yes : yes = TRUE
    OBVIOUS
<1>2. CASE t = s
    BY <1>2, Types DEF Inv
<1>3. CASE t = OffsetsUpdate(s, TRUE)
  <2>1. t = OffsetsUpdate(s, yes)
    BY <1>1, <1>3
  <2>2. Typed(t) /\ Same({"garbage", "reserved"}, s, t)
    BY <2>1, <1>1, OffsetsUpdateDoes DEF Inv
  <2> QED
    BY <2>2, Types DEF Same, Fields
<1>4. CASE s.running /\ IsWrite(Head(s.queue)) /\ t = Written(s, Head(s.queue))
  <2>1. s.queue # <<>>
    BY <1>4 DEF Inv, Between
  <2>2. Head(s.queue) \in Operations
    BY <2>1, HeadIs DEF Inv
  <2>3. Typed(t) /\ Same({"garbage", "reserved", "flash"}, s, t)
    BY <2>2, <1>4, WrittenDoes DEF Inv
  <2> QED
    BY <2>3, Types DEF Same, Fields
<1> QED
    BY <1>2, <1>3, <1>4 DEF AfterReset, IsWrite

-----------------------------------------------------------------------------
(* The handlers.                                                           *)

LEMMA CoreIs ==
    ASSUME NEW s, Typed(s)
    PROVE  Holds(s) /\ SpaceOK(s, 1) <=> Core(s, 1) /\ WakeOK(s, 1)
<1>1. Len(s.queue) >= 1 - 1
    BY Types
<1> QED
    BY <1>1 DEF Holds, Core, QueueOK, WakeOK

\* what is left to show of a handler
LEMMA HandlerEnds ==
    ASSUME NEW s, Inv(s), NEW t, Typed(t), Grows(s, t), t.running = s.running,
           t.carried = s.carried, t.failed = s.failed,
           ~t.fault => Core(t, 1) /\ WakeOK(t, 1)
    PROVE  Inv(t)
<1>1. ~t.fault => Holds(t) /\ SpaceOK(t, 1)
    BY CoreIs
<1>2. ASSUME t.running PROVE t.queue # <<>>
  <2>1. s.queue # <<>>
    BY <1>2 DEF Inv, Between
  <2>2. s.queue \in Seq(Operations) /\ t.queue \in Seq(Operations)
    BY Types DEF Inv
  <2>3. Len(s.queue) > 0
    BY <2>1, <2>2
  <2>4. Len(t.queue) > 0
    BY <2>2, <2>3 DEF Grows
  <2> QED
    BY <2>2, <2>4
<1> QED
    BY <1>1, <1>2 DEF Inv, Between

LEMMA FaultDoes ==
    ASSUME NEW s, Typed(s), Between(s), NEW t, t = Fault(s)
    PROVE  Inv(t) /\ t.left = s.left
<1>1. Typed(t) /\ Same({"fault"}, s, t) /\ t.fault
    BY ONLY t = Fault(s), Typed(s) DEF Fault, Typed, States, Same, Fields
<1> QED
    BY <1>1 DEF Inv, Between, Same, Fields

\* what was handed over for storing is as it was, and nothing else is
StoredSame(s, t) ==
    \A b \in Buffers : Stored(s.buf[b]) \/ Stored(t.buf[b]) => t.buf[b] = s.buf[b]

LEMMA WakeKept ==
    ASSUME NEW s, NEW t, Typed(s), Typed(t), WakeOK(s, 1), Grows(s, t), StoredSame(s, t),
           t.lock = s.lock, Waiting(t), PendingOK(t), ProcWakes(t, 1)
    PROVE  WakeOK(t, 1)
<1>1. LockHeld(t)
    BY DEF WakeOK, LockHeld, StoredSame
<1>2. \A b \in Buffers : t.buf[b].busy \/ t.buf[b].full => t.buf[b] = s.buf[b]
    BY DEF StoredSame, Stored
<1>3. BusyWake(t, 1)
  <2>1. Len(s.queue) \in Nat /\ Len(t.queue) \in Nat
    BY Types
  <2> QED
    BY <2>1, <1>2 DEF WakeOK, BusyWake, Grows
<1>4. FullWake(t, 1)
  <2>1. HasGc(s, 1) => HasGc(t, 1)
    BY GcGrows
  <2> QED
    BY <2>1, <1>2 DEF WakeOK, FullWake
<1> QED
    BY <1>1, <1>3, <1>4 DEF WakeOK

\* an id is freed
LEMMA FreeDoes ==
    ASSUME NEW s, Inv(s), NEW id \in Peers, NEW t, t = PeerFree(s, id)
    PROVE  /\ Inv(t)
           /\ Same({"buf", "reserved", "used", "deleted", "ongoing", "queue", "fault", "peer"},
                   s, t)
           /\ t.peer = IF s.peer = id THEN PeerIdInvalid ELSE s.peer
<1>1. /\ Typed(t)
      /\ Same({"buf", "reserved", "used", "deleted", "ongoing", "queue", "fault", "peer"}, s, t)
      /\ \A b \in Buffers : t.buf[b] = AfterRelease(s.buf[b], id)
      /\ t.peer = IF s.peer = id THEN PeerIdInvalid ELSE s.peer
      /\ Grows(s, t)
      /\ ~t.fault =>
            /\ ~s.fault /\ DeletionsGoOn(t)
            /\ \A n \in 1..2 : QueueOK(s, n) /\ Len(s.queue) >= n - 1 => QueueOK(t, n)
    BY PeerFreeDoes DEF Inv
<1>2. /\ t.proc = s.proc /\ t.link = s.link /\ t.update = s.update /\ t.lock = s.lock
      /\ t.pending = s.pending /\ t.running = s.running /\ t.carried = s.carried
      /\ t.failed = s.failed
    BY <1>1 DEF Same, Fields
<1>3. StoredSame(s, t)
  <2>1. \A b \in Buffers : ~Stored(t.buf[b]) \/ t.buf[b] = s.buf[b]
    BY <1>1, UnusedIs DEF AfterRelease
  <2>2. \A b \in Buffers : Stored(s.buf[b]) => t.buf[b] = s.buf[b]
    BY <1>1 DEF AfterRelease
  <2> QED
    BY <2>1, <2>2 DEF StoredSame
<1>4. ASSUME ~t.fault PROVE Core(t, 1) /\ WakeOK(t, 1)
  <2>1. Core(s, 1) /\ WakeOK(s, 1)
    BY <1>1, <1>4, CoreIs DEF Inv
  <2>2. BuffersOK(t)
    BY <2>1, <1>1, <1>2, BuffersFree DEF Core
  <2>3. QueueOK(t, 1) /\ DeletionsGoOn(t)
    BY <2>1, <1>1, <1>4 DEF Core
  <2>4. PendingOK(t)
    BY <2>1, <1>2, <1>3 DEF Core, PendingOK, StoredSame, Stored
  <2>5. Core(t, 1)
    <3>1. Len(t.queue) >= 1 - 1
      BY <1>1, Types
    <3> QED
      BY <3>1, <2>2, <2>3, <2>4 DEF Core
  <2>6. Waiting(t)
    BY <2>1, <1>2, <1>3 DEF WakeOK, Waiting, SomeStored, StoredSame
  <2>7. ProcWakes(t, 1)
    <3>1. HasGc(s, 1) => HasGc(t, 1)
      BY <1>1, GcGrows DEF Inv
    <3> QED
      BY <3>1, <2>1, <1>2 DEF WakeOK, ProcWakes
  <2>8. WakeOK(t, 1)
    BY <2>1, <2>4, <2>6, <2>7, <1>1, <1>2, <1>3, WakeKept DEF Inv
  <2> QED
    BY <2>5, <2>8
<1>5. Inv(t)
    BY <1>1, <1>2, <1>4, HandlerEnds
<1> QED
    BY <1>1, <1>5

\* the pairing is at its end, and its buffer has been given back
LEMMA ProcEnds ==
    ASSUME NEW s, Inv(s), s.peer \notin Peers, NEW t, t = WithProc(s, "none")
    PROVE  Inv(t) /\ Same({"proc"}, s, t) /\ t.proc = "none"
<1>1. Typed(t) /\ Same({"proc"}, s, t) /\ t.proc = "none"
    BY ProcTyped DEF Inv
<1>2. /\ t.queue = s.queue /\ t.buf = s.buf /\ t.ongoing = s.ongoing /\ t.reserved = s.reserved
      /\ t.failed = s.failed /\ t.deleted = s.deleted /\ t.pending = s.pending
      /\ t.update = s.update /\ t.lock = s.lock /\ t.link = s.link /\ t.running = s.running
      /\ t.carried = s.carried /\ t.fault = s.fault
    BY <1>1 DEF Same, Fields
<1>3. ASSUME ~t.fault PROVE Core(t, 1) /\ WakeOK(t, 1)
  <2>1. Core(s, 1) /\ WakeOK(s, 1)
    BY <1>2, <1>3, CoreIs DEF Inv
  <2>2. BuffersOK(t)
    <3>1. \A b \in Buffers : ~Stored(t.buf[b]) => t.buf[b] = Unused
      BY <2>1, <1>2 DEF Core, BuffersOK, IsPrepared
    <3> QED
      BY <3>1, <1>1, NonePrepared
  <2>3. QueueOK(t, 1)
    BY <2>1, <1>2, QueueFrame DEF Core
  <2>4. Core(t, 1)
    BY <2>1, <2>2, <2>3, <1>2 DEF Core, DeletionsGoOn, PendingOK
  <2>5. WakeOK(t, 1)
    BY <2>1, <1>1, <1>2 DEF WakeOK, Waiting, SomeStored, LockHeld, PendingOK, BusyWake,
                            FullWake, ProcWakes, HasGc
  <2> QED
    BY <2>4, <2>5
<1>4. Grows(s, t)
    BY <1>2, GrowsRefl DEF Inv
<1>5. Inv(t)
    BY <1>1, <1>2, <1>3, <1>4, HandlerEnds
<1> QED
    BY <1>1, <1>5

LEMMA PairingFailedDoes ==
    ASSUME NEW s, Inv(s), NEW t, t = PairingFailed(s)
    PROVE  Inv(t) /\ t.proc # "pairing" /\ t.link = s.link
<1>1. CASE s.proc # "pairing"
    BY <1>1 DEF PairingFailed
<1>2. CASE s.proc = "pairing"
  <2>1. PICK w : w = PeerFree(s, s.peer)
    OBVIOUS
  <2>2. t = WithProc(w, "none")
    BY <2>1, <1>2 DEF PairingFailed, WithProc
  <2>3. Inv(w) /\ w.peer \notin Peers /\ w.link = s.link
    <3>1. CASE s.peer \in Peers
      BY <3>1, <2>1, FreeDoes, Types DEF Inv, Same, Fields
    <3>2. CASE s.peer \notin Peers
      <4>1. s.peer = PeerIdInvalid
        BY <3>2, Types DEF Inv
      <4> QED
        BY <4>1, <3>2, <2>1 DEF PeerFree
    <3> QED
      BY <3>1, <3>2
  <2>4. Inv(t) /\ Same({"proc"}, w, t) /\ t.proc = "none"
    BY <2>2, <2>3, ProcEnds
  <2> QED
    BY <2>3, <2>4 DEF Same, Fields
<1> QED
    BY <1>1, <1>2

LEMMA LinkGone ==
    ASSUME NEW s, Inv(s), s.proc # "pairing", s.link # "none",
           NEW t, t = [s EXCEPT !.link = "gone"]
    PROVE  Inv(t)
<1>1. Typed(t) /\ Same({"link"}, s, t) /\ t.link = "gone"
    BY DEF Inv, Typed, States, Same, Fields
<1>2. /\ t.queue = s.queue /\ t.buf = s.buf /\ t.ongoing = s.ongoing /\ t.reserved = s.reserved
      /\ t.failed = s.failed /\ t.deleted = s.deleted /\ t.pending = s.pending
      /\ t.update = s.update /\ t.lock = s.lock /\ t.proc = s.proc /\ t.running = s.running
      /\ t.carried = s.carried /\ t.fault = s.fault /\ t.peer = s.peer
    BY <1>1 DEF Same, Fields
<1>3. ASSUME ~t.fault PROVE Core(t, 1) /\ WakeOK(t, 1)
  <2>1. Core(s, 1) /\ WakeOK(s, 1)
    BY <1>2, <1>3, CoreIs DEF Inv
  <2>2. BuffersOK(t)
    BY <2>1, <1>1, <1>2 DEF Core, BuffersOK, IsPrepared
  <2>3. QueueOK(t, 1)
    BY <2>1, <1>2, QueueFrame DEF Core
  <2>4. Core(t, 1)
    BY <2>1, <2>2, <2>3, <1>2 DEF Core, DeletionsGoOn, PendingOK
  <2>5. WakeOK(t, 1)
    BY <2>1, <1>1, <1>2 DEF WakeOK, Waiting, SomeStored, LockHeld, PendingOK, BusyWake,
                            FullWake, ProcWakes, HasGc
  <2> QED
    BY <2>4, <2>5
<1>4. Grows(s, t)
    BY <1>2, GrowsRefl DEF Inv
<1> QED
    BY <1>1, <1>2, <1>3, <1>4, HandlerEnds

WithLink(s, id) == [s EXCEPT !.link = "up", !.peer = id, !.proc = "none", !.update = FALSE]

LEMMA LinkUp ==
    ASSUME NEW s, Inv(s), s.link # "up", NEW id \in Peers \cup {PeerIdInvalid},
           NEW t, t = WithLink(s, id)
    PROVE  Inv(t) /\ t.left = s.left
<1>1. /\ Typed(t) /\ Same({"link", "peer", "proc", "update"}, s, t)
      /\ t.link = "up" /\ t.proc = "none" /\ ~t.update
    BY DEF WithLink, Inv, Typed, States, Same, Fields
<1>2. /\ t.queue = s.queue /\ t.buf = s.buf /\ t.ongoing = s.ongoing /\ t.reserved = s.reserved
      /\ t.failed = s.failed /\ t.deleted = s.deleted /\ t.pending = s.pending
      /\ t.lock = s.lock /\ t.running = s.running /\ t.carried = s.carried
      /\ t.fault = s.fault /\ t.left = s.left
    BY <1>1 DEF Same, Fields
<1>3. ASSUME ~t.fault PROVE Core(t, 1) /\ WakeOK(t, 1)
  <2>1. Core(s, 1) /\ WakeOK(s, 1)
    BY <1>2, <1>3, CoreIs DEF Inv
  <2>2. \A b \in Buffers : ~Stored(s.buf[b]) => s.buf[b] = Unused
    <3>1. BuffersOK(s) /\ s.proc # "pairing"
      BY <2>1 DEF Core, BuffersOK
    <3> QED
      BY <3>1, FreeOnes
  <2>3. BuffersOK(t)
    BY <2>2, <1>1, <1>2, NonePrepared
  <2>4. QueueOK(t, 1)
    BY <2>1, <1>2, QueueFrame DEF Core
  <2>5. Core(t, 1)
    BY <2>1, <2>3, <2>4, <1>2 DEF Core, DeletionsGoOn, PendingOK
  <2>6. WakeOK(t, 1)
    BY <2>1, <1>1, <1>2 DEF WakeOK, Waiting, SomeStored, LockHeld, PendingOK, BusyWake,
                            FullWake, ProcWakes, HasGc
  <2> QED
    BY <2>5, <2>6
<1>4. Grows(s, t)
    BY <1>2, GrowsRefl DEF Inv
<1> QED
    BY <1>1, <1>2, <1>3, <1>4, HandlerEnds

LEMMA ReplyKeeps ==
    ASSUME NEW s, Inv(s), s.link = "up", s.proc = "none", NEW t, t = ParamsReply(s)
    PROVE  Inv(t) /\ t.left = s.left
<1>1. /\ Typed(t) /\ Same(ReplyFields, s, t)
      /\ (~t.fault => ~s.fault) /\ Grows(s, t)
      /\ \A n \in 1..2 :
            ~t.fault /\ s.proc # "pairing" /\ s.link # "none" /\ Core(s, n)
            => Replied(s, t, n)
    BY ParamsReplyDoes DEF Inv
<1>2. /\ t.pending = s.pending /\ t.update = s.update /\ t.lock = s.lock /\ t.link = s.link
      /\ t.running = s.running /\ t.carried = s.carried /\ t.failed = s.failed
      /\ t.left = s.left
    BY <1>1 DEF Same, Fields, ReplyFields
<1>3. ASSUME ~t.fault PROVE Core(t, 1) /\ WakeOK(t, 1)
  <2>1. Core(s, 1) /\ WakeOK(s, 1)
    BY <1>1, <1>3, CoreIs DEF Inv
  <2>2. Replied(s, t, 1)
    BY <2>1, <1>1, <1>3
  <2>3. StoredSame(s, t)
    BY <2>2 DEF Replied, StoredSame
  <2>4. Waiting(t)
    <3>1. 1 \in Buffers
      BY PeerDatabaseAssumption DEF Buffers
    <3>2. t.proc = "busy" => SomeStored(t)
      BY <3>1, <2>2 DEF Replied, SomeStored
    <3>3. SomeStored(s) => SomeStored(t)
      BY <2>3 DEF SomeStored, StoredSame
    <3> QED
      BY <3>2, <3>3, <2>1, <1>2 DEF WakeOK, Waiting
  <2>5. PendingOK(t) /\ ProcWakes(t, 1)
    BY <2>2 DEF Replied, Core, ProcWakes
  <2>6. WakeOK(t, 1)
    BY <2>1, <2>3, <2>4, <2>5, <1>1, <1>2, WakeKept DEF Inv
  <2> QED
    BY <2>2, <2>6 DEF Replied
<1> QED
    BY <1>1, <1>2, <1>3, HandlerEnds

LEMMA CccdKeeps ==
    ASSUME NEW s, Inv(s), s.link = "up", NEW on \in BOOLEAN, NEW u, u = WithUpdate(s, on),
           NEW t, t = UpdatePendingCheck(u)
    PROVE  Inv(t) /\ t.left = s.left
<1>1. Typed(u) /\ Same({"update"}, s, u)
    BY DEF WithUpdate, Inv, Typed, States, Same, Fields
<1>2. /\ u.fault = s.fault /\ u.buf = s.buf /\ u.queue = s.queue /\ u.lock = s.lock
      /\ u.proc = s.proc /\ u.running = s.running /\ u.carried = s.carried
      /\ u.failed = s.failed /\ u.left = s.left
    BY <1>1 DEF Same, Fields
<1>3. Grows(s, u) /\ \A n \in 1..2 : Core(s, n) => Core(u, n)
  <2>1. Same({"update", "lock"}, s, u)
    BY <1>1 DEF Same
  <2> QED
    BY <2>1, <1>1, FlagsFrame DEF Inv
<1>4. /\ Typed(t) /\ Same(LocalFields, u, t)
      /\ (~t.fault => ~u.fault) /\ Grows(u, t)
      /\ \A n \in 1..2 : ~t.fault /\ Core(u, n) /\ LockHeld(u) => Checked(u, t, n)
    BY <1>1, UpdatePendingCheckDoes
<1>5. /\ t.running = s.running /\ t.carried = s.carried /\ t.failed = s.failed
      /\ t.left = s.left /\ t.proc = s.proc
    BY <1>2, <1>4 DEF Same, Fields, LocalFields
<1>6. ASSUME ~t.fault PROVE Core(t, 1) /\ WakeOK(t, 1)
  <2>1. Core(s, 1) /\ WakeOK(s, 1)
    BY <1>2, <1>4, <1>6, CoreIs DEF Inv
  <2>2. LockHeld(u) /\ Core(u, 1)
    BY <2>1, <1>2, <1>3 DEF WakeOK, LockHeld
  <2>3. Checked(u, t, 1)
    BY <2>2, <1>4, <1>6
  <2>4. Hands(u, t, 1) /\ Core(t, 1) /\ LockHeld(t) /\ PendingOK(t)
    BY <2>3 DEF Checked, Core
  <2>5. Waiting(t)
    <3>1. SomeStored(s) => SomeStored(t)
      BY <2>4, <1>2 DEF SomeStored, Hands
    <3> QED
      BY <3>1, <2>1, <2>3, <1>5 DEF Checked, WakeOK, Waiting
  <2>6. HasGc(u, 1) => HasGc(t, 1)
    BY <1>1, <1>4, GcGrows
  <2>7. HasGc(s, 1) => HasGc(u, 1)
    BY <1>2 DEF HasGc
  <2>8. BusyWake(t, 1)
    <3>1. Len(s.queue) \in Nat /\ Len(t.queue) \in Nat
      BY <1>4, Types DEF Inv
    <3>2. ASSUME NEW b \in Buffers, t.buf[b].busy PROVE s.buf[b].busy
      BY <3>2, <2>4, <1>2 DEF Hands, Stored
    <3> QED
      BY <3>1, <3>2, <2>1, <1>2, <1>4 DEF WakeOK, BusyWake, Grows
  <2>9. FullWake(t, 1)
    <3>1. ASSUME NEW b \in Buffers, t.buf[b].full PROVE s.buf[b].full \/ HasGc(t, 1)
      BY <3>1, <2>4, <1>2 DEF Hands, Stored
    <3> QED
      BY <3>1, <2>1, <2>6, <2>7 DEF WakeOK, FullWake
  <2>10. ProcWakes(t, 1)
    BY <2>1, <2>6, <2>7, <1>5 DEF WakeOK, ProcWakes
  <2> QED
    BY <2>4, <2>5, <2>8, <2>9, <2>10 DEF WakeOK
<1>7. Grows(s, t)
    BY <1>1, <1>3, <1>4, GrowsTrans DEF Inv
<1> QED
    BY <1>4, <1>5, <1>6, <1>7, HandlerEnds

\* the pairing hands its buffer over for storing
LEMMA BondKeeps ==
    ASSUME NEW s, Inv(s), ~s.fault, s.proc = "pairing", s.peer \in Peers,
           NEW b, b = BufOf(s, s.peer, "bonding"), NEW t, t = WriteBufStore(s, b),
           NEW u, u = IF t.buf[b].full THEN Fault(t) ELSE WithProc(t, "none")
    PROVE  Inv(u)
<1>1. Core(s, 1) /\ WakeOK(s, 1)
    BY CoreIs DEF Inv
<1>2. b \in Buffers /\ IsPrepared(s, b)
  <2>1. PICK c \in Buffers : IsPrepared(s, c)
    BY <1>1 DEF Core, BuffersOK
  <2>2. c \in Open(s, s.peer, "bonding")
    BY <2>1, IsPreparedIs DEF Open
  <2>3. b \in Open(s, s.peer, "bonding")
    BY <2>2, BufOfIs
  <2>4. b \in Buffers /\ ~Stored(s.buf[b]) /\ s.buf[b].peer = s.peer
    BY <2>3 DEF Open
  <2>5. s.buf[b] # Unused
    BY <2>4, UnusedIs, Types DEF Inv
  <2> QED
    BY <2>4, <2>5, <1>1 DEF Core, BuffersOK
<1>3. /\ s.buf[b] # Unused /\ ~Stored(s.buf[b]) /\ s.buf[b].token = 0
      /\ \A c \in Buffers : c # b => ~IsPrepared(s, c)
    BY <1>1, <1>2, IsPreparedIs DEF Core, BuffersOK
<1>4. /\ Typed(t)
      /\ Same({"reserved", "queue", "buf", "pending", "fault"}, s, t)
      /\ BufferOnly(s, t, b) /\ Stored(t.buf[b]) /\ ~t.buf[b].busy
      /\ s.pending => t.pending
      /\ Grows(s, t)
      /\ ~t.fault => \A n \in 1..2 :
            /\ QueueOK(s, n) /\ Len(s.queue) >= n - 1 /\ s.buf[b].token = 0
            /\ t.buf[b].full /\ ~s.failed => ~s.buf[b].prepared
            => QueueOK(t, n)
    BY <1>2, <1>3, WriteBufStoreDoes DEF Inv
<1>5. /\ t.running = s.running /\ t.carried = s.carried /\ t.failed = s.failed
      /\ t.deleted = s.deleted /\ t.ongoing = s.ongoing /\ t.link = s.link
      /\ t.update = s.update /\ t.lock = s.lock
    BY <1>4 DEF Same, Fields
<1>6. CASE t.buf[b].full
  <2>1. u = Fault(t)
    BY <1>6
  <2>2. Between(t)
    <3>1. s.queue # <<>> => t.queue # <<>>
      <4>1. s.queue \in Seq(Operations) /\ t.queue \in Seq(Operations)
        BY <1>4, Types DEF Inv
      <4> QED
        BY <4>1, <1>4 DEF Grows
    <3> QED
      BY <3>1, <1>5 DEF Inv, Between
  <2> QED
    BY <2>1, <2>2, <1>4, FaultDoes
<1>7. CASE ~t.buf[b].full
  <2>1. u = WithProc(t, "none")
    BY <1>7
  <2>2. Typed(u) /\ Same({"proc"}, t, u) /\ u.proc = "none"
    BY <2>1, <1>4, ProcTyped
  <2>3. /\ u.queue = t.queue /\ u.buf = t.buf /\ u.ongoing = s.ongoing /\ u.fault = t.fault
        /\ u.reserved = t.reserved /\ u.failed = s.failed /\ u.deleted = s.deleted
        /\ u.pending = t.pending /\ u.update = s.update /\ u.lock = s.lock
        /\ u.link = s.link /\ u.running = s.running /\ u.carried = s.carried
        /\ t.failed = s.failed
    BY <2>2, <1>5 DEF Same, Fields
  <2>4. \A c \in Buffers : c # b => u.buf[c] = s.buf[c]
    BY <2>3, <1>4 DEF BufferOnly
  <2>5. Stored(u.buf[b]) /\ ~u.buf[b].busy /\ ~u.buf[b].full
    BY <2>3, <1>4, <1>7
  <2>6. Grows(s, u)
    BY <2>3, <1>4 DEF Grows
  <2>7. ASSUME ~u.fault PROVE Core(u, 1) /\ WakeOK(u, 1)
    <3>1. \A c \in Buffers : ~Stored(u.buf[c]) => u.buf[c] = Unused
      BY <2>4, <2>5, <1>1, <1>3 DEF Core, BuffersOK
    <3>2. BuffersOK(u)
      BY <3>1, <2>2, NonePrepared
    <3>3. QueueOK(t, 1)
      BY <2>3, <2>7, <1>1, <1>3, <1>4, <1>7 DEF Core
    <3>4. QueueOK(u, 1)
      BY <3>3, <2>3, <1>5, QueueFrame
    <3>5. PendingOK(u)
      BY <2>3, <2>4, <2>5, <1>1, <1>4 DEF Core, PendingOK
    <3>6. Core(u, 1)
      <4>1. Len(u.queue) >= 1 - 1
        BY <2>2, Types
      <4> QED
        BY <4>1, <3>2, <3>4, <3>5, <2>3, <1>1 DEF Core, DeletionsGoOn
    <3>7. Waiting(u) /\ ProcWakes(u, 1)
      BY <2>2, <2>5, <1>2 DEF Waiting, SomeStored, ProcWakes
    <3>8. LockHeld(u)
      <4>1. LockHeld(s)
        BY <1>1 DEF WakeOK
      <4>2. \A c \in Buffers : Stored(s.buf[c]) => u.buf[c] = s.buf[c]
        BY <2>4, <1>3
      <4> QED
        BY <4>1, <4>2, <2>3 DEF LockHeld
    <3>9. BusyWake(u, 1)
      <4>1. Len(s.queue) \in Nat /\ Len(u.queue) \in Nat
        BY <2>2, Types DEF Inv
      <4> QED
        BY <4>1, <2>4, <2>5, <2>6, <1>1 DEF WakeOK, BusyWake, Grows
    <3>10. FullWake(u, 1)
      <4>1. HasGc(s, 1) => HasGc(u, 1)
        BY <2>2, <2>6, GcGrows DEF Inv
      <4> QED
        BY <4>1, <2>4, <2>5, <1>1 DEF WakeOK, FullWake
    <3> QED
      BY <3>5, <3>6, <3>7, <3>8, <3>9, <3>10 DEF WakeOK
  <2> QED
    BY <2>2, <2>3, <2>6, <2>7, HandlerEnds
<1> QED
    BY <1>6, <1>7

\* one turn of the loop of pm_peers_delete
DeleteOne(t, n, ids) == IF n - 1 \in ids THEN PeerFree(t, n - 1) ELSE t

DeleteAll(s, ids, n) ==
    LET Delete(t, k) == DeleteOne(t, k, ids) IN Loop(Delete, s, n)

LEMMA DeleteRuns ==
    ASSUME NEW s, NEW ids, NEW N \in Nat
    PROVE  \E c : /\ c[0] = s
                  /\ \A k \in 1..N : c[k] = DeleteOne(c[k - 1], k, ids)
                  /\ DeleteAll(s, ids, N) = c[N]
<1> DEFINE Step(acc, b) == DeleteOne(acc, b, ids)
           IsRun(g, m) == g = [k \in 0..m |-> IF k = 0 THEN s ELSE Step(g[k - 1], k)]
           T == {m \in Nat : \E g : IsRun(g, m)}
<1>1. DeleteAll(s, ids, N) = Loop(Step, s, N)
    BY DEF DeleteAll
<1>2. N \in T
  <2> HIDE DEF Step
  <2>1. 0 \in T
    <3>1. IsRun([k \in 0..0 |-> s], 0)
      OBVIOUS
    <3> QED
      BY <3>1
  <2>2. ASSUME NEW m \in 1..N, m - 1 \in T PROVE m \in T
    <3>1. PICK g : IsRun(g, m - 1)
      BY <2>2
    <3>2. PICK h : h = [k \in 0..m |-> IF k = m THEN Step(g[m - 1], m) ELSE g[k]]
      OBVIOUS
    <3>3. ASSUME NEW k \in 0..m PROVE h[k] = IF k = 0 THEN s ELSE Step(h[k - 1], k)
      BY <3>1, <3>2
    <3>4. IsRun(h, m)
      BY <3>2, <3>3
    <3> QED
      BY <3>4
  <2> HIDE DEF T
  <2> QED
    BY <2>1, <2>2, Induction
<1>3. PICK c : /\ c = [k \in 0..N |-> IF k = 0 THEN s ELSE Step(c[k - 1], k)]
               /\ Loop(Step, s, N) = c[N]
  <2> HIDE DEF Step
  <2> DEFINE c == CHOOSE c : c = [k \in 0..N |-> IF k = 0 THEN s ELSE Step(c[k - 1], k)]
  <2>1. c = [k \in 0..N |-> IF k = 0 THEN s ELSE Step(c[k - 1], k)]
    BY <1>2
  <2>2. Loop(Step, s, N) = c[N]
    BY DEF Loop
  <2> HIDE DEF c
  <2> QED
    BY <2>1, <2>2
<1>4. c[0] = s /\ \A k \in 1..N : c[k] = Step(c[k - 1], k)
  <2> HIDE DEF Step
  <2>1. \A k \in 0..N : c[k] = IF k = 0 THEN s ELSE Step(c[k - 1], k)
    BY <1>3
  <2>2. 0 \in 0..N /\ \A k \in 1..N : k \in 0..N /\ k # 0
    OBVIOUS
  <2> QED
    BY <2>1, <2>2
<1> QED
    BY <1>1, <1>3, <1>4

LEMMA DeleteAllDoes ==
    ASSUME NEW s, Inv(s), NEW ids, ids \subseteq Peers, NEW N \in Nat,
           NEW t, t = DeleteAll(s, ids, N)
    PROVE  Inv(t) /\ t.left = s.left
<1>1. PICK c : /\ c[0] = s
               /\ \A k \in 1..N : c[k] = DeleteOne(c[k - 1], k, ids)
               /\ t = c[N]
    BY DeleteRuns
<1> DEFINE T == {k \in 0..N : Inv(c[k]) /\ c[k].left = s.left}
<1>2. 0 \in T
    BY <1>1
<1>3. ASSUME NEW k \in 1..N, k - 1 \in T PROVE k \in T
  <2> DEFINE u == c[k - 1]
             v == c[k]
  <2>1. Inv(u) /\ u.left = s.left /\ v = DeleteOne(u, k, ids)
    BY <1>1, <1>3
  <2> HIDE DEF u, v
  <2>2. Inv(v) /\ v.left = s.left
    <3>1. CASE k - 1 \in ids
      <4>1. v = PeerFree(u, k - 1) /\ k - 1 \in Peers
        BY <2>1, <3>1 DEF DeleteOne
      <4>2. PICK id : id = k - 1
        OBVIOUS
      <4>3. /\ Inv(v)
            /\ Same({"buf", "reserved", "used", "deleted", "ongoing", "queue", "fault", "peer"},
                    u, v)
        BY <4>1, <4>2, <2>1, FreeDoes
      <4> QED
        BY <4>3, <2>1 DEF Same, Fields
    <3>2. CASE k - 1 \notin ids
      BY <2>1, <3>2 DEF DeleteOne
    <3> QED
      BY <3>1, <3>2
  <2> QED
    BY <2>2 DEF v
<1> HIDE DEF T
<1>4. N \in T
    BY <1>2, <1>3, Induction
<1> QED
    BY <1>1, <1>4 DEF T

\* the greatest of the ids is a number
LEMMA MaxIsNat ==
    ASSUME Peers # {}
    PROVE  Max(Peers) \in Nat
<1>1. Peers \subseteq 0..255
    BY PeerDatabaseAssumption
<1> DEFINE T == {n \in Nat : \E id \in Peers : n = 255 - id}
<1>2. PICK x \in T : \A y \in T : x <= y
  <2>1. PICK id \in Peers : TRUE
    OBVIOUS
  <2>2. 255 - id \in T
    BY <1>1
  <2>3. T \subseteq Nat /\ T # {}
    BY <2>2
  <2> HIDE DEF T
  <2> QED
    BY <2>3, Least
<1>3. PICK m \in Peers : x = 255 - m
    BY <1>2
<1>4. \A id \in Peers : m >= id
  <2>1. ASSUME NEW id \in Peers PROVE m >= id
    <3>1. 255 - id \in T
      BY <1>1
    <3>2. x <= 255 - id
      BY <3>1, <1>2
    <3> QED
      BY <3>2, <1>1, <1>3
  <2> QED
    BY <2>1
<1>5. Max(Peers) \in Peers
    BY <1>4 DEF Max
<1>6. \A id \in Peers : id \in Nat
    BY <1>1
<1> QED
    BY <1>5, <1>6

-----------------------------------------------------------------------------
(* The steps.                                                              *)

LEMMA InvIs == Inductive <=> Inv(db)
BY DEF Inductive, Inv, Holds

LEMMA RequestKeeps ==
    ASSUME NEW s, Inv(s), s.left = db.left, Request(s)
    PROVE  Inv(db')
<1>1. s.left \in Budget /\ s.left.requests > 0
    BY DEF Request, Inv, Typed, States
<1>2. PICK left : left = [s.left EXCEPT !.requests = s.left.requests - 1]
    OBVIOUS
<1>3. left \in Budget
    BY <1>1, <1>2, PeerDatabaseAssumption DEF Budget
<1>4. db' = [s EXCEPT !.left = left]
    BY <1>2 DEF Request
<1>5. Typed(db') /\ Same({"left"}, s, db')
    BY <1>3, <1>4, LeftTyped DEF Inv
<1> QED
    BY <1>5, LeftFrame

LEMMA InitHolds ==
    ASSUME Init
    PROVE  Inductive
<1>1. PICK left : left = [requests |-> MaxRequests, timeouts |-> MaxTimeouts,
                          resets |-> MaxResets]
    OBVIOUS
<1>2. PICK flash \in FirstFlash : db = PdbBoot(flash, 0, left)
    BY <1>1 DEF Init
<1>3. left \in Budget /\ 0 \in 0..Places
    BY <1>1, PeerDatabaseAssumption DEF Budget
<1>4. IsFiniteSet(flash)
    BY FirstFlashAssumption
<1>5. flash \subseteq Records
    BY FirstFlashAssumption, PeerDatabaseAssumption DEF Records, Datas
<1> QED
    BY <1>2, <1>3, <1>4, <1>5, BootDoes, InvIs

LEMMA ConnectedKeeps ==
    ASSUME Inv(db), Connected
    PROVE  Inv(db')
<1>1. PICK id \in {r.peer : r \in {x \in db.flash : x.data = "bonding"}} \cup {PeerIdInvalid} :
          /\ db.link # "up"
          /\ Request(WithLink(db, id))
    BY DEF Connected, WithLink
<1>2. id \in Peers \cup {PeerIdInvalid}
  <2>1. db.flash \subseteq Records
    BY Types DEF Inv
  <2> QED
    BY <2>1 DEF Records
<1>3. PICK t : t = WithLink(db, id)
    OBVIOUS
<1>4. Inv(t) /\ t.left = db.left
    BY <1>1, <1>2, <1>3, LinkUp
<1> QED
    BY <1>1, <1>3, <1>4, RequestKeeps

LEMMA DisconnectedKeeps ==
    ASSUME Inv(db), Disconnected
    PROVE  Inv(db')
<1>1. PICK t : t = PairingFailed(db)
    OBVIOUS
<1>2. Inv(t) /\ t.proc # "pairing" /\ t.link = "up"
    BY <1>1, PairingFailedDoes DEF Disconnected
<1>3. db' = [t EXCEPT !.link = "gone"]
    BY <1>1 DEF Disconnected
<1> QED
    BY <1>2, <1>3, LinkGone

LEMMA SecParamsRequestKeeps ==
    ASSUME Inv(db), SecParamsRequest
    PROVE  Inv(db')
<1>1. PICK t : t = ParamsReply(db)
    OBVIOUS
<1>2. Inv(t) /\ t.left = db.left
    BY <1>1, ReplyKeeps DEF SecParamsRequest
<1> QED
    BY <1>1, <1>2, RequestKeeps DEF SecParamsRequest

LEMMA AuthFailedKeeps ==
    ASSUME Inv(db), AuthFailed
    PROVE  Inv(db')
BY PairingFailedDoes DEF AuthFailed

LEMMA AuthBondedKeeps ==
    ASSUME Inv(db), AuthBonded
    PROVE  Inv(db')
<1>1. PICK b : b = BufOf(db, db.peer, "bonding")
    OBVIOUS
<1>2. PICK t : t = WriteBufStore(db, b)
    OBVIOUS
<1>3. /\ ~db.fault /\ db.proc = "pairing"
      /\ db' = IF db.peer \notin db.used THEN Fault(db)
               ELSE IF t.buf[b].full THEN Fault(t) ELSE WithProc(t, "none")
    BY <1>1, <1>2 DEF AuthBonded, Free, WithProc
<1>4. CASE db.peer \notin db.used
    BY <1>3, <1>4, FaultDoes DEF Inv
<1>5. CASE db.peer \in db.used
  <2>1. db.peer \in Peers
    BY <1>5, Types DEF Inv
  <2>2. db' = IF t.buf[b].full THEN Fault(t) ELSE WithProc(t, "none")
    BY <1>3, <1>5
  <2> QED
    BY <2>1, <2>2, <1>1, <1>2, <1>3, BondKeeps
<1> QED
    BY <1>4, <1>5

LEMMA CccdWrittenKeeps ==
    ASSUME Inv(db), CccdWritten
    PROVE  Inv(db')
<1>1. PICK on : on = TRUE
    OBVIOUS
<1>2. PICK u : u = WithUpdate(db, on)
    OBVIOUS
<1>3. PICK t : t = UpdatePendingCheck(u)
    OBVIOUS
<1>4. db.link = "up" /\ Request(t)
    BY <1>1, <1>2, <1>3 DEF CccdWritten, WithUpdate
<1>5. Inv(t) /\ t.left = db.left
    BY <1>1, <1>2, <1>3, <1>4, CccdKeeps
<1> QED
    BY <1>4, <1>5, RequestKeeps

LEMMA DeleteBondsKeeps ==
    ASSUME Inv(db), DeleteBonds
    PROVE  Inv(db')
<1>1. PICK ids : ids = db.used \ db.deleted
    OBVIOUS
<1>2. ids \subseteq Peers /\ ids # {}
    BY <1>1, Types DEF Inv, DeleteBonds
<1>3. PICK N : N = Max(Peers) + 1
    OBVIOUS
<1>4. N \in Nat
    BY <1>2, <1>3, MaxIsNat
<1>5. Request(DeleteAll(db, db.used \ db.deleted, Max(Peers) + 1))
    BY ONLY DeleteBonds DEF DeleteBonds, DeleteAll, DeleteOne
<1>6. PICK s : s = DeleteAll(db, ids, N)
    OBVIOUS
<1>7. Inv(s) /\ s.left = db.left
    BY <1>2, <1>4, <1>6, DeleteAllDoes
<1> QED
    BY <1>1, <1>3, <1>5, <1>6, <1>7, RequestKeeps

LEMMA QueueProcessKeeps ==
    ASSUME Inv(db), QueueProcess
    PROVE  Inv(db')
<1>1. PICK op : op = Head(db.queue)
    OBVIOUS
<1>2. ~db.fault /\ db.queue # <<>> /\ db' = Outcome(Process(db, op))
    BY <1>1 DEF QueueProcess, Processing
<1> QED
    BY <1>1, <1>2, ProcessDoes

LEMMA FlashDoneKeeps ==
    ASSUME Inv(db), FlashDone
    PROVE  Inv(db')
<1>1. PICK op : op = Head(db.queue)
    OBVIOUS
<1>2. ~db.fault /\ db.running /\ db.queue # <<>> /\ db' = Outcome(FlashDoneStep(db, op))
    BY <1>1 DEF FlashDone, FlashBusy, Inv, Between
<1> QED
    BY <1>1, <1>2, FlashDoneDoes

LEMMA FlashTimeoutKeeps ==
    ASSUME Inv(db), FlashTimeout
    PROVE  Inv(db')
<1>1. db.left \in Budget /\ db.left.timeouts > 0
    BY DEF FlashTimeout, Inv, Typed, States
<1>2. PICK left : left = [db.left EXCEPT !.timeouts = db.left.timeouts - 1]
    OBVIOUS
<1>3. left \in Budget
    BY <1>1, <1>2, PeerDatabaseAssumption DEF Budget
<1>4. PICK s : s = [db EXCEPT !.left = left]
    OBVIOUS
<1>5. Typed(s) /\ Same({"left"}, db, s)
    BY <1>3, <1>4, LeftTyped DEF Inv
<1>6. Inv(s)
    BY <1>5, LeftFrame
<1>7. s.queue = db.queue /\ s.fault = db.fault
    BY <1>5 DEF Same, Fields
<1>8. PICK op : op = Head(s.queue)
    OBVIOUS
<1>9. PICK out \in TimeoutSteps(s, op) : db' = Outcome(out)
  <2>1. s = [db EXCEPT !.left.timeouts = @ - 1]
    BY <1>2, <1>4
  <2> QED
    BY <2>1, <1>7, <1>8 DEF FlashTimeout
<1>10. ~s.fault /\ s.queue # <<>>
    BY <1>7 DEF FlashTimeout, FlashBusy, Inv, Between
<1> QED
    BY <1>6, <1>8, <1>9, <1>10, TimeoutDoes

LEMMA ResetKeeps ==
    ASSUME Inv(db), Reset
    PROVE  Inv(db')
<1>1. PICK s \in AfterReset(db) :
          db' = PdbBoot(s.flash, s.garbage, [s.left EXCEPT !.resets = @ - 1])
    BY DEF Reset
<1>2. /\ s.flash \subseteq Records /\ IsFiniteSet(s.flash) /\ s.garbage \in 0..Places
      /\ s.left = db.left
    BY AfterResetDoes
<1>3. db.left \in Budget /\ db.left.resets > 0
    BY DEF Reset, Inv, Typed, States
<1>4. PICK left : left = [s.left EXCEPT !.resets = s.left.resets - 1]
    OBVIOUS
<1>5. left \in Budget
    BY <1>2, <1>3, <1>4, PeerDatabaseAssumption DEF Budget
<1>6. db' = PdbBoot(s.flash, s.garbage, left)
    BY <1>1, <1>4
<1> QED
    BY <1>2, <1>5, <1>6, BootDoes

\* The invariant holds from the start and in every step: of a handler, of the
\* loop of queue_process, of the flash, and when the device is switched off
\* and on.
THEOREM Invariance == Spec => []Inductive
<1>1. Init => Inductive
    BY InitHolds
<1>2. Inductive /\ [Next]_vars => Inductive'
  <2> SUFFICES ASSUME Inv(db), [Next]_vars PROVE Inv(db')
    <3>1. Inductive' <=> Inv(db')
      BY DEF Inductive, Inv, Holds
    <3> QED
      BY <3>1, InvIs
  <2>1. CASE Connected
    BY <2>1, ConnectedKeeps
  <2>2. CASE Disconnected
    BY <2>2, DisconnectedKeeps
  <2>3. CASE SecParamsRequest
    BY <2>3, SecParamsRequestKeeps
  <2>4. CASE AuthFailed
    BY <2>4, AuthFailedKeeps
  <2>5. CASE AuthBonded
    BY <2>5, AuthBondedKeeps
  <2>6. CASE CccdWritten
    BY <2>6, CccdWrittenKeeps
  <2>7. CASE DeleteBonds
    BY <2>7, DeleteBondsKeeps
  <2>8. CASE QueueProcess
    BY <2>8, QueueProcessKeeps
  <2>9. CASE FlashDone
    BY <2>9, FlashDoneKeeps
  <2>10. CASE FlashTimeout
    BY <2>10, FlashTimeoutKeeps
  <2>11. CASE Reset
    BY <2>11, ResetKeeps
  <2>12. CASE UNCHANGED vars
    BY <2>12 DEF vars
  <2> QED
    BY <2>1, <2>2, <2>3, <2>4, <2>5, <2>6, <2>7, <2>8, <2>9, <2>10, <2>11, <2>12 DEF Next
<1> QED
    BY <1>1, <1>2, PTL DEF Spec

-----------------------------------------------------------------------------
(* What follows from the invariant.                                        *)

LEMMA QueueIs ==
    ASSUME Inductive
    PROVE  /\ db.queue \in Seq(Operations) /\ Len(db.queue) \in Nat
           /\ DOMAIN db.queue = 1..Len(db.queue)
           /\ Writes = WritesFrom(db, 1)
           /\ Len(db.queue) >= 1 => db.queue # <<>>
<1>1. db.queue \in Seq(Operations) /\ Len(db.queue) \in Nat
    BY Types DEF Inductive
<1>2. DOMAIN db.queue = 1..Len(db.queue)
    BY <1>1
<1>3. Writes = WritesFrom(db, 1)
    BY <1>2 DEF Writes, Ops, WritesFrom, IsWrite
<1> QED
    BY <1>1, <1>2, <1>3

\* All that is kept has its type: an id is one of those that exist, or none,
\* and the queue of the flash data storage is never longer than it may be.
THEOREM TypeCorrect == Spec => []TypeOK
<1>1. Inductive => TypeOK
  <2> SUFFICES ASSUME Inductive PROVE TypeOK
    OBVIOUS
  <2>1. db \in States /\ Len(db.queue) <= QueueSize /\ Between(db)
    BY DEF Inductive, Typed
  <2>2. db.buf \in [Buffers -> [peer : Peers \cup {PeerIdInvalid},
                                data : {"bonding", "local", "none"},
                                prepared : BOOLEAN, token : Nat, busy : BOOLEAN,
                                full : BOOLEAN]]
    <3>1. ASSUME NEW r \in BufferRecords
          PROVE  r \in [peer : Peers \cup {PeerIdInvalid}, data : {"bonding", "local", "none"},
                        prepared : BOOLEAN, token : Nat, busy : BOOLEAN, full : BOOLEAN]
      <4>1. CASE r = Unused
        BY <4>1 DEF Unused, StoreTokenInvalid
      <4>2. CASE r # Unused
        BY <4>2 DEF BufferRecords, Datas
      <4> QED
        BY <4>1, <4>2
    <3>2. db.buf \in [Buffers -> BufferRecords]
      BY <2>1 DEF States
    <3> QED
      BY <3>1, <3>2
  <2>3. \A r \in db.flash : r.peer \in Peers /\ r.data \in {"bonding", "local"}
    BY <2>1 DEF States, Records, Datas
  <2>4. \A b \in {db.running, db.carried, db.ongoing, db.pending, db.update,
                  db.lock, db.fault, db.failed} : b \in BOOLEAN
    BY <2>1 DEF States
  <2>5. /\ db.garbage \in 0..Places /\ db.reserved \in -1..Places
        /\ db.deleted \subseteq Peers /\ db.used \subseteq Peers
        /\ db.left \in Budget /\ db.peer \in Peers \cup {PeerIdInvalid}
        /\ db.link \in {"none", "up", "gone"}
        /\ db.proc \in {"none", "pairing", "busy", "full"}
    BY <2>1 DEF States
  <2> QED
    BY <2>1, <2>2, <2>3, <2>4, <2>5 DEF TypeOK, Between
<1> QED
    BY <1>1, Invariance, PTL

\* A buffer that is being stored belongs to exactly one write of the queue, of
\* the same data, and each write to a buffer: no write takes its data from a
\* buffer that has been given away (peer_database.c, pdb_pds_evt_handler).
THEOREM BuffersAreQueuedOnce == Spec => []QueuedOnce
<1>1. Inductive => QueuedOnce
  <2> SUFFICES ASSUME Inductive, ~db.fault PROVE QueuedOnce
    BY DEF QueuedOnce
  <2>1. TokensOK(db, 1)
    BY DEF Inductive
  <2>2. ASSUME NEW b \in Buffers, db.buf[b].token # StoreTokenInvalid
        PROVE  /\ ~db.buf[b].busy /\ ~db.buf[b].full
               /\ Cardinality({k \in Writes : db.queue[k].token = db.buf[b].token}) = 1
    <3>1. db.buf[b].token # 0
      BY <2>2 DEF StoreTokenInvalid
    <3>2. PICK k \in 1..Len(db.queue) : WaitsFor(db, b, k)
      BY <3>1, <2>1 DEF TokensOK
    <3>3. {j \in Writes : db.queue[j].token = db.buf[b].token} = {k}
      <4>1. k \in Writes /\ db.queue[k].token = db.buf[b].token
        BY <3>2, QueueIs DEF WaitsFor, WritesFrom
      <4>2. \A j \in Writes : db.queue[j].token = db.buf[b].token => j = k
        BY <4>1, <3>1, <2>1, QueueIs DEF TokensOK, WritesFrom
      <4> QED
        BY <4>1, <4>2
    <3>4. Cardinality({k}) = 1
      BY FS_Singleton
    <3> QED
      BY <3>1, <3>3, <3>4, <2>1 DEF TokensOK
  <2>3. ASSUME NEW k \in Writes
        PROVE  \E b \in Buffers : /\ db.buf[b].token = db.queue[k].token
                                  /\ db.buf[b].peer = db.queue[k].peer
                                  /\ db.buf[b].data = db.queue[k].data
    <3>1. k \in 1..Len(db.queue) /\ IsWrite(db.queue[k])
      BY QueueIs DEF WritesFrom
    <3> QED
      BY <3>1, <2>1 DEF TokensOK, WaitsFor
  <2> QED
    BY <2>2, <2>3 DEF QueuedOnce
<1> QED
    BY <1>1, Invariance, PTL

\* As long as an id is to be deleted exactly one deletion of a file is in the
\* queue (peer_data_storage.c, peer_data_delete).
THEOREM DeletionsNeverStop == Spec => []DeletionGoesOn
<1>1. Inductive => DeletionGoesOn
  <2> SUFFICES ASSUME Inductive, ~db.fault PROVE DeletionGoesOn
    BY DEF DeletionGoesOn
  <2>1. DeletionsOK(db, 1) /\ DeletionsGoOn(db)
    BY DEF Inductive
  <2>2. Ops({"deleteFile"}) = {k \in 1..Len(db.queue) : IsDeletion(db, k)}
    BY QueueIs DEF Ops, IsDeletion
  <2>3. CASE db.ongoing
    <3>1. PICK k \in 1..Len(db.queue) : IsDeletion(db, k)
      BY <2>1, <2>3 DEF DeletionsOK
    <3>2. Ops({"deleteFile"}) = {k}
      BY <3>1, <2>1, <2>2 DEF DeletionsOK
    <3>3. Cardinality({k}) = 1
      BY FS_Singleton
    <3> QED
      BY <3>2, <3>3, <2>1, <2>3 DEF DeletionGoesOn, DeletionsGoOn
  <2>4. CASE ~db.ongoing
    <3>1. Ops({"deleteFile"}) = {}
      BY <2>1, <2>2, <2>4 DEF DeletionsOK
    <3>2. Cardinality(Ops({"deleteFile"})) = 0
      BY <3>1, FS_EmptySet
    <3> QED
      BY <3>2, <2>1, <2>4 DEF DeletionGoesOn, DeletionsGoOn
  <2> QED
    BY <2>3, <2>4
<1> QED
    BY <1>1, Invariance, PTL

\* Until an operation fails, the places set aside are those of the writes in
\* the queue and of the pairings that have prepared their bond: none is kept
\* after a pairing that came to nothing (pdb_write_buf_release).
THEOREM SpaceIsHeld == Spec => []SpaceHeld
<1>1. Inductive => SpaceHeld
  <2> SUFFICES ASSUME Inductive, ~db.fault, ~db.failed PROVE SpaceHeld
    BY DEF SpaceHeld
  <2>1. db.reserved = Cardinality(WritesFrom(db, 1)) + Cardinality(PreparedOnes(db))
    BY DEF Inductive, SpaceOK
  <2>2. Writes = WritesFrom(db, 1)
    BY QueueIs
  <2>3. PreparedOnes(db) = {b \in Buffers : db.buf[b].prepared /\ ~Stored(db.buf[b])}
    BY DEF PreparedOnes, IsAside
  <2> QED
    BY <2>1, <2>2, <2>3 DEF SpaceHeld
<1> QED
    BY <1>1, Invariance, PTL

\* Whoever waits will be woken: what is busy has an operation in the queue
\* whose end looks at it again, what found no room a garbage collection
\* (sm_pdb_evt_handler, gcm_pdb_evt_handler, reattempt_previous_operations).
THEOREM NobodyWaitsInVain == Spec => []WaitersAreWoken
<1>1. Inductive => WaitersAreWoken
  <2> SUFFICES ASSUME Inductive, ~db.fault PROVE WaitersAreWoken
    BY DEF WaitersAreWoken
  <2>1. TokensOK(db, 1) /\ WakeOK(db, 1)
    BY DEF Inductive
  <2>2. HasGc(db, 1) => Ops({"gc"}) # {} /\ Len(db.queue) >= 1
    BY QueueIs DEF HasGc, Ops
  <2>3. ASSUME SomeStored(db) PROVE db.queue # <<>>
    <3>1. PICK b \in Buffers : Stored(db.buf[b])
      BY <2>3 DEF SomeStored
    <3>2. CASE db.buf[b].busy
      BY <3>2, <2>1, QueueIs DEF WakeOK, BusyWake
    <3>3. CASE db.buf[b].full
      BY <3>3, <2>1, <2>2, QueueIs DEF WakeOK, FullWake
    <3>4. CASE db.buf[b].token # StoreTokenInvalid
      <4>1. \E k \in 1..Len(db.queue) : WaitsFor(db, b, k)
        BY <3>4, <2>1 DEF TokensOK, StoreTokenInvalid
      <4>2. Len(db.queue) >= 1
        BY <4>1, QueueIs
      <4> QED
        BY <4>2, QueueIs
    <3> QED
      BY <3>1, <3>2, <3>3, <3>4 DEF Stored
  <2>4. db.lock => \E b \in Buffers : db.buf[b].data = "local" /\ Stored(db.buf[b])
    BY <2>1 DEF WakeOK, LockHeld
  <2>5. \/ db.proc = "busy"
        \/ db.update /\ db.link # "none"
        \/ \E b \in Buffers : db.buf[b].busy
        => db.queue # <<>>
    BY <2>1, <2>3 DEF WakeOK, Waiting, SomeStored, Stored
  <2>6. db.proc = "full" \/ (\E b \in Buffers : db.buf[b].full) => Ops({"gc"}) # {}
    BY <2>1, <2>2 DEF WakeOK, FullWake, ProcWakes
  <2> QED
    BY <2>4, <2>5, <2>6 DEF WaitersAreWoken
<1> QED
    BY <1>1, Invariance, PTL
===============================================================================
