------------------------- MODULE PacketHandlerProofs -------------------------
(***************************************************************************)
(* Proofs about PacketHandler, for every number of clients, sockets,       *)
(* packets and connections: the packets in the pool, the one in the hands  *)
(* of the handling task and the ones in an out_queue never get mixed up.   *)
(* Then the race on connections_pool, and the sockets that ConnectionInfos *)
(* name.                                                                   *)
(***************************************************************************)
EXTENDS PacketHandler, FiniteSetTheorems, TLAPS

-----------------------------------------------------------------------------
(* What pool_get and pool_release do to a pool in which no item is free     *)
(* twice                                                                   *)

\* No item is free twice, each one was made, and no more are free than made.
GoodPool(pool) ==
    /\ \A m, n \in DOMAIN pool.free : pool.free[m] = pool.free[n] => m = n
    /\ \A n \in DOMAIN pool.free : pool.free[n] \in 1..pool.size
    /\ Len(pool.free) <= pool.size

\* Item p is out: the pool made it and it is not free.
Out(pool, p) == p \in 1..pool.size /\ \A k \in DOMAIN pool.free : pool.free[k] # p

(***************************************************************************)
(* pool_get, where it does not refuse, hands out an item that was not out; *)
(* every other item that was out still is.                                 *)
(***************************************************************************)
LEMMA PoolGetGood ==
    ASSUME NEW max \in Nat, NEW pool \in PoolType(max), GoodPool(pool), ~Exhausted(pool, max)
    PROVE  /\ PoolGet(pool) \in PoolType(max)
           /\ GoodPool(PoolGet(pool))
           /\ PoolItem(pool) \in 1..max
           /\ Out(PoolGet(pool), PoolItem(pool))
           /\ ~Out(pool, PoolItem(pool))
           /\ Len(PoolGet(pool).free) < PoolGet(pool).size
           /\ \A p : Out(pool, p) => Out(PoolGet(pool), p)
<1> DEFINE f == pool.free
           n == Len(f)
           q == PoolGet(pool)
<1>1. f \in Seq(1..max) /\ pool.size \in 0..max /\ n \in Nat /\ DOMAIN f = 1..n
    BY DEF PoolType
<1>2. CASE f = <<>>
    <2>1. pool.size # max
        BY <1>2 DEF Exhausted
    <2>2. PoolItem(pool) = pool.size + 1 /\ q = [free |-> <<>>, size |-> pool.size + 1]
        BY <1>1, <1>2 DEF PoolItem, PoolGet, PoolType
    <2> QED
        BY <1>1, <1>2, <2>1, <2>2 DEF GoodPool, Out, PoolType
<1>3. CASE f # <<>>
    <2>1. n \in Nat \ {0}
        BY <1>1, <1>3
    <2>2. PoolItem(pool) = f[n] /\ q = [free |-> SubSeq(f, 1, n - 1), size |-> pool.size]
        BY <1>1, <1>3 DEF PoolItem, PoolGet, PoolType
    <2>3. /\ SubSeq(f, 1, n - 1) \in Seq(1..max)
          /\ Len(SubSeq(f, 1, n - 1)) = n - 1
          /\ \A k \in 1..(n - 1) : SubSeq(f, 1, n - 1)[k] = f[k]
        BY <1>1, <2>1
    <2>4. q.free = SubSeq(f, 1, n - 1) /\ q.size = pool.size /\ DOMAIN q.free = 1..(n - 1)
        BY <2>1, <2>2, <2>3
    <2>5. q \in PoolType(max)
        BY <1>1, <2>2, <2>3 DEF PoolType
    <2>6. GoodPool(q)
        <3>1. \A k \in 1..(n - 1) : k \in DOMAIN f /\ q.free[k] = f[k]
            BY <1>1, <2>1, <2>3, <2>4
        <3>2. \A i, j \in DOMAIN q.free : q.free[i] = q.free[j] => i = j
            BY <2>4, <3>1 DEF GoodPool
        <3>3. \A k \in DOMAIN q.free : q.free[k] \in 1..q.size
            BY <2>4, <3>1 DEF GoodPool
        <3>4. Len(q.free) <= q.size
            BY <1>1, <2>1, <2>3, <2>4 DEF GoodPool
        <3> QED
            BY <3>2, <3>3, <3>4 DEF GoodPool
    <2>7. f[n] \in 1..max /\ f[n] \in 1..pool.size
        BY <1>1, <2>1 DEF GoodPool
    <2>8. Out(q, f[n])
        <3>1. \A k \in 1..(n - 1) : k \in DOMAIN f /\ k # n /\ q.free[k] = f[k]
            BY <1>1, <2>1, <2>3, <2>4
        <3>2. n \in DOMAIN f
            BY <1>1, <2>1
        <3>3. \A k \in DOMAIN q.free : q.free[k] # f[n]
            BY <2>4, <3>1, <3>2 DEF GoodPool
        <3> QED
            BY <2>4, <2>7, <3>3 DEF Out
    <2>9. ~Out(pool, f[n])
        BY <1>1, <2>1 DEF Out
    <2>10. \A p : Out(pool, p) => Out(q, p)
        BY <1>1, <2>1, <2>3, <2>4 DEF Out
    <2>11. Len(q.free) < q.size
        BY <1>1, <2>1, <2>3, <2>4 DEF GoodPool
    <2> QED
        BY <2>2, <2>5, <2>6, <2>7, <2>8, <2>9, <2>10, <2>11
<1> QED
    BY <1>2, <1>3

(***************************************************************************)
(* pool_release of an item that is out keeps it, on top, and every other   *)
(* item that is out stays so.                                              *)
(***************************************************************************)
LEMMA PoolReleaseGood ==
    ASSUME NEW max \in Nat, NEW pool \in PoolType(max), GoodPool(pool),
           NEW p, Out(pool, p), Len(pool.free) < pool.size
    PROVE  /\ PoolRelease(pool, p) \in PoolType(max)
           /\ GoodPool(PoolRelease(pool, p))
           /\ PoolRelease(pool, p) = [free |-> Append(pool.free, p), size |-> pool.size]
           /\ \A r : r # p /\ Out(pool, r) => Out(PoolRelease(pool, p), r)
           /\ \A k \in DOMAIN PoolRelease(pool, p).free :
                 PoolRelease(pool, p).free[k] = p => k = Len(PoolRelease(pool, p).free)
<1> DEFINE f == pool.free
           n == Len(f)
           q == PoolRelease(pool, p)
<1>1. f \in Seq(1..max) /\ pool.size \in 0..max /\ n \in Nat /\ DOMAIN f = 1..n
    BY DEF PoolType
<1>2. q = [free |-> Append(f, p), size |-> pool.size]
    <2>1. ~Complete(pool)
        BY <1>1 DEF Complete
    <2> QED
        BY <1>1, <2>1 DEF PoolRelease, PoolType
<1>3. p \in 1..max
    BY <1>1 DEF Out
<1>4. /\ Append(f, p) \in Seq(1..max)
      /\ Len(Append(f, p)) = n + 1
      /\ \A k \in 1..n : Append(f, p)[k] = f[k]
      /\ Append(f, p)[n + 1] = p
    BY <1>1, <1>3
<1>5. q.free = Append(f, p) /\ q.size = pool.size /\ DOMAIN q.free = 1..(n + 1)
    BY <1>1, <1>2, <1>4
<1>6. q \in PoolType(max)
    BY <1>1, <1>2, <1>4 DEF PoolType
<1>7. GoodPool(q)
    <2>1. \A k \in 1..n : k \in DOMAIN f /\ q.free[k] = f[k] /\ f[k] # p
        BY <1>1, <1>4, <1>5 DEF Out
    <2>2. q.free[n + 1] = p /\ DOMAIN q.free = 1..n \cup {n + 1}
        BY <1>1, <1>4, <1>5
    <2>3. \A i, j \in DOMAIN q.free : q.free[i] = q.free[j] => i = j
        BY <2>1, <2>2 DEF GoodPool
    <2>4. \A k \in DOMAIN q.free : q.free[k] \in 1..q.size
        BY <1>5, <2>1, <2>2 DEF GoodPool, Out
    <2>5. Len(q.free) <= q.size
        BY <1>1, <1>4, <1>5
    <2> QED
        BY <2>3, <2>4, <2>5 DEF GoodPool
<1>8. \A r : r # p /\ Out(pool, r) => Out(q, r)
    BY <1>1, <1>4, <1>5 DEF Out
<1>9. \A k \in DOMAIN q.free : q.free[k] = p => k = Len(q.free)
    BY <1>1, <1>4, <1>5 DEF Out
<1> QED
    BY <1>2, <1>6, <1>7, <1>8, <1>9

(***************************************************************************)
(* Whatever it is given, pool_release yields a pool.                       *)
(***************************************************************************)
LEMMA PoolReleaseType ==
    ASSUME NEW max \in Nat, NEW pool \in PoolType(max), NEW p \in 1..max
    PROVE  PoolRelease(pool, p) \in PoolType(max)
BY DEF PoolRelease, PoolType

(***************************************************************************)
(* pool_get yields a pool where it does not refuse, sound or not.          *)
(***************************************************************************)
LEMMA PoolGetType ==
    ASSUME NEW max \in Nat, NEW pool \in PoolType(max), ~Exhausted(pool, max)
    PROVE  PoolGet(pool) \in PoolType(max) /\ PoolItem(pool) \in 1..max
<1> DEFINE f == pool.free
<1>1. f \in Seq(1..max) /\ pool.size \in 0..max /\ Len(f) \in Nat
    BY DEF PoolType
<1>2. CASE f = <<>>
    BY <1>1, <1>2 DEF PoolGet, PoolItem, PoolType, Exhausted
<1>3. CASE f # <<>>
    <2>1. Len(f) \in Nat \ {0}
        BY <1>1, <1>3
    <2>2. SubSeq(f, 1, Len(f) - 1) \in Seq(1..max) /\ f[Len(f)] \in 1..max
        BY <1>1, <2>1
    <2> QED
        BY <1>1, <1>3, <2>2 DEF PoolGet, PoolItem, PoolType
<1> QED
    BY <1>2, <1>3

(***************************************************************************)
(* As long as an item is out, pool_release does not refuse.                *)
(***************************************************************************)
LEMMA OutMissing ==
    ASSUME NEW max \in Nat, NEW pool \in PoolType(max), GoodPool(pool), NEW p, Out(pool, p)
    PROVE  Len(pool.free) < pool.size
<1> DEFINE f == pool.free
           n == Len(f)
           T == (1..pool.size) \ {p}
<1>1. f \in Seq(1..max) /\ pool.size \in Nat /\ n \in Nat /\ DOMAIN f = 1..n
    BY DEF PoolType
<1>2. f \in [1..n -> T]
    BY <1>1 DEF GoodPool, Out
<1>0. ASSUME NEW z \in Nat PROVE IsFiniteSet(1..z) /\ Cardinality(1..z) = z
    <2>1. 1 \in Int /\ z \in Int
        OBVIOUS
    <2>2. IsFiniteSet(1..z) /\ Cardinality(1..z) = IF 1 > z THEN 0 ELSE z - 1 + 1
        BY <2>1, FS_Interval
    <2> QED
        BY <2>2
<1>3. IsFiniteSet(1..n) /\ Cardinality(1..n) = n
    BY <1>0, <1>1
<1>4. IsFiniteSet(T) /\ Cardinality(T) = pool.size - 1
    <2>1. IsFiniteSet(1..pool.size) /\ Cardinality(1..pool.size) = pool.size
        BY <1>0, <1>1
    <2>2. p \in 1..pool.size
        BY DEF Out
    <2> QED
        BY <2>1, <2>2, FS_RemoveElement
<1>5. ~(pool.size - 1 < n)
    <2> SUFFICES ASSUME Cardinality(T) < Cardinality(1..n) PROVE FALSE
        BY <1>3, <1>4
    <2> HIDE DEF T, n, f
    <2>1. \E x, y \in 1..n : x # y /\ f[x] = f[y]
        BY <1>2, <1>3, <1>4, FS_PigeonHole
    <2> QED
        BY <1>1, <2>1 DEF GoodPool, f
<1> QED
    BY <1>1, <1>5

(***************************************************************************)
(* pool_get takes out the item it hands out, and no other.                 *)
(***************************************************************************)
LEMMA PoolGetExact ==
    ASSUME NEW max \in Nat, NEW pool \in PoolType(max), GoodPool(pool), ~Exhausted(pool, max)
    PROVE  \A p : Out(PoolGet(pool), p) <=> Out(pool, p) \/ p = PoolItem(pool)
<1> DEFINE f == pool.free
           n == Len(f)
           q == PoolGet(pool)
<1>1. f \in Seq(1..max) /\ pool.size \in 0..max /\ n \in Nat /\ DOMAIN f = 1..n
    BY DEF PoolType
<1>2. \A p : Out(pool, p) \/ p = PoolItem(pool) => Out(q, p)
    BY PoolGetGood
<1>3. ASSUME NEW p, Out(q, p), p # PoolItem(pool) PROVE Out(pool, p)
    <2>1. CASE f = <<>>
        <3>1. PoolItem(pool) = pool.size + 1 /\ q.size = pool.size + 1
            BY <1>1, <2>1 DEF PoolItem, PoolGet, PoolType
        <3> QED
            BY <1>1, <1>3, <2>1, <3>1 DEF Out
    <2>2. CASE f # <<>>
        <3>1. n \in Nat \ {0}
            BY <1>1, <2>2
        <3>2. PoolItem(pool) = f[n] /\ q.free = SubSeq(f, 1, n - 1) /\ q.size = pool.size
            BY <1>1, <2>2 DEF PoolItem, PoolGet, PoolType
        <3>3. \A k \in 1..(n - 1) : k \in DOMAIN q.free /\ q.free[k] = f[k]
            BY <1>1, <3>1, <3>2
        <3>4. \A k \in 1..n : f[k] # p
            <4>1. \A k \in 1..(n - 1) : f[k] # p
                BY <1>3, <3>3 DEF Out
            <4>2. f[n] # p
                BY <1>3, <3>2
            <4> QED
                BY <3>1, <4>1, <4>2
        <3> QED
            BY <1>1, <1>3, <3>2, <3>4 DEF Out
    <2> QED
        BY <2>1, <2>2
<1> QED
    BY <1>2, <1>3

(***************************************************************************)
(* pool_release puts back the item it is given, and no other.              *)
(***************************************************************************)
LEMMA PoolReleaseExact ==
    ASSUME NEW max \in Nat, NEW pool \in PoolType(max), GoodPool(pool), NEW p, Out(pool, p)
    PROVE  \A r : Out(PoolRelease(pool, p), r) <=> Out(pool, r) /\ r # p
<1> DEFINE f == pool.free
           n == Len(f)
           q == PoolRelease(pool, p)
<1>1. f \in Seq(1..max) /\ pool.size \in 0..max /\ n \in Nat /\ DOMAIN f = 1..n /\ p \in 1..max
    BY DEF PoolType, Out
<1>2. q = [free |-> Append(f, p), size |-> pool.size]
    BY OutMissing, PoolReleaseGood
<1>3. /\ q.size = pool.size /\ DOMAIN q.free = 1..n \cup {n + 1} /\ q.free[n + 1] = p
      /\ \A k \in 1..n : q.free[k] = f[k]
    BY <1>1, <1>2
<1> QED
    BY <1>1, <1>3 DEF Out

-----------------------------------------------------------------------------
(* The invariants of the packets *)

StoreType == [ pool : PoolType(MaxPackets), queue : Seq(Entries),
               buf : [Packets -> PacketTypeSet], status : {"ok", "fail", "restart"} ]

\* The replies in a queue: distinct packets, intact, for client c.
GoodQueue(queue, contents, c) ==
    /\ \A m, n \in DOMAIN queue : queue[m].pkt = queue[n].pkt => m = n
    /\ \A n \in DOMAIN queue :
          /\ queue[n].to = c
          /\ queue[n].want # "memory" => contents[queue[n].pkt].body = queue[n].want

\* Every queued packet is out.
QueueOut(pool, queue) == \A n \in DOMAIN queue : Out(pool, queue[n].pkt)

\* The same but for the packet released last, which may be queued.
QueueOutButLast(pool, queue) ==
    \A n \in DOMAIN queue :
        /\ queue[n].pkt \in 1..pool.size
        /\ \A k \in DOMAIN pool.free : pool.free[k] = queue[n].pkt => k = Len(pool.free)

\* What a handler is given and what it leaves, p being the request's packet.
GoodStore(st, p, c) ==
    /\ st \in StoreType
    /\ GoodPool(st.pool)
    /\ Len(st.pool.free) < st.pool.size
    /\ Out(st.pool, p)
    /\ GoodQueue(st.queue, st.buf, c)
    /\ QueueOut(st.pool, st.queue)

\* The request's packet is not queued yet.
NotQueued(st, p) == \A n \in DOMAIN st.queue : st.queue[n].pkt # p

\* From the request to the last of its replies; and while its packet is out.
Holding == {"dispatch", "close", "closed", "free", "freeing", "release"}
Working == Holding \cup {"recv", "drain", "restart"}

(***************************************************************************)
(* What is known of the packets at each point of the handling task's loop. *)
(***************************************************************************)
PacketInv ==
    /\ hpc = "check" => \A h \in read_fd : sock[h] # None
    /\ hpc \in Working => info \in Infos /\ hndl \in Handles
    /\ hpc \in {"recv", "dispatch"} => sock[hndl] # None
    /\ GoodPool(packets_pool)
    /\ hpc \in {"refuse", "refused"} => info \in Infos
    /\ hpc \in Holding => Out(packets_pool, packet) /\ Len(packets_pool.free) < packets_pool.size
    /\ QueuesDrained
    /\ hpc \in {"release", "drain", "restart"} => GoodQueue(out_queue[info], buf, sock[hndl])
    /\ hpc = "release" => QueueOut(packets_pool, out_queue[info])
    /\ hpc = "drain" => QueueOutButLast(packets_pool, out_queue[info])

ListenInv == lpc \in {"fill", "enqueue"} => linfo \in Infos

(***************************************************************************)
(* The copies of the counters of connections_pool.  That of pool_get is    *)
(* never above free_items, which only grows until pool_get has stored its  *)
(* own value.  That of pool_release is never below free_items, which only  *)
(* pool_get has changed since, and below pool_size by the test.            *)
(***************************************************************************)
GetOrder ==
    /\ gpc = "make" => pool_size < MaxConns
    /\ gpc \in {"pop", "count"} => 1 <= gfree /\ gfree <= free_items
    /\ gpc = "store" => gleft < free_items

ReleaseOrder ==
    /\ rpc = "test" => free_items <= rsize /\ rsize <= pool_size
    /\ rpc = "index" => free_items <= rfree /\ rfree < pool_size
    /\ rpc \in {"write", "write_count"} => free_items <= rindex
    /\ rpc \in {"write", "write_data", "write_count"} => rindex < pool_size

PoolInv ==
    /\ PoolTypeOK /\ raced \in BOOLEAN
    /\ free_items <= pool_size /\ GetOrder /\ ReleaseOrder

\* The inductive invariant.
IInv == TypeOK /\ PoolInv /\ ListenInv /\ PacketInv

-----------------------------------------------------------------------------
(* What the handlers do to the store. *)

\* A queue of replies stays good when an intact reply of another packet
\* is appended.
LEMMA AppendGood ==
    ASSUME NEW queue \in Seq(Entries), NEW contents, NEW c, NEW e \in Entries,
           GoodQueue(queue, contents, c),
           \A n \in DOMAIN queue : queue[n].pkt # e.pkt,
           e.to = c, e.want # "memory" => contents[e.pkt].body = e.want
    PROVE  GoodQueue(Append(queue, e), contents, c)
<1> DEFINE q == Append(queue, e)
           l == Len(queue)
<1>1. /\ l \in Nat /\ DOMAIN queue = 1..l /\ DOMAIN q = 1..l \cup {l + 1}
      /\ \A n \in 1..l : q[n] = queue[n] /\ n # l + 1
      /\ q[l + 1] = e
    OBVIOUS
<1> HIDE DEF q, l
<1>2. \A m, n \in DOMAIN q : q[m].pkt = q[n].pkt => m = n
    BY <1>1 DEF GoodQueue
<1>3. \A n \in DOMAIN q : q[n].to = c /\ (q[n].want # "memory" => contents[q[n].pkt].body = q[n].want)
    BY <1>1 DEF GoodQueue
<1>4. GoodQueue(q, contents, c)
    BY <1>2, <1>3 DEF GoodQueue
<1> QED
    BY <1>4 DEF q

\* write_packet keeps or drops a reply and touches nothing else.
LEMMA WriteResult ==
    ASSUME NEW st \in StoreType, NEW e \in Entries, NEW r \in WritePacket(st, e)
    PROVE  /\ r \in StoreType
           /\ r.pool = st.pool /\ r.buf = st.buf /\ r.status = "ok"
           /\ r.queue = st.queue \/ r.queue = Append(st.queue, e)
<1>1. PICK w \in WriteOutcomes :
          r = [st EXCEPT !.queue = IF w = "queued" /\ Len(st.queue) < QueueSize
                                   THEN Append(st.queue, e) ELSE st.queue,
                         !.status = "ok"]
    BY DEF WritePacket
<1>2. Append(st.queue, e) \in Seq(Entries) /\ st.queue \in Seq(Entries)
    BY DEF StoreType
<1> QED
    BY <1>1, <1>2 DEF StoreType

\* Handing a reply of packet e.pkt, which is out, to write_packet.
LEMMA WriteGood ==
    ASSUME NEW st, NEW p, NEW c \in Clients, NEW e \in Entries, NEW r \in WritePacket(st, e),
           GoodStore(st, p, c),
           Out(st.pool, e.pkt), \A n \in DOMAIN st.queue : st.queue[n].pkt # e.pkt,
           e.to = c, e.want # "memory" => st.buf[e.pkt].body = e.want
    PROVE  GoodStore(r, p, c) /\ r.status = "ok" /\ (e.pkt # p /\ NotQueued(st, p) => NotQueued(r, p))
<1>1. st \in StoreType /\ st.queue \in Seq(Entries)
    BY DEF GoodStore, StoreType
<1>2. /\ r \in StoreType
      /\ r.pool = st.pool /\ r.buf = st.buf /\ r.status = "ok"
      /\ r.queue = st.queue \/ r.queue = Append(st.queue, e)
    BY <1>1, WriteResult
<1>3. CASE r.queue = st.queue
    BY <1>2, <1>3 DEF GoodStore, NotQueued
<1>4. CASE r.queue = Append(st.queue, e)
    <2>1. GoodQueue(r.queue, r.buf, c)
        BY <1>1, <1>2, <1>4, AppendGood DEF GoodStore
    <2>2. /\ DOMAIN r.queue = DOMAIN st.queue \cup {Len(st.queue) + 1}
          /\ \A n \in DOMAIN st.queue : r.queue[n] = st.queue[n]
          /\ r.queue[Len(st.queue) + 1] = e
        BY <1>1, <1>4
    <2>3. QueueOut(r.pool, r.queue)
        BY <1>2, <2>2 DEF GoodStore, QueueOut
    <2>4. e.pkt # p /\ NotQueued(st, p) => NotQueued(r, p)
        BY <2>2 DEF NotQueued
    <2> QED
        BY <1>2, <2>1, <2>3, <2>4 DEF GoodStore
<1> QED
    BY <1>2, <1>3, <1>4

\* create_packet leaves the type of a packet's contents.
LEMMA CreatePacketType ==
    ASSUME NEW packet0 \in PacketTypeSet, NEW body \in ReplyKinds \cup {Unknown}
    PROVE  CreatePacket(packet0, body) \in PacketTypeSet
           /\ CreatePacket(packet0, body).body = (IF body = Unknown THEN packet0.body ELSE body)
BY DEF CreatePacket, UpdateHeader, PacketTypeSet, ReplyKinds, Unknown, Bad, MsgTypes

\* Writing into a packet that is not queued disturbs no reply.
LEMMA BufferGood ==
    ASSUME NEW queue, NEW contents \in [Packets -> PacketTypeSet], NEW c, NEW p \in Packets,
           NEW b, GoodQueue(queue, contents, c),
           \A n \in DOMAIN queue : queue[n].pkt # p /\ queue[n].pkt \in Packets
    PROVE  GoodQueue(queue, [contents EXCEPT ![p] = b], c)
BY DEF GoodQueue

\* A packet is taken from the pool and its contents become b.
Take(st, b) == [st EXCEPT !.pool = PoolGet(st.pool), !.buf[PoolItem(st.pool)] = b]

\* Taking a packet from the pool and filling it.
LEMMA TakeGood ==
    ASSUME NEW st, NEW p, NEW c \in Clients, NEW b \in PacketTypeSet,
           GoodStore(st, p, c), ~Exhausted(st.pool, MaxPackets)
    PROVE  /\ GoodStore(Take(st, b), p, c)
           /\ PoolItem(st.pool) \in Packets /\ PoolItem(st.pool) # p
           /\ Out(Take(st, b).pool, PoolItem(st.pool))
           /\ NotQueued(Take(st, b), PoolItem(st.pool))
           /\ Take(st, b).queue = st.queue
           /\ Take(st, b).buf = [st.buf EXCEPT ![PoolItem(st.pool)] = b]
<1> DEFINE m == PoolItem(st.pool)
           t == Take(st, b)
<1>1. /\ st \in StoreType /\ st.pool \in PoolType(MaxPackets)
      /\ st.buf \in [Packets -> PacketTypeSet] /\ st.queue \in Seq(Entries)
    BY DEF GoodStore, StoreType
<1>2. MaxPackets \in Nat
    BY PoolAssumption
<1>3. /\ PoolGet(st.pool) \in PoolType(MaxPackets)
      /\ GoodPool(PoolGet(st.pool))
      /\ m \in 1..MaxPackets
      /\ Out(PoolGet(st.pool), m)
      /\ ~Out(st.pool, m)
      /\ Len(PoolGet(st.pool).free) < PoolGet(st.pool).size
      /\ \A r : Out(st.pool, r) => Out(PoolGet(st.pool), r)
    BY <1>1, <1>2, PoolGetGood DEF GoodStore
<1>4. m \in Packets
    BY <1>3 DEF Packets
<1>5. /\ t \in StoreType /\ t.queue = st.queue /\ t.buf = [st.buf EXCEPT ![m] = b]
      /\ t.pool = PoolGet(st.pool)
    BY <1>1, <1>3, <1>4 DEF StoreType, Take
<1>6. m # p /\ \A n \in DOMAIN st.queue : st.queue[n].pkt # m
    BY <1>3 DEF GoodStore, QueueOut
<1>7. \A n \in DOMAIN st.queue : st.queue[n].pkt \in Packets
    <2>1. \A n \in DOMAIN st.queue : st.queue[n] \in Entries
        BY <1>1
    <2> QED
        BY <2>1 DEF Entries
<1>8. GoodQueue(t.queue, t.buf, c)
    <2>1. GoodQueue(st.queue, st.buf, c)
        BY DEF GoodStore
    <2>2. GoodQueue(st.queue, [st.buf EXCEPT ![m] = b], c)
        BY <1>1, <1>4, <1>6, <1>7, <2>1, BufferGood
    <2> QED
        BY <1>5, <2>2
<1>9. QueueOut(t.pool, t.queue) /\ Out(t.pool, p)
    BY <1>3, <1>5 DEF GoodStore, QueueOut
<1>10. GoodStore(t, p, c)
    BY <1>3, <1>5, <1>8, <1>9 DEF GoodStore
<1> QED
    BY <1>3, <1>4, <1>5, <1>6, <1>10 DEF NotQueued

\* create_send_packet, whatever comes of it.
LEMMA CreateSendGood ==
    ASSUME NEW st, NEW p, NEW c \in Clients, NEW kind \in ReplyKinds \ {"memory"},
           GoodStore(st, p, c), NotQueued(st, p),
           NEW r \in CreateSendPacket(st, kind, c)
    PROVE  GoodStore(r, p, c) /\ NotQueued(r, p)
<1>1. st \in StoreType
    BY DEF GoodStore
<1>2. CASE Exhausted(st.pool, MaxPackets)
    <2>1. r = [st EXCEPT !.status = "fail"]
        BY <1>2 DEF CreateSendPacket
    <2>2. r \in StoreType /\ r.pool = st.pool /\ r.queue = st.queue /\ r.buf = st.buf
        BY <1>1, <2>1 DEF StoreType
    <2> QED
        BY <2>2 DEF GoodStore, NotQueued
<1>3. CASE ~Exhausted(st.pool, MaxPackets)
    <2> DEFINE m == PoolItem(st.pool)
               b == CreatePacket(st.buf[m], kind)
               t == [st EXCEPT !.pool = PoolGet(st.pool), !.buf[m] = b]
               e == Entry(m, kind, c)
    <2>1. r \in WritePacket(t, e)
        BY <1>3 DEF CreateSendPacket
    <2>2. m \in Packets
        <3>1. st.pool \in PoolType(MaxPackets) /\ MaxPackets \in Nat
            BY <1>1, PoolAssumption DEF StoreType
        <3> QED
            BY <1>3, <3>1, PoolGetType DEF Packets
    <2>3. b \in PacketTypeSet /\ b.body = kind
        <3>1. st.buf[m] \in PacketTypeSet
            BY <1>1, <2>2 DEF StoreType
        <3>2. kind # Unknown
            BY DEF ReplyKinds, Unknown
        <3> QED
            BY <3>1, <3>2, CreatePacketType
    <2>4. /\ GoodStore(t, p, c)
          /\ m # p /\ Out(t.pool, m) /\ NotQueued(t, m)
          /\ t.queue = st.queue /\ t.buf = [st.buf EXCEPT ![m] = b]
        <3>1. t = Take(st, b)
            BY DEF Take
        <3> HIDE DEF b, t
        <3> QED
            BY <1>3, <2>3, <3>1, TakeGood
    <2>5. e \in Entries /\ e.pkt = m /\ e.to = c /\ e.want = kind
        BY <2>2 DEF Entry, Entries
    <2>6. t.buf[m].body = kind
        BY <1>1, <2>2, <2>3, <2>4 DEF StoreType
    <2>7. NotQueued(t, p)
        BY <2>4 DEF NotQueued
    <2>8. \A n \in DOMAIN t.queue : t.queue[n].pkt # e.pkt
        BY <2>4, <2>5 DEF NotQueued
    <2>9. e.pkt # p /\ Out(t.pool, e.pkt) /\ t.buf[e.pkt].body = e.want
        BY <2>4, <2>5, <2>6
    <2> HIDE DEF m, b, t, e
    <2>10. e \in Entries /\ e.to = c /\ GoodStore(t, p, c) /\ NotQueued(t, p)
        BY <2>4, <2>5, <2>7
    <2> QED
        BY <2>1, <2>8, <2>9, <2>10, WriteGood
<1> QED
    BY <1>2, <1>3

\* send_packet of the request's own packet.
LEMMA SendPacketGood ==
    ASSUME NEW st, NEW p, NEW c \in Clients,
           GoodStore(st, p, c), NotQueued(st, p),
           NEW r \in SendPacket(st, p, "memory", c)
    PROVE  GoodStore(r, p, c)
<1> DEFINE b == CreatePacket(st.buf[p], Unknown)
           t == [st EXCEPT !.buf[p] = b]
           e == Entry(p, "memory", c)
<1>1. r \in WritePacket(t, e)
    BY DEF SendPacket
<1>2. /\ st \in StoreType /\ st.pool \in PoolType(MaxPackets)
      /\ st.buf \in [Packets -> PacketTypeSet] /\ st.queue \in Seq(Entries)
    BY DEF GoodStore, StoreType
<1>3. p \in Packets
    BY <1>2, PoolAssumption DEF GoodStore, Out, PoolType, Packets
<1>4. b \in PacketTypeSet
    BY <1>2, <1>3, CreatePacketType
<1>5. /\ t \in StoreType /\ t.queue = st.queue /\ t.buf = [st.buf EXCEPT ![p] = b]
      /\ t.pool = st.pool
    BY <1>2, <1>3, <1>4 DEF StoreType
<1>6. \A n \in DOMAIN st.queue : st.queue[n].pkt # p /\ st.queue[n].pkt \in Packets
    <2>1. \A n \in DOMAIN st.queue : st.queue[n] \in Entries
        BY <1>2
    <2> QED
        BY <2>1 DEF NotQueued, Entries
<1>7. GoodQueue(t.queue, t.buf, c)
    <2> HIDE DEF b, t
    <2>1. GoodQueue(st.queue, st.buf, c)
        BY DEF GoodStore
    <2>2. GoodQueue(st.queue, [st.buf EXCEPT ![p] = b], c)
        BY <1>2, <1>3, <1>6, <2>1, BufferGood
    <2> QED
        BY <1>5, <2>2
<1>8. GoodStore(t, p, c)
    BY <1>5, <1>7 DEF GoodStore
<1>9. e \in Entries /\ e.pkt = p /\ e.to = c /\ e.want = "memory"
    BY <1>3 DEF Entry, Entries, ReplyKinds
<1>10. Out(t.pool, e.pkt) /\ \A n \in DOMAIN t.queue : t.queue[n].pkt # e.pkt
    BY <1>5, <1>6, <1>9 DEF GoodStore
<1> HIDE DEF b, t, e
<1> QED
    BY <1>1, <1>8, <1>9, <1>10, WriteGood

\* A store whose status alone is changed.
LEMMA StatusGood ==
    ASSUME NEW st, NEW p, NEW c, GoodStore(st, p, c), NEW s \in {"ok", "fail", "restart"}
    PROVE  GoodStore([st EXCEPT !.status = s], p, c)
<1> DEFINE t == [st EXCEPT !.status = s]
<1>1. t \in StoreType /\ t.pool = st.pool /\ t.queue = st.queue /\ t.buf = st.buf
    BY DEF GoodStore, StoreType
<1> HIDE DEF t
<1>2. GoodStore(t, p, c)
    BY <1>1 DEF GoodStore
<1> QED
    BY <1>2 DEF t

\* The handler of a read request.
LEMMA ReadGood ==
    ASSUME NEW st, NEW p, NEW c \in Clients,
           GoodStore(st, p, c), NotQueued(st, p),
           NEW r \in ProcessRead(st, p, c)
    PROVE  GoodStore(r, p, c)
<1>1. CASE Exhausted(st.pool, MaxPackets)
    <2>1. r = [st EXCEPT !.status = "fail"]
        BY <1>1 DEF ProcessRead
    <2> QED
        BY <2>1, StatusGood
<1>2. CASE ~Exhausted(st.pool, MaxPackets)
    <2> DEFINE m == PoolItem(st.pool)
               b == [st.buf[m] EXCEPT !.body = "memory"]
               got == [st EXCEPT !.pool = PoolGet(st.pool), !.buf[m].body = "memory"]
               failed == CreateSendPacket(got, "error", c)
    <2>1. st \in StoreType
        BY DEF GoodStore
    <2>2. m \in Packets
        <3>1. st.pool \in PoolType(MaxPackets) /\ MaxPackets \in Nat
            BY <2>1, PoolAssumption DEF StoreType
        <3> QED
            BY <1>2, <3>1, PoolGetType DEF Packets
    <2>3. b \in PacketTypeSet
        BY <2>1, <2>2 DEF StoreType, PacketTypeSet, ReplyKinds
    <2>4. got = [st EXCEPT !.pool = PoolGet(st.pool), !.buf[m] = b]
        BY <2>1, <2>2 DEF StoreType
    <2>5. GoodStore(got, p, c) /\ got.queue = st.queue
        <3>1. got = Take(st, b)
            BY <2>4 DEF Take
        <3>2. \A x \in PacketTypeSet : GoodStore(Take(st, x), p, c)
            BY <1>2, TakeGood, Zenon
        <3>3. got.queue = st.queue
            BY <2>1 DEF StoreType
        <3> QED
            BY <2>3, <3>1, <3>2, <3>3
    <2>6. NotQueued(got, p)
        BY <2>5 DEF NotQueued
    <2>7. r \in {st, got} \cup SendPacket(got, p, "memory", c) \cup failed
               \cup UNION {SendPacket(s, p, "memory", c) : s \in {x \in failed : x.status = "ok"}}
        BY <1>2 DEF ProcessRead
    <2> HIDE DEF got
    <2>8. \A s \in failed : GoodStore(s, p, c) /\ NotQueued(s, p)
        <3>1. "error" \in ReplyKinds \ {"memory"}
            BY DEF ReplyKinds
        <3> QED
            BY <2>5, <2>6, <3>1, CreateSendGood
    <2> HIDE DEF failed
    <2>9. CASE r \in {st, got} \cup failed
        BY <2>5, <2>8, <2>9
    <2>10. CASE r \in SendPacket(got, p, "memory", c)
        BY <2>5, <2>6, <2>10, SendPacketGood
    <2>11. ASSUME NEW s \in failed, r \in SendPacket(s, p, "memory", c)
           PROVE  GoodStore(r, p, c)
        BY <2>8, <2>11, SendPacketGood
    <2> QED
        BY <2>7, <2>9, <2>10, <2>11
<1> QED
    BY <1>1, <1>2

(***************************************************************************)
(* Every handler of controller.c leaves the store as good as it found it:  *)
(* no packet is handed out twice, no reply overwrites another, and the     *)
(* pool still misses the request's packet, so that it can be given back.   *)
(***************************************************************************)
LEMMA ProcessGood ==
    ASSUME NEW type \in Handled, NEW st, NEW p, NEW c \in Clients,
           GoodStore(st, p, c), NotQueued(st, p),
           NEW r \in ProcessPacket(type, st, p, c)
    PROVE  GoodStore(r, p, c)
<1>1. \A kind \in {"answer", "ack", "error"} : \A s :
          GoodStore(s, p, c) /\ NotQueued(s, p)
          => \A x \in CreateSendPacket(s, kind, c) : GoodStore(x, p, c) /\ NotQueued(x, p)
    <2>1. {"answer", "ack", "error"} \subseteq ReplyKinds \ {"memory"}
        BY DEF ReplyKinds
    <2> QED
        BY <2>1, CreateSendGood
<1>2. \A x \in Critical(CreateSendPacket(st, "ack", c)) : GoodStore(x, p, c)
    <2> SUFFICES ASSUME NEW s \in CreateSendPacket(st, "ack", c)
                 PROVE  /\ GoodStore(s, p, c)
                        /\ GoodStore([s EXCEPT !.status = "restart"], p, c)
        BY DEF Critical
    <2> QED
        BY <1>1, StatusGood
<1>3. CASE type = "silent"
    BY <1>3 DEF ProcessPacket, ProcessSilent
<1>4. CASE type = "cmd"
    <2>1. r \in ProcessCmd(st, p, c)
        BY <1>4 DEF ProcessPacket
    <2> QED
        BY <1>1, <2>1 DEF ProcessCmd
<1>5. CASE type = "load"
    BY <1>2, <1>5 DEF ProcessPacket, ProcessLoad
<1>6. CASE type = "prog"
    <2>1. r \in ProcessProg(st, p, c)
        BY <1>6 DEF ProcessPacket
    <2>2. \A s \in CreateSendPacket(st, "error", c) : GoodStore([s EXCEPT !.status = "restart"], p, c)
        BY <1>1, StatusGood
    <2> QED
        BY <1>2, <2>1, <2>2 DEF ProcessProg
<1>7. CASE type = "read"
    BY <1>7, ReadGood DEF ProcessPacket
<1> QED
    BY <1>3, <1>4, <1>5, <1>6, <1>7 DEF Handled

-----------------------------------------------------------------------------
(* connections_pool *)

LEMMA PoolInit == NewPool /\ raced = FALSE => PoolInv
<1> SUFFICES ASSUME NewPool, raced = FALSE PROVE PoolInv
    OBVIOUS
<1>1. 0 \in 0..MaxConns
    BY PoolAssumption
<1>2. data \in [Indices -> Items \cup {0}]
    BY DEF NewPool
<1>3. /\ gpc = "idle" /\ rpc = "idle"
      /\ {free_items, pool_size, gfree, gleft, linfo, rsize, rfree, ritem, rindex} \subseteq {0}
    BY DEF NewPool
<1>4. PoolTypeOK
    BY <1>1, <1>2, <1>3 DEF PoolTypeOK
<1>5. raced \in BOOLEAN
    OBVIOUS
<1>6. GetOrder /\ ReleaseOrder /\ free_items <= pool_size
    BY <1>3 DEF GetOrder, ReleaseOrder
<1> QED
    BY <1>4, <1>5, <1>6 DEF PoolInv

LEMMA PoolKept ==
    ASSUME PoolInv, UNCHANGED <<connections_pool, linfo>>
    PROVE  PoolInv' /\ PoolTypeOK' /\ raced' \in BOOLEAN
BY DEF PoolInv, PoolTypeOK, GetOrder, ReleaseOrder, connections_pool

\* pool_get changes nothing that pool_release holds.
LEMMA GetAccess ==
    ASSUME PoolInv, GetStart \/ GetMake \/ GetPop \/ GetCount \/ GetStore, raced' \in BOOLEAN
    PROVE  PoolInv' /\ PoolTypeOK'
<1> USE PoolAssumption DEF PoolInv, PoolTypeOK, GetOrder, ReleaseOrder, releaser, Items, Indices
<1>1. CASE GetStart
    BY <1>1 DEF GetStart
<1>2. CASE GetMake
    BY <1>2 DEF GetMake
<1>3. CASE GetPop
    BY <1>3 DEF GetPop, Reread
<1>4. CASE GetCount
    <2>1. \A f \in Reread(gfree) : 1 <= f /\ f <= free_items /\ f \in Nat
        BY <1>4 DEF GetCount, Reread
    <2>2. gleft' \in Nat /\ gleft' < free_items
        BY <1>4, <2>1 DEF GetCount
    <2> QED
        BY <1>4, <2>2 DEF GetCount
<1>5. CASE GetStore
    BY <1>5 DEF GetStore
<1> QED
    BY <1>1, <1>2, <1>3, <1>4, <1>5

\* pool_release only raises free_items, and never above pool_size.
LEMMA ReleaseAccess ==
    ASSUME PoolInv, raced' \in BOOLEAN,
           \/ info \in Infos /\ ReleaseStart(info)
           \/ ReleaseTest \/ ReleaseIndex \/ ReleaseData \/ ReleaseCount
    PROVE  PoolInv' /\ PoolTypeOK'
<1> USE PoolAssumption DEF PoolInv, PoolTypeOK, GetOrder, ReleaseOrder, getter, Items, Indices
<1>1. CASE info \in Infos /\ ReleaseStart(info)
    BY <1>1 DEF ReleaseStart, Infos
<1>2. CASE ReleaseTest
    BY <1>2 DEF ReleaseTest
<1>3. CASE ReleaseIndex
    <2>1. rindex' \in Nat /\ free_items <= rindex' /\ rindex' < pool_size
        BY <1>3 DEF ReleaseIndex, Reread
    <2> QED
        BY <1>3, <2>1 DEF ReleaseIndex
<1>4. CASE ReleaseData
    BY <1>4 DEF ReleaseData, Written
<1>5. CASE ReleaseCount
    BY <1>5 DEF ReleaseCount, Written
<1> QED
    BY <1>1, <1>2, <1>3, <1>4, <1>5

-----------------------------------------------------------------------------
(* The steps. *)

LEMMA InitInv == Init => IInv
<1> SUFFICES ASSUME Init PROVE IInv
    OBVIOUS
<1> USE PoolAssumption
<1>1. EmptyPool \in PoolType(MaxPackets) /\ GoodPool(EmptyPool)
    BY DEF EmptyPool, PoolType, GoodPool
<1>2. Garbage \in PacketTypeSet
    BY DEF Garbage, PacketTypeSet, Unknown
<1>5. PoolInv
    BY PoolInit DEF Init
<1>3. TypeOK
    <2>1. PoolTypeOK /\ raced \in BOOLEAN
        BY <1>5 DEF PoolInv
    <2> QED
        BY <1>1, <1>2, <2>1 DEF Init, TypeOK
<1>4. PacketInv
    BY <1>1 DEF Init, PacketInv, QueuesDrained, Working, Holding
<1> QED
    BY <1>3, <1>4, <1>5 DEF Init, IInv, ListenInv

\* The clients and the listening task leave what the handling task works on.
LEMMA OthersKeep ==
    ASSUME IInv, UNCHANGED <<handler, packets_pool, buf>>,
           \A h \in Handles : sock[h] # None => sock'[h] = sock[h],
           \A i \in Infos : out_queue'[i] \in {out_queue[i], <<>>}
    PROVE  PacketInv'
<1> USE DEF IInv, PacketInv, handler
<1>1. TypeOK
    OBVIOUS
<1>2. (hpc = "check" => \A h \in read_fd : sock[h] # None)'
    BY <1>1 DEF TypeOK
<1>3. (/\ hpc \in Working => info \in Infos /\ hndl \in Handles
       /\ hpc \in {"refuse", "refused"} => info \in Infos
       /\ hpc \in Holding => Out(packets_pool, packet) /\ Len(packets_pool.free) < packets_pool.size)'
    BY <1>1 DEF TypeOK
<1>4. (hpc \in {"recv", "dispatch"} => sock[hndl] # None)'
    BY <1>1 DEF TypeOK, Working, Holding
<1>5. QueuesDrained'
    BY <1>1 DEF QueuesDrained
<1>6. ASSUME hpc \in {"release", "drain", "restart"}, out_queue'[info] # <<>>
      PROVE  out_queue'[info] = out_queue[info] /\ sock'[hndl] = sock[hndl]
    <2>1. info \in Infos /\ hndl \in Handles
        BY <1>6 DEF Working, Holding
    <2>2. out_queue'[info] = out_queue[info]
        BY <1>6, <2>1
    <2>3. out_queue[info] \in Seq(Entries) /\ out_queue[info] # <<>>
        BY <1>1, <1>6, <2>1, <2>2 DEF TypeOK
    <2>4. 1 \in DOMAIN out_queue[info] /\ out_queue[info][1] \in Entries
        BY <2>3
    <2>5. sock[hndl] \in Clients
        BY <1>6, <2>4 DEF GoodQueue, Entries
    <2> QED
        BY <2>1, <2>2, <2>5, NoneAssumption
<1>7. (hpc \in {"release", "drain", "restart"} => GoodQueue(out_queue[info], buf, sock[hndl]))'
    BY <1>6 DEF GoodQueue
<1>8. (hpc = "release" => QueueOut(packets_pool, out_queue[info]))'
    BY <1>6 DEF QueueOut
<1>9. (hpc = "drain" => QueueOutButLast(packets_pool, out_queue[info]))'
    BY <1>6 DEF QueueOutButLast
<1> QED
    BY <1>2, <1>3, <1>4, <1>5, <1>7, <1>8, <1>9

LEMMA ClientStep == ASSUME IInv, Client PROVE IInv'
<1> USE DEF IInv
<1>0. UNCHANGED <<listener, handler, memory, sock>>
    BY DEF Client, Connect, Vanish, Send
<1>1. PoolInv' /\ PoolTypeOK' /\ raced' \in BOOLEAN
    BY <1>0, PoolKept DEF listener, memory
<1>2. /\ inbox' \in [Handles -> Seq(Inputs)]
      /\ ended' \subseteq Handles /\ gone' \subseteq Handles /\ backlog' \subseteq Clients
    <2>1. CASE \E c \in Clients : Connect(c)
        BY <2>1 DEF Connect, TypeOK
    <2>2. CASE \E h \in Handles : Vanish(h)
        BY <2>2 DEF Vanish, TypeOK
    <2>3. CASE \E h \in Handles : \E m \in Inputs : Send(h, m)
        <3> PICK h \in Handles, m \in Inputs : Send(h, m)
            BY <2>3
        <3>1. inbox[h] \in Seq(Inputs) /\ Append(inbox[h], m) \in Seq(Inputs)
            BY DEF TypeOK
        <3> QED
            BY <3>1 DEF Send, TypeOK
    <2> QED
        BY <2>1, <2>2, <2>3 DEF Client
<1>3. TypeOK' /\ ListenInv'
    BY <1>0, <1>1, <1>2 DEF TypeOK, ListenInv, listener, handler, memory
<1>4. PacketInv'
    BY <1>0, OthersKeep DEF handler, memory, TypeOK
<1> QED
    BY <1>1, <1>3, <1>4

LEMMA AcceptStep == ASSUME IInv, NEW c \in Clients, NEW h \in Handles, Accept(c, h) PROVE IInv'
<1> USE DEF IInv
<1>1. PoolInv' /\ PoolTypeOK' /\ raced' \in BOOLEAN
    BY PoolKept DEF Accept, memory
<1>2. TypeOK' /\ ListenInv'
    BY <1>1 DEF Accept, TypeOK, ListenInv, handler, memory
<1>3. PacketInv'
    BY OthersKeep DEF Accept, handler, memory, TypeOK
<1> QED
    BY <1>1, <1>2, <1>3

\* The accesses of pool_get, with the constructor.
LEMMA GetInfoStep == ASSUME IInv, GetInfo \/ GetInfoGoesOn PROVE IInv'
<1> USE DEF IInv
<1>1. /\ GetStart \/ GetMake \/ GetPop \/ GetCount \/ GetStore
      /\ lpc' \in {"getting", "fill", "fault"} /\ raced' \in BOOLEAN
      /\ UNCHANGED <<conn, handler, control, connections_queue, packets_pool, buf, network>>
      /\ \/ UNCHANGED <<info_hndl, out_queue>>
         \/ ConnConstructor(linfo')
    BY DEF GetInfo, GetInfoGoesOn, GetKeeps, TypeOK
<1>2. PoolInv' /\ PoolTypeOK'
    BY <1>1, GetAccess
<1>3. linfo' \in Infos \cup {0}
    BY <1>2 DEF PoolTypeOK, Items, Infos
<1>4. lpc' = "fill" => linfo' \in Infos
    <2>1. CASE GetInfo
        BY <1>3, <2>1 DEF GetInfo, GetStart
    <2>2. CASE GetInfoGoesOn
        BY <1>3, <2>2 DEF GetInfoGoesOn
    <2> QED
        BY <2>1, <2>2
<1>5. info_hndl' \in [Infos -> Handles \cup {None}]
    BY <1>1 DEF ConnConstructor, TypeOK
<1>6. /\ out_queue' \in [Infos -> Seq(Entries)]
      /\ \A i \in Infos : out_queue'[i] \in {out_queue[i], <<>>}
    <2>1. out_queue' \in {out_queue, [out_queue EXCEPT ![linfo'] = <<>>]}
        BY <1>1 DEF ConnConstructor
    <2>2. out_queue \in [Infos -> Seq(Entries)] /\ <<>> \in Seq(Entries)
        BY DEF TypeOK
    <2> QED
        BY <2>1, <2>2
<1>7. TypeOK' /\ ListenInv'
    BY <1>1, <1>2, <1>4, <1>5, <1>6 DEF TypeOK, ListenInv, handler, network
<1>8. PacketInv'
    BY <1>1, <1>6, OthersKeep DEF network
<1> QED
    BY <1>2, <1>7, <1>8

LEMMA ListenStep == ASSUME IInv, Listen PROVE IInv'
<1> USE DEF IInv
<1>1. CASE Fill
    <2>0. PoolInv' /\ PoolTypeOK' /\ raced' \in BOOLEAN
        BY <1>1, PoolKept DEF Fill
    <2>1. TypeOK' /\ ListenInv'
        BY <1>1, <2>0 DEF Fill, TypeOK, ListenInv, handler, network
    <2>2. PacketInv'
        BY <1>1, OthersKeep DEF Fill, network
    <2> QED
        BY <2>0, <2>1, <2>2
<1>2. CASE Enqueue
    <2>0. PoolInv' /\ PoolTypeOK' /\ raced' \in BOOLEAN
        BY <1>2, PoolKept DEF Enqueue
    <2>1. linfo \in Infos
        BY <1>2 DEF Enqueue, ListenInv
    <2>2. connections_queue' \in Seq(Infos)
        BY <1>2, <2>1 DEF Enqueue, TypeOK
    <2>3. TypeOK' /\ ListenInv'
        BY <1>2, <2>0, <2>1, <2>2 DEF Enqueue, TypeOK, ListenInv, handler, network
    <2>4. PacketInv'
        BY <1>2, OthersKeep DEF Enqueue, network
    <2> QED
        BY <2>0, <2>3, <2>4
<1> QED
    BY <1>1, <1>2, AcceptStep, GetInfoStep DEF Listen

\* Between requests all that is to be shown is that the pool is good and
\* the queues are empty.
LEMMA Idle ==
    ASSUME hpc' \notin Working \cup {"check", "refuse", "refused"}, GoodPool(packets_pool'),
           \A i \in Infos : out_queue'[i] = <<>>
    PROVE  PacketInv'
BY DEF PacketInv, QueuesDrained, Working, Holding

\* What a request's header and body may be.
LEMMA ReceivedType ==
    ASSUME TypeOK, NEW p \in Packets, NEW h \in Handles, NEW b \in Received(p, h)
    PROVE  b \in PacketTypeSet
<1>1. buf[p] \in PacketTypeSet
    BY DEF TypeOK
<1>2. inbox[h] # <<>> => Head(inbox[h]) \in MsgTypes \cup {Bad}
    BY InputAssumption DEF TypeOK
<1> DEFINE body == IF inbox[h] = <<>> THEN buf[p].body ELSE "request"
           Parsed(w) == {[type |-> t, wire |-> w, body |-> IF w = Bad THEN buf[p].body ELSE body] :
                            t \in ParseHeader(buf[p], w)}
<1>3. ASSUME NEW w \in MsgTypes \cup {Bad}, NEW x \in Parsed(w)
      PROVE  x \in PacketTypeSet
    <2>1. ParseHeader(buf[p], w) \subseteq MsgTypes
        BY <1>1 DEF ParseHeader, PacketTypeSet
    <2>2. buf[p].body \in {Unknown, "request"} \cup ReplyKinds
        BY <1>1 DEF PacketTypeSet
    <2> QED
        BY <1>3, <2>1, <2>2 DEF PacketTypeSet
<1>4. buf[p].wire # Unknown => buf[p].wire \in MsgTypes \cup {Bad}
    BY <1>1 DEF PacketTypeSet
<1>5. \E w \in MsgTypes \cup {Bad} : b \in Parsed(w)
    BY <1>2, <1>4 DEF Received
<1> QED
    BY <1>3, <1>5

LEMMA ReceiveStep == ASSUME IInv, Receive PROVE IInv'
<1>1. TypeOK /\ ListenInv /\ PacketInv /\ hpc = "recv"
    BY DEF IInv, Receive
<1>2. info \in Infos /\ hndl \in Handles /\ sock[hndl] # None
    BY <1>1 DEF PacketInv, Working, Holding
<1>3. MaxPackets \in Nat \ {0} /\ packets_pool \in PoolType(MaxPackets) /\ GoodPool(packets_pool)
    BY <1>1, PoolAssumption DEF TypeOK, PacketInv
<1>4. /\ packets_pool' \in PoolType(MaxPackets) /\ GoodPool(packets_pool')
      /\ packet' \in Packets /\ Out(packets_pool', packet')
      /\ Len(packets_pool'.free) < packets_pool'.size
    <2>1. CASE Exhausted(packets_pool, MaxPackets)
        <3>1. packet' \in Packets /\ packets_pool' = packets_pool
            BY <2>1 DEF Receive
        <3>2. packets_pool.free = <<>> /\ packets_pool.size = MaxPackets
            BY <2>1 DEF Exhausted
        <3> QED
            BY <1>3, <3>1, <3>2 DEF Out, Packets
    <2>2. CASE ~Exhausted(packets_pool, MaxPackets)
        <3>1. packet' = PoolItem(packets_pool) /\ packets_pool' = PoolGet(packets_pool)
            BY <2>2 DEF Receive
        <3> QED
            BY <1>3, <2>2, <3>1, PoolGetGood DEF Packets
    <2> QED
        BY <2>1, <2>2
<1>5. buf' \in [Packets -> PacketTypeSet]
    <2>1. PICK b \in Received(packet', hndl) : buf' = [buf EXCEPT ![packet'] = b]
        BY DEF Receive
    <2>2. b \in PacketTypeSet
        BY <1>1, <1>2, <1>4, ReceivedType
    <2> QED
        BY <1>1, <2>1, <2>2 DEF TypeOK
<1>6. inbox' \in [Handles -> Seq(Inputs)]
    <2>1. inbox[hndl] \in Seq(Inputs) /\ (inbox[hndl] # <<>> => Tail(inbox[hndl]) \in Seq(Inputs))
        BY <1>1, <1>2 DEF TypeOK
    <2> QED
        BY <1>1, <1>2, <2>1 DEF Receive, TypeOK
<1>12. PoolInv' /\ PoolTypeOK' /\ raced' \in BOOLEAN
    BY PoolKept DEF Receive, listener, IInv
<1>7. TypeOK'
    BY <1>1, <1>4, <1>5, <1>6, <1>12 DEF Receive, TypeOK, listener
<1>8. hpc' = "dispatch" /\ UNCHANGED <<listener, info, hndl, out_queue, sock>>
    BY DEF Receive
<1>9. QueuesDrained'
    BY <1>1, <1>8 DEF PacketInv, QueuesDrained
<1>10. PacketInv'
    BY <1>2, <1>4, <1>8, <1>9 DEF PacketInv, Holding
<1>11. ListenInv'
    BY <1>1, <1>8 DEF ListenInv, listener
<1> QED
    BY <1>7, <1>10, <1>11, <1>12 DEF IInv

LEMMA ProcessStep == ASSUME IInv, NEW type \in Handled, Process(type) PROVE IInv'
<1>1. TypeOK /\ ListenInv /\ PacketInv /\ hpc = "dispatch"
    BY DEF IInv, Process
<1>2. /\ info \in Infos /\ hndl \in Handles
      /\ sock[hndl] \in Clients /\ GoodPool(packets_pool) /\ Out(packets_pool, packet)
      /\ Len(packets_pool.free) < packets_pool.size /\ QueuesDrained
    BY <1>1 DEF PacketInv, Working, Holding, TypeOK
<1>3. \A i \in Infos : out_queue[i] = <<>>
    BY <1>1, <1>2 DEF QueuesDrained
<1>4. GoodStore(Store, packet, sock[hndl]) /\ NotQueued(Store, packet)
    <2>1. Store = [pool |-> packets_pool, queue |-> <<>>, buf |-> buf, status |-> "ok"]
        BY <1>2, <1>3 DEF Store
    <2>2. <<>> \in Seq(Entries)
        OBVIOUS
    <2>3. Store \in StoreType
        BY <1>1, <2>1, <2>2 DEF StoreType, TypeOK
    <2> QED
        BY <1>2, <2>1, <2>3 DEF GoodStore, NotQueued, GoodQueue, QueueOut
<1>5. PICK st \in ProcessPacket(type, Store, packet, sock[hndl]) :
          /\ packets_pool' = st.pool
          /\ out_queue' = [out_queue EXCEPT ![info] = st.queue]
          /\ buf' = st.buf
          /\ hpc' = IF st.status = "restart" THEN "restart" ELSE "release"
    BY DEF Process
<1>6. GoodStore(st, packet, sock[hndl])
    BY <1>2, <1>4, ProcessGood
<1>7. UNCHANGED <<listener, info, hndl, packet, read_fd, control, info_hndl,
                  connections_queue, connections_pool, network>>
    BY DEF Process
<1>8. st.pool \in PoolType(MaxPackets) /\ st.queue \in Seq(Entries) /\ st.buf \in [Packets -> PacketTypeSet]
    BY <1>6 DEF GoodStore, StoreType
<1>15. PoolInv' /\ PoolTypeOK' /\ raced' \in BOOLEAN
    BY <1>7, PoolKept DEF listener, IInv
<1>9. TypeOK'
    BY <1>1, <1>5, <1>7, <1>8, <1>15 DEF TypeOK, listener, network
<1>10. out_queue'[info] = st.queue /\ \A i \in Infos \ {info} : out_queue'[i] = <<>>
    BY <1>1, <1>2, <1>3, <1>5 DEF TypeOK
<1>11. QueuesDrained'
    BY <1>5, <1>7, <1>10 DEF QueuesDrained
<1>12. sock' = sock /\ info' = info /\ hndl' = hndl /\ packet' = packet
    BY <1>7 DEF network
<1>13. PacketInv'
    BY <1>2, <1>5, <1>6, <1>10, <1>11, <1>12 DEF PacketInv, GoodStore, Holding
<1>14. ListenInv'
    BY <1>1, <1>7 DEF ListenInv, listener
<1> QED
    BY <1>9, <1>13, <1>14, <1>15 DEF IInv

\* The pool, and the queue of the connection, in the loop that sends.
LEMMA AfterGet ==
    ASSUME IInv, hpc = "drain"
    PROVE  /\ PoolAfterGet \in PoolType(MaxPackets) /\ GoodPool(PoolAfterGet)
           /\ Len(PoolAfterGet.free) < PoolAfterGet.size \/ out_queue[info] = <<>>
           /\ QueueOut(PoolAfterGet, out_queue[info])
<1>1. TypeOK /\ PacketInv
    BY DEF IInv
<1>2. MaxPackets \in Nat \ {0} /\ packets_pool \in PoolType(MaxPackets) /\ GoodPool(packets_pool)
    BY <1>1, PoolAssumption DEF TypeOK, PacketInv
<1>3. QueueOutButLast(packets_pool, out_queue[info])
    BY <1>1 DEF PacketInv
<1>4. CASE Exhausted(packets_pool, MaxPackets)
    <2>1. PoolAfterGet = packets_pool /\ packets_pool.free = <<>> /\ packets_pool.size = MaxPackets
        BY <1>4 DEF PoolAfterGet, Exhausted
    <2>2. Len(packets_pool.free) < packets_pool.size
        BY <1>2, <2>1
    <2>3. QueueOut(packets_pool, out_queue[info])
        BY <1>3, <2>1 DEF QueueOut, QueueOutButLast, Out
    <2> QED
        BY <1>2, <2>1, <2>2, <2>3
<1>5. CASE ~Exhausted(packets_pool, MaxPackets)
    <2>1. PoolAfterGet = PoolGet(packets_pool)
        BY <1>5 DEF PoolAfterGet
    <2>2. /\ PoolGet(packets_pool) \in PoolType(MaxPackets)
          /\ GoodPool(PoolGet(packets_pool))
          /\ Out(PoolGet(packets_pool), PoolItem(packets_pool))
          /\ Len(PoolGet(packets_pool).free) < PoolGet(packets_pool).size
          /\ \A p : Out(packets_pool, p) => Out(PoolGet(packets_pool), p)
        BY <1>2, <1>5, PoolGetGood
    <2>3. ASSUME NEW n \in DOMAIN out_queue[info]
          PROVE  Out(PoolGet(packets_pool), out_queue[info][n].pkt)
        <3>1. CASE Out(packets_pool, out_queue[info][n].pkt)
            BY <2>2, <3>1
        <3>2. CASE ~Out(packets_pool, out_queue[info][n].pkt)
            <4>1. PICK k \in DOMAIN packets_pool.free : packets_pool.free[k] = out_queue[info][n].pkt
                BY <1>3, <3>2 DEF Out, QueueOutButLast
            <4>2. k = Len(packets_pool.free)
                BY <1>3, <4>1 DEF QueueOutButLast
            <4>3. packets_pool.free # <<>>
                BY <4>1
            <4>4. PoolItem(packets_pool) = out_queue[info][n].pkt
                BY <4>1, <4>2, <4>3 DEF PoolItem
            <4> QED
                BY <2>2, <4>4
        <3> QED
            BY <3>1, <3>2
    <2> QED
        BY <2>1, <2>2, <2>3 DEF QueueOut
<1> QED
    BY <1>4, <1>5

LEMMA ReleaseStep == ASSUME IInv, Release PROVE IInv'
<1>1. TypeOK /\ ListenInv /\ PacketInv /\ hpc = "release"
    BY DEF IInv, Release
<1>2. MaxPackets \in Nat /\ packets_pool \in PoolType(MaxPackets)
    BY <1>1, PoolAssumption DEF TypeOK
<1>3. /\ info \in Infos /\ hndl \in Handles
      /\ GoodPool(packets_pool) /\ Out(packets_pool, packet)
      /\ Len(packets_pool.free) < packets_pool.size /\ QueuesDrained
      /\ GoodQueue(out_queue[info], buf, sock[hndl]) /\ QueueOut(packets_pool, out_queue[info])
    BY <1>1 DEF PacketInv, Working, Holding
<1>4. packets_pool' = PoolRelease(packets_pool, packet) /\ packet' = 0
    BY DEF Release
<1>5. /\ packets_pool' \in PoolType(MaxPackets)
      /\ GoodPool(packets_pool')
      /\ packets_pool'.size = packets_pool.size
      /\ \A r : r # packet /\ Out(packets_pool, r) => Out(packets_pool', r)
      /\ \A k \in DOMAIN packets_pool'.free :
            packets_pool'.free[k] = packet => k = Len(packets_pool'.free)
    BY <1>2, <1>3, <1>4, PoolReleaseGood
<1>6. ~Complete(packets_pool)
    BY <1>2, <1>3 DEF Complete, PoolType
<1>7. hpc' = "drain"
    BY <1>6 DEF Release
<1>8. UNCHANGED <<listener, info, hndl, read_fd, control, info_hndl, out_queue,
                  connections_queue, connections_pool, buf, network>>
    BY DEF Release
<1>14. PoolInv' /\ PoolTypeOK' /\ raced' \in BOOLEAN
    BY <1>8, PoolKept DEF listener, IInv
<1>9. TypeOK'
    BY <1>1, <1>4, <1>5, <1>7, <1>8, <1>14 DEF TypeOK, listener, network
<1>10. QueueOutButLast(packets_pool', out_queue[info])
    BY <1>3, <1>5 DEF QueueOut, QueueOutButLast, Out
<1>11. QueuesDrained'
    BY <1>3, <1>7, <1>8 DEF QueuesDrained
<1>12. sock' = sock
    BY <1>8 DEF network
<1>13. PacketInv'
    BY <1>3, <1>5, <1>7, <1>8, <1>10, <1>11, <1>12 DEF PacketInv, Holding
<1> QED
    BY <1>1, <1>8, <1>9, <1>13, <1>14 DEF IInv, ListenInv, listener

LEMMA TransmitStep == ASSUME IInv, Transmit PROVE IInv'
<1> DEFINE q == out_queue[info]
           e == Head(q)
<1>1. TypeOK /\ ListenInv /\ PacketInv /\ hpc = "drain" /\ q # <<>>
    BY DEF IInv, Transmit
<1>2. /\ info \in Infos /\ hndl \in Handles /\ QueuesDrained
      /\ GoodQueue(q, buf, sock[hndl])
    BY <1>1 DEF PacketInv, Working, Holding
<1>3. /\ PoolAfterGet \in PoolType(MaxPackets) /\ GoodPool(PoolAfterGet)
      /\ Len(PoolAfterGet.free) < PoolAfterGet.size
      /\ QueueOut(PoolAfterGet, q)
    BY <1>1, AfterGet
<1>4. q \in Seq(Entries)
    BY <1>1, <1>2 DEF TypeOK
<1>5. /\ Tail(q) \in Seq(Entries)
      /\ \A n \in DOMAIN Tail(q) : n + 1 \in DOMAIN q /\ n + 1 # 1 /\ Tail(q)[n] = q[n + 1]
      /\ 1 \in DOMAIN q /\ e = q[1]
      /\ \A m, n \in DOMAIN Tail(q) : m + 1 = n + 1 => m = n
    BY <1>1, <1>4
<1>6. /\ out_queue' = [out_queue EXCEPT ![info] = Tail(q)]
      /\ packets_pool' = PoolRelease(PoolAfterGet, e.pkt)
      /\ UNCHANGED <<listener, handler, control, info_hndl, connections_queue,
                     connections_pool, buf, network>>
    BY DEF Transmit
<1>7. Out(PoolAfterGet, e.pkt)
    BY <1>3, <1>5 DEF QueueOut
<1>8. /\ packets_pool' \in PoolType(MaxPackets) /\ GoodPool(packets_pool')
      /\ \A r : r # e.pkt /\ Out(PoolAfterGet, r) => Out(packets_pool', r)
    BY <1>3, <1>6, <1>7, PoolAssumption, PoolReleaseGood
<1>9. out_queue'[info] = Tail(q) /\ \A i \in Infos \ {info} : out_queue'[i] = out_queue[i]
    BY <1>1, <1>2, <1>6 DEF TypeOK
<1>10. GoodQueue(Tail(q), buf, sock[hndl])
    <2> HIDE DEF q, e
    <2>1. \A m, n \in DOMAIN Tail(q) : Tail(q)[m].pkt = Tail(q)[n].pkt => m = n
        BY <1>2, <1>5 DEF GoodQueue
    <2> QED
        BY <1>2, <1>5, <2>1 DEF GoodQueue
<1>11. QueueOut(packets_pool', Tail(q))
    <2> HIDE DEF q, e
    <2>1. \A n \in DOMAIN Tail(q) : Tail(q)[n].pkt # e.pkt
        BY <1>2, <1>5 DEF GoodQueue
    <2> QED
        BY <1>3, <1>5, <1>8, <2>1 DEF QueueOut
<1>12. QueueOutButLast(packets_pool', Tail(q))
    BY <1>11 DEF QueueOut, QueueOutButLast, Out
<1>13. QueuesDrained'
    BY <1>1, <1>2, <1>6, <1>9 DEF QueuesDrained, handler
<1>16. PoolInv' /\ PoolTypeOK' /\ raced' \in BOOLEAN
    BY <1>6, PoolKept DEF listener, IInv
<1>14. TypeOK'
    BY <1>1, <1>2, <1>5, <1>6, <1>8, <1>16 DEF TypeOK, listener, handler, network
<1>15. PacketInv'
    <2> HIDE DEF q, e
    <2>1. hpc' = "drain" /\ info' = info /\ hndl' = hndl /\ buf' = buf /\ sock' = sock
        BY <1>1, <1>6 DEF handler, network
    <2> QED
        BY <1>2, <1>8, <1>9, <1>10, <1>12, <1>13, <2>1 DEF PacketInv, Holding
<1> QED
    BY <1>1, <1>6, <1>14, <1>15, <1>16 DEF IInv, ListenInv, listener

\* Between requests every queue is empty.
LEMMA Empty ==
    ASSUME IInv, hpc \notin {"release", "drain", "restart"}
    PROVE  \A i \in Infos : out_queue[i] = <<>>
BY DEF IInv, PacketInv, QueuesDrained

\* The read of connections_queue takes the pointer to a ConnectionInfo.
LEMMA HeadType ==
    ASSUME TypeOK, connections_queue # <<>>
    PROVE  Head(connections_queue) \in Infos /\ Tail(connections_queue) \in Seq(Infos)
BY DEF TypeOK

LEMMA SelectStep == ASSUME IInv, Select PROVE IInv'
<1>1. TypeOK /\ ListenInv /\ PacketInv /\ hpc = "select"
    BY DEF IInv, Select
<1>2. \A h \in read_fd' : h \in Handles /\ sock[h] # None
    BY <1>1 DEF Select, ReadFd, Alive, Readable, TypeOK
<1>3. UNCHANGED <<listener, info, hndl, packet, memory, network>> /\ hpc' \in {"poll", "check"}
    BY DEF Select
<1>8. PoolInv' /\ PoolTypeOK' /\ raced' \in BOOLEAN
    BY <1>3, PoolKept DEF listener, memory, IInv
<1>4. TypeOK' /\ ListenInv'
    BY <1>1, <1>2, <1>3, <1>8 DEF TypeOK, ListenInv, listener, memory, network
<1>5. UNCHANGED <<sock, out_queue, packets_pool>>
    BY <1>3 DEF memory, network
<1>6. QueuesDrained'
    BY <1>1, <1>3, <1>5, Empty DEF QueuesDrained
<1>7. PacketInv'
    BY <1>1, <1>2, <1>3, <1>5, <1>6 DEF PacketInv, Working, Holding
<1> QED
    BY <1>4, <1>7, <1>8 DEF IInv

LEMMA CheckStep == ASSUME IInv, Check PROVE IInv'
<1>1. TypeOK /\ ListenInv /\ PacketInv /\ hpc = "check"
    BY DEF IInv, Check
<1>2. UNCHANGED <<listener, packet, read_fd, memory, network>> /\ info' = control
    BY DEF Check
<1>3. UNCHANGED <<sock, out_queue, packets_pool, buf>>
    BY <1>2 DEF memory, network
<1>8. PoolInv' /\ PoolTypeOK' /\ raced' \in BOOLEAN
    BY PoolKept DEF Check, listener, memory, IInv
<1>4. \A i \in Infos : out_queue'[i] = <<>>
    BY <1>1, <1>3, Empty
<1>5. GoodPool(packets_pool')
    BY <1>1, <1>3 DEF PacketInv
<1>6. CASE Alive(control)
    <2>1. control \in Infos /\ info_hndl[control] \in Handles
        BY <1>1, <1>6 DEF TypeOK, Alive
    <2>2. hndl' \in Handles /\ hpc' \in {"recv", "drain"} /\ (hpc' = "recv" => hndl' \in read_fd)
        BY <1>6, <2>1 DEF Check
    <2>3. TypeOK' /\ ListenInv'
        BY <1>1, <1>2, <1>8, <2>1, <2>2 DEF TypeOK, ListenInv, listener, memory, network
    <2>4. hpc' = "recv" => sock'[hndl'] # None
        BY <1>1, <1>3, <2>2 DEF PacketInv
    <2>5. QueuesDrained'
        BY <1>4 DEF QueuesDrained
    <2>6. GoodQueue(out_queue'[info'], buf', sock'[hndl']) /\ QueueOutButLast(packets_pool', out_queue'[info'])
        BY <1>2, <1>4, <2>1 DEF GoodQueue, QueueOutButLast
    <2>7. PacketInv'
        BY <1>2, <1>5, <2>1, <2>2, <2>4, <2>5, <2>6 DEF PacketInv, Holding
    <2> QED
        BY <1>8, <2>3, <2>7 DEF IInv
<1>7. CASE ~Alive(control)
    <2>1. hpc' = "poll" /\ hndl' = hndl
        BY <1>7 DEF Check
    <2>2. TypeOK' /\ ListenInv'
        BY <1>1, <1>2, <1>8, <2>1 DEF TypeOK, ListenInv, listener, memory, network
    <2>3. PacketInv'
        BY <1>4, <1>5, <2>1, Idle DEF Working, Holding
    <2> QED
        BY <1>8, <2>2, <2>3 DEF IInv
<1> QED
    BY <1>6, <1>7

(***************************************************************************)
(* close_conn, once disable_connection is entered, and the refusal of a    *)
(* second connection.  No reply is queued meanwhile.                       *)
(***************************************************************************)
LEMMA CloseStep ==
    ASSUME IInv, CloseConn \/ Close \/ CloseFails \/ ResetHndl \/ ReleaseInfo \/ ReleaseInfoGoesOn
    PROVE  IInv'
<1>1. TypeOK /\ PoolInv /\ ListenInv /\ PacketInv
    BY DEF IInv
<1>2. /\ UNCHANGED <<listener, info, hndl, packet, read_fd, out_queue, connections_queue,
                     packets_pool, buf, backlog>>
      /\ hpc \in {"dispatch", "close", "closed", "free", "freeing"}
            => hpc' \in {"close", "closed", "free", "freeing", "release"}
      /\ hpc \notin {"dispatch", "close", "closed", "free", "freeing"}
            => hpc \in {"refuse", "refused"} /\ hpc' \in {"refused", "select"}
    BY DEF CloseConn, Close, CloseFails, ResetHndl, ReleaseInfo, ReleaseInfoGoesOn, ReleaseKeeps,
           memory, network
<1>3. info \in Infos
    BY <1>1, <1>2 DEF PacketInv, Working, Holding
<1>4. PoolInv' /\ PoolTypeOK' /\ raced' \in BOOLEAN
    <2>1. CASE ReleaseInfo \/ ReleaseInfoGoesOn
        <3>1. /\ raced' \in BOOLEAN
              /\ \/ ReleaseStart(info) \/ ReleaseTest \/ ReleaseIndex
                 \/ ReleaseData \/ ReleaseCount
            BY <1>1, <2>1 DEF ReleaseInfo, ReleaseInfoGoesOn, TypeOK
        <3> QED
            BY <1>1, <1>3, <3>1, ReleaseAccess
    <2>2. CASE CloseConn \/ Close \/ CloseFails \/ ResetHndl
        <3>1. UNCHANGED <<connections_pool, linfo>>
            BY <1>2, <2>2 DEF CloseConn, Close, CloseFails, ResetHndl, memory, listener
        <3> QED
            BY <1>1, <3>1, PoolKept
    <2> QED
        BY <2>1, <2>2
<1>5. /\ control' \in {control, 0}
      /\ info_hndl' \in [Infos -> Handles \cup {None}]
      /\ sock' \in [Handles -> Clients \cup {None}]
      /\ inbox' \in [Handles -> Seq(Inputs)]
      /\ ended' \subseteq Handles /\ gone' \subseteq Handles
    <2>1. <<>> \in Seq(Inputs)
        OBVIOUS
    <2>2. CASE Close
        BY <1>1, <2>1, <2>2 DEF Close, memory, TypeOK
    <2>3. CASE ~Close
        BY <1>1, <1>3, <2>3
        DEF CloseConn, CloseFails, ResetHndl, ReleaseInfo, ReleaseInfoGoesOn, ReleaseKeeps,
            memory, network, TypeOK
    <2> QED
        BY <2>2, <2>3
<1>6. TypeOK' /\ ListenInv'
    BY <1>1, <1>2, <1>4, <1>5 DEF TypeOK, ListenInv, listener
<1>7. \A i \in Infos : out_queue'[i] = <<>>
    BY <1>2, Empty
<1>8. QueuesDrained'
    BY <1>7 DEF QueuesDrained
<1>9. CASE hpc \in {"dispatch", "close", "closed", "free", "freeing"}
    <2>1. /\ hndl \in Handles /\ GoodPool(packets_pool) /\ Out(packets_pool, packet)
          /\ Len(packets_pool.free) < packets_pool.size
        BY <1>1, <1>9 DEF PacketInv, Working, Holding
    <2>2. GoodQueue(out_queue'[info'], buf', sock'[hndl']) /\ QueueOut(packets_pool', out_queue'[info'])
        BY <1>2, <1>3, <1>7 DEF GoodQueue, QueueOut
    <2>3. PacketInv'
        BY <1>2, <1>3, <1>8, <1>9, <2>1, <2>2 DEF PacketInv
    <2> QED
        BY <1>4, <1>6, <2>3 DEF IInv
<1>10. CASE hpc \notin {"dispatch", "close", "closed", "free", "freeing"}
    <2>1. GoodPool(packets_pool')
        BY <1>1, <1>2 DEF PacketInv
    <2>2. PacketInv'
        BY <1>2, <1>3, <1>8, <1>10, <2>1 DEF PacketInv, Working, Holding
    <2> QED
        BY <1>4, <1>6, <2>2 DEF IInv
<1> QED
    BY <1>9, <1>10

LEMMA DrainedStep == ASSUME IInv, Drained PROVE IInv'
<1>1. TypeOK /\ ListenInv /\ PacketInv /\ hpc = "drain" /\ out_queue[info] = <<>>
    BY DEF IInv, Drained
<1>2. PoolAfterGet \in PoolType(MaxPackets) /\ GoodPool(PoolAfterGet)
    BY <1>1, AfterGet
<1>3. /\ packets_pool' = PoolAfterGet
      /\ hpc' = "poll" /\ hndl' = None /\ read_fd' = {}
      /\ UNCHANGED <<listener, info, packet, control, info_hndl, out_queue, connections_queue,
                     connections_pool, buf, network>>
    BY DEF Drained
<1>7. PoolInv' /\ PoolTypeOK' /\ raced' \in BOOLEAN
    BY <1>3, PoolKept DEF listener, IInv
<1>4. TypeOK' /\ ListenInv'
    BY <1>1, <1>2, <1>3, <1>7 DEF TypeOK, ListenInv, listener, network
<1>5. \A i \in Infos : out_queue'[i] = <<>>
    BY <1>1, <1>3 DEF PacketInv, QueuesDrained
<1>6. PacketInv'
    BY <1>2, <1>3, <1>5, Idle DEF Working, Holding
<1> QED
    BY <1>4, <1>6, <1>7 DEF IInv

(***************************************************************************)
(* The steps from the poll of connections_queue, and the two crashes.      *)
(***************************************************************************)
LEMMA PollStep ==
    ASSUME IInv, First \/ PollNone \/ PollAdopt \/ PollRefuse \/ ReceiveWild \/ ProcessUnhandled
    PROVE  IInv'
<1>1. TypeOK /\ PoolInv /\ ListenInv /\ PacketInv /\ hpc \in {"first", "poll", "recv", "dispatch"}
    BY DEF IInv, First, PollNone, PollAdopt, PollRefuse, ReceiveWild, ProcessUnhandled
<1>2. /\ UNCHANGED <<listener, hndl, packet, read_fd, info_hndl, out_queue, connections_pool,
                     packets_pool, buf, network>>
      /\ hpc' \in {"select", "fault"} \/ (hpc' = "refuse" /\ PollRefuse)
    BY DEF First, PollNone, PollAdopt, PollRefuse, ReceiveWild, ProcessUnhandled, memory
<1>3. /\ info' \in Infos \/ (~PollRefuse /\ info' = info)
      /\ control' \in Infos \cup {0} /\ connections_queue' \in Seq(Infos)
    BY <1>1, HeadType
    DEF First, PollNone, PollAdopt, PollRefuse, ReceiveWild, ProcessUnhandled, memory, TypeOK
<1>4. PoolInv' /\ PoolTypeOK' /\ raced' \in BOOLEAN
    BY <1>1, <1>2, PoolKept DEF listener
<1>5. TypeOK' /\ ListenInv'
    BY <1>1, <1>2, <1>3, <1>4 DEF TypeOK, ListenInv, listener, network
<1>6. \A i \in Infos : out_queue'[i] = <<>>
    BY <1>1, <1>2, Empty
<1>7. GoodPool(packets_pool') /\ QueuesDrained'
    BY <1>1, <1>2, <1>6 DEF PacketInv, QueuesDrained
<1>8. PacketInv'
    BY <1>2, <1>3, <1>7 DEF PacketInv, Working, Holding
<1> QED
    BY <1>4, <1>5, <1>8 DEF IInv

LEMMA HandleStep == ASSUME IInv, Handle PROVE IInv'
BY ReceiveStep, ProcessStep, ReleaseStep, TransmitStep, SelectStep, CheckStep, CloseStep,
   DrainedStep, PollStep DEF Handle

\* The device comes up in a state as good as the first.
LEMMA RebootStep == Reboot => IInv'
<1> SUFFICES ASSUME Reboot PROVE IInv'
    OBVIOUS
<1>1. EmptyPool \in PoolType(MaxPackets) /\ GoodPool(EmptyPool)
    BY PoolAssumption DEF EmptyPool, PoolType, GoodPool
<1>2. Garbage \in PacketTypeSet
    BY DEF Garbage, PacketTypeSet
<1>3. PoolInv' /\ PoolTypeOK' /\ raced' \in BOOLEAN
    <2>1. 0 \in 0..MaxConns
        BY PoolAssumption
    <2>2. (data \in [Indices -> Items \cup {0}])'
        BY DEF Reboot
    <2>3. (/\ gpc = "idle" /\ rpc = "idle"
           /\ {free_items, pool_size, gfree, gleft, linfo, rsize, rfree, ritem, rindex} \subseteq {0})'
        BY DEF Reboot
    <2>4. PoolTypeOK'
        BY <2>1, <2>2, <2>3 DEF PoolTypeOK
    <2>5. raced' \in BOOLEAN
        BY DEF Reboot
    <2> QED
        BY <2>3, <2>4, <2>5 DEF PoolInv, GetOrder, ReleaseOrder
<1>4. TypeOK'
    BY <1>1, <1>2, <1>3 DEF Reboot, TypeOK
<1>5. /\ hpc' = "first" /\ lpc' = "accept" /\ packets_pool' = EmptyPool
      /\ \A i \in Infos : out_queue'[i] = <<>>
    BY DEF Reboot
<1>6. PacketInv'
    BY <1>1, <1>5, Idle DEF Working, Holding
<1> QED
    BY <1>3, <1>4, <1>5, <1>6 DEF IInv, ListenInv

\* IInv speaks of variables only.
LEMMA StutterStep == ASSUME IInv, UNCHANGED vars PROVE IInv'
<1>1. PoolInv' /\ PoolTypeOK' /\ raced' \in BOOLEAN
    BY PoolKept DEF IInv, vars, listener, memory
<1>2. TypeOK' /\ ListenInv'
    BY <1>1 DEF IInv, TypeOK, ListenInv, vars, listener, handler, memory, network
<1>3. PacketInv'
    BY DEF IInv, PacketInv, QueuesDrained, GoodPool, GoodQueue, QueueOut, QueueOutButLast, Out,
           vars, handler, memory, network
<1> QED
    BY <1>1, <1>2, <1>3 DEF IInv

(***************************************************************************)
(* The inductive invariant holds of every behaviour.                       *)
(***************************************************************************)
THEOREM Invariance == Spec => []IInv
<1>1. IInv /\ [Next]_vars => IInv'
    BY ClientStep, ListenStep, HandleStep, RebootStep, StutterStep DEF Next
<1> QED
    BY InitInv, <1>1, PTL DEF Spec

(***************************************************************************)
(* Every variable keeps its type: no pool ever holds more than it may, and *)
(* the tasks follow only pointers that a pool has made.                    *)
(***************************************************************************)
THEOREM TypeCorrect == Spec => []TypeOK
<1>1. IInv => TypeOK
    BY DEF IInv
<1> QED
    BY <1>1, Invariance, PTL

(***************************************************************************)
(* No interleaving of pool_get in the listening task with pool_release in  *)
(* the handling task makes either of them reach outside pool->data, or the *)
(* counters pass each other (pool.c:43-80), for a pool of any size.        *)
(***************************************************************************)
THEOREM RaceInBounds == Spec => []InBounds
<1>1. PoolInv => InBounds
    BY PoolAssumption DEF PoolInv, PoolTypeOK, GetOrder, ReleaseOrder, InBounds, Reread, Indices
<1>2. IInv => PoolInv
    BY DEF IInv
<1> QED
    BY <1>1, <1>2, Invariance, PTL

(***************************************************************************)
(* The loop that sends leaves no reply behind (packet_handler.c:235-247).  *)
(***************************************************************************)
THEOREM Drains == Spec => []QueuesDrained
<1>1. IInv => QueuesDrained
    BY DEF IInv, PacketInv
<1> QED
    BY <1>1, Invariance, PTL

(***************************************************************************)
(* No packet is in the pool twice, although the packet of a memory request *)
(* is released twice (controller.c:227, packet_handler.c:228 and 242).     *)
(***************************************************************************)
THEOREM PacketsStaySound == Spec => []PacketsSound
<1>1. IInv => PacketsSound
    BY DEF IInv, PacketInv, PacketsSound, Sound, GoodPool
<1> QED
    BY <1>1, Invariance, PTL

(***************************************************************************)
(* The release of a request's packet is never refused                      *)
(* (packet_handler.c:228), so that the sending always begins.              *)
(***************************************************************************)
THEOREM ReleasesAccepted == Spec => []ReleaseAccepted
<1>1. IInv => ReleaseAccepted
    <2> SUFFICES ASSUME IInv, hpc = "release" PROVE ~Complete(packets_pool)
        BY DEF ReleaseAccepted
    <2>1. packets_pool \in PoolType(MaxPackets) /\ Len(packets_pool.free) < packets_pool.size
        BY DEF IInv, TypeOK, PacketInv, Holding
    <2> QED
        BY <2>1, PoolAssumption DEF Complete, PoolType
<1> QED
    BY <1>1, Invariance, PTL

\* A reply that is queued is intact, and hndl is its client's socket.
LEMMA QueuedGood ==
    ASSUME IInv, NEW i \in Infos, NEW n \in DOMAIN out_queue[i]
    PROVE  /\ hndl \in Handles /\ sock[hndl] = out_queue[i][n].to
           /\ out_queue[i][n].want # "memory" =>
                 buf[out_queue[i][n].pkt].body = out_queue[i][n].want
<1>1. QueuesDrained /\ out_queue[i] # <<>>
    BY DEF IInv, PacketInv
<1>2. i = info /\ hpc \in {"release", "drain", "restart"}
    BY <1>1 DEF QueuesDrained
<1>3. GoodQueue(out_queue[info], buf, sock[hndl]) /\ hndl \in Handles
    BY <1>2 DEF IInv, PacketInv, Working, Holding
<1> QED
    BY <1>2, <1>3 DEF GoodQueue

(***************************************************************************)
(* A reply goes to the client that asked: hndl, read before the request    *)
(* was (packet_handler.c:208), still names its socket when it is sent      *)
(* (241), whatever the listening task does in between.                     *)
(***************************************************************************)
THEOREM RepliesToAsker == Spec => []ReplyToAsker
<1>1. IInv => ReplyToAsker
    BY QueuedGood DEF ReplyToAsker
<1> QED
    BY <1>1, Invariance, PTL

(***************************************************************************)
(* A reply is sent with the contents its handler gave it: its packet is    *)
(* not handed out again before, although the loop that sends takes a       *)
(* packet from the pool on every pass (packet_handler.c:236).              *)
(***************************************************************************)
THEOREM RepliesIntact == Spec => []ReplyIntact
<1>1. IInv => ReplyIntact
    BY QueuedGood DEF ReplyIntact
<1> QED
    BY <1>1, Invariance, PTL

-----------------------------------------------------------------------------
(* The sockets. *)

\* The socket just accepted is open, and no ConnectionInfo names it yet.
Accepted ==
    lpc \in {"get", "getting", "fill"} =>
        conn \in Handles /\ sock[conn] # None /\ \A i \in Infos : ~Names(i, conn)

HInv == IInv /\ TypeOK /\ HandlesValid /\ Accepted

\* Where no ConnectionInfo gets a name, and no socket is closed or accepted.
LEMMA NamesLess ==
    ASSUME HInv, \A i \in Infos : \A h \in Handles : Names(i, h)' => Names(i, h),
           UNCHANGED <<conn, sock>>,
           lpc' \in {"get", "getting", "fill"} => lpc \in {"get", "getting", "fill"}
    PROVE  HandlesValid' /\ Accepted'
BY DEF HInv, HandlesValid, Accepted

\* disable_connection closes a socket that its ConnectionInfo alone names.
LEMMA CloseValid == ASSUME HInv, Close PROVE HandlesValid' /\ Accepted'
<1> DEFINE h == info_hndl[info]
<1>1. /\ info \in Infos /\ h \in Handles
      /\ sock \in [Handles -> Clients \cup {None}]
    BY DEF Close, HInv, IInv, PacketInv, Working, Holding, TypeOK
<1>2. /\ hpc \in {"close", "refuse"} /\ hpc' \in {"closed", "refused"}
      /\ sock' = [sock EXCEPT ![h] = None]
      /\ UNCHANGED <<lpc, conn, info, info_hndl>>
    BY DEF Close, listener, memory
<1>3. Names(info, h)
    BY <1>2 DEF Names, Stale
<1>4. \A i \in Infos : ~Names(i, h)'
    BY <1>1, <1>2, <1>3 DEF HInv, HandlesValid, Names, Stale
<1>5. \A i \in Infos : \A g \in Handles : Names(i, g)' => Names(i, g) /\ g # h
    BY <1>2, <1>4 DEF Names, Stale
<1>6. \A g \in Handles : g # h => sock'[g] = sock[g]
    BY <1>1, <1>2
<1> HIDE DEF h
<1>7. HandlesValid'
    BY <1>5, <1>6 DEF HInv, HandlesValid
<1>8. Accepted'
    BY <1>1, <1>2, <1>3, <1>5, <1>6 DEF HInv, Accepted
<1> QED
    BY <1>7, <1>8

LEMMA HandlesListen == ASSUME HInv, Listen PROVE HandlesValid' /\ Accepted'
<1>0. /\ info_hndl \in [Infos -> Handles \cup {None}]
      /\ sock \in [Handles -> Clients \cup {None}]
    BY DEF HInv, TypeOK
<1>1. CASE \E c \in Clients, h \in Handles : Accept(c, h)
    <2>1. PICK c \in Clients, h \in Handles : Accept(c, h)
        BY <1>1
    <2>2. /\ sock[h] = None /\ sock' = [sock EXCEPT ![h] = c] /\ conn' = h
          /\ UNCHANGED <<info_hndl, hpc, info>> /\ lpc' = "get"
        BY <2>1 DEF Accept, memory, handler
    <2>3. \A i \in Infos : ~Names(i, h)
        BY <2>2 DEF HInv, HandlesValid
    <2>4. \A i \in Infos : \A g \in Handles : Names(i, g)' => Names(i, g) /\ g # h
        BY <2>2, <2>3 DEF Names, Stale
    <2>5. sock'[h] # None /\ \A g \in Handles : g # h => sock'[g] = sock[g]
        BY <1>0, <2>2, NoneAssumption
    <2>6. HandlesValid'
        BY <2>4, <2>5 DEF HInv, HandlesValid
    <2>7. Accepted'
        BY <2>2, <2>4, <2>5 DEF Accepted
    <2> QED
        BY <2>6, <2>7
<1>2. CASE GetInfo \/ GetInfoGoesOn \/ Enqueue
    <2>1. /\ UNCHANGED <<sock, hpc, info>>
          /\ lpc' = "accept" \/ (lpc \in {"get", "getting"} /\ conn' = conn)
          /\ \A i \in Infos : info_hndl'[i] \in {info_hndl[i], None}
        BY <1>0, <1>2 DEF GetInfo, GetInfoGoesOn, GetKeeps, ConnConstructor, Enqueue, network, handler
    <2>2. \A i \in Infos : \A h \in Handles : Names(i, h)' => Names(i, h)
        BY <2>1, NoneAssumption DEF Names, Stale
    <2> QED
        BY <2>1, <2>2 DEF HInv, HandlesValid, Accepted
<1>3. CASE Fill
    <2>1. /\ UNCHANGED <<conn, sock, hpc, info>> /\ lpc = "fill" /\ lpc' = "enqueue"
          /\ \A i \in Infos : info_hndl'[i] = IF i = linfo THEN conn ELSE info_hndl[i]
        BY <1>0, <1>3 DEF Fill, network, handler
    <2>2. /\ conn \in Handles /\ sock[conn] # None
          /\ \A i \in Infos : ~Names(i, conn)
        BY <2>1 DEF HInv, Accepted
    <2>5. ASSUME NEW i \in Infos, NEW h \in Handles, Names(i, h)', i # linfo
          PROVE  Names(i, h) /\ h # conn
        <3>1. Names(i, h)
            BY <2>1, <2>5 DEF Names, Stale
        <3> QED
            BY <2>2, <3>1
    <2>6. ASSUME NEW i \in Infos, NEW h \in Handles, Names(i, h)', i = linfo
          PROVE  h = conn
        <3>1. info_hndl'[i] = conn
            BY <2>1, <2>6
        <3>2. info_hndl'[i] = h
            BY <2>6 DEF Names, Stale
        <3> QED
            BY <3>1, <3>2
    <2>3. ASSUME NEW i \in Infos, NEW h \in Handles, Names(i, h)'
          PROVE  \/ i # linfo /\ h # conn /\ Names(i, h)
                 \/ i = linfo /\ h = conn
        <3>1. CASE i = linfo
            BY <2>3, <2>6, <3>1
        <3>2. CASE i # linfo
            BY <2>3, <2>5, <3>2
        <3> QED
            BY <3>1, <3>2
    <2>4. HandlesValid'
        BY <2>1, <2>2, <2>3 DEF HInv, HandlesValid
    <2> QED
        BY <2>1, <2>4 DEF Accepted
<1> QED
    BY <1>1, <1>2, <1>3 DEF Listen

LEMMA HandlesHandle == ASSUME HInv, Client \/ Handle \/ Reboot PROVE HandlesValid' /\ Accepted'
<1>1. CASE Client
    <2>1. UNCHANGED <<lpc, conn, sock, info_hndl, hpc, info>>
        BY <1>1 DEF Client, Connect, Vanish, Send, listener, memory, handler
    <2> QED
        BY <2>1, NamesLess DEF Names, Stale
<1>2. CASE Close
    BY <1>2, CloseValid
<1>3. CASE ResetHndl
    <2>1. /\ UNCHANGED <<lpc, conn, sock, info>>
          /\ info_hndl' = [info_hndl EXCEPT ![info] = None]
        BY <1>3 DEF ResetHndl, listener, network
    <2>2. info_hndl \in [Infos -> Handles \cup {None}]
        BY DEF HInv, TypeOK
    <2>3. \A i \in Infos : \A h \in Handles : Names(i, h)' => Names(i, h)
        BY <2>1, <2>2, NoneAssumption DEF Names, Stale
    <2> QED
        BY <2>1, <2>3, NamesLess
<1>4. CASE Handle /\ ~Close /\ ~ResetHndl
    <2>1. /\ UNCHANGED <<lpc, conn, sock, info_hndl>>
          /\ hpc \notin {"closed", "refused"} /\ hpc' \notin {"closed", "refused"}
        BY <1>4 DEF Handle, First, Select, Check, Receive, ReceiveWild, Process, ProcessUnhandled,
                    CloseConn, CloseFails, ReleaseInfo, ReleaseInfoGoesOn, ReleaseKeeps, Release,
                    Transmit, Drained, PollNone, PollAdopt, PollRefuse, listener, handler, memory,
                    network
    <2> QED
        BY <2>1, NamesLess DEF Names, Stale
<1>5. CASE Reboot
    BY <1>5, NoneAssumption DEF Reboot, HandlesValid, Accepted, Names
<1> QED
    BY <1>1, <1>2, <1>3, <1>4, <1>5

(***************************************************************************)
(* However badly clients behave, and whatever the race on connections_pool *)
(* does, no two ConnectionInfos name one socket and none names a socket    *)
(* that is closed (packet_handler.c:143, 326-335), but the one that        *)
(* disable_connection has closed and is about to reset.                    *)
(***************************************************************************)
THEOREM HandlesStayValid == Spec => []HandlesValid
<1>1. Init => HandlesValid /\ Accepted
    BY NoneAssumption DEF Init, HandlesValid, Accepted, Names
<1>2. IInv /\ HandlesValid /\ Accepted /\ [Next]_vars => HandlesValid' /\ Accepted'
    <2>1. CASE UNCHANGED vars
        BY <2>1 DEF HandlesValid, Accepted, Names, Stale, vars, listener, handler, memory, network
    <2> QED
        BY <2>1, HandlesListen, HandlesHandle DEF HInv, IInv, Next
<1> QED
    BY <1>1, <1>2, Invariance, PTL DEF Spec
=============================================================================
