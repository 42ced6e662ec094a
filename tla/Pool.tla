-------------------------------- MODULE Pool --------------------------------
(***************************************************************************)
(* pool_t of src/pool.c: a bounded allocator that keeps the items given    *)
(* back to it on a stack.  The pool is a value, so that a specification    *)
(* may hold several of them (connections_pool, packets_pool).              *)
(*                                                                         *)
(* An item is the number of the mem_Malloc call that made it: the items a  *)
(* pool of size n has made are 1..n.  pool.data[0..free_items-1] is the    *)
(* sequence `free'.                                                        *)
(***************************************************************************)
EXTENDS Naturals, Sequences

\* The values of pool_t for a pool that never holds more than max items.
PoolType(max) == [free : Seq(1..max), size : 0..max]

\* pool_create: no item is made in advance.
EmptyPool == [free |-> <<>>, size |-> 0]

\* Mutant of Exhausted: a pool that makes one item too many.
ExhaustedLate(pool, max) == pool.free = <<>> /\ pool.size > max

\* The test with which pool_get refuses.
Exhausted(pool, max) == pool.free = <<>> /\ pool.size = max

\* The item pool_get hands out: the last one given back, or a new one.
PoolItem(pool) ==
    IF pool.free = <<>> THEN pool.size + 1 ELSE pool.free[Len(pool.free)]

\* Mutant of PoolGet: free_items is not decremented.
PoolGetKeeping(pool) ==
    IF pool.free = <<>> THEN [pool EXCEPT !.size = pool.size + 1] ELSE pool

\* pool_get, where it does not refuse.
PoolGet(pool) ==
    IF pool.free = <<>>
    THEN [pool EXCEPT !.size = pool.size + 1]
    ELSE [pool EXCEPT !.free = SubSeq(pool.free, 1, Len(pool.free) - 1)]

\* The test with which pool_release refuses: nothing is missing.
Complete(pool) == Len(pool.free) = pool.size

\* pool_release: a refused item is not kept.
PoolRelease(pool, item) ==
    IF Complete(pool) THEN pool ELSE [pool EXCEPT !.free = Append(pool.free, item)]
=============================================================================
