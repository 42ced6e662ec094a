------------------------------ MODULE PoolCalls ------------------------------
(***************************************************************************)
(* pool_get and pool_release of src/pool.c taken apart.  A step is one     *)
(* access to a field of pool_t that the two may share.  Where the source   *)
(* names a field again that the function has copied into a local, the      *)
(* build may use the copy or read the field again: Reread gives both.      *)
(*                                                                         *)
(* PoolAccess runs the calls in one task; PacketHandler runs pool_get in   *)
(* the listening task and pool_release in the handling task, which take no *)
(* lock.  A local is 0 outside the call it belongs to.                     *)
(***************************************************************************)
EXTENDS Naturals

CONSTANTS max_pool_size

ASSUME MaxAssumption == max_pool_size \in Nat \ {0}

VARIABLES
    data,               \* pool->data, indexed from 0; 0 is a place never written
    free_items, pool_size,
    gpc, gfree,         \* pool_get: the next step, its copy of free_items,
    gleft,              \* ... the value it is about to store in free_items,
    gitem,              \* ... and *data, the caller's pointer
    rpc, rsize, rfree,  \* pool_release: the next step, its copies,
    ritem, rindex       \* ... the item, and the place it is put at

getter   == <<gpc, gfree, gleft, gitem>>
releaser == <<rpc, rsize, rfree, ritem, rindex>>
poolvars == <<data, free_items, pool_size, getter, releaser>>

Items   == 1..max_pool_size
Indices == 0..(max_pool_size - 1)

Reread(copy) == {copy, free_items}

\* pool_create
NewPool ==
    /\ data = [n \in Indices |-> 0] /\ free_items = 0 /\ pool_size = 0
    /\ gpc = "idle" /\ gfree = 0 /\ gleft = 0 /\ gitem = 0
    /\ rpc = "idle" /\ rsize = 0 /\ rfree = 0 /\ ritem = 0 /\ rindex = 0

-----------------------------------------------------------------------------
(* pool_get.  Only it writes pool_size, so its copy of that is never stale. *)

\* It refuses at once where there is no item, and none may be made.
GetStart ==
    /\ gpc = "idle"
    /\ gpc' = IF free_items > 0 THEN "pop"
              ELSE IF pool_size = max_pool_size THEN "idle" ELSE "make"
    /\ gfree' = IF gpc' = "pop" THEN free_items ELSE 0
    /\ UNCHANGED <<data, free_items, pool_size, gleft, gitem, releaser>>

\* mem_Malloc, and pool->pool_size++.
GetMake ==
    /\ gpc = "make"
    /\ pool_size' = pool_size + 1
    /\ gitem' = pool_size'
    /\ gpc' = "idle"
    /\ UNCHANGED <<data, free_items, gfree, gleft, releaser>>

\* *data = pool->data[pool->free_items-1]
GetPop ==
    /\ gpc = "pop"
    /\ \E f \in Reread(gfree) : gitem' = data[f - 1]
    /\ gpc' = "count"
    /\ UNCHANGED <<data, free_items, pool_size, gfree, gleft, releaser>>

\* Mutant of GetCount: free_items is not decremented.
GetCountKeeping ==
    /\ gpc = "count"
    /\ \E f \in Reread(gfree) : gleft' = f
    /\ gfree' = 0
    /\ gpc' = "store"
    /\ UNCHANGED <<data, free_items, pool_size, gitem, releaser>>

\* pool->free_items--, the read ...
GetCount ==
    /\ gpc = "count"
    /\ \E f \in Reread(gfree) : gleft' = f - 1
    /\ gfree' = 0
    /\ gpc' = "store"
    /\ UNCHANGED <<data, free_items, pool_size, gitem, releaser>>

\* ... and the write.
GetStore ==
    /\ gpc = "store"
    /\ free_items' = gleft
    /\ gleft' = 0
    /\ gpc' = "idle"
    /\ UNCHANGED <<data, pool_size, gfree, gitem, releaser>>

-----------------------------------------------------------------------------
(* pool_release *)

ReleaseStart(item) ==
    /\ rpc = "idle"
    /\ ritem' = item
    /\ rsize' = pool_size
    /\ rpc' = "test"
    /\ UNCHANGED <<data, free_items, pool_size, getter, rfree, rindex>>

\* Mutant of ReleaseTest: nothing is refused.
ReleaseTestNever ==
    /\ rpc = "test"
    /\ rpc' = "index"
    /\ rfree' = free_items
    /\ rsize' = 0
    /\ UNCHANGED <<data, free_items, pool_size, getter, ritem, rindex>>

\* The copy of free_items, and the test for a pool that misses nothing.
ReleaseTest ==
    /\ rpc = "test"
    /\ rpc' = IF free_items = rsize THEN "idle" ELSE "index"
    /\ rfree' = IF rpc' = "index" THEN free_items ELSE 0
    /\ ritem' = IF rpc' = "index" THEN ritem ELSE 0
    /\ rsize' = 0
    /\ UNCHANGED <<data, free_items, pool_size, getter, rindex>>

\* pool->data[pool->free_items++] = data: the read, and two writes, which
\* nothing orders.
ReleaseIndex ==
    /\ rpc = "index"
    /\ \E f \in Reread(rfree) : rindex' = f
    /\ rfree' = 0
    /\ rpc' = "write"
    /\ UNCHANGED <<data, free_items, pool_size, getter, rsize, ritem>>

\* The second of the writes is the end of the call.
Written(next) ==
    /\ rpc' = IF rpc = "write" THEN next ELSE "idle"
    /\ ritem'  = IF rpc = "write" THEN ritem ELSE 0
    /\ rindex' = IF rpc = "write" THEN rindex ELSE 0
    /\ UNCHANGED <<pool_size, getter, rsize, rfree>>

ReleaseData ==
    /\ rpc \in {"write", "write_data"}
    /\ data' = [data EXCEPT ![rindex] = ritem]
    /\ Written("write_count")
    /\ UNCHANGED free_items

ReleaseCount ==
    /\ rpc \in {"write", "write_count"}
    /\ free_items' = rindex + 1
    /\ Written("write_data")
    /\ UNCHANGED data

-----------------------------------------------------------------------------

\* The values of every variable: the counters never exceed the places.
PoolTypeOK ==
    /\ data \in [Indices -> Items \cup {0}]
    /\ free_items \in 0..max_pool_size /\ pool_size \in 0..max_pool_size
    /\ gpc \in {"idle", "make", "pop", "count", "store"}
    /\ gfree \in 0..max_pool_size /\ gleft \in 0..max_pool_size
    /\ gitem \in Items \cup {0}
    /\ rpc \in {"idle", "test", "index", "write", "write_data", "write_count"}
    /\ rsize \in 0..max_pool_size /\ rfree \in 0..max_pool_size
    /\ ritem \in Items \cup {0} /\ rindex \in 0..max_pool_size

\* The items that are free: a release counts when both of its writes are
\* done, and a get when free_items has been written.
Depth == IF rpc = "write_data" THEN free_items - 1 ELSE free_items
=============================================================================
