------------------------------ MODULE Allocator ------------------------------
(***************************************************************************)
(* What src/pool.c promises its one user: pool_get and pool_release, as    *)
(* module Pool has them, each at once.                                     *)
(***************************************************************************)
EXTENDS Pool

CONSTANTS Max       \* max_pool_size

VARIABLES
    pool,
    out             \* the items in use

Init == pool = EmptyPool /\ out = {}

\* No item is handed to a second user.
Get ==
    /\ ~Exhausted(pool, Max) /\ PoolItem(pool) \notin out
    /\ pool' = PoolGet(pool)
    /\ out' = out \cup {PoolItem(pool)}

\* What is given back is kept.
Release(item) ==
    /\ item \in out /\ ~Complete(pool)
    /\ pool' = PoolRelease(pool, item)
    /\ out' = out \ {item}

Next == Get \/ \E item \in out : Release(item)

Spec == Init /\ [][Next]_<<pool, out>>
=============================================================================
