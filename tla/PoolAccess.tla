----------------------------- MODULE PoolAccess ------------------------------
(***************************************************************************)
(* A pool that belongs to one task, in which a call ends before the next   *)
(* begins, as packets_pool belongs to vHandlingTask: the accesses of its   *)
(* calls (PoolCalls) implement an Allocator, whose calls are single steps. *)
(***************************************************************************)
EXTENDS PoolCalls

VARIABLE held           \* the items in use: got, and not being released

vars == <<poolvars, held>>

Init == NewPool /\ held = {}

Get ==
    /\ rpc = "idle"
    /\ GetStart \/ GetMake \/ GetPop \/ GetCount \/ GetStore
    /\ held' = IF gpc # "idle" /\ gpc' = "idle" THEN held \cup {gitem'} ELSE held

\* pool_release, of an item that is in use.
Release ==
    /\ gpc = "idle"
    /\ \/ \E item \in held : ReleaseStart(item) /\ held' = held \ {item}
       \/ /\ ReleaseTest \/ ReleaseIndex \/ ReleaseData \/ ReleaseCount
          /\ UNCHANGED held

Next == Get \/ Release

Spec == Init /\ [][Next]_vars

-----------------------------------------------------------------------------
(* The allocator *)

Stack == [n \in 1..Depth |-> data[n - 1]]

InUse == held \cup (IF rpc = "idle" THEN {} ELSE {ritem})

Abstract == INSTANCE Allocator WITH
    Max  <- max_pool_size,
    pool <- [free |-> Stack, size |-> pool_size],
    out  <- InUse

\* In one task the accesses of pool_get and pool_release, in whichever order
\* the build makes them, are the calls of an allocator (module Allocator)
\* that PacketManager takes for single steps: no item has two users, and none
\* is refused when it comes back.
AllocatorSpec == Abstract!Spec
=============================================================================
