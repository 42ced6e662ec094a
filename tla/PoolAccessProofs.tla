-------------------------- MODULE PoolAccessProofs ---------------------------
(***************************************************************************)
(* For a pool of any size: in one task the accesses of pool_get and        *)
(* pool_release are the calls of an allocator.                             *)
(***************************************************************************)
EXTENDS PoolAccess, Sequences, FiniteSetTheorems, TLAPS

-----------------------------------------------------------------------------
(* Every copy is what it was copied from, and the stack holds each item    *)
(* once, and none that is in use.                                          *)

GetCopies ==
    /\ gpc = "idle" \/ rpc = "idle"
    /\ gpc = "make" => free_items = 0 /\ pool_size < max_pool_size
    /\ gpc \in {"pop", "count"} => gfree = free_items
    /\ gpc \in {"pop", "count", "store"} => free_items > 0
    /\ gpc \in {"count", "store"} => gitem = data[free_items - 1]
    /\ gpc = "store" => gleft = free_items - 1

ReleaseCopies ==
    /\ rpc = "test" => rsize = pool_size
    /\ rpc = "index" => rfree = free_items /\ free_items < pool_size
    /\ rpc \in {"write", "write_count"} => rindex = free_items
    /\ rpc = "write_count" => data[rindex] = ritem
    /\ rpc = "write_data" => rindex + 1 = free_items
    /\ rpc \in {"write", "write_data", "write_count"} => rindex < pool_size

Made == 1..pool_size

\* The item being released, and every item of the stack, is made, and is
\* neither in use nor anywhere else.
Apart ==
    /\ held \subseteq Made
    /\ rpc # "idle" => ritem \in Made /\ ritem \notin held
    /\ \A n \in 0..(Depth - 1) :
          data[n] \in Made /\ data[n] \notin held /\ (rpc # "idle" => data[n] # ritem)
    /\ \A m, n \in 0..(Depth - 1) : data[m] = data[n] => m = n

\* The inductive invariant.
TaskInv == PoolTypeOK /\ free_items <= pool_size /\ GetCopies /\ ReleaseCopies /\ Apart

LEMMA PoolInit == Init => TaskInv
BY MaxAssumption
   DEF Init, NewPool, TaskInv, PoolTypeOK, GetCopies, ReleaseCopies, Apart, Made, Depth,
       Indices, Items

\* In one task pool_get gives no item to a second user.
LEMMA NoSecondUser ==
    ASSUME TaskInv
    PROVE  /\ gpc = "store" => gitem \notin held
           /\ gpc = "make" => pool_size + 1 \notin held
BY MaxAssumption
   DEF TaskInv, PoolTypeOK, Items, GetCopies, Apart, Made, Depth

\* Without the item that is being released, and with no item twice, the
\* stack is shorter than the list of items made.
LEMMA TestKeeps ==
    ASSUME TaskInv, rpc = "test"
    PROVE  free_items # pool_size
<1> DEFINE T == Made \ {ritem}
           S == 0..(free_items - 1)
<1>1. free_items \in Nat /\ pool_size \in Nat /\ Depth = free_items /\ pool_size <= max_pool_size
    BY MaxAssumption DEF TaskInv, PoolTypeOK, Depth
<1>2. ritem \in Made
    BY DEF TaskInv, Apart
<1>3. IsFiniteSet(Made) /\ Cardinality(Made) = pool_size
    <2>1. 1 \in Int /\ pool_size \in Int
        BY <1>1
    <2>2. IsFiniteSet(1..pool_size)
          /\ Cardinality(1..pool_size) = IF 1 > pool_size THEN 0 ELSE pool_size - 1 + 1
        BY <2>1, FS_Interval
    <2> QED
        BY <1>1, <2>2 DEF Made
<1>4. IsFiniteSet(T) /\ Cardinality(T) = pool_size - 1
    BY <1>2, <1>3, FS_RemoveElement
<1>5. IsFiniteSet(S) /\ Cardinality(S) = free_items
    <2>1. 0 \in Int /\ free_items - 1 \in Int
        BY <1>1
    <2>2. IsFiniteSet(S)
          /\ Cardinality(S) = IF 0 > free_items - 1 THEN 0 ELSE free_items - 1 - 0 + 1
        BY <2>1, FS_Interval
    <2> QED
        BY <1>1, <2>2
<1>6. [n \in S |-> data[n]] \in [S -> T]
    BY <1>1 DEF TaskInv, Apart
<1>7. \A m, n \in S : data[m] = data[n] => m = n
    BY <1>1 DEF TaskInv, Apart
<1> SUFFICES ASSUME Cardinality(T) < Cardinality(S) PROVE FALSE
    BY <1>1, <1>4, <1>5
<1> DEFINE f == [n \in S |-> data[n]]
<1>8. f \in [S -> T] /\ \A n \in S : f[n] = data[n]
    BY <1>6
<1> HIDE DEF T, S, f
<1>9. \E m, n \in S : m # n /\ f[m] = f[n]
    BY <1>4, <1>5, <1>8, FS_PigeonHole
<1> QED
    BY <1>7, <1>8, <1>9

\* pool_get moves the top of the stack, or a new item, to the items in use.
LEMMA GetInTask == ASSUME TaskInv, Get PROVE TaskInv'
<1> USE MaxAssumption DEF TaskInv, PoolTypeOK, GetCopies, ReleaseCopies,
                          Apart, Made, Depth, Indices, Items, releaser
<1>0. rpc = "idle" /\ rpc' = "idle"
    BY DEF Get, GetStart, GetMake, GetPop, GetCount, GetStore
<1>1. CASE GetStart
    BY <1>0, <1>1 DEF GetStart, Get
<1>2. CASE GetMake
    BY <1>0, <1>2 DEF GetMake, Get
<1>3. CASE GetPop
    BY <1>0, <1>3 DEF GetPop, Get, Reread
<1>4. CASE GetCount
    BY <1>0, <1>4 DEF GetCount, Get, Reread
<1>5. CASE GetStore
    <2>1. /\ gpc = "store" /\ gpc' = "idle"
          /\ free_items' = free_items - 1 /\ free_items' \in 0..max_pool_size
          /\ held' = held \cup {data[free_items - 1]}
          /\ data' = data /\ pool_size' = pool_size /\ gfree' = gfree /\ gleft' = 0
          /\ gitem' = gitem /\ UNCHANGED releaser
        BY <1>0, <1>5 DEF GetStore, Get
    <2>2. PoolTypeOK' /\ free_items' <= pool_size' /\ GetCopies' /\ ReleaseCopies'
        BY <1>0, <2>1
    <2>3. data[free_items - 1] \in Made
        BY <1>0, <2>1
    <2>4. \A n \in 0..(free_items' - 1) : data[n] # data[free_items - 1]
        BY <1>0, <2>1
    <2>5. Depth = free_items /\ Depth' = free_items - 1 /\ Made' = Made
        BY <1>0, <2>1
    <2>6. \A n \in 0..(free_items' - 1) : data'[n] \in Made' /\ data'[n] \notin held'
        BY <1>0, <2>1, <2>4
    <2>7. \A m, n \in 0..(free_items' - 1) : data'[m] = data'[n] => m = n
        BY <1>0, <2>1
    <2>8. held' \subseteq Made'
        BY <2>1, <2>3
    <2>9. Apart'
        BY <1>0, <2>1, <2>5, <2>6, <2>7, <2>8
    <2> QED
        BY <2>2, <2>9
<1> QED
    BY <1>1, <1>2, <1>3, <1>4, <1>5 DEF Get

\* pool_release moves an item in use to the top of the stack.
LEMMA ReleaseInTask == ASSUME TaskInv, Release PROVE TaskInv'
<1>0. gpc = "idle" /\ gpc' = "idle" /\ UNCHANGED getter
    BY DEF Release, ReleaseStart, ReleaseTest, ReleaseIndex, ReleaseData, ReleaseCount,
           Written, getter
<1>6. rpc = "test" => free_items # pool_size
    BY TestKeeps
<1> USE MaxAssumption DEF TaskInv, PoolTypeOK, GetCopies, ReleaseCopies,
                          Apart, Made, Depth, Indices, Items, getter
<1>1. CASE \E item \in held : ReleaseStart(item) /\ held' = held \ {item}
    BY <1>0, <1>1 DEF ReleaseStart
<1>2. CASE ReleaseTest /\ UNCHANGED held
    BY <1>0, <1>2, <1>6 DEF ReleaseTest
<1>3. CASE ReleaseIndex /\ UNCHANGED held
    BY <1>0, <1>3 DEF ReleaseIndex, Reread
<1>4. CASE ReleaseData /\ UNCHANGED held
    BY <1>0, <1>4 DEF ReleaseData, Written
<1>5. CASE ReleaseCount /\ UNCHANGED held
    BY <1>0, <1>5 DEF ReleaseCount, Written
<1> QED
    BY <1>1, <1>2, <1>3, <1>4, <1>5 DEF Release

LEMMA PoolStep == TaskInv /\ [Next]_vars => TaskInv'
<1>1. TaskInv /\ UNCHANGED vars => TaskInv'
    BY DEF TaskInv, PoolTypeOK, GetCopies, ReleaseCopies, Apart, Made, Depth, vars,
           poolvars, getter, releaser
<1> QED
    BY <1>1, GetInTask, ReleaseInTask DEF Next

-----------------------------------------------------------------------------
(* The refinement. *)

StackOf(d, k) == [n \in 1..k |-> d[n - 1]]

LEMMA StackLen ==
    ASSUME NEW d, NEW k \in Nat
    PROVE  StackOf(d, k) \in Seq({d[n] : n \in 0..(k - 1)}) /\ Len(StackOf(d, k)) = k
<1>1. \A n \in 1..k : n - 1 \in 0..(k - 1)
    OBVIOUS
<1>2. StackOf(d, k) \in [1..k -> {d[n] : n \in 0..(k - 1)}]
    BY <1>1 DEF StackOf
<1> QED
    BY <1>2 DEF StackOf

LEMMA StackTop ==
    ASSUME NEW d, NEW k \in Nat, k > 0
    PROVE  /\ StackOf(d, k) # <<>>
           /\ StackOf(d, k)[Len(StackOf(d, k))] = d[k - 1]
           /\ SubSeq(StackOf(d, k), 1, Len(StackOf(d, k)) - 1) = StackOf(d, k - 1)
<1>1. Len(StackOf(d, k)) = k
    BY StackLen
<1>2. StackOf(d, k)[k] = d[k - 1]
    BY DEF StackOf
<1>3. SubSeq(StackOf(d, k), 1, k - 1) = StackOf(d, k - 1)
    BY StackLen DEF StackOf
<1>4. StackOf(d, k) # <<>>
    BY <1>1
<1> QED
    BY <1>1, <1>2, <1>3, <1>4

LEMMA StackPush ==
    ASSUME NEW d, NEW k \in Nat, NEW item
    PROVE  \A e : e[k] = item /\ (\A n \in 0..(k - 1) : e[n] = d[n])
                  => Append(StackOf(d, k), item) = StackOf(e, k + 1)
<1> SUFFICES ASSUME NEW e, e[k] = item, \A n \in 0..(k - 1) : e[n] = d[n]
             PROVE  Append(StackOf(d, k), item) = StackOf(e, k + 1)
    OBVIOUS
<1>1. \A n \in 1..k : StackOf(d, k)[n] = e[n - 1]
    BY DEF StackOf
<1>2. Len(StackOf(d, k)) = k
    BY StackLen
<1> QED
    BY <1>1, <1>2, StackLen DEF StackOf

LEMMA MapsInit == Init => Abstract!Init
BY DEF Init, NewPool, Abstract!Init, Abstract!EmptyPool, Stack, Depth, InUse

\* An access that leaves the stack and the items in use is no step of the
\* allocator.
LEMMA MapsStutter ==
    ASSUME Depth \in Nat, Depth' = Depth, pool_size' = pool_size, InUse' = InUse,
           \A n \in 0..(Depth - 1) : data'[n] = data[n]
    PROVE  UNCHANGED <<[free |-> Stack, size |-> pool_size], InUse>>
<1>1. \A n \in 1..Depth : n - 1 \in 0..(Depth - 1)
    OBVIOUS
<1>2. Stack' = Stack
    BY <1>1 DEF Stack
<1> QED
    BY <1>2

\* GetMake and GetStore are the calls of pool_get, at the access that takes
\* the item.
LEMMA MapsGet ==
    ASSUME TaskInv, Get, GetMake \/ GetStore
    PROVE  Abstract!Get
<1>1. rpc = "idle" /\ rpc' = "idle" /\ Depth = free_items /\ Depth' = free_items' /\ data' = data
    BY DEF TaskInv, GetCopies, Depth, GetMake, GetStore, releaser
<1>2. free_items \in Nat /\ pool_size \in Nat
    BY MaxAssumption DEF TaskInv, PoolTypeOK
<1>3. Stack = StackOf(data, free_items) /\ Stack' = StackOf(data, free_items')
    BY <1>1 DEF Stack, StackOf
<1>4. Len(Stack) = free_items
    BY <1>2, <1>3, StackLen
<1>5. InUse = held /\ InUse' = held'
    BY <1>1 DEF InUse
<1> USE DEF Abstract!Get, Abstract!Exhausted, Abstract!PoolGet, Abstract!PoolItem
<1>6. CASE GetMake
    <2>1. free_items = 0 /\ pool_size < max_pool_size /\ free_items' = free_items
          /\ pool_size' = pool_size + 1 /\ held' = held \cup {pool_size + 1}
        BY <1>6 DEF Get, GetMake, TaskInv, GetCopies
    <2>2. Stack = <<>> /\ Stack' = Stack
        BY <1>3, <2>1 DEF StackOf
    <2>3. pool_size + 1 \notin held
        BY <1>6, NoSecondUser DEF GetMake
    <2> QED
        BY <1>2, <1>5, <2>1, <2>2, <2>3, MaxAssumption
<1>7. CASE GetStore
    <2>1. free_items > 0 /\ free_items' = free_items - 1 /\ pool_size' = pool_size
          /\ held' = held \cup {data[free_items - 1]}
        BY <1>7 DEF Get, GetStore, TaskInv, GetCopies
    <2>2. /\ Stack # <<>> /\ Stack[Len(Stack)] = data[free_items - 1]
          /\ SubSeq(Stack, 1, Len(Stack) - 1) = Stack'
        BY <1>2, <1>3, <2>1, StackTop
    <2>3. data[free_items - 1] \notin held
        BY <1>7, NoSecondUser DEF GetStore, TaskInv, GetCopies
    <2> QED
        BY <1>5, <2>1, <2>2, <2>3
<1> QED
    BY <1>6, <1>7

\* The second of the writes of pool_release is the call.
LEMMA MapsRelease ==
    ASSUME TaskInv, Release,
           \/ rpc = "write_data" /\ ReleaseData
           \/ rpc = "write_count" /\ ReleaseCount
    PROVE  Abstract!Release(ritem)
<1>1. /\ rpc # "idle" /\ rpc' = "idle" /\ pool_size' = pool_size /\ held' = held
      /\ Depth \in Nat /\ Depth = rindex /\ Depth' = rindex + 1 /\ rindex < pool_size
      /\ rindex \in Indices
    BY MaxAssumption
       DEF TaskInv, PoolTypeOK, ReleaseCopies, Depth, Release, ReleaseStart, ReleaseTest,
           ReleaseIndex, ReleaseData, ReleaseCount, Written, Indices
<1>2. data'[Depth] = ritem /\ \A n \in 0..(Depth - 1) : data'[n] = data[n]
    <2>1. DOMAIN data = Indices
        BY DEF TaskInv, PoolTypeOK
    <2>2. CASE rpc = "write_data" /\ ReleaseData
        <3>1. data' = [data EXCEPT ![rindex] = ritem]
            BY <2>2 DEF ReleaseData
        <3> QED
            BY <1>1, <2>1, <3>1
    <2>3. CASE rpc = "write_count" /\ ReleaseCount
        <3>1. data' = data /\ data[rindex] = ritem
            BY <2>3 DEF ReleaseCount, TaskInv, ReleaseCopies
        <3> QED
            BY <1>1, <3>1
    <2> QED
        BY <2>2, <2>3
<1>3. Stack = StackOf(data, Depth) /\ Stack' = StackOf(data', Depth + 1)
    BY <1>1 DEF Stack, StackOf
<1>4. Stack' = Append(Stack, ritem) /\ Len(Stack) = Depth
    <2>1. Append(StackOf(data, Depth), ritem) = StackOf(data', Depth + 1)
        BY <1>1, <1>2, StackPush
    <2>2. Len(StackOf(data, Depth)) = Depth
        BY <1>1, StackLen
    <2> QED
        BY <1>3, <2>1, <2>2
<1>5. InUse = held \cup {ritem} /\ InUse' = held /\ ritem \notin held
    BY <1>1 DEF InUse, TaskInv, Apart
<1>6. pool_size \in Nat
    BY MaxAssumption DEF TaskInv, PoolTypeOK
<1>7. ~Abstract!Complete([free |-> Stack, size |-> pool_size])
    BY <1>1, <1>4, <1>6 DEF Abstract!Complete
<1>8. Abstract!PoolRelease([free |-> Stack, size |-> pool_size], ritem)
        = [free |-> Append(Stack, ritem), size |-> pool_size]
    BY <1>7 DEF Abstract!PoolRelease
<1>9. ritem \in InUse /\ InUse' = InUse \ {ritem}
    BY <1>5
<1> QED
    BY <1>1, <1>4, <1>7, <1>8, <1>9 DEF Abstract!Release

\* The steps of a pool in one task.
LEMMA MapsStep ==
    ASSUME TaskInv, TaskInv', Next \/ UNCHANGED vars,
           ~UNCHANGED <<[free |-> Stack, size |-> pool_size], InUse>>
    PROVE  Abstract!Next
<1>0. Depth \in Nat
    BY MaxAssumption DEF TaskInv, PoolTypeOK, ReleaseCopies, Depth
<1>1. CASE Get /\ (GetMake \/ GetStore)
    BY <1>1, MapsGet DEF Abstract!Next
<1>2. CASE Release /\ (\/ rpc = "write_data" /\ ReleaseData
                       \/ rpc = "write_count" /\ ReleaseCount)
    <2>1. ritem \in InUse
        BY <1>2 DEF InUse
    <2> QED
        BY <1>2, <2>1, MapsRelease DEF Abstract!Next
<1>3. CASE UNCHANGED vars
    BY <1>0, <1>3, MapsStutter DEF vars, poolvars, releaser, Depth, InUse
<1>4. CASE Get /\ (GetStart \/ GetPop \/ GetCount)
    <2>1. held' = held
        BY <1>4 DEF Get, GetStart, GetPop, GetCount
    <2> QED
        BY <1>0, <1>4, <2>1, MapsStutter DEF GetStart, GetPop, GetCount, releaser, Depth, InUse
<1>5. CASE \E item \in held : ReleaseStart(item) /\ held' = held \ {item}
    BY <1>0, <1>5, MapsStutter DEF ReleaseStart, Depth, InUse
<1>6. CASE ReleaseTest /\ UNCHANGED held
    <2>1. free_items # pool_size
        BY <1>6, TestKeeps DEF ReleaseTest
    <2> QED
        BY <1>0, <1>6, <2>1, MapsStutter
           DEF ReleaseTest, Depth, InUse, TaskInv, ReleaseCopies
<1>7. CASE ReleaseIndex /\ UNCHANGED held
    BY <1>0, <1>7, MapsStutter DEF ReleaseIndex, Depth, InUse
<1>8. CASE rpc = "write" /\ ReleaseData /\ UNCHANGED held
    <2>1. /\ data' = [data EXCEPT ![rindex] = ritem] /\ DOMAIN data = Indices
          /\ rindex = free_items /\ Depth = free_items /\ Depth' = Depth
          /\ pool_size' = pool_size /\ InUse' = InUse
        BY <1>8 DEF ReleaseData, Written, Depth, InUse, TaskInv, PoolTypeOK, ReleaseCopies
    <2>2. \A n \in 0..(Depth - 1) : data'[n] = data[n]
        BY <1>0, <2>1, MaxAssumption DEF TaskInv, PoolTypeOK, Indices
    <2> QED
        BY <1>0, <2>1, <2>2, MapsStutter
<1>9. CASE rpc = "write" /\ ReleaseCount /\ UNCHANGED held
    BY <1>0, <1>9, MapsStutter, MaxAssumption
       DEF ReleaseCount, Written, Depth, InUse, TaskInv, PoolTypeOK, ReleaseCopies
<1> QED
    BY <1>1, <1>2, <1>3, <1>4, <1>5, <1>6, <1>7, <1>8, <1>9
       DEF Next, Get, Release, ReleaseData, ReleaseCount

(***************************************************************************)
(* In one task the accesses of pool_get and pool_release, whichever write  *)
(* of pool.c:77 the build makes first, are the calls of an allocator: what *)
(* modules Pool and PacketManager take for single steps.  pool_get gives   *)
(* no item to a second user, and pool_release refuses nothing, as          *)
(* packet_handler.c:229 asserts.                                           *)
(***************************************************************************)
THEOREM AllocatorImplemented == Spec => AllocatorSpec
<1>1. TaskInv /\ TaskInv' /\ [Next]_vars
        => [Abstract!Next]_<<[free |-> Stack, size |-> pool_size], InUse>>
    BY MapsStep
<1> QED
    BY PoolInit, PoolStep, MapsInit, <1>1, PTL DEF Spec, AllocatorSpec, Abstract!Spec
=============================================================================
