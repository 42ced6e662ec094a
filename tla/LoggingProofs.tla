--------------------------- MODULE LoggingProofs ---------------------------
(***************************************************************************)
(* Proofs about print_lock for any number of tasks, with any handles in    *)
(* their calls of osi_TaskDelete.                                          *)
(***************************************************************************)
EXTENDS Logging, TLAPS

\* A task that holds the lock has it, until an error print gives it away.
HolderHasIt == ~stolen => \A t \in Tasks : pc[t] \in Holding => taken

\* The inductive invariant.
IInv == TypeOK /\ LockComesBack /\ Exclusive /\ HolderHasIt

LEMMA InitInv == Init => IInv
BY DEF Init, IInv, TypeOK, LockComesBack, Exclusive, HolderHasIt, Holding

\* Steps in which a task comes to wait or to hold the lock.
LEMMA TakeStep ==
    ASSUME IInv, ~hung, NEW t \in Tasks, Log(t) \/ Take(t) \/ Error(t)
    PROVE  IInv'
<1> USE DEF IInv, TypeOK, LockComesBack, Exclusive, HolderHasIt, Holding, Goto
<1>1. CASE Log(t)
    BY <1>1 DEF Log
<1>2. CASE Take(t)
    BY <1>2 DEF Take
<1>3. CASE Error(t)
    BY <1>3 DEF Error
<1> QED
    BY <1>1, <1>2, <1>3

\* After an unlock the lock is free; if nothing was stolen, whoever unlocked
\* was its only holder, or had found it taken when there was none.
LEMMA UnlockStep ==
    ASSUME IInv, ~hung, NEW t \in Tasks, Unlock(t)
    PROVE  IInv'
<1> USE DEF IInv, TypeOK, LockComesBack, Exclusive, HolderHasIt, Holding, Goto
<1>1. PICK from \in {"holding", "error", "intruding"}, to \in {"away", "exit"} :
          pc[t] = from /\ pc' = [pc EXCEPT ![t] = to]
    BY DEF Unlock
<1>2. TypeOK'
    BY <1>1 DEF Unlock
<1>3. LockComesBack'
    BY DEF Unlock
<1>4. ASSUME ~stolen' PROVE \A u \in Tasks : pc'[u] \notin {"holding", "error"}
    <2> SUFFICES ASSUME NEW u \in Tasks, pc'[u] \in {"holding", "error"} PROVE FALSE
        OBVIOUS
    <2>1. u # t /\ pc[u] \in {"holding", "error"} /\ ~stolen /\ taken
        BY <1>1, <1>4 DEF Unlock
    <2>2. pc[t] = "intruding"
        BY <1>1, <2>1
    <2> QED
        BY <1>4, <2>1, <2>2 DEF Unlock
<1> QED
    BY <1>2, <1>3, <1>4

\* A deletion only takes holders away, and says so.
LEMMA DeleteStep ==
    ASSUME IInv, ~hung, NEW t \in Tasks, Delete(t)
    PROVE  IInv'
<1> USE DEF IInv, TypeOK, LockComesBack, Exclusive, HolderHasIt, Holding
<1>1. PICK v \in Tasks :
          /\ pc' = [pc EXCEPT ![t] = "away", ![v] = "gone"]
          /\ lost' = (lost \/ pc[v] \in Holding)
    BY VictimAssumption DEF Delete
<1>2. pc[t] = "exit" /\ taken' = taken /\ hung' = hung /\ stolen' = stolen
    BY DEF Delete
<1>3. TypeOK'
    BY <1>1, <1>2
<1>4. \A u \in Tasks : pc'[u] \in Holding => pc[u] \in Holding
    BY <1>1
<1>5. ASSUME taken', ~lost' PROVE \E u \in Tasks : pc'[u] \in Holding
    <2>1. PICK u \in Tasks : pc[u] \in Holding
        BY <1>1, <1>2, <1>5
    <2>2. u # t /\ u # v
        BY <1>1, <1>2, <1>5, <2>1
    <2> QED
        BY <1>1, <2>1, <2>2
<1> QED
    BY <1>2, <1>3, <1>4, <1>5

LEMMA NextInv == IInv /\ [Next]_vars => IInv'
<1> SUFFICES ASSUME IInv, [Next]_vars PROVE IInv'
    OBVIOUS
<1> USE DEF IInv, TypeOK, LockComesBack, Exclusive, HolderHasIt
<1>1. CASE ~hung /\ IrqLog
    BY <1>1 DEF IrqLog
<1>2. CASE ~hung /\ IrqError
    BY <1>2 DEF IrqError, Holding
<1>3. ASSUME ~hung, NEW t \in Tasks, Task(t) PROVE IInv'
    BY <1>3, TakeStep, UnlockStep, DeleteStep DEF Task
<1>4. CASE UNCHANGED vars
    BY <1>4 DEF vars
<1> QED
    BY <1>1, <1>2, <1>3, <1>4 DEF Next

LEMMA Invariance == Spec => []IInv
BY InitInv, NextInv, PTL DEF Spec

\* Whatever the error prints unlock, a lock that is taken is held by a task
\* that is printing, unless one was deleted there.
THEOREM LockReturned == Spec => []LockComesBack
<1>1. IInv => LockComesBack
    BY DEF IInv
<1> QED
    BY <1>1, Invariance, PTL

\* Until an error print gives the lock away, one task holds it at a time.
THEOREM MutualExclusion == Spec => []Exclusive
<1>1. IInv => Exclusive
    BY DEF IInv
<1> QED
    BY <1>1, Invariance, PTL
=============================================================================
