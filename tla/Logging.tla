------------------------------- MODULE Logging -------------------------------
(***************************************************************************)
(* src/logging.h: every task prints through the same UART.  SERIAL_LOG     *)
(* waits for print_lock for as long as it takes; the error prints          *)
(* (OSI_ERROR_LOG and the OSI_ASSERT_ macros) try to take it, print        *)
(* whether they have it or not, and unlock it all the same.  The lock is a *)
(* binary semaphore: it has no owner, and unlocking a free one does        *)
(* nothing.  An interrupt handler prints in the same ways between any two  *)
(* steps of the tasks; one that waits does so for ever.                    *)
(***************************************************************************)
CONSTANTS
    Tasks,
    Victims     \* the tasks whose handle an OSI_ASSERT_WITH_EXIT of a task names

ASSUME VictimAssumption == Victims \in [Tasks -> SUBSET Tasks]

VARIABLES
    taken,      \* print_lock
    pc,         \* of a task: "away" from printing; "log": it waits for the lock;
                \* "holding": it prints; "error" and "intruding": it prints an
                \* error with the lock and without; "exit": it goes on to delete;
                \* "gone"
    hung,       \* a handler waits for the lock
    stolen,     \* history: an error print unlocked what it had not locked, ...
    lost        \* ... a task was deleted that held the lock

vars == <<taken, pc, hung, stolen, lost>>

Holding == {"holding", "error"}

Init ==
    /\ taken = FALSE
    /\ pc = [t \in Tasks |-> "away"]
    /\ hung = FALSE /\ stolen = FALSE /\ lost = FALSE

-----------------------------------------------------------------------------

Goto(t, from, to) == pc[t] = from /\ pc' = [pc EXCEPT ![t] = to]

\* osi_LockObjLock(&print_lock, OSI_WAIT_FOREVER) is called, ...
Log(t) == Goto(t, "away", "log") /\ UNCHANGED <<taken, hung, stolen, lost>>

\* Mutant of Take: the lock is taken with timeout 0 here too.
TakeAnyhow(t) ==
    /\ Goto(t, "log", "holding")
    /\ taken' = TRUE
    /\ UNCHANGED <<hung, stolen, lost>>

\* ... and returns.
Take(t) ==
    /\ ~taken
    /\ Goto(t, "log", "holding")
    /\ taken' = TRUE
    /\ UNCHANGED <<hung, stolen, lost>>

\* osi_LockObjLock(&print_lock, 0), whose result nobody looks at.
Error(t) ==
    /\ Goto(t, "away", IF taken THEN "intruding" ELSE "error")
    /\ taken' = TRUE
    /\ UNCHANGED <<hung, stolen, lost>>

\* Mutant of Unlock: an error print leaves the lock.
UnlockLogs(t) ==
    /\ \/ Goto(t, "holding", "away")
       \/ \E from \in {"error", "intruding"}, to \in {"away", "exit"} : Goto(t, from, to)
    /\ stolen' = (stolen \/ (pc[t] = "intruding" /\ taken))
    /\ taken' = (taken /\ pc[t] # "holding")
    /\ UNCHANGED <<hung, lost>>

\* The end of a print; OSI_ASSERT_WITH_EXIT goes on to osi_TaskDelete.
Unlock(t) ==
    /\ \/ Goto(t, "holding", "away")
       \/ \E from \in {"error", "intruding"}, to \in {"away", "exit"} : Goto(t, from, to)
    /\ stolen' = (stolen \/ (pc[t] = "intruding" /\ taken))
    /\ taken' = FALSE
    /\ UNCHANGED <<hung, lost>>

\* osi_TaskDelete(&hndl), often of the task itself; what comes after it in a
\* task that has deleted another is some print or none.  (A handle of a task
\* that is gone: see DeleteUpdater.)
Delete(t) ==
    /\ pc[t] = "exit"
    /\ \E v \in Victims[t] :
          /\ pc[v] # "gone"
          /\ pc' = [pc EXCEPT ![t] = "away", ![v] = "gone"]
          /\ lost' = (lost \/ pc[v] \in Holding)
    /\ UNCHANGED <<taken, hung, stolen>>

-----------------------------------------------------------------------------
(* An interrupt handler: no task runs until it returns. *)

\* SERIAL_LOG: without the lock the handler waits, and with it the processor.
IrqLog ==
    /\ hung' = taken
    /\ UNCHANGED <<taken, pc, stolen, lost>>

\* OSI_ERROR_LOG
IrqError ==
    /\ stolen' = (stolen \/ taken)
    /\ taken' = FALSE
    /\ UNCHANGED <<pc, hung, lost>>

Task(t) == Log(t) \/ Take(t) \/ Error(t) \/ Unlock(t) \/ Delete(t)

Next == ~hung /\ (IrqLog \/ IrqError \/ \E t \in Tasks : Task(t))

\* A print takes a bounded time, and a free lock goes to one of those that
\* wait, not to every one: tasks of higher priority may take it each time.
Fairness ==
    /\ WF_vars(~hung /\ \E t \in Tasks : Take(t))
    /\ \A t \in Tasks : WF_vars(~hung /\ Unlock(t))

Spec     == Init /\ [][Next]_vars
FairSpec == Spec /\ Fairness

-----------------------------------------------------------------------------
(* Properties *)

\* The values of every variable; a handler hangs only on a lock that is taken.
TypeOK ==
    /\ taken \in BOOLEAN /\ hung \in BOOLEAN
    /\ stolen \in BOOLEAN /\ lost \in BOOLEAN
    /\ hung => taken
    /\ pc \in [Tasks -> {"away", "log", "intruding", "exit", "gone"} \cup Holding]

\* However many error prints unlock what they have not locked, the lock is
\* never left taken: it is held by a task that is printing and will unlock it,
\* unless one was deleted at that point (logging.h:20-24).
LockComesBack == taken /\ ~lost => \E t \in Tasks : pc[t] \in Holding

\* The lock is held by one task at a time, unless an error print has given
\* away the lock of another.
Exclusive ==
    ~stolen => \A t, u \in Tasks : pc[t] \in Holding /\ pc[u] \in Holding => t = u

\* A task that waits to print is not kept waiting by nobody: a log is printed,
\* unless errors are, again and again, or the holder of the lock was deleted or
\* interrupted by a handler that prints.
PrintsGoOn ==
    \/ []<>(\E t \in Tasks : pc[t] = "error")
    \/ (\E t \in Tasks : pc[t] = "log")
           ~> \/ \E t \in Tasks : pc[t] = "holding"
              \/ \A t \in Tasks : pc[t] # "log"
              \/ lost \/ hung
=============================================================================
