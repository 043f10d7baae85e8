----------------------------- MODULE Semaphore -----------------------------
(***************************************************************************)
(* sem_wait and sem_signal (semaphore.c), one step per access to shared    *)
(* memory; the waiting lines are WaitQueue's.                              *)
(***************************************************************************)
EXTENDS WaitQueue

VARIABLES
    value,           \* sem->value, of every semaphore
    unit             \* the value a thread's sem_wait has in a register

WaitSteps   == {"testValue", "takeUnit"} \cup EnqueueSteps
SignalSteps == {"addUnit"} \cup DequeueSteps

SemInit(initial) ==
    /\ value = initial
    /\ unit = [t \in Threads |-> 0]
    /\ WaitQueueInit(DOMAIN initial)

-----------------------------------------------------------------------------
(* sem_init, of which InitHead and InitTail are the last two stores.        *)

InitValue(s, initial) == value' = [value EXCEPT ![s] = initial] /\ UNCHANGED queueVars

-----------------------------------------------------------------------------
(* sem_wait.  `entered` is the step that follows the call.                 *)

\* The test and the decrement use one load of the value.
TestValue(t, s) ==
    /\ Goto(t, "testValue", IF value[s] > 0 THEN "takeUnit" ELSE "testQueue")
    /\ unit' = [unit EXCEPT ![t] = value[s]]
    /\ UNCHANGED <<value, queueVars, locals, schedVars>>

\* Mutation: the unit is not taken off.
TakeUnitForFree(t, s, entered) ==
    /\ Goto(t, "takeUnit", entered)
    /\ unit' = [unit EXCEPT ![t] = 0]
    /\ UNCHANGED <<value, queueVars, locals, schedVars>>
TakeUnit(t, s, entered) ==
    /\ Goto(t, "takeUnit", entered)
    /\ value' = [value EXCEPT ![s] = unit[t] - 1]
    /\ unit' = [unit EXCEPT ![t] = 0]
    /\ UNCHANGED <<queueVars, locals, schedVars>>

SemWait(t, s, entered) ==
    \/ TestValue(t, s) \/ TakeUnit(t, s, entered)
    \/ Enqueue(t, s, entered) /\ UNCHANGED <<value, unit>>

-----------------------------------------------------------------------------
(* sem_signal.  `left` is the step that follows the call.                  *)

\* One instruction adds to memory.
AddUnit(t, s, left) ==
    /\ Goto(t, "addUnit", left)
    /\ value' = [value EXCEPT ![s] = value[s] + 1]
    /\ UNCHANGED <<unit, queueVars, locals, schedVars>>

SemSignal(t, s, left) ==
    \/ AddUnit(t, s, left)
    \/ Dequeue(t, s, "addUnit", "wake", left) /\ UNCHANGED <<value, unit>>
=============================================================================
