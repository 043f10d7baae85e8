------------------------------- MODULE Mutex -------------------------------
(***************************************************************************)
(* mutex_lock and mutex_unlock (mutex.c), one step per access to shared    *)
(* memory; the waiting line is WaitQueue's.                                *)
(***************************************************************************)
EXTENDS WaitQueue

VARIABLES locked, lock_owner       \* mutex->locked, mutex->owner

ownVars == <<locked, lock_owner>>
mutexVars == <<ownVars, queueVars>>

TheMutex == "myglobal_mutex"

LockSteps   == {"lock", "setLocked", "setOwner", "testOwner"} \cup EnqueueSteps
UnlockSteps == {"unlock", "checkOwner", "clearLocked", "clearOwner", "giveOwner",
                "keepLocked"} \cup DequeueSteps

MutexInit ==
    /\ locked = FALSE
    /\ lock_owner = NULL
    /\ WaitQueueInit({TheMutex})

-----------------------------------------------------------------------------
(* mutex_init, of which InitHead and InitTail are the last two stores.      *)

InitLocked == locked' = FALSE /\ UNCHANGED <<lock_owner, queueVars>>
InitOwner == lock_owner' = NULL /\ UNCHANGED <<locked, queueVars>>

-----------------------------------------------------------------------------
(* mutex_lock.  `entered` is the step that follows the call.               *)

TestLocked(t) ==
    /\ Goto(t, "lock", IF locked THEN "testOwner" ELSE "setLocked")
    /\ UNCHANGED <<mutexVars, locals, schedVars>>

SetLocked(t) ==
    /\ Goto(t, "setLocked", "setOwner")
    /\ locked' = TRUE
    /\ UNCHANGED <<lock_owner, queueVars, locals, schedVars>>

SetOwner(t, entered) ==
    /\ Goto(t, "setOwner", entered)
    /\ lock_owner' = t
    /\ UNCHANGED <<locked, queueVars, locals, schedVars>>

\* A thread that owns the mutex already does not wait for itself.
TestOwner(t, entered) ==
    /\ Goto(t, "testOwner", IF lock_owner = t THEN entered ELSE "testQueue")
    /\ UNCHANGED <<mutexVars, locals, schedVars>>

MutexLock(t, entered) ==
    \/ TestLocked(t) \/ SetLocked(t) \/ SetOwner(t, entered)
    \/ TestOwner(t, entered)
    \/ Enqueue(t, TheMutex, entered) /\ UNCHANGED ownVars

-----------------------------------------------------------------------------
(* mutex_unlock.  `left` is the step that follows the call.                *)

CheckLocked(t, left) ==
    /\ Goto(t, "unlock", IF locked THEN "checkOwner" ELSE left)
    /\ UNCHANGED <<mutexVars, locals, schedVars>>

\* Only the owner can unlock.
CheckOwner(t, left) ==
    /\ Goto(t, "checkOwner", IF lock_owner = t THEN "testWaiter" ELSE left)
    /\ UNCHANGED <<mutexVars, locals, schedVars>>

\* Mutation: only the owner is cleared.
ClearLockedSkipped(t) ==
    /\ Goto(t, "clearLocked", "clearOwner")
    /\ UNCHANGED <<mutexVars, locals, schedVars>>
ClearLocked(t) ==
    /\ Goto(t, "clearLocked", "clearOwner")
    /\ locked' = FALSE
    /\ UNCHANGED <<lock_owner, queueVars, locals, schedVars>>

ClearOwner(t, left) ==
    /\ Goto(t, "clearOwner", left)
    /\ lock_owner' = NULL
    /\ UNCHANGED <<locked, queueVars, locals, schedVars>>

\* Mutation: the thread that is woken is not made the owner.
GiveOwnerSkipped(t) ==
    /\ Goto(t, "giveOwner", "keepLocked")
    /\ UNCHANGED <<mutexVars, locals, schedVars>>
GiveOwner(t) ==
    /\ Goto(t, "giveOwner", "keepLocked")
    /\ lock_owner' = next[t]
    /\ UNCHANGED <<locked, queueVars, locals, schedVars>>

\* Mutation: the mutex is free for anyone while the woken thread wakes up.
KeepLockedFree(t) ==
    /\ Goto(t, "keepLocked", "wake")
    /\ locked' = FALSE
    /\ UNCHANGED <<lock_owner, queueVars, locals, schedVars>>
KeepLocked(t) ==
    /\ Goto(t, "keepLocked", "wake")
    /\ locked' = TRUE
    /\ UNCHANGED <<lock_owner, queueVars, locals, schedVars>>

MutexUnlock(t, left) ==
    \/ CheckLocked(t, left) \/ CheckOwner(t, left)
    \/ ClearLocked(t) \/ ClearOwner(t, left)
    \/ GiveOwner(t) \/ KeepLocked(t)
    \/ Dequeue(t, TheMutex, "clearLocked", "giveOwner", left) /\ UNCHANGED ownVars
=============================================================================
