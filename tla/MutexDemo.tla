----------------------------- MODULE MutexDemo -----------------------------
(***************************************************************************)
(* The shell command mutexdemo (kernel.c): the shell creates threads that  *)
(* increment one counter under the mutex and waits for them, on the        *)
(* scheduler of Scheduler and the mutex of Mutex.  The timer preempts      *)
(* whoever runs, between any two steps.  A history variable records        *)
(* whether it has done so within a window of the code that cannot bear it: *)
(* most properties say what holds as long as it has not.                   *)
(***************************************************************************)
EXTENDS Mutex

CONSTANTS Workers,          \* threads per demo, 2 in the source
          RaceIterations    \* RACE_ITERATIONS

WorkerSteps == {"loop", "readGlobal", "criticalYield", "writeGlobal",
                "loadDone", "storeDone", "exit", "gone"}
                   \cup LockSteps \cup UnlockSteps

ASSUME MutexDemoAssumption ==
    /\ Workers \in 1..MaxThreads
    /\ RaceIterations \in Nat \ {0}

VARIABLES
    myglobal, mutex_done,
    temp,               \* local temp of a worker, or the register of done++
    i,                  \* local i of a worker
    shell,              \* the next step of cmd_mutexdemo
    created,            \* threads this call has created
    struck              \* history: a window has been hit

workerVars == <<pc, locals, temp, i>>
demoVars == <<myglobal, mutex_done, temp, i>>
shellVars == <<shell, created, struck>>
vars == <<schedVars, mutexVars, workerVars, demoVars, shellVars>>

Init ==
    /\ SchedulerInit
    /\ MutexInit
    /\ pc = [t \in Threads |-> "loop"]
    /\ myglobal = 0
    /\ mutex_done = 0
    /\ temp = [t \in Threads |-> 0]
    /\ i = [t \in Threads |-> 0]
    /\ shell = "prompt"
    /\ created = 0
    /\ struck = FALSE

-----------------------------------------------------------------------------
(* mutex_thread                                                            *)

MoreRounds(t) == i[t] < RaceIterations

Loop(t) ==
    /\ Goto(t, "loop", IF MoreRounds(t) THEN "lock" ELSE "loadDone")
    /\ UNCHANGED <<schedVars, mutexVars, locals, demoVars, shellVars>>

Lock(t) ==
    /\ MutexLock(t, "readGlobal")
    /\ UNCHANGED <<demoVars, shellVars>>

ReadGlobal(t) ==
    /\ Goto(t, "readGlobal", "criticalYield")
    /\ temp' = [temp EXCEPT ![t] = myglobal]
    /\ UNCHANGED <<schedVars, mutexVars, locals, myglobal, mutex_done, i, shellVars>>

CriticalYield(t) ==
    /\ Goto(t, "criticalYield", "writeGlobal")
    /\ SchedulerYield
    /\ UNCHANGED <<mutexVars, locals, demoVars, shellVars>>

WriteGlobal(t) ==
    /\ Goto(t, "writeGlobal", "unlock")
    /\ myglobal' = temp[t] + 1
    /\ temp' = [temp EXCEPT ![t] = 0]
    /\ i' = [i EXCEPT ![t] = i[t] + 1]
    /\ UNCHANGED <<schedVars, mutexVars, locals, mutex_done, shellVars>>

Unlock(t) ==
    /\ MutexUnlock(t, "loop")
    /\ UNCHANGED <<demoVars, shellVars>>

\* mutex_done++ is a load, an add and a store.
LoadDone(t) ==
    /\ Goto(t, "loadDone", "storeDone")
    /\ temp' = [temp EXCEPT ![t] = mutex_done]
    /\ UNCHANGED <<schedVars, mutexVars, locals, myglobal, mutex_done, i, shellVars>>

StoreDone(t) ==
    /\ Goto(t, "storeDone", "exit")
    /\ mutex_done' = temp[t] + 1
    /\ temp' = [temp EXCEPT ![t] = 0]
    /\ UNCHANGED <<schedVars, mutexVars, locals, myglobal, i, shellVars>>

Exit(t) ==
    /\ Goto(t, "exit", "gone")
    /\ ThreadExit
    /\ UNCHANGED <<mutexVars, locals, demoVars, shellVars>>

Worker(t) == \/ Loop(t) \/ Lock(t) \/ ReadGlobal(t) \/ CriticalYield(t)
             \/ WriteGlobal(t) \/ Unlock(t) \/ LoadDone(t) \/ StoreDone(t) \/ Exit(t)

-----------------------------------------------------------------------------
(* cmd_mutexdemo, in the shell process.  A user may type it again after it *)
(* has completed.                                                          *)

ShellGoto(from, to) == ShellRuns /\ shell = from /\ shell' = to

\* Threads of an earlier call, one that gave up midway, still use the mutex.
AtWork(t) == tstate[t] # "UNUSED" /\ pc[t] \notin {"exit", "gone"}

\* Each store of the shell is a step of its own, mutex_init's included.
StartDemo ==
    /\ ShellGoto("prompt", "clearDone")
    /\ myglobal' = 0
    /\ created' = 0
    /\ struck' = (struck \/ \E t \in Threads : AtWork(t))
    /\ UNCHANGED <<schedVars, mutexVars, workerVars, mutex_done>>

ClearDone ==
    /\ ShellGoto("clearDone", "initLocked")
    /\ mutex_done' = 0
    /\ UNCHANGED <<schedVars, mutexVars, workerVars, myglobal, created, struck>>

InitTheMutex ==
    /\ \/ ShellGoto("initLocked", "initOwner") /\ InitLocked
       \/ ShellGoto("initOwner", "initHead") /\ InitOwner
       \/ ShellGoto("initHead", "initTail") /\ InitHead(TheMutex) /\ UNCHANGED ownVars
       \/ ShellGoto("initTail", "create") /\ InitTail(TheMutex) /\ UNCHANGED ownVars
    /\ UNCHANGED <<schedVars, workerVars, demoVars, created, struck>>

CreateWorker ==
    /\ ShellGoto("create", "link")
    /\ \E t \in Threads : AllocThread(t)
    /\ UNCHANGED <<mutexVars, workerVars, demoVars, created, struck>>

LinkWorker ==
    /\ ShellGoto("link", "close")
    /\ LinkThread
    /\ UNCHANGED <<mutexVars, workerVars, demoVars, created, struck>>

CloseWorker ==
    /\ ShellGoto("close", IF created + 1 < Workers THEN "create" ELSE "wait")
    /\ CloseRing
    /\ created' = created + 1
    /\ UNCHANGED <<mutexVars, workerVars, demoVars, struck>>

\* No free slot: the demo gives up, and the threads it did create run on.
CreateFails ==
    /\ ShellGoto("create", "prompt")
    /\ \A t \in Threads : tstate[t] # "UNUSED"
    /\ UNCHANGED <<schedVars, mutexVars, workerVars, demoVars, created, struck>>

\* The condition the shell waits on; mutation: it waits for one thread only.
FirstIsWorking == mutex_done < 1
SomeAreWorking == mutex_done < Workers

Wait ==
    /\ ShellGoto("wait", IF SomeAreWorking THEN "waitYield" ELSE "report")
    /\ UNCHANGED <<schedVars, mutexVars, workerVars, demoVars, created, struck>>

WaitYield ==
    /\ ShellGoto("waitYield", "wait")
    /\ SchedulerYield
    /\ UNCHANGED <<mutexVars, workerVars, demoVars, created, struck>>

Report ==
    /\ ShellGoto("report", "prompt")
    /\ UNCHANGED <<schedVars, mutexVars, workerVars, demoVars, created, struck>>

Shell == \/ StartDemo \/ ClearDone \/ InitTheMutex
         \/ CreateWorker \/ LinkWorker \/ CloseWorker \/ CreateFails
         \/ Wait \/ WaitYield \/ Report

-----------------------------------------------------------------------------

BootStep ==
    /\ SchedulerStart \/ \E p \in Processes : ProcCreate(p)
    /\ UNCHANGED <<mutexVars, workerVars, demoVars, shellVars>>

\* The windows: steps that the code would have to take without being
\* preempted after the one before.
Windows == {"setLocked", "testOwner", "testQueue", "setHead", "loadTail", "linkTail",
            "setTail", "block", "clearLocked", "clearOwner", "setNewHead",
            "clearTail", "storeDone"}

Tick ==
    /\ TimerIrq
    /\ struck' = (struck \/ \E t \in Threads : cpu = Thread(t) /\ pc[t] \in Windows)
    /\ UNCHANGED <<mutexVars, workerVars, demoVars, shell, created>>

\* The yield of thread_exit.
GoneYield(t) ==
    /\ Executes(t, "gone")
    /\ SchedulerYield
    /\ UNCHANGED <<mutexVars, workerVars, demoVars, shellVars>>

Next ==
    \/ BootStep
    \/ Tick
    \/ Shell
    \/ \E t \in Threads : Worker(t) \/ GoneYield(t)

Spec == Init /\ [][Next]_vars

\* The behaviours in which no window is hit.  A context that the round robin
\* dispatches again and again executes its next step some day: a time slice is
\* 10 ms, a step one instruction.  Nobody has to type a command.
Calm(A) == A /\ ~struck'
CalmFairness ==
    /\ WF_vars(BootStep)
    /\ WF_vars(Calm(Tick))
    /\ SF_vars(shell # "prompt" /\ Shell)
    /\ \A t \in Threads : SF_vars(Worker(t) \/ GoneYield(t))

\* The runs of the safety properties need not follow a behaviour any further.
NotStruck == ~struck

CalmSpec == Init /\ [][Calm(Next)]_vars /\ CalmFairness

-----------------------------------------------------------------------------
(* Properties.  They hold of a behaviour up to its first interrupt in a     *)
(* window, and up to a call that re-initialises a mutex in use: ~struck.    *)

MutexDemoTypeOK == ~struck =>
    /\ SchedulerTypeOK
    /\ locked \in BOOLEAN
    /\ lock_owner \in Threads \cup {NULL}
    /\ WaitQueueTypeOK({TheMutex})
    /\ pc \in [Threads -> WorkerSteps]
    /\ myglobal \in 0..(Workers * RaceIterations)
    /\ mutex_done \in 0..Workers
    /\ temp \in [Threads -> 0..(Workers * RaceIterations + Workers)]
    /\ i \in [Threads -> 0..RaceIterations]
    /\ shell \in {"prompt", "clearDone", "initLocked", "initOwner", "initHead", "initTail",
                 "create", "link", "close", "wait", "waitYield", "report"}
    /\ created \in 0..Workers

\* A thread is inside its critical section from the return of mutex_lock
\* until mutex_unlock has begun to give the mutex up; a thread asleep in the
\* yield of mutex_lock has not returned from it.
Inside(t) == /\ pc[t] \in {"readGlobal", "criticalYield", "writeGlobal", "unlock",
                           "checkOwner", "testWaiter"}
             /\ tstate[t] # "BLOCKED"

\* "The mutex ensures only one thread modifies myglobal at a time."
MutualExclusion == \A t, u \in Threads : Inside(t) /\ Inside(u) => t = u

\* It does so until an interrupt falls into a window.
ExcludesUntilStruck == ~struck => MutualExclusion

\* Whoever is inside holds the mutex.
InsideOwns == ~struck => \A t \in Threads : Inside(t) => locked /\ lock_owner = t

\* The thread a held mutex belongs to is not asleep: mutex_unlock wakes the
\* thread it hands the mutex to, and nobody falls asleep owning it.
OwnerIsAwake ==
    ~struck /\ locked /\ lock_owner # NULL /\ tstate[lock_owner] = "BLOCKED" =>
       \E t \in Threads : pc[t] \in {"keepLocked", "wake"} /\ next[t] = lock_owner

\* A sleeping thread can be found by the unlocks to come: it is in line for a
\* mutex that is held, or it has been taken out of line by the unlock that is
\* about to wake it.
SleeperWillBeWoken ==
    ~struck => \A t \in Threads : tstate[t] = "BLOCKED" =>
       locked /\ CanBeFound(t, TheMutex)

\* When the shell reports, no increment has been lost.
ReportedTotalIsRight ==
    ~struck /\ shell = "report" => myglobal = Workers * RaceIterations

\* A demo that got its threads completes.
DemoCompletes == shell = "wait" ~> shell = "report"
\* A thread that has queued up gets the mutex.
SleeperGetsIn ==
    \A t \in Threads : tstate[t] = "BLOCKED" ~> locked /\ lock_owner = t

-----------------------------------------------------------------------------
(* The mutex as FifoLock sees it.                                          *)

Holder ==
    IF ~locked THEN NULL
    ELSE IF lock_owner # NULL THEN lock_owner
    ELSE CHOOSE t \in Threads : pc[t] = "setOwner"

\* The thread an unlock has taken out of line without owning the mutex yet.
TakenOut == {t \in Threads : \E u \in Threads :
                next[u] = t /\ pc[u] \in {"clearTail", "clearNext", "giveOwner"}}
WaitingLine ==
    IF TakenOut = {} THEN Line(TheMutex)
    ELSE <<CHOOSE t \in TakenOut : TRUE>> \o Line(TheMutex)

Fifo == INSTANCE FifoLock WITH Customers <- Threads, None <- NULL,
                               holder <- Holder, line <- WaitingLine

\* Until a window is hit, every step is one of the first come, first served
\* lock its header comment describes: nobody overtakes a thread in line, and an
\* unlock hands the mutex to the first one.
ImplementsFifoLock == Fifo!Init /\ [][struck' \/ Fifo!Next]_(Fifo!lockVars)
=============================================================================
