---------------------------- MODULE MutexProofs ----------------------------
(***************************************************************************)
(* Theorems about the mutex under the shell and the workers of MutexDemo,  *)
(* for any number of contexts, workers and rounds: until an interrupt hits *)
(* one of the windows, it excludes, its owner is the thread inside and     *)
(* awake, whoever sleeps can be woken, no increment is lost, and each step *)
(* is one of the first come, first served lock of FifoLock.                *)
(***************************************************************************)
EXTENDS MutexDemo, SchedulerProofs, QueueProofs

-----------------------------------------------------------------------------
(* The inductive invariant.                                                *)

MutexTypeOK ==
    /\ locked \in BOOLEAN
    /\ lock_owner \in Threads \cup {NULL}
    /\ WaitQueueTypeOK({TheMutex})
    /\ pc \in [Threads -> WorkerSteps]
    /\ myglobal \in Nat
    /\ mutex_done \in Nat
    /\ temp \in [Threads -> Nat]

\* Only the thread on the CPU is within a window.
OnlyCpuInWindow == \A t \in Threads : pc[t] \in Windows => cpu = Thread(t)

\* Where a thread in each state is.
StatesFit ==
    \A t \in Threads :
       /\ cpu = Thread(t) =>
             \/ tstate[t] = "RUNNING"
             \/ tstate[t] = "BLOCKED" /\ pc[t] = "blockedYield"
             \/ tstate[t] = "TERMINATED" /\ pc[t] = "gone"
       /\ tstate[t] = "BLOCKED" => pc[t] \in {"blockedYield", "readGlobal"}
       /\ tstate[t] = "UNUSED" => pc[t] = "loop"

OwnerSteps == {"readGlobal", "criticalYield", "writeGlobal", "unlock", "checkOwner",
               "blockedYield", "testWaiter", "loadNext", "setNewHead", "clearTail",
               "clearNext", "giveOwner", "clearLocked"}
Owns(t) == pc[t] \in OwnerSteps /\ tstate[t] # "BLOCKED"
Gives(t) == pc[t] \in {"keepLocked", "wake"}

\* Who has the mutex: nobody, the thread that has just taken it, its owner, or
\* a sleeper about to be woken.
OwnershipInv ==
    /\ \A t \in Threads : Owns(t) => locked /\ lock_owner = t
    /\ \A t \in Threads : Gives(t) => locked /\ lock_owner = next[t]
    /\ \A t, u \in Threads : Gives(t) /\ Gives(u) => t = u
    /\ \A t \in Threads : pc[t] = "setOwner" => locked /\ lock_owner = NULL
    /\ \A t, u \in Threads : pc[t] = "setOwner" /\ pc[u] = "setOwner" => t = u
    /\ \A t \in Threads : pc[t] = "setLocked" => ~locked
    /\ \A t \in Threads : pc[t] = "clearOwner" => ~locked
    /\ ~locked /\ lock_owner # NULL => \E t \in Threads : pc[t] = "clearOwner"
    /\ locked /\ lock_owner # NULL =>
          Owns(lock_owner) \/ \E t \in Threads : Gives(t) /\ next[t] = lock_owner

\* The waiting line, from wait_head along wait_next to wait_tail.
Joins(t) == pc[t] \in {"setTail", "block"}
LineInv(line) ==
    /\ NoRepeats(line)
    /\ wait_head[TheMutex] = IF line = << >> THEN NULL ELSE line[1]
    /\ \A k \in 1..Len(line) :
          wait_next[line[k]] = IF k = Len(line) THEN NULL ELSE line[k + 1]
    /\ line # << >> /\ (\A t \in Threads : pc[t] # "setTail") =>
          wait_tail[TheMutex] = line[Len(line)]
    /\ \A k \in 1..Len(line) : tstate[line[k]] = "BLOCKED" \/ Joins(line[k])
    /\ \A t \in Threads : Joins(t) => line # << >> /\ line[Len(line)] = t

\* What an enqueuing or dequeuing thread knows of the line.
EnqueueInv(line) ==
    \A t \in Threads :
       /\ pc[t] = "setHead" => line = << >>
       /\ pc[t] \in {"loadTail", "linkTail"} => line # << >>
       /\ pc[t] \in {"setHead", "loadTail", "linkTail"} => wait_next[t] = NULL
       /\ pc[t] = "linkTail" => loaded[t] = line[Len(line)]
TakenSteps == {"clearTail", "clearNext", "giveOwner", "keepLocked", "wake"}
DequeueInv(line) ==
    \A t \in Threads :
       /\ pc[t] \in {"loadNext", "setNewHead"} => line # << >> /\ next[t] = line[1]
       /\ pc[t] = "setNewHead" => loaded[t] = wait_next[next[t]]
       /\ pc[t] = "clearTail" => line = << >>
       /\ pc[t] \in TakenSteps =>
             /\ next[t] \in Threads
             /\ tstate[next[t]] = "BLOCKED"
             /\ ~InRing(line, next[t])
QueueInv(line) == LineInv(line) /\ EnqueueInv(line) /\ DequeueInv(line)

\* The threads of this demo are those after the first `start`, which have all
\* finished.  While the shell initialises there are none.
Finished(t) == pc[t] \in {"exit", "gone"}
FinishedAfter(start) == {t \in Threads : t > start /\ Finished(t)}
Made == IF shell \in {"link", "close"} THEN created + 1 ELSE created
InitSteps == {"clearDone", "initLocked", "initOwner", "initHead", "initTail"}
ShellSteps == {"prompt", "create", "link", "close", "wait", "waitYield", "report"}
                 \cup InitSteps
ShellFits(start) ==
    /\ created \in 0..Workers
    /\ shell \in ShellSteps
    /\ shell \in InitSteps => created = 0
    /\ shell \in {"create", "link", "close"} => created < Workers
    /\ shell \in {"wait", "waitYield", "report"} => created = Workers
    /\ shell = "report" => \A t \in Threads : t <= start + created => Finished(t)
DemoInv(start) ==
    /\ ShellFits(start)
    /\ start + Made <= MaxThreads
    /\ \A t \in Threads : tstate[t] # "UNUSED" <=> t <= start + Made
    /\ \A t \in Threads : t <= start => Finished(t)
    /\ shell # "clearDone" => mutex_done = Cardinality(FinishedAfter(start))
    /\ \A t \in Threads : pc[t] = "storeDone" => temp[t] = mutex_done

MutexInv ==
    /\ IInv
    /\ MutexTypeOK
    /\ OnlyCpuInWindow
    /\ StatesFit
    /\ OwnershipInv
    /\ \E line \in Seq(Threads) : QueueInv(line)
    /\ \E start \in 0..MaxThreads : DemoInv(start)

-----------------------------------------------------------------------------
(* What the parts of the invariant depend on.                              *)

\* The thread on the CPU goes on to another step and stays awake.
LEMMA WindowsKept ==
    ASSUME OnlyCpuInWindow, StatesFit, MutexTypeOK, NEW t \in Threads,
           cpu = Thread(t), tstate[t] = "RUNNING", NEW to,
           pc' = [pc EXCEPT ![t] = to],
           UNCHANGED cpu, UNCHANGED tstate
    PROVE  OnlyCpuInWindow' /\ StatesFit'
BY OneOnCpu DEF OnlyCpuInWindow, StatesFit, MutexTypeOK

LEMMA OwnershipKept ==
    ASSUME OwnershipInv, UNCHANGED <<locked, lock_owner>>,
           lock_owner \in Threads \cup {NULL},
           \A u \in Threads : /\ Owns(u)' <=> Owns(u)
                              /\ Gives(u)' <=> Gives(u)
                              /\ Gives(u) => next'[u] = next[u]
                              /\ \A s \in {"setOwner", "setLocked", "clearOwner"} :
                                    pc'[u] = s <=> pc[u] = s
    PROVE  OwnershipInv'
<1>1. \A u \in Threads : (Owns(u) => locked /\ lock_owner = u)'
  BY DEF OwnershipInv
<1>2. \A u \in Threads : (Gives(u) => locked /\ lock_owner = next[u])'
  BY DEF OwnershipInv
<1>3. \A u, v \in Threads : (Gives(u) /\ Gives(v) => u = v)'
  BY DEF OwnershipInv
<1>4. \A u \in Threads : (pc[u] = "setOwner" => locked /\ lock_owner = NULL)'
  BY DEF OwnershipInv
<1>5. \A u, v \in Threads : (pc[u] = "setOwner" /\ pc[v] = "setOwner" => u = v)'
  BY DEF OwnershipInv
<1>6. \A u \in Threads : ((pc[u] = "setLocked" => ~locked)
                          /\ (pc[u] = "clearOwner" => ~locked))'
  BY DEF OwnershipInv
<1>7. (~locked /\ lock_owner # NULL => \E u \in Threads : pc[u] = "clearOwner")'
  BY DEF OwnershipInv
<1>8. (locked /\ lock_owner # NULL =>
          Owns(lock_owner) \/ \E u \in Threads : Gives(u) /\ next[u] = lock_owner)'
  BY DEF OwnershipInv
<1> QED
  BY <1>1, <1>2, <1>3, <1>4, <1>5, <1>6, <1>7, <1>8 DEF OwnershipInv

\* The steps at which something is said of the line.
QueueSteps == {"setHead", "loadTail", "linkTail", "setTail", "block", "loadNext",
               "setNewHead"} \cup TakenSteps

LEMMA QueueKept ==
    ASSUME NEW line \in Seq(Threads), QueueInv(line),
           UNCHANGED <<queueVars, next, loaded>>,
           \A u \in Threads : /\ tstate'[u] = "BLOCKED" <=> tstate[u] = "BLOCKED"
                              /\ \/ pc'[u] = pc[u]
                                 \/ pc[u] \notin QueueSteps /\ pc'[u] \notin QueueSteps
    PROVE  QueueInv(line)'
<1> USE DEF queueVars, QueueInv
<1>1. \A k \in 1..Len(line) : line[k] \in Threads
  OBVIOUS
<1>2. \A u \in Threads : \A s \in QueueSteps : pc'[u] = s <=> pc[u] = s
  OBVIOUS
<1>3. \A u \in Threads : Joins(u)' <=> Joins(u)
  BY <1>2 DEF Joins, QueueSteps
<1>4. LineInv(line)'
  BY <1>1, <1>2, <1>3 DEF LineInv, QueueSteps
<1>5. EnqueueInv(line)'
  BY <1>2 DEF EnqueueInv, QueueSteps
<1>6. DequeueInv(line)'
  BY <1>2 DEF DequeueInv, QueueSteps, TakenSteps
<1> QED
  BY <1>4, <1>5, <1>6

LEMMA DemoKept ==
    ASSUME NEW start \in 0..MaxThreads, DemoInv(start),
           UNCHANGED <<shell, created, mutex_done>>,
           \A u \in Threads :
              /\ tstate'[u] = "UNUSED" <=> tstate[u] = "UNUSED"
              /\ Finished(u)' <=> Finished(u)
              /\ pc'[u] = "storeDone" => pc[u] = "storeDone" /\ temp'[u] = temp[u]
    PROVE  DemoInv(start)'
<1>1. FinishedAfter(start)' = FinishedAfter(start)
  BY DEF FinishedAfter
<1>2. Made' = Made
  BY DEF Made
<1> QED
  BY <1>1, <1>2 DEF DemoInv, ShellFits

-----------------------------------------------------------------------------
(* The steps of a worker that leave the scheduler alone.                   *)

LEMMA StepOf ==
    ASSUME MutexInv, NEW t \in Threads, NEW from, NEW to \in WorkerSteps,
           Goto(t, from, to), from \notin {"blockedYield", "gone"}, UNCHANGED schedVars
    PROVE  /\ IInv' /\ OnlyCpuInWindow' /\ StatesFit'
           /\ cpu = Thread(t) /\ pc[t] = from /\ tstate[t] = "RUNNING"
           /\ pc' \in [Threads -> WorkerSteps] /\ pc'[t] = to
           /\ \A u \in Threads \ {t} : pc'[u] = pc[u] /\ pc[u] \notin Windows
           /\ UNCHANGED <<tstate, cpu>>
           /\ t # NULL
<1>1. /\ cpu = Thread(t) /\ pc[t] = from /\ pc' = [pc EXCEPT ![t] = to]
      /\ pc \in [Threads -> WorkerSteps]
  BY DEF Goto, Executes, MutexInv, MutexTypeOK
<1>2. tstate[t] = "RUNNING"
  BY <1>1 DEF MutexInv, StatesFit
<1>3. UNCHANGED <<tstate, cpu>>
  BY DEF schedVars, threadVars, dispatchVars
<1>4. IInv'
  BY SchedulerKept DEF MutexInv
<1>5. OnlyCpuInWindow' /\ StatesFit'
  BY <1>1, <1>2, <1>3, WindowsKept DEF MutexInv
<1>6. \A u \in Threads \ {t} : pc[u] \notin Windows
  BY <1>1, OneOnCpu DEF MutexInv, OnlyCpuInWindow
<1>7. t # NULL
  BY DEF Threads, NULL
<1> QED
  BY <1>1, <1>2, <1>3, <1>4, <1>5, <1>6, <1>7

\* The parts of the invariant that a step does not concern.
LEMMA Neutral ==
    ASSUME MutexInv, NEW t \in Threads, NEW from, NEW to,
           pc[t] = from, pc'[t] = to, tstate[t] = "RUNNING", UNCHANGED tstate,
           \A u \in Threads \ {t} : pc'[u] = pc[u]
    PROVE  /\ /\ UNCHANGED <<locked, lock_owner>>
              /\ \A u \in Threads : Gives(u) => next'[u] = next[u]
              /\ from \in OwnerSteps <=> to \in OwnerSteps
              /\ from \in {"keepLocked", "wake"} <=> to \in {"keepLocked", "wake"}
              /\ from \notin {"setOwner", "setLocked", "clearOwner"}
              /\ to \notin {"setOwner", "setLocked", "clearOwner"}
              => OwnershipInv'
           /\ /\ UNCHANGED <<queueVars, next, loaded>>
              /\ from \notin QueueSteps /\ to \notin QueueSteps
              => \E line \in Seq(Threads) : QueueInv(line)'
           /\ /\ UNCHANGED <<shell, created, mutex_done>>
              /\ to # "storeDone" /\ from # "exit" /\ from # "gone" /\ to # "exit" /\ to # "gone"
              /\ \A u \in Threads \ {t} : temp'[u] = temp[u]
              => \E start \in 0..MaxThreads : DemoInv(start)'
<1>1. ASSUME UNCHANGED <<locked, lock_owner>>,
             \A u \in Threads : Gives(u) => next'[u] = next[u],
             from \in OwnerSteps <=> to \in OwnerSteps,
             from \in {"keepLocked", "wake"} <=> to \in {"keepLocked", "wake"},
             from \notin {"setOwner", "setLocked", "clearOwner"},
             to \notin {"setOwner", "setLocked", "clearOwner"}
      PROVE  OwnershipInv'
  <2>1. \A u \in Threads : (Owns(u)' <=> Owns(u)) /\ (Gives(u)' <=> Gives(u))
    BY <1>1 DEF Owns, Gives
  <2>2. \A u \in Threads : \A s \in {"setOwner", "setLocked", "clearOwner"} :
           pc'[u] = s <=> pc[u] = s
    BY <1>1
  <2> QED
    BY <1>1, <2>1, <2>2, OwnershipKept DEF MutexInv, MutexTypeOK
<1>2. ASSUME UNCHANGED <<queueVars, next, loaded>>,
             from \notin QueueSteps, to \notin QueueSteps
      PROVE  \E line \in Seq(Threads) : QueueInv(line)'
  <2>1. PICK line \in Seq(Threads) : QueueInv(line)
    BY DEF MutexInv
  <2>2. QueueInv(line)'
    BY <1>2, <2>1, QueueKept
  <2> QED
    BY <2>2
<1>3. ASSUME UNCHANGED <<shell, created, mutex_done>>, to # "storeDone",
             from # "exit", from # "gone", to # "exit", to # "gone",
             \A u \in Threads \ {t} : temp'[u] = temp[u]
      PROVE  \E start \in 0..MaxThreads : DemoInv(start)'
  <2>1. PICK start \in 0..MaxThreads : DemoInv(start)
    BY DEF MutexInv
  <2>2. \A u \in Threads :
           /\ Finished(u)' <=> Finished(u)
           /\ pc'[u] = "storeDone" => pc[u] = "storeDone" /\ temp'[u] = temp[u]
    BY <1>3 DEF Finished
  <2>3. DemoInv(start)'
    BY <1>3, <2>1, <2>2, DemoKept
  <2> QED
    BY <2>3
<1> QED
  BY <1>1, <1>2, <1>3

\* The loop of mutex_thread and its accesses to myglobal.
LEMMA BodyStep ==
    ASSUME MutexInv, NEW t \in Threads,
           Loop(t) \/ ReadGlobal(t) \/ WriteGlobal(t) \/ LoadDone(t)
    PROVE  MutexInv'
<1> USE DEF locals, mutexVars, ownVars, demoVars, shellVars
<1>1. PICK from \in {"loop", "readGlobal", "writeGlobal", "loadDone"},
           to \in {"lock", "loadDone", "criticalYield", "unlock", "storeDone"} :
         /\ Goto(t, from, to)
         /\ from \in OwnerSteps <=> to \in OwnerSteps
         /\ to = "storeDone" <=> LoadDone(t)
  BY DEF Loop, ReadGlobal, WriteGlobal, LoadDone, OwnerSteps
<1>2. /\ UNCHANGED <<schedVars, locked, lock_owner, queueVars, next, loaded>>
      /\ UNCHANGED <<mutex_done, shell, created>>
      /\ from \notin {"blockedYield", "gone"} /\ to \in WorkerSteps
  BY DEF Loop, ReadGlobal, WriteGlobal, LoadDone, WorkerSteps, LockSteps, UnlockSteps
<1>3. /\ IInv' /\ OnlyCpuInWindow' /\ StatesFit'
      /\ cpu = Thread(t) /\ pc[t] = from /\ tstate[t] = "RUNNING"
      /\ pc' \in [Threads -> WorkerSteps] /\ pc'[t] = to
      /\ \A u \in Threads \ {t} : pc'[u] = pc[u] /\ pc[u] \notin Windows
      /\ UNCHANGED <<tstate, cpu>>
  BY <1>1, <1>2, StepOf
<1>4. /\ myglobal' \in Nat /\ temp' \in [Threads -> Nat]
      /\ \A u \in Threads \ {t} : temp'[u] = temp[u]
      /\ LoadDone(t) => temp'[t] = mutex_done
  BY DEF Loop, ReadGlobal, WriteGlobal, LoadDone, MutexInv, MutexTypeOK
<1>5. MutexTypeOK'
  BY <1>2, <1>3, <1>4 DEF MutexInv, MutexTypeOK, WaitQueueTypeOK, queueVars
<1>6. OwnershipInv' /\ \E line \in Seq(Threads) : QueueInv(line)'
  BY <1>1, <1>2, <1>3, Neutral DEF QueueSteps, TakenSteps
<1>7. \E start \in 0..MaxThreads : DemoInv(start)'
  <2>1. CASE ~LoadDone(t)
    BY <1>1, <1>2, <1>3, <1>4, <2>1, Neutral
  <2>2. CASE LoadDone(t)
    <3>1. PICK start \in 0..MaxThreads : DemoInv(start)
      BY DEF MutexInv
    <3>2. \A u \in Threads : Finished(u)' <=> Finished(u)
      BY <1>1, <1>3 DEF Finished
    <3>3. \A u \in Threads : pc'[u] = "storeDone" => temp'[u] = mutex_done
      BY <1>3, <1>4, <2>2 DEF Windows
    <3>4. FinishedAfter(start)' = FinishedAfter(start) /\ Made' = Made
      BY <1>2, <3>2 DEF FinishedAfter, Made
    <3>5. DemoInv(start)'
      BY <1>2, <1>3, <3>1, <3>2, <3>3, <3>4 DEF DemoInv, ShellFits
    <3> QED
      BY <3>5
  <2> QED
    BY <2>1, <2>2
<1> QED
  BY <1>3, <1>5, <1>6, <1>7 DEF MutexInv

\* The tests of mutex_lock and mutex_unlock, and the two loads of the line.
LEMMA TestStep ==
    ASSUME MutexInv, NEW t \in Threads,
           \/ TestLocked(t) \/ TestOwner(t, "readGlobal")
           \/ CheckLocked(t, "loop") \/ CheckOwner(t, "loop"),
           UNCHANGED <<demoVars, shellVars>>
    PROVE  MutexInv'
<1> USE DEF locals, mutexVars, ownVars, demoVars, shellVars
<1>1. PICK from \in {"lock", "testOwner", "unlock", "checkOwner"},
           to \in {"setLocked", "testOwner", "readGlobal", "testQueue", "checkOwner",
                   "testWaiter", "loop"} :
         Goto(t, from, to)
  BY DEF TestLocked, TestOwner, CheckLocked, CheckOwner
<1>2. /\ UNCHANGED <<schedVars, locked, lock_owner, queueVars, next, loaded>>
      /\ UNCHANGED <<mutex_done, shell, created, temp, myglobal>>
      /\ from \notin {"blockedYield", "gone"} /\ to \in WorkerSteps
  BY DEF TestLocked, TestOwner, CheckLocked, CheckOwner, WorkerSteps, LockSteps,
         UnlockSteps, EnqueueSteps, DequeueSteps
<1>3. /\ IInv' /\ OnlyCpuInWindow' /\ StatesFit'
      /\ cpu = Thread(t) /\ pc[t] = from /\ tstate[t] = "RUNNING"
      /\ pc' \in [Threads -> WorkerSteps] /\ pc'[t] = to
      /\ \A u \in Threads \ {t} : pc'[u] = pc[u] /\ pc[u] \notin Windows
      /\ UNCHANGED <<tstate, cpu>> /\ t # NULL
  BY <1>1, <1>2, StepOf
<1>4. MutexTypeOK'
  BY <1>2, <1>3 DEF MutexInv, MutexTypeOK, WaitQueueTypeOK, queueVars
<1>5. /\ \E line \in Seq(Threads) : QueueInv(line)'
      /\ \E start \in 0..MaxThreads : DemoInv(start)'
  BY <1>1, <1>2, <1>3, Neutral DEF QueueSteps, TakenSteps
<1>6. OwnershipInv'
  <2> USE DEF OwnerSteps
  <2>1. CASE TestLocked(t) /\ ~locked
    <3>1. from = "lock" /\ to = "setLocked"
      BY <1>3, <2>1 DEF TestLocked, Goto, Executes, MutexInv, MutexTypeOK
    <3>2. \A u \in Threads : Owns(u)' <=> Owns(u)
      BY <1>3, <3>1 DEF Owns
    <3>3. \A u \in Threads : Gives(u)' <=> Gives(u)
      BY <1>3, <3>1 DEF Gives
    <3>4. \A u \in Threads : \A s \in {"setOwner", "clearOwner"} : pc'[u] = s <=> pc[u] = s
      BY <1>3, <3>1
    <3> QED
      BY <1>2, <2>1, <3>2, <3>3, <3>4 DEF OwnershipInv, MutexInv, MutexTypeOK
  <2>2. CASE TestLocked(t) /\ locked
    <3>1. from = "lock" /\ to = "testOwner"
      BY <1>3, <2>2 DEF TestLocked, Goto, Executes, MutexInv, MutexTypeOK
    <3> QED
      BY <1>2, <1>3, <3>1, Neutral
  <2>3. CASE TestOwner(t, "readGlobal")
    <3>1. pc[t] = "testOwner" /\ pc'[t] = IF lock_owner = t THEN "readGlobal" ELSE "testQueue"
      BY <1>3, <2>3 DEF TestOwner, Goto, Executes, MutexInv, MutexTypeOK
    <3>2. ~Owns(t) /\ ~Gives(t) /\ pc[t] # "clearOwner"
      BY <1>3, <3>1 DEF Owns, Gives
    <3>3. \A u \in Threads : pc[u] # "clearOwner"
      BY <1>3, <3>2 DEF Windows
    <3>4. \A u \in Threads : Gives(u) => next[u] # t
      BY <1>3 DEF MutexInv, QueueInv, DequeueInv, TakenSteps, Gives
    <3>5. lock_owner # t
      BY <1>3, <3>2, <3>3, <3>4 DEF MutexInv, OwnershipInv
    <3> QED
      BY <1>2, <1>3, <3>1, <3>5, Neutral
  <2>4. CASE CheckLocked(t, "loop") \/ CheckOwner(t, "loop")
    <3>1. Owns(t)
      BY <1>3, <2>4 DEF Owns, CheckLocked, CheckOwner, Goto, Executes
    <3>2. locked /\ lock_owner = t
      BY <3>1 DEF MutexInv, OwnershipInv
    <3>3. from \in {"unlock", "checkOwner"} /\ to \in {"checkOwner", "testWaiter"}
      BY <1>3, <2>4, <3>2 DEF CheckLocked, CheckOwner, Goto, Executes, MutexInv, MutexTypeOK
    <3> QED
      BY <1>2, <1>3, <3>3, Neutral
  <2> QED
    BY <2>1, <2>2, <2>3, <2>4
<1> QED
  BY <1>3, <1>4, <1>5, <1>6 DEF MutexInv

\* Taking a free mutex, and giving it up when nobody waits.
LEMMA OwnStep ==
    ASSUME MutexInv, NEW t \in Threads,
           \/ SetLocked(t) \/ SetOwner(t, "readGlobal")
           \/ ClearLocked(t) \/ ClearOwner(t, "loop"),
           UNCHANGED <<demoVars, shellVars>>
    PROVE  MutexInv'
<1> USE DEF locals, demoVars, shellVars
<1>1. PICK from \in {"setLocked", "setOwner", "clearLocked", "clearOwner"},
           to \in {"setOwner", "readGlobal", "clearOwner", "loop"} :
         /\ Goto(t, from, to)
         /\ from = "setLocked" <=> SetLocked(t)
         /\ from = "setOwner" <=> SetOwner(t, "readGlobal")
         /\ from = "clearLocked" <=> ClearLocked(t)
         /\ from = "clearOwner" <=> ClearOwner(t, "loop")
         /\ from = "setLocked" => to = "setOwner"
         /\ from = "setOwner" => to = "readGlobal"
         /\ from = "clearLocked" => to = "clearOwner"
         /\ from = "clearOwner" => to = "loop"
  <2>1. CASE SetLocked(t)
    BY <2>1 DEF SetLocked, SetOwner, ClearLocked, ClearOwner, Goto, Executes
  <2>2. CASE SetOwner(t, "readGlobal")
    BY <2>2 DEF SetLocked, SetOwner, ClearLocked, ClearOwner, Goto, Executes
  <2>3. CASE ClearLocked(t)
    BY <2>3 DEF SetLocked, SetOwner, ClearLocked, ClearOwner, Goto, Executes
  <2>4. CASE ClearOwner(t, "loop")
    BY <2>4 DEF SetLocked, SetOwner, ClearLocked, ClearOwner, Goto, Executes
  <2> QED
    BY <2>1, <2>2, <2>3, <2>4
<1>2. /\ UNCHANGED <<schedVars, queueVars, next, loaded>>
      /\ UNCHANGED <<mutex_done, shell, created, temp, myglobal>>
      /\ from \notin {"blockedYield", "gone"} /\ to \in WorkerSteps
      /\ locked' \in BOOLEAN /\ lock_owner' \in Threads \cup {NULL}
  BY DEF SetLocked, SetOwner, ClearLocked, ClearOwner, WorkerSteps, LockSteps,
         UnlockSteps, MutexInv, MutexTypeOK
<1>3. /\ IInv' /\ OnlyCpuInWindow' /\ StatesFit'
      /\ cpu = Thread(t) /\ pc[t] = from /\ tstate[t] = "RUNNING"
      /\ pc' \in [Threads -> WorkerSteps] /\ pc'[t] = to
      /\ \A u \in Threads \ {t} : pc'[u] = pc[u] /\ pc[u] \notin Windows
      /\ UNCHANGED <<tstate, cpu>> /\ t # NULL
  BY <1>1, <1>2, StepOf
<1>4. MutexTypeOK'
  BY <1>2, <1>3 DEF MutexInv, MutexTypeOK, WaitQueueTypeOK, queueVars
<1>5. /\ \E line \in Seq(Threads) : QueueInv(line)'
      /\ \E start \in 0..MaxThreads : DemoInv(start)'
  BY <1>1, <1>2, <1>3, Neutral DEF QueueSteps, TakenSteps
<1>6. OwnershipInv'
  <2> USE <1>3
  <2>1. /\ \A u \in Threads \ {t} : /\ Owns(u)' <=> Owns(u)
                                    /\ Gives(u)' <=> Gives(u)
                                    /\ pc'[u] = pc[u]
                                    /\ pc[u] \notin {"setLocked", "clearOwner"}
        /\ ~Gives(t) /\ ~Gives(t)' /\ UNCHANGED next
        /\ Owns(t) <=> from = "clearLocked"
        /\ Owns(t)' <=> from = "setOwner"
    BY <1>1, <1>2 DEF Owns, Gives, OwnerSteps, Windows
  <2>2. /\ OwnershipInv /\ lock_owner \in Threads \cup {NULL} /\ locked \in BOOLEAN
        /\ NULL \notin Threads
    BY DEF MutexInv, MutexTypeOK, Threads, NULL
  <2>3. \A u \in Threads : Gives(u) => next[u] \in Threads /\ next[u] # t
    BY DEF MutexInv, QueueInv, DequeueInv, TakenSteps, Gives
  <2>4. CASE SetLocked(t)
    BY <1>1, <2>1, <2>2, <2>4 DEF SetLocked, OwnershipInv
  <2>5. CASE SetOwner(t, "readGlobal")
    BY <1>1, <2>1, <2>2, <2>3, <2>5 DEF SetOwner, OwnershipInv
  <2>6. CASE ClearLocked(t)
    BY <1>1, <2>1, <2>2, <2>3, <2>6 DEF ClearLocked, OwnershipInv
  <2>7. CASE ClearOwner(t, "loop")
    BY <1>1, <2>1, <2>2, <2>7 DEF ClearOwner, OwnershipInv
  <2> QED
    BY <2>4, <2>5, <2>6, <2>7
<1> QED
  BY <1>3, <1>4, <1>5, <1>6 DEF MutexInv

\* Queueing up behind a mutex that is held, all but the call of block.
LEMMA EnqueueStep ==
    ASSUME MutexInv, NEW line \in Seq(Threads), QueueInv(line), NEW t \in Threads,
           \/ TestQueue(t, TheMutex) \/ SetHead(t, TheMutex) \/ LoadTail(t, TheMutex)
           \/ LinkTail(t) \/ SetTail(t, TheMutex),
           UNCHANGED <<ownVars, demoVars, shellVars>>
    PROVE  /\ MutexInv'
           /\ TestQueue(t, TheMutex) \/ LoadTail(t, TheMutex) \/ SetTail(t, TheMutex)
              => QueueInv(line)'
           /\ SetHead(t, TheMutex) \/ LinkTail(t) => QueueInv(Append(line, t))'
<1> USE DEF ownVars, locals, demoVars, shellVars
<1>1. PICK from \in {"testQueue", "setHead", "loadTail", "linkTail", "setTail"},
           to \in {"setHead", "setTail", "loadTail", "linkTail", "block"} :
         Goto(t, from, to)
  BY DEF TestQueue, SetHead, LoadTail, LinkTail, SetTail
<1>2. /\ UNCHANGED <<schedVars, locked, lock_owner, next>>
      /\ UNCHANGED <<mutex_done, shell, created, temp, myglobal>>
      /\ from \notin {"blockedYield", "gone"} /\ to \in WorkerSteps
  BY DEF TestQueue, SetHead, LoadTail, LinkTail, SetTail, WorkerSteps, LockSteps,
         EnqueueSteps
<1>3. /\ IInv' /\ OnlyCpuInWindow' /\ StatesFit'
      /\ cpu = Thread(t) /\ pc[t] = from /\ tstate[t] = "RUNNING"
      /\ pc' \in [Threads -> WorkerSteps] /\ pc'[t] = to
      /\ \A u \in Threads \ {t} : pc'[u] = pc[u] /\ pc[u] \notin Windows
      /\ UNCHANGED <<tstate, cpu>> /\ t # NULL
  BY <1>1, <1>2, StepOf
<1>4. MutexTypeOK'
  <2>1. WaitQueueTypeOK({TheMutex})'
    <3>1. WaitQueueTypeOK({TheMutex})
      BY DEF MutexInv, MutexTypeOK
    <3>2. CASE LinkTail(t)
      BY <1>2, <3>1, <3>2 DEF LinkTail, WaitQueueTypeOK
    <3>3. CASE TestQueue(t, TheMutex) \/ LoadTail(t, TheMutex)
      BY <1>2, <3>1, <3>3 DEF TestQueue, LoadTail, WaitQueueTypeOK, queueVars
    <3>4. CASE SetHead(t, TheMutex) \/ SetTail(t, TheMutex)
      BY <1>2, <3>1, <3>4 DEF SetHead, SetTail, WaitQueueTypeOK
    <3> QED
      BY <3>2, <3>3, <3>4
  <2> QED
    BY <1>2, <1>3, <2>1 DEF MutexInv, MutexTypeOK
<1>5. OwnershipInv' /\ \E start \in 0..MaxThreads : DemoInv(start)'
  BY <1>1, <1>2, <1>3, Neutral DEF OwnerSteps
<1>6. QueueInv(line)
  OBVIOUS
<1>7. /\ \A k \in 1..Len(line) : line[k] \in Threads
      /\ Len(line) \in Nat /\ line # << >> <=> Len(line) > 0
  OBVIOUS
<1>8. /\ wait_head \in [{TheMutex} -> Threads \cup {NULL}]
      /\ wait_tail \in [{TheMutex} -> Threads \cup {NULL}]
      /\ wait_next \in [Threads -> Threads \cup {NULL}]
      /\ loaded \in [Threads -> Threads \cup {NULL}]
  BY DEF MutexInv, MutexTypeOK, WaitQueueTypeOK
\* Nobody else is in a window, and the newcomer is not in line yet.
<1>9. /\ \A u \in Threads \ {t} : pc[u] \notin Windows
      /\ \A k \in 1..Len(line) : line[k] = t => Joins(t)
  BY <1>3, <1>6, <1>7 DEF QueueInv, LineInv
<1>10. ASSUME TestQueue(t, TheMutex)
       PROVE  QueueInv(line)'
  <2>1. /\ pc[t] = "testQueue"
        /\ pc'[t] = IF line = << >> THEN "setHead" ELSE "loadTail"
        /\ wait_next' = [wait_next EXCEPT ![t] = NULL]
        /\ UNCHANGED <<wait_head, wait_tail, loaded>>
    BY <1>3, <1>6, <1>7, <1>10 DEF TestQueue, Goto, Executes, QueueInv, LineInv, MutexInv,
       MutexTypeOK, Threads, NULL
  <2>2. \A k \in 1..Len(line) : line[k] # t
    BY <1>9, <2>1 DEF Joins
  <2>3. LineInv(line)'
    BY <1>3, <1>6, <1>7, <1>8, <2>1, <2>2 DEF QueueInv, LineInv, Joins
  <2>4. EnqueueInv(line)'
    BY <1>3, <1>6, <1>8, <2>1 DEF QueueInv, EnqueueInv, Windows
  <2>5. DequeueInv(line)'
    BY <1>2, <1>3, <1>6, <1>8, <2>1 DEF QueueInv, DequeueInv, TakenSteps, Windows
  <2> QED
    BY <2>3, <2>4, <2>5 DEF QueueInv
<1>11. ASSUME LoadTail(t, TheMutex)
       PROVE  QueueInv(line)'
  <2>1. /\ pc[t] = "loadTail" /\ pc'[t] = "linkTail"
        /\ loaded' = [loaded EXCEPT ![t] = wait_tail[TheMutex]]
        /\ UNCHANGED <<wait_head, wait_tail, wait_next>>
    BY <1>3, <1>11 DEF LoadTail, Goto, Executes, queueVars, MutexInv, MutexTypeOK
  <2>2. line # << >> /\ wait_tail[TheMutex] = line[Len(line)]
    BY <1>3, <1>6, <2>1 DEF QueueInv, EnqueueInv, LineInv, Windows
  <2>3. LineInv(line)'
    BY <1>3, <1>6, <1>7, <2>1 DEF QueueInv, LineInv, Joins
  <2>4. EnqueueInv(line)'
    BY <1>3, <1>6, <1>8, <2>1, <2>2 DEF QueueInv, EnqueueInv, Windows
  <2>5. DequeueInv(line)'
    BY <1>2, <1>3, <1>6, <1>8, <2>1 DEF QueueInv, DequeueInv, TakenSteps, Windows
  <2> QED
    BY <2>3, <2>4, <2>5 DEF QueueInv
<1>12. ASSUME SetTail(t, TheMutex)
       PROVE  QueueInv(line)'
  <2>1. /\ pc[t] = "setTail" /\ pc'[t] = "block"
        /\ wait_tail' = [wait_tail EXCEPT ![TheMutex] = t]
        /\ UNCHANGED <<wait_head, wait_next, loaded>>
    BY <1>3, <1>12 DEF SetTail, Goto, Executes, MutexInv, MutexTypeOK
  <2>2. line # << >> /\ line[Len(line)] = t
    BY <1>6, <2>1 DEF QueueInv, LineInv, Joins
  <2>3. LineInv(line)'
    BY <1>3, <1>6, <1>7, <1>8, <2>1, <2>2 DEF QueueInv, LineInv, Joins
  <2>4. EnqueueInv(line)'
    BY <1>3, <1>6, <2>1 DEF QueueInv, EnqueueInv
  <2>5. DequeueInv(line)'
    BY <1>2, <1>3, <1>6, <2>1 DEF QueueInv, DequeueInv, TakenSteps
  <2> QED
    BY <2>3, <2>4, <2>5 DEF QueueInv
\* The newcomer becomes the last in line.
<1>13. ASSUME SetHead(t, TheMutex) \/ LinkTail(t)
       PROVE  QueueInv(Append(line, t))'
  <2> DEFINE longer == Append(line, t)
  <2>1. /\ longer \in Seq(Threads) /\ Len(longer) = Len(line) + 1
        /\ longer[Len(line) + 1] = t
        /\ \A k \in 1..Len(line) : longer[k] = line[k]
        /\ \A y : InRing(longer, y) <=> InRing(line, y) \/ y = t
        /\ NoRepeats(line) /\ ~InRing(line, t) => NoRepeats(longer)
        /\ longer # << >>
    BY LinkAtTail
  <2> HIDE DEF longer
  <2>2. /\ pc[t] \in {"setHead", "linkTail"} /\ pc'[t] = "setTail"
        /\ pc[t] = "setHead" => /\ wait_head' = [wait_head EXCEPT ![TheMutex] = t]
                                /\ UNCHANGED <<wait_next, loaded>>
        /\ pc[t] = "linkTail" =>
             /\ wait_next' = [u \in Threads |-> IF u = loaded[t] THEN t ELSE wait_next[u]]
             /\ loaded' = [loaded EXCEPT ![t] = NULL]
             /\ UNCHANGED wait_head
        /\ UNCHANGED wait_tail
    BY <1>3, <1>13 DEF SetHead, LinkTail, Goto, Executes, MutexInv, MutexTypeOK
  <2>3. /\ pc[t] = "setHead" <=> line = << >>
        /\ wait_next[t] = NULL
        /\ pc[t] = "linkTail" => loaded[t] = line[Len(line)]
        /\ \A k \in 1..Len(line) : line[k] # t
        /\ ~InRing(line, t)
    BY <1>6, <1>9, <2>2 DEF QueueInv, EnqueueInv, Joins, InRing
  <2>4. LineInv(longer)'
    <3>1. NoRepeats(longer)
      BY <1>6, <2>1, <2>3 DEF QueueInv, LineInv
    <3>2. wait_head'[TheMutex] = longer[1]
      BY <1>6, <1>7, <1>8, <2>1, <2>2, <2>3 DEF QueueInv, LineInv
    <3>3. \A k \in 1..Len(longer) :
             wait_next'[longer[k]] = IF k = Len(longer) THEN NULL ELSE longer[k + 1]
      <4>1. CASE line = << >>
        BY <1>7, <2>1, <2>2, <2>3, <4>1
      <4>2. CASE line # << >>
        <5>1. ASSUME NEW k \in 1..Len(line)
              PROVE  wait_next'[line[k]] = longer[k + 1]
          <6>1. wait_next'[line[k]] =
                  IF line[k] = line[Len(line)] THEN t ELSE wait_next[line[k]]
            BY <1>7, <2>2, <2>3, <4>2
          <6>2. line[k] = line[Len(line)] <=> k = Len(line)
            BY <1>6, <1>7 DEF QueueInv, LineInv, NoRepeats
          <6>3. k # Len(line) => wait_next[line[k]] = line[k + 1] /\ k + 1 \in 1..Len(line)
            BY <1>6, <1>7 DEF QueueInv, LineInv
          <6> QED
            BY <1>7, <2>1, <6>1, <6>2, <6>3
        <5>2. wait_next'[t] = NULL
          BY <1>7, <2>2, <2>3, <4>2
        <5> QED
          BY <1>7, <2>1, <5>1, <5>2
      <4> QED
        BY <4>1, <4>2
    <3>4. \A k \in 1..Len(longer) :
             tstate[longer[k]] = "BLOCKED" \/ Joins(longer[k])'
      <4>1. \A k \in 1..Len(line) : tstate[line[k]] = "BLOCKED"
        BY <1>6, <1>7, <1>9, <2>3 DEF QueueInv, LineInv, Joins, Windows
      <4> QED
        BY <1>7, <2>1, <2>2, <4>1 DEF Joins
    <3>5. \A u \in Threads : Joins(u)' => u = t
      BY <1>3 DEF Joins, Windows
    <3> QED
      BY <1>3, <2>1, <2>2, <3>1, <3>2, <3>3, <3>4, <3>5 DEF LineInv
  <2>5. EnqueueInv(longer)'
    BY <1>3, <2>2 DEF EnqueueInv, Windows
  <2>6. DequeueInv(longer)'
    <3>1. ASSUME NEW u \in Threads, u # t
          PROVE  /\ pc'[u] = pc[u] /\ pc[u] \notin {"setNewHead", "clearTail"}
                 /\ pc[u] = "loadNext" => next[u] = longer[1]
                 /\ pc[u] \in TakenSteps => next[u] # t
      BY <1>3, <1>6, <1>7, <2>1, <3>1 DEF QueueInv, DequeueInv, Windows
    <3> QED
      BY <1>2, <1>3, <1>6, <2>1, <2>2, <3>1 DEF QueueInv, DequeueInv, TakenSteps
  <2>7. QueueInv(longer)'
    BY <2>4, <2>5, <2>6 DEF QueueInv
  <2> QED
    BY <2>7 DEF longer
<1>14. Append(line, t) \in Seq(Threads)
  OBVIOUS
<1>15. \E l \in Seq(Threads) : QueueInv(l)'
  BY <1>10, <1>11, <1>12, <1>13, <1>14
<1>16. MutexInv'
  BY <1>3, <1>4, <1>5, <1>15 DEF MutexInv
<1> QED
  BY <1>10, <1>11, <1>12, <1>13, <1>16

\* The owner is alone with the mutex: nobody else takes a thread out of line,
\* takes or gives the mutex.
LEMMA OwnerIsAlone ==
    ASSUME MutexInv, NEW t \in Threads, Owns(t)
    PROVE  \A u \in Threads \ {t} :
              /\ ~Owns(u) /\ ~Gives(u)
              /\ pc[u] \notin {"setOwner", "setLocked", "clearOwner"}
              /\ pc[u] \notin {"loadNext", "setNewHead"} \cup TakenSteps
<1>1. locked /\ lock_owner = t /\ t # NULL /\ tstate[t] # "BLOCKED"
  BY DEF MutexInv, OwnershipInv, Owns, Threads, NULL
<1>2. ASSUME NEW u \in Threads, u # t PROVE ~Owns(u) /\ ~Gives(u)
  BY <1>1, <1>2 DEF MutexInv, OwnershipInv, QueueInv, DequeueInv, TakenSteps, Gives
<1>3. ASSUME NEW u \in Threads, u # t
      PROVE  pc[u] \notin {"setOwner", "setLocked", "clearOwner"}
  BY <1>1, <1>3 DEF MutexInv, OwnershipInv
<1>4. ASSUME NEW u \in Threads, u # t
      PROVE  pc[u] \notin {"loadNext", "setNewHead"} \cup TakenSteps
  BY <1>2, <1>4 DEF MutexInv, StatesFit, Owns, OwnerSteps, Gives, TakenSteps
<1> QED
  BY <1>2, <1>3, <1>4

\* Taking the first thread out of line and making it the owner, all but the
\* call of wake.
LEMMA DequeueStep ==
    ASSUME MutexInv, NEW line \in Seq(Threads), QueueInv(line), NEW t \in Threads,
           \/ UNCHANGED ownVars /\ \/ TestWaiter(t, TheMutex, "clearLocked")
                                   \/ LoadNext(t) \/ SetNewHead(t, TheMutex)
                                   \/ ClearTail(t, TheMutex) \/ ClearNext(t, "giveOwner")
           \/ GiveOwner(t) \/ KeepLocked(t),
           UNCHANGED <<demoVars, shellVars>>
    PROVE  /\ MutexInv'
           /\ SetNewHead(t, TheMutex) => /\ line # << >> /\ next[t] = line[1]
                                         /\ QueueInv(Tail(line))'
           /\ ~SetNewHead(t, TheMutex) => QueueInv(line)'
<1> USE DEF ownVars, locals, demoVars, shellVars, queueVars
<1>1. PICK from \in {"testWaiter", "loadNext", "setNewHead", "clearTail", "clearNext",
                     "giveOwner", "keepLocked"},
           to \in {"clearLocked", "loadNext", "setNewHead", "clearTail", "clearNext",
                   "giveOwner", "keepLocked", "wake"} :
         Goto(t, from, to)
  BY DEF TestWaiter, LoadNext, SetNewHead, ClearTail, ClearNext, GiveOwner, KeepLocked
<1>2. /\ UNCHANGED schedVars
      /\ UNCHANGED <<mutex_done, shell, created, temp, myglobal>>
      /\ from \notin {"blockedYield", "gone"} /\ to \in WorkerSteps
  BY DEF TestWaiter, LoadNext, SetNewHead, ClearTail, ClearNext, GiveOwner, KeepLocked,
         WorkerSteps, UnlockSteps, DequeueSteps
<1>3. /\ IInv' /\ OnlyCpuInWindow' /\ StatesFit'
      /\ cpu = Thread(t) /\ pc[t] = from /\ tstate[t] = "RUNNING"
      /\ pc' \in [Threads -> WorkerSteps] /\ pc'[t] = to
      /\ \A u \in Threads \ {t} : pc'[u] = pc[u] /\ pc[u] \notin Windows
      /\ UNCHANGED <<tstate, cpu>> /\ t # NULL
  BY <1>1, <1>2, StepOf
<1>4. QueueInv(line)
  OBVIOUS
<1>5. /\ wait_head \in [{TheMutex} -> Threads \cup {NULL}]
      /\ wait_tail \in [{TheMutex} -> Threads \cup {NULL}]
      /\ wait_next \in [Threads -> Threads \cup {NULL}]
      /\ loaded \in [Threads -> Threads \cup {NULL}]
      /\ next \in [Threads -> Threads \cup {NULL}]
      /\ pc \in [Threads -> WorkerSteps]
      /\ locked \in BOOLEAN /\ lock_owner \in Threads \cup {NULL}
      /\ NULL \notin Threads
  BY DEF MutexInv, MutexTypeOK, WaitQueueTypeOK, Threads, NULL
<1>6. /\ \A k \in 1..Len(line) : line[k] \in Threads
      /\ Len(line) \in Nat /\ line # << >> <=> Len(line) > 0
  OBVIOUS
\* Nobody else is at a step of its own with the mutex or the line.
<1>7. \A u \in Threads \ {t} :
         /\ ~Owns(u) /\ ~Gives(u) /\ pc[u] # "setOwner"
         /\ pc[u] \notin {"loadNext", "setNewHead"} \cup TakenSteps
  <2>1. CASE from # "keepLocked"
    BY <1>1, <1>3, <2>1, OwnerIsAlone DEF Owns, OwnerSteps
  <2>2. CASE from = "keepLocked"
    <3>1. /\ locked /\ lock_owner = next[t] /\ next[t] \in Threads
          /\ tstate[next[t]] = "BLOCKED" /\ next[t] # NULL
      BY <1>3, <1>4, <1>5, <2>2 DEF MutexInv, OwnershipInv, Gives, QueueInv, DequeueInv, TakenSteps
    <3>2. \A u \in Threads \ {t} : ~Owns(u) /\ ~Gives(u) /\ pc[u] # "setOwner"
      BY <1>3, <2>2, <3>1 DEF MutexInv, OwnershipInv, Owns, Gives
    <3> QED
      BY <3>2 DEF MutexInv, StatesFit, Owns, OwnerSteps, Gives, TakenSteps
  <2> QED
    BY <2>1, <2>2
<1>8. \A u \in Threads \ {t} : /\ Owns(u)' <=> Owns(u)
                               /\ Gives(u)' <=> Gives(u)
                               /\ Joins(u)' <=> Joins(u)
                               /\ pc[u] \notin {"setLocked", "clearOwner"}
  BY <1>3 DEF Owns, Gives, Joins, Windows
<1>9. /\ MutexTypeOK' /\ OwnershipInv'
      /\ SetNewHead(t, TheMutex) => /\ line # << >> /\ next[t] = line[1]
                                    /\ QueueInv(Tail(line))'
      /\ ~SetNewHead(t, TheMutex) => QueueInv(line)'
  <2>1. CASE TestWaiter(t, TheMutex, "clearLocked")
    <3>1. /\ from = "testWaiter"
          /\ to = IF line = << >> THEN "clearLocked" ELSE "loadNext"
          /\ next' = [next EXCEPT ![t] = wait_head[TheMutex]]
          /\ wait_head[TheMutex] = IF line = << >> THEN NULL ELSE line[1]
          /\ UNCHANGED <<wait_head, wait_tail, wait_next, loaded, locked, lock_owner>>
      BY <1>3, <1>4, <1>5, <1>6, <2>1
      DEF TestWaiter, Goto, Executes, QueueInv, LineInv, GiveOwner, KeepLocked
    <3>2. MutexTypeOK'
      BY <1>2, <1>3, <1>5, <3>1 DEF MutexInv, MutexTypeOK, WaitQueueTypeOK
    <3>3. OwnershipInv'
      BY <1>2, <1>3, <1>5, <1>7, <3>1, Neutral DEF OwnerSteps, Gives
    <3>4. LineInv(line)' /\ EnqueueInv(line)'
      BY <1>3, <1>4, <1>6, <1>8, <3>1 DEF QueueInv, LineInv, EnqueueInv, Joins
    <3>5. DequeueInv(line)'
      BY <1>3, <1>5, <1>7, <3>1 DEF DequeueInv, TakenSteps
    <3> QED
      BY <1>3, <3>1, <3>2, <3>3, <3>4, <3>5 DEF QueueInv, SetNewHead, Goto, Executes
  <2>2. CASE LoadNext(t)
    <3>1. /\ from = "loadNext" /\ to = "setNewHead"
          /\ loaded' = [loaded EXCEPT ![t] = wait_next[next[t]]]
          /\ UNCHANGED <<wait_head, wait_tail, wait_next, next, locked, lock_owner>>
          /\ line # << >> /\ next[t] = line[1]
      BY <1>3, <1>4, <1>5, <1>6, <2>2
      DEF LoadNext, Goto, Executes, QueueInv, DequeueInv, GiveOwner, KeepLocked
    <3>2. MutexTypeOK'
      BY <1>2, <1>3, <1>5, <1>6, <3>1 DEF MutexInv, MutexTypeOK, WaitQueueTypeOK
    <3>3. OwnershipInv'
      BY <1>2, <1>3, <1>5, <1>7, <3>1, Neutral DEF OwnerSteps, Gives
    <3>4. LineInv(line)'
      BY <1>3, <1>4, <1>6, <1>8, <3>1 DEF QueueInv, LineInv, Joins
    <3>5. EnqueueInv(line)'
      BY <1>3, <1>4, <1>6, <3>1 DEF QueueInv, EnqueueInv, Windows
    <3>6. DequeueInv(line)'
      BY <1>3, <1>5, <1>7, <3>1 DEF DequeueInv, TakenSteps
    <3> QED
      BY <1>3, <3>1, <3>2, <3>3, <3>4, <3>5, <3>6 DEF QueueInv, SetNewHead, Goto, Executes
  <2>3. CASE SetNewHead(t, TheMutex)
    <3> DEFINE rest == Tail(line)
    <3>1. /\ from = "setNewHead"
          /\ to = IF loaded[t] = NULL THEN "clearTail" ELSE "clearNext"
          /\ wait_head' = [wait_head EXCEPT ![TheMutex] = loaded[t]]
          /\ loaded' = [loaded EXCEPT ![t] = NULL]
          /\ UNCHANGED <<wait_tail, wait_next, next, locked, lock_owner>>
          /\ line # << >> /\ next[t] = line[1] /\ loaded[t] = wait_next[line[1]]
      BY <1>3, <1>4, <1>5, <1>6, <2>3
      DEF SetNewHead, Goto, Executes, QueueInv, DequeueInv, GiveOwner, KeepLocked
    <3>2. MutexTypeOK'
      BY <1>2, <1>3, <1>5, <3>1 DEF MutexInv, MutexTypeOK, WaitQueueTypeOK
    <3>3. OwnershipInv'
      BY <1>2, <1>3, <1>5, <1>7, <3>1, Neutral DEF OwnerSteps, Gives
    <3>4. /\ rest \in Seq(Threads) /\ Len(rest) = Len(line) - 1
          /\ \A k \in 1..Len(rest) : rest[k] = line[k + 1] /\ k + 1 \in 1..Len(line)
          /\ rest # << >> <=> Len(line) > 1
          /\ NoRepeats(line) => NoRepeats(rest)
      BY <3>1, TakeFirst
    <3> HIDE DEF rest
    <3>5. /\ loaded[t] = IF rest = << >> THEN NULL ELSE rest[1]
          /\ \A k \in 1..Len(line) : tstate[line[k]] = "BLOCKED"
          /\ \A k \in 1..Len(line) : k # 1 => line[k] # line[1]
      <4>1. \A k \in 1..Len(line) : tstate[line[k]] = "BLOCKED"
        BY <1>3, <1>4, <1>6, <1>8, <3>1 DEF QueueInv, LineInv, Joins, Windows
      <4>2. \A k \in 1..Len(line) : k # 1 => line[k] # line[1]
        BY <1>4, <1>6, <3>1 DEF QueueInv, LineInv, NoRepeats
      <4>3. wait_next[line[1]] = IF Len(line) = 1 THEN NULL ELSE line[2]
        <5>1. 1 \in 1..Len(line) /\ 1 + 1 = 2
          BY <1>6, <3>1
        <5> QED
          BY <1>4, <5>1 DEF QueueInv, LineInv
      <4>4. rest # << >> => rest[1] = line[2]
        BY <1>6, <3>4
      <4> QED
        BY <1>6, <3>1, <3>4, <4>1, <4>2, <4>3, <4>4
    <3>6. LineInv(rest)'
      <4>1. NoRepeats(rest)
        BY <1>4, <3>4 DEF QueueInv, LineInv
      <4>2. wait_head'[TheMutex] = IF rest = << >> THEN NULL ELSE rest[1]
        BY <1>5, <3>1, <3>5
      <4>3. \A k \in 1..Len(rest) :
               wait_next[rest[k]] = IF k = Len(rest) THEN NULL ELSE rest[k + 1]
        <5>1. \A k \in 1..Len(line) :
                 wait_next[line[k]] = IF k = Len(line) THEN NULL ELSE line[k + 1]
          BY <1>4 DEF QueueInv, LineInv
        <5> QED
          BY <1>6, <3>4, <5>1
      <4>4. rest # << >> => wait_tail[TheMutex] = rest[Len(rest)]
        <5>1. \A u \in Threads : pc[u] # "setTail"
          BY <1>3, <3>1 DEF Windows
        <5>2. wait_tail[TheMutex] = line[Len(line)]
          BY <1>4, <3>1, <5>1 DEF QueueInv, LineInv
        <5> QED
          BY <1>6, <3>4, <5>2
      <4>5. \A k \in 1..Len(rest) : tstate[rest[k]] = "BLOCKED"
        BY <3>4, <3>5
      <4>6. \A u \in Threads : ~Joins(u)'
        BY <1>3, <3>1 DEF Joins, Windows
      <4> QED
        BY <1>3, <3>1, <4>1, <4>2, <4>3, <4>4, <4>5, <4>6 DEF LineInv
    <3>7. EnqueueInv(rest)'
      BY <1>3, <3>1 DEF EnqueueInv, Windows
    <3>8. ~InRing(rest, next[t]) /\ tstate[next[t]] = "BLOCKED" /\ next[t] \in Threads
      BY <1>6, <3>1, <3>4, <3>5 DEF InRing
    <3>9. to = "clearTail" => rest = << >>
      BY <1>5, <1>6, <3>1, <3>4, <3>5
    <3>10. DequeueInv(rest)'
      BY <1>3, <1>5, <1>7, <3>1, <3>8, <3>9 DEF DequeueInv, TakenSteps
    <3>11. QueueInv(rest)'
      BY <3>6, <3>7, <3>10 DEF QueueInv
    <3> QED
      BY <2>3, <3>1, <3>2, <3>3, <3>11 DEF rest
  <2>4. CASE ClearTail(t, TheMutex) \/ ClearNext(t, "giveOwner")
    <3>1. /\ from \in {"clearTail", "clearNext"}
          /\ to = IF from = "clearTail" THEN "clearNext" ELSE "giveOwner"
          /\ from = "clearTail" => UNCHANGED wait_next
          /\ from = "clearNext" => /\ wait_next' = [wait_next EXCEPT ![next[t]] = NULL]
                                   /\ UNCHANGED wait_tail
          /\ wait_tail' \in [{TheMutex} -> Threads \cup {NULL}]
          /\ UNCHANGED <<wait_head, loaded, next, locked, lock_owner>>
          /\ from = "clearTail" => line = << >>
          /\ next[t] \in Threads /\ tstate[next[t]] = "BLOCKED" /\ ~InRing(line, next[t])
      BY <1>3, <1>4, <1>5, <1>6, <2>4
      DEF ClearTail, ClearNext, Goto, Executes, QueueInv, DequeueInv, TakenSteps,
          GiveOwner, KeepLocked
    <3>2. MutexTypeOK'
      BY <1>2, <1>3, <1>5, <3>1 DEF MutexInv, MutexTypeOK, WaitQueueTypeOK
    <3>3. OwnershipInv'
      BY <1>2, <1>3, <1>5, <1>7, <3>1, Neutral DEF OwnerSteps, Gives
    <3>4. \A k \in 1..Len(line) : wait_next'[line[k]] = wait_next[line[k]]
      BY <1>5, <1>6, <3>1 DEF InRing
    <3>5. LineInv(line)'
      BY <1>3, <1>4, <1>6, <1>8, <3>1, <3>4 DEF QueueInv, LineInv, Joins
    <3>6. EnqueueInv(line)'
      BY <1>3, <3>1 DEF EnqueueInv, Windows
    <3>7. DequeueInv(line)'
      BY <1>3, <1>5, <1>7, <3>1 DEF DequeueInv, TakenSteps
    <3> QED
      BY <1>3, <3>1, <3>2, <3>3, <3>5, <3>6, <3>7 DEF QueueInv, SetNewHead, Goto, Executes
  <2>5. CASE GiveOwner(t) \/ KeepLocked(t)
    <3>1. /\ from \in {"giveOwner", "keepLocked"}
          /\ to = IF from = "giveOwner" THEN "keepLocked" ELSE "wake"
          /\ UNCHANGED <<wait_head, wait_tail, wait_next, loaded, next>>
          /\ next[t] \in Threads /\ tstate[next[t]] = "BLOCKED" /\ ~InRing(line, next[t])
          /\ locked /\ locked' /\ lock_owner' = next[t]
      BY <1>3, <1>4, <1>5, <1>6, <2>5
      DEF GiveOwner, KeepLocked, Goto, Executes, QueueInv, DequeueInv, TakenSteps,
          MutexInv, OwnershipInv, Owns, OwnerSteps, Gives
    <3>2. MutexTypeOK'
      BY <1>2, <1>3, <1>5, <3>1 DEF MutexInv, MutexTypeOK, WaitQueueTypeOK
    <3>3. /\ ~Owns(t)' /\ Gives(t)'
          /\ \A u \in Threads : ~Owns(u)' /\ (Gives(u)' <=> u = t)
          /\ \A u \in Threads : pc'[u] \notin {"setOwner", "setLocked", "clearOwner"}
      BY <1>3, <1>7, <1>8, <3>1 DEF Owns, Gives, OwnerSteps
    <3>4. OwnershipInv'
      BY <3>1, <3>3 DEF OwnershipInv
    <3>5. LineInv(line)' /\ EnqueueInv(line)'
      BY <1>3, <1>4, <1>6, <1>8, <3>1 DEF QueueInv, LineInv, EnqueueInv, Joins
    <3>6. DequeueInv(line)'
      BY <1>3, <1>5, <1>7, <3>1 DEF DequeueInv, TakenSteps
    <3> QED
      BY <1>3, <3>1, <3>2, <3>4, <3>5, <3>6 DEF QueueInv, SetNewHead, Goto, Executes
  <2> QED
    BY <2>1, <2>2, <2>3, <2>4, <2>5
<1>10. \E start \in 0..MaxThreads : DemoInv(start)'
  BY <1>1, <1>2, <1>3, Neutral
<1>11. \E l \in Seq(Threads) : QueueInv(l)'
  <2>1. line # << >> => Tail(line) \in Seq(Threads)
    OBVIOUS
  <2> QED
    BY <1>9, <2>1
<1>12. MutexInv'
  BY <1>3, <1>9, <1>10, <1>11 DEF MutexInv
<1> QED
  BY <1>9, <1>12

-----------------------------------------------------------------------------
(* The steps that change the scheduler's state.                            *)

\* The timer, and the yields of mutex_lock, of the critical section, of
\* thread_exit and of the shell's loop.
LEMMA IrqKeepsMutex ==
    ASSUME MutexInv, TimerIrq \/ SchedulerYield,
           \A u \in Threads : pc[u] \notin Windows,
           pc' \in [Threads -> WorkerSteps],
           \A u \in Threads :
              \/ pc'[u] = pc[u]
              \/ pc[u] = "blockedYield" /\ pc'[u] = "readGlobal"
              \/ pc[u] = "criticalYield" /\ pc'[u] = "writeGlobal",
           shell' = shell \/ (shell = "waitYield" /\ shell' = "wait"),
           UNCHANGED <<mutexVars, locals, demoVars, created>>
    PROVE  MutexInv'
<1> USE DEF mutexVars, ownVars, queueVars, locals, demoVars
<1>1. /\ IInv'
      /\ \A t \in Threads : cpu' = Thread(t) => tstate'[t] = "RUNNING"
      /\ \A t \in Threads : /\ tstate'[t] = "BLOCKED" <=> tstate[t] = "BLOCKED"
                            /\ tstate'[t] = "UNUSED" <=> tstate[t] = "UNUSED"
  BY IrqEffect DEF MutexInv
<1>2. MutexTypeOK'
  BY DEF MutexInv, MutexTypeOK, WaitQueueTypeOK
<1>3. OnlyCpuInWindow'
  BY DEF OnlyCpuInWindow, Windows
<1>4. StatesFit'
  BY <1>1 DEF StatesFit, MutexInv
<1>5. OwnershipInv'
  <2>1. \A u \in Threads : (Owns(u)' <=> Owns(u)) /\ (Gives(u)' <=> Gives(u))
    BY <1>1 DEF Owns, OwnerSteps, Gives
  <2> QED
    BY <2>1, OwnershipKept DEF MutexInv, MutexTypeOK
<1>6. \E line \in Seq(Threads) : QueueInv(line)'
  <2>1. PICK line \in Seq(Threads) : QueueInv(line)
    BY DEF MutexInv
  <2>2. /\ "blockedYield" \notin QueueSteps /\ "readGlobal" \notin QueueSteps
        /\ "criticalYield" \notin QueueSteps /\ "writeGlobal" \notin QueueSteps
    BY DEF QueueSteps, TakenSteps
  <2>3. ASSUME NEW u \in Threads
        PROVE  pc'[u] = pc[u] \/ (pc[u] \notin QueueSteps /\ pc'[u] \notin QueueSteps)
    BY <2>2, Zenon
  <2>4. QueueInv(line)'
    BY <1>1, <2>1, <2>3, QueueKept
  <2> QED
    BY <2>4
<1>7. \E start \in 0..MaxThreads : DemoInv(start)'
  <2>1. PICK start \in 0..MaxThreads : DemoInv(start)
    BY DEF MutexInv
  <2>2. \A u \in Threads :
           /\ Finished(u)' <=> Finished(u)
           /\ pc'[u] = "storeDone" => pc[u] = "storeDone" /\ temp'[u] = temp[u]
    BY DEF Finished
  <2>3. FinishedAfter(start)' = FinishedAfter(start) /\ Made' = Made
    BY <2>2 DEF FinishedAfter, Made
  <2>4. /\ shell' = "report" => shell = "report"
        /\ shell' = "clearDone" <=> shell = "clearDone"
    OBVIOUS
  <2>5. ShellFits(start)'
    <3>1. ShellFits(start) /\ created' = created
      BY <2>1 DEF DemoInv
    <3>2. shell' \in ShellSteps /\ (shell' \in InitSteps => created' = 0)
      BY <3>1 DEF ShellFits, ShellSteps, InitSteps
    <3> QED
      BY <2>2, <3>1, <3>2 DEF ShellFits
  <2>6. DemoInv(start)'
    BY <1>1, <2>1, <2>2, <2>3, <2>4, <2>5 DEF DemoInv
  <2> QED
    BY <2>6
<1> QED
  BY <1>1, <1>2, <1>3, <1>4, <1>5, <1>6, <1>7 DEF MutexInv

LEMMA TickStep ==
    ASSUME MutexInv, Tick, ~struck'
    PROVE  MutexInv'
<1>1. \A u \in Threads : pc[u] \notin Windows
  BY DEF Tick, MutexInv, OnlyCpuInWindow
<1>2. TimerIrq /\ UNCHANGED <<mutexVars, locals, demoVars, created>>
  BY DEF Tick, workerVars, shellVars
<1>3. pc' = pc /\ shell' = shell /\ pc' \in [Threads -> WorkerSteps]
  BY DEF Tick, workerVars, shellVars, MutexInv, MutexTypeOK
<1> QED
  BY <1>1, <1>2, <1>3, IrqKeepsMutex

LEMMA YieldStep ==
    ASSUME MutexInv, NEW t \in Threads,
           \/ BlockedYield(t, "readGlobal") /\ UNCHANGED <<ownVars, demoVars, shellVars>>
           \/ CriticalYield(t)
           \/ GoneYield(t)
    PROVE  MutexInv'
<1>1. /\ cpu = Thread(t) /\ SchedulerYield /\ shell' = shell
      /\ pc[t] \in {"blockedYield", "criticalYield", "gone"}
      /\ \/ pc' = pc
         \/ pc[t] = "blockedYield" /\ pc' = [pc EXCEPT ![t] = "readGlobal"]
         \/ pc[t] = "criticalYield" /\ pc' = [pc EXCEPT ![t] = "writeGlobal"]
      /\ UNCHANGED <<mutexVars, locals, demoVars, created>>
  BY DEF BlockedYield, CriticalYield, GoneYield, Goto, Executes, mutexVars, workerVars,
         demoVars, shellVars
<1>2. \A u \in Threads : pc[u] \notin Windows
  BY <1>1, OneOnCpu DEF MutexInv, OnlyCpuInWindow, Windows
<1>3. pc \in [Threads -> WorkerSteps] /\ {"readGlobal", "writeGlobal"} \subseteq WorkerSteps
  BY DEF MutexInv, MutexTypeOK, WorkerSteps
<1>4. pc' \in [Threads -> WorkerSteps]
  BY <1>1, <1>3
<1>5. \A u \in Threads :
         \/ pc'[u] = pc[u]
         \/ pc[u] = "blockedYield" /\ pc'[u] = "readGlobal"
         \/ pc[u] = "criticalYield" /\ pc'[u] = "writeGlobal"
  BY <1>1, <1>3
<1> QED
  BY <1>1, <1>2, <1>4, <1>5, IrqKeepsMutex

\* The caller of mutex_lock falls asleep, in line.
LEMMA BlockStep ==
    ASSUME MutexInv, NEW t \in Threads, Block(t),
           UNCHANGED <<ownVars, demoVars, shellVars>>
    PROVE  MutexInv'
<1>1. /\ cpu = Thread(t) /\ pc[t] = "block"
      /\ pc \in [Threads -> WorkerSteps] /\ pc' = [pc EXCEPT ![t] = "blockedYield"]
      /\ UNCHANGED <<wait_head, wait_tail, wait_next, next, loaded, locked, lock_owner>>
      /\ UNCHANGED <<myglobal, mutex_done, temp, shell, created>>
      /\ "blockedYield" \in WorkerSteps
  BY DEF Block, Goto, Executes, MutexInv, MutexTypeOK, ownVars, queueVars, locals,
         demoVars, shellVars, WorkerSteps, LockSteps, EnqueueSteps
<1>2. IInv' /\ tstate' = [tstate EXCEPT ![t] = "BLOCKED"] /\ UNCHANGED cpu
  BY <1>1, CallEffect DEF Block, MutexInv
<1>3. tstate \in [Threads -> ThreadStates] /\ tstate[t] = "RUNNING"
  BY <1>1 DEF MutexInv, IInv, SchedulerTypeOK, StatesFit
<1>4. MutexTypeOK'
  BY <1>1 DEF MutexInv, MutexTypeOK, WaitQueueTypeOK
<1>5. OnlyCpuInWindow' /\ StatesFit'
  BY <1>1, <1>2, <1>3, OneOnCpu DEF MutexInv, OnlyCpuInWindow, StatesFit, Windows
<1>6. OwnershipInv'
  <2>1. \A u \in Threads : (Owns(u)' <=> Owns(u)) /\ (Gives(u)' <=> Gives(u))
    BY <1>1, <1>2, <1>3 DEF Owns, OwnerSteps, Gives
  <2> QED
    BY <1>1, <2>1, OwnershipKept DEF MutexInv, MutexTypeOK
<1>7. \E line \in Seq(Threads) : QueueInv(line)'
  <2>1. PICK line \in Seq(Threads) : QueueInv(line)
    BY DEF MutexInv
  <2>2. \A k \in 1..Len(line) : line[k] \in Threads
    OBVIOUS
  <2>3. LineInv(line)'
    BY <1>1, <1>2, <1>3, <2>1, <2>2 DEF QueueInv, LineInv, Joins
  <2>4. EnqueueInv(line)'
    BY <1>1, <2>1 DEF QueueInv, EnqueueInv
  <2>5. DequeueInv(line)'
    BY <1>1, <1>2, <1>3, <2>1 DEF QueueInv, DequeueInv, TakenSteps
  <2>6. QueueInv(line)'
    BY <2>3, <2>4, <2>5 DEF QueueInv
  <2> QED
    BY <2>6
<1>8. \E start \in 0..MaxThreads : DemoInv(start)'
  <2>1. PICK start \in 0..MaxThreads : DemoInv(start)
    BY DEF MutexInv
  <2>2. \A u \in Threads :
           /\ tstate'[u] = "UNUSED" <=> tstate[u] = "UNUSED"
           /\ Finished(u)' <=> Finished(u)
           /\ pc'[u] = "storeDone" => pc[u] = "storeDone" /\ temp'[u] = temp[u]
    BY <1>1, <1>2, <1>3 DEF Finished
  <2>3. DemoInv(start)'
    BY <1>1, <2>1, <2>2, DemoKept
  <2> QED
    BY <2>3
<1> QED
  BY <1>2, <1>4, <1>5, <1>6, <1>7, <1>8 DEF MutexInv

\* The new owner wakes up; it is in line no more.
LEMMA WakeStep ==
    ASSUME MutexInv, NEW t \in Threads, Wake(t, "loop"),
           UNCHANGED <<ownVars, demoVars, shellVars>>
    PROVE  MutexInv'
<1>1. /\ cpu = Thread(t) /\ pc[t] = "wake" /\ next \in [Threads -> Threads \cup {NULL}]
      /\ pc \in [Threads -> WorkerSteps] /\ pc' = [pc EXCEPT ![t] = "loop"]
      /\ next' = [next EXCEPT ![t] = NULL]
      /\ UNCHANGED <<wait_head, wait_tail, wait_next, loaded, locked, lock_owner>>
      /\ UNCHANGED <<myglobal, mutex_done, temp, shell, created>>
      /\ "loop" \in WorkerSteps
  BY DEF Wake, Goto, Executes, MutexInv, MutexTypeOK, WaitQueueTypeOK, ownVars, queueVars,
         demoVars, shellVars, WorkerSteps
<1>2. PICK line \in Seq(Threads) : QueueInv(line)
  BY DEF MutexInv
<1> DEFINE v == next[t]
<1>3. /\ v \in Threads /\ tstate[v] = "BLOCKED" /\ ~InRing(line, v)
      /\ locked /\ lock_owner = v /\ v # NULL
  BY <1>1, <1>2 DEF QueueInv, DequeueInv, TakenSteps, MutexInv, OwnershipInv, Gives,
     Threads, NULL
<1>4. IInv' /\ tstate' = [tstate EXCEPT ![v] = "READY"] /\ UNCHANGED cpu
  <2>1. UnblockThread(v)
    BY DEF Wake
  <2> QED
    BY <1>1, <1>3, <2>1, CallEffect DEF MutexInv
<1>5. /\ tstate \in [Threads -> ThreadStates] /\ tstate[t] = "RUNNING" /\ t # v
      /\ pc[v] \in {"blockedYield", "readGlobal"} /\ cpu # Thread(v)
  BY <1>1, <1>3, OneOnCpu DEF MutexInv, IInv, SchedulerTypeOK, StatesFit
<1> HIDE DEF v
<1>6. MutexTypeOK'
  BY <1>1 DEF MutexInv, MutexTypeOK, WaitQueueTypeOK
<1>7. OnlyCpuInWindow' /\ StatesFit'
  BY <1>1, <1>3, <1>4, <1>5 DEF MutexInv, OnlyCpuInWindow, StatesFit, Windows
\* Nobody owned the mutex, and nobody else was about to give it away.
<1>8. /\ \A u \in Threads : ~Owns(u)
      /\ \A u \in Threads : Gives(u) <=> u = t
      /\ \A u \in Threads : pc[u] \notin {"setOwner", "setLocked", "clearOwner"}
  BY <1>1, <1>3, <1>5 DEF MutexInv, OwnershipInv, Owns, Gives, OwnerSteps
<1>9. OwnershipInv'
  <2>1. \A u \in Threads : /\ Owns(u)' <=> u = v
                           /\ ~Gives(u)'
                           /\ pc'[u] \notin {"setOwner", "setLocked", "clearOwner"}
    BY <1>1, <1>3, <1>4, <1>5, <1>8 DEF Owns, Gives, OwnerSteps
  <2> QED
    BY <1>1, <1>3, <2>1 DEF OwnershipInv
<1>10. \E l \in Seq(Threads) : QueueInv(l)'
  <2>1. \A k \in 1..Len(line) : line[k] \in Threads /\ line[k] # v
    BY <1>3 DEF InRing
  <2>2. \A u \in Threads : Joins(u)' <=> Joins(u)
    BY <1>1 DEF Joins
  <2>3. LineInv(line)'
    BY <1>1, <1>2, <1>4, <1>5, <2>1, <2>2 DEF QueueInv, LineInv
  <2>4. EnqueueInv(line)'
    BY <1>1, <1>2 DEF QueueInv, EnqueueInv
  <2>5. \A u \in Threads \ {t} : pc[u] \notin {"loadNext", "setNewHead"} \cup TakenSteps
    BY <1>8 DEF MutexInv, StatesFit, Owns, OwnerSteps, Gives, TakenSteps
  <2>6. DequeueInv(line)'
    BY <1>1, <2>5 DEF DequeueInv, TakenSteps
  <2>7. QueueInv(line)'
    BY <2>3, <2>4, <2>6 DEF QueueInv
  <2> QED
    BY <2>7
<1>11. \E start \in 0..MaxThreads : DemoInv(start)'
  <2>1. PICK start \in 0..MaxThreads : DemoInv(start)
    BY DEF MutexInv
  <2>2. \A u \in Threads :
           /\ tstate'[u] = "UNUSED" <=> tstate[u] = "UNUSED"
           /\ Finished(u)' <=> Finished(u)
           /\ pc'[u] = "storeDone" => pc[u] = "storeDone" /\ temp'[u] = temp[u]
    BY <1>1, <1>3, <1>4, <1>5 DEF Finished
  <2>3. DemoInv(start)'
    BY <1>1, <2>1, <2>2, DemoKept
  <2> QED
    BY <2>3
<1> QED
  BY <1>4, <1>6, <1>7, <1>9, <1>10, <1>11 DEF MutexInv

\* thread_exit.
LEMMA ExitStep ==
    ASSUME MutexInv, NEW t \in Threads, Exit(t)
    PROVE  MutexInv'
<1>1. /\ cpu = Thread(t) /\ pc[t] = "exit"
      /\ pc \in [Threads -> WorkerSteps] /\ pc' = [pc EXCEPT ![t] = "gone"]
      /\ UNCHANGED <<queueVars, next, loaded>>
      /\ UNCHANGED <<locked, lock_owner, myglobal, mutex_done, temp, shell, created>>
      /\ "gone" \in WorkerSteps
  BY DEF Exit, Goto, Executes, MutexInv, MutexTypeOK, mutexVars, ownVars, queueVars, locals,
         demoVars, shellVars, WorkerSteps
<1>2. IInv' /\ tstate' = [tstate EXCEPT ![t] = "TERMINATED"] /\ UNCHANGED cpu
  BY <1>1, CallEffect DEF Exit, MutexInv
<1>3. tstate \in [Threads -> ThreadStates] /\ tstate[t] = "RUNNING"
  BY <1>1 DEF MutexInv, IInv, SchedulerTypeOK, StatesFit
<1>4. MutexTypeOK'
  BY <1>1 DEF MutexInv, MutexTypeOK, WaitQueueTypeOK, queueVars
<1>5. OnlyCpuInWindow' /\ StatesFit'
  BY <1>1, <1>2, <1>3, OneOnCpu DEF MutexInv, OnlyCpuInWindow, StatesFit, Windows
<1>6. OwnershipInv'
  <2>1. \A u \in Threads : (Owns(u)' <=> Owns(u)) /\ (Gives(u)' <=> Gives(u))
    BY <1>1, <1>2, <1>3 DEF Owns, OwnerSteps, Gives
  <2> QED
    BY <1>1, <2>1, OwnershipKept DEF MutexInv, MutexTypeOK
<1>7. \E line \in Seq(Threads) : QueueInv(line)'
  <2>1. PICK line \in Seq(Threads) : QueueInv(line)
    BY DEF MutexInv
  <2>2. \A u \in Threads :
           /\ tstate'[u] = "BLOCKED" <=> tstate[u] = "BLOCKED"
           /\ pc'[u] = pc[u] \/ (pc[u] \notin QueueSteps /\ pc'[u] \notin QueueSteps)
    BY <1>1, <1>2, <1>3 DEF QueueSteps, TakenSteps
  <2>3. QueueInv(line)'
    BY <1>1, <2>1, <2>2, QueueKept
  <2> QED
    BY <2>3
<1>8. \E start \in 0..MaxThreads : DemoInv(start)'
  <2>1. PICK start \in 0..MaxThreads : DemoInv(start)
    BY DEF MutexInv
  <2>2. \A u \in Threads :
           /\ tstate'[u] = "UNUSED" <=> tstate[u] = "UNUSED"
           /\ Finished(u)' <=> Finished(u)
           /\ pc'[u] = "storeDone" => pc[u] = "storeDone" /\ temp'[u] = temp[u]
    BY <1>1, <1>2, <1>3 DEF Finished
  <2>3. DemoInv(start)'
    BY <1>1, <2>1, <2>2, DemoKept
  <2> QED
    BY <2>3
<1> QED
  BY <1>2, <1>4, <1>5, <1>6, <1>7, <1>8 DEF MutexInv

\* mutex_done counts the threads that have finished: none has counted twice,
\* since no interrupt separates load and store.
LEMMA StoreDoneStep ==
    ASSUME MutexInv, NEW t \in Threads, StoreDone(t)
    PROVE  MutexInv'
<1>1. /\ Goto(t, "storeDone", "exit")
      /\ UNCHANGED <<schedVars, queueVars, next, loaded>>
      /\ UNCHANGED <<locked, lock_owner, myglobal, shell, created>>
      /\ mutex_done' = temp[t] + 1 /\ temp' = [temp EXCEPT ![t] = 0]
  BY DEF StoreDone, mutexVars, ownVars, locals, shellVars
<1>2. "exit" \in WorkerSteps
  BY DEF WorkerSteps
<1>3. /\ IInv' /\ OnlyCpuInWindow' /\ StatesFit'
      /\ cpu = Thread(t) /\ pc[t] = "storeDone" /\ tstate[t] = "RUNNING"
      /\ pc' \in [Threads -> WorkerSteps] /\ pc'[t] = "exit"
      /\ \A u \in Threads \ {t} : pc'[u] = pc[u] /\ pc[u] \notin Windows
      /\ UNCHANGED <<tstate, cpu>>
  BY <1>1, <1>2, StepOf
<1>4. MutexTypeOK'
  <2>1. mutex_done' \in Nat /\ temp' \in [Threads -> Nat]
    BY <1>1 DEF MutexInv, MutexTypeOK
  <2> QED
    BY <1>1, <1>3, <2>1 DEF MutexInv, MutexTypeOK, WaitQueueTypeOK, queueVars
<1>5. OwnershipInv' /\ \E line \in Seq(Threads) : QueueInv(line)'
  BY <1>1, <1>3, Neutral DEF OwnerSteps, QueueSteps, TakenSteps
<1>6. \E start \in 0..MaxThreads : DemoInv(start)'
  <2>1. PICK start \in 0..MaxThreads : DemoInv(start)
    BY DEF MutexInv
  <2>2. \A u \in Threads : Finished(u)' <=> Finished(u) \/ u = t
    BY <1>3 DEF Finished
  <2>3. ~(t <= start) /\ temp[t] = mutex_done /\ ~Finished(t)
    BY <1>3, <2>1 DEF DemoInv, ShellFits, Finished
  <2>4. /\ FinishedAfter(start)' = FinishedAfter(start) \cup {t}
        /\ t \notin FinishedAfter(start)
    BY <2>2, <2>3 DEF FinishedAfter, Threads
  <2>5. IsFiniteSet(FinishedAfter(start))
    BY ThreadsAreFinite, FS_Subset DEF FinishedAfter
  <2>6. mutex_done' = Cardinality(FinishedAfter(start)')
    <3>1. t <= start + Made
      BY <1>3, <2>1 DEF DemoInv
    <3>2. shell # "clearDone"
      BY <2>1, <2>3, <3>1 DEF DemoInv, ShellFits, InitSteps, Made
    <3> QED
      BY <1>1, <2>1, <2>3, <2>4, <2>5, <3>2, FS_AddElement DEF DemoInv
  <2>7. \A u \in Threads : pc'[u] # "storeDone"
    BY <1>3 DEF Windows
  <2>8. Made' = Made
    BY <1>1 DEF Made
  <2>9. DemoInv(start)'
    BY <1>1, <1>3, <2>1, <2>2, <2>6, <2>7, <2>8 DEF DemoInv, ShellFits
  <2> QED
    BY <2>9
<1> QED
  BY <1>3, <1>4, <1>5, <1>6 DEF MutexInv

-----------------------------------------------------------------------------
(* The boot code and the shell.                                            *)

\* A step of neither a worker nor the mutex.
LEMMA MutexKept ==
    ASSUME MutexInv, IInv', UNCHANGED <<mutexVars, workerVars, demoVars, cpu>>,
           \A u \in Threads :
              \/ tstate'[u] = tstate[u]
              \/ tstate[u] = "UNUSED" /\ tstate'[u] = "READY" /\ cpu # Thread(u),
           \E start \in 0..MaxThreads : DemoInv(start)'
    PROVE  MutexInv'
<1> USE DEF mutexVars, ownVars, queueVars, workerVars, locals, demoVars
<1>1. MutexTypeOK' /\ OnlyCpuInWindow'
  BY DEF MutexInv, MutexTypeOK, WaitQueueTypeOK, OnlyCpuInWindow
<1>2. StatesFit'
  BY DEF MutexInv, StatesFit
<1>3. OwnershipInv'
  <2>1. \A u \in Threads : (Owns(u)' <=> Owns(u)) /\ (Gives(u)' <=> Gives(u))
    BY DEF Owns, Gives
  <2> QED
    BY <2>1, OwnershipKept DEF MutexInv, MutexTypeOK
<1>4. \E line \in Seq(Threads) : QueueInv(line)'
  <2>1. PICK line \in Seq(Threads) : QueueInv(line)
    BY DEF MutexInv
  <2>2. \A u \in Threads : tstate'[u] = "BLOCKED" <=> tstate[u] = "BLOCKED"
    OBVIOUS
  <2>3. QueueInv(line)'
    BY <2>1, <2>2, QueueKept
  <2> QED
    BY <2>3
<1> QED
  BY <1>1, <1>2, <1>3, <1>4 DEF MutexInv

LEMMA BootKeeps ==
    ASSUME MutexInv, BootStep
    PROVE  MutexInv'
<1>1. IInv'
  BY ProcCreateStep, SchedulerStartStep DEF BootStep, MutexInv
<1>2. /\ UNCHANGED <<mutexVars, workerVars, demoVars, cpu>> /\ tstate' = tstate
      /\ UNCHANGED <<shell, created, mutex_done, pc, temp>>
  BY DEF BootStep, SchedulerStart, ProcCreate, threadVars, dispatchVars, shellVars,
         workerVars, demoVars
<1>3. \E start \in 0..MaxThreads : DemoInv(start)'
  <2>1. PICK start \in 0..MaxThreads : DemoInv(start)
    BY DEF MutexInv
  <2>2. DemoInv(start)'
    BY <1>2, <2>1, DemoKept DEF Finished
  <2> QED
    BY <2>2
<1> QED
  BY <1>1, <1>2, <1>3, MutexKept

\* While the shell executes, no thread is in a window.
LEMMA ShellOnCpu ==
    ASSUME MutexInv, ShellRuns
    PROVE  \A u \in Threads : cpu # Thread(u) /\ pc[u] \notin Windows
BY ContextsDiffer DEF ShellRuns, ProcessRuns, MutexInv, OnlyCpuInWindow

\* thread_create gives the demo the first free slot.
LEMMA CreateWorkerStep ==
    ASSUME MutexInv, CreateWorker
    PROVE  MutexInv'
<1>1. PICK t \in Threads : AllocThread(t)
  BY DEF CreateWorker
<1>2. /\ IInv' /\ ShellRuns /\ tstate[t] = "UNUSED"
      /\ \A u \in 1..(t - 1) : tstate[u] # "UNUSED"
      /\ tstate' = [tstate EXCEPT ![t] = "READY"] /\ cpu' = cpu
      /\ tstate \in [Threads -> ThreadStates]
  <2>1. IInv'
    BY <1>1, AllocThreadStep DEF MutexInv
  <2>2. tstate \in [Threads -> ThreadStates]
    BY DEF MutexInv, IInv, SchedulerTypeOK
  <2> QED
    BY <1>1, <2>1, <2>2 DEF AllocThread, Unused, dispatchVars
<1>3. /\ UNCHANGED <<mutexVars, workerVars, demoVars, cpu>>
      /\ UNCHANGED <<created, mutex_done, pc, temp>>
      /\ shell = "create" /\ shell' = "link"
  BY <1>2 DEF CreateWorker, ShellGoto, workerVars, demoVars
<1>4. \E start \in 0..MaxThreads : DemoInv(start)'
  <2>1. PICK start \in 0..MaxThreads : DemoInv(start)
    BY DEF MutexInv
  <2>2. Made = created /\ Made' = created + 1 /\ created \in Nat /\ created < Workers
    BY <1>3, <2>1 DEF Made, DemoInv, ShellFits
  <2>3. t = start + created + 1
    <3>1. t \in Nat /\ start \in Nat /\ start + created <= MaxThreads /\ MaxThreads \in Nat
      BY <2>1, <2>2, SchedulerAssumption DEF Threads, DemoInv
    <3>2. ~(t <= start + created)
      BY <1>2, <2>1, <2>2 DEF DemoInv, ShellFits
    <3>3. t # 1 => t - 1 <= start + created
      <4>1. t \in Int /\ 1 <= t /\ t <= MaxThreads /\ MaxThreads \in Int
        BY SchedulerAssumption DEF Threads
      <4>2. t # 1 => t - 1 \in 1..(t - 1) /\ t - 1 \in Threads
        BY <4>1 DEF Threads
      <4> QED
        BY <1>2, <2>1, <2>2, <4>2 DEF DemoInv, ShellFits
    <3> QED
      BY <2>2, <3>1, <3>2, <3>3
  <2>4. \A u \in Threads : tstate'[u] # "UNUSED" <=> u <= start + (created + 1)
    BY <1>2, <2>1, <2>2, <2>3 DEF DemoInv, ShellFits, Threads
  <2>5. FinishedAfter(start)' = FinishedAfter(start)
    BY <1>3 DEF FinishedAfter, Finished
  <2>6. \A u \in Threads : u <= start => Finished(u)'
    BY <1>3, <2>1 DEF DemoInv, ShellFits, Finished
  <2>7. start + (created + 1) <= MaxThreads
    BY <2>2, <2>3, SchedulerAssumption DEF Threads
  <2>8. DemoInv(start)'
    BY <1>3, <2>1, <2>2, <2>4, <2>5, <2>6, <2>7
    DEF DemoInv, ShellFits, ShellSteps, InitSteps
  <2> QED
    BY <2>8
<1> QED
  BY <1>2, <1>3, <1>4, MutexKept, ShellOnCpu

\* The rest of thread_create, and the tests of the shell's loop.
LEMMA ShellMovesOn ==
    ASSUME MutexInv, LinkWorker \/ CloseWorker \/ CreateFails \/ Wait \/ Report
    PROVE  MutexInv'
<1>1. /\ UNCHANGED <<mutexVars, workerVars, demoVars>>
      /\ UNCHANGED <<mutex_done, pc, temp>>
  BY DEF LinkWorker, CloseWorker, CreateFails, Wait, Report, workerVars, demoVars
<1>2. IInv' /\ tstate' = tstate /\ UNCHANGED cpu
  BY LinkStep, SchedulerKept
  DEF LinkWorker, CloseWorker, CreateFails, Wait, Report, LinkThread, CloseRing, MutexInv,
      schedVars, threadVars, dispatchVars
<1>3. PICK start \in 0..MaxThreads : DemoInv(start)
  BY DEF MutexInv
<1>4. Workers \in 1..MaxThreads /\ MaxThreads \in Nat /\ created \in 0..Workers
  BY <1>3, MutexDemoAssumption, SchedulerAssumption DEF DemoInv, ShellFits
\* It moves on to a place that the demo's invariant allows.
<1>5. /\ created' \in 0..Workers /\ Made' = Made
      /\ shell' \in ShellSteps \ InitSteps
      /\ shell' \in {"create", "link", "close"} => created' < Workers
      /\ shell' \in {"wait", "waitYield", "report"} => created' = Workers
      /\ shell' = "report" => \A t \in Threads : t <= start + created' => Finished(t)
      /\ shell # "clearDone"
  <2>1. CASE LinkWorker
    BY <1>3, <2>1 DEF LinkWorker, ShellGoto, DemoInv, ShellFits, Made, ShellSteps, InitSteps
  <2>2. CASE CloseWorker
    BY <1>3, <1>4, <2>2 DEF CloseWorker, ShellGoto, DemoInv, ShellFits, Made, ShellSteps, InitSteps
  <2>3. CASE CreateFails
    BY <1>3, <1>4, <2>3 DEF CreateFails, ShellGoto, DemoInv, ShellFits, Made, ShellSteps, InitSteps
  <2>4. CASE Wait
    <3>1. /\ shell = "wait" /\ created' = created /\ created = Workers
          /\ shell' = IF SomeAreWorking THEN "waitYield" ELSE "report"
      BY <1>3, <2>4 DEF Wait, ShellGoto, DemoInv, ShellFits
    <3>2. ASSUME ~SomeAreWorking
          PROVE  \A t \in Threads : t <= start + Workers => Finished(t)
      <4> DEFINE Ours == (start + 1)..(start + Workers)
      <4>1. FinishedAfter(start) \subseteq Ours
        <5> SUFFICES ASSUME NEW t \in FinishedAfter(start) PROVE t \in Ours
          OBVIOUS
        <5>1. t \in Threads /\ t > start /\ tstate[t] # "UNUSED"
          BY DEF FinishedAfter, Finished, MutexInv, StatesFit
        <5>2. Made = Workers
          BY <3>1 DEF Made
        <5> QED
          BY <1>3, <1>4, <5>1, <5>2 DEF DemoInv, ShellFits, Threads
      <4>2. IsFiniteSet(Ours) /\ Cardinality(Ours) = Workers
        <5>1. \A a, b \in Int : /\ IsFiniteSet(a..b)
                                /\ Cardinality(a..b) = IF a > b THEN 0 ELSE b - a + 1
          BY FS_Interval
        <5>2. start + 1 \in Int /\ start + Workers \in Int
          BY <1>4
        <5> HIDE DEF Ours
        <5>3. IsFiniteSet(Ours)
              /\ Cardinality(Ours) = IF start + 1 > start + Workers THEN 0
                                     ELSE (start + Workers) - (start + 1) + 1
          BY <5>1, <5>2 DEF Ours
        <5> QED
          BY <1>4, <5>3
      <4>3. Cardinality(FinishedAfter(start)) >= Workers
        <5>1. mutex_done = Cardinality(FinishedAfter(start)) /\ mutex_done \in Nat
          BY <1>3, <3>1 DEF DemoInv, MutexInv, MutexTypeOK
        <5> QED
          BY <1>4, <3>2, <5>1 DEF SomeAreWorking
      <4> HIDE DEF Ours
      <4>4. FinishedAfter(start) = Ours
        BY <1>4, <4>1, <4>2, <4>3, FS_Subset, FS_CardinalityType
      <4>5. ASSUME NEW t \in Threads, t <= start + Workers PROVE Finished(t)
        <5>1. CASE t <= start
          BY <1>3, <5>1 DEF DemoInv, ShellFits
        <5>2. CASE ~(t <= start)
          <6>1. t \in Ours
            BY <1>4, <4>5, <5>2 DEF Ours, Threads
          <6> QED
            BY <4>4, <6>1 DEF FinishedAfter
        <5> QED
          BY <5>1, <5>2
      <4> QED
        BY <4>5
    <3> QED
      BY <1>4, <3>1, <3>2 DEF Made, ShellSteps, InitSteps
  <2>5. CASE Report
    BY <1>3, <1>4, <2>5 DEF Report, ShellGoto, DemoInv, ShellFits, Made, ShellSteps, InitSteps
  <2> QED
    BY <2>1, <2>2, <2>3, <2>4, <2>5
<1>6. FinishedAfter(start)' = FinishedAfter(start) /\ \A t \in Threads : Finished(t)' <=> Finished(t)
  BY <1>1 DEF FinishedAfter, Finished
<1>7. DemoInv(start)'
  BY <1>1, <1>2, <1>3, <1>5, <1>6 DEF DemoInv, ShellFits
<1> QED
  BY <1>1, <1>2, <1>3, <1>7, MutexKept

\* While the shell initialises the mutex, or starts to when no thread of an
\* earlier call is at work, the waiting line and the mutex are nobody's.
LEMMA AllIdle ==
    ASSUME MutexInv, shell \in InitSteps \/ \A t \in Threads : ~AtWork(t)
    PROVE  /\ \A t \in Threads : /\ pc[t] \in {"loop", "exit", "gone"}
                                 /\ tstate[t] # "BLOCKED"
                                 /\ tstate[t] # "UNUSED" => Finished(t)
           /\ lock_owner = NULL
           /\ QueueInv(<< >>)
<1>1. \A t \in Threads : tstate[t] # "UNUSED" => Finished(t)
  <2>1. CASE shell \in InitSteps
    <3>1. PICK start \in 0..MaxThreads : DemoInv(start)
      BY DEF MutexInv
    <3>2. Made = 0 /\ start + 0 = start
      BY <2>1, <3>1 DEF DemoInv, ShellFits, InitSteps, Made
    <3> QED
      BY <3>1, <3>2 DEF DemoInv
  <2> QED
    BY <2>1 DEF AtWork, Finished
<1>2. \A t \in Threads : pc[t] \in {"loop", "exit", "gone"} /\ tstate[t] # "BLOCKED"
  BY <1>1 DEF Finished, MutexInv, StatesFit
<1>3. lock_owner = NULL
  BY <1>2 DEF MutexInv, MutexTypeOK, OwnershipInv, Owns, OwnerSteps, Gives
<1>4. PICK line \in Seq(Threads) : QueueInv(line)
  BY DEF MutexInv
<1>5. line = << >>
  <2>1. \A k \in 1..Len(line) : line[k] \in Threads
    OBVIOUS
  <2>2. \A k \in 1..Len(line) : FALSE
    BY <1>2, <1>4, <2>1 DEF QueueInv, LineInv, Joins
  <2> QED
    BY <2>2
<1> QED
  BY <1>1, <1>2, <1>3, <1>4, <1>5

\* The stores at the start of a call.
StartStep == StartDemo \/ ClearDone \/ InitTheMutex
LEMMA StartStepEffect ==
    ASSUME MutexInv, StartStep, ~struck'
    PROVE  /\ \A t \in Threads : /\ pc[t] \in {"loop", "exit", "gone"}
                                 /\ tstate[t] # "BLOCKED"
                                 /\ tstate[t] # "UNUSED" => Finished(t)
           /\ UNCHANGED <<wait_next, pc, next, loaded, temp, i, tstate, cpu, schedVars>>
           /\ lock_owner = NULL /\ lock_owner' = NULL
           /\ locked' \in {locked, FALSE}
           /\ wait_head' = wait_head /\ wait_head[TheMutex] = NULL
           /\ wait_tail' \in {wait_tail, [wait_tail EXCEPT ![TheMutex] = NULL]}
           /\ QueueInv(<< >>) /\ QueueInv(<< >>)'
<1>1. shell \in InitSteps \/ \A t \in Threads : ~AtWork(t)
  BY DEF StartStep, StartDemo, ClearDone, InitTheMutex, ShellGoto, InitSteps
<1>2. /\ \A t \in Threads : /\ pc[t] \in {"loop", "exit", "gone"}
                            /\ tstate[t] # "BLOCKED"
                            /\ tstate[t] # "UNUSED" => Finished(t)
      /\ lock_owner = NULL /\ QueueInv(<< >>)
  BY <1>1, AllIdle
<1>3. /\ UNCHANGED schedVars
      /\ UNCHANGED <<wait_next, pc, next, loaded, temp, i>>
      /\ lock_owner' \in {lock_owner, NULL} /\ locked' \in {locked, FALSE}
      /\ wait_head' \in {wait_head, [wait_head EXCEPT ![TheMutex] = NULL]}
      /\ wait_tail' \in {wait_tail, [wait_tail EXCEPT ![TheMutex] = NULL]}
  BY DEF StartStep, StartDemo, ClearDone, InitTheMutex, workerVars, locals, mutexVars,
         ownVars, queueVars, InitLocked, InitOwner, InitHead, InitTail
<1>4. UNCHANGED <<tstate, cpu>>
  BY <1>3 DEF schedVars, threadVars, dispatchVars
<1>5. wait_head[TheMutex] = NULL /\ wait_head \in [{TheMutex} -> Threads \cup {NULL}]
  BY <1>2 DEF QueueInv, LineInv, MutexInv, MutexTypeOK, WaitQueueTypeOK
<1>6. wait_head' = wait_head
  BY <1>3, <1>5
<1>7. QueueInv(<< >>)'
  <2>1. LineInv(<< >>)'
    <3>1. \A t \in Threads : ~Joins(t)'
      BY <1>2, <1>3 DEF Joins
    <3> QED
      BY <1>5, <1>6, <3>1 DEF LineInv, NoRepeats
  <2>2. EnqueueInv(<< >>)'
    BY <1>2, <1>3 DEF EnqueueInv
  <2>3. DequeueInv(<< >>)'
    BY <1>2, <1>3 DEF DequeueInv, TakenSteps
  <2> QED
    BY <2>1, <2>2, <2>3 DEF QueueInv
<1> QED
  BY <1>2, <1>3, <1>4, <1>5, <1>6, <1>7

\* StartDemo leaves the threads of the calls before behind.
LEMMA StartDemoBooks ==
    ASSUME MutexInv, StartDemo, ~struck', NEW start \in 0..MaxThreads, DemoInv(start),
           NEW after, after = start + created
    PROVE  after \in 0..MaxThreads /\ DemoInv(after)'
<1>1. /\ shell = "prompt" /\ shell' = "clearDone" /\ created' = 0
      /\ Made = created
  BY DEF StartDemo, ShellGoto, Made
<1>2. /\ \A t \in Threads : /\ pc[t] \in {"loop", "exit", "gone"}
                            /\ tstate[t] # "UNUSED" => Finished(t)
      /\ UNCHANGED <<pc, tstate, temp>>
  BY StartStepEffect DEF StartStep
<1>3. /\ Workers \in Nat /\ MaxThreads \in Nat /\ created \in Nat
      /\ start + created <= MaxThreads
  BY <1>1, MutexDemoAssumption, SchedulerAssumption DEF DemoInv, ShellFits
<1>4. after \in 0..MaxThreads
  BY <1>3
<1>5. Made' = 0 /\ after + 0 = after
  BY <1>1, <1>4 DEF Made
<1>6. \A t \in Threads : tstate[t] # "UNUSED" <=> t <= after
  BY <1>1 DEF DemoInv
<1>7. \A t \in Threads : t <= after => Finished(t)'
  BY <1>2, <1>6 DEF Finished
<1>8. \A t \in Threads : pc'[t] # "storeDone"
  BY <1>2
<1>9. ShellFits(after)'
  BY <1>1, <1>3 DEF ShellFits, ShellSteps, InitSteps
<1> QED
  BY <1>1, <1>2, <1>4, <1>5, <1>6, <1>7, <1>8, <1>9 DEF DemoInv

LEMMA InitBooks ==
    ASSUME MutexInv, ClearDone \/ InitTheMutex, ~struck', NEW start \in 0..MaxThreads,
           DemoInv(start)
    PROVE  DemoInv(start)'
<1>1. /\ \A t \in Threads : /\ pc[t] \in {"loop", "exit", "gone"}
                            /\ tstate[t] # "UNUSED" => Finished(t)
      /\ UNCHANGED <<pc, tstate, temp>>
  BY StartStepEffect DEF StartStep
<1>2. /\ shell \in InitSteps /\ shell' \in (InitSteps \ {"clearDone"}) \cup {"create"}
      /\ created' = created /\ Made' = Made
      /\ ClearDone => mutex_done' = 0
      /\ ~ClearDone => mutex_done' = mutex_done /\ shell # "clearDone"
  BY DEF ClearDone, InitTheMutex, ShellGoto, InitSteps, Made, demoVars
<1>3. created = 0 /\ Made = 0 /\ start + 0 = start /\ Workers \in Nat \ {0}
  BY <1>2, MutexDemoAssumption DEF DemoInv, ShellFits, InitSteps, Made
<1>4. FinishedAfter(start)' = FinishedAfter(start)
  BY <1>1 DEF FinishedAfter, Finished
<1>5. FinishedAfter(start) = {}
  <2>1. \A t \in Threads : tstate[t] # "UNUSED" <=> t <= start
    BY <1>3 DEF DemoInv
  <2>2. \A t \in Threads : tstate[t] = "UNUSED" => pc[t] = "loop"
    BY DEF MutexInv, StatesFit
  <2>3. \A t \in Threads : t > start => ~(t <= start)
    BY DEF Threads
  <2> QED
    BY <2>1, <2>2, <2>3 DEF FinishedAfter, Finished
<1>6. mutex_done' = Cardinality(FinishedAfter(start)')
  BY <1>2, <1>4, <1>5, FS_EmptySet DEF DemoInv
<1>7. ShellFits(start)'
  BY <1>2, <1>3 DEF DemoInv, ShellFits, ShellSteps, InitSteps
<1>8. \A t \in Threads : pc'[t] # "storeDone" /\ (Finished(t)' <=> Finished(t))
  BY <1>1 DEF Finished
<1> QED
  BY <1>1, <1>2, <1>6, <1>7, <1>8 DEF DemoInv

\* A new call of mutexdemo re-initialises a mutex that nobody uses.
LEMMA StartKeepsMutexInv ==
    ASSUME MutexInv, StartStep, ~struck'
    PROVE  MutexInv'
<1>1. /\ \A t \in Threads : pc[t] \in {"loop", "exit", "gone"} /\ tstate[t] # "BLOCKED"
      /\ UNCHANGED schedVars
      /\ UNCHANGED <<wait_next, pc, next, loaded, temp, tstate, cpu>>
      /\ lock_owner' = NULL
      /\ locked' \in {locked, FALSE}
      /\ wait_head' = wait_head
      /\ wait_tail' \in {wait_tail, [wait_tail EXCEPT ![TheMutex] = NULL]}
      /\ QueueInv(<< >>)'
  BY StartStepEffect
<1>2. IInv'
  BY <1>1, SchedulerKept DEF MutexInv
<1>3. myglobal' \in Nat /\ mutex_done' \in Nat
  BY DEF StartStep, StartDemo, ClearDone, InitTheMutex, demoVars, MutexInv, MutexTypeOK
<1>4. MutexTypeOK'
  BY <1>1, <1>3 DEF MutexInv, MutexTypeOK, WaitQueueTypeOK
<1>5. OnlyCpuInWindow' /\ StatesFit'
  BY <1>1 DEF MutexInv, OnlyCpuInWindow, StatesFit
<1>6. OwnershipInv'
  BY <1>1 DEF OwnershipInv, Owns, OwnerSteps, Gives
<1>7. << >> \in Seq(Threads)
  OBVIOUS
<1>8. \E start \in 0..MaxThreads : DemoInv(start)'
  <2>1. PICK start \in 0..MaxThreads : DemoInv(start)
    BY DEF MutexInv
  <2>2. CASE StartDemo
    <3>1. PICK after : after = start + created
      OBVIOUS
    <3> QED
      BY <2>1, <2>2, <3>1, StartDemoBooks
  <2>3. CASE ClearDone \/ InitTheMutex
    BY <2>1, <2>3, InitBooks
  <2> QED
    BY <2>2, <2>3 DEF StartStep
<1> QED
  BY <1>1, <1>2, <1>4, <1>5, <1>6, <1>7, <1>8 DEF MutexInv

\* scheduler_yield in the loop in which the shell waits.
LEMMA WaitYieldStep ==
    ASSUME MutexInv, WaitYield
    PROVE  MutexInv'
<1>1. /\ SchedulerYield /\ shell = "waitYield" /\ shell' = "wait" /\ pc' = pc
      /\ UNCHANGED <<mutexVars, locals, demoVars, created>>
  BY DEF WaitYield, ShellGoto, workerVars
<1>2. \A u \in Threads : pc[u] \notin Windows
  BY ShellOnCpu DEF WaitYield, ShellGoto
<1>3. pc' \in [Threads -> WorkerSteps]
  BY <1>1 DEF MutexInv, MutexTypeOK
<1> QED
  BY <1>1, <1>2, <1>3, IrqKeepsMutex

-----------------------------------------------------------------------------
(* The invariant holds at boot and is kept by every step.                  *)

LEMMA InitMutexInv ==
    ASSUME Init
    PROVE  MutexInv
<1>1. IInv
  BY InitIInv DEF Init
<1>2. /\ Workers \in 1..MaxThreads /\ MaxThreads \in Nat
  BY MutexDemoAssumption, SchedulerAssumption
<1>3. /\ tstate = [t \in Threads |-> "UNUSED"]
      /\ \A t \in Threads : cpu # Thread(t)
      /\ pc = [t \in Threads |-> "loop"]
  BY ContextsDiffer DEF Init, SchedulerInit
<1>4. /\ locked = FALSE /\ lock_owner = NULL
      /\ wait_head = [q \in {TheMutex} |-> NULL]
      /\ wait_tail = [q \in {TheMutex} |-> NULL]
      /\ wait_next = [t \in Threads |-> NULL]
      /\ next = [t \in Threads |-> NULL]
      /\ loaded = [t \in Threads |-> NULL]
      /\ myglobal = 0 /\ mutex_done = 0 /\ temp = [t \in Threads |-> 0]
      /\ shell = "prompt" /\ created = 0
  BY DEF Init, MutexInit, WaitQueueInit
<1>5. MutexTypeOK
  BY <1>3, <1>4 DEF MutexTypeOK, WaitQueueTypeOK, WorkerSteps
<1>6. OnlyCpuInWindow /\ StatesFit
  BY <1>3 DEF OnlyCpuInWindow, StatesFit, Windows
<1>7. OwnershipInv
  BY <1>3, <1>4 DEF OwnershipInv, Owns, OwnerSteps, Gives
<1>8. QueueInv(<< >>)
  <2>1. LineInv(<< >>)
    BY <1>3, <1>4 DEF LineInv, NoRepeats, Joins
  <2>2. EnqueueInv(<< >>) /\ DequeueInv(<< >>)
    BY <1>3 DEF EnqueueInv, DequeueInv, TakenSteps
  <2> QED
    BY <2>1, <2>2 DEF QueueInv
<1>9. DemoInv(0)
  <2>2. FinishedAfter(0) = {}
    BY <1>3 DEF FinishedAfter, Finished
  <2>3. mutex_done = Cardinality(FinishedAfter(0))
    BY <1>4, <2>2, FS_EmptySet
  <2>4. Made = 0 /\ 0 \in 0..Workers
    BY <1>2, <1>4 DEF Made
  <2>5. \A t \in Threads : ~(t <= 0)
    BY DEF Threads
  <2> QED
    BY <1>2, <1>3, <1>4, <2>3, <2>4, <2>5 DEF DemoInv, ShellFits, ShellSteps, InitSteps
<1>10. 0 \in 0..MaxThreads /\ << >> \in Seq(Threads)
  BY <1>2
<1> QED
  BY <1>1, <1>5, <1>6, <1>7, <1>8, <1>9, <1>10 DEF MutexInv

LEMMA WorkerKeepsMutexInv ==
    ASSUME MutexInv, NEW t \in Threads, Worker(t) \/ GoneYield(t)
    PROVE  MutexInv'
<1>0. PICK line \in Seq(Threads) : QueueInv(line)
  BY DEF MutexInv
<1>1. CASE Loop(t) \/ ReadGlobal(t) \/ WriteGlobal(t) \/ LoadDone(t)
  BY <1>1, BodyStep
<1>2. CASE CriticalYield(t) \/ GoneYield(t)
  BY <1>2, YieldStep
<1>3. CASE StoreDone(t)
  BY <1>3, StoreDoneStep
<1>4. CASE Exit(t)
  BY <1>4, ExitStep
<1>5. CASE Lock(t)
  <2>1. UNCHANGED <<demoVars, shellVars>> /\ MutexLock(t, "readGlobal")
    BY <1>5 DEF Lock
  <2>2. CASE TestLocked(t) \/ TestOwner(t, "readGlobal")
    BY <2>1, <2>2, TestStep
  <2>3. CASE SetLocked(t) \/ SetOwner(t, "readGlobal")
    BY <2>1, <2>3, OwnStep
  <2>4. CASE Enqueue(t, TheMutex, "readGlobal") /\ UNCHANGED ownVars
    <3>1. UNCHANGED <<ownVars, demoVars, shellVars>>
      BY <2>1, <2>4
    <3>2. CASE Block(t)
      BY <3>1, <3>2, BlockStep
    <3>3. CASE BlockedYield(t, "readGlobal")
      BY <3>1, <3>3, YieldStep
    <3> QED
      BY <1>0, <2>4, <3>1, <3>2, <3>3, EnqueueStep DEF Enqueue
  <2> QED
    BY <2>1, <2>2, <2>3, <2>4 DEF MutexLock
<1>6. CASE Unlock(t)
  <2>1. UNCHANGED <<demoVars, shellVars>> /\ MutexUnlock(t, "loop")
    BY <1>6 DEF Unlock
  <2>2. CASE CheckLocked(t, "loop") \/ CheckOwner(t, "loop")
    BY <2>1, <2>2, TestStep
  <2>3. CASE ClearLocked(t) \/ ClearOwner(t, "loop")
    BY <2>1, <2>3, OwnStep
  <2>4. CASE GiveOwner(t) \/ KeepLocked(t)
    BY <1>0, <2>1, <2>4, DequeueStep
  <2>5. CASE Dequeue(t, TheMutex, "clearLocked", "giveOwner", "loop") /\ UNCHANGED ownVars
    <3>1. UNCHANGED <<ownVars, demoVars, shellVars>>
      BY <2>1, <2>5
    <3>2. CASE Wake(t, "loop")
      BY <3>1, <3>2, WakeStep
    <3> QED
      BY <1>0, <2>5, <3>1, <3>2, DequeueStep DEF Dequeue
  <2> QED
    BY <2>1, <2>2, <2>3, <2>4, <2>5 DEF MutexUnlock
<1> QED
  BY <1>1, <1>2, <1>3, <1>4, <1>5, <1>6 DEF Worker

LEMMA NextMutexInv ==
    ASSUME MutexInv, [Next]_vars, ~struck'
    PROVE  MutexInv'
<1>1. CASE BootStep
  BY <1>1, BootKeeps
<1>2. CASE Tick
  BY <1>2, TickStep
<1>3. CASE Shell
  BY <1>3, StartKeepsMutexInv, CreateWorkerStep, ShellMovesOn, WaitYieldStep
  DEF Shell, StartStep
<1>4. CASE \E t \in Threads : Worker(t) \/ GoneYield(t)
  BY <1>4, WorkerKeepsMutexInv
<1>5. CASE UNCHANGED vars
  <2>1. /\ UNCHANGED <<mutexVars, workerVars, demoVars, cpu>> /\ UNCHANGED schedVars
        /\ UNCHANGED <<tstate, shell, created, mutex_done, pc, temp>>
    BY <1>5 DEF vars, schedVars, threadVars, dispatchVars, workerVars, demoVars, shellVars
  <2>2. IInv'
    BY <2>1, SchedulerKept DEF MutexInv
  <2>3. PICK start \in 0..MaxThreads : DemoInv(start)
    BY DEF MutexInv
  <2>4. DemoInv(start)'
    BY <2>1, <2>3, DemoKept DEF Finished
  <2> QED
    BY <2>1, <2>2, <2>4, MutexKept
<1> QED
  BY <1>1, <1>2, <1>3, <1>4, <1>5 DEF Next

-----------------------------------------------------------------------------
(* The theorems.                                                           *)

\* What has been hit stays hit.
LEMMA StruckStays ==
    ASSUME struck, [Next]_vars
    PROVE  struck'
<1> USE DEF shellVars
<1>1. CASE BootStep
  BY <1>1 DEF BootStep
<1>2. CASE Tick
  BY <1>2 DEF Tick
<1>3. CASE Shell
  BY <1>3 DEF Shell, StartDemo, ClearDone, InitTheMutex, CreateWorker, LinkWorker,
              CloseWorker, CreateFails, Wait, WaitYield, Report
<1>4. CASE \E t \in Threads : Worker(t) \/ GoneYield(t)
  BY <1>4 DEF Worker, GoneYield, Loop, Lock, ReadGlobal, CriticalYield, WriteGlobal,
              Unlock, LoadDone, StoreDone, Exit
<1>5. CASE UNCHANGED vars
  BY <1>5 DEF vars
<1> QED
  BY <1>1, <1>2, <1>3, <1>4, <1>5 DEF Next

\* The invariant holds in every state of the demo before a window is hit.
LEMMA MutexInvariant == Spec => [](struck \/ MutexInv)
<1>1. Init => struck \/ MutexInv
  BY InitMutexInv
<1>2. (struck \/ MutexInv) /\ [Next]_vars => (struck \/ MutexInv)'
  BY NextMutexInv, StruckStays
<1> QED
  BY <1>1, <1>2, PTL DEF Spec

\* Until a window is hit, whoever is between the return of mutex_lock and the
\* end of its mutex_unlock is the owner that mutex_unlock checks: it never turns
\* the holder away.
THEOREM InsideIsOwner == Spec => []InsideOwns
<1>1. struck \/ MutexInv => InsideOwns
  BY DEF Inside, Owns, OwnerSteps, InsideOwns, MutexInv, OwnershipInv
<1> QED
  BY <1>1, MutexInvariant, PTL

\* Until a window is hit, mutex_lock lets one thread at a time into the critical
\* section of mutex_thread, and mutex_unlock hands over without letting a third
\* one in between.
THEOREM MutexExcludes == Spec => []ExcludesUntilStruck
<1>1. InsideOwns => ExcludesUntilStruck
  BY DEF InsideOwns, ExcludesUntilStruck, MutualExclusion
<1> QED
  BY <1>1, InsideIsOwner, PTL

\* Until a window is hit, the thread a held mutex belongs to is not asleep, but
\* for the moment in which mutex_unlock has made it the owner and not yet called
\* thread_unblock.
THEOREM MutexOwnerAwake == Spec => []OwnerIsAwake
<1>1. struck \/ MutexInv => OwnerIsAwake
  BY DEF MutexInv, OwnershipInv, OwnerIsAwake, Owns, Gives
<1> QED
  BY <1>1, MutexInvariant, PTL

-----------------------------------------------------------------------------
(* The waiting line as Line(TheMutex) reads it, and what a step makes of it. *)

LEMMA LineOfState ==
    ASSUME MutexTypeOK, NEW line \in Seq(Threads), LineInv(line)
    PROVE  Line(TheMutex) = line
<1>1. wait_next \in [Threads -> Slots]
  BY DEF MutexTypeOK, WaitQueueTypeOK, Slots
<1>2. wait_head[TheMutex] = FirstOf(line) /\ NoRepeats(line) /\ IsChain(wait_next, line)
  BY DEF LineInv, FirstOf, IsChain
<1> QED
  BY <1>1, <1>2, LineIsChain

LEMMA LineOfNextState ==
    ASSUME MutexTypeOK', NEW line \in Seq(Threads), LineInv(line)'
    PROVE  Line(TheMutex)' = line
<1>1. wait_next' \in [Threads -> Slots]
  BY DEF MutexTypeOK, WaitQueueTypeOK, Slots
<1>2. wait_head'[TheMutex] = FirstOf(line) /\ NoRepeats(line) /\ IsChain(wait_next', line)
  BY DEF LineInv, FirstOf, IsChain
<1> QED
  BY <1>1, <1>2, LineIsChain

LEMMA LineStays ==
    ASSUME UNCHANGED <<wait_head, wait_next>>
    PROVE  Line(TheMutex)' = Line(TheMutex)
BY LineFromIsWalk DEF Line

LEMMA LineFacts ==
    ASSUME MutexInv
    PROVE  Line(TheMutex) \in Seq(Threads) /\ QueueInv(Line(TheMutex))
<1>1. PICK line \in Seq(Threads) : QueueInv(line)
  BY DEF MutexInv
<1>2. Line(TheMutex) = line
  BY <1>1, LineOfState DEF MutexInv, QueueInv
<1> QED
  BY <1>1, <1>2

\* A thread joins the line, the first one is taken out of it, or it stays.
Joining(t) ==
    /\ SetHead(t, TheMutex) \/ LinkTail(t)
    /\ Line(TheMutex)' = Append(Line(TheMutex), t)
Taking(t) ==
    /\ SetNewHead(t, TheMutex)
    /\ Line(TheMutex) # << >>
    /\ next[t] = Line(TheMutex)[1]
    /\ Line(TheMutex)' = Tail(Line(TheMutex))

BodyOf(t) == \/ Loop(t) \/ ReadGlobal(t) \/ CriticalYield(t) \/ WriteGlobal(t)
             \/ LoadDone(t) \/ StoreDone(t) \/ Exit(t) \/ GoneYield(t)
OwningOf(t) ==
    \/ TestLocked(t) \/ SetLocked(t) \/ SetOwner(t, "readGlobal")
    \/ TestOwner(t, "readGlobal")
    \/ CheckLocked(t, "loop") \/ CheckOwner(t, "loop")
    \/ ClearLocked(t) \/ ClearOwner(t, "loop")
    \/ GiveOwner(t) \/ KeepLocked(t)
QueueingOf(t) ==
    \/ TestQueue(t, TheMutex) \/ LoadTail(t, TheMutex) \/ SetTail(t, TheMutex)
    \/ Block(t) \/ BlockedYield(t, "readGlobal")
    \/ TestWaiter(t, TheMutex, "clearLocked") \/ LoadNext(t)
    \/ ClearTail(t, TheMutex) \/ ClearNext(t, "giveOwner") \/ Wake(t, "loop")

LEMMA WorkerCases ==
    ASSUME MutexInv, NEW t \in Threads, Worker(t) \/ GoneYield(t)
    PROVE  \/ Joining(t) /\ UNCHANGED <<ownVars, demoVars, shellVars>>
           \/ Taking(t) /\ UNCHANGED <<ownVars, demoVars, shellVars>>
           \/ /\ Line(TheMutex)' = Line(TheMutex)
              /\ \/ BodyOf(t)
                 \/ OwningOf(t) /\ UNCHANGED <<demoVars, shellVars>>
                 \/ QueueingOf(t) /\ UNCHANGED <<ownVars, demoVars, shellVars>>
<1>1. PICK line \in Seq(Threads) : QueueInv(line) /\ Line(TheMutex) = line
  BY LineFacts
<1>2. CASE BodyOf(t)
  <2>1. UNCHANGED <<wait_head, wait_next>>
    BY <1>2 DEF BodyOf, Loop, ReadGlobal, CriticalYield, WriteGlobal, LoadDone, StoreDone,
       Exit, GoneYield, mutexVars, queueVars
  <2> QED
    BY <1>2, <2>1, LineStays
<1>3. CASE OwningOf(t) /\ UNCHANGED <<demoVars, shellVars>>
  <2>1. UNCHANGED <<wait_head, wait_next>>
    BY <1>3 DEF OwningOf, TestLocked, SetLocked, SetOwner, TestOwner, CheckLocked, CheckOwner,
       ClearLocked, ClearOwner, GiveOwner, KeepLocked, mutexVars, queueVars
  <2> QED
    BY <1>3, <2>1, LineStays
<1>4. CASE Enqueue(t, TheMutex, "readGlobal") /\ UNCHANGED <<ownVars, demoVars, shellVars>>
  <2>1. CASE Block(t) \/ BlockedYield(t, "readGlobal")
    <3>1. UNCHANGED <<wait_head, wait_next>>
      BY <2>1 DEF Block, BlockedYield, queueVars
    <3> QED
      BY <1>4, <2>1, <3>1, LineStays DEF QueueingOf
  <2>2. CASE TestQueue(t, TheMutex) \/ LoadTail(t, TheMutex) \/ SetTail(t, TheMutex)
    <3>1. MutexTypeOK' /\ LineInv(line)'
      BY <1>1, <1>4, <2>2, EnqueueStep DEF MutexInv, QueueInv
    <3>2. Line(TheMutex)' = line
      BY <3>1, LineOfNextState
    <3> QED
      BY <1>1, <1>4, <2>2, <3>2 DEF QueueingOf
  <2>3. CASE SetHead(t, TheMutex) \/ LinkTail(t)
    <3> DEFINE longer == Append(line, t)
    <3>1. MutexTypeOK' /\ LineInv(longer)' /\ longer \in Seq(Threads)
      BY <1>1, <1>4, <2>3, EnqueueStep DEF MutexInv, QueueInv
    <3> HIDE DEF longer
    <3>2. Line(TheMutex)' = longer
      BY <3>1, LineOfNextState
    <3> QED
      BY <1>1, <1>4, <2>3, <3>2 DEF Joining, longer
  <2> QED
    BY <1>4, <2>1, <2>2, <2>3 DEF Enqueue
<1>5. CASE /\ Dequeue(t, TheMutex, "clearLocked", "giveOwner", "loop")
           /\ UNCHANGED <<ownVars, demoVars, shellVars>>
  <2>1. CASE Wake(t, "loop")
    <3>1. UNCHANGED <<wait_head, wait_next>>
      BY <2>1 DEF Wake, queueVars
    <3> QED
      BY <1>5, <2>1, <3>1, LineStays DEF QueueingOf
  <2>2. CASE SetNewHead(t, TheMutex)
    <3> DEFINE rest == Tail(line)
    <3>1. /\ MutexTypeOK' /\ LineInv(rest)' /\ rest \in Seq(Threads)
          /\ line # << >> /\ next[t] = line[1]
      BY <1>1, <1>5, <2>2, DequeueStep DEF MutexInv, QueueInv
    <3> HIDE DEF rest
    <3>2. Line(TheMutex)' = rest
      BY <3>1, LineOfNextState
    <3> QED
      BY <1>1, <1>5, <2>2, <3>1, <3>2 DEF Taking, rest
  <2>3. CASE /\ ~SetNewHead(t, TheMutex)
             /\ \/ TestWaiter(t, TheMutex, "clearLocked") \/ LoadNext(t)
                \/ ClearTail(t, TheMutex) \/ ClearNext(t, "giveOwner")
    <3>1. MutexTypeOK' /\ LineInv(line)'
      BY <1>1, <1>5, <2>3, DequeueStep DEF MutexInv, QueueInv
    <3>2. Line(TheMutex)' = line
      BY <3>1, LineOfNextState
    <3> QED
      BY <1>1, <1>5, <2>3, <3>2 DEF QueueingOf
  <2> QED
    BY <1>5, <2>1, <2>2, <2>3 DEF Dequeue
<1>6. Lock(t) => \/ OwningOf(t) /\ UNCHANGED <<demoVars, shellVars>>
                 \/ /\ Enqueue(t, TheMutex, "readGlobal")
                    /\ UNCHANGED <<ownVars, demoVars, shellVars>>
  BY DEF Lock, MutexLock, OwningOf
<1>7. Unlock(t) => \/ OwningOf(t) /\ UNCHANGED <<demoVars, shellVars>>
                   \/ /\ Dequeue(t, TheMutex, "clearLocked", "giveOwner", "loop")
                      /\ UNCHANGED <<ownVars, demoVars, shellVars>>
  BY DEF Unlock, MutexUnlock, OwningOf
<1> QED
  BY <1>2, <1>3, <1>4, <1>5, <1>6, <1>7 DEF Worker, BodyOf

-----------------------------------------------------------------------------
(* Sleepers can be found.                                                  *)

QueueUpSteps == {"testOwner", "testQueue", "setHead", "loadTail", "linkTail",
                 "setTail", "block"}

\* Besides MutexInv: a sleeper is in line or being handed the mutex, and there
\* is a line, or a thread on its way into it, only while the mutex is held.
InLineOrTaken(t) ==
    \/ InRing(Line(TheMutex), t)
    \/ \E u \in Threads : pc[u] \in TakenSteps /\ next[u] = t
SleepInv ==
    /\ \A t \in Threads : tstate[t] = "BLOCKED" => InLineOrTaken(t)
    /\ ~locked => Line(TheMutex) = << >>
    /\ \A t \in Threads : pc[t] \in QueueUpSteps => locked
    /\ \A t \in Threads : pc[t] = "clearLocked" => Line(TheMutex) = << >>

\* A step that wakes nobody, takes nobody out of line and does not free the
\* mutex.
LEMMA SleepKept ==
    ASSUME SleepInv, Line(TheMutex)' = Line(TheMutex), locked => locked',
           \A u \in Threads :
              /\ tstate'[u] = "BLOCKED" => tstate[u] = "BLOCKED"
              /\ pc[u] \in TakenSteps => pc'[u] \in TakenSteps /\ next'[u] = next[u]
              /\ pc'[u] \in QueueUpSteps => pc[u] \in QueueUpSteps \/ locked
              /\ pc'[u] = "clearLocked" => pc[u] = "clearLocked" \/ Line(TheMutex) = << >>
    PROVE  SleepInv'
<1>1. \A t \in Threads : InLineOrTaken(t) => InLineOrTaken(t)'
  BY DEF InLineOrTaken, InRing
<1> QED
  BY <1>1 DEF SleepInv

LEMMA BodyKeepsSleep ==
    ASSUME MutexInv, SleepInv, NEW t \in Threads, BodyOf(t),
           Line(TheMutex)' = Line(TheMutex)
    PROVE  SleepInv'
<1>1. /\ cpu = Thread(t) /\ locked' = locked /\ next' = next
      /\ pc \in [Threads -> WorkerSteps]
      /\ \A u \in Threads \ {t} : pc'[u] = pc[u]
      /\ pc[t] \notin TakenSteps
      /\ pc'[t] \notin QueueUpSteps /\ pc'[t] # "clearLocked"
  BY DEF BodyOf, Loop, ReadGlobal, CriticalYield, WriteGlobal, LoadDone, StoreDone, Exit,
     GoneYield, Goto, Executes, mutexVars, ownVars, locals, workerVars, TakenSteps,
     QueueUpSteps, MutexInv, MutexTypeOK
<1>2. \A u \in Threads : tstate'[u] = "BLOCKED" => tstate[u] = "BLOCKED"
  <2>1. CASE CriticalYield(t) \/ GoneYield(t)
    BY <2>1, IrqEffect DEF CriticalYield, GoneYield, MutexInv
  <2>2. CASE Exit(t)
    BY <1>1, <2>2, CallEffect DEF Exit, MutexInv, IInv, SchedulerTypeOK
  <2>3. CASE Loop(t) \/ ReadGlobal(t) \/ WriteGlobal(t) \/ LoadDone(t) \/ StoreDone(t)
    BY <2>3 DEF Loop, ReadGlobal, WriteGlobal, LoadDone, StoreDone, schedVars, threadVars
  <2> QED
    BY <2>1, <2>2, <2>3 DEF BodyOf
<1> QED
  BY <1>1, <1>2, SleepKept

LEMMA OwningKeepsSleep ==
    ASSUME MutexInv, SleepInv, NEW t \in Threads, OwningOf(t),
           Line(TheMutex)' = Line(TheMutex)
    PROVE  SleepInv'
<1>1. /\ cpu = Thread(t) /\ next' = next /\ tstate' = tstate
      /\ pc \in [Threads -> WorkerSteps]
      /\ \A u \in Threads \ {t} : pc'[u] = pc[u]
  BY DEF OwningOf, TestLocked, SetLocked, SetOwner, TestOwner, CheckLocked, CheckOwner,
     ClearLocked, ClearOwner, GiveOwner, KeepLocked, Goto, Executes, locals,
     schedVars, threadVars, MutexInv, MutexTypeOK
<1>2. CASE ClearLocked(t)
  <2>1. pc[t] = "clearLocked" /\ pc'[t] = "clearOwner" /\ Line(TheMutex) = << >>
    BY <1>1, <1>2 DEF ClearLocked, Goto, Executes, SleepInv
  <2>2. \A u \in Threads \ {t} : pc[u] \notin QueueUpSteps /\ pc[u] # "clearLocked"
    BY <1>1, OneOnCpu DEF MutexInv, OnlyCpuInWindow, Windows, QueueUpSteps
  <2>3. \A u \in Threads : InLineOrTaken(u)' <=> InLineOrTaken(u)
    BY <1>1, <2>1 DEF InLineOrTaken, InRing, TakenSteps
  <2> QED
    BY <1>1, <2>1, <2>2, <2>3 DEF SleepInv, QueueUpSteps
<1>3. CASE ~ClearLocked(t)
  <2>1. /\ locked => locked'
        /\ pc[t] \in TakenSteps => pc'[t] \in TakenSteps
        /\ pc'[t] \in QueueUpSteps => pc[t] \in QueueUpSteps \/ locked
        /\ pc'[t] # "clearLocked"
    BY <1>3 DEF OwningOf, TestLocked, SetLocked, SetOwner, TestOwner, CheckLocked,
       CheckOwner, ClearOwner, GiveOwner, KeepLocked, Goto, Executes, TakenSteps,
       QueueUpSteps, mutexVars, ownVars, MutexInv, MutexTypeOK
  <2> QED
    BY <1>1, <2>1, SleepKept
<1> QED
  BY <1>2, <1>3

LEMMA QueueingKeepsSleep ==
    ASSUME MutexInv, SleepInv, NEW t \in Threads, QueueingOf(t), UNCHANGED ownVars,
           Line(TheMutex)' = Line(TheMutex)
    PROVE  SleepInv'
<1>1. /\ cpu = Thread(t) /\ locked' = locked
      /\ pc \in [Threads -> WorkerSteps] /\ next \in [Threads -> Threads \cup {NULL}]
      /\ tstate \in [Threads -> ThreadStates]
      /\ \A u \in Threads \ {t} : pc'[u] = pc[u] /\ next'[u] = next[u]
  BY DEF QueueingOf, TestQueue, LoadTail, SetTail, Block, BlockedYield, TestWaiter, LoadNext,
     ClearTail, ClearNext, Wake, Goto, Executes, locals, ownVars, MutexInv, MutexTypeOK,
     WaitQueueTypeOK, IInv, SchedulerTypeOK
<1>2. CASE Block(t)
  <2>1. pc[t] = "block" /\ pc'[t] = "blockedYield" /\ next' = next
    BY <1>1, <1>2 DEF Block, Goto, Executes, locals
  <2>2. tstate' = [tstate EXCEPT ![t] = "BLOCKED"]
    BY <1>1, <1>2, CallEffect DEF Block, MutexInv
  <2>3. InRing(Line(TheMutex), t)
    <3>1. PICK line \in Seq(Threads) : QueueInv(line) /\ Line(TheMutex) = line
      BY LineFacts
    <3>2. line # << >> /\ line[Len(line)] = t
      BY <2>1, <3>1 DEF QueueInv, LineInv, Joins
    <3>3. Len(line) \in DOMAIN line
      BY <3>2
    <3> QED
      BY <3>1, <3>2, <3>3 DEF InRing
  <2>4. \A u \in Threads : InLineOrTaken(u)' <=> InLineOrTaken(u)
    BY <1>1, <2>1 DEF InLineOrTaken, InRing, TakenSteps
  <2>5. InLineOrTaken(t)
    BY <2>3 DEF InLineOrTaken
  <2> QED
    BY <1>1, <2>1, <2>2, <2>4, <2>5 DEF SleepInv, QueueUpSteps
<1>3. CASE Wake(t, "loop")
  <2>1. pc[t] = "wake" /\ pc'[t] = "loop" /\ next[t] \in Threads /\ tstate[next[t]] = "BLOCKED"
    BY <1>1, <1>3, LineFacts
    DEF Wake, Goto, Executes, QueueInv, DequeueInv, TakenSteps
  <2>2. tstate' = [tstate EXCEPT ![next[t]] = "READY"]
    BY <1>1, <1>3, <2>1, CallEffect DEF Wake, MutexInv
  <2>3. \A u \in Threads \ {next[t]} : InLineOrTaken(u) => InLineOrTaken(u)'
    BY <1>1, <2>1 DEF InLineOrTaken, InRing, TakenSteps
  <2> QED
    BY <1>1, <2>1, <2>2, <2>3 DEF SleepInv, QueueUpSteps
<1>4. CASE TestWaiter(t, TheMutex, "clearLocked")
  <2>1. /\ pc[t] = "testWaiter" /\ tstate' = tstate
        /\ pc'[t] = IF wait_head[TheMutex] = NULL THEN "clearLocked" ELSE "loadNext"
    BY <1>1, <1>4 DEF TestWaiter, Goto, Executes, schedVars, threadVars
  <2>2. wait_head[TheMutex] = NULL => Line(TheMutex) = << >>
    <3>1. PICK line \in Seq(Threads) : QueueInv(line) /\ Line(TheMutex) = line
      BY LineFacts
    <3>2. line # << >> => line[1] \in Threads
      OBVIOUS
    <3>3. NULL \notin Threads
      BY DEF NULL, Threads
    <3> QED
      BY <3>1, <3>2, <3>3 DEF QueueInv, LineInv
  <2> QED
    BY <1>1, <2>1, <2>2, SleepKept DEF QueueUpSteps, TakenSteps
<1>5. CASE \/ TestQueue(t, TheMutex) \/ LoadTail(t, TheMutex) \/ SetTail(t, TheMutex)
           \/ BlockedYield(t, "readGlobal") \/ LoadNext(t)
           \/ ClearTail(t, TheMutex) \/ ClearNext(t, "giveOwner")
  <2>1. /\ pc[t] \in TakenSteps => pc'[t] \in TakenSteps
        /\ pc'[t] \in QueueUpSteps => pc[t] \in QueueUpSteps
        /\ pc'[t] # "clearLocked" /\ next' = next
    BY <1>1, <1>5 DEF TestQueue, LoadTail, SetTail, BlockedYield, LoadNext, ClearTail,
       ClearNext, Goto, Executes, locals, TakenSteps, QueueUpSteps
  <2>2. \A u \in Threads : tstate'[u] = "BLOCKED" => tstate[u] = "BLOCKED"
    <3>1. CASE BlockedYield(t, "readGlobal")
      BY <3>1, IrqEffect DEF BlockedYield, MutexInv
    <3>2. CASE ~BlockedYield(t, "readGlobal")
      BY <1>5, <3>2 DEF TestQueue, LoadTail, SetTail, LoadNext, ClearTail, ClearNext,
         schedVars, threadVars
    <3> QED
      BY <3>1, <3>2
  <2> QED
    BY <1>1, <2>1, <2>2, SleepKept
<1> QED
  BY <1>2, <1>3, <1>4, <1>5 DEF QueueingOf

LEMMA LineStepsKeepSleep ==
    ASSUME MutexInv, SleepInv, NEW t \in Threads, Joining(t) \/ Taking(t),
           UNCHANGED ownVars
    PROVE  SleepInv'
<1>1. /\ cpu = Thread(t) /\ locked' = locked /\ tstate' = tstate /\ next' = next
      /\ pc \in [Threads -> WorkerSteps]
      /\ \A u \in Threads \ {t} : pc'[u] = pc[u]
  BY DEF Joining, Taking, SetHead, LinkTail, SetNewHead, Goto, Executes, schedVars, threadVars,
     locals, ownVars, MutexInv, MutexTypeOK
<1>2. PICK line \in Seq(Threads) : QueueInv(line) /\ Line(TheMutex) = line
  BY LineFacts
<1>3. CASE Joining(t)
  <2> DEFINE longer == Append(line, t)
  <2>1. /\ pc[t] \in {"setHead", "linkTail"} /\ pc'[t] = "setTail"
        /\ Line(TheMutex)' = longer
    BY <1>1, <1>2, <1>3 DEF Joining, SetHead, LinkTail, Goto, Executes
  <2>2. \A u \in Threads : InRing(line, u) => InRing(longer, u)
    BY LinkAtTail
  <2> HIDE DEF longer
  <2>3. \A u \in Threads : InLineOrTaken(u) => InLineOrTaken(u)'
    BY <1>1, <1>2, <2>1, <2>2 DEF InLineOrTaken, TakenSteps
  <2>4. locked
    BY <2>1 DEF SleepInv, QueueUpSteps
  <2>5. \A u \in Threads : pc'[u] # "clearLocked"
    BY <1>1, <2>1, OneOnCpu DEF MutexInv, OnlyCpuInWindow, Windows
  <2> QED
    BY <1>1, <2>3, <2>4, <2>5 DEF SleepInv
<1>4. CASE Taking(t)
  <2> DEFINE rest == Tail(line)
  <2>1. /\ pc[t] = "setNewHead" /\ pc'[t] \in {"clearTail", "clearNext"}
        /\ line # << >> /\ next[t] = line[1] /\ Line(TheMutex)' = rest
    BY <1>1, <1>2, <1>4 DEF Taking, SetNewHead, Goto, Executes
  <2>2. \A u \in Threads : InRing(line, u) => u = line[1] \/ InRing(rest, u)
    <3>1. /\ rest \in Seq(Threads) /\ Len(rest) = Len(line) - 1
          /\ \A k \in 1..Len(rest) : rest[k] = line[k + 1]
      BY <2>1, TakeFirst
    <3> HIDE DEF rest
    <3>2. ASSUME NEW k \in DOMAIN line, k # 1 PROVE InRing(rest, line[k])
      <4>1. k - 1 \in 1..Len(rest) /\ (k - 1) + 1 = k
        BY <3>1, <3>2
      <4>2. k - 1 \in DOMAIN rest /\ rest[k - 1] = line[k]
        BY <3>1, <4>1
      <4> QED
        BY <4>2 DEF InRing
    <3> QED
      BY <3>2 DEF InRing
  <2> HIDE DEF rest
  <2>3. \A u \in Threads : InLineOrTaken(u) => InLineOrTaken(u)'
    BY <1>1, <1>2, <2>1, <2>2 DEF InLineOrTaken, TakenSteps
  <2>4. locked
    BY <1>2, <2>1 DEF SleepInv
  <2>5. \A u \in Threads : pc'[u] # "clearLocked"
    BY <1>1, <2>1, OneOnCpu DEF MutexInv, OnlyCpuInWindow, Windows
  <2> QED
    BY <1>1, <2>1, <2>3, <2>4, <2>5 DEF SleepInv, QueueUpSteps
<1> QED
  BY <1>3, <1>4

\* The timer, the boot code and the shell.
LEMMA OthersKeepSleep ==
    ASSUME MutexInv, SleepInv, BootStep \/ Tick \/ Shell \/ UNCHANGED vars, ~StartStep
    PROVE  SleepInv' /\ Line(TheMutex)' = Line(TheMutex)
<1>1. /\ UNCHANGED <<wait_head, wait_next>> /\ locked' = locked /\ pc' = pc /\ next' = next
  BY DEF BootStep, Tick, Shell, CreateWorker, LinkWorker, CloseWorker, CreateFails, Wait,
     WaitYield, Report, StartStep, vars, mutexVars, ownVars, queueVars, workerVars, locals
<1>2. Line(TheMutex)' = Line(TheMutex)
  BY <1>1, LineStays
<1>3. \A u \in Threads : tstate'[u] = "BLOCKED" => tstate[u] = "BLOCKED"
  <2>1. CASE Tick \/ WaitYield
    BY <2>1, IrqEffect DEF Tick, WaitYield, MutexInv
  <2>2. CASE CreateWorker
    BY <2>2 DEF CreateWorker, AllocThread, MutexInv, IInv, SchedulerTypeOK
  <2>3. CASE ~Tick /\ ~WaitYield /\ ~CreateWorker
    BY <2>3 DEF BootStep, SchedulerStart, ProcCreate, Shell, LinkWorker, LinkThread,
       CloseWorker, CloseRing, CreateFails, Wait, Report, StartStep, vars, schedVars,
       threadVars
  <2> QED
    BY <2>1, <2>2, <2>3
<1> QED
  BY <1>1, <1>2, <1>3, SleepKept

\* mutexdemo re-initialises the mutex when nobody is asleep or on the way.
LEMMA StartLine ==
    ASSUME MutexInv, MutexInv', StartStep, ~struck'
    PROVE  Line(TheMutex) = << >> /\ Line(TheMutex)' = << >>
<1>1. QueueInv(<< >>) /\ QueueInv(<< >>)' /\ << >> \in Seq(Threads)
  BY StartStepEffect
<1>2. MutexTypeOK /\ MutexTypeOK'
  BY DEF MutexInv
<1> QED
  BY <1>1, <1>2, LineOfState, LineOfNextState DEF QueueInv

LEMMA StartKeepsSleep ==
    ASSUME MutexInv, MutexInv', StartStep, ~struck'
    PROVE  SleepInv'
<1>1. /\ \A t \in Threads : pc[t] \in {"loop", "exit", "gone"} /\ tstate[t] # "BLOCKED"
      /\ UNCHANGED <<pc, tstate>>
  BY StartStepEffect
<1> QED
  BY <1>1, StartLine DEF SleepInv, QueueUpSteps

LEMMA NextSleepInv ==
    ASSUME MutexInv, MutexInv', SleepInv, [Next]_vars, ~struck'
    PROVE  SleepInv'
<1>1. CASE StartStep
  BY <1>1, StartKeepsSleep
<1>2. CASE ~StartStep /\ (BootStep \/ Tick \/ Shell \/ UNCHANGED vars)
  BY <1>2, OthersKeepSleep
<1>3. CASE \E t \in Threads : Worker(t) \/ GoneYield(t)
  BY <1>3, WorkerCases, BodyKeepsSleep, OwningKeepsSleep, QueueingKeepsSleep,
     LineStepsKeepSleep
<1> QED
  BY <1>1, <1>2, <1>3 DEF Next

LEMMA InitSleepInv ==
    ASSUME Init
    PROVE  SleepInv
<1>1. /\ tstate = [t \in Threads |-> "UNUSED"] /\ pc = [t \in Threads |-> "loop"]
      /\ wait_head[TheMutex] = NULL
  BY DEF Init, SchedulerInit, MutexInit, WaitQueueInit
<1>2. PICK line \in Seq(Threads) : QueueInv(line) /\ Line(TheMutex) = line
  BY InitMutexInv, LineFacts
<1>3. line = << >>
  <2>1. line # << >> => line[1] \in Threads
    OBVIOUS
  <2>2. NULL \notin Threads
    BY DEF NULL, Threads
  <2> QED
    BY <1>1, <1>2, <2>1, <2>2 DEF QueueInv, LineInv
<1> QED
  BY <1>1, <1>2, <1>3 DEF SleepInv, QueueUpSteps

LEMMA SleepInvariant == Spec => [](struck \/ (MutexInv /\ SleepInv))
<1>1. Init => struck \/ (MutexInv /\ SleepInv)
  BY InitMutexInv, InitSleepInv
<1>2. (struck \/ (MutexInv /\ SleepInv)) /\ [Next]_vars
         => (struck \/ (MutexInv /\ SleepInv))'
  BY NextMutexInv, NextSleepInv, StruckStays
<1> QED
  BY <1>1, <1>2, PTL DEF Spec

\* Until a window is hit, no wake-up is lost: a thread that sleeps in mutex_lock
\* is in the line of a mutex that is held, so that an unlock is still to come, or
\* it has been taken out of it by the unlock that is about to wake it.
THEOREM SleepersAreWoken == Spec => []SleeperWillBeWoken
<1>1. ASSUME MutexInv, SleepInv, NEW t \in Threads, tstate[t] = "BLOCKED"
      PROVE  locked /\ CanBeFound(t, TheMutex)
  <2>1. CASE InRing(Line(TheMutex), t)
    BY <1>1, <2>1 DEF SleepInv, CanBeFound, InRing
  <2>2. CASE ~InRing(Line(TheMutex), t)
    <3>1. PICK u \in Threads : pc[u] \in TakenSteps /\ next[u] = t
      BY <1>1, <2>2 DEF SleepInv, InLineOrTaken
    <3>2. Owns(u) \/ Gives(u)
      BY <1>1, <3>1 DEF MutexInv, StatesFit, Owns, OwnerSteps, Gives, TakenSteps
    <3> QED
      BY <1>1, <3>1, <3>2 DEF MutexInv, OwnershipInv, CanBeFound
  <2> QED
    BY <2>1, <2>2
<1>2. struck \/ (MutexInv /\ SleepInv) => SleeperWillBeWoken
  BY <1>1 DEF SleeperWillBeWoken
<1> QED
  BY <1>2, SleepInvariant, PTL

-----------------------------------------------------------------------------
(* The increments of myglobal.                                             *)

\* The rounds that the threads of this demo have completed.
Rounds(start) == {r \in Threads \X (1..RaceIterations) : r[1] > start /\ r[2] <= i[r[1]]}

DoneSteps == {"loadDone", "storeDone", "exit", "gone"}
RoundSteps == {"readGlobal", "criticalYield", "writeGlobal"} \cup LockSteps
CopySteps == {"criticalYield", "writeGlobal"}

\* Besides MutexInv: myglobal counts the completed rounds, and the copy of it
\* that a thread holds in the critical section is not stale.
CountInv(start) ==
    /\ i \in [Threads -> 0..RaceIterations]
    /\ \A t \in Threads : tstate[t] = "UNUSED" => i[t] = 0
    /\ \A t \in Threads : pc[t] \in DoneSteps => i[t] = RaceIterations
    /\ \A t \in Threads : pc[t] \in RoundSteps => i[t] < RaceIterations
    /\ \A t \in Threads : pc[t] \in CopySteps => temp[t] = myglobal
    /\ myglobal = Cardinality(Rounds(start))
TotalInv == \A start \in 0..MaxThreads : DemoInv(start) => CountInv(start)

LEMMA RoundsAreFinite == ASSUME NEW start PROVE IsFiniteSet(Rounds(start))
<1>1. RaceIterations \in Nat
  BY MutexDemoAssumption
<1>2. IsFiniteSet(1..RaceIterations)
  <2>1. \A a, b \in Int : IsFiniteSet(a..b)
    BY FS_Interval
  <2> QED
    BY <1>1, <2>1
<1>3. IsFiniteSet(Threads \X (1..RaceIterations))
  BY <1>2, ThreadsAreFinite, FS_Product
<1> QED
  BY <1>3, FS_Subset DEF Rounds

\* The threads in use tell where the threads of the demo begin.
LEMMA SameBound ==
    \A max, a, b \in Nat : a <= max /\ b <= max =>
       /\ (\A t \in 1..max : t <= b <=> t <= a) => b = a
       /\ \A x \in 1..max :
             (\A t \in 1..max : t <= b <=> t <= a \/ t = x) /\ ~(x <= a) => b = a + 1
<1> SUFFICES ASSUME NEW max \in Nat, NEW a \in Nat, NEW b \in Nat, a <= max, b <= max
             PROVE  /\ (\A t \in 1..max : t <= b <=> t <= a) => b = a
                    /\ \A x \in 1..max :
                          (\A t \in 1..max : t <= b <=> t <= a \/ t = x) /\ ~(x <= a)
                             => b = a + 1
  OBVIOUS
<1>1. ASSUME \A t \in 1..max : t <= b <=> t <= a
      PROVE  b = a
  BY <1>1
<1>2. ASSUME NEW x \in 1..max, ~(x <= a), \A t \in 1..max : t <= b <=> t <= a \/ t = x
      PROVE  b = a + 1
  <2>1. x <= b /\ a + 1 \in 1..max /\ a + 1 <= b
    BY <1>2
  <2>2. a + 1 = x
    BY <1>2, <2>1
  <2>3. ~(a + 2 <= b)
    BY <1>2, <2>2
  <2> QED
    BY <2>1, <2>3
<1> QED
  BY <1>1, <1>2

\* Facts of arithmetic, for steps whose context the solver cannot type.
LEMMA Successors == \A k \in Nat : k + 1 \in Nat
OBVIOUS

LEMMA MadeFits ==
    ASSUME NEW start \in 0..MaxThreads, DemoInv(start)
    PROVE  \E m \in Nat : m = Made /\ start + m <= MaxThreads
<1>1. created \in 0..Workers /\ start + Made <= MaxThreads
  BY Zenon DEF DemoInv, ShellFits
<1>2. Made \in Nat
  BY <1>1, MutexDemoAssumption, SchedulerAssumption DEF Made
<1> QED
  BY <1>1, <1>2, Zenon

LEMMA MadeFitsNext ==
    ASSUME NEW start \in 0..MaxThreads, DemoInv(start)'
    PROVE  \E m \in Nat : m = Made' /\ start + m <= MaxThreads
<1>1. created' \in 0..Workers /\ start + Made' <= MaxThreads
  BY Zenon DEF DemoInv, ShellFits
<1>2. created' \in Nat
  BY <1>1, MutexDemoAssumption, SchedulerAssumption
<1>3. Made' \in Nat
  <2>1. created' + 1 \in Nat
    BY <1>2, Successors, Zenon
  <2>2. Made' = created' + 1 \/ Made' = created'
    BY Zenon DEF Made
  <2> QED
    BY <1>2, <2>1, <2>2, Zenon
<1> QED
  BY <1>1, <1>3, Zenon

LEMMA SameDemo ==
    ASSUME NEW start \in 0..MaxThreads, NEW after \in 0..MaxThreads,
           DemoInv(start), DemoInv(after)'
    PROVE  /\ /\ \A t \in Threads : tstate'[t] = "UNUSED" <=> tstate[t] = "UNUSED"
              /\ Made' = Made
              => after = start
           /\ /\ \E x \in Threads :
                    /\ tstate[x] = "UNUSED"
                    /\ \A t \in Threads :
                          tstate'[t] # "UNUSED" <=> tstate[t] # "UNUSED" \/ t = x
              /\ Made' = Made + 1
              => after = start
<1>1. \A t \in 1..MaxThreads : tstate[t] # "UNUSED" <=> t <= start + Made
  BY Zenon DEF DemoInv, ShellFits, Threads
<1>2. \A t \in 1..MaxThreads : tstate'[t] # "UNUSED" <=> t <= after + Made'
  BY Zenon DEF DemoInv, ShellFits, Threads
<1>3. PICK m \in Nat : m = Made /\ start + m <= MaxThreads
  BY MadeFits
<1>4. PICK n \in Nat : n = Made' /\ after + n <= MaxThreads
  BY MadeFitsNext
<1> DEFINE a == start + m
           b == after + n
<1>5. MaxThreads \in Nat
  BY SchedulerAssumption
<1>6. \A t \in 1..MaxThreads : (tstate[t] # "UNUSED" <=> t <= a)
                               /\ (tstate'[t] # "UNUSED" <=> t <= b)
  BY <1>1, <1>2, <1>3, <1>4, Zenon
<1>7. /\ a \in Nat /\ b \in Nat /\ a <= MaxThreads /\ b <= MaxThreads
      /\ (n = m /\ b = a => after = start)
      /\ (n = m + 1 /\ b = a + 1 => after = start)
  <2>1. start + m <= MaxThreads /\ after + n <= MaxThreads
    BY <1>3, <1>4
  <2>2. /\ a \in Nat /\ b \in Nat
        /\ n = m /\ b = a => after = start
        /\ n = m + 1 /\ b = a + 1 => after = start
    BY ONLY <1>5, <2>1
  <2> QED
    BY <2>1, <2>2, Zenon
<1> HIDE DEF a, b
<1>8. ASSUME \A t \in Threads : tstate'[t] = "UNUSED" <=> tstate[t] = "UNUSED", Made' = Made
      PROVE  after = start
  <2>1. \A t \in 1..MaxThreads : t <= b <=> t <= a
    BY <1>6, <1>8, Zenon DEF Threads
  <2>2. b = a
    BY ONLY <1>5, <1>7, <2>1, SameBound
  <2> QED
    BY <1>3, <1>4, <1>7, <1>8, <2>2, Zenon
<1>9. ASSUME NEW x \in Threads, tstate[x] = "UNUSED", Made' = Made + 1,
             \A t \in Threads : tstate'[t] # "UNUSED" <=> tstate[t] # "UNUSED" \/ t = x
      PROVE  after = start
  <2>1. x \in 1..MaxThreads /\ ~(x <= a)
    BY <1>6, <1>9, Zenon DEF Threads
  <2>2. \A t \in 1..MaxThreads : t <= b <=> t <= a \/ t = x
    BY <1>6, <1>9, Zenon DEF Threads
  <2>3. b = a + 1
    BY ONLY <1>5, <1>7, <2>1, <2>2, SameBound
  <2> QED
    BY <1>3, <1>4, <1>7, <1>9, <2>3, Zenon
<1> QED
  BY <1>8, <1>9, Zenon

\* A step that writes neither myglobal nor a round leaves the count alone.
LEMMA CountKept ==
    ASSUME NEW start, CountInv(start), UNCHANGED <<i, myglobal>>,
           \A u \in Threads :
              /\ tstate'[u] = "UNUSED" => tstate[u] = "UNUSED"
              /\ pc'[u] \in DoneSteps => pc[u] \in DoneSteps \/ i[u] = RaceIterations
              /\ pc'[u] \in RoundSteps => pc[u] \in RoundSteps \/ i[u] < RaceIterations
              /\ pc'[u] \in CopySteps =>
                    (pc[u] \in CopySteps /\ temp'[u] = temp[u]) \/ temp'[u] = myglobal
    PROVE  CountInv(start)'
<1>1. Rounds(start)' = Rounds(start)
  BY DEF Rounds
<1> QED
  BY <1>1 DEF CountInv, DoneSteps, RoundSteps, CopySteps

\* What a worker's step leaves to the table and the demo.
LEMMA WorkerEffect ==
    ASSUME MutexInv, NEW t \in Threads, Worker(t) \/ GoneYield(t)
    PROVE  /\ cpu = Thread(t) /\ tstate[t] # "UNUSED"
           /\ UNCHANGED <<shell, created>>
           /\ \A u \in Threads : tstate'[u] = "UNUSED" <=> tstate[u] = "UNUSED"
           /\ \A u \in Threads \ {t} : pc'[u] = pc[u]
<1>1. BodyOf(t) \/ OwningOf(t) \/ QueueingOf(t) \/ Joining(t) \/ Taking(t)
  BY WorkerCases
<1>2. /\ cpu = Thread(t) /\ UNCHANGED <<shell, created>>
      /\ \A u \in Threads \ {t} : pc'[u] = pc[u]
  <2>1. pc \in [Threads -> WorkerSteps]
    BY DEF MutexInv, MutexTypeOK
  <2>2. CASE BodyOf(t)
    BY <2>1, <2>2 DEF BodyOf, Loop, ReadGlobal, CriticalYield, WriteGlobal, LoadDone,
       StoreDone, Exit, GoneYield, Goto, Executes, shellVars, workerVars
  <2>3. UNCHANGED shellVars
    BY DEF Worker, Loop, ReadGlobal, CriticalYield, WriteGlobal, LoadDone, StoreDone, Exit,
       GoneYield, Lock, Unlock
  <2>4. CASE OwningOf(t)
    BY <2>1, <2>3, <2>4 DEF OwningOf, TestLocked, SetLocked, SetOwner, TestOwner, CheckLocked,
       CheckOwner, ClearLocked, ClearOwner, GiveOwner, KeepLocked, Goto, Executes, shellVars
  <2>5. CASE QueueingOf(t) \/ Joining(t) \/ Taking(t)
    BY <2>1, <2>3, <2>5 DEF QueueingOf, Joining, Taking, TestQueue, SetHead, LoadTail,
       LinkTail, SetTail, Block, BlockedYield, TestWaiter, LoadNext, SetNewHead, ClearTail,
       ClearNext, Wake, Goto, Executes, shellVars
  <2> QED
    BY <1>1, <2>2, <2>4, <2>5
<1>3. tstate[t] # "UNUSED"
  BY <1>2 DEF MutexInv, StatesFit
<1>4. tstate \in [Threads -> ThreadStates]
  BY DEF MutexInv, IInv, SchedulerTypeOK
<1>5. \A u \in Threads : tstate'[u] = "UNUSED" <=> tstate[u] = "UNUSED"
  <2>1. CASE CriticalYield(t) \/ GoneYield(t) \/ BlockedYield(t, "readGlobal")
    BY <2>1, IrqEffect DEF CriticalYield, GoneYield, BlockedYield, MutexInv
  <2>2. CASE Exit(t) \/ Block(t)
    BY <1>2, <1>3, <1>4, <2>2, CallEffect DEF Exit, Block, MutexInv
  <2>3. CASE Wake(t, "loop")
    <3>1. next[t] \in Threads
      BY <2>3, LineFacts DEF Wake, Goto, Executes, QueueInv, DequeueInv, TakenSteps
    <3> QED
      BY <1>2, <1>4, <2>3, <3>1, CallEffect DEF Wake, MutexInv
  <2>4. CASE OwningOf(t)
    BY <2>4 DEF OwningOf, TestLocked, SetLocked, SetOwner, TestOwner, CheckLocked,
       CheckOwner, ClearLocked, ClearOwner, GiveOwner, KeepLocked, schedVars, threadVars
  <2>5. CASE Loop(t) \/ ReadGlobal(t) \/ WriteGlobal(t) \/ LoadDone(t) \/ StoreDone(t)
    BY <2>5 DEF Loop, ReadGlobal, WriteGlobal, LoadDone, StoreDone, schedVars, threadVars
  <2>6. CASE \/ TestQueue(t, TheMutex) \/ LoadTail(t, TheMutex) \/ SetTail(t, TheMutex)
             \/ TestWaiter(t, TheMutex, "clearLocked") \/ LoadNext(t)
             \/ ClearTail(t, TheMutex) \/ ClearNext(t, "giveOwner")
             \/ Joining(t) \/ Taking(t)
    BY <2>6 DEF TestQueue, SetHead, LoadTail, LinkTail, SetTail, TestWaiter, LoadNext,
       SetNewHead, ClearTail, ClearNext, Joining, Taking, schedVars, threadVars
  <2> QED
    BY <1>1, <2>1, <2>2, <2>3, <2>4, <2>5, <2>6 DEF BodyOf, QueueingOf
<1> QED
  BY <1>2, <1>3, <1>5

\* The thread in the critical section is alone there, and its copy of myglobal
\* is up to date, so that the round it completes is the one it counts.
LEMMA WriteGlobalCounts ==
    ASSUME MutexInv, NEW start \in 0..MaxThreads, DemoInv(start), CountInv(start),
           NEW t \in Threads, WriteGlobal(t)
    PROVE  CountInv(start)'
<1>1. /\ pc[t] = "writeGlobal" /\ pc' = [pc EXCEPT ![t] = "unlock"]
      /\ myglobal' = temp[t] + 1 /\ temp' = [temp EXCEPT ![t] = 0]
      /\ i' = [i EXCEPT ![t] = i[t] + 1] /\ UNCHANGED tstate
      /\ pc \in [Threads -> WorkerSteps]
  BY DEF WriteGlobal, Goto, Executes, MutexInv, MutexTypeOK, schedVars, threadVars
<1>2. RaceIterations \in Nat /\ i \in [Threads -> 0..RaceIterations]
  BY MutexDemoAssumption DEF CountInv
<1>3. i[t] < RaceIterations /\ temp[t] = myglobal
  BY <1>1 DEF CountInv, RoundSteps, CopySteps
<1>4. i[t] + 1 \in 1..RaceIterations
  BY <1>2, <1>3
<1>5. i' \in [Threads -> 0..RaceIterations]
  BY <1>1, <1>2, <1>4
<1>6. Owns(t)
  BY <1>1 DEF Owns, OwnerSteps, MutexInv, StatesFit
<1>7. \A u \in Threads \ {t} : pc[u] \notin CopySteps
  BY <1>6, OwnerIsAlone DEF CopySteps, Owns, OwnerSteps, MutexInv, StatesFit
<1>8. t > start
  <2>1. t \in Nat /\ start \in Nat
    BY SchedulerAssumption DEF Threads
  <2>2. ~(t <= start)
    BY <1>1 DEF DemoInv, ShellFits, Finished
  <2> QED
    BY <2>1, <2>2
<1>9. Rounds(start)' = Rounds(start) \cup {<<t, i[t] + 1>>} /\ <<t, i[t] + 1>> \notin Rounds(start)
  <2>1. ASSUME NEW u \in Threads, NEW k \in 1..RaceIterations
        PROVE  k <= i'[u] <=> k <= i[u] \/ (u = t /\ k = i[t] + 1)
    <3>1. i[t] \in Nat /\ k \in Nat
      BY <1>2, <2>1
    <3>2. k <= i[t] + 1 <=> k <= i[t] \/ k = i[t] + 1
      BY <3>1
    <3>3. i'[t] = i[t] + 1 /\ (u # t => i'[u] = i[u])
      BY <1>1, <1>2
    <3>4. CASE u = t
      BY <3>2, <3>3, <3>4
    <3>5. CASE u # t
      BY <3>3, <3>5
    <3> QED
      BY <3>4, <3>5
  <2>2. Rounds(start)' = Rounds(start) \cup {<<t, i[t] + 1>>}
    <3>1. ASSUME NEW u \in Threads, NEW k \in 1..RaceIterations
          PROVE  <<u, k>> \in Rounds(start)' <=>
                    <<u, k>> \in Rounds(start) \cup {<<t, i[t] + 1>>}
      <4>1. /\ <<u, k>> \in Rounds(start) <=> u > start /\ k <= i[u]
            /\ <<u, k>> \in Rounds(start)' <=> u > start /\ k <= i'[u]
        BY DEF Rounds
      <4>2. <<u, k>> = <<t, i[t] + 1>> <=> u = t /\ k = i[t] + 1
        OBVIOUS
      <4> QED
        BY <1>8, <2>1, <4>1, <4>2
    <3>2. \A r \in Rounds(start)' \cup Rounds(start) \cup {<<t, i[t] + 1>>} :
             \E u \in Threads, k \in 1..RaceIterations : r = <<u, k>>
      BY <1>4 DEF Rounds
    <3>3. \A r : r \in Rounds(start)' <=> r \in Rounds(start) \cup {<<t, i[t] + 1>>}
      BY <3>1, <3>2
    <3> QED
      BY <3>3
  <2> QED
    BY <1>2, <2>2 DEF Rounds
<1>10. myglobal' = Cardinality(Rounds(start)')
  <2>1. Cardinality(Rounds(start) \cup {<<t, i[t] + 1>>}) = Cardinality(Rounds(start)) + 1
    BY <1>9, RoundsAreFinite, FS_AddElement
  <2> QED
    BY <1>1, <1>3, <1>9, <2>1 DEF CountInv
<1>11. ASSUME NEW u \in Threads
       PROVE  /\ tstate'[u] = "UNUSED" => i'[u] = 0
              /\ pc'[u] \in DoneSteps => i'[u] = RaceIterations
              /\ pc'[u] \in RoundSteps => i'[u] < RaceIterations
              /\ pc'[u] \notin CopySteps
  <2>1. CASE u = t
    BY <1>1, <2>1 DEF MutexInv, StatesFit, DoneSteps, RoundSteps, CopySteps, LockSteps,
       EnqueueSteps
  <2>2. CASE u # t
    BY <1>1, <1>2, <1>7, <2>2 DEF CountInv
  <2> QED
    BY <2>1, <2>2
<1> QED
  BY <1>5, <1>10, <1>11 DEF CountInv

LEMMA WorkerKeepsCount ==
    ASSUME MutexInv, NEW start \in 0..MaxThreads, DemoInv(start), CountInv(start),
           NEW t \in Threads, Worker(t) \/ GoneYield(t)
    PROVE  CountInv(start)'
<1>1. CASE WriteGlobal(t)
  BY <1>1, WriteGlobalCounts
<1> SUFFICES ASSUME ~WriteGlobal(t) PROVE CountInv(start)'
  BY <1>1
<1>2. /\ \A u \in Threads : tstate'[u] = "UNUSED" <=> tstate[u] = "UNUSED"
      /\ \A u \in Threads \ {t} : pc'[u] = pc[u]
      /\ pc \in [Threads -> WorkerSteps] /\ temp \in [Threads -> Nat]
  BY WorkerEffect DEF MutexInv, MutexTypeOK
<1>3. UNCHANGED <<i, myglobal>>
  BY DEF Worker, GoneYield, Loop, Lock, ReadGlobal, CriticalYield, Unlock, LoadDone,
     StoreDone, Exit, workerVars, demoVars
<1>4. \A u \in Threads \ {t} : temp'[u] = temp[u]
  BY <1>2 DEF Worker, GoneYield, Loop, Lock, ReadGlobal, CriticalYield, Unlock, LoadDone,
     StoreDone, Exit, workerVars, demoVars
<1>5. /\ pc'[t] \in DoneSteps => pc[t] \in DoneSteps \/ i[t] = RaceIterations
      /\ pc'[t] \in RoundSteps => pc[t] \in RoundSteps \/ i[t] < RaceIterations
      /\ pc'[t] \in CopySteps =>
            (pc[t] \in CopySteps /\ temp'[t] = temp[t]) \/ temp'[t] = myglobal
  <2> USE <1>2 DEF DoneSteps, RoundSteps, CopySteps, LockSteps, EnqueueSteps, Goto, Executes
  <2>1. CASE Loop(t)
    <3>1. i[t] < RaceIterations \/ i[t] = RaceIterations
      BY MutexDemoAssumption DEF CountInv
    <3> QED
      BY <2>1, <3>1 DEF Loop, MoreRounds
  <2>2. CASE ReadGlobal(t) \/ CriticalYield(t)
    BY <2>2 DEF ReadGlobal, CriticalYield, demoVars
  <2>3. CASE LoadDone(t) \/ StoreDone(t) \/ Exit(t) \/ GoneYield(t)
    BY <2>3 DEF LoadDone, StoreDone, Exit, GoneYield, workerVars
  <2>4. CASE Lock(t)
    BY <2>4 DEF Lock, MutexLock, TestLocked, SetLocked, SetOwner, TestOwner, Enqueue,
       TestQueue, SetHead, LoadTail, LinkTail, SetTail, Block, BlockedYield
  <2>5. CASE Unlock(t)
    BY <2>5 DEF Unlock, MutexUnlock, CheckLocked, CheckOwner, ClearLocked, ClearOwner,
       GiveOwner, KeepLocked, Dequeue, TestWaiter, LoadNext, SetNewHead, ClearTail,
       ClearNext, Wake
  <2> QED
    BY <2>1, <2>2, <2>3, <2>4, <2>5 DEF Worker
<1> QED
  BY <1>2, <1>3, <1>4, <1>5, CountKept

\* mutexdemo begins after the threads in use, and none of its own has
\* completed a round.
LEMMA StartDemoCounts ==
    ASSUME MutexInv, TotalInv, StartDemo, ~struck', NEW after \in 0..MaxThreads, DemoInv(after)'
    PROVE  CountInv(after)'
<1>1. PICK start \in 0..MaxThreads : DemoInv(start)
  BY DEF MutexInv
<1>2. /\ i \in [Threads -> 0..RaceIterations]
      /\ \A t \in Threads : tstate[t] = "UNUSED" => i[t] = 0
      /\ \A t \in Threads : pc[t] \in DoneSteps => i[t] = RaceIterations
  BY <1>1, Zenon DEF TotalInv, CountInv
<1>3. \A t \in Threads : pc[t] \in {"loop", "exit", "gone"}
  BY StartStepEffect DEF StartStep
<1>4. /\ UNCHANGED <<pc, tstate, i>>
      /\ shell' = "clearDone" /\ created' = 0 /\ myglobal' = 0
  BY DEF StartDemo, ShellGoto, workerVars, schedVars, threadVars
<1>5. Rounds(after)' = {}
  <2>1. Made' = 0
    BY <1>4, Zenon DEF Made
  <2>2. \A t \in Threads : tstate'[t] # "UNUSED" <=> t <= after + Made'
    BY Zenon DEF DemoInv, ShellFits
  <2>3. \A t \in Threads : t <= after \/ i'[t] = 0
    <3>1. after + 0 = after
      OBVIOUS
    <3> QED
      BY <1>2, <1>4, <2>1, <2>2, <3>1, Zenon
  <2>4. \A t \in Threads : t \in Nat
    BY SchedulerAssumption DEF Threads
  <2> QED
    BY <2>3, <2>4 DEF Rounds
<1>6. Cardinality(Rounds(after)') = 0
  BY <1>5, FS_EmptySet
<1> QED
  BY <1>2, <1>3, <1>4, <1>6
     DEF CountInv, DoneSteps, RoundSteps, CopySteps, LockSteps, EnqueueSteps

LEMMA CreateWorkerCounts ==
    ASSUME MutexInv, NEW start \in 0..MaxThreads, DemoInv(start), CountInv(start),
           CreateWorker, NEW after \in 0..MaxThreads, DemoInv(after)'
    PROVE  CountInv(after)'
<1>1. PICK x \in Threads : tstate[x] = "UNUSED" /\ tstate' = [tstate EXCEPT ![x] = "READY"]
  BY DEF CreateWorker, AllocThread, Unused
<1>2. tstate \in [Threads -> ThreadStates]
  BY DEF MutexInv, IInv, SchedulerTypeOK
<1>3. \A t \in Threads : tstate'[t] # "UNUSED" <=> tstate[t] # "UNUSED" \/ t = x
  BY <1>1, <1>2
<1>4. shell = "create" /\ shell' = "link" /\ UNCHANGED <<created, pc, i, temp, myglobal>>
  BY DEF CreateWorker, ShellGoto, workerVars, demoVars
<1>5. Made' = Made + 1
  BY <1>4, Zenon DEF Made
<1>6. after = start
  BY <1>1, <1>3, <1>5, SameDemo, Zenon
<1>7. CountInv(start)'
  BY <1>3, <1>4, CountKept
<1> QED
  BY <1>6, <1>7

\* The steps of the shell and of the interrupts leave the workers where they are.
LEMMA OthersKeepCount ==
    ASSUME MutexInv, NEW start \in 0..MaxThreads, DemoInv(start), CountInv(start),
           \/ BootStep \/ Tick \/ ClearDone \/ InitTheMutex
           \/ LinkWorker \/ CloseWorker \/ CreateFails
           \/ Wait \/ WaitYield \/ Report \/ UNCHANGED vars
    PROVE  CountInv(start)' /\ Made' = Made
           /\ \A t \in Threads : tstate'[t] = "UNUSED" <=> tstate[t] = "UNUSED"
<1>1. UNCHANGED <<pc, i, temp, myglobal>>
  BY DEF BootStep, Tick, ClearDone, InitTheMutex, LinkWorker, CloseWorker, CreateFails,
     Wait, WaitYield, Report, vars, workerVars, demoVars
<1>2. \A t \in Threads : tstate'[t] = "UNUSED" <=> tstate[t] = "UNUSED"
  <2>1. CASE Tick \/ WaitYield
    BY <2>1, IrqEffect DEF Tick, WaitYield, MutexInv
  <2>2. CASE ~Tick /\ ~WaitYield
    BY <2>2 DEF BootStep, SchedulerStart, ProcCreate, ClearDone, InitTheMutex, LinkWorker,
       LinkThread, CloseWorker, CloseRing, CreateFails, Wait, Report, vars, schedVars,
       threadVars
  <2> QED
    BY <2>1, <2>2
<1>3. CountInv(start)'
  BY <1>1, <1>2, CountKept
<1>4. Made' = Made
  BY DEF BootStep, Tick, ClearDone, InitTheMutex, LinkWorker, CloseWorker, CreateFails,
     Wait, WaitYield, Report, vars, ShellGoto, shellVars, Made
<1> QED
  BY <1>2, <1>3, <1>4

LEMMA NextTotalInv ==
    ASSUME MutexInv, TotalInv, [Next]_vars, ~struck'
    PROVE  TotalInv'
<1> SUFFICES ASSUME NEW after \in 0..MaxThreads, DemoInv(after)'
             PROVE  CountInv(after)'
  BY DEF TotalInv
<1>1. PICK start \in 0..MaxThreads : DemoInv(start)
  BY DEF MutexInv
<1>2. CountInv(start)
  BY <1>1 DEF TotalInv
<1>3. CASE StartDemo
  BY <1>3, StartDemoCounts
<1>4. CASE CreateWorker
  BY <1>1, <1>2, <1>4, CreateWorkerCounts
<1>5. CASE \/ BootStep \/ Tick \/ ClearDone \/ InitTheMutex
           \/ LinkWorker \/ CloseWorker \/ CreateFails
           \/ Wait \/ WaitYield \/ Report \/ UNCHANGED vars
  <2>1. CountInv(start)' /\ after = start
    BY <1>1, <1>2, <1>5, OthersKeepCount, SameDemo, Zenon
  <2> QED
    BY <2>1
<1>6. CASE \E t \in Threads : Worker(t) \/ GoneYield(t)
  <2>1. PICK t \in Threads : Worker(t) \/ GoneYield(t)
    BY <1>6
  <2>2. CountInv(start)'
    BY <1>1, <1>2, <2>1, WorkerKeepsCount
  <2>3. UNCHANGED <<shell, created>>
        /\ \A u \in Threads : tstate'[u] = "UNUSED" <=> tstate[u] = "UNUSED"
    BY <2>1, WorkerEffect
  <2>4. Made' = Made
    BY <2>3 DEF Made
  <2>5. after = start
    BY <1>1, <2>3, <2>4, SameDemo, Zenon
  <2> QED
    BY <2>2, <2>5
<1> QED
  BY <1>3, <1>4, <1>5, <1>6 DEF Next, Shell

LEMMA InitTotalInv ==
    ASSUME Init
    PROVE  TotalInv
<1>1. /\ pc = [t \in Threads |-> "loop"] /\ myglobal = 0 /\ i = [t \in Threads |-> 0]
      /\ RaceIterations \in Nat
  BY MutexDemoAssumption DEF Init
<1>2. \A start \in 0..MaxThreads : Rounds(start) = {}
  BY <1>1 DEF Rounds
<1>3. \A start \in 0..MaxThreads : Cardinality(Rounds(start)) = 0
  BY <1>2, FS_EmptySet
<1> QED
  BY <1>1, <1>3 DEF TotalInv, CountInv, DoneSteps, RoundSteps, CopySteps, LockSteps,
     EnqueueSteps

\* The rounds of a demo whose threads have all finished.
LEMMA AllRounds ==
    ASSUME NEW start \in 0..MaxThreads, DemoInv(start), CountInv(start), shell = "report"
    PROVE  Cardinality(Rounds(start)) = Workers * RaceIterations
<1>1. /\ RaceIterations \in Nat /\ Workers \in Nat /\ MaxThreads \in Nat /\ start \in Nat
      /\ Threads = 1..MaxThreads
  BY MutexDemoAssumption, SchedulerAssumption DEF Threads
<1>2. created = Workers /\ Made = Workers
  BY Zenon DEF DemoInv, ShellFits, Made
<1>3. start + Workers <= MaxThreads
  BY <1>2, Zenon DEF DemoInv, ShellFits
<1>4. \A t \in Threads : IF t <= start + Workers THEN i[t] = RaceIterations ELSE i[t] = 0
  <2>1. \A t \in Threads : t <= start + Workers => Finished(t)
    BY <1>2, Zenon DEF DemoInv, ShellFits
  <2>2. \A t \in Threads : ~(t <= start + Workers) => tstate[t] = "UNUSED"
    BY <1>2, Zenon DEF DemoInv, ShellFits
  <2> QED
    BY <2>1, <2>2 DEF Finished, CountInv, DoneSteps
<1> DEFINE mine == (start + 1)..(start + Workers)
<1>5. Rounds(start) = mine \X (1..RaceIterations)
  <2>1. \A t \in Threads : t \in mine <=> t > start /\ t <= start + Workers
    BY <1>1
  <2>2. \A t \in mine : t \in Threads
    BY <1>1, <1>3
  <2>3. ASSUME NEW t \in Threads, NEW k \in 1..RaceIterations
        PROVE  t > start /\ k <= i[t] <=> t \in mine
    <3>1. k \in Nat /\ k > 0 /\ k <= RaceIterations
      BY <1>1
    <3> QED
      BY <1>4, <2>1, <3>1
  <2> HIDE DEF mine
  <2> QED
    BY <2>2, <2>3 DEF Rounds
<1>6. IsFiniteSet(mine) /\ Cardinality(mine) = Workers
  <2>1. start + 1 \in Int /\ start + Workers \in Int
    BY <1>1
  <2>2. Cardinality(mine) = IF start + 1 > start + Workers THEN 0
                            ELSE (start + Workers) - (start + 1) + 1
    BY <2>1, FS_Interval
  <2> QED
    BY <1>1, <2>1, <2>2, FS_Interval
<1>7. IsFiniteSet(1..RaceIterations) /\ Cardinality(1..RaceIterations) = RaceIterations
  <2>1. Cardinality(1..RaceIterations) = IF 1 > RaceIterations THEN 0 ELSE RaceIterations - 1 + 1
    BY <1>1, FS_Interval
  <2>2. IsFiniteSet(1..RaceIterations)
    BY <1>1, FS_Interval
  <2> QED
    BY <1>1, <2>1, <2>2
<1> HIDE DEF mine
<1> QED
  BY <1>5, <1>6, <1>7, FS_Product

\* Until a window is hit, no increment of myglobal is lost between the mutex's
\* lock and unlock: what mutexdemo reports is the number of rounds of all its
\* threads.
THEOREM NoIncrementIsLost == Spec => []ReportedTotalIsRight
<1>1. Init => struck \/ (MutexInv /\ TotalInv)
  BY InitMutexInv, InitTotalInv
<1>2. (struck \/ (MutexInv /\ TotalInv)) /\ [Next]_vars
         => (struck \/ (MutexInv /\ TotalInv))'
  BY NextMutexInv, NextTotalInv, StruckStays
<1>3. ASSUME MutexInv, TotalInv, shell = "report"
      PROVE  myglobal = Workers * RaceIterations
  <2>1. PICK start \in 0..MaxThreads : DemoInv(start)
    BY <1>3 DEF MutexInv
  <2>2. CountInv(start)
    BY <1>3, <2>1 DEF TotalInv
  <2>3. Cardinality(Rounds(start)) = Workers * RaceIterations
    BY <1>3, <2>1, <2>2, AllRounds
  <2> QED
    BY <2>2, <2>3 DEF CountInv
<1>4. struck \/ (MutexInv /\ TotalInv) => ReportedTotalIsRight
  BY <1>3 DEF ReportedTotalIsRight
<1> QED
  BY <1>1, <1>2, <1>4, PTL DEF Spec

-----------------------------------------------------------------------------
(* The first come, first served lock of FifoLock.                          *)

\* Besides the rest: a mutex that is held has an owner, but for the moment
\* between the two stores that take it.
HolderInv == locked /\ lock_owner = NULL => \E t \in Threads : pc[t] = "setOwner"

HandingSteps == {"clearTail", "clearNext", "giveOwner"}

\* A line in front of which its first thread is put back.
LEMMA HandedLine ==
    ASSUME NEW S, NEW s \in Seq(S), NEW h \in S, NEW t \in S
    PROVE  /\ Append(<<h>> \o s, t) = <<h>> \o Append(s, t)
           /\ <<h>> \o s # << >> /\ Head(<<h>> \o s) = h /\ Tail(<<h>> \o s) = s
           /\ t # h /\ (\A k \in DOMAIN s : s[k] # t) =>
                 \A k \in DOMAIN (<<h>> \o s) : (<<h>> \o s)[k] # t
           /\ s # << >> => <<s[1]>> \o Tail(s) = s
<1>1. Append(<<h>> \o s, t) = <<h>> \o Append(s, t)
  OBVIOUS
<1>2. <<h>> \o s # << >> /\ Head(<<h>> \o s) = h
  OBVIOUS
<1>3. Tail(<<h>> \o s) = s
  OBVIOUS
<1>4. ASSUME t # h, \A k \in DOMAIN s : s[k] # t, NEW k \in DOMAIN (<<h>> \o s)
      PROVE  (<<h>> \o s)[k] # t
  BY <1>4
<1>5. s # << >> => <<s[1]>> \o Tail(s) = s
  OBVIOUS
<1> QED
  BY <1>1, <1>2, <1>3, <1>4, <1>5

LEMMA HolderIs ==
    ASSUME OwnershipInv
    PROVE  /\ ~locked => Holder = NULL
           /\ locked /\ lock_owner # NULL => Holder = lock_owner
           /\ \A u \in Threads : pc[u] = "setOwner" => Holder = u
<1>1. \A u \in Threads : pc[u] = "setOwner" => locked /\ lock_owner = NULL
  BY DEF OwnershipInv
<1>2. \A u, v \in Threads : pc[u] = "setOwner" /\ pc[v] = "setOwner" => u = v
  BY DEF OwnershipInv
<1>3. ASSUME NEW u \in Threads, pc[u] = "setOwner"
      PROVE  u = CHOOSE t \in Threads : pc[t] = "setOwner"
  BY <1>2, <1>3
<1> QED
  BY <1>1, <1>3 DEF Holder

LEMMA HolderIsNext ==
    ASSUME OwnershipInv'
    PROVE  /\ ~locked' => Holder' = NULL
           /\ locked' /\ lock_owner' # NULL => Holder' = lock_owner'
           /\ \A u \in Threads : pc'[u] = "setOwner" => Holder' = u
<1>1. \A u \in Threads : pc'[u] = "setOwner" => locked' /\ lock_owner' = NULL
  BY DEF OwnershipInv
<1>2. \A u, v \in Threads : pc'[u] = "setOwner" /\ pc'[v] = "setOwner" => u = v
  BY DEF OwnershipInv
<1>3. ASSUME NEW u \in Threads, pc'[u] = "setOwner"
      PROVE  u = CHOOSE t \in Threads : pc'[t] = "setOwner"
  BY <1>2, <1>3
<1> QED
  BY <1>1, <1>3 DEF Holder

LEMMA LineIs ==
    ASSUME MutexInv
    PROVE  /\ (\A u \in Threads : pc[u] \notin HandingSteps) => WaitingLine = Line(TheMutex)
           /\ \A u \in Threads : pc[u] \in HandingSteps =>
                 next[u] \in Threads /\ WaitingLine = <<next[u]>> \o Line(TheMutex)
<1>1. \A u, v \in Threads : pc[u] \in HandingSteps /\ pc[v] \in HandingSteps => u = v
  BY DEF MutexInv, OwnershipInv, StatesFit, HandingSteps, Owns, OwnerSteps
<1>2. \A u \in Threads : pc[u] \in HandingSteps => next[u] \in Threads
  BY DEF MutexInv, QueueInv, DequeueInv, HandingSteps, TakenSteps
<1>3. ASSUME NEW u \in Threads, pc[u] \in HandingSteps
      PROVE  WaitingLine = <<next[u]>> \o Line(TheMutex)
  <2>1. TakenOut = {next[u]}
    BY <1>1, <1>2, <1>3 DEF TakenOut, HandingSteps
  <2>2. next[u] = CHOOSE t \in TakenOut : TRUE
    BY <2>1
  <2> QED
    BY <2>1, <2>2 DEF WaitingLine
<1>4. ASSUME \A u \in Threads : pc[u] \notin HandingSteps
      PROVE  WaitingLine = Line(TheMutex)
  BY <1>4 DEF WaitingLine, TakenOut, HandingSteps
<1> QED
  BY <1>2, <1>3, <1>4

LEMMA LineIsNext ==
    ASSUME MutexInv'
    PROVE  /\ (\A u \in Threads : pc'[u] \notin HandingSteps) =>
                 WaitingLine' = Line(TheMutex)'
           /\ \A u \in Threads : pc'[u] \in HandingSteps =>
                 WaitingLine' = <<next'[u]>> \o Line(TheMutex)'
<1>1. \A u, v \in Threads : pc'[u] \in HandingSteps /\ pc'[v] \in HandingSteps => u = v
  BY DEF MutexInv, OwnershipInv, StatesFit, HandingSteps, Owns, OwnerSteps
<1>2. \A u \in Threads : pc'[u] \in HandingSteps => next'[u] \in Threads
  BY DEF MutexInv, QueueInv, DequeueInv, HandingSteps, TakenSteps
<1>3. ASSUME NEW u \in Threads, pc'[u] \in HandingSteps
      PROVE  WaitingLine' = <<next'[u]>> \o Line(TheMutex)'
  <2>1. TakenOut' = {next'[u]}
    BY <1>1, <1>2, <1>3 DEF TakenOut, HandingSteps
  <2>2. next'[u] = CHOOSE t \in TakenOut' : TRUE
    BY <2>1
  <2> QED
    BY <2>1, <2>2 DEF WaitingLine
<1>4. ASSUME \A u \in Threads : pc'[u] \notin HandingSteps
      PROVE  WaitingLine' = Line(TheMutex)'
  BY <1>4 DEF WaitingLine, TakenOut, HandingSteps
<1> QED
  BY <1>3, <1>4

\* A step that leaves the ownership, the line and its way out of it alone.
LEMMA LockStutters ==
    ASSUME MutexInv, MutexInv', HolderInv, UNCHANGED <<locked, lock_owner>>,
           Line(TheMutex)' = Line(TheMutex),
           \A u \in Threads :
              /\ pc'[u] = "setOwner" <=> pc[u] = "setOwner"
              /\ pc'[u] \in HandingSteps <=> pc[u] \in HandingSteps
              /\ pc[u] \in HandingSteps => next'[u] = next[u]
    PROVE  HolderInv' /\ UNCHANGED <<Holder, WaitingLine>>
<1>1. HolderInv'
  BY DEF HolderInv
<1>2. OwnershipInv /\ OwnershipInv'
  BY DEF MutexInv
<1>3. UNCHANGED Holder
  BY <1>2, HolderIs, HolderIsNext DEF HolderInv
<1>4. UNCHANGED WaitingLine
  <2>1. CASE \A u \in Threads : pc[u] \notin HandingSteps
    <3>1. WaitingLine = Line(TheMutex)
      BY <2>1, LineIs
    <3>2. WaitingLine' = Line(TheMutex)'
      BY <2>1, LineIsNext
    <3> QED
      BY <3>1, <3>2
  <2>2. CASE \E u \in Threads : pc[u] \in HandingSteps
    <3>1. PICK u \in Threads : pc[u] \in HandingSteps
      BY <2>2
    <3>2. WaitingLine = <<next[u]>> \o Line(TheMutex)
      BY <3>1, LineIs
    <3>3. WaitingLine' = <<next'[u]>> \o Line(TheMutex)'
      BY <3>1, LineIsNext
    <3> QED
      BY <3>1, <3>2, <3>3
  <2> QED
    BY <2>1, <2>2
<1> QED
  BY <1>1, <1>3, <1>4

LEMMA OthersStutter ==
    ASSUME MutexInv, MutexInv', HolderInv,
           BootStep \/ Tick \/ Shell \/ UNCHANGED vars, ~StartStep
    PROVE  HolderInv' /\ UNCHANGED <<Holder, WaitingLine>>
<1>1. /\ UNCHANGED <<wait_head, wait_next, locked, lock_owner, pc, next>>
  BY DEF BootStep, Tick, Shell, CreateWorker, LinkWorker, CloseWorker, CreateFails, Wait,
     WaitYield, Report, StartStep, vars, mutexVars, ownVars, queueVars, workerVars, locals
<1>2. Line(TheMutex)' = Line(TheMutex)
  BY <1>1, LineStays
<1> QED
  BY <1>1, <1>2, LockStutters

\* mutexdemo re-initialises a mutex that is free already.
LEMMA StartStutters ==
    ASSUME MutexInv, MutexInv', HolderInv, StartStep, ~struck'
    PROVE  HolderInv' /\ UNCHANGED <<Holder, WaitingLine>>
<1>1. /\ \A t \in Threads : pc[t] \in {"loop", "exit", "gone"}
      /\ pc' = pc /\ locked' \in {locked, FALSE} /\ lock_owner = NULL
  BY StartStepEffect
<1>2. Line(TheMutex) = << >> /\ Line(TheMutex)' = << >>
  BY StartLine
<1>3. OwnershipInv /\ OwnershipInv'
  BY DEF MutexInv
<1>4. ~locked /\ ~locked'
  <2>1. ~locked
    BY <1>1 DEF HolderInv
  <2>2. locked = FALSE
    BY <2>1 DEF MutexInv, MutexTypeOK
  <2>3. locked' = FALSE
    BY <1>1, <2>2
  <2> QED
    BY <2>1, <2>3
<1>5. Holder = NULL /\ Holder' = NULL
  BY <1>1, <1>3, <1>4, HolderIs, HolderIsNext
<1>6. WaitingLine = << >> /\ WaitingLine' = << >>
  BY <1>1, <1>2, LineIs, LineIsNext DEF HandingSteps
<1> QED
  BY <1>4, <1>5, <1>6 DEF HolderInv

LEMMA BodyStutters ==
    ASSUME MutexInv, MutexInv', HolderInv, NEW t \in Threads, BodyOf(t),
           Line(TheMutex)' = Line(TheMutex)
    PROVE  HolderInv' /\ UNCHANGED <<Holder, WaitingLine>>
<1>1. UNCHANGED <<locked, lock_owner, next>>
  BY DEF BodyOf, Loop, ReadGlobal, CriticalYield, WriteGlobal, LoadDone, StoreDone, Exit,
     GoneYield, mutexVars, ownVars, workerVars, locals
<1>2. \A u \in Threads :
         /\ pc'[u] = "setOwner" <=> pc[u] = "setOwner"
         /\ pc'[u] \in HandingSteps <=> pc[u] \in HandingSteps
  BY DEF BodyOf, Loop, ReadGlobal, CriticalYield, WriteGlobal, LoadDone, StoreDone, Exit,
     GoneYield, Goto, Executes, workerVars, HandingSteps, MutexInv, MutexTypeOK
<1> QED
  BY <1>1, <1>2, LockStutters

LEMMA QueueingStutters ==
    ASSUME MutexInv, MutexInv', HolderInv, NEW t \in Threads, QueueingOf(t),
           UNCHANGED ownVars, Line(TheMutex)' = Line(TheMutex)
    PROVE  HolderInv' /\ UNCHANGED <<Holder, WaitingLine>>
<1>1. pc \in [Threads -> WorkerSteps] /\ next \in [Threads -> Threads \cup {NULL}]
  BY DEF MutexInv, MutexTypeOK, WaitQueueTypeOK
<1>2. CASE ClearTail(t, TheMutex)
  BY <1>1, <1>2, LockStutters DEF ClearTail, Goto, Executes, ownVars, HandingSteps, locals
<1>3. CASE ClearNext(t, "giveOwner")
  BY <1>1, <1>3, LockStutters DEF ClearNext, Goto, Executes, ownVars, HandingSteps, locals
<1>4. CASE \/ TestQueue(t, TheMutex) \/ LoadTail(t, TheMutex) \/ SetTail(t, TheMutex)
           \/ Block(t) \/ BlockedYield(t, "readGlobal")
           \/ TestWaiter(t, TheMutex, "clearLocked") \/ LoadNext(t) \/ Wake(t, "loop")
  <2>1. /\ pc[t] \notin HandingSteps \cup {"setOwner"} /\ pc'[t] \notin HandingSteps \cup {"setOwner"}
        /\ \A u \in Threads \ {t} : pc'[u] = pc[u] /\ next'[u] = next[u]
    BY <1>1, <1>4 DEF TestQueue, LoadTail, SetTail, Block, BlockedYield, TestWaiter, LoadNext,
       Wake, Goto, Executes, HandingSteps, locals
  <2> QED
    BY <2>1, LockStutters DEF ownVars
<1> QED
  BY <1>2, <1>3, <1>4 DEF QueueingOf

\* Two states in neither of which a thread is being handed the mutex.
LEMMA LineAlone ==
    ASSUME MutexInv, MutexInv', Line(TheMutex)' = Line(TheMutex),
           \A u \in Threads : pc[u] \notin HandingSteps /\ pc'[u] \notin HandingSteps
    PROVE  WaitingLine = Line(TheMutex) /\ WaitingLine' = Line(TheMutex)
<1>1. WaitingLine = Line(TheMutex)
  BY LineIs
<1>2. WaitingLine' = Line(TheMutex)'
  BY LineIsNext
<1> QED
  BY <1>1, <1>2

\* A thread takes or frees the mutex, or hands it to the first one in line.
LEMMA OwningRefines ==
    ASSUME MutexInv, MutexInv', SleepInv, HolderInv, NEW t \in Threads, OwningOf(t),
           Line(TheMutex)' = Line(TheMutex)
    PROVE  /\ HolderInv'
           /\ Fifo!Acquire(t) \/ Fifo!Release(t) \/ UNCHANGED <<Holder, WaitingLine>>
<1>1. /\ pc \in [Threads -> WorkerSteps] /\ locked \in BOOLEAN
      /\ lock_owner \in Threads \cup {NULL} /\ NULL \notin Threads
      /\ OwnershipInv /\ OwnershipInv' /\ StatesFit
  BY DEF MutexInv, MutexTypeOK, NULL, Threads
<1>2. \A u \in Threads : pc[u] \in HandingSteps => Owns(u)
  BY <1>1 DEF StatesFit, HandingSteps, Owns, OwnerSteps
<1>3. \A u \in Threads : pc[u] \in HandingSteps => locked /\ lock_owner = u
  BY <1>1, <1>2 DEF OwnershipInv
<1>4. CASE TestLocked(t) \/ TestOwner(t, "readGlobal") \/ CheckLocked(t, "loop")
           \/ CheckOwner(t, "loop")
  <2>1. /\ pc[t] \notin HandingSteps \cup {"setOwner"} /\ pc'[t] \notin HandingSteps \cup {"setOwner"}
        /\ \A u \in Threads \ {t} : pc'[u] = pc[u] /\ next'[u] = next[u]
        /\ UNCHANGED <<locked, lock_owner>>
    BY <1>1, <1>4 DEF TestLocked, TestOwner, CheckLocked, CheckOwner, Goto, Executes,
       HandingSteps, locals, mutexVars, ownVars
  <2> QED
    BY <2>1, LockStutters
<1>5. CASE KeepLocked(t)
  <2>1. /\ pc[t] = "keepLocked" /\ pc'[t] = "wake" /\ locked'
        /\ \A u \in Threads \ {t} : pc'[u] = pc[u] /\ next'[u] = next[u]
        /\ UNCHANGED lock_owner
    BY <1>1, <1>5 DEF KeepLocked, Goto, Executes, locals
  <2>2. locked
    BY <1>1, <2>1 DEF OwnershipInv, Gives
  <2> QED
    BY <1>1, <2>1, <2>2, LockStutters DEF HandingSteps
<1>6. CASE SetLocked(t)
  <2>1. /\ pc[t] = "setLocked" /\ pc'[t] = "setOwner" /\ locked'
        /\ \A u \in Threads \ {t} : pc'[u] = pc[u]
    BY <1>1, <1>6 DEF SetLocked, Goto, Executes
  <2>2. ~locked
    BY <1>1, <2>1 DEF OwnershipInv
  <2>3. Holder = NULL /\ Holder' = t
    BY <1>1, <2>1, <2>2, HolderIs, HolderIsNext
  <2>4. WaitingLine' = WaitingLine
    BY <1>3, <2>1, <2>2, LineAlone DEF HandingSteps
  <2> QED
    BY <2>1, <2>3, <2>4 DEF HolderInv, Fifo!Acquire
<1>7. CASE SetOwner(t, "readGlobal")
  <2>1. /\ pc[t] = "setOwner" /\ pc'[t] = "readGlobal" /\ locked' = locked /\ lock_owner' = t
        /\ \A u \in Threads \ {t} : pc'[u] = pc[u]
    BY <1>1, <1>7 DEF SetOwner, Goto, Executes
  <2>2. locked /\ lock_owner = NULL
    BY <1>1, <2>1 DEF OwnershipInv
  <2>3. Holder = t /\ Holder' = t
    BY <1>1, <2>1, <2>2, HolderIs, HolderIsNext
  <2>4. WaitingLine' = WaitingLine
    BY <1>1, <1>3, <2>1, <2>2, LineAlone DEF HandingSteps
  <2> QED
    BY <1>1, <2>1, <2>3, <2>4 DEF HolderInv
<1>8. CASE ClearLocked(t)
  <2>1. /\ pc[t] = "clearLocked" /\ pc'[t] = "clearOwner" /\ locked' = FALSE
        /\ \A u \in Threads \ {t} : pc'[u] = pc[u]
    BY <1>1, <1>8 DEF ClearLocked, Goto, Executes
  <2>2. Owns(t)
    BY <1>1, <2>1 DEF StatesFit, Owns, OwnerSteps
  <2>3. locked /\ lock_owner = t /\ Line(TheMutex) = << >>
    BY <1>1, <2>1, <2>2 DEF OwnershipInv, SleepInv
  <2>4. Holder = t /\ Holder' = NULL
    BY <1>1, <2>1, <2>3, HolderIs, HolderIsNext
  <2>5. WaitingLine = << >> /\ WaitingLine' = << >>
    BY <1>3, <2>1, <2>3, LineAlone DEF HandingSteps
  <2> QED
    BY <2>1, <2>4, <2>5 DEF HolderInv, Fifo!Release
<1>9. CASE ClearOwner(t, "loop")
  <2>1. /\ pc[t] = "clearOwner" /\ pc'[t] = "loop" /\ locked' = locked
        /\ \A u \in Threads \ {t} : pc'[u] = pc[u]
    BY <1>1, <1>9 DEF ClearOwner, Goto, Executes
  <2>2. ~locked
    BY <1>1, <2>1 DEF OwnershipInv
  <2>3. Holder = NULL /\ Holder' = NULL
    BY <1>1, <2>1, <2>2, HolderIs, HolderIsNext
  <2>4. WaitingLine' = WaitingLine
    BY <1>3, <2>1, <2>2, LineAlone DEF HandingSteps
  <2> QED
    BY <2>1, <2>2, <2>3, <2>4 DEF HolderInv
<1>10. CASE GiveOwner(t)
  <2>1. /\ pc[t] = "giveOwner" /\ pc'[t] = "keepLocked" /\ locked' = locked
        /\ lock_owner' = next[t]
        /\ \A u \in Threads \ {t} : pc'[u] = pc[u]
    BY <1>1, <1>10 DEF GiveOwner, Goto, Executes
  <2>2. locked /\ lock_owner = t
    BY <1>3, <2>1 DEF HandingSteps
  <2>3. next[t] \in Threads /\ WaitingLine = <<next[t]>> \o Line(TheMutex)
    BY <2>1, LineIs DEF HandingSteps
  <2>4. Holder = t /\ Holder' = next[t]
    BY <1>1, <2>1, <2>2, <2>3, HolderIs, HolderIsNext
  <2>5. WaitingLine' = Line(TheMutex)
    <3>1. \A u \in Threads : pc'[u] \notin HandingSteps
      BY <1>3, <2>1, <2>2 DEF HandingSteps
    <3> QED
      BY <3>1, LineIsNext
  <2>6. WaitingLine # << >> /\ Head(WaitingLine) = next[t] /\ Tail(WaitingLine) = Line(TheMutex)
    BY <2>3, LineFacts, HandedLine
  <2>7. Fifo!Release(t)
    BY <2>4, <2>5, <2>6 DEF Fifo!Release
  <2>8. HolderInv'
    BY <1>1, <2>1, <2>3 DEF HolderInv
  <2> QED
    BY <2>7, <2>8
<1> QED
  BY <1>4, <1>5, <1>6, <1>7, <1>8, <1>9, <1>10 DEF OwningOf

\* A thread that queues up is the last one in line, and is not there yet.
LEMMA JoiningRefines ==
    ASSUME MutexInv, MutexInv', SleepInv, HolderInv, NEW t \in Threads, Joining(t),
           UNCHANGED ownVars
    PROVE  HolderInv' /\ Fifo!QueueUp(t)
<1>1. /\ pc[t] \in {"setHead", "linkTail"} /\ pc'[t] = "setTail" /\ cpu = Thread(t)
      /\ \A u \in Threads \ {t} : pc'[u] = pc[u]
      /\ UNCHANGED <<locked, lock_owner, next>>
      /\ Line(TheMutex)' = Append(Line(TheMutex), t)
      /\ NULL \notin Threads /\ lock_owner \in Threads \cup {NULL}
  BY DEF Joining, SetHead, LinkTail, Goto, Executes, ownVars, locals, MutexInv, MutexTypeOK,
     NULL, Threads
<1>2. locked /\ OwnershipInv /\ OwnershipInv' /\ tstate[t] # "BLOCKED"
  BY <1>1 DEF SleepInv, QueueUpSteps, MutexInv, StatesFit
<1>3. Line(TheMutex) \in Seq(Threads) /\ QueueInv(Line(TheMutex))
  BY LineFacts
<1>4. \A k \in DOMAIN Line(TheMutex) : Line(TheMutex)[k] # t
  BY <1>1, <1>2, <1>3 DEF QueueInv, LineInv, Joins
<1>5. HolderInv'
  BY <1>1 DEF HolderInv
<1>6. Holder \notin {NULL, t} /\ Holder' = Holder
  <2>1. CASE lock_owner # NULL
    <3>1. lock_owner # t
      BY <1>1, <1>2, <1>3, <2>1 DEF OwnershipInv, Owns, OwnerSteps, Gives, QueueInv, DequeueInv,
         TakenSteps
    <3> QED
      BY <1>1, <1>2, <2>1, <3>1, HolderIs, HolderIsNext
  <2>2. CASE lock_owner = NULL
    <3>1. PICK u \in Threads : pc[u] = "setOwner"
      BY <1>2, <2>2 DEF HolderInv
    <3> QED
      BY <1>1, <1>2, <3>1, HolderIs, HolderIsNext
  <2> QED
    BY <2>1, <2>2
<1>7. CASE \A u \in Threads : pc[u] \notin HandingSteps
  <2>1. WaitingLine = Line(TheMutex)
    BY <1>7, LineIs
  <2>2. WaitingLine' = Line(TheMutex)'
    <3>1. \A u \in Threads : pc'[u] \notin HandingSteps
      BY <1>1, <1>7 DEF HandingSteps
    <3> QED
      BY <3>1, LineIsNext
  <2> QED
    BY <1>1, <1>4, <1>5, <1>6, <2>1, <2>2 DEF Fifo!QueueUp
<1>8. CASE \E u \in Threads : pc[u] \in HandingSteps
  <2>1. PICK u \in Threads : pc[u] \in HandingSteps
    BY <1>8
  <2>2. next[u] \in Threads /\ WaitingLine = <<next[u]>> \o Line(TheMutex)
    BY <2>1, LineIs
  <2>3. u # t
    BY <1>1, <2>1 DEF HandingSteps
  <2>4. WaitingLine' = <<next[u]>> \o Append(Line(TheMutex), t)
    BY <1>1, <2>1, <2>3, LineIsNext
  <2>5. t # next[u]
    BY <1>2, <1>3, <2>1 DEF QueueInv, DequeueInv, HandingSteps, TakenSteps
  <2>6. WaitingLine' = Append(WaitingLine, t)
        /\ \A k \in DOMAIN WaitingLine : WaitingLine[k] # t
    BY <1>3, <1>4, <2>2, <2>4, <2>5, HandedLine
  <2> QED
    BY <1>5, <1>6, <2>6 DEF Fifo!QueueUp
<1> QED
  BY <1>7, <1>8

\* The first one in line counts as waiting until it has been given the mutex.
LEMMA TakingStutters ==
    ASSUME MutexInv, MutexInv', HolderInv, NEW t \in Threads, Taking(t), UNCHANGED ownVars
    PROVE  HolderInv' /\ UNCHANGED <<Holder, WaitingLine>>
<1>1. /\ pc[t] = "setNewHead" /\ pc'[t] \in {"clearTail", "clearNext"}
      /\ \A u \in Threads \ {t} : pc'[u] = pc[u]
      /\ UNCHANGED <<locked, lock_owner, next>>
      /\ Line(TheMutex) # << >> /\ next[t] = Line(TheMutex)[1]
      /\ Line(TheMutex)' = Tail(Line(TheMutex))
      /\ t # NULL
  BY DEF Taking, SetNewHead, Goto, Executes, ownVars, MutexInv, MutexTypeOK, NULL, Threads
<1>2. Owns(t)
  BY <1>1 DEF MutexInv, StatesFit, Owns, OwnerSteps
<1>3. locked /\ lock_owner = t /\ OwnershipInv /\ OwnershipInv'
  BY <1>2 DEF MutexInv, OwnershipInv
<1>4. UNCHANGED Holder
  BY <1>1, <1>3, HolderIs, HolderIsNext
<1>5. WaitingLine = Line(TheMutex)
  <2>1. \A u \in Threads : pc[u] \notin HandingSteps
    BY <1>1, <1>2, OwnerIsAlone DEF HandingSteps, TakenSteps
  <2> QED
    BY <2>1, LineIs
<1>6. WaitingLine' = <<next[t]>> \o Tail(Line(TheMutex))
  BY <1>1, LineIsNext DEF HandingSteps
<1>7. <<next[t]>> \o Tail(Line(TheMutex)) = Line(TheMutex)
  BY <1>1, LineFacts, HandedLine
<1> QED
  BY <1>1, <1>3, <1>4, <1>5, <1>6, <1>7 DEF HolderInv

\* Until a window is hit, every step of the mutex is one of the lock its header
\* comment promises.
THEOREM MutexImplementsFifoLock == Spec => ImplementsFifoLock
<1>1. Init => HolderInv /\ Fifo!Init
  <2>1. ASSUME Init PROVE HolderInv /\ Holder = NULL /\ WaitingLine = << >>
    <3>1. locked = FALSE /\ pc = [t \in Threads |-> "loop"] /\ MutexInv
      BY <2>1, InitMutexInv DEF Init, MutexInit
    <3>2. SleepInv
      BY <2>1, InitSleepInv
    <3>3. Holder = NULL /\ WaitingLine = << >>
      BY <3>1, <3>2, HolderIs, LineIs DEF MutexInv, SleepInv, HandingSteps
    <3> QED
      BY <3>1, <3>3 DEF HolderInv
  <2> QED
    BY <2>1 DEF Fifo!Init
<1>2. ASSUME MutexInv, MutexInv', SleepInv, HolderInv, [Next]_vars, ~struck'
      PROVE  HolderInv' /\ [Fifo!Next]_(Fifo!lockVars)
  <2>1. CASE StartStep
    BY <1>2, <2>1, StartStutters DEF Fifo!lockVars
  <2>2. CASE ~StartStep /\ (BootStep \/ Tick \/ Shell \/ UNCHANGED vars)
    BY <1>2, <2>2, OthersStutter DEF Fifo!lockVars
  <2>3. CASE \E t \in Threads : Worker(t) \/ GoneYield(t)
    <3>1. PICK t \in Threads : Worker(t) \/ GoneYield(t)
      BY <2>3
    <3>2. \/ Joining(t) /\ UNCHANGED ownVars
          \/ Taking(t) /\ UNCHANGED ownVars
          \/ BodyOf(t) /\ Line(TheMutex)' = Line(TheMutex)
          \/ OwningOf(t) /\ Line(TheMutex)' = Line(TheMutex)
          \/ QueueingOf(t) /\ UNCHANGED ownVars /\ Line(TheMutex)' = Line(TheMutex)
      BY <1>2, <3>1, WorkerCases
    <3>3. HolderInv' /\ \/ Fifo!Acquire(t) \/ Fifo!QueueUp(t) \/ Fifo!Release(t)
                        \/ UNCHANGED <<Holder, WaitingLine>>
      BY <1>2, <3>2, JoiningRefines, TakingStutters, BodyStutters, OwningRefines,
         QueueingStutters
    <3> QED
      BY <3>3 DEF Fifo!Next, Fifo!lockVars
  <2> QED
    BY <1>2, <2>1, <2>2, <2>3 DEF Next
<1> DEFINE Inv == struck \/ (MutexInv /\ SleepInv)
           HInv == struck \/ HolderInv
<1>3. Inv /\ Inv' /\ HInv /\ [Next]_vars =>
         HInv' /\ [struck' \/ Fifo!Next]_(Fifo!lockVars)
  BY <1>2, StruckStays
<1>4. Spec => []Inv
  BY SleepInvariant
<1>5. Init => HInv
  BY <1>1
<1> HIDE DEF Inv, HInv
<1> QED
  BY <1>1, <1>3, <1>4, <1>5, PTL DEF Spec, ImplementsFifoLock
=============================================================================
