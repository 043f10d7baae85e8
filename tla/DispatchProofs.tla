--------------------------- MODULE DispatchProofs ---------------------------
(***************************************************************************)
(* Scheduler implements Dispatch, for any number of slots: every step of   *)
(* the tables, the run queues and scheduler_irq is a step of the abstract  *)
(* dispatcher, or leaves what it sees alone.                               *)
(***************************************************************************)
EXTENDS SchedulerProofs

\* The status of each context, read from its table entry.
StatusFacts ==
    /\ ContextStatus = [c \in Contexts |-> ContextStatus[c]]
    /\ ContextStatus[Boot] = BootStatus
    /\ \A p \in Processes : ContextStatus[Process(p)] = ProcessStatus(p)
    /\ \A t \in Threads : ContextStatus[Thread(t)] = ThreadStatus(t)

LEMMA StatusOfEntry == StatusFacts
<1> USE ContextsDiffer
<1>1. ContextStatus = [c \in Contexts |-> ContextStatus[c]]
  BY DEF ContextStatus
<1>2. ContextStatus[Boot] = BootStatus
  BY DEF ContextStatus
<1>3. ASSUME NEW p \in Processes PROVE ContextStatus[Process(p)] = ProcessStatus(p)
  BY DEF ContextStatus
<1>4. ASSUME NEW t \in Threads PROVE ContextStatus[Thread(t)] = ThreadStatus(t)
  BY DEF ContextStatus
<1>5. QED BY <1>1, <1>2, <1>3, <1>4 DEF StatusFacts

LEMMA StatusOfEntryNext == StatusFacts'
BY StatusOfEntry, PTL

\* A step after which c has status s and every other context its old one.
LEMMA StatusUpdate ==
    ASSUME NEW c \in Contexts, NEW s,
           \A d \in Contexts :
              ContextStatus'[d] = IF d = c THEN s ELSE ContextStatus[d]
    PROVE  ContextStatus' = [ContextStatus EXCEPT ![c] = s]
BY StatusOfEntry, StatusOfEntryNext DEF StatusFacts

\* A step that changes at most the state of process p.
LEMMA ProcessChange ==
    ASSUME NEW p \in Processes,
           UNCHANGED <<cpu, tstate>>,
           \A q \in Processes \ {p} : pid'[q] = pid[q] /\ pstate'[q] = pstate[q]
    PROVE  ContextStatus' = [ContextStatus EXCEPT ![Process(p)] = ProcessStatus(p)']
<1> SUFFICES ASSUME NEW d \in Contexts
             PROVE  ContextStatus'[d] = IF d = Process(p) THEN ProcessStatus(p)'
                                        ELSE ContextStatus[d]
  BY ContextsDiffer, StatusUpdate
<1> USE ContextsDiffer, StatusOfEntry, StatusOfEntryNext DEF StatusFacts
<1>1. CASE d = Boot
  BY <1>1 DEF BootStatus
<1>2. ASSUME NEW q \in Processes, d = Process(q)
      PROVE  ContextStatus'[d] = IF d = Process(p) THEN ProcessStatus(p)'
                                 ELSE ContextStatus[d]
  <2>1. CASE q = p
    BY <1>2, <2>1
  <2>2. CASE q # p
    <3>1. d # Process(p)
      BY <1>2, <2>2
    <3>2. ProcessStatus(q)' = ProcessStatus(q)
      BY <2>2 DEF ProcessStatus
    <3>3. QED BY <1>2, <3>1, <3>2
  <2>3. QED BY <2>1, <2>2
<1>3. ASSUME NEW t \in Threads, d = Thread(t)
      PROVE  d # Process(p) /\ ContextStatus'[d] = ContextStatus[d]
  <2>1. ThreadStatus(t)' = ThreadStatus(t)
    BY DEF ThreadStatus
  <2>2. QED BY <1>3, <2>1
<1>4. QED BY <1>1, <1>2, <1>3

\* A step that changes at most the state of thread t.
LEMMA ThreadChange ==
    ASSUME NEW t \in Threads,
           UNCHANGED <<cpu, pid, pstate>>,
           \A u \in Threads \ {t} : tstate'[u] = tstate[u]
    PROVE  ContextStatus' = [ContextStatus EXCEPT ![Thread(t)] = ThreadStatus(t)']
<1> SUFFICES ASSUME NEW d \in Contexts
             PROVE  ContextStatus'[d] = IF d = Thread(t) THEN ThreadStatus(t)'
                                        ELSE ContextStatus[d]
  BY ContextsDiffer, StatusUpdate
<1> USE ContextsDiffer, StatusOfEntry, StatusOfEntryNext DEF StatusFacts
<1>1. CASE d = Boot
  BY <1>1 DEF BootStatus
<1>2. ASSUME NEW u \in Threads, d = Thread(u)
      PROVE  ContextStatus'[d] = IF d = Thread(t) THEN ThreadStatus(t)'
                                 ELSE ContextStatus[d]
  <2>1. CASE u = t
    BY <1>2, <2>1
  <2>2. CASE u # t
    <3>1. d # Thread(t)
      BY <1>2, <2>2
    <3>2. ThreadStatus(u)' = ThreadStatus(u)
      BY <2>2 DEF ThreadStatus
    <3>3. QED BY <1>2, <3>1, <3>2
  <2>3. QED BY <2>1, <2>2
<1>3. ASSUME NEW p \in Processes, d = Process(p)
      PROVE  d # Thread(t) /\ ContextStatus'[d] = ContextStatus[d]
  <2>1. ProcessStatus(p)' = ProcessStatus(p)
    BY DEF ProcessStatus
  <2>2. QED BY <1>3, <2>1
<1>4. QED BY <1>1, <1>2, <1>3
\* What scheduler_irq does is a switch to a ready context.
LEMMA IrqSwitches ==
    ASSUME IInv, TimerIrq \/ SchedulerYield
    PROVE  \E c \in Contexts : Dispatcher!Switch(c)
<1> USE ContextsDiffer, SavedState, StatusOfEntry, StatusOfEntryNext
<1> DEFINE P == Dispatcher!Preempted
<1>1. SchedulerIrq /\ interrupts /\ pid' = pid /\ cpu \in Contexts
      /\ pstate \in [Processes -> ProcessStates] /\ tstate \in [Threads -> ThreadStates]
  BY IrqStep, IrqLeavesQueues
  DEF IInv, BootOrder, TimerIrq, SchedulerYield, SchedulerTypeOK
<1>2. P = [c \in Contexts |-> P[c]]
  BY DEF Dispatcher!Preempted, StatusFacts
<1>3. \A c \in Contexts : P[c] =
         IF c = cpu /\ ContextStatus[c] = "running"
         THEN IF c = Boot THEN "dead" ELSE "ready" ELSE ContextStatus[c]
  BY <1>1, StatusOfEntry DEF Dispatcher!Preempted, StatusFacts
<1>4. P[Boot] = "dead"
  BY <1>3 DEF StatusFacts, BootStatus
<1>5. \A p \in Processes : P[Process(p)] =
         IF ProcessStatus(p) = "running" THEN "ready" ELSE ProcessStatus(p)
  <2> SUFFICES ASSUME NEW p \in Processes
               PROVE  P[Process(p)] = IF ProcessStatus(p) = "running" THEN "ready"
                                      ELSE ProcessStatus(p)
    OBVIOUS
  <2>1. ProcessStatus(p) = "running" => cpu = Process(p)
    BY DEF ProcessStatus, IInv, OnlyCpuRuns
  <2>2. Process(p) \in Contexts /\ Process(p) # Boot
        /\ ContextStatus[Process(p)] = ProcessStatus(p)
    BY DEF StatusFacts
  <2> HIDE DEF P
  <2>3. QED BY <1>3, <2>1, <2>2
<1>6. \A t \in Threads : P[Thread(t)] =
         IF ThreadStatus(t) = "running" THEN "ready" ELSE ThreadStatus(t)
  <2> SUFFICES ASSUME NEW t \in Threads
               PROVE  P[Thread(t)] = IF ThreadStatus(t) = "running" THEN "ready"
                                     ELSE ThreadStatus(t)
    OBVIOUS
  <2>1. ThreadStatus(t) = "running" => cpu = Thread(t)
    BY <1>1 DEF ThreadStatus, IInv, OnlyCpuRuns, ThreadStates
  <2>2. Thread(t) \in Contexts /\ Thread(t) # Boot
        /\ ContextStatus[Thread(t)] = ThreadStatus(t)
    BY DEF StatusFacts
  <2> HIDE DEF P
  <2>3. QED BY <1>3, <2>1, <2>2
<1> HIDE DEF P
<1>7. ASSUME NEW c \in Contexts, cpu' = c, P[c] = "ready",
             \A d \in Contexts :
                ContextStatus'[d] = IF d = c THEN "running" ELSE P[d]
      PROVE  Dispatcher!Switch(c)
  <2>1. ContextStatus' = [P EXCEPT ![c] = "running"]
    BY <1>2, <1>7 DEF StatusFacts
  <2>2. QED BY <1>7, <2>1 DEF Dispatcher!Switch, P
<1>8. ASSUME NEW t \in Threads, RunThread(t) PROVE Dispatcher!Switch(Thread(t))
  <2>1. SavedTstate[t] = "READY" /\ tstate[t] # "UNUSED"
    BY <1>8 DEF RunThread, NextThread, IsFirstReady
  <2>2. /\ cpu' = Thread(t)
        /\ \A u \in Threads : tstate'[u] = IF u = t THEN "RUNNING" ELSE
              IF tstate[u] = "RUNNING" THEN "READY" ELSE tstate[u]
        /\ \A p \in Processes : pstate'[p] =
              IF pstate[p] = "RUNNING" THEN "READY" ELSE pstate[p]
    BY <1>8, <2>1 DEF RunThread
  <2>3. P[Thread(t)] = "ready"
    BY <1>6, <2>1 DEF ThreadStatus
  <2>4. \A u \in Threads : ThreadStatus(u)' =
           IF u = t THEN "running" ELSE P[Thread(u)]
    BY <1>1, <1>6, <2>2 DEF ThreadStatus, ThreadStates
  <2>5. \A p \in Processes : ProcessStatus(p)' = P[Process(p)]
    BY <1>1, <1>5, <2>2 DEF ProcessStatus, ProcessStates
  <2>6. \A d \in Contexts :
           ContextStatus'[d] = IF d = Thread(t) THEN "running" ELSE P[d]
    BY <1>4, <2>2, <2>4, <2>5 DEF StatusFacts, BootStatus
  <2>7. QED BY <1>7, <2>2, <2>3, <2>6
<1>9. ASSUME NEW p \in Processes, RunProcess(p) PROVE Dispatcher!Switch(Process(p))
  <2>1. SavedPstate[p] = "READY" /\ pid[p] # 0
    BY <1>9 DEF RunProcess, NextProcess, IsFirstReady, IInv, BootOrder
  <2>2. /\ cpu' = Process(p)
        /\ \A t \in Threads : tstate'[t] =
              IF tstate[t] = "RUNNING" THEN "READY" ELSE tstate[t]
        /\ \A q \in Processes : pstate'[q] = IF q = p THEN "RUNNING" ELSE
              IF pstate[q] = "RUNNING" THEN "READY" ELSE pstate[q]
    BY <1>9, <2>1 DEF RunProcess
  <2>3. P[Process(p)] = "ready"
    BY <1>5, <2>1 DEF ProcessStatus
  <2>4. \A t \in Threads : ThreadStatus(t)' = P[Thread(t)]
    BY <1>1, <1>6, <2>2 DEF ThreadStatus, ThreadStates
  <2>5. \A q \in Processes : ProcessStatus(q)' =
           IF q = p THEN "running" ELSE P[Process(q)]
    BY <1>1, <1>5, <2>1, <2>2 DEF ProcessStatus, ProcessStates
  <2>6. \A d \in Contexts :
           ContextStatus'[d] = IF d = Process(p) THEN "running" ELSE P[d]
    BY <1>4, <2>2, <2>4, <2>5 DEF StatusFacts, BootStatus
  <2>7. QED BY <1>7, <2>2, <2>3, <2>6
<1>10. ~ContinueCurrent
  BY <1>1, SomeProcessIsReady DEF ContinueCurrent
<1>11. QED BY <1>1, <1>8, <1>9, <1>10 DEF SchedulerIrq

\* The calls of the running context and the boot code.
LEMMA CallsDispatch ==
    ASSUME IInv, [SchedulerNext]_schedVars, ~TimerIrq, ~SchedulerYield
    PROVE  [Dispatcher!Next]_<<ContextStatus, cpu>>
<1> USE ContextsDiffer, StatusOfEntry DEF IInv, SchedulerTypeOK
<1>1. cpu' = cpu
  BY DEF SchedulerNext, ProcCreate, ProcKill, SchedulerStart, AllocThread,
         UnblockThread, LinkThread, CloseRing, ThreadExit, ProcExit, BlockThread,
         schedVars, dispatchVars
<1>2. CASE UNCHANGED <<pid, pstate, tstate>>
  BY <1>1, <1>2 DEF ContextStatus, BootStatus, ProcessStatus, ThreadStatus
<1>3. CASE \E p \in Processes : ProcCreate(p)
  <2>1. PICK p \in Processes : ProcCreate(p)
    BY <1>3
  <2>2. tstate' = tstate /\ ProcessStatus(p) = "free" /\ ProcessStatus(p)' = "ready"
    BY <2>1 DEF ProcCreate, ProcessStatus, threadVars, BootOrder
  <2>3. ContextStatus' = [ContextStatus EXCEPT ![Process(p)] = "ready"]
    BY <1>1, <2>1, <2>2, ProcessChange DEF ProcCreate
  <2>4. Dispatcher!Create(Process(p))
    BY <1>1, <2>2, <2>3 DEF Dispatcher!Create, StatusFacts
  <2>5. QED BY <2>4 DEF Dispatcher!Next
<1>4. CASE \E t \in Threads : AllocThread(t)
  <2>1. PICK t \in Threads : AllocThread(t)
    BY <1>4
  <2>2. pid' = pid /\ pstate' = pstate /\ ThreadStatus(t) = "free"
        /\ ThreadStatus(t)' = "ready"
    BY <2>1 DEF AllocThread, Unused, ThreadStatus, processVars
  <2>3. ContextStatus' = [ContextStatus EXCEPT ![Thread(t)] = "ready"]
    BY <1>1, <2>1, <2>2, ThreadChange DEF AllocThread
  <2>4. Dispatcher!Create(Thread(t))
    BY <1>1, <2>2, <2>3 DEF Dispatcher!Create, StatusFacts
  <2>5. QED BY <2>4 DEF Dispatcher!Next
<1>5. CASE ThreadExit \/ BlockThread
  <2>1. /\ current_thread \in Threads /\ cpu = Thread(current_thread)
        /\ current_thread' = current_thread
        /\ ThreadStatus(current_thread) = "running"
    BY <1>5, Caller DEF ThreadExit, BlockThread, dispatchVars, ThreadStatus
  <2>2. /\ pid' = pid /\ pstate' = pstate
        /\ \/ tstate' = [tstate EXCEPT ![current_thread] = "TERMINATED"]
           \/ tstate' = [tstate EXCEPT ![current_thread] = "BLOCKED"]
    BY <1>5 DEF ThreadExit, BlockThread, processVars
  <2> DEFINE t == current_thread
             s == ThreadStatus(t)'
  <2>3. /\ \A u \in Threads \ {t} : tstate'[u] = tstate[u]
        /\ s \in {"dead", "waiting"}
    BY <2>1, <2>2 DEF ThreadStatus
  <2>4. ContextStatus' = [ContextStatus EXCEPT ![Thread(t)] = s]
    <3> SUFFICES ASSUME NEW u \in Threads, u = t
                 PROVE  ContextStatus' =
                           [ContextStatus EXCEPT ![Thread(u)] = ThreadStatus(u)']
      BY <2>1
    <3>1. QED BY <1>1, <2>1, <2>2, <2>3, ThreadChange
  <2> HIDE DEF s
  <2>5. Dispatcher!Leave("dead") \/ Dispatcher!Leave("waiting")
    BY <1>1, <2>1, <2>3, <2>4 DEF Dispatcher!Leave, StatusFacts
  <2>6. QED BY <2>5 DEF Dispatcher!Next
<1>6. CASE ProcExit
  <2>1. /\ current_proc \in Processes /\ cpu = Process(current_proc)
        /\ current_proc' = current_proc /\ pid[current_proc] # 0
        /\ ProcessStatus(current_proc) = "running"
    BY <1>6, Caller DEF ProcExit, dispatchVars, ProcessStatus, BootOrder
  <2>2. /\ pid' = pid /\ tstate' = tstate
        /\ pstate' = [pstate EXCEPT ![current_proc] = "ZOMBIE"]
    BY <1>6 DEF ProcExit, threadVars
  <2> DEFINE p == current_proc
  <2>3. /\ \A q \in Processes \ {p} : pstate'[q] = pstate[q]
        /\ ProcessStatus(p)' = "dead"
    BY <2>1, <2>2 DEF ProcessStatus
  <2>4. ContextStatus' = [ContextStatus EXCEPT ![Process(p)] = "dead"]
    <3> SUFFICES ASSUME NEW q \in Processes, q = p
                 PROVE  ContextStatus' =
                           [ContextStatus EXCEPT ![Process(q)] = ProcessStatus(q)']
      BY <2>1, <2>3
    <3>1. QED BY <1>1, <2>1, <2>2, <2>3, ProcessChange
  <2>5. Dispatcher!Leave("dead")
    BY <1>1, <2>1, <2>4 DEF Dispatcher!Leave, StatusFacts
  <2>6. QED BY <2>5 DEF Dispatcher!Next
<1>7. CASE \E t \in Threads : UnblockThread(t)
  <2>1. PICK t \in Threads : UnblockThread(t)
    BY <1>7
  <2>2. CASE tstate[t] # "BLOCKED"
    BY <1>2, <2>1, <2>2 DEF UnblockThread, Wakes, processVars
  <2>3. CASE tstate[t] = "BLOCKED"
    <3>1. /\ pid' = pid /\ pstate' = pstate
          /\ \A u \in Threads \ {t} : tstate'[u] = tstate[u]
          /\ ThreadStatus(t) = "waiting" /\ ThreadStatus(t)' = "ready"
      BY <2>1, <2>3 DEF UnblockThread, Wakes, processVars, ThreadStatus
    <3>2. ContextStatus[cpu] = "running"
      <4>1. /\ current_thread \in Threads /\ cpu = Thread(current_thread)
            /\ tstate[current_thread] = "RUNNING"
        BY <2>1, Caller DEF UnblockThread
      <4>2. QED BY <4>1 DEF StatusFacts, ThreadStatus
    <3>3. ContextStatus' = [ContextStatus EXCEPT ![Thread(t)] = "ready"]
      BY <1>1, <3>1, ThreadChange
    <3>4. Dispatcher!Wake(Thread(t))
      BY <1>1, <3>1, <3>2, <3>3 DEF Dispatcher!Wake, StatusFacts
    <3>5. QED BY <3>4 DEF Dispatcher!Next
  <2>4. QED BY <2>2, <2>3
<1>8. CASE \E p \in Processes : ProcKill(p)
  <2>1. PICK p \in Processes : ProcKill(p)
    BY <1>8
  <2>2. CASE pstate[p] = "ZOMBIE"
    <3>1. UNCHANGED <<pid, pstate, tstate>>
      BY <2>1, <2>2 DEF ProcKill, threadVars
    <3>2. QED BY <1>2, <3>1
  <2>3. CASE pstate[p] # "ZOMBIE"
    <3>1. cpu # Process(p)
      BY <2>1 DEF ProcKill, Killable, ShellRuns
    <3>2. pstate[p] = "READY" /\ pid[p] # 0
      BY <2>3, <3>1 DEF OnlyCpuRuns, BootOrder, ProcessStates
    <3>3. /\ pid' = pid /\ tstate' = tstate
          /\ \A q \in Processes \ {p} : pstate'[q] = pstate[q]
          /\ ProcessStatus(p) = "ready" /\ ProcessStatus(p)' = "dead"
      BY <2>1, <3>2 DEF ProcKill, threadVars, ProcessStatus
    <3>4. ContextStatus' = [ContextStatus EXCEPT ![Process(p)] = "dead"]
      BY <1>1, <3>3, ProcessChange
    <3>5. Dispatcher!Kill(Process(p))
      BY <1>1, <3>1, <3>3, <3>4 DEF Dispatcher!Kill, StatusFacts
    <3>6. QED BY <3>5 DEF Dispatcher!Next
  <2>4. QED BY <2>2, <2>3
<1>9. CASE SchedulerStart \/ LinkThread \/ CloseRing \/ UNCHANGED schedVars
  BY <1>2, <1>9
  DEF SchedulerStart, LinkThread, CloseRing, schedVars, processVars, threadVars
<1>10. QED
  BY <1>3, <1>4, <1>5, <1>6, <1>7, <1>8, <1>9 DEF SchedulerNext

\* The tables, the run queues and scheduler_irq implement the abstract
\* dispatcher.
THEOREM SchedulerImplementsDispatch == SchedulerSpec => ImplementsDispatch
<1>1. SchedulerInit => Dispatcher!Init
  <2> SUFFICES ASSUME SchedulerInit PROVE Dispatcher!Init
    OBVIOUS
  <2>1. /\ BootStatus = "running"
        /\ \A p \in Processes : ProcessStatus(p) = "free"
        /\ \A t \in Threads : ThreadStatus(t) = "free"
    BY DEF SchedulerInit, BootStatus, ProcessStatus, ThreadStatus
  <2>2. \A c \in Contexts :
           ContextStatus[c] = IF c = Boot THEN "running" ELSE "free"
    BY <2>1, ContextsDiffer, StatusOfEntry DEF StatusFacts
  <2>3. QED BY <2>2, StatusOfEntry DEF Dispatcher!Init, StatusFacts, SchedulerInit
<1>2. IInv /\ [SchedulerNext]_schedVars => [Dispatcher!Next]_<<ContextStatus, cpu>>
  <2> SUFFICES ASSUME IInv, [SchedulerNext]_schedVars
               PROVE  [Dispatcher!Next]_<<ContextStatus, cpu>>
    OBVIOUS
  <2>1. CASE TimerIrq \/ SchedulerYield
    BY <2>1, IrqSwitches DEF Dispatcher!Next
  <2>2. CASE ~TimerIrq /\ ~SchedulerYield
    BY <2>2, CallsDispatch
  <2>3. QED BY <2>1, <2>2
<1>3. QED
  BY <1>1, <1>2, IInvHolds, PTL
  DEF SchedulerSpec, ImplementsDispatch, Dispatcher!Spec, Dispatcher!dispatchVars
=============================================================================
