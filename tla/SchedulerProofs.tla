-------------------------- MODULE SchedulerProofs --------------------------
(***************************************************************************)
(* Proofs about Scheduler, for any number of process and thread slots and  *)
(* any number of boot processes.                                           *)
(***************************************************************************)
EXTENDS Scheduler, SequenceTheorems, TLAPS

-----------------------------------------------------------------------------
(* Contexts and run queues.                                                *)

\* The three kinds of context are disjoint and a context determines its slot.
LEMMA ContextsDiffer ==
    /\ \A p \in Processes :
          /\ Process(p) \in Contexts
          /\ Process(p) # Boot
          /\ Process(p).kind = "PROCESS" /\ Process(p).slot = p
    /\ \A t \in Threads :
          /\ Thread(t) \in Contexts
          /\ Thread(t) # Boot
          /\ Thread(t).kind = "THREAD" /\ Thread(t).slot = t
    /\ Boot \in Contexts /\ Boot.kind = "NONE"
    /\ \A c \in Contexts : \/ c = Boot
                           \/ \E p \in Processes : c = Process(p)
                           \/ \E t \in Threads : c = Thread(t)
BY DEF Process, Thread, Boot, Contexts

\* A closed ring is visited completely: find_next_* reaches its first entry
\* wherever it starts from.
LEMMA VisitReachesHead ==
    ASSUME NEW S, NEW ring \in Seq(S), Len(ring) > 0,
           NEW cur, cur = NULL \/ InRing(ring, cur)
    PROVE  \E k \in DOMAIN Visit(ring, cur, FALSE) :
              Visit(ring, cur, FALSE)[k] = ring[1]
<1> DEFINE i == Position(ring, cur)
           rest == SubSeq(ring, i + 1, Len(ring))
           front == SubSeq(ring, 1, i)
<1>1. i \in 0..Len(ring)
  BY DEF Position, InRing
<1>2. Visit(ring, cur, FALSE) = rest \o front
  BY DEF Visit
<1>3. /\ rest \in Seq(S) /\ Len(rest) = Len(ring) - i
      /\ \A k \in 1..(Len(ring) - i) : rest[k] = ring[i + k]
  BY <1>1, SubSeqProperties
<1>4. /\ front \in Seq(S) /\ Len(front) = i
      /\ \A k \in 1..i : front[k] = ring[k]
  BY <1>1, SubSeqProperties
<1> HIDE DEF i, rest, front
<1>5. CASE i = 0
  <2>1. (rest \o front)[1] = ring[1] /\ 1 \in DOMAIN (rest \o front)
    BY <1>3, <1>4, <1>5
  <2>2. QED BY <2>1, <1>2
<1>6. CASE i # 0
  <2>1. /\ (rest \o front)[Len(ring) - i + 1] = ring[1]
        /\ Len(ring) - i + 1 \in DOMAIN (rest \o front)
    BY <1>1, <1>3, <1>4, <1>6
  <2>2. QED BY <2>1, <1>2
<1>7. QED BY <1>5, <1>6
\* Linking an entry at the tail of a run queue that does not hold it yet.
LEMMA LinkAtTail ==
    ASSUME NEW S, NEW ring \in Seq(S), NEW x \in S
    PROVE  /\ Append(ring, x) \in Seq(S)
           /\ Len(Append(ring, x)) = Len(ring) + 1
           /\ Append(ring, x)[Len(ring) + 1] = x
           /\ \A k \in 1..Len(ring) : Append(ring, x)[k] = ring[k]
           /\ DOMAIN Append(ring, x) = 1..(Len(ring) + 1)
           /\ \A y : InRing(Append(ring, x), y) <=> InRing(ring, y) \/ y = x
           /\ NoRepeats(ring) /\ ~InRing(ring, x) => NoRepeats(Append(ring, x))
<1> DEFINE longer == Append(ring, x)
<1>1. /\ longer \in Seq(S)
      /\ Len(ring) \in Nat /\ Len(longer) = Len(ring) + 1
      /\ longer[Len(ring) + 1] = x
      /\ \A k \in 1..Len(ring) : longer[k] = ring[k]
      /\ DOMAIN longer = 1..(Len(ring) + 1)
      /\ DOMAIN ring = 1..Len(ring)
  OBVIOUS
<1> HIDE DEF longer
<1>2. ASSUME NEW y PROVE InRing(longer, y) <=> InRing(ring, y) \/ y = x
  BY <1>1 DEF InRing
<1>3. ASSUME NoRepeats(ring), ~InRing(ring, x)
      PROVE  NoRepeats(longer)
  <2> SUFFICES ASSUME NEW j \in 1..(Len(ring) + 1), NEW k \in 1..(Len(ring) + 1),
                      longer[j] = longer[k]
               PROVE  j = k
    BY <1>1 DEF NoRepeats
  <2>1. CASE j \in 1..Len(ring) /\ k \in 1..Len(ring)
    BY <1>1, <1>3, <2>1 DEF NoRepeats
  <2>2. CASE j = Len(ring) + 1 \/ k = Len(ring) + 1
    BY <1>1, <1>3, <2>2 DEF InRing
  <2>3. QED BY <1>1, <2>1, <2>2
<1>4. QED BY <1>1, <1>2, <1>3 DEF longer

-----------------------------------------------------------------------------
(* The inductive invariant: the checked invariants, and what ties them to  *)
(* the boot sequence, the run queues and the creation under way.           *)

\* Processes are created in pid order, all of them before interrupts are on;
\* until then the boot context has the CPU.
BootOrder ==
    /\ next_pid = Len(procRing) + 1
    /\ \A k \in DOMAIN procRing : pid[procRing[k]] = k
    /\ interrupts => Len(procRing) = BootProcesses
    /\ ~interrupts => cpu = Boot
    /\ \A p \in Processes : pid[p] = 0 => pstate[p] = "ZOMBIE"

\* The queue positions scheduler_irq resumes its search from.
CurrentIsQueued == current # NULL => pid[current] # 0

\* A thread_create under way: which of its parts has run.
CreationOrder ==
    /\ tailOpen => newThread # NULL /\ InRing(threadRing, newThread)
    /\ ~tailOpen /\ newThread # NULL => ~InRing(threadRing, newThread)

IInv ==
    /\ SchedulerTypeOK
    /\ BooksMatchCpu
    /\ FramesAreOwn
    /\ OnlyCpuRuns
    /\ RingsHoldEverything
    /\ ShellIsAlive
    /\ BootOrder
    /\ CurrentIsQueued
    /\ CreationOrder

\* The initial state satisfies the inductive invariant.
LEMMA InitIInv == SchedulerInit => IInv
<1> SUFFICES ASSUME SchedulerInit PROVE IInv
  OBVIOUS
<1> USE ContextsDiffer, SchedulerAssumption DEF SchedulerInit
<1>1. SchedulerTypeOK
  <2>1. /\ pid \in [Processes -> Nat]
        /\ pstate \in [Processes -> ProcessStates]
        /\ pesp \in [Processes -> Contexts]
        /\ tstate \in [Threads -> ThreadStates]
        /\ owner \in [Threads -> Processes \cup {NULL}]
        /\ tesp \in [Threads -> Contexts]
    BY DEF ProcessStates, ThreadStates
  <2>2. procRing \in Seq(Processes) /\ threadRing \in Seq(Threads)
    OBVIOUS
  <2>3. /\ newThread \in Threads \cup {NULL}
        /\ current \in Processes \cup {NULL}
        /\ current_sched_thread \in Threads \cup {NULL}
        /\ current_proc \in Processes \cup {NULL}
        /\ current_thread \in Threads \cup {NULL}
        /\ next_pid \in Nat
    OBVIOUS
  <2>4. /\ current_kind \in {"NONE", "PROCESS", "THREAD"}
        /\ tailOpen \in BOOLEAN /\ prefer_thread \in BOOLEAN
        /\ interrupts \in BOOLEAN /\ cpu \in Contexts
    OBVIOUS
  <2>5. QED BY <2>1, <2>2, <2>3, <2>4, Zenon DEF SchedulerTypeOK
<1>2. BooksMatchCpu /\ FramesAreOwn /\ OnlyCpuRuns
  BY DEF BooksMatchCpu, FramesAreOwn, OnlyCpuRuns
<1>3. RingsHoldEverything /\ ShellIsAlive /\ BootOrder
  BY DEF RingsHoldEverything, ShellIsAlive, BootOrder, InRing, NoRepeats, NULL,
         Threads, ShellPid
<1>4. CurrentIsQueued /\ CreationOrder
  BY DEF CurrentIsQueued, CreationOrder
<1>5. QED BY <1>1, <1>2, <1>3, <1>4 DEF IInv

\* What scheduler_irq saves: RUNNING becomes READY for the context on the
\* CPU, nothing else changes, and every frame stays its context's own.
LEMMA SavedState ==
    ASSUME IInv
    PROVE  /\ SavedPstate \in [Processes -> ProcessStates]
           /\ SavedTstate \in [Threads -> ThreadStates]
           /\ SavedPesp \in [Processes -> Contexts]
           /\ SavedTesp \in [Threads -> Contexts]
           /\ \A p \in Processes : SavedPstate[p] =
                 IF pstate[p] = "RUNNING" THEN "READY" ELSE pstate[p]
           /\ \A t \in Threads : SavedTstate[t] =
                 IF tstate[t] = "RUNNING" THEN "READY" ELSE tstate[t]
           /\ \A p \in Processes : pid[p] # 0 => SavedPesp[p] = Process(p)
           /\ \A t \in Threads : tstate[t] # "UNUSED" => SavedTesp[t] = Thread(t)
<1> USE ContextsDiffer
<1>1. /\ SavedPstate \in [Processes -> ProcessStates]
      /\ SavedTstate \in [Threads -> ThreadStates]
      /\ SavedPesp \in [Processes -> Contexts]
      /\ SavedTesp \in [Threads -> Contexts]
  BY DEF IInv, SchedulerTypeOK, SavedPstate, SavedTstate, SavedPesp, SavedTesp,
         SavesProcess, SavesThread, ProcessStates, ThreadStates, NULL
<1>2. ASSUME NEW p \in Processes
      PROVE  SavedPstate[p] = IF pstate[p] = "RUNNING" THEN "READY" ELSE pstate[p]
  <2>1. pstate[p] = "RUNNING" => current_kind = "PROCESS" /\ current = p
    BY DEF IInv, OnlyCpuRuns, BooksMatchCpu
  <2>2. QED BY <2>1 DEF IInv, SchedulerTypeOK, SavedPstate, SavesProcess, Processes, NULL
<1>3. ASSUME NEW t \in Threads
      PROVE  SavedTstate[t] = IF tstate[t] = "RUNNING" THEN "READY" ELSE tstate[t]
  <2>1. tstate[t] = "RUNNING" =>
          current_kind = "THREAD" /\ current_sched_thread = t
    BY DEF IInv, OnlyCpuRuns, BooksMatchCpu
  <2>2. QED BY <2>1 DEF IInv, SchedulerTypeOK, SavedTstate, SavesThread, Threads, NULL
<1>4. SavesProcess => cpu = Process(current)
  BY DEF IInv, SchedulerTypeOK, BooksMatchCpu, SavesProcess
<1>5. SavesThread => cpu = Thread(current_sched_thread)
  BY DEF IInv, SchedulerTypeOK, BooksMatchCpu, SavesThread
<1>6. \A p \in Processes : pid[p] # 0 => SavedPesp[p] = Process(p)
  BY <1>4 DEF IInv, SchedulerTypeOK, FramesAreOwn, SavedPesp
<1>7. \A t \in Threads : tstate[t] # "UNUSED" => SavedTesp[t] = Thread(t)
  BY <1>5 DEF IInv, SchedulerTypeOK, FramesAreOwn, SavedTesp
<1>8. QED BY <1>1, <1>2, <1>3, <1>6, <1>7

\* Whatever an interrupt interrupts, some process is runnable: the shell is.
LEMMA SomeProcessIsReady ==
    ASSUME IInv, interrupts
    PROVE  ~NoProcess
<1>1. Len(procRing) > 0 /\ procRing \in Seq(Processes) /\ 1 \in DOMAIN procRing
  BY SchedulerAssumption DEF IInv, SchedulerTypeOK, BootOrder, Processes
<1>2. procRing[1] \in Processes /\ pid[procRing[1]] = ShellPid
  BY <1>1 DEF IInv, BootOrder, ShellPid
<1>3. SavedPstate[procRing[1]] = "READY"
  BY <1>2, SavedState DEF IInv, SchedulerTypeOK, ShellIsAlive, ProcessStates
<1>4. current = NULL \/ InRing(procRing, current)
  BY DEF IInv, SchedulerTypeOK, CurrentIsQueued, RingsHoldEverything
<1>5. PICK k \in DOMAIN ProcessVisit : ProcessVisit[k] = procRing[1]
  BY <1>1, <1>4, VisitReachesHead DEF ProcessVisit
<1>6. QED BY <1>3, <1>5 DEF NoProcess, NoneReady
-----------------------------------------------------------------------------
(* Every step preserves the invariant.                                     *)

\* proc_create takes the lowest free slot and queues it last.
LEMMA ProcCreateStep ==
    ASSUME IInv, NEW p \in Processes, ProcCreate(p)
    PROVE  IInv'
<1> USE ContextsDiffer DEF IInv, SchedulerTypeOK
<1>1. UNCHANGED <<threadVars, dispatchVars, interrupts>> /\ ~interrupts
      /\ cpu = Boot /\ Len(procRing) \in Nat
  BY DEF ProcCreate, BootOrder
<1> USE <1>1 DEF threadVars, creationVars, dispatchVars
<1>2. SchedulerTypeOK'
  <2>1. pid' \in [Processes -> Nat] /\ next_pid' \in Nat
    BY DEF ProcCreate
  <2>2. pstate' \in [Processes -> ProcessStates] /\ pesp' \in [Processes -> Contexts]
    BY DEF ProcCreate, ProcessStates
  <2>3. procRing' \in Seq(Processes)
    BY DEF ProcCreate
  <2>4. QED BY <2>1, <2>2, <2>3
<1>3. /\ Len(procRing') = Len(procRing) + 1
      /\ procRing'[Len(procRing) + 1] = p
      /\ \A k \in 1..Len(procRing) : procRing'[k] = procRing[k]
      /\ DOMAIN procRing = 1..Len(procRing)
      /\ DOMAIN procRing' = 1..(Len(procRing) + 1)
      /\ \A q : InRing(procRing', q) <=> InRing(procRing, q) \/ q = p
      /\ NoRepeats(procRing) /\ ~InRing(procRing, p) => NoRepeats(procRing')
  BY LinkAtTail DEF ProcCreate
<1>4. ~InRing(procRing, p)
  BY DEF ProcCreate, RingsHoldEverything
<1>5. BooksMatchCpu'
  BY DEF BooksMatchCpu
<1>6. FramesAreOwn'
  BY DEF FramesAreOwn, ProcCreate
<1>7. OnlyCpuRuns'
  BY DEF OnlyCpuRuns, ProcCreate
<1>8. RingsHoldEverything'
  <2>1. \A q \in Processes : pid'[q] # 0 <=> InRing(procRing', q)
    <3> SUFFICES ASSUME NEW q \in Processes
                 PROVE  pid'[q] # 0 <=> InRing(procRing', q)
      OBVIOUS
    <3>1. CASE q = p
      BY <1>3, <3>1 DEF ProcCreate, BootOrder
    <3>2. CASE q # p
      BY <1>3, <3>2 DEF ProcCreate, RingsHoldEverything
    <3>3. QED BY <3>1, <3>2
  <2>2. NoRepeats(procRing')
    BY <1>3, <1>4 DEF RingsHoldEverything
  <2>3. NoRepeats(threadRing)' /\ \A t \in Threads :
          (tstate[t] # "UNUSED" <=> InRing(threadRing, t) \/ newThread = t)'
    BY DEF RingsHoldEverything, InRing, NoRepeats
  <2>4. QED BY <2>1, <2>2, <2>3 DEF RingsHoldEverything, InRing, NoRepeats
<1>9. ShellIsAlive'
  BY DEF ShellIsAlive, ProcCreate
<1>10. BootOrder'
  <2>1. \A k \in DOMAIN procRing' : pid'[procRing'[k]] = k
    <3> SUFFICES ASSUME NEW k \in 1..(Len(procRing) + 1)
                 PROVE  pid'[procRing'[k]] = k
      BY <1>3
    <3>1. CASE k = Len(procRing) + 1
      BY <1>3, <3>1 DEF ProcCreate, BootOrder
    <3>2. CASE k \in 1..Len(procRing)
      <4>1. procRing[k] \in Processes
        BY <3>2, ElementOfSeq
      <4>2. procRing[k] # p
        BY <1>3, <1>4, <3>2 DEF InRing
      <4>3. procRing'[k] = procRing[k] /\ pid[procRing[k]] = k
        BY <1>3, <3>2 DEF BootOrder
      <4>4. QED BY <4>1, <4>2, <4>3 DEF ProcCreate
    <3>3. QED BY <3>1, <3>2
  <2>2. QED BY <1>3, <2>1 DEF BootOrder, ProcCreate
<1>11. CurrentIsQueued'
  BY DEF CurrentIsQueued, ProcCreate, BootOrder
<1>12. CreationOrder'
  BY DEF CreationOrder, InRing
<1>13. QED BY <1>2, <1>5, <1>6, <1>7, <1>8, <1>9, <1>10, <1>11, <1>12

\* sti: the shell exists by now.
LEMMA SchedulerStartStep ==
    ASSUME IInv, SchedulerStart
    PROVE  IInv'
<1> USE DEF IInv, SchedulerStart, processVars, threadVars, creationVars, dispatchVars
<1>1. \E p \in Processes : pid[p] = ShellPid
  <2>1. Len(procRing) \in Nat /\ Len(procRing) > 0
        /\ DOMAIN procRing = 1..Len(procRing)
    BY SchedulerAssumption DEF SchedulerTypeOK
  <2>2. procRing[1] \in Processes
    BY <2>1, ElementOfSeq DEF SchedulerTypeOK
  <2>3. pid[procRing[1]] = ShellPid
    BY <2>1 DEF BootOrder, ShellPid
  <2>4. QED BY <2>2, <2>3
<1>2. SchedulerTypeOK' /\ BooksMatchCpu' /\ FramesAreOwn' /\ OnlyCpuRuns'
  BY DEF SchedulerTypeOK, BooksMatchCpu, FramesAreOwn, OnlyCpuRuns
<1>3. RingsHoldEverything' /\ ShellIsAlive' /\ BootOrder'
  BY <1>1 DEF RingsHoldEverything, ShellIsAlive, BootOrder, InRing, NoRepeats
<1>4. CurrentIsQueued' /\ CreationOrder'
  BY DEF CurrentIsQueued, CreationOrder, InRing
<1>5. QED BY <1>2, <1>3, <1>4
\* Run queues, tables and creation stay as they are when no entry is
\* allocated or linked.
LEMMA QueuesKept ==
    ASSUME RingsHoldEverything, CreationOrder, CurrentIsQueued,
           UNCHANGED <<pid, procRing, threadRing, tailOpen, newThread>>,
           \A t \in Threads : tstate'[t] # "UNUSED" <=> tstate[t] # "UNUSED",
           current' = NULL \/ pid[current'] # 0
    PROVE  RingsHoldEverything' /\ CreationOrder' /\ CurrentIsQueued'
BY DEF RingsHoldEverything, CreationOrder, CurrentIsQueued, InRing, NoRepeats

\* The shell stays alive when no process but another one becomes a ZOMBIE.
LEMMA ShellKept ==
    ASSUME ShellIsAlive, BootOrder,
           UNCHANGED <<pid, next_pid, procRing, interrupts>>,
           \A p \in Processes : pid[p] = ShellPid =>
              (pstate'[p] = "ZOMBIE" => pstate[p] = "ZOMBIE"),
           \A p \in Processes : pid[p] = 0 =>
              (pstate[p] = "ZOMBIE" => pstate'[p] = "ZOMBIE"),
           ~interrupts => cpu' = Boot
    PROVE  ShellIsAlive' /\ BootOrder'
BY DEF ShellIsAlive, BootOrder

\* What no interrupt touches.
LEMMA IrqLeavesQueues ==
    ASSUME IInv, SchedulerIrq
    PROVE  /\ UNCHANGED <<pid, next_pid, procRing, owner, threadRing, tailOpen,
                          newThread, interrupts>>
           /\ pesp' = SavedPesp /\ tesp' = SavedTesp
           /\ prefer_thread' = ~prefer_thread
BY DEF SchedulerIrq, NextPreference, creationVars

\* SchedulerTypeOK of the successor of an interrupt, one variable at a time.
LEMMA IrqKeepsTypes ==
    ASSUME SchedulerTypeOK,
           UNCHANGED <<pid, next_pid, procRing, owner, threadRing, tailOpen,
                       newThread, interrupts>>,
           pstate' \in [Processes -> ProcessStates],
           tstate' \in [Threads -> ThreadStates],
           pesp' \in [Processes -> Contexts], tesp' \in [Threads -> Contexts],
           current' \in Processes \cup {NULL},
           current_sched_thread' \in Threads \cup {NULL},
           current_kind' \in {"NONE", "PROCESS", "THREAD"},
           prefer_thread' \in BOOLEAN,
           current_proc' \in Processes \cup {NULL},
           current_thread' \in Threads \cup {NULL},
           cpu' \in Contexts
    PROVE  SchedulerTypeOK'
BY DEF SchedulerTypeOK

\* scheduler_irq resumes a thread.
LEMMA RunThreadStep ==
    ASSUME IInv, SchedulerIrq, interrupts, NEW t \in Threads, RunThread(t)
    PROVE  IInv' /\ StateOf(cpu)' = "RUNNING"
<1> USE ContextsDiffer, IrqLeavesQueues, SavedState
<1>1. SavedTstate[t] = "READY"
  BY DEF RunThread, NextThread, IsFirstReady
<1>2. tstate[t] # "UNUSED"
  BY <1>1
<1>3. /\ cpu' = Thread(t) /\ current_sched_thread' = t /\ current_thread' = t
      /\ current_kind' = "THREAD" /\ current_proc' = owner[t]
      /\ current' = current
      /\ pstate' = SavedPstate /\ tstate' = [SavedTstate EXCEPT ![t] = "RUNNING"]
  BY <1>2 DEF RunThread, SetBooks
<1> USE <1>3
<1>4. SchedulerTypeOK'
  <2>1. /\ tstate' \in [Threads -> ThreadStates] /\ pstate' \in [Processes -> ProcessStates]
        /\ pesp' \in [Processes -> Contexts] /\ tesp' \in [Threads -> Contexts]
    BY ONLY IInv, SchedulerIrq, <1>3, SavedState, IrqLeavesQueues
       DEF ThreadStates, ProcessStates
  <2>2. /\ current' \in Processes \cup {NULL} /\ current_proc' \in Processes \cup {NULL}
        /\ current_sched_thread' \in Threads \cup {NULL}
        /\ current_thread' \in Threads \cup {NULL}
    BY DEF IInv, SchedulerTypeOK
  <2>3. /\ current_kind' \in {"NONE", "PROCESS", "THREAD"} /\ prefer_thread' \in BOOLEAN
        /\ cpu' \in Contexts
    BY DEF IInv, SchedulerTypeOK
  <2>4. SchedulerTypeOK
    BY DEF IInv
  <2>5. QED BY ONLY <2>1, <2>2, <2>3, <2>4, IrqLeavesQueues, IrqKeepsTypes, IInv, SchedulerIrq
<1>5. BooksMatchCpu' /\ FramesAreOwn' /\ OnlyCpuRuns'
  <2>1. BooksMatchCpu'
    BY DEF BooksMatchCpu
  <2>2. FramesAreOwn'
    BY <1>2 DEF FramesAreOwn
  <2>3. OnlyCpuRuns'
    BY DEF OnlyCpuRuns
  <2>4. QED BY <2>1, <2>2, <2>3
<1>6. RingsHoldEverything' /\ CreationOrder' /\ CurrentIsQueued'
  <2>1. \A u \in Threads : tstate'[u] # "UNUSED" <=> tstate[u] # "UNUSED"
    BY <1>2
  <2>2. current' = NULL \/ pid[current'] # 0
    BY <1>2 DEF IInv, CurrentIsQueued
  <2>3. QED BY <2>1, <2>2, QueuesKept DEF IInv
<1>7. ShellIsAlive' /\ BootOrder'
  <2>1. \A q \in Processes : pstate'[q] = "ZOMBIE" <=> pstate[q] = "ZOMBIE"
    BY <1>1
  <2>2. QED BY <1>2, <2>1, ShellKept DEF IInv, BootOrder, ShellPid
<1>8. StateOf(cpu)' = "RUNNING"
  BY DEF StateOf
<1>9. QED BY <1>4, <1>5, <1>6, <1>7, <1>8 DEF IInv

\* scheduler_irq resumes a process.
LEMMA RunProcessStep ==
    ASSUME IInv, SchedulerIrq, interrupts, NEW p \in Processes, RunProcess(p)
    PROVE  IInv' /\ StateOf(cpu)' = "RUNNING"
<1> USE ContextsDiffer, IrqLeavesQueues, SavedState
<1>1. SavedPstate[p] = "READY"
  BY DEF RunProcess, NextProcess, IsFirstReady
<1>2. pid[p] # 0
  BY <1>1 DEF IInv, BootOrder
<1>3. /\ cpu' = Process(p) /\ current' = p /\ current_thread' = NULL
      /\ current_kind' = "PROCESS" /\ current_proc' = p
      /\ current_sched_thread' = current_sched_thread
      /\ tstate' = SavedTstate /\ pstate' = [SavedPstate EXCEPT ![p] = "RUNNING"]
  BY <1>2 DEF RunProcess, SetBooks
<1> USE <1>3
<1>4. SchedulerTypeOK'
  <2>1. /\ tstate' \in [Threads -> ThreadStates] /\ pstate' \in [Processes -> ProcessStates]
        /\ pesp' \in [Processes -> Contexts] /\ tesp' \in [Threads -> Contexts]
    BY ONLY IInv, SchedulerIrq, <1>3, SavedState, IrqLeavesQueues
       DEF ThreadStates, ProcessStates
  <2>2. /\ current' \in Processes \cup {NULL} /\ current_proc' \in Processes \cup {NULL}
        /\ current_sched_thread' \in Threads \cup {NULL}
        /\ current_thread' \in Threads \cup {NULL}
    BY DEF IInv, SchedulerTypeOK
  <2>3. /\ current_kind' \in {"NONE", "PROCESS", "THREAD"} /\ prefer_thread' \in BOOLEAN
        /\ cpu' \in Contexts
    BY DEF IInv, SchedulerTypeOK
  <2>4. SchedulerTypeOK
    BY DEF IInv
  <2>5. QED BY ONLY <2>1, <2>2, <2>3, <2>4, IrqLeavesQueues, IrqKeepsTypes, IInv, SchedulerIrq
<1>5. BooksMatchCpu' /\ FramesAreOwn' /\ OnlyCpuRuns'
  <2>1. BooksMatchCpu'
    BY DEF BooksMatchCpu
  <2>2. FramesAreOwn'
    BY DEF FramesAreOwn
  <2>3. OnlyCpuRuns'
    BY DEF OnlyCpuRuns
  <2>4. QED BY <2>1, <2>2, <2>3
<1>6. RingsHoldEverything' /\ CreationOrder' /\ CurrentIsQueued'
  <2>1. \A u \in Threads : tstate'[u] # "UNUSED" <=> tstate[u] # "UNUSED"
    BY <1>2
  <2>2. current' = NULL \/ pid[current'] # 0
    BY <1>2 DEF IInv, CurrentIsQueued
  <2>3. QED BY <2>1, <2>2, QueuesKept DEF IInv
<1>7. ShellIsAlive' /\ BootOrder'
  <2>1. \A q \in Processes : pstate'[q] = "ZOMBIE" <=> pstate[q] = "ZOMBIE"
    BY <1>1
  <2>2. QED BY <1>2, <2>1, ShellKept DEF IInv, BootOrder, ShellPid
<1>8. StateOf(cpu)' = "RUNNING"
  BY DEF StateOf, IInv, SchedulerTypeOK
<1>9. QED BY <1>4, <1>5, <1>6, <1>7, <1>8 DEF IInv

\* An interrupt always finds somebody to resume, and leaves it RUNNING.
LEMMA IrqStep ==
    ASSUME IInv, TimerIrq \/ SchedulerYield
    PROVE  SchedulerIrq /\ IInv' /\ StateOf(cpu)' = "RUNNING"
<1>1. SchedulerIrq /\ interrupts
  BY DEF TimerIrq, SchedulerYield, IInv, BootOrder, SchedulerTypeOK
<1>2. ~ContinueCurrent
  BY <1>1, SomeProcessIsReady DEF ContinueCurrent
<1>3. (\E t \in Threads : RunThread(t)) \/ (\E p \in Processes : RunProcess(p))
  BY <1>1, <1>2 DEF SchedulerIrq
<1>4. QED BY <1>1, <1>3, RunThreadStep, RunProcessStep
\* thread_create before it links the new entry: only that entry changes.
LEMMA AllocThreadStep ==
    ASSUME IInv, NEW t \in Threads, AllocThread(t)
    PROVE  IInv'
<1> USE ContextsDiffer DEF IInv, SchedulerTypeOK
<1>1. /\ UNCHANGED <<pid, next_pid, pstate, pesp, procRing, threadRing, tailOpen>>
      /\ UNCHANGED <<current, current_sched_thread, current_kind, prefer_thread,
                     current_proc, current_thread, cpu, interrupts>>
      /\ newThread = NULL /\ newThread' = t /\ tstate[t] = "UNUSED"
      /\ tstate' = [tstate EXCEPT ![t] = "READY"]
      /\ owner' = [owner EXCEPT ![t] = current_proc]
      /\ tesp' = [tesp EXCEPT ![t] = Thread(t)]
      /\ cpu # Thread(t)
  BY DEF AllocThread, Unused, processVars, dispatchVars, ShellRuns, ProcessRuns
<1>2. SchedulerTypeOK'
  BY <1>1 DEF ThreadStates
<1>3. BooksMatchCpu' /\ FramesAreOwn'
  BY <1>1 DEF BooksMatchCpu, FramesAreOwn
<1>4. OnlyCpuRuns'
  BY <1>1 DEF OnlyCpuRuns
<1>5. RingsHoldEverything'
  BY <1>1 DEF RingsHoldEverything, InRing, NoRepeats, Threads, NULL
<1>6. ShellIsAlive' /\ BootOrder'
  BY <1>1, ShellKept DEF BootOrder
<1>7. CurrentIsQueued' /\ CreationOrder'
  <2>1. ~InRing(threadRing, t) /\ ~tailOpen
    BY <1>1 DEF RingsHoldEverything, CreationOrder
  <2>2. QED BY <1>1, <2>1 DEF CurrentIsQueued, CreationOrder, InRing
<1>8. QED BY <1>2, <1>3, <1>4, <1>5, <1>6, <1>7

\* scheduler_add_thread, its two stores.
LEMMA LinkStep ==
    ASSUME IInv, LinkThread \/ CloseRing
    PROVE  IInv'
<1> USE DEF IInv, SchedulerTypeOK
<1>1. /\ UNCHANGED <<pid, next_pid, pstate, pesp, procRing, tstate, tesp, owner>>
      /\ UNCHANGED <<current, current_sched_thread, current_kind, prefer_thread,
                     current_proc, current_thread, cpu, interrupts>>
  BY DEF LinkThread, CloseRing, processVars, dispatchVars
<1>2. BooksMatchCpu' /\ FramesAreOwn' /\ OnlyCpuRuns'
  BY <1>1 DEF BooksMatchCpu, FramesAreOwn, OnlyCpuRuns
<1>3. ShellIsAlive' /\ BootOrder'
  BY <1>1, ShellKept DEF BootOrder
<1>4. CASE LinkThread
  <2>1. /\ newThread \in Threads /\ newThread' = newThread /\ tailOpen'
        /\ threadRing' = Append(threadRing, newThread)
        /\ ~InRing(threadRing, newThread)
    BY <1>4 DEF LinkThread, CreationOrder
  <2>2. /\ threadRing' \in Seq(Threads)
        /\ NoRepeats(threadRing')
        /\ \A t : InRing(threadRing', t) <=> InRing(threadRing, t) \/ t = newThread
    BY <2>1, LinkAtTail DEF RingsHoldEverything
  <2>3. SchedulerTypeOK'
    BY <1>1, <2>1, <2>2 DEF LinkThread
  <2>4. RingsHoldEverything'
    <3>1. NoRepeats(procRing)' /\ \A p \in Processes :
            (pid[p] # 0 <=> InRing(procRing, p))'
      BY <1>1 DEF RingsHoldEverything, InRing, NoRepeats
    <3>2. \A t \in Threads :
            tstate[t] # "UNUSED" <=> InRing(threadRing', t) \/ newThread = t
      BY <2>2 DEF RingsHoldEverything
    <3>3. QED BY <1>1, <2>1, <2>2, <3>1, <3>2 DEF RingsHoldEverything, InRing, NoRepeats
  <2>5. CurrentIsQueued'
    BY <1>1 DEF CurrentIsQueued
  <2>6. CreationOrder'
    <3>1. InRing(threadRing', newThread')
      BY <2>1, <2>2
    <3>2. QED BY <2>1, <3>1 DEF CreationOrder, InRing, Threads, NULL
  <2>7. QED BY <1>2, <1>3, <2>3, <2>4, <2>5, <2>6
<1>5. CASE CloseRing
  <2>1. /\ tailOpen /\ ~tailOpen' /\ newThread' = NULL /\ threadRing' = threadRing
        /\ InRing(threadRing, newThread)
    BY <1>5 DEF CloseRing, CreationOrder
  <2>2. SchedulerTypeOK'
    BY <1>1, <1>5, <2>1 DEF CloseRing
  <2>3. RingsHoldEverything'
    BY <1>1, <2>1 DEF RingsHoldEverything, InRing, NoRepeats, Threads, NULL
  <2>4. CurrentIsQueued' /\ CreationOrder'
    BY <1>1, <2>1 DEF CurrentIsQueued, CreationOrder
  <2>5. QED BY <1>2, <1>3, <2>2, <2>3, <2>4
<1>6. QED BY <1>4, <1>5

\* The books identify the caller of an operation.
LEMMA Caller ==
    ASSUME IInv
    PROVE  /\ ProcessRuns => /\ current_proc \in Processes
                             /\ cpu = Process(current_proc) /\ cpu.slot = current_proc
                             /\ pstate[current_proc] = "RUNNING"
           /\ ThreadRuns => /\ current_thread \in Threads
                            /\ cpu = Thread(current_thread)
                            /\ tstate[current_thread] = "RUNNING"
<1>1. \/ cpu = Boot
      \/ \E p \in Processes : cpu = Process(p)
      \/ \E t \in Threads : cpu = Thread(t)
  BY ContextsDiffer DEF IInv, SchedulerTypeOK
<1>2. CASE cpu = Boot
  BY <1>2, ContextsDiffer DEF ProcessRuns, ThreadRuns
<1>3. ASSUME NEW p \in Processes, cpu = Process(p)
      PROVE  /\ ~ThreadRuns
             /\ ProcessRuns => pstate[p] = "RUNNING"
             /\ current_proc = p /\ cpu.slot = p
  BY <1>3, ContextsDiffer DEF IInv, BooksMatchCpu, ProcessRuns, ThreadRuns, StateOf
<1>4. ASSUME NEW t \in Threads, cpu = Thread(t)
      PROVE  /\ ~ProcessRuns
             /\ ThreadRuns => tstate[t] = "RUNNING"
             /\ current_thread = t
  BY <1>4, ContextsDiffer DEF IInv, BooksMatchCpu, ProcessRuns, ThreadRuns, StateOf
<1>5. QED BY <1>1, <1>2, <1>3, <1>4

\* Calls that change one entry's state and nothing else: thread_exit,
\* proc_exit, proc_kill, blocking and unblocking.
StateChange ==
    \/ ThreadExit \/ ProcExit \/ BlockThread
    \/ \E t \in Threads : UnblockThread(t)
    \/ \E p \in Processes : ProcKill(p)

LEMMA StateChangeStep ==
    ASSUME IInv, StateChange
    PROVE  IInv'
<1> USE ContextsDiffer DEF IInv
<1>1. /\ UNCHANGED <<pid, next_pid, pesp, procRing, tesp, owner, threadRing,
                     tailOpen, newThread>>
      /\ UNCHANGED <<current, current_sched_thread, current_kind, prefer_thread,
                     current_proc, current_thread, cpu, interrupts>>
  BY DEF StateChange, ThreadExit, ProcExit, BlockThread, UnblockThread, ProcKill,
         processVars, threadVars, creationVars, dispatchVars
<1>2. /\ pstate' \in [Processes -> ProcessStates]
      /\ \A p \in Processes : pstate'[p] = "RUNNING" => pstate[p] = "RUNNING"
      /\ \A p \in Processes : pstate[p] = "ZOMBIE" => pstate'[p] = "ZOMBIE"
      /\ \A p \in Processes : pid[p] = ShellPid => pstate'[p] = pstate[p]
  <2>1. CASE pstate' = pstate
    BY <2>1 DEF SchedulerTypeOK
  <2>2. CASE ProcExit
    <3>1. /\ current_proc = cpu.slot /\ current_proc \in Processes
          /\ pid[current_proc] # ShellPid
          /\ pstate' = [pstate EXCEPT ![current_proc] = "ZOMBIE"]
      BY <2>2, Caller DEF ProcExit, ShellRuns
    <3>2. QED BY <3>1 DEF SchedulerTypeOK, ProcessStates
  <2>3. CASE \E p \in Processes : ProcKill(p)
    BY <2>3 DEF ProcKill, Killable, SchedulerTypeOK, ProcessStates
  <2>4. QED
    BY <2>1, <2>2, <2>3
    DEF StateChange, ThreadExit, BlockThread, UnblockThread, processVars
<1>3. /\ tstate' \in [Threads -> ThreadStates]
      /\ \A t \in Threads : tstate'[t] = "RUNNING" => tstate[t] = "RUNNING"
      /\ \A t \in Threads : tstate[t] = "TERMINATED" => tstate'[t] = "TERMINATED"
      /\ \A t \in Threads : tstate'[t] # "UNUSED" <=> tstate[t] # "UNUSED"
  <2>1. CASE tstate' = tstate
    BY <2>1 DEF SchedulerTypeOK
  <2>2. CASE ThreadExit \/ BlockThread
    <3>1. current_thread \in Threads /\ tstate[current_thread] = "RUNNING"
      BY <2>2, Caller DEF ThreadExit, BlockThread
    <3>2. \/ tstate' = [tstate EXCEPT ![current_thread] = "TERMINATED"]
          \/ tstate' = [tstate EXCEPT ![current_thread] = "BLOCKED"]
      BY <2>2 DEF ThreadExit, BlockThread
    <3>3. QED BY <3>1, <3>2 DEF SchedulerTypeOK, ThreadStates
  <2>3. CASE \E t \in Threads : UnblockThread(t)
    BY <2>3 DEF UnblockThread, Wakes, SchedulerTypeOK, ThreadStates
  <2>4. QED
    BY <2>1, <2>2, <2>3 DEF StateChange, ProcExit, ProcKill, threadVars
<1>4. SchedulerTypeOK'
  BY <1>1, <1>2, <1>3 DEF SchedulerTypeOK
<1>5. BooksMatchCpu' /\ FramesAreOwn' /\ OnlyCpuRuns'
  BY <1>1, <1>2, <1>3 DEF BooksMatchCpu, FramesAreOwn, OnlyCpuRuns
<1>6. RingsHoldEverything' /\ CreationOrder' /\ CurrentIsQueued'
  BY <1>1, <1>3, QueuesKept DEF CurrentIsQueued
<1>7. ShellIsAlive' /\ BootOrder'
  BY <1>1, <1>2, ShellKept DEF BootOrder
<1>8. QED BY <1>4, <1>5, <1>6, <1>7

-----------------------------------------------------------------------------
(* The theorems.                                                           *)

\* The invariant is inductive.
LEMMA NextIInv == IInv /\ [SchedulerNext]_schedVars => IInv'
<1> SUFFICES ASSUME IInv, [SchedulerNext]_schedVars PROVE IInv'
  OBVIOUS
<1>1. CASE UNCHANGED schedVars
  BY <1>1
  DEF IInv, SchedulerTypeOK, BooksMatchCpu, FramesAreOwn, OnlyCpuRuns,
      RingsHoldEverything, ShellIsAlive, BootOrder, CurrentIsQueued, CreationOrder,
      InRing, NoRepeats, schedVars, processVars, threadVars, creationVars,
      dispatchVars
<1>2. CASE \E p \in Processes : ProcCreate(p)
  BY <1>2, ProcCreateStep
<1>3. CASE SchedulerStart
  BY <1>3, SchedulerStartStep
<1>4. CASE TimerIrq \/ SchedulerYield
  BY <1>4, IrqStep
<1>5. CASE \E t \in Threads : AllocThread(t)
  BY <1>5, AllocThreadStep
<1>6. CASE LinkThread \/ CloseRing
  BY <1>6, LinkStep
<1>7. CASE StateChange
  BY <1>7, StateChangeStep
<1>8. QED
  BY <1>1, <1>2, <1>3, <1>4, <1>5, <1>6, <1>7 DEF SchedulerNext, StateChange

LEMMA IInvHolds == SchedulerSpec => []IInv
BY InitIInv, NextIInv, PTL DEF SchedulerSpec

\* Every variable keeps its type.
THEOREM TypeCorrect == SchedulerSpec => []SchedulerTypeOK
BY IInvHolds, PTL DEF IInv

\* thread_current(), proc_current() and the save slot always name the context
\* that really executes.
THEOREM BooksAreRight == SchedulerSpec => []BooksMatchCpu
BY IInvHolds, PTL DEF IInv

\* No table entry ever holds another context's stack pointer.
THEOREM FramesNeverMix == SchedulerSpec => []FramesAreOwn
BY IInvHolds, PTL DEF IInv

\* Only the context on the CPU is RUNNING.
THEOREM OneRuns == SchedulerSpec => []OnlyCpuRuns
BY IInvHolds, PTL DEF IInv

\* The run queues hold each allocated entry once.
THEOREM QueuesAreComplete == SchedulerSpec => []RingsHoldEverything
BY IInvHolds, PTL DEF IInv

\* The shell is never killed.
THEOREM ShellSurvives == SchedulerSpec => []ShellIsAlive
BY IInvHolds, PTL DEF IInv

\* An interrupt returns to a context that may run: no blocked, terminated or
\* killed context continues past its yield.
THEOREM YieldIsFinal == SchedulerSpec => IrqLandsOnRunnable
<1>1. ASSUME IInv, [SchedulerNext]_schedVars, prefer_thread' # prefer_thread
      PROVE  StateOf(cpu)' = "RUNNING"
  <2>1. TimerIrq \/ SchedulerYield
    BY <1>1
    DEF SchedulerNext, ProcCreate, ProcKill, SchedulerStart, AllocThread,
        UnblockThread, LinkThread, CloseRing, ThreadExit, ProcExit, BlockThread,
        schedVars, dispatchVars
  <2>2. QED BY <1>1, <2>1, IrqStep
<1>2. IInv /\ [SchedulerNext]_schedVars
        => [prefer_thread' # prefer_thread => StateOf(cpu)' = "RUNNING"]_schedVars
  BY <1>1
<1>3. QED BY <1>2, IInvHolds, PTL DEF SchedulerSpec, IrqLandsOnRunnable
\* TERMINATED and ZOMBIE are final.
THEOREM DeadNeverReturn == SchedulerSpec => DeadStaysDead
<1> DEFINE Final == /\ \A t \in Threads :
                          tstate[t] = "TERMINATED" => tstate'[t] = "TERMINATED"
                    /\ \A p \in Processes :
                          pid[p] # 0 /\ pstate[p] = "ZOMBIE" => pstate'[p] = "ZOMBIE"
<1>1. ASSUME IInv, [SchedulerNext]_schedVars PROVE [Final]_schedVars
  <2> SUFFICES ASSUME SchedulerNext PROVE Final
    BY <1>1
  <2> USE <1>1 DEF IInv, SchedulerTypeOK
  <2>1. CASE \E p \in Processes : ProcCreate(p)
    BY <2>1 DEF ProcCreate, threadVars
  <2>2. CASE SchedulerStart \/ LinkThread \/ CloseRing
    BY <2>2 DEF SchedulerStart, LinkThread, CloseRing, processVars, threadVars
  <2>3. CASE TimerIrq \/ SchedulerYield
    <3>1. SchedulerIrq /\ interrupts
      BY <2>3, IrqStep DEF BootOrder, TimerIrq, SchedulerYield
    <3>2. CASE \E t \in Threads : RunThread(t)
      BY <3>2, SavedState DEF RunThread, NextThread, IsFirstReady
    <3>3. CASE \E p \in Processes : RunProcess(p)
      BY <3>3, SavedState DEF RunProcess, NextProcess, IsFirstReady
    <3>4. ~ContinueCurrent
      BY <3>1, SomeProcessIsReady DEF ContinueCurrent
    <3>5. QED BY <3>1, <3>2, <3>3, <3>4 DEF SchedulerIrq
  <2>4. CASE \E t \in Threads : AllocThread(t)
    BY <2>4 DEF AllocThread, Unused, processVars
  <2>5. CASE StateChange
    <3>1. CASE ThreadExit \/ BlockThread
      BY <3>1, Caller DEF ThreadExit, BlockThread, processVars
    <3>2. CASE ProcExit
      BY <3>2, Caller DEF ProcExit, threadVars
    <3>3. CASE \E t \in Threads : UnblockThread(t)
      BY <3>3 DEF UnblockThread, Wakes, processVars
    <3>4. CASE \E p \in Processes : ProcKill(p)
      BY <3>4 DEF ProcKill, threadVars
    <3>5. QED BY <2>5, <3>1, <3>2, <3>3, <3>4 DEF StateChange
  <2>6. QED BY <2>1, <2>2, <2>3, <2>4, <2>5 DEF SchedulerNext, StateChange
<1>2. IInv /\ [SchedulerNext]_schedVars => [Final]_schedVars
  BY <1>1
<1>3. QED BY <1>2, IInvHolds, PTL DEF SchedulerSpec, DeadStaysDead

-----------------------------------------------------------------------------
(* What the demonstrations need to know of the scheduler.                  *)

LEMMA OneOnCpu ==
    ASSUME NEW t \in Threads, NEW u \in Threads, cpu = Thread(t), cpu = Thread(u)
    PROVE  t = u
BY DEF Thread

\* An interrupt moves the CPU to a context that runs; no thread falls asleep,
\* wakes up, begins or ends by it.
LEMMA IrqEffect ==
    ASSUME IInv, TimerIrq \/ SchedulerYield
    PROVE  /\ IInv'
           /\ \A t \in Threads : cpu' = Thread(t) => tstate'[t] = "RUNNING"
           /\ \A t \in Threads : /\ tstate'[t] = "BLOCKED" <=> tstate[t] = "BLOCKED"
                                 /\ tstate'[t] = "UNUSED" <=> tstate[t] = "UNUSED"
<1>1. SchedulerIrq /\ IInv' /\ StateOf(cpu)' = "RUNNING"
  BY IrqStep
<1>2. ASSUME NEW t \in Threads, cpu' = Thread(t) PROVE tstate'[t] = "RUNNING"
  BY <1>1, <1>2, ContextsDiffer DEF StateOf
<1>3. interrupts
  BY DEF TimerIrq, SchedulerYield, IInv, BootOrder, SchedulerTypeOK
<1>4. ~ContinueCurrent
  BY <1>3, SomeProcessIsReady DEF ContinueCurrent
<1>5. CASE \E t \in Threads : RunThread(t)
  <2>1. PICK t \in Threads : RunThread(t)
    BY <1>5
  <2>2. SavedTstate[t] = "READY" /\ tstate' = [SavedTstate EXCEPT ![t] = "RUNNING"]
    BY <2>1 DEF RunThread, NextThread, IsFirstReady
  <2> QED
    BY <1>1, <1>2, <2>2, SavedState
<1>6. CASE \E p \in Processes : RunProcess(p)
  <2>1. tstate' = SavedTstate
    BY <1>6 DEF RunProcess
  <2> QED
    BY <1>1, <1>2, <2>1, SavedState
<1> QED
  BY <1>1, <1>4, <1>5, <1>6 DEF SchedulerIrq

\* A step that leaves the scheduler alone leaves its invariant alone.
LEMMA SchedulerKept ==
    ASSUME IInv, UNCHANGED schedVars
    PROVE  IInv'
BY NextIInv

\* The threads whose state a call changes, beside the scheduler's invariant.
LEMMA CallEffect ==
    ASSUME IInv, NEW t \in Threads, cpu = Thread(t)
    PROVE  /\ BlockThread => /\ IInv' /\ tstate' = [tstate EXCEPT ![t] = "BLOCKED"]
                             /\ UNCHANGED cpu
           /\ ThreadExit => /\ IInv' /\ tstate' = [tstate EXCEPT ![t] = "TERMINATED"]
                            /\ UNCHANGED cpu
           /\ \A u \in Threads : UnblockThread(u) =>
                /\ IInv' /\ UNCHANGED cpu
                /\ tstate' = IF tstate[u] = "BLOCKED" THEN [tstate EXCEPT ![u] = "READY"]
                             ELSE tstate
<1>1. current_thread = t
  BY DEF IInv, BooksMatchCpu
<1>2. BlockThread \/ ThreadExit \/ (\E u \in Threads : UnblockThread(u)) => IInv'
  BY StateChangeStep DEF StateChange
<1> QED
  BY <1>1, <1>2 DEF BlockThread, ThreadExit, UnblockThread, Wakes, dispatchVars
=============================================================================
