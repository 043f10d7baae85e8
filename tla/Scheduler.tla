----------------------------- MODULE Scheduler -----------------------------
(***************************************************************************)
(* The execution contexts of the kernel and the code that multiplexes one  *)
(* CPU among them: the process table (process.c), the thread table         *)
(* (thread.c), the two circular run queues and the interrupt handler       *)
(* scheduler_irq (scheduler.c), entered by IRQ0 or by "int 0x20"           *)
(* (switch.asm).                                                           *)
(*                                                                         *)
(* The programs that run in the contexts are not part of this module: it   *)
(* lets a context that may execute call any operation it is allowed to.    *)
(* Modules that model a program EXTEND this one and use its operations.    *)
(***************************************************************************)
EXTENDS Naturals, Sequences

CONSTANTS MaxProcesses,     \* MAX_PROCESSES, slots of pcb_table
          MaxThreads,       \* MAX_THREADS, slots of thread_table
          BootProcesses     \* proc_create calls kernel_main makes

ASSUME SchedulerAssumption ==
    /\ MaxProcesses \in Nat
    /\ MaxThreads \in Nat
    /\ BootProcesses \in 1..MaxProcesses

NULL      == 0
Processes == 1..MaxProcesses
Threads   == 1..MaxThreads
ShellPid  == 1

\* An execution context: a stack with the saved registers on top of it.
Boot       == [kind |-> "NONE", slot |-> NULL]
Process(p) == [kind |-> "PROCESS", slot |-> p]
Thread(t)  == [kind |-> "THREAD", slot |-> t]
Contexts   == {Boot} \cup {Process(p) : p \in Processes}
                     \cup {Thread(t) : t \in Threads}

\* PROC_STATE_BLOCKED is never assigned.
ProcessStates == {"READY", "RUNNING", "ZOMBIE"}
ThreadStates  == {"UNUSED", "READY", "RUNNING", "BLOCKED", "TERMINATED"}

VARIABLES
    pid,                  \* pcb_table[p].pid, 0 in a free slot
    next_pid,
    pstate,               \* pcb_table[p].state
    pesp,                 \* the context whose frame pcb_table[p].esp points to
    procRing,             \* the circular list from ready_head, as a sequence
    tstate,               \* thread_table[t].state
    owner,                \* thread_table[t].owner
    tesp,                 \* the context whose frame thread_table[t].esp points to
    threadRing,           \* the circular list from thread_head, as a sequence
    tailOpen,             \* the last thread is linked, its own next is still 0
    newThread,            \* local `thread` of a thread_create under way
    current,
    current_sched_thread,
    current_kind,
    prefer_thread,
    current_proc,         \* what proc_current() returns
    current_thread,       \* what thread_current() returns
    interrupts,           \* scheduler_start has executed sti
    cpu                   \* the context whose stack the CPU really is on

processVars == <<pid, next_pid, pstate, pesp, procRing>>
creationVars == <<owner, threadRing, tailOpen, newThread>>
threadVars == <<tstate, tesp, creationVars>>
dispatchVars == <<current, current_sched_thread, current_kind, prefer_thread,
                  current_proc, current_thread, cpu>>
schedVars == <<processVars, threadVars, dispatchVars, interrupts>>

InRing(ring, x) == \E k \in DOMAIN ring : ring[k] = x
NoRepeats(ring) == \A j, k \in DOMAIN ring : ring[j] = ring[k] => j = k

SchedulerInit ==
    /\ pid = [p \in Processes |-> 0]
    /\ next_pid = 1
    /\ pstate = [p \in Processes |-> "ZOMBIE"]
    /\ pesp = [p \in Processes |-> Boot]        \* esp = 0, no frame yet
    /\ procRing = << >>
    /\ tstate = [t \in Threads |-> "UNUSED"]
    /\ owner = [t \in Threads |-> NULL]
    /\ tesp = [t \in Threads |-> Boot]
    /\ threadRing = << >>
    /\ tailOpen = FALSE
    /\ newThread = NULL
    /\ current = NULL
    /\ current_sched_thread = NULL
    /\ current_kind = "NONE"
    /\ prefer_thread = FALSE
    /\ current_proc = NULL
    /\ current_thread = NULL
    /\ interrupts = FALSE
    /\ cpu = Boot

-----------------------------------------------------------------------------
(* Boot: kernel_main creates the processes with interrupts off, then sti.  *)

ProcCreate(p) ==
    /\ ~interrupts
    /\ Len(procRing) < BootProcesses
    /\ pid[p] = 0
    /\ \A q \in 1..(p - 1) : pid[q] # 0
    /\ pid' = [pid EXCEPT ![p] = next_pid]
    /\ next_pid' = next_pid + 1
    /\ pstate' = [pstate EXCEPT ![p] = "READY"]
    /\ pesp' = [pesp EXCEPT ![p] = Process(p)]
    /\ procRing' = Append(procRing, p)
    /\ UNCHANGED <<threadVars, dispatchVars, interrupts>>

SchedulerStart ==
    /\ ~interrupts
    /\ Len(procRing) = BootProcesses
    /\ interrupts' = TRUE
    /\ UNCHANGED <<processVars, threadVars, dispatchVars>>

-----------------------------------------------------------------------------
(* scheduler_irq: an interrupt gate, so it is atomic on this single CPU.   *)

\* Saving the interrupted context: its frame, and RUNNING becomes READY.
SavesProcess == current_kind = "PROCESS" /\ current # NULL
SavesThreadAlways == current_sched_thread # NULL    \* mutation: no kind test
SavesThread  == current_kind = "THREAD" /\ current_sched_thread # NULL

SavedPesp == IF SavesProcess THEN [pesp EXCEPT ![current] = cpu] ELSE pesp
SavedTesp ==
    IF SavesThread THEN [tesp EXCEPT ![current_sched_thread] = cpu] ELSE tesp

\* Mutations: the interrupted process waits, or stays RUNNING, instead of
\* becoming READY.
SavedPstateKept == pstate
SavedPstateBlocked ==
    IF SavesProcess THEN [pstate EXCEPT ![current] = "BLOCKED"] ELSE pstate
SavedPstate ==
    IF SavesProcess /\ pstate[current] = "RUNNING"
    THEN [pstate EXCEPT ![current] = "READY"] ELSE pstate
\* Mutations: the interrupted thread stays RUNNING; a thread that has left
\* the RUNNING state becomes READY as well.
SavedTstateKept == tstate
SavedTstateRevived ==
    IF SavesThread THEN [tstate EXCEPT ![current_sched_thread] = "READY"] ELSE tstate
SavedTstate ==
    IF SavesThread /\ tstate[current_sched_thread] = "RUNNING"
    THEN [tstate EXCEPT ![current_sched_thread] = "READY"] ELSE tstate

\* The order in which find_next_* visits a ring: once around from the
\* successor of cur, or from the head; an open tail ends the walk early.
PositionHead(ring, cur) == 0    \* mutation: every walk starts at the head
Position(ring, cur) ==
    IF cur = NULL THEN 0 ELSE CHOOSE k \in DOMAIN ring : ring[k] = cur
Visit(ring, cur, open) ==
    SubSeq(ring, Position(ring, cur) + 1, Len(ring))
      \o (IF open THEN << >> ELSE SubSeq(ring, 1, Position(ring, cur)))

IsFirstReady(x, visit, state) ==
    \E k \in DOMAIN visit :
       /\ visit[k] = x
       /\ state[x] = "READY"
       /\ \A j \in 1..(k - 1) : state[visit[j]] # "READY"
NoneReady(visit, state) == \A k \in DOMAIN visit : state[visit[k]] # "READY"

ProcessVisit == Visit(procRing, current, FALSE)
ThreadVisit  == Visit(threadRing, current_sched_thread, tailOpen)

NextProcess(p) == IsFirstReady(p, ProcessVisit, SavedPstate)
NextThread(t)  == IsFirstReady(t, ThreadVisit, SavedTstate)
NoProcess      == NoneReady(ProcessVisit, SavedPstate)
NoThread       == NoneReady(ThreadVisit, SavedTstate)

\* proc_set_current and thread_set_current, and the kind of context.
\* Mutation: thread_current() survives the switch to a process.
SetBooksKeepThread(kind, proc, thread) ==
    /\ current_kind' = kind
    /\ current_proc' = proc
    /\ current_thread' = IF thread = NULL THEN current_thread ELSE thread
SetBooks(kind, proc, thread) ==
    /\ current_kind' = kind
    /\ current_proc' = proc
    /\ current_thread' = thread

RunThread(t) ==
    /\ NextThread(t)
    /\ prefer_thread \/ NoProcess
    /\ current_sched_thread' = t
    /\ tstate' = [SavedTstate EXCEPT ![t] = "RUNNING"]
    /\ SetBooks("THREAD", owner[t], t)
    /\ cpu' = SavedTesp[t]
    /\ pstate' = SavedPstate
    /\ UNCHANGED current

RunProcess(p) ==
    /\ NextProcess(p)
    /\ ~prefer_thread \/ NoThread
    /\ current' = p
    /\ pstate' = [SavedPstate EXCEPT ![p] = "RUNNING"]
    /\ SetBooks("PROCESS", p, NULL)
    /\ cpu' = SavedPesp[p]
    /\ tstate' = SavedTstate
    /\ UNCHANGED current_sched_thread

\* Nobody is runnable: the handler returns to the interrupted context.
ContinueCurrent ==
    /\ NoThread
    /\ NoProcess
    /\ pstate' = SavedPstate
    /\ tstate' = SavedTstate
    /\ UNCHANGED <<current, current_sched_thread, current_kind,
                   current_thread, current_proc, cpu>>

\* prefer_thread = !prefer_thread.  Mutation: it is left as it was.
SamePreference == prefer_thread
NextPreference == ~prefer_thread

SchedulerIrq ==
    /\ pesp' = SavedPesp
    /\ tesp' = SavedTesp
    /\ prefer_thread' = NextPreference
    /\ \/ \E t \in Threads : RunThread(t)
       \/ \E p \in Processes : RunProcess(p)
       \/ ContinueCurrent
    /\ UNCHANGED <<pid, next_pid, procRing, creationVars, interrupts>>

TimerIrq == interrupts /\ SchedulerIrq

\* "int 0x20", executed by a process or a thread, whatever state it has
\* put itself in: kernel_main never yields.
SchedulerYield == cpu # Boot /\ SchedulerIrq

-----------------------------------------------------------------------------
(* What the running context may call.  A context that has left the RUNNING *)
(* state is about to execute the yield of the function it is in, so it     *)
(* calls nothing else.                                                     *)

StateOf(c) ==
    IF c.kind = "PROCESS" THEN pstate[c.slot]
    ELSE IF c.kind = "THREAD" THEN tstate[c.slot] ELSE "RUNNING"

ThreadRuns  == cpu.kind = "THREAD" /\ StateOf(cpu) = "RUNNING"
ProcessRuns == cpu.kind = "PROCESS" /\ StateOf(cpu) = "RUNNING"
ShellRuns   == ProcessRuns /\ pid[cpu.slot] = ShellPid

\* find_free_thread does not reuse TERMINATED entries: they are still linked
\* into the scheduler's circular queue.  Mutation: it reuses them.
UnusedOrDead(t) == tstate[t] \in {"UNUSED", "TERMINATED"}
Unused(t) == tstate[t] = "UNUSED"

\* thread_create, first part: everything up to scheduler_add_thread.  The
\* entry is filled in before the scheduler can reach it.
AllocThread(t) ==
    /\ ShellRuns
    /\ newThread = NULL
    /\ Unused(t)
    /\ \A u \in 1..(t - 1) : ~Unused(u)
    /\ tstate' = [tstate EXCEPT ![t] = "READY"]
    /\ owner' = [owner EXCEPT ![t] = current_proc]
    /\ tesp' = [tesp EXCEPT ![t] = Thread(t)]
    /\ newThread' = t
    /\ UNCHANGED <<processVars, threadRing, tailOpen, dispatchVars, interrupts>>

\* scheduler_add_thread: last->next = thread (or thread_head = thread), which
\* makes the thread visible while its own next is still 0 ...
LinkThread ==
    /\ ShellRuns
    /\ newThread # NULL
    /\ ~tailOpen
    /\ threadRing' = Append(threadRing, newThread)
    /\ tailOpen' = TRUE
    /\ UNCHANGED <<processVars, tstate, tesp, owner, newThread, dispatchVars,
                   interrupts>>

\* ... then thread->next = thread_head.
CloseRing ==
    /\ ShellRuns
    /\ tailOpen
    /\ tailOpen' = FALSE
    /\ newThread' = NULL
    /\ UNCHANGED <<processVars, tstate, tesp, owner, threadRing, dispatchVars,
                   interrupts>>

\* thread_exit and thread_return, up to their yield.
ThreadExit ==
    /\ ThreadRuns
    /\ current_thread # NULL
    /\ tstate' = [tstate EXCEPT ![current_thread] = "TERMINATED"]
    /\ UNCHANGED <<processVars, tesp, creationVars, dispatchVars, interrupts>>

\* proc_exit, up to its yield.  The shell's loop never leaves shell_run, and
\* no thread calls proc_exit.
ProcExit ==
    /\ ProcessRuns
    /\ ~ShellRuns
    /\ current_proc # NULL
    /\ pstate' = [pstate EXCEPT ![current_proc] = "ZOMBIE"]
    /\ UNCHANGED <<pid, next_pid, pesp, procRing, threadVars, dispatchVars,
                   interrupts>>

\* proc_kill, called by the shell.  proc_find(0) finds a free slot, which
\* is a ZOMBIE already.  The branch that yields when the victim is
\* current_proc needs no action of its own: the caller is the shell.
\* Mutation: the shell is not spared.
KillsAnyone(p) == TRUE
Killable(p) == pid[p] # ShellPid

ProcKill(p) ==
    /\ ShellRuns
    /\ newThread = NULL
    /\ Killable(p)
    /\ pstate' = [pstate EXCEPT ![p] = "ZOMBIE"]
    /\ UNCHANGED <<pid, next_pid, pesp, procRing, threadVars, dispatchVars,
                   interrupts>>

\* scheduler_block_thread: mutex_lock and sem_wait block their own caller.
BlockThread ==
    /\ ThreadRuns
    /\ current_thread # NULL
    /\ tstate' = [tstate EXCEPT ![current_thread] = "BLOCKED"]
    /\ UNCHANGED <<processVars, tesp, creationVars, dispatchVars, interrupts>>

\* scheduler_unblock_thread: mutex_unlock and sem_signal wake another thread.
\* Mutation: whoever is not running is made READY.
WakesAnyone(t) == tstate[t] # "RUNNING"
Wakes(t) == tstate[t] = "BLOCKED"

UnblockThread(t) ==
    /\ ThreadRuns
    /\ tstate' = IF Wakes(t) THEN [tstate EXCEPT ![t] = "READY"]
                 ELSE tstate
    /\ UNCHANGED <<processVars, tesp, creationVars, dispatchVars, interrupts>>

SchedulerNext ==
    \/ \E p \in Processes : ProcCreate(p) \/ ProcKill(p)
    \/ SchedulerStart
    \/ TimerIrq
    \/ SchedulerYield
    \/ \E t \in Threads : AllocThread(t) \/ UnblockThread(t)
    \/ LinkThread
    \/ CloseRing
    \/ ThreadExit
    \/ ProcExit
    \/ BlockThread

SchedulerSpec == SchedulerInit /\ [][SchedulerNext]_schedVars

\* The boot code runs to its end with interrupts off; the PIT interrupts
\* every 10 ms for ever; and thread_create, a few instructions, is not
\* preempted for ever at the same point when its caller is dispatched
\* again and again.
SchedulerFairness ==
    /\ WF_schedVars(SchedulerStart \/ \E p \in Processes : ProcCreate(p))
    /\ WF_schedVars(TimerIrq)
    /\ SF_schedVars(LinkThread)
    /\ SF_schedVars(CloseRing)

FairSchedulerSpec == SchedulerSpec /\ SchedulerFairness

-----------------------------------------------------------------------------
(* Properties.                                                             *)

SchedulerTypeOK ==
    /\ pid \in [Processes -> Nat]
    /\ next_pid \in Nat
    /\ pstate \in [Processes -> ProcessStates]
    /\ pesp \in [Processes -> Contexts]
    /\ procRing \in Seq(Processes)
    /\ tstate \in [Threads -> ThreadStates]
    /\ owner \in [Threads -> Processes \cup {NULL}]
    /\ tesp \in [Threads -> Contexts]
    /\ threadRing \in Seq(Threads)
    /\ tailOpen \in BOOLEAN
    /\ newThread \in Threads \cup {NULL}
    /\ current \in Processes \cup {NULL}
    /\ current_sched_thread \in Threads \cup {NULL}
    /\ current_kind \in {"NONE", "PROCESS", "THREAD"}
    /\ prefer_thread \in BOOLEAN
    /\ current_proc \in Processes \cup {NULL}
    /\ current_thread \in Threads \cup {NULL}
    /\ interrupts \in BOOLEAN
    /\ cpu \in Contexts

\* The books agree with the CPU: thread_current() is the thread that
\* executes, or 0 in a process, proc_current() is the process, or the owner
\* of the thread, and the variable scheduler_irq will save into is the one of
\* the context that runs.
BooksMatchCpu ==
    /\ cpu = Boot =>
          current_kind = "NONE" /\ current_thread = NULL /\ current_proc = NULL
    /\ \A p \in Processes : cpu = Process(p) =>
          /\ current_kind = "PROCESS" /\ current = p
          /\ current_thread = NULL /\ current_proc = p
    /\ \A t \in Threads : cpu = Thread(t) =>
          /\ current_kind = "THREAD" /\ current_sched_thread = t
          /\ current_thread = t /\ current_proc = owner[t]

\* A table entry always saves the frame of its own context: no interrupt
\* stores one context's stack pointer into another's entry.
FramesAreOwn ==
    /\ \A p \in Processes : pid[p] # 0 => pesp[p] = Process(p)
    /\ \A t \in Threads : tstate[t] # "UNUSED" => tesp[t] = Thread(t)

\* At most one context is RUNNING, and it is the one on the CPU.
OnlyCpuRuns ==
    /\ \A p \in Processes : pstate[p] = "RUNNING" => cpu = Process(p)
    /\ \A t \in Threads : tstate[t] = "RUNNING" => cpu = Thread(t)

\* Each run queue holds every allocated entry exactly once, dead ones
\* included (nothing is ever unlinked), but for the thread that
\* thread_create has not linked yet.
RingsHoldEverything ==
    /\ NoRepeats(procRing)
    /\ NoRepeats(threadRing)
    /\ \A p \in Processes : pid[p] # 0 <=> InRing(procRing, p)
    /\ \A t \in Threads : tstate[t] # "UNUSED" <=>
          InRing(threadRing, t) \/ newThread = t

\* The shell can always be scheduled: it is never killed nor blocked.
ShellIsAlive ==
    /\ interrupts => \E p \in Processes : pid[p] = ShellPid
    /\ \A p \in Processes : pid[p] = ShellPid => pstate[p] # "ZOMBIE"

\* scheduler_irq returns to a context that may run: a thread that blocked or
\* terminated itself, or a killed process, does not continue past its yield,
\* as the comments "should never return" take for granted.
IrqLandsOnRunnable ==
    [][prefer_thread' # prefer_thread => StateOf(cpu)' = "RUNNING"]_schedVars

\* TERMINATED and ZOMBIE are final: no interrupt, unblock or creation brings
\* a dead context back.
DeadStaysDead ==
    [][/\ \A t \in Threads :
            tstate[t] = "TERMINATED" => tstate'[t] = "TERMINATED"
       /\ \A p \in Processes :
            pid[p] # 0 /\ pstate[p] = "ZOMBIE" => pstate'[p] = "ZOMBIE"
      ]_schedVars

\* Round robin starves nobody: a READY process runs or is killed, a READY
\* thread runs, however the other contexts yield, block, exit and are
\* created meanwhile.
ReadyProcessRuns ==
    \A p \in Processes : pstate[p] = "READY" ~> pstate[p] # "READY"
ReadyThreadRuns ==
    \A t \in Threads : tstate[t] = "READY" ~> tstate[t] = "RUNNING"
-----------------------------------------------------------------------------
(* The contexts as Dispatch sees them.                                     *)

ProcessStatus(p) ==
    IF pid[p] = 0 THEN "free"
    ELSE IF pstate[p] = "READY" THEN "ready"
    ELSE IF pstate[p] = "RUNNING" THEN "running" ELSE "dead"
ThreadStatus(t) ==
    IF tstate[t] = "UNUSED" THEN "free"
    ELSE IF tstate[t] = "READY" THEN "ready"
    ELSE IF tstate[t] = "RUNNING" THEN "running"
    ELSE IF tstate[t] = "BLOCKED" THEN "waiting" ELSE "dead"
BootStatus == IF cpu = Boot THEN "running" ELSE "dead"
ContextStatus ==
    [c \in Contexts |-> IF c.kind = "NONE" THEN BootStatus
                        ELSE IF c.kind = "PROCESS" THEN ProcessStatus(c.slot)
                        ELSE ThreadStatus(c.slot)]

Dispatcher == INSTANCE Dispatch WITH status <- ContextStatus, onCpu <- cpu

\* The tables, the rings and scheduler_irq implement the abstract dispatcher:
\* every switch of the CPU goes to a context that was ready for it.
ImplementsDispatch == Dispatcher!Spec
=============================================================================
