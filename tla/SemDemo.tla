------------------------------ MODULE SemDemo ------------------------------
(***************************************************************************)
(* The shell command semdemo (kernel.c): producers and one consumer share  *)
(* a buffer through three semaphores, and the shell waits for them.  The   *)
(* timer preempts whoever runs, between any two steps.  A history variable *)
(* records whether it has done so within a window of the code that cannot  *)
(* bear it: most properties say what holds as long as it has not.          *)
(***************************************************************************)
EXTENDS Semaphore

CONSTANTS Producers,        \* 2 in the source
          ItemsEach,        \* items per producer, 5 in the source
          BufferSize        \* BUFFER_SIZE

Workers == Producers + 1
Items == (1..Producers) \X (0..(ItemsEach - 1))
Garbage == <<0, 0>>          \* what a cell nobody has written holds

WorkerSteps == {"loop", "return", "loadIndex", "putItem", "takeItem", "loadCount",
                "storeCount", "yield", "loadDone", "storeDone", "exit", "gone"}
                   \cup WaitSteps \cup SignalSteps

ASSUME SemDemoAssumption ==
    /\ Producers \in Nat \ {0}
    /\ Workers <= MaxThreads
    /\ ItemsEach \in Nat \ {0}
    /\ BufferSize \in Nat \ {0}

VARIABLES
    buffer, buffer_count, sem_done,
    consumed,           \* how often the consumer has extracted each item
    id,                 \* a producer's id, 0 in the consumer
    i,                  \* local i
    call,               \* which of its four semaphore calls a thread is at
    reg,                \* a register: buffer_count or sem_done as loaded
    shell, created,     \* the next step of cmd_semdemo, threads it has created
    struck              \* history: a window has been hit

semVars == <<value, unit, queueVars, locals>>
bufferVars == <<buffer, buffer_count, consumed>>
workerVars == <<pc, id, i, call, reg>>
shellVars == <<shell, created, struck>>
vars == <<schedVars, semVars, bufferVars, workerVars, sem_done, shellVars>>

Semaphores == {"empty_sem", "full_sem", "buffer_mutex"}
Initially == [s \in Semaphores |-> IF s = "empty_sem" THEN BufferSize
                                   ELSE IF s = "full_sem" THEN 0 ELSE 1]

Init ==
    /\ SchedulerInit
    /\ SemInit(Initially)
    /\ pc = [t \in Threads |-> "loop"]
    /\ buffer = [k \in 0..(BufferSize - 1) |-> Garbage]
    /\ buffer_count = 0
    /\ consumed = [item \in Items |-> 0]
    /\ sem_done = 0
    /\ id = [t \in Threads |-> 0]
    /\ i = [t \in Threads |-> 0]
    /\ call = [t \in Threads |-> 1]
    /\ reg = [t \in Threads |-> 0]
    /\ shell = "prompt"
    /\ created = 0
    /\ struck = FALSE

-----------------------------------------------------------------------------
(* sem_producer and sem_consumer                                           *)

IsProducer(t) == id[t] # 0
Rounds(t) == IF IsProducer(t) THEN ItemsEach ELSE Producers * ItemsEach

\* The semaphores of the four calls of a round, in order.
Calls(t) ==
    IF IsProducer(t) THEN <<"empty_sem", "buffer_mutex", "buffer_mutex", "full_sem">>
    ELSE <<"full_sem", "buffer_mutex", "buffer_mutex", "empty_sem">>
Sem(t) == Calls(t)[call[t]]

Loop(t) ==
    /\ Goto(t, "loop", IF i[t] < Rounds(t) THEN "testValue" ELSE "loadDone")
    /\ UNCHANGED <<schedVars, semVars, bufferVars, id, i, call, reg, sem_done>>

Wait(t) ==
    /\ SemWait(t, Sem(t), "return")
    /\ UNCHANGED <<bufferVars, id, i, call, reg, sem_done>>

Signal(t) ==
    /\ SemSignal(t, Sem(t), "return")
    /\ UNCHANGED <<bufferVars, id, i, call, reg, sem_done>>

\* On from one call to the next, or to the buffer after the second.
Return(t) ==
    /\ Goto(t, "return", <<"testValue",
                           IF IsProducer(t) THEN "loadIndex" ELSE "loadCount",
                           "testWaiter", "yield">>[call[t]])
    /\ call' = [call EXCEPT ![t] = (call[t] % 4) + 1]
    /\ UNCHANGED <<schedVars, semVars, bufferVars, id, i, reg, sem_done>>

LoadIndex(t) ==
    /\ Goto(t, "loadIndex", IF IsProducer(t) THEN "putItem" ELSE "takeItem")
    /\ reg' = [reg EXCEPT ![t] = buffer_count]
    /\ UNCHANGED <<schedVars, semVars, bufferVars, id, i, call, sem_done>>

\* A store outside the array changes other memory.  Mutation: the cell above
\* is written.
PutItemAbove(t) ==
    /\ Goto(t, "putItem", "loadCount")
    /\ buffer' = [k \in DOMAIN buffer |->
                     IF k = reg[t] + 1 THEN <<id[t], i[t]>> ELSE buffer[k]]
    /\ reg' = [reg EXCEPT ![t] = 0]
    /\ UNCHANGED <<schedVars, semVars, buffer_count, consumed, id, i, call, sem_done>>
PutItem(t) ==
    /\ Goto(t, "putItem", "loadCount")
    /\ buffer' = [k \in DOMAIN buffer |-> IF k = reg[t] THEN <<id[t], i[t]>> ELSE buffer[k]]
    /\ reg' = [reg EXCEPT ![t] = 0]
    /\ UNCHANGED <<schedVars, semVars, buffer_count, consumed, id, i, call, sem_done>>

\* A load outside the array gives no item.
TakeItem(t) ==
    /\ Goto(t, "takeItem", "testWaiter")
    /\ consumed' = [item \in Items |->
           IF reg[t] \in DOMAIN buffer /\ item = buffer[reg[t]]
           THEN consumed[item] + 1 ELSE consumed[item]]
    /\ reg' = [reg EXCEPT ![t] = 0]
    /\ UNCHANGED <<schedVars, semVars, buffer, buffer_count, id, i, call, sem_done>>

\* buffer_count++ and buffer_count-- are a load and a store.
LoadCount(t) ==
    /\ Goto(t, "loadCount", "storeCount")
    /\ reg' = [reg EXCEPT ![t] = buffer_count]
    /\ UNCHANGED <<schedVars, semVars, bufferVars, id, i, call, sem_done>>

StoreCount(t) ==
    /\ Goto(t, "storeCount", IF IsProducer(t) THEN "testWaiter" ELSE "loadIndex")
    /\ buffer_count' = IF IsProducer(t) THEN reg[t] + 1 ELSE reg[t] - 1
    /\ reg' = [reg EXCEPT ![t] = 0]
    /\ UNCHANGED <<schedVars, semVars, buffer, consumed, id, i, call, sem_done>>

RoundYield(t) ==
    /\ Goto(t, "yield", "loop")
    /\ SchedulerYield
    /\ i' = [i EXCEPT ![t] = i[t] + 1]
    /\ UNCHANGED <<semVars, bufferVars, id, call, reg, sem_done>>

\* sem_done++
LoadDone(t) ==
    /\ Goto(t, "loadDone", "storeDone")
    /\ reg' = [reg EXCEPT ![t] = sem_done]
    /\ UNCHANGED <<schedVars, semVars, bufferVars, id, i, call, sem_done>>

StoreDone(t) ==
    /\ Goto(t, "storeDone", "exit")
    /\ sem_done' = reg[t] + 1
    /\ reg' = [reg EXCEPT ![t] = 0]
    /\ UNCHANGED <<schedVars, semVars, bufferVars, id, i, call>>

Exit(t) ==
    /\ Goto(t, "exit", "gone")
    /\ ThreadExit
    /\ UNCHANGED <<semVars, bufferVars, id, i, call, reg, sem_done>>

\* The yield of thread_exit.
GoneYield(t) ==
    /\ Executes(t, "gone")
    /\ SchedulerYield
    /\ UNCHANGED <<semVars, bufferVars, workerVars, sem_done>>

Worker(t) ==
    /\ \/ Loop(t) \/ Wait(t) \/ Signal(t) \/ Return(t)
       \/ LoadIndex(t) \/ PutItem(t) \/ TakeItem(t) \/ LoadCount(t) \/ StoreCount(t)
       \/ RoundYield(t) \/ LoadDone(t) \/ StoreDone(t) \/ Exit(t) \/ GoneYield(t)
    /\ UNCHANGED shellVars

-----------------------------------------------------------------------------
(* cmd_semdemo, in the shell process.                                      *)

ShellGoto(from, to) == ShellRuns /\ shell = from /\ shell' = to

\* Threads of an earlier call, one that gave up midway, still use the
\* semaphores.
AtWork(t) == tstate[t] # "UNUSED" /\ pc[t] \notin {"exit", "gone"}

\* Each store of the shell is a step of its own, those of sem_init included.
StartDemo ==
    /\ ShellGoto("prompt", "clearDone")
    /\ buffer_count' = 0
    /\ consumed' = [item \in Items |-> 0]
    /\ created' = 0
    /\ struck' = (struck \/ \E t \in Threads : AtWork(t))
    /\ UNCHANGED <<schedVars, semVars, buffer, workerVars, sem_done>>

ClearDone ==
    /\ ShellGoto("clearDone", "emptyValue")
    /\ sem_done' = 0
    /\ UNCHANGED <<schedVars, semVars, bufferVars, workerVars, created, struck>>

\* sem_init(&s, Initially[s]): its three stores.
SemInitCall(s, first, second, third, after) ==
    \/ ShellGoto(first, second) /\ InitValue(s, Initially[s])
    \/ ShellGoto(second, third) /\ InitHead(s) /\ UNCHANGED value
    \/ ShellGoto(third, after) /\ InitTail(s) /\ UNCHANGED value

InitSemaphores ==
    /\ \/ SemInitCall("empty_sem", "emptyValue", "emptyHead", "emptyTail", "fullValue")
       \/ SemInitCall("full_sem", "fullValue", "fullHead", "fullTail", "mutexValue")
       \/ SemInitCall("buffer_mutex", "mutexValue", "mutexHead", "mutexTail", "create")
    /\ UNCHANGED <<schedVars, unit, locals, bufferVars, workerVars, sem_done, created, struck>>

\* The producers first, then the consumer.
CreateWorker ==
    /\ ShellGoto("create", "link")
    /\ \E t \in Threads :
          /\ AllocThread(t)
          /\ id' = [id EXCEPT ![t] = IF created < Producers THEN created + 1 ELSE 0]
    /\ UNCHANGED <<semVars, bufferVars, pc, i, call, reg, sem_done, created, struck>>

LinkWorker ==
    /\ ShellGoto("link", "close")
    /\ LinkThread
    /\ UNCHANGED <<semVars, bufferVars, workerVars, sem_done, created, struck>>

CloseWorker ==
    /\ ShellGoto("close", IF created + 1 < Workers THEN "create" ELSE "wait")
    /\ CloseRing
    /\ created' = created + 1
    /\ UNCHANGED <<semVars, bufferVars, workerVars, sem_done, struck>>

\* No free slot: the demo gives up, and the threads it did create run on.
CreateFails ==
    /\ ShellGoto("create", "prompt")
    /\ \A t \in Threads : tstate[t] # "UNUSED"
    /\ UNCHANGED <<schedVars, semVars, bufferVars, workerVars, sem_done, created, struck>>

\* Mutation: the shell does not wait for the last thread.
AllButOneDone == sem_done >= Workers - 1
AllDone == sem_done >= Workers

WaitForDone ==
    /\ ShellGoto("wait", IF AllDone THEN "report" ELSE "waitYield")
    /\ UNCHANGED <<schedVars, semVars, bufferVars, workerVars, sem_done, created, struck>>

WaitYield ==
    /\ ShellGoto("waitYield", "wait")
    /\ SchedulerYield
    /\ UNCHANGED <<semVars, bufferVars, workerVars, sem_done, created, struck>>

Report ==
    /\ ShellGoto("report", "prompt")
    /\ UNCHANGED <<schedVars, semVars, bufferVars, workerVars, sem_done, created, struck>>

Shell == \/ StartDemo \/ ClearDone \/ InitSemaphores
         \/ CreateWorker \/ LinkWorker \/ CloseWorker \/ CreateFails
         \/ WaitForDone \/ WaitYield \/ Report

-----------------------------------------------------------------------------

BootStep ==
    /\ SchedulerStart \/ \E p \in Processes : ProcCreate(p)
    /\ UNCHANGED <<semVars, bufferVars, workerVars, sem_done, shellVars>>

\* The windows: steps that the code would have to take without being
\* preempted after the one before.
Windows == {"takeUnit", "testQueue", "setHead", "loadTail", "linkTail", "setTail",
            "block", "addUnit", "loadNext", "setNewHead", "clearTail", "storeDone"}

Tick ==
    /\ TimerIrq
    /\ struck' = (struck \/ \E t \in Threads : cpu = Thread(t) /\ pc[t] \in Windows)
    /\ UNCHANGED <<semVars, bufferVars, workerVars, sem_done, shell, created>>

Next ==
    \/ BootStep
    \/ Tick
    \/ Shell
    \/ \E t \in Threads : Worker(t)

Spec == Init /\ [][Next]_vars

\* The behaviours in which no window is hit.  As in MutexDemo, what is
\* dispatched again and again makes progress.
Calm(A) == A /\ ~struck'
CalmFairness ==
    /\ WF_vars(BootStep)
    /\ WF_vars(Calm(Tick))
    /\ SF_vars(shell # "prompt" /\ Shell)
    /\ \A t \in Threads : SF_vars(Worker(t))

CalmSpec == Init /\ [][Calm(Next)]_vars /\ CalmFairness

\* The runs of the safety properties need not follow a behaviour any further.
NotStruck == ~struck

-----------------------------------------------------------------------------
(* Properties.  They hold of a behaviour up to its first interrupt in a     *)
(* window, and up to a call that re-initialises semaphores in use: ~struck. *)

SemDemoTypeOK == ~struck =>
    /\ SchedulerTypeOK
    /\ WaitQueueTypeOK(Semaphores)
    /\ value \in [Semaphores -> 0..BufferSize]
    /\ unit \in [Threads -> 0..BufferSize]
    /\ pc \in [Threads -> WorkerSteps]
    /\ buffer \in [0..(BufferSize - 1) -> Items \cup {Garbage}]
    /\ buffer_count \in 0..BufferSize
    /\ consumed \in [Items -> Nat]
    /\ sem_done \in 0..Workers
    /\ id \in [Threads -> 0..Producers]
    /\ i \in [Threads -> 0..(Producers * ItemsEach)]
    /\ call \in [Threads -> 1..4]
    /\ reg \in [Threads -> 0..(BufferSize + Workers)]
    /\ shell \in {"prompt", "clearDone", "emptyValue", "emptyHead", "emptyTail",
                 "fullValue", "fullHead", "fullTail", "mutexValue", "mutexHead",
                 "mutexTail", "create", "link", "close", "wait", "waitYield", "report"}
    /\ created \in 0..Workers

\* The thread has the unit of buffer_mutex.
InBuffer(t) ==
    /\ tstate[t] # "BLOCKED"
    /\ \/ pc[t] \in {"loadIndex", "putItem", "takeItem", "loadCount", "storeCount"}
       \/ call[t] = 2 /\ pc[t] = "return"
       \/ call[t] = 3 /\ pc[t] \in {"testWaiter", "addUnit"}

\* "buffer_mutex protects the shared buffer": one thread at a time, and every
\* index it uses lies in the array.
BufferIsProtected == ~struck =>
    /\ \A t, u \in Threads : InBuffer(t) /\ InBuffer(u) => t = u
    /\ \A t \in Threads : pc[t] \in {"putItem", "takeItem"} =>
          reg[t] \in 0..(BufferSize - 1)

\* No lost wake-up: whoever is asleep on a semaphore is in its line or being
\* taken out of it, and while somebody is in line there is no unit to be had.
SleepersCanBeFound == ~struck =>
    /\ \A t \in Threads : tstate[t] = "BLOCKED" => CanBeFound(t, Sem(t))
    /\ \A s \in Semaphores : Line(s) # << >> => value[s] = 0

\* What a producer has inserted; those of this call are the newest threads of
\* their ids.
Inserted(t) == {<<id[t], k>> : k \in 0..(i[t] - 1)}
Newest(t) == \A u \in Threads : u > t => id[u] # id[t]

\* The items inserted and not yet extracted are the first buffer_count cells:
\* between two accesses nothing is lost, overwritten or extracted twice.
BufferHoldsTheRest ==
    ~struck /\ shell = "wait" /\ (\A t \in Threads : ~InBuffer(t)) =>
       \A item \in Items :
          /\ consumed[item] <= 1
          /\ consumed[item] = 1 => \A k \in 0..(buffer_count - 1) : buffer[k] # item
          /\ \A t \in Threads :
                Newest(t) /\ item \in Inserted(t) /\ consumed[item] = 0 =>
                   \E k \in 0..(buffer_count - 1) : buffer[k] = item

\* README: "All 10 items produced and consumed without corruption, buffer
\* count = 0 at end".
AllItemsConsumed ==
    shell = "report" =>
       buffer_count = 0 /\ \A item \in Items : consumed[item] = 1

\* They are until an interrupt falls into a window.
ItemsConsumedUntilStruck == ~struck => AllItemsConsumed

\* A demo that got its threads completes.
DemoCompletes == shell = "wait" ~> shell = "report"

\* Until a window is hit, every step is one of each of the three, a first come,
\* first served counting semaphore of its header comment.
EmptySem == INSTANCE FifoSemaphore WITH
    Customers <- Threads, Initial <- BufferSize,
    units <- value["empty_sem"], line <- Line("empty_sem")
FullSem == INSTANCE FifoSemaphore WITH
    Customers <- Threads, Initial <- 0,
    units <- value["full_sem"], line <- Line("full_sem")
BufferMutex == INSTANCE FifoSemaphore WITH
    Customers <- Threads, Initial <- 1,
    units <- value["buffer_mutex"], line <- Line("buffer_mutex")
ImplementsFifoSemaphore ==
    /\ EmptySem!Init /\ [][struck' \/ EmptySem!Next]_(EmptySem!semVars)
    /\ FullSem!Init /\ [][struck' \/ FullSem!Next]_(FullSem!semVars)
    /\ BufferMutex!Init /\ [][struck' \/ BufferMutex!Next]_(BufferMutex!semVars)
=============================================================================
