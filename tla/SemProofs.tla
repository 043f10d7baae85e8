----------------------------- MODULE SemProofs -----------------------------
(***************************************************************************)
(* Theorems about the semaphores of semaphore.c and the bounded buffer of  *)
(* semdemo (module SemDemo), for any number of producers, items, cells and *)
(* slots, until an interrupt hits one of the windows: by an inductive      *)
(* invariant in three parts, SemInv (the waiting lines and values),        *)
(* CountInv (where the units of each semaphore are; PhaseInv while the     *)
(* shell initialises them) and ContentInv (where the items are).           *)
(***************************************************************************)
EXTENDS SemDemo, SchedulerProofs, QueueProofs

-----------------------------------------------------------------------------
(* The part of the inductive invariant that is about the waiting lines.    *)

SemTypeOK ==
    /\ value \in [Semaphores -> Int]
    /\ unit \in [Threads -> Int]
    /\ WaitQueueTypeOK(Semaphores)
    /\ pc \in [Threads -> WorkerSteps]
    /\ id \in [Threads -> Nat]
    /\ i \in [Threads -> Nat]
    /\ call \in [Threads -> 1..4]
    /\ buffer_count \in Int
    /\ reg \in [Threads -> Int]
    /\ sem_done \in Int

\* Only the thread on the CPU is within a window.
OnlyCpuInWindow == \A t \in Threads : pc[t] \in Windows => cpu = Thread(t)

\* Where a thread in each state is.
StatesFit ==
    \A t \in Threads :
       /\ cpu = Thread(t) =>
             \/ tstate[t] = "RUNNING"
             \/ tstate[t] = "BLOCKED" /\ pc[t] = "blockedYield"
             \/ tstate[t] = "TERMINATED" /\ pc[t] = "gone"
       /\ tstate[t] = "BLOCKED" => pc[t] \in {"blockedYield", "return"}
       /\ tstate[t] = "UNUSED" => pc[t] = "loop"

\* Which of its four calls a thread is at in each step.
OutOfCalls == {"loop", "yield", "loadDone", "storeDone", "exit", "gone"}
BufferSteps == {"loadIndex", "putItem", "takeItem", "loadCount", "storeCount"}
CallFits(t) ==
    /\ pc[t] \in OutOfCalls => call[t] = 1
    /\ pc[t] \in WaitSteps => call[t] \in {1, 2}
    /\ pc[t] \in BufferSteps => call[t] = 3
    /\ pc[t] \in SignalSteps => call[t] \in {3, 4}
    /\ tstate[t] = "BLOCKED" => call[t] \in {1, 2}
    /\ pc[t] = "putItem" => IsProducer(t)
    /\ pc[t] = "takeItem" => ~IsProducer(t)
CallsFit == \A t \in Threads : CallFits(t)

\* The waiting line of s, from wait_head along wait_next to wait_tail.  A
\* thread that links itself to it is its last one already.
Joins(t) == pc[t] \in {"setTail", "block"}
LineInv(s) ==
    /\ Line(s) \in Seq(Threads)
    /\ NoRepeats(Line(s))
    /\ wait_head[s] = FirstOf(Line(s))
    /\ IsChain(wait_next, Line(s))
    /\ Line(s) # << >> /\ (\A t \in Threads : ~(pc[t] = "setTail" /\ Sem(t) = s)) =>
          wait_tail[s] = Line(s)[Len(Line(s))]
    /\ \A t \in Threads : InRing(Line(s), t) =>
          Sem(t) = s /\ (tstate[t] = "BLOCKED" \/ Joins(t))
    /\ \A t \in Threads : Joins(t) /\ Sem(t) = s =>
          Line(s) # << >> /\ Line(s)[Len(Line(s))] = t

\* What a thread within sem_wait or sem_signal knows of the line of s.
EnqueueInv(t, s) ==
    /\ pc[t] = "setHead" => Line(s) = << >>
    /\ pc[t] \in {"loadTail", "linkTail"} => Line(s) # << >>
    /\ pc[t] \in {"setHead", "loadTail", "linkTail"} => wait_next[t] = NULL
    /\ pc[t] = "linkTail" => loaded[t] = Line(s)[Len(Line(s))]
DequeueInv(t, s) ==
    /\ pc[t] = "clearTail" => Line(s) = << >>
    /\ pc[t] \in {"loadNext", "setNewHead"} => Line(s) # << >> /\ next[t] = Line(s)[1]
    /\ pc[t] = "setNewHead" => loaded[t] = wait_next[next[t]]
PlaceInv(t, s) == Sem(t) = s => EnqueueInv(t, s) /\ DequeueInv(t, s)

\* A thread that a signal has taken out of line sleeps until it is woken, and
\* is woken by one thread only.
InLine(t) == \E s \in Semaphores : InRing(Line(s), t)
TakenSteps == {"clearTail", "clearNext", "wake"}
Takes(t, h) == pc[t] \in TakenSteps /\ next[t] = h
IsTaken(h) == \E t \in Threads : Takes(t, h)
TakenInv ==
    /\ \A t \in Threads : pc[t] \in TakenSteps =>
          /\ next[t] \in Threads
          /\ tstate[next[t]] = "BLOCKED"
          /\ ~InLine(next[t])
    /\ \A t, u, h \in Threads : Takes(t, h) /\ Takes(u, h) => t = u

SleepInv == \A t \in Threads : tstate[t] = "BLOCKED" => InLine(t) \/ IsTaken(t)

QueuesInv ==
    /\ \A s \in Semaphores : LineInv(s)
    /\ \A t \in Threads : \A s \in Semaphores : PlaceInv(t, s)
    /\ TakenInv
    /\ SleepInv

\* Nobody queues up while there is a unit, and none is added while somebody is
\* in line.
NoUnitSteps == {"testQueue", "setHead", "loadTail", "linkTail", "setTail", "block"}
UnitInv(t, s) ==
    Sem(t) = s =>
       /\ pc[t] \in NoUnitSteps => value[s] = 0
       /\ pc[t] = "takeUnit" => unit[t] = value[s] /\ value[s] > 0
       /\ pc[t] = "addUnit" => Line(s) = << >>
ValueInv ==
    /\ \A s \in Semaphores : value[s] >= 0 /\ (Line(s) # << >> => value[s] = 0)
    /\ \A t \in Threads : \A s \in Semaphores : UnitInv(t, s)

BaseInv == IInv /\ SemTypeOK /\ OnlyCpuInWindow /\ StatesFit /\ CallsFit
SemInv == BaseInv /\ QueuesInv /\ ValueInv

\* The threads after the first `start`, up to `last`, are those of the latest
\* call; those before them have finished.  While the shell initialises there
\* are none.
Finished(t) == pc[t] \in {"exit", "gone"}
FinishedAfter(start) == {t \in Threads : t > start /\ Finished(t)}
AllFinishedOrUnused == \A t \in Threads : tstate[t] # "UNUSED" => Finished(t)
InitSteps == {"clearDone", "emptyValue", "emptyHead", "emptyTail", "fullValue", "fullHead",
              "fullTail", "mutexValue", "mutexHead", "mutexTail"}
ThreadsFit(start, last) ==
    /\ start <= last
    /\ created \in 0..Workers
    /\ last = IF shell \in {"link", "close"} THEN start + created + 1 ELSE start + created
    /\ \A t \in Threads : tstate[t] # "UNUSED" <=> t <= last
ShellFits(start, last) ==
    /\ shell \in {"prompt", "create", "link", "close", "wait", "waitYield", "report"}
                    \cup InitSteps
    /\ shell \in InitSteps => created = 0
    /\ shell \in {"create", "link", "close"} => created < Workers
    /\ shell \in {"wait", "waitYield", "report"} => created = Workers
    /\ shell = "report" => \A t \in Threads : t <= last => Finished(t)
DemoInv(start, last) ==
    /\ ThreadsFit(start, last)
    /\ ShellFits(start, last)
    /\ \A t \in Threads : t <= start => Finished(t)
    /\ shell # "clearDone" => sem_done = Cardinality(FinishedAfter(start))
    /\ \A t \in Threads : pc[t] = "storeDone" => reg[t] = sem_done

-----------------------------------------------------------------------------
(* The part about the units of the three semaphores.                       *)

\* The thread has the unit that it waits for in its call c.
Got(t) == tstate[t] # "BLOCKED" \/ IsTaken(t)
HasGot(t, c) == call[t] = c /\ pc[t] \in {"blockedYield", "return"} /\ Got(t)
\* It has not given the unit of its call yet.
Keeps(t) == pc[t] \in {"testWaiter", "addUnit", "loadNext", "setNewHead"}
HasMutex(t) ==
    \/ HasGot(t, 2)
    \/ pc[t] \in BufferSteps
    \/ call[t] = 3 /\ Keeps(t)
\* The unit of its first call, until buffer_count has been changed.
BeforeCount(t) ==
    pc[t] \in BufferSteps /\ (IsProducer(t) \/ pc[t] \in {"loadCount", "storeCount"})
HasFirst(t) ==
    \/ HasGot(t, 1)
    \/ call[t] = 2
    \/ BeforeCount(t)
\* From then on the unit for its last call.
HasLast(t) ==
    \/ pc[t] \in BufferSteps /\ ~BeforeCount(t)
    \/ call[t] = 3 /\ pc[t] \in SignalSteps \cup {"return"}
    \/ call[t] = 4 /\ Keeps(t)
HasUnit(t, s) ==
    \/ s = "buffer_mutex" /\ HasMutex(t)
    \/ s = Calls(t)[1] /\ HasFirst(t)
    \/ s = Calls(t)[4] /\ HasLast(t)
Units(s) == {t \in Threads : HasUnit(t, s)}
Supply(s) == IF s = "buffer_mutex" THEN 1
             ELSE IF s = "full_sem" THEN buffer_count ELSE BufferSize - buffer_count

\* Every unit is in the semaphore or some thread has it.
UnitsInv == \A s \in Semaphores : value[s] + Cardinality(Units(s)) = Supply(s)

\* What is in the registers.
RegsFit(t) ==
    /\ pc[t] \in {"putItem", "takeItem", "storeCount"} => reg[t] = buffer_count
    /\ pc[t] \notin {"putItem", "takeItem", "storeCount", "storeDone"} => reg[t] = 0
    /\ pc[t] # "takeUnit" => unit[t] = 0
RegsInv == \A t \in Threads : RegsFit(t)
CountInv == UnitsInv /\ RegsInv

\* While the shell initialises, the values are what the last call has left or
\* what sem_init has stored.
Initialised ==
    {s \in Semaphores :
       \/ s = "empty_sem" /\ shell \in InitSteps \ {"clearDone", "emptyValue"}
       \/ s = "full_sem" /\ shell \in {"fullHead", "fullTail", "mutexValue", "mutexHead",
                                       "mutexTail"}
       \/ s = "buffer_mutex" /\ shell \in {"mutexHead", "mutexTail"}}
RestInv ==
    /\ RegsInv
    /\ buffer_count = 0
    /\ sem_done \in 0..Workers
    /\ \A s \in Semaphores : value[s] \in 0..BufferSize
    /\ \A s \in Initialised : value[s] = Initially[s]
PhaseInv == IF shell \in InitSteps THEN RestInv ELSE CountInv

-----------------------------------------------------------------------------
(* The part about the items.                                               *)

\* The ids that semdemo hands out, from the first thread of a call on.
IdsFit(start, last) ==
    \A t \in Threads :
       /\ id[t] \in 0..Producers
       /\ t > start => id[t] = IF t <= last /\ t - start <= Producers THEN t - start ELSE 0

\* The items that a thread has put into the buffer or taken out of it.
PastBuffer(t) ==
    \/ IsProducer(t) /\ pc[t] \in {"loadCount", "storeCount"}
    \/ call[t] = 3 /\ pc[t] \in SignalSteps \cup {"return"}
    \/ call[t] = 4
    \/ pc[t] = "yield"
Progress(t) == IF PastBuffer(t) THEN i[t] + 1 ELSE i[t]

\* How many rounds a thread has behind it at each step.
AfterRounds == {"loadDone", "storeDone", "exit", "gone"}
RoundsFit ==
    \A t \in Threads :
       /\ i[t] <= Rounds(t)
       /\ pc[t] \notin AfterRounds \cup {"loop"} => i[t] < Rounds(t)
       /\ pc[t] \in AfterRounds => i[t] = Rounds(t)
       /\ tstate[t] = "UNUSED" => i[t] = 0

\* An item is inserted by the producer of its id, and extracted once.
IsInserted(start, item) ==
    \E t \in Threads : t > start /\ id[t] = item[1] /\ item[2] < Progress(t)
Extracted == {item \in Items : consumed[item] = 1}

\* buffer_count and the cells disagree while a thread is between the two.
BetweenTheTwo(t) == IF IsProducer(t) THEN pc[t] \in {"loadCount", "storeCount"}
                    ELSE pc[t] \in {"loadIndex", "takeItem"}
Level == IF \E t \in Threads : BetweenTheTwo(t) THEN buffer_count + 1 ELSE buffer_count

\* The cells up to that level hold what is inserted and not yet extracted.
CellsFit(start, level) ==
    /\ level = Level
    /\ \A k \in 0..(level - 1) :
          \E item \in Items : buffer[k] = item /\ IsInserted(start, item) /\ consumed[item] = 0
    /\ \A k, j \in 0..(level - 1) : buffer[k] = buffer[j] => k = j
    /\ \A item \in Items :
          /\ consumed[item] \in {0, 1}
          /\ consumed[item] = 1 => IsInserted(start, item)
          /\ IsInserted(start, item) /\ consumed[item] = 0 =>
                \E k \in 0..(level - 1) : buffer[k] = item
    /\ consumed \in [Items -> Nat]
    /\ buffer \in [0..(BufferSize - 1) -> Items \cup {Garbage}]

\* The consumer, once it exists, has counted what it extracted.
ExtractedFits(start, last) ==
    Cardinality(Extracted) = IF last = start + Workers THEN Progress(last) ELSE 0

ContentInv(start, last) ==
    /\ IdsFit(start, last)
    /\ RoundsFit
    /\ \E level \in 0..BufferSize : CellsFit(start, level)
    /\ ExtractedFits(start, last)

-----------------------------------------------------------------------------
(* What the parts of the invariant depend on.                              *)

LEMMA SemIsOne ==
    ASSUME SemTypeOK, NEW t \in Threads
    PROVE  /\ Sem(t) \in Semaphores
           /\ call[t] \in {2, 3} <=> Sem(t) = "buffer_mutex"
BY DEF SemTypeOK, Sem, Calls, Semaphores

LEMMA SemStays ==
    ASSUME NEW t \in Threads, id'[t] = id[t], call'[t] = call[t]
    PROVE  Sem(t)' = Sem(t) /\ Calls(t)' = Calls(t) /\ (IsProducer(t)' <=> IsProducer(t))
BY DEF Sem, Calls, IsProducer

\* The steps at which something is said of a line.
QueueSteps == {"setHead", "loadTail", "linkTail", "setTail", "block", "loadNext",
               "setNewHead"} \cup TakenSteps

\* A line depends on its head and the links only.
LEMMA LinesStay ==
    ASSUME UNCHANGED <<wait_head, wait_next>>
    PROVE  \A s : Line(s)' = Line(s)
BY LineFromIsWalk DEF Line

\* Threads that are at none of those steps move on, or nobody does.
LEMMA QueuesStay ==
    ASSUME QueuesInv, UNCHANGED queueVars,
           \A u \in Threads :
              /\ tstate'[u] = "BLOCKED" <=> tstate[u] = "BLOCKED"
              /\ \/ pc'[u] = pc[u]
                 \/ pc[u] \notin QueueSteps /\ pc'[u] \notin QueueSteps
              /\ pc[u] \in QueueSteps => next'[u] = next[u] /\ loaded'[u] = loaded[u]
              /\ pc[u] \in QueueSteps \/ tstate[u] = "BLOCKED" => Sem(u)' = Sem(u)
    PROVE  QueuesInv' /\ \A s : Line(s)' = Line(s)
<1>1. UNCHANGED <<wait_head, wait_tail, wait_next>>
  BY DEF queueVars
<1>2. \A s : Line(s)' = Line(s)
  BY <1>1, LinesStay
<1>3. \A u \in Threads : \A p \in QueueSteps : pc'[u] = p <=> pc[u] = p
  OBVIOUS
<1>4. \A u \in Threads : /\ Joins(u)' <=> Joins(u)
                         /\ Joins(u) => Sem(u)' = Sem(u)
                         /\ pc'[u] = "setTail" <=> pc[u] = "setTail"
  BY <1>3 DEF Joins, QueueSteps
<1>5. ASSUME NEW s \in Semaphores PROVE LineInv(s)'
  <2>1. LineInv(s) /\ Line(s)' = Line(s)
    BY <1>2 DEF QueuesInv
  <2>2. PICK line \in Seq(Threads) : line = Line(s) /\ line = Line(s)'
    BY <2>1 DEF LineInv
  <2>3. \A u \in Threads : InRing(line, u) =>
           Sem(u)' = s /\ (tstate'[u] = "BLOCKED" \/ Joins(u)')
    BY <1>4, <2>1, <2>2 DEF LineInv
  <2>4. \A u \in Threads : Joins(u)' /\ Sem(u)' = s => line # << >> /\ line[Len(line)] = u
    BY <1>4, <2>1, <2>2 DEF LineInv
  <2>5. line # << >> /\ (\A u \in Threads : ~(pc'[u] = "setTail" /\ Sem(u)' = s)) =>
           wait_tail[s] = line[Len(line)]
    BY <1>4, <2>1, <2>2 DEF LineInv, Joins
  <2> QED
    BY <1>1, <2>1, <2>2, <2>3, <2>4, <2>5 DEF LineInv, IsChain
<1>6. ASSUME NEW u \in Threads, NEW s \in Semaphores PROVE PlaceInv(u, s)'
  <2>1. PlaceInv(u, s) /\ Line(s)' = Line(s)
    BY <1>2 DEF QueuesInv
  <2> QED
    BY <1>1, <1>3, <2>1 DEF PlaceInv, EnqueueInv, DequeueInv, QueueSteps, TakenSteps
<1>7. \A u, h \in Threads : (Takes(u, h)' <=> Takes(u, h)) /\ (InLine(h)' <=> InLine(h))
  BY <1>2, <1>3 DEF Takes, InLine, QueueSteps
<1>8. TakenInv' /\ SleepInv'
  BY <1>3, <1>7 DEF QueuesInv, TakenInv, SleepInv, IsTaken, QueueSteps
<1> QED
  BY <1>2, <1>5, <1>6, <1>8 DEF QueuesInv

\* The steps at which something is said of a value.
UnitSteps == NoUnitSteps \cup {"takeUnit", "addUnit"}

\* What is known of the values holds as long as they and the lines stay.
LEMMA ValuesStay ==
    ASSUME ValueInv, UNCHANGED value, \A s \in Semaphores : Line(s)' = Line(s),
           \A u \in Threads :
              pc'[u] \in UnitSteps =>
                 pc'[u] = pc[u] /\ unit'[u] = unit[u] /\ Sem(u)' = Sem(u)
    PROVE  ValueInv'
<1>1. ASSUME NEW u \in Threads, NEW s \in Semaphores PROVE UnitInv(u, s)'
  BY DEF ValueInv, UnitInv, UnitSteps
<1> QED
  BY <1>1 DEF ValueInv

-----------------------------------------------------------------------------
(* The steps of a worker that leave the scheduler alone.                   *)

\* What every step of one thread leaves as it is.
LEMMA StepOf ==
    ASSUME BaseInv, NEW t \in Threads, NEW from, NEW to \in WorkerSteps,
           Goto(t, from, to), from \notin {"blockedYield", "gone"}, UNCHANGED schedVars
    PROVE  /\ IInv' /\ OnlyCpuInWindow' /\ StatesFit'
           /\ cpu = Thread(t) /\ pc[t] = from /\ tstate[t] = "RUNNING"
           /\ pc' \in [Threads -> WorkerSteps] /\ pc'[t] = to
           /\ \A u \in Threads \ {t} : pc'[u] = pc[u] /\ pc[u] \notin Windows
           /\ UNCHANGED <<tstate, cpu>>
           /\ t # NULL
<1>1. /\ cpu = Thread(t) /\ pc[t] = from /\ pc' = [pc EXCEPT ![t] = to]
      /\ pc \in [Threads -> WorkerSteps]
  BY DEF Goto, Executes, BaseInv, SemTypeOK
<1>2. tstate[t] = "RUNNING"
  BY <1>1 DEF BaseInv, StatesFit
<1>3. UNCHANGED <<tstate, cpu>>
  BY DEF schedVars, threadVars, dispatchVars
<1>4. IInv'
  BY SchedulerKept DEF BaseInv
<1>5. OnlyCpuInWindow' /\ StatesFit'
  BY <1>1, <1>2, <1>3, OneOnCpu DEF BaseInv, OnlyCpuInWindow, StatesFit
<1>6. \A u \in Threads \ {t} : pc[u] \notin Windows
  BY <1>1, OneOnCpu DEF BaseInv, OnlyCpuInWindow
<1>7. t # NULL
  BY DEF Threads, NULL
<1> QED
  BY <1>1, <1>2, <1>3, <1>4, <1>5, <1>6, <1>7

\* A thread whose step, call and id stay is at the same call.
LEMMA CallStays ==
    ASSUME NEW u \in Threads, CallFits(u), pc'[u] = pc[u], call'[u] = call[u],
           id'[u] = id[u], tstate'[u] = "BLOCKED" => tstate[u] = "BLOCKED"
    PROVE  CallFits(u)'
BY SemStays DEF CallFits

\* The loop of sem_producer and sem_consumer and what they do outside of
\* sem_wait and sem_signal.
BodySteps == {"loop", "return", "loadDone", "storeDone"} \cup BufferSteps
Body(t) == \/ Loop(t) \/ Return(t) \/ LoadIndex(t) \/ PutItem(t) \/ TakeItem(t)
           \/ LoadCount(t) \/ StoreCount(t) \/ LoadDone(t) \/ StoreDone(t)

\* From where to where the steps outside of sem_wait and sem_signal lead.
LEMMA BodyGoes ==
    ASSUME SemTypeOK, NEW t \in Threads, Body(t)
    PROVE  \E from \in BodySteps, to \in {"testValue", "loadDone", "loadIndex", "loadCount",
              "testWaiter", "yield", "putItem", "takeItem", "storeCount", "storeDone", "exit"} :
              /\ Goto(t, from, to)
              /\ from = "loop" => to \in {"testValue", "loadDone"}
              /\ from = "return" /\ call[t] = 1 => to = "testValue"
              /\ from = "return" /\ call[t] = 2 => to \in {"loadIndex", "loadCount"}
              /\ from = "return" /\ call[t] = 3 => to = "testWaiter"
              /\ from = "return" /\ call[t] = 4 => to = "yield"
              /\ from \in BufferSteps =>
                    to \in {"putItem", "takeItem", "loadCount", "storeCount", "loadIndex",
                            "testWaiter"}
              /\ to = "putItem" => IsProducer(t)
              /\ to = "takeItem" => ~IsProducer(t)
              /\ from = "loadDone" => to = "storeDone"
              /\ from = "storeDone" => to = "exit"
              /\ from = "return" => call'[t] = IF call[t] = 4 THEN 1 ELSE call[t] + 1
              /\ from # "return" => call'[t] = call[t]
              /\ call' \in [Threads -> 1..4]
              /\ \A u \in Threads \ {t} : call'[u] = call[u]
<1>1. call \in [Threads -> 1..4] /\ call[t] \in 1..4
  BY DEF SemTypeOK
<1>2. CASE Return(t)
  <2>1. /\ call' = [call EXCEPT ![t] = (call[t] % 4) + 1]
        /\ Goto(t, "return", <<"testValue",
                               IF IsProducer(t) THEN "loadIndex" ELSE "loadCount",
                               "testWaiter", "yield">>[call[t]])
    BY <1>2 DEF Return
  <2>2. (call[t] % 4) + 1 = IF call[t] = 4 THEN 1 ELSE call[t] + 1
    BY <1>1
  <2> DEFINE to == <<"testValue", IF IsProducer(t) THEN "loadIndex" ELSE "loadCount",
                     "testWaiter", "yield">>[call[t]]
  <2>3. /\ call[t] = 1 => to = "testValue"
        /\ call[t] = 2 => to \in {"loadIndex", "loadCount"}
        /\ call[t] = 3 => to = "testWaiter"
        /\ call[t] = 4 => to = "yield"
    OBVIOUS
  <2> HIDE DEF to
  <2>4. to \in {"testValue", "loadIndex", "loadCount", "testWaiter", "yield"}
    BY <1>1, <2>3
  <2>5. Goto(t, "return", to)
    BY <2>1 DEF to
  <2>6. /\ call' \in [Threads -> 1..4]
        /\ call'[t] = IF call[t] = 4 THEN 1 ELSE call[t] + 1
        /\ \A u \in Threads \ {t} : call'[u] = call[u]
    BY <1>1, <2>1, <2>2
  <2>7. "return" \in BodySteps \ BufferSteps
    BY DEF BodySteps, BufferSteps
  <2>8. call[t] = 1 \/ call[t] = 2 \/ call[t] = 3 \/ call[t] = 4
    BY <1>1
  <2>9. "return" # "loop" /\ "return" # "loadDone" /\ "return" # "storeDone"
    OBVIOUS
  <2>10. to # "putItem" /\ to # "takeItem"
    BY <2>4
  <2>11. to \in {"testValue", "loadDone", "loadIndex", "loadCount", "testWaiter", "yield",
                "putItem", "takeItem", "storeCount", "storeDone", "exit"}
    BY <2>4
  <2> USE <2>7, <2>11
  <2> WITNESS "return" \in BodySteps, to \in {"testValue", "loadDone", "loadIndex",
              "loadCount", "testWaiter", "yield", "putItem", "takeItem", "storeCount",
              "storeDone", "exit"}
  <2> QED
    BY <2>3, <2>5, <2>6, <2>8, <2>9, <2>10
<1>3. CASE Body(t) /\ ~Return(t)
  <2>1. call' = call
    BY <1>3 DEF Body, Loop, LoadIndex, PutItem, TakeItem, LoadCount, StoreCount, LoadDone,
       StoreDone
  <2> QED
    BY <1>1, <1>3, <2>1 DEF Body, Loop, LoadIndex, PutItem, TakeItem, LoadCount, StoreCount,
       LoadDone, StoreDone, BodySteps, BufferSteps
<1> QED
  BY <1>2, <1>3

LEMMA BodyTypes ==
    ASSUME SemTypeOK, NEW t \in Threads, Body(t)
    PROVE  /\ UNCHANGED <<schedVars, value, unit, queueVars, next, loaded, id, i>>
           /\ buffer_count' \in Int /\ reg' \in [Threads -> Int] /\ sem_done' \in Int
           /\ \A u \in Threads \ {t} : reg'[u] = reg[u]
<1>1. UNCHANGED <<schedVars, value, unit, queueVars, next, loaded, id, i>>
  BY DEF Body, Loop, Return, LoadIndex, PutItem, TakeItem, LoadCount, StoreCount, LoadDone,
     StoreDone, semVars, locals
<1>2. reg \in [Threads -> Int] /\ buffer_count \in Int /\ sem_done \in Int
  BY DEF SemTypeOK
<1>3. /\ reg' \in [Threads -> Int]
      /\ \A u \in Threads \ {t} : reg'[u] = reg[u]
  BY <1>2 DEF Body, Loop, Return, LoadIndex, PutItem, TakeItem, LoadCount, StoreCount,
     LoadDone, StoreDone
<1>4. buffer_count' \in Int /\ sem_done' \in Int
  BY <1>2 DEF Body, Loop, Return, LoadIndex, PutItem, TakeItem, LoadCount, StoreCount,
     LoadDone, StoreDone, bufferVars
<1> QED
  BY <1>1, <1>3, <1>4

LEMMA BodyStep ==
    ASSUME SemInv, NEW t \in Threads, Body(t)
    PROVE  SemInv' /\ \A s : Line(s)' = Line(s)
<1>1. BaseInv /\ SemTypeOK /\ QueuesInv /\ ValueInv /\ CallFits(t)
  BY DEF SemInv, BaseInv, CallsFit
<1>2. PICK from \in BodySteps, to \in {"testValue", "loadDone", "loadIndex", "loadCount",
              "testWaiter", "yield", "putItem", "takeItem", "storeCount", "storeDone", "exit"} :
         /\ Goto(t, from, to)
         /\ from = "loop" => to \in {"testValue", "loadDone"}
         /\ from = "return" /\ call[t] = 1 => to = "testValue"
         /\ from = "return" /\ call[t] = 2 => to \in {"loadIndex", "loadCount"}
         /\ from = "return" /\ call[t] = 3 => to = "testWaiter"
         /\ from = "return" /\ call[t] = 4 => to = "yield"
         /\ from \in BufferSteps =>
               to \in {"putItem", "takeItem", "loadCount", "storeCount", "loadIndex",
                       "testWaiter"}
         /\ to = "putItem" => IsProducer(t)
         /\ to = "takeItem" => ~IsProducer(t)
         /\ from = "loadDone" => to = "storeDone"
         /\ from = "storeDone" => to = "exit"
         /\ from = "return" => call'[t] = IF call[t] = 4 THEN 1 ELSE call[t] + 1
         /\ from # "return" => call'[t] = call[t]
         /\ call' \in [Threads -> 1..4]
         /\ \A u \in Threads \ {t} : call'[u] = call[u]
  BY <1>1, BodyGoes
<1>3. /\ UNCHANGED <<schedVars, value, unit, queueVars, next, loaded, id, i>>
      /\ buffer_count' \in Int /\ reg' \in [Threads -> Int] /\ sem_done' \in Int
  BY <1>1, BodyTypes
<1>4. /\ to \in WorkerSteps /\ from \notin {"blockedYield", "gone"}
      /\ from \notin QueueSteps /\ to \notin QueueSteps
      /\ from \notin UnitSteps /\ to \notin UnitSteps
  BY DEF WorkerSteps, WaitSteps, SignalSteps, DequeueSteps, BodySteps, BufferSteps, QueueSteps,
     TakenSteps, UnitSteps, NoUnitSteps
<1>5. /\ IInv' /\ OnlyCpuInWindow' /\ StatesFit'
      /\ cpu = Thread(t) /\ pc[t] = from /\ tstate[t] = "RUNNING"
      /\ pc' \in [Threads -> WorkerSteps] /\ pc'[t] = to
      /\ \A u \in Threads \ {t} : pc'[u] = pc[u] /\ pc[u] \notin Windows
      /\ UNCHANGED <<tstate, cpu>>
  BY <1>1, <1>2, <1>3, <1>4, StepOf
<1>6. SemTypeOK'
  BY <1>1, <1>2, <1>3, <1>5 DEF SemTypeOK, WaitQueueTypeOK, queueVars
<1>7. \A u \in Threads \ {t} : Sem(u)' = Sem(u)
  BY <1>2, <1>3, SemStays
<1>8. CallsFit'
  <2>1. ASSUME NEW u \in Threads, u # t PROVE CallFits(u)'
    BY <1>1, <1>2, <1>3, <1>5, <2>1, CallStays DEF BaseInv, CallsFit
  <2>2. CallFits(t)'
    <3>1. call[t] \in 1..4 /\ (IsProducer(t)' <=> IsProducer(t))
      BY <1>1, <1>3 DEF SemTypeOK, IsProducer
    <3>2. /\ tstate'[t] # "BLOCKED" /\ pc'[t] = to /\ pc[t] = from
          /\ to = "putItem" => IsProducer(t)'
          /\ to = "takeItem" => ~IsProducer(t)'
      BY <1>2, <1>5, <3>1
    <3>3. CASE from = "return"
      <4>1. CASE call[t] \in {1, 2}
        BY <1>2, <3>2, <3>3, <4>1
        DEF CallFits, BufferSteps, OutOfCalls, WaitSteps, SignalSteps, EnqueueSteps, DequeueSteps
      <4>2. CASE call[t] \in {3, 4}
        BY <1>2, <3>2, <3>3, <4>2
        DEF CallFits, BufferSteps, OutOfCalls, WaitSteps, SignalSteps, EnqueueSteps, DequeueSteps
      <4> QED
        BY <3>1, <4>1, <4>2
    <3>4. CASE from \in BufferSteps
      <4>1. call[t] = 3
        BY <1>1, <3>2, <3>4 DEF CallFits
      <4>2. call'[t] = 3
        BY <1>2, <3>4, <4>1 DEF BufferSteps
      <4> QED
        BY <1>2, <3>2, <3>4, <4>2
        DEF CallFits, BufferSteps, OutOfCalls, WaitSteps, SignalSteps, EnqueueSteps, DequeueSteps
    <3>5. CASE from \in {"loop", "loadDone", "storeDone"}
      <4>1. call[t] = 1
        BY <1>1, <3>2, <3>5 DEF CallFits, OutOfCalls
      <4>2. call'[t] = 1
        BY <1>2, <3>5, <4>1
      <4> QED
        BY <1>2, <3>2, <3>5, <4>2
        DEF CallFits, BufferSteps, OutOfCalls, WaitSteps, SignalSteps, EnqueueSteps, DequeueSteps
    <3> QED
      BY <3>3, <3>4, <3>5 DEF BodySteps
  <2> QED
    BY <2>1, <2>2 DEF CallsFit
<1>9. QueuesInv' /\ \A s : Line(s)' = Line(s)
  BY <1>1, <1>3, <1>4, <1>5, <1>7, QueuesStay
<1>10. ValueInv'
  BY <1>1, <1>3, <1>4, <1>5, <1>7, <1>9, ValuesStay
<1> QED
  BY <1>5, <1>6, <1>8, <1>9, <1>10 DEF SemInv, BaseInv

\* The steps of sem_wait and sem_signal that read or change the value.
LEMMA UnitStep ==
    ASSUME SemInv, NEW t \in Threads, NEW s \in Semaphores, s = Sem(t),
           TestValue(t, s) \/ TakeUnit(t, s, "return") \/ AddUnit(t, s, "return"),
           UNCHANGED <<bufferVars, id, i, call, reg, sem_done>>
    PROVE  /\ SemInv' /\ \A q : Line(q)' = Line(q)
           /\ TakeUnit(t, s, "return") => value[s] > 0 /\ value' = [value EXCEPT ![s] = value[s] - 1]
           /\ AddUnit(t, s, "return") => Line(s) = << >> /\ value' = [value EXCEPT ![s] = value[s] + 1]
<1> USE DEF bufferVars
<1>1. /\ BaseInv /\ SemTypeOK /\ QueuesInv /\ ValueInv /\ CallsFit /\ CallFits(t)
      /\ value \in [Semaphores -> Int] /\ unit \in [Threads -> Int]
      /\ value[s] >= 0
  BY DEF SemInv, BaseInv, CallsFit, SemTypeOK, ValueInv
<1>2. PICK from \in {"testValue", "takeUnit", "addUnit"}, to \in {"takeUnit", "testQueue", "return"} :
         /\ Goto(t, from, to)
         /\ TestValue(t, s) => /\ from = "testValue" /\ unit' = [unit EXCEPT ![t] = value[s]]
                               /\ to = IF value[s] > 0 THEN "takeUnit" ELSE "testQueue"
                               /\ value' = value
         /\ TakeUnit(t, s, "return") => /\ from = "takeUnit" /\ to = "return"
                                        /\ value' = [value EXCEPT ![s] = unit[t] - 1]
                                        /\ unit' = [unit EXCEPT ![t] = 0]
         /\ AddUnit(t, s, "return") => /\ from = "addUnit" /\ to = "return"
                                       /\ value' = [value EXCEPT ![s] = value[s] + 1]
                                       /\ unit' = unit
  <2>1. CASE TestValue(t, s)
    BY <2>1 DEF TestValue, TakeUnit, AddUnit, Goto, Executes
  <2>2. CASE TakeUnit(t, s, "return")
    BY <2>2 DEF TestValue, TakeUnit, AddUnit, Goto, Executes
  <2>3. CASE AddUnit(t, s, "return")
    BY <2>3 DEF TestValue, TakeUnit, AddUnit, Goto, Executes
  <2> QED
    BY <2>1, <2>2, <2>3
<1>3. /\ UNCHANGED <<schedVars, queueVars, next, loaded, id, i, call, reg, buffer_count, sem_done>>
      /\ from \notin {"blockedYield", "gone"} /\ to \in WorkerSteps
      /\ from \notin QueueSteps /\ to \notin QueueSteps
  BY DEF TestValue, TakeUnit, AddUnit, locals, WorkerSteps, WaitSteps, EnqueueSteps, QueueSteps,
     TakenSteps
<1>4. /\ IInv' /\ OnlyCpuInWindow' /\ StatesFit'
      /\ cpu = Thread(t) /\ pc[t] = from /\ tstate[t] = "RUNNING"
      /\ pc' \in [Threads -> WorkerSteps] /\ pc'[t] = to
      /\ \A u \in Threads \ {t} : pc'[u] = pc[u] /\ pc[u] \notin Windows
      /\ UNCHANGED <<tstate, cpu>>
  BY <1>1, <1>2, <1>3, StepOf
<1>5. \A u \in Threads : Sem(u)' = Sem(u)
  BY <1>3, SemStays
<1>6. UnitInv(t, s)
  BY <1>1 DEF ValueInv
<1>7. /\ from = "takeUnit" => unit[t] = value[s] /\ value[s] > 0
      /\ from = "addUnit" => Line(s) = << >>
  BY <1>4, <1>6 DEF UnitInv
<1>8. SemTypeOK'
  BY <1>1, <1>2, <1>3, <1>4 DEF SemTypeOK, WaitQueueTypeOK, queueVars
<1>9. CallsFit'
  <2>1. ASSUME NEW u \in Threads, u # t PROVE CallFits(u)'
    BY <1>1, <1>3, <1>4, <2>1, CallStays DEF CallsFit
  <2>2. CallFits(t)'
    BY <1>1, <1>2, <1>3, <1>4
    DEF CallFits, OutOfCalls, WaitSteps, BufferSteps, SignalSteps, EnqueueSteps, DequeueSteps
  <2> QED
    BY <2>1, <2>2 DEF CallsFit
<1>10. QueuesInv' /\ \A q : Line(q)' = Line(q)
  BY <1>1, <1>3, <1>4, <1>5, QueuesStay
<1>11. ValueInv'
  <2>1. ASSUME NEW q \in Semaphores
        PROVE  value'[q] >= 0 /\ (Line(q)' # << >> => value'[q] = 0)
    <3>1. value[q] >= 0 /\ (Line(q) # << >> => value[q] = 0) /\ Line(q)' = Line(q)
      BY <1>1, <1>10 DEF ValueInv
    <3> QED
      BY <1>1, <1>2, <1>7, <3>1
  <2>2. ASSUME NEW u \in Threads, NEW q \in Semaphores PROVE UnitInv(u, q)'
    <3>1. CASE u # t
      BY <1>4, <3>1 DEF UnitInv, NoUnitSteps, Windows
    <3>2. CASE u = t
      BY <1>1, <1>2, <1>4, <1>5, <3>2 DEF UnitInv, NoUnitSteps
    <3> QED
      BY <3>1, <3>2
  <2> QED
    BY <2>1, <2>2 DEF ValueInv
<1>12. SemInv'
  BY <1>4, <1>8, <1>9, <1>10, <1>11 DEF SemInv, BaseInv
<1> QED
  BY <1>2, <1>4, <1>7, <1>10, <1>12

-----------------------------------------------------------------------------
(* The steps of sem_wait and sem_signal on a waiting line.                 *)

LinkingSteps == {"testQueue", "setHead", "loadTail", "linkTail", "setTail"}
TakingSteps == {"testWaiter", "loadNext", "setNewHead", "clearTail", "clearNext"}
WithinWait(from, to) == from \in LinkingSteps /\ to \in NoUnitSteps
WithinSignal(from, to) == from \in TakingSteps /\ to \in SignalSteps \ {"testWaiter"}

\* What such a step leaves as it is.
LEMMA LineStep ==
    ASSUME SemInv, NEW t \in Threads, NEW from, NEW to,
           WithinWait(from, to) \/ WithinSignal(from, to), Goto(t, from, to),
           UNCHANGED <<schedVars, value, unit, bufferVars, id, i, call, reg, sem_done>>,
           WaitQueueTypeOK(Semaphores)'
    PROVE  /\ BaseInv'
           /\ cpu = Thread(t) /\ pc[t] = from /\ tstate[t] = "RUNNING" /\ t # NULL
           /\ pc'[t] = to /\ tstate' = tstate /\ value' = value
           /\ \A u \in Threads \ {t} : pc'[u] = pc[u] /\ pc[u] \notin Windows
           /\ \A u \in Threads : Sem(u)' = Sem(u)
           /\ \A u \in Threads \ {t} : \A q \in Semaphores : PlaceInv(u, q)' /\ UnitInv(u, q)'
           /\ (\A q \in Semaphores : Line(q)' # << >> => Line(q) # << >> \/ value[q] = 0)
              /\ (\A q \in Semaphores : UnitInv(t, q)') => ValueInv'
<1> USE DEF bufferVars
<1>1. BaseInv /\ SemTypeOK /\ ValueInv /\ CallsFit /\ CallFits(t)
  BY DEF SemInv, BaseInv, CallsFit
<1>2. to \in WorkerSteps /\ from \notin {"blockedYield", "gone"}
  BY DEF WithinWait, WithinSignal, LinkingSteps, TakingSteps, NoUnitSteps, WorkerSteps,
     WaitSteps, SignalSteps, EnqueueSteps, DequeueSteps
<1>3. /\ IInv' /\ OnlyCpuInWindow' /\ StatesFit'
      /\ cpu = Thread(t) /\ pc[t] = from /\ tstate[t] = "RUNNING"
      /\ pc' \in [Threads -> WorkerSteps] /\ pc'[t] = to
      /\ \A u \in Threads \ {t} : pc'[u] = pc[u] /\ pc[u] \notin Windows
      /\ UNCHANGED <<tstate, cpu>>
      /\ t # NULL
  BY <1>1, <1>2, StepOf
<1>4. SemTypeOK'
  BY <1>1, <1>3 DEF SemTypeOK
<1>5. CallsFit'
  <2>1. ASSUME NEW u \in Threads, u # t PROVE CallFits(u)'
    BY <1>1, <1>3, <2>1, CallStays DEF CallsFit
  <2>2. CallFits(t)'
    BY <1>1, <1>3
    DEF CallFits, WithinWait, WithinSignal, LinkingSteps, TakingSteps, NoUnitSteps,
        OutOfCalls, WaitSteps, BufferSteps, SignalSteps, EnqueueSteps, DequeueSteps
  <2> QED
    BY <2>1, <2>2 DEF CallsFit
<1>6. \A u \in Threads : Sem(u)' = Sem(u)
  BY SemStays
<1>7. \A u \in Threads \ {t} : \A q \in Semaphores : PlaceInv(u, q)' /\ UnitInv(u, q)'
  BY <1>3 DEF PlaceInv, EnqueueInv, DequeueInv, UnitInv, NoUnitSteps, Windows
<1>8. (\A q \in Semaphores : Line(q)' # << >> => Line(q) # << >> \/ value[q] = 0)
      /\ (\A q \in Semaphores : UnitInv(t, q)') => ValueInv'
  BY <1>1, <1>7 DEF ValueInv
<1> QED
  BY <1>3, <1>4, <1>5, <1>6, <1>7, <1>8 DEF BaseInv

\* A thread that runs is in no line unless it has just linked itself to one,
\* and nobody is about to wake it.
LEMMA AwakeIsNotInLine ==
    ASSUME QueuesInv, NEW t \in Threads, tstate[t] = "RUNNING"
    PROVE  ~Joins(t) => ~InLine(t)
           /\ \A u \in Threads : ~Takes(u, t)
BY DEF QueuesInv, LineInv, InLine, TakenInv, Takes

\* The line is empty when its head is.
LEMMA HeadOf ==
    ASSUME NEW q, LineInv(q)
    PROVE  /\ wait_head[q] = NULL <=> Line(q) = << >>
           /\ Line(q) # << >> => Line(q)[1] \in Threads /\ wait_head[q] = Line(q)[1]
<1>1. PICK line \in Seq(Threads) : line = Line(q) /\ wait_head[q] = FirstOf(line)
  BY DEF LineInv
<1>2. line # << >> => line[1] \in Threads
  OBVIOUS
<1>3. NULL \notin Threads
  BY DEF Threads, NULL
<1> QED
  BY <1>1, <1>2, <1>3 DEF FirstOf

\* A line none of whose links is changed.
LEMMA ChainStays ==
    ASSUME NEW q \in Semaphores, LineInv(q), wait_head'[q] = wait_head[q],
           wait_next' \in [Threads -> Slots],
           \A u \in Threads : InRing(Line(q), u) => wait_next'[u] = wait_next[u]
    PROVE  Line(q)' = Line(q) /\ IsChain(wait_next', Line(q))
<1>1. PICK line \in Seq(Threads) : line = Line(q)
  BY DEF LineInv
<1>2. \A k \in 1..Len(line) : line[k] \in Threads /\ InRing(line, line[k])
  BY DEF InRing
<1>3. IsChain(wait_next', line)
  BY <1>1, <1>2 DEF LineInv, IsChain
<1>4. NoRepeats(line) /\ wait_head'[q] = FirstOf(line)
  BY <1>1 DEF LineInv
<1> QED
  BY <1>1, <1>3, <1>4, LineIsChain

\* What is left to show of it: who joins it, and its tail.
LEMMA LineHolds ==
    ASSUME NEW q \in Semaphores, LineInv(q), Line(q)' = Line(q),
           wait_head'[q] = wait_head[q], IsChain(wait_next', Line(q)),
           \A u \in Threads : /\ InRing(Line(q), u) =>
                                   /\ Sem(u)' = Sem(u)
                                   /\ tstate[u] = "BLOCKED" => tstate'[u] = "BLOCKED"
                              /\ Joins(u)' /\ Sem(u)' = q => Joins(u) /\ Sem(u) = q
                              /\ Joins(u) => Joins(u)' \/ tstate'[u] = "BLOCKED",
           Line(q) # << >> /\ (\A u \in Threads : ~(pc'[u] = "setTail" /\ Sem(u)' = q)) =>
              wait_tail'[q] = Line(q)[Len(Line(q))]
    PROVE  LineInv(q)'
BY DEF LineInv

\* The parts of TakenInv and SleepInv when no thread is taken or woken.
LEMMA SleepersStay ==
    ASSUME TakenInv, SleepInv, NEW t \in Threads, tstate[t] = "RUNNING", UNCHANGED tstate,
           \A u \in Threads \ {t} : pc'[u] = pc[u],
           \A u \in Threads : pc[u] \in TakenSteps => next'[u] = next[u],
           pc'[t] \in TakenSteps <=> pc[t] \in TakenSteps,
           \A u \in Threads : u # t => (InLine(u)' <=> InLine(u))
    PROVE  TakenInv' /\ SleepInv'
<1>1. \A u, h \in Threads : Takes(u, h)' <=> Takes(u, h)
  BY DEF Takes
<1>2. \A u \in Threads : pc'[u] \in TakenSteps <=> pc[u] \in TakenSteps
  OBVIOUS
<1>3. TakenInv'
  <2>1. ASSUME NEW u \in Threads, pc'[u] \in TakenSteps
        PROVE  /\ next'[u] \in Threads
               /\ tstate'[next'[u]] = "BLOCKED"
               /\ ~InLine(next[u])'
               /\ next'[u] = next[u]
    <3>1. PICK h \in Threads : h = next[u] /\ h = next'[u] /\ tstate[h] = "BLOCKED" /\ ~InLine(h)
      BY <1>2, <2>1 DEF TakenInv
    <3>2. ~InLine(h)'
      BY <3>1
    <3> QED
      BY <3>1, <3>2
  <2>2. \A u, v, h \in Threads : Takes(u, h)' /\ Takes(v, h)' => u = v
    BY <1>1 DEF TakenInv
  <2> QED
    BY <2>1, <2>2 DEF TakenInv
<1>4. SleepInv'
  BY <1>1 DEF SleepInv, IsTaken
<1> QED
  BY <1>3, <1>4

\* Within sem_wait, the steps before and after the link to the line.
LEMMA EnqueueStep ==
    ASSUME SemInv, NEW t \in Threads, NEW s \in Semaphores, s = Sem(t),
           TestQueue(t, s) \/ LoadTail(t, s) \/ SetTail(t, s),
           UNCHANGED <<value, unit, bufferVars, id, i, call, reg, sem_done>>
    PROVE  SemInv' /\ \A q \in Semaphores : Line(q)' = Line(q)
<1> USE DEF queueVars, locals
<1>1. /\ QueuesInv /\ ValueInv /\ LineInv(s) /\ PlaceInv(t, s) /\ UnitInv(t, s)
      /\ TakenInv /\ SleepInv /\ WaitQueueTypeOK(Semaphores)
      /\ wait_head[s] = FirstOf(Line(s)) /\ Line(s) \in Seq(Threads)
  BY DEF SemInv, BaseInv, SemTypeOK, QueuesInv, ValueInv, LineInv
<1>2. PICK from \in {"testQueue", "loadTail", "setTail"},
           to \in {"setHead", "loadTail", "linkTail", "block"} :
         /\ Goto(t, from, to)
         /\ TestQueue(t, s) <=> from = "testQueue"
         /\ LoadTail(t, s) <=> from = "loadTail"
         /\ SetTail(t, s) <=> from = "setTail"
         /\ from = "testQueue" => to = IF wait_head[s] = NULL THEN "setHead" ELSE "loadTail"
         /\ from = "loadTail" => to = "linkTail"
         /\ from = "setTail" => to = "block"
  <2>1. CASE TestQueue(t, s)
    BY <2>1 DEF TestQueue, LoadTail, SetTail, Goto, Executes
  <2>2. CASE LoadTail(t, s)
    BY <2>2 DEF TestQueue, LoadTail, SetTail, Goto, Executes
  <2>3. CASE SetTail(t, s)
    BY <2>3 DEF TestQueue, LoadTail, SetTail, Goto, Executes
  <2> QED
    BY <2>1, <2>2, <2>3
<1>3. /\ UNCHANGED <<schedVars, wait_head, next>>
      /\ from = "testQueue" => /\ wait_next' = [wait_next EXCEPT ![t] = NULL]
                               /\ UNCHANGED <<wait_tail, loaded>>
      /\ from = "loadTail" => /\ loaded' = [loaded EXCEPT ![t] = wait_tail[s]]
                              /\ UNCHANGED <<wait_tail, wait_next>>
      /\ from = "setTail" => /\ wait_tail' = [wait_tail EXCEPT ![s] = t]
                             /\ UNCHANGED <<wait_next, loaded>>
  BY <1>2 DEF TestQueue, LoadTail, SetTail
<1>4. WaitQueueTypeOK(Semaphores)' /\ wait_next' \in [Threads -> Slots]
  BY <1>1, <1>2, <1>3 DEF WaitQueueTypeOK, Slots
<1>5. WithinWait(from, to)
  BY DEF WithinWait, LinkingSteps, NoUnitSteps
<1>6. /\ BaseInv'
      /\ cpu = Thread(t) /\ pc[t] = from /\ tstate[t] = "RUNNING" /\ t # NULL
      /\ pc'[t] = to /\ tstate' = tstate /\ value' = value
      /\ \A u \in Threads \ {t} : pc'[u] = pc[u] /\ pc[u] \notin Windows
      /\ \A u \in Threads : Sem(u)' = Sem(u)
      /\ \A u \in Threads \ {t} : \A q \in Semaphores : PlaceInv(u, q)' /\ UnitInv(u, q)'
      /\ (\A q \in Semaphores : Line(q)' # << >> => Line(q) # << >> \/ value[q] = 0)
         /\ (\A q \in Semaphores : UnitInv(t, q)') => ValueInv'
  BY <1>2, <1>3, <1>4, <1>5, LineStep
<1>7. ASSUME NEW q \in Semaphores
      PROVE  Line(q)' = Line(q) /\ IsChain(wait_next', Line(q)) /\ LineInv(q)
  <2>1. LineInv(q)
    BY <1>1 DEF QueuesInv
  <2>2. \A u \in Threads : InRing(Line(q), u) => wait_next'[u] = wait_next[u]
    <3>1. CASE from = "testQueue"
      <4>1. ~InRing(Line(q), t)
        BY <1>1, <1>6, <3>1, AwakeIsNotInLine DEF Joins, InLine
      <4> QED
        BY <1>1, <1>3, <3>1, <4>1 DEF WaitQueueTypeOK
    <3>2. CASE from # "testQueue"
      BY <1>3, <3>2
    <3> QED
      BY <3>1, <3>2
  <2> QED
    BY <1>3, <1>4, <2>1, <2>2, ChainStays
<1>8. ASSUME NEW q \in Semaphores PROVE LineInv(q)'
  <2>1. \A u \in Threads : /\ Joins(u)' => Joins(u)
                           /\ Joins(u) => Joins(u)'
                           /\ u # t => pc'[u] # "setTail" /\ pc[u] # "setTail"
    BY <1>2, <1>6 DEF Joins, Windows
  <2>2. Line(q) # << >> /\ (\A u \in Threads : ~(pc'[u] = "setTail" /\ Sem(u)' = q)) =>
           wait_tail'[q] = Line(q)[Len(Line(q))]
    <3>1. CASE from = "setTail" /\ q = s
      <4>1. Line(s)[Len(Line(s))] = t
        BY <1>1, <1>6, <3>1 DEF LineInv, Joins
      <4> QED
        BY <1>1, <1>3, <3>1, <4>1 DEF WaitQueueTypeOK
    <3>2. CASE ~(from = "setTail" /\ q = s)
      <4>1. wait_tail'[q] = wait_tail[q] /\ \A u \in Threads : ~(pc[u] = "setTail" /\ Sem(u) = q)
        BY <1>1, <1>2, <1>3, <1>6, <2>1, <3>2 DEF WaitQueueTypeOK
      <4> QED
        BY <1>7, <4>1 DEF LineInv
    <3> QED
      BY <3>1, <3>2
  <2> QED
    BY <1>3, <1>6, <1>7, <2>1, <2>2, LineHolds
<1>9. ASSUME NEW q \in Semaphores PROVE PlaceInv(t, q)' /\ UnitInv(t, q)'
  <2>1. Line(q)' = Line(q)
    BY <1>7
  <2>2. CASE q # s
    BY <1>6, <2>2 DEF PlaceInv, UnitInv
  <2>3. CASE q = s
    <3>1. value[s] = 0
      BY <1>1, <1>2, <1>6 DEF UnitInv, NoUnitSteps
    <3>2. UnitInv(t, q)'
      BY <1>2, <1>6, <2>3, <3>1 DEF UnitInv, NoUnitSteps
    <3>3. CASE from = "testQueue"
      <4>1. /\ wait_next'[t] = NULL
            /\ pc'[t] = IF Line(s) = << >> THEN "setHead" ELSE "loadTail"
        <5>1. wait_head[s] = NULL <=> Line(s) = << >>
          BY <1>1, HeadOf
        <5> QED
          BY <1>1, <1>2, <1>3, <1>6, <3>3, <5>1 DEF WaitQueueTypeOK
      <4> QED
        BY <2>1, <2>3, <3>2, <4>1 DEF PlaceInv, EnqueueInv, DequeueInv
    <3>4. CASE from = "loadTail"
      <4>1. /\ wait_next'[t] = NULL /\ pc'[t] = "linkTail" /\ Line(s) # << >>
            /\ loaded'[t] = Line(s)[Len(Line(s))]
        <5>1. wait_next[t] = NULL /\ Line(s) # << >>
          BY <1>1, <1>6, <3>4 DEF PlaceInv, EnqueueInv
        <5>2. wait_tail[s] = Line(s)[Len(Line(s))]
          BY <1>1, <1>6, <3>4, <5>1 DEF LineInv, Windows
        <5> QED
          BY <1>1, <1>2, <1>3, <1>6, <3>4, <5>1, <5>2 DEF WaitQueueTypeOK
      <4> QED
        BY <2>1, <2>3, <3>2, <4>1 DEF PlaceInv, EnqueueInv, DequeueInv
    <3>5. CASE from = "setTail"
      BY <1>2, <1>6, <3>2, <3>5 DEF PlaceInv, EnqueueInv, DequeueInv
    <3> QED
      BY <3>3, <3>4, <3>5
  <2> QED
    BY <2>2, <2>3
<1>10. TakenInv' /\ SleepInv'
  <2>1. \A u \in Threads : InLine(u)' <=> InLine(u)
    BY <1>7 DEF InLine
  <2>2. pc'[t] \notin TakenSteps /\ pc[t] \notin TakenSteps
    BY <1>6 DEF TakenSteps
  <2> QED
    BY <1>1, <1>3, <1>6, <2>1, <2>2, SleepersStay
<1>11. QueuesInv'
  BY <1>6, <1>8, <1>9, <1>10 DEF QueuesInv
<1>12. ValueInv'
  BY <1>6, <1>7, <1>9
<1> QED
  BY <1>6, <1>7, <1>11, <1>12 DEF SemInv

\* The line with one more thread at its end, linked from the one before.
LEMMA ChainGrows ==
    ASSUME NEW line \in Seq(Threads), NoRepeats(line), NEW nx \in [Threads -> Slots],
           IsChain(nx, line), NEW t \in Threads, ~InRing(line, t), nx[t] = NULL,
           NEW nx2 \in [Threads -> Slots],
           nx2 = IF line = << >> THEN nx
                 ELSE [u \in Threads |-> IF u = line[Len(line)] THEN t ELSE nx[u]]
    PROVE  IsChain(nx2, Append(line, t))
<1> DEFINE longer == Append(line, t)
<1>1. /\ longer \in Seq(Threads) /\ Len(longer) = Len(line) + 1
      /\ longer[Len(line) + 1] = t
      /\ \A k \in 1..Len(line) : longer[k] = line[k]
  BY LinkAtTail
<1> HIDE DEF longer
<1>2. /\ \A k \in 1..Len(line) : line[k] \in Threads /\ line[k] # t
      /\ Len(line) \in Nat /\ line # << >> <=> Len(line) > 0
  BY DEF InRing
<1>3. CASE line = << >>
  BY <1>1, <1>2, <1>3 DEF IsChain, longer
<1>4. CASE line # << >>
  <2>1. ASSUME NEW k \in 1..Len(line)
        PROVE  nx2[line[k]] = longer[k + 1]
    <3>1. nx2[line[k]] = IF line[k] = line[Len(line)] THEN t ELSE nx[line[k]]
      BY <1>2, <1>4
    <3>2. line[k] = line[Len(line)] <=> k = Len(line)
      BY <1>2 DEF NoRepeats
    <3>3. k # Len(line) => nx[line[k]] = line[k + 1] /\ k + 1 \in 1..Len(line)
      BY <1>2 DEF IsChain
    <3> QED
      BY <1>1, <1>2, <3>1, <3>2, <3>3
  <2>2. nx2[t] = NULL
    BY <1>2, <1>4
  <2>3. ASSUME NEW k \in 1..(Len(line) + 1)
        PROVE  nx2[longer[k]] = IF k = Len(line) + 1 THEN NULL ELSE longer[k + 1]
    <3>1. CASE k = Len(line) + 1
      BY <1>1, <2>2, <3>1
    <3>2. CASE k # Len(line) + 1
      <4>1. k \in 1..Len(line)
        BY <1>2, <3>2
      <4> QED
        BY <1>1, <2>1, <3>2, <4>1
    <3> QED
      BY <3>1, <3>2
  <2> QED
    BY <1>1, <2>3 DEF IsChain, longer
<1> QED
  BY <1>3, <1>4

\* The newcomer becomes the last in line.
LEMMA JoinStep ==
    ASSUME SemInv, NEW t \in Threads, NEW s \in Semaphores, s = Sem(t),
           SetHead(t, s) \/ LinkTail(t),
           UNCHANGED <<value, unit, bufferVars, id, i, call, reg, sem_done>>
    PROVE  /\ SemInv'
           /\ value[s] = 0 /\ ~InRing(Line(s), t) /\ Line(s)' = Append(Line(s), t)
           /\ \A q \in Semaphores \ {s} : Line(q)' = Line(q)
<1> USE DEF locals
<1>1. /\ QueuesInv /\ ValueInv /\ LineInv(s) /\ PlaceInv(t, s) /\ UnitInv(t, s)
      /\ TakenInv /\ SleepInv /\ WaitQueueTypeOK(Semaphores)
  BY DEF SemInv, BaseInv, SemTypeOK, QueuesInv, ValueInv
<1>2. PICK from \in {"setHead", "linkTail"} :
         /\ Goto(t, from, "setTail")
         /\ UNCHANGED <<schedVars, wait_tail, next>>
         /\ from = "setHead" => /\ wait_head' = [wait_head EXCEPT ![s] = t]
                                /\ UNCHANGED <<wait_next, loaded>>
         /\ from = "linkTail" =>
              /\ wait_next' = [u \in Threads |-> IF u = loaded[t] THEN t ELSE wait_next[u]]
              /\ loaded' = [loaded EXCEPT ![t] = NULL]
              /\ UNCHANGED wait_head
  <2>1. CASE SetHead(t, s)
    BY <2>1 DEF SetHead
  <2>2. CASE LinkTail(t)
    BY <2>2 DEF LinkTail
  <2> QED
    BY <2>1, <2>2
<1>3. /\ wait_head \in [Semaphores -> Slots] /\ wait_next \in [Threads -> Slots]
      /\ WaitQueueTypeOK(Semaphores)' /\ wait_next' \in [Threads -> Slots]
  BY <1>1, <1>2 DEF WaitQueueTypeOK, Slots
<1>4. WithinWait(from, "setTail")
  BY DEF WithinWait, LinkingSteps, NoUnitSteps
<1>5. /\ BaseInv'
      /\ cpu = Thread(t) /\ pc[t] = from /\ tstate[t] = "RUNNING" /\ t # NULL
      /\ pc'[t] = "setTail" /\ tstate' = tstate /\ value' = value
      /\ \A u \in Threads \ {t} : pc'[u] = pc[u] /\ pc[u] \notin Windows
      /\ \A u \in Threads : Sem(u)' = Sem(u)
      /\ \A u \in Threads \ {t} : \A q \in Semaphores : PlaceInv(u, q)' /\ UnitInv(u, q)'
      /\ (\A q \in Semaphores : Line(q)' # << >> => Line(q) # << >> \/ value[q] = 0)
         /\ (\A q \in Semaphores : UnitInv(t, q)') => ValueInv'
  BY <1>2, <1>3, <1>4, LineStep
<1>6. PICK line \in Seq(Threads) : line = Line(s)
  BY <1>1 DEF LineInv
<1> DEFINE longer == Append(line, t)
<1>7. /\ longer \in Seq(Threads) /\ Len(longer) = Len(line) + 1
      /\ longer[Len(line) + 1] = t
      /\ \A k \in 1..Len(line) : longer[k] = line[k]
      /\ \A y : InRing(longer, y) <=> InRing(line, y) \/ y = t
      /\ NoRepeats(line) /\ ~InRing(line, t) => NoRepeats(longer)
      /\ longer # << >>
  BY LinkAtTail
<1>8. /\ ~InLine(t) /\ \A u \in Threads : ~Takes(u, t)
      /\ ~InRing(line, t) /\ value[s] = 0
      /\ wait_next[t] = NULL
      /\ from = "setHead" <=> line = << >>
      /\ from = "linkTail" => loaded[t] = line[Len(line)]
  BY <1>1, <1>5, <1>6, AwakeIsNotInLine
  DEF Joins, InLine, UnitInv, NoUnitSteps, PlaceInv, EnqueueInv
<1> HIDE DEF longer
<1>9. IsChain(wait_next', longer)
  <2>1. NoRepeats(line) /\ IsChain(wait_next, line)
    BY <1>1, <1>6 DEF LineInv
  <2>2. wait_next' = IF line = << >> THEN wait_next
                     ELSE [u \in Threads |-> IF u = line[Len(line)] THEN t ELSE wait_next[u]]
    BY <1>2, <1>8
  <2> QED
    BY <1>3, <1>8, <2>1, <2>2, ChainGrows DEF longer
<1>10. NoRepeats(longer) /\ wait_head'[s] = FirstOf(longer)
  <2>1. NoRepeats(longer)
    BY <1>1, <1>6, <1>7, <1>8 DEF LineInv
  <2>2. CASE line = << >>
    <3>1. longer[1] = t /\ from = "setHead"
      BY <1>7, <1>8, <2>2
    <3> QED
      BY <1>2, <1>3, <1>7, <2>1, <3>1 DEF FirstOf
  <2>3. CASE line # << >>
    <3>1. longer[1] = line[1] /\ from = "linkTail"
      BY <1>7, <1>8, <2>3
    <3> QED
      BY <1>1, <1>2, <1>6, <1>7, <2>1, <2>3, <3>1, HeadOf DEF FirstOf
  <2> QED
    BY <2>2, <2>3
<1>11. Line(s)' = longer
  BY <1>3, <1>7, <1>9, <1>10, LineIsChain
<1>12. ASSUME NEW q \in Semaphores, q # s
       PROVE  Line(q)' = Line(q) /\ LineInv(q)'
  <2>1. LineInv(q)
    BY <1>1 DEF QueuesInv
  <2>2. wait_head'[q] = wait_head[q]
    BY <1>2, <1>3, <1>12
  <2>3. ASSUME NEW u \in Threads, InRing(Line(q), u) PROVE wait_next'[u] = wait_next[u]
    <3>1. Sem(u) = q
      BY <2>1, <2>3 DEF LineInv
    <3>2. ~InRing(line, u)
      BY <1>1, <1>6, <1>12, <3>1 DEF LineInv
    <3>3. from = "linkTail" => u # loaded[t]
      <4>1. line # << >> => Len(line) \in DOMAIN line
        OBVIOUS
      <4> QED
        BY <1>8, <3>2, <4>1 DEF InRing
    <3> QED
      BY <1>2, <1>3, <3>3
  <2>4. Line(q)' = Line(q) /\ IsChain(wait_next', Line(q))
    BY <1>3, <2>1, <2>2, <2>3, ChainStays
  <2>5. \A u \in Threads : /\ Joins(u)' /\ Sem(u)' = q => Joins(u) /\ Sem(u) = q
                           /\ Joins(u) => Joins(u)'
                           /\ u # t => pc[u] # "setTail"
    BY <1>5, <1>12 DEF Joins, Windows
  <2>6. Line(q) # << >> => wait_tail'[q] = Line(q)[Len(Line(q))]
    <3>1. \A u \in Threads : ~(pc[u] = "setTail" /\ Sem(u) = q)
      BY <1>5, <1>12, <2>5
    <3> QED
      BY <1>2, <2>1, <3>1 DEF LineInv
  <2>7. LineInv(q)'
    BY <1>5, <2>1, <2>2, <2>4, <2>5, <2>6, LineHolds
  <2> QED
    BY <2>4, <2>7
<1>13. LineInv(s)'
  <2>1. \A u \in Threads : Joins(u)' => u = t
    BY <1>5 DEF Joins, Windows
  <2>2. \A u \in Threads : InRing(longer, u) => Sem(u)' = s /\ (tstate'[u] = "BLOCKED" \/ Joins(u)')
    <3>1. \A u \in Threads : InRing(line, u) => Sem(u) = s /\ tstate[u] = "BLOCKED"
      BY <1>1, <1>5, <1>6, <1>8 DEF LineInv, Joins, Windows
    <3>2. Joins(t)'
      BY <1>5 DEF Joins
    <3> QED
      BY <1>5, <1>7, <3>1, <3>2
  <2>3. longer[Len(longer)] = t
    BY <1>7
  <2> QED
    BY <1>5, <1>7, <1>9, <1>10, <1>11, <2>1, <2>2, <2>3 DEF LineInv
<1>14. ASSUME NEW q \in Semaphores PROVE PlaceInv(t, q)' /\ UnitInv(t, q)'
  BY <1>5, <1>8 DEF PlaceInv, UnitInv, EnqueueInv, DequeueInv
<1>15. TakenInv' /\ SleepInv'
  <2>1. \A u \in Threads : u # t => (InLine(u)' <=> InLine(u))
    <3>1. \A u \in Threads : \A q \in Semaphores :
             u # t => (InRing(Line(q)', u) <=> InRing(Line(q), u))
      BY <1>6, <1>7, <1>11, <1>12
    <3> QED
      BY <3>1 DEF InLine
  <2>2. pc'[t] \notin TakenSteps /\ pc[t] \notin TakenSteps
    BY <1>5 DEF TakenSteps
  <2> QED
    BY <1>1, <1>2, <1>5, <2>1, <2>2, SleepersStay
<1>16. QueuesInv'
  BY <1>5, <1>12, <1>13, <1>14, <1>15 DEF QueuesInv
<1>17. ValueInv'
  BY <1>5, <1>8, <1>12, <1>14
<1> QED
  BY <1>5, <1>6, <1>8, <1>11, <1>12, <1>16, <1>17 DEF SemInv, longer

\* Within sem_signal, the steps before and after the first thread is taken out
\* of line.
LEMMA DequeueStep ==
    ASSUME SemInv, NEW t \in Threads, NEW s \in Semaphores, s = Sem(t),
           \/ TestWaiter(t, s, "addUnit") \/ LoadNext(t)
           \/ ClearTail(t, s) \/ ClearNext(t, "wake"),
           UNCHANGED <<value, unit, bufferVars, id, i, call, reg, sem_done>>
    PROVE  SemInv' /\ \A q \in Semaphores : Line(q)' = Line(q)
<1> USE DEF queueVars, locals
<1>1. /\ QueuesInv /\ ValueInv /\ LineInv(s) /\ PlaceInv(t, s) /\ UnitInv(t, s)
      /\ TakenInv /\ SleepInv /\ WaitQueueTypeOK(Semaphores)
  BY DEF SemInv, BaseInv, SemTypeOK, QueuesInv, ValueInv
<1>2. PICK from \in {"testWaiter", "loadNext", "clearTail", "clearNext"},
           to \in {"addUnit", "loadNext", "setNewHead", "clearNext", "wake"} :
         /\ Goto(t, from, to)
         /\ from = "testWaiter" => to = IF wait_head[s] = NULL THEN "addUnit" ELSE "loadNext"
         /\ from = "loadNext" => to = "setNewHead"
         /\ from = "clearTail" => to = "clearNext"
         /\ from = "clearNext" => to = "wake"
         /\ UNCHANGED <<schedVars, wait_head>>
         /\ IF from = "testWaiter" THEN next' = [next EXCEPT ![t] = wait_head[s]]
            ELSE next' = next
         /\ IF from = "loadNext" THEN loaded' = [loaded EXCEPT ![t] = wait_next[next[t]]]
            ELSE loaded' = loaded
         /\ IF from = "clearTail" THEN wait_tail' = [wait_tail EXCEPT ![s] = NULL]
            ELSE wait_tail' = wait_tail
         /\ IF from = "clearNext" THEN wait_next' = [wait_next EXCEPT ![next[t]] = NULL]
            ELSE wait_next' = wait_next
  <2>1. CASE TestWaiter(t, s, "addUnit")
    BY <2>1 DEF TestWaiter
  <2>2. CASE LoadNext(t)
    BY <2>2 DEF LoadNext
  <2>3. CASE ClearTail(t, s)
    BY <2>3 DEF ClearTail
  <2>4. CASE ClearNext(t, "wake")
    BY <2>4 DEF ClearNext
  <2> QED
    BY <2>1, <2>2, <2>3, <2>4
<1>3. pc[t] = from
  BY <1>2 DEF Goto, Executes
<1>4. /\ from = "loadNext" => /\ Line(s) # << >> /\ next[t] = Line(s)[1] /\ next[t] \in Threads
      /\ from = "clearTail" => Line(s) = << >>
      /\ from \in TakenSteps => /\ next[t] \in Threads /\ ~InLine(next[t])
  <2>1. from = "loadNext" => Line(s) # << >> /\ next[t] = Line(s)[1]
    BY <1>1, <1>3 DEF PlaceInv, DequeueInv
  <2>2. from = "clearTail" => Line(s) = << >>
    BY <1>1, <1>3 DEF PlaceInv, DequeueInv
  <2>3. from \in TakenSteps => next[t] \in Threads /\ ~InLine(next[t])
    BY <1>1, <1>3 DEF TakenInv
  <2> QED
    BY <1>1, <2>1, <2>2, <2>3, HeadOf
<1>5. WaitQueueTypeOK(Semaphores)' /\ wait_next' \in [Threads -> Slots]
  BY <1>1, <1>2, <1>4 DEF WaitQueueTypeOK, Slots
<1>6. WithinSignal(from, to)
  BY DEF WithinSignal, TakingSteps, SignalSteps, DequeueSteps
<1>7. /\ BaseInv'
      /\ cpu = Thread(t) /\ pc[t] = from /\ tstate[t] = "RUNNING" /\ t # NULL
      /\ pc'[t] = to /\ tstate' = tstate /\ value' = value
      /\ \A u \in Threads \ {t} : pc'[u] = pc[u] /\ pc[u] \notin Windows
      /\ \A u \in Threads : Sem(u)' = Sem(u)
      /\ \A u \in Threads \ {t} : \A q \in Semaphores : PlaceInv(u, q)' /\ UnitInv(u, q)'
      /\ (\A q \in Semaphores : Line(q)' # << >> => Line(q) # << >> \/ value[q] = 0)
         /\ (\A q \in Semaphores : UnitInv(t, q)') => ValueInv'
  BY <1>2, <1>5, <1>6, LineStep
<1>8. ASSUME NEW q \in Semaphores
      PROVE  Line(q)' = Line(q) /\ IsChain(wait_next', Line(q)) /\ LineInv(q)
  <2>1. LineInv(q)
    BY <1>1 DEF QueuesInv
  <2>2. \A u \in Threads : InRing(Line(q), u) => wait_next'[u] = wait_next[u]
    <3>1. CASE from = "clearNext"
      BY <1>1, <1>2, <1>4, <3>1 DEF WaitQueueTypeOK, InLine, TakenSteps
    <3>2. CASE from # "clearNext"
      BY <1>2, <3>2
    <3> QED
      BY <3>1, <3>2
  <2> QED
    BY <1>2, <1>5, <2>1, <2>2, ChainStays
<1>9. ASSUME NEW q \in Semaphores PROVE LineInv(q)'
  <2>1. \A u \in Threads : /\ Joins(u)' <=> Joins(u)
                           /\ pc'[u] # "setTail" /\ pc[u] # "setTail"
    BY <1>2, <1>7 DEF Joins, Windows
  <2>2. Line(q) # << >> => wait_tail'[q] = Line(q)[Len(Line(q))]
    <3>1. Line(q) # << >> => wait_tail'[q] = wait_tail[q]
      BY <1>1, <1>2, <1>4 DEF WaitQueueTypeOK
    <3> QED
      BY <1>8, <2>1, <3>1 DEF LineInv
  <2> QED
    BY <1>2, <1>7, <1>8, <2>1, <2>2, LineHolds
<1>10. ASSUME NEW q \in Semaphores PROVE PlaceInv(t, q)' /\ UnitInv(t, q)'
  <2>1. Line(q)' = Line(q)
    BY <1>8
  <2>2. CASE q # s
    BY <1>7, <2>2 DEF PlaceInv, UnitInv
  <2>3. CASE q = s
    <3>1. CASE from = "testWaiter"
      <4>1. /\ next'[t] = wait_head[s]
            /\ pc'[t] = IF Line(s) = << >> THEN "addUnit" ELSE "loadNext"
            /\ Line(s) # << >> => wait_head[s] = Line(s)[1]
        BY <1>1, <1>2, <1>7, <3>1, HeadOf DEF WaitQueueTypeOK
      <4> QED
        BY <2>1, <2>3, <4>1 DEF PlaceInv, UnitInv, EnqueueInv, DequeueInv, NoUnitSteps
    <3>2. CASE from = "loadNext"
      <4>1. /\ next'[t] = next[t] /\ pc'[t] = "setNewHead" /\ wait_next' = wait_next
            /\ loaded'[t] = wait_next[next[t]]
        BY <1>1, <1>2, <1>7, <3>2 DEF WaitQueueTypeOK
      <4> QED
        BY <1>4, <2>1, <2>3, <3>2, <4>1 DEF PlaceInv, UnitInv, EnqueueInv, DequeueInv, NoUnitSteps
    <3>3. CASE from \in {"clearTail", "clearNext"}
      BY <1>2, <1>7, <3>3 DEF PlaceInv, UnitInv, EnqueueInv, DequeueInv, NoUnitSteps
    <3> QED
      BY <3>1, <3>2, <3>3
  <2> QED
    BY <2>2, <2>3
<1>11. TakenInv' /\ SleepInv'
  <2>1. \A u \in Threads : InLine(u)' <=> InLine(u)
    BY <1>8 DEF InLine
  <2>2. /\ pc'[t] \in TakenSteps <=> pc[t] \in TakenSteps
        /\ \A u \in Threads : pc[u] \in TakenSteps => next'[u] = next[u]
    BY <1>1, <1>2, <1>7 DEF TakenSteps, WaitQueueTypeOK
  <2> QED
    BY <1>1, <1>7, <2>1, <2>2, SleepersStay
<1>12. QueuesInv'
  BY <1>7, <1>9, <1>10, <1>11 DEF QueuesInv
<1>13. ValueInv'
  BY <1>7, <1>8, <1>10
<1> QED
  BY <1>7, <1>8, <1>12, <1>13 DEF SemInv

\* The first in line is taken out of it.
LEMMA TakeStep ==
    ASSUME SemInv, NEW t \in Threads, NEW s \in Semaphores, s = Sem(t),
           SetNewHead(t, s),
           UNCHANGED <<value, unit, bufferVars, id, i, call, reg, sem_done>>
    PROVE  /\ SemInv'
           /\ Line(s) # << >> /\ Line(s)' = Tail(Line(s))
           /\ next[t] \in Threads /\ InRing(Line(s), next[t]) /\ next' = next
           /\ Takes(t, next[t])'
           /\ \A q \in Semaphores \ {s} : Line(q)' = Line(q)
<1> USE DEF locals
<1>1. /\ QueuesInv /\ ValueInv /\ LineInv(s) /\ PlaceInv(t, s) /\ UnitInv(t, s)
      /\ TakenInv /\ SleepInv /\ WaitQueueTypeOK(Semaphores)
  BY DEF SemInv, BaseInv, SemTypeOK, QueuesInv, ValueInv
<1>2. PICK to \in {"clearTail", "clearNext"} :
         /\ Goto(t, "setNewHead", to)
         /\ to = IF loaded[t] = NULL THEN "clearTail" ELSE "clearNext"
         /\ wait_head' = [wait_head EXCEPT ![s] = loaded[t]]
         /\ loaded' = [loaded EXCEPT ![t] = NULL]
         /\ UNCHANGED <<schedVars, wait_tail, wait_next, next>>
  BY DEF SetNewHead
<1>3. WithinSignal("setNewHead", to)
  BY DEF WithinSignal, TakingSteps, SignalSteps, DequeueSteps
<1>4. /\ wait_head \in [Semaphores -> Slots] /\ wait_next \in [Threads -> Slots]
      /\ WaitQueueTypeOK(Semaphores)'
  BY <1>1, <1>2 DEF WaitQueueTypeOK, Slots
<1>5. /\ BaseInv'
      /\ cpu = Thread(t) /\ pc[t] = "setNewHead" /\ tstate[t] = "RUNNING" /\ t # NULL
      /\ pc'[t] = to /\ tstate' = tstate /\ value' = value
      /\ \A u \in Threads \ {t} : pc'[u] = pc[u] /\ pc[u] \notin Windows
      /\ \A u \in Threads : Sem(u)' = Sem(u)
      /\ \A u \in Threads \ {t} : \A q \in Semaphores : PlaceInv(u, q)' /\ UnitInv(u, q)'
      /\ (\A q \in Semaphores : Line(q)' # << >> => Line(q) # << >> \/ value[q] = 0)
         /\ (\A q \in Semaphores : UnitInv(t, q)') => ValueInv'
  BY <1>2, <1>3, <1>4, LineStep
<1>6. PICK line \in Seq(Threads) : line = Line(s)
  BY <1>1 DEF LineInv
<1>7. /\ line # << >> /\ next[t] = line[1] /\ loaded[t] = wait_next[line[1]]
      /\ NoRepeats(line) /\ IsChain(wait_next, line) /\ next[t] \in Threads
      /\ Len(line) \in Nat /\ Len(line) > 0
  <2>1. line # << >> /\ next[t] = line[1] /\ loaded[t] = wait_next[line[1]]
    BY <1>1, <1>5, <1>6 DEF PlaceInv, DequeueInv
  <2>2. NoRepeats(line) /\ IsChain(wait_next, line)
    BY <1>1, <1>6 DEF LineInv
  <2>3. line # << >> => line[1] \in Threads /\ Len(line) \in Nat /\ Len(line) > 0
    OBVIOUS
  <2> QED
    BY <2>1, <2>2, <2>3
<1> DEFINE rest == Tail(line)
<1>8. /\ rest \in Seq(Threads) /\ Len(rest) = Len(line) - 1
      /\ \A k \in 1..Len(rest) : rest[k] = line[k + 1] /\ k + 1 \in 1..Len(line)
      /\ rest # << >> <=> Len(line) > 1
      /\ NoRepeats(rest)
  BY <1>7, TakeFirst
<1> HIDE DEF rest
<1>9. IsChain(wait_next, rest) /\ loaded[t] = FirstOf(rest)
  <2>1. IsChain(wait_next, rest)
    BY <1>7, <1>8 DEF IsChain
  <2>2. wait_next[line[1]] = IF Len(line) = 1 THEN NULL ELSE line[2]
    <3>1. 1 \in 1..Len(line) /\ 1 + 1 = 2
      BY <1>7
    <3> QED
      BY <1>7, <3>1 DEF IsChain
  <2>3. rest # << >> => rest[1] = line[2]
    BY <1>7, <1>8
  <2> QED
    BY <1>7, <1>8, <2>1, <2>2, <2>3 DEF FirstOf
<1>10. Line(s)' = rest
  <2>1. wait_head'[s] = FirstOf(rest) /\ wait_next' \in [Threads -> Slots]
    BY <1>2, <1>4, <1>9
  <2> QED
    BY <1>2, <1>8, <1>9, <2>1, LineIsChain
\* Whoever is in line sleeps, and the first is not in line twice.
<1>11. /\ \A u \in Threads : InRing(line, u) => Sem(u) = s /\ tstate[u] = "BLOCKED"
       /\ \A u \in Threads : InRing(rest, u) => InRing(line, u) /\ u # next[t]
       /\ \A u \in Threads : InRing(line, u) => InRing(rest, u) \/ u = next[t]
       /\ InRing(line, next[t])
  <2>1. \A u \in Threads : InRing(line, u) => Sem(u) = s /\ tstate[u] = "BLOCKED"
    <3>1. \A u \in Threads : ~Joins(u)
      BY <1>5 DEF Joins, Windows
    <3> QED
      BY <1>1, <1>6, <3>1 DEF LineInv
  <2>2. DOMAIN rest = 1..Len(rest) /\ DOMAIN line = 1..Len(line)
    BY <1>8
  <2>3. \A u \in Threads : InRing(rest, u) => InRing(line, u) /\ u # next[t]
    <3> SUFFICES ASSUME NEW k \in 1..Len(rest)
                 PROVE  rest[k] # next[t] /\ \E j \in 1..Len(line) : line[j] = rest[k]
      BY <2>2 DEF InRing
    <3>1. rest[k] = line[k + 1] /\ k + 1 \in 1..Len(line) /\ 1 \in 1..Len(line) /\ k + 1 # 1
      BY <1>7, <1>8
    <3> QED
      BY <1>7, <2>2, <3>1 DEF NoRepeats
  <2>4. \A u \in Threads : InRing(line, u) => InRing(rest, u) \/ u = next[t]
    <3> SUFFICES ASSUME NEW k \in 1..Len(line), line[k] # next[t]
                 PROVE  \E j \in 1..Len(rest) : rest[j] = line[k]
      BY <2>2 DEF InRing
    <3>1. k - 1 \in 1..Len(rest) /\ (k - 1) + 1 = k
      BY <1>7, <1>8
    <3> QED
      BY <1>8, <3>1
  <2>5. InRing(line, next[t])
    BY <1>7, <2>2 DEF InRing
  <2> QED
    BY <2>1, <2>3, <2>4, <2>5
<1>12. \A u \in Threads : /\ ~Joins(u) /\ ~Joins(u)'
                          /\ pc[u] # "setTail" /\ pc'[u] # "setTail"
  BY <1>5 DEF Joins, Windows
<1>13. ASSUME NEW q \in Semaphores, q # s
       PROVE  Line(q)' = Line(q) /\ LineInv(q)'
  <2>1. LineInv(q) /\ wait_head'[q] = wait_head[q]
    BY <1>1, <1>2, <1>4, <1>13 DEF QueuesInv
  <2>2. Line(q)' = Line(q) /\ IsChain(wait_next', Line(q))
    BY <1>2, <1>4, <2>1, ChainStays
  <2>3. Line(q) # << >> => wait_tail'[q] = Line(q)[Len(Line(q))]
    BY <1>2, <1>12, <2>1 DEF LineInv
  <2>4. LineInv(q)'
    BY <1>5, <1>12, <2>1, <2>2, <2>3, LineHolds
  <2> QED
    BY <2>2, <2>4
<1>14. LineInv(s)'
  <2>1. rest # << >> => wait_tail'[s] = rest[Len(rest)]
    <3>1. wait_tail[s] = line[Len(line)]
      BY <1>1, <1>6, <1>7, <1>12 DEF LineInv
    <3> QED
      BY <1>2, <1>7, <1>8, <3>1
  <2>2. wait_head'[s] = FirstOf(rest)
    BY <1>2, <1>4, <1>9
  <2> QED
    BY <1>2, <1>5, <1>8, <1>9, <1>10, <1>11, <1>12, <2>1, <2>2 DEF LineInv
<1>15. \A u \in Threads : InLine(u)' <=> InLine(u) /\ u # next[t]
  <2>1. \A u \in Threads : \A q \in Semaphores :
           InRing(Line(q)', u) <=> InRing(Line(q), u) /\ u # next[t]
    <3> SUFFICES ASSUME NEW u \in Threads, NEW q \in Semaphores
                 PROVE  InRing(Line(q)', u) <=> InRing(Line(q), u) /\ u # next[t]
      OBVIOUS
    <3>1. CASE q = s
      BY <1>6, <1>10, <1>11, <3>1
    <3>2. CASE q # s
      <4>1. LineInv(q)
        BY <1>1 DEF QueuesInv
      <4>2. ~InRing(Line(q), next[t])
        BY <1>7, <1>11, <3>2, <4>1 DEF LineInv
      <4> QED
        BY <1>13, <3>2, <4>2
    <3> QED
      BY <3>1, <3>2
  <2> QED
    BY <2>1 DEF InLine
<1>16. InLine(next[t]) /\ tstate[next[t]] = "BLOCKED"
  BY <1>6, <1>7, <1>11 DEF InLine
<1>17. \A u, h \in Threads : Takes(u, h)' <=> Takes(u, h) \/ (u = t /\ h = next[t])
  BY <1>2, <1>5 DEF Takes, TakenSteps
<1>18. TakenInv'
  <2>1. ASSUME NEW u \in Threads, pc'[u] \in TakenSteps
        PROVE  /\ next'[u] \in Threads
               /\ tstate'[next'[u]] = "BLOCKED"
               /\ ~InLine(next[u])'
    <3>1. CASE u = t
      BY <1>2, <1>5, <1>7, <1>15, <1>16, <3>1
    <3>2. CASE u # t
      BY <1>1, <1>2, <1>5, <1>15, <2>1, <3>2 DEF TakenInv
    <3> QED
      BY <3>1, <3>2
  <2>2. \A u, h \in Threads : Takes(u, h) => h # next[t]
    BY <1>1, <1>16 DEF TakenInv, Takes
  <2>3. \A u, v, h \in Threads : Takes(u, h)' /\ Takes(v, h)' => u = v
    BY <1>1, <1>17, <2>2 DEF TakenInv
  <2> QED
    BY <2>1, <2>3 DEF TakenInv
<1>19. SleepInv'
  BY <1>1, <1>5, <1>15, <1>17 DEF SleepInv, IsTaken
<1>20. ASSUME NEW q \in Semaphores PROVE PlaceInv(t, q)' /\ UnitInv(t, q)'
  <2>1. to = "clearTail" => rest = << >>
    <3>1. rest # << >> => FirstOf(rest) # NULL
      <4>1. rest # << >> => rest[1] \in Threads
        BY <1>8
      <4> QED
        BY <4>1 DEF FirstOf, Threads, NULL
    <3> QED
      BY <1>2, <1>9, <3>1
  <2> QED
    BY <1>5, <1>10, <2>1 DEF PlaceInv, UnitInv, EnqueueInv, DequeueInv, NoUnitSteps
<1>21. QueuesInv'
  BY <1>5, <1>13, <1>14, <1>18, <1>19, <1>20 DEF QueuesInv
<1>22. ValueInv'
  BY <1>5, <1>6, <1>7, <1>13, <1>20
<1> QED
  BY <1>2, <1>5, <1>6, <1>7, <1>10, <1>11, <1>13, <1>17, <1>21, <1>22 DEF SemInv, rest

-----------------------------------------------------------------------------
(* The steps that change the scheduler's state.                            *)

\* The timer, and the yields of sem_wait, of a round, of thread_exit and of
\* the shell's loop.
LEMMA IrqKeepsSem ==
    ASSUME SemInv, TimerIrq \/ SchedulerYield,
           \A u \in Threads : pc[u] \notin Windows,
           pc' \in [Threads -> WorkerSteps], i' \in [Threads -> Nat],
           \A u \in Threads :
              \/ pc'[u] = pc[u]
              \/ pc[u] = "blockedYield" /\ pc'[u] = "return"
              \/ pc[u] = "yield" /\ pc'[u] = "loop",
           UNCHANGED <<semVars, bufferVars, id, call, reg, sem_done>>
    PROVE  /\ SemInv' /\ \A s : Line(s)' = Line(s)
           /\ \A t \in Threads : /\ tstate'[t] = "BLOCKED" <=> tstate[t] = "BLOCKED"
                                 /\ tstate'[t] = "UNUSED" <=> tstate[t] = "UNUSED"
<1> USE DEF semVars, bufferVars, locals
<1>1. /\ IInv'
      /\ \A t \in Threads : cpu' = Thread(t) => tstate'[t] = "RUNNING"
      /\ \A t \in Threads : /\ tstate'[t] = "BLOCKED" <=> tstate[t] = "BLOCKED"
                            /\ tstate'[t] = "UNUSED" <=> tstate[t] = "UNUSED"
  BY IrqEffect DEF SemInv, BaseInv
<1>2. SemTypeOK'
  BY DEF SemInv, BaseInv, SemTypeOK, WaitQueueTypeOK, queueVars
<1>3. OnlyCpuInWindow'
  BY DEF OnlyCpuInWindow, Windows
<1>4. StatesFit'
  BY <1>1 DEF StatesFit, SemInv, BaseInv
<1>5. CallsFit'
  <2> SUFFICES ASSUME NEW u \in Threads PROVE CallFits(u)'
    BY DEF CallsFit
  <2>1. CallFits(u) /\ (IsProducer(u)' <=> IsProducer(u))
    BY SemStays DEF SemInv, BaseInv, CallsFit
  <2> QED
    BY <1>1, <2>1
    DEF CallFits, OutOfCalls, WaitSteps, BufferSteps, SignalSteps, EnqueueSteps, DequeueSteps
<1>6. \A u \in Threads : Sem(u)' = Sem(u)
  BY SemStays
<1>7. QueuesInv' /\ \A s : Line(s)' = Line(s)
  <2>1. "blockedYield" \notin QueueSteps /\ "return" \notin QueueSteps
        /\ "yield" \notin QueueSteps /\ "loop" \notin QueueSteps
    BY DEF QueueSteps, TakenSteps
  <2>2. ASSUME NEW u \in Threads
        PROVE  pc'[u] = pc[u] \/ (pc[u] \notin QueueSteps /\ pc'[u] \notin QueueSteps)
    BY <2>1, Zenon
  <2> QED
    BY <1>1, <1>6, <2>2, QueuesStay DEF SemInv
<1>8. ValueInv'
  <2>1. \A u \in Threads : pc'[u] \notin UnitSteps
    BY DEF UnitSteps, NoUnitSteps, Windows
  <2> QED
    BY <1>7, <2>1, ValuesStay DEF SemInv
<1> QED
  BY <1>1, <1>2, <1>3, <1>4, <1>5, <1>7, <1>8 DEF SemInv, BaseInv

LEMMA TickStep ==
    ASSUME SemInv, Tick, ~struck'
    PROVE  SemInv' /\ \A s : Line(s)' = Line(s)
<1>1. \A u \in Threads : pc[u] \notin Windows
  BY DEF Tick, SemInv, BaseInv, OnlyCpuInWindow
<1>2. TimerIrq /\ UNCHANGED <<semVars, bufferVars, id, call, reg, sem_done>>
  BY DEF Tick, workerVars
<1>3. pc' = pc /\ i' = i /\ pc' \in [Threads -> WorkerSteps] /\ i' \in [Threads -> Nat]
  BY DEF Tick, workerVars, SemInv, BaseInv, SemTypeOK
<1> QED
  BY <1>1, <1>2, <1>3, IrqKeepsSem

LEMMA YieldStep ==
    ASSUME SemInv, NEW t \in Threads,
           \/ /\ BlockedYield(t, "return")
              /\ UNCHANGED <<value, unit, bufferVars, id, i, call, reg, sem_done>>
           \/ RoundYield(t)
           \/ GoneYield(t)
    PROVE  SemInv' /\ \A s : Line(s)' = Line(s)
<1>1. /\ pc \in [Threads -> WorkerSteps] /\ {"return", "loop"} \subseteq WorkerSteps
      /\ i \in [Threads -> Nat]
  BY DEF SemInv, BaseInv, SemTypeOK, WorkerSteps
<1>2. /\ cpu = Thread(t) /\ SchedulerYield
      /\ pc[t] \in {"blockedYield", "yield", "gone"}
      /\ \/ pc' = pc
         \/ pc[t] = "blockedYield" /\ pc' = [pc EXCEPT ![t] = "return"]
         \/ pc[t] = "yield" /\ pc' = [pc EXCEPT ![t] = "loop"]
      /\ UNCHANGED <<semVars, bufferVars, id, call, reg, sem_done>>
      /\ i' \in [Threads -> Nat]
  <2>1. CASE BlockedYield(t, "return")
             /\ UNCHANGED <<value, unit, bufferVars, id, i, call, reg, sem_done>>
    BY <1>1, <2>1 DEF BlockedYield, Goto, Executes, semVars
  <2>2. CASE RoundYield(t)
    BY <1>1, <2>2 DEF RoundYield, Goto, Executes
  <2>3. CASE GoneYield(t)
    BY <1>1, <2>3 DEF GoneYield, Executes, workerVars
  <2> QED
    BY <2>1, <2>2, <2>3
<1>3. \A u \in Threads : pc[u] \notin Windows
  BY <1>2, OneOnCpu DEF SemInv, BaseInv, OnlyCpuInWindow, Windows
<1>4. pc' \in [Threads -> WorkerSteps]
  BY <1>1, <1>2
<1>5. \A u \in Threads :
         \/ pc'[u] = pc[u]
         \/ pc[u] = "blockedYield" /\ pc'[u] = "return"
         \/ pc[u] = "yield" /\ pc'[u] = "loop"
  BY <1>1, <1>2
<1> QED
  BY <1>2, <1>3, <1>4, <1>5, IrqKeepsSem

\* The caller of sem_wait falls asleep, in line.
LEMMA BlockStep ==
    ASSUME SemInv, NEW t \in Threads, Block(t),
           UNCHANGED <<value, unit, bufferVars, id, i, call, reg, sem_done>>
    PROVE  SemInv' /\ \A s : Line(s)' = Line(s)
<1> USE DEF locals, bufferVars, queueVars
<1>1. /\ cpu = Thread(t) /\ pc[t] = "block"
      /\ pc \in [Threads -> WorkerSteps] /\ pc' = [pc EXCEPT ![t] = "blockedYield"]
      /\ UNCHANGED <<wait_head, wait_tail, wait_next, next, loaded>>
      /\ "blockedYield" \in WorkerSteps
      /\ QueuesInv /\ ValueInv /\ TakenInv /\ SleepInv /\ CallsFit
  BY DEF Block, Goto, Executes, SemInv, BaseInv, SemTypeOK, QueuesInv, WorkerSteps, WaitSteps,
     EnqueueSteps
<1>2. IInv' /\ tstate' = [tstate EXCEPT ![t] = "BLOCKED"] /\ UNCHANGED cpu
  BY <1>1, CallEffect DEF Block, SemInv, BaseInv
<1>3. tstate \in [Threads -> ThreadStates] /\ tstate[t] = "RUNNING"
  BY <1>1 DEF SemInv, BaseInv, IInv, SchedulerTypeOK, StatesFit
<1>4. SemTypeOK'
  BY <1>1 DEF SemInv, BaseInv, SemTypeOK, WaitQueueTypeOK
<1>5. OnlyCpuInWindow' /\ StatesFit'
  BY <1>1, <1>2, <1>3, OneOnCpu DEF SemInv, BaseInv, OnlyCpuInWindow, StatesFit, Windows
<1>6. CallsFit'
  <2>1. ASSUME NEW u \in Threads, u # t PROVE CallFits(u)'
    BY <1>1, <1>2, <1>3, <2>1, CallStays DEF CallsFit
  <2>2. CallFits(t)'
    BY <1>1, <1>2, <1>3
    DEF CallsFit, CallFits, OutOfCalls, WaitSteps, BufferSteps, SignalSteps, EnqueueSteps,
        DequeueSteps
  <2> QED
    BY <2>1, <2>2 DEF CallsFit
<1>7. \A u \in Threads : Sem(u)' = Sem(u)
  BY SemStays
<1>8. \A s : Line(s)' = Line(s)
  BY <1>1, LinesStay
<1>9. ASSUME NEW s \in Semaphores PROVE LineInv(s)'
  <2>1. LineInv(s) /\ Line(s)' = Line(s)
    BY <1>1, <1>8 DEF QueuesInv
  <2>2. IsChain(wait_next', Line(s))
    BY <1>1, <2>1 DEF LineInv
  <2>3. \A u \in Threads : /\ tstate[u] = "BLOCKED" => tstate'[u] = "BLOCKED"
                           /\ Joins(u)' => Joins(u)
                           /\ Joins(u) => Joins(u)' \/ tstate'[u] = "BLOCKED"
                           /\ pc'[u] = "setTail" <=> pc[u] = "setTail"
    BY <1>1, <1>2, <1>3 DEF Joins
  <2>4. Line(s) # << >> /\ (\A u \in Threads : ~(pc'[u] = "setTail" /\ Sem(u)' = s)) =>
           wait_tail'[s] = Line(s)[Len(Line(s))]
    BY <1>1, <1>7, <2>1, <2>3 DEF LineInv
  <2> QED
    BY <1>1, <1>7, <2>1, <2>2, <2>3, <2>4, LineHolds
<1>10. ASSUME NEW u \in Threads, NEW s \in Semaphores PROVE PlaceInv(u, s)'
  <2>1. PlaceInv(u, s) /\ Line(s)' = Line(s)
    BY <1>1, <1>8 DEF QueuesInv
  <2> QED
    BY <1>1, <1>7, <2>1 DEF PlaceInv, EnqueueInv, DequeueInv
<1>11. \A u, h \in Threads : (Takes(u, h)' <=> Takes(u, h)) /\ (InLine(h)' <=> InLine(h))
  BY <1>1, <1>8 DEF Takes, TakenSteps, InLine
<1>12. TakenInv'
  BY <1>1, <1>2, <1>3, <1>11 DEF TakenInv, TakenSteps
<1>13. SleepInv'
  <2>1. InLine(t)
    <3>1. LineInv(Sem(t)) /\ Sem(t) \in Semaphores
      BY <1>1, SemIsOne DEF QueuesInv, SemInv, BaseInv
    <3>2. PICK line \in Seq(Threads) : line = Line(Sem(t))
      BY <3>1 DEF LineInv
    <3>3. line # << >> /\ line[Len(line)] = t
      BY <1>1, <3>1, <3>2 DEF LineInv, Joins
    <3>4. Len(line) \in DOMAIN line
      BY <3>3
    <3> QED
      BY <3>1, <3>2, <3>3, <3>4 DEF InLine, InRing
  <2> QED
    BY <1>1, <1>2, <1>3, <1>11, <2>1 DEF SleepInv, IsTaken
<1>14. QueuesInv'
  BY <1>9, <1>10, <1>12, <1>13 DEF QueuesInv
<1>15. ValueInv'
  BY <1>1, <1>7, <1>8, ValuesStay DEF UnitSteps, NoUnitSteps
<1> QED
  BY <1>2, <1>4, <1>5, <1>6, <1>8, <1>14, <1>15 DEF SemInv, BaseInv

\* The thread taken out of line wakes up.
LEMMA WakeStep ==
    ASSUME SemInv, NEW t \in Threads, Wake(t, "return"),
           UNCHANGED <<value, unit, bufferVars, id, i, call, reg, sem_done>>
    PROVE  SemInv' /\ \A s : Line(s)' = Line(s)
<1> USE DEF locals, bufferVars, queueVars
<1>1. /\ cpu = Thread(t) /\ pc[t] = "wake" /\ next \in [Threads -> Threads \cup {NULL}]
      /\ pc \in [Threads -> WorkerSteps] /\ pc' = [pc EXCEPT ![t] = "return"]
      /\ next' = [next EXCEPT ![t] = NULL]
      /\ UNCHANGED <<wait_head, wait_tail, wait_next, loaded>>
      /\ "return" \in WorkerSteps
      /\ QueuesInv /\ ValueInv /\ TakenInv /\ SleepInv /\ CallsFit
  BY DEF Wake, Goto, Executes, SemInv, BaseInv, SemTypeOK, WaitQueueTypeOK, QueuesInv,
     WorkerSteps
<1>2. PICK h \in Threads : h = next[t] /\ tstate[h] = "BLOCKED" /\ ~InLine(h)
  BY <1>1 DEF TakenInv, TakenSteps
<1>3. IInv' /\ tstate' = [tstate EXCEPT ![h] = "READY"] /\ UNCHANGED cpu
  <2>1. UnblockThread(h)
    BY <1>2 DEF Wake
  <2> QED
    BY <1>1, <1>2, <2>1, CallEffect DEF SemInv, BaseInv
<1>4. /\ tstate \in [Threads -> ThreadStates] /\ tstate[t] = "RUNNING" /\ t # h
      /\ pc[h] \in {"blockedYield", "return"} /\ cpu # Thread(h)
  BY <1>1, <1>2, OneOnCpu DEF SemInv, BaseInv, IInv, SchedulerTypeOK, StatesFit
<1>5. SemTypeOK'
  BY <1>1 DEF SemInv, BaseInv, SemTypeOK, WaitQueueTypeOK
<1>6. OnlyCpuInWindow' /\ StatesFit'
  BY <1>1, <1>2, <1>3, <1>4 DEF SemInv, BaseInv, OnlyCpuInWindow, StatesFit, Windows
<1>7. CallsFit'
  <2>1. ASSUME NEW u \in Threads, u # t PROVE CallFits(u)'
    BY <1>1, <1>3, <1>4, <2>1, CallStays DEF CallsFit
  <2>2. CallFits(t)'
    BY <1>1, <1>3, <1>4
    DEF CallsFit, CallFits, OutOfCalls, WaitSteps, BufferSteps, SignalSteps, EnqueueSteps,
        DequeueSteps
  <2> QED
    BY <2>1, <2>2 DEF CallsFit
<1>8. \A u \in Threads : Sem(u)' = Sem(u)
  BY SemStays
<1>9. \A s : Line(s)' = Line(s)
  BY <1>1, LinesStay
<1>10. ASSUME NEW s \in Semaphores PROVE LineInv(s)'
  <2>1. LineInv(s) /\ Line(s)' = Line(s)
    BY <1>1, <1>9 DEF QueuesInv
  <2>2. IsChain(wait_next', Line(s))
    BY <1>1, <2>1 DEF LineInv
  <2>3. \A u \in Threads : /\ Joins(u)' <=> Joins(u)
                           /\ pc'[u] = "setTail" <=> pc[u] = "setTail"
    BY <1>1 DEF Joins
  <2>4. ASSUME NEW u \in Threads, InRing(Line(s), u), tstate[u] = "BLOCKED"
        PROVE  tstate'[u] = "BLOCKED"
    BY <1>2, <1>3, <1>4, <2>4 DEF InLine
  <2>5. Line(s) # << >> /\ (\A u \in Threads : ~(pc'[u] = "setTail" /\ Sem(u)' = s)) =>
           wait_tail'[s] = Line(s)[Len(Line(s))]
    BY <1>1, <1>8, <2>1, <2>3 DEF LineInv
  <2> QED
    BY <1>1, <1>8, <2>1, <2>2, <2>3, <2>4, <2>5, LineHolds
<1>11. ASSUME NEW u \in Threads, NEW s \in Semaphores PROVE PlaceInv(u, s)'
  <2>1. PlaceInv(u, s) /\ Line(s)' = Line(s)
    BY <1>1, <1>9 DEF QueuesInv
  <2> QED
    BY <1>1, <1>8, <2>1 DEF PlaceInv, EnqueueInv, DequeueInv
<1>12. /\ \A u \in Threads : InLine(u)' <=> InLine(u)
       /\ \A u, v \in Threads : Takes(u, v)' <=> Takes(u, v) /\ v # h
  <2>1. \A u, v \in Threads : Takes(u, v)' <=> Takes(u, v) /\ u # t
    BY <1>1 DEF Takes, TakenSteps
  <2>2. \A u, v \in Threads : Takes(u, v) => (u = t <=> v = h)
    BY <1>1, <1>2 DEF Takes, TakenInv, TakenSteps
  <2> QED
    BY <1>9, <2>1, <2>2 DEF InLine
<1>13. TakenInv'
  <2>1. ASSUME NEW u \in Threads, pc'[u] \in TakenSteps
        PROVE  /\ next'[u] \in Threads
               /\ tstate'[next'[u]] = "BLOCKED"
               /\ ~InLine(next[u])'
    <3>1. u # t /\ pc'[u] = pc[u] /\ next'[u] = next[u]
      BY <1>1, <2>1 DEF TakenSteps
    <3>2. PICK v \in Threads : v = next[u] /\ tstate[v] = "BLOCKED" /\ ~InLine(v) /\ Takes(u, v)
      BY <1>1, <2>1, <3>1 DEF TakenInv, Takes
    <3>3. v # h
      BY <1>1, <1>2, <3>1, <3>2 DEF TakenInv, Takes, TakenSteps
    <3>4. ~InLine(v)' /\ tstate'[v] = "BLOCKED"
      BY <1>3, <1>4, <1>12, <3>2, <3>3
    <3> QED
      BY <3>1, <3>2, <3>4
  <2>2. \A u, v, k \in Threads : Takes(u, k)' /\ Takes(v, k)' => u = v
    BY <1>1, <1>12 DEF TakenInv
  <2> QED
    BY <2>1, <2>2 DEF TakenInv
<1>14. SleepInv'
  BY <1>1, <1>3, <1>4, <1>12 DEF SleepInv, IsTaken
<1>15. QueuesInv'
  BY <1>10, <1>11, <1>13, <1>14 DEF QueuesInv
<1>16. ValueInv'
  BY <1>1, <1>8, <1>9, ValuesStay DEF UnitSteps, NoUnitSteps
<1> QED
  BY <1>3, <1>5, <1>6, <1>7, <1>9, <1>15, <1>16 DEF SemInv, BaseInv

\* thread_exit.
LEMMA ExitStep ==
    ASSUME SemInv, NEW t \in Threads, Exit(t)
    PROVE  SemInv' /\ \A s : Line(s)' = Line(s)
<1> USE DEF semVars, locals, bufferVars
<1>1. /\ cpu = Thread(t) /\ pc[t] = "exit"
      /\ pc \in [Threads -> WorkerSteps] /\ pc' = [pc EXCEPT ![t] = "gone"]
      /\ UNCHANGED <<queueVars, next, loaded, value, unit, id, i, call, reg, buffer_count, sem_done>>
      /\ "gone" \in WorkerSteps
      /\ QueuesInv /\ ValueInv /\ CallsFit
  BY DEF Exit, Goto, Executes, SemInv, BaseInv, SemTypeOK, WorkerSteps
<1>2. IInv' /\ tstate' = [tstate EXCEPT ![t] = "TERMINATED"] /\ UNCHANGED cpu
  BY <1>1, CallEffect DEF Exit, SemInv, BaseInv
<1>3. tstate \in [Threads -> ThreadStates] /\ tstate[t] = "RUNNING"
  BY <1>1 DEF SemInv, BaseInv, IInv, SchedulerTypeOK, StatesFit
<1>4. SemTypeOK'
  BY <1>1 DEF SemInv, BaseInv, SemTypeOK, WaitQueueTypeOK, queueVars
<1>5. OnlyCpuInWindow' /\ StatesFit'
  BY <1>1, <1>2, <1>3, OneOnCpu DEF SemInv, BaseInv, OnlyCpuInWindow, StatesFit, Windows
<1>6. CallsFit'
  <2>1. ASSUME NEW u \in Threads, u # t PROVE CallFits(u)'
    BY <1>1, <1>2, <1>3, <2>1, CallStays DEF CallsFit
  <2>2. CallFits(t)'
    BY <1>1, <1>2, <1>3
    DEF CallsFit, CallFits, OutOfCalls, WaitSteps, BufferSteps, SignalSteps, EnqueueSteps,
        DequeueSteps
  <2> QED
    BY <2>1, <2>2 DEF CallsFit
<1>7. \A u \in Threads : Sem(u)' = Sem(u)
  BY <1>1, SemStays
<1>8. QueuesInv' /\ \A s : Line(s)' = Line(s)
  BY <1>1, <1>2, <1>3, <1>7, QueuesStay DEF QueueSteps, TakenSteps
<1>9. ValueInv'
  BY <1>1, <1>7, <1>8, ValuesStay DEF UnitSteps, NoUnitSteps
<1> QED
  BY <1>2, <1>4, <1>5, <1>6, <1>8, <1>9 DEF SemInv, BaseInv

-----------------------------------------------------------------------------
(* The boot code and the shell.                                            *)

\* A step of neither a worker nor a semaphore; a thread whose id it sets is
\* new.
LEMMA SemKept ==
    ASSUME SemInv, IInv', UNCHANGED <<semVars, pc, i, call, reg, sem_done, buffer_count, cpu>>,
           id' \in [Threads -> Nat],
           \A u \in Threads :
              \/ tstate'[u] = tstate[u] /\ id'[u] = id[u]
              \/ tstate[u] = "UNUSED" /\ tstate'[u] = "READY" /\ cpu # Thread(u)
    PROVE  SemInv' /\ \A s : Line(s)' = Line(s)
<1> USE DEF semVars, locals
<1>1. /\ SemTypeOK /\ StatesFit /\ CallsFit /\ QueuesInv /\ ValueInv
      /\ \A u \in Threads : \/ id'[u] = id[u]
                            \/ pc[u] = "loop"
  BY DEF SemInv, BaseInv, StatesFit
<1>2. SemTypeOK'
  BY <1>1 DEF SemTypeOK, WaitQueueTypeOK, queueVars
<1>3. OnlyCpuInWindow'
  BY DEF SemInv, BaseInv, OnlyCpuInWindow
<1>4. StatesFit'
  BY <1>1 DEF StatesFit
<1>5. CallsFit'
  <2> SUFFICES ASSUME NEW u \in Threads PROVE CallFits(u)'
    BY DEF CallsFit
  <2>1. CallFits(u) /\ (id'[u] = id[u] => (IsProducer(u)' <=> IsProducer(u)))
    BY <1>1, SemStays DEF CallsFit
  <2>2. CASE id'[u] = id[u]
    BY <2>1, <2>2, CallStays
  <2>3. CASE pc[u] = "loop"
    BY <2>1, <2>3
    DEF CallFits, OutOfCalls, WaitSteps, BufferSteps, SignalSteps, EnqueueSteps, DequeueSteps
  <2> QED
    BY <1>1, <2>2, <2>3
<1>6. QueuesInv' /\ \A s : Line(s)' = Line(s)
  <2>1. ASSUME NEW u \in Threads PROVE pc[u] \in QueueSteps \/ tstate[u] = "BLOCKED" => Sem(u)' = Sem(u)
    <3>1. pc[u] \in QueueSteps \/ tstate[u] = "BLOCKED" => pc[u] # "loop"
      BY <1>1 DEF QueueSteps, TakenSteps, StatesFit
    <3> QED
      BY <1>1, <3>1, SemStays
  <2>2. \A u \in Threads : tstate'[u] = "BLOCKED" <=> tstate[u] = "BLOCKED"
    OBVIOUS
  <2> QED
    BY <1>1, <2>1, <2>2, QueuesStay
<1>7. ValueInv'
  <2>1. ASSUME NEW u \in Threads, pc'[u] \in UnitSteps PROVE Sem(u)' = Sem(u)
    <3>1. pc[u] # "loop"
      BY <2>1 DEF UnitSteps, NoUnitSteps
    <3> QED
      BY <1>1, <3>1, SemStays
  <2> QED
    BY <1>1, <1>6, <2>1, ValuesStay
<1> QED
  BY <1>2, <1>3, <1>4, <1>5, <1>6, <1>7 DEF SemInv, BaseInv

LEMMA BootKeeps ==
    ASSUME SemInv, BootStep
    PROVE  SemInv' /\ \A s : Line(s)' = Line(s)
<1>1. IInv'
  BY ProcCreateStep, SchedulerStartStep DEF BootStep, SemInv, BaseInv
<1>2. /\ UNCHANGED <<semVars, pc, i, call, reg, sem_done, buffer_count, id, cpu, tstate>>
  BY DEF BootStep, SchedulerStart, ProcCreate, threadVars, dispatchVars, workerVars, bufferVars
<1>3. id' \in [Threads -> Nat]
  BY <1>2 DEF SemInv, BaseInv, SemTypeOK
<1> QED
  BY <1>1, <1>2, <1>3, SemKept

\* While the shell executes, no thread is in a window.
LEMMA ShellOnCpu ==
    ASSUME SemInv, ShellRuns
    PROVE  \A u \in Threads : cpu # Thread(u) /\ pc[u] \notin Windows
BY ContextsDiffer DEF ShellRuns, ProcessRuns, SemInv, BaseInv, OnlyCpuInWindow

\* thread_create gives the demo the first free slot.
LEMMA CreateWorkerStep ==
    ASSUME SemInv, CreateWorker, created \in Nat
    PROVE  /\ SemInv' /\ \A s : Line(s)' = Line(s)
           /\ \E t \in Threads :
                 /\ tstate[t] = "UNUSED" /\ \A u \in 1..(t - 1) : tstate[u] # "UNUSED"
                 /\ tstate' = [tstate EXCEPT ![t] = "READY"]
                 /\ id' = [id EXCEPT ![t] = IF created < Producers THEN created + 1 ELSE 0]
<1>1. PICK t \in Threads :
         /\ AllocThread(t)
         /\ id' = [id EXCEPT ![t] = IF created < Producers THEN created + 1 ELSE 0]
  BY DEF CreateWorker
<1>2. /\ IInv' /\ ShellRuns /\ tstate[t] = "UNUSED"
      /\ \A u \in 1..(t - 1) : tstate[u] # "UNUSED"
      /\ tstate' = [tstate EXCEPT ![t] = "READY"] /\ cpu' = cpu
      /\ tstate \in [Threads -> ThreadStates] /\ id \in [Threads -> Nat]
  <2>1. IInv'
    BY <1>1, AllocThreadStep DEF SemInv, BaseInv
  <2>2. tstate \in [Threads -> ThreadStates] /\ id \in [Threads -> Nat]
    BY DEF SemInv, BaseInv, SemTypeOK, IInv, SchedulerTypeOK
  <2> QED
    BY <1>1, <2>1, <2>2 DEF AllocThread, Unused, dispatchVars
<1>3. UNCHANGED <<semVars, pc, i, call, reg, sem_done, buffer_count, cpu>>
  BY <1>2 DEF CreateWorker, bufferVars
<1>4. id' \in [Threads -> Nat]
  BY <1>1, <1>2
<1>5. \A u \in Threads :
         \/ tstate'[u] = tstate[u] /\ id'[u] = id[u]
         \/ tstate[u] = "UNUSED" /\ tstate'[u] = "READY" /\ cpu # Thread(u)
  BY <1>1, <1>2, ShellOnCpu
<1> QED
  BY <1>1, <1>2, <1>3, <1>4, <1>5, SemKept

\* The rest of thread_create, and the tests of the shell's loop.
LEMMA ShellMovesOn ==
    ASSUME SemInv, LinkWorker \/ CloseWorker \/ CreateFails \/ WaitForDone \/ Report
    PROVE  SemInv' /\ (\A s : Line(s)' = Line(s)) /\ UNCHANGED <<tstate, cpu>>
<1>1. UNCHANGED <<semVars, bufferVars, workerVars, sem_done>>
  BY DEF LinkWorker, CloseWorker, CreateFails, WaitForDone, Report
<1>2. IInv' /\ tstate' = tstate /\ UNCHANGED cpu
  BY LinkStep, SchedulerKept
  DEF LinkWorker, CloseWorker, CreateFails, WaitForDone, Report, LinkThread, CloseRing,
      SemInv, BaseInv, schedVars, threadVars, dispatchVars
<1>3. id' \in [Threads -> Nat]
  BY <1>1 DEF SemInv, BaseInv, SemTypeOK, workerVars
<1>4. UNCHANGED <<semVars, pc, i, call, reg, sem_done, buffer_count, id, cpu, tstate>>
  BY <1>1, <1>2 DEF workerVars, bufferVars
<1> QED
  BY <1>2, <1>3, <1>4, SemKept

\* scheduler_yield in the loop in which the shell waits.
LEMMA WaitYieldStep ==
    ASSUME SemInv, WaitYield
    PROVE  SemInv' /\ \A s : Line(s)' = Line(s)
<1>1. /\ SchedulerYield /\ pc' = pc /\ i' = i
      /\ UNCHANGED <<semVars, bufferVars, id, call, reg, sem_done>>
  BY DEF WaitYield, workerVars
<1>2. \A u \in Threads : pc[u] \notin Windows
  BY ShellOnCpu DEF WaitYield, ShellGoto
<1>3. pc' \in [Threads -> WorkerSteps] /\ i' \in [Threads -> Nat]
  BY <1>1 DEF SemInv, BaseInv, SemTypeOK
<1> QED
  BY <1>1, <1>2, <1>3, IrqKeepsSem

LEMMA NobodyInLine ==
    ASSUME NEW s
    PROVE  /\ wait_next \in [Threads -> Slots] /\ wait_head[s] = NULL => Line(s) = << >>
           /\ wait_next' \in [Threads -> Slots] /\ wait_head'[s] = NULL => Line(s)' = << >>
<1>1. << >> \in Seq(Threads) /\ NoRepeats(<< >>) /\ FirstOf(<< >>) = NULL
      /\ \A nx : IsChain(nx, << >>)
  BY DEF FirstOf, NoRepeats, IsChain
<1>2. PICK nobody \in Seq(Threads) : nobody = << >>
  BY <1>1
<1> QED
  BY <1>1, <1>2, LineIsChain

\* With no thread within a call and no head, nobody waits.
Resting == \A t \in Threads : pc[t] \in {"loop", "exit", "gone"} /\ tstate[t] # "BLOCKED"
LEMMA AtRest ==
    /\ Resting /\ (\A s \in Semaphores : Line(s) = << >> /\ wait_head[s] = NULL /\ value[s] >= 0)
          => QueuesInv /\ ValueInv
    /\ Resting' /\ (\A s \in Semaphores : Line(s)' = << >> /\ wait_head'[s] = NULL /\ value'[s] >= 0)
          => QueuesInv' /\ ValueInv'
<1>1. ASSUME Resting,
             \A s \in Semaphores : Line(s) = << >> /\ wait_head[s] = NULL /\ value[s] >= 0
      PROVE  QueuesInv /\ ValueInv
  <2>1. \A t \in Threads : pc[t] \notin QueueSteps \cup UnitSteps
    BY <1>1 DEF Resting, QueueSteps, TakenSteps, UnitSteps, NoUnitSteps
  <2>2. \A s \in Semaphores : LineInv(s)
    <3>1. << >> \in Seq(Threads) /\ NoRepeats(<< >>) /\ FirstOf(<< >>) = NULL
          /\ IsChain(wait_next, << >>) /\ \A t : ~InRing(<< >>, t)
      BY DEF FirstOf, NoRepeats, IsChain, InRing
    <3>2. \A t \in Threads : ~Joins(t)
      BY <2>1 DEF Joins, QueueSteps
    <3> QED
      BY <1>1, <3>1, <3>2 DEF LineInv
  <2>3. \A t \in Threads : \A s \in Semaphores : PlaceInv(t, s) /\ UnitInv(t, s)
    BY <2>1 DEF PlaceInv, EnqueueInv, DequeueInv, UnitInv, QueueSteps, TakenSteps, UnitSteps,
       NoUnitSteps
  <2>4. TakenInv /\ SleepInv
    BY <1>1, <2>1 DEF Resting, TakenInv, SleepInv, Takes, QueueSteps
  <2> QED
    BY <1>1, <2>2, <2>3, <2>4 DEF QueuesInv, ValueInv
<1>2. ASSUME Resting',
             \A s \in Semaphores : Line(s)' = << >> /\ wait_head'[s] = NULL /\ value'[s] >= 0
      PROVE  QueuesInv' /\ ValueInv'
  <2>1. \A t \in Threads : pc'[t] \notin QueueSteps \cup UnitSteps
    BY <1>2 DEF Resting, QueueSteps, TakenSteps, UnitSteps, NoUnitSteps
  <2>2. \A s \in Semaphores : LineInv(s)'
    <3>1. << >> \in Seq(Threads) /\ NoRepeats(<< >>) /\ FirstOf(<< >>) = NULL
          /\ IsChain(wait_next', << >>) /\ \A t : ~InRing(<< >>, t)
      BY DEF FirstOf, NoRepeats, IsChain, InRing
    <3>2. \A t \in Threads : ~Joins(t)'
      BY <2>1 DEF Joins, QueueSteps
    <3> QED
      BY <1>2, <3>1, <3>2 DEF LineInv
  <2>3. \A t \in Threads : \A s \in Semaphores : PlaceInv(t, s)' /\ UnitInv(t, s)'
    BY <2>1 DEF PlaceInv, EnqueueInv, DequeueInv, UnitInv, QueueSteps, TakenSteps, UnitSteps,
       NoUnitSteps
  <2>4. TakenInv' /\ SleepInv'
    BY <1>2, <2>1 DEF Resting, TakenInv, SleepInv, Takes, QueueSteps
  <2> QED
    BY <1>2, <2>2, <2>3, <2>4 DEF QueuesInv, ValueInv
<1> QED
  BY <1>1, <1>2

\* semdemo's initialisations, when no thread of an earlier call is at work.
RestStep == StartDemo \/ ClearDone \/ InitSemaphores

LEMMA InitialValues ==
    /\ Initially \in [Semaphores -> Int]
    /\ \A s \in Semaphores : Initially[s] \in Nat /\ Initially[s] >= 0
<1>1. BufferSize \in Nat
  BY SemDemoAssumption
<1>2. 0 \in Nat /\ 1 \in Nat /\ Nat \subseteq Int /\ \A n \in Nat : n >= 0
  OBVIOUS
<1>3. \A s \in Semaphores : Initially[s] \in Nat
  BY <1>1, <1>2 DEF Initially
<1> QED
  BY <1>2, <1>3 DEF Initially

LEMMA RestStepStep ==
    ASSUME SemInv, RestStep, Resting
    PROVE  /\ SemInv' /\ Resting'
           /\ \A s \in Semaphores : /\ Line(s) = << >> /\ Line(s)' = << >>
                                    /\ value'[s] \in {value[s], Initially[s]}
           /\ UNCHANGED <<pc, next, loaded, unit, tstate, cpu, id, i, call, reg, buffer>>
<1>1. /\ UNCHANGED <<wait_next, pc, next, loaded, unit, id, i, call, reg, buffer>>
      /\ UNCHANGED schedVars
      /\ buffer_count' \in {buffer_count, 0} /\ sem_done' \in {sem_done, 0}
      /\ \/ value' = value
         \/ \E s \in Semaphores : value' = [value EXCEPT ![s] = Initially[s]]
      /\ \/ wait_head' = wait_head
         \/ \E s \in Semaphores : wait_head' = [wait_head EXCEPT ![s] = NULL]
      /\ \/ wait_tail' = wait_tail
         \/ \E s \in Semaphores : wait_tail' = [wait_tail EXCEPT ![s] = NULL]
  <2>1. CASE StartDemo \/ ClearDone
    BY <2>1 DEF StartDemo, ClearDone, workerVars, locals, semVars, queueVars, bufferVars
  <2>2. CASE InitSemaphores
    <3>1. PICK s \in Semaphores :
             \/ InitValue(s, Initially[s])
             \/ InitHead(s) /\ UNCHANGED value
             \/ InitTail(s) /\ UNCHANGED value
      BY <2>2 DEF InitSemaphores, SemInitCall, Semaphores
    <3>2. UNCHANGED <<pc, next, loaded, unit, id, i, call, reg, buffer, buffer_count, sem_done,
                      schedVars>>
      BY <2>2 DEF InitSemaphores, workerVars, locals, bufferVars
    <3> QED
      BY <3>1, <3>2 DEF InitValue, InitHead, InitTail, queueVars
  <2> QED
    BY <2>1, <2>2 DEF RestStep
<1>2. UNCHANGED <<tstate, cpu>>
  BY <1>1 DEF schedVars, threadVars, dispatchVars
<1>3. Resting'
  BY <1>1, <1>2 DEF Resting
<1>4. /\ SemTypeOK /\ OnlyCpuInWindow /\ StatesFit /\ CallsFit /\ QueuesInv /\ ValueInv
  BY DEF SemInv, BaseInv
<1>5. ASSUME NEW s \in Semaphores
      PROVE  Line(s) = << >> /\ wait_head[s] = NULL /\ value[s] >= 0
  <2>1. PICK line \in Seq(Threads) : line = Line(s) /\ LineInv(s)
    BY <1>4 DEF QueuesInv, LineInv
  <2>2. \A t \in Threads : ~InRing(line, t)
    BY <2>1 DEF LineInv, Resting, Joins
  <2>3. line # << >> => InRing(line, line[1]) /\ line[1] \in Threads
    BY <2>1 DEF InRing
  <2>4. line = << >>
    BY <2>2, <2>3
  <2> QED
    BY <1>4, <2>1, <2>4 DEF LineInv, FirstOf, ValueInv
<1>6. /\ value \in [Semaphores -> Int]
      /\ wait_head \in [Semaphores -> Threads \cup {NULL}]
      /\ wait_tail \in [Semaphores -> Threads \cup {NULL}]
  BY <1>4 DEF SemTypeOK, WaitQueueTypeOK
<1>7. wait_head' = wait_head
  BY <1>1, <1>5, <1>6
<1>8. wait_tail' \in [Semaphores -> Threads \cup {NULL}]
  BY <1>1, <1>6
<1>9. /\ value' \in [Semaphores -> Int]
      /\ \A s \in Semaphores : value'[s] \in {value[s], Initially[s]}
  BY <1>1, <1>6, InitialValues
<1>10. IInv'
  BY <1>1, SchedulerKept DEF SemInv, BaseInv
<1>11. SemTypeOK'
  BY <1>1, <1>4, <1>7, <1>8, <1>9 DEF SemTypeOK, WaitQueueTypeOK
<1>12. OnlyCpuInWindow' /\ StatesFit'
  BY <1>1, <1>2, <1>4 DEF OnlyCpuInWindow, StatesFit
<1>13. CallsFit'
  <2>1. \A u \in Threads : CallFits(u)'
    BY <1>1, <1>2, <1>4, CallStays DEF CallsFit
  <2> QED
    BY <2>1 DEF CallsFit
<1>14. \A s \in Semaphores : Line(s)' = << >> /\ wait_head'[s] = NULL /\ value'[s] >= 0
  BY <1>5, <1>7, <1>9, <1>11, InitialValues, NobodyInLine DEF SemTypeOK, WaitQueueTypeOK, Slots
<1>15. QueuesInv' /\ ValueInv'
  BY <1>3, <1>14, AtRest
<1> QED
  BY <1>1, <1>2, <1>3, <1>5, <1>9, <1>10, <1>11, <1>12, <1>13, <1>14, <1>15
  DEF SemInv, BaseInv

-----------------------------------------------------------------------------
(* The invariant holds at boot and is kept by every step.                  *)

LEMMA InitSemInv ==
    ASSUME Init
    PROVE  SemInv
<1>1. IInv
  BY InitIInv DEF Init
<1>2. /\ tstate = [t \in Threads |-> "UNUSED"]
      /\ \A t \in Threads : cpu # Thread(t)
      /\ pc = [t \in Threads |-> "loop"]
  BY ContextsDiffer DEF Init, SchedulerInit
<1>3. DOMAIN Initially = Semaphores
  BY DEF Initially
<1>4. /\ value = Initially
      /\ unit = [t \in Threads |-> 0]
      /\ wait_head = [s \in Semaphores |-> NULL]
      /\ wait_tail = [s \in Semaphores |-> NULL]
      /\ wait_next = [t \in Threads |-> NULL]
      /\ next = [t \in Threads |-> NULL]
      /\ loaded = [t \in Threads |-> NULL]
      /\ buffer_count = 0 /\ sem_done = 0
      /\ id = [t \in Threads |-> 0]
      /\ i = [t \in Threads |-> 0]
      /\ call = [t \in Threads |-> 1]
      /\ reg = [t \in Threads |-> 0]
  BY <1>3 DEF Init, SemInit, WaitQueueInit
<1>5. Initially \in [Semaphores -> Int] /\ \A s \in Semaphores : Initially[s] >= 0
  BY InitialValues
<1>6. SemTypeOK
  BY <1>2, <1>4, <1>5 DEF SemTypeOK, WaitQueueTypeOK, WorkerSteps
<1>7. OnlyCpuInWindow /\ StatesFit
  BY <1>2 DEF OnlyCpuInWindow, StatesFit, Windows
<1>8. CallsFit
  BY <1>2, <1>4
  DEF CallsFit, CallFits, OutOfCalls, WaitSteps, BufferSteps, SignalSteps, EnqueueSteps,
      DequeueSteps
<1>9. QueuesInv /\ ValueInv
  <2>1. Resting
    BY <1>2 DEF Resting
  <2>2. \A s \in Semaphores : Line(s) = << >> /\ wait_head[s] = NULL
    BY <1>4, <1>6, NobodyInLine DEF SemTypeOK, WaitQueueTypeOK, Slots
  <2> QED
    BY <1>4, <1>5, <2>1, <2>2, AtRest
<1> QED
  BY <1>1, <1>6, <1>7, <1>8, <1>9 DEF SemInv, BaseInv

\* What a step may do to a semaphore and its line: the operations that
\* FifoSemaphore allows.
Stays(s) == value'[s] = value[s] /\ Line(s)' = Line(s)
OneTaken(s) == value[s] > 0 /\ value'[s] = value[s] - 1 /\ Line(s)' = Line(s)
OneJoins(s, t) ==
    /\ value[s] = 0 /\ value'[s] = value[s]
    /\ ~InRing(Line(s), t) /\ Line(s)' = Append(Line(s), t)
OneGiven(s) ==
    \/ Line(s) = << >> /\ Line(s)' = Line(s) /\ value'[s] = value[s] + 1
    \/ Line(s) # << >> /\ Line(s)' = Tail(Line(s)) /\ value'[s] = value[s]

LEMMA WaitStep ==
    ASSUME SemInv, NEW t \in Threads, Wait(t)
    PROVE  /\ SemInv'
           /\ \A s \in Semaphores : Stays(s) \/ OneTaken(s) \/ OneJoins(s, t)
<1>1. PICK s \in Semaphores : s = Sem(t)
  BY SemIsOne DEF SemInv, BaseInv
<1>2. SemWait(t, s, "return") /\ UNCHANGED <<bufferVars, id, i, call, reg, sem_done>>
  BY <1>1 DEF Wait
<1>3. value \in [Semaphores -> Int]
  BY DEF SemInv, BaseInv, SemTypeOK
<1>4. CASE TestValue(t, s)
  <2>1. value' = value
    BY <1>4 DEF TestValue
  <2> QED
    BY <1>1, <1>2, <1>4, <2>1, UnitStep DEF Stays
<1>5. CASE TakeUnit(t, s, "return")
  <2>1. /\ SemInv' /\ \A q : Line(q)' = Line(q)
        /\ value[s] > 0 /\ value' = [value EXCEPT ![s] = value[s] - 1]
    BY <1>1, <1>2, <1>5, UnitStep
  <2> QED
    BY <1>3, <2>1 DEF Stays, OneTaken
<1>6. CASE Enqueue(t, s, "return") /\ UNCHANGED <<value, unit>>
  <2>1. UNCHANGED <<value, unit, bufferVars, id, i, call, reg, sem_done>>
    BY <1>2, <1>6
  <2>2. CASE TestQueue(t, s) \/ LoadTail(t, s) \/ SetTail(t, s)
    BY <1>1, <2>1, <2>2, EnqueueStep DEF Stays
  <2>3. CASE SetHead(t, s) \/ LinkTail(t)
    BY <1>1, <2>1, <2>3, JoinStep DEF Stays, OneJoins
  <2>4. CASE Block(t)
    BY <2>1, <2>4, BlockStep DEF Stays
  <2>5. CASE BlockedYield(t, "return")
    BY <2>1, <2>5, YieldStep DEF Stays
  <2> QED
    BY <1>6, <2>2, <2>3, <2>4, <2>5 DEF Enqueue
<1> QED
  BY <1>2, <1>4, <1>5, <1>6 DEF SemWait

LEMMA SignalStep ==
    ASSUME SemInv, NEW t \in Threads, Signal(t)
    PROVE  /\ SemInv'
           /\ \A s \in Semaphores : Stays(s) \/ OneGiven(s)
<1>1. PICK s \in Semaphores : s = Sem(t)
  BY SemIsOne DEF SemInv, BaseInv
<1>2. SemSignal(t, s, "return") /\ UNCHANGED <<bufferVars, id, i, call, reg, sem_done>>
  BY <1>1 DEF Signal
<1>3. value \in [Semaphores -> Int]
  BY DEF SemInv, BaseInv, SemTypeOK
<1>4. CASE AddUnit(t, s, "return")
  <2>1. /\ SemInv' /\ \A q : Line(q)' = Line(q)
        /\ Line(s) = << >> /\ value' = [value EXCEPT ![s] = value[s] + 1]
    BY <1>1, <1>2, <1>4, UnitStep
  <2> QED
    BY <1>3, <2>1 DEF Stays, OneGiven
<1>5. CASE Dequeue(t, s, "addUnit", "wake", "return") /\ UNCHANGED <<value, unit>>
  <2>1. UNCHANGED <<value, unit, bufferVars, id, i, call, reg, sem_done>>
    BY <1>2, <1>5
  <2>2. CASE TestWaiter(t, s, "addUnit") \/ LoadNext(t) \/ ClearTail(t, s) \/ ClearNext(t, "wake")
    BY <1>1, <2>1, <2>2, DequeueStep DEF Stays
  <2>3. CASE SetNewHead(t, s)
    BY <1>1, <2>1, <2>3, TakeStep DEF Stays, OneGiven
  <2>4. CASE Wake(t, "return")
    BY <2>1, <2>4, WakeStep DEF Stays
  <2> QED
    BY <1>5, <2>2, <2>3, <2>4 DEF Dequeue
<1> QED
  BY <1>2, <1>4, <1>5 DEF SemSignal

\* Every step of a worker keeps the invariant of the lines and is at most one
\* operation on each semaphore.
LEMMA WorkerStep ==
    ASSUME SemInv, NEW t \in Threads, Worker(t)
    PROVE  /\ SemInv'
           /\ \A s \in Semaphores : Stays(s) \/ OneTaken(s) \/ OneJoins(s, t) \/ OneGiven(s)
<1>1. CASE Wait(t)
  BY <1>1, WaitStep
<1>2. CASE Signal(t)
  BY <1>2, SignalStep
<1>3. CASE Body(t)
  <2>1. value' = value
    BY <1>3, BodyTypes DEF SemInv, BaseInv
  <2> QED
    BY <1>3, <2>1, BodyStep DEF Stays
<1>4. CASE RoundYield(t) \/ GoneYield(t)
  <2>1. value' = value
    BY <1>4 DEF RoundYield, GoneYield, semVars
  <2> QED
    BY <1>4, <2>1, YieldStep DEF Stays
<1>5. CASE Exit(t)
  <2>1. value' = value
    BY <1>5 DEF Exit, semVars
  <2> QED
    BY <1>5, <2>1, ExitStep DEF Stays
<1> QED
  BY <1>1, <1>2, <1>3, <1>4, <1>5 DEF Worker, Body

\* The steps of neither a worker nor the initialisations.
LEMMA OtherStep ==
    ASSUME SemInv, ~struck', created \in Nat,
           \/ BootStep \/ Tick \/ CreateWorker \/ LinkWorker \/ CloseWorker \/ CreateFails
           \/ WaitForDone \/ WaitYield \/ Report \/ UNCHANGED vars
    PROVE  SemInv' /\ \A s \in Semaphores : Stays(s)
<1>1. value' = value
  BY DEF BootStep, Tick, CreateWorker, LinkWorker, CloseWorker, CreateFails, WaitForDone,
     WaitYield, Report, semVars, vars
<1>2. SemInv' /\ \A s \in Semaphores : Line(s)' = Line(s)
  <2>1. CASE UNCHANGED vars
    <3>1. UNCHANGED <<schedVars, semVars, pc, i, call, reg, sem_done, buffer_count, id, cpu, tstate>>
      BY <2>1 DEF vars, schedVars, threadVars, dispatchVars, workerVars, bufferVars
    <3>2. IInv'
      BY <3>1, SchedulerKept DEF SemInv, BaseInv
    <3>3. id' \in [Threads -> Nat]
      BY <3>1 DEF SemInv, BaseInv, SemTypeOK
    <3> QED
      BY <3>1, <3>2, <3>3, SemKept
  <2>2. CASE LinkWorker \/ CloseWorker \/ CreateFails \/ WaitForDone \/ Report
    BY <2>2, ShellMovesOn
  <2> QED
    BY <2>1, <2>2, BootKeeps, TickStep, CreateWorkerStep, WaitYieldStep
<1> QED
  BY <1>1, <1>2 DEF Stays

-----------------------------------------------------------------------------
(* The calls of semdemo.                                                   *)

\* What a worker's step leaves to the other threads, the table and the shell.
LEMMA WorkerEffect ==
    ASSUME SemInv, NEW t \in Threads, Worker(t)
    PROVE  /\ cpu = Thread(t) /\ tstate[t] # "UNUSED"
           /\ UNCHANGED <<id, shell, created>>
           /\ \A u \in Threads : tstate'[u] = "UNUSED" <=> tstate[u] = "UNUSED"
           /\ \A u \in Threads \ {t} :
                 pc'[u] = pc[u] /\ reg'[u] = reg[u] /\ i'[u] = i[u] /\ call'[u] = call[u]
           /\ ~StoreDone(t) => sem_done' = sem_done
           /\ pc'[t] \in {"exit", "gone"} <=> StoreDone(t) \/ pc[t] \in {"exit", "gone"}
           /\ pc'[t] = "storeDone" => reg'[t] = sem_done /\ pc[t] = "loadDone"
<1>1. /\ pc \in [Threads -> WorkerSteps] /\ reg \in [Threads -> Int]
      /\ call \in [Threads -> 1..4] /\ i \in [Threads -> Nat]
      /\ tstate \in [Threads -> ThreadStates]
      /\ next \in [Threads -> Threads \cup {NULL}]
  BY DEF SemInv, BaseInv, SemTypeOK, WaitQueueTypeOK, IInv, SchedulerTypeOK
<1>2. UNCHANGED <<shell, created>>
  BY DEF Worker, shellVars
<1>3. cpu = Thread(t) => tstate[t] # "UNUSED"
  BY DEF SemInv, BaseInv, StatesFit
<1>4. CASE Body(t)
  <2>1. UNCHANGED <<schedVars, id, i>>
    BY <1>4, BodyTypes DEF SemInv, BaseInv
  <2>2. UNCHANGED <<tstate, id, i>>
    BY <2>1 DEF schedVars, threadVars
  <2>3. PICK from \in BodySteps, to \in {"testValue", "loadDone", "loadIndex", "loadCount",
              "testWaiter", "yield", "putItem", "takeItem", "storeCount", "storeDone", "exit"} :
         /\ Goto(t, from, to)
         /\ from = "loop" => to \in {"testValue", "loadDone"}
         /\ from = "return" /\ call[t] = 1 => to = "testValue"
         /\ from = "return" /\ call[t] = 2 => to \in {"loadIndex", "loadCount"}
         /\ from = "return" /\ call[t] = 3 => to = "testWaiter"
         /\ from = "return" /\ call[t] = 4 => to = "yield"
         /\ from \in BufferSteps =>
               to \in {"putItem", "takeItem", "loadCount", "storeCount", "loadIndex",
                       "testWaiter"}
         /\ from = "loadDone" => to = "storeDone"
         /\ from = "storeDone" => to = "exit"
         /\ \A u \in Threads \ {t} : call'[u] = call[u]
    BY <1>4, BodyGoes DEF SemInv, BaseInv
  <2>4. \A u \in Threads \ {t} : reg'[u] = reg[u]
    BY <1>4, BodyTypes DEF SemInv, BaseInv
  <2>5. /\ ~StoreDone(t) => sem_done' = sem_done
        /\ StoreDone(t) <=> from = "storeDone"
        /\ LoadDone(t) <=> from = "loadDone"
    BY <1>4, <2>3 DEF Body, Loop, Return, LoadIndex, PutItem, TakeItem, LoadCount,
       StoreCount, LoadDone, StoreDone, Goto, Executes
  <2>6. cpu = Thread(t) /\ pc[t] = from /\ pc' = [pc EXCEPT ![t] = to]
    BY <2>3 DEF Goto, Executes
  <2>7. call[t] \in {1, 2, 3, 4}
    BY <1>1
  <2>8. /\ to = "exit" <=> from = "storeDone"
        /\ to = "storeDone" => from = "loadDone"
        /\ from \notin {"exit", "gone"} /\ to # "gone"
    BY <2>3, <2>7 DEF BodySteps, BufferSteps
  <2>9. to = "storeDone" => reg'[t] = sem_done
    BY <1>1, <2>5, <2>8 DEF LoadDone
  <2> QED
    BY <1>1, <1>2, <1>3, <2>2, <2>3, <2>4, <2>5, <2>6, <2>8, <2>9
<1>5. CASE RoundYield(t) \/ GoneYield(t)
  <2>1. SchedulerYield
    BY <1>5 DEF RoundYield, GoneYield
  <2>2. \A u \in Threads : tstate'[u] = "UNUSED" <=> tstate[u] = "UNUSED"
    BY <2>1, IrqEffect DEF SemInv, BaseInv
  <2>3. ~StoreDone(t)
    BY <1>5 DEF RoundYield, GoneYield, StoreDone, Goto, Executes
  <2> QED
    BY <1>1, <1>2, <1>3, <1>5, <2>2, <2>3 DEF RoundYield, GoneYield, Goto, Executes, workerVars
<1>6. CASE Exit(t)
  <2>1. cpu = Thread(t) /\ ThreadExit /\ pc[t] = "exit" /\ pc' = [pc EXCEPT ![t] = "gone"]
        /\ UNCHANGED <<id, i, call, reg, sem_done>>
    BY <1>6 DEF Exit, Goto, Executes
  <2>2. tstate' = [tstate EXCEPT ![t] = "TERMINATED"]
    BY <2>1, CallEffect DEF SemInv, BaseInv
  <2> QED
    BY <1>1, <1>2, <1>3, <2>1, <2>2 DEF StoreDone, Goto, Executes
<1>7. CASE Wait(t) \/ Signal(t)
  <2>1. PICK s \in Semaphores : s = Sem(t)
    BY SemIsOne DEF SemInv, BaseInv
  <2>2. \/ SemWait(t, s, "return")
        \/ SemSignal(t, s, "return")
    BY <1>7, <2>1 DEF Wait, Signal
  <2>3. UNCHANGED <<id, i, call, reg, sem_done>>
    BY <1>7 DEF Wait, Signal
  <2>4. /\ cpu = Thread(t) /\ pc[t] \in WaitSteps \cup SignalSteps
        /\ \E to \in WaitSteps \cup SignalSteps \cup {"return"} : pc' = [pc EXCEPT ![t] = to]
    <3> USE DEF Goto, Executes, WaitSteps, SignalSteps, EnqueueSteps, DequeueSteps
    <3>1. CASE SemWait(t, s, "return")
      BY <3>1 DEF SemWait, TestValue, TakeUnit, Enqueue, TestQueue, SetHead, LoadTail,
         LinkTail, SetTail, Block, BlockedYield
    <3>2. CASE SemSignal(t, s, "return")
      BY <3>2 DEF SemSignal, AddUnit, Dequeue, TestWaiter, LoadNext, SetNewHead, ClearTail,
         ClearNext, Wake
    <3> QED
      BY <2>2, <3>1, <3>2
  <2>5. \A u \in Threads : tstate'[u] = "UNUSED" <=> tstate[u] = "UNUSED"
    <3>1. CASE Block(t)
      BY <1>1, <1>3, <2>4, <3>1, CallEffect DEF Block, SemInv, BaseInv
    <3>2. CASE BlockedYield(t, "return")
      BY <3>2, IrqEffect DEF BlockedYield, SemInv, BaseInv
    <3>3. CASE Wake(t, "return")
      <4>1. next[t] \in Threads
        BY <3>3 DEF Wake, Goto, Executes, SemInv, QueuesInv, TakenInv, TakenSteps
      <4> QED
        BY <1>1, <2>4, <3>3, <4>1, CallEffect DEF Wake, SemInv, BaseInv
    <3>4. CASE \/ TestValue(t, s) \/ TakeUnit(t, s, "return") \/ TestQueue(t, s)
               \/ SetHead(t, s) \/ LoadTail(t, s) \/ LinkTail(t) \/ SetTail(t, s)
               \/ AddUnit(t, s, "return") \/ TestWaiter(t, s, "addUnit") \/ LoadNext(t)
               \/ SetNewHead(t, s) \/ ClearTail(t, s) \/ ClearNext(t, "wake")
      BY <3>4 DEF TestValue, TakeUnit, TestQueue, SetHead, LoadTail, LinkTail, SetTail,
         AddUnit, TestWaiter, LoadNext, SetNewHead, ClearTail, ClearNext, schedVars, threadVars
    <3> QED
      BY <2>2, <3>1, <3>2, <3>3, <3>4 DEF SemWait, SemSignal, Enqueue, Dequeue
  <2>6. PICK to \in WaitSteps \cup SignalSteps \cup {"return"} : pc' = [pc EXCEPT ![t] = to]
    BY <2>4
  <2>7. /\ to \notin {"exit", "gone", "storeDone"}
        /\ pc[t] \notin {"exit", "gone", "storeDone"}
    BY <2>4 DEF WaitSteps, SignalSteps, EnqueueSteps, DequeueSteps
  <2> QED
    BY <1>1, <1>2, <1>3, <2>3, <2>4, <2>5, <2>6, <2>7 DEF StoreDone, Goto, Executes
<1> QED
  BY <1>2, <1>3, <1>4, <1>5, <1>6, <1>7 DEF Worker, Body

LEMMA Bounds ==
    /\ MaxThreads \in Nat /\ Workers \in 1..MaxThreads /\ Producers \in Nat \ {0}
    /\ Workers = Producers + 1 /\ Threads = 1..MaxThreads
BY SemDemoAssumption, SchedulerAssumption DEF Workers, Threads

\* A step that neither finishes a thread nor moves the shell.
LEMMA DemoKept ==
    ASSUME NEW start \in 0..MaxThreads, NEW last \in 0..MaxThreads, DemoInv(start, last),
           UNCHANGED <<shell, created, sem_done>>,
           \A u \in Threads :
              /\ tstate'[u] = "UNUSED" <=> tstate[u] = "UNUSED"
              /\ Finished(u)' <=> Finished(u)
              /\ pc'[u] = "storeDone" => reg'[u] = sem_done
    PROVE  DemoInv(start, last)'
<1>1. FinishedAfter(start)' = FinishedAfter(start)
  BY DEF FinishedAfter
<1> QED
  BY <1>1 DEF DemoInv, ThreadsFit, ShellFits

\* sem_done++ is not disturbed, and counts the thread.
LEMMA StoreDoneKeepsDemo ==
    ASSUME SemInv, NEW start \in 0..MaxThreads, NEW last \in 0..MaxThreads,
           DemoInv(start, last), NEW t \in Threads, Worker(t), StoreDone(t)
    PROVE  DemoInv(start, last)'
<1>1. /\ UNCHANGED <<shell, created>> /\ sem_done' = reg[t] + 1
      /\ pc[t] = "storeDone" /\ pc' = [pc EXCEPT ![t] = "exit"] /\ cpu = Thread(t)
      /\ \A u \in Threads : tstate'[u] = "UNUSED" <=> tstate[u] = "UNUSED"
      /\ pc \in [Threads -> WorkerSteps]
  BY WorkerEffect DEF StoreDone, Goto, Executes, SemInv, BaseInv, SemTypeOK
<1>2. \A u \in Threads : Finished(u)' <=> Finished(u) \/ u = t
  BY <1>1 DEF Finished
<1>3. ~(t <= start) /\ reg[t] = sem_done /\ ~Finished(t)
  BY <1>1 DEF DemoInv, Finished
<1>4. /\ FinishedAfter(start)' = FinishedAfter(start) \cup {t}
      /\ t \notin FinishedAfter(start)
  BY <1>2, <1>3, Bounds DEF FinishedAfter
<1>5. IsFiniteSet(FinishedAfter(start))
  BY ThreadsAreFinite, FS_Subset DEF FinishedAfter
<1>6. shell' # "clearDone" => sem_done' = Cardinality(FinishedAfter(start)')
  BY <1>1, <1>3, <1>4, <1>5, FS_AddElement DEF DemoInv
<1>7. \A u \in Threads : pc'[u] # "storeDone"
  BY <1>1, OneOnCpu DEF SemInv, BaseInv, OnlyCpuInWindow, Windows
<1>8. /\ ThreadsFit(start, last)'
      /\ \A u \in Threads : u <= start => Finished(u)'
      /\ ShellFits(start, last)'
  BY <1>1, <1>2 DEF DemoInv, ThreadsFit, ShellFits
<1> QED
  BY <1>6, <1>7, <1>8 DEF DemoInv

\* A worker's step keeps the count of those that have finished.
LEMMA WorkerKeepsDemo ==
    ASSUME SemInv, NEW start \in 0..MaxThreads, NEW last \in 0..MaxThreads,
           DemoInv(start, last), NEW t \in Threads, Worker(t)
    PROVE  DemoInv(start, last)'
<1>1. CASE StoreDone(t)
  BY <1>1, StoreDoneKeepsDemo
<1>2. CASE ~StoreDone(t)
  <2>1. /\ UNCHANGED <<shell, created, sem_done>>
        /\ \A u \in Threads : tstate'[u] = "UNUSED" <=> tstate[u] = "UNUSED"
        /\ \A u \in Threads \ {t} : pc'[u] = pc[u] /\ reg'[u] = reg[u]
        /\ pc'[t] \in {"exit", "gone"} <=> pc[t] \in {"exit", "gone"}
        /\ pc'[t] = "storeDone" => reg'[t] = sem_done
    BY <1>2, WorkerEffect
  <2>2. \A u \in Threads : (Finished(u)' <=> Finished(u))
                           /\ (pc'[u] = "storeDone" => reg'[u] = sem_done)
    BY <2>1 DEF Finished, DemoInv
  <2> QED
    BY <2>1, <2>2, DemoKept
<1> QED
  BY <1>1, <1>2

\* thread_create gives the demo the slot after its last.
LEMMA CreateKeepsDemo ==
    ASSUME SemInv, NEW start \in 0..MaxThreads, NEW last \in 0..MaxThreads,
           DemoInv(start, last), CreateWorker
    PROVE  /\ last + 1 \in Threads /\ DemoInv(start, last + 1)'
           /\ id' = [id EXCEPT ![last + 1] = IF created < Producers THEN created + 1 ELSE 0]
           /\ created = last - start
           /\ \A u \in Threads : u # last + 1 => (tstate'[u] = "UNUSED" <=> tstate[u] = "UNUSED")
           /\ tstate[last + 1] = "UNUSED"
<1>1. /\ shell = "create" /\ shell' = "link" /\ UNCHANGED <<created, sem_done, pc, reg>>
  BY DEF CreateWorker, ShellGoto
<1>2. created \in 0..Workers /\ created < Workers /\ last = start + created /\ created \in Nat
  BY <1>1, Bounds DEF DemoInv, ThreadsFit, ShellFits
<1>3. PICK t \in Threads :
         /\ tstate[t] = "UNUSED" /\ \A u \in 1..(t - 1) : tstate[u] # "UNUSED"
         /\ tstate' = [tstate EXCEPT ![t] = "READY"]
         /\ id' = [id EXCEPT ![t] = IF created < Producers THEN created + 1 ELSE 0]
  BY <1>2, CreateWorkerStep
<1>4. \A u \in Threads : tstate[u] # "UNUSED" <=> u <= last
  BY DEF DemoInv, ThreadsFit
<1>5. t = last + 1
  <2>1. t \in Nat /\ last \in Nat /\ ~(t <= last)
    BY <1>3, <1>4, Bounds
  <2>2. t # 1 => t - 1 \in 1..(t - 1) /\ t - 1 \in Threads
    BY Bounds
  <2>3. t # 1 => t - 1 <= last
    BY <1>3, <1>4, <2>2
  <2> QED
    BY <2>1, <2>3
<1>6. tstate \in [Threads -> ThreadStates]
  BY DEF SemInv, BaseInv, IInv, SchedulerTypeOK
<1>7. \A u \in Threads : tstate'[u] # "UNUSED" <=> u <= last + 1
  BY <1>3, <1>4, <1>5, <1>6, Bounds
<1>8. FinishedAfter(start)' = FinishedAfter(start)
  BY <1>1 DEF FinishedAfter, Finished
<1>9. \A u \in Threads : u <= start => Finished(u)'
  BY <1>1 DEF DemoInv, Finished
<1>10. last + 1 \in 0..MaxThreads /\ start <= last + 1 /\ last + 1 = start + created + 1
  BY <1>2, <1>3, <1>5, Bounds DEF DemoInv, ThreadsFit
<1>11. ThreadsFit(start, last + 1)' /\ ShellFits(start, last + 1)'
  BY <1>1, <1>2, <1>7, <1>10 DEF ThreadsFit, ShellFits, InitSteps
<1>12. DemoInv(start, last + 1)'
  BY <1>1, <1>8, <1>9, <1>11 DEF DemoInv
<1>13. \A u \in Threads : u # t => (tstate'[u] = "UNUSED" <=> tstate[u] = "UNUSED")
  BY <1>3, <1>6
<1>14. created = last - start
  BY <1>2
<1> QED
  BY <1>3, <1>5, <1>12, <1>13, <1>14

\* A call has at most Workers threads, those after the first `start`.
LEMMA LastOfCall ==
    ASSUME NEW start \in 0..MaxThreads, NEW last \in 0..MaxThreads, DemoInv(start, last)
    PROVE  last <= start + Workers
<1>1. /\ created \in 0..Workers
      /\ last = IF shell \in {"link", "close"} THEN start + created + 1 ELSE start + created
  BY DEF DemoInv, ThreadsFit
<1>2. shell \in {"link", "close"} => created < Workers
  BY DEF DemoInv, ShellFits
<1>3. PICK n \in 0..Workers : n = created
  BY <1>1
<1>4. CASE shell \in {"link", "close"}
  BY <1>1, <1>2, <1>3, <1>4, Bounds
<1>5. CASE shell \notin {"link", "close"}
  BY <1>1, <1>3, <1>5, Bounds
<1> QED
  BY <1>4, <1>5

Ours(start) == (start + 1)..(start + Workers)

LEMMA FinishedOfCall ==
    ASSUME SemInv, NEW start \in 0..MaxThreads, NEW last \in 0..MaxThreads, DemoInv(start, last)
    PROVE  /\ IsFiniteSet(Ours(start)) /\ Cardinality(Ours(start)) = Workers
           /\ FinishedAfter(start) \subseteq Ours(start)
           /\ Cardinality(FinishedAfter(start)) \in 0..Workers
<1>1. FinishedAfter(start) \subseteq Ours(start)
  <2> SUFFICES ASSUME NEW t \in FinishedAfter(start) PROVE t \in Ours(start)
    OBVIOUS
  <2>1. t \in Threads /\ t > start /\ tstate[t] # "UNUSED"
    BY DEF FinishedAfter, Finished, SemInv, BaseInv, StatesFit
  <2>2. t <= last
    BY <2>1 DEF DemoInv, ThreadsFit
  <2> QED
    BY <2>1, <2>2, LastOfCall, Bounds DEF Ours
<1>2. IsFiniteSet(Ours(start)) /\ Cardinality(Ours(start)) = Workers
  <2>1. \A a, b \in Int : /\ IsFiniteSet(a..b)
                          /\ Cardinality(a..b) = IF a > b THEN 0 ELSE b - a + 1
    BY FS_Interval
  <2>2. start + 1 \in Int /\ start + Workers \in Int /\ start \in Nat /\ Workers \in Nat
    BY Bounds
  <2>3. /\ IsFiniteSet(Ours(start))
        /\ Cardinality(Ours(start)) = IF start + 1 > start + Workers THEN 0
                                      ELSE (start + Workers) - (start + 1) + 1
    BY <2>1, <2>2 DEF Ours
  <2> QED
    BY <2>2, <2>3
<1>3. /\ IsFiniteSet(FinishedAfter(start))
      /\ Cardinality(FinishedAfter(start)) <= Workers
  BY <1>1, <1>2, FS_Subset
<1>4. Cardinality(FinishedAfter(start)) \in Nat
  BY <1>3, FS_CardinalityType
<1>5. PICK n \in Nat : n = Cardinality(FinishedAfter(start))
  BY <1>4
<1>6. n \in 0..Workers
  BY <1>3, <1>5, Bounds
<1> QED
  BY <1>1, <1>2, <1>5, <1>6

\* The shell stops waiting only when all its threads have finished.
LEMMA AllFinished ==
    ASSUME SemInv, NEW start \in 0..MaxThreads, NEW last \in 0..MaxThreads,
           DemoInv(start, last), shell = "wait", AllDone
    PROVE  \A t \in Threads : t <= last => Finished(t)
<1>1. created = Workers /\ last = start + Workers
  BY DEF DemoInv, ThreadsFit, ShellFits
<1>2. PICK n \in 0..Workers : n = Cardinality(FinishedAfter(start)) /\ n >= Workers
  BY FinishedOfCall DEF AllDone, DemoInv
<1>3. Cardinality(FinishedAfter(start)) = Cardinality(Ours(start))
  BY <1>2, FinishedOfCall, Bounds
<1>4. FinishedAfter(start) = Ours(start)
  BY <1>3, FinishedOfCall, FS_Subset
<1> SUFFICES ASSUME NEW t \in Threads, t <= last PROVE Finished(t)
  OBVIOUS
<1>5. CASE t <= start
  BY <1>5 DEF DemoInv
<1>6. CASE ~(t <= start)
  <2>1. t \in Ours(start)
    BY <1>1, <1>6, Bounds DEF Ours
  <2> QED
    BY <1>4, <2>1 DEF FinishedAfter
<1> QED
  BY <1>5, <1>6

\* The calls of a round keep a thread on the same side of the buffer.
LEMMA CallGoesOn ==
    ASSUME SemInv, NEW t \in Threads, Wait(t) \/ Signal(t)
    PROVE  /\ UNCHANGED <<id, i, call, reg, bufferVars>>
           /\ \/ Wait(t) /\ pc[t] \in WaitSteps /\ pc'[t] \in WaitSteps \cup {"return"}
              \/ Signal(t) /\ pc[t] \in SignalSteps /\ pc'[t] \in SignalSteps \cup {"return"}
<1>1. PICK s \in Semaphores : s = Sem(t)
  BY SemIsOne DEF SemInv, BaseInv
<1>2. pc \in [Threads -> WorkerSteps]
  BY DEF SemInv, BaseInv, SemTypeOK
<1> USE DEF Goto, Executes, WaitSteps, SignalSteps, EnqueueSteps, DequeueSteps
<1>3. CASE Wait(t)
  <2>1. SemWait(t, s, "return") /\ UNCHANGED <<id, i, call, reg, bufferVars>>
    BY <1>1, <1>3 DEF Wait
  <2> QED
    BY <1>2, <1>3, <2>1 DEF SemWait, TestValue, TakeUnit, Enqueue, TestQueue, SetHead, LoadTail,
       LinkTail, SetTail, Block, BlockedYield
<1>4. CASE Signal(t)
  <2>1. SemSignal(t, s, "return") /\ UNCHANGED <<id, i, call, reg, bufferVars>>
    BY <1>1, <1>4 DEF Signal
  <2> QED
    BY <1>2, <1>4, <2>1 DEF SemSignal, AddUnit, Dequeue, TestWaiter, LoadNext, SetNewHead,
       ClearTail, ClearNext, Wake
<1> QED
  BY <1>3, <1>4

\* Where the threads are when a call that is not struck begins, and while the
\* shell initialises.
LEMMA AtRestWhenFinished ==
    ASSUME SemInv, AllFinishedOrUnused
    PROVE  Resting
<1> SUFFICES ASSUME NEW t \in Threads
             PROVE  pc[t] \in {"loop", "exit", "gone"} /\ tstate[t] # "BLOCKED"
  BY DEF Resting
<1>1. /\ tstate[t] = "BLOCKED" => pc[t] \in {"blockedYield", "return"}
      /\ tstate[t] = "UNUSED" => pc[t] = "loop"
  BY DEF SemInv, BaseInv, StatesFit
<1> QED
  BY <1>1 DEF AllFinishedOrUnused, Finished

LEMMA StartAtRest ==
    ASSUME SemInv, StartDemo, ~struck'
    PROVE  Resting /\ AllFinishedOrUnused
<1>1. AllFinishedOrUnused
  BY DEF StartDemo, AtWork, AllFinishedOrUnused, Finished
<1> QED
  BY <1>1, AtRestWhenFinished

LEMMA InitAtRest ==
    ASSUME SemInv, NEW start \in 0..MaxThreads, NEW last \in 0..MaxThreads,
           DemoInv(start, last), shell \in InitSteps
    PROVE  Resting /\ AllFinishedOrUnused /\ last = start /\ created = 0
<1>1. created = 0 /\ last = start
  BY Bounds DEF DemoInv, ThreadsFit, ShellFits, InitSteps
<1>2. AllFinishedOrUnused
  BY <1>1 DEF DemoInv, ThreadsFit, AllFinishedOrUnused
<1> QED
  BY <1>1, <1>2, AtRestWhenFinished

\* What threads that have finished still do.
LEMMA IdleWorker ==
    ASSUME SemInv, AllFinishedOrUnused, NEW t \in Threads, Worker(t)
    PROVE  /\ Exit(t) \/ GoneYield(t)
           /\ UNCHANGED <<value, unit, reg, buffer_count, sem_done, shell>>
           /\ \A u \in Threads : pc'[u] = pc[u] \/ (pc[u] = "exit" /\ pc'[u] = "gone")
<1>1. pc[t] \in {"exit", "gone"}
  BY WorkerEffect DEF AllFinishedOrUnused, Finished
<1>2. Exit(t) \/ GoneYield(t)
  <2>1. ~Wait(t) /\ ~Signal(t)
    BY <1>1, CallGoesOn DEF WaitSteps, SignalSteps, EnqueueSteps, DequeueSteps
  <2>2. ~Loop(t) /\ ~Return(t) /\ ~LoadIndex(t) /\ ~PutItem(t) /\ ~TakeItem(t)
        /\ ~LoadCount(t) /\ ~StoreCount(t) /\ ~RoundYield(t) /\ ~LoadDone(t) /\ ~StoreDone(t)
    BY <1>1 DEF Loop, Return, LoadIndex, PutItem, TakeItem, LoadCount, StoreCount, RoundYield,
       LoadDone, StoreDone, Goto, Executes
  <2> QED
    BY <2>1, <2>2 DEF Worker
<1>3. pc \in [Threads -> WorkerSteps]
  BY DEF SemInv, BaseInv, SemTypeOK
<1> QED
  BY <1>1, <1>2, <1>3, WorkerEffect
  DEF Exit, GoneYield, Goto, Executes, semVars, bufferVars, workerVars

\* The steps of the boot, the timer and the shell between two calls, and its
\* initialisations.
LEMMA OthersKeepDemo ==
    ASSUME SemInv, NEW start \in 0..MaxThreads, NEW last \in 0..MaxThreads,
           DemoInv(start, last),
           \/ BootStep \/ Tick \/ LinkWorker \/ CloseWorker \/ CreateFails
           \/ WaitForDone \/ WaitYield \/ Report \/ UNCHANGED vars
           \/ ClearDone \/ InitSemaphores
    PROVE  /\ DemoInv(start, last)'
           /\ UNCHANGED <<bufferVars, buffer_count, pc, id, i, call, reg>>
           /\ \A u \in Threads : /\ tstate'[u] = "UNUSED" <=> tstate[u] = "UNUSED"
                                 /\ tstate'[u] = "BLOCKED" <=> tstate[u] = "BLOCKED"
<1>1. /\ UNCHANGED <<bufferVars, buffer_count, pc, id, i, call, reg>>
      /\ sem_done' = IF ClearDone THEN 0 ELSE sem_done
  BY DEF BootStep, Tick, LinkWorker, CloseWorker, CreateFails, WaitForDone, WaitYield, Report,
     vars, workerVars, bufferVars, ClearDone, InitSemaphores
<1>2. \A t \in Threads : /\ tstate'[t] = "UNUSED" <=> tstate[t] = "UNUSED"
                         /\ tstate'[t] = "BLOCKED" <=> tstate[t] = "BLOCKED"
  <2>1. CASE Tick \/ WaitYield
    BY <2>1, IrqEffect DEF Tick, WaitYield, SemInv, BaseInv
  <2>2. CASE ~Tick /\ ~WaitYield
    BY <2>2 DEF BootStep, SchedulerStart, ProcCreate, LinkWorker, LinkThread,
       CloseWorker, CloseRing, CreateFails, WaitForDone, Report, vars, schedVars, threadVars,
       ClearDone, InitSemaphores
  <2> QED
    BY <2>1, <2>2
<1>3. \A t \in Threads : Finished(t)' <=> Finished(t)
  BY <1>1 DEF Finished
<1>4. FinishedAfter(start)' = FinishedAfter(start)
  BY <1>3 DEF FinishedAfter
<1>5. ThreadsFit(start, last)' /\ ShellFits(start, last)'
  <2> USE DEF InitSteps
  <2>1. created \in 0..Workers /\ \A u \in Threads : tstate[u] # "UNUSED" <=> u <= last
    BY DEF DemoInv, ThreadsFit
  <2>2. CASE BootStep \/ Tick \/ UNCHANGED vars
    <3>1. UNCHANGED <<shell, created>>
      BY <2>2 DEF BootStep, Tick, vars, shellVars
    <3> QED
      BY <1>2, <1>3, <3>1 DEF DemoInv, ThreadsFit, ShellFits
  <2>3. CASE LinkWorker
    <3>1. shell = "link" /\ shell' = "close" /\ created' = created
      BY <2>3 DEF LinkWorker, ShellGoto
    <3> QED
      BY <1>2, <1>3, <3>1 DEF DemoInv, ThreadsFit, ShellFits
  <2>4. CASE CloseWorker
    <3>1. /\ shell = "close" /\ shell' = (IF created + 1 < Workers THEN "create" ELSE "wait")
          /\ created' = created + 1
      BY <2>4 DEF CloseWorker, ShellGoto
    <3>2. created < Workers /\ last = start + created + 1
      BY <3>1 DEF DemoInv, ThreadsFit, ShellFits
    <3>3. created' \in 0..Workers /\ (~(created + 1 < Workers) => created' = Workers)
          /\ last = start + created'
      BY <2>1, <3>1, <3>2, Bounds
    <3> QED
      BY <1>2, <3>1, <3>3 DEF DemoInv, ThreadsFit, ShellFits
  <2>5. CASE CreateFails
    <3>1. /\ shell = "create" /\ shell' = "prompt" /\ created' = created
          /\ \A t \in Threads : tstate[t] # "UNUSED"
      BY <2>5 DEF CreateFails, ShellGoto
    <3>2. created < Workers /\ last = start + created
      BY <3>1 DEF DemoInv, ThreadsFit, ShellFits
    <3> QED
      BY <1>2, <3>1, <3>2 DEF DemoInv, ThreadsFit, ShellFits, InitSteps
  <2>6. CASE WaitForDone
    <3>1. /\ shell = "wait" /\ shell' = (IF AllDone THEN "report" ELSE "waitYield")
          /\ created' = created
      BY <2>6 DEF WaitForDone, ShellGoto
    <3>2. shell' = "report" => \A t \in Threads : t <= last => Finished(t)'
      BY <1>3, <3>1, AllFinished
    <3> QED
      BY <1>2, <3>1, <3>2 DEF DemoInv, ThreadsFit, ShellFits
  <2>7. CASE WaitYield
    <3>1. shell = "waitYield" /\ shell' = "wait" /\ created' = created
      BY <2>7 DEF WaitYield, ShellGoto
    <3> QED
      BY <1>2, <3>1 DEF DemoInv, ThreadsFit, ShellFits
  <2>8. CASE Report
    <3>1. shell = "report" /\ shell' = "prompt" /\ created' = created
      BY <2>8 DEF Report, ShellGoto
    <3> QED
      BY <1>2, <1>3, <3>1 DEF DemoInv, ThreadsFit, ShellFits
  <2>9. CASE ClearDone \/ InitSemaphores
    <3>1. /\ shell \in InitSteps /\ shell' \in InitSteps \cup {"create"} /\ created' = created
      BY <2>9 DEF ClearDone, InitSemaphores, SemInitCall, ShellGoto
    <3>2. created = 0 /\ last = start
      BY <3>1, InitAtRest
    <3> QED
      BY <1>2, <3>1, <3>2, Bounds DEF DemoInv, ThreadsFit, ShellFits
  <2> QED
    BY <2>2, <2>3, <2>4, <2>5, <2>6, <2>7, <2>8, <2>9
<1>6. shell' # "clearDone" => sem_done' = Cardinality(FinishedAfter(start)')
  <2>1. CASE ClearDone
    <3>1. \A t \in Threads : t > start => ~Finished(t)
      <4>1. shell \in InitSteps
        BY <2>1 DEF ClearDone, ShellGoto, InitSteps
      <4>2. \A t \in Threads : t > start => tstate[t] = "UNUSED"
        BY <4>1, InitAtRest, Bounds DEF DemoInv, ThreadsFit
      <4> QED
        BY <4>2 DEF Finished, SemInv, BaseInv, StatesFit
    <3>2. FinishedAfter(start) = {}
      BY <3>1 DEF FinishedAfter
    <3> QED
      BY <1>1, <1>4, <2>1, <3>2, FS_EmptySet
  <2>2. CASE ~ClearDone
    <3>1. shell' # "clearDone" => shell # "clearDone"
      BY <2>2 DEF BootStep, Tick, LinkWorker, CloseWorker, CreateFails, WaitForDone, WaitYield,
         Report, vars, shellVars, InitSemaphores, SemInitCall, ShellGoto
    <3> QED
      BY <1>1, <1>4, <2>2, <3>1 DEF DemoInv
  <2> QED
    BY <2>1, <2>2
<1>7. \A t \in Threads : pc'[t] = "storeDone" => reg'[t] = sem_done'
  <2>1. CASE ClearDone
    <3>1. Resting
      BY <2>1, InitAtRest DEF ClearDone, ShellGoto, InitSteps
    <3> QED
      BY <1>1, <3>1 DEF Resting
  <2>2. CASE ~ClearDone
    BY <1>1, <2>2 DEF DemoInv
  <2> QED
    BY <2>1, <2>2
<1>8. DemoInv(start, last)'
  BY <1>1, <1>3, <1>5, <1>6, <1>7 DEF DemoInv
<1> QED
  BY <1>1, <1>2, <1>8

\* semdemo begins after the threads in use, all of which have finished.
LEMMA StartKeepsDemo ==
    ASSUME SemInv, NEW start \in 0..MaxThreads, NEW last \in 0..MaxThreads,
           DemoInv(start, last), StartDemo, ~struck'
    PROVE  DemoInv(last, last)'
<1>1. /\ shell = "prompt" /\ shell' = "clearDone" /\ created' = 0 /\ sem_done' = sem_done
      /\ UNCHANGED <<pc, tstate, reg>>
  BY DEF StartDemo, ShellGoto, workerVars, schedVars, threadVars
<1>2. Resting /\ AllFinishedOrUnused
  BY StartAtRest
<1>3. \A t \in Threads : tstate[t] # "UNUSED" <=> t <= last
  BY DEF DemoInv, ThreadsFit
<1>4. \A t \in Threads : (t <= last => Finished(t)') /\ pc'[t] # "storeDone"
  BY <1>1, <1>2, <1>3 DEF Finished, AllFinishedOrUnused, Resting
<1>5. ThreadsFit(last, last)' /\ ShellFits(last, last)'
  BY <1>1, <1>3, Bounds DEF ThreadsFit, ShellFits, InitSteps
<1> QED
  BY <1>1, <1>4, <1>5 DEF DemoInv

LEMMA InitDemoInv ==
    ASSUME Init
    PROVE  DemoInv(0, 0)
<1>1. /\ tstate = [t \in Threads |-> "UNUSED"] /\ pc = [t \in Threads |-> "loop"]
      /\ sem_done = 0 /\ shell = "prompt" /\ created = 0
  BY DEF Init, SchedulerInit
<1>2. FinishedAfter(0) = {}
  BY <1>1 DEF FinishedAfter, Finished
<1>3. sem_done = Cardinality(FinishedAfter(0))
  BY <1>1, <1>2, FS_EmptySet
<1>4. \A t \in Threads : ~(t <= 0)
  BY Bounds
<1> QED
  BY <1>1, <1>3, <1>4, Bounds DEF DemoInv, ThreadsFit, ShellFits, InitSteps

-----------------------------------------------------------------------------
(* Every step keeps the invariant of the waiting lines.                    *)

AnyDemo == \E start, last \in 0..MaxThreads : DemoInv(start, last)

\* What sem_init does to a semaphore.
Restarts(s) == Line(s) = << >> /\ Line(s)' = << >> /\ value'[s] = Initially[s]

LEMMA NextSemInv ==
    ASSUME SemInv, AnyDemo, [Next]_vars, ~struck'
    PROVE  /\ SemInv'
           /\ \A s \in Semaphores :
                 \/ Stays(s) \/ OneTaken(s) \/ OneGiven(s) \/ Restarts(s)
                 \/ \E t \in Threads : OneJoins(s, t)
<1>1. PICK start \in 0..MaxThreads, last \in 0..MaxThreads : DemoInv(start, last)
  BY DEF AnyDemo
<1>2. created \in Nat
  BY <1>1, Bounds DEF DemoInv, ThreadsFit
<1>3. CASE RestStep
  <2>1. CASE StartDemo
    BY <1>3, <2>1, StartAtRest, RestStepStep DEF Restarts, Stays
  <2>2. CASE ~StartDemo
    <3>1. shell \in InitSteps
      BY <1>3, <2>2 DEF RestStep, ClearDone, InitSemaphores, SemInitCall, ShellGoto, InitSteps
    <3>2. Resting
      BY <1>1, <3>1, InitAtRest
    <3> QED
      BY <1>3, <3>2, RestStepStep DEF Restarts, Stays
  <2> QED
    BY <2>1, <2>2
<1>4. CASE \E t \in Threads : Worker(t)
  BY <1>4, WorkerStep
<1>5. CASE \/ BootStep \/ Tick \/ CreateWorker \/ LinkWorker \/ CloseWorker \/ CreateFails
           \/ WaitForDone \/ WaitYield \/ Report \/ UNCHANGED vars
  BY <1>2, <1>5, OtherStep
<1> QED
  BY <1>3, <1>4, <1>5 DEF Next, Shell, RestStep

LEMMA NextAnyDemo ==
    ASSUME SemInv, AnyDemo, [Next]_vars, ~struck'
    PROVE  AnyDemo'
<1>1. PICK start \in 0..MaxThreads, last \in 0..MaxThreads : DemoInv(start, last)
  BY DEF AnyDemo
<1>2. CASE StartDemo
  <2>1. DemoInv(last, last)'
    BY <1>1, <1>2, StartKeepsDemo
  <2> QED
    BY <2>1 DEF AnyDemo
<1>3. CASE CreateWorker
  <2>1. last + 1 \in Threads /\ DemoInv(start, last + 1)'
    BY <1>1, <1>3, CreateKeepsDemo
  <2>2. PICK more \in 0..MaxThreads : more = last + 1
    BY <2>1, Bounds
  <2>3. DemoInv(start, more)'
    BY <2>1, <2>2
  <2> QED
    BY <2>3 DEF AnyDemo
<1>4. CASE \E t \in Threads : Worker(t)
  <2>1. DemoInv(start, last)'
    BY <1>1, <1>4, WorkerKeepsDemo
  <2> QED
    BY <2>1 DEF AnyDemo
<1>5. CASE \/ BootStep \/ Tick \/ LinkWorker \/ CloseWorker \/ CreateFails
           \/ WaitForDone \/ WaitYield \/ Report \/ UNCHANGED vars
           \/ ClearDone \/ InitSemaphores
  <2>1. DemoInv(start, last)'
    BY <1>1, <1>5, OthersKeepDemo
  <2> QED
    BY <2>1 DEF AnyDemo
<1> QED
  BY <1>2, <1>3, <1>4, <1>5 DEF Next, Shell

LEMMA InitAnyDemo ==
    ASSUME Init
    PROVE  SemInv /\ AnyDemo
<1>1. 0 \in 0..MaxThreads
  BY Bounds
<1> QED
  BY <1>1, InitSemInv, InitDemoInv DEF AnyDemo

\* Once a window has been hit, that stays so.
LEMMA StruckStays ==
    ASSUME struck, [Next]_vars
    PROVE  struck'
<1> USE DEF shellVars
<1>1. CASE BootStep
  BY <1>1 DEF BootStep
<1>2. CASE Tick
  BY <1>2 DEF Tick
<1>3. CASE Shell
  BY <1>3 DEF Shell, StartDemo, ClearDone, InitSemaphores, CreateWorker, LinkWorker,
              CloseWorker, CreateFails, WaitForDone, WaitYield, Report
<1>4. CASE \E t \in Threads : Worker(t)
  BY <1>4 DEF Worker
<1>5. CASE UNCHANGED vars
  BY <1>5 DEF vars
<1> QED
  BY <1>1, <1>2, <1>3, <1>4, <1>5 DEF Next

\* The invariant holds in every state of the demo before a window is hit.
LEMMA SemInvariant == Spec => [](struck \/ (SemInv /\ AnyDemo))
<1>1. Init => SemInv /\ AnyDemo
  BY InitAnyDemo
<1>2. (struck \/ (SemInv /\ AnyDemo)) /\ [Next]_vars => (struck \/ (SemInv /\ AnyDemo))'
  BY NextSemInv, NextAnyDemo, StruckStays
<1> QED
  BY <1>1, <1>2, PTL DEF Spec

-----------------------------------------------------------------------------
(* The theorems about sleepers and the order of service.                   *)

\* Until a window is hit, no wake-up is lost: a thread asleep in sem_wait is in
\* the line of its semaphore, where sem_signal finds it, or has been taken out of
\* it by a thread that is about to wake it, and nobody sleeps while a unit is
\* free.
THEOREM NoWakeUpIsLost == Spec => []SleepersCanBeFound
<1>1. ASSUME SemInv
      PROVE  SleepersCanBeFound
  <2>1. \A s \in Semaphores : Line(s) # << >> => value[s] = 0
    BY <1>1 DEF SemInv, ValueInv
  <2>2. ASSUME NEW t \in Threads, tstate[t] = "BLOCKED" PROVE CanBeFound(t, Sem(t))
    <3>1. InLine(t) \/ IsTaken(t)
      BY <1>1, <2>2 DEF SemInv, QueuesInv, SleepInv
    <3>2. InLine(t) => InRing(Line(Sem(t)), t)
      BY <1>1 DEF SemInv, QueuesInv, LineInv, InLine
    <3>3. IsTaken(t) => \E u \in Threads : next[u] = t
      BY DEF IsTaken, Takes
    <3> QED
      BY <3>1, <3>2, <3>3 DEF CanBeFound
  <2> QED
    BY <2>1, <2>2 DEF SleepersCanBeFound
<1>2. struck \/ (SemInv /\ AnyDemo) => SleepersCanBeFound
  BY <1>1 DEF SleepersCanBeFound
<1> QED
  BY <1>2, SemInvariant, PTL

\* What the steps of a semaphore are to FifoSemaphore.
LEMMA StepsAreOperations ==
    ASSUME SemInv, NEW s \in Semaphores, NEW initial, initial = Initially[s],
           \/ Stays(s) \/ OneTaken(s) \/ OneGiven(s) \/ Restarts(s)
           \/ \E t \in Threads : OneJoins(s, t)
    PROVE  \/ value'[s] = value[s] /\ Line(s)' = Line(s)
           \/ value[s] > 0 /\ value'[s] = value[s] - 1 /\ Line(s)' = Line(s)
           \/ IF Line(s) = << >>
              THEN value'[s] = value[s] + 1 /\ Line(s)' = Line(s)
              ELSE Line(s)' = Tail(Line(s)) /\ value'[s] = value[s]
           \/ Line(s) = << >> /\ value'[s] = initial /\ Line(s)' = Line(s)
           \/ \E t \in Threads :
                 /\ value[s] = 0
                 /\ \A k \in DOMAIN Line(s) : Line(s)[k] # t
                 /\ Line(s)' = Append(Line(s), t)
                 /\ value'[s] = value[s]
BY DEF Stays, OneTaken, OneGiven, Restarts, OneJoins, InRing

\* Until a window is hit, each of the three semaphores of semdemo is a first
\* come, first served counting semaphore.
THEOREM SemaphoresAreFifo == Spec => ImplementsFifoSemaphore
<1>1. /\ Initially["empty_sem"] = BufferSize /\ Initially["full_sem"] = 0
      /\ Initially["buffer_mutex"] = 1
      /\ "empty_sem" \in Semaphores /\ "full_sem" \in Semaphores
      /\ "buffer_mutex" \in Semaphores
  BY DEF Initially, Semaphores
<1>2. ASSUME Init
      PROVE  EmptySem!Init /\ FullSem!Init /\ BufferMutex!Init
  <2>1. value = Initially /\ SemInv /\ \A s \in Semaphores : wait_head[s] = NULL
    <3>1. DOMAIN Initially = Semaphores
      BY DEF Initially
    <3> QED
      BY <1>2, <3>1, InitSemInv DEF Init, SemInit, WaitQueueInit
  <2>2. \A s \in Semaphores : Line(s) = << >>
    BY <2>1, NobodyInLine DEF SemInv, BaseInv, SemTypeOK, WaitQueueTypeOK, Slots
  <2> QED
    BY <1>1, <2>1, <2>2 DEF EmptySem!Init, FullSem!Init, BufferMutex!Init
<1>3. ASSUME SemInv, AnyDemo, [Next]_vars, ~struck'
      PROVE  /\ [EmptySem!Next]_EmptySem!semVars
             /\ [FullSem!Next]_FullSem!semVars
             /\ [BufferMutex!Next]_BufferMutex!semVars
  <2>1. \A s \in Semaphores :
           \/ Stays(s) \/ OneTaken(s) \/ OneGiven(s) \/ Restarts(s)
           \/ \E t \in Threads : OneJoins(s, t)
    BY <1>3, NextSemInv
  <2>2. [EmptySem!Next]_EmptySem!semVars
    BY <1>1, <1>3, <2>1, StepsAreOperations
    DEF EmptySem!Next, EmptySem!semVars, EmptySem!Take, EmptySem!QueueUp, EmptySem!Signal,
        EmptySem!Reset
  <2>3. [FullSem!Next]_FullSem!semVars
    BY <1>1, <1>3, <2>1, StepsAreOperations
    DEF FullSem!Next, FullSem!semVars, FullSem!Take, FullSem!QueueUp, FullSem!Signal,
        FullSem!Reset
  <2>4. [BufferMutex!Next]_BufferMutex!semVars
    BY <1>1, <1>3, <2>1, StepsAreOperations
    DEF BufferMutex!Next, BufferMutex!semVars, BufferMutex!Take, BufferMutex!QueueUp,
        BufferMutex!Signal, BufferMutex!Reset
  <2> QED
    BY <2>2, <2>3, <2>4
<1>4. Init => EmptySem!Init /\ FullSem!Init /\ BufferMutex!Init
  BY <1>2
<1> DEFINE Inv == struck \/ (SemInv /\ AnyDemo)
<1>5. Inv /\ [Next]_vars =>
         /\ [struck' \/ EmptySem!Next]_(EmptySem!semVars)
         /\ [struck' \/ FullSem!Next]_(FullSem!semVars)
         /\ [struck' \/ BufferMutex!Next]_(BufferMutex!semVars)
  BY <1>3, StruckStays
<1>6. Spec => []Inv
  BY SemInvariant
<1> HIDE DEF Inv
<1> QED
  BY <1>4, <1>5, <1>6, PTL DEF Spec, ImplementsFifoSemaphore

-----------------------------------------------------------------------------
(* The units of the semaphores: what becomes of them in each step.         *)

LEMMA UnitsAreFinite ==
    ASSUME NEW s
    PROVE  /\ IsFiniteSet(Units(s)) /\ Cardinality(Units(s)) \in Nat
           /\ IsFiniteSet(Units(s)') /\ Cardinality(Units(s)') \in Nat
<1>1. Units(s) \subseteq Threads /\ Units(s)' \subseteq Threads
  BY DEF Units
<1> QED
  BY <1>1, ThreadsAreFinite, FS_Subset, FS_CardinalityType

\* A thread at the same place has the same units.
LEMMA UnitsStay ==
    ASSUME NEW u \in Threads, id'[u] = id[u],
           HasMutex(u)' <=> HasMutex(u), HasFirst(u)' <=> HasFirst(u), HasLast(u)' <=> HasLast(u)
    PROVE  \A s : HasUnit(u, s)' <=> HasUnit(u, s)
<1>1. Calls(u)'[1] = Calls(u)[1] /\ Calls(u)'[4] = Calls(u)[4]
  BY DEF Calls, IsProducer
<1> QED
  BY <1>1 DEF HasUnit

\* A thread that does not move keeps its units, unless it is given one.
LEMMA PlaceStays ==
    ASSUME NEW u \in Threads, pc'[u] = pc[u], call'[u] = call[u], id'[u] = id[u],
           Got(u)' <=> Got(u)
    PROVE  \A s : HasUnit(u, s)' <=> HasUnit(u, s)
<1>1. IsProducer(u)' <=> IsProducer(u)
  BY DEF IsProducer
<1>2. /\ HasMutex(u)' <=> HasMutex(u)
      /\ HasFirst(u)' <=> HasFirst(u)
      /\ HasLast(u)' <=> HasLast(u)
  BY <1>1 DEF HasMutex, HasFirst, HasLast, HasGot, Keeps, BeforeCount
<1> QED
  BY <1>2, UnitsStay

\* Nobody is put to sleep, taken out of line or woken.
LEMMA GotStays ==
    ASSUME \A u \in Threads :
              /\ tstate'[u] = "BLOCKED" <=> tstate[u] = "BLOCKED"
              /\ pc'[u] \in TakenSteps <=> pc[u] \in TakenSteps
              /\ pc[u] \in TakenSteps => next'[u] = next[u]
    PROVE  \A u \in Threads : Got(u)' <=> Got(u)
BY DEF Got, IsTaken, Takes

\* The units of which semaphore a thread has.
LEMMA UnitsOf ==
    ASSUME NEW u \in Threads
    PROVE  /\ HasUnit(u, "buffer_mutex") <=> HasMutex(u)
           /\ IsProducer(u) => /\ HasUnit(u, "empty_sem") <=> HasFirst(u)
                               /\ HasUnit(u, "full_sem") <=> HasLast(u)
           /\ ~IsProducer(u) => /\ HasUnit(u, "full_sem") <=> HasFirst(u)
                                /\ HasUnit(u, "empty_sem") <=> HasLast(u)
BY DEF HasUnit, Calls

\* The count of every semaphore's units stays in balance.
Balance(s) == value[s] + Cardinality(Units(s)) - Supply(s)

LEMMA SameUnits ==
    ASSUME NEW s, value'[s] = value[s], Supply(s)' = Supply(s),
           \A u \in Threads : HasUnit(u, s)' <=> HasUnit(u, s)
    PROVE  Balance(s)' = Balance(s)
<1>1. Units(s)' = Units(s)
  BY DEF Units
<1> QED
  BY <1>1 DEF Balance

\* A unit goes from the semaphore to a thread, back, or from one to another.
LEMMA UnitTaken ==
    ASSUME NEW s, NEW t \in Threads, value[s] \in Int, Supply(s) \in Int,
           value'[s] = value[s] - 1, Supply(s)' = Supply(s),
           \A u \in Threads : HasUnit(u, s)' <=> HasUnit(u, s) \/ u = t,
           ~HasUnit(t, s)
    PROVE  Balance(s)' = Balance(s)
<1>1. Units(s)' = Units(s) \cup {t} /\ t \notin Units(s)
  BY DEF Units
<1>2. Cardinality(Units(s)') = Cardinality(Units(s)) + 1
  BY <1>1, UnitsAreFinite, FS_AddElement
<1> QED
  BY <1>2, UnitsAreFinite DEF Balance

LEMMA UnitGiven ==
    ASSUME NEW s, NEW t \in Threads, value[s] \in Int, Supply(s) \in Int,
           value'[s] = value[s] + 1, Supply(s)' = Supply(s),
           \A u \in Threads : HasUnit(u, s)' <=> HasUnit(u, s) /\ u # t,
           HasUnit(t, s)
    PROVE  Balance(s)' = Balance(s)
<1>1. Units(s)' = Units(s) \ {t} /\ t \in Units(s)
  BY DEF Units
<1>2. Cardinality(Units(s)') = Cardinality(Units(s)) - 1
  BY <1>1, UnitsAreFinite, FS_RemoveElement
<1> QED
  BY <1>2, UnitsAreFinite DEF Balance

LEMMA UnitHanded ==
    ASSUME NEW s, NEW t \in Threads, NEW h \in Threads, t # h,
           value'[s] = value[s], Supply(s)' = Supply(s),
           \A u \in Threads : HasUnit(u, s)' <=> (HasUnit(u, s) /\ u # t) \/ u = h,
           HasUnit(t, s), ~HasUnit(h, s)
    PROVE  Balance(s)' = Balance(s)
<1>1. Units(s)' = (Units(s) \ {t}) \cup {h} /\ t \in Units(s) /\ h \notin Units(s) \ {t}
  BY DEF Units
<1>2. IsFiniteSet(Units(s) \ {t}) /\ Cardinality(Units(s) \ {t}) = Cardinality(Units(s)) - 1
  BY <1>1, UnitsAreFinite, FS_RemoveElement
<1>3. Cardinality((Units(s) \ {t}) \cup {h}) = Cardinality(Units(s) \ {t}) + 1
  BY <1>1, <1>2, FS_AddElement
<1>4. Cardinality(Units(s)') = Cardinality(Units(s))
  BY <1>1, <1>2, <1>3, UnitsAreFinite
<1> QED
  BY <1>4 DEF Balance

\* buffer_count++ moves the unit on to the other semaphore, where it is needed
\* next.
LEMMA UnitCounted ==
    ASSUME NEW s, NEW t \in Threads, value[s] \in Int, Supply(s) \in Int, value'[s] = value[s],
           \/ /\ Supply(s)' = Supply(s) - 1 /\ HasUnit(t, s)
              /\ \A u \in Threads : HasUnit(u, s)' <=> HasUnit(u, s) /\ u # t
           \/ /\ Supply(s)' = Supply(s) + 1 /\ ~HasUnit(t, s)
              /\ \A u \in Threads : HasUnit(u, s)' <=> HasUnit(u, s) \/ u = t
    PROVE  Balance(s)' = Balance(s)
<1>1. CASE /\ Supply(s)' = Supply(s) - 1 /\ HasUnit(t, s)
           /\ \A u \in Threads : HasUnit(u, s)' <=> HasUnit(u, s) /\ u # t
  <2>1. Units(s)' = Units(s) \ {t} /\ t \in Units(s)
    BY <1>1 DEF Units
  <2>2. Cardinality(Units(s)') = Cardinality(Units(s)) - 1
    BY <2>1, UnitsAreFinite, FS_RemoveElement
  <2> QED
    BY <1>1, <2>2, UnitsAreFinite DEF Balance
<1>2. CASE /\ Supply(s)' = Supply(s) + 1 /\ ~HasUnit(t, s)
           /\ \A u \in Threads : HasUnit(u, s)' <=> HasUnit(u, s) \/ u = t
  <2>1. Units(s)' = Units(s) \cup {t} /\ t \notin Units(s)
    BY <1>2 DEF Units
  <2>2. Cardinality(Units(s)') = Cardinality(Units(s)) + 1
    BY <2>1, UnitsAreFinite, FS_AddElement
  <2> QED
    BY <1>2, <2>2, UnitsAreFinite DEF Balance
<1> QED
  BY <1>1, <1>2

\* Outside of sem_wait and sem_signal a thread keeps the units it has, but for
\* buffer_count++ and buffer_count--.
LEMMA BodyKeepsGot ==
    ASSUME SemInv, NEW t \in Threads, Body(t)
    PROVE  /\ \A u \in Threads : Got(u)' <=> Got(u)
           /\ Got(t) /\ cpu = Thread(t) /\ tstate[t] = "RUNNING" /\ UNCHANGED <<tstate, id, value>>
           /\ CallFits(t) /\ call[t] \in 1..4
           /\ pc \in [Threads -> WorkerSteps] /\ call \in [Threads -> 1..4]
           /\ \A u \in Threads \ {t} : pc'[u] = pc[u] /\ call'[u] = call[u]
<1>1. /\ UNCHANGED <<schedVars, value, next, id>>
  BY BodyTypes DEF SemInv, BaseInv
<1>2. UNCHANGED tstate
  BY <1>1 DEF schedVars, threadVars
<1>3. Worker(t) => /\ cpu = Thread(t)
                   /\ \A u \in Threads \ {t} : pc'[u] = pc[u] /\ call'[u] = call[u]
  BY WorkerEffect
<1>4. PICK from \in BodySteps, to \in {"testValue", "loadDone", "loadIndex", "loadCount",
              "testWaiter", "yield", "putItem", "takeItem", "storeCount", "storeDone", "exit"} :
         /\ Goto(t, from, to)
         /\ \A u \in Threads \ {t} : call'[u] = call[u]
  BY BodyGoes DEF SemInv, BaseInv
<1>5. /\ pc \in [Threads -> WorkerSteps] /\ call \in [Threads -> 1..4]
      /\ cpu = Thread(t) /\ pc[t] = from /\ pc' = [pc EXCEPT ![t] = to]
  BY <1>4 DEF Goto, Executes, SemInv, BaseInv, SemTypeOK
<1>6. pc[t] \notin TakenSteps /\ pc'[t] \notin TakenSteps
  BY <1>5 DEF TakenSteps, BodySteps, BufferSteps
<1>7. \A u \in Threads : Got(u)' <=> Got(u)
  BY <1>1, <1>2, <1>5, <1>6, GotStays
<1>8. tstate[t] = "RUNNING"
  BY <1>5 DEF SemInv, BaseInv, StatesFit, BodySteps, BufferSteps
<1> QED
  BY <1>1, <1>2, <1>4, <1>5, <1>7, <1>8 DEF Got, SemInv, BaseInv, CallsFit

LEMMA BodyKeepsUnits ==
    ASSUME SemInv, NEW t \in Threads, Body(t), ~StoreCount(t)
    PROVE  \A s \in Semaphores : Balance(s)' = Balance(s)
<1>1. /\ \A u \in Threads : Got(u)' <=> Got(u)
      /\ Got(t) /\ UNCHANGED <<tstate, id, value>>
      /\ CallFits(t) /\ call[t] \in 1..4
      /\ pc \in [Threads -> WorkerSteps] /\ call \in [Threads -> 1..4]
      /\ \A u \in Threads \ {t} : pc'[u] = pc[u] /\ call'[u] = call[u]
  BY BodyKeepsGot
<1>2. buffer_count' = buffer_count
  BY DEF Body, Loop, Return, LoadIndex, PutItem, TakeItem, LoadCount, LoadDone, StoreDone,
     bufferVars
<1>3. /\ HasMutex(t)' <=> HasMutex(t)
      /\ HasFirst(t)' <=> HasFirst(t)
      /\ HasLast(t)' <=> HasLast(t)
  <2>1. Got(t)' /\ (IsProducer(t)' <=> IsProducer(t))
    BY <1>1 DEF IsProducer
  <2> USE DEF HasMutex, HasFirst, HasLast, HasGot, Keeps, BeforeCount, BufferSteps,
              SignalSteps, DequeueSteps, Goto, Executes, CallFits, OutOfCalls
  <2>2. CASE Loop(t)
    BY <1>1, <2>2 DEF Loop
  <2>3. CASE Return(t)
    <3>1. call[t] \in {1, 2, 3, 4} /\ pc[t] = "return"
      BY <1>1, <2>3 DEF Return
    <3>2. /\ call[t] = 1 => call'[t] = 2 /\ pc'[t] = "testValue"
          /\ call[t] = 2 => /\ call'[t] = 3
                            /\ pc'[t] = IF IsProducer(t) THEN "loadIndex" ELSE "loadCount"
          /\ call[t] = 3 => call'[t] = 4 /\ pc'[t] = "testWaiter"
          /\ call[t] = 4 => call'[t] = 1 /\ pc'[t] = "yield"
      <4>1. call'[t] = (call[t] % 4) + 1
            /\ pc'[t] = <<"testValue", IF IsProducer(t) THEN "loadIndex" ELSE "loadCount",
                          "testWaiter", "yield">>[call[t]]
        BY <1>1, <2>3 DEF Return
      <4>2. 1 % 4 = 1 /\ 2 % 4 = 2 /\ 3 % 4 = 3 /\ 4 % 4 = 0
        OBVIOUS
      <4> QED
        BY <3>1, <4>1, <4>2
    <3>3. CASE call[t] = 1
      BY <1>1, <2>1, <3>1, <3>2, <3>3
    <3>4. CASE call[t] = 2
      BY <1>1, <2>1, <3>1, <3>2, <3>4
    <3>5. CASE call[t] = 3
      BY <1>1, <2>1, <3>1, <3>2, <3>5
    <3>6. CASE call[t] = 4
      BY <1>1, <2>1, <3>1, <3>2, <3>6
    <3> QED
      BY <3>1, <3>3, <3>4, <3>5, <3>6
  <2>4. CASE LoadIndex(t)
    BY <1>1, <2>1, <2>4 DEF LoadIndex
  <2>5. CASE PutItem(t)
    BY <1>1, <2>1, <2>5 DEF PutItem
  <2>6. CASE TakeItem(t)
    BY <1>1, <2>1, <2>6 DEF TakeItem
  <2>7. CASE LoadCount(t)
    BY <1>1, <2>1, <2>7 DEF LoadCount
  <2>8. CASE LoadDone(t)
    BY <1>1, <2>1, <2>8 DEF LoadDone
  <2>9. CASE StoreDone(t)
    BY <1>1, <2>1, <2>9 DEF StoreDone
  <2> QED
    BY <2>2, <2>3, <2>4, <2>5, <2>6, <2>7, <2>8, <2>9 DEF Body
<1>4. \A u \in Threads : \A s : HasUnit(u, s)' <=> HasUnit(u, s)
  BY <1>1, <1>3, PlaceStays, UnitsStay
<1>5. \A s : Supply(s)' = Supply(s)
  BY <1>2 DEF Supply
<1> QED
  BY <1>1, <1>4, <1>5, SameUnits

LEMMA StoreCountKeepsUnits ==
    ASSUME SemInv, NEW t \in Threads, StoreCount(t), reg[t] = buffer_count
    PROVE  \A s \in Semaphores : Balance(s)' = Balance(s)
<1>1. /\ \A u \in Threads : Got(u)' <=> Got(u)
      /\ Got(t) /\ UNCHANGED <<tstate, id, value>>
      /\ CallFits(t) /\ call[t] \in 1..4
      /\ pc \in [Threads -> WorkerSteps] /\ call \in [Threads -> 1..4]
      /\ \A u \in Threads \ {t} : pc'[u] = pc[u] /\ call'[u] = call[u]
  BY BodyKeepsGot DEF Body
<1>2. /\ pc[t] = "storeCount" /\ call'[t] = 3 /\ call[t] = 3
      /\ pc'[t] = IF IsProducer(t) THEN "testWaiter" ELSE "loadIndex"
      /\ buffer_count' = IF IsProducer(t) THEN buffer_count + 1 ELSE buffer_count - 1
      /\ (IsProducer(t)' <=> IsProducer(t))
  BY <1>1 DEF StoreCount, Goto, Executes, CallFits, BufferSteps, IsProducer
<1>3. /\ HasMutex(t) /\ HasMutex(t)'
      /\ HasFirst(t) /\ ~HasFirst(t)'
      /\ ~HasLast(t) /\ HasLast(t)'
  BY <1>2 DEF HasMutex, HasFirst, HasLast, HasGot, Keeps, BeforeCount, BufferSteps,
              SignalSteps, DequeueSteps
<1>4. \A u \in Threads \ {t} : \A s : HasUnit(u, s)' <=> HasUnit(u, s)
  BY <1>1, PlaceStays
<1>5. /\ value \in [Semaphores -> Int] /\ buffer_count \in Int /\ BufferSize \in Int
      /\ \A s : Supply(s) \in Int
  BY SemDemoAssumption DEF SemInv, BaseInv, SemTypeOK, Supply
<1>6. Balance("buffer_mutex")' = Balance("buffer_mutex")
  <2>1. Supply("buffer_mutex")' = Supply("buffer_mutex")
    BY DEF Supply
  <2>2. \A u \in Threads : HasUnit(u, "buffer_mutex")' <=> HasUnit(u, "buffer_mutex")
    BY <1>3, <1>4 DEF HasUnit
  <2> QED
    BY <1>1, <2>1, <2>2, SameUnits
<1>7. /\ IsProducer(t) => /\ Supply("full_sem")' = Supply("full_sem") + 1
                          /\ Supply("empty_sem")' = Supply("empty_sem") - 1
      /\ ~IsProducer(t) => /\ Supply("full_sem")' = Supply("full_sem") - 1
                           /\ Supply("empty_sem")' = Supply("empty_sem") + 1
  BY <1>2, <1>5 DEF Supply
<1>8. Balance("full_sem")' = Balance("full_sem")
  <2>1. \A u \in Threads : u # t => (HasUnit(u, "full_sem")' <=> HasUnit(u, "full_sem"))
    BY <1>4
  <2>2. /\ IsProducer(t) => ~HasUnit(t, "full_sem") /\ HasUnit(t, "full_sem")'
        /\ ~IsProducer(t) => HasUnit(t, "full_sem") /\ ~HasUnit(t, "full_sem")'
    BY <1>2, <1>3 DEF HasUnit, Calls
  <2> QED
    BY <1>1, <1>5, <1>7, <2>1, <2>2, UnitCounted DEF Semaphores
<1>9. Balance("empty_sem")' = Balance("empty_sem")
  <2>1. \A u \in Threads : u # t => (HasUnit(u, "empty_sem")' <=> HasUnit(u, "empty_sem"))
    BY <1>4
  <2>2. /\ IsProducer(t) => HasUnit(t, "empty_sem") /\ ~HasUnit(t, "empty_sem")'
        /\ ~IsProducer(t) => ~HasUnit(t, "empty_sem") /\ HasUnit(t, "empty_sem")'
    BY <1>2, <1>3 DEF HasUnit, Calls
  <2> QED
    BY <1>1, <1>5, <1>7, <2>1, <2>2, UnitCounted DEF Semaphores
<1> QED
  BY <1>6, <1>8, <1>9 DEF Semaphores

\* A thread gets the unit of the semaphore it is at, or gives it.
LEMMA UnitGained ==
    ASSUME NEW u \in Threads, id'[u] = id[u], call'[u] = call[u],
           HasLast(u)' <=> HasLast(u),
           \/ call[u] = 1 /\ ~HasFirst(u) /\ HasFirst(u)' /\ (HasMutex(u)' <=> HasMutex(u))
           \/ call[u] = 2 /\ ~HasMutex(u) /\ HasMutex(u)' /\ (HasFirst(u)' <=> HasFirst(u))
    PROVE  /\ \A q : HasUnit(u, q)' <=> HasUnit(u, q) \/ q = Sem(u)
           /\ ~HasUnit(u, Sem(u))
<1>1. Calls(u)' = Calls(u)
  BY SemStays
<1> QED
  BY <1>1 DEF HasUnit, Sem, Calls

LEMMA UnitLost ==
    ASSUME NEW u \in Threads, id'[u] = id[u], call'[u] = call[u],
           HasFirst(u)' <=> HasFirst(u),
           \/ call[u] = 3 /\ HasMutex(u) /\ ~HasMutex(u)' /\ (HasLast(u)' <=> HasLast(u))
           \/ call[u] = 4 /\ HasLast(u) /\ ~HasLast(u)' /\ (HasMutex(u)' <=> HasMutex(u))
    PROVE  /\ \A q : HasUnit(u, q)' <=> HasUnit(u, q) /\ q # Sem(u)
           /\ HasUnit(u, Sem(u))
<1>1. Calls(u)' = Calls(u)
  BY SemStays
<1> QED
  BY <1>1 DEF HasUnit, Sem, Calls

\* The steps of sem_wait and sem_signal at which no unit changes hands.
QuietWaitSteps == WaitSteps \ {"blockedYield"}
Quiet(from, to) ==
    \/ from \in QuietWaitSteps /\ to \in QuietWaitSteps
    \/ from \in {"testWaiter", "loadNext"} /\ to \in {"addUnit", "loadNext", "setNewHead"}
    \/ from \in {"clearTail", "clearNext"} /\ to \in {"clearNext", "wake"}

LEMMA QuietKeepsUnits ==
    ASSUME SemInv, NEW t \in Threads, NEW from, NEW to, Quiet(from, to), Goto(t, from, to),
           UNCHANGED <<tstate, value, buffer_count, id, call>>,
           from \notin {"clearTail", "clearNext"} \/ next' = next,
           \A u \in Threads \ {t} : next'[u] = next[u]
    PROVE  \A s \in Semaphores : Balance(s)' = Balance(s)
<1>1. /\ pc[t] = from /\ pc' = [pc EXCEPT ![t] = to] /\ pc \in [Threads -> WorkerSteps]
      /\ CallFits(t)
  BY DEF Goto, Executes, SemInv, BaseInv, SemTypeOK, CallsFit
<1>2. /\ from \in TakenSteps <=> to \in TakenSteps
      /\ from \in TakenSteps => next' = next
  BY DEF Quiet, QuietWaitSteps, TakenSteps, WaitSteps, EnqueueSteps
<1>3. \A u \in Threads : Got(u)' <=> Got(u)
  BY <1>1, <1>2, GotStays
<1>4. /\ HasMutex(t)' <=> HasMutex(t)
      /\ HasFirst(t)' <=> HasFirst(t)
      /\ HasLast(t)' <=> HasLast(t)
  <2> USE DEF HasMutex, HasFirst, HasLast, HasGot, Keeps, BeforeCount, BufferSteps,
              SignalSteps, DequeueSteps, CallFits, QuietWaitSteps, WaitSteps, EnqueueSteps
  <2>1. pc'[t] = to /\ call'[t] = call[t]
    BY <1>1
  <2>2. CASE from \in QuietWaitSteps /\ to \in QuietWaitSteps
    BY <1>1, <2>1, <2>2
  <2>3. CASE from \in {"testWaiter", "loadNext"} /\ to \in {"addUnit", "loadNext", "setNewHead"}
    BY <1>1, <2>1, <2>3
  <2>4. CASE from \in {"clearTail", "clearNext"} /\ to \in {"clearNext", "wake"}
    BY <1>1, <2>1, <2>4
  <2> QED
    BY <2>2, <2>3, <2>4 DEF Quiet
<1>5. \A u \in Threads : \A s : HasUnit(u, s)' <=> HasUnit(u, s)
  BY <1>1, <1>3, <1>4, PlaceStays, UnitsStay
<1>6. \A s : Supply(s)' = Supply(s)
  BY DEF Supply
<1> QED
  BY <1>5, <1>6, SameUnits

\* Falling asleep, the yield after it, and waking up change no hands.
LEMMA SleepKeepsUnits ==
    ASSUME SemInv, NEW t \in Threads, Block(t) \/ BlockedYield(t, "return") \/ Wake(t, "return"),
           UNCHANGED <<value, buffer_count, id, call>>
    PROVE  \A s \in Semaphores : Balance(s)' = Balance(s)
<1>1. /\ pc \in [Threads -> WorkerSteps] /\ tstate \in [Threads -> ThreadStates]
      /\ next \in [Threads -> Threads \cup {NULL}]
      /\ CallFits(t) /\ cpu = Thread(t) /\ TakenInv
      /\ \A u \in Threads \ {t} : pc'[u] = pc[u]
  BY DEF Block, BlockedYield, Wake, Goto, Executes, SemInv, BaseInv, SemTypeOK,
     WaitQueueTypeOK, CallsFit, IInv, SchedulerTypeOK, QueuesInv
<1>2. /\ \A u \in Threads : u # t => (Got(u)' <=> Got(u))
      /\ HasMutex(t)' <=> HasMutex(t)
      /\ HasFirst(t)' <=> HasFirst(t)
      /\ HasLast(t)' <=> HasLast(t)
  <2>1. CASE Block(t)
    <3>1. /\ pc[t] = "block" /\ pc' = [pc EXCEPT ![t] = "blockedYield"]
          /\ tstate' = [tstate EXCEPT ![t] = "BLOCKED"] /\ tstate[t] = "RUNNING"
          /\ next' = next
      BY <1>1, <2>1, CallEffect DEF Block, Goto, Executes, locals, SemInv, BaseInv, StatesFit
    <3>2. \A u, v \in Threads : Takes(u, v)' <=> Takes(u, v)
      BY <1>1, <3>1 DEF Takes, TakenSteps
    <3>3. \A u \in Threads : ~Takes(u, t)
      BY <1>1, <3>1 DEF Takes, TakenInv
    <3>4. ~Got(t)'
      BY <1>1, <3>1, <3>2, <3>3 DEF Got, IsTaken
    <3>5. \A u \in Threads : u # t => (Got(u)' <=> Got(u))
      BY <1>1, <3>1, <3>2 DEF Got, IsTaken
    <3> QED
      BY <1>1, <3>1, <3>4, <3>5
      DEF HasMutex, HasFirst, HasLast, HasGot, Keeps, BeforeCount, BufferSteps,
          SignalSteps, DequeueSteps, CallFits, WaitSteps, EnqueueSteps
  <2>2. CASE BlockedYield(t, "return")
    <3>1. /\ pc[t] = "blockedYield" /\ pc' = [pc EXCEPT ![t] = "return"] /\ next' = next
          /\ \A u \in Threads : tstate'[u] = "BLOCKED" <=> tstate[u] = "BLOCKED"
      BY <2>2, IrqEffect DEF BlockedYield, Goto, Executes, locals, SemInv, BaseInv
    <3>2. \A u \in Threads : Got(u)' <=> Got(u)
      BY <1>1, <3>1, GotStays DEF TakenSteps
    <3> QED
      BY <1>1, <3>1, <3>2
      DEF HasMutex, HasFirst, HasLast, HasGot, Keeps, BeforeCount, BufferSteps,
          SignalSteps, DequeueSteps, CallFits, WaitSteps, EnqueueSteps
  <2>3. CASE Wake(t, "return")
    <3>1. /\ pc[t] = "wake" /\ pc' = [pc EXCEPT ![t] = "return"]
          /\ next' = [next EXCEPT ![t] = NULL] /\ UnblockThread(next[t])
      BY <2>3 DEF Wake, Goto, Executes
    <3>2. PICK h \in Threads : h = next[t] /\ tstate[h] = "BLOCKED"
      BY <1>1, <3>1 DEF TakenInv, TakenSteps
    <3>3. tstate' = [tstate EXCEPT ![h] = "READY"] /\ tstate[t] = "RUNNING"
      BY <1>1, <3>1, <3>2, CallEffect DEF SemInv, BaseInv, StatesFit
    <3>4. \A u, v \in Threads : v # h => (Takes(u, v)' <=> Takes(u, v))
      BY <1>1, <3>1, <3>2 DEF Takes, TakenSteps
    <3>5. Got(h) /\ Got(h)'
      BY <1>1, <3>1, <3>2, <3>3 DEF Got, IsTaken, Takes, TakenSteps
    <3>6. \A u \in Threads : Got(u)' <=> Got(u)
      BY <1>1, <3>3, <3>4, <3>5 DEF Got, IsTaken
    <3> QED
      BY <1>1, <3>1, <3>6
      DEF HasMutex, HasFirst, HasLast, HasGot, Keeps, BeforeCount, BufferSteps,
          SignalSteps, DequeueSteps, CallFits, WaitSteps, EnqueueSteps
  <2> QED
    BY <2>1, <2>2, <2>3
<1>3. \A u \in Threads : \A s : HasUnit(u, s)' <=> HasUnit(u, s)
  BY <1>1, <1>2, PlaceStays, UnitsStay
<1>4. \A s : Supply(s)' = Supply(s)
  BY DEF Supply
<1> QED
  BY <1>3, <1>4, SameUnits

\* The three steps at which a unit changes hands.
LEMMA TakeUnitBalances ==
    ASSUME SemInv, NEW t \in Threads, NEW s \in Semaphores, s = Sem(t),
           TakeUnit(t, s, "return"), UNCHANGED <<bufferVars, id, i, call, reg, sem_done>>
    PROVE  \A q \in Semaphores : Balance(q)' = Balance(q)
<1>1. /\ value[s] > 0 /\ value' = [value EXCEPT ![s] = value[s] - 1]
      /\ value \in [Semaphores -> Int] /\ buffer_count \in Int /\ buffer_count' = buffer_count
      /\ BufferSize \in Int
  BY UnitStep, SemDemoAssumption DEF SemInv, BaseInv, SemTypeOK, bufferVars
<1>2. /\ pc[t] = "takeUnit" /\ pc' = [pc EXCEPT ![t] = "return"]
      /\ pc \in [Threads -> WorkerSteps] /\ tstate' = tstate /\ next' = next
      /\ tstate[t] = "RUNNING" /\ call[t] \in {1, 2}
  BY DEF TakeUnit, Goto, Executes, schedVars, threadVars, locals, SemInv, BaseInv, SemTypeOK,
     StatesFit, CallsFit, CallFits, WaitSteps
<1>3. \A u \in Threads : Got(u)' <=> Got(u)
  BY <1>2, GotStays DEF TakenSteps
<1>4. Got(t)'
  BY <1>2 DEF Got
<1>5. /\ HasLast(t)' <=> HasLast(t)
      /\ \/ call[t] = 1 /\ ~HasFirst(t) /\ HasFirst(t)' /\ (HasMutex(t)' <=> HasMutex(t))
         \/ call[t] = 2 /\ ~HasMutex(t) /\ HasMutex(t)' /\ (HasFirst(t)' <=> HasFirst(t))
  BY <1>2, <1>4 DEF HasMutex, HasFirst, HasLast, HasGot, Keeps, BeforeCount, BufferSteps
<1>6. /\ \A q : HasUnit(t, q)' <=> HasUnit(t, q) \/ q = s
      /\ ~HasUnit(t, s)
  BY <1>5, UnitGained
<1>7. \A u \in Threads : u # t => \A q : HasUnit(u, q)' <=> HasUnit(u, q)
  BY <1>2, <1>3, PlaceStays
<1>8. \A q : Supply(q)' = Supply(q) /\ Supply(q) \in Int
  BY <1>1 DEF Supply
<1>9. Balance(s)' = Balance(s)
  BY <1>1, <1>6, <1>7, <1>8, UnitTaken
<1>10. ASSUME NEW q \in Semaphores, q # s PROVE Balance(q)' = Balance(q)
  BY <1>1, <1>6, <1>7, <1>8, <1>10, SameUnits
<1> QED
  BY <1>9, <1>10

\* What the signaller has before it gives it.
LEMMA GivesUnit ==
    ASSUME SemInv, NEW t \in Threads, NEW s, s = Sem(t),
           pc[t] \in {"addUnit", "setNewHead"}, UNCHANGED <<id, call>>,
           pc'[t] \in {"return", "clearTail", "clearNext"}
    PROVE  /\ \A q : HasUnit(t, q)' <=> HasUnit(t, q) /\ q # s
           /\ HasUnit(t, s)
<1>1. call[t] \in {3, 4}
  BY DEF SemInv, BaseInv, CallsFit, CallFits, SignalSteps, DequeueSteps
<1>2. /\ HasFirst(t)' <=> HasFirst(t)
      /\ \/ call[t] = 3 /\ HasMutex(t) /\ ~HasMutex(t)' /\ (HasLast(t)' <=> HasLast(t))
         \/ call[t] = 4 /\ HasLast(t) /\ ~HasLast(t)' /\ (HasMutex(t)' <=> HasMutex(t))
  BY <1>1 DEF HasMutex, HasFirst, HasLast, HasGot, Keeps, BeforeCount, BufferSteps,
     SignalSteps, DequeueSteps
<1> QED
  BY <1>2, UnitLost

LEMMA AddUnitBalances ==
    ASSUME SemInv, NEW t \in Threads, NEW s \in Semaphores, s = Sem(t),
           AddUnit(t, s, "return"), UNCHANGED <<bufferVars, id, i, call, reg, sem_done>>
    PROVE  \A q \in Semaphores : Balance(q)' = Balance(q)
<1>1. /\ value' = [value EXCEPT ![s] = value[s] + 1]
      /\ value \in [Semaphores -> Int] /\ buffer_count \in Int /\ buffer_count' = buffer_count
      /\ BufferSize \in Int
  BY UnitStep, SemDemoAssumption DEF SemInv, BaseInv, SemTypeOK, bufferVars
<1>2. /\ pc[t] = "addUnit" /\ pc' = [pc EXCEPT ![t] = "return"]
      /\ pc \in [Threads -> WorkerSteps] /\ tstate' = tstate /\ next' = next
  BY DEF AddUnit, Goto, Executes, schedVars, threadVars, locals, SemInv, BaseInv, SemTypeOK
<1>3. \A u \in Threads : Got(u)' <=> Got(u)
  BY <1>2, GotStays DEF TakenSteps
<1>4. /\ \A q : HasUnit(t, q)' <=> HasUnit(t, q) /\ q # s
      /\ HasUnit(t, s)
  BY <1>2, GivesUnit
<1>5. \A u \in Threads : u # t => \A q : HasUnit(u, q)' <=> HasUnit(u, q)
  BY <1>2, <1>3, PlaceStays
<1>6. \A q : Supply(q)' = Supply(q) /\ Supply(q) \in Int
  BY <1>1 DEF Supply
<1>7. Balance(s)' = Balance(s)
  BY <1>1, <1>4, <1>5, <1>6, UnitGiven
<1>8. ASSUME NEW q \in Semaphores, q # s PROVE Balance(q)' = Balance(q)
  BY <1>1, <1>4, <1>5, <1>6, <1>8, SameUnits
<1> QED
  BY <1>7, <1>8

\* The first in line gets the unit of the signaller.
LEMMA HandingBalances ==
    ASSUME SemInv, NEW t \in Threads, NEW s \in Semaphores, s = Sem(t),
           SetNewHead(t, s), UNCHANGED <<value, unit, bufferVars, id, i, call, reg, sem_done>>
    PROVE  \A q \in Semaphores : Balance(q)' = Balance(q)
<1>1. PICK h \in Threads :
         /\ h = next[t] /\ InRing(Line(s), h) /\ next' = next /\ Takes(t, h)'
  BY TakeStep
<1>2. /\ pc[t] = "setNewHead" /\ pc \in [Threads -> WorkerSteps] /\ tstate' = tstate
      /\ pc'[t] \in {"clearTail", "clearNext"} /\ tstate[t] = "RUNNING"
      /\ \A u \in Threads : u # t => pc'[u] = pc[u]
  BY DEF SetNewHead, Goto, Executes, schedVars, threadVars, SemInv, BaseInv, SemTypeOK, StatesFit
<1>3. Sem(h) = s /\ (tstate[h] = "BLOCKED" \/ Joins(h)) /\ InLine(h)
  BY <1>1 DEF SemInv, QueuesInv, LineInv, InLine
<1>4. pc[t] \in Windows /\ cpu = Thread(t)
  BY <1>2 DEF Windows, SemInv, BaseInv, OnlyCpuInWindow
<1>5. h # t /\ ~Joins(h) /\ tstate[h] = "BLOCKED"
  <2>1. ~Joins(h)
    <3>1. Joins(h) => cpu = Thread(h)
      BY DEF Joins, Windows, SemInv, BaseInv, OnlyCpuInWindow
    <3>2. Joins(h) => h = t
      BY <1>4, <3>1, OneOnCpu
    <3> QED
      BY <1>2, <3>2 DEF Joins
  <2> QED
    BY <1>2, <1>3, <2>1
<1>6. /\ pc[h] \in {"blockedYield", "return"} /\ call[h] \in {1, 2}
      /\ pc'[h] = pc[h]
  BY <1>2, <1>5 DEF SemInv, BaseInv, StatesFit, CallsFit, CallFits
<1>7. ~Got(h) /\ Got(h)'
  <2>1. \A u \in Threads : ~Takes(u, h)
    BY <1>3 DEF SemInv, QueuesInv, TakenInv, Takes
  <2> QED
    BY <1>1, <1>5, <2>1 DEF Got, IsTaken
<1>8. ASSUME NEW u \in Threads, u # t, u # h PROVE \A q : HasUnit(u, q)' <=> HasUnit(u, q)
  <2>1. \A v \in Threads : Takes(v, u)' <=> Takes(v, u)
    BY <1>1, <1>2, <1>8 DEF Takes, TakenSteps
  <2>2. Got(u)' <=> Got(u)
    BY <1>2, <2>1 DEF Got, IsTaken
  <2> QED
    BY <1>2, <1>8, <2>2, PlaceStays
<1>9. /\ \A q : HasUnit(t, q)' <=> HasUnit(t, q) /\ q # s
      /\ HasUnit(t, s)
  BY <1>2, GivesUnit
<1>10. /\ \A q : HasUnit(h, q)' <=> HasUnit(h, q) \/ q = s
       /\ ~HasUnit(h, s)
  <2>1. /\ HasLast(h)' <=> HasLast(h)
        /\ \/ call[h] = 1 /\ ~HasFirst(h) /\ HasFirst(h)' /\ (HasMutex(h)' <=> HasMutex(h))
           \/ call[h] = 2 /\ ~HasMutex(h) /\ HasMutex(h)' /\ (HasFirst(h)' <=> HasFirst(h))
    BY <1>6, <1>7 DEF HasMutex, HasFirst, HasLast, HasGot, Keeps, BeforeCount, BufferSteps,
       SignalSteps, DequeueSteps
  <2> QED
    BY <1>3, <2>1, UnitGained
<1>11. \A q : Supply(q)' = Supply(q)
  BY DEF Supply, bufferVars
<1>12. Balance(s)' = Balance(s)
  BY <1>5, <1>8, <1>9, <1>10, <1>11, UnitHanded
<1>13. ASSUME NEW q \in Semaphores, q # s PROVE Balance(q)' = Balance(q)
  <2>1. \A u \in Threads : HasUnit(u, q)' <=> HasUnit(u, q)
    BY <1>8, <1>9, <1>10, <1>13
  <2> QED
    BY <1>11, <2>1, SameUnits
<1> QED
  BY <1>12, <1>13

\* The end of a round and of the thread.
LEMMA LeavingKeepsUnits ==
    ASSUME SemInv, NEW t \in Threads, RoundYield(t) \/ Exit(t) \/ GoneYield(t)
    PROVE  \A s \in Semaphores : Balance(s)' = Balance(s)
<1>1. /\ pc \in [Threads -> WorkerSteps] /\ tstate \in [Threads -> ThreadStates]
      /\ CallFits(t) /\ cpu = Thread(t) /\ pc[t] \in {"yield", "exit", "gone"}
      /\ UNCHANGED <<id, call, next, value, buffer_count>>
  BY DEF RoundYield, Exit, GoneYield, Goto, Executes, SemInv, BaseInv, SemTypeOK,
     CallsFit, IInv, SchedulerTypeOK, semVars, locals, bufferVars, workerVars
<1>2. /\ pc'[t] \in {"loop", "gone"}
      /\ \A u \in Threads : u # t => pc'[u] = pc[u]
  BY <1>1 DEF RoundYield, Exit, GoneYield, Goto, Executes, workerVars
<1>3. \A u \in Threads : tstate'[u] = "BLOCKED" <=> tstate[u] = "BLOCKED"
  <2>1. CASE RoundYield(t) \/ GoneYield(t)
    BY <2>1, IrqEffect DEF RoundYield, GoneYield, SemInv, BaseInv
  <2>2. CASE Exit(t)
    <3>1. tstate' = [tstate EXCEPT ![t] = "TERMINATED"] /\ pc[t] = "exit"
      BY <1>1, <2>2, CallEffect DEF Exit, Goto, Executes, SemInv, BaseInv
    <3>2. tstate[t] # "BLOCKED"
      BY <3>1 DEF SemInv, BaseInv, StatesFit
    <3> QED
      BY <1>1, <3>1, <3>2
  <2> QED
    BY <2>1, <2>2
<1>4. \A u \in Threads : Got(u)' <=> Got(u)
  BY <1>1, <1>2, <1>3, GotStays DEF TakenSteps
<1>5. /\ HasMutex(t)' <=> HasMutex(t)
      /\ HasFirst(t)' <=> HasFirst(t)
      /\ HasLast(t)' <=> HasLast(t)
  BY <1>1, <1>2 DEF HasMutex, HasFirst, HasLast, HasGot, Keeps, BeforeCount, BufferSteps,
     SignalSteps, DequeueSteps, CallFits, OutOfCalls
<1>6. \A u \in Threads : \A s : HasUnit(u, s)' <=> HasUnit(u, s)
  BY <1>1, <1>2, <1>4, <1>5, PlaceStays, UnitsStay
<1>7. \A s : Supply(s)' = Supply(s)
  BY <1>1 DEF Supply
<1> QED
  BY <1>1, <1>6, <1>7, SameUnits

LEMMA WaitKeepsUnits ==
    ASSUME SemInv, NEW t \in Threads, Wait(t)
    PROVE  \A s \in Semaphores : Balance(s)' = Balance(s)
<1>1. PICK s \in Semaphores : s = Sem(t)
  BY SemIsOne DEF SemInv, BaseInv
<1>2. SemWait(t, s, "return") /\ UNCHANGED <<bufferVars, id, i, call, reg, sem_done>>
  BY <1>1 DEF Wait
<1>3. CASE TakeUnit(t, s, "return")
  BY <1>1, <1>2, <1>3, TakeUnitBalances
<1>4. CASE (Block(t) \/ BlockedYield(t, "return")) /\ UNCHANGED <<value, unit>>
  BY <1>2, <1>4, SleepKeepsUnits DEF bufferVars
<1>5. CASE \/ TestValue(t, s)
           \/ /\ TestQueue(t, s) \/ SetHead(t, s) \/ LoadTail(t, s) \/ LinkTail(t) \/ SetTail(t, s)
              /\ UNCHANGED <<value, unit>>
  <2>1. UNCHANGED <<tstate, value, buffer_count, id, call, next>>
    BY <1>2, <1>5 DEF TestValue, TestQueue, SetHead, LoadTail, LinkTail, SetTail, locals,
       schedVars, threadVars, bufferVars
  <2>2. PICK from \in QuietWaitSteps, to \in QuietWaitSteps : Goto(t, from, to)
    BY <1>5 DEF TestValue, TestQueue, SetHead, LoadTail, LinkTail, SetTail,
       QuietWaitSteps, WaitSteps, EnqueueSteps
  <2> QED
    BY <2>1, <2>2, QuietKeepsUnits DEF Quiet
<1> QED
  BY <1>2, <1>3, <1>4, <1>5 DEF SemWait, Enqueue

LEMMA SignalKeepsUnits ==
    ASSUME SemInv, NEW t \in Threads, Signal(t)
    PROVE  \A s \in Semaphores : Balance(s)' = Balance(s)
<1>1. PICK s \in Semaphores : s = Sem(t)
  BY SemIsOne DEF SemInv, BaseInv
<1>2. SemSignal(t, s, "return") /\ UNCHANGED <<bufferVars, id, i, call, reg, sem_done>>
  BY <1>1 DEF Signal
<1>3. CASE AddUnit(t, s, "return")
  BY <1>1, <1>2, <1>3, AddUnitBalances
<1>4. CASE SetNewHead(t, s) /\ UNCHANGED <<value, unit>>
  BY <1>1, <1>2, <1>4, HandingBalances
<1>5. CASE Wake(t, "return") /\ UNCHANGED <<value, unit>>
  BY <1>2, <1>5, SleepKeepsUnits DEF bufferVars
<1>6. CASE /\ TestWaiter(t, s, "addUnit") \/ LoadNext(t) \/ ClearTail(t, s) \/ ClearNext(t, "wake")
           /\ UNCHANGED <<value, unit>>
  <2>1. UNCHANGED <<tstate, value, buffer_count, id, call>>
    BY <1>2, <1>6 DEF TestWaiter, LoadNext, ClearTail, ClearNext, schedVars, threadVars, bufferVars
  <2>2. /\ TestWaiter(t, s, "addUnit") \/ next' = next
        /\ next \in [Threads -> Threads \cup {NULL}]
    BY <1>6 DEF LoadNext, ClearTail, ClearNext, locals, SemInv, BaseInv, SemTypeOK, WaitQueueTypeOK
  <2>3. \A u \in Threads \ {t} : next'[u] = next[u]
    BY <2>2 DEF TestWaiter
  <2>4. CASE TestWaiter(t, s, "addUnit")
    <3>1. PICK to \in {"addUnit", "loadNext"} : Goto(t, "testWaiter", to)
      BY <2>4 DEF TestWaiter
    <3> QED
      BY <2>1, <2>3, <3>1, QuietKeepsUnits DEF Quiet
  <2>5. CASE LoadNext(t)
    <3>1. Goto(t, "loadNext", "setNewHead")
      BY <2>5 DEF LoadNext
    <3> QED
      BY <2>1, <2>3, <3>1, QuietKeepsUnits DEF Quiet
  <2>6. CASE ClearTail(t, s)
    <3>1. Goto(t, "clearTail", "clearNext") /\ next' = next
      BY <2>6 DEF ClearTail, locals
    <3> QED
      BY <2>1, <2>3, <3>1, QuietKeepsUnits DEF Quiet
  <2>7. CASE ClearNext(t, "wake")
    <3>1. Goto(t, "clearNext", "wake") /\ next' = next
      BY <2>7 DEF ClearNext, locals
    <3> QED
      BY <2>1, <2>3, <3>1, QuietKeepsUnits DEF Quiet
  <2> QED
    BY <1>6, <2>4, <2>5, <2>6, <2>7
<1> QED
  BY <1>2, <1>3, <1>4, <1>5, <1>6 DEF SemSignal, Dequeue

LEMMA WorkerKeepsUnits ==
    ASSUME SemInv, RegsInv, NEW t \in Threads, Worker(t)
    PROVE  \A s \in Semaphores : Balance(s)' = Balance(s)
<1>1. CASE StoreCount(t)
  <2>1. reg[t] = buffer_count
    BY <1>1 DEF StoreCount, Goto, Executes, RegsInv, RegsFit
  <2> QED
    BY <1>1, <2>1, StoreCountKeepsUnits
<1>2. CASE Body(t) /\ ~StoreCount(t)
  BY <1>2, BodyKeepsUnits
<1> QED
  BY <1>1, <1>2, WaitKeepsUnits, SignalKeepsUnits, LeavingKeepsUnits DEF Worker, Body

\* buffer_mutex has one unit, so one thread has it.
LEMMA OneHasMutex ==
    ASSUME SemInv, UnitsInv, NEW t \in Threads, NEW u \in Threads, HasMutex(t), HasMutex(u)
    PROVE  t = u
<1> DEFINE S == Units("buffer_mutex")
<1>1. t \in S /\ u \in S
  BY DEF Units, HasUnit
<1>2. IsFiniteSet(S) /\ Cardinality(S) \in Nat
  BY UnitsAreFinite
<1>3. value["buffer_mutex"] \in Int /\ value["buffer_mutex"] >= 0
      /\ value["buffer_mutex"] + Cardinality(S) = 1
  BY DEF SemInv, BaseInv, SemTypeOK, ValueInv, UnitsInv, Supply, Semaphores
<1> HIDE DEF S
<1>4. IsFiniteSet(S \ {t}) /\ Cardinality(S \ {t}) = Cardinality(S) - 1
  BY <1>1, <1>2, FS_RemoveElement
<1>5. Cardinality(S \ {t}) \in Nat
  BY <1>4, FS_CardinalityType
<1>6. Cardinality(S \ {t}) = 0
  BY <1>2, <1>3, <1>4, <1>5
<1>7. S \ {t} = {}
  BY <1>4, <1>6, FS_EmptySet
<1> QED
  BY <1>1, <1>7

\* The invariant says that the difference is 0.
LEMMA UnitsInBalance ==
    /\ SemTypeOK => (UnitsInv <=> \A s \in Semaphores : Balance(s) = 0)
    /\ SemTypeOK' => (UnitsInv' <=> \A s \in Semaphores : Balance(s)' = 0)
<1>1. ASSUME SemTypeOK, NEW s \in Semaphores
      PROVE  Balance(s) = 0 <=> value[s] + Cardinality(Units(s)) = Supply(s)
  <2>1. value[s] \in Int /\ Supply(s) \in Int /\ Cardinality(Units(s)) \in Nat
    BY <1>1, UnitsAreFinite, SemDemoAssumption DEF SemTypeOK, Supply
  <2> QED
    BY <2>1 DEF Balance
<1>2. ASSUME SemTypeOK', NEW s \in Semaphores
      PROVE  Balance(s)' = 0 <=> value'[s] + Cardinality(Units(s)') = Supply(s)'
  <2>1. value'[s] \in Int /\ Supply(s)' \in Int /\ Cardinality(Units(s)') \in Nat
    BY <1>2, UnitsAreFinite, SemDemoAssumption DEF SemTypeOK, Supply
  <2> QED
    BY <2>1 DEF Balance
<1> QED
  BY <1>1, <1>2 DEF UnitsInv

\* A step that leaves the registers and buffer_count of the steps that use
\* them.
LEMMA RegsStay ==
    ASSUME SemInv, CountInv, NEW t \in Threads, Worker(t)
    PROVE  \A u \in Threads \ {t} :
              /\ pc'[u] = pc[u] /\ reg'[u] = reg[u] /\ unit'[u] = unit[u]
              /\ pc[u] \in {"putItem", "takeItem", "storeCount"} => buffer_count' = buffer_count
<1>1. unit \in [Threads -> Int]
  BY DEF SemInv, BaseInv, SemTypeOK
<1>2. \A u \in Threads \ {t} : unit'[u] = unit[u]
  <2>1. CASE Wait(t)
    BY <1>1, <2>1 DEF Wait, SemWait, TestValue, TakeUnit
  <2>2. CASE ~Wait(t)
    <3>1. unit' = unit
      <4>1. CASE Signal(t)
        BY <4>1 DEF Signal, SemSignal, AddUnit
      <4>2. CASE Body(t)
        BY <4>2, BodyTypes DEF SemInv, BaseInv
      <4>3. CASE RoundYield(t) \/ Exit(t) \/ GoneYield(t)
        BY <4>3 DEF RoundYield, Exit, GoneYield, semVars
      <4> QED
        BY <2>2, <4>1, <4>2, <4>3 DEF Worker, Body
    <3> QED
      BY <3>1
  <2> QED
    BY <2>1, <2>2
<1>3. ASSUME NEW u \in Threads, u # t, pc[u] \in {"putItem", "takeItem", "storeCount"}
      PROVE  buffer_count' = buffer_count
  <2>1. ~StoreCount(t)
    <3> SUFFICES ASSUME StoreCount(t) PROVE FALSE
      OBVIOUS
    <3>1. HasMutex(t) /\ HasMutex(u)
      BY <1>3 DEF HasMutex, BufferSteps, StoreCount, Goto, Executes
    <3> QED
      BY <1>3, <3>1, OneHasMutex DEF CountInv
  <2> QED
    BY <2>1 DEF Worker, Loop, Wait, Signal, Return, LoadIndex, PutItem, TakeItem, LoadCount,
       RoundYield, LoadDone, StoreDone, Exit, GoneYield, bufferVars
<1> QED
  BY <1>2, <1>3, WorkerEffect

LEMMA WorkerKeepsRegs ==
    ASSUME SemInv, CountInv, NEW t \in Threads, Worker(t)
    PROVE  RegsInv'
<1>1. ASSUME NEW u \in Threads, u # t PROVE RegsFit(u)'
  BY <1>1, RegsStay DEF CountInv, RegsInv, RegsFit
<1>2. /\ RegsFit(t) /\ reg \in [Threads -> Int] /\ unit \in [Threads -> Int]
      /\ pc \in [Threads -> WorkerSteps] /\ value \in [Semaphores -> Int]
      /\ \A s \in Semaphores : value[s] >= 0
      /\ Sem(t) \in Semaphores
  BY SemIsOne DEF CountInv, RegsInv, SemInv, BaseInv, SemTypeOK, ValueInv
<1>3. RegsFit(t)'
  <2> USE DEF RegsFit, Goto, Executes
  <2>1. CASE Wait(t)
    <3>1. PICK s \in Semaphores : s = Sem(t) /\ SemWait(t, s, "return")
      BY <1>2, <2>1 DEF Wait
    <3>2. reg' = reg
      BY <2>1 DEF Wait
    <3>3. CASE TestValue(t, s)
      BY <1>2, <3>2, <3>3 DEF TestValue
    <3>4. CASE TakeUnit(t, s, "return")
      BY <1>2, <3>2, <3>4 DEF TakeUnit
    <3>5. CASE Enqueue(t, s, "return") /\ UNCHANGED <<value, unit>>
      BY <1>2, <3>2, <3>5 DEF Enqueue, TestQueue, SetHead, LoadTail, LinkTail, SetTail, Block,
         BlockedYield
    <3> QED
      BY <3>1, <3>3, <3>4, <3>5 DEF SemWait
  <2>2. CASE Signal(t)
    <3>1. PICK s \in Semaphores : s = Sem(t) /\ SemSignal(t, s, "return")
      BY <1>2, <2>2 DEF Signal
    <3>2. reg' = reg
      BY <2>2 DEF Signal
    <3>3. CASE AddUnit(t, s, "return")
      BY <1>2, <3>2, <3>3 DEF AddUnit
    <3>4. CASE Dequeue(t, s, "addUnit", "wake", "return") /\ UNCHANGED <<value, unit>>
      BY <1>2, <3>2, <3>4 DEF Dequeue, TestWaiter, LoadNext, SetNewHead, ClearTail, ClearNext,
         Wake
    <3> QED
      BY <3>1, <3>3, <3>4 DEF SemSignal
  <2>3. CASE Body(t)
    <3>1. unit' = unit
      BY <2>3, BodyTypes DEF SemInv, BaseInv
    <3>2. CASE Loop(t) \/ Return(t)
      <4>1. /\ reg' = reg /\ pc[t] \in {"loop", "return"}
            /\ pc'[t] \notin {"putItem", "takeItem", "storeCount", "storeDone", "takeUnit"}
        <5>1. PICK from \in BodySteps, to \in {"testValue", "loadDone", "loadIndex", "loadCount",
              "testWaiter", "yield", "putItem", "takeItem", "storeCount", "storeDone", "exit"} :
              /\ Goto(t, from, to)
              /\ from = "loop" => to \in {"testValue", "loadDone"}
              /\ from = "return" /\ call[t] = 1 => to = "testValue"
              /\ from = "return" /\ call[t] = 2 => to \in {"loadIndex", "loadCount"}
              /\ from = "return" /\ call[t] = 3 => to = "testWaiter"
              /\ from = "return" /\ call[t] = 4 => to = "yield"
          BY <2>3, BodyGoes DEF SemInv, BaseInv
        <5>2. call[t] = 1 \/ call[t] = 2 \/ call[t] = 3 \/ call[t] = 4
          BY DEF SemInv, BaseInv, SemTypeOK
        <5>3. from \in {"loop", "return"} /\ pc[t] = from /\ reg' = reg
          BY <3>2, <5>1 DEF Loop, Return
        <5> QED
          BY <1>2, <5>1, <5>2, <5>3
      <4> QED
        BY <1>2, <3>1, <4>1
    <3>3. CASE LoadIndex(t)
      BY <1>2, <3>1, <3>3 DEF LoadIndex, bufferVars
    <3>4. CASE PutItem(t) \/ TakeItem(t) \/ StoreCount(t)
      BY <1>2, <3>1, <3>4 DEF PutItem, TakeItem, StoreCount
    <3>5. CASE LoadCount(t)
      BY <1>2, <3>1, <3>5 DEF LoadCount, bufferVars
    <3>6. CASE LoadDone(t) \/ StoreDone(t)
      BY <1>2, <3>1, <3>6 DEF LoadDone, StoreDone
    <3> QED
      BY <2>3, <3>2, <3>3, <3>4, <3>5, <3>6 DEF Body
  <2>4. CASE RoundYield(t) \/ Exit(t) \/ GoneYield(t)
    BY <1>2, <2>4 DEF RoundYield, Exit, GoneYield, semVars, workerVars
  <2> QED
    BY <2>1, <2>2, <2>3, <2>4 DEF Worker, Body
<1> QED
  BY <1>1, <1>3 DEF RegsInv

\* Every step of a worker keeps the units in balance and the registers right.
LEMMA WorkerKeepsCount ==
    ASSUME SemInv, CountInv, NEW t \in Threads, Worker(t)
    PROVE  CountInv'
<1>1. \A s \in Semaphores : Balance(s)' = Balance(s)
  BY WorkerKeepsUnits DEF CountInv
<1>2. SemTypeOK /\ SemTypeOK'
  BY WorkerStep DEF SemInv, BaseInv
<1>3. UnitsInv'
  BY <1>1, <1>2, UnitsInBalance DEF CountInv
<1> QED
  BY <1>3, WorkerKeepsRegs DEF CountInv

\* The steps of the timer, the boot and the shell, but for StartDemo.
LEMMA CountStays ==
    ASSUME SemInv, CountInv, UNCHANGED <<pc, call, reg, buffer_count, value, unit, next>>,
           \A u \in Threads : /\ tstate'[u] = "BLOCKED" <=> tstate[u] = "BLOCKED"
                              /\ id'[u] = id[u] \/ pc[u] = "loop"
    PROVE  CountInv'
<1>1. \A u \in Threads : Got(u)' <=> Got(u)
  BY GotStays
<1>2. ASSUME NEW u \in Threads
      PROVE  \A s : HasUnit(u, s)' <=> HasUnit(u, s)
  <2>1. CASE id'[u] = id[u]
    BY <1>1, <2>1, PlaceStays
  <2>2. CASE pc[u] = "loop"
    <3>1. call[u] = 1
      BY <2>2 DEF SemInv, BaseInv, CallsFit, CallFits, OutOfCalls
    <3> QED
      BY <2>2, <3>1 DEF HasUnit, HasMutex, HasFirst, HasLast, HasGot, Keeps, BeforeCount,
         BufferSteps
  <2> QED
    BY <2>1, <2>2
<1>3. \A s : Units(s)' = Units(s) /\ Supply(s)' = Supply(s)
  BY <1>2 DEF Units, Supply
<1>4. UnitsInv'
  BY <1>3 DEF CountInv, UnitsInv
<1>5. RegsInv'
  BY DEF CountInv, RegsInv, RegsFit
<1> QED
  BY <1>4, <1>5 DEF CountInv

\* With no thread in a round, the semaphores have all units.
LEMMA CountAtRest ==
    /\ Resting /\ CallsFit /\ value = Initially /\ buffer_count = 0 /\ RegsInv => CountInv
    /\ Resting' /\ CallsFit' /\ value' = Initially /\ buffer_count' = 0 /\ RegsInv' => CountInv'
<1>1. /\ Initially["buffer_mutex"] = 1 /\ Initially["full_sem"] = 0
      /\ Initially["empty_sem"] = BufferSize
  BY DEF Initially, Semaphores
<1>2. BufferSize \in Int /\ Cardinality({}) = 0
  BY SemDemoAssumption, FS_EmptySet
<1>3. ASSUME Resting, CallsFit, value = Initially, buffer_count = 0, NEW s \in Semaphores
      PROVE  value[s] + Cardinality(Units(s)) = Supply(s)
  <2>1. \A t \in Threads : ~HasUnit(t, s)
    BY <1>3 DEF Resting, CallsFit, CallFits, OutOfCalls, HasUnit, HasMutex, HasFirst, HasLast,
       HasGot, Keeps, BeforeCount, BufferSteps
  <2>2. Units(s) = {}
    BY <2>1 DEF Units
  <2> QED
    BY <1>1, <1>2, <1>3, <2>2 DEF Supply, Semaphores
<1>4. ASSUME Resting', CallsFit', value' = Initially, buffer_count' = 0, NEW s \in Semaphores
      PROVE  value'[s] + Cardinality(Units(s)') = Supply(s)'
  <2>1. \A t \in Threads : ~HasUnit(t, s)'
    BY <1>4 DEF Resting, CallsFit, CallFits, OutOfCalls, HasUnit, HasMutex, HasFirst, HasLast,
       HasGot, Keeps, BeforeCount, BufferSteps
  <2>2. Units(s)' = {}
    BY <2>1 DEF Units
  <2> QED
    BY <1>1, <1>2, <1>4, <2>2 DEF Supply, Semaphores
<1> QED
  BY <1>3, <1>4 DEF CountInv, UnitsInv

\* Every unit of full_sem is an item and every unit of empty_sem a free cell.
LEMMA CountInRange ==
    ASSUME SemInv, UnitsInv
    PROVE  buffer_count \in 0..BufferSize
<1>1. /\ "full_sem" \in Semaphores /\ "empty_sem" \in Semaphores
      /\ Supply("full_sem") = buffer_count /\ Supply("empty_sem") = BufferSize - buffer_count
  BY DEF Semaphores, Supply
<1>2. \A s \in Semaphores : value[s] \in Int /\ value[s] >= 0 /\ Cardinality(Units(s)) \in Nat
                            /\ value[s] + Cardinality(Units(s)) = Supply(s)
  BY UnitsAreFinite DEF SemInv, BaseInv, SemTypeOK, ValueInv, UnitsInv
<1>3. \A s \in Semaphores : Supply(s) >= 0
  BY <1>2
<1>4. buffer_count \in Int /\ BufferSize \in Int
  BY SemDemoAssumption DEF SemInv, BaseInv, SemTypeOK
<1> QED
  BY <1>1, <1>3, <1>4

LEMMA ValuesInRange ==
    ASSUME SemInv, UnitsInv, NEW s \in Semaphores
    PROVE  value[s] \in 0..BufferSize
<1>1. /\ value[s] \in Int /\ value[s] >= 0 /\ Cardinality(Units(s)) \in Nat
      /\ value[s] + Cardinality(Units(s)) = Supply(s)
  BY UnitsAreFinite DEF SemInv, BaseInv, SemTypeOK, ValueInv, UnitsInv
<1>2. BufferSize \in Nat \ {0} /\ buffer_count \in 0..BufferSize
  BY SemDemoAssumption, CountInRange
<1>3. Supply(s) \in Int /\ Supply(s) <= BufferSize
  BY <1>2 DEF Supply
<1> QED
  BY <1>1, <1>2, <1>3

\* The shell's initialisations, from the values that the last call has left to
\* those of sem_init.
LEMMA StartKeepsPhase ==
    ASSUME SemInv, AnyDemo, CountInv, StartDemo, ~struck'
    PROVE  RestInv'
<1>1. PICK start \in 0..MaxThreads, last \in 0..MaxThreads : DemoInv(start, last)
  BY DEF AnyDemo
<1>2. /\ UNCHANGED <<pc, reg, unit, value, sem_done>> /\ buffer_count' = 0
      /\ shell = "prompt" /\ shell' = "clearDone"
  BY DEF StartDemo, ShellGoto, workerVars, semVars
<1>3. RegsInv'
  BY <1>2, StartAtRest DEF Resting, CountInv, RegsInv, RegsFit
<1>4. sem_done \in 0..Workers
  BY <1>1, <1>2, FinishedOfCall DEF DemoInv
<1>5. \A s \in Semaphores : value[s] \in 0..BufferSize
  BY ValuesInRange DEF CountInv
<1>6. Initialised' = {}
  BY <1>2 DEF Initialised, InitSteps
<1> QED
  BY <1>2, <1>3, <1>4, <1>5, <1>6 DEF RestInv

LEMMA InitsKeepPhase ==
    ASSUME SemInv, SemInv', Resting, RestInv, ClearDone \/ InitSemaphores
    PROVE  PhaseInv'
<1>1. /\ UNCHANGED <<pc, reg, unit, tstate, buffer_count>> /\ sem_done' \in {0, sem_done}
  BY DEF ClearDone, InitSemaphores, workerVars, bufferVars, semVars, schedVars, threadVars
<1>2. RegsInv' /\ buffer_count' = 0 /\ Resting'
  BY <1>1 DEF RestInv, RegsInv, RegsFit, Resting
<1>3. sem_done' \in 0..Workers
  BY <1>1, Bounds DEF RestInv
<1>4. value \in [Semaphores -> Int] /\ value' \in [Semaphores -> Int]
  BY DEF SemInv, BaseInv, SemTypeOK
<1>5. \A s \in Semaphores : Initially[s] \in 0..BufferSize
  <2>1. 0 \in 0..BufferSize /\ 1 \in 0..BufferSize /\ BufferSize \in 0..BufferSize
    BY SemDemoAssumption
  <2> QED
    BY <2>1 DEF Initially
<1>6. /\ \A s \in Semaphores : value'[s] \in {value[s], Initially[s]}
      /\ \A s \in Initialised : s \in Semaphores /\ value[s] = Initially[s]
  BY RestStepStep DEF RestStep, RestInv, Initialised
<1>7. \A s \in Semaphores : value'[s] \in 0..BufferSize
  BY <1>5, <1>6 DEF RestInv
<1>8. CASE shell' \in InitSteps
  <2>1. \A s \in Initialised' : s \in Initialised \/ value'[s] = Initially[s]
    <3>1. CASE ClearDone
      BY <3>1 DEF ClearDone, ShellGoto, Initialised, InitSteps
    <3>2. CASE SemInitCall("empty_sem", "emptyValue", "emptyHead", "emptyTail", "fullValue")
      BY <1>4, <3>2 DEF SemInitCall, ShellGoto, InitValue, Initialised, InitSteps, Semaphores
    <3>3. CASE SemInitCall("full_sem", "fullValue", "fullHead", "fullTail", "mutexValue")
      BY <1>4, <3>3 DEF SemInitCall, ShellGoto, InitValue, Initialised, InitSteps, Semaphores
    <3>4. CASE SemInitCall("buffer_mutex", "mutexValue", "mutexHead", "mutexTail", "create")
      BY <1>4, <1>8, <3>4
      DEF SemInitCall, ShellGoto, InitValue, Initialised, InitSteps, Semaphores
    <3> QED
      BY <3>1, <3>2, <3>3, <3>4 DEF InitSemaphores
  <2>2. \A s \in Initialised' : s \in Semaphores
    BY DEF Initialised
  <2>3. \A s \in Initialised' : value'[s] = Initially[s]
    BY <1>6, <2>1, <2>2
  <2> QED
    BY <1>2, <1>3, <1>7, <1>8, <2>3 DEF PhaseInv, RestInv, InitSteps
<1>9. CASE shell' \notin InitSteps
  <2>1. shell = "mutexTail"
    BY <1>9 DEF ClearDone, InitSemaphores, SemInitCall, ShellGoto, InitSteps
  <2>2. Initialised = Semaphores
    BY <2>1 DEF Initialised, InitSteps, Semaphores
  <2>3. \A s \in Semaphores : value'[s] = Initially[s]
    BY <1>6, <2>2
  <2>4. value' = Initially
    BY <1>4, <2>3, InitialValues
  <2>5. CallsFit'
    BY DEF SemInv, BaseInv
  <2> QED
    BY <1>2, <1>9, <2>4, <2>5, CountAtRest DEF PhaseInv, InitSteps
<1> QED
  BY <1>8, <1>9

LEMMA CreateKeepsCount ==
    ASSUME SemInv, CountInv, created \in Nat, CreateWorker
    PROVE  CountInv'
<1>1. UNCHANGED <<pc, call, reg, buffer_count, value, unit, next>>
  BY DEF CreateWorker, semVars, bufferVars, locals
<1>2. PICK t \in Threads :
         /\ tstate[t] = "UNUSED" /\ tstate' = [tstate EXCEPT ![t] = "READY"]
         /\ id' = [id EXCEPT ![t] = IF created < Producers THEN created + 1 ELSE 0]
  BY CreateWorkerStep
<1>3. /\ tstate \in [Threads -> ThreadStates] /\ id \in [Threads -> Nat] /\ pc[t] = "loop"
  BY <1>2 DEF SemInv, BaseInv, IInv, SchedulerTypeOK, SemTypeOK, StatesFit
<1>4. \A u \in Threads : /\ tstate'[u] = "BLOCKED" <=> tstate[u] = "BLOCKED"
                         /\ id'[u] = id[u] \/ pc[u] = "loop"
  BY <1>2, <1>3
<1> QED
  BY <1>1, <1>4, CountStays

LEMMA NextPhaseInv ==
    ASSUME SemInv, SemInv', AnyDemo, PhaseInv, [Next]_vars, ~struck'
    PROVE  PhaseInv'
<1>1. PICK start \in 0..MaxThreads, last \in 0..MaxThreads : DemoInv(start, last)
  BY DEF AnyDemo
<1>2. CASE StartDemo
  <2>1. shell = "prompt" /\ shell' = "clearDone"
    BY <1>2 DEF StartDemo, ShellGoto
  <2>2. CountInv
    BY <2>1 DEF PhaseInv, InitSteps
  <2> QED
    BY <1>2, <2>1, <2>2, StartKeepsPhase DEF PhaseInv, InitSteps
<1>3. CASE ClearDone \/ InitSemaphores
  <2>1. shell \in InitSteps
    BY <1>3 DEF ClearDone, InitSemaphores, SemInitCall, ShellGoto, InitSteps
  <2>2. RestInv /\ Resting
    BY <1>1, <2>1, InitAtRest DEF PhaseInv
  <2> QED
    BY <1>3, <2>2, InitsKeepPhase
<1>4. CASE CreateWorker
  <2>1. shell = "create" /\ shell' = "link"
    BY <1>4 DEF CreateWorker, ShellGoto
  <2>2. CountInv /\ created \in Nat
    BY <1>1, <2>1, Bounds DEF PhaseInv, InitSteps, DemoInv, ThreadsFit
  <2> QED
    BY <1>4, <2>1, <2>2, CreateKeepsCount DEF PhaseInv, InitSteps
<1>5. CASE \E t \in Threads : Worker(t)
  <2>1. PICK t \in Threads : Worker(t)
    BY <1>5
  <2>2. shell' = shell
    BY <2>1, WorkerEffect
  <2>3. CASE shell \in InitSteps
    <3>1. /\ UNCHANGED <<value, unit, reg, buffer_count, sem_done, shell>>
          /\ \A u \in Threads : pc'[u] = pc[u] \/ (pc[u] = "exit" /\ pc'[u] = "gone")
      BY <1>1, <2>1, <2>3, InitAtRest, IdleWorker
    <3>2. RestInv
      BY <2>3 DEF PhaseInv
    <3>3. RegsInv'
      BY <3>1, <3>2 DEF RestInv, RegsInv, RegsFit
    <3>4. Initialised' = Initialised
      BY <3>1 DEF Initialised, InitSteps
    <3> QED
      BY <2>3, <3>1, <3>2, <3>3, <3>4 DEF PhaseInv, RestInv, InitSteps
  <2>4. CASE shell \notin InitSteps
    BY <2>1, <2>2, <2>4, WorkerKeepsCount DEF PhaseInv, InitSteps
  <2> QED
    BY <2>3, <2>4
<1>6. CASE \/ BootStep \/ Tick \/ LinkWorker \/ CloseWorker \/ CreateFails
           \/ WaitForDone \/ WaitYield \/ Report \/ UNCHANGED vars
  <2>1. UNCHANGED <<value, unit, next, sem_done>>
    BY <1>6 DEF BootStep, Tick, LinkWorker, CloseWorker, CreateFails, WaitForDone, WaitYield,
       Report, vars, semVars, locals
  <2>2. /\ UNCHANGED <<pc, call, reg, buffer_count, id>>
        /\ \A u \in Threads : tstate'[u] = "BLOCKED" <=> tstate[u] = "BLOCKED"
    BY <1>1, <1>6, OthersKeepDemo
  <2>3. \/ shell' = shell
        \/ shell \notin InitSteps /\ shell' \notin InitSteps
    BY <1>6 DEF BootStep, Tick, LinkWorker, CloseWorker, CreateFails, WaitForDone, WaitYield,
       Report, vars, shellVars, ShellGoto, InitSteps
  <2>4. CASE shell \in InitSteps
    <3>1. RestInv /\ shell' = shell
      BY <2>3, <2>4 DEF PhaseInv
    <3>2. RegsInv'
      BY <2>1, <2>2, <3>1 DEF RestInv, RegsInv, RegsFit
    <3>3. Initialised' = Initialised
      BY <3>1 DEF Initialised, InitSteps
    <3> QED
      BY <2>1, <2>2, <2>4, <3>1, <3>2, <3>3 DEF PhaseInv, RestInv, InitSteps
  <2>5. CASE shell \notin InitSteps
    BY <2>1, <2>2, <2>3, <2>5, CountStays DEF PhaseInv, InitSteps
  <2> QED
    BY <2>4, <2>5
<1> QED
  BY <1>2, <1>3, <1>4, <1>5, <1>6 DEF Next, Shell

LEMMA InitPhaseInv ==
    ASSUME Init
    PROVE  PhaseInv
<1>1. /\ value = Initially /\ buffer_count = 0 /\ shell = "prompt"
      /\ pc = [t \in Threads |-> "loop"] /\ reg = [t \in Threads |-> 0]
      /\ unit = [t \in Threads |-> 0] /\ tstate = [t \in Threads |-> "UNUSED"]
  BY DEF Init, SchedulerInit, SemInit
<1>2. Resting /\ RegsInv
  BY <1>1 DEF Resting, RegsInv, RegsFit
<1> QED
  BY <1>1, <1>2, InitSemInv, CountAtRest DEF SemInv, BaseInv, PhaseInv, InitSteps

LEMMA CountInvariant == Spec => [](struck \/ (SemInv /\ AnyDemo /\ PhaseInv))
<1>1. Init => SemInv /\ AnyDemo /\ PhaseInv
  BY InitAnyDemo, InitPhaseInv
<1>2. (struck \/ (SemInv /\ AnyDemo /\ PhaseInv)) /\ [Next]_vars
         => (struck \/ (SemInv /\ AnyDemo /\ PhaseInv))'
  BY NextSemInv, NextAnyDemo, NextPhaseInv, StruckStays
<1> QED
  BY <1>1, <1>2, PTL DEF Spec

\* The thread at a cell has a unit of empty_sem, so there is a free cell.
LEMMA CellsAreInTheArray ==
    ASSUME SemInv, CountInv, NEW t \in Threads, pc[t] \in {"putItem", "takeItem"}
    PROVE  reg[t] \in 0..(BufferSize - 1)
<1>1. reg[t] = buffer_count /\ (pc[t] = "putItem" <=> IsProducer(t))
  BY DEF CountInv, RegsInv, RegsFit, SemInv, BaseInv, CallsFit, CallFits
<1>2. HasUnit(t, "empty_sem")
  BY <1>1 DEF HasUnit, Calls, HasFirst, HasLast, BeforeCount, BufferSteps
<1>3. Units("empty_sem") # {} /\ IsFiniteSet(Units("empty_sem"))
      /\ Cardinality(Units("empty_sem")) \in Nat
  BY <1>2, UnitsAreFinite DEF Units
<1>4. Cardinality(Units("empty_sem")) # 0
  BY <1>3, FS_EmptySet
<1>5. /\ value["empty_sem"] \in Int /\ value["empty_sem"] >= 0
      /\ value["empty_sem"] + Cardinality(Units("empty_sem")) = BufferSize - buffer_count
      /\ BufferSize \in Int
  BY SemDemoAssumption DEF SemInv, BaseInv, SemTypeOK, ValueInv, CountInv, UnitsInv, Supply,
     Semaphores
<1>6. buffer_count \in 0..BufferSize
  BY CountInRange DEF CountInv
<1> QED
  BY <1>1, <1>3, <1>4, <1>5, <1>6

LEMMA MutexProtects ==
    ASSUME SemInv, AnyDemo, PhaseInv
    PROVE  BufferIsProtected
<1>1. CASE shell \in InitSteps
  <2>1. Resting
    BY <1>1, InitAtRest DEF AnyDemo
  <2> QED
    BY <2>1 DEF Resting, BufferIsProtected, InBuffer
<1>2. CASE shell \notin InitSteps
  <2>1. CountInv
    BY <1>2 DEF PhaseInv
  <2>2. ASSUME NEW t \in Threads, InBuffer(t) PROVE HasMutex(t)
    <3>1. CallFits(t)
      BY DEF SemInv, BaseInv, CallsFit
    <3> QED
      BY <2>2, <3>1 DEF InBuffer, HasMutex, HasGot, Got, Keeps, BufferSteps
  <2> QED
    BY <2>1, <2>2, CellsAreInTheArray, OneHasMutex DEF BufferIsProtected, CountInv
<1> QED
  BY <1>1, <1>2

\* Until a window is hit, "buffer_mutex protects the shared buffer": one thread
\* at a time is between its sem_wait and its sem_signal, and the cell it uses is
\* one of the array.
THEOREM MutexProtectsBuffer == Spec => []BufferIsProtected
<1>1. struck \/ (SemInv /\ AnyDemo /\ PhaseInv) => BufferIsProtected
  BY MutexProtects DEF BufferIsProtected
<1> QED
  BY <1>1, CountInvariant, PTL

-----------------------------------------------------------------------------
(* The items: how far each thread is, and what the buffer holds.           *)

\* Where a step outside of the two semaphore functions leads.
LEMMA RoundGoesOn ==
    ASSUME SemInv, NEW t \in Threads, Worker(t), ~Wait(t), ~Signal(t)
    PROVE  /\ UNCHANGED id
           /\ \/ /\ Loop(t) /\ pc[t] = "loop" /\ i' = i /\ call[t] = 1 /\ call' = call
                 /\ pc'[t] = IF i[t] < Rounds(t) THEN "testValue" ELSE "loadDone"
              \/ /\ Return(t) /\ pc[t] = "return" /\ i' = i
                 /\ \/ call[t] = 1 /\ call'[t] = 2 /\ pc'[t] = "testValue"
                    \/ call[t] = 2 /\ call'[t] = 3
                       /\ pc'[t] = IF IsProducer(t) THEN "loadIndex" ELSE "loadCount"
                    \/ call[t] = 3 /\ call'[t] = 4 /\ pc'[t] = "testWaiter"
                    \/ call[t] = 4 /\ call'[t] = 1 /\ pc'[t] = "yield"
              \/ /\ LoadIndex(t) /\ pc[t] = "loadIndex" /\ i' = i /\ call[t] = 3 /\ call' = call
                 /\ pc'[t] = IF IsProducer(t) THEN "putItem" ELSE "takeItem"
              \/ /\ PutItem(t) /\ pc[t] = "putItem" /\ i' = i /\ call[t] = 3 /\ call' = call
                 /\ pc'[t] = "loadCount" /\ IsProducer(t)
              \/ /\ TakeItem(t) /\ pc[t] = "takeItem" /\ i' = i /\ call[t] = 3 /\ call' = call
                 /\ pc'[t] = "testWaiter" /\ ~IsProducer(t)
              \/ /\ LoadCount(t) /\ pc[t] = "loadCount" /\ i' = i /\ call[t] = 3 /\ call' = call
                 /\ pc'[t] = "storeCount"
              \/ /\ StoreCount(t) /\ pc[t] = "storeCount" /\ i' = i /\ call[t] = 3 /\ call' = call
                 /\ pc'[t] = IF IsProducer(t) THEN "testWaiter" ELSE "loadIndex"
              \/ /\ pc[t] = "yield" /\ pc'[t] = "loop" /\ i'[t] = i[t] + 1
                 /\ call[t] = 1 /\ call' = call
              \/ /\ pc[t] \in AfterRounds /\ pc'[t] \in AfterRounds /\ i' = i
                 /\ call[t] = 1 /\ call' = call
<1>1. /\ pc \in [Threads -> WorkerSteps] /\ call \in [Threads -> 1..4] /\ i \in [Threads -> Nat]
      /\ CallFits(t)
  BY DEF SemInv, BaseInv, SemTypeOK, CallsFit
<1>2. call[t] \in {1, 2, 3, 4}
  BY <1>1
<1>3. UNCHANGED id
  BY WorkerEffect
<1> USE DEF Goto, Executes, CallFits, OutOfCalls, BufferSteps, AfterRounds
<1>4. CASE Loop(t)
  BY <1>1, <1>3, <1>4 DEF Loop
<1>5. CASE Return(t)
  <2>1. /\ pc[t] = "return" /\ i' = i
        /\ call'[t] = (call[t] % 4) + 1
        /\ pc'[t] = <<"testValue", IF IsProducer(t) THEN "loadIndex" ELSE "loadCount",
                      "testWaiter", "yield">>[call[t]]
    BY <1>1, <1>5 DEF Return
  <2>2. 1 % 4 = 1 /\ 2 % 4 = 2 /\ 3 % 4 = 3 /\ 4 % 4 = 0
    OBVIOUS
  <2>3. \/ call[t] = 1 /\ call'[t] = 2 /\ pc'[t] = "testValue"
        \/ call[t] = 2 /\ call'[t] = 3
           /\ pc'[t] = IF IsProducer(t) THEN "loadIndex" ELSE "loadCount"
        \/ call[t] = 3 /\ call'[t] = 4 /\ pc'[t] = "testWaiter"
        \/ call[t] = 4 /\ call'[t] = 1 /\ pc'[t] = "yield"
    BY <1>2, <2>1, <2>2
  <2> QED
    BY <1>3, <1>5, <2>1, <2>3
<1>6. CASE LoadIndex(t)
  BY <1>1, <1>3, <1>6 DEF LoadIndex
<1>7. CASE PutItem(t)
  BY <1>1, <1>3, <1>7 DEF PutItem
<1>8. CASE TakeItem(t)
  BY <1>1, <1>3, <1>8 DEF TakeItem
<1>9. CASE LoadCount(t)
  BY <1>1, <1>3, <1>9 DEF LoadCount
<1>10. CASE StoreCount(t)
  BY <1>1, <1>3, <1>10 DEF StoreCount
<1>11. CASE RoundYield(t)
  BY <1>1, <1>3, <1>11 DEF RoundYield
<1>12. CASE LoadDone(t) \/ StoreDone(t) \/ Exit(t) \/ GoneYield(t)
  BY <1>1, <1>3, <1>12 DEF LoadDone, StoreDone, Exit, GoneYield, workerVars
<1> QED
  BY <1>4, <1>5, <1>6, <1>7, <1>8, <1>9, <1>10, <1>11, <1>12 DEF Worker

\* A thread that does not move makes no progress.
LEMMA OthersStayPut ==
    ASSUME NEW u \in Threads, pc'[u] = pc[u], i'[u] = i[u], call'[u] = call[u], id'[u] = id[u]
    PROVE  /\ Progress(u)' = Progress(u)
           /\ BetweenTheTwo(u)' <=> BetweenTheTwo(u)
           /\ Rounds(u)' = Rounds(u)
BY DEF Progress, PastBuffer, BetweenTheTwo, Rounds, IsProducer

\* Only at its buffer does a thread make progress.
LEMMA ProgressStays ==
    ASSUME SemInv, NEW t \in Threads, Worker(t)
    PROVE  /\ \A u \in Threads \ {t} : /\ Progress(u)' = Progress(u)
                                       /\ BetweenTheTwo(u)' <=> BetweenTheTwo(u)
                                       /\ Rounds(u)' = Rounds(u)
           /\ Rounds(t)' = Rounds(t)
           /\ PutItem(t) \/ TakeItem(t) => /\ ~PastBuffer(t) /\ PastBuffer(t)' /\ i' = i
                                           /\ BetweenTheTwo(t)' <=> PutItem(t)
                                           /\ BetweenTheTwo(t) <=> TakeItem(t)
           /\ ~PutItem(t) /\ ~TakeItem(t) =>
                 /\ Progress(t)' = Progress(t)
                 /\ ~StoreCount(t) => (BetweenTheTwo(t)' <=> BetweenTheTwo(t))
           /\ StoreCount(t) => (BetweenTheTwo(t) <=> IsProducer(t))
                               /\ (BetweenTheTwo(t)' <=> ~IsProducer(t))
<1>1. \A u \in Threads \ {t} :
         pc'[u] = pc[u] /\ i'[u] = i[u] /\ call'[u] = call[u] /\ id'[u] = id[u]
  BY WorkerEffect
<1>2. id' = id /\ (IsProducer(t)' <=> IsProducer(t)) /\ Rounds(t)' = Rounds(t)
  BY WorkerEffect DEF IsProducer, Rounds
<1>3. CallFits(t) /\ i \in [Threads -> Nat]
  BY DEF SemInv, BaseInv, CallsFit, SemTypeOK
<1> USE DEF Progress, PastBuffer, BetweenTheTwo
<1>4. CASE Wait(t) \/ Signal(t)
  <2>1. ~PutItem(t) /\ ~TakeItem(t) /\ ~StoreCount(t)
    BY <1>4, CallGoesOn DEF PutItem, TakeItem, StoreCount, Goto, Executes, WaitSteps,
       SignalSteps, EnqueueSteps, DequeueSteps
  <2>2. CASE Wait(t) /\ pc[t] \in WaitSteps /\ pc'[t] \in WaitSteps \cup {"return"}
    <3>1. call[t] \in {1, 2} /\ UNCHANGED <<i, call>>
      BY <1>3, <1>4, <2>2, CallGoesOn DEF CallFits
    <3>2. ~PastBuffer(t) /\ ~PastBuffer(t)' /\ ~BetweenTheTwo(t) /\ ~BetweenTheTwo(t)'
      BY <2>2, <3>1 DEF WaitSteps, EnqueueSteps
    <3> QED
      BY <1>1, <1>2, <2>1, <3>1, <3>2, OthersStayPut
  <2>3. CASE Signal(t) /\ pc[t] \in SignalSteps /\ pc'[t] \in SignalSteps \cup {"return"}
    <3>1. call[t] \in {3, 4} /\ UNCHANGED <<i, call>>
      BY <1>3, <1>4, <2>3, CallGoesOn DEF CallFits
    <3>2. PastBuffer(t) /\ PastBuffer(t)' /\ ~BetweenTheTwo(t) /\ ~BetweenTheTwo(t)'
      BY <2>3, <3>1 DEF SignalSteps, DequeueSteps
    <3> QED
      BY <1>1, <1>2, <2>1, <3>1, <3>2, OthersStayPut
  <2> QED
    BY <1>4, <2>2, <2>3, CallGoesOn
<1>5. CASE ~Wait(t) /\ ~Signal(t)
  <2>1. \A u \in Threads \ {t} : /\ Progress(u)' = Progress(u)
                                 /\ BetweenTheTwo(u)' <=> BetweenTheTwo(u)
                                 /\ Rounds(u)' = Rounds(u)
    BY <1>1, OthersStayPut
  <2>2. /\ PutItem(t) => pc[t] = "putItem"
        /\ TakeItem(t) => pc[t] = "takeItem"
        /\ StoreCount(t) => pc[t] = "storeCount"
    BY DEF PutItem, TakeItem, StoreCount, Goto, Executes
  <2> QED
    BY <1>2, <1>3, <1>5, <2>1, <2>2, RoundGoesOn
    DEF SignalSteps, DequeueSteps, AfterRounds
<1> QED
  BY <1>4, <1>5

\* No thread goes into more rounds than it has.
LEMMA WorkerKeepsRounds ==
    ASSUME SemInv, RoundsFit, NEW t \in Threads, Worker(t)
    PROVE  RoundsFit'
<1>1. ASSUME NEW u \in Threads, u # t
      PROVE  /\ i'[u] <= Rounds(u)'
             /\ pc'[u] \notin AfterRounds \cup {"loop"} => i'[u] < Rounds(u)'
             /\ pc'[u] \in AfterRounds => i'[u] = Rounds(u)'
             /\ tstate'[u] = "UNUSED" => i'[u] = 0
  <2>1. /\ pc'[u] = pc[u] /\ i'[u] = i[u] /\ Rounds(u)' = Rounds(u)
        /\ tstate'[u] = "UNUSED" <=> tstate[u] = "UNUSED"
    BY <1>1, WorkerEffect, ProgressStays
  <2> QED
    BY <2>1 DEF RoundsFit
<1>2. PICK r \in Nat : r = Rounds(t) /\ r = Rounds(t)'
  <2>1. Rounds(t) \in Nat
    BY SemDemoAssumption DEF Rounds
  <2> QED
    BY <2>1, ProgressStays
<1>3. PICK n \in Nat : n = i[t]
  BY DEF SemInv, BaseInv, SemTypeOK
<1>4. /\ n <= r
      /\ pc[t] \notin AfterRounds \cup {"loop"} => n < r
      /\ pc[t] \in AfterRounds => n = r
  BY <1>2, <1>3 DEF RoundsFit
<1>5. tstate'[t] # "UNUSED"
  BY WorkerEffect
<1>6. \/ pc[t] = "loop" /\ i'[t] = n /\ pc'[t] = IF n < r THEN "testValue" ELSE "loadDone"
      \/ pc[t] = "yield" /\ i'[t] = n + 1 /\ pc'[t] = "loop"
      \/ pc[t] \in AfterRounds /\ pc'[t] \in AfterRounds /\ i'[t] = n
      \/ pc[t] \notin AfterRounds \cup {"loop"} /\ pc'[t] \notin AfterRounds \cup {"loop"}
         /\ i'[t] = n
  <2>1. CASE Wait(t) \/ Signal(t)
    BY <1>3, <2>1, CallGoesOn DEF WaitSteps, EnqueueSteps, SignalSteps, DequeueSteps, AfterRounds
  <2>2. CASE ~Wait(t) /\ ~Signal(t)
    BY <1>2, <1>3, <2>2, RoundGoesOn DEF AfterRounds
  <2> QED
    BY <2>1, <2>2
<1>7. /\ i'[t] <= r
      /\ pc'[t] \notin AfterRounds \cup {"loop"} => i'[t] < r
      /\ pc'[t] \in AfterRounds => i'[t] = r
  BY <1>4, <1>6 DEF AfterRounds
<1> QED
  BY <1>1, <1>2, <1>5, <1>7 DEF RoundsFit

\* Whoever is at the buffer tells the level.
LEMMA LevelOf ==
    ASSUME SemInv, CountInv, NEW t \in Threads, Worker(t), pc[t] \in BufferSteps
    PROVE  /\ Level = IF BetweenTheTwo(t) THEN buffer_count + 1 ELSE buffer_count
           /\ Level' = IF BetweenTheTwo(t)' THEN buffer_count' + 1 ELSE buffer_count'
<1>1. \A u \in Threads : u # t => ~BetweenTheTwo(u)
  <2>1. HasMutex(t) /\ \A u \in Threads : BetweenTheTwo(u) => HasMutex(u)
    BY DEF BetweenTheTwo, HasMutex, BufferSteps
  <2> QED
    BY <2>1, OneHasMutex DEF CountInv
<1>2. \A u \in Threads : u # t => ~BetweenTheTwo(u)'
  BY <1>1, ProgressStays
<1> QED
  BY <1>1, <1>2 DEF Level

\* The level of the buffer changes only with its cells.
LEMMA LevelStays ==
    ASSUME SemInv, CountInv \/ Resting, NEW t \in Threads, Worker(t), ~PutItem(t), ~TakeItem(t)
    PROVE  Level' = Level /\ UNCHANGED <<buffer, consumed>>
<1>1. UNCHANGED <<buffer, consumed>> /\ (~StoreCount(t) => buffer_count' = buffer_count)
  BY DEF Worker, Loop, Wait, Signal, Return, LoadIndex, LoadCount, StoreCount, RoundYield,
     LoadDone, StoreDone, Exit, GoneYield, bufferVars
<1>2. CASE StoreCount(t)
  <2>1. CountInv /\ pc[t] = "storeCount" /\ reg[t] = buffer_count
        /\ buffer_count' = IF IsProducer(t) THEN reg[t] + 1 ELSE reg[t] - 1
    BY <1>2 DEF StoreCount, Goto, Executes, CountInv, RegsInv, RegsFit, Resting
  <2>2. /\ Level = IF BetweenTheTwo(t) THEN buffer_count + 1 ELSE buffer_count
        /\ Level' = IF BetweenTheTwo(t)' THEN buffer_count' + 1 ELSE buffer_count'
    BY <2>1, LevelOf DEF BufferSteps
  <2>3. (BetweenTheTwo(t) <=> IsProducer(t)) /\ (BetweenTheTwo(t)' <=> ~IsProducer(t))
    BY <1>2, ProgressStays
  <2>4. buffer_count \in Int
    BY DEF SemInv, BaseInv, SemTypeOK
  <2> QED
    BY <1>1, <2>1, <2>2, <2>3, <2>4
<1>3. CASE ~StoreCount(t)
  <2>1. \A u \in Threads : BetweenTheTwo(u)' <=> BetweenTheTwo(u)
    BY <1>3, ProgressStays
  <2> QED
    BY <1>1, <1>3, <2>1 DEF Level
<1> QED
  BY <1>2, <1>3

\* The items stay where they are.
LEMMA ContentStays ==
    ASSUME NEW start \in 0..MaxThreads, NEW last \in 0..MaxThreads, ContentInv(start, last),
           UNCHANGED <<buffer, consumed, id>>, Level' = Level, RoundsFit',
           \A u \in Threads : Progress(u)' = Progress(u),
           last = start + Workers => last \in Threads
    PROVE  ContentInv(start, last)'
<1>1. IdsFit(start, last)'
  BY DEF ContentInv, IdsFit
<1>2. \A item \in Items : IsInserted(start, item)' <=> IsInserted(start, item)
  BY DEF IsInserted
<1>3. PICK level \in 0..BufferSize : CellsFit(start, level)
  BY DEF ContentInv
<1>4. CellsFit(start, level)'
  BY <1>2, <1>3 DEF CellsFit
<1>5. ExtractedFits(start, last)'
  BY DEF ContentInv, ExtractedFits, Extracted
<1> QED
  BY <1>1, <1>3, <1>4, <1>5 DEF ContentInv

\* The thread at the buffer is one of this call.
LEMMA WhoIsAtWork ==
    ASSUME SemInv, NEW start \in 0..MaxThreads, NEW last \in 0..MaxThreads,
           DemoInv(start, last), ContentInv(start, last),
           NEW t \in Threads, ~Finished(t), tstate[t] # "UNUSED"
    PROVE  /\ start < t /\ t <= last
           /\ IsProducer(t) => id[t] = t - start /\ id[t] \in 1..Producers
           /\ ~IsProducer(t) => t = last /\ last = start + Workers
<1>1. start < t /\ t <= last
  BY Bounds DEF DemoInv, ThreadsFit
<1>2. id[t] \in 0..Producers /\ id[t] = IF t - start <= Producers THEN t - start ELSE 0
  BY <1>1 DEF ContentInv, IdsFit
<1>3. last <= start + Workers
  BY LastOfCall
<1> QED
  BY <1>1, <1>2, <1>3, Bounds DEF IsProducer

LEMMA PairsOfItems ==
    ASSUME NEW item \in Items
    PROVE  /\ item[1] \in 1..Producers /\ item[2] \in 0..(ItemsEach - 1)
           /\ item = <<item[1], item[2]>>
BY DEF Items

\* What the producer is about to put in has not been inserted.
LEMMA NewItem ==
    ASSUME SemInv, CountInv, NEW start \in 0..MaxThreads, NEW last \in 0..MaxThreads,
           DemoInv(start, last), ContentInv(start, last),
           NEW t \in Threads, Worker(t), PutItem(t)
    PROVE  \E new \in Items :
              /\ new = <<id[t], i[t]>>
              /\ ~IsInserted(start, new)
              /\ \A item \in Items :
                    IsInserted(start, item)' <=> IsInserted(start, item) \/ item = new
<1>1. /\ pc[t] = "putItem" /\ IsProducer(t) /\ UNCHANGED <<id, i>>
      /\ tstate[t] # "UNUSED" /\ ~Finished(t)
  BY WorkerEffect DEF PutItem, Goto, Executes, SemInv, BaseInv, CallsFit, CallFits, Finished
<1>2. start < t /\ t <= last /\ id[t] = t - start /\ id[t] \in 1..Producers
  BY <1>1, WhoIsAtWork
<1>3. i[t] \in Nat /\ i[t] < ItemsEach
  <2>1. i[t] < Rounds(t)
    BY <1>1 DEF ContentInv, RoundsFit, AfterRounds
  <2> QED
    BY <1>1, <2>1 DEF Rounds, SemInv, BaseInv, SemTypeOK
<1>4. PICK p \in 1..Producers, n \in 0..(ItemsEach - 1) : p = id[t] /\ n = i[t]
  BY <1>2, <1>3, SemDemoAssumption
<1>5. PICK new \in Items : new = <<p, n>>
  BY DEF Items
<1>6. new[1] = p /\ new[2] = n
  BY <1>5
<1>7. ASSUME NEW u \in Threads, u > start, id[u] = p PROVE u = t
  <2>1. id[u] = IF u <= last /\ u - start <= Producers THEN u - start ELSE 0
    BY <1>7 DEF ContentInv, IdsFit
  <2> QED
    BY <1>2, <1>4, <1>7, <2>1, Bounds
<1>8. Progress(t) = n /\ Progress(t)' = n + 1
  BY <1>1, <1>4, ProgressStays DEF Progress
<1>9. ~IsInserted(start, new)
  BY <1>6, <1>7, <1>8 DEF IsInserted
<1>10. ASSUME NEW item \in Items
       PROVE  IsInserted(start, item)' <=> IsInserted(start, item) \/ item = new
  <2>1. PICK q \in 1..Producers, k \in 0..(ItemsEach - 1) :
           q = item[1] /\ k = item[2] /\ (item = new <=> q = p /\ k = n)
    BY <1>5, PairsOfItems
  <2>2. \A u \in Threads : u # t => Progress(u)' = Progress(u)
    BY ProgressStays
  <2>3. IsInserted(start, item) <=> \E u \in Threads : u > start /\ id[u] = q /\ k < Progress(u)
    BY <2>1 DEF IsInserted
  <2>4. IsInserted(start, item)' <=> \E u \in Threads : u > start /\ id[u] = q /\ k < Progress(u)'
    BY <1>1, <2>1 DEF IsInserted
  <2>5. k < n + 1 <=> k < n \/ k = n
    BY SemDemoAssumption
  <2>6. ASSUME IsInserted(start, item)' PROVE IsInserted(start, item) \/ item = new
    <3>1. PICK u \in Threads : u > start /\ id[u] = q /\ k < Progress(u)'
      BY <2>4, <2>6
    <3>2. CASE u = t
      BY <1>4, <1>8, <2>1, <2>3, <2>5, <3>1, <3>2
    <3>3. CASE u # t
      BY <2>2, <2>3, <3>1, <3>3
    <3> QED
      BY <3>2, <3>3
  <2>7. ASSUME IsInserted(start, item) PROVE IsInserted(start, item)'
    <3>1. PICK u \in Threads : u > start /\ id[u] = q /\ k < Progress(u)
      BY <2>3, <2>7
    <3>2. k < Progress(u)'
      BY <1>8, <2>2, <2>5, <3>1
    <3> QED
      BY <2>4, <3>1, <3>2
  <2>8. ASSUME item = new PROVE IsInserted(start, item)'
    BY <1>2, <1>4, <1>8, <2>1, <2>4, <2>5, <2>8
  <2> QED
    BY <2>6, <2>7, <2>8
<1> QED
  BY <1>4, <1>5, <1>9, <1>10

\* The consumer is the last thread that the call creates.
LEMMA ConsumerIsLast ==
    ASSUME NEW start \in 0..MaxThreads, NEW last \in 0..MaxThreads, ContentInv(start, last),
           last = start + Workers
    PROVE  last \in Threads /\ ~IsProducer(last)
<1>1. last \in Threads /\ last > start /\ ~(last - start <= Producers)
  BY Bounds
<1> QED
  BY <1>1 DEF ContentInv, IdsFit, IsProducer

\* The producer stores its item above the others, and has inserted it.
LEMMA PutItemKeepsContent ==
    ASSUME SemInv, CountInv, NEW start \in 0..MaxThreads, NEW last \in 0..MaxThreads,
           DemoInv(start, last), ContentInv(start, last),
           NEW t \in Threads, Worker(t), PutItem(t)
    PROVE  ContentInv(start, last)'
<1>1. /\ pc[t] = "putItem" /\ IsProducer(t) /\ UNCHANGED <<buffer_count, consumed, id>>
      /\ buffer' = [k \in DOMAIN buffer |-> IF k = reg[t] THEN <<id[t], i[t]>> ELSE buffer[k]]
  BY DEF PutItem, Goto, Executes, SemInv, BaseInv, CallsFit, CallFits
<1>2. PICK new \in Items :
         /\ new = <<id[t], i[t]>> /\ ~IsInserted(start, new)
         /\ \A item \in Items : IsInserted(start, item)' <=> IsInserted(start, item) \/ item = new
  BY NewItem
<1>3. PICK c \in 0..BufferSize : c = buffer_count /\ c = reg[t]
  BY <1>1, CountInRange DEF CountInv, RegsInv, RegsFit
<1>4. c < BufferSize
  BY <1>1, <1>3, CellsAreInTheArray, SemDemoAssumption
<1>5. Level = c /\ Level' = c + 1
  <2>1. pc[t] \in BufferSteps
    BY <1>1 DEF BufferSteps
  <2>2. PutItem(t) /\ ~TakeItem(t)
    BY <1>1 DEF TakeItem, Goto, Executes
  <2> QED
    BY <1>1, <1>3, <2>1, <2>2, LevelOf, ProgressStays
<1>6. CellsFit(start, c)
  BY <1>5 DEF ContentInv, CellsFit
<1>7. /\ buffer \in [0..(BufferSize - 1) -> Items \cup {Garbage}]
      /\ buffer' = [buffer EXCEPT ![c] = new]
      /\ c \in 0..(BufferSize - 1) /\ c + 1 \in 0..BufferSize /\ BufferSize \in Int
  <2>1. BufferSize \in Nat \ {0}
    BY SemDemoAssumption
  <2>2. c \in 0..(BufferSize - 1) /\ c + 1 \in 0..BufferSize /\ BufferSize \in Int
    BY <1>4, <2>1
  <2>3. buffer \in [0..(BufferSize - 1) -> Items \cup {Garbage}]
    BY <1>6, Zenon DEF CellsFit
  <2>4. buffer' = [buffer EXCEPT ![c] = new]
    BY <1>1, <1>2, <1>3, <2>2, <2>3
  <2> QED
    BY <2>2, <2>3, <2>4
<1>8. consumed[new] = 0
  BY <1>2, <1>6 DEF CellsFit
<1>9. buffer'[c] = new /\ \A k \in 0..(c - 1) : buffer'[k] = buffer[k] /\ buffer[k] # new
  <2>1. \A k \in 0..(c - 1) : k # c /\ k \in 0..(BufferSize - 1)
    BY <1>7
  <2>2. \A k \in 0..(c - 1) : buffer[k] # new
    BY <1>2, <1>6 DEF CellsFit
  <2> QED
    BY <1>7, <2>1, <2>2
<1>10. \A k \in 0..((c + 1) - 1) : k = c \/ k \in 0..(c - 1)
  BY <1>7
<1>11. CellsFit(start, c + 1)'
  <2>1. ASSUME NEW k \in 0..((c + 1) - 1)
        PROVE  \E item \in Items : buffer'[k] = item /\ IsInserted(start, item)' /\ consumed'[item] = 0
    <3>1. CASE k = c
      BY <1>1, <1>2, <1>8, <1>9, <3>1
    <3>2. CASE k \in 0..(c - 1)
      <4>1. PICK item \in Items : buffer[k] = item /\ IsInserted(start, item) /\ consumed[item] = 0
        BY <1>6, <3>2 DEF CellsFit
      <4> QED
        BY <1>1, <1>2, <1>9, <3>2, <4>1
    <3> QED
      BY <1>10, <3>1, <3>2
  <2>2. \A k, j \in 0..((c + 1) - 1) : buffer'[k] = buffer'[j] => k = j
    <3>1. \A k, j \in 0..(c - 1) : buffer[k] = buffer[j] => k = j
      BY <1>6 DEF CellsFit
    <3> QED
      BY <1>9, <1>10, <3>1
  <2>3. ASSUME NEW item \in Items
        PROVE  /\ consumed'[item] \in {0, 1}
               /\ consumed'[item] = 1 => IsInserted(start, item)'
               /\ IsInserted(start, item)' /\ consumed'[item] = 0 =>
                     \E k \in 0..((c + 1) - 1) : buffer'[k] = item
    <3>1. /\ consumed[item] \in {0, 1}
          /\ consumed[item] = 1 => IsInserted(start, item)
          /\ IsInserted(start, item) /\ consumed[item] = 0 =>
                \E k \in 0..(c - 1) : buffer[k] = item
      BY <1>6 DEF CellsFit
    <3>2. c \in 0..((c + 1) - 1) /\ \A k \in 0..(c - 1) : k \in 0..((c + 1) - 1)
      BY <1>7
    <3> QED
      BY <1>1, <1>2, <1>9, <3>1, <3>2
  <2>4. /\ consumed' \in [Items -> Nat]
        /\ buffer' \in [0..(BufferSize - 1) -> Items \cup {Garbage}]
    <3>1. consumed \in [Items -> Nat]
      BY <1>6, Zenon DEF CellsFit
    <3> QED
      BY <1>1, <1>7, <3>1
  <2> QED
    BY <1>5, <2>1, <2>2, <2>3, <2>4 DEF CellsFit
<1>12. IdsFit(start, last)' /\ RoundsFit'
  BY <1>1, WorkerKeepsRounds DEF ContentInv, IdsFit
<1>13. ExtractedFits(start, last)'
  <2>1. last = start + Workers => last \in Threads /\ last # t
    BY <1>1, ConsumerIsLast
  <2>2. last = start + Workers => Progress(last)' = Progress(last)
    BY <2>1, ProgressStays
  <2>3. Extracted' = Extracted
    BY <1>1 DEF Extracted
  <2> QED
    BY <2>2, <2>3 DEF ContentInv, ExtractedFits
<1> QED
  BY <1>7, <1>11, <1>12, <1>13 DEF ContentInv

LEMMA ItemsAreFinite ==
    /\ IsFiniteSet(Items) /\ Cardinality(Items) = Producers * ItemsEach
    /\ IsFiniteSet(Extracted) /\ Cardinality(Extracted) \in Nat /\ Extracted \subseteq Items
<1>1. /\ 1 \in Int /\ Producers \in Int /\ 0 \in Int /\ ItemsEach - 1 \in Int
      /\ Producers \in Nat \ {0} /\ ItemsEach \in Nat \ {0}
  BY SemDemoAssumption
<1>2. \A a, b \in Int : /\ IsFiniteSet(a..b)
                        /\ Cardinality(a..b) = IF a > b THEN 0 ELSE b - a + 1
  BY FS_Interval
<1>3. IsFiniteSet(1..Producers) /\ Cardinality(1..Producers) = Producers
  BY <1>1, <1>2
<1>4. IsFiniteSet(0..(ItemsEach - 1)) /\ Cardinality(0..(ItemsEach - 1)) = ItemsEach
  BY <1>1, <1>2
<1>5. IsFiniteSet(Items) /\ Cardinality(Items) = Producers * ItemsEach
  BY <1>3, <1>4, FS_Product DEF Items
<1>6. Extracted \subseteq Items
  BY DEF Extracted
<1> QED
  BY <1>5, <1>6, FS_Subset, FS_CardinalityType

\* The consumer takes the item of the highest cell, and counts it.
LEMMA TakeItemKeepsContent ==
    ASSUME SemInv, CountInv, NEW start \in 0..MaxThreads, NEW last \in 0..MaxThreads,
           DemoInv(start, last), ContentInv(start, last),
           NEW t \in Threads, Worker(t), TakeItem(t)
    PROVE  ContentInv(start, last)'
<1>1. /\ pc[t] = "takeItem" /\ ~IsProducer(t) /\ UNCHANGED <<buffer, buffer_count, id, i>>
      /\ consumed' = [item \in Items |-> IF reg[t] \in DOMAIN buffer /\ item = buffer[reg[t]]
                                         THEN consumed[item] + 1 ELSE consumed[item]]
      /\ tstate[t] # "UNUSED" /\ ~Finished(t)
  BY WorkerEffect DEF TakeItem, Goto, Executes, SemInv, BaseInv, CallsFit, CallFits, Finished
<1>2. t = last /\ last = start + Workers
  BY <1>1, WhoIsAtWork
<1>3. PICK c \in 0..BufferSize : c = buffer_count /\ c = reg[t]
  BY <1>1, CountInRange DEF CountInv, RegsInv, RegsFit
<1>4. c < BufferSize /\ c \in 0..(BufferSize - 1) /\ BufferSize \in Int
  <2>1. c < BufferSize
    BY <1>1, <1>3, CellsAreInTheArray, SemDemoAssumption
  <2> QED
    BY <2>1, SemDemoAssumption
<1>5. Level = c + 1 /\ Level' = c
  <2>1. pc[t] \in BufferSteps
    BY <1>1 DEF BufferSteps
  <2>2. TakeItem(t) /\ ~PutItem(t)
    BY <1>1 DEF PutItem, Goto, Executes
  <2> QED
    BY <1>1, <1>3, <2>1, <2>2, LevelOf, ProgressStays
<1>6. CellsFit(start, c + 1)
  BY <1>5 DEF ContentInv, CellsFit
<1>7. c \in 0..((c + 1) - 1) /\ \A k \in 0..(c - 1) : k \in 0..((c + 1) - 1) /\ k # c
  BY <1>4
<1>8. PICK old \in Items : buffer[c] = old /\ IsInserted(start, old) /\ consumed[old] = 0
  BY <1>6, <1>7 DEF CellsFit
<1>9. /\ buffer \in [0..(BufferSize - 1) -> Items \cup {Garbage}]
      /\ consumed \in [Items -> Nat]
  BY <1>6, Zenon DEF CellsFit
<1>10. \A item \in Items : consumed'[item] = IF item = old THEN 1 ELSE consumed[item]
  <2>1. c \in DOMAIN buffer
    BY <1>4, <1>9
  <2>2. \A item \in Items : consumed'[item] = IF item = old THEN consumed[item] + 1 ELSE consumed[item]
    BY <1>1, <1>3, <1>8, <2>1
  <2> QED
    BY <1>8, <2>2
<1>11. consumed' \in [Items -> Nat]
  BY <1>1, <1>9
<1>12. \A item \in Items : IsInserted(start, item)' <=> IsInserted(start, item)
  <2> SUFFICES ASSUME NEW item \in Items
               PROVE  IsInserted(start, item)' <=> IsInserted(start, item)
    OBVIOUS
  <2>1. id[t] = 0 /\ item[1] # 0
    BY <1>1, PairsOfItems DEF IsProducer
  <2>2. \A u \in Threads : u # t => Progress(u)' = Progress(u)
    BY ProgressStays
  <2> QED
    BY <1>1, <2>1, <2>2 DEF IsInserted
<1>13. CellsFit(start, c)'
  <2>1. ASSUME NEW k \in 0..(c - 1)
        PROVE  \E item \in Items : buffer'[k] = item /\ IsInserted(start, item)' /\ consumed'[item] = 0
    <3>1. PICK item \in Items : buffer[k] = item /\ IsInserted(start, item) /\ consumed[item] = 0
      BY <1>6, <1>7 DEF CellsFit
    <3>2. item # old
      BY <1>6, <1>7, <1>8, <3>1 DEF CellsFit
    <3> QED
      BY <1>1, <1>10, <1>12, <3>1, <3>2
  <2>2. \A k, j \in 0..(c - 1) : buffer'[k] = buffer'[j] => k = j
    <3>1. \A k, j \in 0..((c + 1) - 1) : buffer[k] = buffer[j] => k = j
      BY <1>6 DEF CellsFit
    <3> QED
      BY <1>1, <1>7, <3>1
  <2>3. ASSUME NEW item \in Items
        PROVE  /\ consumed'[item] \in {0, 1}
               /\ consumed'[item] = 1 => IsInserted(start, item)'
               /\ IsInserted(start, item)' /\ consumed'[item] = 0 =>
                     \E k \in 0..(c - 1) : buffer'[k] = item
    <3>1. /\ consumed[item] \in {0, 1}
          /\ consumed[item] = 1 => IsInserted(start, item)
          /\ IsInserted(start, item) /\ consumed[item] = 0 =>
                \E k \in 0..((c + 1) - 1) : buffer[k] = item
      BY <1>6 DEF CellsFit
    <3>2. \A k \in 0..((c + 1) - 1) : k = c \/ k \in 0..(c - 1)
      BY <1>4
    <3> QED
      BY <1>1, <1>8, <1>10, <1>12, <3>1, <3>2
  <2> QED
    BY <1>1, <1>5, <1>9, <1>11, <2>1, <2>2, <2>3 DEF CellsFit
<1>14. IdsFit(start, last)' /\ RoundsFit'
  BY <1>1, WorkerKeepsRounds DEF ContentInv, IdsFit
<1>15. ExtractedFits(start, last)'
  <2>1. Extracted' = Extracted \cup {old} /\ old \notin Extracted
    BY <1>8, <1>10 DEF Extracted
  <2>2. Cardinality(Extracted') = Cardinality(Extracted) + 1
    BY <2>1, ItemsAreFinite, FS_AddElement
  <2>3. Progress(t)' = Progress(t) + 1
    BY <1>1, ProgressStays DEF Progress
  <2>4. Cardinality(Extracted) = Progress(t)
    BY <1>2 DEF ContentInv, ExtractedFits
  <2> QED
    BY <1>2, <2>2, <2>3, <2>4 DEF ExtractedFits
<1> QED
  BY <1>3, <1>13, <1>14, <1>15 DEF ContentInv

LEMMA WorkerKeepsContent ==
    ASSUME SemInv, CountInv \/ Resting, NEW start \in 0..MaxThreads, NEW last \in 0..MaxThreads,
           DemoInv(start, last), ContentInv(start, last), NEW t \in Threads, Worker(t)
    PROVE  ContentInv(start, last)'
<1>1. CASE ~PutItem(t) /\ ~TakeItem(t)
  <2>1. Level' = Level /\ UNCHANGED <<buffer, consumed, id>>
    BY <1>1, LevelStays, WorkerEffect
  <2>2. \A u \in Threads : Progress(u)' = Progress(u)
    BY <1>1, ProgressStays
  <2>3. RoundsFit'
    BY WorkerKeepsRounds DEF ContentInv
  <2>4. last = start + Workers => last \in Threads
    BY ConsumerIsLast
  <2> QED
    BY <2>1, <2>2, <2>3, <2>4, ContentStays
<1>2. CASE PutItem(t) \/ TakeItem(t)
  <2>1. CountInv
    BY <1>2 DEF PutItem, TakeItem, Goto, Executes, Resting
  <2> QED
    BY <1>2, <2>1, PutItemKeepsContent, TakeItemKeepsContent
<1> QED
  BY <1>1, <1>2

\* A thread that has just been created has inserted nothing.
LEMMA CreateKeepsContent ==
    ASSUME SemInv, NEW start \in 0..MaxThreads, NEW last \in 0..MaxThreads,
           NEW more \in 0..MaxThreads, more = last + 1,
           DemoInv(start, last), ContentInv(start, last), CreateWorker
    PROVE  ContentInv(start, more)'
<1>1. UNCHANGED <<pc, i, call, bufferVars, buffer, buffer_count, consumed>>
  BY DEF CreateWorker, bufferVars
<1>2. /\ more \in Threads /\ created = last - start
      /\ id' = [id EXCEPT ![more] = IF created < Producers THEN created + 1 ELSE 0]
      /\ \A u \in Threads : u # more => (tstate'[u] = "UNUSED" <=> tstate[u] = "UNUSED")
      /\ tstate[more] = "UNUSED"
  BY CreateKeepsDemo
<1>3. /\ pc[more] = "loop" /\ call[more] = 1 /\ i[more] = 0
      /\ id \in [Threads -> Nat]
  BY <1>2 DEF SemInv, BaseInv, StatesFit, CallsFit, CallFits, OutOfCalls, SemTypeOK,
     ContentInv, RoundsFit
<1>4. /\ Progress(more) = 0 /\ Progress(more)' = 0
      /\ ~BetweenTheTwo(more) /\ ~BetweenTheTwo(more)'
  BY <1>1, <1>3 DEF Progress, PastBuffer, BetweenTheTwo, SignalSteps, DequeueSteps
<1>5. \A u \in Threads : u # more => /\ Progress(u)' = Progress(u)
                                     /\ BetweenTheTwo(u)' <=> BetweenTheTwo(u)
                                     /\ Rounds(u)' = Rounds(u)
                                     /\ id'[u] = id[u]
  BY <1>1, <1>2, <1>3, OthersStayPut
<1>6. created \in Nat /\ created < Workers
  BY Bounds DEF CreateWorker, ShellGoto, DemoInv, ThreadsFit, ShellFits
<1>7. IdsFit(start, more)'
  <2>1. ASSUME NEW u \in Threads
        PROVE  /\ id'[u] \in 0..Producers
               /\ u > start => id'[u] = IF u <= more /\ u - start <= Producers THEN u - start ELSE 0
    <3>1. CASE u = more
      <4>1. id'[u] = IF created < Producers THEN created + 1 ELSE 0
        BY <1>2, <1>3, <3>1
      <4> QED
        BY <1>2, <1>6, <3>1, <4>1, Bounds
    <3>2. CASE u # more
      <4>1. /\ id[u] \in 0..Producers
            /\ u > start => id[u] = IF u <= last /\ u - start <= Producers THEN u - start ELSE 0
        BY DEF ContentInv, IdsFit
      <4>2. u <= last <=> u <= more
        BY <3>2, Bounds
      <4> QED
        BY <1>5, <3>2, <4>1, <4>2
    <3> QED
      BY <3>1, <3>2
  <2> QED
    BY <2>1 DEF IdsFit
<1>8. RoundsFit'
  <2>1. ASSUME NEW u \in Threads
        PROVE  /\ i'[u] <= Rounds(u)'
               /\ pc'[u] \notin AfterRounds \cup {"loop"} => i'[u] < Rounds(u)'
               /\ pc'[u] \in AfterRounds => i'[u] = Rounds(u)'
               /\ tstate'[u] = "UNUSED" => i'[u] = 0
    <3>1. CASE u = more
      <4>1. Rounds(u)' \in Nat
        BY SemDemoAssumption DEF Rounds
      <4> QED
        BY <1>1, <1>3, <3>1, <4>1 DEF AfterRounds
    <3>2. CASE u # more
      <4>1. Rounds(u)' = Rounds(u) /\ (tstate'[u] = "UNUSED" <=> tstate[u] = "UNUSED")
        BY <1>2, <1>5, <3>2
      <4> QED
        BY <1>1, <4>1 DEF ContentInv, RoundsFit
    <3> QED
      BY <3>1, <3>2
  <2> QED
    BY <2>1 DEF RoundsFit
<1>9. Level' = Level
  <2>1. \A u \in Threads : BetweenTheTwo(u)' <=> BetweenTheTwo(u)
    BY <1>4, <1>5
  <2> QED
    BY <1>1, <2>1 DEF Level
<1>10. \A item \in Items : IsInserted(start, item)' <=> IsInserted(start, item)
  <2> SUFFICES ASSUME NEW item \in Items
               PROVE  IsInserted(start, item)' <=> IsInserted(start, item)
    OBVIOUS
  <2>1. ~(item[2] < 0)
    BY PairsOfItems, SemDemoAssumption
  <2> QED
    BY <1>4, <1>5, <2>1 DEF IsInserted
<1>11. PICK level \in 0..BufferSize : CellsFit(start, level)
  BY DEF ContentInv
<1>12. CellsFit(start, level)'
  BY <1>1, <1>9, <1>10, <1>11 DEF CellsFit
<1>13. ExtractedFits(start, more)'
  <2>1. Cardinality(Extracted) = 0
    <3>1. last # start + Workers
      BY <1>2, <1>6, Bounds
    <3> QED
      BY <3>1 DEF ContentInv, ExtractedFits
  <2>2. Extracted' = Extracted
    BY <1>1 DEF Extracted
  <2> QED
    BY <1>4, <2>1, <2>2 DEF ExtractedFits
<1> QED
  BY <1>7, <1>8, <1>12, <1>13 DEF ContentInv

\* A new call starts with nothing inserted: no thread after the last has run.
Fresh(last) ==
    /\ IdsFit(last, last)
    /\ RoundsFit
    /\ \A t \in Threads : pc[t] \in {"loop", "exit", "gone"}
    /\ buffer_count = 0
    /\ consumed = [item \in Items |-> 0]
    /\ buffer \in [0..(BufferSize - 1) -> Items \cup {Garbage}]

LEMMA NothingInserted ==
    \A last \in 0..MaxThreads : /\ Fresh(last) => ContentInv(last, last)
                                /\ Fresh(last)' => ContentInv(last, last)'
<1> SUFFICES ASSUME NEW last \in 0..MaxThreads
             PROVE  /\ Fresh(last) => ContentInv(last, last)
                    /\ Fresh(last)' => ContentInv(last, last)'
  OBVIOUS
<1>1. /\ 0 \in 0..BufferSize /\ 0..(0 - 1) = {}
      /\ Cardinality({}) = 0
      /\ last # last + Workers /\ Threads \subseteq Int
  BY SemDemoAssumption, Bounds, FS_EmptySet
<1>2. \A item \in Items : item[1] # 0
  BY PairsOfItems
<1>3. ASSUME Fresh(last) PROVE ContentInv(last, last)
  <2>1. \A t \in Threads : t > last => id[t] = 0
    BY <1>1, <1>3 DEF Fresh, IdsFit
  <2>2. \A item \in Items : ~IsInserted(last, item)
    BY <1>2, <2>1 DEF IsInserted
  <2>3. Level = 0
    BY <1>3 DEF Fresh, Level, BetweenTheTwo
  <2>4. \A item \in Items : consumed[item] = 0
    BY <1>3 DEF Fresh
  <2>5. Extracted = {} /\ consumed \in [Items -> Nat]
    BY <1>3, <2>4 DEF Fresh, Extracted
  <2>6. CellsFit(last, 0)
    BY <1>1, <1>3, <2>2, <2>3, <2>4, <2>5 DEF Fresh, CellsFit
  <2>7. ExtractedFits(last, last)
    BY <1>1, <2>5 DEF ExtractedFits
  <2> QED
    BY <1>1, <1>3, <2>6, <2>7 DEF Fresh, ContentInv
<1>4. ASSUME Fresh(last)' PROVE ContentInv(last, last)'
  <2>1. \A t \in Threads : t > last => id'[t] = 0
    BY <1>1, <1>4 DEF Fresh, IdsFit
  <2>2. \A item \in Items : ~IsInserted(last, item)'
    BY <1>2, <2>1 DEF IsInserted
  <2>3. Level' = 0
    BY <1>4 DEF Fresh, Level, BetweenTheTwo
  <2>4. \A item \in Items : consumed'[item] = 0
    BY <1>4 DEF Fresh
  <2>5. Extracted' = {} /\ consumed' \in [Items -> Nat]
    BY <1>4, <2>4 DEF Fresh, Extracted
  <2>6. CellsFit(last, 0)'
    BY <1>1, <1>4, <2>2, <2>3, <2>4, <2>5 DEF Fresh, CellsFit
  <2>7. ExtractedFits(last, last)'
    BY <1>1, <2>5 DEF ExtractedFits
  <2> QED
    BY <1>1, <1>4, <2>6, <2>7 DEF Fresh, ContentInv
<1> QED
  BY <1>3, <1>4

LEMMA StartKeepsContent ==
    ASSUME SemInv, NEW start \in 0..MaxThreads, NEW last \in 0..MaxThreads,
           DemoInv(start, last), ContentInv(start, last), StartDemo, Resting
    PROVE  ContentInv(last, last)'
<1>1. /\ UNCHANGED <<buffer, id, i, pc, tstate>>
      /\ buffer_count' = 0 /\ consumed' = [item \in Items |-> 0]
      /\ \A t \in Threads : pc'[t] \in {"loop", "exit", "gone"}
  BY DEF StartDemo, workerVars, schedVars, threadVars, Resting
<1>2. RoundsFit'
  BY <1>1 DEF ContentInv, RoundsFit, Rounds, IsProducer
<1>3. IdsFit(last, last)'
  <2>1. start <= last
    BY DEF DemoInv, ThreadsFit
  <2>2. ASSUME NEW t \in Threads
        PROVE  /\ id'[t] \in 0..Producers
               /\ t > last => id'[t] = IF t <= last /\ t - last <= Producers THEN t - last ELSE 0
    <3>1. /\ id[t] \in 0..Producers
          /\ t > start => id[t] = IF t <= last /\ t - start <= Producers THEN t - start ELSE 0
      BY DEF ContentInv, IdsFit
    <3> QED
      BY <1>1, <2>1, <3>1, Bounds
  <2> QED
    BY <2>2 DEF IdsFit
<1>4. buffer' \in [0..(BufferSize - 1) -> Items \cup {Garbage}]
  <2>1. buffer \in [0..(BufferSize - 1) -> Items \cup {Garbage}]
    BY DEF ContentInv, CellsFit
  <2> QED
    BY <1>1, <2>1
<1> QED
  BY <1>1, <1>2, <1>3, <1>4, NothingInserted DEF Fresh

LEMMA InitContentInv ==
    ASSUME Init
    PROVE  ContentInv(0, 0)
<1>1. /\ pc = [t \in Threads |-> "loop"] /\ id = [t \in Threads |-> 0]
      /\ i = [t \in Threads |-> 0] /\ buffer_count = 0 /\ consumed = [item \in Items |-> 0]
      /\ buffer = [k \in 0..(BufferSize - 1) |-> Garbage]
  BY DEF Init
<1>2. 0 \in 0..MaxThreads /\ 0 \in 0..Producers
  BY Bounds
<1>3. \A t \in Threads : Rounds(t) \in Nat
  BY SemDemoAssumption DEF Rounds
<1>4. RoundsFit
  BY <1>1, <1>3 DEF RoundsFit, AfterRounds
<1>5. IdsFit(0, 0)
  BY <1>1, <1>2, Bounds DEF IdsFit
<1> QED
  BY <1>1, <1>2, <1>4, <1>5, NothingInserted DEF Fresh

LEMMA OthersKeepContent ==
    ASSUME SemInv, NEW start \in 0..MaxThreads, NEW last \in 0..MaxThreads,
           DemoInv(start, last), ContentInv(start, last),
           \/ BootStep \/ Tick \/ LinkWorker \/ CloseWorker \/ CreateFails
           \/ WaitForDone \/ WaitYield \/ Report \/ UNCHANGED vars
           \/ ClearDone \/ InitSemaphores
    PROVE  ContentInv(start, last)'
<1>1. /\ UNCHANGED <<buffer, consumed, buffer_count, pc, id, i, call>>
      /\ \A u \in Threads : tstate'[u] = "UNUSED" <=> tstate[u] = "UNUSED"
  BY OthersKeepDemo DEF bufferVars
<1>2. \A u \in Threads : /\ Progress(u)' = Progress(u)
                         /\ BetweenTheTwo(u)' <=> BetweenTheTwo(u)
                         /\ Rounds(u)' = Rounds(u)
  BY <1>1, OthersStayPut
<1>3. Level' = Level
  BY <1>1, <1>2 DEF Level
<1>4. RoundsFit'
  BY <1>1, <1>2 DEF ContentInv, RoundsFit
<1>5. last = start + Workers => last \in Threads
  BY ConsumerIsLast
<1> QED
  BY <1>1, <1>2, <1>3, <1>4, <1>5, ContentStays

-----------------------------------------------------------------------------
(* The whole invariant, and the theorems about the items.                  *)

SomeDemo == \E start, last \in 0..MaxThreads : DemoInv(start, last) /\ ContentInv(start, last)
WholeInv == SemInv /\ PhaseInv /\ SomeDemo

LEMMA NextSomeDemo ==
    ASSUME SemInv, PhaseInv, SomeDemo, [Next]_vars, ~struck'
    PROVE  SomeDemo'
<1>1. PICK start \in 0..MaxThreads, last \in 0..MaxThreads :
         DemoInv(start, last) /\ ContentInv(start, last)
  BY DEF SomeDemo
<1>2. CASE StartDemo
  <2>1. DemoInv(last, last)' /\ ContentInv(last, last)'
    BY <1>1, <1>2, StartAtRest, StartKeepsDemo, StartKeepsContent
  <2> QED
    BY <2>1 DEF SomeDemo
<1>3. CASE CreateWorker
  <2>1. last + 1 \in Threads /\ DemoInv(start, last + 1)'
    BY <1>1, <1>3, CreateKeepsDemo
  <2>2. PICK more \in 0..MaxThreads : more = last + 1
    BY <2>1, Bounds
  <2>3. DemoInv(start, more)'
    BY <2>1, <2>2
  <2>4. ContentInv(start, more)'
    BY <1>1, <1>3, <2>2, CreateKeepsContent
  <2> QED
    BY <2>3, <2>4 DEF SomeDemo
<1>4. CASE \E t \in Threads : Worker(t)
  <2>1. CountInv \/ Resting
    BY <1>1, InitAtRest DEF PhaseInv
  <2>2. DemoInv(start, last)' /\ ContentInv(start, last)'
    BY <1>1, <1>4, <2>1, WorkerKeepsDemo, WorkerKeepsContent
  <2> QED
    BY <2>2 DEF SomeDemo
<1>5. CASE \/ BootStep \/ Tick \/ LinkWorker \/ CloseWorker \/ CreateFails
           \/ WaitForDone \/ WaitYield \/ Report \/ UNCHANGED vars
           \/ ClearDone \/ InitSemaphores
  <2>1. DemoInv(start, last)' /\ ContentInv(start, last)'
    BY <1>1, <1>5, OthersKeepDemo, OthersKeepContent
  <2> QED
    BY <2>1 DEF SomeDemo
<1> QED
  BY <1>2, <1>3, <1>4, <1>5 DEF Next, Shell

LEMMA WholeInvariant == Spec => [](struck \/ WholeInv)
<1>1. Init => WholeInv
  <2> SUFFICES ASSUME Init PROVE WholeInv
    OBVIOUS
  <2>1. 0 \in 0..MaxThreads
    BY Bounds
  <2>2. SomeDemo
    BY <2>1, InitDemoInv, InitContentInv DEF SomeDemo
  <2> QED
    BY <2>2, InitSemInv, InitPhaseInv DEF WholeInv
<1>2. (struck \/ WholeInv) /\ [Next]_vars => (struck \/ WholeInv)'
  <2> SUFFICES ASSUME WholeInv, [Next]_vars, ~struck' PROVE WholeInv'
    BY StruckStays
  <2>1. AnyDemo
    BY DEF WholeInv, SomeDemo, AnyDemo
  <2>2. SemInv'
    BY <2>1, NextSemInv DEF WholeInv
  <2> QED
    BY <2>1, <2>2, NextPhaseInv, NextSomeDemo DEF WholeInv
<1> QED
  BY <1>1, <1>2, PTL DEF Spec

\* Until a window is hit, the items inserted and not yet extracted are the first
\* buffer_count cells whenever the shell waits and nobody is at the buffer.
THEOREM NothingIsLostOrTwice == Spec => []BufferHoldsTheRest
<1>1. ASSUME WholeInv, shell = "wait", \A t \in Threads : ~InBuffer(t), NEW item \in Items
      PROVE  /\ consumed[item] <= 1
             /\ consumed[item] = 1 => \A k \in 0..(buffer_count - 1) : buffer[k] # item
             /\ \A t \in Threads :
                   Newest(t) /\ item \in Inserted(t) /\ consumed[item] = 0 =>
                      \E k \in 0..(buffer_count - 1) : buffer[k] = item
  <2>1. PICK start \in 0..MaxThreads, last \in 0..MaxThreads :
           DemoInv(start, last) /\ ContentInv(start, last)
    BY <1>1 DEF WholeInv, SomeDemo
  <2>2. SemInv
    BY <1>1 DEF WholeInv
  <2>3. Level = buffer_count
    <3>1. \A t \in Threads : ~BetweenTheTwo(t)
      BY <1>1, <2>2 DEF InBuffer, BetweenTheTwo, SemInv, BaseInv, StatesFit
    <3> QED
      BY <3>1 DEF Level
  <2>4. PICK level \in 0..BufferSize : level = buffer_count /\ CellsFit(start, level)
    BY <2>1, <2>3 DEF ContentInv, CellsFit
  <2>5. /\ consumed[item] \in {0, 1}
        /\ IsInserted(start, item) /\ consumed[item] = 0 =>
              \E k \in 0..(level - 1) : buffer[k] = item
    BY <2>4 DEF CellsFit
  <2>6. ASSUME consumed[item] = 1, NEW k \in 0..(level - 1) PROVE buffer[k] # item
    BY <2>4, <2>6 DEF CellsFit
  <2>7. ASSUME NEW t \in Threads, Newest(t), item \in Inserted(t), consumed[item] = 0
        PROVE  \E k \in 0..(level - 1) : buffer[k] = item
    <3>1. PICK k \in 0..(i[t] - 1) : item = <<id[t], k>>
      BY <2>7 DEF Inserted
    <3>2. item[1] = id[t] /\ item[2] = k /\ id[t] \in 1..Producers
      BY <3>1, PairsOfItems
    <3>3. i[t] \in Nat /\ item[2] < Progress(t)
      <4>1. PICK n \in Nat : n = i[t]
        BY <2>2 DEF SemInv, BaseInv, SemTypeOK
      <4>2. k < n
        BY <3>1, <4>1
      <4>3. Progress(t) = n \/ Progress(t) = n + 1
        BY <4>1 DEF Progress
      <4> QED
        BY <3>2, <4>1, <4>2, <4>3
    <3>4. last = start + Workers
      BY <1>1, <2>1 DEF DemoInv, ThreadsFit, ShellFits
    <3>5. t > start
      <4> SUFFICES ASSUME ~(t > start) PROVE FALSE
        OBVIOUS
      <4>1. PICK u \in Threads : u = start + id[t]
        BY <3>2, <3>4, Bounds
      <4>2. u > t /\ u > start /\ u <= last /\ u - start <= Producers /\ u - start = id[t]
        BY <3>2, <3>4, <4>1, Bounds
      <4>3. id[u] = id[t]
        BY <2>1, <4>2 DEF ContentInv, IdsFit
      <4> QED
        BY <2>7, <4>2, <4>3 DEF Newest
    <3>6. IsInserted(start, item)
      BY <3>2, <3>3, <3>5 DEF IsInserted
    <3> QED
      BY <2>5, <2>7, <3>6
  <2> QED
    BY <2>4, <2>5, <2>6, <2>7
<1>2. struck \/ WholeInv => BufferHoldsTheRest
  BY <1>1 DEF BufferHoldsTheRest
<1> QED
  BY <1>2, WholeInvariant, PTL

\* Until a window is hit, "All 10 items produced and consumed without corruption,
\* buffer count = 0 at end".
THEOREM EveryItemOnce == Spec => []ItemsConsumedUntilStruck
<1>1. ASSUME WholeInv, shell = "report"
      PROVE  buffer_count = 0 /\ \A item \in Items : consumed[item] = 1
  <2>1. PICK start \in 0..MaxThreads, last \in 0..MaxThreads :
           DemoInv(start, last) /\ ContentInv(start, last)
    BY <1>1 DEF WholeInv, SomeDemo
  <2>2. SemInv
    BY <1>1 DEF WholeInv
  <2>3. last = start + Workers /\ \A t \in Threads : t <= last => Finished(t)
    BY <1>1, <2>1 DEF DemoInv, ThreadsFit, ShellFits
  <2>4. last \in Threads /\ ~IsProducer(last) /\ Finished(last)
    <3>1. last \in Threads /\ ~IsProducer(last)
      BY <2>1, <2>3, ConsumerIsLast
    <3> QED
      BY <2>3, <3>1, Bounds
  <2>5. Progress(last) = Producers * ItemsEach
    <3>1. ~PastBuffer(last)
      BY <2>2, <2>4 DEF PastBuffer, Finished, SignalSteps, DequeueSteps, SemInv, BaseInv,
         CallsFit, CallFits, OutOfCalls
    <3>2. i[last] = Rounds(last)
      BY <2>1, <2>4 DEF ContentInv, RoundsFit, AfterRounds, Finished
    <3> QED
      BY <2>4, <3>1, <3>2 DEF Progress, Rounds
  <2>6. Cardinality(Extracted) = Cardinality(Items)
    BY <2>1, <2>3, <2>5, ItemsAreFinite DEF ContentInv, ExtractedFits
  <2>7. Extracted = Items
    BY <2>6, ItemsAreFinite, FS_Subset
  <2>8. \A item \in Items : consumed[item] = 1
    BY <2>7 DEF Extracted
  <2>9. Level = buffer_count
    <3>1. ASSUME NEW t \in Threads PROVE ~BetweenTheTwo(t)
      <4>1. Finished(t) \/ tstate[t] = "UNUSED"
        BY <2>1, <2>3 DEF DemoInv, ThreadsFit
      <4>2. pc[t] \in {"loop", "exit", "gone"}
        BY <2>2, <4>1 DEF Finished, SemInv, BaseInv, StatesFit
      <4> QED
        BY <4>2 DEF BetweenTheTwo
    <3> QED
      BY <3>1 DEF Level
  <2>10. PICK level \in 0..BufferSize : level = buffer_count /\ CellsFit(start, level)
    BY <2>1, <2>9 DEF ContentInv, CellsFit
  <2>11. level = 0
    <3> SUFFICES ASSUME level # 0 PROVE FALSE
      OBVIOUS
    <3>1. 0 \in 0..(level - 1)
      BY SemDemoAssumption
    <3>2. PICK item \in Items : consumed[item] = 0
      BY <2>10, <3>1 DEF CellsFit
    <3> QED
      BY <2>8, <3>2
  <2> QED
    BY <2>8, <2>10, <2>11
<1>2. struck \/ WholeInv => ItemsConsumedUntilStruck
  BY <1>1 DEF AllItemsConsumed, ItemsConsumedUntilStruck
<1> QED
  BY <1>2, WholeInvariant, PTL

\* The types of the demo's state: until a window is hit, no semaphore and no
\* count goes beyond the size of the buffer.
THEOREM SemDemoTypes == Spec => []SemDemoTypeOK
<1>1. ASSUME WholeInv
      PROVE  SemDemoTypeOK
  <2>1. PICK start \in 0..MaxThreads, last \in 0..MaxThreads :
           DemoInv(start, last) /\ ContentInv(start, last)
    BY <1>1 DEF WholeInv, SomeDemo
  <2>2. SemInv /\ RegsInv /\ SemTypeOK /\ IInv
    BY <1>1 DEF WholeInv, SemInv, BaseInv, PhaseInv, RestInv, CountInv
  <2>3. BufferSize \in Nat \ {0} /\ Producers \in Nat \ {0} /\ ItemsEach \in Nat \ {0}
        /\ Workers \in Nat
    BY SemDemoAssumption, Bounds
  <2>4. buffer_count \in 0..BufferSize
    BY <1>1, <2>2, <2>3, CountInRange DEF WholeInv, PhaseInv, RestInv, CountInv
  <2>5. ASSUME NEW s \in Semaphores PROVE value[s] \in 0..BufferSize
    BY <1>1, <2>2, ValuesInRange DEF WholeInv, PhaseInv, RestInv, CountInv
  <2>6. ASSUME NEW t \in Threads PROVE unit[t] \in 0..BufferSize
    <3>1. CASE pc[t] = "takeUnit"
      <4>1. PICK s \in Semaphores : s = Sem(t)
        BY <2>2, SemIsOne
      <4>2. unit[t] = value[s]
        BY <2>2, <3>1, <4>1 DEF SemInv, ValueInv, UnitInv
      <4> QED
        BY <2>5, <4>2
    <3>2. CASE pc[t] # "takeUnit"
      BY <2>2, <2>3, <3>2 DEF RegsInv, RegsFit
    <3> QED
      BY <3>1, <3>2
  <2>7. sem_done \in 0..Workers
    <3>1. CASE shell = "clearDone"
      BY <1>1, <3>1 DEF WholeInv, PhaseInv, RestInv, InitSteps
    <3>2. CASE shell # "clearDone"
      BY <2>1, <2>2, <3>2, FinishedOfCall DEF DemoInv
    <3> QED
      BY <3>1, <3>2
  <2>8. ASSUME NEW t \in Threads PROVE reg[t] \in 0..(BufferSize + Workers)
    <3>1. \/ reg[t] = buffer_count
          \/ reg[t] = 0
          \/ reg[t] = sem_done
      BY <2>1, <2>2 DEF RegsInv, RegsFit, DemoInv
    <3> QED
      BY <2>3, <2>4, <2>7, <3>1
  <2>9. ASSUME NEW t \in Threads PROVE i[t] \in 0..(Producers * ItemsEach)
    <3>1. PICK m \in Nat : m = Producers * ItemsEach /\ ItemsEach <= m
      BY <2>3
    <3>2. i[t] \in Nat /\ i[t] <= Rounds(t)
      BY <2>1, <2>2 DEF SemTypeOK, ContentInv, RoundsFit
    <3>3. Rounds(t) = ItemsEach \/ Rounds(t) = m
      BY <3>1 DEF Rounds
    <3> QED
      BY <2>3, <3>1, <3>2, <3>3
  <2>10. /\ buffer \in [0..(BufferSize - 1) -> Items \cup {Garbage}]
         /\ consumed \in [Items -> Nat]
    BY <2>1 DEF ContentInv, CellsFit
  <2>11. \A t \in Threads : id[t] \in 0..Producers
    BY <2>1 DEF ContentInv, IdsFit
  <2>12. /\ shell \in {"prompt", "create", "link", "close", "wait", "waitYield", "report"}
                         \cup InitSteps
         /\ created \in 0..Workers
    BY <2>1 DEF DemoInv, ThreadsFit, ShellFits
  <2>13. /\ SchedulerTypeOK /\ WaitQueueTypeOK(Semaphores)
         /\ pc \in [Threads -> WorkerSteps] /\ call \in [Threads -> 1..4]
         /\ value \in [Semaphores -> 0..BufferSize]
         /\ unit \in [Threads -> 0..BufferSize]
         /\ id \in [Threads -> 0..Producers]
         /\ i \in [Threads -> 0..(Producers * ItemsEach)]
         /\ reg \in [Threads -> 0..(BufferSize + Workers)]
    BY <2>2, <2>5, <2>6, <2>8, <2>9, <2>11 DEF IInv, SemTypeOK
  <2> QED
    BY <2>4, <2>7, <2>10, <2>12, <2>13 DEF SemDemoTypeOK, InitSteps
<1>2. struck \/ WholeInv => SemDemoTypeOK
  BY <1>1 DEF SemDemoTypeOK
<1> QED
  BY <1>2, WholeInvariant, PTL
=============================================================================
