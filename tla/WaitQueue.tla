----------------------------- MODULE WaitQueue -----------------------------
(***************************************************************************)
(* The waiting lines of threads that mutex.c and semaphore.c keep in the   *)
(* same way: a list from wait_head through thread->wait_next to wait_tail. *)
(* Each action is one access to shared memory, in the order the compiled   *)
(* code makes them.  These functions run with interrupts enabled, so the   *)
(* timer may preempt their caller between any two steps.                   *)
(***************************************************************************)
EXTENDS Scheduler

VARIABLES
    wait_head, wait_tail,     \* of every mutex or semaphore q
    wait_next,                \* thread->wait_next
    pc,                       \* the next step of each thread
    next,                     \* local `next` of mutex_unlock, sem_signal
    loaded                    \* a queue pointer loaded into a register

queueVars == <<wait_head, wait_tail, wait_next>>
locals == <<next, loaded>>

EnqueueSteps == {"testQueue", "setHead", "loadTail", "linkTail", "setTail", "block",
                 "blockedYield"}
DequeueSteps == {"testWaiter", "loadNext", "setNewHead", "clearTail", "clearNext",
                 "wake"}

WaitQueueInit(queues) ==
    /\ wait_head = [q \in queues |-> NULL]
    /\ wait_tail = [q \in queues |-> NULL]
    /\ wait_next = [t \in Threads |-> NULL]
    /\ next = [t \in Threads |-> NULL]
    /\ loaded = [t \in Threads |-> NULL]

WaitQueueTypeOK(queues) ==
    /\ wait_head \in [queues -> Threads \cup {NULL}]
    /\ wait_tail \in [queues -> Threads \cup {NULL}]
    /\ wait_next \in [Threads -> Threads \cup {NULL}]
    /\ next \in [Threads -> Threads \cup {NULL}]
    /\ loaded \in [Threads -> Threads \cup {NULL}]

\* t executes its step `from` and goes on to `to`.
Executes(t, from) == cpu = Thread(t) /\ pc[t] = from
Goto(t, from, to) == Executes(t, from) /\ pc' = [pc EXCEPT ![t] = to]

-----------------------------------------------------------------------------
(* The two stores with which mutex_init and sem_init empty the line of q.   *)

InitHead(q) == /\ wait_head' = [wait_head EXCEPT ![q] = NULL]
               /\ UNCHANGED <<wait_tail, wait_next>>
InitTail(q) == /\ wait_tail' = [wait_tail EXCEPT ![q] = NULL]
               /\ UNCHANGED <<wait_head, wait_next>>

-----------------------------------------------------------------------------
(* The caller queues up in q and blocks.  `entered` follows its return.    *)

TestQueue(t, q) ==
    /\ Goto(t, "testQueue", IF wait_head[q] = NULL THEN "setHead" ELSE "loadTail")
    /\ wait_next' = [wait_next EXCEPT ![t] = NULL]
    /\ UNCHANGED <<wait_head, wait_tail, locals, schedVars>>

SetHead(t, q) ==
    /\ Goto(t, "setHead", "setTail")
    /\ wait_head' = [wait_head EXCEPT ![q] = t]
    /\ UNCHANGED <<wait_tail, wait_next, locals, schedVars>>

LoadTail(t, q) ==
    /\ Goto(t, "loadTail", "linkTail")
    /\ loaded' = [loaded EXCEPT ![t] = wait_tail[q]]
    /\ UNCHANGED <<queueVars, next, schedVars>>

\* With wait_tail = 0 the store goes to low memory, where nothing reads it.
LinkTail(t) ==
    /\ Goto(t, "linkTail", "setTail")
    /\ wait_next' = [u \in Threads |-> IF u = loaded[t] THEN t ELSE wait_next[u]]
    /\ loaded' = [loaded EXCEPT ![t] = NULL]
    /\ UNCHANGED <<wait_head, wait_tail, next, schedVars>>

\* Mutation: wait_tail is not moved to the newcomer.
SetTailSkipped(t, q) ==
    /\ Goto(t, "setTail", "block")
    /\ UNCHANGED <<queueVars, locals, schedVars>>
SetTail(t, q) ==
    /\ Goto(t, "setTail", "block")
    /\ wait_tail' = [wait_tail EXCEPT ![q] = t]
    /\ UNCHANGED <<wait_head, wait_next, locals, schedVars>>

Block(t) ==
    /\ Goto(t, "block", "blockedYield")
    /\ BlockThread
    /\ UNCHANGED <<queueVars, locals>>

BlockedYield(t, entered) ==
    /\ Goto(t, "blockedYield", entered)
    /\ SchedulerYield
    /\ UNCHANGED <<queueVars, locals>>

Enqueue(t, q, entered) ==
    \/ TestQueue(t, q)
    \/ SetHead(t, q) \/ LoadTail(t, q) \/ LinkTail(t) \/ SetTail(t, q)
    \/ Block(t) \/ BlockedYield(t, entered)

-----------------------------------------------------------------------------
(* The first thread in line is taken out and woken.  `nobody` is the step  *)
(* of a caller that finds no line, `taken` the one after the removal,      *)
(* `left` the one after the return.                                        *)

\* Mutations: the last thread in line is taken; the line is not looked at.
TestWaiterLast(t, q, nobody) ==
    /\ Goto(t, "testWaiter", IF wait_head[q] = NULL THEN nobody ELSE "loadNext")
    /\ next' = [next EXCEPT ![t] = wait_tail[q]]
    /\ UNCHANGED <<queueVars, loaded, schedVars>>
TestWaiterNever(t, q, nobody) ==
    /\ Goto(t, "testWaiter", nobody)
    /\ UNCHANGED <<queueVars, locals, schedVars>>
TestWaiter(t, q, nobody) ==
    /\ Goto(t, "testWaiter", IF wait_head[q] = NULL THEN nobody ELSE "loadNext")
    /\ next' = [next EXCEPT ![t] = wait_head[q]]
    /\ UNCHANGED <<queueVars, loaded, schedVars>>

LoadNext(t) ==
    /\ Goto(t, "loadNext", "setNewHead")
    /\ loaded' = [loaded EXCEPT ![t] = wait_next[next[t]]]
    /\ UNCHANGED <<queueVars, next, schedVars>>

SetNewHead(t, q) ==
    /\ Goto(t, "setNewHead", IF loaded[t] = NULL THEN "clearTail" ELSE "clearNext")
    /\ wait_head' = [wait_head EXCEPT ![q] = loaded[t]]
    /\ loaded' = [loaded EXCEPT ![t] = NULL]
    /\ UNCHANGED <<wait_tail, wait_next, next, schedVars>>

ClearTail(t, q) ==
    /\ Goto(t, "clearTail", "clearNext")
    /\ wait_tail' = [wait_tail EXCEPT ![q] = NULL]
    /\ UNCHANGED <<wait_head, wait_next, locals, schedVars>>

ClearNext(t, taken) ==
    /\ Goto(t, "clearNext", taken)
    /\ wait_next' = [wait_next EXCEPT ![next[t]] = NULL]
    /\ UNCHANGED <<wait_head, wait_tail, locals, schedVars>>

\* Mutation: the thread taken out is not unblocked.
WakeSkipped(t, left) ==
    /\ Goto(t, "wake", left)
    /\ next' = [next EXCEPT ![t] = NULL]
    /\ UNCHANGED <<queueVars, loaded, schedVars>>
Wake(t, left) ==
    /\ Goto(t, "wake", left)
    /\ UnblockThread(next[t])
    /\ next' = [next EXCEPT ![t] = NULL]
    /\ UNCHANGED <<queueVars, loaded>>

Dequeue(t, q, nobody, taken, left) ==
    \/ TestWaiter(t, q, nobody)
    \/ LoadNext(t) \/ SetNewHead(t, q) \/ ClearTail(t, q) \/ ClearNext(t, taken)
    \/ Wake(t, left)

-----------------------------------------------------------------------------
\* The line of q, from wait_head along wait_next.
LineFrom[n \in Nat] ==
    [t \in Threads \cup {NULL} |->
        IF n = 0 \/ t = NULL THEN << >> ELSE <<t>> \o LineFrom[n - 1][wait_next[t]]]
Line(q) == LineFrom[MaxThreads][wait_head[q]]

\* A blocked thread can still be found: it is in the line of q, or some
\* thread has taken it out and is about to wake it.
CanBeFound(t, q) == InRing(Line(q), t) \/ \E u \in Threads : next[u] = t
=============================================================================
