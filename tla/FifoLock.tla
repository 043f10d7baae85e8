------------------------------ MODULE FifoLock ------------------------------
(***************************************************************************)
(* What mutex.c promises (its header comment): a lock that is acquired, or *)
(* queued for, and handed over by its holder to the first thread in line,  *)
(* in the order of arrival.                                                *)
(***************************************************************************)
EXTENDS Naturals, Sequences

CONSTANTS Customers,    \* the threads that use the lock
          None          \* nobody, not a member of Customers

VARIABLES holder,       \* the thread that has the lock, or None
          line          \* the threads that wait for it, first come first

lockVars == <<holder, line>>

Init == holder = None /\ line = << >>

Acquire(t) ==
    /\ holder = None
    /\ holder' = t
    /\ UNCHANGED line

QueueUp(t) ==
    /\ holder \notin {None, t}
    /\ \A k \in DOMAIN line : line[k] # t
    /\ line' = Append(line, t)
    /\ UNCHANGED holder

Release(t) ==
    /\ holder = t
    /\ IF line = << >>
       THEN holder' = None /\ UNCHANGED line
       ELSE holder' = Head(line) /\ line' = Tail(line)

Next == \E t \in Customers : Acquire(t) \/ QueueUp(t) \/ Release(t)

Spec == Init /\ [][Next]_lockVars
=============================================================================
