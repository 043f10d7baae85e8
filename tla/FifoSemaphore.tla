--------------------------- MODULE FifoSemaphore ---------------------------
(***************************************************************************)
(* What semaphore.c promises (its header comment): a wait takes a unit, or *)
(* queues up when there is none; a signal wakes the first in line, which   *)
(* has its unit then, or adds one.                                         *)
(***************************************************************************)
EXTENDS Naturals, Sequences

CONSTANTS Customers,    \* the threads that use the semaphore
          Initial       \* the starting count

VARIABLES units,        \* units nobody has taken
          line          \* the threads that wait for one, first come first

semVars == <<units, line>>

Init == units = Initial /\ line = << >>

Take == units > 0 /\ units' = units - 1 /\ UNCHANGED line

QueueUp(t) ==
    /\ units = 0
    /\ \A k \in DOMAIN line : line[k] # t
    /\ line' = Append(line, t)
    /\ UNCHANGED units

Signal ==
    IF line = << >>
    THEN units' = units + 1 /\ UNCHANGED line
    ELSE line' = Tail(line) /\ UNCHANGED units

\* sem_init on a semaphore nobody waits for.
Reset == line = << >> /\ units' = Initial /\ UNCHANGED line

Next == Take \/ Signal \/ Reset \/ \E t \in Customers : QueueUp(t)

Spec == Init /\ [][Next]_semVars
=============================================================================
