--------------------------- MODULE FrameAllocator ---------------------------
(***************************************************************************)
(* What pmm.h promises: frames are handed out one at a time, each to one   *)
(* holder until it is freed, and the statistics say how many are left.     *)
(***************************************************************************)
EXTENDS Naturals, FiniteSets

CONSTANT Pool           \* every frame there could be

VARIABLES available,    \* frames that can be handed out
          owned,        \* frames that have been, and not been freed
          left          \* what the statistics report as free

allocatorVars == <<available, owned, left>>

Init ==
    /\ available = {}
    /\ owned = {}
    /\ left = 0

\* At boot the allocator is told which frames it may use.
Provide(frames) ==
    /\ owned = {}
    /\ available' = frames
    /\ left' = Cardinality(frames)
    /\ UNCHANGED owned

Alloc(f) ==
    /\ f \in available
    /\ available' = available \ {f}
    /\ owned' = owned \cup {f}
    /\ left' = left - 1

Free(f) ==
    /\ f \in owned
    /\ available' = available \cup {f}
    /\ owned' = owned \ {f}
    /\ left' = left + 1

Next ==
    \/ \E frames \in SUBSET Pool : Provide(frames)
    \/ \E f \in Pool : Alloc(f) \/ Free(f)

Spec == Init /\ [][Next]_allocatorVars
=============================================================================
