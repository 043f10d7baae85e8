------------------------------- MODULE MCPmm -------------------------------
(***************************************************************************)
(* Pmm with eight frames of four bytes, two of them low memory, and a map  *)
(* of any of six entries: low memory, an entry that begins and ends within *)
(* frames, one that overlaps it, one that is reserved, an empty one, and   *)
(* one that begins within a frame and reaches beyond the last.             *)
(***************************************************************************)
EXTENDS Pmm

MCMapEntries ==
    {[base |-> 0, length |-> 7, usable |-> TRUE],
     [base |-> 6, length |-> 11, usable |-> TRUE],
     [base |-> 8, length |-> 12, usable |-> TRUE],
     [base |-> 12, length |-> 4, usable |-> FALSE],
     [base |-> 16, length |-> 0, usable |-> TRUE],
     [base |-> 17, length |-> 19, usable |-> TRUE]}

\* The image begins in low memory and ends above it.
MCKernelFrames == 1..3
=============================================================================
