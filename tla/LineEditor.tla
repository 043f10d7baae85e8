----------------------------- MODULE LineEditor -----------------------------
(***************************************************************************)
(* What keyboard.h promises of kb_readline: a line of less than Size       *)
(* characters that is edited at its end, and stays as it is once given.    *)
(***************************************************************************)
EXTENDS Naturals, Sequences

CONSTANTS Chars, Size

VARIABLES editing, line

Init == editing = FALSE /\ line = <<>>

Start == ~editing /\ editing' = TRUE /\ line' = <<>>

Type(c) == editing /\ Len(line) < Size - 1 /\ line' = Append(line, c) /\ UNCHANGED editing

Erase ==
    /\ editing /\ line # <<>>
    /\ line' = SubSeq(line, 1, Len(line) - 1)
    /\ UNCHANGED editing

Give == editing /\ editing' = FALSE /\ UNCHANGED line

Next == Start \/ (\E c \in Chars : Type(c)) \/ Erase \/ Give

Spec == Init /\ [][Next]_<<editing, line>>
=============================================================================
