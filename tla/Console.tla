------------------------------ MODULE Console ------------------------------
(***************************************************************************)
(* The text console (vga.c): one cursor for every context that prints, and *)
(* no lock around it.  The compiled vga_putchar loads each of the cursor's *)
(* two words once and stores each once at most; the timer may preempt its  *)
(* caller between any two of these accesses.  What the cells hold and in   *)
(* which colour is left out.                                               *)
(***************************************************************************)
EXTENDS Integers, Sequences

CONSTANTS Printers,         \* the contexts that print
          Rows, Cols,       \* VGA_ROWS, VGA_COLS
          TabWidth          \* 8

ASSUME ConsoleAssumption ==
    Rows \in Nat \ {0} /\ Cols \in Nat \ {0} /\ TabWidth \in Nat \ {0}

VARIABLES
    cursor_row, cursor_col,
    text,               \* what is left of the string a context prints
    at,                 \* the next access of its vga_putchar
    row, col            \* its registers

consoleVars == <<cursor_row, cursor_col, text, at, row, col>>

PutCharSteps == {"quiet", "loadRow", "loadCol", "storeCol", "storeRow", "scroll"}

\* vga_init; the splash screen is printed before any other context exists.
ConsoleInit ==
    /\ cursor_row = 0
    /\ cursor_col = 0
    /\ text = [c \in Printers |-> <<>>]
    /\ at = [c \in Printers |-> "quiet"]
    /\ row = [c \in Printers |-> 0]
    /\ col = [c \in Printers |-> 0]

ConsoleTypeOK ==
    /\ cursor_row \in Nat /\ cursor_col \in 0..(Cols - 1)
    /\ at \in [Printers -> PutCharSteps]
    /\ row \in [Printers -> Nat] /\ col \in [Printers -> 0..(Cols - 1)]

-----------------------------------------------------------------------------
(* vga_putchar                                                             *)

\* The column after a character, beyond the last one at the end of a line.
NextCol(char, n) ==
    IF char = "newline" THEN Cols
    ELSE IF char = "return" THEN 0
    ELSE IF char = "tab" THEN (n \div TabWidth + 1) * TabWidth
    ELSE IF char = "back" THEN n - 1
    ELSE n + 1

\* Mutation: the screen is scrolled on the first row below it only.
JustBelowScreen(r) == r = Rows
BelowScreen(r) == r >= Rows

\* The call ends, and the next character begins; the registers are dead.
Printed(c) ==
    /\ text' = [text EXCEPT ![c] = Tail(@)]
    /\ at' = [at EXCEPT ![c] = IF Len(text[c]) = 1 THEN "quiet" ELSE "loadRow"]
    /\ row' = [row EXCEPT ![c] = 0]
    /\ col' = [col EXCEPT ![c] = 0]

GoOn(c, step) == at' = [at EXCEPT ![c] = step] /\ UNCHANGED text

\* What follows the stores of the cursor.
TestRow(c, r) ==
    IF BelowScreen(r) THEN GoOn(c, "scroll") /\ UNCHANGED <<row, col>> ELSE Printed(c)

LoadRow(c) ==
    /\ at[c] = "loadRow"
    /\ row' = [row EXCEPT ![c] = cursor_row]
    /\ GoOn(c, "loadCol")
    /\ UNCHANGED <<cursor_row, cursor_col, col>>

\* A backspace in the first column leaves the cursor where it is.
LoadCol(c) ==
    /\ at[c] = "loadCol"
    /\ IF Head(text[c]) = "back" /\ cursor_col = 0
       THEN TestRow(c, row[c])
       ELSE /\ col' = [col EXCEPT ![c] = cursor_col]
            /\ GoOn(c, "storeCol")
            /\ UNCHANGED row
    /\ UNCHANGED <<cursor_row, cursor_col>>

StoreCol(c) ==
    LET n == NextCol(Head(text[c]), col[c])
    IN  /\ at[c] = "storeCol"
        /\ cursor_col' = IF n >= Cols THEN 0 ELSE n
        /\ IF n >= Cols
           THEN GoOn(c, "storeRow") /\ UNCHANGED <<row, col>>
           ELSE TestRow(c, row[c])
        /\ UNCHANGED cursor_row

StoreRow(c) ==
    /\ at[c] = "storeRow"
    /\ cursor_row' = row[c] + 1
    /\ TestRow(c, row[c] + 1)
    /\ UNCHANGED cursor_col

\* scroll_up
ScrollUp(c) ==
    /\ at[c] = "scroll"
    /\ cursor_row' = Rows - 1
    /\ Printed(c)
    /\ UNCHANGED cursor_col

PutChar(c) == LoadRow(c) \/ LoadCol(c) \/ StoreCol(c) \/ StoreRow(c) \/ ScrollUp(c)

-----------------------------------------------------------------------------
(* What callers do.                                                        *)

\* vga_puts and vga_printf: one vga_putchar for each character.
Puts(c, string) ==
    /\ at[c] = "quiet"
    /\ text' = [text EXCEPT ![c] = string]
    /\ at' = [at EXCEPT ![c] = IF string = <<>> THEN "quiet" ELSE "loadRow"]
    /\ UNCHANGED <<cursor_row, cursor_col, row, col>>

\* vga_clear, in two stores.
HomeRow == cursor_row' = 0 /\ UNCHANGED <<cursor_col, text, at, row, col>>
HomeCol == cursor_col' = 0 /\ UNCHANGED <<cursor_row, text, at, row, col>>

-----------------------------------------------------------------------------

\* However the calls interleave, and although each of them may store a row
\* that others have left behind: when nobody is about to scroll, the cursor
\* is on the screen.
CursorComesBack ==
    cursor_row >= Rows => \E c \in Printers : at[c] = "scroll"
=============================================================================
