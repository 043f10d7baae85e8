------------------------------ MODULE Keyboard ------------------------------
(***************************************************************************)
(* The keyboard driver (keyboard.c): kb_getchar, which polls the           *)
(* controller and follows the shift keys, and kb_readline, which the shell *)
(* calls and which echoes through the console.  The keyboard itself, the   *)
(* user and the controller's queue of scan codes, is external.             *)
(***************************************************************************)
EXTENDS Console

CONSTANTS Reader,           \* the context that calls kb_readline, the shell
          LineSize          \* the size of its buffer

ASSUME KeyboardAssumption == Reader \in Printers /\ LineSize \in Nat \ {0}

VARIABLES
    queue,              \* scan codes [key, release] not read yet
    down,               \* the shift keys that are held down
    shift_held,
    buf, i,             \* the caller's buffer and the local i
    char,               \* what kb_getchar has returned
    reader              \* the next step of kb_readline

keyVars == <<queue, down>>
lineVars == <<buf, i, char, reader>>
keyboardVars == <<keyVars, shift_held, lineVars>>

Shifts == {"lshift", "rshift"}
Keys == Shifts \cup {"letter", "enter", "back", "tab", "space", "pad"}
Typable == {"letter", "capital", "digit", "space", "tab"}
NUL == "NUL"

\* sc_ascii and sc_ascii_shift: the keypad has no shifted characters.
sc_ascii == [letter |-> "letter", enter |-> "newline", back |-> "back",
             tab |-> "tab", space |-> "space", pad |-> "digit"]
sc_ascii_shift == [sc_ascii EXCEPT !.letter = "capital", !.pad = NUL]

\* kb_init has emptied the controller.
KeyboardInit ==
    /\ queue = <<>>
    /\ down = {}
    /\ shift_held = FALSE
    /\ buf = [n \in 0..(LineSize - 1) |-> NUL]
    /\ i = 0
    /\ char = NUL
    /\ reader = "idle"

-----------------------------------------------------------------------------
(* The user.                                                               *)

Press(key) ==
    /\ queue' = Append(queue, [key |-> key, release |-> FALSE])
    /\ down' = down \cup ({key} \cap Shifts)

Release(key) ==
    /\ key \in Shifts => key \in down
    /\ queue' = Append(queue, [key |-> key, release |-> TRUE])
    /\ down' = down \ {key}

-----------------------------------------------------------------------------
(* kb_getchar: one turn of its loop.                                       *)

\* Mutation: the release of one shift key only is noticed.
LeftShiftOnly(held, code) ==
    IF code.key = "lshift" THEN ~code.release
    ELSE IF code.key = "rshift" /\ ~code.release THEN TRUE ELSE held
ShiftAfter(held, code) == IF code.key \in Shifts THEN ~code.release ELSE held

Translated(code) ==
    IF code.release \/ code.key \in Shifts THEN NUL
    ELSE IF shift_held THEN sc_ascii_shift[code.key] ELSE sc_ascii[code.key]

GetChar ==
    /\ reader = "getchar"
    /\ queue # <<>>
    /\ queue' = Tail(queue)
    /\ shift_held' = ShiftAfter(shift_held, Head(queue))
    /\ char' = Translated(Head(queue))
    /\ reader' = IF char' = NUL THEN "getchar" ELSE "typed"
    /\ UNCHANGED <<down, buf, i, consoleVars>>

-----------------------------------------------------------------------------
(* kb_readline                                                             *)

StartLine ==
    /\ reader = "idle"
    /\ i' = 0
    /\ reader' = "test"
    /\ UNCHANGED <<keyVars, shift_held, buf, char, consoleVars>>

\* Room for the terminator is kept; mutation: it is not.
RoomInBuffer == i < LineSize
RoomInLine == i < LineSize - 1

TestRoom ==
    /\ reader = "test"
    /\ at[Reader] = "quiet"
    /\ reader' = IF RoomInLine THEN "getchar" ELSE "terminate"
    /\ UNCHANGED <<keyVars, shift_held, buf, i, char, consoleVars>>

Echo(step) ==
    /\ reader' = step
    /\ Puts(Reader, <<char>>)
    /\ char' = NUL

EndLine ==
    /\ reader = "typed" /\ char = "newline"
    /\ Echo("terminate")
    /\ UNCHANGED <<keyVars, shift_held, buf, i>>

EraseChar ==
    /\ reader = "typed" /\ char = "back" /\ i > 0
    /\ i' = i - 1
    /\ Echo("test")
    /\ UNCHANGED <<keyVars, shift_held, buf>>

NothingToErase ==
    /\ reader = "typed" /\ char = "back" /\ i = 0
    /\ reader' = "test" /\ char' = NUL
    /\ UNCHANGED <<keyVars, shift_held, buf, i, consoleVars>>

StoreChar ==
    /\ reader = "typed" /\ char \notin {"newline", "back"}
    /\ buf' = [buf EXCEPT ![i] = char]
    /\ i' = i + 1
    /\ Echo("test")
    /\ UNCHANGED <<keyVars, shift_held>>

\* Mutation: what follows the line in the buffer stays.
NotTerminated == UNCHANGED buf
Terminated == buf' = [buf EXCEPT ![i] = NUL]

EndReadLine ==
    /\ reader = "terminate"
    /\ at[Reader] = "quiet"
    /\ Terminated
    /\ reader' = "given"
    /\ UNCHANGED <<keyVars, shift_held, i, char, consoleVars>>

KbReadLine == \/ GetChar \/ TestRoom \/ EndLine \/ EraseChar \/ NothingToErase
              \/ StoreChar \/ EndReadLine

-----------------------------------------------------------------------------

KeyboardTypeOK ==
    /\ \A k \in DOMAIN queue : queue[k] \in [key : Keys, release : BOOLEAN]
    /\ down \subseteq Shifts
    /\ shift_held \in BOOLEAN
    /\ buf \in [0..(LineSize - 1) -> Typable \cup {NUL}]
    /\ i \in 0..(LineSize - 1)
    /\ char \in Typable \cup {"newline", "back", NUL}
    /\ reader \in {"idle", "test", "getchar", "typed", "terminate", "given"}

\* shift_held is one flag for two keys: letters are capitals for no longer
\* than one of them is down, or its release waits to be read.
ShiftIsNotStuck ==
    shift_held =>
       \/ down # {}
       \/ \E k \in DOMAIN queue : queue[k].release /\ queue[k].key \in Shifts

\* The string a caller finds in the buffer, up to the first NUL.
StringEnd == CHOOSE n \in 0..LineSize :
                /\ n = LineSize \/ buf[n] = NUL
                /\ \A k \in 0..(n - 1) : buf[k] # NUL
Editing == reader \notin {"idle", "given"}
Editor == INSTANCE LineEditor WITH
    Chars <- Typable, Size <- LineSize,
    editing <- Editing,
    line <- [n \in 1..(IF Editing THEN i ELSE StringEnd) |-> buf[n - 1]]
ImplementsLineEditor == Editor!Spec
=============================================================================
