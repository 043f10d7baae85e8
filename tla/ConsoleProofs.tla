--------------------------- MODULE ConsoleProofs ---------------------------
(***************************************************************************)
(* Theorems about the console, the keyboard and the race demonstration     *)
(* under the shell and the threads of ThreadDemos, for a screen of any     *)
(* size and any number of threads, rounds, users and characters.           *)
(***************************************************************************)
EXTENDS ThreadDemos, WellFoundedInduction, TLAPS

\* What the steps of a vga_putchar need to know of the number of rows.
LEMMA RowsAreNatural == Rows \in Nat \ {0}
BY ConsoleAssumption DEF ConsoleAssumption

-----------------------------------------------------------------------------
(* The cursor.                                                             *)

CursorTypeOK == /\ cursor_row \in Int
                /\ row \in [Printers -> Int]
                /\ at \in [Printers -> PutCharSteps]

CursorInv == CursorTypeOK /\ CursorComesBack

\* A context that goes on, or ends its call, tests the row it has stored or
\* loaded; it leaves the step "scroll" of every other context alone.
LEMMA PrintedKeeps ==
    ASSUME NEW c \in Printers, CursorTypeOK, Printed(c)
    PROVE  /\ row' \in [Printers -> Int]
           /\ at' \in [Printers -> PutCharSteps]
           /\ \A d \in Printers \ {c} : at'[d] = at[d]
BY DEF Printed, CursorTypeOK, PutCharSteps

LEMMA TestRowKeeps ==
    ASSUME NEW c \in Printers, NEW r \in Int, CursorTypeOK, TestRow(c, r)
    PROVE  /\ row' \in [Printers -> Int]
           /\ at' \in [Printers -> PutCharSteps]
           /\ \A d \in Printers \ {c} : at'[d] = at[d]
           /\ r >= Rows => at'[c] = "scroll"
<1>1. CASE BelowScreen(r)
  BY <1>1 DEF TestRow, GoOn, CursorTypeOK, PutCharSteps
<1>2. CASE ~BelowScreen(r)
  <2>1. Printed(c)
    BY <1>2 DEF TestRow
  <2> QED
    BY <1>2, <2>1, PrintedKeeps, RowsAreNatural DEF BelowScreen
<1> QED
  BY <1>1, <1>2

LEMMA PutCharKeeps ==
    ASSUME CursorInv, NEW c \in Printers, PutChar(c)
    PROVE  CursorInv'
<1> USE DEF CursorInv, CursorTypeOK
<1>1. CASE LoadRow(c)
  BY <1>1 DEF LoadRow, GoOn, PutCharSteps, CursorComesBack
<1>2. CASE LoadCol(c)
  <2>1. CASE TestRow(c, row[c])
    BY <1>2, <2>1, TestRowKeeps DEF LoadCol, CursorComesBack
  <2>2. CASE GoOn(c, "storeCol") /\ UNCHANGED row
    BY <1>2, <2>2 DEF LoadCol, GoOn, PutCharSteps, CursorComesBack
  <2> QED
    BY <1>2, <2>1, <2>2 DEF LoadCol
<1>3. CASE StoreCol(c)
  <2>1. CASE TestRow(c, row[c])
    BY <1>3, <2>1, TestRowKeeps DEF StoreCol, CursorComesBack
  <2>2. CASE GoOn(c, "storeRow") /\ UNCHANGED row
    BY <1>3, <2>2 DEF StoreCol, GoOn, PutCharSteps, CursorComesBack
  <2> QED
    BY <1>3, <2>1, <2>2 DEF StoreCol
<1>4. CASE StoreRow(c)
  <2>1. TestRow(c, row[c] + 1) /\ row[c] + 1 \in Int /\ cursor_row' = row[c] + 1
    BY <1>4 DEF StoreRow
  <2> QED
    BY <2>1, TestRowKeeps, RowsAreNatural DEF CursorComesBack
<1>5. CASE ScrollUp(c)
  BY <1>5, PrintedKeeps, RowsAreNatural DEF ScrollUp, CursorComesBack
<1> QED
  BY <1>1, <1>2, <1>3, <1>4, <1>5 DEF PutChar

\* Whoever begins to print is not about to scroll before or after.
LEMMA PutsKeeps ==
    ASSUME CursorInv, NEW c \in Printers, NEW string, Puts(c, string)
    PROVE  CursorInv'
BY DEF CursorInv, CursorTypeOK, CursorComesBack, Puts, PutCharSteps

LEMMA StutterKeeps ==
    ASSUME CursorInv, UNCHANGED consoleVars
    PROVE  CursorInv'
BY DEF CursorInv, CursorTypeOK, CursorComesBack, consoleVars

LEMMA ClearKeeps ==
    ASSUME CursorInv, HomeRow \/ HomeCol
    PROVE  CursorInv'
BY RowsAreNatural DEF CursorInv, CursorTypeOK, CursorComesBack, HomeRow, HomeCol

\* Every step of the system is one of these four for the console.
LEMMA StepsOfConsole ==
    ASSUME [Next]_vars
    PROVE  \/ UNCHANGED consoleVars
           \/ HomeRow \/ HomeCol
           \/ \E c \in Printers : PutChar(c) \/ \E string : Puts(c, string)
<1>1. Shell \in Printers /\ Reader = Shell /\ Threads \subseteq Printers
  BY ThreadDemosAssumption DEF ThreadDemosAssumption
<1>2. CASE UNCHANGED vars
  BY <1>2 DEF vars
<1>3. CASE UserStep
  BY <1>3 DEF UserStep
<1>4. CASE \E t \in Threads : Thread(t)
  BY <1>1, <1>4 DEF Thread, PrintLine, Exit, ReadGlobal, WriteGlobal, LoadDone, StoreDone
<1>5. CASE ShellStep
  <2>1. CASE KbReadLine
    BY <1>1, <2>1 DEF KbReadLine, GetChar, TestRoom, EndLine, EraseChar,
                      NothingToErase, StoreChar, EndReadLine, Echo
  <2>2. CASE PutChar(Shell)
    BY <1>1, <2>2
  <2>3. CASE ClearRow \/ ClearCol
    BY <2>3 DEF ClearRow, ClearCol
  <2>4. CASE ReadLine \/ TakeLine \/ Create \/ WaitForRace
    BY <2>4 DEF ReadLine, StartLine, TakeLine, Create, WaitForRace
  <2>5. CASE \/ ShowPrompt \/ OtherCommand \/ CmdThreads \/ CmdRace
             \/ CreateFails \/ Report
    BY <1>1, <2>5 DEF ShowPrompt, OtherCommand, CmdThreads, CmdRace, CreateFails,
                      Report, Says
  <2> QED
    BY <1>5, <2>1, <2>2, <2>3, <2>4, <2>5 DEF ShellStep
<1> QED
  BY <1>2, <1>3, <1>4, <1>5 DEF Next

\* The cursor of vga.c, whoever prints and however the calls interleave:
\* below the screen it is only while somebody is about to scroll.
THEOREM CursorReturns == Spec => []CursorComesBack
<1>1. Init => CursorInv
  BY RowsAreNatural DEF Init, ConsoleInit, CursorInv, CursorTypeOK, CursorComesBack,
                        PutCharSteps
<1>2. CursorInv /\ [Next]_vars => CursorInv'
  BY StepsOfConsole, PutCharKeeps, PutsKeeps, StutterKeeps, ClearKeeps
<1>3. CursorInv => CursorComesBack
  BY DEF CursorInv
<1> QED
  BY <1>1, <1>2, <1>3, PTL DEF Spec

-----------------------------------------------------------------------------
(* The shift keys.                                                         *)

IsRelease(code) == code.release /\ code.key \in Shifts

\* ShiftIsNotStuck says nothing of a press that waits to be read, and is not
\* inductive without: behind each one there is a release, or a key is down.
ShiftInv ==
    /\ queue \in Seq([key : Keys, release : BOOLEAN])
    /\ down \subseteq Shifts
    /\ shift_held => down # {} \/ \E n \in DOMAIN queue : IsRelease(queue[n])
    /\ \A n \in DOMAIN queue :
          queue[n].key \in Shifts =>
             down # {} \/ \E m \in DOMAIN queue : m >= n /\ IsRelease(queue[m])

LEMMA AppendAtEnd ==
    ASSUME NEW S, NEW s \in Seq(S), NEW e \in S
    PROVE  /\ Append(s, e) \in Seq(S)
           /\ DOMAIN Append(s, e) = DOMAIN s \cup {Len(s) + 1}
           /\ Append(s, e)[Len(s) + 1] = e
           /\ \A n \in DOMAIN s : Append(s, e)[n] = s[n] /\ n < Len(s) + 1
           /\ Len(s) + 1 >= Len(s) + 1
OBVIOUS

LEMMA PressKeeps ==
    ASSUME ShiftInv, NEW key \in Keys, Press(key), shift_held' = shift_held
    PROVE  ShiftInv'
<1> DEFINE code == [key |-> key, release |-> FALSE]
           S == [key : Keys, release : BOOLEAN]
<1>1. /\ queue' = Append(queue, code)
      /\ down' = down \cup ({key} \cap Shifts)
      /\ code \in S /\ code.key = key /\ queue \in Seq(S)
  BY DEF Press, ShiftInv
<1> HIDE DEF code, S
<1>2. CASE key \in Shifts
  <2>1. down' # {} /\ down' \subseteq Shifts
    BY <1>1, <1>2 DEF ShiftInv
  <2> QED
    BY <1>1, <2>1, AppendAtEnd DEF ShiftInv, S
<1>3. CASE key \notin Shifts
  <2>1. down' = down /\ Append(queue, code)[Len(queue) + 1].key \notin Shifts
    BY <1>1, <1>3, AppendAtEnd
  <2> QED
    BY <1>1, <2>1, AppendAtEnd DEF ShiftInv, S
<1> QED
  BY <1>2, <1>3

LEMMA ReleaseKeeps ==
    ASSUME ShiftInv, NEW key \in Keys, Release(key), shift_held' = shift_held
    PROVE  ShiftInv'
<1> DEFINE code == [key |-> key, release |-> TRUE]
           S == [key : Keys, release : BOOLEAN]
<1>1. /\ queue' = Append(queue, code)
      /\ down' = down \ {key}
      /\ code \in S /\ code.key = key /\ code.release /\ queue \in Seq(S)
  BY DEF Release, ShiftInv
<1> HIDE DEF code, S
<1>2. CASE key \in Shifts
  <2>1. IsRelease(Append(queue, code)[Len(queue) + 1])
    BY <1>1, <1>2, AppendAtEnd DEF IsRelease
  <2>2. \A n \in DOMAIN Append(queue, code) : n <= Len(queue) + 1
    BY <1>1, AppendAtEnd
  <2> QED
    BY <1>1, <2>1, <2>2, AppendAtEnd DEF ShiftInv, S
<1>3. CASE key \notin Shifts
  <2>1. down' = down /\ Append(queue, code)[Len(queue) + 1].key \notin Shifts
    BY <1>1, <1>3, AppendAtEnd DEF ShiftInv
  <2> QED
    BY <1>1, <2>1, AppendAtEnd DEF ShiftInv, S
<1> QED
  BY <1>2, <1>3

LEMMA GetCharKeeps ==
    ASSUME ShiftInv, GetChar
    PROVE  ShiftInv'
<1>1. /\ queue # <<>> /\ queue' = Tail(queue)
      /\ shift_held' = ShiftAfter(shift_held, Head(queue))
      /\ UNCHANGED down
  BY DEF GetChar
<1>2. \A n \in DOMAIN queue' : queue'[n] = queue[n + 1] /\ n + 1 \in DOMAIN queue
  BY <1>1 DEF ShiftInv
<1>3. \A n \in DOMAIN queue : n > 1 => n - 1 \in DOMAIN queue' /\ queue'[n - 1] = queue[n]
  BY <1>1 DEF ShiftInv
<1>4. 1 \in DOMAIN queue /\ Head(queue) = queue[1] /\ DOMAIN queue \subseteq Nat \ {0}
  BY <1>1 DEF ShiftInv
<1>5. queue' \in Seq([key : Keys, release : BOOLEAN])
  BY <1>1 DEF ShiftInv
<1>6. ASSUME NEW n \in DOMAIN queue', queue'[n].key \in Shifts
      PROVE  down # {} \/ \E m \in DOMAIN queue' : m >= n /\ IsRelease(queue'[m])
  <2>1. SUFFICES ASSUME NEW m \in DOMAIN queue, m >= n + 1, IsRelease(queue[m])
                 PROVE  \E l \in DOMAIN queue' : l >= n /\ IsRelease(queue'[l])
    BY <1>2, <1>6 DEF ShiftInv
  <2>2. n \in Nat /\ n > 0
    BY <1>5
  <2>3. m - 1 \in DOMAIN queue' /\ queue'[m - 1] = queue[m] /\ m - 1 >= n
    BY <1>3, <1>4, <2>1, <2>2
  <2> QED
    BY <2>1, <2>3
<1>7. ASSUME shift_held', down = {}
      PROVE  \E n \in DOMAIN queue' : IsRelease(queue'[n])
  <2>1. PICK m \in DOMAIN queue : IsRelease(queue[m])
    BY <1>1, <1>4, <1>7 DEF ShiftAfter, ShiftInv
  <2>2. CASE m > 1
    BY <1>3, <2>1, <2>2
  <2>3. CASE m = 1
    BY <1>1, <1>4, <1>7, <2>1, <2>3 DEF ShiftAfter, IsRelease
  <2> QED
    BY <1>4, <2>2, <2>3
<1> QED
  BY <1>1, <1>5, <1>6, <1>7 DEF ShiftInv

\* Every step of the system is one of these for the keyboard.
LEMMA StepsOfKeyboard ==
    ASSUME user \in Users, [Next]_vars
    PROVE  /\ user' = user
           /\ \/ UNCHANGED <<queue, down, shift_held>>
              \/ GetChar
              \/ \E key \in Keys : (Press(key) \/ Release(key)) /\ UNCHANGED shift_held
<1>1. CASE UNCHANGED vars
  BY <1>1 DEF vars, keyboardVars, keyVars, shellVars
<1>2. CASE UserStep
  <2>1. user.keys \subseteq Keys
    BY ThreadDemosAssumption DEF ThreadDemosAssumption
  <2> QED
    BY <1>2, <2>1 DEF UserStep, shellVars
<1>3. CASE \E t \in Threads : Thread(t)
  BY <1>3 DEF Thread, shellVars, keyboardVars, keyVars
<1>4. CASE ShellStep
  <2>1. CASE KbReadLine
    BY <1>4, <2>1 DEF ShellStep, KbReadLine, TestRoom, EndLine, EraseChar,
                      NothingToErase, StoreChar, EndReadLine, keyVars
  <2>2. CASE ~KbReadLine
    BY <1>4, <2>2 DEF ShellStep, ShowPrompt, ReadLine, StartLine, TakeLine, OtherCommand,
                      ClearRow, ClearCol, CmdThreads, CmdRace, Create, CreateFails,
                      WaitForRace, Report, Says, keyboardVars, keyVars
  <2> QED
    BY <1>4, <2>1, <2>2 DEF ShellStep
<1> QED
  BY <1>1, <1>2, <1>3, <1>4 DEF Next

\* shift_held in keyboard.c: one flag follows two keys, and no order of
\* presses and releases leaves it set when both are up.
THEOREM ShiftFollowsKeys == Spec => []ShiftIsNotStuck
<1> DEFINE Inv == user \in Users /\ ShiftInv
<1>1. Init => Inv
  BY DEF Init, KeyboardInit, ShiftInv
<1>2. Inv /\ [Next]_vars => Inv'
  <2> SUFFICES ASSUME Inv, [Next]_vars PROVE Inv'
    OBVIOUS
  <2>1. user' \in Users
    BY StepsOfKeyboard
  <2>2. CASE UNCHANGED <<queue, down, shift_held>>
    BY <2>1, <2>2 DEF ShiftInv
  <2>3. CASE GetChar
    BY <2>1, <2>3, GetCharKeeps
  <2>4. CASE \E key \in Keys : (Press(key) \/ Release(key)) /\ UNCHANGED shift_held
    BY <2>1, <2>4, PressKeeps, ReleaseKeeps
  <2> QED
    BY <2>2, <2>3, <2>4, StepsOfKeyboard
<1>3. Inv => ShiftIsNotStuck
  BY DEF ShiftInv, ShiftIsNotStuck, IsRelease
<1> QED
  BY <1>1, <1>2, <1>3, PTL DEF Spec
-----------------------------------------------------------------------------
(* The counter of `race`.                                                  *)

RaceSteps == {"read", "write", "loadDone", "storeDone"}
Finished(t) == pc[t] \in {"exit", "gone"}
AreFinished(t) == IF Finished(t) THEN 1 ELSE 0

RaceTypeOK ==
    /\ pc \in [Threads -> {"unused", "print", "exit", "gone"} \cup RaceSteps]
    /\ k \in [Threads -> Nat]
    /\ temp \in [Threads -> Nat]
    /\ myglobal \in Nat
    /\ race_done \in Nat

\* Nobody but the threads of S is in race_thread.
OnlyRacing(S) == \A t \in Threads \ S : pc[t] \notin RaceSteps

\* What one of two racing threads knows; `other` may have overwritten its
\* updates, but not undone that somebody has written.
RacerInv(t, other) ==
    /\ pc[t] \in RaceSteps \cup {"unused", "exit", "gone"}
    /\ k[t] <= RaceIterations
    /\ pc[t] \in {"read", "write"} => k[t] < RaceIterations
    /\ pc[t] \in {"loadDone", "storeDone", "exit", "gone"} => k[t] = RaceIterations
    /\ pc[t] = "unused" => k[t] = 0
    /\ pc[t] = "write" => temp[t] <= k[t] + k[other] /\ (k[t] >= 1 => temp[t] >= 1)
    /\ pc[t] = "storeDone" => temp[t] <= AreFinished(other)

\* Two threads that race, or that will when they have been created.
PairInv(t, u) ==
    /\ OnlyRacing({t, u})
    /\ RacerInv(t, u)
    /\ RacerInv(u, t)
    /\ myglobal <= k[t] + k[u]
    /\ k[t] >= 1 \/ k[u] >= 1 => myglobal >= 1
    /\ k[t] >= 2 /\ k[u] >= 2 => myglobal >= 2
    /\ race_done <= AreFinished(t) + AreFinished(u)

\* A race for which there is one slot only leaves the thread it got behind,
\* and no slot for another.
RaceInv ==
    /\ RaceTypeOK
    /\ \A t \in FreeSlots : k[t] = 0
    /\ shell = "wait" => job = "race"
    /\ job = "race" /\ shell = "create" =>
          \/ FreeSlots = {}
          \/ created = 0 /\ \A t, u \in FreeSlots : t # u => PairInv(t, u)
          \/ created = 1 /\ \E t \in Threads \ FreeSlots :
                               \A u \in FreeSlots : PairInv(t, u)
    /\ job = "race" /\ shell \in {"wait", "report"} =>
          \E t, u \in Threads :
             /\ t # u
             /\ PairInv(t, u)
             /\ shell = "report" => Finished(t) /\ Finished(u)
    /\ ~(job = "race" /\ shell \in {"create", "wait", "report"}) =>
          FreeSlots = {} \/ OnlyRacing({})

\* A step of one of the two racing threads.
LEMMA RacerStep ==
    ASSUME RaceTypeOK, NEW t \in Threads, NEW u \in Threads, t # u, PairInv(t, u),
           ReadGlobal(t) \/ WriteGlobal(t) \/ LoadDone(t) \/ StoreDone(t) \/ Exit(t)
    PROVE  PairInv(t, u)'
<1> USE ThreadDemosAssumption DEF ThreadDemosAssumption, PairInv, RaceTypeOK, OnlyRacing
<1>1. CASE ReadGlobal(t)
  BY <1>1 DEF ReadGlobal, RacerInv, AreFinished, Finished, raceVars, RaceSteps
<1>2. CASE WriteGlobal(t)
  BY <1>2 DEF WriteGlobal, RacerInv, AreFinished, Finished, RaceSteps
<1>3. CASE LoadDone(t)
  BY <1>3 DEF LoadDone, RacerInv, AreFinished, Finished, raceVars, RaceSteps
<1>4. CASE StoreDone(t)
  BY <1>4 DEF StoreDone, RacerInv, AreFinished, Finished, RaceSteps
<1>5. CASE Exit(t)
  BY <1>5 DEF Exit, RacerInv, AreFinished, Finished, raceVars, RaceSteps
<1> QED
  BY <1>1, <1>2, <1>3, <1>4, <1>5

LEMMA PairIsSymmetric ==
    ASSUME NEW t \in Threads, NEW u \in Threads, RaceTypeOK, PairInv(t, u)
    PROVE  PairInv(u, t)
BY DEF PairInv, OnlyRacing, RaceTypeOK, AreFinished

\* What a step of a thread may change.
LEMMA ThreadEffect ==
    ASSUME RaceTypeOK, NEW t \in Threads, Thread(t)
    PROVE  /\ RaceTypeOK' /\ FreeSlots' = FreeSlots
           /\ UNCHANGED <<shell, job, created>>
           /\ \A u \in Threads \ {t} : pc'[u] = pc[u] /\ k'[u] = k[u] /\ temp'[u] = temp[u]
           /\ pc[t] = "unused" => k'[t] = k[t]
           /\ pc'[t] \in RaceSteps => pc[t] \in RaceSteps
           /\ \/ UNCHANGED <<pc, k, temp, myglobal, race_done>>
              \/ PrintLine(t)
              \/ ReadGlobal(t) \/ WriteGlobal(t) \/ LoadDone(t) \/ StoreDone(t) \/ Exit(t)
<1> USE DEF Thread, shellVars, threadVars, raceVars, RaceTypeOK, FreeSlots, RaceSteps
<1>1. CASE PutChar(t) /\ UNCHANGED <<threadVars, raceVars>>
  BY <1>1
<1>2. CASE PrintLine(t) \/ Exit(t)
  BY <1>2 DEF PrintLine, Exit
<1>3. CASE ReadGlobal(t) \/ WriteGlobal(t)
  BY <1>3 DEF ReadGlobal, WriteGlobal
<1>4. CASE LoadDone(t) \/ StoreDone(t)
  BY <1>4 DEF LoadDone, StoreDone
<1> QED
  BY <1>1, <1>2, <1>3, <1>4

LEMMA PairKept ==
    ASSUME RaceTypeOK, NEW x \in Threads, NEW y \in Threads, x # y, PairInv(x, y),
           NEW t \in Threads, Thread(t)
    PROVE  PairInv(x, y)'
<1>1. CASE UNCHANGED <<pc, k, temp, myglobal, race_done>>
  BY <1>1 DEF PairInv, RacerInv, OnlyRacing, AreFinished, Finished
<1>2. CASE PrintLine(t)
  <2>1. /\ t \notin {x, y} /\ UNCHANGED <<temp, myglobal, race_done>>
        /\ pc'[x] = pc[x] /\ pc'[y] = pc[y] /\ k'[x] = k[x] /\ k'[y] = k[y]
    BY <1>2, ThreadEffect DEF PrintLine, raceVars, PairInv, RacerInv, RaceSteps
  <2>2. OnlyRacing({x, y})'
    BY ThreadEffect DEF PairInv, OnlyRacing
  <2> QED
    BY <2>1, <2>2 DEF PairInv, RacerInv, AreFinished, Finished
<1>3. CASE ReadGlobal(t) \/ WriteGlobal(t) \/ LoadDone(t) \/ StoreDone(t) \/ Exit(t)
  <2>1. CASE t = x
    BY <1>3, <2>1, RacerStep
  <2>2. CASE t = y
    <3>1. PairInv(y, x)
      BY PairIsSymmetric
    <3>2. PairInv(y, x)'
      BY <1>3, <2>2, <3>1, RacerStep
    <3>3. RaceTypeOK'
      BY ThreadEffect
    <3> QED
      BY <3>2, <3>3 DEF PairInv, OnlyRacing, RaceTypeOK, AreFinished
  <2>3. CASE t \notin {x, y}
    <3>1. Exit(t) /\ UNCHANGED <<temp, myglobal, race_done>>
      BY <1>3, <2>3 DEF PairInv, OnlyRacing, RaceSteps, ReadGlobal, WriteGlobal, LoadDone,
                        StoreDone, Exit, raceVars
    <3>2. pc'[x] = pc[x] /\ pc'[y] = pc[y] /\ k'[x] = k[x] /\ k'[y] = k[y]
      BY <2>3, ThreadEffect
    <3>3. OnlyRacing({x, y})'
      BY ThreadEffect DEF PairInv, OnlyRacing
    <3> QED
      BY <3>1, <3>2, <3>3 DEF PairInv, RacerInv, AreFinished, Finished
  <2> QED
    BY <2>1, <2>2, <2>3
<1> QED
  BY <1>1, <1>2, <1>3, ThreadEffect

LEMMA ThreadKeepsRace ==
    ASSUME RaceInv, NEW t \in Threads, Thread(t)
    PROVE  RaceInv'
<1>1. /\ RaceTypeOK /\ RaceTypeOK' /\ FreeSlots' = FreeSlots
      /\ UNCHANGED <<shell, job, created>>
      /\ \A u \in FreeSlots : k'[u] = k[u]
  BY ThreadEffect DEF RaceInv, FreeSlots
<1>2. \A x, y \in Threads : x # y /\ PairInv(x, y) => PairInv(x, y)'
  BY <1>1, PairKept
<1>3. FreeSlots \subseteq Threads
  BY DEF FreeSlots
<1>4. job = "race" /\ shell = "create" =>
         \/ FreeSlots = {}
         \/ created = 0 /\ \A x, y \in FreeSlots : x # y => PairInv(x, y)'
         \/ created = 1 /\ \E x \in Threads \ FreeSlots : \A y \in FreeSlots : PairInv(x, y)'
  BY <1>2, <1>3 DEF RaceInv
<1>5. ASSUME job = "race", shell \in {"wait", "report"}
      PROVE  \E x, y \in Threads :
                /\ x # y
                /\ PairInv(x, y)'
                /\ shell = "report" => Finished(x)' /\ Finished(y)'
  <2>1. PICK x, y \in Threads : /\ x # y /\ PairInv(x, y)
                                /\ shell = "report" => Finished(x) /\ Finished(y)
    BY <1>5 DEF RaceInv
  <2>2. ASSUME NEW u \in Threads, Finished(u) PROVE Finished(u)'
    BY <1>1, <2>2, ThreadEffect
    DEF Finished, PrintLine, Exit, ReadGlobal, WriteGlobal, LoadDone, StoreDone, RaceTypeOK
  <2> QED
    BY <1>2, <2>1, <2>2
<1>6. OnlyRacing({}) => OnlyRacing({})'
  BY <1>1, ThreadEffect DEF OnlyRacing
<1> QED
  BY <1>1, <1>4, <1>5, <1>6 DEF RaceInv

\* The search of thread_create stops at a slot if there is a free one.
LEMMA FirstFreeSlot ==
    ASSUME NEW S \in SUBSET Nat, S # {}
    PROVE  \E n \in S : \A m \in S : n <= m
<1> DEFINE less == {p \in Nat \X Nat : p[1] < p[2]}
<1>1. IsWellFoundedOn(less, Nat)
  BY NatLessThanWellFounded DEF OpToRel
<1>2. PICK n \in S : \A m \in S : <<m, n>> \notin less
  <2> HIDE DEF less
  <2> QED
    BY <1>1, WFMin
<1>3. ASSUME NEW m \in S PROVE n <= m
  <2>1. n \in Nat /\ m \in Nat /\ <<m, n>> \in Nat \X Nat
    OBVIOUS
  <2>2. ~(<<m, n>>[1] < <<m, n>>[2])
    BY <1>2, <2>1
  <2> QED
    BY <2>1, <2>2
<1> QED
  BY <1>3

\* The shell, when no race is under way.
LEMMA OtherShellSteps ==
    ASSUME RaceInv, UNCHANGED <<pc, k, temp, myglobal, race_done, job, created>>,
           \/ UNCHANGED shell
           \/ shell \notin {"create", "wait", "report"}
              /\ shell' \notin {"create", "wait", "report"}
    PROVE  RaceInv'
BY DEF RaceInv, RaceTypeOK, FreeSlots, PairInv, RacerInv, OnlyRacing, AreFinished, Finished

\* thread_create takes the first free slot.
LEMMA CreateKeepsRace ==
    ASSUME RaceInv, Create, UNCHANGED <<k, temp>>
    PROVE  RaceInv'
<1> USE DEF RaceTypeOK
<1>1. /\ FreeSlots # {} /\ FreeSlots \subseteq Threads /\ Threads \subseteq Nat
      /\ shell = "create" /\ created' = created + 1
      /\ UNCHANGED <<job, myglobal, race_done>>
      /\ shell' = IF created + 1 < Started THEN "create"
                  ELSE IF job = "race" THEN "wait" ELSE "report"
  BY ThreadDemosAssumption
  DEF Create, ShellGoto, FreeSlots, Threads, raceVars, ThreadDemosAssumption
<1>2. PICK t \in FreeSlots :
         pc' = [pc EXCEPT ![t] = IF job = "race" THEN "read" ELSE "print"]
  <2>1. \E t \in FreeSlots : \A u \in FreeSlots : t <= u
    BY <1>1, FirstFreeSlot
  <2> QED
    BY <2>1 DEF Create
<1>3. RaceTypeOK' /\ FreeSlots' = FreeSlots \ {t} /\ k[t] = 0
  BY <1>1, <1>2 DEF RaceInv, FreeSlots, RaceSteps
<1>4. CASE job = "race"
  <2>1. ASSUME NEW x \in Threads, NEW y \in Threads, x # y, PairInv(x, y), t \in {x, y}
        PROVE  PairInv(x, y)'
    BY <1>1, <1>2, <1>3, <1>4, <2>1, ThreadDemosAssumption
    DEF PairInv, RacerInv, OnlyRacing, AreFinished, Finished, FreeSlots, RaceSteps,
        ThreadDemosAssumption
  <2>2. CASE created = 0
    <3>1. \A x, y \in FreeSlots : x # y => PairInv(x, y)
      BY <1>1, <1>4, <2>2 DEF RaceInv
    <3>2. t \in Threads \ FreeSlots' /\ \A u \in FreeSlots' : PairInv(t, u)'
      BY <1>1, <1>3, <2>1, <3>1
    <3>3. \A u \in FreeSlots' : k'[u] = 0
      BY <1>3 DEF RaceInv
    <3>4. shell' = "create" /\ created' = 1 /\ job' = "race"
      BY <1>1, <1>4, <2>2 DEF Started
    <3> QED
      BY <1>3, <3>2, <3>3, <3>4 DEF RaceInv
  <2>3. CASE created = 1
    <3>1. PICK x \in Threads \ FreeSlots : \A u \in FreeSlots : PairInv(x, u)
      BY <1>1, <1>4, <2>3 DEF RaceInv
    <3>2. x # t /\ t \in Threads /\ PairInv(x, t)'
      BY <1>1, <2>1, <3>1
    <3>3. \A u \in FreeSlots' : k'[u] = 0
      BY <1>3 DEF RaceInv
    <3>4. shell' = "wait" /\ job' = "race"
      BY <1>1, <1>4, <2>3 DEF Started
    <3> QED
      BY <1>3, <3>2, <3>3, <3>4 DEF RaceInv
  <2> QED
    BY <1>1, <1>4, <2>2, <2>3 DEF RaceInv
<1>5. CASE job # "race"
  <2>1. OnlyRacing({})
    BY <1>1, <1>5 DEF RaceInv
  <2>2. OnlyRacing({})'
    BY <1>1, <1>2, <1>5, <2>1 DEF OnlyRacing, RaceSteps
  <2>3. \A u \in FreeSlots' : k'[u] = 0
    BY <1>3 DEF RaceInv
  <2> QED
    BY <1>1, <1>3, <1>5, <2>2, <2>3 DEF RaceInv
<1> QED
  BY <1>4, <1>5

LEMMA RaceCommandKeepsRace ==
    ASSUME RaceInv, CmdRace \/ CmdThreads \/ CreateFails \/ WaitForRace \/ Report,
           UNCHANGED <<k, temp>>
    PROVE  RaceInv'
<1> USE DEF raceVars, ShellGoto, Says
<1>1. CASE CmdRace
  <2>1. /\ shell = "command" /\ shell' = "create" /\ job' = "race" /\ created' = 0
        /\ myglobal' = 0 /\ race_done' = 0 /\ pc' = pc /\ FreeSlots' = FreeSlots
    BY <1>1 DEF CmdRace, FreeSlots
  <2>2. FreeSlots = {} \/ OnlyRacing({})
    BY <2>1 DEF RaceInv
  <2>3. OnlyRacing({}) => \A t, u \in FreeSlots : t # u => PairInv(t, u)'
    BY <2>1, ThreadDemosAssumption
    DEF RaceInv, PairInv, RacerInv, OnlyRacing, AreFinished, Finished, FreeSlots,
        ThreadDemosAssumption
  <2> QED
    BY <2>1, <2>2, <2>3 DEF RaceInv, RaceTypeOK
<1>2. CASE CmdThreads
  <2>1. /\ shell = "command" /\ shell' = "create" /\ job' = "threads" /\ pc' = pc
        /\ UNCHANGED <<myglobal, race_done>> /\ FreeSlots' = FreeSlots
    BY <1>2 DEF CmdThreads, FreeSlots
  <2>2. FreeSlots = {} \/ OnlyRacing({})'
    BY <2>1 DEF RaceInv, OnlyRacing
  <2> QED
    BY <2>1, <2>2 DEF RaceInv, RaceTypeOK
<1>3. CASE CreateFails
  <2>1. FreeSlots' = {} /\ shell' = "prompt" /\ UNCHANGED <<pc, myglobal, race_done>>
    BY <1>3 DEF CreateFails, FreeSlots
  <2> QED
    BY <2>1 DEF RaceInv, RaceTypeOK
<1>4. CASE WaitForRace
  <2>1. /\ shell = "wait" /\ shell' \in {"wait", "report"} /\ job = "race" /\ job' = job
        /\ UNCHANGED <<pc, myglobal, race_done>> /\ FreeSlots' = FreeSlots
        /\ shell' = "report" => race_done >= 2
    BY <1>4 DEF WaitForRace, AllHaveFinished, Started, FreeSlots, RaceInv
  <2>2. PICK t, u \in Threads : t # u /\ PairInv(t, u)
    BY <2>1 DEF RaceInv
  <2>3. shell' = "report" => Finished(t)' /\ Finished(u)'
    BY <2>1, <2>2 DEF PairInv, AreFinished, RaceInv, RaceTypeOK, Finished
  <2>4. PairInv(t, u)'
    BY <2>1, <2>2 DEF PairInv, RacerInv, OnlyRacing, AreFinished, Finished
  <2> QED
    BY <2>1, <2>2, <2>3, <2>4 DEF RaceInv, RaceTypeOK
<1>5. CASE Report
  <2>1. /\ shell = "report" /\ shell' = "prompt" /\ job' = job
        /\ UNCHANGED <<pc, myglobal, race_done>> /\ FreeSlots' = FreeSlots
    BY <1>5 DEF Report, FreeSlots
  <2>2. CASE job = "race"
    <3>1. PICK t, u \in Threads : PairInv(t, u) /\ Finished(t) /\ Finished(u)
      BY <2>1, <2>2 DEF RaceInv
    <3>2. OnlyRacing({})'
      BY <2>1, <3>1 DEF PairInv, OnlyRacing, Finished, RaceSteps
    <3> QED
      BY <2>1, <3>2 DEF RaceInv, RaceTypeOK
  <2>3. CASE job # "race"
    <3>1. FreeSlots' = {} \/ OnlyRacing({})'
      BY <2>1, <2>3 DEF RaceInv, OnlyRacing
    <3> QED
      BY <2>1, <3>1 DEF RaceInv, RaceTypeOK
  <2> QED
    BY <2>2, <2>3
<1> QED
  BY <1>1, <1>2, <1>3, <1>4, <1>5

\* What `race` reports: nobody counts an increment twice, and however the two
\* threads overwrite each other's, the last write of the slower one is based
\* on some earlier one.
THEOREM RaceLosesNotEverything == Spec => []RaceTotalInRange
<1>1. Init => RaceInv
  BY DEF Init, RaceInv, RaceTypeOK, FreeSlots, OnlyRacing, RaceSteps
<1>2. RaceInv /\ [Next]_vars => RaceInv'
  <2> SUFFICES ASSUME RaceInv, [Next]_vars PROVE RaceInv'
    OBVIOUS
  <2>1. CASE UNCHANGED vars \/ UserStep
    BY <2>1, OtherShellSteps DEF vars, UserStep, shellVars, threadVars, raceVars
  <2>2. CASE \E t \in Threads : Thread(t)
    BY <2>2, ThreadKeepsRace
  <2>3. CASE ShellStep
    <3>1. UNCHANGED <<k, temp>>
      BY <2>3 DEF ShellStep
    <3>2. CASE Create
      BY <3>1, <3>2, CreateKeepsRace
    <3>3. CASE CmdRace \/ CmdThreads \/ CreateFails \/ WaitForRace \/ Report
      BY <3>1, <3>3, RaceCommandKeepsRace
    <3>4. CASE \/ ShowPrompt \/ ReadLine \/ TakeLine \/ OtherCommand \/ ClearRow \/ ClearCol
      BY <3>1, <3>4, OtherShellSteps
      DEF ShowPrompt, ReadLine, TakeLine, OtherCommand, ClearRow, ClearCol, Says, ShellGoto,
          raceVars
    <3>5. CASE UNCHANGED <<shell, job, created, pc, raceVars>>
      BY <3>1, <3>5, OtherShellSteps DEF raceVars
    <3> QED
      BY <2>3, <3>2, <3>3, <3>4, <3>5 DEF ShellStep
  <2> QED
    BY <2>1, <2>2, <2>3 DEF Next
<1>3. RaceInv => RaceTotalInRange
  <2> SUFFICES ASSUME RaceInv, shell = "report", job = "race"
               PROVE  /\ myglobal <= Started * RaceIterations
                      /\ myglobal >= IF RaceIterations = 1 THEN 1 ELSE 2
    BY DEF RaceTotalInRange
  <2>1. PICK t, u \in Threads : PairInv(t, u) /\ Finished(t) /\ Finished(u)
    BY DEF RaceInv
  <2>2. /\ RaceIterations \in Nat \ {0} /\ k[t] = RaceIterations /\ k[u] = RaceIterations
        /\ myglobal \in Nat
    BY <2>1, ThreadDemosAssumption
    DEF PairInv, RacerInv, Finished, ThreadDemosAssumption, RaceInv, RaceTypeOK
  <2> QED
    BY <2>1, <2>2 DEF PairInv, Started
<1> QED
  BY <1>1, <1>2, <1>3, PTL DEF Spec

-----------------------------------------------------------------------------
(* kb_readline implements LineEditor.                                      *)

\* Room for the terminator, and a line without a NUL before its end.
LineInv ==
    /\ queue \in Seq([key : Keys, release : BOOLEAN])
    /\ reader \in {"idle", "test", "getchar", "typed", "terminate", "given"}
    /\ buf \in [0..(LineSize - 1) -> Typable \cup {NUL}]
    /\ i \in 0..(LineSize - 1)
    /\ reader \in {"getchar", "typed"} => i < LineSize - 1
    /\ reader = "typed" => char \in Typable \cup {"newline", "back"}
    /\ Editing => \A n \in 0..(i - 1) : buf[n] # NUL

EditedLine == [n \in 1..(IF Editing THEN i ELSE StringEnd) |-> buf[n - 1]]

LEMMA FirstOfQueue ==
    ASSUME NEW Codes, NEW codes \in Seq(Codes), codes # <<>>
    PROVE  Head(codes) \in Codes /\ Tail(codes) \in Seq(Codes)
OBVIOUS

\* kb_getchar: a key that gives a character gives one that can be typed.
LEMMA TranslatedIsTyped ==
    ASSUME NEW code \in [key : Keys, release : BOOLEAN]
    PROVE  Translated(code) \in Typable \cup {"newline", "back", NUL}
<1>1. CASE code.key \in Shifts
  BY <1>1 DEF Translated
<1>2. CASE code.key \in {"letter", "enter", "back", "tab", "space", "pad"}
  <2>1. sc_ascii[code.key] \in Typable \cup {"newline", "back"}
    BY <1>2 DEF sc_ascii, Typable
  <2>2. sc_ascii_shift[code.key] \in Typable \cup {"newline", "back", NUL}
    <3>1. /\ sc_ascii_shift.letter = "capital" /\ sc_ascii_shift.enter = "newline"
          /\ sc_ascii_shift.back = "back" /\ sc_ascii_shift.tab = "tab"
          /\ sc_ascii_shift.space = "space" /\ sc_ascii_shift.pad = NUL
      BY DEF sc_ascii, sc_ascii_shift
    <3> QED
      BY <1>2, <3>1 DEF Typable
  <2> QED
    BY <2>1, <2>2 DEF Translated
<1> QED
  BY <1>1, <1>2 DEF Keys

\* What is under way is a line that kb_readline edits at its end.
LEMMA ReadLineImplements ==
    ASSUME LineInv, KbReadLine
    PROVE  LineInv' /\ (Editor!Next \/ UNCHANGED <<Editing, EditedLine>>)
<1> USE KeyboardAssumption DEF KeyboardAssumption, LineInv, Editing, keyVars
<1>1. CASE GetChar
  <2>1. /\ reader = "getchar" /\ reader' \in {"getchar", "typed"}
        /\ Head(queue) \in [key : Keys, release : BOOLEAN]
        /\ queue' \in Seq([key : Keys, release : BOOLEAN])
        /\ char' = Translated(Head(queue))
        /\ reader' = "typed" => char' # NUL
        /\ UNCHANGED <<buf, i>>
    <3>1. /\ reader = "getchar" /\ queue # <<>> /\ queue' = Tail(queue)
          /\ char' = Translated(Head(queue)) /\ UNCHANGED <<buf, i>>
          /\ reader' = IF char' = NUL THEN "getchar" ELSE "typed"
      BY <1>1 DEF GetChar
    <3>2. /\ Head(queue) \in [key : Keys, release : BOOLEAN]
          /\ queue' \in Seq([key : Keys, release : BOOLEAN])
      BY <3>1, FirstOfQueue
    <3> QED
      BY <3>1, <3>2
  <2>2. char' \in Typable \cup {"newline", "back", NUL}
    BY <2>1, TranslatedIsTyped
  <2> QED
    BY <2>1, <2>2 DEF EditedLine
<1>2. CASE TestRoom
  <2>1. /\ reader = "test" /\ reader' = IF i < LineSize - 1 THEN "getchar" ELSE "terminate"
        /\ UNCHANGED <<queue, buf, i, char>>
    BY <1>2 DEF TestRoom, RoomInLine
  <2> QED
    BY <2>1 DEF EditedLine
<1>3. CASE EndLine \/ NothingToErase
  <2>1. /\ reader = "typed" /\ reader' \in {"test", "terminate"}
        /\ UNCHANGED <<queue, buf, i>>
    BY <1>3 DEF EndLine, NothingToErase, Echo
  <2> QED
    BY <2>1 DEF EditedLine
<1>4. CASE EraseChar
  <2>1. /\ reader = "typed" /\ reader' = "test" /\ i > 0 /\ i' = i - 1
        /\ UNCHANGED <<queue, buf>>
    BY <1>4 DEF EraseChar, Echo
  <2>2. LineInv'
    BY <2>1
  <2>3. EditedLine' = SubSeq(EditedLine, 1, Len(EditedLine) - 1) /\ EditedLine # <<>>
    BY <2>1 DEF EditedLine
  <2> QED
    BY <2>1, <2>2, <2>3 DEF Editor!Next, Editor!Erase, EditedLine
<1>5. CASE StoreChar
  <2>1. /\ reader = "typed" /\ reader' = "test" /\ char \in Typable /\ i' = i + 1
        /\ buf' = [buf EXCEPT ![i] = char] /\ i < LineSize - 1 /\ queue' = queue
    BY <1>5 DEF StoreChar, Echo
  <2>2. char # NUL
    BY <2>1 DEF Typable, NUL
  <2>3. LineInv'
    BY <2>1, <2>2
  <2>4. EditedLine' = Append(EditedLine, char) /\ Len(EditedLine) < LineSize - 1
    BY <2>1 DEF EditedLine
  <2> QED
    BY <2>1, <2>3, <2>4 DEF Editor!Next, Editor!Type, EditedLine
<1>6. CASE EndReadLine
  <2>1. /\ reader = "terminate" /\ reader' = "given" /\ buf' = [buf EXCEPT ![i] = NUL]
        /\ UNCHANGED <<queue, i>>
    BY <1>6 DEF EndReadLine, Terminated
  <2>2. LineInv'
    BY <2>1
  <2>3. StringEnd' = i
    BY <2>1 DEF StringEnd
  <2>4. EditedLine' = EditedLine
    BY <2>1, <2>3 DEF EditedLine
  <2> QED
    BY <2>1, <2>2, <2>4 DEF Editor!Next, Editor!Give, EditedLine
<1> QED
  BY <1>1, <1>2, <1>3, <1>4, <1>5, <1>6 DEF KbReadLine

LEMMA StepImplementsLineEditor ==
    ASSUME LineInv, user \in Users, [Next]_vars
    PROVE  /\ LineInv' /\ user' \in Users
           /\ Editor!Next \/ UNCHANGED <<Editing, EditedLine>>
<1> USE DEF keyboardVars, keyVars, lineVars
<1>1. user' \in Users
  BY StepsOfKeyboard
<1>2. CASE UNCHANGED keyboardVars
  BY <1>1, <1>2 DEF LineInv, Editing, EditedLine, StringEnd
<1>3. CASE UserStep
  <2>1. /\ UNCHANGED <<shift_held, buf, i, char, reader>>
        /\ \E key \in Keys : Press(key) \/ Release(key)
    BY <1>3, ThreadDemosAssumption DEF UserStep, ThreadDemosAssumption
  <2>2. queue \in Seq([key : Keys, release : BOOLEAN])
    BY DEF LineInv
  <2>3. queue' \in Seq([key : Keys, release : BOOLEAN])
    <3>1. PICK code \in [key : Keys, release : BOOLEAN] : queue' = Append(queue, code)
      BY <2>1 DEF Press, Release
    <3> DEFINE Codes == [key : Keys, release : BOOLEAN]
    <3> HIDE DEF Codes
    <3>2. queue \in Seq(Codes) /\ code \in Codes
      BY <2>2, <3>1 DEF Codes
    <3>3. Append(queue, code) \in Seq(Codes)
      BY <3>2
    <3> QED
      BY <3>1, <3>3 DEF Codes
  <2> QED
    BY <1>1, <2>1, <2>3 DEF LineInv, Editing, EditedLine, StringEnd
<1>4. CASE \E t \in Threads : Thread(t)
  <2>1. UNCHANGED keyboardVars
    BY <1>4 DEF Thread
  <2> QED
    BY <1>2, <2>1
<1>5. CASE ShellStep
  <2>1. CASE KbReadLine
    BY <1>1, <2>1, ReadLineImplements
  <2>2. CASE ReadLine
    <3>1. /\ reader = "idle" /\ reader' = "test" /\ i' = 0 /\ UNCHANGED <<queue, buf, char>>
      BY <2>2 DEF ReadLine, StartLine
    <3>2. LineInv'
      BY <3>1, KeyboardAssumption DEF LineInv, KeyboardAssumption
    <3>3. Editing' /\ ~Editing /\ EditedLine' = <<>>
      BY <3>1 DEF Editing, EditedLine
    <3> QED
      BY <1>1, <3>2, <3>3 DEF Editor!Next, Editor!Start, EditedLine
  <2>3. CASE TakeLine
    <3>1. reader = "given" /\ reader' = "idle" /\ UNCHANGED <<queue, buf, i>>
      BY <2>3 DEF TakeLine
    <3> QED
      BY <1>1, <3>1 DEF LineInv, Editing, EditedLine, StringEnd
  <2>4. CASE ~KbReadLine /\ ~ReadLine /\ ~TakeLine
    <3>1. UNCHANGED keyboardVars
      BY <1>5, <2>4 DEF ShellStep, ShowPrompt, OtherCommand, ClearRow, ClearCol, CmdThreads,
                        CmdRace, Create, CreateFails, WaitForRace, Report, Says
    <3> QED
      BY <1>2, <3>1
  <2> QED
    BY <2>1, <2>2, <2>3, <2>4
<1>6. CASE UNCHANGED vars
  <2>1. UNCHANGED keyboardVars
    BY <1>6 DEF vars
  <2> QED
    BY <1>2, <2>1
<1> QED
  BY <1>3, <1>4, <1>5, <1>6 DEF Next

\* kb_readline and kb_getchar, whatever the user types and whoever prints
\* meanwhile: a line shorter than the buffer that is edited at its end, given
\* once, and found by the caller as it was when it was given.
THEOREM KeyboardImplementsLineEditor == Spec => ImplementsLineEditor
<1> DEFINE Inv == LineInv /\ user \in Users
<1>1. Init => Inv /\ Editor!Init
  <2> SUFFICES ASSUME Init PROVE Inv /\ Editor!Init
    OBVIOUS
  <2>1. /\ queue = <<>> /\ reader = "idle" /\ i = 0 /\ char = NUL /\ user \in Users
        /\ buf = [n \in 0..(LineSize - 1) |-> NUL]
    BY DEF Init, KeyboardInit
  <2>2. Inv /\ ~Editing
    BY <2>1, KeyboardAssumption DEF LineInv, KeyboardAssumption, Editing
  <2>3. StringEnd = 0
    BY <2>1, KeyboardAssumption DEF StringEnd, KeyboardAssumption
  <2>4. EditedLine = <<>>
    BY <2>2, <2>3 DEF EditedLine
  <2> QED
    BY <2>2, <2>4 DEF Editor!Init, EditedLine
<1>2. Inv /\ [Next]_vars => Inv'
  BY StepImplementsLineEditor
<1>3. Inv /\ [Next]_vars => [Editor!Next]_<<Editing, EditedLine>>
  BY StepImplementsLineEditor
<1> QED
  BY <1>1, <1>2, <1>3, PTL DEF Spec, ImplementsLineEditor, Editor!Spec, EditedLine
=============================================================================
