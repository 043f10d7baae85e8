---------------------------- MODULE ThreadDemos ----------------------------
(***************************************************************************)
(* The shell's loop (kernel.c) and the two commands whose threads share    *)
(* what no lock protects: `threads`, which print through the one console,  *)
(* and `race`, which add to one counter.  Any live context may make the    *)
(* next step: the timer preempts wherever it likes, and that the scheduler *)
(* reaches everybody is shown in Scheduler.                                *)
(***************************************************************************)
EXTENDS Keyboard

CONSTANTS MaxThreads,       \* slots of the thread table
          Users,            \* the keys and commands a user may use; bound:
                            \* how many scan codes may wait to be read
          Rounds,           \* how often a thread of `threads` prints, 8
          RoundText, EndText, Prompt, Message,      \* what is printed
          RaceIterations    \* RACE_ITERATIONS

Shell == 0
Threads == 1..MaxThreads
Started == 2                \* threads per command

ASSUME ThreadDemosAssumption ==
    /\ MaxThreads \in Nat /\ Printers = {Shell} \cup Threads /\ Reader = Shell
    /\ Rounds \in Nat /\ RaceIterations \in Nat \ {0}
    /\ Users \subseteq [keys : SUBSET Keys, ahead : Nat,
                         commands : SUBSET {"threads", "race", "clear", "other"}]

VARIABLES
    user,               \* who sits at the keyboard
    shell,              \* the next step of the shell
    job, created,       \* the command under way, the threads it has
    pc,                 \* the next step of each thread
    k, temp,            \* its local i, and temp or a register
    myglobal, race_done

shellVars == <<user, shell, job, created>>
threadVars == <<pc, k, temp>>
raceVars == <<myglobal, race_done>>
vars == <<consoleVars, keyboardVars, shellVars, threadVars, raceVars>>

Init ==
    /\ ConsoleInit
    /\ KeyboardInit
    /\ user \in Users
    /\ shell = "prompt" /\ job = "none" /\ created = 0
    /\ pc = [t \in Threads |-> "unused"]
    /\ k = [t \in Threads |-> 0]
    /\ temp = [t \in Threads |-> 0]
    /\ myglobal = 0 /\ race_done = 0

-----------------------------------------------------------------------------
(* test_thread_a and test_thread_b                                         *)

PrintLine(t) ==
    /\ pc[t] = "print"
    /\ IF k[t] < Rounds
       THEN /\ Puts(t, RoundText)
            /\ k' = [k EXCEPT ![t] = @ + 1]
            /\ UNCHANGED pc
       ELSE /\ Puts(t, EndText)
            /\ pc' = [pc EXCEPT ![t] = "exit"]
            /\ UNCHANGED k
    /\ UNCHANGED <<temp, raceVars>>

Exit(t) ==
    /\ pc[t] = "exit"
    /\ at[t] = "quiet"
    /\ pc' = [pc EXCEPT ![t] = "gone"]
    /\ UNCHANGED <<consoleVars, k, temp, raceVars>>

-----------------------------------------------------------------------------
(* race_thread                                                             *)

\* temp = myglobal, and the yield that follows it.
ReadGlobal(t) ==
    /\ pc[t] = "read"
    /\ temp' = [temp EXCEPT ![t] = myglobal]
    /\ pc' = [pc EXCEPT ![t] = "write"]
    /\ UNCHANGED <<consoleVars, k, raceVars>>

WriteGlobal(t) ==
    /\ pc[t] = "write"
    /\ myglobal' = temp[t] + 1
    /\ k' = [k EXCEPT ![t] = @ + 1]
    /\ pc' = [pc EXCEPT ![t] = IF k[t] + 1 < RaceIterations THEN "read" ELSE "loadDone"]
    /\ UNCHANGED <<consoleVars, temp, race_done>>

\* race_done++ is a load, an add and a store.
LoadDone(t) ==
    /\ pc[t] = "loadDone"
    /\ temp' = [temp EXCEPT ![t] = race_done]
    /\ pc' = [pc EXCEPT ![t] = "storeDone"]
    /\ UNCHANGED <<consoleVars, k, raceVars>>

StoreDone(t) ==
    /\ pc[t] = "storeDone"
    /\ race_done' = temp[t] + 1
    /\ pc' = [pc EXCEPT ![t] = "exit"]
    /\ UNCHANGED <<consoleVars, k, temp, myglobal>>

Thread(t) ==
    /\ \/ PrintLine(t) \/ Exit(t)
       \/ ReadGlobal(t) \/ WriteGlobal(t) \/ LoadDone(t) \/ StoreDone(t)
       \/ PutChar(t) /\ UNCHANGED <<threadVars, raceVars>>
    /\ UNCHANGED <<keyboardVars, shellVars>>

-----------------------------------------------------------------------------
(* shell_run                                                               *)

ShellGoto(from, to) == shell = from /\ at[Shell] = "quiet" /\ shell' = to
Says(from, to, string) ==
    /\ ShellGoto(from, to)
    /\ Puts(Shell, string)
    /\ UNCHANGED keyboardVars

ShowPrompt ==
    /\ Says("prompt", "readline", Prompt)
    /\ UNCHANGED <<job, created, pc, raceVars>>

ReadLine ==
    /\ ShellGoto("readline", "reading")
    /\ StartLine
    /\ UNCHANGED <<job, created, pc, raceVars>>

\* k_ltrim skips spaces; nothing happens if nothing is left.
IsBlank == \A n \in 0..(StringEnd - 1) : buf[n] = "space"
TakeLine ==
    /\ ShellGoto("reading", IF IsBlank THEN "prompt" ELSE "command")
    /\ reader = "given"
    /\ reader' = "idle"
    /\ UNCHANGED <<consoleVars, keyVars, shift_held, buf, i, char, job, created, pc, raceVars>>

\* A command that only prints, or one the shell does not know.
OtherCommand ==
    /\ "other" \in user.commands
    /\ Says("command", "prompt", Message)
    /\ UNCHANGED <<job, created, pc, raceVars>>

\* clear: vga_clear stores the row, then the column.
ClearRow ==
    /\ "clear" \in user.commands
    /\ ShellGoto("command", "clearCol")
    /\ HomeRow
    /\ UNCHANGED <<keyboardVars, job, created, pc, raceVars>>
ClearCol ==
    /\ ShellGoto("clearCol", "prompt")
    /\ HomeCol
    /\ UNCHANGED <<keyboardVars, job, created, pc, raceVars>>

CmdThreads ==
    /\ "threads" \in user.commands
    /\ Says("command", "create", Message)
    /\ job' = "threads" /\ created' = 0
    /\ UNCHANGED <<pc, raceVars>>

CmdRace ==
    /\ "race" \in user.commands
    /\ Says("command", "create", Message)
    /\ job' = "race" /\ created' = 0
    /\ myglobal' = 0 /\ race_done' = 0
    /\ UNCHANGED pc

FreeSlots == {t \in Threads : pc[t] = "unused"}

Create ==
    /\ FreeSlots # {}
    /\ ShellGoto("create", IF created + 1 < Started THEN "create"
                           ELSE IF job = "race" THEN "wait" ELSE "report")
    /\ created' = created + 1
    /\ LET t == CHOOSE t \in FreeSlots : \A u \in FreeSlots : t <= u
       IN  pc' = [pc EXCEPT ![t] = IF job = "race" THEN "read" ELSE "print"]
    /\ UNCHANGED <<consoleVars, keyboardVars, job, raceVars>>

\* The command gives up; a thread it has created runs on.
CreateFails ==
    /\ FreeSlots = {}
    /\ Says("create", "prompt", Message)
    /\ UNCHANGED <<job, created, pc, raceVars>>

\* while (race_done < 2) scheduler_yield(); mutation: for one thread only.
OneHasFinished == race_done >= 1
AllHaveFinished == race_done >= Started

WaitForRace ==
    /\ ShellGoto("wait", IF AllHaveFinished THEN "report" ELSE "wait")
    /\ UNCHANGED <<consoleVars, keyboardVars, job, created, pc, raceVars>>

Report ==
    /\ Says("report", "prompt", Message)
    /\ UNCHANGED <<job, created, pc, raceVars>>

ShellStep ==
    /\ \/ ShowPrompt \/ ReadLine \/ TakeLine
       \/ OtherCommand \/ ClearRow \/ ClearCol \/ CmdThreads \/ CmdRace
       \/ Create \/ CreateFails \/ WaitForRace \/ Report
       \/ KbReadLine /\ UNCHANGED <<shell, job, created, pc, raceVars>>
       \/ PutChar(Shell) /\ UNCHANGED <<keyboardVars, shell, job, created, pc, raceVars>>
    /\ UNCHANGED <<user, k, temp>>

UserStep ==
    /\ Len(queue) < user.ahead
    /\ \E key \in user.keys : Press(key) \/ Release(key)
    /\ UNCHANGED <<consoleVars, shift_held, lineVars, shellVars, threadVars, raceVars>>

Next == ShellStep \/ UserStep \/ \E t \in Threads : Thread(t)

Spec == Init /\ [][Next]_vars

-----------------------------------------------------------------------------
(* Properties.                                                             *)

\* What `race` reports: the two threads may overwrite each other's updates,
\* but two of them survive whatever happens, and none is counted twice.
RaceTotalInRange ==
    shell = "report" /\ job = "race" =>
       /\ myglobal <= Started * RaceIterations
       /\ myglobal >= IF RaceIterations = 1 THEN 1 ELSE 2
=============================================================================
