------------------------------ MODULE Dispatch ------------------------------
(***************************************************************************)
(* What the process, thread and scheduler code promises: a set of contexts *)
(* that share one CPU.  A context that waits comes back only when another  *)
(* one wakes it, a dead one never does, and whenever the CPU changes hands *)
(* it goes to a context that is ready for it.  Nothing is said here of run *)
(* queues, tables, frames or of which ready context is chosen.             *)
(***************************************************************************)
CONSTANTS Contexts,     \* everything that can have the CPU
          Boot          \* the one of them that has it at first

VARIABLES status,       \* of every context
          onCpu         \* the context that has the CPU

dispatchVars == <<status, onCpu>>

Statuses == {"free", "ready", "running", "waiting", "dead"}

Init ==
    /\ status = [c \in Contexts |-> IF c = Boot THEN "running" ELSE "free"]
    /\ onCpu = Boot

Create(c) ==
    /\ status[c] = "free"
    /\ status' = [status EXCEPT ![c] = "ready"]
    /\ UNCHANGED onCpu

\* The running context waits, or ends, and keeps the CPU until the switch.
Leave(how) ==
    /\ status[onCpu] = "running"
    /\ status' = [status EXCEPT ![onCpu] = how]
    /\ UNCHANGED onCpu

Wake(c) ==
    /\ status[onCpu] = "running"
    /\ status[c] = "waiting"
    /\ status' = [status EXCEPT ![c] = "ready"]
    /\ UNCHANGED onCpu

Kill(c) ==
    /\ c # onCpu
    /\ status[c] \in {"ready", "waiting"}
    /\ status' = [status EXCEPT ![c] = "dead"]
    /\ UNCHANGED onCpu

\* The CPU is taken from its context, which becomes ready again if it has
\* not left; the boot context has no table entry and is lost.
Preempted ==
    IF status[onCpu] # "running" THEN status
    ELSE [status EXCEPT ![onCpu] = IF onCpu = Boot THEN "dead" ELSE "ready"]

Switch(c) ==
    /\ Preempted[c] = "ready"
    /\ status' = [Preempted EXCEPT ![c] = "running"]
    /\ onCpu' = c

Next == \E c \in Contexts :
            \/ Create(c) \/ Wake(c) \/ Kill(c) \/ Switch(c)
            \/ Leave("waiting") \/ Leave("dead")

Spec == Init /\ [][Next]_dispatchVars
=============================================================================
