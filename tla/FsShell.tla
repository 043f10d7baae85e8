------------------------------ MODULE FsShell ------------------------------
(***************************************************************************)
(* The shell's commands over the file system (kernel.c): touch, rm, write  *)
(* and cat, each a sequence of calls of fs.c.  Parsing of the command line *)
(* is left out.                                                            *)
(***************************************************************************)
EXTENDS FileSystem

VARIABLE command        \* [op, fd, text, before]: the command under way, and
                        \* what its file held when the command began to write

shellVars == <<fsVars, command>>

Prompt == [op |-> "prompt", fd |-> -1, text |-> <<>>, before |-> <<>>]

ShellInit == Init /\ command = Prompt

File(fd) == Contents(open_files[fd].inode)

Touch(name) ==
    /\ command = Prompt
    /\ FsCreateFile(name) \/ CreateFileFails(name)
    /\ UNCHANGED command

Rm(name) ==
    /\ command = Prompt
    /\ FsUnlink(name) \/ UnlinkFails(name)
    /\ UNCHANGED command

\* A command that opens a file goes on if it gets a descriptor.
Opens(op, text) ==
    command' = IF reply'.code < 0 THEN Prompt
               ELSE [op |-> op, fd |-> reply'.code, text |-> text, before |-> <<>>]

Cat(name) ==
    /\ command = Prompt
    /\ FsOpen(name, FALSE)
    /\ Opens("cat", <<>>)

CatRead ==
    /\ command.op = "cat"
    /\ \E count \in Counts : FsRead(command.fd, count)
    /\ command' = [command EXCEPT !.op = IF reply'.code > 0 THEN "cat" ELSE "close"]

Write(name, text) ==
    /\ command = Prompt
    /\ FsOpen(name, TRUE)
    /\ Opens("write", text)

WriteText ==
    /\ command.op = "write"
    /\ FsWrite(command.fd, command.text)
    /\ command' = [command EXCEPT !.op = "writing", !.before = File(command.fd)]

Writing ==
    /\ command.op = "writing"
    /\ \/ (WriteInPlace \/ WriteNewBlock) /\ UNCHANGED command
       \/ WriteReturns /\ command' = [command EXCEPT !.op = "written"]

Close ==
    /\ command.op \in {"close", "written"}
    /\ FsClose(command.fd)
    /\ command' = Prompt

ShellNext ==
    \/ \E name \in Names : \/ Touch(name) \/ Rm(name) \/ Cat(name)
                           \/ \E text \in Texts : Write(name, text)
    \/ CatRead \/ WriteText \/ Writing \/ Close

ShellSpec == ShellInit /\ [][ShellNext]_shellVars

-----------------------------------------------------------------------------
(* Properties.                                                             *)

\* "write: Creates file if it doesn't exist, appends if it does"
WriteAppends ==
    command.op = "written" =>
       File(command.fd) = command.before \o SubSeq(command.text, 1, reply.code)
=============================================================================
