----------------------------- MODULE FileStore -----------------------------
(***************************************************************************)
(* What fs.h promises its callers: named files that hold what was written  *)
(* to them, read and written through handles that each have an offset of   *)
(* their own, within fixed limits on files, handles, sizes and space.      *)
(***************************************************************************)
EXTENDS Integers, Sequences, FiniteSets, Functions

CONSTANTS FileNames, GoodNames,     \* names callers use; those a file may have
          Handles,
          Data, Counts,             \* what callers write, how much they read
          MaxFiles, MaxSize,
          Capacity, Unit            \* space is given out in units

VARIABLES files,        \* from the names of the files to their contents
          handles,      \* from the open handles to [name, offset]
          pending,      \* the write under way: [handle, rest, written]
          answer        \* what the last call returned: [code, bytes]

storeVars == <<answer, pending, handles, files>>

NoWrite == [handle |-> -1, rest |-> <<>>, written |-> 0]
Code(n) == [code |-> n, bytes |-> <<>>]
Bytes(s) == [code |-> Len(s), bytes |-> s]

Init ==
    /\ files = <<>>
    /\ handles = <<>>
    /\ pending = NoWrite
    /\ answer = Code(0)

Idle == pending = NoWrite

Lesser(m, n) == IF m <= n THEN m ELSE n
Greater(m, n) == IF m >= n THEN m ELSE n

Extend(f, x, v) == [y \in DOMAIN f \cup {x} |-> IF y = x THEN v ELSE f[y]]

\* A file has the units that its bytes are in.
UnitsOf(store) ==
    {u \in (DOMAIN store) \X (0..(MaxSize - 1)) : u[2] * Unit < Len(store[u[1]])}
UsedUnits(store) == Cardinality(UnitsOf(store))

\* s with t put at an offset.
Overwritten(s, offset, t) ==
    [i \in 1..Greater(Len(s), offset + Len(t)) |->
        IF i \in (offset + 1)..(offset + Len(t)) THEN t[i - offset] ELSE s[i]]

-----------------------------------------------------------------------------

Creatable(name) ==
    name \in GoodNames \ DOMAIN files /\ Cardinality(DOMAIN files) < MaxFiles

Create(name) ==
    /\ Idle
    /\ UNCHANGED <<pending, handles>>
    /\ IF Creatable(name)
       THEN answer' = Code(0) /\ files' = Extend(files, name, <<>>)
       ELSE answer' = Code(-1) /\ UNCHANGED files

\* If no handle is free the call fails, but has created the file.
Open(name, create) ==
    /\ Idle
    /\ UNCHANGED pending
    /\ files' = IF create /\ Creatable(name) THEN Extend(files, name, <<>>) ELSE files
    /\ IF name \in DOMAIN files' /\ DOMAIN handles # Handles
       THEN \E h \in Handles \ DOMAIN handles :
               /\ answer' = Code(h)
               /\ handles' = Extend(handles, h, [name |-> name, offset |-> 0])
       ELSE answer' = Code(-1) /\ UNCHANGED handles

Close(h) ==
    /\ Idle
    /\ UNCHANGED pending
    /\ answer' = Code(IF h \in DOMAIN handles THEN 0 ELSE -1)
    /\ handles' = Restrict(handles, DOMAIN handles \ {h})
    /\ UNCHANGED files

Read(h, count) ==
    /\ Idle
    /\ UNCHANGED pending
    /\ IF h \in DOMAIN handles
       THEN LET s == files[handles[h].name]
                offset == handles[h].offset
                end == Lesser(Len(s), offset + count)
            IN  /\ answer' = Bytes(SubSeq(s, offset + 1, end))
                /\ handles' = [handles EXCEPT ![h].offset = end]
       ELSE answer' = Code(-1) /\ UNCHANGED handles
    /\ UNCHANGED files

-----------------------------------------------------------------------------
(* A write happens in parts, and returns when nothing is left or no more   *)
(* fits.                                                                   *)

Write(h, data) ==
    /\ Idle
    /\ IF h \in DOMAIN handles
       THEN /\ pending' = [handle |-> h, rest |-> data, written |-> 0]
            /\ UNCHANGED answer
       ELSE UNCHANGED pending /\ answer' = Code(-1)
    /\ UNCHANGED <<files, handles>>

\* The file after the first n bytes of the rest.
After(n) ==
    LET h == handles[pending.handle]
    IN  [files EXCEPT ![h.name] = Overwritten(@, h.offset, SubSeq(pending.rest, 1, n))]

Fits(n) ==
    /\ handles[pending.handle].offset + n <= MaxSize
    /\ UsedUnits(After(n)) <= Capacity

WritePart(n) ==
    /\ ~Idle
    /\ n \in 1..Len(pending.rest)
    /\ Fits(n)
    /\ files' = After(n)
    /\ handles' = [handles EXCEPT ![pending.handle].offset = @ + n]
    /\ pending' = [pending EXCEPT !.rest = SubSeq(@, n + 1, Len(@)), !.written = @ + n]
    /\ UNCHANGED answer

WriteReturns ==
    /\ ~Idle
    /\ pending.rest = <<>> \/ ~Fits(1)
    /\ answer' = Code(pending.written)
    /\ pending' = NoWrite
    /\ UNCHANGED <<files, handles>>

Remove(name) ==
    /\ Idle
    /\ UNCHANGED <<pending, handles>>
    /\ answer' = Code(IF name \in DOMAIN files THEN 0 ELSE -1)
    /\ files' = Restrict(files, DOMAIN files \ {name})

Next ==
    \/ \E data \in Data : \E n \in 1..Len(data) : WritePart(n)
    \/ WriteReturns
    \/ \E h \in Handles : \/ \E data \in Data : Write(h, data)
                          \/ \E count \in Counts : Read(h, count)
                          \/ Close(h)
    \/ \E name \in FileNames : \/ Create(name) \/ Remove(name)
                               \/ \E create \in BOOLEAN : Open(name, create)

Spec == Init /\ [][Next]_storeVars
=============================================================================
