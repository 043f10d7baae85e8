----------------------------- MODULE FileSystem -----------------------------
(***************************************************************************)
(* The RAM disk file system (fs.c): the bitmaps, the inode table, the      *)
(* directory and the data blocks on the disk, and the table of open files. *)
(* One context calls it, the shell, so a call is one action; the loop of   *)
(* fs_write, which may stop midway, is one action for each turn.           *)
(***************************************************************************)
EXTENDS Integers, Sequences, FiniteSets

CONSTANTS Names,            \* names callers use
          NoName,           \* the empty name, also that of an unused entry
          BadNames,         \* it and those that are too long for an entry
          MaxInodes,        \* FS_MAX_INODES
          DataStart,        \* FS_DATA_START_BLOCK
          TotalBlocks,      \* FS_TOTAL_BLOCKS
          BlockSize,        \* FS_BLOCK_SIZE
          DirectBlocks,     \* FS_DIRECT_BLOCKS
          MaxDirEntries,    \* FS_MAX_DIR_ENTRIES
          MaxOpenFiles,     \* FS_MAX_OPEN_FILES
          Characters,       \* what a byte may be; 0 is one
          Texts,            \* what callers write
          Counts            \* how much callers read at a time

ASSUME FileSystemAssumption ==
    /\ BadNames \subseteq Names /\ NoName \in BadNames
    /\ MaxInodes \in Nat \ {0} /\ MaxDirEntries \in Nat /\ MaxOpenFiles \in Nat
    /\ DataStart \in Nat \ {0} /\ TotalBlocks \in Nat /\ DataStart <= TotalBlocks
    /\ BlockSize \in Nat \ {0} /\ DirectBlocks \in Nat \ {0}
    /\ 0 \in Characters /\ Texts \subseteq Seq(Characters) /\ Counts \subseteq Nat

Blocks == DataStart..(TotalBlocks - 1)
Inodes == 1..(MaxInodes - 1)            \* inode 0 is reserved
Pointers == 0..(DirectBlocks - 1)
DirEntries == 0..(MaxDirEntries - 1)
Descriptors == 0..(MaxOpenFiles - 1)

VARIABLES
    block_bitmap, inode_bitmap,     \* the bits that are set
    free_blocks, free_inodes,       \* of the superblock
    inodes,                         \* [size, blocks], a pointer of 0 is none
    directory,                      \* [name, inode], an inode of 0 is unused
    data,                           \* the bytes of the data blocks
    open_files,                     \* [inode, offset, valid]
    call,                           \* the fs_write under way
    reply                           \* what the last call gave its caller

diskVars == <<block_bitmap, inode_bitmap, free_blocks, free_inodes, inodes,
              directory, data>>
fsVars == <<diskVars, open_files, call, reply>>

EmptyInode == [size |-> 0, blocks |-> [i \in Pointers |-> 0]]
NoCall == [fd |-> -1, rest |-> <<>>, written |-> 0]
Returns(n) == reply' = [code |-> n, bytes |-> <<>>]

\* fs_init
Init ==
    /\ block_bitmap = {} /\ free_blocks = Cardinality(Blocks)
    /\ inode_bitmap = {} /\ free_inodes = MaxInodes - 1
    /\ inodes = [ino \in Inodes |-> EmptyInode]
    /\ directory = [e \in DirEntries |-> [name |-> NoName, inode |-> 0]]
    /\ data = [b \in Blocks |-> [i \in 0..(BlockSize - 1) |-> 0]]
    /\ open_files = [fd \in Descriptors |-> [inode |-> 0, offset |-> 0, valid |-> FALSE]]
    /\ call = NoCall
    /\ reply = [code |-> 0, bytes |-> <<>>]

Idle == call = NoCall

\* All searches take the first one they find.
First(S) == CHOOSE n \in S : \A m \in S : n <= m

Least(m, n) == IF m <= n THEN m ELSE n
Most(m, n) == IF m >= n THEN m ELSE n

-----------------------------------------------------------------------------
(* Lookup and allocation.                                                  *)

Named(name) == {e \in DirEntries : directory[e].inode # 0 /\ directory[e].name = name}
FindInode(name) == IF Named(name) = {} THEN 0 ELSE directory[First(Named(name))].inode

FreeEntries == {e \in DirEntries : directory[e].inode = 0}
\* Mutation: the search begins at 0.
InodesFrom0 == 0..(MaxInodes - 1) \ inode_bitmap
FreeInodes == Inodes \ inode_bitmap
FreeBlocks == Blocks \ block_bitmap
FreeDescriptors == {fd \in Descriptors : ~open_files[fd].valid}

IsOpen(fd) == fd \in Descriptors /\ open_files[fd].valid

\* The inode an allocation hands out.  Mutation: it is not cleared.
KeptInode(ino) == inodes[ino]
ClearedInode(ino) == EmptyInode

-----------------------------------------------------------------------------
(* fs_create_file                                                          *)

Creatable(name) ==
    /\ name \notin BadNames
    /\ FindInode(name) = 0
    /\ FreeEntries # {}
    /\ FreeInodes # {}

MakeFile(name) ==
    LET ino == First(FreeInodes)
    IN  /\ inode_bitmap' = inode_bitmap \cup {ino}
        /\ free_inodes' = free_inodes - 1
        /\ inodes' = [inodes EXCEPT ![ino] = ClearedInode(ino)]
        /\ directory' = [directory EXCEPT ![First(FreeEntries)] =
                            [name |-> name, inode |-> ino]]
        /\ UNCHANGED <<block_bitmap, free_blocks, data>>

FsCreateFile(name) ==
    /\ Idle
    /\ Creatable(name)
    /\ MakeFile(name)
    /\ Returns(0)
    /\ UNCHANGED <<open_files, call>>

CreateFileFails(name) ==
    /\ Idle
    /\ ~Creatable(name)
    /\ Returns(-1)
    /\ UNCHANGED <<diskVars, open_files, call>>

-----------------------------------------------------------------------------
(* fs_open and fs_close                                                    *)

TakeDescriptor(ino) ==
    LET fd == First(FreeDescriptors)
    IN  /\ open_files' = [open_files EXCEPT ![fd] =
                             [inode |-> ino, offset |-> 0, valid |-> TRUE]]
        /\ Returns(fd)

OpenExisting(name) ==
    /\ Idle
    /\ FindInode(name) # 0
    /\ FreeDescriptors # {}
    /\ TakeDescriptor(FindInode(name))
    /\ UNCHANGED <<diskVars, call>>

OpenNew(name) ==
    /\ Idle
    /\ Creatable(name)
    /\ FreeDescriptors # {}
    /\ MakeFile(name)
    /\ TakeDescriptor(First(FreeInodes))
    /\ UNCHANGED call

\* The file stays although it could not be opened.
OpenNewFails(name) ==
    /\ Idle
    /\ Creatable(name)
    /\ FreeDescriptors = {}
    /\ MakeFile(name)
    /\ Returns(-1)
    /\ UNCHANGED <<open_files, call>>

OpenFails(name, create) ==
    /\ Idle
    /\ IF FindInode(name) # 0 THEN FreeDescriptors = {} ELSE ~(create /\ Creatable(name))
    /\ Returns(-1)
    /\ UNCHANGED <<diskVars, open_files, call>>

FsOpen(name, create) ==
    \/ OpenExisting(name)
    \/ create /\ (OpenNew(name) \/ OpenNewFails(name))
    \/ OpenFails(name, create)

FsClose(fd) ==
    /\ Idle
    /\ IsOpen(fd)
    /\ open_files' = [open_files EXCEPT ![fd].valid = FALSE]
    /\ Returns(0)
    /\ UNCHANGED <<diskVars, call>>

\* Every call refuses a descriptor that is out of range or not in use.
BadDescriptor(fd) ==
    /\ Idle
    /\ ~IsOpen(fd)
    /\ Returns(-1)
    /\ UNCHANGED <<diskVars, open_files, call>>

-----------------------------------------------------------------------------
(* fs_read                                                                 *)

\* Where the bytes asked for end; the sum is below 2^32 for any count a caller
\* passes.  Mutation: the size is not looked at.
AskedEnd(ino, offset, count) == offset + count
ReadLimit(ino, offset, count) == Least(inodes[ino].size, offset + count)

\* The loop also ends at a pointer that is none and after the last one.
ReadEnd(ino, offset, count) ==
    First({ReadLimit(ino, offset, count), DirectBlocks * BlockSize}
          \cup {i * BlockSize : i \in {i \in Pointers : /\ i >= offset \div BlockSize
                                                        /\ inodes[ino].blocks[i] = 0}})

ByteAt(ino, n) == data[inodes[ino].blocks[n \div BlockSize]][n % BlockSize]

FsRead(fd, count) ==
    /\ Idle
    /\ IsOpen(fd)
    /\ LET ino == open_files[fd].inode
           offset == open_files[fd].offset
           end == Most(offset, ReadEnd(ino, offset, count))
       IN  /\ reply' = [code |-> end - offset,
                        bytes |-> [n \in 1..(end - offset) |-> ByteAt(ino, offset + n - 1)]]
           /\ open_files' = [open_files EXCEPT ![fd].offset = end]
    /\ UNCHANGED <<diskVars, call>>

-----------------------------------------------------------------------------
(* fs_write                                                                *)

FsWrite(fd, text) ==
    /\ Idle
    /\ IsOpen(fd)
    /\ call' = [fd |-> fd, rest |-> text, written |-> 0]
    /\ UNCHANGED <<diskVars, open_files, reply>>

Target == open_files[call.fd]
Pointer == Target.offset \div BlockSize
PointsTo == inodes[Target.inode].blocks[Pointer]

\* The size after a write up to an offset.  Mutation: the file ends there.
SizeCut(size, offset) == offset
Size(size, offset) == Most(size, offset)

\* The part of the rest that goes into block b.
Put(b) ==
    LET start == Target.offset % BlockSize
        n == Least(BlockSize - start, Len(call.rest))
    IN  /\ data' = [data EXCEPT ![b] =
                       [i \in 0..(BlockSize - 1) |->
                           IF i \in start..(start + n - 1)
                           THEN call.rest[i - start + 1] ELSE @[i]]]
        /\ inodes' = [inodes EXCEPT
                         ![Target.inode] = [size |-> Size(@.size, Target.offset + n),
                                            blocks |-> [@.blocks EXCEPT ![Pointer] = b]]]
        /\ open_files' = [open_files EXCEPT ![call.fd].offset = @ + n]
        /\ call' = [call EXCEPT !.rest = SubSeq(@, n + 1, Len(@)), !.written = @ + n]
        /\ UNCHANGED <<inode_bitmap, free_inodes, directory, reply>>

MoreToWrite == call # NoCall /\ call.rest # <<>> /\ Pointer < DirectBlocks

WriteInPlace ==
    /\ MoreToWrite
    /\ PointsTo # 0
    /\ Put(PointsTo)
    /\ UNCHANGED <<block_bitmap, free_blocks>>

WriteNewBlock ==
    /\ MoreToWrite
    /\ PointsTo = 0
    /\ FreeBlocks # {}
    /\ block_bitmap' = block_bitmap \cup {First(FreeBlocks)}
    /\ free_blocks' = free_blocks - 1
    /\ Put(First(FreeBlocks))

\* All is written, the file has no pointer left or the disk no block.
WriteReturns ==
    /\ call # NoCall
    /\ MoreToWrite => PointsTo = 0 /\ FreeBlocks = {}
    /\ Returns(call.written)
    /\ call' = NoCall
    /\ UNCHANGED <<diskVars, open_files>>

-----------------------------------------------------------------------------
(* fs_unlink                                                               *)

\* What the pointers say.  Mutation: the first one only.
FirstBlock(ino) == {inodes[ino].blocks[0]}
BlocksOf(ino) == {inodes[ino].blocks[i] : i \in Pointers}

\* The blocks given back, by fs_free_block.  Mutation: it counts whatever it
\* is called with.
FreedUnchecked(ino) == BlocksOf(ino)
Freed(ino) == BlocksOf(ino) \cap block_bitmap

\* The entry that is cleared.  Mutation: the first of all.
AnyEntry(ino) == 0
EntryOf(ino) == First({e \in DirEntries : directory[e].inode = ino})

\* The shell closes every file before its next command.
NotOpen(ino) == \A fd \in Descriptors : open_files[fd].valid => open_files[fd].inode # ino

FsUnlink(name) ==
    /\ Idle
    /\ FindInode(name) # 0
    /\ NotOpen(FindInode(name))
    /\ LET ino == FindInode(name)
       IN  /\ block_bitmap' = block_bitmap \ Freed(ino)
           /\ free_blocks' = free_blocks + Cardinality(Freed(ino))
           /\ inode_bitmap' = inode_bitmap \ {ino}
           /\ free_inodes' = free_inodes + 1
           /\ directory' = [directory EXCEPT ![EntryOf(ino)] =
                               [name |-> NoName, inode |-> 0]]
    /\ Returns(0)
    /\ UNCHANGED <<inodes, data, open_files, call>>

UnlinkFails(name) ==
    /\ Idle
    /\ FindInode(name) = 0
    /\ Returns(-1)
    /\ UNCHANGED <<diskVars, open_files, call>>

-----------------------------------------------------------------------------

Next ==
    \/ \E name \in Names :
          \/ FsCreateFile(name) \/ CreateFileFails(name)
          \/ \E create \in BOOLEAN : FsOpen(name, create)
          \/ FsUnlink(name) \/ UnlinkFails(name)
    \/ \E fd \in Descriptors \cup {-1} :
          \/ FsClose(fd) \/ BadDescriptor(fd)
          \/ \E count \in Counts : FsRead(fd, count)
          \/ \E text \in Texts : FsWrite(fd, text)
    \/ WriteInPlace \/ WriteNewBlock \/ WriteReturns

Spec == Init /\ [][Next]_fsVars

-----------------------------------------------------------------------------
(* Properties.                                                             *)

FsTypeOK ==
    /\ block_bitmap \subseteq Blocks /\ free_blocks \in Nat
    /\ inode_bitmap \subseteq Inodes /\ free_inodes \in Nat
    /\ inodes \in [Inodes -> [size : Nat, blocks : [Pointers -> Blocks \cup {0}]]]
    /\ directory \in [DirEntries -> [name : Names, inode : Inodes \cup {0}]]
    /\ data \in [Blocks -> [0..(BlockSize - 1) -> Characters]]
    /\ open_files \in [Descriptors -> [inode : Inodes \cup {0}, offset : Nat, valid : BOOLEAN]]
    /\ call.fd \in Descriptors \cup {-1} /\ call.rest \in Seq(Characters)
    /\ call.written \in Nat
    /\ reply.code \in Nat \cup {-1} /\ reply.bytes \in Seq(Characters)

\* A block marked as used belongs to exactly one pointer of one file, and no
\* file points to a block that could be handed out again.
Users(b) == {u \in inode_bitmap \X Pointers : inodes[u[1]].blocks[u[2]] = b}
BlocksHaveOneOwner ==
    \A b \in Blocks : Cardinality(Users(b)) = IF b \in block_bitmap THEN 1 ELSE 0

\* The directory names every inode in use once, each by a name of its own.
InUse == {e \in DirEntries : directory[e].inode # 0}
FilesAreNamedOnce ==
    /\ inode_bitmap = {directory[e].inode : e \in InUse}
    /\ \A e, f \in InUse : e # f => /\ directory[e].inode # directory[f].inode
                                    /\ directory[e].name # directory[f].name

\* A file has the blocks its size needs, without a hole and no more, also
\* while a write is under way and after one that found the disk full.
SizesCoverBlocks ==
    \A ino \in inode_bitmap : \A i \in Pointers :
       inodes[ino].blocks[i] # 0 <=> i * BlockSize < inodes[ino].size

\* "fsstats: Shows accurate block and inode usage"
StatisticsAreAccurate ==
    /\ free_blocks = Cardinality(FreeBlocks)
    /\ free_inodes = Cardinality(FreeInodes)

\* An open descriptor refers to a file there is, at an offset within it.
DescriptorsAreAlive ==
    \A fd \in Descriptors : open_files[fd].valid =>
       /\ open_files[fd].inode \in inode_bitmap
       /\ open_files[fd].offset <= inodes[open_files[fd].inode].size

\* The disk's structures implement files that hold what was written to them.
Contents(ino) == [n \in 1..inodes[ino].size |-> ByteAt(ino, n - 1)]
NameOf(ino) == directory[EntryOf(ino)].name
StoredFiles == [name \in {directory[e].name : e \in InUse} |-> Contents(FindInode(name))]
OpenHandles == [fd \in {fd \in Descriptors : open_files[fd].valid} |->
                   [name |-> NameOf(open_files[fd].inode), offset |-> open_files[fd].offset]]
WriteUnderWay == [handle |-> call.fd, rest |-> call.rest, written |-> call.written]
MaxFileSize == DirectBlocks * BlockSize
Store == INSTANCE FileStore WITH
    FileNames <- Names, GoodNames <- Names \ BadNames, Handles <- Descriptors,
    Data <- Texts, MaxSize <- MaxFileSize,
    MaxFiles <- Least(MaxInodes - 1, MaxDirEntries),
    Capacity <- TotalBlocks - DataStart, Unit <- BlockSize,
    files <- StoredFiles, handles <- OpenHandles,
    pending <- WriteUnderWay, answer <- reply
ImplementsFileStore == Store!Spec
=============================================================================
