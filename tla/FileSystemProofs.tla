-------------------------- MODULE FileSystemProofs --------------------------
(***************************************************************************)
(* Theorems about FileSystem, for a disk, tables and files of any size.    *)
(***************************************************************************)
EXTENDS FileSystem, FiniteSetTheorems, WellFoundedInduction, TLAPS

LEMMA FirstIsLeast ==
    ASSUME NEW S, S \subseteq Nat, S # {}
    PROVE  First(S) \in S /\ \A m \in S : First(S) <= m
<1> DEFINE less == {p \in Nat \X Nat : p[1] < p[2]}
<1>1. IsWellFoundedOn(less, Nat)
  BY NatLessThanWellFounded DEF OpToRel
<1>2. PICK x \in S : \A y \in S : <<y, x>> \notin less
  <2> HIDE DEF less
  <2> QED
    BY <1>1, WFMin
<1>3. ASSUME NEW y \in S PROVE x <= y
  <2>1. x \in Nat /\ y \in Nat /\ <<y, x>> \in Nat \X Nat
    OBVIOUS
  <2>2. ~(<<y, x>>[1] < <<y, x>>[2])
    BY <1>2, <2>1
  <2> QED
    BY <2>1, <2>2
<1> QED
  BY <1>3 DEF First

LEMMA DivMod ==
    ASSUME NEW n \in Nat, NEW d \in Nat \ {0}
    PROVE  /\ n \div d \in Nat /\ n % d \in 0..(d - 1)
           /\ n = (n \div d) * d + (n % d)
           /\ (n \div d) * d \in Nat /\ (n \div d) * d <= n
OBVIOUS

LEMMA MulOrder ==
    ASSUME NEW i \in Nat, NEW j \in Nat, NEW d \in Nat \ {0}
    PROVE  /\ i * d \in Nat
           /\ i < j => (i + 1) * d <= j * d
           /\ i < j <=> i * d < j * d
           /\ (i + 1) * d = i * d + d
OBVIOUS

\* What the sets of blocks, inodes and so on are.
LEMMA Sets ==
    /\ Blocks \subseteq Nat \ {0} /\ Inodes \subseteq Nat \ {0}
    /\ Pointers \subseteq Nat /\ DirEntries \subseteq Nat /\ Descriptors \subseteq Nat
    /\ -1 \notin Descriptors
    /\ BlockSize \in Nat \ {0} /\ DirectBlocks \in Nat \ {0}
BY FileSystemAssumption DEF FileSystemAssumption, Blocks, Inodes, Pointers, DirEntries,
                            Descriptors

LEMMA SetsAreFinite ==
    /\ IsFiniteSet(Blocks) /\ IsFiniteSet(Inodes)
    /\ Cardinality(Inodes) = MaxInodes - 1
BY FileSystemAssumption, FS_Interval DEF FileSystemAssumption, Blocks, Inodes

-----------------------------------------------------------------------------
(* The invariant.                                                          *)

DiskTypeOK ==
    /\ block_bitmap \subseteq Blocks /\ free_blocks \in Nat
    /\ inode_bitmap \subseteq Inodes /\ free_inodes \in Nat
    /\ inodes \in [Inodes -> [size : Nat, blocks : [Pointers -> Blocks \cup {0}]]]
    /\ directory \in [DirEntries -> [name : Names, inode : Inodes \cup {0}]]
    /\ data \in [Blocks -> [0..(BlockSize - 1) -> Characters]]

OpenTypeOK ==
    open_files \in [Descriptors -> [inode : Inodes \cup {0}, offset : Nat, valid : BOOLEAN]]

\* A call is under way through a descriptor that is open.
CallTypeOK ==
    /\ call \in [fd : Descriptors \cup {-1}, rest : Seq(Characters), written : Nat]
    /\ call # NoCall => IsOpen(call.fd)

ReplyTypeOK == reply.code \in Nat \cup {-1} /\ reply.bytes \in Seq(Characters)

\* BlocksHaveOneOwner without counting, in its three parts.
PointedToIsUsed ==
    \A ino \in inode_bitmap : \A i \in Pointers :
       inodes[ino].blocks[i] # 0 => inodes[ino].blocks[i] \in block_bitmap
UsedIsPointedTo ==
    \A b \in block_bitmap :
       \E ino \in inode_bitmap : \E i \in Pointers : inodes[ino].blocks[i] = b
NoTwoPointers ==
    \A ino, jno \in inode_bitmap : \A i, j \in Pointers :
       inodes[ino].blocks[i] # 0 /\ inodes[ino].blocks[i] = inodes[jno].blocks[j]
       => ino = jno /\ i = j

OwnersInv == PointedToIsUsed /\ UsedIsPointedTo /\ NoTwoPointers

DiskInv == /\ DiskTypeOK /\ OwnersInv /\ FilesAreNamedOnce
           /\ SizesCoverBlocks /\ StatisticsAreAccurate

FsInv == /\ DiskInv /\ OpenTypeOK /\ CallTypeOK /\ ReplyTypeOK
         /\ DescriptorsAreAlive

LEMMA InitHolds == Init => FsInv
<1> SUFFICES ASSUME Init PROVE FsInv
  OBVIOUS
<1> USE DEF Init
<1>1. DiskTypeOK /\ OpenTypeOK
  <2>1. EmptyInode \in [size : Nat, blocks : [Pointers -> Blocks \cup {0}]]
    BY DEF EmptyInode
  <2>2. NoName \in Names /\ 0 \in Characters /\ MaxInodes - 1 \in Nat
    BY FileSystemAssumption DEF FileSystemAssumption
  <2>3. Cardinality(Blocks) \in Nat
    BY SetsAreFinite, FS_CardinalityType
  <2> QED
    BY <2>1, <2>2, <2>3 DEF DiskTypeOK, OpenTypeOK
<1>2. CallTypeOK /\ ReplyTypeOK
  BY DEF CallTypeOK, ReplyTypeOK, NoCall
<1>3. OwnersInv /\ SizesCoverBlocks
  BY DEF OwnersInv, PointedToIsUsed, UsedIsPointedTo, NoTwoPointers, SizesCoverBlocks
<1>4. FilesAreNamedOnce
  BY DEF FilesAreNamedOnce, InUse
<1>5. StatisticsAreAccurate
  <2>1. FreeBlocks = Blocks /\ FreeInodes = Inodes
    BY DEF FreeBlocks, FreeInodes
  <2> QED
    BY <2>1, SetsAreFinite DEF StatisticsAreAccurate
<1>6. DescriptorsAreAlive
  BY DEF DescriptorsAreAlive
<1> QED
  BY <1>1, <1>2, <1>3, <1>4, <1>5, <1>6 DEF FsInv, DiskInv

-----------------------------------------------------------------------------
(* A new file.                                                             *)

\* A name that is found nowhere is the name of no entry in use.
LEMMA NotFound ==
    ASSUME DiskTypeOK, NEW name, FindInode(name) = 0
    PROVE  Named(name) = {}
<1> SUFFICES ASSUME Named(name) # {} PROVE FALSE
  OBVIOUS
<1>1. First(Named(name)) \in Named(name)
  BY Sets, FirstIsLeast DEF Named
<1> QED
  BY <1>1 DEF FindInode, Named

LEMMA Found ==
    ASSUME DiskTypeOK, FilesAreNamedOnce, NEW name, FindInode(name) # 0
    PROVE  FindInode(name) \in inode_bitmap /\ FindInode(name) \in Inodes
<1>1. First(Named(name)) \in Named(name)
  BY Sets, FirstIsLeast DEF Named, FindInode
<1> QED
  BY <1>1 DEF FindInode, Named, FilesAreNamedOnce, InUse, DiskTypeOK

LEMMA MakeFileKeeps ==
    ASSUME DiskInv, NEW name \in Names, Creatable(name), MakeFile(name)
    PROVE  /\ DiskInv'
           /\ inode_bitmap \subseteq inode_bitmap'
           /\ First(FreeInodes) \in inode_bitmap'
           /\ \A ino \in inode_bitmap : inodes'[ino] = inodes[ino]
           /\ inodes'[First(FreeInodes)].size = 0
<1> DEFINE ino == First(FreeInodes)
           e == First(FreeEntries)
<1>1. ino \in FreeInodes
  BY Sets, FirstIsLeast DEF FreeInodes, Creatable
<1>2. e \in FreeEntries
  BY Sets, FirstIsLeast DEF FreeEntries, Creatable
<1>3. /\ inode_bitmap' = inode_bitmap \cup {ino}
      /\ free_inodes' = free_inodes - 1
      /\ inodes' = [inodes EXCEPT ![ino] = EmptyInode]
      /\ directory' = [directory EXCEPT ![e] = [name |-> name, inode |-> ino]]
      /\ UNCHANGED <<block_bitmap, free_blocks, data>>
  BY DEF MakeFile, ClearedInode
<1>4. ino \in Inodes /\ ino \notin inode_bitmap /\ ino # 0
  BY <1>1, Sets DEF FreeInodes
<1>5. e \in DirEntries /\ directory[e].inode = 0
  BY <1>2 DEF FreeEntries
<1>6. Named(name) = {}
  BY NotFound DEF Creatable, DiskInv
<1> HIDE DEF ino, e
<1>7. StatisticsAreAccurate'
  <2>1. FreeBlocks' = FreeBlocks /\ FreeInodes' = FreeInodes \ {ino}
    BY <1>3 DEF FreeBlocks, FreeInodes
  <2>2. IsFiniteSet(FreeInodes) /\ ino \in FreeInodes
    BY SetsAreFinite, FS_Subset, <1>4 DEF FreeInodes
  <2> QED
    BY <1>3, <2>1, <2>2, FS_RemoveElement DEF StatisticsAreAccurate, DiskInv
<1>8. DiskTypeOK'
  <2>1. EmptyInode \in [size : Nat, blocks : [Pointers -> Blocks \cup {0}]]
    BY DEF EmptyInode
  <2>2. free_inodes' \in Nat
    <3>1. IsFiniteSet(FreeInodes) /\ FreeInodes # {}
      BY SetsAreFinite, FS_Subset, <1>4 DEF FreeInodes
    <3> QED
      BY <3>1, <1>3, FS_CardinalityType, FS_EmptySet DEF StatisticsAreAccurate, DiskInv
  <2> QED
    BY <1>3, <1>4, <1>5, <2>1, <2>2 DEF DiskTypeOK, DiskInv
<1>9. OwnersInv'
  <2>1. \A i \in Pointers : inodes'[ino].blocks[i] = 0
    BY <1>3, <1>4 DEF EmptyInode, DiskTypeOK, DiskInv
  <2>2. \A jno \in inode_bitmap : inodes'[jno] = inodes[jno]
    BY <1>3, <1>4 DEF DiskTypeOK, DiskInv
  <2>3. PointedToIsUsed'
    BY <1>3, <2>1, <2>2 DEF PointedToIsUsed, OwnersInv, DiskInv
  <2>4. UsedIsPointedTo'
    BY <1>3, <2>1, <2>2 DEF UsedIsPointedTo, OwnersInv, DiskInv
  <2>5. NoTwoPointers'
    BY <1>3, <2>1, <2>2 DEF NoTwoPointers, OwnersInv, DiskInv
  <2> QED
    BY <2>3, <2>4, <2>5 DEF OwnersInv
<1>10. FilesAreNamedOnce'
  <2>1. InUse' = InUse \cup {e} /\ e \notin InUse
    BY <1>3, <1>4, <1>5 DEF InUse, DiskTypeOK, DiskInv
  <2>2. /\ directory'[e] = [name |-> name, inode |-> ino]
        /\ \A f \in InUse : directory'[f] = directory[f]
    BY <1>3, <1>5, <2>1 DEF DiskTypeOK, DiskInv, InUse
  <2>3. \A f \in InUse : directory[f].name # name /\ directory[f].inode # ino
    BY <1>4, <1>6 DEF FilesAreNamedOnce, DiskInv, InUse, Named
  <2> QED
    BY <1>3, <2>1, <2>2, <2>3 DEF FilesAreNamedOnce, DiskInv
<1>11. SizesCoverBlocks'
  BY <1>3, <1>4, Sets DEF SizesCoverBlocks, DiskTypeOK, DiskInv, EmptyInode
<1> QED
  BY <1>3, <1>4, <1>7, <1>8, <1>9, <1>10, <1>11 DEF DiskInv, DiskTypeOK, EmptyInode, ino

-----------------------------------------------------------------------------
(* Descriptors.                                                            *)

LEMMA ReturnsAnInteger ==
    ASSUME NEW n \in Nat \cup {-1}, Returns(n)
    PROVE  ReplyTypeOK'
<1>1. reply'.code = n /\ reply'.bytes = <<>>
  BY DEF Returns
<1>2. <<>> \in Seq(Characters)
  OBVIOUS
<1> QED
  BY <1>1, <1>2 DEF ReplyTypeOK

\* A file that is there, opened at its beginning.
LEMMA TakeDescriptorKeeps ==
    ASSUME OpenTypeOK, DescriptorsAreAlive, FreeDescriptors # {},
           NEW ino \in inode_bitmap', TakeDescriptor(ino), DiskTypeOK',
           inode_bitmap \subseteq inode_bitmap',
           \A jno \in inode_bitmap : inodes'[jno] = inodes[jno]
    PROVE  /\ OpenTypeOK' /\ DescriptorsAreAlive' /\ ReplyTypeOK'
           /\ \A fd \in Descriptors : open_files[fd].valid => open_files'[fd].valid
<1> DEFINE fd == First(FreeDescriptors)
<1>1. fd \in FreeDescriptors
  BY Sets, FirstIsLeast DEF FreeDescriptors
<1>2. open_files' = [open_files EXCEPT ![fd] = [inode |-> ino, offset |-> 0, valid |-> TRUE]]
  BY DEF TakeDescriptor
<1>3. fd \in Descriptors /\ ~open_files[fd].valid /\ ino \in Inodes
  BY <1>1 DEF FreeDescriptors, DiskTypeOK
<1>4. ReplyTypeOK'
  BY <1>3, Sets, ReturnsAnInteger DEF TakeDescriptor
<1> HIDE DEF fd
<1>5. OpenTypeOK' /\ \A f \in Descriptors : open_files[f].valid => open_files'[f].valid
  BY <1>2, <1>3 DEF OpenTypeOK
<1>6. DescriptorsAreAlive'
  <2>1. inodes'[ino].size \in Nat
    BY <1>3 DEF DiskTypeOK
  <2> QED
    BY <1>2, <1>3, <2>1 DEF DescriptorsAreAlive, OpenTypeOK
<1> QED
  BY <1>4, <1>5, <1>6

\* Calls that change nothing on the disk.
LEMMA DiskUnchanged ==
    ASSUME DiskInv, UNCHANGED diskVars
    PROVE  DiskInv'
<1> USE DEF diskVars
<1>1. DiskTypeOK'
  BY DEF DiskInv, DiskTypeOK
<1>2. OwnersInv'
  BY DEF DiskInv, OwnersInv, PointedToIsUsed, UsedIsPointedTo, NoTwoPointers
<1>3. FilesAreNamedOnce'
  BY DEF DiskInv, FilesAreNamedOnce, InUse
<1>4. SizesCoverBlocks'
  BY DEF DiskInv, SizesCoverBlocks
<1>5. StatisticsAreAccurate'
  BY DEF DiskInv, StatisticsAreAccurate, FreeBlocks, FreeInodes
<1> QED
  BY <1>1, <1>2, <1>3, <1>4, <1>5 DEF DiskInv

\* Calls that fail, or return at once.
LEMMA ReturnKeeps ==
    ASSUME FsInv, UNCHANGED <<diskVars, open_files>>, ReplyTypeOK',
           UNCHANGED call \/ call' = NoCall
    PROVE  FsInv'
<1>1. OpenTypeOK' /\ DescriptorsAreAlive'
  BY DEF FsInv, OpenTypeOK, DescriptorsAreAlive, diskVars
<1>2. CallTypeOK'
  <2>1. CASE UNCHANGED call
    BY <2>1 DEF FsInv, CallTypeOK, NoCall, IsOpen
  <2>2. CASE call' = NoCall
    <3>1. NoCall \in [fd : Descriptors \cup {-1}, rest : Seq(Characters), written : Nat]
      BY DEF NoCall
    <3> QED
      BY <2>2, <3>1 DEF CallTypeOK, NoCall
  <2> QED
    BY <2>1, <2>2
<1> QED
  BY <1>1, <1>2, DiskUnchanged DEF FsInv

LEMMA CreateKeeps ==
    ASSUME FsInv, NEW name \in Names,
           FsCreateFile(name) \/ OpenNew(name) \/ OpenNewFails(name)
    PROVE  FsInv'
<1>1. Creatable(name) /\ MakeFile(name) /\ UNCHANGED call
  BY DEF FsCreateFile, OpenNew, OpenNewFails
<1>2. /\ DiskInv'
      /\ inode_bitmap \subseteq inode_bitmap'
      /\ First(FreeInodes) \in inode_bitmap'
      /\ \A ino \in inode_bitmap : inodes'[ino] = inodes[ino]
  BY <1>1, MakeFileKeeps DEF FsInv
<1>3. CASE OpenNew(name)
  <2>1. /\ OpenTypeOK' /\ DescriptorsAreAlive' /\ ReplyTypeOK'
        /\ \A fd \in Descriptors : open_files[fd].valid => open_files'[fd].valid
    BY <1>2, <1>3, TakeDescriptorKeeps DEF OpenNew, FsInv, DiskInv
  <2>2. CallTypeOK'
    BY <1>1, <2>1 DEF FsInv, CallTypeOK, IsOpen, NoCall
  <2> QED
    BY <1>2, <2>1, <2>2 DEF FsInv
<1>4. CASE FsCreateFile(name) \/ OpenNewFails(name)
  <2>1. UNCHANGED open_files /\ (Returns(0) \/ Returns(-1))
    BY <1>4 DEF FsCreateFile, OpenNewFails
  <2>2. OpenTypeOK' /\ CallTypeOK' /\ DescriptorsAreAlive'
    BY <1>1, <1>2, <2>1 DEF FsInv, OpenTypeOK, CallTypeOK, NoCall, IsOpen, DescriptorsAreAlive
  <2> QED
    BY <1>2, <2>1, <2>2, ReturnsAnInteger DEF FsInv
<1> QED
  BY <1>3, <1>4

LEMMA OpenExistingKeeps ==
    ASSUME FsInv, NEW name \in Names, OpenExisting(name)
    PROVE  FsInv'
<1>1. DiskInv' /\ UNCHANGED <<inode_bitmap, inodes, call>>
  BY DiskUnchanged DEF OpenExisting, FsInv, diskVars
<1>2. FindInode(name) \in inode_bitmap'
  BY <1>1, Found DEF OpenExisting, FsInv, DiskInv
<1>3. /\ OpenTypeOK' /\ DescriptorsAreAlive' /\ ReplyTypeOK'
      /\ \A fd \in Descriptors : open_files[fd].valid => open_files'[fd].valid
  BY <1>1, <1>2, TakeDescriptorKeeps DEF OpenExisting, FsInv, DiskInv
<1>4. CallTypeOK'
  BY <1>1, <1>3 DEF FsInv, CallTypeOK, IsOpen, NoCall
<1> QED
  BY <1>1, <1>3, <1>4 DEF FsInv

LEMMA CloseKeeps ==
    ASSUME FsInv, NEW fd, FsClose(fd)
    PROVE  FsInv'
<1>1. /\ fd \in Descriptors /\ call = NoCall /\ UNCHANGED call
      /\ open_files' = [open_files EXCEPT ![fd].valid = FALSE]
  BY DEF FsClose, IsOpen, Idle
<1>2. DiskInv' /\ UNCHANGED <<inode_bitmap, inodes>>
  BY DiskUnchanged DEF FsClose, FsInv, diskVars
<1>3. OpenTypeOK' /\ DescriptorsAreAlive'
  BY <1>1, <1>2 DEF FsInv, OpenTypeOK, DescriptorsAreAlive
<1>4. CallTypeOK' /\ ReplyTypeOK'
  BY <1>1 DEF FsInv, CallTypeOK, ReplyTypeOK, FsClose, Returns
<1> QED
  BY <1>2, <1>3, <1>4 DEF FsInv

-----------------------------------------------------------------------------
(* Reading.                                                                *)

LEMMA DivOrder ==
    ASSUME NEW m \in Nat, NEW n \in Nat, NEW d \in Nat \ {0}, m <= n
    PROVE  m \div d <= n \div d
<1>1. m \div d \in Nat /\ n \div d \in Nat
  BY DivMod
<1> SUFFICES ASSUME n \div d < m \div d PROVE FALSE
  BY <1>1
<1>2. (n \div d) * d + d <= (m \div d) * d
  BY <1>1, MulOrder
<1> QED
  BY <1>1, <1>2, DivMod, MulOrder

\* A read ends within the file and before the first pointer that is none.
LEMMA ReadEndIs ==
    ASSUME DiskTypeOK, NEW ino \in Inodes, NEW offset \in Nat, NEW count \in Nat
    PROVE  /\ ReadEnd(ino, offset, count) \in Nat
           /\ ReadEnd(ino, offset, count) <= inodes[ino].size
           /\ ReadEnd(ino, offset, count) <= DirectBlocks * BlockSize
           /\ \A i \in Pointers :
                 i >= offset \div BlockSize /\ inodes[ino].blocks[i] = 0
                 => ReadEnd(ino, offset, count) <= i * BlockSize
<1> DEFINE Z == {i \in Pointers : i >= offset \div BlockSize /\ inodes[ino].blocks[i] = 0}
           limit == ReadLimit(ino, offset, count)
           S == {limit, DirectBlocks * BlockSize} \cup {i * BlockSize : i \in Z}
<1>1. inodes[ino].size \in Nat /\ limit \in Nat /\ limit <= inodes[ino].size
  BY DEF DiskTypeOK, ReadLimit, Least
<1> HIDE DEF limit
<1>2. DirectBlocks * BlockSize \in Nat /\ \A i \in Z : i * BlockSize \in Nat
  BY Sets, MulOrder
<1>3. S \subseteq Nat /\ S # {}
  BY <1>1, <1>2
<1>4. ReadEnd(ino, offset, count) = First(S)
  BY DEF ReadEnd, limit
<1>5. First(S) \in S /\ \A m \in S : First(S) <= m
  BY <1>3, FirstIsLeast
<1>6. First(S) <= limit /\ First(S) <= DirectBlocks * BlockSize
  BY <1>5
<1>7. \A i \in Z : First(S) <= i * BlockSize
  BY <1>5
<1>8. First(S) \in Nat
  BY <1>3, <1>5
<1> HIDE DEF S
<1> QED
  BY <1>1, <1>4, <1>6, <1>7, <1>8

\* Each byte that is read lies in a block the file has.
LEMMA BytesAreThere ==
    ASSUME DiskTypeOK, NEW ino \in Inodes, NEW offset \in Nat, NEW count \in Nat,
           NEW m \in Nat, offset <= m, m < ReadEnd(ino, offset, count)
    PROVE  ByteAt(ino, m) \in Characters
<1> DEFINE i == m \div BlockSize
<1>1. /\ i \in Nat /\ m % BlockSize \in 0..(BlockSize - 1)
      /\ i * BlockSize <= m /\ i * BlockSize \in Nat
  BY Sets, DivMod
<1>2. offset \div BlockSize <= i
  BY Sets, DivOrder
<1> HIDE DEF i
<1>3. i \in Pointers
  <2>1. i * BlockSize < DirectBlocks * BlockSize
    <3>1. /\ ReadEnd(ino, offset, count) \in Nat
          /\ ReadEnd(ino, offset, count) <= DirectBlocks * BlockSize
      BY ReadEndIs
    <3>2. DirectBlocks * BlockSize \in Nat
      BY Sets, MulOrder
    <3> DEFINE p == i * BlockSize
               q == DirectBlocks * BlockSize
    <3> HIDE DEF p, q
    <3>3. p \in Nat /\ q \in Nat /\ p <= m /\ ReadEnd(ino, offset, count) <= q
      BY <1>1, <3>1, <3>2 DEF p, q
    <3>4. p < q
      BY <3>1, <3>3
    <3> QED
      BY <3>4 DEF p, q
  <2>2. i < DirectBlocks
    BY <1>1, <2>1, Sets, MulOrder
  <2> QED
    BY <1>1, <2>2, Sets DEF Pointers
<1>4. inodes[ino].blocks[i] # 0
  <2>1. /\ ReadEnd(ino, offset, count) \in Nat
        /\ i >= offset \div BlockSize /\ inodes[ino].blocks[i] = 0
           => ReadEnd(ino, offset, count) <= i * BlockSize
    BY <1>3, ReadEndIs
  <2> DEFINE o == offset \div BlockSize
             p == i * BlockSize
             r == ReadEnd(ino, offset, count)
  <2>2. o \in Nat /\ o <= i /\ p \in Nat /\ p <= m /\ r \in Nat /\ m < r
    BY <1>1, <1>2, <2>1, Sets, DivMod
  <2>3. i >= o /\ inodes[ino].blocks[i] = 0 => r <= p
    BY <2>1
  <2> HIDE DEF o, p, r
  <2> QED
    BY <1>1, <2>2, <2>3
<1>5. inodes[ino].blocks[i] \in Blocks
  BY <1>3, <1>4 DEF DiskTypeOK
<1> QED
  BY <1>1, <1>5 DEF ByteAt, DiskTypeOK, i

LEMMA ReadKeeps ==
    ASSUME FsInv, NEW fd, NEW count \in Counts, FsRead(fd, count)
    PROVE  FsInv'
<1> DEFINE ino == open_files[fd].inode
           offset == open_files[fd].offset
           end == Most(offset, ReadEnd(ino, offset, count))
<1>1. /\ fd \in Descriptors /\ open_files[fd].valid /\ call = NoCall /\ UNCHANGED call
      /\ reply' = [code |-> end - offset,
                   bytes |-> [n \in 1..(end - offset) |-> ByteAt(ino, offset + n - 1)]]
      /\ open_files' = [open_files EXCEPT ![fd].offset = end]
  BY DEF FsRead, IsOpen, Idle
<1>2. /\ ino \in Inodes /\ ino \in inode_bitmap /\ offset \in Nat
      /\ offset <= inodes[ino].size /\ count \in Nat
  BY <1>1, FileSystemAssumption DEF FsInv, OpenTypeOK, DescriptorsAreAlive, DiskInv,
                                    DiskTypeOK, FileSystemAssumption
<1>3. DiskTypeOK
  BY DEF FsInv, DiskInv
<1> HIDE DEF ino, offset
<1>4. end \in Nat /\ offset <= end /\ end <= inodes[ino].size
  <2>1. /\ ReadEnd(ino, offset, count) \in Nat
        /\ ReadEnd(ino, offset, count) <= inodes[ino].size
        /\ inodes[ino].size \in Nat
    BY <1>2, <1>3, ReadEndIs DEF DiskTypeOK
  <2> QED
    BY <1>2, <2>1 DEF Most
<1>5. ASSUME NEW n \in 1..(end - offset) PROVE ByteAt(ino, offset + n - 1) \in Characters
  <2>1. offset + n - 1 < ReadEnd(ino, offset, count)
    BY <1>2, <1>4, ReadEndIs, <1>3 DEF Most
  <2> QED
    BY <1>2, <1>3, <2>1, BytesAreThere
<1> HIDE DEF end
<1>6. ReplyTypeOK'
  <2>1. end - offset \in Nat
    BY <1>2, <1>4
  <2>2. [n \in 1..(end - offset) |-> ByteAt(ino, offset + n - 1)] \in Seq(Characters)
    BY <1>5, <2>1
  <2> QED
    BY <1>1, <2>1, <2>2 DEF ReplyTypeOK
<1>7. DiskInv' /\ UNCHANGED <<inode_bitmap, inodes>>
  BY DiskUnchanged DEF FsRead, FsInv, diskVars
<1>8. OpenTypeOK' /\ DescriptorsAreAlive'
  BY <1>1, <1>2, <1>4, <1>7 DEF FsInv, OpenTypeOK, DescriptorsAreAlive, ino
<1>9. CallTypeOK'
  BY <1>1 DEF FsInv, CallTypeOK
<1> QED
  BY <1>6, <1>7, <1>8, <1>9 DEF FsInv

-----------------------------------------------------------------------------
(* Writing.                                                                *)

\* What one turn of the loop of fs_write works on.
Start == Target.offset % BlockSize
Part == Least(BlockSize - Start, Len(call.rest))

LEMMA WhereToWrite ==
    ASSUME FsInv, MoreToWrite
    PROVE  /\ call.fd \in Descriptors /\ Target.valid
           /\ Target.inode \in inode_bitmap /\ Target.inode \in Inodes
           /\ Target.offset \in Nat /\ inodes[Target.inode].size \in Nat
           /\ Target.offset <= inodes[Target.inode].size
           /\ Pointer \in Pointers /\ Pointer * BlockSize \in Nat
           /\ Pointer * BlockSize <= Target.offset
           /\ Start \in 0..(BlockSize - 1)
           /\ Part \in Nat /\ Part >= 1 /\ Start + Part <= BlockSize
           /\ Part <= Len(call.rest)
           /\ Target.offset = Pointer * BlockSize + Start
           /\ Target.offset + Part <= (Pointer + 1) * BlockSize
<1>1. /\ call.fd \in Descriptors /\ Target.valid
      /\ call.rest \in Seq(Characters) /\ call.rest # <<>>
  BY DEF FsInv, CallTypeOK, MoreToWrite, IsOpen, Target
<1>2. Target.inode \in inode_bitmap /\ Target.offset <= inodes[Target.inode].size
  BY <1>1 DEF FsInv, DescriptorsAreAlive, Target
<1>3. Target.offset \in Nat
  BY <1>1 DEF FsInv, OpenTypeOK, Target
<1>4. Target.inode \in Inodes /\ inodes[Target.inode].size \in Nat
  BY <1>2 DEF FsInv, DiskInv, DiskTypeOK
<1>5. /\ Pointer \in Nat /\ Start \in 0..(BlockSize - 1)
      /\ Pointer * BlockSize \in Nat /\ Pointer * BlockSize <= Target.offset
      /\ Target.offset = Pointer * BlockSize + Start
  BY <1>3, Sets, DivMod DEF Pointer, Start
<1>6. Pointer \in Pointers
  BY <1>5, Sets DEF MoreToWrite, Pointers
<1>7. Len(call.rest) \in Nat /\ Len(call.rest) >= 1
  BY <1>1
<1>8. /\ Part \in Nat /\ Part >= 1 /\ Start + Part <= BlockSize
      /\ Part <= Len(call.rest)
  BY <1>5, <1>7, Sets DEF Part, Least
<1>9. (Pointer + 1) * BlockSize = Pointer * BlockSize + BlockSize
  BY <1>5, Sets, MulOrder
<1>10. Target.offset + Part <= (Pointer + 1) * BlockSize
  BY <1>5, <1>8, <1>9, Sets
<1> QED
  BY <1>1, <1>2, <1>3, <1>4, <1>5, <1>6, <1>8, <1>10

\* What does not depend on whether the block is a new one.
LEMMA PutKeeps ==
    ASSUME FsInv, MoreToWrite, NEW b \in Blocks, Put(b)
    PROVE  /\ inodes' \in [Inodes -> [size : Nat, blocks : [Pointers -> Blocks \cup {0}]]]
           /\ data' \in [Blocks -> [0..(BlockSize - 1) -> Characters]]
           /\ OpenTypeOK' /\ CallTypeOK' /\ ReplyTypeOK'
           /\ FilesAreNamedOnce' /\ SizesCoverBlocks' /\ DescriptorsAreAlive'
           /\ UNCHANGED <<inode_bitmap, free_inodes, directory>>
           /\ \A jno \in Inodes : \A i \in Pointers :
                 inodes'[jno].blocks[i] =
                    IF jno = Target.inode /\ i = Pointer THEN b ELSE inodes[jno].blocks[i]
<1> DEFINE ino == Target.inode
           offset == Target.offset
           top == Most(inodes[ino].size, offset + Part)
<1>1. /\ data' = [data EXCEPT ![b] =
                    [i \in 0..(BlockSize - 1) |->
                        IF i \in Start..(Start + Part - 1)
                        THEN call.rest[i - Start + 1] ELSE data[b][i]]]
      /\ inodes' = [inodes EXCEPT
                      ![ino] = [size |-> top,
                                blocks |-> [inodes[ino].blocks EXCEPT ![Pointer] = b]]]
      /\ open_files' = [open_files EXCEPT ![call.fd].offset = offset + Part]
      /\ call' = [call EXCEPT !.rest = SubSeq(call.rest, Part + 1, Len(call.rest)),
                              !.written = call.written + Part]
      /\ UNCHANGED <<inode_bitmap, free_inodes, directory, reply>>
  BY DEF Put, Start, Part, Size, Target
<1>2. /\ ino \in inode_bitmap /\ ino \in Inodes /\ Pointer \in Pointers
      /\ offset \in Nat /\ inodes[ino].size \in Nat /\ offset <= inodes[ino].size
      /\ Part \in Nat /\ Part >= 1 /\ Start \in 0..(BlockSize - 1)
      /\ Part <= Len(call.rest) /\ call.fd \in Descriptors
      /\ open_files[call.fd].inode = ino
  BY WhereToWrite DEF Target
<1>3. /\ top \in Nat /\ top >= inodes[ino].size /\ top >= offset + Part
      /\ top = inodes[ino].size \/ top = offset + Part
  BY <1>2 DEF Most
<1>4. DiskTypeOK /\ OpenTypeOK /\ CallTypeOK
  BY DEF FsInv, DiskInv
<1> HIDE DEF ino, offset, top
<1>5. /\ inodes' \in [Inodes -> [size : Nat, blocks : [Pointers -> Blocks \cup {0}]]]
      /\ \A jno \in Inodes : \A i \in Pointers :
            inodes'[jno].blocks[i] =
               IF jno = ino /\ i = Pointer THEN b ELSE inodes[jno].blocks[i]
      /\ \A jno \in Inodes : inodes'[jno].size = IF jno = ino THEN top ELSE inodes[jno].size
  BY <1>1, <1>2, <1>3, <1>4 DEF DiskTypeOK
<1>6. data' \in [Blocks -> [0..(BlockSize - 1) -> Characters]]
  <2>1. ASSUME NEW i \in 0..(BlockSize - 1), i \in Start..(Start + Part - 1)
        PROVE  call.rest[i - Start + 1] \in Characters
    <3>1. i - Start + 1 \in 1..Len(call.rest) /\ call.rest \in Seq(Characters)
      BY <1>2, <1>4, <2>1 DEF CallTypeOK
    <3> QED
      BY <3>1
  <2> DEFINE block == [i \in 0..(BlockSize - 1) |->
                         IF i \in Start..(Start + Part - 1)
                         THEN call.rest[i - Start + 1] ELSE data[b][i]]
  <2>2. \A i \in 0..(BlockSize - 1) : data[b][i] \in Characters
    BY <1>4 DEF DiskTypeOK
  <2>3. block \in [0..(BlockSize - 1) -> Characters]
    BY <2>1, <2>2
  <2>4. data' = [data EXCEPT ![b] = block]
    BY <1>1
  <2> HIDE DEF block
  <2>5. data \in [Blocks -> [0..(BlockSize - 1) -> Characters]]
    BY <1>4 DEF DiskTypeOK
  <2> QED
    BY ONLY <2>3, <2>4, <2>5, b \in Blocks
<1>7. OpenTypeOK'
  <2>1. offset + Part \in Nat
    BY <1>2
  <2> QED
    BY <1>1, <1>2, <1>4, <2>1 DEF OpenTypeOK
<1>8. CallTypeOK'
  <2>1. SubSeq(call.rest, Part + 1, Len(call.rest)) \in Seq(Characters)
    BY <1>2, <1>4 DEF CallTypeOK
  <2>2. IsOpen(call.fd) /\ call # NoCall
    BY <1>4 DEF CallTypeOK, MoreToWrite
  <2>3. \A fd \in Descriptors : open_files[fd].valid => open_files'[fd].valid
    BY <1>1, <1>2, <1>4 DEF OpenTypeOK
  <2> QED
    <3>1. call'.fd = call.fd /\ IsOpen(call.fd)'
      BY <1>1, <1>2, <1>4, <2>2, <2>3 DEF CallTypeOK, IsOpen
    <3>2. call' \in [fd : Descriptors \cup {-1}, rest : Seq(Characters), written : Nat]
      <4> DEFINE rest == SubSeq(call.rest, Part + 1, Len(call.rest))
      <4>1. rest \in Seq(Characters)
        BY <2>1
      <4>2. call \in [fd : Descriptors \cup {-1}, rest : Seq(Characters), written : Nat]
        BY <1>4 DEF CallTypeOK
      <4>3. call.written + Part \in Nat
        BY <1>2, <4>2
      <4>4. call' = [call EXCEPT !.rest = rest, !.written = call.written + Part]
        BY <1>1
      <4> HIDE DEF rest
      <4> QED
        BY <4>1, <4>2, <4>3, <4>4
    <3> QED
      BY <3>1, <3>2 DEF CallTypeOK, IsOpen
<1>9. ReplyTypeOK'
  BY <1>1 DEF FsInv, ReplyTypeOK
<1>10. FilesAreNamedOnce'
  BY <1>1 DEF FsInv, DiskInv, FilesAreNamedOnce, InUse
<1>11. DescriptorsAreAlive'
  <2>1. \A fd \in Descriptors :
          /\ open_files'[fd].valid = open_files[fd].valid
          /\ open_files'[fd].inode = open_files[fd].inode
          /\ open_files'[fd].offset = IF fd = call.fd THEN offset + Part
                                      ELSE open_files[fd].offset
    BY <1>1, <1>2, <1>4 DEF OpenTypeOK
  <2>2. \A fd \in Descriptors : open_files[fd].valid =>
          /\ open_files[fd].inode \in inode_bitmap /\ open_files[fd].inode \in Inodes
          /\ open_files[fd].offset \in Nat /\ inodes[open_files[fd].inode].size \in Nat
          /\ open_files[fd].offset <= inodes[open_files[fd].inode].size
    BY <1>4 DEF FsInv, DescriptorsAreAlive, DiskTypeOK, OpenTypeOK
  <2> QED
    BY <1>1, <1>2, <1>3, <1>5, <2>1, <2>2 DEF DescriptorsAreAlive
<1>12. SizesCoverBlocks'
  <2> SUFFICES ASSUME NEW jno \in inode_bitmap, NEW i \in Pointers
               PROVE  inodes'[jno].blocks[i] # 0 <=> i * BlockSize < inodes'[jno].size
    BY <1>1 DEF SizesCoverBlocks
  <2>1. /\ jno \in Inodes /\ inodes[jno].size \in Nat /\ i \in Nat /\ i * BlockSize \in Nat
        /\ inodes[jno].blocks[i] # 0 <=> i * BlockSize < inodes[jno].size
    BY <1>4, Sets, MulOrder DEF FsInv, DiskInv, DiskTypeOK, SizesCoverBlocks
  <2>2. /\ Pointer \in Nat /\ Pointer * BlockSize \in Nat /\ Pointer * BlockSize <= offset
        /\ offset + Part <= (Pointer + 1) * BlockSize /\ (Pointer + 1) * BlockSize \in Nat
    <3>1. /\ Pointer \in Nat /\ Pointer * BlockSize \in Nat /\ Pointer * BlockSize <= offset
          /\ offset + Part <= (Pointer + 1) * BlockSize
      BY WhereToWrite, Sets DEF offset
    <3>2. Pointer + 1 \in Nat
      BY <3>1
    <3>3. (Pointer + 1) * BlockSize \in Nat
      BY <3>2, Sets, MulOrder
    <3> QED
      BY <3>1, <3>3
  <2>3. CASE jno # ino
    BY <1>5, <2>1, <2>3
  <2>4. CASE jno = ino /\ i = Pointer
    <3>1. inodes'[jno].blocks[i] = b /\ b # 0
      BY <1>5, <2>1, <2>4, Sets
    <3>2. Pointer * BlockSize < top
      BY <1>2, <1>3, <2>2
    <3> QED
      BY <1>5, <2>1, <2>4, <3>1, <3>2
  <2>5. CASE jno = ino /\ i < Pointer
    <3>1. i * BlockSize < Pointer * BlockSize
      BY <2>1, <2>2, <2>5, Sets, MulOrder
    <3>2. i * BlockSize < inodes[jno].size /\ i * BlockSize < top
      BY <1>2, <1>3, <2>1, <2>2, <2>5, <3>1
    <3> QED
      BY <1>5, <2>1, <2>2, <2>5, <3>2
  <2>6. CASE jno = ino /\ i > Pointer
    <3>1. (Pointer + 1) * BlockSize <= i * BlockSize
      BY <2>1, <2>2, <2>6, Sets, MulOrder
    <3>2. i * BlockSize < top <=> i * BlockSize < inodes[jno].size
      BY <1>2, <1>3, <2>1, <2>2, <2>6, <3>1
    <3> QED
      BY <1>5, <2>1, <2>2, <2>6, <3>2
  <2> QED
    BY <2>1, <2>2, <2>3, <2>4, <2>5, <2>6
<1> QED
  BY <1>1, <1>5, <1>6, <1>7, <1>8, <1>9, <1>10, <1>11, <1>12 DEF ino

LEMMA WriteInPlaceKeeps ==
    ASSUME FsInv, WriteInPlace
    PROVE  FsInv'
<1>1. /\ MoreToWrite /\ PointsTo # 0 /\ Put(PointsTo)
      /\ UNCHANGED <<block_bitmap, free_blocks>>
  BY DEF WriteInPlace
<1>2. Target.inode \in Inodes /\ Pointer \in Pointers
  BY <1>1, WhereToWrite
<1>3. PointsTo \in Blocks
  BY <1>1, <1>2 DEF FsInv, DiskInv, DiskTypeOK, PointsTo
<1>4. /\ inodes' \in [Inodes -> [size : Nat, blocks : [Pointers -> Blocks \cup {0}]]]
      /\ data' \in [Blocks -> [0..(BlockSize - 1) -> Characters]]
      /\ OpenTypeOK' /\ CallTypeOK' /\ ReplyTypeOK'
      /\ FilesAreNamedOnce' /\ SizesCoverBlocks' /\ DescriptorsAreAlive'
      /\ UNCHANGED <<inode_bitmap, free_inodes, directory>>
  BY <1>1, <1>3, PutKeeps
<1>5. \A jno \in Inodes : \A i \in Pointers : inodes'[jno].blocks[i] = inodes[jno].blocks[i]
  BY <1>1, <1>3, PutKeeps DEF PointsTo
<1>6. DiskTypeOK'
  BY <1>1, <1>4 DEF FsInv, DiskInv, DiskTypeOK
<1>7. inode_bitmap \subseteq Inodes
  BY DEF FsInv, DiskInv, DiskTypeOK
<1>8. OwnersInv'
  <2>1. PointedToIsUsed'
    BY <1>1, <1>4, <1>5, <1>7 DEF FsInv, DiskInv, OwnersInv, PointedToIsUsed
  <2>2. UsedIsPointedTo'
    BY <1>1, <1>4, <1>5, <1>7 DEF FsInv, DiskInv, OwnersInv, UsedIsPointedTo
  <2>3. NoTwoPointers'
    BY <1>1, <1>4, <1>5, <1>7 DEF FsInv, DiskInv, OwnersInv, NoTwoPointers
  <2> QED
    BY <2>1, <2>2, <2>3 DEF OwnersInv
<1>9. StatisticsAreAccurate'
  BY <1>1, <1>4 DEF FsInv, DiskInv, StatisticsAreAccurate, FreeBlocks, FreeInodes
<1> QED
  BY <1>4, <1>6, <1>8, <1>9 DEF FsInv, DiskInv

\* The new block is one nobody points to, and takes the place of no other.
LEMMA WriteNewBlockKeeps ==
    ASSUME FsInv, WriteNewBlock
    PROVE  FsInv'
<1> DEFINE b == First(FreeBlocks)
<1>1. /\ MoreToWrite /\ PointsTo = 0 /\ FreeBlocks # {}
      /\ block_bitmap' = block_bitmap \cup {b}
      /\ free_blocks' = free_blocks - 1
      /\ Put(b)
  BY DEF WriteNewBlock
<1>2. /\ Target.inode \in Inodes /\ Target.inode \in inode_bitmap /\ Pointer \in Pointers
      /\ inodes[Target.inode].blocks[Pointer] = 0
  BY <1>1, WhereToWrite DEF PointsTo
<1>3. b \in FreeBlocks
  BY <1>1, Sets, FirstIsLeast DEF FreeBlocks
<1> HIDE DEF b
<1>4. b \in Blocks /\ b \notin block_bitmap /\ b # 0
  BY <1>3, Sets DEF FreeBlocks
<1>5. /\ inodes' \in [Inodes -> [size : Nat, blocks : [Pointers -> Blocks \cup {0}]]]
      /\ data' \in [Blocks -> [0..(BlockSize - 1) -> Characters]]
      /\ OpenTypeOK' /\ CallTypeOK' /\ ReplyTypeOK'
      /\ FilesAreNamedOnce' /\ SizesCoverBlocks' /\ DescriptorsAreAlive'
      /\ UNCHANGED <<inode_bitmap, free_inodes, directory>>
      /\ \A jno \in Inodes : \A i \in Pointers :
            inodes'[jno].blocks[i] =
               IF jno = Target.inode /\ i = Pointer THEN b ELSE inodes[jno].blocks[i]
  BY <1>1, <1>4, PutKeeps
<1>6. StatisticsAreAccurate' /\ free_blocks' \in Nat
  <2>1. FreeBlocks' = FreeBlocks \ {b} /\ FreeInodes' = FreeInodes
    BY <1>1, <1>5 DEF FreeBlocks, FreeInodes
  <2>2. IsFiniteSet(FreeBlocks)
    BY SetsAreFinite, FS_Subset DEF FreeBlocks
  <2>3. Cardinality(FreeBlocks') = Cardinality(FreeBlocks) - 1
    BY <1>3, <2>1, <2>2, FS_RemoveElement
  <2>4. Cardinality(FreeBlocks') \in Nat
    BY <2>1, <2>2, FS_RemoveElement, FS_CardinalityType
  <2> QED
    BY <1>1, <1>5, <2>1, <2>3, <2>4 DEF FsInv, DiskInv, StatisticsAreAccurate
<1>7. inode_bitmap \subseteq Inodes /\ block_bitmap \subseteq Blocks
  BY DEF FsInv, DiskInv, DiskTypeOK
<1>8. DiskTypeOK'
  BY <1>1, <1>4, <1>5, <1>6 DEF FsInv, DiskInv, DiskTypeOK
<1>9. OwnersInv'
  <2>1. PointedToIsUsed'
    BY <1>1, <1>5, <1>7 DEF FsInv, DiskInv, OwnersInv, PointedToIsUsed
  <2>2. UsedIsPointedTo'
    <3> SUFFICES ASSUME NEW c \in block_bitmap \cup {b}
                 PROVE  \E jno \in inode_bitmap : \E i \in Pointers :
                           inodes'[jno].blocks[i] = c
      BY <1>1, <1>5 DEF UsedIsPointedTo
    <3>1. CASE c = b
      BY <1>2, <1>5, <3>1
    <3>2. CASE c \in block_bitmap
      <4>1. PICK jno \in inode_bitmap, i \in Pointers : inodes[jno].blocks[i] = c
        BY <3>2 DEF FsInv, DiskInv, OwnersInv, UsedIsPointedTo
      <4>2. c # 0
        BY <1>7, <3>2, Sets
      <4> QED
        BY <1>2, <1>5, <1>7, <4>1, <4>2
    <3> QED
      BY <3>1, <3>2
  <2>3. NoTwoPointers'
    <3>1. \A jno \in inode_bitmap : \A i \in Pointers : inodes[jno].blocks[i] # b
      BY <1>4 DEF FsInv, DiskInv, OwnersInv, PointedToIsUsed
    <3> QED
      BY <1>5, <1>7, <3>1 DEF FsInv, DiskInv, OwnersInv, NoTwoPointers
  <2> QED
    BY <2>1, <2>2, <2>3 DEF OwnersInv
<1> QED
  BY <1>5, <1>6, <1>8, <1>9 DEF FsInv, DiskInv

LEMMA FsWriteKeeps ==
    ASSUME FsInv, NEW fd, NEW text \in Texts, FsWrite(fd, text)
    PROVE  FsInv'
<1>1. /\ IsOpen(fd) /\ fd \in Descriptors /\ text \in Seq(Characters)
      /\ call' = [fd |-> fd, rest |-> text, written |-> 0]
      /\ UNCHANGED <<open_files, reply>>
  BY FileSystemAssumption DEF FsWrite, IsOpen, FileSystemAssumption
<1>2. DiskInv' /\ UNCHANGED <<inode_bitmap, inodes>>
  BY DiskUnchanged DEF FsWrite, FsInv, diskVars
<1>3. CallTypeOK'
  BY <1>1 DEF CallTypeOK, IsOpen
<1> QED
  BY <1>1, <1>2, <1>3 DEF FsInv, OpenTypeOK, ReplyTypeOK, DescriptorsAreAlive

-----------------------------------------------------------------------------
(* Removing a file.                                                        *)

LEMMA UnlinkKeeps ==
    ASSUME FsInv, NEW name \in Names, FsUnlink(name)
    PROVE  FsInv'
<1> DEFINE ino == FindInode(name)
           e == EntryOf(ino)
           freed == Freed(ino)
<1>1. /\ call = NoCall /\ ino # 0 /\ NotOpen(ino)
      /\ block_bitmap' = block_bitmap \ freed
      /\ free_blocks' = free_blocks + Cardinality(freed)
      /\ inode_bitmap' = inode_bitmap \ {ino}
      /\ free_inodes' = free_inodes + 1
      /\ directory' = [directory EXCEPT ![e] = [name |-> NoName, inode |-> 0]]
      /\ UNCHANGED <<inodes, data, open_files, call>> /\ Returns(0)
  BY DEF FsUnlink, Idle
<1>2. ino \in inode_bitmap /\ ino \in Inodes
  BY <1>1, Found DEF FsInv, DiskInv
<1>3. freed = {inodes[ino].blocks[i] : i \in Pointers} \cap block_bitmap
  BY DEF Freed, BlocksOf
<1>4. /\ e \in DirEntries /\ directory[e].inode = ino /\ e \in InUse
      /\ \A f \in InUse : directory[f].inode = ino => f = e
  <2> DEFINE S == {f \in DirEntries : directory[f].inode = ino}
  <2>1. S # {} /\ S \subseteq InUse
    BY <1>1, <1>2 DEF FsInv, DiskInv, FilesAreNamedOnce, InUse
  <2>2. e \in S
    BY <2>1, Sets, FirstIsLeast DEF EntryOf
  <2> QED
    BY <2>1, <2>2 DEF FsInv, DiskInv, FilesAreNamedOnce
<1> HIDE DEF ino, e, freed
<1>5. DiskTypeOK /\ OwnersInv /\ FilesAreNamedOnce /\ SizesCoverBlocks /\ StatisticsAreAccurate
  BY DEF FsInv, DiskInv
<1>6. StatisticsAreAccurate' /\ free_blocks' \in Nat /\ free_inodes' \in Nat
  <2>1. FreeInodes' = FreeInodes \cup {ino} /\ ino \notin FreeInodes
    BY <1>1, <1>2 DEF FreeInodes
  <2>2. IsFiniteSet(FreeInodes) /\ IsFiniteSet(FreeBlocks) /\ IsFiniteSet(freed)
    BY <1>3, <1>5, SetsAreFinite, FS_Subset DEF FreeInodes, FreeBlocks, DiskTypeOK
  <2>3. FreeBlocks' = FreeBlocks \cup freed /\ FreeBlocks \cap freed = {}
    BY <1>1, <1>3, <1>5 DEF FreeBlocks, DiskTypeOK
  <2>4. Cardinality(FreeInodes') = Cardinality(FreeInodes) + 1
    BY <2>1, <2>2, FS_AddElement
  <2>5. /\ Cardinality(FreeBlocks) \in Nat /\ Cardinality(freed) \in Nat
        /\ Cardinality(FreeInodes) \in Nat
    BY <2>2, FS_CardinalityType
  <2>6. Cardinality(FreeBlocks') = Cardinality(FreeBlocks) + Cardinality(freed)
    <3>1. Cardinality(FreeBlocks \cup freed) =
             Cardinality(FreeBlocks) + Cardinality(freed) - Cardinality(FreeBlocks \cap freed)
      BY <2>2, FS_Union
    <3>2. Cardinality(FreeBlocks \cap freed) = 0
      BY <2>3, FS_EmptySet
    <3>3. Cardinality(FreeBlocks \cup freed) = Cardinality(FreeBlocks) + Cardinality(freed)
      BY <2>5, <3>1, <3>2
    <3> QED
      BY <2>3, <3>3
  <2> QED
    BY <1>1, <1>5, <2>4, <2>5, <2>6 DEF StatisticsAreAccurate
<1>7. DiskTypeOK'
  BY <1>1, <1>4, <1>5, <1>6, FileSystemAssumption DEF DiskTypeOK, FileSystemAssumption
<1>8. OwnersInv'
  <2>1. PointedToIsUsed'
    <3> SUFFICES ASSUME NEW jno \in inode_bitmap \ {ino}, NEW i \in Pointers,
                        inodes[jno].blocks[i] # 0
                 PROVE  inodes[jno].blocks[i] \in block_bitmap \ freed
      BY <1>1 DEF PointedToIsUsed
    <3>1. inodes[jno].blocks[i] \in block_bitmap
      BY <1>5 DEF OwnersInv, PointedToIsUsed
    <3>2. \A j \in Pointers : inodes[ino].blocks[j] # inodes[jno].blocks[i]
      BY <1>2, <1>5 DEF OwnersInv, NoTwoPointers
    <3> QED
      BY <1>3, <3>1, <3>2
  <2>2. UsedIsPointedTo'
    BY <1>1, <1>2, <1>3, <1>5 DEF OwnersInv, UsedIsPointedTo
  <2>3. NoTwoPointers'
    BY <1>1, <1>5 DEF OwnersInv, NoTwoPointers
  <2> QED
    BY <2>1, <2>2, <2>3 DEF OwnersInv
<1>9. FilesAreNamedOnce'
  <2>1. InUse' = InUse \ {e} /\ \A f \in InUse \ {e} : directory'[f] = directory[f]
    BY <1>1, <1>4, <1>5 DEF InUse, DiskTypeOK
  <2>2. inode_bitmap' = {directory[f].inode : f \in InUse \ {e}}
    BY <1>1, <1>4, <1>5 DEF FilesAreNamedOnce
  <2> QED
    BY <1>5, <2>1, <2>2 DEF FilesAreNamedOnce
<1>10. SizesCoverBlocks'
  BY <1>1, <1>5 DEF SizesCoverBlocks
<1>11. DescriptorsAreAlive'
  BY <1>1 DEF FsInv, DescriptorsAreAlive, NotOpen
<1>12. OpenTypeOK' /\ CallTypeOK' /\ ReplyTypeOK'
  BY <1>1, ReturnsAnInteger DEF FsInv, OpenTypeOK, CallTypeOK
<1> QED
  BY <1>6, <1>7, <1>8, <1>9, <1>10, <1>11, <1>12 DEF FsInv, DiskInv

-----------------------------------------------------------------------------
(* The theorems.                                                           *)

LEMMA NextKeeps ==
    ASSUME FsInv, [Next]_fsVars
    PROVE  FsInv'
<1>1. CASE UNCHANGED fsVars
  BY <1>1, ReturnKeeps DEF fsVars, FsInv, ReplyTypeOK
<1>2. ASSUME NEW name \in Names,
             \/ FsCreateFile(name) \/ CreateFileFails(name)
             \/ \E create \in BOOLEAN : FsOpen(name, create)
             \/ FsUnlink(name) \/ UnlinkFails(name)
      PROVE  FsInv'
  <2>1. CASE FsCreateFile(name) \/ OpenNew(name) \/ OpenNewFails(name)
    BY <2>1, CreateKeeps
  <2>2. CASE OpenExisting(name)
    BY <2>2, OpenExistingKeeps
  <2>3. CASE FsUnlink(name)
    BY <2>3, UnlinkKeeps
  <2>4. CASE \/ CreateFileFails(name) \/ UnlinkFails(name)
             \/ \E create \in BOOLEAN : OpenFails(name, create)
    <3>1. Returns(-1) /\ UNCHANGED <<diskVars, open_files, call>>
      BY <2>4 DEF CreateFileFails, UnlinkFails, OpenFails
    <3> QED
      BY <3>1, ReturnsAnInteger, ReturnKeeps
  <2> QED
    BY <1>2, <2>1, <2>2, <2>3, <2>4 DEF FsOpen
<1>3. ASSUME NEW fd,
             \/ FsClose(fd) \/ BadDescriptor(fd)
             \/ \E count \in Counts : FsRead(fd, count)
             \/ \E text \in Texts : FsWrite(fd, text)
      PROVE  FsInv'
  <2>1. CASE BadDescriptor(fd)
    BY <2>1, ReturnsAnInteger, ReturnKeeps DEF BadDescriptor
  <2> QED
    BY <1>3, <2>1, CloseKeeps, ReadKeeps, FsWriteKeeps
<1>4. CASE WriteReturns
  <2>1. call.written \in Nat
    BY DEF FsInv, CallTypeOK
  <2> QED
    BY <1>4, <2>1, ReturnsAnInteger, ReturnKeeps DEF WriteReturns
<1> QED
  BY <1>1, <1>2, <1>3, <1>4, WriteInPlaceKeeps, WriteNewBlockKeeps DEF Next

\* No call of fs.h, nor any turn of the loop in fs_write, breaks the invariant.
THEOREM FsInvariant == Spec => []FsInv
BY InitHolds, NextKeeps, PTL DEF Spec

\* Every structure of fs.c keeps its type: pointers are data blocks or 0, no
\* counter goes below 0, and a read returns bytes of blocks there are.
THEOREM FsTypeCorrect == Spec => []FsTypeOK
<1>1. FsInv => FsTypeOK
  BY DEF FsInv, DiskInv, DiskTypeOK, OpenTypeOK, CallTypeOK, ReplyTypeOK, FsTypeOK
<1> QED
  BY <1>1, FsInvariant, PTL

\* fs_alloc_block and fs_free_block: a block that is marked as used belongs
\* to one pointer of one file, and a free one to none.
THEOREM BlocksAreOwned == Spec => []BlocksHaveOneOwner
<1>1. ASSUME FsInv PROVE BlocksHaveOneOwner
  <2> SUFFICES ASSUME NEW b \in Blocks
               PROVE  Cardinality(Users(b)) = IF b \in block_bitmap THEN 1 ELSE 0
    BY DEF BlocksHaveOneOwner
  <2>1. OwnersInv /\ b # 0
    BY <1>1, Sets DEF FsInv, DiskInv
  <2>2. CASE b \in block_bitmap
    <3>1. PICK ino \in inode_bitmap, i \in Pointers : inodes[ino].blocks[i] = b
      BY <2>1, <2>2 DEF OwnersInv, UsedIsPointedTo
    <3>2. <<ino, i>> \in Users(b)
      BY <3>1 DEF Users
    <3>3. ASSUME NEW u \in Users(b) PROVE u = <<ino, i>>
      <4>1. u = <<u[1], u[2]>> /\ u[1] \in inode_bitmap /\ u[2] \in Pointers
            /\ inodes[u[1]].blocks[u[2]] = b
        BY DEF Users
      <4>2. u[1] = ino /\ u[2] = i
        BY <2>1, <3>1, <4>1 DEF OwnersInv, NoTwoPointers
      <4> QED
        BY <4>1, <4>2
    <3>4. Users(b) = {<<ino, i>>}
      BY <3>2, <3>3
    <3> QED
      BY <2>2, <3>4, FS_Singleton
  <2>3. CASE b \notin block_bitmap
    <3>1. Users(b) = {}
      BY <2>1, <2>3 DEF OwnersInv, PointedToIsUsed, Users
    <3> QED
      BY <2>3, <3>1, FS_EmptySet
  <2> QED
    BY <2>2, <2>3
<1> QED
  BY <1>1, FsInvariant, PTL

\* The directory of fs.c names every inode in use once, by a name of its own.
THEOREM NamesAreUnique == Spec => []FilesAreNamedOnce
<1>1. FsInv => FilesAreNamedOnce
  BY DEF FsInv, DiskInv
<1> QED
  BY <1>1, FsInvariant, PTL

\* fs_write: a file has the blocks its size needs, no hole and no more.
THEOREM FilesHaveNoHoles == Spec => []SizesCoverBlocks
<1>1. FsInv => SizesCoverBlocks
  BY DEF FsInv, DiskInv
<1> QED
  BY <1>1, FsInvariant, PTL

\* The counts that fsstats prints never drift from the bitmaps.
THEOREM StatisticsNeverDrift == Spec => []StatisticsAreAccurate
<1>1. FsInv => StatisticsAreAccurate
  BY DEF FsInv, DiskInv
<1> QED
  BY <1>1, FsInvariant, PTL

\* An open descriptor of fs.c refers to a file that is there, at an offset
\* within it.
THEOREM DescriptorsStayAlive == Spec => []DescriptorsAreAlive
<1>1. FsInv => DescriptorsAreAlive
  BY DEF FsInv
<1> QED
  BY <1>1, FsInvariant, PTL

-----------------------------------------------------------------------------
(* What fs.h promises: FileSystem implements FileStore.                    *)

\* What is left of a write is no longer than the text it is left of.
RestFits == call # NoCall => \E text \in Texts : Len(call.rest) <= Len(text)

SizesFit == \A ino \in inode_bitmap : inodes[ino].size <= MaxFileSize

FitInv == FsInv /\ RestFits /\ SizesFit

LEMMA InitFits == Init => FitInv
BY InitHolds DEF Init, FitInv, RestFits, SizesFit

LEMMA MaxFileSizeIs ==
    /\ MaxFileSize \in Nat /\ MaxFileSize >= DirectBlocks
    /\ \A i \in Pointers : (i + 1) * BlockSize \in Nat /\ (i + 1) * BlockSize <= MaxFileSize
    /\ \A i \in Nat : i * BlockSize < MaxFileSize <=> i < DirectBlocks
<1>1. BlockSize \in Nat \ {0} /\ DirectBlocks \in Nat \ {0}
  BY Sets
<1>2. MaxFileSize \in Nat
  BY <1>1, MulOrder DEF MaxFileSize
<1>3. ASSUME NEW i \in Nat PROVE i * BlockSize < MaxFileSize <=> i < DirectBlocks
  BY <1>1, MulOrder DEF MaxFileSize
<1>4. ASSUME NEW i \in Pointers
      PROVE  (i + 1) * BlockSize \in Nat /\ (i + 1) * BlockSize <= MaxFileSize
  <2>1. i \in Nat /\ i < DirectBlocks
    BY <1>1 DEF Pointers
  <2>2. (i + 1) * BlockSize <= DirectBlocks * BlockSize
    BY <1>1, <2>1, MulOrder
  <2>3. i + 1 \in Nat
    BY <2>1
  <2>4. (i + 1) * BlockSize \in Nat
    BY <1>1, <2>3, MulOrder
  <2> QED
    BY <2>2, <2>4 DEF MaxFileSize
<1>5. MaxFileSize >= DirectBlocks
  <2>1. DirectBlocks * BlockSize >= DirectBlocks
    BY <1>1
  <2> QED
    BY <2>1 DEF MaxFileSize
<1> QED
  BY <1>2, <1>3, <1>4, <1>5

\* One turn of the loop of fs_write.
LEMMA PutDoes ==
    ASSUME FsInv, MoreToWrite, NEW b \in Blocks, Put(b)
    PROVE  /\ data' = [data EXCEPT ![b] =
                         [i \in 0..(BlockSize - 1) |->
                             IF i \in Start..(Start + Part - 1)
                             THEN call.rest[i - Start + 1] ELSE data[b][i]]]
           /\ \A jno \in Inodes :
                 inodes'[jno].size = IF jno = Target.inode
                                     THEN Most(inodes[jno].size, Target.offset + Part)
                                     ELSE inodes[jno].size
           /\ \A jno \in Inodes : \A i \in Pointers :
                 inodes'[jno].blocks[i] =
                    IF jno = Target.inode /\ i = Pointer THEN b ELSE inodes[jno].blocks[i]
           /\ open_files' = [open_files EXCEPT ![call.fd].offset = Target.offset + Part]
           /\ call' = [call EXCEPT !.rest = SubSeq(call.rest, Part + 1, Len(call.rest)),
                                   !.written = call.written + Part]
           /\ call' # NoCall
           /\ UNCHANGED <<inode_bitmap, free_inodes, directory, reply>>
<1>1. /\ data' = [data EXCEPT ![b] =
                    [i \in 0..(BlockSize - 1) |->
                        IF i \in Start..(Start + Part - 1)
                        THEN call.rest[i - Start + 1] ELSE data[b][i]]]
      /\ inodes' = [inodes EXCEPT
                      ![Target.inode] = [size |-> Most(inodes[Target.inode].size,
                                                       Target.offset + Part),
                                blocks |-> [inodes[Target.inode].blocks EXCEPT
                                               ![Pointer] = b]]]
      /\ open_files' = [open_files EXCEPT ![call.fd].offset = Target.offset + Part]
      /\ call' = [call EXCEPT !.rest = SubSeq(call.rest, Part + 1, Len(call.rest)),
                              !.written = call.written + Part]
      /\ UNCHANGED <<inode_bitmap, free_inodes, directory, reply>>
  BY DEF Put, Start, Part, Size, Target
<1>2. Target.inode \in Inodes /\ Pointer \in Pointers
  BY WhereToWrite
<1>3. \A jno \in Inodes :
         inodes'[jno].size = IF jno = Target.inode
                             THEN Most(inodes[jno].size, Target.offset + Part)
                             ELSE inodes[jno].size
  BY <1>1, <1>2 DEF FsInv, DiskInv, DiskTypeOK
<1>4. call'.fd = call.fd /\ call.fd \in Descriptors
  BY <1>1, WhereToWrite DEF FsInv, CallTypeOK
<1>5. call' # NoCall
  BY <1>4, Sets DEF NoCall
<1> QED
  BY <1>1, <1>3, <1>5, PutKeeps

LEMMA WritingFits ==
    ASSUME FitInv, MoreToWrite, NEW b \in Blocks, Put(b)
    PROVE  RestFits' /\ SizesFit'
<1> USE DEF FitInv
<1>1. /\ Target.offset \in Nat /\ Part \in Nat /\ Part <= Len(call.rest)
      /\ Target.offset + Part <= (Pointer + 1) * BlockSize /\ Pointer \in Pointers
  BY WhereToWrite
<1>2. RestFits'
  <2>1. call'.rest = SubSeq(call.rest, Part + 1, Len(call.rest)) /\ call # NoCall
        /\ call.rest \in Seq(Characters)
    BY PutDoes DEF FsInv, CallTypeOK, MoreToWrite
  <2>2. Len(call'.rest) <= Len(call.rest)
    BY <1>1, <2>1
  <2>3. PICK text \in Texts : Len(call.rest) <= Len(text)
    BY <2>1 DEF RestFits
  <2>4. Len(text) \in Nat /\ Len(call.rest) \in Nat /\ Len(call'.rest) \in Nat
    BY <1>1, <2>1, FileSystemAssumption DEF FileSystemAssumption
  <2> QED
    BY <2>2, <2>3, <2>4 DEF RestFits
<1>3. SizesFit'
  <2>1. Target.offset + Part <= MaxFileSize
    BY <1>1, MaxFileSizeIs
  <2>2. inode_bitmap \subseteq Inodes
    BY DEF FsInv, DiskInv, DiskTypeOK
  <2> QED
    BY <2>1, <2>2, PutDoes DEF SizesFit, Most
<1> QED
  BY <1>2, <1>3

LEMMA NextFits ==
    ASSUME FitInv, FsInv', [Next]_fsVars
    PROVE  FitInv'
<1> USE DEF FitInv
<1>0. \A text \in Texts : Len(text) \in Nat
  BY FileSystemAssumption DEF FileSystemAssumption
<1>1. CASE UNCHANGED <<inodes, inode_bitmap>> /\ (UNCHANGED call \/ call' = NoCall)
  BY <1>1 DEF RestFits, SizesFit, NoCall
<1>2. CASE \E name \in Names : Creatable(name) /\ MakeFile(name) /\ UNCHANGED call
  <2>1. PICK name \in Names : Creatable(name) /\ MakeFile(name) /\ UNCHANGED call
    BY <1>2
  <2>2. /\ \A ino \in inode_bitmap : inodes'[ino] = inodes[ino]
        /\ inodes'[First(FreeInodes)].size = 0
        /\ inode_bitmap' = inode_bitmap \cup {First(FreeInodes)}
    BY <2>1, MakeFileKeeps DEF FsInv, MakeFile
  <2> QED
    BY <2>1, <2>2, MaxFileSizeIs DEF RestFits, SizesFit, NoCall
<1>3. CASE \E name \in Names : FsUnlink(name)
  BY <1>3 DEF FsUnlink, RestFits, SizesFit, NoCall
<1>4. CASE \E fd \in Descriptors \cup {-1}, text \in Texts : FsWrite(fd, text)
  <2>1. PICK fd \in Descriptors \cup {-1}, text \in Texts : FsWrite(fd, text)
    BY <1>4
  <2>2. call'.rest = text /\ Len(text) <= Len(text)
    BY <1>0, <2>1 DEF FsWrite
  <2> QED
    BY <2>1, <2>2 DEF RestFits, SizesFit, FsWrite, diskVars
<1>5. CASE WriteInPlace
  <2>1. PointsTo \in Blocks
    BY <1>5, WhereToWrite DEF WriteInPlace, FsInv, DiskInv, DiskTypeOK, PointsTo
  <2> QED
    BY <1>5, <2>1, WritingFits DEF WriteInPlace
<1>6. CASE WriteNewBlock
  <2>1. First(FreeBlocks) \in Blocks
    BY <1>6, Sets, FirstIsLeast DEF WriteNewBlock, FreeBlocks
  <2> QED
    BY <1>6, <2>1, WritingFits DEF WriteNewBlock
<1>7. ASSUME NEW name \in Names
      PROVE  /\ FsCreateFile(name) => Creatable(name) /\ MakeFile(name) /\ UNCHANGED call
             /\ CreateFileFails(name) => UNCHANGED <<inodes, inode_bitmap, call>>
             /\ UnlinkFails(name) => UNCHANGED <<inodes, inode_bitmap, call>>
             /\ (\E create \in BOOLEAN : FsOpen(name, create)) =>
                   \/ UNCHANGED <<inodes, inode_bitmap, call>>
                   \/ Creatable(name) /\ MakeFile(name) /\ UNCHANGED call
  BY DEF FsCreateFile, CreateFileFails, UnlinkFails, FsOpen, OpenExisting, OpenNew,
         OpenNewFails, OpenFails, diskVars
<1>8. ASSUME NEW fd
      PROVE  /\ FsClose(fd) => UNCHANGED <<inodes, inode_bitmap, call>>
             /\ BadDescriptor(fd) => UNCHANGED <<inodes, inode_bitmap, call>>
             /\ \A count \in Counts : FsRead(fd, count) => UNCHANGED <<inodes, inode_bitmap, call>>
  BY DEF FsClose, BadDescriptor, FsRead, diskVars
<1>9. WriteReturns => UNCHANGED <<inodes, inode_bitmap>> /\ call' = NoCall
  BY DEF WriteReturns, diskVars
<1>10. UNCHANGED fsVars => UNCHANGED <<inodes, inode_bitmap, call>>
  BY DEF fsVars, diskVars
<1> QED
  BY <1>1, <1>2, <1>3, <1>4, <1>5, <1>6, <1>7, <1>8, <1>9, <1>10 DEF Next

-----------------------------------------------------------------------------
(* Names.                                                                  *)

\* Entries in use are found by their names and by their inodes.
EntriesFound ==
    /\ \A e \in InUse : /\ FindInode(directory[e].name) = directory[e].inode
                        /\ NameOf(directory[e].inode) = directory[e].name
                        /\ directory[e].inode \in inode_bitmap
    /\ \A ino \in inode_bitmap : \E e \in InUse : directory[e].inode = ino
    /\ \A name : FindInode(name) # 0 => \E e \in InUse : directory[e].name = name

LEMMA EntriesAreFound == FsInv => EntriesFound
<1> SUFFICES ASSUME FsInv PROVE EntriesFound
  OBVIOUS
<1>1. FilesAreNamedOnce
  BY DEF FsInv, DiskInv
<1>2. ASSUME NEW e \in InUse
      PROVE  /\ FindInode(directory[e].name) = directory[e].inode
             /\ NameOf(directory[e].inode) = directory[e].name
  <2>1. e \in Named(directory[e].name) /\ Named(directory[e].name) \subseteq InUse
    BY DEF Named, InUse
  <2>2. First(Named(directory[e].name)) \in Named(directory[e].name)
    BY <2>1, Sets, FirstIsLeast DEF Named
  <2>3. First(Named(directory[e].name)) = e
    BY <1>1, <2>1, <2>2 DEF FilesAreNamedOnce, Named
  <2> DEFINE S == {f \in DirEntries : directory[f].inode = directory[e].inode}
  <2>4. e \in S /\ S \subseteq InUse
    BY DEF InUse
  <2>5. First(S) \in S
    BY <2>4, Sets, FirstIsLeast
  <2>6. First(S) = e
    BY <1>1, <2>4, <2>5 DEF FilesAreNamedOnce
  <2> QED
    BY <2>1, <2>3, <2>6 DEF FindInode, NameOf, EntryOf
<1>3. ASSUME NEW name, FindInode(name) # 0 PROVE \E e \in InUse : directory[e].name = name
  <2>1. Named(name) # {}
    BY <1>3 DEF FindInode
  <2> QED
    BY <2>1 DEF Named, InUse
<1> QED
  BY <1>1, <1>2, <1>3 DEF FilesAreNamedOnce, EntriesFound

LEMMA EntriesStayFound == FsInv' => EntriesFound'
BY EntriesAreFound, PTL

\* The files are those the directory names.
FilesFound ==
    /\ DOMAIN StoredFiles = {directory[e].name : e \in InUse}
    /\ \A name : name \in DOMAIN StoredFiles <=> FindInode(name) # 0
    /\ \A name \in DOMAIN StoredFiles :
          /\ StoredFiles[name] = Contents(FindInode(name))
          /\ FindInode(name) \in inode_bitmap
          /\ NameOf(FindInode(name)) = name
    /\ \A ino \in inode_bitmap :
          /\ NameOf(ino) \in DOMAIN StoredFiles
          /\ FindInode(NameOf(ino)) = ino

LEMMA FilesAreFound == FsInv => FilesFound
<1> SUFFICES ASSUME FsInv PROVE FilesFound
  OBVIOUS
<1>1. EntriesFound /\ inode_bitmap \subseteq Inodes /\ 0 \notin Inodes
  BY EntriesAreFound, Sets DEF FsInv, DiskInv, DiskTypeOK
<1>2. DOMAIN StoredFiles = {directory[e].name : e \in InUse}
  BY DEF StoredFiles
<1>3. \A name \in DOMAIN StoredFiles : StoredFiles[name] = Contents(FindInode(name))
  BY DEF StoredFiles
<1>4. ASSUME NEW name \in DOMAIN StoredFiles
      PROVE  /\ FindInode(name) \in inode_bitmap
             /\ NameOf(FindInode(name)) = name
  <2>1. PICK e \in InUse : directory[e].name = name
    BY <1>2
  <2> QED
    BY <1>1, <2>1 DEF EntriesFound
<1>5. ASSUME NEW name, FindInode(name) # 0 PROVE name \in DOMAIN StoredFiles
  BY <1>1, <1>2, <1>5 DEF EntriesFound
<1>6. ASSUME NEW ino \in inode_bitmap
      PROVE  NameOf(ino) \in DOMAIN StoredFiles /\ FindInode(NameOf(ino)) = ino
  <2>1. PICK e \in InUse : directory[e].inode = ino
    BY <1>1 DEF EntriesFound
  <2> QED
    BY <1>1, <1>2, <2>1 DEF EntriesFound
<1>7. \A name \in DOMAIN StoredFiles : FindInode(name) # 0
  BY <1>1, <1>4
<1> QED
  BY <1>2, <1>3, <1>4, <1>5, <1>6, <1>7 DEF FilesFound

LEMMA FilesStayFound == FsInv' => FilesFound'
BY FilesAreFound, PTL

LEMMA FilesUnchanged ==
    ASSUME UNCHANGED diskVars
    PROVE  UNCHANGED StoredFiles
BY DEF diskVars, StoredFiles, InUse, Contents, ByteAt, FindInode, Named

LEMMA HandlesUnchanged ==
    ASSUME UNCHANGED <<directory, open_files>>
    PROVE  UNCHANGED OpenHandles
BY DEF OpenHandles, NameOf, EntryOf

LEMMA WriteUnchanged ==
    ASSUME UNCHANGED call
    PROVE  UNCHANGED WriteUnderWay
BY DEF WriteUnderWay

LEMMA IdleIs ==
    ASSUME CallTypeOK
    PROVE  Store!Idle <=> Idle
<1>1. WriteUnderWay = Store!NoWrite => call.fd = -1
  BY DEF WriteUnderWay, Store!NoWrite
<1>2. call # NoCall => call.fd # -1
  BY Sets DEF CallTypeOK, IsOpen
<1>3. call = NoCall => WriteUnderWay = Store!NoWrite
  BY DEF WriteUnderWay, Store!NoWrite, NoCall
<1> QED
  BY <1>1, <1>2, <1>3 DEF Idle, Store!Idle

LEMMA InitRefines == Init => Store!Init
<1> SUFFICES ASSUME Init PROVE Store!Init
  OBVIOUS
<1>1. StoredFiles = <<>>
  <2>1. InUse = {}
    BY DEF Init, InUse
  <2> QED
    BY <2>1 DEF StoredFiles
<1>2. OpenHandles = <<>>
  <2>1. {fd \in Descriptors : open_files[fd].valid} = {}
    BY DEF Init
  <2> QED
    BY <2>1 DEF OpenHandles
<1>3. WriteUnderWay = Store!NoWrite
  BY DEF Init, WriteUnderWay, Store!NoWrite, NoCall
<1> QED
  BY <1>1, <1>2, <1>3 DEF Init, Store!Init, Store!Code

\* A call that fails is, to FileStore, one that asked for an impossible name.
LEMMA FailureRefines ==
    ASSUME Idle, Returns(-1), UNCHANGED <<diskVars, open_files, call>>
    PROVE  Store!Next
<1>1. NoName \in Names /\ NoName \notin Names \ BadNames
  BY FileSystemAssumption DEF FileSystemAssumption
<1>2. Store!Idle /\ UNCHANGED <<WriteUnderWay, OpenHandles, StoredFiles>>
  BY FilesUnchanged, HandlesUnchanged, WriteUnchanged
     DEF diskVars, Idle, Store!Idle, WriteUnderWay, Store!NoWrite, NoCall
<1>3. Store!Create(NoName)
  BY <1>1, <1>2 DEF Store!Create, Store!Creatable, Store!Code, Returns
<1> QED
  BY <1>1, <1>3 DEF Store!Next

-----------------------------------------------------------------------------
(* Limits.                                                                 *)

LEMMA SameCount ==
    ASSUME NEW S, NEW T, IsFiniteSet(T), NEW F \in [S -> T],
           \A x, y \in S : F[x] = F[y] => x = y,
           \A z \in T : \E x \in S : F[x] = z
    PROVE  IsFiniteSet(S) /\ Cardinality(S) = Cardinality(T)
<1>1. F \in Injection(S, T) /\ F \in Surjection(S, T)
  BY DEF Injection, Surjection, IsInjective
<1> QED
  BY <1>1, FS_Injection

\* There are as many files as inodes in use, and as entries.
LEMMA FilesAreCounted ==
    ASSUME FsInv
    PROVE  /\ Cardinality(DOMAIN StoredFiles) = Cardinality(inode_bitmap)
           /\ Cardinality(DOMAIN StoredFiles) = Cardinality(InUse)
<1> DEFINE D == DOMAIN StoredFiles
           F == [name \in D |-> FindInode(name)]
           G == [e \in InUse |-> directory[e].name]
<1>1. FilesFound /\ EntriesFound /\ FilesAreNamedOnce
  BY FilesAreFound, EntriesAreFound DEF FsInv, DiskInv
<1>2. IsFiniteSet(inode_bitmap)
  BY SetsAreFinite, FS_Subset DEF FsInv, DiskInv, DiskTypeOK
<1>3. /\ F \in [D -> inode_bitmap]
      /\ \A x, y \in D : F[x] = F[y] => x = y
      /\ \A z \in inode_bitmap : \E x \in D : F[x] = z
  BY <1>1 DEF FilesFound
<1>4. IsFiniteSet(D) /\ Cardinality(D) = Cardinality(inode_bitmap)
  <2> HIDE DEF D, F
  <2> QED
    BY <1>2, <1>3, SameCount
<1>5. /\ G \in [InUse -> D]
      /\ \A x, y \in InUse : G[x] = G[y] => x = y
      /\ \A z \in D : \E x \in InUse : G[x] = z
  BY <1>1 DEF FilesFound, FilesAreNamedOnce
<1>6. Cardinality(InUse) = Cardinality(D)
  <2> HIDE DEF D, G
  <2> QED
    BY <1>4, <1>5, SameCount
<1> QED
  BY <1>4, <1>6

LEMMA SmallerCount ==
    ASSUME NEW T, IsFiniteSet(T), NEW S \in SUBSET T, NEW x \in T, x \notin S
    PROVE  Cardinality(S) < Cardinality(T)
<1>1. Cardinality(S) <= Cardinality(T) /\ Cardinality(S) # Cardinality(T)
  BY FS_Subset
<1>2. Cardinality(S) \in Nat /\ Cardinality(T) \in Nat
  BY FS_Subset, FS_CardinalityType
<1> QED
  BY <1>1, <1>2

LEMMA StoreCounts ==
    ASSUME NEW S
    PROVE  Store!Cardinality(S) = Cardinality(S)
BY DEF Store!Cardinality, Cardinality

LEMMA CreatableRefines ==
    ASSUME FsInv, NEW name \in Names, Creatable(name)
    PROVE  Store!Creatable(name)
<1>1. name \in Names \ BadNames
  BY DEF Creatable
<1>2. name \notin DOMAIN StoredFiles
  BY FilesAreFound DEF Creatable, FilesFound
<1>3. Cardinality(DOMAIN StoredFiles) < MaxInodes - 1
  <2>1. PICK ino \in Inodes : ino \notin inode_bitmap
    BY DEF Creatable, FreeInodes
  <2>2. Cardinality(inode_bitmap) < Cardinality(Inodes)
    BY <2>1, SetsAreFinite, SmallerCount DEF FsInv, DiskInv, DiskTypeOK
  <2> QED
    BY <2>2, SetsAreFinite, FilesAreCounted
<1>4. Cardinality(DOMAIN StoredFiles) < MaxDirEntries
  <2>1. PICK e \in DirEntries : e \notin InUse
    BY DEF Creatable, FreeEntries, InUse
  <2>2. IsFiniteSet(DirEntries) /\ Cardinality(DirEntries) = MaxDirEntries
    BY FileSystemAssumption, FS_Interval DEF FileSystemAssumption, DirEntries
  <2>3. InUse \in SUBSET DirEntries
    BY DEF InUse
  <2>4. Cardinality(InUse) < Cardinality(DirEntries)
    BY <2>1, <2>2, <2>3, SmallerCount
  <2> QED
    BY <2>2, <2>4, FilesAreCounted
<1> QED
  BY <1>1, <1>2, <1>3, <1>4, StoreCounts DEF Store!Creatable, Least

-----------------------------------------------------------------------------
(* Creating and opening.                                                   *)

LEMMA MakeFileAdds ==
    ASSUME FsInv, FsInv', NEW name \in Names, Creatable(name), MakeFile(name)
    PROVE  /\ StoredFiles' = Store!Extend(StoredFiles, name, <<>>)
           /\ name \notin DOMAIN StoredFiles
           /\ \A ino \in inode_bitmap : NameOf(ino)' = NameOf(ino)
           /\ \A ino : ino = First(FreeInodes) => NameOf(ino)' = name
<1>1. PICK e \in DirEntries : e = First(FreeEntries) /\ directory[e].inode = 0
  BY Sets, FirstIsLeast DEF FreeEntries, Creatable
<1>2. PICK new \in Inodes : new = First(FreeInodes)
  BY Sets, FirstIsLeast DEF FreeInodes, Creatable
<1>3. /\ inode_bitmap' = inode_bitmap \cup {new}
      /\ directory' = [directory EXCEPT ![e] = [name |-> name, inode |-> new]]
      /\ UNCHANGED data
  BY <1>1, <1>2 DEF MakeFile
<1>4. /\ \A ino \in inode_bitmap : inodes'[ino] = inodes[ino]
      /\ inodes'[new].size = 0 /\ new \in inode_bitmap'
  BY <1>2, MakeFileKeeps DEF FsInv
<1>5. /\ InUse' = InUse \cup {e} /\ e \notin InUse
      /\ directory'[e] = [name |-> name, inode |-> new]
      /\ \A f \in InUse : directory'[f] = directory[f]
  BY <1>1, <1>3, Sets DEF InUse, FsInv, DiskInv, DiskTypeOK
<1>6. EntriesFound /\ EntriesFound' /\ FilesFound /\ FilesFound'
  BY EntriesAreFound, EntriesStayFound, FilesAreFound, FilesStayFound
<1>7. /\ \A f \in InUse : /\ FindInode(directory[f].name)' = directory[f].inode
                          /\ NameOf(directory[f].inode)' = directory[f].name
      /\ FindInode(name)' = new /\ NameOf(new)' = name
  BY <1>5, <1>6 DEF EntriesFound
<1>8. \A ino \in inode_bitmap : NameOf(ino)' = NameOf(ino)
  BY <1>5, <1>6, <1>7 DEF EntriesFound
<1>9. name \notin DOMAIN StoredFiles
  BY FilesAreFound DEF Creatable, FilesFound
<1>10. \A ino \in inode_bitmap : Contents(ino)' = Contents(ino)
  BY <1>3, <1>4 DEF Contents, ByteAt
<1>11. Contents(new)' = <<>>
  BY <1>4 DEF Contents
<1>12. StoredFiles' = Store!Extend(StoredFiles, name, <<>>)
  <2>1. DOMAIN StoredFiles' = DOMAIN StoredFiles \cup {name}
    BY <1>5, <1>6 DEF FilesFound
  <2>2. StoredFiles'[name] = <<>>
    BY <1>6, <1>7, <1>11, <2>1 DEF FilesFound
  <2>3. ASSUME NEW n \in DOMAIN StoredFiles PROVE StoredFiles'[n] = StoredFiles[n]
    <3>1. PICK f \in InUse : directory[f].name = n
      BY <1>6 DEF FilesFound
    <3> QED
      BY <1>5, <1>6, <1>7, <1>10, <2>1, <3>1 DEF FilesFound, EntriesFound
  <2> QED
    BY <2>1, <2>2, <2>3 DEF StoredFiles, Store!Extend
<1> QED
  BY <1>2, <1>7, <1>8, <1>9, <1>12

LEMMA CreateRefines ==
    ASSUME FsInv, FsInv', NEW name \in Names, FsCreateFile(name)
    PROVE  Store!Next
<1>1. /\ Idle /\ Creatable(name) /\ MakeFile(name) /\ Returns(0)
      /\ UNCHANGED <<open_files, call>>
  BY DEF FsCreateFile
<1>2. StoredFiles' = Store!Extend(StoredFiles, name, <<>>)
  BY <1>1, MakeFileAdds
<1>3. UNCHANGED OpenHandles
  <2>1. ASSUME NEW ino \in inode_bitmap PROVE NameOf(ino)' = NameOf(ino)
    BY <1>1, MakeFileAdds
  <2>2. \A fd \in Descriptors : open_files[fd].valid => open_files[fd].inode \in inode_bitmap
    BY DEF FsInv, DescriptorsAreAlive
  <2> QED
    BY <1>1, <2>1, <2>2 DEF OpenHandles
<1>4. Store!Create(name)
  BY <1>1, <1>2, <1>3, CreatableRefines, WriteUnchanged, IdleIs
     DEF Store!Create, Store!Code, Returns, FsInv
<1> QED
  BY <1>4 DEF Store!Next

\* The descriptor that a call of fs_open takes is a new handle.
LEMMA HandleIsAdded ==
    ASSUME FsInv, FreeDescriptors # {}, NEW ino, TakeDescriptor(ino), NEW name,
           NameOf(ino)' = name,
           \A jno \in inode_bitmap : NameOf(jno)' = NameOf(jno)
    PROVE  /\ DOMAIN OpenHandles # Descriptors
           /\ \E h \in Descriptors \ DOMAIN OpenHandles :
                 /\ reply' = Store!Code(h)
                 /\ OpenHandles' = Store!Extend(OpenHandles, h, [name |-> name, offset |-> 0])
<1>1. PICK h \in Descriptors : h = First(FreeDescriptors) /\ ~open_files[h].valid
  BY Sets, FirstIsLeast DEF FreeDescriptors
<1>2. /\ open_files' = [open_files EXCEPT ![h] = [inode |-> ino, offset |-> 0, valid |-> TRUE]]
      /\ Returns(h)
  BY <1>1 DEF TakeDescriptor
<1>3. OpenTypeOK /\ \A fd \in Descriptors : open_files[fd].valid =>
                       open_files[fd].inode \in inode_bitmap
  BY DEF FsInv, DescriptorsAreAlive
<1>4. DOMAIN OpenHandles = {fd \in Descriptors : open_files[fd].valid}
  BY DEF OpenHandles
<1>5. /\ open_files'[h] = [inode |-> ino, offset |-> 0, valid |-> TRUE]
      /\ \A fd \in Descriptors \ {h} : open_files'[fd] = open_files[fd]
  BY <1>2, <1>3 DEF OpenTypeOK
<1>6. OpenHandles' = Store!Extend(OpenHandles, h, [name |-> name, offset |-> 0])
  <2>1. DOMAIN OpenHandles' = DOMAIN OpenHandles \cup {h}
    BY <1>4, <1>5 DEF OpenHandles
  <2>2. OpenHandles'[h] = [name |-> name, offset |-> 0]
    BY <1>5, <2>1 DEF OpenHandles
  <2>3. ASSUME NEW fd \in DOMAIN OpenHandles PROVE OpenHandles'[fd] = OpenHandles[fd]
    <3>1. fd \in Descriptors \ {h} /\ open_files[fd].valid
      BY <1>1, <1>4
    <3>2. open_files'[fd] = open_files[fd] /\ open_files[fd].inode \in inode_bitmap
      BY <1>3, <1>5, <3>1
    <3>3. NameOf(open_files[fd].inode)' = NameOf(open_files[fd].inode)
      BY <3>2
    <3> QED
      BY <1>4, <2>1, <3>1, <3>2, <3>3 DEF OpenHandles
  <2> QED
    BY <2>1, <2>2, <2>3 DEF Store!Extend, OpenHandles
<1>7. h \in Descriptors \ DOMAIN OpenHandles
  BY <1>1, <1>4
<1> QED
  BY <1>2, <1>6, <1>7 DEF Store!Code, Returns

LEMMA OpenExistingRefines ==
    ASSUME FsInv, FsInv', NEW name \in Names, OpenExisting(name)
    PROVE  Store!Next
<1>1. /\ Idle /\ FindInode(name) # 0 /\ FreeDescriptors # {}
      /\ TakeDescriptor(FindInode(name)) /\ UNCHANGED <<diskVars, call>>
  BY DEF OpenExisting
<1>2. PICK ino : ino = FindInode(name)
  OBVIOUS
<1>3. name \in DOMAIN StoredFiles /\ NameOf(ino) = name
  BY <1>1, <1>2, FilesAreFound DEF FilesFound
<1>4. \A jno : NameOf(jno)' = NameOf(jno)
  BY <1>1 DEF NameOf, EntryOf, diskVars
<1>5. UNCHANGED StoredFiles
  BY <1>1, FilesUnchanged
<1>6. /\ DOMAIN OpenHandles # Descriptors
      /\ \E h \in Descriptors \ DOMAIN OpenHandles :
            /\ reply' = Store!Code(h)
            /\ OpenHandles' = Store!Extend(OpenHandles, h, [name |-> name, offset |-> 0])
  BY <1>1, <1>2, <1>3, <1>4, HandleIsAdded
<1>7. Store!Open(name, FALSE)
  BY <1>1, <1>3, <1>5, <1>6, WriteUnchanged, IdleIs DEF Store!Open, FsInv
<1> QED
  BY <1>7 DEF Store!Next

LEMMA OpenNewRefines ==
    ASSUME FsInv, FsInv', NEW name \in Names, OpenNew(name) \/ OpenNewFails(name)
    PROVE  Store!Next
<1>1. Idle /\ Creatable(name) /\ MakeFile(name) /\ UNCHANGED call
  BY DEF OpenNew, OpenNewFails
<1>2. /\ StoredFiles' = Store!Extend(StoredFiles, name, <<>>)
      /\ Store!Creatable(name) /\ Store!Idle /\ UNCHANGED WriteUnderWay
      /\ name \in DOMAIN StoredFiles'
  <2>1. StoredFiles' = Store!Extend(StoredFiles, name, <<>>)
    BY <1>1, MakeFileAdds
  <2>2. name \in DOMAIN StoredFiles'
    BY <2>1 DEF Store!Extend
  <2> QED
    BY <1>1, <2>1, <2>2, CreatableRefines, WriteUnchanged, IdleIs DEF FsInv
<1>3. ASSUME NEW ino \in inode_bitmap PROVE NameOf(ino)' = NameOf(ino)
  BY <1>1, MakeFileAdds
<1>4. CASE OpenNew(name)
  <2>1. PICK ino : ino = First(FreeInodes)
    OBVIOUS
  <2>2. FreeDescriptors # {} /\ TakeDescriptor(ino) /\ NameOf(ino)' = name
    BY <1>1, <1>4, <2>1, MakeFileAdds DEF OpenNew
  <2>3. /\ DOMAIN OpenHandles # Descriptors
        /\ \E h \in Descriptors \ DOMAIN OpenHandles :
              /\ reply' = Store!Code(h)
              /\ OpenHandles' = Store!Extend(OpenHandles, h, [name |-> name, offset |-> 0])
    BY <1>3, <2>2, HandleIsAdded
  <2>4. Store!Open(name, TRUE)
    BY <1>2, <2>3 DEF Store!Open
  <2> QED
    BY <2>4 DEF Store!Next
<1>5. CASE OpenNewFails(name)
  <2>1. FreeDescriptors = {} /\ Returns(-1) /\ UNCHANGED open_files
    BY <1>5 DEF OpenNewFails
  <2>2. DOMAIN OpenHandles = Descriptors
    BY <2>1 DEF OpenHandles, FreeDescriptors
  <2>3. UNCHANGED OpenHandles
    <3>1. \A fd \in Descriptors : open_files[fd].valid => open_files[fd].inode \in inode_bitmap
      BY DEF FsInv, DescriptorsAreAlive
    <3> QED
      BY <1>3, <2>1, <3>1 DEF OpenHandles
  <2>4. Store!Open(name, TRUE)
    BY <1>2, <2>1, <2>2, <2>3 DEF Store!Open, Store!Code, Returns
  <2> QED
    BY <2>4 DEF Store!Next
<1> QED
  BY <1>4, <1>5

LEMMA CloseRefines ==
    ASSUME FsInv, FsInv', NEW fd, FsClose(fd)
    PROVE  Store!Next
<1>1. /\ Idle /\ fd \in Descriptors /\ open_files[fd].valid
      /\ open_files' = [open_files EXCEPT ![fd].valid = FALSE]
      /\ Returns(0) /\ UNCHANGED <<diskVars, call>>
  BY DEF FsClose, IsOpen
<1>2. /\ ~open_files'[fd].valid
      /\ \A f \in Descriptors \ {fd} : open_files'[f] = open_files[f]
  BY <1>1 DEF FsInv, OpenTypeOK
<1>3. UNCHANGED StoredFiles /\ \A ino : NameOf(ino)' = NameOf(ino)
  BY <1>1, FilesUnchanged DEF NameOf, EntryOf, diskVars
<1>4. DOMAIN OpenHandles = {f \in Descriptors : open_files[f].valid}
  BY DEF OpenHandles
<1>5. OpenHandles' = [f \in (DOMAIN OpenHandles) \ {fd} |-> OpenHandles[f]]
  <2>1. DOMAIN OpenHandles' = (DOMAIN OpenHandles) \ {fd}
    BY <1>1, <1>2, <1>4 DEF OpenHandles
  <2>2. ASSUME NEW f \in (DOMAIN OpenHandles) \ {fd} PROVE OpenHandles'[f] = OpenHandles[f]
    <3>1. f \in Descriptors /\ open_files'[f] = open_files[f]
      BY <1>2, <1>4
    <3> QED
      BY <1>3, <1>4, <2>1, <3>1 DEF OpenHandles
  <2> QED
    BY <2>1, <2>2 DEF OpenHandles
<1>6. Store!Close(fd)
  BY <1>1, <1>3, <1>4, <1>5, WriteUnchanged, IdleIs
     DEF Store!Close, Store!Restrict, Store!Code, Returns, FsInv
<1> QED
  BY <1>1, <1>6 DEF Store!Next

-----------------------------------------------------------------------------
(* Reading and removing.                                                   *)

\* Without holes, a read ends at the end of the file or where it was asked to.
LEMMA ReadEndIsLimit ==
    ASSUME FitInv, NEW ino \in inode_bitmap, NEW offset \in Nat, NEW count \in Nat
    PROVE  ReadEnd(ino, offset, count) = ReadLimit(ino, offset, count)
<1> DEFINE Z == {i \in Pointers : i >= offset \div BlockSize /\ inodes[ino].blocks[i] = 0}
           limit == ReadLimit(ino, offset, count)
           S == {limit, DirectBlocks * BlockSize} \cup {i * BlockSize : i \in Z}
<1>1. inodes[ino].size \in Nat /\ limit \in Nat /\ limit <= inodes[ino].size
  BY DEF FitInv, FsInv, DiskInv, DiskTypeOK, ReadLimit, Least
<1>2. limit <= DirectBlocks * BlockSize /\ DirectBlocks * BlockSize \in Nat
  BY <1>1, MaxFileSizeIs DEF FitInv, SizesFit, MaxFileSize
<1>3. ASSUME NEW i \in Z PROVE i * BlockSize \in Nat /\ limit <= i * BlockSize
  <2>1. i * BlockSize \in Nat /\ ~(i * BlockSize < inodes[ino].size)
    BY Sets, MulOrder DEF FitInv, FsInv, DiskInv, SizesCoverBlocks
  <2> HIDE DEF limit
  <2> QED
    BY <1>1, <2>1
<1>4. ReadEnd(ino, offset, count) = First(S)
  BY DEF ReadEnd
<1> HIDE DEF limit, Z
<1>5. S \subseteq Nat /\ limit \in S /\ \A m \in S : limit <= m
  BY <1>1, <1>2, <1>3
<1> HIDE DEF S
<1>6. First(S) \in S /\ First(S) <= limit
  BY <1>5, FirstIsLeast
<1>7. First(S) = limit
  <2>1. First(S) \in Nat /\ limit <= First(S)
    BY <1>5, <1>6
  <2> QED
    BY <1>1, <1>6, <2>1
<1> QED
  BY <1>4, <1>7 DEF limit

LEMMA ContentsAre ==
    ASSUME FitInv, NEW ino \in inode_bitmap
    PROVE  /\ Contents(ino) \in Seq(Characters)
           /\ Len(Contents(ino)) = inodes[ino].size
           /\ inodes[ino].size \in Nat
           /\ \A n \in 1..inodes[ino].size : Contents(ino)[n] = ByteAt(ino, n - 1)
<1>1. inodes[ino].size \in Nat /\ ino \in Inodes /\ DiskTypeOK
  BY DEF FitInv, FsInv, DiskInv, DiskTypeOK
<1>2. ReadEnd(ino, 0, inodes[ino].size) = inodes[ino].size
  BY <1>1, ReadEndIsLimit DEF ReadLimit, Least
<1>3. ASSUME NEW n \in 1..inodes[ino].size PROVE ByteAt(ino, n - 1) \in Characters
  BY <1>1, <1>2, BytesAreThere
<1> QED
  BY <1>1, <1>3 DEF Contents

LEMMA ReadRefines ==
    ASSUME FitInv, FsInv', NEW fd, NEW count \in Counts, FsRead(fd, count)
    PROVE  Store!Next
<1> DEFINE ino == open_files[fd].inode
           offset == open_files[fd].offset
           end == Least(inodes[ino].size, offset + count)
           s == Contents(ino)
<1> USE DEF FitInv
<1>1. /\ Idle /\ fd \in Descriptors /\ open_files[fd].valid
      /\ UNCHANGED <<diskVars, call>>
  BY DEF FsRead, IsOpen
<1>2. /\ ino \in inode_bitmap /\ offset \in Nat /\ offset <= inodes[ino].size
      /\ inodes[ino].size \in Nat /\ count \in Nat
  BY <1>1, FileSystemAssumption DEF FsInv, OpenTypeOK, DescriptorsAreAlive, DiskInv,
                                    DiskTypeOK, FileSystemAssumption
<1>3. end \in Nat /\ offset <= end /\ end <= inodes[ino].size
  <2> HIDE DEF ino, offset
  <2> QED
    BY <1>2 DEF Least
<1>4. Most(offset, ReadEnd(ino, offset, count)) = end
  <2>1. ReadEnd(ino, offset, count) = end
    BY <1>2, ReadEndIsLimit DEF ReadLimit
  <2> QED
    BY <1>2, <1>3, <2>1 DEF Most
<1>5. /\ reply' = [code |-> end - offset,
                   bytes |-> [n \in 1..(end - offset) |-> ByteAt(ino, offset + n - 1)]]
      /\ open_files' = [open_files EXCEPT ![fd].offset = end]
  BY <1>4 DEF FsRead
<1>6. /\ s \in Seq(Characters) /\ Len(s) = inodes[ino].size
      /\ \A n \in 1..inodes[ino].size : s[n] = ByteAt(ino, n - 1)
  BY <1>2, ContentsAre
<1>7. /\ fd \in DOMAIN OpenHandles
      /\ OpenHandles[fd] = [name |-> NameOf(ino), offset |-> offset]
      /\ StoredFiles[NameOf(ino)] = s
  BY <1>1, <1>2, FilesAreFound DEF OpenHandles, FilesFound
<1> HIDE DEF ino, offset, end, s
<1>8. reply' = Store!Bytes(SubSeq(s, offset + 1, end))
  <2>1. SubSeq(s, offset + 1, end) =
           [n \in 1..(end - offset) |-> ByteAt(ino, offset + n - 1)]
    <3>1. \A n \in 1..(end - offset) : s[offset + n] = ByteAt(ino, offset + n - 1)
      BY <1>2, <1>3, <1>6
    <3>2. /\ Len(SubSeq(s, offset + 1, end)) = end - offset
          /\ SubSeq(s, offset + 1, end) \in Seq(Characters)
          /\ \A n \in 1..(end - offset) : SubSeq(s, offset + 1, end)[n] = s[offset + n]
      BY <1>2, <1>3, <1>6
    <3> QED
      BY <3>1, <3>2
  <2>2. Len(SubSeq(s, offset + 1, end)) = end - offset
    BY <1>2, <1>3, <1>6
  <2> QED
    BY <1>5, <2>1, <2>2 DEF Store!Bytes
<1>9. OpenHandles' = [OpenHandles EXCEPT ![fd].offset = end]
  <2>1. /\ open_files'[fd].valid = open_files[fd].valid
        /\ open_files'[fd].inode = open_files[fd].inode /\ open_files'[fd].offset = end
        /\ \A f \in Descriptors \ {fd} : open_files'[f] = open_files[f]
    BY <1>1, <1>5 DEF FsInv, OpenTypeOK
  <2>2. \A jno : NameOf(jno)' = NameOf(jno)
    BY <1>1 DEF NameOf, EntryOf, diskVars
  <2>3. DOMAIN OpenHandles' = DOMAIN OpenHandles
    BY <1>1, <2>1 DEF OpenHandles
  <2>4. OpenHandles'[fd] = [name |-> NameOf(ino), offset |-> end]
    BY <1>1, <2>1, <2>2 DEF OpenHandles, ino
  <2>5. ASSUME NEW f \in (DOMAIN OpenHandles) \ {fd} PROVE OpenHandles'[f] = OpenHandles[f]
    <3>1. f \in Descriptors /\ open_files'[f] = open_files[f]
      BY <2>1 DEF OpenHandles
    <3> QED
      BY <2>2, <2>3, <3>1 DEF OpenHandles
  <2> QED
    BY <1>7, <2>3, <2>4, <2>5 DEF OpenHandles
<1>10. UNCHANGED StoredFiles /\ Store!Idle /\ UNCHANGED WriteUnderWay
  BY <1>1, FilesUnchanged, WriteUnchanged, IdleIs DEF FsInv
<1>11. end = Store!Lesser(Len(s), offset + count)
  BY <1>6 DEF end, Least, Store!Lesser
<1>12. Store!Read(fd, count)
  <2>1. OpenHandles[fd].name = NameOf(ino) /\ OpenHandles[fd].offset = offset
    BY <1>7
  <2>2. reply' = Store!Bytes(SubSeq(StoredFiles[OpenHandles[fd].name],
                                    OpenHandles[fd].offset + 1, end))
        /\ end = Store!Lesser(Len(StoredFiles[OpenHandles[fd].name]),
                              OpenHandles[fd].offset + count)
    BY <1>7, <1>8, <1>11, <2>1
  <2> QED
    BY <1>7, <1>9, <1>10, <2>2 DEF Store!Read
<1> QED
  BY <1>1, <1>12 DEF Store!Next

LEMMA UnlinkRefines ==
    ASSUME FsInv, FsInv', NEW name \in Names, FsUnlink(name)
    PROVE  Store!Next
<1>1. PICK ino : ino = FindInode(name)
  OBVIOUS
<1>2. PICK e : e = EntryOf(ino)
  OBVIOUS
<1>3. /\ Idle /\ ino # 0 /\ NotOpen(ino)
      /\ inode_bitmap' = inode_bitmap \ {ino}
      /\ directory' = [directory EXCEPT ![e] = [name |-> NoName, inode |-> 0]]
      /\ UNCHANGED <<inodes, data, open_files, call>> /\ Returns(0)
  BY <1>1, <1>2 DEF FsUnlink
<1>4. EntriesFound /\ EntriesFound' /\ FilesFound /\ FilesFound'
  BY EntriesAreFound, EntriesStayFound, FilesAreFound, FilesStayFound
<1>5. name \in DOMAIN StoredFiles /\ ino \in inode_bitmap /\ NameOf(ino) = name
  BY <1>1, <1>3, <1>4 DEF FilesFound
<1>6. e \in InUse /\ directory[e].inode = ino /\ directory[e].name = name
  <2> DEFINE S == {f \in DirEntries : directory[f].inode = ino}
  <2>1. S # {} /\ S \subseteq InUse
    BY <1>3, <1>4, <1>5 DEF EntriesFound, InUse
  <2>2. e \in S
    BY <1>2, <2>1, Sets, FirstIsLeast DEF EntryOf
  <2> QED
    BY <1>4, <1>5, <2>1, <2>2 DEF EntriesFound
<1>7. InUse' = InUse \ {e} /\ \A f \in InUse \ {e} : directory'[f] = directory[f]
  BY <1>3, <1>6 DEF InUse, FsInv, DiskInv, DiskTypeOK
<1>8. \A f \in InUse \ {e} : /\ FindInode(directory[f].name)' = directory[f].inode
                             /\ NameOf(directory[f].inode)' = directory[f].name
                             /\ directory[f].name # name /\ directory[f].inode # ino
  BY <1>4, <1>6, <1>7 DEF EntriesFound, FsInv, DiskInv, FilesAreNamedOnce
<1>9. \A jno \in inode_bitmap \ {ino} : NameOf(jno)' = NameOf(jno)
  BY <1>4, <1>6, <1>7, <1>8 DEF EntriesFound
<1>10. \A jno : Contents(jno)' = Contents(jno)
  BY <1>3 DEF Contents, ByteAt
<1>11. StoredFiles' = [n \in (DOMAIN StoredFiles) \ {name} |-> StoredFiles[n]]
  <2>1. DOMAIN StoredFiles' = (DOMAIN StoredFiles) \ {name}
    BY <1>4, <1>6, <1>7, <1>8 DEF FilesFound
  <2>2. ASSUME NEW n \in (DOMAIN StoredFiles) \ {name}
        PROVE  StoredFiles'[n] = StoredFiles[n]
    <3>1. PICK f \in InUse : directory[f].name = n
      BY <1>4 DEF FilesFound
    <3>2. f \in InUse \ {e} /\ directory'[f] = directory[f]
      BY <1>6, <1>7, <3>1
    <3> QED
      BY <1>4, <1>7, <1>8, <1>10, <2>1, <3>1, <3>2 DEF FilesFound, EntriesFound
  <2> QED
    BY <2>1, <2>2 DEF StoredFiles
<1>12. UNCHANGED OpenHandles
  <2>1. \A fd \in Descriptors : open_files[fd].valid =>
           open_files[fd].inode \in inode_bitmap \ {ino}
    BY <1>3 DEF FsInv, DescriptorsAreAlive, NotOpen
  <2> QED
    BY <1>3, <1>9, <2>1 DEF OpenHandles
<1>13. Store!Remove(name)
  BY <1>3, <1>5, <1>11, <1>12, WriteUnchanged, IdleIs
     DEF Store!Remove, Store!Restrict, Store!Code, Returns, FsInv
<1> QED
  BY <1>13 DEF Store!Next

-----------------------------------------------------------------------------
(* Writing.                                                                *)

LEMMA WriteRefines ==
    ASSUME FsInv, NEW fd, NEW text \in Texts, FsWrite(fd, text)
    PROVE  Store!Next
<1>1. /\ Idle /\ fd \in Descriptors /\ open_files[fd].valid
      /\ call' = [fd |-> fd, rest |-> text, written |-> 0]
      /\ UNCHANGED <<diskVars, open_files, reply>>
  BY DEF FsWrite, IsOpen
<1>2. fd \in DOMAIN OpenHandles
  BY <1>1 DEF OpenHandles
<1>3. WriteUnderWay' = [handle |-> fd, rest |-> text, written |-> 0]
  BY <1>1 DEF WriteUnderWay
<1>4. Store!Write(fd, text)
  BY <1>1, <1>2, <1>3, FilesUnchanged, HandlesUnchanged, IdleIs
     DEF Store!Write, FsInv, diskVars
<1> QED
  BY <1>1, <1>4 DEF Store!Next

\* A file has the units its pointers point to: together, the blocks in use.
UnitsMatch ==
    /\ Store!UsedUnits(StoredFiles) = Cardinality(block_bitmap)
    /\ IsFiniteSet(Store!UnitsOf(StoredFiles))

LEMMA UnitsAreBlocks == FitInv => UnitsMatch
<1> SUFFICES ASSUME FitInv PROVE UnitsMatch
  OBVIOUS
<1> USE DEF FitInv
<1> DEFINE U == Store!UnitsOf(StoredFiles)
           F == [u \in U |-> inodes[FindInode(u[1])].blocks[u[2]]]
<1>1. /\ FilesFound /\ OwnersInv /\ SizesCoverBlocks /\ block_bitmap \subseteq Blocks
      /\ inode_bitmap \subseteq Inodes
  BY FilesAreFound DEF FsInv, DiskInv, DiskTypeOK
<1>2. IsFiniteSet(block_bitmap)
  BY <1>1, SetsAreFinite, FS_Subset
<1>3. \A name \in DOMAIN StoredFiles :
         Len(StoredFiles[name]) = inodes[FindInode(name)].size
  BY <1>1, ContentsAre DEF FilesFound
<1>4. ASSUME NEW u \in U
      PROVE  /\ u[1] \in DOMAIN StoredFiles /\ u[2] \in Pointers /\ u = <<u[1], u[2]>>
             /\ FindInode(u[1]) \in inode_bitmap
             /\ inodes[FindInode(u[1])].blocks[u[2]] # 0
  <2>1. /\ u[1] \in DOMAIN StoredFiles /\ u[2] \in Nat /\ u = <<u[1], u[2]>>
        /\ u[2] * BlockSize < Len(StoredFiles[u[1]])
    BY DEF Store!UnitsOf
  <2>2. FindInode(u[1]) \in inode_bitmap
    BY <1>1, <2>1 DEF FilesFound
  <2>3. inodes[FindInode(u[1])].size \in Nat /\ inodes[FindInode(u[1])].size <= MaxFileSize
    BY <2>2, ContentsAre DEF SizesFit
  <2>4. u[2] * BlockSize < inodes[FindInode(u[1])].size
    BY <1>3, <2>1
  <2>5. u[2] * BlockSize < MaxFileSize
    <3>1. u[2] * BlockSize \in Nat
      BY <2>1, Sets, MulOrder
    <3> QED
      BY <2>3, <2>4, <3>1, MaxFileSizeIs
  <2>6. u[2] \in Pointers
    BY <2>1, <2>5, MaxFileSizeIs, Sets DEF Pointers
  <2> QED
    BY <1>1, <2>1, <2>2, <2>4, <2>6 DEF SizesCoverBlocks
<1>5. F \in [U -> block_bitmap]
  BY <1>1, <1>4 DEF OwnersInv, PointedToIsUsed
<1>6. ASSUME NEW u \in U, NEW v \in U, F[u] = F[v] PROVE u = v
  <2>1. FindInode(u[1]) = FindInode(v[1]) /\ u[2] = v[2]
    BY <1>1, <1>4, <1>6 DEF OwnersInv, NoTwoPointers
  <2>2. u[1] = v[1]
    BY <1>1, <1>4, <2>1 DEF FilesFound
  <2> QED
    BY <1>4, <2>1, <2>2
<1>7. ASSUME NEW b \in block_bitmap PROVE \E u \in U : F[u] = b
  <2>1. PICK ino \in inode_bitmap, i \in Pointers : inodes[ino].blocks[i] = b
    BY <1>1 DEF OwnersInv, UsedIsPointedTo
  <2>2. NameOf(ino) \in DOMAIN StoredFiles /\ FindInode(NameOf(ino)) = ino
    BY <1>1 DEF FilesFound
  <2>3. i * BlockSize < inodes[ino].size
    BY <1>1, <2>1, Sets DEF SizesCoverBlocks
  <2>4. i \in 0..(MaxFileSize - 1)
    BY MaxFileSizeIs, Sets DEF Pointers
  <2>5. <<NameOf(ino), i>> \in U
    BY <1>3, <2>2, <2>3, <2>4 DEF Store!UnitsOf
  <2> QED
    BY <2>1, <2>2, <2>5
<1> HIDE DEF U, F
<1>8. IsFiniteSet(U) /\ Cardinality(U) = Cardinality(block_bitmap)
  BY <1>2, <1>5, <1>6, <1>7, SameCount
<1> QED
  BY <1>8, StoreCounts DEF UnitsMatch, Store!UsedUnits, U

LEMMA UnitsStayBlocks == FitInv' => UnitsMatch'
BY UnitsAreBlocks, PTL

\* The bytes that a turn of the loop writes are those from the offset on.
LEMMA BytesOfPart ==
    ASSUME FsInv, MoreToWrite, NEW m \in Nat
    PROVE  /\ m \div BlockSize \in Nat /\ m % BlockSize \in 0..(BlockSize - 1)
           /\ m \in Target.offset..(Target.offset + Part - 1)
              <=> m \div BlockSize = Pointer /\ m % BlockSize \in Start..(Start + Part - 1)
           /\ m \div BlockSize = Pointer => m - Target.offset = (m % BlockSize) - Start
<1> DEFINE p == m \div BlockSize
           r == m % BlockSize
           x == p * BlockSize
           y == Pointer * BlockSize
<1>1. p \in Nat /\ r \in 0..(BlockSize - 1) /\ m = x + r /\ x \in Nat
  BY Sets, DivMod
<1>2. /\ Pointer \in Nat /\ y \in Nat /\ Start \in 0..(BlockSize - 1)
      /\ Part \in Nat /\ Start + Part <= BlockSize
      /\ Target.offset = y + Start /\ Target.offset \in Nat
  BY WhereToWrite, Sets
<1>3. /\ p = Pointer => x = y
      /\ p < Pointer => x + BlockSize <= y
      /\ Pointer < p => y + BlockSize <= x
  <2>1. /\ (p + 1) * BlockSize = x + BlockSize
        /\ (Pointer + 1) * BlockSize = y + BlockSize
    BY <1>1, <1>2, Sets, MulOrder
  <2>2. p < Pointer => (p + 1) * BlockSize <= y
    BY <1>1, <1>2, Sets, MulOrder
  <2>3. Pointer < p => (Pointer + 1) * BlockSize <= x
    BY <1>1, <1>2, Sets, MulOrder
  <2> QED
    BY <2>1, <2>2, <2>3
<1>4. BlockSize \in Nat
  BY Sets
<1> HIDE DEF p, r, x, y
<1> QED
  BY <1>1, <1>2, <1>3, <1>4 DEF p, r

LEMMA BlockOfByte ==
    ASSUME FitInv, NEW jno \in inode_bitmap, NEW m \in Nat, m < inodes[jno].size
    PROVE  /\ m \div BlockSize \in Pointers
           /\ inodes[jno].blocks[m \div BlockSize] \in block_bitmap
           /\ inodes[jno].blocks[m \div BlockSize] # 0
<1> DEFINE i == m \div BlockSize
           x == i * BlockSize
<1>1. i \in Nat /\ x \in Nat /\ x <= m
  BY Sets, DivMod
<1>2. inodes[jno].size \in Nat /\ inodes[jno].size <= MaxFileSize /\ MaxFileSize \in Nat
  BY ContentsAre, MaxFileSizeIs DEF FitInv, SizesFit
<1>3. x < inodes[jno].size /\ x < MaxFileSize
  <2> HIDE DEF i, x
  <2> QED
    BY <1>1, <1>2
<1> HIDE DEF i
<1>4. i \in Pointers
  BY <1>1, <1>3, MaxFileSizeIs, Sets DEF Pointers
<1>5. inodes[jno].blocks[i] # 0 /\ inodes[jno].blocks[i] \in block_bitmap
  BY <1>3, <1>4 DEF FitInv, FsInv, DiskInv, SizesCoverBlocks, OwnersInv, PointedToIsUsed
<1> QED
  BY <1>4, <1>5 DEF i

\* What each byte of each file is after a turn: nothing outside the part
\* written changes, in this file or another one.
LEMMA BytesAfterPut ==
    ASSUME FitInv, MoreToWrite, NEW b \in Blocks, Put(b),
           PointsTo = b \/ (PointsTo = 0 /\ b \notin block_bitmap),
           NEW jno \in inode_bitmap, NEW m \in Nat, m < inodes'[jno].size
    PROVE  /\ ByteAt(jno, m)' =
                 IF jno = Target.inode /\ m \in Target.offset..(Target.offset + Part - 1)
                 THEN call.rest[m - Target.offset + 1] ELSE ByteAt(jno, m)
           /\ ~(jno = Target.inode /\ m \in Target.offset..(Target.offset + Part - 1))
              => m < inodes[jno].size
<1> USE DEF FitInv
<1> DEFINE ino == Target.inode
           off == Target.offset
           i == m \div BlockSize
           r == m % BlockSize
           within == m \in off..(off + Part - 1)
<1>1. /\ ino \in inode_bitmap /\ ino \in Inodes /\ Pointer \in Pointers
      /\ off \in Nat /\ Part \in Nat /\ Part >= 1 /\ off <= inodes[ino].size
      /\ Start \in 0..(BlockSize - 1)
  BY WhereToWrite
<1>2. /\ jno \in Inodes /\ inodes[jno].size \in Nat /\ inode_bitmap \subseteq Inodes
      /\ block_bitmap \subseteq Blocks
  BY DEF FsInv, DiskInv, DiskTypeOK
<1>3. /\ i \in Nat /\ r \in 0..(BlockSize - 1)
      /\ within <=> i = Pointer /\ r \in Start..(Start + Part - 1)
      /\ i = Pointer => m - off = r - Start
  BY BytesOfPart
<1>4. /\ data' = [data EXCEPT ![b] =
                    [k \in 0..(BlockSize - 1) |->
                        IF k \in Start..(Start + Part - 1)
                        THEN call.rest[k - Start + 1] ELSE data[b][k]]]
      /\ inodes'[jno].size = IF jno = ino THEN Most(inodes[jno].size, off + Part)
                             ELSE inodes[jno].size
      /\ \A k \in Pointers :
            inodes'[jno].blocks[k] =
               IF jno = ino /\ k = Pointer THEN b ELSE inodes[jno].blocks[k]
  BY <1>2, PutDoes
<1>5. data \in [Blocks -> [0..(BlockSize - 1) -> Characters]]
  BY DEF FsInv, DiskInv, DiskTypeOK
<1>6. /\ ByteAt(jno, m)' = data'[inodes'[jno].blocks[i]][r]
      /\ ByteAt(jno, m) = data[inodes[jno].blocks[i]][r]
  BY DEF ByteAt
<1>7. PointsTo = inodes[ino].blocks[Pointer]
  BY DEF PointsTo
<1> HIDE DEF ino, off, i, r, within
<1>8. ~(jno = ino /\ within) => m < inodes[jno].size
  BY <1>1, <1>2, <1>4 DEF Most, within
<1>9. m < inodes[jno].size => /\ i \in Pointers
                              /\ inodes[jno].blocks[i] \in block_bitmap
                              /\ inodes[jno].blocks[i] # 0
  BY BlockOfByte DEF i
<1>10. CASE jno = ino /\ i = Pointer
  <2>1. ByteAt(jno, m)' = data'[b][r]
    BY <1>1, <1>4, <1>6, <1>10
  <2>2. data'[b][r] = IF r \in Start..(Start + Part - 1)
                      THEN call.rest[r - Start + 1] ELSE data[b][r]
    <3> DEFINE block == [k \in 0..(BlockSize - 1) |->
                           IF k \in Start..(Start + Part - 1)
                           THEN call.rest[k - Start + 1] ELSE data[b][k]]
    <3>1. data'[b] = block
      BY <1>4, <1>5
    <3> QED
      BY <1>3, <3>1
  <2>3. ~within => ByteAt(jno, m) = data[b][r]
    <3>1. ~within => PointsTo # 0
      BY <1>7, <1>8, <1>9, <1>10
    <3> QED
      BY <1>6, <1>7, <1>10, <3>1
  <2>4. within => call.rest[m - off + 1] = call.rest[r - Start + 1]
    BY <1>3, <1>10
  <2> QED
    BY <1>3, <1>8, <1>10, <2>1, <2>2, <2>3, <2>4 DEF ino, off, within
<1>11. CASE ~(jno = ino /\ i = Pointer)
  <2>1. ~(jno = ino /\ within) /\ m < inodes[jno].size
    BY <1>3, <1>8, <1>11
  <2>2. i \in Pointers /\ inodes'[jno].blocks[i] = inodes[jno].blocks[i]
    BY <1>4, <1>9, <1>11, <2>1
  <2>3. inodes[jno].blocks[i] # b
    BY <1>1, <1>7, <1>9, <1>11, <2>1 DEF FsInv, DiskInv, OwnersInv, NoTwoPointers
  <2>4. data'[inodes[jno].blocks[i]] = data[inodes[jno].blocks[i]]
    BY <1>2, <1>4, <1>5, <1>9, <2>1, <2>3
  <2> QED
    BY <1>6, <2>1, <2>2, <2>4 DEF ino, off, within
<1> QED
  BY <1>10, <1>11

LEMMA PutOverwrites ==
    ASSUME FitInv, FitInv', MoreToWrite, NEW b \in Blocks, Put(b),
           PointsTo = b \/ (PointsTo = 0 /\ b \notin block_bitmap)
    PROVE  StoredFiles' = Store!After(Part)
<1> USE DEF FitInv
<1>1. PICK ino : ino = Target.inode
  OBVIOUS
<1>2. PICK off : off = Target.offset
  OBVIOUS
<1>3. PICK part : part = Part
  OBVIOUS
<1>4. PICK text : text = SubSeq(call.rest, 1, part)
  OBVIOUS
<1>5. /\ ino \in inode_bitmap /\ ino \in Inodes /\ off \in Nat /\ part \in Nat
      /\ part >= 1 /\ part <= Len(call.rest) /\ call.rest \in Seq(Characters)
      /\ off <= inodes[ino].size /\ inodes[ino].size \in Nat
      /\ call.fd \in Descriptors /\ open_files[call.fd].valid
  BY <1>1, <1>2, <1>3, WhereToWrite DEF FsInv, CallTypeOK, Target
<1>6. /\ text \in Seq(Characters) /\ Len(text) = part
      /\ \A k \in 1..part : text[k] = call.rest[k]
  BY <1>4, <1>5
<1>7. /\ inodes'[ino].size = Most(inodes[ino].size, off + part)
      /\ \A jno \in inode_bitmap \ {ino} : inodes'[jno].size = inodes[jno].size
      /\ UNCHANGED <<inode_bitmap, directory>>
  BY <1>1, <1>2, <1>3, <1>5, PutDoes DEF FsInv, DiskInv, DiskTypeOK
<1>8. FilesFound /\ FilesFound'
  BY FilesAreFound, FilesStayFound
<1>9. /\ \A n : FindInode(n)' = FindInode(n)
      /\ DOMAIN StoredFiles' = DOMAIN StoredFiles
  <2>1. \A n : FindInode(n)' = FindInode(n)
    BY <1>7 DEF FindInode, Named
  <2> QED
    BY <1>7, <2>1 DEF StoredFiles, InUse
<1>10. ASSUME NEW jno \in inode_bitmap \ {ino} PROVE Contents(jno)' = Contents(jno)
  <2>1. ASSUME NEW n \in 1..inodes[jno].size PROVE ByteAt(jno, n - 1)' = ByteAt(jno, n - 1)
    <3>1. n - 1 \in Nat /\ n - 1 < inodes'[jno].size
      BY <1>7, ContentsAre
    <3> QED
      BY <1>1, <3>1, BytesAfterPut
  <2> QED
    BY <1>7, <2>1 DEF Contents
<1>11. Contents(ino)' = Store!Overwritten(Contents(ino), off, text)
  <2> DEFINE s == Contents(ino)
             top == Most(inodes[ino].size, off + part)
  <2>1. Len(s) = inodes[ino].size /\ \A n \in 1..inodes[ino].size : s[n] = ByteAt(ino, n - 1)
    BY <1>5, ContentsAre
  <2>2. Contents(ino)' = [n \in 1..top |-> ByteAt(ino, n - 1)']
    BY <1>7 DEF Contents
  <2>3. Store!Overwritten(s, off, text) =
           [n \in 1..top |-> IF n \in (off + 1)..(off + part) THEN text[n - off] ELSE s[n]]
    BY <1>6, <2>1 DEF Store!Overwritten, Store!Greater, Most
  <2>4. ASSUME NEW n \in 1..top
        PROVE  ByteAt(ino, n - 1)' =
                  IF n \in (off + 1)..(off + part) THEN text[n - off] ELSE s[n]
    <3>1. top \in Nat /\ n - 1 \in Nat /\ n - 1 < inodes'[ino].size
      BY <1>5, <1>7 DEF Most
    <3>2. /\ ByteAt(ino, n - 1)' = IF n - 1 \in off..(off + part - 1)
                                   THEN call.rest[(n - 1) - off + 1] ELSE ByteAt(ino, n - 1)
          /\ n - 1 \notin off..(off + part - 1) => n - 1 < inodes[ino].size
      BY <1>1, <1>2, <1>3, <1>5, <3>1, BytesAfterPut
    <3>3. n - 1 \in off..(off + part - 1) <=> n \in (off + 1)..(off + part)
      BY <1>5, <3>1
    <3>4. n \in (off + 1)..(off + part) =>
             (n - 1) - off + 1 = n - off /\ n - off \in 1..part
      BY <1>5, <3>1
    <3>5. n \notin (off + 1)..(off + part) => n \in 1..inodes[ino].size
      BY <1>5, <3>1, <3>2, <3>3
    <3> HIDE DEF s, top
    <3> QED
      BY <1>6, <2>1, <3>2, <3>3, <3>4, <3>5
  <2> HIDE DEF s, top
  <2>5. [n \in 1..top |-> ByteAt(ino, n - 1)'] =
        [n \in 1..top |-> IF n \in (off + 1)..(off + part) THEN text[n - off] ELSE s[n]]
    BY <2>4
  <2> QED
    BY <2>2, <2>3, <2>5 DEF s
<1>12. /\ OpenHandles[call.fd] = [name |-> NameOf(ino), offset |-> off]
       /\ WriteUnderWay.handle = call.fd /\ WriteUnderWay.rest = call.rest
  BY <1>1, <1>2, <1>5 DEF OpenHandles, WriteUnderWay, Target
<1>13. StoredFiles' = [StoredFiles EXCEPT ![NameOf(ino)] =
                          Store!Overwritten(StoredFiles[NameOf(ino)], off, text)]
  <2>1. PICK name : name = NameOf(ino)
    OBVIOUS
  <2>2. name \in DOMAIN StoredFiles /\ FindInode(name) = ino /\ StoredFiles[name] = Contents(ino)
    BY <1>5, <1>8, <2>1 DEF FilesFound
  <2>3. StoredFiles'[name] = Store!Overwritten(StoredFiles[name], off, text)
    BY <1>8, <1>9, <1>11, <2>2 DEF FilesFound
  <2>4. ASSUME NEW n \in (DOMAIN StoredFiles) \ {name} PROVE StoredFiles'[n] = StoredFiles[n]
    <3>1. PICK jno \in inode_bitmap : jno = FindInode(n) /\ NameOf(jno) = n
      BY <1>8 DEF FilesFound
    <3>2. jno # ino
      BY <2>1, <3>1
    <3>3. StoredFiles[n] = Contents(jno) /\ StoredFiles'[n] = Contents(jno)'
      BY <1>8, <1>9, <3>1 DEF FilesFound
    <3> QED
      BY <1>10, <3>2, <3>3
  <2> QED
    BY <1>9, <2>1, <2>3, <2>4 DEF StoredFiles
<1>14. /\ OpenHandles[WriteUnderWay.handle].name = NameOf(ino)
       /\ OpenHandles[WriteUnderWay.handle].offset = off
       /\ SubSeq(WriteUnderWay.rest, 1, Part) = text
  BY <1>3, <1>4, <1>12
<1> QED
  BY <1>13, <1>14 DEF Store!After

\* A turn of the loop writes a part of the rest, whichever block it goes into.
LEMMA PutRefines ==
    ASSUME FitInv, FitInv', MoreToWrite, NEW b \in Blocks, Put(b),
           PointsTo = b \/ (PointsTo = 0 /\ b \notin block_bitmap)
    PROVE  Store!Next
<1> USE DEF FitInv
<1>1. PICK part : part = Part
  OBVIOUS
<1>2. PICK fd : fd = call.fd
  OBVIOUS
<1>3. /\ part \in Nat /\ part >= 1 /\ part <= Len(call.rest) /\ Len(call.rest) \in Nat
      /\ fd \in Descriptors /\ open_files[fd].valid /\ Target = open_files[fd]
      /\ Target.offset \in Nat /\ Target.offset + part <= (Pointer + 1) * BlockSize
      /\ Pointer \in Pointers
      /\ call \in [fd : Descriptors \cup {-1}, rest : Seq(Characters), written : Nat]
      /\ call # NoCall
  BY <1>1, <1>2, WhereToWrite DEF FsInv, CallTypeOK, Target, MoreToWrite
<1>4. /\ open_files' = [open_files EXCEPT ![fd].offset = Target.offset + part]
      /\ call' = [call EXCEPT !.rest = SubSeq(call.rest, part + 1, Len(call.rest)),
                              !.written = call.written + part]
      /\ UNCHANGED <<directory, reply>>
  BY <1>1, <1>2, PutDoes
<1>5. StoredFiles' = Store!After(part)
  BY <1>1, PutOverwrites
<1>6. /\ fd \in DOMAIN OpenHandles /\ WriteUnderWay.handle = fd
      /\ OpenHandles[fd] = [name |-> NameOf(Target.inode), offset |-> Target.offset]
      /\ WriteUnderWay.rest = call.rest
  BY <1>2, <1>3 DEF OpenHandles, WriteUnderWay
<1>7. OpenHandles' = [OpenHandles EXCEPT ![fd].offset = Target.offset + part]
  <2>1. /\ open_files'[fd].valid = open_files[fd].valid
        /\ open_files'[fd].inode = open_files[fd].inode
        /\ open_files'[fd].offset = Target.offset + part
        /\ \A f \in Descriptors \ {fd} : open_files'[f] = open_files[f]
    BY <1>3, <1>4 DEF FsInv, OpenTypeOK
  <2>2. \A jno : NameOf(jno)' = NameOf(jno)
    BY <1>4 DEF NameOf, EntryOf
  <2>3. DOMAIN OpenHandles' = DOMAIN OpenHandles
    BY <1>3, <2>1 DEF OpenHandles
  <2>4. OpenHandles'[fd] = [name |-> NameOf(Target.inode), offset |-> Target.offset + part]
    BY <1>3, <2>1, <2>2 DEF OpenHandles
  <2>5. ASSUME NEW f \in (DOMAIN OpenHandles) \ {fd} PROVE OpenHandles'[f] = OpenHandles[f]
    <3>1. f \in Descriptors /\ open_files'[f] = open_files[f]
      BY <2>1 DEF OpenHandles
    <3> QED
      BY <2>2, <2>3, <3>1 DEF OpenHandles
  <2>6. [OpenHandles[fd] EXCEPT !.offset = Target.offset + part] =
           [name |-> NameOf(Target.inode), offset |-> Target.offset + part]
    BY <1>6
  <2> DEFINE new == [OpenHandles EXCEPT ![fd].offset = Target.offset + part]
  <2>7. /\ DOMAIN new = DOMAIN OpenHandles
        /\ new[fd] = [OpenHandles[fd] EXCEPT !.offset = Target.offset + part]
        /\ \A f \in (DOMAIN OpenHandles) \ {fd} : new[f] = OpenHandles[f]
    BY <1>6
  <2>8. new = [f \in DOMAIN OpenHandles |-> new[f]]
    BY <2>7
  <2>9. OpenHandles' = [f \in DOMAIN OpenHandles |-> OpenHandles'[f]]
    BY <2>3 DEF OpenHandles
  <2>10. \A f \in DOMAIN OpenHandles : OpenHandles'[f] = new[f]
    BY <2>4, <2>5, <2>6, <2>7
  <2> HIDE DEF new
  <2>11. OpenHandles' = new
    BY <2>8, <2>9, <2>10
  <2> QED
    BY <2>11 DEF new
<1>8. WriteUnderWay' = [WriteUnderWay EXCEPT
                          !.rest = SubSeq(@, part + 1, Len(@)), !.written = @ + part]
  <2>1. /\ call'.fd = call.fd /\ call'.written = call.written + part
        /\ call'.rest = SubSeq(call.rest, part + 1, Len(call.rest))
    BY <1>3, <1>4
  <2>2. WriteUnderWay' = [handle |-> call.fd,
                           rest |-> SubSeq(call.rest, part + 1, Len(call.rest)),
                           written |-> call.written + part]
    BY <2>1 DEF WriteUnderWay
  <2>3. WriteUnderWay = [handle |-> call.fd, rest |-> call.rest, written |-> call.written]
    BY DEF WriteUnderWay
  <2>4. PICK q : q = SubSeq(WriteUnderWay.rest, part + 1, Len(WriteUnderWay.rest))
    OBVIOUS
  <2>5. PICK n : n = WriteUnderWay.written + part
    OBVIOUS
  <2>6. WriteUnderWay' = [handle |-> call.fd, rest |-> q, written |-> n]
    BY <2>2, <2>3, <2>4, <2>5
  <2>7. [WriteUnderWay EXCEPT !.rest = q, !.written = n] =
           [handle |-> call.fd, rest |-> q, written |-> n]
    <3>1. PICK r : r = WriteUnderWay
      OBVIOUS
    <3>2. PICK h : h = call.fd
      OBVIOUS
    <3>3. [r EXCEPT !.rest = q, !.written = n] = [handle |-> h, rest |-> q, written |-> n]
      <4>1. PICK s, w : r = [handle |-> h, rest |-> s, written |-> w]
        BY <2>3, <3>1, <3>2
      <4>2. [r EXCEPT !.rest = q, !.written = n] \in [handle : {h}, rest : {q}, written : {n}]
        BY <4>1
      <4>3. ASSUME NEW e \in [handle : {h}, rest : {q}, written : {n}]
            PROVE  e = [handle |-> h, rest |-> q, written |-> n]
        OBVIOUS
      <4> QED
        BY <4>2, <4>3
    <3> QED
      BY <3>1, <3>2, <3>3
  <2> QED
    BY <2>4, <2>5, <2>6, <2>7
<1>9. Store!Fits(part)
  <2>1. Target.offset + part <= MaxFileSize
    BY <1>3, MaxFileSizeIs
  <2>2. Store!UsedUnits(StoredFiles)' = Cardinality(block_bitmap)'
    BY UnitsStayBlocks DEF UnitsMatch
  <2>3. Cardinality(block_bitmap') <= Cardinality(Blocks)
    BY SetsAreFinite, FS_Subset DEF FsInv, DiskInv, DiskTypeOK
  <2>4. Cardinality(Blocks) = TotalBlocks - DataStart
    BY FileSystemAssumption, FS_Interval DEF FileSystemAssumption, Blocks
  <2>5. Store!UsedUnits(Store!After(part)) = Cardinality(block_bitmap')
    BY <1>5, <2>2 DEF Store!UsedUnits, Store!UnitsOf
  <2> QED
    BY <1>6, <2>1, <2>3, <2>4, <2>5 DEF Store!Fits
<1>10. part \in 1..Len(WriteUnderWay.rest)
  BY <1>3, <1>6
<1>11. ~Store!Idle
  BY <1>3, IdleIs DEF FsInv, Idle
<1>12. Store!WritePart(part)
  BY <1>4, <1>5, <1>6, <1>7, <1>8, <1>9, <1>10, <1>11 DEF Store!WritePart
<1>13. PICK text \in Texts : part \in 1..Len(text)
  <2>1. \A text \in Texts : Len(text) \in Nat
    BY FileSystemAssumption DEF FileSystemAssumption
  <2> QED
    BY <1>3, <2>1 DEF RestFits
<1> QED
  BY <1>12, <1>13 DEF Store!Next

LEMMA WriteStepRefines ==
    ASSUME FitInv, FitInv', WriteInPlace \/ WriteNewBlock
    PROVE  Store!Next
<1>1. CASE WriteInPlace
  <2>1. MoreToWrite /\ PointsTo # 0 /\ Put(PointsTo)
    BY <1>1 DEF WriteInPlace
  <2>2. PointsTo \in Blocks
    BY <2>1, WhereToWrite DEF FitInv, FsInv, DiskInv, DiskTypeOK, PointsTo
  <2>3. PICK b \in Blocks : b = PointsTo
    BY <2>2
  <2>4. Put(b) /\ MoreToWrite /\ PointsTo = b
    BY <2>1, <2>3
  <2> QED
    BY <2>4, PutRefines
<1>2. CASE WriteNewBlock
  <2>1. MoreToWrite /\ PointsTo = 0 /\ FreeBlocks # {} /\ Put(First(FreeBlocks))
    BY <1>2 DEF WriteNewBlock
  <2>2. First(FreeBlocks) \in Blocks /\ First(FreeBlocks) \notin block_bitmap
    BY <2>1, Sets, FirstIsLeast DEF FreeBlocks
  <2> QED
    BY <2>1, <2>2, PutRefines
<1> QED
  BY <1>1, <1>2

\* One more byte needs one more unit where the file ends with a unit.
LEMMA NothingMoreFits ==
    ASSUME FitInv, MoreToWrite, PointsTo = 0, FreeBlocks = {}
    PROVE  ~Store!Fits(1)
<1> USE DEF FitInv
<1>1. PICK ino : ino = Target.inode
  OBVIOUS
<1>2. PICK name : name = NameOf(ino)
  OBVIOUS
<1>3. PICK fd : fd = call.fd
  OBVIOUS
<1>4. PICK ptr \in Pointers : ptr = Pointer
  BY WhereToWrite
<1>5. PICK off : off = Target.offset
  OBVIOUS
<1>6. /\ ino \in inode_bitmap /\ ino \in Inodes /\ off \in Nat
      /\ off <= inodes[ino].size /\ inodes[ino].size \in Nat
      /\ ptr * BlockSize \in Nat /\ ptr * BlockSize <= off
      /\ fd \in Descriptors /\ open_files[fd].valid /\ open_files[fd] = Target
      /\ call.rest \in Seq(Characters) /\ call.rest # <<>>
  BY <1>1, <1>3, <1>4, <1>5, WhereToWrite DEF FsInv, CallTypeOK, MoreToWrite, Target
<1>7. inodes[ino].size = off /\ off = ptr * BlockSize
  <2>1. ~(ptr * BlockSize < inodes[ino].size)
    BY <1>1, <1>4, <1>6 DEF PointsTo, FsInv, DiskInv, SizesCoverBlocks
  <2> DEFINE x == ptr * BlockSize
  <2> HIDE DEF x
  <2>2. inodes[ino].size = off /\ off = x
    BY <1>6, <2>1 DEF x
  <2> QED
    BY <2>2 DEF x
<1>8. /\ FilesFound /\ UnitsMatch
      /\ name \in DOMAIN StoredFiles /\ StoredFiles[name] = Contents(ino)
  BY <1>2, <1>6, FilesAreFound, UnitsAreBlocks DEF FilesFound
<1>9. Len(StoredFiles[name]) = off /\ StoredFiles[name] \in Seq(Characters)
  BY <1>6, <1>7, <1>8, ContentsAre
<1> DEFINE more == Store!After(1)
           U == Store!UnitsOf(StoredFiles)
<1>10. /\ DOMAIN more = DOMAIN StoredFiles
       /\ \A n \in (DOMAIN StoredFiles) \ {name} : more[n] = StoredFiles[n]
       /\ Len(more[name]) = off + 1
  <2>1. /\ OpenHandles[WriteUnderWay.handle].name = name
        /\ OpenHandles[WriteUnderWay.handle].offset = off
        /\ WriteUnderWay.rest = call.rest
    BY <1>1, <1>2, <1>3, <1>5, <1>6 DEF OpenHandles, WriteUnderWay
  <2>2. more = [StoredFiles EXCEPT ![name] =
                   Store!Overwritten(StoredFiles[name], off, SubSeq(call.rest, 1, 1))]
    BY <2>1 DEF Store!After
  <2>3. Len(SubSeq(call.rest, 1, 1)) = 1
    BY <1>6
  <2>4. Len(Store!Overwritten(StoredFiles[name], off, SubSeq(call.rest, 1, 1))) = off + 1
    BY <1>6, <1>9, <2>3 DEF Store!Overwritten, Store!Greater
  <2> QED
    BY <1>8, <2>2, <2>4 DEF StoredFiles
<1>11. Store!UnitsOf(more) = U \cup {<<name, ptr>>}
  <2>1. ptr \in 0..(MaxFileSize - 1)
    BY MaxFileSizeIs, Sets DEF Pointers
  <2>2. ASSUME NEW i \in Nat
        PROVE  i * BlockSize < off + 1 <=> i * BlockSize < off \/ i = ptr
    <3>1. i * BlockSize \in Nat /\ (i * BlockSize = ptr * BlockSize => i = ptr)
      <4>1. /\ i * BlockSize \in Nat /\ ptr \in Nat /\ BlockSize \in Nat \ {0}
            /\ i < ptr => i * BlockSize < ptr * BlockSize
            /\ ptr < i => ptr * BlockSize < i * BlockSize
        BY Sets, MulOrder
      <4> DEFINE x == i * BlockSize
                 y == ptr * BlockSize
      <4>2. y \in Nat
        BY <1>6
      <4> HIDE DEF x, y
      <4>3. x = y => i = ptr
        BY <4>1, <4>2 DEF x, y
      <4> QED
        BY <4>1, <4>3 DEF x, y
    <3> DEFINE x == i * BlockSize
    <3>2. x \in Nat /\ (x = off => i = ptr) /\ (i = ptr => x = off)
      BY <1>7, <3>1
    <3> HIDE DEF x
    <3>3. x < off + 1 <=> x < off \/ i = ptr
      BY <1>6, <3>2
    <3> QED
      BY <3>3 DEF x
  <2> HIDE DEF more
  <2> QED
    BY <1>8, <1>9, <1>10, <2>1, <2>2, MaxFileSizeIs DEF Store!UnitsOf
<1>12. <<name, ptr>> \notin U
  <2>1. ~(ptr * BlockSize < Len(StoredFiles[name]))
    BY <1>6, <1>7, <1>9
  <2> QED
    BY <2>1 DEF Store!UnitsOf
<1>13. Cardinality(U) = Cardinality(Blocks) /\ IsFiniteSet(U)
  <2>1. block_bitmap = Blocks
    BY DEF FreeBlocks, FsInv, DiskInv, DiskTypeOK
  <2> QED
    BY <1>8, <2>1, StoreCounts DEF UnitsMatch, Store!UsedUnits
<1>14. Cardinality(Blocks) = TotalBlocks - DataStart
  BY FileSystemAssumption, FS_Interval DEF FileSystemAssumption, Blocks
<1>15. Store!UsedUnits(more) = Cardinality(Blocks) + 1
  <2> HIDE DEF more, U
  <2>1. Cardinality(U \cup {<<name, ptr>>}) = Cardinality(U) + 1
    BY <1>12, <1>13, FS_AddElement
  <2> QED
    BY <1>11, <1>13, <2>1, StoreCounts DEF Store!UsedUnits
<1>16. Cardinality(Blocks) \in Nat
  BY SetsAreFinite, FS_CardinalityType
<1> QED
  BY <1>14, <1>15, <1>16 DEF Store!Fits

LEMMA WriteReturnsRefines ==
    ASSUME FitInv, WriteReturns
    PROVE  Store!Next
<1> USE DEF FitInv
<1>1. /\ call # NoCall /\ call' = NoCall /\ Returns(call.written)
      /\ MoreToWrite => PointsTo = 0 /\ FreeBlocks = {}
      /\ UNCHANGED <<diskVars, open_files>>
  BY DEF WriteReturns
<1>2. UNCHANGED <<StoredFiles, OpenHandles>>
  BY <1>1, FilesUnchanged, HandlesUnchanged DEF diskVars
<1>3. WriteUnderWay' = Store!NoWrite /\ ~Store!Idle
  BY <1>1, IdleIs DEF WriteUnderWay, NoCall, Store!NoWrite, Idle, FsInv
<1>4. reply' = Store!Code(WriteUnderWay.written)
  BY <1>1 DEF Returns, Store!Code, WriteUnderWay
<1>5. WriteUnderWay.rest = <<>> \/ ~Store!Fits(1)
  <2>1. CASE call.rest = <<>>
    BY <2>1 DEF WriteUnderWay
  <2>2. CASE MoreToWrite
    BY <1>1, <2>2, NothingMoreFits
  <2>3. CASE call.rest # <<>> /\ ~(Pointer < DirectBlocks)
    <3>1. PICK fd \in Descriptors : fd = call.fd /\ open_files[fd].valid
      BY <1>1 DEF FsInv, CallTypeOK, IsOpen
    <3>2. Target = open_files[fd] /\ Target.offset \in Nat
      BY <3>1 DEF Target, FsInv, OpenTypeOK
    <3>3. OpenHandles[WriteUnderWay.handle].offset = Target.offset
      BY <3>1, <3>2 DEF OpenHandles, WriteUnderWay
    <3>4. MaxFileSize \in Nat /\ Target.offset >= MaxFileSize
      <4> DEFINE x == Pointer * BlockSize
      <4>1. Pointer \in Nat /\ x \in Nat /\ x <= Target.offset
        BY <3>2, Sets, DivMod DEF Pointer
      <4>2. MaxFileSize \in Nat /\ ~(x < MaxFileSize)
        BY <2>3, <4>1, MaxFileSizeIs
      <4> HIDE DEF x
      <4> QED
        BY <3>2, <4>1, <4>2
    <3> QED
      BY <3>2, <3>3, <3>4 DEF Store!Fits
  <2> QED
    BY <1>1, <2>1, <2>2, <2>3 DEF MoreToWrite
<1>6. Store!WriteReturns
  BY <1>2, <1>3, <1>4, <1>5 DEF Store!WriteReturns
<1> QED
  BY <1>6 DEF Store!Next

LEMMA NextRefines ==
    ASSUME FitInv, FitInv', [Next]_fsVars
    PROVE  [Store!Next]_(Store!storeVars)
<1> USE DEF FitInv
<1>1. CASE UNCHANGED fsVars
  BY <1>1, FilesUnchanged, HandlesUnchanged, WriteUnchanged
     DEF fsVars, diskVars, Store!storeVars
<1>2. ASSUME NEW name \in Names,
             \/ FsCreateFile(name) \/ CreateFileFails(name)
             \/ \E create \in BOOLEAN : FsOpen(name, create)
             \/ FsUnlink(name) \/ UnlinkFails(name)
      PROVE  Store!Next
  <2>1. CASE \/ CreateFileFails(name) \/ UnlinkFails(name)
             \/ \E create \in BOOLEAN : OpenFails(name, create)
    BY <2>1, FailureRefines DEF CreateFileFails, UnlinkFails, OpenFails
  <2> QED
    BY <1>2, <2>1, CreateRefines, OpenExistingRefines, OpenNewRefines, UnlinkRefines
       DEF FsOpen
<1>3. ASSUME NEW fd,
             \/ FsClose(fd) \/ BadDescriptor(fd)
             \/ \E count \in Counts : FsRead(fd, count)
             \/ \E text \in Texts : FsWrite(fd, text)
      PROVE  Store!Next
  <2>1. CASE BadDescriptor(fd)
    BY <2>1, FailureRefines DEF BadDescriptor
  <2> QED
    BY <1>3, <2>1, CloseRefines, ReadRefines, WriteRefines
<1> QED
  BY <1>1, <1>2, <1>3, WriteStepRefines, WriteReturnsRefines DEF Next

\* The bitmaps, inodes, entries and blocks of fs.c implement what fs.h
\* promises: files that hold exactly what was written to them, through
\* descriptors that each have an offset of their own, until a limit is met.
THEOREM FilesHoldWhatWasWritten == Spec => ImplementsFileStore
<1>1. Init => FitInv /\ Store!Init
  BY InitFits, InitRefines
<1>2. FitInv /\ [Next]_fsVars => FitInv'
  BY NextKeeps, NextFits DEF FitInv
<1>3. FitInv /\ FitInv' /\ [Next]_fsVars => [Store!Next]_(Store!storeVars)
  BY NextRefines
<1> QED
  BY <1>1, <1>2, <1>3, PTL DEF Spec, ImplementsFileStore, Store!Spec
=============================================================================
