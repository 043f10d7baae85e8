----------------------------- MODULE PmmProofs -----------------------------
(***************************************************************************)
(* Proofs about Pmm, for any number and size of frames and any memory map. *)
(***************************************************************************)
EXTENDS Pmm, FiniteSetTheorems, TLAPS

-----------------------------------------------------------------------------
(* Counting.                                                               *)

LEMMA FramesAreFinite ==
    ASSUME NEW S \in SUBSET Frames
    PROVE  IsFiniteSet(S) /\ Cardinality(S) \in Nat
<1>1. IsFiniteSet(Frames)
  <2>1. 0 \in Int /\ MaxFrames - 1 \in Int
    BY PmmAssumption
  <2>2. QED BY <2>1, FS_Interval DEF Frames
<1>2. IsFiniteSet(S)
  BY <1>1, FS_Subset
<1>3. QED BY <1>2, FS_CardinalityType

\* What is taken out of a set, and what stays, make up its size.
LEMMA SplitCount ==
    ASSUME NEW S \in SUBSET Frames, NEW T
    PROVE  Cardinality(S) = Cardinality(S \ T) + Cardinality(S \cap T)
<1>1. /\ IsFiniteSet(S \ T) /\ Cardinality(S \ T) \in Nat
      /\ IsFiniteSet(S \cap T) /\ Cardinality(S \cap T) \in Nat
  BY FramesAreFinite, S \ T \in SUBSET Frames, S \cap T \in SUBSET Frames
<1>2. (S \ T) \cup (S \cap T) = S /\ (S \ T) \cap (S \cap T) = {}
  OBVIOUS
<1>3. Cardinality((S \ T) \cup (S \cap T))
        = Cardinality(S \ T) + Cardinality(S \cap T)
             - Cardinality((S \ T) \cap (S \cap T))
  BY <1>1, FS_Union
<1>4. QED BY <1>1, <1>2, <1>3, FS_EmptySet

LEMMA OneMore ==
    ASSUME NEW S \in SUBSET Frames, NEW f \in Frames, f \notin S
    PROVE  Cardinality(S \cup {f}) = Cardinality(S) + 1
BY FramesAreFinite, FS_AddElement

LEMMA OneLess ==
    ASSUME NEW S \in SUBSET Frames, NEW f \in S
    PROVE  /\ Cardinality(S \ {f}) = Cardinality(S) - 1
           /\ Cardinality(S) > 0
<1>1. Cardinality(S \ {f}) = Cardinality(S) - 1
  BY FramesAreFinite, FS_RemoveElement
<1>2. Cardinality(S \ {f}) \in Nat /\ Cardinality(S) \in Nat
  BY FramesAreFinite, S \ {f} \in SUBSET Frames
<1>3. QED BY <1>1, <1>2

-----------------------------------------------------------------------------
(* Rounding.                                                               *)

LEMMA Multiples ==
    ASSUME NEW a \in Nat, NEW b \in Nat, NEW d \in Nat, a <= b
    PROVE  a * d <= b * d
BY Z3

LEMMA Division ==
    ASSUME NEW a \in Nat, NEW d \in Nat \ {0}
    PROVE  /\ a \div d \in Nat
           /\ (a \div d) * d <= a
           /\ a < (a \div d) * d + d
BY Z3

\* The frames of an entry lie within it, to their last byte.
LEMMA RegionIsInside ==
    ASSUME NEW e \in Entries, NEW f \in Region(e)
    PROVE  Bytes(f) \subseteq e.base..(e.base + e.length - 1)
<1> USE PmmAssumption
<1>1. /\ e.base \in Nat /\ e.length \in Nat /\ FrameSize \in Nat \ {0}
      /\ f \in Nat /\ FirstFrame(e) <= f /\ f < LastFrame(e)
  BY DEF Entries, Region, Frames
<1>2. e.base <= f * FrameSize
  <2> DEFINE q == FirstFrame(e)
  <2>1. q \in Nat /\ e.base + FrameSize - 1 < q * FrameSize + FrameSize
    BY <1>1, Division, e.base + FrameSize - 1 \in Nat DEF FirstFrame
  <2>2. q * FrameSize <= f * FrameSize
    BY <1>1, <2>1, Multiples
  <2>3. q * FrameSize \in Nat /\ f * FrameSize \in Nat
    BY <1>1, <2>1
  <2> HIDE DEF q
  <2>4. QED BY <1>1, <2>1, <2>2, <2>3
<1>3. f * FrameSize + FrameSize <= e.base + e.length
  <2> DEFINE q == LastFrame(e)
  <2>1. q \in Nat /\ q * FrameSize <= e.base + e.length
    BY <1>1, Division, e.base + e.length \in Nat DEF LastFrame
  <2>2. (f + 1) * FrameSize <= q * FrameSize
    BY <1>1, <2>1, Multiples, f + 1 <= q, f + 1 \in Nat
  <2>3. (f + 1) * FrameSize = f * FrameSize + FrameSize
    BY <1>1
  <2>4. q * FrameSize \in Nat /\ f * FrameSize \in Nat
    BY <1>1, <2>1
  <2> HIDE DEF q
  <2>5. QED BY <1>1, <2>1, <2>2, <2>3, <2>4
<1>4. f * FrameSize \in Nat
  BY <1>1
<1>5. QED BY <1>1, <1>2, <1>3, <1>4 DEF Bytes

-----------------------------------------------------------------------------
(* The inductive invariant.                                                *)

\* A frame that was handed out is marked, and no low frame ever is.
Marks ==
    /\ held \subseteq bitmap
    /\ held \cap Low = {}
    /\ phase = "ready" => Low \subseteq bitmap

\* total_frames_count counts the clear bits and the frames handed out.
Counts ==
    /\ total_frames_count = Cardinality(Frames \ bitmap) + Cardinality(held)
    /\ used_frames_count = Cardinality(held)
    /\ phase = "map" => held = {}

InsideRam == \A f \in (Frames \ bitmap) \cup held : Bytes(f) \subseteq ram

IInv == PmmTypeOK /\ Marks /\ Counts /\ InsideRam

LEMMA LowIsFrames == Low \subseteq Frames
BY PmmAssumption DEF Low, Frames

LEMMA InitHolds == Init => IInv
<1> SUFFICES ASSUME Init PROVE IInv
  OBVIOUS
<1>1. Frames \ bitmap = {} /\ held = {} /\ Cardinality({}) = 0
  BY FS_EmptySet DEF Init
<1>2. PmmTypeOK
  BY DEF Init, PmmTypeOK
<1>3. Marks
  BY DEF Init, Marks
<1>4. Counts
  BY <1>1 DEF Init, Counts
<1>5. InsideRam
  BY <1>1 DEF InsideRam
<1>6. QED BY <1>2, <1>3, <1>4, <1>5 DEF IInv

LEMMA FreeRegionHolds ==
    ASSUME IInv, NEW e \in MapEntries, FreeRegion(e) PROVE IInv'
<1> USE DEF IInv
<1>1. e \in Entries /\ e.base \in Nat /\ e.length \in Nat
  BY PmmAssumption DEF Entries
<1>2. Region(e) \subseteq Frames /\ bitmap \subseteq Frames
  BY DEF Region, PmmTypeOK
<1>3. held = {} /\ held' = {} /\ phase' = "map"
  BY DEF FreeRegion, Counts
<1>4. Cardinality(Frames \ bitmap') = Cardinality(Frames \ bitmap)
                                         + Cardinality(Counted(e))
  <2>1. (Frames \ bitmap') \ Counted(e) = Frames \ bitmap
    BY <1>2 DEF FreeRegion, Counted
  <2>2. (Frames \ bitmap') \cap Counted(e) = Counted(e)
    BY <1>2 DEF FreeRegion, Counted
  <2>3. QED BY <2>1, <2>2, SplitCount, Frames \ bitmap' \in SUBSET Frames
<1>5. Cardinality(Counted(e)) \in Nat
  BY <1>2, FramesAreFinite DEF Counted
<1>6. PmmTypeOK'
  <2>1. e.base..(e.base + e.length - 1) \subseteq Nat
    BY <1>1
  <2>2. ram' \subseteq Nat
    BY <2>1 DEF FreeRegion, PmmTypeOK
  <2>3. bitmap' \subseteq Frames /\ total_frames_count' \in Nat
    BY <1>2, <1>5 DEF FreeRegion, PmmTypeOK
  <2>4. used_frames_count' \in Nat /\ held' \subseteq Frames
    BY <1>3 DEF FreeRegion, PmmTypeOK
  <2>5. QED BY <1>3, <2>2, <2>3, <2>4 DEF PmmTypeOK
<1>7. Marks'
  BY <1>3 DEF Marks
<1>8. Counts'
  <2>1. Cardinality(Frames \ bitmap) \in Nat /\ Cardinality(held) = 0
    BY <1>3, FramesAreFinite, FS_EmptySet, Frames \ bitmap \in SUBSET Frames
  <2>2. QED BY <1>3, <1>4, <1>5, <2>1 DEF FreeRegion, Counts
<1>9. InsideRam'
  <2> SUFFICES ASSUME NEW f \in Frames \ bitmap' PROVE Bytes(f) \subseteq ram'
    BY <1>3 DEF InsideRam
  <2>1. CASE f \in Region(e)
    BY <1>1, <2>1, RegionIsInside DEF FreeRegion
  <2>2. CASE f \notin Region(e)
    <3>1. f \in Frames \ bitmap
      BY <2>2 DEF FreeRegion
    <3>2. QED BY <3>1 DEF InsideRam, FreeRegion
  <2>3. QED BY <2>1, <2>2
<1>10. QED BY <1>6, <1>7, <1>8, <1>9

LEMMA ReserveLowHolds ==
    ASSUME IInv, ReserveLow PROVE IInv'
<1> USE DEF IInv
<1>1. bitmap \subseteq Frames /\ bitmap' = bitmap \cup Low /\ Low \subseteq Frames
  BY LowIsFrames DEF PmmTypeOK, ReserveLow
<1>2. held = {} /\ held' = {} /\ phase' = "ready"
  BY DEF ReserveLow, Counts
<1>3. /\ Cardinality(Frames \ bitmap) \in Nat
      /\ Cardinality(Low \ bitmap) \in Nat
      /\ Cardinality(Frames \ bitmap') \in Nat
  BY <1>1, FramesAreFinite, Frames \ bitmap \in SUBSET Frames,
     Low \ bitmap \in SUBSET Frames, Frames \ bitmap' \in SUBSET Frames
<1>4. Cardinality(Frames \ bitmap) = Cardinality(Frames \ bitmap')
                                        + Cardinality(Low \ bitmap)
  <2>1. (Frames \ bitmap) \ Low = Frames \ bitmap'
    BY <1>1
  <2>2. (Frames \ bitmap) \cap Low = Low \ bitmap
    BY <1>1
  <2>3. QED BY <2>1, <2>2, SplitCount, Frames \ bitmap \in SUBSET Frames
<1>5. Cardinality(held) = 0
  BY <1>2, FS_EmptySet
<1>6. total_frames_count' = Cardinality(Frames \ bitmap') /\ used_frames_count' = 0
  BY <1>3, <1>4, <1>5 DEF ReserveLow, Counts
<1>7. PmmTypeOK'
  BY <1>1, <1>2, <1>3, <1>6 DEF ReserveLow, PmmTypeOK
<1>8. Marks'
  BY <1>1, <1>2 DEF Marks
<1>9. Counts'
  BY <1>2, <1>3, <1>5, <1>6 DEF Counts
<1>10. InsideRam'
  BY <1>1, <1>2 DEF InsideRam, ReserveLow
<1>11. QED BY <1>7, <1>8, <1>9, <1>10

LEMMA AllocHolds ==
    ASSUME IInv, NEW f \in Frames, Alloc(f) PROVE IInv'
<1> USE DEF IInv
<1>1. /\ bitmap \subseteq Frames /\ held \subseteq Frames
      /\ f \notin bitmap /\ f \notin held
      /\ bitmap' = bitmap \cup {f} /\ held' = held \cup {f} /\ phase = "ready"
  BY DEF PmmTypeOK, Marks, Alloc, IsFirstFree, Marked
<1>2. Cardinality(held') = Cardinality(held) + 1
  BY <1>1, OneMore
<1>3. /\ Cardinality(Frames \ bitmap') = Cardinality(Frames \ bitmap) - 1
      /\ Cardinality(Frames \ bitmap) > 0
  <2>1. Frames \ bitmap' = (Frames \ bitmap) \ {f} /\ f \in Frames \ bitmap
    BY <1>1
  <2>2. QED BY <2>1, OneLess, Frames \ bitmap \in SUBSET Frames
<1>4. Cardinality(held) \in Nat /\ Cardinality(Frames \ bitmap) \in Nat
  BY <1>1, FramesAreFinite, Frames \ bitmap \in SUBSET Frames
<1>5. PmmTypeOK'
  BY <1>1 DEF Alloc, PmmTypeOK
<1>6. Marks'
  BY <1>1 DEF Alloc, Marks
<1>7. Counts'
  BY <1>1, <1>2, <1>3, <1>4 DEF Alloc, Counts
<1>8. InsideRam'
  BY <1>1 DEF Alloc, InsideRam
<1>9. QED BY <1>5, <1>6, <1>7, <1>8

\* What pmm_free_frame lets through is a frame its caller holds.
LEMMA FreedWasHeld ==
    ASSUME IInv, NEW paddr \in Addresses, Free(paddr)
    PROVE  paddr \div FrameSize \in held
BY DEF Free, Called, Freeable

LEMMA FreeHolds ==
    ASSUME IInv, NEW paddr \in Addresses, Free(paddr) PROVE IInv'
<1> USE DEF IInv
<1> DEFINE f == paddr \div FrameSize
<1>1. /\ bitmap \subseteq Frames /\ held \subseteq Frames
      /\ f \in held /\ f \in bitmap
  BY FreedWasHeld DEF PmmTypeOK, Marks
<1>2. bitmap' = bitmap \ {f} /\ held' = held \ {f} /\ phase = "ready"
  BY DEF Free
<1>3. UNCHANGED <<total_frames_count, phase, ram>>
  BY DEF Free
<1>4. used_frames_count' = IF used_frames_count > 0 THEN used_frames_count - 1 ELSE 0
  BY DEF Free
<1> HIDE DEF f
<1>5. Cardinality(held') = Cardinality(held) - 1 /\ Cardinality(held) > 0
  BY <1>1, <1>2, OneLess
<1>6. Cardinality(Frames \ bitmap') = Cardinality(Frames \ bitmap) + 1
  <2>1. Frames \ bitmap' = (Frames \ bitmap) \cup {f} /\ f \notin Frames \ bitmap
    BY <1>1, <1>2
  <2>2. QED BY <1>1, <2>1, OneMore, Frames \ bitmap \in SUBSET Frames
<1>7. Cardinality(held) \in Nat /\ Cardinality(Frames \ bitmap) \in Nat
  BY <1>1, FramesAreFinite, Frames \ bitmap \in SUBSET Frames
<1>8. PmmTypeOK'
  BY <1>1, <1>2, <1>3, <1>4 DEF PmmTypeOK
<1>9. Marks'
  BY <1>1, <1>2, <1>3 DEF Marks
<1>10. Counts'
  BY <1>2, <1>3, <1>4, <1>5, <1>6, <1>7 DEF Counts
<1>11. InsideRam'
  BY <1>1, <1>2, <1>3 DEF InsideRam
<1>12. QED BY <1>8, <1>9, <1>10, <1>11

LEMMA StepHolds == IInv /\ [Next]_pmmVars => IInv'
<1> SUFFICES ASSUME IInv, [Next]_pmmVars PROVE IInv'
  OBVIOUS
<1>1. ASSUME NEW e \in MapEntries, FreeRegion(e) PROVE IInv'
  BY <1>1, FreeRegionHolds
<1>2. CASE ReserveLow
  BY <1>2, ReserveLowHolds
<1>3. ASSUME NEW f \in Frames, Alloc(f) PROVE IInv'
  BY <1>3, AllocHolds
<1>4. ASSUME NEW paddr \in Addresses, Free(paddr) PROVE IInv'
  BY <1>4, FreeHolds
<1>5. CASE UNCHANGED pmmVars
  BY <1>5 DEF IInv, PmmTypeOK, Marks, Counts, InsideRam, pmmVars
<1>6. CASE AllocFails \/ \E paddr \in Addresses : FreeRefused(paddr)
  BY <1>5, <1>6 DEF AllocFails, FreeRefused
<1>7. QED BY <1>1, <1>2, <1>3, <1>4, <1>5, <1>6 DEF Next

LEMMA Invariance == Spec => []IInv
BY InitHolds, StepHolds, PTL DEF Spec

-----------------------------------------------------------------------------
(* The theorems.                                                           *)

\* Every variable of the memory manager keeps its type.
THEOREM PmmTypeCorrect == Spec => []PmmTypeOK
<1>1. IInv => PmmTypeOK
  BY DEF IInv
<1>2. QED BY <1>1, Invariance, PTL

\* pmm_used_frames and pmm_free_frames report exactly what was handed out and
\* what the bitmap still has, whatever the memory map and the refused calls.
THEOREM CountersNeverDrift == Spec => []CountersAreExact
<1>1. IInv => CountersAreExact
  <2> SUFFICES ASSUME IInv PROVE CountersAreExact
    OBVIOUS
  <2>1. Cardinality(held) \in Nat /\ Cardinality(Frames \ bitmap) \in Nat
    BY FramesAreFinite, Frames \ bitmap \in SUBSET Frames DEF IInv, PmmTypeOK
  <2>2. QED BY <2>1 DEF IInv, Counts, CountersAreExact, FreeFrames
<1>2. QED BY <1>1, Invariance, PTL

\* pmm_alloc_frame hands out nothing but whole frames of usable memory above
\* the first megabyte.
THEOREM FramesAreUsable == Spec => []OnlyUsableMemory
<1>1. IInv => OnlyUsableMemory
  BY DEF IInv, Marks, InsideRam, OnlyUsableMemory
<1>2. QED BY <1>1, Invariance, PTL

-----------------------------------------------------------------------------
(* The refinement of FrameAllocator.                                       *)

LEMMA InitMaps == Init => Allocator!Init
BY DEF Init, Allocator!Init

LEMMA StepMaps ==
    ASSUME IInv, IInv', [Next]_pmmVars
    PROVE  [Allocator!Next]_Allocator!allocatorVars
<1> USE DEF Allocator!allocatorVars
<1> DEFINE avail == IF phase = "ready" THEN Frames \ bitmap ELSE {}
           left == IF phase = "ready" THEN FreeFrames ELSE 0
<1>0. /\ FreeFrames = Cardinality(Frames \ bitmap)
      /\ FreeFrames' = Cardinality(Frames \ bitmap')
  <2>1. Cardinality(held) \in Nat /\ Cardinality(Frames \ bitmap) \in Nat
    BY FramesAreFinite, Frames \ bitmap \in SUBSET Frames DEF IInv, PmmTypeOK
  <2>2. Cardinality(held') \in Nat /\ Cardinality(Frames \ bitmap') \in Nat
    BY FramesAreFinite, Frames \ bitmap' \in SUBSET Frames, held' \in SUBSET Frames
       DEF IInv, PmmTypeOK
  <2>3. FreeFrames = Cardinality(Frames \ bitmap)
    BY <2>1 DEF IInv, Counts, FreeFrames
  <2>4. FreeFrames' = Cardinality(Frames \ bitmap')
    <3>1. /\ total_frames_count' = Cardinality(Frames \ bitmap') + Cardinality(held')
          /\ used_frames_count' = Cardinality(held')
      BY DEF IInv, Counts
    <3>2. QED BY <2>2, <3>1 DEF FreeFrames
  <2>5. QED BY <2>3, <2>4
<1>1. ASSUME NEW e \in MapEntries, FreeRegion(e)
      PROVE  UNCHANGED <<avail, held, left>>
  BY <1>1 DEF FreeRegion
<1>2. ASSUME ReserveLow PROVE Allocator!Provide(Frames \ bitmap')
  <2>1. phase = "map" /\ phase' = "ready" /\ held = {} /\ held' = held
    BY <1>2 DEF ReserveLow, IInv, Counts
  <2>2. avail' = Frames \ bitmap' /\ left' = Cardinality(Frames \ bitmap')
    BY <1>0, <2>1
  <2>3. Allocator!Cardinality(Frames \ bitmap') = Cardinality(Frames \ bitmap')
    BY DEF Allocator!Cardinality, Cardinality
  <2>4. QED BY <2>1, <2>2, <2>3 DEF Allocator!Provide
<1>3. ASSUME NEW f \in Frames, Alloc(f) PROVE Allocator!Alloc(f)
  <2>1. /\ phase = "ready" /\ phase' = "ready" /\ f \in Frames \ bitmap
        /\ bitmap' = bitmap \cup {f} /\ held' = held \cup {f}
    BY <1>3 DEF Alloc, IsFirstFree, Marked
  <2>2. Frames \ bitmap' = (Frames \ bitmap) \ {f}
    BY <2>1
  <2>3. Cardinality(Frames \ bitmap') = Cardinality(Frames \ bitmap) - 1
    BY <2>1, <2>2, OneLess, Frames \ bitmap \in SUBSET Frames
  <2>4. QED BY <1>0, <2>1, <2>2, <2>3 DEF Allocator!Alloc
<1>4. ASSUME NEW paddr \in Addresses, Free(paddr)
      PROVE  Allocator!Free(paddr \div FrameSize)
  <2> DEFINE f == paddr \div FrameSize
  <2>1. /\ phase = "ready" /\ phase' = "ready" /\ f \in held
        /\ f \in Frames /\ f \in bitmap
        /\ bitmap' = bitmap \ {f} /\ held' = held \ {f}
    BY <1>4, FreedWasHeld DEF Free, IInv, PmmTypeOK, Marks
  <2> HIDE DEF f
  <2>2. Frames \ bitmap' = (Frames \ bitmap) \cup {f} /\ f \notin Frames \ bitmap
    BY <2>1
  <2>3. Cardinality(Frames \ bitmap') = Cardinality(Frames \ bitmap) + 1
    BY <2>1, <2>2, OneMore, Frames \ bitmap \in SUBSET Frames
  <2>4. Allocator!Free(f)
    BY <1>0, <2>1, <2>2, <2>3 DEF Allocator!Free
  <2>5. QED BY <2>4 DEF f
<1>5. CASE UNCHANGED pmmVars
  BY <1>5 DEF pmmVars, FreeFrames
<1>6. CASE AllocFails \/ \E paddr \in Addresses : FreeRefused(paddr)
  BY <1>5, <1>6 DEF AllocFails, FreeRefused
<1>7. Frames \ bitmap' \in SUBSET Frames
  OBVIOUS
<1>8. ASSUME NEW paddr \in Addresses, Free(paddr) PROVE paddr \div FrameSize \in Frames
  BY <1>8, FreedWasHeld DEF IInv, PmmTypeOK
<1>9. QED BY <1>1, <1>2, <1>3, <1>4, <1>5, <1>6, <1>7, <1>8
          DEF Next, Allocator!Next

\* The bitmap, the counters and first fit implement the abstract allocator: no
\* frame has two holders, and the statistics are right.
THEOREM PmmImplementsFrameAllocator == Spec => ImplementsFrameAllocator
<1>1. Spec => Allocator!Init /\ [][Allocator!Next]_Allocator!allocatorVars
  BY InitMaps, StepMaps, Invariance, PTL DEF Spec
<1>2. QED BY <1>1 DEF ImplementsFrameAllocator, Allocator!Spec
=============================================================================
