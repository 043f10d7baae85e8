-------------------------------- MODULE Pmm --------------------------------
(***************************************************************************)
(* The physical memory manager (pmm.c): one bit per frame, filled in at    *)
(* boot from the memory map the boot loader left (E820), and two counters. *)
(* Its callers may free what they were given, and may make the calls that  *)
(* pmm_free_frame is written to refuse.                                    *)
(***************************************************************************)
EXTENDS Naturals, FiniteSets

CONSTANTS MaxFrames,        \* PMM_MAX_FRAMES
          LowFrames,        \* frames of the first megabyte
          FrameSize,        \* PMM_FRAME_SIZE
          MapEntries,       \* the entries a memory map may consist of
          KernelFrames      \* frames the kernel's image and stacks occupy

Frames == 0..(MaxFrames - 1)
Low == 0..(LowFrames - 1)
Bytes(f) == (f * FrameSize)..(f * FrameSize + FrameSize - 1)

\* An entry of the map; `usable` is type 1.
Entries == [base : Nat, length : Nat, usable : BOOLEAN]

ASSUME PmmAssumption ==
    /\ MaxFrames \in Nat
    /\ LowFrames \in 1..MaxFrames
    /\ FrameSize \in Nat \ {0}
    /\ MapEntries \subseteq Entries
    /\ KernelFrames \subseteq Frames

VARIABLES
    bitmap,                 \* the frames whose bit is set
    total_frames_count,
    used_frames_count,
    phase,                  \* of pmm_init: "map", or "ready" after it
    ram,                    \* the bytes the map's entries have called usable
    held                    \* frames handed out and not freed

pmmVars == <<bitmap, total_frames_count, used_frames_count, phase, ram, held>>

Init ==
    /\ bitmap = Frames
    /\ total_frames_count = 0
    /\ used_frames_count = 0
    /\ phase = "map"
    /\ ram = {}
    /\ held = {}

-----------------------------------------------------------------------------
(* pmm_init                                                                *)

\* The first frame that begins in the entry, and the first one that does not
\* end in it.  Mutation: the first frame is rounded down.
FirstFrameDown(e) == e.base \div FrameSize
FirstFrame(e) == (e.base + FrameSize - 1) \div FrameSize
LastFrame(e)  == (e.base + e.length) \div FrameSize

\* The frames the loop over an entry visits, cut off at PMM_MAX_FRAMES.
Region(e) == {f \in Frames : FirstFrame(e) <= f /\ f < LastFrame(e)}

\* The frames of an entry that are counted: those whose bit is still set.
\* Mutation: each entry counts all of its own.
CountedAll(e) == Region(e)
Counted(e) == Region(e) \cap bitmap

FreeRegion(e) ==
    /\ phase = "map"
    /\ e.usable
    /\ bitmap' = bitmap \ Region(e)
    /\ total_frames_count' = total_frames_count + Cardinality(Counted(e))
    /\ ram' = ram \cup (e.base..(e.base + e.length - 1))
    /\ UNCHANGED <<used_frames_count, phase, held>>

ReserveLow ==
    /\ phase = "map"
    /\ bitmap' = bitmap \cup Low
    /\ total_frames_count' =
          IF Cardinality(Low \ bitmap) <= total_frames_count
          THEN total_frames_count - Cardinality(Low \ bitmap) ELSE 0
    /\ used_frames_count' = 0
    /\ phase' = "ready"
    /\ UNCHANGED <<ram, held>>

-----------------------------------------------------------------------------
(* pmm_alloc_frame and pmm_free_frame                                      *)

\* First fit.
IsFirstFree(f) == f \in Frames \ bitmap /\ \A g \in Frames \ bitmap : f <= g

\* Mutations: the bit is not set; the next one is set too.
MarkedNever(f) == bitmap
MarkedNext(f) == bitmap \cup {f, f + 1}
Marked(f) == bitmap \cup {f}

Alloc(f) ==
    /\ phase = "ready"
    /\ IsFirstFree(f)
    /\ bitmap' = Marked(f)
    /\ held' = held \cup {f}
    /\ used_frames_count' = used_frames_count + 1
    /\ UNCHANGED <<total_frames_count, phase, ram>>

\* No free frame: the caller gets 0.
AllocFails ==
    /\ phase = "ready"
    /\ bitmap = Frames
    /\ UNCHANGED pmmVars

\* What pmm_free_frame lets through.  Mutation: a frame that is free already.
FreeableTwice(paddr) ==
    /\ paddr # 0
    /\ paddr % FrameSize = 0
    /\ paddr \div FrameSize < MaxFrames
Freeable(paddr) ==
    /\ paddr # 0
    /\ paddr % FrameSize = 0
    /\ paddr \div FrameSize < MaxFrames
    /\ paddr \div FrameSize \in bitmap

\* Callers free a whole frame they hold, or, by mistake, an address within a
\* frame, out of range or in a frame that is free.
Called(paddr) ==
    \/ paddr % FrameSize # 0
    \/ paddr \div FrameSize \notin bitmap \ held

Free(paddr) ==
    /\ phase = "ready"
    /\ Called(paddr)
    /\ Freeable(paddr)
    /\ bitmap' = bitmap \ {paddr \div FrameSize}
    /\ used_frames_count' =
          IF used_frames_count > 0 THEN used_frames_count - 1 ELSE 0
    /\ held' = held \ {paddr \div FrameSize}
    /\ UNCHANGED <<total_frames_count, phase, ram>>

FreeRefused(paddr) ==
    /\ phase = "ready"
    /\ Called(paddr)
    /\ ~Freeable(paddr)
    /\ UNCHANGED pmmVars

Addresses == 0..((MaxFrames + 1) * FrameSize)

Next ==
    \/ \E e \in MapEntries : FreeRegion(e)
    \/ ReserveLow
    \/ \E f \in Frames : Alloc(f)
    \/ AllocFails
    \/ \E paddr \in Addresses : Free(paddr) \/ FreeRefused(paddr)

Spec == Init /\ [][Next]_pmmVars

-----------------------------------------------------------------------------
(* Properties.                                                             *)

PmmTypeOK ==
    /\ bitmap \subseteq Frames
    /\ total_frames_count \in Nat
    /\ used_frames_count \in Nat
    /\ phase \in {"map", "ready"}
    /\ ram \subseteq Nat
    /\ held \subseteq Frames

\* pmm_free_frames
FreeFrames ==
    IF total_frames_count >= used_frames_count
    THEN total_frames_count - used_frames_count ELSE 0

\* The counters say what the bitmap and the callers know: neither overlapping
\* entries of the map, nor low memory, nor refused calls get them out of step.
CountersAreExact ==
    phase = "ready" => /\ used_frames_count = Cardinality(held)
                       /\ FreeFrames = Cardinality(Frames \ bitmap)

\* What can be handed out, or has been, is memory the map calls usable, to the
\* last byte of the frame, above the first megabyte; 0 is never an address.
OnlyUsableMemory ==
    phase = "ready" =>
       \A f \in (Frames \ bitmap) \cup held : Bytes(f) \subseteq ram /\ f \notin Low

\* A frame is handed out to one holder at a time, and counted.
Allocator == INSTANCE FrameAllocator WITH
    Pool <- Frames, owned <- held,
    available <- IF phase = "ready" THEN Frames \ bitmap ELSE {},
    left <- IF phase = "ready" THEN FreeFrames ELSE 0
ImplementsFrameAllocator == Allocator!Spec

\* "Reserve low memory used by BIOS, bootloader, kernel, stacks, E820 table":
\* no frame that is handed out is one the kernel occupies.
KernelIsReserved == held \cap KernelFrames = {}
=============================================================================
