------------------------------ MODULE PhysMem ------------------------------
(***************************************************************************)
(* The allocator of physical memory, mem_manager_phys.c, with the calls    *)
(* that kernel.c makes at boot and threads of several cpus that allocate   *)
(* and release frames afterwards.                                          *)
(*                                                                         *)
(* A bit per block says whether the block is in use.  The bits are tested  *)
(* and changed under phys_mem_lock; the number of blocks in use is read    *)
(* without it, before an allocation takes the lock.  A block's bit and the *)
(* count change in one step: who reads only the count sees it either       *)
(* before or after.                                                        *)
(***************************************************************************)
EXTENDS Integers, Sequences, FiniteSets

CONSTANTS
    Threads,        \* the threads that allocate, on any cpu
    BitsPerByte,    \* PHYS_MEM_BLOCKS_PER_BYTE, 8
    BitsPerWord,    \* the search works on words of 32 bits
    MaxBlocks,      \* phys_mem_max_blocks: blocks of lower and upper memory
    TopBlock,       \* the blocks the memory map names lie below this one
    Mark,           \* the block of the 1 MB mark, 256
    BootCalls       \* the region calls of kernel.c, in order

Blocks == 0 .. TopBlock - 1
Region(call) == call.base .. call.base + call.size - 1

\* phys_mem_get_bitmap_size rounds down to whole bytes: what lies behind is
\* memory that phys_mem_init does not set.
Managed == 0 .. BitsPerByte * (MaxBlocks \div BitsPerByte) - 1

ceil_division(value, divisor) ==
    (value \div divisor) + (IF value % divisor # 0 THEN 1 ELSE 0)

\* The blocks mmap_first_free looks at: whole words, from the one that begins
\* at or after the mark.
Reach == BitsPerWord * ceil_division(Mark, BitsPerWord) ..
         BitsPerWord * (MaxBlocks \div BitsPerWord) - 1

ASSUME SizeAssumption ==
    /\ BitsPerByte \in Nat \ {0}
    /\ BitsPerWord \in Nat \ {0} /\ BitsPerWord % BitsPerByte = 0
    /\ MaxBlocks \in Nat /\ Mark \in Nat \ {0}
    /\ TopBlock \in Nat /\ MaxBlocks <= TopBlock

\* The map names memory below TopBlock; the kernel and the bitmap, which are
\* reserved, lie low.
ASSUME BootAssumption ==
    /\ BootCalls \in Seq([kind : {"free", "reserve"}, base : Nat, size : Nat])
    /\ BootCalls # <<>>
    /\ \A i \in 1 .. Len(BootCalls) :
          Region(BootCalls[i]) \subseteq
              IF BootCalls[i].kind = "reserve" THEN Managed ELSE Blocks

VARIABLES
    booted,        \* the number of region calls made
    bitmap,        \* bitmap[b]: block b is in use (phys_mem_bitmap)
    used_blocks,   \* phys_mem_used_blocks
    lock,          \* phys_mem_lock
    pc,            \* pc[t]: the next step of thread t
    frame,         \* frame[t]: the block its call is about
    held           \* held[t]: the blocks t was given and still uses

thread_vars == <<pc, frame, held>>
vars == <<booted, bitmap, used_blocks, lock, thread_vars>>

AllocBody == {"search", "take", "alloc_release"}
DeallocBody == {"give", "dealloc_release"}
Steps == {"run", "check", "alloc_acquire", "dealloc_acquire", "failed"}
            \cup AllocBody \cup DeallocBody

\* phys_mem_init: every bit of the bitmap is set, no other is touched.
Init ==
    /\ booted = 0
    /\ bitmap \in [Blocks -> BOOLEAN]
    /\ \A b \in Managed : bitmap[b]
    /\ used_blocks = MaxBlocks
    /\ lock = FALSE
    /\ pc = [t \in Threads |-> "run"]
    /\ frame = [t \in Threads |-> 0]
    /\ held = [t \in Threads |-> {}]

-----------------------------------------------------------------------------
(* Boot: region calls, by the one processor that runs.                     *)

\* A region call moves on to the next block only when it changed one: it stops
\* for good at the first block that is already as wanted.
Changed(region, in_use) ==
    {b \in region : \A a \in region : a <= b => bitmap[a] = in_use}

SetBits(blocks, in_use) ==
    bitmap' = [b \in Blocks |-> IF b \in blocks THEN in_use ELSE bitmap[b]]

\* Faulty variant: the blocks are not counted.
FreeRegionUncounted(region) ==
    /\ SetBits(Changed(region, TRUE), FALSE)
    /\ UNCHANGED used_blocks

phys_mem_free_region(region) ==
    /\ SetBits(Changed(region, TRUE), FALSE)
    /\ used_blocks' = used_blocks - Cardinality(Changed(region, TRUE))

\* Faulty variant: the loop leaves out the last block.
ReserveRegionShort(region) ==
    LET blocks == {b \in Changed(region, FALSE) : b + 1 \in region} IN
    /\ SetBits(blocks, TRUE)
    /\ used_blocks' = used_blocks + Cardinality(blocks)

phys_mem_reserve_region(region) ==
    /\ SetBits(Changed(region, FALSE), TRUE)
    /\ used_blocks' = used_blocks + Cardinality(Changed(region, FALSE))

Boot ==
    LET call == BootCalls[booted + 1] IN
    /\ booted < Len(BootCalls)
    /\ IF call.kind = "free" THEN phys_mem_free_region(Region(call))
                             ELSE phys_mem_reserve_region(Region(call))
    /\ booted' = booted + 1
    /\ UNCHANGED <<lock, thread_vars>>

Booted == booted = Len(BootCalls)

-----------------------------------------------------------------------------
(* phys_mem_alloc_above, called for a frame above the mark.                *)

Goto(t, step) == pc' = [pc EXCEPT ![t] = step]

CallAlloc(t) ==
    /\ Booted
    /\ pc[t] = "run"
    /\ Goto(t, "check")
    /\ UNCHANGED <<booted, bitmap, used_blocks, lock, frame, held>>

\* The free blocks are counted without the lock.
CheckFree(t) ==
    /\ pc[t] = "check"
    /\ Goto(t, IF used_blocks = MaxBlocks THEN "failed" ELSE "alloc_acquire")
    /\ UNCHANGED <<booted, bitmap, used_blocks, lock, frame, held>>

\* Faulty variant: the lock is not waited for.
AcquireAnyway(t, from, to) ==
    /\ pc[t] = from
    /\ lock' = TRUE
    /\ Goto(t, to)
    /\ UNCHANGED <<booted, bitmap, used_blocks, frame, held>>

Acquire(t, from, to) ==
    /\ pc[t] = from
    /\ ~lock
    /\ lock' = TRUE
    /\ Goto(t, to)
    /\ UNCHANGED <<booted, bitmap, used_blocks, frame, held>>

Release(t, from) ==
    /\ pc[t] = from
    /\ lock' = FALSE
    /\ Goto(t, "run")
    /\ UNCHANGED <<booted, bitmap, used_blocks, frame, held>>

\* Faulty variant: the search begins at the first word.
FreeFromZero == {b \in 0 .. MaxBlocks - 1 : ~bitmap[b]}

\* mmap_first_free
FreeInReach == {b \in Reach : ~bitmap[b]}
FirstFree == CHOOSE b \in FreeInReach : \A a \in FreeInReach : b <= a

FindFrame(t) ==
    /\ pc[t] = "search"
    /\ FreeInReach # {}
    /\ frame' = [frame EXCEPT ![t] = FirstFree]
    /\ Goto(t, "take")
    /\ UNCHANGED <<booted, bitmap, used_blocks, lock, held>>

TakeFrame(t) ==
    /\ pc[t] = "take"
    /\ bitmap' = [bitmap EXCEPT ![frame[t]] = TRUE]
    /\ used_blocks' = used_blocks + 1
    /\ held' = [held EXCEPT ![t] = @ \cup {frame[t]}]
    /\ Goto(t, "alloc_release")
    /\ UNCHANGED <<booted, lock, frame>>

\* The search fails: the call returns 0 and leaves the lock as it is.
FindNothing(t) ==
    /\ pc[t] = "search"
    /\ FreeInReach = {}
    /\ Goto(t, "failed")
    /\ UNCHANGED <<booted, bitmap, used_blocks, lock, frame, held>>

ReturnFailure(t) ==
    /\ pc[t] = "failed"
    /\ Goto(t, "run")
    /\ UNCHANGED <<booted, bitmap, used_blocks, lock, frame, held>>

-----------------------------------------------------------------------------
(* phys_mem_dealloc, called for a frame the thread has.                    *)

CallDealloc(t) ==
    /\ pc[t] = "run"
    /\ \E f \in held[t] :
          /\ frame' = [frame EXCEPT ![t] = f]
          /\ held' = [held EXCEPT ![t] = @ \ {f}]
    /\ Goto(t, "dealloc_acquire")
    /\ UNCHANGED <<booted, bitmap, used_blocks, lock>>

\* Faulty variant: the block is not counted as free.
GiveFrameUncounted(t) ==
    /\ pc[t] = "give"
    /\ bitmap' = [bitmap EXCEPT ![frame[t]] = FALSE]
    /\ Goto(t, "dealloc_release")
    /\ UNCHANGED <<booted, used_blocks, lock, frame, held>>

\* Faulty variant: the call returns without releasing the lock.
GiveFrameKeepsLock(t) ==
    /\ pc[t] = "give"
    /\ bitmap' = [bitmap EXCEPT ![frame[t]] = FALSE]
    /\ used_blocks' = used_blocks - 1
    /\ Goto(t, "run")
    /\ UNCHANGED <<booted, lock, frame, held>>

GiveFrame(t) ==
    /\ pc[t] = "give"
    /\ bitmap' = [bitmap EXCEPT ![frame[t]] = FALSE]
    /\ used_blocks' = used_blocks - 1
    /\ Goto(t, "dealloc_release")
    /\ UNCHANGED <<booted, lock, frame, held>>

ThreadStep(t) ==
    \/ CallAlloc(t) \/ CheckFree(t) \/ Acquire(t, "alloc_acquire", "search")
    \/ FindFrame(t) \/ TakeFrame(t) \/ FindNothing(t) \/ ReturnFailure(t)
    \/ CallDealloc(t) \/ Acquire(t, "dealloc_acquire", "give") \/ GiveFrame(t)
    \/ Release(t, "alloc_release") \/ Release(t, "dealloc_release")

Next == Boot \/ \E t \in Threads : ThreadStep(t)

Spec == Init /\ [][Next]_vars

-----------------------------------------------------------------------------
(* Properties.                                                             *)

\* The static variables of mem_manager_phys.c and the threads' locals keep
\* their types.
TypeOK ==
    /\ booted \in 0 .. Len(BootCalls)
    /\ bitmap \in [Blocks -> BOOLEAN]
    /\ used_blocks \in Int
    /\ lock \in BOOLEAN
    /\ pc \in [Threads -> Steps]
    /\ frame \in [Threads -> Blocks \cup {0}]
    /\ held \in [Threads -> SUBSET Reach]

\* Thread t has block b, or is giving it back and has not done so yet.
Uses(t, b) ==
    \/ b \in held[t]
    \/ pc[t] \in {"dealloc_acquire", "give"} /\ frame[t] = b

\* A block handed out by phys_mem_alloc_above is used by one thread at a time
\* and marked as in use from then until phys_mem_dealloc clears it, however the
\* calls of several cpus interleave.
FrameHasOneUser ==
    \A b \in Blocks : \A t \in Threads : Uses(t, b) =>
        /\ bitmap[b]
        /\ \A u \in Threads : Uses(u, b) => u = t

InCriticalSection(t) == pc[t] \in AllocBody \cup DeallocBody

\* phys_mem_lock is set while a thread is in a critical section, and never for
\* two of them.
LockExcludes ==
    \A t \in Threads : InCriticalSection(t) =>
        lock /\ \A u \in Threads : InCriticalSection(u) => u = t

Available == UNION {Region(BootCalls[i]) : i \in {i \in DOMAIN BootCalls : BootCalls[i].kind = "free"}}
Reserved == UNION {Region(BootCalls[i]) : i \in {i \in DOMAIN BootCalls : BootCalls[i].kind = "reserve"}}

\* The map of kernel.c as firmware and linker make it: available regions that
\* do not overlap, then the kernel and the bitmap, apart from each other and
\* in available memory.  A region call stops at the first block that is already
\* as wanted, so it is complete only on such a map.
OrderlyMap ==
    \A i, j \in DOMAIN BootCalls :
        /\ BootCalls[i].kind = "free" /\ BootCalls[j].kind = "reserve" => i < j
        /\ i # j /\ BootCalls[i].kind = BootCalls[j].kind =>
              Region(BootCalls[i]) \cap Region(BootCalls[j]) = {}
        /\ BootCalls[j].kind = "reserve" => Region(BootCalls[j]) \subseteq Available

\* Threads are given memory the map calls available, outside the kernel and the
\* bitmap, which the region calls of kernel.c set aside.
FramesAreUsable == \A t \in Threads : held[t] \subseteq Available \ Reserved

Clear == {b \in Blocks : ~bitmap[b]}

\* The count follows the bitmap: whatever a step does to one it does to the
\* other, so the number of free blocks never drifts.
CountFollowsBitmap ==
    [][used_blocks' - used_blocks = Cardinality(Clear) - Cardinality(Clear')]_vars

\* phys_mem_alloc_above may trust the count it reads without the lock: it never
\* says that memory is exhausted while a block in reach is free.
CountCoversReach == MaxBlocks - used_blocks >= Cardinality(FreeInReach)

\* The lock is released on every path: it is set only while a thread is in a
\* critical section.
LockIsReleased == lock => \E t \in Threads : InCriticalSection(t)

\* The failing search is the only path that keeps the lock, and then for good:
\* once a lock is left behind, nothing that could be handed out is free.
LockKeptOnlyWhenExhausted ==
    lock => FreeInReach = {} \/ \E t \in Threads : InCriticalSection(t)

Status(t) ==
    CASE pc[t] \in {"check", "alloc_acquire", "search", "take"} -> "asking"
      [] pc[t] = "alloc_release" -> "served"
      [] pc[t] = "failed" -> "denied"
      [] OTHER -> "outside"

Promise == INSTANCE FrameSpec WITH
    Frames <- Reach,
    started <- Booted,
    free <- FreeInReach,
    status <- [t \in Threads |-> Status(t)]

\* The allocator keeps the promise of mem_manager_phys.h: one owner per frame,
\* and failure only while no frame in reach is free.
KeepsPromise == Promise!Spec
=============================================================================
