--------------------------- MODULE PhysMemProofs ---------------------------
(***************************************************************************)
(* Proofs about PhysMem, for every number of threads, size of memory and   *)
(* of words, and sequence of region calls at boot.                         *)
(***************************************************************************)
EXTENDS PhysMem, FiniteSetTheorems, WellFoundedInduction, TLAPS

\* What the division of the natural numbers gives.
LEMMA DivFacts ==
    ASSUME NEW a \in Nat, NEW d \in Nat \ {0}
    PROVE  /\ a \div d \in Nat /\ a % d \in 0 .. d - 1
           /\ a = d * (a \div d) + (a % d)
OBVIOUS

\* The search of mmap_first_free stays inside the bits that phys_mem_init sets.
LEMMA ReachIsManaged ==
    Reach \subseteq Managed /\ Managed \subseteq Blocks /\ Blocks \subseteq Nat
<1> DEFINE m == BitsPerWord \div BitsPerByte
           q == MaxBlocks \div BitsPerWord
           r == MaxBlocks \div BitsPerByte
           c == ceil_division(Mark, BitsPerWord)
<1>1. /\ MaxBlocks \in Nat /\ TopBlock \in Nat /\ MaxBlocks <= TopBlock /\ Mark \in Nat
      /\ BitsPerByte \in Nat \ {0} /\ BitsPerWord \in Nat \ {0}
      /\ BitsPerWord % BitsPerByte = 0
  BY SizeAssumption
<1>2. m \in Nat /\ BitsPerWord = BitsPerByte * m
  BY <1>1, DivFacts
<1>3. q \in Nat /\ BitsPerWord * q <= MaxBlocks
  BY <1>1, DivFacts
<1>4. r \in Nat /\ BitsPerByte * r <= MaxBlocks /\ MaxBlocks < BitsPerByte * r + BitsPerByte
  BY <1>1, DivFacts
<1>5. c \in Nat
  <2>1. Mark \div BitsPerWord \in Nat
    BY <1>1, DivFacts
  <2> QED BY <2>1 DEF ceil_division
<1> HIDE DEF m, q, r, c
<1>. BitsPerWord * c \in Nat
  BY <1>1, <1>5
<1>6. m * q \in Nat /\ BitsPerWord * q = BitsPerByte * (m * q)
  BY <1>1, <1>2, <1>3
<1>7. m * q <= r
  <2>1. SUFFICES ASSUME r + 1 <= m * q PROVE FALSE
    BY <1>4, <1>6
  <2>2. BitsPerByte * (r + 1) <= BitsPerByte * (m * q)
    BY <1>1, <1>4, <1>6, <2>1
  <2> QED BY <1>1, <1>3, <1>4, <1>6, <2>2
<1>8. BitsPerWord * q <= BitsPerByte * r
  BY <1>1, <1>4, <1>6, <1>7
<1>9. Reach = BitsPerWord * c .. BitsPerWord * q - 1
  BY DEF Reach, c, q
<1>10. Managed = 0 .. BitsPerByte * r - 1
  BY DEF Managed, r
<1>11. Reach \subseteq Managed
  BY <1>1, <1>3, <1>4, <1>5, <1>8, <1>9, <1>10
<1>12. Managed \subseteq Blocks
  BY <1>1, <1>4, <1>10 DEF Blocks
<1>13. Blocks \subseteq Nat
  BY <1>1 DEF Blocks
<1> QED BY <1>11, <1>12, <1>13

\* mmap_first_free returns a free block when there is one in reach.
LEMMA FirstFreeWorks ==
    ASSUME FreeInReach # {}
    PROVE  FirstFree \in FreeInReach
<1>1. FreeInReach \subseteq Nat
  BY ReachIsManaged DEF FreeInReach
<1>2. PICK b \in FreeInReach : \A a \in FreeInReach : ~(<<a, b>> \in OpToRel(<, Nat))
  BY <1>1, NatLessThanWellFounded, WFMin
<1>3. \A a \in FreeInReach : ~(a < b)
  BY <1>1, <1>2 DEF OpToRel
<1>4. \A a \in FreeInReach : b <= a
  BY <1>1, <1>3
<1> QED BY <1>4 DEF FirstFree

-----------------------------------------------------------------------------
(* The count and the bitmap.                                               *)

LEMMA BlocksAreFinite == IsFiniteSet(Blocks)
BY FS_Interval, SizeAssumption DEF Blocks

ClearIn(S) == {b \in S : ~bitmap[b]}

\* Setting clear blocks takes them from the clear blocks of any set.
LEMMA SetCount ==
    ASSUME bitmap \in [Blocks -> BOOLEAN], NEW S \in SUBSET Blocks,
           NEW C \in SUBSET ClearIn(S), SetBits(C, TRUE)
    PROVE  /\ ClearIn(S)' = ClearIn(S) \ C
           /\ Cardinality(ClearIn(S)) \in Nat /\ Cardinality(C) \in Nat
           /\ Cardinality(ClearIn(S)') = Cardinality(ClearIn(S)) - Cardinality(C)
<1>2. IsFiniteSet(ClearIn(S)) /\ IsFiniteSet(C)
  BY BlocksAreFinite, FS_Subset DEF ClearIn
<1>3. ClearIn(S)' = ClearIn(S) \ C
  BY DEF ClearIn, SetBits
<1>4. ClearIn(S) \cap C = C
  OBVIOUS
<1> QED BY <1>2, <1>3, <1>4, FS_Difference, FS_CardinalityType

\* Clearing blocks in use adds those of a set to its clear blocks.
LEMMA ClearCount ==
    ASSUME bitmap \in [Blocks -> BOOLEAN], NEW S \in SUBSET Blocks,
           NEW C \in SUBSET {b \in Blocks : bitmap[b]}, SetBits(C, FALSE)
    PROVE  /\ ClearIn(S)' = ClearIn(S) \cup (C \cap S)
           /\ Cardinality(ClearIn(S)) \in Nat /\ Cardinality(C) \in Nat
           /\ Cardinality(C \cap S) \in Nat /\ Cardinality(C \cap S) <= Cardinality(C)
           /\ Cardinality(ClearIn(S)') = Cardinality(ClearIn(S)) + Cardinality(C \cap S)
<1>2. IsFiniteSet(ClearIn(S)) /\ IsFiniteSet(C)
  BY BlocksAreFinite, FS_Subset DEF ClearIn
<1>3. IsFiniteSet(C \cap S) /\ Cardinality(C \cap S) <= Cardinality(C)
  BY <1>2, FS_Subset
<1>4. ClearIn(S)' = ClearIn(S) \cup (C \cap S)
  BY DEF ClearIn, SetBits
<1>5. ClearIn(S) \cap (C \cap S) = {}
  BY DEF ClearIn
<1>6. Cardinality(ClearIn(S)') = Cardinality(ClearIn(S)) + Cardinality(C \cap S)
  <2> DEFINE A == ClearIn(S)
             B == C \cap S
  <2>1. IsFiniteSet(A) /\ IsFiniteSet(B) /\ Cardinality(A \cap B) = 0
    BY <1>2, <1>3, <1>5, FS_EmptySet
  <2>2. Cardinality(A \cup B) = Cardinality(A) + Cardinality(B) - Cardinality(A \cap B)
    BY <2>1, FS_Union
  <2>3. Cardinality(A) \in Nat /\ Cardinality(B) \in Nat
    BY <2>1, FS_CardinalityType
  <2> QED BY <1>4, <2>1, <2>2, <2>3
<1> QED BY <1>2, <1>3, <1>4, <1>6, FS_CardinalityType

-----------------------------------------------------------------------------
(* The inductive invariant.                                                *)

\* Nobody allocates before boot is over; the block a search found stays free
\* until it is taken; a block that is being given back came from the search and
\* is no longer held.
CallsConsistent ==
    \A t \in Threads :
        /\ ~Booted => pc[t] = "run" /\ held[t] = {}
        /\ pc[t] = "take" => frame[t] \in FreeInReach
        /\ pc[t] \in {"dealloc_acquire", "give"} =>
              frame[t] \in Reach /\ frame[t] \notin held[t]

PhysInv == TypeOK /\ LockExcludes /\ FrameHasOneUser /\ CallsConsistent

\* The region calls are about blocks of the map.
LEMMA BootCallFacts ==
    /\ Len(BootCalls) \in Nat \ {0}
    /\ \A i \in 1 .. Len(BootCalls) :
          /\ BootCalls[i].kind \in {"free", "reserve"}
          /\ Region(BootCalls[i]) \subseteq Blocks
          /\ BootCalls[i].kind = "reserve" => Region(BootCalls[i]) \subseteq Managed
<1> DEFINE Calls == [kind : {"free", "reserve"}, base : Nat, size : Nat]
<1>1. BootCalls \in Seq(Calls) /\ BootCalls # <<>>
  BY BootAssumption
<1>2. \A i \in 1 .. Len(BootCalls) : BootCalls[i] \in Calls
  <2> HIDE DEF Calls
  <2> QED BY <1>1
<1>3. Len(BootCalls) \in Nat \ {0}
  <2> HIDE DEF Calls
  <2> QED BY <1>1
<1>4. \A i \in 1 .. Len(BootCalls) :
         Region(BootCalls[i]) \subseteq IF BootCalls[i].kind = "reserve" THEN Managed ELSE Blocks
  BY BootAssumption
<1>5. \A i \in 1 .. Len(BootCalls) : BootCalls[i].kind \in {"free", "reserve"}
  BY <1>2
<1> QED BY <1>3, <1>4, <1>5, ReachIsManaged

LEMMA InitInvariant == Init => PhysInv
<1> SUFFICES ASSUME Init PROVE PhysInv
  OBVIOUS
<1>1. booted \in 0 .. Len(BootCalls) /\ used_blocks \in Int
  BY BootCallFacts, SizeAssumption DEF Init
<1>2. TypeOK
  BY <1>1 DEF Init, TypeOK, Steps
<1>3. LockExcludes /\ FrameHasOneUser /\ CallsConsistent
  BY DEF Init, LockExcludes, InCriticalSection, AllocBody, DeallocBody,
         FrameHasOneUser, Uses, CallsConsistent
<1> QED BY <1>2, <1>3 DEF PhysInv

\* The region calls of kernel.c keep the invariant: no thread has called yet.
LEMMA BootInvariant == PhysInv /\ Boot => PhysInv'
<1> SUFFICES ASSUME PhysInv, Boot PROVE PhysInv'
  OBVIOUS
<1> DEFINE call == BootCalls[booted + 1]
           freed == Cardinality(Changed(Region(call), TRUE))
           reserved == Cardinality(Changed(Region(call), FALSE))
<1>1. booted \in Nat /\ Len(BootCalls) \in Nat /\ booted < Len(BootCalls)
  BY BootCallFacts DEF Boot, PhysInv, TypeOK
<1>2. Region(call) \subseteq Blocks
  BY <1>1, BootCallFacts
<1>3. freed \in Nat /\ reserved \in Nat
  BY <1>2, BlocksAreFinite, FS_Subset, FS_CardinalityType DEF Changed
<1>4. used_blocks \in Int /\ bitmap \in [Blocks -> BOOLEAN]
  BY DEF PhysInv, TypeOK
<1>5. \A S : SetBits(S, TRUE) \/ SetBits(S, FALSE) => bitmap' \in [Blocks -> BOOLEAN]
  BY <1>4 DEF SetBits
<1>6. phys_mem_free_region(Region(call)) \/ phys_mem_reserve_region(Region(call))
  BY DEF Boot
<1>7. used_blocks' \in Int
  <2>1. used_blocks' = used_blocks - freed \/ used_blocks' = used_blocks + reserved
    BY <1>6, Zenon DEF phys_mem_free_region, phys_mem_reserve_region
  <2> HIDE DEF freed, reserved
  <2> QED BY <1>3, <1>4, <2>1
<1>8. bitmap' \in [Blocks -> BOOLEAN]
  BY <1>5, <1>6 DEF phys_mem_free_region, phys_mem_reserve_region
<1>9. booted' \in 0 .. Len(BootCalls) /\ UNCHANGED <<lock, pc, frame, held>>
  BY <1>1 DEF Boot, thread_vars
<1>10. ~Booted
  BY <1>1 DEF Booted
<1> QED BY <1>7, <1>8, <1>9, <1>10 DEF PhysInv, TypeOK, LockExcludes, InCriticalSection, AllocBody,
         DeallocBody, FrameHasOneUser, Uses, CallsConsistent

\* What a step of a thread does to the types.
LEMMA ThreadType ==
    ASSUME PhysInv, NEW t \in Threads, ThreadStep(t)
    PROVE  TypeOK'
<1> USE DEF TypeOK, Goto, Steps, AllocBody, DeallocBody
<1>1. TypeOK
  BY DEF PhysInv
<1>2. CASE CallAlloc(t) \/ CheckFree(t) \/ FindNothing(t) \/ ReturnFailure(t)
  BY <1>1, <1>2 DEF CallAlloc, CheckFree, FindNothing, ReturnFailure
<1>3. CASE Acquire(t, "alloc_acquire", "search") \/ Acquire(t, "dealloc_acquire", "give")
  BY <1>1, <1>3 DEF Acquire
<1>4. CASE Release(t, "alloc_release") \/ Release(t, "dealloc_release")
  BY <1>1, <1>4 DEF Release
<1>5. CASE FindFrame(t)
  BY <1>1, <1>5, FirstFreeWorks, ReachIsManaged DEF FindFrame, FreeInReach
<1>6. CASE TakeFrame(t)
  BY <1>1, <1>6, ReachIsManaged DEF TakeFrame, PhysInv, CallsConsistent, FreeInReach
<1>7. CASE CallDealloc(t)
  BY <1>1, <1>7, ReachIsManaged DEF CallDealloc
<1>8. CASE GiveFrame(t)
  BY <1>1, <1>8, ReachIsManaged DEF GiveFrame, PhysInv, CallsConsistent
<1> QED BY <1>2, <1>3, <1>4, <1>5, <1>6, <1>7, <1>8 DEF ThreadStep

\* A thread enters a critical section only when it finds the lock clear, and
\* only the thread inside clears it.
LEMMA ThreadLock ==
    ASSUME PhysInv, NEW t \in Threads, ThreadStep(t)
    PROVE  LockExcludes'
<1> USE DEF LockExcludes, InCriticalSection, AllocBody, DeallocBody, Goto
<1>1. TypeOK /\ LockExcludes
  BY DEF PhysInv
<1>2. CASE CallAlloc(t) \/ CheckFree(t) \/ FindNothing(t) \/ ReturnFailure(t)
  BY <1>1, <1>2 DEF CallAlloc, CheckFree, FindNothing, ReturnFailure, TypeOK
<1>3. CASE Acquire(t, "alloc_acquire", "search") \/ Acquire(t, "dealloc_acquire", "give")
  BY <1>1, <1>3 DEF Acquire, TypeOK
<1>4. CASE Release(t, "alloc_release") \/ Release(t, "dealloc_release")
  BY <1>1, <1>4 DEF Release, TypeOK
<1>5. CASE FindFrame(t) \/ TakeFrame(t) \/ CallDealloc(t) \/ GiveFrame(t)
  BY <1>1, <1>5 DEF FindFrame, TakeFrame, CallDealloc, GiveFrame, TypeOK
<1> QED BY <1>2, <1>3, <1>4, <1>5 DEF ThreadStep

\* A block in use stays marked, and nobody else takes it: only a thread in its
\* critical section changes a bit, that of a block a search found clear or of
\* the block it gives back itself.
LEMMA ThreadFrames ==
    ASSUME PhysInv, NEW t \in Threads, ThreadStep(t)
    PROVE  FrameHasOneUser'
<1> USE DEF FrameHasOneUser, Uses, Goto
<1>1. TypeOK /\ FrameHasOneUser /\ CallsConsistent
  BY DEF PhysInv
<1>2. CASE CallAlloc(t) \/ CheckFree(t) \/ FindNothing(t) \/ ReturnFailure(t)
  BY <1>1, <1>2 DEF CallAlloc, CheckFree, FindNothing, ReturnFailure, TypeOK
<1>3. CASE Acquire(t, "alloc_acquire", "search")
  BY <1>1, <1>3 DEF Acquire, TypeOK
<1>4. CASE Acquire(t, "dealloc_acquire", "give")
  BY <1>1, <1>4 DEF Acquire, TypeOK
<1>5. CASE Release(t, "alloc_release") \/ Release(t, "dealloc_release")
  BY <1>1, <1>5 DEF Release, TypeOK
<1>6. CASE FindFrame(t)
  BY <1>1, <1>6 DEF FindFrame, TypeOK
<1>7. CASE TakeFrame(t)
  <2>1. frame[t] \in Blocks /\ ~bitmap[frame[t]]
    BY <1>1, <1>7, ReachIsManaged DEF TakeFrame, CallsConsistent, FreeInReach
  <2>2. \A u \in Threads : ~Uses(u, frame[t])
    BY <1>1, <2>1
  <2>3. \A u \in Threads, b \in Blocks : Uses(u, b)' => Uses(u, b) \/ (u = t /\ b = frame[t])
    BY <1>1, <1>7 DEF TakeFrame, TypeOK
  <2>4. \A b \in Blocks : bitmap'[b] <=> (bitmap[b] \/ b = frame[t])
    BY <1>1, <1>7 DEF TakeFrame, TypeOK
  <2> HIDE DEF Uses
  <2> QED BY <1>1, <2>2, <2>3, <2>4
<1>8. CASE CallDealloc(t)
  <2>1. \A u \in Threads, b \in Blocks : Uses(u, b)' => Uses(u, b)
    BY <1>1, <1>8 DEF CallDealloc, TypeOK
  <2>2. bitmap' = bitmap
    BY <1>8 DEF CallDealloc
  <2> HIDE DEF Uses
  <2> QED BY <1>1, <2>1, <2>2
<1>9. CASE GiveFrame(t)
  <2>1. frame[t] \in Blocks /\ Uses(t, frame[t])
    BY <1>1, <1>9, ReachIsManaged DEF GiveFrame, CallsConsistent
  <2>2. \A u \in Threads : Uses(u, frame[t]) => u = t
    BY <1>1, <2>1
  <2>3. \A u \in Threads, b \in Blocks : Uses(u, b)' => Uses(u, b) /\ ~(u = t /\ b = frame[t])
    BY <1>1, <1>9 DEF GiveFrame, CallsConsistent, TypeOK
  <2>4. \A b \in Blocks : bitmap'[b] <=> (bitmap[b] /\ b # frame[t])
    BY <1>1, <1>9 DEF GiveFrame, TypeOK
  <2> HIDE DEF Uses
  <2> QED BY <1>1, <2>2, <2>3, <2>4
<1> QED BY <1>2, <1>3, <1>4, <1>5, <1>6, <1>7, <1>8, <1>9 DEF ThreadStep

\* What a search found is not taken by another thread before the lock is
\* released.
LEMMA ThreadCalls ==
    ASSUME PhysInv, NEW t \in Threads, ThreadStep(t)
    PROVE  CallsConsistent'
<1> USE DEF CallsConsistent, Booted, Goto
<1>1. TypeOK /\ LockExcludes /\ FrameHasOneUser /\ CallsConsistent
  BY DEF PhysInv
<1>2. CASE CallAlloc(t) \/ CheckFree(t) \/ FindNothing(t) \/ ReturnFailure(t)
  BY <1>1, <1>2 DEF CallAlloc, CheckFree, FindNothing, ReturnFailure, TypeOK, FreeInReach
<1>3. CASE Acquire(t, "alloc_acquire", "search")
  BY <1>1, <1>3 DEF Acquire, TypeOK, FreeInReach
<1>4. CASE Acquire(t, "dealloc_acquire", "give")
  BY <1>1, <1>4 DEF Acquire, TypeOK, FreeInReach
<1>5. CASE Release(t, "alloc_release") \/ Release(t, "dealloc_release")
  BY <1>1, <1>5 DEF Release, TypeOK, FreeInReach
<1>6. CASE FindFrame(t)
  <2>1. FirstFree \in FreeInReach /\ UNCHANGED FreeInReach
    BY <1>6, FirstFreeWorks DEF FindFrame, FreeInReach
  <2> QED BY <1>1, <1>6, <2>1 DEF FindFrame, TypeOK
<1>7. CASE CallDealloc(t)
  <2>1. UNCHANGED FreeInReach
    BY <1>7 DEF CallDealloc, FreeInReach
  <2> QED BY <1>1, <1>7, <2>1 DEF CallDealloc, TypeOK
<1>8. CASE TakeFrame(t)
  <2>1. \A u \in Threads : pc'[u] # "take"
    BY <1>1, <1>8 DEF TakeFrame, TypeOK, LockExcludes, InCriticalSection, AllocBody
  <2>2. frame[t] \in Blocks /\ ~bitmap[frame[t]]
    BY <1>1, <1>8, ReachIsManaged DEF TakeFrame, FreeInReach
  <2>3. \A u \in Threads : pc[u] \in {"dealloc_acquire", "give"} => frame[u] # frame[t]
    BY <1>1, <2>2 DEF FrameHasOneUser, Uses
  <2> QED BY <1>1, <1>8, <2>1, <2>3 DEF TakeFrame, TypeOK
<1>9. CASE GiveFrame(t)
  <2>1. \A u \in Threads : pc'[u] # "take"
    BY <1>1, <1>9 DEF GiveFrame, TypeOK, LockExcludes, InCriticalSection, AllocBody, DeallocBody
  <2> QED BY <1>1, <1>9, <2>1 DEF GiveFrame, TypeOK
<1> QED BY <1>2, <1>3, <1>4, <1>5, <1>6, <1>7, <1>8, <1>9 DEF ThreadStep

LEMMA NextInvariant == PhysInv /\ [Next]_vars => PhysInv'
<1> SUFFICES ASSUME PhysInv, [Next]_vars PROVE PhysInv'
  OBVIOUS
<1>1. CASE Boot
  BY <1>1, BootInvariant
<1>2. ASSUME NEW t \in Threads, ThreadStep(t) PROVE PhysInv'
  BY <1>2, ThreadType, ThreadLock, ThreadFrames, ThreadCalls DEF PhysInv
<1>3. CASE UNCHANGED vars
  BY <1>3 DEF vars, thread_vars, PhysInv, TypeOK, LockExcludes, InCriticalSection,
      FrameHasOneUser, Uses, CallsConsistent, Booted, FreeInReach
<1> QED BY <1>1, <1>2, <1>3 DEF Next

LEMMA PhysInvariant == Spec => []PhysInv
BY InitInvariant, NextInvariant, PTL DEF Spec

\* The static variables of mem_manager_phys.c and the locals of its callers
\* keep their types, whatever the size of memory and the map.
THEOREM TypeCorrect == Spec => []TypeOK
<1>1. PhysInv => TypeOK
  BY DEF PhysInv
<1> QED BY <1>1, PhysInvariant, PTL

\* phys_mem_lock keeps two calls of any number of cpus apart.
THEOREM LockIsExclusive == Spec => []LockExcludes
<1>1. PhysInv => LockExcludes
  BY DEF PhysInv
<1> QED BY <1>1, PhysInvariant, PTL

\* phys_mem_alloc_above never hands out a block that somebody uses.
THEOREM FramesHaveOneUser == Spec => []FrameHasOneUser
<1>1. PhysInv => FrameHasOneUser
  BY DEF PhysInv
<1> QED BY <1>1, PhysInvariant, PTL

-----------------------------------------------------------------------------
(* The count follows the bitmap.                                           *)

\* A step sets blocks that are clear, or clears blocks that are set, and counts
\* each of them.
Counted ==
    \/ UNCHANGED <<bitmap, used_blocks>>
    \/ \E C \in SUBSET ClearIn(Managed) :
          SetBits(C, TRUE) /\ used_blocks' = used_blocks + Cardinality(C)
    \/ \E C \in SUBSET {b \in Blocks : bitmap[b]} :
          SetBits(C, FALSE) /\ used_blocks' = used_blocks - Cardinality(C)

LEMMA BootCounts == PhysInv /\ Boot => Counted
<1> SUFFICES ASSUME PhysInv, Boot PROVE Counted
  OBVIOUS
<1> DEFINE call == BootCalls[booted + 1]
<1>1. /\ booted + 1 \in 1 .. Len(BootCalls)
      /\ call.kind \in {"free", "reserve"} /\ Region(call) \subseteq Blocks
      /\ call.kind = "reserve" => Region(call) \subseteq Managed
  BY BootCallFacts DEF Boot, PhysInv, TypeOK
<1>2. /\ Changed(Region(call), TRUE) \subseteq {b \in Region(call) : bitmap[b]}
      /\ Changed(Region(call), FALSE) \subseteq {b \in Region(call) : ~bitmap[b]}
  <2>1. \A b \in Nat : b <= b
    OBVIOUS
  <2>2. Region(call) \subseteq Nat
    BY <1>1, ReachIsManaged, Zenon
  <2>3. \A b \in Region(call) : b <= b
    BY <2>1, <2>2, Zenon
  <2> QED BY <2>3, Zenon DEF Changed
<1>3. CASE call.kind = "free"
  <2>1. phys_mem_free_region(Region(call))
    BY <1>3 DEF Boot
  <2>2. Changed(Region(call), TRUE) \in SUBSET {b \in Blocks : bitmap[b]}
    BY <1>1, <1>2
  <2> QED BY <2>1, <2>2, Zenon DEF phys_mem_free_region, Counted
<1>4. CASE call.kind = "reserve"
  <2>1. phys_mem_reserve_region(Region(call))
    BY <1>4 DEF Boot
  <2>2. Changed(Region(call), FALSE) \in SUBSET ClearIn(Managed)
    BY <1>1, <1>2, <1>4 DEF ClearIn
  <2> QED BY <2>1, <2>2, Zenon DEF phys_mem_reserve_region, Counted
<1> QED BY <1>1, <1>3, <1>4

LEMMA ThreadCounts ==
    ASSUME PhysInv, NEW t \in Threads, ThreadStep(t)
    PROVE  Counted
<1>1. TypeOK /\ FrameHasOneUser /\ CallsConsistent
  BY DEF PhysInv
<1>2. CASE TakeFrame(t)
  <2>1. frame[t] \in ClearIn(Managed) /\ frame[t] \in Blocks
    BY <1>1, <1>2, ReachIsManaged DEF TakeFrame, CallsConsistent, FreeInReach, ClearIn
  <2>2. SetBits({frame[t]}, TRUE)
    BY <1>1, <1>2, <2>1 DEF TakeFrame, SetBits, TypeOK
  <2>3. used_blocks' = used_blocks + Cardinality({frame[t]})
    BY <1>2, FS_Singleton DEF TakeFrame
  <2> QED BY <2>1, <2>2, <2>3 DEF Counted
<1>3. CASE GiveFrame(t)
  <2>1. frame[t] \in Blocks /\ bitmap[frame[t]]
    BY <1>1, <1>3, ReachIsManaged DEF GiveFrame, CallsConsistent, FrameHasOneUser, Uses
  <2>2. SetBits({frame[t]}, FALSE)
    BY <1>1, <1>3, <2>1 DEF GiveFrame, SetBits, TypeOK
  <2>3. used_blocks' = used_blocks - Cardinality({frame[t]})
    BY <1>3, FS_Singleton DEF GiveFrame
  <2>4. {frame[t]} \in SUBSET {b \in Blocks : bitmap[b]}
    BY <2>1
  <2> QED BY <2>2, <2>3, <2>4 DEF Counted
<1>4. CASE UNCHANGED <<bitmap, used_blocks>>
  BY <1>4 DEF Counted
<1>5. ASSUME ~TakeFrame(t), ~GiveFrame(t) PROVE UNCHANGED <<bitmap, used_blocks>>
  BY <1>5 DEF ThreadStep, CallAlloc, CheckFree, Acquire, FindFrame, FindNothing,
      ReturnFailure, CallDealloc, Release
<1> QED BY <1>2, <1>3, <1>4, <1>5

LEMMA NextCounts == PhysInv /\ [Next]_vars => Counted
BY BootCounts, ThreadCounts DEF Next, vars, Counted

\* The number of free blocks never drifts from the bitmap.
THEOREM CountIsExact == Spec => CountFollowsBitmap
<1>1. PhysInv /\ Counted =>
         used_blocks' - used_blocks = Cardinality(Clear) - Cardinality(Clear')
  <2> SUFFICES ASSUME PhysInv, Counted
               PROVE  used_blocks' - used_blocks = Cardinality(Clear) - Cardinality(Clear')
    OBVIOUS
  <2>1. bitmap \in [Blocks -> BOOLEAN] /\ used_blocks \in Int
    BY DEF PhysInv, TypeOK
  <2>2. Clear = ClearIn(Blocks) /\ Clear' = ClearIn(Blocks)'
    BY DEF Clear, ClearIn
  <2>3. CASE UNCHANGED <<bitmap, used_blocks>>
    <3>1. Clear' = Clear
      BY <2>3 DEF Clear
    <3>2. Cardinality(Clear) \in Nat
      BY BlocksAreFinite, FS_Subset, FS_CardinalityType DEF Clear
    <3> QED BY <2>1, <2>3, <3>1, <3>2
  <2>4. ASSUME NEW C \in SUBSET ClearIn(Managed), SetBits(C, TRUE),
               used_blocks' = used_blocks + Cardinality(C)
        PROVE  used_blocks' - used_blocks = Cardinality(Clear) - Cardinality(Clear')
    <3>1. C \in SUBSET ClearIn(Blocks)
      BY ReachIsManaged DEF ClearIn
    <3>2. /\ Cardinality(Clear) \in Nat /\ Cardinality(C) \in Nat
          /\ Cardinality(Clear') = Cardinality(Clear) - Cardinality(C)
      BY <2>1, <2>2, <2>4, <3>1, SetCount
    <3> QED BY <2>1, <2>4, <3>2
  <2>5. ASSUME NEW C \in SUBSET {b \in Blocks : bitmap[b]}, SetBits(C, FALSE),
               used_blocks' = used_blocks - Cardinality(C)
        PROVE  used_blocks' - used_blocks = Cardinality(Clear) - Cardinality(Clear')
    <3>1. C \cap Blocks = C
      OBVIOUS
    <3>2. /\ Cardinality(Clear) \in Nat /\ Cardinality(C) \in Nat
          /\ Cardinality(Clear') = Cardinality(Clear) + Cardinality(C)
      BY <2>1, <2>2, <2>5, <3>1, ClearCount
    <3> QED BY <2>1, <2>5, <3>2
  <2> QED BY <2>3, <2>4, <2>5 DEF Counted
<1>2. PhysInv /\ [Next]_vars =>
         [used_blocks' - used_blocks = Cardinality(Clear) - Cardinality(Clear')]_vars
  BY <1>1, NextCounts
<1> QED BY <1>2, PhysInvariant, PTL DEF Spec, CountFollowsBitmap

\* What the count says is free covers the clear bits that phys_mem_init set.
CountInv == MaxBlocks - used_blocks >= Cardinality(ClearIn(Managed))

LEMMA InitCount == Init => CountInv
<1> SUFFICES ASSUME Init PROVE CountInv
  OBVIOUS
<1>1. ClearIn(Managed) = {}
  BY DEF Init, ClearIn
<1> QED BY <1>1, FS_EmptySet, SizeAssumption DEF Init, CountInv

LEMMA NextCount == PhysInv /\ CountInv /\ [Next]_vars => CountInv'
<1> SUFFICES ASSUME PhysInv, CountInv, Counted PROVE CountInv'
  BY NextCounts
<1> DEFINE free == Cardinality(ClearIn(Managed))
<1>1. bitmap \in [Blocks -> BOOLEAN] /\ used_blocks \in Int /\ MaxBlocks \in Nat
  BY SizeAssumption DEF PhysInv, TypeOK
<1>2. CASE UNCHANGED <<bitmap, used_blocks>>
  BY <1>2 DEF CountInv, ClearIn
<1>3. ASSUME NEW C \in SUBSET ClearIn(Managed), SetBits(C, TRUE),
             used_blocks' = used_blocks + Cardinality(C)
      PROVE  CountInv'
  <2>1. Managed \in SUBSET Blocks
    BY ReachIsManaged
  <2>2. free \in Nat /\ Cardinality(C) \in Nat /\ free' = free - Cardinality(C)
    BY <1>1, <1>3, <2>1, SetCount
  <2> QED BY <1>1, <1>3, <2>2 DEF CountInv
<1>4. ASSUME NEW C \in SUBSET {b \in Blocks : bitmap[b]}, SetBits(C, FALSE),
             used_blocks' = used_blocks - Cardinality(C)
      PROVE  CountInv'
  <2>1. Managed \in SUBSET Blocks
    BY ReachIsManaged
  <2>2. /\ free \in Nat /\ Cardinality(C) \in Nat /\ Cardinality(C \cap Managed) \in Nat
        /\ Cardinality(C \cap Managed) <= Cardinality(C)
        /\ free' = free + Cardinality(C \cap Managed)
    BY <1>1, <1>4, <2>1, ClearCount
  <2> QED BY <1>1, <1>4, <2>2 DEF CountInv
<1> QED BY <1>2, <1>3, <1>4 DEF Counted

LEMMA CountInvariant == Spec => [](PhysInv /\ CountInv)
BY InitInvariant, InitCount, NextInvariant, NextCount, PTL DEF Spec

LEMMA CountCovers == PhysInv /\ CountInv => CountCoversReach
<1> SUFFICES ASSUME PhysInv, CountInv PROVE CountCoversReach
  OBVIOUS
<1>1. IsFiniteSet(ClearIn(Managed))
  BY BlocksAreFinite, ReachIsManaged, FS_Subset DEF ClearIn
<1>2. FreeInReach \in SUBSET ClearIn(Managed)
  BY ReachIsManaged DEF FreeInReach, ClearIn
<1>3. /\ Cardinality(FreeInReach) <= Cardinality(ClearIn(Managed))
      /\ Cardinality(FreeInReach) \in Nat /\ Cardinality(ClearIn(Managed)) \in Nat
  BY <1>1, <1>2, FS_Subset, FS_CardinalityType
<1>4. used_blocks \in Int /\ MaxBlocks \in Nat
  BY SizeAssumption DEF PhysInv, TypeOK
<1> QED BY <1>3, <1>4 DEF CountInv, CountCoversReach

\* The test of the count that phys_mem_alloc_above makes without the lock never
\* refuses a thread while a block in reach is free.
THEOREM CountMayBeTrusted == Spec => []CountCoversReach
BY CountInvariant, CountCovers, PTL

-----------------------------------------------------------------------------
(* The allocator implements FrameSpec.                                     *)

LEMMA InitRefines == Init => Promise!Init
<1> SUFFICES ASSUME Init PROVE Promise!Init
  OBVIOUS
<1>1. Booted = FALSE
  BY BootCallFacts DEF Init, Booted
<1>2. [t \in Threads |-> Status(t)] = [t \in Threads |-> "outside"]
  BY DEF Init, Status
<1>3. FreeInReach \in SUBSET Reach
  BY DEF FreeInReach
<1> QED BY <1>1, <1>2, <1>3 DEF Init, Promise!Init

\* A step of a thread changes its own status only.
LEMMA StatusChange ==
    ASSUME TypeOK, NEW t \in Threads, NEW step \in Steps, Goto(t, step)
    PROVE  [u \in Threads |-> Status(u)]' =
              [[u \in Threads |-> Status(u)] EXCEPT ![t] = Status(t)']
<1>1. \A u \in Threads : u # t => Status(u)' = Status(u)
  BY DEF TypeOK, Goto, Status
<1> QED BY <1>1

\* A thread that reads a count of no free blocks may give up.
LEMMA EmptyWhenNoneCounted ==
    ASSUME TypeOK, CountCoversReach, used_blocks = MaxBlocks
    PROVE  FreeInReach = {}
<1>1. IsFiniteSet(FreeInReach)
  BY BlocksAreFinite, ReachIsManaged, FS_Subset DEF FreeInReach
<1>2. Cardinality(FreeInReach) \in Nat /\ Cardinality(FreeInReach) <= 0
  BY <1>1, FS_CardinalityType, SizeAssumption DEF CountCoversReach
<1> QED BY <1>1, <1>2, FS_EmptySet

LEMMA BootRefines == PhysInv /\ Boot => Promise!Setup
<1> SUFFICES ASSUME PhysInv, Boot PROVE Promise!Setup
  OBVIOUS
<1>1. Booted = FALSE /\ Booted' \in BOOLEAN
  BY BootCallFacts DEF Boot, Booted, PhysInv, TypeOK
<1>2. FreeInReach' \in SUBSET Reach
  BY DEF FreeInReach
<1>3. UNCHANGED <<held, [t \in Threads |-> Status(t)]>>
  BY DEF Boot, thread_vars, Status
<1> QED BY <1>1, <1>2, <1>3 DEF Promise!Setup

LEMMA ThreadRefines ==
    ASSUME PhysInv, CountCoversReach, NEW t \in Threads, ThreadStep(t)
    PROVE  Promise!Next \/ UNCHANGED Promise!vars
<1> DEFINE status == [u \in Threads |-> Status(u)]
           Becomes(s) == status' = [status EXCEPT ![t] = s]
<1>1. TypeOK /\ FrameHasOneUser /\ CallsConsistent
  BY DEF PhysInv
<1>2. UNCHANGED booted => UNCHANGED Booted
  BY DEF Booted
<1>3. UNCHANGED bitmap => UNCHANGED FreeInReach
  BY DEF FreeInReach
<1>4. status[t] = Status(t) /\ status = [status EXCEPT ![t] = status[t]]
  OBVIOUS
<1>5. \A step \in Steps : Goto(t, step) => Becomes(Status(t)')
  BY <1>1, StatusChange
<1> USE DEF Steps, AllocBody, DeallocBody
<1>6. CASE CallAlloc(t)
  <2>1. Status(t) = "outside" /\ Status(t)' = "asking"
    BY <1>1, <1>6 DEF CallAlloc, Goto, Status, TypeOK
  <2>2. Promise!Ask(t)
    BY <1>2, <1>3, <1>4, <1>5, <1>6, <2>1 DEF CallAlloc, Promise!Ask
  <2> QED BY <2>2 DEF Promise!Next
<1>7. CASE CheckFree(t)
  <2>1. CASE used_blocks = MaxBlocks
    <3>1. FreeInReach = {}
      BY <1>1, <2>1, EmptyWhenNoneCounted
    <3>2. Status(t) = "asking" /\ Status(t)' = "denied"
      BY <1>1, <1>7, <2>1 DEF CheckFree, Goto, Status, TypeOK
    <3>3. Promise!Deny(t)
      BY <1>2, <1>3, <1>4, <1>5, <1>7, <2>1, <3>1, <3>2 DEF CheckFree, Promise!Deny
    <3> QED BY <3>3 DEF Promise!Next
  <2>2. CASE used_blocks # MaxBlocks
    <3>1. Status(t)' = Status(t)
      BY <1>1, <1>7, <2>2 DEF CheckFree, Goto, Status, TypeOK
    <3> QED BY <1>2, <1>3, <1>4, <1>5, <1>7, <2>2, <3>1 DEF CheckFree, Promise!vars
  <2> QED BY <2>1, <2>2
<1>8. CASE Acquire(t, "alloc_acquire", "search") \/ Acquire(t, "dealloc_acquire", "give")
  <2>1. Status(t)' = Status(t)
    BY <1>1, <1>8 DEF Acquire, Goto, Status, TypeOK
  <2> QED BY <1>2, <1>3, <1>4, <1>5, <1>8, <2>1 DEF Acquire, Promise!vars
<1>9. CASE FindFrame(t)
  <2>1. Status(t)' = Status(t)
    BY <1>1, <1>9 DEF FindFrame, Goto, Status, TypeOK
  <2> QED BY <1>2, <1>3, <1>4, <1>5, <1>9, <2>1 DEF FindFrame, Promise!vars
<1>10. CASE TakeFrame(t)
  <2>1. frame[t] \in FreeInReach /\ frame[t] \in Reach
    BY <1>1, <1>10 DEF TakeFrame, CallsConsistent, FreeInReach
  <2>2. FreeInReach' = FreeInReach \ {frame[t]}
    BY <1>1, <1>10, ReachIsManaged DEF TakeFrame, FreeInReach, TypeOK
  <2>3. Status(t) = "asking" /\ Status(t)' = "served"
    BY <1>1, <1>10 DEF TakeFrame, Goto, Status, TypeOK
  <2>4. Promise!Grant(t, frame[t])
    BY <1>2, <1>4, <1>5, <1>10, <2>1, <2>2, <2>3 DEF TakeFrame, Promise!Grant
  <2> QED BY <2>1, <2>4 DEF Promise!Next
<1>11. CASE FindNothing(t)
  <2>1. Status(t) = "asking" /\ Status(t)' = "denied"
    BY <1>1, <1>11 DEF FindNothing, Goto, Status, TypeOK
  <2>2. Promise!Deny(t)
    BY <1>2, <1>3, <1>4, <1>5, <1>11, <2>1 DEF FindNothing, Promise!Deny
  <2> QED BY <2>2 DEF Promise!Next
<1>12. CASE ReturnFailure(t) \/ Release(t, "alloc_release")
  <2>1. Status(t) \in {"served", "denied"} /\ Status(t)' = "outside"
    BY <1>1, <1>12 DEF ReturnFailure, Release, Goto, Status, TypeOK
  <2>2. Promise!Return(t)
    BY <1>2, <1>3, <1>4, <1>5, <1>12, <2>1 DEF ReturnFailure, Release, Promise!Return
  <2> QED BY <2>2 DEF Promise!Next
<1>13. CASE CallDealloc(t)
  <2>1. PICK f \in held[t] : held' = [held EXCEPT ![t] = @ \ {f}]
    BY <1>13 DEF CallDealloc
  <2>2. f \in Reach
    BY <1>1, <2>1 DEF TypeOK
  <2>3. Status(t) = "outside" /\ Status(t)' = "outside"
    BY <1>1, <1>13 DEF CallDealloc, Goto, Status, TypeOK
  <2>4. Promise!GiveUp(t, f)
    BY <1>2, <1>3, <1>4, <1>5, <1>13, <2>1, <2>3 DEF CallDealloc, Promise!GiveUp
  <2> QED BY <2>2, <2>4 DEF Promise!Next
<1>14. CASE GiveFrame(t)
  <2>1. frame[t] \in Reach /\ frame[t] \in Blocks
    BY <1>1, <1>14, ReachIsManaged DEF GiveFrame, CallsConsistent
  <2>2. FreeInReach' = FreeInReach \cup {frame[t]}
    BY <1>1, <1>14, <2>1, ReachIsManaged DEF GiveFrame, FreeInReach, TypeOK
  <2>3. \A u \in Threads : frame[t] \notin held[u]
    BY <1>1, <1>14, <2>1 DEF GiveFrame, CallsConsistent, FrameHasOneUser, Uses
  <2>4. Booted /\ Status(t)' = Status(t)
    BY <1>1, <1>14 DEF GiveFrame, CallsConsistent, Goto, Status, TypeOK
  <2>5. Promise!Reuse(frame[t])
    BY <1>2, <1>4, <1>5, <1>14, <2>2, <2>3, <2>4 DEF GiveFrame, Promise!Reuse
  <2> QED BY <2>1, <2>4, <2>5 DEF Promise!Next
<1>15. CASE Release(t, "dealloc_release")
  <2>1. Status(t)' = Status(t)
    BY <1>1, <1>15 DEF Release, Goto, Status, TypeOK
  <2> QED BY <1>2, <1>3, <1>4, <1>5, <1>15, <2>1 DEF Release, Promise!vars
<1> QED BY <1>6, <1>7, <1>8, <1>9, <1>10, <1>11, <1>12, <1>13, <1>14, <1>15 DEF ThreadStep

\* A frame is handed to one thread at a time, and a thread is refused only while
\* no frame in reach is free: what mem_manager_phys.h promises.
THEOREM AllocatorKeepsPromise == Spec => KeepsPromise
<1>1. PhysInv /\ CountInv /\ [Next]_vars => [Promise!Next]_Promise!vars
  <2> SUFFICES ASSUME PhysInv, CountInv, [Next]_vars
               PROVE  Promise!Next \/ UNCHANGED Promise!vars
    OBVIOUS
  <2>1. CASE Boot
    BY <2>1, BootRefines DEF Promise!Next
  <2>2. ASSUME NEW t \in Threads, ThreadStep(t)
        PROVE  Promise!Next \/ UNCHANGED Promise!vars
    BY <2>2, CountCovers, ThreadRefines
  <2>3. CASE UNCHANGED vars
    BY <2>3 DEF vars, thread_vars, Promise!vars, Booted, FreeInReach, Status
  <2> QED BY <2>1, <2>2, <2>3 DEF Next
<1> QED BY <1>1, InitRefines, CountInvariant, PTL DEF Spec, KeepsPromise, Promise!Spec

-----------------------------------------------------------------------------
(* The lock that stays set.                                                *)

\* Before boot is over nobody has taken the lock.  From then on it is set by a
\* thread in its critical section, or was left set by a search that failed:
\* nobody can change the bitmap any more.
LockInv == (~Booted => ~lock) /\ LockKeptOnlyWhenExhausted

LEMMA NextLock == PhysInv /\ LockInv /\ [Next]_vars => LockInv'
<1> SUFFICES ASSUME PhysInv, LockInv, [Next]_vars PROVE LockInv'
  OBVIOUS
<1> USE DEF LockInv, LockKeptOnlyWhenExhausted, InCriticalSection, AllocBody, DeallocBody, Goto
<1>1. TypeOK /\ LockExcludes /\ CallsConsistent
  BY DEF PhysInv
<1>2. CASE Boot
  <2>1. booted # Len(BootCalls) /\ lock' = lock
    BY <1>1, <1>2, BootCallFacts DEF Boot, TypeOK
  <2> QED BY <2>1 DEF Booted
<1>3. ASSUME NEW t \in Threads, ThreadStep(t) PROVE LockInv'
  <2>1. pc[t] # "run" \/ held[t] # {} => Booted
    BY <1>1 DEF CallsConsistent
  <2>2. UNCHANGED booted => UNCHANGED Booted
    BY DEF Booted
  <2>3. UNCHANGED bitmap => UNCHANGED FreeInReach
    BY DEF FreeInReach
  <2> HIDE DEF Booted, FreeInReach
  <2>4. CASE CallAlloc(t) \/ CheckFree(t) \/ ReturnFailure(t) \/ CallDealloc(t)
    BY <1>1, <2>1, <2>2, <2>3, <2>4 DEF CallAlloc, CheckFree, ReturnFailure, CallDealloc, TypeOK
  <2>5. CASE Acquire(t, "alloc_acquire", "search") \/ Acquire(t, "dealloc_acquire", "give")
    BY <1>1, <2>1, <2>2, <2>5 DEF Acquire, TypeOK
  <2>6. CASE FindFrame(t) \/ TakeFrame(t) \/ GiveFrame(t)
    BY <1>1, <2>1, <2>2, <2>6 DEF FindFrame, TakeFrame, GiveFrame, TypeOK
  <2>7. CASE FindNothing(t)
    BY <1>1, <2>1, <2>2, <2>3, <2>7 DEF FindNothing, TypeOK
  <2>8. CASE Release(t, "alloc_release") \/ Release(t, "dealloc_release")
    BY <1>1, <2>1, <2>2, <2>8 DEF Release, TypeOK
  <2> QED BY <1>3, <2>4, <2>5, <2>6, <2>7, <2>8 DEF ThreadStep
<1>4. CASE UNCHANGED vars
  BY <1>4 DEF vars, thread_vars, Booted, FreeInReach
<1> QED BY <1>2, <1>3, <1>4 DEF Next

\* The search that fails is the only path of mem_manager_phys.c that leaves the
\* lock set, and it does so only when there is nothing left to hand out.
THEOREM LockIsKeptByFailure == Spec => []LockKeptOnlyWhenExhausted
<1>1. Init => LockInv
  BY DEF Init, LockInv, LockKeptOnlyWhenExhausted
<1>2. LockInv => LockKeptOnlyWhenExhausted
  BY DEF LockInv
<1> QED BY <1>1, <1>2, NextLock, PhysInvariant, PTL DEF Spec

-----------------------------------------------------------------------------
(* What is free is available memory.                                       *)

\* The blocks that the first n region calls are about.
Covers(kind, n, blk) ==
    \E i \in 1 .. n : BootCalls[i].kind = kind /\ blk \in Region(BootCalls[i])

\* During boot the bitmap is what the calls so far say, block by block.
BootMap ==
    ~Booted => \A blk \in Managed :
        ~bitmap[blk] <=> Covers("free", booted, blk) /\ ~Covers("reserve", booted, blk)

\* Afterwards a block that is free or used is available memory.
UseMap ==
    Booted => \A blk \in Managed :
        ~bitmap[blk] \/ (\E t \in Threads : Uses(t, blk)) => blk \in Available \ Reserved

MapInv == BootMap /\ UseMap

LEMMA CoversAll ==
    \A blk : /\ blk \in Available <=> Covers("free", Len(BootCalls), blk)
             /\ blk \in Reserved <=> Covers("reserve", Len(BootCalls), blk)
<1>1. DOMAIN BootCalls = 1 .. Len(BootCalls)
  <2> DEFINE Calls == [kind : {"free", "reserve"}, base : Nat, size : Nat]
  <2>1. BootCalls \in Seq(Calls)
    BY BootAssumption
  <2> HIDE DEF Calls
  <2> QED BY <2>1
<1> QED BY <1>1 DEF Available, Reserved, Covers

\* What an orderly map means for a call: no earlier call of its kind named one of
\* its blocks, and a block to reserve was freed before.
LEMMA CallOfOrderlyMap ==
    ASSUME OrderlyMap, NEW n \in 1 .. Len(BootCalls), NEW blk \in Region(BootCalls[n])
    PROVE  /\ ~Covers(BootCalls[n].kind, n - 1, blk)
           /\ BootCalls[n].kind = "free" => ~Covers("reserve", n - 1, blk)
           /\ BootCalls[n].kind = "reserve" => Covers("free", n - 1, blk)
<1>1. DOMAIN BootCalls = 1 .. Len(BootCalls) /\ Len(BootCalls) \in Nat
  <2> DEFINE Calls == [kind : {"free", "reserve"}, base : Nat, size : Nat]
  <2>1. BootCalls \in Seq(Calls)
    BY BootAssumption
  <2> HIDE DEF Calls
  <2> QED BY <2>1
<1>2. \A i \in 1 .. n - 1 : i \in DOMAIN BootCalls /\ i < n
  BY <1>1
<1>3. n \in DOMAIN BootCalls
  BY <1>1
<1>4. ~Covers(BootCalls[n].kind, n - 1, blk)
  <2> SUFFICES ASSUME NEW i \in 1 .. n - 1, BootCalls[i].kind = BootCalls[n].kind,
                      blk \in Region(BootCalls[i])
               PROVE  FALSE
    BY DEF Covers
  <2>1. i # n
    BY <1>2
  <2> QED BY <1>2, <1>3, <2>1 DEF OrderlyMap
<1>5. ASSUME BootCalls[n].kind = "free" PROVE ~Covers("reserve", n - 1, blk)
  <2> SUFFICES ASSUME NEW i \in 1 .. n - 1, BootCalls[i].kind = "reserve" PROVE FALSE
    BY DEF Covers
  <2>1. n < i
    BY <1>2, <1>3, <1>5 DEF OrderlyMap
  <2> QED BY <1>1, <2>1
<1>6. ASSUME BootCalls[n].kind = "reserve" PROVE Covers("free", n - 1, blk)
  <2>1. blk \in Available
    BY <1>3, <1>6 DEF OrderlyMap
  <2>2. PICK i \in 1 .. Len(BootCalls) : BootCalls[i].kind = "free" /\ blk \in Region(BootCalls[i])
    BY <2>1, CoversAll DEF Covers
  <2>3. i < n
    BY <1>1, <1>3, <1>6, <2>2 DEF OrderlyMap
  <2>4. i \in 1 .. n - 1
    BY <1>1, <2>3
  <2> QED BY <2>2, <2>4 DEF Covers
<1> QED BY <1>4, <1>5, <1>6

\* A region call changes all the managed blocks of its region when it can change
\* each of them.
LEMMA ChangesAll ==
    ASSUME NEW n \in 1 .. Len(BootCalls), NEW in_use \in BOOLEAN,
           \A blk \in Managed \cap Region(BootCalls[n]) : bitmap[blk] = in_use
    PROVE  Managed \cap Changed(Region(BootCalls[n]), in_use) = Managed \cap Region(BootCalls[n])
<1>1. Region(BootCalls[n]) \subseteq Nat
  BY BootCallFacts, ReachIsManaged
<1>2. \A blk \in Managed, a \in Nat : a <= blk => a \in Managed
  <2> DEFINE top == BitsPerByte * (MaxBlocks \div BitsPerByte)
  <2>1. top \in Int
    <3>1. MaxBlocks \div BitsPerByte \in Nat /\ BitsPerByte \in Nat
      BY DivFacts, SizeAssumption
    <3> QED BY <3>1
  <2>2. Managed = 0 .. top - 1
    BY DEF Managed
  <2> HIDE DEF top
  <2> QED BY <2>1, <2>2
<1> QED BY <1>1, <1>2 DEF Changed

LEMMA BootMaps ==
    ASSUME OrderlyMap, PhysInv, BootMap, Boot
    PROVE  \A blk \in Managed :
              (~bitmap[blk])' <=> Covers("free", booted', blk) /\ ~Covers("reserve", booted', blk)
<1> DEFINE n == booted + 1
           call == BootCalls[n]
<1>1. /\ ~Booted /\ booted' = n /\ n \in 1 .. Len(BootCalls)
      /\ booted \in Nat /\ n - 1 = booted
      /\ call.kind \in {"free", "reserve"}
  BY BootCallFacts DEF Boot, Booted, PhysInv, TypeOK
<1>2. \A kind, blk : Covers(kind, n, blk) <=>
         Covers(kind, booted, blk) \/ (call.kind = kind /\ blk \in Region(call))
  <2>1. \A i : i \in 1 .. n <=> i \in 1 .. booted \/ i = n
    BY <1>1
  <2> QED BY <2>1 DEF Covers
<1>3. \A blk \in Managed :
         ~bitmap[blk] <=> Covers("free", booted, blk) /\ ~Covers("reserve", booted, blk)
  BY <1>1 DEF BootMap
<1>4. Managed \subseteq Blocks /\ bitmap \in [Blocks -> BOOLEAN]
  BY ReachIsManaged DEF PhysInv, TypeOK
<1>5. \A blk \in Region(call) : /\ ~Covers(call.kind, booted, blk)
                                /\ call.kind = "free" => ~Covers("reserve", booted, blk)
                                /\ call.kind = "reserve" => Covers("free", booted, blk)
  BY <1>1, CallOfOrderlyMap
<1>6. CASE call.kind = "free"
  <2>1. \A blk \in Managed \cap Region(call) : bitmap[blk] = TRUE
    BY <1>3, <1>4, <1>5, <1>6
  <2>2. Managed \cap Changed(Region(call), TRUE) = Managed \cap Region(call)
    BY <1>1, <2>1, ChangesAll
  <2>3. SetBits(Changed(Region(call), TRUE), FALSE)
    BY <1>6 DEF Boot, phys_mem_free_region
  <2>4. \A blk \in Managed : (~bitmap[blk])' <=> ~bitmap[blk] \/ blk \in Region(call)
    BY <1>4, <2>2, <2>3 DEF SetBits
  <2> HIDE DEF n, call
  <2> QED BY <1>1, <1>2, <1>3, <1>5, <1>6, <2>4
<1>7. CASE call.kind = "reserve"
  <2>1. \A blk \in Managed \cap Region(call) : bitmap[blk] = FALSE
    BY <1>3, <1>4, <1>5, <1>7
  <2>2. Managed \cap Changed(Region(call), FALSE) = Managed \cap Region(call)
    BY <1>1, <2>1, ChangesAll
  <2>3. SetBits(Changed(Region(call), FALSE), TRUE)
    BY <1>7 DEF Boot, phys_mem_reserve_region
  <2>4. \A blk \in Managed : (~bitmap[blk])' <=> ~bitmap[blk] /\ blk \notin Region(call)
    BY <1>4, <2>2, <2>3 DEF SetBits
  <2> HIDE DEF n, call
  <2> QED BY <1>1, <1>2, <1>3, <1>5, <1>7, <2>4
<1> QED BY <1>1, <1>6, <1>7

LEMMA InitMap == Init => MapInv
<1> SUFFICES ASSUME Init PROVE MapInv
  OBVIOUS
<1>1. \A kind, blk : ~Covers(kind, 0, blk)
  BY DEF Covers
<1>2. ~Booted
  BY BootCallFacts DEF Init, Booted
<1> QED BY <1>1, <1>2 DEF Init, MapInv, BootMap, UseMap

LEMMA NextMap ==
    ASSUME OrderlyMap, PhysInv, PhysInv', MapInv, [Next]_vars
    PROVE  MapInv'
<1>1. TypeOK /\ CallsConsistent /\ CallsConsistent'
  BY DEF PhysInv
<1>2. CASE Boot
  <2>1. \A blk \in Managed :
           (~bitmap[blk])' <=> Covers("free", booted', blk) /\ ~Covers("reserve", booted', blk)
    BY <1>2, BootMaps DEF MapInv
  <2>2. \A t \in Threads, blk \in Managed : ~Uses(t, blk)'
    BY <1>1, <1>2, BootCallFacts DEF Boot, thread_vars, Booted, CallsConsistent, Uses, TypeOK
  <2>3. BootMap'
    BY <2>1 DEF BootMap
  <2>4. UseMap'
    BY <2>1, <2>2, CoversAll DEF UseMap, Booted
  <2> QED BY <2>3, <2>4 DEF MapInv
<1>3. ASSUME NEW t \in Threads, ThreadStep(t) PROVE MapInv'
  <2>1. booted' = booted
    BY <1>3 DEF ThreadStep, CallAlloc, CheckFree, Acquire, FindFrame, TakeFrame, FindNothing,
                ReturnFailure, CallDealloc, GiveFrame, Release
  <2>2. Booted /\ Booted'
    <3>1. pc[t] # "run" \/ held[t] # {} \/ Booted
      BY <1>3 DEF ThreadStep, CallAlloc, CheckFree, Acquire, FindFrame, TakeFrame, FindNothing,
                  ReturnFailure, CallDealloc, GiveFrame, Release
    <3> QED BY <1>1, <2>1, <3>1 DEF CallsConsistent, Booted
  <2>3. \A blk \in Managed : ~bitmap'[blk] \/ (\E u \in Threads : Uses(u, blk)') =>
            ~bitmap[blk] \/ \E u \in Threads : Uses(u, blk)
    <3> USE DEF Uses, Goto
    <3>1. CASE TakeFrame(t)
      <4>1. frame[t] \in FreeInReach /\ frame[t] \in Managed
        BY <1>1, <3>1, ReachIsManaged DEF TakeFrame, CallsConsistent, FreeInReach
      <4> QED BY <1>1, <3>1, <4>1, ReachIsManaged DEF TakeFrame, TypeOK, FreeInReach
    <3>2. CASE GiveFrame(t)
      BY <1>1, <3>2, ReachIsManaged DEF GiveFrame, TypeOK
    <3>3. CASE CallDealloc(t)
      BY <1>1, <3>3 DEF CallDealloc, TypeOK
    <3>4. CASE Acquire(t, "alloc_acquire", "search") \/ Acquire(t, "dealloc_acquire", "give")
      BY <1>1, <3>4 DEF Acquire, TypeOK
    <3>5. CASE Release(t, "alloc_release") \/ Release(t, "dealloc_release")
      BY <1>1, <3>5 DEF Release, TypeOK
    <3>6. CASE CallAlloc(t) \/ CheckFree(t) \/ FindFrame(t) \/ FindNothing(t) \/ ReturnFailure(t)
      BY <1>1, <3>6 DEF CallAlloc, CheckFree, FindFrame, FindNothing, ReturnFailure, TypeOK
    <3> QED BY <1>3, <3>1, <3>2, <3>3, <3>4, <3>5, <3>6 DEF ThreadStep
  <2> QED BY <2>2, <2>3 DEF MapInv, BootMap, UseMap
<1>4. CASE UNCHANGED vars
  BY <1>4 DEF vars, thread_vars, MapInv, BootMap, UseMap, Uses, Booted
<1> QED BY <1>2, <1>3, <1>4 DEF Next

\* On an orderly map threads get available memory only, and never a block of the
\* kernel or of the bitmap: no region call of kernel.c stops short, and whoever
\* clears a bit later was given that block before.
THEOREM FramesComeFromTheMap == OrderlyMap => (Spec => []FramesAreUsable)
<1> SUFFICES ASSUME OrderlyMap PROVE Spec => []FramesAreUsable
  OBVIOUS
<1>1. PhysInv /\ MapInv => FramesAreUsable
  <2> SUFFICES ASSUME PhysInv, MapInv, NEW t \in Threads, NEW f \in held[t]
               PROVE  f \in Available \ Reserved
    BY DEF FramesAreUsable
  <2>1. f \in Managed /\ Uses(t, f)
    BY ReachIsManaged DEF PhysInv, TypeOK, Uses
  <2>2. Booted
    BY DEF PhysInv, CallsConsistent
  <2> QED BY <2>1, <2>2 DEF MapInv, UseMap
<1>2. PhysInv /\ PhysInv' /\ MapInv /\ [Next]_vars => MapInv'
  BY NextMap
<1> QED BY <1>1, <1>2, InitMap, PhysInvariant, PTL DEF Spec
=============================================================================
