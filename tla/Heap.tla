-------------------------------- MODULE Heap --------------------------------
(***************************************************************************)
(* A heap of heap_manager.c: operators on a heap h, which is heap_t with   *)
(* the blocks in the order of their next pointers.  A block starts with a  *)
(* header; its size is what lies between its header and the next block.    *)
(* Addresses and sizes are numbers.                                        *)
(***************************************************************************)
EXTENDS Integers, Sequences
LOCAL INSTANCE SequencesExt

CONSTANTS
    HEADER,          \* sizeof(heap_block_t)
    WORD             \* sizeof(uint32_t), what heap_alloc_a stores before its result

ASSUME HeapAssumption == {HEADER, WORD} \subseteq Nat \ {0}

Block(at, used) == [at |-> at, used |-> used]

\* start and size are those of what the heap_t itself leaves of the memory.
heap_create(start, size) ==
    [start_address |-> start, size |-> size,
     blocks |-> <<Block(start, FALSE)>>, current_blocks |-> 1]

heap_block_t_size(h, i) ==
    (IF i = Len(h.blocks) THEN h.start_address + h.size ELSE h.blocks[i + 1].at)
        - h.blocks[i].at - HEADER

heap_is_next_unused(h, i) == i < Len(h.blocks) /\ ~h.blocks[i + 1].used

\* Block i takes its next into itself.
heap_front_merge_block(h, i) ==
    [h EXCEPT !.blocks = RemoveAt(@, i + 1), !.current_blocks = @ - 1]

RECURSIVE heap_front_merge_size_fit(_, _, _)
heap_front_merge_size_fit(h, i, size) ==
    IF size > heap_block_t_size(h, i) /\ heap_is_next_unused(h, i)
    THEN heap_front_merge_size_fit(heap_front_merge_block(h, i), i, size)
    ELSE h

\* Faulty variant: the size of the new block is not looked at.
SplitAlways(h, i, size) ==
    [h EXCEPT !.blocks = InsertAt(@, i + 1, Block(@[i].at + HEADER + size, FALSE)),
              !.current_blocks = @ + 1]

\* What a block has beyond the request becomes a block of its own, if a header
\* fits into it.
Split(h, i, size) ==
    IF size + HEADER < heap_block_t_size(h, i)
    THEN [h EXCEPT !.blocks = InsertAt(@, i + 1, Block(@[i].at + HEADER + size, FALSE)),
                   !.current_blocks = @ + 1]
    ELSE h

\* The walk of heap_alloc from block i on: the heap it leaves and its answer,
\* 0 for none.  What was merged in vain remains merged.
RECURSIVE FirstFit(_, _, _)
FirstFit(h, i, size) ==
    IF i > Len(h.blocks) THEN [heap |-> h, at |-> 0]
    ELSE IF h.blocks[i].used THEN FirstFit(h, i + 1, size)
    ELSE LET merged == heap_front_merge_size_fit(h, i, size)
         IN  IF size <= heap_block_t_size(merged, i)
             THEN [heap |-> [Split(merged, i, size) EXCEPT !.blocks[i].used = TRUE],
                   at |-> h.blocks[i].at + HEADER]
             ELSE FirstFit(merged, i + 1, size)

heap_alloc(h, size) ==
    IF size = 0 THEN [heap |-> h, at |-> 0] ELSE FirstFit(h, 1, size)

\* Of an address that heap_alloc answered; the block is merged with its next only.
heap_free(h, address) ==
    LET i == SelectInSeq(h.blocks, LAMBDA b : b.at + HEADER = address)
        freed == [h EXCEPT !.blocks[i].used = FALSE]
    IN  IF heap_is_next_unused(h, i) THEN heap_front_merge_block(freed, i) ELSE freed

RECURSIVE DefragFrom(_, _)
DefragFrom(h, i) ==
    IF i > Len(h.blocks) THEN h
    ELSE IF ~h.blocks[i].used /\ heap_is_next_unused(h, i)
         THEN DefragFrom(heap_front_merge_block(h, i), i)
         ELSE DefragFrom(h, i + 1)

heap_defrag(h) == DefragFrom(h, 1)

-----------------------------------------------------------------------------
(* Aligned allocation: some padding, the word that says how much, and then *)
(* what the caller gets.                                                   *)

Padding(mem, align) ==
    IF (mem + WORD) % align = 0 THEN 0 ELSE align - ((mem + WORD) % align)

\* The answer of heap_alloc is not tested: of 0 it makes an address that is not.
heap_alloc_a(h, size, align) ==
    LET mem == heap_alloc(h, size + align + WORD)
        padding == Padding(mem.at, align)
    IN  [heap |-> mem.heap, at |-> mem.at + WORD + padding, padding |-> padding]

heap_free_a(h, address, padding) == heap_free(h, address - padding - WORD)

-----------------------------------------------------------------------------
(* What a heap promises, for a set of objects [block, at, size]: the        *)
(* address heap_alloc answered, that of the object, and its size.           *)

\* The blocks lie one behind the other within the heap, and are as many as counted.
BlocksTile(h) ==
    /\ h.current_blocks = Len(h.blocks)
    /\ h.blocks[1].at = h.start_address
    /\ \A i \in DOMAIN h.blocks : heap_block_t_size(h, i) > 0

\* Every object has a used block of its own and lies within it.
ObjectsHaveBlocks(h, objects) ==
    /\ \A o \in objects : \E i \in DOMAIN h.blocks :
           /\ h.blocks[i].used
           /\ h.blocks[i].at + HEADER = o.block
           /\ o.block <= o.at
           /\ o.at + o.size <= o.block + heap_block_t_size(h, i)
    /\ \A o, p \in objects : o.block = p.block => o = p
    /\ \A i \in DOMAIN h.blocks : h.blocks[i].used =>
           \E o \in objects : o.block = h.blocks[i].at + HEADER

\* A heap that refuses a request of some size has no two or more neighbouring
\* unused blocks that would have sufficed.
RefusalIsRight(h, size) ==
    \A i, j \in DOMAIN h.blocks :
        i <= j /\ (\A k \in i .. j : ~h.blocks[k].used) =>
            size > h.blocks[j].at + HEADER + heap_block_t_size(h, j) - h.blocks[i].at - HEADER
=============================================================================
