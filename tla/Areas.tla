------------------------------- MODULE Areas -------------------------------
(***************************************************************************)
(* The memory areas of a process, vm_contract.c and vm_area.c: a balanced  *)
(* search tree of address intervals, whose nodes come from the kernel heap *)
(* (module Heap), which has other users too.                               *)
(*                                                                         *)
(* A node is a record; `at` is its address on the heap.  Pointers from     *)
(* node to node are nested records, null is Nil.                           *)
(***************************************************************************)
EXTENDS Heap

CONSTANTS
    Nil,
    HEAP_START,
    HEAP_SIZE,
    NODE_SIZE,       \* sizeof(vm_area_node_t)
    PAGE_SIZE,
    LastAddress,
    Requests,        \* the pairs of first and last address that areas are asked for
    OtherSizes       \* the requests of the other users of the heap

Addresses == 0 .. LastAddress

ASSUME AreasAssumption ==
    /\ {HEAP_START, HEAP_SIZE, NODE_SIZE, PAGE_SIZE} \subseteq Nat \ {0}
    /\ HEADER < HEAP_SIZE
    /\ LastAddress \in Nat
    /\ Requests \subseteq Addresses \X Addresses
    /\ OtherSizes \subseteq Nat \ {0}

VARIABLES
    kheap,
    root,      \* vm_contract_t
    other,     \* what another user of the heap holds: [block, at, size], or Nil
    fault      \* history: a null pointer was followed, what comes then is undefined

vars == <<kheap, root, other, fault>>

Init ==
    /\ kheap = heap_create(HEAP_START, HEAP_SIZE)
    /\ root = Nil
    /\ other = Nil
    /\ fault = FALSE

-----------------------------------------------------------------------------
(* vm_area.c                                                               *)

vm_area_check_bounds(start, end) ==
    start % PAGE_SIZE = 0 /\ (end - start + 1) % PAGE_SIZE = 0 /\ start < end

\* Bad bounds make an area of zeros.
vm_area_create(start, end) ==
    IF vm_area_check_bounds(start, end)
    THEN [start_addr |-> start, end_addr |-> end]
    ELSE [start_addr |-> 0, end_addr |-> 0]

vm_area_intersect(a, b) == ~(a.end_addr < b.start_addr \/ a.start_addr > b.end_addr)

vm_area_is_ok(a) == a.start_addr < a.end_addr

-----------------------------------------------------------------------------
(* The tree: vm_contract.c                                                 *)

get_node_height(n) == IF n = Nil THEN 0 ELSE n.height
get_node_max(n) == IF n = Nil THEN 0 ELSE n.max
get_node_balance(n) ==
    IF n = Nil THEN 0 ELSE get_node_height(n.left) - get_node_height(n.right)

Larger(a, b) == IF a > b THEN a ELSE b

\* Faulty variant: the maximum of the subtree is not computed anew.
RefreshHeight(n) ==
    [n EXCEPT !.height = 1 + Larger(get_node_height(n.left), get_node_height(n.right))]

\* Height and maximum of a node, from its children and its area.
Refresh(n) ==
    [n EXCEPT
        !.height = 1 + Larger(get_node_height(n.left), get_node_height(n.right)),
        !.max = Larger(n.area.end_addr, Larger(get_node_max(n.left), get_node_max(n.right)))]

avl_rotate_right(n) ==
    Refresh([n.left EXCEPT !.right = Refresh([n EXCEPT !.left = n.left.right])])

\* Faulty variant: the subtree between the two nodes is dropped.
RotateLeftDrops(n) ==
    Refresh([n.right EXCEPT !.left = Refresh([n EXCEPT !.right = Nil])])

avl_rotate_left(n) ==
    Refresh([n.right EXCEPT !.left = Refresh([n EXCEPT !.right = n.right.left])])

vm_area_node_create(area, at) ==
    [left |-> Nil, right |-> Nil, height |-> 1, max |-> area.end_addr,
     area |-> area, at |-> at]

\* What avl_insert does to a node on its way back, after an insertion of key below.
RebalanceInserted(n, key) ==
    LET balance == get_node_balance(n) IN
    CASE balance > 1 /\ key < n.left.area.start_addr -> avl_rotate_right(n)
      [] balance < -1 /\ key > n.right.area.start_addr -> avl_rotate_left(n)
      [] balance > 1 /\ key > n.left.area.start_addr ->
             avl_rotate_right([n EXCEPT !.left = avl_rotate_left(@)])
      [] balance < -1 /\ key < n.right.area.start_addr ->
             avl_rotate_left([n EXCEPT !.right = avl_rotate_right(@)])
      [] OTHER -> n

RECURSIVE avl_insert(_, _)
avl_insert(tree, ins) ==
    LET key == ins.area.start_addr IN
    IF tree = Nil THEN ins
    ELSE IF key = tree.area.start_addr THEN tree
    ELSE RebalanceInserted(
             Refresh(IF key < tree.area.start_addr
                     THEN [tree EXCEPT !.left = avl_insert(@, ins)]
                     ELSE [tree EXCEPT !.right = avl_insert(@, ins)]),
             key)

RECURSIVE get_node_min_value(_)
get_node_min_value(n) == IF n.left = Nil THEN n ELSE get_node_min_value(n.left)

\* What avl_remove does to a node on its way back; r is the subtree, the node
\* taken out of it and whether a null pointer was followed.  The last case turns
\* the left child instead of the node.
RebalanceRemoved(r) ==
    LET n == Refresh(r.tree)
        balance == get_node_balance(n) IN
    IF r.fault \/ r.tree = Nil THEN r
    ELSE CASE balance > 1 /\ get_node_balance(n.left) >= 0 ->
                  [r EXCEPT !.tree = avl_rotate_right(n)]
           [] balance > 1 /\ get_node_balance(n.left) < 0 ->
                  [r EXCEPT !.tree = avl_rotate_right([n EXCEPT !.left = avl_rotate_left(@)])]
           [] balance < -1 /\ get_node_balance(n.right) <= 0 ->
                  [r EXCEPT !.tree = avl_rotate_left(n)]
           [] balance < -1 /\ get_node_balance(n.right) > 0 ->
                  IF n.left = Nil \/ n.left.right = Nil
                  THEN [r EXCEPT !.fault = TRUE]
                  ELSE [r EXCEPT !.tree = avl_rotate_left(n.left)]
           [] OTHER -> [r EXCEPT !.tree = n]

\* A node with one child takes over what the child holds, and the memory of the
\* child is given up; with two children it takes over the area of the least node
\* on its right.
RECURSIVE avl_remove(_, _)
avl_remove(tree, key) ==
    IF tree = Nil THEN [tree |-> Nil, removed |-> 0, fault |-> FALSE]
    ELSE RebalanceRemoved(
        IF key < tree.area.start_addr
        THEN LET r == avl_remove(tree.left, key) IN [r EXCEPT !.tree = [tree EXCEPT !.left = r.tree]]
        ELSE IF key > tree.area.start_addr
        THEN LET r == avl_remove(tree.right, key) IN [r EXCEPT !.tree = [tree EXCEPT !.right = r.tree]]
        ELSE IF tree.left # Nil /\ tree.right # Nil
        THEN LET area == get_node_min_value(tree.right).area
                 r == avl_remove(tree.right, area.start_addr)
             IN  [r EXCEPT !.tree = [tree EXCEPT !.area = area, !.right = r.tree]]
        ELSE LET child == IF tree.left # Nil THEN tree.left ELSE tree.right
             IN  [tree |-> IF child = Nil THEN Nil ELSE [child EXCEPT !.at = tree.at],
                  removed |-> IF child = Nil THEN tree.at ELSE child.at,
                  fault |-> FALSE])

\* The node that intersects with an area, or Nil.
RECURSIVE interval_intersect(_, _)
interval_intersect(n, area) ==
    IF n = Nil \/ vm_area_intersect(n.area, area) THEN n
    ELSE IF n.left # Nil /\ get_node_max(n.left) >= area.start_addr
    THEN interval_intersect(n.left, area)
    ELSE interval_intersect(n.right, area)

vm_contract_find_area(address) ==
    interval_intersect(root, [start_addr |-> address, end_addr |-> address])

-----------------------------------------------------------------------------
(* The calls.  A refused call changes nothing but what heap_alloc merged.  *)

vm_contract_add_area(start, end) ==
    LET area == vm_area_create(start, end)
        mem == heap_alloc(kheap, NODE_SIZE) IN
    /\ ~fault
    /\ vm_area_is_ok(area)
    /\ interval_intersect(root, area) = Nil
    /\ kheap' = mem.heap
    /\ root' = IF mem.at = 0 THEN root
               ELSE avl_insert(root, vm_area_node_create(area, mem.at))
    /\ UNCHANGED <<other, fault>>

vm_contract_remove_area(start) ==
    LET r == avl_remove(root, start) IN
    /\ ~fault
    /\ root' = r.tree
    /\ fault' = r.fault
    /\ kheap' = IF r.removed = 0 \/ r.fault THEN kheap ELSE heap_free(kheap, r.removed)
    /\ UNCHANGED other

\* The other users of the heap: one object, plain or aligned.
AllocOther(size) ==
    LET mem == heap_alloc(kheap, size) IN
    /\ ~fault
    /\ other = Nil
    /\ kheap' = mem.heap
    /\ other' = IF mem.at = 0 THEN Nil
                ELSE [block |-> mem.at, at |-> mem.at, size |-> size, padding |-> Nil]
    /\ UNCHANGED <<root, fault>>

\* Platform shows what becomes of an aligned request that is refused.
AllocOtherAligned(size, align) ==
    LET mem == heap_alloc_a(kheap, size, align) IN
    /\ ~fault
    /\ other = Nil
    /\ heap_alloc(kheap, size + align + WORD).at # 0
    /\ kheap' = mem.heap
    /\ other' = [block |-> mem.at - mem.padding - WORD, at |-> mem.at, size |-> size,
                 padding |-> mem.padding]
    /\ UNCHANGED <<root, fault>>

FreeOther ==
    /\ ~fault
    /\ other # Nil
    /\ kheap' = IF other.padding = Nil THEN heap_free(kheap, other.at)
                ELSE heap_free_a(kheap, other.at, other.padding)
    /\ other' = Nil
    /\ UNCHANGED <<root, fault>>

Defrag ==
    /\ ~fault
    /\ kheap' = heap_defrag(kheap)
    /\ UNCHANGED <<root, other, fault>>

Next ==
    \/ \E r \in Requests : vm_contract_add_area(r[1], r[2])
    \/ \E start \in Addresses : vm_contract_remove_area(start)
    \/ \E size \in OtherSizes : AllocOther(size) \/ AllocOtherAligned(size, WORD)
    \/ FreeOther
    \/ Defrag

Spec == Init /\ [][Next]_vars

-----------------------------------------------------------------------------
(* Properties.                                                             *)

RECURSIVE NodesOf(_)
NodesOf(n) == IF n = Nil THEN {} ELSE {n} \cup NodesOf(n.left) \cup NodesOf(n.right)

AreasOf(n) == {m.area : m \in NodesOf(n)}

TypeOK ==
    /\ \A i \in DOMAIN kheap.blocks :
           kheap.blocks[i].at \in Nat /\ kheap.blocks[i].used \in BOOLEAN
    /\ \A n \in NodesOf(root) :
           /\ vm_area_check_bounds(n.area.start_addr, n.area.end_addr)
           /\ n.max \in Addresses
    /\ fault \in BOOLEAN

Objects ==
    {[block |-> n.at, at |-> n.at, size |-> NODE_SIZE] : n \in NodesOf(root)} \cup
    (IF other = Nil THEN {} ELSE {[block |-> other.block, at |-> other.at, size |-> other.size]})

\* heap_manager.c: blocks tile the heap, every node and every object of others
\* lies in a used block of its own, no used block is forgotten, and a request
\* is refused only if no run of unused blocks would do.
HeapIsSound ==
    ~fault =>
        /\ BlocksTile(kheap)
        /\ ObjectsHaveBlocks(kheap, Objects)
        /\ \A size \in {NODE_SIZE} \cup OtherSizes :
               heap_alloc(kheap, size).at = 0 => RefusalIsRight(kheap, size)

\* vm_contract_find_area finds the area that contains an address whenever there
\* is one, on a path of the tree that is never longer than balance allows.
FindIsExact ==
    ~fault =>
        /\ TypeOK
        /\ \A n \in NodesOf(root) :
               /\ get_node_balance(n) \in -1 .. 1
               /\ n.height = Refresh(n).height
        /\ \A address \in Addresses :
               LET found == vm_contract_find_area(address)
                   there == {a \in AreasOf(root) : a.start_addr <= address /\ address <= a.end_addr}
               IN  IF found = Nil THEN there = {} ELSE there = {found.area}

RequestedAreas == {a \in {vm_area_create(r[1], r[2]) : r \in Requests} : vm_area_is_ok(a)}

Promise == INSTANCE AreaSpec WITH areas <- AreasOf(root), Area <- RequestedAreas

\* Whatever the tree turns and the heap refuses, the areas are a set that the
\* calls change by the area they were asked for, unless a null pointer is followed.
\* (From about ten areas on, which the instances have not, vm_contract.c:188 can
\* turn a left child that exists, and then it loses areas instead.)
KeepsPromise == Promise!Init /\ [][fault' \/ Promise!Next]_(AreasOf(root))

\* vm_contract.c:188: taking an area out never follows a null pointer.
RemovalIsSafe == ~fault
=============================================================================
