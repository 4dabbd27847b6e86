--------------------------- MODULE VirtMemProofs ---------------------------
(***************************************************************************)
(* Theorems about VirtMem: whatever the processors' calls of alloc_perm do  *)
(* to each other, a frame has one use, a new table translates nothing, and *)
(* every address space has the kernel's tables; while calls do not overlap *)
(* no frame is lost and VirtMem implements AddressSpace.                   *)
(*                                                                         *)
(* The inductive invariant has one part per data structure.  CallInv: what *)
(* a thread at each step of alloc_perm holds.  DirectoryInv: the directory *)
(* in use and the entry each thread is working on.  UseInv: the uses of a  *)
(* frame, one at most, in a form without sets of tuples.  CleanInv: what   *)
(* may become a table holds only junk.  SpaceInv: nobody creates a table   *)
(* where another address space has one.  CallsInv: while calls do not      *)
(* overlap, the cursor is ahead of all pages given, and a page is given    *)
(* exactly if its entry names a frame.                                     *)
(***************************************************************************)
EXTENDS VirtMem, FiniteSetTheorems, WellFoundedInduction, TLAPS

Slots == Index \ {Self, Foreign}

\* The directory entry, and the entry of its table, that page v is reached by
Dir(v) == virt_mem_get_page_table_index(v)
Pos(v) == virt_mem_get_page_index(v)

\* Nothing has been cloned: every frame is free, and no call has been made.
Fresh ==
    /\ free = Frames /\ spaces = {} /\ ~started /\ mem_current = 0
    /\ \A f \in Frames : \A i \in Index : mem[f][i] = JunkEntry
    /\ \A t \in Threads : owned[t] = {} /\ (t # Bsp => pc[t] = "idle")
    /\ \A t \in Threads : frame[t] = NoFrame /\ table[t] = NoFrame

HasFrame == {"find", "table", "install", "mark", "clear", "write"}
Creates == {"table", "install", "mark", "clear"}

CallInv ==
    /\ cr3 = NoFrame => Fresh
    /\ cr3 = NoFrame <=> pc[Bsp] = "init"
    /\ \A t \in Threads : pc[t] = "init" => t = Bsp
    /\ ~started => /\ ~overlapped
                   /\ \A t \in Threads \ {Bsp} : pc[t] = "idle" /\ owned[t] = {}
    /\ mem_current = 0 \/ mem_current >= FirstPage
    /\ \A t \in Threads :
          /\ InCall(t) => mem_current >= FirstPage /\ page[t] \in FirstPage .. MaxPage - 1
          /\ pc[t] = "store" => loaded[t] >= FirstPage
          /\ pc[t] \in HasFrame => frame[t] \in Frames
          /\ pc[t] \in {"init", "idle", "load", "store", "alloc"} => frame[t] = NoFrame
          /\ pc[t] = "install" => table[t] \in Frames
          /\ owned[t] \subseteq FirstPage .. MaxPage - 1

DirectoryInv ==
    cr3 # NoFrame =>
        /\ mem[cr3][Self] = Entry(cr3)
        /\ cr3 \notin spaces
        /\ \A t \in Threads :
              /\ pc[t] \in {"mark", "clear", "write"} => mem[cr3][Dir(page[t])].frame \in Frames
              /\ pc[t] \in {"clear", "write"} => mem[cr3][Dir(page[t])].present
        /\ \A d \in DOMAIN InitialTables :
              /\ mem[cr3][d].present
              /\ \A i \in Index : InitialTables[d][i].present /\ d * PER_TABLE + i < FirstPage =>
                    mem[mem[cr3][d].frame][i] = InitialTables[d][i]
              /\ \A t \in Threads : pc[t] \in Creates => Dir(page[t]) # d

\* Frame f is used in the way k by a (and c).
Use(f, k, a, c) ==
    \/ k = "directory" /\ a = 0 /\ c = 0 /\ f \in spaces \cup {cr3}
    \/ k = "table" /\ a \in Slots /\ c = 0 /\ mem[cr3][a].frame = f
    \/ k = "page" /\ a \in Slots /\ c \in Index /\ mem[cr3][a].frame \in Frames
                  /\ mem[mem[cr3][a].frame][c].frame = f
    \/ k = "phys" /\ a \in Threads /\ c = 0 /\ frame[a] = f
    \/ k = "table_phys" /\ a \in Threads /\ c = 0 /\ table[a] = f /\ pc[a] = "install"

UseInv ==
    cr3 # NoFrame => \A f \in Frames :
        /\ \A k, a, c, l, b, e : Use(f, k, a, c) /\ Use(f, l, b, e) => k = l /\ a = b /\ c = e
        /\ f \in free => \A k, a, c : ~Use(f, k, a, c)

\* f is free, or someone's frame or page: it may be a table one day.
MayBeTable(f) ==
    \/ f \in free
    \/ \E d \in TableSlots : \E i \in Index : mem[mem[cr3][d].frame][i].frame = f
    \/ \E t \in Threads : frame[t] = f
    \/ \E t \in Threads : table[t] = f /\ pc[t] = "install"

CleanInv ==
    cr3 # NoFrame => \A f \in Frames : MayBeTable(f) =>
        \A i \in Index : mem[f][i] = JunkEntry

SpaceInv ==
    \A s \in spaces : \A d \in Slots : mem[s][d].present =>
        \A t \in Threads : pc[t] \in Creates => Dir(page[t]) # d

\* Of calls that do not overlap there is one at a time.
OneCall == \A t, u \in Threads : InCall(t) /\ InCall(u) => t = u

\* The cursor is at the page of call t, then behind it; those given are below.
CursorOf(t) ==
    /\ pc[t] \in {"load", "store"} => mem_current = page[t]
    /\ pc[t] = "store" => loaded[t] = page[t]
    /\ pc[t] \notin {"load", "store"} => mem_current = page[t] + 1
    /\ \A u \in Threads : \A v \in owned[u] : v < page[t]

\* Call t creates a table because there was none, and no page of it was given.
NewTableOf(t) ==
    /\ pc[t] \in Creates => \A u \in Threads : \A v \in owned[u] : Dir(v) # Dir(page[t])
    /\ pc[t] \in {"table", "install"} => ~mem[cr3][Dir(page[t])].present

CursorInv == \A t \in Threads : InCall(t) => CursorOf(t)
NewTableInv == \A t \in Threads : NewTableOf(t)

GivenInv ==
    /\ \A t \in Threads : \A v \in owned[t] :
          /\ v < mem_current
          /\ mem[cr3][Dir(v)].present
          /\ mem[mem[cr3][Dir(v)].frame][Pos(v)].present
          /\ mem[mem[cr3][Dir(v)].frame][Pos(v)].frame \in Frames
    /\ \A t, u \in Threads : \A v \in owned[t] : v \in owned[u] => t = u

\* Page number d * PER_TABLE + i was given to a thread.
Given(d, i) == \E t \in Threads : \E v \in owned[t] : Dir(v) = d /\ Pos(v) = i

MappedInv ==
    \A d \in TableSlots :
        /\ ~mem[cr3][d].present => \E t \in Threads : pc[t] = "mark" /\ Dir(page[t]) = d
        /\ \A i \in Index : mem[mem[cr3][d].frame][i].frame \in Frames => Given(d, i)

CallsInv ==
    cr3 # NoFrame /\ ~overlapped =>
        OneCall /\ CursorInv /\ NewTableInv /\ GivenInv /\ MappedInv

Inv ==
    /\ TypeOK /\ CallInv /\ DirectoryInv /\ UseInv /\ CleanInv
    /\ SpaceInv /\ SpacesShareKernel /\ CallsInv

-----------------------------------------------------------------------------
(* The constants.                                                          *)

\* A set of natural numbers has a least element, so that phys_mem_alloc_above
\* finds the first free frame whenever there is one.
LEMMA LeastExists ==
  ASSUME NEW S \in SUBSET Nat, S # {}
  PROVE  \E x \in S : \A y \in S : x <= y
<1> DEFINE Less == {p \in Nat \X Nat : p[1] < p[2]}
<1>1. IsWellFoundedOn(Less, Nat)
  BY NatLessThanWellFounded, Zenon DEF OpToRel
<1> HIDE DEF Less
<1>2. PICK x \in S : \A y \in S : <<y, x>> \notin Less
  BY <1>1, WFMin, Zenon
<1>3. \A y \in S : ~(y < x)
  BY <1>2 DEF Less
<1> QED BY <1>3

LEMMA FirstIsFree ==
  ASSUME SizeAssumption, TypeOK, free # {}
  PROVE  FirstFree \in free /\ FirstFree \in Frames
<1>1. free \subseteq Frames /\ free \subseteq Nat
  BY DEF TypeOK, SizeAssumption
<1>2. \E f \in free : \A g \in free : f <= g
  BY <1>1, LeastExists
<1> QED BY <1>1, <1>2 DEF FirstFree

\* A page number is the number of its table and its place there.
LEMMA PageFacts ==
  ASSUME SizeAssumption
  PROVE  /\ FirstPage \in Nat
         /\ \A v \in Nat : Dir(v) \in Nat /\ Pos(v) \in Index
                           /\ v = Dir(v) * PER_TABLE + Pos(v)
         /\ \A v, w \in Nat : Dir(v) = Dir(w) /\ Pos(v) = Pos(w) => v = w
         /\ \A v \in FirstPage .. MaxPage - 1 : v \in Nat /\ Dir(v) \in Slots /\ v \in Pages
<1>1. FirstPage \in Nat
  <2>1. KERNEL_END \in Nat /\ PAGE_SIZE \in Nat \ {0}
    BY DEF SizeAssumption
  <2>2. KERNEL_END \div PAGE_SIZE \in Nat
    BY <2>1
  <2> QED BY <2>2 DEF FirstPage, ceil_division
<1>2. PER_TABLE \in Nat \ {0} /\ MaxPage \in Nat
  BY DEF SizeAssumption
<1>3. ASSUME NEW v \in Nat
      PROVE  Dir(v) \in Nat /\ Pos(v) \in Index /\ v = Dir(v) * PER_TABLE + Pos(v)
  BY <1>2 DEF Dir, Pos, virt_mem_get_page_table_index, virt_mem_get_page_index, Index
<1>4. ASSUME NEW v \in Nat, NEW w \in Nat, Dir(v) = Dir(w), Pos(v) = Pos(w)
      PROVE  v = w
  BY <1>3, <1>4
<1>5. ASSUME NEW v \in FirstPage .. MaxPage - 1
      PROVE  v \in Nat /\ Dir(v) \in Slots /\ v \in Pages
  <2>1. v \in Nat /\ Dir(v) \in Slots
    BY <1>1, <1>2, <1>5 DEF SizeAssumption, Slots, Dir
  <2>2. Dir(v) \in 0 .. PER_TABLE - 1 /\ Pos(v) \in 0 .. PER_TABLE - 1
    BY <2>1, <1>3 DEF Slots, Index
  <2>3. Dir(v) * PER_TABLE <= (PER_TABLE - 1) * PER_TABLE
    BY <2>2, <1>2
  <2>4. v <= (PER_TABLE - 1) * PER_TABLE + (PER_TABLE - 1)
    BY <2>1, <2>2, <2>3, <1>2, <1>3
  <2> QED BY <2>1, <2>4, <1>2 DEF Pages
<1> QED BY <1>1, <1>3, <1>4, <1>5

\* The frames of the kernel are none of the allocator's.
LEMMA FrameFacts ==
  ASSUME SizeAssumption
  PROVE  /\ NoFrame \notin Frames /\ Junk \notin Frames
         /\ Self \in Index /\ Foreign \in Index /\ Self # Foreign
         /\ Self \notin Slots /\ Foreign \notin Slots /\ Slots \subseteq Index
         /\ NoEntry \in EntryType /\ JunkEntry \in EntryType
         /\ \A f \in Frames : Entry(f) \in EntryType
         /\ NoEntry.frame = NoFrame /\ ~NoEntry.present
         /\ JunkEntry.frame = Junk
         /\ \A f \in Frames : Entry(f).frame = f /\ Entry(f).present
         /\ \A d \in DOMAIN InitialTables : \A i \in Index :
               InitialTables[d][i] \in EntryType /\ InitialTables[d][i].frame \notin Frames
                    /\ InitialTables[d][i].frame # Junk
         /\ DOMAIN InitialTables \subseteq Slots /\ DOMAIN InitialTables # {}
<1>1. \A d \in DOMAIN InitialTables : \A i \in Index :
         /\ InitialTables[d][i] \in [frame : Nat, present : BOOLEAN]
         /\ InitialTables[d][i].frame \in KernelFrames
  BY DEF SizeAssumption, KernelFrames
<1>2. \A d \in DOMAIN InitialTables : \A i \in Index : InitialTables[d][i] \in EntryType
  BY <1>1 DEF EntryType
<1>3. \A d \in DOMAIN InitialTables : \A i \in Index :
         InitialTables[d][i].frame \notin Frames /\ InitialTables[d][i].frame # Junk
  BY <1>1 DEF SizeAssumption, Junk
<1>4. NoFrame \notin Frames /\ Junk \notin Frames
  BY DEF SizeAssumption, NoFrame, Junk
<1>5. NoEntry \in EntryType /\ JunkEntry \in EntryType /\ \A f \in Frames : Entry(f) \in EntryType
  BY DEF NoEntry, JunkEntry, Entry, EntryType
<1>6. /\ NoEntry.frame = NoFrame /\ ~NoEntry.present /\ JunkEntry.frame = Junk
      /\ \A f \in Frames : Entry(f).frame = f /\ Entry(f).present
  BY DEF NoEntry, JunkEntry, Entry
<1> QED BY <1>2, <1>3, <1>4, <1>5, <1>6 DEF SizeAssumption, Slots

-----------------------------------------------------------------------------
(* What each write leaves in the memory of the tables.                     *)

\* Only virt_mem_init runs before there is a directory of its own.
LEMMA HasDirectory ==
  ASSUME SizeAssumption, TypeOK, CallInv
  PROVE  /\ BspAlone => cr3 # NoFrame
         /\ \A t \in Threads : alloc_perm(t) => cr3 # NoFrame
         /\ \A t \in Threads : pc[t] \notin {"init", "idle"} => cr3 # NoFrame
         /\ cr3 # NoFrame => cr3 \in Frames
<1>1. Bsp \in Threads
  BY DEF SizeAssumption
<1>2. ASSUME NEW t \in Threads, cr3 = NoFrame PROVE pc[t] \in {"init", "idle"}
  BY <1>1, <1>2 DEF CallInv, Fresh
<1>3. ASSUME NEW t \in Threads, alloc_perm(t), cr3 = NoFrame PROVE FALSE
  BY <1>1, <1>2, <1>3 DEF alloc_perm, CallInv, Fresh, ReadCursor, LoadCursor, StoreCursor,
     AllocFrame, FindTable, AllocTable, InstallTable, MarkPresent, ClearTable, WriteEntry
<1> QED BY <1>1, <1>2, <1>3 DEF BspAlone, CallInv, TypeOK

LEMMA TableOfIs ==
  ASSUME DirectoryInv, cr3 # NoFrame
  PROVE  \A v : TableOf(v) = mem[cr3][Dir(v)].frame
BY DEF DirectoryInv, TableOf, virt_mem_get_page_table, Dir, Entry

\* Where the step of a thread in a call writes.
LEMMA WorkingOn ==
  ASSUME SizeAssumption, TypeOK, CallInv, DirectoryInv, NEW t \in Threads, InCall(t)
  PROVE  /\ cr3 \in Frames /\ cr3 # NoFrame
         /\ page[t] \in Nat /\ page[t] \in Pages /\ page[t] \in FirstPage .. MaxPage - 1
         /\ Dir(page[t]) \in Slots /\ Dir(page[t]) \in Index /\ Pos(page[t]) \in Index
         /\ pc[t] \in {"mark", "clear", "write"} =>
               mem[cr3][Dir(page[t])].frame \in Frames
         /\ TableOf(page[t]) = mem[cr3][Dir(page[t])].frame
<1>1. cr3 \in Frames /\ cr3 # NoFrame
  BY HasDirectory DEF InCall
<1>2. page[t] \in FirstPage .. MaxPage - 1
  BY DEF CallInv
<1> QED BY <1>1, <1>2, PageFacts, FrameFacts, TableOfIs DEF DirectoryInv

LEMMA PutEntry ==
  ASSUME NEW m \in [Frames -> [Index -> EntryType]], NEW f \in Frames, NEW i \in Index,
         NEW e \in EntryType
  PROVE  /\ [m EXCEPT ![f][i] = e] \in [Frames -> [Index -> EntryType]]
         /\ \A g \in Frames : \A j \in Index :
               [m EXCEPT ![f][i] = e][g][j] = IF g = f /\ j = i THEN e ELSE m[g][j]
OBVIOUS

LEMMA InstallEffect ==
  ASSUME SizeAssumption, Inv, NEW t \in Threads, InstallTable(t)
  PROVE  /\ mem' \in [Frames -> [Index -> EntryType]]
         /\ mem'[cr3][Dir(page[t])].frame = table[t]
         /\ mem'[cr3][Dir(page[t])].present <=> mem[cr3][Dir(page[t])].present
         /\ \A f \in Frames : \A i \in Index :
               f # cr3 \/ i # Dir(page[t]) => mem'[f][i] = mem[f][i]
<1>1. cr3 \in Frames /\ Dir(page[t]) \in Index
  BY WorkingOn DEF InstallTable, InCall, Inv
<1>2. mem \in [Frames -> [Index -> EntryType]] /\ table[t] \in Frames
  BY DEF Inv, TypeOK, CallInv, InstallTable
<1>3. mem' = [mem EXCEPT ![cr3][Dir(page[t])].frame = table[t]]
  BY DEF InstallTable, Dir
<1>4. PICK e : e = [frame |-> table[t], present |-> mem[cr3][Dir(page[t])].present]
  OBVIOUS
<1>5. e \in EntryType /\ [mem[cr3][Dir(page[t])] EXCEPT !.frame = table[t]] = e
  BY <1>1, <1>2, <1>4 DEF EntryType
<1>6. mem' = [mem EXCEPT ![cr3][Dir(page[t])] = e]
  BY <1>1, <1>2, <1>3, <1>5
<1>7. /\ mem' \in [Frames -> [Index -> EntryType]]
      /\ \A f \in Frames : \A i \in Index :
            mem'[f][i] = IF f = cr3 /\ i = Dir(page[t]) THEN e ELSE mem[f][i]
  BY <1>1, <1>2, <1>5, <1>6, PutEntry
<1>8. e.frame = table[t] /\ e.present = mem[cr3][Dir(page[t])].present
  BY <1>4
<1> QED BY <1>1, <1>7, <1>8

LEMMA SetPresent ==
  ASSUME NEW e \in EntryType, NEW b
  PROVE  [e EXCEPT !.present = b] = [frame |-> e.frame, present |-> b]
BY DEF EntryType

LEMMA MarkEffect ==
  ASSUME SizeAssumption, Inv, NEW t \in Threads, MarkPresent(t)
  PROVE  /\ mem' \in [Frames -> [Index -> EntryType]]
         /\ mem'[cr3][Dir(page[t])].frame = mem[cr3][Dir(page[t])].frame
         /\ mem'[cr3][Dir(page[t])].present
         /\ \A f \in Frames : \A i \in Index :
               f # cr3 \/ i # Dir(page[t]) => mem'[f][i] = mem[f][i]
<1>1. cr3 \in Frames /\ Dir(page[t]) \in Index
  BY WorkingOn DEF MarkPresent, InCall, Inv
<1>2. mem \in [Frames -> [Index -> EntryType]]
  BY DEF Inv, TypeOK
<1>3. mem' = [mem EXCEPT ![cr3][Dir(page[t])].present = TRUE]
  BY DEF MarkPresent, Dir
<1>4. PICK e : e = [frame |-> mem[cr3][Dir(page[t])].frame, present |-> TRUE]
  OBVIOUS
<1>5. e \in EntryType
  <2>1. mem[cr3][Dir(page[t])] \in EntryType
    BY <1>1, <1>2
  <2> QED BY <2>1, <1>4 DEF EntryType
<1>6. [mem[cr3][Dir(page[t])] EXCEPT !.present = TRUE] = e
  <2>1. mem[cr3][Dir(page[t])] \in EntryType
    BY <1>1, <1>2
  <2> QED BY <2>1, <1>4, SetPresent, Zenon
<1>7. mem' = [mem EXCEPT ![cr3][Dir(page[t])] = e]
  BY <1>1, <1>2, <1>3, <1>6
<1>8. /\ mem' \in [Frames -> [Index -> EntryType]]
      /\ \A f \in Frames : \A i \in Index :
            mem'[f][i] = IF f = cr3 /\ i = Dir(page[t]) THEN e ELSE mem[f][i]
  BY <1>1, <1>2, <1>5, <1>7, PutEntry
<1>9. e.frame = mem[cr3][Dir(page[t])].frame
  BY <1>4
<1>10. e.present
  BY <1>4, Zenon
<1> QED BY <1>1, <1>8, <1>9, <1>10

LEMMA ClearEffect ==
  ASSUME SizeAssumption, Inv, NEW t \in Threads, ClearTable(t)
  PROVE  /\ mem' \in [Frames -> [Index -> EntryType]]
         /\ \A f \in Frames : \A i \in Index :
               mem'[f][i] = IF f = mem[cr3][Dir(page[t])].frame THEN NoEntry ELSE mem[f][i]
<1>1. /\ mem[cr3][Dir(page[t])].frame \in Frames
      /\ TableOf(page[t]) = mem[cr3][Dir(page[t])].frame
  BY WorkingOn DEF ClearTable, InCall, Inv
<1>2. mem \in [Frames -> [Index -> EntryType]]
  BY DEF Inv, TypeOK
<1>3. mem' = [mem EXCEPT ![mem[cr3][Dir(page[t])].frame] = [i \in Index |-> NoEntry]]
  BY <1>1 DEF ClearTable
<1> QED BY <1>1, <1>2, <1>3, FrameFacts

LEMMA WriteEffect ==
  ASSUME SizeAssumption, Inv, NEW t \in Threads, WriteEntry(t)
  PROVE  /\ mem' \in [Frames -> [Index -> EntryType]]
         /\ \A f \in Frames : \A i \in Index :
               mem'[f][i] = IF f = mem[cr3][Dir(page[t])].frame /\ i = Pos(page[t])
                            THEN Entry(frame[t]) ELSE mem[f][i]
<1>1. /\ mem[cr3][Dir(page[t])].frame \in Frames /\ Pos(page[t]) \in Index
      /\ TableOf(page[t]) = mem[cr3][Dir(page[t])].frame
  BY WorkingOn DEF WriteEntry, InCall, Inv
<1>2. mem \in [Frames -> [Index -> EntryType]] /\ frame[t] \in Frames
  BY DEF Inv, TypeOK, CallInv, WriteEntry, HasFrame
<1>3. mem' = [mem EXCEPT ![mem[cr3][Dir(page[t])].frame][Pos(page[t])] = Entry(frame[t])]
  BY <1>1 DEF WriteEntry, Pos
<1>4. Entry(frame[t]) \in EntryType
  BY <1>2, FrameFacts
<1> QED BY <1>1, <1>2, <1>3, <1>4, PutEntry

\* What the boot processor frees is mapped, to a frame of the allocator.
LEMMA FreeEffect ==
  ASSUME SizeAssumption, Inv, NEW v \in Pages, virt_mem_free_page(v)
  PROVE  /\ cr3 \in Frames /\ cr3 # NoFrame /\ ~started /\ ~overlapped
         /\ v \in owned[Bsp] /\ v \in FirstPage .. MaxPage - 1 /\ v \in Nat
         /\ Dir(v) \in Slots /\ Pos(v) \in Index
         /\ mem[cr3][Dir(v)].frame \in Frames
         /\ mem[mem[cr3][Dir(v)].frame][Pos(v)].frame \in Frames
         /\ free' = free \cup {mem[mem[cr3][Dir(v)].frame][Pos(v)].frame}
         /\ mem' \in [Frames -> [Index -> EntryType]]
         /\ \A f \in Frames : \A i \in Index :
               mem'[f][i] = IF f = mem[cr3][Dir(v)].frame /\ i = Pos(v)
                            THEN NoEntry ELSE mem[f][i]
<1>1. Bsp \in Threads
  BY DEF SizeAssumption
<1>2. cr3 \in Frames /\ cr3 # NoFrame /\ ~started /\ ~overlapped /\ v \in owned[Bsp]
  BY HasDirectory DEF virt_mem_free_page, BspAlone, Inv, CallInv
<1>3. v \in FirstPage .. MaxPage - 1
  BY <1>1, <1>2 DEF Inv, CallInv
<1>4. v \in Nat /\ Dir(v) \in Slots /\ Dir(v) \in Index /\ Pos(v) \in Index
  BY <1>3, PageFacts, FrameFacts
<1>5. mem[cr3][Dir(v)].present /\ mem[mem[cr3][Dir(v)].frame][Pos(v)].frame \in Frames
  BY <1>1, <1>2 DEF Inv, CallsInv, GivenInv
<1>6. mem[cr3][Dir(v)].frame \in Frames
  BY <1>2, <1>4, <1>5 DEF Inv, TypeOK
<1>7. TableOf(v) = mem[cr3][Dir(v)].frame
  BY <1>2, TableOfIs DEF Inv
<1>8. /\ mem' = [mem EXCEPT ![mem[cr3][Dir(v)].frame][Pos(v)] = NoEntry]
      /\ free' = free \cup {mem[mem[cr3][Dir(v)].frame][Pos(v)].frame}
  BY <1>7 DEF virt_mem_free_page, Pos
<1>9. mem \in [Frames -> [Index -> EntryType]]
  BY DEF Inv, TypeOK
<1> QED BY <1>2, <1>3, <1>4, <1>5, <1>6, <1>8, <1>9, FrameFacts, PutEntry

\* The new directory is a copy of the one in use, which names it by then.
LEMMA CreateEffect ==
  ASSUME SizeAssumption, Inv, virt_mem_create_address_space
  PROVE  /\ cr3 \in Frames /\ cr3 # NoFrame /\ ~started /\ \A t \in Threads : pc[t] = "idle"
         /\ FirstFree \in free /\ FirstFree \in Frames /\ FirstFree # cr3
         /\ spaces' = spaces \cup {FirstFree} /\ free' = free \ {FirstFree}
         /\ mem' \in [Frames -> [Index -> EntryType]]
         /\ \A f \in Frames : \A i \in Index :
               mem'[f][i] = IF \/ f = cr3 /\ i = Foreign
                               \/ f = FirstFree /\ i \in {Self, Foreign}
                            THEN Entry(FirstFree)
                            ELSE IF f = FirstFree THEN mem[cr3][i] ELSE mem[f][i]
<1> PICK dir : dir = FirstFree
  OBVIOUS
<1> PICK new : new = Entry(dir)
  OBVIOUS
<1>1. /\ cr3 \in Frames /\ cr3 # NoFrame /\ ~started
      /\ \A t \in Threads : pc[t] = "idle"
  BY HasDirectory DEF virt_mem_create_address_space, BspAlone, Inv, CallInv
<1>2. dir \in free /\ dir \in Frames
  BY FirstIsFree DEF virt_mem_create_address_space, Inv
<1>3. dir # cr3
  <2>1. Use(cr3, "directory", 0, 0)
    BY DEF Use
  <2> QED BY <1>1, <1>2, <2>1 DEF Inv, UseInv
<1>4. new \in EntryType /\ new.frame = dir
  BY <1>2, FrameFacts
<1>5. mem \in [Frames -> [Index -> EntryType]] /\ mem[cr3][Self].frame = cr3
  BY <1>1 DEF Inv, TypeOK, DirectoryInv, Entry
<1>6. PICK m : m = [mem EXCEPT ![cr3][Foreign] = new]
  OBVIOUS
<1>7. /\ m \in [Frames -> [Index -> EntryType]]
      /\ \A f \in Frames : \A i \in Index :
            m[f][i] = IF f = cr3 /\ i = Foreign THEN new ELSE mem[f][i]
  BY <1>1, <1>4, <1>5, <1>6, FrameFacts, PutEntry
<1>8. /\ virt_mem_set_recursive_table(mem, Self, Foreign, dir) = m
      /\ virt_mem_get_page_table(m, Self, Foreign) = dir
      /\ virt_mem_get_directory(m, Self) = cr3
  <2>1. virt_mem_get_directory(mem, Self) = cr3
    BY <1>5 DEF virt_mem_get_directory, virt_mem_get_page_table
  <2>2. m[cr3][Self].frame = cr3 /\ m[cr3][Foreign].frame = dir
    BY <1>1, <1>4, <1>5, <1>7, FrameFacts
  <2> QED BY <1>6, <2>1, <2>2
          DEF virt_mem_set_recursive_table, virt_mem_get_directory, virt_mem_get_page_table
<1>9. PICK copied : copied = [m EXCEPT ![dir] = m[cr3]]
  OBVIOUS
<1>10. /\ copied \in [Frames -> [Index -> EntryType]]
       /\ \A f \in Frames : \A i \in Index :
             copied[f][i] = IF f = dir THEN m[cr3][i] ELSE m[f][i]
  BY <1>1, <1>2, <1>7, <1>9
<1>11. virt_mem_get_directory(copied, Foreign) = dir
  BY <1>1, <1>2, <1>3, <1>4, <1>7, <1>10, FrameFacts
     DEF virt_mem_get_directory, virt_mem_get_page_table
<1>12. mem' = [copied EXCEPT ![dir][Self] = new]
  BY <1>8, <1>9, <1>11 DEF virt_mem_create_address_space, virt_mem_set_recursive_table
<1>13. /\ mem' \in [Frames -> [Index -> EntryType]]
       /\ \A f \in Frames : \A i \in Index :
             mem'[f][i] = IF f = dir /\ i = Self THEN new ELSE copied[f][i]
  BY <1>2, <1>4, <1>10, <1>12, FrameFacts, PutEntry
<1>14. \A f \in Frames : \A i \in Index :
          mem'[f][i] = IF (f = cr3 /\ i = Foreign) \/ (f = dir /\ i \in {Self, Foreign})
                       THEN new ELSE IF f = dir THEN mem[cr3][i] ELSE mem[f][i]
  BY <1>1, <1>2, <1>3, <1>7, <1>10, <1>13, FrameFacts
<1>15. spaces' = spaces \cup {FirstFree} /\ free' = free \ {FirstFree}
  BY DEF virt_mem_create_address_space
<1> QED BY <1>1, <1>2, <1>3, <1>13, <1>14, <1>15

\* The first directory names the copies of the initial tables and itself.
LEMMA CloneEffect ==
  ASSUME SizeAssumption, Inv, virt_mem_init
  PROVE  /\ cr3 = NoFrame /\ Fresh /\ cr3' \in Frames /\ cr3' # NoFrame
         /\ \E copy \in [DOMAIN InitialTables -> Frames] :
               /\ \A d, e \in DOMAIN InitialTables : copy[d] = copy[e] => d = e
               /\ \A d \in DOMAIN InitialTables : copy[d] # cr3'
               /\ free' = Frames \ ({copy[d] : d \in DOMAIN InitialTables} \cup {cr3'})
               /\ mem' \in [Frames -> [Index -> EntryType]]
               /\ \A i \in Index :
                     mem'[cr3'][i] = IF i = Self THEN Entry(cr3')
                                     ELSE IF i \in DOMAIN InitialTables THEN Entry(copy[i])
                                     ELSE NoEntry
               /\ \A d \in DOMAIN InitialTables : \A i \in Index :
                     mem'[copy[d]][i] = InitialTables[d][i]
               /\ \A f \in free' : \A i \in Index : mem'[f][i] = JunkEntry
<1>1. cr3 = NoFrame /\ Fresh
  BY DEF virt_mem_init, Inv, CallInv
<1>2. free = Frames /\ mem \in [Frames -> [Index -> EntryType]]
  BY <1>1 DEF Fresh, Inv, TypeOK
<1> DEFINE dir == FirstFree
<1>3. PICK copy \in [DOMAIN InitialTables -> free \ {dir}] :
         LET used == {copy[d] : d \in DOMAIN copy} \cup {dir} IN
         /\ \A d, e \in DOMAIN copy : d < e <=> copy[d] < copy[e]
         /\ \A f \in used, g \in free \ used : f < g
         /\ free' = free \ used
         /\ mem' = [f \in Frames |->
               IF f = dir THEN [i \in Index |->
                   IF i = Self THEN Entry(dir)
                   ELSE IF i \in DOMAIN copy THEN Entry(copy[i]) ELSE NoEntry]
               ELSE IF f \in used
                    THEN InitialTables[CHOOSE d \in DOMAIN copy : copy[d] = f]
                    ELSE mem[f]]
         /\ cr3' = dir
  BY Zenon DEF virt_mem_init
<1> HIDE DEF dir
<1>4. DOMAIN copy = DOMAIN InitialTables
  BY <1>3
<1>5. free # {}
  BY <1>3, FrameFacts
<1>6. dir \in Frames /\ cr3' = dir /\ cr3' # NoFrame
  BY <1>3, <1>5, FirstIsFree, FrameFacts DEF Inv, dir
<1>7. copy \in [DOMAIN InitialTables -> Frames]
      /\ \A d \in DOMAIN InitialTables : copy[d] # dir /\ copy[d] \in Frames
  BY <1>2, <1>3
<1>8. \A d, e \in DOMAIN InitialTables : copy[d] = copy[e] => d = e
  <2>1. \A d, e \in DOMAIN InitialTables : d < e <=> copy[d] < copy[e]
    BY <1>3, <1>4
  <2>2. \A d \in DOMAIN InitialTables : d \in Int /\ copy[d] \in Int
    <3>1. Index \subseteq Int /\ Frames \subseteq Int
      BY DEF SizeAssumption, Index
    <3>2. \A d \in DOMAIN InitialTables : d \in Index /\ copy[d] \in Frames
      BY <1>7, FrameFacts
    <3> QED BY <3>1, <3>2
  <2> QED BY <2>1, <2>2
<1>9. free' = Frames \ ({copy[d] : d \in DOMAIN InitialTables} \cup {cr3'})
  BY <1>2, <1>3, <1>4
<1>10. \A i \in Index :
          mem'[dir][i] = IF i = Self THEN Entry(dir)
                         ELSE IF i \in DOMAIN InitialTables THEN Entry(copy[i]) ELSE NoEntry
  BY <1>3, <1>4, <1>6
<1>11. \A d \in DOMAIN InitialTables : mem'[copy[d]] = InitialTables[d]
  <2> SUFFICES ASSUME NEW d \in DOMAIN InitialTables PROVE mem'[copy[d]] = InitialTables[d]
    OBVIOUS
  <2>1. mem'[copy[d]] = InitialTables[CHOOSE e \in DOMAIN InitialTables : copy[e] = copy[d]]
    BY <1>3, <1>4, <1>7
  <2>2. (CHOOSE e \in DOMAIN InitialTables : copy[e] = copy[d]) = d
    BY <1>8
  <2> QED BY <2>1, <2>2
<1>12. \A f \in free' : f \in Frames /\ mem'[f] = mem[f]
  BY <1>3, <1>4, <1>9, <1>6
<1>13. \A f \in free' : \A i \in Index : mem'[f][i] = JunkEntry
  BY <1>1, <1>12 DEF Fresh
<1>14. mem' \in [Frames -> [Index -> EntryType]]
  <2>1. ASSUME NEW f \in Frames PROVE mem'[f] \in [Index -> EntryType]
    <3>1. CASE f = dir
      <4>1. mem'[f] = [i \in Index |->
               IF i = Self THEN Entry(dir)
               ELSE IF i \in DOMAIN copy THEN Entry(copy[i]) ELSE NoEntry]
        BY <1>3, <3>1, <2>1
      <4> QED BY <4>1, <1>4, <1>6, <1>7, FrameFacts
    <3>2. CASE f \in free'
      BY <1>2, <1>12, <3>2
    <3>3. CASE \E d \in DOMAIN InitialTables : f = copy[d]
      BY <1>11, <3>3, FrameFacts DEF SizeAssumption
    <3> QED BY <1>6, <1>9, <3>1, <3>2, <3>3
  <2>2. mem' = [f \in Frames |-> mem'[f]]
    BY <1>3
  <2> QED BY <2>1, <2>2
<1> QED BY <1>1, <1>6, <1>7, <1>8, <1>9, <1>10, <1>11, <1>13, <1>14

\* The steps that write no table: taking a frame, and the test for the table
LEMMA AllocFrameEffect ==
  ASSUME SizeAssumption, TypeOK, NEW t \in Threads, AllocFrame(t)
  PROVE  /\ pc[t] = "alloc"
         /\ UNCHANGED <<mem, cr3, spaces, started, mem_current, overlapped, page, loaded,
                        table, owned>>
         /\ \/ pc' = [pc EXCEPT ![t] = "halted"] /\ UNCHANGED <<free, frame>>
            \/ /\ pc' = [pc EXCEPT ![t] = "find"]
               /\ \E f \in free : /\ f \in Frames /\ free' = free \ {f}
                                  /\ frame' = [frame EXCEPT ![t] = f]
BY FirstIsFree DEF AllocFrame, Goto

LEMMA AllocTableEffect ==
  ASSUME SizeAssumption, TypeOK, NEW t \in Threads, AllocTable(t)
  PROVE  /\ pc[t] = "table"
         /\ UNCHANGED <<mem, cr3, spaces, started, mem_current, overlapped, page, loaded,
                        frame, owned>>
         /\ \/ pc' = [pc EXCEPT ![t] = "halted"] /\ UNCHANGED <<free, table>>
            \/ /\ pc' = [pc EXCEPT ![t] = "install"]
               /\ \E f \in free : /\ f \in Frames /\ free' = free \ {f}
                                  /\ table' = [table EXCEPT ![t] = f]
BY FirstIsFree DEF AllocTable, Goto

LEMMA FindTableEffect ==
  ASSUME NEW t \in Threads, FindTable(t)
  PROVE  /\ pc[t] = "find" /\ UNCHANGED <<shared, locals, owned>>
         /\ \/ pc' = [pc EXCEPT ![t] = "write"] /\ mem[cr3][Dir(page[t])].present
            \/ pc' = [pc EXCEPT ![t] = "table"] /\ ~mem[cr3][Dir(page[t])].present
<1>1. /\ pc[t] = "find" /\ UNCHANGED <<shared, locals, owned>>
      /\ pc' = [pc EXCEPT ![t] = IF DirEntry(t).present THEN "write" ELSE "table"]
  BY DEF FindTable, Goto
<1>2. CASE DirEntry(t).present
  BY <1>1, <1>2, Zenon DEF DirEntry, Dir
<1>3. CASE ~DirEntry(t).present
  BY <1>1, <1>3, Zenon DEF DirEntry, Dir
<1> QED BY <1>2, <1>3

-----------------------------------------------------------------------------
(* Types.                                                                  *)

\* A directory is no table and no page, and a table no page.
LEMMA OneUseOfEntry ==
  ASSUME Inv, cr3 # NoFrame, NEW f \in Frames
  PROVE  /\ f \in spaces \cup {cr3} => /\ f \notin free
                                       /\ \A d \in Slots : mem[cr3][d].frame # f
                                       /\ \A t \in Threads : frame[t] # f
         /\ \A d \in Slots : mem[cr3][d].frame = f =>
               /\ f \notin free /\ f \notin spaces \cup {cr3}
               /\ \A e \in Slots : mem[cr3][e].frame = f => d = e
               /\ \A t \in Threads : frame[t] # f
<1>1. /\ \A k, a, c, l, b, e : Use(f, k, a, c) /\ Use(f, l, b, e) => k = l /\ a = b /\ c = e
      /\ f \in free => \A k, a, c : ~Use(f, k, a, c)
  BY DEF Inv, UseInv
<1>2. f \in spaces \cup {cr3} => Use(f, "directory", 0, 0)
  BY DEF Use
<1>3. \A d \in Slots : mem[cr3][d].frame = f => Use(f, "table", d, 0)
  BY DEF Use
<1>4. \A t \in Threads : frame[t] = f => Use(f, "phys", t, 0)
  BY DEF Use
<1> QED BY <1>1, <1>2, <1>3, <1>4

LEMMA TypeStep ==
  ASSUME SizeAssumption, Inv, Next
  PROVE  TypeOK'
<1> USE DEF TypeOK
<1>1. TypeOK /\ CallInv /\ DirectoryInv
  BY DEF Inv
<1>2. CASE virt_mem_init
  <2>1. /\ cr3' \in Frames /\ mem' \in [Frames -> [Index -> EntryType]] /\ free' \subseteq Frames
        /\ \A i \in Index : mem'[cr3'][i].present => mem'[cr3'][i].frame \in Frames
    BY <1>2, CloneEffect, FrameFacts
  <2>2. /\ UNCHANGED <<spaces, started, mem_current, overlapped, page, loaded, frame, table, owned>>
        /\ pc' = [pc EXCEPT ![Bsp] = "idle"]
    BY <1>2 DEF virt_mem_init, Goto, locals
  <2> QED BY <1>1, <2>1, <2>2 DEF Steps
<1>3. CASE virt_mem_create_address_space
  <2>1. /\ mem' \in [Frames -> [Index -> EntryType]] /\ free' \subseteq Frames
        /\ spaces' \subseteq Frames
    BY <1>1, <1>3, CreateEffect
  <2>2. UNCHANGED <<cr3, started, mem_current, overlapped, pc, page, loaded, frame, table, owned>>
    BY <1>3 DEF virt_mem_create_address_space, locals
  <2>3. \A i \in Index : mem'[cr3][i].present => mem'[cr3][i].frame \in Frames
    BY <1>1, <1>3, CreateEffect, FrameFacts
  <2> QED BY <1>1, <2>1, <2>2, <2>3
<1>4. CASE \E v \in Pages : virt_mem_free_page(v)
  <2> PICK v \in Pages : virt_mem_free_page(v)
    BY <1>4
  <2>1. /\ mem' \in [Frames -> [Index -> EntryType]] /\ free' \subseteq Frames
        /\ UNCHANGED <<cr3, spaces, started, mem_current, overlapped, pc, page, loaded, frame, table>>
    <3>1. mem' \in [Frames -> [Index -> EntryType]] /\ free' \subseteq Frames
      BY <1>1, FreeEffect
    <3> QED BY <3>1 DEF virt_mem_free_page, locals
  <2>2. owned' \in [Threads -> SUBSET Nat]
    BY <1>1 DEF virt_mem_free_page
  <2>3. \A i \in Index : mem'[cr3][i] = mem[cr3][i]
    BY FreeEffect, OneUseOfEntry
  <2> QED BY <1>1, <2>1, <2>2, <2>3
<1>5. CASE Start
  BY <1>1, <1>5 DEF Start, locals
<1>6. ASSUME NEW t \in Threads, alloc_perm(t)
      PROVE  TypeOK'
  <2>1. CASE ReadCursor(t) \/ LoadCursor(t) \/ StoreCursor(t) \/ FindTable(t)
    <3>1. CASE ReadCursor(t)
      BY <1>1, <3>1, PageFacts DEF ReadCursor, Goto, Steps
    <3>2. CASE LoadCursor(t)
      BY <1>1, <3>2 DEF LoadCursor, Goto, shared, Steps
    <3>3. CASE StoreCursor(t)
      BY <1>1, <3>3 DEF StoreCursor, Goto, locals, Steps
    <3>4. CASE FindTable(t)
      BY <1>1, <3>4 DEF FindTable, Goto, shared, locals, Steps
    <3> QED BY <2>1, <3>1, <3>2, <3>3, <3>4
  <2>2. CASE AllocFrame(t) \/ AllocTable(t)
    BY <1>1, <2>2, FirstIsFree DEF AllocFrame, AllocTable, Goto, locals, Steps
  <2>3. CASE InstallTable(t)
    <3>1. mem' \in [Frames -> [Index -> EntryType]] /\ table[t] \in Frames
      BY <1>1, <2>3, InstallEffect DEF InstallTable, CallInv
    <3>2. /\ pc' = [pc EXCEPT ![t] = "mark"]
          /\ UNCHANGED <<free, cr3, spaces, started, mem_current, overlapped, page, loaded,
                         frame, table, owned>>
      BY <2>3 DEF InstallTable, Goto, locals
    <3>3. cr3 # NoFrame => \A i \in Index : mem'[cr3][i].present => mem'[cr3][i].frame \in Frames
      BY <1>1, <2>3, <3>1, InstallEffect
    <3> QED BY <1>1, <3>1, <3>2, <3>3 DEF Steps
  <2>4. CASE MarkPresent(t)
    <3>1. /\ mem' \in [Frames -> [Index -> EntryType]]
          /\ cr3 # NoFrame => mem[cr3][Dir(page[t])].frame \in Frames
      BY <1>1, <2>4, MarkEffect DEF MarkPresent, DirectoryInv
    <3>2. /\ pc' = [pc EXCEPT ![t] = "clear"]
          /\ UNCHANGED <<free, cr3, spaces, started, mem_current, overlapped, page, loaded,
                         frame, table, owned>>
      BY <2>4 DEF MarkPresent, Goto, locals
    <3>3. cr3 # NoFrame => \A i \in Index : mem'[cr3][i].present => mem'[cr3][i].frame \in Frames
      BY <1>1, <2>4, <3>1, MarkEffect
    <3> QED BY <1>1, <3>1, <3>2, <3>3 DEF Steps
  <2>5. CASE ClearTable(t)
    <3>1. mem' \in [Frames -> [Index -> EntryType]]
      BY <2>5, ClearEffect
    <3>2. /\ pc' = [pc EXCEPT ![t] = "write"]
          /\ UNCHANGED <<free, cr3, spaces, started, mem_current, overlapped, page, loaded,
                         frame, table, owned>>
      BY <2>5 DEF ClearTable, Goto, locals
    <3>3. cr3 # NoFrame => \A i \in Index : mem'[cr3][i].present => mem'[cr3][i].frame \in Frames
      BY <1>1, <2>5, ClearEffect, FrameFacts
    <3> QED BY <1>1, <3>1, <3>2, <3>3 DEF Steps
  <2>6. CASE WriteEntry(t)
    <3>1. mem' \in [Frames -> [Index -> EntryType]] /\ frame[t] \in Frames /\ page[t] \in Nat
      BY <1>1, <2>6, WriteEffect DEF WriteEntry, CallInv, HasFrame
    <3>2. /\ pc' = [pc EXCEPT ![t] = "idle"]
          /\ frame' = [frame EXCEPT ![t] = NoFrame] /\ table' = [table EXCEPT ![t] = NoFrame]
          /\ owned' = [owned EXCEPT ![t] = @ \cup {page[t]}]
          /\ UNCHANGED <<free, cr3, spaces, started, mem_current, overlapped, page, loaded>>
      BY <2>6 DEF WriteEntry, Goto
    <3>3. cr3 # NoFrame => \A i \in Index : mem'[cr3][i].present => mem'[cr3][i].frame \in Frames
      <4> SUFFICES ASSUME cr3 # NoFrame, NEW i \in Index, mem'[cr3][i].present
                   PROVE  mem'[cr3][i].frame \in Frames
        OBVIOUS
      <4>1. cr3 \in Frames /\ (mem[cr3][i].present => mem[cr3][i].frame \in Frames)
        BY <1>1
      <4>2. mem'[cr3][i] = Entry(frame[t]) \/ mem'[cr3][i] = mem[cr3][i]
        BY <2>6, <4>1, WriteEffect DEF Inv
      <4>3. Entry(frame[t]).frame \in Frames
        BY <3>1, FrameFacts
      <4> QED BY <4>1, <4>2, <4>3
    <3>4. pc' \in [Threads -> Steps]
      BY <1>1, <3>2 DEF Steps
    <3>5. owned' \in [Threads -> SUBSET Nat]
      BY <1>1, <3>1, <3>2
    <3>6. /\ frame' \in [Threads -> Frames \cup {NoFrame}]
          /\ table' \in [Threads -> Frames \cup {NoFrame}]
      BY <1>1, <3>2
    <3> QED BY <1>1, <3>1, <3>2, <3>3, <3>4, <3>5, <3>6
  <2> QED BY <1>6, <2>1, <2>2, <2>3, <2>4, <2>5, <2>6 DEF alloc_perm
<1> QED BY <1>2, <1>3, <1>4, <1>5, <1>6 DEF Next

-----------------------------------------------------------------------------
(* Calls and the directory in use.                                         *)

LEMMA CallStep ==
  ASSUME SizeAssumption, Inv, Next
  PROVE  CallInv'
<1>1. TypeOK /\ CallInv /\ TypeOK'
  BY TypeStep DEF Inv
<1>2. Bsp \in Threads /\ FirstPage \in Nat /\ MaxPage \in Nat
  BY PageFacts DEF SizeAssumption
<1>3. CASE virt_mem_init
  <2>1. cr3' # NoFrame /\ cr3 = NoFrame /\ Fresh
    BY <1>3, CloneEffect
  <2>2. /\ UNCHANGED <<spaces, started, mem_current, overlapped, page, loaded, frame, table, owned>>
        /\ pc' = [pc EXCEPT ![Bsp] = "idle"]
    BY <1>3 DEF virt_mem_init, Goto, locals
  <2>3. \A t \in Threads : pc'[t] = "idle"
    BY <1>1, <1>2, <2>1, <2>2 DEF Fresh, TypeOK
  <2> QED BY <1>1, <1>2, <2>1, <2>2, <2>3 DEF CallInv, InCall, HasFrame
<1>4. CASE virt_mem_create_address_space
  BY <1>1, <1>4, CreateEffect DEF virt_mem_create_address_space, locals, CallInv, InCall
<1>5. CASE \E v \in Pages : virt_mem_free_page(v)
  <2> PICK v \in Pages : virt_mem_free_page(v)
    BY <1>5
  <2>1. cr3 # NoFrame /\ ~started /\ ~overlapped
    BY FreeEffect
  <2>2. /\ owned' = [owned EXCEPT ![Bsp] = @ \ {v}]
        /\ UNCHANGED <<cr3, spaces, started, mem_current, overlapped, pc, page, loaded, frame, table>>
    BY DEF virt_mem_free_page, locals
  <2>3. \A t \in Threads : owned'[t] \subseteq owned[t]
    BY <1>1, <2>2 DEF TypeOK
  <2> QED BY <1>1, <1>2, <2>1, <2>2, <2>3 DEF CallInv, InCall
<1>6. CASE Start
  BY <1>1, <1>6, HasDirectory DEF Start, CallInv, InCall, locals
<1>7. ASSUME NEW t \in Threads, alloc_perm(t)
      PROVE  CallInv'
  <2>1. cr3 # NoFrame
    BY <1>1, <1>7, HasDirectory
  <2>2. started \/ t = Bsp
    BY <1>1, <1>7 DEF CallInv, alloc_perm, ReadCursor, LoadCursor, StoreCursor, AllocFrame,
       FindTable, AllocTable, InstallTable, MarkPresent, ClearTable, WriteEntry
  <2>3. CASE ReadCursor(t)
    <3>1. PICK current : /\ current = IF mem_current = 0 THEN FirstPage ELSE mem_current
                         /\ current < MaxPage /\ page' = [page EXCEPT ![t] = current]
                         /\ mem_current' = current
      BY <2>3 DEF ReadCursor
    <3>2. current \in FirstPage .. MaxPage - 1
      BY <1>1, <1>2, <3>1 DEF CallInv, TypeOK
    <3>3. /\ pc[t] = "idle" /\ pc' = [pc EXCEPT ![t] = "load"]
          /\ overlapped' = (overlapped \/ \E u \in Threads : InCall(u))
          /\ UNCHANGED <<free, cr3, spaces, started, loaded, frame, table, owned>>
      BY <2>3 DEF ReadCursor, Goto
    <3>4. ~started => ~overlapped'
      BY <1>1, <2>2, <3>3 DEF CallInv, InCall
    <3> QED BY <1>1, <1>2, <2>1, <2>2, <3>1, <3>2, <3>3, <3>4 DEF CallInv, TypeOK, InCall, HasFrame
  <2>4. CASE LoadCursor(t)
    BY <1>1, <1>2, <2>1, <2>2, <2>4 DEF LoadCursor, Goto, shared, CallInv, TypeOK, InCall, HasFrame
  <2>5. CASE StoreCursor(t)
    BY <1>1, <1>2, <2>1, <2>2, <2>5 DEF StoreCursor, Goto, locals, CallInv, TypeOK, InCall, HasFrame
  <2>6. CASE AllocFrame(t)
    <3>1. /\ UNCHANGED <<cr3, spaces, started, mem_current, overlapped, page, loaded,
                         table, owned>>
          /\ pc[t] = "alloc" /\ \E step \in {"find", "halted"} : pc' = [pc EXCEPT ![t] = step]
          /\ pc'[t] = "find" => frame'[t] \in Frames
          /\ \A u \in Threads \ {t} : frame'[u] = frame[u]
      BY <1>1, <2>6, AllocFrameEffect DEF TypeOK
    <3> QED BY <1>1, <2>1, <2>2, <3>1 DEF CallInv, TypeOK, InCall, HasFrame
  <2>7. CASE FindTable(t)
    <3>1. /\ UNCHANGED <<shared, locals, owned>>
          /\ pc[t] = "find" /\ \E step \in {"write", "table"} : pc' = [pc EXCEPT ![t] = step]
      BY <2>7, FindTableEffect
    <3> QED BY <1>1, <2>1, <2>2, <3>1 DEF shared, locals, CallInv, TypeOK, InCall, HasFrame
  <2>8. CASE AllocTable(t)
    <3>1. /\ UNCHANGED <<cr3, spaces, started, mem_current, overlapped, page, loaded,
                         frame, owned>>
          /\ pc[t] = "table" /\ \E step \in {"install", "halted"} : pc' = [pc EXCEPT ![t] = step]
          /\ pc'[t] = "install" => table'[t] \in Frames
          /\ \A u \in Threads \ {t} : table'[u] = table[u]
      BY <1>1, <2>8, AllocTableEffect DEF TypeOK
    <3> QED BY <1>1, <2>1, <2>2, <3>1 DEF CallInv, TypeOK, InCall, HasFrame
  <2>9. CASE InstallTable(t)
    BY <1>1, <2>1, <2>2, <2>9 DEF InstallTable, Goto, locals, CallInv, TypeOK, InCall, HasFrame
  <2>10. CASE MarkPresent(t)
    BY <1>1, <2>1, <2>2, <2>10 DEF MarkPresent, Goto, locals, CallInv, TypeOK, InCall, HasFrame
  <2>11. CASE ClearTable(t)
    BY <1>1, <2>1, <2>2, <2>11 DEF ClearTable, Goto, locals, CallInv, TypeOK, InCall, HasFrame
  <2>12. CASE WriteEntry(t)
    BY <1>1, <2>1, <2>2, <2>12 DEF WriteEntry, Goto, CallInv, TypeOK, InCall, HasFrame
  <2> QED BY <1>7, <2>3, <2>4, <2>5, <2>6, <2>7, <2>8, <2>9, <2>10, <2>11, <2>12 DEF alloc_perm
<1> QED BY <1>3, <1>4, <1>5, <1>6, <1>7 DEF Next

\* The tables of the kernel are tables: nobody creates them, none is a directory.
LEMMA KernelTables ==
  ASSUME SizeAssumption, Inv, cr3 # NoFrame, NEW d \in DOMAIN InitialTables
  PROVE  /\ d \in Slots /\ d \in Index /\ d # Foreign /\ d # Self
         /\ mem[cr3][d].present /\ mem[cr3][d].frame \in Frames
         /\ mem[cr3][d].frame \notin free /\ mem[cr3][d].frame \notin spaces \cup {cr3}
         /\ \A e \in Slots : mem[cr3][e].frame = mem[cr3][d].frame => e = d
         /\ \A t \in Threads : pc[t] \in Creates => Dir(page[t]) # d
<1>1. d \in Slots /\ d \in Index /\ d # Foreign /\ d # Self
  BY FrameFacts
<1>2. mem[cr3][d].present /\ mem[cr3][d].frame \in Frames
  BY <1>1 DEF Inv, DirectoryInv, TypeOK
<1>3. \A t \in Threads : pc[t] \in Creates => Dir(page[t]) # d
  BY DEF Inv, DirectoryInv
<1> QED BY <1>1, <1>2, <1>3, OneUseOfEntry

\* Steps keep what they do not touch.
LEMMA DirectoryKept ==
  ASSUME SizeAssumption, Inv, CallInv', cr3 # NoFrame, cr3' = cr3, cr3 \notin spaces',
         NEW t \in Threads,
         \A u \in Threads \ {t} : pc'[u] = pc[u] /\ page'[u] = page[u],
         \A i \in Slots : /\ mem[cr3][i].frame \in Frames => mem'[cr3][i].frame \in Frames
                          /\ mem[cr3][i].present => mem'[cr3][i].present,
         \A d \in DOMAIN InitialTables \cup {Self} : mem'[cr3][d] = mem[cr3][d],
         \A d \in DOMAIN InitialTables : \A i \in Index :
            InitialTables[d][i].present /\ d * PER_TABLE + i < FirstPage =>
               mem'[mem[cr3][d].frame][i] = mem[mem[cr3][d].frame][i],
         pc'[t] \in Creates => Dir(page'[t]) \notin DOMAIN InitialTables,
         pc'[t] \in {"mark", "clear", "write"} => mem'[cr3][Dir(page'[t])].frame \in Frames,
         pc'[t] \in {"clear", "write"} => mem'[cr3][Dir(page'[t])].present
  PROVE  DirectoryInv'
<1>1. DirectoryInv /\ CallInv
  BY DEF Inv
<1>2. \A u \in Threads : pc[u] \in HasFrame => Dir(page[u]) \in Slots
  BY <1>1, PageFacts DEF CallInv, HasFrame, InCall
<1>3. mem'[cr3'][Self] = Entry(cr3')
  BY <1>1 DEF DirectoryInv
<1>4. ASSUME NEW u \in Threads
      PROVE  /\ pc'[u] \in {"mark", "clear", "write"} => mem'[cr3'][Dir(page'[u])].frame \in Frames
             /\ pc'[u] \in {"clear", "write"} => mem'[cr3'][Dir(page'[u])].present
  <2>1. CASE u = t
    BY <2>1
  <2>2. CASE u # t
    BY <1>1, <1>2, <2>2 DEF HasFrame, DirectoryInv
  <2> QED BY <2>1, <2>2
<1>5. ASSUME NEW d \in DOMAIN InitialTables
      PROVE  /\ mem'[cr3'][d].present
             /\ \A i \in Index : InitialTables[d][i].present /\ d * PER_TABLE + i < FirstPage =>
                    mem'[mem'[cr3'][d].frame][i] = InitialTables[d][i]
  BY <1>1 DEF DirectoryInv
<1>6. ASSUME NEW d \in DOMAIN InitialTables, NEW u \in Threads, pc'[u] \in Creates
      PROVE  Dir(page'[u]) # d
  BY <1>1, <1>6 DEF DirectoryInv
<1> QED BY <1>3, <1>4, <1>5, <1>6 DEF DirectoryInv

LEMMA DirectoryStep ==
  ASSUME SizeAssumption, Inv, Next
  PROVE  DirectoryInv'
<1>1. TypeOK /\ CallInv /\ DirectoryInv /\ TypeOK' /\ CallInv' /\ Bsp \in Threads
  BY TypeStep, CallStep DEF Inv, SizeAssumption
<1>2. CASE virt_mem_init
  <2>1. \A t \in Threads : pc'[t] = "idle"
    BY <1>1, <1>2, CloneEffect DEF virt_mem_init, Goto, Fresh, TypeOK
  <2>2. mem'[cr3'][Self] = Entry(cr3') /\ cr3' \notin spaces'
    BY <1>2, CloneEffect, FrameFacts DEF virt_mem_init, Fresh
  <2>3. ASSUME NEW d \in DOMAIN InitialTables
        PROVE  /\ mem'[cr3'][d].present
               /\ \A i \in Index : mem'[mem'[cr3'][d].frame][i] = InitialTables[d][i]
    <3>1. PICK copy \in [DOMAIN InitialTables -> Frames] :
             /\ mem'[cr3'][d] = Entry(copy[d])
             /\ \A i \in Index : mem'[copy[d]][i] = InitialTables[d][i]
      BY <1>2, CloneEffect, FrameFacts
    <3> QED BY <3>1, FrameFacts
  <2> QED BY <2>1, <2>2, <2>3 DEF DirectoryInv, Creates
<1>3. CASE virt_mem_create_address_space
  <2>1. /\ cr3 # NoFrame /\ cr3 \in Frames /\ cr3' = cr3 /\ cr3 \notin spaces'
        /\ \A t \in Threads : pc'[t] = "idle" /\ UNCHANGED <<pc, page>>
    BY <1>1, <1>3, CreateEffect DEF virt_mem_create_address_space, locals, DirectoryInv
  <2>2. \A i \in Slots \cup {Self} : mem'[cr3][i] = mem[cr3][i]
    BY <1>3, CreateEffect, FrameFacts
  <2>3. \A d \in DOMAIN InitialTables : \A i \in Index :
           mem'[mem[cr3][d].frame][i] = mem[mem[cr3][d].frame][i]
    BY <1>3, <2>1, CreateEffect, KernelTables
  <2> QED BY <1>1, <2>1, <2>2, <2>3, DirectoryKept, FrameFacts DEF Creates
<1>4. CASE \E v \in Pages : virt_mem_free_page(v)
  <2> PICK v \in Pages : virt_mem_free_page(v)
    BY <1>4
  <2>1. /\ cr3 # NoFrame /\ cr3 \in Frames /\ cr3' = cr3 /\ spaces' = spaces
        /\ pc[Bsp] = "idle" /\ UNCHANGED <<pc, page>>
    BY FreeEffect DEF virt_mem_free_page, locals, BspAlone
  <2>2. \A i \in Index : mem'[cr3][i] = mem[cr3][i]
    BY FreeEffect, OneUseOfEntry
  <2>3. ASSUME NEW d \in DOMAIN InitialTables, NEW i \in Index, d * PER_TABLE + i < FirstPage
        PROVE  mem'[mem[cr3][d].frame][i] = mem[mem[cr3][d].frame][i]
    <3>1. v \in FirstPage .. MaxPage - 1 /\ v = Dir(v) * PER_TABLE + Pos(v) /\ FirstPage \in Nat
      BY FreeEffect, PageFacts
    <3>2. ~(d = Dir(v) /\ i = Pos(v))
      BY <2>3, <3>1
    <3> QED BY <2>1, <3>2, KernelTables, FreeEffect
  <2> QED BY <1>1, <2>1, <2>2, <2>3, DirectoryKept, FrameFacts DEF Creates, DirectoryInv
<1>5. CASE Start
  <2>1. cr3 # NoFrame /\ pc[Bsp] = "idle" /\ UNCHANGED <<mem, spaces, cr3, pc, page>>
    BY <1>1, <1>5, HasDirectory DEF Start, locals, BspAlone
  <2> QED BY <1>1, <2>1, DirectoryKept DEF Creates, DirectoryInv
<1>6. ASSUME NEW t \in Threads, alloc_perm(t)
      PROVE  DirectoryInv'
  <2>1. cr3 # NoFrame /\ cr3 \in Frames
    BY <1>1, <1>6, HasDirectory
  <2>2. CASE ReadCursor(t) \/ LoadCursor(t) \/ StoreCursor(t) \/ AllocFrame(t)
    <3>1. /\ UNCHANGED <<mem, spaces, cr3>> /\ pc'[t] \notin Creates
          /\ pc'[t] \notin {"mark", "clear", "write"}
          /\ \A u \in Threads \ {t} : pc'[u] = pc[u] /\ page'[u] = page[u]
      BY <1>1, <2>2, AllocFrameEffect
         DEF ReadCursor, LoadCursor, StoreCursor, Goto, shared, locals, TypeOK, Creates
    <3> QED BY <1>1, <2>1, <3>1, DirectoryKept DEF DirectoryInv
  <2>3. CASE FindTable(t)
    <3>1. /\ UNCHANGED <<mem, spaces, cr3, page>> /\ pc[t] = "find"
          /\ \A u \in Threads \ {t} : pc'[u] = pc[u]
          /\ \/ pc'[t] = "write" /\ mem[cr3][Dir(page[t])].present
             \/ pc'[t] = "table" /\ ~mem[cr3][Dir(page[t])].present
      BY <1>1, <2>3, FindTableEffect DEF shared, locals, TypeOK
    <3>2. Dir(page[t]) \in Index
      BY <1>1, <3>1, WorkingOn DEF InCall
    <3>3. pc'[t] = "write" => mem[cr3][Dir(page[t])].frame \in Frames
      BY <1>1, <2>1, <3>1, <3>2 DEF TypeOK
    <3>4. pc'[t] \in Creates => Dir(page'[t]) \notin DOMAIN InitialTables
      BY <2>1, <3>1, KernelTables DEF Creates
    <3> QED BY <1>1, <2>1, <3>1, <3>3, <3>4, DirectoryKept DEF DirectoryInv
  <2>4. CASE AllocTable(t)
    <3>1. /\ UNCHANGED <<mem, spaces, cr3, page>> /\ pc[t] = "table"
          /\ \A u \in Threads \ {t} : pc'[u] = pc[u]
          /\ pc'[t] \in {"halted", "install"}
      BY <1>1, <2>4, AllocTableEffect DEF TypeOK
    <3>2. pc'[t] \in Creates => Dir(page'[t]) \notin DOMAIN InitialTables
      BY <2>1, <3>1, KernelTables DEF Creates
    <3> QED BY <1>1, <2>1, <3>1, <3>2, DirectoryKept DEF DirectoryInv
  <2>5. CASE InstallTable(t)
    <3>1. /\ UNCHANGED <<spaces, cr3, page>> /\ pc[t] = "install" /\ table[t] \in Frames
          /\ \A u \in Threads \ {t} : pc'[u] = pc[u]
          /\ pc'[t] = "mark"
      BY <1>1, <2>5 DEF InstallTable, Goto, locals, TypeOK, CallInv
    <3>2. Dir(page[t]) \in Slots /\ Dir(page[t]) \in Index
          /\ Dir(page[t]) \notin DOMAIN InitialTables
      BY <1>1, <2>1, <3>1, WorkingOn, KernelTables DEF InCall, Creates
    <3>3. \A i \in Slots : /\ mem[cr3][i].frame \in Frames => mem'[cr3][i].frame \in Frames
                           /\ mem[cr3][i].present => mem'[cr3][i].present
      BY <2>1, <2>5, <3>1, InstallEffect, FrameFacts
    <3>4. \A d \in DOMAIN InitialTables \cup {Self} : mem'[cr3][d] = mem[cr3][d]
      BY <2>1, <2>5, <3>2, InstallEffect, FrameFacts
    <3>5. \A d \in DOMAIN InitialTables : \A i \in Index :
             mem'[mem[cr3][d].frame][i] = mem[mem[cr3][d].frame][i]
      BY <2>1, <2>5, InstallEffect, KernelTables
    <3>6. mem'[cr3][Dir(page[t])].frame \in Frames
      BY <2>5, <3>1, InstallEffect
    <3> QED BY <1>1, <2>1, <3>1, <3>2, <3>3, <3>4, <3>5, <3>6, DirectoryKept DEF DirectoryInv
  <2>6. CASE MarkPresent(t)
    <3>1. /\ UNCHANGED <<spaces, cr3, page>> /\ pc[t] = "mark"
          /\ \A u \in Threads \ {t} : pc'[u] = pc[u]
          /\ pc'[t] = "clear"
      BY <1>1, <2>6 DEF MarkPresent, Goto, locals, TypeOK, CallInv
    <3>2. /\ Dir(page[t]) \in Slots /\ Dir(page[t]) \in Index
          /\ Dir(page[t]) \notin DOMAIN InitialTables
          /\ mem[cr3][Dir(page[t])].frame \in Frames
      BY <1>1, <2>1, <3>1, WorkingOn, KernelTables DEF InCall, Creates
    <3>3. \A i \in Slots : /\ mem[cr3][i].frame \in Frames => mem'[cr3][i].frame \in Frames
                           /\ mem[cr3][i].present => mem'[cr3][i].present
      BY <2>1, <2>6, <3>1, MarkEffect, FrameFacts
    <3>4. \A d \in DOMAIN InitialTables \cup {Self} : mem'[cr3][d] = mem[cr3][d]
      BY <2>1, <2>6, <3>2, MarkEffect, FrameFacts
    <3>5. \A d \in DOMAIN InitialTables : \A i \in Index :
             mem'[mem[cr3][d].frame][i] = mem[mem[cr3][d].frame][i]
      BY <2>1, <2>6, MarkEffect, KernelTables
    <3>6. mem'[cr3][Dir(page[t])].frame \in Frames /\ mem'[cr3][Dir(page[t])].present
      BY <2>6, <3>2, MarkEffect
    <3> QED BY <1>1, <2>1, <3>1, <3>2, <3>3, <3>4, <3>5, <3>6, DirectoryKept DEF DirectoryInv
  <2>7. CASE ClearTable(t)
    <3>1. /\ UNCHANGED <<spaces, cr3, page>> /\ pc[t] = "clear"
          /\ \A u \in Threads \ {t} : pc'[u] = pc[u]
          /\ pc'[t] = "write"
      BY <1>1, <2>7 DEF ClearTable, Goto, locals, TypeOK, CallInv
    <3>2. /\ Dir(page[t]) \in Slots /\ Dir(page[t]) \in Index
          /\ Dir(page[t]) \notin DOMAIN InitialTables
          /\ mem[cr3][Dir(page[t])].frame \in Frames /\ mem[cr3][Dir(page[t])].present
      BY <1>1, <2>1, <3>1, WorkingOn, KernelTables DEF InCall, Creates, DirectoryInv
    <3>3. \A i \in Index : mem'[cr3][i] = mem[cr3][i]
      BY <2>1, <2>7, <3>2, ClearEffect, OneUseOfEntry
    <3>4. \A d \in DOMAIN InitialTables : \A i \in Index :
             mem'[mem[cr3][d].frame][i] = mem[mem[cr3][d].frame][i]
      BY <2>1, <2>7, <3>2, ClearEffect, KernelTables
    <3> QED BY <1>1, <2>1, <3>1, <3>2, <3>3, <3>4, DirectoryKept, FrameFacts DEF DirectoryInv, Creates
  <2>8. CASE WriteEntry(t)
    <3>1. /\ UNCHANGED <<spaces, cr3, page>> /\ pc[t] = "write"
          /\ \A u \in Threads \ {t} : pc'[u] = pc[u]
          /\ pc'[t] = "idle"
      BY <1>1, <2>8 DEF WriteEntry, Goto, TypeOK, CallInv
    <3>2. /\ Dir(page[t]) \in Slots /\ Dir(page[t]) \in Index
          /\ mem[cr3][Dir(page[t])].frame \in Frames
          /\ page[t] \in FirstPage .. MaxPage - 1 /\ page[t] \in Nat
      BY <1>1, <2>1, <3>1, WorkingOn DEF InCall
    <3>3. \A i \in Index : mem'[cr3][i] = mem[cr3][i]
      BY <2>1, <2>8, <3>2, WriteEffect, OneUseOfEntry
    <3>4. ASSUME NEW d \in DOMAIN InitialTables, NEW i \in Index, d * PER_TABLE + i < FirstPage
          PROVE  mem'[mem[cr3][d].frame][i] = mem[mem[cr3][d].frame][i]
      <4>1. page[t] = Dir(page[t]) * PER_TABLE + Pos(page[t]) /\ FirstPage \in Nat
        BY <3>2, PageFacts
      <4>2. ~(d = Dir(page[t]) /\ i = Pos(page[t]))
        BY <3>2, <3>4, <4>1
      <4> QED BY <2>1, <2>8, <3>2, <4>2, KernelTables, WriteEffect
    <3> QED BY <1>1, <2>1, <3>1, <3>3, <3>4, DirectoryKept, FrameFacts DEF DirectoryInv, Creates
  <2> QED BY <1>6, <2>2, <2>3, <2>4, <2>5, <2>6, <2>7, <2>8 DEF alloc_perm
<1> QED BY <1>2, <1>3, <1>4, <1>5, <1>6 DEF Next

-----------------------------------------------------------------------------
(* One use for every frame.                                                *)

\* Frame f is used in the way k by a (and c), now and not before.
NewUse(f, k, a, c) == Use(f, k, a, c)' /\ ~Use(f, k, a, c)

\* At most one use is new, of a frame without another.
LEMMA UseMoves ==
  ASSUME UseInv, cr3 # NoFrame,
         NEW g, NEW l, NEW b, NEW e,
         \A f \in Frames : \A k, a, c :
            NewUse(f, k, a, c) => f = g /\ k = l /\ a = b /\ c = e,
         \A k, a, c : Use(g, k, a, c)' => k = l /\ a = b /\ c = e,
         \A f \in free' : (f \in free /\ f # g) \/ \A k, a, c : ~Use(f, k, a, c)'
  PROVE  UseInv'
<1>1. /\ \A f \in Frames : \A k, a, c, m, x, y :
            Use(f, k, a, c) /\ Use(f, m, x, y) => k = m /\ a = x /\ c = y
      /\ \A f \in Frames : f \in free => \A k, a, c : ~Use(f, k, a, c)
  BY DEF UseInv
<1>2. \A f \in Frames : \A k, a, c : Use(f, k, a, c)' => Use(f, k, a, c) \/ f = g
  BY DEF NewUse
<1>3. ASSUME NEW f \in Frames, NEW k, NEW a, NEW c, NEW m, NEW x, NEW y,
             Use(f, k, a, c)', Use(f, m, x, y)'
      PROVE  k = m /\ a = x /\ c = y
  BY <1>1, <1>2, <1>3
<1>4. ASSUME NEW f \in Frames, f \in free', NEW k, NEW a, NEW c
      PROVE  ~Use(f, k, a, c)'
  BY <1>1, <1>2, <1>4
<1> QED BY <1>3, <1>4 DEF UseInv

\* What a page table behind the directory in use is not
LEMMA TableFacts ==
  ASSUME SizeAssumption, Inv, cr3 # NoFrame, NEW d \in Slots, mem[cr3][d].frame \in Frames
  PROVE  /\ mem[cr3][d].frame \notin free /\ mem[cr3][d].frame \notin spaces \cup {cr3}
         /\ \A e \in Slots : mem[cr3][e].frame = mem[cr3][d].frame => e = d
         /\ \A t \in Threads : /\ frame[t] # mem[cr3][d].frame
                               /\ pc[t] = "install" => table[t] # mem[cr3][d].frame
         /\ \A e \in Slots : mem[cr3][e].frame \in Frames => \A i \in Index :
               mem[mem[cr3][e].frame][i].frame # mem[cr3][d].frame
<1>1. Use(mem[cr3][d].frame, "table", d, 0)
  BY DEF Use
<1>2. \A k, a, c : Use(mem[cr3][d].frame, k, a, c) => k = "table"
  BY <1>1 DEF Inv, UseInv
<1>3. \A t \in Threads : pc[t] = "install" /\ table[t] = mem[cr3][d].frame =>
         Use(mem[cr3][d].frame, "table_phys", t, 0)
  BY DEF Use
<1>4. \A e \in Slots : mem[cr3][e].frame \in Frames => \A i \in Index :
         mem[mem[cr3][e].frame][i].frame = mem[cr3][d].frame =>
             Use(mem[cr3][d].frame, "page", e, i)
  BY DEF Use
<1> QED BY <1>2, <1>3, <1>4, OneUseOfEntry

LEMMA UseStep ==
  ASSUME SizeAssumption, Inv, Next
  PROVE  UseInv'
<1>1. TypeOK /\ CallInv /\ DirectoryInv /\ UseInv /\ Bsp \in Threads
  BY DEF Inv, SizeAssumption
<1>2. CASE virt_mem_init
  <2>1. /\ cr3 = NoFrame /\ Fresh /\ cr3' \in Frames /\ cr3' # NoFrame
        /\ UNCHANGED <<spaces, frame, table>> /\ pc' = [pc EXCEPT ![Bsp] = "idle"]
    BY <1>2, CloneEffect DEF virt_mem_init, Goto, locals
  <2>2. PICK copy \in [DOMAIN InitialTables -> Frames] :
           /\ \A d, e \in DOMAIN InitialTables : copy[d] = copy[e] => d = e
           /\ \A d \in DOMAIN InitialTables : copy[d] # cr3'
           /\ free' = Frames \ ({copy[d] : d \in DOMAIN InitialTables} \cup {cr3'})
           /\ \A i \in Index :
                 mem'[cr3'][i] = IF i = Self THEN Entry(cr3')
                                 ELSE IF i \in DOMAIN InitialTables THEN Entry(copy[i])
                                 ELSE NoEntry
           /\ \A d \in DOMAIN InitialTables : \A i \in Index :
                 mem'[copy[d]][i] = InitialTables[d][i]
    BY <1>2, CloneEffect
  <2>3. ASSUME NEW d \in Slots, mem'[cr3'][d].frame \in Frames
        PROVE  /\ d \in DOMAIN InitialTables /\ mem'[cr3'][d].frame = copy[d]
               /\ \A i \in Index : mem'[copy[d]][i].frame \notin Frames
    <3>1. d \in Index /\ d # Self
      BY FrameFacts
    <3>2. d \in DOMAIN InitialTables
      BY <2>2, <2>3, <3>1, FrameFacts
    <3>3. mem'[cr3'][d] = Entry(copy[d]) /\ copy[d] \in Frames
      BY <2>2, <3>1, <3>2
    <3> QED BY <2>2, <3>2, <3>3, FrameFacts
  <2>4. \A t \in Threads : frame'[t] = NoFrame /\ pc'[t] # "install"
    BY <1>1, <2>1 DEF Fresh, TypeOK
  <2>5. ASSUME NEW f \in Frames, NEW k, NEW a, NEW c, Use(f, k, a, c)'
        PROVE  \/ k = "directory" /\ a = 0 /\ c = 0 /\ f = cr3'
               \/ k = "table" /\ c = 0 /\ a \in DOMAIN InitialTables /\ f = copy[a]
    BY <2>1, <2>3, <2>4, <2>5, FrameFacts DEF Use, Fresh
  <2> QED BY <2>2, <2>5 DEF UseInv
<1>3. CASE virt_mem_create_address_space
  <2> PICK dir : dir = FirstFree
    OBVIOUS
  <2>1. /\ cr3 \in Frames /\ cr3 # NoFrame /\ dir \in free /\ dir \in Frames
        /\ dir # cr3 /\ spaces' = spaces \cup {dir} /\ free' = free \ {dir}
        /\ UNCHANGED <<cr3, frame, table, pc>>
    BY <1>3, CreateEffect DEF virt_mem_create_address_space, locals
  <2>2. \A d \in Slots : mem'[cr3][d] = mem[cr3][d]
    BY <1>3, <2>1, CreateEffect, FrameFacts
  <2>3. \A d \in Slots : mem[cr3][d].frame \in Frames => \A i \in Index :
           mem'[mem[cr3][d].frame][i] = mem[mem[cr3][d].frame][i]
    BY <1>3, <2>1, CreateEffect, TableFacts
  <2>4. ASSUME NEW f \in Frames, NEW k, NEW a, NEW c, NewUse(f, k, a, c)
        PROVE  f = dir /\ k = "directory" /\ a = 0 /\ c = 0
    BY <2>1, <2>2, <2>3, <2>4 DEF NewUse, Use
  <2>5. \A k, a, c : ~Use(dir, k, a, c)
    BY <1>1, <2>1 DEF UseInv
  <2>6. \A k, a, c : Use(dir, k, a, c)' => k = "directory" /\ a = 0 /\ c = 0
    BY <2>1, <2>4, <2>5 DEF NewUse
  <2> QED BY <1>1, <2>1, <2>4, <2>6, UseMoves
<1>4. CASE \E v \in Pages : virt_mem_free_page(v)
  <2> PICK v \in Pages : virt_mem_free_page(v)
    BY <1>4
  <2> PICK g : g = mem[mem[cr3][Dir(v)].frame][Pos(v)].frame
    OBVIOUS
  <2>1. /\ cr3 \in Frames /\ cr3 # NoFrame /\ g \in Frames /\ free' = free \cup {g}
        /\ Dir(v) \in Slots /\ Pos(v) \in Index /\ mem[cr3][Dir(v)].frame \in Frames
        /\ UNCHANGED <<spaces, cr3, frame, table, pc>>
    BY FreeEffect DEF virt_mem_free_page, locals
  <2>2. \A d \in Slots : mem'[cr3][d] = mem[cr3][d]
    BY <2>1, FreeEffect, TableFacts, FrameFacts
  <2>3. ASSUME NEW d \in Slots, mem[cr3][d].frame \in Frames, NEW i \in Index
        PROVE  IF d = Dir(v) /\ i = Pos(v) THEN mem'[mem[cr3][d].frame][i].frame \notin Frames
               ELSE mem'[mem[cr3][d].frame][i] = mem[mem[cr3][d].frame][i]
    BY <2>1, <2>3, FreeEffect, TableFacts, FrameFacts
  <2>4. ASSUME NEW f \in Frames, NEW k, NEW a, NEW c PROVE ~NewUse(f, k, a, c)
    BY <2>1, <2>2, <2>3 DEF NewUse, Use
  <2>5. Use(g, "page", Dir(v), Pos(v)) /\ ~Use(g, "page", Dir(v), Pos(v))'
    BY <2>1, <2>2, <2>3 DEF Use
  <2>6. \A k, a, c : ~Use(g, k, a, c)'
    <3>1. \A k, a, c : Use(g, k, a, c) => k = "page" /\ a = Dir(v) /\ c = Pos(v)
      BY <1>1, <2>1, <2>5 DEF UseInv
    <3> SUFFICES ASSUME NEW k, NEW a, NEW c, Use(g, k, a, c)' PROVE FALSE
      OBVIOUS
    <3>2. Use(g, k, a, c)
      BY <2>1, <2>4 DEF NewUse
    <3>3. k = "page" /\ a = Dir(v) /\ c = Pos(v)
      BY <3>1, <3>2
    <3> QED BY <2>1, <2>2, <2>3, <3>3 DEF Use
  <2> QED BY <1>1, <2>1, <2>4, <2>6, UseMoves
<1>5. CASE Start
  <2>1. cr3 # NoFrame /\ UNCHANGED <<mem, free, cr3, spaces, frame, table, pc>>
    BY <1>1, <1>5, HasDirectory DEF Start, locals
  <2>2. ASSUME NEW f, NEW k, NEW a, NEW c, Use(f, k, a, c)' PROVE Use(f, k, a, c)
    BY <2>1, <2>2 DEF Use
  <2> QED BY <1>1, <2>1, <2>2 DEF UseInv
<1>6. ASSUME NEW t \in Threads, alloc_perm(t)
      PROVE  UseInv'
  <2>1. cr3 # NoFrame /\ cr3 \in Frames
    BY <1>1, <1>6, HasDirectory
  <2>2. CASE ReadCursor(t) \/ LoadCursor(t) \/ StoreCursor(t) \/ FindTable(t)
    <3>1. /\ UNCHANGED <<mem, free, cr3, spaces, frame, table>>
          /\ \A u \in Threads : pc'[u] = "install" => pc[u] = "install"
      BY <1>1, <2>2, FindTableEffect
         DEF ReadCursor, LoadCursor, StoreCursor, Goto, shared, locals, TypeOK
    <3>2. ASSUME NEW f, NEW k, NEW a, NEW c, Use(f, k, a, c)' PROVE Use(f, k, a, c)
      BY <3>1, <3>2 DEF Use
    <3> QED BY <1>1, <2>1, <3>1, <3>2 DEF UseInv
  <2>3. CASE AllocFrame(t)
    <3>1. /\ UNCHANGED <<mem, cr3, spaces, table>>
          /\ \A u \in Threads : pc'[u] = "install" => pc[u] = "install"
          /\ \/ UNCHANGED <<free, frame>>
             \/ \E f \in free : /\ f \in Frames /\ free' = free \ {f}
                                /\ frame' = [frame EXCEPT ![t] = f]
      BY <1>1, <2>3, AllocFrameEffect DEF TypeOK
    <3>2. CASE UNCHANGED <<free, frame>>
      <4>1. ASSUME NEW f, NEW k, NEW a, NEW c, Use(f, k, a, c)' PROVE Use(f, k, a, c)
        BY <3>1, <3>2, <4>1 DEF Use
      <4> QED BY <1>1, <2>1, <3>1, <3>2, <4>1 DEF UseInv
    <3>3. CASE \E f \in free : /\ f \in Frames /\ free' = free \ {f}
                               /\ frame' = [frame EXCEPT ![t] = f]
      <4>1. PICK g \in free : /\ g \in Frames /\ free' = free \ {g}
                              /\ frame' = [frame EXCEPT ![t] = g]
        BY <3>3
      <4>2. ASSUME NEW f \in Frames, NEW k, NEW a, NEW c, NewUse(f, k, a, c)
            PROVE  f = g /\ k = "phys" /\ a = t /\ c = 0
        BY <1>1, <3>1, <4>1, <4>2 DEF NewUse, Use, TypeOK
      <4>3. \A k, a, c : ~Use(g, k, a, c)
        BY <1>1, <2>1, <4>1 DEF UseInv
      <4>4. \A k, a, c : Use(g, k, a, c)' => k = "phys" /\ a = t /\ c = 0
        BY <4>1, <4>2, <4>3 DEF NewUse
      <4> QED BY <1>1, <2>1, <4>1, <4>2, <4>4, UseMoves
    <3> QED BY <3>1, <3>2, <3>3
  <2>4. CASE AllocTable(t)
    <3>1. /\ pc[t] = "table" /\ UNCHANGED <<mem, cr3, spaces, frame>>
          /\ \A u \in Threads \ {t} : pc'[u] = pc[u]
          /\ \/ pc'[t] = "halted" /\ UNCHANGED <<free, table>>
             \/ \E f \in free : /\ f \in Frames /\ free' = free \ {f}
                                /\ table' = [table EXCEPT ![t] = f]
      BY <1>1, <2>4, AllocTableEffect DEF TypeOK
    <3>2. CASE pc'[t] = "halted" /\ UNCHANGED <<free, table>>
      <4>1. ASSUME NEW f, NEW k, NEW a, NEW c, Use(f, k, a, c)' PROVE Use(f, k, a, c)
        BY <3>1, <3>2, <4>1 DEF Use
      <4> QED BY <1>1, <2>1, <3>1, <3>2, <4>1 DEF UseInv
    <3>3. CASE \E f \in free : /\ f \in Frames /\ free' = free \ {f}
                               /\ table' = [table EXCEPT ![t] = f]
      <4>1. PICK g \in free : /\ g \in Frames /\ free' = free \ {g}
                              /\ table' = [table EXCEPT ![t] = g]
        BY <3>3
      <4>2. ASSUME NEW f \in Frames, NEW k, NEW a, NEW c, NewUse(f, k, a, c)
            PROVE  f = g /\ k = "table_phys" /\ a = t /\ c = 0
        BY <1>1, <3>1, <4>1, <4>2 DEF NewUse, Use, TypeOK
      <4>3. \A k, a, c : ~Use(g, k, a, c)
        BY <1>1, <2>1, <4>1 DEF UseInv
      <4>4. \A k, a, c : Use(g, k, a, c)' => k = "table_phys" /\ a = t /\ c = 0
        BY <4>1, <4>2, <4>3 DEF NewUse
      <4> QED BY <1>1, <2>1, <4>1, <4>2, <4>4, UseMoves
    <3> QED BY <3>1, <3>2, <3>3
  <2>5. CASE InstallTable(t)
    <3> PICK g : g = table[t]
      OBVIOUS
    <3> PICK d : d = Dir(page[t])
      OBVIOUS
    <3>1. /\ pc[t] = "install" /\ pc'[t] = "mark" /\ g \in Frames
          /\ \A u \in Threads \ {t} : pc'[u] = pc[u]
          /\ UNCHANGED <<free, cr3, spaces, frame, table>>
      BY <1>1, <2>5 DEF InstallTable, Goto, locals, TypeOK, CallInv
    <3>2. d \in Slots /\ d \in Index
      BY <1>1, <3>1, WorkingOn DEF InCall
    <3>3. Use(g, "table_phys", t, 0)
      BY <3>1 DEF Use
    <3>4. \A k, a, c : Use(g, k, a, c) => k = "table_phys" /\ a = t /\ c = 0
      BY <1>1, <2>1, <3>1, <3>3 DEF UseInv
    <3>5. g # cr3 /\ g \notin free
      <4>1. g = cr3 => Use(g, "directory", 0, 0)
        BY DEF Use
      <4> QED BY <1>1, <2>1, <3>1, <3>3, <3>4, <4>1 DEF UseInv
    <3>6. \A i \in Index : mem'[g][i].frame \notin Frames
      <4>1. \A i \in Index : mem[g][i] = JunkEntry
        BY <2>1, <3>1 DEF Inv, CleanInv, MayBeTable
      <4> QED BY <2>5, <3>1, <3>5, <4>1, InstallEffect, FrameFacts
    <3>7. mem'[cr3][d].frame = g /\ \A e \in Slots \ {d} : mem'[cr3][e] = mem[cr3][e]
      BY <2>1, <2>5, InstallEffect, FrameFacts
    <3>8. \A e \in Slots : mem[cr3][e].frame \in Frames => \A i \in Index :
             mem'[mem[cr3][e].frame][i] = mem[mem[cr3][e].frame][i]
      BY <2>1, <2>5, InstallEffect, TableFacts
    <3>9. ASSUME NEW f \in Frames, NEW k, NEW a, NEW c, NewUse(f, k, a, c)
          PROVE  f = g /\ k = "table" /\ a = d /\ c = 0
      BY <3>1, <3>6, <3>7, <3>8, <3>9 DEF NewUse, Use
    <3>10. \A k, a, c : Use(g, k, a, c)' => k = "table" /\ a = d /\ c = 0
      <4>1. SUFFICES ASSUME NEW k, NEW a, NEW c, Use(g, k, a, c)'
                     PROVE  k = "table" /\ a = d /\ c = 0
        OBVIOUS
      <4>2. CASE Use(g, k, a, c)
        BY <3>1, <3>4, <4>1, <4>2 DEF Use
      <4>3. CASE ~Use(g, k, a, c)
        BY <3>1, <3>9, <4>1, <4>3 DEF NewUse
      <4> QED BY <4>2, <4>3
    <3>11. \A f \in free' : f \in free /\ f # g
      BY <3>1, <3>5
    <3> QED BY <1>1, <2>1, <3>9, <3>10, <3>11, UseMoves
  <2>6. CASE MarkPresent(t)
    <3>1. /\ pc[t] = "mark" /\ pc'[t] = "clear"
          /\ \A u \in Threads \ {t} : pc'[u] = pc[u]
          /\ UNCHANGED <<free, cr3, spaces, frame, table>>
      BY <1>1, <2>6 DEF MarkPresent, Goto, locals, TypeOK
    <3>2. \A e \in Slots : mem'[cr3][e].frame = mem[cr3][e].frame
      BY <2>1, <2>6, MarkEffect, FrameFacts
    <3>3. \A e \in Slots : mem[cr3][e].frame \in Frames => \A i \in Index :
             mem'[mem[cr3][e].frame][i] = mem[mem[cr3][e].frame][i]
      BY <2>1, <2>6, MarkEffect, TableFacts
    <3>4. ASSUME NEW f \in Frames, NEW k, NEW a, NEW c, Use(f, k, a, c)' PROVE Use(f, k, a, c)
      BY <3>1, <3>2, <3>3, <3>4 DEF Use
    <3> QED BY <1>1, <2>1, <3>1, <3>4 DEF UseInv
  <2>7. CASE ClearTable(t)
    <3>1. /\ pc[t] = "clear" /\ pc'[t] = "write"
          /\ \A u \in Threads \ {t} : pc'[u] = pc[u]
          /\ UNCHANGED <<free, cr3, spaces, frame, table>>
      BY <1>1, <2>7 DEF ClearTable, Goto, locals, TypeOK
    <3>2. Dir(page[t]) \in Slots /\ mem[cr3][Dir(page[t])].frame \in Frames
      BY <1>1, <3>1, WorkingOn DEF InCall
    <3>3. \A e \in Slots : mem'[cr3][e] = mem[cr3][e]
      BY <2>1, <2>7, <3>2, ClearEffect, TableFacts, FrameFacts
    <3>4. \A e \in Slots : mem[cr3][e].frame \in Frames => \A i \in Index :
             \/ mem'[mem[cr3][e].frame][i] = mem[mem[cr3][e].frame][i]
             \/ mem'[mem[cr3][e].frame][i].frame \notin Frames
      BY <2>1, <2>7, <3>2, ClearEffect, FrameFacts
    <3>5. ASSUME NEW f \in Frames, NEW k, NEW a, NEW c, Use(f, k, a, c)' PROVE Use(f, k, a, c)
      BY <3>1, <3>3, <3>4, <3>5 DEF Use
    <3> QED BY <1>1, <2>1, <3>1, <3>5 DEF UseInv
  <2>8. CASE WriteEntry(t)
    <3> PICK g : g = frame[t]
      OBVIOUS
    <3> PICK d, j : d = Dir(page[t]) /\ j = Pos(page[t])
      OBVIOUS
    <3>1. /\ pc[t] = "write" /\ pc'[t] = "idle" /\ g \in Frames
          /\ \A u \in Threads \ {t} : pc'[u] = pc[u]
          /\ frame' = [frame EXCEPT ![t] = NoFrame] /\ table' = [table EXCEPT ![t] = NoFrame]
          /\ UNCHANGED <<free, cr3, spaces>>
      BY <1>1, <2>8 DEF WriteEntry, Goto, TypeOK, CallInv, HasFrame
    <3>2. d \in Slots /\ j \in Index /\ mem[cr3][d].frame \in Frames
      BY <1>1, <3>1, WorkingOn DEF InCall
    <3>3. Use(g, "phys", t, 0)
      BY <3>1 DEF Use
    <3>4. \A k, a, c : Use(g, k, a, c) => k = "phys" /\ a = t /\ c = 0
      BY <1>1, <2>1, <3>1, <3>3 DEF UseInv
    <3>5. g \notin free
      BY <1>1, <2>1, <3>1, <3>3 DEF UseInv
    <3>6. \A e \in Slots : mem'[cr3][e] = mem[cr3][e]
      BY <2>1, <2>8, <3>2, WriteEffect, TableFacts, FrameFacts
    <3>7. ASSUME NEW e \in Slots, mem[cr3][e].frame \in Frames, NEW i \in Index
          PROVE  IF e = d /\ i = j THEN mem'[mem[cr3][e].frame][i].frame = g
                 ELSE mem'[mem[cr3][e].frame][i] = mem[mem[cr3][e].frame][i]
      BY <2>1, <2>8, <3>1, <3>2, <3>7, WriteEffect, TableFacts, FrameFacts
    <3>8. /\ frame'[t] = NoFrame /\ table'[t] = NoFrame
          /\ \A u \in Threads \ {t} : frame'[u] = frame[u] /\ table'[u] = table[u]
      BY <1>1, <3>1 DEF TypeOK
    <3>9. ASSUME NEW f \in Frames, NEW k, NEW a, NEW c, NewUse(f, k, a, c)
          PROVE  f = g /\ k = "page" /\ a = d /\ c = j
      BY <3>1, <3>6, <3>7, <3>8, <3>9, FrameFacts DEF NewUse, Use
    <3>10. \A k, a, c : Use(g, k, a, c)' => k = "page" /\ a = d /\ c = j
      <4>1. ~Use(g, "phys", t, 0)'
        BY <3>1, <3>8, FrameFacts DEF Use
      <4> QED BY <3>1, <3>4, <3>9, <4>1 DEF NewUse
    <3> QED BY <1>1, <2>1, <3>1, <3>5, <3>9, <3>10, UseMoves
  <2> QED BY <1>6, <2>2, <2>3, <2>4, <2>5, <2>6, <2>7, <2>8 DEF alloc_perm
<1> QED BY <1>2, <1>3, <1>4, <1>5, <1>6 DEF Next

-----------------------------------------------------------------------------
(* Frames that may become tables hold only junk.                           *)

LEMMA NoTableYet ==
  ASSUME Inv, cr3 # NoFrame, NEW f \in Frames, MayBeTable(f)
  PROVE  /\ f \notin spaces \cup {cr3} /\ \A d \in Slots : mem[cr3][d].frame # f
         /\ \A i \in Index : mem[f][i] = JunkEntry
<1>1. \A i \in Index : mem[f][i] = JunkEntry
  BY DEF Inv, CleanInv
<1>2. CASE f \in free
  BY <1>2, <1>1, OneUseOfEntry
<1>3. CASE f \notin free
  <2>1. \E k, a, c : Use(f, k, a, c) /\ k \in {"page", "phys", "table_phys"}
    <3>1. CASE \E d \in TableSlots : \E i \in Index : mem[mem[cr3][d].frame][i].frame = f
      <4>1. \E d \in Slots : \E i \in Index : Use(f, "page", d, i)
        BY <3>1 DEF Use, TableSlots, Slots
      <4> QED BY <4>1
    <3>2. CASE \E t \in Threads : frame[t] = f
      <4>1. \E t \in Threads : Use(f, "phys", t, 0)
        BY <3>2 DEF Use
      <4> QED BY <4>1
    <3>3. CASE \E t \in Threads : table[t] = f /\ pc[t] = "install"
      <4>1. \E t \in Threads : Use(f, "table_phys", t, 0)
        BY <3>3 DEF Use
      <4> QED BY <4>1
    <3> QED BY <1>3, <3>1, <3>2, <3>3 DEF MayBeTable
  <2>2. f \in spaces \cup {cr3} => Use(f, "directory", 0, 0)
    BY DEF Use
  <2>3. \A d \in Slots : mem[cr3][d].frame = f => Use(f, "table", d, 0)
    BY DEF Use
  <2>4. \A k, a, c, l, b, e : Use(f, k, a, c) /\ Use(f, l, b, e) => k = l
    BY DEF Inv, UseInv
  <2> QED BY <1>1, <2>1, <2>2, <2>3, <2>4
<1> QED BY <1>2, <1>3

\* No step writes to such a frame, or makes one of another.
LEMMA CleanKept ==
  ASSUME Inv, cr3 # NoFrame,
         \A f \in Frames : MayBeTable(f)' =>
            MayBeTable(f) /\ \A i \in Index : mem'[f][i] = mem[f][i]
  PROVE  CleanInv'
BY DEF Inv, CleanInv

LEMMA CleanStep ==
  ASSUME SizeAssumption, Inv, Next
  PROVE  CleanInv'
<1>1. TypeOK /\ CallInv /\ DirectoryInv /\ Bsp \in Threads
  BY DEF Inv, SizeAssumption
<1>2. CASE virt_mem_init
  <2>1. /\ cr3 = NoFrame /\ Fresh /\ cr3' \in Frames /\ cr3' # NoFrame
        /\ UNCHANGED <<spaces, frame, table>> /\ pc' = [pc EXCEPT ![Bsp] = "idle"]
    BY <1>2, CloneEffect DEF virt_mem_init, Goto, locals
  <2>2. PICK copy \in [DOMAIN InitialTables -> Frames] :
           /\ \A i \in Index :
                 mem'[cr3'][i] = IF i = Self THEN Entry(cr3')
                                 ELSE IF i \in DOMAIN InitialTables THEN Entry(copy[i])
                                 ELSE NoEntry
           /\ \A d \in DOMAIN InitialTables : \A i \in Index :
                 mem'[copy[d]][i] = InitialTables[d][i]
           /\ \A f \in free' : \A i \in Index : mem'[f][i] = JunkEntry
    BY <1>2, CloneEffect
  <2>3. ASSUME NEW d \in TableSlots' PROVE \A i \in Index : mem'[mem'[cr3'][d].frame][i].frame \notin Frames
    <3>1. d \in Index /\ d # Self /\ mem'[cr3'][d].frame \in Frames
      BY <2>3 DEF TableSlots
    <3>2. d \in DOMAIN InitialTables
      BY <2>2, <3>1, FrameFacts
    <3>3. mem'[cr3'][d] = Entry(copy[d]) /\ copy[d] \in Frames
      BY <2>2, <3>1, <3>2
    <3> QED BY <2>2, <3>2, <3>3, FrameFacts
  <2>4. \A t \in Threads : frame'[t] = NoFrame /\ pc'[t] # "install"
    BY <1>1, <2>1 DEF Fresh, TypeOK
  <2>5. \A f \in Frames : MayBeTable(f)' => f \in free'
    BY <2>3, <2>4, FrameFacts DEF MayBeTable
  <2> QED BY <2>2, <2>5 DEF CleanInv
<1>3. CASE virt_mem_create_address_space
  <2> PICK dir : dir = FirstFree
    OBVIOUS
  <2>1. /\ cr3 \in Frames /\ cr3 # NoFrame /\ dir \in free /\ dir \in Frames
        /\ dir # cr3 /\ free' = free \ {dir} /\ UNCHANGED <<cr3, frame, table, pc>>
    BY <1>3, CreateEffect DEF virt_mem_create_address_space, locals
  <2>2. \A d \in Slots : mem'[cr3][d] = mem[cr3][d]
    BY <1>3, <2>1, CreateEffect, FrameFacts
  <2>3. \A d \in Slots : mem[cr3][d].frame \in Frames => \A i \in Index :
           mem'[mem[cr3][d].frame][i] = mem[mem[cr3][d].frame][i]
    BY <1>3, <2>1, CreateEffect, TableFacts
  <2>4. ASSUME NEW f \in Frames, MayBeTable(f)'
        PROVE  MayBeTable(f) /\ f # dir
    <3>1. MayBeTable(f) /\ (f \in free => f \in free' \/ f = dir)
      BY <2>1, <2>2, <2>3, <2>4 DEF MayBeTable, TableSlots, Slots
    <3>2. f # dir
      <4>1. \A k, a, c : ~Use(dir, k, a, c)
        BY <2>1 DEF Inv, UseInv
      <4>2. dir \notin free'
        BY <2>1
      <4>3. \A d \in TableSlots : \A i \in Index : mem[mem[cr3][d].frame][i].frame # dir
        BY <4>1 DEF Use, TableSlots, Slots
      <4>4. \A t \in Threads : frame[t] # dir /\ ~(table[t] = dir /\ pc[t] = "install")
        BY <4>1 DEF Use
      <4> QED BY <2>1, <2>2, <2>3, <2>4, <4>2, <4>3, <4>4 DEF MayBeTable, TableSlots, Slots
    <3> QED BY <3>1, <3>2
  <2>5. ASSUME NEW f \in Frames, MayBeTable(f)'
        PROVE  \A i \in Index : mem'[f][i] = mem[f][i]
    BY <1>3, <2>1, <2>4, <2>5, NoTableYet, CreateEffect
  <2> QED BY <2>1, <2>4, <2>5, CleanKept
<1>4. CASE \E v \in Pages : virt_mem_free_page(v)
  <2> PICK v \in Pages : virt_mem_free_page(v)
    BY <1>4
  <2> PICK g : g = mem[mem[cr3][Dir(v)].frame][Pos(v)].frame
    OBVIOUS
  <2>1. /\ cr3 \in Frames /\ cr3 # NoFrame /\ g \in Frames /\ free' = free \cup {g}
        /\ Dir(v) \in Slots /\ Pos(v) \in Index /\ mem[cr3][Dir(v)].frame \in Frames
        /\ UNCHANGED <<spaces, cr3, frame, table, pc>>
    BY FreeEffect DEF virt_mem_free_page, locals
  <2>2. \A d \in Slots : mem'[cr3][d] = mem[cr3][d]
    BY <2>1, FreeEffect, TableFacts, FrameFacts
  <2>3. ASSUME NEW d \in Slots, mem[cr3][d].frame \in Frames, NEW i \in Index
        PROVE  IF d = Dir(v) /\ i = Pos(v) THEN mem'[mem[cr3][d].frame][i].frame \notin Frames
               ELSE mem'[mem[cr3][d].frame][i] = mem[mem[cr3][d].frame][i]
    BY <2>1, <2>3, FreeEffect, TableFacts, FrameFacts
  <2>4. MayBeTable(g)
    BY <2>1 DEF MayBeTable, TableSlots, Slots
  <2>5. ASSUME NEW f \in Frames, MayBeTable(f)' PROVE MayBeTable(f)
    <3>1. TableSlots' = TableSlots
      BY <2>1, <2>2 DEF TableSlots, Slots
    <3>2. ASSUME NEW d \in TableSlots, NEW i \in Index, mem'[mem'[cr3'][d].frame][i].frame = f
          PROVE  mem[mem[cr3][d].frame][i].frame = f
      BY <2>1, <2>2, <2>3, <3>2 DEF TableSlots, Slots
    <3> QED BY <2>1, <2>4, <2>5, <3>1, <3>2 DEF MayBeTable
  <2>6. ASSUME NEW f \in Frames, MayBeTable(f)'
        PROVE  \A i \in Index : mem'[f][i] = mem[f][i]
    BY <2>1, <2>5, <2>6, NoTableYet, FreeEffect
  <2> QED BY <2>1, <2>5, <2>6, CleanKept
<1>5. CASE Start
  <2>1. cr3 # NoFrame /\ UNCHANGED <<mem, free, cr3, spaces, frame, table, pc>>
    BY <1>1, <1>5, HasDirectory DEF Start, locals
  <2>2. ASSUME NEW f \in Frames, MayBeTable(f)' PROVE MayBeTable(f)
    BY <2>1, <2>2 DEF MayBeTable, TableSlots
  <2> QED BY <2>1, <2>2, CleanKept
<1>6. ASSUME NEW t \in Threads, alloc_perm(t)
      PROVE  CleanInv'
  <2>1. cr3 # NoFrame /\ cr3 \in Frames
    BY <1>1, <1>6, HasDirectory
  <2>2. CASE ReadCursor(t) \/ LoadCursor(t) \/ StoreCursor(t) \/ FindTable(t)
    <3>1. /\ UNCHANGED <<mem, free, cr3, spaces, frame, table>>
          /\ \A u \in Threads : pc'[u] = "install" => pc[u] = "install"
      BY <1>1, <2>2, FindTableEffect
         DEF ReadCursor, LoadCursor, StoreCursor, Goto, shared, locals, TypeOK
    <3>2. ASSUME NEW f \in Frames, MayBeTable(f)' PROVE MayBeTable(f)
      BY <3>1, <3>2 DEF MayBeTable, TableSlots
    <3> QED BY <2>1, <3>1, <3>2, CleanKept
  <2>3. CASE AllocFrame(t)
    <3>1. /\ UNCHANGED <<mem, cr3, table>>
          /\ \A u \in Threads : pc'[u] = "install" => pc[u] = "install"
          /\ free' \subseteq free
          /\ \A u \in Threads : frame'[u] = frame[u] \/ frame'[u] \in free
      BY <1>1, <2>3, AllocFrameEffect DEF TypeOK
    <3>2. ASSUME NEW f \in Frames, MayBeTable(f)' PROVE MayBeTable(f)
      <4>1. TableSlots' = TableSlots
        BY <3>1 DEF TableSlots
      <4> QED BY <3>1, <3>2, <4>1 DEF MayBeTable
    <3> QED BY <2>1, <3>1, <3>2, CleanKept
  <2>4. CASE AllocTable(t)
    <3>1. /\ UNCHANGED <<mem, cr3, frame>> /\ free' \subseteq free
          /\ \A u \in Threads : pc'[u] = "install" =>
                \/ table'[u] \in free \/ (table'[u] = table[u] /\ pc[u] = "install")
      <4>1. /\ pc[t] = "table" /\ UNCHANGED <<mem, cr3, spaces, frame>>
            /\ \A u \in Threads \ {t} : pc'[u] = pc[u] /\ table'[u] = table[u]
            /\ \/ pc'[t] = "halted" /\ UNCHANGED <<free, table>>
               \/ table'[t] \in free /\ free' \subseteq free
        BY <1>1, <2>4, AllocTableEffect DEF TypeOK
      <4>2. free' \subseteq free
        BY <4>1
      <4>3. ASSUME NEW u \in Threads, pc'[u] = "install"
            PROVE  \/ table'[u] \in free \/ (table'[u] = table[u] /\ pc[u] = "install")
        <5>1. CASE u = t
          BY <4>1, <4>3, <5>1
        <5>2. CASE u # t
          BY <4>1, <4>3, <5>2
        <5> QED BY <5>1, <5>2
      <4> QED BY <4>1, <4>2, <4>3
    <3>2. ASSUME NEW f \in Frames, MayBeTable(f)' PROVE MayBeTable(f)
      <4>1. TableSlots' = TableSlots
        BY <3>1 DEF TableSlots
      <4> QED BY <3>1, <3>2, <4>1 DEF MayBeTable
    <3> QED BY <2>1, <3>1, <3>2, CleanKept
  <2>5. CASE InstallTable(t)
    <3> PICK g : g = table[t]
      OBVIOUS
    <3> PICK d : d = Dir(page[t])
      OBVIOUS
    <3>1. /\ pc[t] = "install" /\ pc'[t] = "mark" /\ g \in Frames
          /\ \A u \in Threads \ {t} : pc'[u] = pc[u]
          /\ UNCHANGED <<free, cr3, spaces, frame, table>>
      BY <1>1, <2>5 DEF InstallTable, Goto, locals, TypeOK, CallInv
    <3>2. d \in Slots /\ d \in Index
      BY <1>1, <3>1, WorkingOn DEF InCall
    <3>3. MayBeTable(g)
      BY <3>1 DEF MayBeTable
    <3>4. \A i \in Index : mem'[g][i].frame \notin Frames
      BY <2>1, <2>5, <3>1, <3>3, NoTableYet, InstallEffect, FrameFacts
    <3>5. mem'[cr3][d].frame = g /\ \A e \in Slots \ {d} : mem'[cr3][e] = mem[cr3][e]
      BY <2>1, <2>5, InstallEffect, FrameFacts
    <3>6. \A e \in Slots : mem[cr3][e].frame \in Frames => \A i \in Index :
             mem'[mem[cr3][e].frame][i] = mem[mem[cr3][e].frame][i]
      BY <2>1, <2>5, InstallEffect, TableFacts
    <3>7. ASSUME NEW f \in Frames, NEW e \in TableSlots', NEW i \in Index,
                 mem'[mem'[cr3'][e].frame][i].frame = f
          PROVE  e \in TableSlots /\ mem[mem[cr3][e].frame][i].frame = f
      BY <3>1, <3>4, <3>5, <3>6, <3>7 DEF TableSlots, Slots
    <3>8. ASSUME NEW f \in Frames, MayBeTable(f)' PROVE MayBeTable(f)
      BY <3>1, <3>7, <3>8 DEF MayBeTable
    <3>9. ASSUME NEW f \in Frames, MayBeTable(f)' PROVE \A i \in Index : mem'[f][i] = mem[f][i]
      BY <2>1, <2>5, <3>8, <3>9, NoTableYet, InstallEffect
    <3> QED BY <2>1, <3>8, <3>9, CleanKept
  <2>6. CASE MarkPresent(t)
    <3>1. /\ pc[t] = "mark" /\ pc'[t] = "clear"
          /\ \A u \in Threads \ {t} : pc'[u] = pc[u]
          /\ UNCHANGED <<free, cr3, spaces, frame, table>>
      BY <1>1, <2>6 DEF MarkPresent, Goto, locals, TypeOK
    <3>2. \A e \in Slots : mem'[cr3][e].frame = mem[cr3][e].frame
      BY <2>1, <2>6, MarkEffect, FrameFacts
    <3>3. \A e \in Slots : mem[cr3][e].frame \in Frames => \A i \in Index :
             mem'[mem[cr3][e].frame][i] = mem[mem[cr3][e].frame][i]
      BY <2>1, <2>6, MarkEffect, TableFacts
    <3>4. ASSUME NEW f \in Frames, NEW e \in TableSlots', NEW i \in Index,
                 mem'[mem'[cr3'][e].frame][i].frame = f
          PROVE  e \in TableSlots /\ mem[mem[cr3][e].frame][i].frame = f
      BY <3>1, <3>2, <3>3, <3>4 DEF TableSlots, Slots
    <3>5. ASSUME NEW f \in Frames, MayBeTable(f)' PROVE MayBeTable(f)
      BY <3>1, <3>4, <3>5 DEF MayBeTable
    <3>6. ASSUME NEW f \in Frames, MayBeTable(f)' PROVE \A i \in Index : mem'[f][i] = mem[f][i]
      BY <2>1, <2>6, <3>5, <3>6, NoTableYet, MarkEffect
    <3> QED BY <2>1, <3>5, <3>6, CleanKept
  <2>7. CASE ClearTable(t)
    <3>1. /\ pc[t] = "clear" /\ pc'[t] = "write"
          /\ \A u \in Threads \ {t} : pc'[u] = pc[u]
          /\ UNCHANGED <<free, cr3, spaces, frame, table>>
      BY <1>1, <2>7 DEF ClearTable, Goto, locals, TypeOK
    <3>2. Dir(page[t]) \in Slots /\ mem[cr3][Dir(page[t])].frame \in Frames
      BY <1>1, <3>1, WorkingOn DEF InCall
    <3>3. \A e \in Slots : mem'[cr3][e] = mem[cr3][e]
      BY <2>1, <2>7, <3>2, ClearEffect, TableFacts, FrameFacts
    <3>4. \A e \in Slots : mem[cr3][e].frame \in Frames => \A i \in Index :
             \/ mem'[mem[cr3][e].frame][i] = mem[mem[cr3][e].frame][i]
             \/ mem'[mem[cr3][e].frame][i].frame \notin Frames
      BY <2>1, <2>7, <3>2, ClearEffect, FrameFacts
    <3>5. ASSUME NEW f \in Frames, NEW e \in TableSlots', NEW i \in Index,
                 mem'[mem'[cr3'][e].frame][i].frame = f
          PROVE  e \in TableSlots /\ mem[mem[cr3][e].frame][i].frame = f
      BY <3>1, <3>3, <3>4, <3>5 DEF TableSlots, Slots
    <3>6. ASSUME NEW f \in Frames, MayBeTable(f)' PROVE MayBeTable(f)
      BY <3>1, <3>5, <3>6 DEF MayBeTable
    <3>7. ASSUME NEW f \in Frames, MayBeTable(f)' PROVE \A i \in Index : mem'[f][i] = mem[f][i]
      BY <2>1, <2>7, <3>2, <3>6, <3>7, NoTableYet, ClearEffect
    <3> QED BY <2>1, <3>6, <3>7, CleanKept
  <2>8. CASE WriteEntry(t)
    <3> PICK g : g = frame[t]
      OBVIOUS
    <3>1. /\ pc[t] = "write" /\ pc'[t] = "idle" /\ g \in Frames
          /\ \A u \in Threads \ {t} : pc'[u] = pc[u]
          /\ frame' = [frame EXCEPT ![t] = NoFrame] /\ table' = [table EXCEPT ![t] = NoFrame]
          /\ UNCHANGED <<free, cr3, spaces>>
      BY <1>1, <2>8 DEF WriteEntry, Goto, TypeOK, CallInv, HasFrame
    <3>2. Dir(page[t]) \in Slots /\ mem[cr3][Dir(page[t])].frame \in Frames
      BY <1>1, <3>1, WorkingOn DEF InCall
    <3>3. \A e \in Slots : mem'[cr3][e] = mem[cr3][e]
      BY <2>1, <2>8, <3>2, WriteEffect, TableFacts, FrameFacts
    <3>4. \A e \in Slots : mem[cr3][e].frame \in Frames => \A i \in Index :
             \/ mem'[mem[cr3][e].frame][i] = mem[mem[cr3][e].frame][i]
             \/ mem'[mem[cr3][e].frame][i].frame = g
      BY <2>1, <2>8, <3>1, <3>2, WriteEffect, FrameFacts
    <3>5. ASSUME NEW f \in Frames, NEW e \in TableSlots', NEW i \in Index,
                 mem'[mem'[cr3'][e].frame][i].frame = f
          PROVE  f = g \/ (e \in TableSlots /\ mem[mem[cr3][e].frame][i].frame = f)
      <4>1. e \in Slots /\ mem'[cr3][e] = mem[cr3][e] /\ mem[cr3][e].frame \in Frames
        BY <3>1, <3>3, <3>5 DEF TableSlots, Slots
      <4>2. mem'[mem[cr3][e].frame][i].frame = f
        BY <3>1, <3>5, <4>1
      <4>3. mem[mem[cr3][e].frame][i].frame = f \/ f = g
        BY <3>4, <4>1, <4>2
      <4>4. e \in TableSlots
        BY <4>1 DEF TableSlots, Slots
      <4> QED BY <4>3, <4>4
    <3>6. MayBeTable(g)
      BY DEF MayBeTable
    <3>7. /\ frame'[t] = NoFrame /\ table'[t] = NoFrame
          /\ \A u \in Threads \ {t} : frame'[u] = frame[u] /\ table'[u] = table[u]
      BY <1>1, <3>1 DEF TypeOK
    <3>8. ASSUME NEW f \in Frames, MayBeTable(f)' PROVE MayBeTable(f)
      <4>1. CASE f \in free'
        BY <3>1, <4>1 DEF MayBeTable
      <4>2. CASE \E e \in TableSlots' : \E i \in Index : mem'[mem'[cr3'][e].frame][i].frame = f
        <5>1. PICK e \in TableSlots', i \in Index : mem'[mem'[cr3'][e].frame][i].frame = f
          BY <4>2
        <5>2. f = g \/ (e \in TableSlots /\ mem[mem[cr3][e].frame][i].frame = f)
          BY <3>5, <5>1
        <5> QED BY <3>6, <5>2 DEF MayBeTable
      <4>3. CASE \E u \in Threads : frame'[u] = f
        BY <3>7, <4>3, FrameFacts DEF MayBeTable
      <4>4. CASE \E u \in Threads : table'[u] = f /\ pc'[u] = "install"
        BY <3>1, <3>7, <4>4, FrameFacts DEF MayBeTable
      <4> QED BY <3>8, <4>1, <4>2, <4>3, <4>4 DEF MayBeTable
    <3>9. ASSUME NEW f \in Frames, MayBeTable(f)' PROVE \A i \in Index : mem'[f][i] = mem[f][i]
      BY <2>1, <2>8, <3>2, <3>8, <3>9, NoTableYet, WriteEffect
    <3> QED BY <2>1, <3>8, <3>9, CleanKept
  <2> QED BY <1>6, <2>2, <2>3, <2>4, <2>5, <2>6, <2>7, <2>8 DEF alloc_perm
<1> QED BY <1>2, <1>3, <1>4, <1>5, <1>6 DEF Next

-----------------------------------------------------------------------------
(* Every address space has the kernel's tables.                            *)

\* A space's directory is written by nobody, and the one in use gets an entry
\* where no space has one.
LEMMA SpaceKept ==
  ASSUME SizeAssumption, Inv, cr3 # NoFrame, cr3' = cr3, spaces' = spaces,
         NEW t \in Threads,
         \A u \in Threads \ {t} : pc'[u] = pc[u] /\ page'[u] = page[u],
         \A s \in spaces : \A i \in Index : mem'[s][i] = mem[s][i],
         \A d \in Slots : \/ mem'[cr3][d] = mem[cr3][d]
                          \/ pc[t] \in Creates /\ Dir(page[t]) = d,
         pc'[t] \in Creates => /\ page'[t] = page[t]
                               /\ pc[t] \in Creates \/ ~mem[cr3][Dir(page[t])].present
  PROVE  SpaceInv' /\ SpacesShareKernel'
<1>1. SpaceInv /\ SpacesShareKernel
  BY DEF Inv
<1>2. ASSUME NEW s \in spaces', NEW d \in Slots, mem'[s][d].present
      PROVE  /\ mem'[s][d] = mem'[cr3'][d]
             /\ \A u \in Threads : pc'[u] \in Creates => Dir(page'[u]) # d
  <2>1. s \in spaces /\ d \in Index /\ mem'[s][d] = mem[s][d] /\ mem[s][d].present
    BY <1>2, FrameFacts
  <2>2. mem[s][d] = mem[cr3][d] /\ \A u \in Threads : pc[u] \in Creates => Dir(page[u]) # d
    BY <1>1, <2>1 DEF SpaceInv, SpacesShareKernel, Slots
  <2>3. mem'[cr3][d] = mem[cr3][d]
    BY <2>2
  <2>4. pc'[t] \in Creates => Dir(page'[t]) # d
    BY <2>1, <2>2
  <2> QED BY <2>1, <2>2, <2>3, <2>4
<1>3. \A s \in spaces' : mem'[s][Self] = Entry(s)
  BY <1>1, FrameFacts DEF SpacesShareKernel
<1> QED BY <1>2, <1>3 DEF SpaceInv, SpacesShareKernel, Slots

LEMMA SpaceStep ==
  ASSUME SizeAssumption, Inv, Next
  PROVE  SpaceInv' /\ SpacesShareKernel'
<1>1. /\ TypeOK /\ CallInv /\ DirectoryInv /\ SpaceInv /\ SpacesShareKernel
      /\ Bsp \in Threads /\ spaces \subseteq Frames
  BY DEF Inv, TypeOK, SizeAssumption
<1>2. cr3 # NoFrame => /\ cr3 \notin spaces
                       /\ \A s \in spaces : \A d \in Slots : mem[cr3][d].frame # s
  BY <1>1, OneUseOfEntry DEF DirectoryInv
<1>3. CASE virt_mem_init
  <2>1. spaces' = {}
    BY <1>3, CloneEffect DEF virt_mem_init, Fresh
  <2> QED BY <2>1 DEF SpaceInv, SpacesShareKernel
<1>4. CASE virt_mem_create_address_space
  <2> PICK dir : dir = FirstFree
    OBVIOUS
  <2>1. /\ cr3 \in Frames /\ cr3 # NoFrame /\ dir \in free /\ dir \in Frames
        /\ dir # cr3 /\ spaces' = spaces \cup {dir} /\ UNCHANGED <<cr3, pc>>
        /\ \A t \in Threads : pc'[t] = "idle"
    BY <1>4, CreateEffect DEF virt_mem_create_address_space, locals
  <2>2. \A f \in Frames : \A i \in Index :
           mem'[f][i] = IF \/ f = cr3 /\ i = Foreign
                           \/ f = dir /\ i \in {Self, Foreign}
                        THEN Entry(dir)
                        ELSE IF f = dir THEN mem[cr3][i] ELSE mem[f][i]
    BY <1>4, CreateEffect
  <2>3. mem'[dir][Self] = Entry(dir) /\ \A d \in Slots : mem'[dir][d] = mem'[cr3][d]
    BY <2>1, <2>2, FrameFacts DEF Slots
  <2>4. ASSUME NEW s \in spaces, s # dir
        PROVE  /\ mem'[s][Self] = Entry(s)
               /\ \A d \in Slots : mem'[s][d].present => mem'[s][d] = mem'[cr3][d]
    <3>1. s \in Frames /\ s # cr3
      BY <1>1, <1>2, <2>1
    <3>2. \A i \in Index : mem'[s][i] = mem[s][i]
      BY <2>2, <2>4, <3>1
    <3>3. \A d \in Slots : mem'[cr3][d] = mem[cr3][d]
      BY <2>1, <2>2, FrameFacts DEF Slots
    <3> QED BY <1>1, <2>4, <3>2, <3>3, FrameFacts DEF SpacesShareKernel, Slots
  <2> QED BY <2>1, <2>3, <2>4 DEF SpaceInv, SpacesShareKernel, Slots, Creates
<1>5. CASE \E v \in Pages : virt_mem_free_page(v)
  <2> PICK v \in Pages : virt_mem_free_page(v)
    BY <1>5
  <2>1. /\ cr3 \in Frames /\ cr3 # NoFrame /\ UNCHANGED <<spaces, cr3, pc, page>>
        /\ Dir(v) \in Slots /\ mem[cr3][Dir(v)].frame \in Frames /\ pc[Bsp] = "idle"
    BY FreeEffect DEF virt_mem_free_page, locals, BspAlone
  <2>2. \A d \in Slots : mem'[cr3][d] = mem[cr3][d]
    BY <2>1, FreeEffect, TableFacts, FrameFacts
  <2>3. \A s \in spaces : \A i \in Index : mem'[s][i] = mem[s][i]
    BY <1>1, <1>2, <2>1, FreeEffect
  <2> QED BY <1>1, <2>1, <2>2, <2>3, SpaceKept DEF Creates
<1>6. CASE Start
  <2>1. cr3 # NoFrame /\ UNCHANGED <<mem, cr3, spaces, pc, page>> /\ pc[Bsp] = "idle"
    BY <1>1, <1>6, HasDirectory DEF Start, locals, BspAlone
  <2> QED BY <1>1, <2>1, SpaceKept DEF Creates
<1>7. ASSUME NEW t \in Threads, alloc_perm(t)
      PROVE  SpaceInv' /\ SpacesShareKernel'
  <2>1. cr3 # NoFrame /\ cr3 \in Frames
    BY <1>1, <1>7, HasDirectory
  <2>2. CASE ReadCursor(t) \/ LoadCursor(t) \/ StoreCursor(t) \/ AllocFrame(t)
    <3>1. /\ UNCHANGED <<mem, spaces, cr3>> /\ pc'[t] \notin Creates
          /\ \A u \in Threads \ {t} : pc'[u] = pc[u] /\ page'[u] = page[u]
      BY <1>1, <2>2, AllocFrameEffect
         DEF ReadCursor, LoadCursor, StoreCursor, Goto, shared, locals, TypeOK, Creates
    <3> QED BY <2>1, <3>1, SpaceKept
  <2>3. CASE FindTable(t) \/ AllocTable(t)
    <3>1. /\ UNCHANGED <<mem, spaces, cr3, page>>
          /\ \A u \in Threads \ {t} : pc'[u] = pc[u]
          /\ pc'[t] \in Creates => pc[t] \in Creates \/ ~mem[cr3][Dir(page[t])].present
      <4>1. CASE FindTable(t)
        BY <1>1, <4>1, FindTableEffect DEF TypeOK, shared, locals, Creates
      <4>2. CASE AllocTable(t)
        BY <1>1, <4>2, AllocTableEffect DEF TypeOK, Creates
      <4> QED BY <2>3, <4>1, <4>2
    <3> QED BY <2>1, <3>1, SpaceKept
  <2>4. CASE InstallTable(t) \/ MarkPresent(t)
    <3>1. /\ UNCHANGED <<spaces, cr3, page>> /\ pc[t] \in Creates
          /\ \A u \in Threads \ {t} : pc'[u] = pc[u]
      BY <1>1, <2>4 DEF InstallTable, MarkPresent, Goto, locals, TypeOK, Creates
    <3>2. \A f \in Frames : \A i \in Index :
             f # cr3 \/ i # Dir(page[t]) => mem'[f][i] = mem[f][i]
      BY <2>4, InstallEffect, MarkEffect
    <3>3. \A s \in spaces : \A i \in Index : mem'[s][i] = mem[s][i]
      BY <1>1, <1>2, <2>1, <3>2
    <3>4. \A d \in Slots : mem'[cr3][d] = mem[cr3][d] \/ Dir(page[t]) = d
      BY <2>1, <3>2, FrameFacts
    <3> QED BY <2>1, <3>1, <3>3, <3>4, SpaceKept
  <2>5. CASE ClearTable(t) \/ WriteEntry(t)
    <3>1. /\ UNCHANGED <<spaces, cr3, page>> /\ pc[t] \in {"clear", "write"}
          /\ pc'[t] \notin Creates /\ \A u \in Threads \ {t} : pc'[u] = pc[u]
      BY <1>1, <2>5 DEF ClearTable, WriteEntry, Goto, locals, TypeOK, Creates
    <3>2. /\ Dir(page[t]) \in Slots /\ mem[cr3][Dir(page[t])].frame \in Frames
      BY <1>1, <3>1, WorkingOn DEF InCall
    <3>3. \A f \in Frames : \A i \in Index :
             f # mem[cr3][Dir(page[t])].frame => mem'[f][i] = mem[f][i]
      BY <2>5, ClearEffect, WriteEffect
    <3>4. \A s \in spaces : \A i \in Index : mem'[s][i] = mem[s][i]
      BY <1>1, <1>2, <2>1, <3>2, <3>3
    <3>5. \A d \in Slots : mem'[cr3][d] = mem[cr3][d]
      BY <2>1, <3>2, <3>3, TableFacts, FrameFacts
    <3> QED BY <2>1, <3>1, <3>4, <3>5, SpaceKept
  <2> QED BY <1>7, <2>2, <2>3, <2>4, <2>5 DEF alloc_perm
<1> QED BY <1>3, <1>4, <1>5, <1>6, <1>7 DEF Next

-----------------------------------------------------------------------------
(* No translation is left behind in a new table.                           *)

\* Thread t is between installing its table and having cleared it.
Clearing(t, d) == pc[t] \in {"mark", "clear"} /\ Dir(page[t]) = d

LEMMA StrayKept ==
  ASSUME NoStrayEntries, cr3 # NoFrame, cr3' = cr3, NEW t \in Threads,
         \A u \in Threads \ {t} : pc'[u] = pc[u] /\ page'[u] = page[u],
         \A d \in TableSlots' : \A i \in Index :
            mem'[mem'[cr3'][d].frame][i].frame = Junk =>
                \/ Clearing(t, d)'
                \/ /\ d \in TableSlots /\ mem[mem[cr3][d].frame][i].frame = Junk
                   /\ ~Clearing(t, d)
  PROVE  NoStrayEntries'
<1> SUFFICES ASSUME NEW d \in TableSlots', NEW i \in Index,
                    mem'[mem'[cr3'][d].frame][i].frame = Junk
             PROVE  \E u \in Threads : Clearing(u, d)'
  BY DEF NoStrayEntries, Clearing, Dir
<1>1. CASE Clearing(t, d)'
  BY <1>1
<1>2. CASE /\ d \in TableSlots /\ mem[mem[cr3][d].frame][i].frame = Junk
           /\ ~Clearing(t, d)
  <2>1. PICK u \in Threads : Clearing(u, d)
    BY <1>2 DEF NoStrayEntries, Clearing, Dir
  <2>2. u # t
    BY <1>2, <2>1
  <2> QED BY <2>1, <2>2 DEF Clearing, Dir
<1> QED BY <1>1, <1>2

LEMMA NoStrayStep ==
  ASSUME SizeAssumption, Inv, NoStrayEntries, Next
  PROVE  NoStrayEntries'
<1>1. TypeOK /\ CallInv /\ DirectoryInv /\ Bsp \in Threads
  BY DEF Inv, SizeAssumption
<1>2. CASE virt_mem_init
  <2>1. PICK copy \in [DOMAIN InitialTables -> Frames] :
           /\ \A i \in Index :
                 mem'[cr3'][i] = IF i = Self THEN Entry(cr3')
                                 ELSE IF i \in DOMAIN InitialTables THEN Entry(copy[i])
                                 ELSE NoEntry
           /\ \A d \in DOMAIN InitialTables : \A i \in Index :
                 mem'[copy[d]][i] = InitialTables[d][i]
    BY <1>2, CloneEffect
  <2>2. ASSUME NEW d \in TableSlots'
        PROVE  \A i \in Index : mem'[mem'[cr3'][d].frame][i].frame # Junk
    <3>1. d \in Index /\ d # Self /\ mem'[cr3'][d].frame \in Frames
      BY <2>2 DEF TableSlots
    <3>2. d \in DOMAIN InitialTables
      BY <2>1, <3>1, FrameFacts
    <3>3. mem'[cr3'][d].frame = copy[d]
      BY <2>1, <3>1, <3>2, FrameFacts
    <3> QED BY <2>1, <3>2, <3>3, FrameFacts
  <2> QED BY <2>2 DEF NoStrayEntries
<1>3. CASE virt_mem_create_address_space
  <2>1. /\ cr3 # NoFrame /\ cr3 \in Frames /\ FirstFree \in free
        /\ UNCHANGED <<cr3, pc, page>> /\ \A t \in Threads : pc[t] = "idle"
    BY <1>3, CreateEffect DEF virt_mem_create_address_space, locals
  <2>2. \A d \in Slots : mem'[cr3][d] = mem[cr3][d]
    BY <1>3, <2>1, CreateEffect, FrameFacts
  <2>3. \A d \in Slots : mem[cr3][d].frame \in Frames => \A i \in Index :
           mem'[mem[cr3][d].frame][i] = mem[mem[cr3][d].frame][i]
    BY <1>3, <2>1, CreateEffect, TableFacts
  <2>4. \A d \in TableSlots' : \A i \in Index :
           mem'[mem'[cr3'][d].frame][i].frame = Junk =>
               d \in TableSlots /\ mem[mem[cr3][d].frame][i].frame = Junk
    BY <2>1, <2>2, <2>3 DEF TableSlots, Slots
  <2>5. \A d : ~Clearing(Bsp, d)
    BY <1>1, <2>1 DEF Clearing
  <2> QED BY <1>1, <2>1, <2>4, <2>5, StrayKept
<1>4. CASE \E v \in Pages : virt_mem_free_page(v)
  <2> PICK v \in Pages : virt_mem_free_page(v)
    BY <1>4
  <2>1. /\ cr3 \in Frames /\ cr3 # NoFrame /\ UNCHANGED <<spaces, cr3, pc, page>>
        /\ Dir(v) \in Slots /\ mem[cr3][Dir(v)].frame \in Frames /\ pc[Bsp] = "idle"
    BY FreeEffect DEF virt_mem_free_page, locals, BspAlone
  <2>2. \A d \in Slots : mem'[cr3][d] = mem[cr3][d]
    BY <2>1, FreeEffect, TableFacts, FrameFacts
  <2>3. \A d \in Slots : mem[cr3][d].frame \in Frames => \A i \in Index :
           \/ mem'[mem[cr3][d].frame][i] = NoEntry
           \/ mem'[mem[cr3][d].frame][i] = mem[mem[cr3][d].frame][i]
    BY FreeEffect
  <2>4. \A d \in TableSlots' : \A i \in Index :
           mem'[mem'[cr3'][d].frame][i].frame = Junk =>
               d \in TableSlots /\ mem[mem[cr3][d].frame][i].frame = Junk
    BY <2>1, <2>2, <2>3 DEF TableSlots, Slots, NoEntry, Junk, NoFrame
  <2>5. \A d : ~Clearing(Bsp, d)
    BY <1>1, <2>1 DEF Clearing
  <2> QED BY <1>1, <2>1, <2>4, <2>5, StrayKept
<1>5. CASE Start
  <2>1. cr3 # NoFrame /\ UNCHANGED <<mem, cr3, pc, page>>
    BY <1>1, <1>5, HasDirectory DEF Start, locals
  <2> QED BY <2>1 DEF NoStrayEntries, TableSlots
<1>6. ASSUME NEW t \in Threads, alloc_perm(t)
      PROVE  NoStrayEntries'
  <2>1. cr3 # NoFrame /\ cr3 \in Frames
    BY <1>1, <1>6, HasDirectory
  <2>2. CASE \/ ReadCursor(t) \/ LoadCursor(t) \/ StoreCursor(t) \/ AllocFrame(t)
             \/ FindTable(t) \/ AllocTable(t)
    <3>1. /\ UNCHANGED <<mem, cr3>>
          /\ \A u \in Threads \ {t} : pc'[u] = pc[u] /\ page'[u] = page[u]
          /\ pc[t] \notin {"mark", "clear"}
      BY <1>1, <2>2, AllocFrameEffect, AllocTableEffect, FindTableEffect
         DEF ReadCursor, LoadCursor, StoreCursor, Goto, shared, locals, TypeOK
    <3>2. \A d : ~Clearing(t, d)
      BY <3>1 DEF Clearing
    <3> QED BY <2>1, <3>1, <3>2, StrayKept DEF TableSlots
  <2>3. CASE InstallTable(t)
    <3> PICK d : d = Dir(page[t])
      OBVIOUS
    <3>1. /\ pc[t] = "install" /\ pc'[t] = "mark" /\ UNCHANGED <<cr3, page>>
          /\ \A u \in Threads \ {t} : pc'[u] = pc[u]
      BY <1>1, <2>3 DEF InstallTable, Goto, locals, TypeOK
    <3>2. \A e \in Slots \ {d} : mem'[cr3][e] = mem[cr3][e]
      BY <2>1, <2>3, InstallEffect, FrameFacts
    <3>3. \A e \in Slots : mem[cr3][e].frame \in Frames => \A i \in Index :
             mem'[mem[cr3][e].frame][i] = mem[mem[cr3][e].frame][i]
      BY <2>1, <2>3, InstallEffect, TableFacts
    <3>4. ASSUME NEW e \in TableSlots', NEW i \in Index,
                 mem'[mem'[cr3'][e].frame][i].frame = Junk, e # d
          PROVE  e \in TableSlots /\ mem[mem[cr3][e].frame][i].frame = Junk
      BY <3>1, <3>2, <3>3, <3>4 DEF TableSlots, Slots
    <3>5. \A e : ~Clearing(t, e)
      BY <3>1 DEF Clearing
    <3>6. Clearing(t, d)'
      BY <3>1 DEF Clearing, Dir
    <3> QED BY <2>1, <3>1, <3>4, <3>5, <3>6, StrayKept
  <2>4. CASE MarkPresent(t)
    <3>1. /\ pc[t] = "mark" /\ pc'[t] = "clear" /\ UNCHANGED <<cr3, page>>
          /\ \A u \in Threads \ {t} : pc'[u] = pc[u]
      BY <1>1, <2>4 DEF MarkPresent, Goto, locals, TypeOK
    <3>2. \A e \in Slots : mem'[cr3][e].frame = mem[cr3][e].frame
      BY <2>1, <2>4, MarkEffect, FrameFacts
    <3>3. \A e \in Slots : mem[cr3][e].frame \in Frames => \A i \in Index :
             mem'[mem[cr3][e].frame][i] = mem[mem[cr3][e].frame][i]
      BY <2>1, <2>4, MarkEffect, TableFacts
    <3>4. ASSUME NEW e \in TableSlots', NEW i \in Index,
                 mem'[mem'[cr3'][e].frame][i].frame = Junk
          PROVE  e \in TableSlots /\ mem[mem[cr3][e].frame][i].frame = Junk
      BY <3>1, <3>2, <3>3, <3>4 DEF TableSlots, Slots
    <3>5. \A e : Clearing(t, e)' <=> Clearing(t, e)
      BY <3>1 DEF Clearing, Dir
    <3> QED BY <2>1, <3>1, <3>4, <3>5, StrayKept
  <2>5. CASE ClearTable(t)
    <3> PICK d : d = Dir(page[t])
      OBVIOUS
    <3>1. /\ pc[t] = "clear" /\ UNCHANGED <<cr3, page>>
          /\ \A u \in Threads \ {t} : pc'[u] = pc[u]
      BY <1>1, <2>5 DEF ClearTable, Goto, locals, TypeOK
    <3>2. d \in Slots /\ mem[cr3][d].frame \in Frames
      BY <1>1, <3>1, WorkingOn DEF InCall
    <3>3. \A f \in Frames : \A i \in Index :
             mem'[f][i] = IF f = mem[cr3][d].frame THEN NoEntry ELSE mem[f][i]
      BY <2>5, ClearEffect
    <3>4. \A e \in Slots : mem'[cr3][e] = mem[cr3][e]
      BY <2>1, <3>2, <3>3, TableFacts, FrameFacts
    <3>5. ASSUME NEW e \in TableSlots', NEW i \in Index,
                 mem'[mem'[cr3'][e].frame][i].frame = Junk
          PROVE  e # d /\ e \in TableSlots /\ mem[mem[cr3][e].frame][i].frame = Junk
      <4>1. e \in Slots /\ mem[cr3][e].frame \in Frames /\ mem'[cr3'][e] = mem[cr3][e]
        BY <3>1, <3>4, <3>5 DEF TableSlots, Slots
      <4>2. mem'[mem[cr3][e].frame][i].frame = Junk
        BY <3>5, <4>1
      <4>3. NoEntry.frame # Junk
        BY DEF NoEntry, NoFrame, Junk
      <4>4. mem[cr3][e].frame # mem[cr3][d].frame
        BY <3>3, <4>1, <4>2, <4>3
      <4> QED BY <3>3, <4>1, <4>2, <4>4 DEF TableSlots, Slots
    <3>6. \A e : Clearing(t, e) => e = d
      BY DEF Clearing
    <3> QED BY <2>1, <3>1, <3>5, <3>6, StrayKept
  <2>6. CASE WriteEntry(t)
    <3>1. /\ pc[t] = "write" /\ UNCHANGED <<cr3, page>> /\ frame[t] \in Frames
          /\ \A u \in Threads \ {t} : pc'[u] = pc[u]
      BY <1>1, <2>6 DEF WriteEntry, Goto, TypeOK, CallInv, HasFrame
    <3>2. Dir(page[t]) \in Slots /\ mem[cr3][Dir(page[t])].frame \in Frames
      BY <1>1, <3>1, WorkingOn DEF InCall
    <3>3. \A e \in Slots : mem'[cr3][e] = mem[cr3][e]
      BY <2>1, <2>6, <3>2, WriteEffect, TableFacts, FrameFacts
    <3>4. \A e \in Slots : mem[cr3][e].frame \in Frames => \A i \in Index :
             \/ mem'[mem[cr3][e].frame][i] = mem[mem[cr3][e].frame][i]
             \/ mem'[mem[cr3][e].frame][i].frame # Junk
      BY <2>1, <2>6, <3>1, <3>2, WriteEffect, FrameFacts
    <3>5. ASSUME NEW e \in TableSlots', NEW i \in Index,
                 mem'[mem'[cr3'][e].frame][i].frame = Junk
          PROVE  e \in TableSlots /\ mem[mem[cr3][e].frame][i].frame = Junk
      BY <3>1, <3>3, <3>4, <3>5 DEF TableSlots, Slots
    <3>6. \A e : ~Clearing(t, e)
      BY <3>1 DEF Clearing
    <3> QED BY <2>1, <3>1, <3>5, <3>6, StrayKept
  <2> QED BY <1>6, <2>2, <2>3, <2>4, <2>5, <2>6 DEF alloc_perm
<1> QED BY <1>2, <1>3, <1>4, <1>5, <1>6 DEF Next

-----------------------------------------------------------------------------
(* Calls that do not overlap.                                              *)

\* Only one call is in progress, and what it has not touched stays.
LEMMA CallsFacts ==
  ASSUME SizeAssumption, Inv, cr3 # NoFrame, ~overlapped
  PROVE  /\ OneCall /\ CursorInv /\ NewTableInv /\ GivenInv /\ MappedInv
         /\ \A t, u \in Threads : InCall(t) /\ t # u => ~InCall(u)
         /\ \A t \in Threads : \A v \in owned[t] :
               v \in Nat /\ Dir(v) \in Slots /\ Pos(v) \in Index
                         /\ mem[cr3][Dir(v)].frame \in Frames
<1>1. OneCall /\ CursorInv /\ NewTableInv /\ GivenInv /\ MappedInv
  BY DEF Inv, CallsInv
<1>2. ASSUME NEW t \in Threads, NEW v \in owned[t]
      PROVE  v \in Nat /\ Dir(v) \in Slots /\ Pos(v) \in Index
                       /\ mem[cr3][Dir(v)].frame \in Frames
  <2>1. v \in Nat /\ Dir(v) \in Slots /\ Dir(v) \in Index /\ Pos(v) \in Index
    BY PageFacts, FrameFacts DEF Inv, CallInv
  <2> QED BY <1>1, <2>1 DEF GivenInv, Inv, TypeOK
<1> QED BY <1>1, <1>2 DEF OneCall

\* Steps that change no translation
LEMMA MappingKept ==
  ASSUME SizeAssumption, Inv, cr3 # NoFrame, ~overlapped, cr3' = cr3, owned' = owned,
         mem_current' \in Nat, mem_current' >= mem_current,
         \A d \in Slots : mem'[cr3][d] = mem[cr3][d],
         \A d \in Slots : mem[cr3][d].frame \in Frames => \A i \in Index :
            mem'[mem[cr3][d].frame][i] = mem[mem[cr3][d].frame][i],
         \A t \in Threads : pc[t] = "mark" => pc'[t] = "mark" /\ page'[t] = page[t]
  PROVE  GivenInv' /\ MappedInv'
<1>1. mem_current \in Nat
  BY DEF Inv, TypeOK
<1>2. GivenInv'
  <2>1. ASSUME NEW t \in Threads, NEW v \in owned'[t]
        PROVE  /\ v < mem_current'
               /\ mem'[cr3'][Dir(v)].present
               /\ mem'[mem'[cr3'][Dir(v)].frame][Pos(v)].present
               /\ mem'[mem'[cr3'][Dir(v)].frame][Pos(v)].frame \in Frames
    <3>1. v \in owned[t] /\ v \in Nat /\ Dir(v) \in Slots /\ Pos(v) \in Index
          /\ mem[cr3][Dir(v)].frame \in Frames
      BY <2>1, CallsFacts
    <3>2. /\ v < mem_current /\ mem[cr3][Dir(v)].present
          /\ mem[mem[cr3][Dir(v)].frame][Pos(v)].present
          /\ mem[mem[cr3][Dir(v)].frame][Pos(v)].frame \in Frames
      BY <3>1, CallsFacts DEF GivenInv
    <3>3. v < mem_current'
      BY <1>1, <3>1, <3>2
    <3> QED BY <3>1, <3>2, <3>3
  <2>2. \A t, u \in Threads : \A v \in owned'[t] : v \in owned'[u] => t = u
    BY CallsFacts DEF GivenInv
  <2> QED BY <2>1, <2>2 DEF GivenInv
<1>3. MappedInv'
  <2> SUFFICES ASSUME NEW d \in TableSlots'
               PROVE  /\ ~mem'[cr3'][d].present =>
                            \E t \in Threads : pc'[t] = "mark" /\ Dir(page'[t]) = d
                      /\ \A i \in Index :
                            mem'[mem'[cr3'][d].frame][i].frame \in Frames => Given(d, i)'
    BY DEF MappedInv, Dir
  <2>1. d \in TableSlots /\ d \in Slots /\ mem'[cr3'][d] = mem[cr3][d]
    BY DEF TableSlots, Slots
  <2>2. ~mem[cr3][d].present => \E t \in Threads : pc[t] = "mark" /\ Dir(page[t]) = d
    BY <2>1, CallsFacts DEF MappedInv
  <2>3. \A i \in Index : mem[mem[cr3][d].frame][i].frame \in Frames => Given(d, i)
    BY <2>1, CallsFacts DEF MappedInv
  <2>4. \A i \in Index : mem'[mem[cr3][d].frame][i] = mem[mem[cr3][d].frame][i]
    BY <2>1 DEF TableSlots
  <2>5. \A i \in Index : Given(d, i)' <=> Given(d, i)
    BY DEF Given, Dir, Pos
  <2> QED BY <2>1, <2>2, <2>3, <2>4, <2>5
<1> QED BY <1>2, <1>3

\* A step of the only call decides what holds of calls.
LEMMA OnlyCall ==
  ASSUME SizeAssumption, TypeOK, NEW t \in Threads, \A u \in Threads \ {t} : ~InCall(u),
         \A u \in Threads \ {t} : pc'[u] = pc[u],
         CursorOf(t)' \/ ~InCall(t)', NewTableOf(t)'
  PROVE  OneCall' /\ CursorInv' /\ NewTableInv'
<1>1. \A u \in Threads \ {t} : ~InCall(u)' /\ pc'[u] \notin Creates /\ NewTableOf(u)'
  BY DEF InCall, Creates, NewTableOf
<1>2. \A u \in Threads : InCall(u)' => u = t
  BY <1>1
<1>3. OneCall'
  BY <1>2 DEF OneCall
<1>4. CursorInv'
  BY <1>2 DEF CursorInv
<1>5. NewTableInv'
  BY <1>1 DEF NewTableInv
<1> QED BY <1>3, <1>4, <1>5

\* Outside calls
LEMMA NoCall ==
  ASSUME \A t \in Threads : pc'[t] \in {"init", "idle"}
  PROVE  OneCall' /\ CursorInv' /\ NewTableInv'
BY DEF OneCall, CursorInv, NewTableInv, NewTableOf, InCall, Creates

\* The boot processor alone
LEMMA CallsBsp ==
  ASSUME SizeAssumption, Inv,
         virt_mem_init \/ virt_mem_create_address_space \/ Start
  PROVE  CallsInv'
<1>1. TypeOK /\ CallInv /\ Bsp \in Threads
  BY DEF Inv, SizeAssumption
<1>2. CASE virt_mem_init
  <2>1. /\ Fresh /\ UNCHANGED <<spaces, owned>> /\ pc' = [pc EXCEPT ![Bsp] = "idle"]
    BY <1>2, CloneEffect DEF virt_mem_init, Goto, locals
  <2>2. PICK copy \in [DOMAIN InitialTables -> Frames] :
           /\ \A i \in Index :
                 mem'[cr3'][i] = IF i = Self THEN Entry(cr3')
                                 ELSE IF i \in DOMAIN InitialTables THEN Entry(copy[i])
                                 ELSE NoEntry
           /\ \A d \in DOMAIN InitialTables : \A i \in Index :
                 mem'[copy[d]][i] = InitialTables[d][i]
    BY <1>2, CloneEffect
  <2>3. \A t \in Threads : pc'[t] = "idle" /\ owned'[t] = {}
    BY <1>1, <2>1 DEF Fresh, TypeOK
  <2>4. ASSUME NEW d \in TableSlots'
        PROVE  /\ mem'[cr3'][d].present
               /\ \A i \in Index : mem'[mem'[cr3'][d].frame][i].frame \notin Frames
    <3>1. d \in Index /\ d # Self /\ mem'[cr3'][d].frame \in Frames
      BY <2>4 DEF TableSlots
    <3>2. d \in DOMAIN InitialTables
      BY <2>2, <3>1, FrameFacts
    <3>3. mem'[cr3'][d] = Entry(copy[d]) /\ copy[d] \in Frames
      BY <2>2, <3>1, <3>2
    <3> QED BY <2>2, <3>2, <3>3, FrameFacts
  <2>5. GivenInv' /\ MappedInv'
    BY <2>3, <2>4 DEF GivenInv, MappedInv
  <2> QED BY <2>3, <2>5, NoCall DEF CallsInv
<1>3. CASE virt_mem_create_address_space
  <2>1. /\ cr3 # NoFrame /\ cr3 \in Frames /\ FirstFree \in free /\ ~started
        /\ UNCHANGED <<cr3, pc, page, owned, mem_current, overlapped>>
        /\ \A t \in Threads : pc'[t] = "idle"
    BY <1>3, CreateEffect DEF virt_mem_create_address_space, locals
  <2>2. ~overlapped /\ mem_current \in Nat
    BY <1>1, <2>1 DEF CallInv, TypeOK
  <2>3. \A d \in Slots : mem'[cr3][d] = mem[cr3][d]
    BY <1>3, <2>1, CreateEffect, FrameFacts
  <2>4. \A d \in Slots : mem[cr3][d].frame \in Frames => \A i \in Index :
           mem'[mem[cr3][d].frame][i] = mem[mem[cr3][d].frame][i]
    BY <1>3, <2>1, CreateEffect, TableFacts
  <2>5. GivenInv' /\ MappedInv'
    BY <2>1, <2>2, <2>3, <2>4, MappingKept
  <2> QED BY <2>1, <2>5, NoCall DEF CallsInv
<1>4. CASE Start
  <2>1. /\ cr3 # NoFrame /\ UNCHANGED <<mem, cr3, pc, page, owned, mem_current, overlapped>>
        /\ ~started
    BY <1>1, <1>4, HasDirectory DEF Start, BspAlone, locals
  <2>2. ~overlapped /\ mem_current \in Nat /\ \A t \in Threads : pc'[t] = "idle"
    BY <1>1, <1>4, <2>1 DEF CallInv, TypeOK, Start, BspAlone
  <2>3. GivenInv' /\ MappedInv'
    BY <2>1, <2>2, MappingKept
  <2> QED BY <2>2, <2>3, NoCall DEF CallsInv
<1> QED BY <1>2, <1>3, <1>4

LEMMA CallsFree ==
  ASSUME SizeAssumption, Inv, NEW v \in Pages, virt_mem_free_page(v)
  PROVE  CallsInv'
<1>1. TypeOK /\ CallInv /\ Bsp \in Threads
  BY DEF Inv, SizeAssumption
<1>2. /\ cr3 \in Frames /\ cr3 # NoFrame /\ ~started /\ ~overlapped
      /\ v \in Nat /\ v \in owned[Bsp] /\ Dir(v) \in Slots /\ Pos(v) \in Index
      /\ mem[cr3][Dir(v)].frame \in Frames
      /\ UNCHANGED <<cr3, pc, page, mem_current, overlapped>>
      /\ owned' = [owned EXCEPT ![Bsp] = @ \ {v}] /\ pc[Bsp] = "idle"
  BY FreeEffect DEF virt_mem_free_page, BspAlone, locals
<1>3. \A t \in Threads : pc'[t] = "idle"
  BY <1>1, <1>2 DEF CallInv
<1>4. \A d \in Slots : mem'[cr3][d] = mem[cr3][d]
  BY <1>2, FreeEffect, TableFacts, FrameFacts
<1>5. ASSUME NEW d \in Slots, mem[cr3][d].frame \in Frames, NEW i \in Index
      PROVE  IF d = Dir(v) /\ i = Pos(v) THEN mem'[mem[cr3][d].frame][i].frame \notin Frames
             ELSE mem'[mem[cr3][d].frame][i] = mem[mem[cr3][d].frame][i]
  BY <1>2, <1>5, FreeEffect, TableFacts, FrameFacts
<1>6. \A t \in Threads : owned'[t] = owned[t] \ {v}
  <2>1. \A t \in Threads \ {Bsp} : owned[t] = {}
    BY <1>1, <1>2 DEF CallInv
  <2> QED BY <1>1, <1>2, <2>1 DEF TypeOK
<1>7. GivenInv'
  <2>1. ASSUME NEW t \in Threads, NEW w \in owned'[t]
        PROVE  /\ w < mem_current'
               /\ mem'[cr3'][Dir(w)].present
               /\ mem'[mem'[cr3'][Dir(w)].frame][Pos(w)].present
               /\ mem'[mem'[cr3'][Dir(w)].frame][Pos(w)].frame \in Frames
    <3>1. w \in owned[t] /\ w # v
      BY <1>6, <2>1
    <3>2. w \in Nat /\ Dir(w) \in Slots /\ Pos(w) \in Index /\ mem[cr3][Dir(w)].frame \in Frames
      BY <1>2, <3>1, CallsFacts
    <3>3. ~(Dir(w) = Dir(v) /\ Pos(w) = Pos(v))
      BY <1>2, <3>1, <3>2, PageFacts
    <3>4. mem'[mem[cr3][Dir(w)].frame][Pos(w)] = mem[mem[cr3][Dir(w)].frame][Pos(w)]
      BY <1>5, <3>2, <3>3
    <3>5. /\ w < mem_current /\ mem[cr3][Dir(w)].present
          /\ mem[mem[cr3][Dir(w)].frame][Pos(w)].present
          /\ mem[mem[cr3][Dir(w)].frame][Pos(w)].frame \in Frames
      BY <1>2, <3>1, CallsFacts DEF GivenInv
    <3> QED BY <1>2, <1>4, <3>2, <3>4, <3>5
  <2>2. \A t, u \in Threads : \A w \in owned'[t] : w \in owned'[u] => t = u
    BY <1>2, <1>6, CallsFacts DEF GivenInv
  <2> QED BY <2>1, <2>2 DEF GivenInv
<1>8. MappedInv'
  <2> SUFFICES ASSUME NEW d \in TableSlots'
               PROVE  /\ mem'[cr3'][d].present
                      /\ \A i \in Index :
                            mem'[mem'[cr3'][d].frame][i].frame \in Frames => Given(d, i)'
    BY DEF MappedInv, Dir
  <2>1. d \in TableSlots /\ d \in Slots /\ mem'[cr3'][d] = mem[cr3][d]
        /\ mem[cr3][d].frame \in Frames
    BY <1>2, <1>4 DEF TableSlots, Slots
  <2>2. mem[cr3][d].present
    BY <1>2, <1>3, <2>1, CallsFacts DEF MappedInv
  <2>3. ASSUME NEW i \in Index, mem'[mem[cr3][d].frame][i].frame \in Frames
        PROVE  Given(d, i)'
    <3>1. ~(d = Dir(v) /\ i = Pos(v)) /\ mem[mem[cr3][d].frame][i].frame \in Frames
      BY <1>5, <2>1, <2>3
    <3>2. PICK t \in Threads : \E w \in owned[t] : Dir(w) = d /\ Pos(w) = i
      BY <1>2, <2>1, <3>1, CallsFacts DEF MappedInv, Given
    <3>3. \E w \in owned'[t] : Dir(w) = d /\ Pos(w) = i
      BY <1>6, <3>1, <3>2
    <3> QED BY <3>3 DEF Given, Dir, Pos
  <2> QED BY <2>1, <2>2, <2>3
<1> QED BY <1>3, <1>7, <1>8, NoCall DEF CallsInv

\* The steps that find a page, a frame, and whether there is a table
LEMMA CallsFind ==
  ASSUME SizeAssumption, Inv, ~overlapped', NEW t \in Threads,
         \/ ReadCursor(t) \/ LoadCursor(t) \/ StoreCursor(t) \/ AllocFrame(t)
         \/ FindTable(t) \/ AllocTable(t)
  PROVE  CallsInv'
<1>1. /\ TypeOK /\ CallInv /\ FirstPage \in Nat /\ cr3 # NoFrame /\ TypeOK'
      /\ \A u \in Threads : owned[u] \subseteq Nat
  BY HasDirectory, PageFacts, TypeStep DEF Inv, alloc_perm, Next, TypeOK
<1>2. ~overlapped /\ UNCHANGED <<mem, cr3, owned>>
  BY <1>1, AllocFrameEffect, AllocTableEffect, FindTableEffect
     DEF ReadCursor, LoadCursor, StoreCursor, shared
<1>3. /\ OneCall /\ CursorInv /\ NewTableInv /\ GivenInv /\ MappedInv
      /\ \A u \in Threads : InCall(t) /\ t # u => ~InCall(u)
  BY <1>1, <1>2, CallsFacts
<1>4. InCall(t) => CursorOf(t) /\ NewTableOf(t)
  BY <1>3 DEF CursorInv, NewTableInv
<1>5. CASE ReadCursor(t)
  <2>1. PICK current : /\ current = IF mem_current = 0 THEN FirstPage ELSE mem_current
                       /\ page' = [page EXCEPT ![t] = current] /\ mem_current' = current
    BY <1>5 DEF ReadCursor
  <2>2. /\ pc[t] = "idle" /\ pc' = [pc EXCEPT ![t] = "load"]
        /\ overlapped' = (overlapped \/ \E u \in Threads : InCall(u))
    BY <1>5 DEF ReadCursor, Goto
  <2>3. \A u \in Threads : ~InCall(u) /\ (u # t => pc'[u] = pc[u])
    BY <1>1, <2>2 DEF TypeOK
  <2>4. pc'[t] = "load" /\ page'[t] = current /\ current \in Nat /\ current >= mem_current
    BY <1>1, <2>1, <2>2 DEF TypeOK
  <2>5. \A u \in Threads : \A v \in owned'[u] : v < page'[t]
    <3>1. \A u \in Threads : \A v \in owned[u] : v \in Nat /\ v < mem_current
      BY <1>1, <1>3 DEF GivenInv
    <3> QED BY <1>1, <1>2, <2>4, <3>1 DEF TypeOK
  <2>6. CursorOf(t)' /\ NewTableOf(t)'
    BY <2>1, <2>4, <2>5 DEF CursorOf, NewTableOf, Creates
  <2>7. \A u \in Threads : pc[u] = "mark" => pc'[u] = "mark" /\ page'[u] = page[u]
    BY <2>3 DEF InCall
  <2>8. GivenInv' /\ MappedInv'
    BY <1>1, <1>2, <2>1, <2>4, <2>7, MappingKept
  <2>9. OneCall' /\ CursorInv' /\ NewTableInv'
    BY <1>1, <2>3, <2>6, OnlyCall
  <2> QED BY <2>8, <2>9 DEF CallsInv
<1>6. CASE \/ LoadCursor(t) \/ StoreCursor(t) \/ AllocFrame(t) \/ FindTable(t) \/ AllocTable(t)
  <2>1. /\ InCall(t) /\ pc[t] # "mark" /\ page' = page
        /\ \A u \in Threads \ {t} : pc'[u] = pc[u]
    BY <1>1, <1>6, AllocFrameEffect, AllocTableEffect, FindTableEffect
       DEF LoadCursor, StoreCursor, Goto, InCall, shared, locals, TypeOK
  <2>2. \A u \in Threads \ {t} : ~InCall(u)
    BY <1>3, <2>1
  <2>3. CursorOf(t) /\ NewTableOf(t) /\ page[t] \in Nat /\ mem_current \in Nat
    BY <1>1, <1>4, <2>1 DEF TypeOK
  <2>4. CursorOf(t)' /\ NewTableOf(t)' /\ mem_current' \in Nat /\ mem_current' >= mem_current
    <3>1. CASE LoadCursor(t)
      <4>1. /\ pc[t] = "load" /\ pc'[t] = "store" /\ loaded'[t] = mem_current
            /\ mem_current' = mem_current
        BY <1>1, <3>1 DEF LoadCursor, Goto, shared, TypeOK
      <4> QED BY <1>2, <2>1, <2>3, <4>1 DEF CursorOf, NewTableOf, Creates
    <3>2. CASE StoreCursor(t)
      <4>1. pc[t] = "store" /\ pc'[t] = "alloc" /\ mem_current' = loaded[t] + 1
        BY <1>1, <3>2 DEF StoreCursor, Goto, TypeOK
      <4> QED BY <1>2, <2>1, <2>3, <4>1 DEF CursorOf, NewTableOf, Creates
    <3>3. CASE AllocFrame(t)
      <4>1. pc[t] = "alloc" /\ pc'[t] \in {"halted", "find"} /\ mem_current' = mem_current
        BY <1>1, <3>3, AllocFrameEffect DEF TypeOK
      <4> QED BY <1>2, <2>1, <2>3, <4>1 DEF CursorOf, NewTableOf, Creates
    <3>4. CASE FindTable(t)
      <4>1. /\ pc[t] = "find" /\ mem_current' = mem_current
            /\ \/ pc'[t] = "write"
               \/ pc'[t] = "table" /\ ~mem[cr3][Dir(page[t])].present
        BY <1>1, <3>4, FindTableEffect DEF TypeOK, shared
      <4>2. ~mem[cr3][Dir(page[t])].present =>
               \A u \in Threads : \A v \in owned[u] : Dir(v) # Dir(page[t])
        BY <1>3 DEF GivenInv
      <4>3. CursorOf(t)'
        BY <1>2, <2>1, <2>3, <4>1 DEF CursorOf
      <4>4. NewTableOf(t)'
        BY <1>2, <2>1, <4>1, <4>2 DEF NewTableOf, Creates, Dir
      <4> QED BY <2>3, <4>1, <4>3, <4>4
    <3>5. CASE AllocTable(t)
      <4>1. pc[t] = "table" /\ pc'[t] \in {"halted", "install"} /\ mem_current' = mem_current
        BY <1>1, <3>5, AllocTableEffect DEF TypeOK
      <4>2. CursorOf(t)'
        BY <1>2, <2>1, <2>3, <4>1 DEF CursorOf
      <4>3. NewTableOf(t)'
        BY <1>2, <2>1, <2>3, <4>1 DEF NewTableOf, Creates, Dir
      <4> QED BY <2>3, <4>1, <4>2, <4>3
    <3> QED BY <1>6, <3>1, <3>2, <3>3, <3>4, <3>5
  <2>5. GivenInv' /\ MappedInv'
    BY <1>1, <1>2, <2>1, <2>4, MappingKept
  <2>6. OneCall' /\ CursorInv' /\ NewTableInv'
    BY <1>1, <2>1, <2>2, <2>4, OnlyCall
  <2> QED BY <2>5, <2>6 DEF CallsInv
<1> QED BY <1>5, <1>6

\* The steps that create a table: only its own entry and place change.
LEMMA CallsTable ==
  ASSUME SizeAssumption, Inv, ~overlapped', NEW t \in Threads,
         InstallTable(t) \/ MarkPresent(t) \/ ClearTable(t)
  PROVE  CallsInv'
<1> PICK d : d = Dir(page[t])
  OBVIOUS
<1>1. /\ TypeOK /\ CallInv /\ cr3 # NoFrame /\ cr3 \in Frames
      /\ \A u \in Threads : owned[u] \subseteq Nat
  BY HasDirectory DEF Inv, alloc_perm, TypeOK
<1>2. /\ ~overlapped /\ UNCHANGED <<cr3, owned, page, mem_current>>
      /\ pc[t] \in {"install", "mark", "clear"} /\ InCall(t) /\ pc[t] \in Creates
      /\ \A u \in Threads \ {t} : pc'[u] = pc[u]
      /\ pc'[t] = CASE pc[t] = "install" -> "mark" [] pc[t] = "mark" -> "clear"
                    [] pc[t] = "clear" -> "write"
  BY <1>1 DEF InstallTable, MarkPresent, ClearTable, Goto, locals, InCall, Creates, TypeOK
<1>3. /\ OneCall /\ CursorInv /\ NewTableInv /\ GivenInv /\ MappedInv
      /\ \A u \in Threads \ {t} : ~InCall(u)
      /\ \A u \in Threads : \A v \in owned[u] :
               v \in Nat /\ Dir(v) \in Slots /\ Pos(v) \in Index
                         /\ mem[cr3][Dir(v)].frame \in Frames
  BY <1>1, <1>2, CallsFacts
<1>4. CursorOf(t) /\ NewTableOf(t)
  BY <1>2, <1>3 DEF CursorInv, NewTableInv
<1>5. CursorOf(t)' /\ NewTableOf(t)'
  <2>1. pc'[t] \in {"mark", "clear", "write"}
    BY <1>2
  <2>2. CursorOf(t)'
    BY <1>2, <1>4, <2>1 DEF CursorOf
  <2>3. NewTableOf(t)'
    BY <1>2, <1>4, <2>1 DEF NewTableOf, Dir
  <2> QED BY <2>2, <2>3
<1>6. d \in Slots /\ d \in Index
  BY <1>2, WorkingOn DEF Inv
<1>7. \A u \in Threads : \A v \in owned[u] : Dir(v) # d
  BY <1>2, <1>4 DEF NewTableOf
<1>8. \A e \in Slots \ {d} : mem'[cr3][e] = mem[cr3][e]
  <2>1. CASE InstallTable(t)
    BY <1>1, <2>1, InstallEffect, FrameFacts
  <2>2. CASE MarkPresent(t)
    BY <1>1, <2>2, MarkEffect, FrameFacts
  <2>3. CASE ClearTable(t)
    <3>1. mem[cr3][d].frame \in Frames
      BY <1>2, <2>3, WorkingOn DEF ClearTable, Inv
    <3> QED BY <1>1, <1>6, <2>3, <3>1, ClearEffect, TableFacts, FrameFacts
  <2> QED BY <2>1, <2>2, <2>3
<1>9. \A e \in Slots \ {d} : mem[cr3][e].frame \in Frames => \A i \in Index :
         mem'[mem[cr3][e].frame][i] = mem[mem[cr3][e].frame][i]
  <2>1. CASE InstallTable(t)
    BY <1>1, <2>1, InstallEffect, TableFacts
  <2>2. CASE MarkPresent(t)
    BY <1>1, <2>2, MarkEffect, TableFacts
  <2>3. CASE ClearTable(t)
    <3>1. mem[cr3][d].frame \in Frames
      BY <1>2, <2>3, WorkingOn DEF ClearTable, Inv
    <3> QED BY <1>1, <1>6, <2>3, <3>1, ClearEffect, TableFacts
  <2> QED BY <2>1, <2>2, <2>3
<1>10. /\ ~mem'[cr3][d].present => pc'[t] = "mark"
       /\ mem'[cr3][d].frame \in Frames =>
             \A i \in Index : mem'[mem'[cr3][d].frame][i].frame \notin Frames
  <2>1. CASE InstallTable(t)
    <3>1. pc'[t] = "mark" /\ table[t] \in Frames /\ pc[t] = "install"
      BY <1>1, <1>2, <2>1 DEF InstallTable, CallInv
    <3>2. MayBeTable(table[t])
      BY <3>1 DEF MayBeTable
    <3>3. \A i \in Index : mem[table[t]][i] = JunkEntry /\ table[t] # cr3
      BY <1>1, <3>1, <3>2, NoTableYet
    <3>4. mem'[cr3][d].frame = table[t]
      BY <2>1, InstallEffect
    <3>5. \A i \in Index : mem'[table[t]][i] = JunkEntry
      BY <2>1, <3>1, <3>3, InstallEffect
    <3> QED BY <3>1, <3>4, <3>5, FrameFacts
  <2>2. CASE MarkPresent(t)
    <3>1. /\ mem'[cr3][d].present /\ mem'[cr3][d].frame = mem[cr3][d].frame
          /\ pc[t] = "mark"
      BY <2>2, MarkEffect DEF MarkPresent
    <3>2. mem[cr3][d].frame \in Frames => \A i \in Index :
             mem'[mem[cr3][d].frame][i] = mem[mem[cr3][d].frame][i]
      BY <1>1, <1>6, <2>2, MarkEffect, TableFacts
    <3>3. ASSUME mem[cr3][d].frame \in Frames, NEW i \in Index
          PROVE  mem[mem[cr3][d].frame][i].frame \notin Frames
      <4>1. mem[mem[cr3][d].frame][i].frame \in Frames => Given(d, i)
        BY <1>3, <1>6, <3>3 DEF MappedInv, TableSlots, Slots
      <4> QED BY <1>7, <4>1 DEF Given
    <3> QED BY <3>1, <3>2, <3>3
  <2>3. CASE ClearTable(t)
    <3>1. /\ mem[cr3][d].frame \in Frames /\ mem[cr3][d].present
      BY <1>1, <1>2, <2>3, WorkingOn DEF ClearTable, Inv, DirectoryInv
    <3>2. mem'[cr3][d] = mem[cr3][d]
      BY <1>1, <1>6, <2>3, <3>1, ClearEffect, TableFacts
    <3>3. \A i \in Index : mem'[mem[cr3][d].frame][i].frame \notin Frames
      BY <2>3, <3>1, ClearEffect, FrameFacts
    <3> QED BY <3>1, <3>2, <3>3
  <2> QED BY <2>1, <2>2, <2>3
<1>11. GivenInv'
  <2>1. ASSUME NEW u \in Threads, NEW v \in owned'[u]
        PROVE  /\ v < mem_current'
               /\ mem'[cr3'][Dir(v)].present
               /\ mem'[mem'[cr3'][Dir(v)].frame][Pos(v)].present
               /\ mem'[mem'[cr3'][Dir(v)].frame][Pos(v)].frame \in Frames
    <3>1. v \in owned[u] /\ v \in Nat /\ Dir(v) \in Slots \ {d} /\ Pos(v) \in Index
          /\ mem[cr3][Dir(v)].frame \in Frames
      BY <1>2, <1>3, <1>7, <2>1
    <3>2. /\ v < mem_current /\ mem[cr3][Dir(v)].present
          /\ mem[mem[cr3][Dir(v)].frame][Pos(v)].present
          /\ mem[mem[cr3][Dir(v)].frame][Pos(v)].frame \in Frames
      BY <1>3, <3>1 DEF GivenInv
    <3> QED BY <1>2, <1>8, <1>9, <3>1, <3>2
  <2>2. \A u, w \in Threads : \A v \in owned'[u] : v \in owned'[w] => u = w
    BY <1>2, <1>3 DEF GivenInv
  <2> QED BY <2>1, <2>2 DEF GivenInv
<1>12. MappedInv'
  <2> SUFFICES ASSUME NEW e \in TableSlots'
               PROVE  /\ ~mem'[cr3'][e].present =>
                            \E u \in Threads : pc'[u] = "mark" /\ Dir(page'[u]) = e
                      /\ \A i \in Index :
                            mem'[mem'[cr3'][e].frame][i].frame \in Frames => Given(e, i)'
    BY DEF MappedInv, Dir
  <2>1. e \in Slots /\ mem'[cr3][e].frame \in Frames
    BY <1>2 DEF TableSlots, Slots
  <2>2. CASE e = d
    BY <1>2, <1>10, <2>1, <2>2
  <2>3. CASE e # d
    <3>1. mem'[cr3][e] = mem[cr3][e] /\ e \in TableSlots
      BY <1>8, <2>1, <2>3 DEF TableSlots, Slots
    <3>2. ~\E u \in Threads : pc[u] = "mark" /\ Dir(page[u]) = e
      BY <1>3, <2>3 DEF InCall
    <3>3. mem[cr3][e].present
      BY <1>3, <3>1, <3>2 DEF MappedInv
    <3>4. \A i \in Index : mem[mem[cr3][e].frame][i].frame \in Frames => Given(e, i)
      BY <1>3, <3>1 DEF MappedInv
    <3>5. \A i \in Index : Given(e, i)' <=> Given(e, i)
      BY <1>2 DEF Given, Dir, Pos
    <3> QED BY <1>2, <1>9, <2>1, <2>3, <3>1, <3>3, <3>4, <3>5
  <2> QED BY <2>2, <2>3
<1>13. OneCall' /\ CursorInv' /\ NewTableInv'
  BY <1>1, <1>2, <1>3, <1>5, OnlyCall
<1> QED BY <1>11, <1>12, <1>13 DEF CallsInv

\* The page is given, with its frame.
LEMMA CallsWrite ==
  ASSUME SizeAssumption, Inv, ~overlapped', NEW t \in Threads, WriteEntry(t)
  PROVE  CallsInv'
<1> PICK d, j, p : d = Dir(page[t]) /\ j = Pos(page[t]) /\ p = page[t]
  OBVIOUS
<1>1. /\ TypeOK /\ CallInv /\ DirectoryInv /\ cr3 # NoFrame /\ cr3 \in Frames
      /\ \A u \in Threads : owned[u] \subseteq Nat
  BY HasDirectory DEF Inv, alloc_perm, TypeOK
<1>2. /\ ~overlapped /\ UNCHANGED <<cr3, page, mem_current>> /\ InCall(t)
      /\ pc[t] = "write" /\ pc'[t] = "idle" /\ \A u \in Threads \ {t} : pc'[u] = pc[u]
      /\ owned' = [owned EXCEPT ![t] = @ \cup {p}] /\ frame[t] \in Frames
  BY <1>1 DEF WriteEntry, Goto, InCall, TypeOK, CallInv, HasFrame
<1>3. /\ OneCall /\ CursorInv /\ NewTableInv /\ GivenInv /\ MappedInv
      /\ \A u \in Threads \ {t} : ~InCall(u)
      /\ \A u \in Threads : \A v \in owned[u] :
               v \in Nat /\ Dir(v) \in Slots /\ Pos(v) \in Index
                         /\ mem[cr3][Dir(v)].frame \in Frames
  BY <1>1, <1>2, CallsFacts
<1>4. /\ mem_current = p + 1 /\ \A u \in Threads : \A v \in owned[u] : v < p
      /\ p \in Nat /\ d \in Slots /\ j \in Index /\ mem[cr3][d].frame \in Frames
      /\ mem[cr3][d].present
  BY <1>1, <1>2, <1>3, WorkingOn DEF CursorInv, CursorOf, DirectoryInv
<1>5. \A e \in Slots : mem'[cr3][e] = mem[cr3][e]
  BY <1>1, <1>4, WriteEffect, TableFacts, FrameFacts
<1>6. ASSUME NEW e \in Slots, mem[cr3][e].frame \in Frames, NEW i \in Index
      PROVE  mem'[mem[cr3][e].frame][i] =
                IF e = d /\ i = j THEN Entry(frame[t]) ELSE mem[mem[cr3][e].frame][i]
  BY <1>1, <1>4, <1>6, WriteEffect, TableFacts, FrameFacts
<1>7. \A u \in Threads : owned'[u] = IF u = t THEN owned[u] \cup {p} ELSE owned[u]
  BY <1>1, <1>2 DEF TypeOK
<1>8. GivenInv'
  <2>1. ASSUME NEW u \in Threads, NEW v \in owned'[u]
        PROVE  /\ v < mem_current'
               /\ mem'[cr3'][Dir(v)].present
               /\ mem'[mem'[cr3'][Dir(v)].frame][Pos(v)].present
               /\ mem'[mem'[cr3'][Dir(v)].frame][Pos(v)].frame \in Frames
    <3>1. CASE v = p
      BY <1>2, <1>4, <1>5, <1>6, <3>1, FrameFacts
    <3>2. CASE v # p
      <4>1. v \in owned[u] /\ v \in Nat /\ Dir(v) \in Slots /\ Pos(v) \in Index
            /\ mem[cr3][Dir(v)].frame \in Frames
        BY <1>3, <1>7, <2>1, <3>2
      <4>2. ~(Dir(v) = d /\ Pos(v) = j)
        BY <1>4, <3>2, <4>1, PageFacts
      <4>3. /\ v < mem_current /\ mem[cr3][Dir(v)].present
            /\ mem[mem[cr3][Dir(v)].frame][Pos(v)].present
            /\ mem[mem[cr3][Dir(v)].frame][Pos(v)].frame \in Frames
        BY <1>3, <4>1 DEF GivenInv
      <4> QED BY <1>2, <1>5, <1>6, <4>1, <4>2, <4>3
    <3> QED BY <3>1, <3>2
  <2>2. ASSUME NEW u \in Threads, NEW w \in Threads, NEW v \in owned'[u], v \in owned'[w]
        PROVE  u = w
    <3>1. \A x \in Threads : p \notin owned[x]
      BY <1>4
    <3> QED BY <1>3, <1>7, <2>2, <3>1 DEF GivenInv
  <2> QED BY <2>1, <2>2 DEF GivenInv
<1>9. MappedInv'
  <2> SUFFICES ASSUME NEW e \in TableSlots'
               PROVE  /\ mem'[cr3'][e].present
                      /\ \A i \in Index :
                            mem'[mem'[cr3'][e].frame][i].frame \in Frames => Given(e, i)'
    BY DEF MappedInv, Dir
  <2>1. e \in Slots /\ mem[cr3][e].frame \in Frames /\ mem'[cr3'][e] = mem[cr3][e]
        /\ e \in TableSlots
    BY <1>2, <1>5 DEF TableSlots, Slots
  <2>2. mem[cr3][e].present
    <3>1. \A u \in Threads : pc[u] # "mark"
      BY <1>2, <1>3 DEF InCall
    <3> QED BY <1>3, <2>1, <3>1 DEF MappedInv
  <2>3. ASSUME NEW i \in Index, mem'[mem[cr3][e].frame][i].frame \in Frames
        PROVE  Given(e, i)'
    <3>1. CASE e = d /\ i = j
      <4>1. p \in owned'[t] /\ Dir(p) = e /\ Pos(p) = i
        BY <1>7, <3>1
      <4> QED BY <4>1 DEF Given, Dir, Pos
    <3>2. CASE ~(e = d /\ i = j)
      <4>1. mem[mem[cr3][e].frame][i].frame \in Frames
        BY <1>6, <2>1, <2>3, <3>2
      <4>2. PICK u \in Threads : \E v \in owned[u] : Dir(v) = e /\ Pos(v) = i
        BY <1>3, <2>1, <4>1 DEF MappedInv, Given
      <4>3. \E v \in owned'[u] : Dir(v) = e /\ Pos(v) = i
        BY <1>7, <4>2
      <4> QED BY <4>3 DEF Given, Dir, Pos
    <3> QED BY <3>1, <3>2
  <2> QED BY <2>1, <2>2, <2>3
<1>10. OneCall' /\ CursorInv' /\ NewTableInv'
  <2>1. ~InCall(t)' /\ NewTableOf(t)'
    BY <1>2 DEF InCall, NewTableOf, Creates
  <2> QED BY <1>1, <1>2, <1>3, <2>1, OnlyCall
<1> QED BY <1>8, <1>9, <1>10 DEF CallsInv

LEMMA CallsStep ==
  ASSUME SizeAssumption, Inv, Next
  PROVE  CallsInv'
<1>1. CASE overlapped'
  BY <1>1 DEF CallsInv
<1>2. CASE ~overlapped'
  BY <1>2, CallsBsp, CallsFree, CallsFind, CallsTable, CallsWrite DEF Next, alloc_perm
<1> QED BY <1>1, <1>2

-----------------------------------------------------------------------------
(* The invariant.                                                          *)

LEMMA InvInit ==
  ASSUME SizeAssumption, Init
  PROVE  Inv /\ NoStrayEntries
<1>1. Bsp \in Threads /\ FirstPage \in Nat
  BY PageFacts DEF SizeAssumption
<1>2. TypeOK
  BY <1>1, FrameFacts DEF Init, TypeOK, Steps
<1>3. cr3 = NoFrame /\ Fresh
  BY DEF Init, Fresh
<1>4. CallInv
  BY <1>1, <1>3 DEF Init, CallInv, InCall, HasFrame
<1>5. SpaceInv /\ SpacesShareKernel
  BY DEF Init, SpaceInv, SpacesShareKernel
<1>6. DirectoryInv /\ UseInv /\ CleanInv /\ CallsInv /\ NoStrayEntries
  BY <1>3 DEF DirectoryInv, UseInv, CleanInv, CallsInv, NoStrayEntries
<1> QED BY <1>2, <1>4, <1>5, <1>6 DEF Inv

LEMMA InvNext ==
  ASSUME SizeAssumption, Inv, NoStrayEntries, [Next]_vars
  PROVE  Inv' /\ NoStrayEntries'
<1>1. CASE Next
  BY <1>1, TypeStep, CallStep, DirectoryStep, UseStep, CleanStep, SpaceStep, CallsStep,
     NoStrayStep DEF Inv
<1>2. CASE UNCHANGED vars
  <2>1. UNCHANGED <<mem, free, cr3, spaces, started, mem_current, overlapped, pc, page,
                    loaded, frame, table, owned>>
    BY <1>2 DEF vars, shared, locals
  <2>2. TypeOK' /\ CallInv' /\ SpacesShareKernel' /\ SpaceInv' /\ DirectoryInv'
    BY <2>1 DEF Inv, TypeOK, CallInv, Fresh, InCall, SpacesShareKernel, SpaceInv, DirectoryInv
  <2>3. TableSlots' = TableSlots /\ NoStrayEntries'
    BY <2>1 DEF TableSlots, NoStrayEntries
  <2>4. \A f, k, a, c : Use(f, k, a, c)' <=> Use(f, k, a, c)
    BY <2>1 DEF Use
  <2>5. UseInv'
    BY <2>1, <2>4 DEF Inv, UseInv
  <2>6. CleanInv'
    BY <2>1, <2>3 DEF Inv, CleanInv, MayBeTable
  <2>7. CallsInv'
    BY <2>1, <2>3 DEF Inv, CallsInv, OneCall, CursorInv, CursorOf, NewTableInv, NewTableOf,
       GivenInv, MappedInv, Given, InCall, Dir, Pos
  <2> QED BY <2>2, <2>3, <2>5, <2>6, <2>7 DEF Inv
<1> QED BY <1>1, <1>2

\* The inductive invariant holds of every behaviour: what the calls hold, what
\* the directory names, one use of a frame, and the order of calls.
THEOREM InvHolds == SizeAssumption => (Spec => [](Inv /\ NoStrayEntries))
<1> SUFFICES ASSUME SizeAssumption PROVE Spec => [](Inv /\ NoStrayEntries)
  OBVIOUS
<1>1. Init => Inv /\ NoStrayEntries
  BY InvInit
<1>2. Inv /\ NoStrayEntries /\ [Next]_vars => (Inv /\ NoStrayEntries)'
  BY InvNext
<1> QED BY <1>1, <1>2, PTL DEF Spec

\* In the form of Uses: a tuple for every use
LEMMA UsesAre ==
  ASSUME SizeAssumption, Inv, cr3 # NoFrame, NEW f \in Frames
  PROVE  /\ \A x \in Uses(f) : \E k, a, c : /\ Use(f, k, a, c)
               /\ x = <<k, IF k = "directory" THEN f ELSE IF k = "page" THEN <<a, c>> ELSE a>>
         /\ (\E k, a, c : Use(f, k, a, c)) => Uses(f) # {}
<1> DEFINE Named(k, a, c) == <<k, IF k = "directory" THEN f ELSE IF k = "page" THEN <<a, c>> ELSE a>>
           Directories == {"directory"} \X {s \in spaces \cup {cr3} : s = f}
           Tables == {"table"} \X {d \in TableSlots : mem[cr3][d].frame = f}
           Mapped == {"page"} \X
              {p \in TableSlots \X Index : mem[mem[cr3][p[1]].frame][p[2]].frame = f}
           Physical == {"phys"} \X {t \in Threads : frame[t] = f}
           NewTables == {"table_phys"} \X {t \in Threads : table[t] = f /\ pc[t] = "install"}
<1>1. Uses(f) = Directories \cup Tables \cup Mapped \cup Physical \cup NewTables
  BY DEF Uses
<1>2. \A x \in Directories : \E k, a, c : Use(f, k, a, c) /\ x = Named(k, a, c)
  <2> SUFFICES ASSUME f \in spaces \cup {cr3}, NEW x, x = <<"directory", f>>
               PROVE  \E k, a, c : Use(f, k, a, c) /\ x = Named(k, a, c)
    OBVIOUS
  <2>1. Use(f, "directory", 0, 0)
    BY DEF Use
  <2> QED BY <2>1
<1>3. \A x \in Tables : \E k, a, c : Use(f, k, a, c) /\ x = Named(k, a, c)
  <2> SUFFICES ASSUME NEW d \in TableSlots, mem[cr3][d].frame = f, NEW x, x = <<"table", d>>
               PROVE  \E k, a, c : Use(f, k, a, c) /\ x = Named(k, a, c)
    OBVIOUS
  <2>1. Use(f, "table", d, 0)
    BY DEF Use, TableSlots, Slots
  <2> QED BY <2>1
<1>4. \A x \in Mapped : \E k, a, c : Use(f, k, a, c) /\ x = Named(k, a, c)
  <2> SUFFICES ASSUME NEW d \in TableSlots, NEW i \in Index,
                      mem[mem[cr3][d].frame][i].frame = f, NEW x, x = <<"page", <<d, i>>>>
               PROVE  \E k, a, c : Use(f, k, a, c) /\ x = Named(k, a, c)
    OBVIOUS
  <2>1. Use(f, "page", d, i)
    BY DEF Use, TableSlots, Slots
  <2> QED BY <2>1
<1>5. \A x \in Physical : \E k, a, c : Use(f, k, a, c) /\ x = Named(k, a, c)
  <2> SUFFICES ASSUME NEW t \in Threads, frame[t] = f, NEW x, x = <<"phys", t>>
               PROVE  \E k, a, c : Use(f, k, a, c) /\ x = Named(k, a, c)
    OBVIOUS
  <2>1. Use(f, "phys", t, 0)
    BY DEF Use
  <2> QED BY <2>1
<1>6. \A x \in NewTables : \E k, a, c : Use(f, k, a, c) /\ x = Named(k, a, c)
  <2> SUFFICES ASSUME NEW t \in Threads, table[t] = f, pc[t] = "install",
                      NEW x, x = <<"table_phys", t>>
               PROVE  \E k, a, c : Use(f, k, a, c) /\ x = Named(k, a, c)
    OBVIOUS
  <2>1. Use(f, "table_phys", t, 0)
    BY DEF Use
  <2> QED BY <2>1
<1>7. ASSUME NEW k, NEW a, NEW c, Use(f, k, a, c)
      PROVE  Uses(f) # {}
  <2>1. k = "directory" => <<"directory", f>> \in Directories
    BY <1>7 DEF Use
  <2>2. k = "table" => <<"table", a>> \in Tables
    BY <1>7 DEF Use, TableSlots, Slots
  <2>3. k = "page" => <<"page", <<a, c>>>> \in Mapped
    BY <1>7 DEF Use, TableSlots, Slots
  <2>4. k = "phys" => <<"phys", a>> \in Physical
    BY <1>7 DEF Use
  <2>5. k = "table_phys" => <<"table_phys", a>> \in NewTables
    BY <1>7 DEF Use
  <2>6. k \in {"directory", "table", "page", "phys", "table_phys"}
    BY <1>7 DEF Use
  <2> HIDE DEF Directories, Tables, Mapped, Physical, NewTables
  <2> QED BY <1>1, <2>1, <2>2, <2>3, <2>4, <2>5, <2>6
<1> HIDE DEF Directories, Tables, Mapped, Physical, NewTables
<1>8. \A x \in Uses(f) : \E k, a, c : Use(f, k, a, c) /\ x = Named(k, a, c)
  BY <1>1, <1>2, <1>3, <1>4, <1>5, <1>6
<1> QED BY <1>7, <1>8

LEMMA OneUse ==
  ASSUME SizeAssumption, Inv
  PROVE  FrameHasOneUse
<1> SUFFICES ASSUME cr3 # NoFrame, NEW f \in Frames
             PROVE  Cardinality(Uses(f)) <= 1 /\ (f \in free => Uses(f) = {})
  BY DEF FrameHasOneUse
<1>1. /\ \A k, a, c, l, b, e : Use(f, k, a, c) /\ Use(f, l, b, e) => k = l /\ a = b /\ c = e
      /\ f \in free => \A k, a, c : ~Use(f, k, a, c)
  BY DEF Inv, UseInv
<1>2. \A x, y \in Uses(f) : x = y
  BY <1>1, UsesAre
<1>3. f \in free => Uses(f) = {}
  BY <1>1, UsesAre
<1>4. CASE Uses(f) = {}
  BY <1>3, <1>4, FS_EmptySet
<1>5. CASE Uses(f) # {}
  <2>1. PICK x : x \in Uses(f)
    BY <1>5
  <2>2. Uses(f) = {x}
    BY <1>2, <2>1
  <2>3. Cardinality({x}) = 1
    BY FS_Singleton
  <2> QED BY <1>3, <2>2, <2>3
<1> QED BY <1>4, <1>5

-----------------------------------------------------------------------------
(* No frame is lost.                                                       *)

Accounted(f) == f \in free \/ \E k, a, c : Use(f, k, a, c)

\* Every frame is free or has a use.
LostInv == cr3 # NoFrame /\ ~overlapped => \A f \in Frames : Accounted(f)

\* Steps outside calls
LEMMA LostBsp ==
  ASSUME SizeAssumption, Inv, LostInv,
         virt_mem_init \/ virt_mem_create_address_space \/ Start
                       \/ \E v \in Pages : virt_mem_free_page(v)
  PROVE  LostInv'
<1>1. TypeOK /\ CallInv /\ DirectoryInv
  BY DEF Inv
<1>2. CASE virt_mem_init
  <2>1. PICK copy \in [DOMAIN InitialTables -> Frames] :
           /\ free' = Frames \ ({copy[d] : d \in DOMAIN InitialTables} \cup {cr3'})
           /\ \A i \in Index :
                 mem'[cr3'][i] = IF i = Self THEN Entry(cr3')
                                 ELSE IF i \in DOMAIN InitialTables THEN Entry(copy[i])
                                 ELSE NoEntry
    BY <1>2, CloneEffect
  <2>2. ASSUME NEW f \in Frames, f \notin free', f # cr3'
        PROVE  \E d : Use(f, "table", d, 0)'
    <3>1. PICK d \in DOMAIN InitialTables : f = copy[d]
      BY <2>1, <2>2
    <3>2. d \in Slots /\ d \in Index /\ mem'[cr3'][d].frame = f
      BY <2>1, <3>1, FrameFacts
    <3> QED BY <3>2 DEF Use
  <2>3. \A f : f = cr3' => Use(f, "directory", 0, 0)'
    BY DEF Use
  <2>4. \A f \in Frames : Accounted(f)'
    BY <2>2, <2>3 DEF Accounted
  <2> QED BY <2>4 DEF LostInv
<1>3. CASE virt_mem_create_address_space
  <2> PICK dir : dir = FirstFree
    OBVIOUS
  <2>1. /\ cr3 # NoFrame /\ cr3 \in Frames /\ dir \in free /\ ~started
        /\ UNCHANGED <<cr3, pc, frame, table, overlapped>>
        /\ spaces' = spaces \cup {dir} /\ free' = free \ {dir}
    BY <1>3, CreateEffect DEF virt_mem_create_address_space, locals
  <2>2. ~overlapped
    BY <1>1, <2>1 DEF CallInv
  <2>3. \A d \in Slots : mem'[cr3][d] = mem[cr3][d]
    BY <1>3, <2>1, CreateEffect, FrameFacts
  <2>4. \A d \in Slots : mem[cr3][d].frame \in Frames => \A i \in Index :
           mem'[mem[cr3][d].frame][i] = mem[mem[cr3][d].frame][i]
    BY <1>3, <2>1, CreateEffect, TableFacts
  <2>5. \A f \in Frames : \A k, a, c : Use(f, k, a, c) => Use(f, k, a, c)'
    BY <2>1, <2>3, <2>4 DEF Use
  <2>6. Use(dir, "directory", 0, 0)'
    BY <2>1 DEF Use
  <2>7. \A f \in Frames : Accounted(f)'
    BY <2>1, <2>2, <2>5, <2>6 DEF LostInv, Accounted
  <2> QED BY <2>7 DEF LostInv
<1>4. CASE Start
  <2>1. cr3 # NoFrame /\ UNCHANGED <<mem, free, cr3, spaces, pc, frame, table, overlapped>>
    BY <1>1, <1>4, HasDirectory DEF Start, locals
  <2>2. \A f, k, a, c : Use(f, k, a, c) => Use(f, k, a, c)'
    BY <2>1 DEF Use
  <2>3. ASSUME NEW f, Accounted(f) PROVE Accounted(f)'
    BY <2>1, <2>2, <2>3 DEF Accounted
  <2> QED BY <2>1, <2>3 DEF LostInv
<1>5. CASE \E v \in Pages : virt_mem_free_page(v)
  <2> PICK v \in Pages : virt_mem_free_page(v)
    BY <1>5
  <2> PICK g : g = mem[mem[cr3][Dir(v)].frame][Pos(v)].frame
    OBVIOUS
  <2>1. /\ cr3 \in Frames /\ cr3 # NoFrame /\ g \in Frames /\ free' = free \cup {g}
        /\ Dir(v) \in Slots /\ Pos(v) \in Index /\ mem[cr3][Dir(v)].frame \in Frames
        /\ ~overlapped /\ UNCHANGED <<spaces, cr3, frame, table, pc>>
    BY FreeEffect DEF virt_mem_free_page, locals
  <2>2. \A d \in Slots : mem'[cr3][d] = mem[cr3][d]
    BY <2>1, FreeEffect, TableFacts, FrameFacts
  <2>3. ASSUME NEW d \in Slots, mem[cr3][d].frame \in Frames, NEW i \in Index,
               mem[mem[cr3][d].frame][i].frame # g
        PROVE  mem'[mem[cr3][d].frame][i] = mem[mem[cr3][d].frame][i]
    <3>1. ~(d = Dir(v) /\ i = Pos(v))
      BY <2>3
    <3>2. d # Dir(v) => mem[cr3][d].frame # mem[cr3][Dir(v)].frame
      BY <2>1, <2>3, TableFacts
    <3>3. \A f \in Frames : \A j \in Index :
             mem'[f][j] = IF f = mem[cr3][Dir(v)].frame /\ j = Pos(v)
                          THEN NoEntry ELSE mem[f][j]
      BY FreeEffect
    <3> QED BY <2>3, <3>1, <3>2, <3>3
  <2>4. ASSUME NEW f \in Frames, f # g, NEW k, NEW a, NEW c, Use(f, k, a, c)
        PROVE  Use(f, k, a, c)'
    BY <2>1, <2>2, <2>3, <2>4 DEF Use
  <2>5. \A f \in Frames : Accounted(f)'
    BY <2>1, <2>4 DEF LostInv, Accounted
  <2> QED BY <2>5 DEF LostInv
<1> QED BY <1>2, <1>3, <1>4, <1>5

\* In a call: a new use for each that ends, and no frame is overwritten.
LEMMA LostCall ==
  ASSUME SizeAssumption, Inv, LostInv, ~overlapped', NEW t \in Threads, alloc_perm(t)
  PROVE  LostInv'
<1>1. /\ TypeOK /\ CallInv /\ DirectoryInv /\ cr3 # NoFrame /\ cr3 \in Frames
  BY HasDirectory DEF Inv
<1>2. ~overlapped /\ UNCHANGED <<cr3, spaces>>
  <2>1. CASE AllocFrame(t) \/ AllocTable(t)
    BY <1>1, <2>1, AllocFrameEffect, AllocTableEffect
  <2>2. CASE ReadCursor(t) \/ LoadCursor(t) \/ StoreCursor(t) \/ FindTable(t)
    <3>1. CASE ReadCursor(t)
      BY <3>1 DEF ReadCursor
    <3>2. CASE LoadCursor(t) \/ StoreCursor(t) \/ FindTable(t)
      BY <3>2 DEF LoadCursor, StoreCursor, FindTable, shared
    <3> QED BY <2>2, <3>1, <3>2
  <2>3. CASE InstallTable(t) \/ MarkPresent(t) \/ ClearTable(t) \/ WriteEntry(t)
    BY <2>3 DEF InstallTable, MarkPresent, ClearTable, WriteEntry
  <2> QED BY <2>1, <2>2, <2>3 DEF alloc_perm
<1>3. /\ OneCall /\ CursorInv /\ NewTableInv /\ GivenInv /\ MappedInv
      /\ \A u \in Threads : InCall(t) /\ t # u => ~InCall(u)
      /\ \A f \in Frames : Accounted(f)
  BY <1>1, <1>2, CallsFacts DEF LostInv
<1> SUFFICES ASSUME NEW f \in Frames PROVE Accounted(f)'
  BY DEF LostInv
<1> SUFFICES ASSUME NEW k, NEW a, NEW c, Use(f, k, a, c) \/ f \in free
             PROVE  Accounted(f)'
  BY <1>3 DEF Accounted
<1>4. CASE ReadCursor(t) \/ LoadCursor(t) \/ StoreCursor(t) \/ FindTable(t)
  <2>1. /\ UNCHANGED <<mem, free, cr3, spaces, frame, table>>
        /\ \A u \in Threads : pc[u] = "install" => pc'[u] = "install"
    BY <1>1, <1>4, FindTableEffect
       DEF ReadCursor, LoadCursor, StoreCursor, Goto, shared, locals, TypeOK
  <2> QED BY <2>1 DEF Use, Accounted
<1>5. CASE AllocFrame(t)
  <2>1. /\ UNCHANGED <<mem, cr3, spaces, table>> /\ frame[t] = NoFrame
        /\ \A u \in Threads : pc[u] = "install" => pc'[u] = "install"
        /\ \A u \in Threads \ {t} : frame'[u] = frame[u]
        /\ \/ free' = free
           \/ \E g \in free : free' = free \ {g} /\ frame'[t] = g
    BY <1>1, <1>5, AllocFrameEffect DEF TypeOK, CallInv
  <2>2. Use(f, k, a, c) => Use(f, k, a, c)'
    BY <2>1, FrameFacts DEF Use
  <2>3. f \notin free' /\ f \in free => Use(f, "phys", t, 0)'
    BY <2>1 DEF Use
  <2> QED BY <2>2, <2>3 DEF Accounted
<1>6. CASE AllocTable(t)
  <2>1. /\ UNCHANGED <<mem, cr3, spaces, frame>> /\ pc[t] = "table"
        /\ \A u \in Threads \ {t} : pc'[u] = pc[u] /\ table'[u] = table[u]
        /\ \/ free' = free
           \/ pc'[t] = "install" /\ \E g \in free : free' = free \ {g} /\ table'[t] = g
    BY <1>1, <1>6, AllocTableEffect DEF TypeOK
  <2>2. Use(f, k, a, c) => Use(f, k, a, c)'
    BY <2>1 DEF Use
  <2>3. f \notin free' /\ f \in free => Use(f, "table_phys", t, 0)'
    BY <2>1 DEF Use
  <2> QED BY <2>2, <2>3 DEF Accounted
<1>7. CASE InstallTable(t)
  <2> PICK d : d = Dir(page[t])
    OBVIOUS
  <2>1. /\ pc[t] = "install" /\ pc'[t] = "mark" /\ InCall(t)
        /\ \A u \in Threads \ {t} : pc'[u] = pc[u]
        /\ UNCHANGED <<free, cr3, spaces, frame, table>>
    BY <1>1, <1>7 DEF InstallTable, Goto, locals, TypeOK, InCall
  <2>2. d \in Slots /\ d \in Index
    BY <2>1, WorkingOn DEF Inv
  <2>3. mem[cr3][d].frame \notin Frames
    <3>1. ~mem[cr3][d].present
      BY <1>3, <2>1 DEF NewTableInv, NewTableOf
    <3>2. \A u \in Threads : pc[u] # "mark"
      BY <1>3, <2>1 DEF InCall
    <3> QED BY <1>3, <2>2, <3>1, <3>2 DEF MappedInv, TableSlots, Slots
  <2>4. mem'[cr3][d].frame = table[t] /\ \A e \in Slots \ {d} : mem'[cr3][e] = mem[cr3][e]
    BY <1>1, <1>7, InstallEffect, FrameFacts
  <2>5. \A e \in Slots : mem[cr3][e].frame \in Frames => \A i \in Index :
           mem'[mem[cr3][e].frame][i] = mem[mem[cr3][e].frame][i]
    BY <1>1, <1>7, InstallEffect, TableFacts
  <2>6. Use(f, k, a, c) /\ ~(k = "table_phys" /\ a = t) => Use(f, k, a, c)'
    BY <2>1, <2>3, <2>4, <2>5 DEF Use
  <2>7. Use(f, k, a, c) /\ k = "table_phys" /\ a = t => Use(f, "table", d, 0)'
    BY <2>1, <2>2, <2>4 DEF Use
  <2> QED BY <2>1, <2>6, <2>7 DEF Accounted
<1>8. CASE MarkPresent(t)
  <2>1. /\ pc[t] = "mark" /\ \A u \in Threads \ {t} : pc'[u] = pc[u]
        /\ UNCHANGED <<free, cr3, spaces, frame, table>>
    BY <1>1, <1>8 DEF MarkPresent, Goto, locals, TypeOK
  <2>2. \A e \in Slots : mem'[cr3][e].frame = mem[cr3][e].frame
    BY <1>1, <1>8, MarkEffect, FrameFacts
  <2>3. \A e \in Slots : mem[cr3][e].frame \in Frames => \A i \in Index :
           mem'[mem[cr3][e].frame][i] = mem[mem[cr3][e].frame][i]
    BY <1>1, <1>8, MarkEffect, TableFacts
  <2>4. Use(f, k, a, c) => Use(f, k, a, c)'
    BY <2>1, <2>2, <2>3 DEF Use
  <2> QED BY <2>1, <2>4 DEF Accounted
<1>9. CASE ClearTable(t)
  <2> PICK d : d = Dir(page[t])
    OBVIOUS
  <2>1. /\ pc[t] = "clear" /\ InCall(t) /\ \A u \in Threads \ {t} : pc'[u] = pc[u]
        /\ UNCHANGED <<free, cr3, spaces, frame, table>>
    BY <1>1, <1>9 DEF ClearTable, Goto, locals, TypeOK, InCall
  <2>2. d \in Slots /\ mem[cr3][d].frame \in Frames
    BY <2>1, WorkingOn DEF Inv
  <2>3. \A i \in Index : mem[mem[cr3][d].frame][i].frame \notin Frames
    <3>1. \A u \in Threads : \A v \in owned[u] : Dir(v) # d
      BY <1>3, <2>1 DEF NewTableInv, NewTableOf, Creates
    <3> QED BY <1>3, <2>2, <3>1 DEF MappedInv, Given, TableSlots, Slots
  <2>4. \A e \in Slots : mem'[cr3][e] = mem[cr3][e]
    BY <1>1, <1>9, <2>2, ClearEffect, TableFacts, FrameFacts
  <2>5. \A e \in Slots \ {d} : mem[cr3][e].frame \in Frames => \A i \in Index :
           mem'[mem[cr3][e].frame][i] = mem[mem[cr3][e].frame][i]
    BY <1>1, <1>9, <2>2, ClearEffect, TableFacts
  <2>6. Use(f, k, a, c) => Use(f, k, a, c)'
    <3>1. ASSUME Use(f, k, a, c), k = "page" PROVE Use(f, k, a, c)'
      <4>1. /\ a \in Slots /\ c \in Index /\ mem[cr3][a].frame \in Frames
            /\ mem[mem[cr3][a].frame][c].frame = f
        BY <3>1 DEF Use
      <4>2. mem'[cr3'][a] = mem[cr3][a]
        BY <2>1, <2>4, <4>1
      <4>3. a # d
        BY <2>3, <4>1
      <4>4. mem'[mem[cr3][a].frame][c] = mem[mem[cr3][a].frame][c]
        BY <2>5, <4>1, <4>3
      <4> QED BY <3>1, <4>1, <4>2, <4>4 DEF Use
    <3>2. ASSUME Use(f, k, a, c), k # "page" PROVE Use(f, k, a, c)'
      BY <2>1, <2>4, <3>2 DEF Use
    <3> QED BY <3>1, <3>2
  <2> QED BY <2>1, <2>6 DEF Accounted
<1>10. CASE WriteEntry(t)
  <2> PICK d, j : d = Dir(page[t]) /\ j = Pos(page[t])
    OBVIOUS
  <2>1. /\ pc[t] = "write" /\ InCall(t) /\ \A u \in Threads \ {t} : pc'[u] = pc[u]
        /\ \A u \in Threads \ {t} : frame'[u] = frame[u] /\ table'[u] = table[u]
        /\ UNCHANGED <<free, cr3, spaces>> /\ frame[t] \in Frames
    BY <1>1, <1>10 DEF WriteEntry, Goto, TypeOK, InCall, CallInv, HasFrame
  <2>2. d \in Slots /\ j \in Index /\ mem[cr3][d].frame \in Frames
    BY <2>1, WorkingOn DEF Inv
  <2>3. mem[mem[cr3][d].frame][j].frame \notin Frames
    <3>1. \A u \in Threads : \A v \in owned[u] : v < page[t] /\ v \in Nat /\ page[t] \in Nat
      BY <1>1, <1>2, <1>3, <2>1, CallsFacts DEF CursorInv, CursorOf, TypeOK
    <3>2. ASSUME NEW u \in Threads, NEW v \in owned[u], Dir(v) = d, Pos(v) = j
          PROVE  FALSE
      BY <3>1, <3>2, PageFacts
    <3>3. ~Given(d, j)
      BY <3>2 DEF Given
    <3> QED BY <1>3, <2>2, <3>3 DEF MappedInv, TableSlots, Slots
  <2>4. \A e \in Slots : mem'[cr3][e] = mem[cr3][e]
    BY <1>1, <1>10, <2>2, WriteEffect, TableFacts, FrameFacts
  <2>5. ASSUME NEW e \in Slots, mem[cr3][e].frame \in Frames, NEW i \in Index
        PROVE  mem'[mem[cr3][e].frame][i] =
                  IF e = d /\ i = j THEN Entry(frame[t]) ELSE mem[mem[cr3][e].frame][i]
    BY <1>1, <1>10, <2>2, <2>5, WriteEffect, TableFacts, FrameFacts
  <2>6. Use(f, k, a, c) /\ ~(k = "phys" /\ a = t) => Use(f, k, a, c)'
    BY <2>1, <2>3, <2>4, <2>5 DEF Use
  <2>7. Use(f, k, a, c) /\ k = "phys" /\ a = t => Use(f, "page", d, j)'
    <3>1. mem'[mem[cr3][d].frame][j].frame = frame[t]
      BY <2>1, <2>2, <2>5, FrameFacts
    <3> QED BY <2>1, <2>2, <2>4, <3>1 DEF Use
  <2> QED BY <2>1, <2>6, <2>7 DEF Accounted
<1> QED BY <1>4, <1>5, <1>6, <1>7, <1>8, <1>9, <1>10 DEF alloc_perm

LEMMA LostNext ==
  ASSUME SizeAssumption, Inv, LostInv, [Next]_vars
  PROVE  LostInv'
<1>1. CASE Next
  <2>1. CASE overlapped'
    BY <2>1 DEF LostInv
  <2>2. CASE ~overlapped'
    BY <1>1, <2>2, LostBsp, LostCall DEF Next
  <2> QED BY <2>1, <2>2
<1>2. CASE UNCHANGED vars
  <2>1. UNCHANGED <<mem, free, cr3, spaces, overlapped, pc, frame, table>>
    BY <1>2 DEF vars, shared, locals
  <2> QED BY <2>1 DEF LostInv, Accounted, Use
<1> QED BY <1>1, <1>2

-----------------------------------------------------------------------------
(* The address space.                                                      *)

\* The kernel's pages have the frames they always had, and a given page has
\* the frame its entry names.
KernelTranslated ==
    \A v \in KernelPages : Translation(v) = InitialTables[Dir(v)][Pos(v)].frame
GivenTranslated ==
    cr3 # NoFrame /\ ~overlapped => \A t \in Threads : \A v \in owned[t] :
        Translation(v) = mem[mem[cr3][Dir(v)].frame][Pos(v)].frame

LEMMA Translations ==
  ASSUME SizeAssumption
  PROVE  Inv => KernelTranslated /\ GivenTranslated
<1> SUFFICES ASSUME Inv PROVE KernelTranslated /\ GivenTranslated
  OBVIOUS
<1> DEFINE in(t) == IF t.present THEN t.frame ELSE NoFrame
<1>1. \A v : Translation(v) =
         IF cr3 = NoFrame
         THEN IF Dir(v) \in DOMAIN InitialTables
              THEN in(InitialTables[Dir(v)][Pos(v)]) ELSE NoFrame
         ELSE IF mem[cr3][Dir(v)].present
              THEN in(mem[mem[cr3][Dir(v)].frame][Pos(v)]) ELSE NoFrame
  BY DEF Translation, Dir, Pos
<1>2. ASSUME NEW v \in KernelPages
      PROVE  Translation(v) = InitialTables[Dir(v)][Pos(v)].frame
  <2>1. /\ v \in Nat /\ v < FirstPage /\ Dir(v) \in DOMAIN InitialTables
        /\ InitialTables[Dir(v)][Pos(v)].present
    BY PageFacts DEF SizeAssumption, Dir, Pos
  <2>2. Pos(v) \in Index /\ Dir(v) * PER_TABLE + Pos(v) < FirstPage
    BY <2>1, PageFacts
  <2>3. cr3 # NoFrame =>
           /\ mem[cr3][Dir(v)].present
           /\ mem[mem[cr3][Dir(v)].frame][Pos(v)] = InitialTables[Dir(v)][Pos(v)]
    BY <2>1, <2>2 DEF Inv, DirectoryInv
  <2> QED BY <1>1, <2>1, <2>3
<1>3. ASSUME cr3 # NoFrame, ~overlapped, NEW t \in Threads, NEW v \in owned[t]
      PROVE  Translation(v) = mem[mem[cr3][Dir(v)].frame][Pos(v)].frame
  BY <1>1, <1>3 DEF Inv, CallsInv, GivenInv
<1> QED BY <1>2, <1>3 DEF KernelTranslated, GivenTranslated

\* No step but its own virt_mem_free_page changes the entry of a given page.
LEMMA GivenStays ==
  ASSUME SizeAssumption, Inv, Next, ~overlapped', cr3 # NoFrame,
         NEW t \in Threads, NEW v \in owned[t], v \in owned'[t]
  PROVE  /\ ~overlapped /\ cr3' = cr3
         /\ mem'[mem'[cr3][Dir(v)].frame][Pos(v)] = mem[mem[cr3][Dir(v)].frame][Pos(v)]
<1> PICK d, i : d = Dir(v) /\ i = Pos(v)
  OBVIOUS
<1> SUFFICES /\ ~overlapped /\ cr3' = cr3
             /\ mem'[mem'[cr3][d].frame][i] = mem[mem[cr3][d].frame][i]
  OBVIOUS
<1>1. TypeOK /\ CallInv /\ DirectoryInv /\ Bsp \in Threads /\ cr3 \in Frames
  BY HasDirectory DEF Inv, SizeAssumption
<1>2. ~overlapped =>
         /\ d \in Slots /\ d \in Index /\ i \in Index /\ mem[cr3][d].frame \in Frames
         /\ v \in Nat /\ OneCall /\ CursorInv /\ NewTableInv
  BY CallsFacts, FrameFacts
<1>3. CASE virt_mem_init
  BY <1>3, CloneEffect
<1>4. CASE virt_mem_create_address_space
  <2>1. cr3' = cr3 /\ ~overlapped /\ FirstFree \in free
    BY <1>1, <1>4, CreateEffect DEF virt_mem_create_address_space, CallInv
  <2>2. mem'[cr3][d] = mem[cr3][d]
    BY <1>1, <1>2, <1>4, <2>1, CreateEffect, FrameFacts
  <2>3. mem'[mem[cr3][d].frame][i] = mem[mem[cr3][d].frame][i]
    BY <1>1, <1>2, <1>4, <2>1, CreateEffect, TableFacts
  <2> QED BY <2>1, <2>2, <2>3
<1>5. CASE \E w \in Pages : virt_mem_free_page(w)
  <2> PICK w \in Pages : virt_mem_free_page(w)
    BY <1>5
  <2>1. /\ cr3' = cr3 /\ ~overlapped /\ owned' = [owned EXCEPT ![Bsp] = @ \ {w}]
        /\ w \in Nat /\ w \in owned[Bsp] /\ Dir(w) \in Slots /\ mem[cr3][Dir(w)].frame \in Frames
    BY FreeEffect DEF virt_mem_free_page
  <2>2. w # v
    BY <1>1, <1>2, <2>1, CallsFacts DEF TypeOK, GivenInv
  <2>3. ~(d = Dir(w) /\ i = Pos(w))
    BY <1>2, <2>1, <2>2, PageFacts
  <2>4. mem'[cr3][d] = mem[cr3][d]
    BY <1>1, <1>2, <2>1, FreeEffect, TableFacts
  <2>5. mem'[mem[cr3][d].frame][i] = mem[mem[cr3][d].frame][i]
    BY <1>2, <2>1, <2>3, FreeEffect, TableFacts
  <2> QED BY <2>1, <2>4, <2>5
<1>6. CASE Start
  BY <1>6 DEF Start
<1>7. ASSUME NEW u \in Threads, alloc_perm(u)
      PROVE  /\ ~overlapped /\ cr3' = cr3
             /\ mem'[mem'[cr3][d].frame][i] = mem[mem[cr3][d].frame][i]
  <2>1. CASE ReadCursor(u)
    BY <2>1 DEF ReadCursor
  <2>2. CASE LoadCursor(u) \/ StoreCursor(u) \/ FindTable(u)
    BY <2>2 DEF LoadCursor, StoreCursor, FindTable, shared
  <2>3. CASE AllocFrame(u) \/ AllocTable(u)
    BY <1>1, <2>3, AllocFrameEffect, AllocTableEffect
  <2>4. CASE InstallTable(u) \/ MarkPresent(u) \/ ClearTable(u)
    <3>1. ~overlapped /\ cr3' = cr3 /\ pc[u] \in Creates /\ InCall(u)
      BY <2>4 DEF InstallTable, MarkPresent, ClearTable, Creates, InCall
    <3>2. Dir(page[u]) # d /\ Dir(page[u]) \in Slots
      BY <1>2, <3>1, WorkingOn DEF NewTableInv, NewTableOf, Inv
    <3>3. CASE InstallTable(u)
      BY <1>1, <1>2, <3>1, <3>2, <3>3, InstallEffect, TableFacts
    <3>4. CASE MarkPresent(u)
      BY <1>1, <1>2, <3>1, <3>2, <3>4, MarkEffect, TableFacts
    <3>5. CASE ClearTable(u)
      <4>1. mem[cr3][Dir(page[u])].frame \in Frames
        BY <1>1, <3>5, WorkingOn DEF ClearTable, InCall
      <4>2. mem'[cr3][d] = mem[cr3][d]
        BY <1>1, <1>2, <3>1, <3>2, <3>5, <4>1, ClearEffect, TableFacts
      <4>3. mem'[mem[cr3][d].frame][i] = mem[mem[cr3][d].frame][i]
        BY <1>1, <1>2, <3>1, <3>2, <3>5, <4>1, ClearEffect, TableFacts
      <4> QED BY <3>1, <4>2, <4>3
    <3> QED BY <2>4, <3>3, <3>4, <3>5
  <2>5. CASE WriteEntry(u)
    <3>1. ~overlapped /\ cr3' = cr3 /\ InCall(u) /\ pc[u] = "write"
      BY <2>5 DEF WriteEntry, InCall
    <3>2. /\ Dir(page[u]) \in Slots /\ mem[cr3][Dir(page[u])].frame \in Frames
          /\ page[u] \in Nat
      BY <1>1, <3>1, WorkingOn
    <3>3. v < page[u]
      BY <1>2, <3>1 DEF CursorInv, CursorOf
    <3>4. ~(d = Dir(page[u]) /\ i = Pos(page[u]))
      BY <1>2, <3>1, <3>2, <3>3, PageFacts
    <3>5. mem'[cr3][d] = mem[cr3][d]
      BY <1>1, <1>2, <2>5, <3>1, <3>2, WriteEffect, TableFacts
    <3>6. mem'[mem[cr3][d].frame][i] = mem[mem[cr3][d].frame][i]
      BY <1>2, <2>5, <3>1, <3>2, <3>4, WriteEffect, TableFacts
    <3> QED BY <3>1, <3>5, <3>6
  <2> QED BY <1>7, <2>1, <2>2, <2>3, <2>4, <2>5 DEF alloc_perm
<1> QED BY <1>3, <1>4, <1>5, <1>6, <1>7 DEF Next

\* What AddressSpace sees
Mapping ==
    [v \in Pages |-> IF v \in KernelPages \cup AllOwned THEN Translation(v) ELSE NoFrame]

\* The translation of every page that stays is the same after a step.
LEMMA TranslationStays ==
  ASSUME SizeAssumption, Inv, Inv', Next, ~overlapped', NEW v \in KernelPages \cup AllOwned,
         v \in KernelPages \/ \E t \in Threads : v \in owned[t] /\ v \in owned'[t]
  PROVE  Translation(v)' = Translation(v)
<1>1. KernelTranslated /\ GivenTranslated
  BY Translations
<1>2. KernelTranslated' /\ GivenTranslated'
  BY Translations, PTL
<1>3. CASE v \in KernelPages
  BY <1>1, <1>2, <1>3 DEF KernelTranslated, Dir, Pos
<1>4. CASE \E t \in Threads : v \in owned[t] /\ v \in owned'[t]
  <2>1. PICK t \in Threads : v \in owned[t] /\ v \in owned'[t]
    BY <1>4
  <2>2. cr3 # NoFrame
    BY <2>1 DEF Inv, CallInv, Fresh
  <2>3. /\ ~overlapped /\ cr3' = cr3
        /\ mem'[mem'[cr3][Dir(v)].frame][Pos(v)] = mem[mem[cr3][Dir(v)].frame][Pos(v)]
    BY <2>1, <2>2, GivenStays
  <2>4. Translation(v) = mem[mem[cr3][Dir(v)].frame][Pos(v)].frame
    BY <1>1, <2>1, <2>2, <2>3 DEF GivenTranslated
  <2>5. Translation(v)' = mem'[mem'[cr3'][Dir(v)].frame][Pos(v)].frame
    BY <1>2, <2>1, <2>2, <2>3 DEF GivenTranslated, Dir, Pos
  <2> QED BY <2>3, <2>4, <2>5
<1> QED BY <1>3, <1>4

LEMMA PromiseInit ==
  ASSUME SizeAssumption, Init
  PROVE  Promise!Init
BY DEF Promise!Init, Init, AllOwned

LEMMA PromiseStep ==
  ASSUME SizeAssumption, Inv, Inv', Next, ~overlapped'
  PROVE  Promise!Next \/ UNCHANGED <<Mapping, owned>>
<1>1. TypeOK /\ CallInv /\ Bsp \in Threads
  BY DEF Inv, SizeAssumption
<1>2. ASSUME owned' = owned PROVE Mapping' = Mapping
  <2>1. AllOwned' = AllOwned
    BY <1>2 DEF AllOwned
  <2>2. ASSUME NEW v \in KernelPages \cup AllOwned PROVE Translation(v)' = Translation(v)
    BY <1>2, <2>2, TranslationStays DEF AllOwned
  <2> QED BY <2>1, <2>2 DEF Mapping
<1>3. CASE \E t \in Threads : WriteEntry(t)
  <2>1. PICK t \in Threads : WriteEntry(t)
    BY <1>3
  <2> PICK p, f : p = page[t] /\ f = frame[t]
    OBVIOUS
  <2>2. /\ cr3 # NoFrame /\ cr3 \in Frames /\ ~overlapped /\ InCall(t) /\ pc[t] = "write"
        /\ f \in Frames /\ owned' = [owned EXCEPT ![t] = @ \cup {p}] /\ cr3' = cr3
    BY <1>1, <2>1, HasDirectory DEF WriteEntry, InCall, CallInv, HasFrame, alloc_perm
  <2>3. /\ p \in Nat /\ p \in Pages /\ p \in FirstPage .. MaxPage - 1
        /\ Dir(p) \in Slots /\ Pos(p) \in Index /\ mem[cr3][Dir(p)].frame \in Frames
    BY <1>1, <2>2, WorkingOn DEF Inv
  <2>4. p \notin KernelPages /\ \A u \in Threads : p \notin owned[u]
    <3>1. p \notin KernelPages
      <4>1. KernelPages \subseteq 0 .. FirstPage - 1 /\ FirstPage \in Nat /\ MaxPage \in Nat
        BY PageFacts DEF SizeAssumption
      <4> QED BY <2>3, <4>1
    <3>2. \A u \in Threads : \A v \in owned[u] : v < p
      BY <2>2, CallsFacts DEF CursorInv, CursorOf
    <3> QED BY <2>3, <3>1, <3>2
  <2>5. AllOwned' = AllOwned \cup {p}
    <3>1. \A u \in Threads : owned'[u] = IF u = t THEN owned[u] \cup {p} ELSE owned[u]
      BY <1>1, <2>2 DEF TypeOK
    <3> QED BY <3>1 DEF AllOwned
  <2>6. \A u \in Threads : owned[u] \subseteq owned'[u]
    BY <1>1, <2>2 DEF TypeOK
  <2>7. ASSUME NEW v \in KernelPages \cup AllOwned PROVE Translation(v)' = Translation(v)
    BY <2>6, <2>7, TranslationStays DEF AllOwned
  <2>8. Translation(p)' = f
    <3>1. GivenTranslated'
      BY Translations, PTL
    <3>2. p \in owned'[t]
      BY <1>1, <2>2 DEF TypeOK
    <3>3. Translation(p)' = mem'[mem'[cr3][Dir(p)].frame][Pos(p)].frame
      BY <2>2, <3>1, <3>2 DEF GivenTranslated, Dir, Pos
    <3>4. mem'[cr3][Dir(p)] = mem[cr3][Dir(p)]
      BY <2>1, <2>2, <2>3, WriteEffect, TableFacts, FrameFacts
    <3>5. mem'[mem[cr3][Dir(p)].frame][Pos(p)] = Entry(f)
      BY <2>1, <2>3, WriteEffect
    <3> QED BY <2>2, <3>3, <3>4, <3>5, FrameFacts
  <2>9. \A v \in AllOwned : Translation(v) # f
    <3>1. Use(f, "phys", t, 0)
      BY <2>2 DEF Use
    <3>2. ASSUME NEW u \in Threads, NEW v \in owned[u], Translation(v) = f
          PROVE  Use(f, "page", Dir(v), Pos(v))
      <4>1. mem[mem[cr3][Dir(v)].frame][Pos(v)].frame = f
        BY <2>2, <3>2, Translations DEF GivenTranslated
      <4>2. Dir(v) \in Slots /\ Pos(v) \in Index /\ mem[cr3][Dir(v)].frame \in Frames
        BY <2>2, CallsFacts
      <4> QED BY <4>1, <4>2 DEF Use
    <3> QED BY <2>2, <3>1, <3>2 DEF AllOwned, Inv, UseInv
  <2>10. f # NoFrame
    BY <2>2, FrameFacts
  <2>11. Mapping' = [Mapping EXCEPT ![p] = f]
    BY <2>3, <2>4, <2>5, <2>7, <2>8 DEF Mapping
  <2>12. f \notin {Mapping[v] : v \in Pages \ KernelPages}
    BY <2>9, <2>10 DEF Mapping
  <2>13. Promise!Give(t, p)
    BY <2>2, <2>4, <2>11, <2>12 DEF Promise!Give, Promise!InUse, Mapping
  <2> QED BY <2>3, <2>13 DEF Promise!Next
<1>4. CASE \E v \in Pages : virt_mem_free_page(v)
  <2>1. PICK v \in Pages : virt_mem_free_page(v)
    BY <1>4
  <2>2. /\ cr3 # NoFrame /\ ~overlapped /\ v \in owned[Bsp] /\ v \in FirstPage .. MaxPage - 1
        /\ owned' = [owned EXCEPT ![Bsp] = @ \ {v}] /\ v \in Nat
    BY <2>1, FreeEffect DEF virt_mem_free_page
  <2>3. \A t \in Threads : owned'[t] = owned[t] \ {v}
    BY <1>1, <2>2, CallsFacts DEF TypeOK, GivenInv
  <2>4. AllOwned' = AllOwned \ {v}
    BY <2>3 DEF AllOwned
  <2>5. v \notin KernelPages
    BY <2>2, PageFacts DEF SizeAssumption
  <2>6. ASSUME NEW w \in (KernelPages \cup AllOwned) \ {v} PROVE Translation(w)' = Translation(w)
    BY <2>3, <2>6, TranslationStays DEF AllOwned
  <2>7. Mapping' = [Mapping EXCEPT ![v] = NoFrame]
    BY <2>4, <2>5, <2>6 DEF Mapping
  <2>8. Promise!Free(Bsp, v)
    BY <2>2, <2>7 DEF Promise!Free, Mapping
  <2> QED BY <1>1, <2>1, <2>8 DEF Promise!Next
<1>5. CASE /\ ~\E t \in Threads : WriteEntry(t)
           /\ ~\E v \in Pages : virt_mem_free_page(v)
  <2>1. owned' = owned
    BY <1>1, <1>5, AllocFrameEffect, AllocTableEffect
       DEF Next, alloc_perm, virt_mem_init, virt_mem_create_address_space, Start, ReadCursor,
           LoadCursor, StoreCursor, FindTable, InstallTable, MarkPresent, ClearTable
  <2> QED BY <1>2, <2>1
<1> QED BY <1>3, <1>4, <1>5

-----------------------------------------------------------------------------
(* The theorems.                                                           *)

\* The directory names frames only, and all variables keep their types, whatever
\* the processors' calls do to each other.
THEOREM TypeCorrect == SizeAssumption => (Spec => []TypeOK)
<1> SUFFICES ASSUME SizeAssumption PROVE Spec => []TypeOK
  OBVIOUS
<1>1. Inv /\ NoStrayEntries => TypeOK
  BY DEF Inv
<1> QED BY <1>1, InvHolds, PTL

\* virt_mem_map_page and virt_mem_create_table, on any number of processors:
\* no frame stands behind two pages, tables or directories.
THEOREM OneUseForEveryFrame == SizeAssumption => (Spec => []FrameHasOneUse)
<1> SUFFICES ASSUME SizeAssumption PROVE Spec => []FrameHasOneUse
  OBVIOUS
<1>1. Inv /\ NoStrayEntries => FrameHasOneUse
  BY OneUse
<1> QED BY <1>1, InvHolds, PTL

\* virt_mem_create_table: between a table's installation and its memset, and
\* only then, the table may hold what was in the memory before.
THEOREM TablesAreCleared == SizeAssumption => (Spec => []NoStrayEntries)
<1> SUFFICES ASSUME SizeAssumption PROVE Spec => []NoStrayEntries
  OBVIOUS
<1> QED BY InvHolds, PTL

\* virt_mem_create_address_space: each address space names itself and sees the
\* kernel through the tables of the one in use, also after tables were added.
THEOREM SpacesSeeTheKernel == SizeAssumption => (Spec => []SpacesShareKernel)
<1> SUFFICES ASSUME SizeAssumption PROVE Spec => []SpacesShareKernel
  OBVIOUS
<1>1. Inv /\ NoStrayEntries => SpacesShareKernel
  BY DEF Inv
<1> QED BY <1>1, InvHolds, PTL

\* alloc_perm and virt_mem_free_page: while calls do not overlap, every frame
\* is free or used.
THEOREM FramesAreAccounted == SizeAssumption => (Spec => []NoFrameLost)
<1> SUFFICES ASSUME SizeAssumption PROVE Spec => []NoFrameLost
  OBVIOUS
<1>1. Init => LostInv
  BY DEF Init, LostInv
<1>2. Inv /\ LostInv /\ [Next]_vars => LostInv'
  BY LostNext
<1>3. Inv /\ LostInv => NoFrameLost
  BY UsesAre DEF LostInv, Accounted, NoFrameLost
<1> QED BY <1>1, <1>2, <1>3, InvHolds, PTL DEF Spec

\* While calls do not overlap, VirtMem implements AddressSpace: a page is given
\* once, with a frame of its own, and the kernel's pages keep theirs.
THEOREM SpaceIsKept == SizeAssumption => (Spec => KeepsPromise)
<1> SUFFICES ASSUME SizeAssumption PROVE Spec => KeepsPromise
  OBVIOUS
<1>1. Init => Promise!Init
  BY PromiseInit
<1>2. Inv /\ Inv' /\ [Next]_vars => [overlapped' \/ Promise!Next]_(Promise!vars)
  <2> SUFFICES ASSUME Inv, Inv', [Next]_vars
               PROVE  (overlapped' \/ Promise!Next) \/ UNCHANGED Promise!vars
    OBVIOUS
  <2>1. UNCHANGED <<Mapping, owned>> => UNCHANGED Promise!vars
    BY DEF Mapping, Promise!vars
  <2>2. CASE Next
    BY <2>1, <2>2, PromiseStep
  <2>3. CASE UNCHANGED vars
    BY <2>3 DEF Promise!vars, Translation, AllOwned, vars, shared
  <2> QED BY <2>2, <2>3
<1> QED BY <1>1, <1>2, InvHolds, PTL DEF Spec, KeepsPromise
=============================================================================
