---------------------------- MODULE AddressSpace ----------------------------
(***************************************************************************)
(* What include/mem_manager_virt.h and include/mem_alloc.h promise of the  *)
(* kernel's address space: a page is given to one thread, backed by a      *)
(* frame of its own, and stays so until its owner frees it; what the       *)
(* kernel itself is mapped to never changes.  No directory, table, cursor  *)
(* or entry.  VirtMem refines it.                                          *)
(***************************************************************************)
EXTENDS Naturals

CONSTANTS
    Threads,   \* the threads that ask for pages
    Pages,     \* the pages of the address space
    Kernel,    \* the pages that are mapped when the system starts
    Frames,    \* the frames that pages are backed by
    NoFrame    \* the translation of a page that is not mapped

VARIABLES
    mapping,   \* mapping[v]: the frame behind page v
    owned      \* owned[t]: the pages t was given

vars == <<mapping, owned>>

Init ==
    /\ \A v \in Pages \ Kernel : mapping[v] = NoFrame
    /\ owned = [t \in Threads |-> {}]

InUse == {mapping[v] : v \in Pages \ Kernel} \ {NoFrame}

Give(t, v) ==
    /\ v \notin Kernel
    /\ \A u \in Threads : v \notin owned[u]
    /\ owned' = [owned EXCEPT ![t] = @ \cup {v}]
    /\ \E f \in Frames \ InUse : mapping' = [mapping EXCEPT ![v] = f]

Free(t, v) ==
    /\ v \in owned[t]
    /\ owned' = [owned EXCEPT ![t] = @ \ {v}]
    /\ mapping' = [mapping EXCEPT ![v] = NoFrame]

Next == \E t \in Threads, v \in Pages : Give(t, v) \/ Free(t, v)

Spec == Init /\ [][Next]_vars
=============================================================================
