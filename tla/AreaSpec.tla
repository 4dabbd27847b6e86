------------------------------ MODULE AreaSpec ------------------------------
(***************************************************************************)
(* What include/vm_contract.h promises: a set of areas of addresses that   *)
(* do not overlap.  An area is added only if it overlaps with none there   *)
(* (and may be refused for want of memory); an area is removed by its      *)
(* first address.  Areas refines it.                                       *)
(***************************************************************************)
EXTENDS Integers

CONSTANT Area      \* the records [start_addr, end_addr] that may be added

VARIABLE areas

Overlap(a, b) == a.start_addr <= b.end_addr /\ b.start_addr <= a.end_addr

Init == areas = {}

Add(a) ==
    /\ \A b \in areas : ~Overlap(a, b)
    /\ areas' = areas \cup {a}

Remove(start) == areas' = {a \in areas : a.start_addr # start}

Next ==
    \/ \E a \in Area : Add(a)
    \/ \E a \in areas : Remove(a.start_addr)

Spec == Init /\ [][Next]_areas
=============================================================================
