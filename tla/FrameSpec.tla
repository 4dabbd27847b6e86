----------------------------- MODULE FrameSpec -----------------------------
(***************************************************************************)
(* What include/mem_manager_phys.h promises of the frames of memory: a     *)
(* frame is handed to one thread at a time, and a thread is refused only   *)
(* when nothing is left.  No bitmap, count or lock.  PhysMem refines it.   *)
(***************************************************************************)
EXTENDS Naturals

CONSTANTS
    Threads,   \* the threads that allocate
    Frames     \* the frames a search can find

VARIABLES
    started,   \* have the threads started?  Before, boot decides what is free
    free,      \* the frames nobody has
    held,      \* held[t]: the frames t has
    status     \* status[t]: "outside" a call, "asking", "served" or "denied"

vars == <<started, free, held, status>>

Init ==
    /\ started = FALSE
    /\ free \in SUBSET Frames
    /\ held = [t \in Threads |-> {}]
    /\ status = [t \in Threads |-> "outside"]

\* Boot finds out which frames exist and sets some aside for the kernel.
Setup ==
    /\ ~started
    /\ free' \in SUBSET Frames
    /\ started' \in BOOLEAN
    /\ UNCHANGED <<held, status>>

Ask(t) ==
    /\ started
    /\ status[t] = "outside"
    /\ status' = [status EXCEPT ![t] = "asking"]
    /\ UNCHANGED <<started, free, held>>

Grant(t, f) ==
    /\ status[t] = "asking"
    /\ f \in free
    /\ free' = free \ {f}
    /\ held' = [held EXCEPT ![t] = @ \cup {f}]
    /\ status' = [status EXCEPT ![t] = "served"]
    /\ UNCHANGED started

Deny(t) ==
    /\ status[t] = "asking"
    /\ free = {}
    /\ status' = [status EXCEPT ![t] = "denied"]
    /\ UNCHANGED <<started, free, held>>

Return(t) ==
    /\ status[t] \in {"served", "denied"}
    /\ status' = [status EXCEPT ![t] = "outside"]
    /\ UNCHANGED <<started, free, held>>

\* A thread gives frames up; they become free one by one, later.
GiveUp(t, f) ==
    /\ status[t] = "outside"
    /\ f \in held[t]
    /\ held' = [held EXCEPT ![t] = @ \ {f}]
    /\ UNCHANGED <<started, free, status>>

Reuse(f) ==
    /\ \A t \in Threads : f \notin held[t]
    /\ free' = free \cup {f}
    /\ UNCHANGED <<started, held, status>>

Next ==
    \/ Setup
    \/ \E t \in Threads :
          \/ Ask(t) \/ Deny(t) \/ Return(t)
          \/ \E f \in Frames : Grant(t, f) \/ GiveUp(t, f)
    \/ \E f \in Frames : started /\ Reuse(f)

Spec == Init /\ [][Next]_vars
=============================================================================
