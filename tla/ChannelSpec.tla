---------------------------- MODULE ChannelSpec ----------------------------
(***************************************************************************)
(* What include/ipc/ipc.h promises of the mailboxes of threads: a mailbox  *)
(* holds one message; a sender comes back only after it put its message    *)
(* into an empty mailbox, a receiver only after it took one out.  Nothing  *)
(* is overwritten and nothing is taken twice.  ThreadMail refines it.      *)
(***************************************************************************)
CONSTANTS Threads, Boxes, None

VARIABLES
    box,      \* box[m]: the sender of the message in mailbox m, or None
    stage,    \* stage[t]: "outside", or the call t is in and how far it is
    at,       \* at[t]: the mailbox that call is about
    got       \* got[t]: the sender of the last message t received

vars == <<box, stage, at, got>>

Init ==
    /\ box = [m \in Boxes |-> None]
    /\ stage = [t \in Threads |-> "outside"]
    /\ at = [t \in Threads |-> None]
    /\ got = [t \in Threads |-> None]

Begin(t, m) ==
    /\ stage[t] = "outside"
    /\ \E call \in {"sending", "receiving"} : stage' = [stage EXCEPT ![t] = call]
    /\ at' = [at EXCEPT ![t] = m]
    /\ UNCHANGED <<box, got>>

Put(t) ==
    /\ stage[t] = "sending"
    /\ box[at[t]] = None
    /\ box' = [box EXCEPT ![at[t]] = t]
    /\ stage' = [stage EXCEPT ![t] = "done"]
    /\ UNCHANGED <<at, got>>

Take(t) ==
    /\ stage[t] = "receiving"
    /\ box[at[t]] # None
    /\ got' = [got EXCEPT ![t] = box[at[t]]]
    /\ box' = [box EXCEPT ![at[t]] = None]
    /\ stage' = [stage EXCEPT ![t] = "done"]
    /\ UNCHANGED at

Return(t) ==
    /\ stage[t] = "done"
    /\ stage' = [stage EXCEPT ![t] = "outside"]
    /\ at' = [at EXCEPT ![t] = None]
    /\ UNCHANGED <<box, got>>

Next ==
    \E t \in Threads : Put(t) \/ Take(t) \/ Return(t) \/ \E m \in Boxes : Begin(t, m)

Spec == Init /\ [][Next]_vars
=============================================================================
