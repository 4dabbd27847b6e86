----------------------------- MODULE ThreadMail -----------------------------
(***************************************************************************)
(* Messages between threads: the table of mailboxes, ipc/mailbox.c, and    *)
(* send and receive of ipc/ipc.c for mailboxes of threads.                 *)
(*                                                                         *)
(* A mailbox holds one message between two semaphores: sem_rdy, ready to   *)
(* be filled, and sem_recv, ready to be read.  The semaphores are those of *)
(* SemaphoreSpec, which KernelCore implements: every wait and signal below *)
(* is a step of that module.  A message is known by its sender.            *)
(***************************************************************************)
EXTENDS Integers, Sequences, FiniteSets

CONSTANTS
    Threads,
    Servers,             \* threads that only receive, again and again
    static_id,           \* the mailbox a thread is created with, None for any
    None,                \* no thread, no mailbox, no message
    MAX_MAILBOX_SLOTS

Boxes == 0 .. MAX_MAILBOX_SLOTS - 1
Sems == Boxes \X {"sem_rdy", "sem_recv"}

ASSUME MailAssumption ==
    /\ MAX_MAILBOX_SLOTS \in Nat \ {0}
    /\ Servers \subseteq Threads
    /\ static_id \in [Threads -> Boxes \cup {None}]
    /\ None \notin Threads \cup Boxes \cup Sems

VARIABLES
    type,         \* type[m]: MAILBOX_NONE or MAILBOX_THREAD
    owner,        \* owner[m]: the thread that mailbox_create_static was given
    initialised,  \* history: the mailboxes whose creation is complete
    message,      \* message[m]: the sender of the message in mailbox m
    mailbox,      \* mailbox[t]: the field of the thread, its mailbox or None
    pc,           \* pc[t]: where thread t is in its call
    mbox,         \* mbox[t]: the mailbox its call is about
    msg,          \* msg[t]: the message it received last
    early,        \* history: a mailbox was found before it was complete
    count, waiting, phase, target      \* the semaphores, as SemaphoreSpec

sem_vars == <<count, waiting, phase, target>>
slot_vars == <<type, owner, initialised, mailbox>>
vars == <<slot_vars, message, pc, mbox, msg, early, sem_vars>>

Sem == INSTANCE SemaphoreSpec WITH NoSem <- None, InitCount <- [s \in Sems |-> 0]

Init ==
    /\ type = [m \in Boxes |-> "MAILBOX_NONE"]
    /\ owner = [m \in Boxes |-> None]
    /\ initialised = {}
    /\ message = [m \in Boxes |-> None]
    /\ mailbox = [t \in Threads |-> None]
    /\ pc = [t \in Threads |-> "new"]
    /\ mbox = [t \in Threads |-> None]
    /\ msg = [t \in Threads |-> None]
    /\ early = FALSE
    /\ Sem!Init

Goto(t, step) == pc' = [pc EXCEPT ![t] = step]

-----------------------------------------------------------------------------
(* mailbox.c                                                               *)

\* thread_alloc_mailbox_static has one slot to try, thread_alloc_mailbox tries
\* all from the first.
Create(t) ==
    /\ pc[t] = "new"
    /\ IF static_id[t] # None
       THEN mbox' = [mbox EXCEPT ![t] = static_id[t]] /\ Goto(t, "static")
       ELSE mbox' = [mbox EXCEPT ![t] = 0] /\ Goto(t, "search")
    /\ UNCHANGED <<slot_vars, message, msg, early, sem_vars>>

\* Faulty variant: the slot is claimed whatever its type.
ClaimSlotAnyway(t) ==
    /\ pc[t] \in {"static", "search"}
    /\ type' = [type EXCEPT ![mbox[t]] = "MAILBOX_THREAD"]
    /\ Goto(t, "fill")
    /\ UNCHANGED <<owner, initialised, mailbox, message, mbox, msg, early, sem_vars>>

\* mailbox_create_static: test and claim under ms_lock.
ClaimSlot(t) ==
    /\ pc[t] \in {"static", "search"}
    /\ type[mbox[t]] = "MAILBOX_NONE"
    /\ type' = [type EXCEPT ![mbox[t]] = "MAILBOX_THREAD"]
    /\ Goto(t, "fill")
    /\ UNCHANGED <<owner, initialised, mailbox, message, mbox, msg, early, sem_vars>>

\* The slot is taken: mailbox_create tries the next one, if there is one.
SlotTaken(t) ==
    /\ pc[t] \in {"static", "search"}
    /\ type[mbox[t]] # "MAILBOX_NONE"
    /\ IF pc[t] = "search" /\ mbox[t] + 1 \in Boxes
       THEN mbox' = [mbox EXCEPT ![t] = @ + 1] /\ UNCHANGED pc
       ELSE mbox' = [mbox EXCEPT ![t] = None] /\ Goto(t, "run")
    /\ UNCHANGED <<slot_vars, message, msg, early, sem_vars>>

\* The rest of mailbox_create_static, with no lock held.  semaphore_init forgets
\* who waits.
FillSlot(t) ==
    LET m == mbox[t] IN
    /\ pc[t] = "fill"
    /\ owner' = [owner EXCEPT ![m] = t]
    /\ count' = [count EXCEPT ![<<m, "sem_rdy">>] = 1, ![<<m, "sem_recv">>] = 0]
    /\ waiting' = [waiting EXCEPT ![<<m, "sem_rdy">>] = <<>>, ![<<m, "sem_recv">>] = <<>>]
    /\ initialised' = initialised \cup {m}
    /\ mailbox' = [mailbox EXCEPT ![t] = m]
    /\ mbox' = [mbox EXCEPT ![t] = None]
    /\ Goto(t, "run")
    /\ UNCHANGED <<type, message, msg, early, phase, target>>

-----------------------------------------------------------------------------
(* ipc.c                                                                   *)

\* send, when get_mailbox finds a mailbox; otherwise it returns ERROR_OCCUR.
Send(t, m) ==
    /\ t \notin Servers
    /\ pc[t] = "run"
    /\ type[m] = "MAILBOX_THREAD"
    /\ mbox' = [mbox EXCEPT ![t] = m]
    /\ early' = (early \/ m \notin initialised)
    /\ Sem!Call(t, <<m, "sem_rdy">>)
    /\ Goto(t, "send")
    /\ UNCHANGED <<slot_vars, message, msg>>

\* receive_current, on a thread that has a mailbox.
Receive(t) ==
    /\ pc[t] = "run"
    /\ mailbox[t] # None
    /\ mbox' = [mbox EXCEPT ![t] = mailbox[t]]
    /\ Sem!Call(t, <<mailbox[t], "sem_recv">>)
    /\ Goto(t, "receive")
    /\ UNCHANGED <<slot_vars, message, msg, early>>

\* Inside semaphore_wait
Wait(t) ==
    /\ Sem!Take(t) \/ Sem!Park(t)
    /\ UNCHANGED <<slot_vars, message, pc, mbox, msg, early>>

WaitReturns(t) ==
    /\ Sem!Return(t)
    /\ Goto(t, IF pc[t] = "send" THEN "fill_box" ELSE "read_box")
    /\ UNCHANGED <<slot_vars, message, mbox, msg, early>>

CopyIn(t) ==
    /\ pc[t] = "fill_box"
    /\ message' = [message EXCEPT ![mbox[t]] = t]
    /\ Goto(t, "filled")
    /\ UNCHANGED <<slot_vars, mbox, msg, early, sem_vars>>

CopyOut(t) ==
    /\ pc[t] = "read_box"
    /\ msg' = [msg EXCEPT ![t] = message[mbox[t]]]
    /\ Goto(t, "read")
    /\ UNCHANGED <<slot_vars, message, mbox, early, sem_vars>>

\* Faulty variant: the sender signals the semaphore it has waited for.
SignalOwn(t) ==
    LET s == <<mbox[t], "sem_rdy">> IN
    /\ pc[t] \in {"filled", "read"}
    /\ Sem!PostToWaiter(s) \/ Sem!PostToCount(s)
    /\ mbox' = [mbox EXCEPT ![t] = None]
    /\ Goto(t, "run")
    /\ UNCHANGED <<slot_vars, message, msg, early>>

\* Faulty variant: receive does not signal.
SignalOfSender(t) ==
    /\ pc[t] \in {"filled", "read"}
    /\ IF pc[t] = "filled"
       THEN Sem!PostToWaiter(<<mbox[t], "sem_recv">>) \/ Sem!PostToCount(<<mbox[t], "sem_recv">>)
       ELSE UNCHANGED sem_vars
    /\ mbox' = [mbox EXCEPT ![t] = None]
    /\ Goto(t, "run")
    /\ UNCHANGED <<slot_vars, message, msg, early>>

\* semaphore_signal of the other semaphore, and the call returns.
Signal(t) ==
    LET s == <<mbox[t], IF pc[t] = "filled" THEN "sem_recv" ELSE "sem_rdy">> IN
    /\ pc[t] \in {"filled", "read"}
    /\ Sem!PostToWaiter(s) \/ Sem!PostToCount(s)
    /\ mbox' = [mbox EXCEPT ![t] = None]
    /\ Goto(t, "run")
    /\ UNCHANGED <<slot_vars, message, msg, early>>

InCall(t) ==
    Wait(t) \/ WaitReturns(t) \/ CopyIn(t) \/ CopyOut(t) \/ Signal(t)

Step(t) ==
    \/ Create(t) \/ ClaimSlot(t) \/ SlotTaken(t) \/ FillSlot(t)
    \/ (\E m \in Boxes : Send(t, m)) \/ Receive(t) \/ InCall(t)

Next == \E t \in Threads : Step(t)

Spec == Init /\ [][Next]_vars

\* Threads get time slices; a server calls receive in a loop (process_task.c).
Fairness ==
    /\ \A t \in Threads : WF_vars(ClaimSlot(t) \/ SlotTaken(t) \/ FillSlot(t) \/ InCall(t))
    /\ \A t \in Servers : WF_vars(Receive(t))

FairSpec == Spec /\ Fairness

-----------------------------------------------------------------------------
(* Properties.                                                             *)

TypeOK ==
    /\ type \in [Boxes -> {"MAILBOX_NONE", "MAILBOX_THREAD"}]
    /\ owner \in [Boxes -> Threads \cup {None}]
    /\ initialised \subseteq Boxes
    /\ message \in [Boxes -> Threads \cup {None}]
    /\ mailbox \in [Threads -> Boxes \cup {None}]
    /\ pc \in [Threads -> {"new", "static", "search", "fill", "run", "send", "receive",
                           "fill_box", "filled", "read_box", "read"}]
    /\ mbox \in [Threads -> Boxes \cup {None}]
    /\ msg \in [Threads -> Threads \cup {None}]
    /\ early \in BOOLEAN

\* A thread that has a mailbox owns it, and no other thread has the same.
MailboxHasOneOwner ==
    \A t, u \in Threads : mailbox[t] # None =>
        owner[mailbox[t]] = t /\ (mailbox[u] = mailbox[t] => u = t)

\* t has been let through the first semaphore and has not signalled the other.
Inside(t, m) ==
    /\ mbox[t] = m
    /\ \/ pc[t] \in {"fill_box", "filled", "read_box", "read"}
       \/ pc[t] \in {"send", "receive"} /\ phase[t] = "granted"

\* The two semaphores of a mailbox pass one token between them: either one of
\* them has a unit or one thread copies, never two.
OneThreadCopies ==
    ~early => \A m \in initialised :
        count[<<m, "sem_rdy">>] + count[<<m, "sem_recv">>]
            + Cardinality({t \in Threads : Inside(t, m)}) = 1

\* The table and the mailboxes: every slot has one owner and one token.
MailboxesAreSound == TypeOK /\ MailboxHasOneOwner /\ OneThreadCopies

\* A message is in the mailbox from the end of the copy in to the end of the
\* copy out.
Full(m) ==
    \/ count[<<m, "sem_recv">>] > 0
    \/ \E t \in Threads : Inside(t, m) /\ pc[t] \in {"filled", "receive", "read_box"}

Stage(t) ==
    CASE pc[t] \in {"send", "fill_box"} -> "sending"
      [] pc[t] \in {"receive", "read_box"} -> "receiving"
      [] pc[t] \in {"filled", "read"} -> "done"
      [] OTHER -> "outside"

Promise == INSTANCE ChannelSpec WITH
    box <- [m \in Boxes |-> IF m \in initialised /\ Full(m) THEN message[m] ELSE None],
    stage <- [t \in Threads |-> Stage(t)],
    at <- [t \in Threads |-> IF Stage(t) = "outside" THEN None ELSE mbox[t]],
    got <- msg

\* As long as nobody finds a mailbox before its creation is complete, mailboxes
\* are channels of one place: no message is overwritten, lost or read twice.
KeepsPromise == Promise!Init /\ [][early' \/ Promise!Next]_(Promise!vars)

\* A message sent to a thread that receives in a loop is delivered, however many
\* threads send: they are let in in the order in which they came.
MailIsDelivered ==
    \A t \in Threads \ Servers :
        pc[t] = "send" /\ owner[mbox[t]] \in Servers ~> pc[t] = "run" \/ early
=============================================================================
