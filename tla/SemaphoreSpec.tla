--------------------------- MODULE SemaphoreSpec ---------------------------
(***************************************************************************)
(* What include/sync/semaphore.h promises of a set of counting semaphores, *)
(* with no scheduler, lock, message or interrupt in sight.  A thread that  *)
(* calls semaphore_wait comes back only after it took a unit of the count, *)
(* or after a semaphore_signal handed it one; waiters are served in the    *)
(* order in which they were parked, and a signal never adds to the count   *)
(* while somebody is parked.  KernelCore refines this module.              *)
(***************************************************************************)
EXTENDS Naturals, Sequences

CONSTANTS
    Threads,     \* the threads that use the semaphores
    Sems,        \* the semaphores
    NoSem,       \* target of a thread that is not waiting for a semaphore
    InitCount    \* the value given to semaphore_init, per semaphore

VARIABLES
    count,       \* count[s]: units available (semaphore_t.count)
    waiting,     \* waiting[s]: parked threads, the next one to serve first
    phase,       \* phase[t]: where t stands in its call of semaphore_wait
    target       \* target[t]: the semaphore t called semaphore_wait on

vars == <<count, waiting, phase, target>>

Phases == {"outside", "calling", "parked", "granted"}

Init ==
    /\ count = InitCount
    /\ waiting = [s \in Sems |-> <<>>]
    /\ phase = [t \in Threads |-> "outside"]
    /\ target = [t \in Threads |-> NoSem]

\* t enters semaphore_wait(s).
Call(t, s) ==
    /\ phase[t] = "outside"
    /\ phase' = [phase EXCEPT ![t] = "calling"]
    /\ target' = [target EXCEPT ![t] = s]
    /\ UNCHANGED <<count, waiting>>

\* t takes a unit of the count.
Take(t) ==
    LET s == target[t] IN
    /\ phase[t] = "calling"
    /\ count[s] > 0
    /\ count' = [count EXCEPT ![s] = @ - 1]
    /\ phase' = [phase EXCEPT ![t] = "granted"]
    /\ UNCHANGED <<waiting, target>>

\* Nothing is left: t is parked behind the threads already waiting.
Park(t) ==
    LET s == target[t] IN
    /\ phase[t] = "calling"
    /\ count[s] = 0
    /\ waiting' = [waiting EXCEPT ![s] = Append(@, t)]
    /\ phase' = [phase EXCEPT ![t] = "parked"]
    /\ UNCHANGED <<count, target>>

\* semaphore_signal(s) with a parked thread: the first one gets the unit.
PostToWaiter(s) ==
    /\ waiting[s] # <<>>
    /\ waiting' = [waiting EXCEPT ![s] = Tail(@)]
    /\ phase' = [phase EXCEPT ![Head(waiting[s])] = "granted"]
    /\ UNCHANGED <<count, target>>

\* semaphore_signal(s) with nobody parked.
PostToCount(s) ==
    /\ waiting[s] = <<>>
    /\ count' = [count EXCEPT ![s] = @ + 1]
    /\ UNCHANGED <<waiting, phase, target>>

\* semaphore_wait returns to its caller.
Return(t) ==
    /\ phase[t] = "granted"
    /\ phase' = [phase EXCEPT ![t] = "outside"]
    /\ target' = [target EXCEPT ![t] = NoSem]
    /\ UNCHANGED <<count, waiting>>

Next ==
    \/ \E t \in Threads :
          \/ \E s \in Sems : Call(t, s)
          \/ Take(t)
          \/ Park(t)
          \/ Return(t)
    \/ \E s \in Sems : PostToWaiter(s) \/ PostToCount(s)

Spec == Init /\ [][Next]_vars
=============================================================================
