---------------------------- MODULE MCKernelCore ----------------------------
(* Instances of KernelCore for TLC.  Threads ix only idle, the others call  *)
(* the kernel.                                                              *)
EXTENDS KernelCore, TLC

CONSTANTS c0, c1, i0, i1, a, b, d, s0, s1

\* Two priorities stand for the eight of thread_sched.h: one for the workers,
\* one below it for the idle threads.
WorkersFirst == [t \in Threads |-> IF t \in Idle THEN 1 ELSE 0]

\* Two cpus: workers a and b share cpu 0, worker d runs on cpu 1.
SmpCpu == i0 :> c0 @@ a :> c0 @@ b :> c0 @@ i1 :> c1 @@ d :> c1
SmpBoot == c0 :> (0 :> <<a, b>> @@ 1 :> <<i0>>) @@ c1 :> (0 :> <<d>> @@ 1 :> <<i1>>)

\* As above, but worker b has a lower priority than worker a of its cpu.
BelowFirst == i0 :> 2 @@ a :> 0 @@ b :> 1 @@ i1 :> 2 @@ d :> 0
InversionBoot ==
    c0 :> (0 :> <<a>> @@ 1 :> <<b>> @@ 2 :> <<i0>>) @@
    c1 :> (0 :> <<d>> @@ 1 :> <<>> @@ 2 :> <<i1>>)

\* One cpu, three workers of the same priority.
UniCpu == i0 :> c0 @@ a :> c0 @@ b :> c0 @@ d :> c0
UniBoot == c0 :> (0 :> <<a, b, d>> @@ 1 :> <<i0>>)

ZeroCount == [s \in Sems |-> 0]
OneCount == [s \in Sems |-> 1]
=============================================================================
