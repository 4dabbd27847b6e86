-------------------------- MODULE ThreadMailProofs --------------------------
(***************************************************************************)
(* Proofs about ThreadMail, for any number of threads and slots and any    *)
(* choice of static mailboxes.                                             *)
(***************************************************************************)
EXTENDS ThreadMail, FiniteSetTheorems, TLAPS

-----------------------------------------------------------------------------
(* The inductive invariant.                                                *)

TypeInv ==
    /\ TypeOK
    /\ count \in [Sems -> Nat]
    /\ waiting \in [Sems -> Seq(Threads)]
    /\ phase \in [Threads -> Sem!Phases]
    /\ target \in [Threads -> Sems \cup {None}]

\* A slot is claimed once, under ms_lock; only who claimed it fills it in, and
\* that thread owns it from then on.
SlotInv ==
    /\ \A m \in initialised : type[m] = "MAILBOX_THREAD"
    /\ \A t \in Threads : mailbox[t] # None =>
          mailbox[t] \in initialised /\ owner[mailbox[t]] = t
    /\ \A t \in Threads : pc[t] = "fill" =>
          /\ type[mbox[t]] = "MAILBOX_THREAD" /\ mbox[t] \notin initialised
          /\ \A u \in Threads : pc[u] = "fill" /\ mbox[u] = mbox[t] => u = t

Sending == {"send", "fill_box", "filled"}
Receiving == {"receive", "read_box", "read"}

\* A thread in a call has its mailbox, which is complete unless it was found
\* early, and waits for the semaphore of its direction.
CallInv ==
    \A t \in Threads :
        /\ pc[t] \in {"new", "run"} <=> mbox[t] = None
        /\ pc[t] \in Sending \cup Receiving => early \/ mbox[t] \in initialised
        /\ pc[t] \in {"send", "receive"} <=> phase[t] # "outside"
        /\ pc[t] = "send" => target[t] = <<mbox[t], "sem_rdy">>
        /\ pc[t] = "receive" => target[t] = <<mbox[t], "sem_recv">>

\* Who is in the list of a semaphore is parked on it, and is there once.
WaitInv ==
    \A s \in Sems :
        /\ \A i \in 1 .. Len(waiting[s]) :
              phase[waiting[s][i]] = "parked" /\ target[waiting[s][i]] = s
        /\ \A i, j \in 1 .. Len(waiting[s]) : waiting[s][i] = waiting[s][j] => i = j

BaseInv == TypeInv /\ SlotInv /\ CallInv /\ WaitInv

\* The two halves of semaphore_wait, and the two ends of semaphore_signal.
Rest == <<slot_vars, message, pc, mbox, msg, early>>
WaitTakes(t) == Sem!Take(t) /\ UNCHANGED Rest
WaitParks(t) == Sem!Park(t) /\ UNCHANGED Rest

Signalled(t) == <<mbox[t], IF pc[t] = "filled" THEN "sem_recv" ELSE "sem_rdy">>
SignalEnds(t) ==
    /\ pc[t] \in {"filled", "read"}
    /\ mbox' = [mbox EXCEPT ![t] = None]
    /\ Goto(t, "run")
    /\ UNCHANGED <<slot_vars, message, msg, early>>
SignalWakes(t) == SignalEnds(t) /\ Sem!PostToWaiter(Signalled(t))
SignalCounts(t) == SignalEnds(t) /\ Sem!PostToCount(Signalled(t))

\* The steps of a thread, one by one.
LEMMA StepCases ==
    ASSUME NEW t \in Threads, Step(t)
    PROVE  \/ Create(t) \/ ClaimSlot(t) \/ SlotTaken(t) \/ FillSlot(t)
           \/ (\E m \in Boxes : Send(t, m)) \/ Receive(t)
           \/ WaitTakes(t) \/ WaitParks(t) \/ WaitReturns(t)
           \/ CopyIn(t) \/ CopyOut(t) \/ SignalWakes(t) \/ SignalCounts(t)
<1>1. Wait(t) => WaitTakes(t) \/ WaitParks(t)
  BY Zenon DEF Wait, WaitTakes, WaitParks, Rest
<1>2. Signal(t) => SignalWakes(t) \/ SignalCounts(t)
  BY Zenon DEF Signal, SignalWakes, SignalCounts, SignalEnds, Signalled
<1> QED BY <1>1, <1>2, Zenon DEF Step, InCall

\* A mailbox and a semaphore of it.
LEMMA SemFacts ==
    /\ \A m \in Boxes : <<m, "sem_rdy">> \in Sems /\ <<m, "sem_recv">> \in Sems
    /\ \A s \in Sems : \E m \in Boxes : s = <<m, "sem_rdy">> \/ s = <<m, "sem_recv">>
    /\ \A m, n : <<m, "sem_rdy">> # <<n, "sem_recv">>
    /\ \A m, n : <<m, "sem_rdy">> = <<n, "sem_rdy">> => m = n
    /\ \A m, n : <<m, "sem_recv">> = <<n, "sem_recv">> => m = n
    /\ None \notin Threads /\ None \notin Boxes /\ None \notin Sems
BY MailAssumption DEF Sems

\* A thread between the creation of its mailbox and the end of a call has a
\* mailbox of the table.
LEMMA CallHasBox ==
    ASSUME TypeInv, CallInv, NEW t \in Threads, pc[t] \notin {"new", "run"}
    PROVE  mbox[t] \in Boxes
BY DEF TypeInv, TypeOK, CallInv

\* A thread inside semaphore_wait is about to send or to receive, and waits for
\* the semaphore that this takes.
LEMMA WaiterFacts ==
    ASSUME TypeInv, CallInv, NEW t \in Threads, phase[t] # "outside"
    PROVE  /\ mbox[t] \in Boxes /\ target[t] \in Sems
           /\ \/ pc[t] = "send" /\ target[t] = <<mbox[t], "sem_rdy">>
              \/ pc[t] = "receive" /\ target[t] = <<mbox[t], "sem_recv">>
<1>1. pc[t] \in {"send", "receive"}
  BY DEF CallInv
<1>2. mbox[t] \in Boxes
  BY <1>1, CallHasBox
<1> QED BY <1>1, <1>2, SemFacts DEF CallInv

LEMMA SignalledFacts ==
    ASSUME TypeInv, CallInv, NEW t \in Threads, pc[t] \in {"filled", "read"}
    PROVE  Signalled(t) \in Sems /\ mbox[t] \in Boxes
<1>1. mbox[t] \in Boxes
  BY CallHasBox
<1> QED BY <1>1, SemFacts DEF Signalled

\* Who is woken is the first of the list, parked on that semaphore.
LEMMA HeadFacts ==
    ASSUME TypeInv, WaitInv, NEW s \in Sems, waiting[s] # <<>>
    PROVE  /\ Head(waiting[s]) \in Threads
           /\ phase[Head(waiting[s])] = "parked" /\ target[Head(waiting[s])] = s
           /\ Head(waiting[s]) = waiting[s][1]
           /\ Tail(waiting[s]) \in Seq(Threads)
           /\ Len(Tail(waiting[s])) = Len(waiting[s]) - 1 /\ Len(waiting[s]) \in Nat \ {0}
           /\ \A i \in 1 .. Len(waiting[s]) - 1 : Tail(waiting[s])[i] = waiting[s][i + 1]
<1>1. waiting[s] \in Seq(Threads)
  BY DEF TypeInv
<1>2. Len(waiting[s]) \in Nat \ {0} /\ Head(waiting[s]) = waiting[s][1]
  BY <1>1
<1>3. Head(waiting[s]) \in Threads /\ Tail(waiting[s]) \in Seq(Threads)
      /\ Len(Tail(waiting[s])) = Len(waiting[s]) - 1
      /\ \A i \in 1 .. Len(waiting[s]) - 1 : Tail(waiting[s])[i] = waiting[s][i + 1]
  BY <1>1
<1>4. 1 \in 1 .. Len(waiting[s])
  BY <1>2
<1> QED BY <1>2, <1>3, <1>4 DEF WaitInv

LEMMA InitBase == Init => BaseInv
<1> SUFFICES ASSUME Init PROVE BaseInv
  OBVIOUS
<1> USE DEF Init, Sem!Init
<1>1. TypeInv
  <2>1. TypeOK
    BY DEF TypeOK
  <2>2. waiting \in [Sems -> Seq(Threads)]
    <3>1. <<>> \in Seq(Threads)
      OBVIOUS
    <3> QED BY <3>1
  <2>3. /\ count \in [Sems -> Nat] /\ phase \in [Threads -> Sem!Phases]
        /\ target \in [Threads -> Sems \cup {None}]
    BY DEF Sem!Phases
  <2> QED BY <2>1, <2>2, <2>3 DEF TypeInv
<1>2. SlotInv
  BY DEF SlotInv
<1>3. CallInv
  BY DEF CallInv, Sending, Receiving
<1>4. WaitInv
  BY DEF WaitInv
<1> QED BY <1>1, <1>2, <1>3, <1>4 DEF BaseInv

-----------------------------------------------------------------------------
(* Types.                                                                  *)

LEMMA TypeStep ==
    ASSUME TypeInv, CallInv, WaitInv, NEW t \in Threads, Step(t)
    PROVE  TypeInv'
<1> USE DEF TypeInv, TypeOK, Goto, sem_vars, slot_vars, Sem!Phases
<1>1. CASE Create(t)
  <2>1. 0 \in Boxes /\ static_id[t] \in Boxes \cup {None}
    BY MailAssumption DEF Boxes
  <2> QED BY <1>1, <2>1 DEF Create
<1>2. CASE ClaimSlot(t)
  BY <1>2 DEF ClaimSlot
<1>3. CASE SlotTaken(t)
  BY <1>3 DEF SlotTaken
<1>4. CASE FillSlot(t)
  <2>1. mbox[t] \in Boxes
    BY <1>4, CallHasBox DEF FillSlot
  <2>2. TypeOK'
    BY <1>4, <2>1 DEF FillSlot
  <2>3. <<>> \in Seq(Threads)
    OBVIOUS
  <2>4. count' \in [Sems -> Nat] /\ waiting' \in [Sems -> Seq(Threads)]
    BY <1>4, <2>3 DEF FillSlot
  <2>5. UNCHANGED <<phase, target>>
    BY <1>4 DEF FillSlot
  <2> QED BY <2>2, <2>4, <2>5
<1>5. ASSUME NEW m \in Boxes, Send(t, m) PROVE TypeInv'
  BY <1>5, SemFacts DEF Send, Sem!Call
<1>6. CASE Receive(t)
  <2>1. mailbox[t] \in Boxes
    BY <1>6 DEF Receive
  <2> QED BY <1>6, <2>1, SemFacts DEF Receive, Sem!Call
<1>7. CASE WaitTakes(t)
  <2>1. target[t] \in Sems /\ count[target[t]] > 0
    BY <1>7, WaiterFacts DEF WaitTakes, Sem!Take
  <2>2. count[target[t]] - 1 \in Nat
    BY <2>1
  <2>3. count' \in [Sems -> Nat] /\ phase' \in [Threads -> Sem!Phases]
    BY <1>7, <2>2 DEF WaitTakes, Sem!Take
  <2>4. UNCHANGED <<Rest, waiting, target>>
    BY <1>7 DEF WaitTakes, Sem!Take
  <2> QED BY <2>3, <2>4 DEF Rest
<1>8. CASE WaitParks(t)
  <2>1. \A w \in Seq(Threads) : Append(w, t) \in Seq(Threads)
    OBVIOUS
  <2>2. waiting' \in [Sems -> Seq(Threads)] /\ phase' \in [Threads -> Sem!Phases]
    BY <1>8, <2>1 DEF WaitParks, Sem!Park
  <2>3. UNCHANGED <<Rest, count, target>>
    BY <1>8 DEF WaitParks, Sem!Park
  <2> QED BY <2>2, <2>3 DEF Rest
<1>9. CASE WaitReturns(t)
  BY <1>9 DEF WaitReturns, Sem!Return
<1>10. CASE CopyIn(t)
  BY <1>10 DEF CopyIn
<1>11. CASE CopyOut(t)
  <2>1. mbox[t] \in Boxes
    BY <1>11, CallHasBox DEF CopyOut
  <2> QED BY <1>11, <2>1 DEF CopyOut
<1>12. ASSUME SignalEnds(t) PROVE TypeOK'
  BY <1>12 DEF SignalEnds
<1>13. CASE SignalWakes(t)
  <2> DEFINE s == Signalled(t)
  <2>1. s \in Sems
    BY <1>13, SignalledFacts DEF SignalWakes, SignalEnds
  <2>2. Head(waiting[s]) \in Threads /\ Tail(waiting[s]) \in Seq(Threads)
    BY <1>13, <2>1, HeadFacts DEF SignalWakes, Sem!PostToWaiter
  <2> HIDE DEF s
  <2>3. waiting' \in [Sems -> Seq(Threads)] /\ phase' \in [Threads -> Sem!Phases]
    BY <1>13, <2>1, <2>2 DEF SignalWakes, Sem!PostToWaiter, s
  <2>4. UNCHANGED <<count, target>>
    BY <1>13 DEF SignalWakes, Sem!PostToWaiter
  <2>5. TypeOK'
    BY <1>12, <1>13 DEF SignalWakes
  <2> QED BY <2>3, <2>4, <2>5
<1>14. CASE SignalCounts(t)
  <2>1. Signalled(t) \in Sems
    BY <1>14, SignalledFacts DEF SignalCounts, SignalEnds
  <2>2. count' \in [Sems -> Nat]
    BY <1>14, <2>1 DEF SignalCounts, Sem!PostToCount
  <2>3. UNCHANGED <<waiting, phase, target>>
    BY <1>14 DEF SignalCounts, Sem!PostToCount
  <2>4. TypeOK'
    BY <1>12, <1>14 DEF SignalCounts
  <2> QED BY <2>2, <2>3, <2>4
<1> QED BY <1>1, <1>2, <1>3, <1>4, <1>5, <1>6, <1>7, <1>8, <1>9, <1>10, <1>11, <1>13, <1>14,
           StepCases

-----------------------------------------------------------------------------
(* The table.                                                              *)

LEMMA SlotStep ==
    ASSUME TypeInv, SlotInv, CallInv, NEW t \in Threads, Step(t)
    PROVE  SlotInv'
<1> USE DEF SlotInv, Goto
<1>1. TypeOK
  BY DEF TypeInv
<1>2. None \notin Boxes
  BY SemFacts
<1>3. pc[t] \notin {"new", "run"} => mbox[t] \in Boxes
  BY CallHasBox
<1>4. CASE Create(t) \/ SlotTaken(t)
  BY <1>1, <1>4 DEF Create, SlotTaken, TypeOK, slot_vars
<1>5. CASE ClaimSlot(t)
  <2>1. type[mbox[t]] # "MAILBOX_THREAD" /\ mbox[t] \in Boxes
    BY <1>3, <1>5 DEF ClaimSlot
  <2>2. mbox[t] \notin initialised
    BY <2>1
  <2>3. \A u \in Threads : pc[u] = "fill" => mbox[u] # mbox[t]
    BY <2>1
  <2>4. \A m \in Boxes : type'[m] = IF m = mbox[t] THEN "MAILBOX_THREAD" ELSE type[m]
    BY <1>1, <1>5 DEF ClaimSlot, TypeOK
  <2>5. initialised \subseteq Boxes /\ \A u \in Threads : pc[u] = "fill" => mbox[u] \in Boxes
    BY <1>1, CallHasBox DEF TypeOK
  <2>6. \A u \in Threads : pc'[u] = IF u = t THEN "fill" ELSE pc[u]
    BY <1>1, <1>5 DEF ClaimSlot, TypeOK
  <2>7. UNCHANGED <<owner, initialised, mailbox, mbox>>
    BY <1>5 DEF ClaimSlot
  <2> QED BY <2>1, <2>2, <2>3, <2>4, <2>5, <2>6, <2>7
<1>6. CASE FillSlot(t)
  <2>1. mbox[t] \in Boxes /\ mbox[t] \notin initialised /\ type[mbox[t]] = "MAILBOX_THREAD"
        /\ \A u \in Threads : pc[u] = "fill" /\ mbox[u] = mbox[t] => u = t
    BY <1>3, <1>6 DEF FillSlot
  <2>2. \A u \in Threads : pc'[u] = IF u = t THEN "run" ELSE pc[u]
    BY <1>1, <1>6 DEF FillSlot, TypeOK
  <2>3. \A u \in Threads : mailbox'[u] = IF u = t THEN mbox[t] ELSE mailbox[u]
    BY <1>1, <1>6 DEF FillSlot, TypeOK
  <2>4. \A m \in Boxes : owner'[m] = IF m = mbox[t] THEN t ELSE owner[m]
    BY <1>1, <1>6 DEF FillSlot, TypeOK
  <2>5. \A u \in Threads : u # t => mbox'[u] = mbox[u]
    BY <1>1, <1>6 DEF FillSlot, TypeOK
  <2>6. initialised' = initialised \cup {mbox[t]} /\ type' = type /\ initialised \subseteq Boxes
    BY <1>1, <1>6 DEF FillSlot, TypeOK
  <2> QED BY <2>1, <2>2, <2>3, <2>4, <2>5, <2>6
<1>7. ASSUME pc[t] # "fill", UNCHANGED slot_vars, pc'[t] # "fill",
             \A u \in Threads : u # t => pc'[u] = pc[u] /\ mbox'[u] = mbox[u]
      PROVE  SlotInv'
  BY <1>7 DEF slot_vars
<1>8. ASSUME NEW m \in Boxes, Send(t, m) PROVE SlotInv'
  BY <1>1, <1>7, <1>8 DEF Send, TypeOK
<1>9. CASE Receive(t) \/ WaitReturns(t) \/ CopyIn(t) \/ CopyOut(t)
  <2>1. CASE Receive(t)
    BY <1>1, <1>7, <2>1 DEF Receive, TypeOK
  <2>2. CASE WaitReturns(t)
    <3>1. pc[t] # "fill"
      BY <2>2 DEF WaitReturns, Sem!Return, CallInv
    <3> QED BY <1>1, <1>7, <2>2, <3>1 DEF WaitReturns, TypeOK
  <2>3. CASE CopyIn(t) \/ CopyOut(t)
    BY <1>1, <1>7, <2>3 DEF CopyIn, CopyOut, TypeOK
  <2> QED BY <1>9, <2>1, <2>2, <2>3
<1>10. CASE WaitTakes(t) \/ WaitParks(t)
  <2>1. UNCHANGED <<slot_vars, pc, mbox>>
    BY <1>10 DEF WaitTakes, WaitParks, Rest
  <2> QED BY <2>1 DEF slot_vars
<1>11. CASE SignalWakes(t) \/ SignalCounts(t)
  BY <1>1, <1>7, <1>11 DEF SignalWakes, SignalCounts, SignalEnds, TypeOK
<1> QED BY <1>4, <1>5, <1>6, <1>8, <1>9, <1>10, <1>11, StepCases

-----------------------------------------------------------------------------
(* The calls and the semaphores.                                           *)

\* A thread keeps its place in a list while others call, wait and signal.
LEMMA CallStep ==
    ASSUME TypeInv, SlotInv, CallInv, WaitInv, NEW t \in Threads, Step(t)
    PROVE  CallInv'
<1> USE DEF Goto, Sending, Receiving
<1>1. TypeOK /\ phase \in [Threads -> Sem!Phases] /\ target \in [Threads -> Sems \cup {None}]
  BY DEF TypeInv
<1>2. None \notin Boxes
  BY SemFacts
\* What it takes for a step that changes only the fields of t.
<1> DEFINE Own(u) ==
        /\ pc[u] \in {"new", "run"} <=> mbox[u] = None
        /\ pc[u] \in Sending \cup Receiving => early \/ mbox[u] \in initialised
        /\ pc[u] \in {"send", "receive"} <=> phase[u] # "outside"
        /\ pc[u] = "send" => target[u] = <<mbox[u], "sem_rdy">>
        /\ pc[u] = "receive" => target[u] = <<mbox[u], "sem_recv">>
<1>3. (\A u \in Threads : Own(u)) /\ ((\A u \in Threads : Own(u)') => CallInv')
  BY DEF CallInv
<1>4. ASSUME \A u \in Threads : u # t => /\ pc'[u] = pc[u] /\ mbox'[u] = mbox[u]
                                         /\ phase'[u] = phase[u] /\ target'[u] = target[u],
             early => early', initialised \subseteq initialised', Own(t)'
      PROVE  CallInv'
  BY <1>3, <1>4
<1>5. CASE Create(t)
  <2>1. 0 \in Boxes /\ static_id[t] \in Boxes \cup {None}
    BY MailAssumption DEF Boxes
  <2> QED BY <1>1, <1>2, <1>3, <1>4, <1>5, <2>1 DEF Create, TypeOK, slot_vars, sem_vars
<1>6. CASE ClaimSlot(t)
  BY <1>1, <1>3, <1>4, <1>6 DEF ClaimSlot, TypeOK, sem_vars
<1>7. CASE SlotTaken(t)
  BY <1>1, <1>2, <1>3, <1>4, <1>7 DEF SlotTaken, TypeOK, slot_vars, sem_vars
<1>8. CASE FillSlot(t)
  BY <1>1, <1>3, <1>4, <1>8 DEF FillSlot, TypeOK
<1>9. ASSUME NEW m \in Boxes, Send(t, m) PROVE CallInv'
  BY <1>1, <1>2, <1>3, <1>4, <1>9 DEF Send, Sem!Call, TypeOK, slot_vars
<1>10. CASE Receive(t)
  <2>1. mailbox[t] \in initialised /\ mailbox[t] \in Boxes
    BY <1>1, <1>10 DEF Receive, SlotInv, TypeOK
  <2> QED BY <1>1, <1>2, <1>3, <1>4, <1>10, <2>1 DEF Receive, Sem!Call, TypeOK, slot_vars
<1>11. CASE WaitTakes(t)
  BY <1>1, <1>3, <1>4, <1>11 DEF WaitTakes, Rest, Sem!Take, slot_vars
<1>12. CASE WaitParks(t)
  BY <1>1, <1>3, <1>4, <1>12 DEF WaitParks, Rest, Sem!Park, slot_vars
<1>13. CASE WaitReturns(t)
  BY <1>1, <1>3, <1>4, <1>13 DEF WaitReturns, Sem!Return, slot_vars, TypeOK
<1>14. CASE CopyIn(t) \/ CopyOut(t)
  BY <1>1, <1>3, <1>4, <1>14 DEF CopyIn, CopyOut, slot_vars, sem_vars, TypeOK
<1>15. CASE SignalWakes(t)
  <2> DEFINE w == Head(waiting[Signalled(t)])
  <2>1. w \in Threads /\ phase[w] = "parked"
    BY <1>15, SignalledFacts, HeadFacts DEF SignalWakes, SignalEnds, Sem!PostToWaiter
  <2> HIDE DEF w
  <2>2. phase' = [phase EXCEPT ![w] = "granted"] /\ UNCHANGED target
    BY <1>15 DEF SignalWakes, Sem!PostToWaiter, w
  <2>3. \A u \in Threads : phase'[u] # "outside" <=> phase[u] # "outside"
    BY <1>1, <2>1, <2>2
  <2> QED BY <1>1, <1>3, <1>15, <2>2, <2>3 DEF SignalWakes, SignalEnds, slot_vars, TypeOK
<1>16. CASE SignalCounts(t)
  BY <1>1, <1>3, <1>4, <1>16 DEF SignalCounts, SignalEnds, Sem!PostToCount, slot_vars, TypeOK
<1> QED BY <1>5, <1>6, <1>7, <1>8, <1>9, <1>10, <1>11, <1>12, <1>13, <1>14, <1>15, <1>16, StepCases

\* Lists change at the ends, and by semaphore_init.
LEMMA WaitStep ==
    ASSUME TypeInv, CallInv, WaitInv, NEW t \in Threads, Step(t)
    PROVE  WaitInv'
<1>1. /\ phase \in [Threads -> Sem!Phases] /\ target \in [Threads -> Sems \cup {None}]
      /\ waiting \in [Sems -> Seq(Threads)]
      /\ \A s \in Sems : Len(waiting[s]) \in Nat
      /\ \A s \in Sems : \A i \in 1 .. Len(waiting[s]) : waiting[s][i] \in Threads
  BY DEF TypeInv
\* A call that begins or ends is not one of those that wait.
<1>2. ASSUME waiting' = waiting,
             \A u \in Threads : phase[u] = "parked" =>
                 phase'[u] = "parked" /\ target'[u] = target[u]
      PROVE  WaitInv'
  BY <1>1, <1>2 DEF WaitInv
<1>3. CASE UNCHANGED sem_vars
  BY <1>2, <1>3 DEF sem_vars
<1>4. CASE Create(t) \/ ClaimSlot(t) \/ SlotTaken(t) \/ CopyIn(t) \/ CopyOut(t)
  BY <1>3, <1>4 DEF Create, ClaimSlot, SlotTaken, CopyIn, CopyOut
<1>5. CASE FillSlot(t)
  <2>1. \A s \in Sems : waiting'[s] = waiting[s] \/ waiting'[s] = <<>>
    BY <1>1, <1>5 DEF FillSlot
  <2>2. UNCHANGED <<phase, target>>
    BY <1>5 DEF FillSlot
  <2> QED BY <2>1, <2>2 DEF WaitInv
<1>6. CASE Receive(t) \/ \E m \in Boxes : Send(t, m)
  BY <1>1, <1>2, <1>6 DEF Receive, Send, Sem!Call
<1>7. CASE WaitTakes(t) \/ WaitReturns(t)
  BY <1>1, <1>2, <1>7 DEF WaitTakes, WaitReturns, Sem!Take, Sem!Return
<1>8. CASE WaitParks(t)
  <2> DEFINE s == target[t]
  <2>1. phase[t] = "calling" /\ s \in Sems
    BY <1>8, WaiterFacts DEF WaitParks, Sem!Park
  <2>2. /\ waiting' = [waiting EXCEPT ![s] = Append(waiting[s], t)]
        /\ phase' = [phase EXCEPT ![t] = "parked"] /\ target' = target
    BY <1>8 DEF WaitParks, Sem!Park
  <2>3. \A i \in 1 .. Len(waiting[s]) : waiting[s][i] # t
    BY <2>1 DEF WaitInv
  <2>4. /\ waiting'[s] = Append(waiting[s], t)
        /\ Len(waiting'[s]) = Len(waiting[s]) + 1 /\ waiting'[s][Len(waiting[s]) + 1] = t
        /\ \A i \in 1 .. Len(waiting[s]) : waiting'[s][i] = waiting[s][i]
    BY <1>1, <2>1, <2>2
  <2>5. \A q \in Sems : q # s => waiting'[q] = waiting[q]
    BY <1>1, <2>2
  <2>6. \A u \in Threads : phase'[u] = IF u = t THEN "parked" ELSE phase[u]
    BY <1>1, <2>2
  <2> SUFFICES ASSUME NEW q \in Sems
               PROVE  /\ \A i \in 1 .. Len(waiting'[q]) :
                            phase'[waiting'[q][i]] = "parked" /\ target'[waiting'[q][i]] = q
                      /\ \A i, j \in 1 .. Len(waiting'[q]) :
                            waiting'[q][i] = waiting'[q][j] => i = j
    BY DEF WaitInv
  <2>7. CASE q # s
    BY <1>1, <2>2, <2>5, <2>6, <2>7 DEF WaitInv
  <2>8. CASE q = s
    <3>1. Len(waiting[q]) \in Nat /\ \A i \in 1 .. Len(waiting'[q]) :
             i \in 1 .. Len(waiting[q]) \/ i = Len(waiting[q]) + 1
      BY <1>1, <2>4, <2>8
    <3> HIDE DEF s
    <3> QED BY <1>1, <2>1, <2>2, <2>3, <2>4, <2>6, <2>8, <3>1 DEF WaitInv, s
  <2> QED BY <2>7, <2>8
<1>9. CASE SignalWakes(t)
  <2> DEFINE s == Signalled(t)
             w == Head(waiting[s])
  <2>1. s \in Sems /\ waiting[s] # <<>>
    BY <1>9, SignalledFacts DEF SignalWakes, SignalEnds, Sem!PostToWaiter
  <2>2. /\ w \in Threads /\ phase[w] = "parked" /\ target[w] = s /\ w = waiting[s][1]
        /\ Len(Tail(waiting[s])) = Len(waiting[s]) - 1 /\ Len(waiting[s]) \in Nat \ {0}
        /\ \A i \in 1 .. Len(waiting[s]) - 1 : Tail(waiting[s])[i] = waiting[s][i + 1]
    BY <2>1, HeadFacts
  <2>3. /\ waiting' = [waiting EXCEPT ![s] = Tail(waiting[s])]
        /\ phase' = [phase EXCEPT ![w] = "granted"] /\ target' = target
    BY <1>9 DEF SignalWakes, Sem!PostToWaiter
  <2> HIDE DEF w, s
  <2>4. \A u \in Threads : u # w => phase'[u] = phase[u]
    BY <1>1, <2>3
  <2>5. /\ Len(waiting'[s]) = Len(waiting[s]) - 1
        /\ \A i \in 1 .. Len(waiting[s]) - 1 : waiting'[s][i] = waiting[s][i + 1]
    BY <1>1, <2>1, <2>2, <2>3
  <2>6. \A q \in Sems : q # s => waiting'[q] = waiting[q]
    BY <1>1, <2>3
  <2> SUFFICES ASSUME NEW q \in Sems
               PROVE  /\ \A i \in 1 .. Len(waiting'[q]) :
                            phase'[waiting'[q][i]] = "parked" /\ target'[waiting'[q][i]] = q
                      /\ \A i, j \in 1 .. Len(waiting'[q]) :
                            waiting'[q][i] = waiting'[q][j] => i = j
    BY DEF WaitInv
  <2>7. CASE q # s
    <3>1. \A i \in 1 .. Len(waiting[q]) : waiting[q][i] \in Threads /\ waiting[q][i] # w
      BY <1>1, <2>2, <2>7 DEF WaitInv
    <3> QED BY <2>3, <2>4, <2>6, <2>7, <3>1 DEF WaitInv
  <2>8. CASE q = s
    <3>1. \A i \in 1 .. Len(waiting[s]) - 1 :
             i + 1 \in 1 .. Len(waiting[s]) /\ 1 \in 1 .. Len(waiting[s]) /\ i + 1 # 1
      BY <2>2
    <3>2. \A i \in 1 .. Len(waiting[s]) - 1 : waiting[s][i + 1] # w
      BY <2>1, <2>2, <3>1 DEF WaitInv
    <3>3. \A i \in 1 .. Len(waiting[s]) - 1 :
             phase'[waiting'[s][i]] = "parked" /\ target'[waiting'[s][i]] = s
      BY <1>1, <2>1, <2>3, <2>4, <2>5, <3>1, <3>2 DEF WaitInv
    <3>4. \A i, j \in 1 .. Len(waiting[s]) - 1 : waiting'[s][i] = waiting'[s][j] => i = j
      <4>1. \A i, j \in 1 .. Len(waiting[s]) - 1 : waiting'[s][i] = waiting'[s][j] => i + 1 = j + 1
        BY <2>1, <2>5, <3>1 DEF WaitInv
      <4> QED BY <2>2, <4>1
    <3> QED BY <2>5, <2>8, <3>3, <3>4
  <2> QED BY <2>7, <2>8
<1>10. CASE SignalCounts(t)
  BY <1>2, <1>10 DEF SignalCounts, Sem!PostToCount
<1> QED BY <1>4, <1>5, <1>6, <1>7, <1>8, <1>9, <1>10, StepCases

LEMMA NextBase == BaseInv /\ [Next]_vars => BaseInv'
<1> SUFFICES ASSUME BaseInv, [Next]_vars PROVE BaseInv'
  OBVIOUS
<1>1. ASSUME NEW t \in Threads, Step(t) PROVE BaseInv'
  BY <1>1, TypeStep, SlotStep, CallStep, WaitStep DEF BaseInv
<1>2. CASE UNCHANGED vars
  <2>1. TypeInv' /\ SlotInv'
    BY <1>2 DEF vars, slot_vars, sem_vars, BaseInv, TypeInv, TypeOK, SlotInv
  <2>2. CallInv' /\ WaitInv'
    BY <1>2 DEF vars, slot_vars, sem_vars, BaseInv, CallInv, WaitInv
  <2> QED BY <2>1, <2>2 DEF BaseInv
<1> QED BY <1>1, <1>2 DEF Next

LEMMA BaseInvariant == Spec => []BaseInv
BY InitBase, NextBase, PTL DEF Spec

\* A thread that has a mailbox owns its slot, and no two threads have the same,
\* whenever it was found.
LEMMA OwnersAreUnique == BaseInv => TypeOK /\ MailboxHasOneOwner
BY DEF BaseInv, TypeInv, SlotInv, MailboxHasOneOwner

-----------------------------------------------------------------------------
(* One token per mailbox.                                                  *)

Copying(m) == {t \in Threads : Inside(t, m)}
Units(m) == count[<<m, "sem_rdy">>] + count[<<m, "sem_recv">>]

\* The threads are not bounded: that those inside can be counted is part of the
\* invariant.
TokenInv ==
    ~early => \A m \in initialised :
        IsFiniteSet(Copying(m)) /\ Units(m) + Cardinality(Copying(m)) = 1

\* A thread inside a complete mailbox is alone, and has the token.
LEMMA InsideAlone ==
    ASSUME BaseInv, TokenInv, ~early, NEW t \in Threads, NEW m \in initialised, Inside(t, m)
    PROVE  /\ count[<<m, "sem_rdy">>] = 0 /\ count[<<m, "sem_recv">>] = 0
           /\ \A u \in Threads : Inside(u, m) => u = t
<1> DEFINE others == Copying(m) \ {t}
<1>1. m \in Boxes
  BY DEF BaseInv, TypeInv, TypeOK
<1>2. count[<<m, "sem_rdy">>] \in Nat /\ count[<<m, "sem_recv">>] \in Nat
  BY <1>1, SemFacts DEF BaseInv, TypeInv
<1>3. t \in Copying(m) /\ IsFiniteSet(Copying(m)) /\ Units(m) + Cardinality(Copying(m)) = 1
  BY DEF TokenInv, Copying
<1>4. /\ IsFiniteSet(others) /\ Cardinality(others) = Cardinality(Copying(m)) - 1
      /\ Cardinality(others) \in Nat
  BY <1>3, FS_RemoveElement, FS_CardinalityType
<1>5. Cardinality(others) = 0 /\ Units(m) = 0
  <2>1. Cardinality(Copying(m)) \in Nat /\ Units(m) \in Nat
    BY <1>2, <1>3, FS_CardinalityType DEF Units
  <2> HIDE DEF others
  <2> QED BY <1>3, <1>4, <2>1
<1>6. others = {}
  BY <1>4, <1>5, FS_EmptySet
<1>7. \A u \in Copying(m) : u = t
  BY <1>6
<1> QED BY <1>2, <1>5, <1>7 DEF Units, Copying

\* Nobody is in a call on a mailbox that is not complete.
LEMMA NobodyInsideNew ==
    ASSUME BaseInv, ~early, NEW m \in Boxes \ initialised, NEW t \in Threads
    PROVE  ~Inside(t, m)
BY DEF BaseInv, CallInv, Inside, Sending, Receiving

\* A step that lets nobody in or out and leaves the units alone.
LEMMA TokenStays ==
    ASSUME BaseInv, TokenInv, ~early, UNCHANGED <<count, initialised>>,
           \A u \in Threads, m \in Boxes : Inside(u, m)' <=> Inside(u, m)
    PROVE  TokenInv'
<1>1. \A m \in Boxes : Copying(m)' = Copying(m) /\ Units(m)' = Units(m)
  BY DEF Copying, Units
<1>2. initialised \subseteq Boxes
  BY DEF BaseInv, TypeInv, TypeOK
<1> QED BY <1>1, <1>2 DEF TokenInv

\* Calls that begin, wait or copy are such steps.
LEMMA InsideStays ==
    ASSUME BaseInv, NEW t \in Threads,
           \/ Create(t) \/ ClaimSlot(t) \/ SlotTaken(t)
           \/ (\E m \in Boxes : Send(t, m)) \/ Receive(t)
           \/ WaitParks(t) \/ WaitReturns(t) \/ CopyIn(t) \/ CopyOut(t)
    PROVE  /\ \A u \in Threads, m \in Boxes : Inside(u, m)' <=> Inside(u, m)
           /\ UNCHANGED <<count, initialised>>
<1> USE DEF Goto, Inside, slot_vars, sem_vars
<1>1. TypeOK /\ CallInv /\ phase \in [Threads -> Sem!Phases]
  BY DEF BaseInv, TypeInv
<1>2. CASE Create(t) \/ ClaimSlot(t) \/ SlotTaken(t)
  BY <1>1, <1>2 DEF Create, ClaimSlot, SlotTaken, TypeOK
<1>3. CASE Receive(t) \/ \E m \in Boxes : Send(t, m)
  BY <1>1, <1>3 DEF Receive, Send, Sem!Call, TypeOK
<1>4. CASE WaitParks(t)
  BY <1>1, <1>4 DEF WaitParks, Rest, Sem!Park
<1>5. CASE WaitReturns(t)
  BY <1>1, <1>5 DEF WaitReturns, Sem!Return, TypeOK, CallInv
<1>6. CASE CopyIn(t) \/ CopyOut(t)
  BY <1>1, <1>6 DEF CopyIn, CopyOut, TypeOK
<1> QED BY <1>2, <1>3, <1>4, <1>5, <1>6

\* The thread that takes a unit is let in.
LEMMA TakeLetsIn ==
    ASSUME BaseInv, NEW t \in Threads, WaitTakes(t)
    PROVE  /\ \A u \in Threads, m \in Boxes :
                 Inside(u, m)' <=> Inside(u, m) \/ (u = t /\ m = mbox[t])
           /\ ~Inside(t, mbox[t]) /\ mbox[t] \in Boxes
           /\ count[target[t]] > 0 /\ target[t] \in Sems
           /\ \/ pc[t] = "send" /\ target[t] = <<mbox[t], "sem_rdy">>
              \/ pc[t] = "receive" /\ target[t] = <<mbox[t], "sem_recv">>
           /\ count' = [count EXCEPT ![target[t]] = @ - 1]
           /\ UNCHANGED <<pc, mbox, initialised, message>>
<1>1. phase \in [Threads -> Sem!Phases] /\ phase[t] = "calling"
  BY DEF BaseInv, TypeInv, WaitTakes, Sem!Take
<1>2. /\ mbox[t] \in Boxes /\ target[t] \in Sems
      /\ \/ pc[t] = "send" /\ target[t] = <<mbox[t], "sem_rdy">>
         \/ pc[t] = "receive" /\ target[t] = <<mbox[t], "sem_recv">>
  BY <1>1, WaiterFacts DEF BaseInv
<1>3. /\ phase' = [phase EXCEPT ![t] = "granted"] /\ count[target[t]] > 0
      /\ count' = [count EXCEPT ![target[t]] = @ - 1]
      /\ UNCHANGED <<pc, mbox, initialised, message>>
  BY DEF WaitTakes, Rest, slot_vars, Sem!Take
<1>4. \A u \in Threads, m \in Boxes :
         Inside(u, m)' <=> Inside(u, m) \/ (u = t /\ m = mbox[t])
  BY <1>1, <1>2, <1>3 DEF Inside
<1>5. ~Inside(t, mbox[t])
  BY <1>1, <1>2 DEF Inside
<1> QED BY <1>2, <1>3, <1>4, <1>5

\* The thread that signals goes out, and the one it wakes comes in, at the same
\* mailbox and in the other direction.
LEMMA WakeHandsOver ==
    ASSUME BaseInv, NEW t \in Threads, SignalWakes(t)
    PROVE  \E w \in Threads :
              /\ w # t /\ Inside(t, mbox[t]) /\ ~Inside(w, mbox[t]) /\ mbox[t] \in Boxes
              /\ \/ pc[t] = "filled" /\ pc[w] = "receive"
                 \/ pc[t] = "read" /\ pc[w] = "send"
              /\ \A u \in Threads, m \in Boxes : Inside(u, m)' <=>
                    \/ Inside(u, m) /\ u # t
                    \/ u = w /\ m = mbox[t]
              /\ \A u \in Threads : u # t => pc'[u] = pc[u]
              /\ UNCHANGED <<count, initialised, message>>
<1> DEFINE w == Head(waiting[Signalled(t)])
           m0 == mbox[t]
<1>1. TypeOK /\ phase \in [Threads -> Sem!Phases] /\ CallInv
  BY DEF BaseInv, TypeInv
<1>2. pc[t] \in {"filled", "read"} /\ m0 \in Boxes /\ Signalled(t) \in Sems
  BY SignalledFacts DEF SignalWakes, SignalEnds, BaseInv
<1>3. w \in Threads /\ phase[w] = "parked" /\ target[w] = Signalled(t)
  BY <1>2, HeadFacts DEF SignalWakes, Sem!PostToWaiter, BaseInv
<1>4. /\ \/ pc[w] = "send" /\ target[w] = <<mbox[w], "sem_rdy">>
         \/ pc[w] = "receive" /\ target[w] = <<mbox[w], "sem_recv">>
  BY <1>3, WaiterFacts DEF BaseInv
<1>5. /\ mbox[w] = m0 /\ w # t
      /\ \/ pc[t] = "filled" /\ pc[w] = "receive"
         \/ pc[t] = "read" /\ pc[w] = "send"
  <2>1. CASE pc[t] = "filled"
    <3>1. Signalled(t) = <<m0, "sem_recv">>
      BY <2>1 DEF Signalled
    <3> HIDE DEF w, m0
    <3> QED BY <1>3, <1>4, <2>1, <3>1, SemFacts
  <2>2. CASE pc[t] = "read"
    <3>1. Signalled(t) = <<m0, "sem_rdy">>
      BY <2>2 DEF Signalled
    <3> HIDE DEF w, m0
    <3> QED BY <1>3, <1>4, <2>2, <3>1, SemFacts
  <2> QED BY <1>2, <2>1, <2>2
<1>6. /\ phase' = [phase EXCEPT ![w] = "granted"] /\ mbox' = [mbox EXCEPT ![t] = None]
      /\ pc' = [pc EXCEPT ![t] = "run"] /\ UNCHANGED <<count, initialised, message>>
  BY DEF SignalWakes, SignalEnds, Goto, slot_vars, Sem!PostToWaiter
<1> HIDE DEF w
<1>7. \A u \in Threads : u # t => pc'[u] = pc[u] /\ mbox'[u] = mbox[u]
  BY <1>1, <1>6 DEF TypeOK
<1>8. pc'[t] = "run" /\ Inside(t, m0) /\ ~Inside(w, m0)
  BY <1>1, <1>2, <1>3, <1>4, <1>6 DEF TypeOK, Inside
<1>9. \A u \in Threads : phase'[u] = IF u = w THEN "granted" ELSE phase[u]
  BY <1>1, <1>3, <1>6
<1>10. \A u \in Threads, m \in Boxes : Inside(u, m)' <=>
          (Inside(u, m) /\ u # t) \/ (u = w /\ m = m0)
  <2> SUFFICES ASSUME NEW u \in Threads, NEW m \in Boxes
               PROVE  Inside(u, m)' <=> (Inside(u, m) /\ u # t) \/ (u = w /\ m = m0)
    OBVIOUS
  <2>1. CASE u = t
    BY <1>5, <1>8, <2>1 DEF Inside
  <2>2. CASE u = w
    BY <1>3, <1>4, <1>5, <1>7, <1>9, <2>2 DEF Inside
  <2>3. CASE u # t /\ u # w
    BY <1>7, <1>9, <2>3 DEF Inside
  <2> QED BY <2>1, <2>2, <2>3
<1> QED BY <1>2, <1>3, <1>5, <1>6, <1>7, <1>8, <1>10

\* The thread that signals goes out, and leaves a unit of the other semaphore.
LEMMA CountLetsOut ==
    ASSUME BaseInv, NEW t \in Threads, SignalCounts(t)
    PROVE  /\ Inside(t, mbox[t]) /\ mbox[t] \in Boxes /\ Signalled(t) \in Sems
           /\ pc[t] \in {"filled", "read"}
           /\ \A u \in Threads, m \in Boxes : Inside(u, m)' <=> Inside(u, m) /\ u # t
           /\ \A u \in Threads : u # t => pc'[u] = pc[u]
           /\ count' = [count EXCEPT ![Signalled(t)] = @ + 1]
           /\ UNCHANGED <<initialised, message>>
<1>1. TypeOK /\ phase \in [Threads -> Sem!Phases]
  BY DEF BaseInv, TypeInv
<1>2. pc[t] \in {"filled", "read"} /\ mbox[t] \in Boxes /\ Signalled(t) \in Sems
  BY SignalledFacts DEF SignalCounts, SignalEnds, BaseInv
<1>3. /\ mbox' = [mbox EXCEPT ![t] = None] /\ pc' = [pc EXCEPT ![t] = "run"]
      /\ count' = [count EXCEPT ![Signalled(t)] = @ + 1]
      /\ UNCHANGED <<phase, initialised, message>>
  BY DEF SignalCounts, SignalEnds, Goto, slot_vars, Sem!PostToCount
<1>4. Inside(t, mbox[t])
  BY <1>2 DEF Inside
<1>5. \A u \in Threads, m \in Boxes : Inside(u, m)' <=> Inside(u, m) /\ u # t
  BY <1>1, <1>3 DEF Inside, TypeOK
<1>6. \A u \in Threads : u # t => pc'[u] = pc[u]
  BY <1>1, <1>3 DEF TypeOK
<1> QED BY <1>2, <1>3, <1>4, <1>5, <1>6

LEMMA TokenStep ==
    ASSUME BaseInv, BaseInv', TokenInv, NEW t \in Threads, Step(t)
    PROVE  TokenInv'
<1> SUFFICES ASSUME ~early' PROVE TokenInv'
  BY DEF TokenInv
<1>1. early \in BOOLEAN /\ initialised \subseteq Boxes /\ count \in [Sems -> Nat]
  BY DEF BaseInv, TypeInv, TypeOK
<1>2. ~early
  BY <1>1, StepCases DEF Create, ClaimSlot, SlotTaken, FillSlot, Send, Receive, WaitTakes, WaitParks,
         Rest, WaitReturns, CopyIn, CopyOut, SignalWakes, SignalCounts, SignalEnds
<1>3. \A m \in initialised :
         IsFiniteSet(Copying(m)) /\ Units(m) + Cardinality(Copying(m)) = 1
  BY <1>2 DEF TokenInv
<1>4. \A m \in Boxes : <<m, "sem_rdy">> \in Sems /\ <<m, "sem_recv">> \in Sems
  BY SemFacts
<1>5. ASSUME \/ Create(t) \/ ClaimSlot(t) \/ SlotTaken(t)
             \/ (\E m \in Boxes : Send(t, m)) \/ Receive(t)
             \/ WaitParks(t) \/ WaitReturns(t) \/ CopyIn(t) \/ CopyOut(t)
      PROVE  TokenInv'
  BY <1>2, <1>5, InsideStays, TokenStays
<1>6. CASE FillSlot(t)
  <2>0. PICK new : new = mbox[t]
    OBVIOUS
  <2>1. new \in Boxes /\ new \notin initialised
    BY <1>6, <2>0, CallHasBox DEF FillSlot, BaseInv, SlotInv
  <2>2. \A u \in Threads, m \in Boxes : Inside(u, m)' <=> Inside(u, m)
    BY <1>6 DEF FillSlot, Inside, Goto, BaseInv, TypeInv, TypeOK
  <2>3. \A m \in Boxes : Copying(m)' = Copying(m)
    BY <2>2 DEF Copying
  <2>4. Copying(new) = {}
    BY <1>2, <2>1, NobodyInsideNew DEF Copying
  <2>5. /\ initialised' = initialised \cup {new}
        /\ count' = [count EXCEPT ![<<new, "sem_rdy">>] = 1, ![<<new, "sem_recv">>] = 0]
    BY <1>6, <2>0 DEF FillSlot
  <2>6. Units(new)' = 1
    <3>1. count'[<<new, "sem_rdy">>] = 1 /\ count'[<<new, "sem_recv">>] = 0
      BY <1>1, <1>4, <2>1, <2>5, SemFacts
    <3> QED BY <3>1 DEF Units
  <2>7. \A m \in Boxes : m # new => Units(m)' = Units(m)
    <3> SUFFICES ASSUME NEW m \in Boxes, m # new PROVE Units(m)' = Units(m)
      OBVIOUS
    <3>1. /\ count'[<<m, "sem_rdy">>] = count[<<m, "sem_rdy">>]
          /\ count'[<<m, "sem_recv">>] = count[<<m, "sem_recv">>]
      BY <1>1, <1>4, <2>5, SemFacts
    <3> QED BY <3>1 DEF Units
  <2>8. IsFiniteSet({}) /\ Cardinality({}) = 0
    BY FS_EmptySet
  <2>9. \A m \in initialised' :
           IsFiniteSet(Copying(m)') /\ Units(m)' + Cardinality(Copying(m)') = 1
    <3>1. IsFiniteSet(Copying(new)') /\ Units(new)' + Cardinality(Copying(new)') = 1
      BY <2>1, <2>3, <2>4, <2>6, <2>8
    <3>2. \A m \in initialised : m \in Boxes /\ m # new
      BY <1>1, <2>1
    <3>3. \A m \in initialised :
             IsFiniteSet(Copying(m)') /\ Units(m)' + Cardinality(Copying(m)') = 1
      BY <1>3, <2>3, <2>7, <3>2
    <3> QED BY <2>5, <3>1, <3>3
  <2> QED BY <2>9 DEF TokenInv
\* What a step at mailbox m0 leaves as it is.
<1>0. PICK m0 : m0 = mbox[t]
  OBVIOUS
<1>7. ASSUME initialised' = initialised,
             \A m \in initialised \ {m0} : Copying(m)' = Copying(m) /\ Units(m)' = Units(m),
             m0 \in initialised =>
                 IsFiniteSet(Copying(m0)') /\ Units(m0)' + Cardinality(Copying(m0)') = 1
      PROVE  TokenInv'
  <2>1. \A m \in initialised :
           IsFiniteSet(Copying(m)') /\ Units(m)' + Cardinality(Copying(m)') = 1
    <3> SUFFICES ASSUME NEW m \in initialised
                 PROVE  IsFiniteSet(Copying(m)') /\ Units(m)' + Cardinality(Copying(m)') = 1
      OBVIOUS
    <3>1. CASE m = m0
      BY <1>7, <3>1
    <3>2. CASE m # m0
      BY <1>3, <1>7, <3>2
    <3> QED BY <3>1, <3>2
  <2> QED BY <1>7, <2>1 DEF TokenInv
<1>8. CASE WaitTakes(t)
  <2>1. /\ \A u \in Threads, m \in Boxes :
              Inside(u, m)' <=> Inside(u, m) \/ (u = t /\ m = m0)
        /\ ~Inside(t, m0) /\ m0 \in Boxes /\ count[target[t]] > 0 /\ target[t] \in Sems
        /\ (pc[t] = "send" /\ target[t] = <<m0, "sem_rdy">>) \/
              (pc[t] = "receive" /\ target[t] = <<m0, "sem_recv">>)
        /\ count' = [count EXCEPT ![target[t]] = @ - 1] /\ initialised' = initialised
    BY <1>0, <1>8, TakeLetsIn
  <2>2. /\ Copying(m0)' = Copying(m0) \cup {t} /\ t \notin Copying(m0)
        /\ \A m \in Boxes \ {m0} : Copying(m)' = Copying(m)
    BY <2>1 DEF Copying
  <2>3. \A m \in Boxes \ {m0} : /\ <<m, "sem_rdy">> # target[t]
                                /\ <<m, "sem_recv">> # target[t]
    BY <2>1, SemFacts
  <2>4. \A m \in Boxes \ {m0} : Units(m)' = Units(m)
    BY <1>1, <1>4, <2>1, <2>3 DEF Units
  <2>5. Units(m0)' = Units(m0) - 1
    <3>1. /\ count[<<m0, "sem_rdy">>] \in Nat /\ count[<<m0, "sem_recv">>] \in Nat
          /\ <<m0, "sem_rdy">> # <<m0, "sem_recv">>
          /\ <<m0, "sem_rdy">> \in Sems /\ <<m0, "sem_recv">> \in Sems
      BY <1>1, <1>4, <2>1, SemFacts
    <3> QED BY <1>1, <2>1, <3>1 DEF Units
  <2>6. ASSUME m0 \in initialised
        PROVE  IsFiniteSet(Copying(m0)') /\ Units(m0)' + Cardinality(Copying(m0)') = 1
    <3>1. IsFiniteSet(Copying(m0)) /\ Units(m0) + Cardinality(Copying(m0)) = 1
      BY <1>3, <2>6
    <3>2. /\ IsFiniteSet(Copying(m0)') /\ Cardinality(Copying(m0)') = Cardinality(Copying(m0)) + 1
          /\ Cardinality(Copying(m0)) \in Nat
      BY <2>2, <3>1, FS_AddElement, FS_CardinalityType
    <3>3. Units(m0) \in Nat
      BY <1>1, <1>4, <2>1 DEF Units
    <3> QED BY <2>5, <3>1, <3>2, <3>3
  <2> QED BY <1>1, <1>7, <2>1, <2>2, <2>4, <2>6
<1>9. CASE SignalWakes(t)
  <2>1. PICK w \in Threads :
              /\ w # t /\ Inside(t, m0) /\ ~Inside(w, m0) /\ m0 \in Boxes
              /\ \A u \in Threads, m \in Boxes :
                    Inside(u, m)' <=> (Inside(u, m) /\ u # t) \/ (u = w /\ m = m0)
              /\ UNCHANGED <<count, initialised>>
    BY <1>0, <1>9, WakeHandsOver, Zenon
  <2>2. \A m \in Boxes \ {m0} : ~Inside(t, m)
    BY <1>0 DEF Inside
  <2>3. /\ Copying(m0)' = (Copying(m0) \ {t}) \cup {w}
        /\ t \in Copying(m0) /\ w \notin Copying(m0) \ {t}
        /\ \A m \in Boxes \ {m0} : Copying(m)' = Copying(m)
    BY <2>1, <2>2 DEF Copying
  <2>4. \A m \in Boxes : Units(m)' = Units(m)
    BY <2>1 DEF Units
  <2>5. ASSUME m0 \in initialised
        PROVE  IsFiniteSet(Copying(m0)') /\ Units(m0)' + Cardinality(Copying(m0)') = 1
    <3>1. IsFiniteSet(Copying(m0)) /\ Units(m0) + Cardinality(Copying(m0)) = 1
      BY <1>3, <2>5
    <3>2. /\ IsFiniteSet(Copying(m0) \ {t})
          /\ Cardinality(Copying(m0) \ {t}) = Cardinality(Copying(m0)) - 1
      BY <2>3, <3>1, FS_RemoveElement
    <3>3. /\ IsFiniteSet(Copying(m0)')
          /\ Cardinality(Copying(m0)') = Cardinality(Copying(m0) \ {t}) + 1
      BY <2>3, <3>2, FS_AddElement
    <3>4. Cardinality(Copying(m0)) \in Nat
      BY <3>1, FS_CardinalityType
    <3>5. Cardinality(Copying(m0)') = Cardinality(Copying(m0))
      BY <3>2, <3>3, <3>4
    <3> QED BY <2>1, <2>4, <3>1, <3>3, <3>5
  <2> QED BY <1>1, <1>7, <2>1, <2>3, <2>4, <2>5
<1>10. CASE SignalCounts(t)
  <2>1. /\ Inside(t, m0) /\ m0 \in Boxes /\ Signalled(t) \in Sems
        /\ \A u \in Threads, m \in Boxes : Inside(u, m)' <=> Inside(u, m) /\ u # t
        /\ count' = [count EXCEPT ![Signalled(t)] = @ + 1] /\ initialised' = initialised
    BY <1>0, <1>10, CountLetsOut
  <2>2. \A m \in Boxes \ {m0} : ~Inside(t, m)
    BY <1>0 DEF Inside
  <2>3. Signalled(t) = <<m0, "sem_rdy">> \/ Signalled(t) = <<m0, "sem_recv">>
    BY <1>0 DEF Signalled
  <2>4. /\ Copying(m0)' = Copying(m0) \ {t} /\ t \in Copying(m0)
        /\ \A m \in Boxes \ {m0} : Copying(m)' = Copying(m)
    BY <2>1, <2>2 DEF Copying
  <2>5. \A m \in Boxes \ {m0} : /\ <<m, "sem_rdy">> # Signalled(t)
                                /\ <<m, "sem_recv">> # Signalled(t)
    BY <2>3, SemFacts
  <2>6. \A m \in Boxes \ {m0} : Units(m)' = Units(m)
    BY <1>1, <1>4, <2>1, <2>5 DEF Units
  <2>7. Units(m0)' = Units(m0) + 1
    <3>1. /\ count[<<m0, "sem_rdy">>] \in Nat /\ count[<<m0, "sem_recv">>] \in Nat
          /\ <<m0, "sem_rdy">> # <<m0, "sem_recv">>
          /\ <<m0, "sem_rdy">> \in Sems /\ <<m0, "sem_recv">> \in Sems
      BY <1>1, <1>4, <2>1, SemFacts
    <3> QED BY <1>1, <2>1, <2>3, <3>1 DEF Units
  <2>8. ASSUME m0 \in initialised
        PROVE  IsFiniteSet(Copying(m0)') /\ Units(m0)' + Cardinality(Copying(m0)') = 1
    <3>1. IsFiniteSet(Copying(m0)) /\ Units(m0) + Cardinality(Copying(m0)) = 1
      BY <1>3, <2>8
    <3>2. /\ IsFiniteSet(Copying(m0)') /\ Cardinality(Copying(m0)') = Cardinality(Copying(m0)) - 1
          /\ Cardinality(Copying(m0)) \in Nat
      BY <2>4, <3>1, FS_RemoveElement, FS_CardinalityType
    <3>3. Units(m0) \in Nat
      BY <1>1, <1>4, <2>1 DEF Units
    <3> QED BY <2>7, <3>1, <3>2, <3>3
  <2> QED BY <1>1, <1>7, <2>1, <2>4, <2>6, <2>8
<1> QED BY <1>5, <1>6, <1>8, <1>9, <1>10, StepCases

LEMMA InitToken == Init => TokenInv
BY DEF Init, TokenInv

LEMMA TokenInvariant == Spec => [](BaseInv /\ TokenInv)
<1>1. BaseInv /\ BaseInv' /\ TokenInv /\ [Next]_vars => TokenInv'
  <2> SUFFICES ASSUME BaseInv, BaseInv', TokenInv, [Next]_vars PROVE TokenInv'
    OBVIOUS
  <2>1. CASE UNCHANGED vars
    BY <2>1 DEF vars, slot_vars, sem_vars, TokenInv, Copying, Units, Inside
  <2> QED BY <2>1, TokenStep DEF Next
<1> QED BY <1>1, InitToken, BaseInvariant, PTL DEF Spec

\* Every slot of the table has one owner.  A mailbox that was complete before
\* anybody found it has one token between its two semaphores and the threads
\* that copy: two threads are never in the buffer together.
THEOREM MailboxesKeepTheirToken == Spec => []MailboxesAreSound
<1>1. BaseInv /\ TokenInv => MailboxesAreSound
  BY OwnersAreUnique DEF MailboxesAreSound, TokenInv, OneThreadCopies, Copying, Units
<1> QED BY <1>1, TokenInvariant, PTL

-----------------------------------------------------------------------------
(* Mailboxes are channels of one place.                                    *)

Holds(m) == m \in initialised /\ Full(m)

\* The message of a full mailbox is one that was sent.
MessageInv == ~early => \A m \in initialised : Full(m) => message[m] # None

\* A unit of either semaphore means that nobody is inside, and that the other has
\* none.
LEMMA UnitMeansNobody ==
    ASSUME BaseInv, TokenInv, ~early, NEW m \in initialised
    PROVE  /\ count[<<m, "sem_rdy">>] > 0 =>
                 count[<<m, "sem_recv">>] = 0 /\ \A u \in Threads : ~Inside(u, m)
           /\ count[<<m, "sem_recv">>] > 0 => \A u \in Threads : ~Inside(u, m)
<1>1. m \in Boxes
  BY DEF BaseInv, TypeInv, TypeOK
<1>2. count[<<m, "sem_rdy">>] \in Nat /\ count[<<m, "sem_recv">>] \in Nat
  BY <1>1, SemFacts DEF BaseInv, TypeInv
<1>3. Units(m) + Cardinality(Copying(m)) = 1 /\ Cardinality(Copying(m)) \in Nat
  BY FS_CardinalityType DEF TokenInv
<1>4. count[<<m, "sem_rdy">>] > 0 => count[<<m, "sem_recv">>] = 0
  BY <1>2, <1>3 DEF Units
<1>5. ASSUME NEW u \in Threads, Inside(u, m)
      PROVE  count[<<m, "sem_rdy">>] = 0 /\ count[<<m, "sem_recv">>] = 0
  BY <1>5, InsideAlone
<1> QED BY <1>2, <1>4, <1>5

\* While nobody found a mailbox early, threads inside a mailbox are inside a
\* complete one.
LEMMA InsideComplete ==
    ASSUME BaseInv, ~early, NEW t \in Threads, NEW m \in Boxes, Inside(t, m)
    PROVE  m \in initialised
BY NobodyInsideNew

\* Nothing but the two copies fills or empties a mailbox.
LEMMA FullStays ==
    ASSUME BaseInv, TokenInv, ~early, NEW t \in Threads, Step(t), ~CopyIn(t), ~CopyOut(t)
    PROVE  /\ \A m \in Boxes : Holds(m)' <=> Holds(m)
           /\ UNCHANGED message
<1> DEFINE Loaded(u) == pc[u] \in {"filled", "receive", "read_box"}
<1>1. /\ TypeOK /\ CallInv /\ initialised \subseteq Boxes /\ count \in [Sems -> Nat]
      /\ phase \in [Threads -> Sem!Phases]
  BY DEF BaseInv, TypeInv, TypeOK
<1>2. \A m \in Boxes : <<m, "sem_rdy">> \in Sems /\ <<m, "sem_recv">> \in Sems
  BY SemFacts
<1>3. \A m : Full(m) <=> \/ count[<<m, "sem_recv">>] > 0
                         \/ \E u \in Threads : Inside(u, m) /\ Loaded(u)
  BY DEF Full
<1>4. \A m : Full(m)' <=> \/ count'[<<m, "sem_recv">>] > 0
                          \/ \E u \in Threads : Inside(u, m)' /\ Loaded(u)'
  BY DEF Full
<1> HIDE DEF Loaded
\* Steps that leave everybody where they are.
<1>5. ASSUME UNCHANGED <<count, initialised>>,
             \A u \in Threads, m \in Boxes : Inside(u, m)' <=> Inside(u, m),
             \A u \in Threads : u # t => (Loaded(u)' <=> Loaded(u)),
             (Loaded(t)' <=> Loaded(t)) \/ \A m \in Boxes : ~Inside(t, m)
      PROVE  \A m \in Boxes : Holds(m)' <=> Holds(m)
  <2>1. \A u \in Threads, m \in Boxes : Inside(u, m)' /\ Loaded(u)' <=> Inside(u, m) /\ Loaded(u)
    BY <1>5
  <2>2. \A m \in Boxes : Full(m)' <=> Full(m)
    BY <1>3, <1>4, <1>5, <2>1
  <2> QED BY <1>5, <2>2 DEF Holds
<1>6. ASSUME pc' = [pc EXCEPT ![t] = pc'[t]]
      PROVE  \A u \in Threads : u # t => (Loaded(u)' <=> Loaded(u))
  BY <1>1, <1>6 DEF TypeOK, Loaded
<1>7. CASE Create(t) \/ ClaimSlot(t) \/ SlotTaken(t)
  <2>1. \A m \in Boxes : ~Inside(t, m)
    BY <1>7 DEF Create, ClaimSlot, SlotTaken, Inside
  <2>2. pc' = [pc EXCEPT ![t] = pc'[t]] /\ UNCHANGED message
    BY <1>1, <1>7 DEF Create, ClaimSlot, SlotTaken, Goto, TypeOK
  <2> QED BY <1>5, <1>6, <1>7, <2>1, <2>2, InsideStays
<1>8. CASE Receive(t) \/ \E m \in Boxes : Send(t, m)
  <2>1. \A m \in Boxes : ~Inside(t, m)
    BY <1>8 DEF Receive, Send, Inside
  <2>2. pc' = [pc EXCEPT ![t] = pc'[t]] /\ UNCHANGED message
    BY <1>1, <1>8 DEF Receive, Send, Goto, TypeOK
  <2> QED BY <1>5, <1>6, <1>8, <2>1, <2>2, InsideStays
<1>9. CASE WaitParks(t)
  <2>1. UNCHANGED <<pc, message>>
    BY <1>9 DEF WaitParks, Rest
  <2> QED BY <1>5, <1>9, <2>1, InsideStays DEF Loaded
<1>10. CASE WaitReturns(t)
  <2>1. pc[t] \in {"send", "receive"}
    BY <1>1, <1>10 DEF WaitReturns, Sem!Return, CallInv
  <2>2. pc' = [pc EXCEPT ![t] = pc'[t]] /\ UNCHANGED message
        /\ pc'[t] = IF pc[t] = "send" THEN "fill_box" ELSE "read_box"
    BY <1>1, <1>10 DEF WaitReturns, Goto, TypeOK
  <2>3. Loaded(t)' <=> Loaded(t)
    BY <2>1, <2>2 DEF Loaded
  <2> QED BY <1>5, <1>6, <1>10, <2>2, <2>3, InsideStays
<1>11. CASE FillSlot(t)
  <2>1. PICK new : new = mbox[t]
    OBVIOUS
  <2>2. new \in Boxes /\ new \notin initialised
    BY <1>11, <2>1, CallHasBox DEF FillSlot, BaseInv, SlotInv
  <2>3. \A u \in Threads, m \in Boxes : Inside(u, m)' <=> Inside(u, m)
    BY <1>1, <1>11 DEF FillSlot, Inside, Goto, TypeOK
  <2>4. \A u \in Threads : ~Inside(u, new)
    BY <2>2, NobodyInsideNew
  <2>5. /\ initialised' = initialised \cup {new} /\ UNCHANGED message
        /\ count' = [count EXCEPT ![<<new, "sem_rdy">>] = 1, ![<<new, "sem_recv">>] = 0]
        /\ pc[t] = "fill" /\ pc' = [pc EXCEPT ![t] = "run"]
    BY <1>11, <2>1 DEF FillSlot, Goto
  <2>6. \A u \in Threads : Loaded(u)' <=> Loaded(u)
    BY <1>1, <2>5 DEF Loaded, TypeOK
  <2>7. \A m \in Boxes \ {new} : count'[<<m, "sem_recv">>] = count[<<m, "sem_recv">>]
    BY <1>1, <1>2, <2>5, SemFacts
  <2>8. count'[<<new, "sem_recv">>] = 0
    BY <1>1, <1>2, <2>2, <2>5
  <2>9. ~Full(new)'
    BY <1>4, <2>2, <2>3, <2>4, <2>8
  <2>10. \A m \in Boxes \ {new} : Full(m)' <=> Full(m)
    BY <1>3, <1>4, <2>3, <2>6, <2>7
  <2> QED BY <2>2, <2>5, <2>9, <2>10 DEF Holds
\* Steps at one mailbox m0, complete because its thread is in a call.
<1>12. PICK m0 : m0 = mbox[t]
  OBVIOUS
<1>13. ASSUME initialised' = initialised,
              \A m \in Boxes \ {m0} : Full(m)' <=> Full(m),
              Full(m0)' <=> Full(m0)
       PROVE  \A m \in Boxes : Holds(m)' <=> Holds(m)
  BY <1>13 DEF Holds
<1>14. CASE WaitTakes(t)
  <2>1. /\ \A u \in Threads, m \in Boxes :
              Inside(u, m)' <=> Inside(u, m) \/ (u = t /\ m = m0)
        /\ ~Inside(t, m0) /\ m0 \in Boxes /\ count[target[t]] > 0 /\ target[t] \in Sems
        /\ (pc[t] = "send" /\ target[t] = <<m0, "sem_rdy">>) \/
              (pc[t] = "receive" /\ target[t] = <<m0, "sem_recv">>)
        /\ count' = [count EXCEPT ![target[t]] = @ - 1]
        /\ UNCHANGED <<pc, initialised, message>>
    BY <1>12, <1>14, TakeLetsIn
  <2>2. m0 \in initialised
    BY <1>1, <1>12, <2>1 DEF CallInv, Sending, Receiving
  <2>3. \A u \in Threads : Loaded(u)' <=> Loaded(u)
    BY <2>1 DEF Loaded
  <2>4. \A m \in Boxes \ {m0} : count'[<<m, "sem_recv">>] = count[<<m, "sem_recv">>]
    BY <1>1, <1>2, <2>1, SemFacts
  <2>5. \A m \in Boxes \ {m0} : Full(m)' <=> Full(m)
    BY <1>3, <1>4, <2>1, <2>3, <2>4
  <2>6. CASE pc[t] = "send"
    <3>1. target[t] = <<m0, "sem_rdy">> /\ count[<<m0, "sem_rdy">>] > 0
      BY <2>1, <2>6
    <3>2. count[<<m0, "sem_recv">>] = 0 /\ \A u \in Threads : ~Inside(u, m0)
      BY <2>2, <3>1, UnitMeansNobody
    <3>3. count'[<<m0, "sem_recv">>] = count[<<m0, "sem_recv">>]
      BY <1>1, <1>2, <2>1, <3>1, SemFacts
    <3>4. ~Loaded(t)
      BY <2>6 DEF Loaded
    <3> QED BY <1>3, <1>4, <1>13, <2>1, <2>3, <2>5, <3>2, <3>3, <3>4
  <2>7. CASE pc[t] = "receive"
    <3>1. target[t] = <<m0, "sem_recv">> /\ count[<<m0, "sem_recv">>] > 0
      BY <2>1, <2>7
    <3>2. Loaded(t)
      BY <2>7 DEF Loaded
    <3> QED BY <1>3, <1>4, <1>13, <2>1, <2>3, <2>5, <3>1, <3>2
  <2> QED BY <2>1, <2>6, <2>7
<1>15. CASE SignalWakes(t)
  <2>1. PICK w \in Threads :
              /\ w # t /\ Inside(t, m0) /\ ~Inside(w, m0) /\ m0 \in Boxes
              /\ (pc[t] = "filled" /\ pc[w] = "receive") \/ (pc[t] = "read" /\ pc[w] = "send")
              /\ \A u \in Threads, m \in Boxes :
                    Inside(u, m)' <=> (Inside(u, m) /\ u # t) \/ (u = w /\ m = m0)
              /\ \A u \in Threads : u # t => pc'[u] = pc[u]
              /\ UNCHANGED <<count, initialised, message>>
    BY <1>12, <1>15, WakeHandsOver, Zenon
  <2>2. m0 \in initialised
    BY <2>1, InsideComplete
  <2>3. count[<<m0, "sem_recv">>] = 0 /\ \A u \in Threads : Inside(u, m0) => u = t
    BY <2>1, <2>2, InsideAlone
  <2>4. \A m \in Boxes \ {m0} : ~Inside(t, m)
    BY <1>12 DEF Inside
  <2>5. \A u \in Threads : u # t => (Loaded(u)' <=> Loaded(u))
    BY <2>1 DEF Loaded
  <2>6. \A m \in Boxes \ {m0} : Full(m)' <=> Full(m)
    BY <1>3, <1>4, <2>1, <2>4, <2>5
  <2>7. Loaded(t) <=> Loaded(w)
    BY <2>1 DEF Loaded
  <2>8. (Full(m0) <=> Loaded(t)) /\ (Full(m0)' <=> Loaded(w))
    BY <1>3, <1>4, <2>1, <2>3, <2>5
  <2> QED BY <1>13, <2>1, <2>6, <2>7, <2>8
<1>16. CASE SignalCounts(t)
  <2>1. /\ Inside(t, m0) /\ m0 \in Boxes /\ Signalled(t) \in Sems
        /\ pc[t] \in {"filled", "read"}
        /\ \A u \in Threads, m \in Boxes : Inside(u, m)' <=> Inside(u, m) /\ u # t
        /\ \A u \in Threads : u # t => pc'[u] = pc[u]
        /\ count' = [count EXCEPT ![Signalled(t)] = @ + 1]
        /\ UNCHANGED <<initialised, message>>
    BY <1>12, <1>16, CountLetsOut
  <2>2. m0 \in initialised
    BY <2>1, InsideComplete
  <2>3. count[<<m0, "sem_recv">>] = 0 /\ \A u \in Threads : Inside(u, m0) => u = t
    BY <2>1, <2>2, InsideAlone
  <2>4. \A m \in Boxes \ {m0} : ~Inside(t, m)
    BY <1>12 DEF Inside
  <2>5. \A u \in Threads : u # t => (Loaded(u)' <=> Loaded(u))
    BY <2>1 DEF Loaded
  <2>6. Signalled(t) = IF pc[t] = "filled" THEN <<m0, "sem_recv">> ELSE <<m0, "sem_rdy">>
    BY <1>12 DEF Signalled
  <2>7. \A m \in Boxes \ {m0} : count'[<<m, "sem_recv">>] = count[<<m, "sem_recv">>]
    BY <1>1, <1>2, <2>1, <2>6, SemFacts
  <2>8. \A m \in Boxes \ {m0} : Full(m)' <=> Full(m)
    BY <1>3, <1>4, <2>1, <2>4, <2>5, <2>7
  <2>9. CASE pc[t] = "filled"
    <3>1. count'[<<m0, "sem_recv">>] = 1
      BY <1>1, <1>2, <2>1, <2>3, <2>6, <2>9
    <3>2. Loaded(t)
      BY <2>9 DEF Loaded
    <3> QED BY <1>3, <1>4, <1>13, <2>1, <2>8, <3>1, <3>2
  <2>10. CASE pc[t] = "read"
    <3>1. count'[<<m0, "sem_recv">>] = 0
      BY <1>1, <1>2, <2>1, <2>3, <2>6, <2>10, SemFacts
    <3>2. ~Loaded(t)
      BY <2>10 DEF Loaded
    <3> QED BY <1>3, <1>4, <1>13, <2>1, <2>3, <2>8, <3>1, <3>2
  <2> QED BY <2>1, <2>9, <2>10
<1> QED BY <1>7, <1>8, <1>9, <1>10, <1>11, <1>14, <1>15, <1>16, StepCases

\* The copy in fills an empty mailbox, the copy out empties a full one, and
\* neither touches another.
LEMMA CopyInFills ==
    ASSUME BaseInv, TokenInv, ~early, NEW t \in Threads, CopyIn(t)
    PROVE  /\ mbox[t] \in Boxes /\ pc[t] = "fill_box" /\ pc' = [pc EXCEPT ![t] = "filled"]
           /\ ~Holds(mbox[t]) /\ (\A m : m = mbox[t] => Holds(m)')
           /\ \A m \in Boxes : m # mbox[t] => (Holds(m)' <=> Holds(m))
           /\ message' = [message EXCEPT ![mbox[t]] = t]
           /\ UNCHANGED <<mbox, msg>>
<1>1. /\ mbox[t] \in Boxes /\ pc[t] = "fill_box" /\ pc' = [pc EXCEPT ![t] = "filled"]
      /\ message' = [message EXCEPT ![mbox[t]] = t]
      /\ UNCHANGED <<mbox, msg, count, initialised>>
  BY CallHasBox DEF CopyIn, BaseInv, slot_vars, sem_vars, Goto
<1>2. TypeOK
  BY DEF BaseInv, TypeInv
<1>3. PICK m0 : m0 = mbox[t]
  OBVIOUS
<1>4. Inside(t, m0) /\ m0 \in initialised
  BY <1>1, <1>3, InsideComplete DEF Inside
<1>5. count[<<m0, "sem_recv">>] = 0 /\ \A u \in Threads : Inside(u, m0) => u = t
  BY <1>4, InsideAlone
<1>6. ~Full(m0)
  BY <1>1, <1>5 DEF Full
<1>7. \A u \in Threads, m \in Boxes : Inside(u, m)' <=> Inside(u, m)
  BY InsideStays
<1>8. pc'[t] = "filled" /\ \A u \in Threads : u # t => pc'[u] = pc[u]
  BY <1>1, <1>2 DEF TypeOK
<1>9. Full(m0)'
  <2>1. Inside(t, m0)'
    BY <1>1, <1>3, <1>4, <1>7
  <2> QED BY <1>8, <2>1 DEF Full
<1>10. \A m \in Boxes : m # m0 => (Full(m)' <=> Full(m))
  <2>1. \A m \in Boxes : m # m0 => ~Inside(t, m)
    BY <1>3 DEF Inside
  <2> HIDE DEF Inside
  <2> QED BY <1>1, <1>7, <1>8, <2>1 DEF Full
<1>11. ~Holds(m0) /\ Holds(m0)' /\ \A m \in Boxes : m # m0 => (Holds(m)' <=> Holds(m))
  BY <1>1, <1>4, <1>6, <1>9, <1>10 DEF Holds
<1> QED BY <1>1, <1>3, <1>11

LEMMA CopyOutEmpties ==
    ASSUME BaseInv, TokenInv, ~early, NEW t \in Threads, CopyOut(t)
    PROVE  /\ mbox[t] \in Boxes /\ pc[t] = "read_box" /\ pc' = [pc EXCEPT ![t] = "read"]
           /\ Holds(mbox[t]) /\ (\A m : m = mbox[t] => ~Holds(m)')
           /\ \A m \in Boxes : m # mbox[t] => (Holds(m)' <=> Holds(m))
           /\ msg' = [msg EXCEPT ![t] = message[mbox[t]]]
           /\ UNCHANGED <<mbox, message>>
<1>1. /\ mbox[t] \in Boxes /\ pc[t] = "read_box" /\ pc' = [pc EXCEPT ![t] = "read"]
      /\ msg' = [msg EXCEPT ![t] = message[mbox[t]]]
      /\ UNCHANGED <<mbox, message, count, initialised>>
  BY CallHasBox DEF CopyOut, BaseInv, slot_vars, sem_vars, Goto
<1>2. TypeOK
  BY DEF BaseInv, TypeInv
<1>3. PICK m0 : m0 = mbox[t]
  OBVIOUS
<1>4. Inside(t, m0) /\ m0 \in initialised
  BY <1>1, <1>3, InsideComplete DEF Inside
<1>5. count[<<m0, "sem_recv">>] = 0 /\ \A u \in Threads : Inside(u, m0) => u = t
  BY <1>4, InsideAlone
<1>6. Full(m0)
  BY <1>1, <1>4 DEF Full
<1>7. \A u \in Threads, m \in Boxes : Inside(u, m)' <=> Inside(u, m)
  BY InsideStays
<1>8. pc'[t] = "read" /\ \A u \in Threads : u # t => pc'[u] = pc[u]
  BY <1>1, <1>2 DEF TypeOK
<1>9. ~Full(m0)'
  <2>1. \A u \in Threads : Inside(u, m0)' => u = t
    BY <1>1, <1>3, <1>5, <1>7
  <2> QED BY <1>1, <1>5, <1>8, <2>1 DEF Full
<1>10. \A m \in Boxes : m # m0 => (Full(m)' <=> Full(m))
  <2>1. \A m \in Boxes : m # m0 => ~Inside(t, m)
    BY <1>3 DEF Inside
  <2> QED BY <1>1, <1>7, <1>8, <2>1 DEF Full
<1>11. Holds(m0) /\ ~Holds(m0)' /\ \A m \in Boxes : m # m0 => (Holds(m)' <=> Holds(m))
  BY <1>1, <1>4, <1>6, <1>9, <1>10 DEF Holds
<1> QED BY <1>1, <1>3, <1>11

\* Nobody is early in the step if nobody is afterwards.
LEMMA EarlyStays ==
    ASSUME BaseInv, NEW t \in Threads, Step(t), ~early'
    PROVE  ~early
<1>1. early \in BOOLEAN
  BY DEF BaseInv, TypeInv, TypeOK
<1> QED BY <1>1, StepCases DEF Create, ClaimSlot, SlotTaken, FillSlot, Send, Receive, WaitTakes,
        WaitParks, Rest, WaitReturns, CopyIn, CopyOut, SignalWakes, SignalCounts, SignalEnds

LEMMA MessageStep ==
    ASSUME BaseInv, TokenInv, MessageInv, NEW t \in Threads, Step(t)
    PROVE  MessageInv'
<1> SUFFICES ASSUME ~early' PROVE \A m \in Boxes : Holds(m)' => message'[m] # None
  BY TypeStep DEF MessageInv, Holds, BaseInv, TypeInv, TypeOK
<1>1. ~early
  BY EarlyStays
<1>2. /\ \A m \in Boxes : Holds(m) => message[m] # None
      /\ message \in [Boxes -> Threads \cup {None}]
  BY <1>1 DEF MessageInv, Holds, BaseInv, TypeInv, TypeOK
<1>3. CASE CopyIn(t)
  <2>1. /\ mbox[t] \in Boxes /\ message' = [message EXCEPT ![mbox[t]] = t]
        /\ \A m \in Boxes : m # mbox[t] => (Holds(m)' <=> Holds(m))
    BY <1>1, <1>3, CopyInFills
  <2> QED BY <1>2, <2>1, SemFacts
<1>4. CASE CopyOut(t)
  <2>1. /\ \A m : m = mbox[t] => ~Holds(m)'
        /\ \A m \in Boxes : m # mbox[t] => (Holds(m)' <=> Holds(m))
        /\ UNCHANGED message
    BY <1>1, <1>4, CopyOutEmpties
  <2> QED BY <1>2, <2>1
<1>5. CASE ~CopyIn(t) /\ ~CopyOut(t)
  BY <1>1, <1>2, <1>5, FullStays
<1> QED BY <1>3, <1>4, <1>5

\* A thread's step changes its own stage and place only.
LEMMA StageChange ==
    ASSUME BaseInv, NEW t \in Threads, Step(t)
    PROVE  /\ [u \in Threads |-> Stage(u)]' = [[u \in Threads |-> Stage(u)] EXCEPT ![t] = Stage(t)']
           /\ [u \in Threads |-> IF Stage(u) = "outside" THEN None ELSE mbox[u]]' =
                 [[u \in Threads |-> IF Stage(u) = "outside" THEN None ELSE mbox[u]] EXCEPT
                     ![t] = IF Stage(t)' = "outside" THEN None ELSE mbox'[t]]
<1>1. TypeOK
  BY DEF BaseInv, TypeInv
<1>2. \A u \in Threads : u # t => pc'[u] = pc[u] /\ mbox'[u] = mbox[u]
  <2>1. CASE Create(t) \/ ClaimSlot(t) \/ SlotTaken(t) \/ FillSlot(t)
    BY <1>1, <2>1 DEF Create, ClaimSlot, SlotTaken, FillSlot, TypeOK, Goto
  <2>2. CASE (\E m \in Boxes : Send(t, m)) \/ Receive(t)
    BY <1>1, <2>2 DEF Send, Receive, TypeOK, Goto
  <2>3. CASE WaitTakes(t) \/ WaitParks(t)
    BY <2>3 DEF WaitTakes, WaitParks, Rest
  <2>4. CASE WaitReturns(t) \/ CopyIn(t) \/ CopyOut(t)
    BY <1>1, <2>4 DEF WaitReturns, CopyIn, CopyOut, TypeOK, Goto
  <2>5. CASE SignalWakes(t) \/ SignalCounts(t)
    BY <1>1, <2>5 DEF SignalWakes, SignalCounts, SignalEnds, TypeOK, Goto
  <2> QED BY <2>1, <2>2, <2>3, <2>4, <2>5, StepCases
<1>3. \A u \in Threads : u # t => Stage(u)' = Stage(u)
  BY <1>2 DEF Stage
<1> QED BY <1>2, <1>3

Contents == [m \in Boxes |-> IF m \in initialised /\ Full(m) THEN message[m] ELSE None]

\* Every step of a thread is a step of ChannelSpec or changes nothing there.
LEMMA MailRefines ==
    ASSUME BaseInv, TokenInv, MessageInv, NEW t \in Threads, Step(t), ~early'
    PROVE  Promise!Next \/ UNCHANGED Promise!vars
<1> DEFINE stage == [u \in Threads |-> Stage(u)]
           at == [u \in Threads |-> IF Stage(u) = "outside" THEN None ELSE mbox[u]]
<1>1. ~early
  BY EarlyStays
<1>2. /\ stage' = [stage EXCEPT ![t] = Stage(t)'] /\ stage[t] = Stage(t)
      /\ at' = [at EXCEPT ![t] = IF Stage(t)' = "outside" THEN None ELSE mbox'[t]]
      /\ at[t] = (IF Stage(t) = "outside" THEN None ELSE mbox[t])
      /\ stage = [stage EXCEPT ![t] = stage[t]] /\ at = [at EXCEPT ![t] = at[t]]
  BY StageChange
<1>3. Contents = [m \in Boxes |-> IF Holds(m) THEN message[m] ELSE None]
      /\ Contents' = [m \in Boxes |-> IF Holds(m)' THEN message'[m] ELSE None]
  BY DEF Contents, Holds
<1>4. ASSUME ~CopyIn(t), ~CopyOut(t) PROVE Contents' = Contents
  BY <1>1, <1>3, <1>4, FullStays
<1>5. TypeOK /\ phase \in [Threads -> Sem!Phases] /\ CallInv
  BY DEF BaseInv, TypeInv
<1> HIDE DEF stage, at
<1>6. /\ Promise!vars = <<Contents, stage, at, msg>>
      /\ Promise!vars' = <<Contents', stage', at', msg'>>
  BY DEF Promise!vars, Contents, stage, at
\* Steps that are not seen from outside.
<1>7. ASSUME Stage(t)' = Stage(t), Stage(t) = "outside" \/ mbox'[t] = mbox[t],
             UNCHANGED <<Contents, msg>>
      PROVE  UNCHANGED Promise!vars
  <2>1. stage' = stage
    BY <1>2, <1>7
  <2>2. (IF Stage(t)' = "outside" THEN None ELSE mbox'[t]) = at[t]
    BY <1>2, <1>7
  <2>3. at' = at
    BY <1>2, <2>2
  <2> QED BY <1>6, <1>7, <2>1, <2>3
<1>8. CASE Create(t) \/ ClaimSlot(t) \/ SlotTaken(t) \/ FillSlot(t)
  <2>1. Stage(t) = "outside" /\ Stage(t)' = "outside" /\ UNCHANGED msg
    BY <1>5, <1>8 DEF Create, ClaimSlot, SlotTaken, FillSlot, Goto, Stage, TypeOK
  <2>2. ~CopyIn(t) /\ ~CopyOut(t)
    BY <1>8 DEF Create, ClaimSlot, SlotTaken, FillSlot, CopyIn, CopyOut
  <2> QED BY <1>4, <1>7, <2>1, <2>2
<1>9. CASE WaitTakes(t) \/ WaitParks(t)
  <2>1. UNCHANGED <<pc, mbox, msg>>
    BY <1>9 DEF WaitTakes, WaitParks, Rest
  <2>2. pc[t] \in {"send", "receive"}
    BY <1>5, <1>9 DEF WaitTakes, WaitParks, Sem!Take, Sem!Park, CallInv
  <2>3. ~CopyIn(t) /\ ~CopyOut(t) /\ Stage(t)' = Stage(t)
    BY <2>1, <2>2 DEF CopyIn, CopyOut, Stage
  <2> QED BY <1>4, <1>7, <2>1, <2>3
<1>10. CASE WaitReturns(t)
  <2>1. pc[t] \in {"send", "receive"} /\ UNCHANGED <<mbox, msg>>
        /\ pc'[t] = IF pc[t] = "send" THEN "fill_box" ELSE "read_box"
    BY <1>5, <1>10 DEF WaitReturns, Sem!Return, Goto, CallInv, TypeOK
  <2>2. ~CopyIn(t) /\ ~CopyOut(t) /\ Stage(t)' = Stage(t)
    BY <2>1 DEF CopyIn, CopyOut, Stage
  <2> QED BY <1>4, <1>7, <2>1, <2>2
<1>11. ASSUME NEW m \in Boxes, NEW call \in {"sending", "receiving"}, UNCHANGED msg,
              Stage(t) = "outside", Stage(t)' = call, mbox'[t] = m, ~CopyIn(t), ~CopyOut(t)
       PROVE  Promise!Begin(t, m)
  <2>1. stage[t] = "outside" /\ stage' = [stage EXCEPT ![t] = call] /\ at' = [at EXCEPT ![t] = m]
    BY <1>2, <1>11
  <2>2. UNCHANGED <<Contents, msg>>
    BY <1>4, <1>11
  <2> QED BY <2>1, <2>2 DEF Promise!Begin, Contents, stage, at
<1>12. ASSUME NEW m \in Boxes, Send(t, m) PROVE Promise!Next
  <2>1. Stage(t) = "outside" /\ Stage(t)' = "sending" /\ mbox'[t] = m /\ UNCHANGED msg
    BY <1>5, <1>12 DEF Send, Goto, Stage, TypeOK
  <2>2. ~CopyIn(t) /\ ~CopyOut(t)
    BY <1>12 DEF Send, CopyIn, CopyOut
  <2>3. Promise!Begin(t, m)
    BY <1>11, <2>1, <2>2
  <2> QED BY <2>3 DEF Promise!Next
<1>13. CASE Receive(t)
  <2>0. PICK m0 : m0 = mailbox[t]
    OBVIOUS
  <2>1. /\ Stage(t) = "outside" /\ Stage(t)' = "receiving" /\ UNCHANGED msg
        /\ mbox'[t] = m0 /\ m0 \in Boxes
    BY <1>5, <1>13, <2>0 DEF Receive, Goto, Stage, TypeOK
  <2>2. ~CopyIn(t) /\ ~CopyOut(t)
    BY <1>13 DEF Receive, CopyIn, CopyOut
  <2>3. Promise!Begin(t, m0)
    BY <1>11, <2>1, <2>2
  <2> QED BY <2>1, <2>3 DEF Promise!Next
<1>14. CASE CopyIn(t)
  <2>1. PICK m0 : m0 = mbox[t]
    OBVIOUS
  <2>2. /\ m0 \in Boxes /\ pc[t] = "fill_box" /\ pc' = [pc EXCEPT ![t] = "filled"]
        /\ ~Holds(m0) /\ Holds(m0)'
        /\ \A m \in Boxes : m # m0 => (Holds(m)' <=> Holds(m))
        /\ message' = [message EXCEPT ![m0] = t]
        /\ UNCHANGED <<mbox, msg>>
    BY <1>1, <1>14, <2>1, CopyInFills
  <2>3. Stage(t) = "sending" /\ Stage(t)' = "done"
    BY <1>5, <2>2 DEF Stage, TypeOK
  <2>4. message \in [Boxes -> Threads \cup {None}]
    BY <1>5 DEF TypeOK
  <2>5. Contents[m0] = None /\ Contents' = [Contents EXCEPT ![m0] = t]
    BY <1>3, <2>2, <2>4
  <2>6. at[t] = m0 /\ at' = at /\ stage[t] = "sending" /\ stage' = [stage EXCEPT ![t] = "done"]
    BY <1>2, <2>1, <2>2, <2>3
  <2>7. Promise!Put(t)
    BY <2>2, <2>5, <2>6 DEF Promise!Put, Contents, stage, at
  <2> QED BY <2>7 DEF Promise!Next
<1>15. CASE CopyOut(t)
  <2>1. PICK m0 : m0 = mbox[t]
    OBVIOUS
  <2>2. /\ m0 \in Boxes /\ pc[t] = "read_box" /\ pc' = [pc EXCEPT ![t] = "read"]
        /\ Holds(m0) /\ ~Holds(m0)'
        /\ \A m \in Boxes : m # m0 => (Holds(m)' <=> Holds(m))
        /\ msg' = [msg EXCEPT ![t] = message[m0]]
        /\ UNCHANGED <<mbox, message>>
    BY <1>1, <1>15, <2>1, CopyOutEmpties
  <2>3. Stage(t) = "receiving" /\ Stage(t)' = "done"
    BY <1>5, <2>2 DEF Stage, TypeOK
  <2>4. message[m0] # None
    BY <1>1, <2>2 DEF MessageInv, Holds
  <2>5. Contents[m0] = message[m0] /\ Contents' = [Contents EXCEPT ![m0] = None]
    BY <1>3, <2>2
  <2>6. at[t] = m0 /\ at' = at /\ stage[t] = "receiving" /\ stage' = [stage EXCEPT ![t] = "done"]
    BY <1>2, <2>1, <2>2, <2>3
  <2>7. Promise!Take(t)
    BY <2>2, <2>4, <2>5, <2>6 DEF Promise!Take, Contents, stage, at
  <2> QED BY <2>7 DEF Promise!Next
<1>16. CASE SignalWakes(t) \/ SignalCounts(t)
  <2>1. /\ pc[t] \in {"filled", "read"} /\ Stage(t) = "done" /\ Stage(t)' = "outside"
        /\ UNCHANGED msg
    BY <1>5, <1>16 DEF SignalWakes, SignalCounts, SignalEnds, Goto, Stage, TypeOK
  <2>2. Contents' = Contents
    BY <1>4, <2>1 DEF CopyIn, CopyOut
  <2>3. /\ stage[t] = "done" /\ stage' = [stage EXCEPT ![t] = "outside"]
        /\ at' = [at EXCEPT ![t] = None]
    BY <1>2, <2>1
  <2>4. Promise!Return(t)
    BY <2>1, <2>2, <2>3 DEF Promise!Return, Contents, stage, at
  <2> QED BY <2>4 DEF Promise!Next
<1> QED BY <1>8, <1>9, <1>10, <1>12, <1>13, <1>14, <1>15, <1>16, StepCases

LEMMA InitMail == Init => Promise!Init /\ MessageInv
<1> SUFFICES ASSUME Init PROVE Promise!Init /\ MessageInv
  OBVIOUS
<1>1. \A u \in Threads : Stage(u) = "outside"
  BY DEF Init, Stage
<1>2. [m \in Boxes |-> IF m \in initialised /\ Full(m) THEN message[m] ELSE None] =
         [m \in Boxes |-> None]
  BY DEF Init
<1> QED BY <1>1, <1>2 DEF Init, Promise!Init, MessageInv

\* As long as nobody finds a mailbox before its creation is complete, send puts a
\* message into an empty mailbox and receive takes it out of a full one: none is
\* overwritten, lost or read twice.
THEOREM MailboxesAreChannels == Spec => KeepsPromise
<1>1. MessageInv /\ BaseInv /\ TokenInv /\ [Next]_vars => MessageInv'
  <2> SUFFICES ASSUME MessageInv, BaseInv, TokenInv, [Next]_vars PROVE MessageInv'
    OBVIOUS
  <2>1. CASE UNCHANGED vars
    BY <2>1 DEF vars, slot_vars, sem_vars, MessageInv, Full, Inside
  <2> QED BY <2>1, MessageStep DEF Next
<1>2. MessageInv /\ BaseInv /\ TokenInv /\ [Next]_vars => [early' \/ Promise!Next]_(Promise!vars)
  <2> SUFFICES ASSUME MessageInv, BaseInv, TokenInv, [Next]_vars, ~early'
               PROVE  Promise!Next \/ UNCHANGED Promise!vars
    OBVIOUS
  <2>1. CASE UNCHANGED vars
    BY <2>1 DEF vars, slot_vars, sem_vars, Promise!vars, Full, Inside, Stage
  <2> QED BY <2>1, MailRefines DEF Next
<1> QED BY <1>1, <1>2, InitMail, TokenInvariant, PTL DEF Spec, KeepsPromise
=============================================================================
