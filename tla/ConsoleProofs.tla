---------------------------- MODULE ConsoleProofs ----------------------------
(***************************************************************************)
(* Console implements ConsoleSpec, for every number of processors and      *)
(* every size of the screen, except where a message printed without the    *)
(* lock overlaps with what another processor prints.                       *)
(*                                                                         *)
(* Until then one processor at a time is in Printch or has the cursor for  *)
(* its clock.  Where it is there says where the cursor is, also behind a   *)
(* row or the screen, and where messages will go on (PlaceFor).  After an  *)
(* overlap nothing is known of the cursor, until somebody takes the lock   *)
(* who finds it on the screen and nobody at it.                            *)
(***************************************************************************)
EXTENDS Console, TLAPS

Holding == {"executing", "save", "save_y", "set_x", "set_y", "time",
            "restore_x", "restore_y", "release"}
Places == Holding \cup {"starting", "clock_task", "loop"}
Accesses == {"out", "cell", "load_x", "store_x", "test_x", "wrap", "wrap_load", "wrap_store",
             "line_load", "line_store", "check", "clear", "home_y", "home_x"}

Marks == {Blank, Text} \cup Processors

\* The types of TypeOK, and those of what it leaves open.
TypeInv ==
    /\ cursorX \in Nat /\ cursorY \in Nat
    /\ vidmem \in [Cells -> Marks]
    /\ lock \in BOOLEAN /\ mixed \in BOOLEAN
    /\ pc \in [Processors -> Places]
    /\ printed \in [Processors -> Nat]
    /\ inside \in [Processors -> Accesses]
    /\ reg \in [Processors -> Nat]
    /\ temp \in [Processors -> [x : Nat, y : Nat]]

\* The lock has one holder.
LockInv ==
    /\ \A p \in Processors : pc[p] \in Holding => lock
    /\ \A p, q \in Processors : pc[p] \in Holding /\ pc[q] \in Holding => p = q

\* How far p is with what it prints.
Progress(p) ==
    /\ Prints(p) => printed[p] < Length(p)
    /\ ~Prints(p) => printed[p] = 0 /\ inside[p] = "out"
    /\ inside[p] \in {"cell", "load_x", "store_x"} => ~AtNewline(p)
    /\ inside[p] \in {"line_load", "line_store"} => AtNewline(p)

Cleared == [cell \in Cells |-> Blank]

\* Behind the last row, where NewLineCheck clears the screen.
BelowScreen == cursorX = 0 /\ cursorY = SCREEN_HEIGHT

\* Where the cursor is while nobody disturbs p in Printch,
Moves(p) ==
    /\ inside[p] \in {"cell", "line_store", "wrap_store"} => reg[p] = cursorY
    /\ inside[p] = "store_x" => reg[p] = cursorX
    /\ inside[p] \in {"out", "cell", "load_x", "store_x"} => OnScreen
    /\ inside[p] \in {"line_load", "line_store", "wrap_load", "wrap_store"} =>
          cursorX = 0 /\ cursorY < SCREEN_HEIGHT
    /\ inside[p] = "test_x" =>
          cursorX <= SCREEN_WIDTH /\ (cursorY < SCREEN_HEIGHT \/ BelowScreen)
    /\ inside[p] = "wrap" => cursorX = SCREEN_WIDTH /\ cursorY < SCREEN_HEIGHT
    /\ inside[p] = "check" =>
          cursorX < SCREEN_WIDTH /\ (cursorY < SCREEN_HEIGHT \/ BelowScreen)
    /\ inside[p] \in {"clear", "home_y"} => BelowScreen
    /\ inside[p] = "home_x" => cursorX = 0 /\ cursorY = 0
    /\ inside[p] \in {"home_y", "home_x"} => vidmem = Cleared

\* and where it and its place for messages are while p's clock has it.
Lends(p) ==
    /\ pc[p] = "save_y" => temp[p].x = cursorX
    /\ Borrows(p) =>
          temp[p].x \in 0 .. SCREEN_WIDTH - 1 /\ temp[p].y \in 0 .. SCREEN_HEIGHT - 1
    /\ pc[p] = "set_y" => cursorX = 0
    /\ pc[p] = "restore_y" => cursorX = temp[p].x
    /\ pc[p] = "time" =>
          /\ cursorY = ClockRow(p)
          /\ \/ inside[p] \in {"out", "cell", "load_x", "store_x"} /\ cursorX = printed[p]
             \/ inside[p] \in {"test_x", "check"} /\ cursorX = printed[p] + 1

OneBusy == \A p, q \in Processors : Busy(p) /\ Busy(q) => p = q

\* Nobody disturbs anybody.
OwnerInv ==
    ~mixed => /\ OneBusy
              /\ (\A p \in Processors : ~Busy(p)) => OnScreen
              /\ \A p \in Processors : Busy(p) => Moves(p) /\ Lends(p)

Inv == TypeInv /\ LockInv /\ (\A p \in Processors : Progress(p)) /\ OwnerInv

-----------------------------------------------------------------------------
(* Cells and points.                                                       *)

LEMMA Sizes ==
    ASSUME ConsoleAssumption
    PROVE  /\ SCREEN_WIDTH \in Nat /\ SCREEN_WIDTH >= 2
           /\ SCREEN_HEIGHT \in Nat /\ SCREEN_HEIGHT >= 2
           /\ TimeLength \in Nat /\ 1 <= TimeLength /\ TimeLength < SCREEN_WIDTH
           /\ MessageLength \in Nat
           /\ \A p \in Processors : ClockRow(p) \in 0 .. SCREEN_HEIGHT - 2
BY DEF ConsoleAssumption, ClockRow, Processors

\* The point (x, y) is the cell y * SCREEN_WIDTH + x of the screen.
LEMMA CellOf ==
    ASSUME ConsoleAssumption,
           NEW x \in 0 .. SCREEN_WIDTH - 1, NEW y \in 0 .. SCREEN_HEIGHT - 1
    PROVE  /\ y * SCREEN_WIDTH + x \in Cells
           /\ (y * SCREEN_WIDTH + x) \div SCREEN_WIDTH = y
<1> DEFINE n == y * SCREEN_WIDTH
<1>1. SCREEN_WIDTH \in Nat /\ SCREEN_WIDTH >= 2 /\ SCREEN_HEIGHT \in Nat
  BY Sizes
<1>2. n \in Nat /\ (y + 1) * SCREEN_WIDTH = n + SCREEN_WIDTH
  BY <1>1
<1>3. SCREEN_WIDTH * SCREEN_HEIGHT - (n + SCREEN_WIDTH) \in Nat
  <2>1. SCREEN_HEIGHT - 1 - y \in Nat
    BY <1>1
  <2>2. SCREEN_WIDTH * (SCREEN_HEIGHT - 1 - y) \in Nat
    BY <1>1, <2>1
  <2>3. SCREEN_WIDTH * (SCREEN_HEIGHT - 1 - y) = SCREEN_WIDTH * SCREEN_HEIGHT - (n + SCREEN_WIDTH)
    BY <1>1
  <2> QED BY <2>2, <2>3
<1>4. SCREEN_WIDTH * SCREEN_HEIGHT \in Nat
  BY <1>1
<1>5. n + x \in Cells
  BY <1>1, <1>2, <1>3, <1>4 DEF Cells
<1>6. (n + x) \div SCREEN_WIDTH = y
  BY <1>1
<1> QED BY <1>5, <1>6

\* The cell of the cursor.
At == cursorY * SCREEN_WIDTH + cursorX

\* The row behind the last has no cells.
LEMMA BelowCells ==
    ASSUME ConsoleAssumption
    PROVE  SCREEN_HEIGHT * SCREEN_WIDTH \in Nat /\ SCREEN_HEIGHT * SCREEN_WIDTH \notin Cells
<1>1. SCREEN_WIDTH \in Nat /\ SCREEN_HEIGHT \in Nat
  BY Sizes
<1>2. SCREEN_HEIGHT * SCREEN_WIDTH = SCREEN_WIDTH * SCREEN_HEIGHT
  BY <1>1
<1>3. SCREEN_WIDTH * SCREEN_HEIGHT \in Nat
  BY <1>1
<1> QED BY <1>2, <1>3 DEF Cells

-----------------------------------------------------------------------------
(* Where messages go on.                                                    *)

\* While no other processor is busy, it is p that says where.
PlaceFor(p) == IF Borrows(p) THEN temp[p].y * SCREEN_WIDTH + temp[p].x ELSE End(p)

LEMMA PlaceOf ==
    ASSUME NEW p \in Processors, \A q \in Processors \ {p} : ~Busy(q)
    PROVE  Place = PlaceFor(p)
<1> DEFINE borrowers == {q \in Processors : Borrows(q)}
           printers == {q \in Processors : inside[q] # "out"}
<1>1. \A q \in Processors \ {p} : ~Borrows(q) /\ inside[q] = "out"
  BY DEF Busy
<1>2. CASE Borrows(p)
  <2>1. borrowers = {p}
    BY <1>1, <1>2
  <2>2. (CHOOSE q \in borrowers : TRUE) = p
    BY <2>1
  <2> QED BY <1>2, <2>1, <2>2 DEF Place, PlaceFor
<1>3. CASE ~Borrows(p) /\ inside[p] # "out"
  <2>1. borrowers = {} /\ printers = {p}
    BY <1>1, <1>3
  <2>2. (CHOOSE q \in printers : TRUE) = p
    BY <2>1
  <2> QED BY <1>3, <2>1, <2>2 DEF Place, PlaceFor
<1>4. CASE ~Borrows(p) /\ inside[p] = "out"
  <2>1. borrowers = {} /\ printers = {}
    BY <1>1, <1>4
  <2> QED BY <1>4, <2>1 DEF Place, PlaceFor, End
<1> QED BY <1>2, <1>3, <1>4

\* The same after a step.
LEMMA PlaceOfNext ==
    ASSUME NEW p \in Processors, \A q \in Processors \ {p} : ~Busy(q)'
    PROVE  Place' = PlaceFor(p)'
<1> DEFINE borrowers == {q \in Processors : Borrows(q)'}
           printers == {q \in Processors : inside'[q] # "out"}
<1>1. \A q \in Processors \ {p} : ~Borrows(q)' /\ inside'[q] = "out"
  BY DEF Busy
<1>2. CASE Borrows(p)'
  <2>1. borrowers = {p}
    BY <1>1, <1>2
  <2>2. (CHOOSE q \in borrowers : TRUE) = p
    BY <2>1
  <2> QED BY <1>2, <2>1, <2>2 DEF Place, PlaceFor
<1>3. CASE ~Borrows(p)' /\ inside'[p] # "out"
  <2>1. borrowers = {} /\ printers = {p}
    BY <1>1, <1>3
  <2>2. (CHOOSE q \in printers : TRUE) = p
    BY <2>1
  <2> QED BY <1>3, <2>1, <2>2 DEF Place, PlaceFor
<1>4. CASE ~Borrows(p)' /\ inside'[p] = "out"
  <2>1. borrowers = {} /\ printers = {}
    BY <1>1, <1>4
  <2> QED BY <1>4, <2>1 DEF Place, PlaceFor, End
<1> QED BY <1>2, <1>3, <1>4

-----------------------------------------------------------------------------
(* The steps.                                                               *)

\* A step that ConsoleSpec allows.
Refines == [mixed' \/ Promise!Next]_(Promise!vars)

\* What a step of p has to be for that, if nobody else is busy.
Answers(p) ==
    Place = PlaceFor(p) /\ Place' = PlaceFor(p)' => [Promise!Next]_(Promise!vars)

LEMMA Unseen ==
    ASSUME NEW p \in Processors, PlaceFor(p)' = PlaceFor(p), UNCHANGED vidmem
    PROVE  Answers(p)
BY DEF Answers, Promise!vars

\* Nobody else is busy while p is, nor as p begins without overlapping.
LEMMA Alone ==
    ASSUME Inv, NEW p \in Processors, ~mixed,
           Busy(p) \/ (~Overlaps(p) /\ (Prints(p) \/ pc[p] = "save"))
    PROVE  Moves(p) /\ Lends(p) /\ \A q \in Processors \ {p} : ~Busy(q)
<1>1. OneBusy /\ ((\A q \in Processors : ~Busy(q)) => OnScreen)
      /\ \A q \in Processors : Busy(q) => Moves(q) /\ Lends(q)
  BY DEF Inv, OwnerInv
<1>2. CASE Busy(p)
  BY <1>1, <1>2 DEF OneBusy
<1>3. CASE ~Busy(p) /\ ~Overlaps(p) /\ (Prints(p) \/ pc[p] = "save")
  <2>1. ASSUME NEW q \in Processors \ {p}, Busy(q) PROVE FALSE
    <3>1. pc[p] # "starting" /\ pc[q] # "starting"
      BY <1>3, <2>1 DEF Overlaps
    <3>2. pc[p] \in Holding
      BY <1>3, <3>1 DEF Prints, Holding
    <3>3. pc[q] \in Holding
      BY <2>1, <3>1 DEF Inv, Progress, Busy, Borrows, Prints, Holding
    <3> QED BY <3>2, <3>3 DEF Inv, LockInv
  <2>2. OnScreen
    BY <1>1, <1>3, <2>1
  <2>3. inside[p] = "out" /\ ~Borrows(p) /\ pc[p] # "save_y"
    BY <1>3 DEF Busy
  <2> QED BY <2>1, <2>2, <2>3 DEF Moves, Lends, Borrows
<1> QED BY <1>2, <1>3

\* The step of one processor that prints or has the lock: it takes and gives back
\* no lock, and what it does to the cursor is seen by nobody else.
LEMMA SoleStep ==
    ASSUME Inv, NEW p \in Processors,
           TypeInv', lock' = lock,
           \A q \in Processors \ {p} :
              /\ pc'[q] = pc[q] /\ printed'[q] = printed[q] /\ inside'[q] = inside[q],
           pc'[p] \in Holding => pc[p] \in Holding,
           Progress(p)',
           mixed => mixed',
           Busy(p) \/ ((Prints(p) \/ pc[p] = "save") /\ (Overlaps(p) => mixed')),
           Moves(p) /\ Lends(p) => Moves(p)' /\ Lends(p)' /\ Answers(p)
    PROVE  Inv' /\ Refines
<1>1. LockInv'
  <2>1. \A q \in Processors : pc'[q] \in Holding => pc[q] \in Holding
    OBVIOUS
  <2> QED BY <2>1 DEF Inv, LockInv
<1>2. \A q \in Processors : Progress(q)'
  BY DEF Inv, Progress, Prints, Length, AtNewline
<1>3. ~mixed' => /\ ~mixed /\ Moves(p)' /\ Lends(p)' /\ Answers(p)
                 /\ \A q \in Processors \ {p} : ~Busy(q) /\ ~Busy(q)'
  <2> SUFFICES ASSUME ~mixed'
               PROVE  /\ ~mixed /\ Moves(p)' /\ Lends(p)' /\ Answers(p)
                      /\ \A q \in Processors \ {p} : ~Busy(q) /\ ~Busy(q)'
    OBVIOUS
  <2>1. ~mixed /\ (Busy(p) \/ (~Overlaps(p) /\ (Prints(p) \/ pc[p] = "save")))
    OBVIOUS
  <2>2. Moves(p) /\ Lends(p) /\ \A q \in Processors \ {p} : ~Busy(q)
    BY <2>1, Alone
  <2>3. \A q \in Processors \ {p} : ~Busy(q)'
    BY <2>2 DEF Busy, Borrows
  <2> QED BY <2>1, <2>2, <2>3
<1>4. OwnerInv'
  <2> SUFFICES ASSUME ~mixed'
               PROVE  /\ OneBusy'
                      /\ (\A q \in Processors : ~Busy(q)') => OnScreen'
                      /\ \A q \in Processors : Busy(q)' => Moves(q)' /\ Lends(q)'
    BY DEF OwnerInv
  <2>1. Moves(p)' /\ Lends(p)' /\ \A q \in Processors \ {p} : ~Busy(q)'
    BY <1>3
  <2>2. ~Busy(p)' => OnScreen'
    BY <2>1 DEF Busy, Moves
  <2> QED BY <2>1, <2>2 DEF OneBusy
<1>5. Refines
  <2> SUFFICES ASSUME ~mixed' PROVE [Promise!Next]_(Promise!vars)
    BY DEF Refines
  <2>1. Answers(p) /\ \A q \in Processors \ {p} : ~Busy(q) /\ ~Busy(q)'
    BY <1>3
  <2>2. Place = PlaceFor(p) /\ Place' = PlaceFor(p)'
    BY <2>1, PlaceOf, PlaceOfNext
  <2> QED BY <2>1, <2>2 DEF Answers
<1> QED BY <1>1, <1>2, <1>4, <1>5 DEF Inv

\* A step inside Printch.
LEMMA InsideStep ==
    ASSUME Inv, NEW p \in Processors, NEW to \in Accesses \ {"out"},
           inside[p] # "out", inside' = [inside EXCEPT ![p] = to],
           cursorX' \in Nat, cursorY' \in Nat,
           vidmem' \in [Cells -> Marks], reg' \in [Processors -> Nat],
           UNCHANGED <<lock, pc, printed, temp, mixed>>,
           to \in {"cell", "load_x", "store_x"} => ~AtNewline(p),
           to \in {"line_load", "line_store"} => AtNewline(p),
           Moves(p) /\ Lends(p) => Moves(p)' /\ Lends(p)' /\ Answers(p)
    PROVE  Inv' /\ Refines
<1>1. TypeInv'
  BY DEF Inv, TypeInv, Accesses
<1>2. Progress(p) /\ inside'[p] = to
  BY DEF Inv, TypeInv
<1>3. Prints(p)
  BY <1>2 DEF Progress
<1>4. Progress(p)'
  BY <1>2, <1>3 DEF Progress, Prints, Length, AtNewline
<1>5. (mixed => mixed') /\ Busy(p)
  BY DEF Busy
<1>6. /\ pc'[p] \in Holding => pc[p] \in Holding
      /\ \A q \in Processors \ {p} :
            pc'[q] = pc[q] /\ printed'[q] = printed[q] /\ inside'[q] = inside[q]
  BY DEF Inv, TypeInv
<1> QED BY <1>1, <1>4, <1>5, <1>6, SoleStep

\* Of which nothing is seen, while a clock has the cursor or when what p prints
\* ends where it did.
LEMMA SameEnd ==
    ASSUME NEW p \in Processors, UNCHANGED <<pc, temp, vidmem>>,
           ~Borrows(p) => End(p)' = End(p)
    PROVE  Answers(p)
<1>1. PlaceFor(p)' = PlaceFor(p)
  BY DEF PlaceFor, Borrows
<1> QED BY <1>1, Unseen

\* cursorX++
LEMMA LoadXStep ==
    ASSUME Inv, NEW p \in Processors, LoadX(p)
    PROVE  Inv' /\ Refines
<1>1. /\ inside[p] = "load_x" /\ inside' = [inside EXCEPT ![p] = "store_x"]
      /\ reg' = [reg EXCEPT ![p] = cursorX]
      /\ UNCHANGED <<cursorX, cursorY, vidmem, lock, pc, printed, temp, mixed>>
  BY DEF LoadX, Access, Load
<1>2. TypeInv /\ Progress(p) /\ inside'[p] = "store_x" /\ reg'[p] = cursorX
  BY <1>1 DEF Inv, TypeInv
<1>3. ASSUME Moves(p), Lends(p) PROVE Moves(p)' /\ Lends(p)'
  BY <1>1, <1>2, <1>3 DEF Moves, Lends, OnScreen, BelowScreen, Borrows, ClockRow
<1>4. Answers(p)
  <2>1. End(p) = cursorY * SCREEN_WIDTH + cursorX + 1
    BY <1>1 DEF End
  <2>2. End(p)' = cursorY * SCREEN_WIDTH + cursorX + 1
    BY <1>1, <1>2 DEF End
  <2> QED BY <1>1, <2>1, <2>2, SameEnd
<1>5. ~AtNewline(p) /\ "store_x" \in Accesses \ {"out"} /\ reg' \in [Processors -> Nat]
  BY <1>1, <1>2 DEF Progress, Accesses, TypeInv
<1> QED BY <1>1, <1>2, <1>3, <1>4, <1>5, InsideStep DEF TypeInv

LEMMA StoreXStep ==
    ASSUME ConsoleAssumption, Inv, NEW p \in Processors, StoreX(p)
    PROVE  Inv' /\ Refines
<1>1. /\ inside[p] = "store_x" /\ inside' = [inside EXCEPT ![p] = "test_x"]
      /\ cursorX' = reg[p] + 1 /\ reg' = [reg EXCEPT ![p] = 0]
      /\ UNCHANGED <<cursorY, vidmem, lock, pc, printed, temp, mixed>>
  BY DEF StoreX, Access, Load
<1>2. /\ TypeInv /\ Progress(p) /\ inside'[p] = "test_x" /\ reg[p] \in Nat
      /\ SCREEN_WIDTH \in Nat /\ SCREEN_HEIGHT \in Nat
  BY <1>1, Sizes DEF Inv, TypeInv
<1>3. ASSUME Moves(p), Lends(p) PROVE Moves(p)' /\ Lends(p)'
  <2>1. Moves(p)'
    BY <1>1, <1>2, <1>3 DEF Moves, OnScreen, BelowScreen
  <2>2. Lends(p)'
    BY <1>1, <1>2, <1>3 DEF Moves, Lends, Borrows, ClockRow, Progress, Prints
  <2> QED BY <2>1, <2>2
<1>4. Answers(p)
  <2>1. End(p) = cursorY * SCREEN_WIDTH + reg[p] + 1
    BY <1>1 DEF End
  <2>2. End(p)' = cursorY' * SCREEN_WIDTH + cursorX'
    BY <1>1, <1>2 DEF End
  <2>3. cursorY * SCREEN_WIDTH \in Nat
    BY <1>2 DEF TypeInv
  <2>4. End(p)' = End(p)
    BY <1>1, <1>2, <2>1, <2>2, <2>3
  <2> QED BY <1>1, <2>4, SameEnd
<1>5. "test_x" \in Accesses \ {"out"} /\ cursorX' \in Nat /\ reg' \in [Processors -> Nat]
  BY <1>1, <1>2 DEF Accesses, TypeInv
<1> QED BY <1>1, <1>2, <1>3, <1>4, <1>5, InsideStep DEF TypeInv

\* cursorY++
LEMMA LoadYStep ==
    ASSUME Inv, NEW p \in Processors, LoadY(p)
    PROVE  Inv' /\ Refines
<1>1. /\ reg' = [reg EXCEPT ![p] = cursorY]
      /\ UNCHANGED <<cursorX, cursorY, vidmem, lock, pc, printed, temp, mixed>>
      /\ TypeInv /\ Progress(p)
  BY DEF LoadY, Load, Inv
<1>2. ASSUME NEW to \in {"line_store", "wrap_store"}, inside' = [inside EXCEPT ![p] = to],
             inside[p] = IF to = "line_store" THEN "line_load" ELSE "wrap_load"
      PROVE  Inv' /\ Refines
  <2>1. inside'[p] = to /\ reg'[p] = cursorY /\ reg' \in [Processors -> Nat]
    BY <1>1, <1>2 DEF TypeInv
  <2>2. ASSUME Moves(p), Lends(p) PROVE Moves(p)' /\ Lends(p)'
    BY <1>1, <1>2, <2>1, <2>2 DEF Moves, Lends, OnScreen, BelowScreen, Borrows, ClockRow
  <2>3. Answers(p)
    <3>1. End(p) = (cursorY + 1) * SCREEN_WIDTH
      BY <1>2 DEF End
    <3>2. End(p)' = (cursorY + 1) * SCREEN_WIDTH
      BY <2>1 DEF End
    <3> QED BY <1>1, <3>1, <3>2, SameEnd
  <2>4. /\ to \in Accesses \ {"out"} /\ inside[p] # "out"
        /\ to = "line_store" => AtNewline(p)
        /\ to \notin {"cell", "load_x", "store_x"} /\ to # "line_load"
    BY <1>1, <1>2 DEF Progress, Accesses
  <2> QED BY <1>1, <1>2, <2>1, <2>2, <2>3, <2>4, InsideStep DEF TypeInv
<1>3. CASE Access(p, "line_load", "line_store")
  BY <1>2, <1>3 DEF Access
<1>4. CASE Access(p, "wrap_load", "wrap_store")
  BY <1>2, <1>4 DEF Access
<1> QED BY <1>3, <1>4 DEF LoadY

LEMMA StoreYStep ==
    ASSUME ConsoleAssumption, Inv, NEW p \in Processors, StoreY(p)
    PROVE  Inv' /\ Refines
<1>1. /\ cursorY' = reg[p] + 1 /\ reg' = [reg EXCEPT ![p] = 0]
      /\ UNCHANGED <<cursorX, vidmem, lock, pc, printed, temp, mixed>>
      /\ TypeInv /\ Progress(p) /\ reg[p] \in Nat
      /\ SCREEN_WIDTH \in Nat /\ SCREEN_WIDTH >= 2 /\ SCREEN_HEIGHT \in Nat
  BY Sizes DEF StoreY, Load, Inv, TypeInv
<1>2. ASSUME NEW to \in {"test_x", "check"}, inside' = [inside EXCEPT ![p] = to],
             inside[p] = IF to = "test_x" THEN "line_store" ELSE "wrap_store"
      PROVE  Inv' /\ Refines
  <2>1. inside'[p] = to /\ reg' \in [Processors -> Nat] /\ cursorY' \in Nat
    BY <1>1, <1>2 DEF TypeInv
  <2>2. ASSUME Moves(p), Lends(p) PROVE Moves(p)' /\ Lends(p)' /\ Answers(p)
    <3>1. cursorX = 0 /\ cursorY < SCREEN_HEIGHT /\ reg[p] = cursorY
      BY <1>2, <2>2 DEF Moves
    <3>2. Moves(p)'
      BY <1>1, <1>2, <2>1, <3>1 DEF Moves, OnScreen, BelowScreen, TypeInv
    <3>3. Lends(p)'
      BY <1>1, <1>2, <2>1, <2>2 DEF Lends, Borrows, ClockRow
    <3>4. Answers(p)
      <4>1. End(p) = (reg[p] + 1) * SCREEN_WIDTH
        BY <1>2 DEF End
      <4>2. End(p)' = cursorY' * SCREEN_WIDTH + cursorX'
        BY <2>1 DEF End
      <4>3. (reg[p] + 1) * SCREEN_WIDTH \in Nat
        BY <1>1
      <4> QED BY <1>1, <3>1, <4>1, <4>2, <4>3, SameEnd
    <3> QED BY <3>2, <3>3, <3>4
  <2>3. /\ to \in Accesses \ {"out"} /\ inside[p] # "out"
        /\ to \notin {"cell", "load_x", "store_x", "line_load", "line_store"}
    BY <1>2 DEF Accesses
  <2> QED BY <1>1, <1>2, <2>1, <2>2, <2>3, InsideStep DEF TypeInv
<1>3. CASE Access(p, "line_store", "test_x")
  BY <1>2, <1>3 DEF Access
<1>4. CASE Access(p, "wrap_store", "check")
  BY <1>2, <1>4 DEF Access
<1> QED BY <1>3, <1>4 DEF StoreY

LEMMA TestXStep ==
    ASSUME ConsoleAssumption, Inv, NEW p \in Processors, TestX(p)
    PROVE  Inv' /\ Refines
<1> DEFINE to == IF cursorX >= SCREEN_WIDTH THEN "wrap" ELSE "check"
<1>1. /\ inside[p] = "test_x" /\ inside' = [inside EXCEPT ![p] = to]
      /\ UNCHANGED <<cursorX, cursorY, vidmem, lock, pc, printed, reg, temp, mixed>>
  BY DEF TestX, Access, locals
<1>2. /\ TypeInv /\ Progress(p) /\ inside'[p] = to /\ to \in {"wrap", "check"}
      /\ SCREEN_WIDTH \in Nat /\ SCREEN_WIDTH >= 2 /\ SCREEN_HEIGHT \in Nat
  BY <1>1, Sizes DEF Inv, TypeInv
<1>3. ASSUME Moves(p), Lends(p) PROVE Moves(p)' /\ Lends(p)'
  <2>1. cursorX <= SCREEN_WIDTH /\ (cursorY < SCREEN_HEIGHT \/ BelowScreen)
    BY <1>1, <1>3 DEF Moves
  <2>2. Moves(p)'
    BY <1>1, <1>2, <2>1 DEF Moves, OnScreen, BelowScreen, TypeInv
  <2>3. pc[p] = "time" => cursorX = printed[p] + 1 /\ printed[p] < TimeLength /\ TimeLength < SCREEN_WIDTH
    BY <1>1, <1>2, <1>3, Sizes DEF Lends, Progress, Prints, Length
  <2>4. pc[p] = "time" => to = "check"
    BY <1>2, <2>3, Sizes DEF TypeInv
  <2>5. Lends(p)'
    <3> HIDE DEF to
    <3>1. pc'[p] = "time" => inside'[p] = "check" /\ cursorX' = printed'[p] + 1
      BY <1>1, <1>2, <2>3, <2>4
    <3>2. UNCHANGED <<cursorX, cursorY, pc, printed, temp>>
      BY <1>1
    <3> QED BY <1>3, <3>1, <3>2 DEF Lends, Borrows, ClockRow
  <2> QED BY <2>2, <2>5
<1>4. Answers(p)
  <2>1. End(p) = cursorY * SCREEN_WIDTH + cursorX
    BY <1>1 DEF End
  <2>2. End(p)' = cursorY * SCREEN_WIDTH + cursorX
    BY <1>1, <1>2 DEF End
  <2> QED BY <1>1, <2>1, <2>2, SameEnd
<1>5. to \in Accesses \ {"out"} /\ to \notin {"cell", "load_x", "store_x", "line_load", "line_store"}
  BY DEF Accesses
<1> QED BY <1>1, <1>2, <1>3, <1>4, <1>5, InsideStep DEF TypeInv

LEMMA WrapStep ==
    ASSUME ConsoleAssumption, Inv, NEW p \in Processors, Wrap(p)
    PROVE  Inv' /\ Refines
<1>1. /\ inside[p] = "wrap" /\ inside' = [inside EXCEPT ![p] = "wrap_load"]
      /\ cursorX' = 0
      /\ UNCHANGED <<cursorY, vidmem, lock, pc, printed, reg, temp, mixed>>
  BY DEF Wrap, Access, locals
<1>2. /\ TypeInv /\ Progress(p) /\ inside'[p] = "wrap_load"
      /\ SCREEN_WIDTH \in Nat /\ SCREEN_WIDTH >= 2 /\ SCREEN_HEIGHT \in Nat
  BY <1>1, Sizes DEF Inv, TypeInv
<1>3. ASSUME Moves(p), Lends(p) PROVE Moves(p)' /\ Lends(p)' /\ Answers(p)
  <2>1. cursorX = SCREEN_WIDTH /\ cursorY < SCREEN_HEIGHT
    BY <1>1, <1>3 DEF Moves
  <2>2. Moves(p)'
    BY <1>1, <1>2, <2>1 DEF Moves, OnScreen, BelowScreen
  <2>3. Lends(p)'
    <3>1. pc[p] \in {"starting", "executing"}
      BY <1>1, <1>2, <1>3 DEF Lends, Progress, Prints
    <3> QED BY <1>1, <1>3, <3>1 DEF Lends, Borrows
  <2>4. End(p)' = End(p)
    <3>1. End(p) = cursorY * SCREEN_WIDTH + SCREEN_WIDTH
      BY <1>1, <2>1 DEF End
    <3>2. End(p)' = (cursorY + 1) * SCREEN_WIDTH
      BY <1>1, <1>2 DEF End
    <3> QED BY <1>2, <3>1, <3>2 DEF TypeInv
  <2> QED BY <1>1, <2>2, <2>3, <2>4, SameEnd
<1>4. "wrap_load" \in Accesses \ {"out"}
  BY DEF Accesses
<1> QED BY <1>1, <1>2, <1>3, <1>4, InsideStep DEF TypeInv

\* Printch returns and leaves the cursor where p has come to: what p prints next.
LEMMA ReturnStep ==
    ASSUME ConsoleAssumption, Inv, NEW p \in Processors, NEW from \in {"check", "home_x"},
           Return(p, from), cursorX' \in Nat, cursorY' = cursorY,
           Moves(p) => OnScreen' /\ At' = At,
           from = "check" => cursorX' = cursorX
    PROVE  Inv' /\ Refines
<1>1. /\ inside[p] = from /\ inside' = [inside EXCEPT ![p] = "out"]
      /\ UNCHANGED <<vidmem, lock, reg, temp, mixed>>
      /\ IF printed[p] + 1 < Length(p)
         THEN printed' = [printed EXCEPT ![p] = @ + 1] /\ pc' = pc
         ELSE printed' = [printed EXCEPT ![p] = 0] /\ pc' = [pc EXCEPT ![p] = After[pc[p]]]
  BY DEF Return, Access, Goto, locals
<1>2. /\ TypeInv /\ Progress(p) /\ Prints(p) /\ inside'[p] = "out" /\ printed[p] \in Nat
      /\ pc \in [Processors -> Places] /\ printed \in [Processors -> Nat]
  BY <1>1 DEF Inv, TypeInv, Progress
<1>3. /\ TimeLength \in Nat /\ 1 <= TimeLength /\ MessageLength \in Nat
      /\ Length(p) \in Nat /\ Length(p) >= 1
  BY Sizes DEF Length
<1>4. /\ pc'[p] \in {pc[p], After[pc[p]]} /\ pc' \in [Processors -> Places]
      /\ printed' \in [Processors -> Nat]
      /\ \A q \in Processors \ {p} :
            pc'[q] = pc[q] /\ printed'[q] = printed[q] /\ inside'[q] = inside[q]
      /\ pc'[p] = pc[p] => printed'[p] = printed[p] + 1 /\ printed'[p] < Length(p)
      /\ pc'[p] # pc[p] => pc'[p] = After[pc[p]] /\ printed'[p] = 0
  <2>1. After[pc[p]] \in Places /\ After[pc[p]] # pc[p]
    BY <1>2 DEF Prints, After, Places, Holding
  <2>2. CASE printed[p] + 1 < Length(p)
    BY <1>1, <1>2, <2>1, <2>2 DEF TypeInv
  <2>3. CASE ~(printed[p] + 1 < Length(p))
    BY <1>1, <1>2, <2>1, <2>3 DEF TypeInv
  <2> QED BY <2>2, <2>3
<1>5. TypeInv'
  BY <1>1, <1>2, <1>4 DEF TypeInv, Accesses
<1>6. \/ pc[p] = "starting" /\ After[pc[p]] = "clock_task"
      \/ pc[p] = "executing" /\ After[pc[p]] = "release"
      \/ pc[p] = "time" /\ After[pc[p]] = "restore_x"
  BY <1>2 DEF Prints, After
<1>7. pc'[p] \in Holding => pc[p] \in Holding
  BY <1>4, <1>6 DEF Holding
<1>8. Progress(p)'
  <2>1. CASE pc'[p] = pc[p]
    BY <1>2, <1>4, <2>1 DEF Progress, Prints, Length
  <2>2. CASE pc'[p] # pc[p]
    BY <1>2, <1>4, <1>6, <2>2 DEF Progress, Prints
  <2> QED BY <2>1, <2>2
<1>9. ASSUME Moves(p), Lends(p) PROVE Moves(p)' /\ Lends(p)' /\ Answers(p)
  <2>1. OnScreen' /\ At' = At
    BY <1>9
  <2>2. Moves(p)'
    BY <1>2, <2>1 DEF Moves
  <2>3. Lends(p)'
    BY <1>1, <1>2, <1>4, <1>6, <1>9 DEF Lends, Borrows, ClockRow
  <2>4. PlaceFor(p)' = PlaceFor(p)
    <3>1. CASE pc[p] = "time"
      <4>1. Borrows(p) /\ Borrows(p)'
        BY <1>4, <1>6, <3>1 DEF Borrows
      <4> QED BY <1>1, <4>1 DEF PlaceFor
    <3>2. CASE pc[p] # "time"
      <4>1. ~Borrows(p) /\ ~Borrows(p)'
        BY <1>4, <1>6, <3>2 DEF Borrows
      <4>2. End(p) = At /\ End(p)' = At'
        BY <1>1, <1>2 DEF End, At
      <4> QED BY <2>1, <4>1, <4>2 DEF PlaceFor
    <3> QED BY <3>1, <3>2
  <2> QED BY <1>1, <2>2, <2>3, <2>4, Unseen
<1>10. (mixed => mixed') /\ Busy(p)
  BY <1>1 DEF Busy
<1> QED BY <1>1, <1>4, <1>5, <1>7, <1>8, <1>9, <1>10, SoleStep

LEMMA NewLineCheckStep ==
    ASSUME ConsoleAssumption, Inv, NEW p \in Processors, NewLineCheck(p)
    PROVE  Inv' /\ Refines
<1>1. /\ TypeInv /\ Progress(p)
      /\ SCREEN_WIDTH \in Nat /\ SCREEN_WIDTH >= 2 /\ SCREEN_HEIGHT \in Nat
  BY Sizes DEF Inv
<1>2. CASE /\ cursorY <= SCREEN_HEIGHT - 1
           /\ Return(p, "check")
           /\ UNCHANGED <<cursorX, cursorY>>
  <2>1. inside[p] = "check"
    BY <1>2 DEF Return, Access
  <2>2. Moves(p) => OnScreen' /\ At' = At
    BY <1>1, <1>2, <2>1 DEF Moves, BelowScreen, OnScreen, At, TypeInv
  <2>3. cursorX' \in Nat /\ cursorY' = cursorY /\ cursorX' = cursorX
    BY <1>1, <1>2 DEF TypeInv
  <2> QED BY <1>2, <2>2, <2>3, ReturnStep
<1>3. CASE /\ cursorY > SCREEN_HEIGHT - 1
           /\ Access(p, "check", "clear")
           /\ UNCHANGED <<cursorX, cursorY, vidmem, lock, pc, printed, locals, mixed>>
  <2>1. /\ inside[p] = "check" /\ inside' = [inside EXCEPT ![p] = "clear"] /\ inside'[p] = "clear"
        /\ UNCHANGED <<cursorX, cursorY, vidmem, lock, pc, printed, reg, temp, mixed>>
    BY <1>1, <1>3 DEF Access, locals, TypeInv
  <2>2. ASSUME Moves(p), Lends(p) PROVE Moves(p)' /\ Lends(p)'
    <3>1. BelowScreen
      BY <1>1, <1>3, <2>1, <2>2 DEF Moves, TypeInv
    <3>2. Moves(p)'
      BY <2>1, <3>1 DEF Moves, BelowScreen
    <3>3. pc[p] # "time"
      <4>1. pc[p] = "time" => cursorY = ClockRow(p)
        BY <2>2 DEF Lends
      <4>2. ClockRow(p) \in 0 .. SCREEN_HEIGHT - 2
        BY Sizes
      <4> QED BY <1>1, <3>1, <4>1, <4>2 DEF BelowScreen
    <3>4. Lends(p)'
      BY <2>1, <2>2, <3>3 DEF Lends, Borrows
    <3> QED BY <3>2, <3>4
  <2>3. Answers(p)
    <3>1. End(p) = cursorY * SCREEN_WIDTH + cursorX
      BY <2>1 DEF End
    <3>2. End(p)' = cursorY * SCREEN_WIDTH + cursorX
      BY <2>1 DEF End
    <3> QED BY <2>1, <3>1, <3>2, SameEnd
  <2>4. "clear" \in Accesses \ {"out"}
    BY DEF Accesses
  <2> QED BY <1>1, <2>1, <2>2, <2>3, <2>4, InsideStep DEF TypeInv
<1> QED BY <1>2, <1>3 DEF NewLineCheck

\* A clock prints within its row and clears no screen.
LEMMA MessageClears ==
    ASSUME Inv, NEW p \in Processors, inside[p] \in {"clear", "home_y", "home_x"}, Lends(p)
    PROVE  pc[p] \in {"starting", "executing"} /\ ~Borrows(p)
BY DEF Inv, Lends, Progress, Prints, Borrows

\* What is behind the screen shows as a screen that is cleared.
LEMMA ClearLinesStep ==
    ASSUME ConsoleAssumption, Inv, NEW p \in Processors, ClearLines(p)
    PROVE  Inv' /\ Refines
<1>1. /\ inside[p] = "clear" /\ inside' = [inside EXCEPT ![p] = "home_y"]
      /\ inside'[p] = "home_y" /\ vidmem' = Cleared
      /\ UNCHANGED <<cursorX, cursorY, lock, pc, printed, reg, temp, mixed>>
      /\ TypeInv
  BY DEF ClearLines, Access, locals, Cleared, Inv, TypeInv
<1>2. ASSUME Moves(p), Lends(p) PROVE Moves(p)' /\ Lends(p)' /\ Answers(p)
  <2>1. BelowScreen /\ pc[p] \in {"starting", "executing"} /\ ~Borrows(p) /\ ~Borrows(p)'
    BY <1>1, <1>2, MessageClears DEF Moves, Borrows
  <2>2. Moves(p)'
    BY <1>1, <2>1 DEF Moves, BelowScreen
  <2>3. Lends(p)'
    BY <1>1, <1>2, <2>1 DEF Lends
  <2>4. PlaceFor(p) = SCREEN_HEIGHT * SCREEN_WIDTH /\ PlaceFor(p)' = SCREEN_HEIGHT * SCREEN_WIDTH
    <3>1. PlaceFor(p) = cursorY * SCREEN_WIDTH + cursorX
      BY <1>1, <2>1 DEF PlaceFor, End
    <3>2. PlaceFor(p)' = cursorY * SCREEN_WIDTH + cursorX
      BY <1>1, <2>1 DEF PlaceFor, End
    <3> QED BY <2>1, <3>1, <3>2, BelowCells DEF BelowScreen
  <2>5. Answers(p)
    BY <2>4, BelowCells DEF Answers, Promise!vars
  <2> QED BY <2>2, <2>3, <2>5
<1>3. "home_y" \in Accesses \ {"out"} /\ vidmem' \in [Cells -> Marks]
  BY <1>1 DEF Accesses, Cleared, Marks
<1> QED BY <1>1, <1>2, <1>3, InsideStep DEF TypeInv

LEMMA HomeYStep ==
    ASSUME ConsoleAssumption, Inv, NEW p \in Processors, HomeY(p)
    PROVE  Inv' /\ Refines
<1>1. /\ inside[p] = "home_y" /\ inside' = [inside EXCEPT ![p] = "home_x"]
      /\ inside'[p] = "home_x" /\ cursorY' = 0
      /\ UNCHANGED <<cursorX, vidmem, lock, pc, printed, reg, temp, mixed>>
      /\ TypeInv
  BY DEF HomeY, Access, locals, Inv, TypeInv
<1>2. ASSUME Moves(p), Lends(p) PROVE Moves(p)' /\ Lends(p)' /\ Answers(p)
  <2>1. /\ BelowScreen /\ vidmem = Cleared
        /\ pc[p] \in {"starting", "executing"} /\ ~Borrows(p) /\ ~Borrows(p)'
    BY <1>1, <1>2, MessageClears DEF Moves, Borrows
  <2>2. Moves(p)'
    BY <1>1, <2>1 DEF Moves, BelowScreen
  <2>3. Lends(p)'
    BY <1>1, <1>2, <2>1 DEF Lends
  <2>4. PlaceFor(p) = SCREEN_HEIGHT * SCREEN_WIDTH
    <3>1. PlaceFor(p) = cursorY * SCREEN_WIDTH + cursorX
      BY <1>1, <2>1 DEF PlaceFor, End
    <3> QED BY <2>1, <3>1, BelowCells DEF BelowScreen
  <2>5. PlaceFor(p)' = 0 /\ 0 \in Cells
    <3>1. PlaceFor(p)' = 0 * SCREEN_WIDTH + 0
      BY <1>1, <2>1 DEF PlaceFor, End, BelowScreen
    <3>2. 0 \in 0 .. SCREEN_WIDTH - 1 /\ 0 \in 0 .. SCREEN_HEIGHT - 1 /\ 0 * SCREEN_WIDTH + 0 = 0
      BY Sizes
    <3> QED BY <3>1, <3>2, CellOf
  <2>6. Answers(p)
    BY <1>1, <2>1, <2>4, <2>5, BelowCells DEF Answers, Promise!vars, Cleared
  <2> QED BY <2>2, <2>3, <2>6
<1>3. "home_x" \in Accesses \ {"out"} /\ cursorY' \in Nat
  BY <1>1 DEF Accesses
<1> QED BY <1>1, <1>2, <1>3, InsideStep DEF TypeInv

LEMMA HomeXStep ==
    ASSUME ConsoleAssumption, Inv, NEW p \in Processors, HomeX(p)
    PROVE  Inv' /\ Refines
<1>1. Return(p, "home_x") /\ cursorX' = 0 /\ cursorY' = cursorY /\ inside[p] = "home_x"
  BY DEF HomeX, Return, Access
<1>2. Moves(p) => OnScreen' /\ At' = At
  BY <1>1, Sizes DEF Moves, OnScreen, At
<1> QED BY <1>1, <1>2, ReturnStep

\* A processor comes into Printch: with nobody else busy it is where p prints.
LEMMA BeginStep ==
    ASSUME Inv, NEW p \in Processors, NEW to \in {"cell", "line_load"},
           Prints(p), inside[p] = "out", inside' = [inside EXCEPT ![p] = to],
           AtNewline(p) <=> to = "line_load",
           cursorX' \in Nat, reg' \in [Processors -> Nat],
           UNCHANGED <<cursorY, vidmem, lock, pc, printed, temp>>,
           mixed' = (mixed \/ Overlaps(p)),
           Moves(p) /\ Lends(p) => Moves(p)' /\ Lends(p)' /\ Answers(p)
    PROVE  Inv' /\ Refines
<1>1. mixed' \in BOOLEAN /\ (mixed => mixed') /\ (Overlaps(p) => mixed')
  <2>1. mixed \in BOOLEAN
    BY DEF Inv, TypeInv
  <2> QED BY <2>1, Zenon
<1>2. TypeInv'
  BY <1>1 DEF Inv, TypeInv, Accesses
<1>3. Progress(p) /\ inside'[p] = to
  BY DEF Inv, TypeInv
<1>4. Progress(p)'
  BY <1>3 DEF Progress, Prints, Length, AtNewline
<1>5. /\ pc'[p] \in Holding => pc[p] \in Holding
      /\ \A q \in Processors \ {p} :
            pc'[q] = pc[q] /\ printed'[q] = printed[q] /\ inside'[q] = inside[q]
  BY DEF Inv, TypeInv
<1> QED BY <1>1, <1>2, <1>4, <1>5, SoleStep

LEMMA CharacterStep ==
    ASSUME Inv, NEW p \in Processors, Character(p)
    PROVE  Inv' /\ Refines
<1>1. /\ Prints(p) /\ ~AtNewline(p)
      /\ inside[p] = "out" /\ inside' = [inside EXCEPT ![p] = "cell"]
      /\ reg' = [reg EXCEPT ![p] = cursorY] /\ mixed' = (mixed \/ Overlaps(p))
      /\ UNCHANGED <<cursorX, cursorY, vidmem, lock, pc, printed, temp>>
  BY DEF Character, Access, Load
<1>2. TypeInv /\ inside'[p] = "cell" /\ reg'[p] = cursorY /\ reg' \in [Processors -> Nat]
  BY <1>1 DEF Inv, TypeInv
<1>3. ASSUME Moves(p), Lends(p) PROVE Moves(p)' /\ Lends(p)'
  BY <1>1, <1>2, <1>3 DEF Moves, Lends, OnScreen, BelowScreen, Borrows, ClockRow
<1>4. Answers(p)
  <2>1. End(p) = cursorY * SCREEN_WIDTH + cursorX
    BY <1>1 DEF End
  <2>2. End(p)' = cursorY * SCREEN_WIDTH + cursorX
    BY <1>1, <1>2 DEF End
  <2> QED BY <1>1, <2>1, <2>2, SameEnd
<1> QED BY <1>1, <1>2, <1>3, <1>4, BeginStep DEF TypeInv

\* The character appears: to ConsoleSpec it is printed.
LEMMA WriteCellStep ==
    ASSUME ConsoleAssumption, Inv, NEW p \in Processors, WriteCell(p)
    PROVE  Inv' /\ Refines
<1> DEFINE cell == reg[p] * SCREEN_WIDTH + cursorX
<1>1. /\ inside[p] = "cell" /\ inside' = [inside EXCEPT ![p] = "load_x"]
      /\ vidmem' = [c \in Cells |-> IF c = cell THEN Shown(p) ELSE vidmem[c]]
      /\ reg' = [reg EXCEPT ![p] = 0]
      /\ UNCHANGED <<cursorX, cursorY, lock, pc, printed, temp, mixed>>
  BY DEF WriteCell, Access, Load
<1>2. /\ TypeInv /\ Progress(p) /\ inside'[p] = "load_x" /\ reg' \in [Processors -> Nat]
      /\ ~AtNewline(p) /\ Prints(p)
  BY <1>1 DEF Inv, TypeInv, Progress
<1>3. vidmem' \in [Cells -> Marks]
  BY <1>1, <1>2 DEF Marks, Shown, TypeInv
<1>4. ASSUME Moves(p), Lends(p) PROVE Moves(p)' /\ Lends(p)' /\ Answers(p)
  <2>1. OnScreen /\ reg[p] = cursorY
    BY <1>1, <1>4 DEF Moves
  <2>2. Moves(p)' /\ Lends(p)'
    BY <1>1, <1>2, <1>4, <2>1 DEF Moves, Lends, OnScreen, BelowScreen, Borrows, ClockRow
  <2>3. At \in Cells /\ cell = At
    BY <2>1, CellOf DEF OnScreen, At
  <2>4. vidmem' = [vidmem EXCEPT ![At] = Shown(p)]
    BY <1>1, <1>2, <2>3 DEF TypeInv
  <2>5. CASE pc[p] = "time"
    <3>1. Borrows(p) /\ Borrows(p)' /\ Shown(p) = p
      BY <1>1, <2>5 DEF Borrows, Shown
    <3>2. PlaceFor(p) = temp[p].y * SCREEN_WIDTH + temp[p].x /\ PlaceFor(p)' = PlaceFor(p)
      BY <1>1, <3>1 DEF PlaceFor
    <3>3. PlaceFor(p) \in Cells
      <4>1. temp[p].x \in 0 .. SCREEN_WIDTH - 1 /\ temp[p].y \in 0 .. SCREEN_HEIGHT - 1
        BY <1>4, <3>1 DEF Lends
      <4> QED BY <3>2, <4>1, CellOf
    <3>4. cursorY = ClockRow(p) /\ cursorX = printed[p]
      BY <1>1, <1>4, <2>5 DEF Lends
    <3>5. printed[p] \in 0 .. TimeLength - 1
      BY <1>2, <2>5, Sizes DEF Progress, Length, TypeInv
    <3>6. vidmem' = [vidmem EXCEPT ![ClockRow(p) * SCREEN_WIDTH + printed[p]] = p]
      BY <2>4, <3>1, <3>4 DEF At
    <3>7. [q \in Processors |-> ClockRow(q)][p] = ClockRow(p)
      OBVIOUS
    <3>8. ASSUME Place = PlaceFor(p), Place' = PlaceFor(p)' PROVE Promise!Show(p)
      BY <3>2, <3>3, <3>5, <3>6, <3>7, <3>8 DEF Promise!Show
    <3> QED BY <2>2, <3>8 DEF Answers, Promise!Next
  <2>6. CASE pc[p] # "time"
    <3>1. ~Borrows(p) /\ ~Borrows(p)' /\ Shown(p) = Text
      BY <1>1, <1>2, <2>6 DEF Borrows, Shown, Prints
    <3>2. PlaceFor(p) = At
      BY <1>1, <3>1 DEF PlaceFor, End, At
    <3>3. PlaceFor(p)' = At + 1
      <4>1. PlaceFor(p)' = cursorY * SCREEN_WIDTH + cursorX + 1
        BY <1>1, <1>2, <3>1 DEF PlaceFor, End
      <4> QED BY <4>1 DEF At
    <3>4. Promise!Cells = Cells /\ Promise!Cleared = Cleared
      BY DEF Promise!Cells, Cells, Promise!Cleared, Cleared
    <3>5. ASSUME Place = PlaceFor(p), Place' = PlaceFor(p)' PROVE Promise!Say
      BY <2>3, <2>4, <3>1, <3>2, <3>3, <3>4, <3>5 DEF Promise!Say, Promise!GoTo, Cleared
    <3> QED BY <2>2, <3>5 DEF Answers, Promise!Next
  <2> QED BY <2>5, <2>6
<1>5. "load_x" \in Accesses \ {"out"}
  BY DEF Accesses
<1> QED BY <1>1, <1>2, <1>3, <1>4, <1>5, InsideStep DEF TypeInv

LEMMA NewlineStep ==
    ASSUME ConsoleAssumption, Inv, NEW p \in Processors, Newline(p)
    PROVE  Inv' /\ Refines
<1>1. /\ Prints(p) /\ AtNewline(p)
      /\ inside[p] = "out" /\ inside' = [inside EXCEPT ![p] = "line_load"]
      /\ cursorX' = 0 /\ mixed' = (mixed \/ Overlaps(p))
      /\ UNCHANGED <<cursorY, vidmem, lock, pc, printed, reg, temp>>
  BY DEF Newline, Access, locals
<1>2. TypeInv /\ inside'[p] = "line_load" /\ pc[p] \in {"starting", "executing"}
  BY <1>1 DEF Inv, TypeInv, AtNewline, Prints
<1>3. ASSUME Moves(p), Lends(p) PROVE Moves(p)' /\ Lends(p)' /\ Answers(p)
  <2>1. OnScreen
    BY <1>1, <1>3 DEF Moves
  <2>2. cursorY < SCREEN_HEIGHT
    BY <2>1, Sizes DEF OnScreen
  <2>3. Moves(p)' /\ Lends(p)'
    BY <1>1, <1>2, <1>3, <2>1, <2>2 DEF Moves, Lends, OnScreen, BelowScreen, Borrows
  <2>4. At \in Cells /\ At \div SCREEN_WIDTH = cursorY
    BY <2>1, CellOf DEF OnScreen, At
  <2>5. PlaceFor(p) = At /\ PlaceFor(p)' = (cursorY + 1) * SCREEN_WIDTH
    BY <1>1, <1>2 DEF PlaceFor, End, At, Borrows
  <2>6. Promise!Cells = Cells /\ Promise!Cleared = Cleared
    BY DEF Promise!Cells, Cells, Promise!Cleared, Cleared
  <2>7. ASSUME Place = PlaceFor(p), Place' = PlaceFor(p)' PROVE Promise!NewLine
    BY <1>1, <2>4, <2>5, <2>6, <2>7 DEF Promise!NewLine, Promise!GoTo, Cleared
  <2> QED BY <2>3, <2>7 DEF Answers, Promise!Next
<1> QED BY <1>1, <1>2, <1>3, BeginStep DEF TypeInv

\* The clock's own steps, with the lock and outside Printch.
LEMMA ClockStep ==
    ASSUME ConsoleAssumption, Inv, NEW p \in Processors, NEW from \in Holding, NEW to \in Holding,
           Clock(p, from, to), from \notin {"executing", "time"}, to # "executing",
           cursorX' \in Nat, cursorY' \in Nat, temp' \in [Processors -> [x : Nat, y : Nat]],
           \/ Busy(p) /\ mixed' = mixed
           \/ from = "save" /\ mixed' = (mixed \/ Overlaps(p)),
           Moves(p) /\ Lends(p) => OnScreen' /\ Lends(p)' /\ PlaceFor(p)' = PlaceFor(p)
    PROVE  Inv' /\ Refines
<1>1. /\ pc[p] = from /\ pc' = [pc EXCEPT ![p] = to]
      /\ UNCHANGED <<vidmem, lock, printed, inside, reg>>
  BY DEF Clock, Goto
<1>2. mixed' \in BOOLEAN /\ (mixed => mixed')
      /\ (Busy(p) \/ (pc[p] = "save" /\ (Overlaps(p) => mixed')))
  <2>1. mixed \in BOOLEAN
    BY DEF Inv, TypeInv
  <2>2. CASE Busy(p) /\ mixed' = mixed
    BY <2>1, <2>2
  <2>3. CASE from = "save" /\ mixed' = (mixed \/ Overlaps(p))
    <3>1. mixed' \in BOOLEAN /\ (mixed => mixed') /\ (Overlaps(p) => mixed')
      BY <2>3, Zenon
    <3> QED BY <1>1, <2>3, <3>1
  <2> QED BY <2>2, <2>3
<1>3. /\ TypeInv /\ Progress(p) /\ pc'[p] = to /\ to \in Places
      /\ \A q \in Processors \ {p} : pc'[q] = pc[q]
  BY <1>1 DEF Inv, TypeInv, Places
<1>4. TypeInv'
  BY <1>1, <1>2, <1>3 DEF TypeInv
<1>5. ~Prints(p) /\ printed[p] = 0 /\ inside[p] = "out"
  BY <1>1, <1>3 DEF Progress, Prints, Holding
<1>6. Progress(p)'
  BY <1>1, <1>3, <1>5, Sizes DEF Progress, Prints, Length, Holding
<1>7. ASSUME Moves(p), Lends(p) PROVE Moves(p)' /\ Lends(p)' /\ Answers(p)
  <2>1. Moves(p)'
    BY <1>1, <1>5, <1>7 DEF Moves
  <2> QED BY <1>1, <1>7, <2>1, Unseen
<1> QED BY <1>1, <1>2, <1>3, <1>4, <1>6, <1>7, SoleStep

LEMMA SaveXStep ==
    ASSUME ConsoleAssumption, Inv, NEW p \in Processors, SaveX(p)
    PROVE  Inv' /\ Refines
<1>1. /\ Clock(p, "save", "save_y") /\ temp' = [temp EXCEPT ![p].x = cursorX]
      /\ mixed' = (mixed \/ Overlaps(p)) /\ UNCHANGED <<cursorX, cursorY, inside, reg>>
      /\ pc[p] = "save" /\ pc' = [pc EXCEPT ![p] = "save_y"]
  BY DEF SaveX, Clock, Goto
<1>2. /\ TypeInv /\ Progress(p) /\ pc'[p] = "save_y" /\ temp'[p].x = cursorX
      /\ temp' \in [Processors -> [x : Nat, y : Nat]]
  BY <1>1 DEF Inv, TypeInv
<1>3. inside[p] = "out"
  BY <1>1, <1>2 DEF Progress, Prints
<1>4. PlaceFor(p)' = PlaceFor(p)
  BY <1>1, <1>2, <1>3 DEF PlaceFor, Borrows, End
<1>5. ASSUME Moves(p) PROVE OnScreen' /\ Lends(p)'
  BY <1>1, <1>2, <1>3, <1>5 DEF Moves, Lends, Borrows, OnScreen
<1>6. "save" \in Holding /\ "save_y" \in Holding
  BY DEF Holding
<1> QED BY <1>1, <1>2, <1>4, <1>5, <1>6, ClockStep DEF TypeInv

\* From here on messages wait where the clock found the cursor.
LEMMA SaveYStep ==
    ASSUME ConsoleAssumption, Inv, NEW p \in Processors, SaveY(p)
    PROVE  Inv' /\ Refines
<1>1. /\ Clock(p, "save_y", "set_x") /\ temp' = [temp EXCEPT ![p].y = cursorY]
      /\ UNCHANGED <<cursorX, cursorY, mixed, inside, reg>>
      /\ pc[p] = "save_y" /\ pc' = [pc EXCEPT ![p] = "set_x"]
  BY DEF SaveY, Clock, Goto
<1>2. /\ TypeInv /\ Progress(p) /\ pc'[p] = "set_x" /\ Busy(p)
      /\ temp'[p].x = temp[p].x /\ temp'[p].y = cursorY
      /\ temp' \in [Processors -> [x : Nat, y : Nat]]
  BY <1>1 DEF Inv, TypeInv, Busy
<1>3. inside[p] = "out"
  BY <1>1, <1>2 DEF Progress, Prints
<1>4. ASSUME Moves(p), Lends(p) PROVE OnScreen' /\ Lends(p)' /\ PlaceFor(p)' = PlaceFor(p)
  <2>1. temp[p].x = cursorX /\ OnScreen
    BY <1>1, <1>3, <1>4 DEF Moves, Lends
  <2>2. OnScreen' /\ Lends(p)'
    BY <1>1, <1>2, <2>1 DEF Lends, Borrows, OnScreen
  <2>3. ~Borrows(p) /\ Borrows(p)'
    BY <1>1, <1>2 DEF Borrows
  <2>4. PlaceFor(p) = cursorY * SCREEN_WIDTH + cursorX
    BY <1>3, <2>3 DEF PlaceFor, End
  <2>5. PlaceFor(p)' = cursorY * SCREEN_WIDTH + cursorX
    BY <1>2, <2>1, <2>3 DEF PlaceFor
  <2> QED BY <2>2, <2>4, <2>5
<1>5. "save_y" \in Holding /\ "set_x" \in Holding
  BY DEF Holding
<1> QED BY <1>1, <1>2, <1>4, <1>5, ClockStep DEF TypeInv

LEMMA MoveToClockStep ==
    ASSUME ConsoleAssumption, Inv, NEW p \in Processors, MoveToClock(p)
    PROVE  Inv' /\ Refines
<1>1. /\ UNCHANGED <<temp, mixed, inside, printed>> /\ TypeInv /\ Progress(p)
      /\ SCREEN_WIDTH \in Nat /\ SCREEN_WIDTH >= 2
      /\ SCREEN_HEIGHT \in Nat /\ SCREEN_HEIGHT >= 2
      /\ ClockRow(p) \in 0 .. SCREEN_HEIGHT - 2
  BY Sizes DEF MoveToClock, Clock, Inv
<1>2. "set_x" \in Holding /\ "set_y" \in Holding /\ "time" \in Holding
  BY DEF Holding
<1>3. CASE Clock(p, "set_x", "set_y") /\ cursorX' = 0 /\ UNCHANGED cursorY
  <2>1. pc[p] = "set_x" /\ pc'[p] = "set_y" /\ Borrows(p) /\ Borrows(p)' /\ Busy(p)
    BY <1>1, <1>3 DEF Clock, Goto, TypeInv, Borrows, Busy
  <2>2. inside[p] = "out"
    BY <1>1, <2>1 DEF Progress, Prints
  <2>3. ASSUME Moves(p), Lends(p) PROVE OnScreen' /\ Lends(p)'
    BY <1>1, <1>3, <2>1, <2>2, <2>3 DEF Moves, Lends, OnScreen
  <2>4. PlaceFor(p)' = PlaceFor(p)
    BY <1>1, <2>1 DEF PlaceFor
  <2> QED BY <1>1, <1>2, <1>3, <2>1, <2>3, <2>4, ClockStep DEF TypeInv
<1>4. CASE Clock(p, "set_y", "time") /\ cursorY' = ClockRow(p) /\ UNCHANGED cursorX
  <2>1. pc[p] = "set_y" /\ pc'[p] = "time" /\ Borrows(p) /\ Borrows(p)' /\ Busy(p)
    BY <1>1, <1>4 DEF Clock, Goto, TypeInv, Borrows, Busy
  <2>2. inside[p] = "out" /\ printed[p] = 0
    BY <1>1, <2>1 DEF Progress, Prints
  <2>3. ASSUME Moves(p), Lends(p) PROVE OnScreen' /\ Lends(p)'
    <3>1. cursorX = 0
      BY <2>1, <2>3 DEF Lends
    <3>2. OnScreen'
      BY <1>1, <1>4, <3>1 DEF OnScreen
    <3>3. cursorY' = ClockRow(p)' /\ cursorX' = printed'[p] /\ inside'[p] = "out"
      BY <1>1, <1>4, <2>2, <3>1 DEF ClockRow
    <3>4. temp'[p].x \in 0 .. SCREEN_WIDTH - 1 /\ temp'[p].y \in 0 .. SCREEN_HEIGHT - 1
      BY <1>1, <2>1, <2>3 DEF Lends
    <3> QED BY <2>1, <3>2, <3>3, <3>4 DEF Lends
  <2>4. PlaceFor(p)' = PlaceFor(p)
    BY <1>1, <2>1 DEF PlaceFor
  <2>5. cursorX' \in Nat /\ cursorY' \in Nat /\ temp' \in [Processors -> [x : Nat, y : Nat]]
    BY <1>1, <1>4 DEF TypeInv
  <2> QED BY <1>1, <1>2, <1>4, <2>1, <2>3, <2>4, <2>5, ClockStep
<1> QED BY <1>3, <1>4 DEF MoveToClock

\* The clock gives the cursor back.
LEMMA RestoreCursorStep ==
    ASSUME ConsoleAssumption, Inv, NEW p \in Processors, RestoreCursor(p)
    PROVE  Inv' /\ Refines
<1>1. UNCHANGED <<mixed, inside, printed>> /\ TypeInv /\ Progress(p)
      /\ temp[p].x \in Nat /\ temp[p].y \in Nat
  BY DEF RestoreCursor, Clock, Inv, TypeInv
<1>2. "restore_x" \in Holding /\ "restore_y" \in Holding /\ "release" \in Holding
  BY DEF Holding
<1>3. CASE Clock(p, "restore_x", "restore_y") /\ cursorX' = temp[p].x /\ UNCHANGED <<cursorY, temp>>
  <2>1. pc[p] = "restore_x" /\ pc'[p] = "restore_y" /\ Borrows(p) /\ Borrows(p)' /\ Busy(p)
    BY <1>1, <1>3 DEF Clock, Goto, TypeInv, Borrows, Busy
  <2>2. inside[p] = "out"
    BY <1>1, <2>1 DEF Progress, Prints
  <2>3. ASSUME Moves(p), Lends(p) PROVE OnScreen' /\ Lends(p)'
    BY <1>1, <1>3, <2>1, <2>2, <2>3 DEF Moves, Lends, OnScreen
  <2>4. PlaceFor(p)' = PlaceFor(p)
    BY <1>3, <2>1 DEF PlaceFor
  <2> QED BY <1>1, <1>2, <1>3, <2>1, <2>3, <2>4, ClockStep DEF TypeInv
<1>4. CASE /\ Clock(p, "restore_y", "release")
           /\ cursorY' = temp[p].y
           /\ temp' = [temp EXCEPT ![p] = [x |-> 0, y |-> 0]]
           /\ UNCHANGED cursorX
  <2>1. pc[p] = "restore_y" /\ pc'[p] = "release" /\ Borrows(p) /\ ~Borrows(p)' /\ Busy(p)
    BY <1>1, <1>4 DEF Clock, Goto, TypeInv, Borrows, Busy
  <2>2. inside[p] = "out" /\ inside'[p] = "out"
    BY <1>1, <2>1 DEF Progress, Prints
  <2>3. ASSUME Moves(p), Lends(p) PROVE OnScreen' /\ Lends(p)' /\ PlaceFor(p)' = PlaceFor(p)
    <3>1. cursorX' = temp[p].x /\ cursorY' = temp[p].y
      BY <1>4, <2>1, <2>3 DEF Lends
    <3>2. OnScreen'
      BY <2>1, <2>3, <3>1 DEF Lends, OnScreen
    <3>3. PlaceFor(p)' = cursorY' * SCREEN_WIDTH + cursorX'
      BY <2>1, <2>2 DEF PlaceFor, End
    <3>4. PlaceFor(p) = temp[p].y * SCREEN_WIDTH + temp[p].x
      BY <2>1 DEF PlaceFor
    <3> QED BY <2>1, <3>1, <3>2, <3>3, <3>4 DEF Lends
  <2>4. temp' \in [Processors -> [x : Nat, y : Nat]] /\ cursorX' \in Nat /\ cursorY' \in Nat
    BY <1>1, <1>4 DEF TypeInv
  <2> QED BY <1>1, <1>2, <1>4, <2>1, <2>3, <2>4, ClockStep
<1> QED BY <1>3, <1>4 DEF RestoreCursor

\* A step that leaves the cursor alone, of a processor that is outside Printch and
\* has borrowed nothing.
LEMMA QuietStep ==
    ASSUME ConsoleAssumption, Inv, NEW p \in Processors, NEW to \in {"executing", "save", "loop"},
           pc[p] \in {"clock_task", "loop", "release"}, pc' = [pc EXCEPT ![p] = to],
           UNCHANGED <<cursorX, cursorY, vidmem, printed, inside, reg, temp>>,
           lock' \in BOOLEAN, mixed' \in BOOLEAN, LockInv',
           ~mixed' => ~mixed \/ InOrder
    PROVE  Inv' /\ Refines
<1>1. /\ TypeInv /\ Progress(p) /\ pc'[p] = to /\ \A q \in Processors \ {p} : pc'[q] = pc[q]
      /\ printed[p] = 0 /\ inside[p] = "out"
  BY DEF Inv, TypeInv, Progress, Prints
<1>2. TypeInv'
  BY <1>1 DEF TypeInv, Places, Holding
<1>3. \A q \in Processors : Progress(q)'
  <2>1. \A q \in Processors \ {p} : Progress(q)'
    BY <1>1 DEF Inv, Progress, Prints, Length, AtNewline
  <2>2. Progress(p)'
    <3>1. MessageLength + 1 > 0
      BY Sizes
    <3> QED BY <1>1, <3>1 DEF Progress, Prints, Length
  <2> QED BY <2>1, <2>2
<1>4. /\ \A q \in Processors : Busy(q)' <=> Busy(q)
      /\ \A q \in Processors : Borrows(q)' <=> Borrows(q)
      /\ ~Busy(p)
  BY <1>1 DEF Busy, Borrows
<1>5. OwnerInv'
  <2> SUFFICES ASSUME ~mixed'
               PROVE  /\ OneBusy'
                      /\ (\A q \in Processors : ~Busy(q)') => OnScreen'
                      /\ \A q \in Processors : Busy(q)' => Moves(q)' /\ Lends(q)'
    BY DEF OwnerInv
  <2>1. CASE ~mixed
    <3>1. /\ OneBusy /\ ((\A q \in Processors : ~Busy(q)) => OnScreen)
          /\ \A q \in Processors : Busy(q) => Moves(q) /\ Lends(q)
      BY <2>1 DEF Inv, OwnerInv
    <3>2. OneBusy' /\ ((\A q \in Processors : ~Busy(q)') => OnScreen')
      BY <1>4, <3>1 DEF OneBusy, OnScreen
    <3>3. ASSUME NEW q \in Processors, Busy(q)' PROVE Moves(q)' /\ Lends(q)'
      <4>1. q # p /\ Moves(q) /\ Lends(q)
        BY <1>4, <3>1, <3>3
      <4> QED BY <1>1, <4>1 DEF Moves, Lends, OnScreen, BelowScreen, Borrows, ClockRow
    <3> QED BY <3>2, <3>3
  <2>2. CASE InOrder
    BY <1>4, <2>2 DEF InOrder, OneBusy, OnScreen
  <2> QED BY <2>1, <2>2
<1>6. UNCHANGED Promise!vars
  <2> DEFINE B == {q \in Processors : Borrows(q)}
             I == {q \in Processors : inside[q] # "out"}
             BNext == {q \in Processors : Borrows(q)'}
             INext == {q \in Processors : inside'[q] # "out"}
             OfClock(S) == temp[CHOOSE q \in S : TRUE].y * SCREEN_WIDTH + temp[CHOOSE q \in S : TRUE].x
  <2>1. \A q : End(q)' = End(q)
    BY DEF End
  <2>2. BNext = B /\ INext = I
    BY <1>4
  <2>3. Place = IF B # {} THEN OfClock(B)
                ELSE IF I # {} THEN End(CHOOSE q \in I : TRUE) ELSE At
    BY DEF Place, At
  <2>4. Place' = IF BNext # {} THEN OfClock(BNext)
                 ELSE IF INext # {} THEN End(CHOOSE q \in INext : TRUE) ELSE At
    BY <2>1 DEF Place, At
  <2>5. Place' = Place
    <3> HIDE DEF B, I, BNext, INext, OfClock
    <3> QED BY <2>2, <2>3, <2>4
  <2> QED BY <2>5 DEF Promise!vars
<1> QED BY <1>2, <1>3, <1>5, <1>6 DEF Inv, Refines

\* The lock is taken: nobody else has it, and a cursor in order is trusted again.
LEMMA AcquireStep ==
    ASSUME ConsoleAssumption, Inv, NEW p \in Processors, Acquire(p)
    PROVE  Inv' /\ Refines
<1> DEFINE to == IF pc[p] = "loop" THEN "save" ELSE "executing"
<1>1. /\ pc[p] \in {"clock_task", "loop"} /\ pc' = [pc EXCEPT ![p] = to]
      /\ ~lock /\ lock' = TRUE /\ mixed' = (mixed /\ ~InOrder)
      /\ UNCHANGED <<cursorX, cursorY, vidmem, printed, inside, reg, temp>>
  BY DEF Acquire, Goto, locals
<1>2. mixed' \in BOOLEAN /\ (~mixed' => ~mixed \/ InOrder)
  <2>1. mixed \in BOOLEAN
    BY DEF Inv, TypeInv
  <2> QED BY <1>1, <2>1, Zenon
<1>3. LockInv'
  BY <1>1 DEF Inv, TypeInv, LockInv
<1> QED BY <1>1, <1>2, <1>3, QuietStep

LEMMA ReleaseStep ==
    ASSUME ConsoleAssumption, Inv, NEW p \in Processors, Release(p)
    PROVE  Inv' /\ Refines
<1>1. /\ pc[p] = "release" /\ pc' = [pc EXCEPT ![p] = "loop"] /\ lock' = FALSE
      /\ UNCHANGED <<cursorX, cursorY, vidmem, printed, inside, reg, temp, mixed>>
      /\ TypeInv
  BY DEF Release, Goto, locals, Inv
<1>2. LockInv'
  BY <1>1 DEF Inv, TypeInv, LockInv, Holding
<1>3. mixed' \in BOOLEAN /\ (~mixed' => ~mixed \/ InOrder)
  BY <1>1 DEF TypeInv
<1> QED BY <1>1, <1>2, <1>3, QuietStep

LEMMA InitHolds ==
    ASSUME ConsoleAssumption, Init
    PROVE  Inv /\ Promise!Init
<1>1. SCREEN_WIDTH \in Nat /\ SCREEN_WIDTH >= 2 /\ SCREEN_HEIGHT \in Nat /\ SCREEN_HEIGHT >= 2
      /\ TimeLength \in Nat /\ MessageLength \in Nat
  BY Sizes
<1>2. OnScreen /\ cursorX = 0
  BY <1>1 DEF Init, OnScreen
<1>3. TypeInv
  <2>1. cursorX \in Nat /\ cursorY \in Nat
    BY <1>1, <1>2 DEF OnScreen
  <2>2. vidmem \in [Cells -> Marks]
    BY DEF Init, Marks
  <2>3. pc \in [Processors -> Places] /\ inside \in [Processors -> Accesses]
    BY DEF Init, Places, Accesses
  <2>4. printed \in [Processors -> Nat] /\ reg \in [Processors -> Nat]
        /\ temp \in [Processors -> [x : Nat, y : Nat]]
    BY DEF Init
  <2> QED BY <2>1, <2>2, <2>3, <2>4 DEF Init, TypeInv
<1>4. LockInv
  BY DEF Init, LockInv, Holding
<1>5. \A p \in Processors : Progress(p)
  BY <1>1 DEF Init, Progress, Prints, Length
<1>6. \A p \in Processors : ~Borrows(p) /\ ~Busy(p) /\ inside[p] = "out"
  BY DEF Init, Busy, Borrows
<1>7. OwnerInv
  BY <1>2, <1>6 DEF OwnerInv, OneBusy
<1>8. Place = cursorY * SCREEN_WIDTH + cursorX
  BY <1>6 DEF Place
<1>9. Place \in Cells
  BY <1>2, <1>8, CellOf DEF OnScreen
<1>10. Promise!Init
  BY <1>9 DEF Promise!Init, Promise!Cells, Promise!Cleared, Cells, Init
<1> QED BY <1>3, <1>4, <1>5, <1>7, <1>10 DEF Inv

LEMMA PrintchStep ==
    ASSUME ConsoleAssumption, Inv, NEW p \in Processors, Printch(p)
    PROVE  Inv' /\ Refines
BY CharacterStep, WriteCellStep, NewlineStep, LoadXStep, StoreXStep, LoadYStep, StoreYStep,
   TestXStep, WrapStep, NewLineCheckStep, ClearLinesStep, HomeYStep, HomeXStep DEF Printch

LEMMA NextStep ==
    ASSUME ConsoleAssumption, Inv, [Next]_vars
    PROVE  Inv' /\ Refines
<1>1. CASE UNCHANGED vars
  <2>1. Inv'
    BY <1>1 DEF Inv, TypeInv, LockInv, Progress, Prints, Length, AtNewline, OwnerInv, OneBusy,
       Busy, Borrows, Moves, Lends, OnScreen, BelowScreen, ClockRow, vars, locals
  <2>2. UNCHANGED Promise!vars
    BY <1>1 DEF vars, locals, Promise!vars, Place, End, Borrows
  <2> QED BY <2>1, <2>2 DEF Refines
<1>2. CASE Next
  BY <1>2, PrintchStep, AcquireStep, ReleaseStep, SaveXStep, SaveYStep, MoveToClockStep,
     RestoreCursorStep DEF Next
<1> QED BY <1>1, <1>2

-----------------------------------------------------------------------------
(* Theorems.                                                                *)

LEMMA Invariance == ASSUME ConsoleAssumption PROVE Spec => []Inv
<1>1. Init => Inv
  BY InitHolds
<1>2. Inv /\ [Next]_vars => Inv'
  BY NextStep
<1> QED BY <1>1, <1>2, PTL DEF Spec

\* The types of Console, and how far a processor is with what it prints.
THEOREM TypeCorrect == ASSUME ConsoleAssumption PROVE Spec => []TypeOK
<1>1. Inv => TypeOK
  <2> SUFFICES ASSUME Inv PROVE TypeOK
    OBVIOUS
  <2>1. \A p \in Processors : printed[p] \in 0 .. MessageLength + TimeLength
    BY Sizes DEF Inv, TypeInv, Progress, Length
  <2>2. \A p \in Processors : inside[p] # "out" => Prints(p)
    BY DEF Inv, Progress
  <2> QED BY <2>1, <2>2 DEF Inv, TypeInv, TypeOK, Marks
<1> QED BY <1>1, Invariance, PTL

\* Printch and SetPointer: as long as no message without the lock overlaps with what
\* another processor prints, every character is written to a cell of the screen.
\* The code steps behind a row, below the screen and away to a clock; the lock and
\* the order of its accesses bring the cursor back before anybody prints on.
THEOREM CursorStaysOnScreen == ASSUME ConsoleAssumption PROVE Spec => []CursorOnScreen
<1>1. Inv => CursorOnScreen
  <2> SUFFICES ASSUME Inv, ~mixed
               PROVE  /\ (\A p \in Processors : inside[p] = "out") => OnScreen
                      /\ \A p \in Processors : inside[p] = "cell" =>
                            reg[p] * SCREEN_WIDTH + cursorX \in Cells
    BY DEF CursorOnScreen
  <2>1. /\ OneBusy /\ ((\A p \in Processors : ~Busy(p)) => OnScreen)
        /\ \A p \in Processors : Busy(p) => Moves(p) /\ Lends(p)
    BY DEF Inv, OwnerInv
  <2>2. (\A p \in Processors : inside[p] = "out") => OnScreen
    <3>1. CASE \E p \in Processors : Busy(p)
      BY <2>1, <3>1 DEF Moves
    <3>2. CASE \A p \in Processors : ~Busy(p)
      BY <2>1, <3>2
    <3> QED BY <3>1, <3>2
  <2>3. ASSUME NEW p \in Processors, inside[p] = "cell"
        PROVE  reg[p] * SCREEN_WIDTH + cursorX \in Cells
    <3>1. reg[p] = cursorY /\ OnScreen
      BY <2>1, <2>3 DEF Busy, Moves
    <3> QED BY <3>1, CellOf DEF OnScreen
  <2> QED BY <2>2, <2>3
<1> QED BY <1>1, Invariance, PTL

\* clock_task_entry_point and final_processor_setup: unless a message without the
\* lock overlaps with other printing, messages run on from cell to cell and every
\* clock writes in its own row, though all of them move one cursor, a load and a
\* store at a time.
THEOREM ConsoleIsShared == ASSUME ConsoleAssumption PROVE Spec => KeepsPromise
<1>1. Init => Promise!Init
  BY InitHolds
<1>2. Inv /\ [Next]_vars => [mixed' \/ Promise!Next]_(Promise!vars)
  BY NextStep DEF Refines
<1> QED BY <1>1, <1>2, Invariance, PTL DEF Spec, KeepsPromise
=============================================================================
