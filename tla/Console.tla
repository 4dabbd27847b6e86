------------------------------ MODULE Console ------------------------------
(***************************************************************************)
(* Screen and print lock, libk/screen.c and the printing of clock/clock.c: *)
(* every processor prints a message as it starts its scheduler, another in *)
(* its clock task, and then, again and again, the time at a place of its   *)
(* own, for which it borrows the one cursor that all of them share.  The   *)
(* first message is printed without the lock, so that several processors   *)
(* can be in Printch at once: every load and every store of cursorX and    *)
(* cursorY is a step.  The loop that clears the screen is one step, and    *)
(* the cursor of the hardware and the colours are left out.  Blank, Text   *)
(* and the number of a processor (its time) are what a cell can show.      *)
(***************************************************************************)
EXTENDS Integers

CONSTANTS
    processor_count,
    SCREEN_WIDTH, SCREEN_HEIGHT,
    MessageLength,   \* the characters of a message, without its newline
    TimeLength,      \* the characters time_print prints
    Blank, Text

Processors == 0 .. processor_count - 1
Cells == 0 .. SCREEN_WIDTH * SCREEN_HEIGHT - 1

\* From 13 processors on, the row of a clock on 25 lines would wrap below 0.
ConsoleAssumption ==
    /\ processor_count \in Nat \ {0}
    /\ SCREEN_WIDTH \in Nat /\ SCREEN_HEIGHT \in Nat
    /\ 2 * processor_count <= SCREEN_HEIGHT
    /\ MessageLength \in Nat
    /\ TimeLength \in 1 .. SCREEN_WIDTH - 1
    /\ {Blank, Text} \cap Processors = {}

VARIABLES
    cursorX, cursorY,
    vidmem,          \* what each cell shows
    lock,            \* the print lock `lock`
    pc,              \* pc[p]: where processor p is, and
    printed,         \* printed[p]: how much of its message or time is on the screen
    inside,          \* inside[p]: the next access of p in Printch, or "out" of it
    reg,             \* reg[p]: what p has loaded to compute with
    temp,            \* temp[p]: tempX and tempY of its clock task
    mixed            \* history: a message without the lock has overlapped with what
                     \* another processor prints, and since then nobody found the
                     \* cursor in order as it took the lock

locals == <<reg, temp>>
vars == <<cursorX, cursorY, vidmem, lock, pc, printed, inside, locals, mixed>>

\* What processor 0 has printed by then stays out of view, except for the row.
Init ==
    /\ cursorX = 0
    /\ cursorY \in 0 .. SCREEN_HEIGHT - 1
    /\ vidmem = [cell \in Cells |-> Blank]
    /\ lock = FALSE
    /\ pc = [p \in Processors |-> "starting"]
    /\ printed = [p \in Processors |-> 0]
    /\ inside = [p \in Processors |-> "out"]
    /\ reg = [p \in Processors |-> 0]
    /\ temp = [p \in Processors |-> [x |-> 0, y |-> 0]]
    /\ mixed = FALSE

Goto(p, place) == pc' = [pc EXCEPT ![p] = place]

\* The clock task has the cursor away from the messages.
Borrows(p) == pc[p] \in {"set_x", "set_y", "time", "restore_x", "restore_y"}

Busy(p) == inside[p] # "out" \/ pc[p] = "save_y" \/ Borrows(p)

\* The lock keeps those who take it apart, not those who start.
Overlaps(p) == \E q \in Processors \ {p} : Busy(q) /\ "starting" \in {pc[p], pc[q]}

OnScreen == cursorX \in 0 .. SCREEN_WIDTH - 1 /\ cursorY \in 0 .. SCREEN_HEIGHT - 1

InOrder == OnScreen /\ \A p \in Processors : ~Busy(p)

-----------------------------------------------------------------------------
(* Printch of screen.c, for what is printed: no tabs and no backspaces.    *)

Prints(p) == pc[p] \in {"starting", "executing", "time"}

\* What a processor prints, the newline of printfln included, and where it goes then.
Length(p) == IF pc[p] = "time" THEN TimeLength ELSE MessageLength + 1

After == [starting |-> "clock_task", executing |-> "release", time |-> "restore_x"]

AtNewline(p) == pc[p] # "time" /\ printed[p] = MessageLength

Shown(p) == IF pc[p] = "time" THEN p ELSE Text

Access(p, from, to) == inside[p] = from /\ inside' = [inside EXCEPT ![p] = to]

Load(p, value) == reg' = [reg EXCEPT ![p] = value]

\* cursorY * SCREEN_WIDTH of the cell to write
Character(p) ==
    /\ Prints(p) /\ ~AtNewline(p)
    /\ Access(p, "out", "cell")
    /\ Load(p, cursorY)
    /\ mixed' = (mixed \/ Overlaps(p))
    /\ UNCHANGED <<cursorX, cursorY, vidmem, lock, pc, printed, temp>>

\* The rest of the index, and the cell unless it is behind the screen.
WriteCell(p) ==
    /\ Access(p, "cell", "load_x")
    /\ vidmem' = [cell \in Cells |->
                     IF cell = reg[p] * SCREEN_WIDTH + cursorX THEN Shown(p) ELSE vidmem[cell]]
    /\ Load(p, 0)
    /\ UNCHANGED <<cursorX, cursorY, lock, pc, printed, temp, mixed>>

Newline(p) ==
    /\ Prints(p) /\ AtNewline(p)
    /\ Access(p, "out", "line_load")
    /\ cursorX' = 0
    /\ mixed' = (mixed \/ Overlaps(p))
    /\ UNCHANGED <<cursorY, vidmem, lock, pc, printed, locals>>

\* cursorX++
LoadX(p) ==
    /\ Access(p, "load_x", "store_x")
    /\ Load(p, cursorX)
    /\ UNCHANGED <<cursorX, cursorY, vidmem, lock, pc, printed, temp, mixed>>

StoreX(p) ==
    /\ Access(p, "store_x", "test_x")
    /\ cursorX' = reg[p] + 1
    /\ Load(p, 0)
    /\ UNCHANGED <<cursorY, vidmem, lock, pc, printed, temp, mixed>>

\* cursorY++, of a newline and at the end of a row
LoadY(p) ==
    /\ \/ Access(p, "line_load", "line_store")
       \/ Access(p, "wrap_load", "wrap_store")
    /\ Load(p, cursorY)
    /\ UNCHANGED <<cursorX, cursorY, vidmem, lock, pc, printed, temp, mixed>>

StoreY(p) ==
    /\ \/ Access(p, "line_store", "test_x")
       \/ Access(p, "wrap_store", "check")
    /\ cursorY' = reg[p] + 1
    /\ Load(p, 0)
    /\ UNCHANGED <<cursorX, vidmem, lock, pc, printed, temp, mixed>>

TestX(p) ==
    /\ Access(p, "test_x", IF cursorX >= SCREEN_WIDTH THEN "wrap" ELSE "check")
    /\ UNCHANGED <<cursorX, cursorY, vidmem, lock, pc, printed, locals, mixed>>

Wrap(p) ==
    /\ Access(p, "wrap", "wrap_load")
    /\ cursorX' = 0
    /\ UNCHANGED <<cursorY, vidmem, lock, pc, printed, locals, mixed>>

\* Printch returns: on to the next character, or to what follows the last.
Return(p, from) ==
    /\ Access(p, from, "out")
    /\ IF printed[p] + 1 < Length(p)
       THEN printed' = [printed EXCEPT ![p] = @ + 1] /\ UNCHANGED pc
       ELSE printed' = [printed EXCEPT ![p] = 0] /\ Goto(p, After[pc[p]])
    /\ UNCHANGED <<vidmem, lock, locals, mixed>>

NewLineCheck(p) ==
    \/ /\ cursorY <= SCREEN_HEIGHT - 1
       /\ Return(p, "check")
       /\ UNCHANGED <<cursorX, cursorY>>
    \/ /\ cursorY > SCREEN_HEIGHT - 1
       /\ Access(p, "check", "clear")
       /\ UNCHANGED <<cursorX, cursorY, vidmem, lock, pc, printed, locals, mixed>>

ClearLines(p) ==
    /\ Access(p, "clear", "home_y")
    /\ vidmem' = [cell \in Cells |-> Blank]
    /\ UNCHANGED <<cursorX, cursorY, lock, pc, printed, locals, mixed>>

\* cursorX = cursorY = 0 stores cursorY first.
HomeY(p) ==
    /\ Access(p, "home_y", "home_x")
    /\ cursorY' = 0
    /\ UNCHANGED <<cursorX, vidmem, lock, pc, printed, locals, mixed>>

HomeX(p) ==
    /\ Return(p, "home_x")
    /\ cursorX' = 0
    /\ UNCHANGED cursorY

Printch(p) ==
    \/ Character(p) \/ WriteCell(p) \/ Newline(p)
    \/ LoadX(p) \/ StoreX(p) \/ LoadY(p) \/ StoreY(p)
    \/ TestX(p) \/ Wrap(p) \/ NewLineCheck(p)
    \/ ClearLines(p) \/ HomeY(p) \/ HomeX(p)

-----------------------------------------------------------------------------
(* clock_task_entry_point, around what it prints                           *)

\* Faulty variant: the lock is taken whether it is free or not.
AcquireAnyway(p) ==
    /\ pc[p] \in {"clock_task", "loop"}
    /\ lock' = TRUE
    /\ Goto(p, IF pc[p] = "loop" THEN "save" ELSE "executing")
    /\ mixed' = (mixed /\ ~InOrder)
    /\ UNCHANGED <<cursorX, cursorY, vidmem, printed, inside, locals>>

Acquire(p) ==
    /\ pc[p] \in {"clock_task", "loop"}
    /\ ~lock
    /\ lock' = TRUE
    /\ Goto(p, IF pc[p] = "loop" THEN "save" ELSE "executing")
    /\ mixed' = (mixed /\ ~InOrder)
    /\ UNCHANGED <<cursorX, cursorY, vidmem, printed, inside, locals>>

\* The clock's work at `from`, and where it goes on
Clock(p, from, to) ==
    /\ pc[p] = from /\ Goto(p, to)
    /\ UNCHANGED <<vidmem, lock, printed, inside, reg>>

SaveX(p) ==
    /\ Clock(p, "save", "save_y")
    /\ temp' = [temp EXCEPT ![p].x = cursorX]
    /\ mixed' = (mixed \/ Overlaps(p))
    /\ UNCHANGED <<cursorX, cursorY>>

SaveY(p) ==
    /\ Clock(p, "save_y", "set_x")
    /\ temp' = [temp EXCEPT ![p].y = cursorY]
    /\ UNCHANGED <<cursorX, cursorY, mixed>>

\* SetPointer stores cursorX first.
ClockRow(p) == SCREEN_HEIGHT - 2 * (p + 1)

MoveToClock(p) ==
    /\ \/ Clock(p, "set_x", "set_y") /\ cursorX' = 0 /\ UNCHANGED cursorY
       \/ Clock(p, "set_y", "time") /\ cursorY' = ClockRow(p) /\ UNCHANGED cursorX
    /\ UNCHANGED <<temp, mixed>>

\* Then tempX and tempY are out of scope.
RestoreCursor(p) ==
    /\ \/ /\ Clock(p, "restore_x", "restore_y")
          /\ cursorX' = temp[p].x
          /\ UNCHANGED <<cursorY, temp>>
       \/ /\ Clock(p, "restore_y", "release")
          /\ cursorY' = temp[p].y
          /\ temp' = [temp EXCEPT ![p] = [x |-> 0, y |-> 0]]
          /\ UNCHANGED cursorX
    /\ UNCHANGED mixed

Release(p) ==
    /\ pc[p] = "release"
    /\ lock' = FALSE
    /\ Goto(p, "loop")
    /\ UNCHANGED <<cursorX, cursorY, vidmem, printed, inside, locals, mixed>>

Next ==
    \E p \in Processors :
        \/ Printch(p) \/ Acquire(p) \/ Release(p)
        \/ SaveX(p) \/ SaveY(p) \/ MoveToClock(p) \/ RestoreCursor(p)

Spec == Init /\ [][Next]_vars

-----------------------------------------------------------------------------
(* Properties.                                                             *)

\* How far apart printers without the lock push the cursor is left open here.
TypeOK ==
    /\ cursorX \in Nat /\ cursorY \in Nat
    /\ \A cell \in Cells : vidmem[cell] \in {Blank, Text} \cup Processors
    /\ lock \in BOOLEAN /\ mixed \in BOOLEAN
    /\ \A p \in Processors : printed[p] \in 0 .. MessageLength + TimeLength
    /\ \A p \in Processors : inside[p] # "out" => Prints(p)

\* Unless a message without the lock has overlapped with other printing, every
\* character is written on the screen: between two characters the cursor is on it,
\* though Printch steps on column SCREEN_WIDTH and row SCREEN_HEIGHT and a clock
\* puts back what it found.
CursorOnScreen ==
    ~mixed => /\ (\A p \in Processors : inside[p] = "out") => OnScreen
              /\ \A p \in Processors : inside[p] = "cell" =>
                    reg[p] * SCREEN_WIDTH + cursorX \in Cells

\* Where a message will go on when what p does in Printch is done.
End(p) ==
    CASE inside[p] = "load_x" -> cursorY * SCREEN_WIDTH + cursorX + 1
      [] inside[p] = "store_x" -> cursorY * SCREEN_WIDTH + reg[p] + 1
      [] inside[p] \in {"line_load", "wrap_load"} -> (cursorY + 1) * SCREEN_WIDTH
      [] inside[p] \in {"line_store", "wrap_store"} -> (reg[p] + 1) * SCREEN_WIDTH
      [] OTHER -> cursorY * SCREEN_WIDTH + cursorX

\* Where messages go on: while a clock has the cursor, where it found it.
Place ==
    LET borrowers == {p \in Processors : Borrows(p)}
        printers == {p \in Processors : inside[p] # "out"}
    IN  IF borrowers # {}
        THEN LET t == temp[CHOOSE p \in borrowers : TRUE] IN t.y * SCREEN_WIDTH + t.x
        ELSE IF printers # {} THEN End(CHOOSE p \in printers : TRUE)
        ELSE cursorY * SCREEN_WIDTH + cursorX

\* A character is printed as its cell is written; on a full screen it is gone
\* from then on.
Promise == INSTANCE ConsoleSpec WITH
    Width <- SCREEN_WIDTH, Height <- SCREEN_HEIGHT,
    RowOf <- [p \in Processors |-> ClockRow(p)],
    at <- IF Place \in Cells THEN Place ELSE 0,
    screen <- IF Place \in Cells THEN vidmem ELSE [cell \in Cells |-> Blank]

\* Messages and clocks never disturb one another, whoever prints next, unless a
\* message without the lock overlaps with what another processor prints.
KeepsPromise == Promise!Init /\ [][mixed' \/ Promise!Next]_(Promise!vars)
=============================================================================
