---------------------------- MODULE ConsoleSpec ----------------------------
(***************************************************************************)
(* The screen as its users see it: messages run on from cell to cell, a    *)
(* full screen starts anew, and every processor shows the time in a row of *)
(* its own, which messages do not notice.  No cursor that moves to and     *)
(* fro, no lock.  Console refines it.                                      *)
(***************************************************************************)
EXTENDS Integers

CONSTANTS
    Processors,
    Width, Height,
    TimeLength,      \* the characters of a time
    RowOf,           \* RowOf[p]: the row of the clock of processor p
    Blank, Text      \* what a cell shows, besides the time of a processor

Cells == 0 .. Width * Height - 1

VARIABLES
    at,              \* the cell of the next character of a message
    screen

vars == <<at, screen>>

Cleared == [cell \in Cells |-> Blank]

Init == at \in Cells /\ screen = Cleared

\* A message goes on at cell n, or on a screen that is cleared.
GoTo(n, shown) ==
    /\ at' = IF n \in Cells THEN n ELSE 0
    /\ screen' = IF n \in Cells THEN shown ELSE Cleared

Say == GoTo(at + 1, [screen EXCEPT ![at] = Text])

NewLine == GoTo((at \div Width + 1) * Width, screen)

Show(p) ==
    /\ \E i \in 0 .. TimeLength - 1 : screen' = [screen EXCEPT ![RowOf[p] * Width + i] = p]
    /\ UNCHANGED at

Next == Say \/ NewLine \/ \E p \in Processors : Show(p)

Spec == Init /\ [][Next]_vars
=============================================================================
