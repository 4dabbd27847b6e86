---------------------------- MODULE MCThreadMail ----------------------------
(* Instances of ThreadMail for TLC.                                         *)
EXTENDS ThreadMail

\* A server has the mailbox of its own number, as a process task has; the others
\* take any.
OwnNumber == [t \in Threads |-> IF t \in Servers THEN t ELSE None]
=============================================================================
