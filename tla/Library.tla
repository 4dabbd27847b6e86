------------------------------ MODULE Library ------------------------------
(***************************************************************************)
(* libk/utility.c: numbers to text and back, and loops over memory, with   *)
(* words of WIDTH bits.  A text is a sequence of characters without its    *)
(* final zero; the character of a digit is its value.  Each behaviour is   *)
(* one call.                                                               *)
(***************************************************************************)
EXTENDS Integers, Sequences
LOCAL INSTANCE SequencesExt

CONSTANTS
    WIDTH,           \* the bits of a word, 32 in the code
    WORD_BYTES,      \* sizeof(uint32_t)
    MEMORY,          \* bound: the bytes of memory looked at
    Nil

LibraryAssumption == {WIDTH, WORD_BYTES, MEMORY} \subseteq Nat \ {0}

VARIABLES
    call,            \* the function called, with its arguments
    result           \* what it leaves, or Nil

vars == <<call, result>>

Unsigned == 0 .. 2 ^ WIDTH - 1
Bytes == 0 .. MEMORY - 1

\* Characters that are no digits, and whatever lies before the array hexes.
X == 100
Minus == 101
Junk == 102

Calls ==
    [function : {"uitoa", "itoa"}, val : Unsigned, base : {2, 10, 16}] \cup
    {c \in [function : {"memset", "memcpy"}, to : Bytes, from : Bytes, size : 0 .. MEMORY] :
        c.to + c.size <= MEMORY /\ c.from + c.size <= MEMORY}

-----------------------------------------------------------------------------
(* Numbers                                                                 *)

\* The digits of a number, the last one first, as the loops store them.
RECURSIVE DigitsBackwards(_, _)
DigitsBackwards(n, base) ==
    <<n % base>> \o (IF n \div base # 0 THEN DigitsBackwards(n \div base, base) ELSE <<>>)

uitoa(val, base) == Reverse(DigitsBackwards(val, base))

Signed(val) == IF val >= 2 ^ (WIDTH - 1) THEN val - 2 ^ WIDTH ELSE val
Least == -(2 ^ (WIDTH - 1))

\* -val of the least number is that number: its remainders are not positive and
\* those below 0 index what lies before hexes.
itoa(val, base) ==
    LET n == Signed(val)
        backwards == DigitsBackwards(IF n < 0 THEN -n ELSE n, base)
        digits == IF n = Least
                  THEN [i \in DOMAIN backwards |-> IF backwards[i] = 0 THEN 0 ELSE Junk]
                  ELSE backwards
    IN  Reverse(digits \o (IF base = 16 THEN <<X, 0>> ELSE <<>>)
                       \o (IF n < 0 THEN <<Minus>> ELSE <<>>))

\* The loops of atoui_dec and atoui_hex: the sum of every digit times a power,
\* modulo the width.
digits_value(digits, base) ==
    FoldLeftDomain(LAMBDA res, i : (res + digits[i] * base ^ (Len(digits) - i)) % 2 ^ WIDTH,
                   0, digits)

atoui(chars) ==
    IF Len(chars) >= 2 /\ chars[1] = 0 /\ chars[2] = X
    THEN digits_value(SubSeq(chars, 3, Len(chars)), 16)
    ELSE digits_value(chars, 10)

-----------------------------------------------------------------------------
(* Memory                                                                  *)

\* Faulty variant: the words begin where the bytes began.
ChunksFromStart(size) ==
    [j \in 1 .. size % WORD_BYTES |-> [at |-> j - 1, size |-> 1]] \o
    [i \in 1 .. size \div WORD_BYTES |-> [at |-> WORD_BYTES * (i - 1), size |-> WORD_BYTES]]

\* The two loops of memset and memcpy: single bytes, as many as whole words leave
\* over, and then words.
Chunks(size) ==
    [j \in 1 .. size % WORD_BYTES |-> [at |-> j - 1, size |-> 1]] \o
    [i \in 1 .. size \div WORD_BYTES |->
        [at |-> (size % WORD_BYTES) + WORD_BYTES * (i - 1), size |-> WORD_BYTES]]

\* Each chunk is read as a whole before it is written.
memcpy(m, to, from, size) ==
    FoldLeft(LAMBDA mem, c : [b \in Bytes |->
                 IF b \in to + c.at .. to + c.at + c.size - 1 THEN mem[b - to + from] ELSE mem[b]],
             m, Chunks(size))

memset(m, to, val, size) ==
    FoldLeft(LAMBDA mem, c : [b \in Bytes |->
                 IF b \in to + c.at .. to + c.at + c.size - 1 THEN val ELSE mem[b]],
             m, Chunks(size))

-----------------------------------------------------------------------------
\* Memory whose bytes all differ
Memory == [b \in Bytes |-> b]

Result(c) ==
    CASE c.function = "uitoa" -> uitoa(c.val, c.base)
      [] c.function = "itoa" -> itoa(c.val, c.base)
      [] c.function = "memcpy" -> memcpy(Memory, c.to, c.from, c.size)
      [] c.function = "memset" -> memset(Memory, c.to, MEMORY, c.size)

Init == call \in Calls /\ result = Nil

Next == result = Nil /\ result' = Result(call) /\ UNCHANGED call

Spec == Init /\ [][Next]_vars

-----------------------------------------------------------------------------
(* Properties.                                                             *)

Numeral(digits, base) ==
    /\ digits # <<>>
    /\ \A i \in DOMAIN digits : digits[i] \in 0 .. base - 1
    /\ Len(digits) > 1 => digits[1] # 0

\* Text that stands for the number, and that atoui reads back.  The least signed
\* number is the exception.
NumberIsRight ==
    LET n == Signed(call.val)
        digits == uitoa(IF n < 0 THEN -n ELSE n, call.base)
        prefix == (IF n < 0 THEN <<Minus>> ELSE <<>>) \o (IF call.base = 16 THEN <<0, X>> ELSE <<>>)
    IN  IF call.function = "uitoa"
        THEN /\ Numeral(result, call.base)
             /\ digits_value(result, call.base) = call.val
             /\ call.base = 10 => atoui(result) = call.val
             /\ call.base = 16 => atoui(<<0, X>> \o result) = call.val
        ELSE n # Least => result = prefix \o digits

\* Exactly the bytes asked for, whatever the alignment and the rest; a target
\* that begins within the source is the exception.
MemoryIsRight ==
    \A b \in Bytes :
        LET inside == b \in call.to .. call.to + call.size - 1 IN
        IF call.function = "memset"
        THEN result[b] = (IF inside THEN MEMORY ELSE b)
        ELSE call.to \in call.from + 1 .. call.from + call.size - 1
             \/ result[b] = (IF inside THEN b - call.to + call.from ELSE b)

CallIsRight ==
    result # Nil =>
        IF call.function \in {"uitoa", "itoa"} THEN NumberIsRight ELSE MemoryIsRight
=============================================================================
