---------------------------- MODULE NorGeometry ----------------------------
(***************************************************************************)
(* The SPI NOR array as its callers see it: cells, the calls that address  *)
(* them, and what a call aims to do.  A cell is one byte's worth of flash  *)
(* reduced to a bit: 1 erased, 0 programmed.                               *)
(***************************************************************************)
EXTENDS Integers, Sequences

CONSTANTS
    ChipSize,      \* cells of the part (VIM3_NOR_SIZE)
    EraseSize,     \* cells of an erase sector (VIM3_NOR_ERASE_SIZE)
    Buffers        \* the buffers callers program: sequences of bits

ASSUME BufferAssumption == \A b \in Buffers : b \in Seq({0, 1}) /\ b # <<>>

Cells  == 0 .. ChipSize - 1
Idle   == [kind |-> "none", at |-> 0, buf |-> <<>>, len |-> 0]

NoReply == [status |-> "none", data |-> <<>>]

Program(a, b) == [kind |-> "program", at |-> a, buf |-> b, len |-> Len(b)]
Erase(a)      == [kind |-> "erase", at |-> a, buf |-> <<>>, len |-> EraseSize]
Read(a, n)    == [kind |-> "read", at |-> a, buf |-> <<>>, len |-> n]

Calls == {Program(a, b) : a \in Cells, b \in Buffers}
         \cup {Erase(a) : a \in Cells}
         \cup {Read(a, Len(b)) : a \in Cells, b \in Buffers}

\* The parameter checks that open NorProgram, NorEraseSector and NorRead.
Valid(c) == IF c.kind = "erase" THEN c.at % EraseSize = 0
                                ELSE c.len <= ChipSize - c.at

Span(c) == {x \in Cells : c.at <= x /\ x < c.at + c.len}

\* The <<cell, value>> effects a call or a command aims at: programming a 1
\* leaves a cell as it is.
Effects(c) ==
    CASE c.kind = "program" ->
             {<<x, 0>> : x \in {y \in Span(c) : c.buf[y - c.at + 1] = 0}}
      [] c.kind = "erase" -> {<<x, 1>> : x \in Span(c)}
      [] OTHER -> {}

Land(m, E) == [x \in Cells |-> IF <<x, 0>> \in E THEN 0
                               ELSE IF <<x, 1>> \in E THEN 1 ELSE m[x]]
=============================================================================
