----------------------------- MODULE MCSpifcFvb -----------------------------
(* Instances of SpifcFvb for TLC: one block below the window, a window of a   *)
(* variable, a working, an unmanaged and a spare block, one board data cell.  *)
EXTENDS SpifcFvb

MCBits == {1}

\* A part with a formatted store; an empty one and a formatted one with data in
\* every other cell.
MCFormatted == {[a \in Addresses |-> IF a \in HeaderCells THEN Bits ELSE {}]}
MCContents  == {[a \in Addresses |-> {}],
                [a \in Addresses |->
                   IF a \in HeaderCells \/ a % 2 = 1 THEN Bits ELSE {}]}

\* Lists that end, repeat, skip, and run into the unmanaged block.
MCEraseLists == {<<>>, <<0>>, <<1, 3>>, <<1, 2>>, <<4>>}
=============================================================================
