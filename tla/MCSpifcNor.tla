----------------------------- MODULE MCSpifcNor -----------------------------
(* Instances of SpifcNor for TLC: a part of two sectors of one page each, and *)
(* buffers that take one to four bufferloads and start anywhere in a page.    *)
EXTENDS SpifcNor

MCContents == {[x \in 0 .. 5 |-> x % 2]}
MCBuffers == {<<0>>, <<0, 1, 0, 0>>}
=============================================================================
