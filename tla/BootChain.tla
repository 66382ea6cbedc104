------------------------------ MODULE BootChain ------------------------------
(* The three copies of the firmware and what the BootROM makes of them.       *)
(*                                                                            *)
(* A copy is a function from chunks to what the chunk holds; chunk 0 carries  *)
(* BL2.  The BootROM probes the copies in the order the MCU's BOOT_MODE       *)
(* register asks for and starts the first whose BL2 validates.  It looks at   *)
(* nothing else: a valid BL2 in front of an incomplete image loops instead of *)
(* falling through (Vim3FmpDxe.c 723-731, measured there).                    *)
EXTENDS Naturals

CONSTANTS LastChunk,  \* chunks are numbered 0 .. LastChunk
          Images      \* the firmware images that exist

ASSUME ChunksAssumption == LastChunk \in Nat \ {0}
ASSUME ImagesAssumption == {"torn", "blank"} \cap Images = {}

Chunk   == 0..LastChunk
Copies  == {"nor", "boot0", "boot1"}
Content == Images \cup {"torn", "blank"}
Copy    == [Chunk -> Content]

Full(i) == [k \in Chunk |-> i]

Complete(copy) == \E i \in Images : copy = Full(i)

Bl2Valid(copy) == copy[0] \in Images

\* Place of a copy in the probe order; the eMMC boot partitions keep theirs.
Rank(mcu, c) == CASE c = "boot0" -> 1
                  [] c = "boot1" -> 2
                  [] c = "nor"   -> IF mcu = "spi" THEN 0 ELSE 3

\* The copy the BootROM starts, or "none" (its USB recovery loop).
Chosen(flash, mcu) ==
  LET valid == {c \in Copies : Bl2Valid(flash[c])}
  IN IF valid = {} THEN "none"
     ELSE CHOOSE c \in valid : \A d \in valid : Rank(mcu, c) <= Rank(mcu, d)

Boots(flash, mcu) ==
  LET c == Chosen(flash, mcu) IN c # "none" /\ Complete(flash[c])
=============================================================================
