----------------------------- MODULE FvbLayout -----------------------------
(***************************************************************************)
(* The SPI NOR layout of MesonG12B.h as the firmware volume driver divides *)
(* it: the array below the runtime window, the window in erase blocks, the *)
(* board data above it.  All cells are NOR addresses.                      *)
(*                                                                         *)
(* A cell (one byte) is the set of its 0-bits: erasing empties it,         *)
(* programming adds to it.                                                 *)
(***************************************************************************)
EXTENDS Integers

CONSTANTS
    Bits,            \* the bits of a cell
    BlockSize,       \* VIM3_NOR_ERASE_SIZE
    BlockCount,      \* FVB_BLOCK_COUNT
    RuntimeBase,     \* VIM3_NOR_RUNTIME_BASE
    BoardSize,       \* VIM3_NOR_BOARD_DATA_SIZE: cells above the window
    HeaderSize,      \* sizeof (VIM3_VARIABLE_HEADER)
    VariableLast,    \* FVB_VARIABLE_LAST_LBA
    WorkingFirst,    \* FVB_WORKING_FIRST_LBA
    WorkingLast,     \* FVB_WORKING_LAST_LBA
    SpareFirst,      \* FVB_SPARE_FIRST_LBA
    SpareLast        \* FVB_SPARE_LAST_LBA

ASSUME LayoutAssumption ==
    /\ {BlockSize, BlockCount, HeaderSize} \subseteq Nat \ {0}
    /\ {RuntimeBase, BoardSize, VariableLast, WorkingFirst, WorkingLast,
        SpareFirst, SpareLast} \subseteq Nat
    /\ VariableLast < WorkingFirst /\ WorkingFirst <= WorkingLast
    /\ WorkingLast < SpareFirst /\ SpareFirst <= SpareLast
    /\ SpareLast < BlockCount
    /\ HeaderSize <= BlockSize

WindowEnd == RuntimeBase + BlockCount * BlockSize
Window    == RuntimeBase .. WindowEnd - 1
Addresses == 0 .. WindowEnd + BoardSize - 1
Cell      == SUBSET Bits

BlockBase(lba) == RuntimeBase + lba * BlockSize
Block(lba)     == BlockBase(lba) .. BlockBase(lba) + BlockSize - 1

\* The variable store, the FTW working area and the FTW spare area.
Region(first, last) == BlockBase(first) .. BlockBase(last) + BlockSize - 1
Managed == Region(0, VariableLast) \cup Region(WorkingFirst, WorkingLast)
                                  \cup Region(SpareFirst, SpareLast)

\* The header BuildVariableHeaders synthesizes.  VariableHeadersValid wants
\* every byte of it right, a checksum among them; all its bits are 0-bits here,
\* so that no erase cut short turns an invalid header into a valid one.
HeaderCells    == RuntimeBase .. RuntimeBase + HeaderSize - 1
HeaderValid(m) == \A c \in HeaderCells : m[c] = Bits

\* m, except that it holds v's values where v has any.
Overlay(m, v) == [a \in DOMAIN m |-> IF a \in DOMAIN v THEN v[a] ELSE m[a]]
=============================================================================
