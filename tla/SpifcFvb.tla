------------------------------ MODULE SpifcFvb ------------------------------
(***************************************************************************)
(* MesonSpifcFvbDxe above its NOR primitives: the RAM shadow that the      *)
(* firmware volume block protocol serves, loaded at entry, formatted when  *)
(* its headers are invalid, and kept coherent by verified writes and       *)
(* erases; the raw NOR protocol below the runtime window; power cuts.      *)
(*                                                                         *)
(* A NOR primitive is one step here, with the outcomes NorContract allows  *)
(* it.  A cell (one byte) is the set of its 0-bits: erasing empties it,    *)
(* programming adds to it.                                                 *)
(***************************************************************************)
EXTENDS FvbLayout, Sequences

CONSTANTS
    PageSize,        \* VIM3_NOR_PAGE_SIZE
    VerifySize,      \* bytes FvbWrite reads back at a time
    Contents,        \* what the array may hold at the first power-on
    MaxLength,       \* bound: longest write
    EraseLists,      \* bound: the block lists given to FvbEraseBlocks
    MaxRequests,     \* bound: protocol calls
    MaxCuts,         \* bound: power cuts
    SilentPhases     \* the phases in which the part may report success and leave
                     \* bits behind

ASSUME RequestAssumption ==
    /\ {PageSize, VerifySize, MaxLength} \subseteq Nat \ {0}
    /\ Contents \subseteq [Addresses -> Cell]
    /\ EraseLists \subseteq Seq(Nat)
    /\ {MaxRequests, MaxCuts} \subseteq Nat
    /\ SilentPhases \subseteq {"format", "ready"}

VARIABLES
    nor,             \* the array
    late,            \* what a command whose call failed may still do
    protected,       \* the status register's protection bits are set
    phase,           \* "off", "format", "ready", "failed"
    runtime,         \* EfiAtRuntime ()
    shadow,          \* mSpifcFvb.Shadow, indexed by NOR address
    pc,              \* where the operation being served is
    start, lo, hi,   \* its span, start .. hi - 1, and how far it got
    data,            \* what it writes there
    blocks,          \* the blocks it has still to erase
    reply,           \* what the last operation returned
    suspect,         \* cells of the window a failed operation covered
    requests, cuts   \* protocol calls and power cuts so far

part   == <<nor, late, protected>>
span   == <<start, lo, hi, data>>
count  == <<requests, cuts>>
vars   == <<part, phase, runtime, shadow, pc, span, blocks, reply, suspect, count>>

Nothing == [c \in {} |-> {}]

Reply(status, n) == [status |-> status, bytes |-> n]

Quiet ==
    /\ pc = "idle" /\ start = 0 /\ lo = 0 /\ hi = 0
    /\ data = Nothing /\ blocks = <<>>

Init ==
    /\ nor \in Contents
    /\ late = Nothing /\ protected \in BOOLEAN
    /\ phase = "off" /\ runtime = FALSE
    /\ shadow = [w \in Window |-> {}]
    /\ Quiet /\ reply = Reply("none", 0) /\ suspect = {}
    /\ requests = 0 /\ cuts = 0

-----------------------------------------------------------------------------
(* One NOR primitive: NorProgramPage or NorEraseSector aiming at target, a *)
(* function from cells to what they should hold.                           *)

Programmed(S) == [c \in S |-> nor[c] \cup data[c]]
Erased(S)     == [c \in S |-> {}]

Busy == DOMAIN late # {}

\* Any mixture, bit by bit, of what the cells hold and what they should.
Torn(target) ==
    \E v \in [DOMAIN target -> Cell] :
        /\ \A c \in DOMAIN target :
              /\ nor[c] \cap target[c] \subseteq v[c]
              /\ v[c] \subseteq nor[c] \cup target[c]
        /\ nor' = Overlay(nor, v)

\* A part still busy with an earlier command ignores this one; success means
\* that it has become idle since.
Commanded(target) ==
    /\ late' = Nothing
    /\ IF Busy THEN nor' = Overlay(nor, late)
       ELSE IF phase \in SilentPhases THEN Torn(target)
       ELSE nor' = Overlay(nor, target)

Fails(target) ==
    IF Busy THEN UNCHANGED <<nor, late>>
    ELSE \/ Torn(target) /\ UNCHANGED late
         \/ late' = target /\ UNCHANGED nor

\* The part finishes the command of a call that failed.
FinishLate ==
    /\ Busy
    /\ nor' = Overlay(nor, late) /\ late' = Nothing
    /\ UNCHANGED <<protected, phase, runtime, shadow, pc, span, blocks, reply,
                   suspect, count>>

-----------------------------------------------------------------------------
(* MesonSpifcFvbDxeEntryPoint and FormatVariableStore. *)

BlockRun(first, last) == [i \in 1 .. last - first + 1 |-> first + i - 1]

\* Seeded fault: the spare area is left as it is.
FormatBlocksNoSpare ==
    BlockRun(0, VariableLast) \o BlockRun(WorkingFirst, WorkingLast)

\* The blocks in the order FormatVariableStore erases them.
FormatBlocks ==
    BlockRun(0, VariableLast) \o BlockRun(WorkingFirst, WorkingLast)
                              \o BlockRun(SpareFirst, SpareLast)

\* No HOB, wrong part, a read that times out or that a second read contradicts.
EntryFails ==
    /\ phase = "off"
    /\ phase' = "failed"
    /\ UNCHANGED <<part, runtime, shadow, pc, span, blocks, reply, suspect, count>>

Load ==
    /\ phase = "off"
    /\ shadow' = [w \in Window |-> nor[w]]
    /\ IF HeaderValid(nor)
         THEN phase' = "ready" /\ UNCHANGED <<pc, blocks>>
         ELSE IF protected
           THEN phase' = "failed" /\ UNCHANGED <<pc, blocks>>
           ELSE phase' = "format" /\ pc' = "erase" /\ blocks' = FormatBlocks
    /\ suspect' = {}
    /\ UNCHANGED <<part, runtime, span, reply, count>>

FormatFails(target) ==
    /\ Fails(target)
    /\ phase' = "failed" /\ pc' = "idle" /\ blocks' = <<>>
    /\ UNCHANGED <<protected, runtime, shadow, span, reply, suspect, count>>

FormatErase ==
    /\ phase = "format" /\ pc = "erase"
    /\ LET target == Erased(Block(Head(blocks))) IN
       \/ FormatFails(target)
       \/ /\ Commanded(target)
          /\ blocks' = Tail(blocks)
          /\ IF Tail(blocks) # <<>>
               THEN UNCHANGED <<pc, shadow>>
               ELSE /\ pc' = "program"
                    /\ shadow' = [w \in Window |->
                                     IF w \in Managed THEN {} ELSE shadow[w]]
          /\ UNCHANGED <<protected, phase, runtime, span, reply, suspect, count>>

FormatProgram ==
    /\ phase = "format" /\ pc = "program"
    /\ LET target == [c \in HeaderCells |-> nor[c] \cup Bits] IN
       \/ FormatFails(target)
       \/ /\ Commanded(target)
          /\ pc' = "verify"
          /\ UNCHANGED <<protected, phase, runtime, shadow, span, blocks, reply,
                         suspect, count>>

FormatVerify ==
    /\ phase = "format" /\ pc = "verify"
    /\ pc' = "idle"
    /\ \/ phase' = "failed" /\ UNCHANGED shadow
       \/ /\ HeaderValid(nor)
          /\ phase' = "ready"
          /\ shadow' = [w \in Window |->
                           IF w \in HeaderCells THEN Bits ELSE shadow[w]]
    /\ UNCHANGED <<part, runtime, span, blocks, reply, suspect, count>>

-----------------------------------------------------------------------------
(* The protocols: one call at a time, on a driver that is installed. *)

Accepting == phase = "ready" /\ pc = "idle"

Counted == requests < MaxRequests /\ requests' = requests + 1 /\ UNCHANGED cuts

Refuse(status, n) ==
    /\ reply' = Reply(status, n)
    /\ UNCHANGED <<part, phase, runtime, shadow, pc, span, blocks, suspect>>

\* The operation is over; the cells in doubt are those it covered and did not
\* verify.
Finish(status, n) ==
    /\ reply' = Reply(status, n)
    /\ pc' = "idle" /\ start' = 0 /\ lo' = 0 /\ hi' = 0
    /\ data' = Nothing /\ blocks' = <<>>

\* Seeded fault: everything from the working area on is taken for writable.
LbaWritableThroughGap(lba) == lba <= VariableLast \/ WorkingFirst <= lba

LbaWritable(lba) ==
    \/ lba <= VariableLast
    \/ WorkingFirst <= lba /\ lba <= WorkingLast
    \/ SpareFirst <= lba /\ lba <= SpareLast

TooLong(offset, len) == len > BlockSize - offset

MinOf(a, b) == IF a < b THEN a ELSE b

\* The end of the page, or of the span if that comes first.
PageEnd == MinOf(hi, (lo \div PageSize + 1) * PageSize)

\* Flash can only clear bits: every 0-bit of the shadow must be 0 in the buffer.
Permitted(buf) == \A c \in DOMAIN buf : shadow[c] \subseteq buf[c]

FvbWrite(lba, offset, len) ==
    /\ Accepting /\ Counted
    /\ IF lba >= BlockCount \/ offset > BlockSize THEN Refuse("invalid", len)
       ELSE IF protected \/ ~LbaWritable(lba) THEN Refuse("protected", len)
       ELSE IF TooLong(offset, len) THEN Refuse("badsize", BlockSize - offset)
       ELSE LET first == BlockBase(lba) + offset IN
            \E buf \in [first .. first + len - 1 -> Cell] :
               IF ~Permitted(buf) THEN Refuse("denied", len)
               ELSE /\ start' = first /\ lo' = first /\ hi' = first + len
                    /\ data' = buf /\ pc' = "program"
                    /\ reply' = Reply("none", 0)
                    /\ UNCHANGED <<part, phase, runtime, shadow, blocks, suspect>>

\* A program that fails reports that nothing was written.
FvbProgramPage ==
    /\ phase = "ready" /\ pc = "program"
    /\ LET target == Programmed(lo .. PageEnd - 1) IN
       \/ /\ Fails(target)
          /\ Finish("error", 0)
          /\ suspect' = suspect \cup (start .. hi - 1)
          /\ UNCHANGED <<protected, phase, runtime, shadow, count>>
       \/ /\ Commanded(target)
          /\ IF PageEnd < hi
               THEN lo' = PageEnd /\ UNCHANGED pc
               ELSE lo' = start /\ pc' = "verify"
          /\ UNCHANGED <<protected, phase, runtime, shadow, start, hi, data,
                         blocks, reply, suspect, count>>

\* The verify loop reads a chunk back and only then lets the shadow have it.
ChunkEnd == MinOf(hi, lo + VerifySize)
Chunk    == lo .. ChunkEnd - 1

FvbVerifyFails ==
    /\ phase = "ready" /\ pc = "verify"
    /\ Finish("error", lo - start)
    /\ suspect' = suspect \cup (lo .. hi - 1)
    /\ UNCHANGED <<part, phase, runtime, shadow, count>>

\* Seeded fault: a page that was programmed with success is not compared.
FvbVerifyUncompared ==
    /\ phase = "ready" /\ pc = "verify"
    /\ shadow' = [w \in Window |-> IF w \in Chunk THEN data[w] ELSE shadow[w]]
    /\ suspect' = suspect \ Chunk
    /\ IF ChunkEnd < hi
         THEN /\ lo' = ChunkEnd
              /\ UNCHANGED <<pc, start, hi, data, blocks, reply>>
         ELSE Finish("ok", hi - start)
    /\ UNCHANGED <<part, phase, runtime, count>>

FvbVerifyChunk ==
    /\ phase = "ready" /\ pc = "verify"
    /\ \A c \in Chunk : nor[c] = data[c]
    /\ shadow' = [w \in Window |-> IF w \in Chunk THEN data[w] ELSE shadow[w]]
    /\ suspect' = suspect \ Chunk
    /\ IF ChunkEnd < hi
         THEN /\ lo' = ChunkEnd
              /\ UNCHANGED <<pc, start, hi, data, blocks, reply>>
         ELSE Finish("ok", hi - start)
    /\ UNCHANGED <<part, phase, runtime, count>>

Bad(list) == {i \in DOMAIN list : list[i] >= BlockCount \/ ~LbaWritable(list[i])}

\* The ranges of a call, as the list of their blocks: all are checked before the
\* first is erased.
FvbEraseBlocks(list) ==
    /\ Accepting /\ Counted
    /\ IF protected THEN Refuse("protected", 0)
       ELSE IF Bad(list) # {} THEN Refuse("badlba", 0)
       ELSE IF list = <<>> THEN Refuse("ok", 0)
       ELSE /\ blocks' = list /\ pc' = "erase"
            /\ reply' = Reply("none", 0)
            /\ UNCHANGED <<part, phase, runtime, shadow, span, suspect>>

FvbEraseSector ==
    /\ phase = "ready" /\ pc = "erase"
    /\ LET block  == Block(Head(blocks))
           target == Erased(block) IN
       \/ /\ Fails(target)
          /\ Finish("error", 0)
          /\ suspect' = suspect \cup block
          /\ UNCHANGED <<protected, phase, runtime, shadow, count>>
       \/ /\ Commanded(target)
          /\ pc' = "blank"
          /\ UNCHANGED <<protected, phase, runtime, shadow, span, blocks, reply,
                         suspect, count>>

FvbBlankFails ==
    /\ phase = "ready" /\ pc = "blank"
    /\ Finish("error", 0)
    /\ suspect' = suspect \cup Block(Head(blocks))
    /\ UNCHANGED <<part, phase, runtime, shadow, count>>

\* Seeded fault: a block is taken for blank because the part said so.
FvbBlankUnchecked ==
    /\ phase = "ready" /\ pc = "blank"
    /\ LET block == Block(Head(blocks)) IN
       /\ shadow' = [w \in Window |-> IF w \in block THEN {} ELSE shadow[w]]
       /\ suspect' = suspect \ block
    /\ IF Tail(blocks) # <<>>
         THEN /\ blocks' = Tail(blocks) /\ pc' = "erase"
              /\ UNCHANGED <<span, reply>>
         ELSE Finish("ok", 0)
    /\ UNCHANGED <<part, phase, runtime, count>>

FvbBlankCheck ==
    /\ phase = "ready" /\ pc = "blank"
    /\ LET block == Block(Head(blocks)) IN
       /\ \A c \in block : nor[c] = {}
       /\ shadow' = [w \in Window |-> IF w \in block THEN {} ELSE shadow[w]]
       /\ suspect' = suspect \ block
    /\ IF Tail(blocks) # <<>>
         THEN /\ blocks' = Tail(blocks) /\ pc' = "erase"
              /\ UNCHANGED <<span, reply>>
         ELSE Finish("ok", 0)
    /\ UNCHANGED <<part, phase, runtime, count>>

\* MESON_NOR_FLASH_PROTOCOL: boot services only, and short of the window.

Below(at, len) == at < RuntimeBase /\ len <= RuntimeBase - at

NorFlashProgram(at, len) ==
    /\ Accepting /\ Counted
    /\ IF runtime THEN Refuse("unsupported", 0)
       ELSE IF protected THEN Refuse("protected", 0)
       ELSE IF ~Below(at, len) THEN Refuse("invalid", 0)
       ELSE /\ start' = at /\ lo' = at /\ hi' = at + len
            /\ data' \in [at .. at + len - 1 -> Cell]
            /\ pc' = "rawprogram"
            /\ reply' = Reply("none", 0)
            /\ UNCHANGED <<part, phase, runtime, shadow, blocks, suspect>>

NorFlashErase(at, len) ==
    /\ Accepting /\ Counted
    /\ IF runtime THEN Refuse("unsupported", 0)
       ELSE IF protected THEN Refuse("protected", 0)
       ELSE IF at % BlockSize # 0 \/ len % BlockSize # 0 \/ ~Below(at, len)
         THEN Refuse("invalid", 0)
       ELSE /\ start' = at /\ lo' = at /\ hi' = at + len
            /\ pc' = "rawerase"
            /\ reply' = Reply("none", 0)
            /\ UNCHANGED <<part, phase, runtime, shadow, data, blocks, suspect>>

\* Nothing is read back here: that is left to the caller.
RawStep(target, next) ==
    \/ /\ Fails(target)
       /\ Finish("error", 0)
       /\ UNCHANGED <<protected, phase, runtime, shadow, suspect, count>>
    \/ /\ Commanded(target)
       /\ IF next < hi
            THEN lo' = next /\ UNCHANGED <<start, hi, data, pc, blocks, reply>>
            ELSE Finish("ok", hi - start)
       /\ UNCHANGED <<protected, phase, runtime, shadow, suspect, count>>

RawProgramPage ==
    /\ phase = "ready" /\ pc = "rawprogram"
    /\ RawStep(Programmed(lo .. PageEnd - 1), PageEnd)

RawEraseSector ==
    /\ phase = "ready" /\ pc = "rawerase"
    /\ RawStep(Erased(lo .. lo + BlockSize - 1), lo + BlockSize)

-----------------------------------------------------------------------------
(* The platform. *)

ExitBootServices ==
    /\ Accepting /\ ~runtime
    /\ runtime' = TRUE
    /\ UNCHANGED <<part, phase, shadow, pc, span, blocks, reply, suspect, count>>

\* Whatever the part was doing stops in the middle; RAM is lost.
PowerCut ==
    /\ phase # "off" /\ cuts < MaxCuts
    /\ Torn(late) /\ late' = Nothing
    /\ phase' = "off" /\ runtime' = FALSE
    /\ shadow' = [w \in Window |-> {}]
    /\ pc' = "idle" /\ start' = 0 /\ lo' = 0 /\ hi' = 0
    /\ data' = Nothing /\ blocks' = <<>>
    /\ reply' = Reply("none", 0)
    /\ suspect' = {}
    /\ cuts' = cuts + 1
    /\ UNCHANGED <<protected, requests>>

Entry   == EntryFails \/ Load \/ FormatErase \/ FormatProgram \/ FormatVerify
Service == \/ FvbProgramPage \/ FvbVerifyFails \/ FvbVerifyChunk
           \/ FvbEraseSector \/ FvbBlankFails \/ FvbBlankCheck
           \/ RawProgramPage \/ RawEraseSector
Request == \/ \E lba \in 0 .. BlockCount, offset \in 0 .. BlockSize + 1,
                 len \in 1 .. MaxLength : FvbWrite(lba, offset, len)
           \/ \E list \in EraseLists : FvbEraseBlocks(list)
           \/ \E at \in 0 .. RuntimeBase, len \in 1 .. MaxLength :
                 NorFlashProgram(at, len)
           \/ \E at \in 0 .. RuntimeBase, len \in 1 .. 2 * BlockSize :
                 NorFlashErase(at, len)
Next    == Entry \/ Request \/ Service \/ FinishLate \/ ExitBootServices \/ PowerCut

Spec == Init /\ [][Next]_vars

-----------------------------------------------------------------------------
(* Properties. *)

Pcs == {"idle", "erase", "program", "verify", "blank", "rawprogram", "rawerase"}

TypeOK ==
    /\ nor \in [Addresses -> Cell]
    /\ DOMAIN late \subseteq Addresses
    /\ \A a \in DOMAIN late : late[a] \in Cell
    /\ protected \in BOOLEAN /\ runtime \in BOOLEAN
    /\ phase \in {"off", "format", "ready", "failed"}
    /\ shadow \in [Window -> Cell]
    /\ pc \in Pcs
    /\ hi \in 0 .. WindowEnd /\ start \in 0 .. hi /\ lo \in start .. hi
    /\ blocks \in Seq({lba \in 0 .. BlockCount - 1 : LbaWritable(lba)})
    /\ suspect \subseteq Managed

\* The cells an operation has touched, or may have, and not verified yet.
InDoubt ==
    CASE phase = "ready" /\ pc = "program" -> start .. hi - 1
      [] phase = "ready" /\ pc = "verify"  -> lo .. hi - 1
      [] phase = "ready" /\ pc = "blank"   -> Block(Head(blocks))
      [] OTHER -> {}

\* "keeps it coherent after verified NOR operations" (file header): while the
\* volume is served, the shadow that every reader sees and the array differ at
\* most in cells that an operation has failed on or is still working on.
ShadowCoherent ==
    phase = "ready" =>
        \A w \in Window : shadow[w] # nor[w] => w \in suspect \cup InDoubt

\* The byte count FvbWrite returns is never more than what the array holds: all
\* of the buffer on success, the verified prefix on failure.
ReplyIsHonest ==
    [][ phase = "ready" /\ phase' = "ready"
        /\ pc \in {"program", "verify"} /\ pc' = "idle"
          => /\ reply'.status = "ok" => reply'.bytes = hi - start
             /\ \A c \in start .. start + reply'.bytes - 1 :
                  nor'[c] = data[c] /\ shadow'[c] = data[c] ]_vars

\* Nothing but the three managed regions and, below the window, what the raw
\* protocol was asked for is ever written: not the gap between the regions, not
\* the board data; and from ExitBootServices on no command goes below the window.
ForeignCellsUntouched ==
    [][ /\ \A a \in Addresses : nor'[a] # nor[a] => a \in Managed \/ a < RuntimeBase
        /\ runtime /\ runtime' => \A a \in 0 .. RuntimeBase - 1 :
               nor'[a] # nor[a] => a \in DOMAIN late ]_vars

\* "A formatter regression must never erase a recoverable store"
\* (FormatVariableStore): formatting spares a spare area that holds the image of
\* a variable store, the only copy there is between the two halves of a
\* fault-tolerant write.
SpareImage == BlockBase(SpareFirst) .. BlockBase(SpareFirst) + HeaderSize - 1
RecoverableStoreSurvives ==
    [][ phase = "format" /\ (\A c \in SpareImage : nor[c] = Bits)
          => \A c \in SpareImage : nor'[c] = Bits ]_vars

\* What the drivers above rely on.
Store == INSTANCE FvbStore
           WITH view   <- IF phase = "ready" THEN shadow
                                             ELSE [w \in Window |-> nor[w]],
                unsure <- IF phase = "ready" THEN suspect \cup InDoubt ELSE {},
                up     <- phase = "ready"
ImplementsStore == Store!Spec
=============================================================================
