------------------------------- MODULE SdMmcHost -------------------------------
(***************************************************************************)
(* MesonSdMmcDxe.c: bringing up the SD and eMMC controllers in the order   *)
(* the boot origin asks for, and one of the two hosts serving MmcDxe:      *)
(* commands with a data phase deferred until the data call, long requests  *)
(* split into chunks that are each stopped and waited for, over a card     *)
(* that may fail, stay busy or be exchanged.  A unit of data is a block.   *)
(***************************************************************************)
EXTENDS Naturals, Sequences

CONSTANTS
    BlockBytes,    \* bytes of a block (512)
    MaxChunk,      \* blocks a descriptor can move (CMD_CFG_MAX_BLOCKS)
    CardBlocks,    \* size of a card
    AskedClocks,   \* bus clocks MmcDxe asks for, in units of 100 kHz
    MaxPolls,      \* DAT0 polls before a write chunk is given up
    MaxFaults      \* bound: commands whose answer is lost or late

ASSUME ParameterAssumption ==
    /\ {BlockBytes, MaxChunk, CardBlocks, MaxPolls} \subseteq Nat \ {0}
    /\ MaxFaults \in Nat
    /\ AskedClocks \subseteq Nat

Hosts   == {"sd", "emmc"}
Origins == {"emmc", "usb", "sd", "nor", "unknown"}
None    == [index |-> 0]

VARIABLES
    stage,         \* MesonSdMmcDxeEntryPoint: "io", "first", "second", then
                   \* "serve", or "failed" when it returned an error
    origin,        \* what the BootROM booted from (BOOT_DEVICE)
    held,          \* the eMMC's reset line holds the card in reset
    running,       \* controllers whose gate, clock and reset are released
    core,          \* controllers whose internal clock runs
    installed,     \* hosts with a protocol interface
    it,            \* the host MmcDxe talks to below
    host,          \* [app, known, sector, pending] of MESON_MMC_HOST
    bus,           \* [asked, source, divider, width] of the controller
    card,          \* the card: [sector, up, app, open, busy]
    pc,            \* where MmcDxe, or the transfer it asked for, is
    req,           \* the request MmcDxe is serving
    done,          \* blocks of it in chunks already moved
    arg,           \* argument of the chunk's command
    polls,         \* DAT0 polls of the current wait
    moved,         \* <<block of the buffer, block of the card>> exchanged
    reply,         \* what the last data call returned
    late,          \* a command the driver gave up on, still with the controller
    spoilt,        \* how a card was mistreated: "busy", "phase"
    faults

boot   == <<stage, origin, held, running, core, installed, it>>
work   == <<req, done, arg, polls, moved, reply>>
errors == <<late, spoilt, faults>>
vars   == <<boot, host, bus, card, pc, work, errors>>

FreshHost == [app |-> FALSE, known |-> FALSE, sector |-> FALSE, pending |-> None]
FreshCards == [sector : BOOLEAN, up : {FALSE}, app : {FALSE}, open : {"no"}, busy : {FALSE}]
NoRequest == [lba |-> 0, len |-> 0, write |-> FALSE]

-----------------------------------------------------------------------------
(* The entry point. *)

Init ==
    /\ stage = "io" /\ origin \in Origins
    /\ held = (origin # "emmc")
    /\ running = {} /\ installed = {}
    /\ core \in IF origin \in {"emmc", "sd"} THEN {{origin}} ELSE {{}}
    /\ it \in Hosts
    /\ host = FreshHost
    /\ bus = [asked |-> 4, source |-> 240, divider |-> 60, width |-> 1]
    /\ card \in FreshCards
    /\ pc = "off" /\ req = NoRequest /\ done = 0 /\ arg = 0 /\ polls = 0
    /\ moved = {} /\ reply = "none" /\ late = None
    /\ spoilt = {} /\ faults = 0

Service == <<it, host, bus, card, pc, work, errors>>

\* MesonInitBoardIo: stop both clock roots, open the gates, start the clocks,
\* release the resets, power the SDIO card, route the pins.
InitBoardIo ==
    /\ stage = "io"
    /\ stage' = "first"
    /\ running' = Hosts
    /\ UNCHANGED <<origin, held, core, installed, Service>>

EmmcFirst == origin \in {"emmc", "usb"}
First  == IF EmmcFirst THEN "emmc" ELSE "sd"
Second == IF EmmcFirst THEN "sd" ELSE "emmc"

\* Seeded fault: only the USB recovery path pulses the reset.
PulsesResetOnUsb == origin = "usb"

\* The pulse of MesonResetEmmcCard, left out only where BL2 has done it.
PulsesReset == origin # "emmc"

\* MesonHardwareInit writes SD_EMMC_CLOCK before it touches the core.
InstallFirst ==
    /\ stage = "first"
    /\ held' = (held /\ ~PulsesReset)
    /\ core' = core \cup {First}
    /\ \/ installed' = {First} /\ stage' = "second"
       \/ installed' = {} /\ stage' = "failed"
    /\ UNCHANGED <<origin, running, Service>>

InstallSecond ==
    /\ stage = "second"
    /\ core' = core \cup {Second}
    /\ \/ installed' = Hosts /\ stage' = "serve"
       \/ UNCHANGED installed /\ stage' = "failed"
    /\ UNCHANGED <<origin, held, running, Service>>

-----------------------------------------------------------------------------
(* A command: MesonExecuteCommand and the card. *)

Command(index, app, a, n, write, data) ==
    [index |-> index, app |-> app, arg |-> a, n |-> n, write |-> write, data |-> data]

IsBlock(index) == index \in {18, 25}

\* MesonCommandHasData
HasData(index, app) ==
    \/ IsBlock(index) \/ index = 51
    \/ it = "emmc" /\ index = 8
    \/ it = "sd" /\ index = 6 /\ ~app

\* What the card sends or takes data for; CMD6 of an eMMC has no data.
CardHasData(index) ==
    \/ IsBlock(index)
    \/ index = 51 /\ card.app
    \/ it = "emmc" /\ index = 8
    \/ it = "sd" /\ index = 6 /\ ~card.app

Answers(c) ==
    /\ ~(held /\ it = "emmc")
    /\ \/ c.index = 0
       \/ c.index = 1 /\ it = "emmc"
       \/ c.index \in {55, 41} /\ it = "sd"
       \/ c.index = 12 /\ card.open # "no"
       \/ c.index \in {6, 8, 51} /\ card.up
       \/ IsBlock(c.index) /\ card.up /\ card.open = "no"

FirstBlock(c) == IF card.sector THEN c.arg ELSE c.arg \div BlockBytes
InRange(c) == /\ card.sector \/ c.arg % BlockBytes = 0
              /\ FirstBlock(c) + c.n <= CardBlocks

\* The card after it took the command.
Taken(c) ==
    [card EXCEPT
        !.app  = (c.index = 55),
        !.up   = IF c.index = 0 THEN FALSE ELSE @ \/ c.index \in {1, 41},
        !.open = CASE c.index \in {0, 12} -> "no"
                   [] IsBlock(c.index) /\ InRange(c) -> IF c.write THEN "write" ELSE "read"
                   [] OTHER -> @,
        !.busy = c.index # 0 /\ (@ \/ (c.index = 12 /\ card.open = "write"))]

Exchanged(c) ==
    IF IsBlock(c.index) /\ InRange(c)
      THEN {<<done + i, FirstBlock(c) + i>> : i \in 0 .. c.n - 1} ELSE {}

\* A data phase the card is not ready for, or that only one side knows of.
Abuse(c) ==
    {k \in {"busy", "phase"} :
        \/ k = "busy" /\ c.index = 25 /\ card.busy
        \/ k = "phase" /\ c.data # CardHasData(c.index)}

CardTakes(c) ==
    /\ card' = Taken(c)
    /\ moved' = (IF pc \in {"chunk", "between"} THEN moved ELSE {}) \cup Exchanged(c)
    /\ spoilt' = spoilt \cup IF Answers(c) THEN Abuse(c) ELSE {}

CardMisses == UNCHANGED <<card, moved, spoilt>>

Fault == faults < MaxFaults /\ faults' = faults + 1

Succeeds(c) ==
    /\ late' = None /\ UNCHANGED faults
    /\ \/ Answers(c) /\ CardTakes(c)
       \/ late # None /\ CardMisses     \* the end of the old command, mistaken

\* Response time-out, CRC error, or the 100 ms of the software poll over while
\* the controller, told to wait 4 s, still has the command.
Fails(c) ==
    \/ ~Answers(c) /\ CardMisses /\ late' = None /\ UNCHANGED faults
    \/ Answers(c) /\ Fault /\ (CardTakes(c) \/ CardMisses) /\ late' = None
    \/ Answers(c) /\ Fault /\ CardMisses /\ late' = c

\* The card answers what the driver no longer waits for.
LateAnswer ==
    /\ late # None
    /\ late' = None /\ card' = Taken(late)
    /\ UNCHANGED <<boot, host, bus, pc, work, spoilt, faults>>

Programmed ==
    /\ card.busy
    /\ card' = [card EXCEPT !.busy = FALSE]
    /\ UNCHANGED <<boot, host, bus, pc, work, errors>>

-----------------------------------------------------------------------------
(* MesonSendCommand, as MmcDxe uses it. *)

Plain(index)  == Command(index, FALSE, 0, 0, FALSE, FALSE)

\* Seeded fault: the flag of CMD55 outlives the command after it.
SendsKeepingApp(index, argument, next, otherwise) ==
    IF HasData(index, host.app)
    THEN /\ host' = [host EXCEPT !.pending =
                        [index |-> index, app |-> host.app, arg |-> argument]]
         /\ pc' = next
         /\ UNCHANGED <<card, moved, errors>>
    ELSE \/ /\ Succeeds(Plain(index))
            /\ host' = [host EXCEPT !.app = @ \/ (index = 55), !.pending = None]
            /\ pc' = next
         \/ /\ Fails(Plain(index))
            /\ host' = [host EXCEPT !.pending = None]
            /\ pc' = otherwise

\* A command without data goes out at once; one with data waits for its buffer.
Sends(index, argument, next, otherwise) ==
    IF HasData(index, host.app)
    THEN /\ host' = [host EXCEPT !.app = FALSE,
                        !.pending = [index |-> index, app |-> host.app, arg |-> argument]]
         /\ pc' = next
         /\ UNCHANGED <<card, moved, errors>>
    ELSE \/ /\ Succeeds(Plain(index))
            /\ host' = [host EXCEPT
                          !.app = (index = 55),
                          !.pending = None,
                          !.known = @ \/ (it = "emmc" /\ index = 1)
                                      \/ (it = "sd" /\ host.app /\ index = 41),
                          !.sector = IF \/ it = "emmc" /\ index = 1
                                        \/ it = "sd" /\ host.app /\ index = 41
                                     THEN card.sector ELSE @]
            /\ pc' = next
         \/ /\ Fails(Plain(index))
            /\ host' = [host EXCEPT !.app = FALSE, !.pending = None]
            /\ pc' = otherwise

Serving == stage = "serve" \/ (stage = "second" /\ it \in installed)
Quiet   == UNCHANGED <<boot, bus, req, done, arg, polls, reply>>

MesonSetClock(hz) ==
    LET capped == IF hz < 500 THEN hz ELSE 500
        source == IF capped > 160 THEN 10000 ELSE 240
        ratio  == (source + capped - 1) \div capped
    IN  [asked |-> hz, source |-> source,
         divider |-> IF ratio > 63 THEN 63 ELSE ratio]

SetBus(clock, width) ==
    bus' = [asked |-> clock.asked, source |-> clock.source,
            divider |-> clock.divider, width |-> width]

\* MesonHardwareInit forgets the last card.
HardwareInit == SetBus(MesonSetClock(4), 1) /\ host' = FreshHost

\* MesonNotifyState (MmcHwInitializationState), then CMD0.
Identify ==
    /\ Serving /\ pc = "off"
    /\ HardwareInit
    /\ \/ /\ Succeeds(Plain(0))
          /\ pc' = IF it = "emmc" THEN "mmc" ELSE "sd"
       \/ Fails(Plain(0)) /\ pc' = "off"
    /\ UNCHANGED <<boot, req, done, arg, polls, reply>>

\* CMD55 and ACMD41 for an SD card, CMD1 for an eMMC.
IdentifySd  == Serving /\ pc = "sd"   /\ Sends(55, 0, "sd41", "off") /\ Quiet
IdentifyApp == Serving /\ pc = "sd41" /\ Sends(41, 0, "ready", "off") /\ Quiet
IdentifyMmc == Serving /\ pc = "mmc"  /\ Sends(1, 0, "ready", "off") /\ Quiet

\* MesonSetIos: an eMMC has four data lines (SPIFC owns the others) and none of
\* the double data rate or HS200 timings.
SetIos ==
    /\ pc = "ready"
    /\ \E hz \in AskedClocks, width \in {1, 4, 8}, fast \in BOOLEAN :
          IF it = "emmc" /\ (width = 8 \/ fast) THEN UNCHANGED bus
          ELSE IF hz = 0 THEN bus' = [bus EXCEPT !.width = width]
          ELSE SetBus(MesonSetClock(hz), width)
    /\ UNCHANGED <<boot, host, card, pc, work, errors>>

\* The registers MmcDxe reads and writes: SCR and bus width of an SD card after
\* CMD55, its switch function, an eMMC's EXT_CSD and its switch.
AppPrefix == /\ pc = "ready" /\ it = "sd"
             /\ Sends(55, 0, "app", "off") /\ Quiet
AppRegister == /\ pc = "app" /\ Sends(51, 0, "aux", "off") /\ Quiet
AppWidth == /\ pc = "app" /\ Sends(6, 0, "ready", "off") /\ Quiet
Switch == /\ pc = "ready"
          /\ Sends(6, 0, IF it = "sd" THEN "aux" ELSE "ready", "off") /\ Quiet
ExtCsd == pc = "ready" /\ it = "emmc" /\ Sends(8, 0, "aux", "off") /\ Quiet

\* Data calls for a register: one chunk, no block arithmetic.
ReadRegister ==
    /\ pc = "aux" /\ host.pending # None
    /\ LET p == host.pending
           c == Command(p.index, p.app, p.arg, 0, FALSE, TRUE)
       IN  \/ Succeeds(c) /\ pc' = "ready"
           \/ Fails(c) /\ pc' = "off"
    /\ host' = [host EXCEPT !.pending = None]
    /\ Quiet

-----------------------------------------------------------------------------
(* A block request: MesonTransferData. *)

\* MmcDxe waits until the card is ready for data, and addresses it as it is.
Request ==
    /\ pc = "ready" /\ ~card.busy /\ card.open = "no"
    /\ \E lba \in 0 .. CardBlocks - 1, write \in BOOLEAN :
       \E len \in 1 .. CardBlocks - lba :
          /\ req' = [lba |-> lba, len |-> len, write |-> write]
          /\ Sends(IF write THEN 25 ELSE 18,
                   IF card.sector THEN lba ELSE lba * BlockBytes, "begin", "off")
    /\ done' = 0 /\ arg' = 0 /\ polls' = 0 /\ reply' = "none"
    /\ UNCHANGED <<boot, bus>>

BeginTransfer ==
    /\ pc = "begin" /\ host.pending # None
    /\ arg' = host.pending.arg
    /\ moved' = {}
    /\ pc' = "chunk"
    /\ UNCHANGED <<boot, host, bus, card, req, done, polls, reply, late, spoilt, faults>>

Chunk == IF req.len - done < MaxChunk THEN req.len - done ELSE MaxChunk

\* Seeded fault: the guess is taken although the OCR was seen; block 0 of a
\* byte-addressed card passes for a sector argument.
SectorAddressedGuess == host.pending.arg = req.lba

\* The addressing of the card, guessed where its OCR was not seen.
SectorAddressed ==
    IF host.known THEN host.sector ELSE host.pending.arg = req.lba

Return(status, next) ==
    /\ reply' = status /\ pc' = next
    /\ host' = [host EXCEPT !.pending = None]
    /\ UNCHANGED <<boot, bus, req, done, arg, polls>>

MoveChunk ==
    /\ pc = "chunk"
    /\ LET c == Command(host.pending.index, FALSE, arg, Chunk, req.write, TRUE)
       IN  \/ /\ Succeeds(c)
              /\ IF done + Chunk = req.len
                   THEN Return("ok", "stop")
                   ELSE /\ pc' = "between"
                        /\ UNCHANGED <<boot, host, bus, req, done, arg, polls, reply>>
           \/ Fails(c) /\ Return("error", "stop")

\* CMD12 between two chunks, past MesonSendCommand ...
StopChunk ==
    /\ pc = "between"
    /\ \/ /\ Succeeds(Plain(12))
          /\ pc' = IF req.write THEN "dat0" ELSE "advance"
          /\ polls' = 0
          /\ UNCHANGED <<boot, host, bus, req, done, arg, reply>>
       \/ Fails(Plain(12)) /\ Return("error", "stop")

\* Seeded faults: the wait is skipped; its budget is not charged.
WaitDat0Skipped ==
    /\ pc = "dat0" /\ pc' = "advance"
    /\ UNCHANGED <<boot, host, bus, card, req, done, arg, polls, moved, reply, errors>>
WaitDat0Uncharged ==
    /\ pc = "dat0"
    /\ IF ~card.busy THEN pc' = "advance" ELSE UNCHANGED pc
    /\ UNCHANGED <<boot, host, bus, card, req, done, arg, polls, moved, reply, errors>>

\* ... and after a write, the card programs what it buffered.
WaitDat0 ==
    /\ pc = "dat0"
    /\ IF ~card.busy THEN pc' = "advance" /\ UNCHANGED polls
       ELSE polls < MaxPolls /\ polls' = polls + 1 /\ UNCHANGED pc
    /\ UNCHANGED <<boot, host, bus, card, req, done, arg, moved, reply, errors>>

Dat0Stuck ==
    /\ pc = "dat0" /\ card.busy /\ polls = MaxPolls
    /\ Return("error", "stop")
    /\ UNCHANGED <<card, moved, errors>>

Advance ==
    /\ pc = "advance"
    /\ done' = done + Chunk
    /\ arg' = arg + IF SectorAddressed THEN Chunk ELSE Chunk * BlockBytes
    /\ pc' = "chunk"
    /\ UNCHANGED <<boot, host, bus, card, req, polls, moved, reply, errors>>

\* MmcDxe ends every multiple-block transfer, failed ones too, with CMD12.
StopTransfer ==
    /\ pc = "stop" /\ Sends(12, 0, "ready", "off")
    /\ req' = NoRequest /\ done' = 0 /\ arg' = 0 /\ polls' = 0 /\ reply' = "none"
    /\ UNCHANGED <<boot, bus>>

\* MesonIsCardPresent lets MmcDxe notice another card in the slot.
ExchangeCard ==
    /\ it = "sd" /\ pc \in {"ready", "off"} /\ late = None
    /\ card' \in FreshCards
    /\ pc' = "off"
    /\ UNCHANGED <<boot, host, bus, work, errors>>

Transfer ==
    \/ BeginTransfer \/ MoveChunk \/ StopChunk \/ WaitDat0 \/ Dat0Stuck \/ Advance

Client ==
    \/ Identify \/ IdentifySd \/ IdentifyApp \/ IdentifyMmc \/ SetIos
    \/ AppPrefix \/ AppRegister \/ AppWidth \/ Switch \/ ExtCsd
    \/ ReadRegister \/ Request \/ StopTransfer

Next ==
    \/ InitBoardIo \/ InstallFirst \/ InstallSecond
    \/ Client \/ Transfer
    \/ LateAnswer \/ Programmed \/ ExchangeCard

\* The driver runs; cards and clients do as they like.
Spec == Init /\ [][Next]_vars /\ WF_vars(Transfer)

-----------------------------------------------------------------------------
(* Properties. *)

\* The types of the variables; an eMMC never gets the data lines that the SPI
\* NOR controller owns, and no bus runs faster than MmcDxe asked for, down to the
\* 381 kHz that the slower source and the largest divider reach.
TypeOK ==
    /\ stage \in {"io", "first", "second", "serve", "failed"}
    /\ held \in BOOLEAN /\ core \subseteq Hosts /\ installed \subseteq running
    /\ host.app \in BOOLEAN /\ host.known \in BOOLEAN /\ host.sector \in BOOLEAN
    /\ bus.divider \in 1 .. 63 /\ bus.source <= bus.asked * bus.divider
    /\ bus.width \in (IF it = "emmc" THEN {1, 4} ELSE {1, 4, 8})
    /\ card.open \in {"no", "read", "write"} /\ card.busy \in BOOLEAN
    /\ done \in 0 .. CardBlocks /\ polls \in 0 .. MaxPolls /\ faults \in 0 .. MaxFaults
    /\ reply \in {"none", "ok", "error"} /\ spoilt \subseteq {"busy", "phase"}

\* Block n of the buffer was exchanged with block lba + n of the card, all of
\* them and no other, when MesonTransferData reports success: through the split
\* into chunks, byte and sector arguments, commands the driver had given up on
\* before, and the cards a slot has seen.
BlocksLandInPlace ==
    (pc = "stop" /\ reply = "ok") =>
        moved = {<<i, req.lba + i>> : i \in 0 .. req.len - 1}

\* No data phase of a write starts while the card still programs the chunk
\* before it, and the card and the controller agree on which commands have a
\* data phase, although CMD6 and CMD51 change meaning behind CMD55 and a command
\* that the driver gave up on may end, or be answered, at the next one.
CardNeverAbused == spoilt = {}

\* Whatever the board booted from, a card whose host MmcDxe can see is out of
\* reset, so that its identification can succeed, and its controller runs.
InstalledCardsAnswer ==
    \A h \in installed : h \in running \cap core /\ (h = "emmc" => ~held)

\* A data call always returns, however the card behaves.
EveryTransferReturns == (pc = "begin") ~> (pc = "stop")
=============================================================================
