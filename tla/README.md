# A verification project for the Khadas VIM3 firmware

TLA+ models of the parts of this EDK2 firmware that keep a board alive: the SPI
NOR driver, the store of EFI variables over it, the update of the three copies
of the firmware, the SD/eMMC host, the I2C bus with the microcontroller and the
clock behind it, the USB host driver (transfers, device slots, memory, life
cycle), and the USB bring-up and enumeration loop of the boot; the TLC runs that
check them on small instances; and theorems about eight of them, proved for every
value of the constants.

Contents: [inventory](#1-inventory), [plan](#2-plan), [modules](#3-modules),
[runs and bounds](#4-runs), [proofs](#5-proofs),
[disagreements found](#6-disagreements-between-code-and-documentation),
[what is left out](#7-what-is-not-modelled).

All paths are relative to the repository's root. "The driver" is
`Silicon/Amlogic/MesonG12B/Drivers/MesonSpifcFvbDxe/MesonSpifcFvbDxe.c` in
sections about the NOR, `Platform/Khadas/Vim3/Drivers/Vim3FmpDxe/Vim3FmpDxe.c`
in sections about updates.

## 1. Inventory

The firmware is single-threaded: one CPU, no interrupts but a timer tick, and
task priority levels (TPL) that let a timer callback nest inside lower-priority
code. What makes it hard is not threads but hardware that fails, lies or is
still busy, power that goes at any instruction, and callbacks that nest.

| Component | State it keeps | Operations | Talks to |
|---|---|---|---|
| SPI NOR primitives (`MesonSpifcFvbDxe.c` 150-800) | none in RAM; chip select, the part's latch, busy and protection bits | program a span, erase a sector, read, unprotect, wait ready | the SPIFC registers; the part |
| Firmware volume block over the NOR (same file, 800-1477) | RAM shadow of a 768 KiB window, runtime flag | `FvbRead`, `FvbWrite`, `FvbEraseBlocks`, raw `NorRead/Program/Erase`, load and format at entry | NOR primitives below; variable and FTW drivers above |
| Firmware update (`Vim3FmpDxe.c`) | eMMC boot0 and boot1, NOR image, `Vim3FmpLastAttempt`, `SpiNorInstall` variables, MCU boot mode | `FmpSetImage`, `Vim3SpiNorInstallFromEmmc`, `FmpGetImageInfo` | SD/eMMC host, raw NOR protocol, MCU, variables |
| Boot manager (`PlatformBm.c`) | boot options, one-shot requests, USB enumeration counters | capsule hand-over, NOR install request, USB enumeration retries, recovery of boot options | FMP, xHCI, HII |
| SD/eMMC host (`MesonSdMmcDxe.c`) | per host: app-command flag, addressing mode, deferred data command, last response | send command, read, write, set clock and width | EmbeddedPkg's MmcDxe above, controller below |
| AO I2C bus (`Vim3AoI2cLib.c`) | the controller's token list and start bit | read and write registers of one slave | MCU library, clock |
| MCU library (`Vim3McuLib.c`) | probed, trusted (a copy in each consumer) | probe, read, whitelisted write | I2C |
| MCU setup driver (`Vim3McuDxe.c`) | fan policy, mirrored settings, HII page | setup callback, write with read-back, device tree patch | MCU library, variables |
| Real time clock (`Vim3RealTimeClockLib.c`) | epoch and counter anchors, chip present | get, set time | I2C |
| xHCI driver (`Vim3XhciDxe/`) | command, event and transfer rings, device slots, asynchronous transfers | synchronous and periodic transfers, slot set-up and tear-down, recovery of halted endpoints | PCI I/O, USB bus driver |
| USB PHY (`MesonUsbDxe.c`) | none after start | power, PHY and glue set-up, re-run by every controller reconnect | xHCI, boot manager |
| PCIe (`PciSegmentLib.c`, `PciHostBridgeLib.c`) | link state | configuration access, link training | MCU mux |
| Secure monitor (`Vim3MesonSmLib.c`) | shared-memory addresses, probed once | eFUSE, chip id, MAC | BL31 |
| Display (`MesonDisplayDxe`) | the chosen mode | EDID, mode choice, PLL, encoder, GOP | HDMI |
| Ethernet, GPU, audio, SMBIOS, platform drivers, early boot | none | one-shot set-up | registers, tables |
| Applications, scripts, patches, ACPI tables | - | diagnostics, maintenance over SSH, other projects' sources, data | - |

Hard behaviours, per component, and what "correct" means there:

* **NOR primitives.** The controller moves a bufferload at a time while chip
  select is held, and any bufferload may time out; the part may be busy, ignore
  a command, or finish it long after the call that sent it has failed. Correct:
  one command per page, split where the part's address counter would wrap; chip
  select never spans two commands; a call that reports success did what it
  says; every call returns.
* **Firmware volume.** The shadow serves every read, so it must equal the array
  wherever nobody has reported a failure. A format cut short must be repeated,
  never be taken for a finished store. Regions below, above and between the
  managed ones belong to others.
* **Update.** Three copies are rewritten in an order, each in chunks, each with
  a read-back; failures, retries and power cuts fall between any two steps, and
  the BootROM's choice depends on what is left. Correct: some copy the BootROM
  actually reaches is whole; success means the next boot runs the new image;
  the status tells which copy was reached; the MCU is re-pointed last.
* **xHCI.** Events of several owners arrive in one ring that is drained by
  whoever polls; a timed-out transfer races its own completion; a callback may
  free what the walker of the list holds. Correct: every completion is credited
  once to its owner, and none is lost; nothing the controller may still write
  to is freed. The driver learns of the tree of devices only from the port status
  UsbBus asks for, and any command on the way may fail: a slot per place, an
  address that leads to the device it was given to, a translator that follows
  the hubs.
* **xHCI life cycle.** Start and Stop are a dozen steps at TPL_APPLICATION that
  the monitor timer may interrupt and any of which may fail; Reset rebuilds the
  schedule under whatever is attached; every port call is a read-modify-write of
  a register whose bits the hardware sets in between. Correct: a controller that
  runs, and a timer that is armed, find memory that is theirs; what is built is
  given back once; a port loses a bit only to who asked for it.
* **SD/eMMC host.** Data commands are deferred; software and card time out at
  different moments; long transfers are split with a stop and a busy wait.
  Correct: block *n* of the request lands at block *n* of the card; the card and
  the controller agree on what has a data phase.
* **I2C, MCU, clock.** One controller, several users; the start bit, the status
  bit and the slave address are shared, and every consumer of the MCU has a trust
  of its own. Correct: what is reported as written went out to the chip it was
  meant for; the lane USB3 and PCIe share is never handed over with two
  owners; the clock goes on from the time it was given.
* **USB enumeration.** A loop that re-initialises the controller, and with it
  the PHY, until the tree looks complete, while UsbBusDxe enumerates from its
  timer. Correct: it ends, a tree it accepts lost no port it saw, and it does not
  tear down one that is whole.

`PROJECT.json` lists each hazard at its line with the properties that would
catch it.

## 2. Plan

Order: what can brick the board first, then what can lose data, then what can
hang the boot.

1. **NOR primitives** against an abstract contract (`NorContract` <- `SpifcNor`).
Done; the contract is proved. 2. **Firmware volume** over that contract, against
an abstract store (`FvbStore` <- `SpifcFvb`). Done; the store's theorems and the
refinement are proved. 3. **Update** of the three copies with the BootROM's choice
(`BootChain`, `FmpUpdate`). Done; all its safety properties are proved. 4. **xHCI
event delivery** (`XhciSched`): the event ring, the URB in hand, an asynchronous
URB, stop and recovery commands. Done; its safety properties are proved, but for
the two of section 6 that the code does not keep. Left: several asynchronous
requests with callbacks that change their list, and an abstract specification
(each completion reaches its owner once) for it to refine. 5. **xHCI slots**
(`XhciSlots`): enabling, addressing, configuring, disabling with children, address
mapping, retries. Done; all its properties are proved. 6. **SD/eMMC host**
(`SdMmcHost`): command state and chunked transfers, block *n* to block *n*. Done;
its invariants are proved. 7. **I2C, MCU, clock** (`McuClock`): a transaction
model and its users. Done; its properties are proved. 8. **xHCI memory and life
cycle** (`HcMem`, `XhciLife`). Done; the properties of both are proved. 9. **USB
bring-up and the enumeration loop** (`UsbLane`, `UsbBoot`). Done; its safety
properties are proved. 10. **Fault-tolerant-write reclaim** composed over
`FvbStore` (the external FTW driver as its user), to judge the format's treatment
of the spare area.

Small components share a run with what uses them, rather than each having one of
its own.

Bounds stay small enough for five minutes a run: two or three calls, one or two
faults, one power cut, rings of three or four entries.

## 3. Modules

| Module | Models | Extends / refines |
|---|---|---|
| `NorGeometry` | page and sector arithmetic, the part's address counter | - |
| `NorContract` | what one NOR operation promises the layer above | `NorGeometry` |
| `SpifcNor` | the primitives, a step per controller transfer | refines `NorContract` (`ImplementsContract`) |
| `FvbLayout` | the window's regions, cells as sets of 0-bits | - |
| `FvbStore` | the store promised to the variable driver | `FvbLayout` |
| `SpifcFvb` | the driver above its primitives | refines `FvbStore` (`ImplementsStore`) |
| `BootChain` | three copies and the BootROM's choice | - |
| `FmpUpdate` | the update and the install | `BootChain` |
| `XhciSched` | transfers, commands and the event ring of the USB host | - |
| `XhciSlots` | device slots, addresses and rings along the tree of USB devices | - |
| `HcMem` | the pool and the aligned buffers the USB host shares with its controller | - |
| `XhciLife` | Start, Stop, Reset, SetState, ExitBootServices and the port calls of the USB host | - |
| `SdMmcHost` | the two card controllers, their hosts and one card in a slot | - |
| `McuClock` | the I2C controller, the MCU library and its three users, the clock library | - |
| `UsbLane` | the lane that PCIe and USB3 share, and a bring-up of USB step by step | - |
| `UsbBoot` | the boot from the dispatch of the drivers to the end of the enumeration loop | `UsbLane` |
| `SpifcNor_proofs`, `SpifcFvb_proofs`, `FmpUpdate_proofs`, `XhciSched_proofs`, `XhciSlots_proofs`, `XhciLife_proofs` (also `HcMem`), `SdMmcHost_proofs` | theorems | the modules they name |
| `BoardLane_proofs` | theorems on the lane that PCIe and USB3 share: its bring-up and the MCU that decides it | `UsbBoot`, `McuClock` |
| `MC*` | instances for TLC | - |

`SpifcNor` has one action per transfer: `SpifcTransferEx`'s outcomes (done,
timed out before or after the part took the bytes), write enable with its
latch check, page program with chip select held over bufferloads, erase, the
ready poll with its budget, reads. The part (`FinishBusy`, `PartTakes`) is an
actor of its own: it executes, ignores or stays busy.

`SpifcFvb` takes a primitive as one step with the outcomes `NorContract`
allows: it happens, it happens partly, it fails and happens later (`late`).
Above it, entry (load, validate, format), and the FVB and raw calls run step by
step; `runtime` is `EfiAtRuntime`; a power cut drops RAM. `suspect` is a
history variable: cells a failed operation covered, on which the caller has
been warned.

`FmpUpdate` follows `FmpSetImage` (boot0, read-back, boot1, read-back,
hand-back, NOR, MCU flip, status variable) and `Vim3SpiNorInstallFromEmmc`
(select, read, validate, NOR, flip, delete the request). Its unit is the chunk:
64 KiB in the NOR as in the code, an arbitrary slice of the one long block
write on the eMMC. `PowerCut` tears at most the chunk in flight, and `Boot`
applies `BootChain!Chosen`: order by the MCU's boot mode, first copy whose BL2
validates, and no fall-through after that, which is what
`Vim3FmpDxe.c` 723-731 reports as measured. `before`, `promised` and
`handBackFailed` are history variables for the properties only.

`XhciSched` is the path of a completion. The controller is an actor: it retires
the TRB at the head of a running endpoint (`HcComplete`), fails it (`HcFail`: a
stall halts the endpoint, a buffer error does not), reports one caught half done
by Stop Endpoint, executes commands, dies; each of these posts one event, in
the next free entry of the ring. The driver is one thread (every entry point and
the monitor timer run at `XHC_TPL`, so restoring the TPL around a callback does
not let the timer in again), but the controller moves between any two of its
steps: the scan of `XhcSyncEventRing` (`CheckBegin`), each event
(`HandleEvent`), the write of ERDP (`CheckEnd`), and what `XhcExecTransfer` does
next (`PollAgain`, `TransferTimesOut`, ...). `phase` is the transfer or command
waited for, `at` the place in the code. Kept as in the code: an error event
leaves the loop with events unread; a Stopped event does not; a command that
timed out stays with the controller, which may execute it in a later call; a
URB with an error is not queued again. Left out: which slot and endpoint (one
endpoint per URB), cycle bits and link TRBs of transfer rings, byte counts below
a TRB, a failed allocation in the monitor (the same state change without the
callback). `moved`, `retired` and `excused` are history variables.
`ASSERT (FALSE)` of `XhcSyncEventRing` is not reached: a controller keeps one
entry of its ring free.

`XhciSlots` is `UsbDevContext`. A device is named by its place, the ports that
lead to it; `Route` is the chart the driver forms of it, a nibble per tier,
with the root port counted from 1. Three parties act: devices and ports
(`Attach`, `Detach`, `PortError`), UsbBus, which enumerates one port at a time
(`Bus...`, external), and the driver, whose steps end at a command the
controller carries out, refuses, or carries out too late to be seen
(`Answers`). `XhcPollPortStatusChange` is `call`: the old slot goes
(`DisableOld`, with everything behind it), then rounds of `EnableSlot`,
`AddressDevice` and, on failure, `UndoSlot`. The driver's part in the control
transfers of UsbBus is `SetAddress` (the address it looks up is 0, and a stale
one is wiped from entries not in use), `GetDeviceDescriptor`, `SetConfig` and
`ConfigHub`; the class driver's are `SetInterface`, `Subscribe` and
`Unsubscribe`. An endpoint's ring is present or not, and for the controller
running, freed or none. The 64-byte-context twins (`...64`) do the same to the
same state and are the same actions. A disabled entry keeps its address, as the
code's comment asks. A class driver whose Set_Interface failed half-way is
taken to start no transfer; a device that could not be configured keeps its
address in UsbBus until it is removed; after a reset by the class driver UsbBus
keeps the descriptors it has, so that `SetConfig` meets a slot without any.
`hubs` is what UsbBus took for configured hubs: it polls ports only behind those,
and class drivers neither reset a hub nor choose an interface of one. What hangs
below a slot is `Subtree`, the least set that holds the slot and is closed under
children, as the recursion of `XhcDisableSlotCmd` collects it.
`stuck` and `botched` are history variables. Left out: super-speed devices,
`XhcReset` with slots in use, `DriverBindingStop`, the reset bit that root
ports mask, and the contents of contexts but the speed, the translator and the
hub bit. Ports from 14 on share a nibble; `PlaceAssumption` keeps them apart by
leaving 15 out.

`HcMem` counts in units of 64 bytes and keeps each block's bitmap as the set of
units in use. `Search` is the walk of `UsbHcAllocMemFromBlock`, in the code's order: a
ring's run restarts at a 64 KB line, any other at the unit in use, and
`SearchFindsRoom` compares it with its definition by quantifiers.
`AllocateAlignedPages` trims in front and behind before it maps. PciIo
(`Places`, `DevicePage`) picks any free run, so that the model never relies on
where it lies; the bus address is that of the host moved by a page, not the
identity. A mapping that covers less than was asked for is left out (see
section 6).

`XhciLife` names memory by schedule: what `XhcInitSched` builds is schedule *n*,
and a register, a context, a URB or an exit event remembers the one it points
into. Each step of Start and Stop between which the timer may fire is an action;
the protocol's calls run at the timer's level and only the hardware moves
inside them, between the read of PORTSC and its write. `Outcome` is a wait that
may time out although the hardware gets there later. A failed Start unwinds as
the code does, in its order, including the path that forgets the running
controller (`FailLate`). An instance goes by the number of the schedule it is
about to build, and `exit` is the set of instances that ExitBootServices events
name: Stop closes that of the instance in hand, a Start that fails to install the
protocol frees the instance and leaves its event (`orphans`), which may be
signalled later (`ExitOverFreed`: what the callback finds in freed memory is
anything, so it does some of its work or none). "shut" is where a failed
`XhcCreateUsbHc` leaves the binding: PciIo open, and no Start accepted again.
`broke`, `misfreed` and `orphans` are history variables. The table of component
names is left out.

`SdMmcHost` brings the two controllers up in the order the boot origin asks
for and then lets MmcDxe identify a card and ask for transfers (`Identify...`,
`SetIos`, `AppWidth`, ..., external in their order but not in what the driver does
with them). A command with data is deferred to the data call, and `HasData` tells
it as the driver does, by index and by a CMD55 before it. `BeginTransfer`,
`MoveChunk`, `StopChunk`, `WaitDat0`, `Advance` are the loop of
`MesonTransferData`. A command the software gave up on is `late`: the controller may
still run it, the card may act on it (`LateAnswer`), or its end may be taken for
that of the next command. `moved` and `spoilt` are
history variables. Left out: clock values beyond source and divider, tuning
(the code does none), the bounce buffer's contents (block numbers stand for
them).

`McuClock` follows one call from its token list (`LoadList`) through the start bit,
which the controller takes on its rising edge and, until `Recognise`, answers with
"idle", to the data. A call is a list of jobs: probe, fan policy, mirror of the
settings, mux, boot mode, anchor, time set. `probed`
and `trusted` exist once per linked copy of the library. The clock chip counts
while not stopped; a block write lands byte by byte and may fail between two,
which leaves the chip on a mixture. Left out: the infrared codes, the temperature,
a chip whose date is invalid, the setup page, and the refusal of a board whose
BOOT_EN_RTC is above 2 (the model trusts it: more behaviours, not fewer).

`UsbLane` is `MesonUsbInitialize` and the part of the host bridge that decides the
lane: each function of the code is a step, and the control-register bus of the PHY
(`Raise`, `AckSeen`, `AckGone`, `HandshakeTimesOut` against `PhyAcks`,
`PhyReleases`, `PhySteps`) is modelled handshake by handshake, because an
acknowledge that comes too late is what a test would not produce. Anything may
fail or stay away any number of times: `Fault` counts up to `MaxFaults` and then
stays there, so that `MaxFaults` is the number of faults told apart and no bound
on behaviour. `good` is the set of settings in force, so that "configured" is
judged against what the kernel's glue would have written. The PHY's reset is taken
to clear the bus with its registers (external). `UsbBoot` adds dispatch order,
BDS, UsbBusDxe (which enumerates a device whose change bit it finds) and the loop
of `PlatformBootManagerAfterConsole`: devices are counted first, then root ports,
then the ports of each hub; reading a port's status clears its change bit, so a
count can take the event from UsbBusDxe, and the model lets it. After a
re-initialisation that fails no handle has the host protocol, as in the code, and
the remaining attempts only wait. Devices are plugged in before power-on;
unplugging is left out.

Each module also defines seeded faults (operators marked so in their
comments): the mutants of `PROJECT.json`, each of which makes the property it
is paired with fail.

## 4. Runs

| Run | Question | Bounds |
|---|---|---|
| `nor_calls` | do the primitives keep their contract, whatever times out? | a part of two 3-byte sectors, page 3, bufferloads of 2, 2 polls, 2 timeouts, 1- and 4-byte buffers at every address |
| `fvb_calls` | shadow, replies and foreign cells over calls, failures, a cut, on a part that may report success and do nothing once the store is formatted | 4 blocks of 2 cells (variable, working, unmanaged, spare), 3 calls, 1 cut |
| `fmp_capsule` | is an SPI-first board safe and truthful through two capsules? | 2 chunks, 3 images, 2 calls, 2 faults, 1 cut |
| `fmp_opt_in` | does opting in move the BootROM only over a proven NOR, and end? | as above, eMMC-first, worn chunks, lying erases |
| `fmp_emmc_first` | does an eMMC-first board survive a cut in boot0? (violated) | 1 cut, no fault |
| `xhci_transfers` | does each completion reach its owner once, is each reply true, does a freed URB stay with the controller? | event ring of 3, control transfers of 3 TRBs, one asynchronous URB, stalls and buffer errors, a call starts with at most one TRB or command left over |
| `xhci_slots` | do slots, addresses, rings and translators keep up with the tree, whatever comes, goes and fails? | two root ports, a high speed hub, behind it a full speed hub, behind that a low speed device; 3 slots, 4 addresses, 4 upsets, 1 retry instead of 8 |
| `xhci_memory` | is memory handed out once, given back whole, and found when there is some? | 7 pages of 2 units, a line every 4 units, pieces of 1, 3 and 5, 3 in use, one aligned buffer, 1 failure |
| `xhci_life` | do controller and timer only ever run over memory that is theirs, and ports change only as asked? | 2 slots, 1 port, 2 change bits, 3 schedules; failures unbounded |
| `sdmmc_host` | does every block land in its place, and is the card spoken to in turn? | cards of 5 blocks, chunks of 2, every origin, a card exchanged for one of the other addressing, 1 lost or late answer |
| `mcu_clock` | is what is reported what was on the wire, has the lane never two owners, does the clock go on? | 5 registers of 2 values, three consumers, a time at the end of a minute, 1 tick, 1 failed transaction |
| `usb_boot` | does the loop end, with a tree that is whole when it is called so, over a PHY and hubs that fail? | a disk behind a hub, a stick behind a SuperSpeed hub that refuses its descriptor, 2 PHY registers, 4 attempts; any number of faults, up to 2 told apart |

Every property that has the form of a conjunction (`BoardKeepsBooting`,
`CompletionsTrue`, `RingsOwned`, ...) names parts that are stated and commented one
by one above it.

Why these bounds are enough: the smallest part with two pages and two sectors has
every crossing (inside a page, over a page, over a sector, wrap); four blocks are
the fewest with a managed block on each side of an unmanaged one; two chunks
separate BL2 from the rest, which is all the BootROM distinguishes; two calls let
a failed one be followed by its retry; two faults let a failure hit while another
is handled. An event ring of three wraps inside one transfer and is full with two
events unread; one TRB or command left over is enough for a late answer to meet
the next call. `MaxLeft` bounds no action of the controller: it only keeps callers
from starting another call. Three tiers are the fewest in which a translator is
inherited through a hub that is not one itself; three slots for four places let a
slot be given again and let the controller run out; an upset is a device attached,
detached or reset, a port in error, or a command that fails for no reason of the
tree, and four allow a device behind a hub to appear and its removal, or its
set-up, to fail. The rounds of the retry loop are alike, so one retry shows what
eight do. Three schedules are a start, a reset over what is attached and a second
start. Five blocks in chunks of two leave a short last chunk; a third chunk exists
so that a middle one has both neighbours. In `usb_boot` nothing bounds the faults
of a boot, so the limit on attempts is reached with a controller alive and a tree
that was never accepted. Four attempts instead of twelve: each pass begins with
nothing but the tree, `PrevDevices` and `MaxPorts` behind it, and four hold a pass
that sees growth, one that sees a tree stuck and re-initialises, and two over the
new tree. A fault costs at most three attempts, so `FaultsAreAbsorbed` says
something of boots without a fault and with one; `FaultsAbsorbed` (section 5) says
it of any number of attempts and faults. Counters are capped by `Max...` constants
named in the modules.

Fairness. Liveness is asked four times: `EveryCallReturns` (NOR),
`EveryCallEnds` (update), `EveryTransferReturns` (SD/eMMC) and `EveryBootReachesMenu`
(USB). All four assume weak fairness of the step the program takes next, and nothing of
the part, the card, the PHY, the ports, the devices, the bus driver's timer or
the power: the firmware is one sequential program that polls, so once it is in a
call it takes the next step. A PHY that never acknowledges, a port or a hub that
never settles and a controller that never starts are behaviours of `usb_boot`;
only the time-outs and the limit on attempts end them.

`XhciSched` states no liveness: a transfer whose caller passes a time-out of 0
polls for ever when the device does not answer.

Deadlock. `CHECK_DEADLOCK FALSE` is given where the bounds run out (no calls,
faults or cuts left) or where the system really stops: a board that no copy
boots stays in the BootROM's USB loop, an assertion that fails in the xHCI
driver stops the machine, a tree of devices in which nothing changes any more
has nothing to enumerate, and a controller that could not be created, or that
belongs to the operating system, is not used again. `usb_boot` and `xhci_memory`
are checked for deadlock.

## 5. Proofs

What is proved holds for every geometry, tree of devices and size of ring, and
for every number of calls, faults, attempts and power cuts (the bounds are
constants in `Nat`). Hypotheses beyond the modules' assumptions on their
constants stand in the theorems' statements and are explained here.

`SpifcNor_proofs` (any part, page, bufferload and buffer size):

* `TypeCorrect`: `[]TypeOK`; `CallKept` ties the call in hand to the program counter.
* `FramedCommands`: that chip select frames one command is inductive with
  `CallKept`; that a page gets one command also needs `PagesSent`: the commands sent
  so far went to rising pages before the place the call has got to.
* `ContractKept`: the refinement `ImplementsContract`. `Keeping` adds `Outstanding`
  (a running command that no earlier call left behind is a page or the sector
  of the call in hand, which is waiting for it) and, for a call that found the
  part idle, what has landed so far (`ProgramLands`, `EraseLands`, `ReadTrue`). The
  mapping shows the contract a running command only once the call that sent it
  is over; without `Outstanding` a success could be reported over somebody else's
  command.

`SpifcFvb_proofs` (constants: `LayoutAssumption`, `RequestAssumption`, `PageSize`
within a block):

* `TypeCorrect`: `[]TypeOK`. Types alone are not inductive: that a span stays in
  its block needs what the request was checked against. `ReachInv` adds
  `SpanOK` (a served operation's span and block list lie where the checks of
  the call put them) and `LateOK` (what a failed command may still do stays
  in managed cells or below the window, and never overlaps a verify).
* `ForeignCells`: with `ReachInv`, no step changes a cell of the window outside
  the managed regions, nor board data, nor after ExitBootServices anything
  below the window but what was already in the part.
* `Coherence` (`"format" \notin SilentPhases`: the part does what it reports while
  the store is formatted, because the format does not read back; it may lie in
  service): `CoherentInv` says that wherever shadow and
  array differ a failed operation covers the cell or the one in hand does.
* `HonestReply`: `PrefixInv` says that during a verify the cells already
  compared hold the data in both array and shadow; the count returned is that
  prefix, on lying parts as well.
* `StoreKept` (same hypothesis as `Coherence`): the refinement `ImplementsStore`. The
  store a reader is promised is the shadow once the driver is ready and the
  array before; `Formatting` adds to `CoherentInv` that the header stays invalid
  from the beginning of a format until everything managed is blank, also under a
  command the format leaves behind, so that a store taken over at the next
  boot is one that was wholly formatted.

`FmpUpdate_proofs`:

* `TypeCorrect`; needs `ReadsBoot0` (the install reads the partition it selected).
* `FlipVerified` and `RequestConsumed`: `UpdateInv` adds `Progress`: the chunks
  behind the one being written equal the image, chunk 0 last, and at the flip
  all do.
* `NorWhole` (`~SilentErase`, no request "now"): `Whole` ties the phase to what
  chunk 0 holds: erased before any other chunk is touched, and programmed only
  when all the others are verified; a power cut can only tear the chunk in
  flight. Both hypotheses are needed: section 6 has an
  instance that violates the formula without the second.
* `HonestUpdate` (no request "now": an install keeps its status in a variable of
  its own, and copies boot0 as it finds it, between a capsule and the boot that
  was promised): `HonestInv` adds where the call is in its order of copies
  (`Stage`: which of them still hold what they held before, which the image), when
  a call that does not write the NOR may promise the next boot (`NorNotChosen`),
  and what a promise lasts until (`Promised`). Lying parts are allowed: every
  status rests on a read-back.
* `BoardBoots` (`~SilentErase`, no request "now", and the firmware that runs is
  this one and no foreign image): `BootInv`
  adds `Primary`: on a board that booted a whole NOR there is at every moment
  either a NOR that validates or a whole boot0 behind it, and `OneGoodRescue`.
  An erase that lies leaves a NOR that validates and does not boot, which is why
  the hypothesis is needed.

`XhciSched_proofs` (an event ring of any size above one, any of the kinds of
transfer and of errors, any number of left-over TRBs):

* `TypeCorrect`: `TypeOK` is inductive as it stands.
* `RingOrder`: the order of ERDP, dequeue pointer, end of scan and write pointer
  is not inductive, because how far a scan goes depends on the cycle bits in
  memory. `RingInv` adds `Written` (the bits before the write pointer are of
  this lap, the others of the last) and tells two states apart: `InStep`, where
  the consumer's bit is the one of its scan's end, and `Wedged`, where a round
  cut short by an error has left the bit flipped and the scan stays where it
  is. In the second the driver hears nothing more, but nothing is lost from the
  ring either.
* `CompletionsKept` and `FreedOffRing` share one invariant, `SchedInv`, because what
  a URB may be told depends on what the endpoint still holds of it, and the other
  way round. Where the call is says which URBs exist (`Calling`, `Replying`). Each
  TRB is followed from the transfer ring, which holds the last ones of its URB in
  order (`Queued`), to its event (`Posted`, one at most and before those of the TRBs
  behind it: `InTurn`; a stall last: `Stalled`), and into the URB (`Results`;
  nothing follows the last TRB's event: `Ended`). `Counted` and `Conserved` count them.
  The command in hand is on its ring or on the event ring, not both
  (`Commanded`), and once carried out it has quieted the endpoint (`Quieted`): the
  last words of a stopped endpoint come before the Stop command's own
  completion, which is why nothing is lost when `XhcStopEndpoint` stops watching.
  `FreedOffRing` needs in addition what holds only while no command has failed:
  the rings hold nothing of freed URBs (`NothingLeft`), an endpoint is stopped for
  the call that asked (`StopsHeard`), a stalled one stays halted until its recovery
  (`StallsKept`), and a transfer ends off its ring or about to be recovered
  (`Failing`).

`XhciSlots_proofs` (any tree of places up to six tiers, any number of slots,
retries and upsets):

* `TypeCorrect` and `PlacesUnique` rest on `Core`: an entry in use stands for one
  place and no other entry does (`Placed`, `OneSlotPerPlace`), its hub has a slot
  that the controller knows (`Rooted`), a device that answers does so at the slot
  that stands for its place (`Answering`), and the poll in hand knows the same
  place as UsbBus (`Calls`). `Rooted` is why `XhcDisableSlotCmd` must take the
  children with it: `Subtree` is closed under them, so nothing is left below a
  slot that goes.
* `SlotsInStep`: `Held` says that behind every entry in use there is a device or a
  change UsbBus has not seen, except while the poll that saw it is taking the
  entry away.
* `TranslatorsRight`: the code takes a translator from the parent's slot context
  alone. `Attached` and `Silent` say that nothing answers behind a device that went
  or is being polled; so a hub that answers has kept its slot since its children
  were set up, and `Translated` (the translator by the parent) unfolds along the
  path to the nearest high speed hub above.
* `AddressesTranslated` and `RingsKept`: `AddrInv`, which speaks of the time before a
  slot could not be disabled (`~botched`), joins the three tables that hold an
  address: `Numbered` (UsbBus and the entries in use agree, and the only entry
  without an address is the one that waits for it), `Pending` and `Standing` (what
  is configured hangs from configured hubs, and nothing is behind a place under
  enumeration), `Listed` (each transfer in the list is a configured device's,
  through its own slot, and UsbBus cancels those of what it removes).
  After a failed disable `DevicesFound` and the timer's part of `RingsOwned` are
  false, see section 6. `RingInv`, for the rings the controller walks, holds
  whatever fails.

`XhciLife_proofs` (any number of slots, ports, change bits and schedules):

* `OwnMemory`, `MonitorSafe`, `GivenBack`: `LifeInv` adds to the types `Owned`
  (memory follows the step: it is allocated exactly while the instance has a
  schedule, the registers point at it before the controller runs, the timer goes
  before it does), `EventsNamed` (the exit events name the instance in memory,
  from the step that creates the event to Stop, and instances freed by a failed
  install; no later instance has the name of an earlier one), `SlotsOwned` (a slot
  context belongs to the schedule in use, unless the controller was reset over it)
  and `CallHeld`. The exceptions are those named in the properties, each a failure
  the driver ignores.
* `PortWritesExact`: an action property from `CallHeld`.
* `RoomIsFound` (`HcMem`; any block length, marks, boundary and size): `Scanned` is
  what the walk of `UsbHcAllocMemFromBlock` knows before it looks at a unit: the run
  in hand is free and in one window, ends at that unit, and no run that starts
  before it would do, because it would lie over a marked unit or over the
  boundary the walk restarted at. `LookScans` carries it over one unit, and
  `SearchFinds` over the block, by the least number for which it would fail.
* `PoolIsSound` (`HcMem`): `MemInv` speaks of the set of blocks, not of the list.
  `PagesKept`: blocks and buffers lie on pages of their own and these are the
  pages held. `PiecesKept`: a piece is made of marked units of one block, two
  pieces are apart, every mark belongs to a piece, a ring is in one window.
  Both are shown for one operation on sets at a time (a block taken, marked,
  cleared, released, a buffer taken or given back), and the list operations are
  shown to be those (`Inserted`, `Replaced`, `Unlinked`). That `MemInv` keeps blocks
  apart on both sides of the bridge is why an address has one holder, by which
  it comes back as it went.

`SdMmcHost_proofs` (any card, block and chunk size):

* `BlocksInPlace`, `CardNotAbused`, `CardsAnswer`: `HostInv` joins what the driver
  believes of the card to the card (`Known`: how it is addressed, whether it
  expects an application command; `Registered`), says that a command is left
  behind only where the next one sent is a reset or a stop (`Settled`), and where
  in the card and in the buffer a transfer has got to (`Placed`). `CardNeverAbused`
  is part of the induction: one block taken by a card that is programming would
  spoil what follows.
* `TypeCorrect` (MmcDxe asks for no clock below the 400 kHz of identification, the
  divider has six bits): no bus runs faster than asked for.

`BoardLane_proofs` (any finite tree of devices, any list of PHY registers; for the
MCU any values and times, any number of failed transactions):

* `LinkSurvives`: `Linked` follows the mux through the two copies of the library
  that cache it.
* `ReadyConfigured`: `Tune` says how far the tuning is and what each half of a
  handshake has left in the PHY's bus (`TunedSoFar`, `Handshake`, `Halfway`), because
  a late acknowledge may leave a strobe raised; `SetUp` and `TunedTruly` say which
  settings are in force at which step.
* `AcceptedWhole`, `WholeTree`: the counts of the loop are taken one after the
  other while the tree grows; `TreeInv` says what each still means
  when the loop decides (`Counting`: the devices counted are enumerated and among
  those the ports showed) and after (`Accepting`).
* `FaultsAbsorbed` (the tree has a device at a root port that needs no SuperSpeed:
  a bus without a device is never complete, and the loop would wait for one to the
  last attempt, fault or no fault): the passes used, with those still owed, never
  exceed three for each fault. `Owed` is 0 when the pass at hand or the next one
  will be accepted (`Sound`), 1 when the tree has stopped growing and the loop has
  seen that (`Seen`), 2 when it has stopped and the loop has not (`Calm`), else 3;
  a step without a fault never raises passes and debt together, and a fault adds
  three to what is allowed (`FewFaults`: as long as the count of faults has not
  reached the number told apart; it never falls, `FaultsOnlyGrow`). `Within` says
  that nothing beyond the devices whose hubs answer is ever counted, `Ending` that
  a controller once started is kept. That the attempts outnumber three for each
  fault is a hypothesis of the property itself: boots with more faults may end at
  the limit, with no tree accepted.
* `TypeCorrect`.
* `BusIsHonest` (`McuClock`): the token list still to run is the end of the plan of
  the call (`Planned`), the controller, once idle again, holds the list of the run
  in hand and has carried it out or not (`Wire`), which is what the clearing of
  the start bit and the wait for its rising edge are for; a failed run is
  counted (`Counted`). A read gets the register its first run pointed at
  (`Pointed`, `Fetched`), so trust follows the identity register and a write
  follows trust (`Earned`).
* `LaneIsOwnedOnce`: each reader of the mux has its turn (`InTurn`), while no
  transaction has failed each of them saw the board as it is (`Agreed`), and the
  tree follows the reader that patches it, the PHY disabled before the port is
  enabled (`Patched`). The converse, that a tree left to USB3 means firmware that
  chose USB3, is not a theorem: `PatchPublishedDtb` may fail after both read PCIe,
  with nothing lost on the bus, and the boot goes on (section 6).
* `ClockIsKept`: the chip is halted before the first byte of the time and holds
  what was written so far (`Halting`); the release is a run of its own, after which
  it shows the time, or the second that has begun since (`Releasing`).

Every safety invariant and action property of the passing runs is proved, some
under the hypotheses named above; the type invariants of the modules with proofs
are proved and not run. Out of the prover's reach and left to TLC: liveness under
fairness and `ENABLED` (`EveryCallReturns`, `EveryCallEnds`,
`EveryTransferReturns`, `EveryBootReachesMenu`).

The library's induction theorems take an operator, which no prover here can
instantiate. Where a proof needs induction over numbers (the search of a block)
it is made over a set of numbers, from the least one outside it (`FromZeroOn`). No
module uses a recursive operator.

## 6. Disagreements between code and documentation

`fmp_emmc_first` is a run that TLC violates (see "findings" in `PROJECT.json` for
the quoted lines). The others below are stated in their modules and violated in
the instances given; they are kept out of the runs to leave room for the
questions of section 4.

* `SpifcNor!NoCommandIntoBusyPart` (INVARIANT, constants of `MCSpifcNor.cfg`):
  `NorEraseSector` returns at once when the transfer of its command times out
  (`MesonSpifcFvbDxe.c` 652), although the part may be erasing; the next call's
  command goes out to a busy part. The program path waits for exactly this
  reason (581: "Wait it out so the caller's next command is not issued into a
  busy part").
* `SpifcFvb!RecoverableStoreSurvives` (PROPERTY; `MCSpifcFvb.cfg` with `RuntimeBase = 2`,
  `Contents <- MCFormatted`, `MaxRequests = 2`, `SilentPhases = {}`): a format erases
  the working and spare areas too (1206), without looking for a fault-tolerant
  write that had saved the first block there when power failed. 1176: "A
  formatter regression must never erase a recoverable store."
* `FmpUpdate!NorNeverHalfWritten` (INVARIANT; `MCFmpUpdate.cfg` with
  `Requests = {"now"}`, `MaxFaults = 0`): the install copies a half written boot0
  over the good NOR, because `ValidateImage` looks at pointer and size only
  (`Vim3FmpDxe.c` 924; `Vim3SpiNorInstall.h` 33: "refuses anything without the FIP
  table signature").
* `XhciSched!RecoveryFollowsDeviceError` (INVARIANT) and `XhciSched!SyncFindsAllEvents`
  (PROPERTY; both: `MCXhciSched.cfg` with `TransferKinds = {"bulk"}`,
  `TransferErrors = {"stall"}`, `MaxLeft = 0`): a transfer that timed out may stall
  before Stop Endpoint arrives, and `ASSERT (Status == EFI_DEVICE_ERROR)` (`Xhci.c`
  833) fails; a scan that wrapped before an error ended the reading flips the
  consumer's bit too early (`XhciSched.c` 2024), and the next scan stops at an
  unread event (1144: "Traverse the event ring to find out all new events").
* `McuClock!FirmwareAndOsAgree` (INVARIANT, constants of `MCMcuClock.cfg`): one failed
  read of the mux, and the firmware drives USB3 while the device tree it hands
  over says PCIe (`Vim3PcieMuxLib.c` 14-15: "firmware and OS always agree on the
  mode").
* `UsbBoot!CompleteMeansEnumerated` (INVARIANT, constants of `MCUsbBoot.cfg`): a hub
  that refuses the hub descriptor has its devices counted and its ports not
  (`PlatformBm.c` 1282-1318), so that a device behind it makes up for one that is
  missing elsewhere; the comment over the loop says that every connected port has
  an enumerated device.

Met while modelling, without a definition of their own:

* update and NOR: the format does not read its erases back
  (`MesonSpifcFvbDxe.c` 1215); the install leaves the card on boot0 if the switch
  to it reports an error after taking effect (`Vim3FmpDxe.c` 897); every capsule
  rewrites boot0 first, even when boot0 is the only whole partition (1144); the
  erase that makes the NOR unbootable is trusted by its status (736);
* xHCI transfers and slots: a transfer that ends in a buffer error is freed
  without being taken off the ring (`Xhci.c` 832, the excuse in
  `FreedUrbsOffTheRing`); an asynchronous endpoint that stalls is never reset;
  a transfer that timed out can return `EFI_TIMEOUT` with the result "no error",
  because `XhcStopEndpoint` clears it; a slot that could not be disabled keeps
  its address in an entry still enabled (`XhciSched.c` 1931), so that two slots
  in use may come to have one address, and the loss of one device then leaves
  the freed ring of its own transfer to the monitor (1661); the next device may
  also be given the address of a slot left without, and the transfers made
  through it outlive the entry: both are the exceptions (`~botched`) of
  `AddressFindsDevice`, `MonitorSafe` and `CancelFindsTransfer`, and TLC shows them
  with two root ports and seven upsets, or three and eight;
* xHCI life cycle: a Start that fails at its last steps (`Xhci.c` 2132, 2162)
  frees the schedule of a running controller (an exception of
  `RunsOverOwnMemory`), and one that fails to install the protocol (2160-2171)
  leaves an exit event whose context is freed (the exception in
  `MonitorSeesLiveMemory` and `GivenBackOnce`); when `XhcCreateUsbHc` fails (2055)
  PciIo stays open and the controller cannot be started again (the exception in
  `GivenBackOnce`); the table of component names is not freed when Start fails; the
  results of the halts in Stop and at exit are ignored; a Reset over configured
  devices leaves their contexts in the freed pool (the exception of
  `MonitorSeesLiveMemory`); a feature call made while a port is in reset writes the
  reset bit again (534, 659); a failed Start keeps the BIOS-owned semaphore; an
  unplug between the read of a port's status and the clearing of its change bit
  loses the event (472);
* memory: a Map that covers less than was asked for frees the buffer without
  Unmap (`UsbHcMem.c` 85, 739);
* lane: every module that links `Vim3PcieMuxLib` has its own cached answer, so one
  failed read in MesonUsbDxe takes the PHY from a trained PCIe link (the
  exception of `TrainedLinkSurvives`); a patch of the device tree that fails
  (`Vim3McuDxe.c` 245-331) leaves the OS a tree for USB3 under firmware that gave
  the lane to PCIe;
* enumeration: after a re-initialisation that fails, no handle has the host
  protocol and every later attempt only waits (`PlatformBm.c` 1515, the condition
  `hostLost`);
* boot options: `UnableToBoot` resets "so the new boot options will be taken into
  account", and `PlatformBootManagerAfterConsole` (1582) refreshes the options
  unconditionally, which drops those whose device is not connected yet.

## 7. What is not modelled

Formats (capsule header, FIP table, variable header bytes, device paths), clock
and register programming with no state of its own (display, Ethernet, GPU,
audio), the code of EDK2 outside this repository (MmcDxe, the variable and FTW
drivers, UsbBusDxe, BDS: modelled, where needed, by what they ask of this code),
ACPI and device-tree data, shell scripts, and patches to other projects. The
secure monitor library is a table of calls with range checks; PCI configuration
access has a single user, inside a TPL_HIGH_LEVEL section, and keeps no state but
the bus its window is turned to; boot options, discovery policy and the setup
pages are lists whose order decides nothing that is checked here.
Nesting of a timer callback inside a raw NOR command is listed as a hazard and
not modelled: the models serve one call at a time. Several asynchronous requests
with callbacks that change their list are not modelled either: `XhciSched` has
one.
