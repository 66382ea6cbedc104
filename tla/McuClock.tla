------------------------------- MODULE McuClock -------------------------------
(***************************************************************************)
(* The AO I2C bus and its users: Vim3AoI2cLib runs one token list at a     *)
(* time on a controller that starts on an edge and reports idle until it   *)
(* has started; Vim3McuLib trusts the board's microcontroller per          *)
(* consumer; Vim3McuDxe, Vim3FmpDxe and Vim3PcieMuxLib consume it; and     *)
(* Vim3RealTimeClockLib keeps a software clock anchored on the chip.       *)
(***************************************************************************)
EXTENDS Naturals, Sequences

CONSTANTS
    Values,        \* values of an MCU register
    NewTimes,      \* times LibSetTime is given
    MaxTicks,      \* bound: seconds that pass
    MaxLost        \* bound: transactions that fail

ASSUME ParameterAssumption == MaxTicks \in Nat /\ MaxLost \in Nat /\ 0 \in Values
                       /\ NewTimes \subseteq ({0, 1} \X {0, 1})

\* Who links Vim3McuLib, and so has a probe state of its own.
Consumers == {"mcudxe", "fmp", "mux"}

\* Registers of the MCU: its identity, the lane mux (and with it every setting
\* that is written and read back), the fan, the boot mode, and one that no
\* consumer may write (power-off, password, factory).
Registers == {"device", "mux", "fan", "bootmode", "secret"}
McuRegisterWritable == {"mux", "fan", "bootmode"}

VARIABLES
    mcu,           \* the registers of the MCU
    chip,          \* the clock chip: [hi, lo, stop, vl]
    point,         \* register pointer of each slave
    regs,          \* slave address and token list in the controller
    start,         \* I2C_CTRL_START
    armed,         \* the controller has seen START rise, not yet reacted
    active,        \* I2C_CTRL_STATUS: a token list is on the wire
    half,          \* the first byte of a block write has landed
    ran,           \* what the controller put on the wire last, and its fate
    data,          \* I2C_TOKEN_RDATA
    pc,            \* step of I2cRun, or "idle"
    todo,          \* token lists the current call still has to run
    call,          \* the call: [kind, who, reg, val]
    failed,        \* a run of the call has failed, on the way to its end
    probed,        \* mProbed, per consumer
    trusted,       \* mTrusted, per consumer
    present,       \* mRtcPresent
    soft,          \* the software clock: anchored value plus elapsed seconds
    modes,         \* the lane mux as each of its readers resolved it
    step,          \* Vim3McuDxeEntryPoint: what it does next
    dtb,           \* the published device tree: [usb3, pcie]
    reply,         \* what the last call returned
    ticked, ticks, \* the second has turned during this call; seconds so far
    lost           \* transactions that failed

chips   == <<mcu, chip, point>>
wires   == <<regs, start, armed, active, half, ran, data>>
memory  == <<probed, trusted, present, soft, modes, step, dtb>>
time    == <<ticked, ticks>>
mcuVars == <<chips, wires, pc, todo, call, failed, memory, reply, time, lost>>

Point(slave, reg)      == [slave |-> slave, do |-> "point", reg |-> reg, val |-> 0]
Fetch(slave)           == [slave |-> slave, do |-> "fetch", reg |-> "", val |-> 0]
Put(slave, reg, val)   == [slave |-> slave, do |-> "put", reg |-> reg, val |-> val]
Nothing                == Point("none", "")
\* Vim3AoI2cRead: point at the register without STOP, then fetch.
Read(slave, reg)       == <<Point(slave, reg), Fetch(slave)>>

NoCall == [kind |-> "none", who |-> "none", reg |-> "", val |-> 0]
Time(c) == <<c.hi, c.lo>>
Base    == 2
Number(t) == t[1] * Base + t[2]
Later(t, n) == <<((Number(t) + n) \div Base) % Base, (Number(t) + n) % Base>>
BuildEpoch == <<0, 0>>

McuInit ==
    /\ mcu \in [Registers -> {0, 1}]
    /\ mcu["bootmode"] = 1 /\ mcu["secret"] = 0 /\ mcu["fan"] = 0
    /\ chip \in [hi : {1}, lo : {0}, stop : BOOLEAN, vl : BOOLEAN]
    /\ point = [mcu |-> "mux", rtc |-> "time"]
    /\ regs = Nothing /\ armed = FALSE /\ active = FALSE /\ half = FALSE
    /\ start \in BOOLEAN          \* left by whoever was interrupted
    /\ ran = [job |-> Nothing, ok |-> TRUE] /\ data = 0
    /\ pc = "idle" /\ todo = <<>> /\ call = NoCall /\ failed = FALSE
    /\ probed = [c \in Consumers |-> FALSE] /\ trusted = probed
    /\ present = FALSE /\ soft = BuildEpoch
    /\ modes = [mcudxe |-> "unread", mux |-> "unread"]
    /\ step = "probe" /\ dtb = [usb3 |-> TRUE, pcie |-> FALSE]
    /\ reply = "none" /\ ticked = FALSE /\ ticks = 0 /\ lost = 0

-----------------------------------------------------------------------------
(* The controller and its slaves. *)

Applied(job) ==
    /\ mcu' = IF job.do = "put" /\ job.slave = "mcu" THEN [mcu EXCEPT ![job.reg] = job.val] ELSE mcu
    /\ chip' = IF job.do # "put" \/ job.slave # "rtc" THEN chip
               ELSE IF job.reg = "ctl" THEN [chip EXCEPT !.stop = job.val]
               ELSE [chip EXCEPT !.hi = job.val[1]]
    /\ point' = IF job.do = "point" THEN [point EXCEPT ![job.slave] = job.reg] ELSE point
    /\ data' = IF job.do # "fetch" THEN data
               ELSE IF job.slave = "mcu" THEN mcu[point.mcu]
               ELSE IF point.rtc = "ctl" THEN chip.stop
               ELSE [time |-> Time(chip), vl |-> chip.vl]

Untouched == UNCHANGED <<chips, data>>

Recognise ==
    /\ armed
    /\ armed' = FALSE /\ active' = TRUE
    /\ UNCHANGED <<chips, regs, start, half, ran, data, pc, todo, call, failed,
                   memory, reply, time, lost>>

\* A block write lands a byte at a time: seconds first, which clears VL.
LandsFirstByte ==
    /\ active /\ ~half /\ regs.do = "put" /\ regs.slave = "rtc" /\ regs.reg = "time"
    /\ chip' = [chip EXCEPT !.lo = regs.val[2], !.vl = FALSE]
    /\ half' = TRUE
    /\ UNCHANGED <<mcu, point, regs, start, armed, active, ran, data, pc, todo, call,
                   failed, memory, reply, time, lost>>

Finish ==
    /\ active
    /\ regs.do = "put" /\ regs.reg = "time" => half
    /\ Applied(regs)
    /\ ran' = [job |-> regs, ok |-> TRUE]
    /\ active' = FALSE /\ half' = FALSE
    /\ UNCHANGED <<regs, start, armed, pc, todo, call, failed, memory, reply, time, lost>>

\* No acknowledge, from the address or from some later byte.
Refused ==
    /\ active /\ lost < MaxLost
    /\ Untouched \/ (Applied(regs) /\ regs.do # "fetch")
    /\ ran' = [job |-> regs, ok |-> FALSE]
    /\ active' = FALSE /\ half' = FALSE /\ lost' = lost + 1
    /\ UNCHANGED <<regs, start, armed, pc, todo, call, failed, memory, reply, time>>

\* A second turns; transactions are far shorter than a second.
Tick ==
    /\ ~ticked /\ ticks < MaxTicks
    /\ ticked' = (pc # "idle") /\ ticks' = ticks + 1
    /\ chip' = IF chip.stop THEN chip
               ELSE [chip EXCEPT !.hi = Later(Time(chip), 1)[1], !.lo = Later(Time(chip), 1)[2]]
    /\ soft' = Later(soft, 1)
    /\ UNCHANGED <<mcu, point, wires, pc, todo, call, failed, probed, trusted, present,
                   modes, step, dtb, reply, lost>>

-----------------------------------------------------------------------------
(* I2cRun. *)

Job == Head(todo)
Quiet == UNCHANGED <<chips, todo, call, failed, memory, reply, time>>

\* Seeded fault: a START left set by an interrupted predecessor stays.
ClearStartSkipped ==
    /\ pc = "clear" /\ pc' = "load"
    /\ UNCHANGED <<regs, start, armed, active, half, ran, data, lost>> /\ Quiet

\* START rises again only if it has fallen; falling aborts what is under way.
ClearStart ==
    /\ pc = "clear" /\ pc' = "load"
    /\ start' = FALSE /\ armed' = FALSE /\ active' = FALSE /\ half' = FALSE
    /\ UNCHANGED <<regs, ran, data, lost>> /\ Quiet

LoadList ==
    /\ pc = "load" /\ pc' = "launch"
    /\ regs' = Job
    /\ UNCHANGED <<start, armed, active, half, ran, data, lost>> /\ Quiet

Launch ==
    /\ pc = "launch" /\ pc' = "settle"
    /\ start' = TRUE /\ armed' = ~start
    /\ UNCHANGED <<regs, active, half, ran, data, lost>> /\ Quiet

\* Seeded fault: no delay between START and the first look at STATUS.
SettleAtOnce ==
    /\ pc = "settle" /\ pc' = "poll"
    /\ UNCHANGED <<wires, lost>> /\ Quiet

\* MicroSecondDelay (5): the controller has seen the edge by then.
Settle ==
    /\ pc = "settle" /\ ~armed /\ pc' = "poll"
    /\ UNCHANGED <<wires, lost>> /\ Quiet

\* I2cWait: idle ends it, and clears START.
PollIdle ==
    /\ pc = "poll" /\ ~active
    /\ start' = FALSE /\ armed' = FALSE
    /\ pc' = IF ran.ok THEN "ok" ELSE "bad"
    /\ UNCHANGED <<regs, active, half, ran, data, lost>> /\ Quiet

\* ... 100000 polls end it too; clearing START aborts the token list.
PollGivesUp ==
    /\ pc = "poll" /\ active /\ lost < MaxLost
    /\ lost' = lost + 1
    /\ start' = FALSE /\ active' = FALSE /\ half' = FALSE
    /\ ran' = [job |-> regs, ok |-> FALSE]
    /\ pc' = "bad"
    /\ UNCHANGED <<regs, armed, data>> /\ Quiet

Controller == Recognise \/ LandsFirstByte \/ Finish \/ Refused
RunBus == ClearStart \/ LoadList \/ Launch \/ Settle \/ PollIdle \/ PollGivesUp

-----------------------------------------------------------------------------
(* The calls. *)

Begin(kind, who, reg, val, jobs) ==
    /\ pc = "idle"
    /\ call' = [kind |-> kind, who |-> who, reg |-> reg, val |-> val]
    /\ todo' = jobs /\ pc' = "clear"
    /\ reply' = "none" /\ failed' = FALSE /\ ticked' = FALSE
    /\ UNCHANGED <<chips, wires, ticks, lost>>

\* The call is over; the registers it leaves are loaded anew by the next one.
Answer(status) ==
    /\ reply' = status /\ pc' = "idle" /\ call' = NoCall /\ todo' = <<>>
    /\ failed' = FALSE /\ ticked' = FALSE
    /\ regs' = Nothing /\ ran' = [job |-> Nothing, ok |-> TRUE] /\ data' = 0
    /\ UNCHANGED <<chips, start, armed, active, half, ticks, lost>>

\* Entry points run one after another; the browser and the FMP after all of them.
Dispatched   == step \in {"probe", "done"}
LaneResolved == step = "done" /\ modes["mux"] # "unread"

\* Vim3McuInit: the identity is read once per consumer, whatever it gives.  The
\* third byte, BOOT_EN_RTC, is read and in its range: a board refused for a value
\* above 2 is left out.
Probe(c) ==
    /\ ~probed[c]
    /\ CASE c = "mcudxe" -> step = "probe"
         [] c = "mux"    -> Dispatched
         [] c = "fmp"    -> LaneResolved
    /\ Begin("probe", c, "", 0, Read("mcu", "device") \o Read("mcu", "mux"))
    /\ probed' = [probed EXCEPT ![c] = TRUE]
    /\ step' = IF c = "mcudxe" THEN "fan" ELSE step
    /\ UNCHANGED <<trusted, present, soft, modes, dtb>>

\* Vim3McuWriteByte.
MayWrite(c, r) == trusted[c] /\ r \in McuRegisterWritable

\* Vim3McuDxeEntryPoint after the probe: without trust only the setup page.
EntryUntrusted ==
    /\ pc = "idle" /\ step = "fan" /\ ~trusted["mcudxe"]
    /\ step' = "done" /\ modes' = [modes EXCEPT !["mcudxe"] = "usb3"]
    /\ UNCHANGED <<chips, wires, pc, todo, call, failed, probed, trusted, present,
                   soft, dtb, reply, time, lost>>

\* The fan level goes out unverified: the register cannot be read.
ApplyFanPolicy ==
    /\ step = "fan" /\ MayWrite("mcudxe", "fan") /\ step' = "mux"
    /\ Begin("write", "mcudxe", "fan", 1, <<Put("mcu", "fan", 1)>>)
    /\ UNCHANGED <<probed, trusted, present, soft, modes, dtb>>

ReadLane ==
    /\ step = "mux" /\ step' = "mirror"
    /\ Begin("mux", "mcudxe", "mux", 0, Read("mcu", "mux"))
    /\ UNCHANGED <<probed, trusted, present, soft, modes, dtb>>

\* MirrorMcuSettings: reads alone, each with a default.
MirrorMcuSettings ==
    /\ step = "mirror" /\ step' = "done"
    /\ Begin("mirror", "mcudxe", "mux", 0, Read("mcu", "mux"))
    /\ UNCHANGED <<probed, trusted, present, soft, modes, dtb>>

\* MesonPcieMuxIsPcie, once.
ResolveMux ==
    /\ modes["mux"] = "unread" /\ probed["mux"] /\ Dispatched
    /\ IF trusted["mux"]
         THEN Begin("mux", "mux", "mux", 0, Read("mcu", "mux")) /\ UNCHANGED memory
         ELSE /\ pc = "idle" /\ modes' = [modes EXCEPT !["mux"] = "usb3"]
              /\ UNCHANGED <<chips, wires, pc, todo, call, failed, probed, trusted,
                             present, soft, step, dtb, reply, time, lost>>

\* Vim3FmpDxe's flip of the BootROM selector.
SetBootMode ==
    /\ MayWrite("fmp", "bootmode")
    /\ Begin("write", "fmp", "bootmode", 0, <<Put("mcu", "bootmode", 0)>>)
    /\ UNCHANGED memory

\* ConfigCallback: McuWriteVerify.
ChangeSetting ==
    \E v \in Values :
        /\ LaneResolved /\ MayWrite("mcudxe", "mux")
        /\ Begin("verify", "mcudxe", "mux", v, <<Put("mcu", "mux", v)>> \o Read("mcu", "mux"))
        /\ UNCHANGED memory

\* LibRtcInitialize, once, and LibSetTime.
RtcInitialize ==
    /\ ~present /\ Dispatched
    /\ Begin("anchor", "rtc", "time", 0, Read("rtc", "time"))
    /\ UNCHANGED memory

SetTimeJobs(t) ==
    Read("rtc", "ctl") \o <<Put("rtc", "ctl", TRUE), Put("rtc", "time", t),
                            Put("rtc", "ctl", FALSE)>>

SetTime ==
    \E t \in NewTimes :
        /\ present /\ Dispatched
        /\ Begin("settime", "rtc", "time", t, SetTimeJobs(t))
        /\ UNCHANGED memory

-----------------------------------------------------------------------------
(* What a call does with the end of a run. *)

Continue ==
    /\ todo' = Tail(todo) /\ pc' = "clear"
    /\ UNCHANGED <<chips, wires, call, memory, reply, time, lost>>

RunEnds ==
    /\ pc = "ok" /\ Len(todo) > 1
    /\ IF call.kind = "probe" /\ Job = Fetch("mcu") /\ point.mcu = "device" /\ data # 1
         THEN Answer("untrusted") /\ UNCHANGED memory
         ELSE Continue /\ UNCHANGED failed

\* Seeded fault: the failed time write returns at once.
ReleaseForgotten == FALSE

\* A failed run ends the call, except that LibSetTime still releases STOP.
ReleaseStop == call.kind = "settime" /\ Job.reg = "time"

RunFails ==
    /\ pc = "bad"
    /\ IF ReleaseStop THEN Continue /\ failed' = TRUE
       ELSE /\ Answer(IF call.kind = "settime" /\ Len(todo) = 1 /\ ~failed
                        THEN "ok" ELSE "error")
            /\ modes' = IF call.kind = "mux" THEN [modes EXCEPT ![call.who] = "usb3"] ELSE modes
            /\ soft' = IF call.kind = "settime" /\ Len(todo) = 1 /\ ~failed
                         THEN call.val ELSE soft
            /\ UNCHANGED <<probed, trusted, present, step, dtb>>

\* McuWriteVerify compares; the others take what they got.
VerifiedStatus == IF data = call.val THEN "ok" ELSE "error"

\* Seeded fault: the port is enabled before the PHY is taken from USB.
PatchPublishedDtbPortFirst ==
    {dtb, [dtb EXCEPT !.pcie = TRUE], [usb3 |-> FALSE, pcie |-> TRUE]}

\* PatchPublishedDtb for PCIe: the USB3 PHY goes first, then the port is enabled;
\* either may fail, for want of the node or of room.
PatchPublishedDtb ==
    {dtb, [dtb EXCEPT !.usb3 = FALSE], [usb3 |-> FALSE, pcie |-> TRUE]}

LastRunEnds ==
    /\ pc = "ok" /\ Len(todo) = 1
    /\ Answer(IF call.kind = "verify" THEN VerifiedStatus
              ELSE IF failed THEN "error" ELSE "ok")
    /\ trusted' = IF call.kind = "probe" THEN [trusted EXCEPT ![call.who] = TRUE] ELSE trusted
    /\ present' = (present \/ call.kind = "anchor")
    /\ soft' = CASE call.kind = "anchor" /\ ~data.vl -> data.time
                 [] call.kind = "settime" /\ ~failed -> call.val
                 [] OTHER -> soft
    /\ modes' = IF call.kind = "mux"
                  THEN [modes EXCEPT ![call.who] = IF data = 1 THEN "pcie" ELSE "usb3"]
                  ELSE modes
    /\ dtb' \in IF call.kind = "mux" /\ call.who = "mcudxe" /\ data = 1
                 THEN PatchPublishedDtb ELSE {dtb}
    /\ UNCHANGED <<probed, step>>

McuNext ==
    \/ Controller \/ Tick \/ RunBus
    \/ \E c \in Consumers : Probe(c)
    \/ EntryUntrusted \/ ApplyFanPolicy \/ ReadLane \/ MirrorMcuSettings
    \/ ResolveMux \/ SetBootMode \/ ChangeSetting
    \/ RtcInitialize \/ SetTime
    \/ RunEnds \/ RunFails \/ LastRunEnds

McuSpec == McuInit /\ [][McuNext]_mcuVars

-----------------------------------------------------------------------------
(* Properties. *)

\* I2cWait reports success only for the token list I2cRun was given: it went
\* over the wire, to the slave it names, after the controller had started, and
\* whatever an interrupted predecessor left in the control register.
SuccessWasOnWire == pc = "ok" => ran = [job |-> Job, ok |-> TRUE]

\* An MCU that never proved to be this board's is never written, no consumer's
\* trust stands in for another's, and no list outside the whitelist is built.
OnlyTrustedWrites ==
    \A i \in 1 .. Len(todo) :
        (todo[i].do = "put" /\ todo[i].slave = "mcu") =>
            /\ mcu["device"] = 1 /\ trusted[call.who]
            /\ todo[i].reg \in McuRegisterWritable

\* What goes out on the bus was meant for the chip that takes it, and what is
\* reported to have gone out did.
BusHonest == SuccessWasOnWire /\ OnlyTrustedWrites

\* Vim3PcieMuxLib.c:14-15: "Vim3McuDxe applies the same policy to the DT it hands
\* the OS, so firmware and OS always agree on the mode."
FirmwareAndOsAgree ==
    "unread" \in {modes["mux"], modes["mcudxe"]} \/ modes["mux"] = modes["mcudxe"]

\* The shared lane has one owner in the device tree the OS is handed: the PCIe
\* port is never enabled beside the USB3 PHY, whichever step of the patch failed,
\* and the PHY is taken from USB only by a reader of the mux that chose PCIe.
\* Without a failed transaction that reader and the firmware's own choose alike.
\* The tree may still leave the lane to USB3 when both chose PCIe: the patch can
\* fail with nothing lost on the bus, and its caller goes on.
LaneHasOneOwner ==
    /\ dtb.pcie => ~dtb.usb3
    /\ ~dtb.usb3 => modes["mcudxe"] = "pcie"
    /\ lost = 0 => FirmwareAndOsAgree

\* When LibSetTime is over, a chip that was told the time holds it and goes on
\* from it, at most a second ahead of the software clock; it is left halted only
\* by a lost access to its control register, never by a lost time write.
ClockSurvives ==
    [][LET over == call.kind = "settime" /\ call'.kind = "none"
       IN  over => /\ chip'.stop => Job.reg # "time" /\ lost > (IF failed THEN 1 ELSE 0)
                   /\ (reply' = "ok" /\ ~chip'.stop) =>
                        Time(chip)' \in {soft', Later(soft', 1)}]_mcuVars
=============================================================================
