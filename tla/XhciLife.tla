------------------------------ MODULE XhciLife ------------------------------
(***************************************************************************)
(* The life of one xHCI controller under Xhci.c: the driver binding's      *)
(* Start and Stop, the calls of EFI_USB2_HC_PROTOCOL that move the whole   *)
(* controller (Reset, SetState) or one root port (SetRootHubPortFeature,   *)
(* ClearRootHubPortFeature, GetRootHubPortStatus), and the callback that   *)
(* hands the controller to the operating system.                           *)
(*                                                                         *)
(* Start and Stop raise no TPL: between two of their steps the monitor     *)
(* timer may fire, so each step is an action.  The protocol's calls run at *)
(* XHC_TPL = TPL_NOTIFY, the timer's own level, and only the hardware gets *)
(* between their register accesses.                                        *)
(*                                                                         *)
(* Memory is seen as schedules: XhcInitSched builds schedule n (pool,      *)
(* scratchpads, DCBAA, command ring, event ring), XhcFreeSched frees it,   *)
(* and a register, a slot or an URB remembers the schedule it points into. *)
(***************************************************************************)
EXTENDS Integers, FiniteSets

CONSTANTS
  Slots,       \* device slots the controller can hand out
  Ports,       \* root hub ports
  ChangeBits,  \* the modelled write-one-to-clear bits of PORTSC, CSC and PRC among them
  MaxScheds,   \* bound: schedules built over the whole run
  NoPort, NoCall

ASSUME BitsAssumption == {"CSC", "PRC"} \subseteq ChangeBits

VARIABLES
  step,      \* where Start or Stop stands; "off", "up", "shut" (create failed) are at rest,
             \* "os" and "left" past the firmware's end
  pci,       \* [open: PciIo held BY_DRIVER, enabled: attributes differ from the saved ones]
  hc,        \* the controller: [run, hse, regs, slots, bios]
  xhc,       \* the instance: [id, pool, ctx, urbs, timer]; id = 0 is none at all, and
             \* pool = 0 before XhcInitSched
  exit,      \* the ExitBootServices events, each by the instance it was created over
  orphans,   \* history: the instances that a failed InstallProtocolInterface freed
  live,      \* schedules whose memory is allocated
  built,     \* schedules built so far
  port,      \* root ports: [ccs, ped, pr, chg]
  call,      \* the port call in progress
  broke,     \* history: failures the driver ignores, until the controller is set up anew
  misfreed,  \* history: some memory was freed twice or into another pool
  debug      \* the debug capability is enabled: HCRST must not be used

vars == <<step, pci, hc, xhc, exit, orphans, live, built, port, call, broke, misfreed, debug>>

Registers == {"DCBAAP", "CRCR", "ERST"}
Unset == [r \in Registers |-> 0]
NoSlots == [s \in Slots |-> [Enabled |-> FALSE, port |-> NoPort, pool |-> 0]]
NewInstance(n) == [id |-> n, pool |-> 0, ctx |-> NoSlots, urbs |-> {}, timer |-> "none"]
NoInstance == NewInstance(0)

Init ==
  /\ step = "off"
  /\ pci = [open |-> FALSE, enabled |-> FALSE]
  /\ hc = [run |-> "halted", hse |-> FALSE, regs |-> Unset, slots |-> {}, bios |-> FALSE]
  /\ xhc = NoInstance
  /\ exit = {} /\ orphans = {}
  /\ live = {} /\ built = 0
  /\ port = [p \in Ports |-> [ccs |-> FALSE, ped |-> FALSE, pr |-> FALSE, chg |-> {}]]
  /\ call = NoCall
  /\ broke = {} /\ misfreed = FALSE
  /\ debug \in BOOLEAN

-----------------------------------------------------------------------------
(* Controller-wide register operations: the outcomes they allow.  hcrst    *)
(* tells that the controller went through a reset, in time or not.         *)
Outcome(h, ok) == [hc |-> h, ok |-> ok, hcrst |-> FALSE]

(* USBCMD.R/S is cleared; USBSTS.HCH is awaited and may come too late.     *)
HaltHC(h) ==
  {Outcome([h EXCEPT !.run = "halted"], TRUE)}
    \cup IF h.run = "halted" THEN {} ELSE {Outcome([h EXCEPT !.run = "halting"], FALSE)}

(* USBCMD.R/S is set.  A controller with a host system error stays halted. *)
RunHC(h) ==
  IF h.hse THEN {Outcome(h, FALSE)} ELSE {Outcome([h EXCEPT !.run = "running"], TRUE)}

(* HCRST clears every operational register, forgets the slots and takes    *)
(* the root ports back to what is plugged in.                              *)
Reset(h) == [h EXCEPT !.run = "halted", !.hse = FALSE, !.regs = Unset, !.slots = {}]
PortsAfter(r) ==
  IF ~r.hcrst THEN port
  ELSE [p \in Ports |-> [ccs |-> port[p].ccs, ped |-> FALSE, pr |-> FALSE,
                         chg |-> {b \in {"CSC"} : port[p].ccs}]]

HardReset(h) ==
  IF debug THEN {Outcome(h, TRUE)}
  ELSE {Outcome(h, FALSE)} \cup {[hc |-> Reset(h), ok |-> ok, hcrst |-> TRUE] : ok \in BOOLEAN}

ResetHC(h) ==
  UNION {IF r.ok THEN HardReset(r.hc) ELSE {r} :
           r \in IF h.run = "halted" THEN {Outcome(h, TRUE)} ELSE HaltHC(h)}

-----------------------------------------------------------------------------
(* The schedule.                                                           *)

CreateEventRing(regs, n) == [regs EXCEPT !["ERST"] = n]

InitSched(h, x, n) ==
  [hc  |-> [h EXCEPT !.regs = CreateEventRing([@ EXCEPT !["DCBAAP"] = n, !["CRCR"] = n], n)],
   xhc |-> [x EXCEPT !.pool = n]]

FreeSched(x) == live \ {x.pool}

FreesTwice(x) == x.pool # 0 /\ x.pool \notin live

DelAllSkipped(x) == x
DelAllAsyncIntTransfers(x) == [x EXCEPT !.urbs = {}]

SetBiosOwnership(h) == [h EXCEPT !.bios = TRUE]
ClearBiosOwnership(h) == [h EXCEPT !.bios = FALSE]

-----------------------------------------------------------------------------
(* DriverBindingStart.                                                     *)

(* CLOSE_PCIIO: saved attributes restored, PciIo closed.                   *)
ClosePciIo == pci' = [open |-> FALSE, enabled |-> FALSE]

(* An already open PciIo refuses Start before anything is touched; an      *)
(* attribute call that fails leaves it as it was.                          *)
OpenPciIo ==
  /\ step = "off"
  /\ step' = "create" /\ pci' = [open |-> TRUE, enabled |-> TRUE]
  /\ UNCHANGED <<hc, xhc, exit, orphans, live, built, port, call, broke, misfreed, debug>>

(* XhcCreateUsbHc: on failure Start returns at once, PciIo still open.     *)
CreateUsbHc ==
  /\ step = "create"
  /\ \/ step' = "take" /\ xhc' = NewInstance(built + 1)
     \/ step' = "shut" /\ xhc' = NoInstance
  /\ UNCHANGED <<pci, hc, exit, orphans, live, built, port, call, broke, misfreed, debug>>

(* FREE_POOL: the timer and the instance go with its schedule, whatever    *)
(* the controller is doing; an exit event that was created stays.          *)
FreePool(h) ==
  /\ step' = "off"
  /\ hc' = h
  /\ live' = FreeSched(xhc) /\ misfreed' = (misfreed \/ FreesTwice(xhc))
  /\ xhc' = NoInstance
  /\ ClosePciIo

StartReset ==
  /\ step = "take"
  /\ \E r \in ResetHC(SetBiosOwnership(hc)) :
       /\ IF r.ok THEN /\ step' = "sched" /\ hc' = r.hc
                       /\ UNCHANGED <<pci, xhc, live, misfreed>>
                  ELSE FreePool(r.hc)
       /\ port' = PortsAfter(r)
  /\ UNCHANGED <<exit, orphans, built, call, broke, debug>>

StartSched ==
  /\ step = "sched" /\ built < MaxScheds
  /\ LET made == InitSched(hc, xhc, built + 1)
     IN hc' = made.hc /\ xhc' = made.xhc
  /\ built' = built + 1 /\ live' = live \cup {built + 1}
  /\ step' = "run" /\ broke' = {}
  /\ UNCHANGED <<pci, exit, orphans, port, call, misfreed, debug>>

(* The result of XhcRunHC is not looked at.                                *)
StartRun ==
  /\ step = "run"
  /\ \E r \in RunHC(hc) : hc' = r.hc
  /\ step' = "timer"
  /\ UNCHANGED <<pci, xhc, exit, orphans, live, built, port, call, broke, misfreed, debug>>

StartTimer ==
  /\ step = "timer"
  /\ \/ /\ xhc' = [xhc EXCEPT !.timer = "armed"] /\ step' = "event"
        /\ UNCHANGED <<pci, hc, live, broke, misfreed>>
     \/ \E r \in HaltHC(hc) :
          /\ FreePool(r.hc)
          /\ broke' = IF r.ok THEN broke ELSE broke \cup {"halt timed out"}
  /\ UNCHANGED <<exit, orphans, built, port, call, debug>>

(* A failure from here on frees the schedule of a running controller.      *)
FailLate ==
  /\ FreePool(hc)
  /\ broke' = broke \cup {"start failed late"}

StartExitEvent ==
  /\ step = "event"
  /\ \/ /\ exit' = exit \cup {xhc.id} /\ step' = "install"
        /\ UNCHANGED <<pci, hc, xhc, live, broke, misfreed>>
     \/ FailLate /\ UNCHANGED exit
  /\ UNCHANGED <<orphans, built, port, call, debug>>

StartInstall ==
  /\ step = "install"
  /\ \/ step' = "up" /\ UNCHANGED <<pci, hc, xhc, orphans, live, broke, misfreed>>
     \/ FailLate /\ orphans' = orphans \cup {xhc.id}
  /\ UNCHANGED <<exit, built, port, call, debug>>

-----------------------------------------------------------------------------
(* DriverBindingStop.                                                      *)

Idle == step = "up" /\ call = NoCall

Uninstall ==
  /\ Idle
  /\ step' = "slots"
  /\ xhc' = [xhc EXCEPT !.timer = "created"]
  /\ UNCHANGED <<pci, hc, exit, orphans, live, built, port, call, broke, misfreed, debug>>

Enabled(x) == {s \in Slots : x.ctx[s].Enabled}

(* A disable-slot command needs a running controller that knows the slot;  *)
(* a context is given back only when it succeeds.                          *)
AcceptsAnything(s) == TRUE
Accepts(s) == hc.run = "running" /\ s \in hc.slots
Disabled(x, gone) ==
  [x EXCEPT !.ctx = [s \in Slots |-> IF s \in gone THEN [@[s] EXCEPT !.Enabled = FALSE] ELSE @[s]]]
StrayFree(x, gone) == \E s \in gone : x.ctx[s].pool # x.pool

DisableSlots ==
  /\ step = "slots"
  /\ \E gone \in SUBSET {s \in Enabled(xhc) : Accepts(s)} :
       /\ xhc' = Disabled(xhc, gone)
       /\ hc' = [hc EXCEPT !.slots = @ \ gone]
       /\ misfreed' = (misfreed \/ StrayFree(xhc, gone))
  /\ step' = "events"
  /\ UNCHANGED <<pci, exit, orphans, live, built, port, call, broke, debug>>

LeaveExitEvent == exit
CloseExitEvent == exit \ {xhc.id}

StopEvents ==
  /\ step = "events"
  /\ xhc' = [xhc EXCEPT !.timer = "none"] /\ exit' = CloseExitEvent
  /\ step' = "halt"
  /\ UNCHANGED <<pci, hc, orphans, live, built, port, call, broke, misfreed, debug>>

(* The result of XhcHaltHC is not looked at.                               *)
StopHaltSkipped(h) == {Outcome(h, TRUE)}
HaltForStop(h) == HaltHC(h)

StopHalt ==
  /\ step = "halt"
  /\ \E r \in HaltForStop(hc) :
       /\ hc' = ClearBiosOwnership(r.hc)
       /\ broke' = IF r.ok THEN broke ELSE broke \cup {"halt timed out"}
  /\ step' = "free"
  /\ UNCHANGED <<pci, xhc, exit, orphans, live, built, port, call, misfreed, debug>>

StopFree ==
  /\ step = "free"
  /\ live' = FreeSched(xhc) /\ misfreed' = (misfreed \/ FreesTwice(xhc))
  /\ xhc' = NoInstance
  /\ ClosePciIo
  /\ step' = "off"
  /\ UNCHANGED <<hc, exit, orphans, built, port, call, broke, debug>>

-----------------------------------------------------------------------------
(* The protocol's controller-wide calls.                                   *)

(* XhcReset: nothing while the debug capability is on; a controller that   *)
(* does not halt or reset in time keeps the old schedule.  The device      *)
(* contexts are not touched.                                               *)
HaltedForReset(h) == IF h.run = "halted" THEN {Outcome(h, TRUE)} ELSE HaltHC(h)

XhcReset ==
  /\ Idle /\ ~debug /\ built < MaxScheds
  /\ \E r \in UNION {IF t.ok THEN ResetHC(t.hc) ELSE {t} : t \in HaltedForReset(hc)} :
       /\ port' = PortsAfter(r)
       /\ IF r.ok THEN
            LET made == InitSched(r.hc, DelAllAsyncIntTransfers(xhc), built + 1)
            IN /\ hc' = made.hc /\ xhc' = made.xhc
               /\ built' = built + 1
               /\ live' = FreeSched(xhc) \cup {built + 1}
               /\ misfreed' = (misfreed \/ FreesTwice(xhc))
               /\ broke' = {b \in broke : b = "reset over devices"}
                             \cup {b \in {"reset over devices"} : Enabled(xhc) # {}}
          ELSE
            /\ hc' = r.hc
            /\ broke' = IF r.hc.regs = hc.regs THEN broke ELSE broke \cup {"reset timed out"}
            /\ UNCHANGED <<xhc, built, live, misfreed>>
  /\ UNCHANGED <<step, pci, exit, orphans, call, debug>>

GetState(h) == IF h.run = "halted" THEN "Halt" ELSE "Operational"

(* XhcSetState: halting waits, running is refused after a host system      *)
(* error; any other state is unsupported.                                  *)
XhcSetState ==
  /\ Idle
  /\ \/ /\ GetState(hc) = "Operational"
        /\ \E r \in HaltHC(hc) : hc' = r.hc
     \/ /\ GetState(hc) = "Halt" /\ ~hc.hse
        /\ \E r \in RunHC(hc) : hc' = r.hc
  /\ UNCHANGED <<step, pci, xhc, exit, orphans, live, built, port, call, broke, misfreed, debug>>

XhciDelAsyncIntTransfer ==
  /\ Idle
  /\ \E s \in xhc.urbs : xhc' = [xhc EXCEPT !.urbs = @ \ {s}]
  /\ UNCHANGED <<step, pci, hc, exit, orphans, live, built, port, call, broke, misfreed, debug>>

(* A transfer is refused while the controller is halted.                   *)
XhciInsertAsyncIntTransfer ==
  /\ Idle /\ hc.run # "halted"
  /\ \E s \in Enabled(xhc) \ xhc.urbs : xhc' = [xhc EXCEPT !.urbs = @ \cup {s}]
  /\ UNCHANGED <<step, pci, hc, exit, orphans, live, built, port, call, broke, misfreed, debug>>

(* XhcExitBootService, on the event: the timer dies, the controller halts. *)
XhcExitBootService ==
  /\ xhc.id \in exit /\ Idle
  /\ \E r \in HaltHC(hc) :
       /\ hc' = ClearBiosOwnership(r.hc)
       /\ broke' = IF r.ok THEN broke ELSE broke \cup {"halt timed out"}
  /\ xhc' = [xhc EXCEPT !.timer = "none"]
  /\ pci' = [pci EXCEPT !.enabled = FALSE]
  /\ step' = "os"
  /\ UNCHANGED <<exit, orphans, live, built, port, call, misfreed, debug>>

(* The same callback on an instance that was freed: nothing it finds there *)
(* can be relied on, so it does some of its work or none.                  *)
ExitOverFreed ==
  /\ exit # {} /\ step \in {"off", "shut"}
  /\ hc' \in {hc} \cup {ClearBiosOwnership(r.hc) : r \in HaltHC(hc)}
  /\ \/ UNCHANGED pci
     \/ pci' = [pci EXCEPT !.enabled = FALSE]
  /\ step' = "left"
  /\ UNCHANGED <<xhc, exit, orphans, live, built, port, call, broke, misfreed, debug>>

-----------------------------------------------------------------------------
(* Root ports.  A call reads PORTSC and writes it back later; PED and the  *)
(* change bits clear when written as one, PR sets.                         *)

Written(p, w) ==
  [port EXCEPT ![p].ped = @ /\ ~w.ped, ![p].pr = @ \/ w.pr, ![p].chg = @ \ w.chg]

(* Both feature calls zero the change bits and PED in what they read.      *)
Mask(state) == [state EXCEPT !.ped = FALSE, !.chg = {}]
MaskKeepsEnable(state) == [state EXCEPT !.chg = {}]

Begin(op, p, todo) ==
  /\ Idle
  /\ call' = [op |-> op, port |-> p, seen |-> port[p], todo |-> todo, latch |-> {}]

SetPortReset ==
  /\ \E p \in Ports :
       \E r \in IF hc.run = "halted" THEN RunHC(hc) ELSE {Outcome(hc, TRUE)} :
         /\ hc' = r.hc
         /\ Idle
         /\ IF r.ok THEN Begin("reset", p, {}) ELSE UNCHANGED call
  /\ UNCHANGED <<step, pci, xhc, exit, orphans, live, built, port, broke, misfreed, debug>>

ResetValue(state) == [Mask(state) EXCEPT !.pr = TRUE]

WritePortReset ==
  /\ call # NoCall /\ call.op = "reset"
  /\ port' = Written(call.port, ResetValue(call.seen))
  /\ call' = [call EXCEPT !.op = "waiting"]
  /\ UNCHANGED <<step, pci, hc, xhc, exit, orphans, live, built, broke, misfreed, debug>>

(* XhcWaitOpRegBit for PRC; only a controller that stopped makes it late.  *)
WaitPortReset ==
  /\ call # NoCall /\ call.op = "waiting"
  /\ "PRC" \in port[call.port].chg \/ hc.run = "halted"
  /\ call' = NoCall
  /\ UNCHANGED <<step, pci, hc, xhc, exit, orphans, live, built, port, broke, misfreed, debug>>

ClearPortEnable ==
  /\ \E p \in Ports : Begin("disable", p, {})
  /\ UNCHANGED <<step, pci, hc, xhc, exit, orphans, live, built, port, broke, misfreed, debug>>

WritePortEnable ==
  /\ call # NoCall /\ call.op = "disable"
  /\ port' = Written(call.port, [Mask(call.seen) EXCEPT !.ped = TRUE, !.pr = FALSE])
  /\ call' = NoCall
  /\ UNCHANGED <<step, pci, hc, xhc, exit, orphans, live, built, broke, misfreed, debug>>

ClearPortChange ==
  /\ \E p \in Ports, b \in ChangeBits : Begin("clear", p, {b})
  /\ UNCHANGED <<step, pci, hc, xhc, exit, orphans, live, built, port, broke, misfreed, debug>>

GetRootHubPortStatus ==
  /\ \E p \in Ports : Begin("status", p, port[p].chg)
  /\ UNCHANGED <<step, pci, hc, xhc, exit, orphans, live, built, port, broke, misfreed, debug>>

(* XhcClearRootHubPortFeature for one change bit: a read of its own ...    *)
ReadForChange ==
  /\ call # NoCall /\ call.op \in {"clear", "status"} /\ call.todo # {} /\ call.latch = {}
  /\ \E b \in call.todo :
       call' = [call EXCEPT !.latch = {[bit |-> b, state |-> port[call.port]]}]
  /\ UNCHANGED <<step, pci, hc, xhc, exit, orphans, live, built, port, broke, misfreed, debug>>

(* ... then the write of that bit.                                         *)
ChangeValueUnmasked(state, b) == [MaskKeepsEnable(state) EXCEPT !.chg = state.chg \cup {b}]
ChangeValue(state, b) == [Mask(state) EXCEPT !.chg = {b}]

WriteForChange ==
  /\ call # NoCall /\ call.op \in {"clear", "status"}
  /\ \E l \in call.latch :
       /\ port' = Written(call.port, ChangeValue(l.state, l.bit))
       /\ call' = IF call.op = "clear" THEN NoCall
                   ELSE [call EXCEPT !.todo = @ \ {l.bit}, !.latch = {}]
  /\ UNCHANGED <<step, pci, hc, xhc, exit, orphans, live, built, broke, misfreed, debug>>

OnPort(x, p) == {s \in Enabled(x) : x.ctx[s].port = p}

(* XhcPollPortStatusChange on what the call saw: the port's slot goes, and *)
(* a freshly reset, enabled device gets a new one.  A slot the controller  *)
(* will not disable keeps its entry, and then nothing new is set up.       *)
PollPortStatusChange ==
  /\ call # NoCall /\ call.op = "status" /\ call.todo = {}
  /\ \E gone \in IF call.seen.chg = {} THEN {{}}
                  ELSE SUBSET {s \in OnPort(xhc, call.port) : Accepts(s)} :
       LET x == Disabled(xhc, gone)
           free == IF /\ call.seen.ped /\ call.seen.ccs /\ "PRC" \in call.seen.chg
                      /\ hc.run = "running" /\ OnPort(x, call.port) = {}
                   THEN Slots \ (hc.slots \ gone) ELSE {}
       IN /\ misfreed' = (misfreed \/ StrayFree(xhc, gone))
          /\ \/ xhc' = x /\ hc' = [hc EXCEPT !.slots = @ \ gone]
             \/ \E s \in free :
                  /\ xhc' = [x EXCEPT !.ctx[s] = [Enabled |-> TRUE, port |-> call.port, pool |-> x.pool]]
                  /\ hc' = [hc EXCEPT !.slots = (@ \ gone) \cup {s}]
  /\ call' = NoCall
  /\ UNCHANGED <<step, pci, exit, orphans, live, built, port, broke, debug>>

-----------------------------------------------------------------------------
(* The hardware.                                                           *)

HaltCompletes ==
  /\ hc.run = "halting" /\ hc' = [hc EXCEPT !.run = "halted"]
  /\ UNCHANGED <<step, pci, xhc, exit, orphans, live, built, port, call, broke, misfreed, debug>>

HostSystemError ==
  /\ hc.run = "running" /\ hc' = [hc EXCEPT !.run = "halted", !.hse = TRUE]
  /\ UNCHANGED <<step, pci, xhc, exit, orphans, live, built, port, call, broke, misfreed, debug>>

PortEvent(p, new) ==
  /\ port' = [port EXCEPT ![p] = new]
  /\ UNCHANGED <<step, pci, hc, xhc, exit, orphans, live, built, call, broke, misfreed, debug>>

Plug == \E p \in Ports :
  PortEvent(p, [port[p] EXCEPT !.ccs = ~@, !.ped = FALSE, !.chg = @ \cup {"CSC"}])

PortResetDone == \E p \in Ports :
  /\ port[p].pr /\ hc.run = "running"
  /\ PortEvent(p, [port[p] EXCEPT !.pr = FALSE, !.ped = port[p].ccs, !.chg = @ \cup {"PRC"}])

Start == \/ OpenPciIo \/ CreateUsbHc \/ StartReset \/ StartSched \/ StartRun
         \/ StartTimer \/ StartExitEvent \/ StartInstall
Stop == Uninstall \/ DisableSlots \/ StopEvents \/ StopHalt \/ StopFree
Calls == \/ XhcReset \/ XhcSetState \/ XhciInsertAsyncIntTransfer \/ XhciDelAsyncIntTransfer
         \/ XhcExitBootService \/ ExitOverFreed
PortCalls == \/ SetPortReset \/ WritePortReset \/ WaitPortReset
             \/ ClearPortEnable \/ WritePortEnable \/ ClearPortChange \/ GetRootHubPortStatus
             \/ ReadForChange \/ WriteForChange \/ PollPortStatusChange
Hardware == HaltCompletes \/ HostSystemError \/ Plug \/ PortResetDone

Next == Start \/ Stop \/ Calls \/ PortCalls \/ Hardware
Spec == Init /\ [][Next]_vars

-----------------------------------------------------------------------------
(* A controller that is not halted walks the schedule of the live instance *)
(* and nothing else.  The only ways out of this are those the driver       *)
(* ignores: a halt or a reset that times out, and a Start that fails after *)
(* it set the controller running (Xhci.c:2132, 2162).                      *)
RunsOverOwnMemory ==
  hc.run # "halted" /\ broke \cap {"halt timed out", "reset timed out", "start failed late"} = {}
    => xhc.pool \in live /\ \A r \in Registers : hc.regs[r] = xhc.pool

(* While the monitor timer is armed its callback finds the instance, its   *)
(* event ring and every URB of its list in memory that is still allocated, *)
(* whatever was reset; a reset with devices attached leaves their contexts *)
(* behind, and only those.  An exit event names the instance in memory,    *)
(* with its schedule, and no other, with one exception: when Start fails   *)
(* to install the protocol it frees the instance and leaves the event      *)
(* (Xhci.c:2160-2171), and those events only ever name what was so freed.  *)
MonitorSeesLiveMemory ==
  /\ xhc.timer = "armed" => xhc.pool \in live
  /\ exit \ orphans \subseteq {xhc.id}
  /\ xhc.id \in exit => xhc.pool \in live /\ xhc.id \notin orphans
  /\ \A s \in xhc.urbs :
       xhc.ctx[s].pool = xhc.pool \/ "reset over devices" \in broke

(* What a stopped or failed controller was built from is given back, once, *)
(* to the pool it came from, even after a reset over devices left slots of *)
(* an older schedule in the table: its memory, its timer and its exit      *)
(* event, and PciIo with the attributes it was found with.  Two of these   *)
(* are not given back: PciIo when XhcCreateUsbHc fails ("shut",            *)
(* Xhci.c:2055-2057), and the exit event of a Start that fails to install  *)
(* the protocol (Xhci.c:2160-2171).                                        *)
GivenBackOnce ==
  /\ ~misfreed
  /\ step \in {"off", "shut"} => live = {} /\ xhc.timer = "none" /\ exit \subseteq orphans
  /\ step = "off" => ~pci.open /\ ~pci.enabled

(* Short of a reset of the whole controller, which no port call overlaps,  *)
(* a port loses a change bit only to a call that named it or had seen it,  *)
(* and is disabled only by unplugging, by a reset of the port or by the    *)
(* call that asks for it, whatever the hardware changes between a call's   *)
(* read of PORTSC and its write.                                           *)
ExactPortWrites ==
  [][\A p \in Ports :
       /\ \A b \in port[p].chg \ port'[p].chg :
            call = NoCall \/ (call.port = p /\ b \in call.todo)
       /\ port[p].ped /\ ~port'[p].ped =>
            \/ port[p].ccs # port'[p].ccs
            \/ call = NoCall
            \/ call.op = "disable" /\ call.port = p
            \/ port[p].pr /\ ~port'[p].pr]_vars
=============================================================================
