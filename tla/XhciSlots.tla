------------------------------- MODULE XhciSlots -------------------------------
(***************************************************************************)
(* Device slots of the xHCI driver: how UsbDevContext follows the tree of  *)
(* devices.  The driver is told of a device only by the port status that   *)
(* UsbBus asks for; from the change bits it disables and enables slots,    *)
(* and it translates the addresses UsbBus chooses into slots.              *)
(*                                                                         *)
(* A place is named by the ports that lead to it, root port first.  Two    *)
(* parts stand outside the driver: the controller with the devices, and    *)
(* UsbBus, which enumerates one port at a time, keeps the address of a     *)
(* device it could not configure until that device is removed, and has the *)
(* class drivers cancel their transfers before it releases an address.     *)
(* Each step ends at a command of the driver, which the controller carries *)
(* out, refuses, or carries out without the driver seeing it in time.      *)
(***************************************************************************)
EXTENDS Naturals, Sequences, FiniteSets

CONSTANTS
  Slots,      \* slot ids (1 .. MaxSlotsEn)
  Places,     \* sequences of ports at which a device can be attached
  Kinds,      \* per place: the kinds of devices, [speed, hub], that may come
  Addresses,  \* the addresses UsbBus chooses from
  Retries,    \* XHC_INIT_DEVICE_SLOT_RETRIES
  MaxUpsets   \* bound: devices attached, detached and reset, ports in error,
              \* and commands that fail for no reason of the tree

Hub(p) == SubSeq(p, 1, Len(p) - 1)
IsRoot(p) == Len(p) = 1
Below(p) == {q \in Places : Len(q) >= Len(p) /\ SubSeq(q, 1, Len(p)) = p}

ASSUME PlaceAssumption ==
  \A p \in Places : /\ p \in Seq(Nat) /\ Len(p) \in 1 .. 6
                    /\ \A i \in 2 .. Len(p) : p[i] \in 1 .. 14
                    /\ IsRoot(p) \/ Hub(p) \in Places
ASSUME SlotAssumption ==
  IsFiniteSet(Slots) /\ Slots \subseteq Nat \ {0} /\ Addresses \subseteq Nat \ {0}
ASSUME AddressAssumption ==
  IsFiniteSet(Places) /\ Cardinality(Addresses) >= Cardinality(Places)
ASSUME KindAssumption ==
  Kinds \in [Places -> SUBSET [speed : {"low", "full", "high"}, hub : BOOLEAN]]
ASSUME BoundAssumption == Retries \in Nat /\ MaxUpsets \in Nat

VARIABLES
  plug,      \* per place: the device attached there
  port,      \* per place: the port's enable and change bits
  answers,   \* per place: the slot whose address the device answers to
  hw,        \* the controller's slots
  ctx,       \* UsbDevContext
  urbs,      \* AsyncIntTransfers
  call,      \* XhcPollPortStatusChange in progress
  bus,       \* UsbBus: address of the device at each place
  ready,     \* UsbBus: the places it has configured
  hubs,      \* UsbBus: the places where it took a hub for configured
  enum,      \* UsbBus: where the enumeration of a port is
  upsets,    \* counter of the bound
  stuck,     \* history: slots the driver failed to disable and has not since
  botched    \* history: whether disabling a slot ever failed

history == <<stuck, botched>>
world == <<plug, port, answers>>
driver == <<ctx, urbs>>
usbbus == <<bus, ready, hubs, enum>>
vars == <<world, hw, driver, call, usbbus, upsets, history>>

None == [speed |-> "none", hub |-> FALSE]
QuietPort == [enabled |-> FALSE, changes |-> {}]
Alternates == {0, 1}

\* Endpoints of the alternate settings of a device's interface.
Endpoints(alt) == IF alt = 0 THEN {"int"} ELSE {"int", "bulk"}
Eps == {"int", "bulk"}

-----------------------------------------------------------------------------
(***************************************************************************)
(* Routes and the driver's tables.                                         *)
(***************************************************************************)

\* A port on the way to a device: the root port counts from 1, a hub's port takes
\* one nibble, in which ports from 14 on are all 15.
Nibble(i, n) == IF i = 1 THEN n + 1 ELSE IF n < 14 THEN n ELSE 15
\* The chart of a device behind port p of what has the chart parent.
RouteChart(parent, p) == Append(parent, Nibble(Len(parent) + 1, p))

\* The chart of a place, built up by RouteChart along the way.
Route == [p \in Places |-> [i \in 1 .. Len(p) |-> Nibble(i, p[i])]]

\* A slot's entry after ZeroMem.  Contexts, ring 0 and the DCBAA entry exist
\* exactly while the entry is enabled.
BlankEntry == [enabled |-> FALSE, slot |-> 0, route |-> <<>>, parent |-> <<>>,
               xhciAddr |-> FALSE, busAddr |-> 0, rings |-> {},
               described |-> FALSE, alt |-> 0]

\* The controller's slot: tt is the port of the hub that translates for it.
NoTT == [hub |-> 0, port |-> 0]
SlotOff == [on |-> FALSE, speed |-> "none", tt |-> NoTT, hub |-> FALSE,
            eps |-> [e \in Eps |-> "none"]]

Live(s) == ctx[s].enabled /\ ctx[s].slot # 0

Lowest(S) == IF S = {} THEN 0 ELSE CHOOSE s \in S : \A t \in S : s <= t

SlotsOn(chart) == {s \in Slots : Live(s) /\ ctx[s].route = chart}

\* Seeded fault: an entry no longer in use still counts.
BusDevAddrToAnySlotId(a) == Lowest({s \in Slots : ctx[s].busAddr = a})

BusDevAddrToSlotId(a) == Lowest({s \in Slots : Live(s) /\ ctx[s].busAddr = a})
RouteStringToSlotId(chart) == Lowest(SlotsOn(chart))

\* What disabling a slot reaches: the live entries whose parent is reached.
Children(s) == {t \in Slots : Live(t) /\ ctx[t].parent = ctx[s].route}

\* Seeded fault: what is behind a hub stays.
SubtreeAlone(s) == {s}

Subtree(s) ==
  {t \in Slots : \A S \in SUBSET Slots :
     s \in S /\ (\A u \in S : Children(u) \subseteq S) => t \in S}

Init ==
  /\ plug = [p \in Places |-> None]
  /\ port = [p \in Places |-> QuietPort]
  /\ answers = [p \in Places |-> 0]
  /\ hw = [s \in Slots |-> SlotOff]
  /\ ctx = [s \in Slots |-> BlankEntry]
  /\ urbs = {}
  /\ call = [at |-> "idle"]
  /\ bus = [p \in Places |-> 0] /\ ready = {} /\ hubs = {} /\ enum = [at |-> "idle"]
  /\ upsets = 0
  /\ stuck = {} /\ botched = FALSE

-----------------------------------------------------------------------------
(***************************************************************************)
(* Devices come and go.                                                    *)
(***************************************************************************)

Upset == upsets < MaxUpsets /\ upsets' = upsets + 1

\* A low or full speed hub has no high speed port.
Fits(p, k) ==
  ~IsRoot(p) => plug[Hub(p)].hub /\ (k.speed = "high" => plug[Hub(p)].speed = "high")

Attach(p, k) ==
  /\ Upset
  /\ plug[p] = None /\ Fits(p, k)
  /\ plug' = [plug EXCEPT ![p] = k]
  /\ port' = [port EXCEPT ![p].changes = @ \cup {"connection"}]
  /\ UNCHANGED <<answers, hw, driver, call, usbbus, history>>

\* When a hub loses its address its ports go off; it reports what is attached
\* to them once it is configured again.
Silence(p, own) ==
  /\ answers' = [q \in Places |-> IF q \in Below(p) THEN 0 ELSE answers[q]]
  /\ port' = [q \in Places |->
       CASE q = p -> own
         [] q \in Below(p) \ {p} ->
              [enabled |-> FALSE, changes |-> IF plug'[q] = None THEN {} ELSE {"connection"}]
         [] OTHER -> port[q]]

Detach(p) ==
  /\ Upset
  /\ plug[p] # None
  /\ plug' = [q \in Places |-> IF q \in Below(p) THEN None ELSE plug[q]]
  /\ Silence(p, [enabled |-> FALSE, changes |-> port[p].changes \cup {"connection"}])
  /\ UNCHANGED <<hw, driver, call, usbbus, history>>

\* The port disables itself under the device.
PortError(p) ==
  /\ Upset
  /\ plug[p] # None /\ port[p].enabled
  /\ UNCHANGED <<plug, hw, driver, call, usbbus, history>>
  /\ Silence(p, [enabled |-> FALSE, changes |-> port[p].changes \cup {"enable"}])

-----------------------------------------------------------------------------
(***************************************************************************)
(* Commands.                                                               *)
(***************************************************************************)

\* XhcCmdTransfer: what the driver is told and whether the controller did it.
Answers == {[status |-> "SUCCESS", done |-> TRUE],
            [status |-> "DEVICE_ERROR", done |-> FALSE],
            [status |-> "TIMEOUT", done |-> FALSE],
            [status |-> "TIMEOUT", done |-> TRUE]}

\* An answer the controller may give: one it has no choice but to refuse is
\* refused, any other fails at the cost of an upset.
Answer(a, possible) ==
  IF possible
  THEN IF a.status = "SUCCESS" THEN UNCHANGED upsets
       ELSE Upset
  ELSE a = [status |-> "DEVICE_ERROR", done |-> FALSE] /\ UNCHANGED upsets

\* The entry of a disabled slot is not cleared: it still tells the address.
Closed(e) ==
  [enabled |-> FALSE, slot |-> 0, route |-> e.route, parent |-> e.parent,
   xhciAddr |-> e.xhciAddr, busAddr |-> e.busAddr, rings |-> {},
   described |-> e.described, alt |-> e.alt]

\* A ring that is freed leaves the transfers queued on it behind.
FreeRings(S) == {IF u.slot \in S /\ u.ring = "own" THEN [u EXCEPT !.ring = "freed"]
                 ELSE u : u \in urbs}

\* XhcDisableSlotCmd on s: the slots of failed are those below and including s
\* whose own command failed.  A child that could not be disabled gives up its
\* slot id, s itself stays as it is.
DisableSlot(s, failed, executed) ==
  /\ {t \in Subtree(s) : ~hw[t].on} \subseteq failed
  /\ executed \subseteq {t \in failed : hw[t].on}
  /\ LET cost == Cardinality({t \in failed : hw[t].on})
     IN  upsets + cost <= MaxUpsets /\ upsets' = upsets + cost
  /\ ctx' = [t \in Slots |->
       CASE t \notin Subtree(s) -> ctx[t]
         [] t \in Subtree(s) \ failed -> Closed(ctx[t])
         [] t \in failed \ {s} -> [ctx[t] EXCEPT !.slot = 0]
         [] OTHER -> ctx[t]]
  /\ hw' = [t \in Slots |->
       IF t \in (Subtree(s) \ failed) \cup executed THEN SlotOff ELSE hw[t]]
  /\ answers' = [p \in Places |->
       IF answers[p] \in (Subtree(s) \ failed) \cup executed THEN 0 ELSE answers[p]]
  /\ urbs' = FreeRings(Subtree(s) \ failed)
  /\ stuck' = (stuck \ Subtree(s)) \cup failed
  /\ botched' = (botched \/ failed # {})

-----------------------------------------------------------------------------
(***************************************************************************)
(* XhcPollPortStatusChange.                                                *)
(***************************************************************************)

\* The device at p answers through address a: UsbBus's request arrives.
Reaches(a, p) ==
  LET s == BusDevAddrToSlotId(a) IN s # 0 /\ hw[s].on /\ answers[p] = s

\* The port status bits that carry the speed, and the speed read from them.
SpeedBits(k) == CASE k.speed = "low" -> {"LOW"} [] k.speed = "high" -> {"HIGH"} [] OTHER -> {}
Speed(bits) == IF "LOW" \in bits THEN "low" ELSE IF "HIGH" \in bits THEN "high" ELSE "full"

\* UsbBus asks for the status of port p, of a root port through
\* XhcGetRootHubPortStatus, of a hub's by a request to the hub, whose reply the
\* driver intercepts.  Both clear the change bits they read.
CanPoll(p) ==
  /\ port[p].changes # {}
  /\ ~IsRoot(p) => Hub(p) \in hubs /\ Reaches(bus[Hub(p)], Hub(p))

ParentChart(p) == IF IsRoot(p) THEN <<>> ELSE ctx[BusDevAddrToSlotId(bus[Hub(p)])].route

PollPort(p) ==
  LET chart == RouteChart(ParentChart(p), p[Len(p)])
      connected == plug[p] # None
  IN  /\ CanPoll(p)
      /\ port' = [port EXCEPT ![p].changes = {}]
      /\ call' = [at |-> IF SlotsOn(chart) # {} THEN "old" ELSE "attempt",
                  chart |-> chart, parent |-> ParentChart(p), portNumber |-> p[Len(p)],
                  connected |-> connected, up |-> port[p].enabled /\ connected,
                  reset |-> "reset" \in port[p].changes,
                  speed |-> Speed(SpeedBits(plug[p])),
                  status |-> "SUCCESS", retries |-> Retries, slot |-> 0]
      /\ UNCHANGED <<plug, answers, hw, driver, upsets, history>>

\* What the caller is told: only a command that times out may have been done.
Outcomes(s, failed, executed) ==
  IF s \notin failed THEN {"SUCCESS"}
  ELSE IF s \in executed THEN {"TIMEOUT"}
  ELSE IF hw[s].on THEN {"DEVICE_ERROR", "TIMEOUT"} ELSE {"DEVICE_ERROR"}

\* The slot of whatever was at the port before goes first.
DisableOld ==
  /\ call.at = "old"
  /\ LET s == RouteStringToSlotId(call.chart)
     IN  \E failed \in SUBSET Subtree(s) : \E executed \in SUBSET failed :
           \E status \in Outcomes(s, failed, executed) :
             /\ DisableSlot(s, failed, executed)
             /\ call' = [call EXCEPT !.at = "attempt", !.status = status]
  /\ UNCHANGED <<plug, port, usbbus>>

\* One round of the retry loop, which needs a device on the port.
Round == call.at = "attempt" /\ call.up

\* Seeded fault: a slot already on the place is not looked for.
NeedsSlotAnyway == call.reset

NeedsSlot == SlotsOn(call.chart) = {} /\ call.reset

\* The loop's condition, after a round with this status.
Again(status) == status = "DEVICE_ERROR" /\ call.retries # 0
NextRound(status) ==
  IF Again(status) THEN [call EXCEPT !.at = "attempt", !.status = status, !.retries = @ - 1]
  ELSE [call EXCEPT !.at = "done", !.status = status]

EndPoll ==
  /\ call.at = "attempt" /\ ~call.up
  /\ call' = [call EXCEPT !.at = "done"]
  /\ UNCHANGED <<world, hw, driver, usbbus, upsets, history>>

\* A round without a slot to set up changes nothing.
IdleRound ==
  /\ Round /\ ~NeedsSlot
  /\ call' = NextRound(call.status)
  /\ UNCHANGED <<world, hw, driver, usbbus, upsets, history>>

\* Enable Slot: the controller gives any slot that is off, and the entry of
\* that slot is overwritten, whatever it held.
NewEntry(s) ==
  [enabled |-> TRUE, slot |-> s, route |-> call.chart, parent |-> call.parent,
   xhciAddr |-> FALSE, busAddr |-> 0, rings |-> {}, described |-> FALSE, alt |-> 0]
Forget(s) == {IF u.slot = s /\ u.ring = "own" THEN [u EXCEPT !.ring = "lost"] ELSE u : u \in urbs}

EnableSlot ==
  /\ Round /\ NeedsSlot
  /\ LET free == {s \in Slots : ~hw[s].on}
     IN  \E a \in Answers :
           /\ Answer(a, free # {})
           /\ IF a.done
              THEN \E s \in free :
                     /\ hw' = [hw EXCEPT ![s].on = TRUE]
                     /\ IF a.status = "SUCCESS"
                        THEN /\ ctx' = [ctx EXCEPT ![s] = NewEntry(s)]
                             /\ urbs' = Forget(s)
                             /\ stuck' = stuck \ {s} /\ UNCHANGED botched
                             /\ call' = [call EXCEPT !.at = "address", !.slot = s]
                        ELSE /\ call' = NextRound(a.status)
                             /\ UNCHANGED <<driver, history>>
              ELSE /\ call' = NextRound(a.status)
                   /\ UNCHANGED <<hw, driver, history>>
  /\ UNCHANGED <<world, usbbus>>

\* The transaction translator: the nearest high speed hub, found by its parent's
\* slot context, which has inherited it.
SpeedSet(parent) == IF call.speed = "high" /\ hw[parent].tt # NoTT THEN hw[parent].speed ELSE call.speed

\* Seeded fault: only the parent is considered.
TTOfParent(parent) ==
  IF hw[parent].speed = "high" /\ call.speed # "high"
  THEN [hub |-> parent, port |-> call.portNumber] ELSE NoTT

TTOf(parent) ==
  IF hw[parent].tt # NoTT THEN hw[parent].tt
  ELSE IF hw[parent].speed = "high" /\ call.speed # "high"
       THEN [hub |-> parent, port |-> call.portNumber] ELSE NoTT

SlotContext(s) ==
  IF Len(call.chart) = 1 THEN [hw[s] EXCEPT !.speed = call.speed]
  ELSE LET parent == RouteStringToSlotId(call.parent)
       IN  [hw[s] EXCEPT !.speed = SpeedSet(parent), !.tt = TTOf(parent)]

\* Address Device, which a device that waits for an address on the route answers.
AddressDevice ==
  /\ call.at = "address"
  /\ LET s == call.slot
         waiting == {p \in Places : /\ Route[p] = call.chart /\ plug[p] # None
                                    /\ port[p].enabled /\ answers[p] = 0}
     IN  \E a \in Answers :
           /\ Answer(a, waiting # {})
           /\ IF a.done
              THEN /\ hw' = [hw EXCEPT ![s] = SlotContext(s)]
                   /\ answers' = [p \in Places |-> IF p \in waiting THEN s ELSE answers[p]]
              ELSE UNCHANGED <<hw, answers>>
           /\ IF a.status = "SUCCESS"
              THEN /\ ctx' = [ctx EXCEPT ![s].xhciAddr = TRUE]
                   /\ call' = [call EXCEPT !.at = "done", !.status = "SUCCESS"]
              ELSE /\ call' = [call EXCEPT !.at = "undo", !.status = a.status]
                   /\ UNCHANGED ctx
  /\ UNCHANGED <<plug, port, urbs, usbbus, history>>

\* A device that took no address loses its slot; whether it does is ignored.
UndoSlot ==
  /\ call.at = "undo"
  /\ \E failed \in SUBSET Subtree(call.slot) : \E executed \in SUBSET failed :
       DisableSlot(call.slot, failed, executed)
  /\ call' = NextRound(call.status)
  /\ UNCHANGED <<plug, port, usbbus>>

PollStep ==
  DisableOld \/ EndPoll \/ IdleRound \/ EnableSlot \/ AddressDevice \/ UndoSlot

-----------------------------------------------------------------------------
(***************************************************************************)
(* UsbBus enumerates a port.                                               *)
(***************************************************************************)

Enumerating(at) == call.at = "idle" /\ enum.at = at
Goto(at) == enum' = [enum EXCEPT !.at = at]
GiveUp == enum' = [at |-> "idle"]

\* known: UsbBus has the descriptors already and will not ask for them.
StartReset(p, known) == enum' = [at |-> "reset", place |-> p, known |-> known]

BusPolls(p) ==
  /\ Enumerating("idle")
  /\ PollPort(p)
  /\ enum' = [at |-> "polled", place |-> p]
  /\ UNCHANGED <<bus, ready, hubs>>

\* A change means that whatever was there is gone, with everything below.
BusLearns ==
  /\ call.at = "done" /\ enum.at = "polled"
  /\ enum' = [at |-> "remove", place |-> enum.place, connected |-> call.connected,
              todo |-> {u \in urbs : \E p \in Below(enum.place) : u.addr = bus[p]}]
  /\ call' = [at |-> "idle"]
  /\ UNCHANGED <<world, hw, driver, bus, ready, hubs, upsets, history>>

\* XhcAsyncInterruptTransfer removes a transfer if any entry, of a slot in use
\* or not, still has the address.
Cancel(u) ==
  urbs' = IF \E s \in Slots : ctx[s].busAddr = u.addr THEN urbs \ {u} ELSE urbs

BusCancels ==
  /\ Enumerating("remove")
  /\ \E u \in enum.todo :
       /\ Cancel(u)
       /\ enum' = [enum EXCEPT !.todo = @ \ {u}]
  /\ UNCHANGED <<world, hw, ctx, call, bus, ready, hubs, upsets, history>>

BusReleases ==
  /\ Enumerating("remove")
  /\ enum.todo = {}
  /\ bus' = [p \in Places |-> IF p \in Below(enum.place) THEN 0 ELSE bus[p]]
  /\ ready' = ready \ Below(enum.place) /\ hubs' = hubs \ Below(enum.place)
  /\ IF enum.connected THEN StartReset(enum.place, FALSE) ELSE GiveUp
  /\ UNCHANGED <<world, hw, driver, call, upsets, history>>

\* A reset enables the port, and the device forgets its address.
BusResets ==
  /\ Enumerating("reset")
  /\ UNCHANGED plug
  /\ LET p == enum.place
     IN  IF IsRoot(p) \/ Reaches(bus[Hub(p)], Hub(p))
         THEN /\ Goto("await")
              /\ IF plug[p] = None THEN UNCHANGED <<port, answers>>
                 ELSE Silence(p, [enabled |-> TRUE, changes |-> port[p].changes \cup {"reset"}])
         ELSE GiveUp /\ UNCHANGED <<port, answers>>
  /\ UNCHANGED <<hw, driver, call, bus, ready, hubs, upsets, history>>

BusAwaits ==
  /\ Enumerating("await")
  /\ IF CanPoll(enum.place)
     THEN PollPort(enum.place) /\ Goto("await")
     ELSE GiveUp /\ UNCHANGED <<world, hw, driver, call, upsets, history>>
  /\ UNCHANGED <<bus, ready, hubs>>

BusReset ==
  /\ call.at = "done" /\ enum.at = "await"
  /\ IF call.connected THEN Goto("address") ELSE GiveUp
  /\ call' = [at |-> "idle"]
  /\ UNCHANGED <<world, hw, driver, bus, ready, hubs, upsets, history>>

\* Set_Address: the device at address 0 is the one meant, and the address is
\* wiped from entries no longer in use.
FreeAddress == Lowest(Addresses \ {bus[p] : p \in Places})

SetAddress ==
  /\ Enumerating("address")
  /\ LET p == enum.place
         a == IF bus[p] # 0 THEN bus[p] ELSE FreeAddress
         s == BusDevAddrToSlotId(0)
         wiped == [t \in Slots |->
           IF ~ctx[t].enabled /\ ctx[t].slot = 0 /\ ctx[t].busAddr = a
           THEN [ctx[t] EXCEPT !.busAddr = 0] ELSE ctx[t]]
     IN  /\ bus' = [bus EXCEPT ![p] = a]
         /\ CASE s = 0 -> GiveUp /\ UNCHANGED ctx
              [] s # 0 /\ ~ctx[s].xhciAddr -> GiveUp /\ ctx' = wiped
              [] OTHER -> Goto(IF enum.known THEN "config" ELSE "describe") /\ ctx' = [wiped EXCEPT ![s].busAddr = a]
  /\ UNCHANGED <<world, hw, urbs, call, ready, hubs, upsets, history>>

\* A request is answered by the device behind the slot of its address; the
\* driver follows it up with a command about that slot.
Answered(a) == \E p \in Places : Reaches(a, p)
DeviceAt(a) == plug[CHOOSE p \in Places : Reaches(a, p)]

Asks(at) == Enumerating(at) /\ Answered(bus[enum.place])
Addressed == BusDevAddrToSlotId(bus[enum.place])
Proceed(c, at) == IF c.status = "SUCCESS" THEN Goto(at) ELSE GiveUp

\* Get_Descriptor(device) and Evaluate Context.
GetDeviceDescriptor ==
  /\ Asks("describe")
  /\ \E c \in Answers : Answer(c, TRUE) /\ Proceed(c, "config")
  /\ ctx' = [ctx EXCEPT ![Addressed].described = TRUE]
  /\ UNCHANGED <<world, hw, urbs, call, bus, ready, hubs, history>>

\* Get_Descriptor(configuration), Set_Config and Configure Endpoint; without the
\* device's descriptor there is no configuration to look through.
SetConfig ==
  /\ Asks("config")
  /\ LET s == Addressed
         next == IF ~enum.known /\ DeviceAt(bus[enum.place]).hub THEN "hub" ELSE "start"
     IN  IF ctx[s].described
         THEN \E c \in Answers :
                /\ Answer(c, TRUE) /\ Proceed(c, next)
                /\ ctx' = [ctx EXCEPT ![s].rings = @ \cup Endpoints(0), ![s].alt = 0]
                /\ hw' = IF ~c.done THEN hw
                         ELSE [hw EXCEPT ![s].eps = [e \in Eps |->
                                 IF e \in Endpoints(0) THEN "running" ELSE @[e]]]
         ELSE Goto(next) /\ UNCHANGED <<ctx, hw, upsets>>
  /\ UNCHANGED <<world, urbs, call, bus, ready, hubs, history>>

\* Get_Descriptor(hub) and the slot context of a hub.
ConfigHub ==
  /\ Asks("hub")
  /\ \E c \in Answers :
       /\ Answer(c, TRUE) /\ Proceed(c, "start")
       /\ hw' = IF c.done THEN [hw EXCEPT ![Addressed].hub = TRUE] ELSE hw
       /\ hubs' = IF c.status = "SUCCESS" THEN hubs \cup {enum.place} ELSE hubs
  /\ UNCHANGED <<world, driver, call, bus, ready, history>>

BusStarts ==
  /\ Enumerating("start")
  /\ ready' = ready \cup {enum.place}
  /\ GiveUp
  /\ UNCHANGED <<world, hw, driver, call, bus, hubs, upsets, history>>

\* A device that does not answer is left as it is, its address taken.
BusAbandons ==
  /\ \E at \in {"describe", "config", "hub"} : Enumerating(at)
  /\ ~Answered(bus[enum.place])
  /\ GiveUp
  /\ UNCHANGED <<world, hw, driver, call, bus, ready, hubs, upsets, history>>

-----------------------------------------------------------------------------
(***************************************************************************)
(* Class drivers use what is configured.                                   *)
(***************************************************************************)

Using(p) == Enumerating("idle") /\ p \in ready
Subscribed(p) == {u \in urbs : u.addr = bus[p]}

\* The endpoints whose ring was freed and not replaced in the controller.
Stopped(s) == {e \in Eps : hw[s].eps[e] = "freed"}

\* A new asynchronous interrupt transfer; without a ring there is none.
\* A class driver whose Set_Interface failed half-way starts none.
Subscribe(p) ==
  /\ Using(p) /\ Subscribed(p) = {}
  /\ LET s == BusDevAddrToSlotId(bus[p])
     IN  /\ s # 0 /\ "int" \in ctx[s].rings /\ Stopped(s) = {}
         /\ urbs' = urbs \cup {[addr |-> bus[p], slot |-> s, ring |-> "own"]}
  /\ UNCHANGED <<world, hw, ctx, call, usbbus, upsets, history>>

Unsubscribe(p) ==
  /\ Using(p)
  /\ \E u \in Subscribed(p) : Cancel(u)
  /\ UNCHANGED <<world, hw, ctx, call, usbbus, upsets, history>>

\* Set_Interface: each endpoint of the setting left behind is stopped and its
\* ring freed; an endpoint that will not stop ends the call.
Leave(s, S) ==
  /\ ctx' = [ctx EXCEPT ![s].rings = @ \ S]
  /\ hw' = [hw EXCEPT ![s].eps = [e \in Eps |-> IF e \in S THEN "freed" ELSE @[e]]]

StopFails(s) ==
  /\ \E S \in SUBSET Endpoints(ctx[s].alt) :
       /\ S # Endpoints(ctx[s].alt) /\ S \cap Stopped(s) = {}
       /\ Leave(s, S)
  /\ IF Stopped(s) \cap Endpoints(ctx[s].alt) # {} THEN UNCHANGED upsets
     ELSE Upset

\* Seeded fault: the endpoints of the old setting are not dropped.
ConfiguredOnTop(s, alt) ==
  [e \in Eps |-> IF e \in Endpoints(alt) \cup Endpoints(ctx[s].alt) THEN "running" ELSE "none"]

\* Configure Endpoint drops the endpoints of the old setting and adds the new.
Configured(s, alt) == [e \in Eps |-> IF e \in Endpoints(alt) THEN "running" ELSE "none"]

\* Then the rings of the new setting are made and its endpoints configured.
ConfigureInterface(s, alt) ==
  /\ Stopped(s) \cap Endpoints(ctx[s].alt) = {}
  /\ \E c \in Answers :
       /\ Answer(c, TRUE)
       /\ ctx' = [ctx EXCEPT ![s].rings = (@ \ Endpoints(ctx[s].alt)) \cup Endpoints(alt),
                             ![s].alt = IF c.status = "SUCCESS" THEN alt ELSE @]
       /\ hw' = [hw EXCEPT ![s].eps = [e \in Eps |->
                   IF c.done THEN Configured(s, alt)[e]
                   ELSE IF e \in Endpoints(ctx[s].alt) THEN "freed" ELSE @[e]]]

SetInterface(p, alt) ==
  /\ Using(p) /\ Subscribed(p) = {}
  /\ Answered(bus[p]) /\ p \notin hubs
  /\ LET s == BusDevAddrToSlotId(bus[p])
     IN  /\ ctx[s].alt # alt
         /\ StopFails(s) \/ ConfigureInterface(s, alt)
  /\ UNCHANGED <<world, urbs, call, usbbus, history>>

\* A class driver resets its device, which then gets the address and the
\* configuration it had.
ClassReset(p) ==
  /\ Upset
  /\ Using(p) /\ p \notin hubs /\ Subscribed(p) = {}
  /\ StartReset(p, TRUE)
  /\ ready' = ready \ {p}
  /\ UNCHANGED <<world, hw, driver, call, bus, hubs, history>>

-----------------------------------------------------------------------------
Next ==
  \/ \E p \in Places : \E k \in Kinds[p] : Attach(p, k)
  \/ \E p \in Places : Detach(p) \/ PortError(p)
  \/ PollStep
  \/ \E p \in Places : BusPolls(p)
  \/ BusLearns \/ BusCancels \/ BusReleases \/ BusResets \/ BusAwaits \/ BusReset
  \/ SetAddress \/ GetDeviceDescriptor \/ SetConfig \/ ConfigHub \/ BusStarts \/ BusAbandons
  \/ \E p \in Places : Subscribe(p) \/ Unsubscribe(p) \/ ClassReset(p)
  \/ \E p \in Places, alt \in Alternates : SetInterface(p, alt)

Spec == Init /\ [][Next]_vars

-----------------------------------------------------------------------------
(***************************************************************************)
(* Properties.                                                             *)
(***************************************************************************)

\* Every variable has its type.
Devices == [speed : {"low", "full", "high"}, hub : BOOLEAN] \cup {None}
Charts == {Route[p] : p \in Places} \cup {<<>>}
TransferList == [addr : Addresses \cup {0}, slot : Slots, ring : {"own", "freed", "lost"}]
Entries ==
  [enabled : BOOLEAN, slot : Slots \cup {0}, route : Charts, parent : Charts,
   xhciAddr : BOOLEAN, busAddr : Addresses \cup {0}, rings : SUBSET Eps,
   described : BOOLEAN, alt : Alternates]
SlotContexts ==
  [on : BOOLEAN, speed : {"none", "low", "full", "high"},
   tt : [hub : Slots \cup {0}, port : Nat], hub : BOOLEAN,
   eps : [Eps -> {"none", "running", "freed"}]]
Polls ==
  [at : {"old", "attempt", "address", "undo", "done"}, chart : Charts, parent : Charts,
   portNumber : Nat, connected : BOOLEAN, up : BOOLEAN, reset : BOOLEAN,
   speed : {"low", "full", "high"}, status : {"SUCCESS", "DEVICE_ERROR", "TIMEOUT"},
   retries : 0 .. Retries, slot : Slots \cup {0}]
Configuring == {"reset", "await", "address", "describe", "config", "hub", "start"}
Enumerations ==
  {[at |-> "idle"]} \cup [at : {"polled"}, place : Places]
  \cup [at : {"remove"}, place : Places, connected : BOOLEAN, todo : SUBSET TransferList]
  \cup [at : Configuring, place : Places, known : BOOLEAN]

WorldOK ==
  /\ plug \in [Places -> Devices]
  /\ port \in [Places -> [enabled : BOOLEAN, changes : SUBSET {"connection", "reset", "enable"}]]
  /\ answers \in [Places -> Slots \cup {0}]
DriverOK ==
  /\ hw \in [Slots -> SlotContexts]
  /\ ctx \in [Slots -> Entries]
  /\ urbs \subseteq TransferList
  /\ call \in Polls \cup {[at |-> "idle"]}
BusOK ==
  /\ bus \in [Places -> Addresses \cup {0}]
  /\ ready \subseteq Places /\ hubs \subseteq Places
  /\ enum \in Enumerations
BoundOK == upsets \in 0 .. MaxUpsets /\ stuck \subseteq Slots /\ botched \in BOOLEAN
TypeOK == WorldOK /\ DriverOK /\ BusOK /\ BoundOK

\* XhcRouteStringToSlotId takes the first entry on a route for the only one: at
\* most one slot in use stands for a place, whatever commands fail and however
\* often XhcPollPortStatusChange tries again.
OneSlotPerPlace ==
  \A s, t \in Slots : Live(s) /\ Live(t) /\ ctx[s].route = ctx[t].route => s = t

\* XhcDisableSlotCmd takes the devices behind a hub down with it, also where one
\* of them fails: no slot is in use whose hub has none.
HubsOutliveDevices ==
  \A s \in Slots : Live(s) /\ ctx[s].parent # <<>> =>
    \E t \in Slots : Live(t) /\ ctx[t].route = ctx[s].parent

\* "Xhci driver would be responsible for translating it to actual device address"
\* (Xhci.h): the address of a device UsbBus has configured leads to that
\* device's slot or to none, as long as no slot could not be disabled.  One that
\* could not keeps its address and answers for whoever is given it next.
AddressFindsDevice ==
  ~botched => \A p \in ready :
    LET s == BusDevAddrToSlotId(bus[p]) IN s # 0 => ctx[s].route = Route[p]

\* XhcMonitorAsyncRequests follows a transfer whose address leads to a slot: that
\* slot is the transfer's own and its ring has not been freed or replaced, at
\* every point where the timer may strike.  The same exception: while two slots
\* have one address, the loss of the one leaves its transfer to the other.
MonitorSafe ==
  ~botched => \A u \in urbs :
    LET s == BusDevAddrToSlotId(u.addr) IN s # 0 => u.slot = s /\ u.ring = "own"

\* "It needs the device address mapping info to remove urb from XHCI's
\* asynchronous transfer list" (XhcDisableSlotCmd): a transfer in the list can
\* be cancelled through the address it was made for, the slot gone or not.  The
\* same exception: a slot left without an address takes that of the next device,
\* and the transfers made through it outlive the entry.
CancelFindsTransfer ==
  ~botched => \A u \in urbs : \E s \in Slots : ctx[s].busAddr = u.addr

\* The slot context names the transaction translator: for a device slower than
\* high speed the nearest high speed hub above it, at the port that leads to the
\* device; any other has none.
TTFollowsTree ==
  \A p \in Places : answers[p] # 0 =>
    LET above == {q \in Places : p \in Below(q) /\ q # p /\ plug[q].speed = "high"}
        near == CHOOSE q \in above : \A r \in above : Len(r) <= Len(q)
    IN  hw[answers[p]].tt =
          IF plug[p].speed = "high" \/ above = {} THEN NoTT
          ELSE [hub |-> answers[near], port |-> p[Len(near) + 1]]

\* A command that fails half-way through Set_Interface or Set_Config leaves no
\* endpoint running on a ring the driver has freed.
RunningRingsOwned ==
  \A s \in Slots, e \in Eps : Live(s) /\ hw[s].eps[e] = "running" => e \in ctx[s].rings

\* When UsbBus has seen every change and nothing is under way, each slot in use,
\* unless it could not be disabled, stands for a place with a device.
Quiet == call.at = "idle" /\ enum.at = "idle" /\ \A p \in Places : port[p].changes = {}
SlotsFollowPlugs ==
  Quiet => \A s \in Slots \ stuck : Live(s) =>
    \E p \in Places : Route[p] = ctx[s].route /\ plug[p] # None

\* XhcPollPortStatusChange keeps the slots in step with the tree: none without
\* its hub at any moment, none without its device once every change is seen.
SlotsFollowTree == HubsOutliveDevices /\ SlotsFollowPlugs

\* An address UsbBus holds, of a device or of a transfer still in the list,
\* finds the entry it stands for.
DevicesFound == AddressFindsDevice /\ CancelFindsTransfer

\* Neither the monitor nor the controller walks a ring that was freed.
RingsOwned == MonitorSafe /\ RunningRingsOwned
=============================================================================
