-------------------------------- MODULE UsbBoot --------------------------------
(***************************************************************************)
(* A boot as far as USB is concerned: the DXE drivers of UsbLane, BDS      *)
(* connecting the controller, and the loop of                              *)
(* PlatformBootManagerAfterConsole that re-initialises it until every port *)
(* that reports a device has an enumerated device behind it.  The bus      *)
(* driver enumerates from a timer all the while.                           *)
(***************************************************************************)
EXTENDS UsbLane, FiniteSets

CONSTANTS
    Devs,          \* the devices plugged in
    Parent,        \* the hub a device is plugged into, or "root"
    Mute,          \* hubs that refuse the USB 2 hub descriptor
    SuperDevs,     \* devices reached over SuperSpeed
    MaxAttempts    \* VIM3_USB_ENUM_MAX_ATTEMPTS

ASSUME TreeAssumption ==
    /\ IsFiniteSet(Devs)
    /\ Parent \in [Devs -> Devs \union {"root"}] /\ "root" \notin Devs
    /\ Mute \subseteq Devs /\ SuperDevs \subseteq Devs
    /\ MaxAttempts \in Nat \ {0}

VARIABLES
    left,          \* DXE drivers not dispatched yet
    fromUsb,       \* the board was booted over USB
    registered,    \* the XHCI is registered as a non-discoverable device
    hc,            \* a handle has EFI_USB2_HC_PROTOCOL
    seen,          \* devices whose port reports a connection
    change,        \* devices whose port has its change bit set
    up,            \* enumerated devices
    attempt,       \* Attempt
    prev, best,    \* PrevDevices, MaxPorts
    devices, ports,\* Devices, ConnectedPorts
    counted,       \* history: the devices counted in this pass
    view,          \* history: the ports that reported when the count began
    read, known,   \* history: the ports counted in this pass, and in any
    hostLost,      \* history: the loop began, or went on, without a controller
    accepted       \* the loop ended by its break

tree    == <<hc, seen, change, up>>
tally   == <<devices, ports, counted, view, read, known>>
loop    == <<attempt, prev, best>>
boot    == <<left, fromUsb, registered, hostLost, accepted>>
vars    == <<laneVars, tree, tally, loop, boot>>

Init ==
    /\ LaneInit
    /\ left = {"bridge", "usb"} /\ fromUsb \in BOOLEAN /\ registered = FALSE
    /\ hc = FALSE /\ seen = {} /\ change = {} /\ up = {}
    /\ attempt = 0 /\ prev = 0 /\ best = 0 /\ devices = 0 /\ ports = 0
    /\ counted = {} /\ view = {} /\ read = {} /\ known = {}
    /\ hostLost = FALSE /\ accepted = FALSE

Roots    == {d \in Devs : Parent[d] = "root"}
HubPorts == {d \in seen : Parent[d] \in up}
\* Without its reference clock and its tuning the SuperSpeed port sees nothing.
Reachable == IF tuned /\ pll THEN Devs ELSE Devs \ SuperDevs

-----------------------------------------------------------------------------
(* The dispatcher and the first connection. *)

Dispatch(m) ==
    /\ at = "dispatch" /\ m \in left
    /\ left' = left \ {m}
    /\ at' = CASE m = "bridge" -> "bridge"
               [] m = "usb" /\ fromUsb -> "usbInit"
               [] OTHER -> "dispatch"
    /\ ret' = "dispatch"
    /\ registered' = (registered \/ (m = "usb" /\ ~fromUsb))
    /\ UNCHANGED <<lane, good, tuned, bus, faults, tree, tally, loop, fromUsb, hostLost, accepted>>

\* Connect a host controller whose driver has not been started: it brings the
\* hardware up first.
ConnectThen(then) ==
    /\ IF registered /\ ~hc THEN Goto("usbInit") ELSE Goto(then)
    /\ ret' = then
    /\ UNCHANGED <<lane, good, tuned, bus, faults, tree, tally, loop, boot>>

\* PlatformBootManagerBeforeConsole connects what IsUsbHost recognises; the USB
\* keyboard's short-form path makes BDS connect it once more, before the loop
\* and after it.
ConnectUsbHosts    == at = "dispatch" /\ left = {} /\ ConnectThen("consoles")
ConnectAllConsoles == \/ at = "consoles" /\ ConnectThen("stall")
                      \/ at = "loopEnd" /\ ConnectThen("menu")

\* The host controller driver starts over the initialised hardware, or fails to.
HostStarts ==
    /\ at = "started" /\ Goto(ret)
    /\ \/ hc' = TRUE /\ UNCHANGED <<faults, hostLost>>
       \/ hc' = FALSE /\ hostLost' = (hostLost \/ ret = "stall") /\ Fault
    /\ UNCHANGED <<ret, lane, good, tuned, bus, seen, change, up, tally, loop,
                   left, fromUsb, registered, accepted>>
HostMissing ==
    /\ at = "noHost" /\ Goto(ret)
    /\ hostLost' = (hostLost \/ ret = "stall")
    /\ UNCHANGED <<ret, lane, good, tuned, bus, faults, tree, tally, loop,
                   left, fromUsb, registered, accepted>>

-----------------------------------------------------------------------------
(* The devices and the bus driver's timer. *)

MayAppear(d) == hc /\ d \in Reachable \ seen /\ (d \in Roots \/ Parent[d] \in up)

Appear(d) ==
    /\ MayAppear(d)
    /\ seen' = seen \union {d} /\ change' = change \union {d}
    /\ UNCHANGED <<laneVars, hc, up, tally, loop, boot>>

\* A port is looked at only while its change bit is set, and only once.
Enumerate(d) ==
    /\ d \in change
    /\ change' = change \ {d}
    /\ \/ up' = up \union {d} /\ UNCHANGED faults
       \/ UNCHANGED up /\ Fault
    /\ UNCHANGED <<at, ret, lane, good, tuned, bus, hc, seen, tally, loop, boot>>

\* The stall is long enough for all of it, unless a device is slow.
Settled == change = {} /\ \A d \in Devs : ~MayAppear(d)

-----------------------------------------------------------------------------
(* The loop. *)

StallEnds ==
    /\ at = "stall" /\ attempt < MaxAttempts
    /\ Goto("countDevices")
    /\ (Settled /\ UNCHANGED faults) \/ (~Settled /\ Fault)
    /\ UNCHANGED <<ret, lane, good, tuned, bus, tree, tally, loop, boot>>

Vim3CountUsbDevices ==
    /\ at = "countDevices" /\ Goto("countRoots")
    /\ devices' = Cardinality(up) /\ counted' = up
    /\ UNCHANGED <<ret, lane, good, tuned, bus, faults, tree, ports, view, read, known, loop, boot>>

\* Reading a port's status clears its change bit, whoever reads it.
CountRootPorts ==
    /\ at = "countRoots" /\ Goto("countHubs")
    /\ ports' = Cardinality(seen \intersect Roots)
    /\ change' = change \ Roots
    /\ view' = seen
    /\ UNCHANGED <<ret, lane, good, tuned, bus, faults, hc, seen, up, devices, counted,
                   read, known, loop, boot>>

\* Hubs that refuse the descriptor, and ports that give no status, are skipped.
SkippedAlways == {d \in HubPorts : Parent[d] \in Mute}
CountHubPortsThenDevices ==
    /\ at = "countHubs" /\ Goto("decide")
    /\ ports' = ports + Cardinality(HubPorts \ SkippedAlways)
    /\ change' = change \ (HubPorts \ SkippedAlways)
    /\ read' = (view \intersect Roots) \union (HubPorts \ SkippedAlways)
    /\ devices' = Cardinality(up)
    /\ best' = IF ports' > best THEN ports' ELSE best
    /\ known' = known \union read'
    /\ UNCHANGED <<ret, lane, good, tuned, bus, faults, hc, seen, up, counted, view,
                   attempt, prev, boot>>
CountHubPorts ==
    /\ at = "countHubs" /\ Goto("decide")
    /\ \E skipped \in SUBSET HubPorts :
          /\ SkippedAlways \subseteq skipped
          /\ (skipped = SkippedAlways /\ UNCHANGED faults) \/ (skipped # SkippedAlways /\ Fault)
          /\ LET found == HubPorts \ skipped
             IN /\ ports' = ports + Cardinality(found)
                /\ change' = change \ found
                /\ read' = (view \intersect Roots) \union found
    /\ best' = IF ports' > best THEN ports' ELSE best
    /\ known' = known \union read'
    /\ UNCHANGED <<ret, lane, good, tuned, bus, hc, seen, up, devices, counted, view,
                   attempt, prev, boot>>

CompleteStrictly == devices > 0 /\ devices > ports /\ ports >= best
Complete == devices > 0 /\ devices >= ports /\ ports >= best

Break ==
    /\ at = "decide" /\ Complete
    /\ Goto("loopEnd") /\ accepted' = TRUE
    /\ UNCHANGED <<ret, lane, good, tuned, bus, faults, tree, tally, loop,
                   left, fromUsb, registered, hostLost>>

\* What a pass has counted is not looked at again: the next one counts anew.
NextPass ==
    /\ devices' = 0 /\ ports' = 0
    /\ counted' = {} /\ view' = {} /\ read' = {} /\ UNCHANGED known

\* Still growing: the tree is left to itself.
ProgressOrSame == devices >= prev
Progress == devices > prev
Growing ==
    /\ at = "decide" /\ ~Complete /\ Progress
    /\ prev' = devices /\ attempt' = attempt + 1 /\ Goto("stall")
    /\ NextPass
    /\ UNCHANGED <<ret, lane, good, tuned, bus, faults, tree, best, boot>>

\* Stuck: disconnecting takes the driver, the tree and the PCI shim down, and
\* connecting runs MesonUsbInitialize again, on the handles found in this pass.
NextAttemptForgotten == attempt' = attempt
NextAttempt == attempt' = attempt + 1
Stuck == at = "decide" /\ ~Complete /\ ~Progress
ReInit ==
    /\ Stuck /\ hc
    /\ prev' = 0 /\ NextAttempt /\ NextPass
    /\ hc' = FALSE /\ seen' = {} /\ change' = {} /\ up' = {}
    /\ Goto("usbInit") /\ ret' = "stall"
    /\ UNCHANGED <<lane, good, tuned, bus, faults, best, boot>>
NothingToReInit ==
    /\ Stuck /\ ~hc
    /\ prev' = 0 /\ NextAttempt /\ NextPass /\ Goto("stall")
    /\ UNCHANGED <<ret, lane, good, tuned, bus, faults, tree, best, boot>>

AttemptsEnd ==
    /\ at = "stall" /\ attempt = MaxAttempts
    /\ Goto("loopEnd")
    /\ UNCHANGED <<ret, lane, good, tuned, bus, faults, tree, tally, loop, boot>>

-----------------------------------------------------------------------------
\* The entry point of MesonUsbDxe runs the bring-up without a controller driver.
Started(s) == IF ret = "dispatch" THEN "dispatch" ELSE s
BringUp  == DriverSteps("dispatch", Started("started"), Started("noHost")) /\ UNCHANGED <<tree, tally, loop, boot>>
PhyMoves == PhySteps /\ UNCHANGED <<tree, tally, loop, boot>>
BusMoves == \E d \in Devs : Appear(d) \/ Enumerate(d)
Flow ==
    \/ \E m \in left : Dispatch(m)
    \/ ConnectUsbHosts \/ ConnectAllConsoles \/ HostStarts \/ HostMissing
    \/ StallEnds \/ Vim3CountUsbDevices \/ CountRootPorts \/ CountHubPorts
    \/ Break \/ Growing \/ ReInit \/ NothingToReInit \/ AttemptsEnd
BdsGoesOn == at = "menu" /\ UNCHANGED vars

Next == BringUp \/ PhyMoves \/ BusMoves \/ Flow \/ BdsGoesOn

\* The firmware's own steps run on.  Nothing is expected of the PHY, the ports
\* and the devices: what they do not do within the polls or a stall is a fault.
Spec == Init /\ [][Next]_vars /\ WF_vars(BringUp) /\ WF_vars(Flow)

-----------------------------------------------------------------------------
(* The loop leaves a tree standing as whole only if every port that reported
   a device when its count began has that device enumerated, wherever the
   timer struck between the counts - provided every hub answered the count. *)
AcceptedTreeWhole ==
    accepted /\ view \intersect HubPorts \subseteq read => view \subseteq up

(* The comment over the loop: complete means that every port that reports a
   connected device, of the root hub and of every enumerated hub, has an
   enumerated device behind it. *)
CompleteMeansEnumerated == accepted => view \subseteq up

(* A tree that was whole when its devices were counted is torn down only if a
   port that was counted in some pass could not be read in this one, or if it
   is empty: a bus without a device is never complete. *)
WholeTreeKept ==
    [][ReInit => counted = {} \/ counted # Reachable \/ ~(known \subseteq read)]_vars

(* While the attempts outnumber three for each fault - a slow device, a failed
   enumeration, a hub that does not answer, a PHY that does not - and whatever
   change bits the counts take from the bus driver, the loop ends with a tree
   it accepts, unless a start of the controller itself failed: no later attempt
   finds a handle for it. *)
FaultsAreAbsorbed ==
    /\ at = "menu" /\ registered /\ ~hostLost
    /\ faults < MaxFaults /\ 3 * faults < MaxAttempts
    => accepted

(* The link the host bridge trained survives every bring-up of USB, the retries
   of the boot manager included, unless MesonUsbDxe's own reading of the lane
   mux failed. *)
TrainedLinkSurvives == linkUp => link \/ answer.usb # mux

(* A controller that is handed over is configured as the kernel's glue would,
   whatever an earlier boot or attempt left, and a SuperSpeed PHY that is
   reported tuned has every field set and every other bit preserved: the late
   answer to an abandoned handshake is never taken for a new one's. *)
ReadyMeansConfigured ==
    hc => /\ good = Settings
          /\ tuned => /\ steer = "usb3"
                      /\ \A r \in Tuned : cr.regs[r] = Word(r, "tuned")

(* The loop never holds a boot up for good, whatever the hardware does: a PHY
   that never acknowledges, a PLL that never locks, a port or hub that never
   settles and a controller that never starts are among its behaviours, and
   nothing but the time-outs and the limit on attempts ends them. *)
EveryBootReachesMenu == <>(at = "menu")
================================================================================
