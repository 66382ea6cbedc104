-------------------------------- MODULE UsbLane --------------------------------
(***************************************************************************)
(* The lane the SoC's only SuperSpeed PHY shares with PCIe, and the USB    *)
(* bring-up of MesonUsbDxe: Vim3PciHostBridgeLib trains the PCIe link when *)
(* it is loaded if the lane mux says so; MesonUsbInitialize runs each time *)
(* the controller's driver is started, and tunes the same PHY over its     *)
(* control-register bus unless the mux says PCIe.  Each of the two links   *)
(* Vim3PcieMuxLib, and so has a copy of its answer.                        *)
(***************************************************************************)
EXTENDS Naturals, Sequences

CONSTANTS Tuning,        \* the control registers MesonInitUsb3Phy tunes, in order
          MaxFaults      \* bound: faults of a boot that are told apart

ASSUME LaneAssumption == Tuning \in Seq(STRING) /\ Len(Tuning) > 0 /\ MaxFaults \in Nat

Tuned == {Tuning[i] : i \in 1..Len(Tuning)}

\* What MesonUsbInitialize leaves in the rails, clocks, glue and core.
Settings == {"rails", "gates", "hostport", "otgport", "superspeed", "pipe", "usb2phys",
             "core", "susphy", "framelength", "parkmode", "hostcap"}

VARIABLES
    at,            \* the step the boot is at
    ret,           \* where the boot goes on once MesonUsbInitialize has run
    mux,           \* the lane mux of the board
    answer,        \* mIsPcie of each module's copy, or "unread"
    pll,           \* the PCIe PLL has locked
    steer,         \* PHY_R0[6:5]
    link,          \* a PCIe link is trained over the PHY
    linkUp,        \* mMesonPcieLinkUp
    good,          \* the settings in force
    tuned,         \* MesonInitUsb3Phy ran to its end
    cr,            \* the control-register bus of the PHY
    n,             \* which strobe of the tuning program is next
    wait,          \* what U3PhyWaitAck polls for
    captured,      \* Data
    faults         \* history: things that went wrong; MaxFaults stands for as many or more

lane  == <<mux, answer, pll, steer, link, linkUp>>
bus   == <<cr, n, wait, captured>>
laneVars == <<at, ret, lane, good, tuned, bus, faults>>

Word(r, f) == [rest |-> r, field |-> f]
NoWord     == Word("none", "reset")
Untuned == [r \in Tuned \union {"none"} |-> Word(r, "reset")]
CrReset == [strobe |-> "none", val |-> NoWord, ack |-> FALSE, addr |-> "none",
            data |-> NoWord, out |-> NoWord, regs |-> Untuned]

LaneInit ==
    /\ at = "dispatch" /\ ret = "none"
    /\ mux \in {"usb3", "pcie"}
    /\ answer = [bridge |-> "unread", usb |-> "unread"]
    /\ pll = FALSE /\ steer = "pcie" /\ link = FALSE /\ linkUp = FALSE
    /\ good \in {{}, Settings \ {"hostport", "superspeed", "susphy"}}   \* inherited
    /\ tuned = FALSE
    /\ cr = CrReset /\ n = 0 /\ wait = "none" /\ captured = NoWord
    /\ faults = 0

Goto(s) == at' = s
\* Anything may fail any number of times: only the count of it is bounded.
Fault   == faults' = IF faults < MaxFaults THEN faults + 1 ELSE faults

-----------------------------------------------------------------------------
(* MesonPcieMuxIsPcie, by the copy in module m: resolved once, and any      *)
(* failure answers USB3.                                                    *)
Resolved(m, isPcie) ==
    \/ answer[m] # "unread" /\ isPcie = (answer[m] = "pcie") /\ UNCHANGED <<answer, faults>>
    \/ /\ answer[m] = "unread" /\ isPcie = (mux = "pcie")
       /\ answer' = [answer EXCEPT ![m] = mux] /\ UNCHANGED faults
    \/ /\ answer[m] = "unread" /\ ~isPcie /\ mux = "pcie" /\ Fault
       /\ answer' = [answer EXCEPT ![m] = "usb3"]

\* PulseReset of the combo PHY: the link over it, its steering and its
\* control registers start afresh.
PhyAfterReset == /\ link' = FALSE /\ steer' = "pcie" /\ cr' = CrReset

-----------------------------------------------------------------------------
(* Vim3PciHostBridgeLibConstructor. *)

BridgeReadsMux(done) ==
    /\ at = "bridge"
    /\ \E isPcie \in BOOLEAN : Resolved("bridge", isPcie)
                            /\ Goto(IF isPcie THEN "bridgePll" ELSE done)
    /\ UNCHANGED <<ret, mux, pll, steer, link, linkUp, good, tuned, bus>>

\* Ten tries of PciePllInit; without a lock the clocks stay on, no link.
BridgePll(done) ==
    /\ at = "bridgePll"
    /\ \/ pll' = TRUE /\ Goto("bridgePhy")
       \/ pll' = FALSE /\ Goto(done)
    /\ UNCHANGED <<ret, mux, answer, steer, link, linkUp, good, tuned, bus, faults>>

\* The PHY's PCIe personality and its reset; PERST#; the port logic; the window.
BridgePhy ==
    /\ at = "bridgePhy" /\ PhyAfterReset
    /\ Goto("bridgeLink")
    /\ UNCHANGED <<ret, mux, answer, pll, linkUp, good, tuned, n, wait, captured, faults>>

BridgeLink(done) ==
    /\ at = "bridgeLink" /\ Goto(done)
    /\ \/ link' = TRUE /\ linkUp' = TRUE
       \/ UNCHANGED <<link, linkUp>>       \* an empty slot
    /\ UNCHANGED <<ret, mux, answer, pll, steer, good, tuned, bus, faults>>

-----------------------------------------------------------------------------
(* MesonUsbInitialize up to the PHY behind the SuperSpeed port. *)

MesonEnableUsbPower ==
    /\ at = "usbInit" /\ Goto("usbGlue")
    /\ good' = good \union {"rails", "gates"}
    /\ tuned' = FALSE
    /\ UNCHANGED <<ret, lane, bus, faults>>

\* RESET_USB takes glue and core to their defaults before the glue is set up.
MesonInitUsbGlue ==
    /\ at = "usbGlue" /\ Goto("usb2Phys")
    /\ good' = (good \intersect {"rails", "gates"})
                 \union {"hostport", "otgport", "superspeed", "pipe"}
    /\ UNCHANGED <<ret, lane, tuned, bus, faults>>

\* Both PHYs, each behind its own reset.
MesonInitUsb2Phy ==
    /\ at = "usb2Phys" /\ Goto("usbMux")
    /\ good' = good \union {"usb2phys"}
    /\ UNCHANGED <<ret, lane, tuned, bus, faults>>

ReadMuxIgnored ==
    /\ at = "usbMux"
    /\ \E isPcie \in BOOLEAN : Resolved("usb", isPcie) /\ Goto("usbPll")
    /\ UNCHANGED <<ret, mux, pll, steer, link, linkUp, good, tuned, bus>>
ReadMux ==
    /\ at = "usbMux"
    /\ \E isPcie \in BOOLEAN : Resolved("usb", isPcie)
                            /\ Goto(IF isPcie THEN "usbCore" ELSE "usbPll")
    /\ UNCHANGED <<ret, mux, pll, steer, link, linkUp, good, tuned, bus>>

\* Without a lock USB2 must still come up, so the bring-up goes on either way.
MesonInitPciePll ==
    /\ at = "usbPll" /\ Goto("usbPhy")
    /\ \/ pll' = TRUE /\ UNCHANGED faults
       \/ pll' = FALSE /\ Fault
    /\ UNCHANGED <<ret, mux, answer, steer, link, linkUp, good, tuned, bus>>

MesonInitUsb3PhyUnreset ==
    /\ at = "usbPhy" /\ Goto("usbTune")
    /\ link' = FALSE /\ steer' = "usb3"
    /\ n' = 1 /\ wait' = "none" /\ captured' = NoWord
    /\ UNCHANGED <<ret, mux, answer, pll, linkUp, good, tuned, cr, faults>>
MesonInitUsb3Phy ==
    /\ at = "usbPhy" /\ Goto("usbTune")
    /\ link' = FALSE /\ steer' = "usb3" /\ cr' = CrReset
    /\ n' = 1 /\ wait' = "none" /\ captured' = NoWord
    /\ UNCHANGED <<ret, mux, answer, pll, linkUp, good, tuned, faults>>

-----------------------------------------------------------------------------
(* The control-register bus: an address, then a read, or data and a write,  *)
(* each with a strobe that the PHY acknowledges and releases.               *)

\* U3PhyCrUpdate: read the register, then write it back with its field set.
Strobes == <<"addr", "read", "addr", "data", "write">>
Strobe   == Strobes[((n - 1) % Len(Strobes)) + 1]
Register == Tuning[((n - 1) \div Len(Strobes)) + 1]
Program  == Len(Strobes) * Len(Tuning)

Raise ==
    /\ at = "usbTune" /\ n <= Program /\ wait = "none"
    /\ cr' = [cr EXCEPT !.strobe = Strobe,
                        !.val = CASE Strobe = "addr" -> Word(Register, "address")
                                  [] Strobe = "data" -> [captured EXCEPT !.field = "tuned"]
                                  [] OTHER -> NoWord]
    /\ wait' = "ack"
    /\ UNCHANGED <<at, ret, lane, good, tuned, n, captured, faults>>

AckSeen ==
    /\ at = "usbTune" /\ wait = "ack" /\ cr.ack
    /\ captured' = IF cr.strobe = "read" THEN cr.out ELSE captured
    /\ cr' = [cr EXCEPT !.strobe = "none"]
    /\ wait' = "release"
    /\ UNCHANGED <<at, ret, lane, good, tuned, n, faults>>

AckGone ==
    /\ at = "usbTune" /\ wait = "release" /\ ~cr.ack
    /\ n' = n + 1 /\ wait' = "none"
    /\ UNCHANGED <<at, ret, lane, good, tuned, cr, captured, faults>>

\* 200 polls, 5 us apart; the first handshake that times out ends the tuning
\* and leaves its strobe where it is.
HandshakeTimesOut ==
    /\ at = "usbTune" /\ wait # "none" /\ cr.ack # (wait = "ack") /\ Fault
    /\ n' = 0 /\ wait' = "none" /\ Goto("usbCore")
    /\ UNCHANGED <<ret, lane, good, tuned, cr, captured>>

\* The lane's drive level and loss detection, outside the bus.
TuningEnds ==
    /\ at = "usbTune" /\ n > Program
    /\ tuned' = TRUE /\ n' = 0 /\ Goto("usbCore")
    /\ UNCHANGED <<ret, lane, good, cr, wait, captured, faults>>

\* The PHY answers a strobe in its own time, also after nobody waits for it.
PhyAcks ==
    /\ cr.strobe # "none" /\ ~cr.ack
    /\ cr' = [(CASE cr.strobe = "addr"  -> [cr EXCEPT !.addr = cr.val.rest]
                 [] cr.strobe = "data"  -> [cr EXCEPT !.data = cr.val]
                 [] cr.strobe = "read"  -> [cr EXCEPT !.out = cr.regs[cr.addr]]
                 [] cr.strobe = "write" -> [cr EXCEPT !.regs[cr.addr] = cr.data])
              EXCEPT !.ack = TRUE]
    /\ UNCHANGED <<at, ret, lane, good, tuned, n, wait, captured, faults>>
PhyReleases ==
    /\ cr.strobe = "none" /\ cr.ack
    /\ cr' = [cr EXCEPT !.ack = FALSE]
    /\ UNCHANGED <<at, ret, lane, good, tuned, n, wait, captured, faults>>

-----------------------------------------------------------------------------
(* MesonUsbInitialize from the soft reset of the core on. *)

\* Core and PHY interfaces held in reset, 100 ms each, then released; park mode
\* and the port direction re-default.
CoreSoftReset ==
    /\ at = "usbCore" /\ Goto("usbQuirks")
    /\ good' = (good \ {"parkmode", "hostcap"}) \union {"core"}
    /\ UNCHANGED <<ret, lane, tuned, bus, faults>>

CoreQuirks ==
    /\ at = "usbQuirks" /\ Goto("usbCheck")
    /\ good' = good \union {"susphy", "framelength", "parkmode", "hostcap"}
    /\ UNCHANGED <<ret, lane, tuned, bus, faults>>

\* A capability register that reads as nothing at all is an error; else the
\* core is left half a second to settle.
CapabilityValid(started) ==
    /\ at = "usbCheck" /\ Goto(started)
    /\ UNCHANGED <<ret, lane, good, tuned, bus, faults>>
CapabilityInvalid(failed) ==
    /\ at = "usbCheck" /\ Fault /\ Goto(failed)
    /\ UNCHANGED <<ret, lane, good, tuned, bus>>

DriverSteps(done, started, failed) ==
    \/ BridgeReadsMux(done) \/ BridgePll(done) \/ BridgePhy \/ BridgeLink(done)
    \/ MesonEnableUsbPower \/ MesonInitUsbGlue \/ MesonInitUsb2Phy \/ ReadMux
    \/ MesonInitPciePll \/ MesonInitUsb3Phy
    \/ Raise \/ AckSeen \/ AckGone \/ HandshakeTimesOut \/ TuningEnds
    \/ CoreSoftReset \/ CoreQuirks \/ CapabilityValid(started) \/ CapabilityInvalid(failed)
PhySteps == PhyAcks \/ PhyReleases
================================================================================
