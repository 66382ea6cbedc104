---------------------------- MODULE BoardLane_proofs ----------------------------
(***************************************************************************)
(* Proofs about the lane that USB3 and PCIe share: of UsbBoot and UsbLane, *)
(* which drive it, for every tree of devices, every set of PHY registers,  *)
(* any number of faults and attempts, and every order of the drivers, the  *)
(* bus driver's timer and the loop; and of McuClock, whose microcontroller *)
(* says whose it is, for any values and times, any number of failed        *)
(* transactions, and seconds that turn whenever they do.                   *)
(***************************************************************************)
EXTENDS UsbBoot, McuClock, FiniteSetTheorems, SequenceTheorems, TLAPS

BridgeSteps == {"bridge", "bridgePll", "bridgePhy", "bridgeLink"}
UsbSteps    == {"usbInit", "usbGlue", "usb2Phys", "usbMux", "usbPll", "usbPhy",
                "usbTune", "usbCore", "usbQuirks", "usbCheck"}
LoopSteps   == {"stall", "countDevices", "countRoots", "countHubs", "decide"}
AfterSteps  == {"started", "noHost"}
Steps       == BridgeSteps \cup UsbSteps \cup LoopSteps \cup AfterSteps
                 \cup {"dispatch", "consoles", "loopEnd", "menu"}
Returns     == {"consoles", "stall", "menu"}
Modes       == {"unread", "usb3", "pcie"}

-----------------------------------------------------------------------------
(* The types that the steps rely on.                                       *)

Words   == [rest : Tuned \cup {"none"}, field : {"reset", "tuned", "address"}]
CrTypes == [strobe : {"none", "addr", "read", "data", "write"}, val : Words,
            ack : BOOLEAN, addr : Tuned \cup {"none"}, data : Words, out : Words,
            regs : [Tuned \cup {"none"} -> Words]]

LaneTypes ==
    /\ at \in Steps /\ ret \in Returns \cup {"none", "dispatch"}
    /\ mux \in {"usb3", "pcie"} /\ answer \in [bridge : Modes, usb : Modes]
    /\ pll \in BOOLEAN /\ steer \in {"pcie", "usb3"}
    /\ link \in BOOLEAN /\ linkUp \in BOOLEAN
    /\ good \subseteq Settings /\ tuned \in BOOLEAN
    /\ cr \in CrTypes /\ n \in 0 .. Program + 1
    /\ at = "usbTune" => n >= 1 /\ (wait # "none" => n <= Program)
    /\ wait \in {"none", "ack", "release"} /\ captured \in Words
    /\ faults \in 0 .. MaxFaults

TreeTypes ==
    /\ seen \subseteq Devs /\ change \subseteq Devs /\ up \subseteq Devs
    /\ counted \subseteq Devs /\ view \subseteq Devs /\ read \subseteq Devs
    /\ known \subseteq Devs

BootTypes ==
    /\ left \subseteq {"bridge", "usb"} /\ fromUsb \in BOOLEAN
    /\ registered \in BOOLEAN /\ hostLost \in BOOLEAN /\ accepted \in BOOLEAN
    /\ hc \in BOOLEAN

CountTypes ==
    /\ attempt \in 0 .. MaxAttempts
    /\ at \in LoopSteps \ {"stall"} => attempt < MaxAttempts
    /\ prev \in Nat /\ best \in Nat /\ devices \in Nat /\ ports \in Nat

LoopTypes == TreeTypes /\ BootTypes /\ CountTypes

TypeInv == LaneTypes /\ LoopTypes

\* Where the boot is, where it goes on, and what is there by then.
Flowing ==
    /\ at \in BridgeSteps \cup UsbSteps \cup AfterSteps \cup {"dispatch"} => ~hc
    /\ at \in BridgeSteps => "bridge" \notin left
    /\ at \in UsbSteps => \/ ret = "dispatch" /\ fromUsb
                          \/ ret \in Returns /\ left = {} /\ registered
    /\ at \in AfterSteps => ret \in Returns /\ left = {} /\ registered
    /\ at \in LoopSteps \cup {"consoles", "loopEnd", "menu"} => ret \in Returns /\ left = {}
    /\ fromUsb => ~registered
    /\ hc => registered

-----------------------------------------------------------------------------
(* The tuning program: five strobes for each register.                     *)

\* How many strobes of the register in hand are over.
Stage == (n - 1) % 5

LEMMA ProgramLength ==
    /\ Len(Tuning) \in Nat /\ Len(Tuning) > 0
    /\ Program = 5 * Len(Tuning) /\ Program \in Nat
BY LaneAssumption DEF Program, Strobes

LEMMA StrobeOf ==
    ASSUME n \in 1 .. Program
    PROVE  /\ Stage \in 0 .. 4
           /\ Register \in Tuned /\ Register = Tuning[(n - 1) \div 5 + 1]
           /\ (n - 1) \div 5 + 1 \in 1 .. Len(Tuning)
           /\ Strobe \in {"addr", "read", "data", "write"}
           /\ Strobe = "addr"  <=> Stage \in {0, 2}
           /\ Strobe = "read"  <=> Stage = 1
           /\ Strobe = "data"  <=> Stage = 3
           /\ Strobe = "write" <=> Stage = 4
<1>1. n - 1 \in Nat /\ n - 1 < 5 * Len(Tuning) /\ Len(Tuning) \in Nat
  BY ProgramLength
<1>2. Stage \in 0 .. 4 /\ (n - 1) \div 5 \in 0 .. Len(Tuning) - 1
  BY <1>1 DEF Stage
<1>3. Len(Strobes) = 5
  BY DEF Strobes
<1>4. (n - 1) \div 5 + 1 \in 1 .. Len(Tuning)
  BY <1>1, <1>2
<1>5. Register = Tuning[(n - 1) \div 5 + 1] /\ Register \in Tuned
  BY <1>3, <1>4 DEF Register, Tuned
<1>6. Strobe = Strobes[Stage + 1]
  BY <1>3 DEF Strobe, Stage
<1>7. /\ Strobe \in {"addr", "read", "data", "write"}
      /\ Strobe = "addr"  <=> Stage \in {0, 2}
      /\ Strobe = "read"  <=> Stage = 1
      /\ Strobe = "data"  <=> Stage = 3
      /\ Strobe = "write" <=> Stage = 4
  BY <1>2, <1>6 DEF Strobes
<1> QED BY <1>2, <1>4, <1>5, <1>7

\* The next strobe: of the same register, or the first of the next one.
LEMMA StrobeOver ==
    ASSUME n \in 1 .. Program, n' = n + 1
    PROVE  /\ n' \in 1 .. Program + 1
           /\ Stage < 4 => /\ n' <= Program /\ Stage' = Stage + 1 /\ Register' = Register
                           /\ (n' - 1) \div 5 = (n - 1) \div 5
           /\ Stage = 4 => /\ Stage' = 0
                           /\ (n' - 1) \div 5 = (n - 1) \div 5 + 1
<1>1. n - 1 \in Nat /\ n - 1 < 5 * Len(Tuning) /\ Len(Tuning) \in Nat
  BY ProgramLength
<1>2. Len(Strobes) = 5
  BY DEF Strobes
<1>3. Stage < 4 => /\ n < 5 * Len(Tuning) /\ (n % 5) = Stage + 1
                   /\ n \div 5 = (n - 1) \div 5
  BY <1>1 DEF Stage
<1>4. Stage = 4 => (n % 5) = 0 /\ n \div 5 = (n - 1) \div 5 + 1
  BY <1>1 DEF Stage
<1>5. n' - 1 = n
  BY <1>1
<1>6. Stage' = n % 5
  BY <1>5 DEF Stage
<1>7. (n' - 1) \div 5 = (n - 1) \div 5 => Register' = Register
  BY <1>2 DEF Register
<1> QED BY <1>1, <1>3, <1>4, <1>5, <1>6, <1>7, ProgramLength

LEMMA WordTypes ==
    /\ \A r \in Tuned \cup {"none"}, f \in {"reset", "tuned", "address"} :
          /\ Word(r, f) \in Words
          /\ Word(r, f).rest = r /\ Word(r, f).field = f
    /\ \A w \in Words : /\ w.rest \in Tuned \cup {"none"}
                        /\ [w EXCEPT !.field = "tuned"] = Word(w.rest, "tuned")
    /\ NoWord \in Words /\ CrReset \in CrTypes
    /\ \A r \in Tuned : CrReset.regs[r] = Word(r, "reset")
    /\ CrReset.strobe = "none" /\ CrReset.ack = FALSE
<1>1. \A r \in Tuned \cup {"none"}, f \in {"reset", "tuned", "address"} :
          /\ Word(r, f) \in Words
          /\ Word(r, f).rest = r /\ Word(r, f).field = f
  BY DEF Word, Words
<1>2. \A w \in Words : /\ w.rest \in Tuned \cup {"none"}
                       /\ [w EXCEPT !.field = "tuned"] = Word(w.rest, "tuned")
  BY DEF Word, Words
<1>3. NoWord \in Words
  BY <1>1 DEF NoWord
<1>4. Untuned \in [Tuned \cup {"none"} -> Words]
  BY <1>1 DEF Untuned
<1>5. CrReset \in CrTypes /\ CrReset.strobe = "none" /\ CrReset.ack = FALSE
      /\ CrReset.regs = Untuned
  BY <1>3, <1>4 DEF CrReset, CrTypes
<1>6. \A r \in Tuned : Untuned[r] = Word(r, "reset")
  BY DEF Untuned
<1> QED BY <1>1, <1>2, <1>3, <1>5, <1>6

-----------------------------------------------------------------------------
(* Types.                                                                  *)

LEMMA FaultCounted ==
    ASSUME faults \in 0 .. MaxFaults, Fault \/ UNCHANGED faults
    PROVE  faults' \in 0 .. MaxFaults
BY LaneAssumption DEF Fault

LEMMA MuxRead ==
    ASSUME TypeInv, NEW m \in {"bridge", "usb"}, NEW isPcie \in BOOLEAN, Resolved(m, isPcie)
    PROVE  /\ answer' \in [bridge : Modes, usb : Modes] /\ faults' \in 0 .. MaxFaults
           /\ isPcie => answer'[m] = "pcie" /\ (mux = "pcie" \/ answer[m] = "pcie")
           /\ ~isPcie => answer'[m] = "usb3"
           /\ answer[m] # "unread" => answer' = answer
           /\ \A o \in {"bridge", "usb"} : o # m => answer'[o] = answer[o]
<1>1. answer \in [bridge : Modes, usb : Modes] /\ mux \in {"usb3", "pcie"}
      /\ faults \in 0 .. MaxFaults
  BY DEF TypeInv, LaneTypes
<1>2. CASE answer[m] # "unread" /\ isPcie = (answer[m] = "pcie") /\ UNCHANGED <<answer, faults>>
  <2>1. answer[m] \in {"usb3", "pcie"}
    BY <1>1, <1>2 DEF Modes
  <2>2. isPcie <=> answer[m] = "pcie"
    BY <1>2
  <2> QED BY <1>1, <1>2, <2>1, <2>2
<1>3. CASE /\ answer[m] = "unread" /\ isPcie = (mux = "pcie")
           /\ answer' = [answer EXCEPT ![m] = mux] /\ UNCHANGED faults
  <2>1. isPcie <=> mux = "pcie"
    BY <1>3
  <2>2. /\ answer' \in [bridge : Modes, usb : Modes] /\ answer'[m] = mux
        /\ \A o \in {"bridge", "usb"} : o # m => answer'[o] = answer[o]
    BY <1>1, <1>3 DEF Modes
  <2> QED BY <1>1, <1>3, <2>1, <2>2
<1>4. CASE /\ answer[m] = "unread" /\ ~isPcie /\ mux = "pcie" /\ Fault
           /\ answer' = [answer EXCEPT ![m] = "usb3"]
  <2>1. /\ answer' \in [bridge : Modes, usb : Modes] /\ answer'[m] = "usb3"
        /\ \A o \in {"bridge", "usb"} : o # m => answer'[o] = answer[o]
    BY <1>1, <1>4 DEF Modes
  <2> QED BY <1>1, <1>4, <2>1, FaultCounted
<1> QED BY <1>2, <1>3, <1>4 DEF Resolved

LEMMA BringUpTypes ==
    ASSUME TypeInv, BringUp
    PROVE  LaneTypes'
<1>0. LaneTypes
  BY DEF TypeInv
<1>1. \A s \in AfterSteps : Started(s) \in Steps /\ Started(s) # "usbTune"
  BY DEF Started, Steps, AfterSteps
<1>2. \A s \in BridgeSteps \cup UsbSteps \cup {"dispatch"} : s \in Steps
  BY DEF Steps
<1>3. ASSUME UNCHANGED <<ret, mux, bus>>, at' \in Steps,
             answer' \in [bridge : Modes, usb : Modes],
             pll' \in BOOLEAN, steer' \in {"pcie", "usb3"}, link' \in BOOLEAN,
             linkUp' \in BOOLEAN, good' \subseteq Settings, tuned' \in BOOLEAN,
             Fault \/ UNCHANGED faults, at' # "usbTune"
      PROVE  LaneTypes'
  BY <1>0, <1>3, FaultCounted DEF LaneTypes, bus, Program, Strobes
<1>4. ASSUME NEW m \in {"bridge", "usb"}, \E p \in BOOLEAN : Resolved(m, p), at' \in Steps,
             UNCHANGED <<ret, mux, pll, steer, link, linkUp, good, tuned, bus>>,
             at' # "usbTune"
      PROVE  LaneTypes'
  <2>1. answer' \in [bridge : Modes, usb : Modes] /\ faults' \in 0 .. MaxFaults
    BY <1>4, MuxRead
  <2> QED BY <1>0, <1>4, <2>1 DEF LaneTypes, bus
<1>5. CASE BridgeReadsMux("dispatch")
  <2>1. (\E p \in BOOLEAN : Resolved("bridge", p)) /\ at' \in {"bridgePll", "dispatch"}
    BY <1>5 DEF BridgeReadsMux, Goto
  <2>2. UNCHANGED <<ret, mux, pll, steer, link, linkUp, good, tuned, bus>>
    BY <1>5 DEF BridgeReadsMux
  <2> QED BY <1>2, <1>4, <2>1, <2>2 DEF BridgeSteps
<1>6. CASE ReadMux
  <2>1. (\E p \in BOOLEAN : Resolved("usb", p)) /\ at' \in {"usbCore", "usbPll"}
    BY <1>6 DEF ReadMux, Goto
  <2>2. UNCHANGED <<ret, mux, pll, steer, link, linkUp, good, tuned, bus>>
    BY <1>6 DEF ReadMux
  <2> QED BY <1>2, <1>4, <2>1, <2>2 DEF UsbSteps
<1>7. CASE BridgePll("dispatch") \/ BridgeLink("dispatch") \/ MesonInitPciePll
  BY <1>0, <1>2, <1>3, <1>7
     DEF BridgePll, BridgeLink, MesonInitPciePll, Goto, BridgeSteps, UsbSteps, LaneTypes
<1>8. CASE MesonEnableUsbPower \/ MesonInitUsbGlue \/ MesonInitUsb2Phy
           \/ CoreSoftReset \/ CoreQuirks
  <2>1. good' \subseteq Settings
    BY <1>0, <1>8 DEF MesonEnableUsbPower, MesonInitUsbGlue, MesonInitUsb2Phy,
         CoreSoftReset, CoreQuirks, Settings, LaneTypes
  <2> QED
    BY <1>0, <1>2, <1>3, <1>8, <2>1 DEF MesonEnableUsbPower, MesonInitUsbGlue,
         MesonInitUsb2Phy, CoreSoftReset, CoreQuirks, Goto, UsbSteps, LaneTypes, lane
<1>9. CASE CapabilityValid(Started("started")) \/ CapabilityInvalid(Started("noHost"))
  BY <1>0, <1>1, <1>3, <1>9 DEF AfterSteps, CapabilityValid, CapabilityInvalid, Goto, LaneTypes, lane
<1>10. CASE BridgePhy
  BY <1>0, <1>2, <1>10, WordTypes DEF BridgePhy, PhyAfterReset, Goto, BridgeSteps, LaneTypes,
         Program, Strobes
<1>11. CASE MesonInitUsb3Phy
  <2>1. n' = 1 /\ n' \in 0 .. Program' + 1
    BY <1>11, ProgramLength DEF MesonInitUsb3Phy, Program, Strobes
  <2>2. at' = "usbTune" /\ wait' = "none" /\ cr' = CrReset /\ captured' = NoWord
        /\ link' = FALSE /\ steer' = "usb3"
        /\ UNCHANGED <<ret, mux, answer, pll, linkUp, good, tuned, faults>>
    BY <1>11 DEF MesonInitUsb3Phy, Goto
  <2>3. at' \in Steps /\ cr' \in CrTypes /\ captured' \in Words
    BY <1>2, <2>2, WordTypes DEF UsbSteps
  <2>4. n' >= 1
    BY <2>1
  <2>5. /\ link' \in BOOLEAN /\ steer' \in {"pcie", "usb3"}
        /\ wait' \in {"none", "ack", "release"} /\ ~(wait' # "none")
    BY <2>2
  <2>6. n' \in 0 .. Program' + 1
    BY <2>1
  <2> HIDE <2>1
  <2> QED BY <1>0, <2>2, <2>3, <2>4, <2>5, <2>6 DEF LaneTypes
<1>12. ASSUME at = "usbTune", UNCHANGED <<ret, lane, good, tuned, faults, n>>,
              cr' \in CrTypes, captured' \in Words, wait' \in {"none", "ack", "release"},
              at' = "usbTune", n <= Program
       PROVE  LaneTypes'
  BY <1>0, <1>12 DEF LaneTypes, lane, Program, Strobes
<1>13. CASE Raise
  <2> DEFINE v == CASE Strobe = "addr" -> Word(Register, "address")
                    [] Strobe = "data" -> [captured EXCEPT !.field = "tuned"]
                    [] OTHER -> NoWord
  <2>1. n \in 1 .. Program
    BY <1>0, <1>13, ProgramLength DEF Raise, LaneTypes
  <2>2. Strobe \in {"addr", "read", "data", "write"} /\ Register \in Tuned
    BY <2>1, StrobeOf
  <2>3. v \in Words
    <3>1. [captured EXCEPT !.field = "tuned"] \in Words
      BY <1>0 DEF LaneTypes, Words
    <3> QED BY <2>2, <3>1, WordTypes
  <2>4. cr' = [cr EXCEPT !.strobe = Strobe, !.val = v] /\ captured' = captured
        /\ at = "usbTune" /\ wait' = "ack" /\ UNCHANGED <<at, ret, lane, good, tuned, faults, n>>
    BY <1>13 DEF Raise
  <2> HIDE DEF v
  <2>5. cr' \in CrTypes
    BY <1>0, <2>2, <2>3, <2>4 DEF LaneTypes, CrTypes
  <2> QED BY <1>0, <1>12, <2>1, <2>4, <2>5 DEF LaneTypes
<1>14. CASE AckSeen
  <2>1. cr' = [cr EXCEPT !.strobe = "none"] /\ captured' \in {cr.out, captured}
        /\ at = "usbTune" /\ wait = "ack" /\ wait' = "release"
        /\ UNCHANGED <<at, ret, lane, good, tuned, faults, n>>
    BY <1>14 DEF AckSeen
  <2>2. cr' \in CrTypes /\ captured' \in Words
    BY <1>0, <2>1 DEF LaneTypes, CrTypes
  <2> QED BY <1>0, <1>12, <2>1, <2>2 DEF LaneTypes
<1>15. CASE AckGone
  <2>1. n' = n + 1 /\ n \in 1 .. Program /\ wait' = "none" /\ at' = at
        /\ UNCHANGED <<ret, lane, good, tuned, cr, captured, faults>>
    BY <1>0, <1>15, ProgramLength DEF AckGone, LaneTypes
  <2>2. n' \in 1 .. Program' + 1
    BY <2>1, ProgramLength DEF Program, Strobes
  <2> QED BY <1>0, <2>1, <2>2, ProgramLength DEF LaneTypes, lane
<1>16. CASE HandshakeTimesOut \/ TuningEnds
  <2>1. n' = 0 /\ at' = "usbCore" /\ wait' \in {"none", wait} /\ tuned' \in {TRUE, tuned}
        /\ UNCHANGED <<ret, lane, good, cr, captured>>
        /\ (Fault \/ UNCHANGED faults)
    BY <1>16 DEF HandshakeTimesOut, TuningEnds, Goto
  <2>2. n' \in 0 .. Program' + 1
    BY <2>1, ProgramLength DEF Program, Strobes
  <2> QED BY <1>0, <1>2, <2>1, <2>2, FaultCounted DEF LaneTypes, lane, UsbSteps
<1> QED BY <1>5, <1>6, <1>7, <1>8, <1>9, <1>10, <1>11, <1>13, <1>14, <1>15, <1>16
        DEF BringUp, DriverSteps, AfterSteps

LEMMA PhyTypes ==
    ASSUME TypeInv, PhyMoves
    PROVE  LaneTypes' /\ UNCHANGED <<tree, tally, loop, boot>>
<1>0. LaneTypes /\ cr \in CrTypes
  BY DEF TypeInv, LaneTypes
<1>1. UNCHANGED <<at, ret, lane, good, tuned, n, wait, captured, faults, tree, tally, loop, boot>>
  BY DEF PhyMoves, PhySteps, PhyAcks, PhyReleases
<1>2. cr' \in CrTypes
  <2>1. CASE PhyReleases
    BY <1>0, <2>1 DEF PhyReleases, CrTypes
  <2>2. CASE PhyAcks
    <3>1. cr.val.rest \in Tuned \cup {"none"} /\ cr.regs[cr.addr] \in Words
      BY <1>0 DEF CrTypes, Words
    <3>2. [cr EXCEPT !.addr = cr.val.rest] \in CrTypes
      BY <1>0, <3>1 DEF CrTypes
    <3>3. [cr EXCEPT !.data = cr.val] \in CrTypes /\ [cr EXCEPT !.out = cr.regs[cr.addr]] \in CrTypes
      BY <1>0, <3>1 DEF CrTypes
    <3>4. [cr EXCEPT !.regs[cr.addr] = cr.data] \in CrTypes
      BY <1>0 DEF CrTypes
    <3>5. cr.strobe \in {"addr", "data", "read", "write"}
      BY <1>0, <2>2 DEF CrTypes, PhyAcks
    <3>6. \E c \in CrTypes : cr' = [c EXCEPT !.ack = TRUE]
      BY <2>2, <3>2, <3>3, <3>4, <3>5 DEF PhyAcks
    <3> QED BY <3>6 DEF CrTypes
  <2> QED BY <2>1, <2>2 DEF PhyMoves, PhySteps
<1> QED BY <1>0, <1>1, <1>2 DEF LaneTypes, lane, Program, Strobes
LEMMA Counts ==
    ASSUME NEW S \in SUBSET Devs
    PROVE  IsFiniteSet(S) /\ Cardinality(S) \in Nat
BY TreeAssumption, FS_Subset, FS_CardinalityType

\* A hub whose port reports a device is enumerated: its port is one of the seen.
LEMMA HubPortsSeen ==
    HubPorts \subseteq seen /\ SkippedAlways \subseteq HubPorts
BY DEF HubPorts, SkippedAlways

LEMMA FlowLane ==
    ASSUME TypeInv, at' \in Steps, at' # "usbTune", ret' \in Returns \cup {"none", "dispatch"},
           UNCHANGED <<lane, good, tuned, bus>>, Fault \/ UNCHANGED faults
    PROVE  LaneTypes'
BY FaultCounted DEF TypeInv, LaneTypes, lane, bus, Program, Strobes

LEMMA BusTypes ==
    ASSUME TypeInv, BusMoves
    PROVE  TypeInv'
<1>1. PICK d \in Devs : Appear(d) \/ Enumerate(d)
  BY DEF BusMoves
<1>2. CASE Appear(d)
  <2>1. UNCHANGED laneVars /\ LaneTypes
    BY <1>2 DEF Appear, TypeInv
  <2>2. LaneTypes'
    BY <2>1 DEF LaneTypes, laneVars, lane, bus, Program, Strobes
  <2>3. LoopTypes'
    <3>1. TreeTypes'
      BY <2>1, <1>2 DEF TypeInv, LoopTypes, TreeTypes, Appear, laneVars, tally, loop, boot
    <3>2. BootTypes'
      BY <2>1, <1>2 DEF TypeInv, LoopTypes, BootTypes, Appear, laneVars, tally, loop, boot
    <3>3. CountTypes'
      BY <2>1, <1>2 DEF TypeInv, LoopTypes, CountTypes, Appear, laneVars, tally, loop, boot
    <3> QED BY <3>1, <3>2, <3>3 DEF LoopTypes
  <2> QED BY <2>2, <2>3 DEF TypeInv
<1>3. CASE Enumerate(d)
  <2>1. UNCHANGED <<at, ret, lane, good, tuned, bus>> /\ (Fault \/ UNCHANGED faults) /\ LaneTypes
    BY <1>3 DEF Enumerate, TypeInv
  <2>2. LaneTypes'
    BY <2>1, FaultCounted DEF LaneTypes, lane, bus, Program, Strobes
  <2>3. LoopTypes'
    <3>1. TreeTypes'
      BY <2>1, <1>3 DEF TypeInv, LoopTypes, TreeTypes, Enumerate, tally, loop, boot
    <3>2. BootTypes'
      BY <2>1, <1>3 DEF TypeInv, LoopTypes, BootTypes, Enumerate, tally, loop, boot
    <3>3. CountTypes'
      BY <2>1, <1>3 DEF TypeInv, LoopTypes, CountTypes, Enumerate, tally, loop, boot
    <3> QED BY <3>1, <3>2, <3>3 DEF LoopTypes
  <2> QED BY <2>2, <2>3 DEF TypeInv
<1> QED BY <1>1, <1>2, <1>3

LEMMA FlowTypes ==
    ASSUME TypeInv, Flowing, Flow
    PROVE  TypeInv'
<1>0. LaneTypes /\ LoopTypes /\ MaxAttempts \in Nat
  BY TreeAssumption DEF TypeInv
<1>1. \A s \in UsbSteps \cup LoopSteps \cup AfterSteps \cup Returns
                 \cup {"dispatch", "bridge", "loopEnd"} : s \in Steps
  BY DEF Steps, Returns, LoopSteps, BridgeSteps
<1>2. CASE \E m \in left : Dispatch(m)
  <2>1. PICK m \in left : Dispatch(m)
    BY <1>2
  <2>2. at' \in {"bridge", "usbInit", "dispatch"} /\ ret' = "dispatch"
        /\ UNCHANGED <<lane, good, tuned, bus, faults>>
    BY <2>1 DEF Dispatch
  <2>3. LoopTypes'
    <3>1. TreeTypes'
      BY <1>0, <2>1, <2>2 DEF LoopTypes, TreeTypes, Dispatch, tree, tally, loop, LoopSteps
    <3>2. BootTypes'
      BY <1>0, <2>1, <2>2 DEF LoopTypes, BootTypes, Dispatch, tree, tally, loop, LoopSteps
    <3>3. CountTypes'
      BY <1>0, <2>1, <2>2 DEF LoopTypes, CountTypes, Dispatch, tree, tally, loop, LoopSteps
    <3> QED BY <3>1, <3>2, <3>3 DEF LoopTypes
  <2> QED BY <1>1, <2>2, <2>3, FlowLane DEF TypeInv, UsbSteps
<1>3. ASSUME NEW then \in Returns, ConnectThen(then)
      PROVE  TypeInv'
  <2>1. at' \in {"usbInit", then} /\ ret' = then
        /\ UNCHANGED <<lane, good, tuned, bus, faults, tree, tally, loop, boot>>
    BY <1>3 DEF ConnectThen, Goto
  <2>2. LoopTypes'
    <3>1. TreeTypes'
      BY <1>0, <1>3, <2>1 DEF LoopTypes, TreeTypes, tree, tally, loop, boot, LoopSteps, Returns
    <3>2. BootTypes'
      BY <1>0, <1>3, <2>1 DEF LoopTypes, BootTypes, tree, tally, loop, boot, LoopSteps, Returns
    <3>3. CountTypes'
      BY <1>0, <1>3, <2>1 DEF LoopTypes, CountTypes, tree, tally, loop, boot, LoopSteps, Returns
    <3> QED BY <3>1, <3>2, <3>3 DEF LoopTypes
  <2> QED BY <1>1, <1>3, <2>1, <2>2, FlowLane DEF TypeInv, UsbSteps, Returns
<1>4. CASE ConnectUsbHosts \/ ConnectAllConsoles
  BY <1>3, <1>4 DEF ConnectUsbHosts, ConnectAllConsoles, Returns
<1>5. CASE HostStarts \/ HostMissing
  <2>1. UNCHANGED <<ret, lane, good, tuned, bus>> /\ (Fault \/ UNCHANGED faults) /\ at' = ret
    BY <1>5 DEF HostStarts, HostMissing, Goto
  <2>2. ret \in Returns /\ "usbTune" \notin Returns
    BY <1>5 DEF Flowing, HostStarts, HostMissing, AfterSteps, Returns
  <2>3. LoopTypes'
    <3>1. TreeTypes'
      BY <1>0, <1>5 DEF LoopTypes, TreeTypes, HostStarts, HostMissing, tree, tally, loop
    <3>2. BootTypes'
      BY <1>0, <1>5 DEF LoopTypes, BootTypes, HostStarts, HostMissing, tree, tally, loop
    <3>3. CountTypes'
      BY <1>0, <1>5, <2>1, <2>2 DEF LoopTypes, CountTypes, HostStarts, HostMissing, tree, tally,
         loop, LoopSteps, Returns
    <3> QED BY <3>1, <3>2, <3>3 DEF LoopTypes
  <2> QED
    BY <1>0, <1>1, <1>5, <2>1, <2>2, <2>3, FlowLane DEF TypeInv
<1>6. CASE StallEnds \/ AttemptsEnd
  <2>1. UNCHANGED <<ret, lane, good, tuned, bus, tree, tally, loop, boot>>
        /\ (Fault \/ UNCHANGED faults)
        /\ at' \in {"countDevices", "loopEnd"} /\ (at' = "countDevices" => attempt < MaxAttempts)
    BY <1>6 DEF StallEnds, AttemptsEnd, Goto
  <2>2. LoopTypes'
    <3>1. TreeTypes'
      BY <1>0, <2>1 DEF LoopTypes, TreeTypes, tree, tally, loop, boot, LoopSteps
    <3>2. BootTypes'
      BY <1>0, <2>1 DEF LoopTypes, BootTypes, tree, tally, loop, boot, LoopSteps
    <3>3. CountTypes'
      BY <1>0, <2>1 DEF LoopTypes, CountTypes, tree, tally, loop, boot, LoopSteps
    <3> QED BY <3>1, <3>2, <3>3 DEF LoopTypes
  <2> QED BY <1>0, <1>1, <2>1, <2>2, FlowLane DEF TypeInv, LaneTypes, LoopSteps
<1>7. CASE Vim3CountUsbDevices \/ CountRootPorts
  <2>1. UNCHANGED <<ret, lane, good, tuned, bus, faults>> /\ at' \in {"countRoots", "countHubs"}
        /\ at \in LoopSteps \ {"stall"}
    BY <1>7 DEF Vim3CountUsbDevices, CountRootPorts, Goto, LoopSteps
  <2>2. Cardinality(up) \in Nat /\ Cardinality(seen \cap Roots) \in Nat
    BY <1>0, Counts DEF LoopTypes, TreeTypes
  <2>3. LoopTypes'
    <3>1. TreeTypes'
      BY <1>0, <1>7, <2>1, <2>2 DEF LoopTypes, TreeTypes, Vim3CountUsbDevices, CountRootPorts, tree,
         loop, boot, LoopSteps
    <3>2. BootTypes'
      BY <1>0, <1>7, <2>1, <2>2 DEF LoopTypes, BootTypes, Vim3CountUsbDevices, CountRootPorts, tree,
         loop, boot, LoopSteps
    <3>3. CountTypes'
      BY <1>0, <1>7, <2>1, <2>2 DEF LoopTypes, CountTypes, Vim3CountUsbDevices, CountRootPorts, tree,
         loop, boot, LoopSteps
    <3> QED BY <3>1, <3>2, <3>3 DEF LoopTypes
  <2> QED BY <1>0, <1>1, <2>1, <2>3, FlowLane DEF TypeInv, LaneTypes, LoopSteps
<1>8. CASE CountHubPorts
  <2>1. UNCHANGED <<ret, lane, good, tuned, bus, hc, seen, up, devices, counted, view,
                    attempt, prev, boot>>
        /\ at' = "decide" /\ at = "countHubs" /\ best' \in {ports', best}
        /\ known' = known \cup read'
    BY <1>8 DEF CountHubPorts, Goto
  <2>2. PICK skipped \in SUBSET HubPorts :
           /\ UNCHANGED faults \/ Fault
           /\ ports' = ports + Cardinality(HubPorts \ skipped)
           /\ change' = change \ (HubPorts \ skipped)
           /\ read' = (view \cap Roots) \cup (HubPorts \ skipped)
    BY <1>8 DEF CountHubPorts
  <2>3. HubPorts \subseteq Devs /\ Cardinality(HubPorts \ skipped) \in Nat
    BY <1>0, HubPortsSeen, Counts DEF LoopTypes, TreeTypes
  <2>4. ports' \in Nat /\ best' \in Nat
    BY <1>0, <2>1, <2>2, <2>3 DEF LoopTypes, TreeTypes, CountTypes
  <2>5. change' \subseteq Devs /\ read' \subseteq Devs /\ known' \subseteq Devs
    BY <1>0, <2>1, <2>2, <2>3 DEF LoopTypes, TreeTypes, CountTypes
  <2>6. LoopTypes'
    <3>1. TreeTypes'
      BY <1>0, <2>1, <2>4, <2>5 DEF LoopTypes, TreeTypes, boot, LoopSteps
    <3>2. BootTypes'
      BY <1>0, <2>1, <2>4, <2>5 DEF LoopTypes, BootTypes, boot, LoopSteps
    <3>3. CountTypes'
      BY <1>0, <2>1, <2>4, <2>5 DEF LoopTypes, CountTypes, boot, LoopSteps
    <3> QED BY <3>1, <3>2, <3>3 DEF LoopTypes
  <2> QED BY <1>0, <1>1, <2>1, <2>2, <2>6, FlowLane DEF TypeInv, LaneTypes, LoopSteps
<1>9. CASE Break \/ Growing \/ NothingToReInit
  <2>1. UNCHANGED <<ret, lane, good, tuned, bus, faults>> /\ at' \in {"loopEnd", "stall"}
        /\ at \in LoopSteps \ {"stall"}
    BY <1>9 DEF Break, Growing, NothingToReInit, Stuck, Goto, LoopSteps
  <2>2. LoopTypes'
    <3>1. TreeTypes'
      BY <1>0, <1>9, <2>1 DEF LoopTypes, TreeTypes, Break, Growing, NothingToReInit, NextAttempt, NextPass, tree, tally,
         loop, boot, LoopSteps
    <3>2. BootTypes'
      BY <1>0, <1>9, <2>1 DEF LoopTypes, BootTypes, Break, Growing, NothingToReInit, NextAttempt, NextPass, tree, tally,
         loop, boot, LoopSteps
    <3>3. CountTypes'
      BY <1>0, <1>9, <2>1 DEF LoopTypes, CountTypes, Break, Growing, NothingToReInit, NextAttempt, NextPass, tree, tally,
         loop, boot, LoopSteps
    <3> QED BY <3>1, <3>2, <3>3 DEF LoopTypes
  <2> QED BY <1>0, <1>1, <2>1, <2>2, FlowLane DEF TypeInv, LaneTypes, LoopSteps
<1>10. CASE ReInit
  <2>1. UNCHANGED <<lane, good, tuned, bus, faults>> /\ at' = "usbInit" /\ ret' = "stall"
        /\ at \in LoopSteps \ {"stall"}
    BY <1>10 DEF ReInit, Stuck, Goto, LoopSteps
  <2>2. LoopTypes'
    <3>1. TreeTypes'
      BY <1>0, <1>10, <2>1 DEF LoopTypes, TreeTypes, ReInit, NextAttempt, NextPass, tally, boot, LoopSteps
    <3>2. BootTypes'
      BY <1>0, <1>10, <2>1 DEF LoopTypes, BootTypes, ReInit, NextAttempt, NextPass, tally, boot, LoopSteps
    <3>3. CountTypes'
      BY <1>0, <1>10, <2>1 DEF LoopTypes, CountTypes, ReInit, NextAttempt, NextPass, tally, boot, LoopSteps
    <3> QED BY <3>1, <3>2, <3>3 DEF LoopTypes
  <2> QED BY <1>0, <1>1, <2>1, <2>2, FlowLane DEF TypeInv, Returns, UsbSteps
<1> QED BY <1>2, <1>4, <1>5, <1>6, <1>7, <1>8, <1>9, <1>10 DEF Flow

LEMMA TypeInit == Init => TypeInv
<1>1. ASSUME Init PROVE LaneTypes
  <2>1. n = 0 /\ n \in 0 .. Program + 1 /\ faults \in 0 .. MaxFaults
    BY <1>1, ProgramLength, LaneAssumption DEF Init, LaneInit
  <2>2. cr \in CrTypes /\ captured \in Words
    BY <1>1, WordTypes DEF Init, LaneInit
  <2> QED BY <1>1, <2>1, <2>2 DEF Init, LaneInit, LaneTypes, Steps, Modes, Settings
<1>2. ASSUME Init PROVE LoopTypes
  <2>1. 0 \in 0 .. MaxAttempts /\ "dispatch" \notin LoopSteps
    BY TreeAssumption DEF LoopSteps
  <2>2. TreeTypes /\ BootTypes /\ CountTypes
    BY <1>2, <2>1 DEF Init, LaneInit, TreeTypes, BootTypes, CountTypes
  <2> QED BY <2>2 DEF LoopTypes
<1> QED BY <1>1, <1>2 DEF TypeInv

LEMMA TypeNext ==
    ASSUME TypeInv, Flowing, [Next]_vars
    PROVE  TypeInv'
<1>1. CASE BringUp \/ PhyMoves
  <2>1. LaneTypes' /\ UNCHANGED <<tree, tally, loop, boot>>
    BY <1>1, BringUpTypes, PhyTypes DEF BringUp
  <2>2. at' \notin LoopSteps \/ UNCHANGED at
    <3>1. Started("started") \notin LoopSteps /\ Started("noHost") \notin LoopSteps
      BY DEF Started, LoopSteps
    <3>2. CASE BringUp
      BY <3>1, <3>2 DEF BringUp, DriverSteps, BridgeReadsMux, BridgePll, BridgePhy, BridgeLink,
         MesonEnableUsbPower, MesonInitUsbGlue, MesonInitUsb2Phy, ReadMux, MesonInitPciePll,
         MesonInitUsb3Phy, Raise, AckSeen, AckGone, HandshakeTimesOut, TuningEnds,
         CoreSoftReset, CoreQuirks, CapabilityValid, CapabilityInvalid, Goto, LoopSteps
    <3>3. CASE PhyMoves
      BY <3>3 DEF PhyMoves, PhySteps, PhyAcks, PhyReleases
    <3> QED BY <1>1, <3>2, <3>3
  <2>3. TreeTypes' /\ BootTypes'
    BY <2>1 DEF TypeInv, LoopTypes, TreeTypes, BootTypes, tree, tally, loop, boot
  <2>4. CountTypes'
    BY <2>1, <2>2 DEF TypeInv, LoopTypes, CountTypes, tree, tally, loop, boot
  <2> QED BY <2>1, <2>3, <2>4 DEF TypeInv, LoopTypes
<1>2. CASE BdsGoesOn \/ UNCHANGED vars
  <2>1. UNCHANGED <<laneVars, tree, tally, loop, boot>>
    BY <1>2 DEF BdsGoesOn, vars
  <2>2. LaneTypes'
    BY <2>1 DEF TypeInv, LaneTypes, laneVars, lane, bus, Program, Strobes
  <2>3. LoopTypes'
    <3>1. TreeTypes'
      BY <2>1 DEF TypeInv, LoopTypes, TreeTypes, laneVars, tree, tally, loop, boot
    <3>2. BootTypes'
      BY <2>1 DEF TypeInv, LoopTypes, BootTypes, laneVars, tree, tally, loop, boot
    <3>3. CountTypes'
      BY <2>1 DEF TypeInv, LoopTypes, CountTypes, laneVars, tree, tally, loop, boot
    <3> QED BY <3>1, <3>2, <3>3 DEF LoopTypes
  <2> QED BY <2>2, <2>3 DEF TypeInv
<1> QED BY <1>1, <1>2, BusTypes, FlowTypes DEF Next
-----------------------------------------------------------------------------
(* Where the boot goes.                                                    *)

LEMMA BringUpMoves ==
    ASSUME BringUp
    PROVE  /\ UNCHANGED <<ret, mux, tree, tally, loop, boot>>
           /\ \/ at \in BridgeSteps /\ at' \in (BridgeSteps \ {"bridge"}) \cup {"dispatch"}
              \/ at \in UsbSteps /\ at' \in UsbSteps \ {"usbInit"}
              \/ at = "usbCheck" /\ at' \in AfterSteps /\ ret # "dispatch"
              \/ at = "usbCheck" /\ at' = "dispatch" /\ ret = "dispatch"
<1>1. UNCHANGED <<tree, tally, loop, boot>>
  BY DEF BringUp
<1>2. CASE BridgeReadsMux("dispatch") \/ BridgePll("dispatch") \/ BridgePhy \/ BridgeLink("dispatch")
  BY <1>1, <1>2 DEF BridgeReadsMux, BridgePll, BridgePhy, BridgeLink, Goto, BridgeSteps
<1>3. CASE MesonEnableUsbPower \/ MesonInitUsbGlue \/ MesonInitUsb2Phy \/ ReadMux
           \/ MesonInitPciePll \/ MesonInitUsb3Phy
  BY <1>1, <1>3 DEF MesonEnableUsbPower, MesonInitUsbGlue, MesonInitUsb2Phy, ReadMux,
     MesonInitPciePll, MesonInitUsb3Phy, Goto, UsbSteps, lane
<1>4. CASE Raise \/ AckSeen \/ AckGone \/ HandshakeTimesOut \/ TuningEnds
           \/ CoreSoftReset \/ CoreQuirks
  BY <1>1, <1>4 DEF Raise, AckSeen, AckGone, HandshakeTimesOut, TuningEnds, CoreSoftReset,
     CoreQuirks, Goto, UsbSteps, lane
<1>5. CASE CapabilityValid(Started("started")) \/ CapabilityInvalid(Started("noHost"))
  BY <1>1, <1>5 DEF CapabilityValid, CapabilityInvalid, Goto, lane, Started, AfterSteps
<1> QED BY <1>2, <1>3, <1>4, <1>5 DEF BringUp, DriverSteps

LEMMA FlowMoves ==
    ASSUME TypeInv, Flowing, Flow
    PROVE  /\ UNCHANGED <<lane, good, tuned, bus, fromUsb>>
           /\ \/ at = "dispatch" /\ at' \in {"bridge", "usbInit", "dispatch"}
              \/ at \notin BridgeSteps \cup UsbSteps
                 /\ at' \in {"usbInit", "loopEnd"} \cup Returns \cup LoopSteps
<1>1. UNCHANGED <<lane, good, tuned, bus, fromUsb>>
  BY DEF Flow, Dispatch, ConnectUsbHosts, ConnectAllConsoles, ConnectThen, HostStarts, HostMissing,
     StallEnds, Vim3CountUsbDevices, CountRootPorts, CountHubPorts, Break, Growing, ReInit,
     NothingToReInit, AttemptsEnd, boot
<1>2. CASE \E m \in left : Dispatch(m)
  BY <1>1, <1>2 DEF Dispatch
<1>3. CASE HostStarts \/ HostMissing
  BY <1>1, <1>3 DEF HostStarts, HostMissing, Goto, Flowing, AfterSteps, BridgeSteps, UsbSteps
<1>4. CASE Flow /\ ~(HostStarts \/ HostMissing \/ \E m \in left : Dispatch(m))
  <2>1. at \notin BridgeSteps \cup UsbSteps
    BY <1>4 DEF Flow, ConnectUsbHosts, ConnectAllConsoles, StallEnds, Vim3CountUsbDevices,
       CountRootPorts, CountHubPorts, Break, Growing, ReInit, NothingToReInit, Stuck, AttemptsEnd,
       BridgeSteps, UsbSteps
  <2>2. at' \in {"usbInit", "loopEnd"} \cup Returns \cup LoopSteps
    BY <1>4 DEF Flow, ConnectUsbHosts, ConnectAllConsoles, ConnectThen, StallEnds,
       Vim3CountUsbDevices, CountRootPorts, CountHubPorts, Break, Growing, ReInit,
       NothingToReInit, AttemptsEnd, Goto, Returns, LoopSteps
  <2> QED BY <1>1, <2>1, <2>2
<1> QED BY <1>2, <1>3, <1>4

LEMMA FlowingInit == Init => Flowing
BY DEF Init, LaneInit, Flowing, UsbSteps, AfterSteps, BridgeSteps, LoopSteps

LEMMA FlowingNext ==
    ASSUME TypeInv, Flowing, [Next]_vars
    PROVE  Flowing'
<1>0. /\ ret \in Returns \cup {"none", "dispatch"} /\ hc \in BOOLEAN
      /\ left \subseteq {"bridge", "usb"} /\ fromUsb \in BOOLEAN /\ registered \in BOOLEAN
  BY DEF TypeInv, LaneTypes, LoopTypes, BootTypes
<1>1. CASE BringUp
  <2>1. UNCHANGED <<ret, hc, left, fromUsb, registered>>
    BY <1>1, BringUpMoves DEF tree, boot
  <2> QED
    BY <1>0, <1>1, <2>1, BringUpMoves DEF Flowing, BridgeSteps, UsbSteps, AfterSteps,
         LoopSteps
<1>2. CASE PhyMoves \/ BusMoves \/ BdsGoesOn \/ UNCHANGED vars
  <2>1. UNCHANGED <<at, ret, hc, left, fromUsb, registered>>
    BY <1>2, PhyTypes DEF PhyMoves, PhySteps, PhyAcks, PhyReleases, BusMoves, Appear, Enumerate,
       BdsGoesOn, vars, laneVars, tree, boot
  <2> QED BY <2>1 DEF Flowing
<1>3. CASE \E m \in left : Dispatch(m)
  <2>1. PICK m \in left : Dispatch(m)
    BY <1>3
  <2> QED BY <1>0, <2>1 DEF Dispatch, tree, Flowing, BridgeSteps, UsbSteps, AfterSteps,
         LoopSteps
<1>4. ASSUME NEW then \in Returns, ConnectThen(then), at \in {"dispatch", "consoles", "loopEnd"},
             at = "dispatch" => left = {}
      PROVE  Flowing'
  <2>1. at' \in {"usbInit", then} /\ ret' = then
        /\ UNCHANGED <<hc, left, fromUsb, registered>>
        /\ (at' = "usbInit" => registered /\ ~hc)
    BY <1>4 DEF ConnectThen, Goto, tree, boot, Returns
  <2>2. left = {}
    BY <1>4, <1>0 DEF Flowing, BridgeSteps
  <2> QED BY <1>0, <1>4, <2>1, <2>2 DEF Flowing, Returns, BridgeSteps, UsbSteps, AfterSteps,
         LoopSteps
<1>5. CASE ConnectUsbHosts \/ ConnectAllConsoles
  BY <1>4, <1>5 DEF ConnectUsbHosts, ConnectAllConsoles, Returns
<1>6. CASE HostStarts \/ HostMissing
  <2>1. UNCHANGED <<ret, left, fromUsb, registered>> /\ at' = ret /\ at \in AfterSteps
        /\ (hc' = hc \/ at = "started")
    BY <1>6 DEF HostStarts, HostMissing, Goto, tree, AfterSteps
  <2>2. ret \in Returns /\ ~hc /\ left = {}
    BY <2>1 DEF Flowing, AfterSteps, BridgeSteps, Returns
  <2> QED BY <1>0, <2>1, <2>2 DEF Flowing, Returns, BridgeSteps, UsbSteps, AfterSteps,
         LoopSteps
<1>7. CASE StallEnds \/ Vim3CountUsbDevices \/ CountRootPorts \/ CountHubPorts
           \/ Break \/ Growing \/ NothingToReInit \/ AttemptsEnd
  <2>1. UNCHANGED <<ret, hc, left, fromUsb, registered>> /\ at \in LoopSteps
        /\ at' \in LoopSteps \cup {"loopEnd"}
    BY <1>7 DEF StallEnds, Vim3CountUsbDevices, CountRootPorts, CountHubPorts, Break, Growing,
       NothingToReInit, Stuck, AttemptsEnd, Goto, tree, boot, LoopSteps
  <2> QED BY <1>0, <2>1 DEF Flowing, LoopSteps, BridgeSteps, UsbSteps, AfterSteps
<1>8. CASE ReInit
  <2>1. UNCHANGED <<left, fromUsb, registered>> /\ at = "decide" /\ ret' = "stall"
        /\ at' = "usbInit" /\ hc /\ ~hc'
    BY <1>8 DEF ReInit, Stuck, Goto, boot
  <2> QED BY <1>0, <2>1 DEF Flowing, Returns, LoopSteps, BridgeSteps, UsbSteps, AfterSteps
<1> QED BY <1>1, <1>2, <1>3, <1>5, <1>6, <1>7, <1>8 DEF Next, Flow
-----------------------------------------------------------------------------
(* The link the bridge trained.                                            *)

Linked ==
    /\ linkUp => mux = "pcie"
    /\ linkUp /\ ~link => answer.usb = "usb3"
    /\ "bridge" \in left \/ at \in BridgeSteps => ~linkUp
    /\ at \in BridgeSteps \ {"bridge"} \/ answer.bridge = "pcie" => mux = "pcie"
    /\ at \in {"usbPll", "usbPhy"} => answer.usb = "usb3"

LEMMA LinkedInit == Init => Linked
BY DEF Init, LaneInit, Linked, BridgeSteps

LEMMA LinkedNext ==
    ASSUME TypeInv, Flowing, Linked, [Next]_vars
    PROVE  Linked'
<1>0. /\ linkUp \in BOOLEAN /\ link \in BOOLEAN /\ mux \in {"usb3", "pcie"}
      /\ answer \in [bridge : Modes, usb : Modes]
  BY DEF TypeInv, LaneTypes
<1>1. ASSUME UNCHANGED <<linkUp, link, mux, answer>>, left' \subseteq left,
             \/ at' = at
             \/ at' = "bridge" /\ "bridge" \in left
             \/ at' \notin BridgeSteps \cup {"usbPll", "usbPhy"}
             \/ at = "bridgePll" /\ at' = "bridgePhy"
             \/ at = "usbPll" /\ at' = "usbPhy"
      PROVE  Linked'
  BY <1>0, <1>1 DEF Linked, BridgeSteps
<1>2. CASE BringUp
  <2>0. UNCHANGED left
    BY <1>2 DEF BringUp, boot
  <2>1. CASE BridgeReadsMux("dispatch")
    <3>1. PICK p \in BOOLEAN : Resolved("bridge", p) /\ at' = IF p THEN "bridgePll" ELSE "dispatch"
      BY <2>1 DEF BridgeReadsMux, Goto
    <3>2. at = "bridge" /\ UNCHANGED <<mux, link, linkUp>>
      BY <2>1 DEF BridgeReadsMux
    <3>3. /\ p => answer'.bridge = "pcie" /\ (mux = "pcie" \/ answer.bridge = "pcie")
          /\ ~p => answer'.bridge = "usb3"
          /\ answer'.usb = answer.usb
      BY <3>1, MuxRead
    <3> QED BY <1>0, <2>0, <3>1, <3>2, <3>3, <1>2, BringUpMoves DEF Linked, Flowing, BridgeSteps
  <2>2. CASE ReadMux
    <3>1. PICK p \in BOOLEAN : Resolved("usb", p) /\ at' = IF p THEN "usbCore" ELSE "usbPll"
      BY <2>2 DEF ReadMux, Goto
    <3>2. at = "usbMux" /\ UNCHANGED <<mux, link, linkUp>>
      BY <2>2 DEF ReadMux
    <3>3. /\ ~p => answer'.usb = "usb3"
          /\ answer.usb # "unread" => answer' = answer
          /\ answer'.bridge = answer.bridge
      BY <3>1, MuxRead
    <3> QED BY <1>0, <2>0, <3>1, <3>2, <3>3 DEF Linked, BridgeSteps
  <2>3. CASE BridgePhy
    BY <1>0, <2>0, <2>3 DEF BridgePhy, PhyAfterReset, Goto, Linked, BridgeSteps
  <2>4. CASE BridgeLink("dispatch")
    BY <1>0, <2>0, <2>4 DEF BridgeLink, Goto, Linked, Flowing, BridgeSteps
  <2>5. CASE MesonInitUsb3Phy
    BY <1>0, <2>0, <2>5 DEF MesonInitUsb3Phy, Goto, Linked, BridgeSteps
  <2>6. CASE BridgePll("dispatch") \/ MesonInitPciePll
    BY <1>1, <2>0, <2>6 DEF BridgePll, MesonInitPciePll, Goto, BridgeSteps
  <2>7. CASE MesonEnableUsbPower \/ MesonInitUsbGlue \/ MesonInitUsb2Phy
             \/ CoreSoftReset \/ CoreQuirks
             \/ CapabilityValid(Started("started")) \/ CapabilityInvalid(Started("noHost"))
    BY <1>1, <2>0, <2>7 DEF MesonEnableUsbPower, MesonInitUsbGlue, MesonInitUsb2Phy, CoreSoftReset,
       CoreQuirks, CapabilityValid, CapabilityInvalid, Started, Goto, BridgeSteps, lane
  <2>8. CASE Raise \/ AckSeen \/ AckGone \/ HandshakeTimesOut \/ TuningEnds
    BY <1>1, <2>0, <2>8 DEF Raise, AckSeen, AckGone, HandshakeTimesOut, TuningEnds, Goto,
       BridgeSteps, lane
  <2> QED BY <1>2, <2>1, <2>2, <2>3, <2>4, <2>5, <2>6, <2>7, <2>8 DEF BringUp, DriverSteps
<1>3. CASE PhyMoves \/ BusMoves \/ BdsGoesOn \/ UNCHANGED vars
  <2>1. UNCHANGED <<at, left, linkUp, link, mux, answer>>
    BY <1>3, PhyTypes DEF PhyMoves, PhySteps, PhyAcks, PhyReleases, BusMoves, Appear, Enumerate,
       BdsGoesOn, vars, laneVars, lane, boot
  <2> QED BY <1>1, <2>1
<1>4. CASE \E m \in left : Dispatch(m)
  <2>1. PICK m \in left : Dispatch(m)
    BY <1>4
  <2> QED BY <1>1, <2>1 DEF Dispatch, lane, BridgeSteps
<1>5. CASE Flow /\ ~(\E m \in left : Dispatch(m))
  <2>1. UNCHANGED <<lane, left>>
    BY <1>5 DEF Flow, ConnectUsbHosts, ConnectAllConsoles, ConnectThen, HostStarts, HostMissing,
       StallEnds, Vim3CountUsbDevices, CountRootPorts, CountHubPorts, Break, Growing, ReInit,
       NothingToReInit, AttemptsEnd, boot
  <2>2. at' \notin BridgeSteps \cup {"usbPll", "usbPhy"}
    <3>1. at' # "bridge"
      BY <1>5, FlowMoves DEF Flow, ConnectUsbHosts, ConnectAllConsoles, ConnectThen, HostStarts,
         HostMissing, StallEnds, Vim3CountUsbDevices, CountRootPorts, CountHubPorts, Break, Growing,
         ReInit, NothingToReInit, AttemptsEnd, Goto, Flowing, AfterSteps, Returns
    <3> QED BY <1>5, <3>1, FlowMoves DEF Returns, LoopSteps, BridgeSteps
  <2> QED BY <1>1, <2>1, <2>2 DEF lane
<1> QED BY <1>2, <1>3, <1>4, <1>5 DEF Next

(* The link that Vim3PciHostBridgeLib trained and announced is still there
   after every bring-up of USB, however often the boot manager re-initialises
   the controller, unless MesonUsbDxe's own copy of the mux library misread the
   mux. *)
THEOREM LinkSurvives == Spec => []TrainedLinkSurvives
<1> DEFINE I == TypeInv /\ Flowing /\ Linked
<1>1. Init => I
  BY TypeInit, FlowingInit, LinkedInit
<1>2. I /\ [Next]_vars => I'
  <2> SUFFICES ASSUME TypeInv, Flowing, Linked, [Next]_vars
               PROVE  TypeInv' /\ Flowing' /\ Linked'
    OBVIOUS
  <2> QED BY TypeNext, FlowingNext, LinkedNext
<1>3. I => TrainedLinkSurvives
  BY DEF Linked, TrainedLinkSurvives
<1> QED BY <1>1, <1>2, <1>3, PTL DEF Spec
-----------------------------------------------------------------------------
(* The tuning of the PHY.                                                  *)

\* The PHY has taken the strobe that is raised, or was until just now.
Acted == (wait = "ack" /\ cr.ack) \/ wait = "release"
Released == cr.strobe = "none" /\ ~cr.ack

TunedSoFar ==
    /\ \A i \in 1 .. (n - 1) \div 5 : cr.regs[Tuning[i]] = Word(Tuning[i], "tuned")
    /\ \A r \in Tuned : cr.regs[r].rest = r

Handshake ==
    /\ wait = "none" => Released
    /\ wait = "release" => cr.strobe = "none"
    /\ wait = "ack" => /\ cr.strobe = Strobe
                       /\ Strobe = "addr" => cr.val = Word(Register, "address")
                       /\ Strobe = "data" => cr.val = Word(Register, "tuned")

Halfway ==
    n <= Program =>
        /\ Stage >= 1 \/ Acted => cr.addr = Register
        /\ Stage >= 2 \/ (Stage = 1 /\ wait = "release") => captured.rest = Register
        /\ Stage = 1 /\ wait = "ack" /\ cr.ack => cr.out.rest = Register
        /\ Stage >= 4 \/ (Stage = 3 /\ Acted) => cr.data = Word(Register, "tuned")
        /\ Stage = 4 /\ Acted => cr.regs[Register] = Word(Register, "tuned")

Tune == at = "usbTune" => steer = "usb3" /\ TunedSoFar /\ Handshake /\ Halfway

LEMMA SameStrobe ==
    ASSUME UNCHANGED n
    PROVE  Stage' = Stage /\ Strobe' = Strobe /\ Register' = Register
BY DEF Stage, Strobe, Register, Strobes

LEMMA RaiseTunes ==
    ASSUME TypeInv, Tune, Raise
    PROVE  Tune'
<1> DEFINE v == CASE Strobe = "addr" -> Word(Register, "address")
                  [] Strobe = "data" -> [captured EXCEPT !.field = "tuned"]
                  [] OTHER -> NoWord
<1>1. /\ cr \in CrTypes /\ captured \in Words /\ n \in 1 .. Program
  BY ProgramLength DEF TypeInv, LaneTypes, Raise
<1>2. at = "usbTune" /\ steer = "usb3" /\ TunedSoFar /\ Released /\ Halfway
  BY DEF Tune, Raise, Handshake
<1>3. UNCHANGED <<at, steer, n, captured>> /\ wait' = "ack"
      /\ cr' = [cr EXCEPT !.strobe = Strobe, !.val = v]
  BY DEF Raise, lane
<1>4. /\ Strobe = "addr" => v = Word(Register, "address")
      /\ Strobe = "data" => v = Word(Register, "tuned")
  <2>1. Strobe = "data" => Stage = 3
    BY <1>1, StrobeOf
  <2>2. Strobe = "data" => captured.rest = Register
    BY <1>1, <1>2, <2>1 DEF Halfway
  <2> QED BY <1>1, <2>2, WordTypes
<1> HIDE DEF v
<1>5. /\ cr'.strobe = Strobe /\ cr'.val = v /\ cr'.ack = FALSE
      /\ cr'.addr = cr.addr /\ cr'.data = cr.data /\ cr'.out = cr.out /\ cr'.regs = cr.regs
  BY <1>1, <1>2, <1>3 DEF CrTypes, Released
<1>6. Stage' = Stage /\ Strobe' = Strobe /\ Register' = Register
  BY <1>3, SameStrobe
<1>7. TunedSoFar'
  BY <1>2, <1>3, <1>5 DEF TunedSoFar, Word
<1>8. Handshake'
  BY <1>3, <1>4, <1>5, <1>6 DEF Handshake, Word
<1>9. Halfway'
  BY <1>1, <1>2, <1>3, <1>5, <1>6 DEF Halfway, Acted, Word, Program, Strobes
<1> QED BY <1>2, <1>3, <1>7, <1>8, <1>9 DEF Tune

LEMMA AckSeenTunes ==
    ASSUME TypeInv, Tune, AckSeen
    PROVE  Tune'
<1>1. /\ cr \in CrTypes /\ captured \in Words /\ n \in 1 .. Program
      /\ at = "usbTune" /\ wait = "ack" /\ cr.ack
  BY ProgramLength DEF TypeInv, LaneTypes, AckSeen
<1>2. steer = "usb3" /\ TunedSoFar /\ Handshake /\ Halfway /\ Acted
  BY <1>1 DEF Tune, Acted
<1>3. UNCHANGED <<at, steer, n>> /\ wait' = "release"
      /\ cr' = [cr EXCEPT !.strobe = "none"]
      /\ captured' = IF cr.strobe = "read" THEN cr.out ELSE captured
  BY DEF AckSeen, lane
<1>4. /\ cr'.strobe = "none" /\ cr'.ack = cr.ack
      /\ cr'.addr = cr.addr /\ cr'.data = cr.data /\ cr'.out = cr.out /\ cr'.regs = cr.regs
  BY <1>1, <1>3 DEF CrTypes
<1>5. Stage' = Stage /\ Strobe' = Strobe /\ Register' = Register
  BY <1>3, SameStrobe
<1>6. Stage \in 0 .. 4 /\ (cr.strobe = "read" <=> Stage = 1)
  BY <1>1, <1>2, StrobeOf DEF Handshake
<1>7. /\ Stage' = 1 => captured'.rest = Register
      /\ Stage' >= 2 => captured'.rest = Register
  BY <1>1, <1>2, <1>3, <1>5, <1>6 DEF Halfway
<1>8. TunedSoFar'
  BY <1>2, <1>3, <1>4 DEF TunedSoFar, Word
<1>9. Handshake'
  BY <1>3, <1>4 DEF Handshake
<1>10. Halfway'
  BY <1>1, <1>2, <1>3, <1>4, <1>5, <1>6, <1>7 DEF Halfway, Acted, Word, Program, Strobes
<1> QED BY <1>1, <1>2, <1>3, <1>8, <1>9, <1>10 DEF Tune

LEMMA AckGoneTunes ==
    ASSUME TypeInv, Tune, AckGone
    PROVE  Tune'
<1>1. /\ cr \in CrTypes /\ captured \in Words /\ n \in 1 .. Program
      /\ at = "usbTune" /\ wait = "release" /\ ~cr.ack
  BY ProgramLength DEF TypeInv, LaneTypes, AckGone
<1>2. steer = "usb3" /\ TunedSoFar /\ Handshake /\ Halfway /\ Acted
  BY <1>1 DEF Tune, Acted
<1>3. UNCHANGED <<at, steer, cr, captured>> /\ wait' = "none" /\ n' = n + 1
  BY DEF AckGone, lane
<1>4. ~Acted'
  BY <1>3 DEF Acted
<1>5. Handshake'
  BY <1>1, <1>2, <1>3 DEF Handshake, Released
<1>6. CASE Stage < 4
  <2>1. /\ n' <= Program /\ Stage' = Stage + 1 /\ Register' = Register
        /\ (n' - 1) \div 5 = (n - 1) \div 5 /\ Stage \in 0 .. 4
    BY <1>1, <1>3, <1>6, StrobeOver, StrobeOf
  <2>2. TunedSoFar'
    BY <1>2, <1>3, <2>1 DEF TunedSoFar, Word
  <2>3. Halfway'
    BY <1>1, <1>2, <1>3, <1>4, <2>1 DEF Halfway, Word
  <2> QED BY <1>1, <1>2, <1>3, <1>5, <2>2, <2>3 DEF Tune
<1>7. CASE Stage = 4
  <2>1. /\ Stage' = 0 /\ (n' - 1) \div 5 = (n - 1) \div 5 + 1
        /\ Register = Tuning[(n - 1) \div 5 + 1]
        /\ (n - 1) \div 5 + 1 \in 1 .. Len(Tuning)
    BY <1>1, <1>3, <1>7, StrobeOver, StrobeOf
  <2>2. cr.regs[Register] = Word(Register, "tuned")
    BY <1>1, <1>2, <1>7 DEF Halfway
  <2>3. TunedSoFar'
    <3> DEFINE k == (n - 1) \div 5
    <3>1. k \in Nat /\ (n' - 1) \div 5 = k + 1 /\ Register = Tuning[k + 1]
      BY <1>1, <2>1, ProgramLength
    <3>2. \A i \in 1 .. k : cr.regs[Tuning[i]] = Word(Tuning[i], "tuned")
      BY <1>2 DEF TunedSoFar
    <3>3. (\A r \in Tuned : cr.regs[r].rest = r)'
      BY <1>2, <1>3 DEF TunedSoFar
    <3> HIDE DEF k
    <3>4. \A i \in 1 .. k + 1 : cr.regs[Tuning[i]] = Word(Tuning[i], "tuned")
      BY <2>2, <3>1, <3>2
    <3> QED BY <1>3, <3>1, <3>3, <3>4 DEF TunedSoFar, Word
  <2>4. Halfway'
    BY <1>4, <2>1, <1>3 DEF Halfway
  <2> QED BY <1>1, <1>2, <1>3, <1>5, <2>3, <2>4 DEF Tune
<1> QED BY <1>1, <1>6, <1>7, StrobeOf

LEMMA PhyTunes ==
    ASSUME TypeInv, Tune, PhyMoves
    PROVE  Tune'
<1> SUFFICES ASSUME at' = "usbTune" PROVE Tune'
  BY DEF Tune
<1>1. UNCHANGED <<at, steer, n, wait, captured>>
  BY DEF PhyMoves, PhySteps, PhyAcks, PhyReleases, lane
<1>2. /\ cr \in CrTypes /\ captured \in Words /\ at = "usbTune"
      /\ wait \in {"none", "ack", "release"}
      /\ wait # "none" => n \in 1 .. Program
  BY <1>1, ProgramLength DEF TypeInv, LaneTypes
<1>3. steer = "usb3" /\ TunedSoFar /\ Handshake /\ Halfway
  BY <1>2 DEF Tune
<1>4. Stage' = Stage /\ Strobe' = Strobe /\ Register' = Register
  BY <1>1, SameStrobe
<1>5. CASE PhyReleases
  <2>1. /\ cr.strobe = "none" /\ cr.ack /\ cr'.strobe = "none" /\ cr'.ack = FALSE
        /\ cr'.addr = cr.addr /\ cr'.data = cr.data /\ cr'.out = cr.out /\ cr'.regs = cr.regs
    BY <1>2, <1>5 DEF PhyReleases, CrTypes
  <2>2. wait # "none"
    BY <1>2, <1>3, <2>1 DEF Handshake, Released
  <2>3. wait = "release"
    BY <1>2, <1>3, <2>1, <2>2, StrobeOf DEF Handshake
  <2>4. Acted' /\ Acted
    BY <1>1, <2>3 DEF Acted
  <2>5. TunedSoFar' /\ Handshake'
    BY <1>1, <1>3, <2>1, <2>3 DEF TunedSoFar, Handshake, Word
  <2>6. Halfway'
    BY <1>1, <1>3, <1>4, <2>1, <2>3, <2>4 DEF Halfway, Word, Program, Strobes
  <2> QED BY <1>1, <1>3, <2>5, <2>6 DEF Tune
<1>6. CASE PhyAcks
  <2>1. cr.strobe # "none" /\ ~cr.ack
    BY <1>6 DEF PhyAcks
  <2>2. wait = "ack"
    BY <1>2, <1>3, <2>1 DEF Handshake, Released
  <2>3. n \in 1 .. Program /\ cr.strobe = Strobe /\ Register \in Tuned /\ Stage \in 0 .. 4
    BY <1>2, <1>3, <2>2, StrobeOf DEF Handshake
  <2>4. Acted' <=> cr'.ack
    BY <1>1, <2>2 DEF Acted
  <2>5. CASE Strobe = "addr"
    <3>1. cr' = [[cr EXCEPT !.addr = cr.val.rest] EXCEPT !.ack = TRUE]
      BY <1>6, <2>3, <2>5 DEF PhyAcks
    <3>2. cr.val.rest = Register
      BY <1>3, <2>2, <2>3, <2>5, WordTypes DEF Handshake
    <3>3. /\ cr'.strobe = cr.strobe /\ cr'.val = cr.val /\ cr'.ack = TRUE
          /\ cr'.addr = Register
          /\ cr'.data = cr.data /\ cr'.out = cr.out /\ cr'.regs = cr.regs
      BY <1>2, <3>1, <3>2 DEF CrTypes
    <3>4. Stage \in {0, 2}
      BY <2>3, <2>5, StrobeOf
    <3>5. TunedSoFar' /\ Handshake'
      BY <1>1, <1>3, <1>4, <2>2, <3>3 DEF TunedSoFar, Handshake, Word
    <3>6. Halfway'
      BY <1>1, <1>3, <1>4, <2>2, <2>3, <2>4, <3>3, <3>4 DEF Halfway, Word
    <3> QED BY <1>1, <1>3, <3>5, <3>6 DEF Tune
  <2>6. CASE Strobe = "data"
    <3>1. cr' = [[cr EXCEPT !.data = cr.val] EXCEPT !.ack = TRUE]
      BY <1>6, <2>3, <2>6 DEF PhyAcks
    <3>2. cr.val = Word(Register, "tuned")
      BY <1>3, <2>2, <2>3, <2>6 DEF Handshake
    <3>3. /\ cr'.strobe = cr.strobe /\ cr'.val = cr.val /\ cr'.ack = TRUE
          /\ cr'.addr = cr.addr
          /\ cr'.data = cr.val /\ cr'.out = cr.out /\ cr'.regs = cr.regs
      BY <1>2, <3>1 DEF CrTypes
    <3>4. Stage = 3
      BY <2>3, <2>6, StrobeOf
    <3>5. TunedSoFar' /\ Handshake'
      BY <1>1, <1>3, <1>4, <2>2, <3>3 DEF TunedSoFar, Handshake, Word
    <3>6. Halfway'
      BY <1>1, <1>3, <1>4, <2>2, <2>3, <2>4, <3>2, <3>3, <3>4 DEF Halfway, Word
    <3> QED BY <1>1, <1>3, <3>5, <3>6 DEF Tune
  <2>7. CASE Strobe = "read"
    <3>1. cr' = [[cr EXCEPT !.out = cr.regs[cr.addr]] EXCEPT !.ack = TRUE]
      BY <1>6, <2>3, <2>7 DEF PhyAcks
    <3>2. /\ cr'.strobe = cr.strobe /\ cr'.val = cr.val /\ cr'.ack = TRUE
          /\ cr'.addr = cr.addr
          /\ cr'.data = cr.data /\ cr'.out = cr.regs[cr.addr] /\ cr'.regs = cr.regs
      BY <1>2, <3>1 DEF CrTypes
    <3>3. Stage = 1 /\ cr.addr = Register
      BY <1>3, <2>3, <2>7, StrobeOf DEF Halfway
    <3>4. cr'.out.rest = Register
      BY <1>3, <2>3, <3>2, <3>3 DEF TunedSoFar
    <3>5. TunedSoFar' /\ Handshake'
      BY <1>1, <1>3, <1>4, <2>2, <3>2 DEF TunedSoFar, Handshake, Word
    <3>6. Halfway'
      BY <1>1, <1>3, <1>4, <2>2, <2>3, <2>4, <3>2, <3>3, <3>4 DEF Halfway, Word
    <3> QED BY <1>1, <1>3, <3>5, <3>6 DEF Tune
  <2>8. CASE Strobe = "write"
    <3>1. cr' = [[cr EXCEPT !.regs[cr.addr] = cr.data] EXCEPT !.ack = TRUE]
      BY <1>6, <2>3, <2>8 DEF PhyAcks
    <3>2. /\ cr'.strobe = cr.strobe /\ cr'.val = cr.val /\ cr'.ack = TRUE
          /\ cr'.addr = cr.addr /\ cr'.data = cr.data /\ cr'.out = cr.out
          /\ cr'.regs = [cr.regs EXCEPT ![cr.addr] = cr.data]
      BY <1>2, <3>1 DEF CrTypes
    <3>3. Stage = 4 /\ cr.addr = Register /\ cr.data = Word(Register, "tuned")
      BY <1>3, <2>3, <2>8, StrobeOf DEF Halfway
    <3>4. \A r \in Tuned : cr'.regs[r] = IF r = Register THEN Word(Register, "tuned")
                                         ELSE cr.regs[r]
      BY <1>2, <3>2, <3>3 DEF CrTypes
    <3>5. \A i \in 1 .. (n - 1) \div 5 : Tuning[i] \in Tuned
      <4>1. (n - 1) \div 5 + 1 \in 1 .. Len(Tuning) /\ Len(Tuning) \in Nat
        BY <2>3, StrobeOf, ProgramLength
      <4> QED BY <2>3, <4>1 DEF Tuned
    <3>6. TunedSoFar'
      BY <1>1, <1>3, <3>4, <3>5, WordTypes DEF TunedSoFar
    <3>7. Handshake'
      BY <1>1, <1>3, <1>4, <2>2, <3>2 DEF Handshake, Word
    <3>8. Halfway'
      BY <1>1, <1>3, <1>4, <2>2, <2>3, <2>4, <3>2, <3>3, <3>4 DEF Halfway, Word
    <3> QED BY <1>1, <1>3, <3>6, <3>7, <3>8 DEF Tune
  <2> QED BY <2>3, <2>5, <2>6, <2>7, <2>8, StrobeOf
<1> QED BY <1>5, <1>6 DEF PhyMoves, PhySteps
LEMMA TuneInit == Init => Tune
BY DEF Init, LaneInit, Tune

LEMMA TuneNext ==
    ASSUME TypeInv, Flowing, Tune, [Next]_vars
    PROVE  Tune'
<1>1. CASE Raise \/ AckSeen \/ AckGone
  BY <1>1, RaiseTunes, AckSeenTunes, AckGoneTunes
<1>2. CASE MesonInitUsb3Phy
  <2>1. steer' = "usb3" /\ cr' = CrReset /\ n' = 1 /\ wait' = "none"
    BY <1>2 DEF MesonInitUsb3Phy
  <2>2. (n' - 1) \div 5 = 0 /\ Stage' = 0
    BY <2>1 DEF Stage
  <2>3. ~Acted'
    BY <2>1 DEF Acted
  <2>4. TunedSoFar'
    <3>1. \A r \in Tuned : cr'.regs[r].rest = r
      BY <2>1, WordTypes
    <3> QED BY <2>2, <3>1 DEF TunedSoFar
  <2>5. Handshake'
    BY <2>1, WordTypes DEF Handshake, Released
  <2>6. Halfway'
    BY <2>1, <2>2, <2>3 DEF Halfway
  <2> QED BY <2>1, <2>4, <2>5, <2>6 DEF Tune
<1>3. CASE BringUp /\ ~(Raise \/ AckSeen \/ AckGone \/ MesonInitUsb3Phy)
  <2>1. at' # "usbTune"
    BY <1>3 DEF BringUp, DriverSteps, BridgeReadsMux, BridgePll, BridgePhy, BridgeLink,
       MesonEnableUsbPower, MesonInitUsbGlue, MesonInitUsb2Phy, ReadMux, MesonInitPciePll,
       HandshakeTimesOut, TuningEnds, CoreSoftReset, CoreQuirks, CapabilityValid,
       CapabilityInvalid, Started, Goto
  <2> QED BY <2>1 DEF Tune
<1>4. CASE PhyMoves
  BY <1>4, PhyTunes
<1>5. CASE BusMoves \/ BdsGoesOn \/ UNCHANGED vars
  <2>1. UNCHANGED <<at, lane, bus>>
    BY <1>5 DEF BusMoves, Appear, Enumerate, BdsGoesOn, vars, laneVars
  <2>2. UNCHANGED <<at, steer, cr, n, wait, captured>>
    BY <2>1 DEF lane, bus
  <2>3. Stage' = Stage /\ Strobe' = Strobe /\ Register' = Register
    BY <2>2, SameStrobe
  <2>4. Acted' <=> Acted
    BY <2>2 DEF Acted
  <2>5. TunedSoFar => TunedSoFar'
    BY <2>2 DEF TunedSoFar, Word
  <2>6. Handshake => Handshake'
    BY <2>2, <2>3 DEF Handshake, Released, Word
  <2>7. Halfway => Halfway'
    <3>1. n' = n /\ cr' = cr /\ wait' = wait /\ captured' = captured /\ Program' = Program
      BY <2>2 DEF Program, Strobes
    <3>2. Word(Register, "tuned")' = Word(Register, "tuned")
      BY <2>3 DEF Word
    <3> QED BY <2>3, <2>4, <3>1, <3>2, Zenon DEF Halfway
  <2> QED BY <2>2, <2>5, <2>6, <2>7 DEF Tune
<1>6. CASE Flow
  <2>1. at' # "usbTune"
    BY <1>6, FlowMoves DEF Returns, LoopSteps
  <2> QED BY <2>1 DEF Tune
<1> QED BY <1>1, <1>2, <1>3, <1>4, <1>5, <1>6 DEF Next

-----------------------------------------------------------------------------
(* What is configured when.                                                *)

Glue     == {"rails", "gates", "hostport", "otgport", "superspeed", "pipe"}
AllTuned == \A r \in Tuned : cr.regs[r] = Word(r, "tuned")

SetUp ==
    /\ at = "usbGlue" => {"rails", "gates"} \subseteq good
    /\ at = "usb2Phys" => good = Glue
    /\ at \in {"usbMux", "usbPll", "usbPhy", "usbTune", "usbCore"} => good = Glue \cup {"usb2phys"}
    /\ at = "usbQuirks" => good = Glue \cup {"usb2phys", "core"}
    /\ at \in {"usbCheck", "started"} => good = Settings
    /\ hc => good = Settings

\* While it is set, nothing of what it stands for is touched; a boot over USB
\* has no controller of its own and may run the bridge's reset over it.
TunedTruly ==
    /\ at \in {"usbGlue", "usb2Phys", "usbMux", "usbPll", "usbPhy", "usbTune"} => ~tuned
    /\ at \in BridgeSteps \cup {"dispatch"} /\ ~fromUsb => ~tuned
    /\ tuned /\ ~fromUsb => steer = "usb3" /\ AllTuned /\ Released

LEMMA SetUpInit == Init => SetUp /\ TunedTruly
BY DEF Init, LaneInit, SetUp, TunedTruly

LEMMA SetUpNext ==
    ASSUME TypeInv, Flowing, SetUp, [Next]_vars
    PROVE  SetUp'
<1>0. good \subseteq Settings /\ hc \in BOOLEAN
  BY DEF TypeInv, LaneTypes, LoopTypes, BootTypes
<1>1. CASE BringUp
  <2>1. at \in BridgeSteps \cup UsbSteps /\ ~hc /\ hc' = hc
    BY <1>1, BringUpMoves DEF UsbSteps, Flowing, tree
  <2>2. CASE BridgeReadsMux("dispatch") \/ BridgePll("dispatch") \/ BridgePhy
             \/ BridgeLink("dispatch")
    BY <2>1, <2>2 DEF BridgeReadsMux, BridgePll, BridgePhy, BridgeLink, Goto, SetUp
  <2>3. CASE MesonEnableUsbPower
    BY <2>1, <2>3 DEF MesonEnableUsbPower, Goto, SetUp
  <2>4. CASE MesonInitUsbGlue
    BY <2>1, <2>4 DEF MesonInitUsbGlue, Goto, SetUp, Glue
  <2>5. CASE MesonInitUsb2Phy
    BY <2>1, <2>5 DEF MesonInitUsb2Phy, Goto, SetUp
  <2>6. CASE ReadMux \/ MesonInitPciePll \/ MesonInitUsb3Phy
    BY <2>1, <2>6 DEF ReadMux, MesonInitPciePll, MesonInitUsb3Phy, Goto, SetUp
  <2>7. CASE Raise \/ AckSeen \/ AckGone \/ HandshakeTimesOut \/ TuningEnds
    BY <2>1, <2>7 DEF Raise, AckSeen, AckGone, HandshakeTimesOut, TuningEnds, Goto, SetUp
  <2>8. CASE CoreSoftReset
    BY <2>1, <2>8 DEF CoreSoftReset, Goto, SetUp, Glue
  <2>9. CASE CoreQuirks
    <3>1. good = Glue \cup {"usb2phys", "core"}
      BY <2>9 DEF CoreQuirks, SetUp
    <3>2. good' = Settings
      BY <2>9, <3>1 DEF CoreQuirks, Glue, Settings
    <3> QED BY <2>1, <2>9, <3>2 DEF CoreQuirks, Goto, SetUp
  <2>10. CASE CapabilityValid(Started("started")) \/ CapabilityInvalid(Started("noHost"))
    BY <2>1, <2>10 DEF CapabilityValid, CapabilityInvalid, Started, Goto, SetUp
  <2> QED BY <1>1, <2>2, <2>3, <2>4, <2>5, <2>6, <2>7, <2>8, <2>9, <2>10 DEF BringUp, DriverSteps
<1>2. CASE PhyMoves \/ BusMoves \/ BdsGoesOn \/ UNCHANGED vars
  <2>1. UNCHANGED <<at, good, hc>>
    BY <1>2, PhyTypes DEF PhyMoves, PhySteps, PhyAcks, PhyReleases, BusMoves, Appear, Enumerate,
       BdsGoesOn, vars, laneVars, tree
  <2> QED BY <2>1 DEF SetUp
<1>3. CASE Flow
  <2>1. UNCHANGED good /\ at' \in {"bridge", "usbInit", "dispatch", "loopEnd"} \cup Returns \cup LoopSteps
    BY <1>3, FlowMoves
  <2>2. hc' => hc \/ at = "started"
    BY <1>3 DEF Flow, Dispatch, ConnectUsbHosts, ConnectAllConsoles, ConnectThen, HostStarts,
       HostMissing, StallEnds, Vim3CountUsbDevices, CountRootPorts, CountHubPorts, Break, Growing,
       ReInit, NothingToReInit, AttemptsEnd, tree
  <2> QED BY <2>1, <2>2 DEF SetUp, Returns, LoopSteps
<1> QED BY <1>1, <1>2, <1>3 DEF Next

LEMMA TunedTrulyNext ==
    ASSUME TypeInv, Flowing, Tune, TunedTruly, [Next]_vars
    PROVE  TunedTruly'
<1>0. cr \in CrTypes /\ tuned \in BOOLEAN /\ n \in 0 .. Program + 1 /\ fromUsb \in BOOLEAN
  BY DEF TypeInv, LaneTypes, LoopTypes, BootTypes
<1>1. CASE BringUp
  <2>0. UNCHANGED fromUsb
    BY <1>1 DEF BringUp, boot
  <2>1. CASE BridgeReadsMux("dispatch") \/ BridgePll("dispatch") \/ BridgePhy
             \/ BridgeLink("dispatch")
    <3>1. at \in BridgeSteps /\ at' \in BridgeSteps \cup {"dispatch"} /\ UNCHANGED tuned
      BY <2>1 DEF BridgeReadsMux, BridgePll, BridgePhy, BridgeLink, Goto, BridgeSteps
    <3> QED BY <1>0, <2>0, <3>1 DEF TunedTruly, BridgeSteps
  <2>2. CASE MesonEnableUsbPower
    BY <2>2 DEF MesonEnableUsbPower, TunedTruly
  <2>3. CASE MesonInitUsbGlue \/ MesonInitUsb2Phy \/ ReadMux \/ MesonInitPciePll
             \/ MesonInitUsb3Phy \/ Raise \/ AckSeen \/ AckGone \/ HandshakeTimesOut
    <3>1. ~tuned /\ UNCHANGED tuned
      BY <2>3 DEF MesonInitUsbGlue, MesonInitUsb2Phy, ReadMux, MesonInitPciePll,
         MesonInitUsb3Phy, Raise, AckSeen, AckGone, HandshakeTimesOut, TunedTruly
    <3> QED BY <3>1 DEF TunedTruly
  <2>4. CASE TuningEnds
    <3>1. at = "usbTune" /\ n > Program /\ at' = "usbCore" /\ UNCHANGED <<steer, cr>>
      BY <2>4 DEF TuningEnds, Goto, lane
    <3>2. wait = "none" /\ n - 1 = 5 * Len(Tuning) /\ Len(Tuning) \in Nat
      BY <1>0, <3>1, ProgramLength DEF TypeInv, LaneTypes
    <3>3. (n - 1) \div 5 = Len(Tuning)
      BY <3>2
    <3>4. steer = "usb3" /\ Released /\ TunedSoFar
      BY <3>1, <3>2 DEF Tune, Handshake
    <3>5. AllTuned
      BY <3>3, <3>4 DEF AllTuned, TunedSoFar, Tuned
    <3> QED BY <3>1, <3>4, <3>5 DEF TunedTruly, AllTuned, Released, BridgeSteps, Word
  <2>5. CASE CoreSoftReset \/ CoreQuirks
             \/ CapabilityValid(Started("started")) \/ CapabilityInvalid(Started("noHost"))
    <3>1. UNCHANGED <<tuned, steer, cr>>
      BY <2>5 DEF CoreSoftReset, CoreQuirks, CapabilityValid, CapabilityInvalid, lane, bus
    <3>2. \/ at' \in {"usbQuirks", "usbCheck", "started", "noHost"}
          \/ at = "usbCheck" /\ ret = "dispatch" /\ at' = "dispatch"
      BY <2>5 DEF CoreSoftReset, CoreQuirks, CapabilityValid, CapabilityInvalid, Started, Goto
    <3>3. at' = "dispatch" => fromUsb
      BY <3>2 DEF Flowing, UsbSteps, Returns
    <3> QED BY <2>0, <3>1, <3>2, <3>3 DEF TunedTruly, AllTuned, Released, BridgeSteps, Word
  <2> QED BY <1>1, <2>1, <2>2, <2>3, <2>4, <2>5 DEF BringUp, DriverSteps
<1>2. CASE PhyMoves
  <2>1. UNCHANGED <<at, tuned, steer, fromUsb>>
    BY <1>2 DEF PhyMoves, PhySteps, PhyAcks, PhyReleases, lane, boot
  <2>2. ~Released
    BY <1>0, <1>2 DEF PhyMoves, PhySteps, PhyAcks, PhyReleases, Released, CrTypes
  <2> QED BY <2>1, <2>2 DEF TunedTruly
<1>3. CASE BusMoves \/ BdsGoesOn \/ UNCHANGED vars
  <2>1. UNCHANGED <<at, tuned, steer, cr, fromUsb>>
    BY <1>3 DEF BusMoves, Appear, Enumerate, BdsGoesOn, vars, laneVars, lane, bus, boot
  <2> QED BY <2>1 DEF TunedTruly, AllTuned, Released, Word
<1>4. CASE Flow
  <2>1. UNCHANGED <<tuned, steer, cr, fromUsb>>
    BY <1>4, FlowMoves DEF lane, bus
  <2>2. \/ at' \in {"usbInit", "loopEnd"} \cup Returns \cup LoopSteps
        \/ at = "dispatch" /\ at' \in {"bridge", "dispatch"}
    BY <1>4, FlowMoves
  <2> QED BY <2>1, <2>2 DEF TunedTruly, AllTuned, Released, Word, BridgeSteps, Returns, LoopSteps
<1> QED BY <1>1, <1>2, <1>3, <1>4 DEF Next

(* A controller that is handed over has every setting of the glue and the core
   in force, and its SuperSpeed PHY, when it is reported tuned, has every field
   of every register set and every other bit as it was: for any tuning program,
   any settings inherited and any handshake that timed out in earlier attempts,
   answered late or never. *)
THEOREM ReadyConfigured == Spec => []ReadyMeansConfigured
<1> DEFINE I == TypeInv /\ Flowing /\ Tune /\ SetUp /\ TunedTruly
<1>1. Init => I
  BY TypeInit, FlowingInit, TuneInit, SetUpInit
<1>2. I /\ [Next]_vars => I'
  <2> SUFFICES ASSUME TypeInv, Flowing, Tune, SetUp, TunedTruly, [Next]_vars
               PROVE  TypeInv' /\ Flowing' /\ Tune' /\ SetUp' /\ TunedTruly'
    OBVIOUS
  <2> QED BY TypeNext, FlowingNext, TuneNext, SetUpNext, TunedTrulyNext
<1>3. I => ReadyMeansConfigured
  BY DEF Flowing, SetUp, TunedTruly, AllTuned, ReadyMeansConfigured
<1> QED BY <1>1, <1>2, <1>3, PTL DEF Spec
-----------------------------------------------------------------------------
(* The tree of devices, and what the loop counts of it.                    *)

\* Devices hang from enumerated hubs, and there are none without a controller.
Grown ==
    /\ ~hc => seen = {}
    /\ up \subseteq seen /\ change \subseteq seen /\ seen \subseteq Reachable
    /\ \A d \in seen : Parent[d] = "root" \/ Parent[d] \in up

\* What the counts stand for, however the tree has grown since they were taken.
Counting ==
    /\ at \in {"countRoots", "countHubs", "decide"} =>
           counted \subseteq up /\ devices = Cardinality(counted)
    /\ at \in {"countHubs", "decide"} => counted \subseteq view /\ view \subseteq seen
    /\ at = "countHubs" => ports = Cardinality(view \cap Roots)
    /\ at = "decide" => /\ read \subseteq seen /\ view \cap Roots \subseteq read
                        /\ ports = Cardinality(read)
    /\ best <= Cardinality(known)

Accepting ==
    accepted =>
        /\ at \in {"loopEnd", "menu"} \cup UsbSteps \cup AfterSteps
        /\ at \in UsbSteps \cup AfterSteps => ret = "menu"
        /\ counted \subseteq up /\ counted \subseteq view /\ view \subseteq seen
        /\ view \cap Roots \subseteq read /\ Cardinality(counted) >= Cardinality(read)

LEMMA GrownInit == Init => Grown /\ Counting /\ Accepting
<1> SUFFICES ASSUME Init PROVE Grown /\ Counting /\ Accepting
  OBVIOUS
<1>1. Cardinality(known) = 0 /\ best = 0 /\ at = "dispatch" /\ ~accepted
  BY FS_EmptySet DEF Init, LaneInit
<1>2. Grown
  BY DEF Init, Grown
<1> QED BY <1>1, <1>2 DEF Counting, Accepting

\* The SuperSpeed ports see no more and no less while a controller is there.
LEMMA ReachableKept ==
    ASSUME TypeInv, Flowing, [Next]_vars, hc
    PROVE  Reachable' = Reachable
<1>1. ~BringUp
  BY BringUpMoves DEF Flowing, UsbSteps
<1>2. CASE Flow
  BY <1>2, FlowMoves DEF lane, Reachable
<1>3. CASE ~Flow
  <2>1. UNCHANGED <<tuned, pll>>
    BY <1>1, <1>3 DEF Next, PhyMoves, PhySteps, PhyAcks, PhyReleases, BusMoves, Appear, Enumerate,
       BdsGoesOn, vars, laneVars, lane
  <2> QED BY <2>1 DEF Reachable
<1> QED BY <1>2, <1>3

LEMMA GrownNext ==
    ASSUME TypeInv, Flowing, Grown, [Next]_vars
    PROVE  Grown'
<1>0. hc \in BOOLEAN /\ hc' \in BOOLEAN
  BY TypeNext DEF TypeInv, LoopTypes, BootTypes
<1>1. ASSUME hc' = hc, seen' = seen, up' = up, change' \subseteq change
      PROVE  Grown'
  <2>1. seen' \subseteq Reachable'
    BY <1>1, ReachableKept DEF Grown
  <2> QED BY <1>1, <2>1 DEF Grown
<1>2. CASE BringUp \/ PhyMoves \/ BdsGoesOn \/ UNCHANGED vars
  BY <1>1, <1>2 DEF BringUp, PhyMoves, BdsGoesOn, vars, tree
<1>3. CASE BusMoves
  <2>1. PICK d \in Devs : Appear(d) \/ Enumerate(d)
    BY <1>3 DEF BusMoves
  <2>2. CASE Appear(d)
    <3>1. hc /\ d \in Reachable /\ (Parent[d] = "root" \/ Parent[d] \in up)
      BY <2>2 DEF Appear, MayAppear, Roots
    <3>2. Reachable' = Reachable
      BY <3>1, ReachableKept
    <3> QED BY <2>2, <3>1, <3>2 DEF Appear, Grown
  <2>3. CASE Enumerate(d)
    <3>1. hc' = hc /\ seen' = seen /\ up \subseteq up' /\ up' \subseteq up \cup {d}
          /\ change' \subseteq change /\ d \in change
      BY <2>3 DEF Enumerate
    <3>2. seen' \subseteq Reachable'
      BY <3>1, ReachableKept DEF Grown
    <3> QED BY <3>1, <3>2 DEF Grown
  <2> QED BY <2>1, <2>2, <2>3
<1>4. CASE HostStarts \/ HostMissing
  <2>1. seen' = seen /\ up' = up /\ change' = change /\ at \in AfterSteps
    BY <1>4 DEF HostStarts, HostMissing, tree, AfterSteps
  <2>2. seen = {}
    BY <2>1 DEF Flowing, Grown
  <2> QED BY <2>1, <2>2 DEF Grown
<1>5. CASE ReInit
  BY <1>5 DEF ReInit, Grown
<1>6. CASE Flow /\ ~(HostStarts \/ HostMissing \/ ReInit)
  <2>1. hc' = hc /\ seen' = seen /\ up' = up /\ change' \subseteq change
    BY <1>6 DEF Flow, Dispatch, ConnectUsbHosts, ConnectAllConsoles, ConnectThen, StallEnds,
       Vim3CountUsbDevices, CountRootPorts, CountHubPorts, Break, Growing, NothingToReInit,
       AttemptsEnd, tree
  <2> QED BY <1>1, <2>1
<1> QED BY <1>2, <1>3, <1>4, <1>5, <1>6 DEF Next

\* A hub's ports are no root ports: a port is counted once.
LEMMA CountedOnce ==
    ASSUME TypeInv, NEW found \in SUBSET HubPorts
    PROVE  LET total == (view \cap Roots) \cup found
           IN  /\ IsFiniteSet(total)
               /\ Cardinality(total) = Cardinality(view \cap Roots) + Cardinality(found)
<1>1. view \subseteq Devs /\ up \subseteq Devs /\ seen \subseteq Devs
  BY DEF TypeInv, LoopTypes, TreeTypes
<1>2. found \subseteq Devs /\ view \cap Roots \subseteq Devs
  BY <1>1 DEF HubPorts
<1>3. (view \cap Roots) \cap found = {}
  BY <1>1, TreeAssumption DEF HubPorts, Roots
<1>4. /\ IsFiniteSet(found) /\ IsFiniteSet(view \cap Roots)
      /\ Cardinality(found) \in Nat /\ Cardinality(view \cap Roots) \in Nat
  BY <1>2, Counts
<1>5. /\ IsFiniteSet((view \cap Roots) \cup found)
      /\ Cardinality((view \cap Roots) \cup found)
           = Cardinality(view \cap Roots) + Cardinality(found) - Cardinality((view \cap Roots) \cap found)
  BY <1>4, FS_Union
<1>6. Cardinality((view \cap Roots) \cap found) = 0
  BY <1>3, FS_EmptySet
<1> QED BY <1>4, <1>5, <1>6

LEMMA CountingNext ==
    ASSUME TypeInv, Flowing, Grown, Counting, Accepting, [Next]_vars
    PROVE  Counting' /\ Accepting'
<1>0. /\ counted \subseteq Devs /\ read \subseteq Devs /\ known \subseteq Devs
      /\ view \subseteq Devs /\ seen \subseteq Devs /\ up \subseteq Devs
      /\ best \in Nat /\ ports \in Nat /\ devices \in Nat /\ accepted \in BOOLEAN
      /\ Cardinality(known) \in Nat
  BY Counts DEF TypeInv, LoopTypes, TreeTypes, CountTypes, BootTypes
<1>1. ASSUME UNCHANGED tally, best' = best, accepted' = accepted, seen \subseteq seen',
             up \subseteq up', at' \in {"countRoots", "countHubs", "decide"} => at' = at
      PROVE  Counting'
  BY <1>1 DEF Counting, tally, Roots
<1>2. ASSUME UNCHANGED tally, accepted' = accepted, seen \subseteq seen', up \subseteq up',
             accepted => /\ at' \in {"loopEnd", "menu"} \cup UsbSteps \cup AfterSteps
                         /\ at' \in UsbSteps \cup AfterSteps => ret' = "menu"
      PROVE  Accepting'
  BY <1>2 DEF Accepting, tally, Roots
<1>3. CASE BringUp
  <2>1. UNCHANGED <<tally, best, accepted, seen, up, ret>>
    BY <1>3, BringUpMoves DEF tree, loop, boot
  <2>2. at' \notin {"countRoots", "countHubs", "decide"}
    BY <1>3, BringUpMoves DEF BridgeSteps, UsbSteps, AfterSteps
  <2>3. accepted => /\ at' \in {"loopEnd", "menu"} \cup UsbSteps \cup AfterSteps
                    /\ at' \in UsbSteps \cup AfterSteps => ret' = "menu"
    BY <1>3, <2>1, BringUpMoves DEF Accepting, BridgeSteps, UsbSteps, AfterSteps
  <2> QED BY <1>1, <1>2, <2>1, <2>2, <2>3
<1>4. CASE PhyMoves \/ BusMoves \/ BdsGoesOn \/ UNCHANGED vars
  <2>1. UNCHANGED <<at, ret, tally, best, accepted>> /\ seen \subseteq seen' /\ up \subseteq up'
    BY <1>4, PhyTypes DEF PhyMoves, PhySteps, PhyAcks, PhyReleases, BusMoves, Appear, Enumerate,
       BdsGoesOn, vars, laneVars, tree, loop, boot
  <2>2. accepted => /\ at' \in {"loopEnd", "menu"} \cup UsbSteps \cup AfterSteps
                    /\ at' \in UsbSteps \cup AfterSteps => ret' = "menu"
    BY <2>1 DEF Accepting
  <2> QED BY <1>1, <1>2, <2>1, <2>2
<1>5. CASE (\E m \in left : Dispatch(m)) \/ ConnectUsbHosts \/ ConnectAllConsoles
           \/ HostStarts \/ HostMissing \/ StallEnds \/ AttemptsEnd
  <2>1. UNCHANGED <<tally, best, accepted, seen, up>>
    BY <1>5 DEF Dispatch, ConnectUsbHosts, ConnectAllConsoles, ConnectThen, HostStarts, HostMissing,
       StallEnds, AttemptsEnd, tree, loop, boot
  <2>2. at' \notin {"countRoots", "countHubs", "decide"}
    BY <1>5 DEF Dispatch, ConnectUsbHosts, ConnectAllConsoles, ConnectThen, HostStarts, HostMissing,
       StallEnds, AttemptsEnd, Goto, Flowing, AfterSteps, Returns
  <2>3. accepted => /\ at' \in {"loopEnd", "menu"} \cup UsbSteps \cup AfterSteps
                    /\ at' \in UsbSteps \cup AfterSteps => ret' = "menu"
    <3>1. CASE (\E m \in left : Dispatch(m)) \/ ConnectUsbHosts \/ StallEnds \/ AttemptsEnd
               \/ (ConnectAllConsoles /\ at = "consoles")
      <4>1. at \notin {"loopEnd", "menu"} \cup UsbSteps \cup AfterSteps
        BY <3>1 DEF Dispatch, ConnectUsbHosts, StallEnds, AttemptsEnd,
           UsbSteps, AfterSteps
      <4> QED BY <4>1 DEF Accepting
    <3>2. CASE ConnectAllConsoles /\ at # "consoles"
      BY <3>2 DEF ConnectAllConsoles, ConnectThen, Goto, UsbSteps
    <3>3. CASE HostStarts \/ HostMissing
      BY <3>3 DEF HostStarts, HostMissing, Goto, Accepting, UsbSteps, AfterSteps
    <3> QED BY <1>5, <3>1, <3>2, <3>3
  <2> QED BY <1>1, <1>2, <2>1, <2>2, <2>3
<1>6. CASE Vim3CountUsbDevices
  <2>1. /\ at = "countDevices" /\ at' = "countRoots" /\ counted' = up /\ up' = up
        /\ devices' = Cardinality(up) /\ UNCHANGED <<best, known, accepted>>
    BY <1>6 DEF Vim3CountUsbDevices, Goto, tree, loop, boot
  <2> QED BY <2>1 DEF Counting, Accepting, UsbSteps, AfterSteps
<1>7. CASE CountRootPorts
  <2>1. /\ at = "countRoots" /\ at' = "countHubs" /\ view' = seen /\ Roots' = Roots
        /\ ports' = Cardinality(seen \cap Roots)
        /\ UNCHANGED <<best, known, accepted, seen, up, counted, devices>>
    BY <1>7 DEF CountRootPorts, Goto, loop, boot, Roots
  <2>2. counted \subseteq up /\ devices = Cardinality(counted) /\ up \subseteq seen
    BY <2>1 DEF Counting, Grown
  <2> QED BY <2>1, <2>2 DEF Counting, Accepting, UsbSteps, AfterSteps
<1>8. CASE CountHubPorts
  <2>1. /\ at = "countHubs" /\ at' = "decide" /\ known' = known \cup read'
        /\ best' = IF ports' > best THEN ports' ELSE best
        /\ UNCHANGED <<seen, up, devices, counted, view, accepted>>
    BY <1>8 DEF CountHubPorts, Goto, boot
  <2>2. PICK skipped \in SUBSET HubPorts :
           /\ ports' = ports + Cardinality(HubPorts \ skipped)
           /\ read' = (view \cap Roots) \cup (HubPorts \ skipped)
    BY <1>8 DEF CountHubPorts
  <2>3. ports' = Cardinality(read') /\ IsFiniteSet(read')
    <3>1. HubPorts \ skipped \in SUBSET HubPorts
      OBVIOUS
    <3>2. ports = Cardinality(view \cap Roots)
      BY <2>1 DEF Counting
    <3> QED BY <2>2, <3>1, <3>2, CountedOnce
  <2>4. counted \subseteq up /\ devices = Cardinality(counted) /\ counted \subseteq view
        /\ view \subseteq seen
    BY <2>1 DEF Counting
  <2>5. read' \subseteq seen /\ view \cap Roots \subseteq read'
    BY <2>2, <2>4, HubPortsSeen
  <2>6. /\ known' \subseteq Devs /\ IsFiniteSet(known') /\ Cardinality(known') \in Nat
        /\ Cardinality(known) <= Cardinality(known')
        /\ Cardinality(read') <= Cardinality(known') /\ Cardinality(read') \in Nat
    <3>1. known' \subseteq Devs /\ known \subseteq known' /\ read' \subseteq known'
          /\ read' \subseteq Devs
      BY <1>0, <2>1, <2>5
    <3>2. IsFiniteSet(known') /\ Cardinality(known') \in Nat /\ Cardinality(read') \in Nat
      BY <3>1, Counts
    <3> QED BY <3>1, <3>2, FS_Subset
  <2>7. best' <= Cardinality(known')
    <3>1. best <= Cardinality(known)
      BY DEF Counting
    <3> QED BY <1>0, <2>1, <2>3, <2>6, <3>1
  <2>8. Counting'
    BY <2>1, <2>3, <2>4, <2>5, <2>7 DEF Counting, Roots
  <2> QED BY <2>1, <2>8 DEF Accepting, UsbSteps, AfterSteps
<1>9. CASE Break
  <2>1. /\ at = "decide" /\ at' = "loopEnd" /\ devices >= ports
        /\ UNCHANGED <<tally, best, seen, up>>
    BY <1>9 DEF Break, Complete, Goto, tree, loop
  <2>2. /\ counted \subseteq up /\ devices = Cardinality(counted) /\ counted \subseteq view
        /\ view \subseteq seen /\ view \cap Roots \subseteq read /\ ports = Cardinality(read)
        /\ best <= Cardinality(known)
    BY <2>1 DEF Counting
  <2> QED BY <2>1, <2>2 DEF Counting, Accepting, tally, UsbSteps, AfterSteps, Roots
<1>10. CASE Growing \/ ReInit \/ NothingToReInit
  <2>1. at = "decide" /\ at' \in {"stall", "usbInit"} /\ UNCHANGED <<best, accepted, known>>
    BY <1>10 DEF Growing, ReInit, NothingToReInit, NextPass, Stuck, Goto, boot
  <2> QED BY <2>1 DEF Counting, Accepting, UsbSteps, AfterSteps
<1> QED BY <1>3, <1>4, <1>5, <1>6, <1>7, <1>8, <1>9, <1>10 DEF Next, Flow

TreeInv == TypeInv /\ Flowing /\ Grown /\ Counting /\ Accepting

LEMMA TreeInvHolds == Spec => []TreeInv
<1>1. Init => TreeInv
  BY TypeInit, FlowingInit, GrownInit DEF TreeInv
<1>2. TreeInv /\ [Next]_vars => TreeInv'
  <2> SUFFICES ASSUME TypeInv, Flowing, Grown, Counting, Accepting, [Next]_vars
               PROVE  TypeInv' /\ Flowing' /\ Grown' /\ (Counting' /\ Accepting')
    BY DEF TreeInv
  <2> QED BY TypeNext, FlowingNext, GrownNext, CountingNext
<1> QED BY <1>1, <1>2, PTL DEF Spec

(* Whatever the bus driver's timer did between the counts, and after them: if
   the loop of PlatformBootManagerAfterConsole ends by its break, and every
   port of an enumerated hub could be read, every port that reported a device
   when the count began has that device enumerated. *)
THEOREM AcceptedWhole == Spec => []AcceptedTreeWhole
<1>1. TreeInv => AcceptedTreeWhole
  <2> SUFFICES ASSUME TreeInv, accepted, view \cap HubPorts \subseteq read
               PROVE  view \subseteq up
    BY DEF AcceptedTreeWhole
  <2>1. /\ counted \subseteq up /\ counted \subseteq view /\ view \subseteq seen
        /\ view \cap Roots \subseteq read /\ Cardinality(counted) >= Cardinality(read)
    BY DEF TreeInv, Accepting
  <2>2. /\ seen \subseteq Devs /\ read \subseteq Devs /\ counted \subseteq Devs
        /\ \A d \in seen : Parent[d] = "root" \/ Parent[d] \in up
    BY DEF TreeInv, TypeInv, LoopTypes, TreeTypes, Grown
  <2>3. view \subseteq read
    BY <2>1, <2>2 DEF HubPorts, Roots
  <2>4. counted \in SUBSET read /\ IsFiniteSet(read) /\ Cardinality(read) \in Nat
        /\ Cardinality(counted) \in Nat
    BY <2>1, <2>2, <2>3, Counts
  <2>5. Cardinality(counted) <= Cardinality(read)
        /\ (Cardinality(read) = Cardinality(counted) => read = counted)
    BY <2>4, FS_Subset
  <2>6. read = counted
    BY <2>1, <2>4, <2>5
  <2> QED BY <2>1, <2>3, <2>6
<1> QED BY <1>1, TreeInvHolds, PTL

(* The re-initialisation of the controller never takes down a tree that was
   whole when its devices were counted, while every port counted in any pass
   could be read in this one; a bus without a device is never complete. *)
THEOREM WholeTree == Spec => WholeTreeKept
<1>1. TreeInv /\ [Next]_vars
        => [ReInit => counted = {} \/ counted # Reachable \/ ~(known \subseteq read)]_vars
  <2> SUFFICES ASSUME TreeInv, ReInit, counted = Reachable, known \subseteq read, counted # {}
               PROVE  FALSE
    OBVIOUS
  <2>1. at = "decide" /\ ~Complete
    BY DEF ReInit, Stuck
  <2>2. /\ devices = Cardinality(counted) /\ read \subseteq seen /\ ports = Cardinality(read)
        /\ best <= Cardinality(known) /\ seen \subseteq Reachable
    BY <2>1 DEF TreeInv, Counting, Grown
  <2>3. read \subseteq Devs /\ counted \subseteq Devs /\ known \subseteq Devs
        /\ best \in Nat /\ ports \in Nat /\ devices \in Nat
    BY DEF TreeInv, TypeInv, LoopTypes, TreeTypes, CountTypes
  <2>4. read \in SUBSET counted /\ known \in SUBSET read
    BY <2>2
  <2>5. /\ IsFiniteSet(counted) /\ IsFiniteSet(read)
        /\ Cardinality(known) \in Nat
    BY <2>3, Counts
  <2>6. Cardinality(read) <= Cardinality(counted) /\ Cardinality(known) <= Cardinality(read)
    BY <2>4, <2>5, FS_Subset
  <2>7. devices # 0
    BY <2>2, <2>5, FS_EmptySet
  <2> QED BY <2>1, <2>2, <2>3, <2>5, <2>6, <2>7 DEF Complete
<1> QED BY <1>1, TreeInvHolds, PTL DEF Spec, WholeTreeKept

(* Every variable keeps its type; the tuning program is never run past its end,
   no strobe of it outlives its last register, the faults stay within their
   bound, and no pass of the loop starts with its attempts used up. *)
THEOREM TypeCorrect == Spec => []TypeInv
<1>1. TreeInv => TypeInv
  BY DEF TreeInv
<1> QED BY <1>1, TreeInvHolds, PTL

-----------------------------------------------------------------------------
(* How far the attempts carry: every fault costs three passes at most.     *)

\* The devices that the lane lets a boot reach, and of them those that a tree
\* grown to its end contains: the smallest set that is closed under the hubs.
Lanes       == IF answer.usb = "usb3" THEN Devs ELSE Devs \ SuperDevs
Closed(S)   == \A d \in Lanes : Parent[d] = "root" \/ Parent[d] \in S => d \in S
Whole       == {d \in Lanes : \A S \in SUBSET Devs : Closed(S) => d \in S}
Readable(d) == Parent[d] = "root" \/ Parent[d] \notin Mute

TuneSteps == {"usbPll", "usbPhy", "usbTune"}
CoreSteps == {"usbCore", "usbQuirks", "usbCheck"}

\* The PHY is tuned, and a controller there, only once the mux was read.
LaneWithin ==
    /\ tuned => answer.usb = "usb3"
    /\ at \in UsbSteps \ {"usbInit"} /\ tuned => at \in CoreSteps
    /\ at \in TuneSteps => answer.usb = "usb3"
    /\ hc \/ at \in TuneSteps \cup CoreSteps \cup AfterSteps => answer.usb # "unread"
\* Nothing beyond the whole tree is ever seen, and no port behind a mute hub is
\* ever counted.
TreeWithin ==
    /\ known # {} => answer.usb # "unread"
    /\ seen \subseteq Whole /\ known \subseteq Whole
    /\ \A d \in known : Readable(d)
Within == LaneWithin /\ TreeWithin

Lit        == answer.usb = "usb3" => tuned /\ pll
CountSteps == LoopSteps \ {"stall"}

\* If nothing more goes wrong, the pass at hand, or the next one, is accepted.
SoundTree ==
    /\ hc => Lit /\ seen \ up \subseteq change
    /\ at \in CountSteps => Settled /\ seen = up
SoundCount ==
    /\ at \in CountSteps \ {"countDevices"} => counted = up
    /\ at \in {"countHubs", "decide"} => view = seen
    /\ at = "decide" => read = {d \in seen : Readable(d)}
Sound ==
    /\ at \in {"usbPhy", "usbTune"} => pll
    /\ at \in CoreSteps \cup AfterSteps => Lit
    /\ SoundTree /\ SoundCount

\* Else the tree has grown to its end, and the loop has seen that; or it has
\* not seen it; or the tree may grow on while it is counted.
Seen == at \in LoopSteps /\ Settled /\ prev >= Cardinality(up)
Calm == at \in CountSteps =>
            Settled /\ (at # "countDevices" => devices >= Cardinality(up))
Owed == IF Sound THEN 0 ELSE IF Seen THEN 1 ELSE IF Calm THEN 2 ELSE 3

\* The faults are all told apart, and fewer than would use the attempts up.
FewFaults == faults < MaxFaults /\ 3 * faults < MaxAttempts

Absorbing ==
    ~fromUsb /\ ~hostLost /\ ~accepted /\ FewFaults => attempt + Owed <= 3 * faults

\* The loop has a controller until a start of it fails, and ends by its break.
Ending ==
    /\ ~fromUsb /\ "usb" \notin left => registered
    /\ ~fromUsb /\ ~hostLost /\ at \in LoopSteps => hc
    /\ ~fromUsb /\ ~hostLost /\ FewFaults /\ (at \in {"loopEnd", "menu"} \/ ret = "menu")
         => accepted

LEMMA WholeIs ==
    /\ Whole \subseteq Lanes /\ Lanes \subseteq Devs /\ Closed(Whole)
    /\ \A S \in SUBSET Devs : Closed(S) => Whole \subseteq S
<1>1. Whole \subseteq Lanes /\ Lanes \subseteq Devs
  BY DEF Whole, Lanes
<1>2. \A S \in SUBSET Devs : Closed(S) => Whole \subseteq S
  BY DEF Whole
<1>3. ASSUME NEW d \in Lanes, Parent[d] = "root" \/ Parent[d] \in Whole
      PROVE  d \in Whole
  <2>1. \A S \in SUBSET Devs : Closed(S) => d \in S
    BY <1>2, <1>3 DEF Closed
  <2> QED BY <2>1 DEF Whole
<1> QED BY <1>1, <1>2, <1>3 DEF Closed

LEMMA ReachableIs ==
    ASSUME Within
    PROVE  Reachable \subseteq Lanes /\ (Lit => Reachable = Lanes)
BY DEF Within, LaneWithin, Reachable, Lanes, Lit

\* A step that goes wrong is no pass.
LEMMA StepFaults ==
    ASSUME [Next]_vars
    PROVE  UNCHANGED faults \/ (Fault /\ UNCHANGED attempt)
<1>1. CASE BringUp
  <2>1. UNCHANGED faults \/ Fault
    <3>1. CASE BridgeReadsMux("dispatch") \/ ReadMux
      BY <3>1 DEF BridgeReadsMux, ReadMux, Resolved
    <3>2. CASE BridgePll("dispatch") \/ BridgePhy \/ BridgeLink("dispatch")
               \/ MesonEnableUsbPower \/ MesonInitUsbGlue \/ MesonInitUsb2Phy
               \/ MesonInitPciePll \/ MesonInitUsb3Phy
      BY <3>2 DEF BridgePll, BridgePhy, BridgeLink, MesonEnableUsbPower, MesonInitUsbGlue,
         MesonInitUsb2Phy, MesonInitPciePll, MesonInitUsb3Phy
    <3>3. CASE Raise \/ AckSeen \/ AckGone \/ HandshakeTimesOut \/ TuningEnds
               \/ CoreSoftReset \/ CoreQuirks
      BY <3>3 DEF Raise, AckSeen, AckGone, HandshakeTimesOut, TuningEnds, CoreSoftReset, CoreQuirks
    <3>4. CASE CapabilityValid(Started("started")) \/ CapabilityInvalid(Started("noHost"))
      BY <3>4 DEF CapabilityValid, CapabilityInvalid
    <3> QED BY <1>1, <3>1, <3>2, <3>3, <3>4 DEF BringUp, DriverSteps
  <2> QED BY <1>1, <2>1 DEF BringUp, loop
<1>2. CASE PhyMoves
  <2>1. UNCHANGED faults
    BY <1>2 DEF PhyMoves, PhySteps, PhyAcks, PhyReleases
  <2> QED BY <2>1
<1>3. CASE BusMoves
  <2>1. PICK d \in Devs : Appear(d) \/ Enumerate(d)
    BY <1>3 DEF BusMoves
  <2>2. UNCHANGED loop
    BY <2>1 DEF Appear, Enumerate
  <2>3. UNCHANGED faults \/ Fault
    BY <2>1 DEF Appear, Enumerate, laneVars
  <2> QED BY <2>2, <2>3 DEF loop
<1>4. CASE BdsGoesOn \/ UNCHANGED vars
  BY <1>4 DEF BdsGoesOn, vars, laneVars
<1>5. CASE (\E m \in left : Dispatch(m)) \/ ConnectUsbHosts \/ ConnectAllConsoles
           \/ HostStarts \/ HostMissing
  BY <1>5 DEF Dispatch, ConnectUsbHosts, ConnectAllConsoles, ConnectThen, HostStarts, HostMissing, loop
<1>6. CASE StallEnds \/ Vim3CountUsbDevices \/ CountRootPorts
           \/ Break \/ Growing \/ ReInit \/ NothingToReInit \/ AttemptsEnd
  BY <1>6 DEF StallEnds, Vim3CountUsbDevices, CountRootPorts, Break, Growing,
     ReInit, NothingToReInit, AttemptsEnd, loop
<1>7. CASE CountHubPorts
  <2>1. UNCHANGED attempt /\ (UNCHANGED faults \/ Fault)
    BY <1>7 DEF CountHubPorts
  <2> QED BY <2>1
<1> QED BY <1>1, <1>2, <1>3, <1>4, <1>5, <1>6, <1>7 DEF Next, Flow

LEMMA StillFewer ==
    ASSUME NEW f \in Nat, NEW g \in Nat, NEW k \in Nat, NEW m \in Nat, f <= g, g < k, 3 * g < m
    PROVE  f < k /\ 3 * f < m
OBVIOUS
LEMMA FaultsOnlyGrow ==
    ASSUME TypeInv, [Next]_vars
    PROVE  FewFaults' => FewFaults
<1>1. faults \in Nat /\ MaxFaults \in Nat /\ MaxAttempts \in Nat
  BY LaneAssumption, TreeAssumption DEF TypeInv, LaneTypes
<1>2. faults' \in Nat /\ faults <= faults'
  BY <1>1, StepFaults DEF Fault
<1> SUFFICES ASSUME FewFaults' PROVE FewFaults
  OBVIOUS
<1>3. faults' < MaxFaults /\ 3 * faults' < MaxAttempts
  BY DEF FewFaults
<1> QED BY <1>1, <1>2, <1>3, StillFewer DEF FewFaults

LEMMA WithinInit == Init => Within
<1> SUFFICES ASSUME Init PROVE Within
  OBVIOUS
<1>1. LaneWithin
  BY DEF Init, LaneInit, LaneWithin, UsbSteps, TuneSteps, CoreSteps, AfterSteps
<1>2. seen = {} /\ known = {}
  BY DEF Init
<1> QED BY <1>1, <1>2 DEF Within, TreeWithin

LEMMA WholeKept ==
    ASSUME answer'.usb = answer.usb
    PROVE  Lanes' = Lanes /\ Whole' = Whole
<1>1. Lanes' = Lanes
  BY DEF Lanes
<1>2. \A S : Closed(S)' <=> Closed(S)
  BY <1>1 DEF Closed
<1> QED BY <1>1, <1>2 DEF Whole

\* What the bring-up does to the lane's tuning, in order.
BringUpLane ==
    /\ answer'.usb = answer.usb \/ (answer.usb = "unread" /\ at = "usbMux")
    /\ at \in UsbSteps => at' \in (UsbSteps \ {"usbInit"}) \cup AfterSteps \cup {"dispatch"}
    /\ at \in BridgeSteps => at' \in BridgeSteps \cup {"dispatch"}
    /\ tuned' = tuned \/ at = "usbInit"
         \/ (at = "usbTune" /\ at' = "usbCore" /\ tuned' = TRUE)
    /\ at' \in TuneSteps => IF at = "usbMux" THEN at' = "usbPll" /\ answer'.usb = "usb3"
                            ELSE at \in TuneSteps
    /\ at' \in {"usbPhy", "usbTune"} /\ UNCHANGED faults /\ faults < MaxFaults =>
         IF at = "usbPll" THEN pll' = TRUE ELSE at \in {"usbPhy", "usbTune"} /\ pll' = pll
    /\ at' \in CoreSteps \cup AfterSteps =>
         \/ at = "usbMux" /\ answer'.usb = "pcie" /\ at' = "usbCore"
         \/ at = "usbTune" /\ at' = "usbCore" /\ pll' = pll
              /\ (UNCHANGED faults /\ faults < MaxFaults => tuned' = TRUE)
         \/ at \in CoreSteps /\ UNCHANGED <<pll, tuned>>
    /\ at = "usbMux" => answer'.usb # "unread"
    /\ at = "usbInit" => ~tuned'
    /\ at \in CoreSteps => at' \in CoreSteps \cup AfterSteps \cup {"dispatch"}
    /\ at \notin BridgeSteps \cup {"usbPll"} => pll' = pll

LEMMA BringUpLaneIs ==
    ASSUME TypeInv, BringUp
    PROVE  BringUpLane
<1>0. faults \in Nat /\ answer \in [bridge : Modes, usb : Modes]
      /\ (Fault /\ faults < MaxFaults => faults' # faults)
  BY LaneAssumption DEF TypeInv, LaneTypes, Fault
<1> USE DEF BringUpLane, TuneSteps, CoreSteps, UsbSteps, AfterSteps, BridgeSteps
<1>1. CASE BridgeReadsMux("dispatch")
  <2>1. answer'.usb = answer.usb
    BY <1>1, MuxRead DEF BridgeReadsMux
  <2> QED BY <1>1, <2>1 DEF BridgeReadsMux, Goto
<1>2. CASE BridgePll("dispatch") \/ BridgePhy \/ BridgeLink("dispatch")
  BY <1>2 DEF BridgePll, BridgePhy, BridgeLink, Goto
<1>3. CASE MesonEnableUsbPower \/ MesonInitUsbGlue \/ MesonInitUsb2Phy
  BY <1>3 DEF MesonEnableUsbPower, MesonInitUsbGlue, MesonInitUsb2Phy, Goto, lane
<1>4. CASE ReadMux
  <2>1. PICK isPcie \in BOOLEAN : Resolved("usb", isPcie) /\ Goto(IF isPcie THEN "usbCore" ELSE "usbPll")
    BY <1>4 DEF ReadMux
  <2>2. /\ isPcie => answer'.usb = "pcie" /\ at' = "usbCore"
        /\ ~isPcie => answer'.usb = "usb3" /\ at' = "usbPll"
        /\ answer.usb # "unread" => answer' = answer
    BY <2>1, MuxRead DEF Goto
  <2> QED BY <1>4, <2>2 DEF ReadMux
<1>5. CASE MesonInitPciePll \/ MesonInitUsb3Phy
  BY <1>0, <1>5 DEF MesonInitPciePll, MesonInitUsb3Phy, Goto
<1>6. CASE Raise \/ AckSeen \/ AckGone
  <2>1. UNCHANGED <<at, lane, tuned>> /\ at = "usbTune"
    BY <1>6 DEF Raise, AckSeen, AckGone
  <2> QED BY <2>1 DEF lane
<1>7. CASE HandshakeTimesOut \/ TuningEnds
  BY <1>0, <1>7 DEF HandshakeTimesOut, TuningEnds, Goto, lane
<1>8. CASE CoreSoftReset \/ CoreQuirks
  BY <1>8 DEF CoreSoftReset, CoreQuirks, Goto, lane
<1>9. CASE CapabilityValid(Started("started")) \/ CapabilityInvalid(Started("noHost"))
  <2>1. at = "usbCheck" /\ at' \in {"dispatch", "started", "noHost"}
    BY <1>9 DEF CapabilityValid, CapabilityInvalid, Goto, Started
  <2>2. UNCHANGED <<answer, pll, tuned>>
    BY <1>9 DEF CapabilityValid, CapabilityInvalid, lane
  <2> QED BY <2>1, <2>2
<1> QED BY <1>1, <1>2, <1>3, <1>4, <1>5, <1>6, <1>7, <1>8, <1>9 DEF BringUp, DriverSteps

LEMMA LaneWithinNext ==
    ASSUME TypeInv, Flowing, Within, [Next]_vars
    PROVE  LaneWithin' /\ (answer'.usb = answer.usb \/ (answer.usb = "unread" /\ ~hc /\ UNCHANGED tree))
<1>0. LaneWithin
  BY DEF Within
<1>1. CASE BringUp
  <2>1. BringUpLane /\ ~hc /\ UNCHANGED tree /\ at \in BridgeSteps \cup UsbSteps
    BY <1>1, BringUpLaneIs, BringUpMoves DEF Flowing, UsbSteps
  <2>2. ~hc'
    BY <2>1 DEF tree
  <2>3. LaneWithin'
    BY <1>0, <2>1, <2>2 DEF LaneWithin, BringUpLane, UsbSteps, TuneSteps, CoreSteps, AfterSteps, BridgeSteps
  <2> QED BY <2>1, <2>3 DEF BringUpLane
<1>2. CASE Flow
  <2>1. UNCHANGED <<answer, tuned>>
    BY <1>2, FlowMoves DEF lane
  <2>2. at' \notin UsbSteps \cup AfterSteps \/ at' = "usbInit"
    BY <1>2, FlowMoves DEF Returns, LoopSteps, UsbSteps, AfterSteps
  <2>3. hc' => hc \/ at \in AfterSteps
    BY <1>2 DEF Flow, Dispatch, ConnectUsbHosts, ConnectAllConsoles, ConnectThen, HostStarts, HostMissing,
       StallEnds, Vim3CountUsbDevices, CountRootPorts, CountHubPorts, Break, Growing, ReInit,
       NothingToReInit, AttemptsEnd, tree, AfterSteps
  <2>4. LaneWithin'
    BY <1>0, <2>1, <2>2, <2>3 DEF LaneWithin, UsbSteps, TuneSteps, CoreSteps, AfterSteps
  <2> QED BY <2>1, <2>4
<1>3. CASE PhyMoves \/ BusMoves \/ BdsGoesOn \/ UNCHANGED vars
  <2>1. UNCHANGED <<at, answer, tuned, hc>>
    BY <1>3 DEF PhyMoves, PhySteps, PhyAcks, PhyReleases, BusMoves, Appear, Enumerate,
       BdsGoesOn, vars, laneVars, lane, tree
  <2> QED BY <1>0, <2>1 DEF LaneWithin
<1> QED BY <1>1, <1>2, <1>3 DEF Next

LEMMA WithinNext ==
    ASSUME TypeInv, Flowing, Grown, Counting, Within, [Next]_vars
    PROVE  Within'
<1>1. LaneWithin' /\ (answer'.usb = answer.usb \/ (answer.usb = "unread" /\ ~hc /\ UNCHANGED tree))
  BY LaneWithinNext
<1>2. TreeWithin /\ LaneWithin
  BY DEF Within
<1>3. CASE answer'.usb # answer.usb
  <2>1. seen' = {} /\ known = {}
    BY <1>1, <1>2, <1>3 DEF TreeWithin, Grown, tree
  <2>2. UNCHANGED known
    <3>1. CASE CountHubPorts
      BY <3>1, <1>3 DEF CountHubPorts, lane
    <3>2. CASE ~CountHubPorts
      BY <3>2 DEF Next, BringUp, PhyMoves, BusMoves, Appear, Enumerate, Flow, BdsGoesOn, Dispatch,
         ConnectUsbHosts, ConnectAllConsoles, ConnectThen, HostStarts, HostMissing, StallEnds,
         Vim3CountUsbDevices, CountRootPorts, Break, Growing, ReInit, NothingToReInit,
         AttemptsEnd, NextPass, vars, tally
    <3> QED BY <3>1, <3>2
  <2> QED BY <1>1, <2>1, <2>2 DEF Within, TreeWithin
<1>4. CASE answer'.usb = answer.usb
  <2>0. Whole' = Whole
    BY <1>4, WholeKept
  <2>1. seen' \subseteq Whole
    <3>1. CASE BusMoves
      <4>1. PICK d \in Devs : Appear(d) \/ Enumerate(d)
        BY <3>1 DEF BusMoves
      <4>2. CASE Appear(d)
        <5>1. d \in Reachable /\ (Parent[d] = "root" \/ Parent[d] \in seen) /\ seen' = seen \cup {d}
          BY <4>2 DEF Appear, MayAppear, Grown, Roots
        <5>2. d \in Whole
          BY <1>2, <5>1, ReachableIs, WholeIs DEF TreeWithin, Closed
        <5> QED BY <1>2, <5>1, <5>2 DEF TreeWithin
      <4>3. CASE Enumerate(d)
        BY <1>2, <4>3 DEF Enumerate, TreeWithin
      <4> QED BY <4>1, <4>2, <4>3
    <3>2. CASE ~BusMoves
      <4>1. seen' \in {seen, {}}
        BY <3>2 DEF Next, BringUp, PhyMoves, Flow, BdsGoesOn, Dispatch,
         ConnectUsbHosts, ConnectAllConsoles, ConnectThen, HostStarts, HostMissing, StallEnds,
         Vim3CountUsbDevices, CountRootPorts, CountHubPorts, Break, Growing, ReInit, NothingToReInit,
         AttemptsEnd, vars, tree
      <4> QED BY <1>2, <4>1 DEF TreeWithin
    <3> QED BY <3>1, <3>2
  <2>2. CASE CountHubPorts
    <3>1. PICK skipped \in SUBSET HubPorts :
             SkippedAlways \subseteq skipped /\ read' = (view \cap Roots) \cup (HubPorts \ skipped)
      BY <2>2 DEF CountHubPorts
    <3>2. at = "countHubs" /\ view \subseteq seen /\ known' = known \cup read'
      BY <2>2 DEF CountHubPorts, Counting
    <3>3. read' \subseteq seen /\ \A d \in read' : Readable(d)
      BY <3>1, <3>2 DEF HubPorts, SkippedAlways, Roots, Readable
    <3>4. read' # {} => answer.usb # "unread"
      BY <1>2, <3>3 DEF LaneWithin, Grown
    <3>5. TreeWithin'
      BY <1>2, <1>4, <2>0, <2>1, <3>2, <3>3, <3>4 DEF TreeWithin, Readable
    <3> QED BY <1>1, <3>5 DEF Within
  <2>3. CASE ~CountHubPorts
    <3>1. UNCHANGED known
      BY <2>3 DEF Next, BringUp, PhyMoves, BusMoves, Appear, Enumerate, Flow, BdsGoesOn, Dispatch,
         ConnectUsbHosts, ConnectAllConsoles, ConnectThen, HostStarts, HostMissing, StallEnds,
         Vim3CountUsbDevices, CountRootPorts, Break, Growing, ReInit, NothingToReInit,
         AttemptsEnd, NextPass, vars, tally
    <3>2. TreeWithin'
      BY <1>2, <1>4, <2>0, <2>1, <3>1 DEF TreeWithin, Readable
    <3> QED BY <1>1, <3>2 DEF Within
  <2> QED BY <2>2, <2>3
<1> QED BY <1>3, <1>4

LEMMA SettledKept ==
    ASSUME Settled, UNCHANGED <<hc, seen, up, tuned, pll>>, change' \subseteq change
    PROVE  Settled'
BY DEF Settled, MayAppear, Reachable, Roots

\* The count begins when the stall ends.
LEMMA CountBegins ==
    ASSUME TypeInv, Flowing, [Next]_vars, at \notin CountSteps, at' \in CountSteps
    PROVE  StallEnds
<1>1. CASE BringUp
  BY <1>1, BringUpMoves DEF BridgeSteps, UsbSteps, AfterSteps, CountSteps, LoopSteps
<1>2. CASE PhyMoves \/ BusMoves \/ BdsGoesOn \/ UNCHANGED vars
  <2>1. UNCHANGED at
    BY <1>2 DEF PhyMoves, PhySteps, PhyAcks, PhyReleases, BusMoves, Appear, Enumerate,
       BdsGoesOn, vars, laneVars
  <2> QED BY <2>1
<1>3. CASE (\E m \in left : Dispatch(m)) \/ ConnectUsbHosts \/ ConnectAllConsoles
           \/ HostStarts \/ HostMissing \/ Break \/ Growing \/ ReInit \/ NothingToReInit \/ AttemptsEnd
  BY <1>3 DEF Dispatch, ConnectUsbHosts, ConnectAllConsoles, ConnectThen, HostStarts, HostMissing,
     Break, Growing, ReInit, NothingToReInit, AttemptsEnd, Goto, Flowing, Returns, AfterSteps,
     CountSteps, LoopSteps
<1>4. CASE Vim3CountUsbDevices \/ CountRootPorts \/ CountHubPorts
  BY <1>4 DEF Vim3CountUsbDevices, CountRootPorts, CountHubPorts, CountSteps, LoopSteps
<1> QED BY <1>1, <1>2, <1>3, <1>4 DEF Next, Flow

\* What a pass does while the tree stands still and nothing goes wrong.
Stays == at' = at /\ UNCHANGED tally
LEMMA PassMoves ==
    ASSUME TypeInv, Flowing, [Next]_vars, at \in LoopSteps, Settled,
           UNCHANGED <<faults, attempt>>, faults < MaxFaults,
           ~accepted', ~AttemptsEnd
    PROVE  /\ UNCHANGED <<hc, seen, up, tuned, pll, prev>> /\ change' \subseteq change
           /\ Stays \/ StallEnds \/ Vim3CountUsbDevices \/ CountRootPorts \/ CountHubPorts
<1>0. faults \in Nat /\ attempt \in Nat /\ change = {} /\ \A d \in Devs : ~MayAppear(d)
  BY LaneAssumption DEF TypeInv, LaneTypes, LoopTypes, CountTypes, Settled
<1>1. CASE BringUp
  BY <1>1, BringUpMoves DEF BridgeSteps, UsbSteps, LoopSteps
<1>2. CASE PhyMoves \/ BdsGoesOn \/ UNCHANGED vars
  BY <1>2 DEF PhyMoves, PhySteps, PhyAcks, PhyReleases, BdsGoesOn, vars, laneVars, lane, tree,
     tally, loop, Stays
<1>3. CASE BusMoves
  BY <1>0, <1>3 DEF BusMoves, Appear, Enumerate
<1>4. CASE StallEnds \/ Vim3CountUsbDevices \/ CountRootPorts
  BY <1>4 DEF StallEnds, Vim3CountUsbDevices, CountRootPorts, lane, tree, loop
<1>5. CASE CountHubPorts
  <2>1. UNCHANGED <<hc, seen, up, tuned, pll, prev>>
    BY <1>5 DEF CountHubPorts, lane
  <2>2. change' \subseteq change
    BY <1>5 DEF CountHubPorts
  <2> QED BY <1>5, <2>1, <2>2
<1>6. CASE Growing \/ ReInit \/ NothingToReInit
  BY <1>0, <1>6 DEF Growing, ReInit, NothingToReInit, NextAttempt
<1>7. CASE (\E m \in left : Dispatch(m)) \/ ConnectUsbHosts \/ ConnectAllConsoles
           \/ HostStarts \/ HostMissing \/ Break
  BY <1>7 DEF Dispatch, ConnectUsbHosts, ConnectAllConsoles, HostStarts, HostMissing, Break, LoopSteps
<1> QED BY <1>1, <1>2, <1>3, <1>4, <1>5, <1>6, <1>7 DEF Next, Flow

LEMMA SeenNext ==
    ASSUME TypeInv, Flowing, [Next]_vars, Seen, UNCHANGED <<faults, attempt>>, faults < MaxFaults,
           ~accepted', ~AttemptsEnd
    PROVE  Seen'
<1>1. at \in LoopSteps /\ Settled /\ prev >= Cardinality(up)
  BY DEF Seen
<1>2. Settled' /\ UNCHANGED <<up, prev>>
  BY <1>1, PassMoves, SettledKept
<1>3. at' \in LoopSteps
  BY <1>1, PassMoves DEF Stays, StallEnds, Vim3CountUsbDevices, CountRootPorts, CountHubPorts, Goto, LoopSteps
<1> QED BY <1>1, <1>2, <1>3 DEF Seen

LEMMA CalmNext ==
    ASSUME TypeInv, Flowing, [Next]_vars, Calm, UNCHANGED <<faults, attempt>>, faults < MaxFaults,
           ~accepted', ~AttemptsEnd
    PROVE  Calm'
<1>0. faults \in Nat /\ Cardinality(up) \in Nat
  BY LaneAssumption, Counts DEF TypeInv, LaneTypes, LoopTypes, TreeTypes
<1>1. CASE at \in CountSteps
  <2>1. at \in LoopSteps /\ Settled /\ (at # "countDevices" => devices >= Cardinality(up))
    BY <1>1 DEF Calm, CountSteps
  <2>2. Settled' /\ UNCHANGED up
    BY <2>1, PassMoves, SettledKept
  <2>3. at' # "countDevices" => devices' >= Cardinality(up')
    <3>1. CASE Stays \/ StallEnds \/ CountRootPorts \/ CountHubPorts
      BY <2>1, <2>2, <3>1, <1>1 DEF Stays, StallEnds, CountRootPorts, CountHubPorts, tally, Goto, CountSteps
    <3>2. CASE Vim3CountUsbDevices
      BY <1>0, <2>2, <3>2 DEF Vim3CountUsbDevices
    <3> QED BY <2>1, <3>1, <3>2, PassMoves
  <2> QED BY <2>2, <2>3 DEF Calm
<1>2. CASE at \notin CountSteps /\ at' \in CountSteps
  <2>1. StallEnds
    BY <1>2, CountBegins
  <2>2. Settled /\ UNCHANGED <<hc, seen, up, change, tuned, pll>> /\ at' = "countDevices"
    BY <1>0, <2>1 DEF StallEnds, Fault, lane, tree, Goto
  <2> QED BY <2>2, SettledKept DEF Calm
<1> QED BY <1>1, <1>2 DEF Calm

\* What holds of the PHY while the driver is on its way up.
LaneSound ==
    /\ at \in {"usbPhy", "usbTune"} => pll
    /\ at \in CoreSteps \cup AfterSteps => Lit

LEMMA LaneSoundNext ==
    ASSUME TypeInv, Flowing, LaneSound, [Next]_vars, UNCHANGED faults, faults < MaxFaults
    PROVE  LaneSound'
<1>1. CASE BringUp
  <2>1. BringUpLane /\ at \in BridgeSteps \cup UsbSteps
    BY <1>1, BringUpLaneIs, BringUpMoves DEF UsbSteps
  <2>2. at' \in {"usbPhy", "usbTune"} => pll'
    BY <2>1 DEF LaneSound, BringUpLane
  <2>3. at' \in CoreSteps \cup AfterSteps => Lit'
    BY <2>1 DEF LaneSound, BringUpLane, Lit, CoreSteps, AfterSteps
  <2> QED BY <2>2, <2>3 DEF LaneSound
<1>2. CASE Flow
  <2>1. at' \notin UsbSteps \cup AfterSteps \/ at' = "usbInit"
    BY <1>2, FlowMoves DEF Returns, LoopSteps, UsbSteps, AfterSteps
  <2> QED BY <2>1 DEF LaneSound, UsbSteps, AfterSteps, CoreSteps
<1>3. CASE PhyMoves \/ BusMoves \/ BdsGoesOn \/ UNCHANGED vars
  <2>1. UNCHANGED <<at, answer, tuned, pll>>
    BY <1>3 DEF PhyMoves, PhySteps, PhyAcks, PhyReleases, BusMoves, Appear, Enumerate,
       BdsGoesOn, vars, laneVars, lane
  <2> QED BY <2>1 DEF LaneSound, Lit
<1> QED BY <1>1, <1>2, <1>3 DEF Next

LEMMA TreeSoundNext ==
    ASSUME TypeInv, Flowing, Grown, Sound, at \in LoopSteps => hc, [Next]_vars,
           UNCHANGED <<faults, attempt>>, faults < MaxFaults,
           ~accepted', ~AttemptsEnd
    PROVE  SoundTree'
<1>0. /\ SoundTree /\ faults \in Nat /\ attempt \in Nat
      /\ up \subseteq seen /\ change \subseteq seen /\ (~hc => seen = {})
  BY LaneAssumption DEF TypeInv, LaneTypes, LoopTypes, CountTypes, Grown, Sound
<1>1. CASE at \in CountSteps
  <2>1. at \in LoopSteps /\ Settled /\ hc /\ Lit /\ seen = up
    BY <1>0, <1>1 DEF SoundTree, CountSteps
  <2>2. UNCHANGED <<hc, seen, up, tuned, pll>> /\ Settled'
    BY <2>1, PassMoves, SettledKept
  <2>3. answer' = answer
    <3>1. CASE BringUp
      BY <3>1, <2>1, BringUpMoves DEF LoopSteps, BridgeSteps, UsbSteps
    <3>2. CASE Flow
      BY <3>2, FlowMoves DEF lane
    <3>3. CASE PhyMoves \/ BusMoves \/ BdsGoesOn \/ UNCHANGED vars
      BY <3>3 DEF PhyMoves, PhySteps, PhyAcks, PhyReleases, BusMoves, Appear, Enumerate,
         BdsGoesOn, vars, laneVars, lane
    <3> QED BY <3>1, <3>2, <3>3 DEF Next
  <2> QED BY <2>1, <2>2, <2>3 DEF SoundTree, Lit
<1>2. CASE at \notin CountSteps /\ at' \in CountSteps
  <2>1. StallEnds
    BY <1>2, CountBegins
  <2>2. Settled /\ UNCHANGED <<hc, seen, up, change, answer, tuned, pll>> /\ at \in LoopSteps
    BY <1>0, <2>1 DEF StallEnds, Fault, lane, tree, LoopSteps
  <2>3. Settled' /\ change = {}
    BY <2>2, SettledKept DEF Settled
  <2> QED BY <1>0, <2>2, <2>3 DEF SoundTree, Lit
<1>3. CASE at \notin CountSteps /\ at' \notin CountSteps
  <2> SUFFICES ASSUME hc' PROVE Lit' /\ seen' \ up' \subseteq change'
    BY <1>3 DEF SoundTree
  <2>1. CASE BringUp
    BY <2>1, BringUpMoves DEF tree, Flowing, UsbSteps
  <2>2. CASE PhyMoves \/ BdsGoesOn \/ UNCHANGED vars
    <3>1. UNCHANGED <<hc, seen, up, change, answer, tuned, pll>>
      BY <2>2 DEF PhyMoves, PhySteps, PhyAcks, PhyReleases, BdsGoesOn, vars, laneVars, lane, tree
    <3> QED BY <1>0, <3>1 DEF SoundTree, Lit
  <2>3. CASE BusMoves
    <3>1. PICK d \in Devs : Appear(d) \/ Enumerate(d)
      BY <2>3 DEF BusMoves
    <3>2. UNCHANGED <<hc, answer, tuned, pll>>
      BY <3>1 DEF Appear, Enumerate, laneVars, lane
    <3>3. seen' \ up' \subseteq change'
      <4>1. seen \ up \subseteq change
        BY <1>0, <3>2 DEF SoundTree
      <4>2. CASE Appear(d)
        BY <4>1, <4>2 DEF Appear
      <4>3. CASE Enumerate(d)
        <5>1. seen' = seen /\ change' = change \ {d} /\ up' = up \cup {d}
          BY <1>0, <4>3 DEF Enumerate, Fault
        <5> QED BY <4>1, <5>1
      <4> QED BY <3>1, <4>2, <4>3
    <3> QED BY <1>0, <3>2, <3>3 DEF SoundTree, Lit
  <2>4. CASE HostStarts
    <3>1. at = "started" /\ UNCHANGED <<seen, answer, tuned, pll>>
      BY <2>4 DEF HostStarts, lane
    <3>2. Lit /\ ~hc
      BY <3>1 DEF Sound, Flowing, AfterSteps
    <3> QED BY <1>0, <3>1, <3>2 DEF Lit
  <2>5. CASE (\E m \in left : Dispatch(m)) \/ ConnectUsbHosts \/ ConnectAllConsoles
             \/ HostMissing \/ Break \/ AttemptsEnd
    <3>1. UNCHANGED <<hc, seen, up, change, answer, tuned, pll>>
      BY <2>5 DEF Dispatch, ConnectUsbHosts, ConnectAllConsoles, ConnectThen, HostMissing, Break,
         AttemptsEnd, lane, tree
    <3> QED BY <1>0, <3>1 DEF SoundTree, Lit
  <2>6. CASE Growing \/ ReInit \/ NothingToReInit
    BY <1>0, <2>6 DEF Growing, ReInit, NothingToReInit, NextAttempt
  <2>7. CASE StallEnds \/ Vim3CountUsbDevices \/ CountRootPorts \/ CountHubPorts
    BY <1>3, <2>7 DEF StallEnds, Vim3CountUsbDevices, CountRootPorts, CountHubPorts, Goto,
       CountSteps, LoopSteps
  <2> QED BY <2>1, <2>2, <2>3, <2>4, <2>5, <2>6, <2>7 DEF Next, Flow
<1> QED BY <1>1, <1>2, <1>3

LEMMA CountSoundNext ==
    ASSUME TypeInv, Flowing, Grown, Sound, [Next]_vars,
           UNCHANGED <<faults, attempt>>, faults < MaxFaults,
           ~accepted', ~AttemptsEnd
    PROVE  SoundCount'
<1>0. SoundTree /\ SoundCount /\ faults \in Nat
  BY LaneAssumption DEF TypeInv, LaneTypes, Sound
<1>1. CASE at \in CountSteps
  <2>1. at \in LoopSteps /\ Settled /\ seen = up
    BY <1>0, <1>1 DEF SoundTree, CountSteps
  <2>2. /\ UNCHANGED <<hc, seen, up>>
        /\ Stays \/ StallEnds \/ Vim3CountUsbDevices \/ CountRootPorts \/ CountHubPorts
    BY <2>1, PassMoves
  <2>3. CASE Stays
    BY <1>0, <2>2, <2>3 DEF Stays, tally, SoundCount, Readable
  <2>4. CASE Vim3CountUsbDevices
    BY <2>2, <2>4 DEF Vim3CountUsbDevices, SoundCount, Goto
  <2>5. CASE CountRootPorts
    BY <1>0, <2>2, <2>5 DEF CountRootPorts, SoundCount, Goto, CountSteps, LoopSteps
  <2>6. CASE CountHubPorts
    <3>1. PICK skipped \in SUBSET HubPorts :
             /\ (skipped = SkippedAlways /\ UNCHANGED faults) \/ (skipped # SkippedAlways /\ Fault)
             /\ read' = (view \cap Roots) \cup (HubPorts \ skipped)
      BY <2>6 DEF CountHubPorts
    <3>2. skipped = SkippedAlways
      BY <1>0, <3>1 DEF Fault
    <3>3. at = "countHubs" /\ view = seen /\ counted = up /\ UNCHANGED <<view, counted>> /\ at' = "decide"
      BY <1>0, <2>6 DEF CountHubPorts, SoundCount, Goto, CountSteps, LoopSteps
    <3>4. seen \subseteq Devs /\ \A d \in seen : Parent[d] = "root" \/ Parent[d] \in up
      BY DEF TypeInv, LoopTypes, TreeTypes, Grown
    <3>5. read' = {d \in seen : Readable(d)}
      BY <3>1, <3>2, <3>3, <3>4, TreeAssumption DEF HubPorts, SkippedAlways, Roots, Readable
    <3>6. {d \in seen : Readable(d)} = {d \in seen : Readable(d)}'
      BY <2>2 DEF Readable
    <3> QED BY <2>2, <3>3, <3>5, <3>6 DEF SoundCount
  <2>7. CASE StallEnds
    BY <2>7, <1>1 DEF StallEnds, CountSteps
  <2> QED BY <2>2, <2>3, <2>4, <2>5, <2>6, <2>7
<1>2. CASE at \notin CountSteps /\ at' \in CountSteps
  BY <1>2, CountBegins DEF StallEnds, Goto, SoundCount
<1>3. CASE at' \notin CountSteps
  BY <1>3 DEF SoundCount, CountSteps, LoopSteps
<1> QED BY <1>1, <1>2, <1>3

LEMMA SoundNext ==
    ASSUME TypeInv, Flowing, Grown, Sound, at \in LoopSteps => hc, [Next]_vars,
           UNCHANGED <<faults, attempt>>, faults < MaxFaults,
           ~accepted', ~AttemptsEnd
    PROVE  Sound'
<1>1. LaneSound'
  BY LaneSoundNext DEF Sound, LaneSound
<1>2. SoundTree' /\ SoundCount'
  BY TreeSoundNext, CountSoundNext
<1> QED BY <1>1, <1>2 DEF Sound, LaneSound

\* A tree that is counted soundly is complete, if it has a device at all.
LEMMA SoundComplete ==
    ASSUME Roots \ SuperDevs # {}, TypeInv, Grown, Counting, Within, Sound, at = "decide", hc
    PROVE  Complete
<1>1. /\ Settled /\ seen = up /\ counted = up /\ Lit /\ read = {d \in seen : Readable(d)}
  BY DEF Sound, SoundTree, SoundCount, CountSteps, LoopSteps
<1>2. Reachable = Lanes
  BY <1>1, ReachableIs
<1>3. up \subseteq Devs /\ known \subseteq Devs /\ read \subseteq Devs /\ best \in Nat
  BY DEF TypeInv, LoopTypes, TreeTypes, CountTypes
<1>4. Closed(up)
  <2> SUFFICES ASSUME NEW d \in Lanes, Parent[d] = "root" \/ Parent[d] \in up
               PROVE  d \in up
    BY DEF Closed
  <2>1. d \in Devs /\ ~MayAppear(d)
    BY <1>1, WholeIs DEF Settled
  <2> QED BY <1>1, <1>2, <2>1 DEF MayAppear, Roots
<1>5. Whole \subseteq up /\ known \subseteq Whole /\ \A d \in known : Readable(d)
  BY <1>3, <1>4, WholeIs DEF Within, TreeWithin
<1>6. known \subseteq read /\ read \subseteq up
  BY <1>1, <1>5
<1>7. devices = Cardinality(up) /\ ports = Cardinality(read) /\ best <= Cardinality(known)
  BY <1>1 DEF Counting
<1>8. Cardinality(known) <= Cardinality(read) /\ Cardinality(read) <= Cardinality(up)
      /\ Cardinality(up) \in Nat /\ Cardinality(read) \in Nat /\ Cardinality(known) \in Nat
  BY <1>3, <1>6, Counts, FS_Subset
<1>9. Cardinality(up) # 0
  <2>1. PICK d \in Roots : d \notin SuperDevs
    OBVIOUS
  <2>2. d \in Lanes /\ Parent[d] = "root"
    BY <2>1 DEF Roots, Lanes
  <2>3. d \in up
    BY <1>5, <2>2, WholeIs DEF Closed
  <2> QED BY <1>3, <2>3, Counts, FS_EmptySet
<1> QED BY <1>3, <1>7, <1>8, <1>9 DEF Complete

LEMMA EndingInit == Init => Ending
BY DEF Init, LaneInit, Ending, LoopSteps

LEMMA EndingNext ==
    ASSUME TypeInv, Flowing, Accepting, Ending, [Next]_vars,
           ~fromUsb /\ ~hostLost /\ ~accepted /\ FewFaults => ~AttemptsEnd
    PROVE  Ending'
<1>0. /\ fromUsb \in BOOLEAN /\ hostLost \in BOOLEAN /\ accepted \in BOOLEAN
      /\ registered \in BOOLEAN /\ hc \in BOOLEAN /\ left \subseteq {"bridge", "usb"}
      /\ ret \in Returns \cup {"none", "dispatch"}
  BY DEF TypeInv, LaneTypes, LoopTypes, BootTypes
<1>00. FewFaults' => FewFaults
  BY FaultsOnlyGrow
<1>1. CASE BringUp
  <2>1. UNCHANGED <<ret, left, fromUsb, registered, hostLost, accepted, hc>>
    BY <1>1, BringUpMoves DEF boot, tree
  <2>2. at' \notin LoopSteps \cup {"loopEnd", "menu"}
    BY <1>1, BringUpMoves DEF BridgeSteps, UsbSteps, AfterSteps, LoopSteps
  <2> QED BY <1>00, <2>1, <2>2 DEF Ending
<1>2. CASE PhyMoves \/ BdsGoesOn \/ UNCHANGED vars
  <2>1. UNCHANGED <<at, ret, left, fromUsb, registered, hostLost, accepted, hc>>
    BY <1>2 DEF PhyMoves, PhySteps, PhyAcks, PhyReleases, BdsGoesOn, vars, laneVars, tree, boot
  <2> QED BY <1>00, <2>1 DEF Ending
<1>3. CASE BusMoves
  <2>1. UNCHANGED <<at, ret, left, fromUsb, registered, hostLost, accepted, hc>>
    BY <1>3 DEF BusMoves, Appear, Enumerate, laneVars, boot
  <2> QED BY <1>00, <2>1 DEF Ending
<1>4. CASE \E m \in left : Dispatch(m)
  <2>1. PICK m \in left : Dispatch(m)
    BY <1>4
  <2>2. /\ ret' = "dispatch" /\ at = "dispatch" /\ left' = left \ {m} /\ UNCHANGED <<fromUsb, hostLost, accepted>>
        /\ (registered' <=> registered \/ (m = "usb" /\ ~fromUsb))
    BY <2>1 DEF Dispatch
  <2>3. at' \in {"bridge", "usbInit", "dispatch"}
    BY <2>1 DEF Dispatch
  <2> QED BY <1>00, <2>2, <2>3 DEF Ending, LoopSteps
<1>5. CASE ConnectUsbHosts \/ ConnectAllConsoles
  <2>1. /\ UNCHANGED <<left, fromUsb, registered, hostLost, accepted, hc>>
        /\ left = {}
    BY <1>0, <1>5 DEF ConnectUsbHosts, ConnectAllConsoles, ConnectThen, boot, tree, Flowing
  <2>2. ~fromUsb => registered
    BY <2>1 DEF Ending
  <2>3. ~fromUsb => hc' \/ at' = "usbInit"
    BY <1>5, <2>1, <2>2 DEF ConnectUsbHosts, ConnectAllConsoles, ConnectThen, Goto
  <2>4. at' \in {"loopEnd", "menu"} \/ ret' = "menu" => at = "loopEnd"
    BY <1>5 DEF ConnectUsbHosts, ConnectAllConsoles, ConnectThen, Goto
  <2> QED BY <1>00, <2>1, <2>2, <2>3, <2>4 DEF Ending, LoopSteps
<1>6. CASE HostStarts \/ HostMissing
  <2>1. /\ UNCHANGED <<ret, left, fromUsb, registered, accepted>> /\ at' = ret
        /\ ~hostLost' => ~hostLost /\ (ret = "stall" => hc')
    BY <1>0, <1>6 DEF HostStarts, HostMissing, Goto
  <2>2. ret \in Returns
    BY <1>6 DEF HostStarts, HostMissing, Flowing, AfterSteps
  <2> QED BY <1>00, <2>1, <2>2 DEF Ending, LoopSteps, Returns
<1>7. CASE StallEnds \/ Vim3CountUsbDevices \/ CountRootPorts \/ CountHubPorts
  <2>1. UNCHANGED <<ret, left, fromUsb, registered, hostLost, accepted, hc>>
    BY <1>7 DEF StallEnds, Vim3CountUsbDevices, CountRootPorts, CountHubPorts, boot, tree
  <2>2. at \in LoopSteps /\ at' \in LoopSteps
    BY <1>7 DEF StallEnds, Vim3CountUsbDevices, CountRootPorts, CountHubPorts, Goto, LoopSteps
  <2> QED BY <1>00, <2>1, <2>2 DEF Ending, LoopSteps
<1>8. CASE Break
  <2>1. accepted' /\ at' = "loopEnd" /\ UNCHANGED <<left, fromUsb, registered>>
    BY <1>8 DEF Break, Goto
  <2> QED BY <1>00, <2>1 DEF Ending, LoopSteps
<1>9. CASE Growing
  <2>1. UNCHANGED <<ret, left, fromUsb, registered, hostLost, accepted, hc>>
    BY <1>9 DEF Growing, boot, tree
  <2>2. at \in LoopSteps /\ at' = "stall"
    BY <1>9 DEF Growing, Goto, LoopSteps
  <2> QED BY <1>00, <2>1, <2>2 DEF Ending, LoopSteps
<1>10. CASE ReInit
  <2>1. UNCHANGED <<left, fromUsb, registered, hostLost, accepted>>
        /\ at' = "usbInit" /\ ret' = "stall"
    BY <1>10 DEF ReInit, boot, Goto
  <2> QED BY <1>00, <2>1 DEF Ending, LoopSteps
<1>11. CASE NothingToReInit
  <2>1. /\ UNCHANGED <<ret, left, fromUsb, registered, hostLost, accepted, hc>>
        /\ at \in LoopSteps /\ ~hc /\ at' = "stall"
    BY <1>11 DEF NothingToReInit, boot, tree, Stuck, LoopSteps, Goto
  <2> QED BY <1>00, <2>1 DEF Ending, LoopSteps
<1>12. CASE AttemptsEnd
  <2>1. /\ UNCHANGED <<ret, left, fromUsb, registered, hostLost, accepted, hc>>
        /\ at' = "loopEnd"
    BY <1>12 DEF AttemptsEnd, boot, tree, Goto
  <2> QED BY <1>00, <1>12, <2>1 DEF Ending, LoopSteps
<1> QED BY <1>1, <1>2, <1>3, <1>4, <1>5, <1>6, <1>7, <1>8, <1>9, <1>10, <1>11, <1>12 DEF Next, Flow

LEMMA OwedIs == Owed \in 0 .. 3 /\ Owed' \in 0 .. 3
BY DEF Owed

\* Sums of a count and of what is owed.
LEMMA PassIsPaid ==
    ASSUME NEW a \in Nat, NEW o, NEW p,
           \/ o \in {1, 2, 3} /\ p = 0
           \/ o \in {2, 3} /\ p \in {0, 1}
           \/ o = 3 /\ p \in {0, 1, 2}
    PROVE  (a + 1) + p <= a + o
OBVIOUS
LEMMA FaultPays ==
    ASSUME NEW a \in Nat, NEW o \in 0 .. 3, NEW p \in 0 .. 3, NEW f \in Nat, a + o <= 3 * f
    PROVE  a + p <= 3 * (f + 1)
OBVIOUS
LEMMA OwesLess ==
    ASSUME NEW a \in Nat, NEW b \in Nat, NEW o \in 0 .. 3, NEW p \in 0 .. 3, NEW f \in Nat,
           a + o <= 3 * f, b + p <= a + o
    PROVE  b + p <= 3 * f
OBVIOUS
LEMMA SameSum ==
    ASSUME NEW a \in Nat, NEW o \in 0 .. 3, NEW p \in 0 .. 3, p <= o
    PROVE  a + p <= a + o
OBVIOUS

LEMMA AbsorbingInit == Init => Absorbing
<1> SUFFICES ASSUME Init PROVE Absorbing
  OBVIOUS
<1>1. at = "dispatch" /\ ~hc /\ attempt = 0 /\ faults = 0
  BY DEF Init, LaneInit
<1>2. Sound
  BY <1>1 DEF Sound, SoundTree, SoundCount, CoreSteps, AfterSteps, CountSteps, LoopSteps
<1> QED BY <1>1, <1>2 DEF Absorbing, Owed

\* A tree that may still grow was seen to grow: there is at most one pass more
\* than the tree needs to come to rest.
LEMMA GrowingOwes ==
    ASSUME TypeInv, Counting, Growing, ~Sound
    PROVE  attempt' + Owed' <= attempt + Owed
<1>1. /\ at = "decide" /\ devices > prev /\ at' = "stall" /\ prev' = devices
      /\ attempt' = attempt + 1 /\ attempt \in Nat
      /\ UNCHANGED <<hc, seen, up, change, tuned, pll>>
  BY DEF Growing, Progress, Goto, lane, tree, TypeInv, LoopTypes, CountTypes
<1>2. devices = Cardinality(counted) /\ counted \subseteq up
  BY <1>1 DEF Counting
<1>3. up \subseteq Devs /\ prev \in Nat /\ devices \in Nat
  BY DEF TypeInv, LoopTypes, TreeTypes, CountTypes
<1>4. devices <= Cardinality(up) /\ Cardinality(up) \in Nat
  BY <1>2, <1>3, Counts, FS_Subset
<1>5. ~Seen
  BY <1>1, <1>3, <1>4 DEF Seen
<1>6. Calm'
  BY <1>1 DEF Calm, CountSteps
<1>7. CASE Calm
  <2>1. Settled /\ devices >= Cardinality(up)
    BY <1>1, <1>7 DEF Calm, CountSteps, LoopSteps
  <2>2. Settled'
    BY <1>1, <2>1, SettledKept
  <2>3. Seen'
    BY <1>1, <2>1, <2>2 DEF Seen, LoopSteps
  <2>4. Owed = 2
    BY <1>5, <1>7 DEF Owed
  <2>5. Owed' \in {0, 1}
    BY <2>3 DEF Owed
  <2> QED BY <1>1, <2>4, <2>5, PassIsPaid, Zenon
<1>8. CASE ~Calm
  <2>1. Owed = 3
    BY <1>5, <1>8 DEF Owed
  <2>2. Owed' \in {0, 1, 2}
    BY <1>6 DEF Owed
  <2> QED BY <1>1, <2>1, <2>2, PassIsPaid, Zenon
<1> QED BY <1>7, <1>8

LEMMA ReInitOwes ==
    ASSUME TypeInv, ReInit, ~Sound
    PROVE  attempt' + Owed' <= attempt + Owed
<1>1. at' = "usbInit" /\ ~hc' /\ attempt' = attempt + 1 /\ attempt \in Nat
  BY DEF ReInit, NextAttempt, Goto, TypeInv, LoopTypes, CountTypes
<1>2. Sound'
  BY <1>1 DEF Sound, SoundTree, SoundCount, CoreSteps, AfterSteps, CountSteps, LoopSteps
<1>3. Owed' = 0
  BY <1>2 DEF Owed
<1>4. Owed >= 1 /\ Owed \in 0 .. 3
  BY OwedIs DEF Owed
<1> QED BY <1>1, <1>3, <1>4

LEMMA AbsorbingNext ==
    ASSUME Roots \ SuperDevs # {}, TypeInv, Flowing, Grown, Counting, Accepting,
           Within, Ending, Absorbing, [Next]_vars
    PROVE  Absorbing' /\ (~fromUsb /\ ~hostLost /\ ~accepted /\ FewFaults => ~AttemptsEnd)
<1>0. /\ faults \in Nat /\ faults <= MaxFaults /\ attempt \in Nat /\ MaxFaults \in Nat
      /\ MaxAttempts \in Nat
      /\ fromUsb \in BOOLEAN /\ hostLost \in BOOLEAN /\ accepted \in BOOLEAN
  BY LaneAssumption, TreeAssumption DEF TypeInv, LaneTypes, LoopTypes, CountTypes, BootTypes
<1>1. Owed \in 0 .. 3 /\ Owed' \in 0 .. 3
  BY OwedIs
<1>2. ~fromUsb /\ ~hostLost /\ ~accepted /\ FewFaults => ~AttemptsEnd
  <2> SUFFICES ASSUME ~fromUsb, ~hostLost, ~accepted, FewFaults, attempt = MaxAttempts PROVE FALSE
    BY DEF AttemptsEnd
  <2>1. attempt + Owed <= 3 * faults /\ 3 * faults < MaxAttempts
    BY DEF Absorbing, FewFaults
  <2> QED BY <1>0, <1>1, <2>1
<1>3. ~fromUsb' => ~fromUsb
  <2>1. CASE BringUp
    BY <2>1, BringUpMoves DEF boot
  <2>2. CASE Flow
    BY <2>2, FlowMoves
  <2>3. CASE PhyMoves \/ BusMoves \/ BdsGoesOn \/ UNCHANGED vars
    BY <2>3 DEF PhyMoves, BusMoves, Appear, Enumerate, BdsGoesOn, vars, boot
  <2> QED BY <2>1, <2>2, <2>3 DEF Next
<1>4. (~hostLost' => ~hostLost) /\ (~accepted' => ~accepted)
  <2>1. CASE BringUp \/ PhyMoves \/ BusMoves \/ BdsGoesOn \/ UNCHANGED vars
    BY <1>0, <2>1 DEF BringUp, PhyMoves, BusMoves, Appear, Enumerate, BdsGoesOn, vars, boot
  <2>2. CASE Flow
    BY <1>0, <2>2 DEF Flow, Dispatch, ConnectUsbHosts, ConnectAllConsoles, ConnectThen, HostStarts,
       HostMissing, StallEnds, Vim3CountUsbDevices, CountRootPorts, CountHubPorts, Break, Growing,
       ReInit, NothingToReInit, AttemptsEnd, boot
  <2> QED BY <2>1, <2>2 DEF Next
<1>5. Absorbing'
  <2> SUFFICES ASSUME ~fromUsb', ~hostLost', ~accepted', FewFaults'
               PROVE  attempt' + Owed' <= 3 * faults'
    BY DEF Absorbing
  <2>0. FewFaults /\ faults < MaxFaults
    BY FaultsOnlyGrow DEF FewFaults
  <2>1. ~fromUsb /\ ~hostLost /\ ~accepted /\ ~AttemptsEnd
    BY <1>2, <1>3, <1>4, <2>0
  <2>2. attempt + Owed <= 3 * faults /\ (at \in LoopSteps => hc)
    BY <2>0, <2>1 DEF Absorbing, Ending
  <2>3. CASE Fault /\ UNCHANGED attempt
    <3>1. faults' = faults + 1 /\ attempt' = attempt
      BY <2>0, <2>3 DEF Fault
    <3> QED BY <1>0, <1>1, <2>2, <3>1, FaultPays, Zenon
  <2>4. CASE UNCHANGED <<faults, attempt>>
    <3>1. Sound => Sound'
      BY <2>0, <2>1, <2>2, <2>4, SoundNext
    <3>2. Seen => Seen'
      BY <2>0, <2>1, <2>4, SeenNext
    <3>3. Calm => Calm'
      BY <2>0, <2>1, <2>4, CalmNext
    <3>4. Owed' <= Owed
      BY <3>1, <3>2, <3>3 DEF Owed
    <3>5. attempt' + Owed' <= attempt + Owed /\ attempt' \in Nat
      BY <1>0, <1>1, <2>4, <3>4, SameSum, Zenon
    <3> QED BY <1>0, <1>1, <2>2, <2>4, <3>5, OwesLess, Zenon
  <2>5. CASE UNCHANGED faults /\ attempt' # attempt
    <3>1. Growing \/ ReInit \/ NothingToReInit
      <4>1. CASE BringUp \/ PhyMoves \/ BusMoves \/ BdsGoesOn \/ UNCHANGED vars
        BY <2>5, <4>1 DEF BringUp, PhyMoves, BusMoves, Appear, Enumerate, BdsGoesOn, vars, loop
      <4>2. CASE Flow
        BY <2>5, <4>2 DEF Flow, Dispatch, ConnectUsbHosts, ConnectAllConsoles, ConnectThen, HostStarts,
           HostMissing, StallEnds, Vim3CountUsbDevices, CountRootPorts, CountHubPorts, Break,
           AttemptsEnd, loop
      <4> QED BY <4>1, <4>2 DEF Next
    <3>2. at = "decide" /\ ~Complete /\ hc
      BY <2>2, <3>1 DEF Growing, ReInit, NothingToReInit, Stuck, LoopSteps
    <3>3. ~Sound /\ ~NothingToReInit
      BY <3>2, SoundComplete DEF NothingToReInit
    <3>4. attempt' + Owed' <= attempt + Owed
      BY <3>1, <3>3, GrowingOwes, ReInitOwes
    <3>5. attempt' \in Nat
      BY <1>0, <3>1 DEF Growing, ReInit, NothingToReInit, NextAttempt
    <3> QED BY <1>0, <1>1, <2>2, <2>5, <3>4, <3>5, OwesLess, Zenon
  <2> QED BY <2>3, <2>4, <2>5, StepFaults
<1> QED BY <1>2, <1>5

(* Every fault - a slow device, a failed enumeration, a hub that does not
   answer, a PHY that does not - costs the loop three passes at most: one that
   counts a tree that is still growing, one that sees that it has grown no
   further, and the re-initialisation.  So a boot in which the attempts outnumber
   three for each fault - the number of faults told apart is any - leaves the
   loop of PlatformBootManagerAfterConsole with a tree it accepts, on a board
   with a device that needs no SuperSpeed, unless a start of the controller
   failed. *)
THEOREM FaultsAbsorbed == Roots \ SuperDevs # {} => (Spec => []FaultsAreAbsorbed)
<1> SUFFICES ASSUME Roots \ SuperDevs # {} PROVE Spec => []FaultsAreAbsorbed
  OBVIOUS
<1> DEFINE Rising == Within /\ Ending /\ Absorbing
<1>1. Init => Rising
  BY WithinInit, EndingInit, AbsorbingInit
<1>2. TreeInv /\ Rising /\ [Next]_vars => Rising'
  <2> SUFFICES ASSUME TypeInv, Flowing, Grown, Counting, Accepting, Within, Ending, Absorbing, [Next]_vars
               PROVE  Within' /\ Ending' /\ Absorbing'
    BY DEF TreeInv
  <2>1. Within'
    BY WithinNext
  <2>2. Absorbing' /\ (~fromUsb /\ ~hostLost /\ ~accepted /\ FewFaults => ~AttemptsEnd)
    BY AbsorbingNext
  <2>3. Ending'
    BY <2>2, EndingNext
  <2> QED BY <2>1, <2>2, <2>3
<1>3. TreeInv /\ Rising => FaultsAreAbsorbed
  <2> SUFFICES ASSUME TreeInv, Rising, at = "menu", registered, ~hostLost,
                      faults < MaxFaults, 3 * faults < MaxAttempts
               PROVE  accepted
    BY DEF FaultsAreAbsorbed
  <2>1. ~fromUsb
    BY DEF TreeInv, Flowing
  <2> QED BY <2>1 DEF Ending, FewFaults
<1> HIDE DEF Rising
<1> QED BY <1>1, <1>2, <1>3, TreeInvHolds, PTL DEF Spec

-----------------------------------------------------------------------------
(* Second part: McuClock.                                                  *)


-----------------------------------------------------------------------------
(* The token lists a call runs, by how many are left.                      *)

Kinds == {"probe", "write", "mux", "mirror", "verify", "anchor", "settime"}
Runs(kind) ==
    IF kind = "probe" THEN 4 ELSE IF kind = "write" THEN 1
    ELSE IF kind = "verify" THEN 3 ELSE IF kind = "settime" THEN 5 ELSE 2

ReadAt(k) == IF k = 4 THEN Point("mcu", "device")
             ELSE IF k = 2 THEN Point("mcu", "mux") ELSE Fetch("mcu")
Halt    == Put("rtc", "ctl", TRUE)
Release == Put("rtc", "ctl", FALSE)
SetTimeAt(t, k) == IF k = 5 THEN Point("rtc", "ctl") ELSE IF k = 4 THEN Fetch("rtc")
                   ELSE IF k = 3 THEN Halt
                   ELSE IF k = 2 THEN Put("rtc", "time", t) ELSE Release
AnchorAt(k) == IF k = 2 THEN Point("rtc", "time") ELSE Fetch("rtc")

JobAt(c, k) ==
    IF c.kind = "settime" THEN SetTimeAt(c.val, k)
    ELSE IF c.kind = "anchor" THEN AnchorAt(k)
    ELSE IF c.kind = "write" \/ (c.kind = "verify" /\ k = 3)
           THEN Put("mcu", c.reg, c.val)
    ELSE ReadAt(k)

McuVals == {0, 1} \cup Values
Times    == {0, 1} \X {0, 1}
Vals     == McuVals \cup Times \cup BOOLEAN
Slaves   == {"mcu", "rtc"}
Doings   == {"point", "fetch", "put"}
Places   == Registers \cup {"time", "ctl", ""}
Jobs     == [slave : Slaves, do : Doings, reg : Places, val : Vals]
CallSet  == [kind : Kinds \cup {"none"}, who : Consumers \cup {"rtc", "none"},
             reg : Places, val : McuVals \cup Times]

\* What is left to run is the end of the call's plan.
Planned ==
    /\ pc = "idle" <=> call.kind = "none"
    /\ pc = "idle" => ~failed
    /\ pc # "idle" =>
         /\ call.kind \in Kinds
         /\ Len(todo) \in 1 .. Runs(call.kind)
         /\ \A i \in 1 .. Len(todo) : todo[i] = JobAt(call, Len(todo) + 1 - i)

CallTypes ==
    /\ call \in CallSet
    /\ call.kind = "settime" => call.val \in Times
    /\ call.kind \in {"write", "verify"} =>
         call.reg \in McuRegisterWritable /\ call.val \in McuVals /\ call.who \in Consumers
    /\ call.kind = "write" => call.reg # "mux"
    /\ call.kind = "probe" => call.who \in Consumers
    /\ call.kind = "mux" => call.who \in {"mcudxe", "mux"}

McuTypeInv ==
    /\ mcu \in [Registers -> McuVals]
    /\ chip \in [hi : {0, 1}, lo : {0, 1}, stop : BOOLEAN, vl : BOOLEAN]
    /\ point \in [Slaves -> Places]
    /\ start \in BOOLEAN /\ armed \in BOOLEAN /\ active \in BOOLEAN /\ half \in BOOLEAN
    /\ pc \in {"idle", "clear", "load", "launch", "settle", "poll", "ok", "bad"}
    /\ todo \in Seq(Jobs)
    /\ failed \in BOOLEAN
    /\ probed \in [Consumers -> BOOLEAN] /\ trusted \in [Consumers -> BOOLEAN]
    /\ modes \in [{"mcudxe", "mux"} -> {"unread", "usb3", "pcie"}]
    /\ step \in {"probe", "fan", "mux", "mirror", "done"}
    /\ dtb \in [usb3 : BOOLEAN, pcie : BOOLEAN]
    /\ ticked \in BOOLEAN /\ ticks \in Nat /\ lost \in Nat
    /\ CallTypes

\* The controller and the run: the token list it holds, whether it has seen the
\* edge, and what it reports once it is idle.
Over == pc \in {"ok", "bad"} \/ (pc \in {"settle", "poll"} /\ ~armed /\ ~active)
Went   == ran = [job |-> Job, ok |-> TRUE]
Missed == ran = [job |-> Job, ok |-> FALSE]

Wire ==
    /\ pc \in {"launch", "settle", "poll", "ok", "bad"} => regs = Job
    /\ armed => pc = "settle" /\ ~active
    /\ active => pc \in {"settle", "poll"}
    /\ half => active
    /\ pc \in {"load", "launch"} => ~start
    /\ Over => Went \/ Missed
    /\ pc = "ok" => Went
    /\ pc = "bad" => Missed

\* Every failure is counted, and the run that releases STOP is another one.
Counted ==
    /\ failed => lost >= 1 /\ call.kind = "settime" /\ Len(todo) = 1
    /\ Over /\ Missed => lost >= (IF failed THEN 2 ELSE 1)

\* A read gets the register it points at.
Reads == {"probe", "mux", "mirror", "verify"}
Pointed ==
    call.kind \in Reads =>
        /\ Len(todo) = 3 /\ call.kind = "probe" => point["mcu"] = "device"
        /\ Len(todo) = 1 => point["mcu"] = "mux"
        /\ Len(todo) \in {2, 4} /\ Over /\ Went =>
             point["mcu"] = IF Len(todo) = 4 THEN "device" ELSE "mux"
Fetched ==
    call.kind \in Reads /\ Job = Fetch("mcu") /\ Over /\ Went =>
        data = mcu[point["mcu"]]

\* Trust is earned from the identity register, which nobody writes.
Earned ==
    /\ \A c \in Consumers : trusted[c] => mcu["device"] = 1
    /\ call.kind = "probe" /\ Len(todo) <= 2 => mcu["device"] = 1
    /\ call.kind \in {"write", "verify"} => trusted[call.who]

BusInv == McuTypeInv /\ Planned /\ Wire /\ Counted /\ Pointed /\ Fetched /\ Earned

\* Who reads the mux when.
InTurn ==
    /\ step \in {"mux", "mirror"} => trusted["mcudxe"]
    /\ call.kind = "verify" => LaneResolved
    /\ call.kind = "mux" /\ call.who = "mcudxe" => step = "mirror"
    /\ call.kind = "mux" /\ call.who = "mux" => modes["mux"] = "unread" /\ trusted["mux"]

\* Vim3McuDxe's reading of the lane: once, in its entry point.
InOrder ==
    /\ step \in {"probe", "fan", "mux"} => modes["mcudxe"] = "unread"
    /\ step = "fan" => probed["mcudxe"]
    /\ call.kind = "mux" /\ call.who = "mcudxe" => modes["mcudxe"] = "unread"
    /\ step = "mirror" => modes["mcudxe"] # "unread" \/ (call.kind = "mux" /\ call.who = "mcudxe")
    /\ step = "done" => modes["mcudxe"] # "unread"

PcieBoard == mcu["mux"] = 1 /\ mcu["device"] = 1

\* While no transaction has failed, every reader sees the board as it is.
Agreed ==
    lost = 0 =>
        /\ FirmwareAndOsAgree
        /\ modes["mux"] # "unread" /\ modes["mcudxe"] = "unread" =>
             (modes["mux"] = "pcie" <=> PcieBoard)
        /\ modes["mcudxe"] # "unread" /\ modes["mux"] = "unread" =>
             (modes["mcudxe"] = "pcie" <=> PcieBoard)
        /\ \A c \in Consumers :
             probed[c] /\ ~trusted[c] /\ ~(call.kind = "probe" /\ call.who = c) =>
                 mcu["device"] # 1

\* The tree takes the lane from USB in order, and for PCIe alone.
Patched ==
    /\ dtb.pcie => ~dtb.usb3
    /\ ~dtb.usb3 => modes["mcudxe"] = "pcie"

LaneInv == InTurn /\ InOrder /\ Agreed /\ Patched

\* The chip in LibSetTime: halted before the time is put into it, a byte at a
\* time, and released after.
Halting ==
    call.kind = "settime" =>
        /\ Len(todo) = 2 => chip.stop
        /\ Len(todo) = 3 /\ Over /\ Went => chip.stop
        /\ Len(todo) = 2 /\ half => chip.lo = call.val[2]
        /\ Len(todo) = 2 /\ Over /\ Went => Time(chip) = call.val
Releasing ==
    call.kind = "settime" /\ Len(todo) = 1 =>
        /\ Over /\ Went => ~chip.stop
        /\ ~failed => \/ Time(chip) = call.val
                      \/ ~chip.stop /\ ticked /\ Time(chip) = Later(call.val, 1)

ClockInv == Halting /\ Releasing

\* A call that is over has nothing left to run.
Rested == pc = "idle" => todo = <<>>

McuInv == Rested /\ BusInv /\ LaneInv /\ ClockInv


-----------------------------------------------------------------------------
(* The plans. *)

Forms(c, k, j) ==
    /\ j.do = "put" /\ j.slave = "mcu" =>
         /\ c.kind \in {"write", "verify"} /\ (c.kind = "verify" => k = 3)
         /\ j.reg = c.reg /\ j.val = c.val
    /\ j.do = "put" /\ j.slave = "rtc" =>
         /\ c.kind = "settime" /\ k \in {1, 2, 3}
         /\ k = 2 => j.reg = "time" /\ j.val = c.val
         /\ k = 1 => j.reg = "ctl" /\ j = Release
         /\ k = 3 => j.reg = "ctl" /\ j = Halt
    /\ c.kind = "settime" =>
         /\ k \in {1, 2, 3} => j.do = "put" /\ j.slave = "rtc"
         /\ j.reg = "time" <=> k = 2
    /\ c.kind \in Reads =>
         /\ j.slave = "mcu"
         /\ k = 1 => j = Fetch("mcu")
         /\ k = 3 /\ c.kind = "probe" => j = Fetch("mcu")
         /\ k = 2 => j.do = "point" /\ j.reg = "mux"
         /\ k = 4 => j.do = "point" /\ j.reg = "device"
         /\ j.do = "fetch" => k \in {1, 3} /\ (k = 3 => c.kind = "probe")
    /\ c.kind \in {"write", "verify"} /\ k = Runs(c.kind) => j.do = "put"

LEMMA SomeVals == 0 \in Vals /\ 0 \in McuVals /\ 1 \in McuVals /\ TRUE \in Vals /\ FALSE \in Vals
  BY Zenon DEF Vals, McuVals

LEMMA PointIs ==
    ASSUME NEW s \in Slaves, NEW r \in Places
    PROVE  /\ Point(s, r) \in Jobs /\ Point(s, r).slave = s
           /\ Point(s, r).do = "point" /\ Point(s, r).reg = r
  BY SomeVals DEF Point, Jobs, Doings

LEMMA FetchIs ==
    ASSUME NEW s \in Slaves
    PROVE  /\ Fetch(s) \in Jobs /\ Fetch(s).slave = s /\ Fetch(s).do = "fetch"
           /\ Fetch(s).reg # "time"
<1>1. "" # "time"
  BY Zenon
<1> QED
  BY <1>1, SomeVals DEF Fetch, Jobs, Doings, Places

LEMMA PutIs ==
    ASSUME NEW s \in Slaves, NEW r \in Places, NEW v \in Vals
    PROVE  /\ Put(s, r, v) \in Jobs /\ Put(s, r, v).slave = s
           /\ Put(s, r, v).do = "put" /\ Put(s, r, v).reg = r /\ Put(s, r, v).val = v
  BY DEF Put, Jobs, Doings

LEMMA StopIs ==
    \A j \in {Halt, Release} :
        j \in Jobs /\ j.slave = "rtc" /\ j.do = "put" /\ j.reg = "ctl"
<1> "rtc" \in Slaves /\ "put" \in Doings /\ "ctl" \in Places
  BY DEF Slaves, Doings, Places
<1> DEFINE job(v) == [slave |-> "rtc", do |-> "put", reg |-> "ctl", val |-> v]
<1>1. \A v \in Vals : /\ job(v) \in Jobs /\ job(v).slave = "rtc" /\ job(v).do = "put"
                      /\ job(v).reg = "ctl"
  BY DEF Jobs
<1>2. Halt = job(TRUE) /\ Release = job(FALSE)
  BY DEF Halt, Release, Put
<1> HIDE DEF job
<1> QED
  BY <1>1, <1>2, SomeVals, Zenon

LEMMA JobForms ==
    ASSUME NEW c \in CallSet, c.kind \in Kinds, NEW k \in 1 .. Runs(c.kind)
    PROVE  JobAt(c, k) \in Jobs /\ Forms(c, k, JobAt(c, k))
<1> DEFINE j == JobAt(c, k)
<1>0. c.val \in Vals /\ c.reg \in Places
  BY DEF CallSet, Vals
<1> "mcu" \in Slaves /\ "rtc" \in Slaves
  BY DEF Slaves
<1> "ctl" \in Places /\ "time" \in Places /\ "device" \in Places /\ "mux" \in Places
  BY DEF Places, Registers
<1>1. CASE c.kind = "settime"
  <2>0. k \in 1 .. 5
    BY <1>1 DEF Runs
  <2>1. CASE k = 5
    <3> j = Point("rtc", "ctl")
      BY <1>1, <2>1 DEF JobAt, SetTimeAt
    <3> QED
      BY <1>1, <2>1, PointIs DEF Forms, Reads, Runs
  <2>2. CASE k = 4
    <3> j = Fetch("rtc")
      BY <1>1, <2>2 DEF JobAt, SetTimeAt
    <3> j \in Jobs /\ j.slave = "rtc" /\ j.do = "fetch" /\ j.reg # "time"
      BY FetchIs
    <3> HIDE DEF j
    <3> Forms(c, k, j)
      BY <1>1, <2>2 DEF Forms, Reads, Runs
    <3> QED
      BY DEF j
  <2>3. CASE k = 3
    <3> j = Halt
      BY <1>1, <2>3 DEF JobAt, SetTimeAt
    <3> j \in Jobs /\ j.slave = "rtc" /\ j.do = "put" /\ j.reg = "ctl"
      BY StopIs
    <3> HIDE DEF j
    <3> Forms(c, k, j)
      BY <1>1, <2>3 DEF Forms, Reads, Runs
    <3> QED
      BY DEF j
  <2>4. CASE k = 2
    <3> j = Put("rtc", "time", c.val)
      BY <1>1, <2>4 DEF JobAt, SetTimeAt
    <3> QED
      BY <1>0, <1>1, <2>4, SomeVals, PutIs DEF Forms, Reads, Runs
  <2>5. CASE k = 1
    <3> j = Release
      BY <1>1, <2>5 DEF JobAt, SetTimeAt
    <3> j \in Jobs /\ j.slave = "rtc" /\ j.do = "put" /\ j.reg = "ctl"
      BY StopIs
    <3> HIDE DEF j
    <3> Forms(c, k, j)
      BY <1>1, <2>5 DEF Forms, Reads, Runs
    <3> QED
      BY DEF j
  <2> QED
    BY <2>0, <2>1, <2>2, <2>3, <2>4, <2>5
<1>2. CASE c.kind = "anchor"
  <2> k \in 1 .. 2
    BY <1>2 DEF Runs
  <2> j = IF k = 2 THEN Point("rtc", "time") ELSE Fetch("rtc")
    BY <1>2 DEF JobAt, AnchorAt
  <2> Point("rtc", "time") \in Jobs /\ Point("rtc", "time").do # "put"
    BY PointIs
  <2> Fetch("rtc") \in Jobs /\ Fetch("rtc").do # "put"
    BY FetchIs
  <2> j \in Jobs /\ j.do # "put"
    OBVIOUS
  <2> HIDE DEF j
  <2> Forms(c, k, j)
    BY <1>2 DEF Forms, Reads, Runs
  <2> QED
    BY DEF j
<1>3. CASE c.kind = "write"
  <2> k = 1 /\ j = Put("mcu", c.reg, c.val)
    BY <1>3 DEF JobAt, Runs
  <2> QED
    BY <1>0, <1>3, SomeVals, PutIs DEF Forms, Reads, Runs
<1>4. CASE c.kind = "verify" /\ k = 3
  <2> j = Put("mcu", c.reg, c.val)
    BY <1>4 DEF JobAt
  <2> QED
    BY <1>0, <1>4, SomeVals, PutIs DEF Forms, Reads, Runs
<1>5. CASE c.kind \in {"probe", "mux", "mirror"} \/ (c.kind = "verify" /\ k # 3)
  <2>0. k \in 1 .. 4 /\ (k >= 3 => c.kind = "probe")
    BY <1>5 DEF Runs
  <2>1. j = ReadAt(k)
    BY <1>5 DEF JobAt
  <2>2. CASE k = 4
    BY <1>5, <2>0, <2>1, <2>2, PointIs DEF ReadAt, Forms, Reads, Runs
  <2>3. CASE k = 2
    BY <1>5, <2>0, <2>1, <2>3, PointIs DEF ReadAt, Forms, Reads, Runs
  <2>4. CASE k \in {1, 3}
    <3> j = Fetch("mcu")
      BY <2>1, <2>4 DEF ReadAt
    <3> j \in Jobs /\ j.slave = "mcu" /\ j.do = "fetch"
      BY FetchIs
    <3> HIDE DEF j
    <3> Forms(c, k, j)
      BY <1>5, <2>0, <2>4 DEF Forms, Reads, Runs
    <3> QED
      BY DEF j
  <2> QED
    BY <2>0, <2>2, <2>3, <2>4
<1> QED
  BY <1>1, <1>2, <1>3, <1>4, <1>5 DEF Kinds

LEMMA Shift ==
    ASSUME NEW k \in Nat, NEW m, m = k - 1, NEW i \in 1 .. m
    PROVE  i + 1 \in 1 .. k /\ k + 1 - (i + 1) = m + 1 - i
  OBVIOUS

LEMMA AtHead ==
    ASSUME McuTypeInv, Planned, pc # "idle"
    PROVE  /\ Len(todo) \in 1 .. Runs(call.kind) /\ Job = JobAt(call, Len(todo))
           /\ call \in CallSet /\ call.kind \in Kinds
<1>1. todo \in Seq(Jobs) /\ Len(todo) \in 1 .. Runs(call.kind)
  BY DEF McuTypeInv, Planned
<1>2. Len(todo) \in Nat /\ Len(todo) >= 1
  BY <1>1, LenProperties DEF Runs
<1>3. todo[1] = JobAt(call, Len(todo) + 1 - 1)
  BY <1>2 DEF Planned
<1> QED
  BY <1>1, <1>2, <1>3 DEF Job, Planned, McuTypeInv, CallTypes, CallSet

LEMMA AtTail ==
    ASSUME McuTypeInv, Planned, pc # "idle", Len(todo) > 1, todo' = Tail(todo),
           call' = call, pc' = "clear"
    PROVE  /\ Planned' /\ todo' \in Seq(Jobs) /\ Len(todo') = Len(todo) - 1
<1>1. todo \in Seq(Jobs) /\ Len(todo) \in 1 .. Runs(call.kind)
  BY DEF McuTypeInv, Planned
<1>2. Len(todo) \in Nat /\ Len(todo) >= 1 /\ Len(todo) <= Runs(call.kind) /\ Runs(call.kind) \in Nat
  BY <1>1, LenProperties DEF Runs
<1>3. todo' \in Seq(Jobs) /\ Len(todo') = Len(todo) - 1
      /\ \A i \in 1 .. Len(todo') : todo'[i] = todo[i + 1]
  BY <1>1, <1>2
<1>4. \A i \in 1 .. Len(todo') : todo'[i] = JobAt(call, Len(todo') + 1 - i)
  <2> SUFFICES ASSUME NEW i \in 1 .. Len(todo') PROVE todo'[i] = JobAt(call, Len(todo') + 1 - i)
    OBVIOUS
  <2>1. i + 1 \in 1 .. Len(todo) /\ Len(todo) + 1 - (i + 1) = Len(todo') + 1 - i
    BY <1>2, <1>3, Shift
  <2>2. todo[i + 1] = JobAt(call, Len(todo) + 1 - (i + 1))
    BY <2>1 DEF Planned
  <2> QED
    BY <1>3, <2>1, <2>2
<1>5. Len(todo') \in 1 .. Runs(call'.kind)
  BY <1>2, <1>3
<1> QED
  BY <1>3, <1>4, <1>5 DEF Planned


IsPlan(c, jobs) ==
    /\ jobs \in Seq(Jobs) /\ Len(jobs) = Runs(c.kind)
    /\ \A i \in 1 .. Len(jobs) : jobs[i] = JobAt(c, Len(jobs) + 1 - i)

LEMMA Reading ==
    ASSUME NEW s \in Slaves, NEW r \in Places
    PROVE  /\ Read(s, r) \in Seq(Jobs) /\ Len(Read(s, r)) = 2
           /\ Read(s, r)[1] = Point(s, r) /\ Read(s, r)[2] = Fetch(s)
<1>1. Point(s, r) \in Jobs /\ Fetch(s) \in Jobs
  BY PointIs, FetchIs
<1> HIDE DEF Jobs
<1> QED
  BY <1>1 DEF Read

LEMMA Joined ==
    ASSUME NEW a \in Seq(Jobs), NEW b \in Seq(Jobs), NEW ab, ab = a \o b
    PROVE  /\ ab \in Seq(Jobs) /\ Len(ab) = Len(a) + Len(b)
           /\ \A i \in 1 .. Len(a) + Len(b) :
                ab[i] = IF i <= Len(a) THEN a[i] ELSE b[i - Len(a)]
  BY ConcatProperties, Zenon

LEMMA PlanOfTwo ==
    ASSUME NEW c \in CallSet, c.kind \in {"mux", "mirror"}
    PROVE  IsPlan(c, Read("mcu", "mux"))
<1>1. "mcu" \in Slaves /\ "mux" \in Places
  BY DEF Slaves, Places, Registers
<1>2. Runs(c.kind) = 2 /\ JobAt(c, 2) = Point("mcu", "mux") /\ JobAt(c, 1) = Fetch("mcu")
  BY DEF Runs, JobAt, ReadAt
<1> DEFINE r == Read("mcu", "mux")
<1>3. r \in Seq(Jobs) /\ Len(r) = 2 /\ r[1] = Point("mcu", "mux") /\ r[2] = Fetch("mcu")
  BY <1>1, Reading
<1> HIDE DEF r
<1>4. \A i \in 1 .. 2 : r[i] = JobAt(c, 2 + 1 - i)
  BY <1>2, <1>3
<1> QED
  BY <1>2, <1>3, <1>4 DEF IsPlan, r

LEMMA PlanOfAnchor ==
    ASSUME NEW c \in CallSet, c.kind = "anchor"
    PROVE  IsPlan(c, Read("rtc", "time"))
<1>1. "rtc" \in Slaves /\ "time" \in Places
  BY DEF Slaves, Places, Registers
<1>2. Runs(c.kind) = 2 /\ JobAt(c, 2) = Point("rtc", "time") /\ JobAt(c, 1) = Fetch("rtc")
  BY DEF Runs, JobAt, AnchorAt
<1> DEFINE r == Read("rtc", "time")
<1>3. r \in Seq(Jobs) /\ Len(r) = 2 /\ r[1] = Point("rtc", "time") /\ r[2] = Fetch("rtc")
  BY <1>1, Reading
<1> HIDE DEF r
<1>4. \A i \in 1 .. 2 : r[i] = JobAt(c, 2 + 1 - i)
  BY <1>2, <1>3
<1> QED
  BY <1>2, <1>3, <1>4 DEF IsPlan, r

LEMMA PlanOfProbe ==
    ASSUME NEW c \in CallSet, c.kind = "probe"
    PROVE  IsPlan(c, Read("mcu", "device") \o Read("mcu", "mux"))
<1>1. "mcu" \in Slaves /\ "mux" \in Places /\ "device" \in Places
  BY DEF Slaves, Places, Registers
<1>2. Runs(c.kind) = 4 /\ JobAt(c, 4) = Point("mcu", "device") /\ JobAt(c, 3) = Fetch("mcu")
      /\ JobAt(c, 2) = Point("mcu", "mux") /\ JobAt(c, 1) = Fetch("mcu")
  BY DEF Runs, JobAt, ReadAt
<1> DEFINE r == Read("mcu", "device") \o Read("mcu", "mux")
<1>3. /\ r \in Seq(Jobs) /\ Len(r) = 4 /\ r[1] = Point("mcu", "device") /\ r[2] = Fetch("mcu")
      /\ r[3] = Point("mcu", "mux") /\ r[4] = Fetch("mcu")
  BY <1>1, Reading
<1> HIDE DEF r
<1>4. \A i \in 1 .. 4 : r[i] = JobAt(c, 4 + 1 - i)
  BY <1>2, <1>3
<1> QED
  BY <1>2, <1>3, <1>4 DEF IsPlan, r

LEMMA PlanOfWrite ==
    ASSUME NEW c \in CallSet, c.kind = "write"
    PROVE  IsPlan(c, <<Put("mcu", c.reg, c.val)>>)
<1>1. "mcu" \in Slaves /\ c.reg \in Places /\ c.val \in Vals
  BY DEF Slaves, CallSet, Vals
<1>2. Runs(c.kind) = 1 /\ JobAt(c, 1) = Put("mcu", c.reg, c.val)
  BY DEF Runs, JobAt
<1>3. Put("mcu", c.reg, c.val) \in Jobs
  BY <1>1, PutIs
<1> DEFINE r == <<Put("mcu", c.reg, c.val)>>
<1>4. r \in Seq(Jobs) /\ Len(r) = 1 /\ r[1] = Put("mcu", c.reg, c.val)
  BY <1>3
<1> HIDE DEF r
<1>5. \A i \in 1 .. 1 : r[i] = JobAt(c, 1 + 1 - i)
  BY <1>2, <1>4
<1> QED
  BY <1>2, <1>4, <1>5 DEF IsPlan, r

LEMMA PlanOfVerify ==
    ASSUME NEW c \in CallSet, c.kind = "verify"
    PROVE  IsPlan(c, <<Put("mcu", c.reg, c.val)>> \o Read("mcu", "mux"))
<1>1. "mcu" \in Slaves /\ "mux" \in Places /\ c.reg \in Places /\ c.val \in Vals
  BY DEF Slaves, CallSet, Vals, Places, Registers
<1>2. Runs(c.kind) = 3 /\ JobAt(c, 3) = Put("mcu", c.reg, c.val)
      /\ JobAt(c, 2) = Point("mcu", "mux") /\ JobAt(c, 1) = Fetch("mcu")
  BY DEF Runs, JobAt, ReadAt
<1>3. Put("mcu", c.reg, c.val) \in Jobs
  BY <1>1, PutIs
<1> DEFINE r == <<Put("mcu", c.reg, c.val)>> \o Read("mcu", "mux")
<1>4. /\ r \in Seq(Jobs) /\ Len(r) = 3 /\ r[1] = Put("mcu", c.reg, c.val)
      /\ r[2] = Point("mcu", "mux") /\ r[3] = Fetch("mcu")
  <2> DEFINE first == <<Put("mcu", c.reg, c.val)>>
             rest  == Read("mcu", "mux")
  <2>1. rest \in Seq(Jobs) /\ Len(rest) = 2 /\ rest[1] = Point("mcu", "mux")
        /\ rest[2] = Fetch("mcu")
    BY <1>1, Reading
  <2>2. first \in Seq(Jobs) /\ Len(first) = 1 /\ first[1] = Put("mcu", c.reg, c.val)
    BY <1>3
  <2> HIDE DEF first, rest
  <2> DEFINE all == first \o rest
  <2>a. all = first \o rest
    OBVIOUS
  <2> HIDE DEF all
  <2>3. /\ all \in Seq(Jobs) /\ Len(all) = 3
        /\ all[1] = first[1]
        /\ all[2] = rest[1] /\ all[3] = rest[2]
    <3>1. /\ all \in Seq(Jobs) /\ Len(all) = Len(first) + Len(rest)
          /\ \A i \in 1 .. Len(first) + Len(rest) :
               all[i] = IF i <= Len(first) THEN first[i] ELSE rest[i - Len(first)]
      BY <2>a, <2>1, <2>2, Joined, Zenon
    <3> QED
      BY <2>1, <2>2, <3>1
  <2> QED
    BY <2>a, <2>1, <2>2, <2>3 DEF first, rest
<1> HIDE DEF r
<1>5. \A i \in 1 .. 3 : r[i] = JobAt(c, 3 + 1 - i)
  BY <1>2, <1>4
<1> QED
  BY <1>2, <1>4, <1>5 DEF IsPlan, r

LEMMA PlanOfSetTime ==
    ASSUME NEW c \in CallSet, c.kind = "settime"
    PROVE  IsPlan(c, SetTimeJobs(c.val))
<1>1. "rtc" \in Slaves /\ "ctl" \in Places /\ "time" \in Places /\ c.val \in Vals
  BY DEF Slaves, CallSet, Vals, Places, Registers
<1>2. Runs(c.kind) = 5 /\ JobAt(c, 5) = Point("rtc", "ctl") /\ JobAt(c, 4) = Fetch("rtc")
      /\ JobAt(c, 3) = Halt /\ JobAt(c, 2) = Put("rtc", "time", c.val) /\ JobAt(c, 1) = Release
  BY DEF Runs, JobAt, SetTimeAt
<1>3. Put("rtc", "time", c.val) \in Jobs /\ Halt \in Jobs /\ Release \in Jobs
  BY <1>1, PutIs, StopIs
<1> DEFINE puts == <<Halt, Put("rtc", "time", c.val), Release>>
           r == Read("rtc", "ctl") \o puts
<1>4. SetTimeJobs(c.val) = r
  BY DEF SetTimeJobs, Halt, Release
<1>5. puts \in Seq(Jobs) /\ Len(puts) = 3 /\ puts[1] = Halt
      /\ puts[2] = Put("rtc", "time", c.val) /\ puts[3] = Release
  BY <1>3
<1> HIDE DEF puts
<1>6. /\ r \in Seq(Jobs) /\ Len(r) = 5 /\ r[1] = Point("rtc", "ctl") /\ r[2] = Fetch("rtc")
      /\ r[3] = Halt /\ r[4] = Put("rtc", "time", c.val) /\ r[5] = Release
  <2> DEFINE head == Read("rtc", "ctl")
  <2>1. head \in Seq(Jobs) /\ Len(head) = 2 /\ head[1] = Point("rtc", "ctl")
        /\ head[2] = Fetch("rtc")
    BY <1>1, Reading
  <2> HIDE DEF head
  <2> DEFINE all == head \o puts
  <2>a. all = head \o puts
    OBVIOUS
  <2> HIDE DEF all
  <2>2. /\ all \in Seq(Jobs) /\ Len(all) = 5
        /\ all[1] = head[1] /\ all[2] = head[2]
        /\ all[3] = puts[1] /\ all[4] = puts[2]
        /\ all[5] = puts[3]
    <3>1. /\ all \in Seq(Jobs) /\ Len(all) = Len(head) + Len(puts)
          /\ \A i \in 1 .. Len(head) + Len(puts) :
               all[i] = IF i <= Len(head) THEN head[i] ELSE puts[i - Len(head)]
      BY <1>5, <2>a, <2>1, Joined, Zenon
    <3> QED
      BY <1>5, <2>1, <3>1
  <2> QED
    BY <1>5, <2>a, <2>1, <2>2 DEF head
<1> HIDE DEF r
<1>7. \A i \in 1 .. 5 : r[i] = JobAt(c, 5 + 1 - i)
  BY <1>2, <1>6
<1>8. IsPlan(c, r)
  BY <1>2, <1>6, <1>7 DEF IsPlan
<1> QED
  BY <1>4, <1>8

\* A call has begun: its plan is all still to run.
Begun ==
    /\ pc = "idle" /\ pc' = "clear" /\ call' \in CallSet /\ call'.kind \in Kinds
    /\ IsPlan(call', todo') /\ CallTypes'
    /\ failed' = FALSE /\ ticked' = FALSE /\ UNCHANGED <<chips, wires, ticks, lost>>

LEMMA BegunPlanned ==
    ASSUME Begun
    PROVE  /\ Planned' /\ todo' \in Seq(Jobs) /\ Len(todo') = Runs(call'.kind)
           /\ Len(todo') \in 1 .. 5
  BY DEF Begun, IsPlan, Planned, Runs, Kinds

Calls == (\E c \in Consumers : Probe(c)) \/ ApplyFanPolicy \/ ReadLane \/ MirrorMcuSettings
           \/ (ResolveMux /\ trusted["mux"]) \/ SetBootMode \/ ChangeSetting
           \/ RtcInitialize \/ SetTime

LEMMA BeginIs ==
    ASSUME NEW kind \in Kinds, NEW who \in Consumers \cup {"rtc"}, NEW reg \in Places,
           NEW val \in McuVals \cup Times, NEW jobs, Begin(kind, who, reg, val, jobs)
    PROVE  /\ call' \in CallSet /\ call'.kind = kind /\ call'.who = who /\ call'.reg = reg
           /\ call'.val = val
  BY DEF Begin, CallSet

LEMMA CallsBegin ==
    ASSUME Calls
    PROVE  Begun
<1> USE ParameterAssumption
<1> /\ \A x \in Consumers \cup {"rtc"} : x \in Consumers \cup {"rtc"}
    /\ "mux" \in Places /\ "fan" \in Places /\ "bootmode" \in Places /\ "time" \in Places
    /\ "" \in Places
  BY Zenon DEF Places, Registers
<1> 0 \in McuVals \cup Times /\ 1 \in McuVals \cup Times
  BY SomeVals
<1>1. CASE \E c \in Consumers : Probe(c)
  <2> PICK c \in Consumers : Probe(c)
    BY <1>1
  <2>1. Begin("probe", c, "", 0, Read("mcu", "device") \o Read("mcu", "mux"))
    BY DEF Probe
  <2>2. call' \in CallSet /\ call'.kind = "probe" /\ call'.who = c
    BY <2>1, BeginIs DEF Kinds
  <2> QED
    BY <2>1, <2>2, PlanOfProbe DEF Begin, Begun, CallTypes, Kinds
<1>2. CASE ApplyFanPolicy
  <2>1. Begin("write", "mcudxe", "fan", 1, <<Put("mcu", "fan", 1)>>)
    BY <1>2 DEF ApplyFanPolicy
  <2>2. call' \in CallSet /\ call'.kind = "write" /\ call'.who = "mcudxe" /\ call'.reg = "fan"
        /\ call'.val = 1
    BY <2>1, BeginIs DEF Kinds, Consumers
  <2> QED
    BY <2>1, <2>2, PlanOfWrite, SomeVals DEF Begin, Begun, CallTypes, Kinds, Consumers, McuRegisterWritable
<1>3. CASE ReadLane
  <2>1. Begin("mux", "mcudxe", "mux", 0, Read("mcu", "mux"))
    BY <1>3 DEF ReadLane
  <2>2. call' \in CallSet /\ call'.kind = "mux" /\ call'.who = "mcudxe"
    BY <2>1, BeginIs DEF Kinds, Consumers
  <2> QED
    BY <2>1, <2>2, PlanOfTwo DEF Begin, Begun, CallTypes, Kinds, Consumers
<1>4. CASE MirrorMcuSettings
  <2>1. Begin("mirror", "mcudxe", "mux", 0, Read("mcu", "mux"))
    BY <1>4 DEF MirrorMcuSettings
  <2>2. call' \in CallSet /\ call'.kind = "mirror" /\ call'.who = "mcudxe"
    BY <2>1, BeginIs DEF Kinds, Consumers
  <2> QED
    BY <2>1, <2>2, PlanOfTwo DEF Begin, Begun, CallTypes, Kinds, Consumers
<1>5. CASE ResolveMux /\ trusted["mux"]
  <2>1. Begin("mux", "mux", "mux", 0, Read("mcu", "mux"))
    BY <1>5 DEF ResolveMux
  <2>2. call' \in CallSet /\ call'.kind = "mux" /\ call'.who = "mux"
    BY <2>1, BeginIs DEF Kinds, Consumers
  <2> QED
    BY <2>1, <2>2, PlanOfTwo DEF Begin, Begun, CallTypes, Kinds, Consumers
<1>6. CASE SetBootMode
  <2>1. Begin("write", "fmp", "bootmode", 0, <<Put("mcu", "bootmode", 0)>>)
    BY <1>6 DEF SetBootMode
  <2>2. call' \in CallSet /\ call'.kind = "write" /\ call'.who = "fmp" /\ call'.reg = "bootmode"
        /\ call'.val = 0
    BY <2>1, BeginIs DEF Kinds, Consumers
  <2> QED
    BY <2>1, <2>2, PlanOfWrite, SomeVals DEF Begin, Begun, CallTypes, Kinds, Consumers, McuRegisterWritable
<1>7. CASE ChangeSetting
  <2> PICK v \in Values : Begin("verify", "mcudxe", "mux", v, <<Put("mcu", "mux", v)>> \o Read("mcu", "mux"))
    BY <1>7 DEF ChangeSetting
  <2> v \in McuVals /\ v \in McuVals \cup Times
    BY DEF McuVals
  <2>2. call' \in CallSet /\ call'.kind = "verify" /\ call'.who = "mcudxe" /\ call'.reg = "mux"
        /\ call'.val = v
    BY BeginIs DEF Kinds, Consumers
  <2> QED
    BY <2>2, PlanOfVerify DEF Begin, Begun, CallTypes, Kinds, Consumers, McuRegisterWritable
<1>8. CASE RtcInitialize
  <2>1. Begin("anchor", "rtc", "time", 0, Read("rtc", "time"))
    BY <1>8 DEF RtcInitialize
  <2>2. call' \in CallSet /\ call'.kind = "anchor"
    BY <2>1, BeginIs DEF Kinds
  <2> QED
    BY <2>1, <2>2, PlanOfAnchor DEF Begin, Begun, CallTypes, Kinds
<1>9. CASE SetTime
  <2> PICK t \in NewTimes : Begin("settime", "rtc", "time", t, SetTimeJobs(t))
    BY <1>9 DEF SetTime
  <2>1. t \in Times
    BY DEF Times
  <2>2. t \in McuVals \cup Times
    BY <2>1
  <2>3. call' \in CallSet /\ call'.kind = "settime" /\ call'.val = t
    BY <2>2, BeginIs DEF Kinds
  <2> QED
    BY <2>1, <2>3, PlanOfSetTime DEF Begin, Begun, CallTypes, Kinds
<1> QED
  BY <1>1, <1>2, <1>3, <1>4, <1>5, <1>6, <1>7, <1>8, <1>9 DEF Calls


-----------------------------------------------------------------------------
(* What the controller's steps do.                                         *)

McuType   == mcu \in [Registers -> McuVals]
ChipType  == chip \in [hi : {0, 1}, lo : {0, 1}, stop : BOOLEAN, vl : BOOLEAN]
PointType == point \in [Slaves -> Places]

LEMMA StopVals == Halt.val = TRUE /\ Release.val = FALSE /\ Halt.reg = "ctl" /\ Release.reg = "ctl"
  BY DEF Halt, Release, Put

LEMMA StoppedIs ==
    ASSUME NEW c \in [hi : {0, 1}, lo : {0, 1}, stop : BOOLEAN, vl : BOOLEAN], NEW d,
           NEW b \in BOOLEAN, d = [c EXCEPT !.stop = b]
    PROVE  /\ d \in [hi : {0, 1}, lo : {0, 1}, stop : BOOLEAN, vl : BOOLEAN]
           /\ d.hi = c.hi /\ d.lo = c.lo /\ (d.stop <=> b)
  OBVIOUS

LEMMA OnWire ==
    ASSUME McuTypeInv, Planned, Wire, active
    PROVE  /\ pc \in {"settle", "poll"} /\ regs = Job /\ regs = JobAt(call, Len(todo))
           /\ Len(todo) \in 1 .. Runs(call.kind) /\ Len(todo) \in 1 .. 5
           /\ call \in CallSet /\ call.kind \in Kinds
           /\ regs \in Jobs /\ Forms(call, Len(todo), regs) /\ CallTypes
<1>1. pc \in {"settle", "poll"} /\ regs = Job /\ pc # "idle"
  BY DEF Wire
<1>2. /\ Len(todo) \in 1 .. Runs(call.kind) /\ Job = JobAt(call, Len(todo))
      /\ call \in CallSet /\ call.kind \in Kinds
  BY <1>1, AtHead
<1>3. Len(todo) \in 1 .. 5
  <2>1. Runs(call.kind) \in {1, 2, 3, 4, 5}
    BY DEF Runs
  <2>2. \A r \in {1, 2, 3, 4, 5} : \A k \in 1 .. r : k \in 1 .. 5
    OBVIOUS
  <2> QED
    BY <1>2, <2>1, <2>2, Zenon
<1> QED
  BY <1>1, <1>2, <1>3, JobForms DEF McuTypeInv

LEMMA EffectOnMcu ==
    ASSUME McuTypeInv, Planned, Wire, active, Applied(regs)
    PROVE  /\ McuType' /\ mcu'["device"] = mcu["device"]
           /\ call.kind # "verify" => mcu'["mux"] = mcu["mux"]
           /\ ~(call.kind \in {"write", "verify"} /\ regs.do = "put") => mcu' = mcu
<1>1. regs \in Jobs /\ Forms(call, Len(todo), regs) /\ CallTypes /\ McuType
  BY OnWire DEF McuTypeInv, McuType
<1>2. CASE regs.do = "put" /\ regs.slave = "mcu"
  <2>1. /\ call.kind \in {"write", "verify"} /\ regs.reg = call.reg /\ regs.val = call.val
    BY <1>1, <1>2 DEF Forms
  <2>2. call.reg \in McuRegisterWritable /\ call.val \in McuVals /\ (call.kind = "write" => call.reg # "mux")
    BY <1>1, <2>1 DEF CallTypes
  <2>3. mcu' = [mcu EXCEPT ![call.reg] = call.val]
    BY <1>2, <2>1 DEF Applied
  <2> QED
    BY <1>1, <1>2, <2>1, <2>2, <2>3 DEF McuType, McuRegisterWritable, Registers
<1>3. CASE ~(regs.do = "put" /\ regs.slave = "mcu")
  <2>1. mcu' = mcu
    BY <1>3 DEF Applied
  <2> QED
    BY <1>1, <2>1 DEF McuType
<1> QED
  BY <1>2, <1>3

LEMMA EffectOnChip ==
    ASSUME McuTypeInv, Planned, Wire, active, Applied(regs)
    PROVE  /\ ChipType'
           /\ ~(call.kind = "settime" /\ Len(todo) \in {1, 2, 3}) => chip' = chip
           /\ call.kind = "settime" =>
                /\ Len(todo) \in {1, 3} => chip'.hi = chip.hi /\ chip'.lo = chip.lo
                /\ Len(todo) = 1 => ~chip'.stop
                /\ Len(todo) = 2 => /\ chip'.hi = call.val[1] /\ chip'.lo = chip.lo
                                    /\ chip'.stop = chip.stop
                /\ Len(todo) = 3 => chip'.stop
<1>1. regs \in Jobs /\ Forms(call, Len(todo), regs) /\ CallTypes /\ ChipType
  BY OnWire DEF McuTypeInv, ChipType
<1>2. CASE regs.do = "put" /\ regs.slave = "rtc"
  <2>1. call.kind = "settime" /\ Len(todo) \in {1, 2, 3}
    BY <1>1, <1>2 DEF Forms
  <2>2. CASE Len(todo) = 1
    <3>1. regs = Release
      BY <1>1, <1>2, <2>1, <2>2 DEF Forms
    <3>2. chip' = [chip EXCEPT !.stop = FALSE]
      BY <1>2, <3>1, StopVals DEF Applied
    <3>3. ChipType' /\ chip'.hi = chip.hi /\ chip'.lo = chip.lo /\ ~chip'.stop
      BY <1>1, <3>2, StoppedIs DEF ChipType
    <3> QED
      BY <2>1, <2>2, <3>3
  <2>3. CASE Len(todo) = 3
    <3>1. regs = Halt
      BY <1>1, <1>2, <2>1, <2>3 DEF Forms
    <3>2. chip' = [chip EXCEPT !.stop = TRUE]
      BY <1>2, <3>1, StopVals DEF Applied
    <3>3. ChipType' /\ chip'.hi = chip.hi /\ chip'.lo = chip.lo /\ chip'.stop
      BY <1>1, <3>2, StoppedIs DEF ChipType
    <3> QED
      BY <2>1, <2>3, <3>3
  <2>4. CASE Len(todo) = 2
    <3>1. regs.reg = "time" /\ regs.val = call.val
      BY <1>1, <1>2, <2>1, <2>4 DEF Forms
    <3>2. chip' = [chip EXCEPT !.hi = call.val[1]]
      BY <1>2, <3>1 DEF Applied
    <3>3. call.val[1] \in {0, 1}
      BY <1>1, <2>1 DEF CallTypes, Times
    <3> QED
      BY <1>1, <2>1, <2>4, <3>2, <3>3 DEF ChipType
  <2> QED
    BY <2>1, <2>2, <2>3, <2>4
<1>3. CASE ~(regs.do = "put" /\ regs.slave = "rtc")
  <2>1. chip' = chip
    BY <1>3 DEF Applied
  <2>2. call.kind = "settime" => Len(todo) \notin {1, 2, 3}
    BY <1>1, <1>3 DEF Forms
  <2> QED
    BY <1>1, <2>1, <2>2 DEF ChipType
<1> QED
  BY <1>2, <1>3

LEMMA EffectOnReads ==
    ASSUME McuTypeInv, Planned, Wire, active, Applied(regs)
    PROVE  /\ PointType'
           /\ call.kind \in Reads =>
                /\ Len(todo) \in {1, 3} => point' = point
                /\ Len(todo) = 2 => point'["mcu"] = "mux"
                /\ Len(todo) = 4 => point'["mcu"] = "device"
                /\ Job = Fetch("mcu") => data' = mcu[point["mcu"]]
<1>1. regs \in Jobs /\ Forms(call, Len(todo), regs) /\ CallTypes /\ PointType /\ regs = Job
      /\ Len(todo) \in 1 .. Runs(call.kind) /\ call.kind \in Kinds
  BY OnWire DEF McuTypeInv, PointType
<1>2. PointType' /\ (regs.do # "point" => point' = point)
  BY <1>1 DEF Applied, PointType, Jobs
<1>3. ASSUME call.kind \in Reads, Len(todo) \in {1, 3} PROVE point' = point
  <2>1. regs.do # "point"
    <3>1. CASE call.kind = "verify" /\ Len(todo) = 3
      BY <1>1, <3>1 DEF Forms, Runs
    <3>2. CASE regs = Fetch("mcu")
      BY <3>2, FetchIs DEF Slaves
    <3> QED
      BY <1>1, <1>3, <3>1, <3>2 DEF Forms, Reads, Runs
  <2> QED
    BY <1>2, <2>1
<1>4. ASSUME call.kind \in Reads, Len(todo) \in {2, 4}
      PROVE  point'["mcu"] = IF Len(todo) = 2 THEN "mux" ELSE "device"
  <2>1. regs.do = "point" /\ regs.slave = "mcu" /\ regs.reg = IF Len(todo) = 2 THEN "mux" ELSE "device"
    BY <1>1, <1>4 DEF Forms
  <2> QED
    BY <1>1, <2>1 DEF Applied, PointType, Slaves
<1>5. ASSUME call.kind \in Reads, Job = Fetch("mcu") PROVE data' = mcu[point["mcu"]]
  <2>1. regs.do = "fetch" /\ regs.slave = "mcu"
    BY <1>1, <1>5, FetchIs DEF Slaves
  <2> QED
    BY <2>1 DEF Applied
<1> QED
  BY <1>2, <1>3, <1>4, <1>5

\* The steps of the bus that reach no slave.
Silent == Recognise \/ ClearStart \/ LoadList \/ Launch \/ Settle \/ PollIdle \/ PollGivesUp

LEMMA SilentIs ==
    ASSUME Silent
    PROVE  UNCHANGED <<chips, todo, call, failed, memory, reply, time, data>>
  BY DEF Silent, Recognise, ClearStart, LoadList, Launch, Settle, PollIdle, PollGivesUp, Quiet, wires

LEMMA TransferIs ==
    ASSUME Finish \/ Refused
    PROVE  /\ active /\ UNCHANGED <<regs, start, armed, pc, todo, call, failed, memory, reply, time>>
           /\ active' = FALSE /\ half' = FALSE
           /\ Finish => ran' = [job |-> regs, ok |-> TRUE] /\ Applied(regs) /\ lost' = lost
           /\ Refused => ran' = [job |-> regs, ok |-> FALSE] /\ lost' = lost + 1
           /\ Applied(regs) \/ UNCHANGED <<chips, data>>
  BY DEF Finish, Refused, Untouched


-----------------------------------------------------------------------------
(* Types and plans.                                                        *)

MemoryType ==
    /\ probed \in [Consumers -> BOOLEAN] /\ trusted \in [Consumers -> BOOLEAN]
    /\ modes \in [{"mcudxe", "mux"} -> {"unread", "usb3", "pcie"}]
    /\ step \in {"probe", "fan", "mux", "mirror", "done"}
    /\ dtb \in [usb3 : BOOLEAN, pcie : BOOLEAN]
WireType ==
    /\ start \in BOOLEAN /\ armed \in BOOLEAN /\ active \in BOOLEAN /\ half \in BOOLEAN
    /\ pc \in {"idle", "clear", "load", "launch", "settle", "poll", "ok", "bad"}
TodoType ==
    /\ todo \in Seq(Jobs) /\ failed \in BOOLEAN
    /\ ticked \in BOOLEAN /\ ticks \in Nat /\ lost \in Nat

LEMMA TypeParts ==
    McuTypeInv <=> McuType /\ ChipType /\ PointType /\ MemoryType /\ WireType /\ TodoType /\ CallTypes
  BY DEF McuTypeInv, McuType, ChipType, PointType, MemoryType, WireType, TodoType

LEMMA TypeParts2 ==
    (McuType /\ ChipType /\ PointType /\ MemoryType /\ WireType /\ TodoType /\ CallTypes)' => McuTypeInv'
  BY DEF McuTypeInv, McuType, ChipType, PointType, MemoryType, WireType, TodoType

LEMMA NoCallIs ==
    NoCall \in CallSet /\ NoCall.kind = "none"
<1>1. "" \in Places /\ "none" \in Kinds \cup {"none"} /\ "none" \in Consumers \cup {"rtc", "none"}
      /\ 0 \in McuVals \cup Times
  BY SomeVals, Zenon DEF Places
<1> QED
  BY <1>1 DEF NoCall, CallSet

LEMMA IdleCall ==
    ASSUME NEW c, c = NoCall
    PROVE  /\ c \in CallSet /\ c.kind = "none" /\ c.kind \notin Kinds /\ c.kind \notin Reads
           /\ c.kind \notin {"settime", "write", "verify", "probe", "mux"}
  BY NoCallIs DEF Kinds, Reads

LEMMA AnswerIs ==
    ASSUME NEW s, Answer(s)
    PROVE  /\ pc' = "idle" /\ call' = NoCall /\ call'.kind = "none" /\ Planned' /\ CallTypes'
           /\ todo' \in Seq(Jobs) /\ failed' = FALSE /\ ticked' = FALSE
           /\ UNCHANGED <<chips, start, armed, active, half, ticks, lost>>
<1>1. call' = NoCall /\ pc' = "idle" /\ todo' = <<>> /\ failed' = FALSE /\ ticked' = FALSE
      /\ UNCHANGED <<chips, start, armed, active, half, ticks, lost>>
  BY DEF Answer
<1>2. todo' \in Seq(Jobs)
  BY <1>1
<1> QED
  BY <1>1, <1>2, IdleCall DEF Planned, CallTypes

LEMMA LaterIs ==
    ASSUME NEW t \in Times
    PROVE  Later(t, 1) \in Times /\ Later(t, 1)[1] \in {0, 1} /\ Later(t, 1)[2] \in {0, 1}
           /\ Later(t, 1) = <<Later(t, 1)[1], Later(t, 1)[2]>>
<1>1. PICK a \in {0, 1}, b \in {0, 1} : t = <<a, b>>
  BY DEF Times
<1> QED
  BY <1>1 DEF Later, Number, Base, Times

LEMMA MemoryStep ==
    ASSUME McuTypeInv, McuNext
    PROVE  MemoryType'
<1> USE TypeParts DEF memory
<1> MemoryType
  OBVIOUS
<1>1. CASE Controller \/ Tick \/ RunBus
  BY <1>1 DEF Controller, Tick, RunBus, Recognise, LandsFirstByte, Finish, Refused,
       ClearStart, LoadList, Launch, Settle, PollIdle, PollGivesUp, Quiet, MemoryType
<1>2. CASE Calls
  BY <1>2 DEF Calls, Probe, ApplyFanPolicy, ReadLane, MirrorMcuSettings, ResolveMux, SetBootMode,
       ChangeSetting, RtcInitialize, SetTime, MemoryType
<1>3. CASE EntryUntrusted \/ (ResolveMux /\ ~trusted["mux"])
  BY <1>3 DEF EntryUntrusted, ResolveMux, MemoryType
<1>4. CASE RunEnds
  BY <1>4 DEF RunEnds, Continue, MemoryType
<1>5. CASE RunFails
  <2>1. CASE ReleaseStop
    BY <1>5, <2>1 DEF RunFails, Continue, MemoryType
  <2>2. CASE ~ReleaseStop
    <3>1. UNCHANGED <<probed, trusted, step, dtb>>
          /\ modes' = IF call.kind = "mux" THEN [modes EXCEPT ![call.who] = "usb3"] ELSE modes
      BY <1>5, <2>2 DEF RunFails
    <3> QED
      BY <3>1 DEF MemoryType, CallTypes
  <2> QED
    BY <2>1, <2>2
<1>6. CASE LastRunEnds
  <2>1. trusted' \in [Consumers -> BOOLEAN]
    BY <1>6 DEF LastRunEnds, MemoryType, CallTypes
  <2>2. modes' \in [{"mcudxe", "mux"} -> {"unread", "usb3", "pcie"}]
    BY <1>6 DEF LastRunEnds, MemoryType, CallTypes
  <2>3. dtb' \in [usb3 : BOOLEAN, pcie : BOOLEAN]
    <3>1. dtb' \in {dtb} \cup PatchPublishedDtb
      BY <1>6 DEF LastRunEnds
    <3>2. [dtb EXCEPT !.usb3 = FALSE] \in [usb3 : BOOLEAN, pcie : BOOLEAN]
      BY Zenon DEF MemoryType
    <3>3. [usb3 |-> FALSE, pcie |-> TRUE] \in [usb3 : BOOLEAN, pcie : BOOLEAN]
      BY Zenon
    <3> QED
      BY <3>1, <3>2, <3>3 DEF PatchPublishedDtb, MemoryType
  <2> QED
    BY <1>6, <2>1, <2>2, <2>3 DEF LastRunEnds, MemoryType
<1> QED
  BY <1>1, <1>2, <1>3, <1>4, <1>5, <1>6 DEF McuNext, Calls

\* The time is put into the chip before the release, which is the last list.
LEMMA ReleaseLast ==
    ASSUME McuTypeInv, Planned, pc # "idle", ReleaseStop
    PROVE  call.kind = "settime" /\ Len(todo) = 2
<1>1. call.kind = "settime" /\ Job.reg = "time"
  BY DEF ReleaseStop
<1>2. /\ Len(todo) \in 1 .. Runs(call.kind) /\ Job = JobAt(call, Len(todo))
      /\ call \in CallSet /\ call.kind \in Kinds
  BY AtHead
<1>3. Forms(call, Len(todo), Job)
  BY <1>2, JobForms
<1> QED
  BY <1>1, <1>3 DEF Forms

LEMMA TypeStep ==
    ASSUME McuTypeInv, Planned, Wire, McuNext
    PROVE  McuTypeInv' /\ Planned'
<1> USE TypeParts
<1>0. MemoryType'
  BY MemoryStep
<1>1. CASE Silent
  <2>1. UNCHANGED <<chips, todo, call, failed, memory, time>>
    BY <1>1, SilentIs
  <2>2. WireType' /\ lost' \in Nat /\ pc # "idle" /\ pc' # "idle"
    <3> WireType /\ lost \in Nat
      BY DEF TodoType
    <3>1. CASE Recognise
      BY <3>1 DEF Recognise, WireType, Wire
    <3>2. CASE ClearStart \/ LoadList
      BY <3>2 DEF ClearStart, LoadList, WireType
    <3>3. CASE Launch
      <4>1. armed' = ~start /\ start' = TRUE /\ pc' = "settle" /\ pc # "idle" /\ lost' = lost
            /\ UNCHANGED <<active, half>>
        BY <3>3 DEF Launch
      <4>2. armed' = TRUE \/ armed' = FALSE
        BY <4>1
      <4>3. armed' \in BOOLEAN
        BY <4>2
      <4> QED
        BY <4>1, <4>3 DEF WireType
    <3>4. CASE Settle
      <4>1. UNCHANGED <<start, armed, active, half, lost>> /\ pc' = "poll" /\ pc # "idle"
        BY <3>4 DEF Settle, wires
      <4> QED
        BY <4>1 DEF WireType
    <3>5. CASE PollIdle
      <4>1. /\ start' = FALSE /\ armed' = FALSE /\ UNCHANGED <<active, half, lost>>
            /\ pc' \in {"ok", "bad"} /\ pc # "idle"
        BY <3>5 DEF PollIdle
      <4> QED
        BY <4>1 DEF WireType
    <3>6. CASE PollGivesUp
      <4>1. /\ start' = FALSE /\ active' = FALSE /\ half' = FALSE /\ armed' = armed
            /\ lost' = lost + 1 /\ pc' = "bad" /\ pc # "idle"
        BY <3>6 DEF PollGivesUp
      <4>2. lost' \in Nat
        BY <4>1
      <4> QED
        BY <4>1, <4>2 DEF WireType
    <3> QED
      BY <1>1, <3>1, <3>2, <3>3, <3>4, <3>5, <3>6 DEF Silent
  <2>3. Planned' /\ CallTypes' /\ McuType' /\ ChipType' /\ PointType' /\ TodoType'
    BY <2>1, <2>2 DEF Planned, CallTypes, McuType, ChipType, PointType, TodoType, chips, time
  <2> QED
    BY <1>0, <2>2, <2>3, TypeParts2
<1>2. CASE Finish \/ Refused
  <2>1. /\ active /\ UNCHANGED <<regs, start, armed, pc, todo, call, failed, memory, reply, time>>
        /\ active' = FALSE /\ half' = FALSE /\ (Applied(regs) \/ UNCHANGED <<chips, data>>)
        /\ lost' \in {lost, lost + 1}
    BY <1>2, TransferIs
  <2>2. McuType' /\ ChipType' /\ PointType'
    <3>1. CASE Applied(regs)
      BY <2>1, <3>1, EffectOnMcu, EffectOnChip, EffectOnReads
    <3>2. CASE UNCHANGED chips
      BY <3>2 DEF McuType, ChipType, PointType, chips
    <3> QED
      BY <2>1, <3>1, <3>2
  <2>3. Planned' /\ CallTypes' /\ TodoType' /\ WireType'
    <3>1. Planned' /\ CallTypes'
      BY <2>1 DEF Planned, CallTypes
    <3>2. WireType'
      BY <2>1 DEF WireType
    <3>3. lost' \in Nat
      BY <2>1 DEF TodoType
    <3>4. TodoType'
      BY <2>1, <3>3 DEF TodoType, time
    <3> QED
      BY <3>1, <3>2, <3>4
  <2> QED
    BY <1>0, <2>2, <2>3, TypeParts2
<1>3. CASE LandsFirstByte
  <2>1. /\ chip' = [chip EXCEPT !.lo = regs.val[2], !.vl = FALSE] /\ half' = TRUE /\ active
        /\ regs.do = "put" /\ regs.slave = "rtc" /\ regs.reg = "time"
        /\ UNCHANGED <<mcu, point, start, armed, active, pc, todo, call, failed, memory, time, lost>>
    BY <1>3 DEF LandsFirstByte
  <2>2. Len(todo) = 2 /\ call.kind = "settime" /\ regs.val = call.val /\ call.val \in Times
    BY <2>1, OnWire DEF Forms, CallTypes
  <2>3. call.val[2] \in {0, 1}
    BY <2>2 DEF Times
  <2>4. ChipType'
    BY <2>1, <2>2, <2>3, Zenon DEF ChipType
  <2>5. Planned' /\ CallTypes' /\ TodoType' /\ WireType' /\ McuType' /\ PointType'
    BY <2>1 DEF Planned, CallTypes, TodoType, WireType, time, McuType, PointType
  <2> QED
    BY <1>0, <2>4, <2>5, TypeParts2
<1>4. CASE Tick
  <2>1. /\ UNCHANGED <<mcu, point, wires, pc, todo, call, failed, lost>>
        /\ ticked' \in BOOLEAN /\ ticks' = ticks + 1
        /\ chip' = IF chip.stop THEN chip
                   ELSE [chip EXCEPT !.hi = Later(Time(chip), 1)[1], !.lo = Later(Time(chip), 1)[2]]
    BY <1>4 DEF Tick
  <2>2. Time(chip) \in Times
    BY DEF ChipType, Time, Times
  <2>3. Later(Time(chip), 1)[1] \in {0, 1} /\ Later(Time(chip), 1)[2] \in {0, 1}
    BY <2>2, LaterIs
  <2>4. ChipType'
    BY <2>1, <2>3 DEF ChipType
  <2>5. Planned' /\ CallTypes' /\ TodoType' /\ WireType' /\ McuType' /\ PointType'
    BY <2>1 DEF Planned, CallTypes, TodoType, WireType, wires, McuType, PointType
  <2> QED
    BY <1>0, <2>4, <2>5, TypeParts2
<1>5. CASE Calls
  <2>1. Begun
    BY <1>5, CallsBegin
  <2>2. Planned' /\ todo' \in Seq(Jobs)
    BY <2>1, BegunPlanned
  <2>3. CallTypes' /\ TodoType' /\ WireType' /\ McuType' /\ PointType' /\ ChipType'
    BY <2>1, <2>2 DEF Begun, TodoType, WireType, wires, McuType, PointType, ChipType, chips
  <2> QED
    BY <1>0, <2>2, <2>3, TypeParts2
<1>6. CASE EntryUntrusted \/ (ResolveMux /\ ~trusted["mux"])
  <2>1. UNCHANGED <<chips, wires, pc, todo, call, failed, time, lost>>
    BY <1>6 DEF EntryUntrusted, ResolveMux
  <2>2. Planned' /\ CallTypes' /\ TodoType' /\ WireType' /\ McuType' /\ PointType' /\ ChipType'
    BY <2>1 DEF Planned, CallTypes, TodoType, WireType, wires, time, McuType, PointType, ChipType, chips
  <2> QED
    BY <1>0, <2>2, TypeParts2
<1>7. ASSUME Continue, Len(todo) > 1, failed' \in BOOLEAN, pc \in {"ok", "bad"} PROVE McuTypeInv' /\ Planned'
  <2>1. /\ todo' = Tail(todo) /\ pc' = "clear" /\ pc # "idle"
        /\ UNCHANGED <<chips, wires, call, memory, time, lost>>
    BY <1>7 DEF Continue
  <2>2. Planned' /\ todo' \in Seq(Jobs)
    BY <1>7, <2>1, AtTail
  <2>3. CallTypes' /\ TodoType' /\ WireType' /\ McuType' /\ PointType' /\ ChipType'
    BY <1>7, <2>1, <2>2 DEF CallTypes, TodoType, WireType, wires, time, McuType, PointType, ChipType, chips
  <2> QED
    BY <1>0, <2>2, <2>3, TypeParts2
<1>8. ASSUME NEW s, Answer(s) PROVE McuTypeInv' /\ Planned'
  <2>1. /\ pc' = "idle" /\ Planned' /\ CallTypes' /\ todo' \in Seq(Jobs) /\ failed' = FALSE
        /\ ticked' = FALSE /\ UNCHANGED <<chips, start, armed, active, half, ticks, lost>>
    BY <1>8, AnswerIs
  <2>2. TodoType' /\ WireType' /\ McuType' /\ PointType' /\ ChipType'
    BY <2>1 DEF TodoType, WireType, McuType, PointType, ChipType, chips
  <2> QED
    BY <1>0, <2>1, <2>2, TypeParts2
<1>9. CASE RunEnds
  BY <1>7, <1>8, <1>9 DEF RunEnds, TodoType
<1>10. CASE RunFails
  <2>1. CASE ReleaseStop
    <3>1. pc # "idle"
      BY <1>10 DEF RunFails
    <3>2. Len(todo) = 2
      BY <2>1, <3>1, ReleaseLast
    <3> QED
      BY <1>7, <1>10, <2>1, <3>2 DEF RunFails
  <2>2. CASE ~ReleaseStop
    <3>1. \E s : Answer(s)
      BY <1>10, <2>2 DEF RunFails
    <3> QED
      BY <1>8, <3>1
  <2> QED
    BY <2>1, <2>2
<1>11. CASE LastRunEnds
  <2>1. \E s : Answer(s)
    BY <1>11 DEF LastRunEnds
  <2> QED
    BY <1>8, <2>1
<1> QED
  BY <1>1, <1>2, <1>3, <1>4, <1>5, <1>6, <1>9, <1>10, <1>11 DEF McuNext, Controller, RunBus, Silent, Calls


-----------------------------------------------------------------------------
(* The controller.                                                         *)

LEMMA SameJob ==
    ASSUME todo' = todo
    PROVE  Job' = Job /\ (ran' = ran => Went' = Went /\ Missed' = Missed)
  BY DEF Job, Went, Missed

LEMMA DoneIs ==
    /\ Went => ran.ok /\ ~Missed
    /\ Missed => ~ran.ok /\ ~Went
<1>1. ASSUME Went PROVE ran.ok = TRUE
  BY <1>1 DEF Went, Missed
<1>2. ASSUME Missed PROVE ran.ok = FALSE
  BY <1>2 DEF Went, Missed
<1> QED
  BY <1>1, <1>2, Zenon

\* A token list that has not been put on the wire is not over.
Waiting == pc \in {"idle", "clear", "load", "launch"}

LEMMA WaitingWire ==
    ASSUME pc' \in {"idle", "clear"}, ~armed', ~active', ~half'
    PROVE  Wire' /\ ~Over'
  BY DEF Wire, Over

\* Between two runs the controller is at rest.
LEMMA AtRest ==
    ASSUME McuTypeInv, Wire, pc \in {"idle", "clear", "load", "launch", "ok", "bad"}
    PROVE  ~armed /\ ~active /\ ~half
  BY DEF Wire, McuTypeInv

LEMMA SilentWire ==
    ASSUME McuTypeInv, Wire, Silent
    PROVE  /\ Wire'
           /\ Over' => (Over /\ ran' = ran) \/ (ran' = [job |-> Job, ok |-> FALSE] /\ PollGivesUp)
<1>0. todo' = todo /\ Job' = Job
  BY SilentIs, SameJob
<1>1. CASE Recognise
  <2>1. armed /\ ~armed' /\ active' /\ UNCHANGED <<regs, start, half, ran, pc>>
    BY <1>1 DEF Recognise
  <2>2. pc = "settle" /\ ~active
    BY <2>1 DEF Wire
  <2> QED
    BY <1>0, <2>1, <2>2 DEF Wire, Over
<1>2. CASE ClearStart
  <2>1. pc' = "load" /\ ~start' /\ ~armed' /\ ~active' /\ ~half'
    BY <1>2 DEF ClearStart
  <2> QED
    BY <2>1 DEF Wire, Over
<1>3. CASE LoadList
  <2>1. pc = "load" /\ pc' = "launch" /\ regs' = Job /\ UNCHANGED <<start, armed, active, half>>
    BY <1>3 DEF LoadList
  <2> QED
    BY <1>0, <2>1, AtRest DEF Wire, Over
<1>4. CASE Launch
  <2>1. pc = "launch" /\ pc' = "settle" /\ armed' = ~start /\ UNCHANGED <<regs, active, half>>
    BY <1>4 DEF Launch
  <2>2. armed' /\ ~active' /\ ~half' /\ regs' = Job'
    BY <1>0, <2>1, AtRest DEF Wire
  <2> QED
    BY <2>1, <2>2 DEF Wire, Over
<1>5. CASE Settle
  <2>1. pc = "settle" /\ ~armed /\ pc' = "poll" /\ UNCHANGED <<regs, start, armed, active, half, ran>>
    BY <1>5 DEF Settle, wires
  <2> QED
    BY <1>0, <2>1 DEF Wire, Over, Went, Missed
<1>6. CASE PollIdle
  <2>1. /\ pc = "poll" /\ ~active /\ ~start' /\ ~armed' /\ UNCHANGED <<regs, active, half, ran>>
        /\ pc' = IF ran.ok THEN "ok" ELSE "bad"
    BY <1>6 DEF PollIdle
  <2>2. Over /\ ~half
    BY <2>1 DEF Wire, Over
  <2>3. (Went /\ pc' = "ok") \/ (Missed /\ pc' = "bad")
    BY <2>1, <2>2, DoneIs DEF Wire
  <2> QED
    BY <1>0, <2>1, <2>2, <2>3 DEF Wire, Went, Missed
<1>7. CASE PollGivesUp
  <2>1. /\ pc = "poll" /\ ~active' /\ ~half' /\ UNCHANGED <<regs, armed>>
        /\ pc' = "bad" /\ ran' = [job |-> regs, ok |-> FALSE]
    BY <1>7 DEF PollGivesUp
  <2>2. ~armed' /\ regs = Job
    BY <2>1 DEF Wire
  <2> QED
    BY <1>0, <1>7, <2>1, <2>2 DEF Wire, Went, Missed
<1> QED
  BY <1>1, <1>2, <1>3, <1>4, <1>5, <1>6, <1>7 DEF Silent

LEMMA TransferWire ==
    ASSUME McuTypeInv, Planned, Wire, Finish \/ Refused
    PROVE  /\ Wire' /\ Over' /\ pc' = pc /\ todo' = todo /\ Job' = Job
           /\ Finish => Went'
           /\ Refused => Missed'
<1>1. /\ active /\ UNCHANGED <<regs, start, armed, pc, todo>> /\ ~active' /\ ~half'
      /\ Finish => ran' = [job |-> regs, ok |-> TRUE]
      /\ Refused => ran' = [job |-> regs, ok |-> FALSE]
  BY TransferIs
<1>2. pc \in {"settle", "poll"} /\ regs = Job /\ ~armed
  BY <1>1, OnWire DEF Wire
<1>3. Job' = Job
  BY <1>1, SameJob
<1>4. Over' /\ (Finish => Went') /\ (Refused => Missed')
  BY <1>1, <1>2, <1>3 DEF Over, Went, Missed
<1> QED
  BY <1>1, <1>2, <1>3, <1>4 DEF Wire

\* The steps that leave the run as it is.
Aside == LandsFirstByte \/ Tick \/ EntryUntrusted \/ (ResolveMux /\ ~trusted["mux"])

LEMMA AsideIs ==
    ASSUME Aside
    PROVE  /\ UNCHANGED <<mcu, point, regs, start, armed, active, ran, data, pc, todo, call,
                          failed, probed, trusted, dtb, lost>>
           /\ (half' => half \/ active) /\ (~LandsFirstByte => half' = half)
           /\ (~Tick => ticked' = ticked)
  BY DEF Aside, LandsFirstByte, Tick, EntryUntrusted, ResolveMux, wires, chips, memory, time

LEMMA AsideWire ==
    ASSUME Wire, Aside
    PROVE  Wire' /\ Job' = Job /\ Over' = Over /\ Went' = Went /\ Missed' = Missed
  BY AsideIs DEF Wire, Over, Went, Missed, Job

\* A run is over and the next one, or none, comes.
RunSteps == RunEnds \/ RunFails \/ LastRunEnds
Goes  == Continue /\ pc \in {"ok", "bad"} /\ Len(todo) > 1
Stops == (\E s : Answer(s)) /\ pc \in {"ok", "bad"}

LEMMA StepsAre ==
    ASSUME McuTypeInv, Planned, RunSteps
    PROVE  /\ (Goes /\ failed' \in {failed, TRUE}) \/ Stops
           /\ RunEnds => pc = "ok" /\ Len(todo) > 1
           /\ RunFails => pc = "bad"
           /\ RunFails /\ Goes => call.kind = "settime" /\ Len(todo) = 2 /\ failed' = TRUE
           /\ RunEnds /\ Goes => failed' = failed
           /\ LastRunEnds => pc = "ok" /\ Len(todo) = 1 /\ Stops
<1>1. CASE RunEnds
  <2>1. pc = "ok" /\ Len(todo) > 1 /\ ((\E s : Answer(s)) \/ (Continue /\ failed' = failed))
    BY <1>1 DEF RunEnds
  <2>2. (\E s : Answer(s)) => pc' = "idle"
    BY AnswerIs
  <2>3. Continue => pc' = "clear"
    BY DEF Continue
  <2>4. RunEnds /\ Goes => failed' = failed
    BY <2>1, <2>2, <2>3 DEF Goes
  <2> QED
    BY <1>1, <2>1, <2>4 DEF RunFails, LastRunEnds, Goes, Stops
<1>2. CASE RunFails
  <2>1. pc = "bad" /\ pc # "idle"
    BY <1>2 DEF RunFails
  <2>2. CASE ReleaseStop
    <3>1. call.kind = "settime" /\ Len(todo) = 2
      BY <2>1, <2>2, ReleaseLast
    <3>2. Continue /\ failed' = TRUE
      BY <1>2, <2>2 DEF RunFails
    <3> QED
      BY <2>1, <3>1, <3>2 DEF Goes, RunEnds, LastRunEnds
  <2>3. CASE ~ReleaseStop
    <3>1. \E s : Answer(s)
      BY <1>2, <2>3 DEF RunFails
    <3>2. pc' = "idle"
      BY <3>1, AnswerIs
    <3>3. ~Goes
      BY <3>2 DEF Goes, Continue
    <3> QED
      BY <2>1, <3>1, <3>3 DEF Stops, RunEnds, LastRunEnds
  <2> QED
    BY <2>2, <2>3
<1>3. CASE LastRunEnds
  <2>1. pc = "ok" /\ Len(todo) = 1 /\ (\E s : Answer(s))
    BY <1>3 DEF LastRunEnds
  <2>2. pc' = "idle"
    BY <2>1, AnswerIs
  <2>3. ~Goes
    BY <2>2 DEF Goes, Continue
  <2> QED
    BY <2>1, <2>3 DEF Stops, RunFails, RunEnds
<1> QED
  BY <1>1, <1>2, <1>3 DEF RunSteps

LEMMA GoesIs ==
    ASSUME McuTypeInv, Planned, Wire, Goes
    PROVE  /\ pc' = "clear" /\ Planned' /\ Len(todo') = Len(todo) - 1 /\ Len(todo) \in 2 .. 5
           /\ UNCHANGED <<chips, wires, call, memory, reply, time, lost>>
           /\ Wire' /\ ~Over' /\ ~half'
<1>1. /\ pc' = "clear" /\ todo' = Tail(todo) /\ pc # "idle" /\ Len(todo) > 1
      /\ UNCHANGED <<chips, wires, call, memory, reply, time, lost>>
  BY DEF Goes, Continue
<1>2. Planned' /\ Len(todo') = Len(todo) - 1
  BY <1>1, AtTail
<1>3. Len(todo) \in 1 .. Runs(call.kind)
  BY <1>1, AtHead
<1>4. Len(todo) \in 1 .. 5
  <2>1. Runs(call.kind) \in {1, 2, 3, 4, 5}
    BY DEF Runs
  <2>2. \A r \in {1, 2, 3, 4, 5} : \A k \in 1 .. r : k \in 1 .. 5
    OBVIOUS
  <2> QED
    BY <1>3, <2>1, <2>2, Zenon
<1>5. ~armed /\ ~active /\ ~half
  BY AtRest DEF Goes
<1>6. ~armed' /\ ~active' /\ ~half'
  BY <1>1, <1>5 DEF wires
<1> QED
  BY <1>1, <1>2, <1>4, <1>6, WaitingWire

LEMMA StopsIs ==
    ASSUME McuTypeInv, Wire, Stops
    PROVE  /\ pc' = "idle" /\ call' = NoCall /\ call'.kind = "none"
           /\ call'.kind \notin Kinds \cup Reads
           /\ call'.kind \notin {"settime", "write", "verify", "probe", "mux"}
           /\ failed' = FALSE /\ UNCHANGED <<chips, lost>>
           /\ Wire' /\ ~Over' /\ ~half'
<1>1. /\ pc' = "idle" /\ call' = NoCall /\ failed' = FALSE
      /\ UNCHANGED <<chips, start, armed, active, half, ticks, lost>>
  BY AnswerIs DEF Stops
<1>2. ~armed /\ ~active /\ ~half
  BY AtRest DEF Stops
<1>3. /\ call' \in CallSet /\ call'.kind = "none" /\ call'.kind \notin Kinds /\ call'.kind \notin Reads
      /\ call'.kind \notin {"settime", "write", "verify", "probe", "mux"}
  BY <1>1, IdleCall
<1> QED
  BY <1>1, <1>2, <1>3, WaitingWire

LEMMA BegunIs ==
    ASSUME McuTypeInv, Wire, Begun
    PROVE  Wire' /\ ~Over' /\ ~half' /\ pc' = "clear"
<1>1. pc = "idle" /\ pc' = "clear" /\ UNCHANGED <<armed, active, half>>
  BY DEF Begun, wires
<1>2. ~armed /\ ~active /\ ~half
  BY <1>1, AtRest
<1> QED
  BY <1>1, <1>2, WaitingWire

LEMMA NextParts ==
    ASSUME McuNext
    PROVE  Silent \/ (Finish \/ Refused) \/ Aside \/ Calls \/ RunSteps
  BY DEF McuNext, Controller, RunBus, Silent, Calls, Aside, RunSteps

LEMMA WireStep ==
    ASSUME McuTypeInv, Planned, Wire, McuNext
    PROVE  Wire'
<1>1. CASE Silent
  BY <1>1, SilentWire
<1>2. CASE Finish \/ Refused
  BY <1>2, TransferWire
<1>3. CASE Aside
  BY <1>3, AsideWire
<1>4. CASE Calls
  BY <1>4, CallsBegin, BegunIs
<1>5. CASE RunSteps
  BY <1>5, StepsAre, GoesIs, StopsIs
<1> QED
  BY <1>1, <1>2, <1>3, <1>4, <1>5, NextParts


-----------------------------------------------------------------------------
(* What a step does to what has been established.                          *)

Same == Went' = Went /\ Missed' = Missed

LEMMA SilentEffect ==
    ASSUME McuTypeInv, Wire, Silent
    PROVE  /\ UNCHANGED <<chips, todo, call, failed, memory, reply, time, data>> /\ Job' = Job
           /\ pc # "idle" /\ pc' # "idle"
           /\ half' => half
           /\ lost' = lost \/ lost' = lost + 1
           /\ Over' => (Over /\ Same) \/ (Missed' /\ ~Went' /\ lost' = lost + 1)
<1>1. UNCHANGED <<chips, todo, call, failed, memory, reply, time, data>> /\ Job' = Job
  BY SilentIs, SameJob
<1>2. pc # "idle" /\ pc' # "idle"
  BY DEF Silent, Recognise, ClearStart, LoadList, Launch, Settle, PollIdle, PollGivesUp, Wire, wires
<1>3. half' => half
  BY DEF Silent, Recognise, ClearStart, LoadList, Launch, Settle, PollIdle, PollGivesUp, wires
<1>4. lost' = lost \/ lost' = lost + 1
  BY DEF Silent, Recognise, ClearStart, LoadList, Launch, Settle, PollIdle, PollGivesUp
<1>5. PollGivesUp => lost' = lost + 1
  BY DEF PollGivesUp
<1>6. ran' = [job |-> Job, ok |-> FALSE] => Missed' /\ ~Went'
  <2>1. ASSUME ran' = [job |-> Job, ok |-> FALSE] PROVE Missed'
    BY <1>1, <2>1 DEF Went, Missed
  <2>2. Missed' => ~Went'
    <3>1. Missed' => ~(ran'.ok)
      <4>1. ASSUME Missed' PROVE ran'.ok = FALSE
        BY <4>1 DEF Went, Missed
      <4> QED
        BY <4>1, Zenon
    <3>2. Went' => ran'.ok
      <4>1. ASSUME Went' PROVE ran'.ok = TRUE
        BY <4>1 DEF Went, Missed
      <4> QED
        BY <4>1, Zenon
    <3> QED
      BY <3>1, <3>2
  <2> QED
    BY <2>1, <2>2
<1>7. Over' => (Over /\ ran' = ran) \/ (ran' = [job |-> Job, ok |-> FALSE] /\ PollGivesUp)
  BY SilentWire
<1>8. ran' = ran => Same
  BY <1>1, SameJob DEF Same
<1> QED
  BY <1>1, <1>2, <1>3, <1>4, <1>5, <1>6, <1>7, <1>8

LEMMA NotBoth == ~(Went' /\ Missed')
<1>1. Missed' => ~(ran'.ok)
  <2>1. ASSUME Missed' PROVE ran'.ok = FALSE
    BY <2>1 DEF Went, Missed
  <2> QED
    BY <2>1, Zenon
<1>2. Went' => ran'.ok
  <2>1. ASSUME Went' PROVE ran'.ok = TRUE
    BY <2>1 DEF Went, Missed
  <2> QED
    BY <2>1, Zenon
<1> QED
  BY <1>1, <1>2

LEMMA TransferEffect ==
    ASSUME McuTypeInv, Planned, Wire, Finish \/ Refused
    PROVE  /\ UNCHANGED <<todo, call, failed, memory, reply, time, pc>> /\ Job' = Job /\ active
           /\ Over' /\ ~half' /\ (Applied(regs) \/ UNCHANGED <<chips, data>>)
           /\ Finish => Went' /\ ~Missed' /\ Applied(regs) /\ lost' = lost
           /\ Refused => Missed' /\ ~Went' /\ lost' = lost + 1
  BY TransferIs, TransferWire, NotBoth

LEMMA AsideEffect ==
    ASSUME Wire, Aside
    PROVE  /\ UNCHANGED <<mcu, point, data, todo, call, failed, probed, trusted, dtb, lost, pc>>
           /\ Job' = Job /\ Over' = Over /\ Same
  BY AsideIs, AsideWire DEF Same

\* The calls leave what they read alone.
LEMMA BegunEffect ==
    ASSUME McuTypeInv, Wire, Begun
    PROVE  /\ pc = "idle" /\ pc' = "clear" /\ ~Over' /\ ~half' /\ failed' = FALSE
           /\ UNCHANGED <<mcu, chip, point, data, lost>>
           /\ call'.kind \in Kinds /\ Len(todo') = Runs(call'.kind) /\ CallTypes'
  BY BegunIs, BegunPlanned DEF Begun, chips, wires

-----------------------------------------------------------------------------
(* Failures are counted.                                                   *)

LEMMA CountedStep ==
    ASSUME McuTypeInv, Planned, Wire, Counted, McuNext
    PROVE  Counted'
<1>0. lost \in Nat
  BY DEF McuTypeInv
<1>1. CASE Silent
  <2>1. /\ UNCHANGED <<todo, call, failed>> /\ (lost' = lost \/ lost' = lost + 1)
        /\ Over' => (Over /\ Same) \/ (Missed' /\ ~Went' /\ lost' = lost + 1)
    BY <1>1, SilentEffect
  <2> QED
    BY <1>0, <2>1 DEF Counted, Same
<1>2. CASE Finish \/ Refused
  <2>1. /\ UNCHANGED <<todo, call, failed>> /\ (Finish => ~Missed' /\ lost' = lost)
        /\ (Refused => lost' = lost + 1)
    BY <1>2, TransferEffect
  <2> QED
    BY <1>0, <1>2, <2>1 DEF Counted
<1>3. CASE Aside
  <2>1. UNCHANGED <<todo, call, failed, lost>> /\ Over' = Over /\ Same
    BY <1>3, AsideEffect
  <2> QED
    BY <2>1 DEF Counted, Same
<1>4. CASE Calls
  <2>1. ~Over' /\ failed' = FALSE
    BY <1>4, CallsBegin, BegunEffect
  <2> QED
    BY <2>1 DEF Counted
<1>5. CASE RunSteps
  <2>1. /\ (Goes /\ failed' \in {failed, TRUE}) \/ Stops
        /\ RunFails => pc = "bad"
        /\ RunFails /\ Goes => call.kind = "settime" /\ Len(todo) = 2 /\ failed' = TRUE
        /\ RunEnds /\ Goes => failed' = failed
        /\ LastRunEnds => Stops /\ Len(todo) = 1
    BY <1>5, StepsAre
  <2>2. CASE Stops
    BY <2>2, StopsIs DEF Counted
  <2>3. CASE Goes
    <3>1. /\ Len(todo') = Len(todo) - 1 /\ Len(todo) \in 2 .. 5 /\ UNCHANGED <<call, lost>> /\ ~Over'
      BY <2>3, GoesIs
    <3>2. CASE RunFails
      <4>1. Over /\ Missed
        BY <2>1, <3>2 DEF Over, Wire
      <4>2. lost >= 1
        BY <1>0, <4>1 DEF Counted
      <4> QED
        BY <2>1, <2>3, <3>1, <3>2, <4>2 DEF Counted
    <3>3. CASE RunEnds
      BY <2>1, <2>3, <3>1, <3>3 DEF Counted
    <3> QED
      BY <1>5, <2>1, <3>1, <3>2, <3>3 DEF RunSteps
  <2> QED
    BY <2>1, <2>2, <2>3
<1> QED
  BY <1>1, <1>2, <1>3, <1>4, <1>5, NextParts

-----------------------------------------------------------------------------
(* A read gets what it points at.                                          *)

LEMMA PointedStep ==
    ASSUME McuTypeInv, Planned, Wire, Pointed, McuNext
    PROVE  Pointed'
<1>1. CASE Silent
  <2>1. /\ UNCHANGED <<point, todo, call>>
        /\ Over' => (Over /\ Same) \/ ~Went'
    BY <1>1, SilentEffect DEF chips
  <2> QED
    BY <2>1 DEF Pointed, Same
<1>2. CASE Finish \/ Refused
  <2>1. /\ UNCHANGED <<todo, call>> /\ active /\ (Applied(regs) \/ point' = point)
        /\ (Finish => Applied(regs)) /\ (Refused => ~Went')
    BY <1>2, TransferEffect DEF chips
  <2>2. Applied(regs) /\ call.kind \in Reads =>
          /\ Len(todo) \in {1, 3} => point' = point
          /\ Len(todo) = 2 => point'["mcu"] = "mux"
          /\ Len(todo) = 4 => point'["mcu"] = "device"
    BY <2>1, EffectOnReads
  <2> QED
    BY <1>2, <2>1, <2>2 DEF Pointed
<1>3. CASE Aside
  <2>1. UNCHANGED <<point, todo, call>> /\ Over' = Over /\ Same
    BY <1>3, AsideEffect
  <2> QED
    BY <2>1 DEF Pointed, Same
<1>4. CASE Calls
  <2>1. ~Over' /\ Len(todo') = Runs(call'.kind)
    BY <1>4, CallsBegin, BegunEffect
  <2> QED
    BY <2>1 DEF Pointed, Runs, Reads
<1>5. CASE RunSteps
  <2>1. /\ Goes \/ Stops
        /\ RunEnds => pc = "ok"
        /\ RunFails /\ Goes => call.kind = "settime"
        /\ LastRunEnds => Len(todo) = 1
    BY <1>5, StepsAre
  <2>2. CASE Stops
    BY <2>2, StopsIs DEF Pointed
  <2>3. CASE Goes
    <3>1. /\ Len(todo') = Len(todo) - 1 /\ Len(todo) \in 2 .. 5 /\ call' = call /\ ~Over'
          /\ point' = point
      BY <2>3, GoesIs DEF chips
    <3>2. CASE RunFails
      BY <2>1, <2>3, <3>1, <3>2 DEF Pointed, Reads
    <3>3. CASE RunEnds
      <4>1. Over /\ Went
        BY <2>1, <3>3 DEF Over, Wire
      <4> QED
        BY <3>1, <4>1 DEF Pointed
    <3> QED
      BY <1>5, <2>1, <3>1, <3>2, <3>3 DEF RunSteps
  <2> QED
    BY <2>1, <2>2, <2>3
<1> QED
  BY <1>1, <1>2, <1>3, <1>4, <1>5, NextParts

LEMMA FetchedStep ==
    ASSUME McuTypeInv, Planned, Wire, Fetched, McuNext
    PROVE  Fetched'
<1>1. CASE Silent
  <2>1. /\ UNCHANGED <<mcu, point, data, call>> /\ Job' = Job
        /\ Over' => (Over /\ Same) \/ ~Went'
    BY <1>1, SilentEffect DEF chips
  <2> QED
    BY <2>1 DEF Fetched, Same
<1>2. CASE Finish \/ Refused
  <2>1. /\ UNCHANGED <<todo, call>> /\ active /\ Job' = Job
        /\ (Finish => Applied(regs)) /\ (Refused => ~Went')
    BY <1>2, TransferEffect
  <2>2. ASSUME Applied(regs), call.kind \in Reads, Job = Fetch("mcu")
        PROVE  data' = mcu'[point'["mcu"]]
    <3>1. data' = mcu[point["mcu"]]
      BY <2>1, <2>2, EffectOnReads
    <3>2. regs = Job /\ regs.do = "fetch" /\ Forms(call, Len(todo), regs)
      BY <2>1, <2>2, OnWire, FetchIs DEF Slaves
    <3>3. Len(todo) \in {1, 3}
      BY <2>2, <3>2 DEF Forms
    <3>4. point' = point
      BY <2>1, <2>2, <3>3, EffectOnReads
    <3>5. mcu' = mcu
      BY <2>1, <2>2, <3>2, EffectOnMcu
    <3> QED
      BY <3>1, <3>4, <3>5
  <2> QED
    BY <1>2, <2>1, <2>2 DEF Fetched
<1>3. CASE Aside
  <2>1. UNCHANGED <<mcu, point, data, call>> /\ Job' = Job /\ Over' = Over /\ Same
    BY <1>3, AsideEffect
  <2> QED
    BY <2>1 DEF Fetched, Same
<1>4. CASE Calls
  <2>1. ~Over'
    BY <1>4, CallsBegin, BegunEffect
  <2> QED
    BY <2>1 DEF Fetched
<1>5. CASE RunSteps
  <2>1. ~Over'
    BY <1>5, StepsAre, GoesIs, StopsIs
  <2> QED
    BY <2>1 DEF Fetched
<1> QED
  BY <1>1, <1>2, <1>3, <1>4, <1>5, NextParts


-----------------------------------------------------------------------------
(* Trust.                                                                  *)

\* What the beginning of a call has asked for, and what it leaves behind.
Asked ==
    /\ trusted' = trusted /\ modes' = modes /\ dtb' = dtb
    /\ call'.kind \in {"write", "verify"} => trusted[call'.who]
    /\ call'.kind = "verify" => LaneResolved /\ step' = step
    /\ call'.kind = "mux" /\ call'.who = "mcudxe" => step' = "mirror"
    /\ call'.kind = "mux" /\ call'.who = "mux" => modes["mux"] = "unread" /\ trusted["mux"]
    /\ step' \in {"mux", "mirror"} => trusted["mcudxe"] \/ step \in {"mux", "mirror"}
    /\ step = "done" => step' = "done"
    /\ \A c \in Consumers : probed'[c] => probed[c] \/ (call'.kind = "probe" /\ call'.who = c)

LEMMA CallsAsk ==
    ASSUME McuTypeInv, Calls
    PROVE  Asked
<1>0. probed \in [Consumers -> BOOLEAN]
  BY DEF McuTypeInv
<1>1. CASE \E c \in Consumers : Probe(c)
  <2> PICK c \in Consumers : Probe(c)
    BY <1>1
  <2>1. /\ call'.kind = "probe" /\ call'.who = c
        /\ UNCHANGED <<trusted, modes, dtb>>
        /\ (c = "mcudxe" => step = "probe") /\ step' = IF c = "mcudxe" THEN "fan" ELSE step
    BY DEF Probe, Begin
  <2>2. \A d \in Consumers : probed'[d] => probed[d] \/ d = c
    <3>1. probed' = [probed EXCEPT ![c] = TRUE]
      BY DEF Probe
    <3> QED
      BY <1>0, <3>1
  <2> QED
    BY <2>1, <2>2 DEF Asked
<1>2. CASE ApplyFanPolicy
  BY <1>2 DEF ApplyFanPolicy, Begin, Asked, MayWrite
<1>3. CASE ReadLane
  BY <1>3 DEF ReadLane, Begin, Asked
<1>4. CASE MirrorMcuSettings
  BY <1>4 DEF MirrorMcuSettings, Begin, Asked
<1>5. CASE ResolveMux /\ trusted["mux"]
  BY <1>5 DEF ResolveMux, Begin, Asked, memory
<1>6. CASE SetBootMode
  BY <1>6 DEF SetBootMode, Begin, Asked, MayWrite, memory
<1>7. CASE ChangeSetting
  BY <1>7 DEF ChangeSetting, Begin, Asked, MayWrite, memory
<1>8. CASE RtcInitialize
  BY <1>8 DEF RtcInitialize, Begin, Asked, memory
<1>9. CASE SetTime
  BY <1>9 DEF SetTime, Begin, Asked, memory
<1> QED
  BY <1>1, <1>2, <1>3, <1>4, <1>5, <1>6, <1>7, <1>8, <1>9 DEF Calls

\* The list of a run that reads: the data of a fetch are the register pointed at.
LEMMA FetchedData ==
    ASSUME McuTypeInv, Planned, Wire, Pointed, Fetched, pc = "ok", call.kind \in Reads,
           Len(todo) = 1 \/ (Len(todo) = 3 /\ call.kind = "probe")
    PROVE  /\ Job = Fetch("mcu") /\ data = mcu[point["mcu"]]
           /\ Len(todo) = 1 => data = mcu["mux"]
           /\ Len(todo) = 3 => data = mcu["device"]
<1>1. /\ Len(todo) \in 1 .. Runs(call.kind) /\ Job = JobAt(call, Len(todo))
      /\ call \in CallSet /\ call.kind \in Kinds
  BY AtHead
<1>2. Forms(call, Len(todo), Job)
  BY <1>1, JobForms
<1>3. Job = Fetch("mcu")
  BY <1>2 DEF Forms
<1>4. Over /\ Went
  BY DEF Over, Wire
<1>5. data = mcu[point["mcu"]]
  BY <1>3, <1>4 DEF Fetched
<1>6. /\ Len(todo) = 1 => point["mcu"] = "mux"
      /\ Len(todo) = 3 => point["mcu"] = "device"
  BY DEF Pointed
<1> QED
  BY <1>3, <1>5, <1>6

\* A probe that goes on after it has read the identity has read this board's.
LEMMA ProbeGoesOn ==
    ASSUME McuTypeInv, Planned, Wire, Pointed, Fetched, RunEnds, Goes,
           call.kind = "probe", Len(todo) = 3
    PROVE  mcu["device"] = 1
<1>1. pc = "ok" /\ pc' = "clear"
  BY DEF RunEnds, Goes, Continue
<1>2. Job = Fetch("mcu") /\ data = mcu["device"]
  BY <1>1, FetchedData DEF Reads
<1>3. point["mcu"] = "device"
  BY DEF Pointed, Reads
<1>4. ASSUME data # 1 PROVE FALSE
  <2>1. Answer("untrusted")
    BY <1>2, <1>3, <1>4 DEF RunEnds
  <2> QED
    BY <1>1, <2>1 DEF Answer
<1> QED
  BY <1>2, <1>4

\* The end of a call: whom it trusts, and the registers it leaves alone.
LEMMA StopTrust ==
    ASSUME McuTypeInv, Planned, Wire, Earned, RunSteps, Stops
    PROVE  /\ probed' = probed /\ step' = step /\ mcu' = mcu
           /\ \A c \in Consumers :
                /\ trusted[c] => trusted'[c]
                /\ trusted'[c] => trusted[c] \/ mcu["device"] = 1
<1>0. trusted \in [Consumers -> BOOLEAN] /\ CallTypes
  BY DEF McuTypeInv
<1>1. pc' = "idle" /\ mcu' = mcu
  BY StopsIs DEF chips
<1>2. CASE RunEnds
  <2>1. ~Continue
    BY <1>1 DEF Continue
  <2> QED
    BY <1>1, <1>2, <2>1 DEF RunEnds, memory
<1>3. CASE RunFails
  <2>1. ~Continue
    BY <1>1 DEF Continue
  <2> QED
    BY <1>1, <1>3, <2>1 DEF RunFails
<1>4. CASE LastRunEnds
  <2>1. UNCHANGED <<probed, step>>
        /\ trusted' = IF call.kind = "probe" THEN [trusted EXCEPT ![call.who] = TRUE] ELSE trusted
    BY <1>4 DEF LastRunEnds
  <2>2. CASE call.kind = "probe"
    <3>1. Len(todo) = 1
      BY <1>4 DEF LastRunEnds
    <3>2. mcu["device"] = 1
      BY <2>2, <3>1 DEF Earned
    <3>3. \A c \in Consumers : trusted[c] => trusted'[c]
      BY <1>0, <2>1, <2>2
    <3> QED
      BY <1>1, <2>1, <3>2, <3>3
  <2>3. CASE call.kind # "probe"
    BY <1>1, <2>1, <2>3
  <2> QED
    BY <2>2, <2>3
<1> QED
  BY <1>2, <1>3, <1>4 DEF RunSteps

LEMMA EarnedStep ==
    ASSUME McuTypeInv, Planned, Wire, Pointed, Fetched, Earned, McuNext
    PROVE  Earned'
<1>1. CASE Silent
  <2>1. UNCHANGED <<mcu, trusted, todo, call>>
    BY <1>1, SilentEffect DEF chips, memory
  <2> QED
    BY <2>1 DEF Earned
<1>2. CASE Finish \/ Refused
  <2>1. UNCHANGED <<trusted, todo, call>> /\ active /\ (Applied(regs) \/ mcu' = mcu)
    BY <1>2, TransferEffect DEF chips, memory
  <2>2. mcu'["device"] = mcu["device"]
    BY <2>1, EffectOnMcu
  <2> QED
    BY <2>1, <2>2 DEF Earned
<1>3. CASE Aside
  <2>1. UNCHANGED <<mcu, trusted, todo, call>>
    BY <1>3, AsideEffect
  <2> QED
    BY <2>1 DEF Earned
<1>4. CASE Calls
  <2>1. mcu' = mcu /\ Len(todo') = Runs(call'.kind)
    BY <1>4, CallsBegin, BegunEffect
  <2>2. trusted' = trusted /\ (call'.kind \in {"write", "verify"} => trusted[call'.who])
    BY <1>4, CallsAsk DEF Asked
  <2> QED
    BY <2>1, <2>2 DEF Earned, Runs
<1>5. CASE RunSteps
  <2>1. /\ Goes \/ Stops
        /\ RunFails /\ Goes => call.kind = "settime"
        /\ LastRunEnds => Len(todo) = 1
    BY <1>5, StepsAre
  <2>2. CASE Stops
    <3>1. call'.kind \notin {"write", "verify", "probe"}
      BY <2>2, StopsIs
    <3>2. mcu' = mcu /\ \A c \in Consumers : trusted'[c] => trusted[c] \/ mcu["device"] = 1
      BY <1>5, <2>2, StopTrust
    <3> QED
      BY <3>1, <3>2 DEF Earned
  <2>3. CASE Goes
    <3>1. /\ Len(todo') = Len(todo) - 1 /\ Len(todo) \in 2 .. 5 /\ call' = call
          /\ mcu' = mcu /\ trusted' = trusted
      BY <2>3, GoesIs DEF chips, memory
    <3>2. CASE RunFails
      BY <2>1, <2>3, <3>1, <3>2 DEF Earned
    <3>3. CASE RunEnds
      <4>1. call.kind = "probe" /\ Len(todo) = 3 => mcu["device"] = 1
        BY <2>3, <3>3, ProbeGoesOn
      <4> QED
        BY <3>1, <4>1 DEF Earned
    <3> QED
      BY <1>5, <2>1, <3>1, <3>2, <3>3 DEF RunSteps
  <2> QED
    BY <2>1, <2>2, <2>3
<1> QED
  BY <1>1, <1>2, <1>3, <1>4, <1>5, NextParts


-----------------------------------------------------------------------------
(* The lane.                                                               *)

LEMMA InTurnStep ==
    ASSUME McuTypeInv, Planned, Wire, Earned, InTurn, McuNext
    PROVE  InTurn'
<1>1. CASE Silent \/ Finish \/ Refused
  <2>1. UNCHANGED <<trusted, step, modes, call>>
    <3>1. CASE Silent
      BY <3>1, SilentEffect DEF memory
    <3>2. CASE Finish \/ Refused
      BY <3>2, TransferEffect DEF memory
    <3> QED
      BY <1>1, <3>1, <3>2
  <2> QED
    BY <2>1 DEF InTurn, LaneResolved
<1>2. CASE Aside
  <2>1. trusted' = trusted /\ call' = call /\ pc' = pc
    BY <1>2, AsideEffect
  <2>2. CASE pc = "idle"
    <3>1. call.kind = "none"
      BY <2>2 DEF Planned
    <3>2. step' = step \/ step' = "done"
      BY <1>2 DEF Aside, LandsFirstByte, Tick, EntryUntrusted, ResolveMux, memory
    <3> QED
      BY <2>1, <3>1, <3>2 DEF InTurn
  <2>3. CASE pc # "idle"
    <3>1. UNCHANGED <<step, modes>>
      BY <1>2, <2>3 DEF Aside, LandsFirstByte, Tick, EntryUntrusted, ResolveMux, memory
    <3> QED
      BY <2>1, <3>1 DEF InTurn, LaneResolved
  <2> QED
    BY <2>2, <2>3
<1>3. CASE Calls
  <2>1. Asked
    BY <1>3, CallsAsk
  <2> QED
    BY <2>1 DEF Asked, InTurn, LaneResolved
<1>4. CASE RunSteps
  <2>1. Goes \/ Stops
    BY <1>4, StepsAre
  <2>2. CASE Stops
    <3>1. call'.kind \notin {"verify", "mux"} /\ step' = step /\ (trusted["mcudxe"] => trusted'["mcudxe"])
      BY <1>4, <2>2, StopsIs, StopTrust DEF Consumers
    <3> QED
      BY <3>1 DEF InTurn
  <2>3. CASE Goes
    <3>1. UNCHANGED <<trusted, step, modes, call>>
      BY <2>3, GoesIs DEF memory
    <3> QED
      BY <3>1 DEF InTurn, LaneResolved
  <2> QED
    BY <2>1, <2>2, <2>3
<1> QED
  BY <1>1, <1>2, <1>3, <1>4, NextParts

\* The beginning of a call, as the entry point's own order has it.
LEMMA CallsInOrder ==
    ASSUME McuTypeInv, Calls
    PROVE  /\ pc = "idle" /\ modes' = modes /\ \A c \in Consumers : probed[c] => probed'[c]
           /\ step' \in {"probe", "fan", "mux"} => step \in {"probe", "fan", "mux"}
           /\ step' = "fan" => step = "fan" \/ probed'["mcudxe"]
           /\ call'.kind = "mux" /\ call'.who = "mcudxe" => step = "mux"
           /\ step' = "mirror" => step = "mirror" \/ (call'.kind = "mux" /\ call'.who = "mcudxe")
           /\ step' = "done" => step \in {"mirror", "done"}
<1>0. probed \in [Consumers -> BOOLEAN]
  BY DEF McuTypeInv
<1>1. CASE \E c \in Consumers : Probe(c)
  <2> PICK c \in Consumers : Probe(c)
    BY <1>1
  <2>1. /\ pc = "idle" /\ call'.kind = "probe" /\ modes' = modes
        /\ (c = "mcudxe" => step = "probe") /\ step' = IF c = "mcudxe" THEN "fan" ELSE step
    BY DEF Probe, Begin
  <2>2. probed' = [probed EXCEPT ![c] = TRUE]
    BY DEF Probe
  <2>3. (\A d \in Consumers : probed[d] => probed'[d]) /\ probed'[c]
    BY <1>0, <2>2
  <2> QED
    BY <2>1, <2>3
<1>2. CASE ApplyFanPolicy
  BY <1>2 DEF ApplyFanPolicy, Begin
<1>3. CASE ReadLane
  BY <1>3 DEF ReadLane, Begin
<1>4. CASE MirrorMcuSettings
  BY <1>4 DEF MirrorMcuSettings, Begin
<1>5. CASE ResolveMux /\ trusted["mux"]
  BY <1>5 DEF ResolveMux, Begin, memory
<1>6. CASE SetBootMode
  BY <1>6 DEF SetBootMode, Begin, memory
<1>7. CASE ChangeSetting
  BY <1>7 DEF ChangeSetting, Begin, memory
<1>8. CASE RtcInitialize
  BY <1>8 DEF RtcInitialize, Begin, memory
<1>9. CASE SetTime
  BY <1>9 DEF SetTime, Begin, memory
<1> QED
  BY <1>1, <1>2, <1>3, <1>4, <1>5, <1>6, <1>7, <1>8, <1>9 DEF Calls

\* A call that ends has the mode it asked for, whatever its run gave.
LEMMA StopReads ==
    ASSUME McuTypeInv, Wire, RunSteps, Stops
    PROVE  /\ call.kind = "mux" /\ call.who = "mcudxe" => modes'["mcudxe"] \in {"usb3", "pcie"}
           /\ ~(call.kind = "mux" /\ call.who = "mcudxe") => modes'["mcudxe"] = modes["mcudxe"]
<1>0. modes \in [{"mcudxe", "mux"} -> {"unread", "usb3", "pcie"}]
      /\ (call.kind = "mux" => call.who \in {"mcudxe", "mux"})
  BY DEF McuTypeInv, CallTypes
<1>1. pc' = "idle" /\ ~Continue
  BY StopsIs DEF Continue
<1>2. CASE RunEnds
  BY <1>1, <1>2 DEF RunEnds, memory
<1>3. CASE RunFails
  <2>1. modes' = IF call.kind = "mux" THEN [modes EXCEPT ![call.who] = "usb3"] ELSE modes
    BY <1>1, <1>3 DEF RunFails
  <2> QED
    BY <1>0, <2>1
<1>4. CASE LastRunEnds
  <2>1. modes' = IF call.kind = "mux"
                   THEN [modes EXCEPT ![call.who] = IF data = 1 THEN "pcie" ELSE "usb3"]
                   ELSE modes
    BY <1>4 DEF LastRunEnds
  <2> QED
    BY <1>0, <2>1
<1> QED
  BY <1>2, <1>3, <1>4 DEF RunSteps

LEMMA InOrderStep ==
    ASSUME McuTypeInv, Planned, Wire, Earned, InTurn, InOrder, McuNext
    PROVE  /\ InOrder'
           /\ modes["mcudxe"] # "unread" => modes'["mcudxe"] = modes["mcudxe"]
<1>0. modes \in [{"mcudxe", "mux"} -> {"unread", "usb3", "pcie"}]
  BY DEF McuTypeInv
<1>1. CASE Silent \/ Finish \/ Refused
  <2>1. UNCHANGED <<probed, step, modes, call>>
    <3>1. CASE Silent
      BY <3>1, SilentEffect DEF memory
    <3>2. CASE Finish \/ Refused
      BY <3>2, TransferEffect DEF memory
    <3> QED
      BY <1>1, <3>1, <3>2
  <2> QED
    BY <2>1 DEF InOrder
<1>2. CASE Aside
  <2>1. probed' = probed /\ call' = call /\ pc' = pc
    BY <1>2, AsideEffect
  <2>2. CASE LandsFirstByte \/ Tick
    <3>1. UNCHANGED <<step, modes>>
      BY <2>2 DEF LandsFirstByte, Tick, memory
    <3> QED
      BY <2>1, <3>1 DEF InOrder
  <2>3. CASE EntryUntrusted
    <3>1. step = "fan" /\ pc = "idle" /\ step' = "done" /\ modes' = [modes EXCEPT !["mcudxe"] = "usb3"]
      BY <2>3 DEF EntryUntrusted
    <3>2. modes["mcudxe"] = "unread" /\ modes'["mcudxe"] = "usb3"
      BY <1>0, <3>1 DEF InOrder
    <3>3. call.kind = "none"
      BY <3>1 DEF Planned
    <3> QED
      BY <2>1, <3>1, <3>2, <3>3 DEF InOrder
  <2>4. CASE ResolveMux /\ ~trusted["mux"]
    <3>1. step' = step /\ modes' = [modes EXCEPT !["mux"] = "usb3"]
      BY <2>4 DEF ResolveMux
    <3>2. modes'["mcudxe"] = modes["mcudxe"]
      BY <1>0, <3>1
    <3> QED
      BY <2>1, <3>1, <3>2 DEF InOrder
  <2> QED
    BY <1>2, <2>2, <2>3, <2>4 DEF Aside
<1>3. CASE Calls
  <2>1. call.kind = "none"
    BY <1>3, CallsInOrder DEF Planned
  <2> QED
    BY <1>3, <2>1, CallsInOrder DEF InOrder, Consumers
<1>4. CASE RunSteps
  <2>1. Goes \/ Stops
    BY <1>4, StepsAre
  <2>2. CASE Stops
    <3>1. call'.kind # "mux" /\ step' = step /\ probed' = probed
      BY <1>4, <2>2, StopsIs, StopTrust
    <3>2. CASE call.kind = "mux" /\ call.who = "mcudxe"
      <4>1. modes["mcudxe"] = "unread" /\ modes'["mcudxe"] \in {"usb3", "pcie"} /\ step = "mirror"
        BY <1>4, <2>2, <3>2, StopReads DEF InOrder, InTurn
      <4> QED
        BY <3>1, <4>1 DEF InOrder
    <3>3. CASE ~(call.kind = "mux" /\ call.who = "mcudxe")
      <4>1. modes'["mcudxe"] = modes["mcudxe"]
        BY <1>4, <2>2, <3>3, StopReads
      <4> QED
        BY <3>1, <3>3, <4>1 DEF InOrder
    <3> QED
      BY <3>2, <3>3
  <2>3. CASE Goes
    <3>1. UNCHANGED <<probed, step, modes, call>>
      BY <2>3, GoesIs DEF memory
    <3> QED
      BY <3>1 DEF InOrder
  <2> QED
    BY <2>1, <2>2, <2>3
<1> QED
  BY <1>1, <1>2, <1>3, <1>4, NextParts

\* The end of a call: what becomes of the lane.
LEMMA StopLane ==
    ASSUME McuTypeInv, Planned, Wire, Counted, Pointed, Fetched, RunSteps, Stops, lost = 0
    PROVE  \/ /\ modes' = modes /\ dtb' = dtb
              /\ RunEnds \/ call.kind # "mux"
           \/ /\ LastRunEnds /\ call.kind = "mux" /\ call.who \in {"mcudxe", "mux"}
              /\ modes' = [modes EXCEPT ![call.who] = IF mcu["mux"] = 1 THEN "pcie" ELSE "usb3"]
              /\ dtb' # dtb => call.who = "mcudxe" /\ mcu["mux"] = 1
<1>1. pc' = "idle" /\ ~Continue
  BY StopsIs DEF Continue
<1>2. CASE RunEnds
  BY <1>1, <1>2 DEF RunEnds, memory
<1>3. CASE RunFails
  <2>1. Over /\ Missed
    BY <1>3 DEF RunFails, Over, Wire
  <2>2. lost >= 1
    BY <2>1 DEF Counted, McuTypeInv
  <2> QED
    BY <2>2
<1>4. CASE LastRunEnds
  <2>1. /\ pc = "ok" /\ Len(todo) = 1
        /\ modes' = IF call.kind = "mux"
                      THEN [modes EXCEPT ![call.who] = IF data = 1 THEN "pcie" ELSE "usb3"]
                      ELSE modes
        /\ dtb' \in IF call.kind = "mux" /\ call.who = "mcudxe" /\ data = 1
                     THEN PatchPublishedDtb ELSE {dtb}
    BY <1>4 DEF LastRunEnds
  <2>2. call.kind = "mux" => data = mcu["mux"]
    BY <2>1, FetchedData DEF Reads
  <2>3. call.kind = "mux" => call.who \in {"mcudxe", "mux"}
    BY DEF McuTypeInv, CallTypes
  <2>4. CASE call.kind = "mux"
    BY <1>4, <2>1, <2>2, <2>3, <2>4
  <2>5. CASE call.kind # "mux"
    BY <2>1, <2>5
  <2> QED
    BY <2>4, <2>5
<1> QED
  BY <1>2, <1>3, <1>4 DEF RunSteps

\* Every consumer that has looked and does not trust the board has a reason.
Reasons ==
    \A c \in Consumers :
        probed[c] /\ ~trusted[c] /\ ~(call.kind = "probe" /\ call.who = c) =>
            mcu["device"] # 1
Lane ==
    /\ FirmwareAndOsAgree
    /\ modes["mux"] # "unread" /\ modes["mcudxe"] = "unread" =>
         (modes["mux"] = "pcie" <=> PcieBoard)
    /\ modes["mcudxe"] # "unread" /\ modes["mux"] = "unread" =>
         (modes["mcudxe"] = "pcie" <=> PcieBoard)

LEMMA LaneKept ==
    ASSUME Lane, modes'["mux"] = modes["mux"], modes'["mcudxe"] = modes["mcudxe"],
           PcieBoard' <=> PcieBoard
    PROVE  Lane'
BY DEF Lane, FirmwareAndOsAgree
LEMMA LaneRead ==
    ASSUME Lane, NEW m \in {"mux", "mcudxe"}, modes[m] = "unread",
           \A o \in {"mux", "mcudxe"} \ {m} : modes'[o] = modes[o],
           modes'[m] = IF PcieBoard THEN "pcie" ELSE "usb3",
           modes["mux"] \in {"unread", "usb3", "pcie"}, modes["mcudxe"] \in {"unread", "usb3", "pcie"},
           PcieBoard' <=> PcieBoard
    PROVE  Lane'
<1>1. CASE m = "mux"
  BY <1>1 DEF Lane, FirmwareAndOsAgree
<1>2. CASE m = "mcudxe"
  BY <1>2 DEF Lane, FirmwareAndOsAgree
<1> QED BY <1>1, <1>2

LEMMA AgreedParts == /\ Agreed <=> (lost = 0 => Lane /\ Reasons)
                     /\ Agreed' <=> (lost' = 0 => Lane' /\ Reasons')
  BY DEF Agreed, Lane, Reasons

LEMMA AgreedStep ==
    ASSUME McuTypeInv, Planned, Wire, Counted, Pointed, Fetched, Earned, InTurn, InOrder,
           Agreed, McuNext
    PROVE  Agreed'
<1> SUFFICES ASSUME lost' = 0 PROVE Lane' /\ Reasons'
  BY AgreedParts
<1>0. lost \in Nat /\ probed \in [Consumers -> BOOLEAN]
      /\ modes \in [{"mcudxe", "mux"} -> {"unread", "usb3", "pcie"}]
  BY DEF McuTypeInv
<1>1. CASE Silent
  <2>1. UNCHANGED <<mcu, probed, trusted, step, modes, dtb, call>> /\ (lost' = lost \/ lost' = lost + 1)
    BY <1>1, SilentEffect DEF chips, memory
  <2>2. lost = 0
    BY <1>0, <2>1
  <2>3. Lane /\ Reasons
    BY <2>2, AgreedParts
  <2>4. Lane'
    BY <2>1, <2>3, LaneKept DEF PcieBoard
  <2>5. Reasons'
    BY <2>1, <2>3 DEF Reasons
  <2> QED
    BY <2>4, <2>5
<1>2. CASE Finish \/ Refused
  <2>1. /\ UNCHANGED <<probed, trusted, step, modes, dtb, call>> /\ active
        /\ (Applied(regs) \/ mcu' = mcu) /\ (lost' = lost \/ lost' = lost + 1)
    BY <1>2, TransferEffect DEF chips, memory
  <2>2. lost = 0
    BY <1>0, <2>1
  <2>3. Lane /\ Reasons
    BY <2>2, AgreedParts
  <2>4. mcu'["device"] = mcu["device"] /\ (call.kind # "verify" => mcu'["mux"] = mcu["mux"])
    BY <2>1, EffectOnMcu
  <2>5. Reasons'
    BY <2>1, <2>3, <2>4 DEF Reasons
  <2>6. CASE call.kind = "verify"
    <3>1. modes["mux"] # "unread" /\ step = "done"
      BY <2>6 DEF InTurn, LaneResolved
    <3>2. modes["mcudxe"] # "unread"
      BY <3>1 DEF InOrder
    <3> QED
      BY <2>1, <2>3, <2>5, <3>1, <3>2 DEF Lane, FirmwareAndOsAgree
  <2>7. CASE call.kind # "verify"
    BY <2>1, <2>3, <2>4, <2>5, <2>7, LaneKept DEF PcieBoard
  <2> QED
    BY <2>6, <2>7
<1>3. CASE Aside
  <2>1. UNCHANGED <<mcu, probed, trusted, dtb, call, lost, pc>>
    BY <1>3, AsideEffect
  <2>2. Lane /\ Reasons
    BY <2>1, AgreedParts
  <2>3. Reasons'
    BY <2>1, <2>2 DEF Reasons
  <2>4. CASE LandsFirstByte \/ Tick
    <3>1. UNCHANGED <<step, modes>>
      BY <2>4 DEF LandsFirstByte, Tick, memory
    <3> QED
      BY <2>1, <2>2, <2>3, <3>1, LaneKept DEF PcieBoard
  <2>5. CASE EntryUntrusted
    <3>1. /\ step = "fan" /\ pc = "idle" /\ ~trusted["mcudxe"]
          /\ modes' = [modes EXCEPT !["mcudxe"] = "usb3"]
      BY <2>5 DEF EntryUntrusted
    <3>2. modes["mcudxe"] = "unread" /\ probed["mcudxe"]
      BY <3>1 DEF InOrder
    <3>3. call.kind = "none"
      BY <3>1 DEF Planned
    <3>4. mcu["device"] # 1
      BY <2>2, <3>1, <3>2, <3>3 DEF Reasons, Consumers
    <3>5. ~PcieBoard /\ ~PcieBoard'
      BY <2>1, <3>4 DEF PcieBoard
    <3>6. modes'["mux"] = modes["mux"] /\ modes'["mcudxe"] = "usb3"
      BY <1>0, <3>1
    <3>7. Lane'
      BY <1>0, <2>2, <3>2, <3>5, <3>6, LaneRead
    <3> QED
      BY <2>3, <3>7
  <2>6. CASE ResolveMux /\ ~trusted["mux"]
    <3>1. /\ modes["mux"] = "unread" /\ probed["mux"] /\ pc = "idle"
          /\ modes' = [modes EXCEPT !["mux"] = "usb3"]
      BY <2>6 DEF ResolveMux
    <3>2. call.kind = "none"
      BY <3>1 DEF Planned
    <3>3. mcu["device"] # 1
      BY <2>2, <2>6, <3>1, <3>2 DEF Reasons, Consumers
    <3>4. ~PcieBoard /\ ~PcieBoard'
      BY <2>1, <3>3 DEF PcieBoard
    <3>5. modes'["mux"] = "usb3" /\ modes'["mcudxe"] = modes["mcudxe"]
      BY <1>0, <3>1
    <3>6. Lane'
      BY <1>0, <2>2, <3>1, <3>4, <3>5, LaneRead
    <3> QED
      BY <2>3, <3>6
  <2> QED
    BY <1>3, <2>4, <2>5, <2>6 DEF Aside
<1>4. CASE Calls
  <2>1. Asked /\ mcu' = mcu /\ lost' = lost /\ pc = "idle"
    BY <1>4, CallsAsk, CallsBegin, BegunEffect
  <2>2. Lane /\ Reasons /\ call.kind = "none"
    BY <2>1, AgreedParts DEF Planned
  <2>3. Reasons'
    BY <2>1, <2>2 DEF Reasons, Asked
  <2> QED
    BY <2>1, <2>2, <2>3, LaneKept DEF Asked, PcieBoard
<1>5. CASE RunSteps
  <2>1. /\ Goes \/ Stops
        /\ LastRunEnds => Len(todo) = 1 /\ pc = "ok"
        /\ RunFails => pc = "bad"
        /\ RunEnds => pc = "ok" /\ Len(todo) > 1
    BY <1>5, StepsAre
  <2>2. CASE Goes
    <3>1. UNCHANGED <<mcu, probed, trusted, step, modes, dtb, call, lost>>
      BY <2>2, GoesIs DEF chips, memory
    <3>2. Lane /\ Reasons
      BY <3>1, AgreedParts
    <3>3. Lane'
      BY <3>1, <3>2, LaneKept DEF PcieBoard
    <3>4. Reasons'
      BY <3>1, <3>2 DEF Reasons
    <3> QED
      BY <3>3, <3>4
  <2>3. CASE Stops
    <3>1. /\ probed' = probed /\ step' = step /\ mcu' = mcu /\ lost' = lost
          /\ \A c \in Consumers : trusted[c] => trusted'[c]
      BY <1>5, <2>3, StopTrust, StopsIs
    <3>2. Lane /\ Reasons
      BY <3>1, AgreedParts
    <3>3. Reasons'
      <4> SUFFICES ASSUME NEW c \in Consumers, probed[c], ~trusted'[c] PROVE mcu["device"] # 1
        BY <3>1 DEF Reasons
      <4>1. ~trusted[c]
        BY <3>1
      <4>2. CASE call.kind = "probe" /\ call.who = c
        <5>1. ~RunFails
          <6>1. RunFails => Over /\ Missed
            BY <2>1 DEF Over, Wire
          <6> QED
            BY <1>0, <3>1, <6>1 DEF Counted
        <5>2. ~LastRunEnds
          <6>1. LastRunEnds => trusted' = [trusted EXCEPT ![c] = TRUE]
            BY <4>2 DEF LastRunEnds
          <6>2. trusted \in [Consumers -> BOOLEAN]
            BY DEF McuTypeInv
          <6> QED
            BY <6>1, <6>2
        <5>3. RunEnds /\ pc' = "idle"
          BY <1>5, <2>3, <5>1, <5>2, StopsIs DEF RunSteps
        <5>4. Job = Fetch("mcu") /\ point["mcu"] = "device" /\ data # 1
          BY <5>3 DEF RunEnds, Continue
        <5>5. Over /\ Went
          BY <2>1, <5>3 DEF Over, Wire
        <5>6. data = mcu["device"]
          BY <4>2, <5>4, <5>5 DEF Fetched, Reads
        <5> QED
          BY <5>4, <5>6
      <4>3. CASE ~(call.kind = "probe" /\ call.who = c)
        BY <3>2, <4>1, <4>3 DEF Reasons
      <4> QED
        BY <4>2, <4>3
    <3>4. Lane'
      <4>1. CASE modes' = modes /\ dtb' = dtb
        BY <3>1, <3>2, <4>1, LaneKept DEF PcieBoard
      <4>2. CASE /\ LastRunEnds /\ call.kind = "mux" /\ call.who \in {"mcudxe", "mux"}
                 /\ modes' = [modes EXCEPT ![call.who] = IF mcu["mux"] = 1 THEN "pcie" ELSE "usb3"]
        <5> DEFINE m == call.who
        <5>1. modes[m] = "unread"
          BY <4>2 DEF InTurn, InOrder
        <5>2. mcu["device"] = 1
          <6>1. trusted[m] /\ m \in Consumers
            BY <4>2 DEF InTurn, Consumers
          <6> QED
            BY <6>1 DEF Earned
        <5>3. /\ modes'[m] = IF PcieBoard THEN "pcie" ELSE "usb3"
              /\ \A o \in {"mux", "mcudxe"} \ {m} : modes'[o] = modes[o]
          BY <1>0, <4>2, <5>2 DEF PcieBoard
        <5>4. PcieBoard' <=> PcieBoard
          BY <3>1 DEF PcieBoard
        <5>5. m \in {"mux", "mcudxe"}
          BY <4>2
        <5>6. modes["mux"] \in {"unread", "usb3", "pcie"} /\ modes["mcudxe"] \in {"unread", "usb3", "pcie"}
          BY <1>0
        <5> HIDE DEF m
        <5> QED
          BY <3>2, <5>1, <5>3, <5>4, <5>5, <5>6, LaneRead
      <4> QED
        BY <1>5, <2>3, <3>1, <4>1, <4>2, StopLane
    <3> QED
      BY <3>3, <3>4
  <2> QED
    BY <2>1, <2>2, <2>3
<1> QED
  BY <1>1, <1>2, <1>3, <1>4, <1>5, NextParts

\* The device tree is patched in the order that never shows the lane twice.
LEMMA PatchStep ==
    ASSUME McuTypeInv, Planned, Wire, Earned, InTurn, InOrder, Patched, McuNext
    PROVE  Patched'
<1>1. CASE dtb' = dtb
  <2>1. /\ dtb'.pcie => ~dtb'.usb3
        /\ ~dtb'.usb3 => modes["mcudxe"] = "pcie"
    BY <1>1 DEF Patched
  <2>2. modes["mcudxe"] = "pcie" => modes'["mcudxe"] = "pcie"
    BY InOrderStep
  <2> QED
    BY <2>1, <2>2 DEF Patched
<1>2. CASE LastRunEnds /\ dtb' # dtb
  <2>1. /\ dtb' \in PatchPublishedDtb /\ call.kind = "mux" /\ call.who = "mcudxe" /\ data = 1
        /\ modes' = [modes EXCEPT !["mcudxe"] = "pcie"]
    BY <1>2 DEF LastRunEnds
  <2>2. dtb \in [usb3 : BOOLEAN, pcie : BOOLEAN]
        /\ modes \in [{"mcudxe", "mux"} -> {"unread", "usb3", "pcie"}]
    BY DEF McuTypeInv
  <2>3. dtb' = [dtb EXCEPT !.usb3 = FALSE] \/ dtb' = [usb3 |-> FALSE, pcie |-> TRUE]
    BY <1>2, <2>1 DEF PatchPublishedDtb
  <2>4. dtb'.usb3 = FALSE
    BY <2>2, <2>3
  <2>5. modes'["mcudxe"] = "pcie"
    BY <2>1, <2>2
  <2> QED
    BY <2>4, <2>5, Zenon DEF Patched
<1>3. ~LastRunEnds => dtb' = dtb
  <2>1. CASE Silent
    BY <2>1, SilentIs DEF memory
  <2>2. CASE Finish \/ Refused
    BY <2>2, TransferIs DEF memory
  <2>3. CASE Aside
    BY <2>3, AsideIs
  <2>4. CASE Calls
    BY <2>4, CallsAsk DEF Asked
  <2>5. CASE RunEnds \/ RunFails
    BY <2>5 DEF RunEnds, RunFails, Continue, memory
  <2> QED
    BY <2>1, <2>2, <2>3, <2>4, <2>5, NextParts DEF RunSteps
<1> QED
  BY <1>1, <1>2, <1>3


-----------------------------------------------------------------------------
(* The chip in LibSetTime.                                                 *)

\* Whose turn it is in LibSetTime, and what a step of another kind leaves alone.
LEMMA QuietClock ==
    ASSUME Halting, Releasing, UNCHANGED <<chip, todo, call, failed, ticked>>, half' => half,
           Over' => (Over /\ Same) \/ ~Went'
    PROVE  Halting' /\ Releasing'
  BY DEF Halting, Releasing, Same

LEMMA NotSetTime ==
    ASSUME call'.kind # "settime"
    PROVE  Halting' /\ Releasing'
  BY DEF Halting, Releasing

LEMMA ClockTransfer ==
    ASSUME McuTypeInv, Planned, Wire, Halting, Releasing, Finish \/ Refused
    PROVE  Halting' /\ Releasing'
<1>1. /\ UNCHANGED <<todo, call, failed, ticked>> /\ active /\ ~half'
      /\ (Applied(regs) \/ chip' = chip)
      /\ Finish => Applied(regs)
      /\ Refused => ~Went'
  BY TransferEffect DEF chips, time
<1>2. CASE call.kind = "settime"
  <2>1. call.val \in Times /\ ChipType /\ Forms(call, Len(todo), regs)
    BY <1>1, <1>2, OnWire, TypeParts DEF CallTypes
  <2>2. Applied(regs) =>
          /\ Len(todo) \in {1, 3} => chip'.hi = chip.hi /\ chip'.lo = chip.lo
          /\ Len(todo) = 1 => ~chip'.stop
          /\ Len(todo) = 2 => /\ chip'.hi = call.val[1] /\ chip'.lo = chip.lo
                              /\ chip'.stop = chip.stop
          /\ Len(todo) = 3 => chip'.stop
    BY <1>1, <1>2, EffectOnChip
  <2>3. Len(todo) = 2 => chip'.stop
    <3>1. ASSUME Len(todo) = 2 PROVE chip'.stop = chip.stop
      BY <1>1, <2>2, <3>1
    <3> QED
      BY <1>2, <3>1, Zenon DEF Halting
  <2>4. Len(todo) = 3 /\ Went' => chip'.stop
    BY <1>1, <2>2
  <2>5. Len(todo) = 2 /\ Went' => Time(chip)' = call.val
    <3> SUFFICES ASSUME Len(todo) = 2, Went' PROVE Time(chip)' = call.val
      OBVIOUS
    <3>1. Finish /\ Applied(regs)
      BY <1>1
    <3>2. regs.do = "put" /\ regs.reg = "time"
      BY <1>2, <2>1 DEF Forms
    <3>3. half
      BY <3>1, <3>2 DEF Finish
    <3>4. chip.lo = call.val[2]
      BY <1>2, <3>3 DEF Halting
    <3>5. chip'.hi = call.val[1] /\ chip'.lo = call.val[2]
      BY <2>2, <3>1, <3>4
    <3> QED
      BY <2>1, <3>5 DEF Time, Times
  <2>6. Halting'
    BY <1>1, <2>3, <2>4, <2>5 DEF Halting
  <2>7. Len(todo) = 1 /\ Went' => ~chip'.stop
    BY <1>1, <2>2
  <2>8. ASSUME Len(todo) = 1 PROVE Time(chip)' = Time(chip) /\ (~chip.stop => ~chip'.stop)
    BY <1>1, <2>2, <2>8 DEF Time
  <2>9. Releasing'
    BY <1>1, <2>7, <2>8 DEF Releasing
  <2> QED
    BY <2>6, <2>9
<1>3. CASE call.kind # "settime"
  BY <1>1, <1>3, NotSetTime
<1> QED
  BY <1>2, <1>3

LEMMA ClockLands ==
    ASSUME McuTypeInv, Planned, Wire, Halting, Releasing, LandsFirstByte
    PROVE  Halting' /\ Releasing'
<1>1. /\ UNCHANGED <<todo, call, failed, ticked>> /\ Over' = Over /\ Same /\ active
      /\ chip' = [chip EXCEPT !.lo = regs.val[2], !.vl = FALSE]
      /\ regs.do = "put" /\ regs.slave = "rtc" /\ regs.reg = "time"
  BY AsideEffect DEF LandsFirstByte, Aside, time
<1>2. Forms(call, Len(todo), regs) /\ ChipType
  BY <1>1, OnWire, TypeParts
<1>3. call.kind = "settime" /\ Len(todo) = 2 /\ regs.val = call.val
  BY <1>1, <1>2 DEF Forms
<1>4. chip'.lo = call.val[2] /\ chip'.stop = chip.stop
  BY <1>1, <1>2, <1>3 DEF ChipType
<1>5. chip.stop
  BY <1>3 DEF Halting
<1>6. chip'.stop
  BY <1>4, <1>5, Zenon
<1>7. ~Over
  BY <1>1 DEF Over, Wire
<1>8. Halting'
  BY <1>1, <1>3, <1>4, <1>6, <1>7 DEF Halting
<1>9. Releasing'
  BY <1>1, <1>3 DEF Releasing
<1> QED
  BY <1>8, <1>9

LEMMA ClockTicks ==
    ASSUME McuTypeInv, Planned, Wire, Halting, Releasing, Tick
    PROVE  Halting' /\ Releasing'
<1>1. /\ UNCHANGED <<todo, call, failed>> /\ Over' = Over /\ Same /\ half' = half
      /\ ~ticked /\ (ticked' <=> pc # "idle")
      /\ chip.stop => chip' = chip
      /\ ~chip.stop => chip' = [chip EXCEPT !.hi = Later(Time(chip), 1)[1],
                                            !.lo = Later(Time(chip), 1)[2]]
  BY AsideEffect, AsideIs DEF Tick, Aside, LandsFirstByte, wires
<1>2. ChipType
  BY TypeParts
<1>3. CASE call.kind = "settime"
  <2>0. ticked'
    BY <1>1, <1>3 DEF Planned
  <2>1. CASE chip.stop
    <3>1. chip' = chip
      BY <1>1, <2>1
    <3>2. Halting'
      BY <1>1, <3>1 DEF Halting, Same
    <3>3. Releasing'
      BY <1>1, <1>3, <2>1, <3>1 DEF Releasing, Same
    <3> QED
      BY <3>2, <3>3
  <2>2. CASE ~chip.stop
    <3>1. Len(todo) # 2 /\ ~(Len(todo) = 3 /\ Over /\ Went)
      BY <1>3, <2>2 DEF Halting
    <3>2. Halting'
      BY <1>1, <3>1 DEF Halting, Same
    <3>3. Time(chip) \in Times
      BY <1>2 DEF ChipType, Time, Times
    <3>4. Later(Time(chip), 1) = <<Later(Time(chip), 1)[1], Later(Time(chip), 1)[2]>>
      BY <3>3, LaterIs
    <3>5. chip'.stop = chip.stop /\ chip'.hi = Later(Time(chip), 1)[1]
          /\ chip'.lo = Later(Time(chip), 1)[2]
      BY <1>1, <1>2, <2>2 DEF ChipType
    <3>6. Time(chip)' = Later(Time(chip), 1)
      BY <3>4, <3>5 DEF Time
    <3>7. ~chip'.stop
      BY <2>2, <3>5, Zenon
    <3>8. Len(todo) = 1 /\ ~failed => Time(chip) = call.val
      BY <1>1, <1>3 DEF Releasing
    <3>9. Releasing'
      BY <1>1, <2>0, <3>6, <3>7, <3>8 DEF Releasing
    <3> QED
      BY <3>2, <3>9
  <2> QED
    BY <2>1, <2>2
<1>4. CASE call.kind # "settime"
  BY <1>1, <1>4, NotSetTime
<1> QED
  BY <1>3, <1>4

LEMMA OneLess == \A a : \A b \in 2 .. 5 : a = b - 1 => (a = 1 => b = 2)
  OBVIOUS

LEMMA ClockStep ==
    ASSUME McuTypeInv, Planned, Wire, Halting, Releasing, McuNext
    PROVE  Halting' /\ Releasing'
<1>1. CASE Silent
  <2>1. /\ UNCHANGED <<chip, todo, call, failed, ticked>> /\ (half' => half)
        /\ (Over' => (Over /\ Same) \/ ~Went')
    BY <1>1, SilentEffect DEF chips, time
  <2> QED
    BY <2>1, QuietClock
<1>2. CASE Finish \/ Refused
  BY <1>2, ClockTransfer
<1>3. CASE Aside
  <2>1. CASE LandsFirstByte
    BY <2>1, ClockLands
  <2>2. CASE Tick
    BY <2>2, ClockTicks
  <2>3. CASE EntryUntrusted \/ (ResolveMux /\ ~trusted["mux"])
    <3>1. pc = "idle" /\ call' = call
      BY <2>3 DEF EntryUntrusted, ResolveMux
    <3>2. call'.kind # "settime"
      BY <3>1 DEF Planned
    <3> QED
      BY <3>2, NotSetTime
  <2> QED
    BY <1>3, <2>1, <2>2, <2>3 DEF Aside
<1>4. CASE Calls
  <2>1. Len(todo') = Runs(call'.kind)
    BY <1>4, CallsBegin, BegunEffect
  <2> QED
    BY <2>1 DEF Halting, Releasing, Runs
<1>5. CASE RunSteps
  <2>1. /\ Goes \/ Stops
        /\ RunFails /\ Goes => call.kind = "settime" /\ Len(todo) = 2 /\ failed' = TRUE
        /\ RunEnds => pc = "ok"
        /\ LastRunEnds => Len(todo) = 1
    BY <1>5, StepsAre
  <2>2. CASE Stops
    BY <2>2, StopsIs, NotSetTime
  <2>3. CASE Goes
    <3>1. /\ Len(todo') = Len(todo) - 1 /\ Len(todo) \in 2 .. 5
          /\ call' = call /\ chip' = chip /\ ~Over' /\ ~half'
      BY <2>3, GoesIs DEF chips
    <3>2. CASE RunFails
      BY <2>1, <2>3, <3>1, <3>2 DEF Halting, Releasing
    <3>3. CASE RunEnds
      <4>1. Over /\ Went
        BY <2>1, <3>3 DEF Over, Wire
      <4>2. call.kind = "settime" /\ Len(todo) = 3 => chip.stop
        BY <4>1 DEF Halting
      <4>3. call.kind = "settime" /\ Len(todo) = 2 => Time(chip) = call.val
        BY <4>1 DEF Halting
      <4>4. Time(chip)' = Time(chip)
        BY <3>1 DEF Time
      <4>5. Halting'
        BY <3>1, <4>2 DEF Halting
      <4>6. Releasing'
        <5>1. call'.kind = "settime" /\ Len(todo') = 1 => Time(chip)' = call'.val
          <6>1. Len(todo') = 1 => Len(todo) = 2
            <7>1. Len(todo') = Len(todo) - 1 /\ Len(todo) \in 2 .. 5
              BY <3>1
            <7> QED
              BY <7>1, OneLess, Zenon
          <6>2. call' = call
            BY <3>1
          <6> QED
            BY <4>3, <4>4, <6>1, <6>2
        <5> QED
          BY <3>1, <5>1 DEF Releasing
      <4> QED
        BY <4>5, <4>6
    <3> QED
      BY <1>5, <2>1, <3>1, <3>2, <3>3 DEF RunSteps
  <2> QED
    BY <2>1, <2>2, <2>3
<1> QED
  BY <1>1, <1>2, <1>3, <1>4, <1>5, NextParts


-----------------------------------------------------------------------------
(* The invariant.                                                          *)

LEMMA RestedStep ==
    ASSUME McuTypeInv, Planned, Wire, Rested, McuNext
    PROVE  Rested'
<1>1. CASE Silent
  BY <1>1, SilentEffect DEF Rested
<1>2. CASE Finish \/ Refused
  <2>1. UNCHANGED <<pc, todo>>
    BY <1>2, TransferEffect
  <2> QED
    BY <2>1 DEF Rested
<1>3. CASE Aside
  <2>1. UNCHANGED <<pc, todo>>
    BY <1>3, AsideEffect
  <2> QED
    BY <2>1 DEF Rested
<1>4. CASE Calls
  BY <1>4, CallsBegin, BegunEffect DEF Rested
<1>5. CASE RunSteps
  <2>1. Goes \/ Stops
    BY <1>5, StepsAre
  <2>2. CASE Goes
    BY <2>2, GoesIs DEF Rested
  <2>3. CASE Stops
    BY <2>3 DEF Stops, Answer, Rested
  <2> QED
    BY <2>1, <2>2, <2>3
<1> QED
  BY <1>1, <1>2, <1>3, <1>4, <1>5, NextParts

LEMMA McuInvInit ==
    ASSUME McuInit
    PROVE  McuInv
<1>1. /\ pc = "idle" /\ call = NoCall /\ todo = <<>> /\ failed = FALSE
      /\ armed = FALSE /\ active = FALSE /\ half = FALSE
      /\ modes = [mcudxe |-> "unread", mux |-> "unread"] /\ step = "probe"
      /\ lost = 0 /\ ticks = 0 /\ ticked = FALSE
  BY DEF McuInit
<1>2. /\ call \in CallSet /\ call.kind = "none" /\ call.kind \notin Kinds /\ call.kind \notin Reads
      /\ call.kind \notin {"settime", "write", "verify", "probe", "mux"}
  BY <1>1, IdleCall
<1>3. CallTypes
  BY <1>2 DEF CallTypes
<1>4. McuTypeInv
  <2>1. McuType
    <3>1. mcu \in [Registers -> {0, 1}]
      BY DEF McuInit
    <3> QED
      BY <3>1 DEF McuType, McuVals
  <2>2. ChipType
    BY DEF McuInit, ChipType
  <2>3. PointType
    <3>1. point = [mcu |-> "mux", rtc |-> "time"]
      BY DEF McuInit
    <3>2. "mux" \in Places /\ "time" \in Places
      BY DEF Places, Registers
    <3>3. point \in [{"mcu", "rtc"} -> Places]
      BY <3>1, <3>2
    <3> QED
      BY <3>3 DEF PointType, Slaves
  <2>4. MemoryType
    <3>1. probed = [c \in Consumers |-> FALSE] /\ trusted = probed /\ dtb = [usb3 |-> TRUE, pcie |-> FALSE]
      BY DEF McuInit
    <3>2. probed \in [Consumers -> BOOLEAN] /\ trusted \in [Consumers -> BOOLEAN]
      BY <3>1
    <3>3. dtb \in [usb3 : BOOLEAN, pcie : BOOLEAN]
      BY <3>1, Zenon
    <3>4. modes \in [{"mcudxe", "mux"} -> {"unread", "usb3", "pcie"}]
      BY <1>1
    <3> QED
      BY <1>1, <3>2, <3>3, <3>4 DEF MemoryType
  <2>5. WireType
    <3>1. start \in BOOLEAN
      BY DEF McuInit
    <3> QED
      BY <1>1, <3>1 DEF WireType
  <2>6. TodoType
    <3>1. todo \in Seq(Jobs)
      BY <1>1
    <3> QED
      BY <1>1, <3>1 DEF TodoType
  <2> QED
    BY <1>3, <2>1, <2>2, <2>3, <2>4, <2>5, <2>6, TypeParts
<1>5. Planned /\ Rested
  BY <1>1, <1>2 DEF Planned, Rested
<1>6. ~Over /\ Wire
  BY <1>1 DEF Wire, Over
<1>7. Counted /\ Pointed /\ Fetched
  BY <1>1, <1>2, <1>6 DEF Counted, Pointed, Fetched
<1>8. \A c \in Consumers : ~trusted[c] /\ ~probed[c]
  BY DEF McuInit
<1>9. Earned
  BY <1>2, <1>8 DEF Earned
<1>10. Patched
  <2>1. dtb = [usb3 |-> TRUE, pcie |-> FALSE]
    BY DEF McuInit
  <2>2. dtb.pcie = FALSE /\ dtb.usb3 = TRUE
    BY <2>1
  <2> QED
    BY <2>2, Zenon DEF Patched
<1>11. modes["mux"] = "unread" /\ modes["mcudxe"] = "unread"
  BY <1>1
<1>12. InTurn /\ InOrder
  BY <1>1, <1>2, <1>11 DEF InTurn, InOrder
<1>13. Lane
  BY <1>11 DEF Lane, FirmwareAndOsAgree
<1>14. Reasons
  BY <1>8 DEF Reasons
<1>15. Agreed
  BY <1>13, <1>14, AgreedParts
<1>16. Halting /\ Releasing
  BY <1>2 DEF Halting, Releasing
<1> QED
  BY <1>4, <1>5, <1>6, <1>7, <1>9, <1>10, <1>12, <1>15, <1>16 DEF McuInv, BusInv, LaneInv, ClockInv

LEMMA McuInvStep ==
    ASSUME McuInv, McuNext
    PROVE  McuInv'
<1>1. /\ McuTypeInv /\ Planned /\ Wire /\ Counted /\ Pointed /\ Fetched /\ Earned /\ Rested
      /\ InTurn /\ InOrder /\ Agreed /\ Patched /\ Halting /\ Releasing
  BY DEF McuInv, BusInv, LaneInv, ClockInv
<1>2. McuTypeInv' /\ Planned' /\ Wire' /\ Rested'
  BY <1>1, TypeStep, WireStep, RestedStep
<1>3. Counted' /\ Pointed' /\ Fetched' /\ Earned'
  BY <1>1, CountedStep, PointedStep, FetchedStep, EarnedStep
<1>4. InTurn' /\ InOrder' /\ Agreed' /\ Patched'
  BY <1>1, InTurnStep, InOrderStep, AgreedStep, PatchStep
<1>5. Halting' /\ Releasing'
  BY <1>1, ClockStep
<1> QED
  BY <1>2, <1>3, <1>4, <1>5 DEF McuInv, BusInv, LaneInv, ClockInv

LEMMA McuInvStutter ==
    ASSUME McuInv, UNCHANGED mcuVars
    PROVE  McuInv'
<1>1. /\ McuTypeInv /\ Planned /\ Wire /\ Counted /\ Pointed /\ Fetched /\ Earned /\ Rested
      /\ InTurn /\ InOrder /\ Agreed /\ Patched /\ Halting /\ Releasing
  BY DEF McuInv, BusInv, LaneInv, ClockInv
<1>2. /\ UNCHANGED <<mcu, chip, point, regs, start, armed, active, half, ran, data, pc, todo>>
      /\ UNCHANGED <<call, failed, probed, trusted, modes, step, dtb, ticked, ticks, lost>>
  BY DEF mcuVars, chips, wires, memory, time
<1>3. McuTypeInv' /\ Rested' /\ Planned'
  BY <1>1, <1>2 DEF McuTypeInv, CallTypes, Rested, Planned
<1>4. Job' = Job /\ Over' = Over /\ Went' = Went /\ Missed' = Missed
  BY <1>2 DEF Job, Over, Went, Missed
<1>5. Wire' /\ Counted' /\ Pointed' /\ Fetched' /\ Earned'
  BY <1>1, <1>2, <1>4 DEF Wire, Counted, Pointed, Fetched, Earned
<1>6. InTurn' /\ InOrder' /\ Agreed' /\ Patched'
  BY <1>1, <1>2 DEF InTurn, InOrder, LaneResolved, Agreed, PcieBoard, FirmwareAndOsAgree, Patched
<1>7. Halting' /\ Releasing'
  BY <1>1, <1>2, <1>4 DEF Halting, Releasing
<1> QED
  BY <1>1, <1>2, <1>3, <1>5, <1>6, <1>7 DEF McuInv, BusInv, LaneInv, ClockInv

\* The bus, the lane and the clock are, in every reachable state, as the
\* invariant says, whichever transactions fail and whenever the seconds turn.
THEOREM McuInvariant == McuSpec => []McuInv
<1>1. McuInv /\ [McuNext]_mcuVars => McuInv'
  BY McuInvStep, McuInvStutter
<1> QED
  BY <1>1, McuInvInit, PTL DEF McuSpec

-----------------------------------------------------------------------------
(* The properties.                                                         *)

LEMMA HonestBus ==
    ASSUME McuInv
    PROVE  BusHonest
<1>1. McuTypeInv /\ Planned /\ Wire /\ Earned /\ Rested
  BY DEF McuInv, BusInv
<1>2. SuccessWasOnWire
  BY <1>1 DEF Wire, Went, SuccessWasOnWire
<1>3. OnlyTrustedWrites
  <2> SUFFICES ASSUME NEW i \in 1 .. Len(todo), todo[i].do = "put", todo[i].slave = "mcu"
               PROVE  /\ mcu["device"] = 1 /\ trusted[call.who]
                      /\ todo[i].reg \in McuRegisterWritable
    BY DEF OnlyTrustedWrites
  <2>1. CASE pc = "idle"
    <3>1. Len(todo) = 0
      BY <1>1, <2>1 DEF Rested
    <3> QED
      BY <3>1
  <2>2. CASE pc # "idle"
    <3>1. /\ Len(todo) \in 1 .. Runs(call.kind) /\ call \in CallSet /\ call.kind \in Kinds
      BY <1>1, <2>2, AtHead
    <3> DEFINE m == Len(todo) + 1 - i
    <3>2. m \in 1 .. Runs(call.kind)
      BY <3>1 DEF Runs
    <3>3. todo[i] = JobAt(call, m)
      BY <1>1, <2>2 DEF Planned
    <3>4. Forms(call, m, todo[i])
      BY <3>1, <3>2, <3>3, JobForms
    <3>5. call.kind \in {"write", "verify"} /\ todo[i].reg = call.reg
      BY <3>4 DEF Forms
    <3>6. call.reg \in McuRegisterWritable /\ call.who \in Consumers
      BY <1>1, <3>5 DEF McuTypeInv, CallTypes
    <3> QED
      BY <1>1, <3>5, <3>6 DEF Earned
  <2> QED
    BY <2>1, <2>2
<1> QED
  BY <1>2, <1>3 DEF BusHonest

\* What I2cRun reports to have gone over the wire did, to the slave it names,
\* and nobody's write reaches an MCU that has not proved, to that consumer, to
\* be this board's; none goes to a register outside Vim3McuLib's whitelist.
THEOREM BusIsHonest == McuSpec => []BusHonest
  BY McuInvariant, HonestBus, PTL

LEMMA OwnedLane ==
    ASSUME McuInv
    PROVE  LaneHasOneOwner
<1>1. Agreed /\ Patched
  BY DEF McuInv, BusInv, LaneInv
<1>2. lost = 0 => FirmwareAndOsAgree
  BY <1>1 DEF Agreed
<1> QED
  BY <1>1, <1>2 DEF Patched, LaneHasOneOwner

\* The OS is never handed a device tree that enables the PCIe port beside the
\* USB3 PHY, whatever fails, and the PHY is taken from USB only by a reader that
\* chose PCIe; without a failed transaction the firmware's reader chooses as the
\* one that patches the tree.  That the tree then gives the lane to PCIe is not
\* promised: the patch itself may fail.
THEOREM LaneIsOwnedOnce == McuSpec => []LaneHasOneOwner
  BY McuInvariant, OwnedLane, PTL

LEMMA SurvivingClock ==
    ASSUME McuInv, McuNext, call.kind = "settime", call'.kind = "none"
    PROVE  /\ chip'.stop => Job.reg # "time" /\ lost > (IF failed THEN 1 ELSE 0)
           /\ (reply' = "ok" /\ ~chip'.stop) =>
                Time(chip)' \in {soft', Later(soft', 1)}
<1>1. McuTypeInv /\ Planned /\ Wire /\ Counted /\ Halting /\ Releasing
  BY DEF McuInv, BusInv, ClockInv
<1>2. RunSteps
  <2>1. ~Silent
    BY <1>1, SilentEffect
  <2>2. ~(Finish \/ Refused)
    BY <1>1, TransferEffect
  <2>3. ~Aside
    BY <1>1, AsideEffect
  <2>4. ~Calls
    BY <1>1, CallsBegin, BegunEffect DEF Kinds
  <2> QED
    BY <2>1, <2>2, <2>3, <2>4, NextParts
<1>3. Stops /\ ~Continue
  <2>1. ~Goes
    BY <1>1, GoesIs
  <2>2. Stops
    BY <1>1, <1>2, <2>1, StepsAre
  <2>3. pc' = "idle"
    BY <1>1, <2>2, StopsIs
  <2> QED
    BY <2>2, <2>3 DEF Continue
<1>4. chip' = chip /\ Time(chip)' = Time(chip)
  BY <1>1, <1>3, StopsIs DEF chips, Time
<1>5. lost \in Nat
  BY <1>1 DEF McuTypeInv
<1>6. CASE RunEnds
  BY <1>3, <1>6 DEF RunEnds
<1>7. CASE RunFails
  <2>1. pc = "bad" /\ ~ReleaseStop
    BY <1>3, <1>7 DEF RunFails
  <2>2. Job.reg # "time"
    BY <2>1 DEF ReleaseStop
  <2>3. Over /\ Missed
    BY <1>1, <2>1 DEF Over, Wire
  <2>4. lost > (IF failed THEN 1 ELSE 0)
    BY <1>1, <1>5, <2>3 DEF Counted
  <2>5. ASSUME reply' = "ok", ~chip'.stop
        PROVE  Time(chip)' \in {soft', Later(soft', 1)}
    <3>1. Answer(IF call.kind = "settime" /\ Len(todo) = 1 /\ ~failed THEN "ok" ELSE "error")
      BY <1>7, <2>1 DEF RunFails
    <3>2. Len(todo) = 1 /\ ~failed
      BY <2>5, <3>1 DEF Answer
    <3>3. soft' = call.val
      BY <1>7, <2>1, <3>2 DEF RunFails
    <3>4. Time(chip) = call.val \/ Time(chip) = Later(call.val, 1)
      BY <1>1, <3>2 DEF Releasing
    <3> QED
      BY <1>4, <3>3, <3>4
  <2> QED
    BY <2>2, <2>4, <2>5
<1>8. CASE LastRunEnds
  <2>1. pc = "ok" /\ Len(todo) = 1 /\ Answer(IF failed THEN "error" ELSE "ok")
    BY <1>8 DEF LastRunEnds
  <2>2. Over /\ Went
    BY <1>1, <2>1 DEF Over, Wire
  <2>3. ~chip.stop
    BY <1>1, <2>1, <2>2 DEF Releasing
  <2>4. ~chip'.stop
    BY <1>4, <2>3
  <2>5. ASSUME reply' = "ok" PROVE Time(chip)' \in {soft', Later(soft', 1)}
    <3>1. ~failed
      BY <2>1, <2>5 DEF Answer
    <3>2. soft' = call.val
      BY <1>8, <3>1 DEF LastRunEnds
    <3>3. Time(chip) = call.val \/ Time(chip) = Later(call.val, 1)
      BY <1>1, <2>1, <3>1 DEF Releasing
    <3> QED
      BY <1>4, <3>2, <3>3
  <2> QED
    BY <2>4, <2>5
<1> QED
  BY <1>2, <1>6, <1>7, <1>8 DEF RunSteps

\* LibSetTime leaves the chip halted only when its control register could not be
\* reached, never for a lost time write; a chip that took the time goes on from
\* it, at most a second ahead of the software clock.
THEOREM ClockIsKept == McuSpec => ClockSurvives
<1> DEFINE over == call.kind = "settime" /\ call'.kind = "none"
           kept == over => /\ chip'.stop => Job.reg # "time" /\ lost > (IF failed THEN 1 ELSE 0)
                           /\ (reply' = "ok" /\ ~chip'.stop) =>
                                Time(chip)' \in {soft', Later(soft', 1)}
<1>1. McuInv /\ [McuNext]_mcuVars => [kept]_mcuVars
  BY SurvivingClock
<1>2. McuSpec => [][kept]_mcuVars
  BY <1>1, McuInvariant, PTL DEF McuSpec
<1> QED
  BY <1>2 DEF ClockSurvives

=============================================================================
