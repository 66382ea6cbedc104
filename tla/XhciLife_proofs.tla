-------------------------- MODULE XhciLife_proofs ---------------------------
(* What TLAPS proves of the life of one controller for any number of slots,   *)
(* root ports and schedules: its registers and its monitor only ever lead to  *)
(* memory that is still allocated, everything is given back once, and no port *)
(* call takes more from PORTSC than it was asked to.  The second half is the  *)
(* allocator behind that memory, for any pool, any sizes and any boundary:    *)
(* its search of a block, its lists and its pages.                            *)
EXTENDS XhciLife, HcMem, SequenceTheorems, WellFoundedInduction, TLAPS

-----------------------------------------------------------------------------
(* Types.                                                                     *)

\* The steps at which no schedule is built, and at which one is.
Unbuilt == {"off", "create", "take", "shut", "sched", "left"}
Built   == {"run", "timer", "event", "install", "up", "slots", "events", "halt", "free", "os"}

Controllers == [run : {"halted", "halting", "running"}, hse : BOOLEAN,
                regs : [Registers -> Nat], slots : SUBSET Slots, bios : BOOLEAN]
Contexts    == [Enabled : BOOLEAN, port : Ports \cup {NoPort}, pool : Nat]
Instances   == [id : Nat, pool : Nat, ctx : [Slots -> Contexts], urbs : SUBSET Slots,
                timer : {"none", "created", "armed"}]
PortStates  == [ccs : BOOLEAN, ped : BOOLEAN, pr : BOOLEAN, chg : SUBSET ChangeBits]
PortCallsT  == [op : {"reset", "waiting", "disable", "clear", "status"}, port : Ports,
                seen : PortStates, todo : SUBSET ChangeBits,
                latch : SUBSET [bit : ChangeBits, state : PortStates]]

TypeInv ==
  /\ step \in Unbuilt \cup Built
  /\ pci \in [open : BOOLEAN, enabled : BOOLEAN]
  /\ hc \in Controllers
  /\ xhc \in Instances
  /\ exit \subseteq Nat /\ orphans \subseteq Nat
  /\ live \subseteq Nat /\ built \in Nat
  /\ port \in [Ports -> PortStates]
  /\ call = NoCall \/ call \in PortCallsT
  /\ misfreed \in BOOLEAN /\ debug \in BOOLEAN

\* The failures after which the controller may walk memory of nobody.
Lost == {"halt timed out", "reset timed out", "start failed late"}

\* Memory follows the step: a schedule is allocated exactly while the instance
\* has one, the controller is pointed at it before it is set running, and it
\* is halted, or given up on, before the schedule goes.
Owned ==
  /\ step \in Unbuilt => xhc = NewInstance(xhc.id) /\ live = {}
  /\ step \in Built => xhc.pool # 0 /\ live = {xhc.pool}
  /\ step \in {"sched", "run"} => hc.run = "halted"
  /\ hc.run # "halted" /\ broke \cap Lost = {} => step \in Built \ {"free", "os"}
  /\ step \in Built =>
       (\A r \in Registers : hc.regs[r] = xhc.pool) \/ "reset timed out" \in broke
  /\ xhc.timer = "armed" => step \in Built \ {"halt", "free"}
  /\ step = "off" => ~pci.open /\ ~pci.enabled

\* An instance goes by the number of the schedule it is about to build, so no
\* event of an earlier one bears its name; an event that is not an orphan is
\* that of the instance in memory, and is there from its creation to Stop.
EventsNamed ==
  /\ \A e \in exit \cup orphans : 0 < e /\ e <= built
  /\ step \in {"take", "sched"} => xhc.id = built + 1
  /\ step \in Built => 0 < xhc.id /\ xhc.id <= built /\ xhc.id \notin orphans
  /\ step \notin Built \cup {"take", "sched"} => xhc.id = 0
  /\ exit \ orphans \subseteq {xhc.id}
  /\ xhc.id \in exit => step \in {"install", "up", "slots", "events", "os"}

\* A slot context belongs to the schedule in use unless the controller was
\* reset over it, and what the controller still knows was set up since.
SlotsOwned ==
  /\ \A s \in Slots :
       xhc.ctx[s].Enabled => xhc.ctx[s].pool = xhc.pool \/ "reset over devices" \in broke
  /\ \A s \in xhc.urbs : xhc.ctx[s].pool = xhc.pool \/ "reset over devices" \in broke
  /\ \A s \in hc.slots : xhc.ctx[s].Enabled => xhc.ctx[s].pool = xhc.pool
  /\ ~misfreed

\* A port call lasts only while the controller is up, and what it has read it
\* read for a bit it is to clear.
CallHeld ==
  call # NoCall => step = "up" /\ \A l \in call.latch : l.bit \in call.todo

-----------------------------------------------------------------------------
(* What the register operations may do to the controller.                     *)

LEMMA HaltOutcomes ==
  ASSUME NEW h \in Controllers, NEW r \in HaltHC(h)
  PROVE  /\ r.hc \in Controllers /\ ~r.hcrst
         /\ r.hc.regs = h.regs /\ r.hc.slots = h.slots
         /\ r.ok => r.hc.run = "halted"
         /\ ~r.ok => h.run # "halted"
         /\ r.ok \in BOOLEAN
<1>1. CASE r = Outcome([h EXCEPT !.run = "halted"], TRUE)
  BY <1>1 DEF Outcome, Controllers
<1>2. CASE r = Outcome([h EXCEPT !.run = "halting"], FALSE) /\ h.run # "halted"
  BY <1>2 DEF Outcome, Controllers
<1> QED BY <1>1, <1>2 DEF HaltHC

LEMMA RunOutcomes ==
  ASSUME NEW h \in Controllers, NEW r \in RunHC(h)
  PROVE  /\ r.hc \in Controllers
         /\ r.hc.regs = h.regs /\ r.hc.slots = h.slots
BY DEF RunHC, Outcome, Controllers

LEMMA ResetOutcomes ==
  ASSUME NEW h \in Controllers, NEW r \in ResetHC(h)
  PROVE  /\ r.hc \in Controllers
         /\ r.ok => r.hc.run = "halted" /\ (debug \/ r.hc.slots = {})
         /\ r.hc.slots \subseteq h.slots
         /\ r.hc.run # "halted" => h.run # "halted" /\ r.hc.regs = h.regs
<1>1. ASSUME NEW g \in Controllers, g.run = "halted", g.slots = h.slots, r \in HardReset(g)
      PROVE  /\ r.hc \in Controllers /\ r.hc.run = "halted"
             /\ r.ok => debug \/ r.hc.slots = {}
             /\ r.hc.slots \subseteq h.slots
  <2>1. /\ Reset(g) \in Controllers /\ Reset(g).run = "halted" /\ Reset(g).slots = {}
    BY DEF Reset, Controllers, Unset
  <2>2. \/ r = Outcome(g, TRUE) /\ debug
        \/ r = Outcome(g, FALSE)
        \/ \E ok \in BOOLEAN : r = [hc |-> Reset(g), ok |-> ok, hcrst |-> TRUE]
    BY <1>1 DEF HardReset
  <2>3. CASE r = Outcome(g, TRUE) /\ debug
    BY <1>1, <2>3 DEF Outcome
  <2>4. CASE r = Outcome(g, FALSE)
    BY <1>1, <2>4 DEF Outcome
  <2>5. CASE \E ok \in BOOLEAN : r = [hc |-> Reset(g), ok |-> ok, hcrst |-> TRUE]
    BY <2>1, <2>5
  <2> QED BY <2>2, <2>3, <2>4, <2>5
<1>2. PICK t \in IF h.run = "halted" THEN {Outcome(h, TRUE)} ELSE HaltHC(h) :
        r \in IF t.ok THEN HardReset(t.hc) ELSE {t}
  BY DEF ResetHC
<1>3. /\ t.hc \in Controllers /\ t.hc.slots = h.slots /\ t.hc.regs = h.regs
      /\ t.ok => t.hc.run = "halted"
      /\ ~t.ok => h.run # "halted"
  <2>1. CASE h.run = "halted"
    BY <1>2, <2>1 DEF Outcome
  <2>2. CASE h.run # "halted"
    BY <1>2, <2>2, HaltOutcomes
  <2> QED BY <2>1, <2>2
<1>4. CASE t.ok
  BY <1>1, <1>2, <1>3, <1>4
<1>5. CASE ~t.ok
  BY <1>2, <1>3, <1>5
<1> QED BY <1>4, <1>5

\* XhcReset halts the controller before it calls XhcResetHC.
LEMMA XhcResetOutcomes ==
  ASSUME NEW h \in Controllers,
         NEW r \in UNION {IF t.ok THEN ResetHC(t.hc) ELSE {t} : t \in HaltedForReset(h)}
  PROVE  /\ r.hc \in Controllers
         /\ r.ok => r.hc.run = "halted" /\ (debug \/ r.hc.slots = {})
         /\ r.hc.slots \subseteq h.slots
         /\ r.hc.run # "halted" => h.run # "halted" /\ r.hc.regs = h.regs
<1>1. PICK t \in HaltedForReset(h) : r \in IF t.ok THEN ResetHC(t.hc) ELSE {t}
  OBVIOUS
<1>2. /\ t.hc \in Controllers /\ t.hc.slots = h.slots /\ t.hc.regs = h.regs
      /\ t.ok => t.hc.run = "halted"
      /\ ~t.ok => h.run # "halted"
  <2>1. CASE h.run = "halted"
    BY <1>1, <2>1 DEF Outcome, HaltedForReset
  <2>2. CASE h.run # "halted"
    BY <1>1, <2>2, HaltOutcomes DEF HaltedForReset
  <2> QED BY <2>1, <2>2
<1>3. CASE t.ok
  BY <1>1, <1>2, <1>3, ResetOutcomes
<1>4. CASE ~t.ok
  BY <1>1, <1>2, <1>4
<1> QED BY <1>3, <1>4

\* A new schedule is what every register and the instance then point into.
LEMMA SchedMade ==
  ASSUME NEW h \in Controllers, NEW x \in Instances, NEW n \in Nat
  PROVE  /\ InitSched(h, x, n).hc \in Controllers /\ InitSched(h, x, n).xhc \in Instances
         /\ InitSched(h, x, n).hc.run = h.run /\ InitSched(h, x, n).hc.slots = h.slots
         /\ \A r \in Registers : InitSched(h, x, n).hc.regs[r] = n
         /\ InitSched(h, x, n).xhc = [x EXCEPT !.pool = n]
<1> DEFINE regs == CreateEventRing([h.regs EXCEPT !["DCBAAP"] = n, !["CRCR"] = n], n)
<1>1. regs \in [Registers -> Nat] /\ \A r \in Registers : regs[r] = n
  BY DEF Controllers, CreateEventRing, Registers
<1>2. InitSched(h, x, n).hc = [h EXCEPT !.regs = regs]
      /\ InitSched(h, x, n).xhc = [x EXCEPT !.pool = n]
  BY DEF InitSched
<1> HIDE DEF regs
<1>3. [h EXCEPT !.regs = regs] \in Controllers /\ [h EXCEPT !.regs = regs].run = h.run
      /\ [h EXCEPT !.regs = regs].slots = h.slots /\ [h EXCEPT !.regs = regs].regs = regs
  BY <1>1 DEF Controllers
<1>4. [x EXCEPT !.pool = n] \in Instances
  BY DEF Instances
<1> QED BY <1>1, <1>2, <1>3, <1>4

LEMMA PortsAfterType ==
  ASSUME port \in [Ports -> PortStates], NEW r
  PROVE  PortsAfter(r) \in [Ports -> PortStates]
<1>1. "CSC" \in ChangeBits
  BY BitsAssumption DEF BitsAssumption
<1>2. \A p \in Ports : [ccs |-> port[p].ccs, ped |-> FALSE, pr |-> FALSE,
                        chg |-> {b \in {"CSC"} : port[p].ccs}] \in PortStates
  BY <1>1 DEF PortStates
<1> QED BY <1>2 DEF PortsAfter

LEMMA NewInstanceType ==
  /\ \A n \in Nat : NewInstance(n) \in Instances /\ NewInstance(n).id = n
  /\ NoInstance \in Instances /\ NoInstance = NewInstance(NoInstance.id) /\ NoInstance.id = 0
  /\ NoInstance.timer = "none" /\ \A n : NewInstance(n).timer = "none"
BY DEF NewInstance, NoInstance, Instances, NoSlots, Contexts

LEMMA DisabledType ==
  ASSUME NEW x \in Instances, NEW gone
  PROVE  /\ Disabled(x, gone) \in Instances
         /\ Disabled(x, gone).pool = x.pool /\ Disabled(x, gone).urbs = x.urbs
         /\ Disabled(x, gone).timer = x.timer /\ Disabled(x, gone).id = x.id
         /\ \A s \in Slots : /\ Disabled(x, gone).ctx[s].pool = x.ctx[s].pool
                             /\ Disabled(x, gone).ctx[s].Enabled <=> x.ctx[s].Enabled /\ s \notin gone
<1> DEFINE c == [s \in Slots |-> IF s \in gone THEN [x.ctx[s] EXCEPT !.Enabled = FALSE] ELSE x.ctx[s]]
<1>1. /\ c \in [Slots -> Contexts]
      /\ \A s \in Slots : /\ c[s].pool = x.ctx[s].pool
                          /\ c[s].Enabled <=> x.ctx[s].Enabled /\ s \notin gone
  BY DEF Instances, Contexts
<1>2. Disabled(x, gone) = [x EXCEPT !.ctx = c]
  BY DEF Disabled, Instances
<1> HIDE DEF c
<1>3. /\ [x EXCEPT !.ctx = c] \in Instances /\ [x EXCEPT !.ctx = c].ctx = c
      /\ [x EXCEPT !.ctx = c].pool = x.pool /\ [x EXCEPT !.ctx = c].urbs = x.urbs
      /\ [x EXCEPT !.ctx = c].timer = x.timer /\ [x EXCEPT !.ctx = c].id = x.id
  BY <1>1 DEF Instances
<1> QED BY <1>1, <1>2, <1>3

LEMMA FreePoolType ==
  ASSUME TypeInv, NEW h \in Controllers, FreePool(h)
  PROVE  /\ step' = "off" /\ pci' \in [open : BOOLEAN, enabled : BOOLEAN]
         /\ hc' \in Controllers /\ xhc' \in Instances
         /\ live' \subseteq Nat /\ misfreed' \in BOOLEAN
BY NewInstanceType DEF TypeInv, FreePool, FreeSched, ClosePciIo

LEMMA WrittenType ==
  ASSUME port \in [Ports -> PortStates], NEW p \in Ports, NEW w, w.pr \in BOOLEAN
  PROVE  Written(p, w) \in [Ports -> PortStates]
<1> DEFINE q == [[[port[p] EXCEPT !.ped = @ /\ ~w.ped] EXCEPT !.pr = @ \/ w.pr]
                   EXCEPT !.chg = @ \ w.chg]
<1>1. q \in PortStates
  BY DEF PortStates
<1>2. Written(p, w) = [port EXCEPT ![p] = q]
  BY DEF Written
<1> QED BY <1>1, <1>2

\* A slot that is given a device.
SetUp(x, s, p) ==
  [x EXCEPT !.ctx[s] = [Enabled |-> TRUE, port |-> p, pool |-> x.pool]]

LEMMA SlotSetUp ==
  ASSUME NEW x \in Instances, NEW s \in Slots, NEW p \in Ports
  PROVE  /\ SetUp(x, s, p) \in Instances
         /\ SetUp(x, s, p).pool = x.pool /\ SetUp(x, s, p).urbs = x.urbs
         /\ SetUp(x, s, p).timer = x.timer /\ SetUp(x, s, p).id = x.id
         /\ SetUp(x, s, p).ctx[s].pool = x.pool
         /\ \A t \in Slots \ {s} : SetUp(x, s, p).ctx[t] = x.ctx[t]
<1> DEFINE y == SetUp(x, s, p)
           c == [Enabled |-> TRUE, port |-> p, pool |-> x.pool]
           f == [x.ctx EXCEPT ![s] = c]
<1>1. c \in Contexts /\ c.pool = x.pool
  BY DEF Instances, Contexts
<1>2. y = [x EXCEPT !.ctx = f]
  BY DEF SetUp
<1> HIDE DEF c
<1>3. f \in [Slots -> Contexts] /\ f[s] = c /\ \A t \in Slots \ {s} : f[t] = x.ctx[t]
  BY <1>1 DEF Instances
<1> HIDE DEF f
<1> QED BY <1>1, <1>2, <1>3 DEF Instances

LEMMA CallTypes ==
  ASSUME TypeInv, NEW op \in {"reset", "waiting", "disable", "clear", "status"},
         NEW p \in Ports, NEW todo \in SUBSET ChangeBits, Begin(op, p, todo)
  PROVE  call' \in PortCallsT
BY DEF TypeInv, Begin, PortCallsT

LEMMA TypeInit == Init => TypeInv
<1> SUFFICES ASSUME Init PROVE TypeInv
  OBVIOUS
<1>1. hc \in Controllers
  BY DEF Init, Controllers, Unset
<1>2. port \in [Ports -> PortStates]
  <2>1. [ccs |-> FALSE, ped |-> FALSE, pr |-> FALSE, chg |-> {}] \in PortStates
    BY DEF PortStates
  <2> QED BY <2>1 DEF Init
<1> QED BY <1>1, <1>2, NewInstanceType DEF Init, TypeInv, Unbuilt

LEMMA TypeStart ==
  ASSUME TypeInv, Start
  PROVE  TypeInv'
<1> USE DEF TypeInv, Unbuilt, Built
<1>1. CASE OpenPciIo
  BY <1>1 DEF OpenPciIo
<1>2. CASE CreateUsbHc
  <2>1. built + 1 \in Nat
    OBVIOUS
  <2> QED BY <1>2, <2>1, NewInstanceType DEF CreateUsbHc
<1>3. CASE StartReset
  <2>0. SetBiosOwnership(hc) \in Controllers
    BY DEF SetBiosOwnership, Controllers
  <2>1. PICK r \in ResetHC(SetBiosOwnership(hc)) :
          /\ IF r.ok THEN /\ step' = "sched" /\ hc' = r.hc
                          /\ UNCHANGED <<pci, xhc, live, misfreed>>
                     ELSE FreePool(r.hc)
          /\ port' = PortsAfter(r)
    BY <1>3 DEF StartReset
  <2>2. r.hc \in Controllers
    BY <2>0, ResetOutcomes
  <2>3. port' \in [Ports -> PortStates]
    BY <2>1, PortsAfterType
  <2>4. UNCHANGED <<exit, orphans, built, call, broke, debug>>
    BY <1>3 DEF StartReset
  <2>5. CASE r.ok
    BY <2>1, <2>2, <2>3, <2>4, <2>5
  <2>6. CASE ~r.ok
    <3>1. FreePool(r.hc)
      BY <2>1, <2>6
    <3> QED BY <2>2, <2>3, <2>4, <3>1, FreePoolType
  <2> QED BY <2>5, <2>6
<1>4. CASE StartSched
  <2>1. built + 1 \in Nat
    OBVIOUS
  <2> QED BY <1>4, <2>1, SchedMade DEF StartSched
<1>5. CASE StartRun
  BY <1>5, RunOutcomes DEF StartRun
<1>6. CASE StartTimer
  <2>1. UNCHANGED <<exit, orphans, built, port, call, debug>>
    BY <1>6 DEF StartTimer
  <2>2. CASE xhc' = [xhc EXCEPT !.timer = "armed"] /\ step' = "event"
               /\ UNCHANGED <<pci, hc, live, broke, misfreed>>
    <3>1. xhc' \in Instances
      BY <2>2 DEF Instances
    <3> QED BY <2>1, <2>2, <3>1
  <2>3. CASE \E r \in HaltHC(hc) : FreePool(r.hc)
    BY <2>1, <2>3, HaltOutcomes, FreePoolType
  <2> QED BY <1>6, <2>2, <2>3 DEF StartTimer
<1>7. CASE StartExitEvent \/ StartInstall
  <2>1. UNCHANGED <<built, port, call, debug>> /\ exit' \subseteq Nat /\ orphans' \subseteq Nat
    <3>1. xhc.id \in Nat
      BY DEF Instances
    <3> QED BY <1>7, <3>1 DEF StartExitEvent, StartInstall
  <2>2. CASE FailLate
    BY <2>1, <2>2, FreePoolType DEF FailLate
  <2>3. CASE ~FailLate
    BY <1>7, <2>1, <2>3 DEF StartExitEvent, StartInstall
  <2> QED BY <2>2, <2>3
<1> QED BY <1>1, <1>2, <1>3, <1>4, <1>5, <1>6, <1>7 DEF Start

LEMMA TypeStop ==
  ASSUME TypeInv, Stop
  PROVE  TypeInv'
<1> USE DEF TypeInv, Unbuilt, Built
<1>1. CASE Uninstall
  BY <1>1 DEF Uninstall, Instances
<1>2. CASE DisableSlots
  <2>1. PICK gone \in SUBSET {s \in Enabled(xhc) : Accepts(s)} :
          /\ xhc' = Disabled(xhc, gone)
          /\ hc' = [hc EXCEPT !.slots = @ \ gone]
          /\ misfreed' = (misfreed \/ StrayFree(xhc, gone))
    BY <1>2 DEF DisableSlots
  <2>2. xhc' \in Instances
    BY <2>1, DisabledType
  <2>3. hc' \in Controllers /\ misfreed' \in BOOLEAN
    BY <2>1 DEF Controllers
  <2> QED BY <1>2, <2>2, <2>3 DEF DisableSlots
<1>3. CASE StopEvents
  BY <1>3 DEF StopEvents, CloseExitEvent, Instances
<1>4. CASE StopHalt
  <2>1. PICK r \in HaltHC(hc) : hc' = ClearBiosOwnership(r.hc)
    BY <1>4 DEF StopHalt, HaltForStop
  <2>2. hc' \in Controllers
    BY <2>1, HaltOutcomes DEF ClearBiosOwnership, Controllers
  <2> QED BY <1>4, <2>2 DEF StopHalt
<1>5. CASE StopFree
  BY <1>5, NewInstanceType DEF StopFree, FreeSched, ClosePciIo
<1> QED BY <1>1, <1>2, <1>3, <1>4, <1>5 DEF Stop

LEMMA TypeCalls ==
  ASSUME TypeInv, Calls
  PROVE  TypeInv'
<1> USE DEF TypeInv, Unbuilt, Built
<1>1. CASE XhcReset
  <2>1. PICK r \in UNION {IF t.ok THEN ResetHC(t.hc) ELSE {t} : t \in HaltedForReset(hc)} :
          /\ port' = PortsAfter(r)
          /\ IF r.ok THEN
               LET made == InitSched(r.hc, DelAllAsyncIntTransfers(xhc), built + 1)
               IN /\ hc' = made.hc /\ xhc' = made.xhc
                  /\ built' = built + 1
                  /\ live' = FreeSched(xhc) \cup {built + 1}
                  /\ misfreed' = (misfreed \/ FreesTwice(xhc))
             ELSE hc' = r.hc /\ UNCHANGED <<xhc, built, live, misfreed>>
    BY <1>1 DEF XhcReset
  <2>2. r.hc \in Controllers /\ port' \in [Ports -> PortStates]
    BY <2>1, XhcResetOutcomes, PortsAfterType
  <2>3. UNCHANGED <<step, pci, exit, orphans, call, debug>>
    BY <1>1 DEF XhcReset
  <2>4. CASE r.ok
    <3>1. DelAllAsyncIntTransfers(xhc) \in Instances /\ built + 1 \in Nat
      BY DEF DelAllAsyncIntTransfers, Instances
    <3>2. hc' \in Controllers /\ xhc' \in Instances
      <4> DEFINE made == InitSched(r.hc, DelAllAsyncIntTransfers(xhc), built + 1)
      <4>1. made.hc \in Controllers /\ made.xhc \in Instances
        BY <2>2, <3>1, SchedMade
      <4>2. hc' = made.hc /\ xhc' = made.xhc
        BY <2>1, <2>4
      <4> QED BY <4>1, <4>2
    <3>3. live' \subseteq Nat /\ built' \in Nat /\ misfreed' \in BOOLEAN
      BY <2>1, <2>4, <3>1 DEF FreeSched
    <3> QED BY <2>2, <2>3, <3>2, <3>3
  <2>5. CASE ~r.ok
    BY <2>1, <2>2, <2>3, <2>5
  <2> QED BY <2>4, <2>5
<1>2. CASE XhcSetState
  <2>1. hc' \in Controllers
    BY <1>2, HaltOutcomes, RunOutcomes DEF XhcSetState
  <2> QED BY <1>2, <2>1 DEF XhcSetState
<1>3. CASE XhciDelAsyncIntTransfer
  BY <1>3 DEF XhciDelAsyncIntTransfer, Instances
<1>4. CASE XhciInsertAsyncIntTransfer
  BY <1>4 DEF XhciInsertAsyncIntTransfer, Instances, Enabled
<1>5. CASE XhcExitBootService
  <2>1. PICK r \in HaltHC(hc) : hc' = ClearBiosOwnership(r.hc)
    BY <1>5 DEF XhcExitBootService
  <2>2. hc' \in Controllers
    BY <2>1, HaltOutcomes DEF ClearBiosOwnership, Controllers
  <2> QED BY <1>5, <2>2 DEF XhcExitBootService, Instances
<1>6. CASE ExitOverFreed
  <2>1. hc' \in Controllers
    <3>1. ASSUME NEW r \in HaltHC(hc) PROVE ClearBiosOwnership(r.hc) \in Controllers
      BY HaltOutcomes DEF ClearBiosOwnership, Controllers
    <3> QED BY <1>6, <3>1 DEF ExitOverFreed
  <2> QED BY <1>6, <2>1 DEF ExitOverFreed
<1> QED BY <1>1, <1>2, <1>3, <1>4, <1>5, <1>6 DEF Calls

LEMMA TypePortCalls ==
  ASSUME TypeInv, PortCalls
  PROVE  TypeInv'
<1> USE DEF TypeInv, Unbuilt, Built
<1>1. CASE SetPortReset
  <2>1. PICK p \in Ports, r \in IF hc.run = "halted" THEN RunHC(hc) ELSE {Outcome(hc, TRUE)} :
          hc' = r.hc /\ IF r.ok THEN Begin("reset", p, {}) ELSE UNCHANGED call
    BY <1>1 DEF SetPortReset
  <2>2. hc' \in Controllers
    BY <2>1, RunOutcomes DEF Outcome
  <2>3. call' = call \/ call' \in PortCallsT
    BY <2>1, CallTypes
  <2> QED BY <1>1, <2>2, <2>3 DEF SetPortReset
<1>2. CASE WritePortReset
  <2>1. port' = Written(call.port, ResetValue(call.seen)) /\ call' = [call EXCEPT !.op = "waiting"]
        /\ call \in PortCallsT
    BY <1>2 DEF WritePortReset
  <2>2. ResetValue(call.seen).pr \in BOOLEAN /\ call.port \in Ports
    BY <2>1 DEF ResetValue, Mask, PortCallsT, PortStates
  <2>3. port' \in [Ports -> PortStates]
    BY <2>1, <2>2, WrittenType
  <2>4. call' \in PortCallsT
    BY <2>1 DEF PortCallsT
  <2> QED BY <1>2, <2>3, <2>4 DEF WritePortReset
<1>3. CASE WaitPortReset
  BY <1>3 DEF WaitPortReset
<1>4. CASE ClearPortEnable
  BY <1>4, CallTypes DEF ClearPortEnable
<1>5. CASE WritePortEnable
  <2>1. port' = Written(call.port, [Mask(call.seen) EXCEPT !.ped = TRUE, !.pr = FALSE])
        /\ call \in PortCallsT
    BY <1>5 DEF WritePortEnable
  <2>2. [Mask(call.seen) EXCEPT !.ped = TRUE, !.pr = FALSE].pr \in BOOLEAN /\ call.port \in Ports
    BY <2>1 DEF Mask, PortCallsT, PortStates
  <2>3. port' \in [Ports -> PortStates]
    <3> DEFINE w == [Mask(call.seen) EXCEPT !.ped = TRUE, !.pr = FALSE]
    <3>1. w.pr \in BOOLEAN /\ call.port \in Ports /\ port' = Written(call.port, w)
      BY <2>1, <2>2
    <3> HIDE DEF w
    <3> QED BY <3>1, WrittenType
  <2> QED BY <1>5, <2>3 DEF WritePortEnable
<1>6. CASE ClearPortChange
  BY <1>6, CallTypes DEF ClearPortChange
<1>7. CASE GetRootHubPortStatus
  <2>1. \A p \in Ports : port[p].chg \subseteq ChangeBits
    BY DEF PortStates
  <2> QED BY <1>7, <2>1, CallTypes DEF GetRootHubPortStatus
<1>8. CASE ReadForChange
  <2>1. PICK b \in call.todo :
          call' = [call EXCEPT !.latch = {[bit |-> b, state |-> port[call.port]]}]
    BY <1>8 DEF ReadForChange
  <2>2. call \in PortCallsT
    BY <1>8 DEF ReadForChange
  <2>3. call' \in PortCallsT
    <3>1. b \in ChangeBits /\ port[call.port] \in PortStates
      BY <2>1, <2>2 DEF PortCallsT
    <3> QED BY <2>1, <2>2, <3>1 DEF PortCallsT
  <2> QED BY <1>8, <2>3 DEF ReadForChange
<1>9. CASE WriteForChange
  <2>1. PICK l \in call.latch :
          /\ port' = Written(call.port, ChangeValue(l.state, l.bit))
          /\ call' = IF call.op = "clear" THEN NoCall
                      ELSE [call EXCEPT !.todo = @ \ {l.bit}, !.latch = {}]
    BY <1>9 DEF WriteForChange
  <2>2. call \in PortCallsT
    BY <1>9 DEF WriteForChange
  <2>3. ChangeValue(l.state, l.bit).pr \in BOOLEAN /\ call.port \in Ports
    BY <2>1, <2>2 DEF ChangeValue, Mask, PortCallsT, PortStates
  <2>4. port' \in [Ports -> PortStates]
    BY <2>1, <2>3, WrittenType
  <2>5. call' = NoCall \/ call' \in PortCallsT
    BY <2>1, <2>2 DEF PortCallsT
  <2> QED BY <1>9, <2>4, <2>5 DEF WriteForChange
<1>10. CASE PollPortStatusChange
  <2>0. call \in PortCallsT
    BY <1>10 DEF PollPortStatusChange, SetUp
  <2>1. PICK gone \in IF call.seen.chg = {} THEN {{}}
                      ELSE SUBSET {s \in OnPort(xhc, call.port) : Accepts(s)} :
          /\ misfreed' = (misfreed \/ StrayFree(xhc, gone))
          /\ \/ xhc' = Disabled(xhc, gone) /\ hc' = [hc EXCEPT !.slots = @ \ gone]
             \/ \E s \in Slots :
                  /\ xhc' = SetUp(Disabled(xhc, gone), s, call.port)
                  /\ hc' = [hc EXCEPT !.slots = (@ \ gone) \cup {s}]
    <3> HIDE DEF TypeInv
    <3> QED BY <1>10 DEF PollPortStatusChange, SetUp
  <2>2. Disabled(xhc, gone) \in Instances
    BY DisabledType
  <2>3. xhc' \in Instances
    <3>1. CASE xhc' = Disabled(xhc, gone)
      BY <2>2, <3>1
    <3>2. ASSUME NEW s \in Slots,
                 xhc' = SetUp(Disabled(xhc, gone), s, call.port)
          PROVE  xhc' \in Instances
      BY <2>0, <2>2, <3>2, SlotSetUp DEF PortCallsT
    <3> QED BY <2>1, <3>1, <3>2
  <2>4. hc' \in Controllers /\ misfreed' \in BOOLEAN
    BY <2>1 DEF Controllers
  <2> QED BY <1>10, <2>3, <2>4 DEF PollPortStatusChange
<1> QED
  BY <1>1, <1>2, <1>3, <1>4, <1>5, <1>6, <1>7, <1>8, <1>9, <1>10 DEF PortCalls

LEMMA TypeHardware ==
  ASSUME TypeInv, Hardware
  PROVE  TypeInv'
<1> USE DEF TypeInv, Unbuilt, Built
<1>1. CASE HaltCompletes \/ HostSystemError
  <2>1. hc' \in Controllers
    BY <1>1 DEF HaltCompletes, HostSystemError, Controllers
  <2> QED BY <1>1, <2>1 DEF HaltCompletes, HostSystemError
<1>2. ASSUME NEW p \in Ports, NEW new \in PortStates, PortEvent(p, new) PROVE TypeInv'
  BY <1>2 DEF PortEvent
<1>3. {"CSC", "PRC"} \subseteq ChangeBits
  BY BitsAssumption DEF BitsAssumption
<1>4. CASE Plug
  <2>1. \A p \in Ports :
          [port[p] EXCEPT !.ccs = ~@, !.ped = FALSE, !.chg = @ \cup {"CSC"}] \in PortStates
    BY <1>3 DEF PortStates
  <2> QED BY <1>2, <1>4, <2>1 DEF Plug
<1>5. CASE PortResetDone
  <2>1. \A p \in Ports :
          [port[p] EXCEPT !.pr = FALSE, !.ped = port[p].ccs, !.chg = @ \cup {"PRC"}] \in PortStates
    BY <1>3 DEF PortStates
  <2> QED BY <1>2, <1>5, <2>1 DEF PortResetDone
<1> QED BY <1>1, <1>4, <1>5 DEF Hardware

LEMMA TypeNext ==
  ASSUME TypeInv, [Next]_vars
  PROVE  TypeInv'
<1>1. CASE UNCHANGED vars
  BY <1>1 DEF TypeInv, vars
<1> QED BY <1>1, TypeStart, TypeStop, TypeCalls, TypePortCalls, TypeHardware DEF Next

-----------------------------------------------------------------------------
(* Memory follows the step.                                                   *)

LEMMA FreePoolOwned ==
  ASSUME TypeInv, Owned, NEW h, FreePool(h),
         h.run = "halted" \/ broke' \cap Lost # {}
  PROVE  Owned'
<1>1. live \ {xhc.pool} = {}
  BY DEF Owned, TypeInv
<1>2. /\ step' = "off" /\ hc' = h /\ live' = {} /\ xhc' = NewInstance(xhc'.id)
      /\ xhc'.timer = "none" /\ ~pci'.open /\ ~pci'.enabled
  BY <1>1, NewInstanceType DEF FreePool, FreeSched, ClosePciIo
<1> QED BY <1>2 DEF Owned, Unbuilt, Built

LEMMA OwnedStart ==
  ASSUME TypeInv, Owned, Start
  PROVE  Owned'
<1>0. /\ hc \in Controllers /\ xhc \in Instances
      /\ built + 1 \in Nat /\ built + 1 # 0
  BY DEF TypeInv
<1> USE DEF Unbuilt, Built
<1>1. CASE OpenPciIo
  BY <1>1 DEF OpenPciIo, NewInstance, Owned
<1>2. CASE CreateUsbHc
  <2>1. xhc' = NewInstance(xhc'.id) /\ xhc'.timer = "none"
    BY <1>0, <1>2, NewInstanceType DEF CreateUsbHc
  <2> QED BY <1>2, <2>1 DEF CreateUsbHc, Owned
<1>3. CASE StartReset
  <2>0. SetBiosOwnership(hc) \in Controllers /\ SetBiosOwnership(hc).run = hc.run
    BY <1>0 DEF SetBiosOwnership, Controllers
  <2>1. PICK r \in ResetHC(SetBiosOwnership(hc)) :
          IF r.ok THEN /\ step' = "sched" /\ hc' = r.hc
                       /\ UNCHANGED <<pci, xhc, live, misfreed>>
                  ELSE FreePool(r.hc)
    BY <1>3 DEF StartReset
  <2>2. /\ r.ok => r.hc.run = "halted"
        /\ r.hc.run # "halted" => hc.run # "halted"
    BY <2>0, ResetOutcomes
  <2>3. step = "take" /\ broke' = broke
    BY <1>3 DEF StartReset
  <2>4. CASE r.ok
    BY <2>1, <2>2, <2>3, <2>4 DEF NewInstance, Owned
  <2>5. CASE ~r.ok
    <3>1. r.hc.run = "halted" \/ broke' \cap Lost # {}
      BY <2>2, <2>3 DEF Owned
    <3> QED BY <2>1, <2>5, <3>1, FreePoolOwned
  <2> QED BY <2>4, <2>5
<1>4. CASE StartSched
  <2> DEFINE made == InitSched(hc, xhc, built + 1)
  <2>1. step = "sched" /\ step' = "run" /\ hc' = made.hc /\ xhc' = made.xhc
        /\ live' = live \cup {built + 1} /\ UNCHANGED pci
    BY <1>4 DEF StartSched
  <2>2. built + 1 \in Nat /\ built + 1 # 0
    BY <1>0
  <2>3. /\ made.hc.run = hc.run /\ made.xhc = [xhc EXCEPT !.pool = built + 1]
        /\ \A r \in Registers : made.hc.regs[r] = built + 1
    BY <1>0, <2>2, SchedMade
  <2>4. xhc'.pool = built + 1
    BY <1>0, <2>1, <2>3 DEF Instances
  <2> HIDE DEF made
  <2> QED BY <2>1, <2>2, <2>3, <2>4 DEF Owned
<1>5. CASE StartRun
  <2>1. hc'.regs = hc.regs
    BY <1>0, <1>5, RunOutcomes DEF StartRun
  <2> QED BY <1>5, <2>1 DEF StartRun, Owned
<1>6. CASE StartTimer
  <2>1. CASE xhc' = [xhc EXCEPT !.timer = "armed"] /\ step' = "event"
               /\ UNCHANGED <<pci, hc, live, broke, misfreed>>
    <3>1. xhc'.pool = xhc.pool /\ step = "timer"
      BY <1>0, <1>6, <2>1 DEF Instances, StartTimer
    <3> QED BY <2>1, <3>1 DEF Owned
  <2>2. ASSUME NEW r \in HaltHC(hc), FreePool(r.hc),
               broke' = IF r.ok THEN broke ELSE broke \cup {"halt timed out"}
        PROVE  Owned'
    <3>1. r.hc.run = "halted" \/ broke' \cap Lost # {}
      BY <1>0, <2>2, HaltOutcomes DEF Lost
    <3> QED BY <2>2, <3>1, FreePoolOwned
  <2> QED BY <1>6, <2>1, <2>2 DEF StartTimer
<1>7. CASE StartExitEvent \/ StartInstall
  <2>1. CASE FailLate
    <3>1. broke' \cap Lost # {}
      BY <2>1 DEF FailLate, Lost
    <3> QED BY <2>1, <3>1, FreePoolOwned DEF FailLate
  <2>2. CASE ~FailLate
    BY <1>7, <2>2 DEF StartExitEvent, StartInstall, Owned
  <2> QED BY <2>1, <2>2
<1> QED BY <1>1, <1>2, <1>3, <1>4, <1>5, <1>6, <1>7 DEF Start

LEMMA OwnedStop ==
  ASSUME TypeInv, Owned, Stop
  PROVE  Owned'
<1>0. hc \in Controllers /\ xhc \in Instances
  BY DEF TypeInv
<1> USE DEF Unbuilt, Built
<1>1. CASE Uninstall
  BY <1>0, <1>1 DEF Uninstall, Instances, Idle, Owned
<1>2. CASE DisableSlots
  <2>1. xhc'.pool = xhc.pool /\ xhc'.timer = xhc.timer
    BY <1>0, <1>2, DisabledType DEF DisableSlots
  <2>2. hc'.run = hc.run /\ hc'.regs = hc.regs
    BY <1>0, <1>2 DEF DisableSlots, Controllers
  <2> QED BY <1>2, <2>1, <2>2 DEF DisableSlots, Owned
<1>3. CASE StopEvents
  BY <1>0, <1>3 DEF StopEvents, Instances, Owned
<1>4. CASE StopHalt
  <2>1. PICK r \in HaltHC(hc) :
          /\ hc' = ClearBiosOwnership(r.hc)
          /\ broke' = IF r.ok THEN broke ELSE broke \cup {"halt timed out"}
    BY <1>4 DEF StopHalt, HaltForStop
  <2>2. r.hc \in Controllers /\ r.hc.regs = hc.regs /\ (r.ok => r.hc.run = "halted")
    BY <1>0, HaltOutcomes
  <2>3. hc'.run = r.hc.run /\ hc'.regs = hc.regs
    BY <2>1, <2>2 DEF ClearBiosOwnership, Controllers
  <2> QED BY <1>4, <2>1, <2>2, <2>3 DEF StopHalt, Lost, Owned
<1>5. CASE StopFree
  <2>1. live \ {xhc.pool} = {} /\ step = "free"
    BY <1>5 DEF StopFree, Owned
  <2>2. xhc' = NewInstance(xhc'.id) /\ xhc'.timer = "none"
    BY <1>5, NewInstanceType DEF StopFree
  <2> QED BY <1>5, <2>1, <2>2 DEF StopFree, FreeSched, ClosePciIo, Owned
<1> QED BY <1>1, <1>2, <1>3, <1>4, <1>5 DEF Stop

LEMMA OwnedCalls ==
  ASSUME TypeInv, Owned, Calls
  PROVE  Owned'
<1>0. /\ hc \in Controllers /\ xhc \in Instances
      /\ built + 1 \in Nat /\ built + 1 # 0
  BY DEF TypeInv
<1> USE DEF Unbuilt, Built
<1>1. CASE XhcReset
  <2>1. PICK r \in UNION {IF t.ok THEN ResetHC(t.hc) ELSE {t} : t \in HaltedForReset(hc)} :
          IF r.ok THEN
            LET made == InitSched(r.hc, DelAllAsyncIntTransfers(xhc), built + 1)
            IN /\ hc' = made.hc /\ xhc' = made.xhc
               /\ live' = FreeSched(xhc) \cup {built + 1}
          ELSE /\ hc' = r.hc /\ UNCHANGED <<xhc, live>>
               /\ broke' = IF r.hc.regs = hc.regs THEN broke ELSE broke \cup {"reset timed out"}
    BY <1>1 DEF XhcReset
  <2>2. /\ r.hc \in Controllers
        /\ r.ok => r.hc.run = "halted"
        /\ r.hc.run # "halted" => hc.run # "halted" /\ r.hc.regs = hc.regs
    BY <1>0, XhcResetOutcomes
  <2>3. UNCHANGED <<step, pci>> /\ step = "up"
    BY <1>1 DEF XhcReset, Idle
  <2>4. CASE r.ok
    <3> DEFINE x == DelAllAsyncIntTransfers(xhc)
               made == InitSched(r.hc, x, built + 1)
    <3>1. x \in Instances /\ built + 1 \in Nat /\ built + 1 # 0
      BY <1>0 DEF DelAllAsyncIntTransfers, Instances
    <3> HIDE DEF x
    <3>2. /\ made.hc.run = "halted" /\ made.xhc = [x EXCEPT !.pool = built + 1]
          /\ \A g \in Registers : made.hc.regs[g] = built + 1
      BY <2>2, <2>4, <3>1, SchedMade
    <3>3. hc' = made.hc /\ xhc' = made.xhc /\ live' = FreeSched(xhc) \cup {built + 1}
      BY <2>1, <2>4 DEF x
    <3>4. xhc'.pool = built + 1
      BY <3>1, <3>2, <3>3 DEF Instances
    <3>5. live' = {built + 1}
      BY <2>3, <3>3 DEF FreeSched, Owned
    <3> HIDE DEF made
    <3> QED BY <2>3, <3>1, <3>2, <3>3, <3>4, <3>5 DEF Owned
  <2>5. CASE ~r.ok
    <3>1. hc' = r.hc /\ UNCHANGED <<xhc, live>>
          /\ (r.hc.regs = hc.regs => broke' = broke)
          /\ (r.hc.regs # hc.regs => broke' = broke \cup {"reset timed out"})
      BY <2>1, <2>5
    <3>2. CASE r.hc.regs = hc.regs
      BY <2>2, <2>3, <3>1, <3>2 DEF Owned
    <3>3. CASE r.hc.regs # hc.regs
      BY <2>2, <2>3, <3>1, <3>3 DEF Owned
    <3> QED BY <3>2, <3>3
  <2> QED BY <2>4, <2>5
<1>2. CASE XhcSetState
  <2>1. hc'.regs = hc.regs /\ step = "up"
    BY <1>0, <1>2, HaltOutcomes, RunOutcomes DEF XhcSetState, Idle
  <2> QED BY <1>2, <2>1 DEF XhcSetState, Owned
<1>3. CASE XhciDelAsyncIntTransfer
  BY <1>0, <1>3 DEF XhciDelAsyncIntTransfer, Instances, Idle, Owned
<1>4. CASE XhciInsertAsyncIntTransfer
  BY <1>0, <1>4 DEF XhciInsertAsyncIntTransfer, Instances, Idle, Owned
<1>5. CASE XhcExitBootService
  <2>1. PICK r \in HaltHC(hc) :
          /\ hc' = ClearBiosOwnership(r.hc)
          /\ broke' = IF r.ok THEN broke ELSE broke \cup {"halt timed out"}
    BY <1>5 DEF XhcExitBootService
  <2>2. r.hc \in Controllers /\ r.hc.regs = hc.regs /\ (r.ok => r.hc.run = "halted")
    BY <1>0, HaltOutcomes
  <2>3. hc'.run = r.hc.run /\ hc'.regs = hc.regs
    BY <2>1, <2>2 DEF ClearBiosOwnership, Controllers
  <2>4. xhc'.pool = xhc.pool /\ xhc'.timer = "none"
    BY <1>0, <1>5 DEF XhcExitBootService, Instances
  <2> QED BY <1>5, <2>1, <2>2, <2>3, <2>4 DEF XhcExitBootService, Lost, Idle, Owned
<1>6. CASE ExitOverFreed
  <2>1. step \in {"off", "shut"} /\ step' = "left" /\ UNCHANGED <<xhc, live, broke>>
    BY <1>6 DEF ExitOverFreed
  <2>2. hc'.run # "halted" => hc.run # "halted"
    BY <1>0, <1>6, HaltOutcomes DEF ExitOverFreed, HaltHC, Outcome, ClearBiosOwnership, Controllers
  <2> QED BY <2>1, <2>2 DEF Owned, NewInstance
<1> QED BY <1>1, <1>2, <1>3, <1>4, <1>5, <1>6 DEF Calls

LEMMA OwnedPortCalls ==
  ASSUME TypeInv, Owned, CallHeld, PortCalls
  PROVE  Owned'
<1>0. hc \in Controllers /\ xhc \in Instances
  BY DEF TypeInv
<1> USE DEF Unbuilt, Built
<1>1. CASE SetPortReset
  <2>1. hc'.regs = hc.regs /\ step = "up"
    BY <1>0, <1>1, RunOutcomes DEF SetPortReset, Outcome, Idle
  <2> QED BY <1>1, <2>1 DEF SetPortReset, Owned
<1>2. CASE PollPortStatusChange
  <2>1. PICK gone : \/ xhc' = Disabled(xhc, gone) /\ hc' = [hc EXCEPT !.slots = @ \ gone]
                    \/ \E s \in Slots :
                         /\ xhc' = SetUp(Disabled(xhc, gone), s, call.port)
                         /\ hc' = [hc EXCEPT !.slots = (@ \ gone) \cup {s}]
    BY <1>2 DEF PollPortStatusChange, SetUp
  <2>2. Disabled(xhc, gone) \in Instances /\ Disabled(xhc, gone).pool = xhc.pool
        /\ Disabled(xhc, gone).timer = xhc.timer /\ call.port \in Ports
    BY <1>0, <1>2, DisabledType DEF PollPortStatusChange, TypeInv, PortCallsT
  <2>3. xhc'.pool = xhc.pool /\ xhc'.timer = xhc.timer
    BY <2>1, <2>2, SlotSetUp
  <2>4. hc'.run = hc.run /\ hc'.regs = hc.regs
    BY <1>0, <2>1 DEF Controllers
  <2> QED BY <1>2, <2>3, <2>4 DEF PollPortStatusChange, CallHeld, Owned
<1>3. CASE UNCHANGED <<step, pci, hc, xhc, live, broke>>
  BY <1>3 DEF Owned
<1> QED
  BY <1>1, <1>2, <1>3
     DEF PortCalls, WritePortReset, WaitPortReset, ClearPortEnable, WritePortEnable,
         ClearPortChange, GetRootHubPortStatus, ReadForChange, WriteForChange

LEMMA OwnedNext ==
  ASSUME TypeInv, Owned, CallHeld, [Next]_vars
  PROVE  Owned'
<1>1. CASE UNCHANGED vars
  BY <1>1 DEF Owned, vars
<1>2. CASE Hardware
  <2>1. hc \in Controllers
    BY DEF TypeInv
  <2>2. hc'.regs = hc.regs /\ (hc'.run = hc.run \/ hc'.run = "halted")
        /\ UNCHANGED <<step, pci, xhc, live, broke>>
    BY <1>2, <2>1
       DEF Hardware, HaltCompletes, HostSystemError, Plug, PortResetDone, PortEvent, Controllers
  <2> QED BY <2>2 DEF Owned
<1> QED BY <1>1, <1>2, OwnedStart, OwnedStop, OwnedCalls, OwnedPortCalls DEF Next

-----------------------------------------------------------------------------
(* The slot contexts, and the call in progress.                               *)

LEMMA CallHeldNext ==
  ASSUME TypeInv, CallHeld, [Next]_vars
  PROVE  CallHeld'
<1> USE DEF CallHeld
<1>1. CASE UNCHANGED vars
  BY <1>1 DEF vars
<1>2. CASE Start
  <2>1. step # "up" /\ call' = call
    BY <1>2 DEF Start, OpenPciIo, CreateUsbHc, StartReset, StartSched, StartRun, StartTimer,
                StartExitEvent, StartInstall
  <2> QED BY <2>1
<1>3. CASE Stop
  <2>1. (step # "up" \/ call = NoCall) /\ call' = call
    BY <1>3 DEF Stop, Uninstall, DisableSlots, StopEvents, StopHalt, StopFree, Idle
  <2> QED BY <2>1
<1>4. CASE Calls
  <2>1. (step # "up" \/ call = NoCall) /\ call' = call
    BY <1>4 DEF Calls, XhcReset, XhcSetState, XhciInsertAsyncIntTransfer,
                XhciDelAsyncIntTransfer, XhcExitBootService, ExitOverFreed, Idle
  <2> QED BY <2>1
<1>5. CASE Hardware
  BY <1>5 DEF Hardware, HaltCompletes, HostSystemError, Plug, PortResetDone, PortEvent
<1>6. ASSUME NEW op, NEW p, NEW todo, Begin(op, p, todo), step' = step PROVE CallHeld'
  BY <1>6 DEF Begin, Idle
<1>7. CASE SetPortReset \/ ClearPortEnable \/ ClearPortChange \/ GetRootHubPortStatus
  <2>1. step' = step
    BY <1>7 DEF SetPortReset, ClearPortEnable, ClearPortChange, GetRootHubPortStatus
  <2>2. call' = call \/ \E op, p, todo : Begin(op, p, todo)
    BY <1>7 DEF SetPortReset, ClearPortEnable, ClearPortChange, GetRootHubPortStatus
  <2> QED BY <1>6, <2>1, <2>2
<1>8. CASE WritePortReset
  BY <1>8 DEF WritePortReset, TypeInv, PortCallsT
<1>9. CASE WaitPortReset \/ WritePortEnable \/ PollPortStatusChange
  BY <1>9 DEF WaitPortReset, WritePortEnable, PollPortStatusChange
<1>10. CASE ReadForChange
  BY <1>10 DEF ReadForChange, TypeInv, PortCallsT
<1>11. CASE WriteForChange
  BY <1>11 DEF WriteForChange, TypeInv, PortCallsT
<1> QED
  BY <1>1, <1>2, <1>3, <1>4, <1>5, <1>7, <1>8, <1>9, <1>10, <1>11 DEF Next, PortCalls

\* The instance is new again: it has no slots.
LEMMA NewSlots ==
  ASSUME TypeInv', NEW n, xhc' = NewInstance(n), ~misfreed'
  PROVE  SlotsOwned'
<1>1. \A s \in Slots : ~xhc'.ctx[s].Enabled
  BY DEF NewInstance, NoSlots
<1>2. xhc'.urbs = {} /\ hc'.slots \subseteq Slots
  BY DEF NewInstance, TypeInv, Controllers
<1> QED BY <1>1, <1>2 DEF SlotsOwned

LEMMA FreedOnce ==
  ASSUME Owned, step \in Unbuilt \cup Built
  PROVE  ~FreesTwice(xhc)
<1>1. CASE step \in Unbuilt
  <2>1. xhc = NewInstance(xhc.id)
    BY <1>1 DEF Owned
  <2>2. xhc.pool = 0
    BY <2>1 DEF NewInstance
  <2> QED BY <2>2 DEF FreesTwice
<1>2. CASE step \in Built
  BY <1>2 DEF Owned, FreesTwice
<1> QED BY <1>1, <1>2

LEMMA FreePoolSlots ==
  ASSUME TypeInv', Owned, SlotsOwned, NEW h, FreePool(h), step \in Unbuilt \cup Built
  PROVE  SlotsOwned'
<1>1. ~FreesTwice(xhc)
  BY FreedOnce
<1> QED BY <1>1, NewSlots, NewInstanceType DEF FreePool, SlotsOwned

\* Slots are given back to the pool they came from.
LEMMA NotStray ==
  ASSUME TypeInv, SlotsOwned, NEW gone, \A s \in gone : s \in Enabled(xhc) /\ Accepts(s)
  PROVE  ~StrayFree(xhc, gone)
BY DEF SlotsOwned, StrayFree, Accepts, Enabled

\* Taking slots away disturbs none of the others.
LEMMA DisabledSlots ==
  ASSUME TypeInv, SlotsOwned, NEW gone, xhc' = Disabled(xhc, gone),
         hc'.slots \subseteq hc.slots, UNCHANGED <<broke, misfreed>>
  PROVE  SlotsOwned'
<1>1. xhc \in Instances /\ hc \in Controllers
  BY DEF TypeInv
<1>2. /\ xhc'.pool = xhc.pool /\ xhc'.urbs = xhc.urbs
      /\ \A s \in Slots : /\ xhc'.ctx[s].pool = xhc.ctx[s].pool
                          /\ xhc'.ctx[s].Enabled <=> xhc.ctx[s].Enabled /\ s \notin gone
  BY <1>1, DisabledType
<1>3. xhc.urbs \subseteq Slots /\ hc.slots \subseteq Slots
  BY <1>1 DEF Instances, Controllers
<1> QED BY <1>2, <1>3 DEF SlotsOwned

LEMMA SlotsOwnedStart ==
  ASSUME TypeInv, TypeInv', Owned, SlotsOwned, Start
  PROVE  SlotsOwned'
<1>0. /\ hc \in Controllers /\ xhc \in Instances /\ step \in Unbuilt \cup Built
      /\ built + 1 \in Nat
  BY DEF TypeInv
<1>1. CASE OpenPciIo
  BY <1>1 DEF OpenPciIo, SlotsOwned
<1>2. CASE CreateUsbHc
  BY <1>2, NewSlots, NewInstanceType DEF CreateUsbHc, SlotsOwned
<1>3. CASE StartReset
  <2>1. step = "take" /\ UNCHANGED broke
    BY <1>3 DEF StartReset
  <2>2. CASE UNCHANGED <<xhc, misfreed>>
    BY <2>1, <2>2, NewSlots DEF Owned, Unbuilt, SlotsOwned
  <2>3. CASE \E h : FreePool(h)
    BY <1>0, <2>3, FreePoolSlots
  <2> QED BY <1>3, <2>2, <2>3 DEF StartReset
<1>4. CASE StartSched
  <2>1. step = "sched" /\ xhc = NewInstance(xhc.id) /\ UNCHANGED misfreed
        /\ xhc' = InitSched(hc, xhc, built + 1).xhc
    BY <1>4 DEF StartSched, Owned, Unbuilt
  <2>2. xhc' = [xhc EXCEPT !.pool = built + 1]
    BY <1>0, <2>1, SchedMade
  <2>3. xhc'.urbs = {} /\ \A s \in Slots : ~xhc'.ctx[s].Enabled
    <3>1. xhc'.urbs = xhc.urbs /\ xhc'.ctx = xhc.ctx
      BY <1>0, <2>2 DEF Instances
    <3>2. xhc.urbs = {} /\ \A s \in Slots : ~xhc.ctx[s].Enabled
      BY <2>1 DEF NewInstance, NoSlots
    <3> QED BY <3>1, <3>2
  <2>4. hc'.slots \subseteq Slots
    BY DEF TypeInv, Controllers
  <2> QED BY <2>1, <2>3, <2>4 DEF SlotsOwned
<1>5. CASE StartRun
  <2>1. hc'.slots = hc.slots
    BY <1>0, <1>5, RunOutcomes DEF StartRun
  <2> QED BY <1>5, <2>1 DEF StartRun, SlotsOwned
<1>6. CASE StartTimer
  <2>1. CASE xhc' = [xhc EXCEPT !.timer = "armed"] /\ UNCHANGED <<hc, broke, misfreed>>
    <3>1. xhc'.pool = xhc.pool /\ xhc'.ctx = xhc.ctx /\ xhc'.urbs = xhc.urbs
      BY <1>0, <2>1 DEF Instances
    <3> QED BY <2>1, <3>1 DEF SlotsOwned
  <2>2. CASE \E h : FreePool(h)
    BY <1>0, <2>2, FreePoolSlots
  <2> QED BY <1>6, <2>1, <2>2 DEF StartTimer
<1>7. CASE StartExitEvent \/ StartInstall
  <2>1. CASE FailLate
    BY <1>0, <2>1, FreePoolSlots DEF FailLate
  <2>2. CASE ~FailLate
    <3>1. UNCHANGED <<hc, xhc, broke, misfreed>>
      BY <1>7, <2>2 DEF StartExitEvent, StartInstall
    <3> QED BY <3>1 DEF SlotsOwned
  <2> QED BY <2>1, <2>2
<1> QED BY <1>1, <1>2, <1>3, <1>4, <1>5, <1>6, <1>7 DEF Start

LEMMA SlotsOwnedStop ==
  ASSUME TypeInv, TypeInv', Owned, SlotsOwned, Stop
  PROVE  SlotsOwned'
<1>0. hc \in Controllers /\ xhc \in Instances /\ step \in Unbuilt \cup Built
  BY DEF TypeInv
<1>1. CASE Uninstall \/ StopEvents
  <2>1. xhc'.pool = xhc.pool /\ xhc'.ctx = xhc.ctx /\ xhc'.urbs = xhc.urbs
    BY <1>0, <1>1 DEF Uninstall, StopEvents, Instances
  <2>2. UNCHANGED <<hc, broke, misfreed>>
    BY <1>1 DEF Uninstall, StopEvents
  <2> QED BY <2>1, <2>2 DEF SlotsOwned
<1>2. CASE DisableSlots
  <2>1. PICK gone \in SUBSET {s \in Enabled(xhc) : Accepts(s)} :
          /\ xhc' = Disabled(xhc, gone)
          /\ hc' = [hc EXCEPT !.slots = @ \ gone]
          /\ misfreed' = (misfreed \/ StrayFree(xhc, gone))
    BY <1>2 DEF DisableSlots
  <2>2. ~StrayFree(xhc, gone)
    BY <2>1, NotStray
  <2>3. ~misfreed /\ ~misfreed'
    BY <2>1, <2>2 DEF SlotsOwned
  <2>4. UNCHANGED <<broke, misfreed>>
    BY <1>2, <2>3 DEF DisableSlots, TypeInv
  <2>5. hc'.slots \subseteq hc.slots
    BY <1>0, <2>1 DEF Controllers
  <2> QED BY <2>1, <2>4, <2>5, DisabledSlots
<1>3. CASE StopHalt
  <2>1. PICK r \in HaltHC(hc) :
          /\ hc' = ClearBiosOwnership(r.hc)
          /\ broke' = IF r.ok THEN broke ELSE broke \cup {"halt timed out"}
    BY <1>3 DEF StopHalt, HaltForStop
  <2>2. r.hc \in Controllers /\ r.hc.slots = hc.slots
    BY <1>0, HaltOutcomes
  <2>3. hc'.slots = hc.slots
    BY <2>1, <2>2 DEF ClearBiosOwnership, Controllers
  <2> QED BY <1>3, <2>1, <2>3 DEF StopHalt, SlotsOwned
<1>4. CASE StopFree
  <2>1. ~FreesTwice(xhc)
    BY <1>0, FreedOnce
  <2> QED BY <1>4, <2>1, NewSlots, NewInstanceType DEF StopFree, SlotsOwned
<1> QED BY <1>1, <1>2, <1>3, <1>4 DEF Stop

LEMMA SlotsOwnedCalls ==
  ASSUME TypeInv, TypeInv', Owned, SlotsOwned, Calls
  PROVE  SlotsOwned'
<1>0. /\ hc \in Controllers /\ xhc \in Instances /\ step \in Unbuilt \cup Built
      /\ built + 1 \in Nat
  BY DEF TypeInv
<1>1. CASE XhcReset
  <2>0. ~FreesTwice(xhc)
    BY <1>0, FreedOnce
  <2>1. PICK r \in UNION {IF t.ok THEN ResetHC(t.hc) ELSE {t} : t \in HaltedForReset(hc)} :
          IF r.ok THEN
            LET made == InitSched(r.hc, DelAllAsyncIntTransfers(xhc), built + 1)
            IN /\ hc' = made.hc /\ xhc' = made.xhc
               /\ misfreed' = (misfreed \/ FreesTwice(xhc))
               /\ broke' = {b \in broke : b = "reset over devices"}
                             \cup {b \in {"reset over devices"} : Enabled(xhc) # {}}
          ELSE /\ hc' = r.hc /\ UNCHANGED <<xhc, misfreed>>
               /\ broke' = IF r.hc.regs = hc.regs THEN broke ELSE broke \cup {"reset timed out"}
    BY <1>1 DEF XhcReset
  <2>2. /\ r.hc \in Controllers /\ r.hc.slots \subseteq hc.slots
        /\ r.ok => r.hc.slots = {}
    BY <1>0, <1>1, XhcResetOutcomes DEF XhcReset
  <2>3. CASE r.ok
    <3> DEFINE x == DelAllAsyncIntTransfers(xhc)
               made == InitSched(r.hc, x, built + 1)
    <3>1. x \in Instances /\ x.urbs = {} /\ x.ctx = xhc.ctx
      BY <1>0 DEF DelAllAsyncIntTransfers, Instances
    <3> HIDE DEF x
    <3>2. made.hc.slots = {} /\ made.xhc = [x EXCEPT !.pool = built + 1]
      BY <1>0, <2>2, <2>3, <3>1, SchedMade
    <3>3. hc' = made.hc /\ xhc' = made.xhc
      BY <2>1, <2>3 DEF x
    <3>4. xhc'.urbs = {} /\ xhc'.ctx = xhc.ctx
      BY <3>1, <3>2, <3>3 DEF Instances
    <3>5. ~misfreed'
      BY <2>0, <2>1, <2>3 DEF SlotsOwned
    <3>6. \A s \in Slots : xhc.ctx[s].Enabled => "reset over devices" \in broke'
      <4>1. ASSUME NEW s \in Slots, xhc.ctx[s].Enabled PROVE Enabled(xhc) # {}
        BY <4>1 DEF Enabled
      <4> QED BY <2>1, <2>3, <4>1
    <3> QED BY <3>2, <3>3, <3>4, <3>5, <3>6 DEF SlotsOwned
  <2>4. CASE ~r.ok
    <3>1. hc'.slots \subseteq hc.slots /\ UNCHANGED <<xhc, misfreed>> /\ broke \subseteq broke'
      BY <2>1, <2>2, <2>4
    <3> QED BY <3>1 DEF SlotsOwned
  <2> QED BY <2>3, <2>4
<1>2. CASE XhcSetState
  <2>1. hc'.slots = hc.slots
    BY <1>0, <1>2, HaltOutcomes, RunOutcomes DEF XhcSetState
  <2> QED BY <1>2, <2>1 DEF XhcSetState, SlotsOwned
<1>3. CASE XhciDelAsyncIntTransfer
  <2>1. xhc'.pool = xhc.pool /\ xhc'.ctx = xhc.ctx /\ xhc'.urbs \subseteq xhc.urbs
    BY <1>0, <1>3 DEF XhciDelAsyncIntTransfer, Instances
  <2> QED BY <1>3, <2>1 DEF XhciDelAsyncIntTransfer, SlotsOwned
<1>4. CASE XhciInsertAsyncIntTransfer
  <2>1. PICK s \in Enabled(xhc) : xhc' = [xhc EXCEPT !.urbs = @ \cup {s}]
    BY <1>4 DEF XhciInsertAsyncIntTransfer
  <2>2. xhc'.pool = xhc.pool /\ xhc'.ctx = xhc.ctx /\ xhc'.urbs = xhc.urbs \cup {s}
    BY <1>0, <2>1 DEF Instances
  <2>3. s \in Slots /\ xhc.ctx[s].Enabled
    BY <2>1 DEF Enabled
  <2> QED BY <1>4, <2>2, <2>3 DEF XhciInsertAsyncIntTransfer, SlotsOwned
<1>5. CASE XhcExitBootService
  <2>1. PICK r \in HaltHC(hc) :
          /\ hc' = ClearBiosOwnership(r.hc)
          /\ broke' = IF r.ok THEN broke ELSE broke \cup {"halt timed out"}
    BY <1>5 DEF XhcExitBootService
  <2>2. r.hc \in Controllers /\ r.hc.slots = hc.slots
    BY <1>0, HaltOutcomes
  <2>3. hc'.slots = hc.slots
    BY <2>1, <2>2 DEF ClearBiosOwnership, Controllers
  <2>4. xhc'.pool = xhc.pool /\ xhc'.ctx = xhc.ctx /\ xhc'.urbs = xhc.urbs
    BY <1>0, <1>5 DEF XhcExitBootService, Instances
  <2> QED BY <1>5, <2>1, <2>3, <2>4 DEF XhcExitBootService, SlotsOwned
<1>6. CASE ExitOverFreed
  <2>1. hc'.slots = hc.slots
    BY <1>0, <1>6, HaltOutcomes DEF ExitOverFreed, ClearBiosOwnership, Controllers
  <2> QED BY <1>6, <2>1 DEF ExitOverFreed, SlotsOwned
<1> QED BY <1>1, <1>2, <1>3, <1>4, <1>5, <1>6 DEF Calls

LEMMA SlotsOwnedPortCalls ==
  ASSUME TypeInv, TypeInv', SlotsOwned, PortCalls
  PROVE  SlotsOwned'
<1>0. hc \in Controllers /\ xhc \in Instances
  BY DEF TypeInv
<1>1. CASE SetPortReset
  <2>1. hc'.slots = hc.slots
    BY <1>0, <1>1, RunOutcomes DEF SetPortReset, Outcome
  <2> QED BY <1>1, <2>1 DEF SetPortReset, SlotsOwned
<1>2. CASE PollPortStatusChange
  <2>0. call \in PortCallsT
    BY <1>2 DEF PollPortStatusChange, TypeInv
  <2>1. PICK gone \in IF call.seen.chg = {} THEN {{}}
                      ELSE SUBSET {s \in OnPort(xhc, call.port) : Accepts(s)} :
          /\ misfreed' = (misfreed \/ StrayFree(xhc, gone))
          /\ \/ xhc' = Disabled(xhc, gone) /\ hc' = [hc EXCEPT !.slots = @ \ gone]
             \/ \E s \in Slots \ (hc.slots \ gone) :
                  /\ xhc' = SetUp(Disabled(xhc, gone), s, call.port)
                  /\ hc' = [hc EXCEPT !.slots = (@ \ gone) \cup {s}]
    BY <1>2 DEF PollPortStatusChange, SetUp
  <2>2. \A s \in gone : s \in Enabled(xhc) /\ Accepts(s)
    BY <2>1 DEF OnPort
  <2>3. ~misfreed /\ ~misfreed'
    BY <2>1, <2>2, NotStray DEF SlotsOwned
  <2>4. UNCHANGED <<broke, misfreed>>
    BY <1>2, <2>3 DEF PollPortStatusChange, TypeInv
  <2>5. CASE xhc' = Disabled(xhc, gone) /\ hc' = [hc EXCEPT !.slots = @ \ gone]
    <3>1. hc'.slots \subseteq hc.slots
      BY <1>0, <2>5 DEF Controllers
    <3> QED BY <2>4, <2>5, <3>1, DisabledSlots
  <2>6. ASSUME NEW s \in Slots \ (hc.slots \ gone),
               xhc' = SetUp(Disabled(xhc, gone), s, call.port),
               hc' = [hc EXCEPT !.slots = (@ \ gone) \cup {s}]
        PROVE  SlotsOwned'
    <3>1. call.port \in Ports
      BY <2>0 DEF PortCallsT
    <3> DEFINE x == Disabled(xhc, gone)
    <3>2. /\ x \in Instances /\ x.pool = xhc.pool /\ x.urbs = xhc.urbs
          /\ \A t \in Slots : /\ x.ctx[t].pool = xhc.ctx[t].pool
                              /\ x.ctx[t].Enabled <=> xhc.ctx[t].Enabled /\ t \notin gone
      BY <1>0, DisabledType
    <3>3. /\ xhc'.pool = x.pool /\ xhc'.urbs = x.urbs /\ xhc'.ctx[s].pool = x.pool
          /\ \A t \in Slots \ {s} : xhc'.ctx[t] = x.ctx[t]
      <4>1. x \in Instances /\ s \in Slots
            /\ xhc' = SetUp(x, s, call.port)
        BY <2>6, <3>2
      <4> QED BY <3>1, <4>1, SlotSetUp
    <3>4. hc'.slots \subseteq hc.slots \cup {s} /\ xhc.urbs \subseteq Slots /\ hc.slots \subseteq Slots
      BY <1>0, <2>6 DEF Controllers, Instances
    <3> HIDE DEF x
    <3> QED BY <2>4, <3>2, <3>3, <3>4 DEF SlotsOwned
  <2> QED BY <2>1, <2>5, <2>6
<1>3. CASE UNCHANGED <<hc, xhc, broke, misfreed>>
  BY <1>3 DEF SlotsOwned
<1> QED
  BY <1>1, <1>2, <1>3
     DEF PortCalls, WritePortReset, WaitPortReset, ClearPortEnable, WritePortEnable,
         ClearPortChange, GetRootHubPortStatus, ReadForChange, WriteForChange

LEMMA SlotsOwnedNext ==
  ASSUME TypeInv, TypeInv', Owned, SlotsOwned, [Next]_vars
  PROVE  SlotsOwned'
<1>1. CASE UNCHANGED vars
  BY <1>1 DEF SlotsOwned, vars
<1>2. CASE Hardware
  <2>1. hc \in Controllers
    BY DEF TypeInv
  <2>2. hc'.slots = hc.slots /\ UNCHANGED <<xhc, broke, misfreed>>
    BY <1>2, <2>1
       DEF Hardware, HaltCompletes, HostSystemError, Plug, PortResetDone, PortEvent, Controllers
  <2> QED BY <2>2 DEF SlotsOwned
<1> QED
  BY <1>1, <1>2, SlotsOwnedStart, SlotsOwnedStop, SlotsOwnedCalls, SlotsOwnedPortCalls DEF Next

-----------------------------------------------------------------------------
(* The exit events and the instances they name.                               *)

\* FREE_POOL with every event that is left known to be an orphan.
LEMMA FreePoolEvents ==
  ASSUME TypeInv, EventsNamed, NEW h, FreePool(h), UNCHANGED <<exit, built>>,
         \/ orphans' = orphans /\ step \in {"take", "timer", "event"}
         \/ orphans' = orphans \cup {xhc.id} /\ step = "install" /\ 0 < xhc.id /\ xhc.id <= built
  PROVE  EventsNamed'
<1>1. step' = "off" /\ xhc'.id = 0
  BY NewInstanceType DEF FreePool
<1>2. \A e \in exit' \cup orphans' : 0 < e /\ e <= built'
  BY DEF EventsNamed
<1>3. exit' \subseteq orphans'
  BY DEF EventsNamed
<1>4. xhc'.id \notin exit'
  BY <1>1, <1>2
<1> QED BY <1>1, <1>2, <1>3, <1>4 DEF EventsNamed, Built

LEMMA EventsStart ==
  ASSUME TypeInv, EventsNamed, Start
  PROVE  EventsNamed'
<1>0. xhc \in Instances /\ xhc.id \in Nat /\ built \in Nat /\ exit \subseteq Nat /\ orphans \subseteq Nat
  BY DEF TypeInv, Instances
<1> USE DEF Built
<1>1. CASE OpenPciIo
  BY <1>1 DEF OpenPciIo, EventsNamed
<1>2. CASE CreateUsbHc
  <2>1. \/ step' = "take" /\ xhc'.id = built + 1
        \/ step' = "shut" /\ xhc'.id = 0
    BY <1>0, <1>2, NewInstanceType DEF CreateUsbHc
  <2>2. xhc'.id \notin exit /\ xhc.id \notin exit
    BY <1>0, <1>2, <2>1 DEF CreateUsbHc, EventsNamed
  <2>3. UNCHANGED <<exit, orphans, built>>
    BY <1>2 DEF CreateUsbHc
  <2> QED BY <1>0, <2>1, <2>2, <2>3 DEF EventsNamed
<1>3. CASE StartReset
  <2>1. step = "take" /\ UNCHANGED <<exit, orphans, built>>
    BY <1>3 DEF StartReset
  <2>2. CASE step' = "sched" /\ xhc' = xhc
    BY <2>1, <2>2 DEF EventsNamed
  <2>3. CASE \E h : FreePool(h)
    BY <2>1, <2>3, FreePoolEvents
  <2> QED BY <1>3, <2>2, <2>3 DEF StartReset
<1>4. CASE StartSched
  <2>1. step = "sched" /\ step' = "run" /\ built' = built + 1 /\ UNCHANGED <<exit, orphans>>
    BY <1>4 DEF StartSched
  <2>2. xhc' = [xhc EXCEPT !.pool = built + 1]
    BY <1>4 DEF StartSched, InitSched
  <2>3. xhc'.id = xhc.id
    BY <1>0, <2>2 DEF Instances
  <2> QED BY <1>0, <2>1, <2>3 DEF EventsNamed
<1>5. CASE StartRun
  BY <1>5 DEF StartRun, EventsNamed
<1>6. CASE StartTimer
  <2>1. step = "timer" /\ UNCHANGED <<exit, orphans, built>>
    BY <1>6 DEF StartTimer
  <2>2. CASE xhc' = [xhc EXCEPT !.timer = "armed"] /\ step' = "event"
    <3>1. xhc'.id = xhc.id
      BY <1>0, <2>2 DEF Instances
    <3> QED BY <2>1, <2>2, <3>1 DEF EventsNamed
  <2>3. CASE \E h : FreePool(h)
    BY <2>1, <2>3, FreePoolEvents
  <2> QED BY <1>6, <2>2, <2>3 DEF StartTimer
<1>7. CASE StartExitEvent
  <2>1. step = "event" /\ UNCHANGED <<orphans, built>>
    BY <1>7 DEF StartExitEvent
  <2>2. CASE exit' = exit \cup {xhc.id} /\ step' = "install" /\ xhc' = xhc
    BY <1>0, <2>1, <2>2 DEF EventsNamed
  <2>3. CASE FailLate /\ UNCHANGED exit
    BY <2>1, <2>3, FreePoolEvents DEF FailLate
  <2> QED BY <1>7, <2>2, <2>3 DEF StartExitEvent
<1>8. CASE StartInstall
  <2>1. step = "install" /\ UNCHANGED <<exit, built>>
    BY <1>8 DEF StartInstall
  <2>2. CASE step' = "up" /\ UNCHANGED <<xhc, orphans>>
    BY <2>1, <2>2 DEF EventsNamed
  <2>3. CASE FailLate /\ orphans' = orphans \cup {xhc.id}
    <3>1. 0 < xhc.id /\ xhc.id <= built
      BY <2>1 DEF EventsNamed
    <3> QED BY <2>1, <2>3, <3>1, FreePoolEvents DEF FailLate
  <2> QED BY <1>8, <2>2, <2>3 DEF StartInstall
<1> QED BY <1>1, <1>2, <1>3, <1>4, <1>5, <1>6, <1>7, <1>8 DEF Start

LEMMA EventsStop ==
  ASSUME TypeInv, EventsNamed, Stop
  PROVE  EventsNamed'
<1>0. xhc \in Instances /\ xhc.id \in Nat
  BY DEF TypeInv, Instances
<1> USE DEF Built
<1>1. CASE Uninstall
  <2>1. xhc'.id = xhc.id
    BY <1>0, <1>1 DEF Uninstall, Instances
  <2> QED BY <1>1, <2>1 DEF Uninstall, Idle, EventsNamed
<1>2. CASE DisableSlots
  <2>1. xhc'.id = xhc.id
    BY <1>0, <1>2, DisabledType DEF DisableSlots
  <2> QED BY <1>2, <2>1 DEF DisableSlots, EventsNamed
<1>3. CASE StopEvents
  <2>1. xhc'.id = xhc.id
    BY <1>0, <1>3 DEF StopEvents, Instances
  <2> QED BY <1>3, <2>1 DEF StopEvents, CloseExitEvent, EventsNamed
<1>4. CASE StopHalt
  BY <1>4 DEF StopHalt, EventsNamed
<1>5. CASE StopFree
  <2>1. xhc'.id = 0 /\ step = "free" /\ step' = "off" /\ UNCHANGED <<exit, orphans, built>>
    BY <1>5, NewInstanceType DEF StopFree
  <2> QED BY <2>1 DEF EventsNamed
<1> QED BY <1>1, <1>2, <1>3, <1>4, <1>5 DEF Stop

LEMMA EventsCalls ==
  ASSUME TypeInv, EventsNamed, Calls
  PROVE  EventsNamed'
<1>0. xhc \in Instances /\ xhc.id \in Nat /\ built \in Nat /\ exit \subseteq Nat /\ orphans \subseteq Nat
  BY DEF TypeInv, Instances
<1> USE DEF Built
<1>1. CASE XhcReset
  <2>1. step = "up" /\ UNCHANGED <<step, exit, orphans>>
    BY <1>1 DEF XhcReset, Idle
  <2>2. \/ xhc' = xhc /\ built' = built
        \/ \E g : xhc' = InitSched(g, DelAllAsyncIntTransfers(xhc), built + 1).xhc /\ built' = built + 1
    BY <1>1 DEF XhcReset
  <2>3. xhc'.id = xhc.id
    BY <1>0, <2>2 DEF InitSched, DelAllAsyncIntTransfers, Instances
  <2>4. built' = built \/ built' = built + 1
    BY <2>2
  <2> QED BY <1>0, <2>1, <2>3, <2>4 DEF EventsNamed
<1>2. CASE XhcSetState
  BY <1>2 DEF XhcSetState, EventsNamed
<1>3. CASE XhciDelAsyncIntTransfer \/ XhciInsertAsyncIntTransfer
  <2>1. xhc'.id = xhc.id
    BY <1>0, <1>3 DEF XhciDelAsyncIntTransfer, XhciInsertAsyncIntTransfer, Instances
  <2> QED BY <1>3, <2>1 DEF XhciDelAsyncIntTransfer, XhciInsertAsyncIntTransfer, EventsNamed
<1>4. CASE XhcExitBootService
  <2>1. xhc'.id = xhc.id
    BY <1>0, <1>4 DEF XhcExitBootService, Instances
  <2>2. step = "up" /\ step' = "os" /\ UNCHANGED <<exit, orphans, built>>
    BY <1>4 DEF XhcExitBootService, Idle
  <2> QED BY <2>1, <2>2 DEF EventsNamed
<1>5. CASE ExitOverFreed
  BY <1>5 DEF ExitOverFreed, EventsNamed
<1> QED BY <1>1, <1>2, <1>3, <1>4, <1>5 DEF Calls

LEMMA EventsNext ==
  ASSUME TypeInv, EventsNamed, [Next]_vars
  PROVE  EventsNamed'
<1>1. CASE UNCHANGED <<step, xhc, exit, orphans, built>>
  BY <1>1 DEF EventsNamed
<1>2. CASE PollPortStatusChange
  <2>0. xhc \in Instances /\ call.port \in Ports
    BY <1>2 DEF PollPortStatusChange, TypeInv, PortCallsT
  <2>1. PICK gone : \/ xhc' = Disabled(xhc, gone)
                    \/ \E s \in Slots : xhc' = SetUp(Disabled(xhc, gone), s, call.port)
    BY <1>2 DEF PollPortStatusChange, SetUp
  <2>2. Disabled(xhc, gone) \in Instances /\ Disabled(xhc, gone).id = xhc.id
    BY <2>0, DisabledType
  <2>3. xhc'.id = xhc.id
    BY <2>0, <2>1, <2>2, SlotSetUp
  <2> QED BY <1>2, <2>3 DEF PollPortStatusChange, EventsNamed
<1>3. CASE UNCHANGED vars
  BY <1>1, <1>3 DEF vars
<1>4. CASE PortCalls
  BY <1>1, <1>2, <1>4
     DEF PortCalls, SetPortReset, WritePortReset, WaitPortReset, ClearPortEnable, WritePortEnable,
         ClearPortChange, GetRootHubPortStatus, ReadForChange, WriteForChange
<1>5. CASE Hardware
  BY <1>1, <1>5 DEF Hardware, HaltCompletes, HostSystemError, Plug, PortResetDone, PortEvent
<1> QED BY <1>3, <1>4, <1>5, EventsStart, EventsStop, EventsCalls DEF Next

-----------------------------------------------------------------------------
(* What the invariants are for.                                               *)

LifeInv == TypeInv /\ Owned /\ EventsNamed /\ SlotsOwned /\ CallHeld

LEMMA LifeInvariant == Spec => []LifeInv
<1>1. Init => LifeInv
  <2> SUFFICES ASSUME Init PROVE LifeInv
    OBVIOUS
  <2>1. Owned /\ CallHeld
    BY NewInstanceType DEF Init, Owned, CallHeld, Unbuilt, Built, NewInstance
  <2>2. SlotsOwned
    BY DEF Init, SlotsOwned, NoInstance, NewInstance, NoSlots
  <2>3. EventsNamed
    BY NewInstanceType DEF Init, EventsNamed, Built
  <2> QED BY <2>1, <2>2, <2>3, TypeInit DEF LifeInv
<1>2. LifeInv /\ [Next]_vars => LifeInv'
  BY TypeNext, OwnedNext, EventsNext, SlotsOwnedNext, CallHeldNext DEF LifeInv
<1> QED BY <1>1, <1>2, PTL DEF Spec

\* For any number of slots, ports and schedules: while the controller is not
\* halted it walks the schedule of the live instance and nothing else, except
\* after one of the three failures that the driver ignores.
THEOREM OwnMemory == Spec => []RunsOverOwnMemory
<1>1. LifeInv => RunsOverOwnMemory
  BY DEF LifeInv, Owned, RunsOverOwnMemory, Lost, Built
<1> QED BY <1>1, LifeInvariant, PTL

\* For any number of slots, ports and schedules: the monitor timer finds memory
\* that is allocated, every URB of its list belongs to the schedule in use
\* unless the controller was reset with devices attached, and every exit event
\* names the instance in memory, except those of instances that were freed
\* when Start failed to install the protocol.
THEOREM MonitorSafe == Spec => []MonitorSeesLiveMemory
<1>1. LifeInv => MonitorSeesLiveMemory
  <2> SUFFICES ASSUME LifeInv PROVE MonitorSeesLiveMemory
    OBVIOUS
  <2>1. step \in Built => xhc.pool \in live
    BY DEF LifeInv, Owned
  <2>2. xhc.timer = "armed" => xhc.pool \in live
    BY <2>1 DEF LifeInv, Owned
  <2>3. xhc.id \in exit => step \in Built /\ xhc.id \notin orphans
    BY DEF LifeInv, EventsNamed, Built
  <2>4. exit \ orphans \subseteq {xhc.id}
    BY DEF LifeInv, EventsNamed
  <2>5. \A s \in xhc.urbs : xhc.ctx[s].pool = xhc.pool \/ "reset over devices" \in broke
    BY DEF LifeInv, SlotsOwned
  <2> QED BY <2>1, <2>2, <2>3, <2>4, <2>5 DEF MonitorSeesLiveMemory
<1> QED BY <1>1, LifeInvariant, PTL

\* For any number of slots, ports and schedules, whichever step of Start fails
\* and whatever was reset: nothing is freed twice or into another pool; a
\* controller that is off, or was never created, holds no memory, no timer and
\* no exit event but the orphans of failed installs; and one that is off holds
\* no PciIo.  After a failed XhcCreateUsbHc ("shut") PciIo is held.
THEOREM GivenBack == Spec => []GivenBackOnce
<1>1. LifeInv => GivenBackOnce
  <2> SUFFICES ASSUME LifeInv PROVE GivenBackOnce
    OBVIOUS
  <2>1. step \in {"off", "shut"} => xhc = NewInstance(xhc.id) /\ live = {}
    BY DEF LifeInv, Owned, Unbuilt
  <2>2. NewInstance(xhc.id).timer = "none"
    BY DEF NewInstance
  <2>3. step \in {"off", "shut"} => exit \subseteq orphans
    BY DEF LifeInv, EventsNamed
  <2>4. step = "off" => ~pci.open /\ ~pci.enabled
    BY DEF LifeInv, Owned
  <2> QED BY <2>1, <2>2, <2>3, <2>4 DEF LifeInv, SlotsOwned, GivenBackOnce
<1> QED BY <1>1, LifeInvariant, PTL

-----------------------------------------------------------------------------
(* What the port calls write.                                                 *)

LEMMA WrittenFacts ==
  ASSUME port \in [Ports -> PortStates], NEW p \in Ports, NEW w
  PROVE  /\ \A q \in Ports \ {p} : Written(p, w)[q] = port[q]
         /\ Written(p, w)[p].chg = port[p].chg \ w.chg
         /\ Written(p, w)[p].ped <=> port[p].ped /\ ~w.ped
<1> DEFINE c == [[[port[p] EXCEPT !.ped = @ /\ ~w.ped] EXCEPT !.pr = @ \/ w.pr]
                   EXCEPT !.chg = @ \ w.chg]
<1>1. c.chg = port[p].chg \ w.chg /\ (c.ped <=> port[p].ped /\ ~w.ped)
  BY DEF PortStates
<1>2. Written(p, w) = [port EXCEPT ![p] = c]
  BY DEF Written
<1> HIDE DEF c
<1> QED BY <1>1, <1>2

\* For any number of ports and change bits: short of a reset of the whole
\* controller, a port loses a change bit only to a call that named it or had
\* seen it, and is disabled only by the ways ExactPortWrites lists.
THEOREM PortWritesExact == Spec => ExactPortWrites
<1> DEFINE Exact(p) ==
       /\ \A b \in port[p].chg \ port'[p].chg :
            call = NoCall \/ (call.port = p /\ b \in call.todo)
       /\ port[p].ped /\ ~port'[p].ped =>
            \/ port[p].ccs # port'[p].ccs
            \/ call = NoCall
            \/ call.op = "disable" /\ call.port = p
            \/ port[p].pr /\ ~port'[p].pr
<1>1. TypeInv /\ CallHeld /\ Next => \A p \in Ports : Exact(p)
  <2> SUFFICES ASSUME TypeInv, CallHeld, Next PROVE \A p \in Ports : Exact(p)
    OBVIOUS
  <2>0. port \in [Ports -> PortStates] /\ (call # NoCall => call \in PortCallsT)
    BY DEF TypeInv
  <2>1. CASE port' = port
    BY <2>1
  <2>2. CASE call = NoCall
    BY <2>2
  <2>3. CASE StartReset \/ XhcReset
    <3>1. call = NoCall
      BY <2>3 DEF StartReset, XhcReset, Idle, CallHeld
    <3> QED BY <3>1
  <2>4. ASSUME call # NoCall, NEW w, port' = Written(call.port, w), w.chg \subseteq call.todo,
               w.ped => call.op = "disable"
        PROVE  \A p \in Ports : Exact(p)
    <3>1. call.port \in Ports
      BY <2>0, <2>4 DEF PortCallsT
    <3>2. /\ \A q \in Ports \ {call.port} : port'[q] = port[q]
          /\ port'[call.port].chg = port[call.port].chg \ w.chg
          /\ port'[call.port].ped <=> port[call.port].ped /\ ~w.ped
      BY <2>0, <2>4, <3>1, WrittenFacts
    <3>3. Exact(call.port)
      BY <2>4, <3>2
    <3>4. \A q \in Ports \ {call.port} : Exact(q)
      BY <3>2
    <3> QED BY <3>3, <3>4
  <2>5. CASE WritePortReset
    <3>1. ResetValue(call.seen).chg = {} /\ ~ResetValue(call.seen).ped
      BY <2>0, <2>5 DEF WritePortReset, ResetValue, Mask, PortCallsT, PortStates
    <3> QED BY <2>4, <2>5, <3>1 DEF WritePortReset
  <2>6. CASE WritePortEnable
    <3> DEFINE w == [Mask(call.seen) EXCEPT !.ped = TRUE, !.pr = FALSE]
    <3>1. w.chg = {} /\ port' = Written(call.port, w) /\ call # NoCall /\ call.op = "disable"
      BY <2>0, <2>6 DEF WritePortEnable, Mask, PortCallsT, PortStates
    <3> HIDE DEF w
    <3> QED BY <2>4, <3>1
  <2>7. CASE WriteForChange
    <3>1. PICK l \in call.latch : port' = Written(call.port, ChangeValue(l.state, l.bit))
      BY <2>7 DEF WriteForChange
    <3>2. call # NoCall /\ l.bit \in call.todo
      BY <2>7, <3>1 DEF WriteForChange, CallHeld
    <3>3. l.state \in PortStates
      BY <2>0, <3>1, <3>2 DEF PortCallsT
    <3>4. ChangeValue(l.state, l.bit).chg = {l.bit} /\ ~ChangeValue(l.state, l.bit).ped
      BY <3>3 DEF ChangeValue, Mask, PortStates
    <3> QED BY <2>4, <3>1, <3>2, <3>4
  <2>8. CASE Plug
    <3>1. PICK p \in Ports :
            port' = [port EXCEPT ![p] = [port[p] EXCEPT !.ccs = ~@, !.ped = FALSE,
                                                        !.chg = @ \cup {"CSC"}]]
      BY <2>8 DEF Plug, PortEvent
    <3>2. /\ \A q \in Ports \ {p} : port'[q] = port[q]
          /\ port'[p].chg = port[p].chg \cup {"CSC"} /\ port'[p].ccs = ~port[p].ccs
          /\ port[p].ccs \in BOOLEAN
      BY <2>0, <3>1 DEF PortStates
    <3> QED BY <3>2
  <2>9. CASE PortResetDone
    <3>1. PICK p \in Ports :
            /\ port[p].pr
            /\ port' = [port EXCEPT ![p] = [port[p] EXCEPT !.pr = FALSE, !.ped = port[p].ccs,
                                                           !.chg = @ \cup {"PRC"}]]
      BY <2>9 DEF PortResetDone, PortEvent
    <3>2. /\ \A q \in Ports \ {p} : port'[q] = port[q]
          /\ port'[p].chg = port[p].chg \cup {"PRC"} /\ ~port'[p].pr
      BY <2>0, <3>1 DEF PortStates
    <3> QED BY <3>1, <3>2
  <2> QED
    BY <2>1, <2>2, <2>3, <2>5, <2>6, <2>7, <2>8, <2>9
       DEF Next, Start, Stop, Calls, PortCalls, Hardware, OpenPciIo, CreateUsbHc, StartSched,
           StartRun, StartTimer, StartExitEvent, StartInstall, Uninstall, DisableSlots,
           StopEvents, StopHalt, StopFree, XhcSetState, XhciInsertAsyncIntTransfer,
           XhciDelAsyncIntTransfer, XhcExitBootService, ExitOverFreed, SetPortReset, WaitPortReset,
           ClearPortEnable, ClearPortChange, GetRootHubPortStatus, ReadForChange,
           PollPortStatusChange, HaltCompletes, HostSystemError
<1>2. LifeInv /\ [Next]_vars => [\A p \in Ports : Exact(p)]_vars
  BY <1>1 DEF LifeInv
<1> QED BY <1>2, LifeInvariant, PTL DEF Spec, ExactPortWrites

-----------------------------------------------------------------------------
(* The shared memory (HcMem).                                              *)
(* Arithmetic, and induction over sets of numbers.                         *)

LEMMA FromZeroOn ==
    ASSUME NEW S, 0 \in S, \A k \in Nat : k \in S => k + 1 \in S
    PROVE  Nat \subseteq S
<1> DEFINE order == {ss \in Nat \X Nat : ss[1] < ss[2]}
           T     == Nat \ S
<1>1. IsWellFoundedOn(order, Nat)
  BY NatLessThanWellFounded, Zenon DEF OpToRel
<1> SUFFICES ASSUME T # {} PROVE FALSE
  OBVIOUS
<1>2. PICK m \in T : \A t \in T : <<t, m>> \notin order
  <2>1. T \subseteq Nat
    OBVIOUS
  <2> HIDE DEF order, T
  <2> QED BY <1>1, <2>1, WFMin
<1>3. m \in Nat /\ m \notin S /\ m # 0
  OBVIOUS
<1>4. m - 1 \in Nat /\ m - 1 < m /\ (m - 1) + 1 = m
  BY <1>3
<1>5. m - 1 \in T
  BY <1>3, <1>4
<1>6. <<m - 1, m>> \in order
  BY <1>3, <1>4
<1> QED BY <1>2, <1>5, <1>6

LEMMA DivMono ==
    ASSUME NEW b \in Nat \ {0}, NEW x \in Nat, NEW y \in Nat, x <= y
    PROVE  x \div b \in Nat /\ x \div b <= y \div b
OBVIOUS

LEMMA MulMono ==
    ASSUME NEW u \in Nat, NEW x \in Nat, NEW y \in Nat, x <= y
    PROVE  x * u \in Nat /\ x * u <= y * u
OBVIOUS

LEMMA MulSum ==
    ASSUME NEW u \in Nat, NEW x \in Nat, NEW y \in Nat
    PROVE  (x + y) * u = x * u + y * u
OBVIOUS

LEMMA AlignUp ==
    ASSUME NEW p \in Nat, NEW al \in Nat \ {0}
    PROVE  /\ Aligned(p, al) \in Nat /\ p <= Aligned(p, al) /\ Aligned(p, al) < p + al
BY DEF Aligned

-----------------------------------------------------------------------------
(* The search of one block.                                                *)

Nothing == [start |-> 0, available |-> 0]

\* A walk over the first m units of a block.
Walk(g, m, block, n, ring) ==
    g = [i \in 0 .. m |-> IF i = 0 THEN Nothing ELSE Look(block, n, ring, g[i - 1], i - 1)]

LEMMA WalkExists ==
    ASSUME NEW block, NEW n, NEW ring, NEW len \in Nat
    PROVE  \E g : Walk(g, len, block, n, ring)
<1> DEFINE S == {k \in Nat : \E g : Walk(g, k, block, n, ring)}
<1>1. 0 \in S
  <2> DEFINE g == [i \in 0 .. 0 |-> Nothing]
  <2>1. \A i \in 0 .. 0 : i = 0
    OBVIOUS
  <2>2. Walk(g, 0, block, n, ring)
    BY <2>1 DEF Walk
  <2> QED BY <2>2
<1>2. ASSUME NEW k \in Nat, k \in S PROVE k + 1 \in S
  <2>1. PICK g : Walk(g, k, block, n, ring)
    BY <1>2
  <2> DEFINE h == [i \in 0 .. k + 1 |->
                     IF i \in 0 .. k THEN g[i] ELSE Look(block, n, ring, g[k], k)]
  <2>2. \A i \in 0 .. k : g[i] = IF i = 0 THEN Nothing ELSE Look(block, n, ring, g[i - 1], i - 1)
    BY <2>1 DEF Walk
  <2>3. ASSUME NEW i \in 0 .. k + 1
        PROVE  h[i] = IF i = 0 THEN Nothing ELSE Look(block, n, ring, h[i - 1], i - 1)
    <3>1. CASE i \in 0 .. k
      <4>1. h[i] = g[i] /\ (i # 0 => h[i - 1] = g[i - 1])
        BY <3>1
      <4> QED BY <2>2, <3>1, <4>1
    <3>2. CASE i = k + 1
      <4>1. h[i] = Look(block, n, ring, g[k], k) /\ h[i - 1] = g[k] /\ i # 0 /\ i - 1 = k
        BY <3>2
      <4> QED BY <4>1
    <3> QED BY <3>1, <3>2
  <2>4. Walk(h, k + 1, block, n, ring)
    <3>1. h = [i \in 0 .. k + 1 |-> h[i]]
      OBVIOUS
    <3> HIDE DEF h
    <3> QED BY <2>3, <3>1 DEF Walk
  <2> QED BY <2>4
<1> QED BY <1>1, <1>2, FromZeroOn

LEMMA SearchIs ==
    ASSUME NEW block, NEW n, NEW ring, Length(block) \in Nat
    PROVE  \E g : Walk(g, Length(block), block, n, ring) /\ Search(block, n, ring) = g[Length(block)]
<1> DEFINE g == CHOOSE h : Walk(h, Length(block), block, n, ring)
<1>1. Walk(g, Length(block), block, n, ring)
  BY WalkExists
<1>2. Search(block, n, ring) = g[Length(block)]
  BY DEF Search, Walk, Nothing
<1> QED BY <1>1, <1>2

Window(a) == a \div Boundary

\* n units from s on would do.
Fits(block, n, ring, s) ==
    /\ \A u \in UnitsFrom(s, n) : u \notin block.bits
    /\ ring => Window(Base(block) + s) = Window(Base(block) + s + n - 1)

\* What the walk knows before it looks at unit i: the run in hand is free and in
\* one window, and no run that starts before it would do.
Scanned(block, n, ring, s, i) ==
    /\ s \in [start : Nat, available : 0 .. n]
    /\ s.start + s.available <= i
    /\ \A u \in UnitsFrom(s.start, s.available) : u \notin block.bits
    /\ ring /\ s.available > 0 =>
         Window(Base(block) + s.start) = Window(Base(block) + s.start + s.available - 1)
    /\ s.available < n =>
         /\ s.start + s.available = i
         /\ \A t \in Nat : t < s.start => ~Fits(block, n, ring, t)

LEMMA NoFitOverBit ==
    ASSUME NEW block, NEW n \in Nat \ {0}, NEW ring, NEW i \in Nat, i \in block.bits,
           NEW t \in Nat, t <= i, i < t + n
    PROVE  ~Fits(block, n, ring, t)
<1>1. i \in UnitsFrom(t, n)
  BY DEF UnitsFrom
<1> QED BY <1>1 DEF Fits

LEMMA NoFitOverBoundary ==
    ASSUME NEW block, NEW n \in Nat \ {0}, NEW ring, ring, NEW i \in Nat, Base(block) \in Nat,
           NEW t \in Nat, t < i, i < t + n, Crosses(Base(block) + i)
    PROVE  ~Fits(block, n, ring, t)
<1> DEFINE a == Base(block) + t
           b == Base(block) + i - 1
           c == Base(block) + i
           e == Base(block) + t + n - 1
<1>1. a \in Nat /\ b \in Nat /\ c \in Nat /\ e \in Nat /\ a <= b /\ b <= c /\ c <= e
  OBVIOUS
<1>2. Window(c) # Window(b)
  BY DEF Crosses, Window
<1>3. Boundary \in Nat \ {0}
  BY ParameterAssumption
<1> HIDE DEF a, b, c, e
<1>4. /\ Window(a) \in Nat /\ Window(b) \in Nat /\ Window(c) \in Nat
      /\ Window(a) <= Window(b) /\ Window(b) <= Window(c) /\ Window(c) <= Window(e)
  BY <1>1, <1>3, DivMono DEF Window
<1>5. Window(e) \in Nat
  BY <1>1, <1>3, DivMono DEF Window
<1>6. Window(a) # Window(e)
  BY <1>2, <1>4, <1>5
<1> QED BY <1>6 DEF Fits, a, e

LEMMA RunScanned ==
    ASSUME NEW block, NEW n \in Nat \ {0}, NEW ring \in BOOLEAN, NEW i \in Nat, NEW r,
           r \in [start : Nat, available : 0 .. n],
           r.start + r.available = i + 1,
           \A u \in UnitsFrom(r.start, r.available) : u \notin block.bits,
           r.available = 0 \/ (ring => Window(Base(block) + r.start)
                                        = Window(Base(block) + r.start + r.available - 1)),
           \A t \in Nat : t < r.start => ~Fits(block, n, ring, t)
    PROVE  Scanned(block, n, ring, r, i + 1)
<1>1. r.start \in Nat /\ r.available \in 0 .. n
  OBVIOUS
<1>2. r.start + r.available <= i + 1
  BY <1>1
<1>3. ring /\ r.available > 0 =>
         Window(Base(block) + r.start) = Window(Base(block) + r.start + r.available - 1)
  BY <1>1
<1> QED BY <1>2, <1>3, Zenon DEF Scanned

LEMMA LookScans ==
    ASSUME NEW block, NEW n \in Nat \ {0}, NEW ring \in BOOLEAN, NEW i \in Nat, NEW s,
           Base(block) \in Nat, Scanned(block, n, ring, s, i)
    PROVE  Scanned(block, n, ring, Look(block, n, ring, s, i), i + 1)
<1> DEFINE r == Look(block, n, ring, s, i)
<1> SUFFICES Scanned(block, n, ring, r, i + 1)
  OBVIOUS
<1>1. s.start \in Nat /\ s.available \in 0 .. n /\ s \in [start : Nat, available : 0 .. n]
      /\ s.start + s.available <= i
  BY DEF Scanned
<1>2. CASE s.available >= n
  <2>1. r = s
    BY <1>2 DEF Look
  <2> QED BY <1>1, <1>2, <2>1 DEF Scanned
<1>3. CASE ~(s.available >= n) /\ i \in block.bits
  <2>1. r = [start |-> i + 1, available |-> 0]
    BY <1>3 DEF Look
  <2>2. s.start + s.available = i /\ \A t \in Nat : t < s.start => ~Fits(block, n, ring, t)
    BY <1>1, <1>3 DEF Scanned
  <2>3. \A t \in Nat : t < i + 1 => ~Fits(block, n, ring, t)
    <3> SUFFICES ASSUME NEW t \in Nat, t < i + 1, t >= s.start PROVE ~Fits(block, n, ring, t)
      BY <1>1, <2>2
    <3>1. t <= i /\ i < t + n
      BY <1>1, <1>3, <2>2
    <3> QED BY <1>3, <3>1, NoFitOverBit
  <2>4. r.start = i + 1 /\ r.available = 0 /\ r \in [start : Nat, available : 0 .. n]
    BY <2>1
  <2>5. UnitsFrom(r.start, r.available) = {}
    BY <2>4 DEF UnitsFrom
  <2>6. r.start + r.available = i + 1 /\ \A u \in UnitsFrom(r.start, r.available) : u \notin block.bits
    BY <2>4, <2>5
  <2> HIDE DEF r
  <2> QED BY <2>3, <2>4, <2>6, RunScanned
<1>4. CASE /\ ~(s.available >= n) /\ i \notin block.bits
           /\ ring /\ s.available # 0 /\ Crosses(Base(block) + i)
  <2>1. r = [start |-> i, available |-> 1]
    BY <1>4 DEF Look
  <2>2. s.start + s.available = i /\ \A t \in Nat : t < s.start => ~Fits(block, n, ring, t)
    <3>1. s.available < n
      BY <1>1, <1>4
    <3> QED BY <3>1, Zenon DEF Scanned
  <2>3. \A t \in Nat : t < i => ~Fits(block, n, ring, t)
    <3> SUFFICES ASSUME NEW t \in Nat, t < i, t >= s.start PROVE ~Fits(block, n, ring, t)
      BY <1>1, <2>2
    <3>1. t < i /\ i < t + n
      BY <1>1, <1>4, <2>2
    <3> QED BY <1>4, <3>1, NoFitOverBoundary
  <2>4. r.start = i /\ r.available = 1 /\ r \in [start : Nat, available : 0 .. n]
    BY <2>1
  <2>5. UnitsFrom(r.start, r.available) = {i}
    BY <2>4 DEF UnitsFrom
  <2>6. /\ r.start + r.available = i + 1
        /\ \A u \in UnitsFrom(r.start, r.available) : u \notin block.bits
    BY <1>4, <2>4, <2>5
  <2>7. Window(Base(block) + r.start) = Window(Base(block) + r.start + r.available - 1)
    <3>1. Base(block) + r.start = Base(block) + r.start + r.available - 1
      BY <2>4
    <3> QED BY <3>1, Zenon
  <2> HIDE DEF r
  <2> QED BY <2>3, <2>4, <2>6, <2>7, RunScanned
<1>5. CASE /\ ~(s.available >= n) /\ i \notin block.bits
           /\ ~(ring /\ s.available # 0 /\ Crosses(Base(block) + i))
  <2>1. r = [s EXCEPT !.available = @ + 1]
    BY <1>5 DEF Look
  <2>2. /\ r.start = s.start /\ r.available = s.available + 1 /\ s.start + s.available = i
        /\ r \in [start : Nat, available : 0 .. n]
        /\ \A t \in Nat : t < s.start => ~Fits(block, n, ring, t)
    BY <1>1, <1>5, <2>1 DEF Scanned
  <2>3. \A u \in UnitsFrom(r.start, r.available) : u \in UnitsFrom(s.start, s.available) \/ u = i
    BY <1>1, <2>2 DEF UnitsFrom
  <2>4. \A u \in UnitsFrom(r.start, r.available) : u \notin block.bits
    BY <1>5, <2>3 DEF Scanned
  <2>5. ring => Window(Base(block) + r.start) = Window(Base(block) + r.start + r.available - 1)
    <3> SUFFICES ASSUME ring
                 PROVE  Window(Base(block) + s.start) = Window(Base(block) + i)
      <4>1. Base(block) + r.start + r.available - 1 = Base(block) + i
        BY <1>1, <2>2
      <4> QED BY <2>2, <4>1
    <3>1. CASE s.available = 0
      BY <1>1, <2>2, <3>1
    <3>2. CASE s.available # 0
      <4>1. Window(Base(block) + s.start) = Window(Base(block) + s.start + s.available - 1)
        BY <1>1, <3>2 DEF Scanned
      <4>2. Base(block) + s.start + s.available - 1 = (Base(block) + i) - 1
        BY <1>1, <2>2
      <4>3. Window(Base(block) + i) = Window((Base(block) + i) - 1)
        BY <1>5, <3>2 DEF Crosses, Window
      <4> QED BY <4>1, <4>2, <4>3
    <3> QED BY <3>1, <3>2
  <2>6. r.start + r.available = i + 1
    BY <1>1, <2>2
  <2> HIDE DEF r
  <2> QED BY <2>2, <2>4, <2>5, <2>6, RunScanned
<1> QED BY <1>2, <1>3, <1>4, <1>5

\* UsbHcAllocMemFromBlock finds a run that would do if and only if there is one.
LEMMA SearchFinds ==
    ASSUME NEW block, NEW n \in Nat \ {0}, NEW ring \in BOOLEAN,
           Base(block) \in Nat, Length(block) \in Nat
    PROVE  /\ Search(block, n, ring) \in [start : Nat, available : 0 .. n]
           /\ Finds(block, n, ring) =>
                /\ Search(block, n, ring).start + n <= Length(block)
                /\ Fits(block, n, ring, Search(block, n, ring).start)
           /\ ~Finds(block, n, ring) =>
                \A t \in Nat : t + n <= Length(block) => ~Fits(block, n, ring, t)
<1>1. PICK g : Walk(g, Length(block), block, n, ring) /\ Search(block, n, ring) = g[Length(block)]
  BY SearchIs
<1> DEFINE S == {k \in Nat : k <= Length(block) => Scanned(block, n, ring, g[k], k)}
<1>2. 0 \in S
  <2>1. g[0] = Nothing
    BY <1>1 DEF Walk
  <2>2. g[0] \in [start : Nat, available : 0 .. n] /\ g[0].start = 0 /\ g[0].available = 0
    BY <2>1 DEF Nothing
  <2>3. UnitsFrom(g[0].start, g[0].available) = {}
    BY <2>2 DEF UnitsFrom
  <2>4. Scanned(block, n, ring, g[0], 0)
    BY <2>2, <2>3 DEF Scanned
  <2> QED BY <2>4
<1>3. ASSUME NEW k \in Nat, k \in S PROVE k + 1 \in S
  <2> SUFFICES ASSUME k + 1 <= Length(block) PROVE Scanned(block, n, ring, g[k + 1], k + 1)
    OBVIOUS
  <2>1. Scanned(block, n, ring, g[k], k)
    BY <1>3
  <2>2. g[k + 1] = Look(block, n, ring, g[k], k)
    <3>1. k + 1 \in 0 .. Length(block) /\ k + 1 # 0 /\ (k + 1) - 1 = k
      OBVIOUS
    <3> QED BY <1>1, <3>1 DEF Walk
  <2> QED BY <2>1, <2>2, LookScans
<1>4. Length(block) \in S
  <2> HIDE DEF S
  <2> QED BY <1>2, <1>3, FromZeroOn
<1> DEFINE s == Search(block, n, ring)
<1>5. Scanned(block, n, ring, s, Length(block))
  BY <1>1, <1>4
<1> HIDE DEF s
<1>6. s \in [start : Nat, available : 0 .. n] /\ s.start + s.available <= Length(block)
  BY <1>5 DEF Scanned
<1>7. Finds(block, n, ring) <=> s.available = n
  BY <1>6 DEF Finds, s
<1>8. ASSUME s.available = n
      PROVE  s.start + n <= Length(block) /\ Fits(block, n, ring, s.start)
  BY <1>5, <1>6, <1>8 DEF Scanned, Fits
<1>9. ASSUME s.available # n, NEW t \in Nat, t + n <= Length(block)
      PROVE  ~Fits(block, n, ring, t)
  BY <1>5, <1>6, <1>9 DEF Scanned
<1> QED BY <1>6, <1>7, <1>8, <1>9 DEF s

-----------------------------------------------------------------------------
(* Runs of pages and units, and lists of blocks.                           *)

Apart(p, n, q, m) == p + n <= q \/ q + m <= p

LEMMA ApartMeans ==
    ASSUME NEW p \in Nat, NEW n \in Nat \ {0}, NEW q \in Nat, NEW m \in Nat \ {0}
    PROVE  Apart(p, n, q, m) <=> \A e \in p .. p + n - 1 : e \notin q .. q + m - 1
<1>1. CASE Apart(p, n, q, m)
  BY <1>1 DEF Apart
<1>2. CASE ~Apart(p, n, q, m)
  <2>1. CASE p <= q
    <3>1. q \in p .. p + n - 1 /\ q \in q .. q + m - 1
      BY <1>2, <2>1 DEF Apart
    <3> QED BY <1>2, <3>1
  <2>2. CASE ~(p <= q)
    <3>1. p \in p .. p + n - 1 /\ p \in q .. q + m - 1
      BY <1>2, <2>2 DEF Apart
    <3> QED BY <1>2, <3>1
  <2> QED BY <2>1, <2>2
<1> QED BY <1>1, <1>2

LEMMA FirstOf ==
    ASSUME NEW S, S \subseteq Nat, S # {}
    PROVE  Least(S) \in S
<1> DEFINE order == {ss \in Nat \X Nat : ss[1] < ss[2]}
<1>1. IsWellFoundedOn(order, Nat)
  BY NatLessThanWellFounded, Zenon DEF OpToRel
<1>2. PICK m \in S : \A t \in S : <<t, m>> \notin order
  <2> HIDE DEF order
  <2> QED BY <1>1, WFMin
<1>3. \A t \in S : t \in Nat /\ m \in Nat /\ ~(t < m)
  BY <1>2
<1>4. \A t \in S : m <= t
  BY <1>3
<1> QED BY <1>4 DEF Least

LEMMA OnlyOne ==
    ASSUME NEW i \in Nat
    PROVE  Least({i}) = i
BY DEF Least

Elements(s) == {s[i] : i \in DOMAIN s}
Distinct(s) == \A i, j \in DOMAIN s : s[i] = s[j] => i = j

\* UsbHcInsertMemBlockToPool.
SecondIn(s, b, t) == t = <<Head(s), b>> \o Tail(s)

LEMMA Inserted ==
    ASSUME NEW S, NEW s \in Seq(S), s # <<>>, NEW b \in S, NEW t, SecondIn(s, b, t)
    PROVE  /\ t \in Seq(S) /\ t # <<>> /\ Elements(t) = Elements(s) \cup {b}
           /\ Distinct(s) /\ b \notin Elements(s) => Distinct(t)
<1>1. Len(s) \in Nat /\ Len(s) >= 1 /\ DOMAIN s = 1 .. Len(s) /\ \A i \in 1 .. Len(s) : s[i] \in S
  BY EmptySeq
<1>2. Tail(s) \in Seq(S) /\ Len(Tail(s)) = Len(s) - 1
      /\ \A i \in 1 .. Len(s) - 1 : Tail(s)[i] = s[i + 1]
  BY HeadTailProperties
<1>3. <<Head(s), b>> \in Seq(S) /\ Len(<<Head(s), b>>) = 2 /\ Head(s) = s[1]
  BY <1>1
<1>4. /\ t \in Seq(S) /\ Len(t) = Len(s) + 1
      /\ \A i \in 1 .. Len(t) : t[i] = IF i <= 2 THEN <<Head(s), b>>[i] ELSE Tail(s)[i - 2]
  BY <1>1, <1>2, <1>3, ConcatProperties DEF SecondIn
<1>5. DOMAIN t = 1 .. Len(s) + 1
  BY <1>4
<1>6. /\ t[1] = s[1] /\ t[2] = b
      /\ \A i \in 3 .. Len(s) + 1 : t[i] = s[i - 1]
  BY <1>1, <1>2, <1>3, <1>4
<1>7. Elements(t) = Elements(s) \cup {b}
  <2>1. \A i \in 1 .. Len(s) + 1 : t[i] \in Elements(s) \cup {b}
    <3> TAKE i \in 1 .. Len(s) + 1
    <3>1. CASE i = 1
      BY <1>1, <1>6, <3>1 DEF Elements
    <3>2. CASE i = 2
      BY <1>6, <3>2
    <3>3. CASE i >= 3
      <4>1. i \in 3 .. Len(s) + 1 /\ i - 1 \in DOMAIN s
        BY <1>1, <3>3
      <4> QED BY <1>6, <4>1 DEF Elements
    <3> QED BY <1>1, <3>1, <3>2, <3>3
  <2>2. \A i \in DOMAIN s : s[i] \in Elements(t)
    <3> TAKE i \in DOMAIN s
    <3>1. CASE i = 1
      BY <1>1, <1>5, <1>6, <3>1 DEF Elements
    <3>2. CASE i # 1
      <4>1. i + 1 \in 3 .. Len(s) + 1 /\ (i + 1) - 1 = i /\ i + 1 \in DOMAIN t
        BY <1>1, <1>5, <3>2
      <4> QED BY <1>6, <4>1 DEF Elements
    <3> QED BY <3>1, <3>2
  <2>3. b \in Elements(t)
    BY <1>1, <1>5, <1>6 DEF Elements
  <2>4. Elements(t) \subseteq Elements(s) \cup {b}
    BY <1>5, <2>1 DEF Elements
  <2> QED BY <2>2, <2>3, <2>4 DEF Elements
<1>8. ASSUME Distinct(s), b \notin Elements(s), NEW i \in DOMAIN t, NEW j \in DOMAIN t, t[i] = t[j]
      PROVE  i = j
  <2> DEFINE back(k) == IF k = 1 THEN 1 ELSE k - 1
  <2>1. ASSUME NEW k \in DOMAIN t, k # 2
        PROVE  back(k) \in DOMAIN s /\ t[k] = s[back(k)] /\ t[k] # b
    <3>1. back(k) \in DOMAIN s /\ t[k] = s[back(k)]
      <4>1. CASE k = 1
        BY <1>1, <1>6, <4>1
      <4>2. CASE k # 1
        <5>1. k \in 3 .. Len(s) + 1
          BY <1>1, <1>5, <2>1, <4>2
        <5> QED BY <1>1, <1>6, <4>2, <5>1
      <4> QED BY <4>1, <4>2
    <3> QED BY <1>8, <3>1 DEF Elements
  <2>2. CASE i = 2 \/ j = 2
    BY <1>6, <1>8, <2>1, <2>2
  <2>3. CASE i # 2 /\ j # 2
    <3>1. back(i) = back(j)
      <4>1. back(i) \in DOMAIN s /\ back(j) \in DOMAIN s /\ s[back(i)] = s[back(j)]
        BY <1>8, <2>1, <2>3
      <4> HIDE DEF back
      <4> QED BY <1>8, <4>1 DEF Distinct
    <3>2. i \in Nat \ {0} /\ j \in Nat \ {0}
      BY <1>1, <1>5
    <3> QED BY <2>3, <3>1, <3>2
  <2> QED BY <2>2, <2>3
<1>9. Distinct(s) /\ b \notin Elements(s) => Distinct(t)
  BY <1>8 DEF Distinct
<1>10. t # <<>>
  BY <1>1, <1>4
<1> QED BY <1>4, <1>7, <1>9, <1>10

\* A list without its ith entry.
Gapped(s, len, i, t) ==
    /\ DOMAIN t = 1 .. len - 1
    /\ \A j \in 1 .. len - 1 : t[j] = IF j < i THEN s[j] ELSE s[j + 1]

LEMMA Gap ==
    ASSUME NEW len \in Nat, NEW i \in 1 .. len, NEW s, DOMAIN s = 1 .. len, Distinct(s),
           NEW t, Gapped(s, len, i, t)
    PROVE  Elements(t) = Elements(s) \ {s[i]} /\ Distinct(t)
<1> DEFINE from(j) == IF j < i THEN j ELSE j + 1
<1>1. ASSUME NEW j \in DOMAIN t
      PROVE  t[j] = s[from(j)] /\ from(j) \in DOMAIN s /\ from(j) # i
  BY DEF Gapped
<1>2. \A j \in DOMAIN s : s[j] = s[i] => j = i
  BY DEF Distinct
<1>0. DOMAIN t = 1 .. len - 1
  BY DEF Gapped
<1>3. Elements(t) = Elements(s) \ {s[i]}
  <2>1. ASSUME NEW j \in DOMAIN t PROVE t[j] \in Elements(s) /\ t[j] # s[i]
    BY <1>1, <1>2 DEF Elements
  <2>2. ASSUME NEW j \in DOMAIN s, s[j] # s[i] PROVE s[j] \in Elements(t)
    <3>1. CASE j < i
      <4>1. j \in DOMAIN t /\ from(j) = j
        BY <1>0, <3>1
      <4> QED BY <1>1, <4>1 DEF Elements
    <3>2. CASE j > i
      <4>1. j - 1 \in DOMAIN t /\ from(j - 1) = j
        BY <1>0, <3>2
      <4> QED BY <1>1, <4>1 DEF Elements
    <3> QED BY <2>2, <3>1, <3>2
  <2> QED BY <2>1, <2>2 DEF Elements
<1>4. ASSUME NEW j \in DOMAIN t, NEW k \in DOMAIN t, t[j] = t[k]
      PROVE  j = k
  <2>1. from(j) = from(k)
    <3>1. from(j) \in DOMAIN s /\ from(k) \in DOMAIN s /\ s[from(j)] = s[from(k)]
      BY <1>1, <1>4
    <3> HIDE DEF from
    <3> QED BY <3>1 DEF Distinct
  <2> QED BY <1>0, <2>1
<1> QED BY <1>3, <1>4 DEF Distinct

LEMMA BeforeGap ==
    ASSUME NEW len \in Nat, NEW i \in 1 .. len
    PROVE  /\ i - 1 \in Int /\ 1 \in Int
           /\ (IF 1 <= i - 1 THEN (i - 1) - 1 + 1 ELSE 0) = i - 1
           /\ (i - 1) - 1 + 1 = i - 1
           /\ \A j \in 1 .. i - 1 : 1 + j - 1 = j
           /\ \A j \in 1 .. i - 1 : j \in 1 .. len
OBVIOUS

LEMMA BehindGap ==
    ASSUME NEW len \in Nat, NEW i \in 1 .. len
    PROVE  /\ i + 1 \in Int /\ len \in Int
           /\ (IF i + 1 <= len THEN len - (i + 1) + 1 ELSE 0) = len - i
           /\ len - (i + 1) + 1 = len - i
           /\ \A j \in 1 .. len - i : (i + 1) + j - 1 = i + j
           /\ \A j \in i + 1 .. len : j \in 1 .. len
OBVIOUS

LEMMA AcrossGap ==
    ASSUME NEW len \in Nat, NEW i \in 1 .. len
    PROVE  /\ (i - 1) + (len - i) = len - 1
           /\ \A j \in 1 .. len - 1 :
                IF j < i THEN j \in 1 .. i - 1 /\ j <= i - 1
                ELSE /\ j - (i - 1) \in 1 .. len - i /\ ~(j <= i - 1)
                     /\ i + (j - (i - 1)) = j + 1
OBVIOUS

\* UsbHcUnlinkMemBlock.
TakenOut(s, i, t) == t = SubSeq(s, 1, i - 1) \o SubSeq(s, i + 1, Len(s))

LEMMA Unlinked ==
    ASSUME NEW S, NEW s \in Seq(S), Distinct(s), NEW i \in DOMAIN s, NEW t, TakenOut(s, i, t)
    PROVE  t \in Seq(S) /\ Elements(t) = Elements(s) \ {s[i]} /\ Distinct(t)
<1>1. PICK len \in Nat : len = Len(s)
  OBVIOUS
<1>2. DOMAIN s = 1 .. len /\ i \in 1 .. len /\ \A j \in 1 .. len : s[j] \in S
  BY <1>1
<1> DEFINE a == SubSeq(s, 1, i - 1)
           b == SubSeq(s, i + 1, len)
<1>3. a \in Seq(S) /\ Len(a) = i - 1 /\ \A j \in 1 .. i - 1 : a[j] = s[j]
  <2>1. 1 \in Int /\ i - 1 \in Int /\ \A j \in 1 .. i - 1 : s[j] \in S
    BY <1>2, BeforeGap, Zenon
  <2>2. /\ SubSeq(s, 1, i - 1) \in Seq(S)
        /\ Len(SubSeq(s, 1, i - 1)) = IF 1 <= i - 1 THEN (i - 1) - 1 + 1 ELSE 0
        /\ \A j \in 1 .. (i - 1) - 1 + 1 : SubSeq(s, 1, i - 1)[j] = s[1 + j - 1]
    BY <2>1, SubSeqProperties
  <2>3. /\ (IF 1 <= i - 1 THEN (i - 1) - 1 + 1 ELSE 0) = i - 1 /\ (i - 1) - 1 + 1 = i - 1
        /\ \A j \in 1 .. i - 1 : 1 + j - 1 = j
    BY <1>2, BeforeGap, Zenon
  <2> QED BY <2>2, <2>3, Zenon
<1>4. b \in Seq(S) /\ Len(b) = len - i /\ \A j \in 1 .. len - i : b[j] = s[i + j]
  <2>1. i + 1 \in Int /\ len \in Int /\ \A j \in i + 1 .. len : s[j] \in S
    BY <1>2, BehindGap, Zenon
  <2>2. /\ SubSeq(s, i + 1, len) \in Seq(S)
        /\ Len(SubSeq(s, i + 1, len)) = IF i + 1 <= len THEN len - (i + 1) + 1 ELSE 0
        /\ \A j \in 1 .. len - (i + 1) + 1 : SubSeq(s, i + 1, len)[j] = s[(i + 1) + j - 1]
    BY <2>1, SubSeqProperties
  <2>3. /\ (IF i + 1 <= len THEN len - (i + 1) + 1 ELSE 0) = len - i /\ len - (i + 1) + 1 = len - i
        /\ \A j \in 1 .. len - i : (i + 1) + j - 1 = i + j
    BY <1>2, BehindGap, Zenon
  <2> QED BY <2>2, <2>3, Zenon
<1> HIDE DEF a, b
<1>5. t = a \o b
  BY <1>1 DEF a, b, TakenOut
<1>6. t \in Seq(S) /\ Len(t) = Len(a) + Len(b)
      /\ \A j \in 1 .. Len(a) + Len(b) : t[j] = IF j <= Len(a) THEN a[j] ELSE b[j - Len(a)]
  <2>1. /\ a \o b \in Seq(S) /\ Len(a \o b) = Len(a) + Len(b)
        /\ \A j \in 1 .. Len(a) + Len(b) : (a \o b)[j] = IF j <= Len(a) THEN a[j] ELSE b[j - Len(a)]
    BY <1>3, <1>4, ConcatProperties
  <2> QED BY <1>5, <2>1, Zenon
<1>7. Len(a) + Len(b) = len - 1
  BY <1>2, <1>3, <1>4, AcrossGap, Zenon
<1>8. DOMAIN t = 1 .. len - 1
  <2>1. DOMAIN t = 1 .. Len(t)
    BY <1>6
  <2> QED BY <1>6, <1>7, <2>1, Zenon
<1>9. \A j \in 1 .. len - 1 : t[j] = IF j < i THEN s[j] ELSE s[j + 1]
  <2> TAKE j \in 1 .. len - 1
  <2>1. t[j] = IF j <= i - 1 THEN a[j] ELSE b[j - (i - 1)]
    BY <1>3, <1>6, <1>7, Zenon
  <2>2. CASE j < i
    BY <1>2, <1>3, <2>1, <2>2, AcrossGap, Zenon
  <2>3. CASE ~(j < i)
    <3>1. j - (i - 1) \in 1 .. len - i /\ ~(j <= i - 1) /\ i + (j - (i - 1)) = j + 1
      BY <1>2, <2>3, AcrossGap, Zenon
    <3>2. b[j - (i - 1)] = s[i + (j - (i - 1))]
      BY <1>4, <3>1, Zenon
    <3> QED BY <2>1, <2>3, <3>1, <3>2, Zenon
  <2> QED BY <2>2, <2>3
<1>10. Elements(t) = Elements(s) \ {s[i]} /\ Distinct(t)
  <2>1. DOMAIN s = 1 .. len /\ i \in 1 .. len /\ len \in Nat /\ Distinct(s)
    BY <1>1, <1>2
  <2>2. Gapped(s, len, i, t)
    BY <1>8, <1>9, Zenon DEF Gapped
  <2> QED BY <2>1, <2>2, Gap, Zenon
<1> QED BY <1>6, <1>10

\* One block of the list changes.
Swapped(s, i, b, t) == t = [s EXCEPT ![i] = b]

LEMMA Replaced ==
    ASSUME NEW S, NEW s \in Seq(S), Distinct(s), NEW i \in DOMAIN s, NEW b \in S, NEW t,
           Swapped(s, i, b, t), b \notin Elements(s) \ {s[i]}
    PROVE  /\ t \in Seq(S) /\ Elements(t) = (Elements(s) \ {s[i]}) \cup {b} /\ Distinct(t)
           /\ t # <<>>
<1>1. /\ Len(s) \in Nat /\ DOMAIN s = 1 .. Len(s) /\ i \in 1 .. Len(s)
      /\ \A j \in 1 .. Len(s) : s[j] \in S
  OBVIOUS
<1>2. /\ t \in Seq(S) /\ DOMAIN t = DOMAIN s /\ t[i] = b
      /\ \A j \in DOMAIN s : j # i => t[j] = s[j]
  BY <1>1 DEF Swapped
<1>3. \A j \in DOMAIN s : j # i => s[j] # s[i] /\ s[j] # b
  BY DEF Distinct, Elements
<1>4. Elements(t) = (Elements(s) \ {s[i]}) \cup {b}
  BY <1>2, <1>3 DEF Elements
<1>5. Distinct(t)
  BY <1>2, <1>3 DEF Distinct
<1>6. t # <<>>
  BY <1>1, <1>2
<1> QED BY <1>2, <1>4, <1>5, <1>6

-----------------------------------------------------------------------------
(* The invariant: what the pool's blocks, the pieces and the buffers are.  *)

\* Blocks PciIo can have given.
Blocks ==
    {b \in [page : Nat, pages : Nat \ {0}, dev : Nat, bits : SUBSET Nat] :
        /\ b.page + b.pages <= MemPages
        /\ b.dev = DevicePage(b.page, b.pages)
        /\ \A u \in b.bits : u < Length(b)}
MemPieces == [addr : Nat, len : Nat \ {0}, ring : BOOLEAN]
MemBuffers == [page : Nat, pages : Nat \ {0}]

MemTypeOK ==
    /\ pool \in Seq(Blocks) /\ Distinct(pool)
    /\ pieces \subseteq MemPieces
    /\ buffers \subseteq MemBuffers

PagesApart(b, c) == Apart(b.page, b.pages, c.page, c.pages)
Under(p, b) == p \in PagesFrom(b.page, b.pages)

\* Blocks and buffers lie on pages of their own, and nothing else is held.
PagesKept(K, B, H) ==
    /\ \A b, c \in K : b # c => PagesApart(b, c)
    /\ \A b, c \in B : b # c => PagesApart(b, c)
    /\ \A b \in K, c \in B : PagesApart(b, c)
    /\ \A p : p \in H <=> (\E b \in K : Under(p, b)) \/ (\E c \in B : Under(p, c))

Reaches(b, a, n) == Base(b) <= a /\ a + n <= Base(b) + Length(b)

\* A piece is made of marked units of one block.
In(x, b) == Reaches(b, x.addr, x.len) /\ \A a \in Units(x) : a - Base(b) \in b.bits

PiecesKept(K, L) ==
    /\ \A x \in L : \E b \in K : In(x, b)
    /\ \A x, y \in L : x # y => Apart(x.addr, x.len, y.addr, y.len)
    /\ \A b \in K : \A u \in b.bits : \E x \in L : Base(b) + u \in Units(x)
    /\ \A x \in L : x.ring => Window(x.addr) = Window(x.addr + x.len - 1)

MemInv ==
    /\ MemTypeOK
    /\ PagesKept(Elements(pool), buffers, held)
    /\ PiecesKept(Elements(pool), pieces)

LEMMA MemConstants ==
    /\ MemPages \in Nat \ {0} /\ PageUnits \in Nat \ {0} /\ DefaultPages \in Nat \ {0}
    /\ Boundary \in Nat \ {0} /\ Sizes \subseteq Nat \ {0}
    /\ \A ask \in AlignedAsks : ask[1] \in Nat \ {0} /\ ask[2] \in Nat \ {0}
BY ParameterAssumption

LEMMA Scaled ==
    ASSUME NEW u \in Nat \ {0}, NEW p \in Nat, NEW n \in Nat \ {0}
    PROVE  p * u \in Nat /\ n * u \in Nat \ {0}
OBVIOUS

LEMMA BlockOf ==
    ASSUME NEW b \in Blocks
    PROVE  /\ b.page \in Nat /\ b.pages \in Nat \ {0} /\ b.dev \in Nat /\ b.bits \subseteq Nat
           /\ b.page + b.pages <= MemPages /\ b.dev = MemPages - b.page - b.pages
           /\ \A u \in b.bits : u \in Nat /\ u < Length(b)
BY DEF Blocks, DevicePage

LEMMA BlockUnits ==
    ASSUME NEW b \in Blocks
    PROVE  Base(b) \in Nat /\ PciBase(b) \in Nat /\ Length(b) \in Nat \ {0}
BY MemConstants, BlockOf, Scaled DEF Base, PciBase, Length

\* Runs of pages apart are runs of units apart.
LEMMA ScaledApart ==
    ASSUME NEW p \in Nat, NEW n \in Nat, NEW q \in Nat, NEW m \in Nat, Apart(p, n, q, m)
    PROVE  Apart(p * PageUnits, n * PageUnits, q * PageUnits, m * PageUnits)
<1>1. PageUnits \in Nat
  BY MemConstants
<1>2. /\ (p + n) * PageUnits = p * PageUnits + n * PageUnits
      /\ (q + m) * PageUnits = q * PageUnits + m * PageUnits
  BY <1>1, MulSum
<1>3. CASE p + n <= q
  <2>1. (p + n) * PageUnits <= q * PageUnits
    <3>1. p + n \in Nat
      OBVIOUS
    <3> QED BY <1>1, <1>3, <3>1, MulMono
  <2> QED BY <1>2, <2>1 DEF Apart
<1>4. CASE q + m <= p
  <2>1. (q + m) * PageUnits <= p * PageUnits
    <3>1. q + m \in Nat
      OBVIOUS
    <3> QED BY <1>1, <1>4, <3>1, MulMono
  <2> QED BY <1>2, <2>1 DEF Apart
<1> QED BY <1>3, <1>4 DEF Apart

LEMMA UnitsApart ==
    ASSUME NEW b \in Blocks, NEW c \in Blocks, PagesApart(b, c)
    PROVE  /\ Apart(Base(b), Length(b), Base(c), Length(c))
           /\ Apart(PciBase(b), Length(b), PciBase(c), Length(c))
<1>1. /\ b.page \in Nat /\ b.pages \in Nat \ {0} /\ b.dev = MemPages - b.page - b.pages
      /\ c.page \in Nat /\ c.pages \in Nat \ {0} /\ c.dev = MemPages - c.page - c.pages
      /\ b.dev \in Nat /\ c.dev \in Nat /\ MemPages \in Nat
  BY BlockOf, MemConstants
<1>2. Apart(b.page, b.pages, c.page, c.pages) /\ Apart(b.dev, b.pages, c.dev, c.pages)
  BY <1>1 DEF PagesApart, Apart
<1> QED BY <1>1, <1>2, ScaledApart DEF Base, Length, PciBase

LEMMA ReachesOne ==
    ASSUME NEW b \in Blocks, NEW c \in Blocks, NEW a \in Nat, NEW n \in Nat \ {0},
           Reaches(b, a, n), Reaches(c, a, n)
    PROVE  ~PagesApart(b, c)
<1>1. /\ Base(b) \in Nat /\ Length(b) \in Nat \ {0}
      /\ Base(c) \in Nat /\ Length(c) \in Nat \ {0}
  BY BlockUnits
<1> QED BY <1>1, UnitsApart DEF Reaches, Apart

LEMMA NotFromItself ==
    ASSUME NEW b \in Blocks
    PROVE  ~PagesApart(b, b)
BY BlockOf DEF PagesApart, Apart

\* UsbHcAllocMemBlock.
LEMMA NewBlockIs ==
    ASSUME NEW n \in Nat \ {0}, NEW p \in Places(n)
    PROVE  /\ NewBlock(p, n) \in Blocks /\ NewBlock(p, n).page = p /\ NewBlock(p, n).pages = n
           /\ NewBlock(p, n).bits = {}
<1>1. p \in Nat /\ p + n <= MemPages
  BY MemConstants DEF Places
<1>2. MemPages - p - n \in Nat
  BY <1>1, MemConstants
<1> QED BY <1>1, <1>2 DEF NewBlock, Blocks, DevicePage

LEMMA PlacesAreFree ==
    ASSUME NEW n \in Nat \ {0}, NEW p \in Places(n)
    PROVE  /\ p \in Nat /\ p + n <= MemPages /\ \A q \in PagesFrom(p, n) : q \notin held
BY MemConstants DEF Places

\* The same block, with other bits.
LEMMA Rebitted ==
    ASSUME NEW b \in Blocks, NEW bits, \A u \in bits : u \in Nat /\ u < Length(b), NEW c,
           c = [b EXCEPT !.bits = bits]
    PROVE  /\ c \in Blocks /\ c.page = b.page /\ c.pages = b.pages /\ c.dev = b.dev
           /\ c.bits = bits
           /\ Base(c) = Base(b) /\ Length(c) = Length(b) /\ PciBase(c) = PciBase(b)
<1>1. /\ c.page = b.page /\ c.pages = b.pages /\ c.dev = b.dev /\ c.bits = bits
      /\ c \in [page : Nat, pages : Nat \ {0}, dev : Nat, bits : SUBSET Nat]
  BY DEF Blocks
<1>2. Length(c) = Length(b)
  BY <1>1 DEF Length
<1>3. c \in Blocks
  BY <1>1, <1>2, BlockOf DEF Blocks, DevicePage
<1> QED BY <1>1, <1>3 DEF Base, Length, PciBase

-----------------------------------------------------------------------------
(* What a step does to the pages that are held.                            *)

LEMMA RunsMeet ==
    ASSUME NEW b, b.page \in Nat, b.pages \in Nat \ {0}, NEW c, c.page \in Nat, c.pages \in Nat \ {0}
    PROVE  PagesApart(b, c) <=> \A p : ~(Under(p, b) /\ Under(p, c))
<1>1. PagesApart(b, c) <=>
        \A e \in b.page .. b.page + b.pages - 1 : e \notin c.page .. c.page + c.pages - 1
  BY ApartMeans DEF PagesApart
<1> QED BY <1>1 DEF Under, PagesFrom

LEMMA ApartBothWays ==
    ASSUME NEW b, NEW c
    PROVE  PagesApart(b, c) <=> PagesApart(c, b)
BY DEF PagesApart, Apart

Free(b, H) == \A p : Under(p, b) => p \notin H

LEMMA Taken ==
    ASSUME NEW K, K \subseteq Blocks, NEW B, B \subseteq MemBuffers, NEW H, PagesKept(K, B, H),
           NEW d \in Blocks \cup MemBuffers, Free(d, H)
    PROVE  \A c \in K \cup B : PagesApart(d, c) /\ PagesApart(c, d) /\ c # d
<1> TAKE c \in K \cup B
<1>0. d.page \in Nat /\ d.pages \in Nat \ {0}
  BY BlockOf DEF MemBuffers
<1>1. c.page \in Nat /\ c.pages \in Nat \ {0}
  BY DEF Blocks, MemBuffers
<1>2. \A p : Under(p, c) => p \in H
  BY DEF PagesKept
<1>3. \A p : ~(Under(p, d) /\ Under(p, c))
  BY <1>2 DEF Free
<1>4. PagesApart(d, c) /\ PagesApart(c, d)
  BY <1>0, <1>1, <1>3, RunsMeet, ApartBothWays
<1>5. Under(d.page, d)
  BY <1>0 DEF Under, PagesFrom
<1> QED BY <1>3, <1>4, <1>5

LEMMA BlockTaken ==
    ASSUME NEW K, K \subseteq Blocks, NEW B, B \subseteq MemBuffers, NEW H, PagesKept(K, B, H),
           NEW b \in Blocks, Free(b, H)
    PROVE  /\ b \notin K
           /\ PagesKept(K \cup {b}, B, H \cup PagesFrom(b.page, b.pages))
<1>1. \A c \in K \cup B : PagesApart(b, c) /\ PagesApart(c, b) /\ c # b
  BY Taken
<1>2. \A p : p \in PagesFrom(b.page, b.pages) <=> Under(p, b)
  BY DEF Under
<1>3. \A c, d \in K \cup {b} : c # d => PagesApart(c, d)
  BY <1>1 DEF PagesKept
<1>4. \A c \in K \cup {b}, d \in B : PagesApart(c, d)
  BY <1>1 DEF PagesKept
<1>5. \A p : p \in H \cup PagesFrom(b.page, b.pages)
               <=> (\E c \in K \cup {b} : Under(p, c)) \/ (\E c \in B : Under(p, c))
  BY <1>2 DEF PagesKept
<1>6. \A c, d \in B : c # d => PagesApart(c, d)
  BY DEF PagesKept
<1> QED BY <1>1, <1>3, <1>4, <1>5, <1>6 DEF PagesKept

LEMMA BufferTaken ==
    ASSUME NEW K, K \subseteq Blocks, NEW B, B \subseteq MemBuffers, NEW H, PagesKept(K, B, H),
           NEW b \in MemBuffers, Free(b, H)
    PROVE  PagesKept(K, B \cup {b}, H \cup PagesFrom(b.page, b.pages))
<1>1. \A c \in K \cup B : PagesApart(b, c) /\ PagesApart(c, b) /\ c # b
  BY Taken
<1>2. \A p : p \in PagesFrom(b.page, b.pages) <=> Under(p, b)
  BY DEF Under
<1>3. \A c, d \in B \cup {b} : c # d => PagesApart(c, d)
  BY <1>1 DEF PagesKept
<1>4. \A c \in K, d \in B \cup {b} : PagesApart(c, d)
  BY <1>1 DEF PagesKept
<1>5. \A p : p \in H \cup PagesFrom(b.page, b.pages)
               <=> (\E c \in K : Under(p, c)) \/ (\E c \in B \cup {b} : Under(p, c))
  BY <1>2 DEF PagesKept
<1>6. \A c, d \in K : c # d => PagesApart(c, d)
  BY DEF PagesKept
<1> QED BY <1>3, <1>4, <1>5, <1>6 DEF PagesKept

LEMMA BlockReleased ==
    ASSUME NEW K, K \subseteq Blocks, NEW B, B \subseteq MemBuffers, NEW H, PagesKept(K, B, H),
           NEW b \in K
    PROVE  PagesKept(K \ {b}, B, H \ PagesFrom(b.page, b.pages))
<1>1. \A c \in (K \ {b}) \cup B : PagesApart(b, c)
  BY DEF PagesKept
<1>2. \A c \in (K \ {b}) \cup B : \A p : ~(Under(p, b) /\ Under(p, c))
  <2> TAKE c \in (K \ {b}) \cup B
  <2>1. c.page \in Nat /\ c.pages \in Nat \ {0} /\ b.page \in Nat /\ b.pages \in Nat \ {0}
    BY BlockOf DEF MemBuffers
  <2> QED BY <1>1, <2>1, RunsMeet
<1>3. \A p : p \in PagesFrom(b.page, b.pages) <=> Under(p, b)
  BY DEF Under
<1>4. \A p : p \in H \ PagesFrom(b.page, b.pages)
               <=> (\E c \in K \ {b} : Under(p, c)) \/ (\E c \in B : Under(p, c))
  BY <1>2, <1>3 DEF PagesKept
<1>5. /\ \A c, d \in K \ {b} : c # d => PagesApart(c, d)
      /\ \A c, d \in B : c # d => PagesApart(c, d)
      /\ \A c \in K \ {b}, d \in B : PagesApart(c, d)
  BY DEF PagesKept
<1> QED BY <1>4, <1>5 DEF PagesKept

LEMMA BufferReleased ==
    ASSUME NEW K, K \subseteq Blocks, NEW B, B \subseteq MemBuffers, NEW H, PagesKept(K, B, H),
           NEW b \in B
    PROVE  PagesKept(K, B \ {b}, H \ PagesFrom(b.page, b.pages))
<1>1. /\ \A c \in B \ {b} : PagesApart(b, c)
      /\ \A c \in K : PagesApart(b, c)
  BY ApartBothWays DEF PagesKept
<1>2. \A c \in (B \ {b}) \cup K : \A p : ~(Under(p, b) /\ Under(p, c))
  <2> TAKE c \in (B \ {b}) \cup K
  <2>1. c.page \in Nat /\ c.pages \in Nat \ {0} /\ b.page \in Nat /\ b.pages \in Nat \ {0}
    BY BlockOf DEF MemBuffers
  <2> QED BY <1>1, <2>1, RunsMeet
<1>3. \A p : p \in PagesFrom(b.page, b.pages) <=> Under(p, b)
  BY DEF Under
<1>4. \A p : p \in H \ PagesFrom(b.page, b.pages)
               <=> (\E c \in K : Under(p, c)) \/ (\E c \in B \ {b} : Under(p, c))
  BY <1>2, <1>3 DEF PagesKept
<1>5. /\ \A c, d \in K : c # d => PagesApart(c, d)
      /\ \A c, d \in B \ {b} : c # d => PagesApart(c, d)
      /\ \A c \in K, d \in B \ {b} : PagesApart(c, d)
  BY DEF PagesKept
<1> QED BY <1>4, <1>5 DEF PagesKept

LEMMA BlockRebitted ==
    ASSUME NEW K, NEW B, NEW H, PagesKept(K, B, H), NEW b \in K, NEW c,
           c.page = b.page, c.pages = b.pages
    PROVE  PagesKept((K \ {b}) \cup {c}, B, H)
<1>1. /\ \A d : PagesApart(c, d) <=> PagesApart(b, d)
      /\ \A d : PagesApart(d, c) <=> PagesApart(d, b)
      /\ \A p : Under(p, c) <=> Under(p, b)
  BY DEF PagesApart, Under
<1>2. \A d, e \in (K \ {b}) \cup {c} : d # e => PagesApart(d, e)
  <2> TAKE d, e \in (K \ {b}) \cup {c}
  <2> HAVE d # e
  <2>1. CASE d = c
    BY <1>1, <2>1 DEF PagesKept
  <2>2. CASE e = c
    BY <1>1, <2>2 DEF PagesKept
  <2>3. CASE d # c /\ e # c
    BY <2>3 DEF PagesKept
  <2> QED BY <2>1, <2>2, <2>3
<1>3. \A d \in (K \ {b}) \cup {c}, e \in B : PagesApart(d, e)
  BY <1>1 DEF PagesKept
<1>4. \A p : (\E d \in K : Under(p, d)) <=> (\E d \in (K \ {b}) \cup {c} : Under(p, d))
  BY <1>1
<1>5. \A p : p \in H <=> (\E d \in (K \ {b}) \cup {c} : Under(p, d)) \/ (\E d \in B : Under(p, d))
  BY <1>4 DEF PagesKept
<1>6. \A d, e \in B : d # e => PagesApart(d, e)
  BY DEF PagesKept
<1> QED BY <1>2, <1>3, <1>5, <1>6 DEF PagesKept

\* A block with another's pages is not yet another one of the list.
LEMMA RebittedIsNew ==
    ASSUME NEW K, K \subseteq Blocks, NEW B, NEW H, PagesKept(K, B, H), NEW b \in K, NEW c \in Blocks,
           c.page = b.page, c.pages = b.pages
    PROVE  c \notin K \ {b}
<1> SUFFICES ASSUME c \in K, c # b PROVE FALSE
  OBVIOUS
<1>1. PagesApart(c, b)
  BY DEF PagesKept
<1>2. PagesApart(c, c)
  BY <1>1 DEF PagesApart
<1> QED BY <1>2, NotFromItself

-----------------------------------------------------------------------------
(* What a step does to the pieces of the pool.                             *)

LEMMA UnitsMeet ==
    ASSUME NEW x \in MemPieces, NEW y \in MemPieces
    PROVE  Apart(x.addr, x.len, y.addr, y.len) <=> \A a \in Units(x) : a \notin Units(y)
<1>1. x.addr \in Nat /\ x.len \in Nat \ {0} /\ y.addr \in Nat /\ y.len \in Nat \ {0}
  BY DEF MemPieces
<1> QED BY <1>1, ApartMeans DEF Units, UnitsFrom

LEMMA PieceOf ==
    ASSUME NEW x \in MemPieces
    PROVE  /\ x.addr \in Nat /\ x.len \in Nat \ {0} /\ x.addr \in Units(x)
           /\ \A a : a \in Units(x) <=> a \in Nat /\ x.addr <= a /\ a < x.addr + x.len
BY DEF MemPieces, Units, UnitsFrom

\* The units of a piece lie in the block that holds it.
LEMMA UnitsIn ==
    ASSUME NEW x \in MemPieces, NEW b \in Blocks, Reaches(b, x.addr, x.len), NEW a \in Units(x)
    PROVE  /\ a \in Nat /\ a - Base(b) \in Nat /\ a - Base(b) < Length(b)
           /\ Base(b) + (a - Base(b)) = a /\ Reaches(b, a, 1)
BY BlockUnits, PieceOf DEF Reaches

\* Units of two blocks are different.
LEMMA UnitsOfTwo ==
    ASSUME NEW b \in Blocks, NEW c \in Blocks, PagesApart(b, c), NEW a \in Nat, NEW u \in Nat,
           Reaches(b, a, 1), u < Length(c)
    PROVE  Base(c) + u # a
<1>1. /\ Base(b) \in Nat /\ Length(b) \in Nat \ {0}
      /\ Base(c) \in Nat /\ Length(c) \in Nat \ {0}
      /\ Apart(Base(b), Length(b), Base(c), Length(c))
  BY BlockUnits, UnitsApart
<1> QED BY <1>1 DEF Reaches, Apart

LEMMA BlockAdded ==
    ASSUME NEW K, NEW L, PiecesKept(K, L), NEW b, b.bits = {}
    PROVE  PiecesKept(K \cup {b}, L)
BY DEF PiecesKept

LEMMA BlockDropped ==
    ASSUME NEW K, NEW L, L \subseteq MemPieces, PiecesKept(K, L), NEW b \in K, b.bits = {}
    PROVE  PiecesKept(K \ {b}, L)
<1>1. \A x \in L : ~In(x, b)
  <2> TAKE x \in L
  <2>1. x.addr \in Units(x)
    BY PieceOf
  <2> QED BY <2>1 DEF In
<1>2. \A x \in L : \E c \in K \ {b} : In(x, c)
  BY <1>1 DEF PiecesKept
<1> QED BY <1>2 DEF PiecesKept

LEMMA PieceTaken ==
    ASSUME NEW K, K \subseteq Blocks, NEW L, L \subseteq MemPieces, PiecesKept(K, L),
           \A b, c \in K : b # c => PagesApart(b, c),
           NEW b \in K, NEW n \in Nat \ {0}, NEW ring \in BOOLEAN, Finds(b, n, ring)
    PROVE  /\ Marked(b, n, ring) \in Blocks
           /\ Marked(b, n, ring).page = b.page /\ Marked(b, n, ring).pages = b.pages
           /\ Piece(b, n, ring) \in MemPieces
           /\ PiecesKept((K \ {b}) \cup {Marked(b, n, ring)}, L \cup {Piece(b, n, ring)})
<1> DEFINE s == Search(b, n, ring).start
           x == Piece(b, n, ring)
           c == Marked(b, n, ring)
<1>1. b \in Blocks /\ Base(b) \in Nat /\ Length(b) \in Nat \ {0}
  BY BlockUnits
<1>2. s \in Nat /\ s + n <= Length(b) /\ Fits(b, n, ring, s)
  BY <1>1, SearchFinds
<1>3. c = [b EXCEPT !.bits = b.bits \cup UnitsFrom(s, n)]
  BY DEF Marked
<1>4. x = [addr |-> Base(b) + s, len |-> n, ring |-> ring]
  BY DEF Piece
<1> HIDE DEF s, x, c
<1>5. /\ \A u \in UnitsFrom(s, n) : u \in Nat /\ u < Length(b) /\ u \notin b.bits
      /\ \A u \in b.bits : u \in Nat /\ u < Length(b)
  <2>1. \A u \in UnitsFrom(s, n) : u \in Nat /\ u < Length(b)
    BY <1>1, <1>2 DEF UnitsFrom
  <2> QED BY <1>2, <2>1, BlockOf DEF Fits
<1>6. /\ c \in Blocks /\ c.page = b.page /\ c.pages = b.pages
      /\ c.bits = b.bits \cup UnitsFrom(s, n)
      /\ Base(c) = Base(b) /\ Length(c) = Length(b)
  BY <1>1, <1>3, <1>5, Rebitted
<1>7. x \in MemPieces /\ x.addr = Base(b) + s /\ x.len = n /\ x.ring = ring
  BY <1>1, <1>2, <1>4 DEF MemPieces
<1>8. \A a \in Units(x) : a - Base(b) \in UnitsFrom(s, n)
  BY <1>1, <1>2, <1>7, PieceOf DEF UnitsFrom
<1>9. \A u \in UnitsFrom(s, n) : Base(b) + u \in Units(x)
  BY <1>1, <1>2, <1>7, PieceOf DEF UnitsFrom
<1>10. Reaches(b, x.addr, x.len) /\ Reaches(c, x.addr, x.len)
  BY <1>1, <1>2, <1>6, <1>7 DEF Reaches
<1>11. In(x, c)
  BY <1>6, <1>8, <1>10 DEF In
<1>12. \A y \in L : In(y, b) => In(y, c)
  BY <1>6 DEF In, Reaches
<1>13. \A y \in L \cup {x} : \E d \in (K \ {b}) \cup {c} : In(y, d)
  BY <1>11, <1>12 DEF PiecesKept
<1>14. ASSUME NEW y \in L
       PROVE  Apart(x.addr, x.len, y.addr, y.len) /\ Apart(y.addr, y.len, x.addr, x.len)
  <2>1. PICK d \in K : In(y, d)
    BY DEF PiecesKept
  <2>2. CASE d = b
    <3>1. \A a \in Units(x) : a \notin Units(y)
      BY <1>5, <1>8, <2>1, <2>2 DEF In
    <3> QED BY <1>7, <3>1, UnitsMeet DEF Apart
  <2>3. CASE d # b
    <3>1. /\ Apart(Base(b), Length(b), Base(d), Length(d))
          /\ Base(d) \in Nat /\ Length(d) \in Nat \ {0}
      BY <1>1, <2>3, BlockUnits, UnitsApart
    <3>2. Reaches(d, y.addr, y.len) /\ y.addr \in Nat /\ y.len \in Nat
      BY <2>1, PieceOf DEF In
    <3>3. x.addr \in Nat /\ x.len \in Nat
      BY <1>7, PieceOf
    <3> QED BY <1>1, <1>10, <3>1, <3>2, <3>3 DEF Reaches, Apart
  <2> QED BY <2>2, <2>3
<1>15. \A y, z \in L \cup {x} : y # z => Apart(y.addr, y.len, z.addr, z.len)
  BY <1>14 DEF PiecesKept
<1>16. ASSUME NEW d \in (K \ {b}) \cup {c}, NEW u \in d.bits
       PROVE  \E y \in L \cup {x} : Base(d) + u \in Units(y)
  <2>1. CASE d = c
    <3>1. CASE u \in b.bits
      BY <1>6, <2>1, <3>1 DEF PiecesKept
    <3>2. CASE u \in UnitsFrom(s, n)
      BY <1>6, <1>9, <2>1, <3>2
    <3> QED BY <1>6, <1>16, <2>1, <3>1, <3>2
  <2>2. CASE d # c
    BY <1>16, <2>2 DEF PiecesKept
  <2> QED BY <2>1, <2>2
<1>17. x.ring => Window(x.addr) = Window(x.addr + x.len - 1)
  <2> SUFFICES ASSUME ring PROVE Window(x.addr) = Window(x.addr + x.len - 1)
    BY <1>7
  <2>1. Window(Base(b) + s) = Window(Base(b) + s + n - 1)
    BY <1>2 DEF Fits
  <2> QED BY <1>7, <2>1, Zenon
<1>18. \A y \in L \cup {x} : y.ring => Window(y.addr) = Window(y.addr + y.len - 1)
  BY <1>17 DEF PiecesKept
<1>19. PiecesKept((K \ {b}) \cup {c}, L \cup {x})
  BY <1>13, <1>15, <1>16, <1>18, Zenon DEF PiecesKept
<1> QED BY <1>6, <1>7, <1>19 DEF c, x

LEMMA PieceFreed ==
    ASSUME NEW K, K \subseteq Blocks, NEW L, L \subseteq MemPieces, PiecesKept(K, L),
           \A b, c \in K : b # c => PagesApart(b, c),
           NEW x \in L, NEW b \in K, In(x, b), NEW c, c = [b EXCEPT !.bits = Cleared(b, x)]
    PROVE  /\ c \in Blocks /\ c.page = b.page /\ c.pages = b.pages /\ c.bits = Cleared(b, x)
           /\ PiecesKept((K \ {b}) \cup {c}, L \ {x})
<1>1. /\ b \in Blocks /\ Base(b) \in Nat /\ Length(b) \in Nat \ {0}
      /\ x \in MemPieces /\ x.addr \in Nat /\ x.len \in Nat \ {0}
  BY BlockUnits, PieceOf
<1>2. /\ Base(b) <= x.addr /\ x.addr + x.len <= Base(b) + Length(b)
      /\ Reaches(b, x.addr, x.len)
  BY DEF In, Reaches
<1>3. \A u \in Nat : u \in UnitsFrom(x.addr - Base(b), x.len) <=> Base(b) + u \in Units(x)
  BY <1>1, <1>2, PieceOf DEF UnitsFrom
<1>4. \A u : u \in Cleared(b, x) <=> u \in b.bits /\ u \in Nat /\ Base(b) + u \notin Units(x)
  BY <1>1, <1>3, BlockOf DEF Cleared
<1>5. /\ c \in Blocks /\ c.page = b.page /\ c.pages = b.pages
      /\ c.bits = Cleared(b, x)
      /\ Base(c) = Base(b) /\ Length(c) = Length(b)
  <2>1. \A u \in Cleared(b, x) : u \in Nat /\ u < Length(b)
    BY <1>1, <1>4, BlockOf
  <2> QED BY <1>1, <2>1, Rebitted
<1>6. \A y \in L : y # x => \A a \in Units(y) : a \notin Units(x)
  <2> TAKE y \in L
  <2> HAVE y # x
  <2>1. Apart(y.addr, y.len, x.addr, x.len)
    BY DEF PiecesKept
  <2> QED BY <1>1, <2>1, UnitsMeet
<1>7. ASSUME NEW y \in L, y # x, In(y, b) PROVE In(y, c)
  <2>1. Reaches(b, y.addr, y.len)
    BY <1>7 DEF In
  <2>2. ASSUME NEW a \in Units(y) PROVE a - Base(b) \in c.bits
    <3>1. a - Base(b) \in b.bits /\ a - Base(b) \in Nat /\ Base(b) + (a - Base(b)) = a
      BY <1>1, <1>7, <2>1, UnitsIn DEF In
    <3> QED BY <1>4, <1>5, <1>6, <1>7, <3>1
  <2> QED BY <1>5, <2>1, <2>2 DEF In, Reaches
<1>8. \A y \in L \ {x} : \E d \in (K \ {b}) \cup {c} : In(y, d)
  BY <1>7 DEF PiecesKept
<1>9. \A y, z \in L \ {x} : y # z => Apart(y.addr, y.len, z.addr, z.len)
  BY DEF PiecesKept
<1>10. ASSUME NEW d \in (K \ {b}) \cup {c}, NEW u \in d.bits
       PROVE  \E y \in L \ {x} : Base(d) + u \in Units(y)
  <2>1. CASE d = c
    <3>1. u \in b.bits /\ Base(b) + u \notin Units(x)
      BY <1>4, <1>5, <1>10, <2>1
    <3>2. PICK y \in L : Base(b) + u \in Units(y)
      BY <3>1 DEF PiecesKept
    <3> QED BY <1>5, <2>1, <3>1, <3>2
  <2>2. CASE d # c
    <3>1. d \in K /\ d # b /\ PagesApart(b, d)
      BY <1>10, <2>2
    <3>2. PICK y \in L : Base(d) + u \in Units(y)
      BY <1>10, <3>1 DEF PiecesKept
    <3>3. y # x
      <4> SUFFICES ASSUME Base(d) + u \in Units(x) PROVE FALSE
        BY <3>2
      <4>1. Base(d) + u \in Nat /\ Reaches(b, Base(d) + u, 1)
        BY <1>1, <1>2, UnitsIn
      <4>2. u \in Nat /\ u < Length(d)
        BY <3>1, BlockOf
      <4> QED BY <3>1, <4>1, <4>2, UnitsOfTwo
    <3> QED BY <3>2, <3>3
  <2> QED BY <2>1, <2>2
<1>11. \A y \in L \ {x} : y.ring => Window(y.addr) = Window(y.addr + y.len - 1)
  BY DEF PiecesKept
<1>12. PiecesKept((K \ {b}) \cup {c}, L \ {x})
  BY <1>8, <1>9, <1>10, <1>11, Zenon DEF PiecesKept
<1> QED BY <1>5, <1>12

-----------------------------------------------------------------------------
(* The steps.                                                              *)

LEMMA PoolBlocks ==
    ASSUME MemInv
    PROVE  /\ Elements(pool) \subseteq Blocks
           /\ DOMAIN pool \subseteq Nat
           /\ \A i \in DOMAIN pool : pool[i] \in Elements(pool) /\ pool[i] \in Blocks
           /\ \A i, j \in DOMAIN pool : pool[i] = pool[j] => i = j
           /\ \A b, c \in Elements(pool) : b # c => PagesApart(b, c)
           /\ PagesKept(Elements(pool), buffers, held) /\ PiecesKept(Elements(pool), pieces)
           /\ buffers \subseteq MemBuffers /\ pieces \subseteq MemPieces
           /\ pool \in Seq(Blocks) /\ Distinct(pool)
<1>1. pool \in Seq(Blocks) /\ Distinct(pool)
  BY DEF MemInv, MemTypeOK
<1>2. DOMAIN pool = 1 .. Len(pool) /\ \A i \in DOMAIN pool : pool[i] \in Blocks
  BY <1>1
<1>3. \A i \in DOMAIN pool : pool[i] \in Elements(pool)
  BY DEF Elements
<1>4. Elements(pool) \subseteq Blocks
  BY <1>2 DEF Elements
<1>5. \A i, j \in DOMAIN pool : pool[i] = pool[j] => i = j
  BY <1>1, Zenon DEF Distinct
<1>6. /\ PagesKept(Elements(pool), buffers, held) /\ PiecesKept(Elements(pool), pieces)
      /\ buffers \subseteq MemBuffers /\ pieces \subseteq MemPieces
  BY DEF MemInv, MemTypeOK
<1>7. \A b, c \in Elements(pool) : b # c => PagesApart(b, c)
  BY <1>6, Zenon DEF PagesKept
<1>8. DOMAIN pool \subseteq Nat
  BY <1>2
<1> QED BY <1>1, <1>2, <1>3, <1>4, <1>5, <1>6, <1>7, <1>8, Zenon

\* A run of units has one holder, by either address.
LEMMA HostHolder ==
    ASSUME MemInv, NEW i \in DOMAIN pool, NEW a \in Nat, NEW n \in Nat \ {0},
           Reaches(pool[i], a, n)
    PROVE  HostHolders(a, n) = {i} /\ Least(HostHolders(a, n)) = i
<1>1. ASSUME NEW j \in DOMAIN pool, Reaches(pool[j], a, n) PROVE j = i
  BY <1>1, PoolBlocks, ReachesOne
<1>2. HostHolders(a, n) = {i}
  BY <1>1 DEF HostHolders, Reaches
<1>3. i \in Nat
  BY PoolBlocks
<1> QED BY <1>2, <1>3, OnlyOne

LEMMA PciHolder ==
    ASSUME MemInv, NEW i \in DOMAIN pool, NEW a \in Nat,
           PciBase(pool[i]) <= a, a + 1 <= PciBase(pool[i]) + Length(pool[i])
    PROVE  PciHolders(a, 1) = {i} /\ Least(PciHolders(a, 1)) = i
<1>1. ASSUME NEW j \in DOMAIN pool, j # i,
             PciBase(pool[j]) <= a, a + 1 <= PciBase(pool[j]) + Length(pool[j])
      PROVE  FALSE
  <2>1. pool[i] \in Blocks /\ pool[j] \in Blocks /\ PagesApart(pool[i], pool[j])
    BY <1>1, PoolBlocks
  <2>2. /\ PciBase(pool[i]) \in Nat /\ Length(pool[i]) \in Nat
        /\ PciBase(pool[j]) \in Nat /\ Length(pool[j]) \in Nat
        /\ Apart(PciBase(pool[i]), Length(pool[i]), PciBase(pool[j]), Length(pool[j]))
    BY <2>1, BlockUnits, UnitsApart
  <2> QED BY <1>1, <2>2 DEF Apart
<1>2. PciHolders(a, 1) = {i}
  BY <1>1 DEF PciHolders
<1>3. i \in Nat
  BY PoolBlocks
<1> QED BY <1>2, <1>3, OnlyOne

LEMMA Single ==
    ASSUME NEW S, NEW b \in S
    PROVE  <<b>> \in Seq(S) /\ Elements(<<b>>) = {b} /\ Distinct(<<b>>)
<1>1. DOMAIN <<b>> = {1} /\ <<b>>[1] = b
  OBVIOUS
<1> QED BY <1>1 DEF Elements, Distinct

LEMMA NoBlocks ==
    Elements(<<>>) = {} /\ Distinct(<<>>) /\ <<>> \in Seq(Blocks)
BY DEF Elements, Distinct

LEMMA MemInvInit == MemInit => MemInv
<1> SUFFICES ASSUME MemInit PROVE MemInv
  OBVIOUS
<1> USE DEF MemInit
<1>1. MemTypeOK
  BY NoBlocks DEF MemTypeOK
<1>2. PagesKept({}, {}, {}) /\ PiecesKept({}, {})
  BY DEF PagesKept, PiecesKept
<1> QED BY <1>1, <1>2, NoBlocks DEF MemInv

\* The invariant after a step, from what the step leaves.
LEMMA MemInvAfter ==
    ASSUME pool' \in Seq(Blocks), Distinct(pool'), pieces' \subseteq MemPieces,
           buffers' \subseteq MemBuffers,
           NEW K, Elements(pool') = K, PagesKept(K, buffers', held'), PiecesKept(K, pieces')
    PROVE  MemInv'
BY DEF MemInv, MemTypeOK

LEMMA InitMemPoolKeeps == MemInv /\ InitMemPool => MemInv'
<1> SUFFICES ASSUME MemInv, InitMemPool PROVE MemInv'
  OBVIOUS
<1>0. pool = <<>> /\ pieces' = pieces /\ buffers' = buffers /\ Elements(pool) = {}
  BY NoBlocks DEF InitMemPool
<1>1. ASSUME NEW p \in Places(DefaultPages), pool' = <<NewBlock(p, DefaultPages)>>,
             held' = held \cup PagesFrom(p, DefaultPages)
      PROVE  MemInv'
  <2> DEFINE b == NewBlock(p, DefaultPages)
  <2>1. b \in Blocks /\ b.page = p /\ b.pages = DefaultPages /\ b.bits = {}
    BY NewBlockIs, MemConstants
  <2>2. Free(b, held)
    BY <2>1, PlacesAreFree, MemConstants DEF Free, Under
  <2> HIDE DEF b
  <2>3. PagesKept(Elements(pool) \cup {b}, buffers, held \cup PagesFrom(b.page, b.pages))
    BY <2>1, <2>2, PoolBlocks, BlockTaken
  <2>4. PiecesKept(Elements(pool) \cup {b}, pieces)
    BY <2>1, PoolBlocks, BlockAdded
  <2>5. pool' \in Seq(Blocks) /\ Distinct(pool') /\ Elements(pool') = Elements(pool) \cup {b}
    BY <1>0, <1>1, <2>1, Single DEF b
  <2>6. held' = held \cup PagesFrom(b.page, b.pages)
    BY <1>1, <2>1
  <2> QED BY <1>0, <2>3, <2>4, <2>5, <2>6, PoolBlocks, MemInvAfter
<1>2. ASSUME UNCHANGED <<pool, held>> PROVE MemInv'
  BY <1>0, <1>2, PoolBlocks, MemInvAfter
<1> QED BY <1>1, <1>2 DEF InitMemPool

LEMMA FromPoolKeeps ==
    ASSUME MemInv, NEW n \in Nat \ {0}, NEW ring \in BOOLEAN, FromPool(n, ring), buffers' = buffers
    PROVE  MemInv'
<1> DEFINE able == {i \in DOMAIN pool : Finds(pool[i], n, ring)}
           i    == Least(able)
           c    == Marked(pool[i], n, ring)
           x    == Piece(pool[i], n, ring)
<1>1. i \in DOMAIN pool /\ Finds(pool[i], n, ring)
  <2>1. able # {} /\ able \subseteq Nat
    BY PoolBlocks DEF FromPool
  <2>2. i \in able
    BY <2>1, FirstOf
  <2> QED BY <2>2
<1>2. pool' = [pool EXCEPT ![i] = c] /\ pieces' = pieces \cup {x} /\ held' = held
  BY DEF FromPool
<1> HIDE DEF able, i
<1>3. /\ c \in Blocks /\ c.page = pool[i].page /\ c.pages = pool[i].pages /\ x \in MemPieces
      /\ PiecesKept((Elements(pool) \ {pool[i]}) \cup {c}, pieces \cup {x})
  <2> DEFINE K == Elements(pool)
  <2>1. /\ K \subseteq Blocks /\ pool[i] \in K /\ pieces \subseteq MemPieces
        /\ PiecesKept(K, pieces) /\ \A b, d \in K : b # d => PagesApart(b, d)
    BY <1>1, PoolBlocks
  <2> HIDE DEF K, c, x
  <2>2. /\ c \in Blocks /\ c.page = pool[i].page /\ c.pages = pool[i].pages /\ x \in MemPieces
        /\ PiecesKept((K \ {pool[i]}) \cup {c}, pieces \cup {x})
    BY <1>1, <2>1, PieceTaken DEF c, x
  <2> QED BY <2>2 DEF K
<1> HIDE DEF c, x
<1>4. PagesKept((Elements(pool) \ {pool[i]}) \cup {c}, buffers, held)
  BY <1>1, <1>3, PoolBlocks, BlockRebitted
<1>5. c \notin Elements(pool) \ {pool[i]}
  BY <1>1, <1>3, PoolBlocks, RebittedIsNew
<1>6. /\ pool' \in Seq(Blocks) /\ Distinct(pool')
      /\ Elements(pool') = (Elements(pool) \ {pool[i]}) \cup {c}
  <2>1. pool \in Seq(Blocks) /\ Distinct(pool)
    BY PoolBlocks
  <2>2. Swapped(pool, i, c, pool') /\ i \in DOMAIN pool /\ c \in Blocks
    BY <1>1, <1>2, <1>3 DEF Swapped
  <2>3. pool' \in Seq(Blocks)
    BY <1>5, <2>1, <2>2, Replaced
  <2>4. Distinct(pool')
    BY <1>5, <2>1, <2>2, Replaced
  <2>5. Elements(pool') = (Elements(pool) \ {pool[i]}) \cup {c}
    BY <1>5, <2>1, <2>2, Replaced
  <2> QED BY <2>3, <2>4, <2>5
<1> QED BY <1>2, <1>3, <1>4, <1>6, PoolBlocks, MemInvAfter

LEMMA GrowthIs ==
    ASSUME NEW n \in Nat \ {0}
    PROVE  GrowthPages(n) \in Nat \ {0}
<1>1. (n + PageUnits - 1) \div PageUnits \in Nat
  BY MemConstants
<1> QED BY <1>1, MemConstants DEF GrowthPages

LEMMA FromNewBlockKeeps ==
    ASSUME MemInv, pool # <<>>, NEW n \in Nat \ {0}, NEW ring \in BOOLEAN,
           FromNewBlock(n, ring), buffers' = buffers
    PROVE  MemInv'
<1> DEFINE b(p) == NewBlock(p, GrowthPages(n))
<1>0. PICK p \in Places(GrowthPages(n)) :
        /\ held' = held \cup PagesFrom(p, GrowthPages(n))
        /\ IF Finds(b(p), n, ring)
             THEN /\ pool' = InsertMemBlock(Marked(b(p), n, ring))
                  /\ pieces' = pieces \cup {Piece(b(p), n, ring)}
             ELSE pool' = InsertMemBlock(b(p)) /\ UNCHANGED pieces
  BY DEF FromNewBlock
<1> DEFINE d == b(p)
<1>1. d \in Blocks /\ d.page = p /\ d.pages = GrowthPages(n) /\ d.bits = {}
  BY NewBlockIs, GrowthIs
<1>2. Free(d, held)
  BY <1>1, PlacesAreFree, GrowthIs DEF Free, Under
<1>3. /\ held' = held \cup PagesFrom(d.page, d.pages)
      /\ Finds(d, n, ring) => /\ pool' = InsertMemBlock(Marked(d, n, ring))
                              /\ pieces' = pieces \cup {Piece(d, n, ring)}
      /\ ~Finds(d, n, ring) => pool' = InsertMemBlock(d) /\ pieces' = pieces
  BY <1>0, <1>1
<1> HIDE DEF b, d
<1>4. /\ d \notin Elements(pool)
      /\ PagesKept(Elements(pool) \cup {d}, buffers, held')
  BY <1>1, <1>2, <1>3, PoolBlocks, BlockTaken
<1>5. PiecesKept(Elements(pool) \cup {d}, pieces)
  BY <1>1, PoolBlocks, BlockAdded
<1>6. CASE Finds(d, n, ring)
  <2> DEFINE c == Marked(d, n, ring)
             x == Piece(d, n, ring)
             K == Elements(pool) \cup {d}
  <2>1. K \subseteq Blocks /\ d \in K /\ pieces \subseteq MemPieces
    BY <1>1, PoolBlocks
  <2>2. \A e, f \in K : e # f => PagesApart(e, f)
    BY <1>4 DEF PagesKept
  <2>3. PiecesKept(K, pieces) /\ PagesKept(K, buffers, held')
    BY <1>4, <1>5
  <2>4. K \ {d} = Elements(pool)
    BY <1>4
  <2> HIDE DEF K
  <2>5. /\ c \in Blocks /\ c.page = d.page /\ c.pages = d.pages /\ x \in MemPieces
        /\ PiecesKept((K \ {d}) \cup {c}, pieces \cup {x})
    BY <1>6, <2>1, <2>2, <2>3, PieceTaken
  <2>6. pool' = <<Head(pool), c>> \o Tail(pool) /\ pieces' = pieces \cup {x}
    BY <1>3, <1>6 DEF InsertMemBlock
  <2> HIDE DEF c, x
  <2>7. PagesKept((K \ {d}) \cup {c}, buffers, held')
    BY <2>1, <2>3, <2>5, BlockRebitted
  <2>8. c \notin K \ {d}
    BY <2>1, <2>3, <2>5, RebittedIsNew
  <2>9. pool' \in Seq(Blocks) /\ Distinct(pool') /\ Elements(pool') = Elements(pool) \cup {c}
    <3>1. pool \in Seq(Blocks) /\ Distinct(pool) /\ c \notin Elements(pool)
      BY <2>4, <2>8, PoolBlocks
    <3>2. SecondIn(pool, c, pool') /\ c \in Blocks
      BY <2>5, <2>6 DEF SecondIn
    <3>3. pool' \in Seq(Blocks)
      BY <3>1, <3>2, Inserted
    <3>4. Distinct(pool')
      BY <3>1, <3>2, Inserted
    <3>5. Elements(pool') = Elements(pool) \cup {c}
      BY <3>1, <3>2, Inserted
    <3> QED BY <3>3, <3>4, <3>5
  <2>10. pieces' \subseteq MemPieces /\ buffers' \subseteq MemBuffers
    BY <2>1, <2>5, <2>6, PoolBlocks
  <2> QED BY <2>4, <2>5, <2>6, <2>7, <2>9, <2>10, MemInvAfter
<1>7. CASE ~Finds(d, n, ring)
  <2>1. pool' = <<Head(pool), d>> \o Tail(pool) /\ pieces' = pieces
    BY <1>3, <1>7 DEF InsertMemBlock
  <2>2. pool' \in Seq(Blocks) /\ Distinct(pool') /\ Elements(pool') = Elements(pool) \cup {d}
    <3>1. pool \in Seq(Blocks) /\ Distinct(pool)
      BY PoolBlocks
    <3>2. SecondIn(pool, d, pool') /\ d \in Blocks /\ d \notin Elements(pool)
      BY <1>1, <1>4, <2>1 DEF SecondIn
    <3>3. pool' \in Seq(Blocks)
      BY <3>1, <3>2, Inserted
    <3>4. Distinct(pool')
      BY <3>1, <3>2, Inserted
    <3>5. Elements(pool') = Elements(pool) \cup {d}
      BY <3>1, <3>2, Inserted
    <3> QED BY <3>3, <3>4, <3>5
  <2> QED BY <1>4, <1>5, <2>1, <2>2, PoolBlocks, MemInvAfter
<1> QED BY <1>6, <1>7

LEMMA AllocateMemKeeps == MemInv /\ AllocateMem => MemInv'
<1> SUFFICES ASSUME MemInv, AllocateMem PROVE MemInv'
  OBVIOUS
<1>1. PICK n \in Sizes, ring \in BOOLEAN :
        FromPool(n, ring) \/ FromNewBlock(n, ring) \/ NoMemory(n, ring)
  BY DEF AllocateMem
<1>2. n \in Nat \ {0} /\ pool # <<>> /\ buffers' = buffers
  BY MemConstants DEF AllocateMem
<1>3. CASE FromPool(n, ring)
  BY <1>2, <1>3, FromPoolKeeps
<1>4. CASE FromNewBlock(n, ring)
  BY <1>2, <1>4, FromNewBlockKeeps
<1>5. CASE NoMemory(n, ring)
  <2>1. pool' = pool /\ held' = held /\ pieces' = pieces
    BY <1>5 DEF NoMemory
  <2> QED BY <1>2, <2>1, PoolBlocks, MemInvAfter
<1> QED BY <1>1, <1>3, <1>4, <1>5

LEMMA FreeMemKeeps == MemInv /\ FreeMem => MemInv'
<1> SUFFICES ASSUME MemInv, FreeMem PROVE MemInv'
  OBVIOUS
<1>1. PICK x \in pieces :
        LET i    == Least(HostHolders(x.addr, x.len))
            bits == Cleared(pool[i], x)
        IN  /\ pieces' = pieces \ {x}
            /\ IF Released(i, bits)
                 THEN /\ pool' = Without(i)
                      /\ held' = held \ PagesFrom(pool[i].page, pool[i].pages)
                 ELSE pool' = [pool EXCEPT ![i].bits = bits] /\ UNCHANGED held
  BY DEF FreeMem
<1> DEFINE i == Least(HostHolders(x.addr, x.len))
           b == pool[i]
           c == [b EXCEPT !.bits = Cleared(b, x)]
           K == Elements(pool)
<1>2. /\ pieces' = pieces \ {x}
      /\ Released(i, Cleared(b, x)) =>
           pool' = Without(i) /\ held' = held \ PagesFrom(b.page, b.pages)
      /\ ~Released(i, Cleared(b, x)) =>
           pool' = [pool EXCEPT ![i] = c] /\ held' = held
  BY <1>1
<1>3. buffers' = buffers
  BY DEF FreeMem
<1>4. i \in DOMAIN pool /\ In(x, b)
  <2>1. PICK d \in K : In(x, d)
    BY PoolBlocks DEF PiecesKept
  <2>2. PICK j \in DOMAIN pool : pool[j] = d
    BY DEF Elements
  <2>3. Reaches(pool[j], x.addr, x.len) /\ x.addr \in Nat /\ x.len \in Nat \ {0}
    BY <2>1, <2>2, PoolBlocks, PieceOf DEF In
  <2>4. i = j
    BY <2>3, HostHolder
  <2> QED BY <2>1, <2>2, <2>4
<1> HIDE DEF i
<1>5. /\ K \subseteq Blocks /\ b \in K /\ pieces \subseteq MemPieces
      /\ PiecesKept(K, pieces) /\ PagesKept(K, buffers, held) /\ buffers \subseteq MemBuffers
      /\ \A d, e \in K : d # e => PagesApart(d, e)
  BY <1>4, PoolBlocks
<1> HIDE DEF b, c, K
<1>6. /\ c \in Blocks /\ c.page = b.page /\ c.pages = b.pages /\ c.bits = Cleared(b, x)
      /\ PiecesKept((K \ {b}) \cup {c}, pieces \ {x})
  BY <1>4, <1>5, PieceFreed DEF c
<1>7. PagesKept((K \ {b}) \cup {c}, buffers, held)
  BY <1>5, <1>6, BlockRebitted
<1>8. c \notin K \ {b}
  BY <1>5, <1>6, RebittedIsNew
<1>9. pool \in Seq(Blocks) /\ Distinct(pool) /\ pieces' \subseteq MemPieces
  BY <1>2, <1>5, PoolBlocks
<1>10. CASE Released(i, Cleared(b, x))
  <2>1. PagesKept(K \ {b}, buffers, held')
    BY <1>2, <1>5, <1>10, BlockReleased
  <2>2. PiecesKept(K \ {b}, pieces')
    <3>1. ((K \ {b}) \cup {c}) \ {c} = K \ {b} /\ c.bits = {} /\ c \in (K \ {b}) \cup {c}
      BY <1>6, <1>8, <1>10 DEF Released
    <3>2. PiecesKept((K \ {b}) \cup {c}, pieces')
      BY <1>2, <1>6
    <3>3. PiecesKept(((K \ {b}) \cup {c}) \ {c}, pieces')
      BY <1>9, <3>1, <3>2, BlockDropped
    <3> QED BY <3>1, <3>3
  <2>3. TakenOut(pool, i, pool')
    BY <1>2, <1>10 DEF TakenOut, Without
  <2>4. pool' \in Seq(Blocks)
    BY <1>4, <1>9, <2>3, Unlinked
  <2>5. Distinct(pool')
    BY <1>4, <1>9, <2>3, Unlinked
  <2>6. Elements(pool') = Elements(pool) \ {pool[i]}
    BY <1>4, <1>9, <2>3, Unlinked
  <2>7. Elements(pool') = K \ {b}
    BY <2>6 DEF K, b
  <2> QED BY <1>3, <1>5, <1>9, <2>1, <2>2, <2>4, <2>5, <2>7, MemInvAfter
<1>11. CASE ~Released(i, Cleared(b, x))
  <2>1. Swapped(pool, i, c, pool') /\ held' = held /\ c \in Blocks
    BY <1>2, <1>6, <1>11 DEF Swapped
  <2>2. c \notin Elements(pool) \ {pool[i]}
    BY <1>8 DEF K, b
  <2>3. pool' \in Seq(Blocks)
    BY <1>4, <1>9, <2>1, <2>2, Replaced
  <2>4. Distinct(pool')
    BY <1>4, <1>9, <2>1, <2>2, Replaced
  <2>5. Elements(pool') = (Elements(pool) \ {pool[i]}) \cup {c}
    BY <1>4, <1>9, <2>1, <2>2, Replaced
  <2>6. Elements(pool') = (K \ {b}) \cup {c}
    BY <2>5 DEF K, b
  <2>7. PagesKept((K \ {b}) \cup {c}, buffers', held') /\ PiecesKept((K \ {b}) \cup {c}, pieces')
    BY <1>2, <1>3, <1>6, <1>7, <2>1
  <2> QED BY <1>3, <1>5, <1>9, <2>3, <2>4, <2>6, <2>7, MemInvAfter
<1> QED BY <1>10, <1>11

LEMMA FreeMemPoolKeeps == MemInv /\ FreeMemPool => MemInv'
<1> SUFFICES ASSUME MemInv, FreeMemPool PROVE MemInv'
  OBVIOUS
<1>1. /\ held' = held \ UNION {PagesFrom(pool[i].page, pool[i].pages) : i \in DOMAIN pool}
      /\ pool' = <<>> /\ pieces' = {} /\ buffers' = buffers
  BY DEF FreeMemPool
<1>2. \A p : p \in held' <=> p \in held /\ \A b \in Elements(pool) : ~Under(p, b)
  BY <1>1 DEF Elements, Under
<1>3. \A b \in Elements(pool), c \in buffers : \A p : ~(Under(p, b) /\ Under(p, c))
  <2> TAKE b \in Elements(pool), c \in buffers
  <2>1. /\ b.page \in Nat /\ b.pages \in Nat \ {0} /\ c.page \in Nat /\ c.pages \in Nat \ {0}
    BY PoolBlocks, BlockOf DEF MemBuffers
  <2>2. PagesApart(b, c)
    BY PoolBlocks DEF PagesKept
  <2> QED BY <2>1, <2>2, RunsMeet
<1>4. \A p : p \in held <=> (\E b \in Elements(pool) : Under(p, b)) \/ (\E c \in buffers : Under(p, c))
  BY PoolBlocks, Zenon DEF PagesKept
<1>5. \A p : p \in held' <=> \E c \in buffers : Under(p, c)
  BY <1>2, <1>3, <1>4
<1>6. \A b, c \in buffers : b # c => PagesApart(b, c)
  BY PoolBlocks, Zenon DEF PagesKept
<1>7. PagesKept({}, buffers, held')
  BY <1>5, <1>6 DEF PagesKept
<1>8. PiecesKept({}, {})
  BY DEF PiecesKept
<1>9. pool' \in Seq(Blocks) /\ Distinct(pool') /\ Elements(pool') = {}
  BY <1>1, NoBlocks
<1>10. buffers' \subseteq MemBuffers /\ pieces' \subseteq MemPieces
  BY <1>1, PoolBlocks
<1> QED BY <1>1, <1>7, <1>8, <1>9, <1>10, MemInvAfter

\* The aligned run lies within the pages that were taken.
LEMMA AlignedWithin ==
    ASSUME NEW p \in Nat, NEW n \in Nat \ {0}, NEW al \in Nat \ {0}
    PROVE  /\ RealPages(n, al) \in Nat \ {0}
           /\ Aligned(p, al) \in Nat /\ p <= Aligned(p, al)
           /\ Aligned(p, al) + n + TailPages(p, n, al) = p + RealPages(n, al)
           /\ TailPages(p, n, al) \in Nat
<1>1. Aligned(p, al) \in Nat /\ p <= Aligned(p, al) /\ Aligned(p, al) < p + al
  BY AlignUp
<1> DEFINE f == Aligned(p, al)
<1> HIDE DEF f
<1>2. f \in Nat /\ p <= f /\ f < p + al
  BY <1>1 DEF f
<1>3. TailPages(p, n, al) = RealPages(n, al) - n - (f - p)
  BY DEF TailPages, f
<1>4. CASE al > 1
  BY <1>2, <1>3, <1>4 DEF RealPages, f
<1>5. CASE ~(al > 1)
  BY <1>2, <1>3, <1>5 DEF RealPages, f
<1> QED BY <1>4, <1>5

\* Trimming what was taken leaves the aligned run.
Trims(H, p, r, f, n, t) ==
    /\ p \in Nat /\ r \in Nat \ {0} /\ f \in Nat /\ n \in Nat \ {0} /\ t \in Nat
    /\ p <= f /\ f + n + t = p + r
    /\ PagesFrom(p, r) \cap H = {}

LEMMA Trimmed ==
    ASSUME NEW H, NEW p, NEW r, NEW f, NEW n, NEW t, Trims(H, p, r, f, n, t)
    PROVE  /\ ((H \cup PagesFrom(p, r)) \ PagesFrom(p, f - p)) \ PagesFrom(f + n, t)
                = H \cup PagesFrom(f, n)
           /\ (((H \cup PagesFrom(p, r)) \ PagesFrom(p, f - p)) \ PagesFrom(f + n, t))
                 \ PagesFrom(f, n) = H
           /\ \A q \in PagesFrom(f, n) : q \notin H
<1>1. \A q : q \in PagesFrom(p, r) <=>
               q \in PagesFrom(p, f - p) \/ q \in PagesFrom(f, n) \/ q \in PagesFrom(f + n, t)
  BY DEF Trims, PagesFrom
<1>2. \A q \in PagesFrom(f, n) : q \notin PagesFrom(p, f - p) /\ q \notin PagesFrom(f + n, t)
  BY DEF Trims, PagesFrom
<1>3. PagesFrom(p, r) \cap H = {}
  BY DEF Trims
<1> QED BY <1>1, <1>2, <1>3

LEMMA AllocateAlignedPagesKeeps == MemInv /\ AllocateAlignedPages => MemInv'
<1> SUFFICES ASSUME MemInv, AllocateAlignedPages PROVE MemInv'
  OBVIOUS
<1>0. PICK ask \in AlignedAsks :
      \E p \in Places(RealPages(ask[1], ask[2])) :
       LET first == Aligned(p, ask[2])
           kept  == ((held \cup PagesFrom(p, RealPages(ask[1], ask[2])))
                       \ PagesFrom(p, first - p))
                       \ PagesFrom(first + ask[1], TailPages(p, ask[1], ask[2]))
       IN  \/ /\ held' = kept
              /\ buffers' = buffers \cup {[page |-> first, pages |-> ask[1]]}
              /\ UNCHANGED faults
           \/ /\ Fails /\ held' = kept \ PagesFrom(first, ask[1])
              /\ UNCHANGED buffers
  BY DEF AllocateAlignedPages
<1>1. PICK p \in Places(RealPages(ask[1], ask[2])) :
       LET first == Aligned(p, ask[2])
           kept  == ((held \cup PagesFrom(p, RealPages(ask[1], ask[2])))
                       \ PagesFrom(p, first - p))
                       \ PagesFrom(first + ask[1], TailPages(p, ask[1], ask[2]))
       IN  \/ /\ held' = kept
              /\ buffers' = buffers \cup {[page |-> first, pages |-> ask[1]]}
              /\ UNCHANGED faults
           \/ /\ Fails /\ held' = kept \ PagesFrom(first, ask[1])
              /\ UNCHANGED buffers
  BY <1>0
<1>2. pool' = pool /\ pieces' = pieces
  BY DEF AllocateAlignedPages
<1> DEFINE n == ask[1]
           al == ask[2]
           r == RealPages(n, al)
           f == Aligned(p, al)
           t == TailPages(p, n, al)
           b == [page |-> f, pages |-> n]
           kept == ((held \cup PagesFrom(p, r)) \ PagesFrom(p, f - p)) \ PagesFrom(f + n, t)
<1>3. n \in Nat \ {0} /\ al \in Nat \ {0}
  BY MemConstants
<1>4. r \in Nat \ {0}
  BY <1>3 DEF RealPages
<1>5. p \in Nat /\ \A q \in PagesFrom(p, r) : q \notin held
  BY <1>4, PlacesAreFree
<1>6. f \in Nat /\ p <= f /\ f + n + t = p + r /\ t \in Nat
  BY <1>3, <1>5, AlignedWithin
<1>7. (held' = kept /\ buffers' = buffers \cup {b}) \/ (held' = kept \ PagesFrom(f, n) /\ buffers' = buffers)
  BY <1>1
<1> HIDE DEF n, al, r, f, t
<1>8. kept = held \cup PagesFrom(f, n) /\ kept \ PagesFrom(f, n) = held
      /\ \A q \in PagesFrom(f, n) : q \notin held
  <2>1. Trims(held, p, r, f, n, t)
    BY <1>3, <1>4, <1>5, <1>6 DEF Trims
  <2>2. kept = held \cup PagesFrom(f, n)
    BY <2>1, Trimmed
  <2>3. kept \ PagesFrom(f, n) = held
    BY <2>1, Trimmed
  <2>4. \A q \in PagesFrom(f, n) : q \notin held
    BY <2>1, Trimmed
  <2> QED BY <2>2, <2>3, <2>4
<1>9. b \in MemBuffers /\ b.page = f /\ b.pages = n
  BY <1>3, <1>6 DEF MemBuffers
<1> HIDE DEF kept, b
<1>10. Free(b, held)
  BY <1>8, <1>9 DEF Free, Under
<1>11. CASE held' = kept /\ buffers' = buffers \cup {b}
  <2>1. PagesKept(Elements(pool), buffers \cup {b}, held \cup PagesFrom(b.page, b.pages))
    BY <1>9, <1>10, PoolBlocks, BufferTaken
  <2>2. PagesKept(Elements(pool), buffers', held') /\ buffers' \subseteq MemBuffers
    BY <1>8, <1>9, <1>11, <2>1, PoolBlocks
  <2> QED BY <1>2, <2>2, PoolBlocks, MemInvAfter
<1>12. CASE held' = kept \ PagesFrom(f, n) /\ buffers' = buffers
  <2>1. held' = held
    BY <1>8, <1>12
  <2> QED BY <1>2, <1>12, <2>1, PoolBlocks, MemInvAfter
<1> QED BY <1>7, <1>11, <1>12

LEMMA FreeAlignedPagesKeeps == MemInv /\ FreeAlignedPages => MemInv'
<1> SUFFICES ASSUME MemInv, FreeAlignedPages PROVE MemInv'
  OBVIOUS
<1>1. PICK b \in buffers : buffers' = buffers \ {b} /\ held' = held \ PagesFrom(b.page, b.pages)
  BY DEF FreeAlignedPages
<1>2. pool' = pool /\ pieces' = pieces
  BY DEF FreeAlignedPages
<1>3. PagesKept(Elements(pool), buffers \ {b}, held \ PagesFrom(b.page, b.pages))
  BY PoolBlocks, BufferReleased
<1>4. PagesKept(Elements(pool), buffers', held') /\ buffers' \subseteq MemBuffers
  BY <1>1, <1>3, PoolBlocks
<1> QED BY <1>2, <1>4, PoolBlocks, MemInvAfter

\* The blocks of the pool, the pieces in use and the aligned buffers keep their
\* shape: blocks and buffers lie on pages of their own, which are the pages
\* held, and every marked unit belongs to one piece.
THEOREM MemInvariant == MemSpec => []MemInv
<1>1. MemInv /\ [MemNext]_memVars => MemInv'
  <2> SUFFICES ASSUME MemInv, [MemNext]_memVars PROVE MemInv'
    OBVIOUS
  <2>1. CASE UNCHANGED memVars
    <3>1. pool' = pool /\ pieces' = pieces /\ buffers' = buffers /\ held' = held
      BY <2>1 DEF memVars
    <3> QED BY <3>1, PoolBlocks, MemInvAfter
  <2> QED BY <2>1, InitMemPoolKeeps, AllocateMemKeeps, FreeMemKeeps, FreeMemPoolKeeps,
             AllocateAlignedPagesKeeps, FreeAlignedPagesKeeps DEF MemNext
<1> QED BY <1>1, MemInvInit, PTL DEF MemSpec

LEMMA AddressReturns ==
    ASSUME MemInv, NEW x \in pieces, NEW a \in Units(x)
    PROVE  HostAddrForPciAddr(PciAddrForHostAddr(a, 1), 1) = a
<1>1. PICK d \in Elements(pool) : In(x, d)
  BY PoolBlocks DEF PiecesKept
<1>2. PICK i \in DOMAIN pool : pool[i] = d
  BY DEF Elements
<1>3. x \in MemPieces /\ d \in Blocks
  BY PoolBlocks
<1>4. a \in Nat /\ Reaches(d, a, 1)
  BY <1>1, <1>3, UnitsIn DEF In
<1>5. Base(d) \in Nat /\ PciBase(d) \in Nat /\ Length(d) \in Nat \ {0}
  BY <1>3, BlockUnits
<1>6. Least(HostHolders(a, 1)) = i
  BY <1>2, <1>4, HostHolder
<1>7. PciAddrForHostAddr(a, 1) = PciBase(d) + (a - Base(d))
  BY <1>2, <1>6 DEF PciAddrForHostAddr
<1> DEFINE e == PciBase(d) + (a - Base(d))
<1>8. /\ e \in Nat /\ PciBase(d) <= e /\ e + 1 <= PciBase(d) + Length(d)
      /\ Base(d) + (e - PciBase(d)) = a
  BY <1>4, <1>5 DEF Reaches
<1>9. PciAddrForHostAddr(a, 1) = e
  BY <1>7
<1> HIDE DEF e
<1>10. Least(PciHolders(e, 1)) = i
  BY <1>2, <1>8, PciHolder
<1>11. HostAddrForPciAddr(e, 1) = Base(d) + (e - PciBase(d))
  BY <1>2, <1>10 DEF HostAddrForPciAddr
<1> QED BY <1>8, <1>9, <1>11

LEMMA InvPiecesSound == MemInv => PiecesSound
<1> SUFFICES ASSUME MemInv PROVE PiecesSound
  OBVIOUS
<1>1. \A x, y \in pieces : x # y => Units(x) \cap Units(y) = {}
  <2> TAKE x, y \in pieces
  <2> HAVE x # y
  <2>1. Apart(x.addr, x.len, y.addr, y.len)
    BY PoolBlocks DEF PiecesKept
  <2>2. x \in MemPieces /\ y \in MemPieces
    BY PoolBlocks
  <2> QED BY <2>1, <2>2, UnitsMeet
<1>2. ASSUME NEW x \in pieces, NEW a \in Units(x)
      PROVE  \E i \in DOMAIN pool : \E u \in pool[i].bits : a = Base(pool[i]) + u
  <2>1. PICK d \in Elements(pool) : In(x, d)
    BY PoolBlocks DEF PiecesKept
  <2>2. PICK i \in DOMAIN pool : pool[i] = d
    BY DEF Elements
  <2>3. x \in MemPieces /\ d \in Blocks
    BY PoolBlocks
  <2>4. Base(d) + (a - Base(d)) = a /\ a - Base(d) \in d.bits
    BY <2>1, <2>3, UnitsIn DEF In
  <2> QED BY <2>2, <2>4
<1>3. ASSUME NEW i \in DOMAIN pool, NEW u \in pool[i].bits
      PROVE  \E x \in pieces : Base(pool[i]) + u \in Units(x)
  BY PoolBlocks DEF PiecesKept
<1>4. UNION {Units(x) : x \in pieces} =
        UNION {{Base(pool[i]) + u : u \in pool[i].bits} : i \in DOMAIN pool}
  <2>1. \A a \in UNION {Units(x) : x \in pieces} :
          a \in UNION {{Base(pool[i]) + u : u \in pool[i].bits} : i \in DOMAIN pool}
    BY <1>2
  <2>2. \A a \in UNION {{Base(pool[i]) + u : u \in pool[i].bits} : i \in DOMAIN pool} :
          a \in UNION {Units(x) : x \in pieces}
    BY <1>3
  <2> QED BY <2>1, <2>2
<1>5. \A x \in pieces : x.ring => x.addr \div Boundary = (x.addr + x.len - 1) \div Boundary
  BY PoolBlocks, Zenon DEF PiecesKept, Window
<1>6. \A x \in pieces : \A a \in Units(x) : HostAddrForPciAddr(PciAddrForHostAddr(a, 1), 1) = a
  BY AddressReturns
<1> QED BY <1>1, <1>4, <1>5, <1>6, Zenon DEF PiecesSound

LEMMA InvPagesConserved == MemInv => PagesConserved
<1> SUFFICES ASSUME MemInv PROVE PagesConserved
  OBVIOUS
<1> DEFINE inPool == {PagesFrom(pool[i].page, pool[i].pages) : i \in DOMAIN pool}
           apart  == {PagesFrom(b.page, b.pages) : b \in buffers}
<1>1. \A s \in inPool : \E b \in Elements(pool) : s = PagesFrom(b.page, b.pages)
  BY DEF Elements
<1>2. \A b \in Elements(pool) : PagesFrom(b.page, b.pages) \in inPool
  BY DEF Elements
<1>3. \A p : p \in held <=> (\E b \in Elements(pool) : Under(p, b)) \/ (\E c \in buffers : Under(p, c))
  BY PoolBlocks, Zenon DEF PagesKept
<1>4. held = UNION (inPool \cup apart)
  <2>1. ASSUME NEW p \in held PROVE p \in UNION (inPool \cup apart)
    <3>1. CASE \E b \in Elements(pool) : Under(p, b)
      BY <1>2, <3>1 DEF Under
    <3>2. CASE \E c \in buffers : Under(p, c)
      BY <3>2 DEF Under
    <3> QED BY <1>3, <2>1, <3>1, <3>2
  <2>2. ASSUME NEW p \in UNION (inPool \cup apart) PROVE p \in held
    <3>1. PICK s \in inPool \cup apart : p \in s
      BY <2>2
    <3>2. CASE s \in inPool
      <4>1. PICK b \in Elements(pool) : s = PagesFrom(b.page, b.pages)
        BY <1>1, <3>2
      <4> QED BY <1>3, <3>1, <4>1 DEF Under
    <3>3. CASE s \in apart
      <4>1. PICK b \in buffers : s = PagesFrom(b.page, b.pages)
        BY <3>3
      <4> QED BY <1>3, <3>1, <4>1 DEF Under
    <3> QED BY <3>1, <3>2, <3>3
  <2> QED BY <2>1, <2>2
<1>5. \A s \in inPool \cup apart : \E b \in Elements(pool) \cup buffers : s = PagesFrom(b.page, b.pages)
  BY <1>1
<1>6. \A b, c \in Elements(pool) \cup buffers : b = c \/ PagesApart(b, c)
        \/ PagesFrom(b.page, b.pages) = PagesFrom(c.page, c.pages)
  <2> TAKE b, c \in Elements(pool) \cup buffers
  <2>1. CASE b \in Elements(pool) /\ c \in Elements(pool)
    BY <2>1, PoolBlocks
  <2>2. CASE b \in Elements(pool) /\ c \in buffers
    BY <2>2, PoolBlocks DEF PagesKept
  <2>3. CASE b \in buffers /\ c \in Elements(pool)
    BY <2>3, PoolBlocks, ApartBothWays DEF PagesKept
  <2>4. CASE b \in buffers /\ c \in buffers
    BY <2>4, PoolBlocks DEF PagesKept
  <2> QED BY <2>1, <2>2, <2>3, <2>4
<1>7. \A s, t \in inPool \cup apart : s # t => s \cap t = {}
  <2> TAKE s, t \in inPool \cup apart
  <2> HAVE s # t
  <2>1. PICK b \in Elements(pool) \cup buffers : s = PagesFrom(b.page, b.pages)
    BY <1>5
  <2>2. PICK c \in Elements(pool) \cup buffers : t = PagesFrom(c.page, c.pages)
    BY <1>5
  <2>3. PagesApart(b, c)
    BY <1>6, <2>1, <2>2
  <2>4. b.page \in Nat /\ b.pages \in Nat \ {0} /\ c.page \in Nat /\ c.pages \in Nat \ {0}
    BY PoolBlocks, BlockOf DEF MemBuffers
  <2>5. \A p : ~(Under(p, b) /\ Under(p, c))
    BY <2>3, <2>4, RunsMeet
  <2> QED BY <2>1, <2>2, <2>5 DEF Under
<1> QED BY <1>4, <1>7 DEF PagesConserved

\* Pieces of the shared memory are never handed out twice, a ring never spans a
\* boundary, an address of a piece comes back from the controller as it went,
\* and every page PciIo gave is in one block or one aligned buffer.
THEOREM PoolIsSound == MemSpec => []PoolSound
<1>1. MemInv => PoolSound
  BY InvPiecesSound, InvPagesConserved DEF PoolSound
<1> QED BY <1>1, MemInvariant, PTL

LEMMA InvSearchFindsRoom == MemInv => SearchFindsRoom
<1> SUFFICES ASSUME MemInv, NEW i \in DOMAIN pool, NEW n \in Sizes, NEW ring \in BOOLEAN
             PROVE  Finds(pool[i], n, ring) <=>
                      \E s \in 0 .. Length(pool[i]) - n :
                        LET first == Base(pool[i]) + s
                        IN  /\ UnitsFrom(s, n) \cap pool[i].bits = {}
                            /\ ring => first \div Boundary = (first + n - 1) \div Boundary
  BY DEF SearchFindsRoom
<1> DEFINE b == pool[i]
<1>1. n \in Nat \ {0} /\ Base(b) \in Nat /\ Length(b) \in Nat
  BY MemConstants, PoolBlocks, BlockUnits
<1> HIDE DEF b
<1>2. \A s : Fits(b, n, ring, s) <=>
        LET first == Base(b) + s
        IN  /\ UnitsFrom(s, n) \cap b.bits = {}
            /\ ring => first \div Boundary = (first + n - 1) \div Boundary
  BY DEF Fits, Window
<1>3. Finds(b, n, ring) <=> \E s \in 0 .. Length(b) - n : Fits(b, n, ring, s)
  <2>1. CASE Finds(b, n, ring)
    <3>1. /\ Search(b, n, ring).start \in Nat /\ Search(b, n, ring).start + n <= Length(b)
          /\ Fits(b, n, ring, Search(b, n, ring).start)
      BY <1>1, <2>1, SearchFinds
    <3>2. Search(b, n, ring).start \in 0 .. Length(b) - n
      BY <1>1, <3>1
    <3> QED BY <2>1, <3>1, <3>2
  <2>2. CASE ~Finds(b, n, ring)
    <3>1. \A t \in Nat : t + n <= Length(b) => ~Fits(b, n, ring, t)
      BY <1>1, <2>2, SearchFinds
    <3>2. \A s \in 0 .. Length(b) - n : s \in Nat /\ s + n <= Length(b)
      BY <1>1
    <3> QED BY <2>2, <3>1, <3>2
  <2> QED BY <2>1, <2>2
<1> QED BY <1>2, <1>3 DEF b

\* UsbHcAllocMemFromBlock passes a block over only when no run of free units in
\* it would do: its walk over the bit array, with the restart at a boundary,
\* finds a run exactly when there is one.
THEOREM RoomIsFound == MemSpec => []SearchFindsRoom
BY InvSearchFindsRoom, MemInvariant, PTL
=============================================================================
