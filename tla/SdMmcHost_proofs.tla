--------------------------- MODULE SdMmcHost_proofs ---------------------------
(***************************************************************************)
(* Proofs about SdMmcHost, for every size of card, block and chunk, every  *)
(* origin, and any number of lost and late answers and exchanged cards.    *)
(***************************************************************************)
EXTENDS SdMmcHost, TLAPS

Steps  == {"off", "sd", "sd41", "mmc", "ready", "app", "aux", "begin", "chunk",
           "between", "dat0", "advance", "stop"}
Moving == {"begin", "chunk", "between", "dat0", "advance"}

-----------------------------------------------------------------------------
(* The types that the steps rely on.                                       *)

HostTypes == [app : BOOLEAN, known : BOOLEAN, sector : BOOLEAN,
              pending : {None} \cup [index : Nat, app : BOOLEAN, arg : Nat]]
CardTypes == [sector : BOOLEAN, up : BOOLEAN, app : BOOLEAN,
              open : {"no", "read", "write"}, busy : BOOLEAN]
BusTypes  == [asked : Nat, source : Nat, divider : 1 .. 63, width : {1, 4, 8}]

TypeInv ==
    /\ stage \in {"io", "first", "second", "serve", "failed"}
    /\ origin \in Origins /\ held \in BOOLEAN /\ it \in Hosts
    /\ core \subseteq Hosts /\ installed \subseteq Hosts
    /\ host \in HostTypes /\ card \in CardTypes /\ bus \in BusTypes
    /\ pc \in Steps
    /\ req \in [lba : Nat, len : Nat, write : BOOLEAN]
    /\ done \in 0 .. CardBlocks /\ arg \in Nat
    /\ polls \in 0 .. MaxPolls /\ faults \in 0 .. MaxFaults
    /\ reply \in {"none", "ok", "error"} /\ spoilt \subseteq {"busy", "phase"}

\* What a card is after a command, field by field.
LEMMA TakenFields ==
    ASSUME card \in CardTypes, NEW c
    PROVE  /\ Taken(c) \in CardTypes
           /\ Taken(c).sector = card.sector
           /\ Taken(c).app <=> c.index = 55
           /\ Taken(c).busy <=>
                c.index # 0 /\ (card.busy \/ (c.index = 12 /\ card.open = "write"))
           /\ c.index \in {0, 12} => Taken(c).open = "no"
           /\ IsBlock(c.index) /\ InRange(c) =>
                Taken(c).open = IF c.write THEN "write" ELSE "read"
           /\ c.index \notin {0, 12, 18, 25} => Taken(c).open = card.open
<1> DEFINE app  == c.index = 55
           up   == IF c.index = 0 THEN FALSE ELSE card.up \/ c.index \in {1, 41}
           open == CASE c.index \in {0, 12} -> "no"
                     [] IsBlock(c.index) /\ InRange(c) ->
                          IF c.write THEN "write" ELSE "read"
                     [] OTHER -> card.open
           busy == c.index # 0 /\ (card.busy \/ (c.index = 12 /\ card.open = "write"))
<1>1. app \in BOOLEAN /\ up \in BOOLEAN /\ busy \in BOOLEAN
  BY DEF CardTypes
<1>2. open \in {"no", "read", "write"}
  BY DEF CardTypes
<1>3. /\ c.index \in {0, 12} => open = "no"
      /\ IsBlock(c.index) /\ InRange(c) => open = IF c.write THEN "write" ELSE "read"
      /\ c.index \notin {0, 12, 18, 25} => open = card.open
  BY DEF IsBlock
<1>4. Taken(c) = [card EXCEPT !.app = app, !.up = up, !.open = open, !.busy = busy]
  BY DEF Taken
<1> HIDE DEF app, up, open, busy
<1>5. /\ Taken(c) \in CardTypes /\ Taken(c).sector = card.sector
      /\ Taken(c).app = app /\ Taken(c).open = open /\ Taken(c).busy = busy
  BY <1>1, <1>2, <1>4 DEF CardTypes
<1> QED BY <1>3, <1>5 DEF app, busy

\* The clock a bus is set to never exceeds the one asked for, if that is one
\* that the slower source can be divided down to.
LEMMA ClockBound ==
    ASSUME NEW hz \in Nat, hz > 0
    PROVE  /\ MesonSetClock(hz).asked = hz
           /\ MesonSetClock(hz).source \in {240, 10000}
           /\ MesonSetClock(hz).divider \in 1 .. 63
           /\ hz >= 4 => MesonSetClock(hz).source <= hz * MesonSetClock(hz).divider
<1> DEFINE capped == IF hz < 500 THEN hz ELSE 500
           source == IF capped > 160 THEN 10000 ELSE 240
           ratio  == (source + capped - 1) \div capped
<1>1. capped \in 1 .. 500 /\ capped <= hz /\ source \in {240, 10000}
  OBVIOUS
<1>2. ratio \in Nat /\ ratio >= 1 /\ source <= ratio * capped
  <2>0. capped \in Nat /\ capped >= 1 /\ source \in Nat /\ source >= 1
    BY <1>1
  <2> HIDE DEF capped, source
  <2>1. source + capped - 1 \in Nat /\ source + capped - 1 >= capped
    BY <2>0
  <2>2. ratio \in Nat /\ source + capped - 1 < (ratio + 1) * capped
    BY <2>0, <2>1
  <2>3. ratio >= 1
    BY <2>0, <2>1, <2>2
  <2>4. (ratio + 1) * capped = ratio * capped + capped
    BY <2>0, <2>2
  <2> QED BY <2>0, <2>2, <2>3, <2>4
<1>3. /\ MesonSetClock(hz).asked = hz /\ MesonSetClock(hz).source = source
      /\ MesonSetClock(hz).divider = IF ratio > 63 THEN 63 ELSE ratio
  BY DEF MesonSetClock
<1>4. ratio > 63 => capped * 63 < source + capped
  OBVIOUS
<1> QED BY <1>1, <1>2, <1>3

-----------------------------------------------------------------------------
(* One command.                                                            *)

\* Whatever becomes of a command, the card takes it or misses it; it is the
\* only one that can be outstanding afterwards, and only if it failed; a
\* success was the card's unless another one was outstanding.
LEMMA CommandStep ==
    ASSUME TypeInv, NEW c, Succeeds(c) \/ Fails(c)
    PROVE  /\ card' \in CardTypes /\ card'.sector = card.sector
           /\ \/ UNCHANGED <<card, moved, spoilt>>
              \/ CardTakes(c) /\ card' = Taken(c) /\ Answers(c)
           /\ faults' \in 0 .. MaxFaults
           /\ spoilt' \subseteq {"busy", "phase"}
           /\ late' = None \/ late' = c
           /\ Succeeds(c) => late' = None
           /\ Succeeds(c) /\ late = None => CardTakes(c) /\ card' = Taken(c)
<1>1. Taken(c) \in CardTypes /\ Taken(c).sector = card.sector
  BY TakenFields DEF TypeInv
<1>2. Abuse(c) \subseteq {"busy", "phase"}
  BY DEF Abuse
<1>3. card \in CardTypes /\ spoilt \subseteq {"busy", "phase"} /\ faults \in 0 .. MaxFaults
      /\ MaxFaults \in Nat
  BY ParameterAssumption DEF TypeInv
<1>4. CardTakes(c) => /\ card' = Taken(c)
                      /\ spoilt' \subseteq {"busy", "phase"}
  BY <1>2, <1>3 DEF CardTakes
<1>5. CardMisses => UNCHANGED <<card, moved, spoilt>>
  BY DEF CardMisses
<1>6. Fault => faults' \in 0 .. MaxFaults
  BY <1>3 DEF Fault
<1>7. CASE Succeeds(c)
  <2>1. \/ Answers(c) /\ CardTakes(c)
        \/ late # None /\ CardMisses
    BY <1>7 DEF Succeeds
  <2>2. late' = None /\ faults' = faults
    BY <1>7 DEF Succeeds
  <2> QED BY <1>1, <1>3, <1>4, <1>5, <2>1, <2>2
<1>8. CASE Fails(c) /\ ~Succeeds(c)
  <2>1. \/ CardMisses
        \/ Answers(c) /\ CardTakes(c)
    BY <1>8 DEF Fails
  <2>2. /\ late' = None \/ late' = c
        /\ faults' = faults \/ Fault
    BY <1>8 DEF Fails
  <2> QED BY <1>1, <1>3, <1>4, <1>5, <1>6, <1>8, <2>1, <2>2
<1> QED BY <1>7, <1>8

\* A command of MmcDxe without data, or one that waits for its buffer.
LEMMA SendsStep ==
    ASSUME TypeInv, NEW i \in Nat, NEW a \in Nat, NEW next \in Steps, NEW otherwise \in Steps,
           Sends(i, a, next, otherwise)
    PROVE  /\ host' \in HostTypes
           /\ card' \in CardTypes /\ card'.sector = card.sector
           /\ pc' \in {next, otherwise}
           /\ faults' \in 0 .. MaxFaults /\ spoilt' \subseteq {"busy", "phase"}
<1>0. host \in HostTypes /\ card \in CardTypes /\ card.sector \in BOOLEAN
      /\ host.app \in BOOLEAN /\ host.known \in BOOLEAN /\ host.sector \in BOOLEAN
  BY DEF TypeInv, HostTypes, CardTypes
<1>1. CASE HasData(i, host.app)
  <2>1. host' = [host EXCEPT !.app = FALSE,
                   !.pending = [index |-> i, app |-> host.app, arg |-> a]]
        /\ pc' = next /\ UNCHANGED <<card, faults, spoilt>>
    BY <1>1 DEF Sends, errors
  <2>2. host' \in HostTypes
    BY <1>0, <2>1 DEF HostTypes
  <2> QED BY <1>0, <2>1, <2>2 DEF TypeInv
<1>2. CASE ~HasData(i, host.app) /\ Succeeds(Plain(i)) /\ pc' = next
  <2>1. host' = [host EXCEPT
                          !.app = (i = 55),
                          !.pending = None,
                          !.known = @ \/ (it = "emmc" /\ i = 1)
                                      \/ (it = "sd" /\ host.app /\ i = 41),
                          !.sector = IF \/ it = "emmc" /\ i = 1
                                        \/ it = "sd" /\ host.app /\ i = 41
                                     THEN card.sector ELSE @]
        \/ host' = [host EXCEPT !.app = FALSE, !.pending = None]
    BY <1>2 DEF Sends
  <2>2. host' \in HostTypes
    BY <1>0, <2>1 DEF HostTypes
  <2> QED BY <1>2, <2>2, CommandStep
<1>3. CASE ~HasData(i, host.app) /\ Fails(Plain(i)) /\ pc' = otherwise
         /\ host' = [host EXCEPT !.app = FALSE, !.pending = None]
  <2>1. host' \in HostTypes
    BY <1>0, <1>3 DEF HostTypes
  <2> QED BY <1>3, <2>1, CommandStep
<1> QED BY <1>1, <1>2, <1>3 DEF Sends
-----------------------------------------------------------------------------
(* The inductive invariant.                                                *)

\* The entry point: the host that is installed first was brought up first.
Ports ==
    /\ stage = "io" => installed = {}
    /\ stage # "io" => running = Hosts
    /\ origin = "emmc" => ~held
    /\ stage = "second" => installed = {First}
    /\ installed # {} => ~held
    /\ installed \subseteq core

\* A command is outstanding only where the next thing the driver sends is the
\* reset of an identification or the stop of a failed transfer.
Settled ==
    /\ late # None => pc \in {"off", "stop"}
    /\ pc = "stop" /\ late # None => late.index \in {12, 18, 25}
    /\ pc \in {"sd", "sd41", "app"} => it = "sd"
    /\ pc = "mmc" => it = "emmc"

\* The driver knows the card in the slot: how it is addressed and, where it
\* matters, whether it expects the command behind CMD55.
Known ==
    /\ pc # "off" /\ host.known => host.sector = card.sector
    /\ pc \in Moving \cup {"ready", "app", "aux", "stop"} => host.known
    /\ pc # "off" => (host.app <=> pc \in {"sd41", "app"})
    /\ pc = "app" => card.app
    /\ pc \in Moving \cup {"ready", "stop"} => ~card.app

\* A register about to be read is one the card is about to send.
Registered ==
    pc = "aux" =>
        /\ host.pending.index \in {6, 8, 51}
        /\ card.app <=> host.pending.index = 51
        /\ host.pending.index \in {6, 51} => it = "sd"
        /\ host.pending.index = 8 => it = "emmc"

\* Where in the card, and in the buffer, a transfer has got to.
Address(n) == IF card.sector THEN n ELSE n * BlockBytes
Wanted(n)  == {<<i, req.lba + i>> : i \in 0 .. n - 1}
Placed ==
    /\ pc \in Moving =>
          /\ req.lba \in 0 .. CardBlocks - 1 /\ req.len \in 1 .. CardBlocks - req.lba
          /\ done \in 0 .. req.len - 1
          /\ host.pending.index = IF req.write THEN 25 ELSE 18
          /\ host.pending.arg = Address(req.lba)
    /\ pc = "begin" => done = 0 /\ card.open = "no" /\ ~card.busy
    /\ pc \in Moving \ {"begin"} => arg = Address(req.lba + done)
    /\ pc = "chunk" => moved = Wanted(done) /\ card.open = "no" /\ ~card.busy
    /\ pc \in {"between", "dat0", "advance"} =>
          moved = Wanted(done + Chunk) /\ done + Chunk < req.len
    /\ pc = "between" => ~card.busy /\ card.open = IF req.write THEN "write" ELSE "read"
    /\ pc \in {"dat0", "advance"} => card.open = "no"
    /\ pc = "advance" => ~card.busy
    /\ pc = "stop" /\ reply = "ok" => moved = Wanted(req.len)

HostInv ==
    TypeInv /\ Ports /\ Settled /\ Known /\ Registered /\ Placed /\ CardNeverAbused

\* A chunk is not empty and does not reach past the request.
LEMMA ChunkSize ==
    ASSUME TypeInv, Placed, pc \in Moving
    PROVE  /\ Chunk \in Nat /\ Chunk >= 1 /\ done + Chunk <= req.len
           /\ req.lba + req.len <= CardBlocks
           /\ {req.lba, req.len, done, CardBlocks, BlockBytes} \subseteq Nat
<1>1. /\ req.lba \in Nat /\ req.len \in Nat /\ done \in Nat /\ done < req.len
      /\ req.lba + req.len <= CardBlocks
  BY ParameterAssumption DEF TypeInv, Placed
<1>2. MaxChunk \in Nat /\ MaxChunk >= 1 /\ CardBlocks \in Nat /\ BlockBytes \in Nat
  BY ParameterAssumption
<1> QED BY <1>1, <1>2 DEF Chunk

LEMMA TypeInit == Init => TypeInv
<1> SUFFICES ASSUME Init PROVE TypeInv
  OBVIOUS
<1>1. host \in HostTypes /\ bus \in BusTypes
  BY DEF Init, FreshHost, HostTypes, BusTypes
<1>2. card \in CardTypes
  BY DEF Init, FreshCards, CardTypes
<1>3. req \in [lba : Nat, len : Nat, write : BOOLEAN]
  BY DEF Init, NoRequest
<1>4. held \in BOOLEAN /\ core \subseteq Hosts /\ installed \subseteq Hosts
  BY DEF Init, Hosts
<1> QED
  BY <1>1, <1>2, <1>3, <1>4, ParameterAssumption DEF Init, TypeInv, Steps

LEMMA TypeNext ==
    ASSUME HostInv, [Next]_vars
    PROVE  TypeInv'
<1>0. TypeInv /\ Placed /\ host \in HostTypes /\ card \in CardTypes /\ bus \in BusTypes
  BY DEF HostInv, TypeInv
<1> USE ParameterAssumption
<1>1. CASE UNCHANGED vars
  BY <1>0, <1>1 DEF vars, boot, work, errors, TypeInv
<1>2. CASE InitBoardIo \/ InstallFirst \/ InstallSecond
  <2>1. UNCHANGED <<origin, it, host, bus, card, pc, work, errors>>
    BY <1>2 DEF InitBoardIo, InstallFirst, InstallSecond, Service
  <2>2. /\ stage' \in {"io", "first", "second", "serve", "failed"} /\ held' \in BOOLEAN
        /\ core' \subseteq Hosts /\ installed' \subseteq Hosts
    BY <1>0, <1>2 DEF InitBoardIo, InstallFirst, InstallSecond, TypeInv, Hosts, First, Second
  <2> QED BY <1>0, <2>1, <2>2 DEF TypeInv, work, errors
<1>3. CASE Identify
  <2>1. host' \in HostTypes /\ bus' \in BusTypes
    <3>1. 4 \in Nat /\ 4 > 0
      OBVIOUS
    <3>2. /\ MesonSetClock(4).asked \in Nat /\ MesonSetClock(4).source \in Nat
          /\ MesonSetClock(4).divider \in 1 .. 63
      BY <3>1, ClockBound
    <3> QED
      BY <1>3, <3>2 DEF Identify, HardwareInit, FreshHost, HostTypes, BusTypes, SetBus
  <2>2. /\ Succeeds(Plain(0)) \/ Fails(Plain(0))
        /\ pc' \in Steps /\ UNCHANGED <<boot, req, done, arg, polls, reply>>
    BY <1>3 DEF Identify, Steps
  <2>3. card' \in CardTypes /\ faults' \in 0 .. MaxFaults /\ spoilt' \subseteq {"busy", "phase"}
    BY <1>0, <2>2, CommandStep
  <2> QED BY <1>0, <2>1, <2>2, <2>3 DEF TypeInv, boot
<1>4. ASSUME NEW i \in Nat, NEW a \in Nat, NEW next \in Steps, NEW otherwise \in Steps,
             Sends(i, a, next, otherwise), UNCHANGED <<boot, bus>>, 
             req' \in [lba : Nat, len : Nat, write : BOOLEAN],
             done' \in 0 .. CardBlocks, arg' \in Nat, polls' \in 0 .. MaxPolls,
             reply' \in {"none", "ok", "error"}
      PROVE TypeInv'
  BY <1>0, <1>4, SendsStep DEF TypeInv, boot
<1>5. ASSUME NEW i \in Nat, NEW next \in Steps, NEW otherwise \in Steps,
             Sends(i, 0, next, otherwise), Quiet
      PROVE TypeInv'
  BY <1>0, <1>5, <1>4 DEF Quiet, TypeInv
<1>6. CASE IdentifySd \/ IdentifyApp \/ IdentifyMmc \/ AppPrefix \/ AppRegister
           \/ AppWidth \/ ExtCsd
  BY <1>5, <1>6 DEF IdentifySd, IdentifyApp, IdentifyMmc, AppPrefix, AppRegister,
                     AppWidth, ExtCsd, Steps
<1>7. CASE Switch
  BY <1>5, <1>7 DEF Switch, Steps
<1>8. CASE SetIos
  <2>1. bus' \in BusTypes
    <3>1. PICK hz \in AskedClocks, width \in {1, 4, 8}, fast \in BOOLEAN :
             IF it = "emmc" /\ (width = 8 \/ fast) THEN UNCHANGED bus
             ELSE IF hz = 0 THEN bus' = [bus EXCEPT !.width = width]
             ELSE SetBus(MesonSetClock(hz), width)
      BY <1>8 DEF SetIos
    <3>2. CASE UNCHANGED bus
      BY <1>0, <3>2
    <3>3. CASE bus' = [bus EXCEPT !.width = width]
      BY <1>0, <3>3 DEF BusTypes
    <3>4. CASE hz # 0 /\ SetBus(MesonSetClock(hz), width)
      <4>0. hz # 0
        BY <3>4, Zenon
      <4>1. hz \in Nat /\ hz > 0
        BY <4>0
      <4>2. /\ MesonSetClock(hz).asked \in Nat /\ MesonSetClock(hz).source \in Nat
            /\ MesonSetClock(hz).divider \in 1 .. 63
        BY <4>1, ClockBound
      <4> QED BY <3>4, <4>2 DEF SetBus, BusTypes
    <3>5. \/ UNCHANGED bus \/ bus' = [bus EXCEPT !.width = width]
          \/ hz # 0 /\ SetBus(MesonSetClock(hz), width)
      BY <3>1
    <3> QED BY <3>2, <3>3, <3>4, <3>5
  <2> QED BY <1>0, <1>8, <2>1 DEF SetIos, TypeInv, boot, work, errors
<1>9. CASE ReadRegister
  <2>1. PICK c : Succeeds(c) \/ Fails(c)
    BY <1>9 DEF ReadRegister
  <2>2. card' \in CardTypes /\ faults' \in 0 .. MaxFaults /\ spoilt' \subseteq {"busy", "phase"}
    BY <1>0, <2>1, CommandStep
  <2>3. host' \in HostTypes /\ pc' \in Steps
    BY <1>0, <1>9 DEF ReadRegister, HostTypes, Steps
  <2> QED BY <1>0, <1>9, <2>2, <2>3 DEF ReadRegister, Quiet, TypeInv, boot
<1>10. CASE Request
  <2>a. PICK lba \in 0 .. CardBlocks - 1, write \in BOOLEAN :
           \E len \in 1 .. CardBlocks - lba :
           /\ req' = [lba |-> lba, len |-> len, write |-> write]
           /\ Sends(IF write THEN 25 ELSE 18,
                    IF card.sector THEN lba ELSE lba * BlockBytes, "begin", "off")
    BY <1>10 DEF Request
  <2>1. PICK len \in 1 .. CardBlocks - lba :
           /\ req' = [lba |-> lba, len |-> len, write |-> write]
           /\ Sends(IF write THEN 25 ELSE 18,
                    IF card.sector THEN lba ELSE lba * BlockBytes, "begin", "off")
    BY <2>a
  <2>2. (IF card.sector THEN lba ELSE lba * BlockBytes) \in Nat
    BY <2>a
  <2>3. req' \in [lba : Nat, len : Nat, write : BOOLEAN]
    BY <2>1
  <2>4. (IF write THEN 25 ELSE 18) \in Nat /\ "begin" \in Steps /\ "off" \in Steps
    BY DEF Steps
  <2>5. /\ UNCHANGED <<boot, bus>> /\ done' = 0 /\ arg' = 0 /\ polls' = 0 /\ reply' = "none"
    BY <1>10 DEF Request
  <2> QED BY <1>4, <2>1, <2>2, <2>3, <2>4, <2>5
<1>11. CASE StopTransfer
  <2>1. req' \in [lba : Nat, len : Nat, write : BOOLEAN]
    BY <1>11 DEF StopTransfer, NoRequest
  <2>2. "ready" \in Steps /\ "off" \in Steps
    BY DEF Steps
  <2> QED BY <1>4, <1>11, <2>1, <2>2 DEF StopTransfer
<1>12. CASE BeginTransfer
  <2>1. pc \in Moving
    BY <1>12 DEF BeginTransfer, Moving
  <2>2. host.pending.arg = Address(req.lba) /\ card.sector \in BOOLEAN
    BY <1>0, <2>1 DEF Placed, CardTypes
  <2>3. Address(req.lba) \in Nat
    BY <1>0, <2>1, ChunkSize DEF Address
  <2> QED BY <1>0, <1>12, <2>2, <2>3 DEF BeginTransfer, TypeInv, boot, Steps
<1>13. CASE MoveChunk \/ StopChunk
  <2>1. PICK c : Succeeds(c) \/ Fails(c)
    BY <1>13 DEF MoveChunk, StopChunk
  <2>2. card' \in CardTypes /\ faults' \in 0 .. MaxFaults /\ spoilt' \subseteq {"busy", "phase"}
    BY <1>0, <2>1, CommandStep
  <2>3. host' \in HostTypes /\ pc' \in Steps /\ polls' \in 0 .. MaxPolls
        /\ reply' \in {"none", "ok", "error"} /\ UNCHANGED <<boot, bus, req, done, arg>>
    <3>1. \/ host' = host \/ host' = [host EXCEPT !.pending = None]
      BY <1>13 DEF MoveChunk, StopChunk, Return
    <3>2. host' \in HostTypes
      BY <1>0, <3>1 DEF HostTypes
    <3>3. /\ pc' \in Steps /\ UNCHANGED <<boot, bus, req, done, arg>>
          /\ polls' = polls \/ polls' = 0
          /\ reply' \in {reply, "ok", "error"}
      BY <1>13 DEF MoveChunk, StopChunk, Return, Steps
    <3> QED BY <1>0, <3>2, <3>3 DEF TypeInv
  <2> QED BY <1>0, <2>2, <2>3 DEF TypeInv, boot
<1>14. CASE WaitDat0 \/ Dat0Stuck
  <2>1. host' \in HostTypes /\ pc' \in Steps /\ polls' \in 0 .. MaxPolls
        /\ reply' \in {"none", "ok", "error"}
        /\ UNCHANGED <<boot, bus, req, done, arg, card, moved, errors>>
    BY <1>0, <1>14 DEF WaitDat0, Dat0Stuck, Return, TypeInv, HostTypes, Steps
  <2> QED BY <1>0, <2>1 DEF TypeInv, boot, errors
<1>15. CASE Advance
  <2>1. pc \in Moving /\ done + Chunk < req.len
    BY <1>0, <1>15 DEF Advance, Moving, Placed
  <2>2. done' \in 0 .. CardBlocks /\ arg' \in Nat
    <3>1. /\ Chunk \in Nat /\ {req.lba, req.len, done, CardBlocks, BlockBytes} \subseteq Nat
          /\ req.lba + req.len <= CardBlocks /\ arg \in Nat
      BY <1>0, <2>1, ChunkSize DEF TypeInv
    <3>2. done' = done + Chunk /\ (arg' = arg + Chunk \/ arg' = arg + Chunk * BlockBytes)
      BY <1>15 DEF Advance
    <3> QED BY <2>1, <3>1, <3>2
  <2> QED BY <1>0, <1>15, <2>2 DEF Advance, TypeInv, boot, errors, Steps
<1>16. CASE LateAnswer
  BY <1>0, <1>16, TakenFields DEF LateAnswer, TypeInv, boot, work
<1>17. CASE Programmed \/ ExchangeCard
  <2>1. card' \in CardTypes
    BY <1>0, <1>17 DEF Programmed, ExchangeCard, CardTypes, FreshCards
  <2> QED BY <1>0, <1>17, <2>1 DEF Programmed, ExchangeCard, TypeInv, boot, work, errors, Steps
<1> QED
  BY <1>1, <1>2, <1>3, <1>6, <1>7, <1>8, <1>9, <1>10, <1>11, <1>12, <1>13, <1>14,
     <1>15, <1>16, <1>17 DEF Next, Client, Transfer

-----------------------------------------------------------------------------
(* Sending, field by field.                                                *)

\* The card's addressing is learned from the answer to CMD1, or to CMD41 behind
\* CMD55.
Learns(i) == (it = "emmc" /\ i = 1) \/ (it = "sd" /\ host.app /\ i = 41)

LEMMA SendsFields ==
    ASSUME TypeInv, NEW i \in Nat, NEW a \in Nat, NEW next \in Steps, NEW otherwise \in Steps,
           Sends(i, a, next, otherwise)
    PROVE  \/ /\ HasData(i, host.app) /\ pc' = next
              /\ ~host'.app /\ host'.known = host.known /\ host'.sector = host.sector
              /\ host'.pending = [index |-> i, app |-> host.app, arg |-> a]
              /\ UNCHANGED <<card, moved, late, spoilt>>
           \/ /\ ~HasData(i, host.app) /\ pc' = next
              /\ Succeeds(Plain(i)) /\ late' = None
              /\ (late = None => CardTakes(Plain(i)) /\ card' = Taken(Plain(i)))
              /\ host'.app <=> i = 55
              /\ host'.known <=> host.known \/ Learns(i)
              /\ host'.sector = IF Learns(i) THEN card.sector ELSE host.sector
           \/ /\ ~HasData(i, host.app) /\ pc' = otherwise
              /\ Fails(Plain(i)) /\ late' \in {None, Plain(i)}
              /\ ~host'.app /\ host'.known = host.known /\ host'.sector = host.sector
<1>0. host \in HostTypes /\ card.sector \in BOOLEAN
      /\ host.app \in BOOLEAN /\ host.known \in BOOLEAN /\ host.sector \in BOOLEAN
  BY DEF TypeInv, HostTypes, CardTypes
<1>1. CASE HasData(i, host.app)
  <2>1. host' = [host EXCEPT !.app = FALSE,
                   !.pending = [index |-> i, app |-> host.app, arg |-> a]]
        /\ pc' = next /\ UNCHANGED <<card, moved, late, spoilt>>
    BY <1>1 DEF Sends, errors
  <2>2. ~host'.app /\ host'.known = host.known /\ host'.sector = host.sector
        /\ host'.pending = [index |-> i, app |-> host.app, arg |-> a]
    BY <1>0, <2>1 DEF HostTypes
  <2> QED BY <1>1, <2>1, <2>2
<1>2. CASE ~HasData(i, host.app) /\ Succeeds(Plain(i)) /\ pc' = next
           /\ host' = [host EXCEPT
                          !.app = (i = 55),
                          !.pending = None,
                          !.known = @ \/ (it = "emmc" /\ i = 1)
                                      \/ (it = "sd" /\ host.app /\ i = 41),
                          !.sector = IF \/ it = "emmc" /\ i = 1
                                        \/ it = "sd" /\ host.app /\ i = 41
                                     THEN card.sector ELSE @]
  <2> DEFINE learns == Learns(i)
  <2>1. learns <=> (it = "emmc" /\ i = 1) \/ (it = "sd" /\ host.app /\ i = 41)
    BY DEF Learns
  <2>2. host' = [host EXCEPT !.app = (i = 55), !.pending = None,
                             !.known = host.known \/ learns,
                             !.sector = IF learns THEN card.sector ELSE host.sector]
    <3> DEFINE k == host.known \/ (it = "emmc" /\ i = 1) \/ (it = "sd" /\ host.app /\ i = 41)
               s == IF \/ it = "emmc" /\ i = 1
                       \/ it = "sd" /\ host.app /\ i = 41
                    THEN card.sector ELSE host.sector
    <3>1. host' = [host EXCEPT !.app = (i = 55), !.pending = None, !.known = k, !.sector = s]
      BY <1>2
    <3>2. k = (host.known \/ learns) /\ s = IF learns THEN card.sector ELSE host.sector
      BY <1>0, <2>1
    <3> HIDE DEF k, s, learns
    <3> QED BY <3>1, <3>2
  <2>3. learns \in BOOLEAN
    BY <1>0 DEF Learns
  <2> HIDE DEF learns
  <2>4. /\ host'.app <=> i = 55
        /\ host'.known <=> host.known \/ learns
        /\ host'.sector = IF learns THEN card.sector ELSE host.sector
    BY <1>0, <2>2, <2>3 DEF HostTypes
  <2>5. late' = None
    BY <1>2 DEF Succeeds
  <2>6. late = None => CardTakes(Plain(i)) /\ card' = Taken(Plain(i))
    BY <1>2, CommandStep
  <2> QED BY <1>2, <2>4, <2>5, <2>6 DEF learns
<1>3. CASE ~HasData(i, host.app) /\ Fails(Plain(i)) /\ pc' = otherwise
         /\ host' = [host EXCEPT !.app = FALSE, !.pending = None]
  <2>1. ~host'.app /\ host'.known = host.known /\ host'.sector = host.sector
    BY <1>0, <1>3 DEF HostTypes
  <2>2. late' \in {None, Plain(i)}
    BY <1>3 DEF Fails
  <2> QED BY <1>3, <2>1, <2>2
<1> QED BY <1>1, <1>2, <1>3 DEF Sends

LEMMA CommandFields ==
    /\ \A i : /\ Plain(i).index = i /\ ~Plain(i).data /\ ~Plain(i).write
    /\ \A i, p, a, n, w, d :
          LET c == Command(i, p, a, n, w, d) IN
          c.index = i /\ c.arg = a /\ c.n = n /\ c.write = w /\ c.data = d
BY DEF Plain, Command

\* The steps that send something through MesonSendCommand and go on or give
\* up: what is sent, and what follows.
LEMMA Senders ==
    ASSUME Client
    PROVE  \/ Identify \/ SetIos \/ ReadRegister
           \/ pc = "sd"    /\ Sends(55, 0, "sd41", "off") /\ Quiet
           \/ pc = "sd41"  /\ Sends(41, 0, "ready", "off") /\ Quiet
           \/ pc = "mmc"   /\ Sends(1, 0, "ready", "off") /\ Quiet
           \/ pc = "ready" /\ it = "sd" /\ Sends(55, 0, "app", "off") /\ Quiet
           \/ pc = "app"   /\ Sends(51, 0, "aux", "off") /\ Quiet
           \/ pc = "app"   /\ Sends(6, 0, "ready", "off") /\ Quiet
           \/ pc = "ready" /\ it = "sd" /\ Sends(6, 0, "aux", "off") /\ Quiet
           \/ pc = "ready" /\ it # "sd" /\ Sends(6, 0, "ready", "off") /\ Quiet
           \/ pc = "ready" /\ it = "emmc" /\ Sends(8, 0, "aux", "off") /\ Quiet
           \/ Request
           \/ pc = "stop"  /\ Sends(12, 0, "ready", "off") /\ UNCHANGED <<boot, bus>>
BY DEF Client, IdentifySd, IdentifyApp, IdentifyMmc, AppPrefix, AppRegister, AppWidth,
       Switch, ExtCsd, StopTransfer

\* What MmcDxe asks for.
LEMMA Requests ==
    ASSUME TypeInv, Request
    PROVE  /\ pc = "ready" /\ ~card.busy /\ card.open = "no" /\ UNCHANGED <<boot, bus>>
           /\ done' = 0
           /\ req'.lba \in 0 .. CardBlocks - 1 /\ req'.len \in 1 .. CardBlocks - req'.lba
           /\ req'.write \in BOOLEAN
           /\ Address(req'.lba) \in Nat
           /\ Sends(IF req'.write THEN 25 ELSE 18, Address(req'.lba), "begin", "off")
<1>1. PICK lba \in 0 .. CardBlocks - 1, write \in BOOLEAN :
         \E len \in 1 .. CardBlocks - lba :
         /\ req' = [lba |-> lba, len |-> len, write |-> write]
         /\ Sends(IF write THEN 25 ELSE 18,
                  IF card.sector THEN lba ELSE lba * BlockBytes, "begin", "off")
  BY DEF Request
<1>2. PICK len \in 1 .. CardBlocks - lba :
         /\ req' = [lba |-> lba, len |-> len, write |-> write]
         /\ Sends(IF write THEN 25 ELSE 18,
                  IF card.sector THEN lba ELSE lba * BlockBytes, "begin", "off")
  BY <1>1
<1>3. req'.lba = lba /\ req'.len = len /\ req'.write = write
  BY <1>2
<1>4. lba * BlockBytes \in Nat /\ lba \in Nat
  BY <1>1, ParameterAssumption
<1>5. Address(lba) \in Nat
  BY <1>4 DEF Address
<1>6. Sends(IF write THEN 25 ELSE 18, Address(lba), "begin", "off")
  BY <1>2 DEF Address
<1>7. /\ pc = "ready" /\ ~card.busy /\ card.open = "no" /\ UNCHANGED <<boot, bus>>
      /\ done' = 0
  BY DEF Request
<1>8. /\ lba \in 0 .. CardBlocks - 1 /\ len \in 1 .. CardBlocks - lba /\ write \in BOOLEAN
  BY <1>1, <1>2
<1> QED BY <1>3, <1>5, <1>6, <1>7, <1>8

LEMMA SettledNext ==
    ASSUME HostInv, [Next]_vars
    PROVE  Settled'
<1>0. TypeInv /\ Settled
  BY DEF HostInv
<1>1. CASE UNCHANGED vars
  BY <1>0, <1>1 DEF vars, boot, errors, Settled
<1>2. CASE InitBoardIo \/ InstallFirst \/ InstallSecond
  BY <1>0, <1>2 DEF InitBoardIo, InstallFirst, InstallSecond, Service, errors, Settled
<1>3. ASSUME NEW i \in Nat, NEW a \in Nat, NEW next \in Steps, NEW otherwise \in Steps,
             Sends(i, a, next, otherwise), UNCHANGED boot, otherwise = "off",
             pc # "off", pc = "stop" => i = 12,
             next \in {"sd", "sd41", "app"} => it = "sd", next # "mmc", next # "stop",
             HasData(i, host.app) => pc # "stop"
      PROVE  Settled'
  BY <1>0, <1>3, SendsFields DEF boot, Settled
<1>4. CASE Identify
  <2>1. /\ Succeeds(Plain(0)) /\ late' = None /\ pc' = (IF it = "emmc" THEN "mmc" ELSE "sd")
        \/ pc' = "off"
    BY <1>4 DEF Identify, Succeeds
  <2>2. it' = it /\ it \in {"sd", "emmc"}
    BY <1>0, <1>4 DEF Identify, boot, TypeInv, Hosts
  <2> QED BY <2>1, <2>2 DEF Settled
<1>5. CASE SetIos
  BY <1>0, <1>5 DEF SetIos, boot, errors, Settled
<1>6. CASE ReadRegister
  <2>1. \/ late' = None /\ pc' = "ready"
        \/ pc' = "off"
    BY <1>6 DEF ReadRegister, Succeeds
  <2> QED BY <2>1 DEF Settled
<1>7. CASE Request
  <2>1. ~("stop" = pc) /\ pc # "off" /\ UNCHANGED boot
    BY <1>0, <1>7, Requests
  <2>2. (IF req'.write THEN 25 ELSE 18) \in Nat /\ "begin" \in Steps /\ "off" \in Steps
    BY DEF Steps
  <2> QED BY <1>0, <1>3, <1>7, <2>1, <2>2, Requests
<1>8. CASE Client
  <2>0. \A n \in {"sd41", "ready", "app", "aux", "off"} : n \in Steps
    BY DEF Steps
  <2>1. ~HasData(12, host.app)
    BY DEF HasData, IsBlock
  <2>2. Quiet => UNCHANGED boot
    BY DEF Quiet
  <2>3. pc = "app" => it = "sd"
    BY <1>0 DEF Settled
  <2>4. pc = "sd" => it = "sd"
    BY <1>0 DEF Settled
  <2> QED
    BY <1>3, <1>4, <1>5, <1>6, <1>7, <1>8, <2>0, <2>1, <2>2, <2>3, <2>4, Senders
<1>9. CASE BeginTransfer \/ WaitDat0 \/ Dat0Stuck \/ Advance
  <2>1. UNCHANGED <<late, it>> /\ pc \in Moving /\ pc' \in {"chunk", "advance", "dat0", "stop"}
    BY <1>9 DEF BeginTransfer, WaitDat0, Dat0Stuck, Advance, Return, boot, errors, Moving
  <2> QED BY <1>0, <2>1 DEF Settled, Moving
<1>10. CASE MoveChunk
  <2> DEFINE c == Command(host.pending.index, FALSE, arg, Chunk, req.write, TRUE)
  <2>1. \/ Succeeds(c) /\ pc' \in {"stop", "between"}
        \/ Fails(c) /\ pc' = "stop"
    BY <1>10 DEF MoveChunk, Return
  <2>2. c.index \in {18, 25} /\ it' = it
    <3>1. pc = "chunk" /\ UNCHANGED boot
      BY <1>10 DEF MoveChunk, Return
    <3>2. host.pending.index \in {18, 25}
      BY <3>1 DEF HostInv, Placed, Moving
    <3>3. c.index = host.pending.index
      BY DEF Command
    <3> HIDE DEF c
    <3> QED BY <3>1, <3>2, <3>3 DEF boot
  <2> HIDE DEF c
  <2>3. late' = None \/ (late' = c /\ pc' = "stop")
    BY <2>1 DEF Succeeds, Fails
  <2> QED BY <2>1, <2>2, <2>3 DEF Settled
<1>11. CASE StopChunk
  <2>1. \/ Succeeds(Plain(12)) /\ pc' \in {"dat0", "advance"}
        \/ Fails(Plain(12)) /\ pc' = "stop"
    BY <1>11 DEF StopChunk, Return
  <2>2. late' = None \/ (late' = Plain(12) /\ pc' = "stop")
    BY <2>1 DEF Succeeds, Fails
  <2>3. it' = it
    BY <1>11 DEF StopChunk, Return, boot
  <2> QED BY <2>1, <2>2, <2>3, CommandFields DEF Settled
<1>12. CASE LateAnswer \/ Programmed \/ ExchangeCard
  BY <1>0, <1>12 DEF LateAnswer, Programmed, ExchangeCard, boot, errors, Settled
<1> QED
  BY <1>1, <1>2, <1>8, <1>9, <1>10, <1>11, <1>12 DEF Next, Transfer

LEMMA PortsNext ==
    ASSUME HostInv, [Next]_vars
    PROVE  Ports'
<1>0. TypeInv /\ Ports
  BY DEF HostInv
<1>1. CASE InitBoardIo
  BY <1>0, <1>1 DEF InitBoardIo, Ports
<1>6. CASE InstallFirst
  BY <1>0, <1>6 DEF InstallFirst, PulsesReset, Ports, TypeInv, First, EmmcFirst
<1>7. CASE InstallSecond
  BY <1>0, <1>7 DEF InstallSecond, Ports, TypeInv, Hosts, First, Second, EmmcFirst
<1>2. CASE UNCHANGED boot
  BY <1>0, <1>2 DEF boot, Ports, First, EmmcFirst
<1>3. CASE UNCHANGED vars
  BY <1>2, <1>3 DEF vars
<1>4. CASE Client \/ Transfer
  BY <1>2, <1>4 DEF Client, Identify, IdentifySd, IdentifyApp, IdentifyMmc, SetIos,
        AppPrefix, AppRegister, AppWidth, Switch, ExtCsd, ReadRegister, Request,
        StopTransfer, Quiet, Transfer, BeginTransfer, MoveChunk, StopChunk, WaitDat0,
        Dat0Stuck, Advance, Return
<1>5. CASE LateAnswer \/ Programmed \/ ExchangeCard
  BY <1>2, <1>5 DEF LateAnswer, Programmed, ExchangeCard
<1> QED BY <1>1, <1>3, <1>4, <1>5, <1>6, <1>7 DEF Next

\* A card the controller has in hand takes what succeeds, and is then waiting
\* for an application command exactly behind CMD55.
LEMMA AppFollows ==
    ASSUME TypeInv, NEW i \in Nat, CardTakes(Plain(i)), card' = Taken(Plain(i))
    PROVE  (card'.app <=> i = 55) /\ card'.sector = card.sector
BY TakenFields, CommandFields DEF TypeInv

LEMMA KnownNext ==
    ASSUME HostInv, [Next]_vars
    PROVE  Known'
<1>0. TypeInv /\ Settled /\ Known /\ host.known \in BOOLEAN /\ host.app \in BOOLEAN
      /\ card.app \in BOOLEAN /\ card \in CardTypes
  BY DEF HostInv, TypeInv, HostTypes, CardTypes
<1>1. CASE UNCHANGED vars
  BY <1>0, <1>1 DEF vars, Known
<1>2. CASE InitBoardIo \/ InstallFirst \/ InstallSecond
  BY <1>0, <1>2 DEF InitBoardIo, InstallFirst, InstallSecond, Service, Known
<1>3. ASSUME NEW i \in Nat, NEW a \in Nat, NEW next \in Steps,
             Sends(i, a, next, "off"), pc # "off",
             late # None => (pc = "stop" /\ i = 12 /\ next = "ready"),
             next = "sd" \/ host.known \/ (Learns(i) /\ ~HasData(i, host.app)) \/ next = "sd41",
             HasData(i, host.app) =>
                 (next \notin {"sd41", "app"} /\ (next # "aux" => ~card.app)),
             ~HasData(i, host.app) => (i = 55 <=> next \in {"sd41", "app"})
      PROVE  Known'
  <2>0. "off" \in Steps
    BY DEF Steps
  <2>1. card'.sector = card.sector
    BY <1>0, <1>3, <2>0, SendsStep
  <2>2. CASE /\ HasData(i, host.app) /\ pc' = next
             /\ ~host'.app /\ host'.known = host.known /\ host'.sector = host.sector
             /\ UNCHANGED card
    BY <1>0, <1>3, <2>2 DEF Known, Moving
  <2>3. CASE /\ ~HasData(i, host.app) /\ pc' = next
             /\ (late = None => CardTakes(Plain(i)) /\ card' = Taken(Plain(i)))
             /\ Succeeds(Plain(i))
             /\ host'.app <=> i = 55
             /\ host'.known <=> host.known \/ Learns(i)
             /\ host'.sector = IF Learns(i) THEN card.sector ELSE host.sector
    <3>1. late = None => (card'.app <=> i = 55)
      BY <1>0, <1>3, <2>3, AppFollows
    <3>2. late # None => i = 12 /\ ~card.app
      BY <1>0, <1>3 DEF Known
    <3>3. late # None => ~card'.app
      <4> SUFFICES ASSUME late # None PROVE ~card'.app
        OBVIOUS
      <4>1. card' = card \/ card' = Taken(Plain(i))
        BY <1>0, <2>3, CommandStep
      <4> QED BY <1>0, <3>2, <4>1, TakenFields, CommandFields
    <3>4. pc' \in Moving \cup {"ready", "app", "aux", "stop"} => host'.known
      BY <1>3, <2>3 DEF Moving
    <3>5. host'.known => host'.sector = card'.sector
      BY <1>0, <1>3, <2>1, <2>3 DEF Known
    <3>6. pc' \in {"sd41", "app"} <=> host'.app
      BY <1>3, <2>3
    <3>7. pc' = "app" => card'.app
      BY <1>3, <2>3, <3>1, <3>2
    <3>8. pc' \in Moving \cup {"ready", "stop"} => ~card'.app
      BY <1>3, <2>3, <3>1, <3>3 DEF Moving
    <3> QED BY <3>4, <3>5, <3>6, <3>7, <3>8 DEF Known
  <2>4. CASE pc' = "off"
    BY <2>4 DEF Known, Moving
  <2>5. \/ /\ HasData(i, host.app) /\ pc' = next
           /\ ~host'.app /\ host'.known = host.known /\ host'.sector = host.sector
           /\ UNCHANGED card
        \/ /\ ~HasData(i, host.app) /\ pc' = next
           /\ (late = None => CardTakes(Plain(i)) /\ card' = Taken(Plain(i)))
           /\ Succeeds(Plain(i))
           /\ host'.app <=> i = 55
           /\ host'.known <=> host.known \/ Learns(i)
           /\ host'.sector = IF Learns(i) THEN card.sector ELSE host.sector
        \/ pc' = "off"
    <3>1. TypeInv /\ i \in Nat /\ a \in Nat /\ next \in Steps /\ Sends(i, a, next, "off")
      BY <1>0, <1>3
    <3> QED BY <2>0, <3>1, SendsFields, ZenonT(30)
  <2> QED BY <2>2, <2>3, <2>4, <2>5, Zenon
<1>4. CASE Identify
  <2>1. ~host'.app /\ ~host'.known
    BY <1>4 DEF Identify, HardwareInit, FreshHost
  <2>2. pc' \in {"off", "mmc", "sd"}
    BY <1>4 DEF Identify
  <2> QED BY <2>1, <2>2 DEF Known, Moving
<1>5. CASE SetIos
  BY <1>0, <1>5 DEF SetIos, Known
<1>6. CASE ReadRegister
  <2> DEFINE c == Command(host.pending.index, host.pending.app, host.pending.arg, 0, FALSE, TRUE)
  <2>1. \/ Succeeds(c) /\ pc' = "ready"
        \/ Fails(c) /\ pc' = "off"
    BY <1>6 DEF ReadRegister
  <2>2. pc = "aux" /\ host' = [host EXCEPT !.pending = None]
    BY <1>6 DEF ReadRegister
  <2>3. host'.app = host.app /\ host'.known = host.known /\ host'.sector = host.sector
    BY <1>0, <2>2 DEF TypeInv, HostTypes
  <2>4. c.index = host.pending.index
    BY DEF Command
  <2> HIDE DEF c
  <2>5. c.index # 55
    BY <2>2, <2>4 DEF HostInv, Registered
  <2>6. card'.sector = card.sector
    BY <1>0, <2>1, CommandStep
  <2>7. CASE pc' = "ready"
    <3>1. Succeeds(c) /\ late = None
      BY <1>0, <2>1, <2>2, <2>7 DEF Settled
    <3>2. ~card'.app
      BY <1>0, <2>5, <3>1, CommandStep, TakenFields
    <3> QED BY <1>0, <2>2, <2>3, <2>6, <2>7, <3>2 DEF Known, Moving
  <2>8. CASE pc' = "off"
    BY <2>8 DEF Known, Moving
  <2> QED BY <2>1, <2>7, <2>8
<1>7. CASE Request
  <2>0. (IF req'.write THEN 25 ELSE 18) \in Nat /\ "begin" \in Steps
    BY DEF Steps
  <2>1. HasData(IF req'.write THEN 25 ELSE 18, host.app)
    BY DEF HasData, IsBlock
  <2>2. pc = "ready" /\ host.known /\ ~card.app /\ late = None
    BY <1>0, <1>7, Requests DEF Known, Settled
  <2> QED BY <1>0, <1>3, <1>7, <2>0, <2>1, <2>2, Requests
<1>8. CASE Client
  <2>0. \A n \in {"sd41", "ready", "app", "aux", "off"} : n \in Steps /\ n \notin Moving
    BY DEF Steps, Moving
  <2>1. ~HasData(12, host.app) /\ ~HasData(55, host.app) /\ ~HasData(41, host.app)
        /\ ~HasData(1, host.app)
    BY DEF HasData, IsBlock
  <2>2. pc = "app" => it = "sd" /\ host.app /\ ~HasData(6, host.app) /\ HasData(51, host.app)
    BY <1>0 DEF Settled, Known, HasData, IsBlock
  <2>3. it # "sd" => ~HasData(6, host.app)
    BY DEF HasData, IsBlock
  <2>4. pc = "sd41" => Learns(41)
    BY <1>0 DEF Settled, Known, Learns
  <2>5. pc = "mmc" => Learns(1)
    BY <1>0 DEF Settled, Learns
  <2>6. pc \in {"ready", "app", "stop"} => host.known
    BY <1>0 DEF Known
  <2>7. late # None => pc \in {"off", "stop"}
    BY <1>0 DEF Settled
  <2>8. CASE pc = "sd" /\ Sends(55, 0, "sd41", "off")
    BY <1>3, <2>0, <2>1, <2>7, <2>8
  <2>9. CASE pc = "sd41" /\ Sends(41, 0, "ready", "off")
    BY <1>3, <2>0, <2>1, <2>4, <2>7, <2>9
  <2>10. CASE pc = "mmc" /\ Sends(1, 0, "ready", "off")
    BY <1>3, <2>0, <2>1, <2>5, <2>7, <2>10
  <2>11. CASE pc = "ready" /\ it = "sd" /\ Sends(55, 0, "app", "off")
    BY <1>3, <2>0, <2>1, <2>6, <2>7, <2>11
  <2>12. CASE pc = "app" /\ Sends(51, 0, "aux", "off")
    BY <1>3, <2>0, <2>2, <2>6, <2>7, <2>12
  <2>17. CASE pc = "app" /\ Sends(6, 0, "ready", "off")
    BY <1>3, <2>0, <2>2, <2>6, <2>7, <2>17
  <2>13. CASE pc = "ready" /\ it = "sd" /\ Sends(6, 0, "aux", "off")
    BY <1>3, <2>0, <2>6, <2>7, <2>13
  <2>14. CASE pc = "ready" /\ it # "sd" /\ Sends(6, 0, "ready", "off")
    BY <1>3, <2>0, <2>3, <2>6, <2>7, <2>14
  <2>15. CASE pc = "ready" /\ Sends(8, 0, "aux", "off")
    BY <1>3, <2>0, <2>6, <2>7, <2>15
  <2>16. CASE pc = "stop" /\ Sends(12, 0, "ready", "off")
    BY <1>3, <2>0, <2>1, <2>6, <2>7, <2>16
  <2> QED
    BY <1>4, <1>5, <1>6, <1>7, <1>8, <2>8, <2>9, <2>10, <2>11, <2>12, <2>13, <2>14,
       <2>15, <2>16, <2>17, Senders
<1>9. CASE BeginTransfer \/ WaitDat0 \/ Dat0Stuck \/ Advance
  <2>1. /\ card' = card /\ pc \in Moving /\ pc' \in {"chunk", "advance", "dat0", "stop"}
        /\ host' = host \/ host' = [host EXCEPT !.pending = None]
    BY <1>9 DEF BeginTransfer, WaitDat0, Dat0Stuck, Advance, Return, errors, Moving
  <2>2. host'.app = host.app /\ host'.known = host.known /\ host'.sector = host.sector
    BY <1>0, <2>1 DEF TypeInv, HostTypes
  <2> QED BY <1>0, <2>1, <2>2 DEF Known, Moving
<1>10. CASE MoveChunk \/ StopChunk
  <2>1. /\ pc \in Moving /\ pc' \in {"between", "dat0", "advance", "stop"}
        /\ host' = host \/ host' = [host EXCEPT !.pending = None]
    BY <1>10 DEF MoveChunk, StopChunk, Return, Moving
  <2>2. host'.app = host.app /\ host'.known = host.known /\ host'.sector = host.sector
    BY <1>0, <2>1 DEF TypeInv, HostTypes
  <2>3. \E c : (Succeeds(c) \/ Fails(c)) /\ c.index \in {12, host.pending.index}
    <3>1. CASE MoveChunk
      <4> DEFINE c == Command(host.pending.index, FALSE, arg, Chunk, req.write, TRUE)
      <4>1. Succeeds(c) \/ Fails(c)
        BY <3>1 DEF MoveChunk
      <4>2. c.index = host.pending.index
        BY DEF Command
      <4> HIDE DEF c
      <4> QED BY <4>1, <4>2
    <3>2. CASE StopChunk
      <4>1. Succeeds(Plain(12)) \/ Fails(Plain(12))
        BY <3>2 DEF StopChunk
      <4> QED BY <4>1, CommandFields
    <3> QED BY <1>10, <3>1, <3>2
  <2>4. PICK c : (Succeeds(c) \/ Fails(c)) /\ c.index \in {12, host.pending.index}
    BY <2>3
  <2>5. c.index # 55
    BY <2>1, <2>4 DEF HostInv, Placed
  <2>6. card'.sector = card.sector /\ ~card'.app
    <3>1. ~card.app
      BY <1>0, <2>1 DEF Known
    <3>2. card' = card \/ card' = Taken(c)
      BY <1>0, <2>4, CommandStep
    <3> QED BY <1>0, <2>5, <3>1, <3>2, TakenFields
  <2> QED BY <1>0, <2>1, <2>2, <2>6 DEF Known, Moving
<1>11. CASE LateAnswer
  <2>1. card' = Taken(late) /\ UNCHANGED <<host, pc>> /\ late # None
    BY <1>11 DEF LateAnswer
  <2>2. card'.sector = card.sector /\ (pc = "stop" => ~card'.app)
    BY <1>0, <2>1, TakenFields DEF Settled
  <2> QED BY <1>0, <2>1, <2>2 DEF Known, Settled, Moving
<1>12. CASE Programmed
  <2>1. card'.sector = card.sector /\ card'.app = card.app /\ UNCHANGED <<host, pc>>
    BY <1>0, <1>12 DEF Programmed, CardTypes
  <2> QED BY <1>0, <2>1 DEF Known
<1>13. CASE ExchangeCard
  BY <1>13 DEF ExchangeCard, Known, Moving
<1> QED
  BY <1>1, <1>2, <1>8, <1>9, <1>10, <1>11, <1>12, <1>13 DEF Next, Transfer

LEMMA RegisteredNext ==
    ASSUME HostInv, [Next]_vars
    PROVE  Registered'
<1>0. TypeInv /\ Settled /\ Known /\ Registered /\ card \in CardTypes
  BY DEF HostInv, TypeInv
<1>1. ASSUME UNCHANGED <<pc, host, it>>, pc = "aux" => card'.app = card.app
      PROVE  Registered'
  BY <1>0, <1>1 DEF Registered
<1>2. CASE UNCHANGED vars
  BY <1>1, <1>2 DEF vars, boot
<1>3. CASE InitBoardIo \/ InstallFirst \/ InstallSecond
  BY <1>1, <1>3 DEF InitBoardIo, InstallFirst, InstallSecond, Service
<1>4. ASSUME NEW i \in {6, 8, 51}, Sends(i, 0, "aux", "off"), Quiet,
             i \in {6, 51} => it = "sd", i = 8 => it = "emmc",
             HasData(i, host.app), card.app <=> i = 51
      PROVE  Registered'
  <2>1. i \in Nat /\ 0 \in Nat /\ "aux" \in Steps /\ "off" \in Steps
    BY DEF Steps
  <2>2. host'.pending = [index |-> i, app |-> host.app, arg |-> 0] /\ card' = card
    BY <1>0, <1>4, <2>1, SendsFields
  <2>3. it' = it
    BY <1>4 DEF Quiet, boot
  <2> QED BY <1>4, <2>2, <2>3 DEF Registered
<1>5. ASSUME NEW i \in Nat, NEW a \in Nat, NEW next \in Steps, Sends(i, a, next, "off"),
             next # "aux"
      PROVE  Registered'
  <2>1. pc' # "aux"
    BY <1>0, <1>5, SendsStep DEF Steps
  <2> QED BY <2>1 DEF Registered
<1>6. CASE Identify \/ ReadRegister
  <2>1. pc' # "aux"
    BY <1>6 DEF Identify, ReadRegister
  <2> QED BY <2>1 DEF Registered
<1>7. CASE SetIos
  <2>1. pc' = "ready"
    BY <1>7 DEF SetIos
  <2> QED BY <2>1 DEF Registered
<1>8. CASE Request
  <2>1. (IF req'.write THEN 25 ELSE 18) \in Nat /\ "begin" \in Steps
    BY DEF Steps
  <2> QED BY <1>0, <1>5, <1>8, <2>1, Requests
<1>9. CASE Client
  <2>0. \A n \in {"sd41", "ready", "app", "off"} : n \in Steps
    BY DEF Steps
  <2>1. CASE pc = "app" /\ Sends(51, 0, "aux", "off") /\ Quiet
    <3>1. HasData(51, host.app) /\ it = "sd" /\ card.app
      BY <1>0, <2>1 DEF HasData, Settled, Known
    <3> QED BY <1>4, <2>1, <3>1
  <2>2. CASE pc = "ready" /\ it = "sd" /\ Sends(6, 0, "aux", "off") /\ Quiet
    <3>1. HasData(6, host.app) /\ ~card.app
      BY <1>0, <2>2 DEF HasData, Known
    <3> QED BY <1>4, <2>2, <3>1
  <2>3. CASE pc = "ready" /\ it = "emmc" /\ Sends(8, 0, "aux", "off") /\ Quiet
    <3>1. HasData(8, host.app) /\ ~card.app
      BY <1>0, <2>3 DEF HasData, Known
    <3> QED BY <1>4, <2>3, <3>1
  <2> QED
    BY <1>5, <1>6, <1>7, <1>8, <1>9, <2>0, <2>1, <2>2, <2>3, Senders
<1>10. CASE Transfer
  <2>1. pc' # "aux"
    BY <1>10 DEF Transfer, BeginTransfer, MoveChunk, StopChunk, WaitDat0, Dat0Stuck,
                 Advance, Return
  <2> QED BY <2>1 DEF Registered
<1>11. CASE LateAnswer
  BY <1>0, <1>1, <1>11 DEF LateAnswer, Settled, boot
<1>12. CASE Programmed
  <2>1. card'.app = card.app
    BY <1>0, <1>12 DEF Programmed, CardTypes
  <2> QED BY <1>1, <1>12, <2>1 DEF Programmed, boot
<1>13. CASE ExchangeCard
  BY <1>13 DEF ExchangeCard, Registered
<1> QED
  BY <1>2, <1>3, <1>9, <1>10, <1>11, <1>12, <1>13 DEF Next

-----------------------------------------------------------------------------
(* Where a chunk lands.                                                    *)

LEMMA Quotient ==
    ASSUME NEW m \in Nat, NEW b \in Nat \ {0}
    PROVE  /\ m = ((m \div b) * b) + (m % b)
           /\ m % b \in 0 .. b - 1 /\ m \div b \in Nat
OBVIOUS

LEMMA ExactDivision ==
    ASSUME NEW n \in Nat, NEW b \in Nat \ {0}
    PROVE  (n * b) \div b = n /\ (n * b) % b = 0
<1>1. n * b \in Nat
  OBVIOUS
<1>2. /\ n * b = (((n * b) \div b) * b) + ((n * b) % b)
      /\ (n * b) % b \in 0 .. b - 1 /\ (n * b) \div b \in Nat
  BY <1>1, Quotient
<1>3. CASE (n * b) \div b < n
  BY <1>2, <1>3
<1>4. CASE (n * b) \div b > n
  BY <1>2, <1>4
<1> QED BY <1>1, <1>2, <1>3, <1>4

\* An argument that addresses block n, in sectors or bytes, is taken for it.
LEMMA Addressed ==
    ASSUME TypeInv, NEW c, NEW n \in Nat, c.arg = Address(n), c.n \in Nat,
           n + c.n <= CardBlocks
    PROVE  FirstBlock(c) = n /\ InRange(c)
<1>1. BlockBytes \in Nat \ {0} /\ card.sector \in BOOLEAN
  BY ParameterAssumption DEF TypeInv, CardTypes
<1>2. FirstBlock(c) = n /\ (card.sector \/ c.arg % BlockBytes = 0)
  <2>1. CASE card.sector
    BY <2>1 DEF FirstBlock, Address
  <2>2. CASE ~card.sector
    BY <1>1, <2>2, ExactDivision DEF FirstBlock, Address
  <2> QED BY <2>1, <2>2
<1> QED BY <1>2 DEF InRange

LEMMA WantedGrows ==
    ASSUME req.lba \in Nat, NEW d \in Nat, NEW n \in Nat
    PROVE  Wanted(d + n) = Wanted(d) \cup {<<d + i, req.lba + d + i>> : i \in 0 .. n - 1}
<1>1. ASSUME NEW w \in Wanted(d + n)
      PROVE  w \in Wanted(d) \cup {<<d + i, req.lba + d + i>> : i \in 0 .. n - 1}
  <2>1. PICK j \in 0 .. (d + n) - 1 : w = <<j, req.lba + j>>
    BY DEF Wanted
  <2>2. CASE j < d
    BY <2>1, <2>2 DEF Wanted
  <2>3. CASE j >= d
    <3>1. j - d \in 0 .. n - 1 /\ d + (j - d) = j /\ req.lba + d + (j - d) = req.lba + j
      BY <2>1, <2>3
    <3> QED BY <2>1, <3>1
  <2> QED BY <2>1, <2>2, <2>3
<1>2. ASSUME NEW w \in Wanted(d) \cup {<<d + i, req.lba + d + i>> : i \in 0 .. n - 1}
      PROVE  w \in Wanted(d + n)
  <2>1. CASE w \in Wanted(d)
    BY <2>1 DEF Wanted
  <2>2. CASE w \in {<<d + i, req.lba + d + i>> : i \in 0 .. n - 1}
    <3>1. PICK i \in 0 .. n - 1 : w = <<d + i, req.lba + d + i>>
      BY <2>2
    <3>2. d + i \in 0 .. (d + n) - 1 /\ req.lba + d + i = req.lba + (d + i)
      BY <3>1
    <3> QED BY <3>1, <3>2 DEF Wanted
  <2> QED BY <1>2, <2>1, <2>2
<1> QED BY <1>1, <1>2

\* The command of a chunk, taken by the card, exchanges exactly its blocks.
LEMMA ChunkLands ==
    ASSUME TypeInv, Placed, pc = "chunk", NEW c, CardTakes(c), 
           c.index = host.pending.index, c.arg = arg, c.n = Chunk, c.write = req.write
    PROVE  /\ moved' = Wanted(done + Chunk)
           /\ card'.open = IF req.write THEN "write" ELSE "read"
           /\ ~card'.busy /\ card'.sector = card.sector
<1>1. /\ Chunk \in Nat /\ done + Chunk <= req.len /\ req.lba + req.len <= CardBlocks
      /\ {req.lba, req.len, done, CardBlocks, BlockBytes} \subseteq Nat
  BY ChunkSize DEF Moving
<1>2. /\ arg = Address(req.lba + done) /\ moved = Wanted(done) /\ ~card.busy
      /\ host.pending.index \in {18, 25}
  BY DEF Placed, Moving
<1>3. (req.lba + done) \in Nat /\ (req.lba + done) + Chunk <= CardBlocks
  BY <1>1
<1>4. FirstBlock(c) = req.lba + done /\ InRange(c)
  BY <1>1, <1>2, <1>3, Addressed
<1>5. IsBlock(c.index) /\ c.index \notin {0, 12}
  BY <1>2 DEF IsBlock
<1>6. Exchanged(c) = {<<done + i, req.lba + done + i>> : i \in 0 .. Chunk - 1}
  BY <1>4, <1>5 DEF Exchanged
<1>7. moved' = moved \cup Exchanged(c) /\ card' = Taken(c)
  BY DEF CardTakes
<1>8. moved' = Wanted(done + Chunk)
  BY <1>1, <1>2, <1>6, <1>7, WantedGrows
<1>9. /\ Taken(c).open = IF c.write THEN "write" ELSE "read"
      /\ ~Taken(c).busy /\ Taken(c).sector = card.sector
  BY <1>2, <1>4, <1>5, TakenFields DEF TypeInv
<1> QED BY <1>7, <1>8, <1>9

\* MmcDxe's other commands leave the transfer, and none of them starts one.
LEMMA NotMoving ==
    ASSUME HostInv, Client, ~Request
    PROVE  pc' \notin Moving \cup {"stop"}
<1>0. TypeInv /\ pc \in Steps
  BY DEF HostInv, TypeInv
<1>1. ASSUME NEW i \in Nat, NEW next \in Steps, Sends(i, 0, next, "off"),
             next \notin Moving \cup {"stop"}
      PROVE  pc' \notin Moving \cup {"stop"}
  <2>1. pc' \in {next, "off"}
    <3>1. "off" \in Steps /\ 0 \in Nat
      BY DEF Steps
    <3> QED BY <1>0, <1>1, <3>1, SendsStep
  <2> QED BY <1>1, <2>1 DEF Moving
<1>2. CASE Identify
  <2>1. pc' \in {"off", "mmc", "sd"}
    BY <1>2 DEF Identify
  <2> QED BY <2>1 DEF Moving
<1>3. CASE SetIos
  BY <1>3 DEF SetIos, Moving
<1>4. CASE ReadRegister
  <2>1. pc' \in {"ready", "off"}
    BY <1>4 DEF ReadRegister
  <2> QED BY <2>1 DEF Moving
<1>5. \A n \in {"sd41", "ready", "app", "aux", "off"} :
         n \in Steps /\ n \notin Moving \cup {"stop"}
  BY DEF Steps, Moving
<1> QED BY <1>1, <1>2, <1>3, <1>4, <1>5, Senders

LEMMA PlacedNext ==
    ASSUME HostInv, [Next]_vars
    PROVE  Placed'
<1>0. TypeInv /\ Settled /\ Known /\ Placed /\ card \in CardTypes /\ host \in HostTypes
  BY DEF HostInv, TypeInv
<1>1. ASSUME UNCHANGED <<pc, host, req, done, arg, moved, reply>>,
             card'.sector = card.sector,
             pc \in Moving => card'.open = card.open /\ (card'.busy => card.busy)
      PROVE  Placed'
  BY <1>0, <1>1 DEF Placed, Address, Wanted, Chunk, Moving
<1>2. CASE UNCHANGED vars
  BY <1>1, <1>2 DEF vars, work
<1>3. CASE InitBoardIo \/ InstallFirst \/ InstallSecond
  BY <1>1, <1>3 DEF InitBoardIo, InstallFirst, InstallSecond, Service, work
<1>4. ASSUME pc' \notin Moving \cup {"stop"}
      PROVE  Placed'
  BY <1>4 DEF Placed, Moving
<1>5. CASE Client /\ ~Request
  BY <1>4, <1>5, NotMoving
<1>6. CASE Request
  <2>1. (IF req'.write THEN 25 ELSE 18) \in Nat /\ "begin" \in Steps /\ "off" \in Steps
    BY DEF Steps
  <2>2. HasData(IF req'.write THEN 25 ELSE 18, host.app)
    BY DEF HasData, IsBlock
  <2>3. /\ pc' = "begin" /\ card' = card
        /\ host'.pending = [index |-> IF req'.write THEN 25 ELSE 18, app |-> host.app,
                            arg |-> Address(req'.lba)]
    BY <1>0, <1>6, <2>1, <2>2, Requests, SendsFields
  <2>4. /\ ~card.busy /\ card.open = "no" /\ done' = 0
        /\ req'.lba \in 0 .. CardBlocks - 1 /\ req'.len \in 1 .. CardBlocks - req'.lba
    BY <1>0, <1>6, Requests
  <2>5. done' \in 0 .. req'.len - 1
    BY <2>4, ParameterAssumption
  <2>6. host'.pending.arg = (Address(req.lba))'
    BY <2>3 DEF Address
  <2>7. host'.pending.index = IF req'.write THEN 25 ELSE 18
    BY <2>3
  <2> QED BY <2>3, <2>4, <2>5, <2>6, <2>7 DEF Placed, Moving
<1>7. ASSUME UNCHANGED <<host, req, done, arg, moved>>, card'.sector = card.sector,
             pc \in Moving, pc' \in Moving \ {"begin", "chunk"}, pc # "begin",
             moved = Wanted(done + Chunk), done + Chunk < req.len,
             pc' = "between" => FALSE,
             card'.open = "no", pc' = "advance" => ~card'.busy
      PROVE  Placed'
  BY <1>0, <1>7 DEF Placed, Address, Wanted, Chunk, Moving
<1>8. CASE BeginTransfer
  <2>1. /\ pc = "begin" /\ pc' = "chunk" /\ arg' = host.pending.arg /\ moved' = {}
        /\ UNCHANGED <<host, req, done, card>>
    BY <1>8 DEF BeginTransfer
  <2>2. /\ done = 0 /\ card.open = "no" /\ ~card.busy
        /\ host.pending.arg = Address(req.lba)
    BY <1>0, <2>1 DEF Placed, Moving
  <2>3. req.lba \in Nat
    BY <1>0 DEF TypeInv
  <2>4. req.lba + done = req.lba
    BY <2>2, <2>3
  <2>5. (Wanted(done))' = {}
    BY <2>1, <2>2 DEF Wanted
  <2>6. (Address(req.lba + done))' = arg'
    BY <2>1, <2>2, <2>4 DEF Address
  <2> QED BY <1>0, <2>1, <2>2, <2>5, <2>6 DEF Placed, Moving, Address
<1>9. CASE MoveChunk
  <2> DEFINE c == Command(host.pending.index, FALSE, arg, Chunk, req.write, TRUE)
  <2>1. \/ /\ Succeeds(c) /\ done + Chunk = req.len /\ pc' = "stop" /\ UNCHANGED req
        \/ /\ Succeeds(c) /\ done + Chunk # req.len /\ pc' = "between"
           /\ UNCHANGED <<host, req, done, arg>>
        \/ pc' = "stop" /\ reply' = "error"
    BY <1>9 DEF MoveChunk, Return
  <2>2. pc = "chunk"
    BY <1>9 DEF MoveChunk
  <2>3. c.index = host.pending.index /\ c.arg = arg /\ c.n = Chunk /\ c.write = req.write
    BY DEF Command
  <2> HIDE DEF c
  <2>4. late = None
    BY <1>0, <2>2 DEF Settled
  <2>5. Succeeds(c) => /\ moved' = Wanted(done + Chunk)
                       /\ card'.open = IF req.write THEN "write" ELSE "read"
                       /\ ~card'.busy /\ card'.sector = card.sector
    <3> SUFFICES ASSUME Succeeds(c)
                 PROVE  /\ moved' = Wanted(done + Chunk)
                        /\ card'.open = IF req.write THEN "write" ELSE "read"
                        /\ ~card'.busy /\ card'.sector = card.sector
      OBVIOUS
    <3>1. CardTakes(c)
      BY <1>0, <2>4, CommandStep
    <3> QED BY <1>0, <2>2, <2>3, <3>1, ChunkLands
  <2>6. done + Chunk <= req.len /\ {done, Chunk, req.len} \subseteq Nat
    BY <1>0, <2>2, ChunkSize DEF Moving
  <2>7. CASE Succeeds(c) /\ done + Chunk = req.len /\ pc' = "stop" /\ UNCHANGED req
    BY <2>5, <2>7 DEF Placed, Wanted, Moving
  <2>8. CASE Succeeds(c) /\ done + Chunk # req.len /\ pc' = "between"
             /\ UNCHANGED <<host, req, done, arg>>
    BY <1>0, <2>2, <2>5, <2>6, <2>8 DEF Placed, Wanted, Moving, Address, Chunk
  <2>9. CASE pc' = "stop" /\ reply' = "error"
    BY <2>9 DEF Placed, Moving
  <2> QED BY <2>1, <2>7, <2>8, <2>9
<1>10. CASE StopChunk
  <2>1. \/ /\ Succeeds(Plain(12)) /\ pc' = IF req.write THEN "dat0" ELSE "advance"
           /\ UNCHANGED <<host, req, done, arg>>
        \/ pc' = "stop" /\ reply' = "error"
    BY <1>10 DEF StopChunk, Return
  <2>2. /\ pc = "between" /\ late = None
    BY <1>0, <1>10 DEF StopChunk, Settled
  <2>3. /\ ~card.busy /\ card.open = IF req.write THEN "write" ELSE "read"
        /\ moved = Wanted(done + Chunk) /\ done + Chunk < req.len
    BY <1>0, <2>2 DEF Placed
  <2>4. CASE /\ Succeeds(Plain(12)) /\ pc' = IF req.write THEN "dat0" ELSE "advance"
             /\ UNCHANGED <<host, req, done, arg>>
    <3>1. CardTakes(Plain(12)) /\ card' = Taken(Plain(12)) /\ card'.sector = card.sector
      BY <1>0, <2>2, <2>4, CommandStep
    <3>2. Plain(12).index = 12
      BY CommandFields
    <3>3. moved' = moved
      BY <2>2, <3>1, <3>2 DEF CardTakes, Exchanged, IsBlock
    <3>4. card'.open = "no" /\ (card'.busy <=> card.busy \/ card.open = "write")
      BY <1>0, <3>1, <3>2, TakenFields
    <3>5. pc' = "advance" => ~card'.busy
      BY <2>3, <2>4, <3>4
    <3>6. pc \in Moving /\ pc' \in {"dat0", "advance"}
      BY <2>2, <2>4 DEF Moving
    <3>7. pc' \in Moving \ {"begin", "chunk"} /\ pc # "begin" /\ pc' # "between"
      BY <2>2, <3>6 DEF Moving
    <3> QED BY <1>7, <2>3, <2>4, <3>1, <3>3, <3>4, <3>5, <3>6, <3>7
  <2>5. CASE pc' = "stop" /\ reply' = "error"
    BY <2>5 DEF Placed, Moving
  <2> QED BY <2>1, <2>4, <2>5
<1>11. CASE WaitDat0
  <2>1. /\ pc = "dat0" /\ pc' \in {"dat0", "advance"} /\ (pc' = "advance" => ~card.busy)
        /\ UNCHANGED <<host, req, done, arg, moved, card>>
    BY <1>0, <1>11 DEF WaitDat0
  <2>2. moved = Wanted(done + Chunk) /\ done + Chunk < req.len /\ card.open = "no"
    BY <1>0, <2>1 DEF Placed
  <2>3. /\ pc \in Moving /\ pc' \in Moving \ {"begin", "chunk"} /\ pc # "begin"
        /\ pc' # "between"
    BY <2>1 DEF Moving
  <2> QED BY <1>7, <2>1, <2>2, <2>3
<1>12. CASE Dat0Stuck
  BY <1>12 DEF Dat0Stuck, Return, Placed, Moving
<1>13. CASE Advance
  <2>1. /\ pc = "advance" /\ pc' = "chunk" /\ done' = done + Chunk
        /\ arg' = arg + IF SectorAddressed THEN Chunk ELSE Chunk * BlockBytes
        /\ UNCHANGED <<host, card, req, moved>>
    BY <1>13 DEF Advance
  <2>2. /\ moved = Wanted(done + Chunk) /\ done + Chunk < req.len /\ card.open = "no"
        /\ ~card.busy /\ arg = Address(req.lba + done) /\ pc \in Moving
    BY <1>0, <2>1 DEF Placed, Moving
  <2>3. SectorAddressed <=> card.sector
    BY <1>0, <2>2, <2>1 DEF Known, SectorAddressed, HostTypes, CardTypes, Moving
  <2>4. Chunk \in Nat /\ {req.lba, req.len, done, BlockBytes} \subseteq Nat
    BY <1>0, <2>2, ChunkSize
  <2>5. arg' = (Address(req.lba + done))'
    <3>1. CASE card.sector
      BY <2>1, <2>2, <2>3, <2>4, <3>1 DEF Address
    <3>2. CASE ~card.sector
      <4>1. (req.lba + (done + Chunk)) * BlockBytes
              = (req.lba + done) * BlockBytes + Chunk * BlockBytes
        BY <2>4
      <4> QED BY <2>1, <2>2, <2>3, <3>2, <4>1 DEF Address
    <3> QED BY <3>1, <3>2
  <2>6. done' \in 0 .. req'.len - 1
    BY <2>1, <2>2, <2>4
  <2>7. (Wanted(done))' = Wanted(done + Chunk)
    BY <2>1 DEF Wanted
  <2> QED BY <1>0, <2>1, <2>2, <2>5, <2>6, <2>7 DEF Placed, Moving, Address
<1>14. CASE LateAnswer
  <2>1. card'.sector = card.sector /\ pc \notin Moving
    BY <1>0, <1>14, TakenFields DEF LateAnswer, Settled, Moving
  <2> QED BY <1>1, <1>14, <2>1 DEF LateAnswer, work
<1>15. CASE Programmed
  <2>1. card'.sector = card.sector /\ card'.open = card.open /\ ~card'.busy
    BY <1>0, <1>15 DEF Programmed, CardTypes
  <2> QED BY <1>1, <1>15, <2>1 DEF Programmed, work
<1>16. CASE ExchangeCard
  BY <1>4, <1>16 DEF ExchangeCard, Moving
<1> QED
  BY <1>2, <1>3, <1>5, <1>6, <1>8, <1>9, <1>10, <1>11, <1>12, <1>13, <1>14, <1>15,
     <1>16 DEF Next, Transfer

-----------------------------------------------------------------------------
(* What a card is never made to suffer.                                    *)

\* A data phase that both sides expect, of a card that is not programming,
\* spoils nothing.
LEMMA Unspoilt ==
    ASSUME TypeInv, CardNeverAbused, NEW c, Succeeds(c) \/ Fails(c),
           c.data \in BOOLEAN, c.data <=> CardHasData(c.index),
           c.index = 25 => ~card.busy
    PROVE  CardNeverAbused'
<1>1. UNCHANGED spoilt \/ CardTakes(c)
  BY CommandStep
<1>2. CardHasData(c.index) \in BOOLEAN
  BY DEF CardHasData, IsBlock, TypeInv, CardTypes
<1>3. Abuse(c) = {}
  BY <1>2 DEF Abuse
<1> QED BY <1>1, <1>3 DEF CardTakes, CardNeverAbused

LEMMA UnspoiltNext ==
    ASSUME HostInv, [Next]_vars
    PROVE  CardNeverAbused'
<1>0. TypeInv /\ Settled /\ Known /\ Registered /\ Placed /\ CardNeverAbused
  BY DEF HostInv
<1>1. CASE UNCHANGED spoilt
  BY <1>0, <1>1 DEF CardNeverAbused
<1>2. ASSUME NEW i \in Nat, NEW a \in Nat, NEW next \in Steps, Sends(i, a, next, "off"),
             (i # 25 /\ ~CardHasData(i)) \/ HasData(i, host.app)
      PROVE  CardNeverAbused'
  <2>1. "off" \in Steps
    BY DEF Steps
  <2>2. CASE HasData(i, host.app)
    BY <1>0, <1>1, <1>2, <2>1, <2>2, SendsFields
  <2>3. CASE ~HasData(i, host.app)
    <3>1. Succeeds(Plain(i)) \/ Fails(Plain(i))
      BY <2>3, <1>2 DEF Sends
    <3>2. Plain(i).index = i /\ Plain(i).data = FALSE
      BY DEF Plain, Command
    <3>3. i # 25 /\ ~CardHasData(i)
      BY <1>2, <2>3
    <3> QED BY <1>0, <3>1, <3>2, <3>3, Unspoilt
  <2> QED BY <2>2, <2>3
<1>3. CASE Identify
  <2>1. Succeeds(Plain(0)) \/ Fails(Plain(0))
    BY <1>3 DEF Identify
  <2>2. Plain(0).index = 0 /\ Plain(0).data = FALSE
    BY DEF Plain, Command
  <2>3. ~CardHasData(0) /\ 0 # 25
    BY DEF CardHasData, IsBlock
  <2>4. ~CardHasData(Plain(0).index) /\ ~Plain(0).data /\ Plain(0).index # 25
    BY <2>2, <2>3
  <2> QED BY <1>0, <2>1, <2>2, <2>4, Unspoilt
<1>4. CASE ReadRegister
  <2> DEFINE c == Command(host.pending.index, host.pending.app, host.pending.arg, 0, FALSE, TRUE)
  <2>1. (Succeeds(c) \/ Fails(c)) /\ pc = "aux"
    BY <1>4 DEF ReadRegister
  <2>2. c.index = host.pending.index /\ c.data = TRUE
    BY DEF Command
  <2> HIDE DEF c
  <2>3. CardHasData(c.index) /\ c.index # 25
    BY <1>0, <2>1, <2>2 DEF CardHasData, Registered
  <2> QED BY <1>0, <2>1, <2>2, <2>3, Unspoilt
<1>5. CASE Request
  <2>1. (IF req'.write THEN 25 ELSE 18) \in Nat /\ "begin" \in Steps
    BY DEF Steps
  <2>2. HasData(IF req'.write THEN 25 ELSE 18, host.app)
    BY DEF HasData, IsBlock
  <2> QED BY <1>0, <1>2, <1>5, <2>1, <2>2, Requests
<1>6. CASE Client
  <2>0. \A n \in {"sd41", "ready", "app", "aux"} : n \in Steps
    BY DEF Steps
  <2>1. /\ ~CardHasData(55) /\ ~CardHasData(41) /\ ~CardHasData(1) /\ ~CardHasData(12)
        /\ HasData(51, host.app)
    BY DEF CardHasData, HasData, IsBlock
  <2>2. pc = "app" => ~CardHasData(6)
    BY <1>0 DEF Known, CardHasData, IsBlock
  <2>3. pc = "ready" /\ it = "sd" => HasData(6, host.app)
    BY <1>0 DEF Known, HasData
  <2>4. it # "sd" => ~CardHasData(6)
    BY DEF CardHasData, IsBlock
  <2>5. it = "emmc" => HasData(8, host.app)
    BY DEF HasData
  <2>6. CASE SetIos
    BY <1>1, <2>6 DEF SetIos, errors
  <2> QED
    BY <1>2, <1>3, <1>4, <1>5, <1>6, <2>0, <2>1, <2>2, <2>3, <2>4, <2>5, <2>6, Senders
<1>7. CASE MoveChunk
  <2> DEFINE c == Command(host.pending.index, FALSE, arg, Chunk, req.write, TRUE)
  <2>1. (Succeeds(c) \/ Fails(c)) /\ pc = "chunk"
    BY <1>7 DEF MoveChunk
  <2>2. c.index = host.pending.index /\ c.data = TRUE
    BY DEF Command
  <2> HIDE DEF c
  <2>3. CardHasData(c.index) /\ ~card.busy
    BY <1>0, <2>1, <2>2 DEF CardHasData, IsBlock, Placed, Moving
  <2> QED BY <1>0, <2>1, <2>2, <2>3, Unspoilt
<1>8. CASE StopChunk
  <2>1. Succeeds(Plain(12)) \/ Fails(Plain(12))
    BY <1>8 DEF StopChunk
  <2>2. Plain(12).index = 12 /\ Plain(12).data = FALSE
    BY DEF Plain, Command
  <2>3. ~CardHasData(12) /\ 12 # 25
    BY DEF CardHasData, IsBlock
  <2>4. ~CardHasData(Plain(12).index) /\ ~Plain(12).data /\ Plain(12).index # 25
    BY <2>2, <2>3
  <2> QED BY <1>0, <2>1, <2>2, <2>4, Unspoilt
<1>9. CASE \/ UNCHANGED vars \/ InitBoardIo \/ InstallFirst \/ InstallSecond
           \/ BeginTransfer \/ WaitDat0 \/ Dat0Stuck \/ Advance
           \/ LateAnswer \/ Programmed \/ ExchangeCard
  BY <1>1, <1>9 DEF vars, InitBoardIo, InstallFirst, InstallSecond, Service, BeginTransfer,
       WaitDat0, Dat0Stuck, Advance, LateAnswer, Programmed, ExchangeCard, errors
<1> QED BY <1>6, <1>7, <1>8, <1>9 DEF Next, Transfer

-----------------------------------------------------------------------------
(* The bus.                                                                *)

\* No bus is faster than asked for or wider than its lines.
BusInv ==
    /\ bus.source <= bus.asked * bus.divider
    /\ it = "emmc" => bus.width # 8

LEMMA BusNext ==
    ASSUME \A hz \in AskedClocks \ {0} : hz >= 4, TypeInv, BusInv, [Next]_vars
    PROVE  BusInv'
<1>0. bus \in BusTypes
  BY DEF TypeInv
<1>1. CASE UNCHANGED <<bus, it>>
  BY <1>1 DEF BusInv
<1>2. ASSUME NEW hz \in Nat, hz >= 4, NEW width \in {1, 4, 8},
             SetBus(MesonSetClock(hz), width), it = "emmc" => width # 8, it' = it
      PROVE  BusInv'
  <2>1. hz \in Nat /\ hz > 0
    BY <1>2
  <2>2. /\ MesonSetClock(hz).asked = hz
        /\ MesonSetClock(hz).source <= hz * MesonSetClock(hz).divider
    BY <1>2, <2>1, ClockBound
  <2>3. /\ bus'.asked = MesonSetClock(hz).asked /\ bus'.source = MesonSetClock(hz).source
        /\ bus'.divider = MesonSetClock(hz).divider /\ bus'.width = width
    BY <1>2 DEF SetBus
  <2> QED BY <1>2, <2>2, <2>3 DEF BusInv
<1>3. CASE Identify
  <2>1. SetBus(MesonSetClock(4), 1) /\ it' = it
    BY <1>3 DEF Identify, HardwareInit, boot
  <2>2. 4 \in Nat /\ 4 >= 4 /\ 1 \in {1, 4, 8} /\ 1 # 8
    OBVIOUS
  <2> QED BY <1>2, <2>1, <2>2
<1>4. CASE SetIos
  <2>1. PICK hz \in AskedClocks, width \in {1, 4, 8}, fast \in BOOLEAN :
           IF it = "emmc" /\ (width = 8 \/ fast) THEN UNCHANGED bus
           ELSE IF hz = 0 THEN bus' = [bus EXCEPT !.width = width]
           ELSE SetBus(MesonSetClock(hz), width)
    BY <1>4 DEF SetIos
  <2>2. it' = it /\ hz \in Nat /\ (hz # 0 => hz >= 4)
    BY <1>4, ParameterAssumption DEF SetIos, boot
  <2>3. CASE it = "emmc" /\ (width = 8 \/ fast)
    BY <1>1, <2>1, <2>2, <2>3
  <2>4. CASE ~(it = "emmc" /\ (width = 8 \/ fast)) /\ hz = 0
    <3>1. bus' = [bus EXCEPT !.width = width]
      BY <2>1, <2>4
    <3>2. /\ bus'.source = bus.source /\ bus'.asked = bus.asked
          /\ bus'.divider = bus.divider /\ bus'.width = width
      BY <1>0, <3>1 DEF BusTypes
    <3> QED BY <2>2, <2>4, <3>2 DEF BusInv
  <2>5. CASE ~(it = "emmc" /\ (width = 8 \/ fast)) /\ hz # 0
    <3>1. SetBus(MesonSetClock(hz), width)
      BY <2>1, <2>5, Zenon
    <3>2. it = "emmc" => width # 8
      BY <2>5
    <3> QED BY <1>2, <2>2, <2>5, <3>1, <3>2
  <2> QED BY <2>3, <2>4, <2>5
<1>5. CASE Client
  BY <1>1, <1>3, <1>4, <1>5 DEF Client, IdentifySd, IdentifyApp, IdentifyMmc,
        AppPrefix, AppRegister, AppWidth, Switch, ExtCsd, ReadRegister, Request,
        StopTransfer, Quiet, boot
<1>6. CASE Transfer
  BY <1>1, <1>6 DEF Transfer, BeginTransfer, MoveChunk, StopChunk, WaitDat0,
        Dat0Stuck, Advance, Return, boot
<1>7. CASE \/ UNCHANGED vars \/ InitBoardIo \/ InstallFirst \/ InstallSecond
           \/ LateAnswer \/ Programmed \/ ExchangeCard
  BY <1>1, <1>7 DEF vars, InitBoardIo, InstallFirst, InstallSecond, Service,
       LateAnswer, Programmed, ExchangeCard, boot
<1> QED BY <1>5, <1>6, <1>7 DEF Next

-----------------------------------------------------------------------------
(* The theorems.                                                           *)

LEMMA HostInit == Init => HostInv
<1> SUFFICES ASSUME Init PROVE HostInv
  OBVIOUS
<1>1. TypeInv
  BY TypeInit
<1>2. Ports
  BY DEF Init, Ports
<1>3. Settled /\ Known /\ Registered /\ Placed
  BY DEF Init, Settled, Known, Registered, Placed, Moving, FreshHost
<1> QED BY <1>1, <1>2, <1>3 DEF Init, HostInv, CardNeverAbused

LEMMA HostNext == HostInv /\ [Next]_vars => HostInv'
BY TypeNext, PortsNext, SettledNext, KnownNext, RegisteredNext, PlacedNext, UnspoiltNext
   DEF HostInv

LEMMA HostAlways == Spec => []HostInv
BY HostInit, HostNext, PTL DEF Spec

\* Every variable stays in its type, no eMMC is put on the data lines of the
\* SPI NOR controller, and no bus runs faster than MmcDxe asked for, if MmcDxe
\* asks for no clock below the 400 kHz of identification.
THEOREM TypeCorrect ==
    ASSUME \A hz \in AskedClocks \ {0} : hz >= 4
    PROVE  Spec => []TypeOK
<1>1. Init => BusInv
  BY DEF Init, BusInv
<1>2. HostInv /\ BusInv /\ [Next]_vars => BusInv'
  BY BusNext DEF HostInv
<1>3. HostInv /\ BusInv => TypeOK
  <2> SUFFICES ASSUME HostInv, BusInv PROVE TypeOK
    OBVIOUS
  <2>1. TypeInv /\ Ports
    BY DEF HostInv
  <2>2. installed \subseteq running
    <3>1. CASE stage = "io"
      BY <2>1, <3>1 DEF Ports
    <3>2. CASE stage # "io"
      BY <2>1, <3>2 DEF Ports, TypeInv
    <3> QED BY <3>1, <3>2
  <2>3. host.app \in BOOLEAN /\ host.known \in BOOLEAN /\ host.sector \in BOOLEAN
    BY <2>1 DEF TypeInv, HostTypes
  <2>4. card.open \in {"no", "read", "write"} /\ card.busy \in BOOLEAN
    BY <2>1 DEF TypeInv, CardTypes
  <2>5. /\ bus.divider \in 1 .. 63 /\ bus.source <= bus.asked * bus.divider
        /\ bus.width \in IF it = "emmc" THEN {1, 4} ELSE {1, 4, 8}
    <3>1. bus.divider \in 1 .. 63 /\ bus.width \in {1, 4, 8}
      BY <2>1 DEF TypeInv, BusTypes
    <3> QED BY <3>1 DEF BusInv
  <2> QED BY <2>1, <2>2, <2>3, <2>4, <2>5 DEF TypeInv, TypeOK
<1> QED BY <1>1, <1>2, <1>3, HostAlways, PTL DEF Spec

\* A request MesonTransferData reports as done moved every one of its blocks to
\* or from its own place on the card, and no other block, whatever the size of
\* the card, of a block and of a chunk, and whatever failed before it.
THEOREM BlocksInPlace == Spec => []BlocksLandInPlace
<1>1. HostInv => BlocksLandInPlace
  BY DEF HostInv, Placed, Wanted, BlocksLandInPlace
<1> QED BY <1>1, HostAlways, PTL

\* No write data reaches a card that is still programming, and no command is
\* taken with a data phase by one side and without by the other.
THEOREM CardNotAbused == Spec => []CardNeverAbused
<1>1. HostInv => CardNeverAbused
  BY DEF HostInv
<1> QED BY <1>1, HostAlways, PTL

\* From every boot origin, a host with a protocol interface has a running
\* controller and, for the eMMC, a card out of reset.
THEOREM CardsAnswer == Spec => []InstalledCardsAnswer
<1>1. HostInv => InstalledCardsAnswer
  <2> SUFFICES ASSUME HostInv, NEW h \in installed
               PROVE  h \in running \cap core /\ ~held
    BY DEF InstalledCardsAnswer
  <2>1. Ports /\ installed \subseteq Hosts
    BY DEF HostInv, TypeInv
  <2>2. stage # "io" /\ h \in Hosts
    BY <2>1 DEF Ports
  <2> QED BY <2>1, <2>2 DEF Ports
<1> QED BY <1>1, HostAlways, PTL
=============================================================================
