------------------------------ MODULE FmpUpdate ------------------------------
(* Vim3FmpDxe: how a capsule, or a setup-menu request, replaces the three     *)
(* copies of the firmware, with the boot-manager steps around it              *)
(* (HandleCapsules, HandleSpiNorInstallRequest).                              *)
(*                                                                            *)
(* The eMMC exposes one hardware partition at a time (access); CMD6 changes   *)
(* it and may fail before or after the card switched.  Every transfer may be  *)
(* refused, tear the chunk it touches or misprogram it without a word, and    *)
(* power may go at any step.  A chunk is the unit of transfer: 64 KiB in the  *)
(* NOR, an arbitrary slice of the one WriteBlocks call on the eMMC.           *)
EXTENDS BootChain

CONSTANTS Running,     \* the image the board starts with
          Foreign,     \* what an eMMC-first board holds in its NOR (oowow)
          Modes,       \* BOOT_MODE values to start from
          Requests,    \* what the setup menu may ask for
          WornSets,    \* NOR chunks that never program, one set per board
          SilentErase, \* an erase may report success without erasing
          MaxCalls, MaxFaults, MaxCuts   \* bounds on calls, faults, power cuts

ASSUME ModesAssumption == Modes \subseteq {"spi", "emmc"}
ASSUME StartAssumption == Running \in Images /\ Foreign \in Images
ASSUME WornAssumption  == WornSets \subseteq SUBSET Chunk
ASSUME SilentAssumption == SilentErase \in BOOLEAN
ASSUME RequestsAssumption == Requests \subseteq {"none", "enabled", "now"}
ASSUME BoundsAssumption ==
  MaxCalls \in Nat /\ MaxFaults \in Nat /\ MaxCuts \in Nat

VARIABLES
  flash,        \* [Copies -> Copy]
  mcu,          \* MCU BOOT_MODE: "spi" or "emmc" first
  request,      \* the SpiNorInstall variable
  lastAttempt,  \* the Vim3FmpLastAttempt variable
  worn,         \* NOR chunks that no longer program
  source,       \* the copy this boot came from (AO_SEC_GP_CFG0)
  access,       \* the eMMC partition block traffic addresses
  pc,           \* where the firmware is
  kind,         \* "capsule" (FmpSetImage) or "install" (InstallFromEmmc)
  image,        \* the image being written
  norOptIn,     \* NorOptIn, read once per call
  target,       \* the boot partition being written
  chunk, attempt, status,
  before,       \* history: flash and mcu when the call began
  promised,     \* history: the image the last saved SUCCESS was about
  handBackFailed, \* history: a switch back to the user area failed
  calls, faults, cuts   \* counters for the bounds

media   == <<flash, mcu, request, lastAttempt, worn>>
local   == <<kind, image, norOptIn, target, chunk, attempt, status>>
history == <<before, promised, handBackFailed>>
bounds  == <<calls, faults, cuts>>
vars    == <<media, source, access, pc, local, history, bounds>>

Statuses == {"SUCCESS", "INVALID_FORMAT", "NO_NOR", "NO_EMMC", "BOOT0_FAILED",
             "BOOT1_FAILED", "NOR_FAILED", "MCU_FLIP_FAILED", "READ_FAILED"}

\* Inside FmpSetImage or InstallFromEmmc.
Working == {"select", "write", "readback", "handback", "installSelect",
            "installRead", "norErase", "chunkErase", "chunkProgram",
            "chunkRead", "abort", "flip", "delete", "save"}

\* Outside them: powered off, HandleCapsules, HandleSpiNorInstallRequest, the
\* rest of the boot, and a board that does not run this firmware any more.
Points == {"off", "capsules", "request", "idle", "stuck"}

Snapshot == [flash |-> flash, mcu |-> mcu]

Nothing == [k \in Chunk |-> "blank"]

Init ==
  /\ mcu \in Modes
  /\ flash = [c \in Copies |->
                Full(IF c = "nor" /\ mcu = "emmc" THEN Foreign ELSE Running)]
  /\ request = "none" /\ lastAttempt = "SUCCESS"
  /\ worn \in WornSets
  /\ source = "none" /\ access = "user" /\ pc = "off"
  /\ kind = "capsule" /\ image = Nothing /\ norOptIn = FALSE
  /\ target = "boot0" /\ chunk = 0 /\ attempt = 1 /\ status = "SUCCESS"
  /\ before = Snapshot /\ promised = Nothing /\ handBackFailed = FALSE
  /\ calls = 0 /\ faults = 0 /\ cuts = 0

\* A step goes as asked, or takes one of the MaxFaults faults.
Clean == UNCHANGED <<calls, faults, cuts>>
Fault == faults < MaxFaults /\ faults' = faults + 1 /\ UNCHANGED <<calls, cuts>>

Put(c, k, v) == flash' = [flash EXCEPT ![c][k] = v]

-----------------------------------------------------------------------------
(* Power, the BootROM and the boot manager.                                   *)

Boot ==
  /\ pc = "off"
  /\ source' = Chosen(flash, mcu)
  /\ pc' = IF Boots(flash, mcu) /\ flash[Chosen(flash, mcu)] # Full(Foreign)
           THEN "capsules" ELSE "stuck"
  /\ access' = "user" /\ handBackFailed' = FALSE
  /\ UNCHANGED <<media, local, before, promised, bounds>>

\* The chunk a transfer is in the middle of.
InFlight ==
  CASE pc = "write"                          -> {<<access, chunk>>}
    [] pc \in {"norErase", "abort"}          -> {<<"nor", 0>>}
    [] pc \in {"chunkErase", "chunkProgram"} -> {<<"nor", chunk>>}
    [] OTHER                                 -> {}

PowerCut ==
  /\ pc \notin {"off", "stuck"} /\ cuts < MaxCuts
  /\ \/ UNCHANGED flash
     \/ \E x \in InFlight : Put(x[1], x[2], "torn")
  /\ pc' = "off" /\ cuts' = cuts + 1
  /\ UNCHANGED <<mcu, request, lastAttempt, worn, source, access, local,
                 history, calls, faults>>

\* HandleCapsules finds none.
NoCapsule ==
  /\ pc = "capsules" /\ pc' = "request"
  /\ UNCHANGED <<media, source, access, local, history, bounds>>

\* Writes the operating system believes go to its own disk.
UserWrite ==
  /\ pc = "idle" /\ access # "user"
  /\ \E k \in Chunk : /\ flash[access][k] # "torn"
                      /\ Put(access, k, "torn")
  /\ before' = [flash |-> flash', mcu |-> mcu] /\ promised' = Nothing
  /\ UNCHANGED <<mcu, request, lastAttempt, worn, source, access, pc, local,
                 handBackFailed, bounds>>

\* The setup menu's SPI-NOR question.
SetRequest ==
  /\ pc = "idle"
  /\ request' \in Requests \ {request}
  /\ UNCHANGED <<flash, mcu, lastAttempt, worn, source, access, pc, local,
                 history, bounds>>

ResetSystem ==
  /\ pc = "idle" /\ pc' = "off"
  /\ UNCHANGED <<media, source, access, local, history, bounds>>

-----------------------------------------------------------------------------
(* FmpSetImage up to the first write.                                         *)

WriteNorOptIn == norOptIn
WriteNor == source = "nor" \/ norOptIn

Begin(k, i, optIn, st, at) ==
  /\ calls < MaxCalls /\ calls' = calls + 1
  /\ kind' = k /\ image' = i /\ norOptIn' = optIn /\ status' = st /\ pc' = at
  /\ target' = "boot0" /\ chunk' = 0 /\ attempt' = 1
  /\ before' = Snapshot /\ promised' = Nothing
  /\ UNCHANGED <<media, source, access, handBackFailed, cuts>>

\* An unreadable request counts as no request.
FmpSetImage(i) ==
  /\ pc = "capsules"
  /\ \/ /\ Begin("capsule", Full(i), request = "enabled", "SUCCESS", "select")
        /\ UNCHANGED faults
     \/ /\ faults < MaxFaults /\ faults' = faults + 1
        /\ Begin("capsule", Full(i), FALSE, "SUCCESS", "select")

FmpSetImageRefused ==
  /\ pc = "capsules"
  /\ \/ /\ Begin("capsule", Nothing, FALSE, "INVALID_FORMAT", "save")
        /\ UNCHANGED faults
     \/ /\ faults < MaxFaults /\ faults' = faults + 1
        /\ \E st \in {"NO_EMMC"} \cup
                     (IF source = "nor" \/ request = "enabled" THEN {"NO_NOR"} ELSE {}) :
             Begin("capsule", Nothing, request = "enabled", st, "save")

-----------------------------------------------------------------------------
(* The eMMC boot partitions: SelectPartition and WriteAndVerify.              *)

\* A switch that reports an error may still have moved the card.
Switch(p, Taken, Failed) ==
  \/ access' = p /\ Clean /\ Taken
  \/ access' \in {access, p} /\ Fault /\ Failed

Failed(p) == IF p = "boot0" THEN "BOOT0_FAILED" ELSE "BOOT1_FAILED"

GiveUp == pc' = "handback" /\ status' = Failed(target)

SelectBoot ==
  /\ pc = "select"
  /\ Switch(target, pc' = "write" /\ UNCHANGED status, GiveUp)
  /\ chunk' = 0
  /\ UNCHANGED <<media, source, kind, image, norOptIn, target, attempt, history>>

WriteBlocks ==
  /\ pc = "write"
  /\ \/ /\ \/ Put(access, chunk, image[chunk]) /\ Clean
           \/ Put(access, chunk, "torn") /\ Fault
        /\ chunk' = IF chunk = LastChunk THEN 0 ELSE chunk + 1
        /\ pc' = IF chunk = LastChunk THEN "readback" ELSE "write"
        /\ UNCHANGED status
     \/ /\ \E v \in {flash[access][chunk], "torn", image[chunk]} : Put(access, chunk, v)
        /\ Fault /\ GiveUp /\ UNCHANGED chunk
  /\ UNCHANGED <<mcu, request, lastAttempt, worn, source, access, kind, image,
                 norOptIn, target, attempt, history>>

MatchesAnyway == TRUE
Matches == flash[access] = image

\* boot1 is not touched before boot0 has been read back.
ReadBack ==
  /\ pc = "readback"
  /\ \/ /\ Clean /\ Matches /\ UNCHANGED status
        /\ IF target = "boot0" THEN target' = "boot1" /\ pc' = "select"
                               ELSE UNCHANGED target /\ pc' = "handback"
     \/ /\ Clean /\ ~Matches /\ GiveUp /\ UNCHANGED target
     \/ /\ Fault /\ GiveUp /\ UNCHANGED target
  /\ UNCHANGED <<media, source, access, kind, image, norOptIn, chunk, attempt,
                 history>>

AfterHandBack ==
  IF status = "SUCCESS" /\ (kind = "install" \/ WriteNor) THEN "norErase" ELSE "save"

\* Select the user area; nobody looks at the result.
HandBack ==
  /\ pc = "handback"
  /\ Switch("user", UNCHANGED handBackFailed, handBackFailed' = TRUE)
  /\ pc' = AfterHandBack
  /\ UNCHANGED <<media, source, local, before, promised>>

-----------------------------------------------------------------------------
(* The NOR primary: WriteAndVerifyNor and NorUpdateChunk.                     *)

NorStays == <<mcu, request, lastAttempt, worn, source, access, kind, image,
              norOptIn, target, history>>

\* What an erase or a program that reports an error may leave of a chunk.
Leftovers(k) == {flash["nor"][k], "torn", "blank"}

FirstChunkBl2 == 0
FirstChunk == 1   \* the first written; chunk 0 is the last

NorErase ==
  /\ pc = "norErase"
  /\ attempt' = 1
  /\ \/ /\ \/ Put("nor", 0, "blank") /\ Clean
           \/ SilentErase /\ UNCHANGED flash /\ Fault
        /\ chunk' = FirstChunk /\ pc' = "chunkErase" /\ UNCHANGED status
     \/ /\ \E v \in Leftovers(0) : Put("nor", 0, v)
        /\ Fault /\ status' = "NOR_FAILED" /\ pc' = "save" /\ UNCHANGED chunk
  /\ UNCHANGED NorStays

RetryUncounted == pc' = "chunkErase" /\ UNCHANGED <<attempt, status>>
\* One retry from a fresh erase.
Retry ==
  IF attempt = 1
  THEN attempt' = 2 /\ pc' = "chunkErase" /\ UNCHANGED status
  ELSE UNCHANGED attempt /\ pc' = "abort" /\ status' = "NOR_FAILED"

NorEraseChunk ==
  /\ pc = "chunkErase"
  /\ \/ /\ \/ Put("nor", chunk, "blank") /\ Clean
           \/ SilentErase /\ UNCHANGED flash /\ Fault
        /\ pc' = "chunkProgram" /\ UNCHANGED <<attempt, status>>
     \/ \E v \in Leftovers(chunk) : Put("nor", chunk, v) /\ Fault /\ Retry
  /\ UNCHANGED <<chunk, NorStays>>

\* Programming only clears bits: it takes over a blank chunk.
Programmed ==
  IF flash["nor"][chunk] = image[chunk] THEN image[chunk]
  ELSE IF flash["nor"][chunk] = "blank" /\ chunk \notin worn THEN image[chunk]
  ELSE "torn"

NorProgramChunk ==
  /\ pc = "chunkProgram"
  /\ \/ /\ \/ Put("nor", chunk, Programmed) /\ Clean
           \/ Put("nor", chunk, "torn") /\ Fault
        /\ pc' = "chunkRead" /\ UNCHANGED <<attempt, status>>
     \/ \E v \in {flash["nor"][chunk], "torn", Programmed} :
          Put("nor", chunk, v) /\ Fault /\ Retry
  /\ UNCHANGED <<chunk, NorStays>>

ChunkMatchesAnyway == TRUE
ChunkMatches == flash["nor"][chunk] = image[chunk]

NextChunk(k) == IF k = LastChunk THEN 0 ELSE k + 1

NorReadChunk ==
  /\ pc = "chunkRead"
  /\ \/ /\ Clean /\ ChunkMatches /\ UNCHANGED status
        /\ attempt' = 1 /\ chunk' = NextChunk(chunk)
        /\ pc' = IF NextChunk(chunk) # FirstChunk THEN "chunkErase"
                 ELSE IF kind = "install" \/ norOptIn THEN "flip" ELSE "save"
     \/ (Fault \/ (Clean /\ ~ChunkMatches)) /\ Retry /\ UNCHANGED chunk
  /\ UNCHANGED <<flash, NorStays>>

\* Erase the BL2 sector so that the BootROM falls through, best effort.
NorAbort ==
  /\ pc = "abort" /\ pc' = "save"
  /\ \/ Put("nor", 0, "blank") /\ Clean
     \/ \E v \in Leftovers(0) : Put("nor", 0, v) /\ Fault
  /\ UNCHANGED <<chunk, attempt, status, NorStays>>

-----------------------------------------------------------------------------
(* CompleteSpiNorInstall, and the end of a call.                              *)

RefusedButDone == pc' = "delete" /\ status' = "MCU_FLIP_FAILED"
Refused == pc' = "save" /\ status' = "MCU_FLIP_FAILED"

\* The register write is not read back: it may be acknowledged and lost.
Flip ==
  /\ pc = "flip"
  /\ \/ /\ \/ mcu' = "spi" /\ Clean
           \/ UNCHANGED mcu /\ Fault
        /\ pc' = "delete" /\ UNCHANGED status
     \/ /\ mcu' \in {mcu, "spi"} /\ Fault
        /\ Refused
  /\ UNCHANGED <<flash, request, lastAttempt, worn, source, access, kind, image,
                 norOptIn, target, chunk, attempt, history>>

DeleteRequest ==
  /\ pc = "delete" /\ pc' = "save"
  /\ \/ request' = "none" /\ Clean
     \/ UNCHANGED request /\ Fault
  /\ UNCHANGED <<flash, mcu, lastAttempt, worn, source, access, local, history>>

\* A capsule that succeeded resets the board; whether one that failed does is
\* decided by code outside this repository.
SaveLastAttempt ==
  /\ pc = "save" /\ kind = "capsule"
  /\ \/ lastAttempt' = status /\ Clean
     \/ UNCHANGED lastAttempt /\ Fault
  /\ promised' = IF status = "SUCCESS" THEN image ELSE Nothing
  /\ pc' \in IF status = "SUCCESS" THEN {"off"} ELSE {"off", "request"}
  /\ UNCHANGED <<flash, mcu, request, worn, source, access, local, before,
                 handBackFailed>>

InstallReturns ==
  /\ pc = "save" /\ kind = "install"
  /\ pc' = IF status = "SUCCESS" THEN "off" ELSE "idle"
  /\ UNCHANGED <<media, source, access, local, history, bounds>>

-----------------------------------------------------------------------------
(* HandleSpiNorInstallRequest and Vim3SpiNorInstallFromEmmc.                  *)

HandleSpiNorInstallRequest ==
  /\ pc = "request"
  /\ \/ /\ request # "now" /\ pc' = "idle"
        /\ UNCHANGED <<media, source, access, local, history, bounds>>
     \/ /\ request = "now"
        /\ Begin("install", Nothing, FALSE, "SUCCESS", "installSelect")
        /\ UNCHANGED faults
     \/ /\ request = "now" /\ faults < MaxFaults /\ faults' = faults + 1
        /\ \E st \in {"NO_NOR", "NO_EMMC"} : Begin("install", Nothing, FALSE, st, "save")

\* Only a switch that reported success is followed by a hand-back.
InstallSelect ==
  /\ pc = "installSelect"
  /\ Switch("boot0", pc' = "installRead" /\ UNCHANGED status,
                     pc' = "save" /\ status' = "READ_FAILED")
  /\ UNCHANGED <<media, source, kind, image, norOptIn, target, chunk, attempt,
                 history>>

\* ValidateImage on what was read looks at its size alone, which always fits.
InstallRead ==
  /\ pc = "installRead" /\ pc' = "handback"
  /\ \/ image' = flash[access] /\ Clean /\ UNCHANGED status
     \/ status' = "READ_FAILED" /\ Fault /\ UNCHANGED image
  /\ UNCHANGED <<media, source, access, kind, norOptIn, target, chunk, attempt,
                 history>>

-----------------------------------------------------------------------------
EmmcStep == SelectBoot \/ WriteBlocks \/ ReadBack \/ HandBack
NorStep  == NorErase \/ NorEraseChunk \/ NorProgramChunk \/ NorReadChunk \/ NorAbort
EndStep  == Flip \/ DeleteRequest \/ SaveLastAttempt \/ InstallReturns
CallStep == EmmcStep \/ NorStep \/ EndStep \/ InstallSelect \/ InstallRead

Next ==
  \/ Boot \/ PowerCut \/ NoCapsule \/ UserWrite \/ SetRequest \/ ResetSystem
  \/ \E i \in Images \ {Foreign} : FmpSetImage(i)
  \/ FmpSetImageRefused
  \/ HandleSpiNorInstallRequest
  \/ CallStep

Spec == Init /\ [][Next]_vars

\* The firmware runs one thread and none of these steps waits for anybody.
FairSpec == Spec /\ WF_vars(CallStep)

-----------------------------------------------------------------------------
(* Properties.                                                                *)

\* The state keeps its types.
TypeOK ==
  /\ flash \in [Copies -> Copy] /\ mcu \in {"spi", "emmc"}
  /\ request \in Requests \cup {"none"}
  /\ lastAttempt \in Statuses /\ status \in Statuses
  /\ worn \in SUBSET Chunk
  /\ source \in Copies \cup {"none"} /\ access \in {"user", "boot0", "boot1"}
  /\ pc \in Working \cup Points /\ kind \in {"capsule", "install"}
  /\ image \in Copy /\ norOptIn \in BOOLEAN
  /\ target \in {"boot0", "boot1"} /\ chunk \in Chunk /\ attempt \in {1, 2}
  /\ before \in [flash : [Copies -> Copy], mcu : {"spi", "emmc"}]
  /\ promised \in Copy /\ handBackFailed \in BOOLEAN
  /\ calls \in 0..MaxCalls /\ faults \in 0..MaxFaults /\ cuts \in 0..MaxCuts

\* WriteAndVerifyNor's promise: whatever fails and whenever power goes, the NOR
\* is whole or the BootROM rejects its BL2; it never starts half an image.
NorNeverHalfWritten == Bl2Valid(flash["nor"]) => Complete(flash["nor"])

\* An SPI-first board whose NOR is whole when an update begins boots after it,
\* and after every power cut and failure in it: from the NOR until its BL2 is
\* erased, from the verified rescue from then on.
PrimaryKeepsBooting ==
  (before.mcu = "spi" /\ Complete(before.flash["nor"])) => pc # "stuck"

\* An update that finds both boot partitions whole leaves one whole at every
\* moment (boot0 is proven before boot1 is touched).
OneGoodRescue ==
  (Complete(before.flash["boot0"]) /\ Complete(before.flash["boot1"]))
    => Complete(flash["boot0"]) \/ Complete(flash["boot1"])

\* The two halves of "a power cut leaves the board bootable" that the code
\* keeps: for a board that boots from the NOR, and for the rescue copies.
BoardKeepsBooting == PrimaryKeepsBooting /\ OneGoodRescue

\* After a capsule reported SUCCESS the BootROM's choice is the new image, on
\* SPI-booted, eMMC-booted and opted-in boards alike.
PromiseKept ==
  promised # Nothing =>
    /\ Chosen(flash, mcu) # "none"
    /\ flash[Chosen(flash, mcu)] = promised

\* The status code an update records tells the truth about every copy: what
\* was proven new and what was left alone.
StageWitness ==
  (pc = "save" /\ kind = "capsule") =>
    /\ status \in {"INVALID_FORMAT", "NO_NOR", "NO_EMMC"} => flash = before.flash
    /\ status = "BOOT0_FAILED" => flash["boot1"] = before.flash["boot1"]
    /\ status = "BOOT1_FAILED" => flash["boot0"] = image
    /\ status \in {"BOOT0_FAILED", "BOOT1_FAILED"} =>
         flash["nor"] = before.flash["nor"]
    /\ status \in {"NOR_FAILED", "MCU_FLIP_FAILED", "SUCCESS"} =>
         flash["boot0"] = image /\ flash["boot1"] = image
    /\ (status = "MCU_FLIP_FAILED" \/ (status = "SUCCESS" /\ WriteNor)) =>
         flash["nor"] = image

\* Once a call is past the boot partitions the card addresses the user area,
\* unless the switch back to it was tried and failed.
HandedBack ==
  (pc \in {"save", "norErase", "chunkErase", "flip", "request", "idle"}
     /\ access # "user") => handBackFailed

\* What an update leaves behind is what it says it leaves behind: to the user,
\* to ESRT's last attempt, and to the driver that next addresses the card.
UpdateHonest == PromiseKept /\ StageWitness /\ HandedBack

\* A board with two whole boot partitions boots after any failed update.
RescueKeepsBooting ==
  (Complete(before.flash["boot0"]) /\ Complete(before.flash["boot1"]))
    => pc # "stuck"

\* The BootROM is pointed at the NOR only when the NOR holds, verified, the
\* image of this very call.
FlipOnlyOverVerified == [][mcu' # mcu => flash["nor"] = image]_vars

\* The one-shot request is consumed only by a call whose NOR image is verified
\* and whose MCU write was acknowledged; any other outcome keeps it.
RequestKept ==
  [][(request' # request /\ pc # "idle") =>
       flash["nor"] = image /\ status = "SUCCESS"]_vars

\* Every call comes to an end, on boards with worn NOR chunks too.
EveryCallEnds == (pc \in Working) ~> (pc \in Points)
=============================================================================
