-------------------------- MODULE FmpUpdate_proofs --------------------------
(* What TLAPS proves of the firmware update for any number of chunks, any     *)
(* images, any worn chunks and any number of calls, faults and power cuts.    *)
EXTENDS FmpUpdate, TLAPS

\* The constants' assumptions, under one name.
Constants == /\ ChunksAssumption /\ ImagesAssumption /\ ModesAssumption
             /\ StartAssumption /\ WornAssumption /\ RequestsAssumption
             /\ BoundsAssumption /\ SilentAssumption

LEMMA ConstantsHold == Constants
BY ChunksAssumption, ImagesAssumption, ModesAssumption, StartAssumption,
   WornAssumption, RequestsAssumption, BoundsAssumption, SilentAssumption
   DEF Constants, ChunksAssumption, ImagesAssumption, ModesAssumption,
       StartAssumption, WornAssumption, RequestsAssumption, BoundsAssumption,
       SilentAssumption

\* The BootROM's choice is a copy or its recovery loop: the probe order has a
\* first valid copy whenever there is a valid one.
LEMMA ChosenCopy ==
  ASSUME NEW f \in [Copies -> Copy], NEW md \in {"spi", "emmc"}
  PROVE  Chosen(f, md) \in Copies \cup {"none"}
<1> DEFINE valid == {c \in Copies : Bl2Valid(f[c])}
<1>1. CASE valid = {}
  BY <1>1 DEF Chosen
<1>2. CASE valid # {}
  <2>1. \E c \in valid : \A d \in valid : Rank(md, c) <= Rank(md, d)
    <3> HIDE DEF valid
    <3>0. valid \subseteq {"nor", "boot0", "boot1"}
      BY DEF valid, Copies
    <3>1. CASE md = "spi" /\ "nor" \in valid
      BY <3>0, <3>1 DEF Rank
    <3>2. CASE ~(md = "spi" /\ "nor" \in valid) /\ "boot0" \in valid
      BY <3>0, <3>2 DEF Rank
    <3>3. CASE ~(md = "spi" /\ "nor" \in valid) /\ "boot0" \notin valid /\ "boot1" \in valid
      BY <3>0, <3>3 DEF Rank
    <3>4. CASE ~(md = "spi" /\ "nor" \in valid) /\ "boot0" \notin valid /\ "boot1" \notin valid
      BY <3>0, <3>4, <1>2 DEF Rank
    <3> QED BY <3>1, <3>2, <3>3, <3>4
  <2>2. Chosen(f, md) \in valid
    BY <1>2, <2>1 DEF Chosen
  <2> QED BY <2>2
<1> QED BY <1>1, <1>2

\* One transfer changes one chunk of one copy.
LEMMA PutType ==
  ASSUME flash \in [Copies -> Copy], NEW c, NEW k \in Chunk, NEW v \in Content,
         Put(c, k, v)
  PROVE  /\ flash' \in [Copies -> Copy]
         /\ \A d \in Copies : d # c => flash'[d] = flash[d]
         /\ \A j \in Chunk : (j # k /\ c \in Copies) => flash'[c][j] = flash[c][j]
         /\ c \in Copies => flash'[c][k] = v
BY DEF Put, Copy

LEMMA FullType == ASSUME NEW i \in Images PROVE Full(i) \in Copy
BY DEF Full, Copy, Content

LEMMA NothingType == Nothing \in Copy
BY DEF Nothing, Copy, Content

LEMMA ZeroChunk == /\ 0 \in Chunk /\ 1 \in Chunk /\ LastChunk \in Nat \ {0}
                   /\ Chunk \subseteq Nat
BY ConstantsHold DEF Constants, ChunksAssumption, Chunk

\* The count of faults stays within its bound.
LEMMA FaultCount ==
  ASSUME faults \in 0..MaxFaults, UNCHANGED faults \/ (faults < MaxFaults /\ faults' = faults + 1)
  PROVE  faults' \in 0..MaxFaults
BY ConstantsHold DEF Constants, BoundsAssumption

LEMMA TypeInit == Init => TypeOK
<1> SUFFICES ASSUME Init PROVE TypeOK
  OBVIOUS
<1>1. mcu \in {"spi", "emmc"}
  BY ConstantsHold DEF Constants, ModesAssumption, Init
<1>2. flash \in [Copies -> Copy]
  <2>1. Full(Running) \in Copy /\ Full(Foreign) \in Copy
    BY FullType, ConstantsHold DEF Constants, StartAssumption
  <2> QED BY <2>1 DEF Init
<1>3. worn \in SUBSET Chunk
  BY ConstantsHold DEF Constants, WornAssumption, Init
<1>4. before \in [flash : [Copies -> Copy], mcu : {"spi", "emmc"}]
  BY <1>1, <1>2 DEF Init, Snapshot
<1>5. calls \in 0..MaxCalls /\ faults \in 0..MaxFaults /\ cuts \in 0..MaxCuts
  BY ConstantsHold DEF Constants, BoundsAssumption, Init
<1>6. norOptIn \in BOOLEAN /\ handBackFailed \in BOOLEAN
  BY DEF Init
<1>7. image \in Copy /\ promised \in Copy /\ chunk \in Chunk
  BY NothingType, ZeroChunk DEF Init
<1> QED
  BY <1>1, <1>2, <1>3, <1>4, <1>5, <1>6, <1>7 DEF Init, TypeOK, Statuses, Points

\* A call begins with well-formed arguments.
LEMMA BeginType ==
  ASSUME TypeOK, NEW k \in {"capsule", "install"}, NEW im \in Copy, NEW o \in BOOLEAN,
         NEW st \in Statuses, NEW at \in Working, Begin(k, im, o, st, at),
         faults' \in 0..MaxFaults
  PROVE  TypeOK'
<1>1. norOptIn' \in BOOLEAN /\ handBackFailed' \in BOOLEAN
  BY DEF Begin, TypeOK
<1>2. before' \in [flash : [Copies -> Copy], mcu : {"spi", "emmc"}]
  BY DEF Begin, TypeOK, Snapshot, media
<1>3. calls' \in 0..MaxCalls
  BY ConstantsHold DEF Constants, BoundsAssumption, Begin, TypeOK
<1> QED BY <1>1, <1>2, <1>3, NothingType, ZeroChunk DEF Begin, TypeOK, media

\* Where an install reads from: its switch to boot0 has succeeded.
ReadsBoot0 == pc = "installRead" => access = "boot0"

LEMMA ReadsBoot0Next == ReadsBoot0 /\ [Next]_vars => ReadsBoot0'
<1> SUFFICES ASSUME ReadsBoot0, [Next]_vars PROVE ReadsBoot0'
  OBVIOUS
<1>1. CASE UNCHANGED vars
  BY <1>1 DEF ReadsBoot0, vars
<1>2. CASE InstallSelect
  BY <1>2 DEF ReadsBoot0, InstallSelect, Switch
<1>3. CASE HandBack
  BY <1>3 DEF ReadsBoot0, HandBack, AfterHandBack
<1>4. CASE HandleSpiNorInstallRequest
  BY <1>4 DEF ReadsBoot0, HandleSpiNorInstallRequest, Begin
<1>5. CASE FmpSetImageRefused \/ \E i \in Images \ {Foreign} : FmpSetImage(i)
  BY <1>5 DEF ReadsBoot0, FmpSetImageRefused, FmpSetImage, Begin
<1>6. CASE Boot \/ PowerCut \/ NoCapsule \/ UserWrite \/ SetRequest \/ ResetSystem
  BY <1>6 DEF ReadsBoot0, Boot, PowerCut, NoCapsule, UserWrite, SetRequest, ResetSystem
<1>7. CASE SelectBoot \/ WriteBlocks \/ ReadBack
  BY <1>7 DEF ReadsBoot0, SelectBoot, Switch, WriteBlocks, ReadBack, GiveUp
<1>8. CASE NorStep
  BY <1>8 DEF ReadsBoot0, NorStep, NorErase, NorEraseChunk, NorProgramChunk,
              NorReadChunk, NorAbort, Retry
<1>9. CASE EndStep
  BY <1>9 DEF ReadsBoot0, EndStep, Flip, Refused, DeleteRequest, SaveLastAttempt,
              InstallReturns
<1>10. CASE InstallRead
  BY <1>10 DEF ReadsBoot0, InstallRead
<1> QED
  BY <1>1, <1>2, <1>3, <1>4, <1>5, <1>6, <1>7, <1>8, <1>9, <1>10
     DEF Next, CallStep, EmmcStep

LEMMA TypeNext == TypeOK /\ ReadsBoot0 /\ [Next]_vars => TypeOK'
<1> SUFFICES ASSUME TypeOK, ReadsBoot0, [Next]_vars PROVE TypeOK'
  OBVIOUS
<1> USE ConstantsHold DEF Constants
<1>1. CASE UNCHANGED vars
  BY <1>1 DEF TypeOK, vars, media, local, history, bounds
<1>2. CASE Boot
  BY <1>2, ChosenCopy DEF Boot, TypeOK, media, local, bounds, Points
<1>3. CASE PowerCut
  <2>1. flash' \in [Copies -> Copy]
    <3>1. CASE UNCHANGED flash
      BY <3>1 DEF TypeOK
    <3>2. ASSUME NEW x \in InFlight, Put(x[1], x[2], "torn")
          PROVE  flash' \in [Copies -> Copy]
      <4>1. x[2] \in Chunk
        BY ZeroChunk DEF InFlight, TypeOK
      <4> QED BY <3>2, <4>1, PutType DEF TypeOK, Content
    <3> QED BY <1>3, <3>1, <3>2 DEF PowerCut
  <2> QED BY <1>3, <2>1 DEF PowerCut, TypeOK, local, history, Points, BoundsAssumption
<1>4. CASE NoCapsule
  BY <1>4 DEF NoCapsule, TypeOK, media, local, history, bounds, Points
<1>5. CASE UserWrite
  <2>1. flash' \in [Copies -> Copy]
    BY <1>5, PutType DEF UserWrite, TypeOK, Content
  <2> QED BY <1>5, <2>1, NothingType DEF UserWrite, TypeOK, local, bounds
<1>6. CASE SetRequest
  BY <1>6 DEF SetRequest, TypeOK, local, history, bounds
<1>7. CASE ResetSystem
  BY <1>7 DEF ResetSystem, TypeOK, media, local, history, bounds, Points
<1>8. ASSUME NEW i \in Images \ {Foreign}, FmpSetImage(i) PROVE TypeOK'
  <2>1. faults' \in 0..MaxFaults
    <3>1. UNCHANGED faults \/ (faults < MaxFaults /\ faults' = faults + 1)
      BY <1>8, Zenon DEF FmpSetImage
    <3> QED BY <3>1, FaultCount DEF TypeOK
  <2>2. CASE Begin("capsule", Full(i), request = "enabled", "SUCCESS", "select")
    BY <2>1, <2>2, BeginType, FullType DEF Statuses, Working
  <2>3. CASE Begin("capsule", Full(i), FALSE, "SUCCESS", "select")
    BY <2>1, <2>3, BeginType, FullType DEF Statuses, Working
  <2> QED BY <1>8, <2>2, <2>3 DEF FmpSetImage
<1>9. CASE FmpSetImageRefused
  <2>1. faults' \in 0..MaxFaults
    <3>1. UNCHANGED faults \/ (faults < MaxFaults /\ faults' = faults + 1)
      BY <1>9, Zenon DEF FmpSetImageRefused
    <3> QED BY <3>1, FaultCount DEF TypeOK
  <2>2. CASE Begin("capsule", Nothing, FALSE, "INVALID_FORMAT", "save")
    BY <2>1, <2>2, BeginType, NothingType DEF Statuses, Working
  <2>3. ASSUME NEW st \in {"NO_EMMC", "NO_NOR"},
               Begin("capsule", Nothing, request = "enabled", st, "save")
        PROVE  TypeOK'
    <3>1. st \in Statuses /\ "save" \in Working /\ (request = "enabled") \in BOOLEAN
      BY <2>3 DEF Statuses, Working
    <3> QED BY <2>1, <2>3, <3>1, BeginType, NothingType, Zenon
  <2> QED BY <1>9, <2>2, <2>3 DEF FmpSetImageRefused
<1>10. CASE HandleSpiNorInstallRequest
  <2>1. CASE request # "now"
    BY <1>10, <2>1 DEF HandleSpiNorInstallRequest, TypeOK, media, local, history, bounds,
                       Points
  <2>2. CASE request = "now"
    <3>1. faults' \in 0..MaxFaults
      <4>1. UNCHANGED faults \/ (faults < MaxFaults /\ faults' = faults + 1)
        BY <1>10, <2>2, Zenon DEF HandleSpiNorInstallRequest
      <4> QED BY <4>1, FaultCount DEF TypeOK
    <3>2. CASE Begin("install", Nothing, FALSE, "SUCCESS", "installSelect")
      BY <3>1, <3>2, BeginType, NothingType DEF Statuses, Working
    <3>3. ASSUME NEW st \in {"NO_NOR", "NO_EMMC"}, Begin("install", Nothing, FALSE, st, "save")
          PROVE  TypeOK'
      BY <3>1, <3>3, BeginType, NothingType DEF Statuses, Working
    <3> QED BY <1>10, <2>2, <3>2, <3>3 DEF HandleSpiNorInstallRequest
  <2> QED BY <2>1, <2>2
<1>11. CASE SelectBoot
  BY <1>11, ZeroChunk
     DEF SelectBoot, Switch, GiveUp, Failed, Clean, Fault, TypeOK, media, history,
         Statuses, Working, BoundsAssumption
<1>12. CASE WriteBlocks
  <2>1. flash' \in [Copies -> Copy]
    <3>1. chunk \in Chunk /\ image[chunk] \in Content /\ "torn" \in Content
          /\ (access \in Copies => flash[access][chunk] \in Content)
      BY DEF TypeOK, Copy, Content
    <3>2. CASE access \in Copies
      BY <1>12, <3>1, <3>2, PutType DEF WriteBlocks, TypeOK
    <3>3. CASE access \notin Copies
      BY <1>12, <3>3 DEF WriteBlocks, TypeOK, Put
    <3> QED BY <3>2, <3>3
  <2> QED
    BY <1>12, <2>1, ZeroChunk
       DEF WriteBlocks, GiveUp, Failed, Clean, Fault, TypeOK, history, Chunk,
           Statuses, Working, BoundsAssumption
<1>13. CASE ReadBack
  BY <1>13 DEF ReadBack, GiveUp, Failed, Clean, Fault, TypeOK, media, history,
               Statuses, Working, BoundsAssumption
<1>14. CASE HandBack
  <2>1. pc' \in Working
    BY <1>14 DEF HandBack, AfterHandBack, Working
  <2>2. handBackFailed' \in BOOLEAN
    BY <1>14 DEF HandBack, Switch, TypeOK
  <2> QED
    BY <1>14, <2>1, <2>2 DEF HandBack, Switch, Clean, Fault, TypeOK, media, local,
                             BoundsAssumption
<1>15. CASE NorErase
  <2>1. flash' \in [Copies -> Copy]
    <3>1. "nor" \in Copies /\ flash["nor"][0] \in Content /\ Leftovers(0) \subseteq Content
          /\ "blank" \in Content
      BY ZeroChunk DEF TypeOK, Copies, Copy, Leftovers, Content
    <3> QED BY <1>15, <3>1, ZeroChunk, PutType DEF NorErase, TypeOK
  <2> QED
    BY <1>15, <2>1, ZeroChunk
       DEF NorErase, NorStays, FirstChunk, Clean, Fault, TypeOK, history, Statuses,
           Working, BoundsAssumption
<1>16. CASE NorEraseChunk
  <2>1. flash' \in [Copies -> Copy]
    <3>1. chunk \in Chunk /\ Leftovers(chunk) \subseteq Content /\ "blank" \in Content
      BY DEF TypeOK, Copies, Copy, Leftovers, Content
    <3> QED BY <1>16, <3>1, PutType DEF NorEraseChunk, TypeOK
  <2> QED
    BY <1>16, <2>1
       DEF NorEraseChunk, NorStays, Retry, Clean, Fault, TypeOK, history, Statuses,
           Working, BoundsAssumption
<1>17. CASE NorProgramChunk
  <2>1. flash' \in [Copies -> Copy]
    <3>1. /\ chunk \in Chunk /\ Programmed \in Content /\ "torn" \in Content
          /\ flash["nor"][chunk] \in Content
      BY DEF TypeOK, Copies, Copy, Programmed, Content
    <3> QED BY <1>17, <3>1, PutType DEF NorProgramChunk, TypeOK
  <2> QED
    BY <1>17, <2>1
       DEF NorProgramChunk, NorStays, Retry, Clean, Fault, TypeOK, history, Statuses,
           Working, BoundsAssumption
<1>18. CASE NorReadChunk
  BY <1>18, ZeroChunk
     DEF NorReadChunk, NextChunk, NorStays, Retry, Clean, Fault, TypeOK, history,
         Chunk, Statuses, Working, BoundsAssumption
<1>19. CASE NorAbort
  <2>1. flash' \in [Copies -> Copy]
    <3>1. Leftovers(0) \subseteq Content /\ "blank" \in Content
      BY ZeroChunk DEF TypeOK, Copies, Copy, Leftovers, Content
    <3> QED BY <1>19, <3>1, ZeroChunk, PutType DEF NorAbort, TypeOK
  <2> QED
    BY <1>19, <2>1
       DEF NorAbort, NorStays, Clean, Fault, TypeOK, history, Working, BoundsAssumption
<1>20. CASE Flip
  BY <1>20 DEF Flip, Refused, Clean, Fault, TypeOK, history, Statuses, Working,
               BoundsAssumption
<1>21. CASE DeleteRequest
  BY <1>21 DEF DeleteRequest, Clean, Fault, TypeOK, local, history, Working,
               BoundsAssumption
<1>22. CASE SaveLastAttempt
  BY <1>22, NothingType
     DEF SaveLastAttempt, Clean, Fault, TypeOK, local, Points, BoundsAssumption
<1>23. CASE InstallReturns
  BY <1>23 DEF InstallReturns, TypeOK, media, local, history, bounds, Points
<1>24. CASE InstallSelect
  BY <1>24 DEF InstallSelect, Switch, Clean, Fault, TypeOK, media, history, Statuses,
               Working, BoundsAssumption
<1>25. CASE InstallRead
  <2>1. image' \in Copy
    BY <1>25 DEF InstallRead, ReadsBoot0, TypeOK, Copies
  <2> QED
    BY <1>25, <2>1 DEF InstallRead, Clean, Fault, TypeOK, media, history, Statuses,
                       Working, BoundsAssumption
<1> QED
  BY <1>1, <1>2, <1>3, <1>4, <1>5, <1>6, <1>7, <1>8, <1>9, <1>10, <1>11, <1>12,
     <1>13, <1>14, <1>15, <1>16, <1>17, <1>18, <1>19, <1>20, <1>21, <1>22, <1>23,
     <1>24, <1>25
     DEF Next, CallStep, EmmcStep, NorStep, EndStep

\* The update keeps its types: no chunk number, retry count, status or copy
\* ever leaves its range.
THEOREM TypeCorrect == Spec => []TypeOK
<1>1. Init => TypeOK /\ ReadsBoot0
  BY TypeInit DEF Init, ReadsBoot0
<1>2. TypeOK /\ ReadsBoot0 /\ [Next]_vars => (TypeOK /\ ReadsBoot0)'
  BY TypeNext, ReadsBoot0Next
<1> QED BY <1>1, <1>2, PTL DEF Spec

\* A write to one copy leaves the others alone.
LEMMA OtherCopies ==
  ASSUME TypeOK, NEW c, NEW k, NEW v, Put(c, k, v)
  PROVE  \A d \in Copies : d # c => flash'[d] = flash[d]
BY DEF TypeOK, Put

\* A NOR step touches the NOR alone.
LEMMA NorStepFrame ==
  ASSUME TypeOK, NorStep
  PROVE  flash'["boot0"] = flash["boot0"] /\ flash'["boot1"] = flash["boot1"]
<1>0. "boot0" \in Copies /\ "boot1" \in Copies
  BY DEF Copies
<1>1. (\E k, v : Put("nor", k, v)) \/ UNCHANGED flash
  BY DEF NorStep, NorErase, NorEraseChunk, NorProgramChunk, NorReadChunk, NorAbort
<1> QED BY <1>0, <1>1, OtherCopies

\* A block write touches the partition the card addresses alone.
LEMMA WriteBlocksFrame ==
  ASSUME TypeOK, WriteBlocks
  PROVE  \A d \in Copies : d # access => flash'[d] = flash[d]
<1>1. \E v : Put(access, chunk, v)
  BY DEF WriteBlocks
<1> QED BY <1>1, OtherCopies

-----------------------------------------------------------------------------
(* The NOR write makes progress chunk by verified chunk.                      *)

Chunking == {"chunkErase", "chunkProgram", "chunkRead"}

\* The chunks that have been read back when chunk c is being written.
Verified(c) == IF c = 0 THEN 1..LastChunk ELSE 1..(c - 1)

Progress ==
  /\ pc \in Chunking => \A k \in Verified(chunk) : flash["nor"][k] = image[k]
  /\ pc \in {"flip", "delete"} => flash["nor"] = image
  /\ pc \in Chunking \cup {"norErase", "flip", "delete"} => status = "SUCCESS"

\* A write to the chunk in hand leaves the verified ones alone.
LEMMA VerifiedStay ==
  ASSUME TypeOK, pc \in Chunking, Progress, NEW v \in Content, Put("nor", chunk, v)
  PROVE  \A k \in Verified(chunk) : flash'["nor"][k] = image[k]
<1>1. \A k \in Verified(chunk) : k \in Chunk /\ k # chunk
  BY ZeroChunk DEF Verified, Chunk, TypeOK
<1>2. \A j \in Chunk : j # chunk => flash'["nor"][j] = flash["nor"][j]
  BY PutType DEF TypeOK, Copies
<1> QED BY <1>1, <1>2 DEF Progress

\* Reading chunk 0 back, the last, makes the whole copy the image.
LEMMA LastRead ==
  ASSUME TypeOK, Progress, pc \in Chunking, chunk = 0, ChunkMatches
  PROVE  flash["nor"] = image
<1>1. \A k \in Chunk : flash["nor"][k] = image[k]
  BY ZeroChunk DEF Progress, Verified, Chunk, ChunkMatches
<1>2. flash["nor"] \in [Chunk -> Content] /\ image \in [Chunk -> Content]
  BY DEF TypeOK, Copies, Copy
<1> QED BY <1>1, <1>2

LEMMA ProgressNext == TypeOK /\ Progress /\ [Next]_vars => Progress'
<1> SUFFICES ASSUME TypeOK, Progress, [Next]_vars PROVE Progress'
  OBVIOUS
<1>1. CASE UNCHANGED vars
  BY <1>1 DEF Progress, vars, media, local, ChunkMatches
<1>2. CASE Boot \/ NoCapsule \/ UserWrite \/ SetRequest \/ ResetSystem \/ PowerCut
  <2>1. pc' \in Points
    BY <1>2 DEF Boot, NoCapsule, UserWrite, SetRequest, ResetSystem, PowerCut, Points
  <2> QED BY <2>1 DEF Progress, Chunking, Points
<1>3. CASE FmpSetImageRefused \/ \E i \in Images \ {Foreign} : FmpSetImage(i)
  BY <1>3 DEF FmpSetImageRefused, FmpSetImage, Begin, Progress, Chunking
<1>4. CASE HandleSpiNorInstallRequest
  BY <1>4 DEF HandleSpiNorInstallRequest, Begin, Progress, Chunking
<1>5. CASE SelectBoot
  BY <1>5 DEF SelectBoot, Switch, GiveUp, Progress, Chunking
<1>6. CASE WriteBlocks
  BY <1>6 DEF WriteBlocks, GiveUp, Progress, Chunking
<1>7. CASE ReadBack
  BY <1>7 DEF ReadBack, GiveUp, Progress, Chunking
<1>8. CASE HandBack
  BY <1>8 DEF HandBack, AfterHandBack, Progress, Chunking, local
<1>9. CASE NorErase
  BY <1>9, ZeroChunk DEF NorErase, NorStays, FirstChunk, Progress, Chunking, Verified
<1>10. CASE NorEraseChunk
  <2>0. pc \in Chunking /\ status = "SUCCESS"
    BY <1>10 DEF NorEraseChunk, Progress, Chunking
  <2>1. UNCHANGED flash \/ \E v \in Content : Put("nor", chunk, v)
    BY <1>10 DEF NorEraseChunk, Leftovers, TypeOK, Copies, Copy, Content
  <2>2. \A k \in Verified(chunk) : flash'["nor"][k] = image[k]
    BY <2>0, <2>1, VerifiedStay DEF Progress
  <2> QED
    BY <1>10, <2>0, <2>2 DEF NorEraseChunk, NorStays, Retry, Progress, Chunking
<1>11. CASE NorProgramChunk
  <2>0. pc \in Chunking /\ status = "SUCCESS"
    BY <1>11 DEF NorProgramChunk, Progress, Chunking
  <2>1. \E v \in Content : Put("nor", chunk, v)
    BY <1>11 DEF NorProgramChunk, Programmed, TypeOK, Copies, Copy, Content
  <2>2. \A k \in Verified(chunk) : flash'["nor"][k] = image[k]
    BY <2>0, <2>1, VerifiedStay
  <2> QED
    BY <1>11, <2>0, <2>2 DEF NorProgramChunk, NorStays, Retry, Progress, Chunking
<1>12. CASE NorReadChunk
  <2>0. pc \in Chunking /\ status = "SUCCESS"
    BY <1>12 DEF NorReadChunk, Progress, Chunking
  <2>1. CASE ChunkMatches /\ chunk # 0 /\ chunk' = NextChunk(chunk) /\ UNCHANGED status
    <3>1. \A k \in Verified(NextChunk(chunk)) : flash["nor"][k] = image[k]
      BY <2>0, <2>1, ZeroChunk DEF Progress, Verified, NextChunk, ChunkMatches, TypeOK, Chunk
    <3>2. NextChunk(chunk) # FirstChunk /\ NextChunk(chunk) # chunk
      BY <2>1, ZeroChunk DEF NextChunk, FirstChunk, TypeOK, Chunk
    <3>3. pc' = "chunkErase" /\ UNCHANGED <<flash, image>>
      BY <1>12, <2>1, <3>2 DEF NorReadChunk, NorStays
    <3>4. \A k \in Verified(chunk') : flash'["nor"][k] = image'[k]
      BY <2>1, <3>1, <3>3
    <3> QED BY <2>0, <2>1, <3>3, <3>4 DEF Progress, Chunking
  <2>2. CASE ChunkMatches /\ chunk = 0 /\ chunk' = NextChunk(chunk) /\ UNCHANGED status
    <3>1. flash["nor"] = image
      BY <2>0, <2>2, LastRead
    <3>2. NextChunk(chunk) = FirstChunk
      BY <2>2, ZeroChunk DEF NextChunk, FirstChunk
    <3> QED
      BY <1>12, <2>0, <2>2, <3>1, <3>2
         DEF NorReadChunk, NorStays, Retry, Progress, Chunking
  <2>3. CASE Retry /\ UNCHANGED chunk
    BY <1>12, <2>0, <2>3 DEF NorReadChunk, NorStays, Retry, Progress, Chunking
  <2> QED BY <1>12, <2>1, <2>2, <2>3 DEF NorReadChunk
<1>13. CASE NorAbort
  BY <1>13 DEF NorAbort, Progress, Chunking
<1>14. CASE Flip
  BY <1>14 DEF Flip, Refused, Progress, Chunking
<1>15. CASE DeleteRequest
  BY <1>15 DEF DeleteRequest, Progress, Chunking
<1>16. CASE SaveLastAttempt \/ InstallReturns
  BY <1>16 DEF SaveLastAttempt, InstallReturns, Progress, Chunking
<1>17. CASE InstallSelect
  BY <1>17 DEF InstallSelect, Switch, Progress, Chunking
<1>18. CASE InstallRead
  BY <1>18 DEF InstallRead, Progress, Chunking
<1> QED
  BY <1>1, <1>2, <1>3, <1>4, <1>5, <1>6, <1>7, <1>8, <1>9, <1>10, <1>11, <1>12,
     <1>13, <1>14, <1>15, <1>16, <1>17, <1>18
     DEF Next, CallStep, EmmcStep, NorStep, EndStep

UpdateInv == TypeOK /\ ReadsBoot0 /\ Progress

LEMMA UpdateInvariant == Spec => []UpdateInv
<1>1. Init => UpdateInv
  BY TypeInit DEF Init, UpdateInv, ReadsBoot0, Progress, Chunking
<1>2. UpdateInv /\ [Next]_vars => UpdateInv'
  BY TypeNext, ReadsBoot0Next, ProgressNext DEF UpdateInv
<1> QED BY <1>1, <1>2, PTL DEF Spec

\* Vim3McuWriteByte's caller: only the last step of a verified NOR write turns
\* the board to the NOR, by capsule or by install.
LEMMA OnlyFlip ==
  ASSUME UpdateInv, Next, mcu' # mcu
  PROVE  Flip
<1> DEFINE quiet == UNCHANGED mcu
<1>1. Boot \/ NoCapsule \/ UserWrite \/ SetRequest \/ ResetSystem \/ PowerCut => quiet
  BY DEF Boot, NoCapsule, UserWrite, SetRequest, ResetSystem, PowerCut, media
<1>2. FmpSetImageRefused \/ (\E i \in Images \ {Foreign} : FmpSetImage(i))
        \/ HandleSpiNorInstallRequest => quiet
  BY DEF FmpSetImageRefused, FmpSetImage, HandleSpiNorInstallRequest, Begin, media
<1>3. EmmcStep => quiet
  BY DEF EmmcStep, SelectBoot, WriteBlocks, ReadBack, HandBack, media
<1>4. NorStep => quiet
  BY DEF NorStep, NorErase, NorEraseChunk, NorProgramChunk, NorReadChunk, NorAbort, NorStays
<1>5. DeleteRequest \/ SaveLastAttempt \/ InstallReturns \/ InstallSelect \/ InstallRead
        => quiet
  BY DEF DeleteRequest, SaveLastAttempt, InstallReturns, InstallSelect, InstallRead, media
<1> QED BY <1>1, <1>2, <1>3, <1>4, <1>5 DEF Next, CallStep, EndStep

\* For every number of chunks, faults and cuts, worn and lying parts included:
\* the BootROM is pointed at the NOR only over a verified image.
THEOREM FlipVerified == Spec => FlipOnlyOverVerified
<1>1. UpdateInv /\ [Next]_vars => [mcu' # mcu => flash["nor"] = image]_vars
  <2> SUFFICES ASSUME UpdateInv, Next, mcu' # mcu PROVE flash["nor"] = image
    OBVIOUS
  <2>1. pc = "flip"
    BY OnlyFlip DEF Flip
  <2> QED BY <2>1 DEF UpdateInv, Progress
<1> QED BY <1>1, UpdateInvariant, PTL DEF Spec, FlipOnlyOverVerified

-----------------------------------------------------------------------------
(* The one-shot request.                                                      *)

\* CompleteSpiNorInstall's promise: the firmware consumes the request only when
\* the NOR holds the image and the MCU write was acknowledged.
THEOREM RequestConsumed == Spec => RequestKept
<1>1. UpdateInv /\ [Next]_vars =>
        [(request' # request /\ pc # "idle") => flash["nor"] = image /\ status = "SUCCESS"]_vars
  <2> SUFFICES ASSUME UpdateInv, Next, request' # request, pc # "idle"
               PROVE  flash["nor"] = image /\ status = "SUCCESS"
    OBVIOUS
  <2>1. CASE DeleteRequest
    BY <2>1 DEF DeleteRequest, UpdateInv, Progress
  <2>2. CASE Boot \/ PowerCut \/ NoCapsule \/ UserWrite \/ SetRequest \/ ResetSystem
    BY <2>2 DEF Boot, PowerCut, NoCapsule, UserWrite, SetRequest, ResetSystem, media
  <2>3. CASE FmpSetImageRefused \/ (\E i \in Images \ {Foreign} : FmpSetImage(i))
               \/ HandleSpiNorInstallRequest
    BY <2>3 DEF FmpSetImageRefused, FmpSetImage, HandleSpiNorInstallRequest, Begin, media
  <2>4. CASE EmmcStep \/ NorStep \/ InstallSelect \/ InstallRead
    BY <2>4 DEF EmmcStep, SelectBoot, WriteBlocks, ReadBack, HandBack, NorStep, NorErase,
                NorEraseChunk, NorProgramChunk, NorReadChunk, NorAbort, NorStays,
                InstallSelect, InstallRead, media
  <2>5. CASE Flip \/ SaveLastAttempt \/ InstallReturns
    BY <2>5 DEF Flip, SaveLastAttempt, InstallReturns, media
  <2> QED BY <2>1, <2>2, <2>3, <2>4, <2>5 DEF Next, CallStep, EndStep
<1> QED BY <1>1, UpdateInvariant, PTL DEF Spec, RequestKept

-----------------------------------------------------------------------------
(* The NOR is whole or rejected: on parts whose erases do not lie, without    *)
(* installs from boot0, which copy what they find there.                      *)

Whole ==
  /\ NorNeverHalfWritten
  /\ kind = "capsule" /\ request # "now" /\ pc \notin {"installSelect", "installRead"}
  /\ pc \in Working \ {"save"} => \E i \in Images : image = Full(i)
  /\ pc \in Chunking /\ chunk # 0 => ~Bl2Valid(flash["nor"])

\* A NOR whose chunk 0 is torn or blank is rejected, whatever follows it.
LEMMA Rejected ==
  ASSUME TypeOK, NEW v \in {"torn", "blank"}, Put("nor", 0, v)
  PROVE  ~Bl2Valid(flash'["nor"])
<1>1. v \in Content
  BY DEF Content
<1>2. flash'["nor"][0] = v
  BY <1>1, PutType, ZeroChunk DEF TypeOK, Copies
<1> QED BY <1>2, ConstantsHold DEF Constants, ImagesAssumption, Bl2Valid

\* A write behind a rejected BL2 keeps the copy rejected.
LEMMA StaysRejected ==
  ASSUME TypeOK, ~Bl2Valid(flash["nor"]), NEW k \in Chunk \ {0}, NEW v \in Content,
         Put("nor", k, v)
  PROVE  ~Bl2Valid(flash'["nor"])
BY PutType, ZeroChunk DEF TypeOK, Copies, Bl2Valid

\* With the other chunks in place, BL2 completes the copy.
LEMMA Completed ==
  ASSUME TypeOK, Progress, pc \in Chunking, chunk = 0, NEW i \in Images, image = Full(i),
         Put("nor", 0, i)
  PROVE  Complete(flash'["nor"])
<1>1. \A k \in Chunk : flash'["nor"][k] = i
  <2>1. i \in Content
    BY DEF Content
  <2>2. flash'["nor"][0] = i
    BY <2>1, PutType, ZeroChunk DEF TypeOK, Copies
  <2>3. \A k \in Verified(chunk) : flash'["nor"][k] = image[k]
    BY <2>1, VerifiedStay
  <2> QED BY <2>2, <2>3, ZeroChunk DEF Verified, Chunk, Full
<1>2. flash'["nor"] \in Copy
  BY PutType, ZeroChunk DEF TypeOK, Copies, Content
<1>3. flash'["nor"] = Full(i)
  BY <1>1, <1>2 DEF Full, Copy
<1> QED BY <1>3 DEF Complete

LEMMA WholeNext ==
  ASSUME ~SilentErase, "now" \notin Requests, UpdateInv, Whole, [Next]_vars
  PROVE  Whole'
<1> USE DEF UpdateInv
<1>0. /\ "torn" \in Content /\ "blank" \in Content /\ "nor" \in Copies
      /\ flash["nor"] \in Copy
  BY DEF Content, Copies, TypeOK
<1>1. CASE UNCHANGED vars
  BY <1>1 DEF Whole, NorNeverHalfWritten, vars, media, local
<1>2. CASE Boot \/ NoCapsule \/ ResetSystem
  BY <1>2 DEF Boot, NoCapsule, ResetSystem, Whole, NorNeverHalfWritten, media, local,
              Working, Chunking
<1>3. CASE PowerCut
  <2>1. NorNeverHalfWritten'
    <3>1. CASE UNCHANGED flash
      BY <3>1 DEF Whole, NorNeverHalfWritten
    <3>2. ASSUME NEW x \in InFlight, Put(x[1], x[2], "torn") PROVE NorNeverHalfWritten'
      <4>1. CASE x[1] # "nor"
        <5>1. x[2] \in Chunk
          BY ZeroChunk DEF InFlight, TypeOK
        <5>2. flash'["nor"] = flash["nor"]
          BY <1>0, <3>2, <4>1, <5>1 DEF Put, TypeOK
        <5> QED BY <5>2 DEF Whole, NorNeverHalfWritten
      <4>2. CASE x[1] = "nor" /\ x[2] = 0
        BY <3>2, <4>2, Rejected DEF NorNeverHalfWritten
      <4>3. CASE x[1] = "nor" /\ x[2] # 0
        <5>1. pc \in Chunking /\ x[2] = chunk
          BY <4>3 DEF InFlight, Chunking, TypeOK
        <5>2. ~Bl2Valid(flash["nor"]) /\ chunk \in Chunk \ {0}
          BY <4>3, <5>1 DEF Whole, TypeOK
        <5> QED BY <1>0, <3>2, <4>3, <5>1, <5>2, StaysRejected DEF NorNeverHalfWritten
      <4> QED BY <4>1, <4>2, <4>3
    <3> QED BY <1>3, <3>1, <3>2 DEF PowerCut
  <2> QED BY <1>3, <2>1 DEF PowerCut, Whole, local, Working, Chunking
<1>4. CASE UserWrite
  <2>1. access # "nor"
    BY DEF TypeOK
  <2>2. flash'["nor"] = flash["nor"]
    BY <1>0, <1>4, <2>1, PutType DEF UserWrite, TypeOK
  <2> QED BY <1>4, <2>2 DEF UserWrite, Whole, NorNeverHalfWritten, local, Working, Chunking
<1>5. CASE SetRequest
  BY <1>5 DEF SetRequest, Whole, NorNeverHalfWritten, local, Working, Chunking
<1>6. ASSUME NEW i \in Images \ {Foreign}, FmpSetImage(i) PROVE Whole'
  BY <1>6 DEF FmpSetImage, Begin, Whole, NorNeverHalfWritten, media, Working, Chunking
<1>7. CASE FmpSetImageRefused
  BY <1>7 DEF FmpSetImageRefused, Begin, Whole, NorNeverHalfWritten, media, Working, Chunking
<1>8. CASE HandleSpiNorInstallRequest
  BY <1>8 DEF HandleSpiNorInstallRequest, Whole, NorNeverHalfWritten, media, local, Working,
              Chunking
<1>9. CASE SelectBoot
  BY <1>9 DEF SelectBoot, Switch, GiveUp, Whole, NorNeverHalfWritten, media, Working, Chunking
<1>10. CASE WriteBlocks
  <2>1. flash'["nor"] = flash["nor"]
    BY <1>0, <1>10, WriteBlocksFrame DEF TypeOK
  <2> QED
    BY <1>10, <2>1 DEF WriteBlocks, GiveUp, Whole, NorNeverHalfWritten, Working, Chunking
<1>11. CASE ReadBack
  BY <1>11 DEF ReadBack, GiveUp, Whole, NorNeverHalfWritten, media, Working, Chunking
<1>12. CASE HandBack
  BY <1>12 DEF HandBack, AfterHandBack, Whole, NorNeverHalfWritten, media, local, Working,
               Chunking
<1>13. CASE NorErase
  <2>1. NorNeverHalfWritten' /\ (pc' = "chunkErase" => ~Bl2Valid(flash'["nor"]))
    <3>1. CASE Put("nor", 0, "blank") /\ pc' = "chunkErase"
      BY <3>1, Rejected DEF NorNeverHalfWritten
    <3>2. ASSUME NEW v \in Leftovers(0), Put("nor", 0, v), pc' = "save"
          PROVE  NorNeverHalfWritten'
      <4>1. CASE v \in {"torn", "blank"}
        BY <3>2, <4>1, Rejected DEF NorNeverHalfWritten
      <4>2. CASE v = flash["nor"][0]
        BY <1>0, <3>2, <4>2 DEF Put, Copy, TypeOK, Whole, NorNeverHalfWritten
      <4> QED BY <4>1, <4>2 DEF Leftovers
    <3> QED BY <1>13, <3>1, <3>2 DEF NorErase
  <2> QED
    BY <1>13, <2>1 DEF NorErase, NorStays, Whole, Working, Chunking
<1>14. CASE NorEraseChunk
  <2>0. pc \in Chunking
    BY <1>14 DEF NorEraseChunk, Chunking
  <2>1. PICK v \in Leftovers(chunk) : Put("nor", chunk, v)
    BY <1>14 DEF NorEraseChunk, Leftovers
  <2>2. NorNeverHalfWritten' /\ (chunk # 0 => ~Bl2Valid(flash'["nor"]))
    <3>1. CASE chunk # 0
      <4>1. chunk \in Chunk \ {0} /\ v \in Content
        BY <1>0, <3>1 DEF TypeOK, Leftovers, Copy
      <4> QED BY <2>0, <2>1, <3>1, <4>1, StaysRejected DEF Whole, NorNeverHalfWritten
    <3>2. CASE chunk = 0 /\ v \in {"torn", "blank"}
      BY <2>1, <3>2, Rejected DEF NorNeverHalfWritten
    <3>3. CASE chunk = 0 /\ v = flash["nor"][0]
      BY <1>0, <2>1, <3>3 DEF Put, Copy, TypeOK, Whole, NorNeverHalfWritten
    <3> QED BY <3>1, <3>2, <3>3 DEF Leftovers
  <2> QED
    BY <1>14, <2>0, <2>2 DEF NorEraseChunk, NorStays, Retry, Whole, Working, Chunking
<1>15. CASE NorProgramChunk
  <2>0. pc \in Chunking
    BY <1>15 DEF NorProgramChunk, Chunking
  <2>1. PICK v \in {flash["nor"][chunk], "torn", image[chunk]} : Put("nor", chunk, v)
    BY <1>15 DEF NorProgramChunk, Programmed
  <2>2. NorNeverHalfWritten' /\ (chunk # 0 => ~Bl2Valid(flash'["nor"]))
    <3>1. CASE chunk # 0
      <4>1. chunk \in Chunk \ {0} /\ v \in Content
        BY <1>0, <3>1 DEF TypeOK, Copy
      <4> QED BY <2>0, <2>1, <3>1, <4>1, StaysRejected DEF Whole, NorNeverHalfWritten
    <3>2. CASE chunk = 0 /\ v = "torn"
      BY <2>1, <3>2, Rejected DEF NorNeverHalfWritten
    <3>3. CASE chunk = 0 /\ v = flash["nor"][0]
      BY <1>0, <2>1, <3>3 DEF Put, Copy, TypeOK, Whole, NorNeverHalfWritten
    <3>4. CASE chunk = 0 /\ v = image[0]
      <4>1. PICK i \in Images : image = Full(i)
        BY <2>0 DEF Whole, Working, Chunking
      <4>2. v = i
        BY <3>4, <4>1, ZeroChunk DEF Full
      <4> QED BY <2>0, <2>1, <3>4, <4>1, <4>2, Completed DEF NorNeverHalfWritten
    <3> QED BY <3>1, <3>2, <3>3, <3>4
  <2> QED
    BY <1>15, <2>0, <2>2 DEF NorProgramChunk, NorStays, Retry, Whole, Working, Chunking
<1>16. CASE NorReadChunk
  <2>0. pc \in Chunking
    BY <1>16 DEF NorReadChunk, Chunking
  <2>1. CASE chunk # 0
    BY <1>16, <2>0, <2>1
       DEF NorReadChunk, NorStays, Retry, Whole, NorNeverHalfWritten, Working, Chunking
  <2>2. CASE chunk = 0
    <3>1. NextChunk(chunk) = FirstChunk
      BY <2>2, ZeroChunk DEF NextChunk, FirstChunk
    <3> QED
      BY <1>16, <2>0, <2>2, <3>1
         DEF NorReadChunk, NorStays, Retry, Whole, NorNeverHalfWritten, Working, Chunking
  <2> QED BY <2>1, <2>2
<1>17. CASE NorAbort
  <2>1. PICK v \in Leftovers(0) : Put("nor", 0, v)
    BY <1>17 DEF NorAbort, Leftovers
  <2>2. CASE v \in {"torn", "blank"}
    BY <1>17, <2>1, <2>2, Rejected
       DEF NorAbort, NorStays, Whole, NorNeverHalfWritten, Working, Chunking
  <2>3. CASE v = flash["nor"][0]
    <3>1. flash' = flash
      BY <1>0, <2>1, <2>3 DEF Put, Copy, TypeOK
    <3> QED
      BY <1>17, <3>1 DEF NorAbort, NorStays, Whole, NorNeverHalfWritten, Working, Chunking
  <2> QED BY <2>1, <2>2, <2>3 DEF Leftovers
<1>18. CASE Flip \/ DeleteRequest
  BY <1>18 DEF Flip, Refused, DeleteRequest, Whole, NorNeverHalfWritten, local, Working,
               Chunking
<1>19. CASE SaveLastAttempt \/ InstallReturns
  BY <1>19 DEF SaveLastAttempt, InstallReturns, Whole, NorNeverHalfWritten, media, local,
               Working, Chunking
<1>20. CASE InstallSelect \/ InstallRead
  BY <1>20 DEF InstallSelect, InstallRead, Whole
<1> QED
  BY <1>1, <1>2, <1>3, <1>4, <1>5, <1>6, <1>7, <1>8, <1>9, <1>10, <1>11, <1>12,
     <1>13, <1>14, <1>15, <1>16, <1>17, <1>18, <1>19, <1>20
     DEF Next, CallStep, EmmcStep, NorStep, EndStep

\* WriteAndVerifyNor's promise for every number of chunks, images, faults, worn
\* chunks and power cuts.
THEOREM NorWhole ==
  ASSUME ~SilentErase, "now" \notin Requests
  PROVE  Spec => []NorNeverHalfWritten
<1>1. Init => Whole
  <2> SUFFICES ASSUME Init PROVE Whole
    OBVIOUS
  <2>1. \E i \in Images : flash["nor"] = Full(i)
    BY ConstantsHold DEF Init, Constants, StartAssumption, Copies
  <2> QED BY <2>1 DEF Init, Whole, NorNeverHalfWritten, Complete, Working, Chunking
<1>2. UpdateInv /\ Whole /\ [Next]_vars => Whole'
  BY WholeNext
<1>3. Whole => NorNeverHalfWritten
  BY DEF Whole
<1> QED BY <1>1, <1>2, <1>3, UpdateInvariant, PTL DEF Spec

-----------------------------------------------------------------------------
(* What a call reports is what it leaves behind.  An install is left out: it  *)
(* may find boot0 torn, and a switch to boot0 that fails is not handed back.  *)

EmmcPhase == {"select", "write", "readback"}
NorPhase == Chunking \cup {"norErase", "abort", "flip", "delete"}
Refusals == {"INVALID_FORMAT", "NO_NOR", "NO_EMMC"}

\* Every call is a capsule's, with an image unless it was turned away.
CapsuleOnly ==
  /\ kind = "capsule" /\ request # "now" /\ pc \notin {"installSelect", "installRead"}
  /\ (pc \in Working /\ (pc = "save" => status \notin Refusals)) =>
       \E i \in Images \ {Foreign} : image = Full(i)

\* Past the boot partitions the switch back was made, or its failure noted.
Handed ==
  (pc \in NorPhase \cup {"save", "request", "idle", "capsules"} /\ access # "user")
    => handBackFailed

\* While the boot partitions are being written, one of them is as it was or
\* already holds the image, and the NOR is as it was.
Writing ==
  /\ pc \in EmmcPhase =>
       /\ status = "SUCCESS" /\ flash["nor"] = before.flash["nor"]
       /\ target = "boot0" => flash["boot1"] = before.flash["boot1"]
       /\ target = "boot1" => flash["boot0"] = image
  /\ pc \in {"write", "readback"} => access = target

HandingBack ==
  pc = "handback" =>
    /\ status \in {"SUCCESS", "BOOT0_FAILED", "BOOT1_FAILED"}
    /\ flash["nor"] = before.flash["nor"]
    /\ status = "BOOT0_FAILED" => flash["boot1"] = before.flash["boot1"]
    /\ status # "BOOT0_FAILED" => flash["boot0"] = image
    /\ status = "SUCCESS" => flash["boot1"] = image

\* The NOR is written over a verified rescue.
Rescued ==
  /\ pc \in NorPhase => flash["boot0"] = image /\ flash["boot1"] = image /\ WriteNor
  /\ pc = "abort" => status = "NOR_FAILED"

Stage == Writing /\ HandingBack /\ Rescued /\ StageWitness

\* A call that will not write the NOR was not booted from it: the BootROM does
\* not look at the NOR first, or rejects what it holds.
NorNotChosen ==
  (/\ pc \in EmmcPhase \cup {"capsules", "handback", "save"}
   /\ source # "nor" /\ ~(pc = "save" /\ norOptIn)) =>
     mcu = "emmc" \/ ~Bl2Valid(flash["nor"])

\* A promise is made at the end of a call and withdrawn when the next begins.
Promised == PromiseKept /\ (promised # Nothing => pc \notin Working)

HonestInv == CapsuleOnly /\ Handed /\ Stage /\ NorNotChosen /\ Promised

\* The NOR comes first exactly when the MCU says so and its BL2 validates.
LEMMA ChosenNor ==
  ASSUME NEW f \in [Copies -> Copy], Bl2Valid(f["nor"])
  PROVE  Chosen(f, "spi") = "nor"
<1> DEFINE valid == {c \in Copies : Bl2Valid(f[c])}
<1>1. "nor" \in valid /\ valid \subseteq {"nor", "boot0", "boot1"}
  BY DEF Copies
<1>2. \A c \in valid : (\A d \in valid : Rank("spi", c) <= Rank("spi", d)) <=> c = "nor"
  <2> HIDE DEF valid
  <2> QED BY <1>1 DEF Rank
<1> HIDE DEF valid
<1>3. Chosen(f, "spi") = CHOOSE c \in valid : \A d \in valid : Rank("spi", c) <= Rank("spi", d)
  BY <1>1 DEF Chosen, valid
<1>4. (CHOOSE c \in valid : \A d \in valid : Rank("spi", c) <= Rank("spi", d)) = "nor"
  BY <1>1, <1>2
<1> QED BY <1>3, <1>4

\* boot0 comes first when the NOR does not.
LEMMA ChosenBoot0 ==
  ASSUME NEW f \in [Copies -> Copy], NEW md \in {"spi", "emmc"}, Bl2Valid(f["boot0"]),
         md = "emmc" \/ ~Bl2Valid(f["nor"])
  PROVE  Chosen(f, md) = "boot0"
<1> DEFINE valid == {c \in Copies : Bl2Valid(f[c])}
<1>1. /\ "boot0" \in valid /\ valid \subseteq {"nor", "boot0", "boot1"}
      /\ md = "emmc" \/ "nor" \notin valid
  BY DEF Copies
<1>2. \A c \in valid : (\A d \in valid : Rank(md, c) <= Rank(md, d)) <=> c = "boot0"
  <2> HIDE DEF valid
  <2> QED BY <1>1 DEF Rank
<1> HIDE DEF valid
<1>3. Chosen(f, md) = CHOOSE c \in valid : \A d \in valid : Rank(md, c) <= Rank(md, d)
  BY <1>1 DEF Chosen, valid
<1>4. (CHOOSE c \in valid : \A d \in valid : Rank(md, c) <= Rank(md, d)) = "boot0"
  BY <1>1, <1>2
<1> QED BY <1>3, <1>4

\* An image of this firmware validates.
LEMMA FullBoots == ASSUME NEW i \in Images PROVE Bl2Valid(Full(i)) /\ Complete(Full(i))
BY ZeroChunk DEF Bl2Valid, Full, Complete

\* No step of a run without installs leaves the capsule path.
LEMMA CapsuleOnlyNext ==
  ASSUME "now" \notin Requests, TypeOK, CapsuleOnly, [Next]_vars
  PROVE  CapsuleOnly'
<1> USE DEF CapsuleOnly, Working, Refusals
<1>1. CASE UNCHANGED vars
  BY <1>1 DEF vars, media, local
<1>2. CASE Boot \/ PowerCut \/ NoCapsule \/ UserWrite \/ SetRequest \/ ResetSystem
  BY <1>2 DEF Boot, PowerCut, NoCapsule, UserWrite, SetRequest, ResetSystem, media, local
<1>3. ASSUME NEW i \in Images \ {Foreign}, FmpSetImage(i) PROVE CapsuleOnly'
  BY <1>3 DEF FmpSetImage, Begin, media
<1>4. CASE FmpSetImageRefused
  BY <1>4 DEF FmpSetImageRefused, Begin, media
<1>5. CASE HandleSpiNorInstallRequest
  BY <1>5 DEF HandleSpiNorInstallRequest, media, local
<1>6. CASE SelectBoot \/ WriteBlocks \/ ReadBack
  BY <1>6 DEF SelectBoot, Switch, WriteBlocks, ReadBack, GiveUp, media
<1>7. CASE HandBack
  BY <1>7 DEF HandBack, AfterHandBack, media, local
<1>8. CASE NorStep
  BY <1>8 DEF NorStep, NorErase, NorEraseChunk, NorProgramChunk, NorReadChunk, NorAbort,
              NorStays, Retry
<1>9. CASE Flip \/ DeleteRequest
  BY <1>9 DEF Flip, Refused, DeleteRequest, local
<1>10. CASE SaveLastAttempt \/ InstallReturns
  BY <1>10 DEF SaveLastAttempt, InstallReturns, media, local
<1>11. CASE InstallSelect \/ InstallRead
  BY <1>11 DEF InstallSelect, InstallRead
<1> QED
  BY <1>1, <1>2, <1>3, <1>4, <1>5, <1>6, <1>7, <1>8, <1>9, <1>10, <1>11
     DEF Next, CallStep, EmmcStep, EndStep

LEMMA HandedNext ==
  ASSUME TypeOK, CapsuleOnly, Handed, [Next]_vars
  PROVE  Handed'
<1> USE DEF Handed, NorPhase, Chunking
<1>1. CASE UNCHANGED vars
  BY <1>1 DEF vars, history
<1>2. CASE Boot \/ PowerCut \/ NoCapsule \/ UserWrite \/ SetRequest \/ ResetSystem
  BY <1>2 DEF Boot, PowerCut, NoCapsule, UserWrite, SetRequest, ResetSystem, history
<1>3. CASE FmpSetImageRefused \/ \E i \in Images \ {Foreign} : FmpSetImage(i)
  BY <1>3 DEF FmpSetImageRefused, FmpSetImage, Begin
<1>4. CASE HandleSpiNorInstallRequest
  BY <1>4 DEF HandleSpiNorInstallRequest, CapsuleOnly, history
<1>5. CASE SelectBoot \/ WriteBlocks \/ ReadBack
  BY <1>5 DEF SelectBoot, Switch, WriteBlocks, ReadBack, GiveUp
<1>6. CASE HandBack
  BY <1>6 DEF HandBack, Switch, AfterHandBack
<1>7. CASE NorStep
  BY <1>7 DEF NorStep, NorErase, NorEraseChunk, NorProgramChunk, NorReadChunk, NorAbort,
              NorStays, Retry, history
<1>8. CASE EndStep
  BY <1>8 DEF EndStep, Flip, Refused, DeleteRequest, SaveLastAttempt, InstallReturns,
              history
<1>9. CASE InstallSelect \/ InstallRead
  BY <1>9 DEF InstallSelect, InstallRead, CapsuleOnly
<1> QED
  BY <1>1, <1>2, <1>3, <1>4, <1>5, <1>6, <1>7, <1>8, <1>9
     DEF Next, CallStep, EmmcStep

\* A step that ends away from the call's own points has no stage to account for.
LEMMA OutsideStages == ASSUME pc' \in Points PROVE Stage'
BY DEF Stage, Writing, HandingBack, Rescued, StageWitness, EmmcPhase, NorPhase, Chunking,
       Points

LEMMA StageNext ==
  ASSUME TypeOK, Progress, CapsuleOnly, Stage, [Next]_vars
  PROVE  Stage'
<1> USE DEF Stage, Writing, HandingBack, Rescued, StageWitness
<1>0. "nor" \in Copies /\ "boot0" \in Copies /\ "boot1" \in Copies
  BY DEF Copies
<1>1. CASE UNCHANGED vars
  BY <1>1 DEF vars, media, local, history, WriteNor
<1>2. CASE Boot \/ PowerCut \/ NoCapsule \/ UserWrite \/ SetRequest \/ ResetSystem
           \/ SaveLastAttempt \/ InstallReturns
  <2>1. pc' \in Points
    BY <1>2 DEF Boot, NoCapsule, UserWrite, SetRequest, ResetSystem, PowerCut,
                SaveLastAttempt, InstallReturns, Points
  <2> QED BY <2>1, OutsideStages
<1>3. ASSUME NEW i \in Images \ {Foreign}, FmpSetImage(i) PROVE Stage'
  BY <1>3 DEF FmpSetImage, Begin, Snapshot, media, EmmcPhase, NorPhase, Chunking
<1>4. CASE FmpSetImageRefused
  <2>1. /\ pc' = "save" /\ flash' = flash /\ before'.flash = flash
        /\ status' \in Refusals
    BY <1>4 DEF FmpSetImageRefused, Begin, Snapshot, media, Refusals
  <2> QED BY <2>1 DEF EmmcPhase, NorPhase, Chunking, Refusals
<1>5. CASE HandleSpiNorInstallRequest
  <2>1. pc' \in Points
    BY <1>5 DEF HandleSpiNorInstallRequest, CapsuleOnly, Points
  <2> QED BY <2>1, OutsideStages
<1>6. CASE SelectBoot
  <2>1. flash' = flash /\ image' = image /\ before' = before /\ target' = target
    BY <1>6 DEF SelectBoot, media, history
  <2>2. \/ pc' = "write" /\ access' = target /\ status' = status
        \/ pc' = "handback" /\ status' = Failed(target)
    BY <1>6 DEF SelectBoot, Switch, GiveUp
  <2> QED
    BY <1>6, <2>1, <2>2 DEF SelectBoot, Failed, EmmcPhase, NorPhase, Chunking, TypeOK
<1>7. CASE WriteBlocks
  <2>1. /\ image' = image /\ before' = before /\ target' = target /\ access' = access
        /\ access = target
    BY <1>7 DEF WriteBlocks, history
  <2>2. /\ flash'["nor"] = flash["nor"]
        /\ target = "boot0" => flash'["boot1"] = flash["boot1"]
        /\ target = "boot1" => flash'["boot0"] = flash["boot0"]
    BY <1>0, <1>7, <2>1, WriteBlocksFrame DEF TypeOK
  <2>3. \/ pc' \in {"write", "readback"} /\ status' = status
        \/ pc' = "handback" /\ status' = Failed(target)
    BY <1>7 DEF WriteBlocks, GiveUp
  <2>4. pc = "write" /\ target \in {"boot0", "boot1"}
    BY <1>7 DEF WriteBlocks, TypeOK
  <2> QED
    BY <2>1, <2>2, <2>3, <2>4 DEF Failed, EmmcPhase, NorPhase, Chunking
<1>8. CASE ReadBack
  <2>1. /\ flash' = flash /\ image' = image /\ before' = before /\ access' = access
        /\ access = target /\ pc = "readback" /\ target \in {"boot0", "boot1"}
    BY <1>8 DEF ReadBack, history, media, TypeOK
  <2>2. \/ /\ Matches /\ status' = status
           /\ \/ target = "boot0" /\ target' = "boot1" /\ pc' = "select"
              \/ target = "boot1" /\ pc' = "handback"
        \/ pc' = "handback" /\ status' = Failed(target) /\ target' = target
    BY <1>8, <2>1 DEF ReadBack, GiveUp
  <2> QED
    BY <2>1, <2>2 DEF Matches, Failed, EmmcPhase, NorPhase, Chunking
<1>9. CASE HandBack
  <2>1. /\ pc' = AfterHandBack /\ flash' = flash /\ image' = image /\ before' = before
        /\ status' = status /\ kind' = kind /\ norOptIn' = norOptIn /\ source' = source
        /\ pc = "handback" /\ kind = "capsule"
    BY <1>9 DEF HandBack, media, local, CapsuleOnly
  <2>2. \/ pc' = "norErase" /\ status = "SUCCESS" /\ WriteNor
        \/ pc' = "save" /\ ~(status = "SUCCESS" /\ WriteNor)
    BY <2>1 DEF AfterHandBack
  <2> QED
    BY <2>1, <2>2 DEF WriteNor, EmmcPhase, NorPhase, Chunking
<1>10. CASE NorStep
  <2>1. /\ flash'["boot0"] = flash["boot0"] /\ flash'["boot1"] = flash["boot1"]
        /\ image' = image /\ before' = before /\ kind' = kind
        /\ norOptIn' = norOptIn /\ source' = source /\ pc \in NorPhase
    BY <1>10, NorStepFrame
       DEF NorStep, NorErase, NorEraseChunk, NorProgramChunk, NorReadChunk, NorAbort,
           NorStays, history, NorPhase, Chunking
  <2>2. WriteNor' /\ flash'["boot0"] = image' /\ flash'["boot1"] = image'
    BY <2>1 DEF WriteNor
  <2>3. \/ pc' \in Chunking \cup {"flip"}
        \/ pc' = "abort" /\ status' = "NOR_FAILED"
        \/ pc' = "save" /\ status' = "NOR_FAILED"
        \/ pc' = "save" /\ status' = "SUCCESS" /\ flash'["nor"] = image'
    <3>1. CASE NorErase \/ NorEraseChunk \/ NorProgramChunk
      BY <3>1 DEF NorErase, NorEraseChunk, NorProgramChunk, Retry, Chunking
    <3>2. CASE NorReadChunk
      <4>0. pc \in Chunking /\ status = "SUCCESS" /\ UNCHANGED flash
        BY <3>2 DEF NorReadChunk, Progress, Chunking
      <4>1. CASE Retry
        BY <4>1 DEF Retry, Chunking
      <4>2. CASE ~Retry /\ NextChunk(chunk) # FirstChunk
        BY <3>2, <4>2 DEF NorReadChunk, Chunking
      <4>3. CASE ~Retry /\ NextChunk(chunk) = FirstChunk
        <5>1. chunk = 0 /\ ChunkMatches /\ UNCHANGED status
          BY <3>2, <4>3, ZeroChunk DEF NorReadChunk, NextChunk, FirstChunk, TypeOK, Chunk
        <5>2. flash["nor"] = image
          BY <4>0, <5>1, LastRead
        <5> QED BY <2>1, <3>2, <4>0, <4>3, <5>1, <5>2 DEF NorReadChunk
      <4> QED BY <4>1, <4>2, <4>3
    <3>3. CASE NorAbort
      BY <3>3 DEF NorAbort
    <3> QED BY <1>10, <3>1, <3>2, <3>3 DEF NorStep
  <2> QED
    BY <2>2, <2>3 DEF EmmcPhase, NorPhase, Chunking, Statuses
<1>11. CASE Flip \/ DeleteRequest
  <2>1. /\ flash' = flash /\ image' = image /\ before' = before
        /\ norOptIn' = norOptIn /\ source' = source
        /\ flash["nor"] = image /\ pc \in {"flip", "delete"} /\ status = "SUCCESS"
    BY <1>11 DEF Flip, DeleteRequest, local, history, Progress
  <2>2. \/ pc' = "delete" /\ status' = status
        \/ pc' = "save" /\ status' \in {status, "MCU_FLIP_FAILED"}
    BY <1>11 DEF Flip, Refused, DeleteRequest, local
  <2> QED
    BY <2>1, <2>2 DEF EmmcPhase, NorPhase, Chunking, WriteNor
<1>12. CASE InstallSelect \/ InstallRead
  BY <1>12 DEF InstallSelect, InstallRead, CapsuleOnly
<1> QED
  BY <1>1, <1>2, <1>3, <1>4, <1>5, <1>6, <1>7, <1>8, <1>9, <1>10, <1>11, <1>12
     DEF Next, CallStep, EmmcStep, EndStep

LEMMA NorNotChosenNext ==
  ASSUME TypeOK, CapsuleOnly, Stage, NorNotChosen, [Next]_vars
  PROVE  NorNotChosen'
<1> USE DEF NorNotChosen, EmmcPhase
<1>1. CASE UNCHANGED vars
  BY <1>1 DEF vars, media, local
<1>2. CASE Boot
  <2>1. flash' = flash /\ mcu' = mcu /\ flash \in [Copies -> Copy] /\ mcu \in {"spi", "emmc"}
    BY <1>2 DEF Boot, media, TypeOK
  <2>2. source' = Chosen(flash, mcu)
    BY <1>2 DEF Boot
  <2>3. (mcu = "spi" /\ Bl2Valid(flash["nor"])) => source' = "nor"
    BY <2>1, <2>2, ChosenNor
  <2> QED BY <2>1, <2>3
<1>3. CASE PowerCut \/ NoCapsule \/ UserWrite \/ SetRequest \/ ResetSystem
           \/ SaveLastAttempt \/ InstallReturns
  BY <1>3 DEF PowerCut, NoCapsule, UserWrite, SetRequest, ResetSystem, SaveLastAttempt,
              InstallReturns
<1>4. CASE FmpSetImageRefused \/ \E i \in Images \ {Foreign} : FmpSetImage(i)
  BY <1>4 DEF FmpSetImageRefused, FmpSetImage, Begin, media
<1>5. CASE HandleSpiNorInstallRequest
  BY <1>5 DEF HandleSpiNorInstallRequest, CapsuleOnly
<1>6. CASE SelectBoot \/ ReadBack
  BY <1>6 DEF SelectBoot, ReadBack, media
<1>7. CASE WriteBlocks
  <2>1. flash'["nor"] = flash["nor"]
    BY <1>7, WriteBlocksFrame DEF TypeOK, Copies
  <2> QED BY <1>7, <2>1 DEF WriteBlocks
<1>8. CASE HandBack
  BY <1>8 DEF HandBack, AfterHandBack, CapsuleOnly, WriteNor, media, local
<1>9. CASE NorStep \/ Flip \/ DeleteRequest
  <2>1. WriteNor
    BY <1>9 DEF NorStep, NorErase, NorEraseChunk, NorProgramChunk, NorReadChunk, NorAbort,
                Flip, DeleteRequest, Stage, Rescued, NorPhase, Chunking
  <2>2. WriteNor' /\ pc' \in NorPhase \cup {"save"}
    BY <1>9, <2>1
       DEF NorStep, NorErase, NorEraseChunk, NorProgramChunk, NorReadChunk, NorAbort,
           NorStays, Retry, Flip, Refused, DeleteRequest, local, WriteNor, NorPhase, Chunking
  <2> QED BY <2>2 DEF WriteNor, NorPhase, Chunking
<1>10. CASE InstallSelect \/ InstallRead
  BY <1>10 DEF InstallSelect, InstallRead, CapsuleOnly
<1> QED
  BY <1>1, <1>2, <1>3, <1>4, <1>5, <1>6, <1>7, <1>8, <1>9, <1>10
     DEF Next, CallStep, EmmcStep, EndStep

\* Wherever the BootROM looks, a call that succeeded left its image there.
LEMMA SuccessIsChosen ==
  ASSUME TypeOK, CapsuleOnly, Stage, NorNotChosen, pc = "save", status = "SUCCESS"
  PROVE  Chosen(flash, mcu) # "none" /\ flash[Chosen(flash, mcu)] = image
<1>1. /\ flash["boot0"] = image /\ (WriteNor => flash["nor"] = image)
      /\ flash \in [Copies -> Copy] /\ mcu \in {"spi", "emmc"}
  BY DEF Stage, StageWitness, CapsuleOnly, TypeOK
<1>2. Bl2Valid(image)
  BY FullBoots DEF CapsuleOnly, Working, Refusals
<1>3. CASE WriteNor /\ mcu = "spi"
  BY <1>1, <1>2, <1>3, ChosenNor
<1>4. CASE WriteNor /\ mcu = "emmc"
  BY <1>1, <1>2, <1>4, ChosenBoot0
<1>5. CASE ~WriteNor
  <2>1. mcu = "emmc" \/ ~Bl2Valid(flash["nor"])
    BY <1>5 DEF NorNotChosen, WriteNor
  <2> QED BY <1>1, <1>2, <2>1, ChosenBoot0
<1> QED BY <1>1, <1>3, <1>4, <1>5

LEMMA PromisedNext ==
  ASSUME TypeOK, CapsuleOnly, Stage, NorNotChosen, Promised, [Next]_vars
  PROVE  Promised'
<1> USE DEF Promised, PromiseKept
<1>1. CASE UNCHANGED vars
  BY <1>1 DEF vars, media, history
<1>2. CASE Boot \/ NoCapsule \/ SetRequest \/ ResetSystem
  BY <1>2 DEF Boot, NoCapsule, SetRequest, ResetSystem, media, history, Working
<1>3. CASE PowerCut
  <2>1. CASE promised = Nothing
    BY <1>3, <2>1 DEF PowerCut, history
  <2>2. CASE promised # Nothing
    <3>1. UNCHANGED flash
      BY <1>3, <2>2 DEF PowerCut, InFlight, Working
    <3> QED BY <1>3, <3>1 DEF PowerCut, history, Working
  <2> QED BY <2>1, <2>2
<1>4. CASE UserWrite
  BY <1>4 DEF UserWrite
<1>5. CASE FmpSetImageRefused \/ \E i \in Images \ {Foreign} : FmpSetImage(i)
  BY <1>5 DEF FmpSetImageRefused, FmpSetImage, Begin
<1>6. CASE HandleSpiNorInstallRequest
  BY <1>6 DEF HandleSpiNorInstallRequest, CapsuleOnly, media, history, Working
<1>7. CASE EmmcStep \/ NorStep \/ Flip \/ DeleteRequest \/ InstallReturns \/ InstallSelect
           \/ InstallRead
  <2>1. pc \in Working
    BY <1>7 DEF EmmcStep, SelectBoot, WriteBlocks, ReadBack, HandBack, NorStep, NorErase,
                NorEraseChunk, NorProgramChunk, NorReadChunk, NorAbort, Flip, DeleteRequest,
                InstallReturns, InstallSelect, InstallRead, Working
  <2>2. promised' = promised
    BY <1>7 DEF EmmcStep, SelectBoot, WriteBlocks, ReadBack, HandBack, NorStep, NorErase,
                NorEraseChunk, NorProgramChunk, NorReadChunk, NorAbort, NorStays, Flip,
                DeleteRequest, InstallReturns, InstallSelect, InstallRead, history
  <2> QED BY <2>1, <2>2
<1>8. CASE SaveLastAttempt
  <2>1. /\ UNCHANGED <<flash, mcu, image>> /\ pc' \in Points /\ pc = "save"
        /\ promised' = IF status = "SUCCESS" THEN image ELSE Nothing
    BY <1>8 DEF SaveLastAttempt, local, Points
  <2> QED BY <2>1, SuccessIsChosen DEF Points, Working
<1> QED
  BY <1>1, <1>2, <1>3, <1>4, <1>5, <1>6, <1>7, <1>8 DEF Next, CallStep, EndStep

LEMMA HonestInvariant ==
  ASSUME "now" \notin Requests
  PROVE  Spec => []HonestInv
<1>1. Init => HonestInv
  BY DEF Init, HonestInv, CapsuleOnly, Handed, Stage, Writing, HandingBack, Rescued,
         StageWitness, NorNotChosen, Promised, PromiseKept, EmmcPhase, NorPhase, Chunking,
         Working
<1>2. UpdateInv /\ HonestInv /\ [Next]_vars => HonestInv'
  BY CapsuleOnlyNext, HandedNext, StageNext, NorNotChosenNext, PromisedNext
     DEF HonestInv, UpdateInv
<1> QED BY <1>1, <1>2, UpdateInvariant, PTL DEF Spec

\* For every number of chunks, images, calls, faults and power cuts, with worn
\* and lying parts: a saved SUCCESS is what the BootROM will start, every other
\* status tells the truth about every copy, and past the boot partitions the
\* card addresses the user area or the failure to switch back was noted.
THEOREM HonestUpdate ==
  ASSUME "now" \notin Requests
  PROVE  Spec => []UpdateHonest
<1>1. HonestInv => UpdateHonest
  BY DEF HonestInv, Promised, Stage, Handed, UpdateHonest, HandedBack, NorPhase, Chunking
<1> QED BY <1>1, HonestInvariant, PTL

-----------------------------------------------------------------------------
(* The board boots.  On parts whose erases do not lie, a board that boots     *)
(* from a whole NOR goes on booting: from the NOR until its BL2 is erased,    *)
(* from the verified boot0 from then on.                                      *)

\* What the board started with, or was turned to, is this firmware.
NorNotForeign == mcu = "spi" => flash["nor"] # Full(Foreign)

OnNor == before.mcu = "spi" /\ Complete(before.flash["nor"])

Primary ==
  OnNor => /\ mcu = "spi" /\ pc # "stuck"
           /\ \/ Bl2Valid(flash["nor"])
              \/ \E i \in Images \ {Foreign} : flash["boot0"] = Full(i)

BootInv == Whole /\ NorNotForeign /\ Primary /\ OneGoodRescue

\* What a NOR step may put where: nothing, a remnant, or the image's chunk.
LEMMA NorStepPuts ==
  ASSUME NorStep
  PROVE  \/ UNCHANGED flash
         \/ \E k \in {0, chunk} :
              \E v \in {flash["nor"][k], "torn", "blank", image[k]} : Put("nor", k, v)
BY DEF NorStep, NorErase, NorEraseChunk, NorProgramChunk, NorReadChunk, NorAbort,
       Leftovers, Programmed

\* A copy that differs from an image in one chunk is not that image.
LEMMA FullDiffers ==
  ASSUME NEW c \in Copy, NEW i, NEW k \in Chunk, c[k] # i
  PROVE  c # Full(i)
BY DEF Full, Copy

LEMMA NorNotForeignNext ==
  ASSUME TypeOK, Progress, CapsuleOnly, Stage, NorNotForeign, [Next]_vars
  PROVE  NorNotForeign'
<1> USE DEF NorNotForeign
<1>0. /\ "nor" \in Copies /\ flash["nor"] \in Copy /\ chunk \in Chunk /\ 0 \in Chunk
      /\ Foreign \in Images
  BY ZeroChunk, ConstantsHold DEF TypeOK, Copies, Constants, StartAssumption
<1>1. CASE UNCHANGED vars
  BY <1>1 DEF vars, media
<1>2. CASE Boot \/ NoCapsule \/ SetRequest \/ ResetSystem \/ SelectBoot \/ ReadBack
           \/ HandBack \/ DeleteRequest \/ SaveLastAttempt \/ InstallReturns
           \/ InstallSelect \/ InstallRead
  BY <1>2 DEF Boot, NoCapsule, SetRequest, ResetSystem, SelectBoot, ReadBack, HandBack,
              DeleteRequest, SaveLastAttempt, InstallReturns, InstallSelect, InstallRead,
              media
<1>3. CASE FmpSetImageRefused \/ (\E i \in Images \ {Foreign} : FmpSetImage(i))
           \/ HandleSpiNorInstallRequest
  BY <1>3 DEF FmpSetImageRefused, FmpSetImage, HandleSpiNorInstallRequest, Begin, media
<1>4. CASE UserWrite
  <2>1. flash'["nor"] = flash["nor"]
    BY <1>0, <1>4, OtherCopies DEF UserWrite, TypeOK
  <2> QED BY <1>4, <2>1 DEF UserWrite
<1>5. CASE WriteBlocks
  <2>1. flash'["nor"] = flash["nor"]
    BY <1>0, <1>5, WriteBlocksFrame DEF TypeOK
  <2> QED BY <1>5, <2>1 DEF WriteBlocks
<1>6. CASE PowerCut
  <2>1. mcu' = mcu /\ (UNCHANGED flash \/ \E x \in InFlight : Put(x[1], x[2], "torn"))
    BY <1>6 DEF PowerCut
  <2>2. ASSUME NEW x \in InFlight, Put(x[1], x[2], "torn")
        PROVE  flash'["nor"] = flash["nor"] \/ flash'["nor"] # Full(Foreign)
    <3>1. x[2] \in Chunk
      BY <1>0 DEF InFlight
    <3>2. CASE x[1] # "nor"
      BY <1>0, <2>2, <3>2, OtherCopies
    <3>3. CASE x[1] = "nor"
      <4>1. flash'["nor"] \in Copy /\ flash'["nor"][x[2]] = "torn"
        BY <1>0, <2>2, <3>1, <3>3, PutType DEF TypeOK, Content
      <4>2. "torn" # Foreign
        BY <1>0, ConstantsHold DEF Constants, ImagesAssumption
      <4> QED BY <3>1, <4>1, <4>2, FullDiffers
    <3> QED BY <3>2, <3>3
  <2> QED BY <2>1, <2>2
<1>7. CASE NorStep
  <2>0. mcu' = mcu
    BY <1>7 DEF NorStep, NorErase, NorEraseChunk, NorProgramChunk, NorReadChunk, NorAbort,
                NorStays
  <2>1. PICK i \in Images \ {Foreign} : image = Full(i)
    BY <1>7 DEF NorStep, NorErase, NorEraseChunk, NorProgramChunk, NorReadChunk, NorAbort,
                CapsuleOnly, Working
  <2>2. CASE UNCHANGED flash
    BY <2>0, <2>2
  <2>3. ASSUME NEW k \in {0, chunk}, Put("nor", k, flash["nor"][k])
        PROVE  flash'["nor"] = flash["nor"]
    BY <1>0, <2>3 DEF Put, Copy, TypeOK
  <2>4. ASSUME NEW k \in {0, chunk}, NEW v \in {"torn", "blank", image[k]}, Put("nor", k, v)
        PROVE  flash'["nor"] # Full(Foreign)
    <3>1. k \in Chunk /\ image[k] = i
      BY <1>0, <2>1 DEF Full
    <3>2. v \in Content /\ v # Foreign
      BY <1>0, <3>1, ConstantsHold DEF Constants, ImagesAssumption, Content
    <3>3. flash'["nor"] \in Copy /\ flash'["nor"][k] = v
      BY <1>0, <2>4, <3>1, <3>2, PutType DEF TypeOK
    <3> QED BY <3>1, <3>2, <3>3, FullDiffers
  <2> QED BY <1>7, <2>0, <2>2, <2>3, <2>4, NorStepPuts
<1>8. CASE Flip
  <2>1. flash' = flash /\ flash["nor"] = image
    BY <1>8 DEF Flip, Progress
  <2>2. PICK i \in Images \ {Foreign} : image = Full(i)
    BY <1>8 DEF Flip, CapsuleOnly, Working
  <2>3. image # Full(Foreign)
    BY <1>0, <2>1, <2>2, FullDiffers DEF Full
  <2> QED BY <2>1, <2>3
<1> QED
  BY <1>1, <1>2, <1>3, <1>4, <1>5, <1>6, <1>7, <1>8 DEF Next, CallStep, EmmcStep, EndStep

\* A whole copy has a valid BL2.
LEMMA CompleteValid ==
  ASSUME NEW c, Complete(c) PROVE Bl2Valid(c)
<1>1. PICK i \in Images : c = Full(i)
  BY DEF Complete
<1> QED BY <1>1, FullBoots

LEMMA PrimaryNext ==
  ASSUME TypeOK, CapsuleOnly, Stage, NorNeverHalfWritten, NorNotForeign, Primary, [Next]_vars
  PROVE  Primary'
<1> USE DEF Primary, OnNor
<1>0. /\ "nor" \in Copies /\ "boot0" \in Copies /\ flash \in [Copies -> Copy]
      /\ mcu \in {"spi", "emmc"} /\ 0 \in Chunk
  BY ZeroChunk DEF TypeOK, Copies
<1>1. CASE UNCHANGED vars
  BY <1>1 DEF vars, media, history
<1>2. CASE Boot
  <2>1. flash' = flash /\ mcu' = mcu /\ before' = before
    BY <1>2 DEF Boot, media
  <2>2. CASE ~OnNor
    BY <2>1, <2>2
  <2>3. CASE OnNor /\ Bl2Valid(flash["nor"])
    <3>1. Chosen(flash, mcu) = "nor" /\ Complete(flash["nor"]) /\ flash["nor"] # Full(Foreign)
      BY <1>0, <2>3, ChosenNor DEF NorNeverHalfWritten, NorNotForeign
    <3>2. pc' = "capsules"
      BY <1>2, <3>1 DEF Boot, Boots
    <3> QED BY <2>1, <2>3, <3>2
  <2>4. CASE OnNor /\ ~Bl2Valid(flash["nor"])
    <3>1. PICK i \in Images \ {Foreign} : flash["boot0"] = Full(i)
      BY <2>4
    <3>2. Chosen(flash, mcu) = "boot0" /\ Complete(flash["boot0"])
      BY <1>0, <2>4, <3>1, FullBoots, ChosenBoot0
    <3>3. flash["boot0"] # Full(Foreign)
      BY <1>0, <3>1, FullDiffers DEF Full
    <3>4. pc' = "capsules"
      BY <1>2, <3>2, <3>3 DEF Boot, Boots
    <3> QED BY <2>1, <2>4, <3>4
  <2> QED BY <2>2, <2>3, <2>4
<1>3. CASE NoCapsule \/ SetRequest \/ ResetSystem \/ SelectBoot \/ ReadBack \/ HandBack
           \/ DeleteRequest \/ SaveLastAttempt \/ InstallReturns \/ InstallSelect
           \/ InstallRead
  <2>1. UNCHANGED <<flash, mcu, before>>
    BY <1>3 DEF NoCapsule, SetRequest, ResetSystem, SelectBoot, ReadBack, HandBack,
                DeleteRequest, SaveLastAttempt, InstallReturns, InstallSelect, InstallRead,
                media, history
  <2>2. pc' # "stuck"  \/ (pc = "stuck" /\ pc' = "stuck")
    BY <1>3 DEF NoCapsule, SetRequest, ResetSystem, SelectBoot, ReadBack, HandBack,
                AfterHandBack, DeleteRequest, SaveLastAttempt, InstallReturns,
                InstallSelect, InstallRead, GiveUp, Switch
  <2> QED BY <2>1, <2>2
<1>4. CASE FmpSetImageRefused \/ \E i \in Images \ {Foreign} : FmpSetImage(i)
  <2>1. /\ UNCHANGED <<flash, mcu>> /\ pc' # "stuck"
        /\ before' = [flash |-> flash, mcu |-> mcu]
    BY <1>4 DEF FmpSetImageRefused, FmpSetImage, Begin, Snapshot, media
  <2> QED BY <2>1, CompleteValid
<1>5. CASE HandleSpiNorInstallRequest
  BY <1>5 DEF HandleSpiNorInstallRequest, CapsuleOnly, media, history
<1>6. CASE UserWrite
  <2>1. UNCHANGED mcu /\ pc' # "stuck" /\ before' = [flash |-> flash', mcu |-> mcu]
    BY <1>6 DEF UserWrite
  <2> QED BY <2>1, CompleteValid
<1>7. CASE WriteBlocks
  <2>1. flash'["nor"] = flash["nor"] /\ UNCHANGED <<mcu, before>> /\ pc' # "stuck"
    BY <1>0, <1>7, WriteBlocksFrame DEF TypeOK, WriteBlocks, GiveUp, history
  <2>2. flash["nor"] = before.flash["nor"]
    BY <1>7 DEF WriteBlocks, Stage, Writing, EmmcPhase
  <2> QED BY <2>1, <2>2, CompleteValid
<1>8. CASE NorStep
  <2>1. /\ UNCHANGED <<mcu, before>> /\ pc' # "stuck" /\ pc \in NorPhase
    BY <1>8 DEF NorStep, NorErase, NorEraseChunk, NorProgramChunk, NorReadChunk, NorAbort,
                NorStays, Retry, history, NorPhase, Chunking
  <2>2. flash'["boot0"] = image /\ \E i \in Images \ {Foreign} : image = Full(i)
    BY <1>8, <2>1, NorStepFrame
       DEF Stage, Rescued, CapsuleOnly, NorPhase, Chunking, Working
  <2> QED BY <2>1, <2>2
<1>9. CASE Flip
  BY <1>9 DEF Flip, Refused, history
<1>10. CASE PowerCut
  <2>1. UNCHANGED <<mcu, before>> /\ pc' # "stuck"
    BY <1>10 DEF PowerCut, history
  <2>2. CASE UNCHANGED flash
    BY <2>1, <2>2
  <2>3. ASSUME NEW x \in InFlight, Put(x[1], x[2], "torn") PROVE Primary'
    <3>1. CASE pc = "write"
      <4>1. flash'["nor"] = flash["nor"] /\ flash["nor"] = before.flash["nor"]
        BY <1>0, <2>3, <3>1, OtherCopies DEF InFlight, TypeOK, Stage, Writing, EmmcPhase
      <4> QED BY <2>1, <4>1, CompleteValid
    <3>2. CASE pc # "write"
      <4>1. pc \in NorPhase /\ x[1] = "nor"
        BY <2>3, <3>2 DEF InFlight, NorPhase, Chunking
      <4>2. flash'["boot0"] = image /\ \E i \in Images \ {Foreign} : image = Full(i)
        BY <1>0, <2>3, <4>1, OtherCopies
           DEF Stage, Rescued, CapsuleOnly, NorPhase, Chunking, Working
      <4> QED BY <2>1, <4>2
    <3> QED BY <3>1, <3>2
  <2> QED BY <1>10, <2>2, <2>3 DEF PowerCut
<1> QED
  BY <1>1, <1>2, <1>3, <1>4, <1>5, <1>6, <1>7, <1>8, <1>9, <1>10
     DEF Next, CallStep, EmmcStep, EndStep

LEMMA OneGoodRescueNext ==
  ASSUME TypeOK, CapsuleOnly, Stage, OneGoodRescue, [Next]_vars
  PROVE  OneGoodRescue'
<1> USE DEF OneGoodRescue
<1>0. "boot0" \in Copies /\ "boot1" \in Copies
  BY DEF Copies
<1>1. CASE UNCHANGED vars
  BY <1>1 DEF vars, media, history
<1>2. CASE Boot \/ NoCapsule \/ SetRequest \/ ResetSystem \/ SelectBoot \/ ReadBack
           \/ HandBack \/ Flip \/ DeleteRequest \/ SaveLastAttempt \/ InstallReturns
           \/ InstallSelect \/ InstallRead
  <2>1. UNCHANGED <<flash, before>>
    BY <1>2 DEF Boot, NoCapsule, SetRequest, ResetSystem, SelectBoot, ReadBack, HandBack,
                Flip, DeleteRequest, SaveLastAttempt, InstallReturns, InstallSelect,
                InstallRead, media, history
  <2> QED BY <2>1
<1>3. CASE FmpSetImageRefused \/ \E i \in Images \ {Foreign} : FmpSetImage(i)
  <2>1. UNCHANGED flash /\ before' = [flash |-> flash, mcu |-> mcu]
    BY <1>3 DEF FmpSetImageRefused, FmpSetImage, Begin, Snapshot, media
  <2> QED BY <2>1
<1>4. CASE HandleSpiNorInstallRequest
  BY <1>4 DEF HandleSpiNorInstallRequest, CapsuleOnly, media, history
<1>5. CASE UserWrite
  <2>1. before' = [flash |-> flash', mcu |-> mcu]
    BY <1>5 DEF UserWrite
  <2> QED BY <2>1
<1>6. ASSUME pc = "write", UNCHANGED before, access # "boot1" => flash'["boot1"] = flash["boot1"],
             access # "boot0" => flash'["boot0"] = flash["boot0"]
      PROVE  OneGoodRescue'
  <2>1. CASE target = "boot0"
    BY <1>6, <2>1 DEF Stage, Writing, EmmcPhase
  <2>2. CASE target = "boot1"
    <3>1. flash'["boot0"] = image
      BY <1>6, <2>2 DEF Stage, Writing, EmmcPhase
    <3>2. Complete(image)
      BY <1>6 DEF CapsuleOnly, Working, Complete
    <3> QED BY <3>1, <3>2
  <2> QED BY <2>1, <2>2 DEF TypeOK
<1>7. CASE WriteBlocks
  BY <1>0, <1>6, <1>7, WriteBlocksFrame DEF WriteBlocks, history
<1>8. CASE NorStep
  <2>1. UNCHANGED before
    BY <1>8 DEF NorStep, NorErase, NorEraseChunk, NorProgramChunk, NorReadChunk, NorAbort,
                NorStays, history
  <2> QED BY <1>8, <2>1, NorStepFrame
<1>9. CASE PowerCut
  <2>1. UNCHANGED before
    BY <1>9 DEF PowerCut, history
  <2>2. CASE UNCHANGED flash
    BY <2>1, <2>2
  <2>3. ASSUME NEW x \in InFlight, Put(x[1], x[2], "torn") PROVE OneGoodRescue'
    <3>1. \A d \in Copies : d # x[1] => flash'[d] = flash[d]
      BY <2>3, OtherCopies
    <3>2. CASE pc = "write"
      BY <1>0, <1>6, <2>1, <3>1, <3>2 DEF InFlight
    <3>3. CASE pc # "write"
      <4>1. x[1] = "nor"
        BY <2>3, <3>3 DEF InFlight
      <4> QED BY <1>0, <2>1, <3>1, <4>1
    <3> QED BY <3>2, <3>3
  <2> QED BY <1>9, <2>2, <2>3 DEF PowerCut
<1> QED
  BY <1>1, <1>2, <1>3, <1>4, <1>5, <1>7, <1>8, <1>9
     DEF Next, CallStep, EmmcStep, EndStep

\* For every number of chunks, images, calls, faults and power cuts, with worn
\* parts, on boards of either boot order: a board that boots from a whole NOR
\* never ends up in the BootROM's recovery loop, and an update that finds both
\* boot partitions whole leaves one whole at every moment.  Erases that lie
\* and installs from boot0 are excluded, and the board runs this firmware.
THEOREM BoardBoots ==
  ASSUME ~SilentErase, "now" \notin Requests, Running # Foreign
  PROVE  Spec => []BoardKeepsBooting
<1>1. Init => BootInv
  <2> SUFFICES ASSUME Init PROVE BootInv
    OBVIOUS
  <2>0. "nor" \in Copies /\ "boot0" \in Copies /\ 0 \in Chunk
        /\ Running \in Images /\ Full(Running) \in Copy /\ Foreign \in Images
    BY ConstantsHold, FullType, ZeroChunk DEF Copies, Constants, StartAssumption
  <2>1. /\ \E i \in Images : flash["nor"] = Full(i)
        /\ flash["boot0"] = Full(Running)
        /\ mcu = "spi" => flash["nor"] = Full(Running)
        /\ before = [flash |-> flash, mcu |-> mcu]
    BY <2>0 DEF Init, Snapshot
  <2>2. Whole
    BY <2>1 DEF Init, Whole, NorNeverHalfWritten, Complete, Working, Chunking
  <2>3. Full(Running) # Full(Foreign)
    BY <2>0, FullDiffers DEF Full
  <2>4. NorNotForeign
    BY <2>1, <2>3 DEF NorNotForeign
  <2>5. Primary
    BY <2>1, CompleteValid DEF Init, Primary, OnNor
  <2>6. OneGoodRescue
    BY <2>1 DEF OneGoodRescue
  <2> QED BY <2>2, <2>4, <2>5, <2>6 DEF BootInv
<1>2. UpdateInv /\ HonestInv /\ BootInv /\ [Next]_vars => BootInv'
  BY WholeNext, NorNotForeignNext, PrimaryNext, OneGoodRescueNext
     DEF BootInv, HonestInv, UpdateInv, Whole
<1>3. BootInv => BoardKeepsBooting
  BY DEF BootInv, Primary, OnNor, BoardKeepsBooting, PrimaryKeepsBooting
<1> QED BY <1>1, <1>2, <1>3, UpdateInvariant, HonestInvariant, PTL DEF Spec
=============================================================================
