------------------------------ MODULE SpifcNor ------------------------------
(***************************************************************************)
(* The SPI NOR primitives of MesonSpifcFvbDxe.c, one step per SPIFC        *)
(* transfer: NorProgram (split into pages, each page streamed as several   *)
(* bufferloads under one chip select), NorEraseSector, NorRead, with       *)
(* NorWriteEnable and NorWaitReady spelled out, against a W25Q128 that     *)
(* executes, ignores or is still busy with what it is sent.                *)
(***************************************************************************)
EXTENDS NorGeometry

CONSTANTS
    PageSize,      \* cells of a program page (VIM3_NOR_PAGE_SIZE)
    CommandMax,    \* data cells that fit beside opcode and address
                   \* (SPIFC_COMMAND_MAX_DATA)
    TransferMax,   \* data cells of a bufferload (SPIFC_TRANSFER_MAX)
    Contents,      \* what the part may hold when the driver starts
    MaxPolls,      \* status reads before NorWaitReady gives up
    MaxFaults      \* bound: transfers whose DONE bit never comes

ASSUME GeometryAssumption ==
    /\ {ChipSize, EraseSize, PageSize, CommandMax, TransferMax, MaxPolls}
         \subseteq Nat \ {0}
    /\ MaxFaults \in Nat
    /\ Contents \subseteq [Cells -> {0, 1}]
    /\ EraseSize % PageSize = 0 /\ ChipSize % EraseSize = 0

VARIABLES
    mem,           \* the array
    wel,           \* status register: write enable latch
    running,       \* the command the part is busy with, or Idle
    csHeld,        \* SPIFC_USER4_CS_ACTIVE
    pc,            \* the transfer the driver issues next, or "idle"
    call,          \* the call being served
    done,          \* cells of it in pages already programmed, or read
    sent,          \* cells of the current page already shifted out
    got,           \* what NorRead has collected so far
    polls,         \* status reads of the current NorWaitReady
    status,        \* what the call returns once NorWaitReady is over
    faults,        \* transfers that have timed out
    reply,         \* what the last call returned
    inherited,     \* running was sent by an earlier call
    clean,         \* the part was idle when the call began
    commands       \* pages programmed by the current call, one per command

chip   == <<mem, wel, running>>
caller == <<call, reply, clean>>
work   == <<done, sent, got, polls, status, commands>>
vars   == <<chip, caller, work, csHeld, pc, faults, inherited>>

Init ==
    /\ mem \in Contents
    /\ wel = FALSE /\ running = Idle /\ csHeld = FALSE
    /\ pc = "idle" /\ call = Idle
    /\ done = 0 /\ sent = 0 /\ got = <<>> /\ polls = 0 /\ status = "ok"
    /\ faults = 0 /\ reply = NoReply
    /\ inherited = FALSE /\ clean = TRUE /\ commands = <<>>

-----------------------------------------------------------------------------
(* The part. *)

\* Programming wraps at the end of the page, as the part's address counter does.
Wrap(a) == (a \div PageSize) * PageSize

ChipEffects(c) ==
    IF c.kind = "program"
      THEN {<<Wrap(c.at) + ((c.at + i - 1) % PageSize), 0>> :
                i \in {j \in 1 .. c.len : c.buf[j] = 0}}
      ELSE Effects(c)

\* The part finishes what it is busy with, whenever it likes, if ever.
Complete ==
    /\ running # Idle
    /\ mem' = Land(mem, ChipEffects(running))
    /\ running' = Idle /\ wel' = FALSE /\ inherited' = FALSE
    /\ UNCHANGED <<caller, work, csHeld, pc, faults>>

\* A command reaches the part when chip select is released; a busy part, or
\* one without its write enable latch, ignores it.
Execute(c) ==
    IF running = Idle /\ wel
      THEN running' = c /\ inherited' = FALSE
      ELSE UNCHANGED <<running, inherited>>

-----------------------------------------------------------------------------
(* SpifcTransferEx: the outcomes of one bufferload. *)

Succeeds(keepCs) == csHeld' = keepCs /\ UNCHANGED faults

\* Seeded fault: the timeout path leaves chip select asserted.
TimesOutHoldingCs == faults < MaxFaults /\ faults' = faults + 1 /\ UNCHANGED csHeld

TimesOut == faults < MaxFaults /\ faults' = faults + 1 /\ csHeld' = FALSE

\* The call is over: what is still running is left to whoever comes next.
\* (Conjoined after running' and inherited' have been given.)
Return(s, d) ==
    /\ reply' = [status |-> s, data |-> d]
    /\ call' = Idle /\ pc' = "idle"
    /\ done' = 0 /\ sent' = 0 /\ got' = <<>> /\ polls' = 0 /\ status' = "ok"
    /\ commands' = <<>>
    /\ UNCHANGED clean

LeaveBehind == UNCHANGED running /\ inherited' = (running # Idle)

-----------------------------------------------------------------------------
(* The calls. *)

Begin(c) ==
    /\ pc = "idle"
    /\ Valid(c)
    /\ call' = c
    /\ clean' = (running = Idle)
    /\ reply' = NoReply
    /\ pc' = IF c.kind = "read" THEN "read" ELSE "enable"
    /\ UNCHANGED <<chip, work, csHeld, faults, inherited>>

Refuse(c) ==
    /\ pc = "idle"
    /\ ~Valid(c)
    /\ reply' = [status |-> "invalid", data |-> <<>>]
    /\ UNCHANGED <<chip, work, csHeld, pc, faults, inherited, call, clean>>

\* NorWriteEnable sends WREN, which a busy part ignores ...
WriteEnable ==
    /\ pc = "enable"
    /\ Succeeds(FALSE)
    /\ wel' = (wel \/ running = Idle)
    /\ pc' = "latched"
    /\ UNCHANGED <<mem, running, caller, work, inherited>>

\* ... and reads the status back, looking at the latch and not at BUSY.
WriteEnabled ==
    /\ pc = "latched" /\ wel
    /\ Succeeds(FALSE)
    /\ pc' = "command"
    /\ UNCHANGED <<chip, caller, work, inherited>>

WriteProtected ==
    /\ pc = "latched" /\ ~wel
    /\ Succeeds(FALSE)
    /\ LeaveBehind
    /\ Return("protected", <<>>)
    /\ UNCHANGED <<mem, wel>>

EnableTimesOut ==
    /\ pc \in {"enable", "latched"}
    /\ TimesOut
    /\ wel' \in {wel, wel \/ (pc = "enable" /\ running = Idle)}
    /\ LeaveBehind
    /\ Return("timeout", <<>>)
    /\ UNCHANGED mem

\* Seeded fault: the share ignores where in its page it starts.
PageLengthUnaligned ==
    IF call.len - done < PageSize THEN call.len - done ELSE PageSize

\* NorProgram's share of the buffer for the page it is at.
PageLength ==
    LET left == call.len - done
        room == PageSize - ((call.at + done) % PageSize)
    IN  IF left < room THEN left ELSE room

\* The bufferload that comes next: the first one shares the transfer buffer
\* with the opcode and the address.
LoadMax  == IF sent = 0 THEN CommandMax ELSE TransferMax
NextSent == IF PageLength - sent < LoadMax THEN PageLength ELSE sent + LoadMax
KeepCs   == NextSent < PageLength

PageCommand(n) ==
    Program(call.at + done, SubSeq(call.buf, done + 1, done + n))

SendLoad ==
    /\ pc = "command" /\ call.kind = "program"
    /\ Succeeds(KeepCs)
    /\ sent' = NextSent
    /\ IF KeepCs
         THEN UNCHANGED <<pc, running, inherited, commands>>
         ELSE /\ Execute(PageCommand(NextSent))
              /\ commands' = Append(commands, Wrap(call.at + done))
              /\ pc' = "wait"
    /\ UNCHANGED <<mem, wel, caller, done, got, polls, status, faults>>

\* Chip select is released on the error path: the part executes what it got,
\* with or without the bufferload that timed out, and the driver waits it out.
LoadTimesOut ==
    /\ pc = "command" /\ call.kind = "program"
    /\ TimesOut
    /\ \E n \in {sent, NextSent} :
          IF n = 0 THEN UNCHANGED <<running, inherited, commands>>
          ELSE /\ Execute(PageCommand(n))
               /\ commands' = Append(commands, Wrap(call.at + done))
    /\ status' = "timeout" /\ pc' = "wait"
    /\ UNCHANGED <<mem, wel, caller, done, sent, got, polls>>

SendErase ==
    /\ pc = "command" /\ call.kind = "erase"
    /\ Succeeds(FALSE)
    /\ Execute(call)
    /\ pc' = "wait"
    /\ UNCHANGED <<mem, wel, caller, work, faults>>

\* The erase path returns at once, without the wait of the program path.
EraseTimesOut ==
    /\ pc = "command" /\ call.kind = "erase"
    /\ TimesOut
    /\ \/ LeaveBehind
       \/ /\ running = Idle
          /\ running' = call /\ inherited' = TRUE
    /\ Return("timeout", <<>>)
    /\ UNCHANGED <<mem, wel>>

\* NorWaitReady finds the part idle: the next page, or the end of the call.
PollReady ==
    /\ pc = "wait" /\ running = Idle
    /\ Succeeds(FALSE)
    /\ IF status = "ok" /\ call.kind = "program" /\ done + PageLength < call.len
         THEN /\ done' = done + PageLength
              /\ sent' = 0 /\ polls' = 0
              /\ pc' = "enable"
              /\ UNCHANGED <<running, inherited, caller, got, status, commands>>
         ELSE LeaveBehind /\ Return(status, <<>>)
    /\ UNCHANGED <<mem, wel>>

\* Seeded fault: the poll budget is never charged.
PollBusyUncharged ==
    /\ pc = "wait" /\ running # Idle
    /\ Succeeds(FALSE)
    /\ UNCHANGED <<chip, caller, work, pc, inherited>>

PollBusy ==
    /\ pc = "wait" /\ running # Idle /\ polls + 1 < MaxPolls
    /\ Succeeds(FALSE)
    /\ polls' = polls + 1
    /\ UNCHANGED <<chip, caller, done, sent, got, status, commands, pc, inherited>>

\* The last poll still finds the part busy, or a status read times out.
PollGivesUp ==
    /\ pc = "wait"
    /\ \/ running # Idle /\ polls + 1 = MaxPolls /\ Succeeds(FALSE)
       \/ TimesOut
    /\ LeaveBehind
    /\ Return("timeout", <<>>)
    /\ UNCHANGED <<mem, wel>>

\* NorRead, one READ command per bufferload; a busy part does not drive the
\* bus, so anything may be read.
ReadLength == IF call.len - done < CommandMax THEN call.len - done ELSE CommandMax

ReadLoad ==
    /\ pc = "read"
    /\ Succeeds(FALSE)
    /\ \E d \in [1 .. ReadLength -> {0, 1}] :
          /\ running = Idle => \A i \in DOMAIN d : d[i] = mem[call.at + done + i - 1]
          /\ IF done + ReadLength < call.len
               THEN /\ done' = done + ReadLength
                    /\ got' = got \o d
                    /\ UNCHANGED <<caller, sent, polls, status, commands, pc,
                                   running, inherited>>
               ELSE LeaveBehind /\ Return("ok", got \o d)
    /\ UNCHANGED <<mem, wel>>

ReadTimesOut ==
    /\ pc = "read"
    /\ TimesOut
    /\ LeaveBehind
    /\ Return("timeout", <<>>)
    /\ UNCHANGED <<mem, wel>>

Transfer ==
    \/ WriteEnable \/ WriteEnabled \/ WriteProtected \/ EnableTimesOut
    \/ SendLoad \/ LoadTimesOut \/ SendErase \/ EraseTimesOut
    \/ PollReady \/ PollBusy \/ PollGivesUp
    \/ ReadLoad \/ ReadTimesOut

Next == \/ \E c \in Calls : Begin(c) \/ Refuse(c)
        \/ Transfer
        \/ Complete

\* The driver is a busy-waiting sequential program: it takes its next step.
\* Nothing is assumed of the part.
Spec == Init /\ [][Next]_vars /\ WF_vars(Transfer)

-----------------------------------------------------------------------------
(* Properties. *)

TypeOK ==
    /\ mem \in [Cells -> {0, 1}]
    /\ wel \in BOOLEAN /\ csHeld \in BOOLEAN
    /\ running.kind \in {"none", "program", "erase"}
    /\ pc \in {"idle", "enable", "latched", "command", "wait", "read"}
    /\ (call = Idle) <=> (pc = "idle")
    /\ done \in 0 .. call.len /\ sent \in 0 .. PageSize
    /\ polls \in 0 .. MaxPolls - 1 /\ faults \in 0 .. MaxFaults
    /\ status \in {"ok", "timeout"}
    /\ reply.status \in {"none", "ok", "invalid", "timeout", "protected"}

\* A status read, a write enable, an erase or a read is a command of its own
\* only if chip select is up when it starts: chip select is held exactly
\* between the bufferloads of one page program (SpifcTransferEx, "the flash
\* sees ONE continuous command"), whatever times out on the way.
ChipSelectFramesOneCommand ==
    csHeld <=> pc = "command" /\ call.kind = "program" /\ sent > 0

\* Multi-command partial-page programming is banned on this flash: one call
\* never sends two program commands into one page (comment above
\* NorProgramPage), wherever it starts and however it is split.
OneCommandPerPage ==
    \A i, j \in DOMAIN commands : commands[i] = commands[j] => i = j

\* Whatever times out on the way, what reaches the part is whole commands, and
\* one program command for each page a call touches.
CommandsFramed == ChipSelectFramesOneCommand /\ OneCommandPerPage

\* Every call returns, on a part that may never finish anything.
EveryCallReturns == pc # "idle" ~> pc = "idle"

\* What the callers of the three primitives rely on.
Contract == INSTANCE NorContract
              WITH residue <- IF inherited THEN running ELSE Idle
ImplementsContract == Contract!Spec

\* NorProgramPage, on its error path: "Wait it out so the caller's next command
\* is not issued into a busy part."
NoCommandIntoBusyPart == pc = "command" => running = Idle
=============================================================================
