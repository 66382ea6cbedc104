---------------------------- MODULE NorContract ----------------------------
(***************************************************************************)
(* What the layer above the SPI NOR primitives of MesonSpifcFvbDxe.c       *)
(* (NorProgram, NorEraseSector, NorRead) may rely on, with no controller,  *)
(* no command and no chip status in sight.                                 *)
(*                                                                         *)
(* While a call runs, any of its effects may land, in any order.  A call   *)
(* that fails may leave effects behind that still land later: the part     *)
(* goes on executing a command whose caller was told that it failed.       *)
(***************************************************************************)
EXTENDS NorGeometry

VARIABLES
    mem,           \* [Cells -> {0,1}]
    call,          \* the call being served, or Idle
    residue,       \* the command an earlier failed call left running, or Idle
    clean,         \* there was none when the current call began
    reply          \* what the last call returned: [status, data]

vars == <<mem, call, residue, clean, reply>>

Init ==
    /\ mem \in [Cells -> {0, 1}]
    /\ call = Idle /\ residue = Idle /\ clean = TRUE
    /\ reply = NoReply

Begin ==
    /\ call = Idle
    /\ call' \in {c \in Calls : Valid(c)}
    /\ clean' = (residue = Idle)
    /\ reply' = NoReply
    /\ UNCHANGED <<mem, residue>>

Refuse ==
    /\ call = Idle
    /\ reply' = [status |-> "invalid", data |-> <<>>]
    /\ UNCHANGED <<mem, call, residue, clean>>

Apply ==
    /\ call # Idle
    /\ \E E \in SUBSET Effects(call) : mem' = Land(mem, E)
    /\ UNCHANGED <<call, residue, clean, reply>>

FinishResidue ==
    /\ residue # Idle
    /\ mem' = Land(mem, Effects(residue))
    /\ residue' = Idle
    /\ UNCHANGED <<call, clean, reply>>

\* A program or an erase that succeeds leaves nothing to come, and has done
\* all of its work if nothing was outstanding when it began; so has a read,
\* which then returns what the array holds.
Succeed ==
    /\ call # Idle
    /\ call.kind # "read" => residue = Idle
    /\ clean => Land(mem, Effects(call)) = mem
    /\ \E d \in IF call.kind = "read" THEN [1 .. call.len -> {0, 1}] ELSE {<<>>} :
          /\ clean => \A i \in DOMAIN d : d[i] = mem[call.at + i - 1]
          /\ reply' = [status |-> "ok", data |-> d]
    /\ call' = Idle
    /\ UNCHANGED <<mem, residue, clean>>

\* Failure promises no more than the frame: some command of the call may still
\* be running, or the one that was running when it began.
Parts(c) ==
    IF c.kind = "program"
      THEN {Program(c.at + i - 1, SubSeq(c.buf, i, j)) :
                i \in 1 .. c.len, j \in 1 .. c.len}
      ELSE IF c.kind = "erase" THEN {c} ELSE {}

Fail ==
    /\ call # Idle
    /\ \E s \in {"timeout", "protected"} : reply' = [status |-> s, data |-> <<>>]
    /\ residue' \in {residue, Idle} \cup Parts(call)
    /\ call' = Idle
    /\ UNCHANGED <<mem, clean>>

Next == Begin \/ Refuse \/ Apply \/ FinishResidue \/ Succeed \/ Fail

Spec == Init /\ [][Next]_vars
=============================================================================
