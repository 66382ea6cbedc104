------------------------------ MODULE XhciSched ------------------------------
(***************************************************************************)
(* Transfers of the xHCI driver (XhciSched.c and the transfer entry points *)
(* of Xhci.c): one event ring, filled by the controller and read by        *)
(* whoever polls, and the URBs whose completions travel through it.        *)
(*                                                                         *)
(* Three URBs exist at a time: the synchronous transfer of the call in     *)
(* progress, the command being waited for and one asynchronous interrupt   *)
(* transfer.  A TRB is named by its URB and its place in it.  When a URB   *)
(* is freed, what still refers to its TRBs, in the event ring or on the    *)
(* controller's side, is renamed Gone: those addresses belong to nobody    *)
(* until a transfer ring of 255 entries has been filled once more.         *)
(* Lengths count TRBs transferred in full; a short packet counts nothing.  *)
(*                                                                         *)
(* Every operation runs at XHC_TPL, the monitor timer's own level, so the  *)
(* driver is one thread; the controller runs beside it.                    *)
(***************************************************************************)
EXTENDS Naturals, Sequences, FiniteSets

CONSTANTS
  TrbNumber,       \* entries of the event ring (EVENT_RING_TRB_NUMBER)
  TransferKinds,   \* the kinds of synchronous transfer callers submit
  TransferErrors,  \* the error completions devices cause
  MaxLeft          \* callers stop once more TRBs and commands than this are left over

ASSUME RingAssumption == TrbNumber \in Nat /\ TrbNumber > 1
ASSUME TransferAssumption ==
  /\ TransferKinds \subseteq {"control", "bulk"}
  /\ TransferErrors \subseteq {"stall", "buffer"}
  /\ MaxLeft \in Nat

VARIABLES
  cell,      \* the event ring's memory
  hcEnqueue, hcCycle, \* where the controller writes next, with which cycle bit
  erdp,      \* the Event Ring Dequeue Pointer register
  todo,      \* per transfer ring, the TRBs the controller has not retired
  endpoint,  \* per transfer ring, the endpoint's state
  commands,  \* the commands the controller has not executed
  alive,     \* the controller neither halted nor in error
  ring,      \* EVENT_RING: Dequeue, Enqueue and CCS
  urb,       \* the URBs
  pending,   \* PendingUrb
  op,        \* the driver's call in progress
  phase,     \* what that call is waiting for
  at,        \* where it is in XhcCheckUrbResult and its polling loop
  status,    \* EFI_STATUS of the synchronous transfer
  moved,     \* history: per URB, the data TRBs completed in full
  retired,   \* history: TRBs of the synchronous URB completed
  excused    \* history: a command failed, or a result nobody recovers from

hardware == <<cell, hcEnqueue, hcCycle, erdp, todo, endpoint, commands, alive>>
history == <<moved, retired, excused>>
vars == <<hardware, ring, urb, pending, op, phase, at, status, history>>

-----------------------------------------------------------------------------
\* TRBs, events and URBs.

Rings == {"sync", "async"}
Owners == Rings \cup {"cmd"}
Kinds == TransferKinds \cup {"int", "command"}

\* One TRB per stage or buffer: does it carry data?
Shape(kind) ==
  CASE kind = "control" -> <<FALSE, TRUE, FALSE>>
    [] kind = "bulk"    -> <<TRUE, TRUE>>
    [] kind = "int"     -> <<TRUE>>
    [] OTHER            -> <<FALSE>>

MaxTrbs == 3

\* Completion codes: stall stands for STALL, BABBLE and transaction errors,
\* buffer for DATA_BUFFER and the codes of the default branch, state for the
\* errors a command meets on an endpoint in the wrong state.
Codes == {"success", "short", "stall", "buffer", "state", "stopped"}

Gone == [own |-> "gone", part |-> 0]
Trb == [own : Owners, part : 1 .. MaxTrbs] \cup {Gone}
Event == [trb : Trb, code : Codes]
Blank == [trb |-> Gone, code |-> "success"]

\* The result bit a completion code sets; several events can set several.
Flag(code) ==
  CASE code = "stall"  -> "STALL"
    [] code = "buffer" -> "BUFFER"
    [] code = "state"  -> "TRANSACTION"
    [] OTHER           -> "TIMEOUT"

Flags == {"STALL", "BUFFER", "TRANSACTION", "TIMEOUT", "SYSTEM"}
NoError == {}

\* The results XhcTransfer recovers from compare equal to one flag.
Recoverable(result) == result \in {{"STALL"}, {"TRANSACTION"}}

None == [kind |-> "none", finished |-> FALSE, result |-> NoError,
         start |-> FALSE, end |-> FALSE, completed |-> 0]
NewUrb(kind) == [None EXCEPT !.kind = kind]

Live(o) == urb[o].kind # "none"
Trbs(o, kind) == [i \in DOMAIN Shape(kind) |-> [own |-> o, part |-> i]]
IsData(t) == t.own # "gone" /\ Live(t.own) /\ Shape(urb[t.own].kind)[t.part]
IsEnd(t) == t.part = Len(Shape(urb[t.own].kind))

Disown(t, o) == IF t.own = o THEN Gone ELSE t

-----------------------------------------------------------------------------
\* Positions on the event ring.

Pos == 0 .. TrbNumber - 1
Succ(p) == IF p = TrbNumber - 1 THEN 0 ELSE p + 1
Ahead(p, k) == IF p + k < TrbNumber THEN p + k ELSE p + k - TrbNumber
Span(p, q) == IF p <= q THEN q - p ELSE q + TrbNumber - p

Unread == {p \in Pos : Span(ring.dequeue, p) < Span(ring.dequeue, hcEnqueue)}

Init ==
  /\ cell = [p \in Pos |-> [cycle |-> 0, body |-> Blank]]
  /\ hcEnqueue = 0 /\ hcCycle = 1 /\ erdp = 0
  /\ todo = [r \in Rings |-> <<>>]
  /\ endpoint = [r \in Rings |-> "running"]
  /\ commands = <<>>
  /\ alive = TRUE
  /\ ring = [dequeue |-> 0, enqueue |-> 0, ccs |-> 1]
  /\ urb = [o \in Owners |-> None]
  /\ pending = "none" /\ op = "none" /\ phase = "none" /\ at = "idle"
  /\ status = "SUCCESS"
  /\ moved = [r \in Rings |-> 0]
  /\ retired = 0
  /\ excused = FALSE

-----------------------------------------------------------------------------
(***************************************************************************)
(* The controller.                                                         *)
(***************************************************************************)

\* It keeps one entry free: a full ring stops it.
Room == Succ(hcEnqueue) # erdp

Post(t, code) ==
  /\ Room
  /\ cell' = [cell EXCEPT ![hcEnqueue] =
                [cycle |-> hcCycle,
                 body  |-> IF t = Gone THEN Blank ELSE [trb |-> t, code |-> code]]]
  /\ hcEnqueue' = Succ(hcEnqueue)
  /\ hcCycle' = IF Succ(hcEnqueue) = 0 THEN 1 - hcCycle ELSE hcCycle
  /\ UNCHANGED erdp

DriverUnchanged == UNCHANGED <<ring, urb, pending, op, phase, at, status, excused>>

\* A running endpoint retires the TRB at its head, short or in full.
HcComplete(r, code) ==
  /\ alive /\ endpoint[r] = "running" /\ todo[r] # <<>>
  /\ LET t == Head(todo[r])
     IN  /\ code = "short" => IsData(t)
         /\ Post(t, code)
         /\ todo' = [todo EXCEPT ![r] = Tail(@)]
         /\ moved' = IF IsData(t) /\ code = "success"
                     THEN [moved EXCEPT ![r] = @ + 1] ELSE moved
         /\ retired' = IF t.own = "sync" THEN retired + 1 ELSE retired
  /\ UNCHANGED <<endpoint, commands, alive>>
  /\ DriverUnchanged

\* A stall leaves the TRB at the head of a halted endpoint; a buffer error
\* retires it and the endpoint goes on.
HcFail(r, code) ==
  /\ alive /\ endpoint[r] = "running" /\ todo[r] # <<>>
  /\ Post(Head(todo[r]), code)
  /\ todo' = IF code = "stall" THEN todo ELSE [todo EXCEPT ![r] = Tail(@)]
  /\ endpoint' = IF code = "stall" THEN [endpoint EXCEPT ![r] = "halted"] ELSE endpoint
  /\ UNCHANGED <<commands, alive, moved, retired>>
  /\ DriverUnchanged

\* Stop Endpoint catches a TRB half done and says so before it completes.
HcStopInFlight ==
  /\ alive /\ commands # <<>>
  /\ LET c == Head(commands)
     IN  /\ c.op = "stop" /\ endpoint[c.ring] = "running" /\ todo[c.ring] # <<>>
         /\ Post(Head(todo[c.ring]), "stopped")
         /\ endpoint' = [endpoint EXCEPT ![c.ring] = "stopping"]
  /\ UNCHANGED <<todo, commands, alive, moved, retired>>
  /\ DriverUnchanged

\* In which state of its endpoint a command can be carried out.
Fits(c) ==
  CASE c.op = "stop"  -> endpoint[c.ring] \in {"running", "stopping"}
    [] c.op = "reset" -> endpoint[c.ring] = "halted"
    [] OTHER          -> endpoint[c.ring] = "stopped"

\* Set TR Dequeue Pointer drops what was on the ring when it was made: all of
\* it, or, when nobody waits for the command any more, some that is Gone.
Drops(c, k) ==
  IF c.trb = Gone THEN \A i \in 1 .. k : todo[c.ring][i] = Gone
                  ELSE k = Len(todo[c.ring])

\* The command at the head of the command ring is executed and completed.
HcCommand ==
  /\ alive /\ commands # <<>>
  /\ LET c == Head(commands)
     IN  /\ Post(c.trb, IF Fits(c) THEN "success" ELSE "state")
         /\ endpoint' = IF Fits(c) THEN [endpoint EXCEPT ![c.ring] = "stopped"] ELSE endpoint
         /\ IF Fits(c) /\ c.op = "dequeue"
            THEN \E k \in 0 .. Len(todo[c.ring]) :
                    /\ Drops(c, k)
                    /\ todo' = [todo EXCEPT ![c.ring] = SubSeq(@, k + 1, Len(@))]
            ELSE UNCHANGED todo
  /\ commands' = Tail(commands)
  /\ UNCHANGED <<alive, moved, retired>>
  /\ DriverUnchanged

HcDies ==
  /\ alive /\ alive' = FALSE
  /\ UNCHANGED <<cell, hcEnqueue, hcCycle, erdp, todo, endpoint, commands, moved, retired>>
  /\ DriverUnchanged

Controller ==
  \/ \E r \in Rings, code \in {"success", "short"} : HcComplete(r, code)
  \/ \E r \in Rings, code \in TransferErrors : HcFail(r, code)
  \/ HcStopInFlight
  \/ HcCommand
  \/ HcDies

-----------------------------------------------------------------------------
(***************************************************************************)
(* Pieces of the driver.                                                   *)
(***************************************************************************)

Target == IF op = "xfer" THEN "sync" ELSE "async"
Current == IF phase = "exec" THEN Target ELSE "cmd"

\* XhcCreateUrb and XhcRingDoorBell.
Queue(r, kind) ==
  /\ todo' = [todo EXCEPT ![r] = @ \o Trbs(r, kind)]
  /\ endpoint' = [endpoint EXCEPT ![r] = IF @ = "stopped" THEN "running" ELSE @]
  /\ urb' = [urb EXCEPT ![r] = NewUrb(kind)]
  /\ moved' = [moved EXCEPT ![r] = 0]

DoorBell(r) ==
  endpoint' = [endpoint EXCEPT ![r] = IF @ = "stopped" THEN "running" ELSE @]

\* XhcFreeUrb: whatever still names the URB's TRBs names nobody's now.
Free(o) ==
  /\ urb' = [urb EXCEPT ![o] = None]
  /\ cell' = [p \in Pos |-> IF cell[p].body.trb.own = o
                            THEN [cell[p] EXCEPT !.body = Blank] ELSE cell[p]]
  /\ todo' = [r \in Rings |-> [i \in DOMAIN todo[r] |-> Disown(todo[r][i], o)]]
  /\ commands' = [i \in DOMAIN commands |->
                    [commands[i] EXCEPT !.trb = Disown(@, o)]]

\* The URB being removed was finished before the endpoint stopped.
FinishedAnyway == urb[Target].finished /\ urb[Target].result = NoError

\* Seeded fault: a stopped ring keeps its TRBs.
NextWithoutDequeue(beaten) == IF phase = "reset" THEN "redequeue" ELSE "none"

\* The command after one that succeeded.
NextCommand(beaten) ==
  CASE phase = "stop" /\ ~beaten -> "dequeue"
    [] phase = "reset"           -> "redequeue"
    [] OTHER                     -> "none"

\* XhcCmdTransfer returns and its caller goes on: XhcStopEndpoint and
\* XhcSetTrDequeuePointer of XhcDequeueTrbFromEndpoint, XhcResetEndpoint and
\* XhcSetTrDequeuePointer of XhcRecoverHaltedEndpoint.
CommandEnds(ok) ==
  LET beaten == phase = "stop" /\ FinishedAnyway
      bell   == ok /\ (beaten \/ phase \in {"dequeue", "redequeue"})
      next   == IF ok THEN NextCommand(beaten) ELSE "none"
  IN  /\ pending' = "none"
      /\ phase' = next
      /\ at' = IF next # "none" THEN "issue"
               ELSE IF op = "xfer" /\ phase \in {"stop", "dequeue"} THEN "tail"
               ELSE "return"
      /\ status' = IF ok /\ beaten /\ op = "xfer" THEN "SUCCESS" ELSE status
      /\ IF bell THEN DoorBell(Target) ELSE UNCHANGED endpoint
      /\ excused' = (excused \/ ~ok)

-----------------------------------------------------------------------------
(***************************************************************************)
(* Calls.                                                                  *)
(***************************************************************************)

\* What freed URBs have left with the controller.
Left == Len(SelectSeq(todo["sync"] \o todo["async"], LAMBDA t : t = Gone)) + Len(commands)

Idle == at = "idle" /\ Left <= MaxLeft

\* XhcControlTransfer, XhcBulkTransfer, XhcSyncInterruptTransfer.
Submit(kind) ==
  /\ Idle /\ alive
  /\ Queue("sync", kind)
  /\ op' = "xfer" /\ phase' = "exec" /\ at' = "check"
  /\ retired' = 0
  /\ UNCHANGED <<cell, hcEnqueue, hcCycle, erdp, commands, alive, ring, pending,
                 status, excused>>

\* XhcAsyncInterruptTransfer with IsNewTransfer: a device's driver has one.
SubmitAsync ==
  /\ Idle /\ alive /\ ~Live("async")
  /\ Queue("async", "int")
  /\ UNCHANGED <<cell, hcEnqueue, hcCycle, erdp, commands, alive, ring, pending,
                 op, phase, at, status, retired, excused>>

\* XhcStopEndpoint: the URB is watched while the command runs, and its result
\* goes back to no error.
StopEndpoint(o) ==
  /\ pending' = o
  /\ urb' = [urb EXCEPT ![o].result = NoError]
  /\ phase' = "stop" /\ at' = "issue"

\* XhcAsyncInterruptTransfer without IsNewTransfer: XhciDelAsyncIntTransfer.
DeleteAsync ==
  /\ Idle /\ Live("async")
  /\ op' = "delete"
  /\ StopEndpoint("async")
  /\ UNCHANGED <<hardware, ring, status, history>>

\* XhcMonitorAsyncRequests reaches the URB.
Tick ==
  /\ Idle /\ Live("async")
  /\ op' = "tick" /\ phase' = "exec" /\ at' = "check"
  /\ UNCHANGED <<hardware, ring, urb, pending, status, history>>

\* XhcCmdTransfer: a halted controller is not asked.
IssueCommand ==
  /\ at = "issue"
  /\ \/ /\ alive
        /\ urb' = [urb EXCEPT !["cmd"] = NewUrb("command")]
        /\ commands' = Append(commands,
             [op   |-> CASE phase = "stop" -> "stop" [] phase = "reset" -> "reset"
                         [] OTHER -> "dequeue",
              ring |-> Target,
              trb  |-> [own |-> "cmd", part |-> 1]])
        /\ at' = "check"
        /\ UNCHANGED <<endpoint, pending, phase, status, excused>>
     \/ /\ ~alive
        /\ CommandEnds(FALSE)
        /\ UNCHANGED <<urb, commands>>
  /\ UNCHANGED <<cell, hcEnqueue, hcCycle, erdp, todo, alive, ring, op, moved,
                 retired>>

-----------------------------------------------------------------------------
(***************************************************************************)
(* XhcCheckUrbResult.                                                      *)
(***************************************************************************)

\* XhcSyncEventRing: from the dequeue pointer up to the first entry whose
\* cycle bit is not the consumer's; the consumer's bit is turned whenever the
\* scan passes the end of the ring.
Sync ==
  LET from    == ring.dequeue
      bit(k)  == IF from + k < TrbNumber THEN ring.ccs ELSE 1 - ring.ccs
      stop(k) == cell[Ahead(from, k)].cycle # bit(k)
  IN  \E k \in Pos : /\ stop(k)
                     /\ \A j \in Pos : j < k => ~stop(j)
                     /\ ring' = [ring EXCEPT !.enqueue = Ahead(from, k), !.ccs = bit(k)]

CheckBegin ==
  /\ at = "check"
  /\ \/ /\ urb[Current].finished
        /\ at' = "publish"
        /\ UNCHANGED <<urb, ring>>
     \/ /\ ~urb[Current].finished /\ ~alive
        /\ urb' = [urb EXCEPT ![Current].result = @ \cup {"SYSTEM"}]
        /\ at' = "publish"
        /\ UNCHANGED ring
     \/ /\ ~urb[Current].finished /\ alive
        /\ Sync
        /\ at' = "drain"
        /\ UNCHANGED urb
  /\ UNCHANGED <<hardware, pending, op, phase, status, history>>

\* Seeded fault: the URB being stopped is forgotten.
CreditedToPolledOnly(t) == t.own \in {Current, "async"}

\* IsTransferRingTrb for the pending and the polled URB, IsAsyncIntTrb.
Credited(t) == t.own \in {pending, Current, "async"}

\* The completion of one TRB, as it changes the URB it belongs to.
Completion(u, t, code) ==
  IF code \in {"success", "short"}
  THEN LET start == u.start \/ t.part = 1
           end   == u.end \/ IsEnd(t)
       IN  [u EXCEPT !.completed = IF IsData(t) /\ code = "success" THEN @ + 1 ELSE @,
                     !.start = start, !.end = end,
                     !.finished = @ \/ (start /\ end)]
  ELSE [u EXCEPT !.result = @ \cup {Flag(code)}, !.finished = TRUE]

\* XhcCheckNewEvent's step around the ring.
Advance(p) == IF p + 1 >= TrbNumber THEN 0 ELSE p + 1

\* One round of the loop.  An error leaves the loop at once, whatever is left
\* on the ring; a Stopped event does not.
HandleEvent ==
  /\ at = "drain" /\ ring.dequeue # ring.enqueue
  /\ LET e == cell[ring.dequeue].body
     IN  IF Credited(e.trb)
         THEN /\ urb' = [urb EXCEPT ![e.trb.own] = Completion(@, e.trb, e.code)]
              /\ at' = IF e.code \in {"stall", "buffer", "state"} THEN "publish" ELSE at
         ELSE UNCHANGED <<urb, at>>
  /\ cell' = [cell EXCEPT ![ring.dequeue].body = Blank]
  /\ ring' = [ring EXCEPT !.dequeue = Advance(@)]
  /\ UNCHANGED <<hcEnqueue, hcCycle, erdp, todo, endpoint, commands, alive, pending,
                 op, phase, status, history>>

\* Seeded fault: how far it has scanned.
ScannedUpTo == ring.enqueue

\* EXIT: the controller is told how far the driver has read.
ReadUpTo == ring.dequeue

CheckEnd ==
  /\ \/ at = "publish"
     \/ at = "drain" /\ ring.dequeue = ring.enqueue
  /\ erdp' = ReadUpTo
  /\ at' = "polled"
  /\ UNCHANGED <<cell, hcEnqueue, hcCycle, todo, endpoint, commands, alive, ring,
                 urb, pending, op, phase, status, history>>

-----------------------------------------------------------------------------
(***************************************************************************)
(* XhcExecTransfer's loop and what follows it.                             *)
(***************************************************************************)

Polled == at = "polled"
Done == urb[Current].finished

PollAgain ==
  /\ Polled /\ ~Done /\ op # "tick"
  /\ at' = "check"
  /\ UNCHANGED <<hardware, ring, urb, pending, op, phase, status, history>>

\* A transfer's time is up: XhcDequeueTrbFromEndpoint.
TransferTimesOut ==
  /\ Polled /\ ~Done /\ op = "xfer" /\ phase = "exec"
  /\ status' = "TIMEOUT"
  /\ StopEndpoint("sync")
  /\ UNCHANGED <<hardware, ring, op, history>>

TransferFinishes ==
  /\ Polled /\ Done /\ op = "xfer" /\ phase = "exec"
  /\ status' = IF urb["sync"].result = NoError THEN "SUCCESS" ELSE "DEVICE_ERROR"
  /\ phase' = "none" /\ at' = "tail"
  /\ UNCHANGED <<hardware, ring, urb, pending, op, history>>

\* A command's time is up, or it has finished; its URB is freed either way.
CommandTimesOut ==
  /\ Polled /\ ~Done /\ phase \notin {"exec", "none"}
  /\ CommandEnds(FALSE) /\ Free("cmd")
  /\ UNCHANGED <<hcEnqueue, hcCycle, erdp, alive, ring, op, moved, retired>>

CommandFinishes ==
  /\ Polled /\ Done /\ phase \notin {"exec", "none"}
  /\ CommandEnds(urb["cmd"].result = NoError) /\ Free("cmd")
  /\ UNCHANGED <<hcEnqueue, hcCycle, erdp, alive, ring, op, moved, retired>>

\* XhcTransfer looks at the result: a halted endpoint is recovered, and the
\* driver asserts that this follows a device error.
RecoverOrReturn ==
  /\ at = "tail"
  /\ IF Recoverable(urb["sync"].result)
     THEN IF status = "DEVICE_ERROR"
          THEN phase' = "reset" /\ at' = "issue"
          ELSE phase' = "none" /\ at' = "asserted"
     ELSE phase' = "none" /\ at' = "return"
  /\ UNCHANGED <<hardware, ring, urb, pending, op, status, history>>

Return ==
  /\ at = "return"
  /\ Free(Target)
  /\ excused' = (excused \/ "BUFFER" \in urb[Target].result)
  /\ moved' = [moved EXCEPT ![Target] = 0]
  /\ retired' = IF op = "xfer" THEN 0 ELSE retired
  /\ op' = "none" /\ phase' = "none" /\ at' = "idle" /\ status' = "SUCCESS"
  /\ UNCHANGED <<hcEnqueue, hcCycle, erdp, endpoint, alive, ring, pending>>

\* The monitor: XhcUpdateAsyncRequest queues a URB without error again before
\* the callback; a URB with an error stays as it is until its owner deletes it.
TickEnds ==
  /\ Polled /\ op = "tick"
  /\ IF Done /\ urb["async"].result = NoError
     THEN Queue("async", "int")
     ELSE UNCHANGED <<todo, endpoint, urb, moved>>
  /\ op' = "none" /\ phase' = "none" /\ at' = "idle"
  /\ UNCHANGED <<cell, hcEnqueue, hcCycle, erdp, commands, alive, ring, pending,
                 status, retired, excused>>

Driver ==
  \/ IssueCommand \/ CheckBegin \/ HandleEvent \/ CheckEnd
  \/ PollAgain \/ TransferTimesOut \/ TransferFinishes
  \/ CommandTimesOut \/ CommandFinishes
  \/ RecoverOrReturn \/ Return \/ TickEnds

Calls ==
  \/ \E kind \in TransferKinds : Submit(kind)
  \/ SubmitAsync \/ DeleteAsync \/ Tick

Next == Controller \/ Driver \/ Calls

Spec == Init /\ [][Next]_vars

-----------------------------------------------------------------------------
(***************************************************************************)
(* Properties.                                                             *)
(***************************************************************************)

UrbRecord == [kind : Kinds \cup {"none"}, finished : BOOLEAN, result : SUBSET Flags,
              start : BOOLEAN, end : BOOLEAN, completed : Nat]

Command == [op : {"stop", "dequeue", "reset"}, ring : Rings, trb : Trb]

TypeOK ==
  /\ cell \in [Pos -> [cycle : {0, 1}, body : Event]]
  /\ hcEnqueue \in Pos /\ hcCycle \in {0, 1} /\ erdp \in Pos
  /\ todo \in [Rings -> Seq(Trb)]
  /\ endpoint \in [Rings -> {"running", "stopping", "stopped", "halted"}]
  /\ commands \in Seq(Command)
  /\ alive \in BOOLEAN
  /\ ring \in [dequeue : Pos, enqueue : Pos, ccs : {0, 1}]
  /\ urb \in [Owners -> UrbRecord]
  /\ pending \in Rings \cup {"none"}
  /\ op \in {"none", "xfer", "delete", "tick"}
  /\ phase \in {"none", "exec", "stop", "dequeue", "reset", "redequeue"}
  /\ at \in {"idle", "issue", "check", "drain", "publish", "polled", "tail",
             "return", "asserted"}
  /\ status \in {"SUCCESS", "TIMEOUT", "DEVICE_ERROR"}
  /\ moved \in [Rings -> Nat] /\ retired \in Nat
  /\ excused \in BOOLEAN

\* The controller's read pointer, the driver's dequeue pointer, the end of its
\* last scan and the controller's write pointer stay in this order around the
\* ring: no entry is overwritten before it is read, and none is read that the
\* controller has not written (XhcSyncEventRing, XhcCheckNewEvent and the ERDP
\* write of XhcCheckUrbResult).
RingInOrder ==
  /\ Span(erdp, ring.dequeue) + Span(ring.dequeue, hcEnqueue) = Span(erdp, hcEnqueue)
  /\ Span(ring.dequeue, ring.enqueue) <= Span(ring.dequeue, hcEnqueue)

\* What a URB counts as transferred is what the controller has transferred for
\* it, less the events still on the ring: a completion met while polling for
\* another URB, or while a command stops the endpoint, is credited to its
\* owner, once.
CompletionsConserved ==
  \A r \in Rings : Live(r) =>
    moved[r] = urb[r].completed
             + Cardinality({p \in Unread : /\ cell[p].body.code = "success"
                                           /\ cell[p].body.trb.own = r
                                           /\ IsData(cell[p].body.trb)})

\* A transfer that reports success, also one that finished between its timeout
\* and the Stop Endpoint command, was carried out to its last TRB, and its
\* length is what the controller moved.
RepliesHonest ==
  at = "return" /\ op = "xfer" /\ status = "SUCCESS" =>
    /\ retired = Len(Shape(urb["sync"].kind))
    /\ urb["sync"].completed = moved["sync"]

\* Every byte the controller moved is credited once, to its owner, and what the
\* caller of a transfer is told agrees with it.
CompletionsTrue == CompletionsConserved /\ RepliesHonest

\* No URB is freed while the controller may still use its TRBs and its buffer,
\* unless a command failed on the way or the result is one that XhcTransfer
\* neither dequeues nor recovers from.
FreedUrbsOffTheRing ==
  (\E r \in Rings : \E i \in DOMAIN todo[r] : todo[r][i] = Gone) => excused

\* XhcTransfer asserts that a result it recovers from came with a device error
\* (Xhci.c:833).
RecoveryFollowsDeviceError == at # "asserted"

\* "Traverse the event ring to find out all new events from the previous
\* check" (XhciSched.c:1144): the scan ends where the controller writes next.
SyncFindsAllEvents ==
  [][at = "check" /\ at' = "drain" => ring'.enqueue = hcEnqueue]_vars
=============================================================================
