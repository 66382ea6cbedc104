--------------------------- MODULE XhciSched_proofs ---------------------------
(***************************************************************************)
(* Theorems about XhciSched, for an event ring of any size, any of the     *)
(* kinds of transfer and any of the errors: the variables keep their       *)
(* types, the four pointers into the event ring keep their order, every    *)
(* completion is credited once to its owner and reported truthfully, and   *)
(* no URB is freed while the controller may still use its TRBs.            *)
(*                                                                         *)
(* TypeOK is inductive by itself and RingInv with it.  The last two        *)
(* results need SchedInv, which follows a URB's TRBs from the transfer     *)
(* ring (Queued) through the event ring (Posted, InTurn, Stalled) into the *)
(* URB (Results, Ended), the command in hand from its ring to its          *)
(* completion (Commanded, Quieted), and what both leave behind when no     *)
(* command fails (NothingLeft, StopsHeard, StallsKept, Failing).  Each     *)
(* part has a lemma of its own, by the cases of ControllerCases and        *)
(* DriverCases.                                                            *)
(***************************************************************************)
EXTENDS XhciSched, FiniteSetTheorems, TLAPS

USE RingAssumption, TransferAssumption

-----------------------------------------------------------------------------
\* Positions.

LEMMA SuccPos == ASSUME NEW p \in Pos PROVE Succ(p) \in Pos /\ Advance(p) = Succ(p)
BY DEF Pos, Succ, Advance

LEMMA AheadPos == ASSUME NEW p \in Pos, NEW k \in Pos PROVE Ahead(p, k) \in Pos
BY DEF Pos, Ahead

-----------------------------------------------------------------------------
\* Data.

LEMMA GoneTrb == Gone \in Trb /\ Blank \in Event
BY DEF Trb, Event, Blank, Codes

LEMMA OwnTrb == ASSUME NEW o \in Owners, NEW i \in 1 .. MaxTrbs
                PROVE  [own |-> o, part |-> i] \in Trb
BY DEF Trb

LEMMA ShapeSeq ==
  ASSUME NEW kind \in Kinds
  PROVE  /\ Shape(kind) \in Seq(BOOLEAN)
         /\ Len(Shape(kind)) \in 1 .. MaxTrbs
<1>1. CASE kind = "control"
  BY <1>1 DEF Shape, MaxTrbs
<1>2. CASE kind = "bulk"
  BY <1>2 DEF Shape, MaxTrbs
<1>3. CASE kind = "int"
  BY <1>3 DEF Shape, MaxTrbs
<1>4. CASE kind = "command"
  BY <1>4 DEF Shape, MaxTrbs
<1>5. QED
  BY <1>1, <1>2, <1>3, <1>4 DEF Kinds

LEMMA TrbsSeq ==
  ASSUME NEW o \in Owners, NEW kind \in Kinds
  PROVE  Trbs(o, kind) \in Seq(Trb)
<1>1. DOMAIN Shape(kind) = 1 .. Len(Shape(kind)) /\ Len(Shape(kind)) \in Nat
  BY ShapeSeq DEF MaxTrbs
<1>2. \A i \in DOMAIN Shape(kind) : i \in 1 .. MaxTrbs
  <2>1. PICK n \in 1 .. MaxTrbs : n = Len(Shape(kind))
    BY ShapeSeq
  <2>2. DOMAIN Shape(kind) = 1 .. n
    BY <1>1, <2>1
  <2>3. QED
    BY <2>2 DEF MaxTrbs
<1>3. \A i \in DOMAIN Shape(kind) : [own |-> o, part |-> i] \in Trb
  BY <1>2 DEF Trb
<1>4. QED
  BY <1>1, <1>3 DEF Trbs

LEMMA NewUrbType == None \in UrbRecord /\ \A kind \in Kinds : NewUrb(kind) \in UrbRecord
BY DEF None, NewUrb, UrbRecord, NoError, Flags

LEMMA CompletionType ==
  ASSUME NEW u \in UrbRecord, NEW t \in Trb, NEW code \in Codes
  PROVE  Completion(u, t, code) \in UrbRecord
<1>1. Flag(code) \in Flags
  BY DEF Flag, Flags
<1>2. CASE code \in {"success", "short"}
  <2> DEFINE start == u.start \/ t.part = 1
             end   == u.end \/ IsEnd(t)
             fin   == u.finished \/ (start /\ end)
             done  == IF IsData(t) /\ code = "success" THEN u.completed + 1 ELSE u.completed
  <2>1. start \in BOOLEAN
    OBVIOUS
  <2>2. end \in BOOLEAN
    BY DEF IsEnd
  <2>3. fin \in BOOLEAN
    OBVIOUS
  <2>4. done \in Nat
    <3>1. u.completed \in Nat
      BY DEF UrbRecord
    <3> QED
      BY <3>1
  <2>5. Completion(u, t, code) =
          [u EXCEPT !.completed = done, !.start = start, !.end = end, !.finished = fin]
    BY <1>2 DEF Completion
  <2> HIDE DEF start, end, fin, done
  <2>6. QED
    BY <2>1, <2>2, <2>3, <2>4, <2>5 DEF UrbRecord
<1>3. CASE code \notin {"success", "short"}
  BY <1>1, <1>3 DEF Completion, UrbRecord
<1>4. QED
  BY <1>2, <1>3

-----------------------------------------------------------------------------
\* The pieces actions are built from.

LEMMA PostType ==
  ASSUME TypeOK, NEW t \in Trb, NEW code \in Codes, Post(t, code)
  PROVE  /\ cell' \in [Pos -> [cycle : {0, 1}, body : Event]]
         /\ hcEnqueue' \in Pos /\ hcCycle' \in {0, 1} /\ erdp' \in Pos
<1>1. (IF t = Gone THEN Blank ELSE [trb |-> t, code |-> code]) \in Event
  BY GoneTrb DEF Event
<1>2. [cycle |-> hcCycle, body |-> IF t = Gone THEN Blank ELSE [trb |-> t, code |-> code]]
        \in [cycle : {0, 1}, body : Event]
  BY <1>1 DEF TypeOK
<1>3. QED
  BY <1>2, SuccPos DEF Post, TypeOK

LEMMA DisownType == ASSUME NEW t \in Trb, NEW o PROVE Disown(t, o) \in Trb
BY GoneTrb DEF Disown

LEMMA FreeType ==
  ASSUME TypeOK, NEW o \in Owners, Free(o)
  PROVE  /\ urb' \in [Owners -> UrbRecord]
         /\ cell' \in [Pos -> [cycle : {0, 1}, body : Event]]
         /\ todo' \in [Rings -> Seq(Trb)]
         /\ commands' \in Seq(Command)
<1>1. urb' \in [Owners -> UrbRecord]
  BY NewUrbType DEF Free, TypeOK
<1>2. cell' \in [Pos -> [cycle : {0, 1}, body : Event]]
  <2>2. \A p \in Pos : cell[p] \in [cycle : {0, 1}, body : Event]
    BY DEF TypeOK
  <2>1. \A p \in Pos : [cell[p] EXCEPT !.body = Blank] \in [cycle : {0, 1}, body : Event]
    BY <2>2, GoneTrb
  <2>3. QED
    BY <2>1, <2>2 DEF Free
<1>3. todo' \in [Rings -> Seq(Trb)]
  <2>1. ASSUME NEW r \in Rings
        PROVE  [i \in DOMAIN todo[r] |-> Disown(todo[r][i], o)] \in Seq(Trb)
    <3>1. todo[r] \in Seq(Trb)
      BY DEF TypeOK
    <3>2. DOMAIN todo[r] = 1 .. Len(todo[r]) /\ Len(todo[r]) \in Nat
      BY <3>1
    <3>3. \A i \in DOMAIN todo[r] : Disown(todo[r][i], o) \in Trb
      BY <3>1, <3>2, DisownType
    <3>4. QED
      BY <3>2, <3>3
  <2>2. QED
    BY <2>1 DEF Free
<1>4. commands' \in Seq(Command)
  <2>1. DOMAIN commands = 1 .. Len(commands) /\ Len(commands) \in Nat
    BY DEF TypeOK
  <2>2. \A i \in DOMAIN commands : commands[i] \in Command
    BY <2>1 DEF TypeOK
  <2>3. \A i \in DOMAIN commands :
          [commands[i] EXCEPT !.trb = Disown(@, o)] \in Command
    BY <2>2, DisownType DEF Command
  <2>4. QED
    BY <2>1, <2>3 DEF Free
<1>5. QED
  BY <1>1, <1>2, <1>3, <1>4

LEMMA QueueType ==
  ASSUME TypeOK, NEW r \in Rings, NEW kind \in Kinds, Queue(r, kind)
  PROVE  /\ todo' \in [Rings -> Seq(Trb)]
         /\ endpoint' \in [Rings -> {"running", "stopping", "stopped", "halted"}]
         /\ urb' \in [Owners -> UrbRecord]
         /\ moved' \in [Rings -> Nat]
<1>1. todo[r] \o Trbs(r, kind) \in Seq(Trb)
  BY TrbsSeq DEF TypeOK, Owners
<1>2. NewUrb(kind) \in UrbRecord
  BY NewUrbType
<1>3. todo' \in [Rings -> Seq(Trb)]
  BY <1>1 DEF Queue, TypeOK
<1>4. endpoint' \in [Rings -> {"running", "stopping", "stopped", "halted"}]
  BY DEF Queue, TypeOK
<1>5. urb' \in [Owners -> UrbRecord] /\ moved' \in [Rings -> Nat]
  BY <1>2 DEF Queue, TypeOK
<1>6. QED
  BY <1>3, <1>4, <1>5

LEMMA StopEndpointType ==
  ASSUME TypeOK, NEW o \in Rings, StopEndpoint(o)
  PROVE  urb' \in [Owners -> UrbRecord] /\ pending' \in Rings \cup {"none"}
<1>1. urb[o] \in UrbRecord /\ NoError \in SUBSET Flags
  BY DEF TypeOK, Owners, NoError
<1>2. [urb[o] EXCEPT !.result = NoError] \in UrbRecord
  BY <1>1 DEF UrbRecord
<1>3. urb' = [urb EXCEPT ![o] = [urb[o] EXCEPT !.result = NoError]]
  BY DEF StopEndpoint
<1>4. QED
  BY <1>2, <1>3 DEF TypeOK, StopEndpoint

LEMMA CommandEndsType ==
  ASSUME TypeOK, NEW ok \in BOOLEAN, CommandEnds(ok)
  PROVE  /\ pending' \in Rings \cup {"none"}
         /\ phase' \in {"none", "exec", "stop", "dequeue", "reset", "redequeue"}
         /\ at' \in {"idle", "issue", "check", "drain", "publish", "polled", "tail",
                     "return", "asserted"}
         /\ status' \in {"SUCCESS", "TIMEOUT", "DEVICE_ERROR"}
         /\ endpoint' \in [Rings -> {"running", "stopping", "stopped", "halted"}]
         /\ excused' \in BOOLEAN
<1>1. Target \in Rings
  BY DEF Target, Rings
<1>2. \A b : NextCommand(b) \in {"none", "dequeue", "redequeue"}
  BY DEF NextCommand
<1>3. endpoint' \in [Rings -> {"running", "stopping", "stopped", "halted"}]
  BY <1>1 DEF CommandEnds, DoorBell, TypeOK
<1>4. pending' \in Rings \cup {"none"}
  BY DEF CommandEnds
<1>5. phase' \in {"none", "exec", "stop", "dequeue", "reset", "redequeue"}
  BY <1>2 DEF CommandEnds
<1>6. at' \in {"idle", "issue", "check", "drain", "publish", "polled", "tail",
               "return", "asserted"}
  BY DEF CommandEnds
<1>7. status' \in {"SUCCESS", "TIMEOUT", "DEVICE_ERROR"}
  BY DEF CommandEnds, TypeOK
<1>8. excused' \in BOOLEAN
  BY DEF CommandEnds, TypeOK
<1>9. QED
  BY <1>3, <1>4, <1>5, <1>6, <1>7, <1>8

-----------------------------------------------------------------------------
\* Type correctness.

LEMMA InitType == Init => TypeOK
<1>1. SUFFICES ASSUME Init PROVE TypeOK
  OBVIOUS
<1>2. 0 \in Pos /\ Blank \in Event
  BY GoneTrb DEF Pos
<1>3. cell \in [Pos -> [cycle : {0, 1}, body : Event]]
  <2>1. [cycle |-> 0, body |-> Blank] \in [cycle : {0, 1}, body : Event]
    BY <1>2
  <2>2. QED
    BY <1>1, <2>1 DEF Init
<1>4. todo \in [Rings -> Seq(Trb)] /\ commands \in Seq(Command)
  <2>1. <<>> \in Seq(Trb) /\ <<>> \in Seq(Command)
    OBVIOUS
  <2>2. QED
    BY <1>1, <2>1 DEF Init
<1>5. urb \in [Owners -> UrbRecord]
  BY <1>1, NewUrbType DEF Init
<1>6. endpoint \in [Rings -> {"running", "stopping", "stopped", "halted"}]
  BY <1>1 DEF Init
<1>7. ring \in [dequeue : Pos, enqueue : Pos, ccs : {0, 1}]
  BY <1>1, <1>2 DEF Init
<1>8. moved \in [Rings -> Nat] /\ retired \in Nat
  BY <1>1 DEF Init
<1>9. QED
  BY <1>1, <1>2, <1>3, <1>4, <1>5, <1>6, <1>7, <1>8 DEF Init, TypeOK

\* A TRB taken off the head of a ring.
LEMMA HeadOfRing ==
  ASSUME TypeOK, NEW r \in Rings, todo[r] # <<>>
  PROVE  /\ Head(todo[r]) \in Trb
         /\ Tail(todo[r]) \in Seq(Trb)
<1>1. todo[r] \in Seq(Trb)
  BY DEF TypeOK
<1>2. QED
  BY <1>1

LEMMA HeadOfCommands ==
  ASSUME TypeOK, commands # <<>>
  PROVE  /\ Head(commands) \in Command
         /\ Head(commands).trb \in Trb
         /\ Head(commands).ring \in Rings
         /\ Tail(commands) \in Seq(Command)
<1>1. Head(commands) \in Command /\ Tail(commands) \in Seq(Command)
  BY DEF TypeOK
<1>2. QED
  BY <1>1 DEF Command

LEMMA ControllerType == TypeOK /\ Controller => TypeOK'
<1> SUFFICES ASSUME TypeOK, Controller PROVE TypeOK'
  OBVIOUS
<1> USE DEF hardware, DriverUnchanged
<1>1. ASSUME NEW r \in Rings, NEW code \in {"success", "short"}, HcComplete(r, code)
      PROVE  TypeOK'
  <2>1. Head(todo[r]) \in Trb /\ Tail(todo[r]) \in Seq(Trb)
    BY <1>1, HeadOfRing DEF HcComplete
  <2>2. code \in Codes
    BY DEF Codes
  <2>3. /\ cell' \in [Pos -> [cycle : {0, 1}, body : Event]]
        /\ hcEnqueue' \in Pos /\ hcCycle' \in {0, 1} /\ erdp' \in Pos
    BY <1>1, <2>1, <2>2, PostType DEF HcComplete
  <2>4. todo' \in [Rings -> Seq(Trb)]
    BY <1>1, <2>1 DEF HcComplete, TypeOK
  <2>5. moved' \in [Rings -> Nat] /\ retired' \in Nat
    BY <1>1 DEF HcComplete, TypeOK
  <2>6. QED
    BY <1>1, <2>3, <2>4, <2>5 DEF HcComplete, TypeOK
<1>2. ASSUME NEW r \in Rings, NEW code \in TransferErrors, HcFail(r, code)
      PROVE  TypeOK'
  <2>1. Head(todo[r]) \in Trb /\ Tail(todo[r]) \in Seq(Trb)
    BY <1>2, HeadOfRing DEF HcFail
  <2>2. code \in Codes
    BY DEF Codes
  <2>3. /\ cell' \in [Pos -> [cycle : {0, 1}, body : Event]]
        /\ hcEnqueue' \in Pos /\ hcCycle' \in {0, 1} /\ erdp' \in Pos
    BY <1>2, <2>1, <2>2, PostType DEF HcFail
  <2>4. todo' \in [Rings -> Seq(Trb)]
    BY <1>2, <2>1 DEF HcFail, TypeOK
  <2>5. endpoint' \in [Rings -> {"running", "stopping", "stopped", "halted"}]
    BY <1>2 DEF HcFail, TypeOK
  <2>6. QED
    BY <1>2, <2>3, <2>4, <2>5 DEF HcFail, TypeOK
<1>3. CASE HcStopInFlight
  <2>1. Head(commands).ring \in Rings
    BY <1>3, HeadOfCommands DEF HcStopInFlight
  <2>2. Head(todo[Head(commands).ring]) \in Trb /\ "stopped" \in Codes
    BY <1>3, <2>1, HeadOfRing DEF HcStopInFlight, Codes
  <2>3. /\ cell' \in [Pos -> [cycle : {0, 1}, body : Event]]
        /\ hcEnqueue' \in Pos /\ hcCycle' \in {0, 1} /\ erdp' \in Pos
    BY <1>3, <2>2, PostType DEF HcStopInFlight
  <2>4. endpoint' \in [Rings -> {"running", "stopping", "stopped", "halted"}]
    BY <1>3, <2>1 DEF HcStopInFlight, TypeOK
  <2>5. QED
    BY <1>3, <2>3, <2>4 DEF HcStopInFlight, TypeOK
<1>4. CASE HcCommand
  <2> DEFINE c == Head(commands)
  <2>1. c.ring \in Rings /\ c.trb \in Trb /\ Tail(commands) \in Seq(Command)
    BY <1>4, HeadOfCommands DEF HcCommand
  <2>2. (IF Fits(c) THEN "success" ELSE "state") \in Codes
    BY DEF Codes
  <2>3. /\ cell' \in [Pos -> [cycle : {0, 1}, body : Event]]
        /\ hcEnqueue' \in Pos /\ hcCycle' \in {0, 1} /\ erdp' \in Pos
    BY <1>4, <2>1, <2>2, PostType DEF HcCommand
  <2>4. endpoint' \in [Rings -> {"running", "stopping", "stopped", "halted"}]
    BY <1>4, <2>1 DEF HcCommand, TypeOK
  <2>5. todo' \in [Rings -> Seq(Trb)]
    <3>1. todo[c.ring] \in Seq(Trb)
      BY <2>1 DEF TypeOK
    <3>2. \A k \in 0 .. Len(todo[c.ring]) :
            SubSeq(todo[c.ring], k + 1, Len(todo[c.ring])) \in Seq(Trb)
      BY <3>1
    <3>3. CASE todo' = todo
      BY <3>3 DEF TypeOK
    <3>4. CASE todo' # todo
      <4>1. PICK k \in 0 .. Len(todo[c.ring]) :
              todo' = [todo EXCEPT ![c.ring] =
                         SubSeq(todo[c.ring], k + 1, Len(todo[c.ring]))]
        BY <1>4, <3>4 DEF HcCommand
      <4>2. SubSeq(todo[c.ring], k + 1, Len(todo[c.ring])) \in Seq(Trb)
        BY <3>2
      <4>3. QED
        BY <4>1, <4>2 DEF TypeOK
    <3>5. QED
      BY <3>3, <3>4
  <2>6. commands' \in Seq(Command)
    BY <1>4, <2>1 DEF HcCommand
  <2>7. QED
    BY <1>4, <2>3, <2>4, <2>5, <2>6 DEF HcCommand, TypeOK
<1>5. CASE HcDies
  <2>1. alive' \in BOOLEAN
    BY <1>5 DEF HcDies
  <2>2. UNCHANGED <<cell, hcEnqueue, hcCycle, erdp, todo, endpoint, commands, moved,
                    retired, ring, urb, pending, op, phase, at, status, excused>>
    BY <1>5 DEF HcDies
  <2>3. QED
    BY <2>1, <2>2 DEF TypeOK
<1>6. QED
  BY <1>1, <1>2, <1>3, <1>4, <1>5 DEF Controller

LEMMA CallsType == TypeOK /\ Calls => TypeOK'
<1> SUFFICES ASSUME TypeOK, Calls PROVE TypeOK'
  OBVIOUS
<1>1. ASSUME NEW kind \in TransferKinds, Submit(kind) PROVE TypeOK'
  <2>1. "sync" \in Rings /\ kind \in Kinds
    BY DEF Rings, Kinds
  <2>2. /\ todo' \in [Rings -> Seq(Trb)]
        /\ endpoint' \in [Rings -> {"running", "stopping", "stopped", "halted"}]
        /\ urb' \in [Owners -> UrbRecord]
        /\ moved' \in [Rings -> Nat]
    BY <1>1, <2>1, QueueType DEF Submit
  <2>3. QED
    BY <1>1, <2>2 DEF Submit, TypeOK
<1>2. CASE SubmitAsync
  <2>1. "async" \in Rings /\ "int" \in Kinds
    BY DEF Rings, Kinds
  <2>2. /\ todo' \in [Rings -> Seq(Trb)]
        /\ endpoint' \in [Rings -> {"running", "stopping", "stopped", "halted"}]
        /\ urb' \in [Owners -> UrbRecord]
        /\ moved' \in [Rings -> Nat]
    BY <1>2, <2>1, QueueType DEF SubmitAsync
  <2>3. QED
    BY <1>2, <2>2 DEF SubmitAsync, TypeOK
<1>3. CASE DeleteAsync
  <2>1. urb' \in [Owners -> UrbRecord] /\ pending' \in Rings \cup {"none"}
    BY <1>3, StopEndpointType DEF DeleteAsync, Rings
  <2>2. QED
    BY <1>3, <2>1 DEF DeleteAsync, StopEndpoint, TypeOK, hardware, history
<1>4. CASE Tick
  BY <1>4 DEF Tick, TypeOK, hardware, history
<1>5. QED
  BY <1>1, <1>2, <1>3, <1>4 DEF Calls

\* The driver's steps.
LEMMA IssueCommandType == TypeOK /\ IssueCommand => TypeOK'
<1> SUFFICES ASSUME TypeOK, IssueCommand PROVE TypeOK'
  OBVIOUS
<1>1. CASE alive
  <2> DEFINE c == [op   |-> CASE phase = "stop" -> "stop" [] phase = "reset" -> "reset"
                              [] OTHER -> "dequeue",
                   ring |-> Target,
                   trb  |-> [own |-> "cmd", part |-> 1]]
  <2>1. urb' = [urb EXCEPT !["cmd"] = NewUrb("command")] /\ commands' = Append(commands, c)
        /\ at' = "check"
        /\ UNCHANGED <<endpoint, pending, phase, status, excused>>
    BY <1>1 DEF IssueCommand
  <2>2. c \in Command
    <3>1. (CASE phase = "stop" -> "stop" [] phase = "reset" -> "reset" [] OTHER -> "dequeue")
            \in {"stop", "dequeue", "reset"}
      OBVIOUS
    <3>2. Target \in Rings /\ [own |-> "cmd", part |-> 1] \in Trb
      BY DEF Target, Rings, Owners, Trb, MaxTrbs
    <3>3. QED
      BY <3>1, <3>2 DEF Command
  <2> HIDE DEF c
  <2>3. commands' \in Seq(Command)
    BY <2>1, <2>2 DEF TypeOK
  <2>4. urb' \in [Owners -> UrbRecord]
    BY <2>1, NewUrbType DEF TypeOK, Kinds
  <2>5. QED
    BY <2>1, <2>3, <2>4 DEF IssueCommand, TypeOK
<1>2. CASE ~alive
  <2>1. CommandEnds(FALSE) /\ UNCHANGED <<urb, commands>>
    BY <1>2 DEF IssueCommand
  <2>2. QED
    BY <2>1, CommandEndsType DEF IssueCommand, TypeOK
<1>3. QED
  BY <1>1, <1>2 DEF TypeOK

LEMMA CurrentOwner == Current \in Owners /\ Target \in Rings
BY DEF Current, Target, Owners, Rings

LEMMA SyncType ==
  ASSUME TypeOK, Sync
  PROVE  ring' \in [dequeue : Pos, enqueue : Pos, ccs : {0, 1}]
<1>1. ring.dequeue \in Pos /\ ring.ccs \in {0, 1}
  BY DEF TypeOK
<1>2. PICK k \in Pos :
        ring' = [ring EXCEPT !.enqueue = Ahead(ring.dequeue, k),
                   !.ccs = IF ring.dequeue + k < TrbNumber THEN ring.ccs ELSE 1 - ring.ccs]
  BY DEF Sync
<1>3. Ahead(ring.dequeue, k) \in Pos
  BY <1>1, AheadPos
<1>4. (IF ring.dequeue + k < TrbNumber THEN ring.ccs ELSE 1 - ring.ccs) \in {0, 1}
  BY <1>1
<1>5. QED
  BY <1>2, <1>3, <1>4 DEF TypeOK

LEMMA CheckType ==
  TypeOK /\ (CheckBegin \/ HandleEvent \/ CheckEnd) => TypeOK'
<1> SUFFICES ASSUME TypeOK, CheckBegin \/ HandleEvent \/ CheckEnd PROVE TypeOK'
  OBVIOUS
<1> USE DEF hardware, history
<1>1. CASE CheckBegin
  <2>1. CASE urb[Current].finished
    BY <1>1, <2>1 DEF CheckBegin, TypeOK
  <2>2. CASE ~urb[Current].finished /\ ~alive
    <3>1. urb[Current] \in UrbRecord
      BY CurrentOwner DEF TypeOK
    <3>2. urb[Current].result \cup {"SYSTEM"} \in SUBSET Flags
      BY <3>1 DEF UrbRecord, Flags
    <3>3. [urb[Current] EXCEPT !.result = urb[Current].result \cup {"SYSTEM"}] \in UrbRecord
      BY <3>1, <3>2 DEF UrbRecord
    <3>4. urb' = [urb EXCEPT ![Current] =
                    [urb[Current] EXCEPT !.result = urb[Current].result \cup {"SYSTEM"}]]
      BY <1>1, <2>2 DEF CheckBegin
    <3>5. urb' \in [Owners -> UrbRecord]
      BY <3>3, <3>4, CurrentOwner DEF TypeOK
    <3>6. QED
      BY <1>1, <2>2, <3>5 DEF CheckBegin, TypeOK
  <2>3. CASE ~urb[Current].finished /\ alive
    <3>1. Sync
      BY <1>1, <2>3 DEF CheckBegin
    <3>2. QED
      BY <1>1, <2>3, <3>1, SyncType DEF CheckBegin, TypeOK
  <2>4. QED
    BY <2>1, <2>2, <2>3
<1>2. CASE HandleEvent
  <2> DEFINE p == ring.dequeue
             e == cell[p].body
  <2>1. p \in Pos /\ cell[p] \in [cycle : {0, 1}, body : Event]
    BY DEF TypeOK
  <2>2. e \in Event /\ e.trb \in Trb /\ e.code \in Codes
    BY <2>1 DEF Event
  <2>3. cell' \in [Pos -> [cycle : {0, 1}, body : Event]]
    <3>1. [cell[p] EXCEPT !.body = Blank] \in [cycle : {0, 1}, body : Event]
      BY <2>1, GoneTrb
    <3>2. cell' = [cell EXCEPT ![p] = [cell[p] EXCEPT !.body = Blank]]
      BY <1>2 DEF HandleEvent
    <3>3. QED
      BY <2>1, <3>1, <3>2 DEF TypeOK
  <2>4. ring' \in [dequeue : Pos, enqueue : Pos, ccs : {0, 1}]
    <3>1. Advance(p) \in Pos
      BY <2>1, SuccPos
    <3>2. ring' = [ring EXCEPT !.dequeue = Advance(p)]
      BY <1>2 DEF HandleEvent
    <3>3. QED
      BY <3>1, <3>2 DEF TypeOK
  <2>5. urb' \in [Owners -> UrbRecord] /\ at' \in {at, "publish"}
    <3>1. CASE Credited(e.trb)
      <4>1. e.trb.own \in Owners
        <5>1. Current # "none" /\ pending \in Owners \cup {"none"}
          BY CurrentOwner DEF TypeOK, Owners, Rings
        <5>2. e.trb.own \in Owners \cup {"gone"}
          BY <2>2 DEF Trb, Gone
        <5>3. e.trb.own \in {pending, Current, "async"}
          BY <3>1 DEF Credited
        <5>4. QED
          BY <5>1, <5>2, <5>3, CurrentOwner DEF Owners, Rings
      <4>2. Completion(urb[e.trb.own], e.trb, e.code) \in UrbRecord
        BY <2>2, <4>1, CompletionType DEF TypeOK
      <4>3. urb' = [urb EXCEPT ![e.trb.own] = Completion(urb[e.trb.own], e.trb, e.code)]
        BY <1>2, <3>1 DEF HandleEvent
      <4>4. QED
        BY <1>2, <3>1, <4>2, <4>3 DEF HandleEvent, TypeOK
    <3>2. CASE ~Credited(e.trb)
      BY <1>2, <3>2 DEF HandleEvent, TypeOK
    <3>3. QED
      BY <3>1, <3>2
  <2> HIDE DEF p, e
  <2>6. QED
    BY <1>2, <2>3, <2>4, <2>5 DEF HandleEvent, TypeOK
<1>3. CASE CheckEnd
  BY <1>3 DEF CheckEnd, ReadUpTo, TypeOK
<1>4. QED
  BY <1>1, <1>2, <1>3

LEMMA CallEndsType ==
  TypeOK /\ (CommandTimesOut \/ CommandFinishes \/ Return \/ TickEnds) => TypeOK'
<1> SUFFICES ASSUME TypeOK, CommandTimesOut \/ CommandFinishes \/ Return \/ TickEnds
             PROVE  TypeOK'
  OBVIOUS
<1>1. "cmd" \in Owners /\ Target \in Owners
  BY CurrentOwner DEF Owners
<1>2. CASE CommandTimesOut
  <2>1. CommandEnds(FALSE) /\ Free("cmd")
    BY <1>2 DEF CommandTimesOut
  <2>2. QED
    BY <1>1, <1>2, <2>1, CommandEndsType, FreeType DEF CommandTimesOut, TypeOK
<1>3. CASE CommandFinishes
  <2>1. CommandEnds(urb["cmd"].result = NoError) /\ Free("cmd")
    BY <1>3 DEF CommandFinishes
  <2>2. (urb["cmd"].result = NoError) \in BOOLEAN
    OBVIOUS
  <2>3. QED
    BY <1>1, <1>3, <2>1, <2>2, CommandEndsType, FreeType DEF CommandFinishes, TypeOK
<1>4. CASE Return
  <2>1. Free(Target)
    BY <1>4 DEF Return
  <2>2. moved' \in [Rings -> Nat] /\ retired' \in Nat /\ excused' \in BOOLEAN
    BY <1>4, CurrentOwner DEF Return, TypeOK
  <2>3. QED
    BY <1>1, <1>4, <2>1, <2>2, FreeType DEF Return, TypeOK
<1>5. CASE TickEnds
  <2>1. "async" \in Rings /\ "int" \in Kinds
    BY DEF Rings, Kinds
  <2>2. /\ todo' \in [Rings -> Seq(Trb)]
        /\ endpoint' \in [Rings -> {"running", "stopping", "stopped", "halted"}]
        /\ urb' \in [Owners -> UrbRecord]
        /\ moved' \in [Rings -> Nat]
    <3>1. CASE Queue("async", "int")
      BY <2>1, <3>1, QueueType
    <3>2. CASE UNCHANGED <<todo, endpoint, urb, moved>>
      BY <3>2 DEF TypeOK
    <3>3. QED
      BY <1>5, <3>1, <3>2 DEF TickEnds
  <2>3. QED
    BY <1>5, <2>2 DEF TickEnds, TypeOK
<1>6. QED
  BY <1>2, <1>3, <1>4, <1>5

LEMMA PollType ==
  TypeOK /\ (PollAgain \/ TransferTimesOut \/ TransferFinishes \/ RecoverOrReturn) => TypeOK'
<1> SUFFICES ASSUME TypeOK, PollAgain \/ TransferTimesOut \/ TransferFinishes \/ RecoverOrReturn
             PROVE  TypeOK'
  OBVIOUS
<1> USE DEF hardware, history
<1>1. CASE PollAgain
  BY <1>1 DEF PollAgain, TypeOK
<1>2. CASE TransferTimesOut
  <2>1. StopEndpoint("sync") /\ "sync" \in Rings
    BY <1>2 DEF TransferTimesOut, Rings
  <2>2. urb' \in [Owners -> UrbRecord] /\ pending' \in Rings \cup {"none"}
    BY <2>1, StopEndpointType
  <2>3. QED
    BY <1>2, <2>2 DEF TransferTimesOut, StopEndpoint, TypeOK
<1>3. CASE TransferFinishes
  BY <1>3 DEF TransferFinishes, TypeOK
<1>4. CASE RecoverOrReturn
  BY <1>4 DEF RecoverOrReturn, TypeOK
<1>5. QED
  BY <1>1, <1>2, <1>3, <1>4

LEMMA NextType == TypeOK /\ [Next]_vars => TypeOK'
<1> SUFFICES ASSUME TypeOK, [Next]_vars PROVE TypeOK'
  OBVIOUS
<1>1. CASE Controller
  BY <1>1, ControllerType
<1>2. CASE Driver
  BY <1>2, IssueCommandType, CheckType, CallEndsType, PollType DEF Driver
<1>3. CASE Calls
  BY <1>3, CallsType
<1>4. CASE UNCHANGED vars
  BY <1>4 DEF vars, hardware, history, TypeOK
<1>5. QED
  BY <1>1, <1>2, <1>3, <1>4 DEF Next

\* Every variable of the driver and of the controller keeps its type, for a
\* ring of any size: in particular no pointer leaves the event ring.
THEOREM TypeCorrect == Spec => []TypeOK
<1>1. QED
  BY InitType, NextType, PTL DEF Spec

-----------------------------------------------------------------------------
(***************************************************************************)
(* The order of the pointers.  It is not inductive: how far a scan goes    *)
(* depends on the cycle bits in memory and on the consumer's own bit,      *)
(* which a scan leaves flipped when it passes the end of the ring, even    *)
(* when an error then ends the round before its events were read.          *)
(***************************************************************************)

\* The bit the controller wrote, or will write, at p.
Lap(p) == IF p <= hcEnqueue THEN hcCycle ELSE 1 - hcCycle

\* Memory holds the current lap up to the write pointer, the last one after.
Written ==
  \A p \in Pos : cell[p].cycle = IF p < hcEnqueue THEN hcCycle ELSE 1 - hcCycle

\* Either the consumer's bit is the one of its scan's end, or a flipped bit
\* hides unread entries and the scan stays where it is.
InStep ==
  /\ ring.ccs = Lap(ring.enqueue)
  /\ Span(ring.dequeue, ring.enqueue) <= Span(ring.dequeue, hcEnqueue)
Wedged ==
  /\ ring.ccs # Lap(ring.dequeue)
  /\ ring.dequeue # hcEnqueue /\ ring.enqueue = ring.dequeue

InOrder ==
  Span(erdp, ring.dequeue) + Span(ring.dequeue, hcEnqueue) = Span(erdp, hcEnqueue)

RingInv == Written /\ (InStep \/ Wedged) /\ InOrder

LEMMA SpanNat ==
  ASSUME NEW p \in Pos, NEW q \in Pos
  PROVE  /\ Span(p, q) \in Nat /\ Span(p, q) < TrbNumber
         /\ Span(p, p) = 0 /\ (Span(p, q) = 0 => p = q)
BY DEF Pos, Span

\* One step further, unless that meets the start.
LEMMA SpanSucc ==
  ASSUME NEW p \in Pos, NEW q \in Pos, Succ(q) # p
  PROVE  Span(p, Succ(q)) = Span(p, q) + 1
BY DEF Pos, Span, Succ

\* One step less.
LEMMA SpanTail ==
  ASSUME NEW p \in Pos, NEW q \in Pos, p # q
  PROVE  Span(Succ(p), q) = Span(p, q) - 1
BY DEF Pos, Span, Succ

LEMMA RingTypes ==
  ASSUME TypeOK
  PROVE  /\ hcEnqueue \in Pos /\ erdp \in Pos /\ hcCycle \in {0, 1}
         /\ ring.dequeue \in Pos /\ ring.enqueue \in Pos /\ ring.ccs \in {0, 1}
BY DEF TypeOK

LEMMA InitRing == Init => RingInv
<1>1. SUFFICES ASSUME Init PROVE RingInv
  OBVIOUS
<1>2. 0 \in Pos
  BY DEF Pos
<1>3. Written
  BY <1>1 DEF Init, Written, Pos
<1>4. InStep /\ InOrder
  BY <1>1, <1>2, SpanNat DEF Init, InStep, InOrder, Lap
<1>5. QED
  BY <1>3, <1>4 DEF RingInv

\* The controller writes one entry.
LEMMA PostRing ==
  ASSUME TypeOK, RingInv, NEW t, NEW code, Post(t, code), UNCHANGED ring
  PROVE  RingInv'
<1> DEFINE h == hcEnqueue  d == ring.dequeue  q == ring.enqueue
<1>1. h \in Pos /\ erdp \in Pos /\ d \in Pos /\ q \in Pos
      /\ hcCycle \in {0, 1} /\ ring.ccs \in {0, 1}
  BY RingTypes
<1>2. /\ Succ(h) # erdp /\ hcEnqueue' = Succ(h) /\ erdp' = erdp
      /\ hcCycle' = IF Succ(h) = 0 THEN 1 - hcCycle ELSE hcCycle
      /\ ring' = ring
  BY DEF Post, Room
<1>3. Succ(h) \in Pos
  BY <1>1, SuccPos
<1>4. Span(erdp, Succ(h)) = Span(erdp, h) + 1
  BY <1>1, <1>2, SpanSucc
<1>5. Succ(h) # d
  <2>1. SUFFICES ASSUME Succ(h) = d PROVE FALSE
    OBVIOUS
  <2>2. Span(erdp, d) = Span(erdp, h) + 1
    BY <2>1, <1>4
  <2>3. Span(erdp, d) + Span(d, h) = Span(erdp, h)
    BY DEF RingInv, InOrder
  <2>4. QED
    BY <2>2, <2>3, <1>1, SpanNat
<1>6. Span(d, Succ(h)) = Span(d, h) + 1
  BY <1>1, <1>5, SpanSucc
<1>7. Written'
  <2>1. ASSUME NEW p \in Pos
        PROVE  cell'[p].cycle = IF p < Succ(h) THEN hcCycle' ELSE 1 - hcCycle'
    <3>1. cell[p].cycle = IF p < h THEN hcCycle ELSE 1 - hcCycle
      BY DEF RingInv, Written
    <3>2. CASE p = h
      <4>1. cell'[p].cycle = hcCycle
        BY <3>2 DEF Post, TypeOK
      <4>2. QED
        BY <4>1, <3>2, <1>1, <1>2 DEF Succ, Pos
    <3>3. CASE p # h
      <4>1. cell'[p].cycle = cell[p].cycle
        BY <3>3 DEF Post, TypeOK
      <4>2. QED
        BY <4>1, <3>1, <3>3, <1>1, <1>2 DEF Succ, Pos
    <3>4. QED
      BY <3>2, <3>3
  <2>2. QED
    BY <2>1, <1>2 DEF Written
\* Only the entry after the written one changes its lap.
<1>8. ASSUME NEW p \in Pos, p # Succ(h) PROVE Lap(p)' = Lap(p)
  BY <1>1, <1>2, <1>8 DEF Lap, Succ, Pos
<1>9. CASE InStep
  <2>1. q # Succ(h)
    BY <1>1, <1>3, <1>6, <1>9, SpanNat DEF InStep
  <2>2. Lap(q)' = Lap(q)
    BY <2>1, <1>1, <1>8
  <2>3. Span(d, q) <= Span(d, Succ(h))
    BY <1>1, <1>6, <1>9, SpanNat DEF InStep
  <2>4. InStep'
    BY <2>2, <2>3, <1>2, <1>9 DEF InStep, Lap
  <2>5. QED
    BY <2>4, <1>1, <1>2, <1>4, <1>6, <1>7, SpanNat DEF RingInv, InOrder
<1>10. CASE Wedged
  <2>1. Lap(d)' = Lap(d)
    BY <1>1, <1>5, <1>8
  <2>2. Wedged'
    BY <2>1, <1>2, <1>5, <1>10 DEF Wedged, Lap
  <2>3. QED
    BY <2>2, <1>1, <1>2, <1>4, <1>6, <1>7, SpanNat DEF RingInv, InOrder
<1>11. QED
  BY <1>9, <1>10 DEF RingInv

\* The scan.
LEMMA SyncRing ==
  ASSUME TypeOK, RingInv, Sync, UNCHANGED <<cell, hcEnqueue, hcCycle, erdp>>
  PROVE  RingInv'
<1> DEFINE h == hcEnqueue  d == ring.dequeue
           bit(k)  == IF d + k < TrbNumber THEN ring.ccs ELSE 1 - ring.ccs
           stop(k) == cell[Ahead(d, k)].cycle # bit(k)
<1>1. h \in Pos /\ erdp \in Pos /\ d \in Pos /\ ring.enqueue \in Pos
      /\ hcCycle \in {0, 1} /\ ring.ccs \in {0, 1}
  BY RingTypes
<1>2. PICK k \in Pos : /\ stop(k) /\ \A j \in Pos : j < k => ~stop(j)
                       /\ ring' = [ring EXCEPT !.enqueue = Ahead(d, k), !.ccs = bit(k)]
  BY DEF Sync
<1>3. ring'.dequeue = d /\ ring'.enqueue = Ahead(d, k) /\ ring'.ccs = bit(k)
  BY <1>2 DEF TypeOK
<1>4. \A p \in Pos : cell[p].cycle = IF p < h THEN hcCycle ELSE 1 - hcCycle
  BY DEF RingInv, Written
<1>5. CASE ring.ccs = Lap(d)
  <2> DEFINE n == Span(d, h)
  <2>1. n \in Pos /\ Ahead(d, n) = h
    BY <1>1 DEF Pos, Span, Ahead
  <2>2. bit(n) = hcCycle
    BY <1>1, <1>5 DEF Lap, Pos, Span
  <2>3. stop(n)
    <3>1. cell[h].cycle = 1 - hcCycle
      BY <1>1, <1>4 DEF Pos
    <3>2. cell[Ahead(d, n)].cycle = 1 - hcCycle
      BY <2>1, <3>1
    <3> HIDE DEF n, bit
    <3>3. cell[Ahead(d, n)].cycle # bit(n)
      BY <2>2, <3>2, <1>1
    <3>4. QED
      BY <3>3
  <2>4. ASSUME NEW j \in Pos, j < n PROVE ~stop(j)
    <3>1. Ahead(d, j) \in Pos
      BY <1>1, AheadPos
    <3>2. cell[Ahead(d, j)].cycle = IF Ahead(d, j) < h THEN hcCycle ELSE 1 - hcCycle
      BY <3>1, <1>4
    <3>3. bit(j) = IF Ahead(d, j) < h THEN hcCycle ELSE 1 - hcCycle
      BY <1>1, <1>5, <2>4 DEF Lap, Pos, Span, Ahead
    <3>4. QED
      BY <3>2, <3>3
  <2>5. k = n
    <3>1. ~(k < n)
      BY <2>4, <1>2
    <3>2. ~(n < k)
      BY <2>1, <2>3, <1>2
    <3>3. QED
      BY <3>1, <3>2, <2>1 DEF Pos
  <2>6. ring'.enqueue = h /\ ring'.ccs = hcCycle
    BY <2>1, <2>2, <2>5, <1>3
  <2>7. InStep'
    <3>1. Lap(ring.enqueue)' = hcCycle
      BY <2>6, <1>1 DEF Lap, Pos
    <3>2. Span(ring.dequeue, ring.enqueue)' = Span(d, h)
          /\ Span(ring.dequeue, hcEnqueue)' = Span(d, h)
      BY <2>6, <1>3 DEF Span
    <3>3. Span(d, h) <= Span(d, h)
      BY <1>1, SpanNat
    <3>4. QED
      BY <2>6, <3>1, <3>2, <3>3 DEF InStep
  <2>8. QED
    BY <2>7, <1>3 DEF RingInv, Written, InOrder
<1>6. CASE ring.ccs # Lap(d)
  <2>1. d # h
    BY <1>1, <1>6, SpanNat DEF RingInv, InStep, Wedged
  <2>2. 0 \in Pos /\ Ahead(d, 0) = d /\ bit(0) = ring.ccs
    BY <1>1 DEF Pos, Ahead
  <2>3. cell[d].cycle = Lap(d)
    BY <2>1, <1>1, <1>4 DEF Lap, Pos
  <2>4. stop(0)
    BY <2>2, <2>3, <1>6
  <2>5. k = 0
    BY <2>2, <2>4, <1>2 DEF Pos
  <2>6. ring'.enqueue = d /\ ring'.ccs = ring.ccs
    BY <2>2, <2>5, <1>3
  <2>7. Wedged'
    BY <2>1, <2>6, <1>3, <1>6 DEF Wedged, Lap
  <2>8. QED
    BY <2>7, <1>3 DEF RingInv, Written, InOrder
<1>7. QED
  BY <1>5, <1>6

\* Events are read only up to the end of the scan.
LEMMA HandleRing == ASSUME TypeOK, RingInv, HandleEvent PROVE RingInv'
<1> DEFINE h == hcEnqueue  d == ring.dequeue  q == ring.enqueue
<1>1. h \in Pos /\ erdp \in Pos /\ d \in Pos /\ q \in Pos
  BY RingTypes
<1>2. /\ d # q /\ ring' = [ring EXCEPT !.dequeue = Advance(d)]
      /\ cell' = [cell EXCEPT ![d].body = Blank]
      /\ UNCHANGED <<hcEnqueue, hcCycle, erdp>>
  BY DEF HandleEvent
<1>3. ring'.dequeue = Succ(d) /\ ring'.enqueue = q /\ ring'.ccs = ring.ccs
  BY <1>1, <1>2, SuccPos DEF TypeOK
<1>4. InStep
  BY <1>2 DEF RingInv, Wedged
<1>5. d # h
  BY <1>1, <1>2, <1>4, SpanNat DEF InStep
<1>6. Written'
  <2>1. \A p \in Pos : cell'[p].cycle = cell[p].cycle
    BY <1>2 DEF TypeOK
  <2>2. QED
    BY <2>1, <1>2 DEF RingInv, Written
<1>7. Span(Succ(d), q) = Span(d, q) - 1 /\ Span(Succ(d), h) = Span(d, h) - 1
  BY <1>1, <1>2, <1>5, SpanTail
<1>8. InStep'
  BY <1>1, <1>2, <1>3, <1>4, <1>7, SpanNat DEF InStep, Lap
<1>9. Span(erdp, Succ(d)) = Span(erdp, d) + 1
  <2>1. Succ(d) # erdp
    <3>1. SUFFICES ASSUME Succ(d) = erdp PROVE FALSE
      OBVIOUS
    <3>2. Span(erdp, h) = Span(d, h) - 1
      BY <3>1, <1>7
    <3>3. Span(erdp, d) + Span(d, h) = Span(erdp, h)
      BY DEF RingInv, InOrder
    <3>4. QED
      BY <3>2, <3>3, <1>1, SpanNat
  <2>2. QED
    BY <2>1, <1>1, SpanSucc
<1>10. InOrder'
  BY <1>1, <1>2, <1>3, <1>7, <1>9, SpanNat DEF RingInv, InOrder
<1>11. QED
  BY <1>6, <1>8, <1>10 DEF RingInv

LEMMA CheckEndRing == ASSUME TypeOK, RingInv, CheckEnd PROVE RingInv'
<1>1. /\ erdp' = ring.dequeue /\ UNCHANGED <<cell, hcEnqueue, hcCycle, ring>>
  BY DEF CheckEnd, ReadUpTo
<1>2. InOrder'
  BY <1>1, RingTypes, SpanNat DEF InOrder
<1>3. QED
  BY <1>1, <1>2 DEF RingInv, Written, InStep, Wedged, Lap

\* Freeing a URB leaves every cycle bit as it is.
LEMMA FreeRing ==
  ASSUME TypeOK, RingInv, NEW o \in Owners, Free(o),
         UNCHANGED <<hcEnqueue, hcCycle, erdp, ring>>
  PROVE  RingInv'
<1>1. \A p \in Pos : cell'[p].cycle = cell[p].cycle
  BY DEF Free, TypeOK
<1>2. Written'
  BY <1>1 DEF RingInv, Written
<1>3. QED
  BY <1>2 DEF RingInv, InStep, Wedged, Lap, InOrder

LEMMA QuietRing ==
  ASSUME RingInv, UNCHANGED <<cell, hcEnqueue, hcCycle, erdp, ring>>
  PROVE  RingInv'
BY DEF RingInv, Written, InStep, Wedged, Lap, InOrder

LEMMA NextRing == TypeOK /\ RingInv /\ [Next]_vars => RingInv'
<1> SUFFICES ASSUME TypeOK, RingInv, [Next]_vars PROVE RingInv'
  OBVIOUS
<1> USE DEF hardware, history
<1>1. CASE Controller
  <2>1. ASSUME NEW r \in Rings, NEW code \in {"success", "short"}, HcComplete(r, code)
        PROVE  RingInv'
    BY <2>1, PostRing DEF HcComplete, DriverUnchanged
  <2>2. ASSUME NEW r \in Rings, NEW code \in TransferErrors, HcFail(r, code)
        PROVE  RingInv'
    BY <2>2, PostRing DEF HcFail, DriverUnchanged
  <2>3. CASE HcStopInFlight
    BY <2>3, PostRing DEF HcStopInFlight, DriverUnchanged
  <2>4. CASE HcCommand
    BY <2>4, PostRing DEF HcCommand, DriverUnchanged
  <2>5. CASE HcDies
    BY <2>5, QuietRing DEF HcDies, DriverUnchanged
  <2>6. QED
    BY <1>1, <2>1, <2>2, <2>3, <2>4, <2>5 DEF Controller
<1>2. CASE Driver
  <2>1. CASE IssueCommand
    BY <2>1, QuietRing DEF IssueCommand
  <2>2. CASE CheckBegin
    <3>1. CASE Sync
      BY <2>2, <3>1, SyncRing DEF CheckBegin
    <3>2. CASE ring' = ring
      BY <2>2, <3>2, QuietRing DEF CheckBegin
    <3>3. QED
      BY <2>2, <3>1, <3>2 DEF CheckBegin
  <2>3. CASE HandleEvent
    BY <2>3, HandleRing
  <2>4. CASE CheckEnd
    BY <2>4, CheckEndRing
  <2>5. CASE PollAgain \/ TransferTimesOut \/ TransferFinishes \/ RecoverOrReturn
    BY <2>5, QuietRing DEF PollAgain, TransferTimesOut, TransferFinishes, RecoverOrReturn
  <2>6. CASE CommandTimesOut \/ CommandFinishes
    <3>1. "cmd" \in Owners
      BY DEF Owners
    <3>2. QED
      BY <2>6, <3>1, FreeRing DEF CommandTimesOut, CommandFinishes
  <2>7. CASE Return
    <3>1. Target \in Owners
      BY CurrentOwner DEF Owners
    <3>2. QED
      BY <2>7, <3>1, FreeRing DEF Return
  <2>8. CASE TickEnds
    BY <2>8, QuietRing DEF TickEnds
  <2>9. QED
    BY <1>2, <2>1, <2>2, <2>3, <2>4, <2>5, <2>6, <2>7, <2>8 DEF Driver
<1>3. CASE Calls
  <2>1. UNCHANGED <<cell, hcEnqueue, hcCycle, erdp, ring>>
    BY <1>3 DEF Calls, Submit, SubmitAsync, DeleteAsync, Tick
  <2>2. QED
    BY <2>1, QuietRing
<1>4. CASE UNCHANGED vars
  BY <1>4, QuietRing DEF vars
<1>5. QED
  BY <1>1, <1>2, <1>3, <1>4 DEF Next

LEMMA RingInvOrder == TypeOK /\ RingInv => RingInOrder
BY RingTypes, SpanNat DEF RingInv, InStep, Wedged, InOrder, RingInOrder

\* Read pointer, dequeue pointer, end of scan and write pointer keep their
\* order whatever the controller and the driver do in between, for a ring of
\* any size: no event is overwritten unread and none is invented.
THEOREM RingOrder == Spec => []RingInOrder
<1>1. QED
  BY InitType, NextType, InitRing, NextRing, RingInvOrder, PTL DEF Spec

-----------------------------------------------------------------------------
(* Where a call is, and what its URBs are.                                  *)

CommandPhases == {"stop", "dequeue", "reset", "redequeue"}
Polling       == {"check", "drain", "publish", "polled"}

\* Which URBs exist and which one is watched follows from the call, from the
\* command it waits for and from where it is in its loop.
Calling ==
  /\ op = "xfer" <=> Live("sync")
  /\ op \in {"delete", "tick"} => Live("async")
  /\ Live("sync") => urb["sync"].kind \in TransferKinds
  /\ Live("async") => urb["async"].kind = "int"
  /\ Live("cmd") => urb["cmd"].kind = "command"
  /\ Live("cmd") <=> phase \in CommandPhases /\ at \in Polling
  /\ op = "none" <=> at = "idle"
  /\ at \in Polling => phase # "none"
  /\ at = "issue" => phase \in CommandPhases
  /\ at \in {"idle", "tail", "return", "asserted"} => phase = "none"
  /\ at \in {"tail", "asserted"} => op = "xfer"
  /\ at = "return" => op \in {"xfer", "delete"}
  /\ op = "tick" => phase = "exec"
  /\ pending = IF phase = "stop" THEN Target ELSE "none"

\* With which status a transfer came to the command it waits for.
Replying ==
  /\ phase = "exec" => op \in {"xfer", "tick"} /\ status = "SUCCESS"
  /\ phase \in {"stop", "dequeue"} => /\ op \in {"xfer", "delete"}
                                      /\ op = "xfer" => status = "TIMEOUT"
  /\ phase \in {"reset", "redequeue"} => op = "xfer" /\ status = "DEVICE_ERROR"
  /\ op # "xfer" => status = "SUCCESS"

\* A result is that of a finished URB, unless the controller is found dead; a
\* URB without error is finished by its last TRB.
Results ==
  /\ \A r \in Rings : "TRANSACTION" \notin urb[r].result
  /\ \A o \in Owners : "SYSTEM" \in urb[o].result =>
       ~alive /\ at # "drain" /\ ~urb[o].finished
  /\ \A o \in Owners : ~urb[o].finished => urb[o].result \subseteq {"SYSTEM"}
  /\ \A r \in Rings : 
       urb[r].finished /\ urb[r].result = NoError /\ ~(op = "delete" /\ r = "async") => urb[r].end
  /\ at \in {"tail", "return"} /\ op = "xfer" /\ status = "SUCCESS" =>
       urb["sync"].finished /\ urb["sync"].result = NoError

-----------------------------------------------------------------------------
(* The journey of a URB's TRBs.                                             *)

Of(p)   == cell[p].body.trb.own
Part(p) == cell[p].body.trb.part
Code(p) == cell[p].body.code
Told(o) == \E p \in Pos : Of(p) = o
Before(p, q) == Span(ring.dequeue, p) < Span(ring.dequeue, q)
Size(r) == Len(Shape(urb[r].kind))

\* The controller still has TRBs of the URB of r.
Held(r) == \E i \in DOMAIN todo[r] : todo[r][i] # Gone

Retires == {"success", "short", "buffer"}

\* What has been read is blank.
Blanked == \A p \in Pos \ Unread : cell[p].body = Blank

\* A transfer ring holds the last TRBs of its URB, behind those of nobody.
Queued ==
  \A r \in Rings :
    /\ \A i \in DOMAIN todo[r] :
         todo[r][i] # Gone =>
           Live(r) /\ todo[r][i] = [own |-> r, part |-> Size(r) - Len(todo[r]) + i]
    /\ \A i, j \in DOMAIN todo[r] : i < j /\ todo[r][i] # Gone => todo[r][j] # Gone

\* An event is of a live URB; of a command there is one, that says how it ended.
Posted ==
  \A p \in Pos :
     /\ Of(p) \in Rings => /\ Live(Of(p)) /\ Part(p) \in 1 .. Size(Of(p))
                           /\ Code(p) \in {"success", "short", "stall", "buffer", "stopped"}
     /\ Of(p) = "cmd" => /\ Live("cmd") /\ ~urb["cmd"].finished /\ Part(p) = 1
                         /\ Code(p) \in {"success", "state"}
                         /\ \A q \in Pos : Of(q) = "cmd" => q = p
     /\ Of(p) = "gone" => cell[p].body = Blank

\* A TRB retires once, before those behind it.
InTurn ==
  \A r \in Rings : \A p \in Pos : Of(p) = r /\ Code(p) \in Retires =>
    /\ \A i \in DOMAIN todo[r] : todo[r][i] # Gone => Part(p) < todo[r][i].part
    /\ \A q \in Pos : Of(q) = r /\ Before(p, q) => Part(p) < Part(q)

\* Once its last TRB is credited nothing more is heard of a URB.
Ended == \A r \in Rings : urb[r].end => ~Held(r) /\ ~Told(r)

\* A stall is the last that is heard of a URB.
AtRest(r) == endpoint[r] \in {"halted", "stopped"} \/ ~Held(r)
Stalled ==
  \A r \in Rings :
    /\ "STALL" \in urb[r].result => AtRest(r) /\ ~Told(r)
    /\ \A p \in Pos : Of(p) = r /\ Code(p) = "stall" =>
         AtRest(r) /\ \A q \in Pos : Of(q) = r => ~Before(p, q)

\* How many TRBs of the synchronous URB are done, while none was dropped or
\* failed without a stall.
Counted ==
  (/\ op = "xfer" /\ (phase \in {"exec", "stop"} \/ status = "SUCCESS")
   /\ "BUFFER" \notin urb["sync"].result
   /\ \A p \in Pos : Of(p) = "sync" => Code(p) # "buffer") =>
    /\ ~Held("sync") => retired = Size("sync")
    /\ \A i \in DOMAIN todo["sync"] :
         todo["sync"][i] # Gone /\ (i = 1 \/ todo["sync"][i - 1] = Gone) =>
           retired = todo["sync"][i].part - 1

-----------------------------------------------------------------------------
(* The commands.                                                            *)

CommandOf == CASE phase = "stop" -> "stop" [] phase = "reset" -> "reset" [] OTHER -> "dequeue"

\* The command ring holds at most one command somebody waits for, the one the
\* call is at.
Commanded ==
  /\ \A i \in DOMAIN commands : commands[i].trb # Gone =>
       /\ Live("cmd") /\ ~urb["cmd"].finished /\ ~Told("cmd")
       /\ commands[i] = [op |-> CommandOf, ring |-> Target, trb |-> [own |-> "cmd", part |-> 1]]
  /\ \A i, j \in DOMAIN commands : commands[i].trb # Gone /\ commands[j].trb # Gone => i = j

\* The command in hand was carried out, whether the driver knows it or not.
Obeyed ==
  \/ \E p \in Pos : Of(p) = "cmd" /\ Code(p) = "success"
  \/ Live("cmd") /\ urb["cmd"].finished /\ urb["cmd"].result = NoError

\* What a command that was carried out has done to the endpoint: it is stopped,
\* its last words come before the command's, and its ring is dropped.
Quieted ==
  /\ Obeyed => endpoint[Target] = "stopped"
  /\ Obeyed /\ phase = "stop" =>
       \A p \in Pos : Of(p) = Target => \E c \in Pos : Of(c) = "cmd" /\ Before(p, c)
  /\ Obeyed /\ phase \in {"dequeue", "redequeue"} => ~Held(Target)
  /\ phase \in {"dequeue", "reset", "redequeue"} => ~Told(Target) /\ AtRest(Target)

-----------------------------------------------------------------------------
(* What a freed URB leaves with the controller, while no command has failed. *)

NothingLeft ==
  ~excused =>
    /\ \A r \in Rings : \A i \in DOMAIN todo[r] : todo[r][i] # Gone
    /\ \A i \in DOMAIN commands : commands[i].trb # Gone

\* An endpoint is stopped, and says so, only for the call that asks for it.
StopsHeard ==
  ~excused => \A r \in Rings :
    /\ endpoint[r] = "stopping" => phase = "stop" /\ r = Target
    /\ \A p \in Pos : Of(p) = r /\ Code(p) = "stopped" => phase = "stop" /\ r = Target
    /\ "TIMEOUT" \in urb[r].result => 
          op \in {"xfer", "delete"} /\ r = Target /\ (phase \in {"stop", "dequeue"} \/ ~Held(r))

\* A halted endpoint stays halted until its own recovery resets it.
Halts(r) == endpoint[r] = "halted" \/ ~Held(r) \/ (phase \in {"reset", "redequeue"} /\ r = "sync")
StallsKept ==
  ~excused => \A r \in Rings :
    /\ "STALL" \in urb[r].result => Halts(r)
    /\ \A p \in Pos : Of(p) = r /\ Code(p) = "stall" => Halts(r)
    /\ urb[r].finished /\ urb[r].result = NoError => Halts(r)

\* A transfer that ends without having been dequeued is off its ring, or halted
\* and about to be recovered.
Failing ==
  /\ "BUFFER" \in urb["async"].result => ~Held("async")
  /\ at \in {"tail", "return"} /\ ~excused /\ "BUFFER" \notin urb[Target].result =>
       \/ ~Held(Target)
       \/ at = "tail" /\ urb["sync"].result = {"STALL"} /\ status = "DEVICE_ERROR"

\* What a completion does to the URB.
LEMMA CompletionFacts ==
  ASSUME NEW u \in UrbRecord, NEW t \in Trb, NEW code \in Codes
  PROVE  /\ Completion(u, t, code).kind = u.kind
         /\ code \in {"success", "short"} =>
              /\ Completion(u, t, code).result = u.result
              /\ Completion(u, t, code).end <=> u.end \/ IsEnd(t)
              /\ Completion(u, t, code).finished =>
                   u.finished \/ Completion(u, t, code).end
              /\ u.finished => Completion(u, t, code).finished
              /\ Completion(u, t, code).completed =
                   IF IsData(t) /\ code = "success" THEN u.completed + 1 ELSE u.completed
         /\ code \notin {"success", "short"} =>
              /\ Completion(u, t, code).result = u.result \cup {Flag(code)}
              /\ Completion(u, t, code).finished
              /\ Completion(u, t, code).end = u.end
              /\ Completion(u, t, code).completed = u.completed
<1>1. CASE code \in {"success", "short"}
  <2> DEFINE start == u.start \/ t.part = 1
             end   == u.end \/ IsEnd(t)
             fin   == u.finished \/ (start /\ end)
             done  == IF IsData(t) /\ code = "success" THEN u.completed + 1 ELSE u.completed
  <2>1. Completion(u, t, code) =
          [u EXCEPT !.completed = done, !.start = start, !.end = end, !.finished = fin]
    BY <1>1 DEF Completion
  <2>2. fin => u.finished \/ end
    OBVIOUS
  <2>3. u.finished => fin
    OBVIOUS
  <2>4. u \in UrbRecord /\ end \in BOOLEAN /\ fin \in BOOLEAN
    BY DEF IsEnd, UrbRecord
  <2> HIDE DEF start, end, fin, done
  <2>5. /\ Completion(u, t, code).kind = u.kind /\ Completion(u, t, code).result = u.result
        /\ Completion(u, t, code).end = end /\ Completion(u, t, code).finished = fin
        /\ Completion(u, t, code).completed = done
    BY <2>1, <2>4 DEF UrbRecord
  <2> QED  BY <1>1, <2>2, <2>3, <2>4, <2>5 DEF end, done
<1>2. CASE code \notin {"success", "short"}
  <2>1. Completion(u, t, code) = [u EXCEPT !.result = @ \cup {Flag(code)}, !.finished = TRUE]
    BY <1>2 DEF Completion
  <2> QED  BY <1>2, <2>1 DEF UrbRecord
<1> QED  BY <1>1, <1>2

LEMMA UrbFacts ==
  ASSUME TypeOK, NEW o \in Owners
  PROVE  /\ urb[o] \in UrbRecord /\ urb[o].result \subseteq Flags /\ urb[o].completed \in Nat
         /\ Live(o) => urb[o].kind \in Kinds /\ Size(o) \in 1 .. MaxTrbs
                       /\ Shape(urb[o].kind) \in Seq(BOOLEAN)
<1>1. urb[o] \in UrbRecord
  BY DEF TypeOK
<1>2. Live(o) => urb[o].kind \in Kinds
  BY <1>1 DEF Live, UrbRecord
<1> QED  BY <1>1, <1>2, ShapeSeq DEF UrbRecord, Size

\* The event in hand.
LEMMA EventFacts ==
  ASSUME TypeOK, NEW p \in Pos
  PROVE  /\ cell[p].body \in Event /\ cell[p].body.trb \in Trb /\ Code(p) \in Codes
         /\ cell[p].body = [trb |-> cell[p].body.trb, code |-> Code(p)]
         /\ Of(p) \in Owners \cup {"gone"}
         /\ Of(p) # "gone" => /\ cell[p].body.trb = [own |-> Of(p), part |-> Part(p)]
                              /\ Part(p) \in 1 .. MaxTrbs
         /\ Of(p) = "gone" <=> cell[p].body.trb = Gone
<1>1. cell[p].body \in Event
  BY DEF TypeOK
<1>2. cell[p].body.trb \in Trb /\ Code(p) \in Codes
      /\ cell[p].body = [trb |-> cell[p].body.trb, code |-> Code(p)]
  BY <1>1 DEF Event, Code
<1>3. "gone" \notin Owners
  BY DEF Owners, Rings
<1>4. CASE cell[p].body.trb = Gone
  BY <1>1, <1>2, <1>4 DEF Gone, Of
<1>5. CASE cell[p].body.trb # Gone
  <2>1. cell[p].body.trb \in [own : Owners, part : 1 .. MaxTrbs]
    BY <1>2, <1>5 DEF Trb
  <2> QED  BY <1>1, <1>2, <1>3, <1>5, <2>1 DEF Of, Part
<1> QED  BY <1>4, <1>5

\* Which event HandleEvent credits, and how.
LEMMA HandleCases ==
  ASSUME TypeOK, HandleEvent
  PROVE  LET d == ring.dequeue
         IN  /\ d \in Pos /\ ring.dequeue # ring.enqueue
             /\ \/ /\ Of(d) \in {pending, Current, "async"} /\ Of(d) \in Owners
                   /\ urb' = [urb EXCEPT ![Of(d)] = Completion(@, cell[d].body.trb, Code(d))]
                   /\ at' = IF Code(d) \in {"stall", "buffer", "state"} THEN "publish" ELSE at
                \/ Of(d) \notin {pending, Current, "async"} /\ UNCHANGED <<urb, at>>
<1> DEFINE d == ring.dequeue
<1>1. d \in Pos
  BY RingTypes
<1>2. "gone" \notin {pending, Current, "async"}
  BY CurrentOwner DEF TypeOK, Owners, Rings
<1>3. Of(d) \in Owners \cup {"gone"}
  BY <1>1, EventFacts
<1>4. Credited(cell[d].body.trb) <=> Of(d) \in {pending, Current, "async"}
  BY DEF Credited, Of
<1>5. d # ring.enqueue
  BY DEF HandleEvent
<1>6. CASE Credited(cell[d].body.trb)
  BY <1>1, <1>2, <1>3, <1>4, <1>5, <1>6 DEF HandleEvent, Of, Code
<1>7. CASE ~Credited(cell[d].body.trb)
  BY <1>1, <1>4, <1>5, <1>7 DEF HandleEvent
<1> QED  BY <1>6, <1>7

\* Which URBs a step makes, ends or completes.
LEMMA HandleUrbs ==
  ASSUME TypeOK, HandleEvent
  PROVE  \A o \in Owners : /\ urb'[o].kind = urb[o].kind
                           /\ o # Of(ring.dequeue) => urb'[o] = urb[o]
<1>1. PICK d \in Pos : d = ring.dequeue
  BY RingTypes
<1>2. cell[d].body.trb \in Trb /\ Code(d) \in Codes
  BY EventFacts
<1>3. \A o \in Owners : Completion(urb[o], cell[d].body.trb, Code(d)).kind = urb[o].kind
  BY <1>2, CompletionFacts, UrbFacts
<1>4. urb \in [Owners -> UrbRecord]
  BY DEF TypeOK
<1> QED  BY <1>1, <1>3, <1>4, HandleCases

-----------------------------------------------------------------------------
\* Where a call is.

LEMMA CallingInit == Init => Calling /\ Replying /\ Results
<1> SUFFICES ASSUME Init PROVE Calling /\ Replying /\ Results
  OBVIOUS
<1>1. \A o \in Owners : urb[o] = None
  BY DEF Init
<1>2. Rings \subseteq Owners /\ "sync" \in Owners /\ "async" \in Owners /\ "cmd" \in Owners
  BY DEF Owners, Rings
<1>3. \A o \in Owners : ~Live(o) /\ urb[o].result = {} /\ ~urb[o].finished
  BY <1>1 DEF Live, None, NoError
<1> QED
  BY <1>2, <1>3 DEF Init, Calling, Replying, Results, Polling, CommandPhases

LEMMA CallingKept ==
  ASSUME Calling, Replying, \A o \in Owners : urb'[o].kind = urb[o].kind,
         UNCHANGED <<op, phase, pending, status>>, at' = at \/ (at \in Polling /\ at' \in Polling)
  PROVE  Calling' /\ Replying'
<1>1. "sync" \in Owners /\ "async" \in Owners /\ "cmd" \in Owners
  BY DEF Owners, Rings
<1>2. at \in Polling => at \notin {"idle", "issue", "tail", "return", "asserted"}
  BY DEF Polling
<1>3. at' \in Polling => at' \notin {"idle", "issue", "tail", "return", "asserted"}
  BY DEF Polling
<1> QED  BY <1>1, <1>2, <1>3 DEF Calling, Replying, Live, Target

\* How a command ends.
LEMMA CommandEndsFacts ==
  ASSUME NEW ok \in BOOLEAN, CommandEnds(ok)
  PROVE  /\ pending' = "none"
         /\ phase' = IF ~ok THEN "none"
                     ELSE IF phase = "stop" /\ ~FinishedAnyway THEN "dequeue"
                     ELSE IF phase = "reset" THEN "redequeue" ELSE "none"
         /\ at' = IF phase' # "none" THEN "issue"
                  ELSE IF op = "xfer" /\ phase \in {"stop", "dequeue"} THEN "tail" ELSE "return"
         /\ status' = IF ok /\ phase = "stop" /\ FinishedAnyway /\ op = "xfer"
                      THEN "SUCCESS" ELSE status
         /\ IF ok /\ ((phase = "stop" /\ FinishedAnyway) \/ phase \in {"dequeue", "redequeue"})
            THEN DoorBell(Target) ELSE UNCHANGED endpoint
         /\ excused' = (excused \/ ~ok)
<1> DEFINE beaten == phase = "stop" /\ FinishedAnyway
           next == IF ok THEN NextCommand(beaten) ELSE "none"
<1>1. /\ pending' = "none" /\ phase' = next
      /\ at' = IF next # "none" THEN "issue"
               ELSE IF op = "xfer" /\ phase \in {"stop", "dequeue"} THEN "tail"
               ELSE "return"
      /\ status' = IF ok /\ beaten /\ op = "xfer" THEN "SUCCESS" ELSE status
      /\ IF ok /\ (beaten \/ phase \in {"dequeue", "redequeue"})
         THEN DoorBell(Target) ELSE UNCHANGED endpoint
      /\ excused' = (excused \/ ~ok)
  BY DEF CommandEnds
<1>2. NextCommand(beaten) = IF phase = "stop" /\ ~beaten THEN "dequeue"
                            ELSE IF phase = "reset" THEN "redequeue" ELSE "none"
  <2> HIDE DEF beaten
  <2>1. NextCommand(beaten) = CASE phase = "stop" /\ ~beaten -> "dequeue"
                                [] phase = "reset"             -> "redequeue"
                                [] OTHER                       -> "none"
    BY Zenon DEF NextCommand
  <2> HIDE DEF NextCommand
  <2>2. CASE phase = "stop" /\ ~beaten
    BY <2>1, <2>2
  <2>3. CASE phase = "reset"
    BY <2>1, <2>3
  <2>4. CASE phase # "reset" /\ ~(phase = "stop" /\ ~beaten)
    BY <2>1, <2>4
  <2> QED  BY <2>2, <2>3, <2>4
<1>3. phase' = IF ~ok THEN "none"
               ELSE IF phase = "stop" /\ ~beaten THEN "dequeue"
               ELSE IF phase = "reset" THEN "redequeue" ELSE "none"
  <2> HIDE DEF beaten
  <2> QED  BY <1>1, <1>2
<1>4. at' = IF phase' # "none" THEN "issue"
            ELSE IF op = "xfer" /\ phase \in {"stop", "dequeue"} THEN "tail" ELSE "return"
  <2> HIDE DEF next
  <2> QED  BY <1>1
<1> QED  BY <1>1, <1>3, <1>4

LEMMA CommandEndsMoves ==
  ASSUME TypeOK, Calling, Replying, phase \in CommandPhases, NEW ok \in BOOLEAN, CommandEnds(ok),
         UNCHANGED op, \A o \in Rings : urb'[o].kind = urb[o].kind, urb'["cmd"].kind = "none"
  PROVE  Calling' /\ Replying'
<1>1. "sync" \in Rings /\ "async" \in Rings
  BY DEF Rings
<1>2. /\ op \in {"xfer", "delete"} /\ op' = op /\ pending' = "none"
      /\ phase \in {"reset", "redequeue"} => op = "xfer"
  BY CommandEndsFacts DEF Replying, CommandPhases
<1>3. \/ phase = "stop" /\ phase' = "dequeue" /\ at' = "issue" /\ status' = status
      \/ phase = "reset" /\ phase' = "redequeue" /\ at' = "issue" /\ status' = status
      \/ /\ phase' = "none"
         /\ at' = IF op = "xfer" /\ phase \in {"stop", "dequeue"} THEN "tail" ELSE "return"
         /\ status' # status => status' = "SUCCESS" /\ op = "xfer"
  BY CommandEndsFacts DEF CommandPhases
<1> HIDE DEF CommandEnds
<1>4. /\ ~Live("cmd")' /\ (Live("sync")' <=> Live("sync")) /\ (Live("async")' <=> Live("async"))
      /\ urb'["sync"].kind = urb["sync"].kind /\ urb'["async"].kind = urb["async"].kind
  BY <1>1 DEF Live
<1>5. Calling'
  BY <1>2, <1>3, <1>4 DEF Calling, Target, CommandPhases, Polling
<1>6. Replying'
  BY <1>2, <1>3 DEF Replying, CommandPhases
<1> QED  BY <1>5, <1>6

LEMMA FreeUrbs ==
  ASSUME TypeOK, NEW o \in Owners, Free(o)
  PROVE  urb'[o] = None /\ \A q \in Owners \ {o} : urb'[q] = urb[q]
BY DEF Free, TypeOK

LEMMA CallingController ==
  ASSUME Calling, Replying, Controller
  PROVE  Calling' /\ Replying'
<1>1. DriverUnchanged
  BY DEF Controller, HcComplete, HcFail, HcStopInFlight, HcCommand, HcDies
<1> QED  BY <1>1, CallingKept DEF DriverUnchanged

LEMMA CallingCalls ==
  ASSUME TypeOK, Calling, Replying, Calls
  PROVE  Calling' /\ Replying'
<1>0. "sync" \in Owners /\ "async" \in Owners /\ "cmd" \in Owners /\ urb \in [Owners -> UrbRecord]
  BY DEF Owners, Rings, TypeOK
<1>1. ASSUME NEW kind \in TransferKinds, Submit(kind) PROVE Calling' /\ Replying'
  <2>1. /\ urb'["sync"].kind = kind /\ kind # "none"
        /\ urb'["async"] = urb["async"] /\ urb'["cmd"] = urb["cmd"]
    BY <1>0, <1>1 DEF Submit, Queue, NewUrb, None
  <2> QED
    BY <1>1, <2>1 DEF Submit, Idle, Calling, Replying, Live, Target, Polling, CommandPhases
<1>2. CASE SubmitAsync
  <2>1. /\ urb'["async"].kind = "int"
        /\ urb'["sync"] = urb["sync"] /\ urb'["cmd"] = urb["cmd"]
    BY <1>0, <1>2 DEF SubmitAsync, Queue, NewUrb, None
  <2> QED
    BY <1>2, <2>1 DEF SubmitAsync, Idle, Calling, Replying, Live, Target, Polling, CommandPhases
<1>3. CASE DeleteAsync
  <2>1. \A o \in {"sync", "async", "cmd"} : urb'[o].kind = urb[o].kind
    BY <1>0, <1>3 DEF DeleteAsync, StopEndpoint, UrbRecord
  <2> QED
    BY <1>3, <2>1 DEF DeleteAsync, StopEndpoint, Idle, Calling, Replying, Live, Target, Polling,
         CommandPhases
<1>4. CASE Tick
  BY <1>4 DEF Tick, Idle, Calling, Replying, Live, Target, Polling, CommandPhases
<1> QED  BY <1>1, <1>2, <1>3, <1>4 DEF Calls

LEMMA CallingDriver ==
  ASSUME TypeOK, Calling, Replying, Driver
  PROVE  Calling' /\ Replying'
<1>0. "sync" \in Owners /\ "async" \in Owners /\ "cmd" \in Owners /\ urb \in [Owners -> UrbRecord]
  BY DEF Owners, Rings, TypeOK
<1>1. CASE IssueCommand
  <2>1. CASE alive
    <3>1. /\ urb'["cmd"].kind = "command"
          /\ urb'["async"] = urb["async"] /\ urb'["sync"] = urb["sync"]
          /\ at = "issue" /\ at' = "check" /\ UNCHANGED <<pending, phase, status, op>>
      BY <1>0, <1>1, <2>1 DEF IssueCommand, NewUrb, None
    <3> QED
      BY <3>1 DEF Calling, Replying, Live, Target, Polling, CommandPhases
  <2>2. CASE ~alive
    <3>1. CommandEnds(FALSE) /\ UNCHANGED <<urb, op>> /\ at = "issue"
      BY <1>1, <2>2 DEF IssueCommand
    <3>2. phase \in CommandPhases /\ urb["cmd"].kind = "none"
      BY <3>1 DEF Calling, Live, Polling
    <3> QED  BY <3>1, <3>2, CommandEndsMoves
  <2> QED  BY <2>1, <2>2, <1>1 DEF IssueCommand
<1>2. CASE CheckBegin
  <2>1. \A o \in Owners : urb'[o].kind = urb[o].kind
    <3>1. Current \in Owners
      BY CurrentOwner
    <3> QED  BY <1>0, <1>2, <3>1 DEF CheckBegin, UrbRecord
  <2> QED  BY <1>2, <2>1, CallingKept DEF CheckBegin, Polling
<1>3. CASE HandleEvent
  <2>1. at = "drain" /\ at' \in {"drain", "publish"} /\ UNCHANGED <<op, phase, pending, status>>
    BY <1>3 DEF HandleEvent
  <2> QED  BY <1>3, <2>1, HandleUrbs, CallingKept DEF Polling
<1>4. CASE CheckEnd \/ PollAgain
  <2>1. /\ UNCHANGED <<urb, op, phase, pending, status>>
        /\ at \in Polling /\ at' \in Polling
    BY <1>4 DEF CheckEnd, PollAgain, Polled, Polling
  <2> QED  BY <2>1, CallingKept
<1>5. CASE TransferTimesOut
  <2>1. \A o \in {"sync", "async", "cmd"} : urb'[o].kind = urb[o].kind
    BY <1>0, <1>5 DEF TransferTimesOut, StopEndpoint, UrbRecord
  <2> QED
    BY <1>5, <2>1 DEF TransferTimesOut, StopEndpoint, Polled, Calling, Replying, Live, Target,
         Polling, CommandPhases
<1>6. CASE TransferFinishes
  BY <1>6 DEF TransferFinishes, Polled, Calling, Replying, Live, Target, Polling, CommandPhases
<1>7. CASE CommandTimesOut \/ CommandFinishes
  <2>1. PICK ok \in BOOLEAN : CommandEnds(ok) /\ Free("cmd") /\ UNCHANGED op
                              /\ at = "polled" /\ phase \notin {"exec", "none"}
    BY <1>7 DEF CommandTimesOut, CommandFinishes, Polled
  <2>2. phase \in CommandPhases
    BY <2>1 DEF TypeOK, CommandPhases
  <2>3. urb'["cmd"].kind = "none" /\ \A o \in Rings : urb'[o].kind = urb[o].kind
    BY <1>0, <2>1, FreeUrbs DEF None, Owners, Rings
  <2> QED  BY <2>1, <2>2, <2>3, CommandEndsMoves
<1>8. CASE RecoverOrReturn
  BY <1>8 DEF RecoverOrReturn, Calling, Replying, Live, Target, Polling, CommandPhases
<1>9. CASE Return
  <2>1. Target \in {"sync", "async"} /\ (Target = "sync" <=> op = "xfer")
    BY DEF Target
  <2>2. urb'[Target].kind = "none" /\ \A o \in Owners \ {Target} : urb'[o] = urb[o]
    BY <1>0, <1>9, <2>1, FreeUrbs DEF Return, None
  <2>3. at = "return" /\ op' = "none" /\ phase' = "none" /\ at' = "idle" /\ status' = "SUCCESS"
        /\ pending' = pending
    BY <1>9 DEF Return
  <2> HIDE DEF Return
  <2> QED
    BY <1>0, <2>1, <2>2, <2>3 DEF Calling, Replying, Live, Polling, CommandPhases
<1>10. CASE TickEnds
  <2>1. urb'["async"].kind \in {"int", urb["async"].kind} /\ "int" # "none"
        /\ urb'["sync"] = urb["sync"] /\ urb'["cmd"] = urb["cmd"]
    BY <1>0, <1>10 DEF TickEnds, Queue, NewUrb, None
  <2> QED
    BY <1>10, <2>1 DEF TickEnds, Polled, Calling, Replying, Live, Target, Polling, CommandPhases
<1> QED  BY <1>1, <1>2, <1>3, <1>4, <1>5, <1>6, <1>7, <1>8, <1>9, <1>10 DEF Driver

LEMMA CallingNext ==
  ASSUME TypeOK, Calling, Replying, [Next]_vars
  PROVE  Calling' /\ Replying'
<1>1. CASE UNCHANGED vars
  BY <1>1, CallingKept DEF vars
<1> QED  BY <1>1, CallingController, CallingDriver, CallingCalls DEF Next

-----------------------------------------------------------------------------
\* What happens to the events.

LEMMA GoneIsNobody == /\ Gone.own = "gone" /\ "gone" \notin Owners /\ Rings \subseteq Owners
                      /\ "cmd" \in Owners \ Rings /\ Owners = Rings \cup {"cmd"}
                      /\ Rings = {"sync", "async"}
                      /\ \A t \in Trb : t # Gone <=> t.own \in Owners
                      /\ \A t \in Trb : t # Gone => t = [own |-> t.own, part |-> t.part]
                                                    /\ t.part \in 1 .. MaxTrbs
<1>1. Gone.own = "gone" /\ "gone" \notin Owners
  BY DEF Gone, Owners, Rings
<1>2. ASSUME NEW t \in Trb, t # Gone
      PROVE  t.own \in Owners /\ t = [own |-> t.own, part |-> t.part] /\ t.part \in 1 .. MaxTrbs
  BY <1>2 DEF Trb
<1> QED  BY <1>1, <1>2 DEF Owners, Rings

LEMMA BlankIsNobodys == /\ Blank.trb = Gone /\ Blank.trb.own = "gone"
BY DEF Blank, Gone

LEMMA SpanSame ==
  ASSUME NEW d \in Pos, NEW p \in Pos, NEW q \in Pos, Span(d, p) = Span(d, q)
  PROVE  p = q
BY DEF Span, Pos

\* The controller writes behind everything that is unread.
LEMMA PostEffect ==
  ASSUME TypeOK, RingInv, Blanked, NEW t \in Trb, NEW code \in Codes, Post(t, code),
         UNCHANGED ring
  PROVE  \E h \in Pos :
            /\ h = hcEnqueue /\ Of(h) = "gone"
            /\ \A p \in Pos : Of(p) # "gone" => Before(p, h)
            /\ cell'[h].body = IF t = Gone THEN Blank ELSE [trb |-> t, code |-> code]
            /\ \A p \in Pos \ {h} : cell'[p].body = cell[p].body
            /\ Unread' = Unread \cup {h}
<1>1. PICK h \in Pos : h = hcEnqueue
  BY RingTypes
<1>2. PICK d \in Pos : d = ring.dequeue
  BY RingTypes
<1>3. Span(d, Succ(h)) = Span(d, h) + 1
  <2>1. Succ(h) # erdp /\ erdp \in Pos
    BY <1>1, RingTypes DEF Post, Room
  <2>2. Span(erdp, Succ(h)) = Span(erdp, h) + 1
    BY <2>1, SpanSucc
  <2>3. Span(erdp, d) + Span(d, h) = Span(erdp, h)
    BY <1>1, <1>2 DEF RingInv, InOrder
  <2>4. Succ(h) # d
    BY <2>1, <2>2, <2>3, SpanNat
  <2> QED  BY <2>4, SpanSucc
<1>4. hcEnqueue' = Succ(h) /\ ring' = ring
  BY <1>1 DEF Post
<1>5. Unread' = {p \in Pos : Span(d, p) < Span(d, Succ(h))}
  BY <1>2, <1>4 DEF Unread
<1>6. Unread = {p \in Pos : Span(d, p) < Span(d, h)}
  BY <1>1, <1>2 DEF Unread
<1>7. \A p \in Pos : Span(d, p) \in Nat
  BY SpanNat
<1>8. Unread' = Unread \cup {h} /\ h \notin Unread
  BY <1>3, <1>5, <1>6, <1>7, SpanSame
<1>9. Of(h) = "gone"
  BY <1>8, BlankIsNobodys DEF Blanked, Of
<1>10. ASSUME NEW p \in Pos, Of(p) # "gone" PROVE Before(p, h)
  <2>1. p \in Unread
    BY <1>10, BlankIsNobodys DEF Blanked, Of
  <2> QED  BY <1>2, <1>6, <2>1 DEF Before
<1>11. cell' = [cell EXCEPT ![h] = [cycle |-> hcCycle,
                                    body  |-> IF t = Gone THEN Blank ELSE [trb |-> t, code |-> code]]]
  BY <1>1 DEF Post
<1>12. cell'[h].body = IF t = Gone THEN Blank ELSE [trb |-> t, code |-> code]
  BY <1>11 DEF TypeOK
<1>13. \A p \in Pos \ {h} : cell'[p].body = cell[p].body
  BY <1>11 DEF TypeOK
<1> QED  BY <1>1, <1>8, <1>9, <1>10, <1>12, <1>13

\* The driver reads the first.
LEMMA HandleEffect ==
  ASSUME TypeOK, RingInv, HandleEvent
  PROVE  \E d \in Pos :
            /\ d = ring.dequeue /\ Unread' = Unread \ {d}
            /\ \A p \in Pos \ {d} : Before(d, p)
            /\ \A p, q \in Pos \ {d} : Before(p, q)' <=> Before(p, q)
            /\ cell'[d].body = Blank /\ \A p \in Pos \ {d} : cell'[p].body = cell[p].body
<1>1. PICK d \in Pos : d = ring.dequeue
  BY RingTypes
<1>2. PICK h \in Pos : h = hcEnqueue
  BY RingTypes
<1>3. /\ d # ring.enqueue /\ ring' = [ring EXCEPT !.dequeue = Advance(d)]
      /\ cell' = [cell EXCEPT ![d].body = Blank] /\ hcEnqueue' = h
  BY <1>1, <1>2 DEF HandleEvent
<1>4. ring'.dequeue = Succ(d)
  BY <1>3, SuccPos DEF TypeOK
<1>5. d # h
  <2>1. InStep /\ ring.enqueue \in Pos
    BY <1>1, <1>3, RingTypes DEF RingInv, Wedged
  <2> QED  BY <1>1, <1>2, <1>3, <2>1, SpanNat DEF InStep
<1>6. \A p \in Pos \ {d} : Span(Succ(d), p) = Span(d, p) - 1
  BY SpanTail
<1>7. \A p \in Pos : Span(d, p) \in Nat /\ (Span(d, p) = 0 => p = d)
  BY SpanNat
<1>8. Span(d, d) = 0
  BY SpanNat
<1>9. Span(Succ(d), d) \in Nat /\ Span(Succ(d), d) >= Span(Succ(d), h)
  <2>1. Span(Succ(d), d) = TrbNumber - 1
    BY DEF Span, Succ, Pos
  <2> QED  BY <2>1, SpanNat, SuccPos
<1>10. Unread' = {p \in Pos : Span(Succ(d), p) < Span(Succ(d), h)}
  BY <1>3, <1>4 DEF Unread
<1>11. Unread = {p \in Pos : Span(d, p) < Span(d, h)}
  BY <1>1, <1>2 DEF Unread
<1>12. Unread' = Unread \ {d}
  <2>1. Span(Succ(d), h) = Span(d, h) - 1
    BY <1>5, <1>6
  <2>2. ASSUME NEW p \in Pos \ {d} PROVE p \in Unread' <=> p \in Unread
    BY <1>6, <1>7, <1>10, <1>11, <2>1
  <2>3. d \notin Unread'
    BY <1>9, <1>10, SpanNat, SuccPos
  <2> QED  BY <1>10, <1>11, <2>2, <2>3
<1>13. ASSUME NEW p \in Pos \ {d} PROVE Before(d, p)
  BY <1>1, <1>7, <1>8 DEF Before
<1>14. ASSUME NEW p \in Pos \ {d}, NEW q \in Pos \ {d} PROVE Before(p, q)' <=> Before(p, q)
  <2>1. Before(p, q)' <=> Span(Succ(d), p) < Span(Succ(d), q)
    BY <1>4 DEF Before
  <2> QED  BY <1>1, <1>6, <1>7, <2>1 DEF Before
<1>15. cell'[d].body = Blank /\ \A p \in Pos \ {d} : cell'[p].body = cell[p].body
  BY <1>3 DEF TypeOK
<1> QED  BY <1>1, <1>12, <1>13, <1>14, <1>15

\* A freed URB's events are nobody's.
LEMMA FreeEffect ==
  ASSUME TypeOK, NEW o \in Owners, Free(o)
  PROVE  /\ \A p \in Pos : cell'[p].body = IF Of(p) = o THEN Blank ELSE cell[p].body
         /\ \A r \in Rings : /\ DOMAIN todo'[r] = DOMAIN todo[r] /\ Len(todo'[r]) = Len(todo[r])
                             /\ \A i \in DOMAIN todo[r] : todo'[r][i] = Disown(todo[r][i], o)
         /\ DOMAIN commands' = DOMAIN commands
         /\ \A i \in DOMAIN commands :
              /\ commands'[i].op = commands[i].op /\ commands'[i].ring = commands[i].ring
              /\ commands'[i].trb = Disown(commands[i].trb, o)
<1>1. \A p \in Pos : cell'[p].body = IF Of(p) = o THEN Blank ELSE cell[p].body
  <2>1. \A p \in Pos : cell[p] \in [cycle : {0, 1}, body : Event]
    BY DEF TypeOK
  <2>2. \A p \in Pos : [cell[p] EXCEPT !.body = Blank].body = Blank
    BY <2>1
  <2> QED  BY <2>2 DEF Free, Of
<1>2. ASSUME NEW r \in Rings
      PROVE  /\ DOMAIN todo'[r] = DOMAIN todo[r] /\ Len(todo'[r]) = Len(todo[r])
             /\ \A i \in DOMAIN todo[r] : todo'[r][i] = Disown(todo[r][i], o)
  <2>1. todo'[r] = [i \in DOMAIN todo[r] |-> Disown(todo[r][i], o)]
    BY DEF Free
  <2>2. todo[r] \in Seq(Trb)
    BY DEF TypeOK
  <2>3. DOMAIN todo[r] = 1 .. Len(todo[r]) /\ Len(todo[r]) \in Nat
    BY <2>2
  <2>4. DOMAIN todo'[r] = DOMAIN todo[r]
    BY <2>1
  <2>5. todo'[r] \in Seq(Trb)
    BY FreeType
  <2>6. DOMAIN todo'[r] = 1 .. Len(todo'[r]) /\ Len(todo'[r]) \in Nat
    BY <2>5
  <2>7. Len(todo'[r]) = Len(todo[r])
    BY <2>3, <2>4, <2>6
  <2> QED  BY <2>1, <2>4, <2>7
<1>3. commands' = [i \in DOMAIN commands |-> [commands[i] EXCEPT !.trb = Disown(@, o)]]
  BY DEF Free
<1>4. ASSUME NEW i \in DOMAIN commands
      PROVE  /\ commands'[i].op = commands[i].op /\ commands'[i].ring = commands[i].ring
             /\ commands'[i].trb = Disown(commands[i].trb, o)
  <2>1. commands[i] \in Command
    BY DEF TypeOK
  <2> QED  BY <1>3, <2>1 DEF Command
<1> QED  BY <1>1, <1>2, <1>3, <1>4

LEMMA DisownFacts ==
  ASSUME NEW t \in Trb, NEW o \in Owners
  PROVE  Disown(t, o) # Gone => t # Gone /\ t.own # o /\ Disown(t, o) = t
BY DEF Disown

\* What the steps of the driver and of the controller do to the event ring.
LEMMA CellCases ==
  ASSUME TypeOK, [Next]_vars
  PROVE  \/ /\ \E t \in Trb, code \in Codes : Post(t, code)
            /\ UNCHANGED ring /\ DriverUnchanged
         \/ HandleEvent
         \/ \E o \in Owners : Free(o) /\ UNCHANGED <<hcEnqueue, ring>>
         \/ UNCHANGED <<cell, hcEnqueue>> /\ ring'.dequeue = ring.dequeue
<1>1. ASSUME NEW r \in Rings, NEW code \in {"success", "short"}, HcComplete(r, code)
      PROVE  \E t \in Trb, c \in Codes : Post(t, c) /\ UNCHANGED ring /\ DriverUnchanged
  <2>1. Head(todo[r]) \in Trb /\ code \in Codes
    BY <1>1, HeadOfRing DEF HcComplete, Codes
  <2>2. Post(Head(todo[r]), code) /\ DriverUnchanged /\ UNCHANGED ring
    BY <1>1 DEF HcComplete, DriverUnchanged
  <2> QED  BY <2>1, <2>2
<1>2. ASSUME NEW r \in Rings, NEW code \in TransferErrors, HcFail(r, code)
      PROVE  \E t \in Trb, c \in Codes : Post(t, c) /\ UNCHANGED ring /\ DriverUnchanged
  <2>1. Head(todo[r]) \in Trb /\ code \in Codes
    BY <1>2, HeadOfRing DEF HcFail, Codes
  <2>2. Post(Head(todo[r]), code) /\ DriverUnchanged /\ UNCHANGED ring
    BY <1>2 DEF HcFail, DriverUnchanged
  <2> QED  BY <2>1, <2>2
<1>3. CASE HcStopInFlight
  <2>1. Head(commands).ring \in Rings
    BY <1>3, HeadOfCommands DEF HcStopInFlight
  <2>2. Head(todo[Head(commands).ring]) \in Trb /\ "stopped" \in Codes
    BY <1>3, <2>1, HeadOfRing DEF HcStopInFlight, Codes
  <2>3. /\ Post(Head(todo[Head(commands).ring]), "stopped") /\ DriverUnchanged
        /\ UNCHANGED ring
    BY <1>3 DEF HcStopInFlight, DriverUnchanged
  <2> QED  BY <2>2, <2>3
<1>4. CASE HcCommand
  <2>1. PICK t \in Trb, code \in Codes :
             t = Head(commands).trb /\ code = IF Fits(Head(commands)) THEN "success" ELSE "state"
    BY <1>4, HeadOfCommands DEF HcCommand, Codes
  <2>2. Post(t, code) /\ DriverUnchanged /\ UNCHANGED ring
    BY <1>4, <2>1 DEF HcCommand, DriverUnchanged
  <2> QED  BY <2>2
<1>5. CASE HcDies
  BY <1>5 DEF HcDies, DriverUnchanged
<1>6. CASE HandleEvent
  BY <1>6
<1>7. CASE CommandTimesOut \/ CommandFinishes
  <2>1. "cmd" \in Owners
    BY DEF Owners
  <2> QED  BY <1>7, <2>1 DEF CommandTimesOut, CommandFinishes
<1>8. CASE Return
  <2>1. Target \in Owners
    BY CurrentOwner DEF Owners
  <2> QED  BY <1>8, <2>1 DEF Return
<1>9. CASE CheckBegin
  BY <1>9 DEF CheckBegin, Sync, hardware, TypeOK
<1>10. CASE IssueCommand \/ CheckEnd \/ PollAgain \/ TransferTimesOut \/ TransferFinishes
            \/ RecoverOrReturn \/ TickEnds
  BY <1>10 DEF IssueCommand, CheckEnd, PollAgain, TransferTimesOut, TransferFinishes,
       RecoverOrReturn, TickEnds, hardware
<1>11. CASE Calls
  BY <1>11 DEF Calls, Submit, SubmitAsync, DeleteAsync, Tick, hardware
<1>12. CASE UNCHANGED vars
  BY <1>12 DEF vars, hardware
<1> QED
  BY <1>1, <1>2, <1>3, <1>4, <1>5, <1>6, <1>7, <1>8, <1>9, <1>10, <1>11, <1>12
     DEF Next, Controller, Driver

LEMMA BlankedInit == Init => Blanked
BY DEF Init, Blanked

LEMMA BlankedNext ==
  ASSUME TypeOK, RingInv, Blanked, [Next]_vars
  PROVE  Blanked'
<1>1. ASSUME NEW t \in Trb, NEW code \in Codes, Post(t, code), UNCHANGED ring PROVE Blanked'
  BY <1>1, PostEffect DEF Blanked
<1>2. CASE HandleEvent
  BY <1>2, HandleEffect DEF Blanked
<1>3. ASSUME NEW o \in Owners, Free(o), UNCHANGED <<hcEnqueue, ring>> PROVE Blanked'
  <2>1. Unread' = Unread
    BY <1>3 DEF Unread
  <2> QED  BY <1>3, <2>1, FreeEffect DEF Blanked
<1>4. CASE UNCHANGED <<cell, hcEnqueue>> /\ ring'.dequeue = ring.dequeue
  BY <1>4 DEF Blanked, Unread
<1> QED  BY <1>1, <1>2, <1>3, <1>4, CellCases

-----------------------------------------------------------------------------
\* What the steps do, by effect.

\* The first TRB of a ring that is not empty.
LEMMA HeadQueued ==
  ASSUME TypeOK, Queued, NEW r \in Rings, todo[r] # <<>>
  PROVE  \E t \in Trb :
            /\ t = Head(todo[r]) /\ t = todo[r][1] /\ 1 \in DOMAIN todo[r]
            /\ t # Gone => /\ Held(r) /\ Live(r) /\ t.own = r /\ r \in Owners
                           /\ t.part = Size(r) - Len(todo[r]) + 1
                           /\ t.part \in 1 .. Size(r)
            /\ Len(todo[r]) \in Nat \ {0}
<1>1. todo[r] \in Seq(Trb) /\ r \in Owners
  BY DEF TypeOK, Owners
<1>2. PICK n \in Nat : n = Len(todo[r])
  BY <1>1
<1>3. n # 0 /\ Head(todo[r]) = todo[r][1] /\ DOMAIN todo[r] = 1 .. n
  BY <1>1, <1>2
<1>4. 1 \in DOMAIN todo[r] /\ todo[r][1] \in Trb /\ n \in DOMAIN todo[r]
  BY <1>1, <1>3
<1>5. ASSUME todo[r][1] # Gone
      PROVE  /\ Held(r) /\ Live(r) /\ todo[r][1].own = r
             /\ todo[r][1].part = Size(r) - n + 1
             /\ todo[r][1].part \in 1 .. Size(r)
  <2>1. Held(r) /\ Live(r) /\ todo[r][1] = [own |-> r, part |-> Size(r) - n + 1]
    BY <1>2, <1>4, <1>5 DEF Held, Queued
  <2>2. Size(r) \in Nat
    BY <1>1, <2>1, UrbFacts DEF MaxTrbs
  <2>3. [own |-> r, part |-> Size(r) - n + 1] \in Trb \ {Gone}
    BY <1>4, <1>5, <2>1
  <2>4. Size(r) - n + 1 \in 1 .. MaxTrbs
    BY <2>3, GoneIsNobody
  <2>5. Size(r) - n + 1 \in 1 .. Size(r)
    BY <1>2, <1>3, <2>2, <2>4
  <2> QED  BY <2>1, <2>5
<1> QED  BY <1>1, <1>2, <1>3, <1>4, <1>5

\* The rest of a ring after the first k TRBs.
LEMMA RestOfRing ==
  ASSUME TypeOK, NEW r \in Rings, NEW k \in 0 .. Len(todo[r]),
         todo' = [todo EXCEPT ![r] = SubSeq(@, k + 1, Len(@))]
  PROVE  /\ Len(todo'[r]) = Len(todo[r]) - k /\ DOMAIN todo'[r] = 1 .. Len(todo[r]) - k
         /\ \A i \in DOMAIN todo'[r] : i + k \in DOMAIN todo[r] /\ todo'[r][i] = todo[r][i + k]
         /\ \A q \in Rings \ {r} : todo'[q] = todo[q]
<1>1. todo[r] \in Seq(Trb) /\ Len(todo[r]) \in Nat
  BY DEF TypeOK
<1>2. todo'[r] = SubSeq(todo[r], k + 1, Len(todo[r]))
  BY DEF TypeOK
<1> QED  BY <1>1, <1>2 DEF TypeOK

LEMMA TailOfRing ==
  ASSUME TypeOK, NEW r \in Rings, todo[r] # <<>>, todo' = [todo EXCEPT ![r] = Tail(@)]
  PROVE  /\ Len(todo'[r]) = Len(todo[r]) - 1 /\ DOMAIN todo'[r] = 1 .. Len(todo[r]) - 1
         /\ \A i \in DOMAIN todo'[r] : i + 1 \in DOMAIN todo[r] /\ todo'[r][i] = todo[r][i + 1]
         /\ \A q \in Rings \ {r} : todo'[q] = todo[q]
<1>1. todo[r] \in Seq(Trb) /\ Len(todo[r]) \in Nat
  BY DEF TypeOK
<1>2. todo'[r] = Tail(todo[r])
  BY DEF TypeOK
<1> QED  BY <1>1, <1>2 DEF TypeOK

\* A TRB retires: with an event, or for nobody.
RetireStep(h, t, r, code) ==
  /\ endpoint[r] = "running" /\ todo[r] # <<>>
  /\ t = Head(todo[r]) /\ t = todo[r][1] /\ 1 \in DOMAIN todo[r]
  /\ t # Gone => /\ Held(r) /\ Live(r) /\ t.own = r
                 /\ t.part = Size(r) - Len(todo[r]) + 1
                 /\ t.part \in 1 .. Size(r)
  /\ Len(todo[r]) \in Nat \ {0}
  /\ Of(h) = "gone" /\ \A p \in Pos : Of(p) # "gone" => Before(p, h)
  /\ cell'[h].body = IF t = Gone THEN Blank ELSE [trb |-> t, code |-> code]
  /\ \A p \in Pos \ {h} : cell'[p].body = cell[p].body
  /\ Len(todo'[r]) = Len(todo[r]) - 1 /\ DOMAIN todo'[r] = 1 .. Len(todo[r]) - 1
  /\ \A i \in DOMAIN todo'[r] : i + 1 \in DOMAIN todo[r] /\ todo'[r][i] = todo[r][i + 1]
  /\ \A q \in Rings \ {r} : todo'[q] = todo[q]
  /\ UNCHANGED <<endpoint, commands, alive>> /\ DriverUnchanged

LEMMA RetireEffect ==
  ASSUME TypeOK, RingInv, Blanked, Queued, NEW r \in Rings, NEW code \in Retires,
         HcComplete(r, code) \/ HcFail(r, code)
  PROVE  \E h \in Pos, t \in Trb : RetireStep(h, t, r, code)
<1>1. todo[r] # <<>> /\ endpoint[r] = "running"
  BY DEF HcComplete, HcFail
<1>2. PICK t \in Trb : 
            /\ t = Head(todo[r]) /\ t = todo[r][1] /\ 1 \in DOMAIN todo[r]
            /\ t # Gone => /\ Held(r) /\ Live(r) /\ t.own = r
                           /\ t.part = Size(r) - Len(todo[r]) + 1
                           /\ t.part \in 1 .. Size(r)
            /\ Len(todo[r]) \in Nat \ {0}
  BY <1>1, HeadQueued
<1>3. code \in Codes /\ code # "stall"
  BY DEF Retires, Codes
<1>4. /\ Post(t, code) /\ todo' = [todo EXCEPT ![r] = Tail(@)]
      /\ UNCHANGED <<endpoint, commands, alive>> /\ DriverUnchanged
  BY <1>2, <1>3 DEF HcComplete, HcFail
<1>5. PICK h \in Pos :
            /\ Of(h) = "gone" /\ \A p \in Pos : Of(p) # "gone" => Before(p, h)
            /\ cell'[h].body = IF t = Gone THEN Blank ELSE [trb |-> t, code |-> code]
            /\ \A p \in Pos \ {h} : cell'[p].body = cell[p].body
  BY <1>3, <1>4, PostEffect DEF DriverUnchanged
<1>6. /\ Len(todo'[r]) = Len(todo[r]) - 1 /\ DOMAIN todo'[r] = 1 .. Len(todo[r]) - 1
      /\ \A i \in DOMAIN todo'[r] : i + 1 \in DOMAIN todo[r] /\ todo'[r][i] = todo[r][i + 1]
      /\ \A q \in Rings \ {r} : todo'[q] = todo[q]
  BY <1>1, <1>4, TailOfRing
<1> HIDE DEF DriverUnchanged
<1>7. RetireStep(h, t, r, code)
  BY <1>1, <1>2, <1>4, <1>5, <1>6 DEF RetireStep
<1> QED  BY <1>7

\* The TRB at the head of a ring is reported and stays.
ReportStep(h, t, r, code) ==
  /\ endpoint[r] = "running" /\ todo[r] # <<>>
  /\ t = todo[r][1] /\ 1 \in DOMAIN todo[r]
  /\ t # Gone => /\ Held(r) /\ Live(r) /\ t.own = r
                 /\ t.part = Size(r) - Len(todo[r]) + 1
                 /\ t.part \in 1 .. Size(r)
  /\ Of(h) = "gone" /\ \A p \in Pos : Of(p) # "gone" => Before(p, h)
  /\ cell'[h].body = IF t = Gone THEN Blank ELSE [trb |-> t, code |-> code]
  /\ \A p \in Pos \ {h} : cell'[p].body = cell[p].body
  /\ endpoint'[r] = IF code = "stall" THEN "halted" ELSE "stopping"
  /\ \A q \in Rings \ {r} : endpoint'[q] = endpoint[q]
  /\ code = "stopped" => /\ commands # <<>> /\ Head(commands).op = "stop"
                         /\ Head(commands).ring = r
  /\ UNCHANGED <<todo, commands, alive, moved, retired>> /\ DriverUnchanged

LEMMA ReportEffect ==
  ASSUME TypeOK, RingInv, Blanked, Queued, HcStopInFlight \/ \E q \in Rings : HcFail(q, "stall")
  PROVE  \E h \in Pos, t \in Trb, r \in Rings, code \in {"stall", "stopped"} :
            ReportStep(h, t, r, code)
<1>0. endpoint \in [Rings -> {"running", "stopping", "stopped", "halted"}]
  BY DEF TypeOK
<1>1. PICK r \in Rings, code \in {"stall", "stopped"} :
            /\ endpoint[r] = "running" /\ todo[r] # <<>>
            /\ Post(Head(todo[r]), code)
            /\ endpoint'[r] = IF code = "stall" THEN "halted" ELSE "stopping"
            /\ \A q \in Rings \ {r} : endpoint'[q] = endpoint[q]
            /\ code = "stopped" => /\ commands # <<>> /\ Head(commands).op = "stop"
                                   /\ Head(commands).ring = r
            /\ UNCHANGED <<todo, commands, alive, moved, retired>> /\ DriverUnchanged
  <2>1. CASE HcStopInFlight
    <3>1. Head(commands).ring \in Rings
      BY <2>1, HeadOfCommands DEF HcStopInFlight
    <3>2. PICK r \in Rings : r = Head(commands).ring
      BY <3>1
    <3>3. /\ endpoint[r] = "running" /\ todo[r] # <<>> /\ Post(Head(todo[r]), "stopped")
          /\ endpoint' = [endpoint EXCEPT ![r] = "stopping"]
          /\ commands # <<>> /\ Head(commands).op = "stop"
          /\ UNCHANGED <<todo, commands, alive, moved, retired>> /\ DriverUnchanged
      BY <2>1, <3>2 DEF HcStopInFlight
    <3>4. endpoint'[r] = "stopping" /\ \A q \in Rings \ {r} : endpoint'[q] = endpoint[q]
      BY <1>0, <3>3
    <3> HIDE DEF Post, DriverUnchanged
    <3> QED  BY <3>2, <3>3, <3>4
  <2>2. ASSUME NEW r \in Rings, HcFail(r, "stall") 
        PROVE  \E code \in {"stall", "stopped"} :
            /\ endpoint[r] = "running" /\ todo[r] # <<>>
            /\ Post(Head(todo[r]), code)
            /\ endpoint'[r] = IF code = "stall" THEN "halted" ELSE "stopping"
            /\ \A q \in Rings \ {r} : endpoint'[q] = endpoint[q]
            /\ code = "stopped" => /\ commands # <<>> /\ Head(commands).op = "stop"
                                   /\ Head(commands).ring = r
            /\ UNCHANGED <<todo, commands, alive, moved, retired>> /\ DriverUnchanged
    <3>3. /\ endpoint[r] = "running" /\ todo[r] # <<>> /\ Post(Head(todo[r]), "stall")
          /\ endpoint' = [endpoint EXCEPT ![r] = "halted"]
          /\ UNCHANGED <<todo, commands, alive, moved, retired>> /\ DriverUnchanged
      BY <2>2 DEF HcFail
    <3>4. endpoint'[r] = "halted" /\ \A q \in Rings \ {r} : endpoint'[q] = endpoint[q]
      BY <1>0, <3>3
    <3> HIDE DEF Post, DriverUnchanged
    <3> QED  BY <3>3, <3>4
  <2> QED  BY <2>1, <2>2, Zenon
<1>2. PICK t \in Trb : 
            /\ t = Head(todo[r]) /\ t = todo[r][1] /\ 1 \in DOMAIN todo[r]
            /\ t # Gone => /\ Held(r) /\ Live(r) /\ t.own = r
                           /\ t.part = Size(r) - Len(todo[r]) + 1
                           /\ t.part \in 1 .. Size(r)
            /\ Len(todo[r]) \in Nat \ {0}
  BY <1>1, HeadQueued
<1>3. code \in Codes /\ Post(t, code)
  BY <1>1, <1>2 DEF Codes
<1>5. PICK h \in Pos :
            /\ Of(h) = "gone" /\ \A p \in Pos : Of(p) # "gone" => Before(p, h)
            /\ cell'[h].body = IF t = Gone THEN Blank ELSE [trb |-> t, code |-> code]
            /\ \A p \in Pos \ {h} : cell'[p].body = cell[p].body
  BY <1>1, <1>3, PostEffect DEF DriverUnchanged
<1> HIDE DEF DriverUnchanged
<1>6. /\ endpoint[r] = "running" /\ todo[r] # <<>>
      /\ t = todo[r][1] /\ 1 \in DOMAIN todo[r]
      /\ t # Gone => /\ Held(r) /\ Live(r) /\ t.own = r
                     /\ t.part = Size(r) - Len(todo[r]) + 1
                     /\ t.part \in 1 .. Size(r)
  BY <1>1, <1>2, Zenon
<1>7. ReportStep(h, t, r, code)
  BY <1>1, <1>5, <1>6, Zenon DEF ReportStep
<1> QED  BY <1>7

\* The command at the head of the command ring.
CommandStep(h, c) ==
  /\ c = commands[1] /\ 1 \in DOMAIN commands
  /\ c.trb \in Trb /\ c.ring \in Rings
  /\ Of(h) = "gone" /\ \A p \in Pos : Of(p) # "gone" => Before(p, h)
  /\ cell'[h].body = IF c.trb = Gone THEN Blank
                     ELSE [trb |-> c.trb, code |-> IF Fits(c) THEN "success" ELSE "state"]
  /\ \A p \in Pos \ {h} : cell'[p].body = cell[p].body
  /\ endpoint'[c.ring] = IF Fits(c) THEN "stopped" ELSE endpoint[c.ring]
  /\ \A q \in Rings \ {c.ring} : endpoint'[q] = endpoint[q]
  /\ \E k \in 0 .. Len(todo[c.ring]) :
       /\ k # 0 => Fits(c) /\ c.op = "dequeue"
       /\ Fits(c) /\ c.op = "dequeue" =>
            /\ c.trb = Gone => \A i \in 1 .. k : todo[c.ring][i] = Gone
            /\ c.trb # Gone => k = Len(todo[c.ring])
       /\ Len(todo'[c.ring]) = Len(todo[c.ring]) - k
       /\ DOMAIN todo'[c.ring] = 1 .. Len(todo[c.ring]) - k
       /\ \A i \in DOMAIN todo'[c.ring] :
            i + k \in DOMAIN todo[c.ring] /\ todo'[c.ring][i] = todo[c.ring][i + k]
  /\ \A q \in Rings \ {c.ring} : todo'[q] = todo[q]
  /\ \A i \in DOMAIN commands' :
       i + 1 \in DOMAIN commands /\ i + 1 # 1 /\ commands'[i] = commands[i + 1]
  /\ UNCHANGED <<alive, moved, retired>> /\ DriverUnchanged

LEMMA CommandEffect ==
  ASSUME TypeOK, RingInv, Blanked, HcCommand
  PROVE  \E h \in Pos, c \in Command : CommandStep(h, c)
<1>0. endpoint \in [Rings -> {"running", "stopping", "stopped", "halted"}]
      /\ commands \in Seq(Command) /\ commands # <<>>
  BY DEF TypeOK, HcCommand
<1>1. PICK c \in Command : c = Head(commands) /\ c.trb \in Trb /\ c.ring \in Rings
  BY <1>0, HeadOfCommands
<1>2. /\ Post(c.trb, IF Fits(c) THEN "success" ELSE "state")
      /\ endpoint' = IF Fits(c) THEN [endpoint EXCEPT ![c.ring] = "stopped"] ELSE endpoint
      /\ IF Fits(c) /\ c.op = "dequeue"
         THEN \E k \in 0 .. Len(todo[c.ring]) :
                 Drops(c, k) /\ todo' = [todo EXCEPT ![c.ring] = SubSeq(@, k + 1, Len(@))]
         ELSE UNCHANGED todo
      /\ commands' = Tail(commands)
      /\ UNCHANGED <<alive, moved, retired>> /\ DriverUnchanged
  BY <1>1 DEF HcCommand
<1>3. PICK code \in Codes : code = IF Fits(c) THEN "success" ELSE "state"
  BY DEF Codes
<1>4. PICK h \in Pos :
            /\ Of(h) = "gone" /\ \A p \in Pos : Of(p) # "gone" => Before(p, h)
            /\ cell'[h].body = IF c.trb = Gone THEN Blank ELSE [trb |-> c.trb, code |-> code]
            /\ \A p \in Pos \ {h} : cell'[p].body = cell[p].body
  BY <1>1, <1>2, <1>3, PostEffect DEF DriverUnchanged
<1>5. endpoint'[c.ring] = (IF Fits(c) THEN "stopped" ELSE endpoint[c.ring])
      /\ \A q \in Rings \ {c.ring} : endpoint'[q] = endpoint[q]
  BY <1>0, <1>1, <1>2
<1>6. \A i \in DOMAIN commands' :
        i + 1 \in DOMAIN commands /\ i + 1 # 1 /\ commands'[i] = commands[i + 1]
  BY <1>0, <1>2
<1>7. c = commands[1] /\ 1 \in DOMAIN commands
  BY <1>0, <1>1
<1>8. \A q \in Rings \ {c.ring} : todo'[q] = todo[q]
  BY <1>1, <1>2 DEF TypeOK
<1>9. \E k \in 0 .. Len(todo[c.ring]) :
         /\ k # 0 => Fits(c) /\ c.op = "dequeue"
         /\ Fits(c) /\ c.op = "dequeue" =>
              /\ c.trb = Gone => \A i \in 1 .. k : todo[c.ring][i] = Gone
              /\ c.trb # Gone => k = Len(todo[c.ring])
         /\ Len(todo'[c.ring]) = Len(todo[c.ring]) - k
         /\ DOMAIN todo'[c.ring] = 1 .. Len(todo[c.ring]) - k
         /\ \A i \in DOMAIN todo'[c.ring] :
              i + k \in DOMAIN todo[c.ring] /\ todo'[c.ring][i] = todo[c.ring][i + k]
  <2>1. CASE Fits(c) /\ c.op = "dequeue"
    <3>1. PICK k \in 0 .. Len(todo[c.ring]) :
                 Drops(c, k) /\ todo' = [todo EXCEPT ![c.ring] = SubSeq(@, k + 1, Len(@))]
      BY <1>2, <2>1
    <3>2. /\ c.trb = Gone => \A i \in 1 .. k : todo[c.ring][i] = Gone
          /\ c.trb # Gone => k = Len(todo[c.ring])
      BY <3>1 DEF Drops
    <3>3. /\ Len(todo'[c.ring]) = Len(todo[c.ring]) - k
          /\ DOMAIN todo'[c.ring] = 1 .. Len(todo[c.ring]) - k
          /\ \A i \in DOMAIN todo'[c.ring] :
               i + k \in DOMAIN todo[c.ring] /\ todo'[c.ring][i] = todo[c.ring][i + k]
      BY <1>1, <3>1, RestOfRing
    <3> QED  BY <2>1, <3>2, <3>3
  <2>2. CASE ~(Fits(c) /\ c.op = "dequeue")
    <3>1. todo' = todo /\ todo[c.ring] \in Seq(Trb)
      BY <1>1, <1>2, <2>2 DEF TypeOK
    <3> WITNESS 0 \in 0 .. Len(todo[c.ring])
    <3> QED  BY <2>2, <3>1
  <2> QED  BY <2>1, <2>2
<1>10. cell'[h].body = IF c.trb = Gone THEN Blank
                       ELSE [trb |-> c.trb, code |-> IF Fits(c) THEN "success" ELSE "state"]
  BY <1>3, <1>4, Zenon
<1>11. CommandStep(h, c)
  BY <1>1, <1>2, <1>4, <1>5, <1>6, <1>7, <1>8, <1>9, <1>10, Zenon DEF CommandStep
<1> QED  BY <1>11

LEMMA ConcatFacts ==
  ASSUME NEW S, NEW s \in Seq(S), NEW t \in Seq(S)
  PROVE  /\ Len(s \o t) = Len(s) + Len(t) /\ DOMAIN (s \o t) = 1 .. Len(s) + Len(t)
         /\ Len(s) \in Nat /\ DOMAIN s = 1 .. Len(s)
         /\ \A i \in 1 .. Len(s) + Len(t) :
              (s \o t)[i] = IF i <= Len(s) THEN s[i] ELSE t[i - Len(s)]
OBVIOUS

\* A URB's TRBs are put on its ring.
LEMMA QueueEffect ==
  ASSUME TypeOK, NEW r \in Rings, NEW kind \in Kinds, Queue(r, kind)
  PROVE  /\ Len(Shape(kind)) \in 1 .. MaxTrbs
         /\ Len(todo[r]) \in Nat /\ Len(todo'[r]) = Len(todo[r]) + Len(Shape(kind))
         /\ DOMAIN todo[r] = 1 .. Len(todo[r]) /\ DOMAIN todo'[r] = 1 .. Len(todo'[r])
         /\ \A i \in DOMAIN todo'[r] :
              todo'[r][i] = IF i <= Len(todo[r]) THEN todo[r][i]
                            ELSE [own |-> r, part |-> i - Len(todo[r])]
         /\ \A q \in Rings \ {r} : todo'[q] = todo[q] /\ endpoint'[q] = endpoint[q]
                                   /\ moved'[q] = moved[q]
         /\ endpoint'[r] = IF endpoint[r] = "stopped" THEN "running" ELSE endpoint[r]
         /\ moved'[r] = 0
         /\ urb'[r].kind = kind /\ kind # "none" /\ ~urb'[r].finished /\ urb'[r].result = NoError
         /\ ~urb'[r].end /\ urb'[r].completed = 0
         /\ \A o \in Owners \ {r} : urb'[o] = urb[o]
<1>1. r \in Owners /\ todo[r] \in Seq(Trb) /\ kind # "none" /\ urb \in [Owners -> UrbRecord]
      /\ endpoint \in [Rings -> {"running", "stopping", "stopped", "halted"}]
      /\ moved \in [Rings -> Nat]
  BY DEF TypeOK, Owners, Kinds
<1>2. PICK n \in 1 .. MaxTrbs : n = Len(Shape(kind))
  BY ShapeSeq
<1>3. DOMAIN Shape(kind) = 1 .. n
  BY <1>2, ShapeSeq
<1>4. Trbs(r, kind) = [i \in 1 .. n |-> [own |-> r, part |-> i]]
  BY <1>3 DEF Trbs
<1>5. todo'[r] = todo[r] \o Trbs(r, kind) /\ \A q \in Rings \ {r} : todo'[q] = todo[q]
  BY DEF Queue, TypeOK
<1>6. n \in Nat /\ n >= 1
  BY <1>2 DEF MaxTrbs
<1>7. Trbs(r, kind) \in Seq(Trb) /\ DOMAIN Trbs(r, kind) = 1 .. n
  BY <1>1, <1>4, TrbsSeq
<1>8. Len(Trbs(r, kind)) = n
  BY <1>6, <1>7
<1>9. /\ Len(todo[r]) \in Nat /\ Len(todo'[r]) = Len(todo[r]) + n
      /\ DOMAIN todo[r] = 1 .. Len(todo[r]) /\ DOMAIN todo'[r] = 1 .. Len(todo'[r])
      /\ \A i \in DOMAIN todo'[r] :
              todo'[r][i] = IF i <= Len(todo[r]) THEN todo[r][i]
                            ELSE Trbs(r, kind)[i - Len(todo[r])]
  <2>1. PICK s : s = todo[r]
    OBVIOUS
  <2>2. PICK t : t = Trbs(r, kind)
    OBVIOUS
  <2>3. PICK u : u = todo'[r]
    OBVIOUS
  <2>4. s \in Seq(Trb) /\ t \in Seq(Trb) /\ u = s \o t /\ Len(t) = n
    BY <1>1, <1>5, <1>7, <1>8, <2>1, <2>2, <2>3
  <2>5. /\ Len(u) = Len(s) + n /\ DOMAIN u = 1 .. Len(s) + n
        /\ Len(s) \in Nat /\ DOMAIN s = 1 .. Len(s)
        /\ \A i \in 1 .. Len(s) + n : u[i] = IF i <= Len(s) THEN s[i] ELSE t[i - Len(s)]
    BY <2>4, ConcatFacts
  <2> QED  BY <2>1, <2>2, <2>3, <2>5
<1>10. ASSUME NEW i \in DOMAIN todo'[r], ~(i <= Len(todo[r]))
       PROVE  Trbs(r, kind)[i - Len(todo[r])] = [own |-> r, part |-> i - Len(todo[r])]
  BY <1>4, <1>6, <1>9, <1>10
<1>11. /\ urb'[r] = NewUrb(kind) /\ \A o \in Owners \ {r} : urb'[o] = urb[o]
       /\ endpoint'[r] = IF endpoint[r] = "stopped" THEN "running" ELSE endpoint[r]
       /\ moved'[r] = 0
       /\ \A q \in Rings \ {r} : endpoint'[q] = endpoint[q] /\ moved'[q] = moved[q]
  BY <1>1 DEF Queue
<1>12. /\ NewUrb(kind).kind = kind /\ ~NewUrb(kind).finished /\ NewUrb(kind).result = NoError
       /\ ~NewUrb(kind).end /\ NewUrb(kind).completed = 0
  BY DEF NewUrb, None
<1>13. /\ urb'[r].kind = kind /\ ~urb'[r].finished /\ urb'[r].result = NoError
       /\ ~urb'[r].end /\ urb'[r].completed = 0
  BY <1>11, <1>12
<1> QED  BY <1>1, <1>2, <1>5, <1>9, <1>10, <1>11, <1>13

LEMMA NoUrb ==
  /\ None.kind = "none" /\ ~None.finished /\ None.result = NoError /\ ~None.end
  /\ None.completed = 0
BY DEF None

\* Steps that leave the hardware and the URBs' places as they are.
Quiet ==
  \/ CheckBegin \/ CheckEnd \/ PollAgain \/ TransferTimesOut \/ TransferFinishes
  \/ RecoverOrReturn \/ DeleteAsync \/ Tick \/ UNCHANGED vars
  \/ TickEnds /\ ~(Done /\ urb["async"].result = NoError)

LEMMA QuietEffect ==
  ASSUME TypeOK, Calling, Quiet
  PROVE  /\ UNCHANGED <<cell, hcEnqueue, todo, endpoint, commands, alive, moved, retired, excused>>
         /\ ring'.dequeue = ring.dequeue
         /\ \A o \in Owners :
              /\ urb'[o].kind = urb[o].kind /\ urb'[o].finished = urb[o].finished
              /\ urb'[o].end = urb[o].end /\ urb'[o].completed = urb[o].completed
              /\ \/ urb'[o].result = urb[o].result
                 \/ /\ urb'[o].result = urb[o].result \cup {"SYSTEM"}
                    /\ ~urb[o].finished /\ ~alive /\ at' = "publish" /\ UNCHANGED <<op, phase, status>>
                 \/ urb'[o].result = NoError /\ o = "sync" /\ TransferTimesOut
                 \/ urb'[o].result = NoError /\ o = "async" /\ DeleteAsync
         /\ Live("cmd") => UNCHANGED <<op, phase>>
<1>0. ring \in [dequeue : Pos, enqueue : Pos, ccs : {0, 1}]
  BY DEF TypeOK
<1>1. CASE UNCHANGED urb
  <2>1. CASE CheckBegin
    BY <1>0, <1>1, <2>1 DEF CheckBegin, Sync, hardware, history
  <2>2. CASE CheckEnd \/ PollAgain \/ UNCHANGED vars
    BY <1>1, <2>2 DEF CheckEnd, PollAgain, vars, hardware, history
  <2>3. CASE TransferTimesOut \/ TransferFinishes \/ RecoverOrReturn
    BY <1>1, <2>3 DEF TransferTimesOut, TransferFinishes, RecoverOrReturn, hardware, history,
         Calling, CommandPhases, Polling
  <2>4. CASE DeleteAsync \/ Tick
    BY <1>1, <2>4 DEF DeleteAsync, Tick, hardware, history, Calling, Idle, Polling
  <2>5. CASE TickEnds /\ ~(Done /\ urb["async"].result = NoError)
    BY <1>1, <2>5 DEF TickEnds, hardware, history, Calling, CommandPhases
  <2> QED  BY <2>1, <2>2, <2>3, <2>4, <2>5 DEF Quiet
<1>2. CASE CheckBegin /\ ~UNCHANGED urb
  <2>1. /\ ~urb[Current].finished /\ ~alive /\ at' = "publish" /\ UNCHANGED ring
        /\ urb' = [urb EXCEPT ![Current].result = @ \cup {"SYSTEM"}]
        /\ UNCHANGED <<hardware, history, op, phase, status>>
    BY <1>2 DEF CheckBegin
  <2>2. Current \in Owners /\ urb \in [Owners -> UrbRecord]
    BY CurrentOwner DEF TypeOK
  <2>3. \A o \in Owners \ {Current} : urb'[o] = urb[o]
    BY <2>1, <2>2
  <2>4. urb'[Current] = [urb[Current] EXCEPT !.result = @ \cup {"SYSTEM"}]
    BY <2>1, <2>2
  <2>5. /\ urb'[Current].kind = urb[Current].kind /\ urb'[Current].finished = urb[Current].finished
        /\ urb'[Current].end = urb[Current].end /\ urb'[Current].completed = urb[Current].completed
        /\ urb'[Current].result = urb[Current].result \cup {"SYSTEM"}
    BY <2>2, <2>4 DEF UrbRecord
  <2> QED  BY <2>1, <2>2, <2>3, <2>5 DEF hardware, history
<1>3. ASSUME NEW r \in Rings, StopEndpoint(r)
      PROVE  /\ \A o \in Owners \ {r} : urb'[o] = urb[o]
             /\ urb'[r].kind = urb[r].kind /\ urb'[r].finished = urb[r].finished
             /\ urb'[r].end = urb[r].end /\ urb'[r].completed = urb[r].completed
             /\ urb'[r].result = NoError
  <2>1. urb' = [urb EXCEPT ![r].result = NoError] /\ urb \in [Owners -> UrbRecord] /\ r \in Owners
    BY <1>3 DEF StopEndpoint, TypeOK, Owners
  <2>2. urb'[r] = [urb[r] EXCEPT !.result = NoError]
    BY <2>1
  <2> QED  BY <2>1, <2>2 DEF UrbRecord
<1>4. CASE TransferTimesOut
  <2>1. StopEndpoint("sync") /\ "sync" \in Rings
    BY <1>4 DEF TransferTimesOut, Rings
  <2>2. /\ UNCHANGED <<cell, hcEnqueue, todo, endpoint, commands, alive, moved, retired, excused>>
        /\ ring'.dequeue = ring.dequeue
    BY <1>4 DEF TransferTimesOut, hardware, history
  <2>3. ~Live("cmd")
    BY <1>4 DEF TransferTimesOut, Calling, CommandPhases
  <2> HIDE DEF StopEndpoint
  <2> QED  BY <1>3, <1>4, <2>1, <2>2, <2>3
<1>5. CASE DeleteAsync
  <2>1. StopEndpoint("async") /\ "async" \in Rings
    BY <1>5 DEF DeleteAsync, Rings
  <2>2. /\ UNCHANGED <<cell, hcEnqueue, todo, endpoint, commands, alive, moved, retired, excused>>
        /\ ring'.dequeue = ring.dequeue
    BY <1>5 DEF DeleteAsync, hardware, history
  <2>3. ~Live("cmd")
    BY <1>5 DEF DeleteAsync, Idle, Calling, Polling
  <2> HIDE DEF StopEndpoint
  <2> QED  BY <1>3, <1>5, <2>1, <2>2, <2>3
<1>6. CASE ~(TransferTimesOut \/ DeleteAsync \/ CheckBegin)
  <2>1. UNCHANGED urb
    BY <1>6 DEF Quiet, CheckEnd, PollAgain, TransferFinishes, RecoverOrReturn, Tick, TickEnds, vars
  <2> QED  BY <1>1, <2>1
<1> QED  BY <1>1, <1>2, <1>4, <1>5, <1>6

\* A command is done with, or was never issued.
CommandDone(ok) ==
  /\ CommandEnds(ok) /\ Free("cmd") /\ phase \in CommandPhases /\ at = "polled"
  /\ ok <=> urb["cmd"].finished /\ urb["cmd"].result = NoError
  /\ UNCHANGED <<hcEnqueue, ring, op, alive, moved, retired>>

CommandLost ==
  /\ CommandEnds(FALSE) /\ phase \in CommandPhases /\ at = "issue"
  /\ UNCHANGED <<cell, hcEnqueue, todo, commands, ring, urb, op, alive, moved, retired>>

\* A URB is put on its ring, for the first time or again.
Starts(r, kind) ==
  /\ Queue(r, kind)
  /\ UNCHANGED <<cell, hcEnqueue, commands, alive, ring, pending, status, excused>>
  /\ r = "sync" => /\ op = "none" /\ phase = "none" /\ at = "idle" /\ ~Live("sync")
                   /\ op' = "xfer" /\ phase' = "exec" /\ at' = "check" /\ retired' = 0
  /\ r = "async" => /\ op \in {"none", "tick"} /\ kind = "int"
                    /\ op' = "none" /\ phase' = "none" /\ at' = "idle" /\ retired' = retired
                    /\ \/ ~Live("async")
                       \/ urb["async"].finished /\ urb["async"].result = NoError /\ op = "tick"

\* Every step of the driver, of its callers and no step at all.
LEMMA DriverCases ==
  ASSUME TypeOK, Calling, Replying, [Next]_vars, ~Controller
  PROVE  \/ HandleEvent
         \/ \E ok \in BOOLEAN : CommandDone(ok)
         \/ CommandLost
         \/ Return
         \/ \E r \in Rings, kind \in Kinds \ {"command"} : Starts(r, kind)
         \/ IssueCommand /\ alive
         \/ Quiet
<1>1. CASE CommandTimesOut \/ CommandFinishes
  <2>1. phase \in CommandPhases
    BY <1>1 DEF CommandTimesOut, CommandFinishes, TypeOK, CommandPhases
  <2>2. Current = "cmd"
    BY <2>1 DEF Current, CommandPhases
  <2>3. PICK ok \in BOOLEAN : ok <=> urb["cmd"].finished /\ urb["cmd"].result = NoError
    OBVIOUS
  <2>4. CommandEnds(ok)
    <3>1. CASE CommandTimesOut
      BY <2>2, <2>3, <3>1 DEF CommandTimesOut, Done
    <3>2. CASE CommandFinishes
      <4>1. CommandEnds(urb["cmd"].result = NoError) /\ urb["cmd"].finished
        BY <2>2, <3>2 DEF CommandFinishes, Done
      <4>2. CASE urb["cmd"].result = NoError
        BY <2>3, <4>1, <4>2, Zenon
      <4>3. CASE urb["cmd"].result # NoError
        BY <2>3, <4>1, <4>3, Zenon
      <4> QED  BY <4>2, <4>3
    <3> QED  BY <1>1, <3>1, <3>2
  <2>5. /\ Free("cmd") /\ at = "polled" /\ UNCHANGED <<hcEnqueue, ring, op, alive, moved, retired>>
    BY <1>1 DEF CommandTimesOut, CommandFinishes, Polled
  <2>6. CommandDone(ok)
    BY <2>1, <2>3, <2>4, <2>5 DEF CommandDone
  <2> QED  BY <2>6
<1>2. CASE IssueCommand /\ ~alive
  BY <1>2 DEF IssueCommand, Calling, CommandLost
<1>3. ASSUME NEW kind \in TransferKinds, Submit(kind)
      PROVE  \E r \in Rings, k \in Kinds \ {"command"} : Starts(r, k)
  <2>1. "sync" \in Rings /\ kind \in Kinds \ {"command"} /\ "sync" # "async"
    BY DEF Rings, Kinds
  <2>2. /\ op = "none" /\ phase = "none" /\ at = "idle" /\ ~Live("sync")
    BY <1>3 DEF Submit, Idle, Calling
  <2>3. /\ Queue("sync", kind) /\ op' = "xfer" /\ phase' = "exec" /\ at' = "check" /\ retired' = 0
        /\ UNCHANGED <<cell, hcEnqueue, commands, alive, ring, pending, status, excused>>
    BY <1>3 DEF Submit
  <2>4. Starts("sync", kind)
    BY <2>1, <2>2, <2>3 DEF Starts
  <2> QED  BY <2>1, <2>4
<1>4. ASSUME SubmitAsync \/ (TickEnds /\ Done /\ urb["async"].result = NoError)
      PROVE  \E r \in Rings, k \in Kinds \ {"command"} : Starts(r, k)
  <2>1. "async" \in Rings /\ "int" \in Kinds \ {"command"} /\ "sync" # "async"
    BY DEF Rings, Kinds
  <2>2. /\ op \in {"none", "tick"}
        /\ \/ ~Live("async") 
           \/ urb["async"].finished /\ urb["async"].result = NoError /\ op = "tick"
    BY <1>4 DEF SubmitAsync, Idle, Calling, TickEnds, Done, Current, Target
  <2>3. /\ Queue("async", "int") /\ op' = "none" /\ phase' = "none" /\ at' = "idle"
        /\ retired' = retired
        /\ UNCHANGED <<cell, hcEnqueue, commands, alive, ring, pending, status, excused>>
    BY <1>4 DEF SubmitAsync, Idle, Calling, TickEnds
  <2>4. Starts("async", "int")
    BY <2>1, <2>2, <2>3 DEF Starts
  <2> QED  BY <2>1, <2>4
<1>5. \/ HandleEvent \/ CommandTimesOut \/ CommandFinishes \/ IssueCommand \/ Return \/ Quiet
      \/ \E kind \in TransferKinds : Submit(kind)
      \/ SubmitAsync \/ (TickEnds /\ Done /\ urb["async"].result = NoError)
  BY Zenon DEF Next, Driver, Calls, Quiet
<1> QED  BY <1>1, <1>2, <1>3, <1>4, <1>5, Zenon

LEMMA ControllerCases ==
  ASSUME Controller
  PROVE  \/ \E r \in Rings, code \in Retires : HcComplete(r, code) \/ HcFail(r, code)
         \/ HcStopInFlight \/ \E q \in Rings : HcFail(q, "stall")
         \/ HcCommand
         \/ HcDies
<1>1. {"success", "short"} \subseteq Retires /\ TransferErrors \subseteq Retires \cup {"stall"}
  BY DEF Retires
<1> QED  BY <1>1 DEF Controller

\* What the reading of an event does.
LEMMA HandleFacts ==
  ASSUME TypeOK, RingInv, HandleEvent
  PROVE  \E d \in Pos :
            /\ d = ring.dequeue
            /\ \A p \in Pos \ {d} : Before(d, p)
            /\ \A p, q \in Pos \ {d} : Before(p, q)' <=> Before(p, q)
            /\ cell'[d].body = Blank /\ \A p \in Pos \ {d} : cell'[p].body = cell[p].body
            /\ at = "drain" /\ at' \in {"drain", "publish"}
            /\ UNCHANGED <<todo, endpoint, commands, alive, op, phase, pending, status>>
            /\ UNCHANGED <<moved, retired, excused>>
            /\ \A o \in Owners : /\ urb'[o].kind = urb[o].kind
                                 /\ o # Of(d) => urb'[o] = urb[o]
            /\ Of(d) \notin {pending, Current, "async"} => urb' = urb
            /\ Of(d) \in {pending, Current, "async"} => Of(d) \in Owners
            /\ \A o \in Owners : o = Of(d) /\ o \in {pending, Current, "async"} =>
                 /\ Code(d) \in {"success", "short"} =>
                      /\ urb'[o].result = urb[o].result
                      /\ urb'[o].end <=> urb[o].end \/ Part(d) = Size(o)
                      /\ urb'[o].finished => urb[o].finished \/ urb'[o].end
                      /\ urb[o].finished => urb'[o].finished
                      /\ urb'[o].completed =
                           IF IsData(cell[d].body.trb) /\ Code(d) = "success"
                           THEN urb[o].completed + 1 ELSE urb[o].completed
                 /\ Code(d) \notin {"success", "short"} =>
                      /\ urb'[o].result = urb[o].result \cup {Flag(Code(d))}
                      /\ urb'[o].finished
                      /\ urb'[o].end = urb[o].end /\ urb'[o].completed = urb[o].completed
<1>1. PICK d \in Pos :
            /\ d = ring.dequeue
            /\ \A p \in Pos \ {d} : Before(d, p)
            /\ \A p, q \in Pos \ {d} : Before(p, q)' <=> Before(p, q)
            /\ cell'[d].body = Blank /\ \A p \in Pos \ {d} : cell'[p].body = cell[p].body
  BY HandleEffect
<1>2. /\ at = "drain"
      /\ UNCHANGED <<todo, endpoint, commands, alive, op, phase, pending, status>>
      /\ UNCHANGED <<moved, retired, excused>>
      /\ at' \in {"drain", "publish"}
  BY DEF HandleEvent, history
<1>3. \A o \in Owners : /\ urb'[o].kind = urb[o].kind
                        /\ o # Of(d) => urb'[o] = urb[o]
  BY <1>1, HandleUrbs
<1>4. /\ Of(d) \notin {pending, Current, "async"} => urb' = urb
      /\ Of(d) \in {pending, Current, "async"} =>
           Of(d) \in Owners /\ urb' = [urb EXCEPT ![Of(d)] = Completion(@, cell[d].body.trb, Code(d))]
  BY <1>1, HandleCases
<1>5. ASSUME NEW o \in Owners, o = Of(d), o \in {pending, Current, "async"}
      PROVE  /\ Code(d) \in {"success", "short"} =>
                      /\ urb'[o].result = urb[o].result
                      /\ urb'[o].end <=> urb[o].end \/ Part(d) = Size(o)
                      /\ urb'[o].finished => urb[o].finished \/ urb'[o].end
                      /\ urb[o].finished => urb'[o].finished
                      /\ urb'[o].completed =
                           IF IsData(cell[d].body.trb) /\ Code(d) = "success"
                           THEN urb[o].completed + 1 ELSE urb[o].completed
             /\ Code(d) \notin {"success", "short"} =>
                      /\ urb'[o].result = urb[o].result \cup {Flag(Code(d))}
                      /\ urb'[o].finished
                      /\ urb'[o].end = urb[o].end /\ urb'[o].completed = urb[o].completed
  <2>1. PICK t \in Trb : t = cell[d].body.trb
    BY EventFacts
  <2>2. Code(d) \in Codes /\ urb[o] \in UrbRecord
    BY EventFacts, UrbFacts
  <2>3. urb'[o] = Completion(urb[o], t, Code(d))
    BY <1>4, <1>5, <2>1 DEF TypeOK
  <2>4. IsEnd(t) <=> Part(d) = Size(o)
    BY <1>5, <2>1 DEF IsEnd, Part, Size, Of
  <2> QED  BY <2>1, <2>2, <2>3, <2>4, CompletionFacts
<1> QED  BY <1>1, <1>2, <1>3, <1>4, <1>5

LEMMA Flagged == /\ \A code \in Codes : Flag(code) \in Flags \ {"SYSTEM"}
                 /\ Flag("stall") = "STALL" /\ Flag("buffer") = "BUFFER"
                 /\ Flag("state") = "TRANSACTION" /\ Flag("stopped") = "TIMEOUT"
BY DEF Flag, Flags, Codes

-----------------------------------------------------------------------------
\* What URBs come to.

LEMMA ResultsHandle ==
  ASSUME TypeOK, RingInv, Posted, Results, HandleEvent
  PROVE  Results'
<1>1. PICK d \in Pos :
            /\ at = "drain" /\ at' \in {"drain", "publish"}
            /\ UNCHANGED <<alive, op, phase, pending, status>>
            /\ \A o \in Owners : o # Of(d) => urb'[o] = urb[o]
            /\ Of(d) \notin {pending, Current, "async"} => urb' = urb
            /\ Of(d) \in {pending, Current, "async"} => Of(d) \in Owners
            /\ \A o \in Owners : o = Of(d) /\ o \in {pending, Current, "async"} =>
                 /\ Code(d) \in {"success", "short"} =>
                      /\ urb'[o].result = urb[o].result
                      /\ urb'[o].end <=> urb[o].end \/ Part(d) = Size(o)
                      /\ urb'[o].finished => urb[o].finished \/ urb'[o].end
                      /\ urb[o].finished => urb'[o].finished
                 /\ Code(d) \notin {"success", "short"} =>
                      /\ urb'[o].result = urb[o].result \cup {Flag(Code(d))}
                      /\ urb'[o].finished
  BY HandleFacts
<1>2. CASE Of(d) \notin {pending, Current, "async"}
  BY <1>1, <1>2 DEF Results
<1>3. ASSUME Of(d) \in {pending, Current, "async"} PROVE Results'
  <2>1. PICK o \in Owners : o = Of(d) /\ o \in {pending, Current, "async"}
    BY <1>1, <1>3
  <2>2. Code(d) \in Codes /\ "sync" \in Rings /\ Rings \subseteq Owners
    BY EventFacts DEF Rings, Owners
  <2>3. o \in Rings => Code(d) # "state"
    BY <2>1 DEF Posted
  <2>4. \A p \in Owners : "SYSTEM" \notin urb[p].result
    BY <1>1 DEF Results
  <2>5. CASE Code(d) \in {"success", "short"}
    <3>1. /\ urb'[o].result = urb[o].result
          /\ urb'[o].end <=> urb[o].end \/ Part(d) = Size(o)
          /\ urb'[o].finished => urb[o].finished \/ urb'[o].end
          /\ urb[o].finished => urb'[o].finished
          /\ \A q \in Owners \ {o} : urb'[q] = urb[q]
      BY <1>1, <2>1, <2>5
    <3> QED  BY <1>1, <2>2, <2>4, <3>1 DEF Results
  <2>6. CASE Code(d) \notin {"success", "short"}
    <3>1. /\ urb'[o].result = urb[o].result \cup {Flag(Code(d))}
          /\ urb'[o].finished
          /\ \A q \in Owners \ {o} : urb'[q] = urb[q]
      BY <1>1, <2>1, <2>6
    <3>2. Flag(Code(d)) # "SYSTEM"
      BY <2>2, Flagged
    <3>3. o \in Rings => Flag(Code(d)) # "TRANSACTION"
      BY <2>2, <2>3, <2>6 DEF Flag, Codes
    <3>4. urb'[o].result # NoError
      BY <3>1 DEF NoError
    <3> QED  BY <1>1, <2>2, <2>4, <3>1, <3>2, <3>3, <3>4 DEF Results
  <2> QED  BY <2>5, <2>6
<1> QED  BY <1>2, <1>3

LEMMA ResultsQuiet ==
  ASSUME TypeOK, Calling, Replying, Results, Quiet
  PROVE  Results'
<1>1. /\ alive' = alive
      /\ \A o \in Owners :
              /\ urb'[o].finished = urb[o].finished /\ urb'[o].end = urb[o].end
              /\ \/ urb'[o].result = urb[o].result
                 \/ /\ urb'[o].result = urb[o].result \cup {"SYSTEM"}
                    /\ ~urb[o].finished /\ ~alive /\ at' = "publish" /\ UNCHANGED <<op, phase, status>>
                 \/ urb'[o].result = NoError /\ o = "sync" /\ TransferTimesOut
                 \/ urb'[o].result = NoError /\ o = "async" /\ DeleteAsync
  BY QuietEffect
<1>2. Rings \subseteq Owners /\ "sync" \in Rings /\ Rings = {"sync", "async"}
  BY DEF Rings, Owners
<1>3. /\ TransferTimesOut => ~urb["sync"].finished /\ op = "xfer"
      /\ DeleteAsync => op' = "delete"
  BY DEF TransferTimesOut, Done, Current, Target, DeleteAsync
<1>4. at' = "drain" => at = "drain" \/ alive
  BY DEF Quiet, CheckBegin, CheckEnd, PollAgain, TransferTimesOut, StopEndpoint, TransferFinishes,
     RecoverOrReturn, DeleteAsync, Tick, vars, TickEnds
<1>5. \/ op' = op
      \/ /\ op = "none" \/ op = "tick" 
         /\ op' \in {"none", "tick"} \/ DeleteAsync
  BY DEF Quiet, CheckBegin, CheckEnd, PollAgain, TransferTimesOut, StopEndpoint, TransferFinishes,
     RecoverOrReturn, DeleteAsync, Tick, vars, TickEnds, Idle, Calling
<1>6. at' \in {"tail", "return"} /\ op' = "xfer" /\ status' = "SUCCESS" =>
        urb["sync"].finished /\ urb["sync"].result = NoError /\ urb'["sync"].result = NoError
  <2>1. CASE TransferFinishes
    BY <2>1 DEF TransferFinishes, Done, Current, Target
  <2>2. CASE RecoverOrReturn
    BY <2>2 DEF RecoverOrReturn, Results
  <2>3. CASE UNCHANGED vars
    BY <2>3 DEF vars, Results
  <2>4. CASE CheckBegin \/ CheckEnd \/ PollAgain \/ TransferTimesOut
             \/ DeleteAsync \/ Tick \/ TickEnds
    BY <2>4 DEF CheckBegin, CheckEnd, PollAgain, TransferTimesOut, StopEndpoint, DeleteAsync, Tick,
      TickEnds
  <2> QED  BY <2>1, <2>2, <2>3, <2>4 DEF Quiet
<1>7. (\A r \in Rings : "TRANSACTION" \notin urb'[r].result)
  BY <1>1, <1>2 DEF Results, NoError
<1>8. \A o \in Owners : "SYSTEM" \in urb'[o].result => ~alive' /\ at' # "drain" /\ ~urb'[o].finished
  BY <1>1, <1>4 DEF Results, NoError
<1>9. \A o \in Owners : ~urb'[o].finished => urb'[o].result \subseteq {"SYSTEM"}
  BY <1>1 DEF Results, NoError
<1>10. ASSUME NEW r \in Rings, urb'[r].finished, urb'[r].result = NoError,
              ~(op' = "delete" /\ r = "async")
       PROVE  urb'[r].end
  <2>1. urb[r].finished /\ urb[r].result = NoError /\ urb'[r].end = urb[r].end
    BY <1>1, <1>2, <1>3, <1>10 DEF NoError
  <2>2. ~(op = "delete" /\ r = "async")
    BY <1>5, <1>10
  <2> QED  BY <2>1, <2>2 DEF Results
<1>11. at' \in {"tail", "return"} /\ op' = "xfer" /\ status' = "SUCCESS" =>
        urb'["sync"].finished /\ urb'["sync"].result = NoError
  BY <1>1, <1>2, <1>6
<1> QED  BY <1>7, <1>8, <1>9, <1>10, <1>11 DEF Results

LEMMA ResultsNext ==
  ASSUME TypeOK, RingInv, Calling, Replying, Posted, Results, [Next]_vars
  PROVE  Results'
<1>0. Rings \subseteq Owners /\ "sync" \in Rings /\ "async" \in Rings /\ "cmd" \in Owners
      /\ "cmd" \notin Rings /\ Target \in Rings
  BY DEF Rings, Owners, Target
<1>1. CASE Controller
  <2>1. DriverUnchanged /\ (alive' => alive)
    BY <1>1 DEF Controller, HcComplete, HcFail, HcStopInFlight, HcCommand, HcDies
  <2> QED  BY <2>1 DEF DriverUnchanged, Results
<1>2. CASE HandleEvent
  BY <1>2, ResultsHandle
<1>3. ASSUME NEW ok \in BOOLEAN, CommandEnds(ok), phase \in CommandPhases, UNCHANGED <<op, alive>>,
             urb'["cmd"] = None \/ urb'["cmd"] = urb["cmd"], \A o \in Rings : urb'[o] = urb[o],
             at \in {"polled", "issue"}
      PROVE  Results'
  <2>1. at' \in {"issue", "tail", "return"}
    BY <1>3, CommandEndsFacts
  <2>2. at' \in {"tail", "return"} /\ op = "xfer" /\ status' = "SUCCESS" =>
          urb["sync"].finished /\ urb["sync"].result = NoError
    BY <1>3, CommandEndsFacts DEF Replying, CommandPhases, FinishedAnyway, Target
  <2>3. urb'["cmd"] = None => urb'["cmd"].result = NoError /\ ~urb'["cmd"].finished
    BY NoUrb
  <2>4. \A o \in Owners : o \in Rings \/ o = "cmd"
    BY DEF Owners
  <2>5. (\A r \in Rings : "TRANSACTION" \notin urb'[r].result)
    BY <1>3 DEF Results
  <2>6. \A o \in Owners : "SYSTEM" \in urb'[o].result => ~alive' /\ at' # "drain" /\ ~urb'[o].finished
    BY <1>0, <1>3, <2>1, <2>3, <2>4 DEF Results, NoError
  <2>7. \A o \in Owners : ~urb'[o].finished => urb'[o].result \subseteq {"SYSTEM"}
    BY <1>0, <1>3, <2>3, <2>4 DEF Results, NoError
  <2>8. \A r \in Rings : 
          urb'[r].finished /\ urb'[r].result = NoError /\ ~(op' = "delete" /\ r = "async") => urb'[r].end
    BY <1>3 DEF Results
  <2>9. at' \in {"tail", "return"} /\ op' = "xfer" /\ status' = "SUCCESS" =>
          urb'["sync"].finished /\ urb'["sync"].result = NoError
    BY <1>0, <1>3, <2>2
  <2> QED  BY <2>5, <2>6, <2>7, <2>8, <2>9 DEF Results
<1>4. CASE Return
  <2>1. Free(Target) /\ alive' = alive /\ at' = "idle" /\ op' = "none"
    BY <1>4 DEF Return
  <2>2. urb'[Target] = None /\ \A q \in Owners \ {Target} : urb'[q] = urb[q]
    BY <1>0, <2>1, FreeUrbs
  <2>3. op # "xfer" => Target = "async"
    BY DEF Target
  <2> QED
    BY <1>0, <2>1, <2>2, <2>3, NoUrb DEF Results, NoError
<1>5. ASSUME NEW r \in Rings, NEW kind \in Kinds \ {"command"}, Starts(r, kind) PROVE Results'
  <2>0. /\ Queue(r, kind) /\ UNCHANGED alive /\ at' \in {"idle", "check"}
        /\ op \in {"none", "tick"} /\ kind \in Kinds
    BY <1>0, <1>5 DEF Starts, Rings
  <2>1. /\ ~urb'[r].finished /\ urb'[r].result = NoError
        /\ \A o \in Owners \ {r} : urb'[o] = urb[o]
    BY <2>0, QueueEffect
  <2> QED  BY <1>0, <2>0, <2>1 DEF Results, NoError
<1>6. CASE IssueCommand /\ alive
  <2>1. /\ urb' = [urb EXCEPT !["cmd"] = NewUrb("command")] /\ UNCHANGED <<alive, op>> /\ at' = "check"
    BY <1>6 DEF IssueCommand
  <2>2. /\ urb'["cmd"] = NewUrb("command") /\ \A o \in Owners \ {"cmd"} : urb'[o] = urb[o]
    BY <1>0, <2>1 DEF TypeOK
  <2>3. ~urb'["cmd"].finished /\ urb'["cmd"].result = NoError
    BY <2>2 DEF NewUrb, None
  <2> QED  BY <1>0, <2>1, <2>2, <2>3 DEF Results, NoError
<1>7. CASE Quiet
  BY <1>7, ResultsQuiet
<1>8. ASSUME NEW ok \in BOOLEAN, CommandDone(ok) PROVE Results'
  <2>1. CommandEnds(ok) /\ Free("cmd") /\ phase \in CommandPhases /\ at = "polled"
        /\ UNCHANGED <<op, alive>>
    BY <1>8 DEF CommandDone
  <2>2. urb'["cmd"] = None /\ \A o \in Rings : urb'[o] = urb[o]
    BY <1>0, <2>1, FreeUrbs
  <2> QED  BY <1>3, <2>1, <2>2
<1>9. CASE CommandLost
  BY <1>3, <1>9 DEF CommandLost
<1> QED  BY <1>1, <1>2, <1>4, <1>5, <1>6, <1>7, <1>8, <1>9, DriverCases, Zenon

-----------------------------------------------------------------------------
\* What happens to the TRBs the controller has yet to retire.

\* It only ever takes the first off a ring.
LEMMA ControllerTodo ==
  ASSUME TypeOK, RingInv, Blanked, Queued, Controller
  PROVE  /\ UNCHANGED <<urb, op, phase, pending, at, status, excused, ring>>
         /\ \A r \in Rings : \E k \in 0 .. Len(todo[r]) :
              /\ Len(todo'[r]) = Len(todo[r]) - k /\ DOMAIN todo'[r] = 1 .. Len(todo[r]) - k
              /\ \A i \in DOMAIN todo'[r] :
                   i + k \in DOMAIN todo[r] /\ todo'[r][i] = todo[r][i + k]
<1>0. DriverUnchanged
  BY DEF Controller, HcComplete, HcFail, HcStopInFlight, HcCommand, HcDies
<1>1. \A q \in Rings : todo[q] \in Seq(Trb) /\ Len(todo[q]) \in Nat
                       /\ DOMAIN todo[q] = 1 .. Len(todo[q])
  BY DEF TypeOK
<1>2. ASSUME NEW r \in Rings, todo'[r] = todo[r]
      PROVE  \E k \in 0 .. Len(todo[r]) :
              /\ Len(todo'[r]) = Len(todo[r]) - k /\ DOMAIN todo'[r] = 1 .. Len(todo[r]) - k
              /\ \A i \in DOMAIN todo'[r] :
                   i + k \in DOMAIN todo[r] /\ todo'[r][i] = todo[r][i + k]
  <2>1. 0 \in 0 .. Len(todo[r])
    BY <1>1
  <2> USE <2>1
  <2> WITNESS 0 \in 0 .. Len(todo[r])
  <2> QED  BY <1>1, <1>2
<1>3. ASSUME NEW q \in Rings, NEW code \in Retires, HcComplete(q, code) \/ HcFail(q, code),
             NEW r \in Rings
      PROVE  \E k \in 0 .. Len(todo[r]) :
              /\ Len(todo'[r]) = Len(todo[r]) - k /\ DOMAIN todo'[r] = 1 .. Len(todo[r]) - k
              /\ \A i \in DOMAIN todo'[r] :
                   i + k \in DOMAIN todo[r] /\ todo'[r][i] = todo[r][i + k]
  <2>1. /\ Len(todo[q]) \in Nat \ {0}
        /\ Len(todo'[q]) = Len(todo[q]) - 1 /\ DOMAIN todo'[q] = 1 .. Len(todo[q]) - 1
        /\ \A i \in DOMAIN todo'[q] : i + 1 \in DOMAIN todo[q] /\ todo'[q][i] = todo[q][i + 1]
        /\ \A p \in Rings \ {q} : todo'[p] = todo[p]
    <3>1. PICK h \in Pos, t \in Trb : RetireStep(h, t, q, code)
      BY <1>3, RetireEffect
    <3> QED  BY <3>1 DEF RetireStep
  <2>2. 1 \in 0 .. Len(todo[q])
    BY <2>1
  <2> QED  BY <1>2, <2>1, <2>2
<1>4. ASSUME HcStopInFlight \/ \E q \in Rings : HcFail(q, "stall") PROVE todo' = todo
  BY <1>4 DEF HcStopInFlight, HcFail
<1>5. ASSUME HcCommand, NEW r \in Rings
      PROVE  \E k \in 0 .. Len(todo[r]) :
              /\ Len(todo'[r]) = Len(todo[r]) - k /\ DOMAIN todo'[r] = 1 .. Len(todo[r]) - k
              /\ \A i \in DOMAIN todo'[r] :
                   i + k \in DOMAIN todo[r] /\ todo'[r][i] = todo[r][i + k]
  <2>1. PICK c \in Command :
            /\ c.ring \in Rings
            /\ \E k \in 0 .. Len(todo[c.ring]) :
                 /\ Len(todo'[c.ring]) = Len(todo[c.ring]) - k
                 /\ DOMAIN todo'[c.ring] = 1 .. Len(todo[c.ring]) - k
                 /\ \A i \in DOMAIN todo'[c.ring] :
                      i + k \in DOMAIN todo[c.ring] /\ todo'[c.ring][i] = todo[c.ring][i + k]
            /\ \A q \in Rings \ {c.ring} : todo'[q] = todo[q]
    <3>1. PICK h \in Pos, c \in Command : CommandStep(h, c)
      BY <1>5, CommandEffect
    <3> QED  BY <3>1 DEF CommandStep
  <2>2. CASE r = c.ring
    BY <2>1, <2>2
  <2>3. CASE r # c.ring
    BY <1>2, <2>1, <2>3
  <2> QED  BY <2>2, <2>3
<1>6. CASE HcDies
  BY <1>2, <1>6, <1>0 DEF HcDies, DriverUnchanged
<1>7. ASSUME NEW r \in Rings
      PROVE  \E k \in 0 .. Len(todo[r]) :
              /\ Len(todo'[r]) = Len(todo[r]) - k /\ DOMAIN todo'[r] = 1 .. Len(todo[r]) - k
              /\ \A i \in DOMAIN todo'[r] :
                   i + k \in DOMAIN todo[r] /\ todo'[r][i] = todo[r][i + k]
  <2>1. CASE HcStopInFlight \/ \E q \in Rings : HcFail(q, "stall")
    BY <1>2, <1>4, <2>1
  <2>2. CASE HcDies
    BY <1>2, <2>2 DEF HcDies
  <2> QED  BY <1>3, <1>5, <2>1, <2>2, ControllerCases, Zenon
<1> QED  BY <1>0, <1>7 DEF DriverUnchanged

\* A URB has its TRBs on its own ring.
LEMMA FreeRings ==
  ASSUME TypeOK, Queued, NEW o \in Owners, Free(o)
  PROVE  \A r \in Rings : /\ DOMAIN todo'[r] = DOMAIN todo[r] /\ Len(todo'[r]) = Len(todo[r])
                          /\ \A i \in DOMAIN todo[r] :
                               todo'[r][i] = IF r = o THEN Gone ELSE todo[r][i]
<1>1. ASSUME NEW r \in Rings, NEW i \in DOMAIN todo[r]
      PROVE  Disown(todo[r][i], o) = IF r = o THEN Gone ELSE todo[r][i]
  <2>1. todo[r][i] # Gone => todo[r][i].own = r
    <3>1. PICK n : n = Size(r) - Len(todo[r]) + i
      OBVIOUS
    <3>2. todo[r][i] # Gone => todo[r][i] = [own |-> r, part |-> n]
      BY <3>1 DEF Queued
    <3> QED  BY <3>2
  <2>2. Gone.own # o
    BY GoneIsNobody
  <2> QED  BY <2>1, <2>2 DEF Disown
<1> QED  BY <1>1, FreeEffect

LEMMA QueuedInit == Init => Queued
BY DEF Init, Queued

\* The invariant, ring by ring.
QueuedOn(r) ==
  /\ \A i \in DOMAIN todo[r] :
       todo[r][i] # Gone =>
         Live(r) /\ todo[r][i] = [own |-> r, part |-> Size(r) - Len(todo[r]) + i]
  /\ \A i, j \in DOMAIN todo[r] : i < j /\ todo[r][i] # Gone => todo[r][j] # Gone

LEMMA QueuedSame ==
  ASSUME NEW r \in Rings, Queued, todo'[r] = todo[r], urb'[r].kind = urb[r].kind
  PROVE  QueuedOn(r)'
<1>1. QueuedOn(r)
  BY DEF Queued, QueuedOn
<1>2. (Live(r)' <=> Live(r)) /\ Size(r)' = Size(r)
  BY DEF Live, Size
<1> QED  BY <1>1, <1>2 DEF QueuedOn

LEMMA QueuedNext ==
  ASSUME TypeOK, RingInv, Calling, Replying, Blanked, Results, Ended, Queued, [Next]_vars
  PROVE  Queued'
<1>0. /\ Rings \subseteq Owners /\ "cmd" \in Owners \ Rings /\ Target \in Rings
      /\ "sync" \in Rings /\ "async" \in Rings /\ Rings = {"sync", "async"}
      /\ \A r \in Rings : todo[r] \in Seq(Trb) /\ Len(todo[r]) \in Nat
                          /\ DOMAIN todo[r] = 1 .. Len(todo[r])
  BY DEF TypeOK, Rings, Owners, Target
<1>1. CASE Controller
  <2>1. ASSUME NEW r \in Rings
        PROVE  /\ \A i \in DOMAIN todo'[r] :
                    todo'[r][i] # Gone =>
                      Live(r)' /\ todo'[r][i] = [own |-> r, part |-> Size(r)' - Len(todo'[r]) + i]
               /\ \A i, j \in DOMAIN todo'[r] : i < j /\ todo'[r][i] # Gone => todo'[r][j] # Gone
    <3>1. PICK k \in 0 .. Len(todo[r]) :
              /\ Len(todo'[r]) = Len(todo[r]) - k /\ DOMAIN todo'[r] = 1 .. Len(todo[r]) - k
              /\ \A i \in DOMAIN todo'[r] :
                   i + k \in DOMAIN todo[r] /\ todo'[r][i] = todo[r][i + k]
      BY <1>1, ControllerTodo
    <3>2. urb' = urb
      BY <1>1, ControllerTodo
    <3>3. ASSUME NEW i \in DOMAIN todo'[r], todo'[r][i] # Gone
          PROVE  Live(r)' /\ todo'[r][i] = [own |-> r, part |-> Size(r)' - Len(todo'[r]) + i]
      <4>1. Live(r) /\ todo[r][i + k] = [own |-> r, part |-> Size(r) - Len(todo[r]) + (i + k)]
        BY <3>1, <3>3 DEF Queued
      <4>2. Size(r) \in Nat
        BY <1>0, <4>1, UrbFacts DEF MaxTrbs
      <4>3. Size(r) - Len(todo[r]) + (i + k) = Size(r) - Len(todo'[r]) + i
        BY <1>0, <3>1, <4>2
      <4>4. (Live(r)' <=> Live(r)) /\ Size(r)' = Size(r)
        BY <3>2 DEF Live, Size
      <4> QED  BY <3>1, <4>1, <4>3, <4>4
    <3>4. ASSUME NEW i \in DOMAIN todo'[r], NEW j \in DOMAIN todo'[r], i < j, todo'[r][i] # Gone
          PROVE  todo'[r][j] # Gone
      <4>1. i + k < j + k
        BY <1>0, <3>1, <3>4
      <4> QED  BY <3>1, <3>4, <4>1 DEF Queued
    <3> QED  BY <3>3, <3>4
  <2> QED  BY <2>1 DEF Queued
<1>2. ASSUME NEW o \in Owners, Free(o) PROVE Queued'
  <2>1. \A r \in Rings : /\ DOMAIN todo'[r] = DOMAIN todo[r] /\ Len(todo'[r]) = Len(todo[r])
                         /\ \A i \in DOMAIN todo[r] :
                              todo'[r][i] = IF r = o THEN Gone ELSE todo[r][i]
    BY <1>2, FreeRings
  <2>2. \A r \in Rings \ {o} : urb'[r] = urb[r]
    BY <1>0, <1>2, FreeUrbs
  <2>3. ASSUME NEW r \in Rings PROVE QueuedOn(r)'
    <3>1. CASE r = o
      BY <2>1, <3>1 DEF QueuedOn
    <3>2. CASE r # o
      <4>1. \A i \in DOMAIN todo[r] : todo'[r][i] = todo[r][i]
        BY <2>1, <3>2
      <4>2. QueuedOn(r) /\ (Live(r)' <=> Live(r)) /\ Size(r)' = Size(r)
        BY <2>2, <3>2 DEF Queued, QueuedOn, Live, Size
      <4>3. DOMAIN todo'[r] = DOMAIN todo[r] /\ Len(todo'[r]) = Len(todo[r])
        BY <2>1
      <4> QED  BY <4>1, <4>2, <4>3 DEF QueuedOn
    <3> QED  BY <3>1, <3>2
  <2> QED  BY <2>3 DEF Queued, QueuedOn
<1>3. ASSUME NEW r \in Rings, NEW kind \in Kinds \ {"command"}, Starts(r, kind) PROVE Queued'
  <2>1. Queue(r, kind)
    BY <1>3 DEF Starts
  <2>0. kind \in Kinds /\ Len(todo[r]) \in Nat /\ DOMAIN todo[r] = 1 .. Len(todo[r])
    BY <1>0
  <2>2. \A i \in DOMAIN todo[r] : todo[r][i] = Gone
    <3>1. ~Live(r) \/ urb[r].end
      BY <1>0, <1>3 DEF Starts, Results
    <3> QED  BY <3>1 DEF Queued, Ended, Held
  <2>3. /\ Len(Shape(kind)) \in 1 .. MaxTrbs
        /\ Len(todo'[r]) = Len(todo[r]) + Len(Shape(kind))
        /\ DOMAIN todo'[r] = 1 .. Len(todo'[r])
        /\ \A i \in DOMAIN todo'[r] :
             todo'[r][i] = IF i <= Len(todo[r]) THEN todo[r][i]
                           ELSE [own |-> r, part |-> i - Len(todo[r])]
        /\ \A q \in Rings \ {r} : todo'[q] = todo[q]
        /\ urb'[r].kind = kind /\ kind # "none"
        /\ \A o \in Owners \ {r} : urb'[o] = urb[o]
    BY <2>1, QueueEffect
  <2>4. PICK n \in Nat, m \in Nat : n = Len(todo[r]) /\ m = Len(Shape(kind))
    <3>1. Len(Shape(kind)) \in Nat
      BY <2>3 DEF MaxTrbs
    <3> QED  BY <2>0, <3>1
  <2>5. Live(r)' /\ Size(r)' = m
    BY <2>3, <2>4 DEF Live, Size
  <2>6. ASSUME NEW i \in DOMAIN todo'[r], todo'[r][i] # Gone PROVE i > n
    <3>1. i \in Nat /\ i >= 1 /\ (i <= n => i \in DOMAIN todo[r])
      BY <2>0, <2>3, <2>4
    <3>2. CASE i <= n
      <4>1. i \in DOMAIN todo[r] /\ i <= Len(todo[r])
        BY <2>4, <3>1, <3>2
      <4>2. todo'[r][i] = todo[r][i]
        BY <2>3, <4>1
      <4> QED  BY <2>2, <2>6, <4>1, <4>2
    <3> QED  BY <3>1, <3>2
  <2>7. \A i \in DOMAIN todo'[r] : i > n => todo'[r][i] = [own |-> r, part |-> i - n]
    BY <2>3, <2>4
  <2>8. ASSUME NEW i \in DOMAIN todo'[r], i > n PROVE todo'[r][i] # Gone
    <3>1. r # "gone"
      BY <1>0
    <3>2. PICK k : k = i - n
      OBVIOUS
    <3>3. todo'[r][i] = [own |-> r, part |-> k]
      BY <2>7, <2>8, <3>2, Zenon
    <3> QED  BY <3>1, <3>3 DEF Gone
  <2>9. \A i \in DOMAIN todo'[r] : m - Len(todo'[r]) + i = i - n
    BY <2>3, <2>4
  <2>10. \A i \in DOMAIN todo'[r] : todo'[r][i] # Gone =>
           Live(r)' /\ todo'[r][i] = [own |-> r, part |-> Size(r)' - Len(todo'[r]) + i]
    BY <2>5, <2>6, <2>7, <2>9
  <2>11. \A i, j \in DOMAIN todo'[r] : i < j /\ todo'[r][i] # Gone => todo'[r][j] # Gone
    <3>1. \A i \in DOMAIN todo'[r] : i \in Nat
      BY <2>3, <2>4
    <3> QED  BY <2>6, <2>8, <3>1
  <2>12. ASSUME NEW q \in Rings \ {r}
         PROVE  /\ \A i \in DOMAIN todo'[q] : todo'[q][i] # Gone =>
                     Live(q)' /\ todo'[q][i] = [own |-> q, part |-> Size(q)' - Len(todo'[q]) + i]
                /\ \A i, j \in DOMAIN todo'[q] : i < j /\ todo'[q][i] # Gone => todo'[q][j] # Gone
    <3>1. QueuedOn(q)'
      BY <1>0, <2>3, QueuedSame
    <3> QED  BY <3>1 DEF QueuedOn
  <2> QED  BY <2>10, <2>11, <2>12 DEF Queued
<1>4. ASSUME UNCHANGED todo, \A o \in Owners : urb'[o].kind = urb[o].kind PROVE Queued'
  <2>1. \A r \in Rings : QueuedOn(r)'
    BY <1>0, <1>4, QueuedSame
  <2> QED  BY <2>1 DEF Queued, QueuedOn
<1>5. CASE HandleEvent
  BY <1>4, <1>5, HandleFacts
<1>6. ASSUME NEW ok \in BOOLEAN, CommandDone(ok) PROVE Queued'
  BY <1>0, <1>2, <1>6 DEF CommandDone
<1>7. CASE Return
  BY <1>0, <1>2, <1>7 DEF Return
<1>8. CASE IssueCommand /\ alive
  <2>1. UNCHANGED todo /\ \A r \in Rings : urb'[r] = urb[r]
    BY <1>0, <1>8 DEF IssueCommand, TypeOK
  <2>2. \A r \in Rings : QueuedOn(r)'
    BY <2>1, QueuedSame
  <2> QED  BY <2>2 DEF Queued, QueuedOn
<1>9. CASE CommandLost
  BY <1>4, <1>9 DEF CommandLost
<1>10. CASE Quiet
  BY <1>4, <1>10, QuietEffect
<1> QED  BY <1>1, <1>3, <1>5, <1>6, <1>7, <1>8, <1>9, <1>10, DriverCases, Zenon

-----------------------------------------------------------------------------
\* What happens to the events and to the command.

\* An event, as the invariant has it.
PostedAt(p) ==
  /\ Of(p) \in Rings => /\ Live(Of(p)) /\ Part(p) \in 1 .. Size(Of(p))
                        /\ Code(p) \in {"success", "short", "stall", "buffer", "stopped"}
  /\ Of(p) = "cmd" => /\ Live("cmd") /\ ~urb["cmd"].finished /\ Part(p) = 1
                      /\ Code(p) \in {"success", "state"}
  /\ Of(p) = "gone" => cell[p].body = Blank
Single == \A p, q \in Pos : Of(p) = "cmd" /\ Of(q) = "cmd" => p = q

LEMMA PostedParts == Posted <=> Single /\ \A p \in Pos : PostedAt(p)
BY DEF Posted, PostedAt, Single

LEMMA PostedSame ==
  ASSUME NEW p \in Pos, PostedAt(p), cell'[p].body = cell[p].body,
         Of(p) \in Owners => urb'[Of(p)].kind = urb[Of(p)].kind,
         Of(p) = "cmd" => urb'["cmd"].finished = urb["cmd"].finished
  PROVE  PostedAt(p)'
<1>1. Of(p)' = Of(p) /\ Part(p)' = Part(p) /\ Code(p)' = Code(p)
  BY DEF Of, Part, Code
<1>2. Rings \subseteq Owners /\ "cmd" \in Owners
  BY DEF Rings, Owners
<1>3. PICK o : o = Of(p)
  OBVIOUS
<1>4. o \in Owners => (Live(o)' <=> Live(o)) /\ Size(o)' = Size(o)
  BY <1>3 DEF Live, Size
<1>5. o = "cmd" => (Live("cmd")' <=> Live("cmd"))
  BY <1>2, <1>4
<1>6. cell'[p].body.trb.own = o /\ cell'[p].body.trb.part = Part(p) /\ cell'[p].body.code = Code(p)
  BY <1>3 DEF Of, Part, Code
<1> QED  BY <1>2, <1>3, <1>4, <1>5, <1>6 DEF PostedAt, Of, Part, Code, Live, Size

LEMMA PostedBlank ==
  ASSUME NEW p \in Pos, cell'[p].body = Blank
  PROVE  PostedAt(p)'
<1>1. cell'[p].body.trb.own = "gone" /\ "gone" \notin Rings /\ "gone" # "cmd"
  BY BlankIsNobodys DEF Rings
<1> QED  BY <1>1 DEF PostedAt, Of

LEMMA SingleSame ==
  ASSUME Single, \A p \in Pos : cell'[p].body = cell[p].body \/ cell'[p].body.trb.own # "cmd"
  PROVE  Single'
BY DEF Single, Of

\* One more event of a transfer ring, or of nobody.
LEMMA PostedMore ==
  ASSUME Posted, UNCHANGED urb, NEW h \in Pos, NEW t \in Trb, NEW r \in Rings, NEW code,
         code \in {"success", "short", "stall", "buffer", "stopped"},
         t # Gone => Live(r) /\ t.own = r /\ t.part \in 1 .. Size(r),
         cell'[h].body = IF t = Gone THEN Blank ELSE [trb |-> t, code |-> code],
         \A p \in Pos \ {h} : cell'[p].body = cell[p].body
  PROVE  Posted'
<1>0. r # "cmd" /\ r # "gone" /\ "cmd" # "gone"
  BY DEF Rings
<1>1. PostedAt(h)'
  <2>1. CASE t = Gone
    BY <2>1, PostedBlank
  <2>2. CASE t # Gone
    <3>1. cell'[h].body.trb = t /\ cell'[h].body.code = code /\ t.own = r
          /\ t.part \in 1 .. Size(r) /\ Live(r)
      BY <2>2
    <3>2. (Live(r)' <=> Live(r)) /\ Size(r)' = Size(r)
      BY DEF Live, Size
    <3> QED  BY <1>0, <3>1, <3>2 DEF PostedAt, Of, Part, Code, Live, Size
  <2> QED  BY <2>1, <2>2
<1>2. \A p \in Pos \ {h} : PostedAt(p)'
  BY PostedSame, PostedParts
<1>3. cell'[h].body.trb.own # "cmd"
  BY <1>0, BlankIsNobodys
<1>4. Single'
  BY <1>3, SingleSame, PostedParts
<1> QED  BY <1>1, <1>2, <1>4, PostedParts DEF Posted, PostedAt, Single

LEMMA PostedNext ==
  ASSUME TypeOK, RingInv, Calling, Replying, Blanked, Results, Ended, Queued, Commanded, Posted,
         [Next]_vars
  PROVE  Posted'
<1>0. /\ Rings \subseteq Owners /\ "cmd" \in Owners \ Rings /\ Target \in Rings
      /\ "sync" \in Rings /\ "async" \in Rings /\ Rings = {"sync", "async"}
      /\ \A p \in Pos : Of(p) \in Owners \cup {"gone"}
  BY EventFacts DEF TypeOK, Rings, Owners, Target
<1>1. ASSUME NEW r \in Rings, NEW code \in Retires, HcComplete(r, code) \/ HcFail(r, code)
      PROVE  Posted'
  <2>1. code \in {"success", "short", "stall", "buffer", "stopped"}
    BY DEF Retires
  <2>2. DriverUnchanged
    BY <1>1 DEF HcComplete, HcFail
  <2>3. UNCHANGED urb
    BY <2>2 DEF DriverUnchanged
  <2>4. PICK h \in Pos, t \in Trb : RetireStep(h, t, r, code)
    BY <1>1, RetireEffect
  <2> QED  BY <2>1, <2>3, <2>4, PostedMore DEF RetireStep
<1>2. CASE HcStopInFlight \/ \E q \in Rings : HcFail(q, "stall")
  <2>1. \A code \in {"stall", "stopped"} : code \in {"success", "short", "stall", "buffer", "stopped"}
    OBVIOUS
  <2>2. DriverUnchanged
    BY <1>2 DEF HcStopInFlight, HcFail
  <2>3. UNCHANGED urb
    BY <2>2 DEF DriverUnchanged
  <2>4. PICK h \in Pos, t \in Trb, r \in Rings, code \in {"stall", "stopped"} :
            ReportStep(h, t, r, code)
    BY <1>2, ReportEffect
  <2> QED  BY <2>1, <2>3, <2>4, PostedMore DEF ReportStep
<1>3. CASE HcCommand
  <2>1. PICK h \in Pos, c \in Command :
            /\ c = commands[1] /\ 1 \in DOMAIN commands /\ c.trb \in Trb
            /\ Of(h) = "gone"
            /\ cell'[h].body = IF c.trb = Gone THEN Blank
                               ELSE [trb |-> c.trb, code |-> IF Fits(c) THEN "success" ELSE "state"]
            /\ \A p \in Pos \ {h} : cell'[p].body = cell[p].body
            /\ DriverUnchanged
    <3>1. PICK h \in Pos, c \in Command : CommandStep(h, c)
      BY <1>3, CommandEffect
    <3> QED  BY <3>1 DEF CommandStep
  <2>2. UNCHANGED urb
    BY <2>1 DEF DriverUnchanged
  <2>3. CASE c.trb = Gone
    <3>1. "sync" \in Rings /\ "stall" \in {"success", "short", "stall", "buffer", "stopped"}
      BY <1>0
    <3> QED  BY <2>1, <2>2, <2>3, <3>1, PostedMore
  <2>4. CASE c.trb # Gone
    <3>1. /\ Live("cmd") /\ ~urb["cmd"].finished /\ ~Told("cmd")
          /\ c.trb.own = "cmd" /\ c.trb.part = 1
      BY <2>1, <2>4 DEF Commanded
    <3>2. PICK code \in {"success", "state"} : cell'[h].body = [trb |-> c.trb, code |-> code]
      BY <2>1, <2>4
    <3>3. "cmd" \notin Rings /\ "cmd" # "gone"
      BY <1>0
    <3>4. PostedAt(h)'
      BY <2>2, <3>1, <3>2, <3>3 DEF PostedAt, Of, Part, Code, Live
    <3>5. \A p \in Pos \ {h} : PostedAt(p)'
      BY <2>1, <2>2, PostedSame, PostedParts
    <3>6. Single'
      BY <2>1, <3>1 DEF Single, Told, Of
    <3> QED  BY <3>4, <3>5, <3>6 DEF Posted, PostedAt, Single
  <2> QED  BY <2>3, <2>4
<1>4. CASE HcDies
  <2>1. UNCHANGED <<cell, urb>>
    BY <1>4 DEF HcDies, DriverUnchanged
  <2> QED  BY <2>1 DEF Posted, Of, Part, Code, Live, Size
<1>5. CASE HandleEvent
  <2>1. PICK d \in Pos : 
            /\ cell'[d].body = Blank /\ \A p \in Pos \ {d} : cell'[p].body = cell[p].body
            /\ \A o \in Owners : /\ urb'[o].kind = urb[o].kind
                                 /\ o # Of(d) => urb'[o] = urb[o]
    BY <1>5, HandleFacts
  <2>2. PostedAt(d)'
    BY <2>1, PostedBlank
  <2>3. ASSUME NEW p \in Pos \ {d} PROVE PostedAt(p)'
    <3>1. Of(p) = "cmd" => Of(d) # "cmd"
      BY DEF Posted
    <3>2. Of(p) = "cmd" => urb'["cmd"] = urb["cmd"]
      BY <1>0, <2>1, <3>1
    <3> QED  BY <2>1, <3>2, PostedSame, PostedParts
  <2>4. Single'
    BY <2>1, PostedParts, SingleSame, BlankIsNobodys
  <2> QED  BY <2>2, <2>3, <2>4 DEF Posted, PostedAt, Single
<1>6. ASSUME NEW o \in Owners, Free(o) PROVE Posted'
  <2>1. \A p \in Pos : cell'[p].body = IF Of(p) = o THEN Blank ELSE cell[p].body
    BY <1>6, FreeEffect
  <2>2. \A q \in Owners \ {o} : urb'[q] = urb[q]
    BY <1>6, FreeUrbs
  <2>3. ASSUME NEW p \in Pos PROVE PostedAt(p)'
    <3>1. CASE Of(p) = o
      BY <2>1, <3>1, PostedBlank
    <3>2. CASE Of(p) # o
      <4>1. cell'[p].body = cell[p].body /\ PostedAt(p)
        BY <2>1, <3>2, PostedParts
      <4>2. Of(p) \in Owners => urb'[Of(p)] = urb[Of(p)]
        BY <2>2, <3>2
      <4>3. Of(p) = "cmd" => urb'["cmd"] = urb["cmd"]
        BY <1>0, <2>2, <3>2
      <4> QED  BY <4>1, <4>2, <4>3, PostedSame
    <3> QED  BY <3>1, <3>2
  <2>4. Single'
    BY <2>1, PostedParts, SingleSame, BlankIsNobodys
  <2> QED  BY <2>3, <2>4 DEF Posted, PostedAt, Single
<1>7. ASSUME UNCHANGED cell, NEW o, \A q \in Owners \ {o} : urb'[q] = urb[q], ~Told(o)
      PROVE  Posted'
  <2>1. ASSUME NEW p \in Pos PROVE PostedAt(p)'
    <3>1. Of(p) # o
      BY <1>7 DEF Told
    <3> QED  BY <1>0, <1>7, <3>1, PostedSame, PostedParts
  <2>2. Single'
    BY <1>7, PostedParts, SingleSame
  <2> QED  BY <2>1, <2>2 DEF Posted, PostedAt, Single
<1>8. ASSUME NEW r \in Rings, NEW kind \in Kinds \ {"command"}, Starts(r, kind) PROVE Posted'
  <2>1. Queue(r, kind) /\ kind \in Kinds /\ UNCHANGED cell
    BY <1>8 DEF Starts
  <2>2. \A o \in Owners \ {r} : urb'[o] = urb[o]
    BY <2>1, QueueEffect
  <2>3. ~Live(r) \/ urb[r].end
    BY <1>0, <1>8 DEF Starts, Results
  <2>4. ~Told(r)
    BY <2>3 DEF Posted, Ended, Told
  <2> QED  BY <1>7, <2>1, <2>2, <2>4
<1>9. CASE IssueCommand /\ alive
  <2>1. UNCHANGED cell /\ (\A o \in Owners \ {"cmd"} : urb'[o] = urb[o]) /\ at = "issue"
    BY <1>9 DEF IssueCommand, TypeOK
  <2>2. ~Live("cmd")
    BY <2>1 DEF Calling, Polling
  <2>3. ~Told("cmd")
    BY <2>2 DEF Posted, Told
  <2> QED  BY <1>7, <2>1, <2>3
<1>10. CASE CommandLost
  <2>1. UNCHANGED <<cell, urb>>
    BY <1>10 DEF CommandLost
  <2> QED  BY <2>1 DEF Posted, Of, Part, Code, Live, Size
<1>11. CASE Quiet
  <2>1. UNCHANGED cell
        /\ \A o \in Owners : urb'[o].kind = urb[o].kind /\ urb'[o].finished = urb[o].finished
    BY <1>11, QuietEffect
  <2>2. \A p \in Pos : PostedAt(p)'
    BY <1>0, <2>1, PostedSame, PostedParts
  <2>3. Single'
    BY <2>1, PostedParts, SingleSame
  <2> QED  BY <2>2, <2>3 DEF Posted, PostedAt, Single
<1>12. ASSUME NEW ok \in BOOLEAN, CommandDone(ok) PROVE Posted'
  BY <1>0, <1>6, <1>12 DEF CommandDone
<1>13. CASE Return
  BY <1>0, <1>6, <1>13 DEF Return
<1>14. CASE Controller
  BY <1>1, <1>2, <1>3, <1>4, <1>14, ControllerCases, Zenon
<1> QED  BY <1>5, <1>8, <1>9, <1>10, <1>11, <1>12, <1>13, <1>14, DriverCases, Zenon

LEMMA BeforeAsym ==
  ASSUME TypeOK, NEW p \in Pos, NEW q \in Pos, Before(p, q)
  PROVE  ~Before(q, p) /\ p # q
<1>1. ring.dequeue \in Pos
  BY RingTypes
<1>2. Span(ring.dequeue, p) \in Nat /\ Span(ring.dequeue, q) \in Nat
  BY <1>1, SpanNat
<1> QED  BY <1>2 DEF Before

\* A new event of a transfer ring comes from a running endpoint with TRBs of
\* that ring's URB.
LEMMA ControllerEvents ==
  ASSUME TypeOK, RingInv, Blanked, Queued, Commanded, Controller, NEW r \in Rings
  PROVE  \A p \in Pos : \/ cell'[p].body = cell[p].body \/ cell'[p].body.trb.own # r
                        \/ Held(r) /\ endpoint[r] = "running"
<1>0. r # "gone" /\ r # "cmd"
  BY DEF Rings
<1>1. ASSUME NEW q \in Rings, NEW code \in Retires, HcComplete(q, code) \/ HcFail(q, code),
             NEW p \in Pos
      PROVE  \/ cell'[p].body = cell[p].body \/ cell'[p].body.trb.own # r
             \/ Held(r) /\ endpoint[r] = "running"
  <2>1. PICK h \in Pos, t \in Trb : RetireStep(h, t, q, code)
    BY <1>1, RetireEffect
  <2>2. /\ cell'[h].body = IF t = Gone THEN Blank ELSE [trb |-> t, code |-> code]
        /\ p # h => cell'[p].body = cell[p].body
        /\ t # Gone => Held(q) /\ t.own = q
        /\ endpoint[q] = "running"
    BY <2>1 DEF RetireStep
  <2> QED  BY <1>0, <2>2, BlankIsNobodys
<1>2. ASSUME HcStopInFlight \/ \E q \in Rings : HcFail(q, "stall"), NEW p \in Pos
      PROVE  \/ cell'[p].body = cell[p].body \/ cell'[p].body.trb.own # r
             \/ Held(r) /\ endpoint[r] = "running"
  <2>1. PICK h \in Pos, t \in Trb, q \in Rings, code \in {"stall", "stopped"} :
          ReportStep(h, t, q, code)
    BY <1>2, ReportEffect
  <2>2. /\ cell'[h].body = IF t = Gone THEN Blank ELSE [trb |-> t, code |-> code]
        /\ p # h => cell'[p].body = cell[p].body
        /\ t # Gone => Held(q) /\ t.own = q
        /\ endpoint[q] = "running"
    BY <2>1 DEF ReportStep
  <2> QED  BY <1>0, <2>2, BlankIsNobodys
<1>3. ASSUME HcCommand, NEW p \in Pos
      PROVE  cell'[p].body = cell[p].body \/ cell'[p].body.trb.own # r
  <2>1. PICK h \in Pos, c \in Command : CommandStep(h, c)
    BY <1>3, CommandEffect
  <2>2. /\ cell'[h].body = IF c.trb = Gone THEN Blank
                           ELSE [trb |-> c.trb, code |-> IF Fits(c) THEN "success" ELSE "state"]
        /\ p # h => cell'[p].body = cell[p].body
        /\ c = commands[1] /\ 1 \in DOMAIN commands
    BY <2>1 DEF CommandStep
  <2>3. c.trb # Gone => c.trb.own = "cmd"
    BY <2>2 DEF Commanded
  <2> QED  BY <1>0, <2>2, <2>3, BlankIsNobodys
<1>4. ASSUME HcDies PROVE cell' = cell
  BY <1>4 DEF HcDies
<1> QED  BY <1>1, <1>2, <1>3, <1>4, ControllerCases, Zenon

\* And none of them is of a command, but the one that says how it ended.
LEMMA CommandEvents ==
  ASSUME TypeOK, RingInv, Blanked, Queued, Controller, ~HcCommand
  PROVE  /\ \A p \in Pos : cell'[p].body = cell[p].body \/ cell'[p].body.trb.own # "cmd"
         /\ commands' = commands
<1>1. ASSUME NEW q \in Rings, NEW code \in Retires, HcComplete(q, code) \/ HcFail(q, code)
      PROVE  /\ \A p \in Pos : cell'[p].body = cell[p].body \/ cell'[p].body.trb.own # "cmd"
             /\ commands' = commands
  <2>1. PICK h \in Pos, t \in Trb : RetireStep(h, t, q, code)
    BY <1>1, RetireEffect
  <2>2. /\ cell'[h].body = IF t = Gone THEN Blank ELSE [trb |-> t, code |-> code]
        /\ \A p \in Pos \ {h} : cell'[p].body = cell[p].body
        /\ t # Gone => t.own = q
        /\ commands' = commands
    BY <2>1 DEF RetireStep
  <2> QED  BY <2>2, BlankIsNobodys DEF Rings
<1>2. ASSUME HcStopInFlight \/ \E q \in Rings : HcFail(q, "stall")
      PROVE  /\ \A p \in Pos : cell'[p].body = cell[p].body \/ cell'[p].body.trb.own # "cmd"
             /\ commands' = commands
  <2>1. PICK h \in Pos, t \in Trb, q \in Rings, code \in {"stall", "stopped"} :
          ReportStep(h, t, q, code)
    BY <1>2, ReportEffect
  <2>2. /\ cell'[h].body = IF t = Gone THEN Blank ELSE [trb |-> t, code |-> code]
        /\ \A p \in Pos \ {h} : cell'[p].body = cell[p].body
        /\ t # Gone => t.own = q
        /\ commands' = commands
    BY <2>1 DEF ReportStep
  <2> QED  BY <2>2, BlankIsNobodys DEF Rings
<1>4. ASSUME HcDies PROVE cell' = cell /\ commands' = commands
  BY <1>4 DEF HcDies
<1> QED  BY <1>1, <1>2, <1>4, ControllerCases, Zenon

-----------------------------------------------------------------------------
LEMMA CommandedInit == Init => Commanded
BY DEF Init, Commanded

LEMMA NoCommand ==
  ASSUME Commanded, ~Live("cmd")
  PROVE  \A i \in DOMAIN commands : commands[i].trb = Gone
BY DEF Commanded

LEMMA CommandedNext ==
  ASSUME TypeOK, RingInv, Calling, Replying, Blanked, Posted, Queued, Commanded,
         [Next]_vars
  PROVE  Commanded'
<1>0. /\ Rings \subseteq Owners /\ "cmd" \in Owners \ Rings /\ Target \in Rings
      /\ "sync" \in Rings /\ "async" \in Rings /\ Gone.own # "cmd"
  BY GoneIsNobody DEF TypeOK, Rings, Owners, Target
<1>1. ASSUME UNCHANGED <<commands, op, phase>>, urb'["cmd"] = urb["cmd"] \/ Told("cmd"),
             \A p \in Pos : cell'[p].body = cell[p].body \/ cell'[p].body.trb.own # "cmd"
      PROVE  Commanded'
  <2>1. Told("cmd")' => Told("cmd")
    BY <1>1 DEF Told, Of
  <2>2. CommandOf' = CommandOf /\ Target' = Target
    BY <1>1 DEF CommandOf, Target
  <2>3. urb'["cmd"] = urb["cmd"] => (Live("cmd")' <=> Live("cmd"))
    BY DEF Live
  <2> QED  BY <1>1, <2>1, <2>2, <2>3 DEF Commanded
<1>2. ASSUME \A i \in DOMAIN commands' : commands'[i].trb = Gone PROVE Commanded'
  BY <1>2 DEF Commanded
<1>3. CASE Controller /\ ~HcCommand
  <2>1. UNCHANGED <<urb, op, phase>>
    BY <1>3, ControllerTodo
  <2> QED  BY <1>1, <1>3, <2>1, CommandEvents
<1>4. CASE HcCommand
  <2>1. PICK h \in Pos, c \in Command : CommandStep(h, c)
    BY <1>4, CommandEffect
  <2>2. /\ c = commands[1] /\ 1 \in DOMAIN commands
        /\ cell'[h].body = IF c.trb = Gone THEN Blank
                           ELSE [trb |-> c.trb, code |-> IF Fits(c) THEN "success" ELSE "state"]
        /\ \A p \in Pos \ {h} : cell'[p].body = cell[p].body
        /\ \A i \in DOMAIN commands' :
             i + 1 \in DOMAIN commands /\ i + 1 # 1 /\ commands'[i] = commands[i + 1]
    BY <2>1 DEF CommandStep
  <2>3. UNCHANGED <<urb, op, phase>>
    BY <1>4 DEF HcCommand, DriverUnchanged
  <2>4. CASE c.trb # Gone
    <3>1. \A i \in DOMAIN commands : commands[i].trb # Gone => i = 1
      BY <2>2, <2>4 DEF Commanded
    <3>2. \A i \in DOMAIN commands' : commands'[i].trb = Gone
      BY <2>2, <3>1
    <3> QED  BY <1>2, <3>2
  <2>5. CASE c.trb = Gone
    <3>1. \A p \in Pos : cell'[p].body = cell[p].body \/ cell'[p].body.trb.own # "cmd"
      BY <1>0, <2>2, <2>5, BlankIsNobodys
    <3>2. Told("cmd")' => Told("cmd")
      BY <3>1 DEF Told, Of
    <3>3. CommandOf' = CommandOf /\ Target' = Target /\ (Live("cmd")' <=> Live("cmd"))
      BY <2>3 DEF CommandOf, Target, Live
    <3>4. ASSUME NEW i \in DOMAIN commands', commands'[i].trb # Gone
          PROVE  /\ Live("cmd")' /\ ~urb'["cmd"].finished /\ ~Told("cmd")'
                 /\ commands'[i] = [op |-> CommandOf', ring |-> Target',
                                    trb |-> [own |-> "cmd", part |-> 1]]
      BY <2>2, <2>3, <3>2, <3>3, <3>4 DEF Commanded
    <3>5. ASSUME NEW i \in DOMAIN commands', NEW j \in DOMAIN commands',
                 commands'[i].trb # Gone, commands'[j].trb # Gone
          PROVE  i = j
      <4>1. i + 1 = j + 1
        BY <2>2, <3>5 DEF Commanded
      <4>2. i \in Nat /\ j \in Nat
        <5>1. commands' \in Seq(Command)
          BY <1>4, HeadOfCommands DEF HcCommand
        <5> QED  BY <5>1
      <4> QED  BY <4>1, <4>2
    <3> QED  BY <3>4, <3>5 DEF Commanded
  <2> QED  BY <2>4, <2>5
<1>5. CASE HandleEvent
  <2>1. PICK d \in Pos :
            /\ cell'[d].body = Blank /\ \A p \in Pos \ {d} : cell'[p].body = cell[p].body
            /\ UNCHANGED <<commands, op, phase>>
            /\ \A o \in Owners : o # Of(d) => urb'[o] = urb[o]
    BY <1>5, HandleFacts
  <2>2. urb'["cmd"] = urb["cmd"] \/ Told("cmd")
    BY <1>0, <2>1 DEF Told
  <2> QED  BY <1>0, <1>1, <2>1, <2>2, BlankIsNobodys
<1>6. ASSUME NEW ok \in BOOLEAN, CommandDone(ok) PROVE Commanded'
  <2>1. /\ DOMAIN commands' = DOMAIN commands
        /\ \A i \in DOMAIN commands : commands'[i].trb = Disown(commands[i].trb, "cmd")
    BY <1>0, <1>6, FreeEffect DEF CommandDone
  <2>2. \A i \in DOMAIN commands : commands[i].trb # Gone => commands[i].trb.own = "cmd"
    BY DEF Commanded
  <2>3. \A i \in DOMAIN commands' : commands'[i].trb = Gone
    BY <2>1, <2>2 DEF Disown
  <2> QED  BY <1>2, <2>3
<1>7. CASE Return
  <2>1. Free(Target) /\ at = "return"
    BY <1>7 DEF Return
  <2>2. \A i \in DOMAIN commands : commands[i].trb = Gone
    BY <2>1, NoCommand DEF Calling, Polling
  <2>3. /\ DOMAIN commands' = DOMAIN commands
        /\ \A i \in DOMAIN commands : commands'[i].trb = Disown(commands[i].trb, Target)
    BY <1>0, <2>1, FreeEffect
  <2>4. \A i \in DOMAIN commands' : commands'[i].trb = Gone
    BY <2>2, <2>3 DEF Disown
  <2> QED  BY <1>2, <2>4
<1>8. ASSUME NEW r \in Rings, NEW kind \in Kinds \ {"command"}, Starts(r, kind) PROVE Commanded'
  <2>1. op \in {"none", "tick"} /\ commands' = commands
    BY <1>0, <1>8 DEF Starts, Rings
  <2>2. ~Live("cmd")
    BY <2>1 DEF Calling, Polling, CommandPhases
  <2> QED  BY <1>2, <2>1, <2>2, NoCommand
<1>9. CASE IssueCommand /\ alive
  <2> DEFINE c == [op |-> CommandOf, ring |-> Target, trb |-> [own |-> "cmd", part |-> 1]]
  <2>1. /\ at = "issue" /\ urb' = [urb EXCEPT !["cmd"] = NewUrb("command")]
        /\ commands' = Append(commands, c) /\ UNCHANGED <<cell, op, phase>>
    BY <1>9 DEF IssueCommand, CommandOf
  <2>2. ~Live("cmd")
    BY <2>1 DEF Calling, Polling
  <2>3. ~Told("cmd")
    BY <2>2 DEF Posted, Told
  <2>4. \A i \in DOMAIN commands : commands[i].trb = Gone
    BY <2>2, NoCommand
  <2>5. commands \in Seq(Command)
    BY DEF TypeOK
  <2>6. PICK n \in Nat : n = Len(commands)
    BY <2>5
  <2>7. \A i \in DOMAIN commands' : \/ commands'[i] = c /\ i = n + 1
                                    \/ i \in DOMAIN commands /\ commands'[i] = commands[i]
    <3> HIDE DEF c
    <3>1. /\ DOMAIN commands' = 1 .. n + 1 /\ commands'[n + 1] = c
          /\ \A i \in 1 .. n : commands'[i] = commands[i]
      BY <2>1, <2>5, <2>6
    <3>2. DOMAIN commands = 1 .. n
      BY <2>5, <2>6
    <3> QED  BY <3>1, <3>2
  <2>8. /\ Live("cmd")' /\ ~urb'["cmd"].finished
    <3>1. urb'["cmd"] = NewUrb("command")
      BY <1>0, <2>1 DEF TypeOK
    <3> QED  BY <3>1 DEF NewUrb, None, Live
  <2>9. ~Told("cmd")'
    BY <2>1, <2>3 DEF Told, Of
  <2>10. c = [op |-> CommandOf', ring |-> Target', trb |-> [own |-> "cmd", part |-> 1]]
    BY <2>1 DEF CommandOf, Target
  <2>11. \A i \in DOMAIN commands' : commands'[i].trb # Gone => commands'[i] = c /\ i = n + 1
    BY <2>4, <2>7
  <2> HIDE DEF c
  <2> QED  BY <2>8, <2>9, <2>10, <2>11 DEF Commanded
<1>10. CASE CommandLost
  <2>1. at = "issue" /\ commands' = commands
    BY <1>10 DEF CommandLost
  <2>2. ~Live("cmd")
    BY <2>1 DEF Calling, Polling
  <2> QED  BY <1>2, <2>1, <2>2, NoCommand
<1>11. CASE Quiet
  <2>1. /\ UNCHANGED <<cell, commands>>
        /\ urb'["cmd"].kind = urb["cmd"].kind /\ urb'["cmd"].finished = urb["cmd"].finished
        /\ Live("cmd") => UNCHANGED <<op, phase>>
    BY <1>0, <1>11, QuietEffect
  <2>2. CASE Live("cmd")
    <3>1. CommandOf' = CommandOf /\ Target' = Target /\ (Told("cmd")' <=> Told("cmd"))
          /\ (Live("cmd")' <=> Live("cmd"))
      BY <2>1, <2>2 DEF CommandOf, Target, Told, Of, Live
    <3> QED  BY <2>1, <3>1 DEF Commanded
  <2>3. CASE ~Live("cmd")
    BY <1>2, <2>1, <2>3, NoCommand
  <2> QED  BY <2>2, <2>3
<1> QED  BY <1>3, <1>4, <1>5, <1>6, <1>7, <1>8, <1>9, <1>10, <1>11, DriverCases, Zenon

-----------------------------------------------------------------------------
\* In which order TRBs retire, and that nothing is left of a URB that ended.

TurnOn(r) ==
  \A p \in Pos : Of(p) = r /\ Code(p) \in Retires =>
    /\ \A i \in DOMAIN todo[r] : todo[r][i] # Gone => Part(p) < todo[r][i].part
    /\ \A q \in Pos : Of(q) = r /\ Before(p, q) => Part(p) < Part(q)

LEMMA TurnShrinks ==
  ASSUME NEW r \in Rings, TurnOn(r), \A p \in Pos : cell'[p].body = cell[p].body \/ cell'[p].body.trb.own # r,
         \A p, q \in Pos : cell'[p].body.trb.own = r /\ cell'[q].body.trb.own = r =>
                             (Before(p, q)' <=> Before(p, q)),
         \A i \in DOMAIN todo'[r] : todo'[r][i] # Gone =>
             \E j \in DOMAIN todo[r] : todo'[r][i] = todo[r][j]
  PROVE  TurnOn(r)'
<1>1. \A p \in Pos : cell'[p].body.trb.own = r =>
         Of(p) = r /\ cell'[p].body.trb.part = Part(p) /\ cell'[p].body.code = Code(p)
  BY DEF Of, Part, Code
<1> SUFFICES ASSUME NEW p \in Pos, cell'[p].body.trb.own = r, cell'[p].body.code \in Retires
             PROVE  /\ \A i \in DOMAIN todo'[r] : todo'[r][i] # Gone =>
                          cell'[p].body.trb.part < todo'[r][i].part
                    /\ \A q \in Pos : cell'[q].body.trb.own = r /\ Before(p, q)' =>
                          cell'[p].body.trb.part < cell'[q].body.trb.part
  BY DEF TurnOn, Of, Part, Code
<1>2. Of(p) = r /\ Code(p) \in Retires /\ cell'[p].body.trb.part = Part(p)
  BY <1>1
<1>3. ASSUME NEW i \in DOMAIN todo'[r], todo'[r][i] # Gone PROVE Part(p) < todo'[r][i].part
  BY <1>2, <1>3 DEF TurnOn
<1>4. ASSUME NEW q \in Pos, cell'[q].body.trb.own = r, Before(p, q)'
      PROVE  Part(p) < cell'[q].body.trb.part
  <2>1. Before(p, q)
    BY <1>4
  <2> QED  BY <1>1, <1>2, <1>4, <2>1 DEF TurnOn
<1> QED  BY <1>2, <1>3, <1>4

LEMMA BeforeSame ==
  ASSUME ring'.dequeue = ring.dequeue
  PROVE  \A p, q \in Pos : Before(p, q)' <=> Before(p, q)
BY DEF Before

\* One more event.
LEMMA TurnMore ==
  ASSUME TypeOK, NEW r \in Rings, TurnOn(r), NEW h \in Pos, NEW t \in Trb, NEW code,
         ring' = ring, t # Gone /\ t.own = r, t.part \in Nat, \E i \in DOMAIN todo[r] : todo[r][i] = t,
         \A p \in Pos : Of(p) # "gone" => Before(p, h), Of(h) = "gone",
         cell'[h].body = [trb |-> t, code |-> code],
         \A p \in Pos \ {h} : cell'[p].body = cell[p].body,
         \A i \in DOMAIN todo'[r] : todo'[r][i] # Gone =>
             \E j \in DOMAIN todo[r] : todo'[r][i] = todo[r][j],
         code \in Retires => \A i \in DOMAIN todo'[r] : todo'[r][i] # Gone => t.part < todo'[r][i].part
  PROVE  TurnOn(r)'
<1>0. r # "gone"
  BY DEF Rings
<1>1. /\ cell'[h].body.trb.own = r /\ cell'[h].body.trb.part = t.part
      /\ cell'[h].body.code = code
  OBVIOUS
<1>2. \A p \in Pos \ {h} : cell'[p].body.trb.own = Of(p) /\ cell'[p].body.trb.part = Part(p)
                           /\ cell'[p].body.code = Code(p)
  BY DEF Of, Part, Code
<1>3. \A p, q \in Pos : Before(p, q)' <=> Before(p, q)
  BY BeforeSame
<1> SUFFICES ASSUME NEW p \in Pos, cell'[p].body.trb.own = r, cell'[p].body.code \in Retires
             PROVE  /\ \A i \in DOMAIN todo'[r] : todo'[r][i] # Gone =>
                          cell'[p].body.trb.part < todo'[r][i].part
                    /\ \A q \in Pos : cell'[q].body.trb.own = r /\ Before(p, q)' =>
                          cell'[p].body.trb.part < cell'[q].body.trb.part
  BY DEF TurnOn, Of, Part, Code
<1>4. CASE p = h
  <2>1. \A q \in Pos : cell'[q].body.trb.own = r => ~Before(h, q)
    <3>1. ~Before(h, h)
      BY BeforeAsym
    <3>2. ASSUME NEW q \in Pos \ {h}, cell'[q].body.trb.own = r PROVE ~Before(h, q)
      <4>1. Of(q) # "gone"
        BY <1>0, <1>2, <3>2
      <4> QED  BY <4>1, BeforeAsym
    <3> QED  BY <3>1, <3>2
  <2> QED  BY <1>1, <1>3, <1>4, <2>1
<1>5. CASE p # h
  <2>1. Of(p) = r /\ Code(p) \in Retires /\ cell'[p].body.trb.part = Part(p)
    BY <1>2, <1>5
  <2>2. ASSUME NEW i \in DOMAIN todo'[r], todo'[r][i] # Gone PROVE Part(p) < todo'[r][i].part
    BY <2>1, <2>2 DEF TurnOn
  <2>3. Part(p) < t.part
    BY <2>1 DEF TurnOn
  <2>4. ASSUME NEW q \in Pos, cell'[q].body.trb.own = r, Before(p, q)'
        PROVE  Part(p) < cell'[q].body.trb.part
    <3>1. CASE q = h
      BY <1>1, <2>3, <3>1
    <3>2. CASE q # h
      <4>1. Of(q) = r /\ Before(p, q) /\ cell'[q].body.trb.part = Part(q)
        BY <1>2, <1>3, <2>4, <3>2
      <4> QED  BY <2>1, <4>1 DEF TurnOn
    <3> QED  BY <3>1, <3>2
  <2> QED  BY <2>1, <2>2, <2>4
<1> QED  BY <1>4, <1>5

LEMMA InTurnInit == Init => InTurn /\ Ended
<1> SUFFICES ASSUME Init PROVE InTurn /\ Ended
  OBVIOUS
<1>1. \A p \in Pos : Of(p) = "gone"
  BY BlankIsNobodys DEF Init, Of
<1>2. "gone" \notin Rings /\ Rings \subseteq Owners
  BY DEF Rings, Owners
<1>3. InTurn
  BY <1>1, <1>2 DEF InTurn
<1>4. \A r \in Rings : ~urb[r].end
  BY <1>2, NoUrb DEF Init
<1> QED  BY <1>3, <1>4 DEF Ended

LEMMA InTurnController ==
  ASSUME TypeOK, RingInv, Blanked, Queued, Commanded, InTurn, Controller, NEW r \in Rings
  PROVE  TurnOn(r)'
<1>0. TurnOn(r) /\ r # "gone" /\ r # "cmd"
  BY DEF InTurn, TurnOn, Rings
<1>1. ring' = ring
  BY ControllerTodo
<1>2. \A p, q \in Pos : Before(p, q)' <=> Before(p, q)
  BY <1>1, BeforeSame
<1>3. ASSUME NEW i \in DOMAIN todo'[r] PROVE \E j \in DOMAIN todo[r] : todo'[r][i] = todo[r][j]
  BY <1>3, ControllerTodo
<1>4. ASSUME NEW q \in Rings, NEW code \in Retires, HcComplete(q, code) \/ HcFail(q, code)
      PROVE  TurnOn(r)'
  <2>1. PICK h \in Pos, t \in Trb : RetireStep(h, t, q, code)
    BY <1>4, RetireEffect
  <2>2. /\ t = todo[q][1] /\ 1 \in DOMAIN todo[q]
        /\ t # Gone => t.own = q /\ t.part = Size(q) - Len(todo[q]) + 1
        /\ Len(todo[q]) \in Nat \ {0}
        /\ Of(h) = "gone" /\ \A p \in Pos : Of(p) # "gone" => Before(p, h)
        /\ cell'[h].body = IF t = Gone THEN Blank ELSE [trb |-> t, code |-> code]
        /\ \A p \in Pos \ {h} : cell'[p].body = cell[p].body
        /\ DOMAIN todo'[q] = 1 .. Len(todo[q]) - 1
        /\ \A i \in DOMAIN todo'[q] : i + 1 \in DOMAIN todo[q] /\ todo'[q][i] = todo[q][i + 1]
    BY <2>1 DEF RetireStep
  <2>3. CASE t = Gone \/ q # r
    <3>1. \A p \in Pos : cell'[p].body = cell[p].body \/ cell'[p].body.trb.own # r
      BY <1>0, <2>2, <2>3, BlankIsNobodys
    <3> QED  BY <1>0, <1>2, <1>3, <3>1, TurnShrinks
  <2>4. CASE t # Gone /\ q = r
    <3>1. t.part \in Nat /\ Size(r) \in Nat
      <4>1. Live(r)
        BY <2>2, <2>4 DEF Queued
      <4>2. Size(r) \in Nat
        BY <4>1, UrbFacts DEF MaxTrbs, Owners
      <4> QED  BY <4>2, GoneIsNobody, <2>4 DEF MaxTrbs
    <3>2. ASSUME NEW i \in DOMAIN todo'[r], todo'[r][i] # Gone PROVE t.part < todo'[r][i].part
      <4>1. PICK n : n = Size(r) - Len(todo[r]) + (i + 1)
        OBVIOUS
      <4>2. todo'[r][i] = [own |-> r, part |-> n]
        BY <2>2, <2>4, <3>2, <4>1 DEF Queued
      <4>3. i \in Nat /\ i > 0
        BY <2>2, <2>4
      <4> QED  BY <2>2, <2>4, <3>1, <4>1, <4>2, <4>3
    <3>3. /\ cell'[h].body = [trb |-> t, code |-> code] /\ t.own = r
          /\ \E i \in DOMAIN todo[r] : todo[r][i] = t
      BY <2>2, <2>4
    <3> QED  BY <1>0, <1>1, <1>3, <2>2, <2>4, <3>1, <3>2, <3>3, TurnMore
  <2> QED  BY <2>3, <2>4
<1>5. CASE HcStopInFlight \/ \E q \in Rings : HcFail(q, "stall")
  <2>1. PICK h \in Pos, t \in Trb, q \in Rings, code \in {"stall", "stopped"} :
          ReportStep(h, t, q, code)
    BY <1>5, ReportEffect
  <2>2. /\ t = todo[q][1] /\ 1 \in DOMAIN todo[q]
        /\ t # Gone => t.own = q /\ t.part \in 1 .. Size(q)
        /\ Of(h) = "gone" /\ \A p \in Pos : Of(p) # "gone" => Before(p, h)
        /\ cell'[h].body = IF t = Gone THEN Blank ELSE [trb |-> t, code |-> code]
        /\ \A p \in Pos \ {h} : cell'[p].body = cell[p].body
    BY <2>1 DEF ReportStep
  <2>3. CASE t = Gone \/ q # r
    <3>1. \A p \in Pos : cell'[p].body = cell[p].body \/ cell'[p].body.trb.own # r
      BY <1>0, <2>2, <2>3, BlankIsNobodys
    <3> QED  BY <1>0, <1>2, <1>3, <3>1, TurnShrinks
  <2>4. CASE t # Gone /\ q = r
    <3>1. t.part \in Nat
      BY <2>4, GoneIsNobody DEF MaxTrbs
    <3>3. /\ cell'[h].body = [trb |-> t, code |-> code] /\ t.own = r
          /\ \E i \in DOMAIN todo[r] : todo[r][i] = t
      BY <2>2, <2>4
    <3>4. code \notin Retires
      BY DEF Retires
    <3> QED  BY <1>0, <1>1, <1>3, <2>2, <2>4, <3>1, <3>3, <3>4, TurnMore
  <2> QED  BY <2>3, <2>4
<1>6. CASE HcCommand
  <2>1. PICK h \in Pos, c \in Command : CommandStep(h, c)
    BY <1>6, CommandEffect
  <2>2. /\ cell'[h].body = IF c.trb = Gone THEN Blank
                           ELSE [trb |-> c.trb, code |-> IF Fits(c) THEN "success" ELSE "state"]
        /\ \A p \in Pos \ {h} : cell'[p].body = cell[p].body
        /\ c = commands[1] /\ 1 \in DOMAIN commands
    BY <2>1 DEF CommandStep
  <2>3. c.trb # Gone => c.trb.own = "cmd"
    BY <2>2 DEF Commanded
  <2>4. \A p \in Pos : cell'[p].body = cell[p].body \/ cell'[p].body.trb.own # r
    BY <1>0, <2>2, <2>3, BlankIsNobodys
  <2> QED  BY <1>0, <1>2, <1>3, <2>4, TurnShrinks
<1>7. CASE HcDies
  <2>1. cell' = cell
    BY <1>7 DEF HcDies
  <2> QED  BY <1>0, <1>2, <1>3, <2>1, TurnShrinks
<1> QED  BY <1>4, <1>5, <1>6, <1>7, ControllerCases, Zenon

LEMMA InTurnNext ==
  ASSUME TypeOK, RingInv, Calling, Replying, Blanked, Results, Posted, Queued, Commanded, Ended,
         InTurn, [Next]_vars
  PROVE  InTurn'
<1> SUFFICES ASSUME NEW r \in Rings PROVE TurnOn(r)'
  BY DEF InTurn, TurnOn
<1>0. /\ Rings \subseteq Owners /\ "cmd" \in Owners \ Rings /\ Target \in Rings
      /\ "async" \in Rings /\ Rings = {"sync", "async"} /\ TurnOn(r) /\ r # "gone"
  BY DEF Rings, Owners, Target, InTurn, TurnOn
<1>1. CASE Controller
  BY <1>1, InTurnController
<1>2. ASSUME UNCHANGED cell, todo'[r] = todo[r], ring'.dequeue = ring.dequeue PROVE TurnOn(r)'
  BY <1>0, <1>2, BeforeSame, TurnShrinks
<1>3. CASE HandleEvent
  <2>1. PICK d \in Pos :
            /\ \A p, q \in Pos \ {d} : Before(p, q)' <=> Before(p, q)
            /\ cell'[d].body = Blank /\ \A p \in Pos \ {d} : cell'[p].body = cell[p].body
            /\ UNCHANGED todo
    BY <1>3, HandleFacts
  <2>2. \A p \in Pos : cell'[p].body = cell[p].body \/ cell'[p].body.trb.own # r
    BY <1>0, <2>1, BlankIsNobodys
  <2>3. \A p, q \in Pos : cell'[p].body.trb.own = r /\ cell'[q].body.trb.own = r =>
                             (Before(p, q)' <=> Before(p, q))
    BY <1>0, <2>1, BlankIsNobodys
  <2> QED  BY <1>0, <2>1, <2>2, <2>3, TurnShrinks
<1>4. ASSUME NEW o \in Owners, Free(o), UNCHANGED ring PROVE TurnOn(r)'
  <2>1. \A p \in Pos : cell'[p].body = IF Of(p) = o THEN Blank ELSE cell[p].body
    BY <1>4, FreeEffect
  <2>2. \A p \in Pos : cell'[p].body = cell[p].body \/ cell'[p].body.trb.own # r
    BY <1>0, <2>1, BlankIsNobodys
  <2>3. /\ DOMAIN todo'[r] = DOMAIN todo[r]
        /\ \A i \in DOMAIN todo[r] : todo'[r][i] = IF r = o THEN Gone ELSE todo[r][i]
    BY <1>4, FreeRings
  <2> QED  BY <1>0, <1>4, <2>2, <2>3, BeforeSame, TurnShrinks
<1>5. ASSUME NEW o \in Rings, NEW kind \in Kinds \ {"command"}, Starts(o, kind) PROVE TurnOn(r)'
  <2>1. Queue(o, kind) /\ kind \in Kinds /\ UNCHANGED <<cell, ring>>
    BY <1>5 DEF Starts
  <2>2. CASE r # o
    <3>1. todo'[r] = todo[r]
      BY <2>1, <2>2, QueueEffect
    <3> QED  BY <1>2, <2>1, <3>1
  <2>3. CASE r = o
    <3>1. ~Live(r) \/ urb[r].end
      BY <1>0, <1>5, <2>3 DEF Starts, Results
    <3>2. ~Told(r)
      BY <3>1 DEF Posted, Ended, Told
    <3>3. \A p \in Pos : cell'[p].body.trb.own # r
      BY <2>1, <3>2 DEF Told, Of
    <3> QED  BY <3>3 DEF TurnOn, Of
  <2> QED  BY <2>2, <2>3
<1>6. ASSUME NEW ok \in BOOLEAN, CommandDone(ok) PROVE TurnOn(r)'
  BY <1>0, <1>4, <1>6 DEF CommandDone
<1>7. CASE Return
  BY <1>0, <1>4, <1>7 DEF Return
<1>8. CASE IssueCommand /\ alive
  BY <1>2, <1>8 DEF IssueCommand
<1>9. CASE CommandLost
  BY <1>2, <1>9 DEF CommandLost
<1>10. CASE Quiet
  BY <1>2, <1>10, QuietEffect
<1> QED  BY <1>1, <1>3, <1>5, <1>6, <1>7, <1>8, <1>9, <1>10, DriverCases, Zenon

LEMMA EndedNext ==
  ASSUME TypeOK, RingInv, Calling, Replying, Blanked, Posted, Queued, Commanded, InTurn,
         Ended, [Next]_vars
  PROVE  Ended'
<1> SUFFICES ASSUME NEW r \in Rings, urb'[r].end
             PROVE  /\ \A i \in DOMAIN todo'[r] : todo'[r][i] = Gone
                    /\ \A p \in Pos : cell'[p].body.trb.own # r
  BY DEF Ended, Held, Told, Of
<1>0. /\ Rings \subseteq Owners /\ "cmd" \in Owners \ Rings /\ Target \in Rings
      /\ r # "gone" /\ r \in Owners /\ r # "cmd"
  BY DEF Rings, Owners, Target
<1>1. urb[r].end => /\ \A i \in DOMAIN todo[r] : todo[r][i] = Gone
                    /\ \A p \in Pos : cell[p].body.trb.own # r
  BY DEF Ended, Held, Told, Of
<1>2. ASSUME urb'[r].end = urb[r].end, UNCHANGED <<cell, todo>>
      PROVE  /\ \A i \in DOMAIN todo'[r] : todo'[r][i] = Gone
             /\ \A p \in Pos : cell'[p].body.trb.own # r
  BY <1>1, <1>2
<1>3. CASE Controller
  <2>1. urb[r].end
    BY <1>3, ControllerTodo
  <2>2. ~Held(r) /\ ~Told(r)
    BY <2>1 DEF Ended
  <2>3. \A i \in DOMAIN todo'[r] : \E j \in DOMAIN todo[r] : todo'[r][i] = todo[r][j]
    <3>1. PICK k \in 0 .. Len(todo[r]) : \A i \in DOMAIN todo'[r] : i + k \in DOMAIN todo[r]
                                            /\ todo'[r][i] = todo[r][i + k]
      BY <1>3, ControllerTodo
    <3> QED  BY <3>1
  <2>4. \A p \in Pos : cell'[p].body = cell[p].body \/ cell'[p].body.trb.own # r
    BY <1>3, <2>2, ControllerEvents
  <2> QED  BY <1>1, <2>1, <2>3, <2>4
<1>4. CASE HandleEvent
  <2>1. PICK d \in Pos :
            /\ \A p \in Pos \ {d} : Before(d, p)
            /\ cell'[d].body = Blank /\ \A p \in Pos \ {d} : cell'[p].body = cell[p].body
            /\ UNCHANGED todo
            /\ r # Of(d) => urb'[r] = urb[r]
            /\ Of(d) \notin {pending, Current, "async"} => urb' = urb
            /\ r = Of(d) /\ r \in {pending, Current, "async"} =>
                 /\ Code(d) \in {"success", "short"} =>
                      (urb'[r].end <=> urb[r].end \/ Part(d) = Size(r))
                 /\ Code(d) \notin {"success", "short"} => urb'[r].end = urb[r].end
    BY <1>0, <1>4, HandleFacts
  <2>2. CASE urb[r].end
    BY <1>0, <1>1, <2>1, <2>2, BlankIsNobodys
  <2>3. CASE ~urb[r].end
    <3>1. r = Of(d) /\ Code(d) \in {"success", "short"} /\ Part(d) = Size(r)
      BY <2>1, <2>3
    <3>2. /\ \A i \in DOMAIN todo[r] : todo[r][i] # Gone => Size(r) < todo[r][i].part
          /\ \A q \in Pos : Of(q) = r /\ Before(d, q) => Size(r) < Part(q)
      BY <3>1 DEF InTurn, Retires
    <3>3. Live(r) /\ Size(r) \in Nat
      BY <1>0, <3>1, UrbFacts DEF Posted, MaxTrbs
    <3>4. ASSUME NEW i \in DOMAIN todo[r], todo[r][i] # Gone PROVE FALSE
      <4>0. todo[r] \in Seq(Trb)
        BY DEF TypeOK
      <4>1. Len(todo[r]) \in Nat /\ i \in 1 .. Len(todo[r])
        BY <4>0, <3>4
      <4>2. PICK n : n = Size(r) - Len(todo[r]) + i
        OBVIOUS
      <4>3. todo[r][i] = [own |-> r, part |-> n]
        BY <3>4, <4>2 DEF Queued
      <4>4. Size(r) < n
        BY <3>2, <3>4, <4>3
      <4> QED  BY <3>3, <4>1, <4>2, <4>4
    <3>5. ASSUME NEW q \in Pos \ {d}, Of(q) = r PROVE FALSE
      <4>1. Size(r) < Part(q) /\ Part(q) \in 1 .. Size(r)
        BY <2>1, <3>2, <3>5 DEF Posted
      <4> QED  BY <3>3, <4>1
    <3> QED  BY <1>0, <2>1, <3>4, <3>5, BlankIsNobodys DEF Of
  <2> QED  BY <2>2, <2>3
<1>5. ASSUME NEW o \in Owners, Free(o)
      PROVE  /\ \A i \in DOMAIN todo'[r] : todo'[r][i] = Gone
             /\ \A p \in Pos : cell'[p].body.trb.own # r
  <2>1. r # o
    BY <1>5, FreeUrbs, NoUrb
  <2>2. urb[r].end
    BY <1>0, <1>5, <2>1, FreeUrbs
  <2>3. \A p \in Pos : cell'[p].body = IF Of(p) = o THEN Blank ELSE cell[p].body
    BY <1>5, FreeEffect
  <2>4. /\ DOMAIN todo'[r] = DOMAIN todo[r]
        /\ \A i \in DOMAIN todo[r] : todo'[r][i] = todo[r][i]
    BY <1>5, <2>1, FreeRings
  <2> QED  BY <1>0, <1>1, <2>2, <2>3, <2>4, BlankIsNobodys
<1>6. ASSUME NEW o \in Rings, NEW kind \in Kinds \ {"command"}, Starts(o, kind)
      PROVE  /\ \A i \in DOMAIN todo'[r] : todo'[r][i] = Gone
             /\ \A p \in Pos : cell'[p].body.trb.own # r
  <2>1. Queue(o, kind) /\ kind \in Kinds /\ UNCHANGED cell
    BY <1>6 DEF Starts
  <2>2. r # o
    BY <2>1, QueueEffect
  <2>3. urb'[r] = urb[r] /\ todo'[r] = todo[r]
    BY <1>0, <2>1, <2>2, QueueEffect
  <2> QED  BY <1>1, <2>1, <2>3
<1>7. ASSUME NEW ok \in BOOLEAN, CommandDone(ok)
      PROVE  /\ \A i \in DOMAIN todo'[r] : todo'[r][i] = Gone
             /\ \A p \in Pos : cell'[p].body.trb.own # r
  BY <1>0, <1>5, <1>7 DEF CommandDone
<1>8. CASE Return
  BY <1>0, <1>5, <1>8 DEF Return
<1>9. CASE IssueCommand /\ alive
  <2>1. UNCHANGED <<cell, todo>> /\ urb'[r] = urb[r]
    BY <1>0, <1>9 DEF IssueCommand, TypeOK
  <2> QED  BY <1>2, <2>1
<1>10. CASE CommandLost
  BY <1>2, <1>10 DEF CommandLost
<1>11. CASE Quiet
  BY <1>0, <1>2, <1>11, QuietEffect
<1> QED  BY <1>3, <1>4, <1>6, <1>7, <1>8, <1>9, <1>10, <1>11, DriverCases, Zenon

-----------------------------------------------------------------------------
\* What the driver's steps do to a transfer ring and to the URB on it.

LEMMA RingNames ==
  /\ Rings \subseteq Owners /\ "cmd" \in Owners \ Rings /\ Target \in Rings
  /\ "sync" \in Rings /\ "async" \in Rings /\ Rings = {"sync", "async"} /\ "gone" \notin Owners
  /\ op = "xfer" => Target = "sync"
  /\ op # "xfer" => Target = "async"
BY DEF Rings, Owners, Target

\* A command is over.
LEMMA DoneEffect ==
  ASSUME TypeOK, Calling, Posted, Queued, NEW ok \in BOOLEAN, CommandDone(ok)
  PROVE  /\ \A r \in Rings : urb'[r] = urb[r] /\ todo'[r] = todo[r]
         /\ \A p \in Pos : IF Of(p) = "cmd" THEN cell'[p].body = Blank
                                            ELSE cell'[p].body = cell[p].body
         /\ \A p \in Pos : cell'[p].body.trb.own # "cmd"
         /\ \A p, q \in Pos : Before(p, q)' <=> Before(p, q)
         /\ urb'["cmd"] = None /\ phase \in CommandPhases /\ at = "polled"
         /\ UNCHANGED <<ring, op, alive, moved, retired>> /\ Target' = Target
         /\ \A r \in Rings :
              IF /\ r = Target /\ endpoint[r] = "stopped"
                 /\ ok /\ ((phase = "stop" /\ FinishedAnyway) \/ phase \in {"dequeue", "redequeue"})
              THEN endpoint'[r] = "running" ELSE endpoint'[r] = endpoint[r]
         /\ excused' = (excused \/ ~ok)
         /\ ok => Obeyed /\ ~Told("cmd")
         /\ ok => urb["cmd"].finished
<1>0. /\ phase \in CommandPhases /\ at = "polled" /\ CommandEnds(ok) /\ Free("cmd")
      /\ UNCHANGED <<ring, op, alive, moved, retired>>
      /\ ok <=> urb["cmd"].finished /\ urb["cmd"].result = NoError
  BY DEF CommandDone
<1>1. /\ urb'["cmd"] = None /\ \A r \in Rings : urb'[r] = urb[r]
  BY <1>0, RingNames, FreeUrbs
<1>2. \A p \in Pos : cell'[p].body = IF Of(p) = "cmd" THEN Blank ELSE cell[p].body
  BY <1>0, RingNames, FreeEffect
<1>3. \A p \in Pos : cell'[p].body.trb.own # "cmd"
  BY <1>2, BlankIsNobodys DEF Of
<1>4. ASSUME NEW r \in Rings PROVE todo'[r] = todo[r]
  <2>1. /\ DOMAIN todo'[r] = DOMAIN todo[r]
        /\ \A i \in DOMAIN todo[r] : todo'[r][i] = todo[r][i]
    BY <1>0, RingNames, FreeRings
  <2>2. todo[r] \in Seq(Trb) /\ todo'[r] \in Seq(Trb)
    BY <1>0, RingNames, FreeType DEF TypeOK
  <2> QED  BY <2>1, <2>2
<1>5. \A p, q \in Pos : Before(p, q)' <=> Before(p, q)
  BY <1>0, BeforeSame
<1>6. endpoint \in [Rings -> {"running", "stopping", "stopped", "halted"}]
  BY DEF TypeOK
<1>7. ASSUME NEW r \in Rings
      PROVE  IF /\ r = Target /\ endpoint[r] = "stopped"
                /\ ok /\ ((phase = "stop" /\ FinishedAnyway) \/ phase \in {"dequeue", "redequeue"})
             THEN endpoint'[r] = "running" ELSE endpoint'[r] = endpoint[r]
  <2>1. IF ok /\ ((phase = "stop" /\ FinishedAnyway) \/ phase \in {"dequeue", "redequeue"})
        THEN DoorBell(Target) ELSE UNCHANGED endpoint
    BY <1>0, CommandEndsFacts
  <2> QED  BY <1>6, <2>1, RingNames DEF DoorBell
<1>8. excused' = (excused \/ ~ok)
  BY <1>0, CommandEndsFacts
<1>9. ASSUME ok PROVE Obeyed /\ ~Told("cmd")
  <2>1. Live("cmd")
    BY <1>0 DEF Calling, Polling
  <2>2. \A p \in Pos : Of(p) # "cmd"
    BY <1>0, <1>9 DEF Posted
  <2> QED  BY <1>0, <1>9, <2>1, <2>2 DEF Obeyed, Told
<1>10. Target' = Target
  BY <1>0 DEF Target
<1> QED  BY <1>0, <1>1, <1>2, <1>3, <1>4, <1>5, <1>7, <1>8, <1>9, <1>10

\* The call's own URB is freed.
LEMMA ReturnEffect ==
  ASSUME TypeOK, Calling, Queued, Return
  PROVE  /\ at = "return" /\ phase = "none" /\ phase' = "none" /\ op' = "none" /\ at' = "idle"
         /\ op \in {"xfer", "delete"} /\ ~Live("cmd") /\ status' = "SUCCESS"
         /\ urb'[Target] = None /\ \A o \in Owners \ {Target} : urb'[o] = urb[o]
         /\ \A p \in Pos : IF Of(p) = Target THEN cell'[p].body = Blank
                                             ELSE cell'[p].body = cell[p].body
         /\ \A p \in Pos : cell'[p].body.trb.own # Target
         /\ \A p, q \in Pos : Before(p, q)' <=> Before(p, q)
         /\ \A r \in Rings \ {Target} : todo'[r] = todo[r]
         /\ DOMAIN todo'[Target] = DOMAIN todo[Target]
         /\ \A i \in DOMAIN todo'[Target] : todo'[Target][i] = Gone
         /\ UNCHANGED <<ring, endpoint, alive>>
         /\ excused' = (excused \/ "BUFFER" \in urb[Target].result)
<1>0. /\ at = "return" /\ Free(Target) /\ phase' = "none" /\ op' = "none" /\ at' = "idle"
      /\ UNCHANGED <<ring, endpoint, alive>> /\ status' = "SUCCESS"
      /\ excused' = (excused \/ "BUFFER" \in urb[Target].result)
  BY DEF Return
<1>1. phase = "none" /\ op \in {"xfer", "delete"} /\ ~Live("cmd")
  BY <1>0 DEF Calling, Polling
<1>2. PICK t \in Owners : t = Target /\ Free(t)
  BY <1>0, RingNames
<1>3. urb'[t] = None /\ \A o \in Owners \ {t} : urb'[o] = urb[o]
  BY <1>2, FreeUrbs
<1>4. \A p \in Pos : cell'[p].body = IF Of(p) = t THEN Blank ELSE cell[p].body
  BY <1>2, FreeEffect
<1>5. \A p \in Pos : cell'[p].body.trb.own # t
  BY <1>4, BlankIsNobodys, RingNames DEF Of
<1>6. \A r \in Rings : /\ DOMAIN todo'[r] = DOMAIN todo[r] /\ Len(todo'[r]) = Len(todo[r])
                       /\ \A i \in DOMAIN todo[r] :
                            todo'[r][i] = IF r = t THEN Gone ELSE todo[r][i]
  BY <1>2, FreeRings
<1>7. ASSUME NEW r \in Rings \ {t} PROVE todo'[r] = todo[r]
  <2>1. todo[r] \in Seq(Trb) /\ todo'[r] \in Seq(Trb)
    BY <1>2, FreeType DEF TypeOK
  <2> QED  BY <1>6, <2>1
<1>8. t \in Rings /\ \A i \in DOMAIN todo'[t] : todo'[t][i] = Gone
  BY <1>2, <1>6, RingNames
<1>9. \A p, q \in Pos : Before(p, q)' <=> Before(p, q)
  BY <1>0, BeforeSame
<1>10. /\ urb'[Target] = None /\ \A o \in Owners \ {Target} : urb'[o] = urb[o]
       /\ \A p \in Pos : cell'[p].body.trb.own # Target
       /\ \A r \in Rings \ {Target} : todo'[r] = todo[r]
       /\ DOMAIN todo'[Target] = DOMAIN todo[Target]
       /\ \A i \in DOMAIN todo'[Target] : todo'[Target][i] = Gone
  BY <1>2, <1>3, <1>5, <1>6, <1>7, <1>8
<1>11. \A p \in Pos : IF Of(p) = Target THEN cell'[p].body = Blank
                                         ELSE cell'[p].body = cell[p].body
  BY <1>2, <1>4
<1> QED  BY <1>0, <1>1, <1>9, <1>10, <1>11

\* A URB is put on its ring, which holds no TRBs of anybody.
LEMMA StartEffect ==
  ASSUME TypeOK, Calling, Posted, Results, Ended, Queued,
         NEW r \in Rings, NEW kind \in Kinds \ {"command"}, Starts(r, kind)
  PROVE  /\ UNCHANGED <<cell, ring, commands, alive, excused, status>>
         /\ op \in {"none", "tick"} /\ ~Live("cmd") /\ phase \in {"none", "exec"}
         /\ phase' \in {"none", "exec"} /\ op' \in {"none", "xfer"}
         /\ ~Told(r) /\ ~Held(r)
         /\ ~urb'[r].finished /\ urb'[r].result = NoError /\ ~urb'[r].end /\ urb'[r].completed = 0
         /\ moved'[r] = 0 /\ urb'[r].kind = kind
         /\ endpoint'[r] = IF endpoint[r] = "stopped" THEN "running" ELSE endpoint[r]
         /\ \A o \in Owners \ {r} : urb'[o] = urb[o]
         /\ \A q \in Rings \ {r} : todo'[q] = todo[q] /\ endpoint'[q] = endpoint[q]
                                   /\ moved'[q] = moved[q]
         /\ \A p, q \in Pos : Before(p, q)' <=> Before(p, q)
<1>1. Queue(r, kind) /\ kind \in Kinds /\ UNCHANGED <<cell, ring, commands, alive, excused, status>>
  BY DEF Starts
<1>2. /\ op \in {"none", "tick"} /\ phase' \in {"none", "exec"} /\ op' \in {"none", "xfer"}
      /\ ~Live(r) \/ urb[r].end
  BY RingNames DEF Starts, Results
<1>3. ~Live("cmd") /\ phase \in {"none", "exec"}
  BY <1>2 DEF Calling, Polling, CommandPhases
<1>4. ~Told(r) /\ ~Held(r)
  BY <1>2 DEF Posted, Ended, Told, Held, Queued
<1>5. \A p, q \in Pos : Before(p, q)' <=> Before(p, q)
  BY <1>1, BeforeSame
<1> HIDE DEF Queue
<1> QED  BY <1>1, <1>2, <1>3, <1>4, <1>5, QueueEffect

\* A command is issued.
LEMMA IssueEffect ==
  ASSUME TypeOK, Calling, Posted, IssueCommand, alive
  PROVE  /\ UNCHANGED <<cell, ring, todo, endpoint, op, phase, status, excused, moved, retired>>
         /\ \A r \in Rings : urb'[r] = urb[r]
         /\ ~Live("cmd") /\ ~Told("cmd") /\ ~urb'["cmd"].finished /\ at = "issue" /\ at' = "check"
         /\ phase \in CommandPhases
         /\ \A p, q \in Pos : Before(p, q)' <=> Before(p, q)
<1>1. /\ UNCHANGED <<cell, ring, todo, endpoint, op, phase, status, excused, moved, retired>>
      /\ urb' = [urb EXCEPT !["cmd"] = NewUrb("command")] /\ at = "issue" /\ at' = "check"
  BY DEF IssueCommand
<1>2. (\A r \in Rings : urb'[r] = urb[r]) /\ urb'["cmd"] = NewUrb("command")
  BY <1>1, RingNames DEF TypeOK
<1>3. ~Live("cmd") /\ phase \in CommandPhases
  BY <1>1 DEF Calling, Polling
<1>4. ~Told("cmd")
  BY <1>3 DEF Posted, Told
<1>5. ~urb'["cmd"].finished
  BY <1>2 DEF NewUrb, None
<1>6. \A p, q \in Pos : Before(p, q)' <=> Before(p, q)
  BY <1>1, BeforeSame
<1> QED  BY <1>1, <1>2, <1>3, <1>4, <1>5, <1>6

LEMMA RestInit ==
  Init => /\ Posted /\ Stalled /\ Counted /\ Quieted
          /\ NothingLeft /\ StopsHeard /\ StallsKept /\ Failing
<1> SUFFICES ASSUME Init
             PROVE  /\ Posted /\ Stalled /\ Counted /\ Quieted
                    /\ NothingLeft /\ StopsHeard /\ StallsKept /\ Failing
  OBVIOUS
<1>1. \A p \in Pos : Of(p) = "gone" /\ cell[p].body = Blank
  BY BlankIsNobodys DEF Init, Of
<1>2. \A o \in Owners : ~Live(o) /\ urb[o].result = {} /\ ~urb[o].finished
  BY NoUrb DEF Init, Live, NoError
<1>3. /\ \A r \in Rings : todo[r] = <<>> /\ endpoint[r] = "running"
      /\ commands = <<>> /\ op = "none" /\ phase = "none" /\ at = "idle"
  BY DEF Init
<1>4. \A r \in Rings : ~Held(r) /\ ~Told(r)
  BY <1>1, <1>3, RingNames DEF Held, Told
<1>5. Posted /\ Stalled
  BY <1>1, <1>2, <1>4, RingNames DEF Posted, Stalled
<1>6. Counted /\ NothingLeft /\ Failing
  BY <1>2, <1>3, RingNames DEF Counted, NothingLeft, Failing
<1>7. Quieted
  BY <1>1, <1>2, <1>3, RingNames DEF Quieted, Obeyed
<1>8. StopsHeard /\ StallsKept
  BY <1>1, <1>2, <1>3, RingNames DEF StopsHeard, StallsKept
<1> QED  BY <1>5, <1>6, <1>7, <1>8

-----------------------------------------------------------------------------
\* A stall is the last that is heard of a URB.

StalledOn(r) ==
  /\ "STALL" \in urb[r].result => AtRest(r) /\ ~Told(r)
  /\ \A p \in Pos : Of(p) = r /\ Code(p) = "stall" =>
       AtRest(r) /\ \A q \in Pos : Of(q) = r => ~Before(p, q)

LEMMA StalledShrinks ==
  ASSUME NEW r \in Rings, StalledOn(r), "STALL" \in urb'[r].result => "STALL" \in urb[r].result,
         \A p \in Pos : cell'[p].body = cell[p].body \/ cell'[p].body.trb.own # r,
         \A p, q \in Pos : cell'[p].body.trb.own = r /\ cell'[q].body.trb.own = r =>
                             (Before(p, q)' <=> Before(p, q)),
         AtRest(r) => AtRest(r)'
  PROVE  StalledOn(r)'
<1>1. \A p \in Pos : cell'[p].body.trb.own = r => Of(p) = r /\ cell'[p].body.code = Code(p)
  BY DEF Of, Code
<1>2. Told(r)' => Told(r)
  BY <1>1 DEF Told, Of
<1>3. ASSUME NEW p \in Pos, cell'[p].body.trb.own = r, cell'[p].body.code = "stall"
      PROVE  AtRest(r)' /\ \A q \in Pos : cell'[q].body.trb.own = r => ~Before(p, q)'
  BY <1>1, <1>3 DEF StalledOn
<1>4. "STALL" \in urb'[r].result => AtRest(r)' /\ ~Told(r)'
  BY <1>2 DEF StalledOn
<1> QED  BY <1>3, <1>4 DEF StalledOn, Of, Code

\* Nothing told, nothing stalled.
LEMMA StalledNot ==
  ASSUME NEW r \in Rings, "STALL" \notin urb'[r].result,
         \A p \in Pos : cell'[p].body.trb.own = r => cell'[p].body.code # "stall"
  PROVE  StalledOn(r)'
BY DEF StalledOn, Of, Code

LEMMA RestKept ==
  ASSUME NEW r \in Rings, todo'[r] = todo[r], endpoint'[r] = endpoint[r]
  PROVE  AtRest(r) => AtRest(r)'
BY DEF AtRest, Held

LEMMA StalledController ==
  ASSUME TypeOK, RingInv, Blanked, Queued, Commanded, Stalled, Controller, NEW r \in Rings
  PROVE  StalledOn(r)'
<1>0. StalledOn(r) /\ r # "gone" /\ r # "cmd"
  BY DEF Stalled, StalledOn, Rings
<1>1. ring' = ring /\ urb' = urb
  BY ControllerTodo
<1>2. \A p, q \in Pos : Before(p, q)' <=> Before(p, q)
  BY <1>1, BeforeSame
<1>3. Held(r)' => Held(r)
  BY ControllerTodo DEF Held
<1>4. \A p \in Pos : \/ cell'[p].body = cell[p].body \/ cell'[p].body.trb.own # r
                     \/ ~AtRest(r)
  BY ControllerEvents DEF AtRest
<1>5. ASSUME AtRest(r) => AtRest(r)', AtRest(r) PROVE StalledOn(r)'
  BY <1>0, <1>1, <1>2, <1>4, <1>5, StalledShrinks
<1>6. ASSUME ~AtRest(r)
      PROVE  "STALL" \notin urb'[r].result /\ \A p \in Pos : Of(p) = r => Code(p) # "stall"
  BY <1>0, <1>1, <1>6 DEF StalledOn
<1>7. ASSUME NEW q \in Rings, NEW code \in Retires, HcComplete(q, code) \/ HcFail(q, code)
      PROVE  StalledOn(r)'
  <2>1. PICK h \in Pos, t \in Trb : RetireStep(h, t, q, code)
    BY <1>7, RetireEffect
  <2>2. /\ cell'[h].body = IF t = Gone THEN Blank ELSE [trb |-> t, code |-> code]
        /\ \A p \in Pos \ {h} : cell'[p].body = cell[p].body
        /\ endpoint' = endpoint /\ code # "stall"
    BY <2>1 DEF RetireStep, Retires
  <2>3. AtRest(r) => AtRest(r)'
    BY <1>3, <2>2 DEF AtRest
  <2>4. CASE ~AtRest(r)
    <3>1. \A p \in Pos : cell'[p].body.trb.own = r => cell'[p].body.code # "stall"
      BY <1>0, <1>6, <2>2, <2>4, BlankIsNobodys DEF Of, Code
    <3> QED  BY <1>6, <2>4, <3>1, StalledNot
  <2> QED  BY <1>5, <2>3, <2>4
<1>8. CASE HcStopInFlight \/ \E q \in Rings : HcFail(q, "stall")
  <2>1. PICK h \in Pos, t \in Trb, q \in Rings, code \in {"stall", "stopped"} :
          ReportStep(h, t, q, code)
    BY <1>8, ReportEffect
  <2>2. /\ cell'[h].body = IF t = Gone THEN Blank ELSE [trb |-> t, code |-> code]
        /\ \A p \in Pos \ {h} : cell'[p].body = cell[p].body
        /\ Of(h) = "gone" /\ \A p \in Pos : Of(p) # "gone" => Before(p, h)
        /\ t # Gone => t.own = q
        /\ endpoint[q] = "running" /\ endpoint'[q] = IF code = "stall" THEN "halted" ELSE "stopping"
        /\ \A s \in Rings \ {q} : endpoint'[s] = endpoint[s]
    BY <2>1 DEF ReportStep
  <2>3. AtRest(r) => AtRest(r)'
    BY <1>3, <2>2 DEF AtRest
  <2>4. CASE ~AtRest(r)
    <3>1. CASE t = Gone \/ q # r \/ code # "stall"
      <4>1. \A p \in Pos : cell'[p].body.trb.own = r => cell'[p].body.code # "stall"
        BY <1>0, <1>6, <2>2, <2>4, <3>1, BlankIsNobodys DEF Of, Code
      <4> QED  BY <1>6, <2>4, <4>1, StalledNot
    <3>2. CASE t # Gone /\ q = r /\ code = "stall"
      <4>1. AtRest(r)'
        BY <2>2, <3>2 DEF AtRest
      <4>2. \A p \in Pos : cell'[p].body.trb.own = r /\ cell'[p].body.code = "stall" => p = h
        BY <1>6, <2>2, <2>4 DEF Of, Code
      <4>3. ASSUME NEW p \in Pos, cell'[p].body.trb.own = r PROVE ~Before(h, p)'
        <5>1. CASE p = h
          BY <1>2, <5>1, BeforeAsym
        <5>2. CASE p # h
          <6>1. Of(p) # "gone"
            BY <1>0, <2>2, <4>3, <5>2 DEF Of
          <6> QED  BY <1>2, <2>2, <6>1, BeforeAsym
        <5> QED  BY <5>1, <5>2
      <4> QED  BY <1>6, <2>4, <4>1, <4>2, <4>3 DEF StalledOn, Of, Code
    <3> QED  BY <3>1, <3>2
  <2> QED  BY <1>5, <2>3, <2>4
<1>9. CASE HcCommand
  <2>1. PICK h \in Pos, c \in Command : CommandStep(h, c)
    BY <1>9, CommandEffect
  <2>2. /\ cell'[h].body = IF c.trb = Gone THEN Blank
                           ELSE [trb |-> c.trb, code |-> IF Fits(c) THEN "success" ELSE "state"]
        /\ \A p \in Pos \ {h} : cell'[p].body = cell[p].body
        /\ c = commands[1] /\ 1 \in DOMAIN commands
        /\ endpoint'[c.ring] = IF Fits(c) THEN "stopped" ELSE endpoint[c.ring]
        /\ \A q \in Rings \ {c.ring} : endpoint'[q] = endpoint[q]
    BY <2>1 DEF CommandStep
  <2>3. c.trb # Gone => c.trb.own = "cmd"
    BY <2>2 DEF Commanded
  <2>4. \A p \in Pos : cell'[p].body = cell[p].body \/ cell'[p].body.trb.own # r
    BY <1>0, <2>2, <2>3, BlankIsNobodys
  <2>5. AtRest(r) => AtRest(r)'
    BY <1>3, <2>2 DEF AtRest
  <2> QED  BY <1>0, <1>1, <1>2, <2>4, <2>5, StalledShrinks
<1>10. CASE HcDies
  <2>1. UNCHANGED <<cell, todo, endpoint>>
    BY <1>10 DEF HcDies
  <2> QED  BY <1>0, <1>1, <1>2, <2>1, RestKept, StalledShrinks
<1> QED  BY <1>7, <1>8, <1>9, <1>10, ControllerCases, Zenon

LEMMA StalledHandle ==
  ASSUME TypeOK, RingInv, Stalled, HandleEvent, NEW r \in Rings
  PROVE  StalledOn(r)'
<1>0. StalledOn(r) /\ r # "gone" /\ r # "cmd" /\ r \in Owners
  BY DEF Stalled, StalledOn, Rings, Owners
<1>1. PICK d \in Pos :
            /\ \A p \in Pos \ {d} : Before(d, p)
            /\ \A p, q \in Pos \ {d} : Before(p, q)' <=> Before(p, q)
            /\ cell'[d].body = Blank /\ \A p \in Pos \ {d} : cell'[p].body = cell[p].body
            /\ UNCHANGED <<todo, endpoint>>
            /\ r # Of(d) => urb'[r] = urb[r]
            /\ Of(d) \notin {pending, Current, "async"} => urb' = urb
            /\ r = Of(d) /\ r \in {pending, Current, "async"} =>
                 /\ Code(d) \in {"success", "short"} => urb'[r].result = urb[r].result
                 /\ Code(d) \notin {"success", "short"} =>
                      urb'[r].result = urb[r].result \cup {Flag(Code(d))}
  BY <1>0, HandleFacts
<1>2. AtRest(r) => AtRest(r)'
  BY <1>1, RestKept
<1>3. /\ \A p \in Pos : cell'[p].body = cell[p].body \/ cell'[p].body.trb.own # r
      /\ \A p, q \in Pos : cell'[p].body.trb.own = r /\ cell'[q].body.trb.own = r =>
                             (Before(p, q)' <=> Before(p, q))
  BY <1>0, <1>1, BlankIsNobodys
<1>4. CASE "STALL" \in urb'[r].result => "STALL" \in urb[r].result
  BY <1>0, <1>2, <1>3, <1>4, StalledShrinks
<1>5. CASE "STALL" \in urb'[r].result /\ "STALL" \notin urb[r].result
  <2>1. Of(d) = r /\ Flag(Code(d)) = "STALL"
    BY <1>1, <1>5
  <2>2. Code(d) = "stall"
    BY <2>1, EventFacts DEF Flag, Codes
  <2>3. AtRest(r) /\ \A q \in Pos : Of(q) = r => ~Before(d, q)
    BY <1>0, <2>1, <2>2 DEF StalledOn
  <2>4. \A q \in Pos : cell'[q].body.trb.own # r
    BY <1>0, <1>1, <2>3, BlankIsNobodys DEF Of
  <2> QED  BY <1>2, <2>3, <2>4 DEF StalledOn, Told, Of
<1> QED  BY <1>4, <1>5

LEMMA StalledNext ==
  ASSUME TypeOK, RingInv, Calling, Replying, Blanked, Results, Posted, Queued, Commanded, Ended,
         Quieted, Stalled, [Next]_vars
  PROVE  Stalled'
<1> SUFFICES ASSUME NEW r \in Rings PROVE StalledOn(r)'
  BY DEF Stalled, StalledOn
<1>0. StalledOn(r) /\ r \in Owners /\ r # "gone" /\ r # "cmd"
  BY DEF Stalled, StalledOn, Rings, Owners
<1>1. ASSUME NEW ok \in BOOLEAN, CommandDone(ok) PROVE StalledOn(r)'
  <2>1. /\ urb'[r] = urb[r] /\ todo'[r] = todo[r]
        /\ \A p \in Pos : cell'[p].body = cell[p].body \/ cell'[p].body.trb.own # r
        /\ \A p, q \in Pos : Before(p, q)' <=> Before(p, q)
    <3>1. \A p \in Pos : cell'[p].body = cell[p].body \/ cell'[p].body = Blank
      BY <1>1, DoneEffect
    <3> QED  BY <1>0, <1>1, <3>1, DoneEffect, BlankIsNobodys
  <2>2. CASE endpoint'[r] = endpoint[r]
    BY <1>0, <2>1, <2>2, RestKept, StalledShrinks
  <2>3. CASE endpoint'[r] # endpoint[r]
    <3>1. /\ r = Target /\ ok /\ Obeyed /\ ~Told("cmd")
          /\ (phase = "stop" /\ FinishedAnyway) \/ phase \in {"dequeue", "redequeue"}
      BY <1>1, <2>3, DoneEffect
    <3>2. CASE phase = "stop" /\ FinishedAnyway
      <4>1. ~Told(r)
        BY <3>1, <3>2 DEF Quieted, Told
      <4>2. "STALL" \notin urb'[r].result
        BY <2>1, <3>1, <3>2 DEF FinishedAnyway, NoError
      <4>3. \A p \in Pos : cell'[p].body.trb.own # r
        BY <2>1, <4>1 DEF Told, Of
      <4> QED  BY <4>2, <4>3, StalledNot
    <3>3. CASE phase \in {"dequeue", "redequeue"}
      <4>1. AtRest(r)'
        BY <2>1, <3>1, <3>3 DEF Quieted, AtRest, Held
      <4> QED  BY <1>0, <2>1, <4>1, StalledShrinks
    <3> QED  BY <3>1, <3>2, <3>3
  <2> QED  BY <2>2, <2>3
<1>2. CASE Return
  <2>1. CASE r = Target
    <3>1. urb'[r] = None /\ \A p \in Pos : cell'[p].body.trb.own # r
      BY <1>2, <2>1, ReturnEffect
    <3> QED  BY <3>1, NoUrb, StalledNot DEF NoError
  <2>2. CASE r # Target
    <3>1. /\ urb'[r] = urb[r] /\ todo'[r] = todo[r] /\ endpoint'[r] = endpoint[r]
          /\ \A p, q \in Pos : Before(p, q)' <=> Before(p, q)
      BY <1>0, <1>2, <2>2, ReturnEffect
    <3>2. \A p \in Pos : cell'[p].body = cell[p].body \/ cell'[p].body = Blank
      BY <1>2, ReturnEffect
    <3> QED  BY <1>0, <3>1, <3>2, BlankIsNobodys, RestKept, StalledShrinks
  <2> QED  BY <2>1, <2>2
<1>3. ASSUME NEW o \in Rings, NEW kind \in Kinds \ {"command"}, Starts(o, kind) PROVE StalledOn(r)'
  <2>1. CASE r = o
    <3>1. urb'[r].result = NoError /\ ~Told(r) /\ cell' = cell
      BY <1>3, <2>1, StartEffect
    <3> QED  BY <3>1, StalledNot DEF Told, Of, NoError
  <2>2. CASE r # o
    <3>1. /\ urb'[r] = urb[r] /\ todo'[r] = todo[r] /\ endpoint'[r] = endpoint[r] /\ cell' = cell
          /\ \A p, q \in Pos : Before(p, q)' <=> Before(p, q)
      BY <1>0, <1>3, <2>2, StartEffect
    <3> QED  BY <1>0, <3>1, RestKept, StalledShrinks
  <2> QED  BY <2>1, <2>2
<1>4. CASE IssueCommand /\ alive
  <2>1. /\ urb'[r] = urb[r] /\ UNCHANGED <<cell, todo, endpoint>>
        /\ \A p, q \in Pos : Before(p, q)' <=> Before(p, q)
    BY <1>4, IssueEffect
  <2> QED  BY <1>0, <2>1, RestKept, StalledShrinks
<1>5. CASE CommandLost
  <2>1. UNCHANGED <<cell, todo, urb, endpoint, ring>>
    BY <1>5, CommandEndsFacts DEF CommandLost
  <2> QED  BY <1>0, <2>1, BeforeSame, RestKept, StalledShrinks
<1>6. CASE Quiet
  <2>1. /\ UNCHANGED <<cell, todo, endpoint>> /\ ring'.dequeue = ring.dequeue
        /\ \/ urb'[r].result = urb[r].result \/ urb'[r].result = urb[r].result \cup {"SYSTEM"}
           \/ urb'[r].result = NoError
    BY <1>0, <1>6, QuietEffect
  <2>2. "STALL" \in urb'[r].result => "STALL" \in urb[r].result
    BY <2>1 DEF NoError
  <2> QED  BY <1>0, <2>1, <2>2, BeforeSame, RestKept, StalledShrinks
<1> QED  BY <1>1, <1>2, <1>3, <1>4, <1>5, <1>6, StalledController, StalledHandle, DriverCases, Zenon

-----------------------------------------------------------------------------
\* What a command that was carried out has brought about.

\* An endpoint at rest stays so, while nobody rings its bell.
LEMMA RestController ==
  ASSUME TypeOK, RingInv, Blanked, Queued, Commanded, Controller
  PROVE  \A r \in Rings : /\ AtRest(r) => AtRest(r)'
                          /\ endpoint[r] = "stopped" => endpoint'[r] = "stopped"
                          /\ endpoint[r] = "halted" =>
                               \/ endpoint'[r] = "halted"
                               \/ HcCommand /\ commands[1].op = "reset" /\ commands[1].ring = r
                          /\ endpoint'[r] = "stopping" =>
                               \/ endpoint[r] = "stopping"
                               \/ /\ HcStopInFlight /\ 1 \in DOMAIN commands
                                  /\ commands[1].op = "stop" /\ commands[1].ring = r
<1> SUFFICES ASSUME NEW r \in Rings
             PROVE  /\ AtRest(r) => AtRest(r)'
                    /\ endpoint[r] = "stopped" => endpoint'[r] = "stopped"
                    /\ endpoint[r] = "halted" =>
                         \/ endpoint'[r] = "halted"
                         \/ HcCommand /\ commands[1].op = "reset" /\ commands[1].ring = r
                    /\ endpoint'[r] = "stopping" =>
                         \/ endpoint[r] = "stopping"
                         \/ /\ HcStopInFlight /\ 1 \in DOMAIN commands
                            /\ commands[1].op = "stop" /\ commands[1].ring = r
  OBVIOUS
<1>1. Held(r)' => Held(r)
  BY ControllerTodo DEF Held
<1>2. ASSUME endpoint'[r] = endpoint[r]
      PROVE  /\ AtRest(r) => AtRest(r)'
             /\ endpoint[r] = "stopped" => endpoint'[r] = "stopped"
             /\ endpoint[r] = "halted" => endpoint'[r] = "halted"
             /\ endpoint'[r] = "stopping" => endpoint[r] = "stopping"
  BY <1>1, <1>2 DEF AtRest
<1>3. ASSUME NEW q \in Rings, NEW code \in Retires, HcComplete(q, code) \/ HcFail(q, code)
      PROVE  endpoint'[r] = endpoint[r]
  <2>1. PICK h \in Pos, t \in Trb : RetireStep(h, t, q, code)
    BY <1>3, RetireEffect
  <2> QED  BY <2>1 DEF RetireStep
<1>4. ASSUME HcStopInFlight \/ \E q \in Rings : HcFail(q, "stall"), endpoint'[r] # endpoint[r]
      PROVE  /\ endpoint[r] = "running" /\ endpoint'[r] \in {"halted", "stopping"}
             /\ endpoint'[r] = "stopping" =>
                  /\ HcStopInFlight /\ 1 \in DOMAIN commands
                  /\ commands[1].op = "stop" /\ commands[1].ring = r
  <2>0. endpoint \in [Rings -> {"running", "stopping", "stopped", "halted"}]
    BY DEF TypeOK
  <2>1. CASE HcStopInFlight
    <3>1. commands \in Seq(Command) /\ commands # <<>>
      BY <2>1 DEF HcStopInFlight, TypeOK
    <3>2. 1 \in DOMAIN commands /\ Head(commands) = commands[1]
      BY <3>1
    <3> QED  BY <1>4, <2>0, <2>1, <3>2 DEF HcStopInFlight
  <2>2. ASSUME NEW q \in Rings, HcFail(q, "stall")
        PROVE  endpoint[r] = "running" /\ endpoint'[r] = "halted"
    BY <1>4, <2>0, <2>2 DEF HcFail
  <2> QED  BY <1>4, <2>1, <2>2
<1>5. ASSUME HcCommand, endpoint'[r] # endpoint[r]
      PROVE  /\ endpoint'[r] = "stopped"
             /\ endpoint[r] = "halted" => commands[1].op = "reset" /\ commands[1].ring = r
  <2>1. PICK h \in Pos, c \in Command : CommandStep(h, c)
    BY <1>5, CommandEffect
  <2>2. /\ c = commands[1] /\ r = c.ring /\ Fits(c) /\ endpoint'[r] = "stopped"
    BY <1>5, <2>1 DEF CommandStep
  <2>3. endpoint[r] = "halted" => c.op = "reset"
    <3>1. CASE c.op = "stop"
      BY <2>2, <3>1 DEF Fits
    <3>2. CASE c.op = "dequeue"
      BY <2>2, <3>2 DEF Fits
    <3> QED  BY <3>1, <3>2 DEF Command
  <2> QED  BY <2>2, <2>3
<1>6. ASSUME HcDies PROVE endpoint' = endpoint
  BY <1>6 DEF HcDies
<1>7. CASE HcCommand
  <2>1. CASE endpoint'[r] = endpoint[r]
    BY <1>2, <2>1, Zenon
  <2>2. CASE endpoint'[r] # endpoint[r]
    <3>1. AtRest(r)'
      BY <1>5, <1>7, <2>2 DEF AtRest
    <3>2. endpoint'[r] = "stopped" /\ endpoint'[r] # "stopping"
      BY <1>5, <1>7, <2>2
    <3> QED  BY <1>5, <1>7, <2>2, <3>1, <3>2, Zenon
  <2> QED  BY <2>1, <2>2
<1>8. CASE HcStopInFlight \/ \E q \in Rings : HcFail(q, "stall")
  <2>1. CASE endpoint'[r] = endpoint[r]
    BY <1>2, <2>1, Zenon
  <2>2. CASE endpoint'[r] # endpoint[r]
    <3>1. AtRest(r) => AtRest(r)'
      BY <1>1, <1>4, <1>8, <2>2 DEF AtRest
    <3>2. endpoint[r] # "stopped" /\ endpoint[r] # "halted"
      BY <1>4, <1>8, <2>2
    <3> QED  BY <1>4, <1>8, <2>2, <3>1, <3>2, Zenon
  <2> QED  BY <2>1, <2>2
<1> QED  BY <1>2, <1>3, <1>6, <1>7, <1>8, ControllerCases, Zenon

\* The controller writes over nothing that is unread.
LEMMA ControllerKeeps ==
  ASSUME TypeOK, RingInv, Blanked, Queued, Controller
  PROVE  \A p \in Pos : Of(p) # "gone" => cell'[p].body = cell[p].body
<1>1. ASSUME NEW q \in Rings, NEW code \in Retires, HcComplete(q, code) \/ HcFail(q, code)
      PROVE  \A p \in Pos : Of(p) # "gone" => cell'[p].body = cell[p].body
  <2>1. PICK h \in Pos, t \in Trb : RetireStep(h, t, q, code)
    BY <1>1, RetireEffect
  <2> QED  BY <2>1 DEF RetireStep
<1>2. ASSUME HcStopInFlight \/ \E q \in Rings : HcFail(q, "stall")
      PROVE  \A p \in Pos : Of(p) # "gone" => cell'[p].body = cell[p].body
  <2>1. PICK h \in Pos, t \in Trb, q \in Rings, code \in {"stall", "stopped"} :
          ReportStep(h, t, q, code)
    BY <1>2, ReportEffect
  <2> QED  BY <2>1 DEF ReportStep
<1>3. ASSUME HcCommand PROVE \A p \in Pos : Of(p) # "gone" => cell'[p].body = cell[p].body
  <2>1. PICK h \in Pos, c \in Command : CommandStep(h, c)
    BY <1>3, CommandEffect
  <2> QED  BY <2>1 DEF CommandStep
<1>4. ASSUME HcDies PROVE cell' = cell
  BY <1>4 DEF HcDies
<1> QED  BY <1>1, <1>2, <1>3, <1>4, ControllerCases, Zenon

\* Where the quiet steps lead.
LEMMA QuietPhases ==
  ASSUME TypeOK, Calling, Results, Quiet
  PROVE  \/ UNCHANGED <<op, phase>> /\ ~(at' \in {"tail", "return"} /\ at' # at)
         \/ TransferTimesOut /\ op = "xfer" /\ op' = "xfer" /\ phase = "exec" /\ phase' = "stop"
               /\ at' = "issue" /\ ~urb["sync"].finished
         \/ DeleteAsync /\ op = "none" /\ op' = "delete" /\ phase = "none" /\ phase' = "stop"
               /\ at' = "issue"
         \/ op \in {"none", "tick"} /\ op' \in {"none", "tick"} /\ phase' \in {"none", "exec"}
               /\ phase \in {"none", "exec"} /\ at' \in {"idle", "check"}
         \/ TransferFinishes /\ op = "xfer" /\ op' = op /\ phase = "exec" /\ phase' = "none"
               /\ at' = "tail" /\ urb["sync"].finished
         \/ RecoverOrReturn /\ op = "xfer" /\ op' = op /\ phase = "none" /\ phase' = "reset"
               /\ at = "tail" /\ at' = "issue" /\ urb["sync"].result = {"STALL"}
         \/ RecoverOrReturn /\ op = "xfer" /\ op' = op /\ phase = "none" /\ phase' = "none"
               /\ at = "tail" /\ at' \in {"return", "asserted"}
               /\ ~(urb["sync"].result = {"STALL"} /\ status = "DEVICE_ERROR" /\ at' = "return")
<1>1. CASE CheckBegin \/ CheckEnd \/ PollAgain \/ UNCHANGED vars
  BY <1>1 DEF CheckBegin, CheckEnd, PollAgain, vars
<1>2. CASE TransferTimesOut
  BY <1>2 DEF TransferTimesOut, StopEndpoint, Done, Current, Target
<1>3. CASE DeleteAsync
  BY <1>3 DEF DeleteAsync, StopEndpoint, Idle, Calling
<1>4. CASE Tick \/ TickEnds
  BY <1>4 DEF Tick, TickEnds, Idle, Calling
<1>5. CASE TransferFinishes
  BY <1>5 DEF TransferFinishes, Done, Current, Target
<1>6. CASE RecoverOrReturn
  <2>1. at = "tail" /\ op' = op /\ op = "xfer" /\ phase = "none"
    BY <1>6 DEF RecoverOrReturn, Calling
  <2>2. urb["sync"].result # {"TRANSACTION"}
    BY RingNames DEF Results
  <2> QED  BY <1>6, <2>1, <2>2 DEF RecoverOrReturn, Recoverable
<1> QED  BY <1>1, <1>2, <1>3, <1>4, <1>5, <1>6 DEF Quiet

-----------------------------------------------------------------------------
LEMMA ObeyedLive ==
  ASSUME Posted, Obeyed
  PROVE  Live("cmd") /\ (~urb["cmd"].finished => Told("cmd")) /\ (Told("cmd") => ~urb["cmd"].finished)
BY DEF Posted, Obeyed, Told

\* The command comes to its end on the controller's side.
LEMMA QuietedCommand ==
  ASSUME TypeOK, RingInv, Blanked, Queued, Commanded, Posted, Quieted, HcCommand
  PROVE  Quieted'
<1>0. /\ UNCHANGED <<urb, op, phase, ring>> /\ Target' = Target /\ (Live("cmd")' <=> Live("cmd"))
      /\ Controller
  BY DEF HcCommand, DriverUnchanged, Target, Live, Controller
<1>1. PICK h \in Pos, c \in Command : CommandStep(h, c)
  BY CommandEffect
<1>2. /\ c = commands[1] /\ 1 \in DOMAIN commands /\ c.ring \in Rings
      /\ Of(h) = "gone" /\ \A p \in Pos : Of(p) # "gone" => Before(p, h)
      /\ cell'[h].body = IF c.trb = Gone THEN Blank
                         ELSE [trb |-> c.trb, code |-> IF Fits(c) THEN "success" ELSE "state"]
      /\ \A p \in Pos \ {h} : cell'[p].body = cell[p].body
      /\ endpoint'[c.ring] = IF Fits(c) THEN "stopped" ELSE endpoint[c.ring]
      /\ \A q \in Rings \ {c.ring} : endpoint'[q] = endpoint[q]
  BY <1>1 DEF CommandStep
<1>3. PICK r \in Rings : r = Target
  BY RingNames
<1>4. c.trb # Gone => c.trb.own = "cmd"
  BY <1>2 DEF Commanded
<1>5. \A p \in Pos : cell'[p].body.trb.own = r => p # h /\ cell[p].body.trb.own = r
  BY <1>2, <1>4, BlankIsNobodys, RingNames
<1>6. (Told(r)' => Told(r)) /\ (Held(r)' => Held(r)) /\ (AtRest(r) => AtRest(r)')
  BY <1>0, <1>5, ControllerTodo, RestController DEF Told, Of, Held
<1>7. \A p, q \in Pos : Before(p, q)' <=> Before(p, q)
  BY <1>0, BeforeSame
<1>8. phase \in {"dequeue", "reset", "redequeue"} => ~Told(r)' /\ AtRest(r)'
  BY <1>3, <1>6 DEF Quieted
<1>9. CASE ~(c.trb # Gone /\ Fits(c))
  <2>1. \A p \in Pos : cell'[p].body.trb.own = "cmd" /\ cell'[p].body.code = "success" =>
                         cell[p].body.trb.own = "cmd" /\ cell[p].body.code = "success" /\ p # h
    BY <1>2, <1>9, BlankIsNobodys
  <2>2. Obeyed' => Obeyed
    BY <1>0, <2>1 DEF Obeyed, Of, Code
  <2>3. \A p \in Pos : Of(p) = "cmd" => cell'[p].body.trb.own = "cmd"
    BY <1>2 DEF Of
  <2>4. ASSUME Obeyed', phase = "stop", NEW p \in Pos, cell'[p].body.trb.own = r
        PROVE  \E q \in Pos : cell'[q].body.trb.own = "cmd" /\ Before(p, q)'
    BY <1>3, <1>5, <1>7, <2>2, <2>3, <2>4 DEF Quieted, Of
  <2>5. endpoint[r] = "stopped" => endpoint'[r] = "stopped"
    BY <1>0, RestController
  <2> HIDE DEF Obeyed
  <2> QED  BY <1>0, <1>3, <1>6, <1>8, <2>2, <2>4, <2>5 DEF Quieted, Of
<1>10. CASE c.trb # Gone /\ Fits(c)
  <2>1. c.op = CommandOf /\ c.ring = r
    BY <1>2, <1>3, <1>10 DEF Commanded
  <2>2. endpoint'[r] = "stopped" /\ cell'[h].body.trb.own = "cmd"
    BY <1>2, <1>4, <1>10, <2>1
  <2>3. ASSUME NEW p \in Pos, cell'[p].body.trb.own = r
        PROVE  \E q \in Pos : cell'[q].body.trb.own = "cmd" /\ Before(p, q)'
    <3>1. Of(p) # "gone"
      BY <1>5, <2>3, RingNames DEF Of
    <3> QED  BY <1>2, <1>7, <2>2, <3>1
  <2>4. phase \in {"dequeue", "redequeue"} => ~Held(r)'
    <3>1. phase \in {"dequeue", "redequeue"} => c.op = "dequeue"
      BY <2>1 DEF CommandOf
    <3>2. c.op = "dequeue" => DOMAIN todo'[c.ring] = 1 .. 0
      BY <1>1, <1>10, HeadOfCommands DEF CommandStep, TypeOK
    <3> QED  BY <2>1, <3>1, <3>2 DEF Held
  <2> QED  BY <1>0, <1>3, <1>8, <2>2, <2>3, <2>4 DEF Quieted, Of
<1> QED  BY <1>9, <1>10

LEMMA QuietedController ==
  ASSUME TypeOK, RingInv, Blanked, Queued, Commanded, Posted, Quieted, Controller, ~HcCommand
  PROVE  Quieted'
<1>0. /\ UNCHANGED <<urb, op, phase, ring>> /\ Target' = Target /\ (Live("cmd")' <=> Live("cmd"))
  BY ControllerTodo DEF Target, Live
<1>3. PICK r \in Rings : r = Target
  BY RingNames
<1>1. \A p \in Pos : cell'[p].body.trb.own = "cmd" => cell'[p].body = cell[p].body
  BY CommandEvents
<1>2. Obeyed' => Obeyed
  BY <1>0, <1>1 DEF Obeyed, Of, Code
<1>4. AtRest(r) => \A p \in Pos : cell'[p].body = cell[p].body \/ cell'[p].body.trb.own # r
  BY ControllerEvents DEF AtRest
<1>5. (Held(r)' => Held(r)) /\ (AtRest(r) => AtRest(r)')
      /\ (endpoint[r] = "stopped" => endpoint'[r] = "stopped" /\ AtRest(r))
  BY ControllerTodo, RestController DEF Held, AtRest
<1>6. \A p, q \in Pos : Before(p, q)' <=> Before(p, q)
  BY <1>0, BeforeSame
<1>7. phase \in {"dequeue", "reset", "redequeue"} => ~Told(r)' /\ AtRest(r)'
  BY <1>3, <1>4, <1>5 DEF Quieted, Told, Of
<1>8. ASSUME Obeyed', phase = "stop", NEW p \in Pos, cell'[p].body.trb.own = r
      PROVE  \E q \in Pos : cell'[q].body.trb.own = "cmd" /\ Before(p, q)'
  <2>1. Obeyed /\ AtRest(r)
    BY <1>2, <1>3, <1>5, <1>8 DEF Quieted
  <2>2. Of(p) = r
    BY <1>4, <1>8, <2>1 DEF Of
  <2>3. PICK q \in Pos : Of(q) = "cmd" /\ Before(p, q)
    BY <1>3, <1>8, <2>1, <2>2 DEF Quieted
  <2>4. cell'[q].body.trb.own = "cmd"
    BY <2>3, ControllerKeeps DEF Of
  <2> QED  BY <1>6, <2>3, <2>4
<1>9. Obeyed' => endpoint'[r] = "stopped" /\ (phase \in {"dequeue", "redequeue"} => ~Held(r)')
  BY <1>2, <1>3, <1>5 DEF Quieted
<1> QED  BY <1>0, <1>3, <1>7, <1>8, <1>9 DEF Quieted, Of

LEMMA QuietedHandle ==
  ASSUME TypeOK, RingInv, Posted, Quieted, HandleEvent
  PROVE  Quieted'
<1>1. PICK d \in Pos :
            /\ \A p \in Pos \ {d} : Before(d, p)
            /\ \A p, q \in Pos \ {d} : Before(p, q)' <=> Before(p, q)
            /\ cell'[d].body = Blank /\ \A p \in Pos \ {d} : cell'[p].body = cell[p].body
            /\ UNCHANGED <<todo, endpoint, op, phase>>
            /\ urb'["cmd"].kind = urb["cmd"].kind
            /\ "cmd" # Of(d) => urb'["cmd"] = urb["cmd"]
            /\ Of(d) \notin {pending, Current, "async"} => urb' = urb
            /\ Of(d) = "cmd" /\ "cmd" \in {pending, Current, "async"} =>
                 /\ Code(d) \in {"success", "short"} => urb'["cmd"].result = urb["cmd"].result
                 /\ Code(d) \notin {"success", "short"} =>
                      urb'["cmd"].result = urb["cmd"].result \cup {Flag(Code(d))}
  BY HandleFacts, RingNames
<1>2. PICK r \in Rings : r = Target
  BY RingNames
<1>3. Target' = r /\ (Live("cmd")' <=> Live("cmd"))
  BY <1>1, <1>2 DEF Target, Live
<1>4. \A p \in Pos : cell'[p].body.trb.own # "gone" =>
                       p # d /\ cell'[p].body = cell[p].body /\ cell'[p].body.trb.own = Of(p)
  BY <1>1, BlankIsNobodys DEF Of
<1>5. Obeyed' => Obeyed
  <2>1. ASSUME NEW p \in Pos, cell'[p].body.trb.own = "cmd", cell'[p].body.code = "success"
        PROVE  Obeyed
    BY <1>4, <2>1 DEF Obeyed, Of, Code
  <2>2. ASSUME Live("cmd"), urb'["cmd"].finished, urb'["cmd"].result = NoError PROVE Obeyed
    <3>1. CASE urb'["cmd"] = urb["cmd"]
      BY <2>2, <3>1 DEF Obeyed
    <3>2. CASE urb'["cmd"] # urb["cmd"]
      <4>1. Of(d) = "cmd" /\ Code(d) \in {"success", "short"}
        BY <1>1, <2>2, <3>2 DEF NoError
      <4>2. Code(d) = "success"
        BY <4>1 DEF Posted
      <4> QED  BY <4>1, <4>2 DEF Obeyed
    <3> QED  BY <3>1, <3>2
  <2> QED  BY <1>3, <2>1, <2>2 DEF Obeyed, Of, Code
<1>6. (Told(r)' => Told(r)) /\ (Held(r)' <=> Held(r)) /\ (AtRest(r)' <=> AtRest(r))
  BY <1>1, <1>4, RingNames DEF Told, Of, Held, AtRest
<1>7. ASSUME Obeyed', phase = "stop", NEW p \in Pos, cell'[p].body.trb.own = r
      PROVE  \E q \in Pos : cell'[q].body.trb.own = "cmd" /\ Before(p, q)'
  <2>1. p # d /\ Of(p) = r
    BY <1>4, <1>7, RingNames
  <2>2. PICK q \in Pos : Of(q) = "cmd" /\ Before(p, q)
    BY <1>2, <1>5, <1>7, <2>1 DEF Quieted
  <2>3. q # d
    BY <1>1, <2>1, <2>2, BeforeAsym
  <2> QED  BY <1>1, <2>1, <2>2, <2>3 DEF Of
<1> QED  BY <1>1, <1>2, <1>3, <1>5, <1>6, <1>7 DEF Quieted, Of

LEMMA QuietedNext ==
  ASSUME TypeOK, RingInv, Calling, Replying, Blanked, Results, Posted, Queued, Commanded, Ended,
         Stalled, Quieted, [Next]_vars
  PROVE  Quieted'
<1>0. PICK r \in Rings : r = Target
  BY RingNames
<1>1. ASSUME ~Obeyed',
             phase' \in {"dequeue", "reset", "redequeue"} => ~Told(Target)' /\ AtRest(Target)'
      PROVE  Quieted'
  BY <1>1 DEF Quieted
<1>2. ASSUME ~Live("cmd"), \A p \in Pos : cell'[p].body = cell[p].body \/ cell'[p].body = Blank,
             urb'["cmd"].kind = urb["cmd"].kind
      PROVE  ~Obeyed'
  BY <1>2, BlankIsNobodys DEF Obeyed, Posted, Of, Code, Live
<1>3. ASSUME NEW ok \in BOOLEAN, CommandDone(ok) PROVE Quieted'
  <2>1. ~Obeyed'
    <3>1. \A p \in Pos : cell'[p].body.trb.own # "cmd"
      BY <1>3, DoneEffect
    <3>2. urb'["cmd"].kind = "none"
      BY <1>3, DoneEffect, NoUrb
    <3> QED  BY <3>1, <3>2 DEF Obeyed, Of, Live
  <2>2. Target' = r /\ todo'[r] = todo[r]
    BY <1>0, <1>3, DoneEffect
  <2>3. Told(r)' => Told(r)
    <3>1. \A p \in Pos : cell'[p].body = cell[p].body \/ cell'[p].body = Blank
      BY <1>3, DoneEffect
    <3> QED  BY <3>1, BlankIsNobodys, RingNames DEF Told, Of
  <2>4. ASSUME phase' \in {"dequeue", "reset", "redequeue"} PROVE ~Told(r)' /\ AtRest(r)'
    <3>1. CommandEnds(ok)
      BY <1>3 DEF CommandDone
    <3>2. ok /\ ((phase = "stop" /\ ~FinishedAnyway) \/ phase = "reset")
      BY <2>4, <3>1, CommandEndsFacts
    <3>3. Obeyed /\ ~Told("cmd") /\ endpoint'[r] = endpoint[r]
      BY <1>0, <1>3, <3>2, DoneEffect
    <3>4. ~Told(r) /\ AtRest(r)
      BY <1>0, <3>2, <3>3 DEF Quieted, Told, AtRest
    <3> QED  BY <2>2, <2>3, <3>3, <3>4, RestKept
  <2> QED  BY <1>1, <2>1, <2>2, <2>4
<1>4. CASE Return
  <2>1. /\ ~Live("cmd") /\ phase' = "none" /\ urb'["cmd"] = urb["cmd"]
        /\ \A p \in Pos : cell'[p].body = cell[p].body \/ cell'[p].body = Blank
    BY <1>4, RingNames, ReturnEffect
  <2> QED  BY <1>1, <1>2, <2>1
<1>5. ASSUME NEW o \in Rings, NEW kind \in Kinds \ {"command"}, Starts(o, kind) PROVE Quieted'
  <2>1. /\ ~Live("cmd") /\ phase' \in {"none", "exec"} /\ urb'["cmd"] = urb["cmd"] /\ cell' = cell
    BY <1>5, RingNames, StartEffect
  <2> QED  BY <1>1, <1>2, <2>1
<1>6. ASSUME UNCHANGED <<cell, todo, endpoint, op, phase>>
      PROVE  phase' \in {"dequeue", "reset", "redequeue"} => ~Told(Target)' /\ AtRest(Target)'
  BY <1>6 DEF Quieted, Told, Of, AtRest, Held, Target
<1>7. CASE IssueCommand /\ alive
  <2>1. /\ ~Told("cmd") /\ ~urb'["cmd"].finished /\ UNCHANGED <<cell, todo, endpoint, op, phase>>
    BY <1>7, IssueEffect
  <2>2. ~Obeyed'
    BY <2>1 DEF Obeyed, Told, Of
  <2> QED  BY <1>1, <1>6, <2>1, <2>2
<1>8. CASE CommandLost
  <2>1. /\ UNCHANGED <<cell, urb>> /\ at = "issue" /\ phase' = "none"
    BY <1>8, CommandEndsFacts DEF CommandLost
  <2>2. ~Live("cmd")
    BY <2>1 DEF Calling, Polling
  <2> QED  BY <1>1, <1>2, <2>1, <2>2
<1>9. CASE Quiet
  <2>1. /\ UNCHANGED <<cell, todo, endpoint>> /\ ring'.dequeue = ring.dequeue
        /\ urb'["cmd"].kind = urb["cmd"].kind /\ urb'["cmd"].finished = urb["cmd"].finished
        /\ urb'["cmd"].result = NoError => urb["cmd"].result = NoError
        /\ Live("cmd") => UNCHANGED <<op, phase>>
    BY <1>9, RingNames, QuietEffect DEF NoError
  <2>2. Obeyed' => Obeyed
    BY <2>1 DEF Obeyed, Of, Code, Live
  <2>3. CASE UNCHANGED <<op, phase>>
    <3>1. Target' = Target /\ (\A p, q \in Pos : Before(p, q)' <=> Before(p, q))
      BY <2>1, <2>3, BeforeSame DEF Target
    <3>2. /\ Told(r)' <=> Told(r)
          /\ Held(r)' <=> Held(r)
          /\ AtRest(r)' <=> AtRest(r)
      BY <2>1 DEF Told, Of, Held, AtRest
    <3>3. \A p \in Pos : cell'[p].body.trb.own = Of(p)
      BY <2>1 DEF Of
    <3> QED  BY <1>0, <2>1, <2>2, <2>3, <3>1, <3>2, <3>3 DEF Quieted, Of
  <2>4. CASE ~UNCHANGED <<op, phase>>
    <3>1. ~Obeyed'
      BY <1>2, <2>1, <2>4
    <3>2. ASSUME phase' \in {"dequeue", "reset", "redequeue"}
          PROVE  ~Told(Target)' /\ AtRest(Target)'
      <4>1. op' = "xfer" /\ urb["sync"].result = {"STALL"}
        BY <1>9, <2>4, <3>2, QuietPhases
      <4>2. AtRest("sync") /\ ~Told("sync")
        BY <4>1, RingNames DEF Stalled
      <4>3. Target' = "sync"
        BY <4>1 DEF Target
      <4> QED  BY <2>1, <4>2, <4>3 DEF Told, Of, AtRest, Held
    <3> QED  BY <1>1, <3>1, <3>2
  <2> QED  BY <2>3, <2>4
<1> QED
  BY <1>3, <1>4, <1>5, <1>7, <1>8, <1>9, QuietedHandle, QuietedCommand, QuietedController,
     DriverCases, Zenon

-----------------------------------------------------------------------------
\* What the controller's events say of the endpoint.
LEMMA EventsSay ==
  ASSUME TypeOK, RingInv, Blanked, Queued, Commanded, Controller, NEW r \in Rings
  PROVE  \A p \in Pos :
           \/ cell'[p].body = cell[p].body \/ cell'[p].body.trb.own # r
           \/ /\ cell'[p].body.code = "stall" => endpoint'[r] = "halted"
              /\ cell'[p].body.code = "stopped" =>
                   1 \in DOMAIN commands /\ commands[1].op = "stop" /\ commands[1].ring = r
<1>0. r # "gone" /\ r # "cmd"
  BY DEF Rings
<1>1. ASSUME NEW q \in Rings, NEW code \in Retires, HcComplete(q, code) \/ HcFail(q, code),
             NEW p \in Pos
      PROVE  \/ cell'[p].body = cell[p].body \/ cell'[p].body.trb.own # r
             \/ cell'[p].body.code \notin {"stall", "stopped"}
  <2>1. PICK h \in Pos, t \in Trb : RetireStep(h, t, q, code)
    BY <1>1, RetireEffect
  <2>2. /\ cell'[h].body = IF t = Gone THEN Blank ELSE [trb |-> t, code |-> code]
        /\ p # h => cell'[p].body = cell[p].body
        /\ code \notin {"stall", "stopped"}
    BY <2>1 DEF RetireStep, Retires
  <2> QED  BY <1>0, <2>2, BlankIsNobodys
<1>2. ASSUME HcStopInFlight \/ \E q \in Rings : HcFail(q, "stall"), NEW p \in Pos
      PROVE  \/ cell'[p].body = cell[p].body \/ cell'[p].body.trb.own # r
             \/ /\ cell'[p].body.code = "stall" => endpoint'[r] = "halted"
                /\ cell'[p].body.code = "stopped" =>
                     1 \in DOMAIN commands /\ commands[1].op = "stop" /\ commands[1].ring = r
  <2>1. PICK h \in Pos, t \in Trb, q \in Rings, code \in {"stall", "stopped"} :
          ReportStep(h, t, q, code)
    BY <1>2, ReportEffect
  <2>2. /\ cell'[h].body = IF t = Gone THEN Blank ELSE [trb |-> t, code |-> code]
        /\ p # h => cell'[p].body = cell[p].body
        /\ t # Gone => t.own = q
        /\ endpoint'[q] = IF code = "stall" THEN "halted" ELSE "stopping"
        /\ code = "stopped" => /\ commands # <<>> /\ Head(commands).op = "stop"
                               /\ Head(commands).ring = q
    BY <2>1 DEF ReportStep
  <2>3. commands # <<>> => 1 \in DOMAIN commands /\ Head(commands) = commands[1]
    BY DEF TypeOK
  <2> QED  BY <1>0, <2>2, <2>3, BlankIsNobodys
<1>3. ASSUME HcCommand, NEW p \in Pos
      PROVE  cell'[p].body = cell[p].body \/ cell'[p].body.trb.own # r
  <2>1. PICK h \in Pos, c \in Command : CommandStep(h, c)
    BY <1>3, CommandEffect
  <2>2. /\ cell'[h].body = IF c.trb = Gone THEN Blank
                           ELSE [trb |-> c.trb, code |-> IF Fits(c) THEN "success" ELSE "state"]
        /\ p # h => cell'[p].body = cell[p].body
        /\ c = commands[1] /\ 1 \in DOMAIN commands
    BY <2>1 DEF CommandStep
  <2>3. c.trb # Gone => c.trb.own = "cmd"
    BY <2>2 DEF Commanded
  <2> QED  BY <1>0, <2>2, <2>3, BlankIsNobodys
<1>4. ASSUME HcDies PROVE cell' = cell
  BY <1>4 DEF HcDies
<1> QED  BY <1>1, <1>2, <1>3, <1>4, ControllerCases, Zenon

-----------------------------------------------------------------------------
\* While no command has failed, freed URBs leave nothing with the controller.

LEMMA NothingLeftNext ==
  ASSUME TypeOK, RingInv, Calling, Replying, Blanked, Results, Posted, Queued, Commanded, Ended,
         Failing, NothingLeft, [Next]_vars
  PROVE  NothingLeft'
<1> SUFFICES ASSUME ~excused'
             PROVE  /\ \A r \in Rings : \A i \in DOMAIN todo'[r] : todo'[r][i] # Gone
                    /\ \A i \in DOMAIN commands' : commands'[i].trb # Gone
  BY DEF NothingLeft
<1>0. ASSUME ~excused
      PROVE  /\ \A r \in Rings : \A i \in DOMAIN todo[r] : todo[r][i] # Gone
             /\ \A i \in DOMAIN commands : commands[i].trb # Gone
  BY <1>0 DEF NothingLeft
<1>1. CASE Controller
  <2>1. ~excused
    BY <1>1, ControllerTodo
  <2>2. ASSUME NEW r \in Rings, NEW i \in DOMAIN todo'[r] PROVE todo'[r][i] # Gone
    <3>1. \E j \in DOMAIN todo[r] : todo'[r][i] = todo[r][j]
      BY <1>1, ControllerTodo
    <3> QED  BY <1>0, <2>1, <3>1
  <2>3. \A i \in DOMAIN commands' : commands'[i].trb # Gone
    <3>1. CASE HcCommand
      <4>1. PICK h \in Pos, c \in Command : CommandStep(h, c)
        BY <3>1, CommandEffect
      <4>2. \A i \in DOMAIN commands' : i + 1 \in DOMAIN commands /\ commands'[i] = commands[i + 1]
        BY <4>1 DEF CommandStep
      <4> QED  BY <1>0, <2>1, <4>2
    <3>2. CASE ~HcCommand
      BY <1>0, <1>1, <2>1, <3>2, CommandEvents
    <3> QED  BY <3>1, <3>2
  <2> QED  BY <2>2, <2>3
<1>2. ASSUME UNCHANGED <<todo, commands, excused>>
      PROVE  /\ \A r \in Rings : \A i \in DOMAIN todo'[r] : todo'[r][i] # Gone
             /\ \A i \in DOMAIN commands' : commands'[i].trb # Gone
  BY <1>0, <1>2
<1>3. CASE HandleEvent
  BY <1>2, <1>3, HandleFacts
<1>4. ASSUME NEW ok \in BOOLEAN, CommandDone(ok)
      PROVE  /\ \A r \in Rings : \A i \in DOMAIN todo'[r] : todo'[r][i] # Gone
             /\ \A i \in DOMAIN commands' : commands'[i].trb # Gone
  <2>1. /\ ok /\ ~excused /\ urb["cmd"].finished /\ \A r \in Rings : todo'[r] = todo[r]
    BY <1>4, DoneEffect
  <2>2. \A i \in DOMAIN commands : FALSE
    BY <1>0, <2>1 DEF Commanded
  <2>3. DOMAIN commands' = DOMAIN commands
    BY <1>4, RingNames, FreeEffect DEF CommandDone
  <2> QED  BY <1>0, <2>1, <2>2, <2>3
<1>5. CASE Return
  <2>1. /\ ~excused /\ "BUFFER" \notin urb[Target].result /\ at = "return" /\ ~Live("cmd")
        /\ \A r \in Rings \ {Target} : todo'[r] = todo[r]
        /\ DOMAIN todo'[Target] = DOMAIN todo[Target]
    BY <1>5, ReturnEffect
  <2>2. ~Held(Target)
    BY <2>1 DEF Failing
  <2>3. \A i \in DOMAIN todo[Target] : FALSE
    BY <1>0, <2>1, <2>2, RingNames DEF Held
  <2>4. \A i \in DOMAIN commands : FALSE
    BY <1>0, <2>1, NoCommand
  <2>5. DOMAIN commands' = DOMAIN commands
    BY <1>5, RingNames, FreeEffect DEF Return
  <2> QED  BY <1>0, <2>1, <2>3, <2>4, <2>5
<1>6. ASSUME NEW o \in Rings, NEW kind \in Kinds \ {"command"}, Starts(o, kind)
      PROVE  /\ \A r \in Rings : \A i \in DOMAIN todo'[r] : todo'[r][i] # Gone
             /\ \A i \in DOMAIN commands' : commands'[i].trb # Gone
  <2>1. /\ UNCHANGED <<commands, excused>> /\ Queue(o, kind) /\ kind \in Kinds
    BY <1>6 DEF Starts
  <2>2. \A q \in Rings \ {o} : todo'[q] = todo[q]
    BY <1>6, StartEffect
  <2>3. ASSUME NEW i \in DOMAIN todo'[o] PROVE todo'[o][i] # Gone
    <3>1. /\ Len(todo[o]) \in Nat /\ DOMAIN todo[o] = 1 .. Len(todo[o])
          /\ Len(Shape(kind)) \in Nat
          /\ i \in 1 .. Len(todo[o]) + Len(Shape(kind))
      BY <2>1, QueueEffect DEF MaxTrbs
    <3>2. CASE i <= Len(todo[o])
      <4>1. i \in DOMAIN todo[o]
        BY <3>1, <3>2
      <4>2. todo'[o][i] = todo[o][i]
        BY <2>1, <3>2, QueueEffect
      <4> QED  BY <1>0, <2>1, <4>1, <4>2
    <3>3. CASE ~(i <= Len(todo[o]))
      <4>1. PICK k : k = i - Len(todo[o])
        OBVIOUS
      <4>2. todo'[o][i] = [own |-> o, part |-> k]
        BY <2>1, <3>3, <4>1, QueueEffect
      <4> QED  BY <4>2, RingNames, GoneIsNobody
    <3> QED  BY <3>2, <3>3
  <2> QED  BY <1>0, <2>1, <2>2, <2>3
<1>7. CASE IssueCommand /\ alive
  <2>1. UNCHANGED <<todo, excused>>
    BY <1>7, IssueEffect
  <2>2. PICK c : commands' = Append(commands, c) /\ c.trb = [own |-> "cmd", part |-> 1]
    BY <1>7 DEF IssueCommand
  <2>3. commands \in Seq(Command)
    BY DEF TypeOK
  <2>4. PICK n \in Nat : n = Len(commands)
    BY <2>3
  <2>5. /\ DOMAIN commands' = 1 .. n + 1 /\ commands'[n + 1] = c
        /\ \A i \in 1 .. n : commands'[i] = commands[i]
    BY <2>2, <2>3, <2>4
  <2>6. DOMAIN commands = 1 .. n
    BY <2>3, <2>4
  <2>7. c.trb # Gone
    BY <2>2 DEF Gone
  <2> QED  BY <1>0, <2>1, <2>5, <2>6, <2>7
<1>8. CASE CommandLost
  BY <1>8, CommandEndsFacts DEF CommandLost
<1>9. CASE Quiet
  BY <1>2, <1>9, QuietEffect
<1> QED  BY <1>1, <1>3, <1>4, <1>5, <1>6, <1>7, <1>8, <1>9, DriverCases, Zenon

-----------------------------------------------------------------------------
\* While no command has failed, a Stop Endpoint is heard of by who asked for it.

StopsOn(r) ==
  /\ endpoint[r] = "stopping" => phase = "stop" /\ r = Target
  /\ \A p \in Pos : Of(p) = r /\ Code(p) = "stopped" => phase = "stop" /\ r = Target
  /\ "TIMEOUT" \in urb[r].result =>
        op \in {"xfer", "delete"} /\ r = Target /\ (phase \in {"stop", "dequeue"} \/ ~Held(r))

LEMMA StopsHeardNext ==
  ASSUME TypeOK, RingInv, Calling, Replying, Blanked, Results, Posted, Queued, Commanded, Ended,
         Quieted, NothingLeft, StopsHeard, [Next]_vars
  PROVE  StopsHeard'
<1> SUFFICES ASSUME ~excused', NEW r \in Rings PROVE StopsOn(r)'
  BY DEF StopsHeard, StopsOn
<1>0. r \in Owners /\ r # "gone" /\ r # "cmd"
  BY DEF Rings, Owners
<1>1. ~excused => StopsOn(r)
  BY DEF StopsHeard, StopsOn
<1>2. CASE Controller
  <2>1. UNCHANGED <<urb, op, phase, excused>> /\ Target' = Target
    BY <1>2, ControllerTodo DEF Target
  <2>2. StopsOn(r)
    BY <1>1, <2>1
  <2>3. Held(r)' => Held(r)
    BY <1>2, ControllerTodo DEF Held
  <2>4. ASSUME 1 \in DOMAIN commands, commands[1].op = "stop", commands[1].ring = r
        PROVE  phase = "stop" /\ r = Target
    <3>1. commands[1].trb # Gone
      BY <2>1, <2>4 DEF NothingLeft
    <3>2. CommandOf = "stop" /\ r = Target
      BY <2>4, <3>1 DEF Commanded
    <3>3. CASE phase = "stop"
      BY <3>2, <3>3
    <3>4. CASE phase = "reset"
      BY <3>2, <3>4 DEF CommandOf
    <3>5. CASE phase \notin {"stop", "reset"}
      BY <3>2, <3>5 DEF CommandOf
    <3> QED  BY <3>3, <3>4, <3>5
  <2>5. endpoint'[r] = "stopping" => phase = "stop" /\ r = Target
    BY <1>2, <2>2, <2>4, RestController DEF StopsOn
  <2>6. ASSUME NEW p \in Pos, cell'[p].body.trb.own = r, cell'[p].body.code = "stopped"
        PROVE  phase = "stop" /\ r = Target
    <3>1. CASE cell'[p].body = cell[p].body
      BY <2>2, <2>6, <3>1 DEF StopsOn, Of, Code
    <3>2. CASE cell'[p].body # cell[p].body
      BY <1>2, <2>4, <2>6, <3>2, EventsSay
    <3> QED  BY <3>1, <3>2
  <2> QED  BY <2>1, <2>2, <2>3, <2>5, <2>6 DEF StopsOn, Of, Code
<1>3. CASE HandleEvent
  <2>1. PICK d \in Pos :
            /\ cell'[d].body = Blank /\ \A p \in Pos \ {d} : cell'[p].body = cell[p].body
            /\ UNCHANGED <<todo, endpoint, op, phase, excused>>
            /\ r # Of(d) => urb'[r] = urb[r]
            /\ Of(d) \notin {pending, Current, "async"} => urb' = urb
            /\ r = Of(d) /\ r \in {pending, Current, "async"} =>
                 /\ Code(d) \in {"success", "short"} => urb'[r].result = urb[r].result
                 /\ Code(d) \notin {"success", "short"} =>
                      urb'[r].result = urb[r].result \cup {Flag(Code(d))}
    BY <1>0, <1>3, HandleFacts
  <2>2. StopsOn(r) /\ Target' = Target /\ (Held(r)' <=> Held(r))
    BY <1>1, <2>1 DEF Target, Held
  <2>3. ASSUME NEW p \in Pos, cell'[p].body.trb.own = r, cell'[p].body.code = "stopped"
        PROVE  phase = "stop" /\ r = Target
    BY <1>0, <2>1, <2>2, <2>3, BlankIsNobodys DEF StopsOn, Of, Code
  <2>4. ASSUME "TIMEOUT" \in urb'[r].result
        PROVE  op \in {"xfer", "delete"} /\ r = Target /\ (phase \in {"stop", "dequeue"} \/ ~Held(r))
    <3>1. CASE "TIMEOUT" \in urb[r].result
      BY <2>2, <3>1 DEF StopsOn
    <3>2. CASE "TIMEOUT" \notin urb[r].result
      <4>1. Of(d) = r /\ Flag(Code(d)) = "TIMEOUT" /\ Code(d) \notin {"success", "short"}
        BY <2>1, <2>4, <3>2
      <4>2. Code(d) = "stopped"
        BY <4>1, EventFacts DEF Flag, Codes
      <4>3. phase = "stop" /\ r = Target
        BY <2>2, <4>1, <4>2 DEF StopsOn
      <4> QED  BY <4>3 DEF Replying
    <3> QED  BY <3>1, <3>2
  <2> QED  BY <2>1, <2>2, <2>3, <2>4 DEF StopsOn, Of, Code
<1>4. ASSUME NEW ok \in BOOLEAN, CommandDone(ok) PROVE StopsOn(r)'
  <2>1. /\ ok /\ ~excused /\ Obeyed /\ ~Told("cmd") /\ urb'[r] = urb[r] /\ todo'[r] = todo[r]
        /\ \A p \in Pos : cell'[p].body = cell[p].body \/ cell'[p].body = Blank
        /\ endpoint'[r] = endpoint[r] \/ endpoint'[r] = "running"
        /\ op' = op /\ Target' = Target /\ CommandEnds(ok)
    BY <1>4, DoneEffect DEF CommandDone
  <2>2. StopsOn(r) /\ (Held(r)' <=> Held(r))
    BY <1>1, <2>1 DEF Held
  <2>3. endpoint'[r] # "stopping"
    BY <2>1, <2>2 DEF StopsOn, Quieted
  <2>4. ASSUME NEW p \in Pos, cell'[p].body.trb.own = r, cell'[p].body.code = "stopped"
        PROVE  FALSE
    <3>1. Of(p) = r /\ Code(p) = "stopped"
      BY <1>0, <2>1, <2>4, BlankIsNobodys DEF Of, Code
    <3>2. phase = "stop" /\ r = Target
      BY <2>2, <3>1 DEF StopsOn
    <3> QED  BY <2>1, <3>1, <3>2 DEF Quieted, Told
  <2>5. ASSUME "TIMEOUT" \in urb[r].result
        PROVE  op \in {"xfer", "delete"} /\ r = Target /\ (phase' \in {"stop", "dequeue"} \/ ~Held(r))
    <3>1. op \in {"xfer", "delete"} /\ r = Target /\ (phase \in {"stop", "dequeue"} \/ ~Held(r))
      BY <2>2, <2>5 DEF StopsOn
    <3>2. CASE phase = "stop"
      <4>1. ~FinishedAnyway
        BY <2>5, <3>1 DEF FinishedAnyway, NoError
      <4>2. phase' = "dequeue"
        BY <2>1, <3>2, <4>1, CommandEndsFacts
      <4> QED  BY <3>1, <4>2
    <3>3. CASE phase = "dequeue"
      BY <2>1, <3>1, <3>3 DEF Quieted
    <3> QED  BY <3>1, <3>2, <3>3
  <2> QED  BY <2>1, <2>2, <2>3, <2>4, <2>5 DEF StopsOn, Of, Code
<1>5. CASE Return
  <2>1. /\ ~excused /\ phase = "none" /\ UNCHANGED endpoint
        /\ \A p \in Pos : cell'[p].body = cell[p].body \/ cell'[p].body = Blank
        /\ r = Target => urb'[r].result = NoError
        /\ r # Target => urb'[r] = urb[r]
    BY <1>0, <1>5, ReturnEffect, NoUrb
  <2>2. StopsOn(r)
    BY <1>1, <2>1
  <2>3. endpoint'[r] # "stopping" /\ "TIMEOUT" \notin urb'[r].result
    BY <2>1, <2>2 DEF StopsOn, NoError
  <2>4. ASSUME NEW p \in Pos, cell'[p].body.trb.own = r, cell'[p].body.code = "stopped"
        PROVE  FALSE
    BY <1>0, <2>1, <2>2, <2>4, BlankIsNobodys DEF StopsOn, Of, Code
  <2> QED  BY <2>3, <2>4 DEF StopsOn, Of, Code
<1>6. ASSUME NEW o \in Rings, NEW kind \in Kinds \ {"command"}, Starts(o, kind) PROVE StopsOn(r)'
  <2>1. /\ UNCHANGED <<cell, excused>> /\ op \in {"none", "tick"} /\ phase \in {"none", "exec"}
        /\ urb'[r].result = NoError \/ urb'[r] = urb[r]
        /\ endpoint'[r] = "running" \/ endpoint'[r] = endpoint[r]
    BY <1>0, <1>6, StartEffect
  <2>2. StopsOn(r)
    BY <1>1, <2>1
  <2>3. endpoint'[r] # "stopping" /\ "TIMEOUT" \notin urb'[r].result
    BY <2>1, <2>2 DEF StopsOn, NoError
  <2>4. ASSUME NEW p \in Pos, Of(p) = r, Code(p) = "stopped" PROVE FALSE
    BY <2>1, <2>2, <2>4 DEF StopsOn
  <2> QED  BY <2>1, <2>3, <2>4 DEF StopsOn, Of, Code
<1>7. CASE IssueCommand /\ alive
  <2>1. UNCHANGED <<cell, todo, endpoint, op, phase, excused>> /\ urb'[r] = urb[r]
    BY <1>7, IssueEffect
  <2> QED  BY <1>1, <2>1 DEF StopsOn, Of, Code, Held, Target
<1>8. CASE CommandLost
  BY <1>8, CommandEndsFacts DEF CommandLost
<1>9. CASE Quiet
  <2>1. /\ UNCHANGED <<cell, todo, endpoint, excused>>
        /\ \/ urb'[r].result = urb[r].result \/ urb'[r].result = urb[r].result \cup {"SYSTEM"}
           \/ urb'[r].result = NoError
        /\ TransferTimesOut /\ r = "sync" => urb'[r].result = NoError
    <3>1. TransferTimesOut => urb'["sync"].result = NoError
      BY RingNames DEF TransferTimesOut, StopEndpoint, TypeOK, UrbRecord
    <3> QED  BY <1>0, <1>9, <3>1, QuietEffect
  <2>2. StopsOn(r) /\ ("TIMEOUT" \in urb'[r].result => "TIMEOUT" \in urb[r].result)
    BY <1>1, <2>1 DEF NoError
  <2>3. CASE UNCHANGED <<op, phase>>
    BY <2>1, <2>2, <2>3 DEF StopsOn, Of, Code, Held, Target
  <2>4. CASE ~UNCHANGED <<op, phase>>
    <3>1. phase \in {"none", "exec"}
      BY <1>9, <2>4, QuietPhases
    <3>2. endpoint'[r] # "stopping"
      BY <2>1, <2>2, <3>1 DEF StopsOn
    <3>3. ASSUME NEW p \in Pos, Of(p) = r, Code(p) = "stopped" PROVE FALSE
      BY <2>2, <3>1, <3>3 DEF StopsOn
    <3>4. ASSUME "TIMEOUT" \in urb'[r].result
          PROVE  op' \in {"xfer", "delete"} /\ r = Target' /\ ~Held(r)
      <4>1. op \in {"xfer", "delete"} /\ r = Target /\ ~Held(r)
        BY <2>2, <3>1, <3>4 DEF StopsOn
      <4>2. op' = op
        BY <1>9, <2>1, <2>4, <3>4, <4>1, RingNames, QuietPhases DEF NoError
      <4> QED  BY <4>1, <4>2 DEF Target
    <3> QED  BY <2>1, <3>2, <3>3, <3>4 DEF StopsOn, Of, Code, Held
  <2> QED  BY <2>3, <2>4
<1> QED  BY <1>2, <1>3, <1>4, <1>5, <1>6, <1>7, <1>8, <1>9, DriverCases, Zenon

-----------------------------------------------------------------------------
\* While no command has failed, a stalled ring stays halted until it is reset.

StallsOn(r) ==
  /\ "STALL" \in urb[r].result => Halts(r)
  /\ \A p \in Pos : Of(p) = r /\ Code(p) = "stall" => Halts(r)
  /\ urb[r].finished /\ urb[r].result = NoError => Halts(r)

LEMMA HaltsSame ==
  ASSUME NEW r \in Rings, todo'[r] = todo[r], endpoint[r] = "halted" => endpoint'[r] = "halted",
         phase' = phase \/ phase \notin {"reset", "redequeue"}
  PROVE  Halts(r) => Halts(r)'
BY DEF Halts, Held

LEMMA StallsSame ==
  ASSUME NEW r \in Rings, StallsOn(r), Halts(r) => Halts(r)',
         \A p \in Pos : \/ cell'[p].body = cell[p].body \/ cell'[p].body.trb.own # r
                        \/ cell'[p].body.code # "stall",
         "STALL" \in urb'[r].result => "STALL" \in urb[r].result,
         urb'[r].finished /\ urb'[r].result = NoError =>
            (urb[r].finished /\ urb[r].result = NoError) \/ Halts(r)
  PROVE  StallsOn(r)'
<1>1. ASSUME NEW p \in Pos, cell'[p].body.trb.own = r, cell'[p].body.code = "stall" PROVE Halts(r)
  BY <1>1 DEF StallsOn, Of, Code
<1>2. \A p \in Pos : cell'[p].body.trb.own = r /\ cell'[p].body.code = "stall" => Halts(r)'
  BY <1>1
<1>3. /\ "STALL" \in urb'[r].result => Halts(r)'
      /\ urb'[r].finished /\ urb'[r].result = NoError => Halts(r)'
  BY DEF StallsOn
<1> QED  BY <1>2, <1>3 DEF StallsOn, Of, Code

\* What a URB may have come to before its endpoint was stopped.
LEMMA Verdicts ==
  ASSUME TypeOK, Results, StopsHeard, StallsKept, Failing, ~excused, NEW r \in Rings,
         urb[r].finished
  PROVE  /\ "SYSTEM" \notin urb[r].result /\ "TRANSACTION" \notin urb[r].result
         /\ phase \in {"none", "exec"} /\ "TIMEOUT" \in urb[r].result => ~Held(r)
         /\ urb[r].result \subseteq Flags
         /\ phase \in {"none", "exec"} /\ op \in {"none", "tick"} => "TIMEOUT" \notin urb[r].result
<1>1. r \in Owners
  BY RingNames
<1>2. urb[r].result \subseteq Flags
  BY <1>1, UrbFacts
<1>3. "SYSTEM" \notin urb[r].result /\ "TRANSACTION" \notin urb[r].result
  BY <1>1 DEF Results
<1>4. "TIMEOUT" \in urb[r].result => 
        op \in {"xfer", "delete"} /\ (phase \in {"stop", "dequeue"} \/ ~Held(r))
  BY DEF StopsHeard
<1> QED  BY <1>2, <1>3, <1>4

LEMMA StallsKeptNext ==
  ASSUME TypeOK, RingInv, Calling, Replying, Blanked, Results, Posted, Queued, Commanded, Ended,
         Quieted, NothingLeft, StopsHeard, Failing, StallsKept, [Next]_vars, Ended'
  PROVE  StallsKept'
<1> SUFFICES ASSUME ~excused', NEW r \in Rings PROVE StallsOn(r)'
  BY DEF StallsKept, StallsOn
<1>0. r \in Owners /\ r # "gone" /\ r # "cmd"
  BY DEF Rings, Owners
<1>1. ~excused => StallsOn(r)
  BY DEF StallsKept, StallsOn
<1>2. CASE Controller
  <2>1. UNCHANGED <<urb, op, phase, excused>> /\ Target' = Target
    BY <1>2, ControllerTodo DEF Target
  <2>2. StallsOn(r)
    BY <1>1, <2>1
  <2>3. Held(r)' => Held(r)
    BY <1>2, ControllerTodo DEF Held
  <2>4. ASSUME HcCommand, commands[1].op = "reset", commands[1].ring = r
        PROVE  phase = "reset" /\ r = "sync"
    <3>1. 1 \in DOMAIN commands
      BY <2>4 DEF HcCommand, TypeOK
    <3>2. commands[1].trb # Gone
      BY <2>1, <3>1 DEF NothingLeft
    <3>3. CommandOf = "reset" /\ r = Target
      BY <2>4, <3>1, <3>2 DEF Commanded
    <3>4. CASE phase = "stop"
      BY <3>3, <3>4 DEF CommandOf
    <3>5. CASE phase = "reset"
      BY <3>3, <3>5, RingNames DEF Replying
    <3>6. CASE phase \notin {"stop", "reset"}
      BY <3>3, <3>6 DEF CommandOf
    <3> QED  BY <3>4, <3>5, <3>6
  <2>5. Halts(r) => Halts(r)'
    BY <1>2, <2>1, <2>3, <2>4, RestController DEF Halts
  <2>6. ASSUME NEW p \in Pos, cell'[p].body.trb.own = r, cell'[p].body.code = "stall"
        PROVE  Halts(r)'
    <3>1. CASE cell'[p].body = cell[p].body
      BY <2>2, <2>5, <2>6, <3>1 DEF StallsOn, Of, Code
    <3>2. CASE cell'[p].body # cell[p].body
      <4>1. endpoint'[r] = "halted"
        BY <1>2, <2>6, <3>2, EventsSay
      <4> QED  BY <4>1 DEF Halts
    <3> QED  BY <3>1, <3>2
  <2> QED  BY <2>1, <2>2, <2>5, <2>6 DEF StallsOn, Of, Code
<1>3. CASE HandleEvent
  <2>1. PICK d \in Pos :
            /\ cell'[d].body = Blank /\ \A p \in Pos \ {d} : cell'[p].body = cell[p].body
            /\ UNCHANGED <<todo, endpoint, op, phase, excused>>
            /\ r # Of(d) => urb'[r] = urb[r]
            /\ Of(d) \notin {pending, Current, "async"} => urb' = urb
            /\ r = Of(d) /\ r \in {pending, Current, "async"} =>
                 /\ Code(d) \in {"success", "short"} =>
                      /\ urb'[r].result = urb[r].result
                      /\ urb'[r].finished => urb[r].finished \/ urb'[r].end
                 /\ Code(d) \notin {"success", "short"} =>
                      urb'[r].result = urb[r].result \cup {Flag(Code(d))}
    BY <1>0, <1>3, HandleFacts
  <2>2. StallsOn(r) /\ (Halts(r)' <=> Halts(r)) /\ (Held(r)' <=> Held(r))
    BY <1>1, <2>1 DEF Halts, Held
  <2>3. \A p \in Pos : cell'[p].body = cell[p].body \/ cell'[p].body.trb.own # r
    BY <1>0, <2>1, BlankIsNobodys
  <2>4. urb'[r].finished /\ urb'[r].result = NoError =>
            (urb[r].finished /\ urb[r].result = NoError) \/ Halts(r)
    <3>1. urb'[r].end => ~Held(r)
      BY <2>2 DEF Ended
    <3> QED  BY <2>1, <3>1 DEF NoError, Halts
  <2>5. ASSUME "STALL" \in urb'[r].result PROVE "STALL" \in urb[r].result \/ Halts(r)
    <3>1. CASE "STALL" \notin urb[r].result
      <4>1. Of(d) = r /\ Flag(Code(d)) = "STALL" /\ Code(d) \notin {"success", "short"}
        BY <2>1, <2>5, <3>1
      <4>2. Code(d) = "stall"
        BY <4>1, EventFacts DEF Flag, Codes
      <4> QED  BY <2>2, <4>1, <4>2 DEF StallsOn
    <3> QED  BY <3>1
  <2>6. "STALL" \in urb'[r].result => Halts(r)
    BY <2>2, <2>5 DEF StallsOn
  <2>7. urb'[r].finished /\ urb'[r].result = NoError => Halts(r)
    BY <2>2, <2>4 DEF StallsOn
  <2>8. \A p \in Pos : cell'[p].body.trb.own = r /\ cell'[p].body.code = "stall" => Halts(r)
    BY <2>2, <2>3 DEF StallsOn, Of, Code
  <2> QED  BY <2>2, <2>6, <2>7, <2>8 DEF StallsOn, Of, Code
<1>4. ASSUME NEW ok \in BOOLEAN, CommandDone(ok) PROVE StallsOn(r)'
  <2>1. /\ ok /\ ~excused /\ Obeyed /\ urb'[r] = urb[r] /\ todo'[r] = todo[r]
        /\ \A p \in Pos : cell'[p].body = cell[p].body \/ cell'[p].body = Blank
        /\ endpoint[r] = "halted" => endpoint'[r] = "halted"
        /\ CommandEnds(ok)
    BY <1>4, DoneEffect DEF CommandDone
  <2>2. StallsOn(r)
    BY <1>1, <2>1
  <2>3. \A p \in Pos : cell'[p].body = cell[p].body \/ cell'[p].body.trb.own # r
    BY <1>0, <2>1, BlankIsNobodys
  <2>4. Halts(r) => Halts(r)'
    <3>1. CASE phase = "reset" /\ r = "sync"
      <4>1. phase' = "redequeue"
        BY <2>1, <3>1, CommandEndsFacts
      <4> QED  BY <3>1, <4>1 DEF Halts
    <3>2. CASE phase = "redequeue" /\ r = "sync"
      <4>1. ~Held(r)
        BY <2>1, <3>2, RingNames DEF Quieted, Replying
      <4> QED  BY <2>1, <4>1 DEF Halts, Held
    <3>3. CASE ~(phase \in {"reset", "redequeue"} /\ r = "sync")
      BY <2>1, <3>3 DEF Halts, Held
    <3> QED  BY <3>1, <3>2, <3>3
  <2> QED  BY <2>1, <2>2, <2>3, <2>4, StallsSame
<1>5. CASE Return
  <2>1. /\ ~excused /\ phase = "none" /\ UNCHANGED endpoint
        /\ \A p \in Pos : cell'[p].body = cell[p].body \/ cell'[p].body = Blank
        /\ r = Target => /\ urb'[r].result = NoError /\ ~urb'[r].finished
                         /\ \A p \in Pos : cell'[p].body.trb.own # r
        /\ r # Target => urb'[r] = urb[r] /\ todo'[r] = todo[r]
    BY <1>0, <1>5, ReturnEffect, NoUrb
  <2>2. CASE r = Target
    BY <2>1, <2>2 DEF StallsOn, Of, NoError
  <2>3. CASE r # Target
    <3>1. Halts(r) => Halts(r)'
      BY <2>1, <2>3, HaltsSame
    <3>2. \A p \in Pos : cell'[p].body = cell[p].body \/ cell'[p].body.trb.own # r
      BY <1>0, <2>1, BlankIsNobodys
    <3> QED  BY <1>1, <2>1, <2>3, <3>1, <3>2, StallsSame
  <2> QED  BY <2>2, <2>3
<1>6. ASSUME NEW o \in Rings, NEW kind \in Kinds \ {"command"}, Starts(o, kind) PROVE StallsOn(r)'
  <2>1. UNCHANGED <<cell, excused>> /\ phase \in {"none", "exec"}
    BY <1>6, StartEffect
  <2>2. CASE r = o
    <3>1. urb'[r].result = NoError /\ ~urb'[r].finished /\ ~Told(r)
      BY <1>6, <2>2, StartEffect
    <3> QED  BY <2>1, <3>1 DEF StallsOn, Of, NoError, Told
  <2>3. CASE r # o
    <3>1. urb'[r] = urb[r] /\ todo'[r] = todo[r] /\ endpoint'[r] = endpoint[r]
      BY <1>0, <1>6, <2>3, StartEffect
    <3>2. Halts(r) => Halts(r)'
      BY <2>1, <3>1, HaltsSame
    <3> QED  BY <1>1, <2>1, <3>1, <3>2, StallsSame
  <2> QED  BY <2>2, <2>3
<1>7. CASE IssueCommand /\ alive
  <2>1. UNCHANGED <<cell, todo, endpoint, op, phase, excused>> /\ urb'[r] = urb[r]
    BY <1>7, IssueEffect
  <2>2. Halts(r) => Halts(r)'
    BY <2>1, HaltsSame
  <2> QED  BY <1>1, <2>1, <2>2, StallsSame
<1>8. CASE CommandLost
  BY <1>8, CommandEndsFacts DEF CommandLost
<1>9. CASE Quiet
  <2>1. /\ UNCHANGED <<cell, todo, endpoint, excused>>
        /\ urb'[r].finished = urb[r].finished
        /\ \/ urb'[r].result = urb[r].result \/ urb'[r].result = urb[r].result \cup {"SYSTEM"}
           \/ urb'[r].result = NoError /\ r = "sync" /\ TransferTimesOut
           \/ urb'[r].result = NoError /\ r = "async" /\ DeleteAsync
    BY <1>0, <1>9, QuietEffect
  <2>2. StallsOn(r) /\ ~excused
    BY <1>1, <2>1
  <2>3. phase' = phase \/ phase \notin {"reset", "redequeue"}
    BY <1>9, QuietPhases
  <2>4. Halts(r) => Halts(r)'
    BY <2>1, <2>3, HaltsSame
  <2>5. "STALL" \in urb'[r].result => "STALL" \in urb[r].result
    BY <2>1 DEF NoError
  <2>6. ASSUME urb[r].finished, urb'[r].result = NoError, urb[r].result # NoError PROVE Halts(r)
    <3>1. (r = "sync" /\ TransferTimesOut) \/ (r = "async" /\ DeleteAsync)
      BY <2>1, <2>6 DEF NoError
    <3>2. r = "async" /\ DeleteAsync
      BY <2>6, <3>1 DEF TransferTimesOut, Done, Current, Target
    <3>3. op = "none" /\ phase = "none"
      BY <3>2 DEF DeleteAsync, Idle, Calling
    <3>4. urb[r].result \subseteq {"STALL", "BUFFER"}
      BY <2>2, <2>6, <3>3, Verdicts DEF Flags
    <3>5. "STALL" \in urb[r].result \/ "BUFFER" \in urb[r].result
      BY <2>6, <3>4 DEF NoError
    <3>6. "BUFFER" \in urb[r].result => ~Held(r)
      BY <3>2 DEF Failing
    <3> QED  BY <2>2, <3>5, <3>6 DEF StallsOn, Halts
  <2> QED  BY <2>1, <2>2, <2>4, <2>5, <2>6, StallsSame
<1> QED  BY <1>2, <1>3, <1>4, <1>5, <1>6, <1>7, <1>8, <1>9, DriverCases, Zenon

-----------------------------------------------------------------------------
\* What an error leaves on the ring.

LEMMA AsyncFails ==
  ASSUME TypeOK, RingInv, Calling, Replying, Blanked, Results, Posted, Queued, Ended, InTurn,
         Failing, [Next]_vars, "BUFFER" \in urb'["async"].result
  PROVE  ~Held("async")'
<1>0. "async" \in Rings /\ "async" \in Owners
  BY RingNames
<1>1. ASSUME "BUFFER" \in urb["async"].result, todo'["async"] = todo["async"]
      PROVE  ~Held("async")'
  BY <1>1 DEF Failing, Held
<1>2. CASE Controller
  BY <1>0, <1>2, ControllerTodo DEF Failing, Held
<1>3. CASE HandleEvent
  <2>1. PICK d \in Pos :
            /\ UNCHANGED todo
            /\ "async" # Of(d) => urb'["async"] = urb["async"]
            /\ Of(d) \notin {pending, Current, "async"} => urb' = urb
            /\ "async" = Of(d) =>
                 /\ Code(d) \in {"success", "short"} => urb'["async"].result = urb["async"].result
                 /\ Code(d) \notin {"success", "short"} =>
                      urb'["async"].result = urb["async"].result \cup {Flag(Code(d))}
    BY <1>0, <1>3, HandleFacts
  <2>2. CASE "BUFFER" \notin urb["async"].result
    <3>1. Of(d) = "async" /\ Flag(Code(d)) = "BUFFER"
      BY <2>1, <2>2
    <3>2. Code(d) = "buffer"
      BY <3>1, EventFacts DEF Flag, Codes
    <3>3. Live("async") /\ Part(d) \in 1 .. Size("async") /\ Size("async") = 1
      BY <1>0, <3>1 DEF Posted, Calling, Size, Shape
    <3>4. ASSUME NEW i \in DOMAIN todo["async"], todo["async"][i] # Gone PROVE FALSE
      <4>1. PICK n : n = Size("async") - Len(todo["async"]) + i
        OBVIOUS
      <4>2. todo["async"][i] = [own |-> "async", part |-> n]
        BY <1>0, <3>4, <4>1 DEF Queued
      <4>3. n <= 1
        BY <1>0, <3>3, <4>1 DEF TypeOK
      <4>4. Part(d) < n
        BY <1>0, <3>1, <3>2, <3>4, <4>2 DEF InTurn, Retires
      <4>5. i \in Nat /\ Len(todo["async"]) \in Nat
        BY <1>0, <3>4 DEF TypeOK
      <4> QED  BY <3>3, <4>1, <4>3, <4>4, <4>5
    <3> QED  BY <2>1, <3>4 DEF Held
  <2> QED  BY <1>1, <2>1, <2>2
<1>4. ASSUME NEW ok \in BOOLEAN, CommandDone(ok) PROVE ~Held("async")'
  BY <1>0, <1>1, <1>4, DoneEffect
<1>5. CASE Return
  BY <1>0, <1>1, <1>5, RingNames, ReturnEffect, NoUrb DEF NoError
<1>6. ASSUME NEW o \in Rings, NEW kind \in Kinds \ {"command"}, Starts(o, kind)
      PROVE  ~Held("async")'
  BY <1>0, <1>1, <1>6, StartEffect DEF NoError
<1>7. CASE IssueCommand /\ alive
  BY <1>0, <1>1, <1>7, IssueEffect
<1>8. CASE CommandLost
  BY <1>1, <1>8 DEF CommandLost
<1>9. CASE Quiet
  BY <1>0, <1>1, <1>9, QuietEffect DEF NoError
<1> QED  BY <1>2, <1>3, <1>4, <1>5, <1>6, <1>7, <1>8, <1>9, DriverCases, Zenon

Recovering == at = "tail" /\ urb["sync"].result = {"STALL"} /\ status = "DEVICE_ERROR"

LEMMA FailingNext ==
  ASSUME TypeOK, RingInv, Calling, Replying, Blanked, Results, Posted, Queued, Ended, InTurn,
         Quieted, StopsHeard, StallsKept, Failing, [Next]_vars
  PROVE  Failing'
<1> SUFFICES ASSUME at' \in {"tail", "return"}, ~excused', "BUFFER" \notin urb'[Target'].result
             PROVE  ~Held(Target)' \/ Recovering'
  BY AsyncFails DEF Failing, Recovering
<1>0. PICK r \in Rings : r = Target
  BY RingNames
<1>1. ASSUME at \in {"tail", "return"}, ~excused, "BUFFER" \notin urb[r].result
      PROVE  ~Held(r) \/ Recovering
  BY <1>0, <1>1 DEF Failing, Recovering
<1>2. CASE Controller
  <2>1. UNCHANGED <<urb, at, status, excused>> /\ Target' = r /\ (Held(r)' => Held(r))
    BY <1>0, <1>2, ControllerTodo DEF Target, Held
  <2> QED  BY <1>1, <2>1 DEF Recovering, Held
<1>3. CASE HandleEvent
  BY <1>3, HandleFacts
<1>4. ASSUME NEW ok \in BOOLEAN, CommandDone(ok) PROVE ~Held(r)' /\ Target' = r
  <2>1. /\ ok /\ Obeyed /\ todo'[r] = todo[r] /\ Target' = r /\ CommandEnds(ok) /\ ~excused
        /\ phase \in CommandPhases
    BY <1>0, <1>4, DoneEffect DEF CommandDone
  <2>2. phase' = "none"
    BY <2>1, CommandEndsFacts
  <2>3. CASE phase \in {"dequeue", "redequeue"}
    BY <1>0, <2>1, <2>3 DEF Quieted, Held
  <2>4. CASE phase = "stop"
    <3>1. urb[r].finished /\ urb[r].result = NoError
      BY <1>0, <2>1, <2>2, <2>4, CommandEndsFacts DEF FinishedAnyway
    <3>2. endpoint[r] = "stopped"
      BY <1>0, <2>1 DEF Quieted
    <3> QED  BY <2>1, <2>4, <3>1, <3>2 DEF StallsKept, Halts, Held
  <2>5. phase # "reset"
    BY <2>1, <2>2, CommandEndsFacts
  <2> QED  BY <2>1, <2>3, <2>4, <2>5 DEF CommandPhases
<1>5. CASE Return
  BY <1>5, ReturnEffect
<1>6. ASSUME NEW o \in Rings, NEW kind \in Kinds \ {"command"}, Starts(o, kind) PROVE FALSE
  BY <1>6 DEF Starts, Rings
<1>7. CASE IssueCommand /\ alive
  BY <1>7, IssueEffect
<1>8. CASE CommandLost
  BY <1>8, CommandEndsFacts DEF CommandLost
<1>9. CASE Quiet
  <2>1. UNCHANGED <<todo, excused>>
    BY <1>9, QuietEffect
  <2>2. CASE at' = at
    <3>1. UNCHANGED <<urb, op, status>>
      BY <1>9, <2>2 DEF Quiet, vars, CheckBegin, CheckEnd, PollAgain, TransferTimesOut,
         TransferFinishes, RecoverOrReturn, DeleteAsync, StopEndpoint, Tick, TickEnds, Idle, Polled
    <3>2. Target' = r
      BY <1>0, <3>1 DEF Target
    <3> QED  BY <1>1, <2>1, <2>2, <3>1, <3>2 DEF Recovering, Held
  <2>3. CASE TransferFinishes
    <3>1. /\ op = "xfer" /\ op' = op /\ phase = "exec" /\ urb["sync"].finished /\ urb' = urb
          /\ status' = IF urb["sync"].result = NoError THEN "SUCCESS" ELSE "DEVICE_ERROR"
          /\ at' = "tail"
      BY <2>3 DEF TransferFinishes, Done, Current, Target
    <3>2. r = "sync" /\ Target' = r /\ r \in Rings /\ "BUFFER" \notin urb[r].result
      BY <1>0, <3>1, RingNames DEF Target
    <3>3. CASE urb[r].result = NoError
      BY <2>1, <3>1, <3>2, <3>3 DEF Results, Ended, Held
    <3>4. CASE urb[r].result # NoError
      <4>1. ~Held(r) \/ urb[r].result \subseteq {"STALL"}
        BY <2>1, <3>1, <3>2, Verdicts DEF Flags
      <4> QED  BY <2>1, <3>1, <3>2, <3>4, <4>1 DEF Recovering, Held, NoError
    <3> QED  BY <3>3, <3>4
  <2>4. CASE RecoverOrReturn
    <3>1. /\ at = "tail" /\ UNCHANGED <<urb, op>>
          /\ at' = "return" => ~Recovering
      BY <2>4 DEF RecoverOrReturn, Recovering, Recoverable
    <3>2. Target' = r /\ at' = "return"
      BY <1>0, <2>4, <3>1 DEF Target, RecoverOrReturn
    <3> QED  BY <1>1, <2>1, <3>1, <3>2 DEF Held
  <2> QED  BY <1>9, <2>2, <2>3, <2>4, QuietPhases
<1> QED  BY <1>0, <1>2, <1>3, <1>4, <1>5, <1>6, <1>7, <1>8, <1>9, DriverCases, Zenon

-----------------------------------------------------------------------------
\* How far the synchronous transfer has been carried out.

Counting ==
  /\ op = "xfer" /\ (phase \in {"exec", "stop"} \/ status = "SUCCESS")
  /\ "BUFFER" \notin urb["sync"].result
  /\ \A p \in Pos : Of(p) = "sync" => Code(p) # "buffer"

CountOf(r) ==
  /\ ~Held(r) => retired = Size(r)
  /\ \A i \in DOMAIN todo[r] :
       todo[r][i] # Gone /\ (i = 1 \/ todo[r][i - 1] = Gone) => retired = todo[r][i].part - 1

LEMMA CountedParts == Counted <=> (Counting => CountOf("sync"))
BY DEF Counted, Counting, CountOf

LEMMA RingLength ==
  ASSUME TypeOK, NEW r \in Rings
  PROVE  Len(todo[r]) \in Nat /\ DOMAIN todo[r] = 1 .. Len(todo[r])
BY DEF TypeOK

LEMMA CountSame ==
  ASSUME NEW r \in Rings, CountOf(r), todo'[r] = todo[r], retired' = retired,
         urb'[r].kind = urb[r].kind
  PROVE  CountOf(r)'
BY DEF CountOf, Held, Size

\* Dropping what is gone changes nothing.
LEMMA CountShift ==
  ASSUME TypeOK, NEW r \in Rings, CountOf(r), retired' = retired, urb'[r].kind = urb[r].kind,
         NEW k \in 0 .. Len(todo[r]), \A i \in 1 .. k : todo[r][i] = Gone,
         DOMAIN todo'[r] = 1 .. Len(todo[r]) - k,
         \A i \in DOMAIN todo'[r] : i + k \in DOMAIN todo[r] /\ todo'[r][i] = todo[r][i + k]
  PROVE  CountOf(r)'
<1>1. Len(todo[r]) \in Nat /\ DOMAIN todo[r] = 1 .. Len(todo[r]) /\ k \in Nat
  BY RingLength
<1>2. Size(r)' = Size(r)
  BY DEF Size
<1>3. Held(r) => Held(r)'
  <2>1. ASSUME NEW j \in DOMAIN todo[r], todo[r][j] # Gone
        PROVE  \E i \in DOMAIN todo'[r] : todo'[r][i] # Gone
    <3>1. j > k /\ j \in Nat
      BY <1>1, <2>1
    <3>2. PICK i \in Nat : i = j - k
      BY <1>1, <3>1
    <3>3. i \in DOMAIN todo'[r] /\ i + k = j
      BY <1>1, <3>1, <3>2
    <3> QED  BY <2>1, <3>3
  <2> QED  BY <2>1 DEF Held
<1>4. ASSUME NEW i \in DOMAIN todo'[r], todo'[r][i] # Gone, i = 1 \/ todo'[r][i - 1] = Gone
      PROVE  retired = todo'[r][i].part - 1
  <2>1. PICK j \in DOMAIN todo[r] : j = i + k /\ todo'[r][i] = todo[r][j]
    OBVIOUS
  <2>2. j = 1 \/ todo[r][j - 1] = Gone
    <3>1. CASE i = 1
      BY <1>1, <2>1, <3>1
    <3>2. CASE i # 1
      <4>1. i - 1 \in DOMAIN todo'[r] /\ j - 1 = (i - 1) + k
        BY <1>1, <2>1, <3>2
      <4> QED  BY <1>4, <3>2, <4>1
    <3> QED  BY <3>1, <3>2
  <2> QED  BY <1>4, <2>1, <2>2 DEF CountOf
<1> QED  BY <1>2, <1>3, <1>4 DEF CountOf

\* The TRB at the head is retired and counted.
LEMMA CountMore ==
  ASSUME TypeOK, Queued, NEW r \in Rings, CountOf(r), retired' = retired + 1,
         urb'[r].kind = urb[r].kind, todo[r] # <<>>, todo[r][1] # Gone,
         Len(todo'[r]) = Len(todo[r]) - 1,
         DOMAIN todo'[r] = 1 .. Len(todo[r]) - 1,
         \A i \in DOMAIN todo'[r] : i + 1 \in DOMAIN todo[r] /\ todo'[r][i] = todo[r][i + 1]
  PROVE  CountOf(r)'
<1>1. Len(todo[r]) \in Nat \ {0} /\ DOMAIN todo[r] = 1 .. Len(todo[r]) /\ 1 \in DOMAIN todo[r]
  BY DEF TypeOK
<1>2. Size(r)' = Size(r) /\ Live(r) /\ Size(r) \in Nat /\ retired \in Nat
  <2>1. Live(r)
    BY <1>1 DEF Queued
  <2> QED  BY <2>1, UrbFacts, RingNames DEF Size, MaxTrbs, TypeOK
<1>3. ASSUME NEW i \in DOMAIN todo[r]
      PROVE  todo[r][i] # Gone /\ todo[r][i].part = Size(r) - Len(todo[r]) + i
  <2>1. todo[r][i] # Gone
    BY <1>1 DEF Queued
  <2>2. PICK n : n = Size(r) - Len(todo[r]) + i
    OBVIOUS
  <2>3. todo[r][i] = [own |-> r, part |-> n]
    BY <2>1, <2>2 DEF Queued
  <2> QED  BY <2>1, <2>2, <2>3
<1>4. retired = Size(r) - Len(todo[r])
  <2>1. retired = todo[r][1].part - 1
    BY <1>1 DEF CountOf
  <2>2. todo[r][1].part = Size(r) - Len(todo[r]) + 1
    BY <1>1, <1>3
  <2> QED  BY <1>1, <1>2, <2>1, <2>2
<1>5. ~Held(r)' => retired' = Size(r)
  <2>1. CASE Len(todo[r]) = 1
    BY <1>2, <1>4, <2>1
  <2>2. CASE Len(todo[r]) # 1
    <3>1. 1 \in DOMAIN todo'[r]
      <4>1. PICK n \in Nat \ {0} : n = Len(todo[r])
        BY <1>1
      <4>2. DOMAIN todo'[r] = 1 .. n - 1
        BY <4>1
      <4>3. \A k \in Nat \ {0, 1} : 1 \in 1 .. k - 1
        OBVIOUS
      <4> QED  BY <2>2, <4>1, <4>2, <4>3
    <3>2. PICK j \in DOMAIN todo[r] : todo'[r][1] = todo[r][j]
      BY <3>1
    <3> QED  BY <1>3, <3>1, <3>2 DEF Held
  <2> QED  BY <2>1, <2>2
<1>6. ASSUME NEW i \in DOMAIN todo'[r], i = 1 \/ todo'[r][i - 1] = Gone
      PROVE  retired' = todo'[r][i].part - 1
  <2>1. i = 1
    <3>1. ASSUME i # 1 PROVE i - 1 \in DOMAIN todo'[r]
      BY <1>1, <3>1
    <3> QED  BY <1>3, <1>6, <3>1
  <2>2. todo'[r][i].part = Size(r) - Len(todo[r]) + 2
    <3>1. PICK j \in DOMAIN todo[r] : j = i + 1 /\ todo'[r][i] = todo[r][j]
      OBVIOUS
    <3>2. todo[r][j].part = Size(r) - Len(todo[r]) + j
      BY <1>3
    <3> QED  BY <1>1, <1>2, <2>1, <3>1, <3>2
  <2> QED  BY <1>1, <1>2, <1>4, <2>2
<1> QED  BY <1>2, <1>5, <1>6 DEF CountOf

LEMMA RetireCases ==
  ASSUME Controller
  PROVE  \/ \E r \in Rings, code \in {"success", "short"} : HcComplete(r, code)
         \/ \E r \in Rings : HcFail(r, "buffer")
         \/ HcStopInFlight \/ \E q \in Rings : HcFail(q, "stall")
         \/ HcCommand
         \/ HcDies
<1>1. TransferErrors \subseteq {"stall", "buffer"}
  OBVIOUS
<1> QED  BY <1>1 DEF Controller

LEMMA RetireCounts ==
  ASSUME TypeOK, RingInv, Blanked, Queued, NEW r \in Rings, NEW code \in {"success", "short"},
         HcComplete(r, code)
  PROVE  \E h \in Pos, t \in Trb :
            /\ RetireStep(h, t, r, code)
            /\ retired' = IF t.own = "sync" THEN retired + 1 ELSE retired
            /\ moved' = IF IsData(t) /\ code = "success"
                        THEN [moved EXCEPT ![r] = @ + 1] ELSE moved
<1>1. code \in Retires
  BY DEF Retires
<1>2. PICK h \in Pos, t \in Trb : RetireStep(h, t, r, code)
  BY <1>1, RetireEffect
<1>3. t = Head(todo[r])
  BY <1>2 DEF RetireStep
<1>4. /\ retired' = IF t.own = "sync" THEN retired + 1 ELSE retired
      /\ moved' = IF IsData(t) /\ code = "success"
                  THEN [moved EXCEPT ![r] = @ + 1] ELSE moved
  BY <1>3 DEF HcComplete
<1> QED  BY <1>2, <1>4

LEMMA CountedController ==
  ASSUME TypeOK, RingInv, Calling, Replying, Blanked, Queued, Commanded, Counted, Controller
  PROVE  Counted'
<1> SUFFICES ASSUME Counting' PROVE CountOf("sync")'
  BY CountedParts DEF Counted, Counting, CountOf
<1>0. "sync" \in Rings /\ "sync" # "gone" /\ UNCHANGED <<urb, op, phase, status>>
  BY ControllerTodo, RingNames
<1>1. Counting
  <2>1. ASSUME NEW p \in Pos, Of(p) = "sync" PROVE Code(p) # "buffer"
    <3>1. cell'[p].body = cell[p].body
      BY <1>0, <2>1, ControllerKeeps
    <3> QED  BY <2>1, <3>1 DEF Counting, Of, Code
  <2> QED  BY <1>0, <2>1 DEF Counting
<1>2. CountOf("sync")
  BY <1>1, CountedParts
<1>3. ASSUME NEW r \in Rings, NEW code \in {"success", "short"}, HcComplete(r, code)
      PROVE  CountOf("sync")'
  <2>1. PICK h \in Pos, t \in Trb :
            /\ RetireStep(h, t, r, code)
            /\ retired' = IF t.own = "sync" THEN retired + 1 ELSE retired
    BY <1>3, RetireCounts
  <2>2. /\ todo[r] # <<>> /\ t = todo[r][1]
        /\ t # Gone => t.own = r
        /\ Len(todo'[r]) = Len(todo[r]) - 1 /\ DOMAIN todo'[r] = 1 .. Len(todo[r]) - 1
        /\ \A i \in DOMAIN todo'[r] : i + 1 \in DOMAIN todo[r] /\ todo'[r][i] = todo[r][i + 1]
        /\ \A q \in Rings \ {r} : todo'[q] = todo[q]
        /\ Len(todo[r]) \in Nat \ {0}
    BY <2>1 DEF RetireStep
  <2>3. CASE r # "sync"
    BY <1>0, <1>2, <2>1, <2>2, <2>3, CountSame, GoneIsNobody
  <2>4. CASE r = "sync" /\ t = Gone
    <3>1. retired' = retired /\ \A i \in 1 .. 1 : todo[r][i] = Gone
      BY <1>0, <2>1, <2>2, <2>4, GoneIsNobody
    <3>2. 1 \in 0 .. Len(todo[r])
      BY <2>2
    <3> QED  BY <1>0, <1>2, <2>2, <2>4, <3>1, <3>2, CountShift
  <2>5. CASE r = "sync" /\ t # Gone
    BY <1>0, <1>2, <2>1, <2>2, <2>5, CountMore
  <2> QED  BY <2>3, <2>4, <2>5
<1>4. ASSUME NEW r \in Rings, HcFail(r, "buffer") PROVE CountOf("sync")'
  <2>1. PICK h \in Pos, t \in Trb : RetireStep(h, t, r, "buffer")
    BY <1>4, RetireEffect DEF Retires
  <2>2. /\ todo[r] # <<>> /\ t = todo[r][1]
        /\ t # Gone => t.own = r
        /\ cell'[h].body = IF t = Gone THEN Blank ELSE [trb |-> t, code |-> "buffer"]
        /\ DOMAIN todo'[r] = 1 .. Len(todo[r]) - 1
        /\ \A i \in DOMAIN todo'[r] : i + 1 \in DOMAIN todo[r] /\ todo'[r][i] = todo[r][i + 1]
        /\ \A q \in Rings \ {r} : todo'[q] = todo[q]
        /\ Len(todo[r]) \in Nat \ {0}
    BY <2>1 DEF RetireStep
  <2>3. retired' = retired
    BY <1>4 DEF HcFail
  <2>4. CASE r # "sync"
    BY <1>0, <1>2, <2>2, <2>3, <2>4, CountSame
  <2>5. CASE r = "sync"
    <3>1. t = Gone
      BY <2>2, <2>5 DEF Counting, Of, Code
    <3>2. 1 \in 0 .. Len(todo[r]) /\ \A i \in 1 .. 1 : i = 1
      BY <2>2
    <3>3. \A i \in 1 .. 1 : todo[r][i] = Gone
      BY <2>2, <3>1, <3>2
    <3> QED  BY <1>0, <1>2, <2>2, <2>3, <2>5, <3>2, <3>3, CountShift
  <2> QED  BY <2>4, <2>5
<1>5. ASSUME UNCHANGED <<todo, retired>> PROVE CountOf("sync")'
  BY <1>0, <1>2, <1>5, CountSame
<1>6. CASE HcCommand
  <2>1. PICK h \in Pos, c \in Command : CommandStep(h, c)
    BY <1>6, CommandEffect
  <2>2. PICK k \in 0 .. Len(todo[c.ring]) :
       /\ k # 0 => Fits(c) /\ c.op = "dequeue"
       /\ Fits(c) /\ c.op = "dequeue" =>
            (c.trb = Gone => \A i \in 1 .. k : todo[c.ring][i] = Gone)
       /\ DOMAIN todo'[c.ring] = 1 .. Len(todo[c.ring]) - k
       /\ \A i \in DOMAIN todo'[c.ring] :
            i + k \in DOMAIN todo[c.ring] /\ todo'[c.ring][i] = todo[c.ring][i + k]
    BY <2>1 DEF CommandStep
  <2>3. /\ c = commands[1] /\ 1 \in DOMAIN commands /\ c.ring \in Rings
        /\ \A q \in Rings \ {c.ring} : todo'[q] = todo[q]
        /\ retired' = retired
    BY <2>1 DEF CommandStep
  <2>4. CASE c.ring # "sync"
    BY <1>0, <1>2, <2>3, <2>4, CountSame
  <2>5. CASE c.ring = "sync"
    <3>1. ASSUME c.trb # Gone, c.op = "dequeue" PROVE FALSE
      <4>1. Live("cmd") /\ CommandOf = "dequeue"
        BY <2>3, <3>1 DEF Commanded
      <4>2. phase \in {"dequeue", "redequeue"}
        BY <4>1 DEF Calling, CommandPhases, CommandOf
      <4> QED  BY <1>1, <4>2 DEF Counting, Replying
    <3>2. \A i \in 1 .. k : todo["sync"][i] = Gone
      BY <1>0, <2>2, <2>5, <3>1, RingLength
    <3>3. /\ k \in 0 .. Len(todo["sync"]) /\ DOMAIN todo'["sync"] = 1 .. Len(todo["sync"]) - k
          /\ \A i \in DOMAIN todo'["sync"] : /\ i + k \in DOMAIN todo["sync"]
                                            /\ todo'["sync"][i] = todo["sync"][i + k]
      BY <2>2, <2>5
    <3>4. retired' = retired /\ urb'["sync"].kind = urb["sync"].kind
      BY <1>0, <2>3
    <3> HIDE <2>2
    <3> QED  BY <1>0, <1>2, <3>2, <3>3, <3>4, CountShift
  <2> QED  BY <2>4, <2>5
<1>7. CASE HcStopInFlight \/ \E q \in Rings : HcFail(q, "stall")
  BY <1>5, <1>7 DEF HcStopInFlight, HcFail
<1>8. CASE HcDies
  BY <1>5, <1>8 DEF HcDies
<1> QED  BY <1>3, <1>4, <1>6, <1>7, <1>8, RetireCases, Zenon

LEMMA CountedHandle ==
  ASSUME TypeOK, RingInv, Calling, Replying, Counted, HandleEvent
  PROVE  Counted'
<1> SUFFICES ASSUME Counting' PROVE CountOf("sync")'
  BY CountedParts DEF Counted, Counting, CountOf
<1>0. "sync" \in Rings /\ "sync" \in Owners
  BY RingNames
<1>1. PICK d \in Pos :
          /\ \A p \in Pos \ {d} : cell'[p].body = cell[p].body
          /\ UNCHANGED <<todo, op, phase, status, retired>> /\ at = "drain"
          /\ urb'["sync"].kind = urb["sync"].kind
          /\ "sync" # Of(d) => urb'["sync"] = urb["sync"]
          /\ Of(d) \notin {pending, Current, "async"} => urb' = urb
          /\ "sync" = Of(d) /\ "sync" \in {pending, Current, "async"} =>
               /\ Code(d) \in {"success", "short"} => urb'["sync"].result = urb["sync"].result
               /\ Code(d) \notin {"success", "short"} =>
                    urb'["sync"].result = urb["sync"].result \cup {Flag(Code(d))}
  BY <1>0, HandleFacts
<1>2. op = "xfer" /\ phase \in {"exec", "stop"}
  BY <1>1 DEF Counting, Calling, Replying, Polling, TypeOK
<1>3. "sync" \in {pending, Current, "async"}
  BY <1>2, RingNames DEF Calling, Current
<1>4. "BUFFER" \notin urb["sync"].result
  BY <1>1, <1>3 DEF Counting
<1>5. ASSUME NEW p \in Pos, Of(p) = "sync" PROVE Code(p) # "buffer"
  <2>1. CASE p = d
    BY <1>1, <1>3, <1>5, <2>1, Flagged DEF Counting
  <2>2. CASE p # d
    BY <1>1, <1>5, <2>2 DEF Counting, Of, Code
  <2> QED  BY <2>1, <2>2
<1>6. CountOf("sync")
  BY <1>2, <1>4, <1>5, CountedParts DEF Counting
<1> QED  BY <1>0, <1>1, <1>6, CountSame

LEMMA CountedStart ==
  ASSUME TypeOK, Queued, NEW kind \in Kinds, Queue("sync", kind), ~Held("sync"), retired' = 0
  PROVE  CountOf("sync")'
<1>0. "sync" \in Rings
  BY RingNames
<1>1. PICK n \in Nat : n = Len(todo["sync"])
  BY <1>0, RingLength
<1>2. PICK m \in 1 .. MaxTrbs : m = Len(Shape(kind))
  BY <1>0, QueueEffect
<1>3. /\ DOMAIN todo'["sync"] = 1 .. n + m
      /\ \A i \in DOMAIN todo'["sync"] :
           todo'["sync"][i] = IF i <= n THEN todo["sync"][i] ELSE [own |-> "sync", part |-> i - n]
  BY <1>0, <1>1, <1>2, QueueEffect
<1>4. DOMAIN todo["sync"] = 1 .. n /\ m \in Nat \ {0}
  BY <1>0, <1>1, <1>2, RingLength DEF MaxTrbs
<1>5. ASSUME NEW i \in 1 .. n PROVE todo'["sync"][i] = Gone
  <2>1. i \in 1 .. n + m /\ i <= n
    BY <1>4
  <2>2. todo["sync"][i] = Gone
    BY <1>4 DEF Held
  <2> QED  BY <1>3, <2>1, <2>2
<1>8. ASSUME NEW i \in DOMAIN todo'["sync"], ~(i <= n)
      PROVE  todo'["sync"][i].own = "sync" /\ todo'["sync"][i].part = i - n
  <2>1. PICK j : j = i - n
    OBVIOUS
  <2>2. todo'["sync"][i] = [own |-> "sync", part |-> j]
    BY <1>3, <1>8, <2>1
  <2> QED  BY <2>1, <2>2
<1>6. Held("sync")'
  <2>1. n + 1 \in DOMAIN todo'["sync"] /\ ~(n + 1 <= n)
    BY <1>3, <1>4
  <2>2. todo'["sync"][n + 1].own = "sync"
    BY <1>8, <2>1
  <2> QED  BY <2>1, <2>2, GoneIsNobody, RingNames DEF Held
<1>7. ASSUME NEW i \in DOMAIN todo'["sync"], todo'["sync"][i] # Gone,
             i = 1 \/ todo'["sync"][i - 1] = Gone
      PROVE  todo'["sync"][i].part = 1
  <2>1. i > n /\ i \in Nat
    BY <1>3, <1>4, <1>5, <1>7
  <2>2. todo'["sync"][i].part = i - n
    BY <1>4, <1>8, <2>1
  <2>3. ASSUME i # n + 1 PROVE FALSE
    <3>1. i # 1 /\ i - 1 \in DOMAIN todo'["sync"] /\ ~(i - 1 <= n)
      BY <1>3, <1>4, <2>1, <2>3
    <3>2. todo'["sync"][i - 1].own = "sync"
      BY <1>8, <3>1
    <3> QED  BY <1>7, <3>1, <3>2, GoneIsNobody, RingNames
  <2> QED  BY <2>1, <2>2, <2>3
<1> QED  BY <1>6, <1>7 DEF CountOf

LEMMA CountedNext ==
  ASSUME TypeOK, RingInv, Calling, Replying, Blanked, Results, Posted, Queued, Commanded, Ended,
         Counted, [Next]_vars
  PROVE  Counted'
<1>0. "sync" \in Rings /\ "sync" \in Owners
  BY RingNames
<1>1. ASSUME Counting' => Counting, todo'["sync"] = todo["sync"], retired' = retired,
             urb'["sync"].kind = urb["sync"].kind
      PROVE  Counted'
  <2>1. ASSUME Counting' PROVE CountOf("sync")'
    BY <1>0, <1>1, <2>1, CountSame, CountedParts
  <2> QED  BY <2>1, CountedParts DEF Counted, Counting, CountOf
<1>2. CASE Controller
  BY <1>2, CountedController
<1>3. CASE HandleEvent
  BY <1>3, CountedHandle
<1>4. ASSUME NEW ok \in BOOLEAN, CommandDone(ok) PROVE Counted'
  <2>1. /\ urb'["sync"] = urb["sync"] /\ todo'["sync"] = todo["sync"]
        /\ \A p \in Pos : IF Of(p) = "cmd" THEN cell'[p].body = Blank
                                           ELSE cell'[p].body = cell[p].body
        /\ phase \in CommandPhases /\ UNCHANGED <<op, retired>> /\ CommandEnds(ok)
    BY <1>0, <1>4, DoneEffect DEF CommandDone
  <2>2. \A p \in Pos : Of(p) = "sync" => cell'[p].body = cell[p].body
    BY <2>1
  <2>3. phase' \notin {"exec", "stop"}
    BY <2>1, CommandEndsFacts
  <2>4. op = "xfer" => status # "SUCCESS"
    BY <2>1 DEF Replying, CommandPhases
  <2>5. op = "xfer" /\ status' = "SUCCESS" => phase = "stop"
    BY <2>1, <2>4, CommandEndsFacts
  <2>6. Counting' => Counting
    BY <2>1, <2>2, <2>3, <2>5 DEF Counting, Of, Code
  <2> QED  BY <1>1, <2>1, <2>6
<1>5. ASSUME op' # "xfer" PROVE Counted'
  BY <1>5 DEF Counted
<1>6. ASSUME NEW o \in Rings, NEW kind \in Kinds \ {"command"}, Starts(o, kind) PROVE Counted'
  <2>1. CASE o = "sync"
    <3>1. Queue("sync", kind) /\ retired' = 0 /\ ~Held("sync")
      BY <1>6, <2>1, StartEffect DEF Starts
    <3>2. CountOf("sync")'
      BY <3>1, CountedStart
    <3> QED  BY <3>2, CountedParts DEF Counted, Counting, CountOf
  <2>2. CASE o = "async"
    BY <1>5, <1>6, <2>2 DEF Starts
  <2> QED  BY <2>1, <2>2, RingNames
<1>7. CASE IssueCommand /\ alive
  <2>1. UNCHANGED <<cell, todo, op, phase, status, retired>> /\ urb'["sync"] = urb["sync"]
    BY <1>0, <1>7, IssueEffect
  <2> QED  BY <1>1, <2>1 DEF Counting, Of, Code
<1>8. CASE CommandLost
  <2>1. /\ UNCHANGED <<cell, todo, op, urb, retired>> /\ phase \in CommandPhases
        /\ status' = status /\ phase' = "none"
    BY <1>8, CommandEndsFacts DEF CommandLost
  <2>2. op = "xfer" => status # "SUCCESS"
    BY <2>1 DEF Replying, CommandPhases
  <2> QED  BY <1>1, <2>1, <2>2 DEF Counting
<1>9. CASE Quiet
  <2>1. /\ UNCHANGED <<cell, todo, retired>> /\ urb'["sync"].kind = urb["sync"].kind
        /\ \/ urb'["sync"].result = urb["sync"].result
           \/ urb'["sync"].result = urb["sync"].result \cup {"SYSTEM"}
           \/ urb'["sync"].result = NoError /\ TransferTimesOut
    BY <1>0, <1>9, QuietEffect
  <2>2. status' = status \/ TransferTimesOut \/ TransferFinishes
    BY <1>9 DEF Quiet, CheckBegin, CheckEnd, PollAgain, RecoverOrReturn, DeleteAsync, Tick,
                TickEnds, vars
  <2>3. "BUFFER" \in urb["sync"].result => "BUFFER" \in urb'["sync"].result
    <3>1. TransferTimesOut => ~urb["sync"].finished
      BY DEF TransferTimesOut, Done, Current, Target
    <3> QED  BY <1>0, <2>1, <3>1 DEF Results
  <2>4. op' = "xfer" /\ (phase' \in {"exec", "stop"} \/ status' = "SUCCESS") =>
          op = "xfer" /\ (phase \in {"exec", "stop"} \/ status = "SUCCESS")
    <3>1. CASE UNCHANGED <<op, phase>>
      BY <2>2, <3>1 DEF TransferTimesOut, TransferFinishes
    <3>2. CASE ~UNCHANGED <<op, phase>>
      <4>1. TransferTimesOut \/ TransferFinishes => op = "xfer" /\ phase = "exec"
        BY DEF TransferTimesOut, TransferFinishes
      <4> QED  BY <1>9, <2>2, <3>2, <4>1, QuietPhases
    <3> QED  BY <3>1, <3>2
  <2> QED  BY <1>1, <2>1, <2>3, <2>4 DEF Counting, Of, Code
<1>10. CASE Return
  BY <1>5, <1>10, ReturnEffect
<1> QED  BY <1>2, <1>3, <1>4, <1>6, <1>7, <1>8, <1>9, <1>10, DriverCases, Zenon

-----------------------------------------------------------------------------
\* The completions of a URB that are still on the event ring.

Pays(p, r) == Of(p) = r /\ Code(p) = "success" /\ IsData(cell[p].body.trb)
Credits(r) == {p \in Pos : Pays(p, r)}
ConservedOn(r) == Live(r) => moved[r] = urb[r].completed + Cardinality(Credits(r))
Conserved == \A r \in Rings : ConservedOn(r)

LEMMA ConservedMeans == ASSUME Blanked PROVE Conserved <=> CompletionsConserved
<1>1. ASSUME NEW r \in Rings
      PROVE  Credits(r) = {p \in Unread : /\ cell[p].body.code = "success"
                                          /\ cell[p].body.trb.own = r
                                          /\ IsData(cell[p].body.trb)}
  <2>1. ASSUME NEW p \in Pos, Of(p) = r PROVE p \in Unread
    BY <2>1, BlankIsNobodys, RingNames DEF Blanked, Of
  <2>2. Unread \subseteq Pos
    BY DEF Unread
  <2> QED  BY <2>1, <2>2 DEF Credits, Pays, Of, Code
<1> QED  BY <1>1 DEF Conserved, ConservedOn, CompletionsConserved

LEMMA CreditsFinite ==
  IsFiniteSet(Credits("sync")) /\ \A r \in Rings : IsFiniteSet(Credits(r))
                                                   /\ Cardinality(Credits(r)) \in Nat
<1>1. IsFiniteSet(Pos)
  BY FS_Interval DEF Pos
<1>2. ASSUME NEW r \in Rings PROVE IsFiniteSet(Credits(r)) /\ Cardinality(Credits(r)) \in Nat
  <2>1. Credits(r) \in SUBSET Pos
    BY DEF Credits
  <2> QED  BY <1>1, <2>1, FS_Subset, FS_CardinalityType
<1> QED  BY <1>2, RingNames

LEMMA PaysSame ==
  ASSUME NEW r \in Rings, urb'[r].kind = urb[r].kind, NEW p \in Pos,
         cell'[p].body = cell[p].body
  PROVE  Pays(p, r)' <=> Pays(p, r)
BY DEF Pays, IsData, Live, Of, Code

LEMMA PaysNew ==
  ASSUME NEW r \in Rings, urb'[r].kind = urb[r].kind, NEW p \in Pos, NEW t \in Trb,
         cell'[p].body.trb = t, t.own = r
  PROVE  Pays(p, r)' <=> cell'[p].body.code = "success" /\ IsData(t)
BY DEF Pays, IsData, Live, Of, Code

\* Nothing was added for the URB and nothing was read of it.
LEMMA CreditsSame ==
  ASSUME NEW r \in Rings, urb'[r].kind = urb[r].kind,
         \A p \in Pos : \/ cell'[p].body = cell[p].body
                        \/ Of(p) # r /\ cell'[p].body.trb.own # r
                        \/ Of(p) # r /\ cell'[p].body.code # "success"
  PROVE  Credits(r)' = Credits(r)
<1>1. ASSUME NEW p \in Pos PROVE Pays(p, r)' <=> Pays(p, r)
  <2>1. CASE cell'[p].body = cell[p].body
    BY <2>1, PaysSame
  <2>2. CASE cell'[p].body # cell[p].body
    BY <2>2 DEF Pays, Of, Code
  <2> QED  BY <2>1, <2>2
<1> QED  BY <1>1 DEF Credits

LEMMA ConservedSame ==
  ASSUME NEW r \in Rings, ConservedOn(r), urb'[r].kind = urb[r].kind, moved'[r] = moved[r],
         urb'[r].completed = urb[r].completed, Credits(r)' = Credits(r)
  PROVE  ConservedOn(r)'
BY DEF ConservedOn, Live

LEMMA ConservedController ==
  ASSUME TypeOK, RingInv, Blanked, Queued, Commanded, Controller, NEW r \in Rings, ConservedOn(r)
  PROVE  ConservedOn(r)'
<1>0. /\ urb' = urb /\ r # "gone" /\ r # "cmd" /\ r \in Owners
      /\ moved \in [Rings -> Nat]
  BY ControllerTodo, RingNames DEF TypeOK
<1>1. ASSUME NEW q \in Rings, NEW code \in {"success", "short"}, HcComplete(q, code)
      PROVE  ConservedOn(r)'
  <2>1. PICK h \in Pos, t \in Trb :
            /\ RetireStep(h, t, q, code)
            /\ moved' = IF IsData(t) /\ code = "success"
                        THEN [moved EXCEPT ![q] = @ + 1] ELSE moved
    BY <1>1, RetireCounts
  <2>2. /\ t # Gone => t.own = q
        /\ cell'[h].body = IF t = Gone THEN Blank ELSE [trb |-> t, code |-> code]
        /\ \A p \in Pos \ {h} : cell'[p].body = cell[p].body
        /\ Of(h) = "gone"
    BY <2>1 DEF RetireStep
  <2>3. t = Gone => ~IsData(t)
    BY DEF IsData, Gone
  <2>4. CASE q = r /\ IsData(t) /\ code = "success"
    <3>1. /\ cell'[h].body.trb = t /\ cell'[h].body.code = "success" /\ t.own = r
          /\ moved'[r] = moved[r] + 1
      BY <1>0, <2>1, <2>2, <2>3, <2>4
    <3>2. Pays(h, r)'
      BY <1>0, <2>4, <3>1, PaysNew
    <3>3. h \notin Credits(r)
      BY <1>0, <2>2 DEF Credits, Pays
    <3>4. \A p \in Pos \ {h} : Pays(p, r)' <=> Pays(p, r)
      BY <1>0, <2>2, PaysSame
    <3>5. Credits(r)' = Credits(r) \cup {h}
      BY <3>2, <3>4 DEF Credits
    <3>6. Cardinality(Credits(r)') = Cardinality(Credits(r)) + 1
      BY <3>3, <3>5, FS_AddElement, CreditsFinite
    <3>7. urb[r].completed \in Nat /\ moved[r] \in Nat /\ Cardinality(Credits(r)) \in Nat
      BY <1>0, UrbFacts, CreditsFinite
    <3> QED  BY <1>0, <3>1, <3>6, <3>7 DEF ConservedOn, Live
  <2>5. CASE ~(q = r /\ IsData(t) /\ code = "success")
    <3>1. moved'[r] = moved[r]
      BY <1>0, <2>1, <2>5
    <3>2. CASE q = r /\ code = "success" /\ t # Gone
      <4>1. ~Pays(h, r)' /\ ~Pays(h, r)
        BY <1>0, <2>2, <2>5, <3>2, PaysNew DEF Pays
      <4>2. \A p \in Pos \ {h} : Pays(p, r)' <=> Pays(p, r)
        BY <1>0, <2>2, PaysSame
      <4>3. Credits(r)' = Credits(r)
        BY <4>1, <4>2 DEF Credits
      <4> QED  BY <1>0, <3>1, <4>3, ConservedSame
    <3>3. CASE ~(q = r /\ code = "success" /\ t # Gone)
      <4>1. cell'[h].body.trb.own # r \/ cell'[h].body.code # "success"
        BY <1>0, <2>2, <3>3, BlankIsNobodys
      <4>2. Credits(r)' = Credits(r)
        BY <1>0, <2>2, <4>1, CreditsSame
      <4> QED  BY <1>0, <3>1, <4>2, ConservedSame
    <3> QED  BY <3>2, <3>3
  <2> QED  BY <2>4, <2>5
<1>2. ASSUME NEW h \in Pos, Of(h) = "gone", moved' = moved,
             \A p \in Pos \ {h} : cell'[p].body = cell[p].body,
             cell'[h].body.trb.own # r \/ cell'[h].body.code # "success"
      PROVE  ConservedOn(r)'
  <2>1. Credits(r)' = Credits(r)
    BY <1>0, <1>2, CreditsSame
  <2> QED  BY <1>0, <1>2, <2>1, ConservedSame
<1>3. ASSUME NEW q \in Rings, HcFail(q, "buffer") PROVE ConservedOn(r)'
  <2>1. PICK h \in Pos, t \in Trb : RetireStep(h, t, q, "buffer")
    BY <1>3, RetireEffect DEF Retires
  <2>2. /\ Of(h) = "gone" /\ \A p \in Pos \ {h} : cell'[p].body = cell[p].body
        /\ cell'[h].body = IF t = Gone THEN Blank ELSE [trb |-> t, code |-> "buffer"]
    BY <2>1 DEF RetireStep
  <2>3. moved' = moved
    BY <1>3 DEF HcFail
  <2> QED  BY <1>0, <1>2, <2>2, <2>3, BlankIsNobodys
<1>4. CASE HcStopInFlight \/ \E q \in Rings : HcFail(q, "stall")
  <2>1. PICK h \in Pos, t \in Trb, q \in Rings, code \in {"stall", "stopped"} :
          ReportStep(h, t, q, code)
    BY <1>4, ReportEffect
  <2>2. /\ Of(h) = "gone" /\ \A p \in Pos \ {h} : cell'[p].body = cell[p].body
        /\ cell'[h].body = IF t = Gone THEN Blank ELSE [trb |-> t, code |-> code]
        /\ moved' = moved
    BY <2>1 DEF ReportStep
  <2> QED  BY <1>0, <1>2, <2>2, BlankIsNobodys
<1>5. CASE HcCommand
  <2>1. PICK h \in Pos, c \in Command : CommandStep(h, c)
    BY <1>5, CommandEffect
  <2>2. /\ Of(h) = "gone" /\ \A p \in Pos \ {h} : cell'[p].body = cell[p].body
        /\ cell'[h].body = IF c.trb = Gone THEN Blank
                           ELSE [trb |-> c.trb, code |-> IF Fits(c) THEN "success" ELSE "state"]
        /\ moved' = moved /\ c = commands[1] /\ 1 \in DOMAIN commands
    BY <2>1 DEF CommandStep
  <2>3. c.trb # Gone => c.trb.own = "cmd"
    BY <2>2 DEF Commanded
  <2> QED  BY <1>0, <1>2, <2>2, <2>3, BlankIsNobodys
<1>6. CASE HcDies
  <2>1. UNCHANGED <<cell, moved>>
    BY <1>6 DEF HcDies
  <2> QED  BY <1>0, <2>1, CreditsSame, ConservedSame
<1> QED  BY <1>1, <1>3, <1>4, <1>5, <1>6, RetireCases, Zenon

LEMMA ConservedHandle ==
  ASSUME TypeOK, RingInv, Calling, Replying, Posted, Quieted, HandleEvent, NEW r \in Rings,
         ConservedOn(r)
  PROVE  ConservedOn(r)'
<1>0. r \in Owners /\ r # "gone"
  BY RingNames
<1>1. PICK d \in Pos :
          /\ cell'[d].body = Blank /\ \A p \in Pos \ {d} : cell'[p].body = cell[p].body
          /\ at = "drain" /\ moved' = moved /\ urb'[r].kind = urb[r].kind
          /\ r # Of(d) => urb'[r] = urb[r]
          /\ r = Of(d) /\ r \in {pending, Current, "async"} =>
               /\ Code(d) \in {"success", "short"} =>
                    urb'[r].completed =
                           IF IsData(cell[d].body.trb) /\ Code(d) = "success"
                           THEN urb[r].completed + 1 ELSE urb[r].completed
               /\ Code(d) \notin {"success", "short"} =>
                    urb'[r].completed = urb[r].completed
  BY <1>0, HandleFacts
<1>2. CASE Of(d) # r
  <2>1. Credits(r)' = Credits(r)
    BY <1>0, <1>1, <1>2, BlankIsNobodys, CreditsSame
  <2> QED  BY <1>1, <1>2, <2>1, ConservedSame
<1>3. CASE Of(d) = r
  <2>1. Live(r)
    BY <1>3 DEF Posted
  <2>2. r \in {pending, Current, "async"}
    <3>1. CASE r = "sync"
      <4>1. op = "xfer" /\ Target = r /\ phase # "none"
        BY <1>1, <2>1, <3>1, RingNames DEF Calling, Polling
      <4>2. phase \notin {"dequeue", "reset", "redequeue"}
        BY <1>3, <4>1 DEF Quieted, Told
      <4> QED  BY <4>1, <4>2 DEF TypeOK, Calling, Current
    <3> QED  BY <3>1, RingNames
  <2>3. \A p \in Pos \ {d} : Pays(p, r)' <=> Pays(p, r)
    BY <1>1, PaysSame
  <2>4. ~Pays(d, r)'
    BY <1>0, <1>1, BlankIsNobodys DEF Pays, Of
  <2>5. Credits(r)' = Credits(r) \ {d}
    BY <2>3, <2>4 DEF Credits
  <2>6. urb[r].completed \in Nat /\ Cardinality(Credits(r)) \in Nat
    BY <1>0, UrbFacts, CreditsFinite
  <2>7. CASE d \in Credits(r)
    <3>1. urb'[r].completed = urb[r].completed + 1
      BY <1>1, <1>3, <2>2, <2>7 DEF Credits, Pays
    <3>2. Cardinality(Credits(r)') = Cardinality(Credits(r)) - 1
      BY <2>5, <2>7, FS_RemoveElement, CreditsFinite
    <3> QED  BY <1>1, <2>1, <2>6, <3>1, <3>2 DEF ConservedOn
  <2>8. CASE d \notin Credits(r)
    <3>1. urb'[r].completed = urb[r].completed
      BY <1>1, <1>3, <2>2, <2>8 DEF Credits, Pays
    <3>2. Credits(r)' = Credits(r)
      BY <2>5, <2>8
    <3> QED  BY <1>1, <3>1, <3>2, ConservedSame
  <2> QED  BY <2>7, <2>8
<1> QED  BY <1>2, <1>3

LEMMA ConservedInit == Init => Conserved
<1> SUFFICES ASSUME Init, NEW r \in Rings PROVE ConservedOn(r)
  BY DEF Conserved
<1>1. ~Live(r)
  BY RingNames, NoUrb DEF Init, Live
<1> QED  BY <1>1 DEF ConservedOn

LEMMA ConservedNext ==
  ASSUME TypeOK, RingInv, Calling, Replying, Blanked, Results, Posted, Queued, Commanded, Ended,
         Quieted, Conserved, [Next]_vars
  PROVE  Conserved'
<1> SUFFICES ASSUME NEW r \in Rings PROVE ConservedOn(r)'
  BY DEF Conserved
<1>0. r \in Owners /\ r # "gone" /\ r # "cmd" /\ ConservedOn(r)
  BY RingNames DEF Conserved
<1>1. ASSUME cell' = cell, urb'[r].kind = urb[r].kind, moved'[r] = moved[r],
             urb'[r].completed = urb[r].completed
      PROVE  ConservedOn(r)'
  BY <1>0, <1>1, CreditsSame, ConservedSame
<1>2. CASE Controller
  BY <1>0, <1>2, ConservedController
<1>3. CASE HandleEvent
  BY <1>0, <1>3, ConservedHandle
<1>4. ASSUME NEW ok \in BOOLEAN, CommandDone(ok) PROVE ConservedOn(r)'
  <2>1. /\ urb'[r] = urb[r] /\ moved' = moved
        /\ \A p \in Pos : IF Of(p) = "cmd" THEN cell'[p].body = Blank
                                           ELSE cell'[p].body = cell[p].body
    BY <1>4, DoneEffect
  <2>2. Credits(r)' = Credits(r)
    BY <1>0, <2>1, BlankIsNobodys, CreditsSame
  <2> QED  BY <1>0, <2>1, <2>2, ConservedSame
<1>5. CASE Return
  <2>1. /\ \A p \in Pos : IF Of(p) = Target THEN cell'[p].body = Blank
                                            ELSE cell'[p].body = cell[p].body
        /\ r = Target => urb'[r] = None
        /\ r # Target => urb'[r] = urb[r]
    BY <1>0, <1>5, ReturnEffect
  <2>2. r # Target => moved'[r] = moved[r]
    BY <1>5, RingNames DEF Return, TypeOK
  <2>3. CASE r = Target
    BY <2>1, <2>3, NoUrb DEF ConservedOn, Live
  <2>4. CASE r # Target
    <3>1. Credits(r)' = Credits(r)
      BY <1>0, <2>1, <2>4, BlankIsNobodys, CreditsSame
    <3> QED  BY <1>0, <2>1, <2>2, <2>4, <3>1, ConservedSame
  <2> QED  BY <2>3, <2>4
<1>6. ASSUME NEW o \in Rings, NEW kind \in Kinds \ {"command"}, Starts(o, kind)
      PROVE  ConservedOn(r)'
  <2>1. CASE r = o
    <3>1. cell' = cell /\ ~Told(r) /\ urb'[r].completed = 0 /\ moved'[r] = 0
      BY <1>6, <2>1, StartEffect
    <3>2. Credits(r)' = {}
      BY <3>1 DEF Credits, Pays, Of, Told
    <3> QED  BY <3>1, <3>2, FS_EmptySet DEF ConservedOn
  <2>2. CASE r # o
    BY <1>0, <1>1, <1>6, <2>2, StartEffect
  <2> QED  BY <2>1, <2>2
<1>7. CASE IssueCommand /\ alive
  BY <1>1, <1>7, IssueEffect
<1>8. CASE CommandLost
  BY <1>1, <1>8 DEF CommandLost
<1>9. CASE Quiet
  BY <1>0, <1>1, <1>9, QuietEffect
<1> QED  BY <1>2, <1>3, <1>4, <1>5, <1>6, <1>7, <1>8, <1>9, DriverCases, Zenon

-----------------------------------------------------------------------------
\* The invariant, and what it says of the properties.

SchedInv ==
  /\ Calling /\ Replying /\ Results
  /\ Blanked /\ Queued /\ Posted /\ InTurn /\ Ended
  /\ Commanded /\ Quieted /\ Stalled
  /\ NothingLeft /\ StopsHeard /\ StallsKept /\ Failing
  /\ Counted /\ Conserved

LEMMA InitSched == Init => SchedInv
<1> HAVE Init
<1>1. Calling /\ Replying /\ Results
  BY CallingInit
<1>2. Blanked /\ Queued /\ Commanded
  BY BlankedInit, QueuedInit, CommandedInit
<1>3. InTurn /\ Ended /\ Conserved
  BY InTurnInit, ConservedInit
<1>4. /\ Posted /\ Stalled /\ Counted /\ Quieted
      /\ NothingLeft /\ StopsHeard /\ StallsKept /\ Failing
  BY RestInit
<1> QED  BY <1>1, <1>2, <1>3, <1>4 DEF SchedInv

LEMMA NextSched == TypeOK /\ RingInv /\ SchedInv /\ [Next]_vars => SchedInv'
<1> SUFFICES ASSUME TypeOK, RingInv, SchedInv, [Next]_vars PROVE SchedInv'
  OBVIOUS
<1>0. /\ Calling /\ Replying /\ Results
      /\ Blanked /\ Queued /\ Posted /\ InTurn /\ Ended
      /\ Commanded /\ Quieted /\ Stalled
      /\ NothingLeft /\ StopsHeard /\ StallsKept /\ Failing
      /\ Counted /\ Conserved
  BY DEF SchedInv
<1>1. Calling' /\ Replying' /\ Results'
  BY <1>0, CallingNext, ResultsNext
<1>2. Blanked' /\ Queued' /\ Posted'
  BY <1>0, BlankedNext, QueuedNext, PostedNext
<1>3. InTurn' /\ Ended'
  BY <1>0, InTurnNext, EndedNext
<1>4. Commanded' /\ Quieted' /\ Stalled'
  BY <1>0, CommandedNext, QuietedNext, StalledNext
<1>5. NothingLeft' /\ StopsHeard' /\ Failing'
  BY <1>0, NothingLeftNext, StopsHeardNext, FailingNext
<1>6. StallsKept'
  BY <1>0, <1>3, StallsKeptNext
<1>7. Counted' /\ Conserved'
  BY <1>0, CountedNext, ConservedNext
<1> QED  BY <1>1, <1>2, <1>3, <1>4, <1>5, <1>6, <1>7 DEF SchedInv

LEMMA SchedReplies == TypeOK /\ SchedInv => RepliesHonest
<1> SUFFICES ASSUME TypeOK, SchedInv, at = "return", op = "xfer", status = "SUCCESS"
             PROVE  /\ retired = Len(Shape(urb["sync"].kind))
                    /\ urb["sync"].completed = moved["sync"]
  BY DEF RepliesHonest
<1>1. /\ Calling /\ Results /\ Ended /\ Counted /\ Conserved
  BY DEF SchedInv
<1>2. "sync" \in Rings /\ "sync" \in Owners /\ Live("sync")
  BY <1>1, RingNames DEF Calling
<1>3. urb["sync"].finished /\ urb["sync"].result = NoError
  BY <1>1 DEF Results
<1>4. ~Held("sync") /\ ~Told("sync")
  BY <1>1, <1>2, <1>3 DEF Results, Ended
<1>5. retired = Size("sync")
  BY <1>1, <1>3, <1>4, CountedParts DEF Counting, CountOf, Told, NoError
<1>6. Credits("sync") = {}
  BY <1>4 DEF Credits, Pays, Told
<1>7. moved["sync"] = urb["sync"].completed + 0
  BY <1>1, <1>2, <1>6, FS_EmptySet DEF Conserved, ConservedOn
<1>8. urb["sync"].completed \in Nat
  BY <1>2, UrbFacts
<1> QED  BY <1>5, <1>7, <1>8 DEF Size

LEMMA SchedMeans == TypeOK /\ SchedInv => CompletionsTrue /\ FreedUrbsOffTheRing
<1> SUFFICES ASSUME TypeOK, SchedInv PROVE CompletionsTrue /\ FreedUrbsOffTheRing
  OBVIOUS
<1>1. CompletionsConserved
  BY ConservedMeans DEF SchedInv
<1>2. RepliesHonest
  BY SchedReplies
<1>3. FreedUrbsOffTheRing
  BY DEF SchedInv, NothingLeft, FreedUrbsOffTheRing
<1> QED  BY <1>1, <1>2, <1>3 DEF CompletionsTrue

\* Whatever the controller and the driver do in between, each completion is
\* credited once and to its owner, and a transfer that reports success was
\* carried out to its last TRB and reports the length the controller moved.
THEOREM CompletionsKept == Spec => []CompletionsTrue
<1>1. QED
  BY InitType, NextType, InitRing, NextRing, InitSched, NextSched, SchedMeans, PTL DEF Spec

\* Stop, dequeue, reset and dequeue again take a URB's TRBs off the transfer
\* ring before it is freed, as long as no command failed and no result came
\* that XhcTransfer does nothing about.
THEOREM FreedOffRing == Spec => []FreedUrbsOffTheRing
<1>1. QED
  BY InitType, NextType, InitRing, NextRing, InitSched, NextSched, SchedMeans, PTL DEF Spec
=============================================================================
