-------------------------- MODULE SpifcNor_proofs ---------------------------
(* What TLAPS proves of the SPI NOR primitives for any part, page, bufferload *)
(* and buffer size, any number of polls and any number of time-outs: commands *)
(* are framed by chip select, one program command goes to each page of a      *)
(* call, and the primitives keep the contract of NorContract.                 *)
EXTENDS SpifcNor, SequenceTheorems, TLAPS

\* The sizes, under one name.
Sizes == /\ ChipSize \in Nat \ {0} /\ EraseSize \in Nat \ {0} /\ PageSize \in Nat \ {0}
         /\ CommandMax \in Nat \ {0} /\ TransferMax \in Nat \ {0}
         /\ MaxPolls \in Nat \ {0} /\ MaxFaults \in Nat
         /\ Contents \subseteq [Cells -> {0, 1}]
         /\ \A b \in Buffers : b \in Seq({0, 1}) /\ b # <<>>

LEMMA SizesHold == Sizes
BY GeometryAssumption, BufferAssumption DEF Sizes, GeometryAssumption, BufferAssumption

-----------------------------------------------------------------------------
(* Arithmetic of pages, and slices of a buffer.                               *)

LEMMA Division ==
  ASSUME NEW a \in Nat, NEW p \in Nat \ {0}
  PROVE  a = (a \div p) * p + (a % p) /\ a % p \in 0 .. p - 1 /\ a \div p \in Nat
OBVIOUS

\* Quotient and remainder are determined by what they satisfy.
LEMMA DivisionUnique ==
  ASSUME NEW q \in Nat, NEW r \in Nat, NEW p \in Nat \ {0}, r < p
  PROVE  (q * p + r) \div p = q /\ (q * p + r) % p = r
<1> DEFINE a == q * p + r
<1>1. a = (a \div p) * p + (a % p) /\ a % p \in 0 .. p - 1 /\ a \div p \in Nat /\ a \in Nat
  BY Division
<1>2. (a \div p - q) * p = r - (a % p)
  BY <1>1
<1>3. CASE a \div p > q
  BY <1>1, <1>2, <1>3
<1>4. CASE a \div p < q
  BY <1>1, <1>2, <1>4
<1> QED BY <1>1, <1>3, <1>4

LEMMA OneMore == ASSUME NEW q \in Nat, NEW p \in Nat PROVE (q + 1) * p = q * p + p
OBVIOUS

LEMMA WithinPage ==
  ASSUME NEW q \in Nat, NEW r \in Nat, NEW i \in Nat, NEW p \in Nat \ {0}, r + i < p
  PROVE  (q * p + r + i) % p = r + i
<1>1. q * p + r + i = q * p + (r + i) /\ r + i \in Nat
  OBVIOUS
<1>2. (q * p + (r + i)) % p = r + i
  BY <1>1, DivisionUnique
<1> QED BY <1>1, <1>2

\* The addresses of a page, and where the next one starts.
LEMMA WrapFacts ==
  ASSUME NEW a \in Nat
  PROVE  /\ Wrap(a) \in Nat /\ a = Wrap(a) + (a % PageSize)
         /\ a % PageSize \in 0 .. PageSize - 1
         /\ Wrap(a + (PageSize - (a % PageSize))) = Wrap(a) + PageSize
         /\ \A i \in Nat : (a % PageSize) + i < PageSize =>
              (a + i) % PageSize = (a % PageSize) + i
<1> DEFINE p == PageSize
           q == a \div p
           r == a % p
<1>0. p \in Nat \ {0}
  BY SizesHold DEF Sizes
<1>1. a = q * p + r /\ r \in 0 .. p - 1 /\ q \in Nat
  BY <1>0, Division
<1>2. Wrap(a) = q * p
  BY DEF Wrap
<1>3. Wrap(a) \in Nat
  BY <1>0, <1>1, <1>2
<1>4. a + (p - r) = (q + 1) * p + 0
  BY <1>0, <1>1
<1>5. (a + (p - r)) \div p = q + 1
  <2>1. q + 1 \in Nat /\ 0 \in Nat /\ 0 < p
    BY <1>0, <1>1
  <2>2. ((q + 1) * p + 0) \div p = q + 1
    BY <1>0, <2>1, DivisionUnique
  <2> QED BY <1>4, <2>2
<1>6. Wrap(a + (p - r)) = Wrap(a) + p
  <2>1. Wrap(a + (p - r)) = ((a + (p - r)) \div p) * p
    BY DEF Wrap
  <2>2. ((a + (p - r)) \div p) * p = (q + 1) * p
    BY <1>5
  <2>3. (q + 1) * p = q * p + p
    BY <1>0, <1>1, OneMore
  <2> QED BY <1>2, <2>1, <2>2, <2>3
<1>7. ASSUME NEW i \in Nat, r + i < p PROVE (a + i) % p = r + i
  <2>1. (q * p + r + i) % p = r + i
    BY <1>0, <1>1, <1>7, WithinPage
  <2> QED BY <1>1, <2>1
<1> QED BY <1>1, <1>2, <1>3, <1>6, <1>7

LEMMA Slice ==
  ASSUME NEW b \in Seq({0, 1}), NEW d \in Nat, NEW n \in Nat, d + n <= Len(b)
  PROVE  /\ SubSeq(b, d + 1, d + n) \in Seq({0, 1}) /\ Len(SubSeq(b, d + 1, d + n)) = n
         /\ \A j \in 1 .. n : SubSeq(b, d + 1, d + n)[j] = b[d + j]
OBVIOUS

LEMMA Extended ==
  ASSUME NEW S, NEW b \in Seq(S), NEW x \in S
  PROVE  /\ Append(b, x) \in Seq(S) /\ Len(Append(b, x)) = Len(b) + 1
         /\ \A i \in 1 .. Len(b) : Append(b, x)[i] = b[i]
         /\ Append(b, x)[Len(b) + 1] = x
OBVIOUS

LEMMA AsFunction ==
  ASSUME NEW S, NEW m \in Nat, NEW b \in Seq(S), Len(b) = m PROVE b \in [1 .. m -> S]
OBVIOUS

LEMMA Concatenated ==
  ASSUME NEW S, NEW b \in Seq(S), NEW c \in Seq(S)
  PROVE  /\ b \o c \in Seq(S) /\ Len(b \o c) = Len(b) + Len(c)
         /\ \A i \in 1 .. Len(b) + Len(c) :
              (b \o c)[i] = IF i <= Len(b) THEN b[i] ELSE c[i - Len(b)]
BY ConcatProperties, Zenon

\* What a read has collected grows by what the next bufferload brings.
LEMMA Joined ==
  ASSUME NEW m \in Nat, NEW n \in Nat, NEW b \in [1 .. m -> {0, 1}],
         NEW c \in [1 .. n -> {0, 1}]
  PROVE  /\ b \o c \in [1 .. m + n -> {0, 1}]
         /\ \A i \in 1 .. m : (b \o c)[i] = b[i]
         /\ \A i \in 1 .. n : (b \o c)[m + i] = c[i]
<1>1. b \in Seq({0, 1}) /\ Len(b) = m /\ c \in Seq({0, 1}) /\ Len(c) = n
  OBVIOUS
<1>2. b \o c \in Seq({0, 1}) /\ Len(b \o c) = Len(b) + Len(c)
  BY <1>1, Concatenated
<1>3. b \o c \in [1 .. m + n -> {0, 1}]
  <2>1. Len(b \o c) = m + n /\ m + n \in Nat
    BY <1>1, <1>2
  <2> QED BY <1>2, <2>1, AsFunction
<1>4. \A i \in 1 .. m + n : (b \o c)[i] = IF i <= m THEN b[i] ELSE c[i - m]
  <2>1. \A i \in 1 .. Len(b) + Len(c) :
          (b \o c)[i] = IF i <= Len(b) THEN b[i] ELSE c[i - Len(b)]
    BY <1>1, Concatenated
  <2> QED BY <1>1, <2>1
<1> QED BY <1>3, <1>4

-----------------------------------------------------------------------------
(* Calls and commands.                                                        *)

\* A call that passed the parameter checks lies within the part.
LEMMA CallFacts ==
  ASSUME NEW c \in Calls, Valid(c)
  PROVE  /\ c.kind \in {"program", "erase", "read"}
         /\ c.at \in Nat /\ c.len \in Nat \ {0} /\ c # Idle
         /\ c.kind = "program" => c.buf \in Seq({0, 1}) /\ c.len = Len(c.buf)
         /\ c.kind # "erase" => c.at + c.len <= ChipSize
<1> USE SizesHold DEF Sizes, Cells, Valid, Idle
<1>1. CASE c \in {Program(a, b) : a \in Cells, b \in Buffers}
  <2>1. PICK a \in Cells, b \in Buffers : c = Program(a, b)
    BY <1>1
  <2>2. Len(b) \in Nat \ {0}
    OBVIOUS
  <2> QED BY <2>1, <2>2 DEF Program
<1>2. CASE c \in {Erase(a) : a \in Cells}
  BY <1>2 DEF Erase
<1>3. CASE c \in {Read(a, Len(b)) : a \in Cells, b \in Buffers}
  <2>1. PICK a \in Cells, b \in Buffers : c = Read(a, Len(b))
    BY <1>3
  <2>2. Len(b) \in Nat \ {0}
    OBVIOUS
  <2> QED BY <2>1, <2>2 DEF Read
<1> QED BY <1>1, <1>2, <1>3 DEF Calls

\* The share of a program that goes to one page, and where it ends.
LEMMA PageFacts ==
  ASSUME NEW a \in Nat, a = call.at + done, done \in Nat, call.len \in Nat, done < call.len
  PROVE  /\ PageLength \in Nat \ {0} /\ done + PageLength <= call.len
         /\ (a % PageSize) + PageLength <= PageSize
         /\ done + PageLength < call.len => Wrap(a + PageLength) = Wrap(a) + PageSize
<1>1. PageSize \in Nat \ {0} /\ a % PageSize \in 0 .. PageSize - 1
  BY SizesHold, WrapFacts DEF Sizes
<1>2. PageLength = IF call.len - done < PageSize - (a % PageSize)
                   THEN call.len - done ELSE PageSize - (a % PageSize)
  BY DEF PageLength
<1>3. done + PageLength < call.len => PageLength = PageSize - (a % PageSize)
  BY <1>1, <1>2
<1>4. /\ PageLength \in Nat \ {0} /\ done + PageLength <= call.len
      /\ (a % PageSize) + PageLength <= PageSize
  BY <1>1, <1>2
<1>5. Wrap(a + (PageSize - (a % PageSize))) = Wrap(a) + PageSize
  BY WrapFacts
<1> QED BY <1>3, <1>4, <1>5

\* A command that stays within one page does in the part what it aims at.
Fits(c) ==
  \/ c.kind = "erase"
  \/ /\ c.kind = "program" /\ c.at \in Nat /\ c.buf \in Seq({0, 1}) /\ c.len = Len(c.buf)
     /\ (c.at % PageSize) + c.len <= PageSize /\ c.at + c.len <= ChipSize

LEMMA FitEffects ==
  ASSUME NEW c, Fits(c) PROVE ChipEffects(c) = Effects(c)
<1>1. CASE c.kind = "erase"
  BY <1>1 DEF ChipEffects
<1>2. CASE c.kind = "program"
  <2>0. /\ c.at \in Nat /\ c.len \in Nat /\ PageSize \in Nat \ {0} /\ ChipSize \in Nat
        /\ (c.at % PageSize) + c.len <= PageSize /\ c.at + c.len <= ChipSize
    BY <1>2, SizesHold DEF Fits, Sizes
  <2>1. \A i \in 1 .. c.len : Wrap(c.at) + ((c.at + i - 1) % PageSize) = c.at + i - 1
    <3> SUFFICES ASSUME NEW i \in 1 .. c.len
                 PROVE  Wrap(c.at) + ((c.at + i - 1) % PageSize) = c.at + i - 1
      OBVIOUS
    <3>1. i - 1 \in Nat /\ c.at + i - 1 = c.at + (i - 1)
      BY <2>0
    <3>2. c.at % PageSize \in 0 .. PageSize - 1 /\ c.at = Wrap(c.at) + (c.at % PageSize)
          /\ Wrap(c.at) \in Nat
      BY <2>0, WrapFacts
    <3>3. (c.at % PageSize) + (i - 1) < PageSize
      BY <2>0, <3>1, <3>2
    <3>4. (c.at + (i - 1)) % PageSize = (c.at % PageSize) + (i - 1)
      BY <2>0, <3>1, <3>3, WrapFacts
    <3> QED BY <2>0, <3>1, <3>2, <3>4
  <2>2. ChipEffects(c) = {<<c.at + i - 1, 0>> : i \in {j \in 1 .. c.len : c.buf[j] = 0}}
    BY <1>2, <2>1 DEF ChipEffects
  <2>3. Effects(c) = {<<x, 0>> : x \in {y \in Span(c) : c.buf[y - c.at + 1] = 0}}
    BY <1>2 DEF Effects
  <2>4. \A i \in 1 .. c.len : /\ c.at + i - 1 \in Span(c)
                              /\ (c.at + i - 1) - c.at + 1 = i
    BY <2>0 DEF Span, Cells
  <2>5. \A x \in Span(c) : x - c.at + 1 \in 1 .. c.len /\ c.at + (x - c.at + 1) - 1 = x
    BY <2>0 DEF Span, Cells
  <2>6. ChipEffects(c) \subseteq Effects(c)
    BY <2>2, <2>3, <2>4
  <2>7. Effects(c) \subseteq ChipEffects(c)
    BY <2>2, <2>3, <2>5
  <2> QED BY <2>6, <2>7
<1> QED BY <1>1, <1>2 DEF Fits

-----------------------------------------------------------------------------
(* The call in hand: what the program counter says of it.                     *)

CallKept ==
  /\ call \in {c \in Calls : Valid(c)} \cup {Idle}
  /\ call = Idle <=> pc = "idle"
  /\ pc = "read" <=> call.kind = "read"
  /\ call # Idle => done \in 0 .. call.len - 1
  /\ (call = Idle \/ call.kind = "erase") => done = 0
  /\ call.kind # "program" => sent = 0 /\ commands = <<>>
  /\ call.kind # "read" => got = <<>>
  /\ pc \in {"idle", "enable", "latched", "read"} => sent = 0
  /\ pc = "command" /\ call.kind = "program" => sent \in 0 .. PageLength - 1
  /\ pc = "wait" /\ call.kind = "program" => sent \in 0 .. PageLength
  /\ pc # "wait" => status = "ok"

\* The facts of a call being served that CallFacts and PageFacts give.
LEMMA Serving ==
  ASSUME CallKept, pc # "idle"
  PROVE  /\ call \in Calls /\ Valid(call) /\ call # Idle
         /\ call.kind \in {"program", "erase", "read"}
         /\ call.at \in Nat /\ call.len \in Nat \ {0} /\ done \in 0 .. call.len - 1
         /\ call.kind = "program" => call.buf \in Seq({0, 1}) /\ call.len = Len(call.buf)
         /\ call.kind # "erase" => call.at + call.len <= ChipSize
         /\ PageLength \in 1 .. PageSize /\ done + PageLength <= call.len
         /\ ((call.at + done) % PageSize) + PageLength <= PageSize
         /\ done + PageLength < call.len =>
              Wrap(call.at + done + PageLength) = Wrap(call.at + done) + PageSize
<1>1. call \in Calls /\ Valid(call) /\ done \in 0 .. call.len - 1 /\ call # Idle
  BY DEF CallKept
<1>2. /\ call.kind \in {"program", "erase", "read"}
      /\ call.at \in Nat /\ call.len \in Nat \ {0}
      /\ call.kind = "program" => call.buf \in Seq({0, 1}) /\ call.len = Len(call.buf)
      /\ call.kind # "erase" => call.at + call.len <= ChipSize
  BY <1>1, CallFacts
<1>3. /\ PageLength \in Nat \ {0} /\ done + PageLength <= call.len
      /\ ((call.at + done) % PageSize) + PageLength <= PageSize
      /\ done + PageLength < call.len =>
           Wrap(call.at + done + PageLength) = Wrap(call.at + done) + PageSize
  <2> DEFINE a == call.at + done
  <2>1. a \in Nat /\ done \in Nat /\ call.len \in Nat /\ done < call.len
    BY <1>1, <1>2
  <2> HIDE DEF a
  <2>2. /\ PageLength \in Nat \ {0} /\ done + PageLength <= call.len
        /\ (a % PageSize) + PageLength <= PageSize
        /\ done + PageLength < call.len => Wrap(a + PageLength) = Wrap(a) + PageSize
    BY <2>1, PageFacts DEF a
  <2> QED BY <2>2 DEF a
<1>4. (call.at + done) % PageSize \in Nat /\ PageSize \in Nat
  <2>1. call.at + done \in Nat /\ PageSize \in Nat \ {0}
    BY <1>1, <1>2, SizesHold DEF Sizes
  <2> QED BY <2>1, Division
<1>5. PageLength \in 1 .. PageSize
  BY <1>3, <1>4
<1> QED BY <1>1, <1>2, <1>3, <1>5

\* The next bufferload moves on, and not past the page's share.
LEMMA NextSentFacts ==
  ASSUME CallKept, pc = "command", call.kind = "program"
  PROVE  /\ NextSent \in 1 .. PageLength /\ sent < NextSent
         /\ ~KeepCs => NextSent = PageLength
         /\ KeepCs => NextSent \in 1 .. PageLength - 1
<1>1. PageLength \in Nat \ {0} /\ sent \in 0 .. PageLength - 1
  BY Serving DEF CallKept
<1>2. LoadMax \in Nat \ {0}
  BY SizesHold DEF Sizes, LoadMax
<1>3. NextSent = IF PageLength - sent < LoadMax THEN PageLength ELSE sent + LoadMax
  BY DEF NextSent
<1>4. NextSent \in 1 .. PageLength /\ sent < NextSent
  BY <1>1, <1>2, <1>3
<1> QED BY <1>1, <1>4 DEF KeepCs

\* The steps that end a call with an error.
FailStep == WriteProtected \/ EnableTimesOut \/ EraseTimesOut \/ PollGivesUp \/ ReadTimesOut

LEMMA FailReturns ==
  ASSUME FailStep
  PROVE  /\ \E s \in {"timeout", "protected"} : Return(s, <<>>)
         /\ csHeld' = FALSE /\ mem' = mem /\ pc # "idle"
BY DEF FailStep, WriteProtected, EnableTimesOut, EraseTimesOut, PollGivesUp, ReadTimesOut,
       Succeeds, TimesOut

\* What a command sent to the part starts there, if anything.
LEMMA Sends ==
  ASSUME CallKept, SendLoad \/ LoadTimesOut \/ SendErase
  PROVE  \/ running' = running /\ inherited' = inherited
         \/ /\ running = Idle /\ wel /\ inherited' = FALSE /\ pc' = "wait"
            /\ \/ /\ call.kind = "program"
                  /\ \E n \in {sent, NextSent} : n # 0 /\ running' = PageCommand(n)
               \/ call.kind = "erase" /\ running' = call
<1>1. CASE SendLoad
  <2>1. CASE KeepCs
    BY <1>1, <2>1 DEF SendLoad
  <2>2. CASE ~KeepCs
    <3>1. NextSent # 0
      BY <1>1, NextSentFacts DEF SendLoad
    <3> QED BY <1>1, <2>2, <3>1 DEF SendLoad, Execute
  <2> QED BY <2>1, <2>2
<1>2. CASE LoadTimesOut
  <2>1. PICK n \in {sent, NextSent} : IF n = 0 THEN UNCHANGED <<running, inherited, commands>>
                                               ELSE Execute(PageCommand(n))
    BY <1>2 DEF LoadTimesOut
  <2> QED BY <1>2, <2>1 DEF Execute, LoadTimesOut
<1>3. CASE SendErase
  BY <1>3 DEF SendErase, Execute
<1> QED BY <1>1, <1>2, <1>3

LEMMA ReturnKeeps ==
  ASSUME NEW s, NEW d, Return(s, d)
  PROVE  CallKept'
BY DEF CallKept, Return, Idle

LEMMA CallKeptInit == Init => CallKept
BY DEF Init, CallKept, Idle

LEMMA CallKeptNext ==
  ASSUME CallKept, [Next]_vars
  PROVE  CallKept'
<1> USE DEF CallKept
<1>1. CASE UNCHANGED vars
  BY <1>1 DEF vars, caller, work, PageLength
<1>2. ASSUME NEW c \in Calls, Begin(c) PROVE CallKept'
  <2>1. /\ c.kind \in {"program", "erase", "read"} /\ c.len \in Nat \ {0} /\ c # Idle
        /\ Valid(c)
    BY <1>2, CallFacts DEF Begin
  <2>2. call' = c /\ UNCHANGED work /\ call = Idle
        /\ pc' = IF c.kind = "read" THEN "read" ELSE "enable"
    BY <1>2 DEF Begin
  <2>3. done' = 0 /\ sent' = 0 /\ got' = <<>> /\ commands' = <<>> /\ status' = "ok"
    BY <1>2, <2>2 DEF Begin, work, Idle
  <2> QED BY <2>1, <2>2, <2>3
<1>3. ASSUME NEW c \in Calls, Refuse(c) PROVE CallKept'
  BY <1>3 DEF Refuse, work, PageLength
<1>4. CASE Complete
  BY <1>4 DEF Complete, caller, work, PageLength
<1>5. CASE WriteEnable \/ WriteEnabled
  <2>1. /\ UNCHANGED <<call, work>> /\ pc \in {"enable", "latched"}
        /\ pc' \in {"latched", "command"}
    BY <1>5 DEF WriteEnable, WriteEnabled, caller
  <2>2. PageLength \in Nat \ {0} /\ call.kind # "read"
    BY <2>1, Serving
  <2>3. PageLength' = PageLength
    BY <2>1 DEF PageLength, work
  <2> QED BY <2>1, <2>2, <2>3 DEF work
<1>6. CASE FailStep
  BY <1>6, FailReturns, ReturnKeeps
<1>7. CASE SendLoad
  <2>1. /\ UNCHANGED <<call, done, got, status>> /\ pc = "command" /\ call.kind = "program"
        /\ sent' = NextSent
        /\ IF KeepCs THEN pc' = pc ELSE pc' = "wait"
    BY <1>7 DEF SendLoad, caller
  <2>2. /\ NextSent \in 1 .. PageLength
        /\ KeepCs => NextSent \in 1 .. PageLength - 1
    BY <2>1, NextSentFacts
  <2>3. PageLength' = PageLength
    BY <2>1 DEF PageLength
  <2> QED BY <2>1, <2>2, <2>3
<1>8. CASE LoadTimesOut
  <2>1. /\ UNCHANGED <<call, done, got, sent>> /\ pc = "command" /\ call.kind = "program"
        /\ pc' = "wait"
    BY <1>8 DEF LoadTimesOut, caller
  <2>2. PageLength' = PageLength /\ PageLength \in Nat
    BY <2>1, Serving DEF PageLength
  <2> QED BY <2>1, <2>2
<1>9. CASE SendErase
  BY <1>9 DEF SendErase, caller, work
<1>10. CASE PollReady
  <2>1. CASE \E s : Return(s, <<>>)
    BY <2>1, ReturnKeeps
  <2>2. CASE ~(\E s : Return(s, <<>>))
    <3>1. /\ status = "ok" /\ call.kind = "program" /\ done + PageLength < call.len
          /\ done' = done + PageLength /\ sent' = 0 /\ pc' = "enable"
          /\ UNCHANGED <<call, got, status, commands>> /\ pc = "wait"
      BY <1>10, <2>2 DEF PollReady, caller
    <3>2. PageLength \in Nat \ {0} /\ done \in Nat /\ call.len \in Nat /\ call # Idle
      BY <3>1, Serving
    <3> QED BY <3>1, <3>2
  <2> QED BY <2>1, <2>2
<1>11. CASE PollBusy
  BY <1>11 DEF PollBusy, caller, PageLength
<1>12. CASE ReadLoad
  <2>1. CASE \E d : Return("ok", d)
    BY <2>1, ReturnKeeps
  <2>2. CASE ~(\E d : Return("ok", d))
    <3>1. /\ UNCHANGED <<call, sent, commands, status, pc>> /\ pc = "read"
          /\ done' = done + ReadLength /\ done + ReadLength < call.len
      BY <1>12, <2>2 DEF ReadLoad, caller
    <3>2. /\ ReadLength = IF call.len - done < CommandMax THEN call.len - done ELSE CommandMax
          /\ CommandMax \in Nat \ {0} /\ done \in Nat /\ call.len \in Nat /\ call # Idle
          /\ done < call.len
      BY <3>1, Serving, SizesHold DEF ReadLength, Sizes
    <3> QED BY <3>1, <3>2
  <2> QED BY <2>1, <2>2
<1> QED
  BY <1>1, <1>2, <1>3, <1>4, <1>5, <1>6, <1>7, <1>8, <1>9, <1>10, <1>11, <1>12
     DEF Next, Transfer, FailStep

-----------------------------------------------------------------------------
(* Types.                                                                     *)

LEMMA ContentsType == Contents \subseteq [Cells -> {0, 1}]
BY SizesHold DEF Sizes

\* Whatever lands, cells stay bits.
LEMMA LandType ==
  ASSUME NEW m \in [Cells -> {0, 1}], NEW E
  PROVE  Land(m, E) \in [Cells -> {0, 1}]
BY DEF Land

\* The bookkeeping of faults, polls and replies.
Books ==
  /\ mem \in [Cells -> {0, 1}]
  /\ wel \in BOOLEAN /\ csHeld \in BOOLEAN
  /\ running.kind \in {"none", "program", "erase"}
  /\ pc \in {"idle", "enable", "latched", "command", "wait", "read"}
  /\ polls \in 0 .. MaxPolls - 1 /\ faults \in 0 .. MaxFaults
  /\ status \in {"ok", "timeout"}
  /\ reply.status \in {"none", "ok", "invalid", "timeout", "protected"}

LEMMA BooksInit == Init => Books
<1> SUFFICES ASSUME Init PROVE Books
  OBVIOUS
<1>1. mem \in [Cells -> {0, 1}] /\ 0 \in 0 .. MaxPolls - 1 /\ 0 \in 0 .. MaxFaults
  BY SizesHold DEF Init, Sizes
<1> QED BY <1>1 DEF Init, Books, Idle, NoReply

\* A bufferload that times out is counted.
LEMMA FaultCounted ==
  ASSUME faults \in 0 .. MaxFaults, UNCHANGED faults \/ TimesOut
  PROVE  faults' \in 0 .. MaxFaults
BY SizesHold DEF Sizes, TimesOut

LEMMA ReturnBooks ==
  ASSUME Books, NEW s \in {"ok", "timeout", "protected"}, NEW d, Return(s, d), mem' = mem,
         csHeld' = FALSE, wel' \in BOOLEAN, running'.kind \in {"none", "program", "erase"},
         UNCHANGED faults \/ TimesOut
  PROVE  Books'
<1>1. faults' \in 0 .. MaxFaults
  BY FaultCounted DEF Books
<1>2. polls' \in 0 .. MaxPolls - 1
  BY SizesHold DEF Return, Sizes
<1> QED BY <1>1, <1>2 DEF Books, Return

LEMMA BooksNext ==
  ASSUME CallKept, Books, [Next]_vars
  PROVE  Books'
<1>1. CASE UNCHANGED vars
  BY <1>1 DEF Books, vars, chip, caller, work
<1>2. ASSUME NEW c \in Calls, Begin(c) \/ Refuse(c) PROVE Books'
  BY <1>2 DEF Books, Begin, Refuse, NoReply, chip, work
<1>3. CASE Complete
  <2>1. mem' \in [Cells -> {0, 1}]
    BY <1>3, LandType DEF Complete, Books
  <2> QED BY <1>3, <2>1 DEF Books, Complete, caller, work, Idle
<1>4. CASE WriteEnable \/ WriteEnabled
  BY <1>4 DEF Books, WriteEnable, WriteEnabled, Succeeds, caller, work, chip
<1>5. CASE FailStep
  <2>1. PICK s \in {"timeout", "protected"} : Return(s, <<>>)
    BY <1>5, FailReturns
  <2>2. csHeld' = FALSE /\ mem' = mem
    BY <1>5, FailReturns
  <2>3. wel' \in BOOLEAN /\ (UNCHANGED faults \/ TimesOut)
    BY <1>5 DEF FailStep, WriteProtected, EnableTimesOut, EraseTimesOut, PollGivesUp,
                ReadTimesOut, Succeeds, Books
  <2>4. running'.kind \in {"none", "program", "erase"}
    <3>1. CASE UNCHANGED running
      BY <3>1 DEF Books
    <3>2. CASE ~UNCHANGED running
      BY <1>5, <3>2 DEF FailStep, WriteProtected, EnableTimesOut, EraseTimesOut, PollGivesUp,
                        ReadTimesOut, LeaveBehind
    <3> QED BY <3>1, <3>2
  <2> QED BY <2>1, <2>2, <2>3, <2>4, ReturnBooks
<1>6. CASE SendLoad \/ LoadTimesOut \/ SendErase
  <2>1. running'.kind \in {"none", "program", "erase"}
    <3>1. \A n : PageCommand(n).kind = "program"
      BY DEF PageCommand, Program
    <3> QED BY <1>6, <3>1, Sends DEF Books
  <2>2. faults' \in 0 .. MaxFaults
    BY <1>6, FaultCounted DEF SendLoad, LoadTimesOut, SendErase, Succeeds, Books
  <2>3. csHeld' \in BOOLEAN
    <3>1. CASE SendLoad
      <4>1. csHeld' = (NextSent < PageLength) /\ pc = "command" /\ call.kind = "program"
        BY <3>1 DEF SendLoad, Succeeds, KeepCs
      <4>2. NextSent \in Int /\ PageLength \in Int
        BY <4>1, NextSentFacts, Serving
      <4> QED BY <4>1, <4>2
    <3>2. CASE LoadTimesOut \/ SendErase
      BY <3>2 DEF LoadTimesOut, SendErase, Succeeds, TimesOut
    <3> QED BY <1>6, <3>1, <3>2
  <2> QED
    BY <1>6, <2>1, <2>2, <2>3 DEF SendLoad, LoadTimesOut, SendErase, Books, caller, work
<1>7. CASE PollReady \/ ReadLoad
  <2>1. CASE \E s \in {"ok", "timeout"} : \E d : Return(s, d)
    BY <1>7, <2>1, ReturnBooks
       DEF PollReady, ReadLoad, LeaveBehind, Succeeds, Books
  <2>2. CASE ~(\E s \in {"ok", "timeout"} : \E d : Return(s, d))
    <3>1. status \in {"ok", "timeout"} /\ 0 \in 0 .. MaxPolls - 1
      BY SizesHold DEF Books, Sizes
    <3> QED BY <1>7, <2>2, <3>1 DEF PollReady, ReadLoad, Succeeds, Books, caller
  <2> QED BY <2>1, <2>2
<1>8. CASE PollBusy
  <2>1. polls' \in 0 .. MaxPolls - 1
    BY <1>8, SizesHold DEF PollBusy, Books, Sizes
  <2> QED BY <1>8, <2>1 DEF PollBusy, Succeeds, Books, chip, caller
<1> QED
  BY <1>1, <1>2, <1>3, <1>4, <1>5, <1>6, <1>7, <1>8 DEF Next, Transfer, FailStep

\* The book-keeping of a call never leaves its ranges.
THEOREM TypeCorrect == Spec => []TypeOK
<1>1. Init => CallKept /\ Books
  BY CallKeptInit, BooksInit
<1>2. CallKept /\ Books /\ [Next]_vars => (CallKept /\ Books)'
  BY CallKeptNext, BooksNext
<1>3. CallKept /\ Books => TypeOK
  <2> SUFFICES ASSUME CallKept, Books PROVE TypeOK
    OBVIOUS
  <2>1. done \in 0 .. call.len /\ sent \in 0 .. PageSize
    <3>1. CASE pc = "idle"
      BY <3>1, SizesHold DEF CallKept, Idle, Sizes
    <3>2. CASE pc # "idle"
      BY <3>2, Serving, SizesHold DEF CallKept, Sizes, Books
    <3> QED BY <3>1, <3>2
  <2> QED BY <2>1 DEF CallKept, Books, TypeOK
<1> QED BY <1>1, <1>2, <1>3, PTL DEF Spec

-----------------------------------------------------------------------------
(* Commands are framed.                                                       *)

\* The pages a call has sent a program command to: all before the page it is
\* at, which joins them when its command is sent.
PagesSent ==
  /\ commands \in Seq(Int)
  /\ \A i \in DOMAIN commands :
       IF pc = "wait" THEN commands[i] <= Wrap(call.at + done)
                      ELSE commands[i] < Wrap(call.at + done)
  /\ \A i, j \in DOMAIN commands : i < j => commands[i] < commands[j]

LEMMA NothingSent ==
  ASSUME commands' = <<>> PROVE PagesSent'
BY DEF PagesSent

\* A page's own command is the next of an increasing list.
LEMMA PageSent ==
  ASSUME PagesSent, pc = "command", pc' = "wait", UNCHANGED <<call, done>>,
         Wrap(call.at + done) \in Nat,
         commands' \in {commands, Append(commands, Wrap(call.at + done))}
  PROVE  PagesSent'
<1> DEFINE w == Wrap(call.at + done)
<1>0. Wrap(call'.at + done') = w /\ w \in Nat /\ commands \in Seq(Int)
  BY DEF PagesSent
<1>1. CASE commands' = commands
  BY <1>0, <1>1 DEF PagesSent
<1>2. CASE commands' = Append(commands, w)
  <2> HIDE DEF w
  <2>1. /\ commands' \in Seq(Int) /\ Len(commands') = Len(commands) + 1
        /\ \A i \in 1 .. Len(commands) : commands'[i] = commands[i]
        /\ commands'[Len(commands) + 1] = w
    BY <1>0, <1>2, Extended
  <2>2. \A i \in 1 .. Len(commands) : commands[i] < w /\ commands[i] \in Int
    BY <1>0 DEF PagesSent, w
  <2>3. \A i, j \in 1 .. Len(commands) : i < j => commands[i] < commands[j]
    BY <1>0 DEF PagesSent
  <2>4. \A i \in DOMAIN commands' : commands'[i] <= w
    <3> SUFFICES ASSUME NEW i \in DOMAIN commands' PROVE commands'[i] <= w
      OBVIOUS
    <3>1. i \in 1 .. Len(commands) + 1 /\ Len(commands) \in Nat
      BY <1>0, <2>1
    <3>2. CASE i \in 1 .. Len(commands)
      BY <1>0, <2>1, <2>2, <3>2
    <3>3. CASE i = Len(commands) + 1
      BY <1>0, <2>1, <3>3
    <3> QED BY <3>1, <3>2, <3>3
  <2>5. \A i, j \in DOMAIN commands' : i < j => commands'[i] < commands'[j]
    <3> SUFFICES ASSUME NEW i \in DOMAIN commands', NEW j \in DOMAIN commands', i < j
                 PROVE  commands'[i] < commands'[j]
      OBVIOUS
    <3>1. i \in 1 .. Len(commands) /\ j \in 1 .. Len(commands) + 1 /\ Len(commands) \in Nat
      BY <1>0, <2>1
    <3>2. CASE j \in 1 .. Len(commands)
      BY <2>1, <2>3, <3>1, <3>2
    <3>3. CASE j = Len(commands) + 1
      BY <2>1, <2>2, <3>1, <3>3
    <3> QED BY <3>1, <3>2, <3>3
  <2> QED BY <1>0, <2>1, <2>4, <2>5 DEF PagesSent
<1> QED BY <1>1, <1>2

LEMMA PagesSentNext ==
  ASSUME CallKept, PagesSent, [Next]_vars
  PROVE  PagesSent'
<1>0. pc # "idle" => Wrap(call.at + done) \in Nat
  <2>1. pc # "idle" => call.at + done \in Nat
    BY Serving
  <2> QED BY <2>1, WrapFacts
<1>1. CASE UNCHANGED vars
  BY <1>1 DEF PagesSent, vars, caller, work, Wrap
<1>2. ASSUME NEW c \in Calls, Begin(c) PROVE PagesSent'
  <2>1. commands' = <<>>
    BY <1>2 DEF Begin, work, CallKept, Idle
  <2> QED BY <2>1, NothingSent
<1>3. ASSUME NEW c \in Calls, Refuse(c) PROVE PagesSent'
  BY <1>3 DEF PagesSent, Refuse, work, Wrap
<1>4. CASE Complete
  BY <1>4 DEF PagesSent, Complete, caller, work, Wrap
<1>5. CASE WriteEnable \/ WriteEnabled
  BY <1>5 DEF PagesSent, WriteEnable, WriteEnabled, caller, work, Wrap
<1>6. CASE FailStep
  BY <1>6, FailReturns, NothingSent DEF Return
<1>7. CASE SendLoad
  <2>1. CASE KeepCs
    BY <1>7, <2>1 DEF PagesSent, SendLoad, caller, Wrap
  <2>2. CASE ~KeepCs
    <3>1. /\ pc = "command" /\ pc' = "wait" /\ UNCHANGED <<call, done>>
          /\ commands' = Append(commands, Wrap(call.at + done))
      BY <1>7, <2>2 DEF SendLoad, caller
    <3> QED BY <1>0, <3>1, PageSent
  <2> QED BY <2>1, <2>2
<1>8. CASE LoadTimesOut
  <2>1. /\ pc = "command" /\ pc' = "wait" /\ UNCHANGED <<call, done>>
        /\ commands' \in {commands, Append(commands, Wrap(call.at + done))}
    BY <1>8 DEF LoadTimesOut, caller
  <2> QED BY <1>0, <2>1, PageSent
<1>9. CASE SendErase
  <2>1. commands' = <<>>
    BY <1>9 DEF SendErase, CallKept, work
  <2> QED BY <2>1, NothingSent
<1>10. CASE PollReady
  <2>1. CASE \E s : Return(s, <<>>)
    BY <2>1, NothingSent DEF Return
  <2>2. CASE ~(\E s : Return(s, <<>>))
    <3>1. /\ done + PageLength < call.len /\ call.kind = "program"
          /\ done' = done + PageLength /\ pc' = "enable"
          /\ UNCHANGED <<call, commands>> /\ pc = "wait"
      BY <1>10, <2>2 DEF PollReady, caller
    <3>2. /\ Wrap(call.at + done + PageLength) = Wrap(call.at + done) + PageSize
          /\ call.at \in Nat /\ done \in Nat /\ PageLength \in Nat
      BY <3>1, Serving
    <3>3. Wrap(call.at + done) \in Nat /\ PageSize \in Nat \ {0}
      BY <1>0, <3>1, SizesHold DEF Sizes
    <3>4. Wrap(call'.at + done') = Wrap(call.at + done) + PageSize
      <4>1. call.at + (done + PageLength) = call.at + done + PageLength
        BY <3>2
      <4> QED BY <3>1, <3>2, <4>1
    <3>5. \A i \in DOMAIN commands : commands[i] \in Int /\ commands[i] <= Wrap(call.at + done)
      BY <3>1 DEF PagesSent
    <3>6. \A i \in DOMAIN commands : commands[i] < Wrap(call'.at + done')
      BY <3>3, <3>4, <3>5
    <3> QED BY <3>1, <3>6 DEF PagesSent
  <2> QED BY <2>1, <2>2
<1>11. CASE PollBusy
  BY <1>11 DEF PagesSent, PollBusy, caller, Wrap
<1>12. CASE ReadLoad
  <2>1. commands' = <<>>
    BY <1>12 DEF ReadLoad, Return, CallKept
  <2> QED BY <2>1, NothingSent
<1> QED
  BY <1>1, <1>2, <1>3, <1>4, <1>5, <1>6, <1>7, <1>8, <1>9, <1>10, <1>11, <1>12
     DEF Next, Transfer, FailStep

LEMMA ChipSelectNext ==
  ASSUME CallKept, ChipSelectFramesOneCommand, [Next]_vars
  PROVE  ChipSelectFramesOneCommand'
<1> USE DEF ChipSelectFramesOneCommand
<1>1. CASE UNCHANGED vars
  BY <1>1 DEF vars, caller, work
<1>2. ASSUME NEW c \in Calls, Begin(c) \/ Refuse(c) PROVE ChipSelectFramesOneCommand'
  BY <1>2 DEF Begin, Refuse, work
<1>3. CASE Complete
  BY <1>3 DEF Complete, caller, work
<1>4. CASE WriteEnable \/ WriteEnabled
  <2>1. sent' = 0 /\ csHeld' = FALSE
    BY <1>4 DEF WriteEnable, WriteEnabled, Succeeds, work, CallKept
  <2> QED BY <2>1
<1>5. CASE FailStep
  BY <1>5, FailReturns DEF Return
<1>6. CASE SendLoad
  <2>1. /\ pc = "command" /\ call.kind = "program" /\ call' = call /\ sent' = NextSent
        /\ csHeld' = KeepCs /\ pc' = IF KeepCs THEN "command" ELSE "wait"
    BY <1>6 DEF SendLoad, Succeeds, caller
  <2>2. NextSent \in Nat \ {0}
    BY <2>1, NextSentFacts, Serving
  <2>3. sent' > 0
    BY <2>1, <2>2
  <2>4. CASE KeepCs
    BY <2>1, <2>3, <2>4
  <2>5. CASE ~KeepCs
    BY <2>1, <2>5
  <2> QED BY <2>4, <2>5
<1>7. CASE LoadTimesOut \/ SendErase
  BY <1>7 DEF LoadTimesOut, SendErase, TimesOut, Succeeds
<1>8. CASE PollReady \/ PollBusy
  BY <1>8 DEF PollReady, PollBusy, Succeeds, Return
<1>9. CASE ReadLoad
  BY <1>9 DEF ReadLoad, Succeeds, Return
<1> QED
  BY <1>1, <1>2, <1>3, <1>4, <1>5, <1>6, <1>7, <1>8, <1>9 DEF Next, Transfer, FailStep

\* For any page, bufferload and buffer size and any time-outs: chip select is
\* held exactly between the bufferloads of one page program, and one call
\* sends at most one program command to a page.
THEOREM FramedCommands == Spec => []CommandsFramed
<1>1. Init => CallKept /\ PagesSent /\ ChipSelectFramesOneCommand
  <2>1. Init => PagesSent /\ ChipSelectFramesOneCommand
    BY DEF Init, PagesSent, ChipSelectFramesOneCommand
  <2> QED BY <2>1, CallKeptInit
<1>2. CallKept /\ PagesSent /\ ChipSelectFramesOneCommand /\ [Next]_vars
        => (CallKept /\ PagesSent /\ ChipSelectFramesOneCommand)'
  BY CallKeptNext, PagesSentNext, ChipSelectNext
<1>3. PagesSent => OneCommandPerPage
  <2> SUFFICES ASSUME PagesSent, NEW i \in DOMAIN commands, NEW j \in DOMAIN commands,
                      commands[i] = commands[j]
               PROVE  i = j
    BY DEF OneCommandPerPage
  <2>1. i \in Int /\ j \in Int /\ commands[i] \in Int
    BY DEF PagesSent
  <2> QED BY <2>1 DEF PagesSent
<1> QED BY <1>1, <1>2, <1>3, PTL DEF Spec, CommandsFramed

-----------------------------------------------------------------------------
(* The part works for the call in hand, or for one that is over.              *)

\* A running command that no earlier call left behind is a page or the sector
\* of the call being served, which is waiting for it; a call that found the
\* part idle has it for itself.
Outstanding ==
  /\ running # Idle => Fits(running)
  /\ running # Idle /\ ~inherited => pc = "wait" /\ running \in Contract!Parts(call)
  /\ inherited => running # Idle
  /\ inherited \in BOOLEAN
  /\ clean /\ pc # "idle" => /\ ~inherited
                             /\ pc # "wait" => running = Idle
                             /\ pc = "command" => wel

LEMMA PageCommandFacts ==
  ASSUME CallKept, pc = "command" \/ pc = "wait", call.kind = "program",
         NEW n \in 1 .. PageLength
  PROVE  /\ PageCommand(n) # Idle /\ Fits(PageCommand(n))
         /\ PageCommand(n) \in Contract!Parts(call)
<1>1. /\ call.at \in Nat /\ call.len \in Nat /\ done \in Nat /\ n \in Nat \ {0}
      /\ call.buf \in Seq({0, 1}) /\ call.len = Len(call.buf) /\ call.at + call.len <= ChipSize
      /\ PageLength \in Nat /\ n <= PageLength /\ done + PageLength <= call.len
      /\ ((call.at + done) % PageSize) + PageLength <= PageSize
  BY Serving
<1>2. done + n <= Len(call.buf)
  BY <1>1
<1>3. /\ SubSeq(call.buf, done + 1, done + n) \in Seq({0, 1})
      /\ Len(SubSeq(call.buf, done + 1, done + n)) = n
  BY <1>1, <1>2, Slice
<1>4. PageCommand(n).kind = "program" /\ PageCommand(n).len = n
      /\ PageCommand(n).at = call.at + done
      /\ PageCommand(n).buf = SubSeq(call.buf, done + 1, done + n)
  BY <1>3 DEF PageCommand, Program
<1>5. Fits(PageCommand(n))
  <2>1. (call.at + done) % PageSize \in Int /\ PageSize \in Int
    <3>1. call.at + done \in Nat /\ PageSize \in Nat \ {0}
      BY <1>1, SizesHold DEF Sizes
    <3>2. (call.at + done) % PageSize \in 0 .. PageSize - 1
      BY <3>1, Division
    <3> QED BY <3>1, <3>2
  <2>2. PageCommand(n).at \in Nat /\ PageCommand(n).at + PageCommand(n).len <= ChipSize
    <3>1. call.at + done \in Nat /\ call.at + done + n <= ChipSize
      <4>1. done + n <= call.len /\ ChipSize \in Nat
        BY <1>1, SizesHold DEF Sizes
      <4>2. call.at \in Nat /\ call.len \in Nat /\ done \in Nat /\ n \in Nat
            /\ call.at + call.len <= ChipSize
        BY <1>1
      <4> QED BY <4>1, <4>2
    <3> QED BY <1>4, <3>1
  <2>3. PageCommand(n).at % PageSize = (call.at + done) % PageSize
    BY <1>4
  <2>4. (PageCommand(n).at % PageSize) + PageCommand(n).len <= PageSize
    BY <1>1, <1>4, <2>1, <2>3
  <2> QED BY <1>3, <1>4, <2>2, <2>4 DEF Fits
<1>6. PageCommand(n) \in Contract!Parts(call)
  <2>1. done + 1 \in 1 .. call.len /\ done + n \in 1 .. call.len
        /\ call.at + (done + 1) - 1 = call.at + done
    BY <1>1
  <2>2. PageCommand(n) = Contract!Program(call.at + (done + 1) - 1,
                                          SubSeq(call.buf, done + 1, done + n))
    BY <2>1 DEF PageCommand, Program, Contract!Program
  <2> QED BY <2>1, <2>2 DEF Contract!Parts
<1>7. PageCommand(n) # Idle
  BY <1>4 DEF Idle
<1> QED BY <1>5, <1>6, <1>7

LEMMA OutstandingReturn ==
  ASSUME Outstanding, NEW s, NEW d, Return(s, d), LeaveBehind
  PROVE  Outstanding'
<1>1. /\ running' = running /\ pc' = "idle" /\ inherited' = (running # Idle)
  BY DEF Return, LeaveBehind
<1>2. (running # Idle => Fits(running))'
  BY <1>1 DEF Outstanding, Fits
<1> QED BY <1>1, <1>2 DEF Outstanding

LEMMA OutstandingNext ==
  ASSUME CallKept, Outstanding, [Next]_vars
  PROVE  Outstanding'
<1>0. running' = running => (Fits(running) => Fits(running)')
  BY DEF Fits
<1>1. CASE UNCHANGED vars
  BY <1>0, <1>1 DEF Outstanding, vars, chip, caller, work
<1>2. ASSUME NEW c \in Calls, Begin(c) PROVE Outstanding'
  <2>1. /\ running' = running /\ inherited' = inherited /\ clean' = (running = Idle)
        /\ pc = "idle" /\ pc' \in {"read", "enable"}
    BY <1>2 DEF Begin, chip
  <2> QED BY <1>0, <2>1 DEF Outstanding
<1>3. ASSUME NEW c \in Calls, Refuse(c) PROVE Outstanding'
  BY <1>0, <1>3 DEF Outstanding, Refuse, chip
<1>4. CASE Complete
  BY <1>4 DEF Outstanding, Complete, caller
<1>5. CASE WriteEnable \/ WriteEnabled
  <2>1. /\ running' = running /\ inherited' = inherited /\ UNCHANGED <<call, clean>>
        /\ pc \in {"enable", "latched"} /\ pc' \in {"latched", "command"}
    BY <1>5 DEF WriteEnable, WriteEnabled, caller, chip
  <2>2. pc' = "command" => wel'
    BY <1>5 DEF WriteEnable, WriteEnabled, chip
  <2> QED BY <1>0, <2>1, <2>2 DEF Outstanding
<1>6. CASE FailStep
  <2>1. CASE LeaveBehind
    BY <1>6, <2>1, FailReturns, OutstandingReturn
  <2>2. CASE ~LeaveBehind
    <3>1. /\ pc = "command" /\ call.kind = "erase" /\ running' = call /\ inherited' = TRUE
          /\ pc' = "idle"
      BY <1>6, <2>2 DEF FailStep, WriteProtected, EnableTimesOut, EraseTimesOut, PollGivesUp,
                        ReadTimesOut, Return
    <3> QED BY <3>1, Serving DEF Outstanding, Fits
  <2> QED BY <2>1, <2>2
<1>7. CASE SendLoad \/ LoadTimesOut \/ SendErase
  <2>1. /\ pc = "command" /\ pc' \in {"command", "wait"} /\ UNCHANGED <<call, clean, wel>>
    BY <1>7 DEF SendLoad, LoadTimesOut, SendErase, caller
  <2>2. CASE running' = running /\ inherited' = inherited
    BY <1>0, <2>1, <2>2 DEF Outstanding
  <2>3. CASE ~(running' = running /\ inherited' = inherited)
    <3>1. running' # Idle /\ inherited' = FALSE /\ pc' = "wait" /\ Fits(running')
          /\ running' \in Contract!Parts(call)
      <4>1. CASE call.kind = "program"
        <5>1. PICK n \in {sent, NextSent} : n # 0 /\ running' = PageCommand(n)
          BY <1>7, <2>3, <4>1, Sends
        <5>2. n \in 1 .. PageLength
          BY <2>1, <4>1, <5>1, NextSentFacts, Serving DEF CallKept
        <5>3. /\ PageCommand(n) # Idle /\ Fits(PageCommand(n))
              /\ PageCommand(n) \in Contract!Parts(call)
          BY <2>1, <4>1, <5>2, PageCommandFacts
        <5>4. inherited' = FALSE /\ pc' = "wait"
          BY <1>7, <2>3, Sends
        <5> QED BY <5>1, <5>3, <5>4
      <4>2. CASE call.kind = "erase"
        <5>1. running' = call /\ call # Idle
          BY <1>7, <2>1, <2>3, <4>2, Sends, Serving
        <5>2. Fits(running')
          BY <4>2, <5>1 DEF Fits
        <5>3. running' \in Contract!Parts(call)
          BY <4>2, <5>1 DEF Contract!Parts
        <5>4. inherited' = FALSE /\ pc' = "wait"
          BY <1>7, <2>3, Sends
        <5> QED BY <5>1, <5>2, <5>3, <5>4
      <4> QED BY <1>7, <2>3, <4>1, <4>2, Sends
    <3>2. Contract!Parts(call') = Contract!Parts(call)
      BY <2>1
    <3>3. Fits(running)'
      BY <3>1 DEF Fits
    <3> QED BY <2>1, <3>1, <3>2, <3>3 DEF Outstanding
  <2> QED BY <2>2, <2>3
<1>8. CASE PollReady
  <2>1. CASE \E s : Return(s, <<>>) /\ LeaveBehind
    BY <2>1, OutstandingReturn
  <2>2. CASE ~(\E s : Return(s, <<>>) /\ LeaveBehind)
    BY <1>0, <1>8, <2>2 DEF Outstanding, PollReady, caller
  <2> QED BY <2>1, <2>2
<1>9. CASE PollBusy
  BY <1>0, <1>9 DEF Outstanding, PollBusy, caller, chip
<1>10. CASE ReadLoad
  <2>1. CASE \E d : Return("ok", d) /\ LeaveBehind
    BY <2>1, OutstandingReturn
  <2>2. CASE ~(\E d : Return("ok", d) /\ LeaveBehind)
    BY <1>0, <1>10, <2>2 DEF Outstanding, ReadLoad, caller
  <2> QED BY <2>1, <2>2
<1> QED
  BY <1>1, <1>2, <1>3, <1>4, <1>5, <1>6, <1>7, <1>8, <1>9, <1>10
     DEF Next, Transfer, FailStep

-----------------------------------------------------------------------------
(* What a call that found the part idle has done so far.                      *)

\* The first n cells of a program's buffer that clear a bit have landed.
Landed(n) == \A i \in 1 .. n : call.buf[i] = 0 => mem[call.at + i - 1] = 0

ProgramLands ==
  clean /\ call.kind = "program" /\ status = "ok" =>
    /\ Landed(done)
    /\ pc = "wait" => \/ running = PageCommand(PageLength)
                      \/ running = Idle /\ Landed(done + PageLength)

EraseLands ==
  clean /\ call.kind = "erase" /\ pc = "wait" /\ running = Idle =>
    \A x \in Span(call) : mem[x] = 1

ReadTrue ==
  call.kind = "read" =>
    /\ got \in [1 .. done -> {0, 1}]
    /\ clean => \A i \in 1 .. done : got[i] = mem[call.at + i - 1]

\* A page command clears its share of the buffer, and undoes nothing.
LEMMA PageLands ==
  ASSUME CallKept, pc = "wait", call.kind = "program", Landed(done),
         NEW m, m = Land(mem, Effects(PageCommand(PageLength)))
  PROVE  \A i \in 1 .. done + PageLength : call.buf[i] = 0 => m[call.at + i - 1] = 0
<1> DEFINE n == PageLength
           c == PageCommand(n)
<1>1. /\ call.at \in Nat /\ call.len \in Nat /\ done \in Nat /\ n \in Nat \ {0}
      /\ call.buf \in Seq({0, 1}) /\ call.len = Len(call.buf) /\ call.at + call.len <= ChipSize
      /\ done + n <= call.len /\ ChipSize \in Nat
  BY Serving, SizesHold DEF Sizes
<1>2. /\ SubSeq(call.buf, done + 1, done + n) \in Seq({0, 1})
      /\ Len(SubSeq(call.buf, done + 1, done + n)) = n
      /\ \A j \in 1 .. n : SubSeq(call.buf, done + 1, done + n)[j] = call.buf[done + j]
  <2> HIDE DEF n
  <2>1. call.buf \in Seq({0, 1}) /\ done \in Nat /\ n \in Nat /\ done + n <= Len(call.buf)
    BY <1>1
  <2> QED BY <2>1, Slice
<1>3. /\ c.kind = "program" /\ c.len = n /\ c.at = call.at + done
      /\ \A j \in 1 .. n : c.buf[j] = call.buf[done + j]
  BY <1>2 DEF PageCommand, Program
<1>4. SUFFICES ASSUME NEW i \in 1 .. done + n, call.buf[i] = 0
               PROVE  m[call.at + i - 1] = 0
  OBVIOUS
<1> DEFINE x == call.at + i - 1
<1>5. x \in Cells /\ i \in Nat \ {0}
  BY <1>1 DEF Cells
<1> HIDE DEF n, c, x
<1>6. CASE i <= done
  <2>1. mem[x] = 0
    BY <1>1, <1>4, <1>5, <1>6 DEF Landed, x
  <2>2. <<x, 1>> \notin Effects(c)
    BY <1>3 DEF Effects
  <2> QED BY <1>5, <2>1, <2>2 DEF Land, c, n, x
<1>7. CASE i > done
  <2>1. i - done \in 1 .. n /\ x = call.at + done + (i - done) - 1
        /\ x - (call.at + done) + 1 = i - done /\ done + (i - done) = i
    BY <1>1, <1>4, <1>5, <1>7 DEF n, x
  <2>2. x \in Span(c) /\ c.buf[x - c.at + 1] = 0
    <3>1. c.buf[i - done] = 0
      BY <1>3, <1>4, <2>1
    <3>2. call.at + done <= x /\ x < call.at + done + n
      BY <1>1, <2>1 DEF n
    <3> QED BY <1>3, <1>5, <2>1, <3>1, <3>2 DEF Span
  <2>3. <<x, 0>> \in Effects(c)
    BY <1>3, <2>2 DEF Effects
  <2> QED BY <1>5, <2>3 DEF Land, c, n, x
<1> QED BY <1>1, <1>5, <1>6, <1>7 DEF x

LEMMA ProgramLandsNext ==
  ASSUME CallKept, Outstanding, mem \in [Cells -> {0, 1}], ProgramLands, [Next]_vars
  PROVE  ProgramLands'
<1> USE DEF ProgramLands
<1>0. UNCHANGED <<mem, call, done>> =>
        /\ Landed(done) => Landed(done)'
        /\ Landed(done + PageLength) => Landed(done + PageLength)'
        /\ PageLength' = PageLength /\ PageCommand(PageLength)' = PageCommand(PageLength)
  BY DEF Landed, PageLength, PageCommand
<1>1. CASE UNCHANGED vars
  BY <1>0, <1>1 DEF vars, chip, caller, work
<1>2. ASSUME NEW c \in Calls, Begin(c) PROVE ProgramLands'
  <2>1. done' = 0 /\ pc' # "wait"
    BY <1>2 DEF Begin, work, CallKept
  <2>2. Landed(done)'
    BY <2>1 DEF Landed
  <2> QED BY <2>1, <2>2
<1>3. ASSUME NEW c \in Calls, Refuse(c) PROVE ProgramLands'
  BY <1>0, <1>3 DEF Refuse, chip, work
<1>4. CASE Complete
  <2>1. /\ UNCHANGED <<call, clean, pc, done, status>> /\ running # Idle /\ running' = Idle
        /\ mem' = Land(mem, ChipEffects(running))
    BY <1>4 DEF Complete, caller, work
  <2>2. SUFFICES ASSUME clean, call.kind = "program", status = "ok"
                 PROVE  Landed(done)' /\ Landed(done + PageLength)'
    BY <2>1
  <2>3. pc = "wait" /\ running = PageCommand(PageLength) /\ Landed(done)
    BY <2>1, <2>2 DEF CallKept, Outstanding, Idle
  <2>4. mem' = Land(mem, Effects(PageCommand(PageLength)))
    BY <2>1, <2>3, FitEffects DEF Outstanding
  <2>5. \A i \in 1 .. done + PageLength : call.buf[i] = 0 => mem'[call.at + i - 1] = 0
    BY <2>2, <2>3, <2>4, PageLands
  <2>6. done \in Nat /\ PageLength \in Nat /\ PageLength' = PageLength
    BY <2>1, <2>3, Serving DEF PageLength
  <2>7. Landed(done + PageLength)'
    BY <2>1, <2>5, <2>6 DEF Landed
  <2>8. Landed(done)'
    <3>1. \A i \in 1 .. done : i \in 1 .. done + PageLength
      BY <2>6
    <3> QED BY <2>1, <2>5, <3>1 DEF Landed
  <2> QED BY <2>7, <2>8
<1>5. CASE WriteEnable \/ WriteEnabled
  BY <1>0, <1>5 DEF WriteEnable, WriteEnabled, chip, caller, work
<1>6. CASE FailStep
  <2>1. call' = Idle
    BY <1>6, FailReturns DEF Return
  <2> QED BY <2>1 DEF Idle
<1>7. CASE SendLoad
  <2>1. UNCHANGED <<mem, call, clean, done, status>> /\ pc = "command" /\ call.kind = "program"
    BY <1>7 DEF SendLoad, caller
  <2>2. CASE KeepCs
    BY <1>0, <1>7, <2>1, <2>2 DEF SendLoad
  <2>3. CASE ~KeepCs
    <3>1. Execute(PageCommand(NextSent)) /\ NextSent = PageLength
      BY <1>7, <2>1, <2>3, NextSentFacts DEF SendLoad
    <3>2. clean => running = Idle /\ wel
      BY <2>1 DEF Outstanding
    <3>3. clean => running' = PageCommand(PageLength)
      BY <3>1, <3>2 DEF Execute
    <3> QED BY <1>0, <2>1, <3>3
  <2> QED BY <2>2, <2>3
<1>8. CASE LoadTimesOut
  BY <1>8 DEF LoadTimesOut
<1>9. CASE SendErase
  BY <1>9 DEF SendErase, caller
<1>10. CASE PollReady
  <2>1. CASE \E s : Return(s, <<>>)
    BY <2>1 DEF Return, Idle
  <2>2. CASE ~(\E s : Return(s, <<>>))
    <3>1. /\ done' = done + PageLength /\ pc = "wait" /\ pc' = "enable" /\ running = Idle
          /\ UNCHANGED <<mem, call, clean, status>> /\ call.kind = "program"
      BY <1>10, <2>2 DEF PollReady, caller
    <3>2. PageLength \in 1 .. PageSize
      BY <3>1, Serving
    <3>3. PageCommand(PageLength) # Idle
      <4>1. PageLength \in 1 .. PageLength
        BY <3>2, SizesHold DEF Sizes
      <4> QED BY <3>1, <4>1, PageCommandFacts
    <3>4. Landed(done + PageLength) => Landed(done)'
      BY <3>1 DEF Landed
    <3> QED BY <3>1, <3>3, <3>4
  <2> QED BY <2>1, <2>2
<1>11. CASE PollBusy
  BY <1>0, <1>11 DEF PollBusy, chip, caller
<1>12. CASE ReadLoad
  <2>1. call' \in {call, Idle} /\ pc = "read"
    BY <1>12 DEF ReadLoad, Return, caller
  <2> QED BY <2>1 DEF Idle, CallKept
<1> QED
  BY <1>1, <1>2, <1>3, <1>4, <1>5, <1>6, <1>7, <1>8, <1>9, <1>10, <1>11, <1>12
     DEF Next, Transfer, FailStep

LEMMA EraseLandsNext ==
  ASSUME CallKept, Outstanding, EraseLands, [Next]_vars
  PROVE  EraseLands'
<1> USE DEF EraseLands
<1>1. CASE UNCHANGED vars
  BY <1>1 DEF vars, chip, caller, work, Span
<1>2. ASSUME NEW c \in Calls, Begin(c) \/ Refuse(c) PROVE EraseLands'
  BY <1>2 DEF Begin, Refuse, CallKept
<1>3. CASE Complete
  <2>1. /\ UNCHANGED <<call, clean, pc>> /\ running # Idle
        /\ mem' = Land(mem, ChipEffects(running))
    BY <1>3 DEF Complete, caller
  <2>2. SUFFICES ASSUME clean, call.kind = "erase", pc = "wait",
                        NEW x \in Span(call)
                 PROVE  mem'[x] = 1
    BY <2>1 DEF Span
  <2>3. running = call
    BY <2>1, <2>2 DEF Outstanding, Contract!Parts
  <2>4. mem' = Land(mem, {<<y, 1>> : y \in Span(call)})
    BY <2>1, <2>2, <2>3 DEF ChipEffects, Effects
  <2> QED BY <2>2, <2>4 DEF Land, Span
<1>4. CASE WriteEnable \/ WriteEnabled
  BY <1>4 DEF WriteEnable, WriteEnabled
<1>5. CASE FailStep
  BY <1>5, FailReturns DEF Return
<1>6. CASE SendLoad \/ LoadTimesOut
  BY <1>6 DEF SendLoad, LoadTimesOut, caller
<1>7. CASE SendErase
  <2>1. /\ pc = "command" /\ Execute(call) /\ UNCHANGED <<call, clean>>
    BY <1>7 DEF SendErase, caller
  <2>2. clean => running = Idle /\ wel
    BY <2>1 DEF Outstanding
  <2>3. call # Idle
    BY <2>1, Serving
  <2> QED BY <2>1, <2>2, <2>3 DEF Execute
<1>8. CASE PollReady
  BY <1>8 DEF PollReady, Return, Idle
<1>9. CASE PollBusy
  BY <1>9 DEF PollBusy, chip, caller, Span
<1>10. CASE ReadLoad
  BY <1>10 DEF ReadLoad, Return, caller
<1> QED
  BY <1>1, <1>2, <1>3, <1>4, <1>5, <1>6, <1>7, <1>8, <1>9, <1>10 DEF Next, Transfer, FailStep

LEMMA ReadTrueNext ==
  ASSUME CallKept, Outstanding, ReadTrue, [Next]_vars
  PROVE  ReadTrue'
<1> USE DEF ReadTrue
<1>1. CASE UNCHANGED vars
  BY <1>1 DEF vars, chip, caller, work
<1>2. ASSUME NEW c \in Calls, Begin(c) PROVE ReadTrue'
  <2>1. done' = 0 /\ got' = <<>>
    BY <1>2 DEF Begin, work, CallKept, Idle
  <2> QED BY <2>1
<1>3. ASSUME NEW c \in Calls, Refuse(c) PROVE ReadTrue'
  BY <1>3 DEF Refuse, chip, work
<1>4. CASE Complete
  <2>1. UNCHANGED <<call, clean, pc, got, done>> /\ running # Idle
    BY <1>4 DEF Complete, caller, work
  <2>2. call.kind = "read" => ~clean
    BY <2>1 DEF CallKept, Outstanding
  <2> QED BY <2>1, <2>2
<1>5. CASE FailStep
  <2>1. call' = Idle
    BY <1>5, FailReturns DEF Return
  <2> QED BY <2>1 DEF Idle
<1>6. CASE ~ReadLoad /\ call.kind # "read" /\ (Transfer /\ ~FailStep)
  <2>1. call' \in {call, Idle}
    BY <1>6 DEF Transfer, FailStep, WriteEnable, WriteEnabled, SendLoad, LoadTimesOut,
                SendErase, PollReady, PollBusy, Return, caller
  <2> QED BY <1>6, <2>1 DEF Idle
<1>7. CASE ~ReadLoad /\ call.kind = "read" /\ (Transfer /\ ~FailStep)
  <2>1. pc = "read"
    BY <1>7 DEF CallKept
  <2> QED
    BY <1>7, <2>1 DEF Transfer, FailStep, WriteEnable, WriteEnabled, SendLoad, LoadTimesOut,
                      SendErase, PollReady, PollBusy
<1>8. CASE ReadLoad
  <2>1. PICK d \in [1 .. ReadLength -> {0, 1}] :
          /\ running = Idle => \A i \in DOMAIN d : d[i] = mem[call.at + done + i - 1]
          /\ IF done + ReadLength < call.len
               THEN /\ done' = done + ReadLength /\ got' = got \o d
                    /\ UNCHANGED <<caller, pc>>
               ELSE Return("ok", got \o d)
    BY <1>8 DEF ReadLoad
  <2>2. CASE done + ReadLength < call.len
    <3>1. /\ mem' = mem /\ pc = "read" /\ done' = done + ReadLength /\ got' = got \o d
          /\ UNCHANGED <<call, clean>>
      BY <1>8, <2>1, <2>2 DEF ReadLoad, caller
    <3>2. call.kind = "read" /\ got \in [1 .. done -> {0, 1}]
      BY <3>1 DEF CallKept
    <3>3. done \in Nat /\ ReadLength \in Nat /\ call.at \in Nat
      BY <3>1, Serving, SizesHold DEF Sizes, ReadLength
    <3>4. /\ got' \in [1 .. done' -> {0, 1}]
          /\ \A i \in 1 .. done : got'[i] = got[i]
          /\ \A i \in 1 .. ReadLength : got'[done + i] = d[i]
      <4>1. /\ got \o d \in [1 .. done + ReadLength -> {0, 1}]
            /\ \A i \in 1 .. done : (got \o d)[i] = got[i]
            /\ \A i \in 1 .. ReadLength : (got \o d)[done + i] = d[i]
        <5>1. d \in [1 .. ReadLength -> {0, 1}]
          BY <2>1
        <5> QED BY <3>2, <3>3, <5>1, Joined
      <4> QED BY <3>1, <4>1
    <3>5. ASSUME clean, NEW i \in 1 .. done + ReadLength PROVE got'[i] = mem[call.at + i - 1]
      <4>1. CASE i <= done
        BY <3>2, <3>3, <3>4, <3>5, <4>1
      <4>2. CASE i > done
        <5>1. running = Idle
          BY <3>1, <3>5 DEF Outstanding
        <5>2. i - done \in 1 .. ReadLength /\ done + (i - done) = i
              /\ call.at + done + (i - done) - 1 = call.at + i - 1
          BY <3>3, <3>5, <4>2
        <5>3. d[i - done] = mem[call.at + done + (i - done) - 1]
          BY <2>1, <5>1, <5>2
        <5> QED BY <3>4, <5>2, <5>3
      <4> QED BY <3>3, <4>1, <4>2
    <3> QED BY <3>1, <3>4, <3>5
  <2>3. CASE ~(done + ReadLength < call.len)
    <3>1. call' = Idle
      BY <2>1, <2>3 DEF Return
    <3> QED BY <3>1 DEF Idle
  <2> QED BY <2>2, <2>3
<1> QED BY <1>1, <1>2, <1>3, <1>4, <1>5, <1>6, <1>7, <1>8 DEF Next
-----------------------------------------------------------------------------
(* The primitives keep their contract.                                        *)

\* One running command of a call has no effect that the call does not aim at.
LEMMA PartEffects ==
  ASSUME CallKept, pc # "idle", NEW p \in Contract!Parts(call)
  PROVE  Effects(p) \subseteq Effects(call)
<1>0. call.at \in Nat /\ call.len \in Nat /\ call.kind \in {"program", "erase", "read"}
  BY Serving
<1>1. CASE call.kind = "program"
  <2>0. call.buf \in Seq({0, 1}) /\ call.len = Len(call.buf)
    BY <1>1, Serving
  <2>1. PICK i \in 1 .. call.len, j \in 1 .. call.len :
          p = Contract!Program(call.at + i - 1, SubSeq(call.buf, i, j))
    BY <1>1 DEF Contract!Parts
  <2>2. /\ p.kind = "program" /\ p.at = call.at + i - 1
        /\ p.buf = SubSeq(call.buf, i, j) /\ p.len = Len(SubSeq(call.buf, i, j))
    BY <2>1 DEF Contract!Program
  <2>3. CASE j < i
    <3>1. p.len = 0
      BY <2>0, <2>2, <2>3
    <3>2. Span(p) = {}
      <4>1. p.at \in Int
        BY <1>0, <2>2
      <4> QED BY <3>1, <4>1 DEF Span, Cells
    <3> QED BY <2>2, <3>2 DEF Effects
  <2>4. CASE i <= j
    <3>1. i - 1 \in Nat /\ j - i + 1 \in Nat /\ (i - 1) + (j - i + 1) <= Len(call.buf)
          /\ (i - 1) + 1 = i /\ (i - 1) + (j - i + 1) = j
      BY <2>0, <2>4
    <3>2. /\ Len(SubSeq(call.buf, (i - 1) + 1, (i - 1) + (j - i + 1))) = j - i + 1
          /\ \A k \in 1 .. j - i + 1 :
               SubSeq(call.buf, (i - 1) + 1, (i - 1) + (j - i + 1))[k] = call.buf[(i - 1) + k]
      BY <2>0, <3>1, Slice
    <3>3. p.len = j - i + 1 /\ \A k \in 1 .. j - i + 1 : p.buf[k] = call.buf[(i - 1) + k]
      BY <2>2, <3>1, <3>2
    <3>4. ASSUME NEW x \in Span(p), p.buf[x - p.at + 1] = 0
          PROVE  x \in Span(call) /\ call.buf[x - call.at + 1] = 0
      <4>1. /\ x \in Cells /\ x \in Int /\ call.at + i - 1 <= x
            /\ x < (call.at + i - 1) + (j - i + 1)
        BY <2>2, <3>3, <3>4 DEF Span, Cells
      <4>2. x - (call.at + i - 1) + 1 \in 1 .. j - i + 1
            /\ (i - 1) + (x - (call.at + i - 1) + 1) = x - call.at + 1
        BY <1>0, <4>1
      <4>3. call.buf[x - call.at + 1] = 0
        BY <2>2, <3>3, <3>4, <4>2
      <4>4. call.at <= x /\ x < call.at + call.len
        BY <1>0, <4>1
      <4> QED BY <4>1, <4>3, <4>4 DEF Span
    <3> QED BY <1>1, <2>2, <3>4 DEF Effects
  <2> QED BY <2>3, <2>4
<1>2. CASE call.kind # "program"
  BY <1>0, <1>2 DEF Contract!Parts
<1> QED BY <1>1, <1>2

\* Nothing that the contract sees has changed.
LEMMA Unseen ==
  ASSUME UNCHANGED <<mem, call, clean, reply>>,
         UNCHANGED <<running, inherited>> \/ (inherited = FALSE /\ inherited' = FALSE)
  PROVE  UNCHANGED Contract!vars
BY DEF Contract!vars

LEMMA FailMaps ==
  ASSUME CallKept, Outstanding, pc # "idle", NEW s \in {"timeout", "protected"},
         Return(s, <<>>), LeaveBehind, mem' = mem
  PROVE  Contract!Fail
<1>1. call # Idle /\ call' = Idle /\ UNCHANGED <<mem, clean>>
      /\ reply' = [status |-> s, data |-> <<>>]
  BY Serving DEF Return
<1>2. (IF inherited' THEN running' ELSE Idle)
        \in {IF inherited THEN running ELSE Idle, Idle} \cup Contract!Parts(call)
  BY DEF LeaveBehind, Outstanding
<1> QED BY <1>1, <1>2 DEF Contract!Fail, Contract!Idle, Idle

\* A program or an erase that found the part idle leaves nothing undone.
LEMMA AllDone ==
  ASSUME CallKept, Outstanding, mem \in [Cells -> {0, 1}], ProgramLands, EraseLands,
         clean, pc = "wait", running = Idle, status = "ok",
         call.kind = "program" => ~(done + PageLength < call.len)
  PROVE  Land(mem, Effects(call)) = mem
<1>0. /\ call.at \in Nat /\ call.len \in Nat /\ done \in Nat /\ PageLength \in Nat
      /\ done + PageLength <= call.len /\ call.kind \in {"program", "erase", "read"}
  BY Serving
<1>1. CASE call.kind = "program"
  <2>1. PageCommand(PageLength) # Idle
    <3>1. PageLength \in 1 .. PageLength
      BY Serving, SizesHold DEF Sizes
    <3> QED BY <1>1, <3>1, PageCommandFacts
  <2>2. done + PageLength = call.len
    BY <1>0, <1>1
  <2>3. Landed(call.len)
    BY <1>1, <2>1, <2>2 DEF ProgramLands
  <2>4. \A x \in Span(call) : call.buf[x - call.at + 1] = 0 => mem[x] = 0
    <3> SUFFICES ASSUME NEW x \in Span(call), call.buf[x - call.at + 1] = 0 PROVE mem[x] = 0
      OBVIOUS
    <3>1. x - call.at + 1 \in 1 .. call.len /\ call.at + (x - call.at + 1) - 1 = x
      BY <1>0 DEF Span, Cells
    <3> QED BY <2>3, <3>1 DEF Landed
  <2>5. /\ \A x : <<x, 0>> \in Effects(call) => mem[x] = 0
        /\ \A x : <<x, 1>> \notin Effects(call)
    BY <1>1, <2>4 DEF Effects
  <2> QED BY <2>5 DEF Land
<1>2. CASE call.kind = "erase"
  <2>1. /\ \A x : <<x, 1>> \in Effects(call) => mem[x] = 1
        /\ \A x : <<x, 0>> \notin Effects(call)
    BY <1>2 DEF Effects, EraseLands
  <2> QED BY <2>1 DEF Land
<1>3. CASE call.kind = "read"
  BY <1>3 DEF CallKept
<1> QED BY <1>0, <1>1, <1>2, <1>3

LEMMA SameWords ==
  /\ Contract!Calls = Calls /\ Contract!Idle = Idle /\ Contract!NoReply = NoReply
  /\ \A c : Contract!Valid(c) = Valid(c) /\ Contract!Effects(c) = Effects(c)
  /\ \A m, E : Contract!Land(m, E) = Land(m, E)
  /\ Contract!Cells = Cells
<1>1. Contract!Idle = Idle /\ Contract!NoReply = NoReply /\ Contract!Cells = Cells
  BY DEF Contract!Idle, Idle, Contract!NoReply, NoReply, Contract!Cells, Cells
<1>2. Contract!Calls = Calls
  BY <1>1 DEF Contract!Calls, Calls, Contract!Program, Program, Contract!Erase, Erase,
              Contract!Read, Read
<1>3. \A c : Contract!Valid(c) = Valid(c)
  BY DEF Contract!Valid, Valid
<1>4. \A c : Contract!Span(c) = Span(c)
  BY <1>1 DEF Contract!Span, Span
<1>5. \A c : Contract!Effects(c) = Effects(c)
  BY <1>4 DEF Contract!Effects, Effects
<1>6. \A m, E : Contract!Land(m, E) = Land(m, E)
  BY <1>1 DEF Contract!Land, Land
<1> QED BY <1>1, <1>2, <1>3, <1>5, <1>6

\* The invariants that the contract rests on.
Keeping == CallKept /\ Books /\ Outstanding /\ ProgramLands /\ EraseLands /\ ReadTrue

LEMMA KeepingInit == Init => Keeping
<1> SUFFICES ASSUME Init PROVE Keeping
  OBVIOUS
<1>1. Outstanding /\ ProgramLands /\ EraseLands /\ ReadTrue
  BY DEF Init, Outstanding, ProgramLands, EraseLands, ReadTrue, Idle
<1> QED BY <1>1, CallKeptInit, BooksInit DEF Keeping

LEMMA KeepingNext == Keeping /\ [Next]_vars => Keeping'
<1> SUFFICES ASSUME Keeping, [Next]_vars PROVE Keeping'
  OBVIOUS
<1>1. /\ CallKept /\ Books /\ Outstanding /\ ProgramLands /\ EraseLands /\ ReadTrue
      /\ mem \in [Cells -> {0, 1}]
  BY DEF Keeping, Books
<1> QED
  BY <1>1, CallKeptNext, BooksNext, OutstandingNext, ProgramLandsNext, EraseLandsNext,
     ReadTrueNext DEF Keeping

\* Every step of the primitives is a step of the contract, or one it does not
\* see: a transfer that starts or polls is unseen, and a call that ends is the
\* contract's success or its failure.
LEMMA StepMaps ==
  ASSUME Keeping, [Next]_vars
  PROVE  [Contract!Next]_(Contract!vars)
<1>0. CallKept /\ Outstanding /\ ProgramLands /\ EraseLands /\ ReadTrue
      /\ mem \in [Cells -> {0, 1}]
  BY DEF Keeping, Books
<1>00. inherited \in BOOLEAN /\ (inherited => running # Idle)
  BY <1>0 DEF Outstanding
<1>1. CASE UNCHANGED vars
  BY <1>1, Unseen DEF vars, chip, caller
<1>2. ASSUME NEW c \in Calls, Begin(c) PROVE Contract!Begin
  <2>1. /\ call = Idle /\ call' = c /\ Valid(c) /\ reply' = NoReply
        /\ UNCHANGED <<mem, running, inherited>> /\ clean' = (running = Idle)
    BY <1>0, <1>2 DEF Begin, CallKept, chip
  <2>2. clean' = ((IF inherited THEN running ELSE Idle) = Idle)
    <3>1. pc = "idle"
      BY <1>2 DEF Begin
    <3> QED BY <1>0, <2>1, <3>1 DEF Outstanding
  <2> QED BY <2>1, <2>2, SameWords DEF Contract!Begin
<1>3. ASSUME NEW c \in Calls, Refuse(c) PROVE Contract!Refuse
  <2>1. /\ call = Idle /\ reply' = [status |-> "invalid", data |-> <<>>]
        /\ UNCHANGED <<mem, call, running, inherited, clean>>
    BY <1>0, <1>3 DEF Refuse, CallKept, chip
  <2> QED BY <2>1, SameWords DEF Contract!Refuse
<1>4. CASE Complete
  <2>1. /\ running # Idle /\ running' = Idle /\ inherited' = FALSE
        /\ mem' = Land(mem, Effects(running)) /\ UNCHANGED <<call, clean, reply, pc>>
    BY <1>0, <1>4, FitEffects DEF Complete, caller, Outstanding
  <2>2. CASE inherited
    <3>1. Land(mem, Effects(running)) = Contract!Land(mem, Contract!Effects(running))
      BY SameWords
    <3>2. (IF inherited THEN running ELSE Idle) = running
          /\ (IF inherited' THEN running' ELSE Idle) = Contract!Idle
          /\ running # Contract!Idle
      BY <2>1, <2>2, SameWords
    <3>3. Contract!FinishResidue
      BY <2>1, <3>1, <3>2 DEF Contract!FinishResidue
    <3> QED BY <3>3 DEF Contract!Next
  <2>3. CASE ~inherited
    <3>1. pc = "wait" /\ running \in Contract!Parts(call)
      BY <1>0, <2>1, <2>3 DEF Outstanding
    <3>2. Effects(running) \subseteq Effects(call) /\ call # Idle
      BY <1>0, <3>1, PartEffects, Serving
    <3>3. /\ Land(mem, Effects(running)) = Contract!Land(mem, Effects(running))
          /\ Contract!Effects(call) = Effects(call) /\ call # Contract!Idle
      BY <3>2, SameWords
    <3>4. \E E \in SUBSET Contract!Effects(call) : mem' = Contract!Land(mem, E)
      BY <2>1, <3>2, <3>3
    <3>5. (IF inherited THEN running ELSE Idle) = (IF inherited' THEN running' ELSE Idle)
      BY <2>1, <2>3
    <3>6. Contract!Apply
      BY <2>1, <3>3, <3>4, <3>5 DEF Contract!Apply
    <3> QED BY <3>6 DEF Contract!Next
  <2> QED BY <2>2, <2>3
<1>5. CASE WriteEnable \/ WriteEnabled
  BY <1>5, Unseen DEF WriteEnable, WriteEnabled, chip, caller
<1>6. CASE FailStep
  <2>1. PICK s \in {"timeout", "protected"} : Return(s, <<>>)
    BY <1>6, FailReturns
  <2>2. mem' = mem /\ pc # "idle"
    BY <1>6, FailReturns
  <2>3. CASE LeaveBehind
    BY <1>0, <2>1, <2>2, <2>3, FailMaps DEF Contract!Next
  <2>4. CASE ~LeaveBehind
    <3>1. /\ running = Idle /\ running' = call /\ inherited' = TRUE
          /\ call.kind = "erase"
      BY <1>6, <2>4 DEF FailStep, WriteProtected, EnableTimesOut, EraseTimesOut, PollGivesUp,
                        ReadTimesOut
    <3>2. call # Idle /\ call' = Idle /\ UNCHANGED clean
          /\ reply' = [status |-> s, data |-> <<>>]
      BY <1>0, <2>1, <2>2, Serving DEF Return
    <3>3. running' \in Contract!Parts(call)
      BY <3>1 DEF Contract!Parts
    <3> QED BY <2>2, <3>1, <3>2, <3>3, SameWords DEF Contract!Fail, Contract!Next
  <2> QED BY <2>3, <2>4
<1>7. CASE SendLoad \/ LoadTimesOut \/ SendErase
  <2>1. UNCHANGED <<mem, call, clean, reply>>
    BY <1>7 DEF SendLoad, LoadTimesOut, SendErase, caller
  <2>2. UNCHANGED <<running, inherited>> \/ (inherited = FALSE /\ inherited' = FALSE)
    BY <1>0, <1>7, <1>00, Sends
  <2> QED BY <2>1, <2>2, Unseen
<1>8. CASE PollReady
  <2>0. pc = "wait" /\ running = Idle /\ mem' = mem /\ inherited = FALSE
    BY <1>8, <1>00 DEF PollReady
  <2>1. CASE status = "ok" /\ call.kind = "program" /\ done + PageLength < call.len
    BY <1>8, <2>0, <2>1, Unseen DEF PollReady, caller
  <2>2. CASE ~(status = "ok" /\ call.kind = "program" /\ done + PageLength < call.len)
    <3>1. Return(status, <<>>) /\ LeaveBehind
      BY <1>8, <2>2 DEF PollReady
    <3>2. CASE status = "timeout"
      BY <1>0, <2>0, <3>1, <3>2, FailMaps DEF Contract!Next
    <3>3. CASE status = "ok"
      <4>1. clean => Land(mem, Effects(call)) = mem
        BY <1>0, <2>0, <2>2, <3>3, AllDone
      <4>2. /\ call # Idle /\ call' = Idle /\ UNCHANGED <<mem, running, inherited, clean>>
            /\ reply' = [status |-> "ok", data |-> <<>>] /\ call.kind # "read"
        BY <1>0, <2>0, <3>1, <3>3, Serving DEF Return, LeaveBehind, CallKept
      <4>3. clean => Contract!Land(mem, Contract!Effects(call)) = mem
        BY <4>1, SameWords
      <4>4. /\ (IF inherited THEN running ELSE Idle) = Contract!Idle
            /\ (IF inherited' THEN running' ELSE Idle) = Contract!Idle
            /\ call # Contract!Idle /\ call' = Contract!Idle
        BY <2>0, <4>2, SameWords
      <4>5. \E d \in IF call.kind = "read" THEN [1 .. call.len -> {0, 1}] ELSE {<<>>} :
              /\ clean => \A i \in DOMAIN d : d[i] = mem[call.at + i - 1]
              /\ reply' = [status |-> "ok", data |-> d]
        BY <4>2
      <4>6. Contract!Succeed
        BY <4>2, <4>3, <4>4, <4>5 DEF Contract!Succeed
      <4> QED BY <4>6 DEF Contract!Next
    <3> QED BY <3>2, <3>3 DEF Keeping, Books
  <2> QED BY <2>1, <2>2
<1>9. CASE PollBusy
  BY <1>9, Unseen DEF PollBusy, chip, caller
<1>10. CASE ReadLoad
  <2>1. PICK d \in [1 .. ReadLength -> {0, 1}] :
          /\ running = Idle => \A i \in DOMAIN d : d[i] = mem[call.at + done + i - 1]
          /\ IF done + ReadLength < call.len
               THEN UNCHANGED <<caller, running, inherited>>
               ELSE LeaveBehind /\ Return("ok", got \o d)
    BY <1>10 DEF ReadLoad
  <2>2. mem' = mem /\ pc = "read" /\ call.kind = "read"
    BY <1>0, <1>10 DEF ReadLoad, CallKept
  <2>3. CASE done + ReadLength < call.len
    BY <2>1, <2>2, <2>3, Unseen DEF caller
  <2>4. CASE ~(done + ReadLength < call.len)
    <3>1. LeaveBehind /\ Return("ok", got \o d)
      BY <2>1, <2>4
    <3>2. /\ done \in Nat /\ ReadLength \in Nat /\ call.at \in Nat
          /\ done + ReadLength = call.len
      <4>1. CommandMax \in Nat \ {0} /\ call.at \in Nat /\ call.len \in Nat
            /\ done \in 0 .. call.len - 1
        BY <1>0, <2>2, Serving, SizesHold DEF Sizes
      <4>2. ReadLength = IF call.len - done < CommandMax THEN call.len - done ELSE CommandMax
        BY DEF ReadLength
      <4> QED BY <2>4, <4>1, <4>2
    <3>3. /\ got \o d \in [1 .. call.len -> {0, 1}]
          /\ \A i \in 1 .. done : (got \o d)[i] = got[i]
          /\ \A i \in 1 .. ReadLength : (got \o d)[done + i] = d[i]
      <4>1. d \in [1 .. ReadLength -> {0, 1}] /\ got \in [1 .. done -> {0, 1}]
        BY <1>0, <2>1, <2>2 DEF ReadTrue
      <4>2. /\ got \o d \in [1 .. done + ReadLength -> {0, 1}]
            /\ \A i \in 1 .. done : (got \o d)[i] = got[i]
            /\ \A i \in 1 .. ReadLength : (got \o d)[done + i] = d[i]
        BY <3>2, <4>1, Joined
      <4> QED BY <3>2, <4>2
    <3>4. ASSUME clean, NEW i \in 1 .. call.len PROVE (got \o d)[i] = mem[call.at + i - 1]
      <4>1. CASE i <= done
        <5>1. i \in 1 .. done
          BY <3>2, <3>4, <4>1
        <5>2. got[i] = mem[call.at + i - 1]
          BY <1>0, <2>2, <3>4, <5>1 DEF ReadTrue
        <5> QED BY <3>3, <5>1, <5>2
      <4>2. CASE i > done
        <5>1. running = Idle
          BY <1>0, <2>2, <3>4 DEF Outstanding
        <5>2. i - done \in 1 .. ReadLength /\ done + (i - done) = i
              /\ call.at + done + (i - done) - 1 = call.at + i - 1
          BY <3>2, <3>4, <4>2
        <5>3. d[i - done] = mem[call.at + done + (i - done) - 1]
          BY <2>1, <5>1, <5>2
        <5> QED BY <3>3, <5>2, <5>3
      <4>3. i \in Int /\ done \in Int
        BY <3>2
      <4>4. i <= done \/ i > done
        BY <4>3
      <4> QED BY <4>1, <4>2, <4>4
    <3>5. Effects(call) = {}
      BY <2>2 DEF Effects
    <3>6. Land(mem, {}) = mem
      BY <1>0 DEF Land
    <3>7. /\ call # Idle /\ call' = Idle /\ UNCHANGED <<mem, clean>>
          /\ reply' = [status |-> "ok", data |-> got \o d]
      BY <1>0, <2>2, <3>1, Serving DEF Return
    <3>8. running' = running /\ (running # Idle => inherited) /\ inherited' = (running # Idle)
      BY <1>0, <2>2, <3>1 DEF LeaveBehind, Outstanding
    <3>9. (IF inherited' THEN running' ELSE Idle) = (IF inherited THEN running ELSE Idle)
      BY <3>8, <1>00
    <3>10. \A i \in DOMAIN (got \o d) : clean => (got \o d)[i] = mem[call.at + i - 1]
      BY <3>3, <3>4
    <3> HIDE DEF Return
    <3>11. Contract!Succeed
      <4> DEFINE r == got \o d
      <4>1. /\ r \in [1 .. call.len -> {0, 1}]
            /\ clean => \A i \in DOMAIN r : r[i] = mem[call.at + i - 1]
            /\ reply' = [status |-> "ok", data |-> r]
        BY <3>3, <3>7, <3>10
      <4> HIDE DEF r
      <4> QED BY <2>2, <3>5, <3>6, <3>7, <3>9, <4>1, SameWords DEF Contract!Succeed
    <3> QED BY <3>11 DEF Contract!Next
  <2> QED BY <2>3, <2>4
<1> QED
  BY <1>1, <1>2, <1>3, <1>4, <1>5, <1>6, <1>7, <1>8, <1>9, <1>10
     DEF Next, Transfer, FailStep, Contract!Next

\* For any part, page, bufferload and buffer size, any number of polls and any
\* time-outs: NorProgram, NorEraseSector and NorRead, transfer by transfer,
\* do only what their contract allows.  The mapping shows the contract a
\* running command only once the call that sent it is over.
THEOREM ContractKept == Spec => ImplementsContract
<1>1. Init => Contract!Init
  <2> SUFFICES ASSUME Init PROVE Contract!Init
    OBVIOUS
  <2>1. mem \in [Cells -> {0, 1}]
    BY ContentsType DEF Init
  <2> QED BY <2>1, SameWords DEF Init, Contract!Init
<1>2. Keeping /\ [Next]_vars => [Contract!Next]_(Contract!vars)
  BY StepMaps
<1>3. Spec => []Keeping
  BY KeepingInit, KeepingNext, PTL DEF Spec
<1> QED BY <1>1, <1>2, <1>3, PTL DEF Spec, ImplementsContract, Contract!Spec
=============================================================================
