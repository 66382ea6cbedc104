-------------------------- MODULE SpifcFvb_proofs --------------------------
(***************************************************************************)
(* Proofs about SpifcFvb, for every layout, page size and request bound.   *)
(***************************************************************************)
EXTENDS SpifcFvb, TLAPS

-----------------------------------------------------------------------------
(* The layout. *)

\* Whole blocks stay in order: the product of MesonG12B.h's block arithmetic
\* is monotonic.
LEMMA BlockOrder ==
    ASSUME NEW a \in Nat, NEW b \in Nat, a < b
    PROVE  /\ BlockBase(a) \in Nat
           /\ BlockBase(a) + BlockSize <= BlockBase(b)
<1>1. BlockSize \in Nat /\ RuntimeBase \in Nat
  BY LayoutAssumption
<1>2. PICK d \in Nat : b = a + 1 + d
  <2>1. b - a - 1 \in Nat /\ b = a + 1 + (b - a - 1)
    OBVIOUS
  <2> QED  BY <2>1
<1>3. b * BlockSize = a * BlockSize + BlockSize + d * BlockSize
  BY <1>1, <1>2, SMT
<1>4. d * BlockSize \in Nat /\ a * BlockSize \in Nat
  BY <1>1, <1>2, SMT
<1> QED
  BY <1>1, <1>3, <1>4, SMT DEF BlockBase

\* The regions nest as MesonG12B.h and the entry point's assertions say.
LEMMA Layout ==
    /\ WindowEnd \in Nat /\ RuntimeBase \in Nat /\ BlockSize \in Nat \ {0}
    /\ Window \subseteq Addresses
    /\ Managed \subseteq Window
    /\ HeaderCells \subseteq Managed
    /\ BoardSize \in Nat
    /\ RuntimeBase < WindowEnd
<1>1. /\ BlockSize \in Nat /\ BlockSize > 0 /\ BlockCount \in Nat
      /\ RuntimeBase \in Nat /\ BoardSize \in Nat /\ HeaderSize \in Nat
      /\ VariableLast \in Nat /\ WorkingFirst \in Nat /\ WorkingLast \in Nat
      /\ SpareFirst \in Nat /\ SpareLast \in Nat
      /\ VariableLast < WorkingFirst /\ WorkingFirst <= WorkingLast
      /\ WorkingLast < SpareFirst /\ SpareFirst <= SpareLast
      /\ SpareLast < BlockCount /\ HeaderSize <= BlockSize
  BY LayoutAssumption
<1>2. BlockBase(BlockCount) = WindowEnd /\ BlockBase(0) = RuntimeBase
  BY <1>1, SMT DEF BlockBase, WindowEnd
<1>3. \A l \in 0 .. BlockCount - 1 :
         /\ BlockBase(l) \in Nat /\ BlockBase(l) + BlockSize <= WindowEnd
         /\ RuntimeBase <= BlockBase(l)
  <2> SUFFICES ASSUME NEW l \in 0 .. BlockCount - 1
               PROVE  /\ BlockBase(l) \in Nat
                      /\ BlockBase(l) + BlockSize <= WindowEnd
                      /\ RuntimeBase <= BlockBase(l)
    OBVIOUS
  <2>1. l \in Nat /\ l < BlockCount
    BY <1>1
  <2>2. BlockBase(l) \in Nat /\ BlockBase(l) + BlockSize <= WindowEnd
    BY <2>1, <1>1, <1>2, BlockOrder
  <2>3. RuntimeBase <= BlockBase(l)
    BY <2>1, <1>1, SMT DEF BlockBase
  <2> QED  BY <2>2, <2>3
<1>4. WindowEnd \in Nat
  BY <1>1, SMT DEF WindowEnd
<1>5. \A l \in 0 .. BlockCount - 1, k \in 0 .. BlockCount - 1 :
         Region(l, k) \subseteq Window
  BY <1>1, <1>3, <1>4 DEF Region, Window
<1>6. Managed \subseteq Window
  <2>1. /\ 0 \in 0 .. BlockCount - 1 /\ VariableLast \in 0 .. BlockCount - 1
        /\ WorkingFirst \in 0 .. BlockCount - 1 /\ WorkingLast \in 0 .. BlockCount - 1
        /\ SpareFirst \in 0 .. BlockCount - 1 /\ SpareLast \in 0 .. BlockCount - 1
    BY <1>1
  <2> QED  BY <2>1, <1>5 DEF Managed
<1>7. HeaderCells \subseteq Region(0, VariableLast)
  <2>1. RuntimeBase <= BlockBase(VariableLast) /\ BlockBase(VariableLast) \in Nat
    BY <1>1, <1>3
  <2> QED  BY <2>1, <1>1, <1>2 DEF HeaderCells, Region
<1>8. RuntimeBase < WindowEnd
  <2>1. 0 \in 0 .. BlockCount - 1
    BY <1>1
  <2> QED  BY <2>1, <1>1, <1>2, <1>3, <1>4
<1> QED
  BY <1>1, <1>4, <1>6, <1>7, <1>8 DEF Managed, Window, Addresses

\* A block FvbWrite and FvbEraseBlocks accept lies in a managed region.
LEMMA BlockManaged ==
    ASSUME NEW l \in 0 .. BlockCount - 1, LbaWritable(l)
    PROVE  Block(l) \subseteq Managed /\ BlockBase(l) \in Nat
<1>1. /\ BlockSize \in Nat /\ BlockCount \in Nat /\ VariableLast \in Nat
      /\ WorkingFirst \in Nat /\ WorkingLast \in Nat
      /\ SpareFirst \in Nat /\ SpareLast \in Nat /\ l \in Nat
  BY LayoutAssumption
<1>2. \A a, b \in Nat : a <= b => BlockBase(a) \in Nat /\ BlockBase(a) <= BlockBase(b)
  <2> SUFFICES ASSUME NEW a \in Nat, NEW b \in Nat, a <= b
               PROVE  BlockBase(a) \in Nat /\ BlockBase(a) <= BlockBase(b)
    OBVIOUS
  <2>1. BlockBase(a) \in Nat /\ BlockBase(b) \in Nat
    BY LayoutAssumption, SMT DEF BlockBase
  <2>2. CASE a = b
    BY <2>1, <2>2
  <2>3. CASE a < b
    BY <2>1, <2>3, <1>1, BlockOrder
  <2> QED  BY <2>2, <2>3
<1>3. \A first, last \in Nat :
         first <= l /\ l <= last => Block(l) \subseteq Region(first, last)
  BY <1>1, <1>2 DEF Block, Region
<1> QED
  BY <1>1, <1>2, <1>3 DEF LbaWritable, Managed

\* Every cell of a region is in one of its blocks.
LEMMA RegionBlock ==
    ASSUME NEW first \in Nat, NEW last \in Nat, first <= last,
           NEW w \in Region(first, last)
    PROVE  \E l \in first .. last : w \in Block(l)
<1>1. BlockSize \in Nat /\ BlockSize > 0 /\ RuntimeBase \in Nat
  BY LayoutAssumption
<1> DEFINE x == w - BlockBase(first)
           q == x \div BlockSize
<1>2. BlockBase(first) \in Nat /\ BlockBase(last) \in Nat
  BY <1>1, SMT DEF BlockBase
<1>3. x \in Nat /\ w = BlockBase(first) + x /\ w < BlockBase(last) + BlockSize
  BY <1>1, <1>2 DEF Region
<1>4. q \in Nat /\ q * BlockSize <= x /\ x < q * BlockSize + BlockSize
  BY <1>1, <1>3, SMT
<1>5. BlockBase(first + q) = BlockBase(first) + q * BlockSize
  BY <1>1, <1>4, SMT DEF BlockBase
<1>6. w \in Block(first + q)
  BY <1>1, <1>2, <1>3, <1>4, <1>5, q * BlockSize \in Nat, SMT DEF Block
<1>7. first + q <= last
  <2>1. SUFFICES ASSUME last < first + q PROVE FALSE
    BY <1>4
  <2>2. BlockBase(last) + BlockSize <= BlockBase(first + q)
    BY <2>1, <1>4, BlockOrder
  <2> QED  BY <2>2, <1>1, <1>2, <1>3, <1>4, <1>5, q * BlockSize \in Nat, SMT
<1> QED
  BY <1>4, <1>6, <1>7

-----------------------------------------------------------------------------
(* One NOR primitive. *)

\* Whatever comes of a primitive, the array and the outstanding command stay
\* well formed, and only the cells of the two commands can change; one that
\* succeeds leaves the part idle.
LEMMA Primitive ==
    ASSUME nor \in [Addresses -> Cell],
           DOMAIN late \subseteq Addresses, \A a \in DOMAIN late : late[a] \in Cell,
           NEW target, DOMAIN target \subseteq Addresses,
           \A a \in DOMAIN target : target[a] \in Cell,
           Commanded(target) \/ Fails(target)
    PROVE  /\ nor' \in [Addresses -> Cell]
           /\ DOMAIN late' \subseteq DOMAIN late \cup DOMAIN target
           /\ \A a \in DOMAIN late' : late'[a] \in Cell
           /\ \A a \in Addresses :
                 nor'[a] # nor[a] => a \in DOMAIN late \cup DOMAIN target
<1>1. \A v : (\A a \in DOMAIN v : v[a] \in Cell) =>
         /\ Overlay(nor, v) \in [Addresses -> Cell]
         /\ \A a \in Addresses : Overlay(nor, v)[a] # nor[a] => a \in DOMAIN v
  BY DEF Overlay
<1>2. Torn(target) =>
         /\ nor' \in [Addresses -> Cell]
         /\ \A a \in Addresses : nor'[a] # nor[a] => a \in DOMAIN target
  BY DEF Torn, Overlay
<1>3. CASE Commanded(target)
  <2>1. DOMAIN late' = {}
    BY <1>3 DEF Commanded, Nothing
  <2> QED  BY <1>1, <1>2, <1>3, <2>1 DEF Commanded
<1>4. CASE Fails(target)
  BY <1>2, <1>4 DEF Fails
<1> QED
  BY <1>3, <1>4

\* A faithful part that was idle has done exactly what it reports.
LEMMA Faithful ==
    ASSUME nor \in [Addresses -> Cell], phase \notin SilentPhases, ~Busy,
           NEW target, DOMAIN target \subseteq Addresses, Commanded(target)
    PROVE  \A a \in Addresses :
              nor'[a] = IF a \in DOMAIN target THEN target[a] ELSE nor[a]
BY DEF Commanded, Overlay

-----------------------------------------------------------------------------
(* Where an operation may reach. *)

Below0 == 0 .. RuntimeBase - 1

\* The span and the block list of the operation being served stay inside what
\* the request was checked against.
SpanOK ==
    /\ phase \in {"off", "failed"} => pc = "idle"
    /\ phase = "format" => pc \in {"erase", "program", "verify"}
    /\ phase # "ready" => ~runtime
    /\ pc \in {"erase", "blank"} => blocks # <<>>
    /\ phase = "ready" /\ pc \in {"program", "verify"} =>
          /\ start .. hi - 1 \subseteq Managed /\ lo < hi
          /\ data \in [start .. hi - 1 -> Cell]
    /\ pc \in {"rawprogram", "rawerase"} =>
          ~runtime /\ hi <= RuntimeBase /\ lo < hi
    /\ pc = "rawprogram" => data \in [start .. hi - 1 -> Cell]
    /\ pc = "rawerase" => (hi - lo) % BlockSize = 0

\* An outstanding command stays inside what its call was checked against.
LateOK ==
    /\ DOMAIN late \subseteq Managed \cup Below0
    /\ phase \in {"off", "format"} => ~Busy
    /\ phase = "ready" /\ pc \in {"verify", "blank"} => ~Busy
    /\ phase = "ready" => DOMAIN late \cap Window \subseteq suspect \cup InDoubt

ReachInv == TypeOK /\ SpanOK /\ LateOK

LEMMA ReachInit == Init => ReachInv
<1> SUFFICES ASSUME Init PROVE ReachInv
  OBVIOUS
<1>1. DOMAIN late = {} /\ blocks = <<>> 
  BY DEF Init, Nothing, Quiet
<1>2. TypeOK
  <2>1. nor \in [Addresses -> Cell]
    BY RequestAssumption DEF Init
  <2>2. shadow \in [Window -> Cell]
    BY DEF Init, Cell
  <2>3. blocks \in Seq({lba \in 0 .. BlockCount - 1 : LbaWritable(lba)})
    BY <1>1
  <2>4. protected \in BOOLEAN /\ runtime \in BOOLEAN
    BY Zenon DEF Init
  <2>5. hi \in 0 .. WindowEnd /\ start \in 0 .. hi /\ lo \in start .. hi
    BY Layout DEF Init, Quiet
  <2>6. phase \in {"off", "format", "ready", "failed"} /\ pc \in Pcs
    BY DEF Init, Quiet, Pcs
  <2>7. suspect \subseteq Managed
    BY DEF Init
  <2> QED  BY <1>1, <2>1, <2>2, <2>3, <2>4, <2>5, <2>6, <2>7 DEF TypeOK
<1>3. SpanOK
  BY DEF Init, Quiet, SpanOK
<1>4. LateOK
  BY <1>1 DEF Init, Quiet, LateOK, Busy
<1> QED  BY <1>2, <1>3, <1>4 DEF ReachInv

\* A step that leaves the operation and the part alone.
LEMMA ReachIdle ==
    ASSUME ReachInv, UNCHANGED <<part, span, blocks, pc, shadow, suspect>>,
           phase' \in {"off", "failed"} => pc = "idle" /\ ~runtime', 
           phase' # phase => phase = "off" /\ phase' = "failed",
           runtime' \in BOOLEAN, runtime' # runtime => pc = "idle" /\ phase = "ready"
    PROVE  ReachInv'
<1>1. TypeOK'
  BY DEF ReachInv, TypeOK, part, span
<1>2. SpanOK'
  BY DEF ReachInv, SpanOK, TypeOK, part, span
<1>3. LateOK'
  BY DEF ReachInv, LateOK, TypeOK, SpanOK, part, span, Busy, InDoubt
<1> QED  BY <1>1, <1>2, <1>3 DEF ReachInv

\* A page never ends past its span, and makes progress.
LEMMA PageStep ==
    ASSUME lo \in Nat, hi \in Nat, lo < hi
    PROVE  PageEnd \in Nat /\ lo < PageEnd /\ PageEnd <= hi
<1>1. PageSize \in Nat /\ PageSize > 0
  BY RequestAssumption
<1> DEFINE p == (lo \div PageSize + 1) * PageSize
<1>2. p \in Nat /\ lo < p
  BY <1>1, SMT
<1>3. PageEnd = p \/ PageEnd = hi
  BY DEF PageEnd, MinOf
<1>4. PageEnd <= hi
  BY <1>2 DEF PageEnd, MinOf
<1> QED  BY <1>2, <1>3, <1>4

\* Erasing sector by sector an aligned length never overruns it.
LEMMA SectorStep ==
    ASSUME NEW n \in Nat, n > 0, n % BlockSize = 0
    PROVE  BlockSize <= n /\ (n - BlockSize) % BlockSize = 0
<1>1. BlockSize \in Nat /\ BlockSize > 0
  BY LayoutAssumption
<1> DEFINE q == n \div BlockSize
<1>2. q \in Nat /\ n = q * BlockSize
  BY <1>1, SMT
<1>3. q >= 1
  BY <1>1, <1>2, SMT
<1>4. n - BlockSize = (q - 1) * BlockSize /\ q - 1 \in Nat
  BY <1>1, <1>2, <1>3, SMT
<1>5. \A k \in Nat : (k * BlockSize) % BlockSize = 0
  BY <1>1, SMT
<1>6. BlockSize <= n
  BY <1>1, <1>2, <1>3, <1>4, SMT
<1> QED  BY <1>4, <1>5, <1>6

\* The elements of three sequences in a row.
LEMMA ThreeInARow ==
    ASSUME NEW L, NEW A \in Seq(L), NEW B \in Seq(L), NEW C \in Seq(L)
    PROVE  /\ A \o B \o C \in Seq(L)
           /\ Len(A \o B \o C) = Len(A) + Len(B) + Len(C)
           /\ \A i \in 1 .. Len(A) : (A \o B \o C)[i] = A[i]
           /\ \A i \in 1 .. Len(B) : (A \o B \o C)[Len(A) + i] = B[i]
           /\ \A i \in 1 .. Len(C) : (A \o B \o C)[Len(A) + Len(B) + i] = C[i]
<1> DEFINE AB == A \o B
<1>1. /\ AB \in Seq(L) /\ Len(AB) = Len(A) + Len(B)
      /\ \A i \in 1 .. Len(A) : AB[i] = A[i]
      /\ \A i \in 1 .. Len(B) : AB[Len(A) + i] = B[i]
      /\ Len(A) \in Nat /\ Len(B) \in Nat /\ Len(C) \in Nat
  OBVIOUS
<1> HIDE DEF AB
<1>2. /\ AB \o C \in Seq(L) /\ Len(AB \o C) = Len(AB) + Len(C)
      /\ \A i \in 1 .. Len(AB) : (AB \o C)[i] = AB[i]
      /\ \A i \in 1 .. Len(C) : (AB \o C)[Len(AB) + i] = C[i]
  <2>1. AB \in Seq(L) /\ C \in Seq(L)
    BY <1>1
  <2> QED  BY <2>1
<1>3. /\ \A i \in 1 .. Len(A) : (AB \o C)[i] = A[i]
      /\ \A i \in 1 .. Len(B) : (AB \o C)[Len(A) + i] = B[i]
  BY <1>1, <1>2
<1> QED
  BY <1>1, <1>2, <1>3 DEF AB

\* The blocks first .. last, one after the other.
LEMMA RunOfBlocks ==
    ASSUME NEW L, NEW first \in Nat, NEW last \in Nat, first .. last \subseteq L,
           first <= last
    PROVE  /\ BlockRun(first, last) \in Seq(L)
           /\ Len(BlockRun(first, last)) = last - first + 1
           /\ \A i \in 1 .. Len(BlockRun(first, last)) :
                 BlockRun(first, last)[i] = first + i - 1
<1>1. last - first + 1 \in Nat
  OBVIOUS
<1>2. \A i \in 1 .. last - first + 1 : first + i - 1 \in L
  OBVIOUS
<1>3. /\ BlockRun(first, last) \in Seq(L)
      /\ Len(BlockRun(first, last)) = last - first + 1
  BY <1>1, <1>2 DEF BlockRun
<1> QED  BY <1>1, <1>3 DEF BlockRun

\* Formatting erases writable blocks only, and between them every managed cell.
LEMMA FormatList ==
    /\ FormatBlocks \in Seq({lba \in 0 .. BlockCount - 1 : LbaWritable(lba)})
    /\ FormatBlocks # <<>>
    /\ \A w \in Managed : \E i \in 1 .. Len(FormatBlocks) : w \in Block(FormatBlocks[i])
<1> DEFINE L == {lba \in 0 .. BlockCount - 1 : LbaWritable(lba)}
           A == BlockRun(0, VariableLast)
           B == BlockRun(WorkingFirst, WorkingLast)
           C == BlockRun(SpareFirst, SpareLast)
<1>1. /\ VariableLast \in Nat /\ WorkingFirst \in Nat /\ WorkingLast \in Nat
      /\ SpareFirst \in Nat /\ SpareLast \in Nat /\ BlockCount \in Nat
      /\ VariableLast < WorkingFirst /\ WorkingFirst <= WorkingLast
      /\ WorkingLast < SpareFirst /\ SpareFirst <= SpareLast /\ SpareLast < BlockCount
  BY LayoutAssumption
<1>2. /\ 0 .. VariableLast \subseteq L /\ WorkingFirst .. WorkingLast \subseteq L
      /\ SpareFirst .. SpareLast \subseteq L
  BY <1>1 DEF LbaWritable
<1>3. 0 \in Nat /\ 0 <= VariableLast
  BY <1>1
<1>4. FormatBlocks = A \o B \o C
  BY DEF FormatBlocks
<1> HIDE DEF L
<1>5. /\ A \in Seq(L) /\ Len(A) = VariableLast - 0 + 1
      /\ \A i \in 1 .. Len(A) : A[i] = 0 + i - 1
  <2>1. /\ 0 \in Nat /\ VariableLast \in Nat /\ 0 .. VariableLast \subseteq L
        /\ 0 <= VariableLast
    BY <1>1, <1>2, <1>3
  <2> QED  BY <2>1, RunOfBlocks, Zenon
<1>6. /\ B \in Seq(L) /\ Len(B) = WorkingLast - WorkingFirst + 1
      /\ \A i \in 1 .. Len(B) : B[i] = WorkingFirst + i - 1
  <2>1. /\ WorkingFirst \in Nat /\ WorkingLast \in Nat /\ WorkingFirst .. WorkingLast \subseteq L
        /\ WorkingFirst <= WorkingLast
    BY <1>1, <1>2
  <2> QED  BY <2>1, RunOfBlocks, Zenon
<1>7. /\ C \in Seq(L) /\ Len(C) = SpareLast - SpareFirst + 1
      /\ \A i \in 1 .. Len(C) : C[i] = SpareFirst + i - 1
  <2>1. /\ SpareFirst \in Nat /\ SpareLast \in Nat /\ SpareFirst .. SpareLast \subseteq L
        /\ SpareFirst <= SpareLast
    BY <1>1, <1>2
  <2> QED  BY <2>1, RunOfBlocks, Zenon
<1> HIDE DEF A, B, C
<1> DEFINE F == A \o B \o C
<1> HIDE DEF F
<1>8. /\ F \in Seq(L) /\ Len(F) = Len(A) + Len(B) + Len(C)
      /\ \A i \in 1 .. Len(A) : F[i] = A[i]
      /\ \A i \in 1 .. Len(B) : F[Len(A) + i] = B[i]
      /\ \A i \in 1 .. Len(C) : F[Len(A) + Len(B) + i] = C[i]
  <2>1. A \in Seq(L) /\ B \in Seq(L) /\ C \in Seq(L)
    BY <1>5, <1>6, <1>7
  <2>2. /\ A \o B \o C \in Seq(L)
        /\ Len(A \o B \o C) = Len(A) + Len(B) + Len(C)
        /\ \A i \in 1 .. Len(A) : (A \o B \o C)[i] = A[i]
        /\ \A i \in 1 .. Len(B) : (A \o B \o C)[Len(A) + i] = B[i]
        /\ \A i \in 1 .. Len(C) : (A \o B \o C)[Len(A) + Len(B) + i] = C[i]
    BY <2>1, ThreeInARow
  <2> QED  BY <2>2 DEF F
<1>9. Len(A) \in Nat /\ Len(B) \in Nat /\ Len(C) \in Nat /\ Len(A) > 0
  BY <1>1, <1>5, <1>6, <1>7
<1>10. \A l \in 0 .. VariableLast : \E i \in 1 .. Len(F) : F[i] = l
  <2> SUFFICES ASSUME NEW l \in 0 .. VariableLast
               PROVE  \E i \in 1 .. Len(F) : F[i] = l
    OBVIOUS
  <2> DEFINE i == l + 1
  <2>1. i \in 1 .. Len(A) /\ A[i] = l
    BY <1>1, <1>5
  <2>2. i \in 1 .. Len(F) /\ F[i] = l
    BY <1>8, <1>9, <2>1
  <2> QED  BY <2>2
<1>11. \A l \in WorkingFirst .. WorkingLast : \E i \in 1 .. Len(F) : F[i] = l
  <2> SUFFICES ASSUME NEW l \in WorkingFirst .. WorkingLast
               PROVE  \E i \in 1 .. Len(F) : F[i] = l
    OBVIOUS
  <2> DEFINE i == l - WorkingFirst + 1
  <2>1. i \in 1 .. Len(B) /\ B[i] = l
    BY <1>1, <1>6
  <2>2. Len(A) + i \in 1 .. Len(F) /\ F[Len(A) + i] = l
    BY <1>8, <1>9, <2>1
  <2> QED  BY <2>2
<1>12. \A l \in SpareFirst .. SpareLast : \E i \in 1 .. Len(F) : F[i] = l
  <2> SUFFICES ASSUME NEW l \in SpareFirst .. SpareLast
               PROVE  \E i \in 1 .. Len(F) : F[i] = l
    OBVIOUS
  <2> DEFINE i == l - SpareFirst + 1
  <2>1. i \in 1 .. Len(C) /\ C[i] = l
    BY <1>1, <1>7
  <2>2. Len(A) + Len(B) + i \in 1 .. Len(F) /\ F[Len(A) + Len(B) + i] = l
    BY <1>8, <1>9, <2>1
  <2> QED  BY <2>2
<1>13. \A w \in Managed : \E i \in 1 .. Len(F) : w \in Block(F[i])
  <2> SUFFICES ASSUME NEW w \in Managed
               PROVE  \E i \in 1 .. Len(F) : w \in Block(F[i])
    OBVIOUS
  <2>1. CASE w \in Region(0, VariableLast)
    BY <1>1, <1>10, <2>1, RegionBlock
  <2>2. CASE w \in Region(WorkingFirst, WorkingLast)
    BY <1>1, <1>11, <2>2, RegionBlock
  <2>3. CASE w \in Region(SpareFirst, SpareLast)
    BY <1>1, <1>12, <2>3, RegionBlock
  <2> QED  BY <2>1, <2>2, <2>3 DEF Managed
<1>14. F # <<>>
  <2>1. Len(F) > 0 /\ Len(<<>>) = 0
    BY <1>8, <1>9
  <2> QED  BY <2>1
<1> QED
  BY <1>4, <1>8, <1>13, <1>14 DEF L, F

LEMMA ReachEntry ==
    ASSUME ReachInv, Entry
    PROVE  ReachInv'
<1>0. TypeOK /\ SpanOK /\ LateOK
  BY DEF ReachInv
<1>1. CASE EntryFails
  BY <1>0, <1>1, ReachIdle DEF EntryFails, ReachInv, TypeOK, SpanOK
<1>2. CASE Load
  <2>1. TypeOK'
    <3>1. shadow' \in [Window -> Cell]
      BY <1>0, <1>2, Layout DEF Load, TypeOK
    <3>2. blocks' \in Seq({lba \in 0 .. BlockCount - 1 : LbaWritable(lba)})
      BY <1>0, <1>2, FormatList DEF Load, TypeOK
    <3>3. phase' \in {"off", "format", "ready", "failed"} /\ pc' \in Pcs
      BY <1>0, <1>2 DEF Load, TypeOK, Pcs
    <3> QED  BY <1>0, <1>2, <3>1, <3>2, <3>3 DEF Load, TypeOK, part, span
  <2>2. SpanOK'
    BY <1>0, <1>2, FormatList DEF Load, SpanOK, part, span
  <2>3. LateOK'
    BY <1>0, <1>2 DEF Load, LateOK, Busy, part
  <2> QED  BY <2>1, <2>2, <2>3 DEF ReachInv
<1>3. CASE FormatErase
  <2> DEFINE target == Erased(Block(Head(blocks)))
  <2>1. /\ Head(blocks) \in 0 .. BlockCount - 1 /\ LbaWritable(Head(blocks))
        /\ Tail(blocks) \in Seq({lba \in 0 .. BlockCount - 1 : LbaWritable(lba)})
    BY <1>0, <1>3 DEF TypeOK, SpanOK, FormatErase
  <2>2. DOMAIN target \subseteq Managed /\ \A a \in DOMAIN target : target[a] \in Cell
    BY <2>1, BlockManaged DEF Erased, Cell
  <2> HIDE DEF target
  <2>3. Commanded(target) \/ Fails(target)
    BY <1>3 DEF FormatErase, FormatFails, target
  <2>4. /\ nor' \in [Addresses -> Cell]
        /\ DOMAIN late' \subseteq DOMAIN late \cup DOMAIN target
        /\ \A a \in DOMAIN late' : late'[a] \in Cell
    BY <1>0, <2>2, <2>3, Primitive, Layout DEF TypeOK
  <2>5. CASE FormatFails(target)
    <3>1. TypeOK'
      <4>1. blocks' \in Seq({lba \in 0 .. BlockCount - 1 : LbaWritable(lba)})
        BY <2>5 DEF FormatFails
      <4> QED
        BY <1>0, <2>2, <2>4, <2>5, <4>1, Layout DEF FormatFails, TypeOK, Pcs, span
    <3>2. SpanOK'
      BY <1>0, <1>3, <2>5 DEF FormatErase, FormatFails, SpanOK, span
    <3>3. LateOK'
      BY <1>0, <2>2, <2>4, <2>5 DEF FormatFails, LateOK
    <3> QED  BY <3>1, <3>2, <3>3 DEF ReachInv
  <2>6. CASE ~FormatFails(target)
    <3>1. /\ Commanded(target) /\ blocks' = Tail(blocks)
          /\ phase = "format" /\ phase' = "format"
          /\ pc' = IF Tail(blocks) # <<>> THEN "erase" ELSE "program"
          /\ shadow' \in [Window -> Cell]
          /\ UNCHANGED <<protected, phase, runtime, span, reply, suspect>>
      BY <1>0, <1>3, <2>6 DEF FormatErase, TypeOK, target, Cell
    <3>2. ~Busy'
      BY <3>1 DEF Commanded, Busy, Nothing
    <3>3. TypeOK'
      BY <1>0, <2>1, <2>2, <2>4, <3>1, Layout DEF TypeOK, Pcs, span
    <3>4. SpanOK'
      BY <1>0, <3>1 DEF SpanOK, span
    <3>5. LateOK'
      BY <1>0, <3>1, <3>2 DEF LateOK, Busy
    <3> QED  BY <3>3, <3>4, <3>5 DEF ReachInv
  <2> QED  BY <2>5, <2>6
<1>4. CASE FormatProgram
  <2> DEFINE target == [c \in HeaderCells |-> nor[c] \cup Bits]
  <2>2. DOMAIN target \subseteq Managed /\ \A a \in DOMAIN target : target[a] \in Cell
    BY <1>0, Layout DEF TypeOK, Cell
  <2> HIDE DEF target
  <2>3. Commanded(target) \/ Fails(target)
    BY <1>4 DEF FormatProgram, FormatFails, target
  <2>4. /\ nor' \in [Addresses -> Cell]
        /\ DOMAIN late' \subseteq DOMAIN late \cup DOMAIN target
        /\ \A a \in DOMAIN late' : late'[a] \in Cell
    BY <1>0, <2>2, <2>3, Primitive, Layout DEF TypeOK
  <2>5. CASE FormatFails(target)
    <3>1. TypeOK'
      <4>1. blocks' \in Seq({lba \in 0 .. BlockCount - 1 : LbaWritable(lba)})
        BY <2>5 DEF FormatFails
      <4> QED
        BY <1>0, <2>2, <2>4, <2>5, <4>1, Layout DEF FormatFails, TypeOK, Pcs, span
    <3>2. SpanOK'
      BY <1>0, <1>4, <2>5 DEF FormatProgram, FormatFails, SpanOK, span
    <3>3. LateOK'
      BY <1>0, <2>2, <2>4, <2>5 DEF FormatFails, LateOK
    <3> QED  BY <3>1, <3>2, <3>3 DEF ReachInv
  <2>6. CASE ~FormatFails(target)
    <3>1. /\ Commanded(target) /\ phase = "format" /\ pc' = "verify"
          /\ UNCHANGED <<protected, phase, runtime, shadow, span, blocks, reply, suspect>>
      BY <1>4, <2>6 DEF FormatProgram, target
    <3>2. ~Busy'
      BY <3>1 DEF Commanded, Busy, Nothing
    <3>3. TypeOK'
      BY <1>0, <2>2, <2>4, <3>1, Layout DEF TypeOK, Pcs, span
    <3>4. SpanOK'
      BY <1>0, <3>1 DEF SpanOK, span
    <3>5. LateOK'
      BY <1>0, <3>1, <3>2 DEF LateOK, Busy
    <3> QED  BY <3>3, <3>4, <3>5 DEF ReachInv
  <2> QED  BY <2>5, <2>6
<1>5. CASE FormatVerify
  <2>1. shadow' \in [Window -> Cell]
    BY <1>0, <1>5 DEF FormatVerify, TypeOK, Cell
  <2>2. TypeOK'
    BY <1>0, <1>5, <2>1 DEF FormatVerify, TypeOK, Pcs, part, span
  <2>3. SpanOK'
    BY <1>0, <1>5 DEF FormatVerify, SpanOK, span
  <2>4. LateOK'
    BY <1>0, <1>5 DEF FormatVerify, LateOK, Busy, part
  <2> QED  BY <2>2, <2>3, <2>4 DEF ReachInv
<1> QED
  BY <1>1, <1>2, <1>3, <1>4, <1>5 DEF Entry

\* A request that is turned away.
LEMMA ReachRefuse ==
    ASSUME ReachInv, NEW status, NEW n, Refuse(status, n)
    PROVE  ReachInv'
BY ReachIdle DEF Refuse, ReachInv, SpanOK, TypeOK

\* An operation that ends, well or badly.
LEMMA ReachFinish ==
    ASSUME ReachInv, NEW status, NEW n, Finish(status, n),
           phase = "ready", UNCHANGED <<protected, phase, runtime>>,
           nor' \in [Addresses -> Cell], shadow' \in [Window -> Cell],
           \A a \in DOMAIN late' : late'[a] \in Cell,
           DOMAIN late' \subseteq Managed \cup Below0,
           DOMAIN late' \cap Window \subseteq suspect', suspect' \subseteq Managed
    PROVE  ReachInv'
<1>1. TypeOK'
  <2>1. blocks' \in Seq({lba \in 0 .. BlockCount - 1 : LbaWritable(lba)})
    BY DEF Finish
  <2>2. DOMAIN late' \subseteq Addresses
    <3>1. Managed \subseteq Addresses /\ Below0 \subseteq Addresses
      BY Layout DEF Below0, Addresses
    <3> QED  BY <3>1
  <2>3. hi' \in 0 .. WindowEnd /\ start' \in 0 .. hi' /\ lo' \in start' .. hi'
    BY Layout DEF Finish
  <2> QED  BY <2>1, <2>2, <2>3 DEF ReachInv, TypeOK, Finish, Pcs
<1>2. SpanOK'
  BY DEF Finish, SpanOK
<1>3. LateOK'
  BY DEF Finish, LateOK
<1> QED  BY <1>1, <1>2, <1>3 DEF ReachInv

\* What Accepting tells of the state.
LEMMA Accepted ==
    ASSUME ReachInv, Accepting
    PROVE  /\ phase = "ready" /\ pc = "idle" /\ InDoubt = {}
           /\ DOMAIN late \cap Window \subseteq suspect
BY DEF ReachInv, Accepting, InDoubt, LateOK

LEMMA ReachFvbWrite ==
    ASSUME ReachInv, NEW lba \in 0 .. BlockCount, NEW offset \in 0 .. BlockSize + 1,
           NEW len \in 1 .. MaxLength, FvbWrite(lba, offset, len)
    PROVE  ReachInv'
<1>0. TypeOK /\ SpanOK /\ LateOK
  BY DEF ReachInv
<1>1. BlockSize \in Nat /\ BlockCount \in Nat /\ MaxLength \in Nat
  BY LayoutAssumption, RequestAssumption
<1> DEFINE first == BlockBase(lba) + offset
<1>2. CASE \E status, n : Refuse(status, n)
  BY <1>2, ReachRefuse
<1>3. CASE ~\E status, n : Refuse(status, n)
  <2>1. /\ lba < BlockCount /\ offset <= BlockSize
        /\ LbaWritable(lba) /\ ~TooLong(offset, len) /\ Accepting
    BY <1>1, <1>3 DEF FvbWrite
  <2>2. PICK buf \in [first .. first + len - 1 -> Cell] :
          /\ start' = first /\ lo' = first /\ hi' = first + len
          /\ data' = buf /\ pc' = "program"
          /\ UNCHANGED <<part, phase, runtime, shadow, blocks, suspect>>
    BY <1>3, <2>1 DEF FvbWrite
  <2>3. BlockBase(lba) \in Nat /\ Block(lba) \subseteq Managed
    BY <1>1, <2>1, BlockManaged
  <2>4. first \in Nat /\ len \in Nat /\ len > 0 /\ first .. first + len - 1 \subseteq Block(lba)
    BY <1>1, <2>1, <2>3 DEF TooLong, Block
  <2> HIDE DEF first
  <2>5. first .. first + len - 1 \subseteq Managed
    BY <2>3, <2>4
  <2>6. first + len <= WindowEnd
    <3>1. first + len - 1 \in Window
      BY <2>4, <2>5, Layout
    <3> QED  BY <2>4, <3>1, Layout DEF Window
  <2>7. TypeOK'
    BY <1>0, <2>2, <2>4, <2>6, Layout DEF TypeOK, Pcs, part
  <2>8. SpanOK'
    BY <1>0, <2>1, <2>2, <2>4, <2>5 DEF SpanOK, Accepting
  <2>9. LateOK'
    BY <1>0, <2>1, <2>2, Accepted DEF ReachInv, LateOK, Accepting, part
  <2> QED  BY <2>7, <2>8, <2>9 DEF ReachInv
<1> QED  BY <1>2, <1>3

LEMMA ReachEraseBlocks ==
    ASSUME ReachInv, NEW list \in EraseLists, FvbEraseBlocks(list)
    PROVE  ReachInv'
<1>0. TypeOK /\ SpanOK /\ LateOK
  BY DEF ReachInv
<1>1. CASE \E status, n : Refuse(status, n)
  BY <1>1, ReachRefuse
<1>2. CASE ~\E status, n : Refuse(status, n)
  <2>1. Accepting /\ Bad(list) = {} /\ list # <<>>
    BY <1>2 DEF FvbEraseBlocks
  <2>2. /\ blocks' = list /\ pc' = "erase"
        /\ UNCHANGED <<part, phase, runtime, shadow, span, suspect>>
    BY <1>2, <2>1 DEF FvbEraseBlocks
  <2>3. list \in Seq({lba \in 0 .. BlockCount - 1 : LbaWritable(lba)})
    <3>1. list \in Seq(Nat) /\ BlockCount \in Nat
      BY RequestAssumption, LayoutAssumption
    <3>2. \A i \in DOMAIN list : list[i] \in {lba \in 0 .. BlockCount - 1 : LbaWritable(lba)}
      BY <2>1, <3>1 DEF Bad
    <3> QED  BY <3>1, <3>2
  <2>4. TypeOK'
    BY <1>0, <2>2, <2>3 DEF TypeOK, Pcs, part, span
  <2>5. SpanOK'
    BY <1>0, <2>1, <2>2 DEF SpanOK, Accepting, span
  <2>6. LateOK'
    BY <1>0, <2>1, <2>2, Accepted DEF ReachInv, LateOK, Accepting, part
  <2> QED  BY <2>4, <2>5, <2>6 DEF ReachInv
<1> QED  BY <1>1, <1>2

LEMMA ReachNorFlash ==
    ASSUME ReachInv, NEW at \in 0 .. RuntimeBase, NEW len \in Nat, len > 0,
           NorFlashProgram(at, len) \/ NorFlashErase(at, len)
    PROVE  ReachInv'
<1>0. TypeOK /\ SpanOK /\ LateOK
  BY DEF ReachInv
<1>1. CASE \E status, n : Refuse(status, n)
  BY <1>1, ReachRefuse
<1>2. CASE ~\E status, n : Refuse(status, n)
  <2>1. Accepting /\ ~runtime /\ Below(at, len)
    BY <1>2 DEF NorFlashProgram, NorFlashErase
  <2>2. /\ start' = at /\ lo' = at /\ hi' = at + len
        /\ UNCHANGED <<part, phase, runtime, shadow, blocks, suspect>>
        /\ \/ pc' = "rawprogram" /\ data' \in [at .. at + len - 1 -> Cell]
           \/ pc' = "rawerase" /\ len % BlockSize = 0
    BY <1>2 DEF NorFlashProgram, NorFlashErase
  <2>3. at \in Nat /\ at + len <= RuntimeBase /\ at + len \in Nat /\ (at + len) - at = len
    BY <2>1, Layout DEF Below
  <2>4. TypeOK'
    BY <1>0, <2>2, <2>3, Layout DEF TypeOK, Pcs, part
  <2>5. SpanOK'
    <3>1. CASE pc' = "rawprogram"
      BY <1>0, <2>1, <2>2, <2>3, <3>1 DEF SpanOK, Accepting
    <3>2. CASE pc' = "rawerase"
      BY <1>0, <2>1, <2>2, <2>3, <3>2 DEF SpanOK, Accepting
    <3> QED  BY <2>2, <3>1, <3>2
  <2>6. LateOK'
    BY <1>0, <2>1, <2>2, Accepted DEF ReachInv, LateOK, Accepting, part
  <2> QED  BY <2>4, <2>5, <2>6 DEF ReachInv
<1> QED  BY <1>1, <1>2

LEMMA ReachRequest ==
    ASSUME ReachInv, Request
    PROVE  ReachInv'
<1>1. \A len \in 1 .. MaxLength : len \in Nat /\ len > 0
  BY RequestAssumption
<1>2. \A len \in 1 .. 2 * BlockSize : len \in Nat /\ len > 0
  BY LayoutAssumption
<1> QED
  BY <1>1, <1>2, ReachFvbWrite, ReachEraseBlocks, ReachNorFlash DEF Request

-----------------------------------------------------------------------------
(* The operations under way. *)

LEMMA ReachProgramPage ==
    ASSUME ReachInv, FvbProgramPage
    PROVE  ReachInv'
<1>0. TypeOK /\ SpanOK /\ LateOK
  BY DEF ReachInv
<1> DEFINE target == Programmed(lo .. PageEnd - 1)
<1>1. /\ phase = "ready" /\ pc = "program" /\ lo < hi
      /\ lo \in Nat /\ hi \in Nat /\ start \in Nat /\ start <= lo
      /\ start .. hi - 1 \subseteq Managed /\ data \in [start .. hi - 1 -> Cell]
  BY <1>0, Layout DEF FvbProgramPage, TypeOK, SpanOK
<1>2. PageEnd \in Nat /\ lo < PageEnd /\ PageEnd <= hi
  BY <1>1, PageStep
<1>3. DOMAIN target \subseteq start .. hi - 1
  BY <1>1, <1>2 DEF Programmed
<1>4. \A a \in DOMAIN target : target[a] \in Cell
  <2> SUFFICES ASSUME NEW a \in DOMAIN target PROVE nor[a] \cup data[a] \in Cell
    BY DEF Programmed
  <2>1. nor[a] \in Cell /\ data[a] \in Cell
    BY <1>0, <1>1, <1>3, Layout DEF TypeOK
  <2> QED  BY <2>1 DEF Cell
<1>5. Commanded(target) \/ Fails(target)
  BY DEF FvbProgramPage
<1> HIDE DEF target
<1>6. /\ nor' \in [Addresses -> Cell]
      /\ DOMAIN late' \subseteq DOMAIN late \cup DOMAIN target
      /\ \A a \in DOMAIN late' : late'[a] \in Cell
  BY <1>0, <1>1, <1>3, <1>4, <1>5, Primitive, Layout DEF TypeOK
<1>7. CASE /\ Fails(target) /\ Finish("error", 0)
           /\ suspect' = suspect \cup (start .. hi - 1)
           /\ UNCHANGED <<protected, phase, runtime, shadow, count>>
  <2>1. InDoubt = start .. hi - 1
    BY <1>1 DEF InDoubt
  <2>2. /\ DOMAIN late' \cap Window \subseteq suspect'
        /\ DOMAIN late' \subseteq Managed \cup Below0
    BY <1>0, <1>1, <1>3, <1>6, <1>7, <2>1 DEF LateOK
  <2>3. shadow' \in [Window -> Cell] /\ suspect' \subseteq Managed
    BY <1>0, <1>1, <1>7 DEF TypeOK
  <2> QED  BY <1>1, <1>6, <1>7, <2>2, <2>3, ReachFinish
<1>8. CASE /\ Commanded(target)
           /\ \/ PageEnd < hi /\ lo' = PageEnd /\ pc' = "program"
              \/ lo' = start /\ pc' = "verify"
           /\ UNCHANGED <<protected, phase, runtime, shadow, start, hi, data,
                          blocks, reply, suspect, count>>
  <2>1. DOMAIN late' = {} /\ ~Busy'
    BY <1>8 DEF Commanded, Busy, Nothing
  <2>2. lo' \in Nat /\ start <= lo' /\ lo' < hi
    BY <1>1, <1>2, <1>8
  <2>3. TypeOK'
    BY <1>0, <1>1, <1>6, <1>8, <2>1, <2>2 DEF TypeOK, Pcs
  <2>4. SpanOK'
    BY <1>0, <1>1, <1>8, <2>2 DEF SpanOK
  <2>5. LateOK'
    BY <1>1, <1>8, <2>1 DEF LateOK
  <2> QED  BY <2>3, <2>4, <2>5 DEF ReachInv
<1> QED
  BY <1>1, <1>7, <1>8 DEF FvbProgramPage, target

\* A chunk is part of the span, and the verify loop makes progress.
LEMMA ChunkStep ==
    ASSUME lo \in Nat, hi \in Nat, lo < hi
    PROVE  /\ ChunkEnd \in Nat /\ lo < ChunkEnd /\ ChunkEnd <= hi
           /\ Chunk \subseteq lo .. hi - 1
<1>1. VerifySize \in Nat /\ VerifySize > 0
  BY RequestAssumption
<1>2. ChunkEnd \in Nat /\ lo < ChunkEnd /\ ChunkEnd <= hi
  BY <1>1 DEF ChunkEnd, MinOf
<1> QED  BY <1>2 DEF Chunk

LEMMA ReachVerify ==
    ASSUME ReachInv, FvbVerifyFails \/ FvbVerifyChunk
    PROVE  ReachInv'
<1>0. TypeOK /\ SpanOK /\ LateOK
  BY DEF ReachInv
<1>1. /\ phase = "ready" /\ pc = "verify" /\ lo < hi
      /\ lo \in Nat /\ hi \in Nat /\ start \in Nat /\ start <= lo
      /\ start .. hi - 1 \subseteq Managed /\ data \in [start .. hi - 1 -> Cell]
  BY <1>0, Layout DEF FvbVerifyFails, FvbVerifyChunk, TypeOK, SpanOK
<1>2. DOMAIN late = {}
  BY <1>0, <1>1 DEF LateOK, Busy
<1>3. CASE FvbVerifyFails
  <2>1. suspect' \subseteq Managed
    BY <1>0, <1>1, <1>3 DEF FvbVerifyFails, TypeOK
  <2>2. /\ Finish("error", lo - start) /\ UNCHANGED <<protected, phase, runtime>>
        /\ UNCHANGED <<nor, late, shadow>>
    BY <1>3 DEF FvbVerifyFails, part
  <2> QED  BY <1>0, <1>1, <1>2, <2>1, <2>2, ReachFinish DEF TypeOK
<1>4. CASE FvbVerifyChunk
  <2>1. ChunkEnd \in Nat /\ lo < ChunkEnd /\ ChunkEnd <= hi /\ Chunk \subseteq start .. hi - 1
    BY <1>1, ChunkStep
  <2>2. shadow' \in [Window -> Cell]
    BY <1>0, <1>1, <1>4, <2>1 DEF FvbVerifyChunk, TypeOK
  <2>3. /\ suspect' \subseteq Managed /\ UNCHANGED <<protected, phase, runtime>>
        /\ UNCHANGED <<nor, late>>
    BY <1>0, <1>4 DEF FvbVerifyChunk, TypeOK, part
  <2>4. CASE Finish("ok", hi - start)
    BY <1>0, <1>1, <1>2, <2>2, <2>3, <2>4, ReachFinish DEF TypeOK
  <2>5. CASE /\ ChunkEnd < hi /\ lo' = ChunkEnd
             /\ UNCHANGED <<pc, start, hi, data, blocks, reply>>
    <3>1. TypeOK'
      BY <1>0, <1>1, <2>1, <2>2, <2>3, <2>5 DEF TypeOK
    <3>2. SpanOK'
      BY <1>0, <1>1, <2>1, <2>3, <2>5 DEF SpanOK
    <3>3. LateOK'
      BY <1>0, <1>1, <1>2, <2>3, <2>5 DEF LateOK, Busy
    <3> QED  BY <3>1, <3>2, <3>3 DEF ReachInv
  <2> QED  BY <1>4, <2>4, <2>5 DEF FvbVerifyChunk
<1> QED  BY <1>3, <1>4

LEMMA ReachEraseSector ==
    ASSUME ReachInv, FvbEraseSector
    PROVE  ReachInv'
<1>0. TypeOK /\ SpanOK /\ LateOK
  BY DEF ReachInv
<1> DEFINE block  == Block(Head(blocks))
           target == Erased(block)
<1>1. phase = "ready" /\ pc = "erase"
  BY DEF FvbEraseSector
<1>2. block \subseteq Managed
  <2>1. Head(blocks) \in 0 .. BlockCount - 1 /\ LbaWritable(Head(blocks))
    BY <1>0, <1>1 DEF TypeOK, SpanOK
  <2> QED  BY <2>1, BlockManaged
<1>3. DOMAIN target = block /\ \A a \in DOMAIN target : target[a] \in Cell
  BY DEF Erased, Cell
<1>4. \/ /\ Fails(target) /\ Finish("error", 0)
         /\ suspect' = suspect \cup block
         /\ UNCHANGED <<protected, phase, runtime, shadow, count>>
      \/ /\ Commanded(target) /\ pc' = "blank"
         /\ UNCHANGED <<protected, phase, runtime, shadow, span, blocks, reply,
                        suspect, count>>
  BY DEF FvbEraseSector
<1> HIDE DEF target, block
<1>5. /\ nor' \in [Addresses -> Cell]
      /\ DOMAIN late' \subseteq DOMAIN late \cup DOMAIN target
      /\ \A a \in DOMAIN late' : late'[a] \in Cell
  BY <1>0, <1>2, <1>3, <1>4, Primitive, Layout DEF TypeOK
<1>6. CASE /\ Fails(target) /\ Finish("error", 0)
           /\ suspect' = suspect \cup block
           /\ UNCHANGED <<protected, phase, runtime, shadow, count>>
  <2>1. InDoubt = {}
    BY <1>1 DEF InDoubt
  <2>2. /\ DOMAIN late' \cap Window \subseteq suspect'
        /\ DOMAIN late' \subseteq Managed \cup Below0
    BY <1>0, <1>1, <1>2, <1>3, <1>5, <1>6, <2>1 DEF LateOK
  <2>3. shadow' \in [Window -> Cell] /\ suspect' \subseteq Managed
    BY <1>0, <1>2, <1>6 DEF TypeOK
  <2> QED  BY <1>1, <1>5, <1>6, <2>2, <2>3, ReachFinish
<1>7. CASE /\ Commanded(target) /\ pc' = "blank"
           /\ UNCHANGED <<protected, phase, runtime, shadow, span, blocks, reply,
                          suspect, count>>
  <2>1. DOMAIN late' = {} /\ ~Busy'
    BY <1>7 DEF Commanded, Busy, Nothing
  <2>2. TypeOK'
    BY <1>0, <1>5, <1>7, <2>1 DEF TypeOK, Pcs, span
  <2>3. SpanOK'
    BY <1>0, <1>1, <1>7 DEF SpanOK, span
  <2>4. LateOK'
    BY <1>1, <1>7, <2>1 DEF LateOK
  <2> QED  BY <2>2, <2>3, <2>4 DEF ReachInv
<1> QED
  BY <1>4, <1>6, <1>7

LEMMA ReachBlank ==
    ASSUME ReachInv, FvbBlankFails \/ FvbBlankCheck
    PROVE  ReachInv'
<1>0. TypeOK /\ SpanOK /\ LateOK
  BY DEF ReachInv
<1> DEFINE block == Block(Head(blocks))
<1>1. phase = "ready" /\ pc = "blank"
  BY DEF FvbBlankFails, FvbBlankCheck
<1>2. /\ block \subseteq Managed
      /\ Tail(blocks) \in Seq({lba \in 0 .. BlockCount - 1 : LbaWritable(lba)})
  <2>1. /\ Head(blocks) \in 0 .. BlockCount - 1 /\ LbaWritable(Head(blocks))
        /\ Tail(blocks) \in Seq({lba \in 0 .. BlockCount - 1 : LbaWritable(lba)})
    BY <1>0, <1>1 DEF TypeOK, SpanOK
  <2> QED  BY <2>1, BlockManaged
<1>3. DOMAIN late = {}
  BY <1>0, <1>1 DEF LateOK, Busy
<1>4. CASE FvbBlankFails
  <2>1. /\ Finish("error", 0) /\ UNCHANGED <<protected, phase, runtime>>
        /\ UNCHANGED <<nor, late, shadow>> /\ suspect' = suspect \cup block
    BY <1>4 DEF FvbBlankFails, part
  <2> QED  BY <1>0, <1>1, <1>2, <1>3, <2>1, ReachFinish DEF TypeOK
<1>5. CASE FvbBlankCheck
  <2>1. shadow' \in [Window -> Cell]
    BY <1>0, <1>5 DEF FvbBlankCheck, TypeOK, Cell
  <2>2. /\ suspect' \subseteq Managed /\ UNCHANGED <<protected, phase, runtime>>
        /\ UNCHANGED <<nor, late>>
    BY <1>0, <1>5 DEF FvbBlankCheck, TypeOK, part
  <2>3. CASE Finish("ok", 0)
    BY <1>0, <1>1, <1>3, <2>1, <2>2, <2>3, ReachFinish DEF TypeOK
  <2>4. CASE /\ Tail(blocks) # <<>> /\ blocks' = Tail(blocks) /\ pc' = "erase"
             /\ UNCHANGED <<span, reply>>
    <3>1. TypeOK'
      BY <1>0, <1>1, <1>2, <2>1, <2>2, <2>4 DEF TypeOK, Pcs, span
    <3>2. SpanOK'
      BY <1>0, <1>1, <2>2, <2>4 DEF SpanOK, span
    <3>3. LateOK'
      BY <1>0, <1>1, <1>3, <2>2, <2>4 DEF LateOK, Busy
    <3> QED  BY <3>1, <3>2, <3>3 DEF ReachInv
  <2> QED  BY <1>5, <2>3, <2>4 DEF FvbBlankCheck
<1> QED  BY <1>4, <1>5

\* A step of a raw operation whose target is the rest of the array.
LEMMA ReachRawStep ==
    ASSUME ReachInv, pc \in {"rawprogram", "rawerase"},
           NEW target, DOMAIN target \subseteq Below0,
           \A a \in DOMAIN target : target[a] \in Cell,
           NEW next \in Nat, lo < next, next <= hi,
           pc = "rawerase" /\ next < hi => (hi - next) % BlockSize = 0,
           RawStep(target, next)
    PROVE  ReachInv'
<1>0. TypeOK /\ SpanOK /\ LateOK
  BY DEF ReachInv
<1>1. /\ phase = "ready" /\ InDoubt = {} /\ Below0 \subseteq Addresses
      /\ Below0 \cap Window = {}
      /\ lo \in Nat /\ hi \in Nat /\ start \in Nat /\ start <= lo /\ lo < hi
      /\ UNCHANGED <<protected, phase, runtime, shadow, suspect>>
  <2>1. phase = "ready" /\ InDoubt = {}
    BY <1>0 DEF SpanOK, TypeOK, InDoubt
  <2>2. Below0 \subseteq Addresses /\ Below0 \cap Window = {}
    BY Layout DEF Below0, Addresses, Window
  <2> QED  BY <1>0, <2>1, <2>2, Layout DEF SpanOK, TypeOK, RawStep
<1>2. /\ nor' \in [Addresses -> Cell]
      /\ DOMAIN late' \subseteq DOMAIN late \cup DOMAIN target
      /\ \A a \in DOMAIN late' : late'[a] \in Cell
  BY <1>0, <1>1, Primitive DEF TypeOK, RawStep
<1>3. CASE \E status, n : Finish(status, n)
  <2>1. /\ DOMAIN late' \cap Window \subseteq suspect'
        /\ DOMAIN late' \subseteq Managed \cup Below0
    BY <1>0, <1>1, <1>2 DEF LateOK
  <2> QED  BY <1>0, <1>1, <1>2, <1>3, <2>1, ReachFinish DEF TypeOK
<1>4. CASE /\ Commanded(target) /\ next < hi /\ lo' = next
           /\ UNCHANGED <<start, hi, data, pc, blocks, reply>>
  <2>1. DOMAIN late' = {}
    BY <1>4 DEF Commanded, Nothing
  <2>2. TypeOK'
    BY <1>0, <1>1, <1>2, <1>4, <2>1 DEF TypeOK
  <2>3. SpanOK'
    BY <1>0, <1>1, <1>4 DEF SpanOK
  <2>4. LateOK'
    BY <1>0, <1>1, <1>4, <2>1 DEF LateOK, Busy, TypeOK
  <2> QED  BY <2>2, <2>3, <2>4 DEF ReachInv
<1> QED
  BY <1>3, <1>4 DEF RawStep

LEMMA ReachRaw ==
    ASSUME ReachInv, RawProgramPage \/ RawEraseSector
    PROVE  ReachInv'
<1>0. TypeOK /\ SpanOK /\ LateOK
  BY DEF ReachInv
<1>1. CASE RawProgramPage
  <2> DEFINE target == Programmed(lo .. PageEnd - 1)
  <2>1. /\ pc = "rawprogram" /\ RawStep(target, PageEnd)
        /\ data \in [start .. hi - 1 -> Cell] /\ lo < hi /\ hi <= RuntimeBase
        /\ lo \in Nat /\ hi \in Nat /\ start \in Nat /\ start <= lo
    BY <1>0, <1>1, Layout DEF RawProgramPage, SpanOK, TypeOK
  <2>2. PageEnd \in Nat /\ lo < PageEnd /\ PageEnd <= hi
    BY <2>1, PageStep
  <2>3. DOMAIN target \subseteq start .. hi - 1 /\ DOMAIN target \subseteq Below0
    BY <2>1, <2>2, Layout DEF Programmed, Below0
  <2>4. \A a \in DOMAIN target : target[a] \in Cell
    <3> SUFFICES ASSUME NEW a \in DOMAIN target PROVE nor[a] \cup data[a] \in Cell
      BY DEF Programmed
    <3>1. a \in Addresses
      BY <2>3, Layout DEF Below0, Addresses
    <3>2. nor[a] \in Cell /\ data[a] \in Cell
      BY <1>0, <2>1, <2>3, <3>1 DEF TypeOK
    <3> QED  BY <3>2 DEF Cell
  <2> HIDE DEF target
  <2> QED  BY <2>1, <2>2, <2>3, <2>4, ReachRawStep
<1>2. CASE RawEraseSector
  <2> DEFINE target == Erased(lo .. lo + BlockSize - 1)
             next   == lo + BlockSize
  <2>1. /\ pc = "rawerase" /\ RawStep(target, next)
        /\ lo < hi /\ hi <= RuntimeBase /\ lo \in Nat /\ hi \in Nat
        /\ (hi - lo) % BlockSize = 0 /\ hi - lo \in Nat /\ hi - lo > 0
    BY <1>0, <1>2, Layout DEF RawEraseSector, SpanOK, TypeOK
  <2>2. BlockSize <= hi - lo /\ (hi - lo - BlockSize) % BlockSize = 0
    BY <2>1, SectorStep
  <2>3. next \in Nat /\ lo < next /\ next <= hi /\ hi - next = hi - lo - BlockSize
    BY <2>1, <2>2, Layout
  <2>4. DOMAIN target \subseteq Below0 /\ \A a \in DOMAIN target : target[a] \in Cell
    BY <2>1, <2>3, Layout DEF Erased, Below0, Cell
  <2>5. (hi - next) % BlockSize = 0
    BY <2>2, <2>3
  <2> HIDE DEF target, next
  <2> QED  BY <2>1, <2>3, <2>4, <2>5, ReachRawStep
<1> QED  BY <1>1, <1>2

LEMMA ReachPlatform ==
    ASSUME ReachInv, FinishLate \/ ExitBootServices \/ PowerCut
    PROVE  ReachInv'
<1>0. TypeOK /\ SpanOK /\ LateOK
  BY DEF ReachInv
<1>1. CASE FinishLate
  <2>1. nor' \in [Addresses -> Cell] /\ DOMAIN late' = {} /\ ~Busy'
    BY <1>0, <1>1 DEF FinishLate, TypeOK, Overlay, Nothing, Busy
  <2>2. TypeOK'
    BY <1>0, <1>1, <2>1 DEF FinishLate, TypeOK, span
  <2>3. SpanOK'
    BY <1>0, <1>1 DEF FinishLate, SpanOK, span
  <2>4. LateOK'
    BY <1>0, <1>1, <2>1 DEF FinishLate, LateOK
  <2> QED  BY <2>2, <2>3, <2>4 DEF ReachInv
<1>2. CASE ExitBootServices
  BY <1>0, <1>2, ReachIdle DEF ExitBootServices, Accepting, TypeOK
<1>3. CASE PowerCut
  <2>1. nor' \in [Addresses -> Cell] /\ DOMAIN late' = {} /\ ~Busy'
    BY <1>0, <1>3 DEF PowerCut, TypeOK, Torn, Overlay, Nothing, Busy
  <2>2. blocks' \in Seq({lba \in 0 .. BlockCount - 1 : LbaWritable(lba)})
    BY <1>3 DEF PowerCut
  <2>3. TypeOK'
    <3>1. shadow' \in [Window -> Cell]
      BY <1>3 DEF PowerCut, Cell
    <3>2. hi' \in 0 .. WindowEnd /\ start' \in 0 .. hi' /\ lo' \in start' .. hi'
      BY <1>3, Layout DEF PowerCut
    <3>3. protected' \in BOOLEAN /\ runtime' \in BOOLEAN
      BY <1>0, <1>3 DEF PowerCut, TypeOK
    <3> QED
      BY <1>3, <2>1, <2>2, <3>1, <3>2, <3>3 DEF PowerCut, TypeOK, Pcs
  <2>4. SpanOK'
    BY <1>3 DEF PowerCut, SpanOK
  <2>5. LateOK'
    BY <1>3, <2>1 DEF PowerCut, LateOK
  <2> QED  BY <2>3, <2>4, <2>5 DEF ReachInv
<1> QED  BY <1>1, <1>2, <1>3

-----------------------------------------------------------------------------
(* Type correctness, and that no operation leaves what it was given. *)

LEMMA ReachStutter == ReachInv /\ UNCHANGED vars => ReachInv'
BY DEF ReachInv, TypeOK, SpanOK, LateOK, InDoubt, Busy, vars, part, span, count

LEMMA ReachStep == ReachInv /\ [Next]_vars => ReachInv'
<1> SUFFICES ASSUME ReachInv, [Next]_vars PROVE ReachInv'
  OBVIOUS
<1> QED
  BY ReachEntry, ReachRequest, ReachProgramPage, ReachVerify, ReachEraseSector,
     ReachBlank, ReachRaw, ReachPlatform, ReachStutter DEF Next, Service

\* The span of the operation under way, the blocks it has still to erase and
\* the command a failed call left in the part stay inside what the request was
\* checked against.
LEMMA Reach == Spec => []ReachInv
<1> QED  BY ReachInit, ReachStep, PTL DEF Spec

\* The driver's state is well formed, its offsets and block numbers inside the
\* window, in every reachable state and for every layout.
THEOREM TypeCorrect == Spec => []TypeOK
<1>1. ReachInv => TypeOK
  BY DEF ReachInv
<1> QED  BY Reach, <1>1, PTL

-----------------------------------------------------------------------------
(* What the array may lose or gain. *)

\* A primitive that stays where the protocols allow it changes nothing else.
LEMMA Contained ==
    ASSUME ReachInv, NEW target, DOMAIN target \subseteq Managed \cup Below0,
           runtime => DOMAIN target \subseteq Managed,
           \A a \in DOMAIN target : target[a] \in Cell,
           Commanded(target) \/ Fails(target)
    PROVE  \A a \in Addresses : nor'[a] # nor[a] =>
              /\ a \in Managed \/ a < RuntimeBase
              /\ runtime => a \in Managed \/ a \in DOMAIN late
<1>0. TypeOK /\ SpanOK /\ LateOK
  BY DEF ReachInv
<1>1. Managed \subseteq Addresses /\ Below0 \subseteq Addresses
  BY Layout DEF Below0, Addresses
<1>2. \A a \in Addresses :
         nor'[a] # nor[a] => a \in DOMAIN late \cup DOMAIN target
  BY <1>0, <1>1, Primitive DEF TypeOK
<1>3. \A a \in Below0 : a < RuntimeBase
  BY Layout DEF Below0
<1> QED  BY <1>0, <1>2, <1>3 DEF LateOK

\* What a raw operation aims at stays below the window.
LEMMA RawTargets ==
    ASSUME ReachInv, RawProgramPage \/ RawEraseSector
    PROVE  \E target : /\ Commanded(target) \/ Fails(target)
                       /\ DOMAIN target \subseteq Below0
                       /\ \A a \in DOMAIN target : target[a] \in Cell
<1>0. TypeOK /\ SpanOK
  BY DEF ReachInv
<1>1. CASE RawProgramPage
  <2> DEFINE target == Programmed(lo .. PageEnd - 1)
  <2>1. /\ data \in [start .. hi - 1 -> Cell] /\ lo < hi /\ hi <= RuntimeBase
        /\ lo \in Nat /\ hi \in Nat /\ start \in Nat /\ start <= lo
    BY <1>0, <1>1, Layout DEF RawProgramPage, SpanOK, TypeOK
  <2>2. PageEnd \in Nat /\ lo < PageEnd /\ PageEnd <= hi
    BY <2>1, PageStep
  <2>3. DOMAIN target \subseteq start .. hi - 1 /\ DOMAIN target \subseteq Below0
    BY <2>1, <2>2, Layout DEF Programmed, Below0
  <2>4. \A a \in DOMAIN target : target[a] \in Cell
    <3> SUFFICES ASSUME NEW a \in DOMAIN target PROVE nor[a] \cup data[a] \in Cell
      BY DEF Programmed
    <3>1. a \in Addresses
      BY <2>3, Layout DEF Below0, Addresses
    <3>2. nor[a] \in Cell /\ data[a] \in Cell
      BY <1>0, <2>1, <2>3, <3>1 DEF TypeOK
    <3> QED  BY <3>2 DEF Cell
  <2>5. Commanded(target) \/ Fails(target)
    BY <1>1 DEF RawProgramPage, RawStep
  <2> HIDE DEF target
  <2> QED  BY <2>3, <2>4, <2>5
<1>2. CASE RawEraseSector
  <2> DEFINE target == Erased(lo .. lo + BlockSize - 1)
  <2>1. /\ lo < hi /\ hi <= RuntimeBase /\ lo \in Nat /\ hi \in Nat
        /\ (hi - lo) % BlockSize = 0 /\ hi - lo \in Nat /\ hi - lo > 0
    BY <1>0, <1>2, Layout DEF RawEraseSector, SpanOK, TypeOK
  <2>2. BlockSize <= hi - lo
    BY <2>1, SectorStep
  <2>3. DOMAIN target \subseteq Below0 /\ \A a \in DOMAIN target : target[a] \in Cell
    BY <2>1, <2>2, Layout DEF Erased, Below0, Cell
  <2>4. Commanded(target) \/ Fails(target)
    BY <1>2 DEF RawEraseSector, RawStep
  <2> HIDE DEF target
  <2> QED  BY <2>3, <2>4
<1> QED  BY <1>1, <1>2

\* What FormatErase, FormatProgram and the operations aim at.
LEMMA Targets ==
    ASSUME ReachInv, Next
    PROVE  \/ UNCHANGED nor
           \/ FinishLate \/ PowerCut
           \/ \E target : /\ Commanded(target) \/ Fails(target)
                          /\ DOMAIN target \subseteq Managed \cup Below0
                          /\ runtime => DOMAIN target \subseteq Managed
                          /\ \A a \in DOMAIN target : target[a] \in Cell
<1>0. TypeOK /\ SpanOK /\ LateOK
  BY DEF ReachInv
<1> DEFINE Aimed(target) == /\ Commanded(target) \/ Fails(target)
                            /\ DOMAIN target \subseteq Managed \cup Below0
                            /\ runtime => DOMAIN target \subseteq Managed
                            /\ \A a \in DOMAIN target : target[a] \in Cell
<1>1. CASE FormatErase \/ FvbEraseSector
  <2> DEFINE target == Erased(Block(Head(blocks)))
  <2>1. Head(blocks) \in 0 .. BlockCount - 1 /\ LbaWritable(Head(blocks))
    BY <1>0, <1>1 DEF TypeOK, SpanOK, FormatErase, FvbEraseSector
  <2>2. DOMAIN target \subseteq Managed /\ \A a \in DOMAIN target : target[a] \in Cell
    BY <2>1, BlockManaged DEF Erased, Cell
  <2>3. Commanded(target) \/ Fails(target)
    BY <1>1 DEF FormatErase, FormatFails, FvbEraseSector
  <2> HIDE DEF target
  <2>4. Aimed(target)
    BY <2>2, <2>3
  <2> QED  BY <2>4
<1>2. CASE FormatProgram
  <2> DEFINE target == [c \in HeaderCells |-> nor[c] \cup Bits]
  <2>1. DOMAIN target \subseteq Managed /\ \A a \in DOMAIN target : target[a] \in Cell
    BY <1>0, Layout DEF TypeOK, Cell
  <2>2. Commanded(target) \/ Fails(target)
    BY <1>2 DEF FormatProgram, FormatFails
  <2> HIDE DEF target
  <2>3. Aimed(target)
    BY <2>1, <2>2
  <2> QED  BY <2>3
<1>3. CASE FvbProgramPage
  <2> DEFINE target == Programmed(lo .. PageEnd - 1)
  <2>1. /\ lo < hi /\ lo \in Nat /\ hi \in Nat /\ start \in Nat /\ start <= lo
        /\ data \in [start .. hi - 1 -> Cell] /\ start .. hi - 1 \subseteq Managed
    BY <1>0, <1>3, Layout DEF FvbProgramPage, TypeOK, SpanOK
  <2>2. PageEnd \in Nat /\ lo < PageEnd /\ PageEnd <= hi
    BY <2>1, PageStep
  <2>3. DOMAIN target \subseteq start .. hi - 1
    BY <2>1, <2>2 DEF Programmed
  <2>4. \A a \in DOMAIN target : target[a] \in Cell
    <3> SUFFICES ASSUME NEW a \in DOMAIN target PROVE nor[a] \cup data[a] \in Cell
      BY DEF Programmed
    <3>1. nor[a] \in Cell /\ data[a] \in Cell
      BY <1>0, <2>1, <2>3, Layout DEF TypeOK
    <3> QED  BY <3>1 DEF Cell
  <2>5. Commanded(target) \/ Fails(target)
    BY <1>3 DEF FvbProgramPage
  <2> HIDE DEF target
  <2>6. Aimed(target)
    BY <2>1, <2>3, <2>4, <2>5
  <2> QED  BY <2>6
<1>4. CASE RawProgramPage \/ RawEraseSector
  <2>1. ~runtime
    BY <1>0, <1>4 DEF SpanOK, RawProgramPage, RawEraseSector
  <2> QED  BY <1>4, <2>1, RawTargets
<1>5. CASE EntryFails \/ Load \/ FormatVerify \/ ExitBootServices
  BY <1>5 DEF EntryFails, Load, FormatVerify, ExitBootServices, part
<1>6. CASE FvbVerifyFails \/ FvbVerifyChunk \/ FvbBlankFails \/ FvbBlankCheck
  BY <1>6 DEF FvbVerifyFails, FvbVerifyChunk, FvbBlankFails, FvbBlankCheck, part
<1>7. CASE Request
  BY <1>7 DEF Request, FvbWrite, FvbEraseBlocks, NorFlashProgram, NorFlashErase,
              Refuse, part
<1> QED
  BY <1>1, <1>2, <1>3, <1>4, <1>5, <1>6, <1>7 DEF Next, Entry, Service

\* For every layout and every history of calls, faults and power cuts: nothing
\* outside the three managed regions changes at or above the window's base, and
\* once the operating system runs nothing below it does, except what a command
\* whose call had failed earlier still completes.
THEOREM ForeignCells == Spec => ForeignCellsUntouched
<1> DEFINE A == /\ \A a \in Addresses : nor'[a] # nor[a] => a \in Managed \/ a < RuntimeBase
                /\ runtime /\ runtime' => \A a \in 0 .. RuntimeBase - 1 :
                       nor'[a] # nor[a] => a \in DOMAIN late
<1>1. ASSUME ReachInv, [Next]_vars PROVE A
  <2>1. /\ Below0 \subseteq Addresses
        /\ \A a \in Below0 : a < RuntimeBase /\ a \notin Managed
    BY Layout DEF Below0, Addresses, Window
  <2>2. SUFFICES \A a \in Addresses : nor'[a] # nor[a] =>
              /\ a \in Managed \/ a < RuntimeBase
              /\ runtime /\ runtime' => a \in Managed \/ a \in DOMAIN late
    BY <2>1 DEF Below0
  <2>3. CASE UNCHANGED nor
    BY <2>3
  <2>4. CASE FinishLate
    BY <1>1, <2>1, <2>4 DEF FinishLate, Overlay, ReachInv, LateOK, TypeOK
  <2>5. CASE PowerCut
    BY <1>1, <2>1, <2>5 DEF PowerCut, Torn, Overlay, ReachInv, LateOK, TypeOK
  <2>6. ASSUME NEW target, Commanded(target) \/ Fails(target),
               DOMAIN target \subseteq Managed \cup Below0,
               runtime => DOMAIN target \subseteq Managed,
               \A a \in DOMAIN target : target[a] \in Cell
        PROVE  \A a \in Addresses : nor'[a] # nor[a] =>
                  /\ a \in Managed \/ a < RuntimeBase
                  /\ runtime /\ runtime' => a \in Managed \/ a \in DOMAIN late
    BY <1>1, <2>6, Contained
  <2>7. CASE UNCHANGED vars
    BY <2>3, <2>7 DEF vars, part
  <2> QED  BY <1>1, <2>3, <2>4, <2>5, <2>6, <2>7, Targets
<1>2. ReachInv /\ [Next]_vars => [A]_vars
  BY <1>1
<1> QED  BY Reach, <1>2, PTL DEF Spec, ForeignCellsUntouched

-----------------------------------------------------------------------------
(* The shadow. *)

\* While the volume is served, coherence up to the cells in doubt; while it is
\* formatted, what the erase loop and the programming have established so far:
\* at its end the driver marks the shadow, unread, with what should be there.
Coherent ==
    /\ phase = "ready" =>
          \A w \in Window : shadow[w] # nor[w] => w \in suspect \cup InDoubt
    /\ phase = "format" => \A w \in Window \ Managed : shadow[w] = nor[w]
    /\ phase = "format" /\ pc = "erase" =>
          \A w \in Managed : \/ nor[w] = {}
                             \/ \E i \in 1 .. Len(blocks) : w \in Block(blocks[i])
    /\ phase = "format" /\ pc \in {"program", "verify"} =>
          \A w \in Managed : /\ shadow[w] = {}
                             /\ (w \in HeaderCells /\ pc = "verify") \/ nor[w] = {}

CoherentInv == ReachInv /\ Coherent

\* While the volume is served, cells of the window change only where an
\* operation works or a failed one may still.
LEMMA ServedChange ==
    ASSUME ReachInv, phase = "ready", NEW target, NEW S,
           \A a \in DOMAIN target : target[a] \in Cell,
           DOMAIN target \subseteq Addresses, DOMAIN target \cap Window \subseteq S,
           Commanded(target) \/ Fails(target)
    PROVE  \A w \in Window : nor'[w] # nor[w] => w \in suspect \cup InDoubt \cup S
<1>1. TypeOK /\ LateOK
  BY DEF ReachInv
<1>2. \A a \in Addresses : nor'[a] # nor[a] => a \in DOMAIN late \cup DOMAIN target
  BY <1>1, Primitive DEF TypeOK
<1> QED  BY <1>1, <1>2, Layout DEF LateOK

\* Serving never loses coherence: whatever an operation may have changed is in
\* doubt until it is read back.
LEMMA CoherentService ==
    ASSUME CoherentInv, ReachInv', Service
    PROVE  Coherent'
<1>0. TypeOK /\ SpanOK /\ LateOK /\ TypeOK' /\ SpanOK'
      /\ phase = "ready" /\ phase' = "ready"
  BY DEF CoherentInv, ReachInv, Service, FvbProgramPage, FvbVerifyFails,
         FvbVerifyChunk, FvbEraseSector, FvbBlankFails, FvbBlankCheck,
         RawProgramPage, RawEraseSector, RawStep
<1>1. \A w \in Window : shadow[w] # nor[w] => w \in suspect \cup InDoubt
  BY <1>0 DEF CoherentInv, Coherent
<1> SUFFICES \A w \in Window : shadow'[w] # nor'[w] => w \in suspect' \cup InDoubt'
  BY <1>0 DEF Coherent
<1>2. CASE FvbProgramPage
  <2> DEFINE target == Programmed(lo .. PageEnd - 1)
  <2>1. /\ pc = "program" /\ lo < hi /\ InDoubt = start .. hi - 1
        /\ lo \in Nat /\ hi \in Nat /\ start \in Nat /\ start <= lo
        /\ start .. hi - 1 \subseteq Addresses /\ data \in [start .. hi - 1 -> Cell]
    BY <1>0, <1>2, Layout DEF FvbProgramPage, InDoubt, TypeOK, SpanOK
  <2>2. PageEnd \in Nat /\ lo < PageEnd /\ PageEnd <= hi
    BY <2>1, PageStep
  <2>3. DOMAIN target \subseteq start .. hi - 1
    BY <2>1, <2>2 DEF Programmed
  <2>4. \A a \in DOMAIN target : target[a] \in Cell
    <3> SUFFICES ASSUME NEW a \in DOMAIN target PROVE nor[a] \cup data[a] \in Cell
      BY DEF Programmed
    <3>1. nor[a] \in Cell /\ data[a] \in Cell
      BY <1>0, <2>1, <2>3 DEF TypeOK
    <3> QED  BY <3>1 DEF Cell
  <2>5. Commanded(target) \/ Fails(target)
    BY <1>2 DEF FvbProgramPage
  <2> HIDE DEF target
  <2>6. \A w \in Window : nor'[w] # nor[w] => w \in suspect \cup InDoubt
    BY <1>0, <2>1, <2>3, <2>4, <2>5, ServedChange DEF CoherentInv
  <2>7. suspect \cup InDoubt \subseteq suspect' \cup InDoubt'
    BY <1>0, <1>2, <2>1 DEF FvbProgramPage, Finish, InDoubt
  <2>8. shadow' = shadow
    BY <1>2 DEF FvbProgramPage
  <2> QED  BY <1>1, <2>6, <2>7, <2>8
<1>3. CASE FvbVerifyFails
  <2>1. /\ InDoubt = lo .. hi - 1 /\ suspect' = suspect \cup (lo .. hi - 1)
        /\ UNCHANGED <<nor, shadow>>
    BY <1>0, <1>3 DEF FvbVerifyFails, InDoubt, part
  <2> QED  BY <1>1, <2>1
<1>4. CASE FvbVerifyChunk
  <2>1. /\ pc = "verify" /\ InDoubt = lo .. hi - 1 /\ lo < hi
        /\ lo \in Nat /\ hi \in Nat
    BY <1>0, <1>4, Layout DEF FvbVerifyChunk, InDoubt, TypeOK, SpanOK
  <2>2. ChunkEnd \in Nat /\ lo < ChunkEnd /\ ChunkEnd <= hi
    BY <2>1, ChunkStep
  <2>3. /\ nor' = nor /\ suspect' = suspect \ Chunk
        /\ shadow' = [w \in Window |-> IF w \in Chunk THEN data[w] ELSE shadow[w]]
        /\ \A c \in Chunk : nor[c] = data[c]
    BY <1>4 DEF FvbVerifyChunk, part
  <2>4. InDoubt \subseteq InDoubt' \cup Chunk
    <3>1. CASE ChunkEnd < hi
      <4>1. InDoubt' = ChunkEnd .. hi - 1
        BY <1>0, <1>4, <2>1, <3>1 DEF FvbVerifyChunk, InDoubt
      <4> QED  BY <2>1, <2>2, <4>1 DEF Chunk
    <3>2. CASE ChunkEnd = hi
      BY <2>1, <3>2 DEF Chunk
    <3> QED  BY <2>1, <2>2, <3>1, <3>2
  <2> QED  BY <1>1, <2>3, <2>4
<1>5. CASE FvbEraseSector
  <2> DEFINE block  == Block(Head(blocks))
             target == Erased(block)
  <2>1. pc = "erase" /\ InDoubt = {}
    BY <1>0, <1>5 DEF FvbEraseSector, InDoubt
  <2>2. Head(blocks) \in 0 .. BlockCount - 1 /\ LbaWritable(Head(blocks))
    BY <1>0, <2>1 DEF TypeOK, SpanOK
  <2>3. /\ DOMAIN target = block /\ block \subseteq Addresses
        /\ \A a \in DOMAIN target : target[a] \in Cell
    BY <2>2, BlockManaged, Layout DEF Erased, Cell
  <2>4. Commanded(target) \/ Fails(target)
    BY <1>5 DEF FvbEraseSector
  <2>5. block \subseteq suspect' \cup InDoubt'
    BY <1>0, <1>5 DEF FvbEraseSector, Finish, InDoubt, span
  <2>6. suspect \subseteq suspect' /\ shadow' = shadow
    BY <1>5 DEF FvbEraseSector
  <2> HIDE DEF target, block
  <2>7. \A w \in Window : nor'[w] # nor[w] => w \in suspect \cup InDoubt \cup block
    BY <1>0, <2>3, <2>4, ServedChange DEF CoherentInv
  <2> QED  BY <1>1, <2>1, <2>5, <2>6, <2>7
<1>6. CASE FvbBlankFails
  <2>1. /\ InDoubt = Block(Head(blocks)) /\ suspect' = suspect \cup Block(Head(blocks))
        /\ UNCHANGED <<nor, shadow>>
    BY <1>0, <1>6 DEF FvbBlankFails, InDoubt, part
  <2> QED  BY <1>1, <2>1
<1>7. CASE FvbBlankCheck
  <2> DEFINE block == Block(Head(blocks))
  <2>1. /\ InDoubt = block /\ suspect' = suspect \ block /\ nor' = nor
        /\ shadow' = [w \in Window |-> IF w \in block THEN {} ELSE shadow[w]]
        /\ \A c \in block : nor[c] = {}
    BY <1>0, <1>7 DEF FvbBlankCheck, InDoubt, part
  <2> HIDE DEF block
  <2> QED  BY <1>1, <2>1
<1>8. CASE RawProgramPage \/ RawEraseSector
  <2>1. InDoubt = {} /\ suspect' = suspect /\ shadow' = shadow
    BY <1>0, <1>8 DEF RawProgramPage, RawEraseSector, RawStep, InDoubt
  <2>2. \E target : /\ Commanded(target) \/ Fails(target)
                    /\ DOMAIN target \subseteq Below0
                    /\ \A a \in DOMAIN target : target[a] \in Cell
    BY <1>0, <1>8, RawTargets DEF CoherentInv
  <2>3. Below0 \subseteq Addresses /\ Below0 \cap Window = {}
    BY Layout DEF Below0, Addresses, Window
  <2>4. \A w \in Window : nor'[w] # nor[w] => w \in suspect \cup InDoubt
    BY <1>0, <2>2, <2>3, ServedChange DEF CoherentInv
  <2> QED  BY <1>1, <2>1, <2>4
<1> QED
  BY <1>2, <1>3, <1>4, <1>5, <1>6, <1>7, <1>8 DEF Service

LEMMA CoherentRequest ==
    ASSUME CoherentInv, Request
    PROVE  Coherent'
<1>1. Accepting /\ UNCHANGED <<nor, phase, shadow, suspect>>
  BY DEF Request, FvbWrite, FvbEraseBlocks, NorFlashProgram, NorFlashErase,
         Refuse, part
<1>2. phase = "ready" /\ InDoubt = {}
  BY <1>1, Accepted DEF CoherentInv
<1> QED
  BY <1>1, <1>2 DEF CoherentInv, Coherent

LEMMA CoherentPlatform ==
    ASSUME CoherentInv, FinishLate \/ ExitBootServices \/ PowerCut
    PROVE  Coherent'
<1>0. TypeOK /\ SpanOK /\ LateOK
  BY DEF CoherentInv, ReachInv
<1>1. CASE FinishLate
  <2>1. phase # "format"
    BY <1>0, <1>1 DEF FinishLate, LateOK
  <2>2. \A w \in Window : nor'[w] # nor[w] => w \in DOMAIN late
    BY <1>0, <1>1, Layout DEF FinishLate, TypeOK, Overlay
  <2>3. phase' = phase /\ shadow' = shadow /\ suspect' = suspect /\ InDoubt' = InDoubt
    BY <1>1 DEF FinishLate, InDoubt, span
  <2> QED  BY <1>0, <2>1, <2>2, <2>3 DEF CoherentInv, Coherent, LateOK
<1>2. CASE ExitBootServices
  BY <1>2 DEF ExitBootServices, CoherentInv, Coherent, InDoubt, part, span
<1>3. CASE PowerCut
  BY <1>3 DEF PowerCut, Coherent
<1> QED  BY <1>1, <1>2, <1>3

\* Formatting, which reads nothing back but the header.
LEMMA CoherentEntry ==
    ASSUME CoherentInv, Entry, "format" \notin SilentPhases
    PROVE  Coherent'
<1>0. TypeOK /\ SpanOK /\ LateOK
  BY DEF CoherentInv, ReachInv
<1>1. CASE phase' = "failed"
  BY <1>1 DEF Coherent
<1>2. CASE Load /\ phase' # "failed"
  <2>1. /\ shadow' = [w \in Window |-> nor[w]] /\ nor' = nor /\ pc = "idle"
        /\ \/ phase' = "ready"
           \/ phase' = "format" /\ pc' = "erase" /\ blocks' = FormatBlocks
    BY <1>0, <1>2 DEF Load, SpanOK, part
  <2> QED  BY <2>1, FormatList DEF Coherent
<1>3. CASE FormatErase /\ phase' # "failed"
  <2> DEFINE target == Erased(Block(Head(blocks)))
  <2>1. /\ Head(blocks) \in 0 .. BlockCount - 1 /\ LbaWritable(Head(blocks))
        /\ phase = "format" /\ pc = "erase" /\ blocks # <<>>
        /\ blocks \in Seq({lba \in 0 .. BlockCount - 1 : LbaWritable(lba)})
    BY <1>0, <1>3 DEF TypeOK, SpanOK, FormatErase
  <2>2. DOMAIN target \subseteq Managed
    BY <2>1, BlockManaged DEF Erased
  <2>3. /\ Commanded(target) /\ phase' = "format" /\ blocks' = Tail(blocks)
        /\ IF Tail(blocks) # <<>> THEN pc' = pc /\ shadow' = shadow
           ELSE /\ pc' = "program"
                /\ shadow' = [w \in Window |-> IF w \in Managed THEN {} ELSE shadow[w]]
    BY <1>3, <2>1 DEF FormatErase, FormatFails
  <2>4. \A a \in Addresses : nor'[a] = IF a \in Block(Head(blocks)) THEN {} ELSE nor[a]
    <3>1. \A a \in Addresses : nor'[a] = IF a \in DOMAIN target THEN target[a] ELSE nor[a]
      BY <1>0, <2>1, <2>2, <2>3, Faithful, Layout DEF TypeOK, LateOK
    <3> QED  BY <3>1 DEF Erased
  <2>5. \A w \in Managed : \/ nor'[w] = {}
                           \/ \E i \in 1 .. Len(Tail(blocks)) : w \in Block(Tail(blocks)[i])
    <3> SUFFICES ASSUME NEW w \in Managed, nor'[w] # {}
                 PROVE  \E i \in 1 .. Len(Tail(blocks)) : w \in Block(Tail(blocks)[i])
      OBVIOUS
    <3>1. w \in Addresses
      BY Layout
    <3>2. w \notin Block(Head(blocks)) /\ nor[w] # {}
      BY <2>4, <3>1
    <3>3. PICK i \in 1 .. Len(blocks) : w \in Block(blocks[i])
      BY <2>1, <3>2 DEF CoherentInv, Coherent
    <3>4. i # 1
      BY <2>1, <3>2, <3>3
    <3>5. i - 1 \in 1 .. Len(Tail(blocks)) /\ Tail(blocks)[i - 1] = blocks[i]
      BY <2>1, <3>3, <3>4
    <3> QED  BY <3>3, <3>5
  <2>6. \A w \in Window \ Managed : shadow'[w] = nor'[w]
    <3>1. \A w \in Window \ Managed : shadow'[w] = shadow[w]
      BY <2>3
    <3>2. \A w \in Window \ Managed : nor'[w] = nor[w]
      BY <2>1, <2>4, BlockManaged, Layout
    <3> QED  BY <2>1, <3>1, <3>2 DEF CoherentInv, Coherent
  <2>7. CASE Tail(blocks) # <<>>
    BY <2>1, <2>3, <2>5, <2>6, <2>7 DEF Coherent
  <2>8. CASE Tail(blocks) = <<>>
    <3>1. \A w \in Managed : nor'[w] = {} /\ shadow'[w] = {}
      BY <2>3, <2>5, <2>8, Layout
    <3> QED  BY <2>3, <2>6, <2>8, <3>1 DEF Coherent
  <2> QED  BY <2>7, <2>8
<1>4. CASE FormatProgram /\ phase' # "failed"
  <2> DEFINE target == [c \in HeaderCells |-> nor[c] \cup Bits]
  <2>1. /\ phase = "format" /\ pc = "program" /\ Commanded(target)
        /\ phase' = "format" /\ pc' = "verify" /\ shadow' = shadow
    BY <1>4 DEF FormatProgram, FormatFails
  <2>2. DOMAIN target = HeaderCells
    OBVIOUS
  <2> HIDE DEF target
  <2>3. \A a \in Addresses \ HeaderCells : nor'[a] = nor[a]
    BY <1>0, <2>1, <2>2, Faithful, Layout DEF TypeOK, LateOK
  <2>4. \A w \in Window \ Managed : shadow'[w] = nor'[w]
    BY <2>1, <2>3, Layout DEF CoherentInv, Coherent
  <2>5. \A w \in Managed : shadow'[w] = {} /\ (w \in HeaderCells \/ nor'[w] = {})
    BY <2>1, <2>3, Layout DEF CoherentInv, Coherent
  <2> QED  BY <2>1, <2>4, <2>5 DEF Coherent
<1>5. CASE FormatVerify /\ phase' # "failed"
  <2>1. /\ phase = "format" /\ pc = "verify" /\ phase' = "ready" /\ nor' = nor
        /\ HeaderValid(nor)
        /\ shadow' = [w \in Window |-> IF w \in HeaderCells THEN Bits ELSE shadow[w]]
    BY <1>5 DEF FormatVerify, part
  <2>2. \A w \in Window : shadow'[w] = nor'[w]
    BY <2>1 DEF CoherentInv, Coherent, HeaderValid
  <2> QED  BY <2>1, <2>2 DEF Coherent
<1>6. CASE EntryFails
  BY <1>1, <1>6 DEF EntryFails
<1> QED
  BY <1>1, <1>2, <1>3, <1>4, <1>5, <1>6 DEF Entry

LEMMA CoherentStep ==
    ASSUME "format" \notin SilentPhases
    PROVE  CoherentInv /\ [Next]_vars => CoherentInv'
<1> SUFFICES ASSUME CoherentInv, [Next]_vars PROVE CoherentInv'
  OBVIOUS
<1>1. ReachInv'
  BY ReachStep DEF CoherentInv
<1>2. CASE UNCHANGED vars
  <2>1. UNCHANGED <<nor, shadow, phase, pc, blocks, suspect, start, lo, hi>>
    BY <1>2 DEF vars, part, span
  <2>2. InDoubt' = InDoubt
    BY <2>1 DEF InDoubt
  <2> QED  BY <1>1, <2>1, <2>2 DEF CoherentInv, Coherent
<1>3. Coherent'
  BY <1>1, <1>2, CoherentEntry, CoherentRequest, CoherentService, CoherentPlatform
     DEF Next, CoherentInv
<1> QED  BY <1>1, <1>3 DEF CoherentInv

\* Unless the part reports success for a command of the format that it did not
\* carry out, the shadow every reader is served from agrees with the array except in cells an
\* operation has failed on or still works on: whatever the layout, the calls,
\* the failures, the late completions and the power cuts.
THEOREM Coherence ==
    ASSUME "format" \notin SilentPhases
    PROVE  Spec => []ShadowCoherent
<1>1. Init => CoherentInv
  BY ReachInit DEF Init, CoherentInv, Coherent
<1>2. CoherentInv /\ [Next]_vars => CoherentInv'
  BY CoherentStep
<1>3. CoherentInv => ShadowCoherent
  BY DEF CoherentInv, Coherent, ShadowCoherent
<1> QED  BY <1>1, <1>2, <1>3, PTL DEF Spec

-----------------------------------------------------------------------------
(* What FvbWrite reports. *)

\* The verified prefix: no command is outstanding while the driver verifies, so
\* what it has read back stays as it read it.
PrefixOK ==
    phase = "ready" /\ pc = "verify" =>
        \A c \in start .. lo - 1 : nor[c] = data[c] /\ shadow[c] = data[c]

PrefixInv == ReachInv /\ PrefixOK

LEMMA PrefixStep == PrefixInv /\ [Next]_vars => PrefixInv'
<1> SUFFICES ASSUME PrefixInv, [Next]_vars PROVE PrefixInv'
  OBVIOUS
<1>0. TypeOK /\ SpanOK /\ LateOK
  BY DEF PrefixInv, ReachInv
<1>1. ReachInv'
  BY ReachStep DEF PrefixInv
<1> SUFFICES ASSUME phase' = "ready", pc' = "verify"
             PROVE  \A c \in start' .. lo' - 1 :
                       nor'[c] = data'[c] /\ shadow'[c] = data'[c]
  BY <1>1 DEF PrefixInv, PrefixOK
<1>2. CASE pc # "verify"
  <2>1. FvbProgramPage
    <3>1. ~UNCHANGED <<pc, phase>>
      BY <1>0, <1>2 
    <3>2. ~UNCHANGED vars
      BY <3>1 DEF vars
    <3>3. ~Entry /\ ~FinishLate /\ ~PowerCut /\ ~ExitBootServices
      BY <1>2 DEF Entry, EntryFails, Load, FormatErase, FormatProgram, FormatVerify,
                  FormatFails, FinishLate, PowerCut, ExitBootServices, Accepting
    <3>4. ~Request
      BY <1>2 DEF Request, FvbWrite, FvbEraseBlocks, NorFlashProgram,
                  NorFlashErase, Refuse
    <3>5. /\ ~FvbVerifyFails /\ ~FvbVerifyChunk /\ ~FvbEraseSector /\ ~FvbBlankFails
          /\ ~FvbBlankCheck /\ ~RawProgramPage /\ ~RawEraseSector
      BY <1>2 DEF FvbVerifyFails, FvbVerifyChunk, FvbEraseSector, FvbBlankFails,
                  FvbBlankCheck, RawProgramPage, RawEraseSector, RawStep, Finish
    <3> QED  BY <3>2, <3>3, <3>4, <3>5 DEF Next, Service
  <2>2. lo' = start /\ start' = start /\ start \in Nat
    BY <1>0, <1>2, <2>1, Layout DEF FvbProgramPage, Finish, TypeOK
  <2> QED  BY <2>2
<1>3. CASE pc = "verify" /\ phase # "ready"
  <2>1. FormatVerify \/ UNCHANGED phase
    BY <1>0, <1>3 DEF Next, Entry, EntryFails, Load, FormatErase, FormatProgram,
         Request, FvbWrite, FvbEraseBlocks, NorFlashProgram, NorFlashErase, Accepting,
         Service, FvbProgramPage, FvbVerifyFails, FvbVerifyChunk, FvbEraseSector,
         FvbBlankFails, FvbBlankCheck, RawProgramPage, RawEraseSector,
         FinishLate, ExitBootServices, PowerCut, SpanOK, vars
  <2> QED  BY <1>3, <2>1 DEF FormatVerify
<1>4. CASE pc = "verify" /\ phase = "ready"
  <2>1. DOMAIN late = {} /\ start \in Nat /\ lo \in Nat /\ start <= lo
    <3>1. DOMAIN late = {}
      BY <1>0, <1>4 DEF LateOK, Busy
    <3>2. start \in Nat /\ lo \in Nat /\ start <= lo
      BY <1>0, Layout DEF TypeOK
    <3> QED  BY <3>1, <3>2
  <2>2. FvbVerifyChunk \/ UNCHANGED vars
    <3>1. ~Entry /\ ~FinishLate /\ ~PowerCut /\ ~ExitBootServices /\ ~Request
      BY <1>4, <2>1 DEF Entry, EntryFails, Load, FormatErase, FormatProgram,
         FormatVerify, FinishLate, Busy, PowerCut, ExitBootServices, Accepting,
         Request, FvbWrite, FvbEraseBlocks, NorFlashProgram, NorFlashErase
    <3>2. /\ ~FvbProgramPage /\ ~FvbVerifyFails /\ ~FvbEraseSector /\ ~FvbBlankFails
          /\ ~FvbBlankCheck /\ ~RawProgramPage /\ ~RawEraseSector
      BY <1>4 DEF FvbProgramPage, FvbVerifyFails, FvbEraseSector, FvbBlankFails,
                  FvbBlankCheck, RawProgramPage, RawEraseSector, Finish
    <3> QED  BY <3>1, <3>2 DEF Next, Service
  <2>3. \A c \in start .. lo - 1 : nor[c] = data[c] /\ shadow[c] = data[c]
    BY <1>4 DEF PrefixInv, PrefixOK
  <2>4. CASE UNCHANGED vars
    BY <2>3, <2>4 DEF vars, part, span
  <2>5. CASE FvbVerifyChunk
    <3>1. /\ ChunkEnd < hi /\ lo' = ChunkEnd /\ UNCHANGED <<start, hi, data, nor>>
          /\ shadow' = [w \in Window |-> IF w \in Chunk THEN data[w] ELSE shadow[w]]
          /\ \A c \in Chunk : nor[c] = data[c]
      BY <2>5 DEF FvbVerifyChunk, Finish, part
    <3>2. start .. hi - 1 \subseteq Window /\ hi \in Nat /\ lo < hi
      BY <1>0, <1>4, Layout DEF SpanOK, TypeOK
    <3>3. ChunkEnd \in Nat /\ lo < ChunkEnd /\ ChunkEnd <= hi
      BY <2>1, <3>2, ChunkStep
    <3>4. \A c \in start .. ChunkEnd - 1 : c \in Window /\ (c \in Chunk \/ c \in start .. lo - 1)
      BY <2>1, <3>2, <3>3 DEF Chunk
    <3> QED  BY <2>3, <3>1, <3>4
  <2> QED  BY <2>2, <2>4, <2>5
<1> QED  BY <1>2, <1>3, <1>4

\* Whatever the part does, lies included: FvbWrite returns success only when the
\* array and the shadow hold every byte of the buffer, and on an error counts no
\* byte that they do not hold.
THEOREM HonestReply == Spec => ReplyIsHonest
<1> DEFINE A == phase = "ready" /\ phase' = "ready"
                /\ pc \in {"program", "verify"} /\ pc' = "idle"
                => /\ reply'.status = "ok" => reply'.bytes = hi - start
                   /\ \A c \in start .. start + reply'.bytes - 1 :
                        nor'[c] = data[c] /\ shadow'[c] = data[c]
<1>1. Init => PrefixInv
  BY ReachInit DEF Init, PrefixInv, PrefixOK
<1>2. ASSUME PrefixInv, [Next]_vars PROVE A
  <2>0. TypeOK /\ SpanOK /\ LateOK
    BY <1>2 DEF PrefixInv, ReachInv
  <2> SUFFICES ASSUME phase = "ready", phase' = "ready",
                      pc \in {"program", "verify"}, pc' = "idle"
               PROVE  /\ reply'.status = "ok" => reply'.bytes = hi - start
                      /\ \A c \in start .. start + reply'.bytes - 1 :
                           nor'[c] = data[c] /\ shadow'[c] = data[c]
    OBVIOUS
  <2>1. start \in Nat /\ lo \in Nat /\ start <= lo /\ hi \in Nat /\ lo <= hi
    BY <2>0, Layout DEF TypeOK
  <2>3. CASE FvbProgramPage
    <3>1. reply' = Reply("error", 0)
      BY <2>3 DEF FvbProgramPage, Finish
    <3>2. reply'.status = "error" /\ reply'.bytes = 0
      BY <3>1 DEF Reply
    <3> QED  BY <2>1, <3>2
  <2>4. CASE FvbVerifyFails
    <3>1. reply' = Reply("error", lo - start) /\ UNCHANGED <<nor, shadow>>
          /\ phase = "ready" /\ pc = "verify"
      BY <2>4 DEF FvbVerifyFails, Finish, part
    <3>2. reply'.status = "error" /\ reply'.bytes = lo - start
      BY <3>1 DEF Reply
    <3>3. start .. start + reply'.bytes - 1 = start .. lo - 1
      BY <2>1, <3>2
    <3>4. \A c \in start .. lo - 1 : nor[c] = data[c] /\ shadow[c] = data[c]
      BY <1>2, <3>1 DEF PrefixInv, PrefixOK
    <3> QED  BY <3>1, <3>2, <3>3, <3>4
  <2>5. CASE FvbVerifyChunk
    <3>1. /\ phase = "ready" /\ pc = "verify"
          /\ UNCHANGED nor /\ ~(ChunkEnd < hi) /\ reply' = Reply("ok", hi - start)
          /\ shadow' = [w \in Window |-> IF w \in Chunk THEN data[w] ELSE shadow[w]]
          /\ \A c \in Chunk : nor[c] = data[c]
      BY <2>5 DEF FvbVerifyChunk, Finish, part
    <3>2. start .. hi - 1 \subseteq Window /\ lo < hi
      BY <2>0, <3>1, Layout DEF SpanOK
    <3>3. ChunkEnd = hi
      BY <2>1, <3>1, <3>2, ChunkStep
    <3>4. reply'.status = "ok" /\ reply'.bytes = hi - start
      BY <3>1 DEF Reply
    <3>5. start .. start + reply'.bytes - 1 = start .. hi - 1
      BY <2>1, <3>4
    <3>6. \A c \in start .. hi - 1 : c \in Window /\ (c \in Chunk \/ c \in start .. lo - 1)
      BY <2>1, <3>2, <3>3 DEF Chunk
    <3>7. \A c \in start .. lo - 1 : nor[c] = data[c] /\ shadow[c] = data[c]
      BY <1>2, <3>1 DEF PrefixInv, PrefixOK
    <3> QED  BY <3>1, <3>4, <3>5, <3>6, <3>7
  <2>6. FvbProgramPage \/ FvbVerifyFails \/ FvbVerifyChunk
    <3>1. ~UNCHANGED vars
      BY DEF vars
    <3>2. ~EntryFails /\ ~Load /\ ~FormatErase /\ ~FormatProgram /\ ~FormatVerify
          /\ ~PowerCut /\ ~FinishLate /\ ~ExitBootServices
      BY DEF FormatVerify, EntryFails, Load, FormatErase, FormatProgram, FormatFails, PowerCut,
             FinishLate, ExitBootServices, Accepting
    <3>3. ~Request
      BY DEF Request, FvbWrite, FvbEraseBlocks, NorFlashProgram, NorFlashErase, Accepting
    <3>4. /\ ~FvbEraseSector /\ ~FvbBlankFails /\ ~FvbBlankCheck
          /\ ~RawProgramPage /\ ~RawEraseSector
      BY DEF FvbEraseSector, FvbBlankFails, FvbBlankCheck, RawProgramPage,
             RawEraseSector
    <3> QED  BY <1>2, <3>1, <3>2, <3>3, <3>4 DEF Next, Entry, Service
  <2> QED  BY <2>3, <2>4, <2>5, <2>6
<1>3. PrefixInv /\ [Next]_vars => [A]_vars
  BY <1>2
<1> QED  BY <1>1, <1>3, PrefixStep, PTL DEF Spec, ReplyIsHonest

-----------------------------------------------------------------------------
(* The store promised to the drivers above.                                *)

\* FvbStore has the layout of this module.
LEMMA StoreWords ==
    /\ Store!Window = Window /\ Store!Managed = Managed
    /\ Store!HeaderCells = HeaderCells /\ Store!Cell = Cell
    /\ \A m : Store!HeaderValid(m) <=> HeaderValid(m)
<1>1. Store!WindowEnd = WindowEnd /\ \A l : Store!BlockBase(l) = BlockBase(l)
  BY DEF Store!WindowEnd, WindowEnd, Store!BlockBase, BlockBase
<1>2. Store!Window = Window
  BY <1>1 DEF Store!Window, Window
<1>3. \A f, l : Store!Region(f, l) = Region(f, l)
  BY <1>1 DEF Store!Region, Region
<1>4. Store!Managed = Managed
  BY <1>3 DEF Store!Managed, Managed
<1>5. Store!HeaderCells = HeaderCells
  BY DEF Store!HeaderCells, HeaderCells
<1>6. Store!Cell = Cell
  BY DEF Store!Cell, Cell
<1>7. \A m : Store!HeaderValid(m) <=> HeaderValid(m)
  BY <1>5 DEF Store!HeaderValid, HeaderValid
<1> QED  BY <1>2, <1>4, <1>5, <1>6, <1>7

\* What the store's reader sees, and the cells in doubt.
View   == IF phase = "ready" THEN shadow ELSE [w \in Window |-> nor[w]]
Unsure == IF phase = "ready" THEN suspect \cup InDoubt ELSE {}

\* The format begins with an invalid header, keeps it invalid until everything
\* managed is blank, and so does a command that it leaves behind: an erase, or
\* the header over a blank store.
Formatting ==
    /\ phase = "format" => suspect = {}
    /\ phase = "format" /\ pc # "verify" => ~HeaderValid(nor)
    /\ phase = "failed" /\ Busy =>
          /\ ~HeaderValid(nor) /\ DOMAIN late \subseteq Managed
          /\ \/ \A a \in DOMAIN late : late[a] = {}
             \/ DOMAIN late \subseteq HeaderCells /\ \A w \in Managed : nor[w] = {}

StoreInv == CoherentInv /\ Formatting

\* An erase, whole or not, leaves an invalid header invalid.
LEMMA StaysInvalid ==
    ASSUME nor \in [Addresses -> Cell], ~HeaderValid(nor), 
           \A c \in HeaderCells : nor'[c] \subseteq nor[c]
    PROVE  ~HeaderValid(nor')
<1>1. PICK c \in HeaderCells : nor[c] # Bits
  BY DEF HeaderValid
<1>2. c \in Addresses
  BY <1>1, Layout
<1>3. nor[c] \subseteq Bits
  BY <1>2 DEF Cell
<1>4. nor'[c] # Bits
  BY <1>1, <1>3
<1> QED  BY <1>1, <1>4 DEF HeaderValid

\* A step of the format keeps what it has established.
LEMMA FormattingNext ==
    ASSUME "format" \notin SilentPhases, StoreInv, CoherentInv', [Next]_vars
    PROVE  Formatting'
<1>0. TypeOK /\ SpanOK /\ LateOK /\ Coherent /\ Formatting
  BY DEF StoreInv, CoherentInv, ReachInv
<1>1. CASE UNCHANGED vars
  <2>1. UNCHANGED <<nor, late, phase, pc, suspect>>
    BY <1>1 DEF vars, part
  <2> QED  BY <1>0, <2>1 DEF Formatting, Busy, HeaderValid
<1>2. CASE Request \/ Service \/ ExitBootServices
  <2>1. phase = "ready" /\ phase' = "ready"
    BY <1>2 DEF Request, FvbWrite, FvbEraseBlocks, NorFlashProgram, NorFlashErase, Accepting,
         Refuse, Service, FvbProgramPage, FvbVerifyFails, FvbVerifyChunk, FvbEraseSector,
         FvbBlankFails, FvbBlankCheck, RawProgramPage, RawEraseSector, RawStep,
         ExitBootServices
  <2> QED  BY <2>1 DEF Formatting
<1>3. CASE FinishLate \/ PowerCut
  <2>1. late' = Nothing /\ (phase' = "off" \/ (phase' = phase /\ phase # "format"))
    BY <1>0, <1>3 DEF FinishLate, PowerCut, LateOK
  <2>2. ~Busy'
    BY <2>1 DEF Busy, Nothing
  <2> QED  BY <2>1, <2>2 DEF Formatting
<1>4. CASE EntryFails
  BY <1>0, <1>4 DEF EntryFails, Formatting, LateOK, Busy, part
<1>5. CASE Load
  <2>1. ~Busy /\ late' = late /\ nor' = nor
    BY <1>0, <1>5 DEF Load, LateOK, part
  <2> QED  BY <1>5, <2>1 DEF Load, Formatting, Busy, HeaderValid
<1>6. CASE FormatVerify
  BY <1>0, <1>6 DEF FormatVerify, Formatting, LateOK, Busy, part
<1>7. CASE FormatErase
  <2> DEFINE target == Erased(Block(Head(blocks)))
  <2>1. /\ Head(blocks) \in 0 .. BlockCount - 1 /\ LbaWritable(Head(blocks))
        /\ phase = "format" /\ pc = "erase" /\ ~Busy /\ phase \notin SilentPhases
        /\ ~HeaderValid(nor) /\ suspect' = suspect /\ suspect = {}
    BY <1>0, <1>7 DEF TypeOK, SpanOK, LateOK, FormatErase, FormatFails, Formatting
  <2>2. DOMAIN target \subseteq Managed /\ \A a \in DOMAIN target : target[a] = {}
    BY <2>1, BlockManaged DEF Erased
  <2>3. \/ Fails(target) /\ phase' = "failed"
        \/ Commanded(target) /\ phase' = "format"
    BY <1>7, <2>1 DEF FormatErase, FormatFails
  <2> HIDE DEF target
  <2>4. nor \in [Addresses -> Cell] /\ HeaderCells \subseteq Addresses
    BY <1>0, Layout DEF TypeOK
  <2>5. CASE Fails(target) /\ late' = target /\ nor' = nor
    <3>1. ~HeaderValid(nor')
      BY <2>1, <2>5
    <3> QED  BY <2>2, <2>3, <2>5, <3>1, <2>1 DEF Formatting, Commanded, Busy, Nothing
  <2>6. CASE Torn(target) /\ late' = late
    <3>1. \A c \in HeaderCells : nor'[c] \subseteq nor[c]
      BY <2>2, <2>4, <2>6 DEF Torn, Overlay
    <3>2. ~HeaderValid(nor') /\ ~Busy'
      BY <2>1, <2>4, <2>6, <3>1, StaysInvalid DEF Busy
    <3> QED  BY <2>1, <2>3, <3>2 DEF Formatting
  <2>7. CASE Commanded(target)
    <3>1. \A c \in HeaderCells : nor'[c] \subseteq nor[c]
      BY <2>1, <2>2, <2>4, <2>7 DEF Commanded, Overlay
    <3>2. ~HeaderValid(nor') /\ ~Busy'
      BY <2>1, <2>4, <2>7, <3>1, StaysInvalid DEF Busy, Commanded, Nothing
    <3> QED  BY <2>1, <2>3, <3>2 DEF Formatting
  <2> QED  BY <2>1, <2>3, <2>5, <2>6, <2>7 DEF Fails
<1>8. CASE FormatProgram
  <2> DEFINE target == [c \in HeaderCells |-> nor[c] \cup Bits]
  <2>1. /\ phase = "format" /\ pc = "program" /\ ~Busy
        /\ ~HeaderValid(nor) /\ suspect' = suspect /\ suspect = {}
        /\ \A w \in Managed : nor[w] = {}
    BY <1>0, <1>8 DEF LateOK, FormatProgram, FormatFails, Formatting, Coherent
  <2>2. \/ Fails(target) /\ phase' = "failed"
        \/ Commanded(target) /\ phase' = "format" /\ pc' = "verify"
    BY <1>8, <2>1 DEF FormatProgram, FormatFails
  <2>3. DOMAIN target = HeaderCells
    OBVIOUS
  <2> HIDE DEF target
  <2>4. CASE Fails(target) /\ late' = target /\ nor' = nor
    <3>1. ~HeaderValid(nor') /\ \A w \in Managed : nor'[w] = {}
      BY <2>1, <2>4
    <3>2. DOMAIN late' = HeaderCells /\ HeaderCells \subseteq Managed
      BY <2>3, <2>4, Layout
    <3> QED  BY <2>1, <2>2, <2>4, <3>1, <3>2 DEF Formatting, Commanded, Busy, Nothing
  <2>5. CASE late' = late
    <3>1. ~Busy'
      BY <2>1, <2>5 DEF Busy
    <3> QED  BY <2>1, <2>2, <3>1 DEF Formatting
  <2>6. CASE Commanded(target)
    <3>1. ~Busy'
      BY <2>6 DEF Commanded, Busy, Nothing
    <3> QED  BY <2>1, <2>2, <3>1 DEF Formatting
  <2> QED  BY <2>1, <2>2, <2>4, <2>5, <2>6 DEF Fails
<1> QED
  BY <1>1, <1>2, <1>3, <1>4, <1>5, <1>6, <1>7, <1>8 DEF Next, Entry

\* The cells in doubt are always managed ones.
LEMMA UnsureManaged == ReachInv => Unsure \subseteq Managed
<1> SUFFICES ASSUME ReachInv PROVE Unsure \subseteq Managed
  OBVIOUS
<1>0. TypeOK /\ SpanOK
  BY DEF ReachInv
<1>1. CASE phase = "ready" /\ pc \in {"program", "verify"}
  <2>1. start .. hi - 1 \subseteq Managed /\ start \in Nat /\ lo \in Nat /\ hi \in Nat
        /\ start <= lo
    BY <1>0, <1>1, Layout DEF SpanOK, TypeOK
  <2>2. InDoubt \subseteq start .. hi - 1
    BY <1>1, <2>1 DEF InDoubt
  <2> QED  BY <1>0, <1>1, <2>1, <2>2 DEF Unsure, TypeOK
<1>2. CASE phase = "ready" /\ pc = "blank"
  <2>1. Head(blocks) \in 0 .. BlockCount - 1 /\ LbaWritable(Head(blocks))
    BY <1>0, <1>2 DEF TypeOK, SpanOK
  <2> QED  BY <1>0, <1>2, <2>1, BlockManaged DEF Unsure, InDoubt, TypeOK
<1>3. CASE ~(phase = "ready" /\ pc \in {"program", "verify", "blank"})
  BY <1>0, <1>3 DEF Unsure, InDoubt, TypeOK
<1> QED  BY <1>1, <1>2, <1>3

LEMMA ViewCells == ReachInv => View \in [Window -> Cell]
BY Layout DEF ReachInv, TypeOK, View

\* A call refused or taken on, seen from above: at most some cells more are in
\* doubt.
LEMMA StoreRequest ==
    ASSUME ReachInv, ReachInv', Request
    PROVE  Store!Start
<1>1. phase = "ready" /\ InDoubt = {} /\ phase' = "ready"
      /\ UNCHANGED <<shadow, suspect>>
  <2>1. Accepting /\ UNCHANGED <<phase, shadow, suspect>>
    BY DEF Request, FvbWrite, FvbEraseBlocks, NorFlashProgram, NorFlashErase, Refuse
  <2> QED  BY <2>1, Accepted
<1>2. (Unsure \subseteq Managed)'
  BY UnsureManaged, PTL
<1> QED
  BY <1>1, <1>2, StoreWords DEF Store!Start, Unsure

\* A page programmed, a block erased or a failure: what was in doubt stays so.
LEMMA StoreWork ==
    ASSUME ReachInv, ReachInv',
           \/ FvbProgramPage \/ FvbVerifyFails \/ FvbEraseSector \/ FvbBlankFails
           \/ RawProgramPage \/ RawEraseSector
    PROVE  Store!Start
<1>0. TypeOK /\ SpanOK /\ phase = "ready" /\ phase' = "ready" /\ shadow' = shadow
  BY DEF ReachInv, FvbProgramPage, FvbVerifyFails, FvbEraseSector, FvbBlankFails,
         RawProgramPage, RawEraseSector, RawStep
<1>1. (Unsure \subseteq Managed)'
  BY UnsureManaged, PTL
<1>2. Unsure \subseteq Unsure'
  <2>1. CASE FvbProgramPage
    BY <1>0, <2>1 DEF FvbProgramPage, Finish, InDoubt, Unsure
  <2>2. CASE FvbVerifyFails
    BY <1>0, <2>2 DEF FvbVerifyFails, Finish, InDoubt, Unsure
  <2>3. CASE FvbEraseSector
    BY <1>0, <2>3 DEF FvbEraseSector, Finish, InDoubt, Unsure
  <2>4. CASE FvbBlankFails
    BY <1>0, <2>4 DEF FvbBlankFails, Finish, InDoubt, Unsure
  <2>5. CASE RawProgramPage \/ RawEraseSector
    BY <1>0, <2>5 DEF RawProgramPage, RawEraseSector, RawStep, Finish, InDoubt, Unsure
  <2> QED  BY <2>1, <2>2, <2>3, <2>4, <2>5
<1> QED
  BY <1>0, <1>1, <1>2, StoreWords DEF Store!Start, Unsure

\* A chunk or a block read back as it should be is out of doubt, and is all
\* that a reader sees change.
LEMMA StoreVerified ==
    ASSUME ReachInv, ReachInv', FvbVerifyChunk \/ FvbBlankCheck
    PROVE  Store!Verified
<1>0. TypeOK /\ SpanOK /\ phase = "ready" /\ phase' = "ready"
  BY DEF ReachInv, FvbVerifyChunk, FvbBlankCheck
<1>1. \E S : /\ S \subseteq Unsure /\ Unsure' \subseteq Unsure \ S
             /\ \A w \in Window \ S : shadow'[w] = shadow[w]
  <2>1. CASE FvbVerifyChunk
    <3>1. /\ pc = "verify" /\ lo < hi /\ lo \in Nat /\ hi \in Nat
      BY <1>0, <2>1, Layout DEF FvbVerifyChunk, TypeOK, SpanOK
    <3>2. ChunkEnd \in Nat /\ lo < ChunkEnd /\ ChunkEnd <= hi
      BY <3>1, ChunkStep
    <3>3. InDoubt = lo .. hi - 1 /\ Chunk \subseteq InDoubt
      BY <1>0, <3>1, <3>2 DEF InDoubt, Chunk
    <3>4. /\ suspect' = suspect \ Chunk
          /\ \A w \in Window \ Chunk : shadow'[w] = shadow[w]
      BY <1>0, <2>1 DEF FvbVerifyChunk
    <3>5. InDoubt' \subseteq InDoubt \ Chunk
      <4>1. CASE ChunkEnd < hi
        <5>1. InDoubt' = ChunkEnd .. hi - 1
          BY <1>0, <2>1, <3>1, <4>1 DEF FvbVerifyChunk, InDoubt
        <5> QED  BY <3>1, <3>2, <3>3, <5>1 DEF Chunk
      <4>2. CASE ~(ChunkEnd < hi)
        BY <1>0, <2>1, <4>2 DEF FvbVerifyChunk, Finish, InDoubt
      <4> QED  BY <4>1, <4>2
    <3> QED  BY <1>0, <3>3, <3>4, <3>5 DEF Unsure
  <2>2. CASE FvbBlankCheck
    <3> DEFINE block == Block(Head(blocks))
    <3>1. /\ InDoubt = block /\ suspect' = suspect \ block
          /\ \A w \in Window \ block : shadow'[w] = shadow[w]
      BY <1>0, <2>2 DEF FvbBlankCheck, InDoubt
    <3>2. InDoubt' = {}
      BY <1>0, <2>2 DEF FvbBlankCheck, Finish, InDoubt
    <3> HIDE DEF block
    <3> QED  BY <1>0, <3>1, <3>2 DEF Unsure
  <2> QED  BY <2>1, <2>2
<1>2. (View \in [Window -> Cell])'
  BY ViewCells, PTL
<1>3. View = shadow /\ View' = shadow'
  BY <1>0 DEF View
<1>4. \A w \in Window : w \in Unsure' \/ w \notin Unsure => View'[w] = View[w]
  BY <1>1, <1>3
<1>5. Unsure' \subseteq Unsure
  BY <1>1
<1> QED
  BY <1>0, <1>2, <1>4, <1>5, StoreWords DEF Store!Verified, Unsure, View

\* A driver that is not serving changes only what is managed, and only while
\* the header is invalid; it makes the header valid last.
LEMMA StoreFormats ==
    ASSUME phase # "ready", phase' # "ready", ReachInv', ~HeaderValid(nor),
           \A w \in Window \ Managed : nor'[w] = nor[w],
           HeaderValid(nor') => \A w \in Managed \ HeaderCells : nor'[w] = {}
    PROVE  Store!Reformat
<1>1. (View \in [Window -> Cell])'
  BY ViewCells, PTL
<1>2. \A w \in Window : View[w] = nor[w] /\ View'[w] = nor'[w]
  BY DEF View
<1>3. ~HeaderValid(View) /\ (HeaderValid(View') => HeaderValid(nor'))
  BY <1>2, Layout DEF HeaderValid
<1>4. \A w \in Window \ Managed : View'[w] = View[w]
  BY <1>2
<1>5. HeaderValid(View') => \A w \in Managed \ HeaderCells : View'[w] = {}
  BY <1>2, <1>3, Layout
<1>6. Unsure = {} /\ Unsure' = {}
  BY DEF Unsure
<1> QED
  BY <1>1, <1>3, <1>4, <1>5, <1>6, StoreWords DEF Store!Reformat, View, Unsure

\* A store that does not read or hear anything new.
LEMMA StoreRests ==
    ASSUME phase # "ready", phase' # "ready", nor' = nor
    PROVE  UNCHANGED Store!vars
BY DEF Store!vars

\* The store is served from an array that the shadow copies exactly.
LEMMA StoreServes ==
    ASSUME CoherentInv, CoherentInv', phase # "ready", phase' = "ready", pc' = "idle",
           nor' = nor, HeaderValid(nor), suspect' = {}
    PROVE  Store!Serve
<1>1. Unsure' = {} /\ Unsure = {}
  BY DEF Unsure, InDoubt
<1>2. \A w \in Window : shadow'[w] = nor[w]
  BY <1>1 DEF CoherentInv, Coherent, Unsure
<1>3. View' = View
  <2>1. shadow' \in [Window -> Cell]
    BY DEF CoherentInv, ReachInv, TypeOK
  <2>2. View = [w \in Window |-> nor[w]] /\ View' = shadow'
    BY DEF View
  <2> QED  BY <1>2, <2>1, <2>2
<1>4. HeaderValid(View)
  BY Layout DEF HeaderValid, View
<1> QED
  BY <1>1, <1>3, <1>4, StoreWords DEF Store!Serve, View, Unsure

\* The part completes, or is cut short in, a command that nobody waits for.
LEMMA StorePlatform ==
    ASSUME StoreInv, CoherentInv', FinishLate \/ PowerCut
    PROVE  Store!Next \/ UNCHANGED Store!vars
<1>0. TypeOK /\ SpanOK /\ LateOK /\ Coherent /\ Formatting /\ ReachInv'
  BY DEF StoreInv, CoherentInv, ReachInv
<1>1. /\ nor \in [Addresses -> Cell] /\ HeaderCells \subseteq Managed
      /\ Managed \subseteq Window /\ Window \subseteq Addresses
  BY <1>0, Layout DEF TypeOK
<1>2. /\ \A a \in Addresses : nor'[a] # nor[a] => a \in DOMAIN late
      /\ (\A a \in DOMAIN late : late[a] = {}) =>
            \A a \in Addresses : nor'[a] \subseteq nor[a]
  <2>1. CASE FinishLate
    BY <1>1, <2>1 DEF FinishLate, Overlay
  <2>2. CASE PowerCut
    BY <1>1, <2>2 DEF PowerCut, Torn, Overlay
  <2> QED  BY <2>1, <2>2
<1>3. CASE phase = "ready" /\ FinishLate
  <2>1. UNCHANGED <<phase, shadow, suspect, pc, start, lo, hi, blocks>>
    BY <1>3 DEF FinishLate, span
  <2>2. Unsure' = Unsure /\ View' = View
    BY <1>3, <2>1 DEF Unsure, View, InDoubt
  <2> QED  BY <2>1, <2>2 DEF Store!vars, Unsure, View
<1>4. CASE phase = "ready" /\ PowerCut
  <2>1. phase' = "off" /\ Unsure' = {}
    BY <1>4 DEF PowerCut, Unsure
  <2>2. (View \in [Window -> Cell])'
    BY <1>0, ViewCells, PTL
  <2>3. \A w \in Window \ Unsure : View'[w] = View[w]
    <3> SUFFICES ASSUME NEW w \in Window \ Unsure PROVE nor'[w] = shadow[w]
      BY <1>4, <2>1 DEF View
    <3>1. w \notin DOMAIN late
      BY <1>0, <1>4 DEF LateOK, Unsure
    <3>2. nor'[w] = nor[w]
      BY <1>1, <1>2, <3>1
    <3> QED  BY <1>0, <1>4, <3>2 DEF Coherent, Unsure
  <2> QED
    BY <2>1, <2>2, <2>3, StoreWords DEF Store!Next, Store!PowerCut, View, Unsure
<1>5. CASE phase # "ready" /\ Busy
  <2>1. phase = "failed" /\ phase' # "ready"
    BY <1>0, <1>5 DEF LateOK, TypeOK, FinishLate, PowerCut
  <2>2. ~HeaderValid(nor) /\ DOMAIN late \subseteq Managed
    BY <1>0, <1>5, <2>1 DEF Formatting
  <2>3. \A w \in Window \ Managed : nor'[w] = nor[w]
    BY <1>1, <1>2, <2>2
  <2>4. HeaderValid(nor') => \A w \in Managed \ HeaderCells : nor'[w] = {}
    <3>1. CASE \A a \in DOMAIN late : late[a] = {}
      <4>1. \A c \in HeaderCells : nor'[c] \subseteq nor[c]
        BY <1>1, <1>2, <3>1
      <4> QED  BY <1>1, <2>2, <4>1, StaysInvalid
    <3>2. CASE DOMAIN late \subseteq HeaderCells /\ \A w \in Managed : nor[w] = {}
      BY <1>1, <1>2, <3>2
    <3> QED  BY <1>0, <1>5, <2>1, <3>1, <3>2 DEF Formatting
  <2>5. Store!Reformat
    BY <1>0, <1>5, <2>1, <2>2, <2>3, <2>4, StoreFormats
  <2> QED  BY <2>5 DEF Store!Next
<1>6. CASE phase # "ready" /\ ~Busy
  <2>1. PowerCut /\ phase' # "ready"
    BY <1>6 DEF FinishLate, PowerCut
  <2>2. nor' = nor
    <3>1. PICK v : nor' = Overlay(nor, v) /\ DOMAIN v = {}
      BY <1>6, <2>1 DEF PowerCut, Torn, Busy
    <3> QED  BY <1>1, <3>1 DEF Overlay
  <2> QED  BY <1>6, <2>1, <2>2, StoreRests
<1> QED  BY <1>3, <1>4, <1>5, <1>6

\* The entry point and the format.
LEMMA StoreEntry ==
    ASSUME "format" \notin SilentPhases, StoreInv, CoherentInv', Entry
    PROVE  Store!Next \/ UNCHANGED Store!vars
<1>0. TypeOK /\ SpanOK /\ LateOK /\ Coherent /\ Formatting /\ ReachInv' /\ CoherentInv
  BY DEF StoreInv, CoherentInv, ReachInv
<1>1. /\ nor \in [Addresses -> Cell] /\ HeaderCells \subseteq Managed
      /\ Managed \subseteq Window /\ Window \subseteq Addresses
  BY <1>0, Layout DEF TypeOK
<1>2. CASE EntryFails
  BY <1>2, StoreRests DEF EntryFails, part
<1>3. CASE Load
  <2>1. phase = "off" /\ pc = "idle" /\ nor' = nor /\ suspect' = {}
    BY <1>0, <1>3 DEF Load, SpanOK, part
  <2>2. CASE HeaderValid(nor)
    <3>1. phase' = "ready" /\ pc' = "idle"
      BY <1>3, <2>1, <2>2 DEF Load
    <3>2. Store!Serve
      BY <1>0, <2>1, <2>2, <3>1, StoreServes
    <3> QED  BY <3>2 DEF Store!Next
  <2>3. CASE ~HeaderValid(nor)
    <3>1. phase' # "ready"
      BY <1>3, <2>3 DEF Load
    <3> QED  BY <2>1, <3>1, StoreRests
  <2> QED  BY <2>2, <2>3
<1>4. CASE FormatVerify
  <2>1. phase = "format" /\ pc' = "idle" /\ nor' = nor /\ suspect' = {}
    BY <1>0, <1>4 DEF FormatVerify, Formatting, part
  <2>2. CASE phase' = "failed"
    BY <2>1, <2>2, StoreRests
  <2>3. CASE HeaderValid(nor) /\ phase' = "ready"
    <3>1. Store!Serve
      BY <1>0, <2>1, <2>3, StoreServes
    <3> QED  BY <3>1 DEF Store!Next
  <2> QED  BY <1>4, <2>2, <2>3 DEF FormatVerify
<1>5. CASE FormatErase \/ FormatProgram
  <2>1. /\ phase = "format" /\ phase' # "ready" /\ ~Busy /\ ~HeaderValid(nor)
        /\ phase \notin SilentPhases
    BY <1>0, <1>5 DEF FormatErase, FormatProgram, FormatFails, LateOK, Formatting
  <2>2. /\ \A w \in Window \ Managed : nor'[w] = nor[w]
        /\ HeaderValid(nor') => \A w \in Managed \ HeaderCells : nor'[w] = {}
    <3>1. CASE FormatErase
      <4> DEFINE target == Erased(Block(Head(blocks)))
      <4>1. Head(blocks) \in 0 .. BlockCount - 1 /\ LbaWritable(Head(blocks))
        BY <1>0, <3>1 DEF TypeOK, SpanOK, FormatErase
      <4>2. DOMAIN target \subseteq Managed /\ \A a \in DOMAIN target : target[a] = {}
        BY <4>1, BlockManaged DEF Erased
      <4>3. Commanded(target) \/ Fails(target)
        BY <3>1 DEF FormatErase, FormatFails
      <4> HIDE DEF target
      <4>4. \A a \in Addresses : nor'[a] \subseteq nor[a]
                                 /\ (a \notin Managed => nor'[a] = nor[a])
        BY <1>1, <2>1, <4>2, <4>3 DEF Commanded, Fails, Torn, Overlay
      <4>5. \A c \in HeaderCells : nor'[c] \subseteq nor[c]
        BY <1>1, <4>4
      <4>6. ~HeaderValid(nor')
        BY <1>1, <2>1, <4>5, StaysInvalid
      <4> QED  BY <1>1, <4>4, <4>6
    <3>2. CASE FormatProgram
      <4> DEFINE target == [c \in HeaderCells |-> nor[c] \cup Bits]
      <4>1. \A w \in Managed : nor[w] = {}
        BY <1>0, <3>2 DEF FormatProgram, Coherent
      <4>2. Commanded(target) \/ Fails(target)
        BY <3>2 DEF FormatProgram, FormatFails
      <4>3. DOMAIN target = HeaderCells
        OBVIOUS
      <4> HIDE DEF target
      <4>4. \A a \in Addresses : a \notin HeaderCells => nor'[a] = nor[a]
        BY <1>1, <2>1, <4>2, <4>3 DEF Commanded, Fails, Torn, Overlay
      <4> QED  BY <1>1, <4>1, <4>4
    <3> QED  BY <1>5, <3>1, <3>2
  <2>3. Store!Reformat
    BY <1>0, <2>1, <2>2, StoreFormats
  <2> QED  BY <2>3 DEF Store!Next
<1> QED  BY <1>2, <1>3, <1>4, <1>5 DEF Entry

\* Every step of the driver is one of the store's, or none.
LEMMA StoreMaps ==
    ASSUME "format" \notin SilentPhases, StoreInv, CoherentInv', [Next]_vars
    PROVE  Store!Next \/ UNCHANGED Store!vars
<1>0. ReachInv /\ ReachInv'
  BY DEF StoreInv, CoherentInv
<1>1. CASE UNCHANGED vars
  <2>1. UNCHANGED <<nor, phase, shadow, suspect, pc, start, lo, hi, blocks>>
    BY <1>1 DEF vars, part, span
  <2>2. Unsure' = Unsure /\ View' = View
    BY <2>1 DEF Unsure, View, InDoubt
  <2> QED  BY <2>1, <2>2 DEF Store!vars, Unsure, View
<1>2. CASE Request
  BY <1>0, <1>2, StoreRequest DEF Store!Next
<1>3. CASE Service
  BY <1>0, <1>3, StoreWork, StoreVerified DEF Service, Store!Next
<1>4. CASE ExitBootServices
  <2>1. UNCHANGED <<nor, phase, shadow, suspect, pc, start, lo, hi, blocks>>
    BY <1>4 DEF ExitBootServices, part, span
  <2>2. Unsure' = Unsure /\ View' = View
    BY <2>1 DEF Unsure, View, InDoubt
  <2> QED  BY <2>1, <2>2 DEF Store!vars, Unsure, View
<1> QED
  BY <1>1, <1>2, <1>3, <1>4, StoreEntry, StorePlatform DEF Next

\* For every layout, page size, part that may lie in service, and history of
\* calls, failures, late completions and power cuts: the driver is the store
\* the variable and fault-tolerant-write drivers are promised.  The part does
\* what it reports while the store is formatted.
THEOREM StoreKept ==
    ASSUME "format" \notin SilentPhases
    PROVE  Spec => ImplementsStore
<1>1. Init => StoreInv
  BY ReachInit DEF Init, StoreInv, CoherentInv, Coherent, Formatting
<1>2. StoreInv /\ [Next]_vars => StoreInv' /\ [Store!Next]_(Store!vars)
  <2> SUFFICES ASSUME StoreInv, [Next]_vars
               PROVE  StoreInv' /\ [Store!Next]_(Store!vars)
    OBVIOUS
  <2>1. CoherentInv'
    BY CoherentStep DEF StoreInv
  <2>2. Formatting'
    BY <2>1, FormattingNext
  <2>3. Store!Next \/ UNCHANGED Store!vars
    BY <2>1, StoreMaps
  <2> QED  BY <2>1, <2>2, <2>3 DEF StoreInv
<1>3. Init => Store!Init
  <2> SUFFICES ASSUME Init PROVE Store!Init
    OBVIOUS
  <2>1. ReachInv /\ phase = "off"
    BY ReachInit DEF Init
  <2>2. View \in [Window -> Cell] /\ Unsure = {}
    BY <2>1, ViewCells DEF Unsure
  <2> QED  BY <2>1, <2>2, StoreWords DEF Store!Init, View, Unsure
<1> QED
  BY <1>1, <1>2, <1>3, PTL DEF Spec, ImplementsStore, Store!Spec
=============================================================================
