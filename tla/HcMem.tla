--------------------------------- MODULE HcMem ---------------------------------
(***************************************************************************)
(* UsbHcMem.c: the memory the xHCI driver shares with its controller.  A   *)
(* pool of blocks, each with a bit per 64-byte unit, hands out rings and   *)
(* contexts; scratchpads and their like are aligned pages of their own.    *)
(* Pages come from PciIo, which may have none left or fail to map them.    *)
(* Addresses count units, and pages are numbered from 0.                   *)
(***************************************************************************)
EXTENDS Naturals, Sequences, FiniteSets

CONSTANTS
    MemPages,      \* pages PciIo has to give
    PageUnits,     \* units of a page (64)
    DefaultPages,  \* USBHC_MEM_DEFAULT_PAGES
    Boundary,      \* units between two addresses a ring may not span
    Sizes,         \* units asked for
    AlignedAsks,   \* <<pages, alignment in pages>> asked for
    MaxLive,       \* bound: pieces of the pool in use
    MaxBuffers,    \* bound: aligned buffers in use
    MaxFaults      \* bound: calls that PciIo fails

ASSUME ParameterAssumption ==
    /\ {MemPages, PageUnits, DefaultPages, Boundary} \subseteq Nat \ {0}
    /\ Sizes \subseteq Nat \ {0}
    /\ AlignedAsks \subseteq (Nat \ {0}) \X (Nat \ {0})
    /\ {MaxLive, MaxBuffers, MaxFaults} \subseteq Nat

VARIABLES
    held,          \* pages PciIo has handed out
    pool,          \* the pool's blocks, its head first; <<>> before and after
    pieces,        \* pieces in use: [addr, len, ring]
    buffers,       \* aligned pages in use: [page, pages]
    faults

memVars == <<held, pool, pieces, buffers, faults>>

PagesFrom(p, n) == p .. p + n - 1
UnitsFrom(a, n) == a .. a + n - 1
Least(S) == CHOOSE x \in S : \A y \in S : x <= y

-----------------------------------------------------------------------------
(* Blocks. *)

Base(block) == block.page * PageUnits
Length(block) == block.pages * PageUnits

\* The bus sees the pages in an order of its own.
DevicePage(p, n) == MemPages - p - n

NewBlock(p, n) == [page |-> p, pages |-> n, dev |-> DevicePage(p, n), bits |-> {}]

\* Where PciIo->AllocateBuffer can put n pages.
Places(n) == {p \in 0 .. MemPages - n : PagesFrom(p, n) \cap held = {}}

Fails == faults < MaxFaults /\ faults' = faults + 1

\* Seeded fault: the boundary is looked for only where the search starts.
CrossesNever(a) == FALSE

\* Does a ring that has the unit before this one cross into another window?
Crosses(a) == a \div Boundary # (a - 1) \div Boundary

\* Seeded fault: a ring that meets a boundary starts over behind it.
LookStale(block, n, ring, s, i) ==
    IF s.available >= n THEN s
    ELSE IF i \in block.bits \/ (ring /\ Crosses(Base(block) + i))
           THEN [start |-> i + 1, available |-> 0]
    ELSE [s EXCEPT !.available = @ + 1]

\* UsbHcAllocMemFromBlock looks at one unit after another, for n free ones.
Look(block, n, ring, s, i) ==
    IF s.available >= n THEN s
    ELSE IF i \in block.bits THEN [start |-> i + 1, available |-> 0]
    ELSE IF ring /\ s.available # 0 /\ Crosses(Base(block) + i)
           THEN [start |-> i, available |-> 1]
    ELSE [s EXCEPT !.available = @ + 1]

Search(block, n, ring) ==
    LET seen[i \in 0 .. Length(block)] ==
            IF i = 0 THEN [start |-> 0, available |-> 0]
            ELSE Look(block, n, ring, seen[i - 1], i - 1)
    IN  seen[Length(block)]

Finds(block, n, ring) == Search(block, n, ring).available >= n

Marked(block, n, ring) ==
    [block EXCEPT !.bits = @ \cup UnitsFrom(Search(block, n, ring).start, n)]

Piece(block, n, ring) ==
    [addr |-> Base(block) + Search(block, n, ring).start, len |-> n, ring |-> ring]

-----------------------------------------------------------------------------
(* Translation of addresses. *)

\* The block that contains a whole piece, by host and by bus address.
HostHolders(a, n) ==
    {i \in DOMAIN pool : Base(pool[i]) <= a /\ a + n <= Base(pool[i]) + Length(pool[i])}
PciBase(block) == block.dev * PageUnits
PciHolders(a, n) ==
    {i \in DOMAIN pool : PciBase(pool[i]) <= a /\ a + n <= PciBase(pool[i]) + Length(pool[i])}

PciAddrForHostAddr(a, n) ==
    LET block == pool[Least(HostHolders(a, n))] IN PciBase(block) + (a - Base(block))
HostAddrForPciAddr(a, n) ==
    LET block == pool[Least(PciHolders(a, n))] IN Base(block) + (a - PciBase(block))

-----------------------------------------------------------------------------
(* The pool. *)

MemInit ==
    /\ held = {} /\ pool = <<>> /\ pieces = {} /\ buffers = {} /\ faults = 0

\* A failure of the buffer or of its mapping unwinds what was taken.
InitMemPool ==
    /\ pool = <<>>
    /\ \/ \E p \in Places(DefaultPages) :
             /\ pool' = <<NewBlock(p, DefaultPages)>>
             /\ held' = held \cup PagesFrom(p, DefaultPages)
             /\ UNCHANGED faults
       \/ Fails /\ UNCHANGED <<pool, held>>
    /\ UNCHANGED <<pieces, buffers>>

FromPool(n, ring) ==
    LET able == {i \in DOMAIN pool : Finds(pool[i], n, ring)}
    IN  /\ able # {}
        /\ pool' = [pool EXCEPT ![Least(able)] = Marked(@, n, ring)]
        /\ pieces' = pieces \cup {Piece(pool[Least(able)], n, ring)}
        /\ UNCHANGED <<held, faults>>

GrowthPages(n) ==
    IF n > DefaultPages * PageUnits
      THEN (n + PageUnits - 1) \div PageUnits + 1 ELSE DefaultPages

InsertMemBlock(block) == <<Head(pool), block>> \o Tail(pool)

\* A new block that cannot hold the ring stays in the pool, empty.
FromNewBlock(n, ring) ==
    /\ \A i \in DOMAIN pool : ~Finds(pool[i], n, ring)
    /\ \E p \in Places(GrowthPages(n)) :
          LET block == NewBlock(p, GrowthPages(n))
          IN  /\ held' = held \cup PagesFrom(p, GrowthPages(n))
              /\ IF Finds(block, n, ring)
                   THEN /\ pool' = InsertMemBlock(Marked(block, n, ring))
                        /\ pieces' = pieces \cup {Piece(block, n, ring)}
                   ELSE pool' = InsertMemBlock(block) /\ UNCHANGED pieces
    /\ UNCHANGED faults

NoMemory(n, ring) ==
    /\ \A i \in DOMAIN pool : ~Finds(pool[i], n, ring)
    /\ Fails /\ UNCHANGED <<held, pool, pieces>>

AllocateMem ==
    /\ pool # <<>> /\ Cardinality(pieces) < MaxLive
    /\ \E n \in Sizes, ring \in BOOLEAN :
          FromPool(n, ring) \/ FromNewBlock(n, ring) \/ NoMemory(n, ring)
    /\ UNCHANGED buffers

Without(i) == SubSeq(pool, 1, i - 1) \o SubSeq(pool, i + 1, Len(pool))

\* UsbHcFreeMem keeps the head, however empty.
Released(i, bits) == i # 1 /\ bits = {}

Cleared(block, x) == block.bits \ UnitsFrom(x.addr - Base(block), x.len)

FreeMem ==
    /\ \E x \in pieces :
          LET i    == Least(HostHolders(x.addr, x.len))
              bits == Cleared(pool[i], x)
          IN  /\ pieces' = pieces \ {x}
              /\ IF Released(i, bits)
                   THEN /\ pool' = Without(i)
                        /\ held' = held \ PagesFrom(pool[i].page, pool[i].pages)
                   ELSE pool' = [pool EXCEPT ![i].bits = bits] /\ UNCHANGED held
    /\ UNCHANGED <<buffers, faults>>

\* UsbHcFreeMemPool, with whatever is still allocated from it.
FreeMemPool ==
    /\ pool # <<>>
    /\ held' = held \ UNION {PagesFrom(pool[i].page, pool[i].pages) : i \in DOMAIN pool}
    /\ pool' = <<>> /\ pieces' = {}
    /\ UNCHANGED <<buffers, faults>>

-----------------------------------------------------------------------------
(* Aligned pages. *)

Aligned(p, alignment) == ((p + alignment - 1) \div alignment) * alignment

\* Pages taken: enough to find an aligned run, but none to spare for one page.
RealPages(n, alignment) == IF alignment > 1 THEN n + alignment ELSE n

\* What is given back behind the aligned run.
TailPages(p, n, alignment) ==
    RealPages(n, alignment) - n - (Aligned(p, alignment) - p)

\* The pages are trimmed before they are mapped; a failed mapping frees the rest.
AllocateAlignedPages ==
    /\ Cardinality(buffers) < MaxBuffers
    /\ \E ask \in AlignedAsks :
       \E p \in Places(RealPages(ask[1], ask[2])) :
          LET first == Aligned(p, ask[2])
              kept  == ((held \cup PagesFrom(p, RealPages(ask[1], ask[2])))
                          \ PagesFrom(p, first - p))
                          \ PagesFrom(first + ask[1], TailPages(p, ask[1], ask[2]))
          IN  \/ /\ held' = kept
                 /\ buffers' = buffers \cup {[page |-> first, pages |-> ask[1]]}
                 /\ UNCHANGED faults
              \/ /\ Fails /\ held' = kept \ PagesFrom(first, ask[1])
                 /\ UNCHANGED buffers
    /\ UNCHANGED <<pool, pieces>>

FreeAlignedPages ==
    /\ \E b \in buffers :
          buffers' = buffers \ {b} /\ held' = held \ PagesFrom(b.page, b.pages)
    /\ UNCHANGED <<pool, pieces, faults>>

MemNext ==
    \/ InitMemPool \/ AllocateMem \/ FreeMem \/ FreeMemPool
    \/ AllocateAlignedPages \/ FreeAlignedPages

MemSpec == MemInit /\ [][MemNext]_memVars

-----------------------------------------------------------------------------
(* Properties. *)

Units(x) == UnitsFrom(x.addr, x.len)

\* Nothing the controller and the driver share is handed out twice: pieces are
\* disjoint, exactly their units are marked, a ring stays within one window of
\* the size the controller's TRB pointers can wrap in, and the address of any
\* piece of it survives the way to the controller and back.
PiecesSound ==
    /\ \A x, y \in pieces : x # y => Units(x) \cap Units(y) = {}
    /\ UNION {Units(x) : x \in pieces} =
         UNION {{Base(pool[i]) + u : u \in pool[i].bits} : i \in DOMAIN pool}
    /\ \A x \in pieces :
         /\ x.ring => x.addr \div Boundary = (x.addr + x.len - 1) \div Boundary
         /\ \A a \in Units(x) :
              HostAddrForPciAddr(PciAddrForHostAddr(a, 1), 1) = a

\* Every page PciIo handed out is in one block of the pool or in one aligned
\* buffer, through every failure, trim and release: nothing leaks and nothing
\* that was given back is still used.
PagesConserved ==
    LET inPool == {PagesFrom(pool[i].page, pool[i].pages) : i \in DOMAIN pool}
        apart  == {PagesFrom(b.page, b.pages) : b \in buffers}
    IN  /\ held = UNION (inPool \cup apart)
        /\ \A s, t \in inPool \cup apart : s # t => s \cap t = {}

\* Nothing the driver owns is handed out twice and nothing is lost: units within
\* the pool's blocks, and the pages under the blocks and the aligned buffers.
PoolSound == PiecesSound /\ PagesConserved

\* A block is passed over only when no run of free units in it would do, so the
\* pool does not grow while it has room.
SearchFindsRoom ==
    \A i \in DOMAIN pool, n \in Sizes, ring \in BOOLEAN :
        Finds(pool[i], n, ring) <=>
            \E s \in 0 .. Length(pool[i]) - n :
                LET first == Base(pool[i]) + s
                IN  /\ UnitsFrom(s, n) \cap pool[i].bits = {}
                    /\ ring => first \div Boundary = (first + n - 1) \div Boundary
=============================================================================
