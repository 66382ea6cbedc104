--------------------------- MODULE XhciSlots_proofs ---------------------------
(***************************************************************************)
(* What TLAPS proves of the device slots for any set of places, slots,     *)
(* addresses and devices, however many are attached, detached or fail: the *)
(* table has one entry per place and its types, the slots follow the tree, *)
(* addresses lead to the devices they were given to, the translator of a   *)
(* slow device is the right one, and nothing walks a ring that was freed.  *)
(***************************************************************************)
EXTENDS XhciSlots, FiniteSetTheorems, WellFoundedInduction, TLAPS

-----------------------------------------------------------------------------
(* Places, the tree they form and the charts that name them.                 *)

ParentRoute(p) == IF IsRoot(p) THEN <<>> ELSE Route[Hub(p)]
Under(p) == Below(p) \ {p}

\* A place is a sequence of at most six ports; its hub is one port shorter.
LEMMA PlaceShape ==
  ASSUME NEW p \in Places
  PROVE  /\ p \in Seq(Nat) /\ Len(p) \in 1 .. 6
         /\ \A i \in 1 .. Len(p) : p[i] \in Nat
         /\ \A i \in 2 .. Len(p) : p[i] \in 1 .. 14
BY PlaceAssumption

LEMMA HubShape ==
  ASSUME NEW p \in Places, ~IsRoot(p)
  PROVE  /\ Hub(p) \in Places /\ Len(Hub(p)) = Len(p) - 1 /\ Hub(p) # p
         /\ \A i \in 1 .. Len(p) - 1 : Hub(p)[i] = p[i]
<1>1. p \in Seq(Nat) /\ Len(p) \in 2 .. 6
  BY PlaceShape DEF IsRoot
<1>2. Hub(p) \in Places
  BY PlaceAssumption
<1> DEFINE n == Len(p) - 1
<1>3. n \in 1 .. 5 /\ n <= Len(p) /\ Hub(p) = SubSeq(p, 1, n)
  BY <1>1 DEF Hub
<1> HIDE DEF n
<1>4. Len(Hub(p)) = n /\ \A i \in 1 .. n : Hub(p)[i] = p[i]
  BY <1>1, <1>3
<1>5. Hub(p) # p
  BY <1>1, <1>4 DEF n
<1> QED  BY <1>2, <1>4, <1>5 DEF n

\* Places are below one another as sequences are prefixes of one another.
LEMMA BelowShape ==
  ASSUME NEW p \in Places, NEW q \in Places
  PROVE  q \in Below(p) <=> Len(p) <= Len(q) /\ \A i \in 1 .. Len(p) : q[i] = p[i]
<1>1. p \in Seq(Nat) /\ q \in Seq(Nat) /\ Len(p) \in 1 .. 6 /\ Len(q) \in 1 .. 6
  BY PlaceShape
<1>2. ASSUME Len(p) <= Len(q)
      PROVE  /\ Len(SubSeq(q, 1, Len(p))) = Len(p)
             /\ SubSeq(q, 1, Len(p)) \in Seq(Nat)
             /\ \A i \in 1 .. Len(p) : SubSeq(q, 1, Len(p))[i] = q[i]
  BY <1>1, <1>2
<1>3. ASSUME q \in Below(p)
      PROVE  Len(p) <= Len(q) /\ \A i \in 1 .. Len(p) : q[i] = p[i]
  BY <1>1, <1>2, <1>3 DEF Below
<1>4. ASSUME Len(p) <= Len(q), \A i \in 1 .. Len(p) : q[i] = p[i]
      PROVE  q \in Below(p)
  <2>1. SubSeq(q, 1, Len(p)) = p
    BY <1>1, <1>2, <1>4
  <2> QED  BY <1>1, <1>4, <2>1 DEF Below
<1> QED  BY <1>3, <1>4

LEMMA SamePlace ==
  ASSUME NEW p \in Places, NEW q \in Places, Len(p) = Len(q),
         \A i \in 1 .. Len(p) : p[i] = q[i]
  PROVE  p = q
BY PlaceShape

\* What is below what, as far as the proofs need it.
LEMMA BelowOrder ==
  ASSUME NEW p \in Places, NEW q \in Places
  PROVE  /\ p \in Below(p)
         /\ q \in Below(p) => Len(p) <= Len(q)
         /\ q \in Below(p) /\ Len(p) = Len(q) => p = q
         /\ \A r \in Places : q \in Below(p) /\ r \in Below(q) => r \in Below(p)
         /\ \A r \in Places : r \in Below(p) /\ r \in Below(q) /\ Len(p) <= Len(q) => q \in Below(p)
<1>1. Len(p) \in 1 .. 6 /\ Len(q) \in 1 .. 6
  BY PlaceShape
<1>2. p \in Below(p)
  BY <1>1, BelowShape
<1>3. q \in Below(p) => Len(p) <= Len(q)
  BY BelowShape
<1>4. q \in Below(p) /\ Len(p) = Len(q) => p = q
  BY BelowShape, SamePlace
<1>5. ASSUME NEW r \in Places, q \in Below(p), r \in Below(q)
      PROVE  r \in Below(p)
  <2>1. Len(p) <= Len(q) /\ \A i \in 1 .. Len(p) : q[i] = p[i]
    BY <1>5, BelowShape
  <2>2. Len(q) <= Len(r) /\ \A i \in 1 .. Len(q) : r[i] = q[i]
    BY <1>5, BelowShape
  <2>3. Len(r) \in 1 .. 6
    BY PlaceShape
  <2>4. Len(p) <= Len(r) /\ \A i \in 1 .. Len(p) : r[i] = p[i]
    BY <1>1, <2>1, <2>2, <2>3
  <2> QED  BY <2>4, BelowShape
<1>6. ASSUME NEW r \in Places, r \in Below(p), r \in Below(q), Len(p) <= Len(q)
      PROVE  q \in Below(p)
  <2>1. \A i \in 1 .. Len(p) : r[i] = p[i]
    BY <1>6, BelowShape
  <2>2. \A i \in 1 .. Len(q) : r[i] = q[i]
    BY <1>6, BelowShape
  <2>3. \A i \in 1 .. Len(p) : q[i] = p[i]
    BY <1>1, <1>6, <2>1, <2>2
  <2> QED  BY <1>6, <2>3, BelowShape
<1> QED  BY <1>2, <1>3, <1>4, <1>5, <1>6

LEMMA HubAbove ==
  ASSUME NEW p \in Places, ~IsRoot(p)
  PROVE  /\ Hub(p) \in Places /\ p \in Under(Hub(p))
         /\ \A q \in Places : p \in Under(q) <=> Hub(p) \in Below(q)
<1>1. /\ Hub(p) \in Places /\ Len(Hub(p)) = Len(p) - 1 /\ Hub(p) # p
      /\ \A i \in 1 .. Len(p) - 1 : Hub(p)[i] = p[i]
  BY HubShape
<1>2. Len(p) \in 1 .. 6
  BY PlaceShape
<1>3. p \in Below(Hub(p))
  BY <1>1, <1>2, BelowShape
<1>4. ASSUME NEW q \in Places, p \in Under(q)
      PROVE  Hub(p) \in Below(q)
  <2>1. p \in Below(q) /\ q # p
    BY <1>4 DEF Under
  <2>2. Len(q) <= Len(p) /\ Len(q) # Len(p) /\ Len(q) \in 1 .. 6
    BY <2>1, BelowOrder, PlaceShape
  <2>3. Len(q) <= Len(Hub(p))
    BY <1>1, <1>2, <2>2
  <2> QED  BY <1>1, <1>3, <2>1, <2>3, BelowOrder
<1>5. ASSUME NEW q \in Places, Hub(p) \in Below(q)
      PROVE  p \in Under(q)
  <2>1. p \in Below(q)
    BY <1>1, <1>3, <1>5, BelowOrder
  <2>2. Len(q) <= Len(Hub(p)) /\ Len(q) \in 1 .. 6
    BY <1>1, <1>5, BelowOrder, PlaceShape
  <2>3. q # p
    BY <1>1, <1>2, <2>2
  <2> QED  BY <2>1, <2>3 DEF Under
<1> QED  BY <1>1, <1>3, <1>4, <1>5 DEF Under

LEMMA RootAlone ==
  ASSUME NEW p \in Places, IsRoot(p), NEW q \in Places
  PROVE  p \notin Under(q)
<1>1. Len(q) \in 1 .. 6
  BY PlaceShape
<1>2. ASSUME p \in Below(q)
      PROVE  p = q
  <2>1. Len(q) <= Len(p)
    BY <1>2, BelowOrder
  <2>2. Len(q) = Len(p)
    BY <1>1, <2>1, PlaceShape DEF IsRoot
  <2> QED  BY <1>2, <2>2, BelowOrder
<1> QED  BY <1>2 DEF Under

\* The chart tells the place, ports having at most 14 at a hub.
LEMMA RouteShape ==
  ASSUME NEW p \in Places
  PROVE  /\ Route[p] \in Seq(Nat) /\ Len(Route[p]) = Len(p) /\ Route[p] # <<>>
         /\ \A i \in 1 .. Len(p) : Route[p][i] = Nibble(i, p[i])
<1>1. Len(p) \in 1 .. 6 /\ \A i \in 1 .. Len(p) : p[i] \in Nat
  BY PlaceShape
<1>2. Route[p] = [i \in 1 .. Len(p) |-> Nibble(i, p[i])]
  BY DEF Route
<1>3. \A i \in 1 .. Len(p) : Nibble(i, p[i]) \in Nat
  BY <1>1 DEF Nibble
<1>4. Route[p] \in Seq(Nat) /\ Len(Route[p]) = Len(p)
  BY <1>1, <1>2, <1>3
<1>5. Route[p] # <<>>
  <2>1. Len(<<>>) = 0
    OBVIOUS
  <2>2. Len(Route[p]) # 0
    <3>1. Len(p) # 0
      BY <1>1
    <3> QED  BY <1>4, <3>1, Zenon
  <2> QED  BY <2>1, <2>2
<1> DEFINE f == [i \in 1 .. Len(p) |-> Nibble(i, p[i])]
<1>6. \A i \in 1 .. Len(p) : f[i] = Nibble(i, p[i])
  OBVIOUS
<1>7. Route[p] = f
  BY <1>2
<1> HIDE DEF f
<1> QED  BY <1>4, <1>5, <1>6, <1>7

LEMMA RouteTells ==
  ASSUME NEW p \in Places, NEW q \in Places, Route[p] = Route[q]
  PROVE  p = q
<1>1. Len(p) = Len(q) /\ Len(p) \in 1 .. 6
  BY RouteShape, PlaceShape
<1>2. ASSUME NEW i \in 1 .. Len(p)
      PROVE  p[i] = q[i]
  <2>1. Nibble(i, p[i]) = Nibble(i, q[i])
    BY <1>1, RouteShape
  <2>2. CASE i = 1
    BY <1>1, <2>1, <2>2, PlaceShape DEF Nibble
  <2>3. CASE i # 1
    <3>1. i \in 2 .. Len(p)
      BY <1>1, <2>3
    <3>2. p[i] \in 1 .. 14 /\ q[i] \in 1 .. 14
      BY <1>1, <3>1, PlaceShape
    <3> QED  BY <2>1, <2>3, <3>2 DEF Nibble
  <2> QED  BY <2>2, <2>3
<1> QED  BY <1>1, <1>2, SamePlace

LEMMA RouteGrows ==
  ASSUME NEW p \in Places
  PROVE  Route[p] = RouteChart(ParentRoute(p), p[Len(p)])
<1>1. Len(p) \in 1 .. 6 /\ \A i \in 1 .. Len(p) : p[i] \in Nat
  BY PlaceShape
<1>2. CASE IsRoot(p)
  <2>1. Len(p) = 1
    BY <1>2 DEF IsRoot
  <2>2. Route[p] = <<Nibble(1, p[1])>>
    BY <2>1, RouteShape DEF Route
  <2> QED  BY <1>2, <2>1, <2>2 DEF RouteChart, ParentRoute
<1>3. CASE ~IsRoot(p)
  <2> DEFINE h == Hub(p)
             n == Len(p)
  <2>1. /\ h \in Places /\ Len(h) = n - 1 /\ n \in 2 .. 6
        /\ \A i \in 1 .. n - 1 : h[i] = p[i]
    BY <1>1, <1>3, HubShape DEF IsRoot
  <2>2. /\ Route[h] \in Seq(Nat) /\ Len(Route[h]) = n - 1
        /\ \A i \in 1 .. n - 1 : Route[h][i] = Nibble(i, p[i])
    BY <2>1, RouteShape
  <2>3. /\ Route[p] \in Seq(Nat) /\ Len(Route[p]) = n
        /\ \A i \in 1 .. n : Route[p][i] = Nibble(i, p[i])
    BY RouteShape
  <2>4. RouteChart(Route[h], p[n]) = Append(Route[h], Nibble(n, p[n]))
    BY <2>1, <2>2 DEF RouteChart
  <2>5. Nibble(n, p[n]) \in Nat
    BY <1>1, <2>1 DEF Nibble
  <2> DEFINE a == Append(Route[h], Nibble(n, p[n]))
  <2> HIDE DEF h, n
  <2>6. /\ a \in Seq(Nat) /\ Len(a) = n
        /\ \A i \in 1 .. n - 1 : a[i] = Route[h][i]
        /\ a[n] = Nibble(n, p[n])
    BY <2>1, <2>2, <2>5
  <2>7. \A i \in 1 .. n : a[i] = Route[p][i]
    BY <2>1, <2>2, <2>3, <2>6
  <2> HIDE DEF a
  <2>8. Route[p] = a
    BY <2>3, <2>6, <2>7
  <2> QED  BY <1>3, <2>4, <2>8 DEF ParentRoute, a, h, n
<1> QED  BY <1>2, <1>3

\* Induction along the tree, at most six tiers deep, for a set of places.
LEMMA TreeDown ==
  ASSUME NEW p \in Places, NEW S, p \in S,
         \A q \in Under(p) : Hub(q) \in S => q \in S
  PROVE  Below(p) \subseteq S
<1> DEFINE D(n) == \A q \in Below(p) : Len(q) = n => q \in S
<1>1. \A q \in Below(p) : q \in Places /\ Len(q) \in 1 .. 6
  BY PlaceShape DEF Below
<1>2. D(0)
  BY <1>1
<1>3. ASSUME NEW n \in 0 .. 5, D(n)
      PROVE  D(n + 1)
  <2> SUFFICES ASSUME NEW q \in Below(p), Len(q) = n + 1
               PROVE  q \in S
    OBVIOUS
  <2>1. CASE q = p
    BY <2>1
  <2>2. CASE q # p
    <3>1. q \in Places /\ q \in Under(p) /\ ~IsRoot(q)
      BY <1>1, <2>2, RootAlone DEF Under
    <3>2. Hub(q) \in Below(p) /\ Len(Hub(q)) = n
      BY <3>1, HubAbove, HubShape
    <3> QED  BY <1>3, <3>1, <3>2
  <2> QED  BY <2>1, <2>2
<1> HIDE DEF D
<1>4. D(1)
  BY <1>2, <1>3
<1>5. D(2)
  BY <1>4, <1>3
<1>6. D(3)
  BY <1>5, <1>3
<1>7. D(4)
  BY <1>6, <1>3
<1>8. D(5)
  BY <1>7, <1>3
<1>9. D(6)
  BY <1>8, <1>3
<1> QED  BY <1>1, <1>4, <1>5, <1>6, <1>7, <1>8, <1>9 DEF D

LEMMA TreeUp ==
  ASSUME NEW q \in Places, NEW S, q \in S,
         \A r \in Places \cap S : ~IsRoot(r) => Hub(r) \in S
  PROVE  \A p \in Places : q \in Below(p) => p \in S
<1> SUFFICES ASSUME NEW p \in Places, q \in Below(p), p \notin S
             PROVE  FALSE
  OBVIOUS
<1> DEFINE T == {r \in Places : r \notin S}
<1>1. ASSUME NEW r \in Under(p), Hub(r) \in T
      PROVE  r \in T
  <2>1. r \in Places /\ ~IsRoot(r)
    BY <1>1, RootAlone DEF Under, Below
  <2> QED  BY <1>1, <2>1
<1>2. Below(p) \subseteq T
  <2>1. p \in T
    OBVIOUS
  <2> HIDE DEF T
  <2> QED  BY <1>1, <2>1, TreeDown
<1> QED  BY <1>2

\* XhcRouteStringToSlotId and XhcBusDevAddrToSlotId find an entry if there is one.
LEMMA LowestIn ==
  ASSUME NEW S, S \subseteq Nat \ {0}
  PROVE  /\ S = {} => Lowest(S) = 0
         /\ S # {} => Lowest(S) \in S /\ Lowest(S) # 0
<1>1. CASE S = {}
  BY <1>1 DEF Lowest
<1>2. CASE S # {}
  <2> DEFINE order == {ss \in Nat \X Nat : ss[1] < ss[2]}
  <2>1. IsWellFoundedOn(order, Nat)
    BY NatLessThanWellFounded, Zenon DEF OpToRel
  <2>2. PICK m \in S : \A t \in S : m <= t
    <3>1. PICK m \in S : \A t \in S : <<t, m>> \notin order
      <4> HIDE DEF order
      <4> QED  BY <1>2, <2>1, WFMin
    <3>2. \A t \in S : t \in Nat /\ m \in Nat /\ ~(t < m)
      BY <3>1
    <3>3. \A t \in S : m <= t
      BY <3>2
    <3> QED  BY <3>3
  <2>3. (CHOOSE s \in S : \A t \in S : s <= t) \in S
    BY <2>2
  <2> QED  BY <1>2, <2>3 DEF Lowest
<1> QED  BY <1>1, <1>2

-----------------------------------------------------------------------------
(* What a step that writes one field does to the others.                     *)

At(s, p) == Live(s) /\ ctx[s].route = Route[p]

\* What becomes of an entry when one of its fields is written.
LEMMA EntryFields ==
  ASSUME NEW e \in Entries
  PROVE  /\ e.enabled \in BOOLEAN /\ e.slot \in Slots \cup {0}
         /\ e.route \in Charts /\ e.parent \in Charts
         /\ e.busAddr \in Addresses \cup {0} /\ e.rings \subseteq Eps
         /\ e.xhciAddr \in BOOLEAN /\ e.described \in BOOLEAN /\ e.alt \in Alternates
BY DEF Entries

LEMMA EntryAddressed ==
  ASSUME NEW e \in Entries
  PROVE  LET f == [e EXCEPT !.xhciAddr = TRUE]
         IN  /\ f \in Entries /\ f.enabled = e.enabled /\ f.slot = e.slot /\ f.route = e.route
             /\ f.parent = e.parent /\ f.busAddr = e.busAddr /\ f.rings = e.rings
             /\ f.xhciAddr /\ f.alt = e.alt
BY DEF Entries

LEMMA EntryNumbered ==
  ASSUME NEW e \in Entries, NEW a \in Addresses \cup {0}
  PROVE  LET f == [e EXCEPT !.busAddr = a]
         IN  /\ f \in Entries /\ f.enabled = e.enabled /\ f.slot = e.slot /\ f.route = e.route
             /\ f.parent = e.parent /\ f.busAddr = a /\ f.rings = e.rings
             /\ f.xhciAddr = e.xhciAddr /\ f.alt = e.alt
BY DEF Entries

LEMMA EntryDescribed ==
  ASSUME NEW e \in Entries
  PROVE  LET f == [e EXCEPT !.described = TRUE]
         IN  /\ f \in Entries /\ f.enabled = e.enabled /\ f.slot = e.slot /\ f.route = e.route
             /\ f.parent = e.parent /\ f.busAddr = e.busAddr /\ f.rings = e.rings
             /\ f.xhciAddr = e.xhciAddr /\ f.alt = e.alt
BY DEF Entries

LEMMA EntryRinged ==
  ASSUME NEW e \in Entries, NEW R \in SUBSET Eps, NEW a \in Alternates
  PROVE  LET f == [e EXCEPT !.rings = R, !.alt = a]
         IN  /\ f \in Entries /\ f.enabled = e.enabled /\ f.slot = e.slot /\ f.route = e.route
             /\ f.parent = e.parent /\ f.busAddr = e.busAddr /\ f.rings = R
             /\ f.xhciAddr = e.xhciAddr /\ f.alt = a
BY DEF Entries

LEMMA EntryLeft ==
  ASSUME NEW e \in Entries, NEW R \in SUBSET Eps
  PROVE  LET f == [e EXCEPT !.rings = R]
         IN  /\ f \in Entries /\ f.enabled = e.enabled /\ f.slot = e.slot /\ f.route = e.route
             /\ f.parent = e.parent /\ f.busAddr = e.busAddr /\ f.rings = R
             /\ f.xhciAddr = e.xhciAddr /\ f.alt = e.alt
BY DEF Entries

LEMMA EntryClosed ==
  ASSUME NEW e \in Entries
  PROVE  LET f == Closed(e)
         IN  /\ f \in Entries /\ f.enabled = FALSE /\ f.slot = 0 /\ f.route = e.route
             /\ f.parent = e.parent /\ f.busAddr = e.busAddr /\ f.rings = {}
             /\ f.xhciAddr = e.xhciAddr /\ f.alt = e.alt
BY DEF Entries, Closed

LEMMA EntrySlotless ==
  ASSUME NEW e \in Entries
  PROVE  LET f == [e EXCEPT !.slot = 0]
         IN  /\ f \in Entries /\ f.enabled = e.enabled /\ f.slot = 0 /\ f.route = e.route
             /\ f.parent = e.parent /\ f.busAddr = e.busAddr /\ f.rings = e.rings
             /\ f.xhciAddr = e.xhciAddr /\ f.alt = e.alt
BY DEF Entries

\* The same for a slot of the controller.
LEMMA ChipFields ==
  ASSUME NEW c \in SlotContexts
  PROVE  /\ c.on \in BOOLEAN /\ c.speed \in {"none", "low", "full", "high"} /\ c.hub \in BOOLEAN
         /\ c.tt \in [hub : Slots \cup {0}, port : Nat]
         /\ c.eps \in [Eps -> {"none", "running", "freed"}]
BY DEF SlotContexts

LEMMA ChipOff ==
  /\ SlotOff \in SlotContexts /\ SlotOff.on = FALSE /\ SlotOff.tt = NoTT
  /\ \A e \in Eps : SlotOff.eps[e] = "none"
<1>1. [e \in Eps |-> "none"] \in [Eps -> {"none", "running", "freed"}]
  OBVIOUS
<1> QED  BY <1>1 DEF SlotOff, SlotContexts, NoTT

LEMMA ChipOn ==
  ASSUME NEW c \in SlotContexts
  PROVE  LET d == [c EXCEPT !.on = TRUE]
         IN  /\ d \in SlotContexts /\ d.on = TRUE /\ d.speed = c.speed /\ d.tt = c.tt
             /\ d.eps = c.eps
BY DEF SlotContexts

LEMMA ChipHub ==
  ASSUME NEW c \in SlotContexts
  PROVE  LET d == [c EXCEPT !.hub = TRUE]
         IN  /\ d \in SlotContexts /\ d.on = c.on /\ d.speed = c.speed /\ d.tt = c.tt
             /\ d.eps = c.eps
BY DEF SlotContexts

LEMMA ChipEps ==
  ASSUME NEW c \in SlotContexts, NEW f \in [Eps -> {"none", "running", "freed"}]
  PROVE  LET d == [c EXCEPT !.eps = f]
         IN  /\ d \in SlotContexts /\ d.on = c.on /\ d.speed = c.speed /\ d.tt = c.tt
             /\ d.eps = f
BY DEF SlotContexts

LEMMA ChipSpeed ==
  ASSUME NEW c \in SlotContexts, NEW v \in {"none", "low", "full", "high"}
  PROVE  LET d == [c EXCEPT !.speed = v]
         IN  /\ d \in SlotContexts /\ d.on = c.on /\ d.speed = v /\ d.tt = c.tt
             /\ d.eps = c.eps
BY DEF SlotContexts

LEMMA ChipTranslated ==
  ASSUME NEW c \in SlotContexts, NEW v \in {"none", "low", "full", "high"},
         NEW t \in [hub : Slots \cup {0}, port : Nat]
  PROVE  LET d == [c EXCEPT !.speed = v, !.tt = t]
         IN  /\ d \in SlotContexts /\ d.on = c.on /\ d.speed = v /\ d.tt = t
             /\ d.eps = c.eps
BY DEF SlotContexts

\* The steps of a poll and of an enumeration leave its other fields alone.
SamePoll ==
  /\ call'.chart = call.chart /\ call'.parent = call.parent /\ call'.portNumber = call.portNumber
  /\ call'.connected = call.connected /\ call'.up = call.up /\ call'.reset = call.reset
  /\ call'.speed = call.speed

PollAts == {"old", "attempt", "address", "undo", "done"}
Statuses == {"SUCCESS", "DEVICE_ERROR", "TIMEOUT"}

LEMMA PollMoves ==
  ASSUME call \in Polls, NEW at \in PollAts, NEW st \in Statuses,
         call' = [call EXCEPT !.at = at, !.status = st]
  PROVE  call' \in Polls /\ SamePoll /\ call'.at = at /\ call'.slot = call.slot
BY DEF Polls, SamePoll, PollAts, Statuses

LEMMA PollGoes ==
  ASSUME call \in Polls, NEW at \in PollAts,
         call' = [call EXCEPT !.at = at]
  PROVE  call' \in Polls /\ SamePoll /\ call'.at = at /\ call'.slot = call.slot
BY DEF Polls, SamePoll, PollAts

LEMMA PollTakesSlot ==
  ASSUME call \in Polls, NEW s \in Slots,
         call' = [call EXCEPT !.at = "address", !.slot = s]
  PROVE  call' \in Polls /\ SamePoll /\ call'.at = "address" /\ call'.slot = s
BY DEF Polls, SamePoll

LEMMA PollRetries ==
  ASSUME call \in Polls, NEW st \in Statuses, call' = NextRound(st)
  PROVE  call' \in Polls /\ SamePoll /\ call'.at \in {"attempt", "done"} /\ call'.slot = call.slot
<1>1. CASE Again(st)
  <2>1. call.retries \in 1 .. Retries
    BY <1>1, BoundAssumption DEF Again, Polls
  <2>2. call.retries - 1 \in 0 .. Retries
    BY <2>1, BoundAssumption
  <2>3. call' = [call EXCEPT !.at = "attempt", !.status = st, !.retries = @ - 1]
    BY <1>1 DEF NextRound
  <2> QED  BY <2>2, <2>3 DEF Polls, SamePoll, Statuses
<1>2. CASE ~Again(st)
  BY <1>2 DEF NextRound, Polls, SamePoll, Statuses
<1> QED  BY <1>1, <1>2

LEMMA PollFields ==
  ASSUME call \in Polls
  PROVE  /\ call.at \in PollAts /\ call.chart \in Charts /\ call.parent \in Charts
         /\ call.portNumber \in Nat /\ call.connected \in BOOLEAN /\ call.up \in BOOLEAN
         /\ call.reset \in BOOLEAN /\ call.speed \in {"low", "full", "high"}
         /\ call.status \in Statuses /\ call.slot \in Slots \cup {0}
BY DEF Polls, PollAts, Statuses

LEMMA PollOrIdle ==
  ASSUME DriverOK
  PROVE  /\ call.at # "idle" => call \in Polls
         /\ call.at \in {"idle"} \cup PollAts
         /\ call.at = "idle" => call = [at |-> "idle"]
BY DEF DriverOK, Polls, PollAts

EnumAts == {"idle", "polled", "remove"} \cup Configuring

LEMMA EnumFields ==
  ASSUME BusOK
  PROVE  /\ enum.at \in EnumAts
         /\ enum.at # "idle" => enum.place \in Places
         /\ enum.at = "remove" => enum.connected \in BOOLEAN /\ enum.todo \subseteq TransferList
         /\ enum.at \in Configuring => enum \in [at : Configuring, place : Places, known : BOOLEAN]
BY DEF BusOK, Enumerations, EnumAts, Configuring

LEMMA EnumGoes ==
  ASSUME BusOK, enum.at \in Configuring, NEW at \in Configuring, Goto(at)
  PROVE  enum' \in Enumerations /\ enum'.at = at /\ enum'.place = enum.place /\ enum'.known = enum.known
<1>1. enum \in [at : Configuring, place : Places, known : BOOLEAN]
  BY EnumFields
<1> QED  BY <1>1 DEF Goto, Enumerations

LEMMA EnumStops ==
  ASSUME GiveUp
  PROVE  enum' \in Enumerations /\ enum'.at = "idle"
BY DEF GiveUp, Enumerations

-----------------------------------------------------------------------------
(* The invariant of the tables, and what disabling a slot reaches.           *)

Polling == call.at \in {"old", "attempt", "address", "undo"}

\* A poll is about the place that UsbBus enumerates; a slot it set up is there.
Calls ==
  /\ call.at # "idle" =>
       /\ enum.at \in {"polled", "await"} /\ enum.place \in Places
       /\ call.chart = Route[enum.place] /\ call.parent = ParentRoute(enum.place)
       /\ call.portNumber = enum.place[Len(enum.place)]
       /\ call.up => call.connected
  /\ call.at = "old" => \E s \in Slots : At(s, enum.place)
  /\ call.at \in {"address", "undo"} =>
       /\ call.slot \in Slots /\ At(call.slot, enum.place) /\ hw[call.slot].on
       /\ call.up

Placed == \A s \in Slots : Live(s) => \E p \in Places : At(s, p) /\ ctx[s].parent = ParentRoute(p)

\* The hub of p has a slot, and the controller knows it.
HasHub(p) == IsRoot(p) \/ \E t \in Slots : At(t, Hub(p)) /\ hw[t].on

Rooted == \A s \in Slots, p \in Places : At(s, p) => HasHub(p)

Answering ==
  \A p \in Places : answers[p] # 0 =>
    hw[answers[p]].on /\ ctx[answers[p]].route = Route[p]

Core ==
  /\ TypeOK /\ OneSlotPerPlace /\ Calls /\ Placed /\ Rooted /\ Answering
  /\ Polling => HasHub(enum.place)

-----------------------------------------------------------------------------
LEMMA ByAddress ==
  ASSUME NEW a
  PROVE  LET s == BusDevAddrToSlotId(a)
         IN  /\ s # 0 => s \in Slots /\ Live(s) /\ ctx[s].busAddr = a
             /\ \A t \in Slots : Live(t) /\ ctx[t].busAddr = a => s # 0
<1> DEFINE S == {s \in Slots : Live(s) /\ ctx[s].busAddr = a}
<1>1. S \subseteq Nat \ {0}
  BY SlotAssumption
<1>2. BusDevAddrToSlotId(a) = Lowest(S)
  BY DEF BusDevAddrToSlotId
<1>3. /\ S = {} => Lowest(S) = 0
      /\ S # {} => Lowest(S) \in S /\ Lowest(S) # 0
  <2> HIDE DEF S
  <2> QED  BY <1>1, LowestIn
<1> QED  BY <1>2, <1>3

LEMMA SlotsThere ==
  ASSUME NEW p \in Places
  PROVE  SlotsOn(Route[p]) = {} <=> \A s \in Slots : ~At(s, p)
BY DEF SlotsOn, At

LEMMA ByRoute ==
  ASSUME NEW p \in Places, NEW s \in Slots, At(s, p), OneSlotPerPlace
  PROVE  RouteStringToSlotId(Route[p]) = s
<1> DEFINE S == SlotsOn(Route[p])
<1>1. S = {s}
  BY DEF SlotsOn, At, OneSlotPerPlace
<1>2. S \subseteq Nat \ {0}
  BY SlotAssumption DEF SlotsOn
<1>3. Lowest(S) \in S
  <2> HIDE DEF S
  <2> QED  BY <1>1, <1>2, LowestIn
<1> QED  BY <1>1, <1>3 DEF RouteStringToSlotId

LEMMA Reached ==
  ASSUME Answering, NEW a, NEW p \in Places, Reaches(a, p)
  PROVE  LET s == BusDevAddrToSlotId(a)
         IN  s \in Slots /\ At(s, p) /\ hw[s].on /\ answers[p] = s /\ ctx[s].busAddr = a
BY ByAddress DEF Reaches, Answering, At

LEMMA ReachedSome ==
  ASSUME NEW a, Answered(a)
  PROVE  LET s == BusDevAddrToSlotId(a)
         IN  s \in Slots /\ Live(s) /\ ctx[s].busAddr = a /\ hw[s].on
BY ByAddress DEF Answered, Reaches

\* The slots that disabling reaches are those at the place and below it.
LEMMA SubtreeClosed ==
  ASSUME NEW s \in Slots
  PROVE  /\ s \in Subtree(s)
         /\ \A u \in Subtree(s) : Children(u) \subseteq Subtree(s)
         /\ \A S \in SUBSET Slots :
              s \in S /\ (\A u \in S : Children(u) \subseteq S) => Subtree(s) \subseteq S
<1>1. s \in Subtree(s)
  BY DEF Subtree
<1>2. ASSUME NEW u \in Subtree(s), NEW v \in Children(u)
      PROVE  v \in Subtree(s)
  <2>1. v \in Slots
    BY DEF Children
  <2>2. ASSUME NEW S \in SUBSET Slots, s \in S, \A w \in S : Children(w) \subseteq S
        PROVE  v \in S
    <3>1. u \in S
      BY <2>2 DEF Subtree
    <3> QED  BY <2>2, <3>1
  <2> QED  BY <2>1, <2>2 DEF Subtree
<1>3. ASSUME NEW S \in SUBSET Slots, s \in S, \A u \in S : Children(u) \subseteq S
      PROVE  Subtree(s) \subseteq S
  BY <1>3 DEF Subtree
<1> QED  BY <1>1, <1>2, <1>3

LEMMA SubtreeIs ==
  ASSUME OneSlotPerPlace, Placed, Rooted, NEW p \in Places, NEW s \in Slots, At(s, p)
  PROVE  \A t \in Slots : t \in Subtree(s) <=> \E q \in Below(p) : At(t, q)
<1>1. ASSUME NEW t \in Subtree(s)
      PROVE  t \in Slots /\ \E q \in Below(p) : At(t, q)
  <2> DEFINE S == {u \in Slots : \E q \in Below(p) : At(u, q)}
  <2>1. s \in S
    BY BelowOrder
  <2>2. ASSUME NEW u \in S, NEW v \in Children(u)
        PROVE  v \in S
    <3>1. PICK q \in Below(p) : At(u, q)
      OBVIOUS
    <3>2. v \in Slots /\ Live(v) /\ ctx[v].parent = Route[q]
      BY <3>1 DEF Children, At
    <3>3. PICK r \in Places : At(v, r) /\ ctx[v].parent = ParentRoute(r)
      BY <3>2 DEF Placed
    <3>4. q \in Places
      BY DEF Below
    <3>5. ~IsRoot(r)
      BY <3>2, <3>3, <3>4, RouteShape DEF ParentRoute
    <3>6. Hub(r) = q
      BY <3>2, <3>3, <3>4, <3>5, RouteTells, HubAbove DEF ParentRoute
    <3>7. r \in Below(p)
      BY <3>4, <3>5, <3>6, HubAbove DEF Under
    <3> QED  BY <3>2, <3>3, <3>7
  <2>3. S \subseteq Slots /\ \A u \in S : Children(u) \subseteq S
    BY <2>2
  <2>4. Subtree(s) \subseteq S
    <3> HIDE DEF S
    <3> QED  BY <2>1, <2>3, SubtreeClosed
  <2> QED  BY <2>4
<1>2. ASSUME NEW t \in Slots, NEW q \in Below(p), At(t, q)
      PROVE  t \in Subtree(s)
  <2> DEFINE S == {r \in Places : \A u \in Slots : At(u, r) => u \in Subtree(s)}
  <2>1. p \in S
    BY SubtreeClosed DEF At, OneSlotPerPlace
  <2>2. ASSUME NEW r \in Under(p), Hub(r) \in S
        PROVE  r \in S
    <3>1. r \in Places /\ ~IsRoot(r)
      BY RootAlone DEF Under, Below
    <3>2. ASSUME NEW u \in Slots, At(u, r)
          PROVE  u \in Subtree(s)
      <4>1. PICK v \in Slots : At(v, Hub(r))
        BY <3>1, <3>2 DEF Rooted, HasHub
      <4>2. v \in Subtree(s)
        BY <2>2, <4>1
      <4>3. PICK w \in Places : At(u, w) /\ ctx[u].parent = ParentRoute(w)
        BY <3>2 DEF Placed, At
      <4>4. w = r
        BY <3>1, <3>2, <4>3, RouteTells DEF At
      <4>5. u \in Children(v)
        BY <3>1, <3>2, <4>1, <4>3, <4>4 DEF Children, At, ParentRoute
      <4> QED  BY <4>2, <4>5, SubtreeClosed
    <3> QED  BY <3>1, <3>2
  <2>3. Below(p) \subseteq S
    <3> HIDE DEF S
    <3> QED  BY <2>1, <2>2, TreeDown
  <2> QED  BY <1>2, <2>3
<1> QED  BY <1>1, <1>2

\* What disabling the slot s of place p changes, whichever commands fail.
Reach(t, p) == \E q \in Below(p) : At(t, q)

LEMMA DisableEffect ==
  ASSUME DriverOK, WorldOK, BoundOK, OneSlotPerPlace, Placed, Rooted,
         NEW p \in Places, NEW s \in Slots, At(s, p),
         NEW failed \in SUBSET Subtree(s), NEW executed \in SUBSET failed,
         DisableSlot(s, failed, executed)
  PROVE  /\ ctx' \in [Slots -> Entries] /\ hw' \in [Slots -> SlotContexts]
         /\ answers' \in [Places -> Slots \cup {0}]
         /\ stuck' \subseteq Slots /\ botched' \in BOOLEAN
         /\ \A t \in Slots :
              /\ ~Reach(t, p) => ctx'[t] = ctx[t] /\ hw'[t] = hw[t]
              /\ Reach(t, p) => ~Live(t)' \/ (t = s /\ ctx'[t] = ctx[t] /\ t \in stuck' /\ botched')
              /\ Live(t)' => Live(t) /\ ctx'[t] = ctx[t] /\ (t \in stuck => t \in stuck')
              /\ ctx'[t].route = ctx[t].route /\ ctx'[t].busAddr = ctx[t].busAddr
              /\ hw'[t] = hw[t] \/ hw'[t] = SlotOff
              /\ ctx'[t].rings = ctx[t].rings \/ hw'[t] = SlotOff
         /\ \A q \in Places :
              \/ answers'[q] = 0 /\ (answers[q] # 0 => Reach(answers[q], p))
              \/ answers'[q] = answers[q] /\ (answers[q] # 0 => hw'[answers[q]] = hw[answers[q]])
<1> DEFINE T == Subtree(s)
           new(t) == CASE t \notin T -> ctx[t]
                       [] t \in T \ failed -> Closed(ctx[t])
                       [] t \in failed \ {s} -> [ctx[t] EXCEPT !.slot = 0]
                       [] OTHER -> ctx[t]
           off == (T \ failed) \cup executed
<1>1. \A t \in Slots : t \in T <=> Reach(t, p)
  BY SubtreeIs DEF Reach
<1>2. /\ ctx' = [t \in Slots |-> new(t)]
      /\ hw' = [t \in Slots |-> IF t \in off THEN SlotOff ELSE hw[t]]
      /\ answers' = [q \in Places |-> IF answers[q] \in off THEN 0 ELSE answers[q]]
      /\ stuck' = (stuck \ T) \cup failed
      /\ botched' = (botched \/ failed # {})
  BY DEF DisableSlot
<1>3. T \subseteq Slots /\ failed \subseteq T /\ executed \subseteq failed
  BY DEF Subtree
<1> HIDE DEF T
<1>4. ASSUME NEW t \in Slots
      PROVE  /\ ctx'[t] = new(t)
             /\ hw'[t] = IF t \in off THEN SlotOff ELSE hw[t]
             /\ ctx[t] \in Entries /\ hw[t] \in SlotContexts
  BY <1>2 DEF DriverOK
<1>5. ASSUME NEW t \in Slots
      PROVE  \/ t \notin T /\ ctx'[t] = ctx[t] /\ hw'[t] = hw[t]
             \/ t \in T \ failed /\ ctx'[t] = Closed(ctx[t]) /\ hw'[t] = SlotOff
             \/ t \in failed \ {s} /\ ctx'[t] = [ctx[t] EXCEPT !.slot = 0]
             \/ t \in failed /\ t = s /\ ctx'[t] = ctx[t]
  <2>1. CASE t \notin T
    BY <1>3, <1>4, <2>1
  <2>2. CASE t \in T \ failed
    BY <1>3, <1>4, <2>2
  <2>3. CASE t \in failed \ {s}
    BY <1>3, <1>4, <2>3
  <2>4. CASE t \in failed /\ t = s
    BY <1>3, <1>4, <2>4
  <2> QED  BY <1>3, <2>1, <2>2, <2>3, <2>4
<1> HIDE DEF new
<1>6. ASSUME NEW t \in Slots
      PROVE  /\ ctx'[t] \in Entries
             /\ ctx'[t].route = ctx[t].route /\ ctx'[t].busAddr = ctx[t].busAddr
             /\ ctx'[t].rings = ctx[t].rings \/ hw'[t] = SlotOff
             /\ ctx'[t] = ctx[t] \/ ctx'[t].slot = 0
  <2>1. ctx[t] \in Entries
    BY <1>4
  <2>2. CASE ctx'[t] = ctx[t]
    BY <2>1, <2>2
  <2>3. CASE ctx'[t] = Closed(ctx[t]) /\ hw'[t] = SlotOff
    BY <2>1, <2>3, EntryClosed
  <2>4. CASE ctx'[t] = [ctx[t] EXCEPT !.slot = 0]
    BY <2>1, <2>4, EntrySlotless
  <2> QED  BY <1>5, <2>2, <2>3, <2>4
<1>7. ASSUME NEW t \in Slots, t \in T
      PROVE  ~Live(t)' \/ (t = s /\ ctx'[t] = ctx[t] /\ t \in stuck' /\ botched')
  <2>1. ctx[t] \in Entries
    BY <1>4
  <2>2. CASE ctx'[t] = Closed(ctx[t])
    BY <2>1, <2>2, EntryClosed DEF Live
  <2>3. CASE ctx'[t] = [ctx[t] EXCEPT !.slot = 0]
    BY <2>1, <2>3, EntrySlotless DEF Live
  <2>4. CASE t \in failed /\ t = s /\ ctx'[t] = ctx[t]
    BY <1>2, <2>4
  <2> QED  BY <1>5, <1>7, <2>2, <2>3, <2>4
<1>8. ASSUME NEW t \in Slots, Live(t)'
      PROVE  Live(t) /\ ctx'[t] = ctx[t] /\ (t \in stuck => t \in stuck')
  <2>1. ctx'[t] = ctx[t]
    BY <1>6, <1>8 DEF Live
  <2>2. Live(t)
    BY <1>8, <2>1 DEF Live
  <2>3. t \in T => t \in stuck'
    BY <1>7, <1>8
  <2>4. t \notin T /\ t \in stuck => t \in stuck'
    BY <1>2
  <2> QED  BY <2>1, <2>2, <2>3, <2>4
<1>9. ASSUME NEW q \in Places
      PROVE  /\ answers'[q] \in Slots \cup {0}
             /\ \/ answers'[q] = 0 /\ (answers[q] # 0 => Reach(answers[q], p))
                \/ answers'[q] = answers[q] /\ (answers[q] # 0 => hw'[answers[q]] = hw[answers[q]])
  <2>1. answers[q] \in Slots \cup {0}
    BY DEF WorldOK
  <2>2. CASE answers[q] \in off
    BY <1>1, <1>2, <1>3, <2>1, <2>2
  <2>3. CASE answers[q] \notin off
    BY <1>2, <1>4, <2>1, <2>3
  <2> QED  BY <2>2, <2>3
<1>10. ctx' \in [Slots -> Entries] /\ hw' \in [Slots -> SlotContexts]
  <2>1. \A t \in Slots : hw'[t] \in SlotContexts
    BY <1>4, ChipOff
  <2> QED  BY <1>2, <1>6, <2>1
<1>11. answers' \in [Places -> Slots \cup {0}]
  BY <1>2, <1>9
<1>12. stuck' \subseteq Slots /\ botched' \in BOOLEAN
  BY <1>2, <1>3 DEF BoundOK
<1>13. \A t \in Slots : hw'[t] = hw[t] \/ hw'[t] = SlotOff
  BY <1>4
<1>14. \A t \in Slots : ~Reach(t, p) => ctx'[t] = ctx[t] /\ hw'[t] = hw[t]
  BY <1>1, <1>3, <1>4, <1>5
<1> QED
  BY <1>1, <1>6, <1>7, <1>8, <1>9, <1>10, <1>11, <1>12, <1>13, <1>14

-----------------------------------------------------------------------------
(* Steps that leave the places of the slots alone.                           *)

\* A step that leaves the places of the slots alone and turns none off.
SlotsKept ==
  \A t \in Slots :
    /\ ctx'[t].enabled = ctx[t].enabled /\ ctx'[t].slot = ctx[t].slot
    /\ ctx'[t].route = ctx[t].route /\ ctx'[t].parent = ctx[t].parent
    /\ hw[t].on => hw'[t].on

\* What a step may do to a poll without looking at the slots.
CallStill ==
  \/ call'.at = "idle"
  \/ call' = call /\ enum' = enum
  \/ Polling /\ SamePoll /\ enum' = enum /\ call'.at \in {"attempt", "done"}

AnswersKept == \A p \in Places : answers'[p] = answers[p] \/ answers'[p] = 0

LEMMA KeptAt ==
  ASSUME SlotsKept
  PROVE  /\ \A t \in Slots : Live(t)' => Live(t)
         /\ \A t \in Slots : Live(t) => Live(t)'
         /\ \A t \in Slots, p \in Places : At(t, p)' => At(t, p)
         /\ \A t \in Slots, p \in Places : At(t, p) => At(t, p)'
         /\ \A p \in Places : HasHub(p) => HasHub(p)'
<1>1. ASSUME NEW t \in Slots
      PROVE  Live(t)' <=> Live(t)
  BY DEF SlotsKept, Live
<1>2. ASSUME NEW t \in Slots, NEW p \in Places
      PROVE  At(t, p)' <=> At(t, p)
  BY <1>1 DEF SlotsKept, At, Route
<1>3. ASSUME NEW p \in Places, HasHub(p)
      PROVE  HasHub(p)'
  <2>1. CASE IsRoot(p)
    BY <2>1 DEF HasHub
  <2>2. CASE ~IsRoot(p)
    <3>1. Hub(p) \in Places
      BY <2>2, HubShape
    <3>2. PICK t \in Slots : At(t, Hub(p)) /\ hw[t].on
      BY <1>3, <2>2 DEF HasHub
    <3>3. At(t, Hub(p))' /\ hw'[t].on
      BY <1>2, <3>1, <3>2 DEF SlotsKept
    <3> QED  BY <3>3 DEF HasHub
  <2> QED  BY <2>1, <2>2
<1> QED  BY <1>1, <1>2, <1>3

LEMMA TablesKept ==
  ASSUME Core, SlotsKept
  PROVE  OneSlotPerPlace' /\ Placed' /\ Rooted'
<1>1. OneSlotPerPlace'
  BY KeptAt DEF Core, OneSlotPerPlace, SlotsKept
<1>2. Placed'
  <2> SUFFICES ASSUME NEW t \in Slots, Live(t)'
               PROVE  \E p \in Places : At(t, p)' /\ ctx'[t].parent = ParentRoute(p)
    BY DEF Placed, ParentRoute, Route
  <2>1. PICK p \in Places : At(t, p) /\ ctx[t].parent = ParentRoute(p)
    BY KeptAt DEF Core, Placed
  <2> QED  BY <2>1, KeptAt DEF SlotsKept
<1>3. Rooted'
  BY KeptAt DEF Core, Rooted
<1> QED  BY <1>1, <1>2, <1>3

LEMMA CoreKept ==
  ASSUME Core, TypeOK', SlotsKept, CallStill, AnswersKept
  PROVE  Core'
<1>1. OneSlotPerPlace' /\ Placed' /\ Rooted'
  BY TablesKept
<1>4. Answering'
  <2> SUFFICES ASSUME NEW p \in Places, answers'[p] # 0
               PROVE  hw'[answers'[p]].on /\ ctx'[answers'[p]].route = Route[p]
    BY DEF Answering, Route
  <2>1. answers'[p] = answers[p] /\ answers[p] # 0 /\ answers[p] \in Slots
    BY DEF AnswersKept, Core, TypeOK, WorldOK
  <2>2. hw[answers[p]].on /\ ctx[answers[p]].route = Route[p]
    BY <2>1 DEF Core, Answering
  <2> QED  BY <2>1, <2>2 DEF SlotsKept
<1>5. Calls' /\ (Polling' => HasHub(enum.place)')
  <2>1. CASE call'.at = "idle"
    BY <2>1 DEF Calls, Polling
  <2>2. CASE call' = call /\ enum' = enum
    <3>1. ASSUME call.at = "old"
          PROVE  \E s \in Slots : At(s, enum.place)'
      <4>1. PICK s \in Slots : At(s, enum.place)
        BY <3>1 DEF Core, Calls
      <4>2. enum.place \in Places
        BY <3>1 DEF Core, Calls
      <4> QED  BY <2>2, <4>1, <4>2, KeptAt DEF At
    <3>2. ASSUME call.at \in {"address", "undo"}
          PROVE  At(call.slot, enum.place)' /\ hw'[call.slot].on
      <4>1. enum.place \in Places /\ call.slot \in Slots /\ At(call.slot, enum.place) /\ hw[call.slot].on
        BY <3>2 DEF Core, Calls
      <4>2. At(call.slot, enum.place) => (ctx'[call.slot].enabled /\ ctx'[call.slot].slot # 0 /\ ctx'[call.slot].route = Route[enum.place])
        BY <4>1 DEF At, Live, SlotsKept
      <4> QED  BY <2>2, <4>1, <4>2 DEF SlotsKept, At, Live
    <3>3. Calls'
      BY <2>2, <3>1, <3>2 DEF Core, Calls, ParentRoute, Route
    <3>4. Polling' => HasHub(enum.place)'
      <4> SUFFICES ASSUME Polling
                   PROVE  HasHub(enum.place)'
        BY <2>2 DEF Polling
      <4>1. enum.place \in Places /\ HasHub(enum.place)
        BY DEF Core, Calls, Polling
      <4>2. \A p \in Places : p = enum.place => HasHub(p)'
        BY <4>1, KeptAt
      <4> QED  BY <2>2, <4>1, <4>2 DEF HasHub
    <3> QED  BY <3>3, <3>4
  <2>3. CASE Polling /\ SamePoll /\ enum' = enum /\ call'.at \in {"attempt", "done"}
    <3>1. Calls'
      BY <2>3 DEF Core, Calls, ParentRoute, Route, SamePoll, Polling
    <3>2. enum.place \in Places /\ HasHub(enum.place)
      BY <2>3 DEF Core, Calls, Polling
    <3>3. \A p \in Places : p = enum.place => HasHub(p)'
      BY <3>2, KeptAt
    <3> QED  BY <2>3, <3>1, <3>2, <3>3 DEF HasHub
  <2> QED  BY <2>1, <2>2, <2>3 DEF CallStill
<1> QED  BY <1>1, <1>4, <1>5 DEF Core

-----------------------------------------------------------------------------
(* Devices come and go, ports go on and off.                                 *)

Ports == [enabled : BOOLEAN, changes : SUBSET {"connection", "reset", "enable"}]

LEMMA UpsetCounts ==
  ASSUME TypeOK, Upset
  PROVE  upsets' \in 0 .. MaxUpsets
BY BoundAssumption DEF Upset, TypeOK, BoundOK

LEMMA AnswerFields ==
  ASSUME NEW a \in Answers
  PROVE  a.status \in Statuses /\ a.done \in BOOLEAN /\ (a.status = "SUCCESS" => a.done)
<1>1. CASE a = [status |-> "SUCCESS", done |-> TRUE]
  BY <1>1 DEF Statuses
<1>2. CASE a = [status |-> "DEVICE_ERROR", done |-> FALSE]
  BY <1>2 DEF Statuses
<1>3. CASE a = [status |-> "TIMEOUT", done |-> FALSE]
  BY <1>3 DEF Statuses
<1>4. CASE a = [status |-> "TIMEOUT", done |-> TRUE]
  BY <1>4 DEF Statuses
<1> QED  BY <1>1, <1>2, <1>3, <1>4 DEF Answers

LEMMA AnswerCounts ==
  ASSUME TypeOK, NEW a \in Answers, NEW possible \in BOOLEAN, Answer(a, possible)
  PROVE  upsets' \in 0 .. MaxUpsets /\ a.status \in Statuses /\ a.done \in BOOLEAN
<1>1. a.status \in Statuses /\ a.done \in BOOLEAN
  BY Zenon, AnswerFields
<1>2. UNCHANGED upsets \/ Upset
  BY DEF Answer
<1>3. upsets' \in 0 .. MaxUpsets
  BY <1>2, UpsetCounts DEF TypeOK, BoundOK
<1> QED  BY <1>1, <1>3

LEMMA SilenceTypes ==
  ASSUME TypeOK, NEW p \in Places, NEW own \in Ports, Silence(p, own)
  PROVE  /\ port' \in [Places -> Ports] /\ answers' \in [Places -> Slots \cup {0}]
         /\ \A q \in Places : answers'[q] = IF q \in Below(p) THEN 0 ELSE answers[q]
         /\ port'[p] = own
         /\ \A q \in Under(p) : /\ port'[q].enabled = FALSE
                                /\ port'[q].changes = IF plug'[q] = None THEN {} ELSE {"connection"}
         /\ \A q \in Places \ Below(p) : port'[q] = port[q]
<1>1. port \in [Places -> Ports] /\ answers \in [Places -> Slots \cup {0}]
  BY DEF TypeOK, WorldOK, Ports
<1>2. p \in Below(p)
  BY BelowOrder
<1> DEFINE quiet(q) == [enabled |-> FALSE, changes |-> IF plug'[q] = None THEN {} ELSE {"connection"}]
           new(q) == CASE q = p -> own [] q \in Below(p) \ {p} -> quiet(q) [] OTHER -> port[q]
<1>3. port' = [q \in Places |-> new(q)]
  BY DEF Silence
<1>4. \A q : quiet(q) \in Ports /\ quiet(q).enabled = FALSE
             /\ quiet(q).changes = IF plug'[q] = None THEN {} ELSE {"connection"}
  BY DEF Ports
<1>5. ASSUME NEW q \in Places
      PROVE  /\ q = p => new(q) = own
             /\ q \in Under(p) => new(q) = quiet(q)
             /\ q \notin Below(p) => new(q) = port[q]
             /\ q = p \/ q \in Under(p) \/ q \notin Below(p)
  BY <1>2 DEF Under
<1>6. Under(p) \subseteq Places
  BY DEF Under, Below
<1> HIDE DEF new, quiet
<1>7. \A q \in Places : new(q) \in Ports
  BY <1>1, <1>4, <1>5
<1>8. port' \in [Places -> Ports] /\ \A q \in Places : port'[q] = new(q)
  BY <1>3, <1>7
<1>9. /\ answers' \in [Places -> Slots \cup {0}]
      /\ \A q \in Places : answers'[q] = IF q \in Below(p) THEN 0 ELSE answers[q]
  BY <1>1 DEF Silence
<1> QED  BY <1>4, <1>5, <1>6, <1>8, <1>9

LEMMA PortFields ==
  ASSUME TypeOK, NEW p \in Places
  PROVE  /\ port[p] \in Ports /\ port[p].enabled \in BOOLEAN
         /\ port[p].changes \subseteq {"connection", "reset", "enable"}
         /\ plug[p] \in Devices
BY DEF TypeOK, WorldOK, Ports

LEMMA TransferFreed ==
  ASSUME NEW u \in TransferList, NEW r \in {"own", "freed", "lost"}
  PROVE  LET v == [u EXCEPT !.ring = r]
         IN  v \in TransferList /\ v.addr = u.addr /\ v.slot = u.slot /\ v.ring = r
BY DEF TransferList

LEMMA RingsTypes ==
  ASSUME TypeOK, NEW S, NEW s
  PROVE  FreeRings(S) \subseteq TransferList /\ Forget(s) \subseteq TransferList
<1>1. urbs \subseteq TransferList
  BY DEF TypeOK, DriverOK
<1>2. ASSUME NEW u \in urbs
      PROVE  [u EXCEPT !.ring = "freed"] \in TransferList /\ [u EXCEPT !.ring = "lost"] \in TransferList
  BY <1>1, TransferFreed
<1>3. FreeRings(S) \subseteq TransferList
  BY <1>1, <1>2 DEF FreeRings
<1>4. Forget(s) \subseteq TransferList
  BY <1>1, <1>2 DEF Forget
<1> QED  BY <1>3, <1>4

\* Devices come and go.
LEMMA AttachCore ==
  ASSUME Core, NEW p \in Places, NEW k \in Kinds[p], Attach(p, k)
  PROVE  Core'
<1>1. k \in Devices
  BY KindAssumption DEF Devices
<1>2. plug' \in [Places -> Devices]
  BY <1>1 DEF Attach, Core, TypeOK, WorldOK
<1>3. port' \in [Places -> Ports]
  <2>1. port \in [Places -> Ports]
    BY DEF Core, TypeOK, WorldOK, Ports
  <2>2. [port[p] EXCEPT !.changes = @ \cup {"connection"}] \in Ports
    BY <2>1 DEF Ports
  <2>3. port' = [port EXCEPT ![p] = [port[p] EXCEPT !.changes = @ \cup {"connection"}]]
    BY <2>1 DEF Attach
  <2> QED  BY <2>1, <2>2, <2>3
<1>4. upsets' \in 0 .. MaxUpsets
  BY UpsetCounts DEF Attach, Core
<1>5. UNCHANGED <<answers, hw, ctx, urbs, call, bus, ready, hubs, enum, stuck, botched>>
  BY DEF Attach, driver, usbbus, history
<1>6. TypeOK'
  BY <1>2, <1>3, <1>4, <1>5 DEF Core, TypeOK, WorldOK, DriverOK, BusOK, BoundOK, Ports
<1>7. SlotsKept /\ CallStill /\ AnswersKept
  BY <1>5 DEF SlotsKept, CallStill, AnswersKept
<1> QED  BY <1>6, <1>7, CoreKept

LEMMA SilenceCore ==
  ASSUME Core, NEW p \in Places, NEW own \in Ports, Silence(p, own),
         plug' \in [Places -> Devices], upsets' \in 0 .. MaxUpsets,
         UNCHANGED <<hw, ctx, urbs, bus, ready, hubs, stuck, botched>>,
         CallStill, call' \in Polls \cup {[at |-> "idle"]}, enum' \in Enumerations
  PROVE  Core'
<1>1. /\ port' \in [Places -> Ports] /\ answers' \in [Places -> Slots \cup {0}]
      /\ AnswersKept
  BY SilenceTypes DEF Core, AnswersKept
<1>2. TypeOK'
  BY <1>1 DEF Core, TypeOK, WorldOK, DriverOK, BusOK, BoundOK, Ports
<1> QED  BY <1>1, <1>2, CoreKept DEF SlotsKept

LEMMA DetachCore ==
  ASSUME Core, NEW p \in Places, Detach(p)
  PROVE  Core'
<1>1. plug' \in [Places -> Devices]
  BY DEF Detach, Core, TypeOK, WorldOK, Devices
<1> DEFINE own == [enabled |-> FALSE, changes |-> port[p].changes \cup {"connection"}]
<1>2. own \in Ports
  BY PortFields DEF Core, Ports
<1>3. Silence(p, own)
  BY DEF Detach
<1>4. upsets' \in 0 .. MaxUpsets
  BY UpsetCounts DEF Detach, Core
<1>5. UNCHANGED <<hw, ctx, urbs, call, bus, ready, hubs, enum, stuck, botched>>
  BY DEF Detach, driver, usbbus, history
<1>6. CallStill /\ call' \in Polls \cup {[at |-> "idle"]} /\ enum' \in Enumerations
  BY <1>5 DEF CallStill, Core, TypeOK, DriverOK, BusOK
<1> HIDE DEF own
<1> QED  BY <1>1, <1>2, <1>3, <1>4, <1>5, <1>6, SilenceCore

LEMMA PortErrorCore ==
  ASSUME Core, NEW p \in Places, PortError(p)
  PROVE  Core'
<1> DEFINE own == [enabled |-> FALSE, changes |-> port[p].changes \cup {"enable"}]
<1>1. plug' \in [Places -> Devices]
  BY DEF PortError, Core, TypeOK, WorldOK
<1>2. own \in Ports
  BY PortFields DEF Core, Ports
<1>3. Silence(p, own)
  BY DEF PortError
<1>4. upsets' \in 0 .. MaxUpsets
  BY UpsetCounts DEF PortError, Core
<1>5. UNCHANGED <<hw, ctx, urbs, call, bus, ready, hubs, enum, stuck, botched>>
  BY DEF PortError, driver, usbbus, history
<1>6. CallStill /\ call' \in Polls \cup {[at |-> "idle"]} /\ enum' \in Enumerations
  BY <1>5 DEF CallStill, Core, TypeOK, DriverOK, BusOK
<1> HIDE DEF own
<1> QED  BY <1>1, <1>2, <1>3, <1>4, <1>5, <1>6, SilenceCore

\* The end of a poll and a round without a slot to set up.
LEMMA EndPollCore ==
  ASSUME Core, EndPoll
  PROVE  Core'
<1>1. call \in Polls
  BY PollOrIdle DEF EndPoll, Core, TypeOK
<1>2. call' \in Polls /\ SamePoll /\ call'.at = "done"
  BY <1>1, PollGoes DEF EndPoll, PollAts
<1>3. UNCHANGED <<plug, port, answers, hw, ctx, urbs, bus, ready, hubs, enum, upsets, stuck, botched>>
  BY DEF EndPoll, world, driver, usbbus, history
<1>4. TypeOK'
  BY <1>2, <1>3 DEF Core, TypeOK, WorldOK, DriverOK, BusOK, BoundOK
<1>5. SlotsKept /\ CallStill /\ AnswersKept
  BY <1>2, <1>3 DEF SlotsKept, CallStill, AnswersKept, EndPoll, Polling
<1> QED  BY <1>4, <1>5, CoreKept

LEMMA IdleRoundCore ==
  ASSUME Core, IdleRound
  PROVE  Core'
<1>1. call \in Polls
  BY PollOrIdle DEF IdleRound, Round, Core, TypeOK
<1>2. call' \in Polls /\ SamePoll /\ call'.at \in {"attempt", "done"}
  BY <1>1, PollRetries, PollFields DEF IdleRound
<1>3. UNCHANGED <<plug, port, answers, hw, ctx, urbs, bus, ready, hubs, enum, upsets, stuck, botched>>
  BY DEF IdleRound, world, driver, usbbus, history
<1>4. TypeOK'
  BY <1>2, <1>3 DEF Core, TypeOK, WorldOK, DriverOK, BusOK, BoundOK
<1>5. SlotsKept /\ CallStill /\ AnswersKept
  BY <1>2, <1>3 DEF SlotsKept, CallStill, AnswersKept, IdleRound, Round, Polling
<1> QED  BY <1>4, <1>5, CoreKept

\* What UsbBus does without the driver.
LEMMA BusCore ==
  ASSUME Core, UNCHANGED <<plug, port, answers, hw, ctx, stuck, botched>>,
         upsets' \in 0 .. MaxUpsets, urbs' \subseteq TransferList,
         BusOK', call' = [at |-> "idle"]
  PROVE  Core'
<1>1. TypeOK'
  BY DEF Core, TypeOK, WorldOK, DriverOK, BoundOK
<1>2. SlotsKept /\ CallStill /\ AnswersKept
  BY DEF SlotsKept, CallStill, AnswersKept
<1> QED  BY <1>1, <1>2, CoreKept

-----------------------------------------------------------------------------
(* Disable Slot keeps the tables in order.                                   *)

\* Disabling the slot of a place leaves the hubs of the others.
LEMMA DisableCore ==
  ASSUME Core, call.at \in {"old", "undo"}, NEW s \in Slots, At(s, enum.place),
         NEW failed \in SUBSET Subtree(s), NEW executed \in SUBSET failed,
         DisableSlot(s, failed, executed),
         call' \in Polls, SamePoll, call'.at \in {"attempt", "done"},
         UNCHANGED <<plug, port, bus, ready, hubs, enum>>
  PROVE  Core'
<1> DEFINE p == enum.place
<1>1. p \in Places /\ HasHub(p)
  BY DEF Core, Calls, Polling
<1>2. DriverOK /\ WorldOK /\ BoundOK /\ BusOK /\ OneSlotPerPlace /\ Placed /\ Rooted /\ Answering
  BY DEF Core, TypeOK
<1>3. At(s, p)
  OBVIOUS
<1> HIDE DEF p
<1>4. /\ ctx' \in [Slots -> Entries] /\ hw' \in [Slots -> SlotContexts]
      /\ answers' \in [Places -> Slots \cup {0}]
      /\ stuck' \subseteq Slots /\ botched' \in BOOLEAN
  BY <1>1, <1>2, <1>3, DisableEffect
<1>5. ASSUME NEW t \in Slots
      PROVE  /\ ~Reach(t, p) => ctx'[t] = ctx[t] /\ hw'[t] = hw[t]
             /\ Reach(t, p) => ~Live(t)' \/ (t = s /\ ctx'[t] = ctx[t])
             /\ Live(t)' => Live(t) /\ ctx'[t] = ctx[t]
             /\ ctx'[t].route = ctx[t].route
  BY <1>1, <1>2, <1>3, DisableEffect
<1>6. ASSUME NEW q \in Places, answers'[q] # 0
      PROVE  answers'[q] = answers[q] /\ hw'[answers[q]] = hw[answers[q]]
  BY <1>1, <1>2, <1>3, <1>6, DisableEffect
<1>7. TypeOK'
  <2>1. urbs' \subseteq TransferList
    BY <1>2, RingsTypes DEF DisableSlot, Core
  <2>2. upsets' \in 0 .. MaxUpsets
    <3> DEFINE S == {t \in failed : hw[t].on}
    <3>1. IsFiniteSet(S)
      <4>1. S \subseteq Slots
        BY DEF Subtree
      <4> HIDE DEF S
      <4> QED  BY <4>1, SlotAssumption, FS_Subset
    <3>2. upsets + Cardinality(S) <= MaxUpsets /\ upsets' = upsets + Cardinality(S)
      BY DEF DisableSlot
    <3> HIDE DEF S
    <3>3. Cardinality(S) \in Nat
      BY <3>1, FS_CardinalityType
    <3> QED  BY <1>2, <3>2, <3>3, BoundAssumption DEF BoundOK
  <2> QED
    BY <1>2, <1>4, <2>1, <2>2 DEF TypeOK, WorldOK, DriverOK, BusOK, BoundOK
<1>8. OneSlotPerPlace'
  BY <1>2, <1>5 DEF OneSlotPerPlace
<1>9. Placed'
  <2> SUFFICES ASSUME NEW t \in Slots, Live(t)'
               PROVE  \E q \in Places : At(t, q)' /\ ctx'[t].parent = ParentRoute(q)
    BY DEF Placed, ParentRoute, Route
  <2>1. Live(t) /\ ctx'[t] = ctx[t]
    BY <1>5
  <2>2. PICK q \in Places : At(t, q) /\ ctx[t].parent = ParentRoute(q)
    BY <1>2, <2>1 DEF Placed
  <2> QED  BY <2>1, <2>2 DEF At, Route
\* The slot of a hub outside the subtree, or above it, is not reached.
<1>10. ASSUME NEW t \in Slots, NEW q \in Places, At(t, q), q \notin Below(p)
       PROVE  ctx'[t] = ctx[t] /\ hw'[t] = hw[t]
  <2>1. ~Reach(t, p)
    BY <1>10, RouteTells DEF Reach, At, Below
  <2> QED  BY <1>5, <2>1
<1>11. ASSUME NEW q \in Places, HasHub(q), q \notin Under(p)
       PROVE  HasHub(q)'
  <2>1. CASE IsRoot(q)
    BY <2>1 DEF HasHub
  <2>2. CASE ~IsRoot(q)
    <3>1. Hub(q) \in Places /\ Hub(q) \notin Below(p)
      BY <1>1, <1>11, <2>2, HubAbove
    <3>2. PICK t \in Slots : At(t, Hub(q)) /\ hw[t].on
      BY <1>11, <2>2 DEF HasHub
    <3>3. ctx'[t] = ctx[t] /\ hw'[t] = hw[t]
      BY <1>10, <3>1, <3>2
    <3>4. At(t, Hub(q))' /\ hw'[t].on
      BY <3>2, <3>3 DEF At, Live, Route
    <3> QED  BY <3>4 DEF HasHub
  <2> QED  BY <2>1, <2>2
<1>12. Rooted'
  <2> SUFFICES ASSUME NEW t \in Slots, NEW q \in Places, At(t, q)'
               PROVE  HasHub(q)'
    BY DEF Rooted
  <2>1. Live(t) /\ ctx'[t] = ctx[t] /\ At(t, q)
    BY <1>5 DEF At, Route
  <2>2. HasHub(q)
    BY <1>2, <2>1 DEF Rooted
  <2>3. q \notin Under(p)
    <3> SUFFICES ASSUME q \in Under(p)
                 PROVE  FALSE
      OBVIOUS
    <3>1. Reach(t, p)
      BY <2>1 DEF Reach, Under
    <3>2. t = s
      BY <1>5, <3>1 DEF At
    <3> QED  BY <1>1, <1>3, <2>1, <3>2, RouteTells DEF At, Under
  <2> QED  BY <1>11, <2>2, <2>3
<1>13. Answering'
  <2> SUFFICES ASSUME NEW q \in Places, answers'[q] # 0
               PROVE  hw'[answers'[q]].on /\ ctx'[answers'[q]].route = Route[q]
    BY DEF Answering, Route
  <2>1. answers'[q] = answers[q] /\ hw'[answers[q]] = hw[answers[q]] /\ answers[q] \in Slots
    BY <1>2, <1>6 DEF WorldOK
  <2> QED  BY <1>2, <1>5, <2>1 DEF Answering
<1>14. Calls'
  BY DEF Core, Calls, ParentRoute, Route, SamePoll
<1>15. HasHub(enum.place)'
  <2>1. p \notin Under(p)
    BY DEF Under
  <2>2. \A q \in Places : q = p => HasHub(q)'
    BY <1>1, <1>11, <2>1
  <2> QED  BY <1>1, <2>2 DEF p, HasHub
<1> QED
  BY <1>7, <1>8, <1>9, <1>12, <1>13, <1>14, <1>15 DEF Core

LEMMA OldSlot ==
  ASSUME Core, call.at = "old"
  PROVE  LET s == RouteStringToSlotId(call.chart) IN s \in Slots /\ At(s, enum.place)
<1>1. PICK s \in Slots : At(s, enum.place)
  BY DEF Core, Calls
<1>2. enum.place \in Places /\ call.chart = Route[enum.place]
  BY DEF Core, Calls
<1> QED  BY <1>1, <1>2, ByRoute DEF Core

LEMMA OutcomeStatus ==
  ASSUME NEW s, NEW failed, NEW executed, NEW st \in Outcomes(s, failed, executed)
  PROVE  st \in Statuses
BY DEF Outcomes, Statuses

LEMMA DisableOldCore ==
  ASSUME Core, DisableOld
  PROVE  Core'
<1>1. call.at = "old" /\ UNCHANGED <<plug, port, bus, ready, hubs, enum>>
  BY DEF DisableOld, usbbus
<1>2. call \in Polls
  BY <1>1, PollOrIdle DEF Core, TypeOK
<1> DEFINE s == RouteStringToSlotId(call.chart)
<1>3. s \in Slots /\ At(s, enum.place)
  BY <1>1, OldSlot
<1>4. PICK failed \in SUBSET Subtree(s) : \E executed \in SUBSET failed :
           \E status \in Outcomes(s, failed, executed) :
             /\ DisableSlot(s, failed, executed)
             /\ call' = [call EXCEPT !.at = "attempt", !.status = status]
  BY Zenon DEF DisableOld
<1> HIDE DEF s
<1>5. PICK executed \in SUBSET failed :
           \E status \in Outcomes(s, failed, executed) :
             /\ DisableSlot(s, failed, executed)
             /\ call' = [call EXCEPT !.at = "attempt", !.status = status]
  BY <1>4
<1>6. PICK status \in Outcomes(s, failed, executed) :
             /\ DisableSlot(s, failed, executed)
             /\ call' = [call EXCEPT !.at = "attempt", !.status = status]
  BY <1>5
<1>7. DisableSlot(s, failed, executed)
  BY <1>6, Zenon
<1>8. call' \in Polls /\ SamePoll /\ call'.at = "attempt"
  BY <1>2, <1>6, OutcomeStatus, PollMoves DEF PollAts
<1> QED  BY <1>1, <1>3, <1>7, <1>8, DisableCore

LEMMA UndoSlotCore ==
  ASSUME Core, UndoSlot
  PROVE  Core'
<1>1. call.at = "undo" /\ UNCHANGED <<plug, port, bus, ready, hubs, enum>>
  BY DEF UndoSlot, usbbus
<1>2. call \in Polls
  BY <1>1, PollOrIdle DEF Core, TypeOK
<1> DEFINE s == call.slot
<1>3. s \in Slots /\ At(s, enum.place)
  BY <1>1 DEF Core, Calls
<1>4. PICK failed \in SUBSET Subtree(s) : \E executed \in SUBSET failed :
             DisableSlot(s, failed, executed)
  BY Zenon DEF UndoSlot
<1> HIDE DEF s
<1>5. PICK executed \in SUBSET failed : DisableSlot(s, failed, executed)
  BY <1>4
<1>8. call' \in Polls /\ SamePoll /\ call'.at \in {"attempt", "done"}
  BY <1>2, PollRetries, PollFields DEF UndoSlot
<1> QED  BY <1>1, <1>3, <1>5, <1>8, DisableCore

-----------------------------------------------------------------------------
(* So does Enable Slot,                                                      *)

LEMMA FreshEntry ==
  ASSUME Core, call.at = "attempt", NEW s \in Slots
  PROVE  LET f == NewEntry(s)
         IN  /\ f \in Entries /\ f.enabled = TRUE /\ f.slot = s /\ f.route = call.chart
             /\ f.parent = call.parent /\ f.busAddr = 0 /\ f.rings = {} /\ f.xhciAddr = FALSE
<1>1. call.chart \in Charts /\ call.parent \in Charts
  BY PollOrIdle, PollFields DEF Core, TypeOK
<1> QED  BY <1>1 DEF NewEntry, Entries, Alternates

\* Enable Slot: the three ways it can end.
EnableTakes(s) ==
  /\ s \in Slots /\ ~hw[s].on
  /\ hw' = [hw EXCEPT ![s].on = TRUE]
  /\ ctx' = [ctx EXCEPT ![s] = NewEntry(s)]
  /\ urbs' = Forget(s) /\ stuck' = stuck \ {s} /\ UNCHANGED botched
  /\ call' = [call EXCEPT !.at = "address", !.slot = s]

EnableLeaks(st) ==
  /\ \/ UNCHANGED hw
     \/ \E s \in Slots : ~hw[s].on /\ hw' = [hw EXCEPT ![s].on = TRUE]
  /\ call' = NextRound(st) /\ UNCHANGED <<ctx, urbs, stuck, botched>>

LEMMA EnableCases ==
  ASSUME Core, EnableSlot
  PROVE  /\ upsets' \in 0 .. MaxUpsets
         /\ UNCHANGED <<plug, port, answers, bus, ready, hubs, enum>>
         /\ (\E s \in Slots : EnableTakes(s)) \/ (\E st \in Statuses : EnableLeaks(st))
<1> DEFINE free == {s \in Slots : ~hw[s].on}
<1>1. PICK a \in Answers :
           /\ Answer(a, free # {})
           /\ IF a.done
              THEN \E s \in free :
                     /\ hw' = [hw EXCEPT ![s].on = TRUE]
                     /\ IF a.status = "SUCCESS"
                        THEN /\ ctx' = [ctx EXCEPT ![s] = NewEntry(s)]
                             /\ urbs' = Forget(s)
                             /\ stuck' = stuck \ {s} /\ UNCHANGED botched
                             /\ call' = [call EXCEPT !.at = "address", !.slot = s]
                        ELSE /\ call' = NextRound(a.status)
                             /\ UNCHANGED <<driver, history>>
              ELSE /\ call' = NextRound(a.status)
                   /\ UNCHANGED <<hw, driver, history>>
  BY Zenon DEF EnableSlot
<1>2. upsets' \in 0 .. MaxUpsets /\ a.status \in Statuses /\ a.done \in BOOLEAN
  <2>1. Answer(a, free # {})
    BY <1>1, Zenon
  <2> HIDE DEF free
  <2>2. (free # {}) \in BOOLEAN
    OBVIOUS
  <2> QED  BY <2>1, <2>2, AnswerCounts DEF Core
<1>3. UNCHANGED <<plug, port, answers, bus, ready, hubs, enum>>
  BY DEF EnableSlot, world, usbbus
<1>4. CASE a.done
  <2>1. PICK s \in free :
                     /\ hw' = [hw EXCEPT ![s].on = TRUE]
                     /\ IF a.status = "SUCCESS"
                        THEN /\ ctx' = [ctx EXCEPT ![s] = NewEntry(s)]
                             /\ urbs' = Forget(s)
                             /\ stuck' = stuck \ {s} /\ UNCHANGED botched
                             /\ call' = [call EXCEPT !.at = "address", !.slot = s]
                        ELSE /\ call' = NextRound(a.status)
                             /\ UNCHANGED <<driver, history>>
    BY <1>1, <1>4, Zenon
  <2>2. CASE a.status = "SUCCESS"
    BY <2>1, <2>2, <1>2, <1>3, Zenon DEF EnableTakes
  <2>3. CASE a.status # "SUCCESS"
    <3>1. s \in Slots /\ ~hw[s].on
      OBVIOUS
    <3>2. /\ hw' = [hw EXCEPT ![s].on = TRUE] /\ call' = NextRound(a.status)
          /\ UNCHANGED <<ctx, urbs, stuck, botched>>
      BY <2>1, <2>3 DEF driver, history
    <3>3. EnableLeaks(a.status)
      BY <3>1, <3>2, Zenon DEF EnableLeaks
    <3> QED  BY <1>2, <1>3, <3>3
  <2> QED  BY <2>2, <2>3
<1>5. CASE ~a.done
  <2>1. /\ UNCHANGED hw /\ call' = NextRound(a.status)
        /\ UNCHANGED <<ctx, urbs, stuck, botched>>
    BY <1>1, <1>5 DEF driver, history
  <2>2. EnableLeaks(a.status)
    BY <2>1 DEF EnableLeaks
  <2> QED  BY <1>2, <1>3, <2>2
<1> QED  BY <1>4, <1>5

LEMMA EnableLeaksCore ==
  ASSUME Core, EnableSlot, NEW st \in Statuses, EnableLeaks(st)
  PROVE  Core'
<1>1. /\ upsets' \in 0 .. MaxUpsets
      /\ UNCHANGED <<plug, port, answers, bus, ready, hubs, enum>>
  BY EnableCases
<1>2. call.at = "attempt" /\ call \in Polls
  BY PollOrIdle DEF EnableSlot, Round, Core, TypeOK
<1>3. call' \in Polls /\ SamePoll /\ call'.at \in {"attempt", "done"}
  BY <1>2, PollRetries DEF EnableLeaks
<1>4. hw' \in [Slots -> SlotContexts] /\ \A t \in Slots : hw[t].on => hw'[t].on
  <2>1. hw \in [Slots -> SlotContexts]
    BY DEF Core, TypeOK, DriverOK
  <2>2. CASE UNCHANGED hw
    BY <2>1, <2>2
  <2>3. CASE \E s \in Slots : ~hw[s].on /\ hw' = [hw EXCEPT ![s].on = TRUE]
    <3>1. PICK s \in Slots : ~hw[s].on /\ hw' = [hw EXCEPT ![s].on = TRUE]
      BY <2>3
    <3>2. hw' = [hw EXCEPT ![s] = [hw[s] EXCEPT !.on = TRUE]]
      BY <2>1, <3>1
    <3>3. [hw[s] EXCEPT !.on = TRUE] \in SlotContexts /\ [hw[s] EXCEPT !.on = TRUE].on
      BY <2>1, ChipOn
    <3> DEFINE d == [hw[s] EXCEPT !.on = TRUE]
    <3> HIDE DEF d
    <3> QED  BY <2>1, <3>2, <3>3 DEF d
  <2> QED  BY <2>2, <2>3 DEF EnableLeaks
<1>5. TypeOK'
  BY <1>1, <1>3, <1>4 DEF Core, TypeOK, WorldOK, DriverOK, BusOK, BoundOK, EnableLeaks
<1>6. SlotsKept /\ CallStill /\ AnswersKept
  BY <1>1, <1>2, <1>3, <1>4 DEF SlotsKept, CallStill, AnswersKept, EnableLeaks, Polling
<1> QED  BY <1>5, <1>6, CoreKept

LEMMA TakenEffect ==
  ASSUME Core, EnableSlot, NEW s \in Slots, EnableTakes(s)
  PROVE  /\ ctx' \in [Slots -> Entries] /\ hw' \in [Slots -> SlotContexts]
         /\ ctx'[s] = NewEntry(s)
         /\ hw'[s].on /\ hw'[s].speed = hw[s].speed /\ hw'[s].tt = hw[s].tt /\ hw'[s].eps = hw[s].eps
         /\ \A t \in Slots \ {s} : ctx'[t] = ctx[t] /\ hw'[t] = hw[t]
         /\ call' \in Polls /\ SamePoll /\ call'.at = "address" /\ call'.slot = s
         /\ call.at = "attempt" /\ call.up /\ call \in Polls
         /\ \A t \in Slots : ~At(t, enum.place)
<1>1. call.at = "attempt" /\ call \in Polls /\ call.up
  BY PollOrIdle DEF EnableSlot, Round, Core, TypeOK
<1>2. call' \in Polls /\ SamePoll /\ call'.at = "address" /\ call'.slot = s
  BY <1>1, PollTakesSlot DEF EnableTakes
<1>3. hw \in [Slots -> SlotContexts] /\ ctx \in [Slots -> Entries]
  BY DEF Core, TypeOK, DriverOK
<1> DEFINE d == [hw[s] EXCEPT !.on = TRUE]
<1>4. /\ d \in SlotContexts /\ d.on = TRUE /\ d.speed = hw[s].speed /\ d.tt = hw[s].tt /\ d.eps = hw[s].eps
  BY <1>3, ChipOn
<1>5. hw' = [hw EXCEPT ![s] = d]
  BY <1>3 DEF EnableTakes
<1> HIDE DEF d
<1>6. /\ hw' \in [Slots -> SlotContexts]
      /\ hw'[s].on /\ hw'[s].speed = hw[s].speed /\ hw'[s].tt = hw[s].tt /\ hw'[s].eps = hw[s].eps
      /\ \A t \in Slots \ {s} : hw'[t] = hw[t]
  BY <1>3, <1>4, <1>5
<1> DEFINE f == NewEntry(s)
<1>7. f \in Entries
  BY <1>1, FreshEntry
<1>8. ctx' = [ctx EXCEPT ![s] = f]
  BY DEF EnableTakes
<1> HIDE DEF f
<1>9. ctx' \in [Slots -> Entries] /\ ctx'[s] = f /\ \A t \in Slots \ {s} : ctx'[t] = ctx[t]
  BY <1>3, <1>7, <1>8
<1>10. \A t \in Slots : ~At(t, enum.place)
  <2>1. SlotsOn(call.chart) = {} /\ call.chart = Route[enum.place] /\ enum.place \in Places
    BY <1>1 DEF EnableSlot, NeedsSlot, Core, Calls
  <2> QED  BY <2>1, SlotsThere
<1> QED  BY <1>1, <1>2, <1>6, <1>9, <1>10 DEF f

LEMMA EnableTakesCore ==
  ASSUME Core, EnableSlot, NEW s \in Slots, EnableTakes(s)
  PROVE  Core'
<1> DEFINE p == enum.place
<1>1. /\ upsets' \in 0 .. MaxUpsets
      /\ UNCHANGED <<plug, port, answers, bus, ready, hubs, enum>>
  BY EnableCases
<1>2. /\ ctx' \in [Slots -> Entries] /\ hw' \in [Slots -> SlotContexts]
      /\ ctx'[s] = NewEntry(s) /\ hw'[s].on
      /\ \A t \in Slots \ {s} : ctx'[t] = ctx[t] /\ hw'[t] = hw[t]
      /\ call' \in Polls /\ SamePoll /\ call'.at = "address" /\ call'.slot = s
      /\ call.at = "attempt" /\ call.up
      /\ \A t \in Slots : ~At(t, p)
  BY TakenEffect
<1>3. p \in Places /\ HasHub(p) /\ call.chart = Route[p] /\ call.parent = ParentRoute(p)
  BY <1>2 DEF Core, Calls, Polling
<1>4. At(s, p)' /\ ctx'[s].parent = ParentRoute(p)
  <2>1. s # 0
    BY SlotAssumption
  <2>2. p' = p
    BY <1>1
  <2> DEFINE f == NewEntry(s)
  <2>0. call.at = "attempt" /\ ctx'[s] = f
    BY <1>2
  <2>00. f.enabled = TRUE /\ f.slot = s /\ f.route = call.chart /\ f.parent = call.parent
    BY <2>0, FreshEntry
  <2> HIDE DEF f
  <2>3. /\ ctx'[s].enabled = TRUE /\ ctx'[s].slot = s /\ ctx'[s].route = call.chart
        /\ ctx'[s].parent = call.parent
    BY <2>0, <2>00
  <2>4. ctx'[s].route = Route[p]
    BY <1>3, <2>3
  <2>5. At(s, p)'
    BY <2>1, <2>2, <2>3, <2>4 DEF At, Live
  <2> QED  BY <1>3, <2>3, <2>5
<1>5. ASSUME NEW t \in Slots, t # s
      PROVE  /\ Live(t)' => Live(t)
             /\ \A q \in Places : At(t, q)' => At(t, q)
             /\ \A q \in Places : At(t, q) => At(t, q)'
  BY <1>2, <1>5 DEF At, Live, Route
<1>6. ASSUME NEW q \in Places, HasHub(q)
      PROVE  HasHub(q)'
  <2>1. CASE IsRoot(q)
    BY <2>1 DEF HasHub
  <2>2. CASE ~IsRoot(q)
    <3>1. Hub(q) \in Places
      BY <2>2, HubShape
    <3>2. PICK t \in Slots : At(t, Hub(q)) /\ hw[t].on
      BY <1>6, <2>2 DEF HasHub
    <3>3. t # s
      BY <3>2 DEF EnableTakes
    <3>4. At(t, Hub(q))' /\ hw'[t].on
      BY <1>2, <1>5, <3>1, <3>2, <3>3
    <3> QED  BY <3>4 DEF HasHub
  <2> QED  BY <2>1, <2>2
<1>7. \A q \in Places : At(s, q)' => q = p
  <2>1. ctx'[s].route = Route[p]
    BY <1>4, <1>1 DEF At
  <2> QED  BY <1>3, <2>1, RouteTells DEF At, Route
<1>8. TypeOK'
  <2>1. urbs' \subseteq TransferList
    BY RingsTypes DEF EnableTakes, Core
  <2> QED
    BY <1>1, <1>2, <2>1 DEF Core, TypeOK, WorldOK, DriverOK, BusOK, BoundOK, EnableTakes
<1>9. OneSlotPerPlace'
  <2> SUFFICES ASSUME NEW t \in Slots, NEW u \in Slots, Live(t)', Live(u)',
                      ctx'[t].route = ctx'[u].route, t # u
               PROVE  FALSE
    BY DEF OneSlotPerPlace
  <2>1. ctx'[s].route = Route[p]
    BY <1>1, <1>4 DEF At
  <2>2. CASE t = s \/ u = s
    <3>1. PICK v \in Slots : v # s /\ Live(v)' /\ ctx'[v].route = Route[p]
      BY <2>1, <2>2
    <3>2. At(v, p)
      BY <1>2, <1>5, <3>1 DEF At
    <3> QED  BY <1>2, <3>2
  <2>3. CASE t # s /\ u # s
    BY <1>2, <1>5, <2>3 DEF Core, OneSlotPerPlace
  <2> QED  BY <2>2, <2>3
<1>10. Placed'
  <2> SUFFICES ASSUME NEW t \in Slots, Live(t)'
               PROVE  \E q \in Places : At(t, q)' /\ ctx'[t].parent = ParentRoute(q)
    BY DEF Placed, ParentRoute, Route
  <2>1. CASE t = s
    <3>1. \A q \in Places : q = p => At(s, q)'
      BY <1>1, <1>4 DEF At
    <3> HIDE DEF p
    <3> QED  BY <1>3, <1>4, <2>1, <3>1
  <2>2. CASE t # s
    <3>1. PICK q \in Places : At(t, q) /\ ctx[t].parent = ParentRoute(q)
      BY <1>5, <2>2 DEF Core, Placed
    <3> QED  BY <1>2, <1>5, <2>2, <3>1
  <2> QED  BY <2>1, <2>2
<1>11. Rooted'
  <2> SUFFICES ASSUME NEW t \in Slots, NEW q \in Places, At(t, q)'
               PROVE  HasHub(q)'
    BY DEF Rooted
  <2>1. CASE t = s
    BY <1>3, <1>6, <1>7, <2>1
  <2>2. CASE t # s
    BY <1>5, <1>6, <2>2 DEF Core, Rooted
  <2> QED  BY <2>1, <2>2
<1>12. Answering'
  <2> SUFFICES ASSUME NEW q \in Places, answers'[q] # 0
               PROVE  hw'[answers'[q]].on /\ ctx'[answers'[q]].route = Route[q]
    BY DEF Answering, Route
  <2>1. answers'[q] = answers[q] /\ answers[q] \in Slots
    BY <1>1 DEF Core, TypeOK, WorldOK
  <2>2. hw[answers[q]].on /\ ctx[answers[q]].route = Route[q]
    BY <2>1 DEF Core, Answering
  <2>3. answers[q] # s
    BY <2>2 DEF EnableTakes
  <2> QED  BY <1>2, <2>1, <2>2, <2>3
<1>13. Calls'
  <2>1. enum.at \in {"polled", "await"}
    BY <1>2 DEF Core, Calls
  <2> QED
    BY <1>1, <1>2, <1>3, <1>4, <2>1 DEF Core, Calls, ParentRoute, Route, SamePoll
<1>14. HasHub(enum.place)'
  <2>1. \A q \in Places : q = p => HasHub(q)'
    BY <1>3, <1>6
  <2> QED  BY <1>1, <1>3, <2>1 DEF HasHub
<1> QED
  BY <1>8, <1>9, <1>10, <1>11, <1>12, <1>13, <1>14 DEF Core

LEMMA EnableCore ==
  ASSUME Core, EnableSlot
  PROVE  Core'
BY EnableCases, EnableTakesCore, EnableLeaksCore

-----------------------------------------------------------------------------
(* Address Device,                                                           *)

\* Devices that wait for an address on the route of the poll.
Waiting(p) == Route[p] = call.chart /\ plug[p] # None /\ port[p].enabled /\ answers[p] = 0

\* Address Device: carried out or not, seen or not.
Addressing ==
  \/ /\ hw' = [hw EXCEPT ![call.slot] = SlotContext(call.slot)]
     /\ answers' = [p \in Places |-> IF Waiting(p) THEN call.slot ELSE answers[p]]
  \/ UNCHANGED <<hw, answers>> /\ call'.at = "undo"

AddressSeen ==
  \/ /\ ctx' = [ctx EXCEPT ![call.slot] = [ctx[call.slot] EXCEPT !.xhciAddr = TRUE]]
     /\ call' = [call EXCEPT !.at = "done", !.status = "SUCCESS"]
  \/ /\ UNCHANGED ctx
     /\ \E st \in Statuses : call' = [call EXCEPT !.at = "undo", !.status = st]

LEMMA AddressCases ==
  ASSUME Core, AddressDevice
  PROVE  /\ upsets' \in 0 .. MaxUpsets
         /\ UNCHANGED <<plug, port, urbs, bus, ready, hubs, enum, stuck, botched>>
         /\ Addressing /\ AddressSeen
         /\ call.at = "address" /\ call \in Polls
<1> DEFINE s == call.slot
           waiting == {p \in Places : /\ Route[p] = call.chart /\ plug[p] # None
                                      /\ port[p].enabled /\ answers[p] = 0}
<1>1. PICK a \in Answers :
           /\ Answer(a, waiting # {})
           /\ IF a.done
              THEN /\ hw' = [hw EXCEPT ![s] = SlotContext(s)]
                   /\ answers' = [p \in Places |-> IF p \in waiting THEN s ELSE answers[p]]
              ELSE UNCHANGED <<hw, answers>>
           /\ IF a.status = "SUCCESS"
              THEN /\ ctx' = [ctx EXCEPT ![s].xhciAddr = TRUE]
                   /\ call' = [call EXCEPT !.at = "done", !.status = "SUCCESS"]
              ELSE /\ call' = [call EXCEPT !.at = "undo", !.status = a.status]
                   /\ UNCHANGED ctx
  BY Zenon DEF AddressDevice
<1>2. upsets' \in 0 .. MaxUpsets /\ a.status \in Statuses /\ a.done \in BOOLEAN /\ (a.status = "SUCCESS" => a.done)
  <2>1. Answer(a, waiting # {})
    BY <1>1, Zenon
  <2> HIDE DEF waiting
  <2>2. (waiting # {}) \in BOOLEAN
    OBVIOUS
  <2> QED  BY <2>1, <2>2, AnswerCounts, AnswerFields DEF Core
<1>3. UNCHANGED <<plug, port, urbs, bus, ready, hubs, enum, stuck, botched>>
  BY DEF AddressDevice, usbbus, history
<1>4. call.at = "address" /\ call \in Polls
  BY PollOrIdle DEF AddressDevice, Core, TypeOK
<1>5. AddressSeen
  <2>1. CASE a.status = "SUCCESS"
    <3>1. /\ ctx' = [ctx EXCEPT ![s].xhciAddr = TRUE]
          /\ call' = [call EXCEPT !.at = "done", !.status = "SUCCESS"]
      BY <1>1, <2>1, Zenon
    <3>2. ctx' = [ctx EXCEPT ![s] = [ctx[s] EXCEPT !.xhciAddr = TRUE]]
      BY <3>1
    <3> QED  BY <3>1, <3>2 DEF AddressSeen
  <2>2. CASE a.status # "SUCCESS"
    <3>1. UNCHANGED ctx /\ call' = [call EXCEPT !.at = "undo", !.status = a.status]
      BY <1>1, <2>2, Zenon
    <3> QED  BY <1>2, <3>1 DEF AddressSeen
  <2> QED  BY <2>1, <2>2
<1>6. Addressing
  <2>1. CASE a.done
    <3>1. /\ hw' = [hw EXCEPT ![s] = SlotContext(s)]
          /\ answers' = [p \in Places |-> IF p \in waiting THEN s ELSE answers[p]]
      BY <1>1, <2>1, Zenon
    <3>2. \A p \in Places : p \in waiting <=> Waiting(p)
      BY DEF Waiting
    <3> HIDE DEF waiting
    <3>3. answers' = [p \in Places |-> IF Waiting(p) THEN s ELSE answers[p]]
      BY <3>1, <3>2
    <3> QED  BY <3>1, <3>3 DEF Addressing
  <2>2. CASE ~a.done
    <3>1. UNCHANGED <<hw, answers>> /\ a.status # "SUCCESS"
      BY <1>1, <1>2, <2>2
    <3>2. call' = [call EXCEPT !.at = "undo", !.status = a.status]
      BY <1>1, <3>1, Zenon
    <3>3. call'.at = "undo"
      BY <1>2, <1>4, <3>2, PollMoves DEF PollAts
    <3> QED  BY <3>1, <3>3 DEF Addressing
  <2> QED  BY <1>2, <2>1, <2>2
<1> QED  BY <1>2, <1>3, <1>4, <1>5, <1>6

\* The parent that the slot context is taken from is the slot of the hub.
LEMMA ParentSlot ==
  ASSUME Core, Polling, ~IsRoot(enum.place)
  PROVE  LET h == RouteStringToSlotId(call.parent)
         IN  h \in Slots /\ At(h, Hub(enum.place)) /\ hw[h].on
<1>1. enum.place \in Places /\ HasHub(enum.place) /\ call.parent = Route[Hub(enum.place)]
  BY DEF Core, Calls, Polling, ParentRoute
<1>2. Hub(enum.place) \in Places
  BY <1>1, HubShape
<1>3. PICK t \in Slots : At(t, Hub(enum.place)) /\ hw[t].on
  BY <1>1 DEF HasHub
<1> QED  BY <1>1, <1>2, <1>3, ByRoute DEF Core

LEMMA NewContext ==
  ASSUME Core, call.at = "address", NEW s \in Slots, hw[s].on
  PROVE  LET d == SlotContext(s)
             h == RouteStringToSlotId(call.parent)
         IN  /\ d \in SlotContexts /\ d.on /\ d.eps = hw[s].eps
             /\ IsRoot(enum.place) => d.speed = call.speed /\ d.tt = hw[s].tt
             /\ ~IsRoot(enum.place) => d.speed = SpeedSet(h) /\ d.tt = TTOf(h)
<1>1. call \in Polls /\ enum.place \in Places /\ call.chart = Route[enum.place]
  BY PollOrIdle DEF Core, TypeOK, Calls
<1>2. Len(call.chart) = Len(enum.place)
  BY <1>1, RouteShape
<1>3. hw \in [Slots -> SlotContexts] /\ hw[s] \in SlotContexts
  BY DEF Core, TypeOK, DriverOK
<1>4. CASE IsRoot(enum.place)
  <2>1. SlotContext(s) = [hw[s] EXCEPT !.speed = call.speed]
    BY <1>2, <1>4 DEF SlotContext, IsRoot
  <2>2. call.speed \in {"none", "low", "full", "high"}
    BY <1>1, PollFields
  <2> DEFINE d == [hw[s] EXCEPT !.speed = call.speed]
  <2>3. d \in SlotContexts /\ d.on = hw[s].on /\ d.speed = call.speed /\ d.tt = hw[s].tt /\ d.eps = hw[s].eps
    BY <1>3, <2>2, ChipSpeed
  <2> HIDE DEF d
  <2> QED  BY <1>4, <2>1, <2>3 DEF d
<1>5. CASE ~IsRoot(enum.place)
  <2> DEFINE h == RouteStringToSlotId(call.parent)
  <2>1. SlotContext(s) = [hw[s] EXCEPT !.speed = SpeedSet(h), !.tt = TTOf(h)]
    BY <1>2, <1>5 DEF SlotContext, IsRoot
  <2>2. h \in Slots
    BY <1>5, ParentSlot DEF Polling
  <2> HIDE DEF h
  <2>3. hw[h] \in SlotContexts
    BY <1>3, <2>2
  <2>4. hw[h].speed \in {"none", "low", "full", "high"} /\ hw[h].tt \in [hub : Slots \cup {0}, port : Nat]
    BY <2>3, ChipFields
  <2>5. SpeedSet(h) \in {"none", "low", "full", "high"}
    BY <1>1, <2>4, PollFields DEF SpeedSet
  <2>6. TTOf(h) \in [hub : Slots \cup {0}, port : Nat]
    BY <1>1, <2>2, <2>4, PollFields DEF TTOf, NoTT
  <2> DEFINE c == hw[s]
             v == SpeedSet(h)
             t == TTOf(h)
             d == [c EXCEPT !.speed = v, !.tt = t]
  <2>71. c \in SlotContexts /\ v \in {"none", "low", "full", "high"} /\ t \in [hub : Slots \cup {0}, port : Nat]
    BY <1>3, <2>5, <2>6
  <2>8. SlotContext(s) = d
    BY <2>1
  <2> HIDE DEF c, v, t
  <2>72. d \in SlotContexts /\ d.on = c.on /\ d.speed = v /\ d.tt = t /\ d.eps = c.eps
    BY <2>71 DEF SlotContexts
  <2> HIDE DEF d
  <2>7. d \in SlotContexts /\ d.on = hw[s].on /\ d.speed = SpeedSet(h) /\ d.tt = TTOf(h) /\ d.eps = hw[s].eps
    BY <2>72 DEF c, v, t
  <2> HIDE DEF d
  <2>9. d \in SlotContexts /\ d.on /\ d.eps = hw[s].eps /\ d.speed = SpeedSet(h) /\ d.tt = TTOf(h)
    BY <2>7
  <2>10. LET e == SlotContext(s)
         IN  e \in SlotContexts /\ e.on /\ e.eps = hw[s].eps /\ e.speed = SpeedSet(h) /\ e.tt = TTOf(h)
    BY <2>8, <2>9
  <2> USE DEF h
  <2> QED  BY <1>5, <2>10
<1> QED  BY <1>4, <1>5

LEMMA AddressEffect ==
  ASSUME Core, AddressDevice
  PROVE  LET s == call.slot
         IN  /\ s \in Slots /\ At(s, enum.place) /\ hw[s].on /\ enum.place \in Places
             /\ ctx' \in [Slots -> Entries] /\ hw' \in [Slots -> SlotContexts]
             /\ answers' \in [Places -> Slots \cup {0}]
             /\ SlotsKept
             /\ \A t \in Slots : ctx'[t].busAddr = ctx[t].busAddr /\ ctx'[t].rings = ctx[t].rings
             /\ \A t \in Slots : hw'[t].eps = hw[t].eps
             /\ \A t \in Slots \ {s} : hw'[t] = hw[t] /\ ctx'[t] = ctx[t]
             /\ hw'[s] \in {hw[s], SlotContext(s)}
             /\ call'.at = "done" => ctx'[s].xhciAddr /\ hw'[s] = SlotContext(s)
             /\ call' \in Polls /\ SamePoll /\ call'.at \in {"done", "undo"} /\ call'.slot = s
             /\ \A p \in Places \ {enum.place} : answers'[p] = answers[p]
             /\ \/ answers'[enum.place] = answers[enum.place]
                \/ /\ answers'[enum.place] = s /\ hw'[s] = SlotContext(s)
                   /\ plug[enum.place] # None /\ port[enum.place].enabled /\ answers[enum.place] = 0
<1> DEFINE s == call.slot
<1>1. Addressing /\ AddressSeen /\ call.at = "address" /\ call \in Polls
  BY AddressCases
<1>2. s \in Slots /\ At(s, enum.place) /\ hw[s].on /\ enum.place \in Places /\ call.chart = Route[enum.place]
  BY <1>1 DEF Core, Calls
<1>3. /\ hw \in [Slots -> SlotContexts] /\ ctx \in [Slots -> Entries]
      /\ answers \in [Places -> Slots \cup {0}]
  BY DEF Core, TypeOK, DriverOK, WorldOK
<1> DEFINE d == SlotContext(s)
<1>4. d \in SlotContexts /\ d.on /\ d.eps = hw[s].eps
  BY <1>1, <1>2, NewContext
<1> DEFINE f == [ctx[s] EXCEPT !.xhciAddr = TRUE]
<1>5. /\ f \in Entries /\ f.enabled = ctx[s].enabled /\ f.slot = ctx[s].slot /\ f.route = ctx[s].route
      /\ f.parent = ctx[s].parent /\ f.busAddr = ctx[s].busAddr /\ f.rings = ctx[s].rings /\ f.xhciAddr
  BY <1>2, <1>3, EntryAddressed
<1>6. /\ \/ ctx' = [ctx EXCEPT ![s] = f] /\ call'.at = "done"
         \/ UNCHANGED ctx /\ call'.at = "undo"
      /\ call' \in Polls /\ SamePoll /\ call'.slot = s
  <2>1. CASE /\ ctx' = [ctx EXCEPT ![s] = f]
             /\ call' = [call EXCEPT !.at = "done", !.status = "SUCCESS"]
    BY <1>1, <2>1, PollMoves DEF PollAts, Statuses
  <2>2. CASE /\ UNCHANGED ctx
             /\ \E st \in Statuses : call' = [call EXCEPT !.at = "undo", !.status = st]
    BY <1>1, <2>2, PollMoves DEF PollAts
  <2> QED  BY <1>1, <2>1, <2>2 DEF AddressSeen
<1>7. \/ /\ hw' = [hw EXCEPT ![s] = d]
         /\ answers' = [p \in Places |-> IF Waiting(p) THEN s ELSE answers[p]]
      \/ UNCHANGED <<hw, answers>> /\ call'.at = "undo"
  BY <1>1 DEF Addressing
<1> HIDE DEF s, d, f
<1>8. /\ ctx' \in [Slots -> Entries] /\ (call'.at = "done" => ctx'[s].xhciAddr)
      /\ \A t \in Slots \ {s} : ctx'[t] = ctx[t]
      /\ \A t \in Slots : /\ ctx'[t].enabled = ctx[t].enabled /\ ctx'[t].slot = ctx[t].slot
                          /\ ctx'[t].route = ctx[t].route /\ ctx'[t].parent = ctx[t].parent
                          /\ ctx'[t].busAddr = ctx[t].busAddr /\ ctx'[t].rings = ctx[t].rings
  BY <1>2, <1>3, <1>5, <1>6
<1>9. /\ hw' \in [Slots -> SlotContexts] /\ hw'[s] \in {hw[s], d}
      /\ \A t \in Slots \ {s} : hw'[t] = hw[t]
      /\ \A t \in Slots : hw'[t].eps = hw[t].eps /\ (hw[t].on => hw'[t].on)
      /\ call'.at = "done" => hw'[s] = d
  BY <1>2, <1>3, <1>4, <1>6, <1>7
<1>10. ASSUME NEW p \in Places
       PROVE  /\ answers'[p] \in Slots \cup {0}
              /\ p # enum.place => answers'[p] = answers[p]
              /\ p = enum.place => \/ answers'[p] = answers[p]
                                   \/ /\ answers'[p] = s /\ hw'[s] = d
                                      /\ plug[p] # None /\ port[p].enabled /\ answers[p] = 0
  <2>1. Waiting(p) => p = enum.place /\ plug[p] # None /\ port[p].enabled /\ answers[p] = 0
    BY <1>2, RouteTells DEF Waiting
  <2> QED  BY <1>2, <1>3, <1>7, <2>1
<1>11. answers' \in [Places -> Slots \cup {0}]
  BY <1>3, <1>7, <1>10
<1>12. SlotsKept
  BY <1>8, <1>9 DEF SlotsKept
<1> QED
  BY <1>2, <1>6, <1>8, <1>9, <1>10, <1>11, <1>12 DEF s, d

-----------------------------------------------------------------------------
(* a poll,                                                                   *)

LEMMA AddressCore ==
  ASSUME Core, AddressDevice
  PROVE  Core'
<1> DEFINE s == call.slot
<1>1. /\ upsets' \in 0 .. MaxUpsets
      /\ UNCHANGED <<plug, port, urbs, bus, ready, hubs, enum, stuck, botched>>
      /\ call.at = "address"
  BY AddressCases
<1>2. /\ s \in Slots /\ At(s, enum.place) /\ hw[s].on /\ enum.place \in Places
      /\ ctx' \in [Slots -> Entries] /\ hw' \in [Slots -> SlotContexts]
      /\ answers' \in [Places -> Slots \cup {0}]
      /\ SlotsKept
      /\ call' \in Polls /\ SamePoll /\ call'.at \in {"done", "undo"} /\ call'.slot = s
  BY AddressEffect
<1>3. \A p \in Places : answers'[p] = answers[p] \/ (p = enum.place /\ answers'[p] = s)
  BY AddressEffect
<1> HIDE DEF s
<1>4. TypeOK'
  BY <1>1, <1>2 DEF Core, TypeOK, WorldOK, DriverOK, BusOK, BoundOK
<1>5. OneSlotPerPlace' /\ Placed' /\ Rooted'
  BY <1>2, TablesKept
<1>6. Answering'
  <2> SUFFICES ASSUME NEW p \in Places, answers'[p] # 0
               PROVE  hw'[answers'[p]].on /\ ctx'[answers'[p]].route = Route[p]
    BY DEF Answering, Route
  <2>1. CASE answers'[p] = answers[p]
    <3>1. answers[p] \in Slots /\ hw[answers[p]].on /\ ctx[answers[p]].route = Route[p]
      BY <2>1 DEF Core, TypeOK, WorldOK, Answering
    <3> QED  BY <1>2, <2>1, <3>1 DEF SlotsKept
  <2>2. CASE p = enum.place /\ answers'[p] = s
    BY <1>2, <2>2 DEF SlotsKept, At
  <2> QED  BY <1>3, <2>1, <2>2
<1>7. /\ hw'[s].on /\ ctx'[s].enabled /\ ctx'[s].slot # 0
      /\ ctx'[s].route = Route[enum.place]
  BY <1>1, <1>2 DEF SlotsKept, At, Live
<1>8. Calls'
  <2>1. At(call.slot, enum.place)'
    BY <1>1, <1>2, <1>7 DEF At, Live
  <2>2. hw'[call'.slot].on /\ call'.slot \in Slots
    BY <1>2, <1>7
  <2>3. /\ enum'.at \in {"polled", "await"} /\ enum'.place \in Places
        /\ call'.chart = Route[enum'.place] /\ call'.parent = ParentRoute(enum'.place)
        /\ call'.portNumber = enum'.place[Len(enum'.place)]
        /\ (call'.up => call'.connected)
        /\ call'.up
    BY <1>1, <1>2 DEF Core, Calls, SamePoll
  <2>4. call'.at \in {"done", "undo"}
    BY <1>2
  <2> HIDE DEF s
  <2> QED  BY <2>1, <2>2, <2>3, <2>4 DEF Calls, ParentRoute, Route
<1>9. Polling' => HasHub(enum.place)'
  <2>1. HasHub(enum.place) /\ enum.place \in Places
    BY <1>1, <1>2 DEF Core, Polling
  <2>2. \A q \in Places : q = enum.place => HasHub(q)'
    BY <1>2, <2>1, KeptAt
  <2> QED  BY <1>1, <2>1, <2>2 DEF HasHub
<1> QED  BY <1>4, <1>5, <1>6, <1>8, <1>9 DEF Core

LEMMA SpeedRead ==
  ASSUME NEW k \in Devices
  PROVE  /\ Speed(SpeedBits(k)) \in {"low", "full", "high"}
         /\ k # None => Speed(SpeedBits(k)) = k.speed
<1>1. CASE k = None
  BY <1>1 DEF None, Speed, SpeedBits
<1>2. CASE k # None
  <2>1. k.speed \in {"low", "full", "high"}
    BY <1>2 DEF Devices
  <2> QED  BY <2>1, <1>2 DEF Speed, SpeedBits
<1> QED  BY <1>1, <1>2

LEMMA LastPort ==
  ASSUME NEW p \in Places
  PROVE  p[Len(p)] \in Nat
<1>1. Len(p) \in 1 .. 6 /\ \A i \in 1 .. Len(p) : p[i] \in Nat
  BY PlaceShape
<1> DEFINE n == Len(p)
<1>2. n \in 1 .. 6 /\ \A i \in 1 .. n : p[i] \in Nat
  BY <1>1
<1> HIDE DEF n
<1>3. n \in 1 .. n
  BY <1>2
<1> QED  BY <1>2, <1>3 DEF n

\* A poll of port p starts about place p, under the slot of its hub.
LEMMA PollStarts ==
  ASSUME Core, NEW p \in Places, PollPort(p)
  PROVE  /\ call' \in Polls /\ call'.chart = Route[p] /\ call'.parent = ParentRoute(p)
         /\ call'.portNumber = p[Len(p)]
         /\ call'.connected = (plug[p] # None)
         /\ call'.up = (port[p].enabled /\ plug[p] # None)
         /\ call'.reset = ("reset" \in port[p].changes)
         /\ call'.speed = Speed(SpeedBits(plug[p]))
         /\ call'.at = IF SlotsOn(Route[p]) # {} THEN "old" ELSE "attempt"
         /\ port' \in [Places -> Ports]
         /\ port'[p].changes = {} /\ port'[p].enabled = port[p].enabled
         /\ \A q \in Places \ {p} : port'[q] = port[q]
         /\ HasHub(p)
         /\ UNCHANGED <<plug, answers, hw, ctx, urbs, upsets, stuck, botched>>
<1>1. /\ CanPoll(p)
      /\ port' = [port EXCEPT ![p].changes = {}]
      /\ UNCHANGED <<plug, answers, hw, ctx, urbs, upsets, stuck, botched>>
  BY DEF PollPort, driver, history
<1>2. ParentChart(p) = ParentRoute(p) /\ HasHub(p)
  <2>1. CASE IsRoot(p)
    BY <2>1 DEF ParentChart, ParentRoute, HasHub
  <2>2. CASE ~IsRoot(p)
    <3> DEFINE s == BusDevAddrToSlotId(bus[Hub(p)])
    <3>1. Hub(p) \in Places /\ Reaches(bus[Hub(p)], Hub(p))
      BY <1>1, <2>2, HubShape DEF CanPoll
    <3>2. s \in Slots /\ At(s, Hub(p)) /\ hw[s].on
      BY <3>1, Reached DEF Core
    <3>3. ctx[s].route = Route[Hub(p)]
      BY <3>2 DEF At
    <3>4. HasHub(p)
      <4> HIDE DEF s
      <4> QED  BY <3>2 DEF HasHub
    <3> QED  BY <2>2, <3>3, <3>4 DEF ParentChart, ParentRoute
  <2> QED  BY <2>1, <2>2
<1>3. RouteChart(ParentChart(p), p[Len(p)]) = Route[p]
  BY <1>2, RouteGrows
<1> DEFINE a == IF SlotsOn(Route[p]) # {} THEN "old" ELSE "attempt"
           up == port[p].enabled /\ plug[p] # None
           r == "reset" \in port[p].changes
           v == Speed(SpeedBits(plug[p]))
           c == plug[p] # None
<1>4. call' = [at |-> a, chart |-> Route[p], parent |-> ParentRoute(p), portNumber |-> p[Len(p)],
               connected |-> c, up |-> up, reset |-> r, speed |-> v,
               status |-> "SUCCESS", retries |-> Retries, slot |-> 0]
  BY <1>2, <1>3 DEF PollPort
<1>5. /\ a \in {"old", "attempt"} /\ Route[p] \in Charts /\ ParentRoute(p) \in Charts
      /\ p[Len(p)] \in Nat /\ c \in BOOLEAN /\ up \in BOOLEAN /\ r \in BOOLEAN
      /\ v \in {"low", "full", "high"} /\ Retries \in 0 .. Retries
  <2>1. Route[p] \in Charts /\ ParentRoute(p) \in Charts
    BY HubShape DEF Charts, ParentRoute
  <2>2. p[Len(p)] \in Nat
    BY LastPort
  <2>3. v \in {"low", "full", "high"} /\ up \in BOOLEAN
    <3>1. plug[p] \in Devices
      BY PortFields DEF Core
    <3>2. v \in {"low", "full", "high"}
      BY <3>1, SpeedRead
    <3> QED  BY <3>2
  <2> QED  BY <2>1, <2>2, <2>3, BoundAssumption
<1> HIDE DEF a, up, r, v, c
<1>6. call' \in Polls
  BY <1>4, <1>5 DEF Polls
<1>7. /\ port' \in [Places -> Ports]
      /\ port'[p].changes = {} /\ port'[p].enabled = port[p].enabled
      /\ \A q \in Places \ {p} : port'[q] = port[q]
  <2>1. port \in [Places -> Ports]
    BY DEF Core, TypeOK, WorldOK, Ports
  <2> DEFINE d == [port[p] EXCEPT !.changes = {}]
  <2>2. d \in Ports /\ d.changes = {} /\ d.enabled = port[p].enabled
    BY <2>1 DEF Ports
  <2>3. port' = [port EXCEPT ![p] = d]
    BY <1>1, <2>1
  <2> HIDE DEF d
  <2> QED  BY <2>1, <2>2, <2>3
<1>8. /\ call'.at = a /\ call'.chart = Route[p] /\ call'.parent = ParentRoute(p)
      /\ call'.portNumber = p[Len(p)] /\ call'.connected = c /\ call'.up = up
      /\ call'.reset = r /\ call'.speed = v
  BY <1>4
<1> QED  BY <1>1, <1>2, <1>6, <1>7, <1>8 DEF a, up, r, v, c

LEMMA PollPortCore ==
  ASSUME Core, NEW p \in Places, PollPort(p),
         enum' \in Enumerations, enum'.at \in {"polled", "await"}, enum'.place = p,
         UNCHANGED <<bus, ready, hubs>>
  PROVE  Core'
<1>1. /\ call' \in Polls /\ call'.chart = Route[p] /\ call'.parent = ParentRoute(p)
      /\ call'.portNumber = p[Len(p)]
      /\ call'.connected = (plug[p] # None)
      /\ call'.up = (port[p].enabled /\ plug[p] # None)
      /\ call'.at = IF SlotsOn(Route[p]) # {} THEN "old" ELSE "attempt"
      /\ port' \in [Places -> Ports] /\ HasHub(p)
      /\ UNCHANGED <<plug, answers, hw, ctx, urbs, upsets, stuck, botched>>
  BY PollStarts
<1>2. TypeOK'
  BY <1>1 DEF Core, TypeOK, WorldOK, DriverOK, BusOK, BoundOK, Ports
<1>3. SlotsKept
  BY <1>1 DEF SlotsKept
<1>4. OneSlotPerPlace' /\ Placed' /\ Rooted'
  BY <1>3, TablesKept
<1>5. Answering'
  BY <1>1 DEF Core, Answering, Route
<1>6. call'.at = "old" => \E s \in Slots : At(s, enum.place)'
  <2>1. call'.at = "old" => \E s \in Slots : At(s, p)
    BY <1>1, SlotsThere
  <2>2. \A s \in Slots : At(s, p) => At(s, enum.place)'
    BY <1>1 DEF At, Live, Route
  <2> QED  BY <2>1, <2>2
<1>7. Calls'
  BY <1>1, <1>6 DEF Calls, ParentRoute, Route
<1>8. HasHub(enum.place)'
  <2>1. \A q \in Places : q = p => HasHub(q)'
    BY <1>1, <1>3, KeptAt
  <2> QED  BY <2>1 DEF HasHub
<1> QED  BY <1>2, <1>4, <1>5, <1>7, <1>8 DEF Core

-----------------------------------------------------------------------------
(* what is asked about a configured device,                                  *)

\* What a command about a configured device may change: one slot, and neither
\* its place nor its address nor its translator.
Tunes(s) ==
  /\ s \in Slots /\ Live(s) /\ hw[s].on
  /\ ctx' \in [Slots -> Entries] /\ hw' \in [Slots -> SlotContexts]
  /\ SlotsKept
  /\ \A t \in Slots : ctx'[t].busAddr = ctx[t].busAddr /\ ctx'[t].xhciAddr = ctx[t].xhciAddr
  /\ \A t \in Slots : hw'[t].on = hw[t].on /\ hw'[t].speed = hw[t].speed /\ hw'[t].tt = hw[t].tt
  /\ \A t \in Slots \ {s} : ctx'[t] = ctx[t] /\ hw'[t] = hw[t]
  /\ \A e \in Eps : (hw[s].eps[e] = "running" => e \in ctx[s].rings) =>
                    (hw'[s].eps[e] = "running" => e \in ctx'[s].rings)

LEMMA Tables ==
  ASSUME Core
  PROVE  ctx \in [Slots -> Entries] /\ hw \in [Slots -> SlotContexts]
BY DEF Core, TypeOK, DriverOK

LEMMA DescriptorTunes ==
  ASSUME Core, GetDeviceDescriptor
  PROVE  Tunes(Addressed) /\ upsets' \in 0 .. MaxUpsets
<1> DEFINE s == Addressed
<1>1. s \in Slots /\ Live(s) /\ hw[s].on
  BY ReachedSome DEF GetDeviceDescriptor, Asks, Addressed
<1>2. ctx \in [Slots -> Entries] /\ hw \in [Slots -> SlotContexts]
  BY Tables
<1>3. upsets' \in 0 .. MaxUpsets
  <2>1. PICK c \in Answers : Answer(c, TRUE)
    BY DEF GetDeviceDescriptor
  <2> QED  BY <2>1, AnswerCounts DEF Core
<1> DEFINE f == [ctx[s] EXCEPT !.described = TRUE]
<1>4. /\ f \in Entries /\ f.enabled = ctx[s].enabled /\ f.slot = ctx[s].slot /\ f.route = ctx[s].route
      /\ f.parent = ctx[s].parent /\ f.busAddr = ctx[s].busAddr /\ f.rings = ctx[s].rings
      /\ f.xhciAddr = ctx[s].xhciAddr
  BY <1>1, <1>2, EntryDescribed
<1>5. ctx' = [ctx EXCEPT ![s] = f] /\ hw' = hw
  BY DEF GetDeviceDescriptor
<1> HIDE DEF s, f
<1>6. /\ ctx' \in [Slots -> Entries]
      /\ \A t \in Slots \ {s} : ctx'[t] = ctx[t]
      /\ \A t \in Slots : /\ ctx'[t].enabled = ctx[t].enabled /\ ctx'[t].slot = ctx[t].slot
                          /\ ctx'[t].route = ctx[t].route /\ ctx'[t].parent = ctx[t].parent
                          /\ ctx'[t].busAddr = ctx[t].busAddr /\ ctx'[t].rings = ctx[t].rings
                          /\ ctx'[t].xhciAddr = ctx[t].xhciAddr
  BY <1>1, <1>2, <1>4, <1>5
<1>7. Tunes(s)
  BY <1>1, <1>2, <1>5, <1>6 DEF Tunes, SlotsKept
<1> QED  BY <1>3, <1>7 DEF s

\* One slot's rings, setting and endpoints change together.
LEMMA Retunes ==
  ASSUME Core, NEW s \in Slots, Live(s), hw[s].on,
         NEW R \in SUBSET Eps, NEW a \in Alternates, NEW E \in [Eps -> {"none", "running", "freed"}],
         \/ ctx' = [ctx EXCEPT ![s] = [ctx[s] EXCEPT !.rings = R, !.alt = a]]
         \/ ctx' = [ctx EXCEPT ![s] = [ctx[s] EXCEPT !.rings = R]],
         hw' = [hw EXCEPT ![s] = [hw[s] EXCEPT !.eps = E]],
         \A e \in Eps : E[e] = "running" =>
           e \in R \/ (hw[s].eps[e] = "running" /\ e \notin ctx[s].rings)
  PROVE  Tunes(s)
<1>2. ctx \in [Slots -> Entries] /\ hw \in [Slots -> SlotContexts]
  BY Tables
<1>3. PICK f \in Entries :
        /\ f.enabled = ctx[s].enabled /\ f.slot = ctx[s].slot /\ f.route = ctx[s].route
        /\ f.parent = ctx[s].parent /\ f.busAddr = ctx[s].busAddr /\ f.rings = R
        /\ f.xhciAddr = ctx[s].xhciAddr
        /\ ctx' = [ctx EXCEPT ![s] = f]
  <2>0. ctx[s] \in Entries
    BY <1>2
  <2>1. CASE ctx' = [ctx EXCEPT ![s] = [ctx[s] EXCEPT !.rings = R, !.alt = a]]
    <3> DEFINE f == [ctx[s] EXCEPT !.rings = R, !.alt = a]
    <3>1. /\ f \in Entries /\ f.enabled = ctx[s].enabled /\ f.slot = ctx[s].slot
          /\ f.route = ctx[s].route /\ f.parent = ctx[s].parent /\ f.busAddr = ctx[s].busAddr
          /\ f.rings = R /\ f.xhciAddr = ctx[s].xhciAddr
      BY <2>0 DEF Entries
    <3>2. ctx' = [ctx EXCEPT ![s] = f]
      BY <2>1
    <3> HIDE DEF f
    <3> QED  BY <3>1, <3>2
  <2>2. CASE ctx' = [ctx EXCEPT ![s] = [ctx[s] EXCEPT !.rings = R]]
    <3> DEFINE f == [ctx[s] EXCEPT !.rings = R]
    <3>1. /\ f \in Entries /\ f.enabled = ctx[s].enabled /\ f.slot = ctx[s].slot
          /\ f.route = ctx[s].route /\ f.parent = ctx[s].parent /\ f.busAddr = ctx[s].busAddr
          /\ f.rings = R /\ f.xhciAddr = ctx[s].xhciAddr
      BY <2>0 DEF Entries
    <3>2. ctx' = [ctx EXCEPT ![s] = f]
      BY <2>2
    <3> HIDE DEF f
    <3> QED  BY <3>1, <3>2
  <2> QED  BY <2>1, <2>2
<1> DEFINE d == [hw[s] EXCEPT !.eps = E]
<1>4. d \in SlotContexts /\ d.on = hw[s].on /\ d.speed = hw[s].speed /\ d.tt = hw[s].tt /\ d.eps = E
  BY <1>2, ChipEps
<1>5. hw' = [hw EXCEPT ![s] = d]
  OBVIOUS
<1> HIDE DEF d
<1>6. /\ ctx' \in [Slots -> Entries]
      /\ \A t \in Slots \ {s} : ctx'[t] = ctx[t]
      /\ \A t \in Slots : /\ ctx'[t].enabled = ctx[t].enabled /\ ctx'[t].slot = ctx[t].slot
                          /\ ctx'[t].route = ctx[t].route /\ ctx'[t].parent = ctx[t].parent
                          /\ ctx'[t].busAddr = ctx[t].busAddr
                          /\ ctx'[t].xhciAddr = ctx[t].xhciAddr
      /\ ctx'[s].rings = R
  BY <1>2, <1>3
<1>7. /\ hw' \in [Slots -> SlotContexts]
      /\ \A t \in Slots \ {s} : hw'[t] = hw[t]
      /\ \A t \in Slots : hw'[t].on = hw[t].on /\ hw'[t].speed = hw[t].speed /\ hw'[t].tt = hw[t].tt
      /\ hw'[s].eps = E
  BY <1>2, <1>4, <1>5
<1> QED  BY <1>6, <1>7 DEF Tunes, SlotsKept

LEMMA EndpointsKnown ==
  ASSUME NEW alt
  PROVE  Endpoints(alt) \subseteq Eps
BY DEF Endpoints, Eps

LEMMA SetConfigTunes ==
  ASSUME Core, SetConfig
  PROVE  /\ Tunes(Addressed) /\ upsets' \in 0 .. MaxUpsets
         /\ enum.at = "config" /\ (Goto("hub") \/ Goto("start") \/ GiveUp)
<1> DEFINE s == Addressed
           next == IF ~enum.known /\ DeviceAt(bus[enum.place]).hub THEN "hub" ELSE "start"
<1>1. s \in Slots /\ Live(s) /\ hw[s].on /\ enum.at = "config"
  BY ReachedSome DEF SetConfig, Asks, Addressed, Enumerating
<1>2. ctx \in [Slots -> Entries] /\ hw \in [Slots -> SlotContexts]
  BY Tables
<1>3. next \in {"hub", "start"}
  OBVIOUS
<1>4. IF ctx[s].described
      THEN \E c \in Answers :
             /\ Answer(c, TRUE) /\ Proceed(c, next)
             /\ ctx' = [ctx EXCEPT ![s].rings = @ \cup Endpoints(0), ![s].alt = 0]
             /\ hw' = IF ~c.done THEN hw
                      ELSE [hw EXCEPT ![s].eps = [e \in Eps |->
                              IF e \in Endpoints(0) THEN "running" ELSE @[e]]]
      ELSE Goto(next) /\ UNCHANGED <<ctx, hw, upsets>>
  BY DEF SetConfig
<1> HIDE DEF s, next
<1>5. CASE ctx[s].described
  <2>1. PICK c \in Answers :
             /\ Answer(c, TRUE) /\ Proceed(c, next)
             /\ ctx' = [ctx EXCEPT ![s].rings = @ \cup Endpoints(0), ![s].alt = 0]
             /\ hw' = IF ~c.done THEN hw
                      ELSE [hw EXCEPT ![s].eps = [e \in Eps |->
                              IF e \in Endpoints(0) THEN "running" ELSE @[e]]]
    BY <1>4, <1>5, Zenon
  <2>2. upsets' \in 0 .. MaxUpsets
    BY <2>1, AnswerCounts DEF Core
  <2>3. Goto("hub") \/ Goto("start") \/ GiveUp
    BY <1>3, <2>1 DEF Proceed
  <2> DEFINE R == ctx[s].rings \cup Endpoints(0)
             F == hw[s].eps
             E == IF ~c.done THEN F ELSE [e \in Eps |-> IF e \in Endpoints(0) THEN "running" ELSE F[e]]
  <2>4. hw[s] \in SlotContexts /\ ctx[s] \in Entries
    BY <1>1, <1>2
  <2>5. R \in SUBSET Eps /\ F \in [Eps -> {"none", "running", "freed"}] /\ 0 \in Alternates
    BY <2>4, EntryFields, ChipFields, EndpointsKnown DEF Alternates
  <2>6. E \in [Eps -> {"none", "running", "freed"}]
    <3> HIDE DEF F
    <3> QED  BY <2>5
  <2>7. \A e \in Eps : E[e] = "running" => e \in R \/ (F[e] = "running" /\ e \notin ctx[s].rings)
    <3> HIDE DEF F
    <3> QED  OBVIOUS
  <2>8. ctx' = [ctx EXCEPT ![s] = [ctx[s] EXCEPT !.rings = R, !.alt = 0]]
    BY <1>1, <1>2, <2>1, <2>4 DEF Entries
  <2>9. hw' = [hw EXCEPT ![s] = [hw[s] EXCEPT !.eps = E]]
    <3>1. CASE ~c.done
      BY <1>2, <2>1, <2>4, <3>1 DEF SlotContexts
    <3>2. CASE c.done
      BY <1>2, <2>1, <2>4, <3>2
    <3> QED  BY <3>1, <3>2
  <2> HIDE DEF R, E
  <2>10. Tunes(s)
    BY <1>1, <2>5, <2>6, <2>7, <2>8, <2>9, Retunes DEF F
  <2> QED  BY <1>1, <2>2, <2>3, <2>10 DEF s
<1>6. CASE ~ctx[s].described
  <2>1. Goto(next) /\ UNCHANGED <<ctx, hw, upsets>>
    BY <1>4, <1>6
  <2>2. Tunes(s)
    BY <1>1, <1>2, <2>1 DEF Tunes, SlotsKept
  <2>3. upsets' \in 0 .. MaxUpsets
    BY <2>1 DEF Core, TypeOK, BoundOK
  <2> QED  BY <1>1, <1>3, <2>1, <2>2, <2>3 DEF s
<1> QED  BY <1>5, <1>6

LEMMA ConfigHubTunes ==
  ASSUME Core, ConfigHub
  PROVE  /\ Tunes(Addressed) /\ upsets' \in 0 .. MaxUpsets
         /\ enum.at = "hub" /\ (Goto("start") \/ GiveUp)
         /\ \/ hubs' = hubs \cup {enum.place}
            \/ hubs' = hubs
<1> DEFINE s == Addressed
<1>1. s \in Slots /\ Live(s) /\ hw[s].on /\ enum.at = "hub"
  BY ReachedSome DEF ConfigHub, Asks, Addressed, Enumerating
<1>2. ctx \in [Slots -> Entries] /\ hw \in [Slots -> SlotContexts]
  BY Tables
<1>3. PICK c \in Answers :
       /\ Answer(c, TRUE) /\ Proceed(c, "start")
       /\ hw' = IF c.done THEN [hw EXCEPT ![s].hub = TRUE] ELSE hw
       /\ hubs' = IF c.status = "SUCCESS" THEN hubs \cup {enum.place} ELSE hubs
  BY Zenon DEF ConfigHub
<1>4. ctx' = ctx
  BY DEF ConfigHub, driver
<1> DEFINE d == [hw[s] EXCEPT !.hub = TRUE]
<1>5. d \in SlotContexts /\ d.on = hw[s].on /\ d.speed = hw[s].speed /\ d.tt = hw[s].tt /\ d.eps = hw[s].eps
  BY <1>1, <1>2, ChipHub
<1>6. hw' = hw \/ hw' = [hw EXCEPT ![s] = d]
  BY <1>2, <1>3
<1> HIDE DEF s, d
<1>7. /\ hw' \in [Slots -> SlotContexts]
      /\ \A t \in Slots \ {s} : hw'[t] = hw[t]
      /\ \A t \in Slots : /\ hw'[t].on = hw[t].on /\ hw'[t].speed = hw[t].speed
                          /\ hw'[t].tt = hw[t].tt /\ hw'[t].eps = hw[t].eps
  BY <1>1, <1>2, <1>5, <1>6
<1>8. Tunes(s)
  BY <1>1, <1>2, <1>4, <1>7 DEF Tunes, SlotsKept
<1>9. upsets' \in 0 .. MaxUpsets
  BY <1>3, AnswerCounts DEF Core
<1> QED  BY <1>1, <1>3, <1>8, <1>9 DEF s, Proceed

LEMMA SetInterfaceTunes ==
  ASSUME Core, NEW p \in Places, NEW alt \in Alternates, SetInterface(p, alt)
  PROVE  Tunes(BusDevAddrToSlotId(bus[p])) /\ upsets' \in 0 .. MaxUpsets
<1> DEFINE s == BusDevAddrToSlotId(bus[p])
<1>1. s \in Slots /\ Live(s) /\ hw[s].on
  BY ReachedSome DEF SetInterface
<1>2. StopFails(s) \/ ConfigureInterface(s, alt)
  BY DEF SetInterface
<1>3. ctx \in [Slots -> Entries] /\ hw \in [Slots -> SlotContexts]
  BY Tables
<1> HIDE DEF s
<1> DEFINE F == hw[s].eps
           old == ctx[s].rings
           E0 == Endpoints(ctx[s].alt)
<1>4. hw[s] \in SlotContexts /\ ctx[s] \in Entries
  BY <1>1, <1>3
<1>5. F \in [Eps -> {"none", "running", "freed"}] /\ old \subseteq Eps /\ ctx[s].alt \in Alternates
  BY <1>4, EntryFields, ChipFields
<1>6. CASE StopFails(s)
  <2>1. PICK S \in SUBSET E0 :
           /\ ctx' = [ctx EXCEPT ![s].rings = @ \ S]
           /\ hw' = [hw EXCEPT ![s].eps = [e \in Eps |-> IF e \in S THEN "freed" ELSE @[e]]]
    BY <1>6 DEF StopFails, Leave
  <2>2. upsets' \in 0 .. MaxUpsets
    <3>1. UNCHANGED upsets \/ Upset
      BY <1>6 DEF StopFails
    <3> QED  BY <3>1, UpsetCounts DEF Core, TypeOK, BoundOK
  <2> DEFINE R == old \ S
             E == [e \in Eps |-> IF e \in S THEN "freed" ELSE F[e]]
  <2>3. R \in SUBSET Eps /\ E \in [Eps -> {"none", "running", "freed"}]
    <3> HIDE DEF F, old
    <3> QED  BY <1>5
  <2>4. \A e \in Eps : E[e] = "running" => e \in R \/ (F[e] = "running" /\ e \notin old)
    <3> HIDE DEF F, old
    <3> QED  OBVIOUS
  <2>5. ctx' = [ctx EXCEPT ![s] = [ctx[s] EXCEPT !.rings = R]]
    BY <2>1
  <2>6. hw' = [hw EXCEPT ![s] = [hw[s] EXCEPT !.eps = E]]
    BY <2>1
  <2> HIDE DEF R, E
  <2>7. Tunes(s)
    BY <1>1, <1>5, <2>3, <2>4, <2>5, <2>6, Retunes DEF F, old
  <2> QED  BY <2>2, <2>7 DEF s
<1>7. CASE ConfigureInterface(s, alt)
  <2>1. PICK c \in Answers :
       /\ Answer(c, TRUE)
       /\ ctx' = [ctx EXCEPT ![s].rings = (@ \ Endpoints(ctx[s].alt)) \cup Endpoints(alt),
                             ![s].alt = IF c.status = "SUCCESS" THEN alt ELSE @]
       /\ hw' = [hw EXCEPT ![s].eps = [e \in Eps |->
                   IF c.done THEN Configured(s, alt)[e]
                   ELSE IF e \in Endpoints(ctx[s].alt) THEN "freed" ELSE @[e]]]
    BY <1>7, Zenon DEF ConfigureInterface
  <2>2. upsets' \in 0 .. MaxUpsets
    BY <2>1, AnswerCounts DEF Core
  <2> DEFINE R == (old \ E0) \cup Endpoints(alt)
             a == IF c.status = "SUCCESS" THEN alt ELSE ctx[s].alt
             C == Configured(s, alt)
             E == [e \in Eps |-> IF c.done THEN C[e] ELSE IF e \in E0 THEN "freed" ELSE F[e]]
  <2>3. R \in SUBSET Eps /\ a \in Alternates
    BY <1>5, EndpointsKnown
  <2>4. /\ C \in [Eps -> {"none", "running", "freed"}]
        /\ \A e \in Eps : C[e] = "running" => e \in Endpoints(alt)
    BY DEF Configured
  <2>5. E \in [Eps -> {"none", "running", "freed"}]
    <3> HIDE DEF F, C
    <3> QED  BY <1>5, <2>4
  <2>6. \A e \in Eps : E[e] = "running" => e \in R \/ (F[e] = "running" /\ e \notin old)
    <3> HIDE DEF F, C, old, E0
    <3> QED  BY <2>4
  <2>7. ctx' = [ctx EXCEPT ![s] = [ctx[s] EXCEPT !.rings = R, !.alt = a]]
    BY <1>1, <1>3, <1>4, <2>1 DEF Entries
  <2>8. hw' = [hw EXCEPT ![s] = [hw[s] EXCEPT !.eps = E]]
    BY <2>1
  <2> HIDE DEF R, E, a
  <2>9. Tunes(s)
    BY <1>1, <2>3, <2>5, <2>6, <2>7, <2>8, Retunes DEF F, old
  <2> QED  BY <2>2, <2>9 DEF s
<1> QED  BY <1>2, <1>6, <1>7

-----------------------------------------------------------------------------
(* and every other step: the types, and one slot per place.                  *)

\* The address that Set_Address gives to the place being enumerated.
Given == IF bus[enum.place] # 0 THEN bus[enum.place] ELSE FreeAddress
Wiped(t) == ~ctx[t].enabled /\ ctx[t].slot = 0 /\ ctx[t].busAddr = Given

LEMMA GivenType ==
  ASSUME Core, enum.place \in Places
  PROVE  Given \in Addresses \cup {0}
<1> DEFINE S == Addresses \ {bus[p] : p \in Places}
<1>1. S \subseteq Nat \ {0} /\ S \subseteq Addresses
  BY SlotAssumption
<1>2. FreeAddress = Lowest(S)
  BY DEF FreeAddress
<1>3. FreeAddress \in Addresses \cup {0}
  <2> HIDE DEF S
  <2> QED  BY <1>1, <1>2, LowestIn
<1> QED  BY <1>3 DEF Given, Core, TypeOK, BusOK

\* Set_Address without a slot, with a slot that took no address, and with one.
LEMMA SetAddressEffect ==
  ASSUME Core, SetAddress
  PROVE  /\ enum.at = "address" /\ call.at = "idle" /\ enum.place \in Places
         /\ bus' = [bus EXCEPT ![enum.place] = Given] /\ Given \in Addresses \cup {0}
         /\ UNCHANGED <<plug, port, answers, hw, urbs, call, ready, hubs, upsets, stuck, botched>>
         /\ ctx' \in [Slots -> Entries] /\ SlotsKept
         /\ \A t \in Slots : ctx'[t].rings = ctx[t].rings /\ ctx'[t].xhciAddr = ctx[t].xhciAddr
         /\ LET s == BusDevAddrToSlotId(0)
            IN  \/ s = 0 /\ GiveUp /\ ctx' = ctx
                \/ /\ s \in Slots /\ Live(s) /\ ctx[s].busAddr = 0 /\ ~ctx[s].xhciAddr /\ GiveUp
                   /\ \A t \in Slots : ctx'[t].busAddr = IF Wiped(t) THEN 0 ELSE ctx[t].busAddr
                \/ /\ s \in Slots /\ Live(s) /\ ctx[s].busAddr = 0 /\ ctx[s].xhciAddr
                   /\ Goto("config") \/ Goto("describe")
                   /\ \A t \in Slots \ {s} :
                        ctx'[t].busAddr = IF Wiped(t) THEN 0 ELSE ctx[t].busAddr
                   /\ ctx'[s].busAddr = Given
<1>1. enum.at = "address" /\ call.at = "idle" /\ enum.place \in Places
  BY EnumFields DEF SetAddress, Enumerating, Core, TypeOK
<1>2. Given \in Addresses \cup {0}
  BY <1>1, GivenType
<1>3. UNCHANGED <<plug, port, answers, hw, urbs, call, ready, hubs, upsets, stuck, botched>>
  BY DEF SetAddress, world, history
<1> DEFINE s == BusDevAddrToSlotId(0)
           new(t) == IF Wiped(t) THEN [ctx[t] EXCEPT !.busAddr = 0] ELSE ctx[t]
           wiped == [t \in Slots |-> new(t)]
<1>4. /\ bus' = [bus EXCEPT ![enum.place] = Given]
      /\ CASE s = 0 -> GiveUp /\ UNCHANGED ctx
           [] s # 0 /\ ~ctx[s].xhciAddr -> GiveUp /\ ctx' = wiped
           [] OTHER -> Goto(IF enum.known THEN "config" ELSE "describe") /\ ctx' = [wiped EXCEPT ![s].busAddr = Given]
  BY DEF SetAddress, Given, Wiped
<1>5. s # 0 => s \in Slots /\ Live(s) /\ ctx[s].busAddr = 0
  BY ByAddress
<1>6. ctx \in [Slots -> Entries]
  BY Tables
<1>7. ASSUME NEW t \in Slots
      PROVE  /\ wiped[t] \in Entries
             /\ wiped[t].enabled = ctx[t].enabled /\ wiped[t].slot = ctx[t].slot
             /\ wiped[t].route = ctx[t].route /\ wiped[t].parent = ctx[t].parent
             /\ wiped[t].rings = ctx[t].rings /\ wiped[t].xhciAddr = ctx[t].xhciAddr
             /\ wiped[t].busAddr = IF Wiped(t) THEN 0 ELSE ctx[t].busAddr
  <2>1. ctx[t] \in Entries /\ wiped[t] = new(t)
    BY <1>6
  <2>2. CASE Wiped(t)
    <3> DEFINE g == [ctx[t] EXCEPT !.busAddr = 0]
    <3>1. /\ g \in Entries /\ g.enabled = ctx[t].enabled /\ g.slot = ctx[t].slot
          /\ g.route = ctx[t].route /\ g.parent = ctx[t].parent
          /\ g.rings = ctx[t].rings /\ g.xhciAddr = ctx[t].xhciAddr /\ g.busAddr = 0
      BY <2>1, EntryNumbered
    <3>2. wiped[t] = g
      BY <2>1, <2>2
    <3> HIDE DEF g, wiped
    <3> QED  BY <2>2, <3>1, <3>2
  <2>3. CASE ~Wiped(t)
    BY <2>1, <2>3
  <2> QED  BY <2>2, <2>3
<1> HIDE DEF new
<1>8. wiped \in [Slots -> Entries]
  BY <1>7
<1> HIDE DEF s, wiped
<1>9. CASE s = 0
  <2>1. GiveUp /\ ctx' = ctx
    BY <1>4, <1>9
  <2> QED  BY <1>1, <1>2, <1>3, <1>4, <1>6, <1>9, <2>1 DEF s, SlotsKept
<1>10. CASE s # 0 /\ ~ctx[s].xhciAddr
  <2>1. GiveUp /\ ctx' = wiped
    BY <1>4, <1>10
  <2>2. SlotsKept
    BY <1>3, <1>7, <2>1 DEF SlotsKept
  <2> QED  BY <1>1, <1>2, <1>3, <1>4, <1>5, <1>7, <1>8, <1>10, <2>1, <2>2 DEF s
<1>11. CASE s # 0 /\ ctx[s].xhciAddr
  <2>1. Goto("config") \/ Goto("describe")
    BY <1>4, <1>11
  <2>2. ctx' = [wiped EXCEPT ![s].busAddr = Given]
    BY <1>4, <1>11
  <2> DEFINE f == [wiped[s] EXCEPT !.busAddr = Given]
  <2>3. /\ f \in Entries /\ f.enabled = ctx[s].enabled /\ f.slot = ctx[s].slot
        /\ f.route = ctx[s].route /\ f.parent = ctx[s].parent
        /\ f.rings = ctx[s].rings /\ f.xhciAddr = ctx[s].xhciAddr /\ f.busAddr = Given
    <3>1. wiped[s] \in Entries
      BY <1>5, <1>7, <1>11
    <3>2. /\ f \in Entries /\ f.enabled = wiped[s].enabled /\ f.slot = wiped[s].slot
          /\ f.route = wiped[s].route /\ f.parent = wiped[s].parent
          /\ f.rings = wiped[s].rings /\ f.xhciAddr = wiped[s].xhciAddr /\ f.busAddr = Given
      BY <1>2, <3>1, EntryNumbered
    <3> HIDE DEF f
    <3> QED  BY <1>5, <1>7, <1>11, <3>2
  <2>4. ctx' = [wiped EXCEPT ![s] = f]
    BY <2>2
  <2> HIDE DEF f
  <2>5. /\ ctx' \in [Slots -> Entries] /\ ctx'[s] = f
        /\ \A t \in Slots \ {s} : ctx'[t] = wiped[t]
    BY <1>5, <1>8, <1>11, <2>3, <2>4
  <2>6. SlotsKept
    BY <1>3, <1>7, <2>3, <2>5 DEF SlotsKept
  <2>7. \A t \in Slots : ctx'[t].rings = ctx[t].rings /\ ctx'[t].xhciAddr = ctx[t].xhciAddr
    BY <1>7, <2>3, <2>5
  <2>8. /\ \A t \in Slots \ {s} : ctx'[t].busAddr = IF Wiped(t) THEN 0 ELSE ctx[t].busAddr
        /\ ctx'[s].busAddr = Given
    BY <1>7, <2>3, <2>5
  <2> QED  BY <1>1, <1>2, <1>3, <1>4, <1>5, <1>11, <2>1, <2>5, <2>6, <2>7, <2>8 DEF s
<1> QED  BY <1>9, <1>10, <1>11

LEMMA CancelTypes ==
  ASSUME Core, NEW u, Cancel(u)
  PROVE  urbs' \subseteq TransferList
BY DEF Core, TypeOK, DriverOK, Cancel

LEMMA StartsTyped ==
  ASSUME NEW p \in Places, NEW known \in BOOLEAN, StartReset(p, known)
  PROVE  enum' \in Enumerations /\ enum'.at = "reset" /\ enum'.place = p
BY DEF StartReset, Enumerations, Configuring

\* Each step keeps the tables in order.
LEMMA CoreStep ==
  ASSUME Core, [Next]_vars
  PROVE  Core'
<1>0. TypeOK /\ BusOK /\ BoundOK /\ urbs \subseteq TransferList
  BY DEF Core, TypeOK, DriverOK
<1>00. call.at = "idle" => call = [at |-> "idle"]
  BY PollOrIdle DEF Core, TypeOK
<1>000. upsets \in 0 .. MaxUpsets
  BY <1>0 DEF BoundOK
<1>1. CASE UNCHANGED vars
  <2>1. UNCHANGED <<plug, port, answers, hw, ctx, urbs, call, bus, ready, hubs, enum, upsets, stuck, botched>>
    BY <1>1 DEF vars, world, driver, usbbus, history
  <2>2. TypeOK'
    BY <2>1 DEF Core, TypeOK, WorldOK, DriverOK, BusOK, BoundOK
  <2>3. SlotsKept /\ CallStill /\ AnswersKept
    BY <2>1 DEF SlotsKept, CallStill, AnswersKept
  <2> QED  BY <2>2, <2>3, CoreKept
<1>2. CASE \E p \in Places : \E k \in Kinds[p] : Attach(p, k)
  BY <1>2, AttachCore
<1>3. CASE \E p \in Places : Detach(p) \/ PortError(p)
  BY <1>3, DetachCore, PortErrorCore
<1>4. CASE PollStep
  BY <1>4, DisableOldCore, EndPollCore, IdleRoundCore, EnableCore, AddressCore, UndoSlotCore
  DEF PollStep
<1>5. CASE \E p \in Places : BusPolls(p)
  <2>1. PICK p \in Places : BusPolls(p)
    BY <1>5
  <2>2. enum' = [at |-> "polled", place |-> p]
    BY <2>1 DEF BusPolls
  <2>3. enum' \in Enumerations /\ enum'.at = "polled" /\ enum'.place = p
    BY <2>2 DEF Enumerations
  <2>4. PollPort(p) /\ UNCHANGED <<bus, ready, hubs>>
    BY <2>1 DEF BusPolls
  <2> QED  BY <2>3, <2>4, PollPortCore
<1>6. CASE BusLearns
  <2>1. /\ enum' = [at |-> "remove", place |-> enum.place, connected |-> call.connected,
                    todo |-> {u \in urbs : \E p \in Below(enum.place) : u.addr = bus[p]}]
        /\ call' = [at |-> "idle"]
        /\ UNCHANGED <<plug, port, answers, hw, ctx, urbs, bus, ready, hubs, upsets, stuck, botched>>
        /\ call.at = "done"
    BY <1>6 DEF BusLearns, world, driver, history
  <2>2. enum.place \in Places /\ call.connected \in BOOLEAN
    BY <2>1, PollOrIdle, PollFields DEF Core, Calls, TypeOK
  <2>3. enum' \in Enumerations
    BY <1>0, <2>1, <2>2 DEF Enumerations
  <2>4. BusOK'
    BY <1>0, <2>1, <2>3 DEF BusOK
  <2> QED  BY <1>0, <1>000, <2>1, <2>4, BusCore
<1>7. CASE BusCancels
  <2>1. PICK u \in enum.todo : Cancel(u) /\ enum' = [enum EXCEPT !.todo = @ \ {u}]
    BY <1>7 DEF BusCancels
  <2>2. /\ UNCHANGED <<plug, port, answers, hw, ctx, call, bus, ready, hubs, upsets, stuck, botched>>
        /\ call.at = "idle" /\ enum.at = "remove"
    BY <1>7 DEF BusCancels, world, history, Enumerating
  <2>3. enum \in [at : {"remove"}, place : Places, connected : BOOLEAN, todo : SUBSET TransferList]
    BY <1>0, <2>2 DEF BusOK, Enumerations, Configuring
  <2>4. enum' \in Enumerations
    BY <2>1, <2>3 DEF Enumerations
  <2>5. BusOK'
    BY <1>0, <2>2, <2>4 DEF BusOK
  <2> QED  BY <1>00, <1>000, <2>1, <2>2, <2>5, BusCore, CancelTypes
<1>8. CASE BusReleases
  <2>1. /\ UNCHANGED <<plug, port, answers, hw, ctx, urbs, call, upsets, stuck, botched>>
        /\ call.at = "idle" /\ enum.at = "remove"
        /\ bus' = [p \in Places |-> IF p \in Below(enum.place) THEN 0 ELSE bus[p]]
        /\ ready' = ready \ Below(enum.place) /\ hubs' = hubs \ Below(enum.place)
        /\ IF enum.connected THEN StartReset(enum.place, FALSE) ELSE GiveUp
    BY <1>8 DEF BusReleases, world, driver, history, Enumerating
  <2>2. enum.place \in Places
    BY <1>0, <2>1, EnumFields
  <2>3. enum' \in Enumerations
    BY <2>1, <2>2, StartsTyped, EnumStops
  <2>4. BusOK'
    BY <1>0, <2>1, <2>3 DEF BusOK
  <2> QED  BY <1>0, <1>00, <1>000, <2>1, <2>4, BusCore
<1>9. CASE BusResets
  <2>1. /\ UNCHANGED <<plug, hw, ctx, urbs, call, bus, ready, hubs, upsets, stuck, botched>>
        /\ call.at = "idle" /\ enum.at = "reset"
    BY <1>9 DEF BusResets, driver, history, Enumerating
  <2>2. enum.place \in Places
    BY <1>0, <2>1, EnumFields
  <2> DEFINE own == [enabled |-> TRUE, changes |-> port[enum.place].changes \cup {"reset"}]
  <2>3. \/ Goto("await") /\ UNCHANGED <<port, answers>>
        \/ Goto("await") /\ Silence(enum.place, own)
        \/ GiveUp /\ UNCHANGED <<port, answers>>
    BY <1>9 DEF BusResets
  <2>4. own \in Ports
    BY <1>0, <2>2, PortFields DEF Ports
  <2> HIDE DEF own
  <2>5. enum' \in Enumerations
    BY <1>0, <2>1, <2>3, EnumGoes, EnumStops DEF Configuring
  <2>6. BusOK'
    BY <1>0, <2>1, <2>5 DEF BusOK
  <2>7. CASE UNCHANGED <<port, answers>>
    BY <1>0, <1>00, <1>000, <2>1, <2>6, <2>7, BusCore
  <2>8. CASE Silence(enum.place, own)
    <3>1. CallStill /\ call' \in Polls \cup {[at |-> "idle"]}
      BY <1>00, <2>1 DEF CallStill
    <3>2. plug' \in [Places -> Devices] /\ upsets' \in 0 .. MaxUpsets
      BY <1>0, <1>000, <2>1 DEF TypeOK, WorldOK
    <3> QED  BY <2>1, <2>2, <2>4, <2>5, <2>8, <3>1, <3>2, SilenceCore
  <2> QED  BY <2>3, <2>7, <2>8
<1>10. CASE BusAwaits
  <2>1. call.at = "idle" /\ enum.at = "await" /\ UNCHANGED <<bus, ready, hubs>>
    BY <1>10 DEF BusAwaits, Enumerating
  <2>2. enum.place \in Places
    BY <1>0, <2>1, EnumFields
  <2>3. CASE PollPort(enum.place) /\ Goto("await")
    <3>1. enum' \in Enumerations /\ enum'.at = "await" /\ enum'.place = enum.place
      BY <1>0, <2>1, <2>3, EnumGoes DEF Configuring
    <3> QED  BY <2>1, <2>2, <2>3, <3>1, PollPortCore
  <2>4. CASE GiveUp /\ UNCHANGED <<world, hw, driver, call, upsets, history>>
    <3>1. BusOK'
      BY <1>0, <2>1, <2>4, EnumStops DEF BusOK
    <3>2. UNCHANGED <<plug, port, answers, hw, ctx, urbs, call, upsets, stuck, botched>>
      BY <2>4 DEF world, driver, history
    <3> QED  BY <1>0, <1>00, <1>000, <2>1, <3>1, <3>2, BusCore
  <2> QED  BY <1>10, <2>3, <2>4 DEF BusAwaits
<1>11. CASE BusReset
  <2>1. /\ UNCHANGED <<plug, port, answers, hw, ctx, urbs, bus, ready, hubs, upsets, stuck, botched>>
        /\ enum.at = "await" /\ (Goto("address") \/ GiveUp) /\ call' = [at |-> "idle"]
    BY <1>11 DEF BusReset, world, driver, history
  <2>2. enum' \in Enumerations
    BY <1>0, <2>1, EnumGoes, EnumStops DEF Configuring
  <2>3. BusOK'
    BY <1>0, <2>1, <2>2 DEF BusOK
  <2> QED  BY <1>0, <1>000, <2>1, <2>3, BusCore
<1>12. CASE SetAddress
  <2>1. /\ enum.at = "address" /\ call.at = "idle" /\ enum.place \in Places
        /\ bus' = [bus EXCEPT ![enum.place] = Given] /\ Given \in Addresses \cup {0}
        /\ UNCHANGED <<plug, port, answers, hw, urbs, call, ready, hubs, upsets, stuck, botched>>
        /\ ctx' \in [Slots -> Entries] /\ SlotsKept
        /\ GiveUp \/ Goto("config") \/ Goto("describe")
    BY <1>12, SetAddressEffect
  <2>2. enum' \in Enumerations
    BY <1>0, <2>1, EnumGoes, EnumStops DEF Configuring
  <2>3. TypeOK'
    BY <2>1, <2>2 DEF Core, TypeOK, WorldOK, DriverOK, BusOK, BoundOK
  <2>4. CallStill /\ AnswersKept
    BY <1>00, <2>1 DEF CallStill, AnswersKept
  <2> QED  BY <2>1, <2>3, <2>4, CoreKept
<1>13. ASSUME NEW s, Tunes(s), upsets' \in 0 .. MaxUpsets, enum' \in Enumerations, call.at = "idle",
              UNCHANGED <<plug, port, answers, urbs, call, bus, ready, stuck, botched>>,
              hubs' \subseteq Places
       PROVE  Core'
  <2>1. TypeOK'
    BY <1>13 DEF Core, TypeOK, WorldOK, DriverOK, BusOK, BoundOK, Tunes
  <2>2. SlotsKept /\ CallStill /\ AnswersKept
    BY <1>00, <1>13 DEF Tunes, CallStill, AnswersKept
  <2> QED  BY <2>1, <2>2, CoreKept
<1>14. CASE GetDeviceDescriptor
  <2>1. /\ UNCHANGED <<plug, port, answers, urbs, call, bus, ready, hubs, stuck, botched>>
        /\ call.at = "idle" /\ enum.at = "describe" /\ (Goto("config") \/ GiveUp)
    BY <1>14 DEF GetDeviceDescriptor, world, history, Asks, Enumerating, Proceed
  <2>2. enum' \in Enumerations
    BY <1>0, <2>1, EnumGoes, EnumStops DEF Configuring
  <2>3. hubs' \subseteq Places
    BY <1>0, <2>1 DEF BusOK
  <2> QED  BY <1>13, <1>14, <2>1, <2>2, <2>3, DescriptorTunes
<1>15. CASE SetConfig
  <2>1. /\ UNCHANGED <<plug, port, answers, urbs, call, bus, ready, hubs, stuck, botched>>
        /\ call.at = "idle"
    BY <1>15 DEF SetConfig, world, history, Asks, Enumerating
  <2>2. enum' \in Enumerations
    BY <1>0, <1>15, SetConfigTunes, EnumGoes, EnumStops DEF Configuring
  <2>3. hubs' \subseteq Places
    BY <1>0, <2>1 DEF BusOK
  <2> QED  BY <1>13, <1>15, <2>1, <2>2, <2>3, SetConfigTunes
<1>16. CASE ConfigHub
  <2>1. /\ UNCHANGED <<plug, port, answers, urbs, call, bus, ready, stuck, botched>>
        /\ call.at = "idle"
    BY <1>16 DEF ConfigHub, world, driver, history, Asks, Enumerating
  <2>2. enum' \in Enumerations
    BY <1>0, <1>16, ConfigHubTunes, EnumGoes, EnumStops DEF Configuring
  <2>3. hubs' \subseteq Places
    BY <1>0, <1>16, ConfigHubTunes, EnumFields DEF BusOK
  <2> QED  BY <1>13, <1>16, <2>1, <2>2, <2>3, ConfigHubTunes
<1>17. CASE BusStarts
  <2>1. /\ UNCHANGED <<plug, port, answers, hw, ctx, urbs, call, bus, hubs, upsets, stuck, botched>>
        /\ call.at = "idle" /\ enum.at = "start" /\ GiveUp /\ ready' = ready \cup {enum.place}
    BY <1>17 DEF BusStarts, world, driver, history, Enumerating
  <2>2. enum.place \in Places
    BY <1>0, <2>1, EnumFields
  <2>3. BusOK'
    BY <1>0, <2>1, <2>2, EnumStops DEF BusOK
  <2> QED  BY <1>0, <1>00, <1>000, <2>1, <2>3, BusCore
<1>18. CASE BusAbandons
  <2>1. /\ UNCHANGED <<plug, port, answers, hw, ctx, urbs, call, bus, ready, hubs, upsets, stuck, botched>>
        /\ call.at = "idle" /\ GiveUp
    BY <1>18 DEF BusAbandons, world, driver, history, Enumerating
  <2>2. BusOK'
    BY <1>0, <2>1, EnumStops DEF BusOK
  <2> QED  BY <1>0, <1>00, <1>000, <2>1, <2>2, BusCore
<1>19. ASSUME NEW p \in Places, Subscribe(p)
       PROVE  Core'
  <2>1. /\ UNCHANGED <<plug, port, answers, hw, ctx, call, bus, ready, hubs, enum, upsets, stuck, botched>>
        /\ call.at = "idle"
        /\ LET s == BusDevAddrToSlotId(bus[p])
           IN  s # 0 /\ urbs' = urbs \cup {[addr |-> bus[p], slot |-> s, ring |-> "own"]}
    BY <1>19 DEF Subscribe, world, usbbus, history, Using, Enumerating
  <2> DEFINE u == [addr |-> bus[p], slot |-> BusDevAddrToSlotId(bus[p]), ring |-> "own"]
  <2>2. BusDevAddrToSlotId(bus[p]) \in Slots
    BY <2>1, ByAddress
  <2>3. bus[p] \in Addresses \cup {0}
    BY <1>0 DEF BusOK
  <2>4. u \in TransferList
    BY <2>2, <2>3 DEF TransferList
  <2>5. urbs' \subseteq TransferList
    BY <1>0, <2>1, <2>4
  <2>6. BusOK'
    BY <1>0, <2>1 DEF BusOK
  <2> QED  BY <1>00, <1>000, <2>1, <2>5, <2>6, BusCore
<1>20. ASSUME NEW p \in Places, Unsubscribe(p)
       PROVE  Core'
  <2>1. /\ UNCHANGED <<plug, port, answers, hw, ctx, call, bus, ready, hubs, enum, upsets, stuck, botched>>
        /\ call.at = "idle" /\ \E u \in Subscribed(p) : Cancel(u)
    BY <1>20 DEF Unsubscribe, world, usbbus, history, Using, Enumerating
  <2>2. BusOK'
    BY <1>0, <2>1 DEF BusOK
  <2> QED  BY <1>00, <1>000, <2>1, <2>2, BusCore, CancelTypes
<1>21. ASSUME NEW p \in Places, ClassReset(p)
       PROVE  Core'
  <2>1. /\ UNCHANGED <<plug, port, answers, hw, ctx, urbs, call, bus, hubs, stuck, botched>>
        /\ call.at = "idle" /\ Upset /\ StartReset(p, TRUE) /\ ready' = ready \ {p}
    BY <1>21 DEF ClassReset, world, driver, history, Using, Enumerating
  <2>2. BusOK'
    BY <1>0, <2>1, StartsTyped DEF BusOK
  <2>3. upsets' \in 0 .. MaxUpsets
    BY <1>0, <2>1, UpsetCounts
  <2> QED  BY <1>0, <1>00, <2>1, <2>2, <2>3, BusCore
<1>22. ASSUME NEW p \in Places, NEW alt \in Alternates, SetInterface(p, alt)
       PROVE  Core'
  <2>1. /\ UNCHANGED <<plug, port, answers, urbs, call, bus, ready, hubs, enum, stuck, botched>>
        /\ call.at = "idle"
    BY <1>22 DEF SetInterface, world, usbbus, history, Using, Enumerating
  <2>2. hubs' \subseteq Places /\ enum' \in Enumerations
    BY <1>0, <2>1 DEF BusOK
  <2> QED  BY <1>13, <1>22, <2>1, <2>2, SetInterfaceTunes
<1>23. CASE \E p \in Places : Subscribe(p) \/ Unsubscribe(p) \/ ClassReset(p)
  BY <1>19, <1>20, <1>21, <1>23
<1> QED
  BY <1>1, <1>2, <1>3, <1>4, <1>5, <1>6, <1>7, <1>8, <1>9, <1>10, <1>11, <1>12, <1>14,
     <1>15, <1>16, <1>17, <1>18, <1>22, <1>23
  DEF Next

LEMMA CoreInit == Init => Core
<1> SUFFICES ASSUME Init PROVE Core
  OBVIOUS
<1>1. \A s \in Slots : ctx[s] = BlankEntry /\ hw[s] = SlotOff
  BY DEF Init
<1>2. BlankEntry \in Entries /\ ~BlankEntry.enabled
  BY DEF BlankEntry, Entries, Charts, Alternates
<1>3. TypeOK
  <2>1. ctx \in [Slots -> Entries] /\ hw \in [Slots -> SlotContexts]
    BY <1>2, ChipOff DEF Init
  <2>2. [at |-> "idle"] \in Enumerations /\ QuietPort \in Ports /\ None \in Devices
    BY DEF Enumerations, QuietPort, Ports, Devices
  <2>3. plug \in [Places -> Devices] /\ port \in [Places -> Ports] /\ answers \in [Places -> Slots \cup {0}]
    BY <2>2 DEF Init
  <2>4. WorldOK
    BY <2>3 DEF WorldOK, Ports
  <2>5. DriverOK
    BY <2>1 DEF Init, DriverOK
  <2>6. BusOK
    BY <2>2 DEF Init, BusOK
  <2>7. BoundOK
    <3>1. upsets = 0 /\ stuck = {} /\ botched = FALSE
      BY DEF Init
    <3>2. upsets \in 0 .. MaxUpsets
      BY <3>1, BoundAssumption
    <3> QED  BY <3>1, <3>2 DEF BoundOK
  <2> QED
    BY <2>4, <2>5, <2>6, <2>7 DEF TypeOK
<1>4. \A s \in Slots : ~Live(s)
  BY <1>1, <1>2 DEF Live
<1>5. OneSlotPerPlace /\ Placed /\ Rooted
  BY <1>4 DEF OneSlotPerPlace, Placed, Rooted, At
<1>6. Calls /\ ~Polling
  BY DEF Init, Calls, Polling
<1>7. Answering
  BY DEF Init, Answering
<1> QED  BY <1>3, <1>5, <1>6, <1>7 DEF Core

\* Every variable has its type, whatever is attached and whatever fails.
THEOREM TypeCorrect == Spec => []TypeOK
<1>1. Core /\ [Next]_vars => Core'
  BY CoreStep
<1>2. Core => TypeOK
  BY DEF Core
<1> QED  BY <1>1, <1>2, CoreInit, PTL DEF Spec

\* XhcRouteStringToSlotId takes the first entry on a route for the only one, and
\* it is: at most one slot in use stands for a place, however often
\* XhcPollPortStatusChange tries again and whichever commands fail.
THEOREM PlacesUnique == Spec => []OneSlotPerPlace
<1>1. Core /\ [Next]_vars => Core'
  BY CoreStep
<1>2. Core => OneSlotPerPlace
  BY DEF Core
<1> QED  BY <1>1, <1>2, CoreInit, PTL DEF Spec

-----------------------------------------------------------------------------
(* Slots in step with the tree.                                              *)

\* A device at p, or a change in or above p that UsbBus has not seen yet.
Told(p) == plug[p] # None \/ \E q \in Places : p \in Below(q) /\ port[q].changes # {}

Held ==
  /\ \A s \in Slots \ stuck, p \in Places : At(s, p) =>
       Told(p) \/ (call.at = "old" /\ p \in Below(enum.place))
  /\ Polling /\ call.up => Told(enum.place)

\* A slot below a place has a slot at every hub on the way.
LEMMA SlotsAbove ==
  ASSUME Core, NEW p \in Places, NEW q \in Below(p), NEW s \in Slots, At(s, q)
  PROVE  \E t \in Slots : At(t, p)
<1> DEFINE S == {r \in Places : \E t \in Slots : At(t, r)}
<1>1. q \in Places
  BY DEF Below
<1>2. q \in S
  BY <1>1
<1>3. ASSUME NEW r \in Places \cap S, ~IsRoot(r)
      PROVE  Hub(r) \in S
  <2>1. PICK t \in Slots : At(t, r)
    OBVIOUS
  <2>2. HasHub(r)
    BY <2>1 DEF Core, Rooted
  <2>3. Hub(r) \in Places
    BY <1>3, HubShape
  <2> QED  BY <1>3, <2>2, <2>3 DEF HasHub
<1> HIDE DEF S
<1>4. p \in S
  BY <1>1, <1>2, <1>3, TreeUp
<1> QED  BY <1>4 DEF S

LEMMA HeldKept ==
  ASSUME Core, Held, SlotsKept, \A q \in Places : Told(q) => Told(q)', stuck \subseteq stuck',
         call.at # "old" \/ (call' = call /\ enum' = enum),
         Polling' => Polling /\ call'.up = call.up /\ enum' = enum
  PROVE  Held'
<1>1. ASSUME NEW s \in Slots \ stuck', NEW p \in Places, At(s, p)'
      PROVE  Told(p)' \/ (call'.at = "old" /\ p \in Below(enum'.place))
  <2>1. At(s, p) /\ s \notin stuck
    BY <1>1, KeptAt
  <2>2. Told(p) \/ (call.at = "old" /\ p \in Below(enum.place))
    BY <2>1 DEF Held
  <2> QED  BY <2>2
<1>2. ASSUME Polling', call'.up
      PROVE  Told(enum.place)'
  <2>1. Told(enum.place) /\ enum.place \in Places
    BY <1>2 DEF Held, Core, Calls, Polling
  <2>2. \A q \in Places : q = enum.place => Told(q)'
    BY <2>1
  <2> QED  BY <1>2, <2>1, <2>2 DEF Told
<1>3. \A s \in Slots \ stuck', p \in Places : At(s, p)' =>
        Told(p)' \/ (call'.at = "old" /\ p \in Below(enum'.place))
  BY <1>1
<1> QED  BY <1>2, <1>3 DEF Held, Below

LEMMA ToldStays ==
  ASSUME UNCHANGED <<plug, port>>
  PROVE  \A q \in Places : Told(q) => Told(q)'
BY DEF Told, Below

LEMMA ToldSilence ==
  ASSUME Core, NEW p \in Places, NEW own \in Ports, Silence(p, own), own.changes # {},
         \A q \in Places : q \notin Below(p) => plug'[q] = plug[q]
  PROVE  \A q \in Places : Told(q) => Told(q)'
<1> SUFFICES ASSUME NEW q \in Places, Told(q)
             PROVE  plug'[q] # None \/ \E r \in Places : q \in Below(r) /\ port'[r].changes # {}
  BY DEF Told, Below
<1>1. port'[p] = own /\ \A r \in Places \ Below(p) : port'[r] = port[r]
  BY SilenceTypes DEF Core
<1>2. CASE q \in Below(p)
  BY <1>1, <1>2
<1>3. CASE q \notin Below(p)
  <2>1. CASE plug[q] # None
    BY <1>3, <2>1
  <2>2. CASE \E r \in Places : q \in Below(r) /\ port[r].changes # {}
    <3>1. PICK r \in Places : q \in Below(r) /\ port[r].changes # {}
      BY <2>2
    <3>2. r \notin Below(p)
      BY <1>3, <3>1, BelowOrder
    <3> QED  BY <1>1, <3>1, <3>2
  <2> QED  BY <2>1, <2>2 DEF Told
<1> QED  BY <1>2, <1>3

\* A poll takes the change away; the slots of the place are next to be disabled.
LEMMA HeldPoll ==
  ASSUME Core, Held, call.at = "idle", NEW p \in Places, PollPort(p), enum'.place = p
  PROVE  Held'
<1>1. /\ call'.up = (port[p].enabled /\ plug[p] # None)
      /\ call'.at = IF SlotsOn(Route[p]) # {} THEN "old" ELSE "attempt"
      /\ \A q \in Places \ {p} : port'[q] = port[q]
      /\ UNCHANGED <<plug, hw, ctx, stuck>>
  BY PollStarts
<1>2. \A q \in Places : q \notin Below(p) /\ Told(q) => Told(q)'
  <2> SUFFICES ASSUME NEW q \in Places, q \notin Below(p), Told(q)
               PROVE  plug'[q] # None \/ \E r \in Places : q \in Below(r) /\ port'[r].changes # {}
    BY DEF Told, Below
  <2>1. CASE plug[q] # None
    BY <1>1, <2>1
  <2>2. CASE \E r \in Places : q \in Below(r) /\ port[r].changes # {}
    <3>1. PICK r \in Places : q \in Below(r) /\ port[r].changes # {}
      BY <2>2
    <3> QED  BY <1>1, <3>1
  <2> QED  BY <2>1, <2>2 DEF Told
<1>3. ASSUME NEW s \in Slots \ stuck', NEW q \in Places, At(s, q)'
      PROVE  Told(q)' \/ (call'.at = "old" /\ q \in Below(p))
  <2>1. At(s, q) /\ s \notin stuck
    BY <1>1, <1>3 DEF At, Live, Route
  <2>2. CASE q \in Below(p)
    <3>1. \E t \in Slots : At(t, p)
      BY <2>1, <2>2, SlotsAbove
    <3>2. call'.at = "old"
      BY <1>1, <3>1, SlotsThere
    <3> QED  BY <2>2, <3>2
  <2>3. CASE q \notin Below(p)
    BY <1>2, <2>1, <2>3 DEF Held
  <2> QED  BY <2>2, <2>3
<1>4. call'.up => Told(enum.place)'
  BY <1>1 DEF Told
<1> QED  BY <1>3, <1>4 DEF Held, Below

LEMMA HeldDisable ==
  ASSUME Core, Held, call.at \in {"old", "undo"}, NEW s \in Slots, At(s, enum.place),
         NEW failed \in SUBSET Subtree(s), NEW executed \in SUBSET failed,
         DisableSlot(s, failed, executed),
         SamePoll, call'.at \in {"attempt", "done"},
         UNCHANGED <<plug, port, enum>>
  PROVE  Held'
<1> DEFINE p == enum.place
<1>1. p \in Places
  BY DEF Core, Calls
<1>2. DriverOK /\ WorldOK /\ BoundOK /\ OneSlotPerPlace /\ Placed /\ Rooted
  BY DEF Core, TypeOK
<1>3. At(s, p)
  OBVIOUS
<1>4. \A q \in Places : Told(q) => Told(q)'
  BY ToldStays
<1> HIDE DEF p
<1>5. ASSUME NEW t \in Slots \ stuck', NEW q \in Places, At(t, q)'
      PROVE  Told(q)'
  <2>1. Live(t)'
    BY <1>5 DEF At
  <2>2. Live(t) /\ ctx'[t] = ctx[t] /\ (t \in stuck => t \in stuck')
    BY <1>1, <1>2, <1>3, <2>1, DisableEffect
  <2>3. ~Reach(t, p)
    <3>1. Reach(t, p) => ~Live(t)' \/ t \in stuck'
      BY <1>1, <1>2, <1>3, DisableEffect
    <3> QED  BY <2>1, <3>1
  <2>4. At(t, q) /\ q \notin Below(p)
    BY <1>5, <2>2, <2>3 DEF At, Route, Reach
  <2>5. Told(q)
    BY <2>2, <2>4 DEF Held, p
  <2> QED  BY <1>4, <2>5
<1>6. ASSUME Polling', call'.up
      PROVE  Told(enum.place)'
  <2>1. Told(p)
    BY <1>6 DEF Held, Polling, SamePoll, p
  <2>2. \A q \in Places : q = p => Told(q)'
    BY <1>4, <2>1
  <2> QED  BY <1>1, <2>2 DEF Told, p
<1>7. \A t \in Slots \ stuck', q \in Places : At(t, q)' => Told(q)'
  BY <1>5
<1> QED  BY <1>6, <1>7 DEF Held

LEMMA HeldEnable ==
  ASSUME Core, Held, EnableSlot, NEW s \in Slots, EnableTakes(s)
  PROVE  Held'
<1>1. /\ UNCHANGED <<plug, port, enum>>
      /\ \A t \in Slots \ {s} : ctx'[t] = ctx[t]
      /\ SamePoll /\ call'.at = "address" /\ call.at = "attempt" /\ call.up
      /\ stuck' = stuck \ {s}
  BY EnableCases, TakenEffect DEF EnableTakes
<1>2. Core' /\ enum.place \in Places
  BY <1>1, EnableCore DEF Core, Calls
<1>3. Told(enum.place)
  BY <1>1 DEF Held, Polling
<1>4. \A q \in Places : Told(q) => Told(q)'
  BY <1>1, ToldStays
<1>5. ctx'[s].route = Route[enum.place]
  <2>1. ctx'[s] = NewEntry(s) /\ call.chart = Route[enum.place]
    BY <1>1, TakenEffect DEF Core, Calls
  <2> QED  BY <1>1, <2>1, FreshEntry
<1>6. ASSUME NEW t \in Slots \ stuck', NEW q \in Places, At(t, q)'
      PROVE  Told(q)'
  <2>1. CASE t = s
    <3>1. q = enum.place
      BY <1>2, <1>5, <1>6, <2>1, RouteTells DEF At, Route
    <3> QED  BY <1>3, <1>4, <3>1
  <2>2. CASE t # s
    <3>1. At(t, q) /\ t \notin stuck
      BY <1>1, <1>6, <2>2 DEF At, Live, Route
    <3> QED  BY <1>1, <1>4, <3>1 DEF Held
  <2> QED  BY <2>1, <2>2
<1>7. Told(enum.place)'
  <2>1. \A q \in Places : q = enum.place => Told(q)'
    BY <1>3, <1>4
  <2> QED  BY <1>1, <1>2, <2>1 DEF Told
<1>8. \A t \in Slots \ stuck', q \in Places : At(t, q)' => Told(q)'
  BY <1>6
<1> QED  BY <1>7, <1>8 DEF Held

-----------------------------------------------------------------------------
(* The steps of the system, sorted by what they may disturb.                 *)

\* The two steps that disable a slot, whichever commands fail.
LEMMA Disables ==
  ASSUME Core, DisableOld \/ UndoSlot
  PROVE  /\ \E s \in Slots : \E failed \in SUBSET Subtree(s) : \E executed \in SUBSET failed :
              At(s, enum.place) /\ DisableSlot(s, failed, executed)
         /\ call.at \in {"old", "undo"} /\ SamePoll /\ call'.at \in {"attempt", "done"}
         /\ call' \in Polls
         /\ DisableOld => call.at = "old" /\ call'.at = "attempt"
         /\ UndoSlot => call.at = "undo"
         /\ UNCHANGED <<plug, port, bus, ready, hubs, enum>>
<1>1. CASE DisableOld
  <2>1. call.at = "old" /\ UNCHANGED <<plug, port, bus, ready, hubs, enum>>
    BY <1>1 DEF DisableOld, usbbus
  <2>2. call \in Polls
    BY <2>1, PollOrIdle DEF Core, TypeOK
  <2> DEFINE s == RouteStringToSlotId(call.chart)
  <2>3. s \in Slots /\ At(s, enum.place)
    BY <2>1, OldSlot
  <2>4. PICK failed \in SUBSET Subtree(s) : \E executed \in SUBSET failed :
             \E status \in Outcomes(s, failed, executed) :
               /\ DisableSlot(s, failed, executed)
               /\ call' = [call EXCEPT !.at = "attempt", !.status = status]
    BY <1>1, Zenon DEF DisableOld
  <2> HIDE DEF s
  <2>5. PICK executed \in SUBSET failed :
             \E status \in Outcomes(s, failed, executed) :
               /\ DisableSlot(s, failed, executed)
               /\ call' = [call EXCEPT !.at = "attempt", !.status = status]
    BY <2>4
  <2>6. PICK status \in Outcomes(s, failed, executed) :
               /\ DisableSlot(s, failed, executed)
               /\ call' = [call EXCEPT !.at = "attempt", !.status = status]
    BY <2>5
  <2>7. DisableSlot(s, failed, executed)
    BY <2>6, Zenon
  <2>8. call' \in Polls /\ SamePoll /\ call'.at = "attempt"
    BY <2>2, <2>6, OutcomeStatus, PollMoves DEF PollAts
  <2>9. ~UndoSlot
    BY <2>1 DEF UndoSlot
  <2> QED  BY <2>1, <2>3, <2>7, <2>8, <2>9
<1>2. CASE UndoSlot
  <2>1. call.at = "undo" /\ UNCHANGED <<plug, port, bus, ready, hubs, enum>>
    BY <1>2 DEF UndoSlot, usbbus
  <2>2. call \in Polls
    BY <2>1, PollOrIdle DEF Core, TypeOK
  <2> DEFINE s == call.slot
  <2>3. s \in Slots /\ At(s, enum.place)
    BY <2>1 DEF Core, Calls
  <2>4. PICK failed \in SUBSET Subtree(s) : \E executed \in SUBSET failed :
               DisableSlot(s, failed, executed)
    BY <1>2, Zenon DEF UndoSlot
  <2> HIDE DEF s
  <2>5. PICK executed \in SUBSET failed : DisableSlot(s, failed, executed)
    BY <2>4
  <2>6. call' \in Polls /\ SamePoll /\ call'.at \in {"attempt", "done"}
    BY <1>2, <2>2, PollRetries, PollFields DEF UndoSlot
  <2>7. ~DisableOld
    BY <2>1 DEF DisableOld
  <2> QED  BY <2>1, <2>3, <2>5, <2>6, <2>7
<1> QED  BY <1>1, <1>2

\* The end of a poll, or a round of it that sets up no slot.
RoundEnds ==
  /\ call.at = "attempt" /\ SamePoll /\ call'.at \in {"attempt", "done"}
  /\ UNCHANGED <<plug, port, answers, hw, ctx, urbs, bus, ready, hubs, enum, upsets, stuck, botched>>

LEMMA Rounds ==
  ASSUME Core, EndPoll \/ IdleRound
  PROVE  RoundEnds
<1>1. CASE EndPoll
  <2>1. call.at = "attempt" /\ call \in Polls
    BY <1>1, PollOrIdle DEF EndPoll, Core, TypeOK
  <2>2. call' \in Polls /\ SamePoll /\ call'.at = "done"
    BY <1>1, <2>1, PollGoes DEF EndPoll, PollAts
  <2> QED  BY <1>1, <2>1, <2>2 DEF RoundEnds, EndPoll, world, driver, usbbus, history
<1>2. CASE IdleRound
  <2>1. call.at = "attempt" /\ call \in Polls
    BY <1>2, PollOrIdle DEF IdleRound, Round, Core, TypeOK
  <2>2. call' \in Polls /\ SamePoll /\ call'.at \in {"attempt", "done"}
    BY <1>2, <2>1, PollRetries, PollFields DEF IdleRound
  <2> QED  BY <1>2, <2>1, <2>2 DEF RoundEnds, IdleRound, world, driver, usbbus, history
<1> QED  BY <1>1, <1>2

LEMMA Leaks ==
  ASSUME Core, EnableSlot, NEW st \in Statuses, EnableLeaks(st)
  PROVE  /\ call.at = "attempt" /\ SamePoll /\ call'.at \in {"attempt", "done"}
         /\ UNCHANGED <<plug, port, answers, ctx, urbs, bus, ready, hubs, enum, stuck, botched>>
         /\ \A t \in Slots : /\ hw[t].on => hw'[t] = hw[t]
                             /\ hw'[t].eps = hw[t].eps /\ hw'[t].tt = hw[t].tt /\ hw'[t].speed = hw[t].speed
         /\ SlotsKept
<1>1. UNCHANGED <<plug, port, answers, bus, ready, hubs, enum>>
  BY EnableCases
<1>2. call.at = "attempt" /\ call \in Polls
  BY PollOrIdle DEF EnableSlot, Round, Core, TypeOK
<1>3. call' \in Polls /\ SamePoll /\ call'.at \in {"attempt", "done"}
  BY <1>2, PollRetries DEF EnableLeaks
<1>4. \A t \in Slots : /\ hw[t].on => hw'[t] = hw[t]
                       /\ hw'[t].eps = hw[t].eps /\ hw'[t].tt = hw[t].tt /\ hw'[t].speed = hw[t].speed
  <2>1. hw \in [Slots -> SlotContexts]
    BY Tables
  <2>2. CASE UNCHANGED hw
    BY <2>2
  <2>3. CASE \E s \in Slots : ~hw[s].on /\ hw' = [hw EXCEPT ![s].on = TRUE]
    <3>1. PICK s \in Slots : ~hw[s].on /\ hw' = [hw EXCEPT ![s].on = TRUE]
      BY <2>3
    <3> DEFINE d == [hw[s] EXCEPT !.on = TRUE]
    <3>2. hw' = [hw EXCEPT ![s] = d]
      BY <3>1
    <3>3. d.eps = hw[s].eps /\ d.tt = hw[s].tt /\ d.speed = hw[s].speed
      BY <2>1, ChipOn
    <3> HIDE DEF d
    <3> QED  BY <2>1, <3>1, <3>2, <3>3
  <2> QED  BY <2>2, <2>3 DEF EnableLeaks
<1>5. SlotsKept
  BY <1>4 DEF SlotsKept, EnableLeaks
<1> QED  BY <1>1, <1>2, <1>3, <1>4, <1>5 DEF EnableLeaks

\* UsbBus and the class drivers, as far as they leave devices and slots alone.
Aside ==
  /\ call'.at = "idle" /\ call.at \in {"idle", "done"}
  /\ UNCHANGED <<plug, port, answers, hw, ctx, stuck, botched>>

LEMMA Asides ==
  ASSUME Core,
         \/ BusLearns \/ BusCancels \/ BusReleases \/ BusReset \/ BusStarts \/ BusAbandons
         \/ \E p \in Places : Subscribe(p) \/ Unsubscribe(p) \/ ClassReset(p)
  PROVE  Aside
<1>1. CASE BusLearns \/ BusReset
  BY <1>1 DEF BusLearns, BusReset, Aside, world, driver, history
<1>2. CASE BusCancels \/ BusReleases \/ BusStarts \/ BusAbandons
  BY <1>2 DEF BusCancels, BusReleases, BusStarts, BusAbandons, Aside, world, driver, history, Enumerating
<1>3. CASE \E p \in Places : Subscribe(p) \/ Unsubscribe(p) \/ ClassReset(p)
  BY <1>3 DEF Subscribe, Unsubscribe, ClassReset, Aside, world, driver, usbbus, history, Enumerating, Using
<1> QED  BY <1>1, <1>2, <1>3

\* A command about a configured device.
Tuning ==
  /\ call.at = "idle" /\ UNCHANGED <<plug, port, answers, urbs, call, bus, ready, stuck, botched>>
  /\ \E s \in Slots : Tunes(s)

LEMMA Tunings ==
  ASSUME Core,
         \/ GetDeviceDescriptor \/ SetConfig \/ ConfigHub
         \/ \E p \in Places, alt \in Alternates : SetInterface(p, alt)
  PROVE  Tuning
<1>1. CASE GetDeviceDescriptor
  BY <1>1, DescriptorTunes DEF GetDeviceDescriptor, Tuning, world, history, Asks, Enumerating, Tunes
<1>2. CASE SetConfig
  BY <1>2, SetConfigTunes DEF SetConfig, Tuning, world, history, Asks, Enumerating, Tunes
<1>3. CASE ConfigHub
  BY <1>3, ConfigHubTunes DEF ConfigHub, Tuning, world, driver, history, Asks, Enumerating, Tunes
<1>4. CASE \E p \in Places, alt \in Alternates : SetInterface(p, alt)
  <2>1. PICK p \in Places, alt \in Alternates : SetInterface(p, alt)
    BY <1>4
  <2>2. Tunes(BusDevAddrToSlotId(bus[p]))
    BY <2>1, SetInterfaceTunes
  <2>3. call.at = "idle" /\ UNCHANGED <<plug, port, answers, urbs, call, bus, ready, stuck, botched>>
    BY <2>1 DEF SetInterface, world, usbbus, history, Using, Enumerating
  <2> QED  BY <2>2, <2>3 DEF Tuning, Tunes
<1> QED  BY <1>1, <1>2, <1>3, <1>4

\* A poll of a place, asked for by either state of UsbBus.
PollOf(p) ==
  /\ call.at = "idle" /\ PollPort(p) /\ enum'.place = p /\ UNCHANGED <<bus, ready, hubs>>
  /\ \/ enum.at = "idle" /\ enum'.at = "polled"
     \/ enum.at = "await" /\ enum.place = p /\ enum'.at = "await"

LEMMA Polled ==
  ASSUME Core, BusAwaits \/ \E p \in Places : BusPolls(p)
  PROVE  (\E p \in Places : PollOf(p)) \/ (BusAwaits /\ Aside /\ GiveUp /\ UNCHANGED <<call, urbs, bus, ready, hubs>>)
<1>0. BusOK
  BY DEF Core, TypeOK
<1>1. ASSUME NEW p \in Places, BusPolls(p)
      PROVE  PollOf(p)
  BY <1>1 DEF BusPolls, PollOf, Enumerating
<1>2. CASE BusAwaits
  <2>1. call.at = "idle" /\ enum.at = "await" /\ UNCHANGED <<bus, ready, hubs>>
    BY <1>2 DEF BusAwaits, Enumerating
  <2>2. enum.place \in Places
    BY <1>0, <2>1, EnumFields
  <2>3. CASE PollPort(enum.place) /\ Goto("await")
    <3>1. enum'.at = "await" /\ enum'.place = enum.place
      BY <1>0, <2>1, <2>3, EnumGoes DEF Configuring
    <3> QED  BY <2>1, <2>2, <2>3, <3>1 DEF PollOf
  <2>4. CASE GiveUp /\ UNCHANGED <<world, hw, driver, call, upsets, history>>
    BY <1>2, <2>1, <2>4 DEF Aside, world, driver, history
  <2> QED  BY <1>2, <2>3, <2>4 DEF BusAwaits
<1> QED  BY <1>1, <1>2

\* A port is reset, or UsbBus gives the device up.
ResetEffect ==
  /\ call.at = "idle" /\ enum.at = "reset" /\ enum.place \in Places
  /\ UNCHANGED <<plug, hw, ctx, urbs, call, bus, ready, hubs, upsets, stuck, botched>>
  /\ \/ enum'.at = "await" /\ enum'.place = enum.place /\ plug[enum.place] = None /\ UNCHANGED <<port, answers>>
     \/ /\ enum'.at = "await" /\ enum'.place = enum.place /\ plug[enum.place] # None
        /\ IsRoot(enum.place) \/ Reaches(bus[Hub(enum.place)], Hub(enum.place))
        /\ Silence(enum.place, [enabled |-> TRUE, changes |-> port[enum.place].changes \cup {"reset"}])
     \/ GiveUp /\ UNCHANGED <<port, answers>>

LEMMA ResetCases ==
  ASSUME Core, BusResets
  PROVE  ResetEffect
<1>1. /\ UNCHANGED <<plug, hw, ctx, urbs, call, bus, ready, hubs, upsets, stuck, botched>>
      /\ call.at = "idle" /\ enum.at = "reset"
  BY DEF BusResets, driver, history, Enumerating
<1>2. BusOK
  BY DEF Core, TypeOK
<1>3. enum.place \in Places
  BY <1>1, <1>2, EnumFields
<1>4. Goto("await") => enum'.at = "await" /\ enum'.place = enum.place
  BY <1>1, <1>2, EnumGoes DEF Configuring
<1>5. \/ Goto("await") /\ plug[enum.place] = None /\ UNCHANGED <<port, answers>>
      \/ /\ Goto("await") /\ plug[enum.place] # None
         /\ IsRoot(enum.place) \/ Reaches(bus[Hub(enum.place)], Hub(enum.place))
         /\ Silence(enum.place, [enabled |-> TRUE, changes |-> port[enum.place].changes \cup {"reset"}])
      \/ GiveUp /\ UNCHANGED <<port, answers>>
  BY DEF BusResets
<1> QED  BY <1>1, <1>3, <1>4, <1>5 DEF ResetEffect

\* The steps of the system, as the proofs below look at them.
LEMMA Steps ==
  ASSUME Core, Next
  PROVE  \/ \E p \in Places : \E k \in Kinds[p] : Attach(p, k)
         \/ \E p \in Places : Detach(p) \/ PortError(p)
         \/ RoundEnds
         \/ DisableOld \/ UndoSlot
         \/ \E s \in Slots : EnableSlot /\ EnableTakes(s)
         \/ \E st \in Statuses : EnableSlot /\ EnableLeaks(st)
         \/ AddressDevice
         \/ \E p \in Places : PollOf(p)
         \/ Aside
         \/ BusResets
         \/ SetAddress
         \/ Tuning
<1>1. CASE PollStep
  BY <1>1, Rounds, EnableCases DEF PollStep
<1>2. CASE BusAwaits \/ \E p \in Places : BusPolls(p)
  BY <1>2, Polled
<1>3. CASE \/ BusLearns \/ BusCancels \/ BusReleases \/ BusReset \/ BusStarts \/ BusAbandons
           \/ \E p \in Places : Subscribe(p) \/ Unsubscribe(p) \/ ClassReset(p)
  BY <1>3, Asides
<1>4. CASE \/ GetDeviceDescriptor \/ SetConfig \/ ConfigHub
           \/ \E p \in Places, alt \in Alternates : SetInterface(p, alt)
  BY <1>4, Tunings
<1> QED  BY <1>1, <1>2, <1>3, <1>4 DEF Next

-----------------------------------------------------------------------------
(* Slots in step with the tree: each step.                                   *)

LEMMA HeldStep ==
  ASSUME Core, Held, [Next]_vars
  PROVE  Held'
<1>0. Core'
  BY CoreStep
<1>1. CASE UNCHANGED vars
  <2>1. UNCHANGED <<plug, port, hw, ctx, call, enum, stuck>>
    BY <1>1 DEF vars, world, driver, usbbus, history
  <2>2. SlotsKept
    BY <2>1 DEF SlotsKept
  <2> QED  BY <2>1, <2>2, ToldStays, HeldKept DEF Polling
<1>2. ASSUME NEW p \in Places, NEW k \in Kinds[p], Attach(p, k)
      PROVE  Held'
  <2>1. UNCHANGED <<hw, ctx, call, enum, stuck>> /\ plug' = [plug EXCEPT ![p] = k]
        /\ port' = [port EXCEPT ![p].changes = @ \cup {"connection"}]
    BY <1>2 DEF Attach, driver, usbbus, history
  <2>2. SlotsKept
    BY <2>1 DEF SlotsKept
  <2>3. plug \in [Places -> Devices] /\ port \in [Places -> Ports]
    BY DEF Core, TypeOK, WorldOK, Ports
  <2>4. port'[p].changes # {} /\ \A q \in Places \ {p} : port'[q] = port[q] /\ plug'[q] = plug[q]
    BY <2>1, <2>3 DEF Ports
  <2>5. \A q \in Places : Told(q) => Told(q)'
    <3> SUFFICES ASSUME NEW q \in Places, Told(q)
                 PROVE  plug'[q] # None \/ \E r \in Places : q \in Below(r) /\ port'[r].changes # {}
      BY DEF Told, Below
    <3>1. CASE q = p
      BY <2>4, <3>1, BelowOrder
    <3>2. CASE q # p /\ plug[q] # None
      BY <2>4, <3>2
    <3>3. CASE \E r \in Places : q \in Below(r) /\ port[r].changes # {}
      BY <2>4, <3>3
    <3> QED  BY <3>1, <3>2, <3>3 DEF Told
  <2> QED  BY <2>1, <2>2, <2>5, HeldKept DEF Polling
<1>3. ASSUME NEW p \in Places, NEW own \in Ports, Silence(p, own), own.changes # {},
             UNCHANGED <<hw, ctx, call, enum, stuck>>,
             \A q \in Places : q \notin Below(p) => plug'[q] = plug[q]
      PROVE  Held'
  <2>1. SlotsKept
    BY <1>3 DEF SlotsKept
  <2>2. \A q \in Places : Told(q) => Told(q)'
    BY <1>3, ToldSilence
  <2> QED  BY <1>3, <2>1, <2>2, HeldKept DEF Polling
<1>4. ASSUME NEW p \in Places, Detach(p) \/ PortError(p)
      PROVE  Held'
  <2>1. UNCHANGED <<hw, ctx, call, enum, stuck>>
    BY <1>4 DEF Detach, PortError, driver, usbbus, history
  <2>2. port[p] \in Ports
    BY PortFields DEF Core
  <2>3. CASE Detach(p)
    <3> DEFINE own == [enabled |-> FALSE, changes |-> port[p].changes \cup {"connection"}]
    <3>1. Silence(p, own) /\ \A q \in Places : q \notin Below(p) => plug'[q] = plug[q]
      BY <2>3 DEF Detach
    <3>2. own \in Ports /\ own.changes # {}
      BY <2>2 DEF Ports
    <3> HIDE DEF own
    <3> QED  BY <1>3, <2>1, <3>1, <3>2
  <2>4. CASE PortError(p)
    <3> DEFINE own == [enabled |-> FALSE, changes |-> port[p].changes \cup {"enable"}]
    <3>1. Silence(p, own) /\ UNCHANGED plug
      BY <2>4 DEF PortError
    <3>2. own \in Ports /\ own.changes # {}
      BY <2>2 DEF Ports
    <3> HIDE DEF own
    <3> QED  BY <1>3, <2>1, <3>1, <3>2
  <2> QED  BY <1>4, <2>3, <2>4
<1>5. CASE RoundEnds
  <2>1. SlotsKept
    BY <1>5 DEF RoundEnds, SlotsKept
  <2> QED  BY <1>5, <2>1, ToldStays, HeldKept DEF RoundEnds, SamePoll, Polling
<1>6. CASE DisableOld \/ UndoSlot
  BY <1>6, Disables, HeldDisable
<1>7. ASSUME NEW s \in Slots, EnableSlot, EnableTakes(s)
      PROVE  Held'
  BY <1>7, HeldEnable
<1>8. ASSUME NEW st \in Statuses, EnableSlot, EnableLeaks(st)
      PROVE  Held'
  BY <1>8, Leaks, ToldStays, HeldKept DEF SamePoll, Polling
<1>9. CASE AddressDevice
  <2>1. SlotsKept /\ SamePoll /\ call.at = "address"
    BY <1>9, AddressEffect, AddressCases
  <2>2. UNCHANGED <<plug, port, enum, stuck>>
    BY <1>9, AddressCases
  <2> QED  BY <2>1, <2>2, ToldStays, HeldKept DEF SamePoll, Polling
<1>10. ASSUME NEW p \in Places, PollOf(p)
       PROVE  Held'
  BY <1>10, HeldPoll DEF PollOf
<1>11. CASE Aside
  <2>1. SlotsKept
    BY <1>11 DEF Aside, SlotsKept
  <2> QED  BY <1>11, <2>1, ToldStays, HeldKept DEF Aside, Polling
<1>12. CASE BusResets
  <2>1. ResetEffect
    BY <1>12, ResetCases
  <2>2. SlotsKept
    BY <2>1 DEF ResetEffect, SlotsKept
  <2>3. \A q \in Places : Told(q) => Told(q)'
    <3>1. CASE UNCHANGED port
      BY <2>1, <3>1, ToldStays DEF ResetEffect
    <3> DEFINE p == enum.place
               own == [enabled |-> TRUE, changes |-> port[p].changes \cup {"reset"}]
    <3>2. CASE Silence(p, own)
      <4>1. p \in Places
        BY <2>1 DEF ResetEffect
      <4>2. own \in Ports /\ own.changes # {}
        BY <4>1, PortFields DEF Core, Ports
      <4>3. UNCHANGED plug
        BY <2>1 DEF ResetEffect
      <4> HIDE DEF own, p
      <4> QED  BY <3>2, <4>1, <4>2, <4>3, ToldSilence
    <3> QED  BY <2>1, <3>1, <3>2 DEF ResetEffect
  <2> QED  BY <2>1, <2>2, <2>3, HeldKept DEF ResetEffect, Polling
<1>13. CASE SetAddress
  <2>1. SlotsKept /\ UNCHANGED <<plug, port, call, stuck>> /\ call.at = "idle"
    BY <1>13, SetAddressEffect
  <2> QED  BY <2>1, ToldStays, HeldKept DEF Polling
<1>14. CASE Tuning
  <2>1. SlotsKept /\ UNCHANGED <<plug, port, call, stuck>> /\ call.at = "idle"
    BY <1>14 DEF Tuning, Tunes
  <2> QED  BY <2>1, ToldStays, HeldKept DEF Polling
<1> QED
  BY <1>1, <1>2, <1>4, <1>5, <1>6, <1>7, <1>8, <1>9, <1>10, <1>11, <1>12, <1>13, <1>14, Steps

LEMMA HeldInit == Init => Held
<1> SUFFICES ASSUME Init PROVE Held
  OBVIOUS
<1>1. \A s \in Slots : ctx[s] = BlankEntry
  BY DEF Init
<1>2. \A s \in Slots : ~Live(s)
  BY <1>1 DEF Live, BlankEntry
<1>3. ~Polling
  BY DEF Init, Polling
<1> QED  BY <1>2, <1>3 DEF Held, At

\* XhcPollPortStatusChange keeps the slots in step with the tree: no slot in use
\* without its hub's at any moment, also where XhcDisableSlotCmd fails for some of
\* them, and none without its device once UsbBus has seen every change.
THEOREM SlotsInStep == Spec => []SlotsFollowTree
<1>1. Core /\ Held /\ [Next]_vars => Core' /\ Held'
  BY CoreStep, HeldStep
<1>2. Core /\ Held => SlotsFollowTree
  <2> SUFFICES ASSUME Core, Held
               PROVE  SlotsFollowTree
    OBVIOUS
  <2>1. ASSUME NEW s \in Slots, Live(s), ctx[s].parent # <<>>
        PROVE  \E t \in Slots : Live(t) /\ ctx[t].route = ctx[s].parent
    <3>1. PICK p \in Places : At(s, p) /\ ctx[s].parent = ParentRoute(p)
      BY <2>1 DEF Core, Placed
    <3>2. ~IsRoot(p) /\ ctx[s].parent = Route[Hub(p)]
      BY <2>1, <3>1 DEF ParentRoute
    <3>3. \E t \in Slots : At(t, Hub(p))
      BY <3>1, <3>2 DEF Core, Rooted, HasHub
    <3> QED  BY <3>2, <3>3 DEF At
  <2>2. HubsOutliveDevices
    BY <2>1 DEF HubsOutliveDevices
  <2>3. ASSUME Quiet, NEW s \in Slots \ stuck, Live(s)
        PROVE  \E p \in Places : Route[p] = ctx[s].route /\ plug[p] # None
    <3>1. PICK p \in Places : At(s, p)
      BY <2>3 DEF Core, Placed
    <3>2. Told(p)
      BY <2>3, <3>1 DEF Held, Quiet
    <3>3. plug[p] # None
      BY <2>3, <3>2 DEF Told, Quiet
    <3> QED  BY <3>1, <3>3 DEF At
  <2>4. SlotsFollowPlugs
    BY <2>3 DEF SlotsFollowPlugs
  <2> QED  BY <2>2, <2>4 DEF SlotsFollowTree
<1> QED  BY <1>1, <1>2, CoreInit, HeldInit, PTL DEF Spec

-----------------------------------------------------------------------------
(* Running endpoints and their rings.                                        *)

\* A slot the controller has off holds nothing of the device before.
Blank == \A s \in Slots : ~hw[s].on => hw[s].tt = NoTT /\ \A e \in Eps : hw[s].eps[e] = "none"

RunningRings == \A s \in Slots, e \in Eps : hw[s].eps[e] = "running" => e \in ctx[s].rings

RingInv == Blank /\ RunningRings

LEMMA RingsSame ==
  ASSUME RingInv, UNCHANGED <<hw, ctx>>
  PROVE  RingInv'
BY DEF RingInv, Blank, RunningRings

LEMMA RingStep ==
  ASSUME Core, RingInv, [Next]_vars
  PROVE  RingInv'
<1>1. CASE UNCHANGED vars
  BY <1>1, RingsSame DEF vars, driver
<1>2. ASSUME NEW p \in Places, \/ \E k \in Kinds[p] : Attach(p, k)
                               \/ Detach(p) \/ PortError(p)
      PROVE  RingInv'
  <2>1. UNCHANGED <<hw, ctx>>
    BY <1>2 DEF Attach, Detach, PortError, driver
  <2> QED  BY <2>1, RingsSame
<1>3. CASE RoundEnds \/ Aside \/ \E p \in Places : PollOf(p)
  <2>1. UNCHANGED <<hw, ctx>>
    BY <1>3, PollStarts DEF RoundEnds, Aside, PollOf
  <2> QED  BY <2>1, RingsSame
<1>4. CASE DisableOld \/ UndoSlot
  <2>1. PICK s \in Slots : \E failed \in SUBSET Subtree(s) : \E executed \in SUBSET failed :
              At(s, enum.place) /\ DisableSlot(s, failed, executed)
    BY <1>4, Disables
  <2>2. enum.place \in Places
    BY <1>4, Disables DEF Core, Calls
  <2>3. DriverOK /\ WorldOK /\ BoundOK /\ OneSlotPerPlace /\ Placed /\ Rooted
    BY DEF Core, TypeOK
  <2>4. ASSUME NEW t \in Slots
        PROVE  hw'[t] = SlotOff \/ (hw'[t] = hw[t] /\ ctx'[t].rings = ctx[t].rings)
    BY <2>1, <2>2, <2>3, DisableEffect
  <2>5. ASSUME NEW t \in Slots
        PROVE  /\ ~hw'[t].on => hw'[t].tt = NoTT /\ \A e \in Eps : hw'[t].eps[e] = "none"
               /\ \A e \in Eps : hw'[t].eps[e] = "running" => e \in ctx'[t].rings
    <3>1. CASE hw'[t] = SlotOff
      BY <3>1, ChipOff
    <3>2. CASE hw'[t] = hw[t] /\ ctx'[t].rings = ctx[t].rings
      BY <3>2 DEF RingInv, Blank, RunningRings
    <3> QED  BY <2>4, <3>1, <3>2
  <2> QED  BY <2>5 DEF RingInv, Blank, RunningRings
<1>5. ASSUME NEW s \in Slots, EnableSlot, EnableTakes(s)
      PROVE  RingInv'
  <2>1. /\ hw'[s].on /\ hw'[s].eps = hw[s].eps /\ ~hw[s].on
        /\ \A t \in Slots \ {s} : ctx'[t] = ctx[t] /\ hw'[t] = hw[t]
    BY <1>5, TakenEffect DEF EnableTakes
  <2>2. \A e \in Eps : hw'[s].eps[e] = "none"
    BY <2>1 DEF RingInv, Blank
  <2> QED  BY <2>1, <2>2 DEF RingInv, Blank, RunningRings
<1>6. ASSUME NEW st \in Statuses, EnableSlot, EnableLeaks(st)
      PROVE  RingInv'
  <2>1. /\ UNCHANGED ctx
        /\ \A t \in Slots : hw'[t].eps = hw[t].eps /\ hw'[t].tt = hw[t].tt /\ (hw[t].on => hw'[t].on)
    BY <1>6, Leaks DEF SlotsKept
  <2> QED  BY <2>1 DEF RingInv, Blank, RunningRings
<1>7. CASE AddressDevice
  <2>1. \A t \in Slots : ctx'[t].rings = ctx[t].rings /\ hw'[t].eps = hw[t].eps
    BY <1>7, AddressEffect
  <2>2. /\ call.slot \in Slots /\ hw'[call.slot].on
        /\ \A t \in Slots \ {call.slot} : hw'[t] = hw[t]
    BY <1>7, AddressEffect DEF SlotsKept
  <2> QED  BY <2>1, <2>2 DEF RingInv, Blank, RunningRings
<1>8. CASE BusResets
  BY <1>8, ResetCases, RingsSame DEF ResetEffect
<1>9. CASE SetAddress
  <2>1. UNCHANGED hw /\ \A t \in Slots : ctx'[t].rings = ctx[t].rings
    BY <1>9, SetAddressEffect
  <2> QED  BY <2>1 DEF RingInv, Blank, RunningRings
<1>10. CASE Tuning
  <2>1. PICK s \in Slots : Tunes(s)
    BY <1>10 DEF Tuning
  <2>2. /\ hw'[s].on
        /\ \A t \in Slots \ {s} : ctx'[t] = ctx[t] /\ hw'[t] = hw[t]
        /\ \A e \in Eps : (hw[s].eps[e] = "running" => e \in ctx[s].rings) =>
                          (hw'[s].eps[e] = "running" => e \in ctx'[s].rings)
    BY <2>1 DEF Tunes
  <2> QED  BY <2>2 DEF RingInv, Blank, RunningRings
<1> QED
  BY <1>1, <1>2, <1>3, <1>4, <1>5, <1>6, <1>7, <1>8, <1>9, <1>10, Steps

LEMMA RingInit == Init => RingInv
<1> SUFFICES ASSUME Init PROVE RingInv
  OBVIOUS
<1>1. \A s \in Slots : hw[s] = SlotOff
  BY DEF Init
<1>2. \A s \in Slots, e \in Eps : hw[s].eps[e] = "none"
  BY <1>1, ChipOff
<1> QED  BY <1>1, <1>2, ChipOff DEF RingInv, Blank, RunningRings

\* XhcSetConfigCmd and XhcSetInterface, wherever a command fails half-way through
\* them, leave no endpoint of a slot in use running on a ring that was freed.
THEOREM RunningRingsKept == Spec => []RunningRingsOwned
<1>1. Core /\ RingInv /\ [Next]_vars => Core' /\ RingInv'
  BY CoreStep, RingStep
<1>2. RingInv => RunningRingsOwned
  BY DEF RingInv, RunningRings, RunningRingsOwned
<1> QED  BY <1>1, <1>2, CoreInit, RingInit, PTL DEF Spec

-----------------------------------------------------------------------------
(* Devices, their ports and their addresses along the tree.                  *)

\* A device hangs on a hub that it fits, and has an address only while its hub
\* has one; so has an enabled port.
Attached ==
  \A p \in Places :
    /\ plug[p] # None => Fits(p, plug[p])
    /\ plug[p] = None => answers[p] = 0
    /\ port[p].enabled => plug[p] # None /\ (IsRoot(p) \/ answers[Hub(p)] # 0)
    /\ answers[p] # 0 => IsRoot(p) \/ answers[Hub(p)] # 0

Mute(p) == answers[p] = 0 /\ ~port[p].enabled

\* Behind a change that UsbBus has not seen, and behind a place while it is
\* polled, no device has an address.
Silent ==
  /\ \A q \in Places : port[q].changes # {} =>
       answers[q] = 0 /\ \A p \in Under(q) : Mute(p)
  /\ Polling => \A p \in Under(enum.place) : Mute(p)
  /\ Polling /\ port[enum.place].enabled =>
       port[enum.place].changes = {} /\ call.speed = plug[enum.place].speed
  /\ Polling /\ ~IsRoot(enum.place) =>
       answers[Hub(enum.place)] = 0 \/ At(answers[Hub(enum.place)], Hub(enum.place))

LEMMA WiredKept ==
  ASSUME Core, Attached, Silent, SlotsKept, UNCHANGED <<plug, port, answers>>,
         Polling' => Polling /\ call'.speed = call.speed /\ enum' = enum
  PROVE  Attached' /\ Silent'
<1>1. Attached'
  BY DEF Attached, Fits
<1>2. ASSUME Polling', ~IsRoot(enum.place), answers[Hub(enum.place)] # 0
      PROVE  At(answers[Hub(enum.place)], Hub(enum.place))'
  <2>1. Polling /\ enum' = enum /\ enum.place \in Places
    BY <1>2 DEF Core, Calls, Polling
  <2>2. Hub(enum.place) \in Places
    BY <1>2, <2>1, HubShape
  <2>3. answers[Hub(enum.place)] \in Slots /\ At(answers[Hub(enum.place)], Hub(enum.place))
    BY <1>2, <2>1, <2>2 DEF Silent, Core, TypeOK, WorldOK
  <2>4. \A s \in Slots, q \in Places : s = answers[Hub(enum.place)] /\ q = Hub(enum.place) => At(s, q)'
    BY <2>2, <2>3, KeptAt
  <2> QED  BY <2>1, <2>2, <2>3, <2>4 DEF At, Live
<1>3. Silent'
  BY <1>2 DEF Silent, Mute, Under, Below
<1> QED  BY <1>1, <1>3

LEMMA TreeSilent ==
  ASSUME Core, Attached, NEW p \in Places, answers[p] = 0
  PROVE  \A q \in Under(p) : Mute(q)
<1> DEFINE S == {q \in Places : answers[q] = 0}
<1>1. ASSUME NEW q \in Under(p), Hub(q) \in S
      PROVE  q \in S
  <2>1. q \in Places /\ ~IsRoot(q)
    BY RootAlone DEF Under, Below
  <2> QED  BY <1>1, <2>1 DEF Attached
<1>2. Below(p) \subseteq S
  <2>1. p \in S
    OBVIOUS
  <2> HIDE DEF S
  <2> QED  BY <1>1, <2>1, TreeDown
<1>3. ASSUME NEW q \in Under(p)
      PROVE  Mute(q)
  <2>1. q \in Places /\ ~IsRoot(q) /\ q \in Below(p)
    BY RootAlone DEF Under, Below
  <2>2. Hub(q) \in Below(p)
    BY <2>1, HubAbove
  <2>3. answers[Hub(q)] = 0 /\ answers[q] = 0
    BY <1>2, <2>1, <2>2
  <2> QED  BY <2>1, <2>3 DEF Attached, Mute
<1> QED  BY <1>3

LEMMA AttachWired ==
  ASSUME Core, Attached, Silent, NEW p \in Places, NEW k \in Kinds[p], Attach(p, k)
  PROVE  Attached' /\ Silent'
<1>1. /\ plug[p] = None /\ Fits(p, k) /\ plug' = [plug EXCEPT ![p] = k]
      /\ port' = [port EXCEPT ![p].changes = @ \cup {"connection"}]
      /\ UNCHANGED <<answers, hw, ctx, call, enum>>
  BY DEF Attach, driver, usbbus
<1>2. plug \in [Places -> Devices] /\ port \in [Places -> Ports]
  BY DEF Core, TypeOK, WorldOK, Ports
<1>3. /\ plug'[p] = k /\ port'[p].enabled = port[p].enabled
      /\ \A q \in Places \ {p} : plug'[q] = plug[q] /\ port'[q] = port[q]
  BY <1>1, <1>2 DEF Ports
<1>4. answers[p] = 0 /\ ~port[p].enabled
  BY <1>1 DEF Attached
<1>5. \A q \in Under(p) : Mute(q)
  BY <1>4, TreeSilent
<1>6. Under(p) \subseteq Places /\ k \in [speed : {"low", "full", "high"}, hub : BOOLEAN]
  BY KindAssumption DEF Under, Below
<1>7. ASSUME NEW q \in Places
      PROVE  /\ plug'[q] # None => Fits(q, plug[q])' 
             /\ plug'[q] = None => answers[q] = 0
             /\ port'[q].enabled => plug'[q] # None /\ (IsRoot(q) \/ answers[Hub(q)] # 0)
             /\ answers[q] # 0 => IsRoot(q) \/ answers[Hub(q)] # 0
  <2>1. CASE q = p
    <3>1. ~IsRoot(p) => Hub(p) \in Places /\ Hub(p) # p
      BY HubShape
    <3>2. Fits(p, plug[p])'
      BY <1>1, <1>3, <3>1 DEF Fits
    <3> QED  BY <1>3, <1>4, <2>1, <3>2
  <2>2. CASE q # p
    <3>1. plug'[q] = plug[q] /\ port'[q] = port[q]
      BY <1>3, <2>2
    <3>2. ~IsRoot(q) => Hub(q) \in Places
      BY HubShape
    <3>3. plug[q] # None /\ ~IsRoot(q) => Hub(q) # p
      BY <1>1 DEF Attached, Fits, None
    <3>4. plug'[q] # None => Fits(q, plug[q])'
      BY <1>3, <3>1, <3>2, <3>3 DEF Attached, Fits
    <3> QED  BY <3>1, <3>4 DEF Attached
  <2> QED  BY <2>1, <2>2
<1>8. Attached'
  BY <1>1, <1>7 DEF Attached
<1>9. \A q \in Places : Mute(q) => Mute(q)'
  BY <1>1, <1>3 DEF Mute
<1>10. \A q \in Places : Under(q) \subseteq Places
  BY DEF Under, Below
<1>11. \A q \in Places : port'[q].changes # {} => answers'[q] = 0 /\ \A r \in Under(q) : Mute(r)'
  BY <1>1, <1>3, <1>4, <1>5, <1>9, <1>10 DEF Silent
<1>12. ASSUME Polling
       PROVE  /\ \A r \in Under(enum.place) : Mute(r)'
              /\ port'[enum.place].enabled => port'[enum.place].changes = {} /\ call.speed = plug'[enum.place].speed
              /\ ~IsRoot(enum.place) => answers[Hub(enum.place)] = 0 \/ At(answers[Hub(enum.place)], Hub(enum.place))
  <2>1. enum.place \in Places
    BY <1>12 DEF Core, Calls, Polling
  <2> QED  BY <1>3, <1>4, <1>9, <1>10, <1>12, <2>1 DEF Silent
<1>13. Silent'
  BY <1>1, <1>11, <1>12 DEF Silent, Polling, At, Live, Route, Under, Below
<1> QED  BY <1>8, <1>13

\* A device that goes, a port in error and a reset silence what is behind.
LEMMA SilenceWired ==
  ASSUME Core, Attached, Silent, NEW p \in Places, NEW own \in Ports, Silence(p, own),
         \/ plug' = plug
         \/ plug' = [q \in Places |-> IF q \in Below(p) THEN None ELSE plug[q]],
         own.enabled => /\ plug' = plug /\ plug[p] # None /\ ~Polling'
                        /\ IsRoot(p) \/ answers[Hub(p)] # 0,
         UNCHANGED <<hw, ctx, call>>, enum' = enum \/ ~Polling
  PROVE  Attached' /\ Silent'
<1>1. /\ \A q \in Places : answers'[q] = IF q \in Below(p) THEN 0 ELSE answers[q]
      /\ port'[p] = own
      /\ \A q \in Under(p) : port'[q].enabled = FALSE
      /\ \A q \in Places \ Below(p) : port'[q] = port[q]
  BY SilenceTypes DEF Core
<1>2. /\ \A q \in Places \ Below(p) : plug'[q] = plug[q]
      /\ \A q \in Places : plug'[q] \in {None, plug[q]}
  OBVIOUS
<1>3. /\ p \in Below(p) /\ Below(p) \subseteq Places /\ \A q \in Below(p) : q = p \/ q \in Under(p)
      /\ \A q \in Places : Under(q) \subseteq Places
  BY BelowOrder DEF Under, Below
<1>4. \A q \in Places \ Below(p) : ~IsRoot(q) => Hub(q) \in Places \ Below(p)
  <2> SUFFICES ASSUME NEW q \in Places \ Below(p), ~IsRoot(q)
               PROVE  Hub(q) \in Places \ Below(p)
    OBVIOUS
  <2> QED  BY HubAbove DEF Under
<1>5. ~IsRoot(p) => Hub(p) \in Places \ Below(p)
  <2> SUFFICES ASSUME ~IsRoot(p)
               PROVE  Hub(p) \in Places \ Below(p)
    OBVIOUS
  <2> QED  BY HubAbove DEF Under
<1>6. ASSUME NEW q \in Places
      PROVE  /\ plug'[q] # None => Fits(q, plug[q])'
             /\ plug'[q] = None => answers'[q] = 0
             /\ port'[q].enabled => plug'[q] # None /\ (IsRoot(q) \/ answers'[Hub(q)] # 0)
             /\ answers'[q] # 0 => IsRoot(q) \/ answers'[Hub(q)] # 0
  <2>1. CASE q \notin Below(p)
    <3>1. plug'[q] = plug[q] /\ port'[q] = port[q] /\ answers'[q] = answers[q]
      BY <1>1, <1>2, <2>1
    <3>2. ~IsRoot(q) => plug'[Hub(q)] = plug[Hub(q)] /\ answers'[Hub(q)] = answers[Hub(q)]
      BY <1>1, <1>2, <1>4, <2>1
    <3> QED  BY <3>1, <3>2 DEF Attached, Fits
  <2>2. CASE q \in Below(p)
    <3>1. answers'[q] = 0
      BY <1>1, <2>2
    <3>2. plug'[q] # None => Fits(q, plug[q])'
      <4>1. CASE plug' = plug
        BY <4>1 DEF Attached, Fits
      <4>2. CASE plug' = [r \in Places |-> IF r \in Below(p) THEN None ELSE plug[r]]
        BY <2>2, <4>2
      <4> QED  BY <4>1, <4>2
    <3>3. port'[q].enabled => q = p /\ own.enabled
      BY <1>1, <1>3, <2>2
    <3>4. own.enabled /\ ~IsRoot(p) => answers'[Hub(p)] # 0
      BY <1>1, <1>5
    <3> QED  BY <3>1, <3>2, <3>3, <3>4
  <2> QED  BY <2>1, <2>2
<1>7. Attached'
  BY <1>6 DEF Attached
<1>8. \A q \in Places : answers[q] = 0 => answers'[q] = 0
  BY <1>1
<1>9. \A q \in Places : Mute(q) /\ (q = p => ~own.enabled) => Mute(q)'
  BY <1>1, <1>3 DEF Mute
<1>10. \A q \in Under(p) : Mute(q)'
  BY <1>1, <1>3 DEF Mute, Under
<1>11. ASSUME NEW q \in Places, port'[q].changes # {}
       PROVE  answers'[q] = 0 /\ \A r \in Under(q) : Mute(r)'
  <2>1. CASE q \in Below(p)
    <3>1. ASSUME NEW r \in Under(q)
          PROVE  r \in Under(p)
      <4>1. r \in Below(q) /\ r \in Places /\ r # q
        BY <3>1 DEF Under, Below
      <4>2. r \in Below(p)
        BY <2>1, <4>1, BelowOrder
      <4>3. r # p
        BY <2>1, <4>1, BelowOrder, PlaceShape
      <4> QED  BY <4>2, <4>3 DEF Under
    <3> QED  BY <1>1, <1>10, <2>1, <3>1
  <2>2. CASE q \notin Below(p)
    <3>1. answers[q] = 0 /\ \A r \in Under(q) : Mute(r)
      BY <1>1, <1>11, <2>2 DEF Silent
    <3>2. p \in Under(q) => ~own.enabled
      <4> SUFFICES ASSUME p \in Under(q), own.enabled
                   PROVE  FALSE
        OBVIOUS
      <4>1. ~IsRoot(p)
        BY RootAlone
      <4>2. Hub(p) \in Below(q) /\ Hub(p) \in Places
        BY <4>1, HubAbove
      <4>3. answers[Hub(p)] = 0
        BY <3>1, <4>2 DEF Mute, Under
      <4> QED  BY <4>1, <4>3
    <3> QED  BY <1>3, <1>8, <1>9, <3>1, <3>2
  <2> QED  BY <2>1, <2>2
<1>12. ASSUME Polling'
       PROVE  /\ enum' = enum
              /\ \A r \in Under(enum.place) : Mute(r)'
              /\ port'[enum.place].enabled => port'[enum.place].changes = {} /\ call.speed = plug'[enum.place].speed
              /\ ~IsRoot(enum.place) => answers'[Hub(enum.place)] = 0 \/ (At(answers[Hub(enum.place)], Hub(enum.place)) /\ answers'[Hub(enum.place)] = answers[Hub(enum.place)])
  <2>1. Polling /\ enum' = enum /\ ~own.enabled
    BY <1>12 DEF Polling
  <2>2. enum.place \in Places
    BY <2>1 DEF Core, Calls, Polling
  <2>3. \A r \in Under(enum.place) : Mute(r)'
    BY <1>3, <1>9, <2>1, <2>2 DEF Silent
  <2>4. port'[enum.place].enabled => enum.place \notin Below(p)
    BY <1>1, <1>3, <2>1, <2>2
  <2>5. port'[enum.place].enabled => port'[enum.place].changes = {} /\ call.speed = plug'[enum.place].speed
    BY <1>1, <1>2, <2>1, <2>2, <2>4 DEF Silent
  <2>6. ~IsRoot(enum.place) => Hub(enum.place) \in Places
    BY <2>2, HubShape
  <2>7. ~IsRoot(enum.place) => answers'[Hub(enum.place)] \in {0, answers[Hub(enum.place)]}
    BY <1>1, <2>6
  <2>8. ~IsRoot(enum.place) => answers[Hub(enum.place)] = 0 \/ At(answers[Hub(enum.place)], Hub(enum.place))
    BY <2>1 DEF Silent
  <2>9. ~IsRoot(enum.place) =>
          answers'[Hub(enum.place)] = 0 \/ (At(answers[Hub(enum.place)], Hub(enum.place)) /\ answers'[Hub(enum.place)] = answers[Hub(enum.place)])
    BY <2>7, <2>8
  <2> QED  BY <2>1, <2>3, <2>5, <2>9
<1>13. Silent'
  BY <1>11, <1>12 DEF Silent, Polling, At, Live, Route, Under, Below
<1> QED  BY <1>7, <1>13

\* Disabling a slot takes its devices' addresses, which nobody behind them has.
LEMMA DisableWired ==
  ASSUME Core, Attached, Silent, DisableOld \/ UndoSlot
  PROVE  Attached' /\ Silent'
<1> DEFINE p == enum.place
<1>1. /\ p \in Places /\ Polling /\ SamePoll /\ UNCHANGED <<plug, port, enum>>
      /\ DriverOK /\ WorldOK /\ BoundOK /\ OneSlotPerPlace /\ Placed /\ Rooted
  BY Disables DEF Core, Calls, TypeOK, Polling
<1>2. PICK s \in Slots : \E failed \in SUBSET Subtree(s) : \E executed \in SUBSET failed :
         At(s, p) /\ DisableSlot(s, failed, executed)
  BY Disables
<1> HIDE DEF p
<1>3. /\ \A q \in Places : answers'[q] = answers[q] \/ (answers'[q] = 0 /\ Reach(answers[q], p))
      /\ \A t \in Slots : ~Reach(t, p) => ctx'[t] = ctx[t]
  <2>1. PICK failed \in SUBSET Subtree(s) : \E executed \in SUBSET failed :
           At(s, p) /\ DisableSlot(s, failed, executed)
    BY <1>2
  <2>2. PICK executed \in SUBSET failed : At(s, p) /\ DisableSlot(s, failed, executed)
    BY <2>1
  <2> QED  BY <1>1, <2>2, DisableEffect
<1>4. \A q \in Places : Reach(answers[q], p) /\ answers[q] # 0 => q \in Below(p)
  BY RouteTells DEF Reach, At, Below, Core, Answering
<1>5. \A q \in Under(p) : Mute(q)
  BY <1>1 DEF Silent, p
<1>6. /\ Below(p) \subseteq Places /\ \A q \in Below(p) : q = p \/ q \in Under(p)
      /\ \A q \in Places : Under(q) \subseteq Places
  BY DEF Under, Below
<1>7. \A q \in Places : \/ answers'[q] = answers[q] 
                        \/ q = p /\ answers'[q] = 0
  BY <1>3, <1>4, <1>5, <1>6 DEF Mute
<1>8. \A q \in Places : ~IsRoot(q) => Hub(q) \in Places /\ q \in Under(Hub(q))
  BY HubAbove
<1>9. ASSUME NEW q \in Places
      PROVE  /\ plug[q] # None => Fits(q, plug[q])
             /\ plug[q] = None => answers'[q] = 0
             /\ port[q].enabled => plug[q] # None /\ (IsRoot(q) \/ answers'[Hub(q)] # 0)
             /\ answers'[q] # 0 => IsRoot(q) \/ answers'[Hub(q)] # 0
  <2>1. /\ plug[q] # None => Fits(q, plug[q])
        /\ plug[q] = None => answers[q] = 0
        /\ port[q].enabled => plug[q] # None /\ (IsRoot(q) \/ answers[Hub(q)] # 0)
        /\ answers[q] # 0 => IsRoot(q) \/ answers[Hub(q)] # 0
    BY DEF Attached
  <2>2. q \in Under(p) => answers[q] = 0 /\ ~port[q].enabled
    BY <1>5 DEF Mute
  <2>3. IsRoot(q) \/ q \in Under(p) \/ answers'[Hub(q)] = answers[Hub(q)]
    BY <1>7, <1>8
  <2> QED  BY <1>7, <2>1, <2>2, <2>3
<1>10. Attached'
  BY <1>1, <1>9 DEF Attached, Fits
<1>11. \A q \in Places : Mute(q) => Mute(q)'
  BY <1>1, <1>7 DEF Mute
<1>12. \A q \in Places : port[q].changes # {} => answers'[q] = 0 /\ \A r \in Under(q) : Mute(r)'
  BY <1>6, <1>7, <1>11 DEF Silent
<1>13. ASSUME ~IsRoot(p), answers'[Hub(p)] # 0
       PROVE  At(answers[Hub(p)], Hub(p)) /\ answers'[Hub(p)] = answers[Hub(p)] /\ ctx'[answers[Hub(p)]] = ctx[answers[Hub(p)]]
  <2>1. Hub(p) \in Places /\ Hub(p) # p /\ Hub(p) \notin Below(p)
    BY <1>1, <1>13, HubAbove, HubShape, BelowOrder, PlaceShape DEF Under
  <2>2. answers'[Hub(p)] = answers[Hub(p)] /\ answers[Hub(p)] \in Slots
    BY <1>1, <1>7, <1>13, <2>1 DEF WorldOK
  <2>3. At(answers[Hub(p)], Hub(p))
    BY <1>1, <1>13, <2>2 DEF Silent, p
  <2>4. ~Reach(answers[Hub(p)], p)
    BY <1>4, <1>13, <2>1, <2>2
  <2> QED  BY <1>3, <2>2, <2>3, <2>4
<1>14. Silent'
  <2>1. ~IsRoot(p) => answers'[Hub(p)] = 0 \/ (ctx'[answers'[Hub(p)]].enabled /\ ctx'[answers'[Hub(p)]].slot # 0 /\ ctx'[answers'[Hub(p)]].route = Route[Hub(p)])
    BY <1>13 DEF At, Live
  <2>2. \A r \in Under(p) : Mute(r)'
    BY <1>1, <1>5, <1>6, <1>11
  <2>3. port[p].enabled => port[p].changes = {} /\ call.speed = plug[p].speed
    BY <1>1 DEF Silent, p
  <2> QED  BY <1>1, <1>12, <2>1, <2>2, <2>3 DEF Silent, At, Live, Route, Under, Below, p, SamePoll
<1> QED  BY <1>10, <1>14

LEMMA EnableWired ==
  ASSUME Core, Attached, Silent, EnableSlot, NEW s \in Slots, EnableTakes(s)
  PROVE  Attached' /\ Silent'
<1>1. /\ UNCHANGED <<plug, port, answers, enum>> /\ ~hw[s].on
      /\ \A t \in Slots \ {s} : ctx'[t] = ctx[t]
      /\ SamePoll /\ call.at = "attempt"
  BY EnableCases, TakenEffect DEF EnableTakes
<1>2. Attached'
  BY <1>1 DEF Attached, Fits
<1>3. Polling /\ enum.place \in Places
  BY <1>1 DEF Polling, Core, Calls
<1>4. ASSUME ~IsRoot(enum.place), answers[Hub(enum.place)] # 0
      PROVE  LET h == Hub(enum.place)
             IN  At(answers[h], h) /\ ctx'[answers[h]] = ctx[answers[h]]
  <2>1. Hub(enum.place) \in Places
    BY <1>3, <1>4, HubShape
  <2>2. answers[Hub(enum.place)] \in Slots /\ hw[answers[Hub(enum.place)]].on
    BY <1>4, <2>1 DEF Core, Answering, TypeOK, WorldOK
  <2> QED  BY <1>1, <1>3, <1>4, <2>2 DEF Silent
<1>5. Silent'
  BY <1>1, <1>3, <1>4 DEF Silent, At, Live, Route, Under, Below, SamePoll, Mute
<1> QED  BY <1>2, <1>5

\* Only a device behind an enabled port takes an address; nothing is pending there.
LEMMA AddressWired ==
  ASSUME Core, Attached, Silent, AddressDevice
  PROVE  Attached' /\ Silent'
<1> DEFINE p == enum.place
<1>1. /\ UNCHANGED <<plug, port, enum>> /\ call.at = "address" /\ Polling
      /\ SlotsKept /\ SamePoll /\ p \in Places
      /\ \A q \in Places \ {p} : answers'[q] = answers[q]
      /\ \/ answers'[p] = answers[p]
         \/ plug[p] # None /\ port[p].enabled /\ answers[p] = 0
      /\ answers' \in [Places -> Slots \cup {0}]
  BY AddressEffect, AddressCases DEF Polling
<1>2. answers' = answers => Attached' /\ Silent'
  BY <1>1, WiredKept DEF SamePoll
<1> HIDE DEF p
<1>3. answers \in [Places -> Slots \cup {0}]
  BY DEF Core, TypeOK, WorldOK
<1>4. CASE answers'[p] = answers[p]
  <2>1. \A q \in Places : answers'[q] = answers[q]
    BY <1>1, <1>4
  <2>2. answers' = answers
    BY <1>1, <1>3, <2>1
  <2> QED  BY <1>2, <2>2
<1>5. CASE plug[p] # None /\ port[p].enabled /\ answers[p] = 0
  <2>1. IsRoot(p) \/ answers[Hub(p)] # 0
    BY <1>1, <1>5 DEF Attached
  <2>2. \A q \in Places : ~IsRoot(q) => Hub(q) \in Places /\ Hub(q) # q
    BY HubShape
  <2>3. ASSUME NEW q \in Places
        PROVE  /\ plug[q] # None => Fits(q, plug[q])
               /\ plug[q] = None => answers'[q] = 0
               /\ port[q].enabled => plug[q] # None /\ (IsRoot(q) \/ answers'[Hub(q)] # 0)
               /\ answers'[q] # 0 => IsRoot(q) \/ answers'[Hub(q)] # 0
    <3>1. /\ plug[q] # None => Fits(q, plug[q])
          /\ plug[q] = None => answers[q] = 0
          /\ port[q].enabled => plug[q] # None /\ (IsRoot(q) \/ answers[Hub(q)] # 0)
          /\ answers[q] # 0 => IsRoot(q) \/ answers[Hub(q)] # 0
      BY DEF Attached
    <3>2. \A r \in Places : answers[r] # 0 => answers'[r] # 0
      BY <1>1, <1>5
    <3> QED  BY <1>1, <1>5, <2>1, <2>2, <3>1, <3>2
  <2>4. Attached'
    BY <1>1, <2>3 DEF Attached, Fits
  <2>5. port[p].changes = {} /\ call.speed = plug[p].speed
    BY <1>1, <1>5 DEF Silent, p
  <2>6. ASSUME NEW q \in Places, port[q].changes # {}
        PROVE  q # p /\ p \notin Under(q)
    <3>1. q # p
      BY <2>5, <2>6
    <3>2. ASSUME p \in Under(q)
          PROVE  FALSE
      <4>1. ~IsRoot(p)
        BY <1>1, <3>2, RootAlone, <2>6
      <4>2. Hub(p) \in Below(q) /\ Hub(p) \in Places
        BY <1>1, <3>2, <4>1, HubAbove, <2>6
      <4>3. answers[Hub(p)] = 0
        BY <2>6, <4>2 DEF Mute, Under, Silent
      <4> QED  BY <2>1, <4>1, <4>3
    <3> QED  BY <3>1, <3>2
  <2>7. \A q \in Places : Under(q) \subseteq Places /\ q \notin Under(q)
    BY DEF Under, Below
  <2>8. \A q \in Places \ {p} : Mute(q) => Mute(q)'
    BY <1>1 DEF Mute
  <2>9. \A q \in Places : port[q].changes # {} => answers'[q] = 0 /\ \A r \in Under(q) : Mute(r)'
    BY <1>1, <2>6, <2>7, <2>8 DEF Silent
  <2>10. \A r \in Under(p) : Mute(r)'
    BY <1>1, <2>7, <2>8 DEF Silent, p
  <2>11. ASSUME ~IsRoot(p)
         PROVE  LET e == ctx'[answers'[Hub(p)]]
                IN  e.enabled /\ e.slot # 0 /\ e.route = Route[Hub(p)]
    <3>1. Hub(p) \in Places /\ answers'[Hub(p)] = answers[Hub(p)] /\ answers[Hub(p)] \in Slots
      BY <1>1, <1>3, <2>1, <2>2, <2>11
    <3>2. At(answers[Hub(p)], Hub(p))
      BY <1>1, <2>1, <2>11 DEF Silent, p
    <3> QED  BY <1>1, <3>1, <3>2 DEF At, Live, SlotsKept
  <2>12. Silent'
    BY <1>1, <2>5, <2>9, <2>10, <2>11 DEF Silent, SamePoll, Under, Below, p, At, Live
  <2> QED  BY <2>4, <2>12
<1> QED  BY <1>1, <1>4, <1>5

\* A poll is started only at a port with changes, through a hub that answers.
LEMMA PollWired ==
  ASSUME Core, Attached, Silent, NEW p \in Places, PollOf(p)
  PROVE  Attached' /\ Silent'
<1>1. /\ call'.speed = Speed(SpeedBits(plug[p])) /\ enum'.place = p
      /\ port'[p].changes = {} /\ port'[p].enabled = port[p].enabled
      /\ \A q \in Places \ {p} : port'[q] = port[q]
      /\ UNCHANGED <<plug, answers, hw, ctx>>
      /\ CanPoll(p)
  BY PollStarts DEF PollOf, PollPort
<1>2. Attached'
  BY <1>1 DEF Attached, Fits
<1>3. \A q \in Places : Mute(q) => Mute(q)'
  BY <1>1 DEF Mute
<1>4. \A q \in Places : Under(q) \subseteq Places
  BY DEF Under, Below
<1>5. \A q \in Places : port'[q].changes # {} => answers'[q] = 0 /\ \A r \in Under(q) : Mute(r)'
  BY <1>1, <1>3, <1>4 DEF Silent
<1>6. \A r \in Under(p) : Mute(r)'
  BY <1>1, <1>3, <1>4 DEF Silent, CanPoll
<1>7. port'[p].enabled => call'.speed = plug'[p].speed
  <2>1. port[p].enabled => plug[p] # None
    BY DEF Attached
  <2>2. plug[p] \in Devices
    BY PortFields DEF Core
  <2> QED  BY <1>1, <2>1, <2>2, SpeedRead
<1>8. ~IsRoot(p) => At(answers[Hub(p)], Hub(p))
  <2> SUFFICES ASSUME ~IsRoot(p)
               PROVE  At(answers[Hub(p)], Hub(p))
    OBVIOUS
  <2>1. Hub(p) \in Places /\ Reaches(bus[Hub(p)], Hub(p))
    BY <1>1, HubShape DEF CanPoll
  <2> QED  BY <2>1, Reached DEF Core
<1>9. Silent'
  BY <1>1, <1>5, <1>6, <1>7, <1>8 DEF Silent, At, Live, Route, Under, Below
<1> QED  BY <1>2, <1>9

LEMMA ResetWired ==
  ASSUME Core, Attached, Silent, BusResets
  PROVE  Attached' /\ Silent'
<1> DEFINE p == enum.place
           own == [enabled |-> TRUE, changes |-> port[p].changes \cup {"reset"}]
<1>1. ResetEffect
  BY ResetCases
<1>2. /\ p \in Places /\ UNCHANGED <<plug, hw, ctx, call>> /\ call.at = "idle"
      /\ \/ UNCHANGED <<port, answers>>
         \/ plug[p] # None /\ (IsRoot(p) \/ Reaches(bus[Hub(p)], Hub(p))) /\ Silence(p, own)
  BY <1>1 DEF ResetEffect
<1>3. ~Polling /\ ~Polling' /\ SlotsKept
  BY <1>2 DEF Polling, SlotsKept
<1>4. CASE UNCHANGED <<port, answers>>
  BY <1>2, <1>3, <1>4, WiredKept
<1>5. own \in Ports
  BY <1>2, PortFields DEF Core, Ports
<1>6. Reaches(bus[Hub(p)], Hub(p)) /\ ~IsRoot(p) => answers[Hub(p)] # 0
  BY DEF Reaches
<1> HIDE DEF p, own
<1>7. CASE plug[p] # None /\ (IsRoot(p) \/ Reaches(bus[Hub(p)], Hub(p))) /\ Silence(p, own)
  BY <1>2, <1>3, <1>5, <1>6, <1>7, SilenceWired
<1> QED  BY <1>2, <1>4, <1>7

LEMMA WiredStep ==
  ASSUME Core, Attached, Silent, [Next]_vars
  PROVE  Attached' /\ Silent'
<1>1. CASE UNCHANGED vars
  <2>1. UNCHANGED <<plug, port, answers, hw, ctx, call, enum>>
    BY <1>1 DEF vars, world, driver, usbbus
  <2>2. SlotsKept
    BY <2>1 DEF SlotsKept
  <2> QED  BY <2>1, <2>2, WiredKept DEF Polling
<1>2. ASSUME NEW p \in Places, NEW k \in Kinds[p], Attach(p, k)
      PROVE  Attached' /\ Silent'
  BY <1>2, AttachWired
<1>3. ASSUME NEW p \in Places, Detach(p) \/ PortError(p)
      PROVE  Attached' /\ Silent'
  <2>1. UNCHANGED <<hw, ctx, call, enum>>
    BY <1>3 DEF Detach, PortError, driver, usbbus
  <2>2. port[p] \in Ports
    BY PortFields DEF Core
  <2>3. CASE Detach(p)
    <3> DEFINE own == [enabled |-> FALSE, changes |-> port[p].changes \cup {"connection"}]
    <3>1. Silence(p, own) /\ plug' = [q \in Places |-> IF q \in Below(p) THEN None ELSE plug[q]]
      BY <2>3 DEF Detach
    <3>2. own \in Ports /\ ~own.enabled
      BY <2>2 DEF Ports
    <3> HIDE DEF own
    <3> QED  BY <2>1, <3>1, <3>2, SilenceWired
  <2>4. CASE PortError(p)
    <3> DEFINE own == [enabled |-> FALSE, changes |-> port[p].changes \cup {"enable"}]
    <3>1. Silence(p, own) /\ plug' = plug
      BY <2>4 DEF PortError
    <3>2. own \in Ports /\ ~own.enabled
      BY <2>2 DEF Ports
    <3> HIDE DEF own
    <3> QED  BY <2>1, <3>1, <3>2, SilenceWired
  <2> QED  BY <1>3, <2>3, <2>4
<1>4. CASE RoundEnds
  <2>1. SlotsKept
    BY <1>4 DEF RoundEnds, SlotsKept
  <2> QED  BY <1>4, <2>1, WiredKept DEF RoundEnds, SamePoll, Polling
<1>5. CASE DisableOld \/ UndoSlot
  BY <1>5, DisableWired
<1>6. ASSUME NEW s \in Slots, EnableSlot, EnableTakes(s)
      PROVE  Attached' /\ Silent'
  BY <1>6, EnableWired
<1>7. ASSUME NEW st \in Statuses, EnableSlot, EnableLeaks(st)
      PROVE  Attached' /\ Silent'
  BY <1>7, Leaks, WiredKept DEF SamePoll, Polling
<1>8. CASE AddressDevice
  BY <1>8, AddressWired
<1>9. ASSUME NEW p \in Places, PollOf(p)
      PROVE  Attached' /\ Silent'
  BY <1>9, PollWired
<1>10. CASE Aside
  <2>1. SlotsKept
    BY <1>10 DEF Aside, SlotsKept
  <2> QED  BY <1>10, <2>1, WiredKept DEF Aside, Polling
<1>11. CASE BusResets
  BY <1>11, ResetWired
<1>12. CASE SetAddress
  <2>1. SlotsKept /\ UNCHANGED <<plug, port, answers, call>> /\ call.at = "idle"
    BY <1>12, SetAddressEffect
  <2> QED  BY <2>1, WiredKept DEF Polling
<1>13. CASE Tuning
  <2>1. SlotsKept /\ UNCHANGED <<plug, port, answers, call>> /\ call.at = "idle"
    BY <1>13 DEF Tuning, Tunes
  <2> QED  BY <2>1, WiredKept DEF Polling
<1> QED
  BY <1>1, <1>2, <1>3, <1>4, <1>5, <1>6, <1>7, <1>8, <1>9, <1>10, <1>11, <1>12, <1>13, Steps

LEMMA WiredInit == Init => Attached /\ Silent
<1> SUFFICES ASSUME Init PROVE Attached /\ Silent
  OBVIOUS
<1>1. \A p \in Places : plug[p] = None /\ port[p] = QuietPort /\ answers[p] = 0
  BY DEF Init
<1>2. ~Polling
  BY DEF Init, Polling
<1> QED  BY <1>1, <1>2 DEF Attached, Silent, QuietPort

-----------------------------------------------------------------------------
(* Transaction translators.                                                  *)

\* The translator of the device at p, told from its hub's alone.
LocalTT(p) ==
  IF plug[p].speed = "high" \/ IsRoot(p) THEN NoTT
  ELSE IF plug[Hub(p)].speed = "high" THEN [hub |-> answers[Hub(p)], port |-> p[Len(p)]]
  ELSE hw[answers[Hub(p)]].tt

Translated ==
  /\ call.at = "address" => /\ hw[call.slot].tt = NoTT
                            /\ \A p \in Places : answers[p] # call.slot
  /\ \A p \in Places : answers[p] # 0 =>
       /\ hw[answers[p]].speed = plug[p].speed
       /\ hw[answers[p]].tt = LocalTT(p)

\* What keeps it: the devices that still answer, and their slots, stay as they are.
LEMMA TranslatedKept ==
  ASSUME Core, Attached', Translated,
         \A p \in Places : answers'[p] # 0 =>
           /\ answers'[p] = answers[p] /\ plug'[p] = plug[p]
           /\ hw'[answers[p]].speed = hw[answers[p]].speed /\ hw'[answers[p]].tt = hw[answers[p]].tt,
         call'.at = "address" => call' = call /\ hw' = hw
  PROVE  Translated'
<1>1. ASSUME NEW p \in Places, answers'[p] # 0
      PROVE  hw'[answers'[p]].speed = plug'[p].speed /\ hw'[answers'[p]].tt = LocalTT(p)'
  <2>1. /\ answers'[p] = answers[p] /\ plug'[p] = plug[p]
        /\ hw'[answers'[p]].speed = plug[p].speed /\ hw'[answers'[p]].tt = LocalTT(p)
    BY <1>1 DEF Translated
  <2>2. CASE IsRoot(p)
    BY <2>1, <2>2 DEF LocalTT
  <2>3. CASE ~IsRoot(p)
    <3>1. Hub(p) \in Places /\ answers'[Hub(p)] # 0
      BY <1>1, <2>3, HubShape DEF Attached
    <3>2. /\ answers'[Hub(p)] = answers[Hub(p)] /\ plug'[Hub(p)] = plug[Hub(p)]
          /\ hw'[answers'[Hub(p)]].tt = hw[answers[Hub(p)]].tt
      BY <3>1
    <3> QED  BY <2>1, <3>2 DEF LocalTT
  <2> QED  BY <2>2, <2>3
<1>2. ASSUME call'.at = "address"
      PROVE  hw'[call'.slot].tt = NoTT /\ \A p \in Places : answers'[p] # call'.slot
  <2>1. call' = call /\ hw' = hw
    BY <1>2
  <2>2. call.at = "address" /\ call.slot \in Slots
    BY <1>2, <2>1 DEF Core, Calls
  <2>3. call.slot # 0
    BY <2>2, SlotAssumption
  <2> QED  BY <2>1, <2>2, <2>3 DEF Translated
<1> QED  BY <1>1, <1>2 DEF Translated

LEMMA TranslatedAddress ==
  ASSUME Core, Attached, Silent, Translated, AddressDevice
  PROVE  Translated'
<1> DEFINE p == enum.place
           s == call.slot
           h == RouteStringToSlotId(call.parent)
<1>1. /\ UNCHANGED <<plug, port>> /\ call.at = "address" /\ Polling
      /\ s \in Slots /\ s # 0 /\ hw[s].on /\ p \in Places
      /\ \A t \in Slots \ {s} : hw'[t] = hw[t]
      /\ \A q \in Places \ {p} : answers'[q] = answers[q]
      /\ \/ answers'[p] = answers[p]
         \/ answers'[p] = s /\ hw'[s] = SlotContext(s) /\ plug[p] # None /\ port[p].enabled
            /\ answers[p] = 0
      /\ call'.at # "address"
  BY AddressEffect, AddressCases, SlotAssumption DEF Polling
<1>2. hw[s].tt = NoTT /\ \A q \in Places : answers[q] # s
  BY <1>1 DEF Translated
<1>3. LET d == SlotContext(s)
      IN  /\ IsRoot(p) => d.speed = call.speed /\ d.tt = NoTT
          /\ ~IsRoot(p) => d.speed = SpeedSet(h) /\ d.tt = TTOf(h)
  BY <1>1, <1>2, NewContext
<1>4. ~IsRoot(p) => h \in Slots /\ At(h, Hub(p))
  BY <1>1, ParentSlot
<1>5. port[p].enabled => call.speed = plug[p].speed
  BY <1>1 DEF Silent
<1>6. ~IsRoot(p) => answers[Hub(p)] = 0 \/ At(answers[Hub(p)], Hub(p))
  BY <1>1 DEF Silent
<1>7. call.portNumber = p[Len(p)]
  BY <1>1 DEF Core, Calls
<1>8. answers \in [Places -> Slots \cup {0}] /\ plug \in [Places -> Devices]
  BY DEF Core, TypeOK, WorldOK
<1>9. \A q \in Places : ~IsRoot(q) => Hub(q) \in Places /\ Hub(q) # q
  BY HubShape
<1> HIDE DEF p, s, h
<1>10. ASSUME NEW q \in Places, answers[q] # 0
       PROVE  /\ answers'[q] = answers[q] /\ answers[q] # s /\ hw'[answers[q]] = hw[answers[q]]
  <2>1. answers[q] \in Slots \ {s}
    BY <1>2, <1>8, <1>10
  <2> QED  BY <1>1, <1>10, <2>1
<1>11. ASSUME NEW q \in Places, answers[q] # 0
       PROVE  hw'[answers'[q]].speed = plug'[q].speed /\ hw'[answers'[q]].tt = LocalTT(q)'
  <2>1. hw'[answers'[q]].speed = plug'[q].speed /\ hw'[answers'[q]].tt = LocalTT(q)
    BY <1>1, <1>10, <1>11 DEF Translated
  <2>2. ~IsRoot(q) => Hub(q) \in Places /\ answers[Hub(q)] # 0
    BY <1>9, <1>11 DEF Attached
  <2>3. ~IsRoot(q) => answers'[Hub(q)] = answers[Hub(q)] /\ hw'[answers'[Hub(q)]] = hw[answers[Hub(q)]]
    BY <1>10, <2>2
  <2> QED  BY <1>1, <2>1, <2>3 DEF LocalTT
<1>12. ASSUME NEW r \in Places, r = p, answers'[r] = s, hw'[s] = SlotContext(s), plug[r] # None, port[r].enabled, answers[r] = 0
       PROVE  hw'[s].speed = plug[r].speed /\ hw'[s].tt = LocalTT(r)'
  <2>1. CASE IsRoot(r)
    <3>1. LocalTT(r)' = NoTT
      BY <2>1 DEF LocalTT
    <3> QED  BY <1>3, <1>5, <1>12, <2>1, <3>1
  <2>2. CASE ~IsRoot(r)
    <3> DEFINE g == Hub(r)
    <3>1. g \in Places /\ g # r /\ answers[g] # 0
      BY <1>1, <1>9, <1>12, <2>2 DEF Attached
    <3>2. At(answers[g], g) /\ answers[g] \in Slots
      BY <1>6, <1>8, <1>12, <2>2, <3>1
    <3>3. h = answers[g]
      BY <1>4, <1>12, <2>2, <3>2 DEF Core, OneSlotPerPlace, At
    <3>4. hw[h].speed = plug[g].speed /\ hw[h].tt = LocalTT(g)
      BY <3>1, <3>3 DEF Translated
    <3>5. answers'[g] = h /\ hw'[h] = hw[h]
      BY <1>10, <3>1, <3>3
    <3>6. plug[r].speed = "high" => plug[g].speed = "high"
      BY <1>1, <1>12, <2>2 DEF Attached, Fits
    <3>7. plug[g].speed = "high" => hw[h].tt = NoTT
      BY <3>4 DEF LocalTT
    <3>8. LocalTT(r)' = IF plug[r].speed = "high" THEN NoTT
                        ELSE IF plug[g].speed = "high" THEN [hub |-> h, port |-> r[Len(r)]]
                        ELSE hw[h].tt
      BY <1>1, <2>2, <3>5 DEF LocalTT
    <3>9. hw'[s].speed = SpeedSet(h) /\ hw'[s].tt = TTOf(h) /\ call.speed = plug[r].speed
      BY <1>3, <1>5, <1>12, <2>2
    <3>10. SpeedSet(h) = call.speed
      BY <3>6, <3>7, <3>9 DEF SpeedSet
    <3>11. TTOf(h) = LocalTT(r)'
      <4> HIDE DEF g
      <4>1. CASE hw[h].tt # NoTT
        BY <3>6, <3>7, <3>8, <4>1 DEF TTOf
      <4>2. CASE hw[h].tt = NoTT /\ plug[g].speed = "high" /\ plug[r].speed # "high"
        BY <1>7, <1>12, <3>4, <3>8, <3>9, <4>2 DEF TTOf
      <4>3. CASE hw[h].tt = NoTT /\ ~(plug[g].speed = "high" /\ plug[r].speed # "high")
        BY <3>4, <3>8, <3>9, <4>3 DEF TTOf
      <4> QED  BY <4>1, <4>2, <4>3
    <3> QED  BY <3>9, <3>10, <3>11
  <2> QED  BY <2>1, <2>2
<1>13. ASSUME NEW q \in Places, answers'[q] # 0
       PROVE  hw'[answers'[q]].speed = plug'[q].speed /\ hw'[answers'[q]].tt = LocalTT(q)'
  <2>1. CASE answers[q] # 0
    BY <1>11, <2>1
  <2>2. CASE answers[q] = 0
    <3>1. q = p /\ answers'[p] = s /\ hw'[s] = SlotContext(s) /\ plug[p] # None /\ port[p].enabled
      BY <1>1, <1>13, <2>2
    <3>2. hw'[s].speed = plug[q].speed /\ hw'[s].tt = LocalTT(q)'
      BY <1>12, <2>2, <3>1
    <3> QED  BY <1>1, <3>1, <3>2
  <2> QED  BY <2>1, <2>2
<1> QED  BY <1>1, <1>13 DEF Translated

LEMMA TranslatedStep ==
  ASSUME Core, RingInv, Attached, Silent, Translated, [Next]_vars
  PROVE  Translated'
<1>0. Attached'
  BY WiredStep
<1>1. ASSUME UNCHANGED <<plug, answers>>,
             \A t \in Slots : hw'[t].speed = hw[t].speed /\ hw'[t].tt = hw[t].tt,
             call'.at = "address" => call' = call /\ hw' = hw
      PROVE  Translated'
  <2>1. answers \in [Places -> Slots \cup {0}]
    BY DEF Core, TypeOK, WorldOK
  <2> QED  BY <1>0, <1>1, <2>1, TranslatedKept
<1>2. CASE UNCHANGED vars
  BY <1>1, <1>2 DEF vars, world
<1>3. ASSUME NEW p \in Places, NEW k \in Kinds[p], Attach(p, k)
      PROVE  Translated'
  <2>1. UNCHANGED <<answers, hw, call>> /\ plug[p] = None /\ plug' = [plug EXCEPT ![p] = k]
    BY <1>3 DEF Attach
  <2>2. answers[p] = 0
    BY <2>1 DEF Attached
  <2>3. \A q \in Places \ {p} : plug'[q] = plug[q]
    BY <2>1 DEF Core, TypeOK, WorldOK
  <2> QED  BY <1>0, <2>1, <2>2, <2>3, TranslatedKept
<1>4. ASSUME NEW p \in Places, NEW own \in Ports, Silence(p, own),
             \A q \in Places : q \notin Below(p) => plug'[q] = plug[q],
             UNCHANGED <<hw, call>>
      PROVE  Translated'
  <2>1. \A q \in Places : answers'[q] = IF q \in Below(p) THEN 0 ELSE answers[q]
    BY <1>4, SilenceTypes DEF Core
  <2> QED  BY <1>0, <1>4, <2>1, TranslatedKept
<1>5. ASSUME NEW p \in Places, Detach(p) \/ PortError(p)
      PROVE  Translated'
  <2>1. UNCHANGED <<hw, call>> /\ port[p] \in Ports
    BY <1>5, PortFields DEF Detach, PortError, Core
  <2>2. CASE Detach(p)
    <3> DEFINE own == [enabled |-> FALSE, changes |-> port[p].changes \cup {"connection"}]
    <3>1. Silence(p, own) /\ \A q \in Places : q \notin Below(p) => plug'[q] = plug[q]
      BY <2>2 DEF Detach
    <3>2. own \in Ports
      BY <2>1 DEF Ports
    <3> HIDE DEF own
    <3> QED  BY <1>4, <2>1, <3>1, <3>2
  <2>3. CASE PortError(p)
    <3> DEFINE own == [enabled |-> FALSE, changes |-> port[p].changes \cup {"enable"}]
    <3>1. Silence(p, own) /\ UNCHANGED plug
      BY <2>3 DEF PortError
    <3>2. own \in Ports
      BY <2>1 DEF Ports
    <3> HIDE DEF own
    <3> QED  BY <1>4, <2>1, <3>1, <3>2
  <2> QED  BY <1>5, <2>2, <2>3
<1>6. CASE RoundEnds \/ Aside
  BY <1>1, <1>6 DEF RoundEnds, Aside
<1>7. CASE DisableOld \/ UndoSlot
  <2>1. PICK s \in Slots : \E failed \in SUBSET Subtree(s) : \E executed \in SUBSET failed :
              At(s, enum.place) /\ DisableSlot(s, failed, executed)
    BY <1>7, Disables
  <2>2. enum.place \in Places /\ call'.at # "address" /\ UNCHANGED plug
    BY <1>7, Disables DEF Core, Calls
  <2>3. DriverOK /\ WorldOK /\ BoundOK /\ OneSlotPerPlace /\ Placed /\ Rooted
    BY DEF Core, TypeOK
  <2>4. ASSUME NEW q \in Places, answers'[q] # 0
        PROVE  answers'[q] = answers[q] /\ hw'[answers[q]] = hw[answers[q]]
    <3>1. PICK failed \in SUBSET Subtree(s) : \E executed \in SUBSET failed :
             At(s, enum.place) /\ DisableSlot(s, failed, executed)
      BY <2>1
    <3>2. PICK executed \in SUBSET failed : At(s, enum.place) /\ DisableSlot(s, failed, executed)
      BY <3>1
    <3> QED  BY <2>2, <2>3, <2>4, <3>2, DisableEffect
  <2> QED  BY <1>0, <2>2, <2>4, TranslatedKept
<1>8. ASSUME NEW s \in Slots, EnableSlot, EnableTakes(s)
      PROVE  Translated'
  <2>1. /\ UNCHANGED <<plug, answers>> /\ ~hw[s].on
        /\ hw'[s].speed = hw[s].speed /\ hw'[s].tt = hw[s].tt
        /\ \A t \in Slots \ {s} : hw'[t] = hw[t]
        /\ call'.at = "address" /\ call'.slot = s
    BY <1>8, EnableCases, TakenEffect DEF EnableTakes
  <2>2. hw'[s].tt = NoTT
    BY <2>1 DEF RingInv, Blank
  <2>3. \A q \in Places : answers[q] # s
    BY <2>1, SlotAssumption DEF Core, Answering
  <2>4. ASSUME NEW q \in Places, answers[q] # 0
        PROVE  hw'[answers'[q]].speed = plug'[q].speed /\ hw'[answers'[q]].tt = LocalTT(q)'
    <3>1. answers[q] \in Slots
      BY <2>4 DEF Core, TypeOK, WorldOK
    <3>2. \A t \in Slots : hw'[t].speed = hw[t].speed /\ hw'[t].tt = hw[t].tt
      BY <2>1
    <3>3. ~IsRoot(q) => Hub(q) \in Places /\ answers[Hub(q)] \in Slots
      BY <2>4, HubShape DEF Attached, Core, TypeOK, WorldOK
    <3> QED  BY <2>1, <2>4, <3>1, <3>2, <3>3 DEF Translated, LocalTT
  <2> QED  BY <2>1, <2>2, <2>3, <2>4 DEF Translated
<1>9. ASSUME NEW st \in Statuses, EnableSlot, EnableLeaks(st)
      PROVE  Translated'
  BY <1>1, <1>9, Leaks
<1>10. CASE AddressDevice
  BY <1>10, TranslatedAddress
<1>11. ASSUME NEW p \in Places, PollOf(p)
       PROVE  Translated'
  <2>1. call'.at # "address" /\ UNCHANGED <<plug, answers, hw>>
    BY <1>11, PollStarts DEF PollOf
  <2> QED  BY <1>1, <2>1
<1>12. CASE BusResets
  <2>1. ResetEffect
    BY <1>12, ResetCases
  <2>2. UNCHANGED <<plug, hw, call>> /\ enum.place \in Places /\ call'.at # "address"
    BY <2>1 DEF ResetEffect
  <2>3. CASE UNCHANGED answers
    BY <1>1, <2>2, <2>3
  <2> DEFINE own == [enabled |-> TRUE, changes |-> port[enum.place].changes \cup {"reset"}]
  <2>4. CASE Silence(enum.place, own)
    <3>1. own \in Ports
      BY <2>2, PortFields DEF Core, Ports
    <3> HIDE DEF own
    <3> QED  BY <1>4, <2>2, <2>4, <3>1
  <2> QED  BY <2>1, <2>3, <2>4 DEF ResetEffect
<1>13. CASE SetAddress
  BY <1>1, <1>13, SetAddressEffect
<1>14. CASE Tuning
  BY <1>1, <1>14 DEF Tuning, Tunes
<1> QED
  BY <1>2, <1>3, <1>5, <1>6, <1>7, <1>8, <1>9, <1>10, <1>11, <1>12, <1>13, <1>14, Steps

LEMMA TranslatedInit == Init => Translated
BY DEF Init, Translated

\* Induction over the tiers of the tree.
LEMMA TreeWhole ==
  ASSUME NEW S, \A q \in Places : IsRoot(q) => q \in S,
         \A q \in Places : ~IsRoot(q) /\ Hub(q) \in S => q \in S
  PROVE  Places \subseteq S
<1> DEFINE D(n) == \A q \in Places : Len(q) = n => q \in S
<1>1. \A q \in Places : Len(q) \in 1 .. 6
  BY PlaceShape
<1>2. D(0)
  BY <1>1
<1>3. ASSUME NEW n \in 0 .. 5, D(n)
      PROVE  D(n + 1)
  <2> SUFFICES ASSUME NEW q \in Places, Len(q) = n + 1
               PROVE  q \in S
    OBVIOUS
  <2>1. ~IsRoot(q) => Hub(q) \in Places /\ Len(Hub(q)) = n
    BY HubShape
  <2> QED  BY <1>3, <2>1
<1> HIDE DEF D
<1>4. D(1)
  BY <1>2, <1>3
<1>5. D(2)
  BY <1>4, <1>3
<1>6. D(3)
  BY <1>5, <1>3
<1>7. D(4)
  BY <1>6, <1>3
<1>8. D(5)
  BY <1>7, <1>3
<1>9. D(6)
  BY <1>8, <1>3
<1> QED  BY <1>1, <1>4, <1>5, <1>6, <1>7, <1>8, <1>9 DEF D

\* The high speed hubs above p, and the translator they make.
HighAbove(p) == {q \in Places : p \in Below(q) /\ q # p /\ plug[q].speed = "high"}
Nearest(p) == CHOOSE q \in HighAbove(p) : \A r \in HighAbove(p) : Len(r) <= Len(q)
TreeTT(p) ==
  IF plug[p].speed = "high" \/ HighAbove(p) = {} THEN NoTT
  ELSE [hub |-> answers[Nearest(p)], port |-> p[Len(Nearest(p)) + 1]]

LEMMA NearestIn ==
  ASSUME NEW p \in Places, NEW h \in HighAbove(p)
  PROVE  Nearest(p) \in HighAbove(p) /\ \A r \in HighAbove(p) : Len(r) <= Len(Nearest(p))
<1> DEFINE A == HighAbove(p)
           D(n) == (\E q \in A : Len(q) >= n) => \E q \in A : \A r \in A : Len(r) <= Len(q)
<1>1. A \subseteq Places /\ \A q \in A : Len(q) \in 1 .. 6
  BY PlaceShape DEF HighAbove
<1> HIDE DEF A
<1>2. D(7)
  BY <1>1
<1>3. ASSUME NEW n \in 1 .. 6, D(n + 1)
      PROVE  D(n)
  <2> SUFFICES ASSUME NEW q \in A, Len(q) >= n, ~\E g \in A : Len(g) >= n + 1
               PROVE  \A r \in A : Len(r) <= Len(q)
    BY <1>3
  <2>1. ASSUME NEW r \in A
        PROVE  Len(r) <= Len(q)
    BY <1>1
  <2> QED  BY <2>1
<1> HIDE DEF D
<1>4. D(6)
  BY <1>2, <1>3
<1>5. D(5)
  BY <1>4, <1>3
<1>6. D(4)
  BY <1>5, <1>3
<1>7. D(3)
  BY <1>6, <1>3
<1>8. D(2)
  BY <1>7, <1>3
<1>9. D(1)
  BY <1>8, <1>3
<1>10. h \in A
  BY DEF A
<1>11. \E q \in A : \A r \in A : Len(r) <= Len(q)
  <2>1. \E q \in A : Len(q) >= 1
    BY <1>1, <1>10
  <2> QED  BY <1>9, <2>1 DEF D
<1> QED  BY <1>11 DEF Nearest, A

LEMMA HubTier ==
  ASSUME NEW p \in Places, ~IsRoot(p)
  PROVE  /\ Len(Hub(p)) = Len(p) - 1 /\ Len(p) \in 2 .. 6 /\ Len(Hub(p)) \in 1 .. 5
         /\ \A i \in 1 .. Len(p) - 1 : Hub(p)[i] = p[i]
<1>1. Len(p) \in 1 .. 6 /\ Len(p) # 1
  BY PlaceShape DEF IsRoot
<1>2. Len(Hub(p)) = Len(p) - 1 /\ \A i \in 1 .. Len(p) - 1 : Hub(p)[i] = p[i]
  BY HubShape
<1> QED  BY <1>1, <1>2

LEMMA LocalIsTree ==
  ASSUME Core, Attached, Translated
  PROVE  \A p \in Places : answers[p] # 0 => hw[answers[p]].tt = TreeTT(p)
<1> DEFINE S == {p \in Places : answers[p] # 0 => hw[answers[p]].tt = TreeTT(p)}
<1>1. ASSUME NEW p \in Places, answers[p] # 0
      PROVE  hw[answers[p]].tt = LocalTT(p)
  BY <1>1 DEF Translated
<1>2. ASSUME NEW p \in Places, IsRoot(p)
      PROVE  p \in S
  <2>1. HighAbove(p) = {}
    BY <1>2, RootAlone DEF HighAbove, Under
  <2> QED  BY <1>1, <1>2, <2>1 DEF LocalTT, TreeTT
<1>3. ASSUME NEW p \in Places, ~IsRoot(p), Hub(p) \in S, answers[p] # 0
      PROVE  hw[answers[p]].tt = TreeTT(p)
  <2> DEFINE h == Hub(p)
  <2>1. h \in Places /\ answers[h] # 0 /\ p \in Under(h)
        /\ \A q \in Places : p \in Under(q) <=> h \in Below(q)
    BY <1>3, HubAbove DEF Attached
  <2>2. Len(h) = Len(p) - 1 /\ Len(p) \in 2 .. 6 /\ Len(h) \in 1 .. 5
        /\ \A i \in 1 .. Len(p) - 1 : h[i] = p[i]
    BY <1>3, HubTier
  <2>3. hw[answers[h]].tt = TreeTT(h)
    BY <1>3, <2>1
  <2>4. LocalTT(p) = IF plug[p].speed = "high" THEN NoTT
                     ELSE IF plug[h].speed = "high" THEN [hub |-> answers[h], port |-> p[Len(p)]]
                     ELSE TreeTT(h)
    BY <1>3, <2>3 DEF LocalTT
  <2> HIDE DEF h
  <2>5. \A q : q \in HighAbove(p) <=> q \in Places /\ h \in Below(q) /\ plug[q].speed = "high"
    BY <2>1 DEF HighAbove, Under
  <2>6. CASE plug[p].speed = "high"
    BY <1>1, <1>3, <2>4, <2>6 DEF TreeTT
  <2>7. CASE plug[p].speed # "high" /\ plug[h].speed = "high"
    <3>1. h \in HighAbove(p)
      BY <2>1, <2>5, <2>7, BelowOrder
    <3>2. Nearest(p) \in HighAbove(p) /\ Len(h) <= Len(Nearest(p))
      BY <3>1, NearestIn
    <3>3. Nearest(p) \in Places /\ h \in Below(Nearest(p))
      BY <2>5, <3>2
    <3>4. Len(Nearest(p)) <= Len(h) /\ Len(Nearest(p)) \in 1 .. 6
      BY <2>1, <3>3, BelowOrder, PlaceShape
    <3>5. Len(Nearest(p)) = Len(h)
      BY <2>2, <3>2, <3>4
    <3>6. Nearest(p) = h
      BY <2>1, <3>3, <3>5, BelowOrder
    <3>7. Len(h) + 1 = Len(p) /\ HighAbove(p) # {}
      BY <2>2, <3>1
    <3>8. TreeTT(p) = [hub |-> answers[h], port |-> p[Len(p)]]
      BY <2>7, <3>6, <3>7 DEF TreeTT
    <3> QED  BY <1>1, <1>3, <2>4, <2>7, <3>8
  <2>8. CASE plug[p].speed # "high" /\ plug[h].speed # "high"
    <3>1. HighAbove(p) = HighAbove(h)
      <4>1. \A q : q \in HighAbove(h) <=> q \in Places /\ h \in Below(q) /\ plug[q].speed = "high"
        BY <2>8 DEF HighAbove
      <4> QED  BY <2>5, <4>1
    <3>2. Nearest(p) = Nearest(h)
      BY <3>1 DEF Nearest
    <3>3. ASSUME HighAbove(h) # {}
          PROVE  h[Len(Nearest(h)) + 1] = p[Len(Nearest(h)) + 1]
      <4>1. Nearest(h) \in HighAbove(h)
        BY <2>1, <3>3, NearestIn
      <4> DEFINE q == Nearest(h)
      <4>2. q \in Places /\ h \in Below(q) /\ q # h
        BY <4>1 DEF HighAbove
      <4> HIDE DEF q
      <4>3. Len(q) <= Len(h) /\ Len(q) # Len(h) /\ Len(q) \in 1 .. 6
        BY <2>1, <4>2, BelowOrder, PlaceShape
      <4>4. Len(q) + 1 \in 1 .. Len(p) - 1
        BY <2>2, <4>3
      <4> QED  BY <2>2, <4>4 DEF q
    <3>4. TreeTT(p) = TreeTT(h)
      BY <2>8, <3>1, <3>2, <3>3 DEF TreeTT
    <3> QED  BY <1>1, <1>3, <2>4, <2>8, <3>4
  <2> QED  BY <2>6, <2>7, <2>8
<1>4. Places \subseteq S
  <2>1. \A q \in Places : IsRoot(q) => q \in S
    BY <1>2
  <2>2. \A q \in Places : ~IsRoot(q) /\ Hub(q) \in S => q \in S
    BY <1>3
  <2> HIDE DEF S
  <2> QED  BY <2>1, <2>2, TreeWhole
<1> QED  BY <1>4

\* Every device that answers has the transaction translator its place calls for,
\* whatever is attached, detached, reset and polled in the meantime and
\* whichever commands fail: XhcInitializeDeviceSlot, which looks at the parent's
\* slot context alone, names the nearest high speed hub above.
THEOREM TranslatorsRight == Spec => []TTFollowsTree
<1> DEFINE Inv == Core /\ RingInv /\ Attached /\ Silent /\ Translated
<1>1. Init => Inv
  BY CoreInit, RingInit, WiredInit, TranslatedInit
<1>2. Inv /\ [Next]_vars => Inv'
  BY CoreStep, RingStep, WiredStep, TranslatedStep
<1>3. Inv => TTFollowsTree
  BY LocalIsTree DEF TTFollowsTree, TreeTT, Nearest, HighAbove
<1> QED  BY <1>1, <1>2, <1>3, PTL DEF Spec

-----------------------------------------------------------------------------
(* The addresses of UsbBus and those of the entries.                         *)

\* Between the loss of the old slots of a place and the end of its enumeration.
Gone == enum.at = "remove" \/ (enum.at = "polled" /\ call.at \in {"attempt", "done"})
AddressDue == enum.at = "address" \/ (enum.at = "await" /\ call.at \in {"address", "undo", "done"})
Emptied == enum.at = "address" \/ (enum.at = "await" /\ call.at \in {"attempt", "address", "undo", "done"})

\* The addresses UsbBus has given and those in the entries in use: the same for
\* the same place, and an entry in use without one is the one that waits for it.
Numbered ==
  /\ \A p, q \in Places : bus[p] = bus[q] /\ bus[p] # 0 => p = q
  /\ \A s \in Slots : Live(s) => hw[s].on
  /\ \A s \in Slots : Live(s) /\ ctx[s].busAddr # 0 => \E p \in Places : At(s, p) /\ bus[p] = ctx[s].busAddr
  /\ \A s \in Slots : Live(s) /\ ctx[s].busAddr = 0 =>
       /\ AddressDue /\ At(s, enum.place)
       /\ call.at \notin {"address", "undo"} => ctx[s].xhciAddr
       /\ enum.at = "await" => call.connected
  /\ Gone => \A p \in Below(enum.place), s \in Slots : ~At(s, p)
  /\ Emptied => \A p \in Below(enum.place), s \in Slots : At(s, p) => ctx[s].busAddr = 0

LEMMA NumberedSame ==
  ASSUME Numbered, UNCHANGED <<hw, ctx, call, bus, enum>>
  PROVE  Numbered'
BY DEF Numbered, Gone, AddressDue, Emptied, At, Live, Route, Below

\* A step while no slot waits for its address.
LEMMA NumberedKept ==
  ASSUME Core, Numbered, ~AddressDue,
         SlotsKept, \A t \in Slots : ctx'[t].busAddr = ctx[t].busAddr, bus' = bus,
         Gone' => Gone /\ enum'.place = enum.place,
         Emptied' => Emptied /\ enum'.place = enum.place
  PROVE  Numbered'
<1>1. /\ \A t \in Slots : Live(t)' => Live(t)
      /\ \A t \in Slots, p \in Places : At(t, p)' => At(t, p)
      /\ \A t \in Slots, p \in Places : At(t, p) => At(t, p)'
  BY KeptAt
<1>2. \A s \in Slots : Live(s)' => hw'[s].on /\ ctx'[s].busAddr # 0
  BY <1>1 DEF Numbered, SlotsKept
<1>3. \A s \in Slots : Live(s)' => \E p \in Places : At(s, p)' /\ bus'[p] = ctx'[s].busAddr
  BY <1>1, <1>2 DEF Numbered
<1>4. \A p \in Places : Below(p) \subseteq Places
  BY DEF Below
<1>5. ASSUME Gone'
      PROVE  \A p \in Below(enum'.place), s \in Slots : ~At(s, p)'
  <2>1. enum.place \in Places
    BY <1>5, EnumFields DEF Gone, Core, TypeOK
  <2> QED  BY <1>1, <1>4, <1>5, <2>1 DEF Numbered
<1>6. ASSUME Emptied'
      PROVE  \A p \in Below(enum'.place), s \in Slots : At(s, p)' => ctx'[s].busAddr = 0
  <2>1. enum.place \in Places
    BY <1>6, EnumFields DEF Emptied, Core, TypeOK
  <2> QED  BY <1>1, <1>4, <1>6, <2>1 DEF Numbered
<1>7. \A p, q \in Places : bus'[p] = bus'[q] /\ bus'[p] # 0 => p = q
  BY DEF Numbered
<1> QED
  BY <1>2, <1>3, <1>5, <1>6, <1>7 DEF Numbered, Below, Gone, Emptied

\* UsbBus never runs out of addresses.
LEMMA AddressLeft ==
  ASSUME Core, NEW p \in Places
  PROVE  IF bus[p] # 0 THEN bus[p] # 0
         ELSE FreeAddress # 0 /\ \A q \in Places : bus[q] # FreeAddress
<1> DEFINE B == {bus[q] : q \in Places}
           S == Addresses \ B
<1>1. SUFFICES ASSUME bus[p] = 0
               PROVE  FreeAddress # 0 /\ \A q \in Places : bus[q] # FreeAddress
  OBVIOUS
<1>2. S # {}
  <2> SUFFICES ASSUME Addresses \subseteq B
               PROVE  FALSE
    OBVIOUS
  <2>1. IsFiniteSet(Places) /\ Cardinality(Addresses) >= Cardinality(Places)
    BY AddressAssumption
  <2>2. IsFiniteSet(B) /\ Cardinality(B) <= Cardinality(Places)
    <3>1. bus \in [Places -> Addresses \cup {0}]
      BY DEF Core, TypeOK, BusOK
    <3>2. bus \in [Places -> B] /\ \A b \in B : \E q \in Places : bus[q] = b
      BY <3>1
    <3>3. bus \in Surjection(Places, B)
      BY <3>2 DEF Surjection
    <3> HIDE DEF B
    <3> QED  BY <2>1, <3>3, FS_Surjection
  <2>3. 0 \in B /\ 0 \notin Addresses
    BY <1>1, SlotAssumption
  <2> HIDE DEF B, S
  <2>4. IsFiniteSet(B \ {0}) /\ Cardinality(B \ {0}) = Cardinality(B) - 1
    BY <2>2, <2>3, FS_RemoveElement
  <2>5. Addresses \subseteq B \ {0}
    BY <2>3
  <2>6. Cardinality(Addresses) <= Cardinality(B \ {0})
    BY <2>4, <2>5, FS_Subset
  <2>7. /\ Cardinality(B) \in Nat /\ Cardinality(Places) \in Nat /\ Cardinality(B \ {0}) \in Nat
        /\ Cardinality(Addresses) \in Nat
    BY <2>1, <2>2, <2>4, <2>5, FS_Subset, FS_CardinalityType
  <2> QED  BY <2>1, <2>2, <2>4, <2>6, <2>7
<1>3. S \subseteq Nat \ {0}
  BY SlotAssumption
<1>4. Lowest(S) \in S /\ Lowest(S) # 0
  <2> HIDE DEF S
  <2> QED  BY <1>2, <1>3, LowestIn
<1>5. FreeAddress = Lowest(S)
  BY DEF FreeAddress
<1> QED  BY <1>4, <1>5

LEMMA NumberedPoll ==
  ASSUME Core, Numbered, NEW p \in Places, PollOf(p)
  PROVE  Numbered'
<1>1. /\ call'.at = IF SlotsOn(Route[p]) # {} THEN "old" ELSE "attempt"
      /\ enum'.place = p /\ call.at = "idle" /\ enum.at \in {"idle", "await"}
      /\ enum'.at \in {"polled", "await"}
      /\ UNCHANGED <<hw, ctx, bus>>
  BY PollStarts DEF PollOf
<1>2. ~AddressDue
  BY <1>1 DEF AddressDue
<1>3. \A s \in Slots : Live(s) => hw[s].on /\ ctx[s].busAddr # 0
  BY <1>2 DEF Numbered
<1>4. ASSUME call'.at = "attempt", NEW q \in Below(p), NEW s \in Slots
      PROVE  ~At(s, q)
  <2>1. \A t \in Slots : ~At(t, p)
    BY <1>1, <1>4, SlotsThere
  <2> QED  BY <2>1, SlotsAbove
<1>5. Gone' \/ Emptied' => call'.at = "attempt"
  BY <1>1 DEF Gone, Emptied
<1>6. Gone' \/ Emptied' => \A q \in Below(enum'.place), s \in Slots : ~At(s, q)
  BY <1>1, <1>4, <1>5
<1> QED
  BY <1>1, <1>3, <1>6 DEF Numbered, At, Live, Route, Below, Gone, Emptied

\* Where no command fails nothing of the place is left.
LEMMA DisableWhole ==
  ASSUME Core, DisableOld \/ UndoSlot, ~botched', stuck = {}
  PROVE  /\ stuck' = {}
         /\ \A t \in Slots : /\ Live(t)' => Live(t) /\ ctx'[t] = ctx[t] /\ hw'[t] = hw[t]
                             /\ \A q \in Places : At(t, q)' => At(t, q) /\ q \notin Below(enum.place)
                             /\ ctx'[t].route = ctx[t].route /\ ctx'[t].busAddr = ctx[t].busAddr
                             /\ Live(t) /\ ~Live(t)' => Reach(t, enum.place)
         /\ \A u \in urbs' : \E v \in urbs :
              /\ u.slot = v.slot /\ u.addr = v.addr
              /\ Live(v.slot)' => u = v
<1> DEFINE p == enum.place
<1>1. /\ p \in Places
      /\ DriverOK /\ WorldOK /\ BoundOK /\ OneSlotPerPlace /\ Placed /\ Rooted
  BY Disables DEF Core, Calls, TypeOK
<1>2. PICK s \in Slots : \E failed \in SUBSET Subtree(s) : \E executed \in SUBSET failed :
         At(s, p) /\ DisableSlot(s, failed, executed)
  BY Disables
<1> HIDE DEF p
<1>3. PICK failed \in SUBSET Subtree(s) : \E executed \in SUBSET failed :
         At(s, p) /\ DisableSlot(s, failed, executed)
  BY <1>2
<1>4. PICK executed \in SUBSET failed : At(s, p) /\ DisableSlot(s, failed, executed)
  BY <1>3
<1>5. failed = {} /\ stuck' = {} /\ urbs' = FreeRings(Subtree(s))
  BY <1>4 DEF DisableSlot
<1>6. ASSUME NEW t \in Slots
      PROVE  /\ ~Reach(t, p) => ctx'[t] = ctx[t] /\ hw'[t] = hw[t]
             /\ Reach(t, p) => ~Live(t)'
             /\ Live(t)' => Live(t) /\ ctx'[t] = ctx[t]
             /\ ctx'[t].route = ctx[t].route /\ ctx'[t].busAddr = ctx[t].busAddr
  BY <1>1, <1>4, DisableEffect
<1>7. ASSUME NEW t \in Slots, NEW q \in Places, At(t, q)'
      PROVE  At(t, q) /\ q \notin Below(p)
  <2>1. Live(t)' /\ Live(t) /\ ctx'[t] = ctx[t] /\ ~Reach(t, p)
    BY <1>6, <1>7 DEF At
  <2>2. At(t, q)
    BY <1>7, <2>1 DEF At, Route
  <2> QED  BY <2>1, <2>2 DEF Reach
<1>8. ASSUME NEW t \in Slots, Live(t), ~Live(t)'
      PROVE  Reach(t, p)
  BY <1>6, <1>8 DEF Live
<1>9. ASSUME NEW u \in urbs'
      PROVE  \E v \in urbs : /\ u.slot = v.slot /\ u.addr = v.addr
                             /\ Live(v.slot)' => u = v
  <2>1. PICK v \in urbs : u = IF v.slot \in Subtree(s) /\ v.ring = "own" THEN [v EXCEPT !.ring = "freed"] ELSE v
    BY <1>5, <1>9 DEF FreeRings
  <2>2. v \in TransferList
    BY <1>1 DEF DriverOK
  <2>3. v.slot \in Slots
    BY <2>2 DEF TransferList
  <2>4. v.slot \in Subtree(s) => Reach(v.slot, p)
    BY <1>1, <1>4, <2>3, SubtreeIs DEF Reach
  <2>5. Live(v.slot)' => v.slot \notin Subtree(s)
    <3>1. \A t \in Slots : t = v.slot => (Live(t)' => ~Reach(t, p))
      BY <1>6
    <3>2. \A t \in Slots : t = v.slot => (Live(v.slot)' => Live(t)')
      BY DEF Live
    <3> QED  BY <2>3, <2>4, <3>1, <3>2
  <2>6. u.slot = v.slot /\ u.addr = v.addr
    BY <2>1, <2>2, TransferFreed
  <2> QED  BY <2>1, <2>5, <2>6
<1> QED  BY <1>5, <1>6, <1>7, <1>8, <1>9 DEF p

\* A reset is seen by the poll that UsbBus awaits, and by no other.
Pending ==
  /\ \A q \in Places : "reset" \in port[q].changes =>
       enum.at = "await" /\ call.at = "idle" /\ enum.place = q /\ CanPoll(q)
  /\ enum.at = "polled" => call.at \in {"old", "attempt", "done"} /\ ~call.reset

\* The hubs above whatever UsbBus deals with are configured; what is configured
\* has an address, and nothing behind a place being enumerated is.
Later == {"address", "describe", "config", "hub", "start"}
Standing ==
  /\ \A p \in ready : bus[p] # 0
  /\ \A h \in Places : \A p \in (ready \cup hubs) \cap Under(h) : h \in hubs
  /\ enum.at # "idle" => \A h \in Places : enum.place \in Under(h) => h \in hubs
  /\ enum.at \in Later \cup {"reset", "await"} => ready \cap Below(enum.place) = {}
  /\ enum.at \in Later \ {"address"} => bus[enum.place] # 0

\* A slot enabled for the place under enumeration waits for its address.
LEMMA NumberedEnable ==
  ASSUME Core, Numbered, Pending, EnableSlot, NEW s \in Slots, EnableTakes(s)
  PROVE  Numbered'
<1>1. /\ ctx'[s] = NewEntry(s) /\ hw'[s].on /\ ~hw[s].on
      /\ \A t \in Slots \ {s} : ctx'[t] = ctx[t] /\ hw'[t] = hw[t]
      /\ call' \in Polls /\ SamePoll /\ call'.at = "address" /\ call'.slot = s
      /\ call.at = "attempt" /\ call.up /\ call.reset
      /\ UNCHANGED <<bus, enum>>
  BY EnableCases, TakenEffect DEF EnableTakes, EnableSlot, NeedsSlot
<1>2. /\ enum.at = "await" /\ enum.place \in Places /\ call.chart = Route[enum.place]
      /\ call.connected
  BY <1>1 DEF Core, Calls, Pending
<1>3. ctx'[s].enabled /\ ctx'[s].slot = s /\ ctx'[s].busAddr = 0 /\ ctx'[s].route = Route[enum.place]
  BY <1>1, <1>2 DEF NewEntry
<1>4. \A t \in Slots \ {s} : Live(t)' => Live(t) /\ hw'[t].on /\ ctx'[t].busAddr # 0
  <2>1. ~AddressDue
    BY <1>1, <1>2 DEF AddressDue
  <2> SUFFICES ASSUME NEW t \in Slots \ {s}, Live(t)'
               PROVE  Live(t) /\ hw'[t].on /\ ctx'[t].busAddr # 0
    OBVIOUS
  <2>2. ctx'[t] = ctx[t] /\ hw'[t] = hw[t] /\ Live(t)
    BY <1>1 DEF Live
  <2> QED  BY <2>1, <2>2 DEF Numbered
<1>5. \A t \in Slots \ {s}, q \in Places : At(t, q)' <=> At(t, q)
  BY <1>1 DEF At, Live, Route
<1>6. \A t \in Slots : Live(t)' => hw'[t].on
  BY <1>1, <1>4
<1>7. \A t \in Slots : Live(t)' /\ ctx'[t].busAddr # 0 => \E q \in Places : At(t, q)' /\ bus'[q] = ctx'[t].busAddr
  <2> SUFFICES ASSUME NEW t \in Slots, Live(t)', ctx'[t].busAddr # 0
               PROVE  \E q \in Places : At(t, q)' /\ bus'[q] = ctx'[t].busAddr
    OBVIOUS
  <2>1. t # s
    BY <1>3
  <2>2. PICK q \in Places : At(t, q) /\ bus[q] = ctx[t].busAddr
    BY <1>1, <1>4, <2>1 DEF Numbered
  <2> QED  BY <1>1, <1>5, <2>1, <2>2
<1>8. \A t \in Slots : Live(t)' /\ ctx'[t].busAddr = 0 => t = s
  BY <1>4
<1>9. AddressDue' /\ At(s, enum.place)' /\ call'.connected /\ ~Gone' /\ enum'.at = "await"
  <2>1. At(s, enum.place)'
    <3>1. s # 0
      BY SlotAssumption
    <3> QED  BY <1>1, <1>3, <3>1 DEF At, Live, Route
  <2> QED  BY <1>1, <1>2, <2>1 DEF AddressDue, Gone, SamePoll
<1>10. \A p \in Below(enum.place), t \in Slots : At(t, p)' => ctx'[t].busAddr = 0
  <2> SUFFICES ASSUME NEW p \in Below(enum.place), NEW t \in Slots, At(t, p)', t # s
               PROVE  FALSE
    BY <1>3
  <2>1. At(t, p)
    BY <1>5 DEF Below
  <2>2. Emptied
    BY <1>1, <1>2 DEF Emptied
  <2>3. Live(t)' /\ ctx'[t].busAddr = 0
    BY <1>1, <2>1, <2>2 DEF Numbered, At
  <2> QED  BY <1>4, <2>3
<1>11. \A p, q \in Places : bus'[p] = bus'[q] /\ bus'[p] # 0 => p = q
  BY <1>1 DEF Numbered
<1> QED
  BY <1>1, <1>6, <1>7, <1>8, <1>9, <1>10, <1>11 DEF Numbered, Below

LEMMA NumberedDisable ==
  ASSUME Core, Numbered, stuck = {}, DisableOld \/ UndoSlot, ~botched'
  PROVE  Numbered'
<1>1. /\ UNCHANGED <<bus, enum>> /\ call.at \in {"old", "undo"} /\ call'.at \in {"attempt", "done"}
      /\ enum.place \in Places
  BY Disables DEF Core, Calls
<1>2. \A t \in Slots : /\ Live(t)' => Live(t) /\ ctx'[t] = ctx[t] /\ hw'[t] = hw[t]
                       /\ \A q \in Places : At(t, q)' => At(t, q) /\ q \notin Below(enum.place)
  BY DisableWhole
<1>3. ASSUME NEW t \in Slots, Live(t)'
      PROVE  hw'[t].on /\ ctx'[t].busAddr # 0 /\ \E q \in Places : At(t, q)' /\ bus'[q] = ctx'[t].busAddr
  <2>1. Live(t) /\ ctx'[t] = ctx[t] /\ hw'[t] = hw[t] /\ \A q \in Places : At(t, q) => At(t, q)'
    BY <1>2, <1>3 DEF At, Live, Route
  <2>2. ctx[t].busAddr # 0
    <3> SUFFICES ASSUME ctx[t].busAddr = 0
                 PROVE  FALSE
      OBVIOUS
    <3>1. At(t, enum.place)
      BY <2>1 DEF Numbered
    <3>2. \A q \in Places : q = enum.place => At(t, q)'
      BY <2>1, <3>1
    <3> QED  BY <1>1, <1>2, <3>2, BelowOrder
  <2> QED  BY <1>1, <2>1, <2>2 DEF Numbered
<1>4. \A p \in Below(enum.place), t \in Slots : ~At(t, p)'
  BY <1>2 DEF Below
<1>5. \A p, q \in Places : bus'[p] = bus'[q] /\ bus'[p] # 0 => p = q
  BY <1>1 DEF Numbered
<1> QED
  BY <1>1, <1>3, <1>4, <1>5 DEF Numbered, Below

LEMMA NumberedAddress ==
  ASSUME Core, Numbered, Pending, AddressDevice
  PROVE  Numbered'
<1> DEFINE s == call.slot
<1>1. /\ s \in Slots /\ At(s, enum.place) /\ enum.place \in Places
      /\ SlotsKept
      /\ \A t \in Slots : ctx'[t].busAddr = ctx[t].busAddr
      /\ \A t \in Slots \ {s} : ctx'[t] = ctx[t]
      /\ call'.at = "done" => ctx'[s].xhciAddr
      /\ SamePoll /\ call'.at \in {"done", "undo"}
      /\ UNCHANGED <<bus, enum>> /\ call.at = "address"
  BY AddressEffect, AddressCases
<1> HIDE DEF s
<1>2. /\ \A t \in Slots : Live(t)' => Live(t)
      /\ \A t \in Slots, p \in Places : At(t, p)' => At(t, p)
      /\ \A t \in Slots, p \in Places : At(t, p) => At(t, p)'
  BY <1>1, KeptAt
<1>3. enum.at = "await"
  BY <1>1 DEF Pending, Core, Calls
<1>4. \A t \in Slots : Live(t)' => hw'[t].on
  BY <1>1, <1>2 DEF Numbered, SlotsKept
<1>5. \A t \in Slots : Live(t)' /\ ctx'[t].busAddr # 0 => \E p \in Places : At(t, p)' /\ bus'[p] = ctx'[t].busAddr
  BY <1>1, <1>2 DEF Numbered
<1>6. ASSUME NEW t \in Slots, Live(t)', ctx'[t].busAddr = 0
      PROVE  At(t, enum.place)' /\ (call'.at = "done" => ctx'[t].xhciAddr) /\ call'.connected
  <2>1. At(t, enum.place) /\ call.connected
    BY <1>1, <1>2, <1>3, <1>6 DEF Numbered
  <2>2. t = s
    BY <1>1, <2>1 DEF Core, OneSlotPerPlace, At
  <2>3. \A p \in Places : p = enum.place => At(t, p)'
    BY <1>2, <2>1
  <2> QED  BY <1>1, <2>1, <2>2, <2>3 DEF At, SamePoll
<1>7. \A p \in Below(enum.place), t \in Slots : At(t, p)' => ctx'[t].busAddr = 0
  <2>1. Emptied
    BY <1>1, <1>3 DEF Emptied
  <2> QED  BY <1>1, <1>2, <2>1 DEF Numbered, Below
<1>8. \A p, q \in Places : bus'[p] = bus'[q] /\ bus'[p] # 0 => p = q
  BY <1>1 DEF Numbered
<1>9. AddressDue' /\ ~Gone' /\ enum'.at = "await"
  BY <1>1, <1>3 DEF AddressDue, Gone
<1> QED
  BY <1>1, <1>4, <1>5, <1>6, <1>7, <1>8, <1>9 DEF Numbered, Below

-----------------------------------------------------------------------------
(* The steps of UsbBus and the class drivers, one by one.                    *)

\* The steps of UsbBus and the class drivers that leave devices and slots alone.
Learns ==
  /\ Aside /\ call.at = "done" /\ enum.at = "polled"
  /\ enum'.at = "remove" /\ enum'.place = enum.place
  /\ enum'.todo = {u \in urbs : \E p \in Below(enum.place) : u.addr = bus[p]}
  /\ UNCHANGED <<urbs, bus, ready, hubs>>
Cancels ==
  /\ Aside /\ call.at = "idle" /\ enum.at = "remove"
  /\ enum'.at = "remove" /\ enum'.place = enum.place
  /\ \E u \in enum.todo : Cancel(u) /\ enum'.todo = enum.todo \ {u}
  /\ UNCHANGED <<bus, ready, hubs>>
Releases ==
  /\ Aside /\ call.at = "idle" /\ enum.at = "remove" /\ enum.todo = {}
  /\ bus' = [p \in Places |-> IF p \in Below(enum.place) THEN 0 ELSE bus[p]]
  /\ ready' = ready \ Below(enum.place) /\ hubs' = hubs \ Below(enum.place)
  /\ enum'.at = "idle" \/ (enum'.at = "reset" /\ enum'.place = enum.place)
  /\ UNCHANGED urbs
EndsAwait ==
  /\ Aside /\ call.at = "done" /\ enum.at = "await"
  /\ \/ call.connected /\ enum'.at = "address" /\ enum'.place = enum.place
     \/ ~call.connected /\ enum'.at = "idle"
  /\ UNCHANGED <<urbs, bus, ready, hubs>>
Starts ==
  /\ Aside /\ call.at = "idle" /\ enum.at = "start" /\ enum'.at = "idle"
  /\ ready' = ready \cup {enum.place}
  /\ UNCHANGED <<urbs, bus, hubs>>
GivesUp ==
  /\ Aside /\ call.at = "idle" /\ enum'.at = "idle"
  /\ enum.at \in {"describe", "config", "hub"} \/ (enum.at = "await" /\ ~CanPoll(enum.place))
  /\ UNCHANGED <<urbs, bus, ready, hubs>>
Subscribes(p) ==
  /\ Aside /\ Subscribe(p) /\ call.at = "idle" /\ enum.at = "idle"
  /\ UNCHANGED <<bus, ready, hubs, enum>>
Unsubscribes ==
  /\ Aside /\ call.at = "idle" /\ enum.at = "idle"
  /\ \E u \in urbs : Cancel(u)
  /\ UNCHANGED <<bus, ready, hubs, enum>>
ClassResets(p) ==
  /\ Aside /\ call.at = "idle" /\ enum.at = "idle"
  /\ p \in ready \ hubs /\ Subscribed(p) = {}
  /\ enum'.at = "reset" /\ enum'.place = p /\ ready' = ready \ {p}
  /\ UNCHANGED <<urbs, bus, hubs>>
Tuned ==
  /\ Tuning
  /\ \/ enum.at = "idle" /\ UNCHANGED <<enum, hubs>>
     \/ /\ enum.at \in {"describe", "config", "hub"}
        /\ enum'.at = "idle" \/ (enum'.at \in {"config", "hub", "start"} /\ enum'.place = enum.place)
        /\ hubs' = hubs \/ hubs' = hubs \cup {enum.place}

LEMMA Proceeds ==
  ASSUME BusOK, enum.at \in Configuring, NEW c \in Answers, NEW at \in Configuring, Proceed(c, at)
  PROVE  enum'.at = "idle" \/ (enum'.at = at /\ enum'.place = enum.place)
BY EnumGoes, EnumStops DEF Proceed

LEMMA TunedSteps ==
  ASSUME Core,
         \/ GetDeviceDescriptor \/ SetConfig \/ ConfigHub
         \/ \E p \in Places, alt \in Alternates : SetInterface(p, alt)
  PROVE  Tuned
<1>0. BusOK /\ Tuning
  BY Tunings DEF Core, TypeOK
<1>1. CASE GetDeviceDescriptor
  <2>1. enum.at = "describe" /\ hubs' = hubs /\ \E c \in Answers : Proceed(c, "config")
    BY <1>1 DEF GetDeviceDescriptor, Asks, Enumerating
  <2> QED  BY <1>0, <2>1, Proceeds DEF Tuned, Configuring
<1>2. CASE SetConfig
  <2> DEFINE next == IF ~enum.known /\ DeviceAt(bus[enum.place]).hub THEN "hub" ELSE "start"
  <2>1. enum.at = "config" /\ hubs' = hubs /\ (Goto(next) \/ \E c \in Answers : Proceed(c, next))
    BY <1>2 DEF SetConfig, Asks, Enumerating
  <2>2. next \in {"hub", "start"}
    OBVIOUS
  <2> HIDE DEF next
  <2> QED  BY <1>0, <2>1, <2>2, Proceeds, EnumGoes DEF Tuned, Configuring
<1>3. CASE ConfigHub
  <2>1. /\ enum.at = "hub" /\ (hubs' = hubs \/ hubs' = hubs \cup {enum.place})
        /\ \E c \in Answers : Proceed(c, "start")
    BY <1>3 DEF ConfigHub, Asks, Enumerating
  <2> QED  BY <1>0, <2>1, Proceeds DEF Tuned, Configuring
<1>4. CASE \E p \in Places, alt \in Alternates : SetInterface(p, alt)
  BY <1>0, <1>4 DEF SetInterface, usbbus, Using, Enumerating, Tuned
<1> QED  BY <1>1, <1>2, <1>3, <1>4

LEMMA BusSteps ==
  ASSUME Core
  PROVE  /\ BusLearns => Learns
         /\ BusCancels => Cancels
         /\ BusReleases => Releases
         /\ BusReset => EndsAwait
         /\ BusStarts => Starts
         /\ BusAbandons => GivesUp
         /\ \A p \in Places : /\ Subscribe(p) => Subscribes(p)
                              /\ Unsubscribe(p) => Unsubscribes
                              /\ ClassReset(p) => ClassResets(p)
<1>0. BusOK
  BY DEF Core, TypeOK
<1>1. ASSUME BusLearns PROVE Learns
  BY <1>1, Asides DEF BusLearns, Learns, driver
<1>2. ASSUME BusCancels PROVE Cancels
  <2>1. enum.at = "remove" /\ call.at = "idle" /\ UNCHANGED <<bus, ready, hubs>>
    BY <1>2 DEF BusCancels, Enumerating
  <2>2. PICK u \in enum.todo : Cancel(u) /\ enum' = [enum EXCEPT !.todo = @ \ {u}]
    BY <1>2 DEF BusCancels
  <2>3. enum \in [at : {"remove"}, place : Places, connected : BOOLEAN, todo : SUBSET TransferList]
    BY <1>0, <2>1 DEF BusOK, Enumerations, Configuring
  <2>4. enum'.at = "remove" /\ enum'.place = enum.place /\ enum'.todo = enum.todo \ {u}
    BY <2>2, <2>3
  <2> QED  BY <1>2, <2>1, <2>2, <2>4, Asides DEF Cancels
<1>3. ASSUME BusReleases PROVE Releases
  BY <1>3, Asides DEF BusReleases, Releases, driver, Enumerating, StartReset, GiveUp
<1>4. ASSUME BusReset PROVE EndsAwait
  <2>1. /\ call.at = "done" /\ enum.at = "await" /\ UNCHANGED <<urbs, bus, ready, hubs>>
        /\ IF call.connected THEN Goto("address") ELSE GiveUp
    BY <1>4 DEF BusReset, driver
  <2> QED  BY <1>0, <1>4, <2>1, EnumGoes, EnumStops, Asides DEF EndsAwait, Configuring
<1>5. ASSUME BusStarts PROVE Starts
  BY <1>5, Asides DEF BusStarts, Starts, driver, Enumerating, GiveUp
<1>6. ASSUME BusAbandons PROVE GivesUp
  BY <1>6, Asides DEF BusAbandons, GivesUp, driver, Enumerating, GiveUp
<1>7. ASSUME NEW p \in Places
      PROVE  /\ Subscribe(p) => Subscribes(p)
             /\ Unsubscribe(p) => Unsubscribes
             /\ ClassReset(p) => ClassResets(p)
  <2>1. ASSUME Subscribe(p) PROVE Subscribes(p)
    BY <2>1, Asides DEF Subscribe, Subscribes, Using, Enumerating, usbbus
  <2>2. ASSUME Unsubscribe(p) PROVE Unsubscribes
    BY <2>2, Asides DEF Unsubscribe, Unsubscribes, Using, Enumerating, usbbus, Subscribed
  <2>3. ASSUME ClassReset(p) PROVE ClassResets(p)
    BY <2>3, Asides DEF ClassReset, ClassResets, Using, Enumerating, driver, StartReset
  <2> QED  BY <2>1, <2>2, <2>3
<1> QED  BY <1>1, <1>2, <1>3, <1>4, <1>5, <1>6, <1>7

LEMMA AwaitGivesUp ==
  ASSUME Core, BusAwaits, Aside, GiveUp, UNCHANGED <<call, urbs, bus, ready, hubs>>
  PROVE  GivesUp
<1>1. call.at = "idle" /\ enum.at = "await" /\ enum'.at = "idle"
  BY DEF BusAwaits, Enumerating, GiveUp
<1>2. ~CanPoll(enum.place)
  <2> SUFFICES ASSUME CanPoll(enum.place)
               PROVE  FALSE
    OBVIOUS
  <2>1. PollPort(enum.place)
    BY DEF BusAwaits
  <2>2. call'.at \in {"old", "attempt"}
    BY <2>1 DEF PollPort
  <2> QED  BY <2>2 DEF Aside
<1> QED  BY <1>1, <1>2 DEF GivesUp

\* Every step, as the proofs about addresses look at them.
LEMMA Turns ==
  ASSUME Core, Next
  PROVE  \/ \E p \in Places : \E k \in Kinds[p] : Attach(p, k)
         \/ \E p \in Places : Detach(p) \/ PortError(p)
         \/ RoundEnds
         \/ DisableOld \/ UndoSlot
         \/ \E s \in Slots : EnableSlot /\ EnableTakes(s)
         \/ \E st \in Statuses : EnableSlot /\ EnableLeaks(st)
         \/ AddressDevice
         \/ \E p \in Places : PollOf(p)
         \/ Learns \/ Cancels \/ Releases \/ EndsAwait \/ Starts \/ GivesUp
         \/ \E p \in Places : Subscribes(p) \/ ClassResets(p)
         \/ Unsubscribes
         \/ BusResets
         \/ SetAddress
         \/ Tuned
<1>1. CASE PollStep
  BY <1>1, Rounds, EnableCases DEF PollStep
<1>2. CASE BusAwaits \/ \E p \in Places : BusPolls(p)
  BY <1>2, Polled, AwaitGivesUp
<1>3. CASE \/ BusLearns \/ BusCancels \/ BusReleases \/ BusReset \/ BusStarts \/ BusAbandons
           \/ \E p \in Places : Subscribe(p) \/ Unsubscribe(p) \/ ClassReset(p)
  BY <1>3, BusSteps
<1>4. CASE \/ GetDeviceDescriptor \/ SetConfig \/ ConfigHub
           \/ \E p \in Places, alt \in Alternates : SetInterface(p, alt)
  BY <1>4, TunedSteps
<1> QED  BY <1>1, <1>2, <1>3, <1>4 DEF Next

-----------------------------------------------------------------------------
(* Addresses: each step.                                                     *)

LEMMA NumberedReleases ==
  ASSUME Core, Numbered, Releases
  PROVE  Numbered'
<1>1. /\ UNCHANGED <<hw, ctx>> /\ call.at = "idle" /\ enum.at = "remove" /\ enum.place \in Places
      /\ bus' = [p \in Places |-> IF p \in Below(enum.place) THEN 0 ELSE bus[p]]
      /\ enum'.at \in {"idle", "reset"}
  BY EnumFields DEF Releases, Aside, Core, TypeOK
<1>2. ~AddressDue /\ Gone
  BY <1>1 DEF AddressDue, Gone
<1>3. \A s \in Slots : Live(s) => hw[s].on /\ ctx[s].busAddr # 0
  BY <1>2 DEF Numbered
<1>4. \A s \in Slots : Live(s) => \E q \in Places : At(s, q) /\ bus'[q] = ctx[s].busAddr
  <2> SUFFICES ASSUME NEW s \in Slots, Live(s)
               PROVE  \E q \in Places : At(s, q) /\ bus'[q] = ctx[s].busAddr
    OBVIOUS
  <2>1. PICK q \in Places : At(s, q) /\ bus[q] = ctx[s].busAddr
    BY <1>3 DEF Numbered
  <2>2. q \notin Below(enum.place)
    BY <1>2, <2>1 DEF Numbered
  <2> QED  BY <1>1, <2>1, <2>2
<1>5. \A p, q \in Places : bus'[p] = bus'[q] /\ bus'[p] # 0 => p = q
  BY <1>1 DEF Numbered
<1>6. ~Gone' /\ ~Emptied'
  BY <1>1 DEF Gone, Emptied, Releases, Aside
<1>7. \A s \in Slots : (Live(s)' => Live(s)) /\ \A q \in Places : At(s, q) => At(s, q)'
  BY <1>1 DEF At, Live, Route
<1> QED
  BY <1>1, <1>3, <1>4, <1>5, <1>6, <1>7 DEF Numbered

LEMMA NumberedEnds ==
  ASSUME Core, Numbered, EndsAwait
  PROVE  Numbered'
<1>1. /\ UNCHANGED <<hw, ctx, bus>> /\ call.at = "done" /\ enum.at = "await" /\ call'.at = "idle"
      /\ \/ call.connected /\ enum'.at = "address" /\ enum'.place = enum.place
         \/ ~call.connected /\ enum'.at = "idle"
  BY DEF EndsAwait, Aside
<1>2. Emptied
  BY <1>1 DEF Emptied
<1>3. \A s \in Slots : Live(s) => hw[s].on
  BY DEF Numbered
<1>4. \A s \in Slots : Live(s) /\ ctx[s].busAddr # 0 => \E p \in Places : At(s, p) /\ bus[p] = ctx[s].busAddr
  BY DEF Numbered
<1>5. \A s \in Slots : Live(s) /\ ctx[s].busAddr = 0 =>
        At(s, enum.place) /\ ctx[s].xhciAddr /\ enum'.at = "address" /\ enum'.place = enum.place
  BY <1>1 DEF Numbered
<1>6. \A p \in Below(enum.place), s \in Slots : At(s, p) => ctx[s].busAddr = 0
  BY <1>2 DEF Numbered
<1>7. \A p, q \in Places : bus[p] = bus[q] /\ bus[p] # 0 => p = q
  BY DEF Numbered
<1> QED
  BY <1>1, <1>3, <1>4, <1>5, <1>6, <1>7 DEF Numbered, At, Live, Route, Below, AddressDue, Gone, Emptied

\* Set_Address finds the slot of the device it is meant for or none.
LEMMA SetAddressWhole ==
  ASSUME Core, Numbered, SetAddress
  PROVE  /\ enum.at = "address" /\ call.at = "idle" /\ enum.place \in Places
         /\ bus' = [bus EXCEPT ![enum.place] = Given] /\ Given \in Addresses
         /\ \A q \in Places : bus[q] = Given => q = enum.place
         /\ UNCHANGED <<plug, port, answers, hw, urbs, call, ready, hubs, stuck, botched>>
         /\ SlotsKept
         /\ \A t \in Slots : Live(t) /\ ctx[t].busAddr # 0 => ctx'[t].busAddr = ctx[t].busAddr
         /\ \A t \in Slots : Live(t) /\ ctx[t].busAddr = 0 => ctx'[t].busAddr = Given /\ At(t, enum.place)
         /\ \A t \in Slots : ctx[t].busAddr # Given => ctx'[t].busAddr = ctx[t].busAddr \/ (Live(t) /\ ctx[t].busAddr = 0)
         /\ enum'.at = "idle" \/ (enum'.at \in {"config", "describe"} /\ enum'.place = enum.place)
<1>1. /\ enum.at = "address" /\ call.at = "idle" /\ enum.place \in Places
      /\ bus' = [bus EXCEPT ![enum.place] = Given] /\ Given \in Addresses \cup {0}
      /\ UNCHANGED <<plug, port, answers, hw, urbs, call, ready, hubs, stuck, botched>>
      /\ SlotsKept
  BY SetAddressEffect
<1> DEFINE s == BusDevAddrToSlotId(0)
<1>2. \/ s = 0 /\ GiveUp /\ ctx' = ctx
      \/ /\ s \in Slots /\ Live(s) /\ ctx[s].busAddr = 0 /\ ~ctx[s].xhciAddr
      \/ /\ s \in Slots /\ Live(s) /\ ctx[s].busAddr = 0 /\ ctx[s].xhciAddr
         /\ Goto("config") \/ Goto("describe")
         /\ \A t \in Slots \ {s} : ctx'[t].busAddr = IF Wiped(t) THEN 0 ELSE ctx[t].busAddr
         /\ ctx'[s].busAddr = Given
  BY SetAddressEffect
<1>3. \A t \in Slots : Live(t) /\ ctx[t].busAddr = 0 => s # 0
  BY ByAddress
<1> HIDE DEF s
<1>4. \A t \in Slots : Live(t) /\ ctx[t].busAddr = 0 => At(t, enum.place) /\ ctx[t].xhciAddr
  BY <1>1 DEF Numbered
<1>5. \A t \in Slots : Live(t) /\ ctx[t].busAddr = 0 /\ s \in Slots /\ Live(s) /\ ctx[s].busAddr = 0 => t = s
  BY <1>4 DEF Core, OneSlotPerPlace, At
<1>6. Given # 0 /\ \A q \in Places : bus[q] = Given => q = enum.place
  <2>1. CASE bus[enum.place] # 0
    BY <1>1, <2>1 DEF Given, Numbered
  <2>2. CASE bus[enum.place] = 0
    BY <1>1, <2>2, AddressLeft DEF Given
  <2> QED  BY <2>1, <2>2
<1>7. \A t \in Slots : Live(t) => ~Wiped(t)
  BY DEF Wiped, Live
<1>8. \A t \in Slots : Wiped(t) => ctx[t].busAddr = Given
  BY DEF Wiped
<1>9. BusOK
  BY DEF Core, TypeOK
<1>10. enum'.at = "idle" \/ (enum'.at \in {"config", "describe"} /\ enum'.place = enum.place)
  BY <1>1, <1>2, <1>4, <1>9, EnumGoes, EnumStops DEF Configuring
<1>11. CASE s = 0 /\ ctx' = ctx
  BY <1>1, <1>3, <1>6, <1>10, <1>11
<1>12. CASE /\ s \in Slots /\ Live(s) /\ ctx[s].busAddr = 0
            /\ \A t \in Slots \ {s} : ctx'[t].busAddr = IF Wiped(t) THEN 0 ELSE ctx[t].busAddr
            /\ ctx'[s].busAddr = Given
  <2>1. \A t \in Slots : Live(t) /\ ctx[t].busAddr # 0 => ctx'[t].busAddr = ctx[t].busAddr
    BY <1>7, <1>12
  <2>2. \A t \in Slots : Live(t) /\ ctx[t].busAddr = 0 => ctx'[t].busAddr = Given /\ At(t, enum.place)
    BY <1>4, <1>5, <1>12
  <2>3. \A t \in Slots : ctx[t].busAddr # Given => ctx'[t].busAddr = ctx[t].busAddr \/ (Live(t) /\ ctx[t].busAddr = 0)
    BY <1>8, <1>12
  <2> QED  BY <1>1, <1>6, <1>10, <2>1, <2>2, <2>3
<1> QED  BY <1>2, <1>4, <1>11, <1>12

LEMMA NumberedSetAddress ==
  ASSUME Core, Numbered, SetAddress
  PROVE  Numbered'
<1>1. /\ enum.at = "address" /\ call.at = "idle" /\ enum.place \in Places
      /\ bus' = [bus EXCEPT ![enum.place] = Given] /\ Given \in Addresses
      /\ \A q \in Places : bus[q] = Given => q = enum.place
      /\ UNCHANGED <<hw, call>> /\ SlotsKept
      /\ \A t \in Slots : Live(t) /\ ctx[t].busAddr # 0 => ctx'[t].busAddr = ctx[t].busAddr
      /\ \A t \in Slots : Live(t) /\ ctx[t].busAddr = 0 => ctx'[t].busAddr = Given /\ At(t, enum.place)
      /\ enum'.at \in {"idle", "config", "describe"}
  BY SetAddressWhole
<1>2. 0 \notin Addresses
  BY SlotAssumption
<1>3. /\ \A t \in Slots : Live(t)' => Live(t)
      /\ \A t \in Slots, p \in Places : At(t, p)' => At(t, p)
      /\ \A t \in Slots, p \in Places : At(t, p) => At(t, p)'
  BY <1>1, KeptAt
<1>4. bus'[enum.place] = Given /\ \A q \in Places \ {enum.place} : bus'[q] = bus[q] /\ bus[q] # Given
  BY <1>1 DEF Core, TypeOK, BusOK
<1>5. \A t \in Slots : Live(t)' => hw'[t].on /\ ctx'[t].busAddr # 0
  BY <1>1, <1>2, <1>3 DEF Numbered
<1>6. ASSUME NEW t \in Slots, Live(t)'
      PROVE  \E p \in Places : At(t, p)' /\ bus'[p] = ctx'[t].busAddr
  <2>1. Live(t)
    BY <1>3, <1>6
  <2>2. CASE ctx[t].busAddr = 0
    <3>1. ctx'[t].busAddr = Given /\ At(t, enum.place)
      BY <1>1, <2>1, <2>2
    <3>2. \A p \in Places : p = enum.place => At(t, p)'
      BY <1>3, <3>1
    <3> QED  BY <1>1, <1>4, <3>1, <3>2
  <2>3. CASE ctx[t].busAddr # 0
    <3>1. PICK p \in Places : At(t, p) /\ bus[p] = ctx[t].busAddr
      BY <2>1, <2>3 DEF Numbered
    <3>2. At(t, p)' /\ ctx'[t].busAddr = bus[p]
      BY <1>1, <1>3, <2>1, <2>3, <3>1
    <3>3. p # enum.place
      <4>1. Emptied
        BY <1>1 DEF Emptied
      <4>2. p \notin Below(enum.place)
        BY <2>3, <3>1, <4>1 DEF Numbered
      <4> QED  BY <1>1, <4>2, BelowOrder
    <3> QED  BY <1>4, <3>2, <3>3
  <2> QED  BY <2>2, <2>3
<1>7. \A p, q \in Places : bus'[p] = bus'[q] /\ bus'[p] # 0 => p = q
  BY <1>4 DEF Numbered
<1>8. ~Gone' /\ ~Emptied'
  BY <1>1 DEF Gone, Emptied
<1> QED
  BY <1>5, <1>6, <1>7, <1>8 DEF Numbered

\* A slot that could not be disabled tells so.
LEMMA StuckStep ==
  ASSUME Core, stuck = {}, ~botched', [Next]_vars
  PROVE  stuck' = {}
<1>1. CASE UNCHANGED vars
  BY <1>1 DEF vars, history
<1>2. CASE \/ \E p \in Places : \E k \in Kinds[p] : Attach(p, k)
           \/ \E p \in Places : Detach(p) \/ PortError(p)
  BY <1>2 DEF Attach, Detach, PortError, history
<1>3. CASE RoundEnds \/ Aside \/ Tuning
  BY <1>3 DEF RoundEnds, Aside, Tuning
<1>4. CASE DisableOld \/ UndoSlot
  BY <1>4, DisableWhole
<1>5. ASSUME NEW s \in Slots, EnableTakes(s)
      PROVE  stuck' = {}
  BY <1>5 DEF EnableTakes
<1>6. ASSUME NEW st \in Statuses, EnableLeaks(st)
      PROVE  stuck' = {}
  BY <1>6 DEF EnableLeaks
<1>7. CASE AddressDevice
  BY <1>7, AddressCases
<1>8. ASSUME NEW p \in Places, PollOf(p)
      PROVE  stuck' = {}
  BY <1>8, PollStarts DEF PollOf
<1>9. CASE BusResets
  BY <1>9, ResetCases DEF ResetEffect
<1>10. CASE SetAddress
  BY <1>10, SetAddressEffect
<1> QED
  BY <1>1, <1>2, <1>3, <1>4, <1>5, <1>6, <1>7, <1>8, <1>9, <1>10, Steps

LEMMA NumberedStep ==
  ASSUME Core, Numbered, Pending, stuck = {}, ~botched', [Next]_vars
  PROVE  Numbered'
<1>1. CASE UNCHANGED <<hw, ctx, call, bus, enum>>
  BY <1>1, NumberedSame
<1>2. CASE UNCHANGED vars
  BY <1>1, <1>2 DEF vars, driver, usbbus
<1>3. CASE \/ \E p \in Places : \E k \in Kinds[p] : Attach(p, k)
           \/ \E p \in Places : Detach(p) \/ PortError(p)
  BY <1>1, <1>3 DEF Attach, Detach, PortError, driver, usbbus
<1>4. CASE RoundEnds
  <2>1. /\ call.at = "attempt" /\ call'.at \in {"attempt", "done"} /\ UNCHANGED <<hw, ctx, bus, enum>>
    BY <1>4 DEF RoundEnds
  <2>2. SlotsKept
    BY <2>1 DEF SlotsKept
  <2>3. ~AddressDue /\ (Gone' => Gone) /\ (Emptied' => Emptied)
    <3>1. enum.at \in {"polled", "await"}
      BY <2>1 DEF Core, Calls
    <3> QED  BY <2>1, <3>1 DEF AddressDue, Gone, Emptied
  <2> QED  BY <2>1, <2>2, <2>3, NumberedKept
<1>5. CASE DisableOld \/ UndoSlot
  BY <1>5, NumberedDisable
<1>6. ASSUME NEW s \in Slots, EnableSlot, EnableTakes(s)
      PROVE  Numbered'
  BY <1>6, NumberedEnable
<1>7. ASSUME NEW st \in Statuses, EnableSlot, EnableLeaks(st)
      PROVE  Numbered'
  <2>1. /\ call.at = "attempt" /\ call'.at \in {"attempt", "done"} /\ UNCHANGED <<ctx, bus, enum>>
        /\ SlotsKept
    BY <1>7, Leaks
  <2>2. ~AddressDue /\ (Gone' => Gone) /\ (Emptied' => Emptied)
    <3>1. enum.at \in {"polled", "await"}
      BY <2>1 DEF Core, Calls
    <3> QED  BY <2>1, <3>1 DEF AddressDue, Gone, Emptied
  <2> QED  BY <2>1, <2>2, NumberedKept
<1>8. CASE AddressDevice
  BY <1>8, NumberedAddress
<1>9. ASSUME NEW p \in Places, PollOf(p)
      PROVE  Numbered'
  BY <1>9, NumberedPoll
<1>10. ASSUME UNCHANGED <<hw, ctx, bus>>, ~AddressDue, enum'.place = enum.place \/ enum'.at = "idle" \/ enum'.at = "reset",
              Gone' => Gone /\ enum'.place = enum.place, ~Emptied'
       PROVE  Numbered'
  <2>1. SlotsKept
    BY <1>10 DEF SlotsKept
  <2> QED  BY <1>10, <2>1, NumberedKept
<1>11. CASE Learns \/ Cancels
  <2>1. /\ UNCHANGED <<hw, ctx, bus>> /\ enum'.place = enum.place /\ enum'.at = "remove" /\ call'.at = "idle"
        /\ enum.at = "remove" \/ (enum.at = "polled" /\ call.at = "done")
    BY <1>11 DEF Learns, Cancels, Aside
  <2>2. ~AddressDue /\ Gone /\ ~Emptied'
    BY <2>1 DEF AddressDue, Gone, Emptied
  <2> QED  BY <1>10, <2>1, <2>2
<1>12. CASE Starts \/ GivesUp \/ Unsubscribes \/ \E p \in Places : Subscribes(p) \/ ClassResets(p)
  <2>1. /\ UNCHANGED <<hw, ctx, bus>> /\ enum'.at \in {"idle", "reset"} /\ call'.at = "idle"
        /\ call.at = "idle" /\ enum.at \in {"start", "idle", "describe", "config", "hub", "await"}
    BY <1>12 DEF Starts, GivesUp, Subscribes, Unsubscribes, ClassResets, Aside
  <2>2. ~AddressDue /\ ~Gone' /\ ~Emptied'
    BY <2>1 DEF AddressDue, Gone, Emptied
  <2> QED  BY <1>10, <2>1, <2>2
<1>13. CASE Releases
  BY <1>13, NumberedReleases
<1>14. CASE EndsAwait
  BY <1>14, NumberedEnds
<1>15. CASE BusResets
  <2>1. /\ UNCHANGED <<hw, ctx, bus, call>> /\ enum.at = "reset" /\ call.at = "idle"
        /\ enum'.at = "idle" \/ (enum'.at = "await" /\ enum'.place = enum.place)
    BY <1>15, ResetCases DEF ResetEffect, GiveUp
  <2>2. ~AddressDue /\ ~Gone' /\ ~Emptied'
    BY <2>1 DEF AddressDue, Gone, Emptied
  <2> QED  BY <1>10, <2>1, <2>2
<1>16. CASE SetAddress
  BY <1>16, NumberedSetAddress
<1>17. CASE Tuned
  <2>1. /\ SlotsKept /\ UNCHANGED <<bus, call>> /\ call.at = "idle"
        /\ \A t \in Slots : ctx'[t].busAddr = ctx[t].busAddr
    BY <1>17 DEF Tuned, Tuning, Tunes
  <2>2. /\ enum.at \in {"idle", "describe", "config", "hub"}
        /\ enum'.at \in {"idle", "config", "hub", "start"}
    BY <1>17 DEF Tuned
  <2>3. ~AddressDue /\ ~Gone' /\ ~Emptied'
    BY <2>1, <2>2 DEF AddressDue, Gone, Emptied
  <2> QED  BY <2>1, <2>3, NumberedKept
<1> QED
  BY <1>2, <1>3, <1>4, <1>5, <1>6, <1>7, <1>8, <1>9, <1>11, <1>12, <1>13, <1>14, <1>15, <1>16, <1>17, Turns

-----------------------------------------------------------------------------
NoReset == \A q \in Places : "reset" \notin port[q].changes

LEMMA HubOutside ==
  ASSUME NEW p \in Places, NEW q \in Places, ~IsRoot(q), q = p \/ q \notin Below(p)
  PROVE  Hub(q) \in Places /\ Hub(q) \notin Below(p)
BY HubAbove DEF Under

\* A port goes on or off, with all that is below it.
LEMMA PollSilence ==
  ASSUME Core, NEW p \in Places, NEW own \in Ports, Silence(p, own), UNCHANGED <<ctx, hw, bus, hubs>>,
         NEW q \in Places, q = p \/ q \notin Below(p), port'[q].changes # {},
         ~IsRoot(q) => Hub(q) \in hubs /\ Reaches(bus[Hub(q)], Hub(q))
  PROVE  CanPoll(q)'
<1>1. CASE IsRoot(q)
  BY <1>1 DEF CanPoll
<1>2. CASE ~IsRoot(q)
  <2>1. Hub(q) \in Places /\ Hub(q) \notin Below(p)
    BY <1>2, HubOutside
  <2>2. answers'[Hub(q)] = answers[Hub(q)]
    BY <2>1, SilenceTypes DEF Core
  <2>3. Reaches(bus[Hub(q)], Hub(q))'
    <3> DEFINE h == Hub(q)
               a == bus[h]
    <3> HIDE DEF h
    <3>1. h \in Places /\ Reaches(a, h) /\ answers'[h] = answers[h]
      BY <1>2, <2>1, <2>2 DEF h
    <3>2. bus'[h] = bus[h]
      OBVIOUS
    <3>3. ctx' = ctx /\ hw' = hw
      OBVIOUS
    <3> QED  BY <1>2, <2>1, <2>2, <3>1, <3>2, <3>3 DEF Reaches, BusDevAddrToSlotId, Live, h
  <2> QED  BY <1>2, <2>3 DEF CanPoll, Hub, IsRoot
<1> QED  BY <1>1, <1>2

LEMMA PendingStep ==
  ASSUME Core, Pending, Standing, stuck = {}, ~botched', [Next]_vars
  PROVE  Pending'
<1>0. call.at # "idle" \/ enum.at # "await" => NoReset
  BY DEF Pending, NoReset
<1>00. ASSUME NoReset, UNCHANGED port, enum'.at = "polled" => call'.at \in {"old", "attempt", "done"} /\ ~call'.reset
       PROVE  Pending'
  BY <1>00 DEF Pending, NoReset
<1>1. ASSUME UNCHANGED <<hw, ctx, answers, call, bus, hubs, enum>>, port' \in [Places -> Ports],
             \A q \in Places : "reset" \in port'[q].changes => "reset" \in port[q].changes
      PROVE  Pending'
  <2> SUFFICES ASSUME NEW q \in Places, "reset" \in port'[q].changes
               PROVE  CanPoll(q)'
    BY <1>1 DEF Pending
  <2>1. CanPoll(q)
    BY <1>1 DEF Pending
  <2> QED  BY <1>1, <2>1 DEF CanPoll, Reaches, BusDevAddrToSlotId, Live
<1>2. CASE UNCHANGED vars
  <2>1. UNCHANGED <<hw, ctx, answers, call, bus, hubs, enum, port>>
    BY <1>2 DEF vars, world, driver, usbbus
  <2>2. port' \in [Places -> Ports]
    BY <2>1 DEF Core, TypeOK, WorldOK, Ports
  <2> QED  BY <1>1, <2>1, <2>2
<1>3. ASSUME NEW p \in Places, NEW k \in Kinds[p], Attach(p, k)
      PROVE  Pending'
  <2>1. /\ UNCHANGED <<hw, ctx, answers, call, bus, hubs, enum>>
        /\ port' = [port EXCEPT ![p].changes = @ \cup {"connection"}]
    BY <1>3 DEF Attach, driver, usbbus
  <2>2. port \in [Places -> Ports]
    BY DEF Core, TypeOK, WorldOK, Ports
  <2>3. port' \in [Places -> Ports] /\ \A q \in Places : "reset" \in port'[q].changes => "reset" \in port[q].changes
    BY <2>1, <2>2 DEF Ports
  <2> QED  BY <1>1, <2>1, <2>3
<1>4. ASSUME NEW p \in Places, NEW own \in Ports, Silence(p, own),
             own.changes \in {port[p].changes \cup {"connection"}, port[p].changes \cup {"enable"}},
             UNCHANGED <<hw, ctx, call, bus, hubs, enum>>
      PROVE  Pending'
  <2>1. /\ port'[p] = own
        /\ \A q \in Under(p) : port'[q].changes = IF plug'[q] = None THEN {} ELSE {"connection"}
        /\ \A q \in Places \ Below(p) : port'[q] = port[q]
    BY <1>4, SilenceTypes DEF Core
  <2> SUFFICES ASSUME NEW q \in Places, "reset" \in port'[q].changes
               PROVE  enum.at = "await" /\ call.at = "idle" /\ enum.place = q /\ CanPoll(q)'
    BY <1>4 DEF Pending
  <2>2. q = p \/ q \notin Below(p)
    BY <2>1 DEF Under
  <2>3. "reset" \in port[q].changes
    BY <1>4, <2>1, <2>2
  <2>4. enum.at = "await" /\ call.at = "idle" /\ enum.place = q /\ CanPoll(q)
    BY <2>3 DEF Pending
  <2> QED  BY <1>4, <2>2, <2>4, PollSilence DEF CanPoll
<1>5. ASSUME NEW p \in Places, Detach(p) \/ PortError(p)
      PROVE  Pending'
  <2>1. UNCHANGED <<hw, ctx, call, bus, hubs, enum>>
    BY <1>5 DEF Detach, PortError, driver, usbbus
  <2>2. port[p] \in Ports
    BY PortFields DEF Core
  <2>3. CASE Detach(p)
    <3> DEFINE own == [enabled |-> FALSE, changes |-> port[p].changes \cup {"connection"}]
    <3>1. Silence(p, own)
      BY <2>3 DEF Detach
    <3>2. own \in Ports /\ own.changes = port[p].changes \cup {"connection"}
      BY <2>2 DEF Ports
    <3> HIDE DEF own
    <3> QED  BY <1>4, <2>1, <3>1, <3>2
  <2>4. CASE PortError(p)
    <3> DEFINE own == [enabled |-> FALSE, changes |-> port[p].changes \cup {"enable"}]
    <3>1. Silence(p, own)
      BY <2>4 DEF PortError
    <3>2. own \in Ports /\ own.changes = port[p].changes \cup {"enable"}
      BY <2>2 DEF Ports
    <3> HIDE DEF own
    <3> QED  BY <1>4, <2>1, <3>1, <3>2
  <2> QED  BY <1>5, <2>3, <2>4
<1>6. ASSUME call.at # "idle", SamePoll, UNCHANGED <<port, enum>>, call'.at \in {"attempt", "done"} \/ enum.at = "await"
      PROVE  Pending'
  <2>1. enum.at \in {"polled", "await"}
    BY <1>6 DEF Core, Calls
  <2> QED  BY <1>0, <1>00, <1>6, <2>1 DEF Pending, SamePoll
<1>7. CASE RoundEnds
  BY <1>6, <1>7 DEF RoundEnds
<1>8. CASE DisableOld \/ UndoSlot
  BY <1>6, <1>8, Disables
<1>9. ASSUME NEW s \in Slots, EnableSlot, EnableTakes(s)
      PROVE  Pending'
  <2>1. call.at = "attempt" /\ SamePoll /\ UNCHANGED <<port, enum>> /\ call.reset
    BY <1>9, TakenEffect, EnableCases DEF EnableSlot, NeedsSlot
  <2>2. enum.at = "await"
    BY <2>1 DEF Core, Calls, Pending
  <2> QED  BY <1>6, <2>1, <2>2
<1>10. ASSUME NEW st \in Statuses, EnableSlot, EnableLeaks(st)
       PROVE  Pending'
  BY <1>6, <1>10, Leaks
<1>11. CASE AddressDevice
  <2>1. call.at = "address" /\ SamePoll /\ UNCHANGED <<port, enum>>
    BY <1>11, AddressEffect, AddressCases
  <2>2. enum.at = "await"
    BY <2>1 DEF Core, Calls, Pending
  <2> QED  BY <1>6, <2>1, <2>2
<1>12. ASSUME NEW p \in Places, PollOf(p)
       PROVE  Pending'
  <2>1. /\ call'.at \in {"old", "attempt"} /\ call'.reset = ("reset" \in port[p].changes)
        /\ port'[p].changes = {} /\ \A q \in Places \ {p} : port'[q] = port[q]
        /\ call.at = "idle"
        /\ (enum.at = "idle" /\ enum'.at = "polled") \/ (enum.at = "await" /\ enum.place = p /\ enum'.at = "await")
    BY <1>12, PollStarts DEF PollOf
  <2>2. NoReset'
    BY <2>1 DEF NoReset, Pending
  <2> QED  BY <1>0, <2>1, <2>2 DEF NoReset, Pending
<1>13. CASE Learns \/ Cancels \/ Releases \/ EndsAwait \/ Starts \/ Unsubscribes \/ \E p \in Places : Subscribes(p) \/ ClassResets(p)
  <2>1. UNCHANGED port /\ enum'.at # "polled" /\ (call.at = "done" \/ enum.at \in {"remove", "start", "idle"})
    BY <1>13 DEF Learns, Cancels, Releases, EndsAwait, Starts, Subscribes, Unsubscribes, ClassResets, Aside
  <2> QED  BY <1>0, <1>00, <2>1
<1>14. CASE GivesUp
  <2>1. UNCHANGED port /\ enum'.at = "idle" /\ (enum.at \in {"describe", "config", "hub"} \/ ~CanPoll(enum.place))
    BY <1>14 DEF GivesUp, Aside
  <2>2. NoReset
    BY <1>0, <2>1 DEF Pending, NoReset
  <2> QED  BY <1>00, <2>1, <2>2
<1>15. CASE BusResets
  <2>1. ResetEffect
    BY <1>15, ResetCases
  <2>2. /\ call.at = "idle" /\ call'.at = "idle" /\ enum.at = "reset" /\ enum.place \in Places
        /\ UNCHANGED <<hw, ctx, bus, hubs>> /\ NoReset
    BY <1>0, <2>1 DEF ResetEffect
  <2>3. CASE UNCHANGED port
    BY <1>00, <2>1, <2>2, <2>3 DEF ResetEffect, GiveUp
  <2> DEFINE p == enum.place
             own == [enabled |-> TRUE, changes |-> port[p].changes \cup {"reset"}]
  <2>4. CASE /\ enum'.at = "await" /\ enum'.place = p /\ Silence(p, own)
             /\ IsRoot(p) \/ Reaches(bus[Hub(p)], Hub(p))
    <3>1. own \in Ports /\ own.changes # {}
      BY <2>2, PortFields DEF Core, Ports
    <3> HIDE DEF own
    <3>2. /\ port'[p] = own
          /\ \A q \in Under(p) : port'[q].changes = IF plug'[q] = None THEN {} ELSE {"connection"}
          /\ \A q \in Places \ Below(p) : port'[q] = port[q]
      BY <2>2, <2>4, <3>1, SilenceTypes DEF Core
    <3>3. \A q \in Places : "reset" \in port'[q].changes => q = p
      BY <2>2, <3>2 DEF Under, NoReset
    <3>4. ~IsRoot(p) => Hub(p) \in hubs
      BY <2>2, HubAbove DEF Standing
    <3>5. \A q \in Places : q = p => CanPoll(q)'
      BY <2>2, <2>4, <3>1, <3>2, <3>4, PollSilence
    <3> QED  BY <2>2, <2>4, <3>3, <3>5 DEF Pending
  <2> QED  BY <2>1, <2>3, <2>4 DEF ResetEffect
<1>16. CASE SetAddress
  <2>1. UNCHANGED port /\ enum.at = "address" /\ enum'.at # "polled"
    BY <1>16, SetAddressEffect, EnumGoes, EnumStops DEF Core, TypeOK, Configuring
  <2> QED  BY <1>0, <1>00, <2>1
<1>17. CASE Tuned
  <2>1. UNCHANGED port /\ enum.at # "await" /\ enum'.at # "polled"
    BY <1>17 DEF Tuned, Tuning
  <2> QED  BY <1>0, <1>00, <2>1
<1> QED
  BY <1>2, <1>3, <1>5, <1>7, <1>8, <1>9, <1>10, <1>11, <1>12, <1>13, <1>14, <1>15, <1>16, <1>17, Turns

-----------------------------------------------------------------------------
(* Configured hubs and configured devices.                                   *)

LEMMA StandingKept ==
  ASSUME Standing, UNCHANGED <<bus, ready, hubs>>,
         enum'.at # "idle" => enum.at # "idle" /\ enum'.place = enum.place,
         enum'.at \in Later \cup {"reset", "await"} => enum.at \in Later \cup {"reset", "await"},
         enum'.at \in Later \ {"address"} => enum.at \in Later \ {"address"}
  PROVE  Standing'
BY DEF Standing, Under, Below, Later

LEMMA HubsAbove ==
  ASSUME Standing, NEW p \in Places, ~IsRoot(p) => Hub(p) \in hubs
  PROVE  \A h \in Places : p \in Under(h) => h \in hubs
<1> SUFFICES ASSUME NEW h \in Places, p \in Under(h)
             PROVE  h \in hubs
  OBVIOUS
<1>1. ~IsRoot(p)
  BY RootAlone
<1>2. Hub(p) \in Places /\ Hub(p) \in Below(h) /\ Hub(p) \in hubs
  BY <1>1, HubAbove
<1> QED  BY <1>2 DEF Under, Standing

LEMMA StandingStep ==
  ASSUME Core, Numbered, Pending, Standing, [Next]_vars
  PROVE  Standing'
<1>0. BusOK
  BY DEF Core, TypeOK
<1>1. CASE UNCHANGED <<bus, ready, hubs, enum>>
  BY <1>1, StandingKept
<1>2. CASE UNCHANGED vars
  BY <1>1, <1>2 DEF vars, usbbus
<1>3. CASE \/ \E p \in Places : \E k \in Kinds[p] : Attach(p, k)
           \/ \E p \in Places : Detach(p) \/ PortError(p)
  BY <1>1, <1>3 DEF Attach, Detach, PortError, usbbus
<1>4. CASE RoundEnds \/ DisableOld \/ UndoSlot \/ AddressDevice
  BY <1>1, <1>4, Disables, AddressCases DEF RoundEnds
<1>5. CASE EnableSlot
  BY <1>1, <1>5, EnableCases
<1>6. ASSUME NEW p \in Places, PollOf(p)
      PROVE  Standing'
  <2>1. /\ UNCHANGED <<bus, ready, hubs>> /\ enum'.place = p
        /\ (enum.at = "idle" /\ enum'.at = "polled") \/ (enum.at = "await" /\ enum.place = p /\ enum'.at = "await")
    BY <1>6 DEF PollOf
  <2>2. CASE enum.at = "idle"
    <3>1. ~IsRoot(p) => Hub(p) \in hubs
      BY <1>6 DEF PollOf, PollPort, CanPoll
    <3>2. \A h \in Places : p \in Under(h) => h \in hubs
      BY <3>1, HubsAbove
    <3> QED  BY <2>1, <2>2, <3>2 DEF Standing, Under, Below, Later
  <2>3. CASE enum.at # "idle"
    BY <2>1, <2>3, StandingKept
  <2> QED  BY <2>2, <2>3
<1>7. CASE Learns \/ Cancels
  <2>1. /\ UNCHANGED <<bus, ready, hubs>> /\ enum'.place = enum.place /\ enum'.at = "remove"
        /\ enum.at # "idle"
    BY <1>7 DEF Learns, Cancels
  <2> QED  BY <2>1, StandingKept DEF Later
<1>8. CASE Releases
  <2>1. /\ enum.at = "remove" /\ enum.place \in Places
        /\ bus' = [p \in Places |-> IF p \in Below(enum.place) THEN 0 ELSE bus[p]]
        /\ ready' = ready \ Below(enum.place) /\ hubs' = hubs \ Below(enum.place)
        /\ enum'.at = "idle" \/ (enum'.at = "reset" /\ enum'.place = enum.place)
    BY <1>0, <1>8, EnumFields DEF Releases
  <2>2. \A p \in ready' : bus'[p] # 0
    BY <1>0, <2>1 DEF Standing, BusOK
  <2>3. ASSUME NEW h \in Places, NEW p \in (ready' \cup hubs') \cap Under(h)
        PROVE  h \in hubs'
    <3>1. p \in (ready \cup hubs) \cap Under(h) /\ p \notin Below(enum.place) /\ p \in Places
      BY <1>0, <2>1 DEF BusOK
    <3>2. h \in hubs /\ p \in Below(h)
      BY <3>1 DEF Standing, Under
    <3>3. h \notin Below(enum.place)
      BY <2>1, <3>1, <3>2, BelowOrder
    <3> QED  BY <2>1, <3>2, <3>3
  <2>4. ASSUME enum'.at # "idle", NEW h \in Places, enum'.place \in Under(h)
        PROVE  h \in hubs'
    <3>1. enum.place \in Under(h) /\ h \in hubs
      BY <2>1, <2>4 DEF Standing
    <3>2. h \notin Below(enum.place)
      <4> SUFFICES ASSUME h \in Below(enum.place)
                   PROVE  FALSE
        OBVIOUS
      <4>1. Len(h) <= Len(enum.place) /\ Len(enum.place) <= Len(h) /\ enum.place # h
        BY <2>1, <3>1, BelowOrder DEF Under
      <4>2. Len(h) \in Nat /\ Len(enum.place) \in Nat
        BY <2>1, PlaceShape
      <4> QED  BY <2>1, <4>1, <4>2, BelowOrder
    <3> QED  BY <2>1, <3>1, <3>2
  <2> QED  BY <2>1, <2>2, <2>3, <2>4 DEF Standing, Under, Below, Later
<1>9. CASE EndsAwait
  <2>1. /\ UNCHANGED <<bus, ready, hubs>> /\ enum.at = "await"
        /\ enum'.at = "idle" \/ (enum'.at = "address" /\ enum'.place = enum.place)
    BY <1>9 DEF EndsAwait
  <2> QED  BY <2>1, StandingKept DEF Later
<1>10. CASE Starts
  <2>1. enum.at = "start" /\ enum'.at = "idle" /\ ready' = ready \cup {enum.place} /\ UNCHANGED <<bus, hubs>>
    BY <1>10 DEF Starts
  <2>2. bus[enum.place] # 0 /\ \A h \in Places : enum.place \in Under(h) => h \in hubs
    BY <2>1 DEF Standing, Later
  <2> QED  BY <2>1, <2>2 DEF Standing, Under, Below, Later
<1>11. CASE GivesUp \/ Unsubscribes \/ \E p \in Places : Subscribes(p)
  <2>1. UNCHANGED <<bus, ready, hubs>> /\ enum'.at = "idle"
    BY <1>11 DEF GivesUp, Unsubscribes, Subscribes
  <2> QED  BY <2>1, StandingKept DEF Later
<1>12. ASSUME NEW p \in Places, ClassResets(p)
       PROVE  Standing'
  <2>1. /\ p \in ready \ hubs /\ enum'.at = "reset" /\ enum'.place = p /\ ready' = ready \ {p}
        /\ UNCHANGED <<bus, hubs>>
    BY <1>12 DEF ClassResets
  <2>2. \A h \in Places : p \in Under(h) => h \in hubs
    BY <2>1 DEF Standing
  <2>3. \A q \in Under(p) : q \notin ready
    BY <2>1 DEF Standing
  <2> QED  BY <2>1, <2>2, <2>3 DEF Standing, Under, Below, Later
<1>13. CASE BusResets
  <2>1. /\ UNCHANGED <<bus, ready, hubs>> /\ enum.at = "reset"
        /\ enum'.at = "idle" \/ (enum'.at = "await" /\ enum'.place = enum.place)
    BY <1>13, ResetCases DEF ResetEffect, GiveUp
  <2> QED  BY <2>1, StandingKept DEF Later
<1>14. CASE SetAddress
  <2>1. /\ enum.at = "address" /\ enum.place \in Places /\ UNCHANGED <<ready, hubs>>
        /\ bus' = [bus EXCEPT ![enum.place] = Given] /\ Given \in Addresses
        /\ enum'.at = "idle" \/ (enum'.at \in {"config", "describe"} /\ enum'.place = enum.place)
    BY <1>14, SetAddressWhole
  <2>2. Given # 0
    BY <2>1, SlotAssumption
  <2>3. bus'[enum.place] # 0 /\ \A p \in ready : bus'[p] # 0
    BY <1>0, <2>1, <2>2 DEF Standing, BusOK
  <2> QED  BY <2>1, <2>3 DEF Standing, Under, Below, Later
<1>15. CASE Tuned
  <2>1. UNCHANGED <<bus, ready>>
    BY <1>15 DEF Tuned, Tuning
  <2>2. CASE UNCHANGED <<enum, hubs>>
    BY <1>1, <2>1, <2>2
  <2>3. CASE /\ enum.at \in {"describe", "config", "hub"}
             /\ enum'.at = "idle" \/ (enum'.at \in {"config", "hub", "start"} /\ enum'.place = enum.place)
             /\ hubs' = hubs \/ hubs' = hubs \cup {enum.place}
    <3>1. \A h \in Places : enum.place \in Under(h) => h \in hubs
      BY <2>3 DEF Standing
    <3>2. ready \cap Below(enum.place) = {} /\ bus[enum.place] # 0
      BY <2>3 DEF Standing, Later
    <3> QED  BY <2>1, <2>3, <3>1, <3>2 DEF Standing, Under, Below, Later
  <2> QED  BY <1>15, <2>2, <2>3 DEF Tuned
<1> QED
  BY <1>2, <1>3, <1>4, <1>5, <1>6, <1>7, <1>8, <1>9, <1>10, <1>11, <1>12, <1>13, <1>14, <1>15, Turns

-----------------------------------------------------------------------------
(* The transfers in the list.                                                *)

\* Each transfer in the list is a configured device's, through its slot, which
\* is gone at most while UsbBus is about to cancel the transfer.
Leads(u) ==
  /\ u.slot \in Slots /\ u.addr # 0 /\ ctx[u.slot].busAddr = u.addr
  /\ \E p \in ready : /\ bus[p] = u.addr /\ ctx[u.slot].route = Route[p]
                      /\ Live(u.slot) \/ (Gone /\ p \in Below(enum.place))
  /\ Live(u.slot) => u.ring = "own"
Due == enum.at = "remove" =>
  \A u \in urbs : (\E p \in Below(enum.place) : u.addr = bus[p]) => u \in enum.todo
Listed == Due /\ \A u \in urbs : Leads(u)

LEMMA LeadsKept ==
  ASSUME NEW u, Leads(u), SlotsKept, \A t \in Slots : ctx'[t].busAddr = ctx[t].busAddr,
         UNCHANGED bus, ready \subseteq ready', ready \subseteq Places,
         Gone => Gone' /\ enum'.place = enum.place
  PROVE  Leads(u)'
<1>1. /\ u.slot \in Slots /\ u.addr # 0 /\ ctx[u.slot].busAddr = u.addr
      /\ Live(u.slot) => u.ring = "own"
  BY DEF Leads
<1>2. PICK p \in ready : /\ bus[p] = u.addr /\ ctx[u.slot].route = Route[p]
                         /\ Live(u.slot) \/ (Gone /\ p \in Below(enum.place))
  BY DEF Leads
<1>3. Live(u.slot)' <=> Live(u.slot)
  BY <1>1 DEF SlotsKept, Live
<1>4. ctx'[u.slot].busAddr = ctx[u.slot].busAddr /\ ctx'[u.slot].route = ctx[u.slot].route
  BY <1>1 DEF SlotsKept
<1>5. Live(u.slot)' \/ (Gone' /\ p \in Below(enum'.place))
  BY <1>2, <1>3
<1> QED  BY <1>1, <1>2, <1>3, <1>4, <1>5 DEF Leads, Route, Below

LEMMA ListedKept ==
  ASSUME Core, Listed, SlotsKept, \A t \in Slots : ctx'[t].busAddr = ctx[t].busAddr,
         UNCHANGED <<bus, urbs>>, ready \subseteq ready',
         Gone => Gone' /\ enum'.place = enum.place,
         enum'.at = "remove" => enum' = enum
  PROVE  Listed'
<1>1. ready \subseteq Places
  BY DEF Core, TypeOK, BusOK
<1>2. \A u \in urbs' : Leads(u)'
  <2> SUFFICES ASSUME NEW u \in urbs PROVE Leads(u)'
    OBVIOUS
  <2> QED  BY <1>1, LeadsKept DEF Listed
<1>3. Due'
  BY DEF Listed, Due, Below
<1> QED  BY <1>2, <1>3 DEF Listed

LEMMA ListedDisable ==
  ASSUME Core, Pending, Standing, Listed, stuck = {}, DisableOld \/ UndoSlot, ~botched'
  PROVE  Listed'
<1>1. /\ call.at \in {"old", "undo"} /\ UNCHANGED <<bus, ready, enum>>
      /\ DisableOld => call'.at = "attempt"
      /\ UndoSlot => call.at = "undo"
  BY Disables
<1>2. enum.at \in {"polled", "await"} /\ enum.place \in Places /\ ready \subseteq Places
  BY <1>1 DEF Core, Calls, TypeOK, BusOK
<1>3. ~Gone /\ (enum.at = "polled" => Gone')
  BY <1>1, <1>2 DEF Gone, Pending
<1>4. enum.at = "await" => ready \cap Below(enum.place) = {}
  BY DEF Standing
<1>5. ASSUME NEW u \in urbs'
      PROVE  Leads(u)'
  <2>1. PICK v \in urbs : u.slot = v.slot /\ u.addr = v.addr /\ (Live(v.slot)' => u = v)
    BY <1>5, DisableWhole
  <2>2. v.slot \in Slots /\ v.addr # 0 /\ ctx[v.slot].busAddr = v.addr /\ (Live(v.slot) => v.ring = "own")
    BY <2>1 DEF Listed, Leads
  <2>3. PICK p \in ready : bus[p] = v.addr /\ ctx[v.slot].route = Route[p] /\ Live(v.slot)
    BY <1>3, <2>1 DEF Listed, Leads
  <2>4. ASSUME NEW t \in Slots, t = v.slot
        PROVE  /\ Live(t)' => Live(t)
               /\ ctx'[t].route = ctx[t].route /\ ctx'[t].busAddr = ctx[t].busAddr
               /\ ~Live(t)' => Reach(t, enum.place)
    BY <2>3, <2>4, DisableWhole
  <2>5. /\ Live(v.slot)' => Live(v.slot)
        /\ ctx'[v.slot].route = ctx[v.slot].route /\ ctx'[v.slot].busAddr = ctx[v.slot].busAddr
        /\ ~Live(v.slot)' => Reach(v.slot, enum.place)
    BY <2>2, <2>4 DEF Live
  <2>6. ASSUME ~Live(v.slot)'
        PROVE  p \in Below(enum.place)
    <3>1. PICK q \in Below(enum.place) : At(v.slot, q)
      BY <2>5, <2>6 DEF Reach
    <3>2. q \in Places /\ Route[q] = Route[p]
      BY <2>3, <3>1 DEF At, Below
    <3> QED  BY <1>2, <3>1, <3>2, RouteTells
  <2>7. Live(v.slot)' \/ (Gone' /\ p \in Below(enum'.place))
    BY <1>1, <1>2, <1>3, <1>4, <2>6
  <2>8. Live(u.slot)' <=> Live(v.slot)'
    BY <2>1 DEF Live
  <2> QED  BY <1>1, <2>1, <2>2, <2>3, <2>5, <2>7, <2>8 DEF Leads, Route, Below
<1>6. Due'
  BY <1>1, <1>2 DEF Due
<1> QED  BY <1>5, <1>6 DEF Listed

LEMMA ListedEnable ==
  ASSUME Core, Numbered, Pending, Listed, EnableSlot, NEW s \in Slots, EnableTakes(s)
  PROVE  Listed'
<1>1. /\ ~hw[s].on /\ urbs' = Forget(s) /\ UNCHANGED <<bus, ready, enum>>
      /\ \A t \in Slots \ {s} : ctx'[t] = ctx[t]
      /\ call.at = "attempt" /\ call.reset
  BY EnableCases, TakenEffect DEF EnableTakes, EnableSlot, NeedsSlot
<1>2. enum.at = "await" /\ ~Gone
  BY <1>1 DEF Core, Calls, Pending, Gone
<1>3. ~Live(s)
  BY <1>1 DEF Numbered
<1>4. \A u \in urbs : u.slot # s
  BY <1>2, <1>3 DEF Listed, Leads
<1>5. urbs' = urbs
  BY <1>1, <1>4 DEF Forget
<1>6. ASSUME NEW u \in urbs
      PROVE  Leads(u)'
  <2>1. /\ u.slot \in Slots /\ u.addr # 0 /\ ctx[u.slot].busAddr = u.addr /\ u.slot # s
        /\ Live(u.slot) => u.ring = "own"
    BY <1>4 DEF Listed, Leads
  <2>2. PICK p \in ready : bus[p] = u.addr /\ ctx[u.slot].route = Route[p] /\ Live(u.slot)
    BY <1>2 DEF Listed, Leads
  <2>3. ctx'[u.slot] = ctx[u.slot]
    BY <1>1, <2>1
  <2>4. Live(u.slot)'
    BY <2>2, <2>3 DEF Live
  <2> QED  BY <1>1, <2>1, <2>2, <2>3, <2>4 DEF Leads, Route
<1>7. Due'
  BY <1>1, <1>2 DEF Due
<1> QED  BY <1>5, <1>6, <1>7 DEF Listed

LEMMA ListedCancels ==
  ASSUME Core, Listed, NEW u, Cancel(u), UNCHANGED <<ctx, bus, ready>>,
         Gone => Gone' /\ enum'.place = enum.place
  PROVE  \A w \in urbs' : w \in urbs /\ w # u /\ Leads(w)'
<1>2. \A w \in urbs' : w \in urbs /\ w # u
  BY DEF Cancel, Listed, Leads
<1>3. ready \subseteq Places
  BY DEF Core, TypeOK, BusOK
<1>4. ASSUME NEW w \in urbs, Leads(w)
      PROVE  Leads(w)'
  <2>1. /\ w.slot \in Slots /\ w.addr # 0 /\ ctx[w.slot].busAddr = w.addr
        /\ Live(w.slot) => w.ring = "own"
    BY <1>4 DEF Leads
  <2>2. PICK p \in ready : /\ bus[p] = w.addr /\ ctx[w.slot].route = Route[p]
                           /\ Live(w.slot) \/ (Gone /\ p \in Below(enum.place))
    BY <1>4 DEF Leads
  <2>3. (Live(w.slot)' <=> Live(w.slot)) /\ (Live(w.slot)' \/ (Gone' /\ p \in Below(enum'.place)))
    BY <2>2 DEF Live
  <2> QED  BY <2>1, <2>2, <2>3 DEF Leads, Route, Below
<1> QED  BY <1>2, <1>4 DEF Listed

LEMMA ListedReleases ==
  ASSUME Core, Listed, Releases
  PROVE  Listed'
<1>1. /\ enum.at = "remove" /\ enum.todo = {} /\ enum.place \in Places
      /\ bus' = [p \in Places |-> IF p \in Below(enum.place) THEN 0 ELSE bus[p]]
      /\ ready' = ready \ Below(enum.place)
      /\ UNCHANGED <<urbs, ctx>> /\ enum'.at # "remove" /\ ready \subseteq Places
  BY EnumFields DEF Releases, Aside, Core, TypeOK, BusOK
<1>2. ASSUME NEW u \in urbs
      PROVE  Leads(u)'
  <2>1. /\ u.slot \in Slots /\ u.addr # 0 /\ ctx[u.slot].busAddr = u.addr
        /\ Live(u.slot) => u.ring = "own"
    BY DEF Listed, Leads
  <2>2. PICK p \in ready : /\ bus[p] = u.addr /\ ctx[u.slot].route = Route[p]
                           /\ Live(u.slot) \/ (Gone /\ p \in Below(enum.place))
    BY DEF Listed, Leads
  <2>3. p \notin Below(enum.place)
    BY <1>1, <2>2 DEF Listed, Due
  <2>4. p \in ready' /\ bus'[p] = u.addr /\ Live(u.slot)
    BY <1>1, <2>2, <2>3
  <2>5. Live(u.slot)' <=> Live(u.slot)
    BY <1>1 DEF Live
  <2> QED  BY <1>1, <2>1, <2>2, <2>4, <2>5 DEF Leads, Route
<1>3. Due'
  BY <1>1 DEF Due
<1> QED  BY <1>1, <1>2, <1>3 DEF Listed

LEMMA ListedSubscribes ==
  ASSUME Core, Numbered, Standing, Listed, NEW p \in Places, Subscribes(p)
  PROVE  Listed'
<1>1. /\ p \in ready /\ BusDevAddrToSlotId(bus[p]) # 0
      /\ urbs' = urbs \cup {[addr |-> bus[p], slot |-> BusDevAddrToSlotId(bus[p]), ring |-> "own"]}
      /\ UNCHANGED <<ctx, bus, ready, enum>> /\ enum.at = "idle"
  BY DEF Subscribes, Subscribe, Using, Aside
<1>2. PICK s \in Slots : s = BusDevAddrToSlotId(bus[p]) /\ Live(s) /\ ctx[s].busAddr = bus[p]
  BY <1>1, ByAddress
<1>3. bus[p] # 0
  BY <1>1 DEF Standing
<1>4. ctx[s].route = Route[p]
  <2>1. PICK q \in Places : At(s, q) /\ bus[q] = ctx[s].busAddr
    BY <1>2, <1>3 DEF Numbered
  <2>2. q = p
    BY <1>2, <1>3, <2>1 DEF Numbered
  <2> QED  BY <2>1, <2>2 DEF At
<1>5. PICK new : new = [addr |-> bus[p], slot |-> s, ring |-> "own"]
  OBVIOUS
<1>6. Leads(new)'
  <2>1. new.slot = s /\ new.addr = bus[p] /\ new.ring = "own"
    BY <1>5
  <2>2. Live(new.slot)'
    BY <1>1, <1>2, <2>1 DEF Live
  <2> QED  BY <1>1, <1>2, <1>3, <1>4, <2>1, <2>2 DEF Leads, Route
<1>7. ASSUME NEW u \in urbs
      PROVE  Leads(u)'
  <2>1. ~Gone
    BY <1>1 DEF Gone
  <2>2. /\ u.slot \in Slots /\ u.addr # 0 /\ ctx[u.slot].busAddr = u.addr
        /\ Live(u.slot) => u.ring = "own"
    BY DEF Listed, Leads
  <2>3. PICK q \in ready : bus[q] = u.addr /\ ctx[u.slot].route = Route[q] /\ Live(u.slot)
    BY <2>1 DEF Listed, Leads
  <2>4. Live(u.slot)'
    BY <1>1, <2>3 DEF Live
  <2> QED  BY <1>1, <2>2, <2>3, <2>4 DEF Leads, Route
<1>8. Due'
  BY <1>1 DEF Due
<1>9. urbs' = urbs \cup {new}
  BY <1>1, <1>2, <1>5
<1>10. \A u \in urbs' : Leads(u)'
  BY <1>6, <1>7, <1>9
<1> QED  BY <1>8, <1>10 DEF Listed

\* A class driver has no transfer of the device that it resets.
LEMMA ListedClassResets ==
  ASSUME Core, Listed, NEW p \in Places, ClassResets(p)
  PROVE  Listed'
<1>1. /\ ready' = ready \ {p} /\ UNCHANGED <<urbs, bus, ctx>> /\ enum'.at = "reset"
      /\ enum.at = "idle" /\ \A u \in urbs : u.addr # bus[p]
  BY DEF ClassResets, Aside, Subscribed
<1>2. ASSUME NEW u \in urbs
      PROVE  Leads(u)'
  <2>1. ~Gone
    BY <1>1 DEF Gone
  <2>2. /\ u.slot \in Slots /\ u.addr # 0 /\ ctx[u.slot].busAddr = u.addr
        /\ Live(u.slot) => u.ring = "own"
    BY DEF Listed, Leads
  <2>3. PICK q \in ready : bus[q] = u.addr /\ ctx[u.slot].route = Route[q] /\ Live(u.slot)
    BY <2>1 DEF Listed, Leads
  <2>4. q \in ready'
    BY <1>1, <2>3
  <2>5. Live(u.slot)'
    BY <1>1, <2>3 DEF Live
  <2> QED  BY <1>1, <2>2, <2>3, <2>4, <2>5 DEF Leads, Route
<1>3. Due'
  BY <1>1 DEF Due
<1> QED  BY <1>1, <1>2, <1>3 DEF Listed

LEMMA ListedSetAddress ==
  ASSUME Core, Numbered, Standing, Listed, SetAddress
  PROVE  Listed'
<1>1. /\ enum.at = "address" /\ enum.place \in Places
      /\ bus' = [bus EXCEPT ![enum.place] = Given]
      /\ UNCHANGED <<urbs, ready>> /\ SlotsKept
      /\ \A t \in Slots : Live(t) /\ ctx[t].busAddr # 0 => ctx'[t].busAddr = ctx[t].busAddr
      /\ enum'.at # "remove"
  BY SetAddressWhole
<1>2. ready \subseteq Places /\ bus \in [Places -> Addresses \cup {0}]
  BY DEF Core, TypeOK, BusOK
<1>3. \A p \in ready : bus'[p] = bus[p]
  <2>1. enum.place \notin ready
    BY <1>1, BelowOrder DEF Standing, Later
  <2> QED  BY <1>1, <1>2, <2>1
<1>4. ASSUME NEW u \in urbs
      PROVE  Leads(u)'
  <2>1. ~Gone
    BY <1>1 DEF Gone
  <2>2. /\ u.slot \in Slots /\ u.addr # 0 /\ ctx[u.slot].busAddr = u.addr
        /\ Live(u.slot) => u.ring = "own"
    BY DEF Listed, Leads
  <2>3. PICK q \in ready : bus[q] = u.addr /\ ctx[u.slot].route = Route[q] /\ Live(u.slot)
    BY <2>1 DEF Listed, Leads
  <2>4. ctx'[u.slot].busAddr = u.addr /\ ctx'[u.slot].route = Route[q] /\ bus'[q] = u.addr
    BY <1>1, <1>3, <2>2, <2>3 DEF SlotsKept
  <2>5. Live(u.slot)'
    BY <1>1, <2>2, <2>3 DEF Live, SlotsKept
  <2> QED  BY <1>1, <2>2, <2>3, <2>4, <2>5 DEF Leads, Route
<1>5. Due'
  BY <1>1 DEF Due
<1> QED  BY <1>1, <1>4, <1>5 DEF Listed

LEMMA ListedStep ==
  ASSUME Core, Numbered, Pending, Standing, Listed, stuck = {}, ~botched', [Next]_vars
  PROVE  Listed'
<1>0. BusOK
  BY DEF Core, TypeOK
<1>1. ASSUME SlotsKept, \A t \in Slots : ctx'[t].busAddr = ctx[t].busAddr, UNCHANGED <<bus, urbs, ready, enum>>,
             Gone => Gone'
      PROVE  Listed'
  BY <1>1, ListedKept
<1>2. ASSUME UNCHANGED <<ctx, hw, bus, urbs, ready, enum, call>>
      PROVE  Listed'
  <2>1. SlotsKept /\ (Gone => Gone')
    BY <1>2 DEF SlotsKept, Gone
  <2> QED  BY <1>1, <1>2, <2>1
<1>3. CASE UNCHANGED vars
  BY <1>2, <1>3 DEF vars, driver, usbbus
<1>4. CASE \/ \E p \in Places : \E k \in Kinds[p] : Attach(p, k)
           \/ \E p \in Places : Detach(p) \/ PortError(p)
  BY <1>2, <1>4 DEF Attach, Detach, PortError, driver, usbbus
<1>5. CASE RoundEnds
  <2>1. /\ UNCHANGED <<ctx, hw, bus, urbs, ready, enum>>
        /\ call.at = "attempt" /\ call'.at \in {"attempt", "done"}
    BY <1>5 DEF RoundEnds
  <2>2. SlotsKept /\ (Gone => Gone')
    BY <2>1 DEF SlotsKept, Gone
  <2> QED  BY <1>1, <2>1, <2>2
<1>6. CASE DisableOld \/ UndoSlot
  BY <1>6, ListedDisable
<1>7. ASSUME NEW s \in Slots, EnableSlot, EnableTakes(s)
      PROVE  Listed'
  BY <1>7, ListedEnable
<1>8. ASSUME NEW st \in Statuses, EnableSlot, EnableLeaks(st)
      PROVE  Listed'
  <2>1. /\ UNCHANGED <<ctx, bus, urbs, ready, enum>> /\ SlotsKept
        /\ call.at = "attempt" /\ call'.at \in {"attempt", "done"}
    BY <1>8, Leaks
  <2>2. Gone => Gone'
    BY <2>1 DEF Gone
  <2> QED  BY <1>1, <2>1, <2>2
<1>9. CASE AddressDevice
  <2>1. /\ UNCHANGED <<bus, urbs, ready, enum>> /\ SlotsKept /\ call.at = "address"
        /\ \A t \in Slots : ctx'[t].busAddr = ctx[t].busAddr
    BY <1>9, AddressCases, AddressEffect
  <2>2. ~Gone
    BY <2>1 DEF Gone, Core, Calls
  <2> QED  BY <1>1, <2>1, <2>2
<1>10. ASSUME UNCHANGED <<ctx, hw, bus, urbs>>, ready \subseteq ready', ~Gone, enum'.at # "remove"
       PROVE  Listed'
  <2>1. SlotsKept
    BY <1>10 DEF SlotsKept
  <2> QED  BY <1>10, <2>1, ListedKept
<1>11. ASSUME NEW p \in Places, PollOf(p)
       PROVE  Listed'
  <2>1. /\ UNCHANGED <<ctx, hw, bus, urbs, ready>> /\ call.at = "idle"
        /\ enum.at \in {"idle", "await"} /\ enum'.at \in {"polled", "await"}
    BY <1>11, PollStarts DEF PollOf
  <2>2. ~Gone
    BY <2>1 DEF Gone
  <2> QED  BY <1>10, <2>1, <2>2
<1>12. CASE Learns
  <2>1. /\ UNCHANGED <<ctx, hw, bus, urbs, ready>> /\ enum'.at = "remove" /\ enum'.place = enum.place
        /\ enum'.todo = {u \in urbs : \E p \in Below(enum.place) : u.addr = bus[p]}
    BY <1>12 DEF Learns, Aside
  <2>2. SlotsKept /\ Gone' /\ ready \subseteq Places
    BY <1>0, <2>1 DEF SlotsKept, Gone, BusOK
  <2>3. ASSUME NEW u \in urbs
        PROVE  Leads(u)'
    <3>1. Leads(u)
      BY DEF Listed
    <3> QED  BY <2>1, <2>2, <3>1, LeadsKept
  <2>4. Due'
    BY <2>1 DEF Due, Below
  <2> QED  BY <2>1, <2>3, <2>4 DEF Listed
<1>13. CASE Cancels
  <2>1. PICK u \in enum.todo : Cancel(u) /\ enum'.todo = enum.todo \ {u}
    BY <1>13 DEF Cancels
  <2>2. /\ UNCHANGED <<ctx, bus, ready>> /\ enum.at = "remove" /\ enum'.at = "remove"
        /\ enum'.place = enum.place
    BY <1>13 DEF Cancels, Aside
  <2>3. Gone'
    BY <2>2 DEF Gone
  <2>4. \A w \in urbs' : w \in urbs /\ w # u /\ Leads(w)'
    BY <2>1, <2>2, <2>3, ListedCancels
  <2>5. Due'
    BY <2>1, <2>2, <2>4 DEF Due, Listed, Below
  <2> QED  BY <2>4, <2>5 DEF Listed
<1>14. CASE Releases
  BY <1>14, ListedReleases
<1>15. CASE EndsAwait \/ Starts \/ GivesUp
  <2>1. /\ UNCHANGED <<ctx, hw, bus, urbs>> /\ ready \subseteq ready'
        /\ enum'.at \in {"address", "idle"} /\ enum.at \in {"await", "start", "describe", "config", "hub"}
    BY <1>15 DEF EndsAwait, Starts, GivesUp, Aside
  <2>2. ~Gone
    BY <2>1 DEF Gone
  <2> QED  BY <1>10, <2>1, <2>2
<1>16. ASSUME NEW p \in Places, Subscribes(p)
       PROVE  Listed'
  BY <1>16, ListedSubscribes
<1>17. ASSUME NEW p \in Places, ClassResets(p)
       PROVE  Listed'
  BY <1>17, ListedClassResets
<1>18. CASE Unsubscribes
  <2>1. PICK u \in urbs : Cancel(u)
    BY <1>18 DEF Unsubscribes
  <2>2. UNCHANGED <<ctx, bus, ready, enum>> /\ enum.at = "idle" /\ call'.at = "idle"
    BY <1>18 DEF Unsubscribes, Aside
  <2>3. ~Gone
    BY <2>2 DEF Gone
  <2>4. \A w \in urbs' : w \in urbs /\ w # u /\ Leads(w)'
    BY <2>1, <2>2, <2>3, ListedCancels
  <2>5. Due'
    BY <2>2 DEF Due
  <2> QED  BY <2>4, <2>5 DEF Listed
<1>19. CASE BusResets
  <2>1. /\ UNCHANGED <<ctx, hw, bus, urbs, ready>> /\ enum.at = "reset"
        /\ enum'.at \in {"idle", "await"}
    BY <1>19, ResetCases DEF ResetEffect, GiveUp
  <2>2. ~Gone
    BY <2>1 DEF Gone
  <2> QED  BY <1>10, <2>1, <2>2
<1>20. CASE SetAddress
  BY <1>20, ListedSetAddress
<1>21. CASE Tuned
  <2>1. /\ UNCHANGED <<bus, urbs, ready>> /\ SlotsKept
        /\ \A t \in Slots : ctx'[t].busAddr = ctx[t].busAddr
        /\ enum.at \in {"idle", "describe", "config", "hub"}
        /\ enum'.at \in {"idle", "config", "hub", "start"}
    BY <1>21 DEF Tuned, Tuning, Tunes
  <2>2. ~Gone
    BY <2>1 DEF Gone
  <2> QED  BY <2>1, <2>2, ListedKept
<1> QED
  BY <1>3, <1>4, <1>5, <1>6, <1>7, <1>8, <1>9, <1>11, <1>12, <1>13, <1>14, <1>15, <1>16, <1>17, <1>18, <1>19, <1>20, <1>21, Turns

LEMMA BotchedStep ==
  ASSUME Core, ~botched', [Next]_vars
  PROVE  ~botched
<1>1. CASE UNCHANGED vars
  BY <1>1 DEF vars, history
<1>2. CASE \/ \E p \in Places : \E k \in Kinds[p] : Attach(p, k)
           \/ \E p \in Places : Detach(p) \/ PortError(p)
  BY <1>2 DEF Attach, Detach, PortError, history
<1>3. CASE RoundEnds \/ Aside \/ Tuning
  BY <1>3 DEF RoundEnds, Aside, Tuning
<1>4. CASE DisableOld \/ UndoSlot
  BY <1>4, Disables DEF DisableSlot
<1>5. ASSUME NEW s \in Slots, EnableTakes(s)
      PROVE  ~botched
  BY <1>5 DEF EnableTakes
<1>6. ASSUME NEW st \in Statuses, EnableLeaks(st)
      PROVE  ~botched
  BY <1>6 DEF EnableLeaks
<1>7. CASE AddressDevice
  BY <1>7, AddressCases
<1>8. ASSUME NEW p \in Places, PollOf(p)
      PROVE  ~botched
  BY <1>8, PollStarts DEF PollOf
<1>9. CASE BusResets
  BY <1>9, ResetCases DEF ResetEffect
<1>10. CASE SetAddress
  BY <1>10, SetAddressEffect
<1> QED
  BY <1>1, <1>2, <1>3, <1>4, <1>5, <1>6, <1>7, <1>8, <1>9, <1>10, Steps

\* While every slot could be disabled.
AddrInv == ~botched => stuck = {} /\ Numbered /\ Pending /\ Standing /\ Listed

LEMMA AddrStep ==
  ASSUME Core, AddrInv, [Next]_vars
  PROVE  AddrInv'
<1> SUFFICES ASSUME ~botched'
             PROVE  stuck' = {} /\ Numbered' /\ Pending' /\ Standing' /\ Listed'
  BY DEF AddrInv
<1>1. stuck = {} /\ Numbered /\ Pending /\ Standing /\ Listed
  BY BotchedStep DEF AddrInv
<1> QED  BY <1>1, StuckStep, NumberedStep, PendingStep, StandingStep, ListedStep

LEMMA AddrInit == Init => AddrInv
<1> SUFFICES ASSUME Init
             PROVE  stuck = {} /\ Numbered /\ Pending /\ Standing /\ Listed
  BY DEF AddrInv
<1>1. /\ \A s \in Slots : ctx[s] = BlankEntry
      /\ \A p \in Places : bus[p] = 0 /\ port[p] = QuietPort
      /\ enum.at = "idle" /\ call.at = "idle" /\ urbs = {} /\ ready = {} /\ hubs = {} /\ stuck = {}
  BY DEF Init
<1>2. \A s \in Slots : ~Live(s)
  BY <1>1 DEF Live, BlankEntry
<1>3. \A p \in Places : port[p].changes = {}
  BY <1>1 DEF QuietPort
<1>4. Numbered
  BY <1>1, <1>2 DEF Numbered, Gone, Emptied, At
<1>5. Pending
  BY <1>1, <1>3 DEF Pending
<1>6. Standing
  BY <1>1 DEF Standing, Later
<1>7. Listed
  BY <1>1 DEF Listed, Due
<1> QED  BY <1>1, <1>4, <1>5, <1>6, <1>7

\* Whatever leads through an address that UsbBus gave leads to the right slot.
LEMMA AddressesLead ==
  ASSUME Core, AddrInv
  PROVE  AddressFindsDevice /\ CancelFindsTransfer /\ MonitorSafe
<1> SUFFICES ASSUME ~botched
             PROVE  AddressFindsDevice /\ CancelFindsTransfer /\ MonitorSafe
  BY DEF AddressFindsDevice, CancelFindsTransfer, MonitorSafe
<1>0. Numbered /\ Standing /\ Listed
  BY DEF AddrInv
<1>1. ready \subseteq Places
  BY DEF Core, TypeOK, BusOK
<1>2. ASSUME NEW p \in ready, BusDevAddrToSlotId(bus[p]) # 0
      PROVE  At(BusDevAddrToSlotId(bus[p]), p)
  <2>1. PICK s \in Slots : s = BusDevAddrToSlotId(bus[p]) /\ Live(s) /\ ctx[s].busAddr = bus[p]
    BY <1>2, ByAddress
  <2>2. bus[p] # 0
    BY <1>0 DEF Standing
  <2>3. PICK q \in Places : At(s, q) /\ bus[q] = ctx[s].busAddr
    BY <1>0, <2>1, <2>2 DEF Numbered
  <2>4. q = p
    BY <1>0, <1>1, <2>1, <2>2, <2>3 DEF Numbered
  <2> QED  BY <2>1, <2>3, <2>4
<1>3. AddressFindsDevice
  BY <1>2 DEF AddressFindsDevice, At
<1>4. CancelFindsTransfer
  BY <1>0 DEF CancelFindsTransfer, Listed, Leads
<1>5. ASSUME NEW u \in urbs, BusDevAddrToSlotId(u.addr) # 0
      PROVE  u.slot = BusDevAddrToSlotId(u.addr) /\ u.ring = "own"
  <2>1. u.slot \in Slots /\ (Live(u.slot) => u.ring = "own")
    BY <1>0 DEF Listed, Leads
  <2>2. PICK p \in ready : /\ bus[p] = u.addr /\ ctx[u.slot].route = Route[p]
                           /\ Live(u.slot) \/ (Gone /\ p \in Below(enum.place))
    BY <1>0 DEF Listed, Leads
  <2>3. PICK s \in Slots : s = BusDevAddrToSlotId(u.addr)
    BY <1>5, ByAddress
  <2>4. At(s, p)
    BY <1>2, <1>5, <2>2, <2>3
  <2>5. Live(u.slot)
    BY <1>0, <2>2, <2>4 DEF Numbered
  <2>6. u.slot = s
    BY <2>1, <2>2, <2>3, <2>4, <2>5 DEF Core, OneSlotPerPlace, At
  <2> QED  BY <2>1, <2>3, <2>5, <2>6
<1>6. MonitorSafe
  BY <1>5 DEF MonitorSafe
<1> QED  BY <1>3, <1>4, <1>6

\* "Xhci driver would be responsible for translating it to actual device address"
\* (Xhci.h): while every slot could be disabled, the address of a configured
\* device leads to that device's slot or to none, and a transfer in the list can
\* be cancelled through the address it was made for.
THEOREM AddressesTranslated == Spec => []DevicesFound
<1>1. Core /\ AddrInv /\ [Next]_vars => Core' /\ AddrInv'
  BY CoreStep, AddrStep
<1>2. Core /\ AddrInv => DevicesFound
  BY AddressesLead DEF DevicesFound
<1> QED  BY <1>1, <1>2, CoreInit, AddrInit, PTL DEF Spec

\* Neither the timer, which follows a transfer through its address while every
\* slot could be disabled, nor the controller, which walks the rings of its
\* running endpoints whatever fails, is left with a ring the driver has freed.
THEOREM RingsKept == Spec => []RingsOwned
<1>1. Core /\ RingInv /\ AddrInv /\ [Next]_vars => Core' /\ RingInv' /\ AddrInv'
  BY CoreStep, RingStep, AddrStep
<1>2. Core /\ RingInv /\ AddrInv => RingsOwned
  BY AddressesLead DEF RingsOwned, RunningRingsOwned, RingInv, RunningRings
<1> QED  BY <1>1, <1>2, CoreInit, RingInit, AddrInit, PTL DEF Spec
==============================================================================
