------------------------- MODULE OwnedObjectsProofs -------------------------
(***************************************************************************)
(* What is proved of the allocators, of expected and of the owners of      *)
(* objects, for all types, counts, pools and sequences of operations.      *)
(***************************************************************************)
EXTENDS OwnedObjects, TLAPS

-----------------------------------------------------------------------------
(***************************************************************************)
(* Arithmetic of addresses.                                                *)
(***************************************************************************)
LEMMA DownIsAligned ==
  ASSUME NEW a \in Nat \ {0}, NEW x \in Nat
  PROVE  /\ AlignDown(x, a) \in Nat /\ AlignDown(x, a) <= x /\ x < AlignDown(x, a) + a
         /\ Aligned(AlignDown(x, a), a)
<1>1. /\ x \div a \in Nat
      /\ a * (x \div a) <= x /\ x < a * (x \div a) + a
  BY SMT
<1>2. \A k \in Nat : (a * k) % a = 0
  BY SMT
<1>. QED
  BY <1>1, <1>2 DEF AlignDown, Aligned

LEMMA AlignedIsMultiple ==
  ASSUME NEW a \in Nat \ {0}, NEW x \in Nat, Aligned(x, a)
  PROVE  \E k \in Nat : x = a * k
BY SMT DEF Aligned

LEMMA MultipleIsAligned ==
  ASSUME NEW a \in Nat \ {0}, NEW k \in Nat
  PROVE  Aligned(a * k, a)
BY SMT DEF Aligned

LEMMA AlignedByMore ==
  ASSUME NEW a \in Nat \ {0}, NEW b \in Nat \ {0}, NEW x \in Nat, Aligned(x, b), Aligned(b, a)
  PROVE  Aligned(x, a)
<1>1. PICK k \in Nat : x = b * k
  BY AlignedIsMultiple
<1>2. PICK l \in Nat : b = a * l
  BY AlignedIsMultiple
<1>3. x = a * (l * k) /\ l * k \in Nat
  BY <1>1, <1>2, SMT
<1>. QED
  BY <1>3, MultipleIsAligned

LEMMA AlignedSteps ==
  ASSUME NEW a \in Nat \ {0}, NEW x \in Nat, NEW y \in Nat, NEW i \in Nat,
         Aligned(x, a), Aligned(y, a)
  PROVE  Aligned(x + i * y, a)
<1>1. PICK k \in Nat : x = a * k
  BY AlignedIsMultiple
<1>2. PICK l \in Nat : y = a * l
  BY AlignedIsMultiple
<1>3. x + i * y = a * (k + i * l) /\ k + i * l \in Nat
  BY <1>1, <1>2, SMT
<1>. QED
  BY <1>3, MultipleIsAligned

Positive == Nat \ {0}

LEMMA StepsApart ==
  ASSUME NEW s \in Nat \ {0}, NEW i \in Nat, NEW j \in Nat, i < j
  PROVE  i * s \in Nat /\ i * s + s <= j * s
BY SMT

LEMMA ApartIsSymmetric ==
  ASSUME NEW x, NEW s, NEW y, NEW r, Apart(x, s, y, r)
  PROVE  Apart(y, r, x, s)
BY DEF Apart
-----------------------------------------------------------------------------
(***************************************************************************)
(* Types, and where their objects lie.                                     *)
(***************************************************************************)
LEMMA TypeFacts ==
  ASSUME NEW t \in Types, NEW n \in Positive
  PROVE  /\ t.size \in Positive /\ t.alignment \in Positive /\ t.base \in Positive
         /\ Aligned(t.size, t.alignment)
         /\ PointerSize \in Positive /\ PoolAlignment \in Positive /\ PageSize \in Positive
         /\ Reserved(t) \in Nat /\ Room(t, n) \in Positive /\ t.size * n <= Room(t, n)
         /\ Request(t, n) \in Positive /\ Request(t, n) = Reserved(t) + Room(t, n)
         /\ Reserved(t) # 0 <=> t.pool = "pool" /\ HoldsHeader(t.alignment)
         /\ Reserved(t) # 0 => Reserved(t) = t.alignment - 1 + PointerSize
<1>1. /\ t.size \in Positive /\ t.alignment \in Positive /\ t.base \in Positive
      /\ Aligned(t.size, t.alignment)
      /\ PointerSize \in Positive /\ PoolAlignment \in Positive /\ PageSize \in Positive
  BY TypesAssumption, AlignmentAssumption DEF Positive, Aligned
<1>2. t.size * n \in Positive
  BY <1>1, SMT DEF Positive
<1>3. Room(t, n) \in Positive /\ t.size * n <= Room(t, n)
  BY <1>1, <1>2 DEF Room, Larger, Positive
<1>4. /\ Reserved(t) \in Nat
      /\ Reserved(t) # 0 <=> t.pool = "pool" /\ HoldsHeader(t.alignment)
      /\ Reserved(t) # 0 => Reserved(t) = t.alignment - 1 + PointerSize
  BY <1>1 DEF Reserved, Positive
<1>. QED
  BY <1>1, <1>3, <1>4 DEF Request, Positive

(***************************************************************************)
(* In every block the pool may choose the objects lie aligned and inside,  *)
(* and an address that is kept lies inside too, just below them.           *)
(***************************************************************************)
THEOREM PlacedInsideAndAligned ==
  ASSUME NEW heap_, NEW t \in Types, NEW n \in Positive, NEW base \in Bases(heap_, t, Request(t, n))
  PROVE  /\ Pointer(t, base) \in Nat /\ Aligned(Pointer(t, base), t.alignment)
         /\ base <= Pointer(t, base)
         /\ Pointer(t, base) + Room(t, n) <= base + Request(t, n)
         /\ Reserved(t) # 0 => base + PointerSize <= Pointer(t, base)
         /\ Reserved(t) = 0 => Pointer(t, base) = base
<1>1. base \in Positive /\ Aligned(base, PoolAlignment)
  BY WordAssumption DEF Bases, Addresses, Positive
<1>2. CASE Reserved(t) = 0
  <2>1. Pointer(t, base) = base
    BY <1>2 DEF Pointer
  <2>2. Aligned(base, t.alignment)
    <3>1. CASE t.pool = "contiguous" \/ (t.alignment = PageSize /\ t.pool = "pool")
      <4>1. Aligned(PageSize, t.alignment)
        <5>1. Aligned(PageSize, PageSize)
          BY TypeFacts, SMT DEF Aligned, Positive
        <5>. QED
          BY <3>1, <5>1, TypesAssumption DEF Aligned
      <4>2. t.pool = "pool" /\ t.alignment = PageSize => Request(t, n) >= PageSize
        BY TypeFacts DEF Room, Larger, Request, Positive
      <4>3. Aligned(base, PageSize)
        BY <3>1, <4>2 DEF Bases
      <4>. QED
        BY <1>1, <4>1, <4>3, AlignedByMore, TypeFacts DEF Positive
    <3>2. CASE t.pool = "pool" /\ t.alignment # PageSize
      <4>1. t.alignment <= PoolAlignment
        BY <1>2, <3>2, TypeFacts DEF HoldsHeader, Positive
      <4>2. Aligned(PoolAlignment, t.alignment)
        BY <4>1, TypesAssumption, TypeFacts DEF Aligned, Positive
      <4>. QED
        BY <1>1, <4>2, AlignedByMore, TypeFacts DEF Positive
    <3>. QED
      BY <3>1, <3>2, TypesAssumption
  <2>. QED
    BY <1>1, <1>2, <2>1, <2>2, TypeFacts DEF Positive
<1>3. CASE Reserved(t) # 0
  <2>1. Pointer(t, base) = AlignDown(base + Reserved(t), t.alignment)
    BY <1>3 DEF Pointer
  <2>2. base + Reserved(t) \in Nat /\ t.alignment \in Nat \ {0}
    BY <1>1, TypeFacts DEF Positive
  <2>3. /\ Pointer(t, base) \in Nat /\ Aligned(Pointer(t, base), t.alignment)
        /\ Pointer(t, base) <= base + Reserved(t)
        /\ base + Reserved(t) < Pointer(t, base) + t.alignment
    BY <2>1, <2>2, DownIsAligned
  <2>. QED
    BY <1>1, <1>3, <2>3, TypeFacts DEF Positive
<1>. QED
  BY <1>2, <1>3
-----------------------------------------------------------------------------
(***************************************************************************)
(* The invariant of a heap and of those who own its blocks.  f says what   *)
(* each place owns, filling whose elements are not constructed yet.        *)
(***************************************************************************)
Owner == {Null} \cup [ptr : Positive, count : Positive, type : Types]

Element == [at : Nat, type : Types]
Block == [base : Positive, size : Positive]
Heap == [blocks : SUBSET Block, header : [Addresses -> Nat],
         elements : SUBSET Element, intact : BOOLEAN]

Owners(f) == {p \in Places : f[p].ptr # 0}

BlockBase(h, o) == Freed(h, o.type, o.type.alignment, o.ptr)
BlockFor(h, o) == [base |-> BlockBase(h, o), size |-> Request(o.type, o.count)]
HeaderOf(o) == o.ptr - PointerSize

Placed(o, base) ==
  /\ o.ptr = Pointer(o.type, base) /\ Aligned(o.ptr, o.type.alignment)
  /\ base \in Positive /\ base <= o.ptr
  /\ o.ptr + Room(o.type, o.count) <= base + Request(o.type, o.count)
  /\ base + Request(o.type, o.count) <= Word
  /\ Reserved(o.type) # 0 => base + PointerSize <= o.ptr
  /\ Reserved(o.type) = 0 => o.ptr = base

Holds(h, o) == BlockFor(h, o) \in h.blocks /\ Placed(o, BlockBase(h, o))

ElementsOf(o) == Elements(o.type, o.ptr, o.count)

BlocksApart(h) == \A b, c \in h.blocks : b # c => Apart(b.base, b.size, c.base, c.size)
EachHolds(h, f) == \A p \in Owners(f) : Holds(h, f[p])
OwnersDiffer(h, f) ==
  \A p, q \in Owners(f) : p # q => BlockBase(h, f[p]) # BlockBase(h, f[q])
EachBlockOwned(h, f) == \A b \in h.blocks : \E p \in Owners(f) : b.base = BlockBase(h, f[p])
HeadersOwned(h, f) ==
  \A a \in Addresses : h.header[a] # 0 =>
    \E p \in Owners(f) : Reserved(f[p].type) # 0 /\ a = HeaderOf(f[p])
ElementsOwned(h, f, fill) ==
  h.elements = UNION {ElementsOf(f[p]) : p \in Owners(f) \ {fill}}

HeapOK(h, f, fill) ==
  /\ h \in Heap /\ f \in [Places -> Owner]
  /\ BlocksApart(h) /\ EachHolds(h, f) /\ OwnersDiffer(h, f) /\ EachBlockOwned(h, f)
  /\ HeadersOwned(h, f) /\ ElementsOwned(h, f, fill)
  /\ h.intact

LEMMA OwnerFacts ==
  ASSUME NEW o \in Owner, o.ptr # 0
  PROVE  /\ o \in [ptr : Positive, count : Positive, type : Types]
         /\ o.ptr \in Positive /\ o.count \in Positive /\ o.type \in Types
BY DEF Owner, Null

LEMMA NullFacts ==
  /\ Null \in Owner /\ Null.ptr = 0
  /\ \A o \in Owner : o.ptr = 0 => o = Null
BY DEF Owner, Null, Positive

LEMMA HeapFacts ==
  ASSUME NEW h \in Heap
  PROVE  /\ h = [blocks |-> h.blocks, header |-> h.header, elements |-> h.elements,
                 intact |-> h.intact]
         /\ h.blocks \subseteq Block /\ h.header \in [Addresses -> Nat]
         /\ h.elements \subseteq Element /\ h.intact \in BOOLEAN
BY DEF Heap

(***************************************************************************)
(* The elements of an owner lie aligned, apart, and between its pointer    *)
(* and the end of its block.                                               *)
(***************************************************************************)
LEMMA ElementsInside ==
  ASSUME NEW o \in Owner, o.ptr # 0, NEW base, Placed(o, base), NEW e \in ElementsOf(o)
  PROVE  /\ e \in Element /\ e.type = o.type
         /\ Aligned(e.at, e.type.alignment)
         /\ o.ptr <= e.at
         /\ e.at + e.type.size <= o.ptr + Room(o.type, o.count)
         /\ \A d \in ElementsOf(o) : d # e => Apart(d.at, d.type.size, e.at, e.type.size)
<1> DEFINE s == o.type.size
<1>1. o.ptr \in Positive /\ o.count \in Positive /\ o.type \in Types
  BY OwnerFacts
<1>2. /\ s \in Positive /\ s * o.count <= Room(o.type, o.count)
      /\ Room(o.type, o.count) \in Positive
      /\ o.type.alignment \in Positive /\ Aligned(s, o.type.alignment)
  BY <1>1, TypeFacts
<1>3. PICK i \in 0 .. o.count - 1 : e = [at |-> o.ptr + i * s, type |-> o.type]
  BY DEF ElementsOf, Elements
<1>4. /\ i * s \in Nat /\ i * s + s <= o.count * s
  BY <1>1, <1>2, <1>3, StepsApart DEF Positive
<1>5. o.count * s = s * o.count /\ s * o.count \in Nat
  BY <1>1, <1>2, SMT DEF Positive
<1>6. Aligned(o.ptr + i * s, o.type.alignment)
  BY <1>1, <1>2, <1>3, AlignedSteps DEF Placed, Positive
<1>7. ASSUME NEW d \in ElementsOf(o), d # e
      PROVE  Apart(d.at, d.type.size, e.at, e.type.size)
  <2>1. PICK j \in 0 .. o.count - 1 : d = [at |-> o.ptr + j * s, type |-> o.type]
    BY DEF ElementsOf, Elements
  <2>2. i # j
    BY <1>3, <1>7, <2>1
  <2>3. CASE i < j
    <3>1. j * s \in Nat /\ i * s + s <= j * s
      BY <1>2, <1>3, <2>1, <2>3, StepsApart, SMT DEF Positive
    <3>. QED
      BY <1>1, <1>2, <1>3, <1>4, <2>1, <3>1 DEF Apart, Positive
  <2>4. CASE j < i
    <3>1. j * s \in Nat /\ j * s + s <= i * s
      BY <1>2, <1>3, <2>1, <2>4, StepsApart, SMT DEF Positive
    <3>. QED
      BY <1>1, <1>2, <1>3, <1>4, <2>1, <3>1 DEF Apart, Positive
  <2>. QED
    BY <2>1, <2>2, <2>3, <2>4
<1>8. o.ptr + i * s \in Nat
  BY <1>1, <1>4 DEF Positive
<1>. QED
  BY <1>1, <1>2, <1>3, <1>4, <1>5, <1>6, <1>7, <1>8 DEF Element, Positive

(***************************************************************************)
(* The blocks of two owners are apart, and what an owner has in its block  *)
(* (the kept address, the elements) is inside it.                          *)
(***************************************************************************)
LEMMA OwnersApart ==
  ASSUME NEW h, NEW f, NEW fill, HeapOK(h, f, fill), NEW p \in Owners(f)
  PROVE  /\ f[p] \in Owner /\ f[p].ptr # 0 /\ p \in Places
         /\ f[p].ptr \in Positive /\ f[p].count \in Positive /\ f[p].type \in Types
         /\ BlockFor(h, f[p]) \in h.blocks /\ Placed(f[p], BlockBase(h, f[p]))
         /\ BlockBase(h, f[p]) \in Positive
         /\ Request(f[p].type, f[p].count) \in Positive
         /\ \A q \in Owners(f) : p # q =>
              Apart(BlockBase(h, f[p]), Request(f[p].type, f[p].count),
                    BlockBase(h, f[q]), Request(f[q].type, f[q].count))
<1>1. p \in Places /\ f[p] \in Owner /\ f[p].ptr # 0
  BY DEF Owners, HeapOK
<1>2. f[p].ptr \in Positive /\ f[p].count \in Positive /\ f[p].type \in Types
  BY <1>1, OwnerFacts
<1>3. BlockFor(h, f[p]) \in h.blocks /\ Placed(f[p], BlockBase(h, f[p]))
  BY DEF HeapOK, EachHolds, Holds
<1>4. BlockBase(h, f[p]) \in Positive /\ Request(f[p].type, f[p].count) \in Positive
  BY <1>2, <1>3, TypeFacts DEF Placed
<1>5. ASSUME NEW q \in Owners(f), p # q
      PROVE  Apart(BlockBase(h, f[p]), Request(f[p].type, f[p].count),
                   BlockBase(h, f[q]), Request(f[q].type, f[q].count))
  <2>1. BlockFor(h, f[q]) \in h.blocks
    BY DEF HeapOK, EachHolds, Holds
  <2>2. BlockBase(h, f[p]) # BlockBase(h, f[q])
    BY <1>5 DEF HeapOK, OwnersDiffer
  <2>3. BlockFor(h, f[p]) # BlockFor(h, f[q])
    BY <2>2 DEF BlockFor
  <2>4. Apart(BlockFor(h, f[p]).base, BlockFor(h, f[p]).size,
              BlockFor(h, f[q]).base, BlockFor(h, f[q]).size)
    BY <1>3, <2>1, <2>3 DEF HeapOK, BlocksApart
  <2>. QED
    BY <2>4 DEF BlockFor
<1>. QED
  BY <1>1, <1>2, <1>3, <1>4, <1>5

LEMMA HeaderInside ==
  ASSUME NEW o \in Owner, o.ptr # 0, NEW base, Placed(o, base), Reserved(o.type) # 0
  PROVE  /\ HeaderOf(o) \in Addresses /\ base <= HeaderOf(o)
         /\ HeaderOf(o) + PointerSize = o.ptr
         /\ HeaderOf(o) + PointerSize <= base + Request(o.type, o.count)
<1>1. o.ptr \in Positive /\ o.count \in Positive /\ o.type \in Types
  BY OwnerFacts
<1>2. /\ Room(o.type, o.count) \in Positive /\ PointerSize \in Positive
      /\ Request(o.type, o.count) \in Positive
  BY <1>1, TypeFacts
<1>. QED
  BY <1>1, <1>2, WordAssumption DEF Placed, HeaderOf, Addresses, Positive

(***************************************************************************)
(* deallocate finds the same address by the alignment of the base class.   *)
(***************************************************************************)
LEMMA FreedFacts ==
  ASSUME NEW h, NEW o \in Owner, o.ptr # 0
  PROVE  /\ Freed(h, o.type, o.type.base, o.ptr) = BlockBase(h, o)
         /\ BlockBase(h, o) = IF Reserved(o.type) # 0 THEN h.header[HeaderOf(o)] ELSE o.ptr
<1>1. o.count \in Positive /\ o.type \in Types
  BY OwnerFacts
<1>2. Reserved(o.type) # 0 <=> o.type.pool = "pool" /\ HoldsHeader(o.type.alignment)
  BY <1>1, TypeFacts
<1>3. HoldsHeader(o.type.base) = HoldsHeader(o.type.alignment)
  BY <1>1, TypesAssumption
<1>. QED
  BY <1>2, <1>3 DEF Freed, BlockBase, HeaderOf

(***************************************************************************)
(* The invariant says what the properties say.                             *)
(***************************************************************************)
LEMMA ElementsOfApart ==
  ASSUME NEW h, NEW f, NEW fill, HeapOK(h, f, fill), NEW d \in h.elements, NEW e \in h.elements,
         d # e
  PROVE  Apart(d.at, d.type.size, e.at, e.type.size)
<1>1. PICK p \in Owners(f) : d \in ElementsOf(f[p])
  BY DEF HeapOK, ElementsOwned
<1>2. PICK q \in Owners(f) : e \in ElementsOf(f[q])
  BY DEF HeapOK, ElementsOwned
<1>3. CASE p = q
  BY <1>1, <1>2, <1>3, OwnersApart, ElementsInside
<1>4. CASE p # q
  <2>1. /\ d \in Element /\ f[p].ptr <= d.at
        /\ d.at + d.type.size <= f[p].ptr + Room(f[p].type, f[p].count)
        /\ d.type = f[p].type
    BY <1>1, OwnersApart, ElementsInside
  <2>2. /\ e \in Element /\ f[q].ptr <= e.at
        /\ e.at + e.type.size <= f[q].ptr + Room(f[q].type, f[q].count)
        /\ e.type = f[q].type
    BY <1>2, OwnersApart, ElementsInside
  <2>3. Apart(BlockBase(h, f[p]), Request(f[p].type, f[p].count),
              BlockBase(h, f[q]), Request(f[q].type, f[q].count))
    BY <1>4, OwnersApart
  <2>4. /\ d.at \in Nat /\ e.at \in Nat /\ d.type.size \in Nat /\ e.type.size \in Nat
        /\ Room(f[p].type, f[p].count) \in Nat /\ Room(f[q].type, f[q].count) \in Nat
    BY <2>1, <2>2, OwnersApart, TypeFacts DEF Element, Positive
  <2>5. /\ BlockBase(h, f[p]) \in Nat /\ Request(f[p].type, f[p].count) \in Nat
        /\ BlockBase(h, f[p]) <= f[p].ptr /\ f[p].ptr \in Nat
        /\ f[p].ptr + Room(f[p].type, f[p].count)
             <= BlockBase(h, f[p]) + Request(f[p].type, f[p].count)
    BY OwnersApart DEF Placed, Positive
  <2>6. /\ BlockBase(h, f[q]) \in Nat /\ Request(f[q].type, f[q].count) \in Nat
        /\ BlockBase(h, f[q]) <= f[q].ptr /\ f[q].ptr \in Nat
        /\ f[q].ptr + Room(f[q].type, f[q].count)
             <= BlockBase(h, f[q]) + Request(f[q].type, f[q].count)
    BY OwnersApart DEF Placed, Positive
  <2>. QED
    BY <2>1, <2>2, <2>3, <2>4, <2>5, <2>6 DEF Apart
<1>. QED
  BY <1>3, <1>4

LEMMA HeadersApart ==
  ASSUME NEW h, NEW f, NEW fill, HeapOK(h, f, fill), NEW a \in Addresses, h.header[a] # 0,
         NEW e \in h.elements
  PROVE  Apart(a, PointerSize, e.at, e.type.size)
<1>1. PICK p \in Owners(f) : Reserved(f[p].type) # 0 /\ a = HeaderOf(f[p])
  BY DEF HeapOK, HeadersOwned
<1>2. PICK q \in Owners(f) : e \in ElementsOf(f[q])
  BY DEF HeapOK, ElementsOwned
<1>3. /\ BlockBase(h, f[p]) <= a /\ a + PointerSize = f[p].ptr /\ a \in Nat
      /\ a + PointerSize <= BlockBase(h, f[p]) + Request(f[p].type, f[p].count)
  BY <1>1, OwnersApart, HeaderInside DEF Addresses
<1>4. /\ e \in Element /\ f[q].ptr <= e.at
      /\ e.at + e.type.size <= f[q].ptr + Room(f[q].type, f[q].count)
      /\ e.type = f[q].type
  BY <1>2, OwnersApart, ElementsInside
<1>5. CASE p = q
  BY <1>3, <1>4, <1>5 DEF Apart
<1>6. CASE p # q
  <2>1. Apart(BlockBase(h, f[p]), Request(f[p].type, f[p].count),
              BlockBase(h, f[q]), Request(f[q].type, f[q].count))
    BY <1>6, OwnersApart
  <2>2. /\ e.at \in Nat /\ e.type.size \in Nat /\ PointerSize \in Nat
        /\ Room(f[q].type, f[q].count) \in Nat
    BY <1>4, OwnersApart, TypeFacts DEF Element, Positive
  <2>3. BlockBase(h, f[p]) \in Nat /\ Request(f[p].type, f[p].count) \in Nat
    BY OwnersApart DEF Positive
  <2>4. /\ BlockBase(h, f[q]) \in Nat /\ Request(f[q].type, f[q].count) \in Nat
        /\ BlockBase(h, f[q]) <= f[q].ptr /\ f[q].ptr \in Nat
        /\ f[q].ptr + Room(f[q].type, f[q].count)
             <= BlockBase(h, f[q]) + Request(f[q].type, f[q].count)
    BY OwnersApart DEF Placed, Positive
  <2>. QED
    BY <1>3, <1>4, <2>1, <2>2, <2>3, <2>4 DEF Apart
<1>. QED
  BY <1>5, <1>6
-----------------------------------------------------------------------------
(***************************************************************************)
(* What the operations do to the heap keeps the invariant.                 *)
(***************************************************************************)
LEMMA NoneIsNoPlace == None \notin Places
BY PlacesAssumption DEF None, Places

LEMMA AllocateKeeps ==
  ASSUME NEW h, NEW f, HeapOK(h, f, None), NEW p \in Places, f[p].ptr = 0,
         NEW t \in Types, NEW n \in Positive, NEW base \in Bases(h, t, Request(t, n)),
         NEW o, o = [ptr |-> Pointer(t, base), count |-> n, type |-> t]
  PROVE  /\ HeapOK(Allocate(h, t, n, base), [f EXCEPT ![p] = o], p)
         /\ o \in Owner /\ o.ptr # 0
<1> DEFINE g  == Allocate(h, t, n, base)
           f1 == [f EXCEPT ![p] = o]
           r  == Request(t, n)
<1>1. /\ base \in Positive /\ r \in Positive /\ base + r <= Word
      /\ \A b \in h.blocks : Apart(b.base, b.size, base, r)
  BY WordAssumption, TypeFacts DEF Bases, Addresses, Positive
<1>2. /\ o \in Owner /\ o.ptr \in Positive /\ o.ptr # 0 /\ o.type = t /\ o.count = n
      /\ Placed(o, base)
  <2>1. o.ptr = Pointer(t, base) /\ o.type = t /\ o.count = n
    OBVIOUS
  <2>2. o.ptr \in Positive
    BY <1>1, <2>1, PlacedInsideAndAligned DEF Positive
  <2>3. o \in [ptr : Positive, count : Positive, type : Types]
    BY <2>2
  <2>4. Placed(o, base)
    BY <1>1, <2>1, PlacedInsideAndAligned DEF Placed
  <2>. QED
    BY <2>1, <2>2, <2>3, <2>4 DEF Owner, Positive
<1>3. /\ h \in Heap /\ f \in [Places -> Owner]
  BY DEF HeapOK
<1>4. /\ f1 \in [Places -> Owner] /\ f1[p] = o
      /\ Owners(f1) = Owners(f) \cup {p} /\ p \notin Owners(f)
      /\ \A q \in Owners(f) : f1[q] = f[q] /\ q # p
  BY <1>2, <1>3 DEF Owners
<1>5. /\ g.blocks = h.blocks \cup {[base |-> base, size |-> r]}
      /\ g.elements = h.elements /\ g.intact = h.intact
      /\ g.header \in [Addresses -> Nat]
      /\ \A a \in Addresses :
           g.header[a] = IF Reserved(t) # 0 /\ a = HeaderOf(o) THEN base
                         ELSE IF Apart(a, PointerSize, o.ptr, Room(t, n)) THEN h.header[a]
                         ELSE 0
  <2>1. \A a \in Addresses : h.header[a] \in Nat
    BY <1>3, HeapFacts
  <2>2. base \in Nat /\ 0 \in Nat
    BY <1>1 DEF Positive
  <2>3. g.header = [a \in Addresses |->
                      IF Reserved(t) # 0 /\ a = HeaderOf(o) THEN base
                      ELSE IF Apart(a, PointerSize, o.ptr, Room(t, n)) THEN h.header[a]
                      ELSE 0]
    BY DEF Allocate, HeaderOf
  <2>4. g.header \in [Addresses -> Nat]
    BY <2>1, <2>2, <2>3
  <2>. QED
    BY <2>3, <2>4 DEF Allocate
<1>6. g \in Heap
  <2>1. [base |-> base, size |-> r] \in Block
    BY <1>1 DEF Block
  <2>2. g.blocks \in SUBSET Block
    BY <1>3, <1>5, <2>1, HeapFacts
  <2>3. g.elements \in SUBSET Element /\ g.intact \in BOOLEAN
    BY <1>3, <1>5, HeapFacts
  <2>4. g = [blocks |-> g.blocks, header |-> g.header, elements |-> g.elements,
             intact |-> g.intact]
    BY DEF Allocate
  <2>. QED
    BY <1>5, <2>2, <2>3, <2>4 DEF Heap
<1>7. ASSUME NEW q \in Owners(f)
      PROVE  BlockBase(g, f[q]) = BlockBase(h, f[q])
  <2>1. CASE Reserved(f[q].type) = 0
    BY <2>1, OwnersApart, FreedFacts
  <2>2. CASE Reserved(f[q].type) # 0
    <3> DEFINE a == HeaderOf(f[q])
    <3>1. /\ a \in Addresses /\ a \in Nat /\ BlockBase(h, f[q]) <= a
          /\ a + PointerSize <= BlockBase(h, f[q]) + Request(f[q].type, f[q].count)
      BY <2>2, OwnersApart, HeaderInside DEF Addresses
    <3>2. Apart(BlockBase(h, f[q]), Request(f[q].type, f[q].count), base, r)
      <4>1. BlockFor(h, f[q]) \in h.blocks
        BY OwnersApart
      <4>2. Apart(BlockFor(h, f[q]).base, BlockFor(h, f[q]).size, base, r)
        BY <1>1, <4>1
      <4>. QED
        BY <4>2 DEF BlockFor
    <3>3. /\ BlockBase(h, f[q]) \in Nat /\ Request(f[q].type, f[q].count) \in Nat
          /\ PointerSize \in Positive /\ Room(t, n) \in Nat
      BY OwnersApart, TypeFacts DEF Positive
    <3>4. base <= o.ptr /\ o.ptr + Room(t, n) <= base + r
      BY <1>2 DEF Placed
    <3>5. Apart(a, PointerSize, o.ptr, Room(t, n))
      BY <1>1, <1>2, <3>1, <3>2, <3>3, <3>4 DEF Apart, Positive
    <3>6. Reserved(t) # 0 => a # HeaderOf(o)
      <4>1. Reserved(t) # 0 => base <= HeaderOf(o) /\ HeaderOf(o) + PointerSize <= base + r
        BY <1>2, HeaderInside
      <4>2. HeaderOf(o) \in Int
        BY <1>2, <3>3 DEF HeaderOf, Positive
      <4>. QED
        BY <1>1, <3>1, <3>2, <3>3, <4>1, <4>2 DEF Apart, Positive
    <3>7. g.header[a] = h.header[a]
      BY <1>5, <3>1, <3>5, <3>6
    <3>. QED
      BY <2>2, <3>7, OwnersApart, FreedFacts
  <2>. QED
    BY <2>1, <2>2
<1>8. BlockBase(g, o) = base
  <2>1. CASE Reserved(t) = 0
    BY <1>2, <2>1, FreedFacts DEF Placed
  <2>2. CASE Reserved(t) # 0
    BY <1>2, <1>5, <2>2, FreedFacts, HeaderInside
  <2>. QED
    BY <2>1, <2>2
<1>9. BlocksApart(g)
  <2>1. ASSUME NEW b \in g.blocks, NEW c \in g.blocks, b # c
        PROVE  Apart(b.base, b.size, c.base, c.size)
    <3>1. CASE b \in h.blocks /\ c \in h.blocks
      BY <2>1, <3>1 DEF HeapOK, BlocksApart
    <3>2. CASE b \in h.blocks /\ c = [base |-> base, size |-> r]
      BY <1>1, <3>2
    <3>3. CASE c \in h.blocks /\ b = [base |-> base, size |-> r]
      BY <1>1, <3>3, ApartIsSymmetric
    <3>. QED
      BY <1>5, <2>1, <3>1, <3>2, <3>3
  <2>. QED
    BY <2>1 DEF BlocksApart
<1>10. EachHolds(g, f1)
  <2>1. Holds(g, o)
    BY <1>2, <1>5, <1>8 DEF Holds, BlockFor
  <2>2. \A q \in Owners(f) : Holds(g, f[q])
    BY <1>5, <1>7 DEF HeapOK, EachHolds, Holds, BlockFor
  <2>. QED
    BY <1>4, <2>1, <2>2 DEF EachHolds
<1>11. \A q \in Owners(f) : BlockBase(h, f[q]) # base
  <2>1. SUFFICES ASSUME NEW q \in Owners(f), BlockBase(h, f[q]) = base PROVE FALSE
    OBVIOUS
  <2>2. Apart(BlockFor(h, f[q]).base, BlockFor(h, f[q]).size, base, r)
    BY <1>1, OwnersApart
  <2>3. Apart(base, Request(f[q].type, f[q].count), base, r)
    BY <2>1, <2>2 DEF BlockFor
  <2>4. Request(f[q].type, f[q].count) \in Positive
    BY OwnersApart
  <2>. QED
    BY <1>1, <2>3, <2>4 DEF Apart, Positive
<1>12. OwnersDiffer(g, f1)
  BY <1>4, <1>7, <1>8, <1>11 DEF HeapOK, OwnersDiffer
<1>13. EachBlockOwned(g, f1)
  <2>1. ASSUME NEW b \in g.blocks
        PROVE  \E q \in Owners(f1) : b.base = BlockBase(g, f1[q])
    <3>1. CASE b \in h.blocks
      <4>1. PICK q \in Owners(f) : b.base = BlockBase(h, f[q])
        BY <3>1 DEF HeapOK, EachBlockOwned
      <4>. QED
        BY <1>4, <1>7, <4>1
    <3>2. CASE b = [base |-> base, size |-> r]
      BY <1>4, <1>8, <3>2
    <3>. QED
      BY <1>5, <3>1, <3>2
  <2>. QED
    BY <2>1 DEF EachBlockOwned
<1>14. HeadersOwned(g, f1)
  <2>1. ASSUME NEW a \in Addresses, g.header[a] # 0
        PROVE  \E q \in Owners(f1) : Reserved(f1[q].type) # 0 /\ a = HeaderOf(f1[q])
    <3>1. CASE Reserved(t) # 0 /\ a = HeaderOf(o)
      BY <1>2, <1>4, <3>1
    <3>2. CASE ~(Reserved(t) # 0 /\ a = HeaderOf(o))
      <4>1. h.header[a] # 0
        BY <1>5, <2>1, <3>2
      <4>2. PICK q \in Owners(f) : Reserved(f[q].type) # 0 /\ a = HeaderOf(f[q])
        BY <4>1 DEF HeapOK, HeadersOwned
      <4>. QED
        BY <1>4, <4>2
    <3>. QED
      BY <3>1, <3>2
  <2>. QED
    BY <2>1 DEF HeadersOwned
<1>15. ElementsOwned(g, f1, p)
  <2>1. Owners(f1) \ {p} = Owners(f) /\ Owners(f) \ {None} = Owners(f)
    BY <1>4, NoneIsNoPlace DEF Owners
  <2>2. h.elements = UNION {ElementsOf(f[q]) : q \in Owners(f)}
    BY <2>1 DEF HeapOK, ElementsOwned
  <2>3. {ElementsOf(f[q]) : q \in Owners(f)} = {ElementsOf(f1[q]) : q \in Owners(f)}
    BY <1>4
  <2>. QED
    BY <1>5, <2>1, <2>2, <2>3 DEF ElementsOwned
<1>16. g.intact
  BY <1>5 DEF HeapOK
<1>. QED
  BY <1>2, <1>4, <1>6, <1>9, <1>10, <1>12, <1>13, <1>14, <1>15, <1>16 DEF HeapOK

LEMMA ConstructKeeps ==
  ASSUME NEW h, NEW f, NEW p \in Places, HeapOK(h, f, p), f[p].ptr # 0
  PROVE  HeapOK(ConstructElements(h, f[p].type, f[p].count, f[p].ptr), f, None)
<1> DEFINE o == f[p]
           g == ConstructElements(h, o.type, o.count, o.ptr)
<1>1. p \in Owners(f) /\ h \in Heap
  BY DEF HeapOK, Owners
<1>2. o \in Owner /\ Placed(o, BlockBase(h, o))
  BY <1>1, OwnersApart
<1>3. g = [blocks |-> h.blocks, header |-> h.header, elements |-> h.elements \cup ElementsOf(o),
           intact |-> h.intact]
  BY <1>1, HeapFacts DEF ConstructElements, ElementsOf
<1>4. ElementsOf(o) \subseteq Element
  BY <1>1, <1>2, ElementsInside DEF Owners
<1>5. g \in Heap
  BY <1>1, <1>3, <1>4, HeapFacts DEF Heap
<1>6. g.blocks = h.blocks /\ g.header = h.header /\ g.intact = h.intact
      /\ g.elements = h.elements \cup ElementsOf(o)
  BY <1>3
<1>7. \A q \in Owners(f) : BlockBase(g, f[q]) = BlockBase(h, f[q])
  BY <1>6 DEF BlockBase, Freed
<1>8. /\ BlocksApart(g) /\ EachHolds(g, f) /\ OwnersDiffer(g, f) /\ EachBlockOwned(g, f)
      /\ HeadersOwned(g, f)
  BY <1>6, <1>7 DEF HeapOK, BlocksApart, EachHolds, Holds, BlockFor, OwnersDiffer,
     EachBlockOwned, HeadersOwned
<1>9. ElementsOwned(g, f, None)
  <2>1. Owners(f) \ {None} = (Owners(f) \ {p}) \cup {p}
    BY <1>1, NoneIsNoPlace DEF Owners
  <2>2. h.elements = UNION {ElementsOf(f[q]) : q \in Owners(f) \ {p}}
    BY DEF HeapOK, ElementsOwned
  <2>. QED
    BY <1>6, <2>1, <2>2 DEF ElementsOwned
<1>. QED
  BY <1>5, <1>6, <1>8, <1>9 DEF HeapOK

(***************************************************************************)
(* Owners may change their places.                                         *)
(***************************************************************************)
LEMMA RenameKeeps ==
  ASSUME NEW h, NEW f, HeapOK(h, f, None), NEW f1 \in [Places -> Owner], NEW from,
         \A r \in Owners(f1) : from[r] \in Owners(f) /\ f1[r] = f[from[r]],
         \A r, s \in Owners(f1) : r # s => from[r] # from[s],
         \A r \in Owners(f) : \E s \in Owners(f1) : from[s] = r
  PROVE  HeapOK(h, f1, None)
<1>1. EachHolds(h, f1) /\ OwnersDiffer(h, f1)
  BY DEF HeapOK, EachHolds, OwnersDiffer
<1>2. \A r \in Owners(f) : \E s \in Owners(f1) : f1[s] = f[r]
  OBVIOUS
<1>3. EachBlockOwned(h, f1)
  <2>1. ASSUME NEW b \in h.blocks PROVE \E s \in Owners(f1) : b.base = BlockBase(h, f1[s])
    <3>1. PICK r \in Owners(f) : b.base = BlockBase(h, f[r])
      BY DEF HeapOK, EachBlockOwned
    <3>2. PICK s \in Owners(f1) : f1[s] = f[r]
      BY <1>2
    <3>. QED
      BY <3>1, <3>2
  <2>. QED
    BY <2>1 DEF EachBlockOwned
<1>4. HeadersOwned(h, f1)
  <2>1. ASSUME NEW a \in Addresses, h.header[a] # 0
        PROVE  \E s \in Owners(f1) : Reserved(f1[s].type) # 0 /\ a = HeaderOf(f1[s])
    <3>1. PICK r \in Owners(f) : Reserved(f[r].type) # 0 /\ a = HeaderOf(f[r])
      BY <2>1 DEF HeapOK, HeadersOwned
    <3>2. PICK s \in Owners(f1) : f1[s] = f[r]
      BY <1>2
    <3>. QED
      BY <3>1, <3>2
  <2>. QED
    BY <2>1 DEF HeadersOwned
<1>5. ElementsOwned(h, f1, None)
  <2>1. Owners(f1) \ {None} = Owners(f1) /\ Owners(f) \ {None} = Owners(f)
    BY NoneIsNoPlace DEF Owners
  <2>2. h.elements = UNION {ElementsOf(f[r]) : r \in Owners(f)}
    BY <2>1 DEF HeapOK, ElementsOwned
  <2>3. {ElementsOf(f[r]) : r \in Owners(f)} \subseteq {ElementsOf(f1[s]) : s \in Owners(f1)}
    BY <1>2
  <2>4. {ElementsOf(f1[s]) : s \in Owners(f1)} \subseteq {ElementsOf(f[r]) : r \in Owners(f)}
    OBVIOUS
  <2>. QED
    BY <2>1, <2>2, <2>3, <2>4 DEF ElementsOwned
<1>. QED
  BY <1>1, <1>3, <1>4, <1>5 DEF HeapOK

LEMMA MoveKeeps ==
  ASSUME NEW h, NEW f, HeapOK(h, f, None), NEW p \in Places, NEW q \in Places, p # q,
         f[q].ptr = 0
  PROVE  HeapOK(h, [f EXCEPT ![q] = f[p], ![p] = Null], None)
<1> DEFINE f1 == [f EXCEPT ![q] = f[p], ![p] = Null]
           from == [r \in Places |-> IF r = q THEN p ELSE r]
<1>1. f \in [Places -> Owner] /\ f1 \in [Places -> Owner]
  BY NullFacts DEF HeapOK
<1>2. f1[p] = Null /\ f1[q] = f[p] /\ \A r \in Places \ {p, q} : f1[r] = f[r]
  BY <1>1
<1>3. p \notin Owners(f1) /\ q \notin Owners(f)
  BY <1>2, NullFacts DEF Owners
<1>4. from[q] = p /\ \A r \in Places \ {q} : from[r] = r
  OBVIOUS
<1> HIDE DEF f1, from
<1>5. \A r \in Owners(f1) : from[r] \in Owners(f) /\ f1[r] = f[from[r]]
  BY <1>2, <1>3, <1>4 DEF Owners
<1>6. \A r, s \in Owners(f1) : r # s => from[r] # from[s]
  BY <1>3, <1>4 DEF Owners
<1>7. ASSUME NEW r \in Owners(f) PROVE \E s \in Owners(f1) : from[s] = r
  <2>1. CASE r = p
    <3>1. q \in Owners(f1)
      BY <1>2, <1>7, <2>1 DEF Owners
    <3>. QED
      BY <1>4, <2>1, <3>1
  <2>2. CASE r # p
    <3>1. r \in Owners(f1) /\ from[r] = r
      BY <1>2, <1>3, <1>4, <1>7, <2>2 DEF Owners
    <3>. QED
      BY <3>1
  <2>. QED
    BY <2>1, <2>2
<1>8. HeapOK(h, f1, None)
  BY <1>1, <1>5, <1>6, <1>7, RenameKeeps
<1>. QED
  BY <1>8 DEF f1

(***************************************************************************)
(* allocator_delete, by the alignment of the object's own class or of its  *)
(* base class, takes exactly the block and the elements of one owner.      *)
(***************************************************************************)
LEMMA DeleteKeeps ==
  ASSUME NEW h, NEW f, HeapOK(h, f, None), NEW p \in Places, f[p].ptr # 0,
         NEW alignment, alignment \in {f[p].type.alignment, f[p].type.base}
  PROVE  HeapOK(Delete(h, f[p].type, alignment, f[p].count, f[p].ptr),
                [f EXCEPT ![p] = Null], None)
<1> DEFINE o    == f[p]
           g    == Delete(h, o.type, alignment, o.count, o.ptr)
           f1   == [f EXCEPT ![p] = Null]
           base == BlockBase(h, o)
           r    == Request(o.type, o.count)
           gone == {b \in h.blocks : b.base = base}
<1>1. h \in Heap /\ f \in [Places -> Owner] /\ p \in Owners(f)
  BY DEF HeapOK, Owners
<1>2. /\ o \in Owner /\ o.ptr # 0 /\ BlockFor(h, o) \in h.blocks /\ Placed(o, base)
      /\ base \in Positive /\ r \in Positive
      /\ BlockFor(h, o) = [base |-> base, size |-> r]
  BY <1>1, OwnersApart DEF BlockFor
<1>3. f1 \in [Places -> Owner] /\ f1[p] = Null /\ Owners(f1) = Owners(f) \ {p}
      /\ \A q \in Owners(f1) : f1[q] = f[q] /\ q \in Owners(f) /\ q # p
  BY <1>1, NullFacts DEF Owners
<1>4. Freed(h, o.type, alignment, o.ptr) = base
  BY <1>2, FreedFacts DEF BlockBase
<1>5. gone = {BlockFor(h, o)}
  <2>1. ASSUME NEW b \in h.blocks, b.base = base, b # BlockFor(h, o) PROVE FALSE
    <3>1. Apart(b.base, b.size, BlockFor(h, o).base, BlockFor(h, o).size)
      BY <1>2, <2>1 DEF HeapOK, BlocksApart
    <3>2. Apart(base, b.size, base, r)
      BY <1>2, <2>1, <3>1
    <3>3. b.size \in Positive
      BY <1>1, HeapFacts DEF Block
    <3>. QED
      BY <1>2, <3>2, <3>3 DEF Apart, Positive
  <2>2. BlockFor(h, o).base = base
    BY <1>2
  <2>. QED
    BY <1>2, <2>1, <2>2
<1>6. /\ g.blocks = h.blocks \ {BlockFor(h, o)}
      /\ g.elements = h.elements \ ElementsOf(o)
      /\ g.intact = (h.intact /\ ElementsOf(o) \subseteq h.elements)
      /\ g.header = [a \in Addresses |->
                       IF Apart(a, PointerSize, base, r) THEN h.header[a] ELSE 0]
      /\ g = [blocks |-> g.blocks, header |-> g.header, elements |-> g.elements,
              intact |-> g.intact]
  <2>1. g = [blocks   |-> h.blocks \ gone,
             header   |-> [a \in Addresses |->
                             IF \A b \in gone : Apart(a, PointerSize, b.base, b.size)
                             THEN h.header[a]
                             ELSE 0],
             elements |-> h.elements \ ElementsOf(o),
             intact   |-> h.intact /\ gone # {} /\ ElementsOf(o) \subseteq h.elements]
    BY <1>4 DEF Delete, ElementsOf
  <2>2. gone # {} /\ \A b \in gone : b.base = base /\ b.size = r
    BY <1>2, <1>5
  <2> HIDE DEF g, gone, base, r
  <2>6. \A a \in Addresses : (\A b \in gone : Apart(a, PointerSize, b.base, b.size))
                               <=> Apart(a, PointerSize, base, r)
    BY <2>2
  <2>3. [a \in Addresses |->
           IF \A b \in gone : Apart(a, PointerSize, b.base, b.size) THEN h.header[a] ELSE 0]
          = [a \in Addresses |-> IF Apart(a, PointerSize, base, r) THEN h.header[a] ELSE 0]
    BY <2>6
  <2>5. /\ g.blocks = h.blocks \ gone /\ g.elements = h.elements \ ElementsOf(o)
        /\ g.intact = (h.intact /\ gone # {} /\ ElementsOf(o) \subseteq h.elements)
        /\ g.header = [a \in Addresses |->
             IF \A b \in gone : Apart(a, PointerSize, b.base, b.size) THEN h.header[a] ELSE 0]
        /\ g = [blocks |-> g.blocks, header |-> g.header, elements |-> g.elements,
                intact |-> g.intact]
    BY <2>1
  <2>. QED
    BY <1>5, <2>2, <2>3, <2>5
<1> HIDE DEF g, gone
<1>7. g \in Heap
  <2>1. g.header \in [Addresses -> Nat]
    BY <1>1, <1>6, HeapFacts
  <2>2. g.blocks \in SUBSET Block /\ g.elements \in SUBSET Element /\ g.intact \in BOOLEAN
    BY <1>1, <1>6, HeapFacts
  <2>. QED
    BY <1>6, <2>1, <2>2 DEF Heap
<1>8. ASSUME NEW q \in Owners(f1)
      PROVE  /\ BlockBase(g, f[q]) = BlockBase(h, f[q])
             /\ BlockFor(h, f[q]) # BlockFor(h, o)
             /\ Apart(BlockBase(h, f[q]), Request(f[q].type, f[q].count), base, r)
  <2>1. q \in Owners(f) /\ q # p
    BY <1>3
  <2>2. Apart(BlockBase(h, f[q]), Request(f[q].type, f[q].count), base, r)
    BY <1>1, <2>1, OwnersApart
  <2>3. /\ BlockBase(h, f[q]) \in Nat /\ Request(f[q].type, f[q].count) \in Positive
        /\ f[q] \in Owner /\ f[q].ptr # 0 /\ Placed(f[q], BlockBase(h, f[q]))
        /\ PointerSize \in Nat
    BY <2>1, OwnersApart, TypeFacts DEF Positive
  <2>4. BlockBase(h, f[q]) # base
    BY <1>2, <2>2, <2>3 DEF Apart, Positive
  <2>5. BlockFor(h, f[q]) # BlockFor(h, o)
    BY <2>4 DEF BlockFor
  <2>6. CASE Reserved(f[q].type) = 0
    BY <2>2, <2>3, <2>5, <2>6, FreedFacts
  <2>7. CASE Reserved(f[q].type) # 0
    <3> DEFINE a == HeaderOf(f[q])
    <3>1. /\ a \in Addresses /\ a \in Nat /\ BlockBase(h, f[q]) <= a
          /\ a + PointerSize <= BlockBase(h, f[q]) + Request(f[q].type, f[q].count)
      BY <2>3, <2>7, HeaderInside DEF Addresses
    <3>2. Apart(a, PointerSize, base, r)
      BY <1>2, <2>2, <2>3, <3>1 DEF Apart, Positive
    <3>3. g.header[a] = h.header[a]
      BY <1>6, <3>1, <3>2
    <3>4. BlockBase(g, f[q]) = g.header[a] /\ BlockBase(h, f[q]) = h.header[a]
      BY <2>3, <2>7, FreedFacts
    <3>. QED
      BY <2>2, <2>5, <3>3, <3>4
  <2>. QED
    BY <2>6, <2>7
<1>9. BlocksApart(g)
  BY <1>6 DEF HeapOK, BlocksApart
<1>10. EachHolds(g, f1)
  <2>1. ASSUME NEW q \in Owners(f1) PROVE Holds(g, f1[q])
    <3>1. f1[q] = f[q] /\ q \in Owners(f)
      BY <1>3
    <3>2. BlockFor(h, f[q]) \in h.blocks /\ Placed(f[q], BlockBase(h, f[q]))
      BY <3>1, OwnersApart
    <3>3. BlockFor(g, f[q]) = BlockFor(h, f[q]) /\ BlockFor(g, f[q]) \in g.blocks
      BY <1>6, <1>8, <3>2 DEF BlockFor
    <3>4. Placed(f[q], BlockBase(g, f[q]))
      BY <1>8, <3>2
    <3>. QED
      BY <3>1, <3>3, <3>4 DEF Holds
  <2>. QED
    BY <2>1 DEF EachHolds
<1>11. OwnersDiffer(g, f1)
  <2>1. ASSUME NEW q \in Owners(f1), NEW s \in Owners(f1), q # s
        PROVE  BlockBase(g, f1[q]) # BlockBase(g, f1[s])
    BY <1>3, <1>8, <2>1 DEF HeapOK, OwnersDiffer
  <2>. QED
    BY <2>1 DEF OwnersDiffer
<1>12. EachBlockOwned(g, f1)
  <2>1. ASSUME NEW b \in g.blocks PROVE \E q \in Owners(f1) : b.base = BlockBase(g, f1[q])
    <3>1. b \in h.blocks /\ b.base # base
      BY <1>5, <1>6 DEF gone
    <3>2. PICK q \in Owners(f) : b.base = BlockBase(h, f[q])
      BY <3>1 DEF HeapOK, EachBlockOwned
    <3>3. q \in Owners(f1)
      BY <1>3, <3>1, <3>2
    <3>. QED
      BY <1>3, <1>8, <3>2, <3>3
  <2>. QED
    BY <2>1 DEF EachBlockOwned
<1>13. HeadersOwned(g, f1)
  <2>1. ASSUME NEW a \in Addresses, g.header[a] # 0
        PROVE  \E q \in Owners(f1) : Reserved(f1[q].type) # 0 /\ a = HeaderOf(f1[q])
    <3>1. Apart(a, PointerSize, base, r) /\ h.header[a] # 0
      BY <1>6, <2>1
    <3>2. PICK q \in Owners(f) : Reserved(f[q].type) # 0 /\ a = HeaderOf(f[q])
      BY <3>1 DEF HeapOK, HeadersOwned
    <3>3. q # p
      <4>1. SUFFICES ASSUME q = p PROVE FALSE
        OBVIOUS
      <4>2. base <= a /\ a + PointerSize <= base + r
        BY <1>2, <3>2, <4>1, HeaderInside
      <4>3. PointerSize \in Positive /\ a \in Nat
        BY AlignmentAssumption DEF Positive, Addresses
      <4>. QED
        BY <1>2, <3>1, <4>2, <4>3 DEF Apart, Positive
    <3>4. q \in Owners(f1)
      BY <1>3, <3>3
    <3>5. f1[q] = f[q]
      BY <1>3, <3>4
    <3>. QED
      BY <3>2, <3>4, <3>5
  <2>. QED
    BY <2>1 DEF HeadersOwned
<1>14. /\ h.elements = UNION {ElementsOf(f[q]) : q \in Owners(f)}
       /\ Owners(f1) \ {None} = Owners(f1)
  BY NoneIsNoPlace DEF Owners, HeapOK, ElementsOwned
<1>15. ASSUME NEW q \in Owners(f1), NEW e \in ElementsOf(f[q]) PROVE e \notin ElementsOf(o)
  <2>1. SUFFICES ASSUME e \in ElementsOf(o) PROVE FALSE
    OBVIOUS
  <2>2. /\ f[q] \in Owner /\ f[q].ptr # 0 /\ Placed(f[q], BlockBase(h, f[q]))
        /\ BlockBase(h, f[q]) \in Nat /\ Request(f[q].type, f[q].count) \in Nat
        /\ f[q].ptr \in Nat /\ Room(f[q].type, f[q].count) \in Nat
    <3>1. q \in Owners(f)
      BY <1>3
    <3>. QED
      BY <3>1, OwnersApart, TypeFacts DEF Positive
  <2>3. /\ o.ptr <= e.at /\ e.at + e.type.size <= o.ptr + Room(o.type, o.count)
        /\ e \in Element
    BY <1>2, <2>1, ElementsInside
  <2>4. /\ f[q].ptr <= e.at
        /\ e.at + e.type.size <= f[q].ptr + Room(f[q].type, f[q].count)
    BY <2>2, ElementsInside
  <2>5. e.at \in Nat /\ e.type.size \in Positive
    BY <2>3, TypesAssumption DEF Element, Positive
  <2>6. o.ptr \in Nat /\ Room(o.type, o.count) \in Nat
    BY <1>1, OwnersApart, TypeFacts DEF Positive
  <2>7. /\ base <= o.ptr /\ o.ptr + Room(o.type, o.count) <= base + r
        /\ BlockBase(h, f[q]) <= f[q].ptr
        /\ f[q].ptr + Room(f[q].type, f[q].count)
             <= BlockBase(h, f[q]) + Request(f[q].type, f[q].count)
    BY <1>2, <2>2 DEF Placed
  <2>8. Apart(BlockBase(h, f[q]), Request(f[q].type, f[q].count), base, r)
    BY <1>8
  <2>. QED
    <3>1. base <= e.at /\ e.at + e.type.size <= base + r
      BY <1>2, <2>3, <2>5, <2>6, <2>7 DEF Positive
    <3>2. /\ BlockBase(h, f[q]) <= e.at
          /\ e.at + e.type.size <= BlockBase(h, f[q]) + Request(f[q].type, f[q].count)
      BY <2>2, <2>4, <2>5, <2>7 DEF Positive
    <3>3. base \in Nat /\ r \in Nat
      BY <1>2 DEF Positive
    <3>4. BlockBase(h, f[q]) \in Nat /\ Request(f[q].type, f[q].count) \in Nat
      BY <2>2
    <3> HIDE DEF base, r
    <3>5. ~Apart(BlockBase(h, f[q]), Request(f[q].type, f[q].count), base, r)
      BY <2>5, <3>1, <3>2, <3>3, <3>4 DEF Apart, Positive
    <3>. QED
      BY <2>8, <3>5
<1>16. ElementsOwned(g, f1, None)
  <2>1. ASSUME NEW e \in g.elements PROVE \E q \in Owners(f1) : e \in ElementsOf(f1[q])
    <3>1. e \in h.elements /\ e \notin ElementsOf(o)
      BY <1>6
    <3>2. PICK q \in Owners(f) : e \in ElementsOf(f[q])
      BY <1>14, <3>1
    <3>3. q \in Owners(f1)
      BY <1>3, <3>1, <3>2
    <3>. QED
      BY <1>3, <3>2, <3>3
  <2>2. ASSUME NEW q \in Owners(f1), NEW e \in ElementsOf(f1[q]) PROVE e \in g.elements
    <3>1. f1[q] = f[q] /\ q \in Owners(f)
      BY <1>3
    <3>2. e \in h.elements /\ e \notin ElementsOf(o)
      BY <1>14, <1>15, <3>1
    <3>. QED
      BY <1>6, <3>2
  <2>. QED
    BY <1>14, <2>1, <2>2 DEF ElementsOwned
<1>17. g.intact
  BY <1>1, <1>6, <1>14 DEF HeapOK
<1>18. HeapOK(g, f1, None)
  BY <1>3, <1>7, <1>9, <1>10, <1>11, <1>12, <1>13, <1>16, <1>17 DEF HeapOK
<1>. QED
  BY <1>18 DEF g

(***************************************************************************)
(* The deleter of an owner that is dropped or overwritten.                 *)
(***************************************************************************)
LEMMA DisposeKeeps ==
  ASSUME NEW h, NEW f, HeapOK(h, f, None), NEW p \in Places
  PROVE  HeapOK(Dispose(h, f[p]), [f EXCEPT ![p] = Null], None)
<1>1. CASE f[p].ptr = 0
  <2>1. f \in [Places -> Owner]
    BY DEF HeapOK
  <2>2. f[p] = Null
    BY <1>1, <2>1, NullFacts
  <2>3. [f EXCEPT ![p] = Null] = f
    BY <2>1, <2>2
  <2>4. Dispose(h, f[p]) = h
    BY <1>1 DEF Dispose
  <2>. QED
    BY <2>3, <2>4
<1>2. CASE f[p].ptr # 0
  BY <1>2, DeleteKeeps DEF Dispose
<1>. QED
  BY <1>1, <1>2

LEMMA ReplaceKeeps ==
  ASSUME NEW h, NEW f, HeapOK(h, f, None), NEW p \in Places, NEW q \in Places, p # q
  PROVE  HeapOK(Dispose(h, f[q]), [f EXCEPT ![q] = f[p], ![p] = Null], None)
<1> DEFINE f1 == [f EXCEPT ![q] = Null]
<1>1. f \in [Places -> Owner]
  BY DEF HeapOK
<1>2. HeapOK(Dispose(h, f[q]), f1, None)
  BY DisposeKeeps
<1>3. f1[q].ptr = 0 /\ f1[p] = f[p]
  BY <1>1, NullFacts
<1>4. HeapOK(Dispose(h, f[q]), [f1 EXCEPT ![q] = f1[p], ![p] = Null], None)
  <2> HIDE DEF f1
  <2>. QED
    BY <1>2, <1>3, MoveKeeps
<1>5. [f1 EXCEPT ![q] = f1[p], ![p] = Null] = [f EXCEPT ![q] = f[p], ![p] = Null]
  BY <1>1
<1>. QED
  BY <1>4, <1>5
-----------------------------------------------------------------------------
(***************************************************************************)
(* expected: every operation leaves the flag and the union in agreement,   *)
(* and hands back the value it overwrites or destroys.                     *)
(***************************************************************************)
Cell == [m_has_value : BOOLEAN, live : SUBSET {"value", "error"}, value : Owner]

Alternative(x) == IF x.m_has_value THEN "value" ELSE "error"

CellOK(x) ==
  /\ x \in Cell /\ x.live \in {{}, {Alternative(x)}}
  /\ x.live # {"value"} => x.value = Null

Living(x) == CellOK(x) /\ x.live # {}

NewCell(result, value, x) ==
  Living(result.cell) /\ result.cell.value = value /\ result.dropped = x.value

LEMMA CellFacts ==
  ASSUME NEW x, CellOK(x)
  PROVE  /\ x = [m_has_value |-> x.m_has_value, live |-> x.live, value |-> x.value]
         /\ x.m_has_value \in BOOLEAN /\ x.value \in Owner
         /\ Living(x) /\ x.m_has_value => x.live = {"value"}
         /\ Living(x) /\ ~x.m_has_value => x.live = {"error"} /\ x.value = Null
         /\ x.live = {} => x.value = Null
BY DEF CellOK, Cell, Living, Alternative

ValueCell(o) == [m_has_value |-> TRUE, live |-> {"value"}, value |-> o]
ErrorCell == [m_has_value |-> FALSE, live |-> {"error"}, value |-> Null]

LEMMA NewCells ==
  /\ \A o \in Owner : Living(ValueCell(o)) /\ ValueCell(o).value = o
  /\ Living(ErrorCell) /\ ErrorCell.value = Null
<1>1. ASSUME NEW o \in Owner PROVE Living(ValueCell(o)) /\ ValueCell(o).value = o
  BY DEF Living, CellOK, ValueCell, Cell, Alternative
<1>2. Living(ErrorCell) /\ ErrorCell.value = Null
  BY NullFacts DEF Living, CellOK, ErrorCell, Cell, Alternative
<1>. QED
  BY <1>1, <1>2

LEMMA CellIsEither ==
  ASSUME NEW x, Living(x)
  PROVE  /\ x.m_has_value => x = ValueCell(x.value)
         /\ ~x.m_has_value => x = ErrorCell
         /\ x.value \in Owner
BY CellFacts DEF Living, ValueCell, ErrorCell

LEMMA ConstructorsLive ==
  /\ \A o \in Owner : E!FromValue(o) = ValueCell(o)
  /\ E!FromUnexpected = ErrorCell
  /\ CellOK(E!Storage) /\ E!Storage.live = {} /\ E!Storage.value = Null
<1>1. \A o \in Owner : E!FromValue(o) = ValueCell(o)
  <2>1. {} \cup {"value"} = {"value"}
    OBVIOUS
  <2>. QED
    BY <2>1 DEF E!FromValue, E!Flag, E!Construct, E!Storage, E!Object, ValueCell
<1>2. E!FromUnexpected = ErrorCell
  <2>1. {} \cup {"error"} = {"error"}
    OBVIOUS
  <2>. QED
    BY <2>1 DEF E!FromUnexpected, E!Flag, E!Construct, E!Storage, E!Object, ErrorCell
<1>3. CellOK(E!Storage) /\ E!Storage.live = {} /\ E!Storage.value = Null
  BY NullFacts DEF E!Storage, E!Object, CellOK, Cell
<1>. QED
  BY <1>1, <1>2, <1>3

LEMMA UnionMembers ==
  /\ {"value"} \ {"value"} = {} /\ {"error"} \ {"error"} = {}
  /\ {} \cup {"value"} = {"value"} /\ {} \cup {"error"} = {"error"}
  /\ "value" # "error"
OBVIOUS

LEMMA OperationsReplace ==
  ASSUME NEW x, Living(x), NEW o \in Owner
  PROVE  /\ E!AssignValue(x, o) = E!Result(ValueCell(o), x.value)
         /\ E!Emplace(x, o) = E!Result(ValueCell(o), x.value)
         /\ E!AssignUnexpected(x) = E!Result(ErrorCell, x.value)
         /\ E!FromExpected(x) = x
         /\ E!Destructor(x).dropped = x.value
         /\ CellOK(E!Destructor(x).cell)
         /\ E!Destructor(x).cell.live = {} /\ E!Destructor(x).cell.value = Null
         /\ Living(MovedFrom(x)) /\ MovedFrom(x).value = Null
<1>1. /\ x.m_has_value \in BOOLEAN /\ x.value \in Owner
  BY CellFacts DEF Living
<1>2. CASE x.m_has_value
  <2>1. x = ValueCell(x.value) /\ x.m_has_value = TRUE /\ x.live = {"value"}
    BY <1>2, CellIsEither, CellFacts DEF Living, ValueCell
  <2>2. E!AssignValue(x, o) = E!Result(ValueCell(o), x.value)
    BY <2>1 DEF E!AssignValue, E!Overwrite, E!Object, ValueCell
  <2>3. E!Emplace(x, o) = E!Result(ValueCell(o), x.value)
    BY <2>1, UnionMembers DEF E!Emplace, E!Construct, E!Destroy, E!Object, ValueCell
  <2>4. E!AssignUnexpected(x) = E!Result(ErrorCell, x.value)
    BY <2>1, UnionMembers DEF E!AssignUnexpected, E!Flag, E!Construct, E!Destroy, E!Object, ErrorCell
  <2>5. E!FromExpected(x) = x
    <3>1. E!FromExpected(x) = ValueCell(x.value)
      BY <2>1, UnionMembers DEF E!FromExpected, E!Flag, E!Construct, E!Storage, E!Object, ValueCell
    <3>. QED
      BY <2>1, <3>1
  <2>6. /\ E!Destructor(x).dropped = x.value
        /\ E!Destructor(x).cell = [m_has_value |-> TRUE, live |-> {}, value |-> Null]
    BY <2>1, UnionMembers DEF E!Destructor, E!Result, E!Destroy, E!Object
  <2>7. CellOK([m_has_value |-> TRUE, live |-> {}, value |-> Null])
    BY NullFacts DEF CellOK, Cell
  <2>8. MovedFrom(x) = ValueCell(Null)
    BY <2>1 DEF MovedFrom, E!Overwrite, E!Object, ValueCell
  <2>. QED
    BY <2>2, <2>3, <2>4, <2>5, <2>6, <2>7, <2>8, NewCells, NullFacts
<1>3. CASE ~x.m_has_value
  <2>1. x = ErrorCell /\ x.m_has_value = FALSE /\ x.live = {"error"} /\ x.value = Null
    BY <1>3, CellIsEither DEF ErrorCell
  <2>2. E!AssignValue(x, o) = E!Result(ValueCell(o), x.value)
    BY <2>1, UnionMembers DEF E!AssignValue, E!Flag, E!Construct, E!Destroy, E!Object, ValueCell
  <2>3. E!Emplace(x, o) = E!Result(ValueCell(o), x.value)
    BY <2>1, UnionMembers DEF E!Emplace, E!Flag, E!Construct, E!Destroy, E!Object, ValueCell
  <2>4. E!AssignUnexpected(x) = E!Result(ErrorCell, x.value)
    BY <2>1 DEF E!AssignUnexpected
  <2>5. E!FromExpected(x) = x
    <3>1. E!FromExpected(x) = ErrorCell
      BY <2>1, UnionMembers DEF E!FromExpected, E!Flag, E!Construct, E!Storage, E!Object, ErrorCell
    <3>. QED
      BY <2>1, <3>1
  <2>6. /\ E!Destructor(x).dropped = x.value
        /\ E!Destructor(x).cell = [m_has_value |-> FALSE, live |-> {}, value |-> Null]
    BY <2>1, UnionMembers DEF E!Destructor, E!Result, E!Destroy, E!Object
  <2>7. CellOK([m_has_value |-> FALSE, live |-> {}, value |-> Null])
    BY NullFacts DEF CellOK, Cell
  <2>8. MovedFrom(x) = ErrorCell
    BY <2>1 DEF MovedFrom
  <2>. QED
    BY <2>2, <2>3, <2>4, <2>5, <2>6, <2>7, <2>8, NewCells
<1>. QED
  BY <1>1, <1>2, <1>3

LEMMA AssignReplaces ==
  ASSUME NEW x, Living(x), NEW y, Living(y)
  PROVE  E!Assign(x, y) = E!Result(y, x.value)
<1>1. x.m_has_value \in BOOLEAN /\ y.m_has_value \in BOOLEAN
  BY CellFacts DEF Living
<1>2. /\ x.m_has_value => x.live = {"value"} /\ x.m_has_value = TRUE
      /\ ~x.m_has_value => x.live = {"error"} /\ x.value = Null /\ x.m_has_value = FALSE
  BY <1>1, CellFacts DEF Living
<1>3. CASE y.m_has_value
  <2>1. y = [m_has_value |-> TRUE, live |-> {"value"}, value |-> y.value]
    BY <1>3, CellIsEither DEF ValueCell
  <2>2. y.m_has_value = TRUE
    BY <2>1
  <2>3. CASE x.m_has_value
    <3>1. E!Assign(x, y) = E!Result([m_has_value |-> TRUE, live |-> {"value"}, value |-> y.value],
                                    x.value)
      BY <1>2, <2>2, <2>3 DEF E!Assign, E!Result, E!Overwrite, E!Flag, E!Object
    <3>. QED
      BY <2>1, <3>1
  <2>4. CASE ~x.m_has_value
    <3>1. E!Assign(x, y) = E!Result([m_has_value |-> TRUE, live |-> {"value"}, value |-> y.value],
                                    x.value)
      BY <1>2, <2>2, <2>4, UnionMembers
         DEF E!Assign, E!Result, E!Construct, E!Destroy, E!Flag, E!Object
    <3>. QED
      BY <2>1, <3>1
  <2>. QED
    BY <2>3, <2>4
<1>4. CASE ~y.m_has_value
  <2>1. y = ErrorCell /\ y.m_has_value = FALSE
    BY <1>1, <1>4, CellIsEither
  <2>2. CASE x.m_has_value
    <3>1. E!Assign(x, y) = E!Result(ErrorCell, x.value)
      BY <1>2, <2>1, <2>2, UnionMembers
         DEF E!Assign, E!Result, E!Construct, E!Destroy, E!Flag, E!Object, ErrorCell
    <3>. QED
      BY <2>1, <3>1
  <2>3. CASE ~x.m_has_value
    <3>1. E!Assign(x, y) = E!Result(ErrorCell, x.value)
      BY <1>2, <2>1, <2>3 DEF E!Assign, E!Result, E!Flag, E!Object, ErrorCell
    <3>. QED
      BY <2>1, <3>1
  <2>. QED
    BY <2>2, <2>3
<1>. QED
  BY <1>3, <1>4
-----------------------------------------------------------------------------
(***************************************************************************)
(* The inductive invariant: each local object agrees with its flag, and    *)
(* the heap is in order for those who own its blocks.                      *)
(***************************************************************************)
CellsOK(c) == c \in [Slots -> Cell] /\ \A s \in Slots : CellOK(c[s])

OwnedBy(c, m, r) ==
  [p \in Places |->
     IF p \in Slots THEN c[p].value ELSE IF p \in Members THEN m[p] ELSE r]

VoidOK(x) ==
  \E b \in BOOLEAN : x = [m_has_value |-> b, live |-> IF b THEN {} ELSE {"error"}, value |-> Null]

FillingOK(fill, c) ==
  /\ fill \in Slots \cup {None}
  /\ fill # None => c[fill].value.ptr # 0

IInv ==
  /\ CellsOK(cells) /\ members \in [Members -> Owner] /\ raw \in Owner
  /\ FillingOK(filling, cells) /\ VoidOK(retval)
  /\ HeapOK(heap, OwnedBy(cells, members, raw), filling)

LEMMA PlaceFacts ==
  /\ \A s \in Slots : s \in Places /\ s \notin Members /\ s # "raw" /\ s # None
  /\ \A m \in Members : m \in Places /\ m \notin Slots /\ m # "raw"
  /\ "raw" \in Places /\ "raw" \notin Slots /\ "raw" \notin Members
BY PlacesAssumption DEF Places

LEMMA OwnedFacts ==
  ASSUME NEW c, NEW m, NEW r
  PROVE  /\ \A s \in Slots : OwnedBy(c, m, r)[s] = c[s].value
         /\ \A n \in Members : OwnedBy(c, m, r)[n] = m[n]
         /\ OwnedBy(c, m, r)["raw"] = r
         /\ DOMAIN OwnedBy(c, m, r) = Places
BY PlaceFacts DEF OwnedBy

With(c, s, x) == [c EXCEPT ![s] = x]

LEMMA CellsSet ==
  ASSUME NEW c, CellsOK(c), NEW s \in Slots, NEW x, CellOK(x)
  PROVE  CellsOK(With(c, s, x)) /\ With(c, s, x)[s] = x
BY DEF CellsOK, CellOK, With

LEMMA OwnedSetCell ==
  ASSUME NEW c, CellsOK(c), NEW m, NEW r, NEW s \in Slots, NEW x, NEW o, x.value = o
  PROVE  OwnedBy(With(c, s, x), m, r) = With(OwnedBy(c, m, r), s, o)
BY PlaceFacts DEF OwnedBy, CellsOK, With

LEMMA CellBecomes ==
  ASSUME NEW c, CellsOK(c), NEW m, NEW r, NEW s \in Slots, NEW x, CellOK(x), NEW o, x.value = o
  PROVE  /\ CellsOK(With(c, s, x)) /\ With(c, s, x)[s] = x
         /\ OwnedBy(With(c, s, x), m, r) = With(OwnedBy(c, m, r), s, o)
BY CellsSet, OwnedSetCell

LEMMA OwnedSetMember ==
  ASSUME NEW c, NEW m \in [Members -> Owner], NEW r, NEW n \in Members, NEW o
  PROVE  OwnedBy(c, With(m, n, o), r) = With(OwnedBy(c, m, r), n, o)
BY PlaceFacts DEF OwnedBy, With

LEMMA OwnedSetRaw ==
  ASSUME NEW c, NEW m, NEW r, NEW o
  PROVE  OwnedBy(c, m, o) = With(OwnedBy(c, m, r), "raw", o)
BY PlaceFacts DEF OwnedBy, Places, With

LEMMA InitKeeps == Init => IInv
<1> SUFFICES ASSUME Init PROVE IInv
  OBVIOUS
<1> DEFINE f == OwnedBy(cells, members, raw)
<1>1. CellsOK(cells)
  BY ConstructorsLive DEF Init, CellsOK, CellOK
<1>2. members \in [Members -> Owner] /\ raw \in Owner
  BY NullFacts DEF Init
<1>3. FillingOK(filling, cells)
  BY DEF Init, FillingOK
<1>4. VoidOK(retval)
  BY DEF Init, VoidOK, E!VoidValue, E!Flag, E!Storage, E!Object
<1>5. f = [p \in Places |-> Null]
  BY ConstructorsLive, PlaceFacts DEF Init, OwnedBy, Places
<1>6. HeapOK(heap, f, filling)
  <2>1. Owners(f) = {}
    BY <1>5, NullFacts DEF Owners
  <2>2. /\ heap.blocks = {} /\ heap.elements = {} /\ heap.intact = TRUE
        /\ heap.header = [a \in Addresses |-> 0]
        /\ heap = [blocks |-> {}, header |-> [a \in Addresses |-> 0],
                   elements |-> {}, intact |-> TRUE]
    BY DEF Init, EmptyHeap
  <2>3. heap \in Heap
    BY <2>2 DEF Heap
  <2>4. f \in [Places -> Owner]
    BY <1>5, NullFacts
  <2>. HIDE DEF f
  <2>. QED
    BY <2>1, <2>2, <2>3, <2>4
       DEF HeapOK, BlocksApart, EachHolds, OwnersDiffer, EachBlockOwned, HeadersOwned, ElementsOwned
<1>. QED
  BY <1>1, <1>2, <1>3, <1>4, <1>6 DEF IInv
-----------------------------------------------------------------------------
(***************************************************************************)
(* Allocation.                                                             *)
(***************************************************************************)
LEMMA CountFacts == \A t \in Types : \A n \in TheCounts(t) : n \in Positive
BY CountsAssumption DEF TheCounts, Positive

LEMMA AllocateFailsKeeps ==
  ASSUME IInv, NEW s \in Slots, NEW t \in Types, NEW n \in TheCounts(t), AllocateFails(s, t, n)
  PROVE  IInv'
<1> DEFINE f == OwnedBy(cells, members, raw)
<1>1. cells' = With(cells, s, ErrorCell)
  BY ConstructorsLive DEF AllocateFails, ReturnError, With
<1>2. CellsOK(cells) /\ filling = None /\ UNCHANGED <<heap, members, raw, filling, retval>>
  BY DEF AllocateFails, ReturnError, Running, IInv
<1>3. CellOK(ErrorCell) /\ ErrorCell.value = Null
  BY NewCells DEF Living
<1>4. CellsOK(cells') /\ OwnedBy(cells', members, raw) = With(f, s, Null)
  BY <1>1, <1>2, <1>3, CellBecomes
<1>5. With(f, s, Null) = f
  <2>1. cells[s].value = Null
    BY <1>2, CellFacts DEF AllocateFails, Alive, CellsOK
  <2>2. f[s] = Null
    BY <2>1, OwnedFacts
  <2>. QED
    BY <2>2 DEF OwnedBy, With
<1>. QED
  BY <1>2, <1>4, <1>5 DEF IInv, FillingOK

LEMMA AllocateUninitializedKeeps ==
  ASSUME IInv, NEW s \in Slots, NEW t \in Types, NEW n \in TheCounts(t),
         AllocateUninitialized(s, t, n)
  PROVE  IInv'
<1> DEFINE f == OwnedBy(cells, members, raw)
<1>1. PICK base \in Bases(heap, t, Request(t, n)) :
        /\ heap' = Allocate(heap, t, n, base)
        /\ ReturnOwner(s, [ptr |-> Pointer(t, base), count |-> n, type |-> t])
        /\ filling' = s
  BY DEF AllocateUninitialized
<1> DEFINE o == [ptr |-> Pointer(t, base), count |-> n, type |-> t]
<1>2. /\ CellsOK(cells) /\ filling = None /\ HeapOK(heap, f, None)
      /\ UNCHANGED <<members, raw, retval>>
  BY <1>1 DEF AllocateUninitialized, ReturnOwner, Running, IInv
<1>3. s \in Places /\ f[s].ptr = 0 /\ n \in Positive /\ s # None
  BY <1>2, CellFacts, NullFacts, OwnedFacts, PlaceFacts, CountFacts
     DEF AllocateUninitialized, Alive, CellsOK
<1>4. HeapOK(heap', With(f, s, o), s) /\ o \in Owner /\ o.ptr # 0
  <2>. HIDE DEF f
  <2>. QED
    BY <1>1, <1>2, <1>3, AllocateKeeps DEF With
<1>5. cells' = With(cells, s, ValueCell(o))
  BY <1>1, <1>4, ConstructorsLive DEF ReturnOwner, With
<1>. HIDE DEF o
<1>6. CellOK(ValueCell(o)) /\ ValueCell(o).value = o
  BY <1>4, NewCells DEF Living
<1>7. /\ CellsOK(cells') /\ OwnedBy(cells', members, raw) = With(f, s, o)
      /\ cells'[s] = ValueCell(o)
  BY <1>2, <1>5, <1>6, CellBecomes
<1>8. FillingOK(filling', cells')
  BY <1>1, <1>3, <1>4, <1>6, <1>7 DEF FillingOK
<1>. QED
  BY <1>1, <1>2, <1>4, <1>7, <1>8 DEF IInv

LEMMA AllocateUniqueKeeps ==
  ASSUME IInv, NEW s \in Slots, NEW t \in Types, NEW n \in TheCounts(t), AllocateUnique(s, t, n)
  PROVE  IInv'
<1> DEFINE f == OwnedBy(cells, members, raw)
<1>1. PICK base \in Bases(heap, t, Request(t, n)) :
        /\ heap' = ConstructElements(Allocate(heap, t, n, base), t, n, Pointer(t, base))
        /\ ReturnOwner(s, [ptr |-> Pointer(t, base), count |-> n, type |-> t])
        /\ UNCHANGED filling
  BY DEF AllocateUnique
<1> DEFINE o == [ptr |-> Pointer(t, base), count |-> n, type |-> t]
           g == With(f, s, o)
<1>2. /\ CellsOK(cells) /\ filling = None /\ HeapOK(heap, f, None)
      /\ UNCHANGED <<members, raw, retval>>
  BY <1>1 DEF AllocateUnique, ReturnOwner, Running, IInv
<1>3. s \in Places /\ f[s].ptr = 0 /\ n \in Positive
  BY <1>2, CellFacts, NullFacts, OwnedFacts, PlaceFacts, CountFacts
     DEF AllocateUnique, Alive, CellsOK
<1>4. HeapOK(Allocate(heap, t, n, base), g, s) /\ o \in Owner /\ o.ptr # 0
  <2>. HIDE DEF f
  <2>. QED
    BY <1>2, <1>3, AllocateKeeps DEF With
<1>5. g[s] = o
  BY <1>3, OwnedFacts DEF With
<1>6. HeapOK(heap', g, None)
  <2>1. g[s].type = t /\ g[s].count = n /\ g[s].ptr = Pointer(t, base) /\ g[s].ptr # 0
    BY <1>4, <1>5
  <2>. HIDE DEF g
  <2>. QED
    BY <1>1, <1>3, <1>4, <2>1, ConstructKeeps
<1>7. cells' = With(cells, s, ValueCell(o))
  BY <1>1, <1>4, ConstructorsLive DEF ReturnOwner, With
<1>. HIDE DEF o
<1>8. CellOK(ValueCell(o)) /\ ValueCell(o).value = o
  BY <1>4, NewCells DEF Living
<1>9. CellsOK(cells') /\ OwnedBy(cells', members, raw) = g
  BY <1>2, <1>7, <1>8, CellBecomes
<1>. QED
  BY <1>1, <1>2, <1>6, <1>9 DEF IInv, FillingOK

LEMMA FillElementsKeeps ==
  ASSUME IInv, NEW s \in Slots, FillElements(s)
  PROVE  IInv'
<1> DEFINE f == OwnedBy(cells, members, raw)
<1>1. /\ filling = s /\ filling' = None /\ UNCHANGED <<cells, members, raw, retval>>
      /\ heap' = ConstructElements(heap, cells[s].value.type, cells[s].value.count,
                                   cells[s].value.ptr)
  BY DEF FillElements
<1>2. s \in Places /\ f[s] = cells[s].value /\ f[s].ptr # 0
  BY <1>1, OwnedFacts, PlaceFacts DEF IInv, FillingOK
<1>3. HeapOK(heap, f, s)
  BY <1>1 DEF IInv
<1>4. HeapOK(heap', f, None)
  <2>1. heap' = ConstructElements(heap, f[s].type, f[s].count, f[s].ptr)
    BY <1>1, <1>2
  <2>. HIDE DEF f
  <2>. QED
    BY <1>2, <1>3, <2>1, ConstructKeeps
<1>. QED
  BY <1>1, <1>4 DEF IInv, FillingOK
-----------------------------------------------------------------------------
(***************************************************************************)
(* What happens to the results.                                            *)
(***************************************************************************)
LEMMA LeaveScopeKeeps ==
  ASSUME IInv, NEW s \in Slots, LeaveScope(s)
  PROVE  IInv'
<1> DEFINE f == OwnedBy(cells, members, raw)
           x == E!Destructor(cells[s]).cell
<1>1. /\ CellsOK(cells) /\ filling = None /\ HeapOK(heap, f, None) /\ Living(cells[s])
      /\ UNCHANGED <<members, raw, filling, retval>>
      /\ cells' = With(cells, s, x)
      /\ heap' = Dispose(heap, E!Destructor(cells[s]).dropped)
  BY DEF LeaveScope, Becomes, Running, Alive, IInv, CellsOK, Living, With
<1>2. CellOK(x) /\ x.value = Null /\ E!Destructor(cells[s]).dropped = f[s] /\ s \in Places
  BY <1>1, OperationsReplace, NullFacts, OwnedFacts, PlaceFacts
<1>3. HeapOK(heap', With(f, s, Null), None)
  <2>. HIDE DEF f
  <2>. QED
    BY <1>1, <1>2, DisposeKeeps DEF With
<1>4. CellsOK(cells') /\ OwnedBy(cells', members, raw) = With(f, s, Null)
  <2>. HIDE DEF x
  <2>. QED
    BY <1>1, <1>2, CellBecomes
<1>. QED
  BY <1>1, <1>3, <1>4 DEF IInv, FillingOK

LEMMA AssignErrorKeeps ==
  ASSUME IInv, NEW s \in Slots, AssignError(s)
  PROVE  IInv'
<1> DEFINE f == OwnedBy(cells, members, raw)
<1>1. /\ CellsOK(cells) /\ filling = None /\ HeapOK(heap, f, None) /\ Living(cells[s])
      /\ UNCHANGED <<members, raw, filling, retval>>
      /\ cells' = With(cells, s, E!AssignUnexpected(cells[s]).cell)
      /\ heap' = Dispose(heap, E!AssignUnexpected(cells[s]).dropped)
  BY DEF AssignError, Becomes, Running, Alive, IInv, CellsOK, Living, With
<1>2. E!AssignUnexpected(cells[s]) = E!Result(ErrorCell, f[s]) /\ s \in Places
  BY <1>1, OperationsReplace, NullFacts, OwnedFacts, PlaceFacts
<1>3. cells' = With(cells, s, ErrorCell) /\ heap' = Dispose(heap, f[s])
  BY <1>1, <1>2 DEF E!Result
<1>4. HeapOK(heap', With(f, s, Null), None)
  <2>. HIDE DEF f
  <2>. QED
    BY <1>1, <1>2, <1>3, DisposeKeeps DEF With
<1>5. CellOK(ErrorCell) /\ ErrorCell.value = Null
  BY NewCells DEF Living
<1>6. CellsOK(cells') /\ OwnedBy(cells', members, raw) = With(f, s, Null)
  BY <1>1, <1>3, <1>5, CellBecomes
<1>. QED
  BY <1>1, <1>4, <1>6 DEF IInv, FillingOK

(***************************************************************************)
(* A cell is moved from: it stays alive and keeps no object.               *)
(***************************************************************************)
LEMMA CellMovedFrom ==
  ASSUME NEW c, CellsOK(c), NEW m, NEW r, NEW u \in Slots, Living(c[u])
  PROVE  /\ CellsOK(With(c, u, MovedFrom(c[u])))
         /\ OwnedBy(With(c, u, MovedFrom(c[u])), m, r) = With(OwnedBy(c, m, r), u, Null)
<1>1. CellOK(MovedFrom(c[u])) /\ MovedFrom(c[u]).value = Null
  BY OperationsReplace, NullFacts DEF Living
<1>. QED
  BY <1>1, CellBecomes

MoveCell(c, s, u) == [c EXCEPT ![s] = c[u], ![u] = MovedFrom(@)]
MoveOwner(f, q, p) == [f EXCEPT ![q] = f[p], ![p] = Null]

LEMMA TwoCells ==
  ASSUME NEW c, CellsOK(c), NEW m, NEW r, NEW s \in Slots, NEW u \in Slots, s # u, Living(c[u])
  PROVE  /\ CellsOK(MoveCell(c, s, u))
         /\ OwnedBy(MoveCell(c, s, u), m, r) = MoveOwner(OwnedBy(c, m, r), s, u)
<1> DEFINE c1 == With(c, s, c[u])
<1>1. c1[u] = c[u]
  BY DEF CellsOK, With
<1>2. With(c1, u, MovedFrom(c[u])) = MoveCell(c, s, u)
  BY <1>1 DEF With, MoveCell
<1>3. OwnedBy(c, m, r)[u] = c[u].value /\ CellOK(c[u])
  BY OwnedFacts DEF Living
<1>4. CellsOK(c1) /\ OwnedBy(c1, m, r) = With(OwnedBy(c, m, r), s, c[u].value)
  BY <1>3, CellBecomes
<1>5. /\ CellsOK(With(c1, u, MovedFrom(c[u])))
      /\ OwnedBy(With(c1, u, MovedFrom(c[u])), m, r) = With(OwnedBy(c1, m, r), u, Null)
  <2>. HIDE DEF c1
  <2>. QED
    BY <1>1, <1>4, CellMovedFrom
<1>6. With(With(OwnedBy(c, m, r), s, c[u].value), u, Null) = MoveOwner(OwnedBy(c, m, r), s, u)
  BY <1>3 DEF With, MoveOwner
<1>. QED
  BY <1>2, <1>4, <1>5, <1>6

LEMMA MoveConstructKeeps ==
  ASSUME IInv, NEW s \in Slots, NEW u \in Slots, MoveConstruct(s, u)
  PROVE  IInv'
<1> DEFINE f == OwnedBy(cells, members, raw)
           g == MoveOwner(f, s, u)
<1>1. /\ CellsOK(cells) /\ filling = None /\ HeapOK(heap, f, None) /\ Living(cells[u])
      /\ UNCHANGED <<heap, members, raw, filling, retval>> /\ s # u
  BY DEF MoveConstruct, Running, Alive, IInv, CellsOK, Living
<1>2. E!FromExpected(cells[u]) = cells[u]
  BY <1>1, OperationsReplace, NullFacts
<1>3. cells' = MoveCell(cells, s, u)
  BY <1>2 DEF MoveConstruct, MoveCell
<1>4. s \in Places /\ u \in Places /\ f[s].ptr = 0
  BY <1>1, CellFacts, NullFacts, OwnedFacts, PlaceFacts DEF MoveConstruct, Alive, CellsOK
<1>5. HeapOK(heap, g, None)
  <2>. HIDE DEF f
  <2>. QED
    BY <1>1, <1>4, MoveKeeps DEF MoveOwner
<1>6. CellsOK(cells') /\ OwnedBy(cells', members, raw) = g
  BY <1>1, <1>3, TwoCells
<1>. QED
  BY <1>1, <1>5, <1>6 DEF IInv, FillingOK

LEMMA MoveAssignKeeps ==
  ASSUME IInv, NEW s \in Slots, NEW u \in Slots, MoveAssign(s, u)
  PROVE  IInv'
<1> DEFINE f == OwnedBy(cells, members, raw)
           g == MoveOwner(f, s, u)
<1>1. /\ CellsOK(cells) /\ filling = None /\ HeapOK(heap, f, None)
      /\ Living(cells[s]) /\ Living(cells[u])
      /\ UNCHANGED <<members, raw, filling, retval>> /\ s # u
  BY DEF MoveAssign, Running, Alive, IInv, CellsOK, Living
<1>2. E!Assign(cells[s], cells[u]) = E!Result(cells[u], f[s])
  BY <1>1, AssignReplaces, OwnedFacts
<1>3. /\ cells' = MoveCell(cells, s, u)
      /\ heap' = Dispose(heap, f[s])
  BY <1>2 DEF MoveAssign, MoveCell, E!Result
<1>4. s \in Places /\ u \in Places
  BY PlaceFacts
<1>5. HeapOK(heap', g, None)
  <2>. HIDE DEF f
  <2>. QED
    BY <1>1, <1>3, <1>4, ReplaceKeeps DEF MoveOwner
<1>6. CellsOK(cells') /\ OwnedBy(cells', members, raw) = g
  BY <1>1, <1>3, TwoCells
<1>. QED
  BY <1>1, <1>5, <1>6 DEF IInv, FillingOK

LEMMA GiveBackKeeps ==
  ASSUME IInv, NEW s \in Slots, NEW m \in Members, GiveBack(s, m)
  PROVE  IInv'
<1> DEFINE f == OwnedBy(cells, members, raw)
           o == members[m]
           f1 == OwnedBy(With(cells, s, ValueCell(o)), members, raw)
<1>1. /\ CellsOK(cells) /\ filling = None /\ HeapOK(heap, f, None) /\ Living(cells[s])
      /\ members \in [Members -> Owner] /\ o \in Owner
      /\ UNCHANGED <<raw, filling, retval>>
      /\ members' = With(members, m, Null)
  BY DEF GiveBack, Becomes, Running, Alive, IInv, CellsOK, Living, With
<1>2. /\ E!AssignValue(cells[s], o) = E!Result(ValueCell(o), cells[s].value)
      /\ E!Emplace(cells[s], o) = E!Result(ValueCell(o), cells[s].value)
  BY <1>1, OperationsReplace
<1>3. cells' = With(cells, s, ValueCell(o)) /\ heap' = Dispose(heap, cells[s].value)
  BY <1>2 DEF GiveBack, Becomes, With, E!Result
<1>4. f[s] = cells[s].value /\ f[m] = o /\ s \in Places /\ m \in Places /\ s # m
  BY OwnedFacts, PlaceFacts
<1>5. CellOK(ValueCell(o)) /\ ValueCell(o).value = o
  BY <1>1, NewCells DEF Living
<1>6. HeapOK(heap', MoveOwner(f, s, m), None)
  <2>1. heap' = Dispose(heap, f[s])
    BY <1>3, <1>4
  <2>. HIDE DEF f
  <2>. QED
    BY <1>1, <1>4, <2>1, ReplaceKeeps DEF MoveOwner
<1>7. CellsOK(cells') /\ f1 = With(f, s, o)
  <2>. HIDE DEF o
  <2>. QED
    BY <1>1, <1>3, <1>5, CellBecomes
<1>8. OwnedBy(cells', members', raw) = With(f1, m, Null)
  <2>1. OwnedBy(With(cells, s, ValueCell(o)), With(members, m, Null), raw) = With(f1, m, Null)
    <3>. HIDE DEF o
    <3>. QED
      BY <1>1, OwnedSetMember
  <2>. QED
    BY <1>1, <1>3, <2>1
<1>9. With(With(f, s, o), m, Null) = MoveOwner(f, s, m)
  <2>. HIDE DEF f, o
  <2>. QED
    BY <1>4 DEF With, MoveOwner
<1>10. OwnedBy(cells', members', raw) = MoveOwner(f, s, m)
  <2>. HIDE DEF f, f1, o
  <2>. QED
    BY <1>7, <1>8, <1>9
<1>11. members' \in [Members -> Owner]
  BY <1>1, NullFacts DEF With
<1>. QED
  BY <1>1, <1>6, <1>7, <1>10, <1>11 DEF IInv, FillingOK

LEMMA TakeValueKeeps ==
  ASSUME IInv, NEW s \in Slots, NEW m \in Members, TakeValue(s, m)
  PROVE  IInv'
<1> DEFINE f == OwnedBy(cells, members, raw)
           x == MovedFrom(cells[s])
           o == cells[s].value
           f1 == OwnedBy(cells, With(members, m, o), raw)
<1>1. /\ CellsOK(cells) /\ filling = None /\ HeapOK(heap, f, None) /\ Living(cells[s])
      /\ members \in [Members -> Owner]
      /\ UNCHANGED <<raw, filling, retval>>
      /\ members' = With(members, m, o) /\ cells' = With(cells, s, x)
      /\ heap' = Dispose(heap, members[m])
  BY DEF TakeValue, HasValue, Running, Alive, IInv, CellsOK, Living, With
<1>2. f[s] = o /\ f[m] = members[m] /\ s \in Places /\ m \in Places /\ s # m
  BY OwnedFacts, PlaceFacts
<1>3. o \in Owner
  BY <1>1, CellFacts DEF Living
<1>4. HeapOK(heap', MoveOwner(f, m, s), None)
  <2>1. heap' = Dispose(heap, f[m])
    BY <1>1, <1>2
  <2>. HIDE DEF f
  <2>. QED
    BY <1>1, <1>2, <2>1, ReplaceKeeps DEF MoveOwner
<1>5. f1 = With(f, m, o)
  <2>. HIDE DEF o
  <2>. QED
    BY <1>1, OwnedSetMember
<1>6. CellsOK(cells') /\ OwnedBy(cells', members', raw) = With(f1, s, Null)
  <2>1. /\ CellsOK(With(cells, s, x))
        /\ OwnedBy(With(cells, s, x), With(members, m, o), raw) = With(f1, s, Null)
    <3>. HIDE DEF o
    <3>. QED
      BY <1>1, CellMovedFrom
  <2>. QED
    BY <1>1, <2>1
<1>7. With(With(f, m, o), s, Null) = MoveOwner(f, m, s)
  <2>. HIDE DEF f, o
  <2>. QED
    BY <1>2 DEF With, MoveOwner
<1>8. OwnedBy(cells', members', raw) = MoveOwner(f, m, s)
  <2>. HIDE DEF f, f1, o
  <2>. QED
    BY <1>5, <1>6, <1>7
<1>9. members' \in [Members -> Owner]
  BY <1>1, <1>3 DEF With
<1>. QED
  BY <1>1, <1>4, <1>6, <1>8, <1>9 DEF IInv, FillingOK

LEMMA ReleaseKeeps ==
  ASSUME IInv, NEW s \in Slots, Release(s)
  PROVE  IInv'
<1> DEFINE f == OwnedBy(cells, members, raw)
           x == MovedFrom(cells[s])
           o == cells[s].value
           f1 == OwnedBy(cells, members, o)
<1>1. /\ CellsOK(cells) /\ filling = None /\ HeapOK(heap, f, None) /\ Living(cells[s])
      /\ UNCHANGED <<heap, members, filling, retval>>
      /\ raw' = o /\ cells' = With(cells, s, x) /\ raw = Null
  BY DEF Release, HasValue, Running, Alive, IInv, CellsOK, Living, With
<1>2. f[s] = o /\ f["raw"].ptr = 0 /\ s \in Places /\ "raw" \in Places /\ s # "raw"
  BY <1>1, OwnedFacts, PlaceFacts, NullFacts
<1>3. o \in Owner
  BY <1>1, CellFacts DEF Living
<1>4. HeapOK(heap, MoveOwner(f, "raw", s), None)
  <2>. HIDE DEF f
  <2>. QED
    BY <1>1, <1>2, MoveKeeps DEF MoveOwner
<1>5. f1 = With(f, "raw", o)
  BY OwnedSetRaw
<1>6. CellsOK(cells') /\ OwnedBy(cells', members, raw') = With(f1, s, Null)
  <2>1. CellsOK(With(cells, s, x)) /\ OwnedBy(With(cells, s, x), members, o) = With(f1, s, Null)
    <3>. HIDE DEF o
    <3>. QED
      BY <1>1, CellMovedFrom
  <2>. QED
    BY <1>1, <2>1
<1>7. With(With(f, "raw", o), s, Null) = MoveOwner(f, "raw", s)
  <2>. HIDE DEF f, o
  <2>. QED
    BY <1>2 DEF With, MoveOwner
<1>8. OwnedBy(cells', members, raw') = MoveOwner(f, "raw", s)
  <2>. HIDE DEF f, f1, o
  <2>. QED
    BY <1>5, <1>6, <1>7
<1>. QED
  BY <1>1, <1>3, <1>4, <1>6, <1>8 DEF IInv, FillingOK

LEMMA DeleteReleasedKeeps ==
  ASSUME IInv, DeleteReleased
  PROVE  IInv'
<1> DEFINE f == OwnedBy(cells, members, raw)
<1>1. /\ CellsOK(cells) /\ filling = None /\ HeapOK(heap, f, None) /\ raw \in Owner
      /\ UNCHANGED <<cells, members, filling, retval>> /\ raw' = Null /\ raw # Null
      /\ heap' = Delete(heap, raw.type, raw.type.base, raw.count, raw.ptr)
  BY DEF DeleteReleased, Running, IInv
<1>2. f["raw"] = raw /\ "raw" \in Places /\ f["raw"].ptr # 0
  BY <1>1, OwnedFacts, PlaceFacts, NullFacts
<1>3. HeapOK(heap', With(f, "raw", Null), None)
  <2>1. /\ heap' = Delete(heap, f["raw"].type, f["raw"].type.base, f["raw"].count, f["raw"].ptr)
        /\ f["raw"].type.base \in {f["raw"].type.alignment, f["raw"].type.base}
    BY <1>1, <1>2
  <2>. HIDE DEF f
  <2>. QED
    BY <1>1, <1>2, <2>1, DeleteKeeps DEF With
<1>4. OwnedBy(cells, members, raw') = With(f, "raw", Null)
  BY <1>1, OwnedSetRaw
<1>. QED
  BY <1>1, <1>3, <1>4, NullFacts DEF IInv, FillingOK

LEMMA AssignRetvalKeeps ==
  ASSUME IInv, AssignRetval
  PROVE  IInv'
<1> DEFINE V(b) == [m_has_value |-> b, live |-> IF b THEN {} ELSE {"error"}, value |-> Null]
<1>1. UNCHANGED <<heap, cells, members, raw, filling>>
  BY DEF AssignRetval
<1>2. PICK b \in BOOLEAN : retval = V(b)
  BY DEF IInv, VoidOK
<1>3. E!VoidValue = V(TRUE)
  BY DEF E!VoidValue, E!Flag, E!Storage, E!Object
<1>4. E!FromUnexpected = V(FALSE)
  BY ConstructorsLive DEF ErrorCell
<1>5. E!VoidAssign(V(b), V(TRUE)) = V(TRUE)
  BY UnionMembers DEF E!VoidAssign, E!Flag, E!Construct, E!Destroy, E!Object
<1>6. E!VoidAssign(V(b), V(FALSE)) = V(FALSE)
  BY UnionMembers DEF E!VoidAssign, E!Flag, E!Construct, E!Destroy, E!Object
<1>7. E!VoidAssignUnexpected(V(b)) = V(FALSE)
  BY UnionMembers DEF E!VoidAssignUnexpected, E!Flag, E!Construct, E!Object
<1>8. E!VoidEmplace(V(b)) = V(TRUE)
  BY UnionMembers DEF E!VoidEmplace, E!Flag, E!Destroy, E!Object
<1>9. retval' \in {V(TRUE), V(FALSE)}
  BY <1>2, <1>3, <1>4, <1>5, <1>6, <1>7, <1>8 DEF AssignRetval
<1>10. VoidOK(retval')
  BY <1>9 DEF VoidOK
<1>. QED
  BY <1>1, <1>10 DEF IInv, FillingOK

LEMMA PoolIsEmptyKeeps ==
  ASSUME IInv, NEW s \in Slots, NEW t \in Types, NEW n \in TheCounts(t), PoolIsEmpty(s, t, n)
  PROVE  IInv'
BY DEF IInv, PoolIsEmpty, FillingOK

LEMMA StepKeeps == IInv /\ [Next]_vars => IInv'
<1> SUFFICES ASSUME IInv, [Next]_vars PROVE IInv'
  OBVIOUS
<1>1. ASSUME NEW s \in Slots, NEW t \in Types, NEW n \in TheCounts(t),
             \/ AllocateFails(s, t, n) \/ PoolIsEmpty(s, t, n)
             \/ AllocateUnique(s, t, n) \/ AllocateUninitialized(s, t, n)
      PROVE  IInv'
  BY <1>1, AllocateFailsKeeps, PoolIsEmptyKeeps, AllocateUniqueKeeps, AllocateUninitializedKeeps
<1>2. ASSUME NEW s \in Slots, FillElements(s) \/ LeaveScope(s) \/ AssignError(s) \/ Release(s)
      PROVE  IInv'
  BY <1>2, FillElementsKeeps, LeaveScopeKeeps, AssignErrorKeeps, ReleaseKeeps
<1>3. ASSUME NEW s \in Slots, NEW u \in Slots, MoveConstruct(s, u) \/ MoveAssign(s, u)
      PROVE  IInv'
  BY <1>3, MoveConstructKeeps, MoveAssignKeeps
<1>4. ASSUME NEW s \in Slots, NEW m \in Members, GiveBack(s, m) \/ TakeValue(s, m)
      PROVE  IInv'
  BY <1>4, GiveBackKeeps, TakeValueKeeps
<1>5. ASSUME Ended \/ UNCHANGED vars PROVE IInv'
  BY <1>5 DEF Ended, vars, IInv, FillingOK
<1>. QED
  BY <1>1, <1>2, <1>3, <1>4, <1>5, DeleteReleasedKeeps, AssignRetvalKeeps DEF Next

(***************************************************************************)
(* IInv holds in every reachable state.                                    *)
(***************************************************************************)
THEOREM Invariance == Spec => []IInv
BY InitKeeps, StepKeeps, PTL DEF Spec
-----------------------------------------------------------------------------
(***************************************************************************)
(* After every sequence of operations the flag of an expected tells which  *)
(* member of its union is alive.                                           *)
(***************************************************************************)
THEOREM FlagAlwaysTellsMember == Spec => []FlagTellsMember
<1>1. IInv => FlagTellsMember
  <2> SUFFICES ASSUME IInv PROVE FlagTellsMember
    OBVIOUS
  <2>1. \A s \in Slots :
          cells[s].live \in {{}, {IF cells[s].m_has_value THEN "value" ELSE "error"}}
    BY DEF IInv, CellsOK, CellOK, Alternative
  <2>2. retval.live = IF retval.m_has_value THEN {} ELSE {"error"}
    BY DEF IInv, VoidOK
  <2>. QED
    BY <2>1, <2>2 DEF FlagTellsMember
<1>. QED
  BY <1>1, Invariance, PTL

(***************************************************************************)
(* For all types, pools and counts: what is alive lies aligned inside a    *)
(* block, apart from everything else that is alive and from the addresses  *)
(* kept for deallocate.                                                    *)
(***************************************************************************)
THEOREM ElementsAlwaysApart == Spec => []ElementsApart
<1>1. IInv => ElementsApart
  <2> SUFFICES ASSUME IInv PROVE ElementsApart
    OBVIOUS
  <2> DEFINE f == OwnedBy(cells, members, raw)
  <2>1. HeapOK(heap, f, filling)
    BY DEF IInv
  <2>. HIDE DEF f
  <2>2. ASSUME NEW e \in heap.elements
        PROVE  /\ Aligned(e.at, e.type.alignment)
               /\ \E b \in heap.blocks : b.base <= e.at /\ e.at + e.type.size <= b.base + b.size
    <3>1. PICK p \in Owners(f) : e \in ElementsOf(f[p])
      BY <2>1 DEF HeapOK, ElementsOwned
    <3> DEFINE base == BlockBase(heap, f[p])
               request == Request(f[p].type, f[p].count)
               room == Room(f[p].type, f[p].count)
    <3>2. /\ f[p] \in Owner /\ f[p].ptr # 0 /\ Placed(f[p], base)
          /\ f[p].ptr \in Positive /\ f[p].count \in Positive /\ f[p].type \in Types
          /\ BlockFor(heap, f[p]) \in heap.blocks /\ base \in Positive /\ request \in Positive
      BY <2>1, OwnersApart
    <3>3. /\ e \in Element /\ e.type = f[p].type /\ Aligned(e.at, e.type.alignment)
          /\ f[p].ptr <= e.at /\ e.at + e.type.size <= f[p].ptr + room
      BY <3>1, <3>2, ElementsInside
    <3>4. base <= f[p].ptr /\ f[p].ptr + room <= base + request
      BY <3>2 DEF Placed
    <3>5. room \in Positive /\ e.type.size \in Positive /\ e.at \in Nat
      BY <3>2, <3>3, TypeFacts DEF Element
    <3>6. base <= e.at /\ e.at + e.type.size <= base + request
      <4>. HIDE DEF base, request, room
      <4>. QED
        BY <3>2, <3>3, <3>4, <3>5 DEF Positive
    <3>7. BlockFor(heap, f[p]).base = base /\ BlockFor(heap, f[p]).size = request
      BY DEF BlockFor
    <3>. QED
      BY <3>2, <3>3, <3>6, <3>7
  <2>3. \A d, e \in heap.elements : d # e => Apart(d.at, d.type.size, e.at, e.type.size)
    BY <2>1, ElementsOfApart
  <2>4. \A a \in Addresses : heap.header[a] # 0 =>
          \A e \in heap.elements : Apart(a, PointerSize, e.at, e.type.size)
    BY <2>1, HeadersApart
  <2>. QED
    BY <2>2, <2>3, <2>4 DEF ElementsApart
<1>. QED
  BY <1>1, Invariance, PTL

(***************************************************************************)
(* For all of them and after every sequence of operations: each block has  *)
(* one owner, which will free it and destroy what is alive in it.          *)
(***************************************************************************)
THEOREM OneOwnerAlways == Spec => []OneOwnerEach
<1>1. IInv => OneOwnerEach
  <2> SUFFICES ASSUME IInv PROVE OneOwnerEach
    OBVIOUS
  <2> DEFINE f == OwnedBy(cells, members, raw)
  <2>1. HeapOK(heap, f, filling)
    BY DEF IInv
  <2>2. \A p \in Places : f[p] = OwnerAt(p)
    BY DEF OwnedBy, OwnerAt
  <2>3. Owning = Owners(f)
    BY <2>2 DEF Owning, Owners
  <2>4. \A p \in Owning : f[p] = OwnerAt(p) /\ BlockOf(p) = BlockBase(heap, f[p])
    BY <2>2 DEF Owning, BlockOf, BlockBase
  <2>. HIDE DEF f
  <2>5. {BlockOf(p) : p \in Owning} = {b.base : b \in heap.blocks}
    <3>1. ASSUME NEW p \in Owning
          PROVE  \E b \in heap.blocks : b.base = BlockOf(p)
      <4>1. BlockFor(heap, f[p]) \in heap.blocks
        BY <2>1, <2>3, OwnersApart
      <4>. QED
        BY <2>4, <4>1 DEF BlockFor
    <3>2. ASSUME NEW b \in heap.blocks
          PROVE  \E p \in Owning : b.base = BlockOf(p)
      BY <2>1, <2>3, <2>4 DEF HeapOK, EachBlockOwned
    <3>. QED
      BY <3>1, <3>2
  <2>6. \A p, q \in Owning : p # q => BlockOf(p) # BlockOf(q)
    BY <2>1, <2>3, <2>4 DEF HeapOK, OwnersDiffer
  <2>7. heap.elements =
          UNION {Elements(OwnerAt(p).type, OwnerAt(p).ptr, OwnerAt(p).count) :
                   p \in Owning \ {filling}}
    <3>1. heap.elements = UNION {ElementsOf(f[p]) : p \in Owning \ {filling}}
      BY <2>1, <2>3 DEF HeapOK, ElementsOwned
    <3>2. \A p \in Owning \ {filling} :
            ElementsOf(f[p]) = Elements(OwnerAt(p).type, OwnerAt(p).ptr, OwnerAt(p).count)
      BY <2>4 DEF ElementsOf
    <3>. QED
      BY <3>1, <3>2
  <2>. QED
    BY <2>5, <2>6, <2>7 DEF OneOwnerEach
<1>. QED
  BY <1>1, Invariance, PTL

(***************************************************************************)
(* The pools never get back an address they have not given, and no         *)
(* destructor runs on what is not alive.                                   *)
(***************************************************************************)
THEOREM HeapAlwaysIntact == Spec => []HeapIntact
<1>1. IInv => HeapIntact
  BY DEF IInv, HeapOK, HeapIntact
<1>. QED
  BY <1>1, Invariance, PTL
=============================================================================
