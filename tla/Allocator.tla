------------------------------ MODULE Allocator ------------------------------
(***************************************************************************)
(* The allocators (memory.cpp, memory.hpp): where an object lies in the    *)
(* block the pool gives, and which address goes back to the pool when the  *)
(* object is deleted.  An object aligned beyond what the pool promises is  *)
(* moved up in a larger block, and the address of the block is written     *)
(* just below it.                                                          *)
(***************************************************************************)
EXTENDS Integers, FiniteSets

CONSTANTS
  Word,            \* 2^(bits of size_t): sizes and addresses lie below it
  PointerSize,     \* sizeof(void*)
  PoolAlignment,   \* MEMORY_ALLOCATION_ALIGNMENT
  PageSize,        \* PAGE_SIZE
  Types            \* the types allocated, with the class each is deleted as

ASSUME WordAssumption == Word \in Nat
ASSUME AlignmentAssumption ==
  /\ PointerSize \in Nat \ {0} /\ PoolAlignment \in Nat /\ PageSize \in Nat
  /\ PointerSize <= PoolAlignment /\ PoolAlignment <= PageSize

(***************************************************************************)
(* Alignments are powers of two, and sizes multiples of them.  base is the *)
(* alignment of the class an object may be deleted as: the driver holds    *)
(* its mshv_hypervisor as a hypervisor.                                    *)
(***************************************************************************)
HoldsHeader(alignment) == alignment > PoolAlignment /\ alignment # PageSize

ASSUME TypesAssumption ==
  \A t \in Types :
    /\ t.size \in Nat \ {0} /\ t.alignment \in Nat \ {0} /\ t.base \in Nat \ {0}
    /\ t.pool \in {"pool", "contiguous"}
    /\ t.size % t.alignment = 0
    /\ PageSize % t.alignment = 0 \/ HoldsHeader(t.alignment)
    /\ PoolAlignment % t.alignment = 0 \/ t.alignment > PoolAlignment
    /\ HoldsHeader(t.base) = HoldsHeader(t.alignment)
    /\ t.pool = "contiguous" => PageSize % t.alignment = 0

Addresses == 0 .. Word - 1

AlignDown(value, alignment) == alignment * (value \div alignment)
Aligned(value, alignment) == value % alignment = 0

-----------------------------------------------------------------------------
(***************************************************************************)
(* What allocate asks of the pool for n objects.  The product and the sum  *)
(* are checked: beyond a word the caller gets an error.                    *)
(***************************************************************************)
ReservedWithoutHeader(t) ==      \* mutant: no room for the address of the block
  IF t.pool = "pool" /\ HoldsHeader(t.alignment) THEN t.alignment - 1 ELSE 0

Reserved(t) ==
  IF t.pool = "pool" /\ HoldsHeader(t.alignment)
  THEN t.alignment - 1 + PointerSize
  ELSE 0

Larger(a, b) == IF a > b THEN a ELSE b

Room(t, n) ==
  IF t.pool = "pool" /\ t.alignment = PageSize
  THEN Larger(t.size * n, PageSize)
  ELSE t.size * n

Request(t, n) == Reserved(t) + Room(t, n)

FitsWord(t, n) == t.size * n < Word /\ Request(t, n) < Word

(***************************************************************************)
(* A heap: the blocks the pool has given, the addresses kept below the     *)
(* over-aligned objects, the elements between their constructor and their  *)
(* destructor, and whether all that was freed was a block, and all that    *)
(* was destroyed an element.                                               *)
(***************************************************************************)
EmptyHeap ==
  [blocks |-> {}, header |-> [a \in Addresses |-> 0], elements |-> {}, intact |-> TRUE]

Apart(base1, size1, base2, size2) == base1 + size1 <= base2 \/ base2 + size2 <= base1

(***************************************************************************)
(* The pool's promise (comment in Xpaged_allocator::allocate): a page or   *)
(* more begins at a page, less does not cross into another one.            *)
(***************************************************************************)
Bases(heap, t, bytes) ==
  {base \in Addresses \ {0} :
     /\ base + bytes <= Word
     /\ Aligned(base, PoolAlignment)
     /\ bytes >= PageSize \/ t.pool = "contiguous" => Aligned(base, PageSize)
     /\ bytes < PageSize => base \div PageSize = (base + bytes - 1) \div PageSize
     /\ \A b \in heap.blocks : Apart(b.base, b.size, base, bytes)}

(***************************************************************************)
(* Where the objects begin in a block.                                     *)
(***************************************************************************)
Pointer(t, base) ==
  IF Reserved(t) = 0 THEN base ELSE AlignDown(base + Reserved(t), t.alignment)

Elements(t, ptr, n) == {[at |-> ptr + i * t.size, type |-> t] : i \in 0 .. n - 1}

(***************************************************************************)
(* allocate for n objects of type t in the block at base, and the          *)
(* constructors of the elements.  An owner's writes replace whatever       *)
(* header lay where its objects are.                                       *)
(***************************************************************************)
Allocate(heap, t, n, base) ==
  LET ptr == Pointer(t, base)
  IN  [blocks   |-> heap.blocks \cup {[base |-> base, size |-> Request(t, n)]},
       header   |-> [a \in Addresses |->
                       IF Reserved(t) # 0 /\ a = ptr - PointerSize THEN base
                       ELSE IF Apart(a, PointerSize, ptr, Room(t, n)) THEN heap.header[a]
                       ELSE 0],
       elements |-> heap.elements,
       intact   |-> heap.intact]

ConstructElements(heap, t, n, ptr) ==
  [heap EXCEPT !.elements = @ \cup Elements(t, ptr, n)]

(***************************************************************************)
(* deallocate: the address that goes back to the pool, by the alignment of *)
(* the class the object is deleted as.                                     *)
(***************************************************************************)
FreedOfThePointer(heap, t, alignment, ptr) == ptr      \* mutant: the header is not read

Freed(heap, t, alignment, ptr) ==
  IF t.pool = "pool" /\ HoldsHeader(alignment) THEN heap.header[ptr - PointerSize] ELSE ptr

(***************************************************************************)
(* allocator_delete for the n objects at ptr, by a class of this           *)
(* alignment: their destructors, then deallocate.  The pool may write      *)
(* where the block was.                                                    *)
(***************************************************************************)
Delete(heap, t, alignment, n, ptr) ==
  LET base == Freed(heap, t, alignment, ptr)
      gone == {b \in heap.blocks : b.base = base}
      dead == Elements(t, ptr, n)
  IN  [blocks   |-> heap.blocks \ gone,
       header   |-> [a \in Addresses |->
                       IF \A b \in gone : Apart(a, PointerSize, b.base, b.size)
                       THEN heap.header[a]
                       ELSE 0],
       elements |-> heap.elements \ dead,
       intact   |-> heap.intact /\ gone # {} /\ dead \subseteq heap.elements]
=============================================================================
