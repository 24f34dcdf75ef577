----------------------------- MODULE OwnedObjects -----------------------------
(***************************************************************************)
(* The objects siren allocates and who owns them: allocate_unique returns  *)
(* an expected<unique_ptr>, its value is moved into a member or released   *)
(* to a raw pointer, an error path destroys what has been made so far, and *)
(* allocator_delete ends the raw pointers.  All of it composes Allocator   *)
(* and Expected; unique_ptr is the standard library's.                     *)
(*                                                                         *)
(* One thread at a time runs this code for the objects it owns: an         *)
(* operation is one step.                                                  *)
(***************************************************************************)
EXTENDS Allocator

CONSTANTS
  Slots,     \* local expected<unique_ptr<T>, nt_status> objects
  Members,   \* unique_ptr members and locals
  Counts     \* lengths of the arrays asked for

ASSUME CountsAssumption == Counts \subseteq Nat \ {0}

VARIABLES
  heap,      \* see Allocator
  cells,     \* the local objects, by their slots
  members,   \* what each unique_ptr member owns
  raw,       \* the released pointer
  filling,   \* the slot whose elements are being constructed by its owner, or None
  retval,    \* the expected<void> a function returns
  halted     \* an object was constructed in a null pointer

vars == <<heap, cells, members, raw, filling, retval, halted>>

None == "none"

ASSUME PlacesAssumption ==
  Slots \intersect Members = {} /\ {None, "raw"} \intersect (Slots \cup Members) = {}

(***************************************************************************)
(* What a unique_ptr<T, allocation_delete> holds: the pointer, and in its  *)
(* deleter the count.  T is part of its type.                              *)
(***************************************************************************)
NoType == CHOOSE t \in Types : TRUE
Null == [ptr |-> 0, count |-> 0, type |-> NoType]

E == INSTANCE Expected WITH NoValue <- Null

(***************************************************************************)
(* The deleter runs for a pointer that is not null.                        *)
(***************************************************************************)
Dispose(h, owner) ==
  IF owner.ptr = 0
  THEN h
  ELSE Delete(h, owner.type, owner.type.alignment, owner.count, owner.ptr)

Init ==
  /\ heap = EmptyHeap
  /\ cells = [s \in Slots |-> E!Storage]
  /\ members = [m \in Members |-> Null]
  /\ raw = Null
  /\ filling = None
  /\ retval = E!VoidValue
  /\ halted = FALSE

Running == ~halted /\ filling = None
Alive(s) == cells[s].live # {}
HasValue(s) == Running /\ Alive(s) /\ cells[s].m_has_value
-----------------------------------------------------------------------------
(***************************************************************************)
(* allocate_unique.  The contiguous allocator reports that there is no     *)
(* memory; the pools assert it, and the constructor writes to address 0.   *)
(***************************************************************************)
TheCounts(t) == IF t.array THEN Counts ELSE {1}

ReturnError(s) ==
  /\ cells' = [cells EXCEPT ![s] = E!FromUnexpected]
  /\ UNCHANGED <<heap, members, raw, filling, retval, halted>>

ReturnOwner(s, owner) ==
  /\ cells' = [cells EXCEPT ![s] = E!FromValue(owner)]
  /\ UNCHANGED <<members, raw, retval, halted>>

AllocateFails(s, t, n) ==
  /\ Running /\ ~Alive(s)
  /\ ~FitsWord(t, n) \/ t.pool = "contiguous"
  /\ ReturnError(s)

PoolIsEmpty(s, t, n) ==
  /\ Running /\ ~Alive(s) /\ FitsWord(t, n) /\ t.pool = "pool"
  /\ halted' = TRUE /\ UNCHANGED <<heap, cells, members, raw, filling, retval>>

AllocateUnique(s, t, n) ==
  /\ Running /\ ~Alive(s) /\ FitsWord(t, n)
  /\ \E base \in Bases(heap, t, Request(t, n)) :
       LET ptr == Pointer(t, base)
       IN  /\ heap' = ConstructElements(Allocate(heap, t, n, base), t, n, ptr)
           /\ ReturnOwner(s, [ptr |-> ptr, count |-> n, type |-> t])
           /\ UNCHANGED filling

(***************************************************************************)
(* allocate_unique_uninitialized, after which the owner constructs every   *)
(* element before it does anything else (mshv_hypervisor::intialize): the  *)
(* deleter destroys them all.                                              *)
(***************************************************************************)
AllocateUninitialized(s, t, n) ==
  /\ Running /\ ~Alive(s) /\ FitsWord(t, n) /\ t.array
  /\ \E base \in Bases(heap, t, Request(t, n)) :
       /\ heap' = Allocate(heap, t, n, base)
       /\ ReturnOwner(s, [ptr |-> Pointer(t, base), count |-> n, type |-> t])
       /\ filling' = s

FillElements(s) ==
  /\ ~halted /\ filling = s
  /\ LET owner == cells[s].value
     IN  heap' = ConstructElements(heap, owner.type, owner.count, owner.ptr)
  /\ filling' = None
  /\ UNCHANGED <<cells, members, raw, retval, halted>>
-----------------------------------------------------------------------------
(***************************************************************************)
(* What happens to the results.  A value that is moved from stays alive,   *)
(* with a null pointer; what is dropped is deleted.                        *)
(***************************************************************************)
Becomes(s, result) ==
  /\ cells' = [cells EXCEPT ![s] = result.cell]
  /\ heap' = Dispose(heap, result.dropped)
  /\ UNCHANGED <<raw, filling, retval, halted>>

MovedFrom(x) == IF x.m_has_value THEN E!Overwrite(x, Null) ELSE x

LeaveScope(s) ==
  Running /\ Alive(s) /\ Becomes(s, E!Destructor(cells[s])) /\ UNCHANGED members

(***************************************************************************)
(* T is fixed by an owner's declaration: what it holds is replaced by      *)
(* another T.                                                              *)
(***************************************************************************)
SameType(owner1, owner2) ==
  owner1.ptr # 0 /\ owner2.ptr # 0 => owner1.type = owner2.type

MoveConstruct(s, u) ==
  /\ Running /\ Alive(u) /\ ~Alive(s)
  /\ cells' = [cells EXCEPT ![s] = E!FromExpected(cells[u]), ![u] = MovedFrom(@)]
  /\ UNCHANGED <<heap, members, raw, filling, retval, halted>>

MoveAssign(s, u) ==
  /\ Running /\ Alive(u) /\ Alive(s) /\ s # u
  /\ SameType(cells[s].value, cells[u].value)
  /\ LET result == E!Assign(cells[s], cells[u])
     IN  /\ cells' = [cells EXCEPT ![s] = result.cell, ![u] = MovedFrom(@)]
         /\ heap' = Dispose(heap, result.dropped)
  /\ UNCHANGED <<members, raw, filling, retval, halted>>

AssignError(s) ==
  Running /\ Alive(s) /\ Becomes(s, E!AssignUnexpected(cells[s])) /\ UNCHANGED members

GiveBack(s, m) ==
  /\ Running /\ Alive(s) /\ SameType(cells[s].value, members[m])
  /\ \/ Becomes(s, E!AssignValue(cells[s], members[m]))
     \/ Becomes(s, E!Emplace(cells[s], members[m]))
  /\ members' = [members EXCEPT ![m] = Null]

TakeValueTwice(s, m) ==      \* mutant: the value is copied and not moved
  /\ HasValue(s) /\ SameType(cells[s].value, members[m])
  /\ members' = [members EXCEPT ![m] = cells[s].value]
  /\ heap' = Dispose(heap, members[m])
  /\ UNCHANGED <<cells, raw, filling, retval, halted>>

TakeValue(s, m) ==
  /\ HasValue(s) /\ SameType(cells[s].value, members[m])
  /\ members' = [members EXCEPT ![m] = cells[s].value]
  /\ heap' = Dispose(heap, members[m])
  /\ cells' = [cells EXCEPT ![s] = MovedFrom(@)]
  /\ UNCHANGED <<raw, filling, retval, halted>>

(***************************************************************************)
(* A single object is released to a raw pointer and deleted by             *)
(* allocator_delete: the nodes of dynamic_ept, and the hypervisor object,  *)
(* which is deleted as its base class.                                     *)
(***************************************************************************)
Release(s) ==
  /\ HasValue(s) /\ raw = Null /\ ~cells[s].value.type.array
  /\ raw' = cells[s].value
  /\ cells' = [cells EXCEPT ![s] = MovedFrom(@)]
  /\ UNCHANGED <<heap, members, filling, retval, halted>>

DeleteReleased ==
  /\ Running /\ raw # Null
  /\ heap' = Delete(heap, raw.type, raw.type.base, raw.count, raw.ptr) /\ raw' = Null
  /\ UNCHANGED <<cells, members, filling, retval, halted>>

(***************************************************************************)
(* The functions that return expected<void> assign to it what others       *)
(* return, or an unexpected.                                               *)
(***************************************************************************)
AssignRetval ==
  /\ Running
  /\ retval' \in {E!VoidAssign(retval, E!VoidValue), E!VoidAssign(retval, E!FromUnexpected),
                  E!VoidAssignUnexpected(retval), E!VoidEmplace(retval)}
  /\ UNCHANGED <<heap, cells, members, raw, filling, halted>>

Ended == halted /\ UNCHANGED vars

Next ==
  \/ \E s \in Slots, t \in Types : \E n \in TheCounts(t) :
       \/ AllocateFails(s, t, n) \/ PoolIsEmpty(s, t, n)
       \/ AllocateUnique(s, t, n) \/ AllocateUninitialized(s, t, n)
  \/ \E s \in Slots : FillElements(s) \/ LeaveScope(s) \/ AssignError(s) \/ Release(s)
  \/ \E s, u \in Slots : MoveConstruct(s, u) \/ MoveAssign(s, u)
  \/ \E s \in Slots, m \in Members : GiveBack(s, m) \/ TakeValue(s, m)
  \/ DeleteReleased \/ AssignRetval \/ Ended

Spec == Init /\ [][Next]_vars
-----------------------------------------------------------------------------
(***************************************************************************)
(* The owners of objects: live values, members, the released pointer.      *)
(***************************************************************************)
Places == Slots \cup Members \cup {"raw"}

OwnerAt(place) ==
  IF place \in Slots THEN cells[place].value
  ELSE IF place \in Members THEN members[place] ELSE raw

Owning == {p \in Places : OwnerAt(p).ptr # 0}

(***************************************************************************)
(* The flag of an expected says which member of its union is alive, and    *)
(* the other one never is (of the constructors, the assignments, emplace   *)
(* and the destructors of expected.hpp).                                   *)
(***************************************************************************)
FlagTellsMember ==
  /\ \A s \in Slots :
       cells[s].live \in {{}, {IF cells[s].m_has_value THEN "value" ELSE "error"}}
  /\ retval.live = IF retval.m_has_value THEN {} ELSE {"error"}

(***************************************************************************)
(* What is alive lies aligned inside a block, apart from every other       *)
(* element and from the addresses kept below over-aligned objects          *)
(* (allocate, allocator_new).                                              *)
(***************************************************************************)
ElementsApart ==
  /\ \A e \in heap.elements :
       /\ Aligned(e.at, e.type.alignment)
       /\ \E b \in heap.blocks : b.base <= e.at /\ e.at + e.type.size <= b.base + b.size
       /\ \A f \in heap.elements : e # f => Apart(e.at, e.type.size, f.at, f.type.size)
  /\ \A a \in Addresses : heap.header[a] # 0 =>
       \A e \in heap.elements : Apart(a, PointerSize, e.at, e.type.size)

(***************************************************************************)
(* Every block has exactly one owner, which will free just this block and  *)
(* destroy just the elements alive in it: nothing is lost on any path, and *)
(* nothing has two owners (allocate_unique, the moves of expected and of   *)
(* unique_ptr, allocation_delete).                                         *)
(***************************************************************************)
BlockOf(p) ==
  Freed(heap, OwnerAt(p).type, OwnerAt(p).type.alignment, OwnerAt(p).ptr)

OneOwnerEach ==
  /\ {BlockOf(p) : p \in Owning} = {b.base : b \in heap.blocks}
  /\ \A p, q \in Owning : p # q => BlockOf(p) # BlockOf(q)
  /\ heap.elements =
       UNION {Elements(OwnerAt(p).type, OwnerAt(p).ptr, OwnerAt(p).count) :
                p \in Owning \ {filling}}

(***************************************************************************)
(* The pool is never given an address it has not given, and no destructor  *)
(* runs on what is not alive (deallocate, allocator_delete).               *)
(***************************************************************************)
HeapIntact == heap.intact
=============================================================================
