--------------------------- MODULE MCOwnedObjects ---------------------------
(***************************************************************************)
(* A small instance of OwnedObjects: an address space of three pages of     *)
(* eight bytes, a pointer of one byte, and a type of each class.           *)
(***************************************************************************)
EXTENDS OwnedObjects

Type(size, alignment, array, pool, base) ==
  [size |-> size, alignment |-> alignment, array |-> array, pool |-> pool, base |-> base]

KindsOfTypes ==
  {Type(4, 2, FALSE, "pool", 1),          \* a node, the hypervisor
   Type(2, 2, TRUE, "pool", 2),           \* the array of virtual processors
   Type(8, 8, FALSE, "pool", 8),          \* a table, a VMCS, the MSR bitmap
   Type(4, 4, TRUE, "pool", 4),           \* over-aligned
   Type(4, 4, FALSE, "contiguous", 4)}
=============================================================================
