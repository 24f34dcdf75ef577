---------------------------- MODULE Segmentation ----------------------------
(***************************************************************************)
(* Segment selectors, and the descriptors they name (segmentation.hpp).    *)
(* An address is <<bits 63:32, bits 31:0>>.  A descriptor table has        *)
(* entries of eight bytes, of which the model keeps the base: one entry is *)
(* a code or data descriptor, two in a row are the descriptor of an LDT or *)
(* a TSS, and the second one holds bits 63:32.                             *)
(***************************************************************************)
EXTENDS Naturals

CONSTANTS
  Halves,        \* halves of addresses
  Memory         \* the entries of the descriptor table at an address

Addresses == Halves \X Halves
Tables == DOMAIN Memory
Zero == <<0, 0>>

ASSUME HalvesAssumption == 0 \in Halves
ASSUME MemoryAssumption ==
  /\ Tables \subseteq Addresses
  /\ \A t \in Tables : DOMAIN Memory[t] \subseteq Nat /\ \A i \in DOMAIN Memory[t] : Memory[t][i] \in Halves

SegmentRegisters == {"CS", "SS", "DS", "ES", "FS", "GS", "LDTR", "TR"}

Selectors == [index : Nat, table_indicator : {0, 1}, rpl : 0 .. 3]

NullSelector == [index |-> 0, table_indicator |-> 0, rpl |-> 0]

IsNull(s) == s.index = 0 /\ s.table_indicator = 0

(***************************************************************************)
(* code.base() and data.base(); ldt.base() and tss.base().                 *)
(***************************************************************************)
Base(table, index) == <<0, Memory[table][index]>>

SystemBase(table, index) == <<Memory[table][index + 1], Memory[table][index]>>

(***************************************************************************)
(* The table a selector's index is for: the GDT, or the LDT that ldtr      *)
(* names in the GDT.                                                       *)
(***************************************************************************)
TableOf(gdt, ldtr, s) == IF s.table_indicator = 1 THEN SystemBase(gdt, ldtr.index) ELSE gdt

(***************************************************************************)
(* External: the processor loads a segment register only with a selector   *)
(* that names a descriptor of the right kind, and keeps what the           *)
(* descriptor says in the hidden part of the register.                     *)
(***************************************************************************)
NamesSystem(gdt, s) ==
  s.table_indicator = 0 /\ {s.index, s.index + 1} \subseteq DOMAIN Memory[gdt]

NamesSegment(gdt, ldtr, s) ==
  /\ s.table_indicator = 1 =>
       ~IsNull(ldtr) /\ NamesSystem(gdt, ldtr) /\ SystemBase(gdt, ldtr.index) \in Tables
  /\ s.index \in DOMAIN Memory[TableOf(gdt, ldtr, s)]

Hidden == [base : Addresses, usable : BOOLEAN]

NoSegment == [base |-> Zero, usable |-> FALSE]
=============================================================================
