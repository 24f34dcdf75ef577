----------------------------- MODULE EptAddress -----------------------------
(***************************************************************************)
(* Physical addresses and page attributes as dynamic_ept sees them.        *)
(*                                                                         *)
(* An address is its digits: digit k \in 1..4 is pml_index<k>, the index   *)
(* into the table of level k, and digit 0 the offset inside a 4-KiB page.  *)
(* The pages of level 1, 2 and 3 are the 4-KiB, 2-MiB and 1-GiB pages; a   *)
(* table has Fanout entries (512 in the code), so that one page of level   *)
(* l + 1 is Fanout pages of level l whose digit l runs over the index.     *)
(***************************************************************************)
EXTENDS Integers

CONSTANTS
  Fanout,        \* entries per table: 512 in x86/intel_ept.hpp
  MemoryTypes    \* memory_type and the other attributes every copy keeps

ASSUME FanoutAssumption == Fanout \in Nat \ {0, 1}

Index == 0 .. Fanout - 1

Addr == [0 .. 4 -> Index]

PageLevels == 1 .. 3

(***************************************************************************)
(* page_offset<size of a page of this level>(a) == 0.                      *)
(***************************************************************************)
Aligned(level, a) == \A k \in 0 .. level - 1 : a[k] = 0

(***************************************************************************)
(* The page of this level that contains a also contains b.                 *)
(***************************************************************************)
SamePage(level, a, b) == \A k \in level .. 4 : a[k] = b[k]

(***************************************************************************)
(* setting_flags: the three rights, and mt for the attributes that every   *)
(* copy and every split carries over unchanged.                            *)
(***************************************************************************)
Flags == [read : BOOLEAN, write : BOOLEAN, execute : BOOLEAN, mt : MemoryTypes]

(***************************************************************************)
(* setting_flags::is_present, and is_present of the three page entries.    *)
(***************************************************************************)
IsPresent(flags) == flags.read \/ flags.write \/ flags.execute

(***************************************************************************)
(* The host base of the i-th smaller page of a page of this level: the     *)
(* large base plus i times the smaller size.                               *)
(***************************************************************************)
SubBase(level, base, i) == [base EXCEPT ![level - 1] = i]

(***************************************************************************)
(* A lookup: no page, or the page (level, host base, attributes) found.    *)
(***************************************************************************)
NoPage == [found |-> FALSE]

Page(level, base, flags) ==
  [found |-> TRUE, level |-> level, base |-> base, flags |-> flags]

PageSet == [found : {TRUE}, level : PageLevels, base : Addr, flags : Flags]

(***************************************************************************)
(* The page of the next smaller size, with these attributes, that takes    *)
(* the place of the page pg at address g when pg is broken up.             *)
(***************************************************************************)
SmallerPage(pg, flags, g) ==
  IF IsPresent(flags)
  THEN Page(pg.level - 1, SubBase(pg.level, pg.base, g[pg.level - 1]), flags)
  ELSE NoPage

(***************************************************************************)
(* nt_status values the operations return.                                 *)
(***************************************************************************)
Status == {"success", "not_found", "invalid_address", "invalid_parameter",
           "insufficient_resources"}

(***************************************************************************)
(* The check of page_size and alignment that the page operations share;    *)
(* a level outside PageLevels stands for any other page_size.              *)
(***************************************************************************)
CheckPage(level, aligned) ==
  IF level \notin PageLevels THEN "invalid_parameter"
  ELSE IF aligned THEN "success" ELSE "invalid_address"
=============================================================================
