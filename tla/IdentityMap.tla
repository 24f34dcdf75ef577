----------------------------- MODULE IdentityMap -----------------------------
(***************************************************************************)
(* setup_ept_identity_map (mshv_hypervisor.cpp): four nested loops over    *)
(* the entries of page tables, which commit the largest pages that have    *)
(* one memory type.  A loop is a frame of the stack; commit_page is the    *)
(* one of DynamicEpt, here the set of pages committed.                     *)
(***************************************************************************)
EXTENDS MemoryType

CONSTANTS
  Entries,       \* entries of a table: 512
  MtrrSettings   \* the MTRRs a processor may have

ASSUME EntriesAssumption ==     \* a power of two; a frame number has the bits of a large page
  \E bits \in 1 .. Width : 2 * bits <= Width /\ Entries = Pow2[bits]
ASSUME MtrrsAssumption == MtrrSettings \subseteq Mtrrs
ASSUME ReachAssumption ==       \* four levels reach all memory
  MaxFrame \in 0 .. Entries * Entries * Entries * Entries - 1

VARIABLES
  mtrr,          \* what the MTRRs say
  stack,         \* the calls in progress: level, start_hpa and the loop's i
  pages,         \* the pages committed: base, level and type
  status         \* "running", or what the outermost call has returned

vars == <<mtrr, stack, pages, status>>

(***************************************************************************)
(* The size of a page of a level, and what an entry of a level covers.     *)
(***************************************************************************)
PageSize(level) ==
  CASE level = 1 -> 1 [] level = 2 -> Entries [] level = 3 -> Entries * Entries

EntrySizeOfOtherLevel(level) ==      \* mutant: the size for level 2 is used at level 3 as well
  IF level = 1 THEN 1 ELSE Entries * PageSize(IF level = 3 THEN 1 ELSE level - 1)

EntrySize(level) == IF level = 1 THEN 1 ELSE Entries * PageSize(level - 1)

Init ==
  /\ mtrr \in MtrrSettings
  /\ stack = <<[level |-> 4, start |-> 0, i |-> 0]>>
  /\ pages = {}
  /\ status = "running"

Top == stack[Len(stack)]
Base == Top.start + Top.i * EntrySize(Top.level)

InLoop == status = "running" /\ Top.i < Entries /\ Base <= MaxFrame

Proposal == Propose(mtrr, Base, PageSize(Top.level))

NextEntry(frames) == [frames EXCEPT ![Len(frames)].i = @ + 1]

CommitPage ==
  /\ InLoop /\ Top.level < 4 /\ (Proposal # "reserved" \/ Top.level = 1)
  /\ \/ /\ Proposal # "reserved"
        /\ pages' = pages \cup {[base |-> Base, level |-> Top.level, type |-> Proposal]}
        /\ stack' = NextEntry(stack)
        /\ UNCHANGED status
     \/ /\ status' = IF Proposal = "reserved" THEN "unsuccessful" ELSE "commit_page has failed"
        /\ UNCHANGED <<pages, stack>>
  /\ UNCHANGED mtrr

Descend ==
  /\ InLoop /\ Top.level > 1 /\ (Top.level < 4 => Proposal = "reserved")
  /\ stack' = Append(stack, [level |-> Top.level - 1, start |-> Base, i |-> 0])
  /\ UNCHANGED <<mtrr, pages, status>>

(***************************************************************************)
(* A loop ends, and the caller's goes on; an error has ended them all.     *)
(***************************************************************************)
Caller == SubSeq(stack, 1, Len(stack) - 1)

LoopEnds == status = "running" /\ ~InLoop

ReturnSkipsEntry ==       \* mutant: the caller's loop leaves one entry out
  /\ LoopEnds
  /\ IF Len(stack) = 1 THEN status' = "done" /\ UNCHANGED stack
     ELSE stack' = NextEntry(NextEntry(Caller)) /\ UNCHANGED status
  /\ UNCHANGED <<mtrr, pages>>

Return ==
  /\ LoopEnds
  /\ IF Len(stack) = 1 THEN status' = "done" /\ UNCHANGED stack
     ELSE stack' = NextEntry(Caller) /\ UNCHANGED status
  /\ UNCHANGED <<mtrr, pages>>

Returned == status # "running" /\ UNCHANGED vars

Next == CommitPage \/ Descend \/ Return \/ Returned

Spec == Init /\ [][Next]_vars
-----------------------------------------------------------------------------
FramesOf(p) == p.base .. p.base + PageSize(p.level) - 1

Apart(p, q) == \/ p.base + PageSize(p.level) <= q.base
               \/ q.base + PageSize(q.level) <= p.base

New == pages' \ pages

(***************************************************************************)
(* The loops as a whole.  Each loop stands on the entry of its caller that *)
(* it was called for; the pages end where the entry of the innermost loop  *)
(* begins (Base), and leave out no frame below it.                         *)
(***************************************************************************)
Calls == [level : 1 .. 4, start : Nat, i : 0 .. Entries]

LoopsNest ==
  /\ stack \in Seq(Calls) /\ Len(stack) \in 1 .. 4
  /\ stack[1].start = 0
  /\ \A k \in 1 .. Len(stack) : stack[k].level = 5 - k
  /\ \A k \in 1 .. Len(stack) - 1 :
       /\ stack[k].i < Entries
       /\ stack[k + 1].start = stack[k].start + stack[k].i * EntrySize(5 - k)

PagesEndAtBase ==
  \A p \in pages : /\ p.base \in Nat /\ p.level \in 1 .. 3
                   /\ p.base + PageSize(p.level) <= Base

CoveredUpTo(end) ==
  \A frame \in 0 .. MaxFrame : frame < end => \E p \in pages : frame \in FramesOf(p)

IInv ==
  /\ LoopsNest
  /\ PagesEndAtBase
  /\ CoveredUpTo(Base)
  /\ status = "done" => Base > MaxFrame

(***************************************************************************)
(* "EPT uses identity map" (README.md): when the set-up has succeeded,     *)
(* every frame of physical memory is in a page (of                         *)
(* setup_ept_identity_map).                                                *)
(***************************************************************************)
EveryFrameMapped ==
  status = "done" => 0 .. MaxFrame \subseteq UNION {FramesOf(p) : p \in pages}

(***************************************************************************)
(* A page is committed where nothing has been committed yet: the set-up    *)
(* neither splits a page nor replaces one, and so never reaches the split  *)
(* of a 1-GiB page (of setup_ept_identity_map and dynamic_ept).            *)
(***************************************************************************)
NothingSplit == [][\A p \in New, q \in pages : Apart(p, q)]_vars

(***************************************************************************)
(* The type of a page is the one the processor has for each of its frames, *)
(* the fixed ranges from FixedLimit on left aside (of propose).            *)
(***************************************************************************)
TypesMatch ==
  [][\A p \in New : \A frame \in FramesOf(p) :
       \/ p.type \in TypesOf(mtrr, frame)
       \/ InFixedRange(mtrr, frame) /\ frame >= FixedLimit]_vars

(***************************************************************************)
(* No MTRR setting with ranges of whole frames makes the set-up fail: a    *)
(* 4-KiB page always has one type (of propose and setup_ept_identity_map). *)
(***************************************************************************)
NeverUnsuccessful == status # "unsuccessful"

(***************************************************************************)
(* "If the physical address falls within the first 1 MByte of physical     *)
(* memory and fixed MTRRs are enabled, the processor uses the memory type  *)
(* stored for the appropriate fixed-range MTRR" (memory_caching.cpp).      *)
(***************************************************************************)
FixedRangesUsed ==
  [][\A p \in New : \A frame \in FramesOf(p) :
       InFixedRange(mtrr, frame) => p.type \in TypesOf(mtrr, frame)]_vars
=============================================================================
