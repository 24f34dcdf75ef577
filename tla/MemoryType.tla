----------------------------- MODULE MemoryType -----------------------------
(***************************************************************************)
(* memory_type_t::propose (memory_caching.cpp): the memory type for a      *)
(* region of physical memory, from the MTRRs; "reserved" if the region has *)
(* no single one.  Addresses are frame numbers: no region is smaller than  *)
(* a 4-KiB page.                                                           *)
(***************************************************************************)
EXTENDS Naturals, FiniteSets, Sequences

CONSTANTS
  Width,          \* bits of a frame number
  PhysicalBits,   \* bits of one that the processor has (MAXPHYADDR)
  Fixed,          \* the fixed ranges, as runs of [size, count]: 16 * 8, 4 * 16, 1 * 64
  FixedLimit      \* bases below it use the fixed ranges: 0x10000 is frame 16

ASSUME WidthAssumption == Width \in Nat /\ PhysicalBits \in 1 .. Width

INSTANCE MaskRegion WITH Bits <- 0 .. Width - 1

Seqs == INSTANCE SequencesExt

Types == {"UC", "WC", "WT", "WP", "WB"}

Pow2[i \in 0 .. Width] == IF i = 0 THEN 1 ELSE 2 * Pow2[i - 1]

MaxFrame == Pow2[PhysicalBits] - 1      \* get_max_physical_address

BitsOf(frame) == {i \in 0 .. Width - 1 : (frame \div Pow2[i]) % 2 = 1}

Aligned(base, size) == [base |-> BitsOf(base), mask |-> (0 .. Width - 1) \ BitsOf(size - 1)]

(***************************************************************************)
(* The fixed ranges in the order of the loops, each with its base.         *)
(***************************************************************************)
FixedSizes == Seqs!FlattenSeq([r \in DOMAIN Fixed |-> [i \in 1 .. Fixed[r].count |-> Fixed[r].size]])

FixedBase(i) == Seqs!FoldLeft(+, 0, SubSeq(FixedSizes, 1, i - 1))

FixedRegions ==
  [i \in DOMAIN FixedSizes |-> Aligned(FixedBase(i), FixedSizes[i])]

FixedEnd == Seqs!FoldLeft(+, 0, FixedSizes)      \* 1 MiB

ASSUME FixedAssumption ==      \* the fixed ranges are the frames below FixedEnd
  /\ FixedLimit \in 0 .. FixedEnd /\ FixedEnd \in Nat
  /\ \A frame \in 0 .. Pow2[Width] - 1 :
       frame < FixedEnd <=> \E i \in DOMAIN FixedRegions :
                              ContainsValue(FixedRegions[i], BitsOf(frame))

(***************************************************************************)
(* An MTRR setting: whether CPUID has the feature, the two enable bits,    *)
(* the default type, the types of the fixed ranges and the variable        *)
(* ranges.                                                                 *)
(***************************************************************************)
VariableRanges == [valid : BOOLEAN, type : Types, base : Numbers, mask : Numbers]

Mtrrs == [feature : BOOLEAN, enabled : BOOLEAN, fixed_enabled : BOOLEAN,
          fixed : [DOMAIN FixedRegions -> Types], default : Types, variable : Seq(VariableRanges)]

VariableRegion(v) ==
  [base |-> v.base, mask |-> v.mask \cup PhysicalBits .. Width - 1]

ProposeFixed(mtrr, region) ==
  LET holders == {i \in DOMAIN FixedRegions : Contains(FixedRegions[i], region)}
  IN  IF holders = {} THEN "reserved" ELSE mtrr.fixed[CHOOSE i \in holders : TRUE]

(***************************************************************************)
(* One turn of the loop over the variable ranges.                          *)
(***************************************************************************)
StepWithoutWriteThrough(region, acc, v) ==      \* mutant: write-back replaces write-through
  LET r == VariableRegion(v)
  IN  CASE acc.returned \/ ~v.valid \/ Disjoints(r, region) -> acc
        [] OTHER -> IF Contains(r, region) THEN [type |-> v.type, returned |-> v.type = "UC"]
                    ELSE [type |-> "reserved", returned |-> TRUE]

Step(region, acc, v) ==
  LET r == VariableRegion(v)
  IN  IF acc.returned \/ ~v.valid \/ Disjoints(r, region) THEN acc
      ELSE IF ~Contains(r, region) THEN [type |-> "reserved", returned |-> TRUE]
      ELSE IF v.type = "WB" /\ acc.type \in {"WT", "WB"} THEN acc
      ELSE [type |-> v.type, returned |-> v.type = "UC"]

Turns(ranges, region) ==      \* the candidate after each turn
  LET after[i \in 0 .. Len(ranges)] ==
        IF i = 0 THEN [type |-> "reserved", returned |-> FALSE]
        ELSE Step(region, after[i - 1], ranges[i])
  IN  after

ProposeVariable(mtrr, region) ==
  LET acc == Turns(mtrr.variable, region)[Len(mtrr.variable)]
  IN  IF ~acc.returned /\ acc.type = "reserved" THEN mtrr.default ELSE acc.type

Propose(mtrr, base, size) ==
  LET region == Aligned(base, size)
  IN  IF ~mtrr.feature \/ ~mtrr.enabled THEN "UC"
      ELSE IF mtrr.fixed_enabled /\ base < FixedLimit THEN ProposeFixed(mtrr, region)
      ELSE ProposeVariable(mtrr, region)
-----------------------------------------------------------------------------
(***************************************************************************)
(* The types the processor may use for a frame: the rules of the comment   *)
(* before propose().  An overlap they do not define leaves any.            *)
(***************************************************************************)
InFixedRange(mtrr, frame) ==
  mtrr.feature /\ mtrr.enabled /\ mtrr.fixed_enabled /\ frame < FixedEnd

VariableTypes(mtrr, frame) ==
  {v.type : v \in {w \in Seqs!ToSet(mtrr.variable) :
                     w.valid /\ ContainsValue(VariableRegion(w), BitsOf(frame))}}

TypesOf(mtrr, frame) ==
  LET matching == VariableTypes(mtrr, frame)
  IN  CASE ~mtrr.feature \/ ~mtrr.enabled -> {"UC"}
        [] InFixedRange(mtrr, frame) ->
             {mtrr.fixed[i] : i \in {j \in DOMAIN FixedRegions :
                                       ContainsValue(FixedRegions[j], BitsOf(frame))}}
        [] OTHER -> IF matching = {} THEN {mtrr.default}
                    ELSE IF "UC" \in matching THEN {"UC"}
                    ELSE IF matching = {"WT", "WB"} THEN {"WT"}
                    ELSE IF Cardinality(matching) = 1 THEN matching
                    ELSE Types
=============================================================================
