---------------------------- MODULE MCDynamicEpt ----------------------------
(***************************************************************************)
(* A small instance of EptStores: two entries per table, four nodes, guest *)
(* addresses chosen so that pages of all three sizes nest.                 *)
(***************************************************************************)
EXTENDS EptStores, TLC

(***************************************************************************)
(* The address with these digits, the offset last.                         *)
(***************************************************************************)
At(i4, i3, i2, i1, offset) ==
  [k \in 0 .. 4 |->
     CASE k = 4 -> i4 [] k = 3 -> i3 [] k = 2 -> i2 [] k = 1 -> i1 [] k = 0 -> offset]

(***************************************************************************)
(* An address that is aligned for pages of all three sizes, and one under  *)
(* another level-2 table that is not aligned for 1 GiB.                    *)
(***************************************************************************)
TwoTablesGuests == {At(0, 1, 0, 0, 0), At(0, 0, 1, 0, 0)}

OneHost == {At(0, 0, 0, 0, 0)}

(***************************************************************************)
(* Attributes whose execute right a split grants or takes away, and the    *)
(* attributes commit_page refuses.                                         *)
(***************************************************************************)
ReadWrite == [read |-> TRUE, write |-> TRUE, execute |-> FALSE, mt |-> "wb"]
ExecuteOnly == [read |-> FALSE, write |-> FALSE, execute |-> TRUE, mt |-> "wb"]
NoRights == [read |-> FALSE, write |-> FALSE, execute |-> FALSE, mt |-> "wb"]

SplitChangesFlags == {ReadWrite, ExecuteOnly, NoRights}
ReadWriteOnly == {ReadWrite}

AllOutcomes == {"intended", "other_case", "stops"}
DefinedOutcomes == {"intended", "stops"}

NodeSymmetry == Permutations(Nodes)
=============================================================================
