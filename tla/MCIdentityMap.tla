---------------------------- MODULE MCIdentityMap ----------------------------
(***************************************************************************)
(* Tables of 16 entries, two entries of level 3; half an entry of level 2  *)
(* has fixed ranges, as 1 MiB is half of 2 MiB.                            *)
(***************************************************************************)
EXTENDS IdentityMap

FixedRuns == <<[size |-> 2, count |-> 2], [size |-> 1, count |-> 4]>>

FixedTypes == <<"WB", "UC", "UC", "WP", "WB", "WB">>

Ranges ==      \* all memory, its upper half, pieces of a level-2 entry, one with a hole in the mask
  {Aligned(0, 512), Aligned(256, 256), Aligned(0, 64), Aligned(16, 16), Aligned(24, 8),
   [base |-> BitsOf(4), mask |-> BitsOf(1024 - 4 - 32)]}

Invalid == [valid |-> FALSE, type |-> "UC", base |-> {}, mask |-> {}]

Valid(r, t) ==
  [valid |-> TRUE, type |-> t, base |-> r.base, mask |-> r.mask \cap 0 .. PhysicalBits - 1]

Variable == {Invalid} \cup {Valid(r, t) : r \in Ranges, t \in {"UC", "WT", "WB"}}

Nested ==      \* three ranges, each in the one before it
  {<<Valid(Aligned(0, 512), t), Valid(Aligned(0, 64), u), Valid(Aligned(16, 16), v)>> :
     t \in {"UC", "WT", "WB"}, u \in {"UC", "WT", "WB"}, v \in {"UC", "WT", "WB"}}

Settings ==
  [feature : {TRUE}, enabled : {TRUE}, fixed_enabled : BOOLEAN, fixed : {FixedTypes},
   default : {"UC", "WB"}, variable : (Variable \X Variable) \cup Nested]
  \cup
  [feature : BOOLEAN, enabled : BOOLEAN, fixed_enabled : {TRUE}, fixed : {FixedTypes},
   default : {"WB"}, variable : {<<Invalid, Invalid>>}]

Few == {s \in Settings : s.default = "WB" /\ s.variable[1].type = "UC"}
=============================================================================
