----------------------------- MODULE MaskRegion -----------------------------
(***************************************************************************)
(* mask_region_t (utility.hpp): the numbers that agree with base on the    *)
(* bits of mask.  A number is the set of its bits, so that & is \cap, | is *)
(* \cup and ~ is the complement in Bits.                                   *)
(***************************************************************************)
CONSTANT Bits      \* the bit positions of the integer type

Numbers == SUBSET Bits

Regions == [base : Numbers, mask : Numbers]

(***************************************************************************)
(* contains(value), and the region as the set of its members.              *)
(***************************************************************************)
ContainsValue(r, value) == r.base \cap r.mask = value \cap r.mask

Members(r) == {value \in Numbers : ContainsValue(r, value)}

(***************************************************************************)
(* contains(other), disjoints(other) and intersects(other).                *)
(***************************************************************************)
AgreeOn(r, s, mask) == r.base \cap mask = s.base \cap mask

ContainsWiderMask(r, s) ==      \* mutant: the masks are compared the wrong way round
  AgreeOn(r, s, r.mask \cap s.mask) /\ r.mask \cup s.mask = r.mask

Contains(r, s) == AgreeOn(r, s, r.mask \cap s.mask) /\ r.mask \cup s.mask = s.mask

Disjoints(r, s) == ~AgreeOn(r, s, r.mask \cap s.mask)

Intersects(r, s) == AgreeOn(r, s, r.mask \cap s.mask)
-----------------------------------------------------------------------------
(***************************************************************************)
(* "return true iff any address that is contained by `other` region is     *)
(* also contained by `this` region" (of contains).                         *)
(***************************************************************************)
ContainsIsInclusion(r, s) == Contains(r, s) <=> Members(s) \subseteq Members(r)

(***************************************************************************)
(* "return true iff any address that is contained by `other` region is NOT *)
(* contained by `this` region", and the contrary (of disjoints and         *)
(* intersects).                                                            *)
(***************************************************************************)
DisjointsIsDisjointness(r, s) ==
  /\ Disjoints(r, s) <=> Members(r) \cap Members(s) = {}
  /\ Intersects(r, s) <=> Members(r) \cap Members(s) # {}
=============================================================================
