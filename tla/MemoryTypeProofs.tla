-------------------------- MODULE MemoryTypeProofs --------------------------
(***************************************************************************)
(* Proofs about MemoryType.  The three tests of mask_region_t mean what    *)
(* their comments say, for an integer type of any width and for masks with *)
(* holes; the type that propose answers with for a page is one that each   *)
(* frame of the page has, for any number of variable ranges; and a page of *)
(* one frame always has a type.                                            *)
(***************************************************************************)
EXTENDS MemoryType, WellFoundedInduction, SequenceTheorems, TLAPS

(***************************************************************************)
(* A number with one bit changed outside the mask stays in the region; so  *)
(* a region that includes another one cares for no other bits.             *)
(***************************************************************************)
Flipped(number, bit) == IF bit \in number THEN number \ {bit} ELSE number \cup {bit}

LEMMA FlippedOutsideMask ==
  ASSUME NEW s \in Regions, NEW bit \in 0 .. Width - 1, bit \notin s.mask
  PROVE  Flipped(s.base, bit) \in Members(s)
BY DEF Regions, Numbers, Members, ContainsValue, Flipped

(***************************************************************************)
(* contains(other) is inclusion of the sets of members.                    *)
(***************************************************************************)
THEOREM Inclusion ==
  ASSUME NEW r \in Regions, NEW s \in Regions
  PROVE  ContainsIsInclusion(r, s)
<1>1. ASSUME Contains(r, s)
      PROVE  Members(s) \subseteq Members(r)
  <2>1. r.mask \subseteq s.mask
    BY <1>1 DEF Contains
  <2>2. r.base \cap r.mask = s.base \cap r.mask
    BY <1>1, <2>1 DEF Contains, AgreeOn
  <2> SUFFICES ASSUME NEW value \in Members(s)
               PROVE  value \in Members(r)
    OBVIOUS
  <2>3. s.base \cap r.mask = value \cap r.mask
    BY <2>1 DEF Members, ContainsValue
  <2> QED
    BY <2>2, <2>3 DEF Members, ContainsValue
<1>2. ASSUME Members(s) \subseteq Members(r)
      PROVE  Contains(r, s)
  <2>1. s.base \in Members(r)
    BY <1>2 DEF Members, ContainsValue, Regions
  <2>2. AgreeOn(r, s, r.mask \cap s.mask)
    BY <2>1 DEF Members, ContainsValue, AgreeOn
  <2>3. ASSUME NEW bit \in r.mask, bit \notin s.mask
        PROVE  FALSE
    <3>1. bit \in 0 .. Width - 1
      BY DEF Regions, Numbers
    <3>2. Flipped(s.base, bit) \in Members(r)
      BY <1>2, <2>3, <3>1, FlippedOutsideMask
    <3>3. bit \in Flipped(s.base, bit) <=> bit \notin s.base
      BY DEF Flipped
    <3> QED
      BY <2>1, <3>2, <3>3 DEF Members, ContainsValue
  <2> QED
    BY <2>2, <2>3 DEF Contains
<1> QED
  BY <1>1, <1>2 DEF ContainsIsInclusion

(***************************************************************************)
(* Regions that agree where both masks say something have a member in      *)
(* common: the bits either of them fixes.                                  *)
(***************************************************************************)
THEOREM Disjointness ==
  ASSUME NEW r \in Regions, NEW s \in Regions
  PROVE  DisjointsIsDisjointness(r, s)
<1> DEFINE common == (r.base \cap r.mask) \cup (s.base \cap s.mask)
<1>1. ASSUME Intersects(r, s)
      PROVE  common \in Members(r) \cap Members(s)
  <2>1. common \in Numbers
    BY DEF Regions, Numbers
  <2>2. \A bit \in r.mask \cap s.mask : bit \in r.base <=> bit \in s.base
    BY <1>1 DEF Intersects, AgreeOn
  <2>3. ContainsValue(r, common) /\ ContainsValue(s, common)
    BY <2>2 DEF ContainsValue
  <2> QED
    BY <2>1, <2>3 DEF Members
<1>2. ASSUME NEW value \in Members(r) \cap Members(s)
      PROVE  Intersects(r, s)
  BY DEF Members, ContainsValue, Intersects, AgreeOn
<1>3. Disjoints(r, s) <=> ~Intersects(r, s)
  BY DEF Disjoints, Intersects
<1> QED
  BY <1>1, <1>2, <1>3 DEF DisjointsIsDisjointness
-----------------------------------------------------------------------------
(***************************************************************************)
(* The least number principle, from the well-foundedness of < on Nat; by it *)
(* what holds of 0, and of i + 1 where it holds of i, holds up to N.       *)
(***************************************************************************)
LEMMA LeastNumber ==
  ASSUME NEW T \in SUBSET Nat, T # {}
  PROVE  \E n \in T : \A m \in T : n <= m
<1>1. PICK n \in T : \A m \in T : <<m, n>> \notin OpToRel(<, Nat)
  BY WFMin, NatLessThanWellFounded, Zenon
<1>2. \A m \in T : ~(m < n)
  BY <1>1, Zenon DEF OpToRel
<1>. QED
  BY <1>2

LEMMA UpTo ==
  ASSUME NEW N \in Nat, NEW S, 0 \in S, \A i \in 0 .. N - 1 : i \in S => i + 1 \in S
  PROVE  \A i \in 0 .. N : i \in S
<1> SUFFICES ASSUME NEW j \in 0 .. N, j \notin S PROVE FALSE
  OBVIOUS
<1> DEFINE T == {i \in 0 .. N : i \notin S}
<1>1. T \in SUBSET Nat /\ T # {}
  OBVIOUS
<1> HIDE DEF T
<1>2. PICK n \in T : \A m \in T : n <= m
  BY <1>1, LeastNumber
<1>3. n # 0 /\ n - 1 \in S
  BY <1>2 DEF T
<1>. QED
  BY <1>2, <1>3 DEF T

(***************************************************************************)
(* A function that is iterated step by step exists, so that a recursive    *)
(* definition over 0 .. N has the values that its equation says.           *)
(***************************************************************************)
Iterates(f, n, start, step) ==
  f[0] = start /\ \A i \in 1 .. n : f[i] = step[i][f[i - 1]]

LEMMA Recursion ==
  ASSUME NEW N \in Nat, NEW A, NEW start \in A, NEW step \in [1 .. N -> [A -> A]]
  PROVE  \E f \in [0 .. N -> A] : Iterates(f, N, start, step)
<1> DEFINE Good(n) == \E f \in [0 .. n -> A] : Iterates(f, n, start, step)
           S == {n \in 0 .. N : Good(n)}
<1>1. Good(0)
  <2> DEFINE f == [i \in 0 .. 0 |-> start]
  <2>1. f \in [0 .. 0 -> A] /\ Iterates(f, 0, start, step)
    BY DEF Iterates
  <2>. QED
    BY <2>1
<1>2. ASSUME NEW n \in 0 .. N - 1, Good(n) PROVE Good(n + 1)
  <2>1. PICK f \in [0 .. n -> A] : Iterates(f, n, start, step)
    BY <1>2
  <2> DEFINE g == [i \in 0 .. n + 1 |-> IF i <= n THEN f[i] ELSE step[n + 1][f[n]]]
  <2>2. g \in [0 .. n + 1 -> A] /\ Iterates(g, n + 1, start, step)
    BY <2>1 DEF Iterates
  <2> HIDE DEF g
  <2>. QED
    BY <2>2
<1> HIDE DEF Good
<1>3. 0 \in S /\ \A n \in 0 .. N - 1 : n \in S => n + 1 \in S
  BY <1>1, <1>2
<1> HIDE DEF S
<1>4. \A i \in 0 .. N : i \in S
  BY <1>3, UpTo
<1>. QED
  BY <1>4 DEF S, Good

(***************************************************************************)
(* Pow2 is 2 to the power of its argument: positive, 1 at 0, doubled by    *)
(* each step, and the sum of two arguments gives the product.              *)
(***************************************************************************)
LEMMA Powers ==
  /\ \A i \in 0 .. Width : Pow2[i] \in Nat \ {0}
  /\ Pow2[0] = 1
  /\ \A i \in 1 .. Width : Pow2[i] = 2 * Pow2[i - 1]
<1> DEFINE N == Nat \ {0}
           Rec(g) == g = [i \in 0 .. Width |-> IF i = 0 THEN 1 ELSE 2 * g[i - 1]]
           step == [i \in 1 .. Width |-> [n \in N |-> 2 * n]]
           S == {i \in 0 .. Width : Pow2[i] \in N}
<1>0. Width \in Nat /\ 1 \in N
  BY WidthAssumption
<1>1. /\ step \in [1 .. Width -> [N -> N]]
      /\ \A i \in 1 .. Width, n \in N : step[i][n] = 2 * n
  OBVIOUS
<1> HIDE DEF step
<1>2. PICK f \in [0 .. Width -> N] : Iterates(f, Width, 1, step)
  BY <1>0, <1>1, Recursion
<1>3. Rec(f)
  <2>1. \A i \in 1 .. Width : i - 1 \in 0 .. Width
    BY <1>0
  <2>2. \A i \in 1 .. Width : f[i] = 2 * f[i - 1]
    BY <1>1, <1>2, <2>1 DEF Iterates
  <2>3. f[0] = 1
    BY <1>2 DEF Iterates
  <2>. QED
    BY <1>0, <2>2, <2>3
<1>4. Rec(Pow2)
  <2>1. \E g : Rec(g)
    BY <1>3
  <2> HIDE DEF Rec
  <2>2. Pow2 = CHOOSE g : Rec(g)
    BY DEF Pow2, Rec
  <2>. QED
    BY <2>1, <2>2
<1>5. Pow2[0] = 1 /\ \A i \in 1 .. Width : Pow2[i] = 2 * Pow2[i - 1]
  BY <1>0, <1>4
<1>6. 0 \in S /\ \A i \in 0 .. Width - 1 : i \in S => i + 1 \in S
  <2>1. ASSUME NEW i \in 0 .. Width - 1, Pow2[i] \in N PROVE Pow2[i + 1] \in N
    <3>1. i + 1 \in 1 .. Width /\ (i + 1) - 1 = i
      BY <1>0
    <3>2. Pow2[i + 1] = 2 * Pow2[i]
      BY <1>5, <3>1
    <3>. QED
      BY <2>1, <3>2
  <2>. QED
    BY <1>0, <1>5, <2>1
<1> HIDE DEF S
<1>7. \A i \in 0 .. Width : i \in S
  BY <1>0, <1>6, UpTo
<1>. QED
  BY <1>5, <1>7 DEF S

LEMMA PowerProduct ==
  ASSUME NEW k \in 0 .. Width, NEW j \in 0 .. Width - k
  PROVE  Pow2[k + j] = Pow2[k] * Pow2[j]
<1> DEFINE S == {i \in 0 .. Width - k : Pow2[k + i] = Pow2[k] * Pow2[i]}
<1>0. Width \in Nat /\ Width - k \in Nat
  BY WidthAssumption
<1>1. 0 \in S
  BY <1>0, Powers
<1>2. ASSUME NEW i \in 0 .. (Width - k) - 1, i \in S PROVE i + 1 \in S
  <2>1. i + 1 \in 1 .. Width /\ (i + 1) - 1 = i /\ k + (i + 1) \in 1 .. Width
        /\ (k + (i + 1)) - 1 = k + i
    BY <1>0
  <2>2. Pow2[i + 1] = 2 * Pow2[i] /\ Pow2[k + (i + 1)] = 2 * Pow2[k + i]
    BY <2>1, Powers
  <2>3. Pow2[k] \in Nat /\ Pow2[i] \in Nat
    BY <1>0, Powers
  <2>4. Pow2[k + i] = Pow2[k] * Pow2[i]
    BY <1>2
  <2>. QED
    BY <1>0, <2>2, <2>3, <2>4
<1> HIDE DEF S
<1>3. \A i \in 0 .. Width - k : i \in S
  BY <1>0, <1>1, <1>2, UpTo
<1>. QED
  BY <1>3 DEF S

LEMMA Quotient ==
  ASSUME NEW x \in Nat, NEW d \in Nat \ {0}, NEW a \in Nat, a * d <= x, x < a * d + d
  PROVE  x \div d = a
OBVIOUS
-----------------------------------------------------------------------------
(***************************************************************************)
(* Division by powers of two.                                              *)
(***************************************************************************)
LEMMA Times ==
  ASSUME NEW a \in Nat, NEW b \in Nat, NEW d \in Nat, a <= b
  PROVE  a * d \in Nat /\ a * d <= b * d /\ (a + 1) * d = a * d + d
OBVIOUS

LEMMA DivideTwice ==
  ASSUME NEW q \in Nat, NEW d \in Nat \ {0}, NEW e \in Nat \ {0}, NEW r \in 0 .. d - 1
  PROVE  (q * d + r) \div (d * e) = q \div e
<1> DEFINE a == q \div e
           c == q % e
           de == d * e
<1>1. a \in Nat /\ c \in 0 .. e - 1 /\ q = a * e + c
  OBVIOUS
<1> HIDE DEF a, c
<1>2. q * d = a * de + c * d
  BY <1>1
<1>3. c * d \in Nat /\ c * d + d <= e * d
  <2>1. c \in Nat /\ c + 1 \in Nat /\ c + 1 <= e
    BY <1>1
  <2>2. c * d \in Nat /\ (c + 1) * d <= e * d /\ (c + 1) * d = c * d + d
    BY <2>1, Times
  <2>. QED
    BY <2>2
<1>4. de \in Nat \ {0} /\ de = e * d
  OBVIOUS
<1>5. q * d + r \in Nat /\ a * de \in Nat
  BY <1>1, <1>4
<1> DEFINE x == q * d + r
<1>6. x \in Nat /\ a * de <= x /\ x < a * de + de
  BY <1>2, <1>3, <1>4, <1>5
<1> HIDE DEF x, de
<1>7. x \div de = a
  BY <1>1, <1>4, <1>6, Quotient
<1>. QED
  BY <1>7 DEF x, de, a

(***************************************************************************)
(* The bits that the mask of a page leaves out: those of the size less     *)
(* one.                                                                    *)
(***************************************************************************)
LEMMA LowBits ==
  ASSUME NEW k \in 0 .. Width, NEW i \in 0 .. k - 1
  PROVE  i \in BitsOf(Pow2[k] - 1)
<1> DEFINE low == Pow2[i]
           half == Pow2[k - i - 1]
<1>1. Width \in Nat /\ k \in Nat /\ i \in Nat
  BY WidthAssumption
<1>2. i \in 0 .. Width - 1 /\ k - i \in 0 .. Width - i /\ i \in 0 .. Width
  BY <1>1
<1>3. low \in Nat \ {0} /\ half \in Nat \ {0} /\ Pow2[k - i] = 2 * half
  <2>1. k - i \in 1 .. Width /\ k - i - 1 \in 0 .. Width
    BY <1>1
  <2>. QED
    BY <1>2, <2>1, Powers
<1>4. Pow2[k] = low * Pow2[k - i]
  <2>1. i + (k - i) = k
    BY <1>1
  <2>. QED
    BY <1>2, <2>1, PowerProduct
<1>5. Pow2[k] = 2 * half * low
  BY <1>3, <1>4
<1> HIDE DEF low, half
<1> DEFINE x == Pow2[k] - 1
           a == 2 * half - 1
<1>6. a \in Nat /\ a * low + low = Pow2[k]
  BY <1>3, <1>5
<1>7. x \in Nat /\ a * low \in Nat /\ a * low <= x /\ x < a * low + low
  BY <1>3, <1>6
<1> HIDE DEF x
<1>8. x \div low = a
  BY <1>3, <1>6, <1>7, Quotient
<1>9. a % 2 = 1
  BY <1>3
<1> HIDE DEF a
<1>10. (x \div low) % 2 = 1
  BY <1>8, <1>9
<1>. QED
  BY <1>2, <1>10 DEF BitsOf, x, low

LEMMA NoBits == BitsOf(0) = {}
<1> SUFFICES ASSUME NEW i \in 0 .. Width - 1 PROVE 0 \div Pow2[i] = 0
  BY DEF BitsOf
<1>1. Pow2[i] \in Nat \ {0}
  BY Powers, WidthAssumption
<1>. QED
  BY <1>1, Quotient

(***************************************************************************)
(* The region of a page holds each of its frames.                          *)
(***************************************************************************)
LEMMA PageRegion ==
  ASSUME NEW k \in 0 .. Width, NEW q \in Nat, NEW r \in 0 .. Pow2[k] - 1
  PROVE  ContainsValue(Aligned(q * Pow2[k], Pow2[k]), BitsOf(q * Pow2[k] + r))
<1> DEFINE base == q * Pow2[k]
           mask == (0 .. Width - 1) \ BitsOf(Pow2[k] - 1)
<1>0. Width \in Nat /\ Pow2[k] \in Nat \ {0} /\ 0 \in 0 .. Pow2[k] - 1
  BY Powers, WidthAssumption
<1>1. ASSUME NEW i \in mask
      PROVE  i \in BitsOf(base) <=> i \in BitsOf(base + r)
  <2>1. i \in 0 .. Width - 1 /\ i \notin 0 .. k - 1
    BY <1>1, LowBits
  <2>2. i - k \in 0 .. Width - k /\ k + (i - k) = i /\ i - k \in 0 .. Width
    BY <1>0, <2>1
  <2>3. Pow2[i] = Pow2[k] * Pow2[i - k] /\ Pow2[i - k] \in Nat \ {0}
    BY <2>2, PowerProduct, Powers
  <2>4. (base + r) \div Pow2[i] = q \div Pow2[i - k]
    BY <1>0, <2>3, DivideTwice
  <2>5. (base + 0) \div Pow2[i] = q \div Pow2[i - k]
    BY <1>0, <2>3, DivideTwice
  <2>6. base + 0 = base
    BY <1>0
  <2>. QED
    BY <2>1, <2>4, <2>5, <2>6 DEF BitsOf
<1> HIDE DEF base
<1>. QED
  BY <1>1 DEF ContainsValue, Aligned, base
-----------------------------------------------------------------------------
(***************************************************************************)
(* The loop over the variable ranges, turn by turn.                        *)
(***************************************************************************)
Candidates == [type : Types \cup {"reserved"}, returned : BOOLEAN]

LEMMA StepIsCandidate ==
  ASSUME NEW acc \in Candidates, NEW v \in VariableRanges, NEW region
  PROVE  Step(region, acc, v) \in Candidates
<1> v.type \in Types
  BY DEF VariableRanges
<1>. QED
  BY DEF Step, Candidates

LEMMA TurnByTurn ==
  ASSUME NEW ranges \in Seq(VariableRanges), NEW region
  PROVE  /\ Turns(ranges, region) \in [0 .. Len(ranges) -> Candidates]
         /\ Turns(ranges, region)[0] = [type |-> "reserved", returned |-> FALSE]
         /\ \A i \in 1 .. Len(ranges) :
              Turns(ranges, region)[i] = Step(region, Turns(ranges, region)[i - 1], ranges[i])
<1> DEFINE start == [type |-> "reserved", returned |-> FALSE]
           step == [i \in 1 .. Len(ranges) |-> [acc \in Candidates |-> Step(region, acc, ranges[i])]]
           n == Len(ranges)
           Rec(g) == g = [i \in 0 .. n |-> IF i = 0 THEN start
                                           ELSE Step(region, g[i - 1], ranges[i])]
           turns == Turns(ranges, region)
<1>0. n \in Nat /\ start \in Candidates /\ \A i \in 1 .. n : ranges[i] \in VariableRanges
  BY DEF Candidates
<1>1. /\ step \in [1 .. n -> [Candidates -> Candidates]]
      /\ \A i \in 1 .. n, acc \in Candidates : step[i][acc] = Step(region, acc, ranges[i])
  BY <1>0, StepIsCandidate
<1> HIDE DEF step
<1>2. PICK f \in [0 .. n -> Candidates] : Iterates(f, n, start, step)
  BY <1>0, <1>1, Recursion
<1>3. Rec(f)
  <2>1. \A i \in 1 .. n : i - 1 \in 0 .. n
    BY <1>0
  <2>2. \A i \in 1 .. n : f[i] = Step(region, f[i - 1], ranges[i])
    BY <1>1, <1>2, <2>1 DEF Iterates
  <2>3. f[0] = start
    BY <1>2 DEF Iterates
  <2>. QED
    BY <1>0, <2>2, <2>3
<1>4. Rec(turns)
  <2>1. \E g : Rec(g)
    BY <1>3
  <2> HIDE DEF Rec
  <2>2. turns = CHOOSE g : Rec(g)
    BY DEF Turns, Rec
  <2>. QED
    BY <2>1, <2>2
<1> HIDE DEF turns, start
<1>5. turns[0] = start /\ \A i \in 1 .. n : turns[i] = Step(region, turns[i - 1], ranges[i])
  <2>1. \A i \in 0 .. n : turns[i] = IF i = 0 THEN start ELSE Step(region, turns[i - 1], ranges[i])
    BY <1>4, Zenon
  <2>2. 0 \in 0 .. n /\ \A i \in 1 .. n : i \in 0 .. n /\ i # 0
    BY <1>0
  <2>. QED
    BY <2>1, <2>2, Zenon
<1> DEFINE S == {i \in 0 .. n : turns[i] \in Candidates}
<1>6. 0 \in S /\ \A i \in 0 .. n - 1 : i \in S => i + 1 \in S
  <2>1. ASSUME NEW i \in 0 .. n - 1, turns[i] \in Candidates PROVE turns[i + 1] \in Candidates
    <3>1. i + 1 \in 1 .. n /\ (i + 1) - 1 = i
      BY <1>0
    <3>2. turns[i + 1] = Step(region, turns[i], ranges[i + 1])
      BY <1>5, <3>1
    <3>. QED
      BY <1>0, <2>1, <3>1, <3>2, StepIsCandidate
  <2>. QED
    BY <1>0, <1>5, <2>1
<1> HIDE DEF S
<1>7. \A i \in 0 .. n : i \in S
  BY <1>0, <1>6, UpTo
<1>8. turns \in [0 .. n -> Candidates]
  BY <1>4, <1>7 DEF S
<1>. QED
  BY <1>5, <1>8 DEF turns, start
-----------------------------------------------------------------------------
(***************************************************************************)
(* What the loop has found out about a frame of the region when it has     *)
(* seen the ranges that hold it: the candidate is the type the rules give, *)
(* or the loop has ended, with UC or because the region has no one type.   *)
(***************************************************************************)
Decides(acc, seen) ==
  IF acc.returned THEN acc.type # "reserved" => acc.type = "UC" /\ "UC" \in seen
  ELSE /\ "UC" \notin seen
       /\ acc.type = "reserved" <=> seen = {}
       /\ acc.type # "reserved" => acc.type \in seen
       /\ "WT" \in seen /\ seen \subseteq {"WT", "WB"} => acc.type = "WT"

(***************************************************************************)
(* A range that is apart from a region holds no number of it, and one that *)
(* contains the region holds them all.                                     *)
(***************************************************************************)
LEMMA RegionsOfOneFrame ==
  ASSUME NEW r, NEW region, NEW value, ContainsValue(region, value)
  PROVE  /\ Disjoints(r, region) => ~ContainsValue(r, value)
         /\ Contains(r, region) => ContainsValue(r, value)
<1>1. region.base \cap region.mask = value \cap region.mask
  BY DEF ContainsValue
<1>2. ASSUME ContainsValue(r, value) PROVE ~Disjoints(r, region)
  BY <1>1, <1>2 DEF ContainsValue, Disjoints, AgreeOn
<1>3. ASSUME Contains(r, region) PROVE ContainsValue(r, value)
  <2>1. r.mask \subseteq region.mask
    BY <1>3 DEF Contains
  <2>2. r.base \cap (r.mask \cap region.mask) = region.base \cap (r.mask \cap region.mask)
    BY <1>3 DEF Contains, AgreeOn
  <2>. QED
    BY <1>1, <2>1, <2>2 DEF ContainsValue
<1>. QED
  BY <1>2, <1>3

(***************************************************************************)
(* One turn, with a range that holds the frame or does not.                *)
(***************************************************************************)
LEMMA StepDecides ==
  ASSUME NEW acc \in Candidates, NEW v \in VariableRanges, NEW region, NEW value,
         ContainsValue(region, value), NEW seen \in SUBSET Types, Decides(acc, seen)
  PROVE  Decides(Step(region, acc, v),
                 IF v.valid /\ ContainsValue(VariableRegion(v), value)
                 THEN seen \cup {v.type} ELSE seen)
<1> DEFINE r == VariableRegion(v)
           holds == v.valid /\ ContainsValue(r, value)
           now == IF holds THEN seen \cup {v.type} ELSE seen
<1>1. v.type \in Types /\ v.valid \in BOOLEAN
  BY DEF VariableRanges
<1>2. /\ Disjoints(r, region) => ~ContainsValue(r, value)
      /\ Contains(r, region) => ContainsValue(r, value)
  BY RegionsOfOneFrame
<1>3. CASE acc.returned
  BY <1>3 DEF Step, Decides
<1>4. CASE ~acc.returned /\ (~v.valid \/ Disjoints(r, region))
  BY <1>2, <1>4 DEF Step
<1>5. CASE ~acc.returned /\ v.valid /\ ~Disjoints(r, region) /\ ~Contains(r, region)
  BY <1>5 DEF Step, Decides
<1>6. CASE ~acc.returned /\ v.valid /\ ~Disjoints(r, region) /\ Contains(r, region)
  <2>1. now = seen \cup {v.type}
    BY <1>2, <1>6
  <2> HIDE DEF now
  <2>2. CASE v.type = "WB" /\ acc.type \in {"WT", "WB"}
    <3>1. Step(region, acc, v) = acc
      BY <1>6, <2>2 DEF Step
    <3>2. Decides(acc, now)
      BY <1>6, <2>1, <2>2 DEF Decides
    <3>. QED
      BY <3>1, <3>2 DEF now
  <2>3. CASE ~(v.type = "WB" /\ acc.type \in {"WT", "WB"})
    <3> DEFINE next == [type |-> v.type, returned |-> v.type = "UC"]
    <3>1. Step(region, acc, v) = next
      BY <1>6, <2>3 DEF Step
    <3>2. CASE v.type = "UC"
      <4>1. next.returned /\ next.type = "UC" /\ "UC" \in now
        BY <2>1, <3>2
      <4>2. Decides(next, now)
        BY <4>1 DEF Decides
      <4>. QED
        BY <3>1, <4>2 DEF now
    <3>3. CASE v.type # "UC"
      <4>1. "UC" \notin now /\ now # {} /\ v.type # "reserved" /\ v.type \in now
        BY <1>1, <1>6, <2>1, <3>3 DEF Decides, Types
      <4>2. ASSUME "WT" \in now, now \subseteq {"WT", "WB"} PROVE v.type = "WT"
        BY <1>1, <1>6, <2>1, <2>3, <4>2 DEF Decides, Types
      <4>3. Decides(next, now)
        BY <3>3, <4>1, <4>2 DEF Decides
      <4>. QED
        BY <3>1, <4>3 DEF now
    <3>. QED
      BY <3>2, <3>3
  <2>. QED
    BY <2>2, <2>3
<1>. QED
  BY <1>1, <1>3, <1>4, <1>5, <1>6

(***************************************************************************)
(* The types of the first i valid ranges that hold value; the loop ends with *)
(* those of all ranges.                                                    *)
(***************************************************************************)
Seen(ranges, i, value) ==
  {ranges[j].type : j \in {m \in 1 .. i : /\ ranges[m].valid
                                          /\ ContainsValue(VariableRegion(ranges[m]), value)}}

LEMMA TurnsDecide ==
  ASSUME NEW ranges \in Seq(VariableRanges), NEW region, NEW value, ContainsValue(region, value)
  PROVE  Decides(Turns(ranges, region)[Len(ranges)], Seen(ranges, Len(ranges), value))
<1> DEFINE n == Len(ranges)
           turns == Turns(ranges, region)
           S == {i \in 0 .. n : Decides(turns[i], Seen(ranges, i, value))}
<1>0. n \in Nat /\ \A i \in 1 .. n : ranges[i] \in VariableRanges
  OBVIOUS
<1>1. /\ turns \in [0 .. n -> Candidates]
      /\ turns[0] = [type |-> "reserved", returned |-> FALSE]
      /\ \A i \in 1 .. n : turns[i] = Step(region, turns[i - 1], ranges[i])
  BY TurnByTurn
<1>2. 0 \in S
  <2>1. Seen(ranges, 0, value) = {}
    BY DEF Seen
  <2>. QED
    BY <1>0, <1>1, <2>1 DEF Decides
<1>3. ASSUME NEW i \in 0 .. n - 1, i \in S PROVE i + 1 \in S
  <2> DEFINE v == ranges[i + 1]
             seen == Seen(ranges, i, value)
  <2>1. i + 1 \in 1 .. n /\ i \in 0 .. n /\ (i + 1) - 1 = i
    BY <1>0
  <2>2. v \in VariableRanges /\ turns[i + 1] = Step(region, turns[i], v) /\ turns[i] \in Candidates
    BY <1>0, <1>1, <2>1
  <2>3. seen \subseteq Types
    BY <1>0, <2>1 DEF Seen, VariableRanges
  <2>4. Seen(ranges, i + 1, value) = IF v.valid /\ ContainsValue(VariableRegion(v), value)
                                     THEN seen \cup {v.type} ELSE seen
    <3>1. 1 .. i + 1 = (1 .. i) \cup {i + 1}
      BY <2>1
    <3>. QED
      BY <3>1, Zenon DEF Seen
  <2>5. Decides(turns[i], seen)
    BY <1>3
  <2> HIDE DEF turns, seen, v
  <2>6. Decides(turns[i + 1], Seen(ranges, i + 1, value))
    BY <2>2, <2>3, <2>4, <2>5, StepDecides
  <2>. QED
    BY <2>1, <2>6
<1> HIDE DEF S
<1>4. \A i \in 0 .. n : i \in S
  BY <1>0, <1>2, <1>3, UpTo
<1>. QED
  BY <1>0, <1>4 DEF S
-----------------------------------------------------------------------------
(***************************************************************************)
(* The answers for a region from its fixed range and from its variable     *)
(* ones, for each frame of the region.                                     *)
(***************************************************************************)
LEMMA MtrrFields ==
  ASSUME NEW mtrr \in Mtrrs
  PROVE  /\ mtrr.default \in Types /\ mtrr.variable \in Seq(VariableRanges)
         /\ mtrr.fixed \in [DOMAIN FixedRegions -> Types]
         /\ mtrr.feature \in BOOLEAN /\ mtrr.enabled \in BOOLEAN /\ mtrr.fixed_enabled \in BOOLEAN
BY DEF Mtrrs

LEMMA VariableAnswer ==
  ASSUME NEW mtrr \in Mtrrs, NEW region, NEW frame, ContainsValue(region, BitsOf(frame)),
         mtrr.feature, mtrr.enabled, ~InFixedRange(mtrr, frame),
         ProposeVariable(mtrr, region) # "reserved"
  PROVE  ProposeVariable(mtrr, region) \in TypesOf(mtrr, frame)
<1> DEFINE ranges == mtrr.variable
           acc == Turns(ranges, region)[Len(ranges)]
           seen == Seen(ranges, Len(ranges), BitsOf(frame))
           type == ProposeVariable(mtrr, region)
<1>0. ranges \in Seq(VariableRanges) /\ Len(ranges) \in Nat /\ mtrr.default \in Types
  BY MtrrFields
<1>1. Decides(acc, seen)
  BY <1>0, TurnsDecide
<1>2. VariableTypes(mtrr, frame) = seen
  <2>1. Seqs!ToSet(ranges) = {ranges[i] : i \in 1 .. Len(ranges)}
    BY <1>0 DEF Seqs!ToSet
  <2>. QED
    BY <2>1 DEF VariableTypes, Seen
<1>3. seen \subseteq Types
  <2>1. \A i \in 1 .. Len(ranges) : ranges[i] \in VariableRanges
    BY <1>0
  <2>. QED
    BY <2>1 DEF Seen, VariableRanges
<1>4. type = IF ~acc.returned /\ acc.type = "reserved" THEN mtrr.default ELSE acc.type
  BY DEF ProposeVariable
<1>5. TypesOf(mtrr, frame) =
        IF seen = {} THEN {mtrr.default}
        ELSE IF "UC" \in seen THEN {"UC"}
        ELSE IF seen = {"WT", "WB"} THEN {"WT"}
        ELSE IF Cardinality(seen) = 1 THEN seen
        ELSE Types
  BY <1>2, Zenon DEF TypesOf
<1> HIDE DEF acc, seen, type
<1>6. type # "reserved"
  BY DEF type
<1>7. CASE acc.returned
  BY <1>1, <1>4, <1>5, <1>6, <1>7 DEF Decides, type
<1>8. CASE ~acc.returned /\ seen = {}
  BY <1>1, <1>4, <1>5, <1>8 DEF Decides, type
<1>9. CASE ~acc.returned /\ seen # {}
  <2>1. type = acc.type /\ type \in seen /\ "UC" \notin seen /\ seen = {"WT", "WB"} => type = "WT"
    BY <1>1, <1>4, <1>9 DEF Decides
  <2>2. acc.type # "reserved"
    BY <1>1, <1>9 DEF Decides
  <2>3. type = acc.type /\ type \in seen /\ "UC" \notin seen
    BY <1>1, <1>4, <1>9, <2>2 DEF Decides
  <2>4. seen = {"WT", "WB"} => type = "WT"
    BY <1>1, <1>9, <2>3 DEF Decides
  <2>. QED
    BY <1>3, <1>5, <1>9, <2>3, <2>4 DEF type
<1>. QED
  BY <1>7, <1>8, <1>9

LEMMA FixedAnswer ==
  ASSUME NEW mtrr \in Mtrrs, NEW region, NEW frame, ContainsValue(region, BitsOf(frame)),
         mtrr.feature, mtrr.enabled, InFixedRange(mtrr, frame),
         ProposeFixed(mtrr, region) # "reserved"
  PROVE  ProposeFixed(mtrr, region) \in TypesOf(mtrr, frame)
<1> DEFINE holders == {i \in DOMAIN FixedRegions : Contains(FixedRegions[i], region)}
<1>1. PICK i \in holders : ProposeFixed(mtrr, region) = mtrr.fixed[i]
  BY Zenon DEF ProposeFixed
<1>2. ContainsValue(FixedRegions[i], BitsOf(frame))
  BY RegionsOfOneFrame
<1>3. TypesOf(mtrr, frame) =
        {mtrr.fixed[j] : j \in {j \in DOMAIN FixedRegions :
                                  ContainsValue(FixedRegions[j], BitsOf(frame))}}
  BY Zenon DEF TypesOf
<1>. QED
  BY <1>1, <1>2, <1>3

(***************************************************************************)
(* The answer to propose for a page of any power of two is a type that     *)
(* each frame of the page has by the rules of its comment, in the fixed    *)
(* ranges only below FixedLimit.                                           *)
(***************************************************************************)
THEOREM ProposedTypeHolds ==
  ASSUME NEW mtrr \in Mtrrs, NEW k \in 0 .. Width, NEW q \in Nat,
         (q + 1) * Pow2[k] <= Pow2[Width],
         NEW frame \in q * Pow2[k] .. q * Pow2[k] + Pow2[k] - 1,
         Propose(mtrr, q * Pow2[k], Pow2[k]) # "reserved"
  PROVE  \/ Propose(mtrr, q * Pow2[k], Pow2[k]) \in TypesOf(mtrr, frame)
         \/ InFixedRange(mtrr, frame) /\ frame >= FixedLimit
<1> DEFINE base == q * Pow2[k]
           region == Aligned(base, Pow2[k])
           type == Propose(mtrr, base, Pow2[k])
<1>0. Width \in Nat /\ Pow2[k] \in Nat \ {0} /\ Pow2[Width] \in Nat \ {0}
  BY WidthAssumption, Powers
<1>1. base \in Nat /\ (q + 1) * Pow2[k] = base + Pow2[k]
  <2>1. \A d \in Nat : q * d \in Nat /\ (q + 1) * d = q * d + d
    BY Times
  <2>. QED
    BY <1>0, <2>1
<1>2. frame - base \in 0 .. Pow2[k] - 1 /\ base + (frame - base) = frame
  <2> HIDE DEF base
  <2>1. frame \in base .. base + Pow2[k] - 1
    BY DEF base
  <2>. QED
    BY <1>0, <1>1, <2>1
<1>3. frame \in 0 .. Pow2[Width] - 1 /\ frame >= base
  <2>1. base + Pow2[k] <= Pow2[Width] /\ frame \in base .. base + Pow2[k] - 1
    BY <1>1
  <2> HIDE DEF base
  <2>. QED
    BY <1>0, <1>1, <2>1
<1>4. ContainsValue(region, BitsOf(frame))
  BY <1>2, PageRegion
<1>5. /\ mtrr.feature \in BOOLEAN /\ mtrr.enabled \in BOOLEAN /\ mtrr.fixed_enabled \in BOOLEAN
  BY MtrrFields
<1>6. type = IF ~mtrr.feature \/ ~mtrr.enabled THEN "UC"
             ELSE IF mtrr.fixed_enabled /\ base < FixedLimit THEN ProposeFixed(mtrr, region)
             ELSE ProposeVariable(mtrr, region)
  BY DEF Propose
<1>7. FixedLimit \in Nat /\ FixedEnd \in Nat /\ FixedLimit <= FixedEnd
  BY FixedAssumption
<1> HIDE DEF base, region, type
<1>8. type # "reserved"
  BY DEF type, base
<1>9. CASE ~mtrr.feature \/ ~mtrr.enabled
  <2>1. TypesOf(mtrr, frame) = {"UC"}
    <3>1. ~InFixedRange(mtrr, frame)
      BY <1>9 DEF InFixedRange
    <3>. QED
      BY <1>9, <3>1, Zenon DEF TypesOf
  <2>2. type \in TypesOf(mtrr, frame)
    BY <1>6, <1>9, <2>1
  <2>. QED
    BY <2>2 DEF type, base
<1>10. CASE mtrr.feature /\ mtrr.enabled /\ mtrr.fixed_enabled /\ base < FixedLimit
  <2>1. type = ProposeFixed(mtrr, region)
    BY <1>6, <1>10
  <2>2. PICK i \in DOMAIN FixedRegions : Contains(FixedRegions[i], region)
    BY <1>8, <2>1 DEF ProposeFixed
  <2>3. ContainsValue(FixedRegions[i], BitsOf(frame))
    BY <1>4, <2>2, RegionsOfOneFrame
  <2>4. frame < FixedEnd
    BY <1>3, <2>3, FixedAssumption
  <2>5. InFixedRange(mtrr, frame)
    BY <1>10, <2>4 DEF InFixedRange
  <2>6. type \in TypesOf(mtrr, frame)
    BY <1>4, <1>8, <1>10, <2>1, <2>5, FixedAnswer
  <2>. QED
    BY <2>6 DEF type, base
<1>11. CASE mtrr.feature /\ mtrr.enabled /\ ~(mtrr.fixed_enabled /\ base < FixedLimit)
  <2>1. type = ProposeVariable(mtrr, region)
    BY <1>6, <1>11
  <2>2. CASE InFixedRange(mtrr, frame)
    BY <1>1, <1>3, <1>7, <1>11, <2>2 DEF InFixedRange
  <2>3. CASE ~InFixedRange(mtrr, frame)
    <3>1. type \in TypesOf(mtrr, frame)
      BY <1>4, <1>8, <1>11, <2>1, <2>3, VariableAnswer
    <3>. QED
      BY <3>1 DEF type, base
  <2>. QED
    BY <2>2, <2>3
<1>12. \/ ~mtrr.feature \/ ~mtrr.enabled
       \/ mtrr.feature /\ mtrr.enabled /\ mtrr.fixed_enabled /\ base < FixedLimit
       \/ mtrr.feature /\ mtrr.enabled /\ ~(mtrr.fixed_enabled /\ base < FixedLimit)
  BY <1>5
<1>. QED
  BY <1>9, <1>10, <1>11, <1>12, Zenon

(***************************************************************************)
(* A page of one frame always has a type: its region is the frame alone,   *)
(* so that every range holds all of it or nothing (propose).               *)
(***************************************************************************)
THEOREM FrameHasType ==
  ASSUME NEW mtrr \in Mtrrs, NEW frame \in 0 .. Pow2[Width] - 1
  PROVE  Propose(mtrr, frame, 1) # "reserved"
<1> DEFINE region == Aligned(frame, 1)
           ranges == mtrr.variable
           turns == Turns(ranges, region)
           n == Len(ranges)
<1>1. region.mask = 0 .. Width - 1
  <2>1. 1 - 1 = 0
    OBVIOUS
  <2>. QED
    BY <2>1, NoBits DEF Aligned
<1>2. region.base = BitsOf(frame)
  BY DEF Aligned
<1>3. /\ mtrr.default \in Types /\ ranges \in Seq(VariableRanges) /\ n \in Nat
      /\ mtrr.fixed \in [DOMAIN FixedRegions -> Types]
      /\ \A i \in 1 .. n : ranges[i] \in VariableRanges
  BY MtrrFields
<1>4. "reserved" \notin Types
  BY DEF Types
<1>5. ProposeFixed(mtrr, region) # "reserved" \/ ~(frame < FixedLimit)
  <2> SUFFICES ASSUME frame < FixedLimit PROVE ProposeFixed(mtrr, region) \in Types
    BY <1>4
  <2>1. frame < FixedEnd
    BY FixedAssumption, WidthAssumption, Powers
  <2>2. PICK i \in DOMAIN FixedRegions : ContainsValue(FixedRegions[i], BitsOf(frame))
    BY <2>1, FixedAssumption
  <2>3. FixedRegions[i].mask \subseteq 0 .. Width - 1
    BY DEF FixedRegions, Aligned
  <2>4. Contains(FixedRegions[i], region)
    <3> DEFINE r == FixedRegions[i]
    <3> HIDE DEF r, region
    <3>1. r.mask \cap region.mask = r.mask /\ r.mask \cup region.mask = region.mask
      BY <1>1, <2>3 DEF r
    <3>2. r.base \cap r.mask = region.base \cap r.mask
      BY <1>2, <2>2 DEF ContainsValue, r
    <3>3. Contains(r, region)
      BY <3>1, <3>2 DEF Contains, AgreeOn
    <3>. QED
      BY <3>3 DEF r
  <2> HIDE DEF region
  <2>5. PICK j \in DOMAIN FixedRegions : ProposeFixed(mtrr, region) = mtrr.fixed[j]
    BY <2>4 DEF ProposeFixed
  <2>. QED
    BY <1>3, <2>5
<1>6. ASSUME NEW v \in VariableRanges, NEW acc \in Candidates,
             acc.returned => acc.type # "reserved"
      PROVE  Step(region, acc, v).returned => Step(region, acc, v).type # "reserved"
  <2> DEFINE r == VariableRegion(v)
  <2>1. r.mask \subseteq region.mask
    <3>1. PhysicalBits .. Width - 1 \subseteq 0 .. Width - 1
      BY WidthAssumption
    <3>. QED
      BY <1>1, <3>1 DEF VariableRegion, VariableRanges, Numbers
  <2> HIDE DEF r, region
  <2>2. Disjoints(r, region) \/ Contains(r, region)
    BY <2>1 DEF Disjoints, Contains
  <2>3. v.type \in Types /\ v.valid \in BOOLEAN
    BY DEF VariableRanges
  <2>. QED
    BY <1>4, <1>6, <2>2, <2>3 DEF Step, r
<1>7. ProposeVariable(mtrr, region) # "reserved"
  <2> DEFINE S == {i \in 0 .. n : turns[i].returned => turns[i].type # "reserved"}
  <2> HIDE DEF region
  <2>1. /\ turns \in [0 .. n -> Candidates]
        /\ turns[0] = [type |-> "reserved", returned |-> FALSE]
        /\ \A i \in 1 .. n : turns[i] = Step(region, turns[i - 1], ranges[i])
    BY <1>3, TurnByTurn
  <2>2. 0 \in S
    BY <1>3, <2>1
  <2>3. ASSUME NEW i \in 0 .. n - 1, i \in S PROVE i + 1 \in S
    <3>1. i + 1 \in 1 .. n /\ i \in 0 .. n /\ (i + 1) - 1 = i /\ i + 1 \in 0 .. n
      BY <1>3
    <3>2. turns[i + 1] = Step(region, turns[i], ranges[i + 1]) /\ turns[i] \in Candidates
      BY <2>1, <3>1
    <3>3. turns[i].returned => turns[i].type # "reserved"
      BY <2>3
    <3>4. ranges[i + 1] \in VariableRanges
      BY <1>3, <3>1
    <3> HIDE DEF turns
    <3>5. turns[i + 1].returned => turns[i + 1].type # "reserved"
      BY <1>6, <3>2, <3>3, <3>4
    <3>. QED
      BY <3>1, <3>5
  <2> HIDE DEF S
  <2>4. \A i \in 0 .. n : i \in S
    BY <1>3, <2>2, <2>3, UpTo
  <2>5. turns[n].returned => turns[n].type # "reserved"
    BY <1>3, <2>4 DEF S
  <2>6. ProposeVariable(mtrr, region) =
          IF ~turns[n].returned /\ turns[n].type = "reserved" THEN mtrr.default ELSE turns[n].type
    BY DEF ProposeVariable
  <2> HIDE DEF turns, n
  <2>. QED
    BY <1>3, <1>4, <2>5, <2>6
<1> HIDE DEF region
<1>8. \/ Propose(mtrr, frame, 1) \in {"UC", ProposeVariable(mtrr, region)}
      \/ frame < FixedLimit /\ Propose(mtrr, frame, 1) = ProposeFixed(mtrr, region)
  BY DEF Propose, region
<1>. QED
  BY <1>5, <1>7, <1>8
=============================================================================
