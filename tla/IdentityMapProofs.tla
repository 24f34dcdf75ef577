-------------------------- MODULE IdentityMapProofs --------------------------
(***************************************************************************)
(* Proofs about IdentityMap for tables of any number of entries, any       *)
(* amount of physical memory that four levels reach and any MTRRs; what    *)
(* propose answers with is used only for the types of the pages.           *)
(***************************************************************************)
EXTENDS IdentityMap, MemoryTypeProofs

(***************************************************************************)
(* The entries of a table; a page of any level has a power of two frames.  *)
(***************************************************************************)
LEMMA TableSize == Entries \in Nat \ {0, 1}
<1>0. Width \in Nat
  BY WidthAssumption
<1>1. PICK bits \in 1 .. Width : Entries = Pow2[bits]
  BY EntriesAssumption
<1>2. bits - 1 \in 0 .. Width
  BY <1>0
<1>. QED
  BY <1>0, <1>1, <1>2, Powers

(***************************************************************************)
(* An entry covers what the table below it covers, and a page of its level *)
(* is as large; the entries of the top-level table cover all memory.       *)
(***************************************************************************)
LEMMA Sizes ==
  /\ \A level \in 1 .. 3 : /\ PageSize(level) \in Nat \ {0}
                           /\ EntrySize(level) = PageSize(level)
                           /\ EntrySize(level + 1) = Entries * EntrySize(level)
  /\ \A level \in 1 .. 4 : EntrySize(level) \in Nat \ {0}
  /\ MaxFrame \in Nat /\ MaxFrame < Entries * EntrySize(4)
<1> DEFINE e2 == Entries * Entries
           e3 == Entries * e2
<1>1. Entries \in Nat \ {0, 1}
  BY TableSize
<1>2. e2 \in Nat \ {0}
  BY <1>1
<1>3. e3 \in Nat \ {0}
  BY <1>1, <1>2
<1>4. PageSize(1) = 1 /\ PageSize(2) = Entries /\ PageSize(3) = e2
  BY DEF PageSize
<1>5. EntrySize(1) = 1 /\ EntrySize(2) = Entries /\ EntrySize(3) = e2 /\ EntrySize(4) = e3
  BY <1>1, <1>4 DEF EntrySize
<1>6. MaxFrame \in Nat /\ MaxFrame < Entries * e3
  <2>1. Entries * Entries * Entries * Entries = Entries * e3
    BY <1>1
  <2>2. Entries * e3 \in Nat
    BY <1>1, <1>3
  <2>. QED
    BY <2>1, <2>2, ReachAssumption
<1> HIDE DEF e2, e3
<1>7. ASSUME NEW level \in 1 .. 3
      PROVE  /\ PageSize(level) \in Nat \ {0}
             /\ EntrySize(level) = PageSize(level)
             /\ EntrySize(level + 1) = Entries * EntrySize(level)
  <2>1. CASE level = 1
    BY <1>1, <1>4, <1>5, <2>1
  <2>2. CASE level = 2
    BY <1>1, <1>4, <1>5, <2>2 DEF e2
  <2>3. CASE level = 3
    BY <1>1, <1>2, <1>4, <1>5, <2>3 DEF e3
  <2>. QED
    BY <2>1, <2>2, <2>3
<1>8. \A level \in 1 .. 4 : EntrySize(level) \in Nat \ {0}
  BY <1>1, <1>2, <1>3, <1>5
<1>. QED
  BY <1>5, <1>6, <1>7, <1>8

LEMMA PagesArePowers ==
  ASSUME NEW level \in 1 .. 3
  PROVE  \E k \in 0 .. Width : PageSize(level) = Pow2[k]
<1>0. Width \in Nat
  BY WidthAssumption
<1>1. PICK bits \in 1 .. Width : 2 * bits <= Width /\ Entries = Pow2[bits]
  BY EntriesAssumption
<1>2. bits \in 0 .. Width /\ bits \in 0 .. Width - bits /\ bits + bits \in 0 .. Width /\ 0 \in 0 .. Width
  BY <1>0, <1>1
<1>3. Pow2[bits + bits] = Entries * Entries
  BY <1>1, <1>2, PowerProduct
<1>4. CASE level = 1
  BY <1>2, <1>4, Powers DEF PageSize
<1>5. CASE level = 2
  BY <1>1, <1>2, <1>5 DEF PageSize
<1>6. CASE level = 3
  BY <1>2, <1>3, <1>6 DEF PageSize
<1>. QED
  BY <1>4, <1>5, <1>6

LEMMA Multiples ==
  ASSUME NEW size \in Nat, NEW i \in Nat, NEW n \in Nat, i <= n
  PROVE  /\ i * size \in Nat
         /\ (i + 1) * size = i * size + size
         /\ i * size <= n * size
  OBVIOUS

-----------------------------------------------------------------------------
(***************************************************************************)
(* The innermost loop.                                                     *)
(***************************************************************************)
LEMMA CallFields ==
  ASSUME NEW c \in Calls
  PROVE  c.level \in 1 .. 4 /\ c.start \in Nat /\ c.i \in 0 .. Entries
  BY DEF Calls

Advanced(c) == [c EXCEPT !.i = @ + 1]

LEMMA NextCall ==
  ASSUME NEW c \in Calls, c.i < Entries
  PROVE  /\ Advanced(c) \in Calls
         /\ Advanced(c).level = c.level /\ Advanced(c).start = c.start
         /\ Advanced(c).i = c.i + 1
  BY TableSize DEF Calls, Advanced

LEMMA TopOfLoops ==
  ASSUME LoopsNest
  PROVE  /\ Top \in Calls /\ Top = stack[Len(stack)]
         /\ Top.level = 5 - Len(stack)
         /\ EntrySize(Top.level) \in Nat \ {0}
         /\ Base \in Nat /\ Base = Top.start + Top.i * EntrySize(Top.level)
<1>1. Len(stack) \in 1 .. Len(stack) /\ Len(stack) \in 1 .. 4
  BY DEF LoopsNest
<1>2. Top \in Calls /\ Top = stack[Len(stack)]
  BY <1>1 DEF LoopsNest, Top
<1>3. Top.level = 5 - Len(stack)
  BY <1>1 DEF LoopsNest, Top
<1>4. Top.level \in 1 .. 4 /\ Top.start \in Nat /\ Top.i \in Nat
  BY <1>2, CallFields, TableSize
<1>5. EntrySize(Top.level) \in Nat \ {0}
  BY <1>4, Sizes
<1>6. Top.i * EntrySize(Top.level) \in Nat
  BY <1>4, <1>5
<1>. QED
  BY <1>2, <1>3, <1>4, <1>5, <1>6 DEF Base

(***************************************************************************)
(* The next entry of the innermost loop: the loops nest as before, and     *)
(* Base goes on by what the entry covers.                                  *)
(***************************************************************************)
LEMMA NextEntryNests ==
  ASSUME LoopsNest, Top.i < Entries, stack' = NextEntry(stack)
  PROVE  LoopsNest' /\ Base' = Base + EntrySize(Top.level)
<1> DEFINE n == Len(stack)
<1>1. n \in 1 .. 4 /\ stack \in Seq(Calls) /\ Top = stack[n] /\ Top \in Calls
  BY TopOfLoops DEF LoopsNest
<1>2. Top.level \in 1 .. 4 /\ Top.start \in Nat /\ Top.i \in 0 .. Entries - 1
  BY <1>1, CallFields, TableSize
<1> DEFINE next == Advanced(stack[n])
<1>3. /\ next \in Calls /\ next.level = Top.level /\ next.start = Top.start
      /\ next.i = Top.i + 1
  BY <1>1, <1>2, NextCall
<1>4. stack' = [stack EXCEPT ![n] = next]
  BY DEF NextEntry, Advanced
<1> HIDE DEF next
<1>5. /\ stack' \in Seq(Calls) /\ Len(stack') = n /\ stack'[n] = next
      /\ \A k \in 1 .. n - 1 : stack'[k] = stack[k]
  BY <1>1, <1>3, <1>4
<1>6. LoopsNest'
  <2>1. stack'[1].start = 0
    BY <1>1, <1>3, <1>5 DEF LoopsNest
  <2>2. \A k \in 1 .. n : stack'[k].level = 5 - k
    BY <1>1, <1>3, <1>5 DEF LoopsNest
  <2>3. ASSUME NEW k \in 1 .. n - 1
        PROVE  /\ stack'[k].i < Entries
               /\ stack'[k + 1].start = stack'[k].start + stack'[k].i * EntrySize(5 - k)
    <3>1. stack'[k] = stack[k] /\ stack'[k + 1].start = stack[k + 1].start
      BY <1>1, <1>3, <1>5
    <3>. QED
      BY <3>1 DEF LoopsNest
  <2>. QED
    BY <1>1, <1>5, <2>1, <2>2, <2>3 DEF LoopsNest
<1>7. Base' = Top.start + (Top.i + 1) * EntrySize(Top.level)
  BY <1>3, <1>5 DEF Base, Top
<1>. QED
  BY <1>2, <1>6, <1>7, TopOfLoops, Multiples

(***************************************************************************)
(* A call: the inner loop begins at the entry the outer one is on.         *)
(***************************************************************************)
LEMMA CallNests ==
  ASSUME LoopsNest, Top.i < Entries, Top.level > 1,
         stack' = Append(stack, [level |-> Top.level - 1, start |-> Base, i |-> 0])
  PROVE  LoopsNest' /\ Base' = Base
<1> DEFINE n == Len(stack)
           call == [level |-> Top.level - 1, start |-> Base, i |-> 0]
<1>1. /\ n \in 1 .. 4 /\ stack \in Seq(Calls) /\ Top = stack[n] /\ Top.level = 5 - n
      /\ Base \in Nat /\ Base = stack[n].start + stack[n].i * EntrySize(5 - n)
  BY TopOfLoops DEF LoopsNest
<1>2. n \in 1 .. 3
  BY <1>1
<1>3. call \in Calls /\ call.level = 5 - (n + 1) /\ call.start = Base /\ call.i = 0
  <2>1. /\ Top.level - 1 \in 1 .. 4 /\ Top.level - 1 = 5 - (n + 1)
        /\ 0 \in 0 .. Entries /\ Base \in Nat
    BY <1>1, <1>2, TableSize
  <2>. QED
    BY <2>1 DEF Calls
<1> HIDE DEF call
<1>4. stack' = Append(stack, call)
  BY DEF call
<1>5. /\ stack' \in Seq(Calls) /\ Len(stack') = n + 1 /\ stack'[n + 1] = call
      /\ \A k \in 1 .. n : stack'[k] = stack[k]
  BY <1>1, <1>3, <1>4
<1>6. LoopsNest'
  <2>1. stack'[1].start = 0
    BY <1>1, <1>5 DEF LoopsNest
  <2>2. \A k \in 1 .. n + 1 : stack'[k].level = 5 - k
    BY <1>1, <1>3, <1>5 DEF LoopsNest
  <2>3. ASSUME NEW k \in 1 .. n
        PROVE  /\ stack'[k].i < Entries
               /\ stack'[k + 1].start = stack'[k].start + stack'[k].i * EntrySize(5 - k)
    <3>1. CASE k = n
      BY <1>1, <1>3, <1>5, <3>1
    <3>2. CASE k # n
      BY <1>1, <1>5, <3>2 DEF LoopsNest
    <3>. QED
      BY <3>1, <3>2
  <2>4. Len(stack') \in 1 .. 4 /\ Len(stack') - 1 = n
    <3>1. Len(stack') = n + 1
      BY <1>5
    <3> HIDE DEF n
    <3>. QED
      BY <1>2, <3>1
  <2>. QED
    BY <1>5, <2>1, <2>2, <2>3, <2>4 DEF LoopsNest
<1>7. Base' = Base + 0 * EntrySize(Top.level - 1)
  BY <1>3, <1>5 DEF Base, Top, call
<1>8. EntrySize(Top.level - 1) \in Nat
  BY <1>1, <1>2, Sizes
<1>. QED
  BY <1>1, <1>6, <1>7, <1>8

(***************************************************************************)
(* A loop has ended: when it has been through all its entries, the next    *)
(* entry of the caller begins where it has got to, and otherwise Base is   *)
(* past the last frame of memory already.                                  *)
(***************************************************************************)
LEMMA ReturnNests ==
  ASSUME LoopsNest, ~(Top.i < Entries /\ Base <= MaxFrame), Len(stack) # 1,
         stack' = NextEntry(Caller)
  PROVE  LoopsNest' /\ Base' \in Nat /\ Base <= Base' /\ (Base' = Base \/ Base > MaxFrame)
<1>1. PICK m \in 1 .. 3 : Len(stack) = m + 1
  BY DEF LoopsNest
<1> DEFINE c == stack[m]
           next == Advanced(c)
<1>2. /\ stack \in Seq(Calls) /\ Top = stack[m + 1] /\ Top \in Calls /\ Top.level = 5 - (m + 1)
      /\ c \in Calls /\ c.level = 5 - m /\ c.i < Entries
      /\ Top.start = c.start + c.i * EntrySize(5 - m)
  <2>1. /\ stack[m].level = 5 - m /\ stack[m].i < Entries
        /\ stack[m + 1].start = stack[m].start + stack[m].i * EntrySize(5 - m)
    BY <1>1 DEF LoopsNest
  <2>2. stack \in Seq(Calls) /\ c \in Calls
    BY <1>1 DEF LoopsNest
  <2>. QED
    BY <1>1, <2>1, <2>2, TopOfLoops
<1>3. c.start \in Nat /\ c.i \in 0 .. Entries - 1 /\ Top.i \in 0 .. Entries /\ Top.start \in Nat
  BY <1>2, CallFields, TableSize
<1>4. next \in Calls /\ next.level = 5 - m /\ next.start = c.start /\ next.i = c.i + 1
  BY <1>2, NextCall
<1>5. Caller \in Seq(Calls) /\ Len(Caller) = m /\ \A k \in 1 .. m : Caller[k] = stack[k]
  <2>1. Caller = SubSeq(stack, 1, m) /\ \A k \in 1 .. m : stack[k] \in Calls
    BY <1>1, <1>2 DEF Caller
  <2>2. 1 \in Int /\ m \in Int
    OBVIOUS
  <2>. QED
    BY <2>1, <2>2, SubSeqProperties
<1>6. stack' = [Caller EXCEPT ![m] = next]
  <2>1. stack' = [Caller EXCEPT ![m] = Advanced(Caller[m])]
    BY <1>5 DEF NextEntry, Advanced
  <2>2. Advanced(Caller[m]) = next
    BY <1>5
  <2>. QED
    BY <2>1, <2>2, Zenon
<1> HIDE DEF next, c
<1>7. /\ stack' \in Seq(Calls) /\ Len(stack') = m /\ stack'[m] = next
      /\ \A k \in 1 .. m - 1 : stack'[k] = stack[k]
  BY <1>4, <1>5, <1>6
<1>8. LoopsNest'
  <2>1. stack'[1].start = 0
    BY <1>2, <1>4, <1>7 DEF LoopsNest, c
  <2>2. ASSUME NEW k \in 1 .. m PROVE stack'[k].level = 5 - k
    <3>1. k \in 1 .. Len(stack) /\ (k = m \/ k \in 1 .. m - 1)
      BY <1>1
    <3>. QED
      BY <1>4, <1>7, <3>1 DEF LoopsNest
  <2>3. ASSUME NEW k \in 1 .. m - 1
        PROVE  /\ stack'[k].i < Entries
               /\ stack'[k + 1].start = stack'[k].start + stack'[k].i * EntrySize(5 - k)
    <3>1. stack'[k] = stack[k] /\ k \in 1 .. Len(stack) - 1
      BY <1>1, <1>7
    <3>2. stack'[k + 1].start = stack[k + 1].start
      <4>1. k + 1 = m \/ k + 1 \in 1 .. m - 1
        OBVIOUS
      <4>. QED
        BY <1>4, <1>7, <4>1 DEF c
    <3>. QED
      BY <3>1, <3>2 DEF LoopsNest
  <2>4. Len(stack') \in 1 .. 4 /\ Len(stack') = m
    BY <1>7
  <2>. QED
    BY <1>7, <2>1, <2>2, <2>3, <2>4 DEF LoopsNest
<1> DEFINE size == EntrySize(Top.level)
<1>9. size \in Nat /\ EntrySize(5 - m) = Entries * size
  <2>1. 5 - m = Top.level + 1 /\ Top.level \in 1 .. 3
    BY <1>2
  <2>. QED
    BY <2>1, Sizes
<1>10. Base' = c.start + (c.i + 1) * EntrySize(5 - m)
  BY <1>4, <1>7 DEF Base, Top
<1>11. Base = Top.start + Top.i * size
  BY TopOfLoops
<1> HIDE DEF size
<1>12. Entries * size \in Nat /\ Top.i * size \in Nat /\ Top.i * size <= Entries * size
  BY <1>3, <1>9, Multiples, TableSize
<1>13. Base' = Top.start + Entries * size
  <2> DEFINE outer == EntrySize(5 - m)
             before == c.i * outer
  <2>1. outer \in Nat /\ outer = Entries * size
    BY <1>9, <1>12
  <2>2. before \in Nat /\ (c.i + 1) * outer = before + outer
    BY <1>3, <2>1, Multiples
  <2>3. Base' = c.start + (c.i + 1) * outer /\ Top.start = c.start + before
    BY <1>2, <1>10
  <2> HIDE DEF outer, before
  <2>4. Base' = Top.start + outer
    BY <1>3, <2>1, <2>2, <2>3
  <2>. QED
    BY <2>1, <2>4
<1>14. Base \in Nat /\ Base' \in Nat /\ Base <= Base'
  BY <1>3, <1>11, <1>12, <1>13
<1>15. CASE Top.i = Entries
  BY <1>8, <1>11, <1>13, <1>14, <1>15
<1>16. CASE Top.i < Entries
  BY <1>8, <1>14, <1>16, Sizes
<1>17. Top.i < Entries \/ Top.i = Entries
  BY <1>3, TableSize
<1>. QED
  BY <1>15, <1>16, <1>17

(***************************************************************************)
(* The outermost loop reaches the end of memory.                           *)
(***************************************************************************)
LEMMA OutermostReachesEnd ==
  ASSUME LoopsNest, Len(stack) = 1, ~(Top.i < Entries /\ Base <= MaxFrame)
  PROVE  Base > MaxFrame
<1>1. Top.level = 4 /\ Top.start = 0 /\ Top.i \in 0 .. Entries /\ Base \in Nat
  BY TopOfLoops, CallFields DEF LoopsNest, Top
<1>2. Base = Top.i * EntrySize(4) /\ EntrySize(4) \in Nat
  BY <1>1, TopOfLoops, Sizes, TableSize, Multiples
<1>3. CASE Top.i = Entries
  BY <1>2, <1>3, Sizes
<1>4. CASE Top.i < Entries
  BY <1>1, <1>4, Sizes
<1>. QED
  BY <1>1, <1>3, <1>4, TableSize

-----------------------------------------------------------------------------
(***************************************************************************)
(* One lemma per action.                                                   *)
(***************************************************************************)
LEMMA InitIInv == Init => IInv
<1> SUFFICES ASSUME Init PROVE IInv
  OBVIOUS
<1> DEFINE call == [level |-> 4, start |-> 0, i |-> 0]
<1>1. call \in Calls /\ call.level = 4 /\ call.start = 0 /\ call.i = 0
  BY TableSize DEF Calls
<1> HIDE DEF call
<1>2. stack = <<call>> /\ pages = {} /\ status = "running"
  BY DEF Init, call
<1>3. stack \in Seq(Calls) /\ Len(stack) = 1 /\ stack[1] = call
  BY <1>1, <1>2
<1>4. LoopsNest
  BY <1>1, <1>3 DEF LoopsNest
<1>5. Base = 0
  BY <1>1, <1>3, Sizes DEF Base, Top
<1>. QED
  BY <1>2, <1>4, <1>5 DEF IInv, PagesEndAtBase, CoveredUpTo

(***************************************************************************)
(* The page committed begins where the others have ended.                  *)
(***************************************************************************)
LEMMA CommitPageIInv == IInv /\ CommitPage => IInv' /\ \A p \in New, q \in pages : Apart(p, q)
<1> SUFFICES ASSUME IInv, CommitPage PROVE IInv' /\ \A p \in New, q \in pages : Apart(p, q)
  OBVIOUS
<1>1. LoopsNest /\ PagesEndAtBase /\ CoveredUpTo(Base) /\ status = "running"
  BY DEF IInv, CommitPage, InLoop
<1>2. Top.level \in 1 .. 3 /\ Top.i < Entries /\ Base \in Nat
  <2>1. Top.level < 4 /\ Top.i < Entries
    BY DEF CommitPage, InLoop
  <2>2. Top.level \in 1 .. 4 /\ Base \in Nat
    BY <1>1, TopOfLoops, CallFields
  <2>. QED
    BY <2>1, <2>2
<1> DEFINE size == PageSize(Top.level)
<1>3. size \in Nat \ {0} /\ EntrySize(Top.level) = size
  BY <1>2, Sizes
<1>4. CASE UNCHANGED <<pages, stack>>
  <2>1. UNCHANGED Base
    BY <1>4 DEF Base, Top
  <2>2. status' # "done"
    BY <1>1, <1>4 DEF CommitPage
  <2>3. LoopsNest' /\ PagesEndAtBase' /\ CoveredUpTo(Base)'
    BY <1>1, <1>4, <2>1 DEF LoopsNest, PagesEndAtBase, CoveredUpTo
  <2>. QED
    BY <1>4, <2>2, <2>3 DEF IInv, New
<1>5. ASSUME pages' = pages \cup {[base |-> Base, level |-> Top.level, type |-> Proposal]},
             stack' = NextEntry(stack), UNCHANGED status
      PROVE  IInv' /\ \A p \in New, q \in pages : Apart(p, q)
  <2> DEFINE page == [base |-> Base, level |-> Top.level, type |-> Proposal]
  <2>1. page.base = Base /\ page.level = Top.level
    OBVIOUS
  <2> HIDE DEF page
  <2>2. pages' = pages \cup {page}
    BY <1>5 DEF page
  <2>3. LoopsNest' /\ Base' = Base + size
    BY <1>1, <1>2, <1>3, <1>5, NextEntryNests
  <2>4. page.base \in Nat /\ page.level \in 1 .. 3 /\ PageSize(page.level) = size
    BY <1>2, <2>1
  <2> HIDE DEF size
  <2>5. ASSUME NEW p \in pages PROVE /\ p.base \in Nat /\ p.level \in 1 .. 3
                                     /\ PageSize(p.level) \in Nat
                                     /\ p.base + PageSize(p.level) <= Base
    BY <1>1, Sizes DEF PagesEndAtBase
  <2>6. PagesEndAtBase'
    BY <1>2, <1>3, <2>1, <2>2, <2>3, <2>4, <2>5 DEF PagesEndAtBase
  <2>7. ASSUME NEW frame \in 0 .. MaxFrame, frame < Base'
        PROVE  \E p \in pages' : frame \in FramesOf(p)
    <3>1. CASE frame < Base
      BY <1>1, <2>2, <3>1 DEF CoveredUpTo
    <3>2. CASE Base <= frame
      <4>1. frame \in Base .. Base + size - 1
        BY <1>2, <1>3, <2>3, <2>7, <3>2, Sizes
      <4>2. frame \in FramesOf(page)
        BY <2>1, <2>4, <4>1 DEF FramesOf
      <4>. QED
        BY <2>2, <4>2
    <3>. QED
      BY <1>2, <3>1, <3>2, Sizes
  <2>8. \A p \in New, q \in pages : Apart(p, q)
    BY <2>1, <2>2, <2>5 DEF New, Apart
  <2>. QED
    BY <1>1, <1>5, <2>3, <2>6, <2>7, <2>8 DEF IInv, CoveredUpTo
<1>. QED
  BY <1>4, <1>5 DEF CommitPage

LEMMA DescendIInv == IInv /\ Descend => IInv'
<1> SUFFICES ASSUME IInv, Descend PROVE IInv'
  OBVIOUS
<1>1. LoopsNest' /\ Base' = Base
  BY CallNests DEF IInv, Descend, InLoop
<1>2. PagesEndAtBase' /\ CoveredUpTo(Base)'
  BY <1>1 DEF IInv, Descend, PagesEndAtBase, CoveredUpTo
<1>. QED
  BY <1>1, <1>2 DEF IInv, Descend, InLoop

LEMMA ReturnIInv == IInv /\ Return => IInv'
<1> SUFFICES ASSUME IInv, Return PROVE IInv'
  OBVIOUS
<1>1. /\ LoopsNest /\ PagesEndAtBase /\ CoveredUpTo(Base) /\ status = "running"
      /\ ~(Top.i < Entries /\ Base <= MaxFrame) /\ UNCHANGED pages
  BY DEF IInv, Return, LoopEnds, InLoop
<1>2. Base \in Nat /\ MaxFrame \in Nat
  BY <1>1, TopOfLoops, Sizes
<1>3. CASE Len(stack) = 1
  <2>1. UNCHANGED stack
    BY <1>3 DEF Return
  <2>2. UNCHANGED Base
    BY <2>1 DEF Base, Top
  <2>3. LoopsNest' /\ PagesEndAtBase' /\ CoveredUpTo(Base)'
    BY <1>1, <2>1, <2>2 DEF LoopsNest, PagesEndAtBase, CoveredUpTo
  <2>4. Base' > MaxFrame
    BY <1>1, <1>3, <2>2, OutermostReachesEnd
  <2>. QED
    BY <2>3, <2>4 DEF IInv
<1>4. CASE Len(stack) # 1
  <2>1. stack' = NextEntry(Caller) /\ UNCHANGED status
    BY <1>4 DEF Return
  <2>2. LoopsNest' /\ Base' \in Nat /\ Base <= Base' /\ (Base' = Base \/ Base > MaxFrame)
    BY <1>1, <1>4, <2>1, ReturnNests
  <2>3. ASSUME NEW p \in pages
        PROVE  p.base \in Nat /\ p.level \in 1 .. 3 /\ p.base + PageSize(p.level) <= Base'
    BY <1>1, <1>2, <2>2, Sizes DEF PagesEndAtBase
  <2>4. ASSUME NEW frame \in 0 .. MaxFrame, frame < Base'
        PROVE  \E p \in pages : frame \in FramesOf(p)
    BY <1>1, <1>2, <2>2, <2>4 DEF CoveredUpTo
  <2>. QED
    BY <1>1, <2>1, <2>2, <2>3, <2>4 DEF IInv, PagesEndAtBase, CoveredUpTo
<1>. QED
  BY <1>3, <1>4

(***************************************************************************)
(* Any step.                                                               *)
(***************************************************************************)
LEMMA NextIInv == IInv /\ [Next]_vars => IInv'
<1> SUFFICES ASSUME IInv, [Next]_vars PROVE IInv'
  OBVIOUS
<1>1. CASE UNCHANGED vars
  <2>1. UNCHANGED <<Base, stack, pages, status>>
    BY <1>1 DEF vars, Base, Top
  <2>. QED
    BY <2>1 DEF IInv, LoopsNest, PagesEndAtBase, CoveredUpTo
<1>. QED
  BY <1>1, CommitPageIInv, DescendIInv, ReturnIInv DEF Next, Returned

LEMMA AlwaysIInv == Spec => []IInv
  BY InitIInv, NextIInv, PTL DEF Spec

(***************************************************************************)
(* When the set-up has succeeded every frame of memory is in a page,       *)
(* whatever types propose has answered with (setup_ept_identity_map).      *)
(***************************************************************************)
THEOREM EveryFrameIsMapped == Spec => []EveryFrameMapped
<1>1. IInv => EveryFrameMapped
  <2> SUFFICES ASSUME IInv, status = "done", NEW frame \in 0 .. MaxFrame
               PROVE  \E p \in pages : frame \in FramesOf(p)
    BY DEF EveryFrameMapped
  <2>1. frame < Base /\ CoveredUpTo(Base)
    BY TopOfLoops, Sizes DEF IInv
  <2>. QED
    BY <2>1 DEF CoveredUpTo
<1>. QED
  BY <1>1, AlwaysIInv, PTL

(***************************************************************************)
(* No page is committed over another one, so that the set-up of the        *)
(* identity map never splits a page (setup_ept_identity_map).              *)
(***************************************************************************)
THEOREM NothingIsSplit == Spec => NothingSplit
<1>1. IInv /\ [Next]_vars => [\A p \in New, q \in pages : Apart(p, q)]_vars
  <2> SUFFICES ASSUME IInv, Next PROVE \A p \in New, q \in pages : Apart(p, q)
    OBVIOUS
  <2>1. CASE CommitPage
    BY <2>1, CommitPageIInv
  <2>2. CASE Descend \/ Return \/ Returned
    BY <2>2 DEF Descend, Return, Returned, vars, New
  <2>. QED
    BY <2>1, <2>2 DEF Next
<1>. QED
  BY <1>1, AlwaysIInv, PTL DEF Spec, NothingSplit
-----------------------------------------------------------------------------
(***************************************************************************)
(* A loop begins at a multiple of what an entry of its level covers, and   *)
(* so does each of its entries.                                            *)
(***************************************************************************)
LEMMA LoopsAreAligned ==
  ASSUME LoopsNest, NEW k \in 1 .. Len(stack)
  PROVE  \E m \in Nat : stack[k].start = m * EntrySize(5 - k)
<1> DEFINE Aligns(l) == \E m \in Nat : stack[l].start = m * EntrySize(5 - l)
<1>0. Len(stack) \in 1 .. 4
  BY DEF LoopsNest
<1>1. Aligns(1)
  <2>1. stack[1].start = 0 * EntrySize(4)
    BY Sizes DEF LoopsNest
  <2>. QED
    BY <2>1
<1>2. ASSUME NEW l \in 1 .. Len(stack) - 1, Aligns(l)
      PROVE  Aligns(l + 1)
  <2>1. PICK m \in Nat : stack[l].start = m * EntrySize(5 - l)
    BY <1>2
  <2>2. stack[l + 1].start = stack[l].start + stack[l].i * EntrySize(5 - l)
    BY DEF LoopsNest
  <2>3. stack[l].i \in Nat
    <3>1. stack[l] \in Calls
      BY DEF LoopsNest
    <3>. QED
      BY <3>1, CallFields, TableSize
  <2>4. /\ 5 - (l + 1) \in 1 .. 3 /\ 5 - l = (5 - (l + 1)) + 1
        /\ EntrySize(5 - (l + 1)) \in Nat
    <3>1. 5 - (l + 1) \in 1 .. 3 /\ 5 - l = (5 - (l + 1)) + 1
      <4>1. \A n \in 1 .. 4 : \A j \in 1 .. n - 1 :
              5 - (j + 1) \in 1 .. 3 /\ 5 - j = (5 - (j + 1)) + 1
        OBVIOUS
      <4>. QED
        BY <1>0, <4>1
    <3>2. PageSize(5 - (l + 1)) \in Nat /\ EntrySize(5 - (l + 1)) = PageSize(5 - (l + 1))
      BY <3>1, Sizes
    <3>. QED
      BY <3>1, <3>2
  <2>5. EntrySize(5 - l) = Entries * EntrySize(5 - (l + 1))
    BY <2>4, Sizes
  <2> DEFINE size == EntrySize(5 - (l + 1))
             j == stack[l].i
  <2>6. stack[l + 1].start = (m + j) * (Entries * size)
    <3>1. Entries * size \in Nat
      BY <2>4, TableSize
    <3>2. \A d \in Nat : m * d + j * d = (m + j) * d
      BY <2>3
    <3>. QED
      BY <2>1, <2>2, <2>5, <3>1, <3>2
  <2> HIDE DEF size, j
  <2>7. (m + j) * (Entries * size) = ((m + j) * Entries) * size /\ (m + j) * Entries \in Nat
    <3>1. m + j \in Nat /\ size \in Nat /\ Entries \in Nat
      BY <2>3, <2>4, TableSize DEF size, j
    <3>2. \A a \in Nat : a * (Entries * size) = (a * Entries) * size /\ a * Entries \in Nat
      BY <3>1
    <3>. QED
      BY <3>1, <3>2
  <2>. QED
    BY <2>6, <2>7 DEF size
<1> HIDE DEF Aligns
<1>3. Aligns(k)
  <2>1. CASE k = 1
    BY <1>1, <2>1
  <2>2. CASE k = 2
    BY <1>0, <1>1, <1>2, <2>2
  <2>3. CASE k = 3
    <3>1. Aligns(2)
      BY <1>0, <1>1, <1>2, <2>3
    <3>. QED
      BY <1>0, <1>2, <2>3, <3>1
  <2>4. CASE k = 4
    <3>1. Aligns(2)
      BY <1>0, <1>1, <1>2, <2>4
    <3>2. Aligns(3)
      BY <1>0, <1>2, <2>4, <3>1
    <3>. QED
      BY <1>0, <1>2, <2>4, <3>2
  <2>5. k \in 1 .. 4
    <3>1. \A n \in 1 .. 4 : \A l \in 1 .. n : l \in 1 .. 4
      OBVIOUS
    <3>. QED
      BY <1>0, <3>1
  <2>. QED
    BY <2>1, <2>2, <2>3, <2>4, <2>5
<1>. QED
  BY <1>3 DEF Aligns

LEMMA BaseIsAligned ==
  ASSUME LoopsNest
  PROVE  \E q \in Nat : Base = q * EntrySize(Top.level)
<1>1. /\ Len(stack) \in 1 .. Len(stack) /\ Top \in Calls /\ Top = stack[Len(stack)]
      /\ Top.level = 5 - Len(stack)
      /\ EntrySize(Top.level) \in Nat \ {0} /\ Base = Top.start + Top.i * EntrySize(Top.level)
  BY TopOfLoops DEF LoopsNest
<1>2. PICK m \in Nat : Top.start = m * EntrySize(Top.level)
  BY <1>1, LoopsAreAligned
<1>3. Top.i \in Nat
  BY <1>1, CallFields, TableSize
<1>4. \A d, i \in Nat : m * d + i * d = (m + i) * d /\ m + i \in Nat
  OBVIOUS
<1>5. Base = (m + Top.i) * EntrySize(Top.level) /\ m + Top.i \in Nat
  BY <1>1, <1>2, <1>3, <1>4
<1>. QED
  BY <1>5

(***************************************************************************)
(* The page that is proposed for lies within the numbers of Width bits.    *)
(***************************************************************************)
LEMMA PageWithinWidth ==
  ASSUME NEW k \in 0 .. Width, NEW q \in Nat, q * Pow2[k] <= MaxFrame
  PROVE  /\ (q + 1) * Pow2[k] <= Pow2[Width]
         /\ q * Pow2[k] \in 0 .. Pow2[Width] - 1
<1> DEFINE d == Pow2[k]
           e == Pow2[Width - k]
           f == Pow2[Width - PhysicalBits]
           p == Pow2[PhysicalBits]
<1>0. /\ Width \in Nat /\ PhysicalBits \in 0 .. Width
      /\ Width - PhysicalBits \in 0 .. Width - PhysicalBits /\ Width - PhysicalBits \in 0 .. Width
      /\ Width - k \in 0 .. Width - k /\ Width - k \in 0 .. Width
      /\ k + (Width - k) = Width /\ PhysicalBits + (Width - PhysicalBits) = Width
  BY WidthAssumption
<1>1. d \in Nat \ {0} /\ e \in Nat \ {0} /\ f \in Nat \ {0} /\ p \in Nat \ {0}
  BY <1>0, Powers
<1>2. Pow2[Width] = d * e /\ Pow2[Width] = p * f
  <2>1. Pow2[k + (Width - k)] = d * e
    BY <1>0, PowerProduct
  <2>2. Pow2[PhysicalBits + (Width - PhysicalBits)] = p * f
    BY <1>0, PowerProduct
  <2>. QED
    BY <1>0, <2>1, <2>2
<1>3. MaxFrame = p - 1
  BY DEF MaxFrame
<1> HIDE DEF d, e, f, p
<1>4. p <= p * f /\ p * f \in Nat
  BY <1>1
<1>5. q * d \in Nat /\ q * d < e * d /\ e * d = d * e
  <2>1. q * d <= p - 1
    BY <1>3 DEF d
  <2>2. q * d \in Nat /\ e * d = d * e /\ e * d \in Nat
    BY <1>1
  <2>. QED
    BY <1>1, <1>2, <1>4, <2>1, <2>2
<1>6. q < e
  <2> SUFFICES ASSUME e <= q PROVE FALSE
    BY <1>1
  <2>1. e * d <= q * d
    BY <1>1, Times
  <2>. QED
    BY <1>1, <1>5, <2>1
<1>7. (q + 1) * d <= e * d
  BY <1>1, <1>6, Times
<1>. QED
  BY <1>1, <1>2, <1>5, <1>7 DEF d

(***************************************************************************)
(* The MTRRs stay as they are.                                             *)
(***************************************************************************)
LEMMA AlwaysMtrrs == Spec => [](mtrr \in Mtrrs)
<1>1. Init => mtrr \in Mtrrs
  BY MtrrsAssumption DEF Init
<1>2. mtrr \in Mtrrs /\ [Next]_vars => (mtrr \in Mtrrs)'
  BY DEF Next, CommitPage, Descend, Return, Returned, vars
<1>. QED
  BY <1>1, <1>2, PTL DEF Spec

(***************************************************************************)
(* The type of each page that is committed is one that the rules of the    *)
(* processor give each of its frames (setup_ept_identity_map, propose).    *)
(***************************************************************************)
THEOREM PagesHaveTheTypeOfTheirFrames == Spec => TypesMatch
<1> DEFINE Match(p) == \A frame \in FramesOf(p) :
                          \/ p.type \in TypesOf(mtrr, frame)
                          \/ InFixedRange(mtrr, frame) /\ frame >= FixedLimit
<1>1. ASSUME IInv, mtrr \in Mtrrs, CommitPage
      PROVE  \A p \in New : Match(p)
  <2> DEFINE new == [base |-> Base, level |-> Top.level, type |-> Proposal]
  <2>1. CASE New = {}
    BY <2>1
  <2>2. CASE New # {}
    <3>1. New \subseteq {new} /\ Proposal # "reserved" /\ InLoop /\ Top.level < 4
      BY <1>1, <2>2 DEF CommitPage, New
    <3>2. LoopsNest
      BY <1>1 DEF IInv
    <3>3. Top.level \in 1 .. 3 /\ Base \in Nat /\ Base <= MaxFrame
      BY <3>1, <3>2, TopOfLoops, CallFields DEF InLoop
    <3>4. PICK k \in 0 .. Width : PageSize(Top.level) = Pow2[k]
      BY <3>3, PagesArePowers
    <3>5. PICK q \in Nat : Base = q * Pow2[k]
      BY <3>2, <3>3, <3>4, BaseIsAligned, Sizes
    <3>6. (q + 1) * Pow2[k] <= Pow2[Width]
      BY <3>3, <3>5, PageWithinWidth
    <3>7. Proposal = Propose(mtrr, q * Pow2[k], Pow2[k])
      BY <3>4, <3>5 DEF Proposal
    <3>8. FramesOf(new) = q * Pow2[k] .. q * Pow2[k] + Pow2[k] - 1
      BY <3>4, <3>5 DEF FramesOf
    <3>9. \A frame \in FramesOf(new) :
             \/ Proposal \in TypesOf(mtrr, frame)
             \/ InFixedRange(mtrr, frame) /\ frame >= FixedLimit
      BY <1>1, <3>1, <3>6, <3>7, <3>8, ProposedTypeHolds
    <3>10. Match(new)
      BY <3>9, Zenon
    <3> HIDE DEF new, Match
    <3>. QED
      BY <3>1, <3>10
  <2>. QED
    BY <2>1, <2>2
<1>2. IInv /\ mtrr \in Mtrrs /\ [Next]_vars => [\A p \in New : Match(p)]_vars
  <2> SUFFICES ASSUME IInv, mtrr \in Mtrrs, Next PROVE \A p \in New : Match(p)
    OBVIOUS
  <2>1. CASE CommitPage
    BY <1>1, <2>1
  <2>2. CASE Descend \/ Return \/ Returned
    BY <2>2 DEF Descend, Return, Returned, vars, New
  <2>. QED
    BY <2>1, <2>2 DEF Next
<1>. QED
  BY <1>2, AlwaysIInv, AlwaysMtrrs, PTL DEF Spec, TypesMatch

(***************************************************************************)
(* The set-up never fails for want of a type: where the loops come down to *)
(* a page of one frame, propose has one (setup_ept_identity_map).          *)
(***************************************************************************)
THEOREM NeverWithoutType == Spec => []NeverUnsuccessful
<1>1. Init => NeverUnsuccessful
  BY DEF Init, NeverUnsuccessful
<1>2. IInv /\ mtrr \in Mtrrs /\ NeverUnsuccessful /\ [Next]_vars => NeverUnsuccessful'
  <2> SUFFICES ASSUME IInv, mtrr \in Mtrrs, NeverUnsuccessful, [Next]_vars
               PROVE  NeverUnsuccessful'
    OBVIOUS
  <2>1. CASE CommitPage
    <3>1. CASE Proposal = "reserved"
      <4>1. Top.level = 1 /\ LoopsNest /\ Base <= MaxFrame
        BY <2>1, <3>1 DEF CommitPage, InLoop, IInv
      <4>2. Base \in Nat /\ Proposal = Propose(mtrr, Base, 1)
        BY <4>1, TopOfLoops, Sizes DEF Proposal, PageSize
      <4>3. Base \in 0 .. Pow2[Width] - 1
        <5>1. 0 \in 0 .. Width /\ Base * Pow2[0] = Base
          BY <4>2, Powers, WidthAssumption
        <5>. QED
          BY <4>1, <4>2, <5>1, PageWithinWidth
      <4>. QED
        BY <3>1, <4>2, <4>3, FrameHasType
    <3>2. CASE Proposal # "reserved"
      BY <2>1, <3>2 DEF CommitPage, NeverUnsuccessful
    <3>. QED
      BY <3>1, <3>2
  <2>2. CASE Descend
    BY <2>2 DEF Descend, NeverUnsuccessful
  <2>3. CASE Return
    BY <2>3 DEF Return, NeverUnsuccessful
  <2>4. CASE Returned \/ UNCHANGED vars
    BY <2>4 DEF Returned, vars, NeverUnsuccessful
  <2>. QED
    BY <2>1, <2>2, <2>3, <2>4 DEF Next
<1>. QED
  BY <1>1, <1>2, AlwaysIInv, AlwaysMtrrs, PTL DEF Spec
=============================================================================
