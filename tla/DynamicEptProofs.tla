-------------------------- MODULE DynamicEptProofs --------------------------
(***************************************************************************)
(* Proofs about DynamicEpt and EptStores for every number of nodes and of entries per    *)
(* table, every set of callers' arguments and every outcome of the         *)
(* unreachable code.                                                       *)
(***************************************************************************)
EXTENDS EptStores, FiniteSetTheorems, TLAPS

(***************************************************************************)
(* Entries: what kind says about an entry.                                 *)
(***************************************************************************)
LEMMA EntryKinds ==
  ASSUME NEW e \in Entries
  PROVE  /\ e.kind \in {"none", "wild", "table", "page"}
         /\ e.kind = "table" => e.node \in Nodes /\ e = TableEntry(e.node)
         /\ e.kind = "page" =>
              e.base \in Addr /\ e.flags \in Flags /\ e = PageEntry(e.base, e.flags)
  BY DEF Entries, NoEntry, WildEntry, TableEntry, PageEntry, TableEntries, PageEntries

LEMMA EntryTypes ==
  /\ NoEntry \in Entries /\ NoEntry.kind = "none"
  /\ WildEntry \in Entries /\ WildEntry.kind = "wild"
  /\ \A n \in Nodes : /\ TableEntry(n) \in Entries
                      /\ TableEntry(n).kind = "table"
                      /\ TableEntry(n).node = n
  /\ \A b \in Addr, f \in Flags : /\ PageEntry(b, f) \in Entries
                                  /\ PageEntry(b, f).kind = "page"
                                  /\ PageEntry(b, f).base = b
                                  /\ PageEntry(b, f).flags = f
  BY DEF Entries, NoEntry, WildEntry, TableEntry, PageEntry, TableEntries, PageEntries

(***************************************************************************)
(* A table filled by a split holds pages (or wild entries) and no tables.  *)
(***************************************************************************)
LEMMA SplitFlagsType ==
  ASSUME NEW f \in Flags PROVE SplitFlags(f) \in Flags
  BY DEF Flags, SplitFlags

LEMMA SubBaseType ==
  ASSUME NEW level \in {2, 3}, NEW a \in Addr, NEW i \in Index
  PROVE  SubBase(level, a, i) \in Addr
  BY DEF Addr, SubBase

LEMMA EmptyTableType ==
  /\ EmptyTable \in [Index -> Entries]
  /\ \A i \in Index : EmptyTable[i] = NoEntry
  BY EntryTypes DEF EmptyTable

NoTablesIn(filled, level) ==
  \A i \in Index : /\ filled[i].kind # "table"
                   /\ level = 1 => filled[i].kind # "wild"

LEMMA SplitResultType ==
  ASSUME NEW level \in {2, 3}, NEW e \in Entries, e.kind = "page",
         NEW outcome \in SplitOutcomes(level) \ {"stops"}
  PROVE  /\ SplitResult(outcome, e, level) \in [Index -> Entries]
         /\ NoTablesIn(SplitResult(outcome, e, level), level - 1)
<1> DEFINE f == SplitFlags(e.flags)
<1>1. e.base \in Addr /\ f \in Flags
  BY EntryKinds, SplitFlagsType
<1>2. ASSUME NEW i \in Index PROVE PageEntry(SubBase(level, e.base, i), f) \in Entries
                                 /\ PageEntry(SubBase(level, e.base, i), f).kind = "page"
  BY <1>1, SubBaseType, EntryTypes
<1>3. CASE outcome = "intended"
  BY <1>1, <1>2, <1>3, EntryTypes DEF SplitResult, SplitTable, NoTablesIn
<1>4. CASE outcome # "intended"
  <2>1. level = 3
    BY <1>4 DEF SplitOutcomes
  <2>. QED
    BY <1>4, <2>1, EntryTypes DEF SplitResult, MissplitTable, NoTablesIn
<1>. QED
  BY <1>3, <1>4
-----------------------------------------------------------------------------
(***************************************************************************)
(* The search for a child finds the node the entry refers to.              *)
(***************************************************************************)
LEMMA ChildIsEntry ==
  ASSUME IInv, NEW p \in Live, NEW i \in Index
  PROVE  /\ \A c \in ChildrenAt(p, i) :
              /\ c \in Live /\ c # top /\ parent[c] = p /\ table_index[c] = i
              /\ table_level[c] = table_level[p] - 1
              /\ table[p][i] = TableEntry(c)
         /\ table[p][i].kind = "table" => table[p][i].node \in ChildrenAt(p, i)
<1>1. ASSUME NEW c \in ChildrenAt(p, i)
      PROVE  /\ c \in Live /\ c # top /\ parent[c] = p /\ table_index[c] = i
             /\ table_level[c] = table_level[p] - 1
             /\ table[p][i] = TableEntry(c)
  <2>1. c \in Nodes /\ parent[c] = p /\ table_index[c] = i /\ p \in Nodes /\ p # null
    BY NullAssumption DEF ChildrenAt, Children, Live
  <2>2. c \in Live
    BY <2>1 DEF IInv, FreeNodesDetached, Live
  <2>3. c # top
    BY <2>1, <2>2 DEF IInv, TreeMatchesTables
  <2>4. HangsBelow(c)
    BY <2>2, <2>3 DEF IInv, TreeMatchesTables
  <2>. QED
    BY <2>1, <2>2, <2>3, <2>4 DEF HangsBelow, IInv, TypeOK
<1>2. ASSUME table[p][i].kind = "table" PROVE table[p][i].node \in ChildrenAt(p, i)
  <2>1. RefersToChild(p, i)
    BY <1>2 DEF IInv, TreeMatchesTables
  <2>. QED
    BY <2>1 DEF RefersToChild, ChildrenAt, Children, Live
<1>. QED
  BY <1>1, <1>2

LEMMA GetChildIsEntry ==
  ASSUME IInv, NEW p \in Live, NEW i \in Index
  PROVE  /\ GetChild(p, i) # null => GetChild(p, i) \in ChildrenAt(p, i)
         /\ table[p][i].kind = "table" => GetChild(p, i) = table[p][i].node
         /\ GetChild(p, i) = null => table[p][i].kind # "table"
<1>1. GetChild(p, i) # null => GetChild(p, i) \in ChildrenAt(p, i)
  BY DEF GetChild
<1>2. ASSUME table[p][i].kind = "table" PROVE GetChild(p, i) = table[p][i].node
  <2>1. table_level[p] \in 2 .. 4
    BY <1>2 DEF IInv, EntriesFitLevels
  <2>2. GetChild(p, i) \in ChildrenAt(p, i)
    BY <1>2, <2>1, ChildIsEntry DEF GetChild, IsPmlPresent
  <2>3. GetChild(p, i) \in Nodes /\ table[p][i] = TableEntry(GetChild(p, i))
    BY <2>2, ChildIsEntry DEF Live
  <2>. QED
    BY <2>3, EntryTypes
<1>3. table[p][i].kind = "table" => GetChild(p, i) # null
  <2>1. SUFFICES ASSUME table[p][i].kind = "table" PROVE table[p][i].node \in Nodes
    BY <1>2, NullAssumption
  <2>. QED
    BY <2>1, ChildIsEntry DEF ChildrenAt, Children
<1>. QED
  BY <1>1, <1>2, <1>3

(***************************************************************************)
(* What node_free reaches below a node of the tree is closed under the     *)
(* children of the tree, and from the top it is the whole tree.            *)
(***************************************************************************)
LEMMA SubtreeClosed ==
  ASSUME IInv, NEW c \in Live
  PROVE  /\ Subtree(c) \subseteq Live
         /\ \A m \in Subtree(c) : m = c \/ parent[m] \in Subtree(c)
         /\ \A m \in Nodes : parent[m] \in Subtree(c) => m \in Subtree(c)
         /\ c # top => top \notin Subtree(c)
         /\ \A m \in Subtree(c) : table_level[m] <= table_level[c]
<1> DEFINE kids  == ChildrenOf({c})
           grand == ChildrenOf(kids)
           third == ChildrenOf(grand)
<1>1. Subtree(c) = {c} \union kids \union grand \union third
  BY DEF Subtree
<1>2. ASSUME NEW S \in SUBSET Live, NEW m \in ChildrenOf(S)
      PROVE  /\ m \in Live /\ m # top /\ parent[m] \in S
             /\ table_level[m] \in 1 .. 3
             /\ table_level[parent[m]] = table_level[m] + 1
  <2>1. m \in Nodes /\ parent[m] \in S /\ parent[m] # null
    BY NullAssumption DEF ChildrenOf, Live
  <2>2. m \in Live /\ m # top
    BY <2>1 DEF IInv, FreeNodesDetached, Live, TreeMatchesTables
  <2>. QED
    BY <2>1, <2>2 DEF IInv, TreeMatchesTables, HangsBelow
<1>3. kids \in SUBSET Live /\ grand \in SUBSET Live /\ third \in SUBSET Live
  <2>1. kids \in SUBSET Live
    BY <1>2
  <2>2. grand \in SUBSET Live
    BY <1>2, <2>1
  <2>. QED
    BY <1>2, <2>1, <2>2
<1>4. ASSUME NEW m \in Nodes, parent[m] \in third PROVE FALSE
  <2>1. m \in ChildrenOf(third)
    BY <1>4 DEF ChildrenOf
  <2>2. table_level[m] \in 1 .. 3 /\ table_level[parent[m]] = table_level[m] + 1
    BY <1>2, <1>3, <2>1
  <2>3. PICK a \in third : a = parent[m]
    BY <1>4
  <2>4. parent[a] \in grand /\ table_level[parent[a]] = table_level[a] + 1
    BY <1>2, <1>3
  <2>5. PICK b \in grand : b = parent[a]
    BY <2>4
  <2>6. parent[b] \in kids /\ table_level[parent[b]] = table_level[b] + 1
    BY <1>2, <1>3
  <2>7. PICK d \in kids : d = parent[b]
    BY <2>6
  <2>8. table_level[parent[d]] = table_level[d] + 1 /\ parent[d] = c
    BY <1>2, <1>3
  <2>9. table_level[c] \in 0 .. 4
    BY DEF IInv, TypeOK, Live
  <2>. QED
    BY <2>2, <2>3, <2>4, <2>5, <2>6, <2>7, <2>8, <2>9
<1>5. \A m \in Subtree(c) : m = c \/ parent[m] \in Subtree(c)
  BY <1>1, <1>2, <1>3
<1>6. \A m \in Nodes : parent[m] \in Subtree(c) => m \in Subtree(c)
  BY <1>1, <1>4 DEF ChildrenOf
<1>7. c # top => top \notin Subtree(c)
  BY <1>1, <1>2, <1>3
<1>8. \A m \in Subtree(c) : table_level[m] <= table_level[c]
  <2>1. table_level \in [Nodes -> 0 .. 4]
    BY DEF IInv, TypeOK
  <2>2. \A m \in kids : m \in Nodes /\ table_level[m] <= table_level[c]
    BY <1>2, <2>1 DEF Live
  <2>3. \A m \in grand : m \in Nodes /\ table_level[m] <= table_level[c]
    BY <1>2, <1>3, <2>1, <2>2 DEF Live
  <2>4. \A m \in third : m \in Nodes /\ table_level[m] <= table_level[c]
    BY <1>2, <1>3, <2>1, <2>3 DEF Live
  <2>. QED
    BY <1>1, <2>1, <2>2, <2>3, <2>4 DEF Live
<1>. QED
  BY <1>1, <1>3, <1>5, <1>6, <1>7, <1>8

LEMMA SubtreeOfTop ==
  ASSUME IInv, top # null
  PROVE  Subtree(top) = Live
<1>1. top \in Live /\ table_level[top] = 4 /\ \A n \in Live \ {top} : HangsBelow(n)
  BY DEF IInv, TreeMatchesTables
<1>2. \A m \in Live \ {top} : m \in Subtree(top)
  <2>1. ASSUME NEW m \in Live \ {top}, table_level[m] = 3
        PROVE  m \in ChildrenOf({top})
    BY <1>1, <2>1 DEF HangsBelow, ChildrenOf, Live
  <2>2. ASSUME NEW m \in Live \ {top}, table_level[m] = 2
        PROVE  m \in ChildrenOf(ChildrenOf({top}))
    BY <1>1, <2>1, <2>2 DEF HangsBelow, ChildrenOf, Live
  <2>3. ASSUME NEW m \in Live \ {top}, table_level[m] = 1
        PROVE  m \in ChildrenOf(ChildrenOf(ChildrenOf({top})))
    <3>1. parent[m] \in Live \ {top} /\ table_level[parent[m]] = 2
      BY <1>1, <2>3 DEF HangsBelow
    <3>2. parent[m] \in ChildrenOf(ChildrenOf({top}))
      BY <2>2, <3>1
    <3>. QED
      BY <3>2 DEF ChildrenOf, Live
  <2>4. \A m \in Live \ {top} : table_level[m] \in {1, 2, 3}
    BY <1>1 DEF HangsBelow
  <2>. QED
    BY <2>1, <2>2, <2>3, <2>4 DEF Subtree
<1>3. Subtree(top) \subseteq Live
  BY <1>1, SubtreeClosed
<1>4. top \in Subtree(top)
  BY DEF Subtree
<1>. QED
  BY <1>2, <1>3, <1>4
-----------------------------------------------------------------------------
(***************************************************************************)
(* The initial state, and the steps that leave the nodes alone.            *)
(***************************************************************************)
LEMMA InitIInv == Init => IInv
<1> SUFFICES ASSUME Init PROVE IInv
  OBVIOUS
<1>1. 0 \in Index
  BY FanoutAssumption DEF Index
<1>2. TypeOK
  BY <1>1, EmptyTableType DEF Init, TypeOK, Status
<1>3. Live = {}
  BY DEF Init, Live
<1>. QED
  BY <1>2, <1>3 DEF Init, IInv, FreeNodesDetached, TreeMatchesTables, EntriesFitLevels,
                    CallOnTree

(***************************************************************************)
(* Only what the call, the status and the stop flag say changes.           *)
(***************************************************************************)
LEMMA SameNodes ==
  ASSUME IInv, UNCHANGED <<pool, cache, top, nodeVars>>,
         call' \in Calls \union {NoCall}, status' \in Status,
         halted' \in {"no", "pool", "unreachable"}, CallOnTree'
  PROVE  IInv'
<1> USE DEF nodeVars
<1>1. TypeOK'
  BY DEF IInv, TypeOK
<1>2. Live' = Live
  BY DEF Live
<1>3. FreeNodesDetached' /\ (pool \intersect cache = {})'
  BY DEF IInv, FreeNodesDetached
<1>4. TreeMatchesTables'
  BY <1>2 DEF IInv, TreeMatchesTables, HangsBelow, RefersToChild
<1>5. EntriesFitLevels'
  BY <1>2 DEF IInv, EntriesFitLevels
<1>. QED
  BY <1>1, <1>3, <1>4, <1>5 DEF IInv

LEMMA ReturnIInv ==
  ASSUME IInv, NEW s \in Status, Return(s)
  PROVE  IInv'
<1>1. CallOnTree'
  BY DEF Return, IInv, CallOnTree, Live, nodeVars
<1>. QED
  BY <1>1, SameNodes DEF Return, IInv, TypeOK

LEMMA PoolExhaustedIInv ==
  ASSUME IInv, PoolExhausted
  PROVE  IInv'
<1>1. CallOnTree'
  BY DEF PoolExhausted, IInv, CallOnTree, Live, nodeVars
<1>. QED
  BY <1>1, SameNodes DEF PoolExhausted, IInv, TypeOK

LEMMA CheckPageType ==
  ASSUME NEW level, NEW aligned
  PROVE  /\ CheckPage(level, aligned) \in Status
         /\ CheckPage(level, aligned) = "success" => level \in PageLevels
  BY DEF CheckPage, Status

(***************************************************************************)
(* A page entry of the tree replaced by another page or by nothing.        *)
(***************************************************************************)
LEMMA SetEntryIInv ==
  ASSUME IInv, NEW n \in Live, NEW i \in Index, NEW e \in Entries,
         table_level[n] \in PageLevels, table[n][i].kind # "table",
         e.kind \in {"none", "page"}, SetEntry(n, i, e),
         UNCHANGED <<pool, cache, top, call, halted>>, status' \in Status
  PROVE  IInv'
<1>1. /\ table' \in [Nodes -> [Index -> Entries]]
      /\ \A m \in Nodes, j \in Index :
           table'[m][j] = IF m = n /\ j = i THEN e ELSE table[m][j]
  BY DEF SetEntry, IInv, TypeOK, Live
<1>2. Live' = Live /\ UNCHANGED <<parent, table_level, table_index>>
  BY DEF Live, SetEntry
<1>3. TypeOK'
  BY <1>1, <1>2 DEF IInv, TypeOK
<1>4. FreeNodesDetached' /\ (pool \intersect cache = {})' /\ CallOnTree'
  BY <1>2 DEF IInv, FreeNodesDetached, CallOnTree
<1>5. TreeMatchesTables'
  <2>1. ASSUME NEW m \in Live \ {top} PROVE HangsBelow(m)'
    <3>1. HangsBelow(m) /\ parent[m] \in Nodes /\ table_index[m] \in Index /\ m \in Nodes
      BY DEF IInv, TreeMatchesTables, TypeOK, HangsBelow, Live
    <3>2. table[parent[m]][table_index[m]].kind = "table"
      BY <3>1, EntryTypes DEF HangsBelow
    <3>3. table'[parent[m]][table_index[m]] = table[parent[m]][table_index[m]]
      BY <1>1, <3>1, <3>2
    <3>. QED
      BY <1>2, <3>1, <3>3 DEF HangsBelow
  <2>2. ASSUME NEW p \in Live, NEW j \in Index, table'[p][j].kind = "table"
        PROVE  RefersToChild(p, j)'
    <3>1. table'[p][j] = table[p][j]
      BY <1>1, <2>2 DEF Live
    <3>2. RefersToChild(p, j)
      BY <2>2, <3>1 DEF IInv, TreeMatchesTables
    <3>. QED
      BY <1>2, <3>1, <3>2 DEF RefersToChild
  <2>. QED
    BY <1>2, <2>1, <2>2 DEF IInv, TreeMatchesTables
<1>6. EntriesFitLevels'
  BY <1>1, <1>2 DEF IInv, EntriesFitLevels, Live
<1>. QED
  BY <1>3, <1>4, <1>5, <1>6 DEF IInv
-----------------------------------------------------------------------------
LEMMA DescendType ==
  ASSUME call \in Calls, call.next \in 1 .. 3, NEW n \in Nodes, Descend(n)
  PROVE  /\ call' \in Calls /\ call'.node = n /\ call'.next = call.next - 1
         /\ call'.level = call.level
<1>1. call' = [level |-> call.level, gpa |-> call.gpa, hpa |-> call.hpa,
               flags |-> call.flags, high_irql |-> call.high_irql, node |-> n,
               next |-> call.next - 1]
  BY DEF Descend, Calls
<1>2. call.next - 1 \in 0 .. 3
  OBVIOUS
<1>. QED
  BY <1>1, <1>2 DEF Calls

(***************************************************************************)
(* node_ensure hangs a new node below the node of the call.                *)
(***************************************************************************)
LEMMA AttachIInv ==
  ASSUME IInv, Ensuring, NEW n \in Nodes, NEW filled \in [Index -> Entries],
         Take(n), Attach(n, call.node, EnsureIndex, filled), Descend(n),
         GetChild(call.node, EnsureIndex) = null,
         NoTablesIn(filled, call.next),
         UNCHANGED <<top, status, halted>>
  PROVE  IInv'
<1> DEFINE p == call.node
           i == EnsureIndex
<1>1. /\ call \in Calls /\ p \in Live /\ i \in Index /\ call.next \in 1 .. 3
      /\ table_level[p] = call.next + 1 /\ top # null
  <2>1. call \in Calls /\ call.next \in 1 .. 3
    BY DEF Ensuring, IInv, TypeOK, Calls, PageLevels
  <2>2. call.gpa \in Addr /\ call.next + 1 \in 0 .. 4
    BY <2>1, CallerAssumption DEF Calls
  <2>. QED
    BY <2>1, <2>2 DEF Ensuring, IInv, CallOnTree, EnsureIndex, Addr
<1>2. /\ n \in pool \union cache /\ n # p /\ n # top /\ n \notin Live
      /\ pool' \subseteq Nodes /\ cache' \subseteq Nodes /\ (pool \intersect cache = {})'
      /\ Live' = Live \union {n}
  BY <1>1 DEF Take, IInv, TypeOK, Live, TreeMatchesTables
<1>3. table[p][i].kind # "table"
  BY <1>1, GetChildIsEntry
<1>4. /\ table' \in [Nodes -> [Index -> Entries]]
      /\ \A m \in Nodes, j \in Index :
           table'[m][j] = IF m = p /\ j = i THEN TableEntry(n)
                          ELSE IF m = n THEN filled[j] ELSE table[m][j]
  <2>1. table \in [Nodes -> [Index -> Entries]] /\ p \in Nodes
    BY <1>1 DEF IInv, TypeOK, Live
  <2>. QED
    BY <1>1, <1>2, <2>1, EntryTypes DEF Attach
<1>5. /\ parent' \in [Nodes -> Nodes \union {null}]
      /\ table_level' \in [Nodes -> 0 .. 4]
      /\ table_index' \in [Nodes -> Index]
      /\ parent'[n] = p /\ table_level'[n] = call.next /\ table_index'[n] = i
      /\ \A m \in Nodes \ {n} : /\ parent'[m] = parent[m]
                                /\ table_level'[m] = table_level[m]
                                /\ table_index'[m] = table_index[m]
  BY <1>1 DEF Attach, IInv, TypeOK, Live
<1>6. /\ call' \in Calls /\ call'.node = n /\ call'.next = call.next - 1
      /\ call'.level = call.level
  BY <1>1, DescendType
<1>7. TypeOK'
  BY <1>2, <1>4, <1>5, <1>6 DEF IInv, TypeOK
<1>8. FreeNodesDetached'
  BY <1>2, <1>5 DEF IInv, FreeNodesDetached, Take, TypeOK
<1>9. CallOnTree'
  BY <1>1, <1>2, <1>5, <1>6 DEF CallOnTree, Ensuring, IInv, Calls, PageLevels
<1>10. TreeMatchesTables'
  <2>1. HangsBelow(n)'
    BY <1>1, <1>2, <1>4, <1>5 DEF HangsBelow, Live
  <2>2. ASSUME NEW m \in Live \ {top} PROVE HangsBelow(m)'
    <3>1. HangsBelow(m) /\ parent[m] \in Live /\ table_index[m] \in Index
      BY DEF IInv, TreeMatchesTables, TypeOK, HangsBelow, Live
    <3>2. table[parent[m]][table_index[m]] = TableEntry(m)
      BY <3>1 DEF HangsBelow
    <3>3. ~(parent[m] = p /\ table_index[m] = i) /\ parent[m] # n
      BY <1>2, <1>3, <3>1, <3>2, EntryTypes DEF Live
    <3>4. table'[parent[m]][table_index[m]] = TableEntry(m)
      BY <1>4, <3>1, <3>2, <3>3 DEF Live
    <3>. QED
      BY <1>2, <1>5, <3>1, <3>3, <3>4 DEF HangsBelow, Live
  <2>3. ASSUME NEW q \in Live', NEW j \in Index, table'[q][j].kind = "table"
        PROVE  RefersToChild(q, j)'
    <3>1. CASE q = p /\ j = i
      BY <1>1, <1>2, <1>4, <1>5, <3>1, EntryTypes DEF RefersToChild, Live
    <3>2. CASE q = n
      BY <1>2, <1>4, <2>3, <3>2 DEF Live, NoTablesIn
    <3>3. CASE q # n /\ ~(q = p /\ j = i)
      <4>1. q \in Live /\ table'[q][j] = table[q][j]
        BY <1>2, <1>4, <3>3 DEF Live
      <4>2. RefersToChild(q, j)
        BY <2>3, <4>1 DEF IInv, TreeMatchesTables
      <4>. QED
        BY <1>2, <1>5, <4>1, <4>2 DEF RefersToChild, Live
    <3>. QED
      BY <3>1, <3>2, <3>3
  <2>4. top \in Live' /\ parent'[top] = null /\ table_level'[top] = 4
    BY <1>1, <1>2, <1>5 DEF IInv, TreeMatchesTables, Live
  <2>. QED
    BY <1>1, <1>2, <2>1, <2>2, <2>3, <2>4 DEF TreeMatchesTables
<1>11. EntriesFitLevels'
  <2>1. SUFFICES ASSUME NEW m \in Live', NEW j \in Index
                 PROVE  /\ table'[m][j].kind = "page" => table_level'[m] \in PageLevels
                        /\ table'[m][j].kind \in {"table", "wild"} =>
                             table_level'[m] \in 2 .. 4
    BY DEF EntriesFitLevels
  <2>2. CASE m = n
    BY <1>1, <1>2, <1>4, <1>5, <2>2 DEF PageLevels, Live, NoTablesIn
  <2>3. CASE m = p /\ j = i
    BY <1>1, <1>2, <1>4, <1>5, <2>3, EntryTypes DEF Live
  <2>4. CASE m # n /\ ~(m = p /\ j = i)
    BY <1>2, <1>4, <1>5, <2>4 DEF IInv, EntriesFitLevels, Live
  <2>. QED
    BY <2>2, <2>3, <2>4
<1>. QED
  BY <1>2, <1>7, <1>8, <1>9, <1>10, <1>11 DEF IInv

LEMMA EnsureFoundIInv ==
  ASSUME IInv, EnsureFound
  PROVE  IInv'
<1> DEFINE child == GetChild(call.node, EnsureIndex)
<1>1. /\ call \in Calls /\ call.next \in 1 .. 3 /\ call.node \in Live
      /\ EnsureIndex \in Index /\ table_level[call.node] = call.next + 1
      /\ call.next >= call.level /\ top # null
  <2>1. call \in Calls /\ call.next \in 1 .. 3 /\ call.next >= call.level
    BY DEF EnsureFound, Ensuring, IInv, TypeOK, Calls, PageLevels
  <2>2. call.gpa \in Addr /\ call.next + 1 \in 0 .. 4
    BY <2>1, CallerAssumption DEF Calls
  <2>. QED
    BY <2>1, <2>2 DEF EnsureFound, Ensuring, IInv, CallOnTree, EnsureIndex, Addr
<1>2. child \in Live /\ table_level[child] = table_level[call.node] - 1
  BY <1>1, GetChildIsEntry, ChildIsEntry DEF EnsureFound
<1>3. /\ call' \in Calls /\ call'.node = child /\ call'.next = call.next - 1
      /\ call'.level = call.level
  BY <1>1, <1>2, DescendType DEF EnsureFound, Live
<1>4. CallOnTree'
  <2>1. Live' = Live /\ UNCHANGED <<top, table_level>>
    BY DEF EnsureFound, Live, nodeVars
  <2>2. table_level[child] = call'.next + 1 /\ call'.next + 1 >= call'.level
    BY <1>1, <1>2, <1>3 DEF Calls, PageLevels
  <2>. QED
    BY <1>1, <1>2, <1>3, <2>1, <2>2 DEF CallOnTree
<1>. QED
  BY <1>3, <1>4, SameNodes DEF EnsureFound, IInv, TypeOK

LEMMA EnsureAttachIInv ==
  ASSUME IInv, EnsureAttach
  PROVE  IInv'
<1>1. PICK n \in Nodes : /\ Take(n)
                         /\ Attach(n, call.node, EnsureIndex, EmptyTable)
                         /\ Descend(n)
  BY DEF EnsureAttach
<1>2. NoTablesIn(EmptyTable, call.next)
  BY EmptyTableType, EntryTypes DEF NoTablesIn
<1>. QED
  BY <1>1, <1>2, AttachIInv, EmptyTableType DEF EnsureAttach

LEMMA EnsureSplitIInv ==
  ASSUME IInv, EnsureSplit
  PROVE  IInv'
<1> DEFINE p == call.node
           i == EnsureIndex
<1>1. PICK n \in Nodes, outcome \in SplitOutcomes(table_level[p]) \ {"stops"} :
        /\ Take(n)
        /\ Attach(n, p, i, SplitResult(outcome, table[p][i], table_level[p]))
        /\ Descend(n)
  BY DEF EnsureSplit
<1>2. /\ p \in Nodes /\ i \in Index /\ table[p][i] \in Entries
      /\ table_level[p] = call.next + 1 /\ call.next \in 1 .. 3
  <2>1. call \in Calls /\ call.next \in 1 .. 3
    BY DEF EnsureSplit, Ensuring, IInv, TypeOK, Calls, PageLevels
  <2>2. call.gpa \in Addr /\ call.next + 1 \in 0 .. 4
    BY <2>1, CallerAssumption DEF Calls
  <2>. QED
    BY <2>1, <2>2 DEF EnsureSplit, Ensuring, IInv, TypeOK, CallOnTree, EnsureIndex, Addr, Live
<1>3. table[p][i].kind = "page" /\ table_level[p] \in {2, 3}
  BY <1>2 DEF EnsureSplit, IsPagePresent, PageLevels
<1>4. PICK filled \in [Index -> Entries] :
        /\ filled = SplitResult(outcome, table[p][i], table_level[p])
        /\ NoTablesIn(filled, call.next)
  BY <1>1, <1>2, <1>3, SplitResultType
<1>5. /\ Take(n) /\ Descend(n) /\ Attach(n, call.node, EnsureIndex, filled)
      /\ Ensuring /\ GetChild(call.node, EnsureIndex) = null
      /\ UNCHANGED <<top, status, halted>>
  BY <1>1, <1>4 DEF EnsureSplit
<1>. QED
  BY <1>4, <1>5, AttachIInv

LEMMA EnsureStopsIInv ==
  ASSUME IInv, EnsureStops
  PROVE  IInv'
<1>1. CallOnTree'
  BY DEF EnsureStops, IInv, CallOnTree, Live, nodeVars
<1>. QED
  BY <1>1, SameNodes DEF EnsureStops, IInv, TypeOK

LEMMA EnsureFailsIInv ==
  ASSUME IInv, EnsureFails
  PROVE  IInv'
<1>1. CASE PoolExhausted
  BY <1>1, PoolExhaustedIInv
<1>2. CASE ~PoolExhausted
  <2>1. /\ call' = NoCall /\ status' = "insufficient_resources"
        /\ UNCHANGED <<pool, cache, top, nodeVars, halted>>
    BY <1>2 DEF EnsureFails
  <2>2. CallOnTree'
    BY <2>1 DEF CallOnTree
  <2>. QED
    BY <2>1, <2>2, SameNodes DEF IInv, TypeOK, Status
<1>. QED
  BY <1>1, <1>2

(***************************************************************************)
(* The end of commit_page: a subtree leaves the tree whole, and the entry  *)
(* it hung from becomes a page.                                            *)
(***************************************************************************)
LEMMA CommitFinishIInv ==
  ASSUME IInv, CommitFinish
  PROVE  IInv'
<1> DEFINE p     == call.node
           i     == call.gpa[call.level]
           child == GetChild(p, i)
           freed == IF child = null THEN {} ELSE Subtree(child)
           page  == PageEntry(call.hpa, call.flags)
<1>1. /\ call \in Calls /\ p \in Live /\ p \in Nodes /\ i \in Index /\ top # null
      /\ table_level[p] = call.level /\ table_level[p] \in PageLevels
      /\ page \in Entries /\ page.kind = "page"
  <2>1. call \in Calls /\ call.next + 1 = call.level
    BY DEF CommitFinish, IInv, TypeOK, CallOnTree, Calls, PageLevels
  <2>2. call.gpa \in Addr /\ call.hpa \in Addr /\ call.flags \in Flags
        /\ call.level \in 0 .. 4
    BY <2>1, CallerAssumption DEF Calls, PageLevels
  <2>3. p \in Live /\ table_level[p] = call.level /\ top # null
    BY <2>1 DEF CommitFinish, IInv, CallOnTree
  <2>. QED
    BY <2>1, <2>2, <2>3, EntryTypes DEF Addr, Live, Calls
<1>2. /\ freed \subseteq Live /\ p \notin freed /\ top \notin freed
      /\ \A m \in Nodes : parent[m] \in freed => m \in freed
      /\ \A m \in freed : parent[m] \in freed \/ (parent[m] = p /\ table_index[m] = i)
  <2>1. CASE child = null
    BY <2>1
  <2>2. CASE child # null
    <3>1. /\ child \in Live /\ child # top /\ parent[child] = p /\ table_index[child] = i
          /\ table_level[child] = table_level[p] - 1
      BY <1>1, <2>2, GetChildIsEntry, ChildIsEntry
    <3>2. p \notin Subtree(child)
      BY <1>1, <3>1, SubtreeClosed DEF PageLevels
    <3>. QED
      BY <2>2, <3>1, <3>2, SubtreeClosed
  <2>. QED
    BY <2>1, <2>2
<1>3. \A m \in Live \ {top} :
        m \notin freed => /\ parent[m] \in Live \ freed
                          /\ ~(parent[m] = p /\ table_index[m] = i)
  <2>1. SUFFICES ASSUME NEW m \in Live \ {top}, m \notin freed,
                        parent[m] = p, table_index[m] = i
                 PROVE  FALSE
    BY <1>2 DEF IInv, TreeMatchesTables, HangsBelow, Live
  <2>2. table[p][i] = TableEntry(m) /\ m \in Nodes
    BY <2>1 DEF IInv, TreeMatchesTables, HangsBelow, Live
  <2>3. child = m
    BY <1>1, <2>2, GetChildIsEntry, EntryTypes
  <2>. QED
    BY <2>1, <2>2, <2>3, NullAssumption DEF Subtree
<1> HIDE DEF freed, child, page
<1>4. /\ pool' \subseteq Nodes /\ cache' \subseteq Nodes /\ (pool \intersect cache = {})'
      /\ Live' = Live \ freed /\ pool' \union cache' = pool \union cache \union freed
  BY <1>2 DEF CommitFinish, IInv, TypeOK, Live, freed, child
<1>5. /\ parent' = [n \in Nodes |-> IF n \in freed THEN null ELSE parent[n]]
      /\ table_level' = [n \in Nodes |-> IF n \in freed THEN 0 ELSE table_level[n]]
      /\ table_index' = [n \in Nodes |-> IF n \in freed THEN 0 ELSE table_index[n]]
      /\ table' = [n \in Nodes |->
                     CASE n \in freed -> IF call.high_irql THEN StaleTable(n) ELSE EmptyTable
                       [] n = p -> [table[n] EXCEPT ![i] = page]
                       [] OTHER -> table[n]]
      /\ UNCHANGED <<top, halted>> /\ call' = NoCall /\ status' = "success"
  BY DEF CommitFinish, freed, child, page
<1>6. /\ parent' \in [Nodes -> Nodes \union {null}]
      /\ table_level' \in [Nodes -> 0 .. 4]
      /\ table_index' \in [Nodes -> Index]
  BY <1>5, FanoutAssumption DEF IInv, TypeOK, Index
<1>7. \A m \in Nodes \ freed :
        /\ table'[m] \in [Index -> Entries]
        /\ \A j \in Index : table'[m][j] = IF m = p /\ j = i THEN page ELSE table[m][j]
  BY <1>1, <1>5 DEF IInv, TypeOK
<1>8. table' \in [Nodes -> [Index -> Entries]]
  <2>1. \A m \in Nodes : StaleTable(m) \in [Index -> Entries]
    BY EntryTypes DEF StaleTable, IInv, TypeOK
  <2>2. \A m \in freed : table'[m] \in [Index -> Entries]
    BY <1>2, <1>5, <2>1, EmptyTableType DEF Live
  <2>. QED
    BY <1>5, <1>7, <2>2
<1>9. TypeOK'
  BY <1>4, <1>5, <1>6, <1>8 DEF IInv, TypeOK, Status
<1>10. FreeNodesDetached' /\ CallOnTree'
  BY <1>4, <1>5 DEF IInv, FreeNodesDetached, TypeOK, CallOnTree
<1>11. TreeMatchesTables'
  <2>1. ASSUME NEW m \in Live' \ {top} PROVE HangsBelow(m)'
    <3>1. /\ m \in Live \ {top} /\ m \notin freed /\ m \in Nodes /\ HangsBelow(m)
          /\ parent[m] \in Live \ freed /\ parent[m] \in Nodes
          /\ table_index[m] \in Index /\ ~(parent[m] = p /\ table_index[m] = i)
      BY <1>3, <1>4 DEF IInv, TreeMatchesTables, TypeOK, Live
    <3>2. table'[parent[m]][table_index[m]] = TableEntry(m)
      BY <1>7, <3>1 DEF HangsBelow
    <3>. QED
      BY <1>4, <1>5, <3>1, <3>2 DEF HangsBelow
  <2>2. ASSUME NEW q \in Live', NEW j \in Index, table'[q][j].kind = "table"
        PROVE  RefersToChild(q, j)'
    <3>1. q \in Live /\ q \notin freed /\ q \in Nodes
      BY <1>4 DEF Live
    <3>2. table'[q][j] = table[q][j] /\ ~(q = p /\ j = i)
      BY <1>1, <1>7, <2>2, <3>1
    <3>3. RefersToChild(q, j)
      BY <2>2, <3>1, <3>2 DEF IInv, TreeMatchesTables
    <3>4. table[q][j].node \notin freed
      BY <1>2, <3>1, <3>2, <3>3 DEF RefersToChild
    <3>. QED
      BY <1>4, <1>5, <3>2, <3>3, <3>4 DEF RefersToChild, Live
  <2>3. top \in Live' /\ parent'[top] = null /\ table_level'[top] = 4
    BY <1>1, <1>2, <1>4, <1>5 DEF IInv, TreeMatchesTables, Live
  <2>. QED
    BY <1>1, <1>5, <2>1, <2>2, <2>3 DEF TreeMatchesTables
<1>12. EntriesFitLevels'
  <2>1. ASSUME NEW m \in Live', NEW j \in Index
        PROVE  /\ table'[m][j].kind = "page" => table_level'[m] \in PageLevels
               /\ table'[m][j].kind \in {"table", "wild"} => table_level'[m] \in 2 .. 4
    <3>1. m \in Live /\ m \notin freed /\ m \in Nodes /\ table_level'[m] = table_level[m]
      BY <1>4, <1>5 DEF Live
    <3>. QED
      BY <1>1, <1>7, <3>1 DEF IInv, EntriesFitLevels
  <2>. QED
    BY <2>1 DEF EntriesFitLevels
<1>. QED
  BY <1>4, <1>9, <1>10, <1>11, <1>12 DEF IInv
-----------------------------------------------------------------------------
(***************************************************************************)
(* The operations that are single steps.                                   *)
(***************************************************************************)
LEMMA InitializeIInv ==
  ASSUME IInv, Initialize
  PROVE  IInv'
<1>1. CASE PoolExhausted
  BY <1>1, PoolExhaustedIInv
<1>2. CASE ~PoolExhausted
  <2>1. PICK n \in pool :
          /\ pool' = pool \ {n} /\ top' = n
          /\ table_level' = [table_level EXCEPT ![n] = 4]
          /\ table' = [table EXCEPT ![n] = EmptyTable]
          /\ status' = "success"
          /\ UNCHANGED <<cache, parent, table_index, call, halted>>
    BY <1>2 DEF Initialize
  <2>2. n \in Nodes /\ n # null /\ Live = {} /\ parent[n] = null /\ call = NoCall
    BY NullAssumption DEF Initialize, IInv, TypeOK, TreeMatchesTables, FreeNodesDetached
  <2>3. Live' = {n} /\ FreeNodesDetached' /\ (pool \intersect cache = {})' /\ CallOnTree'
    BY <2>1, <2>2 DEF Live, IInv, TypeOK, FreeNodesDetached, CallOnTree
  <2>4. table_level'[n] = 4 /\ \A i \in Index : table'[n][i].kind = "none"
    BY <2>1, <2>2, EmptyTableType, EntryTypes DEF IInv, TypeOK
  <2>5. TypeOK'
    BY <2>1, <2>2, EmptyTableType DEF IInv, TypeOK, Status
  <2>6. TreeMatchesTables' /\ EntriesFitLevels'
    BY <2>1, <2>2, <2>3, <2>4 DEF TreeMatchesTables, EntriesFitLevels
  <2>. QED
    BY <2>3, <2>5, <2>6 DEF IInv
<1>. QED
  BY <1>1, <1>2

LEMMA PrepareIInv ==
  ASSUME IInv, NEW level \in 0 .. 3, NEW gpa \in GuestAddrs, Prepare(level, gpa)
  PROVE  IInv'
<1> DEFINE check == CheckPage(level, Aligned(level, gpa))
<1>1. CASE Return(check)
  BY <1>1, ReturnIInv, CheckPageType
<1>2. CASE Return("success")
  BY <1>2, ReturnIInv DEF Status
<1>3. ASSUME NEW fresh \in SUBSET pool, pool' = pool \ fresh, cache' = cache \union fresh,
             status' \in Status, halted' \in {"no", "pool", "unreachable"},
             UNCHANGED <<top, nodeVars, call>>
      PROVE  IInv'
  <2>1. Live' = Live /\ pool' \union cache' = pool \union cache
        /\ (pool \intersect cache = {})'
    BY <1>3 DEF Live, IInv
  <2>2. TypeOK'
    BY <1>3 DEF IInv, TypeOK, nodeVars
  <2>3. FreeNodesDetached' /\ CallOnTree'
    BY <1>3, <2>1 DEF IInv, FreeNodesDetached, CallOnTree, nodeVars
  <2>4. TreeMatchesTables' /\ EntriesFitLevels'
    BY <1>3, <2>1 DEF IInv, TreeMatchesTables, EntriesFitLevels, HangsBelow,
                      RefersToChild, nodeVars
  <2>. QED
    BY <2>1, <2>2, <2>3, <2>4 DEF IInv
<1>4. \/ Return(check)
      \/ Return("success")
      \/ \E fresh \in SUBSET pool :
           /\ pool' = pool \ fresh /\ cache' = cache \union fresh
           /\ status' \in Status /\ halted' \in {"no", "pool", "unreachable"}
           /\ UNCHANGED <<top, nodeVars, call>>
  <2>1. pool \in SUBSET pool /\ pool \ pool = {}
    OBVIOUS
  <2>2. status \in Status /\ halted \in {"no", "pool", "unreachable"}
    BY DEF IInv, TypeOK
  <2>. QED
    BY <2>1, <2>2 DEF Prepare, Status
<1>. QED
  BY <1>1, <1>2, <1>3, <1>4

(***************************************************************************)
(* The node a page operation finds is a node of the tree, of its level.    *)
(***************************************************************************)
LEMMA NodeGetOnTree ==
  ASSUME IInv, top # null, NEW g \in Addr, NEW level \in PageLevels
  PROVE  NodeGet(level, g) # null =>
           NodeGet(level, g) \in Live /\ table_level[NodeGet(level, g)] = level
<1>1. g[4] \in Index /\ g[3] \in Index /\ g[2] \in Index
  BY DEF Addr
<1>2. top \in Live /\ table_level[top] = 4
  BY DEF IInv, TreeMatchesTables
<1>3. Node3(g) # null => Node3(g) \in Live /\ table_level[Node3(g)] = 3
  BY <1>1, <1>2, GetChildIsEntry, ChildIsEntry DEF Node3
<1>4. Node2(g) # null => Node2(g) \in Live /\ table_level[Node2(g)] = 2
  BY <1>1, <1>3, GetChildIsEntry, ChildIsEntry DEF Node2
<1>5. Node1(g) # null => Node1(g) \in Live /\ table_level[Node1(g)] = 1
  BY <1>1, <1>4, GetChildIsEntry, ChildIsEntry DEF Node1
<1>. QED
  BY <1>3, <1>4, <1>5 DEF NodeGet, PageLevels

LEMMA ModifyEntryIInv ==
  ASSUME IInv, top # null, NEW level \in PageLevels, NEW gpa \in GuestAddrs,
         NEW base, NEW flags, ModifyEntry(level, gpa, base, flags),
         LET n == NodeGet(level, gpa)
         IN  n # null /\ IsPagePresent(n, gpa[level]) => base \in Addr /\ flags \in Flags
  PROVE  IInv'
<1> DEFINE n == NodeGet(level, gpa)
           i == gpa[level]
<1>1. gpa \in Addr /\ i \in Index
  BY CallerAssumption DEF Addr, PageLevels
<1>2. CASE n # null /\ IsPagePresent(n, i)
  <2>1. n \in Live /\ table[n][i].kind = "page" /\ table_level[n] \in PageLevels
    BY <1>1, <1>2, NodeGetOnTree DEF IsPagePresent
  <2>2. PageEntry(base, flags) \in Entries /\ PageEntry(base, flags).kind = "page"
    BY <1>2, EntryTypes
  <2>3. /\ SetEntry(n, i, PageEntry(base, flags)) /\ status' = "not_found"
        /\ UNCHANGED <<pool, cache, top, call, halted>>
    BY <1>2 DEF ModifyEntry
  <2>. QED
    BY <1>1, <2>1, <2>2, <2>3, SetEntryIInv DEF Status
<1>3. CASE ~(n # null /\ IsPagePresent(n, i))
  <2>1. Return("not_found")
    BY <1>3 DEF ModifyEntry
  <2>. QED
    BY <2>1, ReturnIInv DEF Status
<1>. QED
  BY <1>2, <1>3

LEMMA ModifyIInv ==
  ASSUME IInv, NEW level \in 0 .. 3, NEW gpa \in GuestAddrs
  PROVE  /\ \A hpa \in HostAddrs : ModifyBase(level, gpa, hpa) => IInv'
         /\ \A flags \in CommitFlags : ModifyFlags(level, gpa, flags) => IInv'
<1> DEFINE n == NodeGet(level, gpa)
           i == gpa[level]
<1>1. ASSUME level \in PageLevels, top # null, n # null, IsPagePresent(n, i)
      PROVE  table[n][i].base \in Addr /\ table[n][i].flags \in Flags
  <2>1. gpa \in Addr /\ i \in Index
    BY <1>1, CallerAssumption DEF Addr, PageLevels
  <2>2. n \in Live
    BY <1>1, <2>1, NodeGetOnTree
  <2>3. table[n][i] \in Entries /\ table[n][i].kind = "page"
    BY <1>1, <2>1, <2>2 DEF IInv, TypeOK, Live, IsPagePresent
  <2>. QED
    BY <2>3, EntryKinds
<1>2. ASSUME NEW hpa \in HostAddrs, ModifyBase(level, gpa, hpa) PROVE IInv'
  <2> DEFINE check == CheckPage(level, Aligned(level, gpa) /\ Aligned(level, hpa))
  <2>1. CASE check # "success"
    BY <1>2, <2>1, ReturnIInv, CheckPageType DEF ModifyBase
  <2>2. CASE check = "success"
    <3>1. level \in PageLevels /\ top # null /\ hpa \in Addr
      BY <1>2, <2>2, CheckPageType, CallerAssumption DEF ModifyBase, Ready
    <3>2. ModifyEntry(level, gpa, hpa, table[n][i].flags)
      BY <1>2, <2>2 DEF ModifyBase
    <3>. QED
      BY <1>1, <3>1, <3>2, ModifyEntryIInv
  <2>. QED
    BY <2>1, <2>2
<1>3. ASSUME NEW flags \in CommitFlags, ModifyFlags(level, gpa, flags) PROVE IInv'
  <2> DEFINE check == CheckPage(level, Aligned(level, gpa))
  <2>1. CASE ~IsPresent(flags)
    BY <1>3, <2>1, ReturnIInv DEF ModifyFlags, Status
  <2>2. CASE IsPresent(flags) /\ check # "success"
    BY <1>3, <2>2, ReturnIInv, CheckPageType DEF ModifyFlags
  <2>3. CASE IsPresent(flags) /\ check = "success"
    <3>1. level \in PageLevels /\ top # null /\ flags \in Flags
      BY <1>3, <2>3, CheckPageType, CallerAssumption DEF ModifyFlags, Ready
    <3>2. ModifyEntry(level, gpa, table[n][i].base, flags)
      BY <1>3, <2>3 DEF ModifyFlags
    <3>. QED
      BY <1>1, <3>1, <3>2, ModifyEntryIInv
  <2>. QED
    BY <2>1, <2>2, <2>3
<1>. QED
  BY <1>2, <1>3

LEMMA UncommitIInv ==
  ASSUME IInv, NEW level \in 0 .. 3, NEW gpa \in GuestAddrs, Uncommit(level, gpa)
  PROVE  IInv'
<1> DEFINE n == NodeGet(level, gpa)
           i == gpa[level]
<1>1. CASE Return("invalid_parameter")
  BY <1>1, ReturnIInv DEF Status
<1>2. CASE Return("not_found")
  BY <1>2, ReturnIInv DEF Status
<1>3. CASE level \in PageLevels /\ n # null /\ IsPagePresent(n, i)
  <2>1. gpa \in Addr /\ i \in Index /\ top # null
    BY <1>3, CallerAssumption DEF Addr, PageLevels, Uncommit, Ready
  <2>2. n \in Live /\ table[n][i].kind = "page" /\ table_level[n] \in PageLevels
    BY <1>3, <2>1, NodeGetOnTree DEF IsPagePresent
  <2>3. /\ SetEntry(n, i, NoEntry) /\ status' = "success"
        /\ UNCHANGED <<pool, cache, top, call, halted>>
    BY <1>3 DEF Uncommit
  <2>. QED
    BY <2>1, <2>2, <2>3, SetEntryIInv, EntryTypes DEF Status
<1>. QED
  BY <1>1, <1>2, <1>3 DEF Uncommit

LEMMA CommitBeginIInv ==
  ASSUME IInv, NEW level \in 0 .. 3, NEW gpa \in GuestAddrs, NEW hpa \in HostAddrs,
         NEW flags \in CommitFlags, NEW high_irql \in BOOLEAN,
         CommitBegin(level, gpa, hpa, flags, high_irql)
  PROVE  IInv'
<1> DEFINE check == CheckPage(level, Aligned(level, gpa) /\ Aligned(level, hpa))
<1>1. CASE Return("invalid_parameter")
  BY <1>1, ReturnIInv DEF Status
<1>2. CASE Return(check)
  BY <1>2, ReturnIInv, CheckPageType
<1>3. CASE IsPresent(flags) /\ check = "success"
  <2>1. level \in PageLevels /\ top # null
    BY <1>3, CheckPageType DEF CommitBegin, Ready
  <2>2. /\ call' = [level |-> level, gpa |-> gpa, hpa |-> hpa, flags |-> flags,
                    high_irql |-> high_irql, node |-> top, next |-> 3]
        /\ UNCHANGED <<pool, cache, top, nodeVars, status, halted>>
    BY <1>3 DEF CommitBegin
  <2>3. top \in Live /\ table_level[top] = 4
    BY <2>1 DEF IInv, TreeMatchesTables
  <2>4. call' \in Calls
    BY <2>1, <2>2, <2>3 DEF Calls, Live
  <2>5. CallOnTree'
    BY <2>1, <2>2, <2>3 DEF CallOnTree, Live, nodeVars, PageLevels
  <2>. QED
    BY <2>2, <2>4, <2>5, SameNodes DEF IInv, TypeOK
<1>. QED
  BY <1>1, <1>2, <1>3 DEF CommitBegin

LEMMA TerminateIInv ==
  ASSUME IInv, Terminate
  PROVE  IInv'
<1>1. Subtree(top) = Live
  BY SubtreeOfTop DEF Terminate, Ready
<1>2. pool' = Nodes /\ cache' = {} /\ top' = null /\ Live' = {} /\ call = NoCall
  BY <1>1 DEF Terminate, Ready, IInv, TypeOK, Live
<1>3. \A n \in Nodes : n \in cache \union Subtree(top) \/ n \in pool
  BY <1>1 DEF Live
<1>4. FreeNodesDetached'
  BY <1>2, <1>3 DEF Terminate, FreeNodesDetached, IInv
<1>5. 0 \in Index
  BY FanoutAssumption DEF Index
<1>6. TypeOK'
  BY <1>2, <1>5, EmptyTableType DEF Terminate, IInv, TypeOK
<1>. QED
  BY <1>2, <1>4, <1>6 DEF Terminate, IInv, TreeMatchesTables, EntriesFitLevels, CallOnTree
-----------------------------------------------------------------------------
(***************************************************************************)
(* Every step keeps the invariant.                                         *)
(***************************************************************************)
LEMMA NextIInv == IInv /\ [Next]_vars => IInv'
<1> SUFFICES ASSUME IInv, [Next]_vars PROVE IInv'
  OBVIOUS
<1>1. CASE Operation
  <2>1. CASE Initialize
    BY <2>1, InitializeIInv
  <2>2. CASE Terminate
    BY <2>2, TerminateIInv
  <2>3. ASSUME NEW level \in 0 .. 3, NEW gpa \in GuestAddrs,
               \/ Prepare(level, gpa)
               \/ Uncommit(level, gpa)
               \/ \E hpa \in HostAddrs : ModifyBase(level, gpa, hpa)
               \/ \E flags \in CommitFlags : ModifyFlags(level, gpa, flags)
               \/ \E hpa \in HostAddrs, flags \in CommitFlags, high_irql \in BOOLEAN :
                    CommitBegin(level, gpa, hpa, flags, high_irql)
        PROVE  IInv'
    BY <2>3, PrepareIInv, UncommitIInv, ModifyIInv, CommitBeginIInv
  <2>. QED
    BY <1>1, <2>1, <2>2, <2>3 DEF Operation
<1>2. CASE CommitStep
  BY <1>2, EnsureFoundIInv, EnsureAttachIInv, EnsureSplitIInv, EnsureStopsIInv,
     EnsureFailsIInv, CommitFinishIInv DEF CommitStep
<1>3. CASE UNCHANGED vars
  <2>1. CallOnTree'
    BY <1>3 DEF vars, IInv, CallOnTree, Live, nodeVars
  <2>. QED
    BY <1>3, <2>1, SameNodes DEF vars, IInv, TypeOK
<1>. QED
  BY <1>1, <1>2, <1>3 DEF Next, Stopped

LEMMA AlwaysIInv == Spec => []IInv
  BY InitIInv, NextIInv, PTL DEF Spec

(***************************************************************************)
(* Type correctness.                                                       *)
(***************************************************************************)
THEOREM TypeCorrect == Spec => []TypeOK
<1>1. IInv => TypeOK
  BY DEF IInv
<1>. QED
  BY <1>1, AlwaysIInv, PTL

(***************************************************************************)
(* For any number of entries per table, the nodes and the tables describe  *)
(* the same tree after every step of every operation.                      *)
(***************************************************************************)
THEOREM TreeAlwaysMatchesTables == Spec => []TreeMatchesTables
<1>1. IInv => TreeMatchesTables
  BY DEF IInv
<1>. QED
  BY <1>1, AlwaysIInv, PTL

(***************************************************************************)
(* Pages and tables are referred to only from levels that may.             *)
(***************************************************************************)
THEOREM EntriesAlwaysFitLevels == Spec => []EntriesFitLevels
<1>1. IInv => EntriesFitLevels
  BY DEF IInv
<1>. QED
  BY <1>1, AlwaysIInv, PTL

(***************************************************************************)
(* No operation loses a node or frees one twice.                           *)
(***************************************************************************)
THEOREM NoNodeIsLost == Spec => []EveryNodeAccountedFor
<1>1. IInv => EveryNodeAccountedFor
  <2>1. SUFFICES ASSUME IInv PROVE EveryNodeAccountedFor
    OBVIOUS
  <2>2. top = null => pool \union cache = Nodes
    BY <2>1 DEF IInv, TypeOK, TreeMatchesTables, Live
  <2>. QED
    BY <2>1, <2>2, SubtreeOfTop DEF EveryNodeAccountedFor, IInv
<1>. QED
  BY <1>1, AlwaysIInv, PTL
-----------------------------------------------------------------------------
(***************************************************************************)
(* One level of the two lookups: the child found in the node tree is the   *)
(* table the processor goes on to, and there is none where there is none.  *)
(***************************************************************************)
LEMMA ChildIsBelow ==
  ASSUME IInv, NEW p \in Live, NEW i \in Index, NEW j \in Index
  PROVE  Below(table[p][i], j) =
           IF GetChild(p, i) # null THEN table[GetChild(p, i)][j] ELSE NoEntry
<1>1. CASE GetChild(p, i) # null
  <2>1. GetChild(p, i) \in Nodes /\ table[p][i] = TableEntry(GetChild(p, i))
    BY <1>1, GetChildIsEntry, ChildIsEntry DEF Live
  <2>. QED
    BY <1>1, <2>1, EntryTypes DEF Below
<1>2. CASE GetChild(p, i) = null
  BY <1>2, GetChildIsEntry DEF Below
<1>. QED
  BY <1>1, <1>2

(***************************************************************************)
(* find_page and the processor agree on every address.                     *)
(***************************************************************************)
THEOREM FindAlwaysAgreesWithWalk == Spec => []FindAgreesWithWalk
<1>1. IInv => FindAgreesWithWalk
  <2>1. SUFFICES ASSUME IInv, top # null, NEW g \in Frames PROVE FindPage(g) = Walk(g)
    BY DEF FindAgreesWithWalk
  <2>2. g \in Addr /\ g[4] \in Index /\ g[3] \in Index /\ g[2] \in Index /\ g[1] \in Index
    BY <2>1 DEF Frames, Addr
  <2>3. top \in Live
    BY <2>1 DEF IInv, TreeMatchesTables
  <2>4. \A level \in PageLevels : NodeGet(level, g) # null =>
           NodeGet(level, g) \in Live /\ table_level[NodeGet(level, g)] = level
    BY <2>1, <2>2, NodeGetOnTree
  <2>5. /\ Node3(g) # null => Node3(g) \in Live /\ table_level[Node3(g)] = 3
        /\ Node2(g) # null => Node2(g) \in Live /\ table_level[Node2(g)] = 2
        /\ Node1(g) # null => Node1(g) \in Live /\ table_level[Node1(g)] = 1
    BY <2>4 DEF NodeGet, PageLevels
  <2>6. Entry3(g) = IF Node3(g) # null THEN table[Node3(g)][g[3]] ELSE NoEntry
    BY <2>1, <2>2, <2>3, ChildIsBelow DEF Entry3, Entry4, Node3
  <2>7. Entry2(g) = IF Node2(g) # null THEN table[Node2(g)][g[2]] ELSE NoEntry
    BY <2>1, <2>2, <2>5, <2>6, ChildIsBelow, EntryTypes DEF Entry2, Node2, Below
  <2>8. Entry1(g) = IF Node1(g) # null THEN table[Node1(g)][g[1]] ELSE NoEntry
    BY <2>1, <2>2, <2>5, <2>7, ChildIsBelow, EntryTypes DEF Entry1, Node1, Below
  <2>9. NoEntry.kind # "page"
    BY EntryTypes
  <2>. QED
    BY <2>5, <2>6, <2>7, <2>8, <2>9 DEF FindPage, Walk, IsPagePresent, PageAt, PageLevels
<1>. QED
  BY <1>1, AlwaysIInv, PTL
-----------------------------------------------------------------------------
(***************************************************************************)
(* A commit goes one node down with every step: it takes at most four.     *)
(***************************************************************************)
LEMMA OperationsWait == Operation => call = NoCall
  BY DEF Operation, Initialize, Prepare, Uncommit, ModifyBase, ModifyFlags, CommitBegin,
     Terminate, Ready

GoesDown ==
  /\ call'.next = call.next - 1 /\ call'.next >= call.level - 1
  /\ parent'[call'.node] = call.node

LEMMA CallStands ==
  ASSUME IInv, Ensuring
  PROVE  /\ call \in Calls /\ call.next \in 1 .. 3 /\ call.level \in Int
         /\ call.next >= call.level /\ call.node \in Live /\ EnsureIndex \in Index
<1>1. /\ call \in Calls /\ call.next \in 1 .. 3 /\ call.level \in Int
      /\ call.next >= call.level
  BY DEF Ensuring, IInv, TypeOK, Calls, PageLevels
<1>2. call.gpa \in Addr /\ call.next + 1 \in 0 .. 4
  BY <1>1, CallerAssumption DEF Calls
<1>. QED
  BY <1>1, <1>2 DEF Ensuring, IInv, CallOnTree, EnsureIndex, Addr

LEMMA AttachGoesDown ==
  ASSUME IInv, Ensuring, NEW n \in Nodes, NEW filled,
         Attach(n, call.node, EnsureIndex, filled), Descend(n)
  PROVE  GoesDown
<1>1. parent \in [Nodes -> Nodes \union {null}]
  BY DEF IInv, TypeOK
<1>2. parent'[n] = call.node
  BY <1>1 DEF Attach
<1>3. call'.node = n /\ call'.next = call.next - 1
  BY CallStands, DescendType
<1>4. call'.next >= call.level - 1
  BY <1>3, CallStands
<1>. QED
  BY <1>2, <1>3, <1>4 DEF GoesDown

(***************************************************************************)
(* Each step of node_ensure and commit_page ends the call or goes on one   *)
(* level further down, in any tables.                                      *)
(***************************************************************************)
THEOREM EveryCommitDescends == Spec => CommitDescends
<1>1. IInv /\ [Next]_vars =>
        [call # NoCall => call' = NoCall \/ halted' # "no" \/ GoesDown]_vars
  <2>1. SUFFICES ASSUME IInv, Next, call # NoCall, halted' = "no", call' # NoCall,
                        ~ UNCHANGED vars
                 PROVE  GoesDown
    OBVIOUS
  <2>2. CommitStep
    BY <2>1, OperationsWait DEF Next, Stopped
  <2>3. CASE EnsureFound
    <3>1. Ensuring /\ GetChild(call.node, EnsureIndex) # null
      BY <2>3 DEF EnsureFound
    <3>2. /\ GetChild(call.node, EnsureIndex) \in Nodes
          /\ parent[GetChild(call.node, EnsureIndex)] = call.node
      BY <2>1, <3>1, CallStands, GetChildIsEntry, ChildIsEntry DEF Live
    <3>3. /\ call'.node = GetChild(call.node, EnsureIndex)
          /\ call'.next = call.next - 1
      BY <2>1, <2>3, <3>1, <3>2, CallStands, DescendType DEF EnsureFound
    <3>4. parent' = parent /\ call'.next >= call.level - 1
      BY <2>1, <2>3, <3>1, <3>3, CallStands DEF EnsureFound, nodeVars
    <3>. QED
      BY <3>2, <3>3, <3>4 DEF GoesDown
  <2>4. CASE EnsureAttach
    BY <2>1, <2>4, AttachGoesDown DEF EnsureAttach
  <2>5. CASE EnsureSplit
    BY <2>1, <2>5, AttachGoesDown DEF EnsureSplit
  <2>6. CASE EnsureStops \/ EnsureFails \/ CommitFinish
    BY <2>1, <2>6 DEF EnsureStops, EnsureFails, CommitFinish, PoolExhausted
  <2>. QED
    BY <2>2, <2>3, <2>4, <2>5, <2>6 DEF CommitStep
<1>. QED
  BY <1>1, AlwaysIInv, PTL DEF Spec, CommitDescends, GoesDown
-----------------------------------------------------------------------------
(***************************************************************************)
(* The way of the processor through the tables.                            *)
(***************************************************************************)
LEMMA Digits ==
  ASSUME NEW g \in Addr, NEW k \in 0 .. 4
  PROVE  g[k] \in Index
  BY DEF Addr

LEMMA EntriesOnPath ==
  ASSUME NEW g
  PROVE  /\ EntryAt(4, g) = Entry4(g) /\ EntryAt(3, g) = Entry3(g)
         /\ EntryAt(2, g) = Entry2(g) /\ EntryAt(1, g) = Entry1(g)
         /\ PathNode(4, g) = top /\ PathNode(3, g) = NodeOf(Entry4(g))
         /\ PathNode(2, g) = NodeOf(Entry3(g)) /\ PathNode(1, g) = NodeOf(Entry2(g))
  BY DEF EntryAt, PathNode

(***************************************************************************)
(* One level of the way: the entry of a live node leads to its child.      *)
(***************************************************************************)
LEMMA NextOnPath ==
  ASSUME IInv, NEW p \in Live, NEW i \in Index, NEW j \in Index,
         NEW n, n = NodeOf(table[p][i])
  PROVE  /\ n # null <=> table[p][i].kind = "table"
         /\ n # null => /\ n \in Live /\ table_level[n] = table_level[p] - 1
                        /\ parent[n] = p /\ table_index[n] = i /\ n # top
         /\ Below(table[p][i], j) = IF n # null THEN table[n][j] ELSE NoEntry
         /\ n = GetChild(p, i)
<1>1. CASE table[p][i].kind = "table"
  <2>1. n = table[p][i].node /\ n \in ChildrenAt(p, i) /\ GetChild(p, i) = n
    BY <1>1, ChildIsEntry, GetChildIsEntry DEF NodeOf
  <2>2. n # null
    BY <2>1, NullAssumption DEF ChildrenAt, Children
  <2>. QED
    BY <1>1, <2>1, <2>2, ChildIsEntry DEF Below
<1>2. CASE table[p][i].kind # "table"
  <2>1. n = null
    BY <1>2 DEF NodeOf
  <2>2. GetChild(p, i) = null
    <3>1. SUFFICES ASSUME GetChild(p, i) # null PROVE FALSE
      OBVIOUS
    <3>2. GetChild(p, i) \in Nodes /\ table[p][i] = TableEntry(GetChild(p, i))
      BY <3>1, GetChildIsEntry, ChildIsEntry DEF Live
    <3>. QED
      BY <1>2, <3>2, EntryTypes
  <2>. QED
    BY <1>2, <2>1, <2>2 DEF Below
<1>. QED
  BY <1>1, <1>2

OnPath(level, g) ==
  /\ PathNode(level, g) # null =>
       PathNode(level, g) \in Live /\ table_level[PathNode(level, g)] = level
  /\ EntryAt(level, g) =
       IF PathNode(level, g) # null THEN table[PathNode(level, g)][g[level]] ELSE NoEntry

Hangs(level, g) ==
  /\ PathNode(level, g) = NodeOf(EntryAt(level + 1, g))
  /\ PathNode(level, g) # null <=> EntryAt(level + 1, g).kind = "table"
  /\ PathNode(level, g) # null =>
       /\ PathNode(level + 1, g) # null
       /\ parent[PathNode(level, g)] = PathNode(level + 1, g)
       /\ table_index[PathNode(level, g)] = g[level + 1]
       /\ PathNode(level, g) # top
  /\ PathNode(level + 1, g) # null =>
       PathNode(level, g) = GetChild(PathNode(level + 1, g), g[level + 1])

LEMMA OnPathStep ==
  ASSUME IInv, NEW g \in Addr, NEW level \in 1 .. 3, OnPath(level + 1, g),
         EntryAt(level, g) = Below(EntryAt(level + 1, g), g[level]),
         PathNode(level, g) = NodeOf(EntryAt(level + 1, g))
  PROVE  OnPath(level, g) /\ Hangs(level, g)
<1>1. g[level] \in Index /\ g[level + 1] \in Index
  BY Digits
<1> DEFINE p == PathNode(level + 1, g)
           n == PathNode(level, g)
<1>2. CASE p # null
  <2>1. p \in Live /\ table_level[p] = level + 1 /\ EntryAt(level + 1, g) = table[p][g[level + 1]]
    BY <1>2 DEF OnPath
  <2> HIDE DEF p
  <2>2. n = NodeOf(table[p][g[level + 1]])
    BY <2>1
  <2> HIDE DEF n
  <2>3. /\ n # null <=> table[p][g[level + 1]].kind = "table"
        /\ n # null => /\ n \in Live /\ table_level[n] = table_level[p] - 1
                       /\ parent[n] = p /\ table_index[n] = g[level + 1] /\ n # top
        /\ Below(table[p][g[level + 1]], g[level]) = IF n # null THEN table[n][g[level]] ELSE NoEntry
        /\ n = GetChild(p, g[level + 1])
    BY <1>1, <2>1, <2>2, NextOnPath
  <2>. QED
    BY <1>2, <2>1, <2>3 DEF OnPath, Hangs, n, p
<1>3. CASE p = null
  <2>1. EntryAt(level + 1, g) = NoEntry /\ NoEntry.kind = "none"
    BY <1>3, EntryTypes DEF OnPath
  <2>2. n = null /\ EntryAt(level, g) = NoEntry
    BY <2>1 DEF NodeOf, Below
  <2>. QED
    BY <1>3, <2>1, <2>2 DEF OnPath, Hangs
<1>. QED
  BY <1>2, <1>3

LEMMA Path ==
  ASSUME IInv, top # null, NEW g \in Addr
  PROVE  /\ \A level \in 1 .. 4 : OnPath(level, g)
         /\ \A level \in 1 .. 3 : Hangs(level, g)
         /\ PathNode(4, g) = top
<1>1. OnPath(4, g)
  BY EntriesOnPath DEF OnPath, IInv, TreeMatchesTables, Entry4
<1>2. OnPath(3, g) /\ Hangs(3, g)
  BY <1>1, OnPathStep, EntriesOnPath DEF Entry3
<1>3. OnPath(2, g) /\ Hangs(2, g)
  BY <1>2, OnPathStep, EntriesOnPath DEF Entry2
<1>4. OnPath(1, g) /\ Hangs(1, g)
  BY <1>3, OnPathStep, EntriesOnPath DEF Entry1
<1>5. (\A level \in 1 .. 4 : OnPath(level, g)) /\ (\A level \in 1 .. 3 : Hangs(level, g))
  <2>1. \A level \in 1 .. 3 : level = 1 \/ level = 2 \/ level = 3
    OBVIOUS
  <2>2. \A level \in 1 .. 4 : level = 1 \/ level = 2 \/ level = 3 \/ level = 4
    OBVIOUS
  <2>. QED
    BY <1>1, <1>2, <1>3, <1>4, <2>1, <2>2
<1>. QED
  BY <1>5, EntriesOnPath

(***************************************************************************)
(* The node of a level is the same for two addresses exactly if they agree *)
(* on the digits above it: no table is reached in two ways.                *)
(***************************************************************************)
LEMMA SamePath ==
  ASSUME IInv, top # null, NEW g \in Addr, NEW h \in Addr, NEW level \in 1 .. 4,
         PathNode(level, g) # null
  PROVE  PathNode(level, h) = PathNode(level, g) <=> \A k \in level + 1 .. 4 : g[k] = h[k]
<1> DEFINE Same(l) == PathNode(l, h) = PathNode(l, g)
<1>1. ASSUME NEW l \in 1 .. 3, PathNode(l, g) # null
      PROVE  PathNode(l + 1, g) # null /\ (Same(l) <=> Same(l + 1) /\ g[l + 1] = h[l + 1])
  <2>1. Hangs(l, g) /\ Hangs(l, h) /\ OnPath(l + 1, g) /\ OnPath(l + 1, h)
    BY Path
  <2>2. ASSUME Same(l) PROVE Same(l + 1) /\ g[l + 1] = h[l + 1]
    BY <1>1, <2>1, <2>2 DEF Hangs
  <2>3. ASSUME Same(l + 1), g[l + 1] = h[l + 1] PROVE Same(l)
    BY <1>1, <2>1, <2>3 DEF Hangs
  <2>. QED
    BY <1>1, <2>1, <2>2, <2>3 DEF Hangs
<1>2. Same(4)
  BY Path
<1> HIDE DEF Same
<1>3. CASE level = 4
  BY <1>2, <1>3 DEF Same
<1>4. CASE level = 3
  <2>1. Same(3) <=> g[4] = h[4]
    BY <1>1, <1>2, <1>4
  <2>. QED
    BY <1>4, <2>1 DEF Same
<1>5. CASE level = 2
  <2>1. PathNode(3, g) # null /\ (Same(2) <=> Same(3) /\ g[3] = h[3])
    BY <1>1, <1>5
  <2>2. Same(3) <=> Same(4) /\ g[4] = h[4]
    BY <1>1, <2>1
  <2>. QED
    BY <1>2, <1>5, <2>1, <2>2 DEF Same
<1>6. CASE level = 1
  <2>1. PathNode(2, g) # null /\ (Same(1) <=> Same(2) /\ g[2] = h[2])
    BY <1>1, <1>6
  <2>2. PathNode(3, g) # null /\ (Same(2) <=> Same(3) /\ g[3] = h[3])
    BY <1>1, <2>1
  <2>3. Same(3) <=> Same(4) /\ g[4] = h[4]
    BY <1>1, <2>2
  <2>. QED
    BY <1>2, <1>6, <2>1, <2>2, <2>3 DEF Same
<1>. QED
  BY <1>3, <1>4, <1>5, <1>6

(***************************************************************************)
(* A step that leaves the entries on the way to g above a level as they    *)
(* are leaves the way down to that level.                                  *)
(***************************************************************************)
SameEntry(k, g) ==
  PathNode(k, g) # null => table'[PathNode(k, g)][g[k]] = table[PathNode(k, g)][g[k]]

LEMMA PathKept ==
  ASSUME IInv, top # null, top' = top, NEW g \in Addr, NEW level \in 0 .. 4,
         \A k \in level + 1 .. 4 : SameEntry(k, g)
  PROVE  /\ \A k \in level + 1 .. 4 : EntryAt(k, g)' = EntryAt(k, g)
         /\ \A k \in level .. 4 : k > 0 => PathNode(k, g)' = PathNode(k, g)
<1>1. \A k \in 1 .. 4 : OnPath(k, g)
  BY Path
<1>2. PathNode(4, g) = top /\ PathNode(4, g)' = top
  BY EntriesOnPath DEF PathNode
<1>3. ASSUME level < 4 PROVE EntryAt(4, g)' = EntryAt(4, g) /\ PathNode(3, g)' = PathNode(3, g)
  <2>1. SameEntry(4, g)
    BY <1>3
  <2>2. EntryAt(4, g)' = table'[top][g[4]] /\ EntryAt(4, g) = table[top][g[4]]
    BY DEF EntryAt, Entry4
  <2>. QED
    BY <1>2, <2>1, <2>2 DEF SameEntry, PathNode
<1>4. ASSUME NEW k \in 1 .. 3, level < k, EntryAt(k + 1, g)' = EntryAt(k + 1, g)
      PROVE  /\ EntryAt(k, g)' = EntryAt(k, g)
             /\ k > 1 => PathNode(k - 1, g)' = PathNode(k - 1, g)
  <2>1. SameEntry(k, g) /\ k # 4
    BY <1>4
  <2>2. EntryAt(k, g) = Below(EntryAt(k + 1, g), g[k])
    BY DEF EntryAt, Entry3, Entry2, Entry1
  <2>3. EntryAt(k, g)' = Below(EntryAt(k + 1, g), g[k])'
    BY DEF EntryAt, Entry3, Entry2, Entry1
  <2> DEFINE e == EntryAt(k + 1, g)
  <2>4. PathNode(k, g) = NodeOf(e) /\ (PathNode(k, g) # null <=> e.kind = "table")
    BY Path DEF Hangs
  <2>5. e' = e
    BY <1>4
  <2> HIDE DEF e
  <2>6. EntryAt(k, g)' = IF e.kind = "table" THEN table'[e.node][g[k]] ELSE NoEntry
    BY <2>3, <2>5 DEF Below, e
  <2>7. EntryAt(k, g) = IF e.kind = "table" THEN table[e.node][g[k]] ELSE NoEntry
    BY <2>2 DEF Below, e
  <2>8. EntryAt(k, g)' = EntryAt(k, g)
    BY <2>1, <2>4, <2>6, <2>7 DEF SameEntry, NodeOf
  <2>9. k > 1 => PathNode(k - 1, g)' = PathNode(k - 1, g)
    BY <2>8 DEF PathNode
  <2>. QED
    BY <2>8, <2>9
<1>. QED
  BY <1>2, <1>3, <1>4

(***************************************************************************)
(* What the processor finds is the first entry on its way that refers to   *)
(* no table.                                                               *)
(***************************************************************************)
WalkStops ==
  \A g \in Addr :
    /\ \A level \in 1 .. 3 : EntryAt(level, g).kind = "page" =>
         Walk(g) = Page(level, EntryAt(level, g).base, EntryAt(level, g).flags)
    /\ \A level \in 1 .. 4 :
         PathNode(level, g) # null /\ EntryAt(level, g).kind \in {"none", "wild"} =>
           Walk(g) = NoPage

LEMMA WalkAlwaysStops == WalkStops
<1> SUFFICES ASSUME NEW g \in Addr
             PROVE  /\ \A level \in 1 .. 3 : EntryAt(level, g).kind = "page" =>
                         Walk(g) = Page(level, EntryAt(level, g).base, EntryAt(level, g).flags)
                    /\ \A level \in 1 .. 4 :
                         PathNode(level, g) # null /\ EntryAt(level, g).kind \in {"none", "wild"} =>
                           Walk(g) = NoPage
  BY DEF WalkStops
<1>1. NoEntry.kind = "none"
  BY EntryTypes
<1>2. /\ Entry4(g).kind # "table" => Entry3(g) = NoEntry
      /\ Entry3(g).kind # "table" => Entry2(g) = NoEntry
      /\ Entry2(g).kind # "table" => Entry1(g) = NoEntry
  BY DEF Entry3, Entry2, Entry1, Below
<1>3. \A level \in 1 .. 3 : EntryAt(level, g).kind = "page" =>
        Walk(g) = Page(level, EntryAt(level, g).base, EntryAt(level, g).flags)
  BY <1>1, <1>2 DEF Walk, EntryAt
<1>4. ASSUME NEW level \in 1 .. 4, PathNode(level, g) # null,
             EntryAt(level, g).kind \in {"none", "wild"}
      PROVE  Walk(g) = NoPage
  <2>1. level < 4 => EntryAt(level + 1, g).kind = "table"
    BY <1>4 DEF PathNode, NodeOf
  <2>2. CASE level = 4
    BY <1>1, <1>2, <1>4, <2>2 DEF Walk, EntryAt
  <2>3. CASE level = 3
    BY <1>1, <1>2, <1>4, <2>3 DEF Walk, EntryAt
  <2>4. CASE level = 2
    BY <1>1, <1>2, <1>4, <2>1, <2>4 DEF Walk, EntryAt
  <2>5. CASE level = 1
    BY <1>1, <1>2, <1>4, <2>1, <2>5 DEF Walk, EntryAt
  <2>. QED
    BY <2>2, <2>3, <2>4, <2>5
<1>. QED
  BY <1>3, <1>4

LEMMA WalkStopsNext == WalkStops'
  BY WalkAlwaysStops, PTL

LEMMA PageFields ==
  /\ NoPage.found = FALSE
  /\ \A level, base, flags :
       LET page == Page(level, base, flags)
       IN  page.found /\ page.level = level /\ page.base = base /\ page.flags = flags
  BY DEF NoPage, Page

LEMMA WalkFound ==
  ASSUME NEW g, Walk(g).found
  PROVE  /\ Walk(g).level \in 1 .. 3 /\ EntryAt(Walk(g).level, g).kind = "page"
         /\ Walk(g) = Page(Walk(g).level, EntryAt(Walk(g).level, g).base,
                           EntryAt(Walk(g).level, g).flags)
<1>1. Walk(g) # NoPage
  BY PageFields
<1>2. CASE Entry3(g).kind = "page"
  BY <1>2, PageFields DEF Walk, EntryAt
<1>3. CASE Entry3(g).kind # "page" /\ Entry2(g).kind = "page"
  BY <1>3, PageFields DEF Walk, EntryAt
<1>4. CASE Entry3(g).kind # "page" /\ Entry2(g).kind # "page" /\ Entry1(g).kind = "page"
  BY <1>4, PageFields DEF Walk, EntryAt
<1>. QED
  BY <1>1, <1>2, <1>3, <1>4 DEF Walk

LEMMA WalkKept ==
  ASSUME IInv, top # null, top' = top, NEW g \in Addr,
         \A k \in 1 .. 4 : SameEntry(k, g)
  PROVE  Walk(g)' = Walk(g)
<1>1. \A k \in 1 .. 4 : EntryAt(k, g)' = EntryAt(k, g)
  BY PathKept
<1>2. Entry3(g)' = Entry3(g) /\ Entry2(g)' = Entry2(g) /\ Entry1(g)' = Entry1(g)
  BY <1>1 DEF EntryAt
<1>. QED
  BY <1>2 DEF Walk

-----------------------------------------------------------------------------
(***************************************************************************)
(* Steps that write one entry of the tree, and what is seen of them.       *)
(***************************************************************************)
EntryOfNode ==
  \A g \in Addr : \A level \in 1 .. 4 :
    PathNode(level, g) # null => EntryAt(level, g) = table[PathNode(level, g)][g[level]]

LEMMA AlwaysEntryOfNode == EntryOfNode
<1> SUFFICES ASSUME NEW g \in Addr, NEW level \in 1 .. 4, PathNode(level, g) # null
             PROVE  EntryAt(level, g) = table[PathNode(level, g)][g[level]]
  BY DEF EntryOfNode
<1>1. CASE level = 4
  BY <1>1 DEF PathNode, EntryAt, Entry4
<1>2. CASE level \in 1 .. 3
  <2>1. /\ EntryAt(level + 1, g).kind = "table"
        /\ PathNode(level, g) = EntryAt(level + 1, g).node
    BY <1>2 DEF PathNode, NodeOf
  <2>2. EntryAt(level, g) = Below(EntryAt(level + 1, g), g[level])
    BY <1>2 DEF EntryAt, Entry3, Entry2, Entry1
  <2>. QED
    BY <2>1, <2>2 DEF Below
<1>. QED
  BY <1>1, <1>2

LEMMA NextEntryOfNode == EntryOfNode'
  BY AlwaysEntryOfNode, PTL

(***************************************************************************)
(* Nothing but one entry changes in the tree: only the addresses on whose  *)
(* way the entry lies can see it.                                          *)
(***************************************************************************)
LEMMA EntryReplaced ==
  ASSUME IInv, top # null, top' = top,
         NEW level \in 1 .. 4, NEW p \in Live, NEW i \in Index, table_level[p] = level,
         \A m \in Live, j \in Index : ~(m = p /\ j = i) => table'[m][j] = table[m][j],
         NEW g \in Addr
  PROVE  /\ ~ Passes(level, p, i, g) => Walk(g)' = Walk(g)
         /\ Passes(level, p, i, g) =>
              /\ PathNode(level, g)' = p
              /\ EntryAt(level, g) = table[p][i] /\ EntryAt(level, g)' = table'[p][i]
<1>1. ASSUME NEW k \in 1 .. 4, ~(k = level /\ Passes(level, p, i, g)) PROVE SameEntry(k, g)
  <2>1. SUFFICES ASSUME PathNode(k, g) # null
                 PROVE  table'[PathNode(k, g)][g[k]] = table[PathNode(k, g)][g[k]]
    BY DEF SameEntry
  <2>2. PathNode(k, g) \in Live /\ table_level[PathNode(k, g)] = k /\ g[k] \in Index
    BY <2>1, Path, Digits DEF OnPath
  <2>3. ~(PathNode(k, g) = p /\ g[k] = i)
    BY <1>1, <2>2 DEF Passes
  <2>. QED
    BY <2>2, <2>3
<1>2. CASE ~ Passes(level, p, i, g)
  <2>1. \A k \in 1 .. 4 : SameEntry(k, g)
    BY <1>1, <1>2
  <2>. QED
    BY <1>2, <2>1, WalkKept
<1>3. CASE Passes(level, p, i, g)
  <2>1. \A k \in level + 1 .. 4 : SameEntry(k, g)
    BY <1>1
  <2>2. PathNode(level, g)' = PathNode(level, g)
    BY <2>1, PathKept
  <2>3. PathNode(level, g) = p /\ g[level] = i /\ p # null
    BY <1>3, NullAssumption DEF Passes, Live
  <2>. QED
    BY <1>3, <2>2, <2>3, AlwaysEntryOfNode, NextEntryOfNode DEF EntryOfNode
<1>. QED
  BY <1>2, <1>3

(***************************************************************************)
(* A new node hangs from an entry that referred to none: the way of an     *)
(* address that passes the entry goes on to the new table.                 *)
(***************************************************************************)
LEMMA TakenIsFree ==
  ASSUME IInv, NEW n \in Nodes, Take(n)
  PROVE  n \notin Live
  BY DEF Take, Live

LEMMA AttachOnPath ==
  ASSUME IInv, top # null, top' = top, NEW n \in Nodes \ Live,
         NEW level \in 2 .. 4, NEW p \in Live, NEW i \in Index, table_level[p] = level,
         NEW filled \in [Index -> Entries], Attach(n, p, i, filled), NEW g \in Addr
  PROVE  /\ ~ Passes(level, p, i, g) => Walk(g)' = Walk(g)
         /\ Passes(level, p, i, g) =>
              /\ EntryAt(level, g) = table[p][i]
              /\ PathNode(level - 1, g)' = n
              /\ EntryAt(level - 1, g)' = filled[g[level - 1]]
<1>1. n # p /\ p \in Nodes /\ table \in [Nodes -> [Index -> Entries]] /\ n # null
  BY NullAssumption DEF Live, IInv, TypeOK
<1>2. table'[n] = filled /\ table'[p][i] = TableEntry(n)
  BY <1>1 DEF Attach
<1>3. \A m \in Live, j \in Index : ~(m = p /\ j = i) => table'[m][j] = table[m][j]
  BY <1>1 DEF Attach, Live
<1>4. /\ ~ Passes(level, p, i, g) => Walk(g)' = Walk(g)
      /\ Passes(level, p, i, g) =>
           EntryAt(level, g) = table[p][i] /\ EntryAt(level, g)' = TableEntry(n)
  BY <1>2, <1>3, EntryReplaced
<1>5. ASSUME EntryAt(level, g)' = TableEntry(n)
      PROVE  PathNode(level - 1, g)' = n /\ EntryAt(level - 1, g)' = filled[g[level - 1]]
  <2>1. PathNode(level - 1, g)' = NodeOf(EntryAt(level, g)')
    BY DEF PathNode, NodeOf
  <2>2. NodeOf(TableEntry(n)) = n
    BY EntryTypes DEF NodeOf
  <2>3. PathNode(level - 1, g)' = n
    BY <1>5, <2>1, <2>2
  <2>. QED
    BY <1>1, <1>2, <2>3, NextEntryOfNode DEF EntryOfNode
<1>. QED
  BY <1>4, <1>5

(***************************************************************************)
(* The addresses that pass the entry a commit works on are those of the    *)
(* page of that level around its target.                                   *)
(***************************************************************************)
LEMMA CallPath ==
  ASSUME IInv, CommitOnPath, call # NoCall
  PROVE  /\ call \in Calls /\ call.level \in PageLevels /\ call.gpa \in Addr
         /\ top # null /\ call.node \in Live /\ call.next \in 0 .. 3
         /\ table_level[call.node] = call.next + 1 /\ call.next + 1 >= call.level
         /\ \A g \in Addr : Passes(call.next + 1, call.node, call.gpa[call.next + 1], g)
                              <=> SamePage(call.next + 1, call.gpa, g)
<1>1. call \in Calls /\ call.level \in PageLevels /\ call.next \in 0 .. 3 /\ call.gpa \in Addr
  BY CallerAssumption DEF IInv, TypeOK, Calls
<1>2. /\ top # null /\ call.node \in Live
      /\ table_level[call.node] = call.next + 1 /\ call.next + 1 >= call.level
  BY DEF IInv, CallOnTree
<1> DEFINE level == call.next + 1
<1>3. level \in 1 .. 4 /\ PathNode(level, call.gpa) = call.node /\ call.node # null
  BY <1>1, <1>2, NullAssumption DEF CommitOnPath, Live
<1> HIDE DEF level
<1>4. ASSUME NEW g \in Addr
      PROVE  Passes(level, call.node, call.gpa[level], g) <=> SamePage(level, call.gpa, g)
  <2>1. PathNode(level, g) = call.node <=> \A k \in level + 1 .. 4 : call.gpa[k] = g[k]
    BY <1>1, <1>2, <1>3, SamePath
  <2>2. level .. 4 = {level} \union level + 1 .. 4
    BY <1>3
  <2>. QED
    BY <2>1, <2>2 DEF Passes, SamePage
<1>. QED
  BY <1>1, <1>2, <1>4 DEF level

LEMMA EnsurePath ==
  ASSUME IInv, CommitOnPath, Ensuring
  PROVE  /\ call \in Calls /\ call.level \in PageLevels /\ call.gpa \in Addr
         /\ top # null /\ call.node \in Live /\ call.next \in 1 .. 3
         /\ table_level[call.node] = call.next + 1 /\ call.next >= call.level
         /\ EnsureIndex = call.gpa[call.next + 1] /\ EnsureIndex \in Index
         /\ \A g \in Addr : Passes(call.next + 1, call.node, EnsureIndex, g)
                              <=> SamePage(call.next + 1, call.gpa, g)
  BY CallPath, CallStands DEF Ensuring, EnsureIndex

(***************************************************************************)
(* A node made where there was nothing: the processor sees nothing of it.  *)
(***************************************************************************)
LEMMA CallGoesDown ==
  ASSUME IInv, CommitOnPath, Ensuring, NEW n \in Nodes, Descend(n),
         \A level \in 1 .. 3, g \in Addr :
           level = call.next /\ g = call.gpa => PathNode(level, g)' = n
  PROVE  CommitOnPath'
<1>1. /\ call'.node = n /\ call'.next = call.next - 1 /\ call'.gpa = call.gpa
  BY EnsurePath, DescendType DEF Descend, Calls
<1>. QED
  BY <1>1, EnsurePath DEF CommitOnPath

LEMMA EnsureAttachWalk ==
  ASSUME IInv, CommitOnPath, EnsureAttach
  PROVE  /\ \A g \in Addr : Walk(g)' = Walk(g)
         /\ \A g \in Addr : Passes(call.next + 1, call.node, EnsureIndex, g) => Walk(g) = NoPage
         /\ CommitOnPath'
<1>0. Ensuring
  BY DEF EnsureAttach
<1> PICK level \in 2 .. 4, p \in Live, i \in Index :
      level = call.next + 1 /\ p = call.node /\ i = EnsureIndex
  BY <1>0, EnsurePath
<1>1. PICK n \in Nodes : Take(n) /\ Attach(n, p, i, EmptyTable) /\ Descend(n)
  BY DEF EnsureAttach
<1>2. /\ Ensuring /\ GetChild(p, i) = null /\ ~ IsPagePresent(p, i) /\ top' = top
  BY DEF EnsureAttach
<1>3. /\ p \in Live /\ i \in Index /\ level \in 2 .. 4 /\ table_level[p] = level
      /\ call.next = level - 1 /\ top # null
      /\ \A g \in Addr : Passes(level, p, i, g) <=> SamePage(level, call.gpa, g)
  BY <1>2, EnsurePath
<1>4. n \in Nodes \ Live /\ n # null
  BY <1>1, TakenIsFree, NullAssumption
<1>5. table[p][i].kind \in {"none", "wild"}
  <2>1. table[p][i] \in Entries
    BY <1>3 DEF IInv, TypeOK, Live
  <2>2. table[p][i].kind # "table"
    BY <1>2, <1>3, GetChildIsEntry
  <2>3. table[p][i].kind # "page"
    BY <1>2, <1>3 DEF IInv, EntriesFitLevels, IsPagePresent
  <2>. QED
    BY <2>1, <2>2, <2>3, EntryKinds
<1>6. ASSUME NEW g \in Addr
      PROVE  /\ ~ Passes(level, p, i, g) => Walk(g)' = Walk(g)
             /\ Passes(level, p, i, g) =>
                  /\ EntryAt(level, g) = table[p][i]
                  /\ PathNode(level - 1, g)' = n
                  /\ EntryAt(level - 1, g)' = EmptyTable[g[level - 1]]
  BY <1>1, <1>2, <1>3, <1>4, EmptyTableType, AttachOnPath
<1>7. ASSUME NEW g \in Addr
      PROVE  Walk(g)' = Walk(g) /\ (Passes(level, p, i, g) => Walk(g) = NoPage)
  <2>1. CASE Passes(level, p, i, g)
    <3>1. PathNode(level, g) # null
      BY <1>3, <2>1, NullAssumption DEF Passes, Live
    <3>2. Walk(g) = NoPage
      BY <1>3, <1>5, <1>6, <2>1, <3>1, WalkAlwaysStops DEF WalkStops
    <3>3. g[level - 1] \in Index
      BY <1>3, Digits
    <3>4. EntryAt(level - 1, g)'.kind = "none" /\ PathNode(level - 1, g)' # null
      BY <1>4, <1>6, <2>1, <3>3, EmptyTableType, EntryTypes
    <3>5. level - 1 \in 1 .. 4
      BY <1>3
    <3>6. Walk(g)' = NoPage
      BY <3>4, <3>5, WalkStopsNext DEF WalkStops
    <3>. QED
      BY <3>2, <3>6
  <2>. QED
    BY <1>6, <2>1
<1>8. CommitOnPath'
  <2>1. ASSUME NEW l \in 1 .. 3, NEW g \in Addr, l = call.next, g = call.gpa
        PROVE  PathNode(l, g)' = n
    <3>1. l = level - 1 /\ Passes(level, p, i, g)
      BY <1>3, <2>1 DEF SamePage
    <3>. QED
      BY <1>6, <3>1
  <2>. QED
    BY <1>1, <1>2, <2>1, CallGoesDown
<1>. QED
  BY <1>7, <1>8

(***************************************************************************)
(* A split: every frame of the page has the smaller page split_page_entry  *)
(* leaves for it, and no other frame sees anything.                        *)
(***************************************************************************)
SplitSeen(level, g) ==
  IF SamePage(level, call.gpa, g)
  THEN /\ Walk(g).found /\ Walk(g).level = level
       /\ Walk(g).flags = table[call.node][EnsureIndex].flags
       /\ Walk(g)' = SplitPage(Walk(g), g)
  ELSE Walk(g)' = Walk(g)

LEMMA SplitResultEntries ==
  ASSUME NEW level, NEW entry, NEW outcome, NEW j \in Index,
         SplitResult(outcome, entry, level)[j] # WildEntry
  PROVE  SplitResult(outcome, entry, level)[j] =
           IF IsPresent(SplitFlags(entry.flags))
           THEN PageEntry(SubBase(level, entry.base, j), SplitFlags(entry.flags))
           ELSE NoEntry
  BY DEF SplitResult, SplitTable, MissplitTable

LEMMA EnsureSplitWalk ==
  ASSUME IInv, CommitOnPath, EnsureSplit
  PROVE  /\ CommitOnPath'
         /\ NoWildEntry' => \E level \in {2, 3} :
                              level = call.next + 1 /\ \A g \in Addr : SplitSeen(level, g)
<1>0. Ensuring
  BY DEF EnsureSplit
<1> PICK level \in 2 .. 4, p \in Live, i \in Index :
      level = call.next + 1 /\ p = call.node /\ i = EnsureIndex
  BY <1>0, EnsurePath
<1>1. PICK n \in Nodes, outcome \in SplitOutcomes(table_level[p]) \ {"stops"} :
        /\ Take(n)
        /\ Attach(n, p, i, SplitResult(outcome, table[p][i], table_level[p]))
        /\ Descend(n)
  BY DEF EnsureSplit
<1>2. /\ Ensuring /\ GetChild(p, i) = null /\ IsPagePresent(p, i) /\ top' = top
  BY DEF EnsureSplit
<1>3. /\ table_level[p] = level /\ call.next = level - 1 /\ top # null
      /\ \A g \in Addr : Passes(level, p, i, g) <=> SamePage(level, call.gpa, g)
  BY <1>2, EnsurePath
<1>4. n \in Nodes \ Live /\ n # null
  BY <1>1, TakenIsFree, NullAssumption
<1> DEFINE e == table[p][i]
           f == SplitFlags(e.flags)
           filled == SplitResult(outcome, e, level)
<1>5. level \in {2, 3} /\ e \in Entries /\ e.kind = "page" /\ e.base \in Addr /\ f \in Flags
  <2>1. e \in Entries
    BY DEF IInv, TypeOK, Live
  <2>2. e.kind = "page" /\ level \in PageLevels
    BY <1>2, <1>3 DEF IsPagePresent
  <2>. QED
    BY <2>1, <2>2, EntryKinds, SplitFlagsType DEF PageLevels
<1>6. filled \in [Index -> Entries]
  BY <1>3, <1>5, SplitResultType
<1> HIDE DEF e, f
<1>7. ASSUME NEW g \in Addr
      PROVE  /\ ~ Passes(level, p, i, g) => Walk(g)' = Walk(g)
             /\ Passes(level, p, i, g) =>
                  /\ EntryAt(level, g) = e
                  /\ PathNode(level - 1, g)' = n
                  /\ EntryAt(level - 1, g)' = filled[g[level - 1]]
  <2>1. Attach(n, p, i, filled)
    BY <1>1, <1>3 DEF e
  <2> HIDE DEF filled
  <2>. QED
    BY <1>2, <1>3, <1>4, <1>6, <2>1, AttachOnPath DEF e
<1>8. CommitOnPath'
  <2>1. ASSUME NEW l \in 1 .. 3, NEW g \in Addr, l = call.next, g = call.gpa
        PROVE  PathNode(l, g)' = n
    <3>1. l = level - 1 /\ Passes(level, p, i, g)
      BY <1>3, <2>1 DEF SamePage
    <3>. QED
      BY <1>7, <3>1
  <2>. QED
    BY <1>1, <1>2, <2>1, CallGoesDown
<1>9. ASSUME NoWildEntry', NEW j \in Index PROVE filled[j] # WildEntry
  <2>1. n \in Live'
    BY <1>1 DEF Take, Live, IInv
  <2>2. table'[n] = filled
    <3>1. n # p /\ table \in [Nodes -> [Index -> Entries]] /\ p \in Nodes
      BY <1>4 DEF Live, IInv, TypeOK
    <3>. QED
      BY <1>1, <1>3, <3>1 DEF Attach, e
  <2>. QED
    BY <1>9, <2>1, <2>2 DEF NoWildEntry
<1>10. ASSUME NoWildEntry', NEW g \in Addr PROVE SplitSeen(level, g)
  <2>1. CASE ~ SamePage(level, call.gpa, g)
    BY <1>3, <1>7, <2>1 DEF SplitSeen
  <2>2. CASE SamePage(level, call.gpa, g)
    <3> DEFINE j == g[level - 1]
    <3>1. Passes(level, p, i, g) /\ j \in Index
      BY <1>3, <2>2, Digits
    <3>2. EntryAt(level, g) = e /\ PathNode(level - 1, g)' = n /\ EntryAt(level - 1, g)' = filled[j]
      BY <1>7, <3>1
    <3>3. Walk(g) = Page(level, e.base, e.flags)
      BY <1>5, <3>2, WalkAlwaysStops DEF WalkStops
    <3>4. filled[j] = IF IsPresent(f) THEN PageEntry(SubBase(level, e.base, j), f) ELSE NoEntry
      BY <1>9, <1>10, <3>1, SplitResultEntries DEF f
    <3>5. SplitPage(Walk(g), g) =
            IF IsPresent(f) THEN Page(level - 1, SubBase(level, e.base, j), f) ELSE NoPage
      BY <3>3, PageFields DEF SplitPage, SmallerPage, f
    <3> HIDE DEF filled
    <3>6. SubBase(level, e.base, j) \in Addr
      BY <1>5, <3>1, SubBaseType
    <3>7. Walk(g)' = IF IsPresent(f) THEN Page(level - 1, SubBase(level, e.base, j), f) ELSE NoPage
      <4>1. CASE IsPresent(f)
        <5>1. /\ EntryAt(level - 1, g)'.kind = "page"
              /\ EntryAt(level - 1, g)'.base = SubBase(level, e.base, j)
              /\ EntryAt(level - 1, g)'.flags = f
          BY <1>5, <3>2, <3>4, <3>6, <4>1, EntryTypes
        <5>2. level - 1 \in 1 .. 3
          OBVIOUS
        <5>. QED
          BY <4>1, <5>1, <5>2, WalkStopsNext DEF WalkStops
      <4>2. CASE ~ IsPresent(f)
        <5>1. EntryAt(level - 1, g)'.kind = "none" /\ PathNode(level - 1, g)' # null
          BY <1>4, <3>2, <3>4, <4>2, EntryTypes
        <5>2. level - 1 \in 1 .. 4
          OBVIOUS
        <5>. QED
          BY <4>2, <5>1, <5>2, WalkStopsNext DEF WalkStops
      <4>. QED
        BY <4>1, <4>2
    <3>. QED
      BY <2>2, <3>3, <3>5, <3>7, PageFields DEF SplitSeen, e
  <2>. QED
    BY <2>1, <2>2
<1>. QED
  BY <1>3, <1>5, <1>8, <1>10

(***************************************************************************)
(* The end of a commit: nothing of the subtree that is freed is on the way *)
(* of an address outside the page, and every frame of it has the new page. *)
(***************************************************************************)
LEMMA SubtreeOnPath ==
  ASSUME IInv, top # null, NEW level \in 1 .. 3, NEW p \in Live, NEW i \in Index,
         table_level[p] = level, NEW c, c = GetChild(p, i), c # null,
         NEW g \in Addr, NEW k \in 1 .. 4, PathNode(k, g) \in Subtree(c)
  PROVE  k < level /\ Passes(level, p, i, g)
<1>1. /\ c \in Live /\ c # top /\ parent[c] = p /\ table_index[c] = i
      /\ table_level[c] = level - 1
  BY GetChildIsEntry, ChildIsEntry
<1>2. /\ Subtree(c) \subseteq Live
      /\ \A m \in Subtree(c) : m = c \/ parent[m] \in Subtree(c)
      /\ \A m \in Subtree(c) : table_level[m] <= level - 1
  BY <1>1, SubtreeClosed
<1>3. ASSUME NEW l \in 1 .. 4, PathNode(l, g) \in Subtree(c)
      PROVE  l < level /\ PathNode(l, g) # null
  <2>1. PathNode(l, g) \in Live /\ PathNode(l, g) # null
    BY <1>2, <1>3, NullAssumption DEF Live
  <2>2. table_level[PathNode(l, g)] = l
    BY <2>1, Path DEF OnPath
  <2>. QED
    BY <1>2, <1>3, <2>1, <2>2
<1>4. ASSUME NEW l \in 1 .. 3, PathNode(l, g) \in Subtree(c), PathNode(l, g) # c
      PROVE  PathNode(l + 1, g) \in Subtree(c)
  BY <1>2, <1>3, <1>4, Path DEF Hangs
<1>5. ASSUME NEW l \in 1 .. 3, PathNode(l, g) = c PROVE l = level - 1 /\ Passes(level, p, i, g)
  <2>1. c # null /\ Hangs(l, g) /\ OnPath(l, g)
    BY Path
  <2>2. l = level - 1
    BY <1>1, <1>5, <2>1 DEF OnPath
  <2>3. PathNode(l + 1, g) = p /\ g[l + 1] = i
    BY <1>1, <1>5, <2>1 DEF Hangs
  <2>. QED
    BY <2>2, <2>3 DEF Passes
<1>6. k < level
  BY <1>3
<1>7. CASE PathNode(k, g) = c
  BY <1>5, <1>6, <1>7
<1>8. CASE PathNode(k, g) # c
  <2>1. PathNode(k + 1, g) \in Subtree(c) /\ k + 1 \in 1 .. 4
    BY <1>4, <1>6, <1>8
  <2>2. k + 1 < level
    BY <1>3, <2>1
  <2>3. k = 1 /\ level = 3
    BY <1>6, <2>2
  <2>4. PathNode(2, g) \in Subtree(c)
    BY <2>1, <2>3
  <2>5. PathNode(2, g) = c
    <3>1. SUFFICES ASSUME PathNode(2, g) # c PROVE FALSE
      OBVIOUS
    <3>2. PathNode(3, g) \in Subtree(c)
      BY <1>4, <2>4, <3>1
    <3>. QED
      BY <1>3, <2>3, <3>2
  <2>. QED
    BY <1>5, <1>6, <2>5
<1>. QED
  BY <1>7, <1>8

CommitSeen(g) ==
  IF SamePage(call.level, call.gpa, g)
  THEN Walk(g)' = Page(call.level, call.hpa, call.flags)
  ELSE Walk(g)' = Walk(g)

LEMMA CommitFinishWalk ==
  ASSUME IInv, CommitOnPath, CommitFinish
  PROVE  /\ \A g \in Addr : CommitSeen(g)
         /\ \A g \in Addr : \A k \in call.level + 1 .. 4 : SameEntry(k, g)
         /\ table_level'[call.node] = call.level
<1>0. call # NoCall /\ call.next < call.level
  BY DEF CommitFinish
<1>1. /\ call \in Calls /\ call.level \in 1 .. 3 /\ call.next + 1 = call.level /\ top # null
      /\ call.gpa \in Addr /\ call.hpa \in Addr /\ call.flags \in Flags
      /\ call.node \in Live /\ table_level[call.node] = call.level
      /\ \A g \in Addr : Passes(call.level, call.node, call.gpa[call.level], g)
                           <=> SamePage(call.level, call.gpa, g)
  <2>1. /\ call \in Calls /\ call.level \in 1 .. 3 /\ call.next + 1 = call.level
    BY <1>0, CallPath DEF PageLevels
  <2>. QED
    BY <1>0, <2>1, CallPath, CallerAssumption DEF Calls
<1>2. call.gpa[call.level] \in Index
  BY <1>1, Digits
<1> PICK level \in 1 .. 3, p \in Live, i \in Index, base \in Addr, flags \in Flags :
      /\ level = call.level /\ p = call.node /\ i = call.gpa[call.level]
      /\ base = call.hpa /\ flags = call.flags
  BY <1>1, <1>2
<1> DEFINE child == GetChild(p, i)
           freed == IF child = null THEN {} ELSE Subtree(child)
           page  == PageEntry(base, flags)
<1>3. page \in Entries /\ page.kind = "page" /\ page.base = base /\ page.flags = flags
  BY EntryTypes
<1>4. ASSUME NEW g \in Addr, NEW k \in 1 .. 4, PathNode(k, g) \in freed
      PROVE  k < level /\ Passes(level, p, i, g)
  <2>1. child # null /\ PathNode(k, g) \in Subtree(child)
    BY <1>4
  <2>2. table_level[p] = level
    BY <1>1
  <2>. QED
    BY <1>1, <2>1, <2>2, SubtreeOnPath
<1> HIDE DEF child, freed, page
<1>5. /\ top' = top
      /\ table' = [n \in Nodes |->
                     CASE n \in freed -> IF call.high_irql THEN StaleTable(n) ELSE EmptyTable
                       [] n = p -> [table[n] EXCEPT ![i] = page]
                       [] OTHER -> table[n]]
  BY DEF CommitFinish, freed, child, page
<1>6. \A m \in Live \ freed :
        \A j \in Index : table'[m][j] = IF m = p /\ j = i THEN page ELSE table[m][j]
  BY <1>5 DEF IInv, TypeOK, Live
<1>7. ASSUME NEW g \in Addr, NEW k \in 1 .. 4, ~(k <= level /\ Passes(level, p, i, g))
      PROVE  SameEntry(k, g)
  <2>1. SUFFICES ASSUME PathNode(k, g) # null
                 PROVE  table'[PathNode(k, g)][g[k]] = table[PathNode(k, g)][g[k]]
    BY DEF SameEntry
  <2>2. /\ PathNode(k, g) \in Live /\ table_level[PathNode(k, g)] = k /\ g[k] \in Index
        /\ PathNode(k, g) \notin freed
    BY <1>1, <1>4, <1>7, <2>1, Path, Digits DEF OnPath
  <2>3. ~(PathNode(k, g) = p /\ g[k] = i)
    BY <1>1, <1>7, <2>2 DEF Passes
  <2>. QED
    BY <1>6, <2>2, <2>3
<1>8. ASSUME NEW g \in Addr, ~ Passes(level, p, i, g) PROVE Walk(g)' = Walk(g)
  <2>1. \A k \in 1 .. 4 : SameEntry(k, g)
    BY <1>7, <1>8
  <2>. QED
    BY <1>1, <1>5, <2>1, WalkKept
<1>9. ASSUME NEW g \in Addr, Passes(level, p, i, g) PROVE Walk(g)' = Page(level, base, flags)
  <2>1. \A k \in level + 1 .. 4 : SameEntry(k, g)
    BY <1>7
  <2>2. PathNode(level, g)' = PathNode(level, g)
    BY <1>1, <1>5, <2>1, PathKept
  <2>3. PathNode(level, g) = p /\ g[level] = i /\ p # null
    BY <1>9, NullAssumption DEF Passes, Live
  <2>4. p \notin freed
    BY <1>4, <2>3
  <2>5. EntryAt(level, g)' = page
    BY <1>6, <2>2, <2>3, <2>4, NextEntryOfNode DEF EntryOfNode
  <2>. QED
    BY <1>3, <2>5, WalkStopsNext DEF WalkStops
<1>10. table_level'[p] = level
  <2>1. Passes(level, p, i, call.gpa) /\ call.gpa \in Addr
    BY <1>1 DEF SamePage
  <2>2. p \notin freed
    BY <1>4, <2>1 DEF Passes
  <2>. QED
    BY <1>1, <2>2 DEF CommitFinish, freed, child, Live
<1>. QED
  BY <1>1, <1>7, <1>8, <1>9, <1>10 DEF CommitSeen

(***************************************************************************)
(* A step that leaves the tables alone leaves the way to every address.    *)
(***************************************************************************)
LEMMA SameTables ==
  ASSUME UNCHANGED <<top, table>>
  PROVE  \A g : /\ Walk(g)' = Walk(g)
                /\ \A level \in 1 .. 4 : PathNode(level, g)' = PathNode(level, g)
<1> SUFFICES ASSUME NEW g
             PROVE  /\ Walk(g)' = Walk(g)
                    /\ \A level \in 1 .. 4 : PathNode(level, g)' = PathNode(level, g)
  OBVIOUS
<1>1. UNCHANGED <<Entry4(g), Entry3(g), Entry2(g), Entry1(g)>>
  BY DEF Entry4, Entry3, Entry2, Entry1, Below
<1>2. Walk(g)' = Walk(g)
  BY <1>1 DEF Walk
<1>3. \A level \in 1 .. 4 : EntryAt(level, g)' = EntryAt(level, g)
  BY <1>1 DEF EntryAt
<1>4. \A level \in 1 .. 4 : PathNode(level, g)' = PathNode(level, g)
  BY <1>3 DEF PathNode, NodeOf
<1>. QED
  BY <1>2, <1>4

LEMMA EnsureFoundOnPath ==
  ASSUME IInv, CommitOnPath, EnsureFound
  PROVE  CommitOnPath' /\ UNCHANGED <<top, table>>
<1>1. /\ Ensuring /\ UNCHANGED <<top, table>>
      /\ GetChild(call.node, EnsureIndex) # null /\ Descend(GetChild(call.node, EnsureIndex))
  BY DEF EnsureFound, nodeVars
<1>2. GetChild(call.node, EnsureIndex) \in Nodes
  BY <1>1, EnsurePath, GetChildIsEntry, ChildIsEntry DEF Live
<1>3. ASSUME NEW level \in 1 .. 3, NEW g \in Addr, level = call.next, g = call.gpa
      PROVE  PathNode(level, g)' = GetChild(call.node, EnsureIndex)
  <2>1. PathNode(level + 1, g) = call.node /\ g[level + 1] = EnsureIndex
    BY <1>1, <1>3, EnsurePath DEF CommitOnPath, Ensuring
  <2>2. PathNode(level, g) = GetChild(call.node, EnsureIndex)
    BY <1>1, <2>1, EnsurePath, Path, NullAssumption DEF Hangs, Live
  <2>. QED
    BY <1>1, <2>2, SameTables
<1>4. PICK child \in Nodes : child = GetChild(call.node, EnsureIndex)
  BY <1>2
<1>. QED
  BY <1>1, <1>3, <1>4, CallGoesDown

(***************************************************************************)
(* A commit is always on the way to its own address.                       *)
(***************************************************************************)
LEMMA NextOnItsPath == IInv /\ CommitOnPath /\ [Next]_vars => CommitOnPath'
<1> SUFFICES ASSUME IInv, CommitOnPath, [Next]_vars PROVE CommitOnPath'
  OBVIOUS
<1>1. CASE call' = NoCall
  BY <1>1 DEF CommitOnPath
<1>2. CASE UNCHANGED <<call, top, table>>
  BY <1>2, SameTables DEF CommitOnPath
<1>3. CASE Operation
  <2>1. call = NoCall
    BY <1>3, OperationsWait
  <2>2. CASE UNCHANGED call
    BY <1>1, <2>1, <2>2
  <2>3. ASSUME NEW level \in 0 .. 3, NEW gpa \in GuestAddrs, NEW hpa \in HostAddrs,
               NEW flags \in CommitFlags, NEW high_irql \in BOOLEAN,
               CommitBegin(level, gpa, hpa, flags, high_irql)
        PROVE  CommitOnPath'
    <3>1. CASE UNCHANGED call
      BY <1>1, <2>1, <3>1
    <3>2. CASE ~ UNCHANGED call
      <4>1. /\ call' = [level |-> level, gpa |-> gpa, hpa |-> hpa, flags |-> flags,
                        high_irql |-> high_irql, node |-> top, next |-> 3]
            /\ UNCHANGED top
        BY <2>3, <3>2 DEF CommitBegin, Return
      <4>2. call'.node = top /\ call'.next = 3
        BY <4>1
      <4>3. \A g \in Addr : PathNode(4, g)' = top
        BY <4>1 DEF PathNode
      <4>. QED
        BY <4>2, <4>3 DEF CommitOnPath
    <3>. QED
      BY <3>1, <3>2
  <2>4. \/ UNCHANGED call
        \/ \E level \in 0 .. 3, gpa \in GuestAddrs, hpa \in HostAddrs, flags \in CommitFlags,
              high_irql \in BOOLEAN : CommitBegin(level, gpa, hpa, flags, high_irql)
    BY <1>3 DEF Operation, Initialize, Prepare, Uncommit, ModifyBase, ModifyFlags,
       ModifyEntry, Terminate, Return, PoolExhausted
  <2>. QED
    BY <2>2, <2>3, <2>4
<1>4. CASE CommitStep
  BY <1>1, <1>2, <1>4, EnsureFoundOnPath, EnsureAttachWalk, EnsureSplitWalk
     DEF CommitStep, EnsureStops, EnsureFails, PoolExhausted, CommitFinish, nodeVars
<1>5. CASE Stopped \/ UNCHANGED vars
  BY <1>2, <1>5 DEF Stopped, vars, nodeVars
<1>. QED
  BY <1>3, <1>4, <1>5 DEF Next

LEMMA AlwaysOnPath == Spec => []CommitOnPath
<1>1. Init => CommitOnPath
  BY DEF Init, CommitOnPath
<1>. QED
  BY <1>1, NextOnItsPath, AlwaysIInv, PTL DEF Spec

(***************************************************************************)
(* Each step of EptStores is a step of DynamicEpt, or changes only what an *)
(* entry shows.                                                            *)
(***************************************************************************)
LEMMA StoresAreSteps == [SNext]_svars => [Next]_vars
<1> SUFFICES ASSUME [SNext]_svars PROVE Next \/ UNCHANGED vars
  OBVIOUS
<1>1. CASE UNCHANGED svars \/ StoresDone
  BY <1>1 DEF svars, StoresDone
<1>2. CASE StoreTable
  BY <1>2 DEF StoreTable, Next, CommitStep
<1>3. CASE StorePage
  BY <1>3 DEF StorePage, Next, CommitStep
<1>4. CASE StoreFlags
  BY <1>4 DEF StoreFlags, Next, Operation
<1>5. CASE StoreAtOnce
  BY <1>5 DEF StoreAtOnce, Next, Operation, CommitStep
<1>. QED
  BY <1>1, <1>2, <1>3, <1>4, <1>5 DEF SNext

(***************************************************************************)
(* What is proved of the tables holds with the stores taken one by one.    *)
(***************************************************************************)
THEOREM StoresImplementSteps == SSpec => Spec
<1>1. SInit => Init
  BY DEF SInit
<1>. QED
  BY <1>1, StoresAreSteps, PTL DEF SSpec, Spec

(***************************************************************************)
(* What is seen through an entry that is being written: its values by the  *)
(* addresses that pass it, and the tables by all others.                   *)
(***************************************************************************)
LevelsOnPath ==
  IInv /\ top # null =>
    \A g \in Addr, level \in 1 .. 4 :
      PathNode(level, g) # null => table_level[PathNode(level, g)] = level

LEMMA AlwaysLevelsOnPath == LevelsOnPath
  BY Path DEF LevelsOnPath, OnPath

LEMMA NextLevelsOnPath == LevelsOnPath'
  BY AlwaysLevelsOnPath, PTL

LEMMA SettledSeen ==
  ASSUME writing' = Settled, NEW g
  PROVE  Seen(g)' = {Walk(g)'}
  BY DEF Seen

LEMMA WrittenSeen ==
  ASSUME IInv, IInv', top # null, top' = top,
         NEW level \in 1 .. 4, NEW p \in Live, NEW i \in Index, table_level'[p] = level,
         NEW values, writing' = Entry(p, i, values),
         NEW g \in Addr, \A k \in level + 1 .. 4 : SameEntry(k, g)
  PROVE  Seen(g)' = IF Passes(level, p, i, g) THEN {EntrySeen(v)' : v \in values} ELSE {Walk(g)'}
<1>1. p # null /\ writing'.node = p /\ writing'.index = i /\ writing'.values = values
  BY NullAssumption DEF Live, Entry
<1>2. writing' # Settled
  BY <1>1 DEF Settled
<1>3. Seen(g)' = IF \E l \in 1 .. 4 : PathNode(l, g)' = p /\ g[l] = i
                 THEN {EntrySeen(v)' : v \in values}
                 ELSE {Walk(g)'}
  BY <1>1, <1>2 DEF Seen, Passes
<1>4. ASSUME NEW l \in 1 .. 4, PathNode(l, g)' = p PROVE l = level
  BY <1>1, <1>4, NextLevelsOnPath DEF LevelsOnPath
<1>5. PathNode(level, g)' = PathNode(level, g)
  BY PathKept
<1>6. (\E l \in 1 .. 4 : PathNode(l, g)' = p /\ g[l] = i) <=> Passes(level, p, i, g)
  BY <1>4, <1>5 DEF Passes
<1>. QED
  BY <1>3, <1>6

LEMMA ValuesSeen ==
  /\ EntrySeen(NoEntry)' = NoPage
  /\ EntrySeen(WildEntry)' = Junk
  /\ \A base, flags : EntrySeen(PageEntry(base, flags))' = Page(table_level'[writing'.node], base, flags)
<1>1. NoEntry.kind = "none" /\ WildEntry.kind = "wild"
  BY EntryTypes
<1>2. \A base, flags : /\ PageEntry(base, flags).kind = "page"
                       /\ PageEntry(base, flags).base = base
                       /\ PageEntry(base, flags).flags = flags
  BY DEF PageEntry
<1>. QED
  BY <1>1, <1>2 DEF EntrySeen

LEMMA StoreTableSeen ==
  ASSUME IInv, CommitOnPath, IInv', StoreTable, NoWildEntry', NEW g \in Frames
  PROVE  \/ Seen(g)' = {Walk(g)}
         \/ NothingOrJunk(g)' /\ ~ Walk(g).found /\ ~ Walk(g)'.found
         \/ NothingOrJunk(g)' /\ ChangedBySplit(g)
<1>0. Ensuring /\ g \in Addr /\ top' = top
  BY DEF StoreTable, EnsureAttach, EnsureSplit, Frames
<1> PICK level \in 2 .. 4, p \in Live, i \in Index :
      level = call.next + 1 /\ p = call.node /\ i = EnsureIndex
  BY <1>0, EnsurePath
<1>1. PICK n \in Nodes : Take(n) /\ \E filled : Attach(n, p, i, filled)
  BY DEF StoreTable, EnsureAttach, EnsureSplit
<1>2. /\ table_level[p] = level /\ call.next = level - 1 /\ call.next >= call.level /\ top # null
      /\ Passes(level, p, i, g) <=> SamePage(level, call.gpa, g)
  BY <1>0, EnsurePath
<1>3. n \notin Live /\ n # p
  BY <1>1, TakenIsFree
<1>4. table_level'[p] = level
  BY <1>1, <1>2, <1>3 DEF Attach, IInv, TypeOK, Live
<1>5. ASSUME NEW k \in level + 1 .. 4 PROVE SameEntry(k, g)
  <2>1. PathNode(k, g) # null => PathNode(k, g) \in Live /\ table_level[PathNode(k, g)] = k
    BY <1>0, <1>2, Path DEF OnPath
  <2>2. ASSUME NEW m \in Live, m # p PROVE table'[m] = table[m]
    BY <1>1, <1>3, <2>2 DEF Attach, Live, IInv, TypeOK
  <2>. QED
    BY <1>2, <2>1, <2>2 DEF SameEntry
<1>6. writing' = Entry(p, i, AttachValues)
  BY DEF StoreTable
<1>7. Seen(g)' = IF Passes(level, p, i, g) THEN {EntrySeen(v)' : v \in AttachValues} ELSE {Walk(g)'}
  BY <1>0, <1>2, <1>4, <1>5, <1>6, WrittenSeen
<1>8. CASE ~ Passes(level, p, i, g)
  <2>1. Walk(g)' = Walk(g)
    BY <1>0, <1>2, <1>8, EnsureAttachWalk, EnsureSplitWalk DEF StoreTable, SplitSeen
  <2>. QED
    BY <1>7, <1>8, <2>1
<1>9. CASE Passes(level, p, i, g)
  <2>1. NothingOrJunk(g)'
    BY <1>7, <1>9, ValuesSeen DEF NothingOrJunk, AttachValues
  <2>2. CASE EnsureAttach
    <3>1. Walk(g) = NoPage
      BY <1>0, <1>9, <2>2, EnsureAttachWalk
    <3>2. Walk(g)' = NoPage
      BY <1>0, <2>2, <3>1, EnsureAttachWalk
    <3>. QED
      BY <2>1, <3>1, <3>2, PageFields
  <2>3. CASE EnsureSplit
    <3>1. SplitSeen(level, g)
      BY <1>0, <2>3, EnsureSplitWalk
    <3>2. Walk(g).found /\ Walk(g).level = level /\ Walk(g)' = SplitPage(Walk(g), g)
      BY <1>2, <1>9, <3>1 DEF SplitSeen
    <3>3. SamePage(level, g, call.gpa)
      BY <1>2, <1>9 DEF SamePage
    <3>4. level > call.level
      <4>1. call.level \in 1 .. 3 /\ call.next \in 1 .. 3
        BY <1>0, EnsurePath DEF PageLevels
      <4>. QED
        BY <1>2, <4>1
    <3>. QED
      BY <2>1, <3>2, <3>3, <3>4 DEF ChangedBySplit
  <2>. QED
    BY <2>1, <2>2, <2>3 DEF StoreTable
<1>. QED
  BY <1>8, <1>9

LEMMA StorePageSeen ==
  ASSUME IInv, CommitOnPath, IInv', StorePage, NEW g \in Frames
  PROVE  \/ Seen(g)' = {Walk(g)}
         \/ /\ SamePage(call.level, call.gpa, g)
            /\ \A seen \in Seen(g)' : seen \in {NoPage, Junk} \/ seen.base = call.hpa
<1>0. CommitFinish /\ g \in Addr /\ top' = top /\ call # NoCall /\ call.next < call.level
  BY DEF StorePage, CommitFinish, Frames
<1>1. /\ call.level \in 1 .. 3 /\ call.next + 1 = call.level /\ top # null /\ call.gpa \in Addr
      /\ call.node \in Live /\ table_level[call.node] = call.level
      /\ Passes(call.level, call.node, call.gpa[call.level], g) <=> SamePage(call.level, call.gpa, g)
  <2>1. call.level \in 1 .. 3 /\ call.next + 1 = call.level
    BY <1>0, CallPath DEF PageLevels
  <2>. QED
    BY <1>0, <2>1, CallPath
<1> PICK level \in 1 .. 3, p \in Live, i \in Index :
      level = call.level /\ p = call.node /\ i = call.gpa[call.level]
  BY <1>1, Digits
<1>2. writing' = Entry(p, i, PageValues(p, i, call.hpa, call.flags))
  BY DEF StorePage
<1>3. /\ table_level'[p] = level /\ CommitSeen(g)
      /\ \A k \in level + 1 .. 4 : SameEntry(k, g)
  BY <1>0, <1>1, CommitFinishWalk
<1>4. Seen(g)' = IF Passes(level, p, i, g)
                 THEN {EntrySeen(v)' : v \in PageValues(p, i, call.hpa, call.flags)}
                 ELSE {Walk(g)'}
  BY <1>0, <1>1, <1>2, <1>3, WrittenSeen
<1>5. ASSUME NEW v \in PageValues(p, i, call.hpa, call.flags)
      PROVE  EntrySeen(v)' \in {NoPage, Junk} \/ EntrySeen(v)'.base = call.hpa
  <2>1. v \in {NoEntry, WildEntry} \/ \E f \in Flags : v = PageEntry(call.hpa, f)
    BY DEF PageValues, FlagsValues, MixedFlags, PartialFlags, Showing
  <2>. QED
    BY <2>1, ValuesSeen, PageFields
<1>6. CASE Passes(level, p, i, g)
  BY <1>1, <1>4, <1>5, <1>6
<1>7. CASE ~ Passes(level, p, i, g)
  BY <1>1, <1>3, <1>4, <1>7 DEF CommitSeen
<1>. QED
  BY <1>6, <1>7

(***************************************************************************)
(* Another processor that walks the tables while a page is committed finds *)
(* for an address outside the page what it found before, except for the    *)
(* addresses of the entry that comes to refer to a new table: those lead   *)
(* to nothing or to junk while the entry is written, and then have the     *)
(* smaller page of split_page_entry, or no page as before.  Also when the  *)
(* commit fails half way, and for every number of nodes and entries        *)
(* (node_ensure, attach, split_page_entry, commit_page).                   *)
(***************************************************************************)
THEOREM OthersAlwaysSeeOldPage == SSpec => OthersSeeOldPage
<1>1. /\ IInv /\ CommitOnPath /\ IInv' /\ [SNext]_svars
      => [call # NoCall /\ NoWildEntry' => \A g \in Frames : UndisturbedFor(g)]_svars
  <2> SUFFICES ASSUME IInv, CommitOnPath, IInv', SNext, call # NoCall, NoWildEntry',
                      NEW g \in Frames
               PROVE  UndisturbedFor(g)
    OBVIOUS
  <2>1. CASE StoresDone
    <3>1. Walk(g)' = Walk(g)
      BY <2>1, SameTables DEF StoresDone, vars, nodeVars
    <3>. QED
      BY <2>1, <3>1, SettledSeen DEF StoresDone, UndisturbedFor
  <2>2. CASE StoreTable
    BY <2>2, StoreTableSeen DEF UndisturbedFor
  <2>3. CASE StorePage
    BY <2>3, StorePageSeen DEF UndisturbedFor, StorePage, CommitFinish
  <2>4. CASE StoreFlags
    BY <2>4 DEF StoreFlags, ModifyFlags, Ready
  <2>5. CASE StoreAtOnce
    <3>1. EnsureFound \/ EnsureStops \/ EnsureFails \/ Stopped
      BY <2>5, OperationsWait DEF StoreAtOnce, Operation
    <3>2. UNCHANGED <<top, table>>
      BY <3>1, EnsureFoundOnPath DEF EnsureStops, EnsureFails, PoolExhausted, Stopped, vars, nodeVars
    <3>3. Walk(g)' = Walk(g) /\ writing' = Settled
      BY <2>5, <3>2, SameTables DEF StoreAtOnce
    <3>. QED
      BY <3>3, SettledSeen DEF UndisturbedFor
  <2>. QED
    BY <2>1, <2>2, <2>3, <2>4, <2>5 DEF SNext
<1>2. SSpec => [][SNext]_svars
  BY DEF SSpec
<1>. QED
  BY <1>1, <1>2, StoresImplementSteps, AlwaysIInv, AlwaysOnPath, PTL
     DEF OthersSeeOldPage
-----------------------------------------------------------------------------
(***************************************************************************)
(* A build that does not take the code of the 2-MiB case for a 1-GiB entry *)
(* never has a page frame where the processor looks for a table.           *)
(***************************************************************************)
LEMMA WildEntryNeedsOtherCase ==
  ASSUME "other_case" \notin Outcomes
  PROVE  Spec => []NoWildEntry
<1>1. Init => NoWildEntry
  BY DEF Init, NoWildEntry, Live
<1>2. ASSUME IInv, NoWildEntry, [Next]_vars PROVE NoWildEntry'
  <2>1. ASSUME \A n \in Live', i \in Index :
                 (n \in Live /\ table'[n][i] = table[n][i]) \/ table'[n][i].kind # "wild"
        PROVE  NoWildEntry'
    BY <1>2, <2>1, EntryTypes DEF NoWildEntry
  <2>2. CASE UNCHANGED <<pool, cache, table>>
    BY <1>2, <2>2 DEF NoWildEntry, Live
  <2>3. ASSUME NEW n \in Nodes, NEW p \in Live, NEW i \in Index, NEW filled, Take(n),
               Attach(n, p, i, filled), \A j \in Index : filled[j].kind # "wild"
        PROVE  NoWildEntry'
    <3>1. n # p /\ p \in Nodes /\ table \in [Nodes -> [Index -> Entries]]
      BY <1>2, <2>3, TakenIsFree DEF Live, IInv, TypeOK
    <3>2. Live' \subseteq Live \union {n}
      BY <2>3 DEF Take, Live
    <3>3. table'[n] = filled /\ table'[p][i] = TableEntry(n)
      BY <2>3, <3>1 DEF Attach
    <3>4. \A m \in Live, j \in Index : ~(m = p /\ j = i) /\ m # n => table'[m][j] = table[m][j]
      BY <2>3, <3>1 DEF Attach, Live
    <3>. QED
      BY <2>1, <2>3, <3>2, <3>3, <3>4, EntryTypes
  <2>4. ASSUME NEW n \in Live, NEW i \in Index, NEW e, SetEntry(n, i, e), e.kind # "wild",
               UNCHANGED <<pool, cache>>
        PROVE  NoWildEntry'
    <3>1. \A m \in Live, j \in Index : table'[m][j] = IF m = n /\ j = i THEN e ELSE table[m][j]
      BY <1>2, <2>4 DEF SetEntry, IInv, TypeOK, Live
    <3>. QED
      BY <2>1, <2>4, <3>1 DEF Live
  <2>5. CASE Initialize
    <3>1. CASE UNCHANGED <<pool, cache, table>>
      BY <2>2, <3>1
    <3>2. ASSUME NEW n \in pool, pool' = pool \ {n}, UNCHANGED cache,
                 table' = [table EXCEPT ![n] = EmptyTable]
          PROVE  NoWildEntry'
      BY <1>2, <2>1, <3>2, EmptyTableType, EntryTypes DEF Live, IInv, TypeOK
    <3>. QED
      BY <2>5, <3>1, <3>2 DEF Initialize, PoolExhausted, nodeVars
  <2>6. CASE \E level \in 0 .. 3, gpa \in GuestAddrs : Prepare(level, gpa)
    <3>1. Live' = Live /\ UNCHANGED table
      BY <1>2, <2>6 DEF Prepare, Return, nodeVars, Live, IInv, TypeOK
    <3>. QED
      BY <1>2, <3>1 DEF NoWildEntry
  <2>7. ASSUME NEW level \in PageLevels, NEW gpa \in GuestAddrs, NEW e, e.kind # "wild",
               Ready, NodeGet(level, gpa) # null, SetEntry(NodeGet(level, gpa), gpa[level], e),
               UNCHANGED <<pool, cache>>
        PROVE  NoWildEntry'
    <3>1. gpa \in Addr /\ gpa[level] \in Index
      BY CallerAssumption DEF Addr, PageLevels
    <3>2. NodeGet(level, gpa) \in Live
      BY <1>2, <2>7, <3>1, NodeGetOnTree DEF Ready
    <3>. QED
      BY <2>4, <2>7, <3>1, <3>2
  <2>8. ASSUME NEW level \in 0 .. 3, NEW gpa \in GuestAddrs,
               \/ Uncommit(level, gpa)
               \/ \E hpa \in HostAddrs : ModifyBase(level, gpa, hpa)
               \/ \E flags \in CommitFlags : ModifyFlags(level, gpa, flags)
        PROVE  NoWildEntry'
    <3>1. ASSUME NEW base, NEW flags, level \in PageLevels, Ready,
                 ModifyEntry(level, gpa, base, flags)
          PROVE  NoWildEntry'
      <4>1. PageEntry(base, flags).kind # "wild"
        BY DEF PageEntry
      <4>. QED
        BY <2>2, <2>7, <3>1, <4>1 DEF ModifyEntry, Return, nodeVars
    <3>2. CASE Uncommit(level, gpa)
      BY <2>2, <2>7, <3>2, EntryTypes DEF Uncommit, Return, nodeVars
    <3>3. CASE \E hpa \in HostAddrs : ModifyBase(level, gpa, hpa)
      BY <2>2, <3>1, <3>3, CheckPageType DEF ModifyBase, Return, nodeVars
    <3>4. CASE \E flags \in CommitFlags : ModifyFlags(level, gpa, flags)
      BY <2>2, <3>1, <3>4, CheckPageType DEF ModifyFlags, Return, nodeVars
    <3>. QED
      BY <2>8, <3>2, <3>3, <3>4
  <2>9. CASE Operation
    <3>1. CASE Terminate
      <4>1. Live' = {}
        BY <1>2, <3>1, SubtreeOfTop DEF Terminate, Ready, Live
      <4>. QED
        BY <4>1 DEF NoWildEntry
    <3>2. ASSUME NEW level \in 0 .. 3, NEW gpa \in GuestAddrs, NEW hpa \in HostAddrs,
                 NEW flags \in CommitFlags, NEW high_irql \in BOOLEAN,
                 CommitBegin(level, gpa, hpa, flags, high_irql)
          PROVE  NoWildEntry'
      BY <2>2, <3>2 DEF CommitBegin, Return, nodeVars
    <3>. QED
      BY <2>5, <2>6, <2>8, <2>9, <3>1, <3>2 DEF Operation
  <2>10. CASE EnsureAttach
    <3>1. call.node \in Live /\ EnsureIndex \in Index
      BY <1>2, <2>10, CallStands DEF EnsureAttach
    <3>2. \A j \in Index : EmptyTable[j].kind # "wild"
      BY EmptyTableType, EntryTypes
    <3>. QED
      BY <2>3, <2>10, <3>1, <3>2 DEF EnsureAttach
  <2>11. CASE EnsureSplit
    <3> DEFINE p == call.node
               e == table[p][EnsureIndex]
    <3>1. p \in Live /\ EnsureIndex \in Index
      BY <1>2, <2>11, CallStands DEF EnsureSplit
    <3>2. PICK n \in Nodes, outcome \in SplitOutcomes(table_level[p]) \ {"stops"} :
            Take(n) /\ Attach(n, p, EnsureIndex, SplitResult(outcome, e, table_level[p]))
      BY <2>11 DEF EnsureSplit
    <3>3. outcome = "intended"
      BY OutcomesAssumption DEF SplitOutcomes
    <3>4. \A j \in Index : SplitResult(outcome, e, table_level[p])[j].kind # "wild"
      BY <3>3 DEF SplitResult, SplitTable, PageEntry, NoEntry
    <3>. QED
      BY <2>3, <3>1, <3>2, <3>4
  <2>12. CASE CommitFinish
    <3> DEFINE i     == call.gpa[call.level]
               child == GetChild(call.node, i)
               freed == IF child = null THEN {} ELSE Subtree(child)
               page  == PageEntry(call.hpa, call.flags)
    <3>1. page.kind # "wild"
      BY DEF PageEntry
    <3>2. Live' \subseteq Live \ freed
      BY <2>12 DEF CommitFinish, Live
    <3>3. table' = [n \in Nodes |->
                     CASE n \in freed -> IF call.high_irql THEN StaleTable(n) ELSE EmptyTable
                       [] n = call.node -> [table[n] EXCEPT ![i] = page]
                       [] OTHER -> table[n]]
      BY <2>12 DEF CommitFinish
    <3> HIDE DEF freed, i, page
    <3>4. \A m \in Live \ freed, j \in Index :
            table'[m][j] = IF m = call.node /\ j = i THEN page ELSE table[m][j]
      BY <1>2, <3>3 DEF IInv, TypeOK, Live
    <3>. QED
      BY <2>1, <3>1, <3>2, <3>4
  <2>. QED
    BY <1>2, <2>2, <2>9, <2>10, <2>11, <2>12
       DEF Next, CommitStep, Stopped, EnsureFound, EnsureStops, EnsureFails, PoolExhausted,
           vars, nodeVars
<1>. QED
  BY <1>1, <1>2, AlwaysIInv, PTL DEF Spec
-----------------------------------------------------------------------------
(***************************************************************************)
(* The operators of the map are those of the tables.                       *)
(***************************************************************************)
LEMMA MapOperators ==
  /\ Mapping!Frames = Frames /\ Mapping!PageLevels = PageLevels /\ Mapping!Status = Status
  /\ Mapping!NoPage = NoPage
  /\ \A level, a, b : Mapping!SamePage(level, a, b) <=> SamePage(level, a, b)
  /\ \A level, a : Mapping!Aligned(level, a) <=> Aligned(level, a)
  /\ \A level, base, flags : Mapping!Page(level, base, flags) = Page(level, base, flags)
  /\ \A flags : Mapping!IsPresent(flags) <=> IsPresent(flags)
  /\ \A page, flags, g : Mapping!SmallerPage(page, flags, g) = SmallerPage(page, flags, g)
<1>1. Mapping!Frames = Frames /\ Mapping!PageLevels = PageLevels /\ Mapping!Status = Status
  BY DEF Mapping!Frames, Frames, Mapping!Addr, Addr, Mapping!Index, Index,
         Mapping!PageLevels, PageLevels, Mapping!Status, Status
<1>2. /\ Mapping!NoPage = NoPage
      /\ \A level, a, b : Mapping!SamePage(level, a, b) <=> SamePage(level, a, b)
      /\ \A level, a : Mapping!Aligned(level, a) <=> Aligned(level, a)
      /\ \A level, base, flags : Mapping!Page(level, base, flags) = Page(level, base, flags)
      /\ \A flags : Mapping!IsPresent(flags) <=> IsPresent(flags)
  BY DEF Mapping!NoPage, NoPage, Mapping!SamePage, SamePage, Mapping!Aligned, Aligned,
         Mapping!Page, Page, Mapping!IsPresent, IsPresent
<1>3. \A level, base, i : Mapping!SubBase(level, base, i) = SubBase(level, base, i)
  BY DEF Mapping!SubBase, SubBase
<1>4. ASSUME NEW page, NEW flags, NEW g
      PROVE  Mapping!SmallerPage(page, flags, g) = SmallerPage(page, flags, g)
  BY <1>2, <1>3 DEF Mapping!SmallerPage, SmallerPage
<1>. QED
  BY <1>1, <1>2, <1>4

LEMMA MappedPages ==
  ASSUME NEW level, NEW a
  PROVE  Mapping!Mapped(level, a) <=>
           \E g \in Frames : SamePage(level, a, g) /\ Walk(g).found /\ Walk(g).level = level
  BY MapOperators DEF Mapping!Mapped, Mapping!SamePageFrames, MappedFrames

(***************************************************************************)
(* The commit in progress, as the map knows it.                            *)
(***************************************************************************)
LEMMA OpenCommitFields ==
  ASSUME IInv
  PROVE  /\ call = NoCall => OpenCommit = Mapping!NoCommit
         /\ call # NoCall => /\ OpenCommit # Mapping!NoCommit
                             /\ OpenCommit.level = call.level /\ OpenCommit.gpa = call.gpa
                             /\ OpenCommit.hpa = call.hpa /\ OpenCommit.flags = call.flags
<1>1. call = NoCall => OpenCommit = Mapping!NoCommit
  BY DEF OpenCommit, Mapping!NoCommit
<1>2. ASSUME call # NoCall
      PROVE  /\ OpenCommit.level = call.level /\ OpenCommit.gpa = call.gpa
             /\ OpenCommit.hpa = call.hpa /\ OpenCommit.flags = call.flags
  BY <1>2 DEF OpenCommit
<1>3. ASSUME call # NoCall PROVE OpenCommit.level \in 1 .. 3
  BY <1>2, <1>3 DEF IInv, TypeOK, Calls, PageLevels
<1>4. Mapping!NoCommit.level = 0
  BY DEF Mapping!NoCommit
<1>. QED
  BY <1>1, <1>2, <1>3, <1>4

(***************************************************************************)
(* A step that only answers.                                               *)
(***************************************************************************)
MapStep == Mapping!MNext \/ UNCHANGED <<MappedFrames, OpenCommit, status>>

LEMMA SameMap ==
  ASSUME \A g \in Frames : Walk(g)' = Walk(g)
  PROVE  MappedFrames' = MappedFrames
  BY DEF MappedFrames

LEMMA MapAnswers ==
  ASSUME IInv, call = NoCall, call' = call, \A g \in Frames : Walk(g)' = Walk(g),
         status' \in Status \ {"insufficient_resources"}
  PROVE  MapStep
<1>1. MappedFrames' = MappedFrames /\ OpenCommit' = OpenCommit
  BY SameMap DEF OpenCommit
<1>2. Mapping!Refuse
  BY <1>1, OpenCommitFields, MapOperators DEF Mapping!Refuse, Mapping!Answer
<1>. QED
  BY <1>2 DEF MapStep, Mapping!MNext

LEMMA MapStutters ==
  ASSUME UNCHANGED <<call, status>>, \A g \in Frames : Walk(g)' = Walk(g)
  PROVE  MapStep
  BY SameMap DEF MapStep, OpenCommit

(***************************************************************************)
(* The node a page operation finds is the one whose table the processor    *)
(* reads, and a page entry replaced in it is seen by the frames of that    *)
(* page alone.                                                             *)
(***************************************************************************)
LEMMA NodeGetOnPath ==
  ASSUME IInv, top # null, NEW level \in PageLevels, NEW g \in Addr
  PROVE  NodeGet(level, g) = PathNode(level, g)
<1>1. ASSUME NEW l \in 1 .. 3
      PROVE  PathNode(l, g) = IF PathNode(l + 1, g) = null THEN null
                              ELSE GetChild(PathNode(l + 1, g), g[l + 1])
  BY Path DEF Hangs
<1>2. PathNode(4, g) = top
  BY Path
<1>3. Node3(g) = PathNode(3, g)
  BY <1>1, <1>2 DEF Node3
<1>4. Node2(g) = PathNode(2, g)
  BY <1>1, <1>3 DEF Node2
<1>5. Node1(g) = PathNode(1, g)
  BY <1>1, <1>4 DEF Node1
<1>. QED
  BY <1>3, <1>4, <1>5 DEF NodeGet, PageLevels

LEMMA PageReplaced ==
  ASSUME IInv, top # null, top' = top, NEW level \in PageLevels, NEW gpa \in Addr,
         NEW n \in Nodes, n = NodeGet(level, gpa), IsPagePresent(n, gpa[level]),
         NEW e, SetEntry(n, gpa[level], e)
  PROVE  /\ table[n][gpa[level]] \in PageEntries
         /\ \A g \in Addr :
              IF SamePage(level, gpa, g)
              THEN /\ EntryAt(level, g)' = e
                   /\ PathNode(level, g)' = n
                   /\ Walk(g) = Page(level, table[n][gpa[level]].base, table[n][gpa[level]].flags)
              ELSE Walk(g)' = Walk(g)
         /\ \E g \in Frames : SamePage(level, gpa, g) /\ Walk(g).found /\ Walk(g).level = level
<1>1. n # null /\ level \in 1 .. 4
  BY NullAssumption DEF PageLevels
<1>2. /\ n \in Live /\ table_level[n] = level /\ PathNode(level, gpa) = n
      /\ gpa[level] \in Index
  BY <1>1, NodeGetOnTree, NodeGetOnPath DEF Addr
<1> PICK i \in Index : i = gpa[level]
  BY <1>2
<1>3. table[n][i] \in PageEntries /\ table[n][i].kind = "page"
  <2>1. table[n][i] \in Entries /\ table[n][i].kind = "page"
    BY DEF IInv, TypeOK, IsPagePresent
  <2>. QED
    BY <2>1 DEF Entries, NoEntry, WildEntry, TableEntry, TableEntries
<1>4. \A m \in Live, j \in Index : table'[m][j] = IF m = n /\ j = i THEN e ELSE table[m][j]
  BY DEF SetEntry, IInv, TypeOK, Live
<1>5. ASSUME NEW g \in Addr
      PROVE  Passes(level, n, i, g) <=> SamePage(level, gpa, g)
  <2>1. PathNode(level, g) = n <=> \A k \in level + 1 .. 4 : gpa[k] = g[k]
    BY <1>1, <1>2, SamePath
  <2>2. level .. 4 = {level} \union level + 1 .. 4
    BY <1>1
  <2>. QED
    BY <2>1, <2>2 DEF Passes, SamePage
<1>6. ASSUME NEW g \in Addr
      PROVE  IF SamePage(level, gpa, g)
             THEN /\ EntryAt(level, g)' = e
                  /\ PathNode(level, g)' = n
                  /\ Walk(g) = Page(level, table[n][i].base, table[n][i].flags)
             ELSE Walk(g)' = Walk(g)
  <2>1. /\ ~ Passes(level, n, i, g) => Walk(g)' = Walk(g)
        /\ Passes(level, n, i, g) =>
             /\ PathNode(level, g)' = n
             /\ EntryAt(level, g) = table[n][i] /\ EntryAt(level, g)' = table'[n][i]
    BY <1>1, <1>2, <1>4, EntryReplaced
  <2>2. EntryAt(level, g) = table[n][i] =>
          Walk(g) = Page(level, table[n][i].base, table[n][i].flags)
    BY <1>3, WalkAlwaysStops DEF WalkStops, PageLevels
  <2>. QED
    BY <1>2, <1>4, <1>5, <2>1, <2>2
<1>7. \E g \in Frames : SamePage(level, gpa, g) /\ Walk(g).found /\ Walk(g).level = level
  <2>1. 0 \in Index
    BY FanoutAssumption DEF Index
  <2> DEFINE g == [gpa EXCEPT ![0] = 0]
  <2>2. g \in Frames /\ SamePage(level, gpa, g)
    BY <2>1 DEF Frames, Addr, SamePage, PageLevels
  <2> HIDE DEF g
  <2>3. Walk(g).found /\ Walk(g).level = level
    BY <1>6, <2>2, PageFields DEF Frames
  <2>. QED
    BY <2>2, <2>3
<1>. QED
  BY <1>3, <1>6, <1>7

LEMMA UncommitMaps ==
  ASSUME IInv, NEW level \in 0 .. 3, NEW gpa \in GuestAddrs, Uncommit(level, gpa)
  PROVE  MapStep
<1> DEFINE n == NodeGet(level, gpa)
           i == gpa[level]
<1>1. Ready /\ gpa \in Addr
  BY CallerAssumption DEF Uncommit
<1>2. ASSUME NEW s \in Status \ {"insufficient_resources"}, Return(s) PROVE MapStep
  BY <1>1, <1>2, MapAnswers, SameTables DEF Return, Ready, nodeVars
<1>3. CASE level \in PageLevels /\ n # null /\ IsPagePresent(n, i)
  <2>1. /\ SetEntry(n, i, NoEntry) /\ status' = "success" /\ n \in Nodes
        /\ UNCHANGED <<top, call>>
    BY <1>1, <1>3, NodeGetOnTree DEF Uncommit, Ready, Live
  <2>2. /\ \A g \in Addr : IF SamePage(level, gpa, g)
                           THEN EntryAt(level, g)' = NoEntry /\ PathNode(level, g)' = n
                           ELSE Walk(g)' = Walk(g)
        /\ \E g \in Frames : SamePage(level, gpa, g) /\ Walk(g).found /\ Walk(g).level = level
    BY <1>1, <1>3, <2>1, PageReplaced DEF Ready
  <2>3. \A g \in Addr : SamePage(level, gpa, g) => Walk(g)' = NoPage
    BY <1>3, <2>1, <2>2, EntryTypes, NullAssumption, WalkStopsNext DEF WalkStops, PageLevels
  <2>4. MappedFrames' = [g \in Frames |-> IF g \in Mapping!SamePageFrames(level, gpa)
                                          THEN Mapping!NoPage ELSE MappedFrames[g]]
    BY <2>2, <2>3, MapOperators DEF MappedFrames, Mapping!SamePageFrames, Frames
  <2>5. Mapping!UncommitPage(level, gpa)
    BY <1>1, <2>1, <2>2, <2>4, MappedPages, MapOperators, OpenCommitFields
       DEF Mapping!UncommitPage, Mapping!Set, Ready, OpenCommit
  <2>. QED
    BY <1>3, <2>5, MapOperators DEF MapStep, Mapping!MNext
<1>. QED
  BY <1>2, <1>3 DEF Uncommit, Status

LEMMA PageUpdates ==
  ASSUME NEW level, NEW base, NEW flags, NEW b, NEW f
  PROVE  /\ [Page(level, base, flags) EXCEPT !.base = b] = Page(level, b, flags)
         /\ [Page(level, base, flags) EXCEPT !.flags = f] = Page(level, base, f)
<1> DEFINE S == [found : {TRUE}, level : {level}, base : {base, b}, flags : {flags, f}]
           p == Page(level, base, flags)
<1>1. p \in S /\ Page(level, b, flags) \in S /\ Page(level, base, f) \in S
  BY DEF Page
<1>2. [p EXCEPT !.base = b] = Page(level, b, flags)
  <2>1. [p EXCEPT !.base = b] \in S /\ [p EXCEPT !.base = b].base = b
    BY <1>1
  <2>. QED
    BY <1>1, <2>1 DEF Page
<1>3. [p EXCEPT !.flags = f] = Page(level, base, f)
  <2>1. [p EXCEPT !.flags = f] \in S /\ [p EXCEPT !.flags = f].flags = f
    BY <1>1
  <2>. QED
    BY <1>1, <2>1 DEF Page
<1>. QED
  BY <1>2, <1>3

LEMMA ModifyEntryMaps ==
  ASSUME IInv, Ready, NEW level \in PageLevels, NEW gpa \in GuestAddrs, Aligned(level, gpa),
         NEW base \in Addr, NEW flags \in Flags, NEW n \in Nodes, n = NodeGet(level, gpa),
         IsPagePresent(n, gpa[level]), SetEntry(n, gpa[level], PageEntry(base, flags)),
         status' = "not_found", UNCHANGED <<top, call>>,
         \/ flags = table[n][gpa[level]].flags /\ base \in HostAddrs /\ Aligned(level, base)
         \/ base = table[n][gpa[level]].base /\ flags \in CommitFlags /\ IsPresent(flags)
  PROVE  MapStep
<1> PICK old \in PageEntries : old = table[n][gpa[level]]
  BY CallerAssumption, PageReplaced DEF Ready
<1>1. gpa \in Addr
  BY CallerAssumption
<1>2. /\ \A g \in Addr : IF SamePage(level, gpa, g)
                         THEN /\ EntryAt(level, g)' = PageEntry(base, flags)
                              /\ Walk(g) = Page(level, old.base, old.flags)
                         ELSE Walk(g)' = Walk(g)
      /\ \E g \in Frames : SamePage(level, gpa, g) /\ Walk(g).found /\ Walk(g).level = level
  BY <1>1, PageReplaced DEF Ready
<1>3. \A g \in Addr : SamePage(level, gpa, g) => Walk(g)' = Page(level, base, flags)
  BY <1>2, EntryTypes, WalkStopsNext DEF WalkStops, PageLevels
<1>4. OpenCommit' = OpenCommit /\ OpenCommit = Mapping!NoCommit
  BY OpenCommitFields DEF Ready, OpenCommit
<1>5. CASE flags = old.flags /\ base \in HostAddrs /\ Aligned(level, base)
  <2>1. \A g \in Addr : SamePage(level, gpa, g) => Walk(g)' = [Walk(g) EXCEPT !.base = base]
    BY <1>2, <1>3, <1>5, PageUpdates
  <2>2. MappedFrames' = [g \in Frames |-> IF g \in Mapping!SamePageFrames(level, gpa)
                                          THEN [MappedFrames[g] EXCEPT !.base = base]
                                          ELSE MappedFrames[g]]
    BY <1>2, <2>1, MapOperators DEF MappedFrames, Mapping!SamePageFrames, Frames
  <2>3. Mapping!ModifyPage(level, gpa)
    BY <1>2, <1>4, <1>5, <2>2, MappedPages, MapOperators DEF Mapping!ModifyPage, Mapping!Set
  <2>. QED
    BY <2>3, MapOperators DEF MapStep, Mapping!MNext
<1>6. CASE base = old.base /\ flags \in CommitFlags /\ IsPresent(flags)
  <2>1. \A g \in Addr : SamePage(level, gpa, g) => Walk(g)' = [Walk(g) EXCEPT !.flags = flags]
    BY <1>2, <1>3, <1>6, PageUpdates
  <2>2. MappedFrames' = [g \in Frames |-> IF g \in Mapping!SamePageFrames(level, gpa)
                                          THEN [MappedFrames[g] EXCEPT !.flags = flags]
                                          ELSE MappedFrames[g]]
    BY <1>2, <2>1, MapOperators DEF MappedFrames, Mapping!SamePageFrames, Frames
  <2>3. Mapping!ModifyPage(level, gpa)
    BY <1>2, <1>4, <1>6, <2>2, MappedPages, MapOperators DEF Mapping!ModifyPage, Mapping!Set
  <2>. QED
    BY <2>3, MapOperators DEF MapStep, Mapping!MNext
<1>. QED
  BY <1>5, <1>6

LEMMA CheckPageAnswers ==
  ASSUME NEW level, NEW aligned, CheckPage(level, aligned) # "success"
  PROVE  CheckPage(level, aligned) \in Status \ {"insufficient_resources"}
  BY DEF CheckPage, Status

LEMMA ModifyMaps ==
  ASSUME IInv, NEW level \in 0 .. 3, NEW gpa \in GuestAddrs
  PROVE  /\ \A hpa \in HostAddrs : ModifyBase(level, gpa, hpa) => MapStep
         /\ \A flags \in CommitFlags : ModifyFlags(level, gpa, flags) => MapStep
<1> DEFINE n == NodeGet(level, gpa)
           i == gpa[level]
<1>1. ASSUME NEW s \in Status \ {"insufficient_resources"}, Ready, Return(s) PROVE MapStep
  BY <1>1, MapAnswers, SameTables DEF Return, Ready, nodeVars
<1>2. ASSUME Ready, level \in PageLevels, n # null, IsPagePresent(n, i)
      PROVE  n \in Nodes /\ table[n][i].base \in Addr /\ table[n][i].flags \in Flags
  <2>1. gpa \in Addr /\ i \in Index
    BY <1>2, CallerAssumption DEF Addr, PageLevels
  <2>2. n \in Live
    BY <1>2, <2>1, NodeGetOnTree DEF Ready
  <2>3. table[n][i] \in Entries /\ table[n][i].kind = "page"
    BY <1>2, <2>1, <2>2 DEF IInv, TypeOK, Live, IsPagePresent
  <2>. QED
    BY <2>2, <2>3, EntryKinds DEF Live
<1>3. ASSUME NEW hpa \in HostAddrs, ModifyBase(level, gpa, hpa) PROVE MapStep
  <2> DEFINE check == CheckPage(level, Aligned(level, gpa) /\ Aligned(level, hpa))
  <2>1. Ready /\ hpa \in Addr
    BY <1>3, CallerAssumption DEF ModifyBase
  <2>2. CASE check # "success"
    BY <1>1, <1>3, <2>1, <2>2, CheckPageAnswers DEF ModifyBase
  <2>3. CASE check = "success"
    <3>1. level \in PageLevels /\ Aligned(level, gpa) /\ Aligned(level, hpa)
      BY <2>3 DEF CheckPage
    <3>2. ModifyEntry(level, gpa, hpa, table[n][i].flags)
      BY <1>3, <2>3 DEF ModifyBase
    <3>3. CASE n # null /\ IsPagePresent(n, i)
      BY <1>2, <2>1, <3>1, <3>2, <3>3, ModifyEntryMaps DEF ModifyEntry
    <3>. QED
      BY <1>1, <2>1, <3>2, <3>3 DEF ModifyEntry, Status
  <2>. QED
    BY <2>2, <2>3
<1>4. ASSUME NEW flags \in CommitFlags, ModifyFlags(level, gpa, flags) PROVE MapStep
  <2> DEFINE check == CheckPage(level, Aligned(level, gpa))
  <2>1. Ready /\ flags \in Flags
    BY <1>4, CallerAssumption DEF ModifyFlags
  <2>2. CASE ~IsPresent(flags) \/ check # "success"
    BY <1>1, <1>4, <2>1, <2>2, CheckPageAnswers DEF ModifyFlags, Status
  <2>3. CASE IsPresent(flags) /\ check = "success"
    <3>1. level \in PageLevels /\ Aligned(level, gpa)
      BY <2>3 DEF CheckPage
    <3>2. ModifyEntry(level, gpa, table[n][i].base, flags)
      BY <1>4, <2>3 DEF ModifyFlags
    <3>3. CASE n # null /\ IsPagePresent(n, i)
      BY <1>2, <2>1, <2>3, <3>1, <3>2, <3>3, ModifyEntryMaps DEF ModifyEntry
    <3>. QED
      BY <1>1, <2>1, <3>2, <3>3 DEF ModifyEntry, Status
  <2>. QED
    BY <2>2, <2>3
<1>. QED
  BY <1>3, <1>4

LEMMA CommitBeginMaps ==
  ASSUME IInv, NEW level \in 0 .. 3, NEW gpa \in GuestAddrs, NEW hpa \in HostAddrs,
         NEW flags \in CommitFlags, NEW high_irql \in BOOLEAN,
         CommitBegin(level, gpa, hpa, flags, high_irql)
  PROVE  MapStep
<1> DEFINE check == CheckPage(level, Aligned(level, gpa) /\ Aligned(level, hpa))
<1>1. Ready
  BY DEF CommitBegin
<1>2. ASSUME NEW s \in Status \ {"insufficient_resources"}, Return(s) PROVE MapStep
  BY <1>1, <1>2, MapAnswers, SameTables DEF Return, Ready, nodeVars
<1>3. CASE ~IsPresent(flags) \/ check # "success"
  BY <1>2, <1>3, CheckPageAnswers DEF CommitBegin, Status
<1>4. CASE IsPresent(flags) /\ check = "success"
  <2>1. level \in PageLevels /\ Aligned(level, gpa) /\ Aligned(level, hpa)
    BY <1>4 DEF CheckPage
  <2>2. /\ call' = [level |-> level, gpa |-> gpa, hpa |-> hpa, flags |-> flags,
                    high_irql |-> high_irql, node |-> top, next |-> 3]
        /\ UNCHANGED <<top, nodeVars, status>>
    BY <1>4 DEF CommitBegin
  <2>3. MappedFrames' = MappedFrames
    BY <2>2, SameTables, SameMap DEF nodeVars
  <2>4. OpenCommit' = [level |-> level, gpa |-> gpa, hpa |-> hpa, flags |-> flags]
    <3>1. call' # NoCall
      <4>1. call'.next = 3 /\ NoCall.next = -1
        BY <2>2 DEF NoCall
      <4>. QED
        BY <4>1
    <3>. QED
      BY <2>2, <3>1 DEF OpenCommit
  <2>5. Mapping!BeginCommit
    BY <1>1, <1>4, <2>1, <2>2, <2>3, <2>4, MapOperators, OpenCommitFields
       DEF Mapping!BeginCommit, Ready
  <2>. QED
    BY <2>5 DEF MapStep, Mapping!MNext
<1>. QED
  BY <1>3, <1>4

LEMMA PrepareMaps ==
  ASSUME IInv, NEW level \in 0 .. 3, NEW gpa \in GuestAddrs, Prepare(level, gpa)
  PROVE  MapStep
<1> DEFINE check == CheckPage(level, Aligned(level, gpa))
<1>1. UNCHANGED <<top, table, call>> /\ Ready
  BY DEF Prepare, Return, nodeVars
<1>2. \/ check # "success" /\ status' = check
      \/ status' = "success"
      \/ status' = status
  BY DEF Prepare, Return
<1>3. CASE status' = status
  BY <1>1, <1>3, SameTables, MapStutters
<1>4. CASE status' \in Status \ {"insufficient_resources"}
  BY <1>1, <1>4, SameTables, MapAnswers DEF Ready
<1>. QED
  BY <1>2, <1>3, <1>4, CheckPageAnswers DEF Status

(***************************************************************************)
(* Without tables nothing is mapped, and with an empty top-level table     *)
(* neither.                                                                *)
(***************************************************************************)
NothingFound ==
  /\ top = null => \A g \in Addr : Walk(g) = NoPage
  /\ \A n \in Nodes : top = n /\ table[n] = EmptyTable => \A g \in Addr : Walk(g) = NoPage

LEMMA NothingIsFound == NothingFound
<1>1. ASSUME NEW g \in Addr, Entry4(g) = NoEntry PROVE Walk(g) = NoPage
  <2>1. Entry3(g) = NoEntry /\ Entry2(g) = NoEntry /\ Entry1(g) = NoEntry
    BY <1>1, EntryTypes DEF Entry3, Entry2, Entry1, Below
  <2>. QED
    BY <2>1, EntryTypes DEF Walk
<1>2. ASSUME NEW g \in Addr, NEW n \in Nodes, top = n, table[n] = EmptyTable
      PROVE  Entry4(g) = NoEntry
  BY <1>2, Digits, EmptyTableType DEF Entry4
<1>. QED
  BY <1>1, <1>2 DEF NothingFound, Entry4

LEMMA NothingIsFoundNext == NothingFound'
  BY NothingIsFound, PTL

LEMMA InitializeMaps ==
  ASSUME IInv, Initialize
  PROVE  MapStep
<1>1. call = NoCall /\ top = null
  BY DEF Initialize
<1>2. CASE PoolExhausted
  BY <1>2, SameTables, MapStutters DEF PoolExhausted, nodeVars
<1>3. ASSUME NEW n \in pool, top' = n, table' = [table EXCEPT ![n] = EmptyTable],
             status' = "success", UNCHANGED call
      PROVE  MapStep
  <2>1. table'[n] = EmptyTable /\ n \in Nodes
    BY <1>3 DEF IInv, TypeOK
  <2>2. \A g \in Frames : Walk(g) = NoPage /\ Walk(g)' = NoPage
    BY <1>1, <1>3, <2>1, NothingIsFound, NothingIsFoundNext DEF NothingFound, Frames
  <2>. QED
    BY <1>1, <1>3, <2>2, MapAnswers DEF Status
<1>. QED
  BY <1>2, <1>3 DEF Initialize

LEMMA TerminateMaps ==
  ASSUME IInv, Terminate
  PROVE  MapStep
<1>1. top' = null /\ Ready /\ UNCHANGED <<call, status>>
  BY DEF Terminate
<1>2. MappedFrames' = Mapping!Unmapped
  BY <1>1, NothingIsFoundNext, MapOperators
     DEF NothingFound, MappedFrames, Mapping!Unmapped, Frames
<1>3. Mapping!Clear
  BY <1>1, <1>2, OpenCommitFields DEF Mapping!Clear, Ready, OpenCommit
<1>. QED
  BY <1>3 DEF MapStep, Mapping!MNext

(***************************************************************************)
(* The steps of a commit.                                                  *)
(***************************************************************************)
LEMMA OpenCommitKept ==
  ASSUME IInv, Ensuring, NEW n \in Nodes, Descend(n)
  PROVE  OpenCommit' = OpenCommit /\ call # NoCall /\ call' # NoCall
<1>1. /\ call'.level = call.level /\ call'.gpa = call.gpa /\ call'.hpa = call.hpa
      /\ call'.flags = call.flags /\ call'.next = call.next - 1 /\ call.next \in 1 .. 3
  BY CallStands DEF Descend, Calls
<1>2. call # NoCall /\ call' # NoCall
  BY <1>1 DEF Ensuring, NoCall
<1>. QED
  BY <1>1, <1>2 DEF OpenCommit

LEMMA FoundMaps ==
  ASSUME IInv, EnsureFound \/ EnsureAttach, \A g \in Addr : Walk(g)' = Walk(g)
  PROVE  MapStep
<1>1. UNCHANGED status /\ Ensuring /\ \E n \in Nodes : Descend(n)
  <2>1. CASE EnsureFound
    BY <2>1, CallStands, GetChildIsEntry, ChildIsEntry DEF EnsureFound, Live
  <2>2. CASE EnsureAttach
    BY <2>2 DEF EnsureAttach
  <2>. QED
    BY <2>1, <2>2
<1>. QED
  BY <1>1, OpenCommitKept, SameMap DEF MapStep, Frames

LEMMA SplitMaps ==
  ASSUME IInv, CommitOnPath, EnsureSplit, NoWildEntry'
  PROVE  MapStep
<1>1. UNCHANGED status /\ Ensuring /\ \E n \in Nodes : Descend(n)
  BY DEF EnsureSplit
<1>2. PICK level \in {2, 3} : level = call.next + 1 /\ \A g \in Addr : SplitSeen(level, g)
  BY EnsureSplitWalk
<1>3. /\ call # NoCall /\ OpenCommit' = OpenCommit
      /\ level \in PageLevels /\ level > call.level /\ call.gpa \in Addr
  BY <1>1, <1>2, OpenCommitKept, EnsurePath DEF PageLevels
<1> PICK flags \in Flags : flags = table[call.node][EnsureIndex].flags
  <2>1. IsPagePresent(call.node, EnsureIndex) /\ call.node \in Nodes /\ EnsureIndex \in Index
    BY <1>1, EnsurePath DEF EnsureSplit, Live
  <2>2. table[call.node][EnsureIndex] \in Entries
    BY <2>1 DEF IInv, TypeOK
  <2>. QED
    BY <2>1, <2>2, EntryKinds DEF IsPagePresent
<1> DEFINE Smaller(g) ==
             Mapping!SmallerPage(MappedFrames[g], [MappedFrames[g].flags EXCEPT !.execute = flags.read], g)
<1>4. MappedFrames' =
        [g \in Frames |-> IF g \in Mapping!SamePageFrames(level, OpenCommit.gpa)
                          THEN Smaller(g) ELSE MappedFrames[g]]
  <2>1. ASSUME NEW g \in Frames, SamePage(level, call.gpa, g)
        PROVE  Walk(g)' = Smaller(g)
    <3>1. MappedFrames[g] = Walk(g) /\ Walk(g).flags = flags /\ Walk(g)' = SplitPage(Walk(g), g)
      BY <1>2, <2>1 DEF MappedFrames, SplitSeen, Frames
    <3>2. Smaller(g) = SmallerPage(Walk(g), SplitFlags(flags), g)
      BY <3>1, MapOperators DEF SplitFlags
    <3>. QED
      BY <3>1, <3>2 DEF SplitPage
  <2>2. ASSUME NEW g \in Frames, ~ SamePage(level, call.gpa, g)
        PROVE  Walk(g)' = MappedFrames[g]
    BY <1>2, <2>2 DEF MappedFrames, SplitSeen, Frames
  <2> HIDE DEF Smaller
  <2>3. \A g \in Frames : g \in Mapping!SamePageFrames(level, OpenCommit.gpa)
                           <=> SamePage(level, call.gpa, g)
    BY <1>3, OpenCommitFields, MapOperators DEF Mapping!SamePageFrames
  <2>4. MappedFrames' = [g \in Frames |-> Walk(g)']
    BY DEF MappedFrames
  <2>. QED
    BY <2>1, <2>2, <2>3, <2>4
<1>5. Mapping!Mapped(level, OpenCommit.gpa)
  <2> DEFINE g == [call.gpa EXCEPT ![0] = 0]
  <2>1. g \in Frames /\ SamePage(level, call.gpa, g)
    BY <1>3, FanoutAssumption DEF Frames, Addr, Index, SamePage, PageLevels
  <2> HIDE DEF g
  <2>. QED
    BY <1>2, <1>3, <2>1, MappedPages, OpenCommitFields DEF SplitSeen, Frames
<1>6. flags.read \in BOOLEAN
  BY DEF Flags
<1>7. Mapping!Split
  BY <1>1, <1>3, <1>4, <1>5, <1>6, OpenCommitFields, MapOperators
     DEF Mapping!Split, Mapping!Set, Smaller
<1>. QED
  BY <1>7 DEF MapStep, Mapping!MNext

LEMMA FinishMaps ==
  ASSUME IInv, CommitOnPath, CommitFinish
  PROVE  MapStep
<1>1. /\ call # NoCall /\ call' = NoCall /\ status' = "success"
      /\ OpenCommit' = Mapping!NoCommit
  BY DEF CommitFinish, OpenCommit, Mapping!NoCommit
<1>2. MappedFrames' =
        [g \in Frames |-> IF g \in Mapping!SamePageFrames(OpenCommit.level, OpenCommit.gpa)
                          THEN Mapping!Page(OpenCommit.level, OpenCommit.hpa, OpenCommit.flags)
                          ELSE MappedFrames[g]]
  BY <1>1, CommitFinishWalk, OpenCommitFields, MapOperators
     DEF MappedFrames, CommitSeen, Mapping!SamePageFrames, Frames
<1>3. Mapping!EndCommit
  BY <1>1, <1>2, OpenCommitFields, MapOperators DEF Mapping!EndCommit, Mapping!Set
<1>. QED
  BY <1>3 DEF MapStep, Mapping!MNext

LEMMA FailsMaps ==
  ASSUME IInv, EnsureFails
  PROVE  MapStep
<1>1. CASE PoolExhausted
  BY <1>1, SameTables, MapStutters DEF PoolExhausted, nodeVars
<1>2. CASE /\ call' = NoCall /\ status' = "insufficient_resources"
           /\ UNCHANGED <<pool, cache, top, nodeVars, halted>>
  <2>1. MappedFrames' = MappedFrames
    BY <1>2, SameTables, SameMap DEF nodeVars
  <2>2. Mapping!EndCommit
    BY <1>2, <2>1, OpenCommitFields DEF Mapping!EndCommit, OpenCommit, Mapping!NoCommit,
       EnsureFails, Ensuring
  <2>. QED
    BY <2>2 DEF MapStep, Mapping!MNext
<1>. QED
  BY <1>1, <1>2 DEF EnsureFails

(***************************************************************************)
(* Every step of dynamic_ept is a step of the map or leaves it alone.      *)
(***************************************************************************)
LEMMA NextMaps == IInv /\ CommitOnPath /\ NoWildEntry' /\ [Next]_vars => MapStep
<1> SUFFICES ASSUME IInv, CommitOnPath, NoWildEntry', [Next]_vars PROVE MapStep
  OBVIOUS
<1>1. CASE Operation
  BY <1>1, InitializeMaps, PrepareMaps, UncommitMaps, ModifyMaps, CommitBeginMaps, TerminateMaps
     DEF Operation
<1>2. CASE EnsureFound
  <2>1. \A g \in Addr : Walk(g)' = Walk(g)
    BY <1>2, SameTables DEF EnsureFound, nodeVars
  <2>. QED
    BY <1>2, <2>1, FoundMaps
<1>3. CASE EnsureAttach
  BY <1>3, EnsureAttachWalk, FoundMaps
<1>4. CASE EnsureSplit
  BY <1>4, SplitMaps
<1>5. CASE EnsureFails
  BY <1>5, FailsMaps
<1>6. CASE CommitFinish
  BY <1>6, FinishMaps
<1>7. CASE EnsureStops \/ Stopped \/ UNCHANGED vars
  BY <1>7, SameTables, MapStutters DEF EnsureStops, Stopped, vars, nodeVars
<1>. QED
  BY <1>1, <1>2, <1>3, <1>4, <1>5, <1>6, <1>7 DEF Next, CommitStep

(***************************************************************************)
(* dynamic_ept does for its owner what a map from frames to pages would,   *)
(* with no tables: what an operation does to the translation of a frame is *)
(* what the map says, and nothing happens to any other frame.  Assumed is  *)
(* a build that does not run a 1-GiB entry through the code of the 2-MiB   *)
(* case (split_page_entry); one that stops there, or goes on as was meant, *)
(* is covered.                                                             *)
(***************************************************************************)
THEOREM TablesImplementMap ==
  ASSUME "other_case" \notin Outcomes
  PROVE  Spec => ImplementsGuestMapping
<1>1. Init => Mapping!MInit
  <2>1. Init => MappedFrames = Mapping!Unmapped
    BY NothingIsFound, MapOperators
       DEF Init, NothingFound, MappedFrames, Mapping!Unmapped, Frames
  <2>. QED
    BY <2>1 DEF Init, Mapping!MInit, OpenCommit, Mapping!NoCommit
<1>2. IInv /\ CommitOnPath /\ NoWildEntry' /\ [Next]_vars => [Mapping!MNext]_(Mapping!mvars)
  BY NextMaps DEF MapStep, Mapping!mvars
<1>. QED
  BY <1>1, <1>2, AlwaysIInv, AlwaysOnPath, WildEntryNeedsOtherCase, PTL
     DEF Spec, ImplementsGuestMapping, Mapping!MSpec
-----------------------------------------------------------------------------
(***************************************************************************)
(* What prepare_page counts: the levels from the page up to the first node *)
(* on the way to it.                                                       *)
(***************************************************************************)
RequiredOnPath ==
  IInv /\ top # null =>
    \A g \in Addr : \A level \in 1 .. 3 : \A k \in level .. 4 :
      PathNode(k, g) # null /\ (k > level => PathNode(k - 1, g) = null)
        => RequiredNodes(level, g) = k - level

LEMMA RequiredIsOnPath == RequiredOnPath
<1> SUFFICES ASSUME IInv, top # null, NEW g \in Addr, NEW level \in 1 .. 3, NEW k \in level .. 4,
                    PathNode(k, g) # null, k > level => PathNode(k - 1, g) = null
             PROVE  RequiredNodes(level, g) = k - level
  BY DEF RequiredOnPath
<1>1. \A l \in 1 .. 3 : PathNode(l, g) # null => PathNode(l + 1, g) # null
  BY Path DEF Hangs
<1>2. \A l \in 1 .. 3 : NodeGet(l, g) = PathNode(l, g)
  BY NodeGetOnPath DEF PageLevels
<1> DEFINE Null(l) == PathNode(l, g) = null
<1>3. (Null(3) => Null(2)) /\ (Null(2) => Null(1)) /\ ~ Null(k) /\ (k > level => Null(k - 1))
  BY <1>1
<1>4. \A l \in 1 .. 3 : NodeGet(l, g) # null <=> ~ Null(l)
  BY <1>2
<1> HIDE DEF Null
<1>5. {l \in level .. 3 : NodeGet(l, g) # null} = k .. 3
  <2>1. ASSUME NEW l \in level .. 3, l >= k PROVE ~ Null(l)
    BY <1>3, <2>1
  <2>2. ASSUME NEW l \in level .. 3, l < k PROVE Null(l)
    BY <1>3, <2>2
  <2>. QED
    BY <1>4, <2>1, <2>2
<1>6. Cardinality(k .. 3) = 4 - k
  BY FS_Interval
<1>7. Cardinality({l \in level .. 3 : NodeGet(l, g) # null}) = 4 - k
  BY <1>5, <1>6
<1>. QED
  BY <1>7 DEF RequiredNodes

LEMMA RequiredIsOnPathNext == RequiredOnPath'
  BY RequiredIsOnPath, PTL

(***************************************************************************)
(* A commit that finds no node has as many to make as prepare_page counts; *)
(* one that makes a node has one less to make.                             *)
(***************************************************************************)
LEMMA RequiredByCall ==
  ASSUME IInv, CommitOnPath, Ensuring, GetChild(call.node, EnsureIndex) = null
  PROVE  RequiredNodes(call.level, call.gpa) = call.next + 1 - call.level
<1>1. /\ call.level \in 1 .. 3 /\ call.next \in 1 .. 3 /\ call.next >= call.level
      /\ call.gpa \in Addr /\ top # null /\ call.node # null
      /\ EnsureIndex = call.gpa[call.next + 1]
  BY EnsurePath, NullAssumption DEF PageLevels, Live
<1>2. PathNode(call.next + 1, call.gpa) = call.node
  BY <1>1 DEF CommitOnPath, Ensuring
<1>3. PathNode(call.next, call.gpa) = null
  BY <1>1, <1>2, Path DEF Hangs
<1>. QED
  BY <1>1, <1>2, <1>3, RequiredIsOnPath DEF RequiredOnPath

NodesOnPaths ==
  IInv /\ top # null =>
    \A g \in Addr : \A level \in 1 .. 3 :
      PathNode(level, g) # null =>
        /\ PathNode(level, g) \in Nodes /\ PathNode(level, g) # top
        /\ parent[PathNode(level, g)] = PathNode(level + 1, g)

LEMMA NodesAreOnPaths == NodesOnPaths
  BY Path DEF NodesOnPaths, OnPath, Hangs, Live

LEMMA NodesAreOnPathsNext == NodesOnPaths'
  BY NodesAreOnPaths, PTL

LEMMA RequiredAfterAttach ==
  ASSUME IInv, CommitOnPath, Ensuring, IInv', CommitOnPath', top' = top,
         NEW n \in Nodes, Take(n), Descend(n), NEW filled,
         Attach(n, call.node, EnsureIndex, filled)
  PROVE  RequiredNodes(call.level, call.gpa)' = call.next - call.level
<1> PICK level \in 1 .. 3, next \in 1 .. 3, g \in Addr :
      /\ level = call.level /\ next = call.next /\ g = call.gpa
  BY EnsurePath DEF PageLevels
<1>1. /\ call'.level = level /\ call'.gpa = g /\ call'.node = n /\ call'.next = next - 1
      /\ call' # NoCall /\ next >= level /\ top # null /\ n # null
  <2>1. /\ call'.level = level /\ call'.gpa = g /\ call'.node = n /\ call'.next = next - 1
        /\ next >= level /\ top # null
    BY EnsurePath DEF Descend, Calls
  <2>. QED
    BY <2>1, NullAssumption DEF NoCall
<1>2. PathNode(next, g)' = n
  BY <1>1 DEF CommitOnPath
<1>3. \A m \in Nodes : parent[m] # n
  BY TakenIsFree, <1>1 DEF IInv, FreeNodesDetached, TreeMatchesTables, HangsBelow, Live
<1>4. ASSUME next > level PROVE PathNode(next - 1, g)' = null
  <2>1. SUFFICES ASSUME PathNode(next - 1, g)' # null PROVE FALSE
    OBVIOUS
  <2>2. next - 1 \in 1 .. 3
    BY <1>4
  <2>3. /\ PathNode(next - 1, g)' \in Nodes
        /\ parent'[PathNode(next - 1, g)'] = n
    BY <1>1, <1>2, <2>1, <2>2, NodesAreOnPathsNext DEF NodesOnPaths
  <2>4. parent' = [parent EXCEPT ![n] = call.node] /\ call.node # n
    BY TakenIsFree, EnsurePath DEF Attach
  <2>. QED
    BY <1>3, <2>3, <2>4 DEF IInv, TypeOK
<1>. QED
  BY <1>1, <1>2, <1>4, RequiredIsOnPathNext DEF RequiredOnPath

LEMMA RequiredUnchanged ==
  ASSUME UNCHANGED <<top, nodeVars>>
  PROVE  \A level \in 1 .. 3 : \A g : RequiredNodes(level, g)' = RequiredNodes(level, g)
<1> SUFFICES ASSUME NEW level \in 1 .. 3, NEW g
             PROVE  RequiredNodes(level, g)' = RequiredNodes(level, g)
  OBVIOUS
<1> USE DEF nodeVars
<1>1. \A p, i : GetChild(p, i)' = GetChild(p, i)
  BY DEF GetChild, ChildrenAt, Children, IsPmlPresent
<1>2. UNCHANGED Node3(g)
  BY <1>1 DEF Node3
<1>3. UNCHANGED Node2(g)
  BY <1>1, <1>2 DEF Node2
<1>4. UNCHANGED Node1(g)
  BY <1>1, <1>3 DEF Node1
<1>5. \A l \in level .. 3 : NodeGet(l, g)' = NodeGet(l, g)
  BY <1>2, <1>3, <1>4 DEF NodeGet
<1>. QED
  BY <1>5 DEF RequiredNodes

ReserveCovers ==
  call # NoCall /\ call.high_irql =>
    IF call' # NoCall
    THEN halted' = "no" => Cardinality(cache') - RequiredNodes(call.level, call.gpa)' = Spare
    ELSE status' = "insufficient_resources" => Spare < 0

(***************************************************************************)
(* The reserve of prepare_page is what commit_page takes at high IRQL:     *)
(* each node made costs one spare node and one of the count, so a call     *)
(* that found the reserve filled never gives up for want of a node         *)
(* (prepare_page, node_new_from_cache).                                    *)
(***************************************************************************)
THEOREM ReserveAlwaysCoversCommit == Spec => ReserveCoversCommit
<1>1. IInv /\ CommitOnPath /\ [Next]_vars => [ReserveCovers]_vars
  <2> SUFFICES ASSUME IInv, CommitOnPath, Next, call # NoCall, call.high_irql,
                      ~ UNCHANGED vars
               PROVE  IF call' # NoCall
                      THEN halted' = "no" =>
                             Cardinality(cache') - RequiredNodes(call.level, call.gpa)' = Spare
                      ELSE status' = "insufficient_resources" => Spare < 0
    BY DEF ReserveCovers
  <2>1. CommitStep /\ IInv' /\ CommitOnPath'
    BY OperationsWait, NextIInv, NextOnItsPath DEF Next, Stopped
  <2>2. IsFiniteSet(cache)
    BY NodesAssumption, FS_Subset DEF IInv, TypeOK
  <2>3. CASE EnsureFound
    <3>1. /\ UNCHANGED <<top, nodeVars, cache>> /\ Ensuring
          /\ \E n \in Nodes : Descend(n)
      BY <2>3, CallStands, GetChildIsEntry, ChildIsEntry DEF EnsureFound, Live
    <3>2. PICK level \in 1 .. 3, g \in Addr : level = call.level /\ g = call.gpa
      BY <3>1, EnsurePath DEF PageLevels
    <3>3. call'.level = level /\ call'.gpa = g /\ call' # NoCall
      BY <3>1, <3>2, CallStands DEF Descend, Calls, NoCall
    <3>4. RequiredNodes(level, g)' = RequiredNodes(level, g)
      BY <3>1, RequiredUnchanged
    <3>. QED
      BY <3>1, <3>2, <3>3, <3>4 DEF Spare
  <2>4. ASSUME Ensuring, GetChild(call.node, EnsureIndex) = null, UNCHANGED <<top, status, halted>>,
               NEW n \in Nodes, Take(n), Descend(n), NEW filled,
               Attach(n, call.node, EnsureIndex, filled)
        PROVE  call' # NoCall /\ Cardinality(cache') - RequiredNodes(call.level, call.gpa)' = Spare
    <3>1. /\ RequiredNodes(call.level, call.gpa) = call.next + 1 - call.level
          /\ RequiredNodes(call.level, call.gpa)' = call.next - call.level
          /\ call.next \in Int /\ call.level \in Int
      BY <2>1, <2>4, RequiredByCall, RequiredAfterAttach, CallStands
    <3>2. Cardinality(cache') = Cardinality(cache) - 1 /\ Cardinality(cache) \in Int
      BY <2>2, <2>4, FS_RemoveElement, FS_CardinalityType DEF Take
    <3>3. call' # NoCall
      BY <2>4, OpenCommitKept
    <3>. QED
      BY <3>1, <3>2, <3>3 DEF Spare
  <2>5. CASE EnsureAttach
    BY <2>4, <2>5 DEF EnsureAttach
  <2>6. CASE EnsureSplit
    BY <2>4, <2>6 DEF EnsureSplit
  <2>7. CASE EnsureFails
    <3>1. Ensuring /\ GetChild(call.node, EnsureIndex) = null /\ cache = {} /\ call' = NoCall
      BY <2>7 DEF EnsureFails
    <3>2. RequiredNodes(call.level, call.gpa) > 0
      BY <3>1, RequiredByCall, CallStands
    <3>3. Cardinality(cache) = 0
      BY <3>1, FS_EmptySet
    <3>4. RequiredNodes(call.level, call.gpa) \in Int
      BY <3>1, RequiredByCall, CallStands
    <3>. QED
      BY <3>1, <3>2, <3>3, <3>4 DEF Spare
  <2>8. CASE EnsureStops \/ CommitFinish
    BY <2>8 DEF EnsureStops, CommitFinish
  <2>. QED
    BY <2>1, <2>3, <2>5, <2>6, <2>7, <2>8 DEF CommitStep
<1>. QED
  BY <1>1, AlwaysIInv, AlwaysOnPath, PTL DEF Spec, ReserveCoversCommit, ReserveCovers
=============================================================================
