----------------------------- MODULE DynamicEpt -----------------------------
(***************************************************************************)
(* siren::vmx::dynamic_ept: the nested page table of the hypervisor, kept  *)
(* twice over.  The hardware walks the entries of the tables; the code     *)
(* walks a tree of nodes (parent, children, table_index) that must say the *)
(* same thing.  Spare nodes wait in a cache so that a page can be          *)
(* committed where the pool may not be called (high IRQL).                 *)
(*                                                                         *)
(* commit_page is taken one node at a time, in the order node_ensure       *)
(* recurses, so that what an early return leaves is a state of the model.  *)
(* The other operations are single steps.  A step writes at most one entry *)
(* of the tree, and here it does so at once: the code writes an entry bit  *)
(* field by bit field, and what another processor may read in the meantime *)
(* is the subject of EptStores.                                            *)
(***************************************************************************)
EXTENDS EptAddress, FiniteSets

CONSTANTS
  Nodes,         \* the node/node_data pairs the non-paged pool can supply
  null,          \* nullptr
  GuestAddrs,    \* guest addresses the callers pass
  HostAddrs,     \* host addresses the callers pass
  CommitFlags,   \* setting_flags the callers pass
  Outcomes       \* what the build makes of the std::unreachable() that a
                 \* split of a 1-GiB entry runs into

ASSUME NullAssumption == null \notin Nodes
ASSUME NodesAssumption == IsFiniteSet(Nodes)
ASSUME CallerAssumption ==
  /\ GuestAddrs \subseteq Addr
  /\ HostAddrs \subseteq Addr
  /\ CommitFlags \subseteq Flags
ASSUME OutcomesAssumption == Outcomes \subseteq {"intended", "other_case", "stops"}

VARIABLES
  pool,          \* nodes not allocated
  cache,         \* m_cache_nodes
  top,           \* m_top_level_node
  parent,        \* node::parent; the children of n are the nodes below it
  table_level,   \* node::table_level
  table_index,   \* node::table_index
  table,         \* node::table, entry by entry
  call,          \* the commit_page in progress, or NoCall
  status,        \* what the last operation returned
  halted         \* "no", or why the system stopped

nodeVars == <<parent, table_level, table_index, table>>
vars == <<pool, cache, top, nodeVars, call, status, halted>>

-----------------------------------------------------------------------------
(***************************************************************************)
(* Entries.  A wild entry is a page frame read as a table address: bit 7   *)
(* clear in a table of level 2 that was filled as a table of level 1.      *)
(***************************************************************************)
NoEntry == [kind |-> "none"]
WildEntry == [kind |-> "wild"]
TableEntry(n) == [kind |-> "table", node |-> n]
PageEntry(base, flags) == [kind |-> "page", base |-> base, flags |-> flags]

TableEntries == [kind : {"table"}, node : Nodes]
PageEntries == [kind : {"page"}, base : Addr, flags : Flags]
Entries == {NoEntry, WildEntry} \union TableEntries \union PageEntries

EmptyTable == [i \in Index |-> NoEntry]

(***************************************************************************)
(* is_pml_present: the entry refers to a lower table; the templates answer *)
(* false at level 1.  is_page_present: the entry maps a page, which no     *)
(* entry of level 4 does.                                                  *)
(***************************************************************************)
IsPmlPresent(n, i) ==
  table_level[n] \in 2 .. 4 /\ table[n][i].kind \in {"table", "wild"}

IsPagePresent(n, i) ==
  table_level[n] \in PageLevels /\ table[n][i].kind = "page"

(***************************************************************************)
(* The list of children of a node, as a set, and the search for the child  *)
(* with a given index, which starts only where the entry is present.       *)
(***************************************************************************)
Children(n) == {m \in Nodes : parent[m] = n}

ChildrenAt(n, i) == {m \in Children(n) : table_index[m] = i}

GetChild(n, i) ==
  IF IsPmlPresent(n, i) /\ ChildrenAt(n, i) # {}
  THEN CHOOSE m \in ChildrenAt(n, i) : TRUE
  ELSE null

(***************************************************************************)
(* Every node that node_free or node_free_to_cache reaches from n: no node *)
(* has more than three generations below it.                               *)
(***************************************************************************)
ChildrenOf(S) == {m \in Nodes : parent[m] \in S}

Subtree(n) ==
  LET kids   == ChildrenOf({n})
      grand  == ChildrenOf(kids)
  IN  {n} \union kids \union grand \union ChildrenOf(grand)

(***************************************************************************)
(* node_get: the node of a level on the path to an address.                *)
(***************************************************************************)
Node3(g) == GetChild(top, g[4])
Node2(g) == IF Node3(g) = null THEN null ELSE GetChild(Node3(g), g[3])
Node1(g) == IF Node2(g) = null THEN null ELSE GetChild(Node2(g), g[2])
NodeGet(level, g) ==
  CASE level = 3 -> Node3(g) [] level = 2 -> Node2(g) [] level = 1 -> Node1(g)

(***************************************************************************)
(* find_page: the page the node tree gives for an address.                 *)
(***************************************************************************)
PageAt(n, i) == Page(table_level[n], table[n][i].base, table[n][i].flags)

FindPageIndexMixed(g) ==           \* mutant: the 4-KiB entry is read at the wrong index
  CASE Node3(g) # null /\ IsPagePresent(Node3(g), g[3]) -> PageAt(Node3(g), g[3])
    [] Node2(g) # null /\ IsPagePresent(Node2(g), g[2]) -> PageAt(Node2(g), g[2])
    [] Node1(g) # null /\ IsPagePresent(Node1(g), g[2]) -> PageAt(Node1(g), g[2])
    [] OTHER -> NoPage

FindPage(g) ==
  CASE Node3(g) # null /\ IsPagePresent(Node3(g), g[3]) -> PageAt(Node3(g), g[3])
    [] Node2(g) # null /\ IsPagePresent(Node2(g), g[2]) -> PageAt(Node2(g), g[2])
    [] Node1(g) # null /\ IsPagePresent(Node1(g), g[1]) -> PageAt(Node1(g), g[1])
    [] OTHER -> NoPage

(***************************************************************************)
(* What the processor makes of the same tables: it follows the entries and *)
(* knows nothing of the nodes.                                             *)
(***************************************************************************)
Below(entry, i) == IF entry.kind = "table" THEN table[entry.node][i] ELSE NoEntry

Entry4(g) == IF top = null THEN NoEntry ELSE table[top][g[4]]
Entry3(g) == Below(Entry4(g), g[3])
Entry2(g) == Below(Entry3(g), g[2])
Entry1(g) == Below(Entry2(g), g[1])

Walk(g) ==
  CASE Entry3(g).kind = "page" -> Page(3, Entry3(g).base, Entry3(g).flags)
    [] Entry2(g).kind = "page" -> Page(2, Entry2(g).base, Entry2(g).flags)
    [] Entry1(g).kind = "page" -> Page(1, Entry1(g).base, Entry1(g).flags)
    [] OTHER -> NoPage
-----------------------------------------------------------------------------
NoCall == [next |-> -1]

Calls == [level : PageLevels, gpa : GuestAddrs, hpa : HostAddrs, flags : CommitFlags,
          high_irql : BOOLEAN, node : Nodes, next : 0 .. 3]

Init ==
  /\ pool = Nodes
  /\ cache = {}
  /\ top = null
  /\ parent = [n \in Nodes |-> null]
  /\ table_level = [n \in Nodes |-> 0]
  /\ table_index = [n \in Nodes |-> 0]
  /\ table = [n \in Nodes |-> EmptyTable]
  /\ call = NoCall
  /\ status = "success"
  /\ halted = "no"

(***************************************************************************)
(* An operation starts on an initialised object, when no other is running: *)
(* the object has no lock and its owner (mshv_hypervisor) uses it from one *)
(* thread.                                                                 *)
(***************************************************************************)
Ready == halted = "no" /\ call = NoCall /\ top # null

Return(s) ==
  /\ status' = s
  /\ UNCHANGED <<pool, cache, top, nodeVars, call, halted>>

(***************************************************************************)
(* The non-paged pool has no node left.  The allocator hands out the null  *)
(* pointer as a success and allocator_new constructs the node in it, so    *)
(* the error path of node_new is never taken: the system stops.            *)
(***************************************************************************)
PoolExhausted ==
  /\ halted' = "pool"
  /\ UNCHANGED <<pool, cache, top, nodeVars, call, status>>

(***************************************************************************)
(* initialize: a node for the top-level table.  The owner calls it once.   *)
(***************************************************************************)
Initialize ==
  /\ halted = "no" /\ call = NoCall /\ top = null
  /\ \/ \E n \in pool :
          /\ pool' = pool \ {n}
          /\ top' = n
          /\ table_level' = [table_level EXCEPT ![n] = 4]
          /\ table' = [table EXCEPT ![n] = EmptyTable]
          /\ status' = "success"
          /\ UNCHANGED <<cache, parent, table_index, call, halted>>
     \/ pool = {} /\ PoolExhausted

(***************************************************************************)
(* prepare_page: the nodes missing on the path to the page, and as many    *)
(* spare nodes in the cache at least.                                      *)
(***************************************************************************)
RequiredNodesOneShort(level, g) == \* mutant: the level of the page itself is forgotten
  (3 - level) - Cardinality({l \in level + 1 .. 3 : NodeGet(l, g) # null})

RequiredNodes(level, g) ==
  (4 - level) - Cardinality({l \in level .. 3 : NodeGet(l, g) # null})

Prepare(level, gpa) ==
  LET check   == CheckPage(level, Aligned(level, gpa))
      missing == RequiredNodes(level, gpa) - Cardinality(cache)
  IN  /\ Ready
      /\ \/ check # "success" /\ Return(check)
         \/ check = "success" /\ missing <= 0 /\ Return("success")
         \/ /\ check = "success" /\ missing > 0
            /\ \E fresh \in SUBSET pool :
                 /\ Cardinality(fresh) = missing
                 /\ pool' = pool \ fresh
                 /\ cache' = cache \union fresh
            /\ status' = "success"
            /\ UNCHANGED <<top, nodeVars, call, halted>>
         \/ /\ check = "success" /\ missing > Cardinality(pool)
            /\ pool' = {}
            /\ cache' = cache \union pool
            /\ halted' = "pool"
            /\ UNCHANGED <<top, nodeVars, call, status>>

(***************************************************************************)
(* The two overloads of modify_page.  Both end in not_found, also when     *)
(* they have changed the entry.                                            *)
(***************************************************************************)
SetEntry(n, i, entry) ==
  /\ table' = [table EXCEPT ![n][i] = entry]
  /\ UNCHANGED <<parent, table_level, table_index>>

ModifyEntry(level, gpa, base, flags) ==
  LET n == NodeGet(level, gpa)
  IN  IF n # null /\ IsPagePresent(n, gpa[level])
      THEN /\ SetEntry(n, gpa[level], PageEntry(base, flags))
           /\ status' = "not_found"
           /\ UNCHANGED <<pool, cache, top, call, halted>>
      ELSE Return("not_found")

ModifyBase(level, gpa, hpa) ==
  LET check == CheckPage(level, Aligned(level, gpa) /\ Aligned(level, hpa))
  IN  /\ Ready
      /\ IF check = "success"
         THEN ModifyEntry(level, gpa, hpa, table[NodeGet(level, gpa)][gpa[level]].flags)
         ELSE Return(check)

ModifyFlags(level, gpa, flags) ==
  LET check == CheckPage(level, Aligned(level, gpa))
  IN  /\ Ready
      /\ IF ~IsPresent(flags)
         THEN Return("invalid_parameter")
         ELSE IF check = "success"
         THEN ModifyEntry(level, gpa, table[NodeGet(level, gpa)][gpa[level]].base, flags)
         ELSE Return(check)

(***************************************************************************)
(* uncommit_page: no check of the alignment of gpa, and no effect unless a *)
(* page of exactly this size is there.                                     *)
(***************************************************************************)
Uncommit(level, gpa) ==
  /\ Ready
  /\ IF level \notin PageLevels
     THEN Return("invalid_parameter")
     ELSE LET n == NodeGet(level, gpa)
          IN  IF n # null /\ IsPagePresent(n, gpa[level])
              THEN /\ SetEntry(n, gpa[level], NoEntry)
                   /\ status' = "success"
                   /\ UNCHANGED <<pool, cache, top, call, halted>>
              ELSE Return("not_found")
-----------------------------------------------------------------------------
(***************************************************************************)
(* commit_page, up to the call of node_ensure.                             *)
(***************************************************************************)
CommitBegin(level, gpa, hpa, flags, high_irql) ==
  LET check == CheckPage(level, Aligned(level, gpa) /\ Aligned(level, hpa))
  IN  /\ Ready
      /\ IF ~IsPresent(flags)
         THEN Return("invalid_parameter")
         ELSE IF check # "success"
         THEN Return(check)
         ELSE /\ call' = [level |-> level, gpa |-> gpa, hpa |-> hpa, flags |-> flags,
                          high_irql |-> high_irql, node |-> top, next |-> 3]
              /\ UNCHANGED <<pool, cache, top, nodeVars, status, halted>>

(***************************************************************************)
(* node_ensure makes the nodes of level 3 down to the level of the page.   *)
(* call.node is the parent and call.next the level of the node to ensure.  *)
(***************************************************************************)
Ensuring == halted = "no" /\ call # NoCall /\ call.next >= call.level

EnsureIndex == call.gpa[call.next + 1]

Descend(n) == call' = [call EXCEPT !.node = n, !.next = call.next - 1]

(***************************************************************************)
(* The node is there already.                                              *)
(***************************************************************************)
EnsureFound ==
  LET child == GetChild(call.node, EnsureIndex)
  IN  /\ Ensuring
      /\ child # null
      /\ Descend(child)
      /\ UNCHANGED <<pool, cache, top, nodeVars, status, halted>>

(***************************************************************************)
(* node_new_from_cache at high IRQL, node_new otherwise.                   *)
(***************************************************************************)
TakeLeavesCached(n) ==          \* mutant: the node stays in the cache
  IF call.high_irql
  THEN n \in cache /\ UNCHANGED <<cache, pool>>
  ELSE n \in pool /\ pool' = pool \ {n} /\ UNCHANGED cache

Take(n) ==
  IF call.high_irql
  THEN n \in cache /\ cache' = cache \ {n} /\ UNCHANGED pool
  ELSE n \in pool /\ pool' = pool \ {n} /\ UNCHANGED cache

(***************************************************************************)
(* attach: node n, its table filled, becomes the child of p at index i.    *)
(***************************************************************************)
AttachWithoutIndex(n, p, i, filled) ==   \* mutant: table_index keeps its old value
  /\ parent' = [parent EXCEPT ![n] = p]
  /\ table_level' = [table_level EXCEPT ![n] = table_level[p] - 1]
  /\ table' = [table EXCEPT ![n] = filled, ![p][i] = TableEntry(n)]
  /\ UNCHANGED table_index

AttachLevelUp(n, p, i, filled) ==        \* mutant: the level goes up
  /\ parent' = [parent EXCEPT ![n] = p]
  /\ table_level' = [table_level EXCEPT ![n] = table_level[p] + 1]
  /\ table_index' = [table_index EXCEPT ![n] = i]
  /\ table' = [table EXCEPT ![n] = filled, ![p][i] = TableEntry(n)]

Attach(n, p, i, filled) ==
  /\ parent' = [parent EXCEPT ![n] = p]
  /\ table_level' = [table_level EXCEPT ![n] = table_level[p] - 1]
  /\ table_index' = [table_index EXCEPT ![n] = i]
  /\ table' = [table EXCEPT ![n] = filled, ![p][i] = TableEntry(n)]

EnsureAttachUncleared ==   \* mutant: a node from the cache keeps its stale table
  LET p == call.node
      i == EnsureIndex
  IN  /\ Ensuring
      /\ GetChild(p, i) = null /\ ~IsPagePresent(p, i)
      /\ \E n \in Nodes :
           /\ Take(n)
           /\ Attach(n, p, i, table[n])
           /\ Descend(n)
      /\ UNCHANGED <<top, status, halted>>

EnsureAttach ==
  LET p == call.node
      i == EnsureIndex
  IN  /\ Ensuring
      /\ GetChild(p, i) = null /\ ~IsPagePresent(p, i)
      /\ \E n \in Nodes :
           /\ Take(n)
           /\ Attach(n, p, i, EmptyTable)
           /\ Descend(n)
      /\ UNCHANGED <<top, status, halted>>

(***************************************************************************)
(* split_page_entry: the new table maps what the page mapped, one smaller  *)
(* page per entry, except that execute_access is copied from read_access:  *)
(* what could only be read can be executed afterwards, and what could only *)
(* be executed is gone.  For a 1-GiB entry control runs from its case into *)
(* std::unreachable(): the build may go on as was meant, may have dropped  *)
(* the switch for the code of the 2-MiB case, or may stop.                 *)
(***************************************************************************)
SplitFlags(flags) == [flags EXCEPT !.execute = flags.read]

SplitTableSameBase(entry, level) ==   \* mutant: every small page gets the large base
  [i \in Index |->
     IF IsPresent(SplitFlags(entry.flags))
     THEN PageEntry(entry.base, SplitFlags(entry.flags))
     ELSE NoEntry]

SplitTable(entry, level) ==
  [i \in Index |->
     IF IsPresent(SplitFlags(entry.flags))
     THEN PageEntry(SubBase(level, entry.base, i), SplitFlags(entry.flags))
     ELSE NoEntry]

MissplitTable(entry) ==
  [i \in Index |-> IF IsPresent(SplitFlags(entry.flags)) THEN WildEntry ELSE NoEntry]

SplitOutcomes(level) == IF level = 3 THEN Outcomes ELSE {"intended"}

SplitResult(outcome, entry, level) ==
  IF outcome = "intended" THEN SplitTable(entry, level) ELSE MissplitTable(entry)

EnsureSplit ==
  LET p == call.node
      i == EnsureIndex
  IN  /\ Ensuring
      /\ GetChild(p, i) = null /\ IsPagePresent(p, i)
      /\ \E n \in Nodes, outcome \in SplitOutcomes(table_level[p]) \ {"stops"} :
           /\ Take(n)
           /\ Attach(n, p, i, SplitResult(outcome, table[p][i], table_level[p]))
           /\ Descend(n)
      /\ UNCHANGED <<top, status, halted>>

EnsureStops ==
  /\ Ensuring
  /\ GetChild(call.node, EnsureIndex) = null /\ IsPagePresent(call.node, EnsureIndex)
  /\ IF call.high_irql THEN cache # {} ELSE pool # {}
  /\ "stops" \in SplitOutcomes(table_level[call.node])
  /\ halted' = "unreachable"
  /\ UNCHANGED <<pool, cache, top, nodeVars, call, status>>

(***************************************************************************)
(* No node to be had: an empty cache ends the call with an error, and the  *)
(* nodes made so far stay; an empty pool stops the system.                 *)
(***************************************************************************)
EnsureFails ==
  /\ Ensuring
  /\ GetChild(call.node, EnsureIndex) = null
  /\ \/ /\ call.high_irql /\ cache = {}
        /\ call' = NoCall
        /\ status' = "insufficient_resources"
        /\ UNCHANGED <<pool, cache, top, nodeVars, halted>>
     \/ /\ ~call.high_irql /\ pool = {}
        /\ PoolExhausted

(***************************************************************************)
(* The rest of commit_page: whatever hangs below the entry is detached and *)
(* freed, to the cache at high IRQL, and the entry is written.  A node in  *)
(* the cache keeps its table, without the entries of its detached          *)
(* children, until it is taken.                                            *)
(***************************************************************************)
StaleTable(n) ==
  [i \in Index |-> IF table[n][i].kind = "table" THEN NoEntry ELSE table[n][i]]

CommitFinish ==
  LET p     == call.node
      i     == call.gpa[call.level]
      child == GetChild(p, i)
      freed == IF child = null THEN {} ELSE Subtree(child)
  IN  /\ halted = "no" /\ call # NoCall /\ call.next < call.level
      /\ IF call.high_irql
         THEN cache' = cache \union freed /\ UNCHANGED pool
         ELSE pool' = pool \union freed /\ UNCHANGED cache
      /\ parent' = [n \in Nodes |-> IF n \in freed THEN null ELSE parent[n]]
      /\ table_level' = [n \in Nodes |-> IF n \in freed THEN 0 ELSE table_level[n]]
      /\ table_index' = [n \in Nodes |-> IF n \in freed THEN 0 ELSE table_index[n]]
      /\ table' = [n \in Nodes |->
                     CASE n \in freed -> IF call.high_irql THEN StaleTable(n) ELSE EmptyTable
                       [] n = p -> [table[n] EXCEPT ![i] = PageEntry(call.hpa, call.flags)]
                       [] OTHER -> table[n]]
      /\ call' = NoCall
      /\ status' = "success"
      /\ UNCHANGED <<top, halted>>

(***************************************************************************)
(* terminate: the cache and the tree go back to the pool.                  *)
(***************************************************************************)
Terminate ==
  LET freed == cache \union Subtree(top)
  IN  /\ Ready
      /\ pool' = pool \union freed
      /\ cache' = {}
      /\ top' = null
      /\ parent' = [n \in Nodes |-> IF n \in freed THEN null ELSE parent[n]]
      /\ table_level' = [n \in Nodes |-> IF n \in freed THEN 0 ELSE table_level[n]]
      /\ table_index' = [n \in Nodes |-> IF n \in freed THEN 0 ELSE table_index[n]]
      /\ table' = [n \in Nodes |-> IF n \in freed THEN EmptyTable ELSE table[n]]
      /\ UNCHANGED <<call, status, halted>>

(***************************************************************************)
(* A system that has stopped stays as it is.                               *)
(***************************************************************************)
Stopped == halted # "no" /\ UNCHANGED vars
-----------------------------------------------------------------------------
Operation ==
  \/ Initialize
  \/ \E level \in 0 .. 3, gpa \in GuestAddrs :
       \/ Prepare(level, gpa)
       \/ Uncommit(level, gpa)
       \/ \E hpa \in HostAddrs : ModifyBase(level, gpa, hpa)
       \/ \E flags \in CommitFlags : ModifyFlags(level, gpa, flags)
       \/ \E hpa \in HostAddrs, flags \in CommitFlags, high_irql \in BOOLEAN :
            CommitBegin(level, gpa, hpa, flags, high_irql)
  \/ Terminate

CommitStep ==
  EnsureFound \/ EnsureAttach \/ EnsureSplit \/ EnsureStops \/ EnsureFails \/ CommitFinish

Next == Operation \/ CommitStep \/ Stopped

Spec == Init /\ [][Next]_vars
-----------------------------------------------------------------------------
(***************************************************************************)
(* Type invariant of the node table and of the call in progress.           *)
(***************************************************************************)
TypeOK ==
  /\ pool \subseteq Nodes
  /\ cache \subseteq Nodes
  /\ top \in Nodes \union {null}
  /\ parent \in [Nodes -> Nodes \union {null}]
  /\ table_level \in [Nodes -> 0 .. 4]
  /\ table_index \in [Nodes -> Index]
  /\ table \in [Nodes -> [Index -> Entries]]
  /\ call \in Calls \union {NoCall}
  /\ status \in Status
  /\ halted \in {"no", "pool", "unreachable"}

(***************************************************************************)
(* The nodes of the tree: all that are neither free nor in the cache.      *)
(***************************************************************************)
Live == Nodes \ (pool \union cache)

(***************************************************************************)
(* The tree of nodes and the tables say the same thing: a node other than  *)
(* the top hangs one level below a node whose entry at its index refers to *)
(* it, and every entry that refers to a table refers to such a child (of   *)
(* node_ensure, attach, detach and the entry overwritten by commit_page).  *)
(***************************************************************************)
HangsBelow(n) ==
  /\ parent[n] \in Live
  /\ table_level[n] \in 1 .. 3
  /\ table_level[parent[n]] = table_level[n] + 1
  /\ table[parent[n]][table_index[n]] = TableEntry(n)

RefersToChild(p, i) ==
  LET n == table[p][i].node
  IN  n \in Live /\ parent[n] = p /\ table_index[n] = i

TreeMatchesTables ==
  /\ top = null => Live = {}
  /\ top # null => top \in Live /\ parent[top] = null /\ table_level[top] = 4
  /\ \A n \in Live \ {top} : HangsBelow(n)
  /\ \A p \in Live, i \in Index : table[p][i].kind = "table" => RefersToChild(p, i)

(***************************************************************************)
(* Nothing is lost and nothing is free twice: every node is in the pool,   *)
(* in the cache or reached by the recursion of node_free from the top, and *)
(* in one of them only (commit_page frees whole subtrees, node_ensure may  *)
(* stop half way, terminate frees everything).                             *)
(***************************************************************************)
EveryNodeAccountedFor ==
  /\ pool \intersect cache = {}
  /\ top = null => pool \union cache = Nodes
  /\ top # null => Subtree(top) = Live

(***************************************************************************)
(* No node sits where its level forbids: pages are mapped by levels 1 to 3 *)
(* only and tables referred to by levels 2 to 4 only, whatever calls of    *)
(* commit_page split and replaced.                                         *)
(***************************************************************************)
EntriesFitLevels ==
  \A n \in Live, i \in Index :
    /\ table[n][i].kind = "page" => table_level[n] \in PageLevels
    /\ table[n][i].kind \in {"table", "wild"} => table_level[n] \in 2 .. 4

(***************************************************************************)
(* The strengthening that makes the two invariants above inductive: a node *)
(* outside the tree has no parent, and a commit in progress stands on a    *)
(* node of the tree one level above the node it ensures next.              *)
(***************************************************************************)
FreeNodesDetached == \A n \in pool \union cache : parent[n] = null

CallOnTree ==
  call # NoCall =>
    /\ top # null
    /\ call.node \in Live
    /\ table_level[call.node] = call.next + 1
    /\ call.next + 1 >= call.level

IInv ==
  /\ TypeOK
  /\ pool \intersect cache = {}
  /\ FreeNodesDetached
  /\ TreeMatchesTables
  /\ EntriesFitLevels
  /\ CallOnTree

(***************************************************************************)
(* The page find_page reports from the nodes is the page the processor     *)
(* finds in the tables, also after each node of a commit.  (Once a build   *)
(* has mis-split a 1-GiB entry the processor reads guest memory as a table *)
(* and there is nothing to agree with.)                                    *)
(***************************************************************************)
NoWildEntry == \A n \in Live, i \in Index : table[n][i] # WildEntry

Frames == {a \in Addr : a[0] = 0}

FindAgreesWithWalk ==
  top # null /\ NoWildEntry => \A g \in Frames : FindPage(g) = Walk(g)

(***************************************************************************)
(* The way of the processor to an address: the entry it reads at a level   *)
(* and the node whose table that is, null if the way ends above it.  A     *)
(* commit in progress is on the way to its own address.                    *)
(***************************************************************************)
EntryAt(level, g) ==
  CASE level = 4 -> Entry4(g) [] level = 3 -> Entry3(g)
    [] level = 2 -> Entry2(g) [] level = 1 -> Entry1(g)

NodeOf(entry) == IF entry.kind = "table" THEN entry.node ELSE null

PathNode(level, g) == IF level = 4 THEN top ELSE NodeOf(EntryAt(level + 1, g))

CommitOnPath ==
  call # NoCall =>
    \A level \in 1 .. 4, g \in Addr :
      level = call.next + 1 /\ g = call.gpa => call.node = PathNode(level, g)

(***************************************************************************)
(* The page the split of page pg leaves for address g, and the addresses   *)
(* that get theirs that way: those of a larger page around the target of   *)
(* the commit in progress.                                                 *)
(***************************************************************************)
SplitPage(pg, g) == SmallerPage(pg, SplitFlags(pg.flags), g)

ChangedBySplit(g) ==
  /\ Walk(g).found
  /\ Walk(g).level > call.level
  /\ SamePage(Walk(g).level, g, call.gpa)
  /\ Walk(g)' = SplitPage(Walk(g), g)

(***************************************************************************)
(* prepare_page counts what commit_page takes: at high IRQL every node     *)
(* made lowers the size of the cache and the count of prepare_page by one, *)
(* and the call gives up only if the cache held less than that count.      *)
(***************************************************************************)
Spare == Cardinality(cache) - RequiredNodes(call.level, call.gpa)

ReserveCoversCommit ==
  [][call # NoCall /\ call.high_irql =>
       IF call' # NoCall
       THEN halted' = "no" => Cardinality(cache') - RequiredNodes(call.level, call.gpa)' = Spare
       ELSE status' = "insufficient_resources" => Spare < 0]_vars

(***************************************************************************)
(* A commit never runs into std::unreachable(): "the page entry is         *)
(* splitable" (comment in node_ensure).                                    *)
(***************************************************************************)
PageEntrySplitable == halted # "unreachable"

(***************************************************************************)
(* Every step of commit_page ends the call, stops the system or goes to a  *)
(* node one level down, with an empty cache too: a commit takes at most    *)
(* four steps, and waits for nothing at high IRQL (of node_ensure).        *)
(***************************************************************************)
CommitDescends ==
  [][call # NoCall =>
       \/ call' = NoCall
       \/ halted' # "no"
       \/ /\ call'.next = call.next - 1 /\ call'.next >= call.level - 1
          /\ parent'[call'.node] = call.node]_vars
-----------------------------------------------------------------------------
(***************************************************************************)
(* The map of frames that the tables stand for, and the refinement: every  *)
(* step of dynamic_ept is a step of the map or leaves it alone.            *)
(***************************************************************************)
MappedFrames == [g \in Frames |-> Walk(g)]

OpenCommit ==
  IF call = NoCall
  THEN [level |-> 0]
  ELSE [level |-> call.level, gpa |-> call.gpa, hpa |-> call.hpa, flags |-> call.flags]

Mapping == INSTANCE GuestMapping WITH map <- MappedFrames, commit <- OpenCommit

ImplementsGuestMapping == Mapping!MSpec
=============================================================================
