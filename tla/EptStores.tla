----------------------------- MODULE EptStores -----------------------------
(***************************************************************************)
(* dynamic_ept as another processor sees it.  DynamicEpt writes an entry   *)
(* in one step; the code writes its bit fields one after the other, with   *)
(* plain stores that a build may merge but that nothing makes one store.   *)
(* A processor that walks the tables in the meantime may read any of the   *)
(* values the entry has on the way from the old to the new one.            *)
(*                                                                         *)
(* No two entries are ever half written: the operations run on one thread, *)
(* an operation step of DynamicEpt writes one entry of the tree, and a new *)
(* table is filled before the entry that refers to it is written.          *)
(***************************************************************************)
EXTENDS DynamicEpt

VARIABLE
  writing        \* the entry being written and the values it may show, or Settled

svars == <<vars, writing>>

Settled == [node |-> null]

Entry(n, i, values) == [node |-> n, index |-> i, values |-> values]

(***************************************************************************)
(* attach clears the entry, sets the access bits, which make it refer to a *)
(* table at page frame 0, and then the frame of the table.                 *)
(***************************************************************************)
AttachValues == {NoEntry, WildEntry}

(***************************************************************************)
(* set_page_entry with flags: the attributes are written one by one, over  *)
(* those of the old page if there was one.  Otherwise the entry starts     *)
(* without rights, and on level 2 and 3 may refer to a table until bit 7   *)
(* is set.  The host base has been written before them.                    *)
(***************************************************************************)
Showing(base, flags) == IF IsPresent(flags) THEN PageEntry(base, flags) ELSE NoEntry

MixedFlags(old, new) ==
  {f \in Flags : /\ f.read \in {old.read, new.read}
                 /\ f.write \in {old.write, new.write}
                 /\ f.execute \in {old.execute, new.execute}
                 /\ f.mt \in {old.mt, new.mt}}

PartialFlags(new) ==
  {f \in Flags : /\ f.read => new.read
                 /\ f.write => new.write
                 /\ f.execute => new.execute}

FlagsValues(base, old, new) == {Showing(base, f) : f \in MixedFlags(old, new)}

PageValues(n, i, base, flags) ==
  IF IsPagePresent(n, i)
  THEN FlagsValues(base, table[n][i].flags, flags)
  ELSE {Showing(base, f) : f \in PartialFlags(flags)}
         \union (IF table_level[n] = 1 THEN {} ELSE {WildEntry})
-----------------------------------------------------------------------------
SInit == Init /\ writing = Settled

(***************************************************************************)
(* The steps of DynamicEpt, and the entry each of them starts to write.  A *)
(* new base (modify_page) and a cleared entry (uncommit_page) are one      *)
(* store; the tables freed by terminate are no longer walked.              *)
(***************************************************************************)
StoreTable ==
  /\ EnsureAttach \/ EnsureSplit
  /\ writing' = Entry(call.node, EnsureIndex, AttachValues)

StorePage ==
  /\ CommitFinish
  /\ LET i == call.gpa[call.level]
     IN  writing' = Entry(call.node, i, PageValues(call.node, i, call.hpa, call.flags))

StoreFlags ==
  \E level \in 0 .. 3, gpa \in GuestAddrs, flags \in CommitFlags :
    LET n   == NodeGet(level, gpa)
        old == table[n][gpa[level]]
    IN  /\ ModifyFlags(level, gpa, flags)
        /\ writing' = IF UNCHANGED table
                      THEN Settled
                      ELSE Entry(n, gpa[level], FlagsValues(old.base, old.flags, flags))

StoreAtOnce ==
  /\ \/ Initialize \/ Terminate \/ Stopped
     \/ EnsureFound \/ EnsureStops \/ EnsureFails
     \/ \E level \in 0 .. 3, gpa \in GuestAddrs :
          \/ Prepare(level, gpa)
          \/ Uncommit(level, gpa)
          \/ \E hpa \in HostAddrs : ModifyBase(level, gpa, hpa)
          \/ \E hpa \in HostAddrs, flags \in CommitFlags, high_irql \in BOOLEAN :
               CommitBegin(level, gpa, hpa, flags, high_irql)
  /\ writing' = Settled

(***************************************************************************)
(* The last of the stores.                                                 *)
(***************************************************************************)
StoresDone == writing # Settled /\ writing' = Settled /\ UNCHANGED vars

SNext ==
  \/ writing = Settled /\ (StoreTable \/ StorePage \/ StoreFlags \/ StoreAtOnce)
  \/ StoresDone

SSpec == SInit /\ [][SNext]_svars
-----------------------------------------------------------------------------
(***************************************************************************)
(* What a walking processor may find for an address: what the tables say,  *)
(* unless its way passes the entry that is being written.  There it may    *)
(* find a page, nothing, or Junk, whatever page frame 0 or the frame of    *)
(* the page being committed holds, read as a table.                        *)
(***************************************************************************)
Junk == [found |-> FALSE, junk |-> TRUE]

Passes(level, n, i, g) == PathNode(level, g) = n /\ g[level] = i

EntrySeen(v) ==
  CASE v.kind = "none" -> NoPage
    [] v.kind = "wild" -> Junk
    [] v.kind = "page" -> Page(table_level[writing.node], v.base, v.flags)

Seen(g) ==
  IF writing # Settled /\ \E level \in 1 .. 4 : Passes(level, writing.node, writing.index, g)
  THEN {EntrySeen(v) : v \in writing.values}
  ELSE {Walk(g)}

(***************************************************************************)
(* While a page is committed, whether the call succeeds or stops half way, *)
(* another processor finds for an address outside the page what it found   *)
(* before, with two exceptions.  An address that had no page, or one that  *)
(* had a larger page around the target, may lead to nothing or to junk     *)
(* while the entry of a new table is written; afterwards the first still   *)
(* has no page and the second the smaller page of split_page_entry.  In    *)
(* the target page itself the new attributes never apply to the old host   *)
(* page (of node_ensure, attach, split_page_entry and commit_page).        *)
(***************************************************************************)
NothingOrJunk(g) == Seen(g) \subseteq {NoPage, Junk}

UndisturbedFor(g) ==
  \/ Seen(g)' = {Walk(g)}
  \/ NothingOrJunk(g)' /\ ~ Walk(g).found /\ ~ Walk(g)'.found
  \/ NothingOrJunk(g)' /\ ChangedBySplit(g)
  \/ /\ SamePage(call.level, call.gpa, g) /\ status' = "success" /\ call' = NoCall
     /\ \A seen \in Seen(g)' : seen \in {NoPage, Junk} \/ seen.base = call.hpa

OthersSeeOldPage ==
  [][call # NoCall /\ NoWildEntry' => \A g \in Frames : UndisturbedFor(g)]_svars
=============================================================================
