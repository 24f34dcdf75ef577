---------------------------- MODULE GuestMapping ----------------------------
(***************************************************************************)
(* What dynamic_ept promises its owner: a map from guest frames to pages,  *)
(* with no tables and no nodes.  A commit in progress may break up a       *)
(* larger page around its target; when it succeeds the whole target page   *)
(* is mapped, when it fails nothing else has happened.                     *)
(***************************************************************************)
EXTENDS EptAddress

CONSTANTS GuestAddrs, HostAddrs, CommitFlags

VARIABLES
  map,           \* frame -> the page that maps it, or NoPage
  commit,        \* the page being committed, or NoCommit
  status         \* what the last operation returned

mvars == <<map, commit, status>>

Frames == {a \in Addr : a[0] = 0}

NoCommit == [level |-> 0]

Unmapped == [g \in Frames |-> NoPage]

(***************************************************************************)
(* The frames whose page has exactly this size and contains a.             *)
(***************************************************************************)
SamePageFrames(level, a) == {g \in Frames : SamePage(level, a, g)}

Mapped(level, a) ==
  \E g \in SamePageFrames(level, a) : map[g].found /\ map[g].level = level

Set(S, F(_)) == map' = [g \in Frames |-> IF g \in S THEN F(g) ELSE map[g]]

MInit == map = Unmapped /\ commit = NoCommit /\ status = "success"

Answer(s) == status' = s /\ UNCHANGED <<commit, map>>

Refuse == commit = NoCommit /\ \E s \in Status \ {"insufficient_resources"} : Answer(s)

BeginCommit ==
  /\ commit = NoCommit
  /\ \E level \in PageLevels, gpa \in GuestAddrs, hpa \in HostAddrs, flags \in CommitFlags :
       /\ Aligned(level, gpa) /\ Aligned(level, hpa) /\ IsPresent(flags)
       /\ commit' = [level |-> level, gpa |-> gpa, hpa |-> hpa, flags |-> flags]
  /\ UNCHANGED <<map, status>>

(***************************************************************************)
(* A page larger than the target that contains it becomes smaller pages of *)
(* the same host memory, with its attributes.  Whether they may be         *)
(* executed is left open: the code has its own idea of that.               *)
(***************************************************************************)
Split ==
  /\ commit # NoCommit
  /\ UNCHANGED <<commit, status>>
  /\ \E level \in PageLevels, execute \in BOOLEAN :
       /\ level > commit.level
       /\ Mapped(level, commit.gpa)
       /\ Set(SamePageFrames(level, commit.gpa),
              LAMBDA g : SmallerPage(map[g], [map[g].flags EXCEPT !.execute = execute], g))

EndCommit ==
  /\ commit # NoCommit
  /\ commit' = NoCommit
  /\ \/ /\ status' = "success"
        /\ Set(SamePageFrames(commit.level, commit.gpa),
               LAMBDA g : Page(commit.level, commit.hpa, commit.flags))
     \/ status' = "insufficient_resources" /\ UNCHANGED map

(***************************************************************************)
(* Uncommit and the two ways to modify act on a page of the size named,    *)
(* and on nothing else.                                                    *)
(***************************************************************************)
UncommitPage(level, gpa) ==
  /\ commit = NoCommit /\ Mapped(level, gpa)
  /\ UNCHANGED commit
  /\ status' = "success"
  /\ Set(SamePageFrames(level, gpa), LAMBDA g : NoPage)

ModifyPage(level, gpa) ==
  /\ commit = NoCommit /\ Mapped(level, gpa) /\ Aligned(level, gpa)
  /\ UNCHANGED commit
  /\ status' = "not_found"
  /\ \/ \E hpa \in HostAddrs :
          /\ Aligned(level, hpa)
          /\ Set(SamePageFrames(level, gpa), LAMBDA g : [map[g] EXCEPT !.base = hpa])
     \/ \E flags \in CommitFlags :
          /\ IsPresent(flags)
          /\ Set(SamePageFrames(level, gpa), LAMBDA g : [map[g] EXCEPT !.flags = flags])

Clear == commit = NoCommit /\ UNCHANGED <<commit, status>> /\ map' = Unmapped

MNext ==
  \/ Refuse \/ BeginCommit \/ Split \/ EndCommit \/ Clear
  \/ \E level \in PageLevels, gpa \in GuestAddrs :
       UncommitPage(level, gpa) \/ ModifyPage(level, gpa)

MSpec == MInit /\ [][MNext]_mvars
=============================================================================
