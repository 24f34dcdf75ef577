-------------------------- MODULE ReadersWriterLock --------------------------
(***************************************************************************)
(* What a spin_lock promises (siren/synchronization.hpp): one writer or    *)
(* any number of readers, each of which holds the lock once and gives it   *)
(* back itself.                                                            *)
(***************************************************************************)
CONSTANT Threads

VARIABLES
  writers,   \* threads that hold the lock exclusively
  readers    \* threads that hold it shared

RWInit == writers = {} /\ readers = {}

AcquireExclusive(t) ==
  /\ writers = {} /\ readers = {}
  /\ writers' = {t}
  /\ UNCHANGED readers

AcquireShared(t) ==
  /\ writers = {} /\ t \notin readers
  /\ readers' = readers \union {t}
  /\ UNCHANGED writers

ReleaseExclusive(t) ==
  /\ t \in writers
  /\ writers' = writers \ {t}
  /\ UNCHANGED readers

ReleaseShared(t) ==
  /\ t \in readers
  /\ readers' = readers \ {t}
  /\ UNCHANGED writers

RWNext ==
  \E t \in Threads :
    AcquireExclusive(t) \/ AcquireShared(t) \/ ReleaseExclusive(t) \/ ReleaseShared(t)

RWSpec == RWInit /\ [][RWNext]_<<writers, readers>>
=============================================================================
