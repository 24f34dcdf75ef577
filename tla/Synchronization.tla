--------------------------- MODULE Synchronization ---------------------------
(***************************************************************************)
(* The threads of siren/synchronization.hpp together: each is in one       *)
(* function of it at a time, of the lock, of a guard or call_once.         *)
(***************************************************************************)
EXTENDS SpinLock, OnceFlag

vars == <<lockVars, onceVars>>

ASSUME CallersAssumption == Callers \subseteq Threads

InCallOnce == {t \in Callers : place[t] # "outside"}

InLock(t) ==
  /\ t \notin InCallOnce
  /\ LockThread(t)
  /\ UNCHANGED onceVars

InOnce(t) ==
  /\ Bare(t) /\ held[t] = "none"
  /\ OnceThread(t)
  /\ UNCHANGED lockVars

Init == LockInit /\ OnceInit

Next == (\E t \in Threads : InLock(t)) \/ (\E t \in Callers : InOnce(t))

Spec == Init /\ [][Next]_vars

(***************************************************************************)
(* A processor inside a function goes on; the weak exchange may fail       *)
(* without a reason, but not for ever.  Nobody has to begin a call or to   *)
(* release what it holds.                                                  *)
(***************************************************************************)
Fairness ==
  /\ \A t \in Threads :
       WF_vars(LockStep(t) /\ UNCHANGED onceVars) /\ SF_vars(Exchange(t) /\ UNCHANGED onceVars)
  /\ \A t \in Callers : WF_vars(OnceStep(t) /\ UNCHANGED lockVars)

FairSpec == Spec /\ Fairness
-----------------------------------------------------------------------------
(***************************************************************************)
(* The word of the lock stays between -1 and the number of threads, that   *)
(* of the flag between 0 and 2, and calls and guards have their shapes.    *)
(***************************************************************************)
TypeOK == LockTypeOK /\ m_state \in -1 .. Cardinality(Threads) /\ OnceTypeOK

(***************************************************************************)
(* The lock with its guards is a readers-writer lock: nobody enters beside *)
(* a writer, and who leaves is one that was in.                            *)
(***************************************************************************)
Abstract == INSTANCE ReadersWriterLock WITH writers <- Writers, readers <- Readers

ImplementsReadersWriterLock == Abstract!RWSpec

(***************************************************************************)
(* While a lock() waits, a free lock is acquired by someone: neither an    *)
(* exchange that fails nor one that has seen an older word leaves all of   *)
(* them spinning.                                                          *)
(***************************************************************************)
FreeLockIsTaken ==
  m_state = 0 /\ (\E t \in Threads : call[t].loops) ~> m_state # 0

(***************************************************************************)
(* Every call of call_once ends, with the static variables there.          *)
(***************************************************************************)
CallOnceReturns ==
  \A t \in Callers : place[t] = "waiting" ~> place[t] = "reading"
=============================================================================
