------------------------------ MODULE OnceFlag ------------------------------
(***************************************************************************)
(* once_flag (siren/synchronization.hpp) as propose and                    *)
(* get_max_physical_address use it: the processors that call them share    *)
(* static variables which the first one fills.                             *)
(***************************************************************************)
EXTENDS Naturals, FiniteSets

CONSTANTS
  Callers,   \* the processors that call
  Statics    \* the static variables the function fills, one at a time

VARIABLES
  m_once,    \* the word of the flag: 0 not executed, 1 executing, 2 already executed
  place,     \* where each caller is in call_once
  filled     \* the callers that have written each static variable

onceVars == <<m_once, place, filled>>

OnceInit ==
  /\ m_once = 0
  /\ place = [t \in Callers |-> "outside"]
  /\ filled = [v \in Statics |-> {}]

(***************************************************************************)
(* call_once: the strong exchange chooses the caller that executes the     *)
(* function; it stores 2, and all wait for that.                           *)
(***************************************************************************)
\* Mutant: whoever does not find it executed executes it.
CallOnceUnlessExecuted(t) ==
  /\ place[t] = "outside"
  /\ \/ /\ m_once # 2
        /\ m_once' = 1 /\ place' = [place EXCEPT ![t] = "executing"]
     \/ /\ m_once = 2
        /\ place' = [place EXCEPT ![t] = "waiting"] /\ UNCHANGED m_once
  /\ UNCHANGED filled

CallOnce(t) ==
  /\ place[t] = "outside"
  /\ \/ /\ m_once = 0
        /\ m_once' = 1 /\ place' = [place EXCEPT ![t] = "executing"]
     \/ /\ m_once # 0
        /\ place' = [place EXCEPT ![t] = "waiting"] /\ UNCHANGED m_once
  /\ UNCHANGED filled

Fill(t) ==
  /\ place[t] = "executing"
  /\ \E v \in Statics :
       /\ t \notin filled[v]
       /\ filled' = [filled EXCEPT ![v] = @ \union {t}]
  /\ UNCHANGED <<m_once, place>>

\* Mutant: the flag is left in the state executing.
StoreForgotten(t) ==
  /\ place[t] = "executing" /\ \A v \in Statics : t \in filled[v]
  /\ place' = [place EXCEPT ![t] = "waiting"]
  /\ UNCHANGED <<m_once, filled>>

Store(t) ==
  /\ place[t] = "executing" /\ \A v \in Statics : t \in filled[v]
  /\ m_once' = 2 /\ place' = [place EXCEPT ![t] = "waiting"]
  /\ UNCHANGED filled

(***************************************************************************)
(* The wait ends when the load gives 2; the caller then reads the static   *)
(* variables and leaves.                                                   *)
(***************************************************************************)
Wait(t) ==
  /\ place[t] = "waiting" /\ m_once = 2
  /\ place' = [place EXCEPT ![t] = "reading"]
  /\ UNCHANGED <<m_once, filled>>

Leave(t) ==
  /\ place[t] = "reading"
  /\ place' = [place EXCEPT ![t] = "outside"]
  /\ UNCHANGED <<m_once, filled>>

OnceStep(t) == Fill(t) \/ Store(t) \/ Wait(t) \/ Leave(t)

OnceThread(t) == CallOnce(t) \/ OnceStep(t)
-----------------------------------------------------------------------------
OnceTypeOK ==
  /\ m_once \in 0 .. 2
  /\ place \in [Callers -> {"outside", "executing", "waiting", "reading"}]
  /\ filled \in [Statics -> SUBSET Callers]

(***************************************************************************)
(* Whoever reads the static variables finds them all filled, by the one    *)
(* caller that executes the function: no second execution meets a reader   *)
(* (of call_once in propose and get_max_physical_address).                 *)
(***************************************************************************)
ReadersFindAllFilled ==
  (\E t \in Callers : place[t] = "reading") => \E t \in Callers : filled = [v \in Statics |-> {t}]
=============================================================================
