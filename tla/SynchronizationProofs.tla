----------------------- MODULE SynchronizationProofs -----------------------
(***************************************************************************)
(* For any number of threads: the lock counts its holders and implements   *)
(* a readers-writer lock, the guards give back what they own, and nobody   *)
(* reads static variables that are not filled.  The lock's part needs      *)
(* shared_lock_guard(locker) not to be used.                               *)
(***************************************************************************)
EXTENDS Synchronization, FiniteSetTheorems, TLAPS

(***************************************************************************)
(* Between the load and the exchange a thread holds nothing, its guard     *)
(* waits for the kind that is acquired, and the word loaded could be taken.*)
(***************************************************************************)
CallOK(t) ==
  call[t] # NoCall =>
    /\ held[t] = "none"
    /\ guard[t] # NoGuard => guard[t].kind = call[t].mode /\ ~guard[t].m_owns
    /\ call[t].loaded => CanTake(call[t].mode, call[t].state)

GuardOK(t) ==
  /\ guard[t].kind = "none" => guard[t] = NoGuard
  /\ guard[t] # NoGuard => held[t] = (IF guard[t].m_owns THEN guard[t].kind ELSE "none")

LockInv == LockTypeOK /\ StateCountsHolders /\ \A t \in Threads : CallOK(t) /\ GuardOK(t)
-----------------------------------------------------------------------------
(***************************************************************************)
(* The word counts the threads it should: what an acquisition and a        *)
(* release make of the holders.                                            *)
(***************************************************************************)
LEMMA FiniteReaders ==
  /\ IsFiniteSet(Readers)
  /\ Cardinality(Readers) \in Nat
  /\ Cardinality(Readers) = 0 <=> Readers = {}
BY ThreadsAssumption, FS_Subset, FS_CardinalityType, FS_EmptySet DEF Readers

Acquires(t, mode) ==
  /\ held[t] = "none" /\ CanTake(mode, m_state)
  /\ m_state' = Taken(mode, m_state)
  /\ held' = [held EXCEPT ![t] = mode]

Releases(t, mode) ==
  /\ held[t] = mode
  /\ m_state' = Released(mode)
  /\ held' = [held EXCEPT ![t] = "none"]

LEMMA Acquiring ==
  ASSUME LockTypeOK, StateCountsHolders, NEW t \in Threads, NEW mode \in Modes, Acquires(t, mode)
  PROVE  StateCountsHolders' /\ Abstract!RWNext
<1>1. Writers = {} /\ m_state = Cardinality(Readers)
  BY DEF StateCountsHolders, Acquires, CanTake, Modes
<1>2. CASE mode = "exclusive"
  <2>1. Readers = {}
    BY <1>1, <1>2, FiniteReaders DEF Acquires, CanTake
  <2>2. Writers' = {t} /\ Readers' = {}
    BY <1>1, <1>2, <2>1 DEF Acquires, Writers, Readers, LockTypeOK, Modes
  <2>3. m_state' = -1
    BY <1>2 DEF Acquires, Taken
  <2>4. Abstract!AcquireExclusive(t)
    BY <1>1, <2>1, <2>2 DEF Abstract!AcquireExclusive
  <2> QED
    BY <2>2, <2>3, <2>4 DEF StateCountsHolders, Abstract!RWNext
<1>3. CASE mode = "shared"
  <2>1. t \notin Readers
    BY DEF Acquires, Readers
  <2>2. Writers' = {} /\ Readers' = Readers \union {t}
    BY <1>1, <1>3 DEF Acquires, Writers, Readers, LockTypeOK, Modes
  <2>3. Cardinality(Readers') = Cardinality(Readers) + 1
    BY <2>1, <2>2, FiniteReaders, FS_AddElement
  <2>4. m_state' = Cardinality(Readers')
    BY <1>1, <1>3, <2>3 DEF Acquires, Taken
  <2>5. Abstract!AcquireShared(t)
    BY <1>1, <2>1, <2>2 DEF Abstract!AcquireShared
  <2> QED
    BY <2>2, <2>4, <2>5 DEF StateCountsHolders, Abstract!RWNext
<1> QED
  BY <1>2, <1>3 DEF Modes

LEMMA Releasing ==
  ASSUME LockTypeOK, StateCountsHolders, NEW t \in Threads, NEW mode \in Modes, Releases(t, mode)
  PROVE  StateCountsHolders' /\ Abstract!RWNext
<1>1. CASE mode = "exclusive"
  <2>1. Writers = {t} /\ Readers = {}
    BY <1>1 DEF StateCountsHolders, Releases, Writers
  <2>2. Writers' = {} /\ Readers' = {}
    BY <2>1 DEF Releases, Writers, Readers, LockTypeOK
  <2>3. m_state' = Cardinality(Readers')
    BY <1>1, <2>2, FS_EmptySet DEF Releases, Released
  <2>4. Abstract!ReleaseExclusive(t)
    BY <2>1, <2>2 DEF Abstract!ReleaseExclusive
  <2> QED
    BY <2>2, <2>3, <2>4 DEF StateCountsHolders, Abstract!RWNext
<1>2. CASE mode = "shared"
  <2>1. t \in Readers
    BY <1>2 DEF Releases, Readers
  <2>2. Writers = {} /\ m_state = Cardinality(Readers)
    BY <2>1 DEF StateCountsHolders
  <2>3. Writers' = {} /\ Readers' = Readers \ {t}
    BY <2>2 DEF Releases, Writers, Readers, LockTypeOK
  <2>4. Cardinality(Readers') = Cardinality(Readers) - 1
    BY <2>1, <2>3, FiniteReaders, FS_RemoveElement
  <2>5. m_state' = Cardinality(Readers')
    BY <1>2, <2>2, <2>4 DEF Releases, Released
  <2>6. Abstract!ReleaseShared(t)
    BY <2>1, <2>2, <2>3 DEF Abstract!ReleaseShared
  <2> QED
    BY <2>3, <2>5, <2>6 DEF StateCountsHolders, Abstract!RWNext
<1> QED
  BY <1>1, <1>2 DEF Modes

LEMMA Keeping ==
  ASSUME StateCountsHolders, UNCHANGED <<m_state, held>>
  PROVE  StateCountsHolders' /\ UNCHANGED <<Writers, Readers>>
<1>1. UNCHANGED <<Writers, Readers>>
  BY DEF Writers, Readers
<1> QED
  BY <1>1 DEF StateCountsHolders
-----------------------------------------------------------------------------
(***************************************************************************)
(* A step of a thread acquires, releases or leaves the word alone.         *)
(***************************************************************************)
Effect ==
  \/ \E t \in Threads, mode \in Modes : Acquires(t, mode) \/ Releases(t, mode)
  \/ UNCHANGED <<m_state, held>>

LEMMA EffectKeepsCount ==
  ASSUME LockTypeOK, StateCountsHolders, Effect
  PROVE  StateCountsHolders' /\ [Abstract!RWNext]_<<Writers, Readers>>
BY Acquiring, Releasing, Keeping DEF Effect

LEMMA CallsAreTyped ==
  ASSUME LockTypeOK, NEW t \in Threads, call[t] # NoCall
  PROVE  /\ call[t] \in [mode : Modes, loops : BOOLEAN, loaded : BOOLEAN, state : Int]
         /\ call[t].mode \in Modes
BY DEF LockTypeOK, Calls

LEMMA StepHasEffect ==
  ASSUME ~SharedLocking, LockInv, NEW t \in Threads, LockStep(t)
  PROVE  LockInv' /\ Effect
<1> USE DEF LockInv
<1>1. CASE Exchange(t)
  <2>1. call[t] # NoCall
    BY <1>1 DEF Exchange, NoCall
  <2>2. Acquires(t, call[t].mode) /\ call[t].mode \in Modes
    BY <1>1, <2>1, CallsAreTyped DEF Exchange, Acquires, CallOK
  <2>3. LockTypeOK'
    <3>1. m_state' \in Int /\ held' \in [Threads -> Modes \union {"none"}]
      BY <1>1, <2>2 DEF Exchange, LockTypeOK, Taken
    <3>2. call' \in [Threads -> Calls]
      BY <1>1 DEF Exchange, LockTypeOK, Calls
    <3>3. guard' \in [Threads -> [kind : Modes \union {"none"}, m_owns : BOOLEAN]]
      BY <1>1 DEF Exchange, LockTypeOK
    <3> QED
      BY <3>1, <3>2, <3>3 DEF LockTypeOK
  <2>4. ASSUME NEW u \in Threads
        PROVE  (CallOK(u) /\ GuardOK(u))'
    <3>1. CASE u = t
      <4>1. call'[t] = NoCall /\ held'[t] = call[t].mode
        BY <1>1 DEF Exchange, LockTypeOK
      <4>2. CASE guard[t] = NoGuard
        BY <1>1, <3>1, <4>1, <4>2 DEF CallOK, GuardOK, Exchange, NoGuard
      <4>3. CASE guard[t] # NoGuard
        <5>1. guard[t].kind = call[t].mode
          BY <2>1, <4>3 DEF CallOK
        <5>2. guard'[t].m_owns /\ guard'[t].kind = guard[t].kind
          BY <1>1, <4>3 DEF Exchange, LockTypeOK
        <5> QED
          BY <3>1, <4>1, <5>1, <5>2, <2>2 DEF CallOK, GuardOK, Modes
      <4> QED
        BY <4>2, <4>3
    <3>2. CASE u # t
      BY <1>1, <3>2 DEF Exchange, CallOK, GuardOK, CanTake, LockTypeOK
    <3> QED
      BY <3>1, <3>2
  <2>5. Effect
    BY <2>2 DEF Effect
  <2> QED
    BY <2>3, <2>4, <2>5, EffectKeepsCount
<1>2. CASE Load(t) \/ ExchangeFails(t)
  <2>1. UNCHANGED <<m_state, guard, held>>
    BY <1>2 DEF Load, ExchangeFails, Fails
  <2>2. call[t] # NoCall
    BY <1>2 DEF Load, ExchangeFails, NoCall
  <2> DEFINE Loaded == call[t].mode \in Modes /\ CanTake(call[t].mode, m_state)
                       /\ call' = [call EXCEPT ![t] = [@ EXCEPT !.loaded = TRUE, !.state = m_state]]
             Again == call' = [call EXCEPT ![t] = CallOf(call[t].mode, TRUE)]
             Given == call' = [call EXCEPT ![t] = NoCall]
  <2>3. Loaded \/ Again \/ Given
    BY <1>2, <2>2, CallsAreTyped DEF Load, ExchangeFails, Fails
  <2>4. LockTypeOK'
    <3>1. call' \in [Threads -> Calls]
      <4>1. CASE Loaded
        <5>1. [call[t] EXCEPT !.loaded = TRUE, !.state = m_state] \in Calls
          BY <2>2, CallsAreTyped DEF LockTypeOK, Calls
        <5> QED
          BY <4>1, <5>1 DEF LockTypeOK
      <4>2. CASE Again
        <5>1. CallOf(call[t].mode, TRUE) \in Calls
          BY <2>2, CallsAreTyped DEF Calls, CallOf
        <5> QED
          BY <4>2, <5>1 DEF LockTypeOK
      <4>3. CASE Given
        BY <4>3 DEF LockTypeOK, Calls
      <4> QED
        BY <2>3, <4>1, <4>2, <4>3
    <3> QED
      BY <2>1, <3>1 DEF LockTypeOK
  <2>5. ASSUME NEW u \in Threads
        PROVE  (CallOK(u) /\ GuardOK(u))'
    <3>1. CASE u = t
      <4>1. /\ held[t] = "none"
            /\ guard[t] # NoGuard => guard[t].kind = call[t].mode /\ ~guard[t].m_owns
        BY <2>2 DEF CallOK
      <4>2. CASE Loaded
        <5>1. call'[t].mode = call[t].mode /\ call'[t].state = m_state
          BY <4>2, <2>2, CallsAreTyped DEF LockTypeOK
        <5> QED
          BY <3>1, <4>1, <4>2, <5>1, <2>1 DEF CallOK, GuardOK, CanTake
      <4>3. CASE Again
        BY <3>1, <4>1, <4>3, <2>1 DEF CallOK, GuardOK, CallOf, LockTypeOK
      <4>4. CASE Given
        BY <3>1, <4>1, <4>4, <2>1 DEF CallOK, GuardOK, LockTypeOK
      <4> QED
        BY <2>3, <4>2, <4>3, <4>4
    <3>2. CASE u # t
      <4>1. call'[u] = call[u]
        BY <2>3, <3>2 DEF LockTypeOK
      <4> QED
        BY <4>1, <2>1 DEF CallOK, GuardOK, CanTake
    <3> QED
      BY <3>1, <3>2
  <2>6. Effect
    BY <2>1 DEF Effect
  <2> QED
    BY <2>4, <2>5, <2>6, EffectKeepsCount
<1> QED
  BY <1>1, <1>2 DEF LockStep

LEMMA BeginHasEffect ==
  ASSUME ~SharedLocking, LockInv, NEW t \in Threads, Begin(t)
  PROVE  LockInv' /\ Effect
<1> USE DEF LockInv
<1>1. UNCHANGED <<m_state, held>> /\ call[t] = NoCall
  BY DEF Begin, LockDirectly, ConstructAdopting, ConstructDeferred, ConstructLocking, ConstructTrying,
         GuardLock, Enter, Bare, Guarded, Ready
<1> DEFINE Kept(u) == call'[u] = call[u] /\ guard'[u] = guard[u]
           Waits(mode, loops) ==
             /\ held[t] = "none" /\ call' = [call EXCEPT ![t] = CallOf(mode, loops)]
             /\ \/ guard[t] = NoGuard /\ UNCHANGED guard
                \/ guard[t] # NoGuard /\ guard[t].kind = mode /\ ~guard[t].m_owns /\ UNCHANGED guard
                \/ guard' = [guard EXCEPT ![t] = Guards(mode, FALSE)]
           Has(kind, owns) ==
             /\ held[t] = IF owns THEN kind ELSE "none"
             /\ guard' = [guard EXCEPT ![t] = Guards(kind, owns)] /\ UNCHANGED call
<1>2. \/ \E mode \in Modes, loops \in BOOLEAN : Waits(mode, loops)
      \/ \E kind \in Modes, owns \in BOOLEAN : Has(kind, owns)
  <2>1. CASE LockDirectly(t)
    BY <2>1 DEF LockDirectly, Enter, Bare
  <2>2. CASE ConstructAdopting(t)
    BY <2>2 DEF ConstructAdopting, LockTypeOK
  <2>3. CASE ConstructDeferred(t)
    BY <2>3 DEF ConstructDeferred
  <2>4. CASE ConstructLocking(t)
    BY <2>4 DEF ConstructLocking, Enter, Modes
  <2>5. CASE ConstructTrying(t)
    BY <2>5 DEF ConstructTrying, Enter
  <2>6. CASE GuardLock(t)
    <3>1. guard[t].kind \in Modes
      BY <2>6 DEF GuardLock, Guarded, GuardOK, LockTypeOK
    <3>2. held[t] = "none"
      BY <2>6 DEF GuardLock, Guarded, GuardOK
    <3> QED
      BY <2>6, <3>1, <3>2 DEF GuardLock, Guarded, Enter
  <2> QED
    BY <2>1, <2>2, <2>3, <2>4, <2>5, <2>6 DEF Begin
<1>3. CASE \E mode \in Modes, loops \in BOOLEAN : Waits(mode, loops)
  <2>1. PICK mode \in Modes, loops \in BOOLEAN : Waits(mode, loops)
    BY <1>3
  <2>2. LockTypeOK'
    <3>1. CallOf(mode, loops) \in Calls /\ Guards(mode, FALSE) \in [kind : Modes \union {"none"}, m_owns : BOOLEAN]
      BY DEF CallOf, Calls, Guards
    <3> QED
      BY <1>1, <2>1, <3>1 DEF LockTypeOK
  <2>3. ASSUME NEW u \in Threads
        PROVE  (CallOK(u) /\ GuardOK(u))'
    <3>1. CASE u = t
      <4>1. call'[t] = CallOf(mode, loops)
        BY <2>1 DEF LockTypeOK
      <4>2. guard'[t] = NoGuard \/ (guard'[t].kind = mode /\ ~guard'[t].m_owns)
        BY <2>1 DEF LockTypeOK, Guards
      <4> QED
        BY <1>1, <2>1, <3>1, <4>1, <4>2 DEF CallOK, GuardOK, CallOf, Modes
    <3>2. CASE u # t
      <4>1. Kept(u)
        BY <2>1, <3>2 DEF LockTypeOK
      <4> QED
        BY <1>1, <4>1 DEF CallOK, GuardOK, CanTake
    <3> QED
      BY <3>1, <3>2
  <2> QED
    BY <1>1, <2>2, <2>3, EffectKeepsCount DEF Effect
<1>4. CASE \E kind \in Modes, owns \in BOOLEAN : Has(kind, owns)
  <2>1. PICK kind \in Modes, owns \in BOOLEAN : Has(kind, owns)
    BY <1>4
  <2>2. LockTypeOK'
    <3>1. Guards(kind, owns) \in [kind : Modes \union {"none"}, m_owns : BOOLEAN]
      BY DEF Guards
    <3> QED
      BY <1>1, <2>1, <3>1 DEF LockTypeOK
  <2>3. ASSUME NEW u \in Threads
        PROVE  (CallOK(u) /\ GuardOK(u))'
    <3>1. CASE u = t
      <4>1. call'[t] = NoCall /\ guard'[t] = Guards(kind, owns)
        BY <1>1, <2>1 DEF LockTypeOK
      <4> QED
        BY <1>1, <2>1, <3>1, <4>1 DEF CallOK, GuardOK, Guards, Modes
    <3>2. CASE u # t
      <4>1. Kept(u)
        BY <2>1, <3>2 DEF LockTypeOK
      <4> QED
        BY <1>1, <4>1 DEF CallOK, GuardOK, CanTake
    <3> QED
      BY <3>1, <3>2
  <2> QED
    BY <1>1, <2>2, <2>3, EffectKeepsCount DEF Effect
<1> QED
  BY <1>2, <1>3, <1>4

LEMMA EndHasEffect ==
  ASSUME LockInv, NEW t \in Threads, End(t)
  PROVE  LockInv' /\ Effect
<1> USE DEF LockInv
<1>1. UNCHANGED call /\ call[t] = NoCall
  BY DEF End, UnlockDirectly, GuardUnlock, Destroy, Unlock, Bare, Guarded, Ready
<1>2. \/ \E mode \in Modes : Releases(t, mode)
      \/ UNCHANGED <<m_state, held>> /\ held[t] = "none"
  <2>1. CASE UnlockDirectly(t)
    BY <2>1 DEF UnlockDirectly, Unlock, Releases, LockTypeOK
  <2>2. CASE GuardUnlock(t) \/ (Destroy(t) /\ guard[t].m_owns)
    BY <2>2 DEF GuardUnlock, Destroy, Guarded, Unlock, Releases, GuardOK, LockTypeOK
  <2>3. CASE Destroy(t) /\ ~guard[t].m_owns
    BY <2>3 DEF Destroy, Guarded, GuardOK
  <2> QED
    BY <2>1, <2>2, <2>3 DEF End
<1>3. \/ guard[t] = NoGuard /\ UNCHANGED guard
      \/ guard' = [guard EXCEPT ![t] = NoGuard]
      \/ guard[t] # NoGuard /\ guard' = [guard EXCEPT ![t].m_owns = FALSE]
  BY DEF End, UnlockDirectly, GuardUnlock, Destroy, Bare, Guarded
<1>4. held'[t] = "none" /\ \A u \in Threads : u # t => held'[u] = held[u]
  BY <1>2 DEF Releases, LockTypeOK
<1>5. LockTypeOK'
  <2>1. m_state' \in Int /\ held' \in [Threads -> Modes \union {"none"}]
    BY <1>2 DEF Releases, Released, LockTypeOK
  <2>2. guard' \in [Threads -> [kind : Modes \union {"none"}, m_owns : BOOLEAN]]
    <3>1. [guard[t] EXCEPT !.m_owns = FALSE] \in [kind : Modes \union {"none"}, m_owns : BOOLEAN]
      BY DEF LockTypeOK
    <3>2. NoGuard \in [kind : Modes \union {"none"}, m_owns : BOOLEAN]
      BY DEF NoGuard
    <3> QED
      BY <1>3, <3>1, <3>2 DEF LockTypeOK
  <2> QED
    BY <1>1, <2>1, <2>2 DEF LockTypeOK
<1>6. ASSUME NEW u \in Threads
      PROVE  (CallOK(u) /\ GuardOK(u))'
  <2>1. CASE u = t
    <3>1. guard'[t] = NoGuard \/ (~guard'[t].m_owns /\ guard[t] # NoGuard /\ guard'[t].kind = guard[t].kind)
      BY <1>3 DEF LockTypeOK
    <3> QED
      BY <1>1, <1>4, <2>1, <3>1 DEF CallOK, GuardOK
  <2>2. CASE u # t
    <3>1. guard'[u] = guard[u]
      BY <1>3, <2>2 DEF LockTypeOK
    <3> QED
      BY <1>1, <1>4, <2>2, <3>1 DEF CallOK, GuardOK, CanTake
  <2> QED
    BY <2>1, <2>2
<1> QED
  BY <1>2, <1>5, <1>6, EffectKeepsCount DEF Effect
-----------------------------------------------------------------------------
(***************************************************************************)
(* The lock beside call_once, and the theorems about the lock.             *)
(***************************************************************************)
LEMMA LockInvInitially ==
  ASSUME Init
  PROVE  LockInv
<1>1. LockTypeOK /\ \A t \in Threads : CallOK(t) /\ GuardOK(t)
  BY DEF Init, LockInit, LockTypeOK, Calls, NoCall, NoGuard, CallOK, GuardOK
<1>2. Writers = {} /\ Readers = {}
  BY DEF Init, LockInit, Writers, Readers
<1>3. StateCountsHolders
  BY <1>2, FS_EmptySet DEF StateCountsHolders, Init, LockInit
<1> QED
  BY <1>1, <1>3 DEF LockInv

LEMMA NextHasEffect ==
  ASSUME ~SharedLocking, LockInv, [Next]_vars
  PROVE  LockInv' /\ Effect
<1>1. ASSUME NEW t \in Threads, InLock(t)
      PROVE  LockInv' /\ Effect
  BY <1>1, StepHasEffect, BeginHasEffect, EndHasEffect DEF InLock, LockThread
<1>2. CASE UNCHANGED lockVars
  <2>1. StateCountsHolders'
    BY <1>2, Keeping DEF lockVars, LockInv
  <2>2. (LockTypeOK /\ \A t \in Threads : CallOK(t) /\ GuardOK(t))'
    BY <1>2 DEF lockVars, LockInv, LockTypeOK, CallOK, GuardOK, CanTake
  <2> QED
    BY <1>2, <2>1, <2>2 DEF lockVars, LockInv, Effect
<1> QED
  BY <1>1, <1>2 DEF Next, InOnce, vars

(***************************************************************************)
(* LockInv holds in every reachable state.                                 *)
(***************************************************************************)
THEOREM LockInvariance == ASSUME ~SharedLocking PROVE Spec => []LockInv
BY LockInvInitially, NextHasEffect, PTL DEF Spec

(***************************************************************************)
(* Whatever the threads do between a load and an exchange, and through     *)
(* the guards, the word says who holds the lock.                           *)
(***************************************************************************)
THEOREM StateAlwaysCountsHolders == ASSUME ~SharedLocking PROVE Spec => []StateCountsHolders
<1>1. LockInv => StateCountsHolders
  BY DEF LockInv
<1> QED
  BY <1>1, LockInvariance, PTL

(***************************************************************************)
(* The lock with its guards is a readers-writer lock.                      *)
(***************************************************************************)
THEOREM LockImplementsReadersWriterLock ==
  ASSUME ~SharedLocking PROVE Spec => ImplementsReadersWriterLock
<1>1. Init => Abstract!RWInit
  BY DEF Init, LockInit, Abstract!RWInit, Writers, Readers
<1>2. LockInv /\ [Next]_vars => [Abstract!RWNext]_<<Writers, Readers>>
  BY NextHasEffect, EffectKeepsCount DEF LockInv
<1> QED
  BY <1>1, <1>2, LockInvariance, PTL DEF Spec, ImplementsReadersWriterLock, Abstract!RWSpec
-----------------------------------------------------------------------------
(***************************************************************************)
(* call_once.  The word says where the executing caller is: before it      *)
(* nothing is filled, after it all is, by the same caller.                 *)
(***************************************************************************)
OneExecutes ==
  /\ m_once = 0 => \A t \in Callers : place[t] = "outside"
  /\ m_once = 1 => \E t \in Callers :
       /\ \A u \in Callers : place[u] = "executing" <=> u = t
       /\ \A u \in Callers : place[u] # "reading"
       /\ \A v \in Statics : filled[v] \subseteq {t}
  /\ m_once = 2 => \E t \in Callers : filled = [v \in Statics |-> {t}]
  /\ m_once = 2 => \A u \in Callers : place[u] # "executing"
  /\ m_once = 0 => \A v \in Statics : filled[v] = {}

OnceInv == OnceTypeOK /\ OneExecutes

LEMMA OnceThreadKeepsOnceInv ==
  ASSUME OnceInv, NEW t \in Callers, OnceThread(t)
  PROVE  OnceInv'
<1> USE DEF OnceInv
<1>1. CASE CallOnce(t)
  <2>1. OnceTypeOK'
    BY <1>1 DEF CallOnce, OnceTypeOK
  <2> QED
    BY <1>1, <2>1 DEF CallOnce, OnceTypeOK, OneExecutes
<1>2. CASE Fill(t)
  <2>1. PICK v \in Statics : filled' = [filled EXCEPT ![v] = @ \union {t}]
    BY <1>2 DEF Fill
  <2>2. m_once = 1 /\ UNCHANGED <<m_once, place>>
    BY <1>2 DEF Fill, OnceTypeOK, OneExecutes
  <2>3. OnceTypeOK'
    BY <2>1, <2>2 DEF OnceTypeOK
  <2> QED
    BY <1>2, <2>1, <2>2, <2>3 DEF Fill, OnceTypeOK, OneExecutes
<1>3. CASE Store(t)
  <2>1. m_once = 1 /\ m_once' = 2 /\ UNCHANGED filled
    BY <1>3 DEF Store, OnceTypeOK, OneExecutes
  <2>2. \A v \in Statics : filled[v] = {t}
    BY <1>3, <2>1 DEF Store, OnceTypeOK, OneExecutes
  <2>3. filled' = [v \in Statics |-> {t}]
    BY <2>1, <2>2 DEF OnceTypeOK
  <2>4. OnceTypeOK'
    BY <1>3 DEF Store, OnceTypeOK
  <2>5. \A u \in Callers : place'[u] # "executing"
    BY <1>3, <2>1 DEF Store, OnceTypeOK, OneExecutes
  <2> QED
    BY <2>1, <2>3, <2>4, <2>5 DEF OneExecutes
<1>4. CASE Wait(t) \/ Leave(t)
  <2>1. m_once = 2 /\ UNCHANGED <<m_once, filled>>
    BY <1>4 DEF Wait, Leave, OnceTypeOK, OneExecutes
  <2>2. OnceTypeOK'
    BY <1>4 DEF Wait, Leave, OnceTypeOK
  <2> QED
    BY <1>4, <2>1, <2>2 DEF Wait, Leave, OnceTypeOK, OneExecutes
<1> QED
  BY <1>1, <1>2, <1>3, <1>4 DEF OnceThread, OnceStep

(***************************************************************************)
(* OnceInv holds in every reachable state.                                 *)
(***************************************************************************)
THEOREM OnceInvariance == Spec => []OnceInv
<1>1. Init => OnceInv
  BY DEF Init, OnceInit, OnceInv, OnceTypeOK, OneExecutes
<1>2. OnceInv /\ [Next]_vars => OnceInv'
  <2>1. ASSUME OnceInv, UNCHANGED onceVars
        PROVE  OnceInv'
    BY <2>1 DEF onceVars, OnceInv, OnceTypeOK, OneExecutes
  <2> QED
    BY <2>1, OnceThreadKeepsOnceInv DEF Next, InLock, InOnce, vars
<1> QED
  BY <1>1, <1>2, PTL DEF Spec

(***************************************************************************)
(* A caller of propose or get_max_physical_address that reads the static   *)
(* variables finds all of them filled by one execution.                    *)
(***************************************************************************)
THEOREM ReadersAlwaysFindAllFilled == Spec => []ReadersFindAllFilled
<1>1. OnceInv => ReadersFindAllFilled
  BY DEF OnceInv, OnceTypeOK, OneExecutes, ReadersFindAllFilled
<1> QED
  BY <1>1, OnceInvariance, PTL

(***************************************************************************)
(* The words, the calls and the guards stay in their ranges: the lock is   *)
(* never released once too often, nor taken by more readers than threads.  *)
(***************************************************************************)
THEOREM TypeCorrect == ASSUME ~SharedLocking PROVE Spec => []TypeOK
<1>1. StateCountsHolders /\ LockTypeOK => m_state \in -1 .. Cardinality(Threads)
  <2>1. Cardinality(Readers) \in Nat /\ Cardinality(Readers) <= Cardinality(Threads)
    BY FiniteReaders, ThreadsAssumption, FS_Subset DEF Readers
  <2>2. Cardinality(Threads) \in Nat
    BY ThreadsAssumption, FS_CardinalityType
  <2> QED
    BY <2>1, <2>2 DEF StateCountsHolders
<1>2. LockInv /\ OnceInv => TypeOK
  BY <1>1 DEF LockInv, OnceInv, TypeOK
<1> QED
  BY <1>2, LockInvariance, OnceInvariance, PTL
=============================================================================
