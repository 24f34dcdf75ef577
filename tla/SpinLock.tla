------------------------------ MODULE SpinLock ------------------------------
(***************************************************************************)
(* spin_lock with the guards around it (siren/synchronization.hpp): one    *)
(* atomic word, which a thread reads and then exchanges for what it has    *)
(* read; between the two others may have changed it, and the weak exchange *)
(* may fail although nobody has.                                           *)
(***************************************************************************)
EXTENDS Integers, FiniteSets

CONSTANTS
  Threads,         \* the threads that share the lock
  SharedLocking    \* whether a shared_lock_guard may be constructed from a locker alone

ASSUME ThreadsAssumption == IsFiniteSet(Threads)
ASSUME SharedLockingAssumption == SharedLocking \in BOOLEAN

VARIABLES
  m_state,   \* the word: 0, -1 or the number of readers
  call,      \* the call of lock, lock_shared or one of the try_ a thread is in
  guard,     \* the guard a thread has constructed: its kind, m_owns
  held       \* how each thread has acquired the lock

lockVars == <<m_state, call, guard, held>>

Modes == {"exclusive", "shared"}

NoCall == [mode |-> "none", loops |-> FALSE, loaded |-> FALSE, state |-> 0]

CallOf(mode, loops) == [mode |-> mode, loops |-> loops, loaded |-> FALSE, state |-> 0]

NoGuard == [kind |-> "none", m_owns |-> FALSE]

LockInit ==
  /\ m_state = 0
  /\ call = [t \in Threads |-> NoCall]
  /\ guard = [t \in Threads |-> NoGuard]
  /\ held = [t \in Threads |-> "none"]
-----------------------------------------------------------------------------
(***************************************************************************)
(* try_lock and try_lock_shared: the load and the test of what it gives,   *)
(* then the exchange.  lock and lock_shared repeat them until one has      *)
(* succeeded; a guard keeps the result in m_owns.                          *)
(***************************************************************************)
\* Mutant: a reader does not look for a writer.
CanTakeBesideWriter(mode, state) == mode = "shared" \/ state = 0

CanTake(mode, state) == IF mode = "exclusive" THEN state = 0 ELSE state >= 0

Taken(mode, state) == IF mode = "exclusive" THEN -1 ELSE state + 1

\* Mutant: a failed exchange is repeated with the word read at first.
FailsKeepsState(t) ==
  /\ call' = [call EXCEPT ![t] = IF call[t].loops THEN call[t] ELSE NoCall]
  /\ UNCHANGED <<m_state, guard, held>>

Fails(t) ==
  /\ call' = [call EXCEPT ![t] = IF call[t].loops THEN CallOf(call[t].mode, TRUE) ELSE NoCall]
  /\ UNCHANGED <<m_state, guard, held>>

Load(t) ==
  /\ call[t] # NoCall /\ ~call[t].loaded
  /\ \/ /\ CanTake(call[t].mode, m_state)
        /\ call' = [call EXCEPT ![t].loaded = TRUE, ![t].state = m_state]
        /\ UNCHANGED <<m_state, guard, held>>
     \/ /\ ~CanTake(call[t].mode, m_state)
        /\ Fails(t)

\* Mutant: the word is stored, whatever has become of it since the load.
ExchangeAnyway(t) ==
  /\ call[t].loaded
  /\ m_state' = Taken(call[t].mode, call[t].state)
  /\ held' = [held EXCEPT ![t] = call[t].mode]
  /\ guard' = IF guard[t] = NoGuard THEN guard ELSE [guard EXCEPT ![t].m_owns = TRUE]
  /\ call' = [call EXCEPT ![t] = NoCall]

Exchange(t) ==
  /\ call[t].loaded /\ m_state = call[t].state
  /\ m_state' = Taken(call[t].mode, m_state)
  /\ held' = [held EXCEPT ![t] = call[t].mode]
  /\ guard' = IF guard[t] = NoGuard THEN guard ELSE [guard EXCEPT ![t].m_owns = TRUE]
  /\ call' = [call EXCEPT ![t] = NoCall]

ExchangeFails(t) == call[t].loaded /\ Fails(t)

(***************************************************************************)
(* unlock stores 0, unlock_shared subtracts 1, whatever the word holds.    *)
(***************************************************************************)
Released(mode) == IF mode = "exclusive" THEN 0 ELSE m_state - 1

Unlock(t, mode) ==
  /\ m_state' = Released(mode)
  /\ held' = [held EXCEPT ![t] = "none"]
  /\ UNCHANGED call
-----------------------------------------------------------------------------
(***************************************************************************)
(* A thread without a guard: it may use the lock itself, or construct a    *)
(* guard.  adopt_lock_t wants a lock the thread has acquired, and the      *)
(* others one it has not.                                                  *)
(***************************************************************************)
Ready(t) == call[t] = NoCall

Bare(t) == Ready(t) /\ guard[t] = NoGuard

Enter(t, mode, loops) ==
  /\ call' = [call EXCEPT ![t] = CallOf(mode, loops)]
  /\ UNCHANGED <<m_state, held>>

LockDirectly(t) ==
  /\ Bare(t) /\ held[t] = "none"
  /\ \E mode \in Modes, loops \in BOOLEAN : Enter(t, mode, loops)
  /\ UNCHANGED guard

UnlockDirectly(t) ==
  /\ Bare(t) /\ held[t] # "none"
  /\ Unlock(t, held[t])
  /\ UNCHANGED guard

Guards(kind, owns) == [kind |-> kind, m_owns |-> owns]

ConstructAdopting(t) ==
  /\ Bare(t) /\ held[t] # "none"
  /\ guard' = [guard EXCEPT ![t] = Guards(held[t], TRUE)]
  /\ UNCHANGED <<m_state, call, held>>

ConstructDeferred(t) ==
  /\ Bare(t) /\ held[t] = "none"
  /\ \E kind \in Modes : guard' = [guard EXCEPT ![t] = Guards(kind, FALSE)]
  /\ UNCHANGED <<m_state, call, held>>

(***************************************************************************)
(* The constructor from a locker alone calls lock(), that of the shared    *)
(* guard too; the one with try_to_lock_t tries its own kind.               *)
(***************************************************************************)
ConstructLocking(t) ==
  /\ Bare(t) /\ held[t] = "none"
  /\ \E kind \in IF SharedLocking THEN Modes ELSE {"exclusive"} :
       guard' = [guard EXCEPT ![t] = Guards(kind, FALSE)]
  /\ Enter(t, "exclusive", TRUE)

ConstructTrying(t) ==
  /\ Bare(t) /\ held[t] = "none"
  /\ \E kind \in Modes :
       guard' = [guard EXCEPT ![t] = Guards(kind, FALSE)] /\ Enter(t, kind, FALSE)
-----------------------------------------------------------------------------
(***************************************************************************)
(* A thread with a guard: lock and try_lock do nothing if it owns, unlock  *)
(* nothing if it does not; the destructor releases what it owns.           *)
(***************************************************************************)
Guarded(t) == Ready(t) /\ guard[t] # NoGuard

GuardLock(t) ==
  /\ Guarded(t) /\ ~guard[t].m_owns
  /\ \E loops \in BOOLEAN : Enter(t, guard[t].kind, loops)
  /\ UNCHANGED guard

GuardUnlock(t) ==
  /\ Guarded(t) /\ guard[t].m_owns
  /\ Unlock(t, guard[t].kind)
  /\ guard' = [guard EXCEPT ![t].m_owns = FALSE]

Destroy(t) ==
  /\ Guarded(t)
  /\ IF guard[t].m_owns THEN Unlock(t, guard[t].kind) ELSE UNCHANGED <<m_state, call, held>>
  /\ guard' = [guard EXCEPT ![t] = NoGuard]
-----------------------------------------------------------------------------
LockStep(t) == Load(t) \/ Exchange(t) \/ ExchangeFails(t)

Begin(t) ==
  \/ LockDirectly(t) \/ ConstructAdopting(t) \/ ConstructDeferred(t)
  \/ ConstructLocking(t) \/ ConstructTrying(t) \/ GuardLock(t)

End(t) == UnlockDirectly(t) \/ GuardUnlock(t) \/ Destroy(t)

LockThread(t) == LockStep(t) \/ Begin(t) \/ End(t)

LockNext == \E t \in Threads : LockThread(t)

LockSpec == LockInit /\ [][LockNext]_lockVars
-----------------------------------------------------------------------------
Calls == [mode : Modes, loops : BOOLEAN, loaded : BOOLEAN, state : Int] \union {NoCall}

LockTypeOK ==
  /\ m_state \in Int
  /\ call \in [Threads -> Calls]
  /\ guard \in [Threads -> [kind : Modes \union {"none"}, m_owns : BOOLEAN]]
  /\ held \in [Threads -> Modes \union {"none"}]

Writers == {t \in Threads : held[t] = "exclusive"}
Readers == {t \in Threads : held[t] = "shared"}

(***************************************************************************)
(* The word says who holds the lock, at every step of every thread: -1 for *)
(* one writer alone, otherwise the number of readers (of try_lock,         *)
(* try_lock_shared, unlock and unlock_shared, through the guards).         *)
(***************************************************************************)
StateCountsHolders ==
  \/ Writers = {} /\ m_state = Cardinality(Readers)
  \/ (\E t \in Threads : Writers = {t}) /\ Readers = {} /\ m_state = -1

(***************************************************************************)
(* A guard owns what its own release gives back: m_owns is on exactly when *)
(* the thread holds the lock in the guard's kind, the kind of its lock     *)
(* (217-222), its try_lock and its destructor (211-215).  The constructor  *)
(* of shared_lock_guard from a locker alone (186-192) acquires the other   *)
(* kind.                                                                   *)
(***************************************************************************)
GuardsOwnTheirKind ==
  \A t \in Threads :
    guard[t] # NoGuard => held[t] = (IF guard[t].m_owns THEN guard[t].kind ELSE "none")
=============================================================================
