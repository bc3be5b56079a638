---------------------------- MODULE FairSharedMutex ----------------------------
(* The reader/writer mutex of the engine: class FairSharedMutex in              *)
(* core/include/engine/sync.hpp.                                                *)
(*                                                                              *)
(* One std::mutex guards three counters and one condition variable.  A call, up *)
(* to the point where cv_.wait gives the mutex up, is one step; what a thread   *)
(* does when it wakes (test the predicate again, take the lock or sleep on) is  *)
(* another.  exclusive_count_ is an unsigned integer that wraps around.         *)
EXTENDS Naturals, FiniteSets

CONSTANTS
    Writers,         \* the threads that call lock()
    Readers,         \* the threads that call lock_shared()
    CountModulus     \* exclusive_count_ wraps around at this value (2^64 in the code)

Threads == Writers \cup Readers

ASSUME ThreadsAssumption == IsFiniteSet(Threads)
ASSUME CountModulusAssumption == CountModulus \in Nat \ {0, 1}

VARIABLES
    readers_active,      \* readers_active_
    writers_waiting,     \* writers_waiting_
    writer_active,       \* writer_active_
    exclusive_count,     \* exclusive_count_
    pc,                  \* pc[t]: outside, asleep in lock() or lock_shared(), or holding
    signalled            \* the sleepers that have been woken and not yet looked

counters == <<readers_active, writers_waiting, writer_active, exclusive_count>>
vars == <<counters, pc, signalled>>

PcValues == {"out", "lock", "lock_shared", "writing", "reading"}

Asleep == {t \in Threads : pc[t] \in {"lock", "lock_shared"}}
ActiveReaders == {t \in Threads : pc[t] = "reading"}
ActiveWriters == {t \in Threads : pc[t] = "writing"}
WaitingWriters == {t \in Threads : pc[t] = "lock"}

--------------------------------------------------------------------------------
\* BUG: a writer does not look at the active readers.
BugMayWrite == ~writer_active

\* The predicate of lock().
MayWrite == ~writer_active /\ readers_active = 0

\* BUG: a reader does not give way to a waiting writer.
BugMayRead == ~writer_active

\* The predicate of lock_shared().
MayRead == ~writer_active /\ writers_waiting = 0

Init ==
    /\ readers_active = 0
    /\ writers_waiting = 0
    /\ writer_active = FALSE
    /\ exclusive_count = 0
    /\ pc = [t \in Threads |-> "out"]
    /\ signalled = {}

NotifyAll == signalled' = Asleep

BecomeWriter(t) ==
    /\ writer_active' = TRUE
    /\ exclusive_count' = (exclusive_count + 1) % CountModulus
    /\ pc' = [pc EXCEPT ![t] = "writing"]
    /\ UNCHANGED readers_active

BecomeReader(t) ==
    /\ readers_active' = readers_active + 1
    /\ pc' = [pc EXCEPT ![t] = "reading"]
    /\ UNCHANGED <<writers_waiting, writer_active, exclusive_count>>

--------------------------------------------------------------------------------
(* lock() *)

\* The predicate holds at once: writers_waiting_ goes up and down again under the mutex.
LockAtOnce(t) ==
    /\ pc[t] = "out"
    /\ MayWrite
    /\ BecomeWriter(t)
    /\ UNCHANGED <<writers_waiting, signalled>>

LockSleep(t) ==
    /\ pc[t] = "out"
    /\ ~MayWrite
    /\ writers_waiting' = writers_waiting + 1
    /\ pc' = [pc EXCEPT ![t] = "lock"]
    /\ UNCHANGED <<readers_active, writer_active, exclusive_count, signalled>>

LockWake(t) ==
    /\ pc[t] = "lock"
    /\ t \in signalled
    /\ MayWrite
    /\ writers_waiting' = writers_waiting - 1
    /\ BecomeWriter(t)
    /\ signalled' = signalled \ {t}

(* lock_shared() *)

LockSharedAtOnce(t) ==
    /\ pc[t] = "out"
    /\ MayRead
    /\ BecomeReader(t)
    /\ UNCHANGED signalled

LockSharedSleep(t) ==
    /\ pc[t] = "out"
    /\ ~MayRead
    /\ pc' = [pc EXCEPT ![t] = "lock_shared"]
    /\ UNCHANGED <<counters, signalled>>

LockSharedWake(t) ==
    /\ pc[t] = "lock_shared"
    /\ t \in signalled
    /\ MayRead
    /\ BecomeReader(t)
    /\ signalled' = signalled \ {t}

\* A woken thread whose predicate does not hold goes back to sleep.
SleepOn(t) ==
    /\ t \in signalled
    /\ IF pc[t] = "lock" THEN ~MayWrite ELSE ~MayRead
    /\ signalled' = signalled \ {t}
    /\ UNCHANGED <<counters, pc>>

\* cv_.wait may return without a notification.
SpuriousWake(t) ==
    /\ t \in Asleep \ signalled
    /\ signalled' = signalled \cup {t}
    /\ UNCHANGED <<counters, pc>>

(* unlock() and unlock_shared() *)

Unlock(t) ==
    /\ pc[t] = "writing"
    /\ writer_active' = FALSE
    /\ pc' = [pc EXCEPT ![t] = "out"]
    /\ NotifyAll
    /\ UNCHANGED <<readers_active, writers_waiting, exclusive_count>>

\* BUG: the last reader is taken to be the one that leaves one behind.
BugUnlockShared(t) ==
    /\ pc[t] = "reading"
    /\ readers_active' = readers_active - 1
    /\ pc' = [pc EXCEPT ![t] = "out"]
    /\ IF readers_active = 2 THEN NotifyAll ELSE UNCHANGED signalled
    /\ UNCHANGED <<writers_waiting, writer_active, exclusive_count>>

UnlockShared(t) ==
    /\ pc[t] = "reading"
    /\ readers_active' = readers_active - 1
    /\ pc' = [pc EXCEPT ![t] = "out"]
    /\ IF readers_active = 1 THEN NotifyAll ELSE UNCHANGED signalled
    /\ UNCHANGED <<writers_waiting, writer_active, exclusive_count>>

--------------------------------------------------------------------------------
Wake(t) == LockWake(t) \/ LockSharedWake(t) \/ SleepOn(t)

Release(t) == Unlock(t) \/ UnlockShared(t)

Next ==
    \/ \E t \in Writers : LockAtOnce(t) \/ LockSleep(t)
    \/ \E t \in Readers : LockSharedAtOnce(t) \/ LockSharedSleep(t)
    \/ \E t \in Threads : Wake(t) \/ SpuriousWake(t) \/ Release(t)

Spec == Init /\ [][Next]_vars

\* A woken thread runs, and a statement that holds the mutex ends.
FairSpec == Spec /\ \A t \in Threads : WF_vars(Wake(t)) /\ WF_vars(Release(t))

--------------------------------------------------------------------------------
(* Properties *)

\* Every variable stays in its range.
TypeOK ==
    /\ readers_active \in Nat
    /\ writers_waiting \in Nat
    /\ writer_active \in BOOLEAN
    /\ exclusive_count \in 0 .. CountModulus - 1
    /\ pc \in [Threads -> PcValues]
    /\ signalled \subseteq Threads

\* The counters of the mutex say who is in it and who waits for it: readers_active_ and
\* writers_waiting_ count the threads that lock_shared() let in and that sleep in lock().
CountersExact ==
    /\ readers_active = Cardinality(ActiveReaders)
    /\ writers_waiting = Cardinality(WaitingWriters)
    /\ writer_active <=> ActiveWriters # {}

\* lock() and lock_shared() keep a writer alone in the mutex.
Exclusion ==
    \A t, u \in Threads : pc[t] = "writing" /\ u # t => pc[u] \notin {"writing", "reading"}

\* A thread asleep in lock() or lock_shared() whose predicate has become true has been notified:
\* unlock_shared() may notify only when the last reader leaves, and lock() notifies nobody.
NoLostWakeup ==
    \A t \in Asleep : (IF pc[t] = "lock" THEN MayWrite ELSE MayRead) => t \in signalled

\* Whoever is in the mutex, as a reader or a writer, sees an exclusive_count() that nobody moves:
\* what the probe caches that are stamped with the count rely on.
CountFrozenWhileHeld ==
    [][\A t \in Threads : pc[t] \in {"writing", "reading"} /\ pc'[t] = pc[t]
            => exclusive_count' = exclusive_count]_vars

\* The mutex is a reader/writer lock.
Abstract == INSTANCE RWLock WITH readers <- ActiveReaders, writers <- ActiveWriters

ImplementsRWLock == Abstract!Spec

\* Writers are not starved by a stream of readers (the hang that lock_shared() gives way for): while a
\* writer sleeps in lock(), sooner or later a writer, it or another, has the mutex.
ReadersDoNotStarveWriters == WaitingWriters # {} ~> ActiveWriters # {}
================================================================================
