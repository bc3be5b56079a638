------------------------- MODULE FairSharedMutexProofs -------------------------
(* FairSharedMutex is a reader/writer lock that loses no wake-up, for every set *)
(* of threads.  The predicates of lock() and lock_shared() read counters, so    *)
(* exclusion needs the counters to be exact: MutexInv ties them to the program  *)
(* counters, and the two lemmas about one thread's entering or leaving a set    *)
(* say how each step moves them.                                                *)
EXTENDS FairSharedMutex, FiniteSetTheorems, TLAPS

MutexInv == TypeOK /\ CountersExact /\ Exclusion /\ NoLostWakeup

\* The threads whose program counter is v.
At(f, v) == {t \in Threads : f[t] = v}

\* One thread reaches v: the threads at v are one more, and none reaches another place.
LEMMA EnterSet ==
    ASSUME NEW f \in [Threads -> PcValues], NEW t \in Threads, NEW v \in PcValues, f[t] # v
    PROVE  LET g == [f EXCEPT ![t] = v] IN
           /\ At(g, v) = At(f, v) \cup {t}
           /\ Cardinality(At(g, v)) = Cardinality(At(f, v)) + 1
           /\ Cardinality(At(f, v)) \in Nat
<1> DEFINE g == [f EXCEPT ![t] = v]
<1>1. At(g, v) = At(f, v) \cup {t} /\ t \notin At(f, v)
    BY DEF At
<1>2. IsFiniteSet(At(f, v))
    BY FS_Subset, ThreadsAssumption DEF At
<1>3. QED
    BY <1>1, <1>2, FS_AddElement, FS_CardinalityType

\* One thread leaves v: the threads at v are one fewer.
LEMMA LeaveSet ==
    ASSUME NEW f \in [Threads -> PcValues], NEW t \in Threads, NEW v \in PcValues, NEW w \in PcValues,
           f[t] = v, w # v
    PROVE  LET g == [f EXCEPT ![t] = w] IN
           /\ At(g, v) = At(f, v) \ {t}
           /\ Cardinality(At(g, v)) = Cardinality(At(f, v)) - 1
           /\ Cardinality(At(f, v)) \in Nat \ {0}
<1> DEFINE g == [f EXCEPT ![t] = w]
<1>1. At(g, v) = At(f, v) \ {t} /\ t \in At(f, v)
    BY DEF At
<1>2. IsFiniteSet(At(f, v))
    BY FS_Subset, ThreadsAssumption DEF At
<1>3. Cardinality(At(g, v)) = Cardinality(At(f, v)) - 1
    BY <1>1, <1>2, FS_RemoveElement
<1>4. Cardinality(At(f, v)) \in Nat /\ Cardinality(At(f, v)) # 0
    BY <1>1, <1>2, FS_CardinalityType, FS_EmptySet
<1>5. QED
    BY <1>1, <1>3, <1>4

\* A thread that moves between two other places leaves the threads at v alone.
LEMMA OtherSet ==
    ASSUME NEW f \in [Threads -> PcValues], NEW t \in Threads, NEW v \in PcValues, NEW w \in PcValues,
           f[t] # v, w # v
    PROVE  At([f EXCEPT ![t] = w], v) = At(f, v)
BY DEF At

\* A set of threads with cardinality zero is empty.
LEMMA CountZero ==
    ASSUME NEW f \in [Threads -> PcValues], NEW v \in PcValues
    PROVE  Cardinality(At(f, v)) = 0 <=> \A t \in Threads : f[t] # v
<1>1. IsFiniteSet(At(f, v))
    BY FS_Subset, ThreadsAssumption DEF At
<1>2. QED
    BY <1>1, FS_EmptySet DEF At

\* The named sets of the model are At(pc, ...).
LEMMA SetsAreAt ==
    /\ ActiveReaders = At(pc, "reading") /\ ActiveReaders' = At(pc', "reading")
    /\ WaitingWriters = At(pc, "lock") /\ WaitingWriters' = At(pc', "lock")
    /\ ActiveWriters = At(pc, "writing") /\ ActiveWriters' = At(pc', "writing")
BY DEF ActiveReaders, WaitingWriters, ActiveWriters, At

LEMMA InitInv == Init => MutexInv
<1> SUFFICES ASSUME Init PROVE MutexInv
    OBVIOUS
<1>1. TypeOK
  <2>1. exclusive_count \in 0 .. CountModulus - 1
      BY CountModulusAssumption DEF Init
  <2>2. pc \in [Threads -> PcValues]
      BY DEF Init, PcValues
  <2>3. QED
      BY <2>1, <2>2 DEF Init, TypeOK
<1>2. pc \in [Threads -> PcValues] /\ \A t \in Threads : pc[t] = "out"
    BY DEF Init, PcValues
<1>3. CountersExact
    BY <1>2, CountZero, SetsAreAt DEF Init, CountersExact, PcValues, At
<1>4. Exclusion /\ NoLostWakeup
    BY <1>2 DEF Exclusion, NoLostWakeup, Asleep
<1>5. QED
    BY <1>1, <1>3, <1>4 DEF MutexInv

LEMMA StepType == TypeOK /\ CountersExact /\ [Next]_vars => TypeOK'
<1> SUFFICES ASSUME TypeOK, CountersExact, [Next]_vars PROVE TypeOK'
    OBVIOUS
<1> USE DEF TypeOK, PcValues
<1>1. (exclusive_count + 1) % CountModulus \in 0 .. CountModulus - 1
    BY CountModulusAssumption
<1>2. ASSUME NEW t \in Threads, LockAtOnce(t) PROVE TypeOK'
    BY <1>1, <1>2 DEF LockAtOnce, BecomeWriter
<1>3. ASSUME NEW t \in Threads, LockSleep(t) PROVE TypeOK'
    BY <1>3 DEF LockSleep, WaitingWriters, ActiveWriters
<1>4. ASSUME NEW t \in Threads, LockWake(t) PROVE TypeOK'
  <2>1. writers_waiting # 0
      BY <1>4, SetsAreAt, CountZero DEF LockWake, CountersExact
  <2>2. QED
      BY <1>1, <1>4, <2>1 DEF LockWake, BecomeWriter
<1>5. ASSUME NEW t \in Threads, LockSharedAtOnce(t) \/ LockSharedWake(t) PROVE TypeOK'
    BY <1>5 DEF LockSharedAtOnce, LockSharedWake, BecomeReader
<1>6. ASSUME NEW t \in Threads, LockSharedSleep(t) PROVE TypeOK'
    BY <1>6 DEF LockSharedSleep, counters
<1>7. ASSUME NEW t \in Threads, SleepOn(t) \/ SpuriousWake(t) PROVE TypeOK'
    BY <1>7 DEF SleepOn, SpuriousWake, Asleep, counters
<1>8. ASSUME NEW t \in Threads, Unlock(t) PROVE TypeOK'
    BY <1>8 DEF Unlock, NotifyAll, Asleep
<1>9. ASSUME NEW t \in Threads, UnlockShared(t) PROVE TypeOK'
  <2>1. readers_active # 0
      BY <1>9, SetsAreAt, CountZero DEF UnlockShared, CountersExact
  <2>2. QED
      BY <1>9, <2>1 DEF UnlockShared, NotifyAll, Asleep
<1>10. CASE UNCHANGED vars
    BY <1>10 DEF vars, counters
<1>11. QED
    BY <1>2, <1>3, <1>4, <1>5, <1>6, <1>7, <1>8, <1>9, <1>10 DEF Next, Wake, Release, Threads

LEMMA StepCounters == MutexInv /\ [Next]_vars => CountersExact'
<1> SUFFICES ASSUME MutexInv, [Next]_vars PROVE CountersExact'
    OBVIOUS
<1> DEFINE Cnt(v) == Cardinality(At(pc, v))
           CntP(v) == Cardinality(At(pc', v))
<1> USE DEF PcValues
<1>0. /\ pc \in [Threads -> PcValues] /\ writer_active \in BOOLEAN
      /\ readers_active \in Nat /\ writers_waiting \in Nat
      /\ readers_active = Cnt("reading") /\ writers_waiting = Cnt("lock")
      /\ writer_active <=> At(pc, "writing") # {}
    BY SetsAreAt DEF MutexInv, TypeOK, CountersExact
<1> SUFFICES /\ readers_active' = CntP("reading") /\ writers_waiting' = CntP("lock")
             /\ writer_active' <=> At(pc', "writing") # {}
    BY SetsAreAt DEF CountersExact
<1>2. ASSUME NEW t \in Threads, LockAtOnce(t)
      PROVE  /\ readers_active' = CntP("reading") /\ writers_waiting' = CntP("lock")
             /\ writer_active' <=> At(pc', "writing") # {}
  <2>1. pc[t] = "out" /\ pc' = [pc EXCEPT ![t] = "writing"]
      BY <1>2 DEF LockAtOnce, BecomeWriter
  <2>2. At(pc', "reading") = At(pc, "reading") /\ At(pc', "lock") = At(pc, "lock")
      BY <1>0, <2>1, OtherSet
  <2>3. t \in At(pc', "writing")
      BY <1>0, <2>1 DEF At
  <2>4. QED
      BY <1>0, <1>2, <2>2, <2>3 DEF LockAtOnce, BecomeWriter
<1>3. ASSUME NEW t \in Threads, LockSleep(t)
      PROVE  /\ readers_active' = CntP("reading") /\ writers_waiting' = CntP("lock")
             /\ writer_active' <=> At(pc', "writing") # {}
  <2>1. pc[t] = "out" /\ pc' = [pc EXCEPT ![t] = "lock"]
      BY <1>3 DEF LockSleep
  <2>2. At(pc', "reading") = At(pc, "reading") /\ At(pc', "writing") = At(pc, "writing")
      BY <1>0, <2>1, OtherSet
  <2>3. CntP("lock") = Cnt("lock") + 1
      BY <1>0, <2>1, EnterSet
  <2>4. QED
      BY <1>0, <1>3, <2>2, <2>3 DEF LockSleep
<1>4. ASSUME NEW t \in Threads, LockWake(t)
      PROVE  /\ readers_active' = CntP("reading") /\ writers_waiting' = CntP("lock")
             /\ writer_active' <=> At(pc', "writing") # {}
  <2>1. pc[t] = "lock" /\ pc' = [pc EXCEPT ![t] = "writing"]
      BY <1>4 DEF LockWake, BecomeWriter
  <2>2. At(pc', "reading") = At(pc, "reading")
      BY <1>0, <2>1, OtherSet
  <2>3. CntP("lock") = Cnt("lock") - 1
      BY <1>0, <2>1, LeaveSet
  <2>4. t \in At(pc', "writing")
      BY <1>0, <2>1 DEF At
  <2>5. QED
      BY <1>0, <1>4, <2>2, <2>3, <2>4 DEF LockWake, BecomeWriter
<1>5. ASSUME NEW t \in Threads, LockSharedAtOnce(t) \/ LockSharedWake(t)
      PROVE  /\ readers_active' = CntP("reading") /\ writers_waiting' = CntP("lock")
             /\ writer_active' <=> At(pc', "writing") # {}
  <2>1. pc[t] \in {"out", "lock_shared"} /\ pc' = [pc EXCEPT ![t] = "reading"]
      BY <1>5 DEF LockSharedAtOnce, LockSharedWake, BecomeReader
  <2>2. At(pc', "lock") = At(pc, "lock") /\ At(pc', "writing") = At(pc, "writing")
      BY <1>0, <2>1, OtherSet
  <2>3. CntP("reading") = Cnt("reading") + 1
      BY <1>0, <2>1, EnterSet
  <2>4. QED
      BY <1>0, <1>5, <2>2, <2>3 DEF LockSharedAtOnce, LockSharedWake, BecomeReader
<1>6. ASSUME NEW t \in Threads, LockSharedSleep(t)
      PROVE  /\ readers_active' = CntP("reading") /\ writers_waiting' = CntP("lock")
             /\ writer_active' <=> At(pc', "writing") # {}
  <2>1. pc[t] = "out" /\ pc' = [pc EXCEPT ![t] = "lock_shared"]
      BY <1>6 DEF LockSharedSleep
  <2>2. /\ At(pc', "reading") = At(pc, "reading") /\ At(pc', "lock") = At(pc, "lock")
        /\ At(pc', "writing") = At(pc, "writing")
      BY <1>0, <2>1, OtherSet
  <2>3. QED
      BY <1>0, <1>6, <2>2 DEF LockSharedSleep, counters
<1>7. ASSUME NEW t \in Threads, SleepOn(t) \/ SpuriousWake(t)
      PROVE  /\ readers_active' = CntP("reading") /\ writers_waiting' = CntP("lock")
             /\ writer_active' <=> At(pc', "writing") # {}
    BY <1>0, <1>7 DEF SleepOn, SpuriousWake, counters
<1>8. ASSUME NEW t \in Threads, Unlock(t)
      PROVE  /\ readers_active' = CntP("reading") /\ writers_waiting' = CntP("lock")
             /\ writer_active' <=> At(pc', "writing") # {}
  <2>1. pc[t] = "writing" /\ pc' = [pc EXCEPT ![t] = "out"]
      BY <1>8 DEF Unlock
  <2>2. At(pc', "reading") = At(pc, "reading") /\ At(pc', "lock") = At(pc, "lock")
      BY <1>0, <2>1, OtherSet
  <2>3. At(pc', "writing") = {}
      BY <1>0, <2>1 DEF MutexInv, Exclusion, At
  <2>4. QED
      BY <1>0, <1>8, <2>2, <2>3 DEF Unlock
<1>9. ASSUME NEW t \in Threads, UnlockShared(t)
      PROVE  /\ readers_active' = CntP("reading") /\ writers_waiting' = CntP("lock")
             /\ writer_active' <=> At(pc', "writing") # {}
  <2>1. pc[t] = "reading" /\ pc' = [pc EXCEPT ![t] = "out"]
      BY <1>9 DEF UnlockShared
  <2>2. At(pc', "writing") = At(pc, "writing") /\ At(pc', "lock") = At(pc, "lock")
      BY <1>0, <2>1, OtherSet
  <2>3. CntP("reading") = Cnt("reading") - 1
      BY <1>0, <2>1, LeaveSet
  <2>4. QED
      BY <1>0, <1>9, <2>2, <2>3 DEF UnlockShared
<1>10. CASE UNCHANGED vars
    BY <1>0, <1>10 DEF vars, counters
<1>11. QED
    BY <1>2, <1>3, <1>4, <1>5, <1>6, <1>7, <1>8, <1>9, <1>10 DEF Next, Wake, Release, Threads

\* A reader or a writer is let in only when the counters, which are exact, say nobody is in the way.
LEMMA Admission ==
    ASSUME MutexInv
    PROVE  /\ MayWrite => \A u \in Threads : pc[u] \notin {"writing", "reading"}
           /\ MayRead => \A u \in Threads : pc[u] \notin {"writing", "lock"}
<1> USE DEF PcValues
<1>1. /\ pc \in [Threads -> PcValues]
      /\ readers_active = Cardinality(At(pc, "reading"))
      /\ writers_waiting = Cardinality(At(pc, "lock"))
      /\ writer_active <=> At(pc, "writing") # {}
    BY SetsAreAt DEF MutexInv, TypeOK, CountersExact
<1>2. ~writer_active => \A u \in Threads : pc[u] # "writing"
    BY <1>1 DEF At
<1>3. QED
    BY <1>1, <1>2, CountZero DEF MayWrite, MayRead

LEMMA StepExclusion == MutexInv /\ [Next]_vars => Exclusion'
<1> SUFFICES ASSUME MutexInv, [Next]_vars PROVE Exclusion'
    OBVIOUS
<1>0. pc \in [Threads -> PcValues] /\ Exclusion
    BY DEF MutexInv, TypeOK
<1> USE DEF PcValues
<1>1. ASSUME NEW t \in Threads, LockAtOnce(t) \/ LockWake(t) PROVE Exclusion'
    BY <1>0, <1>1, Admission DEF LockAtOnce, LockWake, BecomeWriter, Exclusion
<1>2. ASSUME NEW t \in Threads, LockSharedAtOnce(t) \/ LockSharedWake(t) PROVE Exclusion'
    BY <1>0, <1>2, Admission DEF LockSharedAtOnce, LockSharedWake, BecomeReader, Exclusion
<1>3. ASSUME NEW t \in Threads, LockSleep(t) \/ LockSharedSleep(t) \/ Release(t) PROVE Exclusion'
    BY <1>0, <1>3 DEF LockSleep, LockSharedSleep, Release, Unlock, UnlockShared, Exclusion
<1>4. ASSUME NEW t \in Threads, SleepOn(t) \/ SpuriousWake(t) PROVE Exclusion'
    BY <1>0, <1>4 DEF SleepOn, SpuriousWake, Exclusion
<1>5. CASE UNCHANGED vars
    BY <1>0, <1>5 DEF vars, Exclusion
<1>6. QED
    BY <1>1, <1>2, <1>3, <1>4, <1>5 DEF Next, Wake, Threads

\* The predicate of t's call, as a formula over the counters.
LEMMA StepWakeup == MutexInv /\ [Next]_vars => NoLostWakeup'
<1> SUFFICES ASSUME MutexInv, [Next]_vars PROVE NoLostWakeup'
    OBVIOUS
<1>0. /\ pc \in [Threads -> PcValues] /\ NoLostWakeup /\ signalled \subseteq Threads
      /\ readers_active \in Nat /\ writers_waiting \in Nat /\ writer_active \in BOOLEAN
    BY DEF MutexInv, TypeOK
<1> USE DEF PcValues, NoLostWakeup, Asleep, MayWrite, MayRead
<1>1. ASSUME NEW t \in Threads, LockAtOnce(t) \/ LockWake(t) PROVE NoLostWakeup'
    BY <1>0, <1>1 DEF LockAtOnce, LockWake, BecomeWriter
<1>2. ASSUME NEW t \in Threads, LockSleep(t) PROVE NoLostWakeup'
    BY <1>0, <1>2 DEF LockSleep
<1>3. ASSUME NEW t \in Threads, LockSharedAtOnce(t) \/ LockSharedWake(t) PROVE NoLostWakeup'
    BY <1>0, <1>3 DEF LockSharedAtOnce, LockSharedWake, BecomeReader
<1>4. ASSUME NEW t \in Threads, LockSharedSleep(t) PROVE NoLostWakeup'
    BY <1>0, <1>4 DEF LockSharedSleep, counters
<1>5. ASSUME NEW t \in Threads, SleepOn(t) \/ SpuriousWake(t) PROVE NoLostWakeup'
    BY <1>0, <1>5 DEF SleepOn, SpuriousWake, counters
<1>6. ASSUME NEW t \in Threads, Unlock(t) PROVE NoLostWakeup'
    BY <1>0, <1>6 DEF Unlock, NotifyAll
<1>7. ASSUME NEW t \in Threads, UnlockShared(t) PROVE NoLostWakeup'
    BY <1>0, <1>7 DEF UnlockShared, NotifyAll
<1>8. CASE UNCHANGED vars
    BY <1>0, <1>8 DEF vars, counters
<1>9. QED
    BY <1>1, <1>2, <1>3, <1>4, <1>5, <1>6, <1>7, <1>8 DEF Next, Wake, Release, Threads

--------------------------------------------------------------------------------
\* The counters, exclusion and wake-ups of the mutex hold together in every reachable state.
THEOREM MutexInvariant == Spec => []MutexInv
<1>1. MutexInv /\ [Next]_vars => MutexInv'
    BY StepType, StepCounters, StepExclusion, StepWakeup DEF MutexInv
<1>2. QED
    BY InitInv, <1>1, PTL DEF Spec

\* Every variable of the mutex stays in its range.
THEOREM MutexTypes == Spec => []TypeOK
BY MutexInvariant, PTL DEF MutexInv

\* readers_active_ and writers_waiting_ are exact at every moment, whatever the number of threads.
THEOREM CountersAreExact == Spec => []CountersExact
BY MutexInvariant, PTL DEF MutexInv

\* A writer is alone in the mutex.
THEOREM WriterAlone == Spec => []Exclusion
BY MutexInvariant, PTL DEF MutexInv

\* No thread sleeps unnotified on a predicate that has become true.
THEOREM MutexNoLostWakeup == Spec => []NoLostWakeup
BY MutexInvariant, PTL DEF MutexInv

\* exclusive_count() does not move while anybody is in the mutex.
THEOREM CountFrozen == Spec => CountFrozenWhileHeld
<1>1. MutexInv /\ [Next]_vars
        => [\A t \in Threads : pc[t] \in {"writing", "reading"} /\ pc'[t] = pc[t]
                => exclusive_count' = exclusive_count]_vars
  <2> SUFFICES ASSUME MutexInv, Next, NEW t \in Threads, pc[t] \in {"writing", "reading"}
               PROVE  exclusive_count' = exclusive_count
      OBVIOUS
  <2>1. ~MayWrite
      BY Admission
  <2>2. QED
      BY <2>1 DEF Next, Wake, Release, LockAtOnce, LockSleep, LockWake, LockSharedAtOnce,
         LockSharedSleep, LockSharedWake, SleepOn, SpuriousWake, Unlock, UnlockShared,
         BecomeReader, counters
<1>2. QED
    BY <1>1, MutexInvariant, PTL DEF Spec, CountFrozenWhileHeld

\* The mutex implements the abstract reader/writer lock.
THEOREM MutexRefinement == Spec => ImplementsRWLock
<1>1. Init => Abstract!Init
    BY DEF Init, Abstract!Init, ActiveReaders, ActiveWriters
<1>2. MutexInv /\ [Next]_vars => [Abstract!Next]_Abstract!vars
  <2> SUFFICES ASSUME MutexInv, [Next]_vars
               PROVE  Abstract!Next \/ UNCHANGED Abstract!vars
      OBVIOUS
  <2>0. pc \in [Threads -> PcValues] /\ Exclusion
      BY DEF MutexInv, TypeOK
  <2> USE DEF PcValues, ActiveReaders, ActiveWriters
  <2>1. ASSUME NEW t \in Threads, LockAtOnce(t) \/ LockWake(t) PROVE Abstract!Write(t)
      BY <2>0, <2>1, Admission DEF LockAtOnce, LockWake, BecomeWriter, Abstract!Write
  <2>2. ASSUME NEW t \in Threads, LockSharedAtOnce(t) \/ LockSharedWake(t) PROVE Abstract!Read(t)
      BY <2>0, <2>2, Admission DEF LockSharedAtOnce, LockSharedWake, BecomeReader, Abstract!Read
  <2>3. ASSUME NEW t \in Threads, Unlock(t) PROVE Abstract!EndWrite(t)
      BY <2>0, <2>3 DEF Unlock, Exclusion, Abstract!EndWrite
  <2>4. ASSUME NEW t \in Threads, UnlockShared(t) PROVE Abstract!EndRead(t)
      BY <2>0, <2>4 DEF UnlockShared, Abstract!EndRead
  <2>5. ASSUME NEW t \in Threads,
               LockSleep(t) \/ LockSharedSleep(t) \/ SleepOn(t) \/ SpuriousWake(t)
        PROVE  UNCHANGED Abstract!vars
      BY <2>0, <2>5 DEF LockSleep, LockSharedSleep, SleepOn, SpuriousWake, Abstract!vars
  <2>6. CASE UNCHANGED vars
      BY <2>6 DEF vars, Abstract!vars
  <2>7. QED
      BY <2>1, <2>2, <2>3, <2>4, <2>5, <2>6 DEF Next, Wake, Release, Threads, Abstract!Next
<1>3. QED
    BY <1>1, <1>2, MutexInvariant, PTL DEF Spec, ImplementsRWLock, Abstract!Spec
================================================================================
