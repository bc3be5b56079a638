---------------------------- MODULE GroupCommitProofs ----------------------------
(* Proofs that GroupCommit elects one leader, loses no wake-up and returns a call   *)
(* only when its record is durable or was written after the fsync began.            *)
EXTENDS GroupCommit, TLAPS

\* Only the leader of the current generation can still owe a follower its fsync.
FollowersOwed ==
    \A s \in Sessions :
        pc[s] \in {"follower", "asleep"} /\ Record(s) \notin late =>
            \/ Record(s) \in durable
            \/ my_gen[s] = generation /\ \E l \in Sessions : pc[l] = "leader"
            \/ my_gen[s] = generation /\ Record(s) \in covered /\ \E l \in Sessions : pc[l] = "syncing"

\* The leader's own record is written before its fsync begins, and all that was is durable after it.
LeaderIsDurable ==
    /\ \A s \in Sessions : pc[s] = "syncing" => Record(s) \in covered
    /\ \A s \in Sessions : pc[s] = "synced" => covered \subseteq durable
    /\ \A s \in Sessions : pc[s] \in {"synced", "notify"} => Record(s) \in durable

RecordsWritten == \A s \in Sessions : pc[s] # "idle" => Record(s) \in written

Types ==
    /\ flushing \in BOOLEAN
    /\ generation \in Nat
    /\ pc \in [Sessions -> PcValues]
    /\ my_gen \in [Sessions -> Nat]
    /\ \A s \in Sessions : my_gen[s] <= generation
    /\ signalled \subseteq Asleep
    /\ commits \in [Sessions -> 0 .. MaxCommits]
    /\ written \subseteq Sessions \X (1 .. MaxCommits)
    /\ covered \subseteq written /\ durable \subseteq written /\ returned \subseteq written /\ late \subseteq written

Inv ==
    /\ Types
    /\ RecordsWritten
    /\ OneLeader
    /\ NoLostWakeup
    /\ LeaderIsDurable
    /\ FollowersOwed
    /\ DurableUnlessLate

USE MaxCommitsAssumption

\* The typing of the coordinator and of the records is kept by every step.
LEMMA TypesStep == ASSUME Types, RecordsWritten, [Next]_vars PROVE Types'
<1>1. CASE UNCHANGED vars
  BY <1>1 DEF Types, vars, coordinator, disk, Asleep
<1>2. ASSUME NEW s \in Sessions, CommitWriteRecord(s) PROVE Types'
  BY <1>2 DEF Types, CommitWriteRecord, coordinator, Asleep, PcValues
<1>3. ASSUME NEW s \in Sessions, Lead(s) PROVE Types'
  BY <1>3 DEF Types, Lead, disk, Asleep, PcValues
<1>4. ASSUME NEW s \in Sessions, Follow(s) PROVE Types'
  BY <1>4 DEF Types, Follow, RecordsWritten, coordinator, disk, Asleep, PcValues, Record
<1>5. ASSUME NEW s \in Sessions, FsyncStart(s) \/ FsyncEnd(s) PROVE Types'
  BY <1>5 DEF Types, FsyncStart, FsyncEnd, coordinator, Asleep, PcValues
<1>6. ASSUME NEW s \in Sessions, EndFlush(s) PROVE Types'
  <2>1. generation' \in Nat /\ my_gen' \in [Sessions -> Nat] /\ \A t \in Sessions : my_gen'[t] <= generation'
    BY <1>6 DEF Types, EndFlush
  <2>2. pc' \in [Sessions -> PcValues] /\ signalled' \subseteq Asleep'
    BY <1>6 DEF Types, EndFlush, Asleep, PcValues
  <2> QED
    BY <1>6, <2>1, <2>2 DEF Types, EndFlush, disk
<1>7. ASSUME NEW s \in Sessions, Notify(s) PROVE Types'
  BY <1>7 DEF Types, Notify, RecordsWritten, coordinator, disk, Asleep, PcValues, Record, Notified
<1>8. ASSUME NEW s \in Sessions, FollowerSleeps(s) PROVE Types'
  BY <1>8 DEF Types, FollowerSleeps, coordinator, disk, Asleep, PcValues
<1>9. ASSUME NEW s \in Sessions, FollowerWakes(s) PROVE Types'
  BY <1>9 DEF Types, FollowerWakes, coordinator, disk, Asleep, PcValues
<1>10. ASSUME NEW s \in Sessions, FollowerReturns(s) PROVE Types'
  BY <1>10 DEF Types, FollowerReturns, RecordsWritten, coordinator, disk, Asleep, PcValues, Record
<1> QED
  BY <1>1, <1>2, <1>3, <1>4, <1>5, <1>6, <1>7, <1>8, <1>9, <1>10 DEF Next, Leader, Follower

\* Every step keeps the invariant.
LEMMA InvStep == ASSUME Inv, [Next]_vars PROVE Inv'
<1> USE DEF Inv
<1> HIDE DEF Types
<1>0. Types'
  BY TypesStep
<1>1. CASE UNCHANGED vars
  BY <1>0, <1>1 DEF vars, coordinator, disk, RecordsWritten, OneLeader, NoLostWakeup, LeaderIsDurable, FollowersOwed,
       DurableUnlessLate, Record, Asleep, FlushOver
<1>2. ASSUME NEW s \in Sessions, CommitWriteRecord(s) PROVE Inv'
  <2> USE <1>2 DEF CommitWriteRecord, coordinator, Types
  <2>1. RecordsWritten'
    BY DEF RecordsWritten, Record
  <2>2. OneLeader'
    BY DEF OneLeader, Leading
  <2>3. NoLostWakeup'
    BY DEF NoLostWakeup, Asleep, FlushOver
  <2>4. LeaderIsDurable' /\ DurableUnlessLate'
    BY DEF LeaderIsDurable, DurableUnlessLate, Record
  <2>5. FollowersOwed'
    BY DEF FollowersOwed, Record
  <2> QED
    BY <1>0, <2>1, <2>2, <2>3, <2>4, <2>5
<1>3. ASSUME NEW s \in Sessions, Lead(s) PROVE Inv'
  <2> USE <1>3 DEF Lead, disk, Types
  <2>1. RecordsWritten'
    BY DEF RecordsWritten, Record
  <2>2. OneLeader'
    BY DEF OneLeader, Leading
  <2>3. NoLostWakeup'
    BY DEF NoLostWakeup, Asleep, FlushOver
  <2>4. LeaderIsDurable' /\ DurableUnlessLate'
    BY DEF LeaderIsDurable, DurableUnlessLate, Record
  <2>5. FollowersOwed'
    BY DEF FollowersOwed, Record
  <2> QED
    BY <1>0, <2>1, <2>2, <2>3, <2>4, <2>5
<1>4. ASSUME NEW s \in Sessions, Follow(s) PROVE Inv'
  <2> USE <1>4 DEF Follow, coordinator, disk, Types
  <2>1. RecordsWritten'
    BY DEF RecordsWritten, Record
  <2>2. OneLeader'
    BY DEF OneLeader, Leading
  <2>3. NoLostWakeup'
    BY DEF NoLostWakeup, Asleep, FlushOver
  <2>4. LeaderIsDurable' /\ DurableUnlessLate'
    BY DEF LeaderIsDurable, DurableUnlessLate, Record
  <2>5. FollowersOwed'
    <3>1. PICK l \in Sessions : pc[l] \in Leading /\ l # s
      BY DEF OneLeader, Leading
    <3>2. CASE pc[l] = "leader"
      BY <3>1, <3>2 DEF FollowersOwed, Record
    <3>3. CASE pc[l] \in {"syncing", "synced"}
      <4>1. ASSUME NEW t \in Sessions, t # s
            PROVE  (Record(t) \notin late' => Record(t) \notin late) /\ Record(t)' = Record(t) /\ pc'[t] = pc[t] /\ my_gen'[t] = my_gen[t]
        BY <4>1 DEF Record
      <4>2. Record(s)' \notin late' => Record(s) \in covered
        BY <3>1, <3>3 DEF Record
      <4> QED
        BY <3>1, <3>3, <4>1, <4>2 DEF FollowersOwed, Record, OneLeader, Leading, LeaderIsDurable
    <3> QED
      BY <3>1, <3>2, <3>3 DEF Leading
  <2> QED
    BY <1>0, <2>1, <2>2, <2>3, <2>4, <2>5
<1>5. ASSUME NEW s \in Sessions, FsyncStart(s) PROVE Inv'
  <2> USE <1>5 DEF FsyncStart, coordinator, Types
  <2>1. RecordsWritten'
    BY DEF RecordsWritten, Record
  <2>2. OneLeader'
    BY DEF OneLeader, Leading
  <2>3. NoLostWakeup'
    BY DEF NoLostWakeup, Asleep, FlushOver
  <2>4. LeaderIsDurable' /\ DurableUnlessLate'
    BY DEF LeaderIsDurable, DurableUnlessLate, RecordsWritten, Record, OneLeader, Leading
  <2>5. FollowersOwed'
    BY DEF FollowersOwed, RecordsWritten, Record
  <2> QED
    BY <1>0, <2>1, <2>2, <2>3, <2>4, <2>5
<1>6. ASSUME NEW s \in Sessions, FsyncEnd(s) PROVE Inv'
  <2> USE <1>6 DEF FsyncEnd, coordinator, Types
  <2>0. durable \cup covered \subseteq durable'
    OBVIOUS
  <2>1. RecordsWritten'
    BY DEF RecordsWritten, Record
  <2>2. OneLeader'
    BY DEF OneLeader, Leading
  <2>3. NoLostWakeup'
    BY DEF NoLostWakeup, Asleep, FlushOver
  <2>4. LeaderIsDurable' /\ DurableUnlessLate'
    BY <2>0 DEF LeaderIsDurable, DurableUnlessLate, Record
  <2>5. FollowersOwed'
    <3>1. \A l \in Sessions : pc[l] # "leader"
      BY DEF OneLeader, Leading
    <3> QED
      BY <2>0, <3>1 DEF FollowersOwed, Record
  <2> QED
    BY <1>0, <2>1, <2>2, <2>3, <2>4, <2>5
<1>7. ASSUME NEW s \in Sessions, EndFlush(s) PROVE Inv'
  <2> USE <1>7 DEF EndFlush, disk, Types
  <2>1. RecordsWritten'
    BY DEF RecordsWritten, Record
  <2>2. OneLeader'
    BY DEF OneLeader, Leading
  <2>3. NoLostWakeup'
    BY DEF NoLostWakeup, Asleep, FlushOver
  <2>4. LeaderIsDurable' /\ DurableUnlessLate'
    BY DEF LeaderIsDurable, DurableUnlessLate, Record
  <2>5. FollowersOwed'
    <3>1. \A l \in Sessions : pc[l] \notin {"leader", "syncing"}
      BY DEF OneLeader, Leading
    <3> QED
      BY <3>1 DEF FollowersOwed, Record
  <2> QED
    BY <1>0, <2>1, <2>2, <2>3, <2>4, <2>5
<1>8. ASSUME NEW s \in Sessions, Notify(s) PROVE Inv'
  <2> USE <1>8 DEF Notify, coordinator, disk, Types
  <2>1. RecordsWritten'
    BY DEF RecordsWritten, Record
  <2>2. OneLeader'
    BY DEF OneLeader, Leading
  <2>3. NoLostWakeup'
    BY DEF NoLostWakeup, Asleep, FlushOver, Notified
  <2>4. LeaderIsDurable' /\ DurableUnlessLate'
    BY DEF LeaderIsDurable, DurableUnlessLate, Record
  <2>5. FollowersOwed'
    BY DEF FollowersOwed, Record
  <2> QED
    BY <1>0, <2>1, <2>2, <2>3, <2>4, <2>5
<1>9. ASSUME NEW s \in Sessions, FollowerSleeps(s) PROVE Inv'
  <2> USE <1>9 DEF FollowerSleeps, coordinator, disk, Types
  <2>1. RecordsWritten'
    BY DEF RecordsWritten, Record
  <2>2. OneLeader'
    BY DEF OneLeader, Leading
  <2>3. NoLostWakeup'
    BY DEF NoLostWakeup, Asleep, FlushOver
  <2>4. LeaderIsDurable' /\ DurableUnlessLate'
    BY DEF LeaderIsDurable, DurableUnlessLate, Record
  <2>5. FollowersOwed'
    BY DEF FollowersOwed, Record
  <2> QED
    BY <1>0, <2>1, <2>2, <2>3, <2>4, <2>5
<1>10. ASSUME NEW s \in Sessions, FollowerWakes(s) PROVE Inv'
  <2> USE <1>10 DEF FollowerWakes, coordinator, disk, Types
  <2>1. RecordsWritten'
    BY DEF RecordsWritten, Record
  <2>2. OneLeader'
    BY DEF OneLeader, Leading
  <2>3. NoLostWakeup'
    BY DEF NoLostWakeup, Asleep, FlushOver
  <2>4. LeaderIsDurable' /\ DurableUnlessLate'
    BY DEF LeaderIsDurable, DurableUnlessLate, Record
  <2>5. FollowersOwed'
    BY DEF FollowersOwed, Record
  <2> QED
    BY <1>0, <2>1, <2>2, <2>3, <2>4, <2>5
<1>11. ASSUME NEW s \in Sessions, FollowerReturns(s) PROVE Inv'
  <2> USE <1>11 DEF FollowerReturns, coordinator, disk, Types
  <2>1. RecordsWritten'
    BY DEF RecordsWritten, Record
  <2>2. OneLeader'
    BY DEF OneLeader, Leading
  <2>3. NoLostWakeup'
    BY DEF NoLostWakeup, Asleep, FlushOver
  <2>4. LeaderIsDurable' /\ DurableUnlessLate'
    BY DEF LeaderIsDurable, DurableUnlessLate, FollowersOwed, FlushOver, Record
  <2>5. FollowersOwed'
    BY DEF FollowersOwed, Record
  <2> QED
    BY <1>0, <2>1, <2>2, <2>3, <2>4, <2>5
<1> QED
  BY <1>1, <1>2, <1>3, <1>4, <1>5, <1>6, <1>7, <1>8, <1>9, <1>10, <1>11 DEF Next, Leader, Follower

\* The invariant holds of every behaviour of sync_commit, for any number of sessions.
THEOREM GroupInvariant == Spec => []Inv
<1>1. Init => Inv
  <2> SUFFICES ASSUME Init PROVE Inv
    OBVIOUS
  <2>1. Types
    <3>1. commits \in [Sessions -> 0 .. MaxCommits] /\ my_gen \in [Sessions -> Nat]
      BY DEF Init
    <3>2. pc \in [Sessions -> PcValues] /\ \A s \in Sessions : my_gen[s] <= generation
      BY DEF Init, PcValues
    <3> QED
      BY <3>1, <3>2 DEF Init, Types
  <2>2. OneLeader /\ NoLostWakeup
    BY DEF Init, OneLeader, NoLostWakeup, Leading, Asleep
  <2>3. RecordsWritten /\ LeaderIsDurable /\ FollowersOwed /\ DurableUnlessLate
    BY DEF Init, RecordsWritten, LeaderIsDurable, FollowersOwed, DurableUnlessLate
  <2> QED
    BY <2>1, <2>2, <2>3 DEF Inv
<1>2. Inv /\ [Next]_vars => Inv'
  BY InvStep
<1> QED
  BY <1>1, <1>2, PTL DEF Spec

\* The coordinator's state is well typed (GroupCommitCoordinator's fields and the calls inside it).
THEOREM GroupTypes == Spec => []TypeOK
<1>1. Inv => TypeOK
  BY DEF Inv, Types, TypeOK
<1> QED
  BY <1>1, GroupInvariant, PTL

\* At most one session leads, and flushing_ says whether one does (the election under mutex_).
THEOREM LeaderAlone == Spec => []OneLeader
<1>1. Inv => OneLeader
  BY DEF Inv
<1> QED
  BY <1>1, GroupInvariant, PTL

\* No follower sleeps past the end of its flush without a notification under way (cvar_.notify_all after unlock).
THEOREM FollowersAreNotified == Spec => []NoLostWakeup
<1>1. Inv => NoLostWakeup
  BY DEF Inv
<1> QED
  BY <1>1, GroupInvariant, PTL

\* A call that returns has its COMMIT record on disk, unless it joined a flush whose fsync had
\* begun before the record was written (sync_commit).
THEOREM ReturnedIsDurable == Spec => []DurableUnlessLate
<1>1. Inv => DurableUnlessLate
  BY DEF Inv
<1> QED
  BY <1>1, GroupInvariant, PTL
================================================================================
