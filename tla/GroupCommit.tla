------------------------------- MODULE GroupCommit -------------------------------
(* GroupCommitCoordinator::sync_commit (group_commit.cpp): sessions that commit at  *)
(* the same time share one fsync of the write-ahead log.  The first one to arrive   *)
(* leads: it syncs the file, adds one to the generation and notifies; the others    *)
(* sleep until the generation is no longer the one they found.  The fsync runs with *)
(* mutex_ released: it covers what was written when it began, and of what is        *)
(* written meanwhile any part.  It succeeds here (its result is not looked at by    *)
(* the code).                                                                       *)
EXTENDS Integers, FiniteSets

CONSTANTS
    Sessions,
    MaxCommits       \* bound on the COMMITs of a session

ASSUME MaxCommitsAssumption == MaxCommits \in Nat

VARIABLES
    flushing,
    generation,
    pc,          \* pc[s]: how far the call has come
    my_gen,      \* my_gen[s]: the generation it found
    signalled,   \* the sleeping sessions that were notified
    commits,     \* commits[s]: the COMMITs of the session, the current one included
    written,     \* the COMMIT records in the file
    covered,     \* those that were written when the last fsync began
    durable,     \* those an fsync has covered
    returned,    \* those whose sync_commit has returned (history)
    late         \* those that joined a flush whose fsync had begun before they were written (history)

coordinator == <<flushing, generation>>
disk == <<written, covered, durable>>
vars == <<coordinator, pc, my_gen, signalled, commits, disk, returned, late>>

Record(s) == <<s, commits[s]>>
Leading == {"leader", "syncing", "synced"}
Asleep == {s \in Sessions : pc[s] = "asleep"}

Init ==
    /\ flushing = FALSE
    /\ generation = 0
    /\ pc = [s \in Sessions |-> "idle"]
    /\ my_gen = [s \in Sessions |-> 0]
    /\ signalled = {}
    /\ commits = [s \in Sessions |-> 0]
    /\ written = {} /\ covered = {} /\ durable = {}
    /\ returned = {} /\ late = {}

\* exec_commit_phase1 writes the COMMIT record before sync_commit is called.
CommitWriteRecord(s) ==
    /\ pc[s] = "idle" /\ commits[s] < MaxCommits
    /\ commits' = [commits EXCEPT ![s] = @ + 1]
    /\ written' = written \cup {<<s, commits[s] + 1>>}
    /\ pc' = [pc EXCEPT ![s] = "written"]
    /\ UNCHANGED <<coordinator, my_gen, signalled, covered, durable, returned, late>>

Lead(s) ==
    /\ pc[s] = "written" /\ ~flushing
    /\ my_gen' = [my_gen EXCEPT ![s] = generation]
    /\ flushing' = TRUE
    /\ pc' = [pc EXCEPT ![s] = "leader"]
    /\ UNCHANGED <<generation, signalled, commits, disk, returned, late>>

Follow(s) ==
    /\ pc[s] = "written" /\ flushing
    /\ my_gen' = [my_gen EXCEPT ![s] = generation]
    /\ pc' = [pc EXCEPT ![s] = "follower"]
    /\ late' = IF Record(s) \notin covered /\ \E l \in Sessions : pc[l] \in {"syncing", "synced"}
               THEN late \cup {Record(s)} ELSE late
    /\ UNCHANGED <<coordinator, signalled, commits, disk, returned>>

\* BUG: the leader syncs its own record only.
BugFsyncStart(s) ==
    /\ pc[s] = "leader"
    /\ covered' = {Record(s)}
    /\ pc' = [pc EXCEPT ![s] = "syncing"]
    /\ UNCHANGED <<coordinator, my_gen, signalled, commits, written, durable, returned, late>>

\* mutex_ is free from here to EndFlush: others write their records and join.
FsyncStart(s) ==
    /\ pc[s] = "leader"
    /\ covered' = written
    /\ pc' = [pc EXCEPT ![s] = "syncing"]
    /\ UNCHANGED <<coordinator, my_gen, signalled, commits, written, durable, returned, late>>

\* What was written since the start may have been covered or not.
FsyncEnd(s) ==
    /\ pc[s] = "syncing"
    /\ \E more \in SUBSET (written \ covered) : durable' = durable \cup covered \cup more
    /\ pc' = [pc EXCEPT ![s] = "synced"]
    /\ UNCHANGED <<coordinator, my_gen, signalled, commits, written, covered, returned, late>>

EndFlush(s) ==
    /\ pc[s] = "synced"
    /\ flushing' = FALSE
    /\ generation' = generation + 1
    /\ pc' = [pc EXCEPT ![s] = "notify"]
    /\ UNCHANGED <<my_gen, signalled, commits, disk, returned, late>>

\* BUG: only one of the followers is told.
BugNotified == IF Asleep = {} THEN {} ELSE {CHOOSE s \in Asleep : TRUE}

Notified == Asleep

\* The mutex is free when cvar_ is notified.
Notify(s) ==
    /\ pc[s] = "notify"
    /\ signalled' = signalled \cup Notified
    /\ returned' = returned \cup {Record(s)}
    /\ pc' = [pc EXCEPT ![s] = "idle"]
    /\ UNCHANGED <<coordinator, my_gen, commits, disk, late>>

FlushOver(s) == generation # my_gen[s]

FollowerSleeps(s) ==
    /\ pc[s] = "follower" /\ ~FlushOver(s)
    /\ pc' = [pc EXCEPT ![s] = "asleep"]
    /\ UNCHANGED <<coordinator, my_gen, signalled, commits, disk, returned, late>>

\* cvar_.wait takes the mutex again, after a notification or for no reason, and looks.
FollowerWakes(s) ==
    /\ pc[s] = "asleep"
    /\ signalled' = signalled \ {s}
    /\ pc' = [pc EXCEPT ![s] = "follower"]
    /\ UNCHANGED <<coordinator, my_gen, commits, disk, returned, late>>

FollowerReturns(s) ==
    /\ pc[s] = "follower" /\ FlushOver(s)
    /\ returned' = returned \cup {Record(s)}
    /\ pc' = [pc EXCEPT ![s] = "idle"]
    /\ UNCHANGED <<coordinator, my_gen, signalled, commits, disk, late>>

Leader(s) == Lead(s) \/ FsyncStart(s) \/ FsyncEnd(s) \/ EndFlush(s) \/ Notify(s)
Follower(s) == Follow(s) \/ FollowerSleeps(s) \/ FollowerReturns(s)

Next == \E s \in Sessions : CommitWriteRecord(s) \/ Leader(s) \/ Follower(s) \/ FollowerWakes(s)

Spec == Init /\ [][Next]_vars

\* A thread that can run runs; a notified sleeper is woken, a spurious wake-up is not relied on.
FairSpec ==
    /\ Spec
    /\ \A s \in Sessions : WF_vars(Leader(s)) /\ WF_vars(Follower(s)) /\ WF_vars(s \in signalled /\ FollowerWakes(s))

--------------------------------------------------------------------------------
(* Properties *)

PcValues == {"idle", "written", "leader", "syncing", "synced", "notify", "follower", "asleep"}

\* The generation a call has found is never ahead of the coordinator's, only sleepers are signalled, and
\* a record is durable only after it was written.
TypeOK ==
    /\ flushing \in BOOLEAN
    /\ generation \in Nat
    /\ pc \in [Sessions -> PcValues]
    /\ \A s \in Sessions : my_gen[s] \in 0 .. generation
    /\ signalled \subseteq Asleep
    /\ commits \in [Sessions -> 0 .. MaxCommits]
    /\ written \subseteq Sessions \X (1 .. MaxCommits)
    /\ covered \subseteq written /\ durable \subseteq written /\ returned \subseteq written /\ late \subseteq written

\* flushing_ is up exactly while one session, and one only, is between its election and the end of its
\* flush: two fsyncs never run for the same generation.
OneLeader ==
    /\ flushing <=> \E s \in Sessions : pc[s] \in Leading
    /\ \A s, t \in Sessions : pc[s] \in Leading /\ pc[t] \in Leading => s = t

\* A follower whose flush is over and who still sleeps has been signalled, or the leader is about to do it:
\* the notification outside the mutex is not lost.
NoLostWakeup ==
    \A s \in Asleep \ signalled : FlushOver(s) => \E l \in Sessions : pc[l] = "notify"

\* Every call of sync_commit returns.
EveryCommitReturns == \A s \in Sessions : pc[s] = "written" ~> pc[s] = "idle"

\* When sync_commit returns the record is on disk, unless the session joined a flush whose fsync had begun before
\* the record was written: only then may a follower be let go by an fsync that did not cover it.
DurableUnlessLate == returned \ late \subseteq durable

(* What the comments and documents say of the code *)

\* What group_commit.hpp promises: "once the function returns, the COMMIT record is durable on disk".
DurableOnReturn == returned \subseteq durable
================================================================================
