---------------------------- MODULE MCLockManager ----------------------------
(***************************************************************************)
(* The lock manager, a behaviour of one of two kinds: every transaction    *)
(* claims row `contended`; or all but `bystander`, which only ends when    *)
(* the others have, claim any row, lock gaps and read ranges.              *)
(***************************************************************************)
EXTENDS LockManager

CONSTANTS contended, bystander
ASSUME PartsAssumption == contended \in Rows /\ bystander \in Txns

VARIABLE part

OneRow ==
    /\ \A t \in Txns, r \in Rows \ {contended} : claims[t][r] = "none"
    /\ \A tb \in Tables : gap_locks[tb] = {} /\ predicate_reads[tb] = {}
    /\ predicate_violations = {}
    /\ \A t \in Txns : call[t] = Idle \/ (call[t].op = "row" /\ call[t].row = contended)
StandsBy ==
    /\ call[bystander] = Idle
    /\ \A r \in Rows : claims[bystander][r] = "none"
    /\ \A tb \in Tables : bystander \notin gap_locks[tb] \cup predicate_reads[tb]
    /\ bystander \notin predicate_violations
    /\ bystander \in ended => ended = Txns

MCInit == Init /\ part \in {"row", "ranges"}
MCNext ==
    /\ Next
    /\ part = "row" => OneRow'
    /\ part = "ranges" => StandsBy'
    /\ UNCHANGED part
MCSpec == MCInit /\ [][MCNext]_<<vars, part>> /\ Fairness
==============================================================================
