------------------------------ MODULE RowLockTable ------------------------------
(* What the lock manager promises the statements that claim rows: at every     *)
(* moment a transaction holds each row not at all, shared or exclusively, two  *)
(* transactions never hold one row in conflicting modes, a claim is only ever  *)
(* added for the transaction that asked, and claims go away all together, when *)
(* their owner releases them.                                                  *)

CONSTANTS Txns, Rows

VARIABLE held        \* held[t][r]: the mode in which t holds r

Modes == {"none", "S", "X"}

\* Whether a row held in mode a by one transaction may be claimed in mode b by another.
Compatible(a, b) == a = "none" \/ (a = "S" /\ b = "S")

\* Holding a row exclusively includes holding it shared.
Stronger(a, b) == IF a = "X" THEN a ELSE b

Init == held = [t \in Txns |-> [r \in Rows |-> "none"]]

Grant(t, r, m) ==
    /\ \A u \in Txns \ {t} : Compatible(held[u][r], m)
    /\ held' = [held EXCEPT ![t][r] = Stronger(held[t][r], m)]

ReleaseAll(t) == held' = [held EXCEPT ![t] = [r \in Rows |-> "none"]]

Next == \E t \in Txns : \/ \E r \in Rows, m \in {"S", "X"} : Grant(t, r, m)
                        \/ ReleaseAll(t)

Spec == Init /\ [][Next]_held
=============================================================================
