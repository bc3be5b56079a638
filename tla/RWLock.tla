--------------------------------- MODULE RWLock ---------------------------------
(* What a reader/writer lock promises: any number of readers, or one writer.    *)
EXTENDS Naturals

CONSTANT Threads

VARIABLES readers, writers
vars == <<readers, writers>>

Init == readers = {} /\ writers = {}

Read(t) ==
    /\ writers = {}
    /\ t \notin readers
    /\ readers' = readers \cup {t}
    /\ UNCHANGED writers

Write(t) ==
    /\ readers = {} /\ writers = {}
    /\ writers' = {t}
    /\ UNCHANGED readers

EndRead(t) ==
    /\ t \in readers
    /\ readers' = readers \ {t}
    /\ UNCHANGED writers

EndWrite(t) ==
    /\ writers = {t}
    /\ writers' = {}
    /\ UNCHANGED readers

Next == \E t \in Threads : Read(t) \/ Write(t) \/ EndRead(t) \/ EndWrite(t)

Spec == Init /\ [][Next]_vars
================================================================================
