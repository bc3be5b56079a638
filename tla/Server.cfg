SPECIFICATION Spec
CONSTANTS
    Conns = {c1, c2}
    Limits = {1, 2}
INVARIANTS
    SlotsAccounted
    KillHitsItsTarget
    EndedLeavesNothing
PROPERTY
    KilledEnds
