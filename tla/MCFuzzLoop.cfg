\* Up to three targets; the quantum goes 1, 2, 4, 5, 5, ...
SPECIFICATION Spec
CONSTANTS
    MaxTargets = 3
    FuzzTimes <- SomeFuzzTimes
    InitialQuantum = 1
    MaxQuantum = 5
    NoTurn = NoTurn
\* The session ends.
CHECK_DEADLOCK FALSE
INVARIANTS
    TypeOK
    NoSpuriousFailure
    SignalOnlyAfterDeadline
    EqualShares
PROPERTIES
    NoLostFailure
    KeepsSession
    NoStarvation
    SessionEnds
