SPECIFICATION Spec

CONSTANTS
    Callers = {c1, c2}
    Holds = {h1, h2, h3}
    Keys = {k1}
    NoKey = NoKey
    NoCaller = NoCaller
    NoHold = NoHold
    Costs = {1, 2}
    Budget = 2
    Ttl = 1
    Day = 1
    MaxClock = 1
    MaxLedger = 1

SYMMETRY Symmetry

INVARIANTS
    BudgetInv

PROPERTIES
    OvershootOnlyByUnseen
    CommittedIsFinal
