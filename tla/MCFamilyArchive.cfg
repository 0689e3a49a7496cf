SPECIFICATION Spec

CONSTANTS
    Recordings = {"r1", "r2", "r3"}
    Threads = {t1, t2}
    Extraction <- MCExtraction
    Normalized <- MCNormalized
    KnownPeople <- MCKnownPeople
    Notes = {"n1"}
    MaxReviews = 2

SYMMETRY Symmetry

INVARIANTS
    ArchiveInv

PROPERTIES
    RejectedStaysOut

\* Recordings are used up.
CHECK_DEADLOCK FALSE
