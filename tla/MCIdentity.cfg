SPECIFICATION Spec

CONSTANTS
    Threads = {t1, t2}
    Subjects = {s1, s2}
    Users = {u1, u2, u3}
    NumFamilies = 1
    Invitations = {i1}
    NoUser = NoUser
    NoInv = NoInv

\* The pools of ids run out.
CHECK_DEADLOCK FALSE

SYMMETRY Symmetry

INVARIANTS
    IdentityInv

PROPERTIES
    OwnersAreKept
    InvitationsAdmitOnce
