SPECIFICATION Spec

CONSTANTS
    Threads = {t1, t2}
    Subjects = {s1, s2}
    Users = {u1, u2}
    NumFamilies = 1
    Invitations = {i1}
    NoUser = NoUser
    NoInv = NoInv

SYMMETRY Symmetry

INVARIANT FamilyHasOwner

CHECK_DEADLOCK FALSE
