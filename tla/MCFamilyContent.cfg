SPECIFICATION Spec

CONSTANTS
    Threads = {t1, t2}
    Users = {u1}
    NumFamilies = 2
    Recs = {r1, r2}
    Books = {b1, b2}
    NoUser = NoUser
    NoBook = NoBook
    Durations = {2, 3}
    MaxDuration = 2
    MaxActive = 1
    MaxFamilyDaily = 2
    MaxUserDaily = 2
    MaxStorage = 2
    MaxUserSeconds = 3
    MaxFamilySeconds = 3
    MaxActiveBooks = 1
    MaxBooksDaily = 1
    MaxSources = 2

SYMMETRY Symmetry


    

PROPERTIES
    SourcesExist

\* The pools of ids run out.
CHECK_DEADLOCK FALSE
