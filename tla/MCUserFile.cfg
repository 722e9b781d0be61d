\* user.c: one permanent account, two slots.
CONSTANTS
    Procs = {p1, p2}
    NoOne = NoOne
    Ranges <- MCRecs
    Retries = 1
    Klass = "user"
    NumRecs = 2
    Payloads = {Blank, ann}
    Blank = Blank
    Perm = {1}
    FreshRevs = {0, 1}
    MaxRev = 3
SYMMETRY Symmetry
SPECIFICATION Spec
INVARIANTS IInv LockInv WriteIsCurrent
PROPERTIES NoLostUpdate DeletedStays ImplementsStore
