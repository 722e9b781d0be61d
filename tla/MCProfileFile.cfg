\* profile.c: a slot is a deleted record, and every call ends.
CONSTANTS
    Procs = {p1, p2}
    NoOne = NoOne
    Ranges <- MCRecs
    Retries = 1
    Klass = "profile"
    NumRecs = 2
    Payloads = {Blank, ann}
    Blank = Blank
    Perm = {}
    FreshRevs = {1}
    MaxRev = 2
SPECIFICATION FairSpec
PROPERTIES ImplementsStore CallsEnd
