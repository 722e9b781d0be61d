\* Two sessions at a time, of three users of whom one has a profile.
CONSTANTS
    Sessions = {s1, s2}
    Users = {alice, bob, carol}
    Nodes = {n1}
    Profiled = {carol}
    TimeLimit = 1
    Minutes = {1}
    Nobody = Nobody
    Nil = Nil
    MaxLogins = 3
    MaxRuns = 2
    MaxDay = 2
SPECIFICATION Spec
SYMMETRY Symmetry
INVARIANTS IInv Accounts WhoIsOn DoorInUse
PROPERTIES Tallies
CHECK_DEADLOCK FALSE
