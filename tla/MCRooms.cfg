SPECIFICATION Spec
CONSTANTS
    Procs = {p, q}
    Slots = 3
    Lobby = 1
    Areas = {2, 3}
    AddFlags <- Kept
    PutFlags <- Dropped
    Nil = Nil
    MaxRev = 4
    MaxCalls = 5
SYMMETRY Symmetry
CHECK_DEADLOCK FALSE
INVARIANTS IInv CopySound OneConference HandlerCurrent
PROPERTIES RemovesOwn
