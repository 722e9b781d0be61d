\* A message grows after somebody has changed the base.
CONSTANTS
    Procs = {p1, p2}
    NoOne = NoOne
    Ranges = {0}
    Retries = 1
    Crashes = FALSE
    Calls = {"add", "get", "put", "del"}
    Texts = {hello}
    NewSizes = {1, 2}
    Sizes = {1, 2}
    Base = 1
    MaxMsgs = 2
    MaxTexts = 2
    MaxMods = 3
    MaxTimes = 1
SYMMETRY Symmetry
SPECIFICATION Spec
INVARIANTS PutStored
