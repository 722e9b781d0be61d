\* All calls on messages, longer and shorter, with processes that die.
CONSTANTS
    Procs = {p1, p2}
    NoOne = NoOne
    Ranges = {0}
    Retries = 0
    Crashes = TRUE
    Calls = {"add", "get", "put", "del"}
    Texts = {hello}
    NewSizes = {2}
    Sizes = {1, 3}
    Base = 1
    MaxMsgs = 2
    MaxTexts = 1
    MaxMods = 2
    MaxTimes = 1
SYMMETRY Symmetry
SPECIFICATION Spec
INVARIANTS IInv Exclusive IndexSound ActiveCount FitsInPlace
PROPERTIES ImplementsBase
