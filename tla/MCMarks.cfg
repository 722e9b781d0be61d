\* The last-read records of a user in two sessions, with processes that die.
CONSTANTS
    Procs = {p1, p2}
    NoOne = NoOne
    Ranges = {0}
    Retries = 1
    Crashes = TRUE
    MaxMods = 3
    Calls = {"add", "get", "put", "del"}
    Users = {ann}
    NoUser = NoUser
    MaxNum = 2
    MaxMarks = 2
SYMMETRY Symmetry
SPECIFICATION Spec
INVARIANTS IInv OneRecord
PROPERTIES BackOnlyByLast
