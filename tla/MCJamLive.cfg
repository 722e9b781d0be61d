\* Every call on the messages ends, with a lock that is contended or left.
CONSTANTS
    Procs = {p1, p2}
    NoOne = NoOne
    Ranges = {0}
    Retries = 1
    Crashes = FALSE
    Calls = {"add", "get", "put", "del"}
    Texts = {hello}
    NewSizes = {1}
    Sizes = {1, 2}
    Base = 1
    MaxMsgs = 2
    MaxTexts = 1
    MaxMods = 2
    MaxTimes = 1
SPECIFICATION FairSpec
PROPERTIES CallsEnd
