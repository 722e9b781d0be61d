\* The programs of the repository in the event loop.
CONSTANTS
    stdin = stdin
    fast = fast
    slow = slow
    idle = idle
    once = once
    Pipe = Pipe
    Inputs = {stdin}
    Timers = {fast, slow}
    Workers = {idle, once}
    Requeued = {fast, slow, idle}
    Interval <- MCInterval
    Programs <- MCPrograms
    Late = {once}
    Hooks <- MCHooks
    Signals = {"SIGINT", "SIGTERM"}
    MaxSent = 2
SPECIFICATION FairSpec
INVARIANTS IInv HandlersAgree HooksRun
PROPERTIES SignalEndsOrSpins TimersRun
CHECK_DEADLOCK FALSE
