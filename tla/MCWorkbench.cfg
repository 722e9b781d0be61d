\* Five keys and five windows.
CONSTANTS
    MaxKeys = 5
    MaxWindows = 5
SPECIFICATION FairSpec
INVARIANTS IInv FocusOnTop FreedOnlyInHaste
PROPERTIES AnswerCloses
CHECK_DEADLOCK FALSE
