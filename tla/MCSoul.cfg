SPECIFICATION Spec
CONSTANTS
    Calls = {c1, c2, c3}
    Lines = {l1, l2}
    Fields = {"Style"}
    MaxFeedback = 2
    MaxSecond = 1
    Threads = {"daemon", "relay"}
    Modes = {"confirm"}
SYMMETRY Symmetric
INVARIANTS
    TypeOK
    UnreviewedNeverLands
    LostIsInHistory
    ForgetsOnlyWhenStale
\* Every call is made once, and then nothing is left to do.
CHECK_DEADLOCK FALSE
