SPECIFICATION Spec
CONSTANTS
    Calls = {c1, c2}
    Lines = {l1}
    Fields = {"Style"}
    MaxFeedback = 2
    MaxSecond = 1
    Threads = {"daemon"}
    Modes = {"confirm"}
INVARIANT RememberedStays
CHECK_DEADLOCK FALSE
