\* Two workers need the same image.
CONSTANTS
    Pullers = {p1, p2}
    MaxImageFailures = 0
SPECIFICATION ImageSpec
INVARIANT PulledOnce
CHECK_DEADLOCK FALSE
