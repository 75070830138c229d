\* Two resets of one connection.
CONSTANTS
    s1 = s1 s2 = s2
    Sources = {s1}
    Configs <- OneCamera
    MaxQueue = 3
    PastClash = TRUE
    Updates = FALSE
SPECIFICATION Spec
INVARIANT
    RemoveAssertion
CHECK_DEADLOCK FALSE
