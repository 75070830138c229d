\* One device that connects again while its first session lives.
CONSTANTS
    d1 = d1  d2 = d2  x1 = x1  x2 = x2  s1 = s1  s2 = s2
    Device = {d1}
    Source = {x1}
    Session = {s1, s2}
    Owner <- OneCamera
    NDEBUG = FALSE
    NoDevice = NoDevice
    NoSource = NoSource
    NoSession = NoSession
SPECIFICATION Spec
INVARIANT DestructorAssertion
