SPECIFICATION Spec
CONSTANTS
    Node = {n1, n2}
    Key = {k1}
    Never = Never
    Unset = Unset
    Caller = {c1, c2}
    InactiveThreshold = 1
    MaxTime = 2
SYMMETRY Symmetry
PROPERTIES RegistrationIsIdempotent
