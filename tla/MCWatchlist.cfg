SPECIFICATION Spec
CONSTANTS
    a = a
    b = b
    c = c
    x = x
    Code = {a, b, c, x}
    Symbol = {a, b, c}
    Defaults <- MCDefaults
    Request = {p1, p2}
    Hook = Hook
    Null = Null
    MaxKey = 1
SYMMETRY Symmetry
INVARIANTS
    AddNeverCollides
    RequestsNeverDeadlock
PROPERTY
    ActsAsOrderedList
