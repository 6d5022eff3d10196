SPECIFICATION Spec
CONSTANTS
    Raw = {"A", "a", "b", " "}
    Email = {"", "a", "b"}
    Blank = ""
    Normalize <- MCNormalize
    Password = {"p", "q"}
    Dummy = "dummy"
    Identity = {i1, i2}
    User = {u1, u2}
    Browser = {b1, b2}
    State = {s1, s2}
    Handler = {h1, h2}
    None = None
SYMMETRY Symmetry
CHECK_DEADLOCK FALSE
INVARIANTS
    IdentityOwnsUser
    SessionsAreProven
PROPERTIES
    StateIsSingleUse
