SPECIFICATION Spec
CONSTANTS
    None = None
    Absent = Absent
    Seeds = {s1, s2}
    Companies = {c1, c2}
    Users = {u1}
    Requests = {r1, r2}
    Kinds = {"create", "setDefault"}
    Apart = {}
SYMMETRY Symmetry
INVARIANTS AtMostOneDefault
CHECK_DEADLOCK FALSE
