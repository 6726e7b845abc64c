SPECIFICATION Spec
CONSTANTS
    None = None
    Employees = {e1}
    Months = {m1}
    Requests = {r1, r2, r3}
    Kinds = {"create", "pay"}
    Apart = {}
    Nets = {1, 2}
    Amounts = {1, 2}
    Sent = {"draft"}
SYMMETRY Symmetry
INVARIANT TotalWithinNet
CHECK_DEADLOCK FALSE
