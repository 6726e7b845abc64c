SPECIFICATION Spec
CONSTANTS
    None = None
    Employees = {e1}
    Months = {m1}
    Requests = {r1, r2, r3}
    Kinds = {"create", "update", "pay", "delete"}
    Apart = {{"pay", "update"}}
    Nets = {1, 2}
    Amounts = {1, 2}
    Sent = {"cancelled", "draft"}
SYMMETRY Symmetry
PROPERTY CancelledIsNotPaid
CHECK_DEADLOCK FALSE
