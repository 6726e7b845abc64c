SPECIFICATION Spec
CONSTANTS
    None = None
    Employees = {e1, e2}
    Months = {m1, m2}
    Requests = {r1, r2, r3}
    Kinds = {"create", "update", "pay", "delete"}
    Apart = {{"pay"}}
    Nets = {1, 2}
    Amounts = {1, 2}
    Sent = {"cancelled"}
SYMMETRY Symmetry
INVARIANTS TypeOK OnePerMonth PaidIsSumOfPayments OverpaidOnlyByEdit
PROPERTY KeepsLedger
CHECK_DEADLOCK FALSE
