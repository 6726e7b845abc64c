SPECIFICATION Spec
CONSTANTS
    None = None
    DayLength = 4
    MinuteLength = 1
    Schedule <- MCSchedule
    Employees = {e1}
    Strangers = {x1}
    Requests = {r1, r2, r3}
    Paths = {"mobile", "terminal"}
    MaxTime = 4
    EventTimes = {1, 3}
    Leave <- MCLeave
    Rate <- MCRate
    Amounts = {5}
    MaxWrites = 0
    Overlap = TRUE
SYMMETRY Symmetry
PROPERTY CollapseRule
CHECK_DEADLOCK FALSE
