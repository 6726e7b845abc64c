SPECIFICATION Spec
CONSTANTS
    None = None
    DayLength = 4
    MinuteLength = 2
    Schedule <- MCCoarseSchedule
    Employees = {e1}
    Strangers = {x1}
    Requests = {r1, r2, r3}
    Paths = {"manual", "mobile", "terminal"}
    MaxTime = 4
    EventTimes = {1, 3}
    Leave <- MCLeave
    Rate <- MCRate
    Amounts = {5}
    MaxWrites = 0
    Overlap = FALSE
SYMMETRY Symmetry
INVARIANTS NoEventLost OneOpenSession ServiceRowsAgree
PROPERTY KeepsDayRecord
CHECK_DEADLOCK FALSE
