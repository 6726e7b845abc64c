SPECIFICATION Spec
CONSTANTS
    None = None
    DayLength = 4
    MinuteLength = 1
    Schedule <- MCSchedule
    Employees = {e1}
    Strangers = {}
    Requests = {r1, r2, r3}
    Paths = {"manual", "mobile", "terminal"}
    MaxTime = 4
    EventTimes = {3}
    Leave <- MCLeave
    Rate <- MCRate
    Amounts = {5}
    MaxWrites = 1
    Overlap = TRUE
SYMMETRY Symmetry
INVARIANTS TypeOK CallsSound AdjustmentsFollowRow IngestedOnce TimesComeFromEvents MobileRowsAgree
CHECK_DEADLOCK FALSE
