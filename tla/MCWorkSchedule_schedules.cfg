SPECIFICATION Spec
CONSTANTS
    None = None
    Absent = Absent
    Seeds = {s1, s2}
    Companies = {c1, c2}
    Users = {u1}
    Requests = {r1, r2}
    Kinds = {"create", "attach", "detach", "setDefault", "assign", "unassign", "delete", "editUser", "createUser"}
    Apart = {{"create"}, {"attach"}, {"setDefault"}, {"create", "attach"}, {"create", "setDefault"}, {"attach", "setDefault"}, {"assign", "detach"}}
SYMMETRY Symmetry
INVARIANTS TypeOK Wired AtMostOneDefault ScheduleAttached
PROPERTIES KeepsADefault
CHECK_DEADLOCK FALSE
