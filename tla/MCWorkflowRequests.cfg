CONSTANTS
    Workflows = {w1}
    Fires = {f1}
    MaxStarts = 1
    Requests = {r1, r2}
    Asked = {"cron", "bad"}
SPECIFICATION Spec
INVARIANTS
    OneEntry
PROPERTIES
    DisabledIsUnscheduled
