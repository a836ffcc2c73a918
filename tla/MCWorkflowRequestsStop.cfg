CONSTANTS
    Workflows = {w1}
    Fires = {f1}
    MaxStarts = 1
    Requests = {r1}
    Asked = {"none", "cron", "other", "bad"}
SPECIFICATION Spec
PROPERTIES
    StopTerminates
