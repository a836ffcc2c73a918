CONSTANTS
    Commands = {c1}
    Retries = {r1}
    NoCommand = NoCommand
SPECIFICATION QueueSpec
PROPERTIES
    PendingIsResent
