SPECIFICATION Spec
CONSTANTS
    MaxLevel = 2
    Timeouts = {1}
    Files <- const_Files
    KeyCodes = {"enter", "exit", "down", "left"}
    MaxInbox = 1
    MaxLate = 1
    OneLoss = TRUE
INVARIANTS
    BacklightAsSet
    Confirmed
    Saved
PROPERTY BackToStatus
CHECK_DEADLOCK FALSE
