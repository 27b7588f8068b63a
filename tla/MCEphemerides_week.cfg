SPECIFICATION NavSpec
CONSTANTS
    g1 = g1
    g2 = g2
    e1 = e1
    Sources = {"INAV"}
    Issues <- const_Issues
    Sats <- const_Sats
    Days <- const_Days
    Versions = {2, 3}
    OtherDates <- const_OtherDates
    MaxTable = 2
INVARIANTS
    GalileoDated
CHECK_DEADLOCK FALSE
