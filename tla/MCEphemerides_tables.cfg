SPECIFICATION NavSpec
CONSTANTS
    g1 = g1
    g2 = g2
    e1 = e1
    Sources = {"LNAV", "INAV", "whole"}
    Issues <- const_Issues
    Sats <- const_Sats
    Days <- const_Days
    Versions = {2, 3}
    OtherDates <- const_OtherDates
    MaxTable = 4
INVARIANTS
    OneIssue
    Learnt
    DatedRight
    NearestIsNext
    MixedInOrder
    ReadBack
CHECK_DEADLOCK FALSE
