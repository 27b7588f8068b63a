SPECIFICATION Spec
CONSTANTS
    Day = 12
    Shifts <- const_Shifts
    MaxFaults = 3
    Leap = 2
    Interval = 2
    TrackStarts = {0, 6}
    NTRACKPOINTS = 6
    Sampling = 2
    QuadPoints = 3
    MinTrackLength = 4
    StartTime = 0
    StopTime = 6
    Early = 2
    Late = 6
INVARIANTS
    OneSecondPairs
    SteadyClockPairs
    RinexComplete
    SamplesComplete
    FitsSound
CHECK_DEADLOCK FALSE
