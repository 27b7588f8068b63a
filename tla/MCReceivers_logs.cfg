SPECIFICATION ReadSpec
CONSTANTS
    sv1 = sv1
    sv2 = sv2
    glonass = glonass
    GPSSVs <- const_GPSSVs
    Views <- const_Views
    MaxRaw = 2
    Models <- const_Models
    SVs <- const_SVs
    Damage <- const_Damage
    JavadOrder <- const_JavadOrder
    LastSec = 4
    MaxDamage = 2
    NextSecond = TRUE
    MaxChannels = 2
    DualFrequency = FALSE
    ReadFrom = 1
    ReadTo = 4
INVARIANTS
    OneSecond
    NotLost
    UsedOnce
    SawtoothOfPulse
CHECK_DEADLOCK FALSE
