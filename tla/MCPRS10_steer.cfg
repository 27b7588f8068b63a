SPECIFICATION Spec
CONSTANTS
    MO = {2, 3, 4}
    SF <- const_SF
    Steers <- const_Steers
    MaxDay = 3
    MaxMishaps = 1
INVARIANTS
    OnePortUser
    SteersKept
PROPERTIES
    ToldIsStored
    RateFromUnit
CHECK_DEADLOCK FALSE
