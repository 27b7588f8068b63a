SPECIFICATION FairSpec
CONSTANTS
  None = None
  Sources <- OneSource
  Enables = {0}
  NCHANNELS = 2
  MaxMeas <- Measurements
  MaxEvents = 2
INVARIANTS
  KeptUnlessFailed
  ReadingsForward
PROPERTY MeasurementReported
