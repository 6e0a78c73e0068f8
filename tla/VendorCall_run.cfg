SPECIFICATION FairVendorSpec
CONSTANTS
  Callers = {c1, c2}
  Threshold = 2
  Cooldown = 2
  MaxAttempts = 2
  Capacity = 4
  Unit = 2
  Rate = 1
  Timeout = 2
INVARIANTS OneTrialPerPeriod RateKept
PROPERTIES CallEnds RecoversThrottled OutageTrips
