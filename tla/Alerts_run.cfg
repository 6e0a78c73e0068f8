SPECIFICATION Spec
CONSTANTS
  k1 = k1
  k2 = k2
  Keys = {k1, k2}
  Destinations <- MCDestinations
  Mailer = FALSE
  Day = 2
  Cooldown = 1
  Ceiling = 2
  MaxBatch = 2
  MaxRows = 4
  MaxTime = 3
INVARIANTS HistoryIsTrue CooldownKept CeilingKept
