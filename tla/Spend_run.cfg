SPECIFICATION Spec
CONSTANTS
  Samplers = {s1, s2}
  Harvester = harvester
  Estimates = {1, 2}
  MaxOverrun = 1
  SessionCeiling = 5
  DailyCeiling = 4
  Escapes = {"judge", "overview", "error_body", "cli", "overrun", "midnight"}
  MaxReports = 2
  MaxRecorded = 7
  MaxDay = 2
  MaxRestarts = 1
SYMMETRY Symmetry
INVARIANT ChargedWithinDailyCap
PROPERTY FitsBesideRows
