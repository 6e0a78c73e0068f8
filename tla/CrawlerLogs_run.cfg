SPECIFICATION Spec
CONSTANTS
  Projects = {p}
  Uploads = {u1, u2}
  Files <- Names
  DayLines <- LinesPerDay
  HitDays <- DaysWithHits
  Retention = 1
  FirstDay = 1
  MaxDay = 3
  MaxImports = 3
  Offset = 0
SYMMETRY Symmetry
INVARIANTS ContentOnce NothingLeftBehind RetentionKept HiddenOnlyByWinner
