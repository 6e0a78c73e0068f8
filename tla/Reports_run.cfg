SPECIFICATION FairSpec
CONSTANTS
  Reports = {r1, r2, r3}
  NoReport = NoReport
  Limit = 1
  MaxRestarts = 1
\* Nothing is left to do once every report has been asked for and has ended.
CHECK_DEADLOCK FALSE
INVARIANT FilesMatch
PROPERTIES StaysEnded QueuedEnds
