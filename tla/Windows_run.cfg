SPECIFICATION FairSpec
CONSTANTS
  Sizes = {2, 3}
  Faults = {"custom", "resize", "lost", "slow"}
  MaxClock = 6
\* Nothing starts after MaxClock.
CHECK_DEADLOCK FALSE
INVARIANTS AutoDisjoint NoCrawlSkipped
PROPERTY BacklogClears
