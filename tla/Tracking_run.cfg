SPECIFICATION TrackFairSpec
CONSTANTS
  None = None
  RowIds = {1, 2}
  Important = {1}
  Texts = {"t", "u"}
  Locales = {"us", "uk"}
  Home = "us"
  Policy = "reallocate"
  Base = 3
  Runs = 2
  Window = 3
  StretchMax = 2
  MinSamples = 2
  VolatileBoost = 2
  MaxSamples = 10
  MaxNet = 4
  MaxLosses = 1
  MaxEdits = 1
  Verdicts <- Verdicts2
INVARIANTS BoostsCovered OneMarket
PROPERTY EveryPromptAsked
