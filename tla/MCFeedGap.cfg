SPECIFICATION FeedSpec
CONSTANTS
  Client = {c1}
  MaxFrames = 2
  MaxRestarts = 0
  Clock <- ClockReadings
  ClockAhead = TRUE
  PageLimit = 2
INVARIANT HeadMeansComplete
CHECK_DEADLOCK FALSE
