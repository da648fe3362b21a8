SPECIFICATION FeedSpec
CONSTANTS
  Client = {c1}
  MaxFrames = 3
  Clock <- ClockReadings
  MaxRestarts = 1
  ClockAhead = TRUE
  PageLimit = 1
INVARIANTS WatermarkCoversRows NeverReissued ExactlyOnce NothingDropped
           SnapshotFinalWord IdsRegressOnlyForLostWrites NoFalseAlarm
CONSTRAINT RestartMatters
CHECK_DEADLOCK FALSE
