----------------------------- MODULE MCFeedGap -------------------------------
(* The smallest feed in which a frame falls between replay and buffer.     *)
EXTENDS Feed

ClockReadings == {1}
=============================================================================
