------------------------------- MODULE MCFeed -------------------------------
(* Feed on one client, of either feed, that reconnects at will.  The clock *)
(* stands still or jumps, so that seqs come from it and from lastSeq + 1.  *)
EXTENDS Feed

ClockReadings == {1, 3}

(* A restart before the first frame leads to the initial state again.      *)
RestartMatters == restarts > 0 => inherited > 0
=============================================================================
