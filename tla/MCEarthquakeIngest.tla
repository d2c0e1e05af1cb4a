------------------------- MODULE MCEarthquakeIngest -------------------------
(* EarthquakeIngest on a small instance: an event that leaves the window of *)
(* recent at once and that of reconcile never.                              *)
EXTENDS EarthquakeIngest, TLC

CONSTANT RecentWindow

MCWindow == [job \in Jobs |-> IF job = "recent" THEN RecentWindow ELSE MaxClock]
===========================================================================
