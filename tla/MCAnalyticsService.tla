------------------------ MODULE MCAnalyticsService ------------------------
(* Instances of AnalyticsService for TLC.                                   *)
EXTENDS AnalyticsService

CONSTANTS e1, e2, e3
=============================================================================
