---------------------------- MODULE MCLiveSources ----------------------------
(***************************************************************************)
(* Thresholds as in the code where one poll interval is the unit (1 s bus  *)
(* period, three empty polls); the long cadences are shortened.            *)
(***************************************************************************)
EXTENDS LiveSources
=============================================================================
