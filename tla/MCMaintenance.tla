---------------------------- MODULE MCMaintenance ----------------------------
(* Two tiers, the coarse one of two fine buckets, and two windows.          *)
EXTENDS Maintenance

MCResolutions     == <<1, 2>>
MCRollupRetention == <<3, 5>>
MCWindows         == <<1, 2>>
=============================================================================
