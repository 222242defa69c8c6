------------------------------- MODULE MCConsole -------------------------------
(* One tab in full, everyone else as OtherOperator, one host, one alert,   *)
(* two changes and a restart.                                              *)
EXTENDS Console
=============================================================================
