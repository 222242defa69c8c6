--------------------------- MODULE MCDebugCollector ---------------------------
(* Buffers of two, files trimmed to one small entry when above two, two    *)
(* overlapping reports.                                                    *)
EXTENDS DebugCollector
=============================================================================
