---------------------------- MODULE MCForgeClients ----------------------------
(* Two calls, of every pair of helpers, one after the other or at once;    *)
(* all four retries.                                                       *)
EXTENDS ForgeClients
MCRetryAfters == {-1, 1000, 60000}
MCStatuses    == {401, 403, 404, 422, 503}
=============================================================================
