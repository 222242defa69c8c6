--------------------------- MODULE MCTelemetryStore ---------------------------
(* Two envelopes of one host.  Together they carry a metric with readings   *)
(* of equal and of different times, a container, a metric listed twice and *)
(* rows in opposite order.                                                 *)
EXTENDS TelemetryStore, TLC

CONSTANTS k1, k2, cpu, memory, container, clock

MCKey == {k1, k2}

MCObservedAt == (k1 :> 1) @@ (k2 :> 3)

Says(r, t, q) == [row |-> r, at |-> t, quality |-> q]

MCSample ==
    (k1 :> <<Says(cpu, 3, "stale"), Says(memory, 1, "fresh"), Says(container, 1, "fresh")>>) @@
    (k2 :> <<Says(memory, 2, "fresh"), Says(cpu, 3, "estimated"), Says(cpu, 2, "unavailable"),
             Says(container, 3, "fresh")>>)
=============================================================================
