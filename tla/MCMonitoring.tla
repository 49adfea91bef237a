---------------------------- MODULE MCMonitoring ----------------------------
(* Values of the constants of Monitoring for TLC.                          *)
EXTENDS Monitoring

Record(id, scope, latency, tokens, status, health, quality) ==
    [id |-> id, scope |-> scope, operation |-> "search", latency |-> latency, tokens |-> tokens,
     status |-> status, health |-> health, quality |-> quality]

\* Two slow records of a scope, and one of another scope that breaches everything.
Samples == {
    Record(1, "s", 4, NoCount, "ok", NoCount, 6), Record(2, "s", 4, 4, "ok", 5, 6),
    Record(3, "t", 4, 5, "error", 4, 5) }

Thresholds == {[latency |-> 3, tokens |-> 4, health |-> 5, quality |-> 6, cooldown |-> c] : c \in {0, 2}}
=============================================================================
