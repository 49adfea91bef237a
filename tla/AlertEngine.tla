---------------------------- MODULE AlertEngine ----------------------------
(***************************************************************************)
(* core/monitoring/alert_engine.py: a batch of records is compared with    *)
(* the thresholds, and an alert that was fired is silent for cooldown_s.   *)
(* Time is counted in ticks; an age stops at OldAge.                       *)
(***************************************************************************)
EXTENDS Integers, Sequences, FiniteSets, SequencesExt

CONSTANTS
    Records,    \* the MetricRecords of the run
    Configs,    \* the AlertConfigs update_config() may be given
    OldAge      \* BOUND: an age that is over every cooldown

ASSUME AlertAssumption == OldAge \in Nat /\ \A c \in Configs : c.cooldown \in 0..OldAge

VARIABLES
    config,     \* _config
    cooldowns,  \* ticks since the time _cooldowns holds for a key, OldAge when it holds none
    \* What happened, for the properties only:
    alerts,     \* alerts[i]: the alerts the i-th record of the last batch fired
    silence     \* ticks since the last alert of a key

alertVars == <<config, cooldowns, alerts, silence>>

AlertKeys == {"latency_breach", "token_budget_breach", "error_status", "low_health_score",
              "quality_degradation"}

\* full_key of an alert
Key(alert, record) == <<alert, record.scope, record.operation>>
Keys == {Key(alert, record) : alert \in AlertKeys, record \in Records}

NoCount == -1   \* token_count or health_score is None

\* The checks of _evaluate_one() that a record triggers.
Triggered(record, cfg) ==
    {alert \in AlertKeys :
        CASE alert = "latency_breach" -> record.latency > cfg.latency
          [] alert = "token_budget_breach" -> record.tokens # NoCount /\ record.tokens > cfg.tokens
          [] alert = "error_status" -> record.status = "error"
          [] alert = "low_health_score" -> record.health # NoCount /\ record.health < cfg.health
          [] alert = "quality_degradation" -> record.quality < cfg.quality}

AlertInit ==
    /\ config \in Configs
    /\ cooldowns = [k \in Keys |-> OldAge]
    /\ alerts = <<>>
    /\ silence = [k \in Keys |-> OldAge]

\* MUTANT: the cooldown is looked at per alert, whatever the scope and the operation.
InCooldown_PerAlert(key, ages) == \E k \in Keys : k[1] = key[1] /\ ages[k] < config.cooldown

\* MUTANT: the alert itself is silenced a tick short.
InCooldown_Short(key, ages) == ages[key] + 1 < config.cooldown

\* _in_cooldown()
InCooldown(key, ages) == ages[key] < config.cooldown

\* _evaluate_one(): the alerts that are not in their cooldown are fired, and their cooldown starts.
EvaluateOne(acc, record) ==
    LET fired == {k \in {Key(alert, record) : alert \in Triggered(record, config)} :
                     ~InCooldown(k, acc.ages)}
    IN [ages |-> [k \in Keys |-> IF k \in fired THEN 0 ELSE acc.ages[k]],
        fired |-> Append(acc.fired, fired)]

\* What evaluate_batch() leaves: the ages, and the alerts of each record.
Evaluated(batch) ==
    LET after[i \in 0..Len(batch)] ==
          IF i = 0 THEN [ages |-> cooldowns, fired |-> <<>>]
          ELSE EvaluateOne(after[i - 1], batch[i])
    IN  after[Len(batch)]

\* evaluate_batch(): each alert is logged, and posted by a task nobody awaits.
EvaluateBatch(batch) ==
    LET after == Evaluated(batch)
    IN /\ cooldowns' = after.ages
       /\ alerts' = after.fired
       /\ silence' = [k \in Keys |-> IF k \in UNION ToSet(after.fired) THEN 0 ELSE silence[k]]
       /\ UNCHANGED config

UpdateConfig ==
    /\ config' \in Configs \ {config}
    /\ UNCHANGED <<cooldowns, alerts, silence>>

Older(ages) == [k \in Keys |-> IF ages[k] < OldAge THEN ages[k] + 1 ELSE OldAge]

AlertTick ==
    /\ cooldowns' = Older(cooldowns) /\ silence' = Older(silence)
    /\ UNCHANGED <<config, alerts>>
=============================================================================
