-------------------------- MODULE TaskConditioning --------------------------
(***************************************************************************)
(* core/retrieval/task_conditioning.py: retrieved items are ranked again   *)
(* for the task and the role of the agent that asked.                      *)
(*                                                                         *)
(* Scores are in hundredths.  An item is a record with at least the fields *)
(* score, memory, category, level, tier and marks, the marks being what    *)
(* its metadata says of tasks and roles.                                   *)
(***************************************************************************)
EXTENDS Integers, Sequences, FiniteSetsExt, SequencesExt, SequenceFilters

\* The best score first; items with the same score keep their order.
Ranked(items) ==
    StableSort(items, {pair \in ToSet(items) \X ToSet(items) : pair[1].score >= pair[2].score})

\* <<task or role, field, value, points>>
TaskRules == <<
    <<"qa", "memory", "semantic", 12>>, <<"qa", "memory", "episodic", 5>>,
    <<"qa", "category", "profile", 8>>, <<"qa", "category", "preferences", 8>>,
    <<"qa", "tier", "warm", 3>>, <<"qa", "tier", "cold", 3>>, <<"qa", "memory", "variable", -3>>,
    <<"task", "memory", "variable", 12>>, <<"task", "memory", "procedural", 12>>,
    <<"task", "memory", "episodic", 3>>, <<"task", "category", "patterns", 10>>,
    <<"task", "category", "cases", 8>>, <<"task", "tier", "hot", 8>>, <<"task", "level", "detail", 4>>,
    <<"long_session", "memory", "episodic", 12>>, <<"long_session", "memory", "semantic", 4>>,
    <<"long_session", "category", "events", 10>>, <<"long_session", "level", "overview", 6>>,
    <<"long_session", "level", "abstract", 4>>,
    <<"realtime", "memory", "variable", 12>>, <<"realtime", "memory", "procedural", 4>>,
    <<"realtime", "tier", "hot", 15>>, <<"realtime", "level", "abstract", 5>>,
    <<"realtime", "level", "detail", -8>>, <<"realtime", "tier", "cold", -5>>,
    <<"compaction", "level", "abstract", 12>>, <<"compaction", "level", "overview", 10>>,
    <<"compaction", "memory", "episodic", 4>>, <<"compaction", "memory", "semantic", 4>>,
    <<"compaction", "level", "detail", -6>> >>

RoleRules == <<
    <<"planner", "level", "abstract", 8>>, <<"planner", "level", "overview", 8>>,
    <<"planner", "memory", "semantic", 5>>, <<"planner", "memory", "procedural", 5>>,
    <<"executor", "tier", "hot", 8>>, <<"executor", "memory", "variable", 8>>,
    <<"executor", "memory", "procedural", 8>>,
    <<"reviewer", "category", "cases", 8>>, <<"reviewer", "category", "patterns", 8>>,
    <<"reviewer", "memory", "episodic", 5>>, <<"reviewer", "category", "profile", -5>>,
    <<"reviewer", "category", "preferences", -5>> >>

\* What the metadata of the item adds when it names the task or the role.
MarkRules(task, role) == << <<"task_type", task, 10>>, <<"agent_role", role, 8>>,
                            <<"required_for_task_types", task, 10>> >>

\* The points of the rules for a task or a role that apply to the item.
Points(rules, name, item) ==
    Total([n \in DOMAIN rules |->
              IF rules[n][1] = name /\ item[rules[n][2]] = rules[n][3] THEN rules[n][4] ELSE 0])

Bonus(item, task, role) ==
    LET marks == MarkRules(task, role)
    IN  Points(TaskRules, task, item) + Points(RoleRules, role, item)
          + Total([n \in DOMAIN marks |->
                      IF marks[n][2] # "" /\ <<marks[n][1], marks[n][2]>> \in item.marks THEN marks[n][3] ELSE 0])

ConditionedScore(item, task, role) ==
    Max({0, Min({100, item.score + Bonus(item, task, role)})})

\* Mutant: the scores are adjusted and the items stay where they were.
Conditioned_NotResorted(items, task, role) ==
    [n \in DOMAIN items |-> [items[n] EXCEPT !.score = ConditionedScore(items[n], task, role)]]

Conditioned(items, task, role) ==
    IF task = "" /\ role = ""
    THEN items
    ELSE Ranked([n \in DOMAIN items |->
                    [items[n] EXCEPT !.score = ConditionedScore(items[n], task, role)]])
=============================================================================
