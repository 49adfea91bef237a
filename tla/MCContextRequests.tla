------------------------- MODULE MCContextRequests -------------------------
(* Values of the constants of ContextRequests for TLC.                     *)
EXTENDS ContextRequests, TLC

Item(id, source, score, len, raw) ==
    [id |-> id, source |-> source, score |-> score, len |-> len, raw |-> raw, name |-> "",
     memory |-> "variable", category |-> "none", level |-> "detail", tier |-> "warm", marks |-> {}]

\* A message of the working memory, a system message, a note and a tool result.
user == Item("a", "user", 100, 12, 5)
rule == Item("b", "system", 30, 9, 1)
note == [Item("c", "scratchpad", 100, 4, 4) EXCEPT !.name = "plan", !.memory = "none"]
tool == [Item("d", "tool_result", 70, 8, 8) EXCEPT !.name = "shell"]

\* Memories: one with the id of a message and a better score, one that a task lifts, one that is tiny.
copy == [Item("b", "memory_type", 60, 12, 12) EXCEPT !.memory = "semantic"]
fact == [Item("e", "memory_type", 60, 8, 8) EXCEPT !.memory = "semantic", !.category = "profile"]
event == [Item("f", "memory_type", 65, 8, 8) EXCEPT !.memory = "episodic", !.category = "events",
             !.level = "overview", !.marks = {<<"task_type", "qa">>}]
tiny == <<Item("g", "memory_type", 20, 3, 3), Item("h", "memory_type", 20, 3, 3), Item("i", "memory_type", 20, 3, 3)>>

HeldItems ==
    "ltm" :> {<<copy, fact, event>>, tiny}
    @@ "working_memory" :> {<<user, rule>>, <<>>}
    @@ "jit_refs" :> {<<note, tool>>}

Searched == {<<fact, event>>, <<>>}

Open == [sources |-> {}, memories |-> {}, stateOnly |-> {}, fields |-> {}, tools |-> {}]
NoNotes == [Open EXCEPT !.fields = {"goal"}, !.tools = {"browser"}, !.memories = {"semantic", "variable"}]
StateOnly == [Open EXCEPT !.stateOnly = {"system"}, !.sources = {"system", "user", "memory_type"}]

Context == [kind |-> "context", out |-> "compressed", sources |-> Sources, mode |-> "fast",
            categories |-> {}, level |-> "detail", task |-> "", role |-> "", budget |-> 7,
            topK |-> 2, policy |-> <<>>]

Outs == {"raw", "search", "snapshot", "compressed", "structured"}

ContextRequestSet ==
    {[Context EXCEPT !.out = o, !.policy = p] : o \in Outs, p \in {<<>>, <<NoNotes>>, <<StateOnly>>}}
    \cup {[Context EXCEPT !.task = t, !.role = r, !.budget = b] :
             t \in Strategies \cup {"", "chat"}, r \in {"", "planner"}, b \in {1, 6, 40}}
    \cup {[Context EXCEPT !.mode = "quality", !.categories = {"profile"}, !.level = "overview",
                          !.sources = {"ltm", "working_memory"}, !.out = "raw"]}

Message(system, raw) == [system |-> system, raw |-> raw]
Conversations == {
    <<Message(TRUE, 4), Message(FALSE, 4), Message(FALSE, 8), Message(FALSE, 24), Message(FALSE, 4), Message(FALSE, 8)>>,
    <<Message(FALSE, 3), Message(FALSE, 3), Message(FALSE, 3)>> }

JobOf(messages, budget, task, used, turns) ==
    [messages |-> messages, budget |-> budget, task |-> task, used |-> used, turns |-> turns,
     total |-> FoldLeft(LAMBDA sum, m : sum + m.raw \div 4, 0, messages)]

\* The compaction counts the tokens; a direct call may leave token_used at zero.
CompactRequestSet ==
    {[kind |-> "compact", job |-> JobOf(c, b, "compaction",
        FoldLeft(LAMBDA sum, m : sum + m.raw \div 4, 0, c), 0)] : c \in Conversations, b \in {1, 6, 10, 12, 13, 15}}
    \cup {[kind |-> "compress", job |-> JobOf(c, b, t, u, turns)] :
             c \in Conversations, b \in {1, 6}, t \in Strategies \cup {"", "chat"}, u \in {0, 6},
             turns \in {0, 21}}

AllRequests == ContextRequestSet \cup CompactRequestSet
FailingSets == {{}, {"task"}}
=============================================================================
