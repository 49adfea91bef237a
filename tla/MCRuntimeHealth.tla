--------------------------- MODULE MCRuntimeHealth ---------------------------
(* Values of the constants of RuntimeHealth for TLC.                       *)
EXTENDS RuntimeHealth

Sound == [file |-> "ok", library |-> "ok", vector |-> "pgvector", embedding |-> "set",
          fileLlm |-> "set", llm |-> "builtin"]

\* All start-ups, and for the sound one all contents of its sections.
SomeDeployments ==
    {d \in Deployment : d.embedding = "set" /\ d.fileLlm = "set" /\ d.llm = "set"}
    \cup {[Sound EXCEPT !.embedding = e, !.fileLlm = f, !.llm = l] :
            e \in Texts \cup {"nomodel"}, f \in Texts, l \in Texts \cup {"builtin"}}
    \cup {[Sound EXCEPT !.file = "absent", !.llm = "blank"]}
=============================================================================
