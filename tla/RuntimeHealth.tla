---------------------------- MODULE RuntimeHealth ----------------------------
(***************************************************************************)
(* core/monitoring/runtime_health.py behind GET /health: five components   *)
(* are checked at the same time, each under a timeout of its own, while    *)
(* the dependencies come and go.  The checker keeps the openJiuwen config  *)
(* it read, or the error it got.                                           *)
(***************************************************************************)
EXTENDS ServiceLifecycle

CONSTANT MaxFlips   \* BOUND on how often a dependency comes or goes

Components == {"contextagent", "environment", "pgvector", "llm", "embedding"}
Dependencies == {"store", "llm", "embedding"}

VARIABLES
    fileNow,   \* the openJiuwen config file as it is now
    known,     \* what the checker has of it: "unread", "error" or "ok"
    up,        \* the dependencies that answer
    report,    \* report[c]: "none", "asking", or the status of the component c
    probe,     \* the check opened an LLM client of its own
    flips,
    wasUp      \* the dependencies that answered since the check began (for the properties)

healthVars == <<fileNow, known, up, report, probe, flips, wasUp>>
vars == <<lifecycleVars, healthVars>>

Asking == \E c \in Components : report[c] = "asking"

Init ==
    /\ LifecycleInit
    /\ fileNow = deploy.file /\ known = "unread"
    /\ up \in SUBSET Dependencies
    /\ report = [c \in Components |-> "none"] /\ probe = FALSE
    /\ flips = 0 /\ wasUp = {}

\* The checker is given the config the router was built with, if there was one.
Serve ==
    /\ StartProcessor
    /\ known' = IF deploy.file = "ok" THEN "ok" ELSE "unread"
    /\ UNCHANGED <<fileNow, up, report, probe, flips, wasUp>>

Live == \/ (LoadConfig \/ ImportLibrary \/ OpenEngine \/ OpenVectorStore \/ RegisterStores \/ WireRouter)
             /\ UNCHANGED healthVars
        \/ Serve
        \/ ~Asking /\ Shutdown /\ UNCHANGED healthVars   \* the server lets its requests end

Flip ==
    /\ phase = "serving" /\ flips < MaxFlips
    /\ \E d \in Dependencies :
          IF d \in up THEN up' = up \ {d} /\ UNCHANGED wasUp
                      ELSE up' = up \cup {d} /\ wasUp' = wasUp \cup {d}
    /\ flips' = flips + 1
    /\ UNCHANGED <<lifecycleVars, fileNow, known, report, probe>>

\* A config file is put where there was none.
FileAppears ==
    /\ phase = "serving" /\ fileNow = "absent"
    /\ fileNow' \in {"unreadable", "ok"}
    /\ UNCHANGED <<lifecycleVars, known, up, report, probe, flips, wasUp>>

BeginCheck ==
    /\ phase = "serving" /\ ~Asking
    /\ report' = [c \in Components |-> "asking"]
    /\ wasUp' = up
    /\ UNCHANGED <<lifecycleVars, fileNow, known, up, probe, flips>>

\* _get_openjiuwen_config(): the config and an error are kept for good, no file is looked for again.
Known == IF known # "unread" THEN known ELSE
         IF fileNow = "ok" THEN "ok" ELSE IF fileNow = "unreadable" THEN "error" ELSE "unread"

Reports(c, status) ==
    /\ report[c] = "asking"
    /\ report' = [report EXCEPT ![c] = status]
    /\ UNCHANGED <<lifecycleVars, fileNow, up, flips, wasUp>>

CheckContextagent ==
    /\ Reports("contextagent", IF "ltm" \in wired /\ ~processor THEN "degraded" ELSE "ok")
    /\ UNCHANGED <<known, probe>>

\* MUTANT: only the placeholders of the openJiuwen config are looked for.
CheckEnvironment_FileOnly ==
    /\ known' = Known
    /\ LET unresolved == known' = "ok" /\ "placeholder" \in {deploy.fileLlm, deploy.embedding}
       IN Reports("environment", IF known' = "error" \/ unresolved THEN "degraded" ELSE "ok")
    /\ UNCHANGED probe

\* Placeholders that are not resolved, in the settings and in the openJiuwen config.
CheckEnvironment ==
    /\ known' = Known
    /\ LET unresolved == \/ deploy.llm = "placeholder"
                         \/ known' = "ok" /\ "placeholder" \in {deploy.fileLlm, deploy.embedding}
       IN Reports("environment", IF known' = "error" \/ unresolved THEN "degraded" ELSE "ok")
    /\ UNCHANGED probe

Probed(dependency) == IF dependency \in up THEN "ok" ELSE "degraded"

\* MUTANT: a configured store without a long-term memory is none of the checker's business.
CheckPgvector_Skips ==
    /\ known' = Known
    /\ Reports("pgvector",
          CASE known' = "unread" -> "skipped"
            [] known' = "error" \/ deploy.vector = "invalid" -> "degraded"
            [] OTHER -> IF deploy.vector = "other" \/ "ltm" \notin wired THEN "skipped" ELSE Probed("store"))
    /\ UNCHANGED probe

\* pgvector is configured or not; without a long-term memory it is degraded.
CheckPgvector ==
    /\ known' = Known
    /\ Reports("pgvector",
          CASE known' = "unread" -> "skipped"
            [] known' = "error" \/ deploy.vector = "invalid" -> "degraded"
            [] OTHER -> IF deploy.vector = "other" THEN "skipped"
                        ELSE IF "ltm" \in wired THEN Probed("store") ELSE "degraded")
    /\ UNCHANGED probe

\* The LLM: with placeholders in the settings it is skipped, the adapter of the router is
\* probed, or a client that is opened for the probe.
OpenProbe ==
    /\ report["llm"] = "asking" /\ ~probe /\ "llm" \notin wired /\ deploy.llm # "placeholder"
    /\ known' = Known
    /\ EffectiveLlm(known' = "ok") # "none"
    /\ probe' = TRUE
    /\ UNCHANGED <<lifecycleVars, fileNow, up, report, flips, wasUp>>

CheckLlm ==
    /\ IF deploy.llm = "placeholder" THEN Reports("llm", "skipped") /\ UNCHANGED known
       ELSE IF "llm" \in wired \/ probe THEN Reports("llm", Probed("llm")) /\ UNCHANGED known
       ELSE known' = Known /\ EffectiveLlm(known' = "ok") = "none" /\ Reports("llm", "skipped")
    /\ probe' = FALSE

\* A new embedding client for each check, which raises when the service is down.
CheckEmbedding ==
    /\ known' = Known
    /\ Reports("embedding",
          CASE known' = "error" -> "degraded"
            [] known' = "unread" -> "skipped"
            [] deploy.embedding \in {"blank", "placeholder"} -> "skipped"
            [] OTHER -> IF deploy.embedding = "set" THEN Probed("embedding") ELSE "degraded")
    /\ UNCHANGED probe

\* The checks that wait for somebody.
Waiting ==
    {c \in Components : report[c] = "asking"} \cap
        ((IF probe \/ ("llm" \in wired /\ deploy.llm # "placeholder") THEN {"llm"} ELSE {}) \cup
         (IF Known = "ok" /\ deploy.embedding = "set" THEN {"embedding"} ELSE {}) \cup
         (IF Known = "ok" /\ deploy.vector = "pgvector" /\ "ltm" \in wired THEN {"pgvector"} ELSE {}))

Late(c, status) ==
    /\ report' = [report EXCEPT ![c] = status]
    /\ probe' = (probe /\ c # "llm")
    /\ UNCHANGED <<lifecycleVars, fileNow, known, up, flips, wasUp>>

\* MUTANT: a component that does not answer in time is skipped.
TimeOut_Skipped == \E c \in Waiting : Late(c, "skipped")

\* asyncio.timeout() of _run_component().
TimeOut == \E c \in Waiting : Late(c, "degraded")

\* What needs nobody else.
LocalCheck ==
    \/ CheckContextagent
    \/ CheckEnvironment
    \/ OpenProbe
    \/ "pgvector" \notin Waiting /\ CheckPgvector
    \/ "llm" \notin Waiting /\ CheckLlm
    \/ "embedding" \notin Waiting /\ CheckEmbedding

\* A dependency answers, or refuses to.
Answer ==
    \/ "pgvector" \in Waiting /\ CheckPgvector
    \/ "llm" \in Waiting /\ CheckLlm
    \/ "embedding" \in Waiting /\ CheckEmbedding

Check == LocalCheck \/ Answer \/ TimeOut

Ended == phase \in {"stopped", "failed"} /\ UNCHANGED vars

Next == Live \/ Flip \/ FileAppears \/ BeginCheck \/ Check \/ Ended

Spec == Init /\ [][Next]_vars
-----------------------------------------------------------------------------
HasReport == ~Asking /\ report["llm"] # "none"
OverallOk == \A c \in Components : report[c] # "degraded"

\* An overall "ok" is never wrong about what the service uses: the store of its long-term memory,
\* its LLM and its embedding answered at some time during the check, and nothing that is
\* configured for pgvector is missing from the service.
OkMeansUp ==
    HasReport /\ OverallOk =>
        /\ "llm" \in wired => "llm" \in wasUp
        /\ deploy.file = "ok" /\ deploy.embedding = "set" => "embedding" \in wasUp
        /\ deploy.file = "ok" /\ deploy.vector = "pgvector" => "ltm" \in wired /\ "store" \in wasUp
=============================================================================
