-------------------------- MODULE ServiceLifecycle --------------------------
(***************************************************************************)
(* The life of the HTTP service: lifespan() of api/http_handler.py builds  *)
(* the default router (config/openjiuwen.py), starts the memory processor, *)
(* serves, and on exit stops the processor and closes what it opened.      *)
(*                                                                         *)
(* Building the long-term memory opens a database engine and a vector      *)
(* store; when openJiuwen turns out to be unavailable on the way, the      *)
(* service goes on with the working memory only.                           *)
(***************************************************************************)
EXTENDS Integers, Sequences, FiniteSets

CONSTANTS
    Deployments   \* how the service may be installed and configured

\* file: the openJiuwen config; library: the installed openJiuwen ("bare" has no
\* register_store()); vector: its vector_store section ("nodsn" is pgvector without a dsn);
\* embedding, fileLlm: its embedding ("nomodel" names none) and llm sections, a "blank" one is
\* missing or empty; llm: the llm of the settings.
Texts == {"set", "blank", "placeholder"}
Deployment ==
    [file : {"absent", "unreadable", "ok"}, library : {"missing", "bare", "ok"},
     vector : {"pgvector", "other", "nodsn", "invalid"}, embedding : Texts \cup {"nomodel"},
     fileLlm : Texts, llm : Texts \cup {"builtin"}]

ASSUME DeploymentAssumption == Deployments \subseteq Deployment

VARIABLES
    deploy,     \* the deployment; it does not change
    phase,      \* where lifespan() is
    open,       \* the resources that are open
    wired,      \* what the router was given of {"ltm", "llm"}
    cleanup,    \* the resources the LTM adapter still has to close, in order
    processor,  \* the memory processor runs
    lost        \* what a failed bootstrap or a failed close left open (for the properties)

lifecycleVars == <<deploy, phase, open, wired, cleanup, processor, lost>>

LifecycleInit ==
    /\ deploy \in Deployments
    /\ phase = "down" /\ open = {} /\ wired = {} /\ cleanup = <<>>
    /\ processor = FALSE /\ lost = {}

Goto(next) == phase' = next
KeepAll == UNCHANGED <<deploy, open, wired, cleanup, processor, lost>>

\* resolve_openjiuwen_config_path() and load_openjiuwen_config(): no file is no long-term
\* memory, a file that cannot be used ends the start.
LoadConfig ==
    /\ phase = "down"
    /\ Goto(CASE deploy.file = "absent" -> "wiring"
              [] deploy.file = "unreadable" -> "failed"
              [] deploy.file = "ok" -> "memory")
    /\ KeepAll

\* OPENJIUWEN_UNAVAILABLE: what the bootstrap opened so far is not closed.
Unavailable ==
    /\ Goto("wiring")
    /\ lost' = lost \cup open
    /\ UNCHANGED <<deploy, open, wired, cleanup, processor>>

\* The import of openJiuwen, and _instantiate_long_term_memory(), of which no constructor may fit.
\* Without stores to register the scope config is first built behind the handlers of the errors.
ImportLibrary ==
    /\ phase = "memory"
    /\ \/ Unavailable
       \/ deploy.library = "bare" /\ Goto("wiring") /\ wired' = {"ltm"}
            /\ UNCHANGED <<deploy, open, cleanup, processor, lost>>
       \/ deploy.library = "bare" /\ Goto("failed") /\ KeepAll
       \/ deploy.library = "ok" /\ Goto("engine") /\ KeepAll

\* _build_db_store(): a missing dsn is an error of the configuration, a missing driver or store
\* class is not.  The other backends get a key-value store in memory.
OpenEngine ==
    /\ phase = "engine"
    /\ \/ deploy.vector \in {"nodsn", "invalid"} /\ Goto("failed") /\ KeepAll
       \/ deploy.vector # "invalid" /\ Unavailable
       \/ deploy.vector = "pgvector" /\ Goto("store") /\ open' = open \cup {"engine"}
            /\ UNCHANGED <<deploy, wired, cleanup, processor, lost>>
       \/ deploy.vector = "other" /\ Goto("store") /\ KeepAll

\* _instantiate_vector_store()
OpenVectorStore ==
    /\ phase = "store"
    /\ \/ Unavailable
       \/ /\ Goto("register") /\ open' = open \cup {"vector"}
          /\ UNCHANGED <<deploy, wired, cleanup, processor, lost>>

\* MUTANT: the adapter is not told what to close.
RegisterStores_Forgets ==
    /\ phase = "register"
    /\ \/ Unavailable
       \/ /\ Goto("wiring") /\ wired' = {"ltm"} /\ cleanup' = <<>>
          /\ UNCHANGED <<deploy, open, processor, lost>>

\* The embedding model is built and the stores are registered, with the network in between;
\* then the adapter is built, which knows what to close.
RegisterStores ==
    /\ phase = "register"
    /\ \/ Unavailable
       \/ /\ Goto("wiring") /\ wired' = {"ltm"}
          /\ cleanup' = IF "engine" \in open THEN <<"engine", "vector">> ELSE <<"vector">>
          /\ UNCHANGED <<deploy, open, processor, lost>>

\* _resolve_effective_llm_config(): the settings count unless they are the built-in ones or
\* say nothing, and there is a file.
EffectiveLlm(fileKnown) ==
    LET defers == deploy.llm \in {"builtin", "blank", "placeholder"}
    IN IF fileKnown /\ defers THEN IF deploy.fileLlm = "set" THEN "file" ELSE "none"
       ELSE IF deploy.llm \in {"blank", "placeholder"} THEN "none" ELSE "settings"

\* build_default_llm_adapter()
WireRouter ==
    /\ phase = "wiring"
    /\ Goto("starting")
    /\ LET some == IF EffectiveLlm(deploy.file = "ok") = "none" THEN {} ELSE {"llm"}
       IN wired' = wired \cup some /\ open' = open \cup some
    /\ UNCHANGED <<deploy, cleanup, processor, lost>>

\* There is a processor when there is a long-term memory.
StartProcessor ==
    /\ phase = "starting"
    /\ Goto("serving") /\ processor' = ("ltm" \in wired)
    /\ UNCHANGED <<deploy, open, wired, cleanup, lost>>

\* MUTANT: the resources are closed while the processor still runs.
StopProcessor_Later ==
    /\ phase = "serving"
    /\ Goto("closing llm")
    /\ UNCHANGED <<deploy, open, wired, cleanup, processor, lost>>

\* The server is told to exit and has answered its requests; stop() always returns.
StopProcessor ==
    /\ phase = "serving"
    /\ Goto("closing llm") /\ processor' = FALSE
    /\ UNCHANGED <<deploy, open, wired, cleanup, lost>>

CloseLlm ==
    /\ phase = "closing llm"
    /\ Goto("closing ltm") /\ open' = open \ {"llm"}
    /\ UNCHANGED <<deploy, wired, cleanup, processor, lost>>

\* OpenJiuwenLTMAdapter.close(): the resources in their order, then the memory itself.
CloseNext ==
    /\ phase = "closing ltm" /\ cleanup # <<>>
    /\ open' = open \ {Head(cleanup)} /\ cleanup' = Tail(cleanup)
    /\ UNCHANGED <<deploy, phase, wired, processor, lost>>

\* A close raises: what is not closed yet stays open, and the exit ends with the error.
CloseRaises ==
    /\ \/ phase = "closing llm" /\ "llm" \in open
       \/ phase = "closing ltm" /\ cleanup # <<>>
    /\ Goto("stopped") /\ lost' = lost \cup open /\ cleanup' = <<>>
    /\ UNCHANGED <<deploy, open, wired, processor>>

ExitEnds ==
    /\ phase = "closing ltm" /\ cleanup = <<>>
    /\ Goto("stopped")
    /\ KeepAll

Startup == LoadConfig \/ ImportLibrary \/ OpenEngine \/ OpenVectorStore \/ RegisterStores
             \/ WireRouter \/ StartProcessor
Shutdown == StopProcessor \/ CloseLlm \/ CloseNext \/ CloseRaises \/ ExitEnds

LifecycleNext == Startup \/ Shutdown
LifecycleSpec == LifecycleInit /\ [][LifecycleNext]_lifecycleVars
-----------------------------------------------------------------------------
Phases == {"down", "memory", "engine", "store", "register", "wiring", "starting", "serving",
           "closing llm", "closing ltm", "stopped", "failed"}
Resources == {"engine", "vector", "llm"}
Cleanups == {<<>>, <<"vector">>, <<"engine", "vector">>}

LifecycleTypeOK ==
    /\ deploy \in Deployments /\ phase \in Phases /\ open \subseteq Resources
    /\ wired \subseteq {"ltm", "llm"} /\ lost \subseteq Resources /\ processor \in BOOLEAN
    /\ cleanup \in Cleanups

\* While the processor runs, all that the long-term memory needs is open: the exit stops the
\* one before it closes the other, and a bootstrap that failed gives nobody a processor.
ProcessorHasItsStores ==
    processor => "ltm" \in wired /\ (deploy.library = "ok" => "vector" \in open)
                   /\ (deploy.library = "ok" /\ deploy.vector = "pgvector" => "engine" \in open)

\* A service that serves has its processor exactly when it has a long-term memory.
ServingIsReady == phase = "serving" => (processor <=> "ltm" \in wired)

\* Only a configuration that cannot be used, or a library too old to have stores, keeps the service
\* from starting; a library, a driver or a database that is not there costs the long-term memory.
UnavailableIsNotFatal ==
    phase = "failed" =>
        deploy.file = "unreadable" \/ deploy.vector \in {"nodsn", "invalid"} \/ deploy.library = "bare"

\* After an exit nothing is open but what a failed bootstrap or a failed close left behind.
ExitClosesTheRest == phase = "stopped" => open \subseteq lost
=============================================================================
