--------------------------- MODULE MemoryPipeline ---------------------------
(***************************************************************************)
(* AsyncMemoryProcessor composed with the two stores its workers write:    *)
(* the long-term memory behind the LTM port, and the hot-tier entry of one *)
(* scope kept by core/memory/tiered_router.py, which warm_cache() replaces *)
(* and record_usage() rewrites.                                            *)
(*                                                                         *)
(* A step of the processor that calls a store is conjoined with its effect *)
(* on the store; every other step leaves the stores alone.  A write of the *)
(* LTM takes effect where the model ends the call: a later return is a     *)
(* longer stay at the next suspension point.  A search reads the LTM at    *)
(* some point of the call and answers later, with what it read then.       *)
(***************************************************************************)
EXTENDS AsyncMemoryProcessor

CONSTANTS
    Memories,        \* memory ids of one scope
    VariableOnes,    \* the memories of type VARIABLE, the only ones cached
    Target,          \* Target[t]: the memory the task t adds, updates or deletes
    TopK,            \* top_k of the search of a refresh, 20 in the code
    LeavesNoneOut,   \* the LTM answers an empty query with all it has, up to top_k
    Markers,         \* coroutines that call record_usage()
    Absent           \* a memory was never in the LTM

ASSUME MemoriesAssumption ==
    /\ VariableOnes \subseteq Memories
    /\ Target \in [Tasks -> Memories]
    /\ TopK \in Nat
    /\ LeavesNoneOut \in BOOLEAN
    /\ Absent \notin Tasks

VARIABLES
    ltm,            \* ltm[m]: the task that made m what it is, a delete too, or Absent
    hot,            \* the entry: what it caches of which memories; Empty is no entry
    reached,        \* the workers whose search has read the LTM
    found,          \* found[w]: what the search of the worker w read
    usage,          \* usage[k]: the entry record_usage() read and will write back
    \* What happened, for the properties only:
    earlier,        \* earlier[t]: the tasks accepted before t
    beside,         \* beside[t]: the other tasks that were in process while t was
    replaced,       \* the tasks whose contents are no longer in the LTM
    outdated,       \* outdated[w]: what was replaced by the end of the write of w
    storeFailed     \* some call of a store raised

storeVars == <<ltm, hot, reached, found, usage>>
orderVars == <<earlier, beside>>
effectVars == <<replaced, outdated, storeFailed>>
pipelineVars == <<vars, storeVars, orderVars, effectVars>>

Empty == [m \in {} |-> Absent]
Values(entry) == {entry[m] : m \in DOMAIN entry}
Part(entry, S) == [m \in DOMAIN entry \cap S |-> entry[m]]

Present == {m \in Memories : ltm[m] # Absent /\ Type[ltm[m]] # "delete"}

PipelineInit ==
    /\ Init
    /\ ltm = [m \in Memories |-> Absent]
    /\ hot = Empty
    /\ reached = {}
    /\ found = [w \in WorkerIds |-> Empty]
    /\ usage = [k \in Markers |-> Empty]
    /\ earlier = [t \in Tasks |-> {}]
    /\ beside = [t \in Tasks |-> {}]
    /\ replaced = {}
    /\ outdated = [w \in WorkerIds |-> {}]
    /\ storeFailed = FALSE

-----------------------------------------------------------------------------
(* The LTM port.                                                           *)

\* add_messages, delete_by_id and update_by_id; an update or a delete of a memory
\* that is not there finds nothing to change.
TakesEffect(t) ==
    /\ ltm' = IF Type[t] = "add" \/ Target[t] \in Present
              THEN [ltm EXCEPT ![Target[t]] = t] ELSE ltm
    /\ replaced' = IF ltm' = ltm THEN replaced ELSE (replaced \cup {ltm[Target[t]]}) \ {Absent}

NoEffect == UNCHANGED <<ltm, replaced>>

WriteReturns(w) ==
    /\ WriteSucceeds(w)
    /\ TakesEffect(wtask[w])
    /\ outdated' = [outdated EXCEPT ![w] = IF wpc'[w] = "search" THEN replaced' ELSE {}]
    /\ UNCHANGED <<hot, reached, found, usage, orderVars, storeFailed>>

\* A call that raised may have taken effect before.
WriteRaises(w) ==
    /\ WriteFails(w)
    /\ TakesEffect(wtask[w]) \/ NoEffect
    /\ storeFailed' = TRUE
    /\ UNCHANGED <<hot, reached, found, usage, orderVars, outdated>>

\* The search of a refresh has an empty query and a score threshold: whichever of
\* the memories the LTM holds pass it, at most top_k of them are picked.
Answer(S) ==
    /\ S \subseteq Present
    /\ Cardinality(S) <= TopK
    /\ LeavesNoneOut => S = Present \/ Cardinality(S) = TopK

\* Mutant: the search is answered from the hot tier, as TieredMemoryRouter.search()
\* would answer it.
SearchReads_HotFirst(w) ==
    /\ wpc[w] = "search"
    /\ w \notin reached
    /\ reached' = reached \cup {w}
    /\ \E S \in SUBSET Memories :
          /\ Answer(S)
          /\ found' = [found EXCEPT ![w] = IF hot # Empty THEN hot ELSE Part(ltm, S)]
    /\ UNCHANGED <<vars, ltm, hot, usage, orderVars, effectVars>>

\* The moment at which the LTM is read.
SearchReads(w) ==
    /\ wpc[w] = "search"
    /\ w \notin reached
    /\ reached' = reached \cup {w}
    /\ \E S \in SUBSET Memories : Answer(S) /\ found' = [found EXCEPT ![w] = Part(ltm, S)]
    /\ UNCHANGED <<vars, ltm, hot, usage, orderVars, effectVars>>

\* What the worker keeps of its refresh is forgotten with the refresh.
Forget(w) ==
    /\ reached' = reached \ {w}
    /\ found' = [found EXCEPT ![w] = Empty]
    /\ outdated' = [outdated EXCEPT ![w] = {}]

SearchRaises(w) ==
    /\ SearchEndsIn(w, "notify")
    /\ Forget(w)
    /\ storeFailed' = TRUE
    /\ UNCHANGED <<ltm, hot, usage, orderVars, replaced>>

-----------------------------------------------------------------------------
(* The hot tier.                                                           *)

Cacheable(items) == Part(items, VariableOnes)

\* Mutant: what is cached already is kept beside the new items.
WarmCache_Merges(items) ==
    hot' = [m \in DOMAIN hot \cup DOMAIN Cacheable(items) |->
              IF m \in DOMAIN Cacheable(items) THEN items[m] ELSE hot[m]]

\* The new items of type VARIABLE replace the whole entry.
WarmCache(items) == hot' = Cacheable(items)

\* The search answered and warm_cache() has Redis and something to cache: it
\* suspends in setex.
SearchReturns(w) ==
    /\ w \in reached
    /\ Cacheable(found[w]) # Empty
    /\ SearchEndsIn(w, "warm")
    /\ UNCHANGED <<storeVars, orderVars, effectVars>>

\* ... or it ends in the same block: it writes the entry of the process, or there
\* is nothing to cache and the old entry stays.
SearchReturnsAndWarms(w) ==
    /\ w \in reached
    /\ SearchEndsIn(w, "notify")
    /\ IF Cacheable(found[w]) = Empty THEN UNCHANGED hot
       ELSE ~UseRedis /\ WarmCache(found[w])
    /\ Forget(w)
    /\ UNCHANGED <<ltm, usage, orderVars, replaced, storeFailed>>

WarmReturns(w) ==
    /\ WarmEnds(w)
    /\ WarmCache(found[w])
    /\ Forget(w)
    /\ UNCHANGED <<ltm, usage, orderVars, replaced, storeFailed>>

\* setex raised, with or without effect: warm_cache() logs it and returns.
WarmSwallows(w) ==
    /\ WarmEnds(w)
    /\ WarmCache(found[w]) \/ UNCHANGED hot
    /\ Forget(w)
    /\ storeFailed' = TRUE
    /\ UNCHANGED <<ltm, usage, orderVars, replaced>>

\* The time to live of the entry is over.
Expire ==
    /\ hot # Empty
    /\ hot' = Empty
    /\ UNCHANGED <<vars, ltm, reached, found, usage, orderVars, effectVars>>

\* record_usage() with Redis reads the entry; in-process it changes only the
\* counts of the entry, in one block.
UsageRead(k) ==
    /\ UseRedis
    /\ usage[k] = Empty
    /\ hot # Empty
    /\ usage' = [usage EXCEPT ![k] = hot]
    /\ UNCHANGED <<vars, ltm, hot, reached, found, orderVars, effectVars>>

\* ... and writes back what it read, with a full time to live, or setex raises.
UsageWrite(k) ==
    /\ usage[k] # Empty
    /\ hot' \in {hot, usage[k]}
    /\ usage' = [usage EXCEPT ![k] = Empty]
    /\ UNCHANGED <<vars, ltm, reached, found, orderVars, effectVars>>

-----------------------------------------------------------------------------
StoreStep(w) ==
    \/ WriteReturns(w) \/ WriteRaises(w)
    \/ SearchReads(w) \/ SearchRaises(w)
    \/ SearchReturns(w) \/ SearchReturnsAndWarms(w)
    \/ WarmReturns(w) \/ WarmSwallows(w)

Accept(t) ==
    /\ Enqueue(t)
    /\ earlier' = [earlier EXCEPT ![t] = accepted]
    /\ UNCHANGED <<beside, storeVars, effectVars>>

Take(w) ==
    /\ TakeTask(w)
    /\ beside' = [t \in Tasks |->
                    CASE t = Head(queue) -> Held
                      [] t \in Held -> beside[t] \cup {Head(queue)}
                      [] OTHER -> beside[t]]
    /\ UNCHANGED <<earlier, storeVars, effectVars>>

QuietStep ==
    /\ \/ \E t \in Tasks : EnqueueFull(t)
       \/ Subscribe
       \/ \E c \in Controllers : Start(c) \/ BeginStop(c) \/ StopStep(c)
       \/ \E w \in WorkerIds : TakeSentinel(w) \/ CheckEnds(w) \/ Notify(w) \/ EndTask(w)
    /\ UNCHANGED <<storeVars, orderVars, effectVars>>

PipelineNext ==
    \/ \E t \in Tasks : Accept(t)
    \/ QuietStep
    \/ \E w \in WorkerIds : Take(w) \/ StoreStep(w)
    \/ Expire
    \/ \E k \in Markers : UsageRead(k) \/ UsageWrite(k)

PipelineSpec == PipelineInit /\ [][PipelineNext]_pipelineVars

-----------------------------------------------------------------------------
(* Properties.                                                             *)

\* Nothing is queued or in process: whatever the processor does to the hot tier
\* "after memory processing" is over.
AtRest == Queued = {} /\ Held = {} /\ \A k \in Markers : usage[k] = Empty

\* docs/architecture-design.md:1333: the hot tier is inconsistent with the LTM
\* only for the short delay of the asynchronous warming.  So at rest, if no
\* call of a store raised, what is cached of a memory is what the LTM holds.
HotIsCurrentAtRest ==
    AtRest /\ ~storeFailed => \A m \in DOMAIN hot : hot[m] = ltm[m]

\* However many workers there are and whatever they suspend or fail in, the tasks
\* about a memory reach the LTM in the order in which they were accepted: what was
\* applied is overwritten only by a later task, or by one that was in process at
\* the same time.  An update of a memory that is not there leaves no trace.
LtmKeepsOrder ==
    \A t \in applied :
        LET u == ltm[Target[t]] IN
        \/ u = t
        \/ u \in accepted /\ (t \in earlier[u] \/ t \in beside[u])
        \/ Type[t] # "add" /\ Target[t] \notin Present

\* A refresh follows the write of its task and replaces the whole entry by what the
\* LTM answered: whatever the entry, the other workers and record_usage() hold, it
\* never brings back contents that were replaced by the time of that write.
RefreshBringsNothingBack ==
    [][\A w \in WorkerIds :
          wpc[w] \in {"search", "warm"} /\ wpc'[w] = "notify" /\ hot' # hot =>
              Values(hot') \cap outdated[w] = {}]_pipelineVars
=============================================================================
