-------------------------- MODULE MessageIngestion --------------------------
(***************************************************************************)
(* core/memory/orchestrator.py behind ingest_messages() and mark_used() of *)
(* api/router.py: a message is written to the working memory, classified,  *)
(* and the ones worth keeping go to the long-term memory as one task.      *)
(*                                                                         *)
(* Calls of several clients interleave on one event loop: a call is        *)
(* suspended in each write to the working memory.  The text of a message   *)
(* is the set of markers _classify_message() looks for in it.              *)
(***************************************************************************)
EXTENDS Integers, Sequences, FiniteSets, SequencesExt, SequenceFilters

CONSTANTS
    QueueSize,   \* queue_maxsize of the AsyncMemoryProcessor
    CallIds,     \* BOUND: the calls the clients make, in this order
    Wirings      \* how the routers are built, see Wiring

\* "orchestrated": orchestrator and processor; "unqueued": no processor; "plain": a working
\* memory only; "none": not even that; "absent": the service has no router.
Wiring == {"orchestrated", "unqueued", "plain", "none", "absent"}

\* What is told apart of a message: its role, the markers of its text, the memory type that
\* its metadata ask for, which need not be a MemoryType.
Roles == {"user", "assistant", "system", "conversation"}
Markers == {"preference", "profile", "conclusion"}
RequestedTypes == {"", "procedural", "semantic", "episodic", "variable", "invariant", "reference"}

Message == [role : Roles, marks : SUBSET Markers, blank : BOOLEAN, len : Nat, asked : RequestedTypes]

ASSUME IngestionAssumption ==
    QueueSize \in Nat \ {0} /\ CallIds \subseteq Nat /\ Wirings \subseteq Wiring

VARIABLES
    memory,   \* how the router is wired
    notes,    \* the items of the session in the working memory, oldest first
    queue,    \* the tasks of the AsyncMemoryProcessor, oldest first
    stored,   \* the tasks the long-term memory was given
    calls     \* calls[c]: the request, what is left of it, and how it ended

ingestionVars == <<memory, notes, queue, stored, calls>>

\* The rules of _classify_message(), tried in this order: a text with the marker, of that role.
Rules == <<
    [mark |-> "preference", roles |-> {}, type |-> "procedural", category |-> "preferences"],
    [mark |-> "profile", roles |-> {"user"}, type |-> "semantic", category |-> "profile"],
    [mark |-> "conclusion", roles |-> {}, type |-> "episodic", category |-> "events"] >>

ClassifyMessage(message) ==
    LET applies(rule) == rule.mark \in message.marks /\ (rule.roles = {} \/ message.role \in rule.roles)
        matching == Keep(Rules, {rule \in ToSet(Rules) : applies(rule)})
    IN IF matching = <<>>
       THEN [persist |-> FALSE, type |-> "variable", category |-> "events"]
       ELSE [persist |-> TRUE, type |-> Head(matching).type, category |-> Head(matching).category]

DefaultCategoryForType ==
    [procedural |-> "preferences", semantic |-> "profile", episodic |-> "events", variable |-> "events"]

\* A requested type decides alone; one that is no MemoryType is logged and forgotten.
Signal(message, persistLongTerm) ==
    IF message.asked \in DOMAIN DefaultCategoryForType
    THEN [persist |-> persistLongTerm, type |-> message.asked,
          category |-> DefaultCategoryForType[message.asked]]
    ELSE ClassifyMessage(message)

Kept(message, persistLongTerm) == persistLongTerm /\ Signal(message, persistLongTerm).persist

NotBlank(messages) == Keep(messages, {message \in ToSet(messages) : ~message.blank})

\* The item of a message; without the orchestrator it is always VARIABLE.
NoteOf(c, message) ==
    LET signal == Signal(message, calls[c].persist)
    IN [call |-> c, message |-> message, uses |-> 0,
        type |-> IF memory = "plain" THEN "variable" ELSE signal.type]

\* MUTANT: the flag of bootstrap() is not looked at.
Ingesting_Persists(call, messages, persistLongTerm) ==
    [call EXCEPT !.stage = "writing", !.persist = TRUE,
                 !.todo = IF memory = "none" THEN <<>> ELSE NotBlank(messages)]

\* ingest_messages() begins: what is left to write, and what will go to the long-term memory.
Ingesting(call, messages, persistLongTerm) ==
    [call EXCEPT !.stage = "writing", !.persist = persistLongTerm,
                 !.todo = IF memory = "none" THEN <<>> ELSE NotBlank(messages)]

Request(op, messages) == [op |-> op, messages |-> messages, ids |-> {}, limit |-> 0]

Idle == [stage |-> "unused", client |-> "idle", request |-> Request("none", <<>>), todo |-> <<>>,
         ltm |-> <<>>, persist |-> FALSE, count |-> 0, ids |-> {}, shown |-> {}]

IngestionInit ==
    /\ memory \in Wirings
    /\ notes = <<>>
    /\ queue = <<>>
    /\ stored = <<>>
    /\ calls = [c \in CallIds |-> Idle]

\* One message of ingest_messages() is written, and remembered when it is to be kept.
WriteNext(c) ==
    /\ calls[c].stage = "writing" /\ calls[c].todo # <<>>
    /\ LET message == Head(calls[c].todo)
           kept == memory # "plain" /\ Kept(message, calls[c].persist)
       IN /\ notes' = Append(notes, NoteOf(c, message))
          /\ calls' = [calls EXCEPT ![c].todo = Tail(@), ![c].count = @ + 1,
                           ![c].ltm = IF kept THEN Append(@, message) ELSE @]
    /\ UNCHANGED <<memory, queue, stored>>

\* MUTANT: a failing write is logged and the message still goes to the long-term memory.
WriteFails_GoesOn(c) ==
    /\ calls[c].stage = "writing" /\ calls[c].todo # <<>>
    /\ calls' = [calls EXCEPT ![c].todo = Tail(@), ![c].count = @ + 1,
            ![c].ltm = IF Kept(Head(calls[c].todo), calls[c].persist) THEN Append(@, Head(calls[c].todo)) ELSE @]
    /\ UNCHANGED <<memory, notes, queue, stored>>

\* MUTANT: what was collected is enqueued when a later write fails.
WriteFails_Flushes(c) ==
    /\ calls[c].stage = "writing" /\ calls[c].todo # <<>>
    /\ queue' = IF calls[c].ltm # <<>> /\ Len(queue) < QueueSize
                THEN Append(queue, [call |-> c, messages |-> calls[c].ltm]) ELSE queue
    /\ calls' = [calls EXCEPT ![c].stage = "failed"]
    /\ UNCHANGED <<memory, notes, stored>>

\* The working memory raises: what was written before stays, nothing is enqueued.
WriteFails(c) ==
    /\ calls[c].stage = "writing" /\ calls[c].todo # <<>>
    /\ calls' = [calls EXCEPT ![c].stage = "failed"]
    /\ UNCHANGED <<memory, notes, queue, stored>>

\* MUTANT: the refusal of the queue is swallowed.
Enqueue_Swallowed(c) ==
    /\ calls[c].stage = "writing" /\ calls[c].todo = <<>>
    /\ queue' = IF calls[c].ltm # <<>> /\ memory = "orchestrated" /\ Len(queue) < QueueSize
                THEN Append(queue, [call |-> c, messages |-> calls[c].ltm]) ELSE queue
    /\ calls' = [calls EXCEPT ![c].stage = "answered"]
    /\ UNCHANGED <<memory, notes, stored>>

\* All written: one task for what is to be kept, refused with QUEUE_FULL when the queue is full.
Enqueue(c) ==
    /\ calls[c].stage = "writing" /\ calls[c].todo = <<>>
    /\ LET toKeep == calls[c].ltm # <<>> /\ memory = "orchestrated"
           full == Len(queue) >= QueueSize
       IN /\ queue' = IF toKeep /\ ~full
                      THEN Append(queue, [call |-> c, messages |-> calls[c].ltm]) ELSE queue
          /\ calls' = [calls EXCEPT ![c].stage = IF toKeep /\ full THEN "failed" ELSE "answered"]
    /\ UNCHANGED <<memory, notes, stored>>

\* A worker of the AsyncMemoryProcessor hands the oldest task to the long-term memory.
ProcessTask ==
    /\ queue # <<>>
    /\ stored' = Append(stored, Head(queue))
    /\ queue' = Tail(queue)
    /\ UNCHANGED <<memory, notes, calls>>

\* mark_used(): the working memory counts a use for each item that has one of the ids.
Credited(ids) ==
    [i \in DOMAIN notes |-> IF i \in ids THEN [notes[i] EXCEPT !.uses = @ + 1] ELSE notes[i]]

IngestionStep(c) == WriteNext(c) \/ WriteFails(c) \/ Enqueue(c)
=============================================================================
