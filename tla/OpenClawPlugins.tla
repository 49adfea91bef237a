-------------------------- MODULE OpenClawPlugins --------------------------
(***************************************************************************)
(* The plugins in OpenClaw and the service they call: the context engine   *)
(* of plugins/context-agent (src/engine.ts, src/client.ts), its hooks      *)
(* (index.ts), and the tools and hooks of plugins/openclaw-memory-plugin.  *)
(*                                                                         *)
(* A call of the client is lost, answered, or given up after the timeout   *)
(* while the service goes on with it; a request is not tried again.        *)
(***************************************************************************)
EXTENDS ContextService

CONSTANTS
    Sessions,    \* message sequences the session file and the prompt may hold
    Budgets      \* token limits of a compaction

ASSUME ClientsAssumption == Sessions \subseteq Seq(Message) /\ Budgets \subseteq Nat

VARIABLES pending    \* _pendingItemIds of the engine: what the next afterTurn() reports

pluginsVars == <<memory, notes, queue, stored, calls, pending>>
client == <<memory, notes, queue, stored>>

PluginsInit == IngestionInit /\ pending = {}

\* _post(): the next call leaves with its request.
Post(c, request) ==
    /\ calls[c].client = "idle"
    /\ \A d \in CallIds : d < c => calls[d].client # "idle"
    /\ calls' = [calls EXCEPT ![c].client = "waiting", ![c].stage = "sent", ![c].request = request]

\* readSessionMessages(): a file that cannot be read has no messages.
SessionFiles == Sessions \cup {<<>>}

Bootstrap(c) ==
    \E messages \in SessionFiles :
        Post(c, Request("bootstrap", messages)) /\ UNCHANGED <<client, pending>>

\* ingest() of the engine sends one message.
Ingest(c) ==
    \E messages \in Sessions : \E i \in DOMAIN messages :
        Post(c, Request("ingest", <<messages[i]>>)) /\ UNCHANGED <<client, pending>>

\* The endpoint takes several: "ingest one or more new messages".
IngestBatch(c) ==
    \E messages \in Sessions : Post(c, Request("ingest", messages)) /\ UNCHANGED <<client, pending>>

Assemble(c) ==
    \E messages \in Sessions : Post(c, Request("assemble", messages)) /\ UNCHANGED <<client, pending>>

OfRole(messages, role) == Keep(messages, {message \in ToSet(messages) : message.role = role})

\* afterTurn(): the last assistant message after the prompt, and the ids held at that moment.
AfterTurn(c) ==
    \E messages \in Sessions : \E before \in 0..Len(messages) :
        LET replies == OfRole(SubSeq(messages, before + 1, Len(messages)), "assistant")
        IN /\ replies # <<>>
           /\ Post(c, [Request("after_turn", <<Last(replies)>>) EXCEPT !.ids = pending])
           /\ UNCHANGED <<client, pending>>

Compact(c) ==
    \E messages \in SessionFiles, limit \in Budgets :
        Post(c, [Request("compact", messages) EXCEPT !.limit = limit]) /\ UNCHANGED <<client, pending>>

\* memory_recall and before_agent_start of the memory plugin, over the same endpoint.
Recall(c) == Post(c, Request("recall", <<>>)) /\ UNCHANGED <<client, pending>>

\* memory_forget
Forget(c) == Post(c, Request("delete", <<>>)) /\ UNCHANGED <<client, pending>>

\* before_prompt_build of index.ts
Retrieve(c) == Post(c, Request("context", <<>>)) /\ UNCHANGED <<client, pending>>

\* agent_end of index.ts: the last exchange as one message of the role "conversation".
Exchange(messages) ==
    LET said == [i \in {"user", "assistant"} |-> OfRole(messages, i)]
        parts == {Last(said[i]) : i \in {j \in DOMAIN said : said[j] # <<>>}}
    IN [role |-> "conversation", asked |-> "", blank |-> \A part \in parts : part.blank,
        marks |-> UNION {part.marks : part \in parts}, len |-> 0]

PersistExchange(c) ==
    \E messages \in Sessions :
        /\ ~Exchange(messages).blank
        /\ Post(c, Request("write", <<Exchange(messages)>>))
        /\ UNCHANGED <<client, pending>>

\* The memory types the memory_store tool offers to the model.
OfferedTypes == {"variable", "invariant", "reference"}

\* memory_store, and agent_end of the memory plugin with "variable"; the role is the default.
Store(c) ==
    \E messages \in Sessions, type \in OfferedTypes : \E i \in DOMAIN messages :
        /\ ~messages[i].blank
        /\ Post(c, Request("write", <<[messages[i] EXCEPT !.asked = type, !.role = "user"]>>))
        /\ UNCHANGED <<client, pending>>

\* A caller of the API reports items of the session, which an earlier /context showed it.
ReportUsed(c) ==
    /\ notes # <<>>
    /\ Post(c, [Request("used", <<>>) EXCEPT !.ids = DOMAIN notes])
    /\ UNCHANGED <<client, pending>>

\* dispose()
Dispose == pending' = {} /\ UNCHANGED <<client, calls>>

\* The answer of /context has an output and no items: reading their number throws in recall().
Readable(call) == call.request.op # "recall"

\* An answer arrives: assemble() keeps the ids, afterTurn() clears them.
AnswerArrives(c) ==
    /\ calls[c].client = "waiting" /\ calls[c].stage = "answered" /\ Readable(calls[c])
    /\ calls' = [calls EXCEPT ![c].client = "answered"]
    /\ pending' = CASE calls[c].request.op = "assemble" -> calls[c].ids
                    [] calls[c].request.op = "after_turn" -> {}
                    [] OTHER -> pending
    /\ UNCHANGED client

\* The promise rejects: the service failed the call, or what it answered cannot be read.
Rejected(c) ==
    /\ calls[c].client = "waiting"
    /\ calls[c].stage = "failed" \/ (calls[c].stage = "answered" /\ ~Readable(calls[c]))
    /\ calls' = [calls EXCEPT ![c].client = "rejected"]
    /\ UNCHANGED <<client, pending>>

\* The timer aborts the request, which the service may be working on.
TimesOut(c) ==
    /\ calls[c].client = "waiting"
    /\ calls' = [calls EXCEPT ![c].client = "rejected"]
    /\ UNCHANGED <<client, pending>>

\* The request never reaches the service.
Lost(c) ==
    /\ calls[c].stage = "sent"
    /\ calls' = [calls EXCEPT ![c].stage = "lost"]
    /\ UNCHANGED <<client, pending>>

ClientCall(c) ==
    \/ Bootstrap(c) \/ Ingest(c) \/ Assemble(c) \/ AfterTurn(c) \/ Compact(c)
    \/ IngestBatch(c) \/ Retrieve(c) \/ Recall(c) \/ Forget(c) \/ PersistExchange(c) \/ Store(c) \/ ReportUsed(c)

Service(c) == ServiceStep(c) /\ UNCHANGED pending
Work == ProcessTask /\ UNCHANGED pending

PluginsNext ==
    \/ \E c \in CallIds : ClientCall(c) \/ Service(c) \/ AnswerArrives(c) \/ Rejected(c) \/ TimesOut(c) \/ Lost(c)
    \/ Dispose
    \/ Work

PluginsSpec == PluginsInit /\ [][PluginsNext]_pluginsVars
-----------------------------------------------------------------------------
\* What the messages are in the working memory when c left them there.
LeftBy(c, messages) == [i \in DOMAIN messages |-> [call |-> c, message |-> messages[i]]]

\* What c has left in the working memory, and what it has put on the way to the long-term memory.
Left == [i \in DOMAIN notes |-> [call |-> notes[i].call, message |-> notes[i].message]]
NotesOf(c) == Keep(Left, [call : {c}, message : Message])
TasksOf(c) == Keep(stored \o queue, [call : {c}, messages : Seq(Message)])

WorthKeeping(messages, persistLongTerm) ==
    Keep(messages, {message \in ToSet(messages) : Kept(message, persistLongTerm)})

Ingestions == {"write", "ingest", "after_turn", "bootstrap"}

\* A call leaves a beginning of its messages that are not blank in the working memory, once and
\* in order, whatever becomes of it; one that was answered left them all, wherever there is a
\* working memory, and put every message worth keeping in one task (http_handler.py:258 "accepted
\* means working-memory persistence").  One that failed half-way left no task: a client that
\* sends its messages again repeats them in the session, not in the long-term memory.
AnsweredIsKept ==
    \A c \in CallIds :
        LET sent == NotBlank(calls[c].request.messages)
            worth == WorthKeeping(sent, calls[c].request.op # "bootstrap")
        IN /\ IsPrefix(NotesOf(c), LeftBy(c, sent))
           /\ calls[c].stage # "answered" => TasksOf(c) = <<>>
           /\ (calls[c].stage = "answered" /\ calls[c].request.op \in Ingestions /\ memory \notin {"none", "absent"}) =>
                /\ NotesOf(c) = LeftBy(c, sent)
                /\ TasksOf(c) = IF memory = "orchestrated" /\ worth # <<>>
                                THEN <<[call |-> c, messages |-> worth]>> ELSE <<>>

\* Tokens of a conversation, as the truncation counts them.
Costs(messages) == Total([i \in DOMAIN messages |-> Cost(messages[i])])

\* The truncation keeps the longest end of the conversation that fits the limit.
TruncationKeepsTheEnd ==
    \A c \in CallIds : (calls[c].request.op = "compact" /\ memory = "absent" /\ calls[c].stage = "answered") =>
        LET sent == calls[c].request.messages
            end(n) == SubSeq(sent, Len(sent) - n + 1, Len(sent))
        IN /\ Costs(calls[c].todo) <= calls[c].request.limit
           /\ calls[c].todo = end(Len(calls[c].todo))
           /\ Len(calls[c].todo) < Len(sent) => Costs(end(Len(calls[c].todo) + 1)) > calls[c].request.limit

\* docs/openclaw-integration.md:179: assemble() answers with the ids of what it injected, so that
\* afterTurn() reports them.
ShownItemsAreNamed ==
    \A c \in CallIds : calls[c].request.op = "assemble" => calls[c].ids = calls[c].shown
=============================================================================
