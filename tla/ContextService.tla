--------------------------- MODULE ContextService ---------------------------
(***************************************************************************)
(* The HTTP service: api/http_handler.py (/context, /context/write,        *)
(* /context/used) and the bridge api/openclaw_handler.py (bootstrap,       *)
(* ingest, assemble, compact, after-turn) over the ingestion of            *)
(* MessageIngestion.  A request that was sent is received in any order.    *)
(* What retrieval and compression return is nondeterministic here;         *)
(* ContextRequests models them.                                            *)
(***************************************************************************)
EXTENDS MessageIngestion

\* A handler takes the request of c, which is then at `next`.
Received(c, op, next) ==
    /\ calls[c].stage = "sent" /\ calls[c].request.op = op
    /\ calls' = [calls EXCEPT ![c] = next]

Answer(call) == [call EXCEPT !.stage = "answered"]
Failed(call) == [call EXCEPT !.stage = "failed"]

\* _write_context(): 503 without a router.
ReceiveWrite(c) ==
    /\ Received(c, "write", IF memory = "absent" THEN Failed(calls[c])
                            ELSE Ingesting(calls[c], calls[c].request.messages, TRUE))
    /\ UNCHANGED <<memory, notes, queue, stored>>

\* WriteResponse.status: nothing stored is called ignored.
WriteStatus(call) == IF call.count > 0 THEN "accepted" ELSE "ignored"

\* report_used_context()
ReceiveUsed(c) ==
    /\ Received(c, "used", IF memory = "absent" THEN Failed(calls[c]) ELSE Answer(calls[c]))
    /\ notes' = IF memory = "absent" THEN notes ELSE Credited(calls[c].request.ids)
    /\ UNCHANGED <<memory, queue, stored>>

\* What handle() may return: the notes of the session or none of them, or an exception.
Retrievals == {[raised |-> FALSE, items |-> {}], [raised |-> FALSE, items |-> DOMAIN notes],
               [raised |-> TRUE, items |-> {}]}

\* retrieve_context(): what handle() returned, or 500.
ReceiveContext(c) ==
    /\ \E found \in Retrievals :
          \E op \in {"context", "recall"} :
             Received(c, op, IF memory = "absent" \/ found.raised THEN Failed(calls[c])
                             ELSE [Answer(calls[c]) EXCEPT !.shown = found.items])
    /\ UNCHANGED <<memory, notes, queue, stored>>

\* The service has no /context/delete: 404.
ReceiveDelete(c) == Received(c, "delete", Failed(calls[c])) /\ UNCHANGED <<memory, notes, queue, stored>>

\* bootstrap(): the session file goes to the working memory only.
ReceiveBootstrap(c) ==
    /\ Received(c, "bootstrap",
           IF memory = "absent" THEN Answer(calls[c])
           ELSE Ingesting(calls[c], calls[c].request.messages, FALSE))
    /\ UNCHANGED <<memory, notes, queue, stored>>

ReceiveIngest(c) ==
    /\ Received(c, "ingest",
           IF memory = "absent" THEN Answer(calls[c])
           ELSE Ingesting(calls[c], calls[c].request.messages, TRUE))
    /\ UNCHANGED <<memory, notes, queue, stored>>

\* The metadata of the outputs of the strategies names the strategies, never the items.
OutputMetadata == {"attempted_strategies"}

\* The ids an assemble answer carries: metadata.get("item_ids", []).
AssembledIds(items) == IF "item_ids" \in OutputMetadata THEN items ELSE {}

\* assemble(): no router, no user message and an exception all answer with nothing added.
ReceiveAssemble(c) ==
    LET asked(m) == m.role = "user" /\ ~m.blank
        query == SelectSeq(calls[c].request.messages, asked) # <<>>
    IN /\ \E found \in Retrievals :
             Received(c, "assemble",
                 IF memory = "absent" \/ ~query \/ found.raised THEN Answer(calls[c])
                 ELSE [Answer(calls[c]) EXCEPT !.shown = found.items, !.ids = AssembledIds(found.items)])
       /\ UNCHANGED <<memory, notes, queue, stored>>

\* Tokens of a message in the truncation: four more than a quarter of its length.
Cost(message) == message.len \div 4 + 4

\* MUTANT: a message that does not fit is passed over.
TruncateToBudget_Skips(messages, limit) ==
    LET newest(n) == messages[Len(messages) - n + 1]
        taken[n \in 0..Len(messages)] ==
            IF n = 0 THEN [budget |-> limit, kept |-> <<>>]
            ELSE LET last == taken[n - 1]
                 IN IF last.budget < Cost(newest(n)) THEN last
                    ELSE [budget |-> last.budget - Cost(newest(n)), kept |-> <<newest(n)>> \o last.kept]
    IN taken[Len(messages)].kept

\* _truncate_to_budget(): from the newest backwards until one does not fit.
TruncateToBudget(messages, limit) ==
    LET newest(n) == messages[Len(messages) - n + 1]
        taken[n \in 0..Len(messages)] ==
            IF n = 0 THEN [over |-> FALSE, budget |-> limit, kept |-> <<>>]
            ELSE LET last == taken[n - 1]
                 IN IF last.over \/ last.budget < Cost(newest(n)) THEN [last EXCEPT !.over = TRUE]
                    ELSE [over |-> FALSE, budget |-> last.budget - Cost(newest(n)),
                          kept |-> <<newest(n)>> \o last.kept]
    IN taken[Len(messages)].kept

\* compact(): the truncation stands in for a router that is missing or that raises.
ReceiveCompact(c) ==
    LET request == calls[c].request
        truncated == [Answer(calls[c]) EXCEPT !.todo = TruncateToBudget(request.messages, request.limit)]
    IN /\ \E raised \in BOOLEAN :
             Received(c, "compact", IF memory = "absent" \/ raised THEN truncated ELSE Answer(calls[c]))
       /\ UNCHANGED <<memory, notes, queue, stored>>

\* after_turn(): the uses are counted, then the reply is ingested.
ReceiveAfterTurn(c) ==
    LET request == calls[c].request
    IN /\ Received(c, "after_turn",
              IF memory = "absent" \/ NotBlank(request.messages) = <<>> THEN Answer(calls[c])
              ELSE Ingesting(calls[c], request.messages, TRUE))
       /\ notes' = IF memory = "absent" THEN notes ELSE Credited(request.ids)
       /\ UNCHANGED <<memory, queue, stored>>

Receive(c) ==
    \/ ReceiveWrite(c) \/ ReceiveUsed(c) \/ ReceiveContext(c) \/ ReceiveDelete(c)
    \/ ReceiveBootstrap(c) \/ ReceiveIngest(c) \/ ReceiveAssemble(c)
    \/ ReceiveCompact(c) \/ ReceiveAfterTurn(c)

ServiceStep(c) == Receive(c) \/ IngestionStep(c)
=============================================================================
