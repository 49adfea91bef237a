--------------------------- MODULE WorkingMemory ----------------------------
(***************************************************************************)
(* core/memory/working_memory.py: the notes and the items of one session,  *)
(* in two Redis hashes or, without Redis, in two dicts of the process.     *)
(*                                                                         *)
(* With Redis every call of an operation suspends its coroutine, and other *)
(* coroutines (of this server or of another one) run in between.  Without  *)
(* Redis no await suspends, so an operation runs to its end.               *)
(*                                                                         *)
(* A note is its content, reduced to a text and the "_active_count" that   *)
(* mark_used() keeps in it, and its expires_at; an item is its             *)
(* active_count.  Ids are fresh uuids: each is created once.               *)
(***************************************************************************)
EXTENDS Integers, FiniteSets

CONSTANTS
    Clients,      \* coroutines that call the manager, one operation at a time each
    Notes,        \* note ids
    Items,        \* item ids
    Texts,        \* the contents update_note() writes
    FirstText,    \* the content of a new note
    MarkSets,     \* the lists of ids given to mark_used()
    MaxNotes,     \* max_notes_per_session
    UseRedis,     \* a redis_client was given
    MaxTime,      \* BOUND on the clock
    MaxMarks,     \* BOUND on the active counts
    NoNote, NoItem, Never

Ids == Notes \cup Items
Times == 0..MaxTime
Note == [text : Texts \cup {FirstText}, active : Nat, exp : Times \cup {Never}]

ASSUME WorkingMemoryAssumption ==
    /\ Notes \cap Items = {}
    /\ MarkSets \subseteq SUBSET Ids
    /\ FirstText \notin Texts
    /\ MaxNotes \in Nat \ {0} /\ MaxTime \in Nat /\ MaxMarks \in Nat
    /\ UseRedis \in BOOLEAN
    /\ Never \notin Times \cup Ids /\ NoNote \notin Note /\ NoItem \notin Nat

VARIABLES
    now,
    shared,     \* clients use the session at the same time; chosen at the start
    notes,      \* notes[n]: the hash of notes, NoNote for no field
    deadline,   \* when Redis drops the whole hash of notes, or Never
    items,      \* items[i]: the active_count of the item, NoItem for no field
    pc,         \* pc[c]: the call of the storage that c waits for
    arg,        \* arg[c]: the note or item the operation of c is about
    val,        \* val[c]: the note that c will write
    todo,       \* todo[c]: the ids mark_used() has yet to treat
    seenNotes,  \* seenNotes[c], seenItems[c]: what mark_used() listed
    seenItems,
    \* What happened, for the properties only:
    used,       \* ids that were ever created
    doomed,     \* doomed[c]: what existed when the clear_session() of c began
    gone,       \* what a delete_note() or clear_session() that returned removed
    marks,      \* marks[x]: how often mark_used() counted x
    texts,      \* texts[n]: the content last written to n
    clashed     \* ids that two operations were about at the same time

callVars == <<pc, arg, val, todo, seenNotes, seenItems>>
historyVars == <<used, doomed, gone, marks, texts>>
vars == <<now, shared, notes, deadline, items, callVars, historyVars, clashed>>

Present == {n \in Notes : notes[n] # NoNote} \cup {i \in Items : items[i] # NoItem}

\* list_notes() skips the notes whose expires_at is past.
Expired(note, t) == note.exp # Never /\ note.exp < t
Listed == {n \in Notes : notes[n] # NoNote /\ ~Expired(notes[n], now)}

Init ==
    /\ now = 0
    /\ shared \in BOOLEAN
    /\ notes = [n \in Notes |-> NoNote]
    /\ deadline = Never
    /\ items = [i \in Items |-> NoItem]
    /\ pc = [c \in Clients |-> "idle"]
    /\ arg = [c \in Clients |-> Never]
    /\ val = [c \in Clients |-> NoNote]
    /\ todo = [c \in Clients |-> {}]
    /\ seenNotes = [c \in Clients |-> [n \in Notes |-> NoNote]]
    /\ seenItems = [c \in Clients |-> [i \in Items |-> NoItem]]
    /\ used = {} /\ gone = {}
    /\ doomed = [c \in Clients |-> {}]
    /\ marks = [x \in Ids |-> 0]
    /\ texts = [n \in Notes |-> FirstText]
    /\ clashed = {}

-----------------------------------------------------------------------------
(* The storage.                                                            *)

\* Without Redis nobody else runs in the middle of an operation, and neither does
\* anybody in a session whose clients take turns.
Sequential == ~(UseRedis /\ shared)
MayRun(c) == Sequential => \A d \in Clients \ {c} : pc[d] = "idle"

\* A Redis hash that loses its last field is deleted, and its deadline with it.
StoreNotes(new) ==
    /\ notes' = new
    /\ deadline' = IF \A n \in Notes : new[n] = NoNote THEN Never ELSE deadline

\* The clock, and Redis dropping the hash of notes at its deadline.
Tick ==
    /\ now < MaxTime
    /\ UseRedis \/ \A c \in Clients : pc[c] = "idle"
    /\ now' = now + 1
    /\ IF deadline # Never /\ deadline <= now'
       THEN StoreNotes([n \in Notes |-> NoNote])
       ELSE UNCHANGED <<notes, deadline>>
    /\ UNCHANGED <<items, callVars, historyVars>>

\* The operation of c returns or raises: its local variables are gone.
Ends(c) ==
    /\ pc' = [pc EXCEPT ![c] = "idle"]
    /\ arg' = [arg EXCEPT ![c] = Never]
    /\ val' = [val EXCEPT ![c] = NoNote]
    /\ todo' = [todo EXCEPT ![c] = {}]
    /\ seenNotes' = [seenNotes EXCEPT ![c] = [n \in Notes |-> NoNote]]
    /\ seenItems' = [seenItems EXCEPT ![c] = [i \in Items |-> NoItem]]

Waits(c, where) == pc' = [pc EXCEPT ![c] = where]

At(c, where) == pc[c] = where /\ MayRun(c)

\* A Redis call raises: the operation raises a ContextAgentError.  A call that took
\* effect before it raised is its step and a failure of the next call.
CallFails(c) ==
    /\ UseRedis
    /\ pc[c] # "idle"
    /\ Ends(c)
    /\ doomed' = [doomed EXCEPT ![c] = {}]
    /\ UNCHANGED <<now, notes, deadline, items, used, gone, marks, texts>>

-----------------------------------------------------------------------------
(* create_note()                                                           *)

BeginCreate(c, n, exp) ==
    /\ At(c, "idle")
    /\ n \notin used
    /\ used' = used \cup {n}
    /\ arg' = [arg EXCEPT ![c] = n]
    /\ val' = [val EXCEPT ![c] = [text |-> FirstText, active |-> 0, exp |-> exp]]
    /\ Waits(c, "create_list")
    /\ UNCHANGED <<now, notes, deadline, items, todo, seenNotes, seenItems,
                   doomed, gone, marks, texts>>

\* Mutant: the limit is checked after one note too many.
CreateList_OffByOne(c) ==
    /\ At(c, "create_list")
    /\ IF Cardinality(Listed) > MaxNotes
       THEN Ends(c)
       ELSE Waits(c, "create_put") /\ UNCHANGED <<arg, val, todo, seenNotes, seenItems>>
    /\ UNCHANGED <<now, notes, deadline, items, historyVars>>

CreateList(c) ==
    /\ At(c, "create_list")
    /\ IF Cardinality(Listed) >= MaxNotes
       THEN Ends(c)
       ELSE Waits(c, "create_put") /\ UNCHANGED <<arg, val, todo, seenNotes, seenItems>>
    /\ UNCHANGED <<now, notes, deadline, items, historyVars>>

CreatePut(c) ==
    /\ At(c, "create_put")
    /\ StoreNotes([notes EXCEPT ![arg[c]] = val[c]])
    /\ IF UseRedis /\ val[c].exp # Never
       THEN Waits(c, "create_expire") /\ UNCHANGED <<arg, val, todo, seenNotes, seenItems>>
       ELSE Ends(c)
    /\ UNCHANGED <<now, items, historyVars>>

\* EXPIRE is about the key, that is about all the notes of the session.
CreateExpire(c) ==
    /\ At(c, "create_expire")
    /\ deadline' = IF val[c].exp > now /\ \E n \in Notes : notes[n] # NoNote
                   THEN val[c].exp ELSE deadline
    /\ Ends(c)
    /\ UNCHANGED <<now, notes, items, historyVars>>

-----------------------------------------------------------------------------
(* get_note() then hset: update_note(), also called by mark_used().        *)

BeginUpdate(c, n, text) ==
    /\ At(c, "idle")
    /\ n \in used
    /\ arg' = [arg EXCEPT ![c] = n]
    /\ val' = [val EXCEPT ![c] = [text |-> text, active |-> 0, exp |-> Never]]
    /\ Waits(c, "update_get")
    /\ UNCHANGED <<now, notes, deadline, items, todo, seenNotes, seenItems, historyVars>>

UpdateGet(c) ==
    /\ At(c, "update_get")
    /\ IF notes[arg[c]] = NoNote
       THEN Ends(c)
       ELSE /\ val' = [val EXCEPT ![c] = [notes[arg[c]] EXCEPT !.text = val[c].text]]
            /\ Waits(c, "update_put")
            /\ UNCHANGED <<arg, todo, seenNotes, seenItems>>
    /\ UNCHANGED <<now, notes, deadline, items, historyVars>>

UpdatePut(c) ==
    /\ At(c, "update_put")
    /\ StoreNotes([notes EXCEPT ![arg[c]] = val[c]])
    /\ texts' = [texts EXCEPT ![arg[c]] = val[c].text]
    /\ Ends(c)
    /\ UNCHANGED <<now, items, used, doomed, gone, marks>>

-----------------------------------------------------------------------------
(* delete_note(), clear_session(), write()                                 *)

BeginDelete(c, n) ==
    /\ At(c, "idle")
    /\ n \in used
    /\ arg' = [arg EXCEPT ![c] = n]
    /\ Waits(c, "delete")
    /\ UNCHANGED <<now, notes, deadline, items, val, todo, seenNotes, seenItems, historyVars>>

Delete(c) ==
    /\ At(c, "delete")
    /\ gone' = IF notes[arg[c]] = NoNote THEN gone ELSE gone \cup {arg[c]}
    /\ StoreNotes([notes EXCEPT ![arg[c]] = NoNote])
    /\ Ends(c)
    /\ UNCHANGED <<now, items, used, doomed, marks, texts>>

BeginClear(c) ==
    /\ At(c, "idle")
    /\ doomed' = [doomed EXCEPT ![c] = Present]
    /\ Waits(c, "clear_notes")
    /\ UNCHANGED <<now, notes, deadline, items, arg, val, todo, seenNotes, seenItems,
                   used, gone, marks, texts>>

ClearNotes(c) ==
    /\ At(c, "clear_notes")
    /\ StoreNotes([n \in Notes |-> NoNote])
    /\ Waits(c, "clear_items")
    /\ UNCHANGED <<now, items, arg, val, todo, seenNotes, seenItems, historyVars>>

\* Mutant: the items of the session are forgotten.
ClearItems_Keep(c) ==
    /\ At(c, "clear_items")
    /\ gone' = gone \cup doomed[c]
    /\ doomed' = [doomed EXCEPT ![c] = {}]
    /\ Ends(c)
    /\ UNCHANGED <<now, notes, deadline, items, used, marks, texts>>

ClearItems(c) ==
    /\ At(c, "clear_items")
    /\ items' = [i \in Items |-> NoItem]
    /\ gone' = gone \cup doomed[c]
    /\ doomed' = [doomed EXCEPT ![c] = {}]
    /\ Ends(c)
    /\ UNCHANGED <<now, notes, deadline, used, marks, texts>>

BeginWrite(c, i) ==
    /\ At(c, "idle")
    /\ i \notin used
    /\ used' = used \cup {i}
    /\ arg' = [arg EXCEPT ![c] = i]
    /\ Waits(c, "write")
    /\ UNCHANGED <<now, notes, deadline, items, val, todo, seenNotes, seenItems,
                   doomed, gone, marks, texts>>

Write(c) ==
    /\ At(c, "write")
    /\ items' = [items EXCEPT ![arg[c]] = 0]
    /\ Ends(c)
    /\ UNCHANGED <<now, notes, deadline, historyVars>>

-----------------------------------------------------------------------------
(* mark_used()                                                             *)

BeginMark(c, ids) ==
    /\ At(c, "idle")
    /\ ids # {}
    /\ \A x \in ids : marks[x] < MaxMarks
    /\ todo' = [todo EXCEPT ![c] = ids]
    /\ Waits(c, "mark_items")
    /\ UNCHANGED <<now, notes, deadline, items, arg, val, seenNotes, seenItems, historyVars>>

MarkListItems(c) ==
    /\ At(c, "mark_items")
    /\ seenItems' = [seenItems EXCEPT ![c] = items]
    /\ Waits(c, "mark_item_put")
    /\ UNCHANGED <<now, notes, deadline, items, arg, val, todo, seenNotes, historyVars>>

\* Mutant: all the listed items are written back with the one that is marked.
MarkItemPut_WholeHash(c) ==
    /\ At(c, "mark_item_put")
    /\ \E i \in todo[c] \cap Items :
          /\ seenItems[c][i] # NoItem
          /\ seenItems[c][i] < MaxMarks
          /\ items' = [seenItems[c] EXCEPT ![i] = @ + 1]
          /\ marks' = [marks EXCEPT ![i] = @ + 1]
          /\ todo' = [todo EXCEPT ![c] = @ \ {i}]
    /\ UNCHANGED <<now, notes, deadline, pc, arg, val, seenNotes, seenItems,
                   used, doomed, gone, texts>>

\* One listed item after the other is written back with its count plus one.
MarkItemPut(c) ==
    /\ At(c, "mark_item_put")
    /\ \E i \in todo[c] \cap Items :
          /\ seenItems[c][i] # NoItem
          /\ seenItems[c][i] < MaxMarks
          /\ items' = [items EXCEPT ![i] = seenItems[c][i] + 1]
          /\ marks' = [marks EXCEPT ![i] = @ + 1]
          /\ todo' = [todo EXCEPT ![c] = @ \ {i}]
    /\ UNCHANGED <<now, notes, deadline, pc, arg, val, seenNotes, seenItems,
                   used, doomed, gone, texts>>

\* No listed item is left: the notes are listed, the expired ones left out.
MarkListNotes(c) ==
    /\ At(c, "mark_item_put")
    /\ \A i \in todo[c] \cap Items : seenItems[c][i] = NoItem
    /\ seenNotes' = [seenNotes EXCEPT ![c] = [n \in Notes |->
                        IF n \in Listed THEN notes[n] ELSE NoNote]]
    /\ Waits(c, "mark_note")
    /\ UNCHANGED <<now, notes, deadline, items, arg, val, todo, seenItems, historyVars>>

\* update_note() reads the note again, raising if it is gone; the count it
\* writes is the listed one plus one.
MarkNoteGet(c) ==
    /\ At(c, "mark_note")
    /\ \E n \in todo[c] \cap Notes :
          /\ seenNotes[c][n] # NoNote
          /\ seenNotes[c][n].active < MaxMarks
          /\ IF notes[n] = NoNote
             THEN Ends(c)
             ELSE /\ arg' = [arg EXCEPT ![c] = n]
                  /\ val' = [val EXCEPT ![c] =
                                [notes[n] EXCEPT !.active = seenNotes[c][n].active + 1]]
                  /\ todo' = [todo EXCEPT ![c] = @ \ {n}]
                  /\ Waits(c, "mark_note_put")
                  /\ UNCHANGED <<seenNotes, seenItems>>
    /\ UNCHANGED <<now, notes, deadline, items, historyVars>>

MarkNotePut(c) ==
    /\ At(c, "mark_note_put")
    /\ StoreNotes([notes EXCEPT ![arg[c]] = val[c]])
    /\ marks' = [marks EXCEPT ![arg[c]] = @ + 1]
    /\ texts' = [texts EXCEPT ![arg[c]] = val[c].text]
    /\ arg' = [arg EXCEPT ![c] = Never]
    /\ val' = [val EXCEPT ![c] = NoNote]
    /\ Waits(c, "mark_note")
    /\ UNCHANGED <<now, items, todo, seenNotes, seenItems, used, doomed, gone>>

MarkEnds(c) ==
    /\ At(c, "mark_note")
    /\ \A n \in todo[c] \cap Notes : seenNotes[c][n] = NoNote
    /\ Ends(c)
    /\ UNCHANGED <<now, notes, deadline, items, historyVars>>

-----------------------------------------------------------------------------
\* The ids the operation of c is about and has not done with.
Pending(c) == IF pc[c] \in {"clear_notes", "clear_items"} THEN Ids
              ELSE todo[c] \cup ({arg[c]} \cap Ids)

Begin(c) ==
    /\ \/ \E n \in Notes, exp \in ((now + 1)..MaxTime) \cup {Never} : BeginCreate(c, n, exp)
       \/ \E n \in Notes, text \in Texts : BeginUpdate(c, n, text)
       \/ \E n \in Notes : BeginDelete(c, n)
       \/ BeginClear(c)
       \/ \E i \in Items : BeginWrite(c, i)
       \/ \E ids \in MarkSets : BeginMark(c, ids)
    /\ clashed' = clashed \cup UNION {Pending(c)' \cap Pending(d) : d \in Clients \ {c}}

Continue(c) ==
    \/ CreateList(c) \/ CreatePut(c) \/ CreateExpire(c)
    \/ UpdateGet(c) \/ UpdatePut(c)
    \/ Delete(c) \/ ClearNotes(c) \/ ClearItems(c) \/ Write(c)
    \/ MarkListItems(c) \/ MarkItemPut(c) \/ MarkListNotes(c)
    \/ MarkNoteGet(c) \/ MarkNotePut(c) \/ MarkEnds(c)

Next ==
    /\ \/ \E c \in Clients : Begin(c)
       \/ (Tick \/ \E c \in Clients : Continue(c) \/ CallFails(c)) /\ UNCHANGED clashed
    /\ UNCHANGED shared

Spec == Init /\ [][Next]_vars

-----------------------------------------------------------------------------
(* Properties.                                                             *)

\* docs/agent-integration-guide.md:205: max_notes_per_session bounds the notes of
\* a session (create_note() counts those that are not expired).  It does as long as
\* operations take turns, whatever Redis drops, refuses or does before it raises;
\* create_note() that overlaps with another one, or with an update, may exceed it.
NoteLimit == Sequential => Cardinality(Listed) <= MaxNotes

\* The docstrings of clear_session(), "Remove all notes for a session (called on
\* session end)", and of delete_note(): what they removed does not come back, through
\* no operation that was reading, marking or writing other ids meanwhile, unless two
\* operations were about the same id at the same time.
RemovedStaysRemoved == gone \cap Present \subseteq clashed

\* Whichever operations of the session overlap and whatever Redis refuses: unless two
\* operations were about the same id at the same time, no mark and no update of it is
\* lost, and a mark does not undo an update.
NoMarkOrUpdateLost ==
    /\ \A i \in Items \ clashed : items[i] # NoItem => items[i] = marks[i]
    /\ \A n \in Notes \ clashed : notes[n] # NoNote =>
           notes[n].active = marks[n] /\ notes[n].text = texts[n]
=============================================================================
