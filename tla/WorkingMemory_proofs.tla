------------------------ MODULE WorkingMemory_proofs ------------------------
(***************************************************************************)
(* For every set of clients, of notes and of items, every limit, and with  *)
(* calls of Redis that fail at any point: the operations on one note or    *)
(* item do not disturb the others, however they overlap.                   *)
(*                                                                         *)
(* The limit of the notes, and that what was removed does not come back,   *)
(* hold while the operations of a session run one at a time.  Without      *)
(* Redis they always do: no await of the manager suspends.  With Redis     *)
(* they do when one client has the session for itself.                     *)
(***************************************************************************)
EXTENDS WorkingMemory, FiniteSetTheorems, TLAPS

Places == {"idle", "create_list", "create_put", "create_expire", "update_get", "update_put",
           "delete", "clear_notes", "clear_items", "write",
           "mark_items", "mark_item_put", "mark_note", "mark_note_put"}

Types ==
    /\ now \in Times
    /\ notes \in [Notes -> Note \cup {NoNote}]
    /\ deadline \in Times \cup {Never}
    /\ items \in [Items -> Nat \cup {NoItem}]
    /\ pc \in [Clients -> Places]
    /\ arg \in [Clients -> Ids \cup {Never}]
    /\ val \in [Clients -> Note \cup {NoNote}]
    /\ todo \in [Clients -> SUBSET Ids]
    /\ seenNotes \in [Clients -> [Notes -> Note \cup {NoNote}]]
    /\ seenItems \in [Clients -> [Items -> Nat \cup {NoItem}]]
    /\ used \subseteq Ids /\ gone \subseteq Ids /\ clashed \subseteq Ids
    /\ doomed \in [Clients -> SUBSET Ids]
    /\ marks \in [Ids -> Nat]
    /\ texts \in [Notes -> Texts \cup {FirstText}]

\* What the histories say of the ids.
Records ==
    /\ Present \subseteq used /\ gone \subseteq used
    /\ \A c \in Clients : doomed[c] \subseteq used
    /\ \A x \in Ids \ used : marks[x] = 0
    /\ \A n \in Notes \ used : texts[n] = FirstText

\* Two operations are about the same id only if it clashed.
Exclusive == \A c, d \in Clients : c # d => Pending(c) \cap Pending(d) \subseteq clashed

\* What the operation of c has in its variables, whatever the others do.
Holds(c) ==
    /\ pc[c] = "idle" => todo[c] = {} /\ arg[c] = Never
    /\ pc[c] \in {"create_list", "create_put", "create_expire",
                  "update_get", "update_put", "mark_note_put"} =>
          arg[c] \in Notes /\ arg[c] \in used /\ val[c] \in Note
    /\ pc[c] \in {"create_list", "create_put"} => val[c].text = FirstText /\ val[c].active = 0
    /\ pc[c] = "delete" => arg[c] \in Notes
    /\ pc[c] = "write" => arg[c] \in Items /\ arg[c] \in used
    /\ pc[c] = "mark_item_put" => \A i \in Items : seenItems[c][i] # NoItem => i \in used
    /\ pc[c] = "mark_note_put" => arg[c] \notin todo[c]

\* What the operation of c has read of an id that did not clash is still so.
Intact(c) ==
    /\ pc[c] \in {"create_list", "create_put", "write"} /\ arg[c] \notin clashed =>
          arg[c] \notin gone /\ marks[arg[c]] = 0
    /\ pc[c] \in {"create_list", "create_put"} /\ arg[c] \notin clashed =>
          texts[arg[c]] = FirstText
    /\ pc[c] = "update_put" /\ arg[c] \notin clashed =>
          arg[c] \notin gone /\ val[c].active = marks[arg[c]]
    /\ pc[c] = "clear_items" => \A n \in Notes \ clashed : notes[n] = NoNote
    /\ pc[c] = "mark_item_put" =>
          \A i \in (todo[c] \cap Items) \ clashed : seenItems[c][i] = items[i]
    /\ pc[c] \in {"mark_note", "mark_note_put"} =>
          \A n \in (todo[c] \cap Notes) \ clashed :
              seenNotes[c][n] # NoNote => seenNotes[c][n].active = marks[n]
    /\ pc[c] = "mark_note_put" /\ arg[c] \notin clashed =>
          /\ arg[c] \notin gone
          /\ val[c].active = marks[arg[c]] + 1 /\ val[c].text = texts[arg[c]]

\* RemovedStaysRemoved and NoMarkOrUpdateLost in one.
OnlyClashesLose ==
    /\ gone \cap Present \subseteq clashed
    /\ \A i \in Items \ clashed : items[i] # NoItem => items[i] = marks[i]
    /\ \A n \in Notes \ clashed : notes[n] # NoNote =>
           notes[n].active = marks[n] /\ notes[n].text = texts[n]

Inv ==
    /\ Types /\ Records /\ Exclusive /\ OnlyClashesLose
    /\ \A c \in Clients : Holds(c) /\ Intact(c)

\* The two, id by id.
Sound(x) ==
    /\ x \notin gone \cap Present
    /\ x \in Items => (items[x] # NoItem => items[x] = marks[x])
    /\ x \in Notes => (notes[x] # NoNote => notes[x].active = marks[x] /\ notes[x].text = texts[x])

\* A step of c leaves the variables of the other operations alone ...
OthersWait(c) ==
    \A d \in Clients \ {c} :
        /\ pc'[d] = pc[d] /\ arg'[d] = arg[d] /\ val'[d] = val[d]
        /\ todo'[d] = todo[d] /\ seenNotes'[d] = seenNotes[d] /\ seenItems'[d] = seenItems[d]

\* ... and stores nothing but what its operation is about.
StoresItsOwn(c) ==
    /\ gone \subseteq gone' /\ gone' \subseteq gone \cup Pending(c)
    /\ \A x \in Ids \ Pending(c) : marks'[x] = marks[x]
    /\ \A n \in Notes \ Pending(c) : texts'[n] = texts[n] /\ notes'[n] = notes[n]
    /\ \A i \in Items \ Pending(c) : items'[i] = items[i]

USE WorkingMemoryAssumption

-----------------------------------------------------------------------------
(* The operations that do not move.                                        *)

LEMMA SoundIdById ==
    ASSUME Types
    PROVE  OnlyClashesLose <=> \A x \in Ids \ clashed : Sound(x)
  BY DEF Types, OnlyClashesLose, Sound, Ids, Present

LEMMA OthersKeep ==
    ASSUME Inv, NEW c \in Clients, OthersWait(c), StoresItsOwn(c),
           used \subseteq used', clashed \subseteq clashed', NEW d \in Clients, d # c
    PROVE  Holds(d)' /\ Intact(d)' /\ Pending(d)' = Pending(d)
  <1>1. /\ pc'[d] = pc[d] /\ arg'[d] = arg[d] /\ val'[d] = val[d]
        /\ todo'[d] = todo[d] /\ seenNotes'[d] = seenNotes[d] /\ seenItems'[d] = seenItems[d]
    BY DEF OthersWait
  <1>2. Pending(d)' = Pending(d)
    BY <1>1 DEF Pending
  <1>3. Holds(d) /\ Intact(d)
    BY DEF Inv
  <1>4. Holds(d)'
    BY <1>1, <1>3 DEF Holds
  <1>5. ASSUME NEW x \in Pending(d), x \notin clashed', x \in Ids
        PROVE  /\ marks'[x] = marks[x] /\ (x \notin gone => x \notin gone')
               /\ x \in Notes => texts'[x] = texts[x] /\ notes'[x] = notes[x]
               /\ x \in Items => items'[x] = items[x]
    <2>1. x \notin Pending(c)
      BY <1>5 DEF Inv, Exclusive
    <2> QED BY <1>5, <2>1 DEF StoresItsOwn
  <1>6. /\ \A x \in todo[d] : x \in Pending(d) /\ x \in Ids
        /\ arg[d] \in Ids => arg[d] \in Pending(d)
        /\ pc[d] = "clear_items" => Pending(d) = Ids
    BY DEF Inv, Types, Pending
  <1>7. CASE pc[d] \in {"create_list", "create_put", "write", "update_put"}
    <2>1. arg[d] \in Ids /\ (pc[d] # "write" => arg[d] \in Notes)
      BY <1>3, <1>7 DEF Holds, Ids
    <2> QED BY <1>1, <1>3, <1>5, <1>6, <1>7, <2>1, <1>4, <1>2 DEF Intact
  <1>8. CASE pc[d] = "clear_items"
    BY <1>1, <1>2, <1>3, <1>4, <1>5, <1>6, <1>8 DEF Intact, Ids
  <1>9. CASE pc[d] = "mark_item_put"
    BY <1>1, <1>2, <1>3, <1>4, <1>5, <1>6, <1>9 DEF Intact
  <1>10. CASE pc[d] \in {"mark_note", "mark_note_put"}
    <2>1. \A n \in (todo[d] \cap Notes) \ clashed' :
             seenNotes'[d][n] # NoNote => seenNotes'[d][n].active = marks'[n]
      BY <1>1, <1>3, <1>5, <1>6, <1>10 DEF Intact
    <2>2. ASSUME pc[d] = "mark_note_put", arg[d] \notin clashed'
          PROVE  arg[d] \notin gone' /\ val'[d].active = marks'[arg[d]] + 1
                 /\ val'[d].text = texts'[arg[d]]
      <3>1. arg[d] \in Ids /\ arg[d] \in Notes
        BY <1>3, <2>2 DEF Holds, Ids
      <3> QED BY <1>1, <1>3, <1>5, <1>6, <2>2, <3>1 DEF Intact
    <2> QED BY <1>1, <1>2, <1>4, <1>10, <2>1, <2>2 DEF Intact
  <1>11. CASE pc[d] \notin {"create_list", "create_put", "write", "update_put", "clear_items",
                            "mark_item_put", "mark_note", "mark_note_put"}
    BY <1>1, <1>2, <1>4, <1>11 DEF Intact
  <1> QED BY <1>7, <1>8, <1>9, <1>10, <1>11

\* It is enough to look at c and at the ids its operation is about.
LEMMA StepKeeps ==
    ASSUME Inv, NEW c \in Clients, OthersWait(c), StoresItsOwn(c), Types', Records',
           used \subseteq used', Holds(c)', Intact(c)',
           clashed' = clashed, Pending(c)' \subseteq Pending(c),
           \A x \in Pending(c) \ clashed : Sound(x)'
    PROVE  Inv'
  <1>1. \A d \in Clients : Holds(d)' /\ Intact(d)'
    BY OthersKeep
  <1>2. Exclusive'
    <2>1. \A d \in Clients : Pending(d)' \subseteq Pending(d)
      BY OthersKeep
    <2> QED BY <2>1 DEF Inv, Exclusive
  <1>3. ASSUME NEW x \in Ids \ clashed, x \notin Pending(c)
        PROVE  Sound(x)'
    <2>1. Sound(x)
      BY SoundIdById DEF Inv
    <2> QED BY <1>3, <2>1 DEF StoresItsOwn, Sound, Present, Ids
  <1>4. OnlyClashesLose'
    <2>1. \A x \in Ids \ clashed' : Sound(x)'
      BY <1>3
    <2> QED BY <2>1 DEF Types, OnlyClashesLose, Sound, Ids, Present
  <1> QED BY <1>1, <1>2, <1>4 DEF Inv

\* A step of c that stores nothing.
LEMMA CalmKeeps ==
    ASSUME Inv, NEW c \in Clients, OthersWait(c), Types',
           UNCHANGED <<notes, items, used, gone, marks, texts, clashed>>,
           \A d \in Clients : doomed'[d] \subseteq used,
           Holds(c)', Intact(c)', Pending(c)' \subseteq Pending(c)
    PROVE  Inv'
  <1>1. Present' = Present
    BY DEF Present
  <1>2. StoresItsOwn(c)
    BY DEF StoresItsOwn
  <1>3. Records'
    BY <1>1 DEF Inv, Records
  <1>4. ASSUME NEW x \in Pending(c) \ clashed PROVE Sound(x)'
    <2>1. x \in Ids
      BY DEF Inv, Types, Pending
    <2>2. Sound(x)
      BY <2>1, SoundIdById DEF Inv
    <2> QED BY <1>1, <2>2 DEF Sound
  <1> QED BY <1>2, <1>3, <1>4, StepKeeps

\* The operation of c is over: nothing is asked of its variables.
LEMMA EndsIsFine ==
    ASSUME Types, NEW c \in Clients, Ends(c)
    PROVE  /\ pc' \in [Clients -> Places] /\ arg' \in [Clients -> Ids \cup {Never}]
           /\ val' \in [Clients -> Note \cup {NoNote}] /\ todo' \in [Clients -> SUBSET Ids]
           /\ seenNotes' \in [Clients -> [Notes -> Note \cup {NoNote}]]
           /\ seenItems' \in [Clients -> [Items -> Nat \cup {NoItem}]]
           /\ OthersWait(c) /\ Holds(c)' /\ Intact(c)' /\ Pending(c)' = {}
  <1>1. pc' \in [Clients -> Places] /\ arg' \in [Clients -> Ids \cup {Never}]
        /\ pc'[c] = "idle" /\ arg'[c] = Never /\ todo'[c] = {}
    BY DEF Types, Ends, Places
  <1>2. val' \in [Clients -> Note \cup {NoNote}] /\ todo' \in [Clients -> SUBSET Ids]
    BY DEF Types, Ends
  <1>3. seenNotes' \in [Clients -> [Notes -> Note \cup {NoNote}]]
        /\ seenItems' \in [Clients -> [Items -> Nat \cup {NoItem}]]
    BY DEF Types, Ends
  <1>4. OthersWait(c)
    BY DEF Types, Ends, OthersWait
  <1>5. Holds(c)' /\ Intact(c)' /\ Pending(c)' = {}
    BY <1>1 DEF Holds, Intact, Pending
  <1> QED BY <1>1, <1>2, <1>3, <1>4, <1>5

\* It returns or raises without having stored anything now.
LEMMA CalmEnd ==
    ASSUME Inv, NEW c \in Clients, Ends(c), now' = now, deadline' \in Times \cup {Never},
           UNCHANGED <<notes, items, used, gone, marks, texts, clashed>>,
           doomed' = doomed \/ doomed' = [doomed EXCEPT ![c] = {}]
    PROVE  Inv'
  <1>1. doomed' \in [Clients -> SUBSET Ids] /\ \A d \in Clients : doomed'[d] \subseteq used
    <2>1. CASE doomed' = doomed
      BY <2>1 DEF Inv, Types, Records
    <2>2. CASE doomed' = [doomed EXCEPT ![c] = {}]
      BY <2>2 DEF Inv, Types, Records
    <2> QED BY <2>1, <2>2
  <1>2. Types'
    BY <1>1, EndsIsFine DEF Inv, Types
  <1> QED BY <1>1, <1>2, EndsIsFine, CalmKeeps DEF Inv

-----------------------------------------------------------------------------
(* An operation begins.                                                    *)

LEMMA BeginKeeps ==
    ASSUME Inv, NEW c \in Clients, OthersWait(c), Types',
           UNCHANGED <<notes, items, gone, marks, texts>>, used \subseteq used',
           \A d \in Clients : doomed'[d] \subseteq used', Holds(c)', Intact(c)',
           clashed' = clashed \cup UNION {Pending(c)' \cap Pending(d) : d \in Clients \ {c}}
    PROVE  Inv'
  <1>1. StoresItsOwn(c) /\ Present' = Present
    BY DEF StoresItsOwn, Present
  <1>2. \A d \in Clients : Holds(d)' /\ Intact(d)' /\ (d # c => Pending(d)' = Pending(d))
    BY <1>1, OthersKeep
  <1>3. Exclusive'
    <2>1. ASSUME NEW d \in Clients, NEW e \in Clients, d # e, d # c, e # c
          PROVE  Pending(d)' \cap Pending(e)' \subseteq clashed'
      BY <1>2, <2>1 DEF Inv, Exclusive
    <2>2. ASSUME NEW d \in Clients, d # c
          PROVE  Pending(d)' \cap Pending(c)' \subseteq clashed'
      BY <2>2, <1>2
    <2>3. ASSUME NEW d \in Clients, NEW e \in Clients, d # e
          PROVE  Pending(d)' \cap Pending(e)' \subseteq clashed'
      BY <2>1, <2>2, <2>3
    <2> QED BY <2>3 DEF Exclusive
  <1>4. Records'
    BY <1>1 DEF Inv, Records
  <1>5. OnlyClashesLose'
    BY <1>1 DEF Inv, OnlyClashesLose
  <1> QED BY <1>2, <1>3, <1>4, <1>5 DEF Inv

LEMMA BeginCreateStep ==
    ASSUME Inv, NEW c \in Clients, NEW n \in Notes,
           NEW exp \in ((now + 1)..MaxTime) \cup {Never}, BeginCreate(c, n, exp),
           clashed' \subseteq Ids
    PROVE  OthersWait(c) /\ Types' /\ Holds(c)' /\ Intact(c)'
  <1> DEFINE note == [text |-> FirstText, active |-> 0, exp |-> exp]
  <1>1. n \in Ids /\ exp \in Times \cup {Never}
    BY DEF Inv, Types, Ids, Times
  <1>2. note \in Note
    BY <1>1 DEF Note
  <1>3. arg'[c] = n /\ val'[c] = note /\ pc'[c] = "create_list" /\ n \in used'
    BY DEF Inv, Types, BeginCreate, Waits
  <1>4. OthersWait(c)
    BY DEF Inv, Types, BeginCreate, Waits, OthersWait
  <1>5. Types'
    BY <1>1, <1>2, <1>3 DEF Inv, Types, BeginCreate, Waits, Places
  <1>6. n \notin gone /\ marks[n] = 0 /\ texts[n] = FirstText
    BY <1>1 DEF Inv, Records, BeginCreate
  <1>7. Holds(c)'
    BY <1>2, <1>3 DEF Holds
  <1>8. Intact(c)'
    BY <1>3, <1>6 DEF Intact, BeginCreate
  <1> QED BY <1>4, <1>5, <1>7, <1>8

LEMMA BeginUpdateStep ==
    ASSUME Inv, NEW c \in Clients, NEW n \in Notes, NEW text \in Texts, BeginUpdate(c, n, text),
           clashed' \subseteq Ids
    PROVE  OthersWait(c) /\ Types' /\ Holds(c)' /\ Intact(c)'
  <1> DEFINE note == [text |-> text, active |-> 0, exp |-> Never]
  <1>1. n \in Ids /\ note \in Note
    BY DEF Ids, Note
  <1>2. arg'[c] = n /\ val'[c] = note /\ pc'[c] = "update_get" /\ n \in used'
    BY DEF Inv, Types, BeginUpdate, Waits, historyVars
  <1>3. OthersWait(c)
    BY DEF Inv, Types, BeginUpdate, Waits, OthersWait
  <1>4. Types'
    BY <1>1, <1>2 DEF Inv, Types, BeginUpdate, Waits, Places, historyVars
  <1>5. Holds(c)' /\ Intact(c)'
    BY <1>1, <1>2 DEF Holds, Intact
  <1> QED BY <1>3, <1>4, <1>5

LEMMA BeginDeleteStep ==
    ASSUME Inv, NEW c \in Clients, NEW n \in Notes, BeginDelete(c, n),
           clashed' \subseteq Ids
    PROVE  OthersWait(c) /\ Types' /\ Holds(c)' /\ Intact(c)'
  <1>1. arg'[c] = n /\ pc'[c] = "delete" /\ n \in Ids
    BY DEF Inv, Types, BeginDelete, Waits, Ids
  <1>2. OthersWait(c)
    BY DEF Inv, Types, BeginDelete, Waits, OthersWait
  <1>3. Types'
    BY <1>1 DEF Inv, Types, BeginDelete, Waits, Places, historyVars
  <1>4. Holds(c)' /\ Intact(c)'
    BY <1>1 DEF Holds, Intact
  <1> QED BY <1>2, <1>3, <1>4

LEMMA BeginClearStep ==
    ASSUME Inv, NEW c \in Clients, BeginClear(c),
           clashed' \subseteq Ids
    PROVE  OthersWait(c) /\ Types' /\ Holds(c)' /\ Intact(c)'
  <1>1. pc'[c] = "clear_notes"
    BY DEF Inv, Types, BeginClear, Waits
  <1>2. OthersWait(c)
    BY DEF Inv, Types, BeginClear, Waits, OthersWait
  <1>3. Types'
    BY <1>1 DEF Inv, Types, BeginClear, Waits, Places, Present, Ids
  <1>4. Holds(c)' /\ Intact(c)'
    BY <1>1 DEF Holds, Intact
  <1> QED BY <1>2, <1>3, <1>4

LEMMA BeginWriteStep ==
    ASSUME Inv, NEW c \in Clients, NEW i \in Items, BeginWrite(c, i),
           clashed' \subseteq Ids
    PROVE  OthersWait(c) /\ Types' /\ Holds(c)' /\ Intact(c)'
  <1>1. arg'[c] = i /\ pc'[c] = "write" /\ i \in Ids /\ i \in used'
    BY DEF Inv, Types, BeginWrite, Waits, Ids
  <1>2. OthersWait(c)
    BY DEF Inv, Types, BeginWrite, Waits, OthersWait
  <1>3. Types'
    BY <1>1 DEF Inv, Types, BeginWrite, Waits, Places
  <1>4. i \notin gone /\ marks[i] = 0
    BY <1>1 DEF Inv, Records, BeginWrite
  <1>5. Holds(c)' /\ Intact(c)'
    BY <1>1, <1>4 DEF Holds, Intact, BeginWrite
  <1> QED BY <1>2, <1>3, <1>5

LEMMA BeginMarkStep ==
    ASSUME Inv, NEW c \in Clients, NEW ids \in MarkSets, BeginMark(c, ids),
           clashed' \subseteq Ids
    PROVE  OthersWait(c) /\ Types' /\ Holds(c)' /\ Intact(c)'
  <1>1. pc'[c] = "mark_items"
    BY DEF Inv, Types, BeginMark, Waits
  <1>2. OthersWait(c)
    BY DEF Inv, Types, BeginMark, Waits, OthersWait
  <1>3. Types'
    BY <1>1 DEF Inv, Types, BeginMark, Waits, Places, historyVars
  <1>4. Holds(c)' /\ Intact(c)'
    BY <1>1 DEF Holds, Intact
  <1> QED BY <1>2, <1>3, <1>4

LEMMA BeginStep ==
    ASSUME Inv, NEW c \in Clients, Begin(c)
    PROVE  Inv'
  <1> USE DEF Begin
  <1>1. clashed' = clashed \cup UNION {Pending(c)' \cap Pending(d) : d \in Clients \ {c}}
    OBVIOUS
  <1>2. clashed' \subseteq Ids
    BY <1>1 DEF Inv, Types, Pending
  <1>3. CASE \E n \in Notes, exp \in ((now + 1)..MaxTime) \cup {Never} : BeginCreate(c, n, exp)
    <2>1. PICK n \in Notes, exp \in ((now + 1)..MaxTime) \cup {Never} : BeginCreate(c, n, exp)
      BY <1>3
    <2> QED BY <1>1, <1>2, <2>1, BeginCreateStep, BeginKeeps DEF BeginCreate, Inv, Records
  <1>4. CASE \E n \in Notes, text \in Texts : BeginUpdate(c, n, text)
    BY <1>1, <1>2, <1>4, BeginUpdateStep, BeginKeeps DEF BeginUpdate, historyVars, Inv, Records
  <1>5. CASE \E n \in Notes : BeginDelete(c, n)
    BY <1>1, <1>2, <1>5, BeginDeleteStep, BeginKeeps DEF BeginDelete, historyVars, Inv, Records
  <1>6. CASE BeginClear(c)
    <2>1. \A d \in Clients : doomed'[d] \subseteq used'
      BY <1>6 DEF BeginClear, Inv, Records, Types
    <2> QED BY <1>1, <1>2, <1>6, <2>1, BeginClearStep, BeginKeeps DEF BeginClear
  <1>7. CASE \E i \in Items : BeginWrite(c, i)
    BY <1>1, <1>2, <1>7, BeginWriteStep, BeginKeeps DEF BeginWrite, Inv, Records
  <1>8. CASE \E ids \in MarkSets : BeginMark(c, ids)
    BY <1>1, <1>2, <1>8, BeginMarkStep, BeginKeeps DEF BeginMark, historyVars, Inv, Records
  <1> QED BY <1>3, <1>4, <1>5, <1>6, <1>7, <1>8

-----------------------------------------------------------------------------
(* An operation goes on.                                                   *)

LEMMA CreateListStep ==
    ASSUME Inv, NEW c \in Clients, CreateList(c), clashed' = clashed
    PROVE  Inv'
  <1>1. CASE Ends(c)
    BY <1>1, CalmEnd DEF CreateList, historyVars, Inv, Types
  <1>2. CASE ~Ends(c)
    <2>1. /\ pc' = [pc EXCEPT ![c] = "create_put"] /\ pc[c] = "create_list"
          /\ UNCHANGED <<now, notes, deadline, items, historyVars, arg, val, todo,
                         seenNotes, seenItems>>
      BY <1>2 DEF CreateList, Waits, At
    <2>2. pc'[c] = "create_put" /\ OthersWait(c) /\ Types'
      BY <2>1 DEF Inv, Types, Places, historyVars, OthersWait
    <2>3. Holds(c)' /\ Intact(c)' /\ Pending(c)' = Pending(c)
      BY <2>1, <2>2 DEF Inv, Holds, Intact, Pending, historyVars
    <2> QED BY <2>1, <2>2, <2>3, CalmKeeps DEF historyVars, Inv, Records
  <1> QED BY <1>1, <1>2

\* The typed hash after a write of one note.
LEMMA StoredIsTyped ==
    ASSUME Types, NEW n \in Notes, NEW note \in Note \cup {NoNote},
           StoreNotes([notes EXCEPT ![n] = note])
    PROVE  notes' \in [Notes -> Note \cup {NoNote}] /\ deadline' \in Times \cup {Never}
           /\ notes' = [notes EXCEPT ![n] = note]
  BY DEF Types, StoreNotes

\* The id the operation of c is about, if it did not clash, is sound.
LEMMA ArgIsPending ==
    ASSUME Inv, NEW c \in Clients, arg[c] \in Ids
    PROVE  /\ arg[c] \in Pending(c)
           /\ arg[c] \notin clashed => Sound(arg[c])
  <1>1. arg[c] \in Pending(c)
    BY DEF Pending
  <1> QED BY <1>1, SoundIdById DEF Inv

LEMMA SoundBefore ==
    ASSUME Inv, NEW c \in Clients
    PROVE  \A x \in Pending(c) \ clashed : x \in Ids /\ Sound(x)
  <1>1. Pending(c) \subseteq Ids
    BY DEF Inv, Types, Pending
  <1> QED BY <1>1, SoundIdById DEF Inv

LEMMA CreatePutStep ==
    ASSUME Inv, NEW c \in Clients, CreatePut(c), clashed' = clashed
    PROVE  Inv'
  <1>1. /\ pc[c] = "create_put" /\ arg[c] \in Notes /\ arg[c] \in Ids /\ arg[c] \in used
        /\ val[c] \in Note /\ val[c].text = FirstText /\ val[c].active = 0
        /\ arg[c] \notin clashed =>
              arg[c] \notin gone /\ marks[arg[c]] = 0 /\ texts[arg[c]] = FirstText
    BY DEF Inv, Holds, Intact, CreatePut, At, Ids
  <1>2. notes' = [notes EXCEPT ![arg[c]] = val[c]] /\ notes' \in [Notes -> Note \cup {NoNote}]
        /\ deadline' \in Times \cup {Never}
    BY <1>1, StoredIsTyped DEF Inv, CreatePut
  <1>3. UNCHANGED <<now, items, used, doomed, gone, marks, texts>>
    BY DEF CreatePut, historyVars
  <1>4. Records'
    BY <1>1, <1>2, <1>3 DEF Inv, Types, Records, Present
  <1>5. StoresItsOwn(c)
    BY <1>1, <1>2, <1>3, ArgIsPending DEF StoresItsOwn, Inv, Types
  <1>6. ASSUME NEW x \in Pending(c) \ clashed PROVE Sound(x)'
    <2>1. x \in Ids /\ Sound(x)
      BY SoundBefore
    <2> QED BY <1>1, <1>2, <1>3, <2>1 DEF Sound, Present, Inv, Types, Ids
  <1>7. CASE Ends(c)
    <2>1. Types'
      BY <1>2, <1>3, <1>7, EndsIsFine DEF Inv, Types
    <2> QED BY <1>3, <1>4, <1>5, <1>6, <1>7, <2>1, EndsIsFine, StepKeeps DEF Inv
  <1>8. CASE ~Ends(c)
    <2>1. pc' = [pc EXCEPT ![c] = "create_expire"]
          /\ UNCHANGED <<arg, val, todo, seenNotes, seenItems>>
      BY <1>8 DEF CreatePut, Waits
    <2>2. pc'[c] = "create_expire" /\ OthersWait(c) /\ Types'
      BY <1>2, <1>3, <2>1 DEF Inv, Types, Places, OthersWait
    <2>3. Holds(c)' /\ Intact(c)' /\ Pending(c)' = Pending(c)
      BY <1>1, <1>3, <2>1, <2>2 DEF Holds, Intact, Pending
    <2> QED BY <1>3, <1>4, <1>5, <1>6, <2>2, <2>3, StepKeeps
  <1> QED BY <1>7, <1>8

LEMMA CreateExpireStep ==
    ASSUME Inv, NEW c \in Clients, CreateExpire(c), clashed' = clashed
    PROVE  Inv'
  <1>1. val[c] \in Note
    BY DEF Inv, Holds, CreateExpire, At
  <1>2. deadline' \in Times \cup {Never}
    BY <1>1 DEF CreateExpire, Inv, Types, Note
  <1> QED BY <1>2, CalmEnd DEF CreateExpire, historyVars

LEMMA UpdateGetStep ==
    ASSUME Inv, NEW c \in Clients, UpdateGet(c), clashed' = clashed
    PROVE  Inv'
  <1>1. CASE Ends(c)
    BY <1>1, CalmEnd DEF UpdateGet, historyVars, Inv, Types
  <1>2. CASE ~Ends(c)
    <2> DEFINE note == [notes[arg[c]] EXCEPT !.text = val[c].text]
    <2>1. /\ pc' = [pc EXCEPT ![c] = "update_put"] /\ pc[c] = "update_get"
          /\ notes[arg[c]] # NoNote /\ val' = [val EXCEPT ![c] = note]
          /\ UNCHANGED <<now, notes, deadline, items, historyVars, arg, todo,
                         seenNotes, seenItems>>
      BY <1>2 DEF UpdateGet, Waits, At
    <2>2. arg[c] \in Notes /\ arg[c] \in Ids /\ arg[c] \in used /\ val[c] \in Note
      BY <2>1 DEF Inv, Holds, Ids
    <2>3. notes[arg[c]] \in Note
      BY <2>1, <2>2 DEF Inv, Types
    <2>4. note \in Note /\ note.active = notes[arg[c]].active
      BY <2>2, <2>3 DEF Note
    <2>5. pc'[c] = "update_put" /\ val'[c] = note /\ arg'[c] = arg[c] /\ OthersWait(c) /\ Types'
      BY <2>1, <2>4 DEF Inv, Types, Places, historyVars, OthersWait
    <2>6. arg[c] \notin clashed => arg[c] \notin gone /\ note.active = marks[arg[c]]
      BY <2>1, <2>2, <2>4, ArgIsPending DEF Sound, Present
    <2> HIDE DEF note
    <2>7. Holds(c)' /\ Intact(c)' /\ Pending(c)' = Pending(c)
      BY <2>1, <2>2, <2>4, <2>5, <2>6 DEF Holds, Intact, Pending, historyVars
    <2> QED BY <2>1, <2>5, <2>7, CalmKeeps DEF historyVars, Inv, Records
  <1> QED BY <1>1, <1>2

LEMMA UpdatePutStep ==
    ASSUME Inv, NEW c \in Clients, UpdatePut(c), clashed' = clashed
    PROVE  Inv'
  <1>1. /\ arg[c] \in Notes /\ arg[c] \in Ids /\ arg[c] \in used
        /\ val[c] \in Note /\ val[c].text \in Texts \cup {FirstText}
        /\ arg[c] \notin clashed => arg[c] \notin gone /\ val[c].active = marks[arg[c]]
    BY DEF Inv, Holds, Intact, UpdatePut, At, Ids, Note
  <1>2. notes' = [notes EXCEPT ![arg[c]] = val[c]] /\ notes' \in [Notes -> Note \cup {NoNote}]
        /\ deadline' \in Times \cup {Never}
    BY <1>1, StoredIsTyped DEF Inv, UpdatePut
  <1>3. /\ UNCHANGED <<now, items, used, doomed, gone, marks>>
        /\ texts' = [texts EXCEPT ![arg[c]] = val[c].text] /\ Ends(c)
    BY DEF UpdatePut
  <1>4. Records'
    BY <1>1, <1>2, <1>3 DEF Inv, Types, Records, Present
  <1>5. StoresItsOwn(c)
    BY <1>1, <1>2, <1>3, ArgIsPending DEF StoresItsOwn, Inv, Types
  <1>6. ASSUME NEW x \in Pending(c) \ clashed PROVE Sound(x)'
    <2>1. x \in Ids /\ Sound(x)
      BY SoundBefore
    <2>2. CASE x = arg[c]
      BY <1>1, <1>2, <1>3, <2>1, <2>2 DEF Sound, Present, Inv, Types, Ids
    <2>3. CASE x # arg[c]
      BY <1>1, <1>2, <1>3, <2>1, <2>3 DEF Sound, Present, Inv, Types, Ids
    <2> QED BY <2>2, <2>3
  <1>7. Types'
    BY <1>1, <1>2, <1>3, EndsIsFine DEF Inv, Types
  <1> QED BY <1>3, <1>4, <1>5, <1>6, <1>7, EndsIsFine, StepKeeps DEF Inv

LEMMA DeleteStep ==
    ASSUME Inv, NEW c \in Clients, Delete(c), clashed' = clashed
    PROVE  Inv'
  <1>1. arg[c] \in Notes /\ arg[c] \in Ids
    BY DEF Inv, Holds, Delete, At, Ids
  <1>2. notes' = [notes EXCEPT ![arg[c]] = NoNote] /\ notes' \in [Notes -> Note \cup {NoNote}]
        /\ deadline' \in Times \cup {Never}
    BY <1>1, StoredIsTyped DEF Inv, Delete
  <1>3. /\ UNCHANGED <<now, items, used, doomed, marks, texts>> /\ Ends(c)
        /\ gone' = IF notes[arg[c]] = NoNote THEN gone ELSE gone \cup {arg[c]}
    BY DEF Delete
  <1>4. gone \subseteq gone' /\ gone' \subseteq gone \cup {arg[c]} /\ gone' \subseteq used
    BY <1>1, <1>3 DEF Inv, Records, Present
  <1>5. Present' \subseteq Present \ {arg[c]}
    BY <1>1, <1>2, <1>3 DEF Present, Inv, Types
  <1>6. Records'
    BY <1>3, <1>4, <1>5 DEF Inv, Records
  <1>7. StoresItsOwn(c)
    BY <1>1, <1>2, <1>3, <1>4, ArgIsPending DEF StoresItsOwn, Inv, Types
  <1>8. ASSUME NEW x \in Pending(c) \ clashed PROVE Sound(x)'
    <2>1. x \in Ids /\ Sound(x)
      BY SoundBefore
    <2>2. CASE x = arg[c]
      BY <1>1, <1>2, <1>3, <1>5, <2>2 DEF Sound, Inv, Types, Ids
    <2>3. CASE x # arg[c]
      BY <1>1, <1>2, <1>3, <1>4, <1>5, <2>1, <2>3 DEF Sound, Inv, Types
    <2> QED BY <2>2, <2>3
  <1>9. Types'
    BY <1>2, <1>3, <1>4, EndsIsFine DEF Inv, Types
  <1> QED BY <1>3, <1>4, <1>6, <1>7, <1>8, <1>9, EndsIsFine, StepKeeps DEF Inv

LEMMA ClearNotesStep ==
    ASSUME Inv, NEW c \in Clients, ClearNotes(c), clashed' = clashed
    PROVE  Inv'
  <1>1. /\ notes' = [n \in Notes |-> NoNote] /\ deadline' \in Times \cup {Never}
        /\ pc' = [pc EXCEPT ![c] = "clear_items"] /\ pc[c] = "clear_notes"
        /\ UNCHANGED <<now, items, arg, val, todo, seenNotes, seenItems>>
        /\ UNCHANGED <<used, doomed, gone, marks, texts>>
    BY DEF ClearNotes, StoreNotes, Waits, At, historyVars, Inv, Types
  <1>2. pc'[c] = "clear_items" /\ OthersWait(c) /\ Types'
    BY <1>1 DEF Inv, Types, Places, OthersWait
  <1>3. Present' \subseteq Present /\ Pending(c) = Ids /\ Pending(c)' = Ids
    BY <1>1, <1>2 DEF Present, Pending
  <1>4. Records' /\ StoresItsOwn(c)
    BY <1>1, <1>3 DEF Inv, Types, Records, StoresItsOwn, Ids
  <1>5. Holds(c)' /\ Intact(c)'
    BY <1>1, <1>2 DEF Holds, Intact
  <1>6. ASSUME NEW x \in Pending(c) \ clashed PROVE Sound(x)'
    <2>1. x \in Ids /\ Sound(x)
      BY SoundBefore
    <2> QED BY <1>1, <1>3, <2>1 DEF Sound
  <1> QED BY <1>1, <1>2, <1>3, <1>4, <1>5, <1>6, StepKeeps

LEMMA ClearItemsStep ==
    ASSUME Inv, NEW c \in Clients, ClearItems(c), clashed' = clashed
    PROVE  Inv'
  <1>1. /\ \A n \in Notes \ clashed : notes[n] = NoNote
        /\ items' = [i \in Items |-> NoItem] /\ gone' = gone \cup doomed[c]
        /\ doomed' = [doomed EXCEPT ![c] = {}] /\ Ends(c)
        /\ UNCHANGED <<now, notes, deadline, used, marks, texts>>
        /\ Pending(c) = Ids
    BY DEF Inv, Intact, ClearItems, At, Pending
  <1>2. Types'
    BY <1>1, EndsIsFine DEF Inv, Types
  <1>3. Present' \subseteq Present
    BY <1>1 DEF Present
  <1>4. Records' /\ StoresItsOwn(c)
    BY <1>1, <1>3 DEF Inv, Types, Records, StoresItsOwn, Ids
  <1>5. ASSUME NEW x \in Pending(c) \ clashed PROVE Sound(x)'
    BY <1>1 DEF Sound, Present, Ids
  <1> QED BY <1>1, <1>2, <1>4, <1>5, EndsIsFine, StepKeeps DEF Inv

LEMMA WriteStep ==
    ASSUME Inv, NEW c \in Clients, Write(c), clashed' = clashed
    PROVE  Inv'
  <1>1. /\ arg[c] \in Items /\ arg[c] \in Ids /\ arg[c] \in used
        /\ arg[c] \notin clashed => arg[c] \notin gone /\ marks[arg[c]] = 0
        /\ items' = [items EXCEPT ![arg[c]] = 0] /\ Ends(c)
        /\ UNCHANGED <<now, notes, deadline, used, doomed, gone, marks, texts>>
    BY DEF Inv, Holds, Intact, Write, At, historyVars, Ids
  <1>2. Types'
    BY <1>1, EndsIsFine DEF Inv, Types
  <1>3. Records'
    BY <1>1 DEF Inv, Types, Records, Present
  <1>4. StoresItsOwn(c)
    BY <1>1, ArgIsPending DEF StoresItsOwn, Inv, Types
  <1>5. ASSUME NEW x \in Pending(c) \ clashed PROVE Sound(x)'
    <2>1. x \in Ids /\ Sound(x)
      BY SoundBefore
    <2>2. CASE x = arg[c]
      BY <1>1, <2>2 DEF Sound, Present, Inv, Types, Ids
    <2>3. CASE x # arg[c]
      BY <1>1, <2>1, <2>3 DEF Sound, Present, Inv, Types
    <2> QED BY <2>2, <2>3
  <1> QED BY <1>1, <1>2, <1>3, <1>4, <1>5, EndsIsFine, StepKeeps DEF Inv

LEMMA MarkListItemsStep ==
    ASSUME Inv, NEW c \in Clients, MarkListItems(c), clashed' = clashed
    PROVE  Inv'
  <1>1. /\ seenItems' = [seenItems EXCEPT ![c] = items] /\ pc[c] = "mark_items"
        /\ pc' = [pc EXCEPT ![c] = "mark_item_put"]
        /\ UNCHANGED <<now, notes, deadline, items, arg, val, todo, seenNotes, historyVars>>
    BY DEF MarkListItems, Waits, At
  <1>2. pc'[c] = "mark_item_put" /\ seenItems'[c] = items /\ OthersWait(c) /\ Types'
    BY <1>1 DEF Inv, Types, Places, historyVars, OthersWait
  <1>3. \A i \in Items : items[i] # NoItem => i \in used
    BY DEF Inv, Records, Present
  <1>4. Holds(c)' /\ Intact(c)' /\ Pending(c)' = Pending(c)
    BY <1>1, <1>2, <1>3 DEF Holds, Intact, Pending, historyVars
  <1> QED BY <1>1, <1>2, <1>4, CalmKeeps DEF historyVars, Inv, Records

LEMMA MarkItemPutStep ==
    ASSUME Inv, NEW c \in Clients, MarkItemPut(c), clashed' = clashed
    PROVE  Inv'
  <1>1. PICK i \in todo[c] \cap Items :
          /\ seenItems[c][i] # NoItem
          /\ items' = [items EXCEPT ![i] = seenItems[c][i] + 1]
          /\ marks' = [marks EXCEPT ![i] = @ + 1]
          /\ todo' = [todo EXCEPT ![c] = @ \ {i}]
    BY DEF MarkItemPut
  <1>2. /\ pc[c] = "mark_item_put"
        /\ UNCHANGED <<now, notes, deadline, pc, arg, val, seenNotes, seenItems>>
        /\ UNCHANGED <<used, doomed, gone, texts>>
    BY DEF MarkItemPut, At
  <1>3. /\ i \in Ids /\ i \in used /\ i \in Pending(c) /\ i \notin Notes
        /\ seenItems[c][i] \in Nat /\ marks[i] \in Nat
        /\ i \notin clashed => seenItems[c][i] = items[i]
    BY <1>1, <1>2 DEF Inv, Types, Holds, Intact, Ids, Pending
  <1>4. Types' /\ OthersWait(c)
    BY <1>1, <1>2, <1>3 DEF Inv, Types, OthersWait
  <1>5. Records'
    BY <1>1, <1>2, <1>3 DEF Inv, Types, Records, Present
  <1>6. StoresItsOwn(c) /\ Pending(c)' \subseteq Pending(c)
    BY <1>1, <1>2, <1>3 DEF StoresItsOwn, Pending, Inv, Types
  <1>7. todo'[c] = todo[c] \ {i}
    BY <1>1 DEF Inv, Types
  <1>8. Holds(c)' /\ Intact(c)'
    BY <1>1, <1>2, <1>3, <1>7 DEF Inv, Types, Holds, Intact
  <1>9. ASSUME NEW x \in Pending(c) \ clashed PROVE Sound(x)'
    <2>1. x \in Ids /\ Sound(x)
      BY SoundBefore
    <2>2. CASE x = i
      <3>1. items'[i] = items[i] + 1 /\ marks'[i] = marks[i] + 1 /\ items[i] # NoItem
        BY <1>1, <1>3, <2>2 DEF Inv, Types
      <3> QED BY <1>2, <1>3, <2>1, <2>2, <3>1 DEF Sound, Present
    <2>3. CASE x # i
      BY <1>1, <1>2, <2>1, <2>3 DEF Sound, Present, Inv, Types
    <2> QED BY <2>2, <2>3
  <1> QED BY <1>2, <1>4, <1>5, <1>6, <1>8, <1>9, StepKeeps

LEMMA MarkListNotesStep ==
    ASSUME Inv, NEW c \in Clients, MarkListNotes(c), clashed' = clashed
    PROVE  Inv'
  <1> DEFINE seen == [n \in Notes |-> IF n \in Listed THEN notes[n] ELSE NoNote]
  <1>1. /\ seenNotes' = [seenNotes EXCEPT ![c] = seen] /\ pc[c] = "mark_item_put"
        /\ pc' = [pc EXCEPT ![c] = "mark_note"]
        /\ UNCHANGED <<now, notes, deadline, items, arg, val, todo, seenItems, historyVars>>
    BY DEF MarkListNotes, Waits, At
  <1>2. seen \in [Notes -> Note \cup {NoNote}]
    BY DEF Inv, Types
  <1>3. pc'[c] = "mark_note" /\ seenNotes'[c] = seen /\ OthersWait(c) /\ Types'
    BY <1>1, <1>2 DEF Inv, Types, Places, historyVars, OthersWait
  <1>4. \A n \in Notes \ clashed : seen[n] # NoNote => seen[n].active = marks[n]
    BY DEF Inv, OnlyClashesLose, Listed
  <1>5. Holds(c)' /\ Intact(c)' /\ Pending(c)' = Pending(c)
    BY <1>1, <1>3, <1>4 DEF Holds, Intact, Pending, historyVars
  <1> QED BY <1>1, <1>3, <1>5, CalmKeeps DEF historyVars, Inv, Records

LEMMA MarkNoteGetStep ==
    ASSUME Inv, NEW c \in Clients, MarkNoteGet(c), clashed' = clashed
    PROVE  Inv'
  <1>1. CASE Ends(c)
    BY <1>1, CalmEnd DEF MarkNoteGet, historyVars, Inv, Types
  <1>2. CASE ~Ends(c)
    <2>1. PICK n \in todo[c] \cap Notes :
            /\ seenNotes[c][n] # NoNote /\ notes[n] # NoNote
            /\ arg' = [arg EXCEPT ![c] = n]
            /\ val' = [val EXCEPT ![c] = [notes[n] EXCEPT !.active = seenNotes[c][n].active + 1]]
            /\ todo' = [todo EXCEPT ![c] = @ \ {n}]
            /\ pc' = [pc EXCEPT ![c] = "mark_note_put"]
            /\ UNCHANGED <<seenNotes, seenItems>>
      BY <1>2 DEF MarkNoteGet, Waits
    <2> DEFINE note == [notes[n] EXCEPT !.active = seenNotes[c][n].active + 1]
    <2>2. pc[c] = "mark_note" /\ UNCHANGED <<now, notes, deadline, items, historyVars>>
      BY DEF MarkNoteGet, At
    <2>3. n \in Ids /\ n \in used /\ notes[n] \in Note /\ seenNotes[c][n] \in Note
      BY <2>1 DEF Inv, Types, Records, Present, Ids
    <2>4. /\ note \in Note /\ note.active = seenNotes[c][n].active + 1
          /\ note.text = notes[n].text
      BY <2>3 DEF Note
    <2>5. /\ pc'[c] = "mark_note_put" /\ arg'[c] = n /\ val'[c] = note
          /\ todo'[c] = todo[c] \ {n} /\ OthersWait(c)
      BY <2>1 DEF Inv, Types, OthersWait
    <2>6. Types'
      BY <2>1, <2>2, <2>3, <2>4 DEF Inv, Types, Places, historyVars
    <2>7. /\ \A m \in (todo[c] \cap Notes) \ clashed :
                seenNotes[c][m] # NoNote => seenNotes[c][m].active = marks[m]
          /\ n \notin clashed => Sound(n)
      BY <2>2, <2>3, SoundIdById DEF Inv, Intact
    <2>8. n \notin clashed =>
             n \notin gone /\ note.active = marks[n] + 1 /\ note.text = texts[n]
      BY <2>1, <2>4, <2>7 DEF Sound, Present
    <2> HIDE DEF note
    <2>9. Holds(c)'
      BY <2>1, <2>2, <2>3, <2>4, <2>5 DEF Holds, historyVars
    <2>10. Intact(c)'
      <3>1. \A m \in (todo'[c] \cap Notes) \ clashed' :
               seenNotes'[c][m] # NoNote => seenNotes'[c][m].active = marks'[m]
        BY <2>1, <2>2, <2>5, <2>7 DEF historyVars
      <3>2. arg'[c] \notin clashed' =>
               /\ arg'[c] \notin gone'
               /\ val'[c].active = marks'[arg'[c]] + 1 /\ val'[c].text = texts'[arg'[c]]
        BY <2>2, <2>5, <2>8 DEF historyVars
      <3> QED BY <2>5, <3>1, <3>2 DEF Intact
    <2>11. Pending(c)' \subseteq Pending(c)
      BY <2>1, <2>2, <2>5 DEF Pending
    <2> QED BY <2>2, <2>5, <2>6, <2>9, <2>10, <2>11, CalmKeeps DEF historyVars, Inv, Records
  <1> QED BY <1>1, <1>2

LEMMA MarkNotePutStep ==
    ASSUME Inv, NEW c \in Clients, MarkNotePut(c), clashed' = clashed
    PROVE  Inv'
  <1>1. /\ pc[c] = "mark_note_put" /\ arg[c] \in Notes /\ arg[c] \in Ids /\ arg[c] \in used
        /\ val[c] \in Note /\ val[c].text \in Texts \cup {FirstText} /\ arg[c] \notin todo[c]
        /\ \A n \in (todo[c] \cap Notes) \ clashed :
              seenNotes[c][n] # NoNote => seenNotes[c][n].active = marks[n]
        /\ arg[c] \notin clashed =>
              /\ arg[c] \notin gone
              /\ val[c].active = marks[arg[c]] + 1 /\ val[c].text = texts[arg[c]]
    BY DEF Inv, Holds, Intact, MarkNotePut, At, Ids, Note
  <1>2. notes' = [notes EXCEPT ![arg[c]] = val[c]] /\ notes' \in [Notes -> Note \cup {NoNote}]
        /\ deadline' \in Times \cup {Never}
    BY <1>1, StoredIsTyped DEF Inv, MarkNotePut
  <1>3. /\ UNCHANGED <<now, items, todo, seenNotes, seenItems>> /\ UNCHANGED <<used, doomed, gone>>
        /\ marks' = [marks EXCEPT ![arg[c]] = @ + 1]
        /\ texts' = [texts EXCEPT ![arg[c]] = val[c].text]
        /\ arg' = [arg EXCEPT ![c] = Never] /\ val' = [val EXCEPT ![c] = NoNote]
        /\ pc' = [pc EXCEPT ![c] = "mark_note"]
    BY DEF MarkNotePut, Waits
  <1>4. pc'[c] = "mark_note" /\ arg'[c] = Never /\ OthersWait(c)
    BY <1>3 DEF Inv, Types, OthersWait
  <1>5. marks' \in [Ids -> Nat] /\ marks'[arg[c]] = marks[arg[c]] + 1
        /\ \A x \in Ids : x # arg[c] => marks'[x] = marks[x]
    BY <1>1, <1>3 DEF Inv, Types
  <1>6. Types'
    BY <1>1, <1>2, <1>3, <1>5 DEF Inv, Types, Places
  <1>7. Records'
    BY <1>1, <1>2, <1>3, <1>5 DEF Inv, Types, Records, Present
  <1>8. StoresItsOwn(c) /\ Pending(c)' \subseteq Pending(c)
    BY <1>1, <1>2, <1>3, <1>4, <1>5, ArgIsPending DEF StoresItsOwn, Pending, Inv, Types
  <1>9. Holds(c)' /\ Intact(c)'
    <2>1. \A n \in todo[c] \cap Notes : n \in Ids /\ n # arg[c]
      BY <1>1 DEF Ids
    <2> QED BY <1>1, <1>3, <1>4, <1>5, <2>1 DEF Holds, Intact
  <1>10. ASSUME NEW x \in Pending(c) \ clashed PROVE Sound(x)'
    <2>1. x \in Ids /\ Sound(x)
      BY SoundBefore
    <2>2. CASE x = arg[c]
      <3>1. notes'[x] = val[c] /\ texts'[x] = val[c].text /\ x \notin Items
        BY <1>1, <1>2, <1>3, <2>2 DEF Inv, Types
      <3> QED BY <1>1, <1>3, <1>5, <2>2, <3>1 DEF Sound, Present
    <2>3. CASE x # arg[c]
      BY <1>1, <1>2, <1>3, <1>5, <2>1, <2>3 DEF Sound, Present, Inv, Types
    <2> QED BY <2>2, <2>3
  <1> QED BY <1>3, <1>4, <1>6, <1>7, <1>8, <1>9, <1>10, StepKeeps

-----------------------------------------------------------------------------
\* Redis may drop the notes between two calls of an operation.
LEMMA TickStep ==
    ASSUME Inv, Tick, clashed' = clashed
    PROVE  Inv'
  <1>1. /\ now' = now + 1 /\ now < MaxTime
        /\ UNCHANGED <<items, pc, arg, val, todo, seenNotes, seenItems>>
        /\ UNCHANGED <<used, doomed, gone, marks, texts>>
    BY DEF Tick, callVars, historyVars
  <1>2. now' \in Times
    BY <1>1 DEF Inv, Types, Times
  <1>3. /\ notes' = notes \/ notes' = [n \in Notes |-> NoNote]
        /\ deadline' \in Times \cup {Never}
    BY DEF Tick, StoreNotes, Inv, Types
  <1>4. Types'
    BY <1>1, <1>2, <1>3 DEF Inv, Types
  <1>5. Present' \subseteq Present
    BY <1>1, <1>3 DEF Present
  <1>6. Records' /\ OnlyClashesLose'
    BY <1>1, <1>3, <1>5 DEF Inv, Records, OnlyClashesLose
  <1>7. Exclusive' /\ \A c \in Clients : Holds(c)'
    BY <1>1 DEF Inv, Exclusive, Pending, Holds
  <1>8. \A c \in Clients : Intact(c)'
    BY <1>1, <1>3 DEF Inv, Intact
  <1> QED BY <1>4, <1>6, <1>7, <1>8 DEF Inv

LEMMA InvInitial ==
    Init => Inv
  <1> SUFFICES ASSUME Init PROVE Inv
    OBVIOUS
  <1>1. Types
    BY DEF Init, Types, Places, Times
  <1>2. Present = {}
    BY DEF Init, Present
  <1>3. Records /\ OnlyClashesLose
    BY <1>2 DEF Init, Records, OnlyClashesLose
  <1>4. \A c \in Clients : Pending(c) = {} /\ Holds(c) /\ Intact(c)
    BY DEF Init, Pending, Holds, Intact
  <1>5. Exclusive
    BY <1>4 DEF Exclusive
  <1> QED BY <1>1, <1>3, <1>4, <1>5 DEF Inv

LEMMA InvKept ==
    Inv /\ [Next]_vars => Inv'
  <1> SUFFICES ASSUME Inv, [Next]_vars PROVE Inv'
    OBVIOUS
  <1>1. CASE Tick /\ UNCHANGED clashed
    BY <1>1, TickStep
  <1>2. ASSUME NEW c \in Clients, Begin(c) PROVE Inv'
    BY <1>2, BeginStep
  <1>3. ASSUME NEW c \in Clients, Continue(c), UNCHANGED clashed PROVE Inv'
    <2>1. CASE MarkEnds(c)
      BY <1>3, <2>1, CalmEnd DEF MarkEnds, historyVars, Inv, Types
    <2> QED BY <1>3, <2>1, CreateListStep, CreatePutStep, CreateExpireStep, UpdateGetStep,
               UpdatePutStep, DeleteStep, ClearNotesStep, ClearItemsStep, WriteStep,
               MarkListItemsStep, MarkItemPutStep, MarkListNotesStep, MarkNoteGetStep,
               MarkNotePutStep DEF Continue
  <1>4. ASSUME NEW c \in Clients, CallFails(c), UNCHANGED clashed PROVE Inv'
    BY <1>4, CalmEnd DEF CallFails, Inv, Types
  <1>5. CASE UNCHANGED vars
    <2> USE <1>5 DEF vars, callVars, historyVars
    <2>1. Present' = Present
      BY DEF Present
    <2>2. Types' /\ Records' /\ OnlyClashesLose'
      BY <2>1 DEF Inv, Types, Records, OnlyClashesLose
    <2>3. Exclusive' /\ \A c \in Clients : Holds(c)' /\ Intact(c)'
      BY DEF Inv, Exclusive, Pending, Holds, Intact
    <2> QED BY <2>2, <2>3 DEF Inv
  <1> QED BY <1>1, <1>2, <1>3, <1>4, <1>5 DEF Next

LEMMA InvAlways ==
    Spec => []Inv
  BY InvInitial, InvKept, PTL DEF Spec

-----------------------------------------------------------------------------
\* With any clients, whose operations overlap as they like and whose calls fail at
\* any point, what delete_note() and clear_session() removed comes back only if
\* another operation was about that very id at the same time.
THEOREM RemovedStaysRemovedHolds ==
    Spec => []RemovedStaysRemoved
  <1>1. Inv => RemovedStaysRemoved
    BY DEF Inv, OnlyClashesLose, RemovedStaysRemoved
  <1> QED BY <1>1, InvAlways, PTL

\* Nor is a mark or an update lost otherwise: mark_used() rewrites the items and notes
\* it lists one by one, never the whole session.
THEOREM NoMarkOrUpdateLostHolds ==
    Spec => []NoMarkOrUpdateLost
  <1>1. Inv => NoMarkOrUpdateLost
    BY DEF Inv, OnlyClashesLose, NoMarkOrUpdateLost
  <1> QED BY <1>1, InvAlways, PTL

-----------------------------------------------------------------------------
(* One operation of the session at a time.                                 *)

Alone == \A c, d \in Clients : pc[c] # "idle" /\ pc[d] # "idle" => c = d

Limited == IsFiniteSet(Listed) /\ Cardinality(Listed) <= MaxNotes

NoNotes == \A n \in Notes : notes[n] = NoNote

\* What the operation of c, the only one, relies on for the limit: the list it has
\* counted is not longer now, and the note it read is still there with the same
\* expires_at, unless Redis dropped all the notes.
Counts(c) ==
    /\ pc[c] = "create_put" => Cardinality(Listed) < MaxNotes
    /\ pc[c] \in {"update_put", "mark_note_put"} =>
          /\ notes[arg[c]] # NoNote => notes[arg[c]].exp = val[c].exp
          /\ notes[arg[c]] = NoNote => NoNotes

SeqInv ==
    /\ Inv /\ Alone /\ clashed = {} /\ Limited
    /\ \A c \in Clients : Counts(c)

LEMMA FewerListed ==
    ASSUME Limited, Listed' \subseteq Listed
    PROVE  Limited' /\ Cardinality(Listed') <= Cardinality(Listed)
           /\ Cardinality(Listed) \in Nat /\ Cardinality(Listed') \in Nat
  <1>1. IsFiniteSet(Listed') /\ Cardinality(Listed') <= Cardinality(Listed)
    BY FS_Subset DEF Limited
  <1>2. Cardinality(Listed') \in Nat /\ Cardinality(Listed) \in Nat
    BY <1>1, FS_CardinalityType DEF Limited
  <1> QED BY <1>1, <1>2 DEF Limited, NoteLimit

LEMMA OneMoreListed ==
    ASSUME IsFiniteSet(Listed), Cardinality(Listed) < MaxNotes, NEW n,
           Listed' \subseteq Listed \cup {n}
    PROVE  Limited'
  <1>1. Cardinality(Listed) \in Nat
    BY FS_CardinalityType
  <1>2. /\ IsFiniteSet(Listed \cup {n})
        /\ Cardinality(Listed \cup {n}) \in {Cardinality(Listed), Cardinality(Listed) + 1}
    <2>1. CASE n \in Listed
      BY <2>1, FS_AddElement
    <2>2. CASE n \notin Listed
      BY <2>2, FS_AddElement
    <2> QED BY <2>1, <2>2
  <1>3. IsFiniteSet(Listed') /\ Cardinality(Listed') <= Cardinality(Listed \cup {n})
    BY <1>2, FS_Subset
  <1>4. Cardinality(Listed') \in Nat /\ Cardinality(Listed \cup {n}) \in Nat
    BY <1>2, <1>3, FS_CardinalityType
  <1> QED BY <1>1, <1>2, <1>3, <1>4 DEF Limited, NoteLimit

\* After a step of c it is enough to look at c: nobody else is in an operation.
LEMMA OnlyOneRuns ==
    ASSUME Sequential, Alone, NEW c \in Clients, pc[c] # "idle" \/ MayRun(c), OthersWait(c)
    PROVE  /\ Alone'
           /\ \A d \in Clients \ {c} : pc[d] = "idle" /\ pc'[d] = "idle"
           /\ Counts(c)' => \A d \in Clients : Counts(d)'
  <1>1. \A d \in Clients \ {c} : pc[d] = "idle" /\ pc'[d] = "idle"
    BY DEF Alone, MayRun, OthersWait
  <1>2. Alone'
    BY <1>1 DEF Alone
  <1>3. \A d \in Clients \ {c} : Counts(d)'
    BY <1>1 DEF Counts
  <1> QED BY <1>1, <1>2, <1>3

LEMMA BeginOneByOne ==
    ASSUME Sequential, SeqInv, NEW c \in Clients, Begin(c)
    PROVE  Alone' /\ clashed' = {} /\ Limited' /\ \A d \in Clients : Counts(d)'
  <1>1. /\ OthersWait(c) /\ MayRun(c) /\ UNCHANGED <<now, notes>>
        /\ pc'[c] \in {"create_list", "update_get", "delete", "clear_notes", "write", "mark_items"}
    BY DEF SeqInv, Inv, Types, Begin, BeginCreate, BeginUpdate, BeginDelete, BeginClear,
           BeginWrite, BeginMark, At, Waits, OthersWait
  <1>2. Listed' \subseteq Listed
    BY <1>1 DEF Listed
  <1>3. \A d \in Clients \ {c} : Pending(d) = {}
    <2>1. Never \notin Ids
      OBVIOUS
    <2> QED BY <1>1, <2>1, OnlyOneRuns DEF SeqInv, Inv, Holds, Pending
  <1>4. clashed' = {}
    BY <1>3 DEF Begin, SeqInv
  <1>5. Counts(c)'
    BY <1>1 DEF Counts
  <1> QED BY <1>1, <1>2, <1>4, <1>5, FewerListed, OnlyOneRuns DEF SeqInv, Inv

\* A step that stores no note, and does not go on to store one.
LEMMA CalmOneByOne ==
    ASSUME Sequential, SeqInv, NEW c \in Clients, pc[c] # "idle" \/ MayRun(c), OthersWait(c),
           UNCHANGED <<now, notes>>,
           pc'[c] \notin {"create_put", "update_put", "mark_note_put"}
    PROVE  Alone' /\ Limited' /\ \A d \in Clients : Counts(d)'
  <1>1. Listed' \subseteq Listed
    BY DEF Listed
  <1>2. Counts(c)'
    BY DEF Counts
  <1> QED BY <1>1, <1>2, FewerListed, OnlyOneRuns DEF SeqInv, Inv

\* A note that c has read and nobody has written since is written back: the
\* limit holds, for the note was listed or the session has no other.
LEMMA RewrittenOneByOne ==
    ASSUME Sequential, SeqInv, NEW c \in Clients, MayRun(c), OthersWait(c),
           pc[c] \in {"update_put", "mark_note_put"}, pc'[c] \in {"idle", "mark_note"},
           StoreNotes([notes EXCEPT ![arg[c]] = val[c]]), now' = now
    PROVE  Alone' /\ Limited' /\ \A d \in Clients : Counts(d)'
  <1>1. arg[c] \in Notes /\ val[c] \in Note
    BY DEF SeqInv, Inv, Holds
  <1>2. notes' = [notes EXCEPT ![arg[c]] = val[c]]
    BY DEF StoreNotes
  <1>3. Limited'
    <2>1. CASE notes[arg[c]] # NoNote
      <3>1. notes[arg[c]].exp = val[c].exp
        BY <2>1 DEF SeqInv, Counts
      <3>2. Listed' \subseteq Listed
        BY <1>1, <1>2, <2>1, <3>1 DEF Listed, Expired, SeqInv, Inv, Types
      <3> QED BY <3>2, FewerListed DEF SeqInv
    <2>2. CASE notes[arg[c]] = NoNote
      <3>1. \A n \in Notes : notes[n] = NoNote
        BY <2>2 DEF SeqInv, Counts, NoNotes
      <3>2. Listed = {}
        BY <3>1 DEF Listed
      <3>3. Listed' \subseteq Listed \cup {arg[c]}
        BY <1>1, <1>2, <3>1 DEF Listed, SeqInv, Inv, Types
      <3>4. Cardinality(Listed) < MaxNotes /\ IsFiniteSet(Listed)
        BY <3>2, FS_EmptySet
      <3> QED BY <3>3, <3>4, OneMoreListed
    <2> QED BY <2>1, <2>2
  <1>4. Counts(c)'
    BY DEF Counts
  <1> QED BY <1>3, <1>4, OnlyOneRuns DEF SeqInv, Inv

LEMMA ContinueOneByOne ==
    ASSUME Sequential, SeqInv, NEW c \in Clients, Continue(c)
    PROVE  Alone' /\ Limited' /\ \A d \in Clients : Counts(d)'
  <1>1. MayRun(c)
    BY DEF Continue, At, CreateList, CreatePut, CreateExpire, UpdateGet, UpdatePut, Delete,
           ClearNotes, ClearItems, Write, MarkListItems, MarkItemPut, MarkListNotes,
           MarkNoteGet, MarkNotePut, MarkEnds
  <1>2. ASSUME Ends(c) PROVE OthersWait(c) /\ pc'[c] = "idle"
    BY <1>2, EndsIsFine DEF Ends, SeqInv, Inv, Types
  <1>3. CASE CreateList(c)
    <2>1. CASE Ends(c)
      BY <1>1, <1>2, <1>3, <2>1, CalmOneByOne DEF CreateList
    <2>2. CASE ~Ends(c)
      <3>1. /\ OthersWait(c) /\ pc'[c] = "create_put" /\ UNCHANGED <<now, notes>>
            /\ ~(Cardinality(Listed) >= MaxNotes)
        BY <1>3, <2>2 DEF CreateList, Waits, OthersWait, SeqInv, Inv, Types
      <3>2. Listed' = Listed
        BY <3>1 DEF Listed
      <3>3. Limited' /\ Cardinality(Listed) \in Nat
        BY <3>2, FewerListed DEF SeqInv
      <3>4. Counts(c)'
        BY <3>1, <3>2, <3>3 DEF Counts
      <3> QED BY <1>1, <3>1, <3>3, <3>4, OnlyOneRuns DEF SeqInv, Inv
    <2> QED BY <2>1, <2>2
  <1>4. CASE CreatePut(c)
    <2>1. arg[c] \in Notes /\ Cardinality(Listed) < MaxNotes /\ IsFiniteSet(Listed)
      BY <1>4 DEF SeqInv, Inv, Holds, Counts, Limited, CreatePut, At
    <2>2. notes' = [notes EXCEPT ![arg[c]] = val[c]] /\ now' = now
      BY <1>4 DEF CreatePut, StoreNotes
    <2>3. Listed' \subseteq Listed \cup {arg[c]}
      BY <2>1, <2>2 DEF Listed, SeqInv, Inv, Types
    <2>4. OthersWait(c) /\ pc'[c] \in {"idle", "create_expire"}
      BY <1>2, <1>4 DEF CreatePut, Waits, OthersWait, SeqInv, Inv, Types
    <2>5. Counts(c)'
      BY <2>4 DEF Counts
    <2> QED BY <1>1, <2>1, <2>3, <2>4, <2>5, OneMoreListed, OnlyOneRuns DEF SeqInv, Inv
  <1>5. CASE UpdateGet(c)
    <2>1. CASE Ends(c)
      BY <1>1, <1>2, <1>5, <2>1, CalmOneByOne DEF UpdateGet
    <2>2. CASE ~Ends(c)
      <3>1. arg[c] \in Notes /\ val[c] \in Note
        BY <1>5 DEF SeqInv, Inv, Holds, UpdateGet, At
      <3>2. /\ OthersWait(c) /\ pc'[c] = "update_put" /\ UNCHANGED <<now, notes, arg>>
            /\ notes[arg[c]] # NoNote /\ val'[c] = [notes[arg[c]] EXCEPT !.text = val[c].text]
        <4>1. /\ pc' = [pc EXCEPT ![c] = "update_put"] /\ notes[arg[c]] # NoNote
              /\ val' = [val EXCEPT ![c] = [notes[arg[c]] EXCEPT !.text = val[c].text]]
              /\ UNCHANGED <<now, notes, arg, todo, seenNotes, seenItems>>
          BY <1>5, <2>2 DEF UpdateGet, Waits
        <4> QED BY <4>1 DEF OthersWait, SeqInv, Inv, Types
      <3>3. notes[arg[c]] \in Note
        BY <3>1, <3>2 DEF SeqInv, Inv, Types
      <3>4. val'[c].exp = notes[arg[c]].exp
        BY <3>2, <3>3 DEF Note
      <3>5. Counts(c)'
        BY <3>2, <3>4 DEF Counts
      <3>6. Listed' \subseteq Listed
        BY <3>2 DEF Listed
      <3> QED BY <1>1, <3>2, <3>5, <3>6, FewerListed, OnlyOneRuns DEF SeqInv, Inv
    <2> QED BY <2>1, <2>2
  <1>6. CASE MarkNoteGet(c)
    <2>1. CASE Ends(c)
      BY <1>1, <1>2, <1>6, <2>1, CalmOneByOne DEF MarkNoteGet
    <2>2. CASE ~Ends(c)
      <3>1. PICK n \in Notes :
              /\ notes[n] # NoNote /\ arg' = [arg EXCEPT ![c] = n]
              /\ val' = [val EXCEPT ![c] = [notes[n] EXCEPT !.active = seenNotes[c][n].active + 1]]
        BY <1>6, <2>2 DEF MarkNoteGet
      <3>2. OthersWait(c) /\ pc'[c] = "mark_note_put" /\ UNCHANGED <<now, notes>>
        BY <1>6, <2>2 DEF MarkNoteGet, Waits, OthersWait, SeqInv, Inv, Types
      <3>3. arg'[c] = n /\ val'[c] = [notes[n] EXCEPT !.active = seenNotes[c][n].active + 1]
            /\ notes[n] \in Note
        BY <3>1 DEF SeqInv, Inv, Types
      <3>4. val'[c].exp = notes[n].exp
        BY <3>3 DEF Note
      <3>5. Counts(c)'
        BY <3>1, <3>2, <3>3, <3>4 DEF Counts
      <3>6. Listed' \subseteq Listed
        BY <3>2 DEF Listed
      <3> QED BY <1>1, <3>2, <3>5, <3>6, FewerListed, OnlyOneRuns DEF SeqInv, Inv
    <2> QED BY <2>1, <2>2
  <1>7. CASE UpdatePut(c)
    BY <1>1, <1>2, <1>7, RewrittenOneByOne DEF UpdatePut, At
  <1>8. CASE MarkNotePut(c)
    <2>1. OthersWait(c) /\ pc'[c] = "mark_note"
      BY <1>8 DEF MarkNotePut, Waits, OthersWait, SeqInv, Inv, Types
    <2> QED BY <1>1, <1>8, <2>1, RewrittenOneByOne DEF MarkNotePut, At
  <1>9. CASE Delete(c) \/ ClearNotes(c)
    <2>1. OthersWait(c) /\ pc'[c] \in {"idle", "clear_items"} /\ now' = now
      BY <1>2, <1>9 DEF Delete, ClearNotes, Waits, OthersWait, SeqInv, Inv, Types
    <2>2. Listed' \subseteq Listed
      BY <1>9, <2>1 DEF Delete, ClearNotes, StoreNotes, Listed, SeqInv, Inv, Types
    <2>3. Counts(c)'
      BY <2>1 DEF Counts
    <2> QED BY <1>1, <2>1, <2>2, <2>3, FewerListed, OnlyOneRuns DEF SeqInv, Inv
  <1>10. CASE CreateExpire(c) \/ ClearItems(c) \/ Write(c) \/ MarkEnds(c)
    BY <1>1, <1>2, <1>10, CalmOneByOne DEF CreateExpire, ClearItems, Write, MarkEnds
  <1>11. CASE MarkListItems(c) \/ MarkItemPut(c) \/ MarkListNotes(c)
    <2>1. OthersWait(c) /\ pc'[c] \in {"mark_item_put", "mark_note"} /\ UNCHANGED <<now, notes>>
      BY <1>11 DEF MarkListItems, MarkItemPut, MarkListNotes, At, Waits, OthersWait,
                  SeqInv, Inv, Types
    <2> QED BY <1>1, <2>1, CalmOneByOne
  <1> QED BY <1>3, <1>4, <1>5, <1>6, <1>7, <1>8, <1>9, <1>10, <1>11 DEF Continue

LEMMA TickOneByOne ==
    ASSUME SeqInv, Tick
    PROVE  Alone' /\ Limited' /\ \A d \in Clients : Counts(d)'
  <1>1. /\ now' = now + 1 /\ now \in Nat /\ UNCHANGED <<pc, arg, val>>
        /\ notes' = notes \/ notes' = [n \in Notes |-> NoNote]
    BY DEF Tick, StoreNotes, callVars, SeqInv, Inv, Types, Times
  <1>2. Listed' \subseteq Listed
    <2>1. CASE notes' = notes
      <3>1. ASSUME NEW n \in Notes, notes[n] # NoNote, Expired(notes[n], now)
            PROVE  Expired(notes[n], now')
        <4>1. notes[n].exp \in Nat
          BY <3>1 DEF SeqInv, Inv, Types, Note, Times, Expired
        <4> QED BY <1>1, <3>1, <4>1 DEF Expired
      <3> QED BY <2>1, <3>1 DEF Listed
    <2>2. CASE notes' = [n \in Notes |-> NoNote]
      BY <2>2 DEF Listed
    <2> QED BY <1>1, <2>1, <2>2
  <1>3. /\ Limited' /\ Cardinality(Listed') <= Cardinality(Listed)
        /\ Cardinality(Listed) \in Nat /\ Cardinality(Listed') \in Nat
    BY <1>2, FewerListed DEF SeqInv
  <1>4. ASSUME NEW d \in Clients PROVE Counts(d)'
    <2>1. pc[d] = "create_put" => Cardinality(Listed') < MaxNotes
      BY <1>3 DEF SeqInv, Counts
    <2>2. ASSUME pc[d] \in {"update_put", "mark_note_put"}
          PROVE  /\ notes'[arg[d]] # NoNote => notes'[arg[d]].exp = val[d].exp
                 /\ notes'[arg[d]] = NoNote => NoNotes'
      <3>1. arg[d] \in Notes
        BY <2>2 DEF SeqInv, Inv, Holds
      <3> QED BY <1>1, <2>2, <3>1 DEF SeqInv, Counts, NoNotes
    <2> QED BY <1>1, <2>1, <2>2 DEF Counts
  <1> QED BY <1>1, <1>3, <1>4 DEF SeqInv, Alone

LEMMA SeqInvInitial ==
    Init => SeqInv
  <1> SUFFICES ASSUME Init PROVE SeqInv
    OBVIOUS
  <1>1. Listed = {} /\ Alone /\ clashed = {} /\ \A c \in Clients : Counts(c)
    BY DEF Init, Listed, Alone, Counts
  <1>2. Limited
    BY <1>1, FS_EmptySet DEF Limited
  <1> QED BY <1>1, <1>2, InvInitial DEF SeqInv

LEMMA SeqInvKept ==
    ASSUME Sequential, SeqInv, [Next]_vars
    PROVE  SeqInv'
  <1>1. Inv'
    BY InvKept DEF SeqInv
  <1>2. CASE Tick /\ UNCHANGED clashed
    BY <1>1, <1>2, TickOneByOne DEF SeqInv
  <1>3. ASSUME NEW c \in Clients, Begin(c) PROVE SeqInv'
    BY <1>1, <1>3, BeginOneByOne DEF SeqInv
  <1>4. ASSUME NEW c \in Clients, Continue(c), UNCHANGED clashed PROVE SeqInv'
    BY <1>1, <1>4, ContinueOneByOne DEF SeqInv
  <1>5. ASSUME NEW c \in Clients, CallFails(c), UNCHANGED clashed PROVE SeqInv'
    <2>1. pc[c] # "idle" /\ OthersWait(c) /\ pc'[c] = "idle" /\ UNCHANGED <<now, notes>>
      BY <1>5, EndsIsFine DEF CallFails, Ends, SeqInv, Inv, Types
    <2> QED BY <1>1, <1>5, <2>1, CalmOneByOne DEF SeqInv
  <1>6. CASE UNCHANGED vars
    <2>1. Listed' = Listed /\ UNCHANGED <<now, notes, pc, arg, val, clashed>>
      BY <1>6 DEF vars, callVars, Listed
    <2>2. Alone' /\ Limited' /\ clashed' = {} /\ \A c \in Clients : Counts(c)'
      BY <2>1, FewerListed DEF SeqInv, Alone, Counts, NoNotes
    <2> QED BY <1>1, <2>2 DEF SeqInv
  <1> QED BY <1>2, <1>3, <1>4, <1>5, <1>6 DEF Next

LEMMA SeqInvAlways ==
    Spec => [](Sequential => SeqInv)
  <1>1. (Sequential => SeqInv) /\ [Next]_vars => (Sequential => SeqInv)'
    <2> SUFFICES ASSUME Sequential => SeqInv, [Next]_vars, Sequential' PROVE SeqInv'
      OBVIOUS
    <2>1. Sequential
      BY DEF Sequential, Next, vars
    <2> QED BY <2>1, SeqInvKept
  <1> QED BY <1>1, SeqInvInitial, PTL DEF Spec

\* One operation of the session at a time, create_note() never stores a note beyond
\* max_notes_per_session: neither the notes Redis drops nor the ones that are
\* rewritten in between make room for one too many.
THEOREM NoteLimitHolds ==
    Spec => []NoteLimit
  <1>1. (Sequential => SeqInv) => NoteLimit
    BY DEF SeqInv, Limited, NoteLimit
  <1> QED BY <1>1, SeqInvAlways, PTL
=============================================================================
