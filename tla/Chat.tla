-------------------------------- MODULE Chat --------------------------------
(***************************************************************************)
(* One conversation on one device: what is stored, what is shown, and what *)
(* the user does to it meanwhile (web/src/state/messaging.ts, sync.ts,     *)
(* attachments.ts and ui/ChatView.tsx).                                    *)
(*                                                                         *)
(* The server's entries are applied one after the other, under a lock.     *)
(* Sending, editing and deleting take no lock.  All of them wait for the   *)
(* database, which serves its requests in the order they were made         *)
(* (store/db.ts): a request is served together with the code that runs     *)
(* from its answer up to the next await.                                   *)
(***************************************************************************)
EXTENDS Integers, Sequences, FiniteSets

CONSTANTS
    Bodies,       \* what a text may say
    Bubbles,      \* the messages this device sends
    LateFrames,   \* whether a frame may wait for the lock while a page with its
                  \* message and later entries is applied
    Scenes,       \* bound: what a behaviour may look at, one of these for each:
                  \*   does   what the user does: some of "send", "edit", "delete", "leave";
                  \*          with "admin" he is an administrator
                  \*   last   the last number the server assigns
    MaxSeq,       \* the largest of these numbers
    MaxLoads      \* bound: loads of the history asked for and not yet served

\* What stands for no text, no bubble or a stage of sending is none itself.
ASSUME ChatAssumption ==
    /\ Bodies \cap {"none", "absent", "no", "file", "upload", "accepted", "over", "dismissed"} = {}
    /\ "none" \notin Bubbles
    /\ LateFrames \in BOOLEAN /\ MaxSeq \in Nat /\ MaxLoads \in Nat
    /\ \A c \in Scenes : /\ c.does \subseteq {"send", "edit", "delete", "leave", "admin"}
                          /\ c.last \in 1..MaxSeq

VARIABLES
    log,       \* the entries the server has numbered
    gone,      \* the messages it has dropped
    store,     \* the messages in the database
    list,      \* the messages in memory (messages), or NotLoaded
    conv,      \* the conversation's record
    requests,  \* what the database has been asked
    job,       \* the entry being applied, or 0
    pending,   \* the bubbles of messages on their way
    sent,      \* how far each of them is
    edit,      \* the edit under way
    del,       \* the deletion under way
    composer,  \* the message being edited in the composer, as it was then
    open,      \* whether the conversation is on the screen
    seen,      \* what the last effect saw
    missed,    \* whether an effect ran on a hidden page
    undone,    \* history: whether an edit was taken back that others may see
    rewound,   \* history: whether a copy older than the record was written back
    scene      \* what the user does in this behaviour

wire == <<log, gone>>
local == <<store, list, conv, requests, job>>
outgoing == <<pending, sent>>
screen == <<open, seen, missed>>
history == <<undone, rewound, scene>>
vars == <<wire, local, outgoing, edit, del, composer, screen, history>>

Absent    == [body |-> "absent", edited |-> FALSE]
NotLoaded == <<>>
NoPreview == [seq |-> 0, body |-> "none"]
NoEdit    == [at |-> "idle", seq |-> 0, body |-> "none", old |-> Absent]
NoDel     == [at |-> "idle", seq |-> 0]
NotEditing == [seq |-> 0, was |-> Absent]

Positions == 1..MaxSeq
Later(m, n) == IF m >= n THEN m ELSE n

\* An entry: a message, the edit of a text or the record of a deletion.
Message(k, by, body, bubble) == [k |-> k, by |-> by, body |-> body, ref |-> 0, bubble |-> bubble]
Edit(by, ref, body)          == [k |-> "edit", by |-> by, body |-> body, ref |-> ref, bubble |-> "none"]
Deletion(ref)                == [k |-> "delete", by |-> "me", body |-> "none", ref |-> ref, bubble |-> "none"]

IsMessage(i) == log[i].k \in {"text", "file"}

\* What the composer's effect depends on.
Shown == IF list = NotLoaded THEN {} ELSE {i \in Positions : list[i] # Absent}
Deps  == <<Cardinality(Shown), Cardinality({b \in Bubbles : pending[b] # "none"}), conv.last>>
Unseen == <<>>

Init ==
    /\ log = <<>> /\ gone = {}
    /\ store = [i \in Positions |-> Absent]
    /\ list = NotLoaded
    /\ conv = [synced |-> 0, read |-> 0, last |-> 0, preview |-> NoPreview]
    /\ requests = <<>> /\ job = 0
    /\ pending = [b \in Bubbles |-> "none"] /\ sent = [b \in Bubbles |-> "no"]
    /\ edit = NoEdit /\ del = NoDel /\ composer = NotEditing
    /\ open = FALSE /\ seen = Unseen /\ missed = FALSE /\ undone = FALSE /\ rewound = FALSE /\ scene \in Scenes

Ask(r) == requests' = Append(requests, r)

(***************************************************************************)
(* The server and the other devices.                                       *)
(***************************************************************************)
Room == Len(log) < scene.last
Kept == {i \in DOMAIN log : IsMessage(i) /\ i \notin gone}

\* The server drops the message and appends a record.
Drop(i) == gone' = gone \cup {i} /\ log' = Append(log, Deletion(i))

Elsewhere ==
    /\ Room
    /\ \/ \E by \in {"me", "them"}, body \in Bodies :
             log' = Append(log, Message("text", by, body, "none")) /\ UNCHANGED gone
       \/ \E i \in Kept, body \in Bodies : log[i].k = "text" /\ log[i].body # body
             /\ log' = Append(log, Edit(log[i].by, i, body)) /\ UNCHANGED gone
       \/ \E i \in Kept : Drop(i)
    /\ UNCHANGED <<local, outgoing, edit, del, composer, screen, history>>

(***************************************************************************)
(* Applying entries.                                                       *)
(***************************************************************************)
\* The text of a message after the edits the server has.
LatestBody(i) ==
    LET edits == {k \in DOMAIN log : log[k].k = "edit" /\ log[k].ref = i}
    IN  IF edits = {} THEN log[i].body ELSE log[CHOOSE k \in edits : \A j \in edits : j <= k].body

\* A frame brings the next entry, a page the next that was not dropped.
IsNext(i) == i > conv.synced /\ (i - 1 = conv.synced \/ (conv.synced + 1)..(i - 1) \subseteq gone)

Request(op, who, seq, text) == [op |-> op, who |-> who, seq |-> seq, text |-> text, copy |-> conv]

\* handleIncoming and the beginning of applyStored, applyEdit and applyDeletion.
Begin(i) ==
    /\ IsNext(i) \/ (LateFrames /\ i <= conv.synced /\ IsMessage(i))
    /\ job' = i
    /\ Ask(CASE IsMessage(i)      -> Request("put", "job", i, [body |-> log[i].body, edited |-> FALSE])
             [] log[i].k = "edit" -> Request("find", "job", log[i].ref, [body |-> log[i].body, edited |-> TRUE])
             [] OTHER             -> Request("delete", "job", log[i].ref, Absent))
    /\ UNCHANGED <<wire, store, list, conv, outgoing, edit, del, composer, screen, history>>

HandleIncoming == job = 0 /\ \E i \in DOMAIN log : Begin(i)

\* Mutant: the copy's preview stays although the message is newer.
AppliedOldPreview(copy, i, text) ==
    [copy EXCEPT !.synced = Later(@, i), !.last = Later(@, i),
                 !.preview = IF @ = NoPreview THEN [seq |-> i, body |-> text.body] ELSE @,
                 !.read = IF log[i].by = "me" THEN Later(@, i) ELSE @]

\* applyStored: what is written into the copy of the record.
Applied(copy, i, text) ==
    [copy EXCEPT !.synced = Later(@, i), !.last = Later(@, i),
                 !.preview = IF @ = NoPreview \/ i >= copy.synced
                             THEN [seq |-> i, body |-> text.body] ELSE @,
                 !.read = IF log[i].by = "me" THEN Later(@, i) ELSE @]

\* advanceSilently: an edit or a deletion is not something to read.
Advanced(c, i) ==
    [c EXCEPT !.synced = Later(@, i), !.last = Later(@, i),
              !.read = IF @ = i - 1 THEN i ELSE @]

\* The message takes the place of its bubble.
Echoed(i) == pending' = [b \in Bubbles |-> IF log[i].bubble = b THEN "none" ELSE pending[b]]

(***************************************************************************)
(* The database serves its oldest request.                                 *)
(***************************************************************************)
Served == Tail(requests)
InList(i, text) == IF list = NotLoaded THEN list ELSE [list EXCEPT ![i] = text]

\* Whoever waited goes on.
Resume(who, c) ==
    /\ conv' = IF who = "job" THEN Advanced(c, job) ELSE c
    /\ job' = IF who = "job" THEN 0 ELSE job
    /\ edit' = CASE who = "edit"     -> [edit EXCEPT !.at = "sending"]
                 [] who = "rollback" -> NoEdit
                 [] OTHER            -> edit
    /\ del' = IF who = "delete" THEN NoDel ELSE del

\* putMessage, then the rest of applyStored.
PutMessage(r) ==
    /\ r.op = "put"
    /\ store' = [store EXCEPT ![r.seq] = r.text]
    /\ list' = IF r.seq \in Shown THEN list ELSE InList(r.seq, r.text)
    /\ conv' = Applied(r.copy, r.seq, r.text)
    /\ Echoed(r.seq)
    /\ requests' = Served /\ job' = 0
    /\ UNCHANGED <<edit, del, rewound>>

\* messageByClientId, in applyEdit.
FindOriginal(r) ==
    /\ r.op = "find"
    /\ IF store[r.seq] # Absent /\ IsMessage(r.seq)
       THEN /\ requests' = Append(Served, [r EXCEPT !.op = "get"])
            /\ UNCHANGED <<conv, job, edit, del>>
       ELSE requests' = Served /\ Resume(r.who, conv)
    /\ UNCHANGED <<store, list, pending, rewound>>

\* getMessage, in setMessageBody.
GetMessage(r) ==
    /\ r.op = "get"
    /\ IF store[r.seq] # Absent
       THEN /\ requests' = Append(Served, [r EXCEPT !.op = "rewrite"])
            /\ UNCHANGED <<conv, job, edit, del>>
       ELSE requests' = Served /\ Resume(r.who, conv)
    /\ UNCHANGED <<store, list, pending, rewound>>

\* Mutant: what is in memory is not rewritten.
SetMessageBodyStored(r) ==
    /\ r.op = "rewrite"
    /\ store' = [store EXCEPT ![r.seq] = r.text]
    /\ UNCHANGED list
    /\ Resume(r.who, IF conv.preview.seq = r.seq THEN [conv EXCEPT !.preview.body = r.text.body] ELSE conv)
    /\ requests' = Served
    /\ UNCHANGED <<pending, rewound>>

\* putMessage and the rest of setMessageBody.
SetMessageBody(r) ==
    /\ r.op = "rewrite"
    /\ store' = [store EXCEPT ![r.seq] = r.text]
    /\ list' = IF r.seq \in Shown THEN InList(r.seq, r.text) ELSE list
    /\ Resume(r.who, IF conv.preview.seq = r.seq THEN [conv EXCEPT !.preview.body = r.text.body] ELSE conv)
    /\ requests' = Served
    /\ UNCHANGED <<pending, rewound>>

\* removeLocalMessage up to latestPreview; the record is copied before that.
RemoveLocalMessage(r) ==
    /\ r.op = "delete"
    /\ store' = [store EXCEPT ![r.seq] = Absent]
    /\ list' = InList(r.seq, Absent)
    /\ IF conv.preview.seq = r.seq
       THEN /\ requests' = Append(Served, [r EXCEPT !.op = "latest", !.copy = conv])
            /\ UNCHANGED <<conv, job, edit, del>>
       ELSE requests' = Served /\ Resume(r.who, conv)
    /\ UNCHANGED <<pending, rewound>>

\* latestPreview: the last message in the database.
LatestOf(messages) ==
    LET there == {i \in Positions : messages[i] # Absent}
        i == CHOOSE j \in there : \A k \in there : k <= j
    IN  IF there = {} THEN NoPreview ELSE [seq |-> i, body |-> messages[i].body]

LatestPreview(r) ==
    /\ r.op = "latest"
    /\ Resume(r.who, [r.copy EXCEPT !.preview = LatestOf(store)])
    /\ rewound' = (rewound \/ [r.copy EXCEPT !.preview = conv.preview] # conv)
    /\ requests' = Served
    /\ UNCHANGED <<store, list, pending>>

\* messagesFor, in ensureMessagesLoaded.
Loaded(r) ==
    /\ r.op = "load"
    /\ list' = store
    /\ requests' = Served
    /\ UNCHANGED <<store, conv, job, edit, del, pending, rewound>>

Database ==
    /\ requests # <<>>
    /\ LET r == Head(requests) IN
          \/ PutMessage(r) \/ FindOriginal(r) \/ GetMessage(r) \/ SetMessageBody(r)
          \/ RemoveLocalMessage(r) \/ LatestPreview(r) \/ Loaded(r)
    /\ UNCHANGED <<wire, sent, composer, screen, undone, scene>>

(***************************************************************************)
(* Sending.                                                                *)
(***************************************************************************)
Unsent(b) == "send" \in scene.does /\ sent[b] = "no" /\ open

SetSent(b, s) == sent' = [sent EXCEPT ![b] = s]
SetPending(b, s) == pending' = [pending EXCEPT ![b] = s]

\* submit without an edit, sendPayload.
SubmitText(b) == \E body \in Bodies :
    /\ Unsent(b) /\ composer = NotEditing
    /\ SetPending(b, "sending")
    /\ SetSent(b, body)
    /\ UNCHANGED <<wire, local, edit, del, composer, screen, history>>

\* sendFiles, sendFile: a bubble for the upload, then one for the message.  The
\* composer may hold an edit meanwhile.
SendFile(b) ==
    /\ Unsent(b)
    /\ SetPending(b, "uploading")
    /\ SetSent(b, "upload")
    /\ UNCHANGED <<wire, local, edit, del, composer, screen, history>>

UploadEnds(b) ==
    /\ sent[b] = "upload"
    /\ \/ SetPending(b, "sending") /\ SetSent(b, "file")
       \/ SetPending(b, "failed") /\ SetSent(b, "over")
    /\ UNCHANGED <<wire, local, edit, del, composer, screen, history>>

\* http.send: the server accepts it.
Accept(b) ==
    /\ Room /\ sent[b] \in Bodies \cup {"file"}
    /\ log' = Append(log, Message(IF sent[b] = "file" THEN "file" ELSE "text", "me", sent[b], b))
    /\ SetSent(b, "accepted")
    /\ UNCHANGED <<gone, local, pending, edit, del, composer, screen, history>>

\* Mutant: the bubble goes with the answer.
AnswerSendClears(b) ==
    /\ sent[b] = "accepted"
    /\ SetSent(b, "over")
    /\ SetPending(b, "none")
    /\ UNCHANGED <<wire, local, edit, del, composer, screen, history>>

\* The answer arrives, or it is lost and a bubble that is still there fails.
AnswerSend(b) ==
    /\ sent[b] = "accepted"
    /\ SetSent(b, "over")
    /\ \/ UNCHANGED pending
       \/ SetPending(b, IF pending[b] = "none" THEN "none" ELSE "failed")
    /\ UNCHANGED <<wire, local, edit, del, composer, screen, history>>

\* The request fails.
SendFails(b) ==
    /\ sent[b] \in Bodies \cup {"file"}
    /\ SetSent(b, "over")
    /\ SetPending(b, "failed")
    /\ UNCHANGED <<wire, local, edit, del, composer, screen, history>>

\* What a bubble under way shows; only one that failed may be dismissed.
PendingBubble(b) ==
    CASE pending[b] = "none"   -> {}
      [] pending[b] = "failed" -> {"reason", "dismiss"}
      [] OTHER                 -> {pending[b]}

DismissPending(b) ==
    /\ "dismiss" \in PendingBubble(b)
    /\ SetPending(b, "none")
    /\ sent' = [sent EXCEPT ![b] = "dismissed"]
    /\ UNCHANGED <<wire, local, edit, del, composer, screen, history>>

(***************************************************************************)
(* Editing.                                                                *)
(***************************************************************************)
\* What the menu of a message offers: to edit one's own texts, to delete one's
\* own messages or, as an administrator, anybody's.
Bubble(i) ==
    IF ~open \/ i \notin Shown THEN {}
    ELSE LET mine == log[i].by = "me" IN
         {what \in {"edit", "delete"} : IF what = "edit" THEN mine /\ log[i].k = "text"
                                        ELSE mine \/ "admin" \in scene.does}

StartEdit(i) ==
    /\ "edit" \in scene.does /\ "edit" \in Bubble(i)
    /\ composer' = [seq |-> i, was |-> list[i]]
    /\ UNCHANGED <<wire, local, outgoing, edit, del, screen, history>>

\* onKey: the arrow up in an empty composer edits the last of one's own texts.
EditLast ==
    /\ composer = NotEditing
    /\ \E i \in Shown : /\ StartEdit(i)
                        /\ \A k \in Shown : "edit" \in Bubble(k) => k <= i

\* cancelEdit, or submit with the text unchanged.
CancelEdit ==
    /\ composer # NotEditing
    /\ composer' = NotEditing
    /\ UNCHANGED <<wire, local, outgoing, edit, del, screen, history>>

\* submit and the beginning of editText; one edit at a time.
EditText == \E body \in Bodies \ {composer.was.body} :
    /\ composer # NotEditing /\ edit = NoEdit
    /\ composer' = NotEditing
    /\ edit' = [at |-> "local", seq |-> composer.seq, body |-> body, old |-> composer.was]
    /\ Ask(Request("get", "edit", composer.seq, [body |-> body, edited |-> TRUE]))
    /\ UNCHANGED <<wire, store, list, conv, job, outgoing, del, screen, history>>

AcceptEdit ==
    /\ Room /\ edit.at = "sending"
    /\ log' = Append(log, Edit("me", edit.seq, edit.body))
    /\ edit' = [edit EXCEPT !.at = "accepted"]
    /\ UNCHANGED <<gone, local, outgoing, del, composer, screen, history>>

EditAnswered ==
    /\ edit.at = "accepted"
    /\ edit' = NoEdit
    /\ UNCHANGED <<wire, local, outgoing, del, composer, screen, history>>

\* Mutant: the new text stays.
EditFailsSilently ==
    /\ edit.at \in {"sending", "accepted"}
    /\ edit' = NoEdit
    /\ UNCHANGED <<wire, local, outgoing, del, composer, screen, history>>

\* The request fails or its answer is lost: the text is put back as the composer
\* had found it.
EditFails ==
    /\ edit.at \in {"sending", "accepted"}
    /\ edit' = [edit EXCEPT !.at = "rollback"]
    /\ Ask(Request("get", "rollback", edit.seq, edit.old))
    /\ undone' = (undone \/ edit.at = "accepted" \/ LatestBody(edit.seq) # edit.old.body)
    /\ UNCHANGED <<wire, store, list, conv, job, outgoing, del, composer, screen, rewound, scene>>

(***************************************************************************)
(* Deleting.                                                               *)
(***************************************************************************)
\* "delete" in the menu and in the dialog after it, deleteMessage.
DeleteMessage(i) ==
    /\ "delete" \in scene.does /\ "delete" \in Bubble(i) /\ Room /\ i \notin gone /\ del = NoDel
    /\ Drop(i)
    /\ del' = [at |-> "sent", seq |-> i]
    /\ UNCHANGED <<local, outgoing, edit, composer, screen, history>>

DeleteAnswered ==
    /\ del.at = "sent"
    /\ \/ /\ del' = [del EXCEPT !.at = "local"]
          /\ Ask(Request("delete", "delete", del.seq, Absent))
       \/ del' = NoDel /\ UNCHANGED requests
    /\ UNCHANGED <<wire, store, list, conv, job, outgoing, edit, composer, screen, history>>

(***************************************************************************)
(* The screen.                                                             *)
(***************************************************************************)
\* The conversation is selected: ensureMessagesLoaded, and an empty composer.
Open ==
    /\ ~open /\ Cardinality({i \in DOMAIN requests : requests[i].op = "load"}) < MaxLoads
    /\ open' = TRUE /\ seen' = Unseen /\ missed' = FALSE
    /\ IF list = NotLoaded THEN Ask(Request("load", "open", 1, Absent)) ELSE UNCHANGED requests
    /\ UNCHANGED <<wire, store, list, conv, job, outgoing, edit, del, composer, history>>

Close ==
    /\ "leave" \in scene.does /\ open
    /\ open' = FALSE /\ seen' = Unseen /\ missed' = FALSE
    /\ composer' = NotEditing
    /\ UNCHANGED <<wire, local, outgoing, edit, del, history>>

\* Mutant: only the conversation matters.
DueOnce == open /\ seen = Unseen

\* The effect runs after the messages, the bubbles or the last position changed.
Due == open /\ seen # Deps

\* The messages are marked as read, if the page is visible.
Effect ==
    /\ Due
    /\ seen' = Deps
    /\ \/ missed' = FALSE /\ conv' = [conv EXCEPT !.read = Later(@, conv.last)]
       \/ "leave" \in scene.does /\ missed' = TRUE /\ UNCHANGED conv
    /\ UNCHANGED <<wire, store, list, requests, job, outgoing, edit, del, composer, open, history>>

\* onEvent, read.updated: another device has read further.
ReadElsewhere == \E i \in DOMAIN log :
    /\ "leave" \in scene.does /\ i > conv.read
    /\ conv' = [conv EXCEPT !.read = i]
    /\ UNCHANGED <<wire, store, list, requests, job, outgoing, edit, del, composer, screen, history>>

Next ==
    \/ Elsewhere \/ HandleIncoming \/ Database
    \/ \E b \in Bubbles : \/ SubmitText(b) \/ SendFile(b) \/ UploadEnds(b) \/ Accept(b)
                          \/ AnswerSend(b) \/ SendFails(b) \/ DismissPending(b)
    \/ \E i \in Positions : StartEdit(i) \/ DeleteMessage(i)
    \/ EditLast \/ CancelEdit \/ EditText \/ AcceptEdit \/ EditAnswered \/ EditFails
    \/ DeleteAnswered \/ Open \/ Close \/ Effect \/ ReadElsewhere

Spec == Init /\ [][Next]_vars

(***************************************************************************)
(* Type invariant.                                                         *)
(***************************************************************************)
Texts    == [body : Bodies \cup {"file", "absent"}, edited : BOOLEAN]
Record   == [synced : 0..MaxSeq, read : 0..MaxSeq, last : 0..MaxSeq,
             preview : [seq : 0..MaxSeq, body : Bodies \cup {"file", "none"}]]

\* Every variable has its type; whoever waits for the database has one request.
TypeOK ==
    /\ Len(log) <= MaxSeq /\ gone \subseteq DOMAIN log
    /\ \A i \in DOMAIN log : log[i] \in [k : {"text", "file", "edit", "delete"}, by : {"me", "them"},
                                         body : Bodies \cup {"file", "none"}, ref : 0..(i - 1),
                                         bubble : Bubbles \cup {"none"}]
    /\ store \in [Positions -> Texts] /\ list \in [Positions -> Texts] \cup {NotLoaded}
    /\ conv \in Record
    /\ \A i \in DOMAIN requests :
          /\ requests[i] \in [op : {"put", "find", "get", "rewrite", "delete", "latest", "load"},
                              who : {"job", "edit", "rollback", "delete", "open"},
                              seq : Positions, text : Texts, copy : Record]
          /\ \A k \in DOMAIN requests : requests[i].who = requests[k].who /\ requests[i].who # "open" => i = k
    /\ job \in 0..MaxSeq
    /\ (job # 0) = (\E i \in DOMAIN requests : requests[i].who = "job")
    /\ pending \in [Bubbles -> {"none", "uploading", "sending", "failed"}]
    /\ sent \in [Bubbles -> Bodies \cup {"no", "upload", "file", "accepted", "over", "dismissed"}]
    /\ edit \in [at : {"idle", "local", "sending", "accepted", "rollback"}, seq : 0..MaxSeq,
                 body : Bodies \cup {"none"}, old : Texts]
    /\ del \in [at : {"idle", "sent", "local"}, seq : 0..MaxSeq]
    /\ composer \in [seq : 0..MaxSeq, was : Texts]
    /\ open \in BOOLEAN /\ missed \in BOOLEAN /\ undone \in BOOLEAN
    /\ rewound \in BOOLEAN /\ scene \in Scenes

(***************************************************************************)
(* Safety.                                                                 *)
(***************************************************************************)
\* Nothing is under way and everything has been applied.
Settled == /\ requests = <<>> /\ job = 0 /\ edit = NoEdit /\ del = NoDel
           /\ \A i \in DOMAIN log : ~IsNext(i)

\* Edits made here, shown before they are sent, and edits applied meanwhile leave
\* every message with the text of its last edit on the server; only an edit taken
\* back although it was accepted or overwritten may leave another (editText).  For
\* entries that are applied in order: a late frame puts an old text back.
TextsAgree == Settled /\ ~undone /\ ~rewound => \A i \in Kept : store[i].body = LatestBody(i)

\* What is shown is what is stored, however entries, edits and deletions fall
\* between the reading of the database and its answer; a message deleted while
\* it is edited comes back in the database alone (ensureMessagesLoaded).  For
\* entries that are applied in order.
ShownIsStored == list # NotLoaded /\ ~rewound => \A i \in Positions :
    IF i \in Shown THEN list[i] = store[i] ELSE store[i] = Absent \/ i \in gone

\* A message sent from here that was accepted is on the screen once: as a bubble
\* or as a message, at every moment until it is deleted (applyStored).
OneBubble == list # NotLoaded => \A b \in Bubbles :
    LET there == {i \in Shown : log[i].bubble = b} IN
    /\ Cardinality(there) + (IF pending[b] = "none" THEN 0 ELSE 1) <= 1
    /\ \A i \in Kept : log[i].bubble = b /\ sent[b] # "dismissed" => pending[b] # "none" \/ i \in there

\* The state is well formed and shows no message of one's own twice.
Consistent == TypeOK /\ OneBubble

\* The preview in the list of conversations is the last message stored, whatever
\* copy of the record was written back; it may only pass over deleted messages that
\* came back to the database (applyStored, setMessageBody, removeLocalMessage).
\* For entries that are applied in order.
Without(messages, S) == [i \in Positions |-> IF i \in S THEN Absent ELSE messages[i]]
PreviewIsLatest == Settled => \E S \in SUBSET gone : conv.preview = LatestOf(Without(store, S))

\* A conversation on a visible screen has nothing unread once everything has been
\* applied, though applyStored writes copies of the record from before it was
\* marked; only the copy of removeLocalMessage may undo a mark (ChatView.tsx:260).
ReadWhenOpen == Settled /\ open /\ ~Due /\ ~missed /\ ~rewound => conv.read >= conv.last

\* Nothing the record says of the conversation stays behind what is stored, where
\* entries are applied in order.
RecordSettles == PreviewIsLatest /\ ReadWhenOpen

(***************************************************************************)
(* What a document says and the code does not do.                          *)
(***************************************************************************)
\* PROTOCOL.md 6.3: every device learns about a deletion in order and removes its
\* copy.
DeletedIsRemoved == Settled => \A i \in gone : store[i] = Absent
=============================================================================
