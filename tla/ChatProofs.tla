---------------------------- MODULE ChatProofs ----------------------------
(***************************************************************************)
(* Theorems about Chat, for every set of texts and of bubbles, any number  *)
(* of entries and loads, and whatever the user does.                       *)
(***************************************************************************)
EXTENDS Chat, NaturalsInduction, FiniteSetTheorems, TLAPS

(***************************************************************************)
(* The inductive invariant: types.                                         *)
(***************************************************************************)
Words   == Bodies \cup {"file"}
Entries == [k : {"text", "file", "edit", "delete"}, by : {"me", "them"}, body : Words \cup {"none"},
            ref : 0..MaxSeq, bubble : Bubbles \cup {"none"}]
Asked   == [op : {"put", "find", "get", "rewrite", "delete", "latest", "load"},
            who : {"job", "edit", "rollback", "delete", "open"},
            seq : Positions, text : Texts, copy : Record]

WireTyped == /\ log \in Seq(Entries) /\ Len(log) <= scene.last /\ gone \subseteq DOMAIN log
             /\ scene \in Scenes

StoreTyped == store \in [Positions -> Texts] /\ list \in [Positions -> Texts] \cup {NotLoaded}

WorkTyped == conv \in Record /\ requests \in Seq(Asked) /\ job \in 0..MaxSeq /\ (job # 0 => job \in DOMAIN log)

SendingTyped ==
    /\ pending \in [Bubbles -> {"none", "uploading", "sending", "failed"}]
    /\ sent \in [Bubbles -> Bodies \cup {"no", "upload", "file", "accepted", "over", "dismissed"}]

EditingTyped ==
    /\ edit \in [at : {"idle", "local", "sending", "accepted", "rollback"}, seq : 0..MaxSeq,
                 body : Bodies \cup {"none"}, old : Texts]
    /\ del \in [at : {"idle", "sent", "local"}, seq : 0..MaxSeq]
    /\ composer \in [seq : 0..MaxSeq, was : Texts]

ScreenTyped == open \in BOOLEAN /\ missed \in BOOLEAN /\ undone \in BOOLEAN /\ rewound \in BOOLEAN

Typed == WireTyped /\ StoreTyped /\ WorkTyped /\ SendingTyped /\ EditingTyped /\ ScreenTyped

(***************************************************************************)
(* The inductive invariant: the server's log and what is stored of it.     *)
(***************************************************************************)
IsEdit(k, i) == log[k].k = "edit" /\ log[k].ref = i

\* Edits follow their text, records their message, which is gone.
EntryOK(i) ==
    /\ IsMessage(i) => log[i].body \in Words /\ log[i].ref = 0
    /\ log[i].k = "edit" => /\ log[i].ref \in 1..(i - 1) /\ log[log[i].ref].k = "text"
                            /\ log[i].body \in Bodies
    /\ log[i].k = "delete" => log[i].ref \in 1..(i - 1) /\ log[i].ref \in gone
    /\ i \in gone => IsMessage(i)

LogOK == \A i \in DOMAIN log : EntryOK(i)

\* A bubble's message is in the log at most once, and only after it was accepted.
BubblesOnce == \A i \in DOMAIN log : log[i].bubble # "none" =>
    /\ IsMessage(i) /\ sent[log[i].bubble] \in {"accepted", "over", "dismissed"}
    /\ \A j \in DOMAIN log : log[j].bubble = log[i].bubble => j = i

\* It is a bubble until it is stored.
BubblesEcho == \A i \in DOMAIN log : log[i].bubble # "none" =>
    /\ store[i] # Absent => pending[log[i].bubble] = "none"
    /\ i \notin gone /\ store[i] = Absent /\ sent[log[i].bubble] # "dismissed" =>
          pending[log[i].bubble] # "none"

\* A message on its way to the server is a bubble.
BubblesWait == \A b \in Bubbles : sent[b] \in Bodies \cup {"file"} => pending[b] # "none"

\* What is stored is a message of the log; what is in memory is stored too, and
\* only what is gone may be stored alone.
StoredOK == \A i \in Positions :
    /\ store[i] # Absent => i \in DOMAIN log /\ IsMessage(i) /\ store[i].body \in Words
    /\ list # NotLoaded => /\ list[i] # Absent => store[i] # Absent /\ list[i].body \in Words
                           /\ store[i] # Absent => list[i] # Absent \/ i \in gone

(***************************************************************************)
(* The inductive invariant: who waits for the database, and for what.      *)
(***************************************************************************)
\* The job asks for what its entry says.
JobAsks(r) ==
    /\ job \in DOMAIN log
    /\ IsMessage(job) => /\ r.op = "put" /\ r.seq = job
                         /\ r.text = [body |-> log[job].body, edited |-> FALSE]
    /\ log[job].k = "edit" => /\ r.op \in {"find", "get", "rewrite"} /\ r.seq = log[job].ref
                              /\ r.text.body = log[job].body
    /\ log[job].k = "delete" => r.op \in {"delete", "latest"} /\ r.seq = log[job].ref

\* A message's bubble, if it had one, is over.
Echo(i) == log[i].bubble # "none" => pending[log[i].bubble] = "none"

\* A message is put with an older copy of the record, unless its frame was late.  A
\* rewriting ends with a text that is stored, or that was deleted meanwhile; its
\* bubble had gone when it was found.
RequestOK(r) ==
    /\ r.copy.synced <= Len(log) /\ r.copy.last = r.copy.synced
    /\ r.op = "put" => LateFrames \/ r.copy.synced < r.seq
    /\ r.op \in {"find", "get", "rewrite"} =>
          r.seq \in DOMAIN log /\ log[r.seq].k = "text" /\ r.text.body \in Words
    /\ r.op = "rewrite" => (store[r.seq] # Absent \/ r.seq \in gone) /\ Echo(r.seq)
    /\ r.op \in {"delete", "latest"} => r.seq \in gone
    /\ r.who = "job" => JobAsks(r)
    /\ r.who = "edit" => r.op \in {"get", "rewrite"} /\ edit.at = "local" /\ r.seq = edit.seq
    /\ r.who = "rollback" => /\ r.op \in {"get", "rewrite"} /\ edit.at = "rollback"
                             /\ r.seq = edit.seq /\ r.text = edit.old
    /\ r.who = "delete" => r.op \in {"delete", "latest"} /\ del.at = "local"
    /\ r.who = "open" => r.op = "load"

RequestsOK == \A p \in DOMAIN requests : RequestOK(requests[p])

OneEach == \A p, q \in DOMAIN requests :
    requests[p].who = requests[q].who /\ requests[p].who # "open" => p = q

JobWaits == job # 0 => \E p \in DOMAIN requests : requests[p].who = "job"
NoJobNone == \A p \in DOMAIN requests : requests[p].who = "job" => job # 0

\* An edit that is not shown yet, or not yet taken back, waits as well.
EditWaits == edit.at \in {"local", "rollback"} =>
    \E p \in DOMAIN requests : requests[p].who = (IF edit.at = "local" THEN "edit" ELSE "rollback")

\* What is edited is a text of one's own; what is deleted is gone.
EditorOK ==
    /\ edit.at = "idle" => edit = NoEdit
    /\ edit.at # "idle" => /\ edit.seq \in DOMAIN log /\ log[edit.seq].k = "text"
                           /\ edit.old.body \in Words /\ edit.body \in Bodies
    /\ composer # NotEditing => /\ composer.seq \in DOMAIN log /\ log[composer.seq].k = "text"
                                /\ composer.was.body \in Words
    /\ del.at = "idle" => del = NoDel
    /\ del.at # "idle" => del.seq \in gone

RecordOK == conv.synced <= Len(log) /\ conv.last = conv.synced

(***************************************************************************)
(* The inductive invariant: the preview.                                   *)
(***************************************************************************)
\* How far the entries were applied, the one in hand included if it is no message.
Front == IF job # 0 /\ ~IsMessage(job) THEN Later(conv.synced, job) ELSE conv.synced

\* Unless it is being computed, the preview is the last of what is stored, but
\* for deleted messages and, after a copy was written back, for later ones.
PreviewOK ==
    ~LateFrames /\ (\A p \in DOMAIN requests : requests[p].op # "latest") =>
        \E S \in SUBSET Positions : /\ \A j \in S : j \in gone \/ j > Front
                                    /\ conv.preview = LatestOf(Without(store, S))

(***************************************************************************)
(* The inductive invariant: while nothing comes late or is written back.   *)
(***************************************************************************)
\* The entry in hand is the next one, and the copy of the record is as far.
JobIsNext ==
    /\ job # 0 => job > conv.synced /\ \A k \in (conv.synced + 1)..(job - 1) : k \in gone
    /\ \A p \in DOMAIN requests : requests[p].op = "put" => requests[p].copy.synced = conv.synced

\* Nothing is stored from beyond the position.
StoredReached == \A i \in Positions : store[i] # Absent => i <= conv.synced

\* Nor is a text that was found.
FoundReached == \A p \in DOMAIN requests : requests[p].op = "rewrite" => requests[p].seq <= conv.synced

ShownSame == list # NotLoaded => \A i \in Positions : list[i] # Absent => list[i] = store[i]

\* Since the effect ran on a visible page only the position may have changed.
ReadOK == seen # Unseen =>
    /\ seen[3] \in 0..conv.last
    /\ seen[3] = conv.last /\ ~missed => conv.read >= conv.last

\* Body b is what the entries up to p make of text i.
Says(i, p, b) ==
    \/ b = log[i].body /\ \A k \in DOMAIN log : k <= p => ~IsEdit(k, i)
    \/ \E k \in DOMAIN log : /\ k <= p /\ IsEdit(k, i) /\ b = log[k].body
                             /\ \A m \in DOMAIN log : k < m /\ m <= p => ~IsEdit(m, i)

\* Another edit of text i is still to be applied.
Coming(i, p) == \E k \in DOMAIN log : k > p /\ IsEdit(k, i)

\* The user's edit of text i is shown, or taken back, and not on the server.
BeingEdited(i) == edit.seq = i /\ edit.at \in {"local", "sending", "rollback"}

TextsOK == \A i \in DOMAIN log : IsMessage(i) /\ i \notin gone /\ i <= conv.synced =>
    /\ store[i] # Absent
    /\ Says(i, conv.synced, store[i].body) \/ Coming(i, conv.synced) \/ BeingEdited(i)

\* The text that is put back is that of the entries applied.
OldIsLatest == edit.at = "rollback" /\ edit.seq \notin gone =>
    Says(edit.seq, conv.synced, edit.old.body) \/ Coming(edit.seq, conv.synced)

\* It is put back before an edit that came meanwhile is applied.
BackFirst == edit.at = "rollback" => \A p, q \in DOMAIN requests :
    /\ requests[p].who = "rollback" /\ requests[q].who = "job" /\ IsEdit(job, edit.seq)
    => \/ log[job].body = edit.old.body
       \/ Coming(edit.seq, job)
       \/ requests[p].op = "get" /\ requests[q].op = "find" /\ p < q
       \/ requests[p].op = "rewrite" /\ (requests[q].op = "find" \/ p < q)

Calm == ~LateFrames /\ ~rewound

Waiting == RequestsOK /\ OneEach /\ JobWaits /\ NoJobNone
Stored  == LogOK /\ BubblesOnce /\ BubblesEcho /\ BubblesWait /\ StoredOK
InStep  == Calm => JobIsNext /\ StoredReached /\ FoundReached /\ ShownSame /\ ReadOK
InWords == Calm /\ ~undone => TextsOK /\ OldIsLatest /\ BackFirst

IInv == Typed /\ Stored /\ Waiting /\ EditWaits /\ EditorOK /\ RecordOK /\ PreviewOK /\ InStep /\ InWords

(***************************************************************************)
(* Sets of numbers, sequences, the bounds.                                 *)
(***************************************************************************)
\* A set of numbers has a least element.
LEMMA Least ==
  ASSUME NEW S \in SUBSET Nat, S # {}
  PROVE  \E m \in S : \A k \in S : m <= k
<1> DEFINE R == OpToRel(<, Nat)
<1>1. \A x \in Nat, y \in Nat : <<y, x>> \in R <=> y < x
  BY DEF OpToRel
<1>2. IsWellFoundedOn(R, Nat)
  BY NatLessThanWellFounded
<1> HIDE DEF R
<1>3. PICK m \in S : \A k \in S : <<k, m>> \notin R
  BY <1>2, WFMin
<1>4. \A k \in S : ~(k < m)
  BY <1>1, <1>3
<1>5. \A k \in S : m <= k
  BY <1>4
<1> QED BY <1>5

\* A bounded one has a greatest.
LEMMA Greatest ==
  ASSUME NEW n \in Nat, NEW S \in SUBSET (0..n), S # {}
  PROVE  \E m \in S : \A k \in S : k <= m
<1> DEFINE T == {n - k : k \in S}
<1>1. T \in SUBSET Nat /\ T # {}
  <2>1. \A k \in S : n - k \in Nat
    OBVIOUS
  <2>2. T # {}
    OBVIOUS
  <2> QED BY <2>1, <2>2
<1>2. PICK m \in T : \A k \in T : m <= k
  BY <1>1, Least
<1>3. PICK k \in S : m = n - k
  BY <1>2
<1>4. \A j \in S : n - j \in T
  OBVIOUS
<1> HIDE DEF T
<1>5. \A j \in S : n - k <= n - j
  BY <1>2, <1>3, <1>4
<1>6. \A j \in S : j <= k
  BY <1>5
<1> QED BY <1>6

\* What becomes of a sequence.
LEMMA AppendIs ==
  ASSUME NEW S, NEW s \in Seq(S), NEW e \in S
  PROVE  /\ Append(s, e) \in Seq(S) /\ Len(Append(s, e)) = Len(s) + 1
         /\ \A i \in DOMAIN s : i \in DOMAIN Append(s, e) /\ Append(s, e)[i] = s[i]
         /\ Append(s, e)[Len(s) + 1] = e
         /\ \A i \in DOMAIN Append(s, e) : i \in DOMAIN s \/ i = Len(s) + 1
  OBVIOUS

LEMMA TailIs ==
  ASSUME NEW S, NEW s \in Seq(S), s # <<>>
  PROVE  /\ Tail(s) \in Seq(S) /\ Len(Tail(s)) = Len(s) - 1 /\ Len(s) >= 1
         /\ Head(s) = s[1] /\ 1 \in DOMAIN s /\ Head(s) \in S
         /\ \A i \in DOMAIN Tail(s) : i + 1 \in DOMAIN s /\ Tail(s)[i] = s[i + 1]
         /\ \A i \in DOMAIN s : i # 1 => i - 1 \in DOMAIN Tail(s)
<1>1. /\ Tail(s) \in Seq(S) /\ Len(Tail(s)) = Len(s) - 1 /\ Len(s) >= 1
      /\ Head(s) = s[1] /\ 1 \in DOMAIN s /\ Head(s) \in S
  OBVIOUS
<1>2. \A i \in DOMAIN Tail(s) : i + 1 \in DOMAIN s /\ Tail(s)[i] = s[i + 1]
  OBVIOUS
<1>3. \A i \in DOMAIN s : i # 1 => i - 1 \in DOMAIN Tail(s)
  BY <1>1
<1> QED BY <1>1, <1>2, <1>3

\* The numbers of a log are positions.
LEMMA Bounds ==
  ASSUME WireTyped
  PROVE  /\ MaxSeq \in Nat /\ scene.last \in 1..MaxSeq /\ Len(log) \in 0..MaxSeq
         /\ DOMAIN log = 1..Len(log) /\ DOMAIN log \subseteq Positions
         /\ 1 \in Positions /\ Positions = 1..MaxSeq /\ gone \subseteq Positions
         /\ scene.does \subseteq {"send", "edit", "delete", "leave", "admin"}
<1>1. scene.last \in 1..MaxSeq /\ MaxSeq \in Nat /\ scene.does \subseteq {"send", "edit", "delete", "leave", "admin"}
  BY ChatAssumption DEF WireTyped
<1>2. Len(log) \in Nat /\ DOMAIN log = 1..Len(log) /\ Len(log) <= scene.last /\ gone \subseteq DOMAIN log
  BY DEF WireTyped
<1> QED BY <1>1, <1>2 DEF Positions

\* An entry of the log.
LEMMA EntryTyped ==
  ASSUME WireTyped, NEW i \in DOMAIN log
  PROVE  log[i] \in Entries
  BY DEF WireTyped

\* The later of two positions.
LEMMA LaterIs ==
  ASSUME NEW n \in Nat, NEW i \in 0..n, NEW k \in 0..n
  PROVE  /\ Later(i, k) \in 0..n /\ i <= Later(i, k) /\ k <= Later(i, k)
         /\ Later(i, k) \in {i, k} /\ (i <= k => Later(i, k) = k)
  BY DEF Later

\* No text, and a list that was not loaded, are what they seem.
LEMMA Nothings ==
  ASSUME MaxSeq \in Nat, MaxSeq >= 1
  PROVE  /\ Absent \in Texts /\ Absent.body = "absent" /\ NotLoaded \notin [Positions -> Texts]
         /\ \A t \in Texts : t.body \in Words => t # Absent
         /\ \A w \in Words : w # "absent" /\ w # "none"
         /\ \A w \in Words, e \in BOOLEAN : [body |-> w, edited |-> e] \in Texts
<1>1. Absent \in Texts /\ Absent.body = "absent"
  BY DEF Absent, Texts
<1>2. \A w \in Words : w # "absent" /\ w # "none"
  BY ChatAssumption DEF Words
<1>3. NotLoaded \notin [Positions -> Texts]
  <2>1. 1 \in Positions /\ 1 \notin DOMAIN <<>>
    BY DEF Positions
  <2> QED BY <2>1 DEF NotLoaded
<1>4. \A w \in Words, e \in BOOLEAN : [body |-> w, edited |-> e] \in Texts
  BY DEF Words, Texts
<1> QED BY <1>1, <1>2, <1>3, <1>4

(***************************************************************************)
(* The preview of what is stored.                                          *)
(***************************************************************************)
\* The last message that is there.
LEMMA LatestIs ==
  ASSUME NEW f, MaxSeq \in Nat, NEW i \in Positions, f[i] # Absent,
         \A k \in Positions : f[k] # Absent => k <= i
  PROVE  LatestOf(f) = [seq |-> i, body |-> f[i].body]
<1> DEFINE there == {j \in Positions : f[j] # Absent}
<1>1. i \in there /\ \A k \in there : k <= i
  OBVIOUS
<1>2. \A j \in there : (\A k \in there : k <= j) => j = i
  BY <1>1 DEF Positions
<1>3. (CHOOSE j \in there : \A k \in there : k <= j) = i
  BY <1>1, <1>2
<1> QED BY <1>1, <1>3 DEF LatestOf

\* There is one, or the preview is empty.
LEMMA LatestExists ==
  ASSUME NEW f, MaxSeq \in Nat
  PROVE  \/ LatestOf(f) = NoPreview /\ \A k \in Positions : f[k] = Absent
         \/ \E i \in Positions : /\ f[i] # Absent /\ \A k \in Positions : f[k] # Absent => k <= i
                                 /\ LatestOf(f) = [seq |-> i, body |-> f[i].body]
<1> DEFINE there == {j \in Positions : f[j] # Absent}
<1>1. CASE there = {}
  BY <1>1 DEF LatestOf
<1>2. CASE there # {}
  <2>1. there \in SUBSET (0..MaxSeq)
    BY DEF Positions
  <2>2. PICK i \in there : \A k \in there : k <= i
    BY <1>2, <2>1, Greatest
  <2>3. LatestOf(f) = [seq |-> i, body |-> f[i].body]
    BY <2>2, LatestIs
  <2> QED BY <2>2, <2>3
<1> QED BY <1>1, <1>2

\* The preview depends on what is there and on its bodies only.
LEMMA LatestSame ==
  ASSUME NEW f, NEW g, MaxSeq \in Nat, \A k \in Positions : f[k] = g[k]
  PROVE  LatestOf(f) = LatestOf(g)
<1>1. {i \in Positions : f[i] # Absent} = {i \in Positions : g[i] # Absent}
  OBVIOUS
<1>2. CASE \A k \in Positions : f[k] = Absent
  BY <1>1, <1>2 DEF LatestOf
<1>3. CASE \E k \in Positions : f[k] # Absent
  <2>1. PICK i \in Positions : /\ f[i] # Absent /\ \A k \in Positions : f[k] # Absent => k <= i
                              /\ LatestOf(f) = [seq |-> i, body |-> f[i].body]
    BY <1>3, LatestExists
  <2>2. LatestOf(g) = [seq |-> i, body |-> g[i].body]
    BY <2>1, LatestIs
  <2> QED BY <2>1, <2>2
<1> QED BY <1>2, <1>3

(***************************************************************************)
(* What becomes of the log.                                                *)
(***************************************************************************)
\* A message, an edit of a text or the record of a deletion is appended.
Grows(e) ==
    /\ Len(log) < scene.last /\ log' = Append(log, e)
    /\ \/ /\ e.k \in {"text", "file"} /\ e.body \in Words /\ e.ref = 0 /\ gone' = gone
          /\ \/ e.bubble = "none" /\ sent' = sent
             \/ \E b \in Bubbles : /\ e.bubble = b /\ sent[b] \in Bodies \cup {"file"}
                                   /\ sent' = [sent EXCEPT ![b] = "accepted"]
       \/ /\ e.k = "edit" /\ e.ref \in DOMAIN log /\ log[e.ref].k = "text" /\ e.body \in Bodies
          /\ e.bubble = "none" /\ gone' = gone /\ sent' = sent
       \/ /\ e.k = "delete" /\ e.ref \in DOMAIN log /\ IsMessage(e.ref) /\ e.bubble = "none"
          /\ gone' = gone \cup {e.ref} /\ sent' = sent

\* The actions that append.
LEMMA ElsewhereGrows ==
  ASSUME IInv, Elsewhere
  PROVE  \E e \in Entries : Grows(e)
<1>1. WireTyped /\ sent' = sent /\ Room
  BY DEF IInv, Typed, Elsewhere, outgoing
<1>2. MaxSeq \in Nat /\ DOMAIN log = 1..Len(log) /\ Len(log) \in 0..MaxSeq /\ 0 \in 0..MaxSeq
      /\ Kept \subseteq DOMAIN log /\ DOMAIN log \subseteq 0..MaxSeq
  BY <1>1, Bounds DEF Kept
<1>3. CASE \E by \in {"me", "them"}, body \in Bodies :
             log' = Append(log, Message("text", by, body, "none")) /\ UNCHANGED gone
  <2>1. PICK by \in {"me", "them"}, body \in Bodies :
             log' = Append(log, Message("text", by, body, "none")) /\ UNCHANGED gone
    BY <1>3
  <2>2. Message("text", by, body, "none") \in Entries
    BY <1>2 DEF Message, Entries, Words
  <2> QED BY <1>1, <2>1, <2>2 DEF Grows, Message, Room, Words
<1>4. CASE \E i \in Kept, body \in Bodies : log[i].k = "text" /\ log[i].body # body
             /\ log' = Append(log, Edit(log[i].by, i, body)) /\ UNCHANGED gone
  <2>1. PICK i \in Kept, body \in Bodies : log[i].k = "text"
             /\ log' = Append(log, Edit(log[i].by, i, body)) /\ UNCHANGED gone
    BY <1>4
  <2>2. log[i].by \in {"me", "them"}
    BY <1>1, <1>2, <2>1, EntryTyped DEF Entries
  <2>3. Edit(log[i].by, i, body) \in Entries
    BY <1>2, <2>2 DEF Edit, Entries, Words
  <2> QED BY <1>1, <1>2, <2>1, <2>3 DEF Grows, Edit, Room
<1>5. CASE \E i \in Kept : Drop(i)
  <2>1. PICK i \in Kept : Drop(i)
    BY <1>5
  <2>2. Deletion(i) \in Entries
    BY <1>2 DEF Deletion, Entries
  <2> QED BY <1>1, <1>2, <2>1, <2>2 DEF Grows, Deletion, Room, Drop, Kept
<1> QED BY <1>3, <1>4, <1>5 DEF Elsewhere

LEMMA AcceptGrows ==
  ASSUME IInv, NEW b \in Bubbles, Accept(b)
  PROVE  \E e \in Entries : Grows(e)
<1>1. WireTyped /\ Room /\ sent[b] \in Bodies \cup {"file"} /\ gone' = gone
      /\ sent' = [sent EXCEPT ![b] = "accepted"]
      /\ log' = Append(log, Message(IF sent[b] = "file" THEN "file" ELSE "text", "me", sent[b], b))
  BY DEF IInv, Typed, Accept, SetSent
<1> DEFINE e == Message(IF sent[b] = "file" THEN "file" ELSE "text", "me", sent[b], b)
<1>2. e \in Entries
  <2>1. 0 \in 0..MaxSeq
    BY <1>1, Bounds
  <2> QED BY <1>1, <2>1 DEF Message, Entries, Words
<1>3. e.k \in {"text", "file"} /\ e.body = sent[b] /\ e.ref = 0 /\ e.bubble = b
  BY DEF Message
<1>4. log' = Append(log, e)
  BY <1>1
<1> HIDE DEF e
<1> QED BY <1>1, <1>2, <1>3, <1>4 DEF Grows, Room, Words

LEMMA AcceptEditGrows ==
  ASSUME IInv, AcceptEdit
  PROVE  \E e \in Entries : Grows(e)
<1>1. /\ WireTyped /\ Room /\ gone' = gone /\ sent' = sent
      /\ edit.seq \in DOMAIN log /\ log[edit.seq].k = "text" /\ edit.body \in Bodies
      /\ log' = Append(log, Edit("me", edit.seq, edit.body))
  BY DEF IInv, Typed, EditorOK, AcceptEdit, outgoing
<1>2. Edit("me", edit.seq, edit.body) \in Entries
  <2>1. edit.seq \in 0..MaxSeq
    BY <1>1, Bounds DEF Positions
  <2> QED BY <1>1, <2>1 DEF Edit, Entries, Words
<1> QED BY <1>1, <1>2 DEF Grows, Edit, Room

\* What the menu offers is there.
LEMMA OfferedIs ==
  ASSUME IInv, NEW i \in Positions, Bubble(i) # {}
  PROVE  /\ i \in DOMAIN log /\ IsMessage(i) /\ list # NotLoaded /\ list[i] # Absent
         /\ list[i] \in Texts /\ list[i].body \in Words
         /\ "edit" \in Bubble(i) => log[i].k = "text"
<1>1. i \in Shown
  BY DEF Bubble
<1>2. list # NotLoaded /\ list[i] # Absent
  BY <1>1 DEF Shown
<1> QED BY <1>2 DEF IInv, Typed, StoreTyped, Stored, StoredOK, Bubble

LEMMA DeleteGrows ==
  ASSUME IInv, NEW i \in Positions, DeleteMessage(i)
  PROVE  i \in DOMAIN log /\ \E e \in Entries : Grows(e)
<1>1. WireTyped /\ Room /\ sent' = sent /\ Drop(i) /\ Bubble(i) # {}
  BY DEF IInv, Typed, DeleteMessage, outgoing
<1>2. i \in DOMAIN log /\ IsMessage(i)
  BY <1>1, OfferedIs
<1>3. Deletion(i) \in Entries
  BY <1>1, Bounds DEF Deletion, Entries, Positions
<1> QED BY <1>1, <1>2, <1>3 DEF Grows, Deletion, Room, Drop

\* Every step leaves the log as it is, or appends to it.
LEMMA WireEffect ==
  ASSUME IInv, [Next]_vars
  PROVE  scene' = scene /\ ((log' = log /\ gone' = gone) \/ \E e \in Entries : Grows(e))
<1>1. CASE Elsewhere
  BY <1>1, ElsewhereGrows DEF Elsewhere, history
<1>2. ASSUME NEW b \in Bubbles, Accept(b) PROVE scene' = scene /\ \E e \in Entries : Grows(e)
  BY <1>2, AcceptGrows DEF Accept, history
<1>3. CASE AcceptEdit
  BY <1>3, AcceptEditGrows DEF AcceptEdit, history
<1>4. ASSUME NEW i \in Positions, DeleteMessage(i) PROVE scene' = scene /\ \E e \in Entries : Grows(e)
  BY <1>4, DeleteGrows DEF DeleteMessage, history
<1>5. CASE HandleIncoming
  BY <1>5 DEF HandleIncoming, Begin, wire, history
<1>6. CASE Database
  BY <1>6 DEF Database, wire
<1>7. ASSUME NEW b \in Bubbles,
             SubmitText(b) \/ SendFile(b) \/ UploadEnds(b) \/ AnswerSend(b) \/ SendFails(b) \/ DismissPending(b)
      PROVE  scene' = scene /\ log' = log /\ gone' = gone
  BY <1>7 DEF SubmitText, SendFile, UploadEnds, AnswerSend, SendFails, DismissPending, wire, history
<1>8. ASSUME NEW i \in Positions, StartEdit(i) PROVE scene' = scene /\ log' = log /\ gone' = gone
  BY <1>8 DEF StartEdit, wire, history
<1>9. CASE EditLast \/ CancelEdit \/ EditText \/ EditAnswered \/ EditFails
  BY <1>9 DEF EditLast, StartEdit, CancelEdit, EditText, EditAnswered, EditFails, wire, history
<1>10. CASE DeleteAnswered \/ Open \/ Close \/ Effect \/ ReadElsewhere
  BY <1>10 DEF DeleteAnswered, Open, Close, Effect, ReadElsewhere, wire, history
<1>11. CASE UNCHANGED vars
  BY <1>11 DEF vars, wire, history
<1> QED BY <1>1, <1>2, <1>3, <1>4, <1>5, <1>6, <1>7, <1>8, <1>9, <1>10, <1>11 DEF Next

\* So entries stay, what is gone stays gone, and a new entry follows what was there.
LEMMA LogGrows ==
  ASSUME IInv, [Next]_vars
  PROVE  /\ WireTyped' /\ Len(log) <= Len(log') /\ scene' = scene
         /\ \A i \in DOMAIN log : i \in DOMAIN log' /\ log'[i] = log[i]
         /\ \A i \in DOMAIN log' : i \in DOMAIN log \/ (i = Len(log) + 1 /\ i \notin gone')
         /\ gone \subseteq gone' /\ gone' \subseteq DOMAIN log
<1>1. WireTyped
  BY DEF IInv, Typed
<1>2. /\ MaxSeq \in Nat /\ scene.last \in 1..MaxSeq /\ Len(log) \in 0..MaxSeq /\ DOMAIN log = 1..Len(log)
      /\ log \in Seq(Entries) /\ Len(log) <= scene.last /\ gone \subseteq DOMAIN log /\ scene \in Scenes
  BY <1>1, Bounds DEF WireTyped
<1>3. scene' = scene
  BY WireEffect
<1>4. CASE log' = log /\ gone' = gone
  BY <1>2, <1>3, <1>4 DEF WireTyped
<1>5. CASE \E e \in Entries : Grows(e)
  <2>1. PICK e \in Entries : Grows(e)
    BY <1>5
  <2>2. log' = Append(log, e) /\ Len(log) < scene.last
        /\ (gone' = gone \/ (e.ref \in DOMAIN log /\ gone' = gone \cup {e.ref}))
    BY <2>1 DEF Grows
  <2>3. /\ log' \in Seq(Entries) /\ Len(log') = Len(log) + 1
        /\ \A i \in DOMAIN log : i \in DOMAIN log' /\ log'[i] = log[i]
        /\ \A i \in DOMAIN log' : i \in DOMAIN log \/ i = Len(log) + 1
    BY <1>2, <2>2, AppendIs
  <2>4. gone \subseteq gone' /\ gone' \subseteq DOMAIN log
    BY <1>2, <2>2
  <2>5. Len(log) + 1 \notin DOMAIN log
    BY <1>2
  <2> QED BY <1>2, <1>3, <2>2, <2>3, <2>4, <2>5 DEF WireTyped
<1> QED BY <1>4, <1>5, WireEffect

\* The log says what it should.
LEMMA LogOKStep ==
  ASSUME IInv, [Next]_vars
  PROVE  LogOK'
<1>1. WireTyped /\ LogOK
  BY DEF IInv, Typed, Stored
<1>2. DOMAIN log = 1..Len(log) /\ Len(log) \in Nat /\ log \in Seq(Entries) /\ gone \subseteq DOMAIN log
  BY <1>1, Bounds DEF WireTyped
<1>3. CASE log' = log /\ gone' = gone
  BY <1>1, <1>3 DEF LogOK, EntryOK, IsMessage
<1>4. CASE \E e \in Entries : Grows(e)
  <2>1. PICK e \in Entries : Grows(e)
    BY <1>4
  <2>2. log' = Append(log, e) /\ gone \subseteq gone' /\ gone' \subseteq DOMAIN log
    BY <1>2, <2>1 DEF Grows
  <2>3. /\ Len(log') = Len(log) + 1 /\ log'[Len(log) + 1] = e
        /\ \A i \in DOMAIN log : i \in DOMAIN log' /\ log'[i] = log[i]
        /\ \A i \in DOMAIN log' : i \in DOMAIN log \/ i = Len(log) + 1
    BY <1>2, <2>2, AppendIs
  <2>4. ASSUME NEW i \in DOMAIN log PROVE EntryOK(i)'
    <3>1. EntryOK(i) /\ log'[i] = log[i]
      BY <1>1, <2>3 DEF LogOK
    <3>2. log[i].k = "edit" => log'[log[i].ref] = log[log[i].ref]
      BY <3>1, <1>2, <2>3 DEF EntryOK
    <3>3. i \in gone' => IsMessage(i)
      <4>1. CASE gone' = gone
        BY <4>1, <3>1 DEF EntryOK
      <4>2. CASE e.k = "delete" /\ IsMessage(e.ref) /\ gone' = gone \cup {e.ref}
        BY <4>2, <3>1 DEF EntryOK
      <4> QED BY <4>1, <4>2, <2>1 DEF Grows
    <3> QED BY <3>1, <3>2, <3>3, <2>2 DEF EntryOK, IsMessage
  <2>5. ASSUME NEW i, i = Len(log) + 1 PROVE EntryOK(i)'
    <3>1. log'[i] = e /\ i \notin gone' /\ i \notin DOMAIN log
      BY <1>2, <2>2, <2>3, <2>5
    <3>2. e.ref \in DOMAIN log => e.ref \in 1..(i - 1) /\ log'[e.ref] = log[e.ref]
      BY <1>2, <2>3, <2>5
    <3> QED BY <2>1, <3>1, <3>2 DEF Grows, EntryOK, IsMessage
  <2> QED BY <2>3, <2>4, <2>5 DEF LogOK
<1> QED BY <1>3, <1>4, WireEffect

(***************************************************************************)
(* The queue of the database.                                              *)
(***************************************************************************)
\* The oldest request.
LEMMA FirstIs ==
  ASSUME IInv, requests # <<>>
  PROVE  /\ Head(requests) \in Asked /\ RequestOK(Head(requests)) /\ Head(requests) = requests[1]
         /\ 1 \in DOMAIN requests /\ Served \in Seq(Asked) /\ Len(Served) = Len(requests) - 1
         /\ Len(requests) >= 1 /\ DOMAIN requests = 1..Len(requests)
         /\ \A p \in DOMAIN Served : p + 1 \in DOMAIN requests /\ Served[p] = requests[p + 1]
<1>1. requests \in Seq(Asked)
  BY DEF IInv, Typed, WorkTyped
<1>2. 1 \in DOMAIN requests /\ Head(requests) = requests[1] /\ Head(requests) \in Asked
  BY <1>1, TailIs
<1>3. RequestOK(requests[1])
  BY <1>2 DEF IInv, Waiting, RequestsOK
<1>4. Served \in Seq(Asked) /\ Len(Served) = Len(requests) - 1 /\ Len(requests) >= 1
      /\ \A p \in DOMAIN Served : p + 1 \in DOMAIN requests /\ Served[p] = requests[p + 1]
  BY <1>1, TailIs DEF Served
<1>5. DOMAIN requests = 1..Len(requests)
  BY <1>1
<1> QED BY <1>2, <1>3, <1>4, <1>5

\* The oldest request is served: it is gone, or comes back with another question.
LEMMA QueueServed ==
  ASSUME IInv, requests # <<>>, NEW r \in Asked,
         requests' = Served \/ requests' = Append(Served, r)
  PROVE  /\ requests' \in Seq(Asked)
         /\ \A p \in DOMAIN requests' :
               \/ p + 1 \in DOMAIN requests /\ requests'[p] = requests[p + 1]
               \/ p = Len(requests) /\ requests'[p] = r /\ requests' = Append(Served, r)
<1>1. CASE requests' = Served
  BY <1>1, FirstIs
<1>2. CASE requests' = Append(Served, r)
  <2>1. /\ Append(Served, r) \in Seq(Asked) /\ Append(Served, r)[Len(Served) + 1] = r
        /\ \A p \in DOMAIN Served : Append(Served, r)[p] = Served[p]
        /\ \A p \in DOMAIN Append(Served, r) : p \in DOMAIN Served \/ p = Len(Served) + 1
    BY FirstIs, AppendIs
  <2>2. Len(Served) + 1 = Len(requests)
    BY FirstIs
  <2> HIDE DEF Served
  <2> QED BY <1>2, <2>1, <2>2, FirstIs
<1> QED BY <1>1, <1>2

\* Something is asked of the database.
LEMMA QueueAsked ==
  ASSUME IInv, NEW r \in Asked, Ask(r)
  PROVE  /\ requests' \in Seq(Asked)
         /\ \A p \in DOMAIN requests' : \/ p \in DOMAIN requests /\ requests'[p] = requests[p]
                                        \/ p = Len(requests) + 1 /\ requests'[p] = r
         /\ \A p \in DOMAIN requests : p \in DOMAIN requests' /\ requests'[p] = requests[p] /\ p <= Len(requests)
         /\ Len(requests) + 1 \in DOMAIN requests' /\ requests'[Len(requests) + 1] = r
<1>1. requests \in Seq(Asked)
  BY DEF IInv, Typed, WorkTyped
<1>2. /\ requests' \in Seq(Asked) /\ Len(requests') = Len(requests) + 1
      /\ \A p \in DOMAIN requests : p \in DOMAIN requests' /\ requests'[p] = requests[p]
      /\ requests'[Len(requests) + 1] = r
      /\ \A p \in DOMAIN requests' : p \in DOMAIN requests \/ p = Len(requests) + 1
  BY <1>1, AppendIs DEF Ask
<1>3. Len(requests) + 1 \in DOMAIN requests' /\ \A p \in DOMAIN requests : p <= Len(requests)
  BY <1>1, <1>2
<1> QED BY <1>2, <1>3

(***************************************************************************)
(* What the database does: nine outcomes.                                  *)
(***************************************************************************)
First == Head(requests)

Puts == /\ First.op = "put" /\ PutMessage(First)

\* The message is there: the request goes on.
Goes == /\ First.op \in {"find", "get"} /\ store[First.seq] # Absent
        /\ requests' = Append(Served, [First EXCEPT !.op = IF First.op = "find" THEN "get" ELSE "rewrite"])
        /\ UNCHANGED <<store, list, conv, job, edit, del, pending, rewound>>

\* It is not: whoever waited goes on.
GivesUp == /\ First.op \in {"find", "get"} /\ (store[First.seq] = Absent \/ ~IsMessage(First.seq))
           /\ requests' = Served /\ Resume(First.who, conv)
           /\ UNCHANGED <<store, list, pending, rewound>>

Rewrites == /\ First.op = "rewrite" /\ SetMessageBody(First)

\* A message is removed, and the preview with it, or another message.
Removes == /\ First.op = "delete"
           /\ store' = [store EXCEPT ![First.seq] = Absent] /\ list' = InList(First.seq, Absent)
           /\ UNCHANGED <<pending, rewound>>
RemovesShown == /\ Removes /\ conv.preview.seq = First.seq
                /\ requests' = Append(Served, [First EXCEPT !.op = "latest", !.copy = conv])
                /\ UNCHANGED <<conv, job, edit, del>>
RemovesOther == /\ Removes /\ conv.preview.seq # First.seq
                /\ requests' = Served /\ Resume(First.who, conv)

Previews == /\ First.op = "latest" /\ LatestPreview(First)

Loads == /\ First.op = "load" /\ Loaded(First)

LEMMA Outcomes ==
  ASSUME IInv, Database
  PROVE  /\ requests # <<>> /\ UNCHANGED <<log, gone, sent, composer, open, seen, missed, undone, scene>>
         /\ Puts \/ Goes \/ GivesUp \/ Rewrites \/ RemovesShown \/ RemovesOther \/ Previews \/ Loads
<1>1. requests # <<>> /\ UNCHANGED <<log, gone, sent, composer, open, seen, missed, undone, scene>>
  BY DEF Database, wire, screen
<1> SUFFICES Puts \/ Goes \/ GivesUp \/ Rewrites \/ RemovesShown \/ RemovesOther \/ Previews \/ Loads
  BY <1>1
<1>2. \/ PutMessage(First) \/ FindOriginal(First) \/ GetMessage(First) \/ SetMessageBody(First)
      \/ RemoveLocalMessage(First) \/ LatestPreview(First) \/ Loaded(First)
  BY DEF Database, First
<1>3. CASE PutMessage(First)
  BY <1>3 DEF Puts, PutMessage
<1>4. CASE FindOriginal(First)
  <2>1. CASE store[First.seq] # Absent /\ IsMessage(First.seq)
    BY <1>4, <2>1 DEF FindOriginal, Goes
  <2>2. CASE ~(store[First.seq] # Absent /\ IsMessage(First.seq))
    BY <1>4, <2>2 DEF FindOriginal, GivesUp
  <2> QED BY <2>1, <2>2
<1>5. CASE GetMessage(First)
  <2>1. CASE store[First.seq] # Absent
    BY <1>5, <2>1 DEF GetMessage, Goes
  <2>2. CASE store[First.seq] = Absent
    BY <1>5, <2>2 DEF GetMessage, GivesUp
  <2> QED BY <2>1, <2>2
<1>6. CASE SetMessageBody(First)
  BY <1>6 DEF SetMessageBody, Rewrites
<1>7. CASE RemoveLocalMessage(First)
  <2>1. CASE conv.preview.seq = First.seq
    BY <1>7, <2>1 DEF RemoveLocalMessage, RemovesShown, Removes
  <2>2. CASE conv.preview.seq # First.seq
    BY <1>7, <2>2 DEF RemoveLocalMessage, RemovesOther, Removes
  <2> QED BY <2>1, <2>2
<1>8. CASE LatestPreview(First)
  BY <1>8 DEF LatestPreview, Previews
<1>9. CASE Loaded(First)
  BY <1>9 DEF Loaded, Loads
<1> QED BY <1>1, <1>2, <1>3, <1>4, <1>5, <1>6, <1>7, <1>8, <1>9

\* Whoever waited goes on with a record of the right type.
LEMMA ResumeTyped ==
  ASSUME IInv, NEW c \in Record, NEW who, Resume(who, c)
  PROVE  /\ conv' \in Record /\ job' \in {0, job}
         /\ edit' \in [at : {"idle", "local", "sending", "accepted", "rollback"}, seq : 0..MaxSeq,
                       body : Bodies \cup {"none"}, old : Texts]
         /\ del' \in [at : {"idle", "sent", "local"}, seq : 0..MaxSeq]
<1>1. MaxSeq \in Nat /\ job \in 0..MaxSeq /\ 0 \in 0..MaxSeq /\ MaxSeq >= 1
  BY Bounds DEF IInv, Typed, WorkTyped
<1>2. conv' \in Record
  <2>1. c.synced \in 0..MaxSeq /\ c.last \in 0..MaxSeq /\ c.read \in 0..MaxSeq
    BY DEF Record
  <2>2. Later(c.synced, job) \in 0..MaxSeq /\ Later(c.last, job) \in 0..MaxSeq
    BY <1>1, <2>1, LaterIs
  <2>3. Advanced(c, job) \in Record
    BY <1>1, <2>1, <2>2 DEF Advanced, Record
  <2> QED BY <2>3 DEF Resume
<1>3. NoEdit \in [at : {"idle", "local", "sending", "accepted", "rollback"}, seq : 0..MaxSeq,
                  body : Bodies \cup {"none"}, old : Texts]
  BY <1>1 DEF NoEdit, Texts, Absent
<1>4. NoDel \in [at : {"idle", "sent", "local"}, seq : 0..MaxSeq]
  BY <1>1 DEF NoDel
<1>5. job' \in {0, job} /\ del' \in {del, NoDel} /\ edit' \in {edit, NoEdit, [edit EXCEPT !.at = "sending"]}
  BY DEF Resume
<1> QED BY <1>2, <1>3, <1>4, <1>5 DEF IInv, Typed, EditingTyped

\* The last message stored is a preview.
LEMMA LatestTyped ==
  ASSUME IInv
  PROVE  LatestOf(store) \in [seq : 0..MaxSeq, body : Bodies \cup {"file", "none"}]
<1>1. MaxSeq \in Nat /\ StoredOK /\ 0 \in 0..MaxSeq
  BY Bounds DEF IInv, Typed, Stored
<1>2. CASE LatestOf(store) = NoPreview
  BY <1>1, <1>2 DEF NoPreview
<1>3. CASE LatestOf(store) # NoPreview
  <2>1. PICK i \in Positions : store[i] # Absent /\ LatestOf(store) = [seq |-> i, body |-> store[i].body]
    BY <1>1, <1>3, LatestExists
  <2> QED BY <1>1, <2>1 DEF StoredOK, Words, Positions
<1> QED BY <1>2, <1>3

\* A message that is put is the job's.
LEMMA PutIs ==
  ASSUME IInv, NEW p \in DOMAIN requests, requests[p].op = "put"
  PROVE  /\ requests[p].who = "job" /\ requests[p].seq = job /\ job \in DOMAIN log /\ IsMessage(job)
         /\ requests[p].text = [body |-> log[job].body, edited |-> FALSE] /\ log[job].body \in Words
<1> DEFINE r == requests[p]
<1>1. RequestOK(r) /\ r \in Asked
  BY DEF IInv, Waiting, RequestsOK, Typed, WorkTyped
<1>2. r.who = "job"
  BY <1>1 DEF RequestOK, Asked
<1>3. JobAsks(r) /\ job \in DOMAIN log
  BY <1>1, <1>2 DEF RequestOK, JobAsks
<1>4. log[job].k \in {"text", "file", "edit", "delete"} /\ EntryOK(job)
  BY <1>3, EntryTyped DEF IInv, Typed, Entries, Stored, LogOK
<1>5. IsMessage(job)
  BY <1>3, <1>4 DEF JobAsks, IsMessage
<1> QED BY <1>2, <1>3, <1>4, <1>5 DEF JobAsks, EntryOK

\* What the database serves keeps the types.
LEMMA ServeTyped ==
  ASSUME IInv, Database
  PROVE  /\ StoreTyped' /\ conv' \in Record /\ requests' \in Seq(Asked) /\ job' \in {0, job}
         /\ pending' \in [Bubbles -> {"none", "uploading", "sending", "failed"}]
         /\ edit' \in [at : {"idle", "local", "sending", "accepted", "rollback"}, seq : 0..MaxSeq,
                       body : Bodies \cup {"none"}, old : Texts]
         /\ del' \in [at : {"idle", "sent", "local"}, seq : 0..MaxSeq]
<1> DEFINE r == First
           Edits == [at : {"idle", "local", "sending", "accepted", "rollback"}, seq : 0..MaxSeq,
                     body : Bodies \cup {"none"}, old : Texts]
           Dels == [at : {"idle", "sent", "local"}, seq : 0..MaxSeq]
           Pendings == [Bubbles -> {"none", "uploading", "sending", "failed"}]
<1>0. requests # <<>> /\ (Puts \/ Goes \/ GivesUp \/ Rewrites \/ RemovesShown \/ RemovesOther \/ Previews \/ Loads)
  BY Outcomes
<1>1. r \in Asked /\ RequestOK(r) /\ r = requests[1] /\ 1 \in DOMAIN requests /\ Served \in Seq(Asked)
  BY <1>0, FirstIs DEF First
<1>2. /\ r.seq \in Positions /\ r.text \in Texts /\ r.copy \in Record
      /\ \A o \in {"put", "find", "get", "rewrite", "delete", "latest", "load"} : [r EXCEPT !.op = o] \in Asked
      /\ \A c \in Record : [r EXCEPT !.op = "latest", !.copy = c] \in Asked
  BY <1>1 DEF Asked
<1>3. /\ store \in [Positions -> Texts] /\ list \in [Positions -> Texts] \cup {NotLoaded} /\ conv \in Record
      /\ edit \in Edits /\ del \in Dels /\ pending \in Pendings /\ job \in 0..MaxSeq
  BY DEF IInv, Typed, StoreTyped, WorkTyped, SendingTyped, EditingTyped
<1>4. MaxSeq \in Nat /\ MaxSeq >= 1 /\ Absent \in Texts
  <2>1. MaxSeq \in Nat /\ MaxSeq >= 1
    BY Bounds DEF IInv, Typed
  <2> QED BY <2>1, Nothings
<1>5. ASSUME NEW t \in Texts
      PROVE  /\ [store EXCEPT ![r.seq] = t] \in [Positions -> Texts]
             /\ InList(r.seq, t) \in [Positions -> Texts] \cup {NotLoaded}
  BY <1>2, <1>3 DEF InList
<1> HIDE DEF r, Edits, Dels, Pendings
<1>6. CASE Puts
  <2>1. PutMessage(r)
    BY <1>6 DEF Puts, r
  <2>2. StoreTyped'
    BY <2>1, <1>2, <1>3, <1>5 DEF PutMessage, StoreTyped
  <2>3. r.text.body \in Words /\ r.op = "put"
    BY <1>1, <2>1, PutIs DEF PutMessage
  <2>4. conv' \in Record
    <3>0. r.copy \in Record /\ r.seq \in 1..MaxSeq
      BY <1>2 DEF Positions
    <3>1. r.copy.synced \in 0..MaxSeq /\ r.copy.last \in 0..MaxSeq /\ r.copy.read \in 0..MaxSeq /\ r.seq \in 0..MaxSeq
      BY <1>4, <3>0 DEF Record
    <3>2. /\ Later(r.copy.synced, r.seq) \in 0..MaxSeq /\ Later(r.copy.last, r.seq) \in 0..MaxSeq
          /\ Later(r.copy.read, r.seq) \in 0..MaxSeq
      BY <1>4, <3>1, LaterIs
    <3>3. [seq |-> r.seq, body |-> r.text.body] \in [seq : 0..MaxSeq, body : Bodies \cup {"file", "none"}]
      BY <3>1, <2>3 DEF Words
    <3>4. Applied(r.copy, r.seq, r.text) \in Record
      BY <1>2, <3>1, <3>2, <3>3 DEF Applied, Record
    <3> QED BY <3>4, <2>1 DEF PutMessage
  <2>5. pending' \in Pendings
    BY <2>1, <1>3 DEF PutMessage, Echoed, Pendings
  <2> QED BY <2>1, <2>2, <2>4, <2>5, <1>1, <1>3 DEF PutMessage, Edits, Dels, Pendings
<1>7. CASE Goes
  <2>1. [First EXCEPT !.op = IF First.op = "find" THEN "get" ELSE "rewrite"] \in Asked
    BY <1>2 DEF r
  <2>2. requests' \in Seq(Asked)
    BY <1>0, <1>7, <2>1, QueueServed DEF Goes
  <2> QED BY <1>3, <1>7, <2>2 DEF Goes, StoreTyped, Edits, Dels, Pendings
<1>8. CASE GivesUp
  <2>1. conv' \in Record /\ job' \in {0, job} /\ edit' \in Edits /\ del' \in Dels
    BY <1>3, <1>8, ResumeTyped DEF GivesUp, Edits, Dels
  <2> QED BY <1>1, <1>3, <1>8, <2>1 DEF GivesUp, StoreTyped, Edits, Dels, Pendings
<1>9. CASE Rewrites
  <2>1. SetMessageBody(r)
    BY <1>9 DEF Rewrites, r
  <2>2. r.text.body \in Words
    BY <1>1, <2>1 DEF RequestOK, SetMessageBody
  <2>3. StoreTyped'
    BY <2>1, <1>2, <1>3, <1>5 DEF SetMessageBody, StoreTyped
  <2> DEFINE c == IF conv.preview.seq = r.seq THEN [conv EXCEPT !.preview.body = r.text.body] ELSE conv
  <2>4. c \in Record
    BY <2>2, <1>3 DEF Record, Words
  <2>5. Resume(r.who, c)
    BY <2>1 DEF SetMessageBody
  <2> HIDE DEF c
  <2>6. conv' \in Record /\ job' \in {0, job} /\ edit' \in Edits /\ del' \in Dels
    BY <2>4, <2>5, ResumeTyped DEF Edits, Dels
  <2> QED BY <2>1, <2>3, <2>6, <1>1, <1>3 DEF SetMessageBody, Edits, Dels, Pendings
<1>10. CASE RemovesShown
  <2>1. StoreTyped'
    BY <1>3, <1>4, <1>5, <1>10 DEF RemovesShown, Removes, StoreTyped, r
  <2>2. [First EXCEPT !.op = "latest", !.copy = conv] \in Asked
    BY <1>2, <1>3 DEF r
  <2>3. requests' \in Seq(Asked)
    BY <1>0, <1>10, <2>2, QueueServed DEF RemovesShown
  <2> QED BY <1>3, <1>10, <2>1, <2>3 DEF RemovesShown, Removes, Edits, Dels, Pendings
<1>11. CASE RemovesOther
  <2>1. StoreTyped'
    BY <1>3, <1>4, <1>5, <1>11 DEF RemovesOther, Removes, StoreTyped, r
  <2>2. conv' \in Record /\ job' \in {0, job} /\ edit' \in Edits /\ del' \in Dels
    BY <1>3, <1>11, ResumeTyped DEF RemovesOther, Edits, Dels
  <2> QED BY <1>1, <1>3, <1>11, <2>1, <2>2 DEF RemovesOther, Removes, Edits, Dels, Pendings
<1>12. CASE Previews
  <2>1. LatestPreview(r)
    BY <1>12 DEF Previews, r
  <2>2. [r.copy EXCEPT !.preview = LatestOf(store)] \in Record
    BY <1>2, LatestTyped DEF Record
  <2>3. Resume(r.who, [r.copy EXCEPT !.preview = LatestOf(store)])
    BY <2>1 DEF LatestPreview
  <2>4. conv' \in Record /\ job' \in {0, job} /\ edit' \in Edits /\ del' \in Dels
    BY <2>2, <2>3, ResumeTyped DEF Edits, Dels
  <2> QED BY <2>1, <2>4, <1>1, <1>3 DEF LatestPreview, StoreTyped, Edits, Dels, Pendings
<1>13. CASE Loads
  BY <1>1, <1>3, <1>13 DEF Loads, Loaded, StoreTyped, Edits, Dels, Pendings
<1> QED BY <1>0, <1>6, <1>7, <1>8, <1>9, <1>10, <1>11, <1>12, <1>13

(***************************************************************************)
(* What the other steps do.                                                *)
(***************************************************************************)
\* An entry is appended: by others, or as what was asked for from here.
Growing ==
    /\ (\E e \in Entries : Grows(e)) /\ UNCHANGED <<local, pending, composer, screen, history>>
    /\ edit' = edit \/ (edit.at = "sending" /\ edit' = [edit EXCEPT !.at = "accepted"]
                        /\ log' = Append(log, Edit("me", edit.seq, edit.body)))
    /\ del' = del \/ \E i \in gone' : del = NoDel /\ del' = [at |-> "sent", seq |-> i]

\* A bubble goes on, is answered, fails or is dismissed.
Sending ==
    /\ UNCHANGED <<wire, local, edit, del, composer, screen, history>>
    /\ \E b \in Bubbles, p \in {"none", "uploading", "sending", "failed"},
          s \in Bodies \cup {"upload", "file", "over", "dismissed"} :
          /\ pending' = [pending EXCEPT ![b] = p] /\ sent' = [sent EXCEPT ![b] = s]
          /\ s \in Bodies \cup {"file"} => p # "none"
          /\ sent[b] \in {"accepted", "over", "dismissed"} =>
                /\ s \in {"over", "dismissed"} /\ (sent[b] = "dismissed" => s = "dismissed")
                /\ (p = "none") = (pending[b] = "none" \/ s = "dismissed")

\* The composer is filled or emptied, the conversation left, or nothing happens.
Composing ==
    /\ UNCHANGED <<wire, local, outgoing, edit, del, history>>
    /\ \/ composer' = composer
       \/ composer' = NotEditing
       \/ /\ composer' \in [seq : 0..MaxSeq, was : Texts]
          /\ composer'.seq \in DOMAIN log /\ log[composer'.seq].k = "text" /\ composer'.was.body \in Words
    /\ \/ UNCHANGED screen
       \/ open' = FALSE /\ seen' = Unseen /\ missed' = FALSE

LEMMA Composes ==
  ASSUME IInv, (\E i \in Positions : StartEdit(i)) \/ EditLast \/ CancelEdit \/ Close \/ UNCHANGED vars
  PROVE  Composing
<1>1. ASSUME NEW i \in Positions, StartEdit(i) PROVE Composing
  <2>1. composer' = [seq |-> i, was |-> list[i]] /\ "edit" \in Bubble(i)
        /\ UNCHANGED <<wire, local, outgoing, edit, del, screen, history>>
    BY <1>1 DEF StartEdit
  <2>2. i \in DOMAIN log /\ log[i].k = "text" /\ list[i] \in Texts /\ list[i].body \in Words
    BY <2>1, OfferedIs
  <2>3. i \in 0..MaxSeq
    BY Bounds DEF IInv, Typed, Positions
  <2>4. composer' \in [seq : 0..MaxSeq, was : Texts] /\ composer'.seq = i /\ composer'.was = list[i]
    BY <2>1, <2>2, <2>3
  <2> QED BY <2>1, <2>2, <2>4 DEF Composing
<1>2. CASE EditLast
  <2>1. PICK i \in Shown : StartEdit(i)
    BY <1>2 DEF EditLast
  <2> QED BY <1>1, <2>1 DEF Shown
<1>3. CASE CancelEdit
  BY <1>3 DEF CancelEdit, Composing
<1>4. CASE Close
  BY <1>4 DEF Close, Composing
<1>5. CASE UNCHANGED vars
  BY <1>5 DEF vars, Composing
<1> QED BY <1>1, <1>2, <1>3, <1>4, <1>5

\* The rest of the bubbles' actions.
LEMMA Sends ==
  ASSUME IInv, NEW b \in Bubbles,
         SubmitText(b) \/ SendFile(b) \/ UploadEnds(b) \/ AnswerSend(b) \/ SendFails(b) \/ DismissPending(b)
  PROVE  Sending
<1> USE DEF SetSent, SetPending
<1>0. /\ sent[b] \in Bodies \cup {"no", "upload", "file", "accepted", "over", "dismissed"}
      /\ pending[b] \in {"none", "uploading", "sending", "failed"}
      /\ pending = [pending EXCEPT ![b] = pending[b]]
  BY DEF IInv, Typed, SendingTyped
<1>1. CASE SubmitText(b)
  <2>1. PICK body \in Bodies : /\ Unsent(b) /\ pending' = [pending EXCEPT ![b] = "sending"]
                               /\ sent' = [sent EXCEPT ![b] = body]
                               /\ UNCHANGED <<wire, local, edit, del, composer, screen, history>>
    BY <1>1 DEF SubmitText
  <2>2. sent[b] = "no"
    BY <2>1 DEF Unsent
  <2> QED BY <2>1, <2>2 DEF Sending
<1>2. CASE SendFile(b)
  BY <1>2 DEF SendFile, Unsent, Sending
<1>3. CASE UploadEnds(b)
  BY <1>3 DEF UploadEnds, Sending
<1>4. CASE AnswerSend(b)
  <2>1. sent[b] = "accepted" /\ sent' = [sent EXCEPT ![b] = "over"]
        /\ UNCHANGED <<wire, local, edit, del, composer, screen, history>>
    BY <1>4 DEF AnswerSend
  <2>2. PICK p \in {"none", "uploading", "sending", "failed"} :
            pending' = [pending EXCEPT ![b] = p] /\ (p = "none") = (pending[b] = "none")
    BY <1>0, <1>4 DEF AnswerSend
  <2>3. "over" \in Bodies \cup {"upload", "file", "over", "dismissed"} /\ "over" # "dismissed"
    OBVIOUS
  <2>4. /\ "over" \in {"over", "dismissed"} /\ "over" \notin Bodies \cup {"file"} /\ (sent[b] = "dismissed" => "over" = "dismissed")
        /\ (p = "none") = (pending[b] = "none" \/ "over" = "dismissed")
    BY <2>1, <2>2, ChatAssumption
  <2> QED BY <2>1, <2>2, <2>3, <2>4 DEF Sending
<1>5. CASE SendFails(b)
  <2>1. sent[b] \notin {"accepted", "over", "dismissed"} /\ "failed" # "none"
    BY <1>5, ChatAssumption DEF SendFails
  <2> QED BY <1>5, <2>1 DEF SendFails, Sending
<1>6. CASE DismissPending(b)
  BY <1>6, ChatAssumption DEF DismissPending, Sending
<1> QED BY <1>1, <1>2, <1>3, <1>4, <1>5, <1>6

\* All that may happen.
LEMMA Kinds ==
  ASSUME IInv, [Next]_vars
  PROVE  \/ Database \/ HandleIncoming \/ Growing \/ Sending \/ Composing
         \/ EditText \/ EditAnswered \/ EditFails \/ DeleteAnswered \/ Open \/ Effect \/ ReadElsewhere
<1>1. CASE Elsewhere
  BY <1>1, ElsewhereGrows DEF Elsewhere, Growing, outgoing
<1>2. ASSUME NEW b \in Bubbles, Accept(b) PROVE Growing
  BY <1>2, AcceptGrows DEF Accept, Growing
<1>3. CASE AcceptEdit
  BY <1>3, AcceptEditGrows DEF AcceptEdit, Growing, outgoing
<1>4. ASSUME NEW i \in Positions, DeleteMessage(i) PROVE Growing
  BY <1>4, DeleteGrows DEF DeleteMessage, Drop, Growing, outgoing
<1>5. ASSUME NEW b \in Bubbles,
             SubmitText(b) \/ SendFile(b) \/ UploadEnds(b) \/ AnswerSend(b) \/ SendFails(b) \/ DismissPending(b)
      PROVE  Sending
  BY <1>5, Sends
<1>6. ASSUME (\E i \in Positions : StartEdit(i)) \/ EditLast \/ CancelEdit \/ Close \/ UNCHANGED vars
      PROVE  Composing
  BY <1>6, Composes
<1> QED BY <1>1, <1>2, <1>3, <1>4, <1>5, <1>6 DEF Next

\* What is asked of the database has its type.
LEMMA RequestTyped ==
  ASSUME IInv, NEW op \in {"put", "find", "get", "rewrite", "delete", "latest", "load"},
         NEW who \in {"job", "edit", "rollback", "delete", "open"}, NEW seq \in Positions, NEW text \in Texts
  PROVE  /\ Request(op, who, seq, text) \in Asked
         /\ Request(op, who, seq, text) = [op |-> op, who |-> who, seq |-> seq, text |-> text, copy |-> conv]
  BY DEF Request, Asked, IInv, Typed, WorkTyped

\* An entry is taken in hand, and what it says is asked for.
LEMMA BeginIs ==
  ASSUME IInv, HandleIncoming
  PROVE  /\ job = 0 /\ job' \in DOMAIN log /\ job' # 0
         /\ IsNext(job') \/ (LateFrames /\ job' <= conv.synced /\ IsMessage(job'))
         /\ UNCHANGED <<wire, store, list, conv, outgoing, edit, del, composer, screen, history>>
         /\ \E r \in Asked :
               /\ Ask(r) /\ r.who = "job" /\ r.copy = conv
               /\ IsMessage(job') => /\ r.op = "put" /\ r.seq = job'
                                     /\ r.text = [body |-> log[job'].body, edited |-> FALSE]
               /\ log[job'].k = "edit" => /\ r.op = "find" /\ r.seq = log[job'].ref
                                          /\ r.text = [body |-> log[job'].body, edited |-> TRUE]
               /\ log[job'].k = "delete" => r.op = "delete" /\ r.seq = log[job'].ref
<1>1. PICK i \in DOMAIN log : Begin(i)
  BY DEF HandleIncoming
<1>2. /\ job = 0 /\ job' = i /\ (IsNext(i) \/ (LateFrames /\ i <= conv.synced /\ IsMessage(i)))
      /\ UNCHANGED <<wire, store, list, conv, outgoing, edit, del, composer, screen, history>>
      /\ Ask(CASE IsMessage(i)      -> Request("put", "job", i, [body |-> log[i].body, edited |-> FALSE])
             [] log[i].k = "edit" -> Request("find", "job", log[i].ref, [body |-> log[i].body, edited |-> TRUE])
             [] OTHER             -> Request("delete", "job", log[i].ref, Absent))
  BY <1>1 DEF Begin, HandleIncoming
<1>3. /\ EntryOK(i) /\ log[i].k \in {"text", "file", "edit", "delete"} /\ i # 0
      /\ i \in Positions /\ (log[i].ref \in 1..(i - 1) => log[i].ref \in Positions)
  <2>1. log[i] \in Entries /\ DOMAIN log = 1..Len(log) /\ Len(log) \in 0..MaxSeq /\ MaxSeq \in Nat
    BY EntryTyped, Bounds DEF IInv, Typed
  <2> QED BY <2>1 DEF IInv, Stored, LogOK, Entries, Positions
<1>4. /\ Absent \in Texts
      /\ log[i].body \in Words => \A e \in BOOLEAN : [body |-> log[i].body, edited |-> e] \in Texts
  <2>1. MaxSeq \in Nat /\ MaxSeq >= 1
    BY Bounds DEF IInv, Typed
  <2> QED BY <2>1, Nothings
<1>5. CASE IsMessage(i)
  <2> DEFINE t == [body |-> log[i].body, edited |-> FALSE]
             r == Request("put", "job", i, t)
  <2>1. Ask(r)
    <3>1. log[i].k # "edit"
      BY <1>5 DEF IsMessage
    <3> QED BY <1>2, <1>5, <3>1
  <2>2. t \in Texts
    <3>1. log[i].body \in Words
      BY <1>3, <1>5 DEF EntryOK
    <3> QED BY <1>4, <3>1
  <2> HIDE DEF t
  <2>3. r \in Asked /\ r.who = "job" /\ r.copy = conv /\ r.op = "put" /\ r.seq = i /\ r.text = t
    BY <1>3, <2>2, RequestTyped
  <2>4. log[i].k # "edit" /\ log[i].k # "delete"
    BY <1>5 DEF IsMessage
  <2> HIDE DEF r
  <2> QED BY <1>2, <1>3, <2>1, <2>3, <2>4 DEF t
<1>6. CASE log[i].k = "edit"
  <2> DEFINE t == [body |-> log[i].body, edited |-> TRUE]
             r == Request("find", "job", log[i].ref, t)
  <2>1. Ask(r) /\ ~IsMessage(i)
    BY <1>2, <1>6 DEF IsMessage
  <2>2. t \in Texts /\ log[i].ref \in Positions
    BY <1>3, <1>4, <1>6 DEF EntryOK, Words
  <2> HIDE DEF t
  <2>3. r \in Asked /\ r.who = "job" /\ r.copy = conv /\ r.op = "find" /\ r.seq = log[i].ref /\ r.text = t
    BY <2>2, RequestTyped
  <2> HIDE DEF r
  <2> QED BY <1>2, <1>3, <1>6, <2>1, <2>3 DEF t
<1>7. CASE log[i].k = "delete"
  <2> DEFINE r == Request("delete", "job", log[i].ref, Absent)
  <2>1. Ask(r) /\ ~IsMessage(i)
    BY <1>2, <1>7 DEF IsMessage
  <2>2. r \in Asked /\ r.who = "job" /\ r.copy = conv /\ r.op = "delete" /\ r.seq = log[i].ref
    BY <1>3, <1>4, <1>7, RequestTyped DEF EntryOK
  <2> HIDE DEF r
  <2> QED BY <1>2, <1>3, <1>7, <2>1, <2>2
<1> QED BY <1>3, <1>5, <1>6, <1>7 DEF IsMessage

\* An edit of one's own is asked for.
LEMMA EditIs ==
  ASSUME IInv, EditText
  PROVE  \E body \in Bodies, r \in Asked :
         /\ composer # NotEditing /\ edit = NoEdit /\ composer' = NotEditing
         /\ edit' = [at |-> "local", seq |-> composer.seq, body |-> body, old |-> composer.was]
         /\ Ask(r) /\ r.op = "get" /\ r.who = "edit" /\ r.seq = composer.seq /\ r.copy = conv
         /\ r.text = [body |-> body, edited |-> TRUE]
         /\ UNCHANGED <<wire, store, list, conv, job, outgoing, del, screen, history>>
<1>1. PICK body \in Bodies :
         /\ composer # NotEditing /\ edit = NoEdit /\ composer' = NotEditing
         /\ edit' = [at |-> "local", seq |-> composer.seq, body |-> body, old |-> composer.was]
         /\ Ask(Request("get", "edit", composer.seq, [body |-> body, edited |-> TRUE]))
         /\ UNCHANGED <<wire, store, list, conv, job, outgoing, del, screen, history>>
  BY DEF EditText
<1>2. composer.seq \in Positions
  <2>1. composer.seq \in DOMAIN log /\ WireTyped
    BY <1>1 DEF IInv, EditorOK, Typed
  <2> QED BY <2>1, Bounds
<1>3. [body |-> body, edited |-> TRUE] \in Texts
  BY DEF Texts
<1> DEFINE t == [body |-> body, edited |-> TRUE]
           r == Request("get", "edit", composer.seq, t)
<1>4. r \in Asked /\ r.op = "get" /\ r.who = "edit" /\ r.seq = composer.seq /\ r.copy = conv /\ r.text = t
  <2> HIDE DEF t
  <2> QED BY <1>2, <1>3, RequestTyped DEF t
<1>5. Ask(r)
  BY <1>1
<1> HIDE DEF r
<1> QED BY <1>1, <1>4, <1>5

\* Its text is to be put back.
LEMMA BackIs ==
  ASSUME IInv, EditFails
  PROVE  \E r \in Asked :
         /\ edit.at \in {"sending", "accepted"} /\ edit' = [edit EXCEPT !.at = "rollback"]
         /\ Ask(r) /\ r.op = "get" /\ r.who = "rollback" /\ r.seq = edit.seq /\ r.copy = conv
         /\ r.text = edit.old
         /\ undone' = (undone \/ edit.at = "accepted" \/ LatestBody(edit.seq) # edit.old.body)
         /\ UNCHANGED <<wire, store, list, conv, job, outgoing, del, composer, screen, rewound, scene>>
<1>1. edit.at \in {"sending", "accepted"} /\ Ask(Request("get", "rollback", edit.seq, edit.old))
  BY DEF EditFails
<1>2. edit.seq \in Positions /\ edit.old \in Texts
  <2>1. edit.seq \in DOMAIN log /\ WireTyped /\ EditingTyped
    BY <1>1 DEF IInv, EditorOK, Typed
  <2> QED BY <2>1, Bounds DEF EditingTyped
<1> DEFINE r == Request("get", "rollback", edit.seq, edit.old)
<1>3. r \in Asked /\ r.op = "get" /\ r.who = "rollback" /\ r.seq = edit.seq /\ r.copy = conv /\ r.text = edit.old
  BY <1>2, RequestTyped
<1>4. Ask(r)
  BY <1>1
<1> HIDE DEF r
<1> QED BY <1>3, <1>4 DEF EditFails

\* A deletion was answered: the message is to be removed here.
LEMMA DroppedIs ==
  ASSUME IInv, DeleteAnswered
  PROVE  /\ del.at = "sent"
         /\ UNCHANGED <<wire, store, list, conv, job, outgoing, edit, composer, screen, history>>
         /\ \/ del' = NoDel /\ requests' = requests
            \/ /\ del' = [del EXCEPT !.at = "local"]
               /\ \E r \in Asked : Ask(r) /\ r.op = "delete" /\ r.who = "delete" /\ r.seq = del.seq /\ r.copy = conv
<1>1. del.at = "sent"
      /\ UNCHANGED <<wire, store, list, conv, job, outgoing, edit, composer, screen, history>>
      /\ \/ del' = NoDel /\ requests' = requests
         \/ del' = [del EXCEPT !.at = "local"] /\ Ask(Request("delete", "delete", del.seq, Absent))
  BY DEF DeleteAnswered
<1>2. del.seq \in Positions
  <2>1. del.seq \in gone /\ WireTyped
    BY <1>1 DEF IInv, EditorOK, Typed
  <2> QED BY <2>1, Bounds
<1>3. Absent \in Texts
  BY DEF Absent, Texts
<1> DEFINE r == Request("delete", "delete", del.seq, Absent)
<1>4. r \in Asked /\ r.op = "delete" /\ r.who = "delete" /\ r.seq = del.seq /\ r.copy = conv
  BY <1>2, <1>3, RequestTyped
<1> HIDE DEF r
<1>5. CASE del' = NoDel /\ requests' = requests
  BY <1>1, <1>5
<1>6. CASE del' = [del EXCEPT !.at = "local"] /\ Ask(Request("delete", "delete", del.seq, Absent))
  BY <1>1, <1>4, <1>6 DEF r
<1> QED BY <1>1, <1>5, <1>6

\* The conversation is opened, and its history asked for unless it is there.
LEMMA OpenIs ==
  ASSUME IInv, Open
  PROVE  /\ open' = TRUE /\ seen' = Unseen /\ missed' = FALSE
         /\ UNCHANGED <<wire, store, list, conv, job, outgoing, edit, del, composer, history>>
         /\ \/ requests' = requests
            \/ \E r \in Asked : Ask(r) /\ r.op = "load" /\ r.who = "open" /\ r.copy = conv
<1>1. 1 \in Positions /\ Absent \in Texts
  <2>1. WireTyped
    BY DEF IInv, Typed
  <2> QED BY <2>1, Bounds DEF Absent, Texts
<1>2. LET r == Request("load", "open", 1, Absent) IN
      r \in Asked /\ r.op = "load" /\ r.who = "open" /\ r.copy = conv
  BY <1>1, RequestTyped
<1> QED BY <1>2 DEF Open

(***************************************************************************)
(* Types.                                                                  *)
(***************************************************************************)
LEMMA TypedStep ==
  ASSUME IInv, [Next]_vars
  PROVE  Typed'
<1> DEFINE Edits == [at : {"idle", "local", "sending", "accepted", "rollback"}, seq : 0..MaxSeq,
                     body : Bodies \cup {"none"}, old : Texts]
           Dels == [at : {"idle", "sent", "local"}, seq : 0..MaxSeq]
           Drafts == [seq : 0..MaxSeq, was : Texts]
           Rest == /\ StoreTyped' /\ (conv' \in Record /\ requests' \in Seq(Asked)) /\ job' \in {0, job} \cup DOMAIN log
                   /\ SendingTyped' /\ (edit' \in Edits /\ del' \in Dels /\ composer' \in Drafts) /\ ScreenTyped'
<1>1. /\ StoreTyped /\ conv \in Record /\ requests \in Seq(Asked)
      /\ SendingTyped /\ edit \in Edits /\ del \in Dels /\ composer \in Drafts /\ ScreenTyped
  BY DEF IInv, Typed, WorkTyped, EditingTyped
<1>2. /\ MaxSeq \in Nat /\ 0 \in 0..MaxSeq /\ gone \subseteq 0..MaxSeq /\ DOMAIN log \subseteq 0..MaxSeq
      /\ job \in 0..MaxSeq /\ (job # 0 => job \in DOMAIN log)
  <2>1. WireTyped
    BY DEF IInv, Typed
  <2> QED BY <2>1, Bounds DEF IInv, Typed, WorkTyped, Positions
<1>3. NoEdit \in Edits /\ NoDel \in Dels /\ NotEditing \in Drafts
  BY <1>2 DEF NoEdit, NoDel, NotEditing, Texts, Absent
<1> SUFFICES Rest
  <2>1. WireTyped' /\ \A i \in DOMAIN log : i \in DOMAIN log'
    BY LogGrows
  <2>2. job' \in 0..MaxSeq /\ (job' # 0 => job' \in DOMAIN log')
    BY <1>2, <2>1
  <2> QED BY <2>1, <2>2 DEF Typed, WorkTyped, EditingTyped
<1>4. CASE Database
  <2>1. SendingTyped' /\ ScreenTyped' /\ composer' = composer
    <3>1. UNCHANGED <<sent, composer, open, missed, undone>>
      BY <1>4, Outcomes
    <3>2. rewound' \in BOOLEAN
      BY <1>1, <1>4, Outcomes DEF Puts, PutMessage, Goes, GivesUp, Rewrites, SetMessageBody, RemovesShown,
         RemovesOther, Removes, Previews, LatestPreview, Loads, Loaded, ScreenTyped
    <3>3. pending' \in [Bubbles -> {"none", "uploading", "sending", "failed"}]
      BY <1>4, ServeTyped
    <3> QED BY <1>1, <3>1, <3>2, <3>3 DEF SendingTyped, ScreenTyped
  <2> QED BY <1>1, <1>4, <2>1, ServeTyped
<1> USE DEF local, outgoing, screen, history
<1>5. ASSUME UNCHANGED <<store, list, conv>> PROVE StoreTyped' /\ conv' \in Record
  BY <1>1, <1>5 DEF StoreTyped
<1>6. CASE HandleIncoming
  <2>1. /\ job' \in DOMAIN log /\ requests' \in Seq(Asked)
        /\ UNCHANGED <<store, list, conv, outgoing, edit, del, composer, screen, history>>
    BY <1>6, BeginIs, QueueAsked
  <2> QED BY <1>1, <1>5, <2>1 DEF SendingTyped, ScreenTyped
<1>7. CASE Growing
  <2>1. sent' \in [Bubbles -> Bodies \cup {"no", "upload", "file", "accepted", "over", "dismissed"}]
    BY <1>1, <1>7 DEF Growing, Grows, SendingTyped
  <2>2. edit' \in Edits
    BY <1>1, <1>7 DEF Growing
  <2>3. del' \in Dels
    <3>1. gone' \subseteq 0..MaxSeq
      BY <1>2, <1>7, LogGrows
    <3> QED BY <1>1, <1>7, <3>1 DEF Growing
  <2>4. UNCHANGED <<store, list, conv, requests, job, pending, composer, open, missed, undone, rewound>>
    BY <1>7 DEF Growing
  <2> HIDE DEF Edits, Dels, Drafts
  <2> QED BY <1>1, <1>5, <2>1, <2>2, <2>3, <2>4 DEF SendingTyped, ScreenTyped
<1>8. CASE Sending
  <2>1. SendingTyped'
    BY <1>1, <1>8 DEF Sending, SendingTyped
  <2> QED BY <1>1, <1>5, <1>8, <2>1 DEF Sending, ScreenTyped
<1>9. CASE Composing
  <2>1. composer' \in Drafts /\ ScreenTyped'
    BY <1>1, <1>3, <1>9 DEF Composing, ScreenTyped
  <2> QED BY <1>1, <1>5, <1>9, <2>1 DEF Composing, SendingTyped
<1>10. CASE EditText
  <2>1. PICK body \in Bodies, r \in Asked :
         /\ composer' = NotEditing /\ Ask(r)
         /\ edit' = [at |-> "local", seq |-> composer.seq, body |-> body, old |-> composer.was]
         /\ UNCHANGED <<wire, store, list, conv, job, outgoing, del, screen, history>>
    BY <1>10, EditIs
  <2>2. requests' \in Seq(Asked)
    BY <2>1, QueueAsked
  <2> QED BY <1>1, <1>3, <1>5, <2>1, <2>2 DEF SendingTyped, ScreenTyped
<1>11. CASE EditAnswered
  BY <1>1, <1>3, <1>5, <1>11 DEF EditAnswered, SendingTyped, ScreenTyped
<1>12. CASE EditFails
  <2>1. PICK r \in Asked :
         /\ edit' = [edit EXCEPT !.at = "rollback"] /\ Ask(r)
         /\ undone' = (undone \/ edit.at = "accepted" \/ LatestBody(edit.seq) # edit.old.body)
         /\ UNCHANGED <<wire, store, list, conv, job, outgoing, del, composer, screen, rewound, scene>>
    BY <1>12, BackIs
  <2>2. requests' \in Seq(Asked)
    BY <2>1, QueueAsked
  <2> QED BY <1>1, <1>5, <2>1, <2>2 DEF SendingTyped, ScreenTyped
<1>13. CASE DeleteAnswered
  <2>1. requests' \in Seq(Asked)
    BY <1>1, <1>13, DroppedIs, QueueAsked
  <2>2. del' \in {NoDel, [del EXCEPT !.at = "local"]}
        /\ UNCHANGED <<store, list, conv, job, outgoing, edit, composer, screen, history>>
    BY <1>13, DroppedIs
  <2> QED BY <1>1, <1>3, <1>5, <2>1, <2>2 DEF SendingTyped, ScreenTyped
<1>14. CASE Open
  <2>1. requests' \in Seq(Asked)
    BY <1>1, <1>14, OpenIs, QueueAsked
  <2>2. /\ open' = TRUE /\ missed' = FALSE
        /\ UNCHANGED <<store, list, conv, job, outgoing, edit, del, composer, history>>
    BY <1>14, OpenIs
  <2> QED BY <1>1, <1>5, <2>1, <2>2 DEF SendingTyped, ScreenTyped
<1>15. CASE Effect \/ ReadElsewhere
  <2>1. PICK n \in 0..MaxSeq : conv' = conv \/ conv' = [conv EXCEPT !.read = n]
    <3>1. conv.last \in 0..MaxSeq /\ conv.read \in 0..MaxSeq
      BY <1>1 DEF Record
    <3>2. Later(conv.read, conv.last) \in 0..MaxSeq
      BY <1>2, <3>1, LaterIs
    <3>3. CASE Effect
      BY <1>2, <3>2, <3>3 DEF Effect
    <3>4. CASE ReadElsewhere
      BY <1>2, <3>4 DEF ReadElsewhere
    <3> QED BY <1>15, <3>3, <3>4
  <2>2. conv' \in Record
    BY <1>1, <2>1 DEF Record
  <2>3. ScreenTyped'
    BY <1>1, <1>15 DEF Effect, ReadElsewhere, ScreenTyped
  <2> QED BY <1>1, <1>15, <2>2, <2>3 DEF Effect, ReadElsewhere, StoreTyped, SendingTyped
<1> QED BY <1>4, <1>6, <1>7, <1>8, <1>9, <1>10, <1>11, <1>12, <1>13, <1>14, <1>15, Kinds

(***************************************************************************)
(* What is stored.                                                         *)
(***************************************************************************)
\* Only the database writes; besides, a record is only marked as read.
LEMMA Otherwise ==
  ASSUME IInv, [Next]_vars, ~Database
  PROVE  /\ UNCHANGED <<store, list, rewound>>
         /\ conv'.synced = conv.synced /\ conv'.last = conv.last /\ conv'.preview = conv.preview
         /\ conv' = conv \/ Effect \/ ReadElsewhere
         /\ job' = job \/ HandleIncoming
<1> USE DEF local, history
<1>1. CASE HandleIncoming
  BY <1>1 DEF HandleIncoming, Begin
<1>2. CASE Growing \/ Sending \/ Composing
  BY <1>2 DEF Growing, Sending, Composing
<1>3. CASE EditText \/ EditAnswered \/ EditFails \/ DeleteAnswered \/ Open
  BY <1>3 DEF EditText, EditAnswered, EditFails, DeleteAnswered, Open
<1>4. CASE Effect \/ ReadElsewhere
  BY <1>4 DEF Effect, ReadElsewhere, IInv, Typed, WorkTyped, Record
<1> QED BY <1>1, <1>2, <1>3, <1>4, Kinds

\* What becomes of the bubble of a message in the log.
LEMMA BubbleGoes ==
  ASSUME IInv, [Next]_vars, NEW i \in DOMAIN log, NEW b, b = log[i].bubble, b # "none"
  PROVE  /\ b \in Bubbles /\ sent'[b] \in {"accepted", "over", "dismissed"}
         /\ sent[b] = "dismissed" => sent'[b] = "dismissed"
         /\ pending[b] = "none" => pending'[b] = "none"
         /\ ~Database /\ sent'[b] # "dismissed" /\ pending[b] # "none" => pending'[b] # "none"
<1>1. /\ b \in Bubbles /\ sent[b] \in {"accepted", "over", "dismissed"}
      /\ pending \in [Bubbles -> {"none", "uploading", "sending", "failed"}]
      /\ sent \in [Bubbles -> Bodies \cup {"no", "upload", "file", "accepted", "over", "dismissed"}]
  BY EntryTyped DEF IInv, Typed, SendingTyped, Entries, Stored, BubblesOnce
<1>2. CASE Database
  <2>1. sent' = sent
    BY <1>2, Outcomes
  <2>2. pending' = pending \/ Echoed(First.seq)
    BY <1>2, Outcomes DEF Puts, PutMessage, Goes, GivesUp, Rewrites, SetMessageBody, RemovesShown, RemovesOther,
       Removes, Previews, LatestPreview, Loads, Loaded
  <2> QED BY <1>1, <1>2, <2>1, <2>2 DEF Echoed
<1>3. CASE Growing
  <2>1. pending' = pending
    BY <1>3 DEF Growing
  <2>2. sent' = sent \/ \E c \in Bubbles : sent' = [sent EXCEPT ![c] = "accepted"] /\ sent[c] \in Bodies \cup {"file"}
    BY <1>3 DEF Growing, Grows
  <2>3. sent[b] \notin Bodies \cup {"file"}
    BY <1>1, ChatAssumption
  <2> QED BY <1>1, <2>1, <2>2, <2>3
<1>4. CASE Sending
  BY <1>1, <1>4 DEF Sending
<1>5. ASSUME outgoing' = outgoing
      PROVE  sent' = sent /\ pending' = pending
  BY <1>5 DEF outgoing
<1>6. CASE ~(Database \/ Growing \/ Sending)
  <2>1. outgoing' = outgoing
    <3>1. CASE HandleIncoming
      BY <3>1, BeginIs
    <3>2. CASE Composing
      BY <3>2 DEF Composing
    <3>3. CASE EditText \/ EditAnswered \/ EditFails \/ DeleteAnswered \/ Open \/ Effect \/ ReadElsewhere
      BY <3>3 DEF EditText, EditAnswered, EditFails, DeleteAnswered, Open, Effect, ReadElsewhere
    <3> QED BY <1>6, <3>1, <3>2, <3>3, Kinds
  <2> QED BY <1>1, <1>5, <2>1
<1> QED BY <1>2, <1>3, <1>4, <1>6

\* The bubble of a new message was not in the log.
LEMMA BubblesOnceStep ==
  ASSUME IInv, [Next]_vars
  PROVE  BubblesOnce'
<1>1. /\ WireTyped /\ BubblesOnce /\ LogOK
      /\ \A i \in DOMAIN log : i \in DOMAIN log' /\ log'[i] = log[i]
      /\ \A i \in DOMAIN log' : i \in DOMAIN log \/ i = Len(log) + 1
  BY LogGrows DEF IInv, Typed, Stored
<1>2. ASSUME NEW i \in DOMAIN log, log[i].bubble # "none"
      PROVE  IsMessage(i)' /\ sent'[log[i].bubble] \in {"accepted", "over", "dismissed"}
  BY <1>1, <1>2, BubbleGoes DEF BubblesOnce, IsMessage
<1>3. CASE log' = log
  BY <1>1, <1>2, <1>3 DEF BubblesOnce
<1>4. CASE \E e \in Entries : Grows(e)
  <2>1. PICK e \in Entries : Grows(e)
    BY <1>4
  <2>2. log' = Append(log, e) /\ Len(log) + 1 \notin DOMAIN log /\ log'[Len(log) + 1] = e
        /\ Len(log) + 1 \in DOMAIN log'
    BY <2>1, <1>1, AppendIs DEF Grows, WireTyped
  <2>3. CASE e.bubble = "none"
    BY <1>1, <1>2, <2>2, <2>3 DEF BubblesOnce
  <2>4. CASE e.bubble # "none"
    <3>1. PICK b \in Bubbles : e.bubble = b /\ sent[b] \in Bodies \cup {"file"} /\ sent' = [sent EXCEPT ![b] = "accepted"]
                               /\ e.k \in {"text", "file"}
      BY <2>1, <2>4 DEF Grows
    <3>2. \A i \in DOMAIN log : log[i].bubble # b
      <4>1. sent[b] \notin {"accepted", "over", "dismissed"}
        BY <3>1, ChatAssumption
      <4> QED BY <1>1, <2>4, <3>1, <4>1 DEF BubblesOnce
    <3>3. sent'[b] = "accepted"
      BY <3>1 DEF IInv, Typed, SendingTyped
    <3> QED BY <1>1, <1>2, <2>2, <3>1, <3>2, <3>3 DEF BubblesOnce, IsMessage
  <2> QED BY <2>3, <2>4
<1> QED BY <1>3, <1>4, WireEffect

\* What the database writes.
LEMMA Written ==
  ASSUME IInv, Database
  PROVE  /\ First.seq \in Positions /\ First.text \in Texts /\ First \in Asked /\ RequestOK(First)
         /\ \/ /\ Puts /\ First.seq = job /\ job \in DOMAIN log /\ IsMessage(job) /\ First.text.body \in Words
               /\ store' = [store EXCEPT ![job] = First.text]
               /\ list' = IF job \in Shown THEN list ELSE InList(job, First.text)
               /\ Echoed(job)
            \/ /\ Rewrites /\ First.seq \in DOMAIN log /\ log[First.seq].k = "text" /\ First.text.body \in Words
               /\ (store[First.seq] # Absent \/ First.seq \in gone) /\ Echo(First.seq)
               /\ store' = [store EXCEPT ![First.seq] = First.text]
               /\ list' = IF First.seq \in Shown THEN InList(First.seq, First.text) ELSE list
               /\ pending' = pending
            \/ /\ (RemovesShown \/ RemovesOther) /\ First.seq \in gone
               /\ store' = [store EXCEPT ![First.seq] = Absent] /\ list' = InList(First.seq, Absent)
               /\ pending' = pending
            \/ Loads /\ store' = store /\ list' = store /\ pending' = pending
            \/ (Goes \/ GivesUp \/ Previews) /\ UNCHANGED <<store, list, pending>>
<1>1. requests # <<>> /\ First = requests[1] /\ 1 \in DOMAIN requests /\ RequestOK(First) /\ First \in Asked
  BY Outcomes, FirstIs DEF First
<1>2. First.seq \in Positions /\ First.text \in Texts
  BY <1>1 DEF Asked
<1>3. CASE Puts
  <2>1. First.seq = job /\ job \in DOMAIN log /\ IsMessage(job) /\ First.text.body \in Words
    BY <1>1, <1>3, PutIs DEF Puts
  <2> QED BY <1>1, <1>2, <1>3, <2>1 DEF Puts, PutMessage
<1>4. CASE Rewrites
  BY <1>1, <1>2, <1>4 DEF Rewrites, SetMessageBody, RequestOK
<1>5. CASE RemovesShown \/ RemovesOther
  BY <1>1, <1>2, <1>5 DEF RemovesShown, RemovesOther, Removes, RequestOK
<1>6. CASE Loads
  BY <1>1, <1>2, <1>6 DEF Loads, Loaded
<1>7. CASE Goes \/ GivesUp \/ Previews
  BY <1>1, <1>2, <1>7 DEF Goes, GivesUp, Previews, LatestPreview
<1> QED BY <1>3, <1>4, <1>5, <1>6, <1>7, Outcomes

\* The messages in memory after one of them was written.
LEMMA InListIs ==
  ASSUME IInv, NEW i \in Positions, NEW t \in Texts, InList(i, t) # NotLoaded
  PROVE  /\ list # NotLoaded /\ InList(i, t) \in [Positions -> Texts] /\ InList(i, t)[i] = t
         /\ \A k \in Positions : k # i => InList(i, t)[k] = list[k]
<1>1. list \in [Positions -> Texts] \cup {NotLoaded}
  BY DEF IInv, Typed, StoreTyped
<1>2. list # NotLoaded
  BY DEF InList
<1> QED BY <1>1, <1>2 DEF InList

\* One position of what is stored and shown.
LEMMA StoredOKStep ==
  ASSUME IInv, [Next]_vars
  PROVE  StoredOK'
<1>1. /\ StoredOK /\ store \in [Positions -> Texts] /\ list \in [Positions -> Texts] \cup {NotLoaded} /\ MaxSeq \in Nat
      /\ MaxSeq >= 1 /\ DOMAIN log \subseteq Positions
  <2>1. WireTyped
    BY DEF IInv, Typed
  <2> QED BY <2>1, Bounds DEF IInv, Typed, StoreTyped, Stored
<1>2. /\ \A i \in DOMAIN log : i \in DOMAIN log' /\ (IsMessage(i)' <=> IsMessage(i))
      /\ gone \subseteq gone'
  BY LogGrows DEF IsMessage
<1>3. /\ Absent \in Texts /\ Absent.body = "absent" /\ NotLoaded \notin [Positions -> Texts]
      /\ \A t \in Texts : t.body \in Words => t # Absent
  BY <1>1, Nothings
<1> DEFINE Good(i, s, l) == /\ s # Absent => i \in DOMAIN log /\ IsMessage(i) /\ s.body \in Words
                            /\ l # Absent => s # Absent /\ l.body \in Words
                            /\ s # Absent => l # Absent \/ i \in gone
           Fine(i, s) == s # Absent => i \in DOMAIN log /\ IsMessage(i) /\ s.body \in Words
<1> SUFFICES ASSUME NEW i \in Positions
             PROVE  Fine(i, store'[i]) /\ (list' # NotLoaded => Good(i, store'[i], list'[i]))
  BY <1>2 DEF StoredOK
<1>4. Fine(i, store[i]) /\ (list # NotLoaded => Good(i, store[i], list[i]))
  BY <1>1 DEF StoredOK
<1>5. CASE ~Database
  BY <1>4, <1>5, Otherwise
<1>6. CASE Database
  <2>1. First.seq \in Positions /\ First.text \in Texts
    BY <1>6, Written
  <2>2. CASE /\ First.seq = job /\ job \in DOMAIN log /\ IsMessage(job) /\ First.text.body \in Words
             /\ store' = [store EXCEPT ![job] = First.text]
             /\ list' = IF job \in Shown THEN list ELSE InList(job, First.text)
    <3>1. Fine(i, store'[i])
      BY <1>1, <1>4, <2>2
    <3>2. ASSUME list' # NotLoaded PROVE Good(i, store'[i], list'[i])
      <4>1. CASE job \in Shown
        <5>1. list' = list /\ list[job] # Absent /\ list # NotLoaded
          BY <2>2, <4>1 DEF Shown
        <5>2. First.text # Absent
          BY <1>3, <2>1, <2>2
        <5> QED BY <1>1, <1>4, <2>2, <5>1, <5>2
      <4>2. CASE job \notin Shown
        <5>1. list # NotLoaded /\ list'[job] = First.text /\ \A k \in Positions : k # job => list'[k] = list[k]
          BY <2>1, <2>2, <3>2, <4>2, InListIs
        <5> QED BY <1>1, <1>4, <2>2, <5>1
      <4> QED BY <4>1, <4>2
    <3> QED BY <3>1, <3>2
  <2>3. CASE /\ First.seq \in DOMAIN log /\ log[First.seq].k = "text" /\ First.text.body \in Words
             /\ (store[First.seq] # Absent \/ First.seq \in gone)
             /\ store' = [store EXCEPT ![First.seq] = First.text]
             /\ list' = IF First.seq \in Shown THEN InList(First.seq, First.text) ELSE list
    <3>1. Fine(i, store'[i])
      BY <1>1, <1>4, <2>3 DEF IsMessage
    <3>2. ASSUME list' # NotLoaded PROVE Good(i, store'[i], list'[i])
      <4>1. CASE First.seq \in Shown
        <5>1. list # NotLoaded /\ list'[First.seq] = First.text
              /\ \A k \in Positions : k # First.seq => list'[k] = list[k]
          BY <2>1, <2>3, <3>2, <4>1, InListIs
        <5>2. First.text # Absent
          BY <1>3, <2>1, <2>3
        <5>3. CASE i = First.seq
          BY <1>1, <2>3, <3>1, <5>1, <5>2, <5>3
        <5>4. CASE i # First.seq
          BY <1>1, <1>4, <2>3, <5>1, <5>4
        <5> QED BY <5>3, <5>4
      <4>2. CASE First.seq \notin Shown
        <5>1. list' = list /\ list # NotLoaded /\ list[First.seq] = Absent
          BY <2>1, <2>3, <3>2, <4>2 DEF Shown
        <5>2. First.seq \in gone
          BY <1>1, <2>1, <2>3, <5>1 DEF StoredOK
        <5> QED BY <1>1, <1>4, <2>3, <3>1, <5>1, <5>2
      <4> QED BY <4>1, <4>2
    <3> QED BY <3>1, <3>2
  <2>4. CASE store' = [store EXCEPT ![First.seq] = Absent] /\ list' = InList(First.seq, Absent)
    <3>1. Fine(i, store'[i])
      BY <1>1, <1>4, <2>4
    <3>2. ASSUME list' # NotLoaded PROVE Good(i, store'[i], list'[i])
      <4>1. list # NotLoaded /\ list'[First.seq] = Absent /\ \A k \in Positions : k # First.seq => list'[k] = list[k]
        BY <1>3, <2>1, <2>4, <3>2, InListIs
      <4> QED BY <1>1, <1>4, <2>1, <2>4, <4>1
    <3> QED BY <3>1, <3>2
  <2>5. CASE store' = store /\ list' = store
    BY <1>4, <2>5
  <2>6. CASE UNCHANGED <<store, list>>
    BY <1>4, <2>6
  <2> HIDE DEF Good, Fine
  <2> QED BY <1>6, <2>2, <2>3, <2>4, <2>5, <2>6, Written
<1> QED BY <1>5, <1>6

\* A message is a bubble until it is stored.
LEMMA BubblesEchoStep ==
  ASSUME IInv, [Next]_vars
  PROVE  BubblesEcho'
<1>1. /\ BubblesEcho /\ BubblesOnce /\ store \in [Positions -> Texts] /\ gone \subseteq gone'
      /\ \A i \in DOMAIN log : i \in Positions /\ i \in DOMAIN log' /\ log'[i] = log[i]
      /\ \A i \in DOMAIN log' : i \in DOMAIN log \/ i = Len(log) + 1
  <2>1. WireTyped
    BY DEF IInv, Typed
  <2> QED BY <2>1, Bounds, LogGrows DEF IInv, Typed, StoreTyped, Stored
<1>2. ASSUME NEW i \in DOMAIN log, NEW b, b = log[i].bubble, b # "none"
      PROVE  /\ store'[i] # Absent => pending'[b] = "none"
             /\ i \notin gone' /\ store'[i] = Absent /\ sent'[b] # "dismissed" => pending'[b] # "none"
  <2>1. /\ store[i] # Absent => pending[b] = "none"
        /\ i \notin gone /\ store[i] = Absent /\ sent[b] # "dismissed" => pending[b] # "none"
    BY <1>1, <1>2 DEF BubblesEcho
  <2>2. /\ b \in Bubbles /\ (sent[b] = "dismissed" => sent'[b] = "dismissed")
        /\ pending[b] = "none" => pending'[b] = "none"
        /\ ~Database /\ sent'[b] # "dismissed" /\ pending[b] # "none" => pending'[b] # "none"
    BY <1>2, BubbleGoes
  <2>3. CASE ~Database
    BY <1>1, <2>1, <2>2, <2>3, Otherwise
  <2>4. CASE Database
    <3>1. CASE /\ First.seq = job /\ job \in DOMAIN log /\ First.text.body \in Words /\ First.text \in Texts
               /\ store' = [store EXCEPT ![job] = First.text] /\ Echoed(job)
      <4>1. CASE i = job
        <5>1. First.text # Absent
          <6>1. MaxSeq \in Nat /\ MaxSeq >= 1
            BY Bounds DEF IInv, Typed
          <6> QED BY <3>1, <6>1, Nothings
        <5> QED BY <1>1, <1>2, <2>2, <3>1, <4>1, <5>1 DEF Echoed
      <4>2. CASE i # job
        <5>1. log[job].bubble # b
          BY <1>1, <1>2, <3>1, <4>2 DEF BubblesOnce
        <5>2. pending'[b] = pending[b] /\ store'[i] = store[i]
          BY <1>1, <2>2, <3>1, <4>2, <5>1 DEF Echoed
        <5> QED BY <1>1, <2>1, <2>2, <5>2
      <4> QED BY <4>1, <4>2
    <3>2. CASE /\ First.seq \in Positions /\ Echo(First.seq) /\ First.text.body \in Words /\ First.text \in Texts
               /\ store' = [store EXCEPT ![First.seq] = First.text] /\ pending' = pending
      <4>1. CASE i = First.seq
        <5>1. First.text # Absent
          <6>1. MaxSeq \in Nat /\ MaxSeq >= 1
            BY Bounds DEF IInv, Typed
          <6> QED BY <3>2, <6>1, Nothings
        <5> QED BY <1>1, <1>2, <2>2, <3>2, <4>1, <5>1 DEF Echo
      <4>2. CASE i # First.seq
        BY <1>1, <2>1, <2>2, <3>2, <4>2
      <4> QED BY <4>1, <4>2
    <3>3. CASE First.seq \in gone /\ store' = [store EXCEPT ![First.seq] = Absent] /\ pending' = pending
      BY <1>1, <2>1, <2>2, <3>3
    <3>4. CASE store' = store /\ pending' = pending
      BY <1>1, <2>1, <2>2, <3>4
    <3> QED BY <2>4, <3>1, <3>2, <3>3, <3>4, Written
  <2> QED BY <2>3, <2>4
<1>3. ASSUME NEW i, i = Len(log) + 1, i \in DOMAIN log', i \notin DOMAIN log, log'[i].bubble # "none"
      PROVE  i \in Positions /\ store'[i] = Absent /\ pending'[log'[i].bubble] # "none"
  <2>1. PICK e \in Entries : Grows(e)
    BY <1>3, WireEffect
  <2>2. log'[i] = e
    BY <1>3, <2>1, AppendIs DEF Grows, IInv, Typed, WireTyped
  <2>3. e.bubble \in Bubbles /\ sent[e.bubble] \in Bodies \cup {"file"} /\ log' # log
    BY <1>3, <2>1, <2>2 DEF Grows
  <2>4. ~Database /\ pending' = pending
    <3>1. ~Database
      BY <2>3, Outcomes
    <3> SUFFICES pending' = pending
      BY <3>1
    <3>2. CASE Growing
      BY <3>2 DEF Growing
    <3>3. CASE ~Growing
      <4>1. CASE HandleIncoming
        BY <2>3, <4>1, BeginIs DEF wire
      <4>2. CASE Sending \/ Composing \/ EditText \/ EditAnswered \/ EditFails \/ DeleteAnswered \/ Open \/ Effect
                 \/ ReadElsewhere
        BY <2>3, <4>2 DEF Sending, Composing, EditText, EditAnswered, EditFails, DeleteAnswered, Open, Effect,
           ReadElsewhere, wire
      <4> QED BY <3>1, <3>3, <4>1, <4>2, Kinds
    <3> QED BY <3>2, <3>3
  <2>5. i \in Positions
    <3>1. WireTyped'
      BY LogGrows
    <3>2. scene' = scene /\ Len(log') <= scene.last /\ scene.last \in 1..MaxSeq /\ MaxSeq \in Nat /\ Len(log) \in Nat
          /\ DOMAIN log' = 1..Len(log') /\ Len(log') \in Nat
      BY <3>1, LogGrows, Bounds DEF WireTyped, IInv, Typed
    <3> QED BY <1>3, <3>2 DEF Positions
  <2>6. store'[i] = Absent
    BY <1>3, <2>4, <2>5, Otherwise DEF IInv, Stored, StoredOK
  <2> QED BY <2>2, <2>3, <2>4, <2>5, <2>6 DEF IInv, Stored, BubblesWait
<1> QED BY <1>1, <1>2, <1>3 DEF BubblesEcho

\* A message on its way is a bubble.
LEMMA BubblesWaitStep ==
  ASSUME IInv, [Next]_vars
  PROVE  BubblesWait'
<1>1. /\ BubblesWait /\ pending \in [Bubbles -> {"none", "uploading", "sending", "failed"}]
      /\ sent \in [Bubbles -> Bodies \cup {"no", "upload", "file", "accepted", "over", "dismissed"}]
  BY DEF IInv, Typed, SendingTyped, Stored
<1>2. CASE Sending
  BY <1>1, <1>2 DEF Sending, BubblesWait
<1>3. CASE Growing
  <2>1. "accepted" \notin Bodies \cup {"file"}
    BY ChatAssumption
  <2> QED BY <1>1, <1>3, <2>1 DEF Growing, Grows, BubblesWait
<1>4. CASE Database
  <2>1. sent' = sent /\ (pending' = pending \/ (Echoed(job) /\ job \in DOMAIN log))
    BY <1>4, Outcomes, Written
  <2>2. CASE Echoed(job) /\ job \in DOMAIN log
    <3>1. log[job].bubble # "none" => sent[log[job].bubble] \notin Bodies \cup {"file"}
      BY <2>2, ChatAssumption DEF IInv, Stored, BubblesOnce
    <3>2. "none" \notin Bubbles
      BY ChatAssumption
    <3> QED BY <1>1, <2>1, <2>2, <3>1, <3>2 DEF Echoed, BubblesWait
  <2> QED BY <1>1, <2>1, <2>2 DEF BubblesWait
<1>5. CASE ~(Sending \/ Growing \/ Database)
  BY <1>1, <1>5, Kinds, BeginIs
     DEF Composing, EditText, EditAnswered, EditFails, DeleteAnswered, Open, Effect, ReadElsewhere, outgoing, BubblesWait
<1> QED BY <1>2, <1>3, <1>4, <1>5

(***************************************************************************)
(* Who waits for the database.                                             *)
(***************************************************************************)
\* What is stored stays, unless it is gone.
LEMMA StoreKept ==
  ASSUME IInv, [Next]_vars, NEW i \in Positions, store[i] # Absent
  PROVE  store'[i] # Absent \/ i \in gone'
<1>1. store \in [Positions -> Texts] /\ gone \subseteq gone' /\ MaxSeq \in Nat /\ MaxSeq >= 1
  <2>1. WireTyped
    BY DEF IInv, Typed
  <2> QED BY <2>1, Bounds, LogGrows DEF IInv, Typed, StoreTyped
<1>2. \A t \in Texts : t.body \in Words => t # Absent
  BY <1>1, Nothings
<1>3. CASE ~Database
  BY <1>3, Otherwise
<1>4. CASE Database
  BY <1>1, <1>2, <1>4, Written
<1> QED BY <1>3, <1>4

\* Any request of the queue.
LEMMA RequestIs ==
  ASSUME IInv, NEW p \in DOMAIN requests
  PROVE  requests[p] \in Asked /\ RequestOK(requests[p])
  BY DEF IInv, Typed, WorkTyped, Waiting, RequestsOK

\* One that waits goes on waiting for the same.
LEMMA RequestKept ==
  ASSUME IInv, [Next]_vars, NEW r \in Asked, RequestOK(r),
         r.who = "job" => job' = job, r.who \in {"edit", "rollback"} => edit' = edit, r.who = "delete" => del' = del
  PROVE  RequestOK(r)'
<1>1. /\ \A i \in DOMAIN log : i \in Positions /\ i \in DOMAIN log' /\ log'[i] = log[i] /\ (log[i].bubble # "none" =>
             (pending[log[i].bubble] = "none" => pending'[log[i].bubble] = "none"))
      /\ gone \subseteq gone' /\ Len(log) <= Len(log') /\ Len(log) \in Nat /\ Len(log') \in Nat
  <2>1. WireTyped /\ WireTyped'
    BY LogGrows DEF IInv, Typed
  <2>2. Len(log) \in Nat /\ Len(log') \in Nat
    BY <2>1 DEF WireTyped
  <2>3. ASSUME NEW i \in DOMAIN log, log[i].bubble # "none", pending[log[i].bubble] = "none"
        PROVE  pending'[log[i].bubble] = "none"
    BY <2>3, BubbleGoes
  <2> QED BY <2>1, <2>2, <2>3, Bounds, LogGrows
<1>2. r.copy.synced <= Len(log') /\ r.copy.last = r.copy.synced /\ (r.op = "put" => LateFrames \/ r.copy.synced < r.seq)
  BY <1>1 DEF RequestOK, Asked, Record
<1>3. r.op \in {"find", "get", "rewrite"} => r.seq \in DOMAIN log' /\ log'[r.seq].k = "text" /\ r.text.body \in Words
  BY <1>1 DEF RequestOK
<1>4. r.op = "rewrite" => (store'[r.seq] # Absent \/ r.seq \in gone') /\ Echo(r.seq)'
  <2> SUFFICES ASSUME r.op = "rewrite" PROVE (store'[r.seq] # Absent \/ r.seq \in gone') /\ Echo(r.seq)'
    OBVIOUS
  <2>1. r.seq \in DOMAIN log /\ (store[r.seq] # Absent \/ r.seq \in gone) /\ Echo(r.seq)
    BY DEF RequestOK
  <2> QED BY <1>1, <2>1, StoreKept DEF Echo
<1>5. r.op \in {"delete", "latest"} => r.seq \in gone'
  BY <1>1 DEF RequestOK
<1>6. r.who = "job" => JobAsks(r)'
  BY <1>1 DEF RequestOK, JobAsks, IsMessage
<1>7. /\ r.who = "edit" => r.op \in {"get", "rewrite"} /\ edit'.at = "local" /\ r.seq = edit'.seq
      /\ r.who = "rollback" => /\ r.op \in {"get", "rewrite"} /\ edit'.at = "rollback"
                               /\ r.seq = edit'.seq /\ r.text = edit'.old
      /\ r.who = "delete" => r.op \in {"delete", "latest"} /\ del'.at = "local"
      /\ r.who = "open" => r.op = "load"
  BY DEF RequestOK
<1> QED BY <1>2, <1>3, <1>4, <1>5, <1>6, <1>7 DEF RequestOK

\* A request to load is the screen's.
LEMMA LoadIs ==
  ASSUME IInv, NEW p \in DOMAIN requests, requests[p].op = "load"
  PROVE  requests[p].who = "open"
<1>1. requests[p] \in Asked /\ RequestOK(requests[p])
  BY RequestIs
<1>2. requests[p].who # "job"
  <2> SUFFICES ASSUME JobAsks(requests[p]) PROVE FALSE
    BY <1>1 DEF RequestOK
  <2>1. log[job].k \in {"text", "file", "edit", "delete"}
    BY EntryTyped DEF JobAsks, IInv, Typed, Entries
  <2> QED BY <2>1 DEF JobAsks, IsMessage
<1> QED BY <1>1, <1>2 DEF RequestOK, Asked

\* A request was served, or goes on and nothing else happens.
LEMMA Turns ==
  ASSUME IInv, Database
  PROVE  /\ requests # <<>> /\ First = requests[1] /\ 1 \in DOMAIN requests /\ RequestOK(First) /\ First \in Asked
         /\ \/ /\ requests' = Served
               /\ job' = (IF First.who = "job" THEN 0 ELSE job)
               /\ First.who \notin {"edit", "rollback"} => edit' = edit
               /\ First.who = "edit" => edit' = [edit EXCEPT !.at = "sending"]
               /\ First.who = "rollback" => edit' = NoEdit
               /\ del' = (IF First.who = "delete" THEN NoDel ELSE del)
            \/ /\ Goes \/ RemovesShown
               /\ UNCHANGED <<conv, job, edit, del>>
               /\ \E r \in Asked : /\ requests' = Append(Served, r)
                                   /\ r.who = First.who /\ r.seq = First.seq /\ r.text = First.text
                                   /\ Goes => /\ r.op = (IF First.op = "find" THEN "get" ELSE "rewrite")
                                              /\ r.copy = First.copy
                                   /\ RemovesShown => r.op = "latest" /\ r.copy = conv
<1>1. requests # <<>> /\ First = requests[1] /\ 1 \in DOMAIN requests /\ RequestOK(First) /\ First \in Asked
  BY Outcomes, FirstIs DEF First
<1>2. ASSUME NEW c, Resume(First.who, c)
      PROVE  /\ job' = (IF First.who = "job" THEN 0 ELSE job)
             /\ First.who \notin {"edit", "rollback"} => edit' = edit
             /\ First.who = "edit" => edit' = [edit EXCEPT !.at = "sending"]
             /\ First.who = "rollback" => edit' = NoEdit
             /\ del' = (IF First.who = "delete" THEN NoDel ELSE del)
  BY <1>2 DEF Resume
<1>3. CASE Puts
  <2>1. First.who = "job"
    BY <1>1, <1>3, PutIs DEF Puts
  <2> QED BY <1>1, <1>3, <2>1 DEF Puts, PutMessage
<1>4. CASE Goes
  <2>1. First.op \in {"find", "get"} /\ UNCHANGED <<conv, job, edit, del>>
    BY <1>4 DEF Goes
  <2> DEFINE r == [First EXCEPT !.op = IF First.op = "find" THEN "get" ELSE "rewrite"]
  <2>2. r \in Asked /\ r.who = First.who /\ r.seq = First.seq /\ r.text = First.text /\ r.copy = First.copy
        /\ r.op = (IF First.op = "find" THEN "get" ELSE "rewrite")
    BY <1>1 DEF Asked
  <2>3. requests' = Append(Served, r)
    BY <1>4 DEF Goes
  <2>4. ~RemovesShown
    BY <2>1 DEF RemovesShown, Removes
  <2> HIDE DEF r
  <2> QED BY <1>1, <1>4, <2>1, <2>2, <2>3, <2>4
<1>5. CASE RemovesShown
  <2> DEFINE r == [First EXCEPT !.op = "latest", !.copy = conv]
  <2>1. r \in Asked /\ r.who = First.who /\ r.seq = First.seq /\ r.text = First.text /\ r.copy = conv /\ r.op = "latest"
    BY <1>1 DEF Asked, IInv, Typed, WorkTyped
  <2>2. requests' = Append(Served, r) /\ UNCHANGED <<conv, job, edit, del>> /\ ~Goes
    BY <1>5 DEF RemovesShown, Removes, Goes
  <2> HIDE DEF r
  <2> QED BY <1>1, <1>5, <2>1, <2>2
<1>6. CASE GivesUp \/ Rewrites \/ RemovesOther \/ Previews
  <2>1. requests' = Served /\ \E c : Resume(First.who, c)
    BY <1>6 DEF GivesUp, Rewrites, SetMessageBody, RemovesOther, Previews, LatestPreview
  <2> QED BY <1>1, <1>2, <2>1
<1>7. CASE Loads
  <2>1. First.who = "open"
    BY <1>1, <1>7, LoadIs DEF Loads
  <2> QED BY <1>1, <1>7, <2>1 DEF Loads, Loaded
<1> QED BY <1>3, <1>4, <1>5, <1>6, <1>7, Outcomes

\* A question that follows from an answer.
LEMMA GoesOnOK ==
  ASSUME IInv, Database, Goes \/ RemovesShown, NEW r \in Asked,
         r.who = First.who, r.seq = First.seq, r.text = First.text, UNCHANGED <<conv, job, edit, del>>,
         Goes => r.op = (IF First.op = "find" THEN "get" ELSE "rewrite") /\ r.copy = First.copy,
         RemovesShown => r.op = "latest" /\ r.copy = conv
  PROVE  RequestOK(r)'
<1>1. RequestOK(First) /\ First \in Asked /\ UNCHANGED <<log, gone>>
  BY Turns, Outcomes
<1>2. First.who = "job" => JobAsks(First)
  BY <1>1 DEF RequestOK
<1>3. CASE Goes
  <2>1. /\ First.op \in {"find", "get"} /\ store[First.seq] # Absent /\ UNCHANGED <<store, pending>>
        /\ r.op = (IF First.op = "find" THEN "get" ELSE "rewrite") /\ r.copy = First.copy
    BY <1>3 DEF Goes
  <2>2. /\ r.op \in {"get", "rewrite"} /\ r.copy.synced <= Len(log) /\ r.copy.last = r.copy.synced
        /\ r.seq \in DOMAIN log /\ log[r.seq].k = "text" /\ r.text.body \in Words
    BY <1>1, <2>1 DEF RequestOK
  <2>3. store[r.seq] # Absent /\ Echo(r.seq)
    BY <2>1, <2>2 DEF Echo, IInv, Stored, BubblesEcho
  <2>4. r.who = "job" => JobAsks(r)
    BY <1>2, <2>1, <2>2 DEF JobAsks
  <2>5. /\ r.who = "edit" => edit.at = "local" /\ r.seq = edit.seq
        /\ r.who = "rollback" => edit.at = "rollback" /\ r.seq = edit.seq /\ r.text = edit.old
        /\ r.who \notin {"delete", "open"}
    BY <1>1, <2>1 DEF RequestOK
  <2>6. (r.who = "job" => JobAsks(r)') /\ (log[r.seq].k = "text")' /\ Echo(r.seq)'
    BY <1>1, <2>1, <2>2, <2>3, <2>4 DEF JobAsks, IsMessage, Echo
  <2> QED BY <1>1, <2>1, <2>2, <2>3, <2>5, <2>6 DEF RequestOK
<1>4. CASE RemovesShown
  <2>1. First.op = "delete" /\ r.op = "latest" /\ r.copy = conv
    BY <1>4 DEF RemovesShown, Removes
  <2>2. r.copy.synced <= Len(log) /\ r.copy.last = r.copy.synced /\ r.seq \in gone
    BY <1>1, <2>1 DEF RequestOK, IInv, RecordOK
  <2>3. r.who = "job" => JobAsks(r)
    BY <1>2, <2>1 DEF JobAsks
  <2>4. (r.who = "delete" => del.at = "local") /\ r.who \notin {"edit", "rollback", "open"}
    BY <1>1, <2>1 DEF RequestOK
  <2>5. r.who = "job" => JobAsks(r)'
    BY <1>1, <2>3 DEF JobAsks, IsMessage
  <2> QED BY <1>1, <2>1, <2>2, <2>4, <2>5 DEF RequestOK
<1> QED BY <1>3, <1>4

\* What is asked besides is new, and asked by somebody who did not wait.
LEMMA Asks ==
  ASSUME IInv, HandleIncoming \/ EditText \/ EditFails \/ DeleteAnswered \/ Open
  PROVE  /\ edit' # edit => edit.at \notin {"local", "rollback"}
         /\ del' # del => del.at # "local"
         /\ \/ requests' = requests /\ job' = job
            \/ \E r \in Asked : /\ Ask(r) /\ RequestOK(r)' /\ r.copy = conv
                                /\ r.op \in {"put", "find", "get", "delete", "load"}
                                /\ r.op = "put" => r.who = "job"
                                /\ r.who # "open" => \A p \in DOMAIN requests : requests[p].who # r.who
                                /\ IF r.who = "job" THEN job = 0 /\ job' # 0 ELSE job' = job
<1>0. /\ conv.synced <= Len(log) /\ conv.last = conv.synced
      /\ \A p \in DOMAIN requests : RequestOK(requests[p])
  BY RequestIs DEF IInv, RecordOK
<1>1. CASE HandleIncoming
  <2>1. PICK r \in Asked :
               /\ Ask(r) /\ r.who = "job" /\ r.copy = conv
               /\ IsMessage(job') => /\ r.op = "put" /\ r.seq = job'
                                     /\ r.text = [body |-> log[job'].body, edited |-> FALSE]
               /\ log[job'].k = "edit" => /\ r.op = "find" /\ r.seq = log[job'].ref
                                          /\ r.text = [body |-> log[job'].body, edited |-> TRUE]
               /\ log[job'].k = "delete" => r.op = "delete" /\ r.seq = log[job'].ref
    BY <1>1, BeginIs
  <2>2. job = 0 /\ job' \in DOMAIN log /\ job' # 0 /\ UNCHANGED <<log, gone, edit, del>>
    BY <1>1, BeginIs DEF wire
  <2>3. EntryOK(job') /\ log[job'].k \in {"text", "file", "edit", "delete"}
    BY <2>2, EntryTyped DEF IInv, Typed, Entries, Stored, LogOK
  <2>4. r.op \in {"put", "find", "delete"}
    BY <2>1, <2>3 DEF IsMessage
  <2>5. /\ r.op = "find" => r.seq \in DOMAIN log /\ log[r.seq].k = "text" /\ r.text.body \in Words
        /\ r.op = "delete" => r.seq \in gone
    <3>1. r.op = "find" => log[job'].k = "edit"
      BY <2>1, <2>3 DEF IsMessage
    <3>2. r.op = "delete" => log[job'].k = "delete"
      BY <2>1, <2>3 DEF IsMessage
    <3>3. DOMAIN log = 1..Len(log) /\ Len(log) \in Nat
      BY Bounds DEF IInv, Typed, WireTyped
    <3> QED BY <2>1, <2>2, <2>3, <3>1, <3>2, <3>3 DEF EntryOK, Words
  <2>6. JobAsks(r)' /\ (r.op = "put" => LateFrames \/ r.copy.synced < r.seq)
    <3>1. IsNext(job') \/ LateFrames
      BY <1>1, BeginIs
    <3>2. JobAsks(r)'
      BY <2>1, <2>2 DEF JobAsks, IsMessage
    <3>3. r.op = "put" => r.seq = job'
      BY <2>1, <2>3 DEF IsMessage
    <3> QED BY <2>1, <3>1, <3>2, <3>3 DEF IsNext
  <2>7. RequestOK(r)'
    BY <1>0, <2>1, <2>2, <2>4, <2>5, <2>6 DEF RequestOK
  <2>8. \A p \in DOMAIN requests : requests[p].who # "job"
    BY <2>2 DEF IInv, Waiting, NoJobNone
  <2> QED BY <2>1, <2>2, <2>4, <2>7, <2>8
<1>2. CASE EditText
  <2>1. PICK body \in Bodies, r \in Asked :
         /\ composer # NotEditing /\ edit = NoEdit
         /\ edit' = [at |-> "local", seq |-> composer.seq, body |-> body, old |-> composer.was]
         /\ Ask(r) /\ r.op = "get" /\ r.who = "edit" /\ r.seq = composer.seq /\ r.copy = conv
         /\ r.text = [body |-> body, edited |-> TRUE]
         /\ UNCHANGED <<log, gone, job, del>>
    BY <1>2, EditIs DEF wire
  <2>2. r.seq \in DOMAIN log /\ log[r.seq].k = "text" /\ r.text.body \in Words
    BY <2>1 DEF IInv, EditorOK, Words
  <2>3. RequestOK(r)'
    BY <1>0, <2>1, <2>2 DEF RequestOK
  <2>4. \A p \in DOMAIN requests : requests[p].who # "edit"
    BY <1>0, <2>1 DEF RequestOK, NoEdit
  <2> QED BY <2>1, <2>3, <2>4 DEF NoEdit
<1>3. CASE EditFails
  <2>1. PICK r \in Asked :
         /\ edit.at \in {"sending", "accepted"} /\ edit' = [edit EXCEPT !.at = "rollback"]
         /\ Ask(r) /\ r.op = "get" /\ r.who = "rollback" /\ r.seq = edit.seq /\ r.copy = conv
         /\ r.text = edit.old
         /\ UNCHANGED <<log, gone, job, del>>
    BY <1>3, BackIs DEF wire, local
  <2>2. r.seq \in DOMAIN log /\ log[r.seq].k = "text" /\ r.text.body \in Words
    BY <2>1 DEF IInv, EditorOK
  <2>3. edit'.at = "rollback" /\ edit'.seq = edit.seq /\ edit'.old = edit.old
    BY <2>1 DEF IInv, Typed, EditingTyped
  <2>4. RequestOK(r)'
    BY <1>0, <2>1, <2>2, <2>3 DEF RequestOK
  <2>5. \A p \in DOMAIN requests : requests[p].who # "rollback"
    BY <1>0, <2>1 DEF RequestOK
  <2> QED BY <2>1, <2>4, <2>5
<1>4. CASE DeleteAnswered
  <2>1. del.at = "sent" /\ UNCHANGED <<log, gone, edit, job>>
    BY <1>4, DroppedIs DEF wire
  <2>2. CASE requests' = requests
    BY <2>1, <2>2
  <2>3. CASE /\ del' = [del EXCEPT !.at = "local"]
             /\ \E r \in Asked : Ask(r) /\ r.op = "delete" /\ r.who = "delete" /\ r.seq = del.seq /\ r.copy = conv
    <3>1. PICK r \in Asked : Ask(r) /\ r.op = "delete" /\ r.who = "delete" /\ r.seq = del.seq /\ r.copy = conv
      BY <2>3
    <3>2. r.seq \in gone /\ del'.at = "local"
      BY <2>1, <2>3, <3>1 DEF IInv, EditorOK, Typed, EditingTyped
    <3>3. RequestOK(r)'
      BY <1>0, <2>1, <3>1, <3>2 DEF RequestOK
    <3>4. \A p \in DOMAIN requests : requests[p].who # "delete"
      BY <1>0, <2>1 DEF RequestOK
    <3> QED BY <2>1, <3>1, <3>3, <3>4
  <2> QED BY <1>4, <2>2, <2>3, DroppedIs
<1>5. CASE Open
  <2>1. UNCHANGED <<log, gone, edit, del, job>>
    BY <1>5, OpenIs DEF wire
  <2>2. CASE requests' = requests
    BY <2>1, <2>2
  <2>3. CASE \E r \in Asked : Ask(r) /\ r.op = "load" /\ r.who = "open" /\ r.copy = conv
    <3>1. PICK r \in Asked : Ask(r) /\ r.op = "load" /\ r.who = "open" /\ r.copy = conv
      BY <2>3
    <3>2. RequestOK(r)'
      BY <1>0, <2>1, <3>1 DEF RequestOK
    <3> QED BY <2>1, <3>1, <3>2
  <2> QED BY <1>5, <2>2, <2>3, OpenIs
<1> QED BY <1>1, <1>2, <1>3, <1>4, <1>5

\* The others ask nothing.
LEMMA NobodyAsks ==
  ASSUME IInv, [Next]_vars, ~(Database \/ HandleIncoming \/ EditText \/ EditFails \/ DeleteAnswered \/ Open)
  PROVE  /\ requests' = requests /\ job' = job
         /\ edit' # edit => edit.at \notin {"local", "rollback"}
         /\ del' # del => del.at # "local"
<1> USE DEF local
<1>1. CASE Growing
  BY <1>1 DEF Growing, NoDel
<1>2. CASE Sending \/ Composing \/ EditAnswered \/ Effect \/ ReadElsewhere
  BY <1>2 DEF Sending, Composing, EditAnswered, Effect, ReadElsewhere
<1> QED BY <1>1, <1>2, Kinds

\* What holds of a request holds of its place in the queue.
LEMMA PlaceOK ==
  ASSUME NEW p, NEW r, requests'[p] = r, RequestOK(r)'
  PROVE  RequestOK(requests[p])'
  BY DEF RequestOK, JobAsks, IsMessage, Echo

\* Each waits for one thing at most, and the job for something.
LEMMA WaitingStep ==
  ASSUME IInv, [Next]_vars
  PROVE  Waiting'
<1>0. /\ OneEach /\ JobWaits /\ NoJobNone /\ requests \in Seq(Asked)
      /\ \A p \in DOMAIN requests : requests[p] \in Asked /\ RequestOK(requests[p])
  BY RequestIs DEF IInv, Waiting, Typed, WorkTyped
<1>1. CASE Database
  <2>1. /\ requests # <<>> /\ First = requests[1] /\ 1 \in DOMAIN requests /\ First \in Asked
        /\ DOMAIN requests = 1..Len(requests) /\ Len(requests) \in Nat
    BY <1>0, <1>1, Turns
  <2>2. \A p \in DOMAIN requests : p # 1 => requests[p].who # First.who \/ requests[p].who = "open"
    BY <1>0, <2>1 DEF OneEach
  <2>3. CASE /\ requests' = Served
             /\ job' = (IF First.who = "job" THEN 0 ELSE job)
             /\ First.who \notin {"edit", "rollback"} => edit' = edit
             /\ First.who = "edit" => edit' = [edit EXCEPT !.at = "sending"]
             /\ First.who = "rollback" => edit' = NoEdit
             /\ del' = (IF First.who = "delete" THEN NoDel ELSE del)
    <3>1. \A p \in DOMAIN requests' : p \in Nat /\ p >= 1 /\ p + 1 \in DOMAIN requests /\ requests'[p] = requests[p + 1]
      BY <2>1, <2>3, FirstIs
    <3>2. ASSUME NEW p \in DOMAIN requests' PROVE RequestOK(requests[p])'
      <4>0. PICK r : r = requests[p + 1]
        OBVIOUS
      <4>1. r = requests'[p] /\ r \in Asked /\ RequestOK(r) /\ (r.who # First.who \/ r.who = "open")
        BY <1>0, <2>2, <3>1, <4>0
      <4>2. /\ r.who = "edit" => edit.at = "local"
            /\ r.who = "rollback" => edit.at = "rollback"
        BY <4>1 DEF RequestOK
      <4>3. First.who \in {"edit", "rollback"} => (First.who = "edit" => edit.at = "local")
                                                 /\ (First.who = "rollback" => edit.at = "rollback")
        BY <1>0, <2>1 DEF RequestOK
      <4>4. /\ r.who = "job" => job' = job
            /\ r.who \in {"edit", "rollback"} => edit' = edit
            /\ r.who = "delete" => del' = del
        BY <2>3, <4>1, <4>2, <4>3
      <4>5. RequestOK(r)'
        BY <4>1, <4>4, RequestKept
      <4> QED BY <4>1, <4>5, PlaceOK
    <3>3. OneEach'
      BY <1>0, <3>1 DEF OneEach
    <3>4. NoJobNone'
      BY <1>0, <2>2, <2>3, <3>1 DEF NoJobNone
    <3>5. JobWaits'
      <4> SUFFICES ASSUME job' # 0 PROVE \E p \in DOMAIN requests' : requests'[p].who = "job"
        BY DEF JobWaits
      <4>1. job # 0 /\ First.who # "job"
        BY <2>3
      <4>2. PICK p \in DOMAIN requests : requests[p].who = "job"
        BY <1>0, <4>1 DEF JobWaits
      <4>3. p # 1 /\ p - 1 \in DOMAIN Served /\ Served[p - 1] = requests[(p - 1) + 1]
        BY <1>0, <2>1, <4>1, <4>2, TailIs DEF Served
      <4>4. (p - 1) + 1 = p
        BY <2>1, <4>2
      <4> QED BY <2>3, <4>2, <4>3, <4>4
    <3> QED BY <3>2, <3>3, <3>4, <3>5 DEF Waiting, RequestsOK
  <2>4. CASE /\ Goes \/ RemovesShown
             /\ UNCHANGED <<conv, job, edit, del>>
             /\ \E r \in Asked : /\ requests' = Append(Served, r)
                                 /\ r.who = First.who /\ r.seq = First.seq /\ r.text = First.text
                                 /\ Goes => /\ r.op = (IF First.op = "find" THEN "get" ELSE "rewrite")
                                            /\ r.copy = First.copy
                                 /\ RemovesShown => r.op = "latest" /\ r.copy = conv
    <3>1. PICK r \in Asked : /\ requests' = Append(Served, r)
                             /\ r.who = First.who /\ r.seq = First.seq /\ r.text = First.text
                             /\ Goes => /\ r.op = (IF First.op = "find" THEN "get" ELSE "rewrite")
                                        /\ r.copy = First.copy
                             /\ RemovesShown => r.op = "latest" /\ r.copy = conv
      BY <2>4
    <3>2. RequestOK(r)'
      BY <1>1, <2>4, <3>1, GoesOnOK
    <3>3. \A p \in DOMAIN requests' :
             \/ p \in Nat /\ p >= 1 /\ p + 1 \in DOMAIN requests /\ requests'[p] = requests[p + 1]
             \/ p = Len(requests) /\ requests'[p] = r
      BY <2>1, <3>1, QueueServed
    <3>4. ASSUME NEW p \in DOMAIN requests' PROVE RequestOK(requests[p])'
      <4>1. CASE requests'[p] = r
        BY <3>2, <4>1, PlaceOK
      <4>2. CASE p + 1 \in DOMAIN requests /\ requests'[p] = requests[p + 1]
        <5>1. PICK q : q = requests[p + 1]
          OBVIOUS
        <5>2. q \in Asked /\ RequestOK(q)
          BY <1>0, <4>2, <5>1
        <5>3. RequestOK(q)'
          BY <2>4, <5>2, RequestKept
        <5> QED BY <4>2, <5>1, <5>3, PlaceOK
      <4> QED BY <3>3, <4>1, <4>2
    <3>5. r.who # "job" \/ job' # 0
      BY <1>0, <2>1, <2>4, <3>1 DEF NoJobNone
    <3>6. NoJobNone'
      BY <1>0, <2>4, <3>3, <3>5 DEF NoJobNone
    <3>7. OneEach'
      <4>1. ASSUME NEW p \in DOMAIN requests', requests'[p] = requests[p + 1], p + 1 \in DOMAIN requests, p >= 1, p \in Nat
            PROVE  requests'[p].who # r.who \/ requests'[p].who = "open"
        BY <2>1, <2>2, <3>1, <4>1
      <4> QED BY <1>0, <2>1, <3>3, <4>1 DEF OneEach
    <3>8. JobWaits'
      <4> SUFFICES ASSUME job' # 0 PROVE \E p \in DOMAIN requests' : requests'[p].who = "job"
        BY DEF JobWaits
      <4>1. PICK p \in DOMAIN requests : requests[p].who = "job"
        BY <1>0, <2>4 DEF JobWaits
      <4>2. /\ \A q \in DOMAIN Served : q \in DOMAIN requests' /\ requests'[q] = Served[q]
            /\ Len(Served) + 1 \in DOMAIN requests' /\ requests'[Len(Served) + 1] = r
        <5>1. Served \in Seq(Asked)
          BY <2>1, FirstIs
        <5> QED BY <3>1, <5>1, AppendIs
      <4>3. CASE p = 1
        BY <2>1, <3>1, <4>1, <4>2, <4>3
      <4>4. CASE p # 1
        <5>1. p - 1 \in DOMAIN Served /\ Served[p - 1] = requests[(p - 1) + 1]
          BY <1>0, <2>1, <4>1, <4>4, TailIs DEF Served
        <5>2. (p - 1) + 1 = p
          BY <2>1, <4>1
        <5> QED BY <4>1, <4>2, <5>1, <5>2
      <4> QED BY <4>3, <4>4
    <3> QED BY <3>4, <3>6, <3>7, <3>8 DEF Waiting, RequestsOK
  <2> QED BY <1>1, <2>3, <2>4, Turns
<1>2. ASSUME NEW p \in DOMAIN requests, edit' # edit => edit.at \notin {"local", "rollback"},
             del' # del => del.at # "local", requests[p].who = "job" => job' = job,
             NEW q, requests'[q] = requests[p]
      PROVE  RequestOK(requests[q])'
  <2>0. PICK r : r = requests[p]
    OBVIOUS
  <2>1. r \in Asked /\ RequestOK(r)
    BY <1>0, <2>0
  <2>2. /\ r.who \in {"edit", "rollback"} => edit' = edit
        /\ r.who = "delete" => del' = del
    BY <1>2, <2>1 DEF RequestOK
  <2>3. RequestOK(r)'
    BY <1>2, <2>0, <2>1, <2>2, RequestKept
  <2> QED BY <1>2, <2>0, <2>3, PlaceOK
<1>3. ASSUME requests' = requests, job' = job, edit' # edit => edit.at \notin {"local", "rollback"},
             del' # del => del.at # "local"
      PROVE  Waiting'
  <2>1. RequestsOK'
    BY <1>2, <1>3 DEF RequestsOK
  <2> QED BY <1>0, <1>3, <2>1 DEF Waiting, OneEach, JobWaits, NoJobNone
<1>4. ASSUME edit' # edit => edit.at \notin {"local", "rollback"}, del' # del => del.at # "local",
             NEW r \in Asked, Ask(r), RequestOK(r)',
             r.who # "open" => \A p \in DOMAIN requests : requests[p].who # r.who,
             IF r.who = "job" THEN job = 0 /\ job' # 0 ELSE job' = job
      PROVE  Waiting'
  <2>1. /\ \A p \in DOMAIN requests' : \/ p \in DOMAIN requests /\ requests'[p] = requests[p]
                                       \/ p = Len(requests) + 1 /\ requests'[p] = r
        /\ \A p \in DOMAIN requests : p \in DOMAIN requests' /\ requests'[p] = requests[p] /\ p <= Len(requests)
        /\ Len(requests) + 1 \in DOMAIN requests' /\ requests'[Len(requests) + 1] = r
    BY <1>4, QueueAsked
  <2>2. \A p \in DOMAIN requests : requests[p].who = "job" => job' = job
    BY <1>4
  <2>3. RequestsOK'
    <3>1. ASSUME NEW p \in DOMAIN requests' PROVE RequestOK(requests[p])'
      <4>1. CASE p \in DOMAIN requests /\ requests'[p] = requests[p]
        BY <1>2, <1>4, <2>2, <4>1
      <4>2. CASE requests'[p] = r
        BY <1>4, <4>2, PlaceOK
      <4> QED BY <2>1, <4>1, <4>2
    <3> QED BY <3>1 DEF RequestsOK
  <2>4. OneEach'
    BY <1>0, <1>4, <2>1 DEF OneEach
  <2>5. JobWaits' /\ NoJobNone'
    BY <1>0, <1>4, <2>1 DEF JobWaits, NoJobNone
  <2> QED BY <2>3, <2>4, <2>5 DEF Waiting
<1>5. CASE HandleIncoming \/ EditText \/ EditFails \/ DeleteAnswered \/ Open
  <2> HIDE DEF Waiting
  <2> QED BY <1>3, <1>4, <1>5, Asks
<1>6. CASE ~(Database \/ HandleIncoming \/ EditText \/ EditFails \/ DeleteAnswered \/ Open)
  BY <1>3, <1>6, NobodyAsks
<1> QED BY <1>1, <1>5, <1>6

(***************************************************************************)
(* What is edited, what is deleted, the position.                          *)
(***************************************************************************)
LEMMA EditorOKStep ==
  ASSUME IInv, [Next]_vars
  PROVE  EditorOK'
<1>1. /\ EditorOK /\ EditingTyped /\ \A i \in DOMAIN log : i \in DOMAIN log' /\ log'[i] = log[i]
      /\ gone \subseteq gone'
  BY LogGrows DEF IInv, Typed
<1> DEFINE EditFine(e) == /\ e.at = "idle" => e = NoEdit
                          /\ e.at # "idle" => /\ e.seq \in DOMAIN log /\ log[e.seq].k = "text"
                                              /\ e.old.body \in Words /\ e.body \in Bodies
           DraftFine(c) == c # NotEditing => c.seq \in DOMAIN log /\ log[c.seq].k = "text" /\ c.was.body \in Words
           DelFine(d) == (d.at = "idle" => d = NoDel) /\ (d.at # "idle" => d.seq \in gone')
<1> SUFFICES EditFine(edit') /\ DraftFine(composer') /\ DelFine(del')
  BY <1>1 DEF EditorOK
<1>2. EditFine(edit) /\ DraftFine(composer) /\ DelFine(del)
  BY <1>1 DEF EditorOK
<1>3. EditFine(NoEdit) /\ DraftFine(NotEditing) /\ DelFine(NoDel)
  BY DEF NoEdit, NoDel
<1>4. ASSUME NEW at \in {"sending", "accepted", "rollback"}, edit.at # "idle" PROVE EditFine([edit EXCEPT !.at = at])
  BY <1>1, <1>2, <1>4 DEF EditingTyped
<1>5. ASSUME NEW at \in {"sent", "local"}, del.at # "idle" PROVE DelFine([del EXCEPT !.at = at])
  BY <1>1, <1>2, <1>5 DEF EditingTyped
<1> HIDE DEF EditFine, DraftFine, DelFine
<1>6. CASE Database
  <2>1. /\ First.who \notin {"edit", "rollback"} => edit' = edit
        /\ First.who = "edit" => edit' = [edit EXCEPT !.at = "sending"] \/ edit' = edit
        /\ First.who = "rollback" => edit' = NoEdit \/ edit' = edit
        /\ del' = NoDel \/ del' = del
        /\ First.who = "edit" => edit.at = "local"
        /\ composer' = composer
    BY <1>6, Turns, Outcomes DEF RequestOK
  <2> QED BY <1>2, <1>3, <1>4, <2>1
<1>7. CASE Growing
  <2>1. ASSUME NEW i \in gone' PROVE DelFine([at |-> "sent", seq |-> i])
    BY <2>1 DEF DelFine
  <2> QED BY <1>2, <1>4, <1>7, <2>1 DEF Growing
<1>8. CASE EditText
  <2>1. PICK body \in Bodies : /\ composer # NotEditing /\ composer' = NotEditing /\ del' = del
         /\ edit' = [at |-> "local", seq |-> composer.seq, body |-> body, old |-> composer.was]
    BY <1>8, EditIs
  <2>2. EditFine(edit')
    BY <1>2, <2>1 DEF EditFine, DraftFine
  <2> QED BY <1>2, <1>3, <2>1, <2>2
<1>9. CASE EditFails
  <2>1. edit.at # "idle" /\ edit' = [edit EXCEPT !.at = "rollback"] /\ composer' = composer /\ del' = del
    BY <1>9, BackIs
  <2> QED BY <1>2, <1>4, <2>1
<1>10. CASE DeleteAnswered
  <2>1. del.at # "idle" /\ del' \in {NoDel, [del EXCEPT !.at = "local"]} /\ edit' = edit /\ composer' = composer
    BY <1>10, DroppedIs
  <2> QED BY <1>2, <1>3, <1>5, <2>1
<1>11. CASE Composing
  BY <1>2, <1>3, <1>11 DEF Composing, DraftFine
<1>12. CASE EditAnswered
  BY <1>2, <1>3, <1>12 DEF EditAnswered
<1>13. CASE HandleIncoming
  BY <1>2, <1>13, BeginIs
<1>14. CASE Open
  BY <1>2, <1>14, OpenIs
<1>15. CASE Sending \/ Effect \/ ReadElsewhere
  BY <1>2, <1>15 DEF Sending, Effect, ReadElsewhere
<1> QED BY <1>6, <1>7, <1>8, <1>9, <1>10, <1>11, <1>12, <1>13, <1>14, <1>15, Kinds

\* The record after an entry that is no message.
LEMMA AdvancedIs ==
  ASSUME IInv, NEW c \in Record, c.last = c.synced, job \in DOMAIN log
  PROVE  /\ Advanced(c, job).synced = Later(c.synced, job) /\ Advanced(c, job).last = Later(c.synced, job)
         /\ Advanced(c, job).preview = c.preview /\ Advanced(c, job).read = (IF c.read = job - 1 THEN job ELSE c.read)
         /\ Later(c.synced, job) \in {c.synced, job} /\ c.synced <= Later(c.synced, job) /\ job <= Later(c.synced, job)
<1>1. MaxSeq \in Nat /\ job \in 0..MaxSeq /\ c.synced \in 0..MaxSeq
  <2>1. WireTyped
    BY DEF IInv, Typed
  <2> QED BY <2>1, Bounds DEF Record, Positions
<1>2. Later(c.synced, job) \in {c.synced, job} /\ c.synced <= Later(c.synced, job) /\ job <= Later(c.synced, job)
  BY <1>1, LaterIs
<1> QED BY <1>2 DEF Advanced, Record

\* The record after a message; its copy may be older than the message.
LEMMA AppliedIs ==
  ASSUME IInv, NEW c \in Record, c.last = c.synced, NEW i \in DOMAIN log, NEW t, NEW a, a = Applied(c, i, t)
  PROVE  /\ a.synced = Later(c.synced, i) /\ a.last = Later(c.synced, i)
         /\ Later(c.synced, i) \in {c.synced, i} /\ c.synced <= Later(c.synced, i) /\ i <= Later(c.synced, i)
         /\ a.read = (IF log[i].by = "me" THEN Later(c.read, i) ELSE c.read)
<1>1. MaxSeq \in Nat /\ i \in 0..MaxSeq /\ c.synced \in 0..MaxSeq
  <2>1. WireTyped
    BY DEF IInv, Typed
  <2> QED BY <2>1, Bounds DEF Record, Positions
<1>2. Later(c.synced, i) \in {c.synced, i} /\ c.synced <= Later(c.synced, i) /\ i <= Later(c.synced, i)
  BY <1>1, LaterIs
<1> QED BY <1>2 DEF Applied, Record

\* Its preview is the message, unless the copy is younger.
LEMMA AppliedShows ==
  ASSUME NEW c \in Record, NEW i, NEW t, NEW a, a = Applied(c, i, t)
  PROVE  a.preview = IF c.preview = NoPreview \/ i >= c.synced THEN [seq |-> i, body |-> t.body] ELSE c.preview
  BY DEF Applied, Record

\* What becomes of the record when the database has answered.
LEMMA RecordAfter ==
  ASSUME IInv, Database
  PROVE  /\ \A p \in DOMAIN requests : requests[p].copy \in Record /\ requests[p].copy.last = requests[p].copy.synced
         /\ First.copy \in Record /\ First.copy.last = First.copy.synced /\ First.copy.synced <= Len(log)
         /\ First.who = "job" => job \in DOMAIN log /\ job # 0
         /\ \/ Puts /\ conv' = Applied(First.copy, job, First.text) /\ job \in DOMAIN log /\ job' = 0
            \/ (Goes \/ RemovesShown \/ Loads) /\ conv' = conv /\ job' = job
            \/ \E c \in Record :
                  /\ Resume(First.who, c) /\ conv' = (IF First.who = "job" THEN Advanced(c, job) ELSE c)
                  /\ job' = (IF First.who = "job" THEN 0 ELSE job)
                  /\ \/ (GivesUp \/ RemovesOther) /\ c = conv
                     \/ /\ Rewrites
                        /\ c = IF conv.preview.seq = First.seq THEN [conv EXCEPT !.preview.body = First.text.body] ELSE conv
                     \/ /\ Previews /\ c = [First.copy EXCEPT !.preview = LatestOf(store)]
<1>1. /\ requests # <<>> /\ First = requests[1] /\ 1 \in DOMAIN requests /\ RequestOK(First) /\ First \in Asked
      /\ \A p \in DOMAIN requests : RequestOK(requests[p]) /\ requests[p] \in Asked
  BY Turns, RequestIs
<1>2. /\ \A p \in DOMAIN requests : requests[p].copy \in Record /\ requests[p].copy.last = requests[p].copy.synced
      /\ First.copy \in Record /\ First.copy.last = First.copy.synced /\ First.copy.synced <= Len(log)
      /\ First.text \in Texts /\ conv \in Record
  BY <1>1 DEF RequestOK, Asked, IInv, Typed, WorkTyped
<1>3. First.who = "job" => job \in DOMAIN log /\ job # 0
  BY <1>1 DEF RequestOK, JobAsks, IInv, Waiting, NoJobNone
<1>4. CASE Puts
  BY <1>1, <1>2, <1>3, <1>4, PutIs DEF Puts, PutMessage
<1>5. CASE Goes \/ RemovesShown \/ Loads
  BY <1>1, <1>2, <1>3, <1>5 DEF Goes, RemovesShown, Loads, Loaded
<1>6. ASSUME NEW c, Resume(First.who, c)
      PROVE  conv' = (IF First.who = "job" THEN Advanced(c, job) ELSE c) /\ job' = (IF First.who = "job" THEN 0 ELSE job)
  BY <1>6 DEF Resume
<1>7. CASE GivesUp \/ RemovesOther
  <2>1. Resume(First.who, conv)
    BY <1>7 DEF GivesUp, RemovesOther
  <2> QED BY <1>1, <1>2, <1>3, <1>6, <1>7, <2>1
<1>8. CASE Rewrites
  <2> DEFINE c == IF conv.preview.seq = First.seq THEN [conv EXCEPT !.preview.body = First.text.body] ELSE conv
  <2>1. Resume(First.who, c) /\ First.text.body \in Words
    BY <1>1, <1>8 DEF Rewrites, SetMessageBody, RequestOK
  <2>2. c \in Record
    BY <1>2, <2>1 DEF Record, Words
  <2> QED BY <1>1, <1>2, <1>3, <1>6, <1>8, <2>1, <2>2
<1>9. CASE Previews
  <2> DEFINE c == [First.copy EXCEPT !.preview = LatestOf(store)]
  <2>1. Resume(First.who, c)
    BY <1>9 DEF Previews, LatestPreview
  <2>2. c \in Record
    BY <1>2, LatestTyped DEF Record
  <2> QED BY <1>1, <1>2, <1>3, <1>6, <1>9, <2>1, <2>2
<1> QED BY <1>4, <1>5, <1>7, <1>8, <1>9, Outcomes

\* The last position is the position, and behind the log.
LEMMA RecordOKStep ==
  ASSUME IInv, [Next]_vars
  PROVE  RecordOK'
<1>1. /\ RecordOK /\ Len(log) <= Len(log') /\ Len(log) \in Nat /\ Len(log') \in Nat /\ DOMAIN log = 1..Len(log)
      /\ conv \in Record
  <2>1. WireTyped /\ WireTyped'
    BY LogGrows DEF IInv, Typed
  <2>2. Len(log) \in Nat /\ Len(log') \in Nat
    BY <2>1 DEF WireTyped
  <2> QED BY <2>1, <2>2, Bounds, LogGrows DEF IInv, Typed, WorkTyped
<1>2. conv.synced \in Nat /\ MaxSeq \in Nat
  <2>1. WireTyped
    BY DEF IInv, Typed
  <2> QED BY <1>1, <2>1, Bounds DEF Record
<1>3. CASE ~Database
  BY <1>1, <1>2, <1>3, Otherwise DEF RecordOK
<1>4. CASE Database
  <2>1. /\ First.copy \in Record /\ First.copy.last = First.copy.synced /\ First.copy.synced <= Len(log)
        /\ First.copy.synced \in Nat /\ (First.who = "job" => job \in DOMAIN log)
    <3>1. First.copy \in Record
      BY <1>4, RecordAfter
    <3> QED BY <1>2, <1>4, <3>1, RecordAfter DEF Record
  <2>2. ASSUME NEW c \in Record, c.last = c.synced, c.synced <= Len(log),
               conv' = (IF First.who = "job" THEN Advanced(c, job) ELSE c)
        PROVE  RecordOK'
    <3>1. c.synced \in Nat
      BY <1>2 DEF Record
    <3>2. CASE First.who = "job"
      BY <1>1, <2>1, <2>2, <3>1, <3>2, AdvancedIs DEF RecordOK
    <3>3. CASE First.who # "job"
      BY <1>1, <2>2, <3>1, <3>3 DEF RecordOK
    <3> QED BY <3>2, <3>3
  <2>3. CASE conv' = Applied(First.copy, job, First.text) /\ job \in DOMAIN log
    <3>1. /\ conv'.synced = Later(First.copy.synced, job) /\ conv'.last = Later(First.copy.synced, job)
          /\ Later(First.copy.synced, job) \in {First.copy.synced, job}
      <4>1. PICK a : a = Applied(First.copy, job, First.text)
        OBVIOUS
      <4>2. a.synced = Later(First.copy.synced, job) /\ a.last = Later(First.copy.synced, job)
            /\ Later(First.copy.synced, job) \in {First.copy.synced, job}
        BY <2>1, <2>3, <4>1, AppliedIs
      <4> QED BY <2>3, <4>1, <4>2
    <3>2. First.copy.synced <= Len(log') /\ job <= Len(log')
      BY <1>1, <2>1, <2>3
    <3> QED BY <3>1, <3>2 DEF RecordOK
  <2>4. CASE conv' = conv
    BY <1>1, <1>2, <2>4 DEF RecordOK
  <2>5. ASSUME NEW c \in Record, conv' = (IF First.who = "job" THEN Advanced(c, job) ELSE c),
               \/ c = conv
               \/ c = IF conv.preview.seq = First.seq THEN [conv EXCEPT !.preview.body = First.text.body] ELSE conv
               \/ c = [First.copy EXCEPT !.preview = LatestOf(store)]
        PROVE  RecordOK'
    <3>1. c.last = c.synced /\ c.synced <= Len(log)
      BY <1>1, <2>1, <2>5 DEF RecordOK, Record
    <3> QED BY <2>2, <2>5, <3>1
  <2> QED BY <1>4, <2>3, <2>4, <2>5, RecordAfter
<1> QED BY <1>3, <1>4

(***************************************************************************)
(* The preview.                                                            *)
(***************************************************************************)
\* What is stored, but for some.
LEMMA WithoutIs ==
  ASSUME NEW m, NEW S, NEW i \in Positions
  PROVE  Without(m, S)[i] = IF i \in S THEN Absent ELSE m[i]
  BY DEF Without

\* Text j is written, or written over.
LEMMA PreviewRewritten ==
  ASSUME MaxSeq \in Nat, NEW m, NEW n, NEW S \in SUBSET Positions, NEW j \in Positions, NEW t, t # Absent,
         n[j] = t, \A k \in Positions : k # j => n[k] = m[k], NEW P, P = LatestOf(Without(m, S)),
         NEW T, T = IF m[j] = Absent THEN S \cup {j} ELSE S
  PROVE  /\ P.seq = j => LatestOf(Without(n, S)) = [seq |-> j, body |-> t.body]
         /\ P.seq # j => LatestOf(Without(n, T)) = P
<1> DEFINE f == Without(m, S)
<1>1. \A k \in Positions : f[k] = IF k \in S THEN Absent ELSE m[k]
  BY WithoutIs
<1>2. /\ 0 \notin Positions /\ \A k \in Positions : k \in Nat
  BY DEF Positions
<1>3. CASE P = NoPreview /\ \A k \in Positions : f[k] = Absent
  <2>1. P.seq # j
    BY <1>2, <1>3 DEF NoPreview
  <2>2. j \in T
    BY <1>1, <1>3
  <2>3. \A k \in Positions : Without(n, T)[k] = f[k]
    <3>1. \A k \in Positions : Without(n, T)[k] = IF k \in T THEN Absent ELSE n[k]
      BY WithoutIs
    <3>2. ASSUME NEW k \in Positions PROVE (IF k \in T THEN Absent ELSE n[k]) = f[k]
      <4>1. CASE k = j
        BY <1>3, <2>2, <4>1
      <4>2. CASE k # j
        BY <1>1, <4>2
      <4> QED BY <4>1, <4>2
    <3> QED BY <3>1, <3>2
  <2> HIDE DEF f
  <2>4. LatestOf(Without(n, T)) = LatestOf(f)
    BY <2>3, LatestSame
  <2> QED BY <1>3, <2>1, <2>4 DEF f
<1>4. CASE \E i \in Positions : /\ f[i] # Absent /\ \A k \in Positions : f[k] # Absent => k <= i
                                /\ P = [seq |-> i, body |-> f[i].body]
  <2>1. PICK i \in Positions : /\ f[i] # Absent /\ \A k \in Positions : f[k] # Absent => k <= i
                               /\ P = [seq |-> i, body |-> f[i].body]
    BY <1>4
  <2>2. i \notin S /\ m[i] # Absent /\ P.seq = i
    BY <1>1, <2>1
  <2>3. CASE i = j
    <3> DEFINE g == Without(n, S)
    <3>1. \A k \in Positions : g[k] = IF k \in S THEN Absent ELSE n[k]
      BY WithoutIs
    <3>2. g[i] = t /\ \A k \in Positions : g[k] # Absent => k <= i
      BY <1>1, <1>2, <2>1, <2>2, <2>3, <3>1
    <3> HIDE DEF g
    <3>3. LatestOf(g) = [seq |-> i, body |-> t.body]
      BY <3>2, LatestIs
    <3> QED BY <2>2, <2>3, <3>3 DEF g
  <2>4. CASE i # j
    <3> DEFINE g == Without(n, T)
    <3>1. \A k \in Positions : g[k] = IF k \in T THEN Absent ELSE n[k]
      BY WithoutIs
    <3>2. i \notin T /\ g[i] = f[i]
      BY <1>1, <2>2, <2>4, <3>1
    <3>3. \A k \in Positions : g[k] # Absent => k <= i
      <4>1. ASSUME NEW k \in Positions, g[k] # Absent PROVE f[k] # Absent
        <5>1. CASE k = j
          BY <1>1, <3>1, <4>1, <5>1
        <5>2. CASE k # j
          BY <1>1, <3>1, <4>1, <5>2
        <5> QED BY <5>1, <5>2
      <4> QED BY <2>1, <4>1
    <3> HIDE DEF g
    <3>4. LatestOf(g) = [seq |-> i, body |-> f[i].body]
      BY <2>1, <3>2, <3>3, LatestIs
    <3> QED BY <2>1, <2>2, <2>4, <3>4 DEF g
  <2> QED BY <2>3, <2>4
<1> HIDE DEF f
<1>5. \/ P = NoPreview /\ \A k \in Positions : f[k] = Absent
      \/ \E i \in Positions : /\ f[i] # Absent /\ \A k \in Positions : f[k] # Absent => k <= i
                              /\ P = [seq |-> i, body |-> f[i].body]
  BY LatestExists DEF f
<1> QED BY <1>3, <1>4, <1>5

\* A message that is not shown in the preview is removed.
LEMMA PreviewStays ==
  ASSUME MaxSeq \in Nat, NEW m, NEW n, NEW S \in SUBSET Positions, NEW j \in Positions,
         n[j] = Absent, \A k \in Positions : k # j => n[k] = m[k], LatestOf(Without(m, S)).seq # j
  PROVE  LatestOf(Without(n, S)) = LatestOf(Without(m, S))
<1> DEFINE f == Without(m, S)
           g == Without(n, S)
<1>1. \A k \in Positions : /\ f[k] = IF k \in S THEN Absent ELSE m[k]
                           /\ g[k] = IF k \in S THEN Absent ELSE n[k]
  BY WithoutIs
<1>2. \A k \in Positions : g[k] # Absent => g[k] = f[k]
  BY <1>1
<1>3. \A k \in Positions : k # j => g[k] = f[k]
  BY <1>1
<1> HIDE DEF f, g
<1>4. CASE \A k \in Positions : f[k] = Absent
  BY <1>2, <1>4, LatestSame DEF f, g
<1>5. CASE \E k \in Positions : f[k] # Absent
  <2>1. PICK i \in Positions : /\ f[i] # Absent /\ \A k \in Positions : f[k] # Absent => k <= i
                               /\ LatestOf(f) = [seq |-> i, body |-> f[i].body]
    BY <1>5, LatestExists
  <2>2. i # j
    BY <2>1 DEF f
  <2>3. LatestOf(g) = [seq |-> i, body |-> g[i].body]
    BY <1>2, <1>3, <2>1, <2>2, LatestIs
  <2> QED BY <1>3, <2>1, <2>2, <2>3 DEF f, g
<1> QED BY <1>4, <1>5

\* What waits behind the oldest request goes on waiting.
LEMMA OthersWait ==
  ASSUME IInv, Database, NEW p \in DOMAIN requests, p # 1
  PROVE  p - 1 \in DOMAIN requests' /\ requests'[p - 1] = requests[p]
<1>1. requests # <<>> /\ requests \in Seq(Asked)
  BY Turns DEF IInv, Typed, WorkTyped
<1>2. p - 1 \in DOMAIN Served /\ Served[p - 1] = requests[(p - 1) + 1] /\ p \in Nat
  BY <1>1, TailIs DEF Served
<1>3. Served[p - 1] = requests[p]
  BY <1>2
<1>4. Served \in Seq(Asked)
  BY <1>1, FirstIs
<1>5. requests' = Served \/ \E r \in Asked : requests' = Append(Served, r)
  BY Turns
<1> HIDE DEF Served
<1>6. ASSUME NEW r \in Asked, requests' = Append(Served, r) PROVE p - 1 \in DOMAIN requests' /\ requests'[p - 1] = requests[p]
  BY <1>2, <1>3, <1>4, <1>6, AppendIs
<1> QED BY <1>2, <1>3, <1>5, <1>6

\* The front before and after the oldest request was served.
LEMMA FrontServed ==
  ASSUME IInv, Database, NEW c \in Record, c.synced = conv.synced, c.last = conv.last, First.op # "put",
         conv' = (IF First.who = "job" THEN Advanced(c, job) ELSE c), job' = (IF First.who = "job" THEN 0 ELSE job)
  PROVE  Front' = Front
<1>1. First.who = "job" => job # 0 /\ job \in DOMAIN log /\ ~IsMessage(job)
  BY Turns, RecordAfter DEF RequestOK, JobAsks
<1>2. c.last = c.synced /\ log' = log
  BY Outcomes DEF IInv, RecordOK
<1>3. CASE First.who = "job"
  BY <1>1, <1>2, <1>3, AdvancedIs DEF Front
<1>4. CASE First.who # "job"
  BY <1>2, <1>4 DEF Front, IsMessage
<1> QED BY <1>3, <1>4

LEMMA PreviewOKStep ==
  ASSUME IInv, [Next]_vars
  PROVE  PreviewOK'
<1> DEFINE Quiet == \A p \in DOMAIN requests : requests[p].op # "latest"
           Passed(S) == \A j \in S : j \in gone \/ j > Front
           PassedNow(S) == \A j \in S : j \in gone' \/ j > Front'
           Previewed(S) == conv'.preview = LatestOf(Without(store', S))
<1> SUFFICES ASSUME ~LateFrames, \A p \in DOMAIN requests' : requests'[p].op # "latest"
             PROVE  \E S \in SUBSET Positions : PassedNow(S) /\ Previewed(S)
  BY DEF PreviewOK
<1>1. /\ MaxSeq \in Nat /\ MaxSeq >= 1 /\ DOMAIN log \subseteq Positions /\ DOMAIN log = 1..Len(log)
      /\ gone \subseteq gone' /\ \A i \in DOMAIN log : i \in DOMAIN log' /\ log'[i] = log[i]
  <2>1. WireTyped
    BY DEF IInv, Typed
  <2> QED BY <2>1, Bounds, LogGrows
<1>2. ASSUME Quiet
      PROVE  \E S \in SUBSET Positions : Passed(S) /\ conv.preview = LatestOf(Without(store, S))
  BY <1>2 DEF IInv, PreviewOK
<1>3. /\ job \in 0..MaxSeq /\ (job # 0 => job \in DOMAIN log) /\ conv \in Record /\ store \in [Positions -> Texts]
      /\ StoredOK
  BY DEF IInv, Typed, WorkTyped, StoreTyped, Stored
<1>4. CASE ~Database
  <2>0. UNCHANGED store /\ conv'.synced = conv.synced /\ conv'.preview = conv.preview
    BY <1>4, Otherwise
  <2>1. Quiet
    <3>1. requests' = requests \/ \E r \in Asked : Ask(r)
      <4>1. CASE HandleIncoming \/ EditText \/ EditFails \/ DeleteAnswered \/ Open
        BY <4>1, Asks
      <4>2. CASE ~(HandleIncoming \/ EditText \/ EditFails \/ DeleteAnswered \/ Open)
        BY <1>4, <4>2, NobodyAsks
      <4> QED BY <4>1, <4>2
    <3>2. ASSUME NEW r \in Asked, Ask(r), NEW p \in DOMAIN requests PROVE requests[p].op # "latest"
      BY <3>2, QueueAsked
    <3> QED BY <3>1, <3>2
  <2>2. PICK S \in SUBSET Positions : Passed(S) /\ conv.preview = LatestOf(Without(store, S))
    BY <1>2, <2>1
  <2>3. CASE job' = job
    <3>1. Front' = Front
      BY <1>1, <1>3, <2>0, <2>3 DEF Front, IsMessage
    <3> QED BY <1>1, <2>0, <2>2, <3>1
  <2>4. CASE HandleIncoming
    <3>1. job = 0 /\ job' \in DOMAIN log /\ IsNext(job') /\ log' = log /\ gone' = gone
      BY <2>4, BeginIs DEF wire
    <3>2. Front = conv.synced
      BY <3>1 DEF Front
    <3>3. CASE IsMessage(job')
      <4>1. Front' = Front
        BY <2>0, <3>1, <3>2, <3>3 DEF Front, IsMessage
      <4> QED BY <2>0, <2>2, <3>1, <4>1
    <3>4. CASE ~IsMessage(job')
      <4>0. conv.synced \in Nat /\ job' \in Nat
        BY <1>1, <1>3, <3>1 DEF Record
      <4>1. Front' = job' /\ job' > conv.synced /\ (conv.synced + 1)..(job' - 1) \subseteq gone
        <5>1. job' > conv.synced /\ (conv.synced + 1)..(job' - 1) \subseteq gone
          <6>1. job' - 1 = conv.synced => (conv.synced + 1)..(job' - 1) = {}
            BY <4>0
          <6> QED BY <3>1, <6>1 DEF IsNext
        <5>2. job' # 0 /\ Later(conv.synced, job') = job'
          BY <4>0, <5>1 DEF Later
        <5> QED BY <2>0, <3>1, <3>4, <5>1, <5>2 DEF Front, IsMessage
      <4> DEFINE T == S \ {job'}
      <4>2. PassedNow(T)
        <5>1. ASSUME NEW j \in S \ {job'} PROVE j \in gone \/ j > job'
          <6>1. j \in S /\ j # job'
            BY <5>1
          <6>2. j \in Nat /\ MaxSeq \in Nat
            BY <1>1, <6>1 DEF Positions
          <6>3. j \in gone \/ j > conv.synced
            BY <2>2, <3>2, <6>1
          <6> QED BY <4>0, <4>1, <6>1, <6>2, <6>3
        <5>2. gone' = gone /\ Front' = job'
          BY <3>1, <4>1
        <5> QED BY <5>1, <5>2
      <4>3. store[job'] = Absent
        BY <1>1, <1>3, <3>1, <3>4 DEF StoredOK
      <4>4. \A k \in Positions : Without(store, T)[k] = Without(store, S)[k]
        <5>1. \A k \in Positions : /\ Without(store, T)[k] = IF k \in T THEN Absent ELSE store[k]
                                   /\ Without(store, S)[k] = IF k \in S THEN Absent ELSE store[k]
          BY WithoutIs
        <5> QED BY <4>3, <5>1
      <4>5. LatestOf(Without(store, T)) = LatestOf(Without(store, S))
        <5> HIDE DEF T
        <5> QED BY <1>1, <4>4, LatestSame
      <4>6. Previewed(T)
        BY <2>0, <2>2, <4>5
      <4> QED BY <4>2, <4>6
    <3> QED BY <3>3, <3>4
  <2> QED BY <1>4, <2>3, <2>4, Otherwise
<1>5. CASE Database
  <2>1. log' = log /\ gone' = gone
    BY <1>5, Outcomes
  <2>2. ASSUME First.op # "latest" PROVE Quiet
    <3>1. First = requests[1]
      BY <1>5, Turns
    <3> QED BY <1>5, <2>2, <3>1, OthersWait
  <2>3. CASE Puts
    <3> DEFINE S == {j \in Positions : j > job}
    <3>1. /\ conv' = Applied(First.copy, job, First.text) /\ job \in DOMAIN log /\ job' = 0
          /\ First.copy \in Record /\ First.copy.last = First.copy.synced /\ First.copy.synced <= Len(log)
      BY <1>5, <2>3, RecordAfter DEF Puts, Goes, RemovesShown, Removes, Loads, GivesUp, RemovesOther, Rewrites, Previews
    <3>2. First.op = "put" /\ First.seq = job /\ First.copy.synced < job /\ First.text.body \in Words /\ First.text \in Texts
          /\ store' = [store EXCEPT ![job] = First.text]
      <4>1. RequestOK(First) /\ First.op = "put" /\ First = requests[1] /\ 1 \in DOMAIN requests /\ First.text \in Texts
        BY <1>5, <2>3, Turns, Written DEF Puts
      <4>2. First.seq = job /\ First.text.body \in Words
        BY <4>1, PutIs
      <4> QED BY <2>3, <4>1, <4>2 DEF RequestOK, Puts, PutMessage
    <3>3. Front' = job
      <4>1. PICK a : a = Applied(First.copy, job, First.text)
        OBVIOUS
      <4>2. a.synced = Later(First.copy.synced, job)
        BY <3>1, <4>1, AppliedIs
      <4>3. First.copy.synced \in Nat /\ job \in Nat
        BY <1>1, <3>1 DEF Record
      <4>4. Later(First.copy.synced, job) = job
        BY <3>2, <4>3 DEF Later
      <4> QED BY <3>1, <4>1, <4>2, <4>4 DEF Front
    <3>4. conv'.preview = [seq |-> job, body |-> First.text.body]
      <4>1. PICK a : a = Applied(First.copy, job, First.text)
        OBVIOUS
      <4>2. job >= First.copy.synced
        BY <1>1, <3>1, <3>2 DEF Record
      <4> QED BY <3>1, <4>1, <4>2, AppliedShows
    <3>5. LatestOf(Without(store', S)) = [seq |-> job, body |-> First.text.body]
      <4> DEFINE f == Without(store', S)
      <4>1. \A k \in Positions : f[k] = IF k \in S THEN Absent ELSE store'[k]
        BY WithoutIs
      <4>2. job \in Positions /\ First.text # Absent
        <5>1. First.text # Absent
          BY <1>1, <3>2, Nothings
        <5> QED BY <1>1, <3>1, <5>1
      <4>3. f[job] = First.text
        <5>1. job \notin S /\ store'[job] = First.text
          BY <1>1, <1>3, <3>2, <4>2 DEF Positions
        <5> HIDE DEF f, S
        <5> QED BY <4>1, <4>2, <5>1
      <4>4. ASSUME NEW k \in Positions, f[k] # Absent PROVE k <= job
        <5>1. k \notin S
          <6> HIDE DEF f, S
          <6> QED BY <4>1, <4>4
        <5> QED BY <1>1, <4>2, <5>1 DEF Positions
      <4> HIDE DEF f
      <4> QED BY <1>1, <4>2, <4>3, <4>4, LatestIs DEF f
    <3>6. PassedNow(S)
      BY <3>3
    <3> QED BY <3>4, <3>5, <3>6
  <2>4. CASE Goes \/ Loads
    <3>1. First.op # "latest" /\ store' = store /\ conv' = conv /\ job' = job
      BY <2>4 DEF Goes, Loads, Loaded
    <3>2. PICK S \in SUBSET Positions : Passed(S) /\ conv.preview = LatestOf(Without(store, S))
      BY <1>2, <2>2, <3>1
    <3>3. Front' = Front
      BY <2>1, <3>1 DEF Front, IsMessage
    <3> QED BY <2>1, <3>1, <3>2, <3>3
  <2>5. CASE RemovesShown
    <3>1. \E p \in DOMAIN requests' : requests'[p].op = "latest"
      <4>1. requests' = Append(Served, [First EXCEPT !.op = "latest", !.copy = conv]) /\ First \in Asked /\ Served \in Seq(Asked)
        BY <1>5, <2>5, Turns, FirstIs DEF RemovesShown
      <4>2. PICK r : r = [First EXCEPT !.op = "latest", !.copy = conv]
        OBVIOUS
      <4>3. r \in Asked /\ r.op = "latest"
        BY <1>3, <4>1, <4>2 DEF Asked
      <4>4. Len(Served) + 1 \in DOMAIN Append(Served, r) /\ Append(Served, r)[Len(Served) + 1] = r
        <5> HIDE DEF Served
        <5> QED BY <4>1, <4>3
      <4> QED BY <4>1, <4>2, <4>3, <4>4
    <3> QED BY <3>1
  <2>6. CASE GivesUp \/ RemovesOther
    <3>1. First.op \notin {"latest", "put"}
      BY <2>6 DEF GivesUp, RemovesOther, Removes
    <3>2. PICK S \in SUBSET Positions : Passed(S) /\ conv.preview = LatestOf(Without(store, S))
      BY <1>2, <2>2, <3>1
    <3>3. conv' = (IF First.who = "job" THEN Advanced(conv, job) ELSE conv) /\ job' = (IF First.who = "job" THEN 0 ELSE job)
      BY <2>6 DEF GivesUp, RemovesOther, Resume
    <3>4. Front' = Front
      BY <1>3, <1>5, <3>1, <3>3, FrontServed
    <3>5. conv'.preview = conv.preview
      BY <1>3, <3>3 DEF Advanced, Record
    <3>6. LatestOf(Without(store', S)) = LatestOf(Without(store, S))
      <4>1. CASE GivesUp
        BY <4>1 DEF GivesUp
      <4>2. CASE RemovesOther
        <5>1. store' = [store EXCEPT ![First.seq] = Absent] /\ First.seq \in Positions /\ conv.preview.seq # First.seq
          BY <1>5, <4>2, Written DEF RemovesOther, Removes
        <5>2. PICK m, n, j : m = store /\ n = store' /\ j = First.seq
          OBVIOUS
        <5>3. j \in Positions /\ n[j] = Absent /\ \A k \in Positions : k # j => n[k] = m[k]
          BY <1>3, <5>1, <5>2
        <5>4. LatestOf(Without(m, S)).seq # j
          BY <3>2, <5>1, <5>2
        <5>5. LatestOf(Without(n, S)) = LatestOf(Without(m, S))
          BY <1>1, <5>3, <5>4, PreviewStays
        <5> QED BY <5>2, <5>5
      <4> QED BY <2>6, <4>1, <4>2
    <3> QED BY <2>1, <3>2, <3>4, <3>5, <3>6
  <2>7. CASE Rewrites
    <3> DEFINE c == IF conv.preview.seq = First.seq THEN [conv EXCEPT !.preview.body = First.text.body] ELSE conv
               j == First.seq
               t == First.text
    <3>1. /\ First.op = "rewrite" /\ j \in Positions /\ t \in Texts /\ t.body \in Words
          /\ store' = [store EXCEPT ![j] = t] /\ (store[j] # Absent \/ j \in gone)
      <4>1. RequestOK(First) /\ First.op = "rewrite" /\ j \in Positions /\ t \in Texts
        BY <1>5, <2>7, Written, Turns DEF Rewrites
      <4> QED BY <2>7, <4>1 DEF RequestOK, Rewrites, SetMessageBody
    <3>2. PICK S \in SUBSET Positions : Passed(S) /\ conv.preview = LatestOf(Without(store, S))
      BY <1>2, <2>2, <3>1
    <3>3. conv' = (IF First.who = "job" THEN Advanced(c, job) ELSE c) /\ job' = (IF First.who = "job" THEN 0 ELSE job)
      BY <2>7 DEF Rewrites, SetMessageBody, Resume
    <3>4. c \in Record /\ c.synced = conv.synced /\ c.last = conv.last
          /\ c.preview = (IF conv.preview.seq = j THEN [seq |-> j, body |-> t.body] ELSE conv.preview)
      BY <1>3, <3>1 DEF Record, Words
    <3> HIDE DEF c, j, t
    <3>5. Front' = Front
      BY <1>5, <3>1, <3>3, <3>4, FrontServed
    <3>6. conv'.preview = c.preview
      BY <3>3, <3>4 DEF Advanced, Record
    <3>7. t # Absent
      BY <1>1, <3>1, Nothings
    <3>8. store'[j] = t /\ \A k \in Positions : k # j => store'[k] = store[k]
      BY <1>3, <3>1
    <3>9. /\ conv.preview.seq = j => LatestOf(Without(store', S)) = [seq |-> j, body |-> t.body]
          /\ conv.preview.seq # j =>
                LatestOf(Without(store', IF store[j] = Absent THEN S \cup {j} ELSE S)) = conv.preview
      <4>1. PICK m, n, i, u : m = store /\ n = store' /\ i = j /\ u = t
        OBVIOUS
      <4>2. i \in Positions /\ u # Absent /\ n[i] = u /\ \A k \in Positions : k # i => n[k] = m[k]
        BY <3>1, <3>7, <3>8, <4>1
      <4>3. PICK P, T : P = LatestOf(Without(m, S)) /\ T = IF m[i] = Absent THEN S \cup {i} ELSE S
        OBVIOUS
      <4>4. /\ P.seq = i => LatestOf(Without(n, S)) = [seq |-> i, body |-> u.body]
            /\ P.seq # i => LatestOf(Without(n, T)) = P
        BY <1>1, <4>2, <4>3, PreviewRewritten
      <4> QED BY <3>2, <4>1, <4>3, <4>4
    <3>10. CASE conv.preview.seq = j
      BY <2>1, <3>2, <3>4, <3>5, <3>6, <3>9, <3>10
    <3>11. CASE conv.preview.seq # j
      <4> DEFINE T == IF store[j] = Absent THEN S \cup {j} ELSE S
      <4>1. T \in SUBSET Positions /\ PassedNow(T)
        BY <2>1, <3>1, <3>2, <3>5
      <4>2. Previewed(T)
        BY <3>4, <3>6, <3>9, <3>11
      <4> QED BY <4>1, <4>2
    <3> QED BY <3>10, <3>11
  <2>8. CASE Previews
    <3>1. conv'.preview = LatestOf(store) /\ store' = store
      <4>1. PICK c \in Record : c = [First.copy EXCEPT !.preview = LatestOf(store)]
        BY <1>5, LatestTyped, RecordAfter DEF Record
      <4>2. conv' = (IF First.who = "job" THEN Advanced(c, job) ELSE c) /\ store' = store
        BY <2>8, <4>1 DEF Previews, LatestPreview, Resume
      <4>3. c.preview = LatestOf(store)
        BY <1>5, <4>1, RecordAfter DEF Record
      <4> QED BY <4>2, <4>3 DEF Advanced, Record
    <3>2. \A k \in Positions : Without(store, {})[k] = store[k]
      BY WithoutIs
    <3>3. LatestOf(Without(store, {})) = LatestOf(store)
      BY <1>1, <3>2, LatestSame
    <3> QED BY <3>1, <3>3
  <2> QED BY <1>5, <2>3, <2>4, <2>5, <2>6, <2>7, <2>8, Outcomes
<1> QED BY <1>4, <1>5

(***************************************************************************)
(* While nothing comes late or is written back.                            *)
(***************************************************************************)
\* It was so before.
LEMMA CalmBefore ==
  ASSUME IInv, [Next]_vars, Calm'
  PROVE  Calm /\ JobIsNext /\ StoredReached /\ FoundReached /\ ShownSame /\ ReadOK
<1>1. rewound \in BOOLEAN /\ (rewound => rewound')
  <2>1. CASE ~Database
    BY <2>1, Otherwise DEF IInv, Typed, ScreenTyped
  <2>2. CASE Database
    BY <2>2, Outcomes DEF Puts, PutMessage, Goes, GivesUp, Rewrites, SetMessageBody, RemovesShown, RemovesOther,
       Removes, Previews, LatestPreview, Loads, Loaded, IInv, Typed, ScreenTyped
  <2> QED BY <2>1, <2>2
<1> QED BY <1>1 DEF Calm, IInv, InStep

\* Then the entry in hand is done, and the position is its number; or nothing
\* changes but the preview.
LEMMA CalmTurns ==
  ASSUME IInv, Database, Calm'
  PROVE  \/ /\ job # 0 /\ job \in DOMAIN log /\ job' = 0 /\ First.who = "job"
            /\ conv'.synced = job /\ conv'.last = job /\ job > conv.synced
         \/ /\ job' = job /\ conv'.synced = conv.synced /\ conv'.last = conv.last /\ conv'.read = conv.read
            /\ First.who = "job" => Goes \/ RemovesShown
<1>1. [Next]_vars
  BY DEF Next
<1>2. JobIsNext /\ RecordOK /\ conv \in Record /\ MaxSeq \in Nat /\ ~rewound'
  <2>1. WireTyped
    BY DEF IInv, Typed
  <2> QED BY <1>1, <2>1, CalmBefore, Bounds DEF IInv, Typed, WorkTyped, Calm
<1>3. conv.synced \in Nat /\ conv.last = conv.synced /\ (job # 0 => job \in Nat /\ job > conv.synced)
  BY <1>2 DEF RecordOK, Record, JobIsNext, IInv, Typed, WorkTyped
<1>4. CASE Puts
  <2>1. /\ conv' = Applied(First.copy, job, First.text) /\ job \in DOMAIN log /\ job' = 0 /\ job # 0
        /\ First.copy \in Record /\ First.copy.last = First.copy.synced
        /\ First.copy.synced = conv.synced /\ First.who = "job"
    <3>1. First = requests[1] /\ 1 \in DOMAIN requests /\ First.op = "put"
      BY <1>4, Turns DEF Puts
    <3>2. First.copy.synced = conv.synced
      BY <1>2, <3>1 DEF JobIsNext
    <3>3. First.who = "job" /\ job # 0
      BY <3>1, PutIs DEF IInv, Waiting, NoJobNone
    <3> QED BY <1>4, <3>2, <3>3, RecordAfter
            DEF Puts, Goes, RemovesShown, Removes, Loads, GivesUp, RemovesOther, Rewrites, Previews
  <2>2. PICK a : a = Applied(First.copy, job, First.text)
    OBVIOUS
  <2>3. a.synced = Later(First.copy.synced, job) /\ a.last = Later(First.copy.synced, job)
    BY <2>1, <2>2, AppliedIs
  <2>4. Later(conv.synced, job) = job
    BY <1>3, <2>1 DEF Later
  <2> QED BY <1>3, <2>1, <2>2, <2>3, <2>4
<1>5. ASSUME NEW c \in Record, c.synced = conv.synced, c.last = conv.last, c.read = conv.read,
             conv' = (IF First.who = "job" THEN Advanced(c, job) ELSE c), job' = (IF First.who = "job" THEN 0 ELSE job),
             First.who = "job" => job \in DOMAIN log /\ job # 0
      PROVE  \/ /\ job # 0 /\ job \in DOMAIN log /\ job' = 0 /\ First.who = "job"
                /\ conv'.synced = job /\ conv'.last = job /\ job > conv.synced
             \/ /\ job' = job /\ conv'.synced = conv.synced /\ conv'.last = conv.last /\ conv'.read = conv.read
                /\ First.who # "job"
  <2>1. CASE First.who = "job"
    <3>1. Later(conv.synced, job) = job
      BY <1>3, <1>5, <2>1 DEF Later
    <3>2. Advanced(c, job).synced = Later(c.synced, job) /\ Advanced(c, job).last = Later(c.synced, job)
      BY <1>3, <1>5, <2>1, AdvancedIs
    <3> QED BY <1>3, <1>5, <2>1, <3>1, <3>2
  <2>2. CASE First.who # "job"
    BY <1>5, <2>2
  <2> QED BY <2>1, <2>2
<1>6. CASE Goes \/ RemovesShown \/ Loads
  <2>1. conv' = conv /\ job' = job
    BY <1>6 DEF Goes, RemovesShown, Loads, Loaded
  <2>2. Loads => First.who # "job"
    <3>1. First = requests[1] /\ 1 \in DOMAIN requests
      BY Turns
    <3> QED BY <3>1, LoadIs DEF Loads
  <2> QED BY <1>6, <2>1, <2>2
<1>7. First.who = "job" => job \in DOMAIN log /\ job # 0
  BY RecordAfter
<1>8. CASE GivesUp \/ RemovesOther
  <2>1. conv' = (IF First.who = "job" THEN Advanced(conv, job) ELSE conv) /\ job' = (IF First.who = "job" THEN 0 ELSE job)
    BY <1>8 DEF GivesUp, RemovesOther, Resume
  <2> QED BY <1>2, <1>5, <1>7, <2>1
<1>9. CASE Rewrites
  <2> DEFINE c == IF conv.preview.seq = First.seq THEN [conv EXCEPT !.preview.body = First.text.body] ELSE conv
  <2>1. conv' = (IF First.who = "job" THEN Advanced(c, job) ELSE c) /\ job' = (IF First.who = "job" THEN 0 ELSE job)
    BY <1>9 DEF Rewrites, SetMessageBody, Resume
  <2>2. First.text.body \in Words
    BY <1>9, Turns DEF Rewrites, RequestOK
  <2>3. c \in Record /\ c.synced = conv.synced /\ c.last = conv.last /\ c.read = conv.read
    BY <1>2, <2>2 DEF Record, Words
  <2> HIDE DEF c
  <2> QED BY <1>5, <1>7, <2>1, <2>3
<1>10. CASE Previews
  <2> DEFINE c == [First.copy EXCEPT !.preview = LatestOf(store)]
  <2>1. conv' = (IF First.who = "job" THEN Advanced(c, job) ELSE c) /\ job' = (IF First.who = "job" THEN 0 ELSE job)
        /\ rewound' = (rewound \/ [First.copy EXCEPT !.preview = conv.preview] # conv)
    BY <1>10 DEF Previews, LatestPreview, Resume
  <2>2. First.copy \in Record /\ LatestOf(store) \in [seq : 0..MaxSeq, body : Bodies \cup {"file", "none"}]
    BY RecordAfter, LatestTyped
  <2>3. [First.copy EXCEPT !.preview = conv.preview] = conv
    BY <1>2, <2>1
  <2>4. First.copy.synced = conv.synced /\ First.copy.last = conv.last /\ First.copy.read = conv.read
    <3>1. PICK d : d = First.copy
      OBVIOUS
    <3>2. [d EXCEPT !.preview = conv.preview].synced = d.synced /\ [d EXCEPT !.preview = conv.preview].last = d.last
          /\ [d EXCEPT !.preview = conv.preview].read = d.read
      BY <2>2, <3>1 DEF Record
    <3> QED BY <2>3, <3>1, <3>2
  <2>5. c \in Record /\ c.synced = conv.synced /\ c.last = conv.last /\ c.read = conv.read
    BY <2>2, <2>4 DEF Record
  <2> HIDE DEF c
  <2> QED BY <1>5, <1>7, <2>1, <2>5
<1> QED BY <1>4, <1>6, <1>8, <1>9, <1>10, Outcomes

\* Where a place of the queue comes from.
LEMMA PlaceIs ==
  ASSUME IInv, [Next]_vars, NEW p \in DOMAIN requests'
  PROVE  \/ /\ ~Database /\ p \in DOMAIN requests /\ requests'[p] = requests[p]
         \/ /\ ~Database /\ requests'[p].op \in {"put", "find", "get", "delete", "load"}
            /\ requests'[p].copy = conv /\ (requests'[p].op = "put" => HandleIncoming)
         \/ /\ Database /\ p \in Nat /\ p >= 1 /\ p + 1 \in DOMAIN requests /\ requests'[p] = requests[p + 1]
         \/ /\ Database /\ Goes /\ requests'[p].op = "rewrite" /\ requests'[p].seq = First.seq /\ First.op = "get"
            /\ requests'[p].who = First.who
         \/ /\ Database /\ requests'[p].op \in {"get", "latest"} /\ requests'[p].who = First.who
<1>0. requests \in Seq(Asked)
  BY DEF IInv, Typed, WorkTyped
<1>1. CASE Database
  <2>1. requests # <<>> /\ DOMAIN requests = 1..Len(requests) /\ Len(requests) \in Nat
    BY <1>0, <1>1, Turns
  <2>2. CASE requests' = Served
    BY <1>1, <2>1, <2>2, FirstIs
  <2>3. CASE /\ Goes \/ RemovesShown
             /\ \E r \in Asked : /\ requests' = Append(Served, r)
                                 /\ r.who = First.who /\ r.seq = First.seq /\ r.text = First.text
                                 /\ Goes => /\ r.op = (IF First.op = "find" THEN "get" ELSE "rewrite")
                                            /\ r.copy = First.copy
                                 /\ RemovesShown => r.op = "latest" /\ r.copy = conv
    <3>1. PICK r \in Asked : /\ requests' = Append(Served, r)
                             /\ r.who = First.who /\ r.seq = First.seq
                             /\ Goes => r.op = (IF First.op = "find" THEN "get" ELSE "rewrite")
                             /\ RemovesShown => r.op = "latest"
      BY <2>3
    <3>2. \/ p + 1 \in DOMAIN requests /\ requests'[p] = requests[p + 1]
          \/ requests'[p] = r
      BY <2>1, <3>1, QueueServed
    <3>3. p \in Nat /\ p >= 1
      <4>1. requests' \in Seq(Asked)
        BY <2>1, <3>1, QueueServed
      <4> QED BY <4>1
    <3>4. Goes => First.op \in {"find", "get"}
      BY DEF Goes
    <3> QED BY <1>1, <2>3, <3>1, <3>2, <3>3, <3>4
  <2> QED BY <1>1, <2>2, <2>3, Turns
<1>2. CASE ~Database
  <2>1. CASE HandleIncoming \/ EditText \/ EditFails \/ DeleteAnswered \/ Open
    <3>1. CASE requests' = requests
      BY <1>2, <3>1
    <3>2. CASE \E r \in Asked : /\ Ask(r) /\ RequestOK(r)' /\ r.copy = conv
                                /\ r.op \in {"put", "find", "get", "delete", "load"}
                                /\ r.op = "put" => r.who = "job"
                                /\ r.who # "open" => \A q \in DOMAIN requests : requests[q].who # r.who
                                /\ IF r.who = "job" THEN job = 0 /\ job' # 0 ELSE job' = job
      <4>1. PICK r \in Asked : /\ Ask(r) /\ r.copy = conv /\ r.op \in {"put", "find", "get", "delete", "load"}
                               /\ r.op = "put" => job' # job
        BY <3>2
      <4>2. r.op = "put" => HandleIncoming
        BY <1>2, <4>1, Otherwise
      <4> QED BY <1>2, <4>1, <4>2, QueueAsked
    <3> QED BY <2>1, <3>1, <3>2, Asks
  <2>2. CASE ~(HandleIncoming \/ EditText \/ EditFails \/ DeleteAnswered \/ Open)
    BY <1>2, <2>2, NobodyAsks
  <2> QED BY <2>1, <2>2
<1> QED BY <1>1, <1>2

\* The entry in hand is the next.
LEMMA JobIsNextStep ==
  ASSUME IInv, [Next]_vars, Calm'
  PROVE  JobIsNext' /\ conv.synced <= conv'.synced
<1>1. /\ JobIsNext /\ conv.synced \in Nat /\ MaxSeq \in Nat /\ conv \in Record /\ job \in 0..MaxSeq
      /\ gone \subseteq gone' /\ DOMAIN log = 1..Len(log) /\ Len(log) \in Nat
  <2>1. WireTyped /\ conv \in Record
    BY DEF IInv, Typed, WorkTyped
  <2> QED BY <2>1, Bounds, CalmBefore, LogGrows DEF IInv, Typed, WorkTyped, Record
<1>2. CASE ~Database
  <2>1. conv'.synced = conv.synced
    BY <1>2, Otherwise
  <2>2. ASSUME NEW p \in DOMAIN requests', requests'[p].op = "put" PROVE requests'[p].copy.synced = conv.synced
    BY <1>1, <1>2, <2>2, PlaceIs DEF JobIsNext
  <2>3. job' # 0 => job' > conv.synced /\ \A k \in (conv.synced + 1)..(job' - 1) : k \in gone'
    <3>1. CASE job' = job
      BY <1>1, <3>1 DEF JobIsNext
    <3>2. CASE HandleIncoming
      <4>1. job' \in DOMAIN log /\ IsNext(job')
        BY <3>2, BeginIs DEF Calm
      <4>2. job' > conv.synced /\ (job' - 1 = conv.synced \/ (conv.synced + 1)..(job' - 1) \subseteq gone)
        BY <4>1 DEF IsNext
      <4>3. job' \in Nat
        BY <1>1, <4>1
      <4>4. CASE job' - 1 = conv.synced
        <5>1. (conv.synced + 1)..(job' - 1) = {}
          BY <1>1, <4>3, <4>4
        <5> QED BY <4>2, <5>1
      <4>5. CASE (conv.synced + 1)..(job' - 1) \subseteq gone
        BY <1>1, <4>2, <4>5
      <4> QED BY <4>2, <4>4, <4>5
    <3> QED BY <1>2, <3>1, <3>2, Otherwise
  <2> QED BY <1>1, <2>1, <2>2, <2>3 DEF JobIsNext
<1>3. CASE Database
  <2>1. gone' = gone
    BY <1>3, Outcomes
  <2>2. ASSUME NEW p \in DOMAIN requests', requests'[p].op = "put"
        PROVE  job' = job /\ job # 0 /\ requests'[p].copy.synced = conv.synced
    <3>1. p \in Nat /\ p >= 1 /\ p + 1 \in DOMAIN requests /\ requests'[p] = requests[p + 1]
      BY <1>3, <2>2, PlaceIs
    <3>2. requests[p + 1].who = "job" /\ requests[p + 1].copy.synced = conv.synced
      BY <1>1, <2>2, <3>1, PutIs DEF JobIsNext
    <3>3. job # 0
      BY <3>1, <3>2 DEF IInv, Waiting, NoJobNone
    <3>4. First = requests[1] /\ 1 \in DOMAIN requests
      BY <1>3, Turns
    <3>5. First.who # "job"
      BY <3>1, <3>2, <3>4 DEF IInv, Waiting, OneEach
    <3>6. job' = job
      BY <1>3, <3>5, Turns
    <3> QED BY <3>1, <3>2, <3>3, <3>6
  <2>3. CASE job # 0 /\ job' = 0 /\ conv'.synced = job /\ job > conv.synced
    BY <1>1, <2>2, <2>3 DEF JobIsNext
  <2>4. CASE job' = job /\ conv'.synced = conv.synced
    BY <1>1, <2>1, <2>2, <2>4 DEF JobIsNext
  <2> QED BY <1>3, <2>3, <2>4, CalmTurns
<1> QED BY <1>2, <1>3

\* Nothing is stored from beyond the position.
LEMMA StoredReachedStep ==
  ASSUME IInv, [Next]_vars, Calm'
  PROVE  StoredReached' /\ FoundReached'
<1>1. /\ StoredReached /\ FoundReached /\ conv.synced \in Nat /\ conv'.synced \in Nat /\ conv.synced <= conv'.synced
      /\ store \in [Positions -> Texts] /\ MaxSeq \in Nat
      /\ \A i \in Positions : i \in Nat
  <2>1. WireTyped /\ conv \in Record /\ conv' \in Record
    BY TypedStep DEF IInv, Typed, WorkTyped
  <2>2. MaxSeq \in Nat
    BY <2>1, Bounds
  <2> QED BY <2>1, <2>2, CalmBefore, JobIsNextStep DEF IInv, Typed, StoreTyped, Record, Positions
<1>2. CASE ~Database
  <2>1. UNCHANGED store
    BY <1>2, Otherwise
  <2>2. ASSUME NEW p \in DOMAIN requests', requests'[p].op = "rewrite" PROVE requests'[p].seq <= conv'.synced
    <3>1. p \in DOMAIN requests /\ requests'[p] = requests[p]
      BY <1>2, <2>2, PlaceIs
    <3>2. requests[p].seq \in Nat
      BY <1>1, <3>1, RequestIs DEF Asked
    <3> QED BY <1>1, <2>2, <3>1, <3>2 DEF FoundReached
  <2> QED BY <1>1, <2>1, <2>2 DEF StoredReached, FoundReached
<1>3. CASE Database
  <2>1. StoredReached'
    <3> SUFFICES ASSUME NEW i \in Positions, store'[i] # Absent PROVE i <= conv'.synced
      BY DEF StoredReached
    <3>1. CASE store[i] # Absent
      BY <1>1, <3>1 DEF StoredReached
    <3>2. CASE Puts /\ First.seq = job /\ job \in DOMAIN log /\ store' = [store EXCEPT ![job] = First.text] /\ store[i] = Absent
      <4>1. i = job
        BY <1>1, <3>2
      <4>2. First.who = "job" /\ ~Goes /\ ~RemovesShown
        <5>1. First = requests[1] /\ 1 \in DOMAIN requests
          BY <1>3, Turns
        <5> QED BY <3>2, <5>1, PutIs DEF Puts, Goes, RemovesShown, Removes
      <4> QED BY <1>1, <1>3, <4>1, <4>2, CalmTurns
    <3>3. CASE Rewrites /\ store' = [store EXCEPT ![First.seq] = First.text] /\ store[i] = Absent
      <4>1. i = First.seq
        BY <1>1, <3>3
      <4>2. First = requests[1] /\ 1 \in DOMAIN requests /\ First.op = "rewrite"
        BY <1>3, <3>3, Turns DEF Rewrites
      <4>3. First.seq <= conv.synced
        BY <1>1, <4>2 DEF FoundReached
      <4> QED BY <1>1, <4>1, <4>3
    <3>4. CASE store' = [store EXCEPT ![First.seq] = Absent] \/ store' = store
      BY <1>1, <3>1, <3>4
    <3> QED BY <1>3, <3>1, <3>2, <3>3, <3>4, Written
  <2>2. FoundReached'
    <3> SUFFICES ASSUME NEW p \in DOMAIN requests', requests'[p].op = "rewrite" PROVE requests'[p].seq <= conv'.synced
      BY DEF FoundReached
    <3>1. CASE p + 1 \in DOMAIN requests /\ requests'[p] = requests[p + 1]
      <4>1. requests[p + 1].seq \in Nat
        BY <1>1, <3>1, RequestIs DEF Asked
      <4> QED BY <1>1, <3>1, <4>1 DEF FoundReached
    <3>2. CASE Goes /\ requests'[p].seq = First.seq
      <4>1. store[First.seq] # Absent /\ First.seq \in Positions
        BY <1>3, <3>2, Written DEF Goes
      <4> QED BY <1>1, <3>2, <4>1 DEF StoredReached
    <3> QED BY <1>3, <3>1, <3>2, PlaceIs
  <2> QED BY <2>1, <2>2
<1> QED BY <1>2, <1>3

\* What is shown is what is stored.
LEMMA ShownSameStep ==
  ASSUME IInv, [Next]_vars, Calm'
  PROVE  ShownSame'
<1>1. ShownSame /\ StoredReached /\ JobIsNext /\ store \in [Positions -> Texts] /\ conv.synced \in Nat /\ DOMAIN log \subseteq Positions
      /\ job \in Nat
  <2>1. WireTyped /\ conv \in Record /\ MaxSeq \in Nat /\ job \in 0..MaxSeq
    BY Bounds DEF IInv, Typed, WorkTyped
  <2> QED BY <2>1, Bounds, CalmBefore DEF IInv, Typed, StoreTyped, Record
<1>2. CASE ~Database
  BY <1>1, <1>2, Otherwise DEF ShownSame
<1>3. CASE Database
  <2> SUFFICES ASSUME list' # NotLoaded, NEW i \in Positions, list'[i] # Absent PROVE list'[i] = store'[i]
    BY DEF ShownSame
  <2>0. First.seq \in Positions /\ First.text \in Texts /\ Absent \in Texts
    BY <1>3, Written DEF Absent, Texts
  <2>1. CASE /\ Puts /\ First.seq = job /\ job \in DOMAIN log /\ store' = [store EXCEPT ![job] = First.text]
             /\ list' = IF job \in Shown THEN list ELSE InList(job, First.text)
    <3>1. job # 0
      <4>1. First = requests[1] /\ 1 \in DOMAIN requests /\ First.op = "put"
        BY <1>3, <2>1, Turns DEF Puts
      <4> QED BY <4>1, PutIs DEF IInv, Waiting, NoJobNone
    <3>2. store[job] = Absent
      BY <1>1, <2>1, <3>1 DEF StoredReached, JobIsNext
    <3>3. job \notin Shown
      BY <3>2 DEF Shown, IInv, Stored, StoredOK
    <3>4. list # NotLoaded /\ list'[job] = First.text /\ \A k \in Positions : k # job => list'[k] = list[k]
      BY <2>0, <2>1, <3>3, InListIs
    <3> QED BY <1>1, <2>1, <3>4 DEF ShownSame
  <2>2. CASE /\ store' = [store EXCEPT ![First.seq] = First.text]
             /\ list' = IF First.seq \in Shown THEN InList(First.seq, First.text) ELSE list
    <3>1. CASE First.seq \in Shown
      <4>1. list # NotLoaded /\ list'[First.seq] = First.text /\ \A k \in Positions : k # First.seq => list'[k] = list[k]
        BY <2>0, <2>2, <3>1, InListIs
      <4> QED BY <1>1, <2>0, <2>2, <4>1 DEF ShownSame
    <3>2. CASE First.seq \notin Shown
      <4>1. list' = list /\ list[First.seq] = Absent
        BY <2>0, <2>2, <3>2 DEF Shown
      <4> QED BY <1>1, <2>0, <2>2, <4>1 DEF ShownSame
    <3> QED BY <3>1, <3>2
  <2>3. CASE store' = [store EXCEPT ![First.seq] = Absent] /\ list' = InList(First.seq, Absent)
    <3>1. list # NotLoaded /\ list'[First.seq] = Absent /\ \A k \in Positions : k # First.seq => list'[k] = list[k]
      BY <2>0, <2>3, InListIs
    <3> QED BY <1>1, <2>0, <2>3, <3>1 DEF ShownSame
  <2>4. CASE store' = store /\ list' = store
    BY <2>4
  <2>5. CASE UNCHANGED <<store, list>>
    BY <1>1, <2>5 DEF ShownSame
  <2> QED BY <1>3, <2>1, <2>2, <2>3, <2>4, <2>5, Written
<1> QED BY <1>2, <1>3

\* A visible conversation is read up to the position the effect saw.
LEMMA ReadOKStep ==
  ASSUME IInv, [Next]_vars, Calm'
  PROVE  ReadOK'
<1>1. /\ ReadOK /\ conv.last \in Nat /\ conv.read \in Nat /\ conv.last = conv.synced /\ missed \in BOOLEAN
  <2>1. WireTyped /\ conv \in Record /\ MaxSeq \in Nat
    BY Bounds DEF IInv, Typed, WorkTyped
  <2> QED BY <2>1, CalmBefore DEF IInv, Typed, ScreenTyped, Record, RecordOK
<1>2. CASE Database
  <2>1. UNCHANGED <<seen, missed>>
    BY <1>2, Outcomes
  <2>2. \/ conv'.last \in Nat /\ conv'.last > conv.last
        \/ conv'.last = conv.last /\ conv'.read = conv.read
    <3>1. job \in Nat
      <4>1. WireTyped /\ job \in 0..MaxSeq /\ MaxSeq \in Nat
        BY Bounds DEF IInv, Typed, WorkTyped
      <4> QED BY <4>1
    <3> QED BY <1>1, <1>2, <3>1, CalmTurns
  <2>3. ASSUME seen # Unseen, conv'.last \in Nat, conv'.last > conv.last PROVE seen[3] \in 0..conv'.last /\ seen[3] # conv'.last
    BY <1>1, <2>3 DEF ReadOK
  <2> QED BY <1>1, <2>1, <2>2, <2>3 DEF ReadOK
<1>3. CASE Effect
  <2>1. seen' = Deps /\ \/ missed' = FALSE /\ conv' = [conv EXCEPT !.read = Later(@, conv.last)]
                        \/ missed' = TRUE /\ conv' = conv
    BY <1>3 DEF Effect
  <2>2. seen'[3] = conv.last
    BY <2>1 DEF Deps
  <2>3. conv'.last = conv.last /\ (missed' \/ conv'.read = Later(conv.read, conv.last))
    BY <2>1 DEF IInv, Typed, WorkTyped, Record
  <2>4. Later(conv.read, conv.last) >= conv.last
    BY <1>1 DEF Later
  <2> QED BY <1>1, <2>2, <2>3, <2>4 DEF ReadOK
<1>4. CASE ReadElsewhere
  <2>1. PICK i \in DOMAIN log : i > conv.read /\ conv' = [conv EXCEPT !.read = i] /\ UNCHANGED screen
    BY <1>4 DEF ReadElsewhere
  <2>2. conv'.last = conv.last /\ conv'.read = i /\ i \in Nat
    BY <2>1 DEF IInv, Typed, WorkTyped, WireTyped, Record
  <2> QED BY <1>1, <2>1, <2>2 DEF ReadOK, screen
<1>5. CASE ~Database /\ ~Effect /\ ~ReadElsewhere
  <2>1. conv' = conv
    BY <1>5, Otherwise
  <2>2. UNCHANGED <<seen, missed>> \/ seen' = Unseen
    <3>1. CASE HandleIncoming
      BY <3>1, BeginIs DEF screen
    <3>2. CASE Growing \/ Sending \/ Composing
      BY <3>2 DEF Growing, Sending, Composing, screen
    <3>3. CASE EditText \/ EditAnswered \/ EditFails \/ DeleteAnswered \/ Open
      BY <3>3 DEF EditText, EditAnswered, EditFails, DeleteAnswered, Open, screen
    <3> QED BY <1>5, <3>1, <3>2, <3>3, Kinds
  <2> QED BY <1>1, <2>1, <2>2 DEF ReadOK
<1> QED BY <1>2, <1>3, <1>4, <1>5

(***************************************************************************)
(* What the texts say.                                                     *)
(***************************************************************************)
\* How the edit under way changes, but for the database.
LEMMA EditChanges ==
  ASSUME IInv, [Next]_vars, ~Database
  PROVE  \/ edit' = edit
         \/ /\ edit.at = "sending" /\ edit' = [edit EXCEPT !.at = "accepted"]
            /\ log' = Append(log, Edit("me", edit.seq, edit.body))
         \/ EditText /\ edit = NoEdit /\ edit'.at = "local"
         \/ EditAnswered /\ edit.at = "accepted" /\ edit' = NoEdit
         \/ EditFails /\ edit.at \in {"sending", "accepted"} /\ edit' = [edit EXCEPT !.at = "rollback"]
<1>1. CASE Growing
  BY <1>1 DEF Growing
<1>2. CASE EditText
  <2>1. PICK body \in Bodies :
            edit = NoEdit /\ edit' = [at |-> "local", seq |-> composer.seq, body |-> body, old |-> composer.was]
    BY <1>2, EditIs
  <2>2. edit'.at = "local"
    BY <2>1
  <2> QED BY <1>2, <2>1, <2>2
<1>3. CASE EditAnswered
  BY <1>3 DEF EditAnswered
<1>4. CASE EditFails
  BY <1>4, BackIs
<1>5. CASE HandleIncoming \/ DeleteAnswered \/ Open
  BY <1>5, BeginIs, DroppedIs, OpenIs
<1>6. CASE Sending \/ Composing \/ Effect \/ ReadElsewhere
  BY <1>6 DEF Sending, Composing, Effect, ReadElsewhere
<1> QED BY <1>1, <1>2, <1>3, <1>4, <1>5, <1>6, Kinds

\* Whoever edits, or takes back, waits.
LEMMA EditWaitsStep ==
  ASSUME IInv, [Next]_vars
  PROVE  EditWaits'
<1> DEFINE Who(at) == IF at = "local" THEN "edit" ELSE "rollback"
<1> SUFFICES ASSUME edit'.at \in {"local", "rollback"}
             PROVE  \E p \in DOMAIN requests' : requests'[p].who = Who(edit'.at)
  BY DEF EditWaits
<1>1. ASSUME edit.at \in {"local", "rollback"} PROVE \E p \in DOMAIN requests : requests[p].who = Who(edit.at)
  BY <1>1 DEF IInv, EditWaits
<1>2. CASE Database
  <2>1. /\ requests # <<>> /\ First = requests[1] /\ requests \in Seq(Asked) /\ edit \in [at : {"idle", "local", "sending", "accepted", "rollback"},
           seq : 0..MaxSeq, body : Bodies \cup {"none"}, old : Texts]
    BY <1>2, Turns DEF IInv, Typed, WorkTyped, EditingTyped
  <2>2. edit' = edit /\ (requests' = Served => First.who # Who(edit.at))
    <3>1. CASE /\ requests' = Served
               /\ First.who \notin {"edit", "rollback"} => edit' = edit
               /\ First.who = "edit" => edit' = [edit EXCEPT !.at = "sending"]
               /\ First.who = "rollback" => edit' = NoEdit
      <4>1. First.who \notin {"edit", "rollback"}
        BY <2>1, <3>1 DEF NoEdit
      <4> QED BY <3>1, <4>1
    <3>2. CASE \E r \in Asked : requests' = Append(Served, r) /\ edit' = edit
      <4>1. PICK r \in Asked : requests' = Append(Served, r) /\ edit' = edit
        BY <3>2
      <4>2. Served \in Seq(Asked)
        BY <2>1, FirstIs
      <4>3. Len(Append(Served, r)) = Len(Served) + 1 /\ Len(Served) \in Nat
        <5> HIDE DEF Served
        <5> QED BY <4>2, AppendIs
      <4> QED BY <4>1, <4>3
    <3> QED BY <1>2, <3>1, <3>2, Turns
  <2>3. PICK p \in DOMAIN requests : requests[p].who = Who(edit.at)
    BY <1>1, <2>2
  <2>4. CASE p # 1
    BY <1>2, <2>2, <2>3, <2>4, OthersWait
  <2>5. CASE p = 1
    <3>1. PICK r \in Asked : requests' = Append(Served, r) /\ r.who = First.who
      BY <1>2, <2>1, <2>2, <2>3, <2>5, Turns
    <3>2. Served \in Seq(Asked)
      BY <2>1, FirstIs
    <3>3. Len(Served) + 1 \in DOMAIN Append(Served, r) /\ Append(Served, r)[Len(Served) + 1] = r
      <4> HIDE DEF Served
      <4> QED BY <3>2, AppendIs
    <3> QED BY <2>1, <2>2, <2>3, <2>5, <3>1, <3>3
  <2> QED BY <2>4, <2>5
<1>3. CASE ~Database /\ edit' = edit
  <2>1. PICK p \in DOMAIN requests : requests[p].who = Who(edit.at)
    BY <1>1, <1>3
  <2>2. requests' = requests \/ \E r \in Asked : Ask(r)
    <3>1. CASE HandleIncoming \/ EditText \/ EditFails \/ DeleteAnswered \/ Open
      BY <3>1, Asks
    <3>2. CASE ~(HandleIncoming \/ EditText \/ EditFails \/ DeleteAnswered \/ Open)
      BY <1>3, <3>2, NobodyAsks
    <3> QED BY <3>1, <3>2
  <2>3. p \in DOMAIN requests' /\ requests'[p] = requests[p]
    BY <2>2, QueueAsked
  <2> QED BY <1>3, <2>1, <2>3
<1>4. CASE EditText
  <2>1. PICK body \in Bodies, r \in Asked :
            /\ Ask(r) /\ r.who = "edit"
            /\ edit' = [at |-> "local", seq |-> composer.seq, body |-> body, old |-> composer.was]
    BY <1>4, EditIs
  <2>2. edit'.at = "local"
    BY <2>1
  <2> QED BY <2>1, <2>2, QueueAsked
<1>5. CASE EditFails
  <2>1. PICK r \in Asked : Ask(r) /\ r.who = "rollback" /\ edit' = [edit EXCEPT !.at = "rollback"]
    BY <1>5, BackIs
  <2>2. edit'.at = "rollback"
    BY <2>1 DEF IInv, Typed, EditingTyped
  <2> QED BY <2>1, <2>2, QueueAsked
<1>6. CASE edit' = NoEdit \/ edit' = [edit EXCEPT !.at = "accepted"]
  BY <1>6 DEF NoEdit, IInv, Typed, EditingTyped
<1> QED BY <1>2, <1>3, <1>4, <1>5, <1>6, EditChanges

\* What entries say of a text, they go on saying.
LEMMA SaysGrows ==
  ASSUME IInv, [Next]_vars, NEW i \in DOMAIN log, NEW p \in Nat, p <= Len(log), NEW b
  PROVE  (Says(i, p, b) => Says(i, p, b)') /\ (Coming(i, p) => Coming(i, p)')
<1>1. /\ \A k \in DOMAIN log : k \in DOMAIN log' /\ log'[k] = log[k]
      /\ \A k \in DOMAIN log' : k <= p => k \in DOMAIN log
  <2>1. WireTyped /\ WireTyped'
    BY LogGrows DEF IInv, Typed
  <2>2. DOMAIN log = 1..Len(log) /\ Len(log) \in Nat /\ DOMAIN log' = 1..Len(log') /\ Len(log') \in Nat
    BY <2>1 DEF WireTyped
  <2> QED BY <2>2, LogGrows
<1>2. ASSUME Says(i, p, b) PROVE Says(i, p, b)'
  <2>1. CASE b = log[i].body /\ \A k \in DOMAIN log : k <= p => ~IsEdit(k, i)
    BY <1>1, <2>1 DEF Says, IsEdit
  <2>2. CASE \E k \in DOMAIN log : /\ k <= p /\ IsEdit(k, i) /\ b = log[k].body
                                   /\ \A m \in DOMAIN log : k < m /\ m <= p => ~IsEdit(m, i)
    <3>1. PICK k \in DOMAIN log : /\ k <= p /\ IsEdit(k, i) /\ b = log[k].body
                                  /\ \A m \in DOMAIN log : k < m /\ m <= p => ~IsEdit(m, i)
      BY <2>2
    <3>2. k \in DOMAIN log' /\ IsEdit(k, i)' /\ b = log'[k].body
      BY <1>1, <3>1 DEF IsEdit
    <3>3. \A m \in DOMAIN log' : k < m /\ m <= p => ~IsEdit(m, i)'
      BY <1>1, <3>1 DEF IsEdit
    <3> QED BY <3>1, <3>2, <3>3 DEF Says
  <2> QED BY <1>2, <2>1, <2>2 DEF Says
<1>3. ASSUME Coming(i, p) PROVE Coming(i, p)'
  BY <1>1, <1>3 DEF Coming, IsEdit
<1> QED BY <1>2, <1>3

\* Between the position and the entry in hand there is no edit.
LEMMA Advances ==
  ASSUME IInv, JobIsNext, job # 0, NEW i \in DOMAIN log, NEW b
  PROVE  /\ job \in DOMAIN log /\ job \in Nat /\ conv.synced < job /\ job <= Len(log)
         /\ i < job /\ i \notin gone => i <= conv.synced
         /\ ~IsEdit(job, i) => /\ Says(i, conv.synced, b) => Says(i, job, b)
                               /\ Coming(i, conv.synced) => Coming(i, job)
         /\ IsEdit(job, i) => Says(i, job, log[job].body)
<1>1. /\ DOMAIN log = 1..Len(log) /\ Len(log) \in Nat /\ conv.synced \in Nat /\ job \in DOMAIN log
      /\ job > conv.synced /\ \A k \in (conv.synced + 1)..(job - 1) : k \in gone
      /\ \A k \in gone : k \in DOMAIN log /\ log[k].k # "edit"
  <2>1. WireTyped /\ conv \in Record /\ MaxSeq \in Nat
    BY Bounds DEF IInv, Typed, WorkTyped
  <2>2. \A k \in gone : k \in DOMAIN log /\ log[k].k # "edit"
    BY <2>1 DEF IInv, Stored, LogOK, EntryOK, IsMessage, WireTyped
  <2> QED BY <2>1, <2>2, Bounds DEF IInv, Typed, WorkTyped, JobIsNext, Record
<1>2. i < job /\ i \notin gone => i <= conv.synced
  BY <1>1
<1>3. ASSUME ~IsEdit(job, i), NEW k \in DOMAIN log, k > conv.synced, IsEdit(k, i) PROVE k > job
  BY <1>1, <1>3 DEF IsEdit
<1>4. ASSUME ~IsEdit(job, i), Says(i, conv.synced, b) PROVE Says(i, job, b)
  <2>0. \A k \in DOMAIN log : k \in Nat /\ (k <= job /\ IsEdit(k, i) => k <= conv.synced)
    BY <1>1, <1>3, <1>4
  <2>1. CASE b = log[i].body /\ \A k \in DOMAIN log : k <= conv.synced => ~IsEdit(k, i)
    BY <2>0, <2>1 DEF Says
  <2>2. CASE \E k \in DOMAIN log : /\ k <= conv.synced /\ IsEdit(k, i) /\ b = log[k].body
                                   /\ \A m \in DOMAIN log : k < m /\ m <= conv.synced => ~IsEdit(m, i)
    <3>1. PICK k \in DOMAIN log : /\ k <= conv.synced /\ IsEdit(k, i) /\ b = log[k].body
                                  /\ \A m \in DOMAIN log : k < m /\ m <= conv.synced => ~IsEdit(m, i)
      BY <2>2
    <3>2. k <= job
      BY <1>1, <3>1
    <3>3. \A m \in DOMAIN log : k < m /\ m <= job => ~IsEdit(m, i)
      BY <2>0, <3>1
    <3> QED BY <3>1, <3>2, <3>3 DEF Says
  <2> QED BY <1>4, <2>1, <2>2 DEF Says
<1>5. ASSUME ~IsEdit(job, i), Coming(i, conv.synced) PROVE Coming(i, job)
  BY <1>3, <1>5 DEF Coming
<1>6. ASSUME IsEdit(job, i) PROVE Says(i, job, log[job].body)
  <2>1. \A m \in DOMAIN log : ~(job < m /\ m <= job)
    BY <1>1
  <2> QED BY <1>1, <1>6, <2>1 DEF Says
<1> QED BY <1>1, <1>2, <1>4, <1>5, <1>6

\* What holds of constants holds of the state they are taken from.
LEMMA TextPlace ==
  ASSUME NEW i, NEW p, NEW b, p = conv'.synced, b = store'[i].body,
         Says(i, p, b)' \/ Coming(i, p)' \/ BeingEdited(i)'
  PROVE  (Says(i, conv.synced, store[i].body) \/ Coming(i, conv.synced) \/ BeingEdited(i))'
  BY DEF Says, Coming, IsEdit

LEMMA OldPlace ==
  ASSUME NEW i, NEW p, NEW b, p = conv'.synced, b = edit'.old.body, i = edit'.seq,
         Says(i, p, b)' \/ Coming(i, p)'
  PROVE  (Says(edit.seq, conv.synced, edit.old.body) \/ Coming(edit.seq, conv.synced))'
  BY DEF Says, Coming, IsEdit

\* It was so before.
LEMMA WordsBefore ==
  ASSUME IInv, [Next]_vars, Calm', ~undone'
  PROVE  Calm /\ ~undone /\ TextsOK /\ OldIsLatest /\ BackFirst
<1>1. undone => undone'
  <2> USE DEF history
  <2>1. CASE Database
    BY <2>1, Outcomes
  <2>2. CASE HandleIncoming \/ DeleteAnswered \/ Open
    BY <2>2, BeginIs, DroppedIs, OpenIs
  <2>3. CASE Growing \/ Sending \/ Composing
    BY <2>3 DEF Growing, Sending, Composing
  <2>4. CASE EditText \/ EditAnswered \/ EditFails
    BY <2>4 DEF EditText, EditAnswered, EditFails
  <2>5. CASE Effect \/ ReadElsewhere
    BY <2>5 DEF Effect, ReadElsewhere
  <2> QED BY <2>1, <2>2, <2>3, <2>4, <2>5, Kinds
<1>2. Calm
  BY CalmBefore
<1> QED BY <1>1, <1>2 DEF IInv, InWords

\* What is stored of a message while nothing is served.
LEMMA TextsOutside ==
  ASSUME IInv, [Next]_vars, Calm', ~undone', ~Database, NEW i \in DOMAIN log,
         IsMessage(i), i \notin gone, i <= conv.synced
  PROVE  /\ store'[i] # Absent
         /\ (Says(i, conv.synced, store[i].body) \/ Coming(i, conv.synced) \/ BeingEdited(i))'
<1>1. /\ TextsOK /\ conv'.synced = conv.synced /\ store' = store /\ conv.synced \in Nat /\ conv.synced <= Len(log)
      /\ Len(log) \in Nat /\ DOMAIN log = 1..Len(log) /\ log \in Seq(Entries)
  <2>1. WireTyped /\ conv \in Record /\ MaxSeq \in Nat
    BY Bounds DEF IInv, Typed, WorkTyped
  <2> QED BY <2>1, WordsBefore, Otherwise, Bounds DEF IInv, RecordOK, Record, WireTyped
<1>2. PICK p, b : p \in Nat /\ p = conv.synced /\ b = store[i].body
  BY <1>1
<1>3. store[i] # Absent /\ (Says(i, p, b) \/ Coming(i, p) \/ BeingEdited(i))
  BY <1>1, <1>2 DEF TextsOK
<1>4. ASSUME BeingEdited(i) PROVE Coming(i, p)' \/ BeingEdited(i)'
  <2>0. edit.seq = i /\ edit.at \in {"local", "sending", "rollback"}
    BY <1>4 DEF BeingEdited
  <2>1. CASE edit' = edit
    BY <2>0, <2>1 DEF BeingEdited
  <2>2. CASE log' = Append(log, Edit("me", edit.seq, edit.body))
    <3>1. PICK e : e = Edit("me", edit.seq, edit.body)
      OBVIOUS
    <3>2. e.k = "edit" /\ e.ref = i
      BY <2>0, <3>1 DEF Edit
    <3>3. Len(log) + 1 \in DOMAIN log' /\ log'[Len(log) + 1] = e
      BY <1>1, <2>2, <3>1
    <3>4. Len(log) + 1 > p
      BY <1>1, <1>2
    <3> QED BY <3>2, <3>3, <3>4 DEF Coming, IsEdit
  <2>3. CASE edit = NoEdit \/ edit.at = "accepted"
    BY <2>0, <2>3 DEF NoEdit
  <2>4. CASE edit' = [edit EXCEPT !.at = "rollback"]
    <3>1. edit'.seq = edit.seq /\ edit'.at = "rollback"
      BY <2>4 DEF IInv, Typed, EditingTyped
    <3> QED BY <2>0, <3>1 DEF BeingEdited
  <2> QED BY <2>1, <2>2, <2>3, <2>4, EditChanges
<1>5. Says(i, p, b)' \/ Coming(i, p)' \/ BeingEdited(i)'
  BY <1>1, <1>2, <1>3, <1>4, SaysGrows
<1>6. p = conv'.synced /\ b = store'[i].body
  BY <1>1, <1>2
<1> QED BY <1>1, <1>3, <1>5, <1>6, TextPlace

\* When the entry in hand is done, every message says what the entries up to it do.
LEMMA TextsDone ==
  ASSUME IInv, Database, Calm', ~undone', NEW i \in DOMAIN log, IsMessage(i), i \notin gone,
         job # 0, job' = 0, First.who = "job", conv'.synced = job, i <= job
  PROVE  /\ store'[i] # Absent
         /\ (Says(i, conv.synced, store[i].body) \/ Coming(i, conv.synced) \/ BeingEdited(i))'
<1>0. [Next]_vars
  BY DEF Next
<1>1. /\ TextsOK /\ JobIsNext /\ log' = log /\ gone' = gone /\ edit' = edit /\ RequestOK(First)
      /\ ~Goes /\ ~RemovesShown /\ ~Loads
  <2>1. edit' = edit
    BY <1>0, Turns
  <2>2. ~Loads
    BY Turns, LoadIs DEF Loads
  <2>3. job' # job
    OBVIOUS
  <2> QED BY <1>0, <2>1, <2>2, <2>3, Outcomes, Turns, CalmBefore, WordsBefore DEF Goes, RemovesShown
<1>2. JobAsks(First) /\ job \in DOMAIN log /\ log[job].k \in {"text", "file", "edit", "delete"} /\ EntryOK(job)
  BY <1>1, EntryTyped DEF RequestOK, JobAsks, IInv, Typed, Entries, Stored, LogOK
<1>3. /\ store \in [Positions -> Texts] /\ DOMAIN log \subseteq Positions /\ job \in Nat /\ i \in Nat /\ i \in Positions
      /\ \A t \in Texts : t.body \in Words => t # Absent
  <2>1. WireTyped
    BY DEF IInv, Typed
  <2>2. MaxSeq \in Nat /\ MaxSeq >= 1
    BY <2>1, Bounds
  <2> QED BY <1>2, <2>1, <2>2, Bounds, Nothings DEF IInv, Typed, StoreTyped
<1> SUFFICES ASSUME NEW b, b = store'[i].body
             PROVE  store'[i] # Absent /\ (Says(i, job, b) \/ Coming(i, job) \/ BeingEdited(i))
  <2>1. PICK b, p : b = store'[i].body /\ p = conv'.synced
    OBVIOUS
  <2>2. store'[i] # Absent /\ (Says(i, p, b) \/ Coming(i, p) \/ BeingEdited(i))
    BY <2>1
  <2>3. Says(i, p, b)' \/ Coming(i, p)' \/ BeingEdited(i)'
    BY <1>1, <2>2 DEF Says, Coming, IsEdit, BeingEdited
  <2> QED BY <2>1, <2>2, <2>3, TextPlace
<1>4. CASE i = job
  <2>1. First.op = "put" /\ First.text.body = log[i].body
    BY <1>2, <1>4 DEF JobAsks
  <2>2. Puts
    BY <1>1, <2>1, Outcomes DEF GivesUp, Rewrites, RemovesOther, Removes, Previews
  <2>3. store'[i] = First.text /\ First.text.body \in Words /\ First.text \in Texts
    BY <1>3, <1>4, <2>2, Written DEF Rewrites, RemovesShown, RemovesOther, Removes, Loads, Goes, GivesUp, Previews, Puts
  <2>4. ASSUME NEW k \in DOMAIN log, k <= job, IsEdit(k, i) PROVE FALSE
    <3>1. log[k].ref \in 1..(k - 1) /\ log[k].ref = job /\ k \in Nat
      BY <1>3, <1>4, <2>4 DEF IsEdit, IInv, Stored, LogOK, EntryOK, Positions
    <3> QED BY <1>3, <2>4, <3>1
  <2> QED BY <1>3, <2>1, <2>3, <2>4 DEF Says
<1>5. CASE i < job
  <2>1. i <= conv.synced /\ store[i] # Absent
        /\ (Says(i, conv.synced, store[i].body) \/ Coming(i, conv.synced) \/ BeingEdited(i))
    BY <1>1, <1>5, Advances DEF TextsOK
  <2>2. CASE IsEdit(job, i)
    <3>1. First.op \in {"find", "get", "rewrite"} /\ First.seq = i /\ First.text.body = log[job].body
      BY <1>2, <2>2 DEF JobAsks, IsEdit
    <3>2. ~GivesUp
      BY <2>1, <3>1 DEF GivesUp
    <3>3. Rewrites
      BY <1>1, <3>1, <3>2, Outcomes DEF Puts, RemovesOther, Removes, Previews
    <3>4. store'[i] = First.text /\ First.text.body \in Words /\ First.text \in Texts
      BY <1>3, <3>1, <3>3, Written DEF Rewrites, RemovesShown, RemovesOther, Removes, Loads, Goes, GivesUp, Previews, Puts
    <3> QED BY <1>1, <1>3, <2>2, <3>1, <3>4, Advances
  <2>3. CASE ~IsEdit(job, i)
    <3>1. First.op = "rewrite" => First.seq # i
      BY <1>2, <2>3 DEF JobAsks, IsEdit, IsMessage
    <3>2. store'[i] = store[i]
      BY <1>3, <1>5, <3>1, Written DEF Rewrites
    <3>3. (Says(i, conv.synced, b) => Says(i, job, b)) /\ (Coming(i, conv.synced) => Coming(i, job))
      BY <1>1, <2>3, Advances
    <3> QED BY <2>1, <3>2, <3>3
  <2> QED BY <2>2, <2>3
<1> QED BY <1>3, <1>4, <1>5

\* While it is not done, only an edit made here changes what a message says.
LEMMA TextsWhile ==
  ASSUME IInv, Database, Calm', ~undone', NEW i \in DOMAIN log, IsMessage(i), i \notin gone,
         conv'.synced = conv.synced, First.who = "job" => Goes \/ RemovesShown, i <= conv.synced
  PROVE  /\ store'[i] # Absent
         /\ (Says(i, conv.synced, store[i].body) \/ Coming(i, conv.synced) \/ BeingEdited(i))'
<1>0. [Next]_vars
  BY DEF Next
<1>1. /\ TextsOK /\ OldIsLatest /\ log' = log /\ gone' = gone /\ RequestOK(First) /\ First \in Asked
      /\ edit \in [at : {"idle", "local", "sending", "accepted", "rollback"}, seq : 0..MaxSeq,
                   body : Bodies \cup {"none"}, old : Texts]
  BY <1>0, Outcomes, Turns, WordsBefore DEF IInv, Typed, EditingTyped
<1>2. /\ store \in [Positions -> Texts] /\ DOMAIN log \subseteq Positions /\ i \in Positions
      /\ \A t \in Texts : t.body \in Words => t # Absent
  <2>1. WireTyped
    BY DEF IInv, Typed
  <2>2. MaxSeq \in Nat /\ MaxSeq >= 1
    BY <2>1, Bounds
  <2> QED BY <2>1, <2>2, Bounds, Nothings DEF IInv, Typed, StoreTyped
<1>3. store[i] # Absent /\ (Says(i, conv.synced, store[i].body) \/ Coming(i, conv.synced) \/ BeingEdited(i))
  BY <1>1 DEF TextsOK
<1>4. ~Puts
  <2>1. First = requests[1] /\ 1 \in DOMAIN requests
    BY Turns
  <2> QED BY <2>1, PutIs DEF Puts, Goes, RemovesShown, Removes
<1>5. \/ store'[i] = store[i] /\ (GivesUp => First.seq # i)
      \/ Rewrites /\ First.seq = i /\ store'[i] = First.text /\ First.text.body \in Words /\ First.text \in Texts
  <2>1. GivesUp => First.seq # i
    BY <1>3 DEF GivesUp
  <2> QED BY <1>2, <1>4, <2>1, Written
<1>6. store'[i] # Absent
  BY <1>2, <1>3, <1>5
<1> SUFFICES ASSUME NEW b, b = store'[i].body
             PROVE  Says(i, conv.synced, b) \/ Coming(i, conv.synced) \/ BeingEdited(i)'
  <2>1. PICK b, p : b = store'[i].body /\ p = conv'.synced
    OBVIOUS
  <2>2. Says(i, p, b) \/ Coming(i, p) \/ BeingEdited(i)'
    BY <2>1
  <2>3. Says(i, p, b)' \/ Coming(i, p)' \/ BeingEdited(i)'
    BY <1>1, <2>2 DEF Says, Coming, IsEdit
  <2> QED BY <1>6, <2>1, <2>3, TextPlace
<1>7. ASSUME store'[i] = store[i], edit' = edit \/ ~BeingEdited(i)
      PROVE  Says(i, conv.synced, b) \/ Coming(i, conv.synced) \/ BeingEdited(i)'
  BY <1>3, <1>7 DEF BeingEdited
<1>8. edit' # edit =>
      /\ First.who \in {"edit", "rollback"} /\ First.op \in {"get", "rewrite"} /\ First.seq = edit.seq
      /\ First.who = "edit" => edit' = [edit EXCEPT !.at = "sending"]
      /\ First.who = "rollback" => edit' = NoEdit /\ edit.at = "rollback" /\ First.text = edit.old
  BY <1>1, Turns DEF RequestOK
<1>9. CASE store'[i] = store[i] /\ (GivesUp => First.seq # i)
  <2>1. CASE edit' = edit \/ ~BeingEdited(i)
    BY <1>7, <1>9, <2>1
  <2>2. CASE edit' # edit /\ BeingEdited(i)
    <3>1. First.seq = i /\ First.op \in {"get", "rewrite"} /\ ~GivesUp
      BY <1>8, <1>9, <2>2 DEF BeingEdited
    <3>2. Goes \/ Rewrites
      BY <1>4, <3>1, Outcomes DEF RemovesShown, RemovesOther, Removes, Previews, Loads
    <3>3. Rewrites
      BY <2>2, <3>2 DEF Goes
    <3>4. store'[i] = First.text
      BY <1>2, <3>1, <3>3 DEF Rewrites, SetMessageBody
    <3>5. CASE First.who = "edit"
      <4>1. edit'.seq = edit.seq /\ edit'.at = "sending"
        BY <1>1, <1>8, <2>2, <3>5
      <4> QED BY <2>2, <4>1 DEF BeingEdited
    <3>6. CASE First.who = "rollback"
      BY <1>1, <1>8, <2>2, <3>4, <3>6 DEF OldIsLatest, BeingEdited
    <3> QED BY <1>8, <2>2, <3>5, <3>6
  <2> QED BY <2>1, <2>2
<1>10. CASE Rewrites /\ First.seq = i /\ store'[i] = First.text
  <2>1. First.op = "rewrite" /\ First.who \in {"edit", "rollback"}
    BY <1>1, <1>10 DEF Rewrites, RequestOK, Asked, Goes, RemovesShown, Removes
  <2>2. CASE First.who = "edit"
    <3>1. edit' = [edit EXCEPT !.at = "sending"] /\ edit.seq = i
      BY <1>1, <1>10, <2>1, <2>2, Turns DEF RequestOK, Goes, RemovesShown, Removes
    <3>2. edit'.seq = i /\ edit'.at = "sending"
      BY <1>1, <3>1
    <3> QED BY <3>2 DEF BeingEdited
  <2>3. CASE First.who = "rollback"
    <3>1. edit.at = "rollback" /\ edit.seq = i /\ First.text = edit.old
      BY <1>1, <1>10, <2>3 DEF RequestOK
    <3> QED BY <1>1, <1>10, <3>1 DEF OldIsLatest
  <2> QED BY <2>1, <2>2, <2>3
<1> QED BY <1>5, <1>9, <1>10

\* Every message applied says what the entries do, but for edits on their way.
LEMMA TextsOKStep ==
  ASSUME IInv, [Next]_vars, Calm', ~undone'
  PROVE  TextsOK'
<1>1. /\ \A i \in DOMAIN log : i \in DOMAIN log' /\ (IsMessage(i)' <=> IsMessage(i)) /\ i \in Nat
      /\ gone \subseteq gone' /\ DOMAIN log = 1..Len(log) /\ Len(log) \in Nat
      /\ DOMAIN log' = 1..Len(log') /\ Len(log') \in Nat /\ conv.synced \in Nat /\ conv.synced <= Len(log)
  <2>1. WireTyped /\ WireTyped' /\ conv \in Record /\ MaxSeq \in Nat
    BY LogGrows, Bounds DEF IInv, Typed, WorkTyped
  <2>2. DOMAIN log = 1..Len(log) /\ Len(log) \in Nat /\ DOMAIN log' = 1..Len(log') /\ Len(log') \in Nat
    BY <2>1 DEF WireTyped
  <2> QED BY <2>1, <2>2, LogGrows DEF IsMessage, IInv, RecordOK, Record
<1> SUFFICES ASSUME NEW i \in DOMAIN log', IsMessage(i)', i \notin gone', i <= conv'.synced
             PROVE  /\ store'[i] # Absent
                    /\ (Says(i, conv.synced, store[i].body) \/ Coming(i, conv.synced) \/ BeingEdited(i))'
  BY DEF TextsOK
<1>2. CASE ~Database
  <2>1. i \in DOMAIN log /\ i <= conv.synced
    BY <1>1, <1>2, Otherwise
  <2> QED BY <1>1, <1>2, <2>1, TextsOutside
<1>3. CASE Database
  <2>1. i \in DOMAIN log /\ IsMessage(i) /\ i \notin gone
    BY <1>3, Outcomes DEF IsMessage
  <2>2. CASE job # 0 /\ job' = 0 /\ First.who = "job" /\ conv'.synced = job
    BY <1>3, <2>1, <2>2, TextsDone
  <2>3. CASE conv'.synced = conv.synced /\ (First.who = "job" => Goes \/ RemovesShown)
    BY <1>3, <2>1, <2>3, TextsWhile
  <2> QED BY <1>3, <2>2, <2>3, CalmTurns
<1> QED BY <1>2, <1>3

\* The latest text is what the entries up to any position say, unless an edit comes.
LEMMA LatestSays ==
  ASSUME IInv, NEW i \in DOMAIN log, NEW p \in Nat
  PROVE  /\ Says(i, p, LatestBody(i)) \/ Coming(i, p)
         /\ p \in DOMAIN log /\ IsEdit(p, i) => log[p].body = LatestBody(i) \/ Coming(i, p)
<1>1. DOMAIN log = 1..Len(log) /\ Len(log) \in Nat
  BY Bounds DEF IInv, Typed
<1> DEFINE edits == {k \in DOMAIN log : log[k].k = "edit" /\ log[k].ref = i}
<1>2. \A k \in DOMAIN log : k \in edits <=> IsEdit(k, i)
  BY DEF IsEdit
<1>3. CASE edits = {}
  <2>1. LatestBody(i) = log[i].body
    BY <1>3 DEF LatestBody
  <2> QED BY <1>2, <1>3, <2>1 DEF Says
<1>4. CASE edits # {}
  <2>1. edits \in SUBSET (0..Len(log))
    BY <1>1
  <2>2. PICK k \in edits : \A j \in edits : j <= k
    <3> HIDE DEF edits
    <3> QED BY <1>1, <1>4, <2>1, Greatest
  <2>3. \A m \in edits : (\A j \in edits : j <= m) => m = k
    BY <1>1, <2>2
  <2>4. LatestBody(i) = log[k].body
    BY <1>4, <2>2, <2>3 DEF LatestBody
  <2>5. k \in DOMAIN log /\ IsEdit(k, i) /\ \A m \in DOMAIN log : IsEdit(m, i) => m <= k
    BY <1>2, <2>2
  <2>6. CASE k > p
    BY <2>5, <2>6 DEF Coming
  <2>7. CASE k <= p
    <3>1. Says(i, p, LatestBody(i))
      BY <1>1, <2>4, <2>5, <2>7 DEF Says
    <3>2. p \in DOMAIN log /\ IsEdit(p, i) => p = k
      BY <1>1, <2>5, <2>7
    <3> QED BY <2>4, <3>1, <3>2
  <2> QED BY <1>1, <2>5, <2>6, <2>7
<1> QED BY <1>3, <1>4

\* The text that is put back is that of the entries applied.
LEMMA OldIsLatestStep ==
  ASSUME IInv, [Next]_vars, Calm', ~undone'
  PROVE  OldIsLatest'
<1>1. /\ DOMAIN log = 1..Len(log) /\ Len(log) \in Nat /\ conv.synced \in Nat /\ conv.synced <= Len(log)
      /\ edit \in [at : {"idle", "local", "sending", "accepted", "rollback"}, seq : 0..MaxSeq,
                   body : Bodies \cup {"none"}, old : Texts]
      /\ requests \in Seq(Asked) /\ gone \subseteq gone'
      /\ OldIsLatest /\ TextsOK /\ BackFirst /\ JobIsNext /\ ~undone
      /\ edit.at # "idle" => edit.seq \in DOMAIN log /\ log[edit.seq].k = "text"
  <2>1. WireTyped /\ conv \in Record /\ MaxSeq \in Nat
    BY Bounds DEF IInv, Typed, WorkTyped
  <2> QED BY <2>1, Bounds, LogGrows, WordsBefore, CalmBefore
          DEF IInv, Typed, WorkTyped, EditingTyped, RecordOK, Record, EditorOK
<1> SUFFICES ASSUME edit'.at = "rollback", edit'.seq \notin gone'
             PROVE  (Says(edit.seq, conv.synced, edit.old.body) \/ Coming(edit.seq, conv.synced))'
  BY DEF OldIsLatest
<1>2. PICK i, p, b : i = edit'.seq /\ p = conv'.synced /\ b = edit'.old.body
  OBVIOUS
<1> SUFFICES Says(i, p, b)' \/ Coming(i, p)'
  BY <1>2, OldPlace
<1>3. CASE ~Database /\ edit' = edit
  <2>1. i \in DOMAIN log /\ p = conv.synced /\ p \in Nat /\ p <= Len(log) /\ i = edit.seq /\ b = edit.old.body
    BY <1>1, <1>2, <1>3, Otherwise
  <2>2. Says(i, p, b) \/ Coming(i, p)
    BY <1>1, <1>3, <2>1 DEF OldIsLatest
  <2> QED BY <2>1, <2>2, SaysGrows
<1>4. CASE EditFails /\ ~Database
  <2>1. /\ edit.at \in {"sending", "accepted"} /\ edit' = [edit EXCEPT !.at = "rollback"]
        /\ undone' = (undone \/ edit.at = "accepted" \/ LatestBody(edit.seq) # edit.old.body)
        /\ log' = log
    BY <1>4, BackIs DEF wire
  <2>2. i = edit.seq /\ b = edit.old.body
    BY <1>1, <1>2, <2>1
  <2>3. LatestBody(i) = b /\ i \in DOMAIN log
    BY <1>1, <2>1, <2>2
  <2>4. p \in Nat
    BY <1>1, <1>2, <1>4, Otherwise
  <2>5. Says(i, p, b) \/ Coming(i, p)
    BY <2>3, <2>4, LatestSays
  <2> QED BY <2>1, <2>5 DEF Says, Coming, IsEdit
<1>5. CASE Database
  <2>1. /\ edit' = edit /\ log' = log /\ RequestOK(First) /\ First = requests[1] /\ 1 \in DOMAIN requests
        /\ requests' = Served \/ Goes \/ RemovesShown
    <3>1. edit'.at # "sending" /\ edit' # NoEdit
      BY DEF NoEdit
    <3>2. [edit EXCEPT !.at = "sending"].at = "sending"
      BY <1>1
    <3> QED BY <1>5, <3>1, <3>2, Turns, Outcomes
  <2>2. i = edit.seq /\ b = edit.old.body /\ edit.at = "rollback" /\ i \in DOMAIN log /\ log[i].k = "text" /\ i \notin gone
    BY <1>1, <1>2, <2>1
  <2>3. Says(i, conv.synced, b) \/ Coming(i, conv.synced)
    BY <1>1, <2>2 DEF OldIsLatest
  <2> SUFFICES Says(i, p, b) \/ Coming(i, p)
    BY <2>1 DEF Says, Coming, IsEdit
  <2>4. CASE conv'.synced = conv.synced
    BY <1>2, <2>3, <2>4
  <2>5. CASE job # 0 /\ job' = 0 /\ First.who = "job" /\ conv'.synced = job
    <3>1. CASE ~IsEdit(job, i)
      BY <1>1, <1>2, <2>2, <2>3, <2>5, <3>1, Advances
    <3>2. CASE IsEdit(job, i)
      <4>1. PICK q \in DOMAIN requests : requests[q].who = "rollback"
        BY <2>2 DEF IInv, EditWaits
      <4>2. q \in Nat /\ ~(q < 1)
        BY <1>1, <4>1
      <4>3. \/ log[job].body = b \/ Coming(i, job)
            \/ First.op = "find"
        BY <1>1, <2>1, <2>2, <2>5, <3>2, <4>1, <4>2 DEF BackFirst
      <4>4. Says(i, job, log[job].body) /\ job \in DOMAIN log
        BY <1>1, <2>2, <2>5, <3>2, Advances
      <4>5. First.op # "find"
        <5> SUFFICES ASSUME First.op = "find" PROVE FALSE
          OBVIOUS
        <5>1. ~Goes
          BY <2>5 DEF Goes
        <5>2. GivesUp
          BY <1>5, <5>1, Outcomes DEF Puts, Rewrites, RemovesShown, RemovesOther, Removes, Previews, Loads
        <5>3. First.seq = i
          BY <2>1, <2>5, <3>2 DEF RequestOK, JobAsks, IsEdit
        <5>4. store[i] = Absent
          BY <2>2, <5>2, <5>3 DEF GivesUp, IsMessage
        <5>5. i < job
          <6>1. EntryOK(job) /\ log[job].k = "edit" /\ log[job].ref = i
            BY <3>2, <4>4 DEF IInv, Stored, LogOK, IsEdit
          <6> QED BY <1>1, <4>4, <6>1 DEF EntryOK
        <5>6. i <= conv.synced
          BY <1>1, <2>2, <2>5, <5>5, Advances
        <5> QED BY <1>1, <2>2, <5>4, <5>6 DEF TextsOK, IsMessage
      <4> QED BY <1>2, <2>5, <4>3, <4>4, <4>5
    <3> QED BY <3>1, <3>2
  <2> QED BY <1>5, <2>4, <2>5, CalmTurns
<1>6. ~Database => edit' = edit \/ EditFails
  <2>1. [edit EXCEPT !.at = "accepted"].at = "accepted"
    BY <1>1
  <2>2. NoEdit.at = "idle"
    BY DEF NoEdit
  <2> SUFFICES ASSUME ~Database PROVE edit' = edit \/ EditFails
    OBVIOUS
  <2>3. edit' # NoEdit /\ edit' # [edit EXCEPT !.at = "accepted"] /\ edit'.at # "local"
    BY <2>1, <2>2
  <2> QED BY <2>3, EditChanges
<1> QED BY <1>3, <1>4, <1>5, <1>6

\* How an edit in hand and the putting back wait: in this order unless it is all one.
InOrder(i, j, b, back, apply, p, q) ==
    \/ log[j].body = b
    \/ Coming(i, j)
    \/ back = "get" /\ apply = "find" /\ p < q
    \/ back = "rewrite" /\ (apply = "find" \/ p < q)

LEMMA BackPlace ==
  ASSUME NEW i, NEW j, NEW b, i = edit'.seq, j = job', b = edit'.old.body,
         \A p, q \in DOMAIN requests' :
             requests'[p].who = "rollback" /\ requests'[q].who = "job" /\ IsEdit(j, i)'
             => InOrder(i, j, b, requests[p].op, requests[q].op, p, q)'
  PROVE  BackFirst'
  BY DEF BackFirst, InOrder, Coming, IsEdit

\* An edit that came meanwhile is applied after the text was put back.
LEMMA BackFirstStep ==
  ASSUME IInv, [Next]_vars, Calm', ~undone'
  PROVE  BackFirst'
<1>1. /\ DOMAIN log = 1..Len(log) /\ Len(log) \in Nat /\ requests \in Seq(Asked)
      /\ edit \in [at : {"idle", "local", "sending", "accepted", "rollback"}, seq : 0..MaxSeq,
                   body : Bodies \cup {"none"}, old : Texts]
      /\ \A k \in DOMAIN log : k \in DOMAIN log' /\ log'[k] = log[k]
      /\ BackFirst /\ ~undone /\ OneEach /\ NoJobNone
      /\ edit.at # "idle" => edit.seq \in DOMAIN log
      /\ job # 0 => job \in DOMAIN log /\ job \in Nat /\ job <= Len(log)
  <2>1. WireTyped
    BY DEF IInv, Typed
  <2>2. job # 0 => job \in DOMAIN log
    BY DEF IInv, Typed, WorkTyped
  <2> QED BY <2>1, <2>2, Bounds, LogGrows, WordsBefore
          DEF IInv, Typed, WorkTyped, EditingTyped, EditorOK, Waiting
<1>2. \A p \in DOMAIN requests : /\ requests[p].who = "job" => job # 0
                                 /\ requests[p].who = "rollback" => edit.at = "rollback" /\ requests[p].op \in {"get", "rewrite"}
                                 /\ p \in Nat /\ 1 <= p /\ p <= Len(requests)
  BY <1>1, RequestIs DEF RequestOK, NoJobNone
<1> SUFFICES ASSUME edit'.at = "rollback" PROVE BackFirst'
  BY DEF BackFirst
<1>3. PICK i, j, b : i = edit'.seq /\ j = job' /\ b = edit'.old.body
  OBVIOUS
<1> SUFFICES ASSUME NEW p \in DOMAIN requests', NEW q \in DOMAIN requests',
                    requests'[p].who = "rollback", requests'[q].who = "job", IsEdit(j, i)'
             PROVE  InOrder(i, j, b, requests[p].op, requests[q].op, p, q)'
  BY <1>3, BackPlace
<1>9. PICK back, apply : back = requests'[p].op /\ apply = requests'[q].op
  OBVIOUS
<1> SUFFICES InOrder(i, j, b, back, apply, p, q)'
  BY <1>9 DEF InOrder
<1>4. ASSUME edit' = edit, job' = job, NEW m \in DOMAIN requests, NEW n \in DOMAIN requests,
             requests[m].who = "rollback", requests[n].who = "job"
      PROVE  /\ i = edit.seq /\ j = job /\ b = edit.old.body /\ j \in DOMAIN log /\ i \in DOMAIN log
             /\ InOrder(i, j, b, requests[m].op, requests[n].op, m, n)
             /\ log[j].body = b => log'[j].body = b
             /\ Coming(i, j) => Coming(i, j)'
  <2>1. i = edit.seq /\ j = job /\ b = edit.old.body /\ j \in DOMAIN log /\ j \in Nat /\ j <= Len(log) /\ i \in DOMAIN log
        /\ edit.at = "rollback"
    BY <1>1, <1>2, <1>3, <1>4
  <2>2. log'[j] = log[j]
    BY <1>1, <2>1
  <2>3. IsEdit(j, i)
    BY <2>2 DEF IsEdit
  <2>4. InOrder(i, j, b, requests[m].op, requests[n].op, m, n)
    BY <1>1, <1>4, <2>1, <2>3 DEF BackFirst, InOrder
  <2>5. Coming(i, j) => Coming(i, j)'
    BY <2>1, SaysGrows
  <2> QED BY <2>1, <2>2, <2>4, <2>5
<1>5. CASE Database
  <2>1. \/ edit' = edit /\ First.who # "rollback"
        \/ edit' = edit /\ job' = job /\ (Goes \/ RemovesShown)
    <3>1. edit'.at # "sending" /\ edit' # NoEdit /\ [edit EXCEPT !.at = "sending"].at = "sending"
      BY <1>1 DEF NoEdit
    <3> QED BY <1>5, <3>1, Turns
  <2>2. /\ requests # <<>> /\ First = requests[1] /\ 1 \in DOMAIN requests /\ RequestOK(First) /\ First \in Asked
        /\ log' = log /\ Len(requests) \in Nat
    BY <1>1, <1>5, Turns, Outcomes
  <2>3. ASSUME p + 1 \in DOMAIN requests, requests'[p] = requests[p + 1], p \in Nat,
               q + 1 \in DOMAIN requests, requests'[q] = requests[q + 1], q \in Nat, edit' = edit, job' = job
        PROVE  InOrder(i, j, b, back, apply, p, q)'
    <3>1. InOrder(i, j, b, requests[p + 1].op, requests[q + 1].op, p + 1, q + 1)
      BY <1>4, <2>3
    <3> QED BY <1>4, <1>9, <2>2, <2>3, <3>1 DEF InOrder
  <2>4. CASE requests' = Served
    <3>1. p + 1 \in DOMAIN requests /\ requests'[p] = requests[p + 1] /\ p \in Nat /\ p >= 1
          /\ q + 1 \in DOMAIN requests /\ requests'[q] = requests[q + 1] /\ q \in Nat /\ q >= 1
      <4>1. Served \in Seq(Asked) /\ \A k \in DOMAIN Served : k + 1 \in DOMAIN requests /\ Served[k] = requests[k + 1]
        BY <2>2, FirstIs
      <4>2. \A k \in DOMAIN Served : k \in Nat /\ k >= 1
        <5> HIDE DEF Served
        <5> QED BY <4>1
      <4> QED BY <2>4, <4>1, <4>2
    <3>2. First.who # "job"
      BY <1>1, <2>2, <3>1 DEF OneEach
    <3>3. edit' = edit /\ job' = job
      BY <1>5, <2>1, <3>2, Turns
    <3> QED BY <2>3, <3>1, <3>3
  <2>5. CASE \E r \in Asked : /\ requests' = Append(Served, r) /\ r.who = First.who
                              /\ Goes => r.op = (IF First.op = "find" THEN "get" ELSE "rewrite")
                              /\ (Goes \/ RemovesShown) /\ job' = job /\ edit' = edit
    <3>1. PICK r \in Asked : /\ requests' = Append(Served, r) /\ r.who = First.who
                             /\ Goes => r.op = (IF First.op = "find" THEN "get" ELSE "rewrite")
                             /\ (Goes \/ RemovesShown) /\ job' = job /\ edit' = edit
      BY <2>5
    <3>2. /\ requests' \in Seq(Asked)
          /\ \A k \in DOMAIN requests' :
               \/ k + 1 \in DOMAIN requests /\ requests'[k] = requests[k + 1]
               \/ k = Len(requests) /\ requests'[k] = r
      BY <2>2, <3>1, QueueServed
    <3>3. p \in Nat /\ p >= 1 /\ q \in Nat /\ q >= 1
      BY <3>2
    <3>4. CASE requests'[p] = r
      <4>1. First.who = "rollback" /\ First.op = "get" /\ Goes
        BY <2>2, <3>1, <3>4 DEF RequestOK, RemovesShown, Removes, Goes
      <4>2. r.op = "rewrite" /\ q + 1 \in DOMAIN requests /\ requests'[q] = requests[q + 1]
        BY <3>1, <3>2, <3>4, <4>1
      <4>3. InOrder(i, j, b, First.op, requests[q + 1].op, 1, q + 1)
        BY <1>4, <2>2, <3>1, <4>1, <4>2
      <4> QED BY <1>4, <1>9, <2>2, <3>1, <3>4, <4>1, <4>2, <4>3 DEF InOrder
    <3>5. CASE requests'[q] = r /\ p + 1 \in DOMAIN requests /\ requests'[p] = requests[p + 1] /\ q = Len(requests)
      <4>1. First.who = "job" /\ requests[p + 1].who = "rollback"
        BY <3>1, <3>5
      <4>2. InOrder(i, j, b, requests[p + 1].op, First.op, p + 1, 1)
        BY <1>4, <2>2, <3>1, <3>5, <4>1
      <4>3. p < q
        BY <1>2, <3>3, <3>5
      <4> QED BY <1>4, <1>9, <2>2, <3>1, <3>3, <3>5, <4>1, <4>2, <4>3 DEF InOrder
    <3>6. CASE p + 1 \in DOMAIN requests /\ requests'[p] = requests[p + 1]
               /\ q + 1 \in DOMAIN requests /\ requests'[q] = requests[q + 1]
      BY <2>3, <3>1, <3>3, <3>6
    <3> QED BY <3>2, <3>4, <3>5, <3>6
  <2> QED BY <1>5, <2>4, <2>5, Turns
<1>6. CASE HandleIncoming /\ ~Database
  <2>1. PICK r \in Asked : /\ Ask(r) /\ r.who = "job" /\ (log[job'].k = "edit" => r.op = "find")
    BY <1>6, BeginIs
  <2>2. job = 0 /\ job' \in DOMAIN log /\ log' = log
    BY <1>6, BeginIs DEF wire
  <2>3. p \in DOMAIN requests /\ requests'[p] = requests[p]
    BY <2>1, QueueAsked
  <2>4. q = Len(requests) + 1 /\ requests'[q] = r
    BY <1>2, <2>1, <2>2, QueueAsked
  <2>5. r.op = "find"
    BY <1>3, <2>1, <2>2 DEF IsEdit
  <2>6. p < q /\ requests[p].op \in {"get", "rewrite"}
    BY <1>1, <1>2, <2>3, <2>4
  <2> QED BY <1>9, <2>3, <2>4, <2>5, <2>6 DEF InOrder
<1>7. CASE EditFails /\ ~Database
  <2>1. PICK r \in Asked :
         /\ edit.at \in {"sending", "accepted"} /\ edit' = [edit EXCEPT !.at = "rollback"] /\ Ask(r) /\ r.who = "rollback"
         /\ undone' = (undone \/ edit.at = "accepted" \/ LatestBody(edit.seq) # edit.old.body)
         /\ log' = log /\ job' = job
    BY <1>7, BackIs DEF wire, local
  <2>2. i = edit.seq /\ b = edit.old.body /\ i \in DOMAIN log
    BY <1>1, <1>3, <2>1
  <2>3. q \in DOMAIN requests /\ requests[q].who = "job"
    BY <2>1, QueueAsked
  <2>4. j \in DOMAIN log /\ j \in Nat /\ IsEdit(j, i)
    BY <1>1, <1>2, <1>3, <2>1, <2>3 DEF IsEdit
  <2>5. log[j].body = b \/ Coming(i, j)
    BY <2>1, <2>2, <2>4, LatestSays
  <2> QED BY <2>1, <2>5 DEF InOrder, Coming, IsEdit
<1>8. CASE ~Database /\ ~HandleIncoming /\ ~EditFails
  <2>1. edit' = edit /\ ~EditText
    <3>1. [edit EXCEPT !.at = "accepted"].at = "accepted" /\ NoEdit.at = "idle"
      BY <1>1 DEF NoEdit
    <3>2. edit' # NoEdit /\ edit' # [edit EXCEPT !.at = "accepted"] /\ edit'.at # "local"
      BY <3>1
    <3>3. EditText => edit'.at = "local"
      <4> SUFFICES ASSUME EditText PROVE edit'.at = "local"
        OBVIOUS
      <4>1. PICK body \in Bodies : edit' = [at |-> "local", seq |-> composer.seq, body |-> body, old |-> composer.was]
        BY EditIs
      <4> QED BY <4>1
    <3> QED BY <1>8, <3>2, <3>3, EditChanges
  <2>2. job' = job
    BY <1>8, Otherwise
  <2>3. requests' = requests \/ \E r \in Asked : Ask(r) /\ r.who \in {"delete", "open"}
    <3>1. CASE DeleteAnswered \/ Open
      BY <3>1, DroppedIs, OpenIs
    <3>2. CASE ~(DeleteAnswered \/ Open)
      BY <1>8, <2>1, <3>2, NobodyAsks
    <3> QED BY <3>1, <3>2
  <2>4. p \in DOMAIN requests /\ requests'[p] = requests[p] /\ q \in DOMAIN requests /\ requests'[q] = requests[q]
    BY <2>3, QueueAsked
  <2>5. InOrder(i, j, b, requests[p].op, requests[q].op, p, q)
    BY <1>4, <2>1, <2>2, <2>4
  <2> QED BY <1>4, <1>9, <2>1, <2>2, <2>4, <2>5 DEF InOrder
<1> QED BY <1>5, <1>6, <1>7, <1>8

(***************************************************************************)
(* The invariant.                                                          *)
(***************************************************************************)
\* Nothing has been asked, sent or stored yet.
LEMMA InitIInv ==
  ASSUME Init
  PROVE  IInv
<1>1. MaxSeq \in Nat /\ scene \in Scenes /\ scene.last \in 1..MaxSeq /\ 0 \in 0..MaxSeq /\ MaxSeq >= 1
  <2>1. scene \in Scenes
    BY DEF Init
  <2> QED BY <2>1, ChatAssumption
<1>2. Typed
  <2>1. WireTyped
    BY <1>1 DEF Init, WireTyped
  <2>2. StoreTyped
    BY <1>1, Nothings DEF Init, StoreTyped
  <2>3. NoPreview \in [seq : 0..MaxSeq, body : Bodies \cup {"file", "none"}]
    BY <1>1 DEF NoPreview
  <2>4. conv \in Record /\ requests \in Seq(Asked) /\ job = 0
    BY <1>1, <2>3 DEF Init, Record
  <2>5. SendingTyped
    BY DEF Init, SendingTyped
  <2>6. EditingTyped
    BY <1>1, Nothings DEF Init, EditingTyped, NoEdit, NoDel, NotEditing
  <2>7. ScreenTyped
    BY DEF Init, ScreenTyped
  <2> QED BY <1>1, <2>1, <2>2, <2>4, <2>5, <2>6, <2>7 DEF Typed, WorkTyped
<1>3. DOMAIN log = {} /\ gone = {} /\ DOMAIN requests = {} /\ job = 0 /\ edit = NoEdit /\ del = NoDel /\ seen = Unseen
      /\ composer = NotEditing /\ list = NotLoaded /\ store = [i \in Positions |-> Absent]
      /\ Len(log) = 0 /\ conv = [synced |-> 0, read |-> 0, last |-> 0, preview |-> NoPreview]
  BY DEF Init
<1>4. Stored
  <2>1. LogOK /\ BubblesOnce /\ BubblesEcho /\ StoredOK
    BY <1>3 DEF LogOK, BubblesOnce, BubblesEcho, StoredOK
  <2>2. BubblesWait
    BY ChatAssumption DEF Init, BubblesWait
  <2> QED BY <2>1, <2>2 DEF Stored
<1>5. Waiting
  BY <1>3 DEF Waiting, RequestsOK, OneEach, JobWaits, NoJobNone
<1>6. edit.at = "idle" /\ EditWaits /\ EditorOK /\ RecordOK
  BY <1>3 DEF NoEdit, NoDel, EditWaits, EditorOK, RecordOK
<1>7. PreviewOK
  <2>1. \A k \in Positions : Without(store, {})[k] = Absent
    BY <1>3, WithoutIs
  <2>2. LatestOf(Without(store, {})) = NoPreview
    BY <1>1, <2>1, LatestExists
  <2>3. conv.preview = NoPreview
    BY <1>3
  <2> QED BY <2>2, <2>3 DEF PreviewOK
<1>8. InStep
  BY <1>3 DEF InStep, JobIsNext, StoredReached, FoundReached, ShownSame, ReadOK
<1>9. InWords
  BY <1>3, <1>6 DEF InWords, TextsOK, OldIsLatest, BackFirst
<1> QED BY <1>2, <1>4, <1>5, <1>6, <1>7, <1>8, <1>9 DEF IInv

\* Every step keeps it.
LEMMA IInvStep ==
  ASSUME IInv, [Next]_vars
  PROVE  IInv'
<1>1. Typed' /\ EditWaits' /\ EditorOK' /\ RecordOK' /\ PreviewOK'
  BY TypedStep, EditWaitsStep, EditorOKStep, RecordOKStep, PreviewOKStep
<1>2. Stored'
  BY LogOKStep, BubblesOnceStep, BubblesEchoStep, BubblesWaitStep, StoredOKStep DEF Stored
<1>3. Waiting'
  BY WaitingStep
<1>4. InStep'
  BY JobIsNextStep, StoredReachedStep, ShownSameStep, ReadOKStep DEF InStep
<1>5. InWords'
  BY TextsOKStep, OldIsLatestStep, BackFirstStep DEF InWords
<1> QED BY <1>1, <1>2, <1>3, <1>4, <1>5 DEF IInv

\* What one device stores, shows and asks its database for stays consistent: this is
\* the invariant every claim below is read off.
THEOREM Invariant == Spec => []IInv
  BY InitIInv, IInvStep, PTL DEF Spec

(***************************************************************************)
(* What it implies.                                                        *)
(***************************************************************************)
\* A message sent from here is shown once: as a bubble, or as a message.
LEMMA ShownOnce ==
  ASSUME IInv
  PROVE  OneBubble
<1> SUFFICES ASSUME list # NotLoaded, NEW b \in Bubbles
             PROVE  LET there == {i \in Shown : log[i].bubble = b} IN
                    /\ Cardinality(there) + (IF pending[b] = "none" THEN 0 ELSE 1) <= 1
                    /\ \A i \in Kept : log[i].bubble = b /\ sent[b] # "dismissed" => pending[b] # "none" \/ i \in there
  BY DEF OneBubble
<1> DEFINE there == {i \in Shown : log[i].bubble = b}
<1>1. b # "none" /\ WireTyped /\ DOMAIN log \subseteq Positions
  BY ChatAssumption, Bounds DEF IInv, Typed
<1>2. \A i \in Shown : i \in DOMAIN log /\ store[i] # Absent
  BY DEF Shown, IInv, Stored, StoredOK
<1>3. \A i \in there : pending[b] = "none" /\ \A j \in there : j = i
  BY <1>1, <1>2 DEF IInv, Stored, BubblesOnce, BubblesEcho
<1>4. Cardinality(there) + (IF pending[b] = "none" THEN 0 ELSE 1) <= 1
  <2>1. CASE there = {}
    <3>1. Cardinality(there) = 0
      BY <2>1, FS_EmptySet
    <3> QED BY <3>1
  <2>2. CASE there # {}
    <3>1. PICK i \in there : there = {i}
      BY <1>3, <2>2
    <3>2. Cardinality(there) = 1
      BY <3>1, FS_Singleton
    <3> QED BY <1>3, <3>1, <3>2
  <2> QED BY <2>1, <2>2
<1>5. ASSUME NEW i \in Kept, log[i].bubble = b, sent[b] # "dismissed", pending[b] = "none" PROVE i \in there
  <2>1. i \in DOMAIN log /\ i \notin gone /\ i \in Positions
    BY <1>1 DEF Kept
  <2>2. store[i] # Absent
    BY <1>1, <1>5, <2>1 DEF IInv, Stored, BubblesEcho
  <2>3. list[i] # Absent
    BY <2>1, <2>2 DEF IInv, Stored, StoredOK
  <2> QED BY <1>5, <2>1, <2>3 DEF Shown
<1> HIDE DEF there
<1> QED BY <1>4, <1>5 DEF there

\* Every variable has its type, and whoever waits has one request.
LEMMA WellFormed ==
  ASSUME IInv
  PROVE  TypeOK
<1>1. /\ WireTyped /\ StoreTyped /\ WorkTyped /\ SendingTyped /\ EditingTyped /\ ScreenTyped
      /\ MaxSeq \in Nat /\ Len(log) \in 0..MaxSeq /\ DOMAIN log = 1..Len(log)
  BY Bounds DEF IInv, Typed
<1>2. ASSUME NEW i \in DOMAIN log
      PROVE  log[i] \in [k : {"text", "file", "edit", "delete"}, by : {"me", "them"}, body : Bodies \cup {"file", "none"},
                         ref : 0..(i - 1), bubble : Bubbles \cup {"none"}]
  <2>1. log[i] \in Entries /\ EntryOK(i) /\ i \in Nat /\ i >= 1
    BY <1>1, EntryTyped DEF IInv, Stored, LogOK
  <2>2. log[i].ref \in 0..(i - 1)
    BY <2>1 DEF EntryOK, Entries, IsMessage
  <2> QED BY <2>1, <2>2 DEF Entries, Words
<1>3. ASSUME NEW i \in DOMAIN requests
      PROVE  /\ requests[i] \in [op : {"put", "find", "get", "rewrite", "delete", "latest", "load"},
                                 who : {"job", "edit", "rollback", "delete", "open"},
                                 seq : Positions, text : Texts, copy : Record]
             /\ \A k \in DOMAIN requests : requests[i].who = requests[k].who /\ requests[i].who # "open" => i = k
  BY RequestIs DEF Asked, IInv, Waiting, OneEach
<1>4. (job # 0) = (\E i \in DOMAIN requests : requests[i].who = "job")
  BY DEF IInv, Waiting, JobWaits, NoJobNone
<1>5. /\ store \in [Positions -> Texts] /\ list \in [Positions -> Texts] \cup {NotLoaded}
      /\ conv \in Record /\ job \in 0..MaxSeq /\ gone \subseteq DOMAIN log /\ scene \in Scenes /\ Len(log) <= MaxSeq
      /\ open \in BOOLEAN /\ missed \in BOOLEAN /\ undone \in BOOLEAN /\ rewound \in BOOLEAN
  BY <1>1 DEF WireTyped, StoreTyped, WorkTyped, ScreenTyped
<1>6. /\ pending \in [Bubbles -> {"none", "uploading", "sending", "failed"}]
      /\ sent \in [Bubbles -> Bodies \cup {"no", "upload", "file", "accepted", "over", "dismissed"}]
      /\ edit \in [at : {"idle", "local", "sending", "accepted", "rollback"}, seq : 0..MaxSeq,
                   body : Bodies \cup {"none"}, old : Texts]
      /\ del \in [at : {"idle", "sent", "local"}, seq : 0..MaxSeq]
      /\ composer \in [seq : 0..MaxSeq, was : Texts]
  BY <1>1 DEF SendingTyped, EditingTyped
<1> QED BY <1>2, <1>3, <1>4, <1>5, <1>6 DEF TypeOK

\* The state is well formed, and a message sent from here is on the screen once at
\* every moment until it is deleted, whatever comes late (applyStored).
THEOREM ChatConsistent == Spec => []Consistent
<1>1. IInv => Consistent
  BY ShownOnce, WellFormed DEF Consistent
<1> QED BY <1>1, Invariant, PTL

\* Once everything has been applied the position is the last.
LEMMA SettledIs ==
  ASSUME IInv, Settled
  PROVE  /\ conv.synced = Len(log) /\ conv.last = Len(log) /\ Front = Len(log) /\ Len(log) \in Nat
         /\ DOMAIN log = 1..Len(log) /\ DOMAIN requests = {} /\ edit.at = "idle"
<1>1. /\ DOMAIN log = 1..Len(log) /\ Len(log) \in Nat /\ conv.synced \in Nat /\ conv.synced <= Len(log) /\ conv.last = conv.synced
  <2>1. WireTyped /\ conv \in Record /\ MaxSeq \in Nat
    BY Bounds DEF IInv, Typed, WorkTyped
  <2> QED BY <2>1, Bounds DEF IInv, RecordOK, Record
<1>2. conv.synced = Len(log)
  <2> SUFFICES ASSUME conv.synced + 1 \in DOMAIN log PROVE FALSE
    BY <1>1
  <2>1. IsNext(conv.synced + 1)
    BY <1>1 DEF IsNext
  <2> QED BY <2>1 DEF Settled
<1>3. job = 0 /\ DOMAIN requests = {} /\ edit.at = "idle"
  BY DEF Settled, NoEdit
<1> QED BY <1>1, <1>2, <1>3 DEF Front

\* Entries say one thing of a text.
LEMMA SaysOne ==
  ASSUME DOMAIN log = 1..Len(log), Len(log) \in Nat, NEW i, NEW p \in Nat, NEW b, NEW c, Says(i, p, b), Says(i, p, c)
  PROVE  b = c
<1>1. CASE b = log[i].body /\ \A k \in DOMAIN log : k <= p => ~IsEdit(k, i)
  BY <1>1 DEF Says
<1>2. CASE \E k \in DOMAIN log : /\ k <= p /\ IsEdit(k, i) /\ b = log[k].body
                                 /\ \A m \in DOMAIN log : k < m /\ m <= p => ~IsEdit(m, i)
  <2>1. PICK k \in DOMAIN log : /\ k <= p /\ IsEdit(k, i) /\ b = log[k].body
                                /\ \A m \in DOMAIN log : k < m /\ m <= p => ~IsEdit(m, i)
    BY <1>2
  <2>2. PICK n \in DOMAIN log : /\ n <= p /\ IsEdit(n, i) /\ c = log[n].body
                                /\ \A m \in DOMAIN log : n < m /\ m <= p => ~IsEdit(m, i)
    BY <2>1 DEF Says
  <2>3. ~(k < n) /\ ~(n < k) /\ k \in Nat /\ n \in Nat
    BY <2>1, <2>2
  <2>4. k = n
    BY <2>3
  <2> QED BY <2>1, <2>2, <2>4
<1> QED BY <1>1, <1>2 DEF Says

\* Every message ends up with the text of its last edit on the server, unless an edit
\* was taken back that others may see or an old copy of the record was written back
\* (editText, applyEdit, setMessageBody); frames do not come after a page here.
THEOREM ChatTextsAgree == ASSUME ~LateFrames PROVE Spec => []TextsAgree
<1>1. ASSUME IInv PROVE TextsAgree
  <2> SUFFICES ASSUME Settled, ~undone, ~rewound, NEW i \in Kept PROVE store[i].body = LatestBody(i)
    BY DEF TextsAgree
  <2>1. /\ conv.synced = Len(log) /\ Len(log) \in Nat /\ DOMAIN log = 1..Len(log) /\ edit.at = "idle"
    BY <1>1, SettledIs
  <2>2. TextsOK
    BY <1>1 DEF IInv, InWords, Calm
  <2>3. i \in DOMAIN log /\ IsMessage(i) /\ i \notin gone /\ i <= conv.synced
    BY <2>1 DEF Kept
  <2>4. ~Coming(i, conv.synced) /\ ~BeingEdited(i)
    BY <2>1 DEF Coming, BeingEdited
  <2>5. Says(i, conv.synced, store[i].body)
    BY <2>2, <2>3, <2>4 DEF TextsOK
  <2>6. Says(i, conv.synced, LatestBody(i))
    BY <1>1, <2>1, <2>3, <2>4, LatestSays
  <2> QED BY <2>1, <2>5, <2>6, SaysOne
<1> QED BY <1>1, Invariant, PTL

\* What is shown is what is stored, at every moment; a message deleted while it is
\* edited comes back in the database alone (ensureMessagesLoaded, setMessageBody).
THEOREM ChatShownIsStored == ASSUME ~LateFrames PROVE Spec => []ShownIsStored
<1>1. ASSUME IInv PROVE ShownIsStored
  <2> SUFFICES ASSUME list # NotLoaded, ~rewound, NEW i \in Positions
               PROVE  IF i \in Shown THEN list[i] = store[i] ELSE store[i] = Absent \/ i \in gone
    BY DEF ShownIsStored
  <2>1. ShownSame /\ StoredOK
    BY <1>1 DEF IInv, InStep, Calm, Stored
  <2> QED BY <2>1 DEF ShownSame, StoredOK, Shown
<1> QED BY <1>1, Invariant, PTL

\* Once everything has been applied the preview is the last message stored, but for
\* deleted ones that came back, and an open conversation is read, although old copies
\* of the record are written (applyStored, removeLocalMessage, ChatView.tsx:260).
THEOREM ChatRecordSettles == ASSUME ~LateFrames PROVE Spec => []RecordSettles
<1>1. ASSUME IInv PROVE PreviewIsLatest
  <2> SUFFICES ASSUME Settled PROVE \E S \in SUBSET gone : conv.preview = LatestOf(Without(store, S))
    BY DEF PreviewIsLatest
  <2>1. Front = Len(log) /\ DOMAIN log = 1..Len(log) /\ Len(log) \in Nat /\ DOMAIN requests = {}
    BY <1>1, SettledIs
  <2>2. MaxSeq \in Nat /\ StoredOK /\ PreviewOK
    BY <1>1, Bounds DEF IInv, Typed, Stored
  <2>3. PICK S \in SUBSET Positions : /\ \A j \in S : j \in gone \/ j > Front
                                      /\ conv.preview = LatestOf(Without(store, S))
    BY <2>1, <2>2 DEF PreviewOK
  <2> DEFINE T == S \cap gone
  <2>4. \A k \in Positions : Without(store, S)[k] = Without(store, T)[k]
    <3> SUFFICES ASSUME NEW k \in Positions PROVE Without(store, S)[k] = Without(store, T)[k]
      OBVIOUS
    <3>1. Without(store, S)[k] = (IF k \in S THEN Absent ELSE store[k])
      BY WithoutIs
    <3>2. Without(store, T)[k] = (IF k \in T THEN Absent ELSE store[k])
      <4> HIDE DEF T
      <4> QED BY WithoutIs
    <3>3. k \in S /\ k \notin T => store[k] = Absent
      BY <2>1, <2>2, <2>3 DEF StoredOK, Positions
    <3> QED BY <3>1, <3>2, <3>3
  <2>5. T \in SUBSET gone
    OBVIOUS
  <2> HIDE DEF T
  <2>6. LatestOf(Without(store, S)) = LatestOf(Without(store, T))
    BY <2>2, <2>4, LatestSame
  <2> QED BY <2>3, <2>5, <2>6
<1>2. ASSUME IInv PROVE ReadWhenOpen
  <2> SUFFICES ASSUME Settled, open, ~Due, ~missed, ~rewound PROVE conv.read >= conv.last
    BY DEF ReadWhenOpen
  <2>1. ReadOK
    BY <1>2 DEF IInv, InStep, Calm
  <2>2. seen = Deps
    BY DEF Due
  <2>3. seen # Unseen /\ seen[3] = conv.last
    BY <2>2 DEF Deps, Unseen
  <2> QED BY <2>1, <2>3 DEF ReadOK
<1>3. IInv => RecordSettles
  BY <1>1, <1>2 DEF RecordSettles
<1> QED BY <1>3, Invariant, PTL
=============================================================================
