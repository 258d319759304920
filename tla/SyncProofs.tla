----------------------------- MODULE SyncProofs -----------------------------
(***************************************************************************)
(* Theorems about Sync, for pages of any size, logs of any length and      *)
(* whatever may go wrong.                                                  *)
(***************************************************************************)
EXTENDS Sync, FiniteSetTheorems, WellFoundedInduction, TLAPS

(***************************************************************************)
(* The inductive invariant.                                                *)
(***************************************************************************)
Tasks == [of : {"sync", "history", "frame"}, frame : SUBSET Views]
Jobs == [at : {"free", "fetch", "apply", "advance", "save"},
         of : {"none", "sync", "history", "frame"},
         page : SUBSET Views, more : BOOLEAN, frame : SUBSET Views,
         after : 0..MaxSeq, base : 0..MaxSeq]

Typed == TypeOK /\ scene \in Scenes /\ queue \in Seq(Tasks)

\* A view says of its number what the log says, unless the entry has gone since, and
\* a deletion record names a message that is no longer stored.
Truthful(f) ==
    /\ f.seq \in 1..last
    /\ IsText(log[f.seq]) => IsText(f.entry)
    /\ f.entry.kind = "record" => f.entry.of \in 1..last /\ ~IsText(log[f.entry.of])

\* Everything the server stores or has sent, however old, is truthful.
FramesTrue ==
    /\ \A i \in 1..last : Truthful(View(i, log[i]))
    /\ \A f \in outgoing : Truthful(f)
    /\ \A k \in DOMAIN channel : channel[k] = Hello \/ Truthful(channel[k])
    /\ \A k \in DOMAIN queue : /\ \A f \in queue[k].frame : Truthful(f)
                               /\ queue[k].of = "frame" => queue[k].frame # {}

\* The device has the texts up to n.
Complete(n) == \A i \in 1..n : IsText(log[i]) => local[i] # 0

\* It has them, or the rest of the page brings them.
Held(j, n) ==
    \A i \in 1..n : IsText(log[i]) => local[i] # 0 \/ \E g \in j.page : g.seq = i

\* Every position in use is one the device has reached: in memory, in the database, and
\* in the old copy purgeExpired holds.
Reached(n) == n <= last /\ Complete(n)
PositionsReached == Reached(synced) /\ Reached(saved) /\ Reached(snapshot)

\* A page and the frame after it follow what the device has.
Continues(j) ==
    /\ \A f \in j.page \cup j.frame : Truthful(f)
    /\ Reached(j.base)
    /\ j.after <= last /\ Held(j, j.after)

NoGaps(j) ==
    /\ \A f \in j.page : Held(j, f.seq)
    /\ ~j.more => \A f \in j.frame : Held(j, f.seq)

Applying == {"apply", "advance", "save"}

JobOK(j) ==
    /\ Continues(j)
    /\ j.at = "fetch" => j.page = {}
    /\ j.at \in Applying => j.page # {} /\ NoGaps(j)

\* The entry in hand completes what is before it as soon as it is in the database.
CurrentReached == job.at \in {"advance", "save"} => Complete(Current.seq)

IInv == Typed /\ FramesTrue /\ PositionsReached /\ JobOK(job) /\ CurrentReached

(***************************************************************************)
(* Sets of numbers.                                                        *)
(***************************************************************************)
\* A set of numbers has a least element.
LEMMA Least ==
  ASSUME NEW S \in SUBSET Nat, S # {}
  PROVE  \E m \in S : \A k \in S : m <= k
<1> DEFINE R == OpToRel(<, Nat)
<1>1. \A x \in Nat, y \in Nat : <<y, x>> \in R <=> y < x
  BY DEF OpToRel
<1>2. IsWellFoundedOn(R, Nat)
  BY NatLessThanWellFounded
<1> HIDE DEF R
<1>3. PICK m \in S : \A k \in S : <<k, m>> \notin R
  BY <1>2, WFMin
<1>4. \A k \in S : ~(k < m)
  BY <1>1, <1>3
<1>5. \A k \in S : m <= k
  BY <1>4
<1> QED BY <1>5

\* A bounded one has a greatest.
LEMMA Greatest ==
  ASSUME NEW n \in Nat, NEW S \in SUBSET (0..n), S # {}
  PROVE  \E m \in S : \A k \in S : k <= m
<1> DEFINE T == {n - k : k \in S}
<1>1. T \in SUBSET Nat /\ T # {}
  <2>1. \A k \in S : n - k \in Nat
    OBVIOUS
  <2>2. T # {}
    OBVIOUS
  <2> QED BY <2>1, <2>2
<1>2. PICK m \in T : \A k \in T : m <= k
  BY <1>1, Least
<1>3. PICK k \in S : m = n - k
  BY <1>2
<1>4. \A j \in S : n - j \in T
  OBVIOUS
<1> HIDE DEF T
<1>5. \A j \in S : n - k <= n - j
  BY <1>2, <1>3, <1>4
<1>6. \A j \in S : j <= k
  BY <1>5
<1> QED BY <1>6

\* The entry in hand is the first of its page.
LEMMA CurrentIsFirst ==
  ASSUME job.page \subseteq Views, job.page # {}, MaxSeq \in Nat
  PROVE  Current \in job.page /\ \A g \in job.page : Current.seq <= g.seq
<1> DEFINE S == {f.seq : f \in job.page}
<1>1. S \in SUBSET Nat /\ S # {}
  BY DEF Views
<1>2. PICK m \in S : \A k \in S : m <= k
  BY <1>1, Least
<1>3. PICK f \in job.page : f.seq = m
  BY <1>2
<1>4. \A g \in job.page : f.seq <= g.seq
  BY <1>2, <1>3
<1> QED BY <1>4 DEF Current

\* A page leaves nothing out below its last entry.
LEMMA PageIsFirst ==
  ASSUME NEW n \in Nat, last \in Nat, scene.pageSize \in Nat,
         NEW k \in Page(n), NEW i \in Stored(n), i <= k
  PROVE  i \in Page(n)
<1> DEFINE A == {m \in Stored(n) : m < i}
           B == {m \in Stored(n) : m < k}
<1>1. Stored(n) \subseteq (n + 1)..last /\ k \in Stored(n)
  BY DEF Stored, Page
<1>2. A \subseteq B
  BY <1>1
<1>3. IsFiniteSet((n + 1)..last)
  BY FS_Interval
<1>4. B \subseteq (n + 1)..last
  BY <1>1
<1>5. IsFiniteSet(B)
  BY <1>3, <1>4, FS_Subset
<1>6. Cardinality(A) <= Cardinality(B) /\ Cardinality(A) \in Nat /\ Cardinality(B) \in Nat
  BY <1>2, <1>5, FS_Subset, FS_CardinalityType
<1>7. Cardinality(B) < scene.pageSize
  BY DEF Page
<1> HIDE DEF A, B
<1>8. Cardinality(A) < scene.pageSize
  BY <1>6, <1>7
<1> QED BY <1>8 DEF Page, A

(***************************************************************************)
(* The log.                                                                *)
(***************************************************************************)
\* What the constants bound.
LEMMA Bounds ==
  ASSUME Typed
  PROVE  /\ MaxSeq \in Nat /\ MaxSeq <= TopSeq /\ TopSeq \in Nat /\ scene.pageSize \in Nat \ {0}
         /\ last \in Nat /\ last <= MaxSeq /\ 1..last \subseteq Seqs
<1>1. /\ MaxSeq \in 0..TopSeq /\ TopSeq \in Nat /\ scene.pageSize \in Nat \ {0}
  BY SyncAssumption DEF Typed, MaxSeq
<1>2. last \in 0..MaxSeq
  BY DEF Typed, TypeOK
<1> QED BY <1>1, <1>2 DEF Seqs

\* A commit adds one truthful entry; no other becomes a text.
LEMMA CommitEffect ==
  ASSUME Typed, FramesTrue, Commit
  PROVE  /\ last' = last + 1 /\ last' <= MaxSeq
         /\ log' \in [1..last' -> Entry]
         /\ \A i \in 1..last : IsText(log'[i]) => IsText(log[i])
         /\ log'[last'].kind = "record" => log'[last'].of \in 1..last /\ ~IsText(log'[log'[last'].of])
         /\ \A i \in 1..last : log'[i].kind = "record" => log'[i] = log[i]
<1>1. last \in Nat /\ last < MaxSeq /\ MaxSeq \in Nat /\ log \in [1..last -> Entry]
  BY Bounds DEF Typed, TypeOK, Commit
<1>2. Log!Nothing \in Entry /\ ~IsText(Log!Nothing) /\ Log!Nothing.kind = "gone"
  BY DEF Log!Nothing, Entry, IsText
<1>3. CASE Log!Append /\ (LET b == log'[last'].body IN b # 0 => b \in 1..last /\ IsText(log[b]))
  <2>1. PICK m \in 0..TopSeq : last' = last + 1 /\ log' = Log!Extended(log, last, Log!Message(m))
    BY <1>3 DEF Log!Append
  <2>2. /\ log' = [i \in 1..(last + 1) |-> IF i = last + 1 THEN Log!Message(m) ELSE log[i]]
    BY <2>1 DEF Log!Extended
  <2>3. log'[last'] = Log!Message(m) /\ \A i \in 1..last : log'[i] = log[i]
    BY <1>1, <2>1, <2>2
  <2>4. Log!Message(m).kind = "message" /\ Log!Message(m).body = m
    BY DEF Log!Message
  <2>5. m # 0 => m \in 1..last
    BY <1>3, <2>3, <2>4
  <2>6. Log!Message(m) \in Entry
    BY <1>1, <2>5 DEF Entry, Log!Message
  <2>7. log' \in [1..last' -> Entry]
    BY <1>1, <2>1, <2>2, <2>6
  <2> QED BY <1>1, <2>1, <2>3, <2>4, <2>7
<1>4. CASE Log!Delete /\ IsText(log[log'[last'].of])
  <2>1. PICK of \in 1..last :
           /\ last' = last + 1
           /\ log' = Log!Extended(Log!Without(log, last, {of}), last, Log!Record("someone", of))
    BY <1>4 DEF Log!Delete
  <2> DEFINE l == Log!Without(log, last, {of})
             r == Log!Record("someone", of)
  <2>2. l = [i \in 1..last |-> IF i = of THEN Log!Nothing ELSE log[i]]
    BY DEF Log!Without
  <2>3. log' = [i \in 1..(last + 1) |-> IF i = last + 1 THEN r ELSE l[i]]
    BY <2>1 DEF Log!Extended
  <2>4. r.kind = "record" /\ r.of = of
    BY DEF Log!Record
  <2>5. r \in Entry
    BY <1>1 DEF Log!Record, Entry, Seqs
  <2> HIDE DEF l, r
  <2>6. log'[last'] = r /\ \A i \in 1..last : log'[i] = l[i]
    <3>1. last + 1 \in 1..(last + 1) /\ \A i \in 1..last : i \in 1..(last + 1) /\ i # last + 1
      BY <1>1
    <3>2. log'[last + 1] = r
      BY <2>3, <3>1
    <3>3. \A i \in 1..last : log'[i] = l[i]
      BY <2>3, <3>1
    <3> QED BY <2>1, <3>2, <3>3
  <2>7. \A i \in 1..last : l[i] = IF i = of THEN Log!Nothing ELSE log[i]
    BY <2>2
  <2>8. \A i \in 1..last : l[i] \in Entry
    BY <1>1, <1>2, <2>7
  <2>9. log' \in [1..(last + 1) -> Entry]
    <3>1. \A i \in 1..(last + 1) : (IF i = last + 1 THEN r ELSE l[i]) \in Entry
      BY <1>1, <2>5, <2>8
    <3> QED BY <2>3, <3>1
  <2>10. \A i \in 1..last : log'[i] = log[i] \/ log'[i] = Log!Nothing
    BY <2>6, <2>7
  <2>11. log'[of] = Log!Nothing
    BY <2>6, <2>7
  <2> HIDE DEF Log!Nothing
  <2>12. last' = last + 1 /\ last' <= MaxSeq
    BY <1>1, <2>1
  <2> QED BY <1>2, <2>1, <2>4, <2>6, <2>9, <2>10, <2>11, <2>12
<1> QED BY <1>3, <1>4 DEF Commit

\* What was truthful, or reached, stays so.
LEMMA LogGrows ==
  ASSUME Typed, FramesTrue, Commit
  PROVE  /\ \A f : Truthful(f) => Truthful(f)'
         /\ \A n \in Int : Reached(n) => Reached(n)'
         /\ \A j : \A n \in Int : n <= last /\ Held(j, n) => Held(j, n)'
         /\ \A i \in 1..last' : Truthful(View(i, log[i]))'
<1>1. last \in Nat /\ last' = last + 1
  BY Bounds, CommitEffect
<1>2. \A i \in 1..last : IsText(log'[i]) => IsText(log[i])
  BY CommitEffect
<1>3. local' = local
  BY DEF Commit, clientVars
<1>4. \A f : Truthful(f) => Truthful(f)'
  BY <1>1, <1>2 DEF Truthful
<1>5. \A n \in Int : Reached(n) => Reached(n)'
  BY <1>1, <1>2, <1>3 DEF Reached, Complete
<1>6. \A j : \A n \in Int : n <= last /\ Held(j, n) => Held(j, n)'
  BY <1>1, <1>2, <1>3 DEF Held
<1>7. \A i \in 1..last' : Truthful(View(i, log[i]))'
  <2> SUFFICES ASSUME NEW i \in 1..last' PROVE Truthful(View(i, log[i]))'
    OBVIOUS
  <2>1. View(i, log'[i]).seq = i /\ View(i, log'[i]).entry = log'[i]
    BY DEF View
  <2>2. log'[i].kind = "record" => log'[i].of \in 1..last /\ ~IsText(log'[log'[i].of])
    <3>1. CASE i = last'
      BY <3>1, CommitEffect
    <3>2. CASE i \in 1..last
      <4>1. log'[i].kind = "record" => log'[i] = log[i]
        BY <3>2, CommitEffect
      <4>2. log[i].kind = "record" => log[i].of \in 1..last /\ ~IsText(log[log[i].of])
        BY <3>2 DEF FramesTrue, Truthful, View
      <4> QED BY <1>2, <4>1, <4>2
    <3> QED BY <1>1, <3>1, <3>2
  <2> QED BY <1>1, <2>1, <2>2 DEF Truthful
<1> QED BY <1>4, <1>5, <1>6, <1>7

(***************************************************************************)
(* The task under the lock.                                                *)
(***************************************************************************)
\* No task is in order.
LEMMA FreeOK ==
  ASSUME last' \in Nat, MaxSeq' \in Nat, job' = Free
  PROVE  JobOK(job)' /\ job' \in Jobs' /\ job'.at = "free"
<1>1. /\ job'.at = "free" /\ job'.of = "none" /\ job'.page = {} /\ job'.more = FALSE
      /\ job'.frame = {} /\ job'.after = 0 /\ job'.base = 0
  BY DEF Free
<1>2. Reached(0)' /\ Held(job, 0)'
  BY DEF Reached, Complete, Held
<1>3. JobOK(job)'
  BY <1>1, <1>2 DEF JobOK, Continues, Applying
<1>4. job' \in Jobs'
  BY DEF Free, Jobs
<1> QED BY <1>1, <1>3, <1>4

\* A task whose page and frame have no gaps goes on with them, reads on, or ends.
LEMMA NextPartOK ==
  ASSUME Typed, NEW j \in Jobs, Continues(j), NoGaps(j), NextPart(j),
         UNCHANGED <<scene, last, log, local>>
  PROVE  JobOK(job)' /\ job' \in Jobs /\ job'.at \in {"apply", "fetch", "free"}
<1>1. last \in Nat /\ MaxSeq \in Nat
  BY Bounds
<1>2. \A f \in j.page \cup j.frame : Truthful(f)
  BY DEF Continues
<1>3. CASE j.page # {} /\ job' = [j EXCEPT !.at = "apply"]
  <2>1. /\ job' \in Jobs /\ job'.at = "apply" /\ job'.page = j.page /\ job'.frame = j.frame
        /\ job'.more = j.more /\ job'.base = j.base /\ job'.after = j.after
    BY <1>3 DEF Jobs
  <2> QED BY <1>3, <2>1 DEF JobOK, Continues, NoGaps, Held, Reached, Complete, Truthful, Applying
<1>4. CASE j.page = {} /\ job' = [j EXCEPT !.at = "fetch"]
  <2>1. /\ job' \in Jobs /\ job'.at = "fetch" /\ job'.page = j.page /\ job'.frame = j.frame
        /\ job'.more = j.more /\ job'.base = j.base /\ job'.after = j.after
    BY <1>4 DEF Jobs
  <2> QED BY <1>4, <2>1 DEF JobOK, Continues, NoGaps, Held, Reached, Complete, Truthful, Applying
<1>5. CASE /\ j.page = {} /\ ~j.more /\ j.frame # {}
           /\ job' = [j EXCEPT !.at = "apply", !.page = j.frame, !.frame = {}]
  <2>1. /\ job' \in Jobs /\ job'.at = "apply" /\ job'.page = j.frame /\ job'.frame = {}
        /\ job'.base = j.base /\ job'.after = j.after
    BY <1>5 DEF Jobs
  <2>2. \A n \in Int : Held(j, n) => Held(job, n)'
    BY <1>5 DEF Held
  <2>3. \A f \in j.frame : f.seq \in Int /\ Held(j, f.seq)
    BY <1>1, <1>2, <1>5 DEF NoGaps, Truthful
  <2>4. NoGaps(job)'
    BY <2>1, <2>2, <2>3 DEF NoGaps
  <2>5. Continues(job)'
    <3>1. j.after \in Int
      BY DEF Jobs
    <3> QED BY <2>1, <2>2, <3>1 DEF Continues, Reached, Complete, Truthful
  <2> QED BY <1>5, <2>1, <2>4, <2>5 DEF JobOK, Applying
<1>6. CASE job' = Free
  <2>1. last' \in Nat /\ MaxSeq' \in Nat /\ Jobs' = Jobs
    BY <1>1 DEF MaxSeq, Jobs, Views, Entry, Seqs
  <2> QED BY <1>6, <2>1, FreeOK
<1> QED BY <1>3, <1>4, <1>5, <1>6 DEF NextPart, Release

(***************************************************************************)
(* Types.                                                                  *)
(***************************************************************************)
ServerTyped == last \in 0..MaxSeq /\ log \in [1..last -> Entry] /\ outgoing \subseteq Views
WireTyped == socket \in {"down", "added", "up"} /\ channel \in Seq(Views)
PositionsTyped == synced \in 0..MaxSeq /\ saved \in 0..MaxSeq /\ snapshot \in -1..MaxSeq
LocalTyped == local \in [Seqs -> 0..MaxSeq]
SyncTyped == sync \in {"idle", "list", "backfill", "rest"}

Parts == /\ scene \in Scenes /\ ServerTyped /\ WireTyped /\ PositionsTyped /\ LocalTyped /\ SyncTyped
         /\ queue \in Seq(Tasks) /\ job \in Jobs

\* The type invariant in parts.
LEMMA TypedParts == (Typed => Parts) /\ (Parts' => Typed')
<1>1. Typed => Parts
  BY DEF Typed, TypeOK, Parts, ServerTyped, WireTyped, PositionsTyped, LocalTyped, SyncTyped, Jobs
<1>2. ASSUME Parts' PROVE Typed'
  <2>1. \A k \in DOMAIN queue' : queue'[k] \in Tasks'
    BY <1>2 DEF Parts
  <2>2. \A k \in DOMAIN queue' : /\ queue'[k].of \in {"sync", "history", "frame"}
                                 /\ queue'[k].frame \subseteq Views'
    BY <2>1 DEF Tasks
  <2>3. job' \in Jobs'
    BY <1>2 DEF Parts
  <2>4. ServerTyped' /\ WireTyped' /\ PositionsTyped' /\ LocalTyped' /\ SyncTyped' /\ scene' \in Scenes
    BY <1>2 DEF Parts
  <2>5. TypeOK'
    BY <2>2, <2>3, <2>4
       DEF TypeOK, ServerTyped, WireTyped, PositionsTyped, LocalTyped, SyncTyped, Jobs
  <2> QED BY <1>2, <2>5 DEF Typed, Parts
<1> QED BY <1>1, <1>2

\* The scene, and with it every bound, is fixed.
LEMMA SceneStays ==
  ASSUME [Next]_vars
  PROVE  /\ scene' = scene /\ MaxSeq' = MaxSeq /\ Seqs' = Seqs /\ Entry' = Entry /\ Views' = Views
         /\ Tasks' = Tasks /\ Jobs' = Jobs
<1>1. scene' = scene
  BY DEF Next, Progress, vars, serverVars, Commit, FanOut, Greet, ReceiveHello, ReceiveFrame, ListConversations,
         FinishSync, StartJob, Fetch, Apply, Advance, Save, Connect, Disconnect, AskHistory, HttpFail, PurgeRead,
         PurgeWrite, Restart
<1> QED BY <1>1 DEF MaxSeq, Seqs, Entry, Views, Tasks, Jobs

\* What the actions outside the lock write.
LEMMA WireWrites ==
  /\ Connect \/ Disconnect => UNCHANGED <<serverVars, clientVars>>
  /\ Greet => UNCHANGED <<serverVars, clientVars>>
  /\ FanOut => UNCHANGED <<scene, last, log, socket, clientVars>>
  /\ ReceiveHello => UNCHANGED <<serverVars, socket, queue, job, synced, saved, local, snapshot>>
  /\ ReceiveFrame => UNCHANGED <<serverVars, socket, job, sync, synced, saved, local, snapshot>>
  /\ ListConversations \/ AskHistory => UNCHANGED <<serverVars, wireVars, job, synced, saved, local, snapshot>>
  /\ FinishSync => UNCHANGED <<serverVars, wireVars, queue, job, synced, saved, local, snapshot>>
  /\ HttpFail => UNCHANGED <<serverVars, wireVars, queue, synced, saved, local, snapshot>>
  /\ PurgeRead => UNCHANGED <<serverVars, wireVars, queue, job, sync, synced, saved, local>>
  /\ PurgeWrite => UNCHANGED <<serverVars, wireVars, queue, job, sync, local>>
BY DEF Connect, Disconnect, Greet, FanOut, ReceiveHello, ReceiveFrame, ListConversations, AskHistory, FinishSync,
       HttpFail, PurgeRead, PurgeWrite

(***************************************************************************)
(* The steps under the lock.                                               *)
(***************************************************************************)
\* A page continues what the device has.
LEMMA FetchOK ==
  ASSUME IInv, Fetch
  PROVE  JobOK(job)' /\ job' \in Jobs /\ job'.at \in {"apply", "fetch", "free"}
<1> DEFINE n == job.after
           page == Page(n)
           V == {View(i, log[i]) : i \in page}
           m == page # Stored(n)
           a == IF page = {} THEN n ELSE CHOOSE i \in page : \A k \in page : k <= i
           j == [job EXCEPT !.page = V, !.more = m, !.after = a]
<1>1. /\ Typed /\ job \in Jobs /\ log \in [1..last -> Entry] /\ FramesTrue /\ Continues(job)
      /\ job.at = "fetch" /\ job.page = {}
  BY TypedParts DEF IInv, Parts, ServerTyped, Fetch, JobOK
<1>2. /\ last \in Nat /\ MaxSeq \in Nat /\ last <= MaxSeq /\ scene.pageSize \in Nat
      /\ n \in 0..MaxSeq /\ n <= last
  BY <1>1, Bounds DEF Jobs, Continues
<1>3. NextPart(j) /\ UNCHANGED <<scene, last, log, local>>
  BY DEF Fetch, serverVars
<1>4. /\ Stored(n) \subseteq (n + 1)..last /\ page \subseteq Stored(n)
      /\ \A i \in (n + 1)..last : log[i].kind # "gone" => i \in Stored(n)
  BY DEF Stored, Page
<1>5. \A i \in Stored(n) : \A k \in page : i <= k => i \in page
  BY <1>2, PageIsFirst
<1> HIDE DEF page
<1>6. a \in n..last /\ (page # {} => a \in page) /\ \A k \in page : k <= a
  <2>1. CASE page = {}
    BY <1>2, <2>1
  <2>2. CASE page # {}
    <3>1. page \in SUBSET (0..last)
      BY <1>2, <1>4
    <3>2. PICK g \in page : \A k \in page : k <= g
      BY <1>2, <2>2, <3>1, Greatest
    <3>3. a \in page /\ \A k \in page : k <= a
      BY <2>2, <3>2
    <3>4. \A k \in page : k \in n..last
      BY <1>2, <1>4
    <3> QED BY <3>3, <3>4
  <2> QED BY <2>1, <2>2
<1> HIDE DEF a
<1>7. /\ \A f \in V : \E i \in page : f.seq = i /\ f \in Views /\ Truthful(f)
      /\ \A i \in page : \E f \in V : f.seq = i
  <2>1. \A i \in page : View(i, log[i]).seq = i
    BY DEF View
  <2>2. \A i \in page : i \in 1..last
    BY <1>2, <1>4
  <2>3. \A i \in page : Truthful(View(i, log[i]))
    BY <1>1, <2>2 DEF FramesTrue
  <2>4. \A i \in page : View(i, log[i]) \in Views
    BY <1>1, <1>2, <2>2 DEF View, Views
  <2> QED BY <2>1, <2>3, <2>4
<1> HIDE DEF V, m
<1>8. m \in BOOLEAN /\ (~m => page = Stored(n))
  BY DEF m
<1>9. V \subseteq Views /\ a \in 0..MaxSeq
  BY <1>2, <1>6, <1>7
<1>10. /\ j \in Jobs /\ j.page = V /\ j.more = m /\ j.after = a /\ j.base = job.base /\ j.frame = job.frame
  BY <1>1, <1>8, <1>9 DEF Jobs
<1> HIDE DEF j
<1>11. \A i \in 1..n : IsText(log[i]) => local[i] # 0
  BY <1>1, <1>2 DEF Continues, Held
<1>12. \A i \in 1..last : IsText(log[i]) /\ ~(i <= n) => i \in Stored(n)
  BY <1>2, <1>4 DEF IsText
<1>13. Held(j, a)
  <2> SUFFICES ASSUME NEW i \in 1..a, IsText(log[i]), ~(i <= n) PROVE \E g \in V : g.seq = i
    BY <1>2, <1>6, <1>10, <1>11 DEF Held
  <2>1. i \in 1..last /\ i <= a
    BY <1>2, <1>6
  <2>2. i \in Stored(n)
    BY <1>12, <2>1
  <2>3. page # {}
    BY <1>2, <2>1 DEF a
  <2>4. i \in page
    BY <1>5, <1>6, <2>1, <2>2, <2>3
  <2> QED BY <1>7, <2>4
<1>14. Continues(j)
  BY <1>1, <1>2, <1>6, <1>7, <1>10, <1>13 DEF Continues
<1>15. NoGaps(j)
  <2>1. \A f \in V : Held(j, f.seq)
    <3> SUFFICES ASSUME NEW f \in V PROVE Held(j, f.seq)
      OBVIOUS
    <3>1. f.seq \in page /\ f.seq <= a
      BY <1>6, <1>7
    <3>2. f.seq \in Nat /\ a \in Nat
      BY <1>2, <1>4, <1>6, <3>1
    <3> QED BY <1>13, <3>1, <3>2 DEF Held
  <2>2. ASSUME ~m, NEW f \in j.frame PROVE Held(j, f.seq)
    <3>1. f.seq \in 1..last
      BY <1>1, <1>10, <2>2 DEF Continues, Truthful
    <3>2. \A i \in 1..last : IsText(log[i]) => local[i] # 0 \/ \E g \in V : g.seq = i
      BY <1>2, <1>7, <1>8, <1>11, <1>12, <2>2
    <3> QED BY <1>2, <1>10, <3>1, <3>2 DEF Held
  <2> QED BY <1>10, <2>1, <2>2 DEF NoGaps
<1> QED BY <1>1, <1>3, <1>10, <1>14, <1>15, NextPartOK

\* A task starts where the device stands.
LEMMA StartJobOK ==
  ASSUME IInv, StartJob
  PROVE  JobOK(job)' /\ job' \in Jobs /\ job'.at \in {"apply", "fetch"}
<1> DEFINE task == Head(queue)
           t == [Free EXCEPT !.at = "apply", !.of = "frame", !.page = task.frame]
           u == [Free EXCEPT !.at = "fetch", !.of = task.of, !.after = synced, !.frame = task.frame]
<1>1. /\ Typed /\ queue \in Seq(Tasks) /\ queue # <<>> /\ FramesTrue /\ Reached(synced)
      /\ synced \in 0..MaxSeq
  BY TypedParts DEF IInv, Parts, PositionsTyped, PositionsReached, StartJob
<1>2. last \in Nat /\ MaxSeq \in Nat /\ last <= MaxSeq
  BY <1>1, Bounds
<1>3. UNCHANGED <<scene, last, log, local>> /\ job' = IF task.of = "frame" /\ ~Gap(task) THEN t ELSE u
  BY DEF StartJob, serverVars
<1>4. task \in Tasks /\ task = queue[1] /\ 1 \in DOMAIN queue
  BY <1>1
<1> HIDE DEF task
<1>5. /\ \A f \in task.frame : Truthful(f)
      /\ task.of = "frame" => task.frame # {}
  BY <1>1, <1>4 DEF FramesTrue
<1>6. task.frame \subseteq Views /\ task.of \in {"sync", "history", "frame"}
  BY <1>4 DEF Tasks
<1>7. /\ t \in Jobs /\ t.at = "apply" /\ t.page = task.frame /\ t.frame = {} /\ t.base = 0 /\ t.after = 0
      /\ u \in Jobs /\ u.at = "fetch" /\ u.page = {} /\ u.frame = task.frame /\ u.base = 0 /\ u.after = synced
  <2>1. Free \in Jobs /\ Free.frame = {} /\ Free.base = 0 /\ Free.after = 0 /\ Free.page = {}
    BY <1>2 DEF Free, Jobs
  <2> HIDE DEF Free
  <2>2. t \in Jobs /\ t.at = "apply" /\ t.page = task.frame /\ t.frame = {} /\ t.base = 0 /\ t.after = 0
    BY <1>6, <2>1 DEF Jobs
  <2>3. u \in Jobs /\ u.at = "fetch" /\ u.page = {} /\ u.frame = task.frame /\ u.base = 0 /\ u.after = synced
    BY <1>1, <1>6, <2>1 DEF Jobs
  <2> QED BY <2>2, <2>3
<1> HIDE DEF t, u
<1>8. Reached(0)
  BY <1>2 DEF Reached, Complete
<1>9. CASE task.of = "frame" /\ ~Gap(task)
  <2>1. job' = t
    BY <1>3, <1>9
  <2>2. ASSUME NEW f \in task.frame PROVE Held(t, f.seq)
    <3>1. f.seq \in 1..last /\ ~(f.seq > synced + 1)
      BY <1>5, <1>9 DEF Gap, Truthful
    <3>2. \A i \in 1..f.seq : i <= synced \/ i = f.seq
      BY <1>1, <1>2, <3>1
    <3>3. \A i \in 1..f.seq : i <= synced => i \in 1..synced
      BY <1>1, <1>2, <3>1
    <3> QED BY <1>1, <1>7, <3>2, <3>3 DEF Held, Reached, Complete
  <2>3. JobOK(t)
    BY <1>2, <1>5, <1>7, <1>8, <1>9, <2>2 DEF JobOK, Continues, NoGaps, Held, Applying
  <2> QED BY <1>3, <1>7, <2>1, <2>3 DEF JobOK, Continues, NoGaps, Held, Reached, Complete, Truthful
<1>10. CASE ~(task.of = "frame" /\ ~Gap(task))
  <2>1. job' = u
    BY <1>3, <1>10
  <2>2. JobOK(u)
    BY <1>1, <1>5, <1>7, <1>8 DEF JobOK, Continues, Held, Reached, Complete, Applying
  <2> QED BY <1>3, <1>7, <2>1, <2>2 DEF JobOK, Continues, NoGaps, Held, Reached, Complete, Truthful
<1> QED BY <1>9, <1>10

\* A function with one value replaced.
LEMMA Replaced ==
  ASSUME NEW S, NEW T, NEW f \in [S -> T], NEW x, NEW v \in T
  PROVE  /\ [f EXCEPT ![x] = v] \in [S -> T]
         /\ \A k \in S : [f EXCEPT ![x] = v][k] = IF k = x THEN v ELSE f[k]
OBVIOUS

\* Applying an entry takes no text away that the log has, and brings its own.
LEMMA ApplyKeepsTexts ==
  ASSUME IInv, Apply
  PROVE  /\ \A k \in 1..last : IsText(log[k]) /\ local[k] # 0 => local'[k] # 0
         /\ IsText(log[Current.seq]) => local'[Current.seq] # 0
         /\ local' \in [Seqs -> 0..MaxSeq]
<1> DEFINE e == Current.entry
           i == Current.seq
<1>1. /\ Typed /\ job \in Jobs /\ local \in [Seqs -> 0..MaxSeq] /\ JobOK(job) /\ job.at = "apply"
  BY TypedParts DEF IInv, Parts, LocalTyped, Apply
<1>2. last \in Nat /\ MaxSeq \in Nat /\ last <= MaxSeq /\ Seqs = 1..MaxSeq
  BY <1>1, Bounds DEF Seqs
<1>3. job.page \subseteq Views /\ job.page # {}
  BY <1>1 DEF Jobs, JobOK, Applying
<1>4. Current \in job.page /\ Truthful(Current)
  BY <1>1, <1>2, <1>3, CurrentIsFirst DEF JobOK, Continues
<1>5. /\ i \in 1..last /\ i \in 0..MaxSeq /\ i # 0 /\ e \in Entry
      /\ IsText(log[i]) => IsText(e)
      /\ e.kind = "record" => e.of \in 1..last /\ ~IsText(log[e.of])
  BY <1>2, <1>3, <1>4 DEF Truthful, Views
<1>6. local' = CASE e.kind = "record" -> [local EXCEPT ![e.of] = 0]
                 [] IsText(e)         -> [local EXCEPT ![i] = i]
                 [] OTHER             -> [local EXCEPT ![e.body] = IF @ # 0 THEN i ELSE 0]
  BY DEF Apply
<1> HIDE DEF e, i
<1>7. CASE e.kind = "record"
  <2>1. ~IsText(e)
    BY <1>7 DEF IsText
  <2>2. local' = [local EXCEPT ![e.of] = 0]
    BY <1>6, <1>7, <2>1
  <2>3. ~IsText(log[i])
    BY <1>5, <2>1
  <2>4. local' \in [Seqs -> 0..MaxSeq]
    <3>1. 0 \in 0..MaxSeq
      BY <1>2
    <3> QED BY <1>1, <2>2, <3>1, Replaced
  <2>5. \A k \in 1..last : IsText(log[k]) /\ local[k] # 0 => local'[k] # 0
    BY <1>1, <1>2, <1>5, <1>7, <2>2
  <2> QED BY <2>3, <2>4, <2>5 DEF i
<1>8. CASE IsText(e)
  <2>0. e.kind # "record"
    BY <1>8 DEF IsText
  <2>1. local' = [local EXCEPT ![i] = i]
    BY <1>6, <1>8, <2>0
  <2>2. local'[i] # 0 /\ local' \in [Seqs -> 0..MaxSeq]
    BY <1>1, <1>2, <1>5, <2>1
  <2>3. \A k \in 1..last : local[k] # 0 => local'[k] # 0
    BY <1>1, <1>2, <1>5, <2>1
  <2> QED BY <2>2, <2>3 DEF i
<1>9. CASE e.kind # "record" /\ ~IsText(e)
  <2> DEFINE b == e.body
             v == IF local[b] # 0 THEN i ELSE 0
  <2>1. local' = [local EXCEPT ![b] = IF @ # 0 THEN i ELSE 0]
    BY <1>6, <1>9
  <2>2. local' = [local EXCEPT ![b] = v]
    BY <2>1
  <2>3. v \in 0..MaxSeq /\ (local[b] # 0 => v # 0)
    BY <1>2, <1>5
  <2> HIDE DEF b, v
  <2>4. local' \in [Seqs -> 0..MaxSeq] /\ \A k \in Seqs : local'[k] = IF k = b THEN v ELSE local[k]
    BY <1>1, <2>2, <2>3, Replaced
  <2>5. \A k \in 1..last : local[k] # 0 => local'[k] # 0
    BY <1>2, <2>3, <2>4
  <2>6. ~IsText(log[i])
    BY <1>5, <1>9
  <2> QED BY <2>4, <2>5, <2>6 DEF i
<1> QED BY <1>7, <1>8, <1>9

\* What the device had reached before an entry is applied it still has.
LEMMA ApplyOK ==
  ASSUME IInv, Apply
  PROVE  JobOK(job)' /\ job' \in Jobs /\ CurrentReached' /\ PositionsReached'
<1>1. /\ Typed /\ job \in Jobs /\ JobOK(job) /\ job.at = "apply" /\ PositionsReached
      /\ synced \in 0..MaxSeq /\ saved \in 0..MaxSeq /\ snapshot \in -1..MaxSeq
  BY TypedParts DEF IInv, Parts, PositionsTyped, Apply
<1>2. last \in Nat /\ MaxSeq \in Nat /\ last <= MaxSeq
  BY <1>1, Bounds
<1>3. /\ UNCHANGED <<scene, last, log, synced, saved, snapshot>>
      /\ job' = [job EXCEPT !.at = "advance", !.base = synced]
  BY DEF Apply, serverVars
<1>4. /\ job' \in Jobs /\ job'.at = "advance" /\ job'.page = job.page /\ job'.frame = job.frame
      /\ job'.more = job.more /\ job'.base = synced /\ job'.after = job.after
  BY <1>1, <1>3 DEF Jobs
<1>5. job.page # {} /\ job.page \subseteq Views /\ NoGaps(job) /\ Continues(job) /\ job.after \in 0..MaxSeq
      /\ job.frame \subseteq Views
  BY <1>1 DEF JobOK, Applying, Jobs
<1>6. Current \in job.page /\ (\A g \in job.page : Current.seq <= g.seq) /\ Current' = Current
  BY <1>2, <1>4, <1>5, CurrentIsFirst DEF Current
<1>7. \A k \in 1..last : IsText(log[k]) /\ local[k] # 0 => local'[k] # 0
  BY ApplyKeepsTexts
<1>8. \A n \in Int : Reached(n) => Reached(n)'
  BY <1>2, <1>3, <1>7 DEF Reached, Complete
<1>9. \A n \in Int : n <= last /\ Held(job, n) => Held(job, n)'
  BY <1>2, <1>3, <1>4, <1>7 DEF Held
<1>10. \A f \in job.page \cup job.frame : f.seq \in 1..last
  BY <1>5 DEF Continues, Truthful
<1>11. NoGaps(job)'
  BY <1>2, <1>4, <1>5, <1>9, <1>10 DEF NoGaps
<1>12. PositionsReached'
  BY <1>1, <1>2, <1>3, <1>8 DEF PositionsReached
<1>13. Continues(job)'
  <2>1. Reached(synced) /\ synced \in Int
    BY <1>1, <1>2 DEF PositionsReached
  <2>2. Reached(job.base)'
    BY <1>3, <1>4, <1>8, <2>1
  <2>3. \A f : Truthful(f) => Truthful(f)'
    BY <1>3 DEF Truthful
  <2> QED BY <1>2, <1>3, <1>4, <1>5, <1>9, <2>2, <2>3 DEF Continues
<1>14. CurrentReached'
  <2>1. Held(job, Current.seq) /\ Current.seq \in 1..last
    BY <1>5, <1>6, <1>10 DEF NoGaps
  <2>2. \A i \in 1..Current.seq : i = Current.seq \/ \A g \in job.page : g.seq # i
    BY <1>2, <1>6, <1>10, <2>1
  <2>3. \A i \in 1..Current.seq : i \in 1..last
    BY <1>2, <2>1
  <2>4. \A i \in 1..Current.seq : IsText(log[i]) => local'[i] # 0
    BY <1>7, <2>1, <2>2, <2>3, ApplyKeepsTexts DEF Held
  <2> QED BY <1>3, <1>6, <2>4 DEF CurrentReached, Complete
<1> QED BY <1>4, <1>5, <1>11, <1>12, <1>13, <1>14 DEF JobOK

\* Where the position moves the device has everything.
LEMMA AdvanceOK ==
  ASSUME IInv, Advance
  PROVE  /\ JobOK(job)' /\ job' \in Jobs /\ CurrentReached' /\ PositionsReached'
         /\ synced' \in 0..MaxSeq
<1> DEFINE n == IF IsText(Current.entry) THEN job.base ELSE synced
           i == Current.seq
<1>1. /\ Typed /\ job \in Jobs /\ JobOK(job) /\ job.at = "advance" /\ PositionsReached /\ CurrentReached
      /\ synced \in 0..MaxSeq
  BY TypedParts DEF IInv, Parts, PositionsTyped, Advance
<1>2. last \in Nat /\ MaxSeq \in Nat /\ last <= MaxSeq
  BY <1>1, Bounds
<1>3. /\ UNCHANGED <<scene, last, log, local, saved, snapshot>>
      /\ job' = [job EXCEPT !.at = "save"] /\ synced' = Larger(n, i)
  BY DEF Advance, serverVars
<1>4. /\ job' \in Jobs /\ job'.at = "save" /\ job'.page = job.page /\ job'.frame = job.frame
      /\ job'.more = job.more /\ job'.base = job.base /\ job'.after = job.after
  BY <1>1, <1>3 DEF Jobs
<1>5. /\ job.page # {} /\ job.page \subseteq Views /\ NoGaps(job) /\ Continues(job) /\ Complete(i)
      /\ job.base \in 0..MaxSeq
  BY <1>1 DEF JobOK, Applying, Jobs, CurrentReached
<1>6. Current \in job.page /\ Current' = Current
  BY <1>2, <1>4, <1>5, CurrentIsFirst DEF Current
<1>7. i \in 1..last
  BY <1>5, <1>6 DEF Continues, Truthful
<1>8. Reached(n) /\ n \in 0..MaxSeq
  BY <1>1, <1>5 DEF PositionsReached, Continues
<1> HIDE DEF n, i
<1>9. Reached(i) /\ i \in 0..MaxSeq
  BY <1>2, <1>5, <1>7 DEF Reached
<1>10. Reached(synced') /\ synced' \in 0..MaxSeq
  BY <1>3, <1>8, <1>9 DEF Larger
<1>11. PositionsReached'
  BY <1>1, <1>3, <1>10 DEF PositionsReached, Reached, Complete
<1>12. JobOK(job)'
  BY <1>1, <1>3, <1>4, <1>5 DEF JobOK, Continues, NoGaps, Held, Reached, Complete, Truthful, Applying
<1>13. CurrentReached'
  BY <1>3, <1>5, <1>6 DEF CurrentReached, Complete, i
<1> QED BY <1>4, <1>10, <1>11, <1>12, <1>13

\* The entry in hand leaves the page once the device has it.
LEMMA SaveOK ==
  ASSUME IInv, Save
  PROVE  /\ JobOK(job)' /\ job' \in Jobs /\ job'.at \in {"apply", "fetch", "free"} /\ PositionsReached'
         /\ saved' \in 0..MaxSeq
<1> DEFINE rest == job.page \ {Current}
           j == [job EXCEPT !.page = rest]
<1>1. /\ Typed /\ job \in Jobs /\ JobOK(job) /\ job.at = "save" /\ PositionsReached /\ CurrentReached
      /\ synced \in 0..MaxSeq
  BY TypedParts DEF IInv, Parts, PositionsTyped, Save
<1>2. last \in Nat /\ MaxSeq \in Nat /\ last <= MaxSeq
  BY <1>1, Bounds
<1>3. UNCHANGED <<scene, last, log, local, synced, snapshot>> /\ saved' = synced /\ NextPart(j)
  BY DEF Save, serverVars
<1>4. /\ job.page # {} /\ job.page \subseteq Views /\ NoGaps(job) /\ Continues(job) /\ Complete(Current.seq)
      /\ job.after \in 0..MaxSeq
  BY <1>1 DEF JobOK, Applying, Jobs, CurrentReached
<1>5. Current \in job.page /\ rest \subseteq job.page
  BY <1>2, <1>4, CurrentIsFirst
<1>6. Current.seq \in 1..last
  BY <1>4, <1>5 DEF Continues, Truthful
<1>7. /\ j \in Jobs /\ j.page = rest /\ j.frame = job.frame
      /\ j.more = job.more /\ j.base = job.base /\ j.after = job.after
  BY <1>1, <1>4 DEF Jobs
<1>8. \A g \in job.page : g.seq = Current.seq \/ g \in rest
  OBVIOUS
<1> HIDE DEF rest, j
<1>9. IsText(log[Current.seq]) => local[Current.seq] # 0
  BY <1>2, <1>4, <1>6 DEF Complete
<1>10. \A n \in Int : Held(job, n) => Held(j, n)
  <2> SUFFICES ASSUME NEW n \in Int, Held(job, n), NEW i \in 1..n, IsText(log[i]), local[i] = 0
               PROVE  \E g \in rest : g.seq = i
    BY <1>7 DEF Held
  <2>1. PICK g \in job.page : g.seq = i
    BY DEF Held
  <2>2. g \in rest
    BY <1>8, <1>9, <2>1
  <2> QED BY <2>1, <2>2
<1>11. \A f \in job.page \cup job.frame : f.seq \in Int
  BY <1>2, <1>4 DEF Continues, Truthful
<1>12. Continues(j)
  BY <1>2, <1>4, <1>5, <1>7, <1>10 DEF Continues
<1>13. NoGaps(j)
  BY <1>4, <1>5, <1>7, <1>10, <1>11 DEF NoGaps
<1>14. PositionsReached'
  BY <1>1, <1>3 DEF PositionsReached, Reached, Complete
<1> QED BY <1>1, <1>3, <1>7, <1>12, <1>13, <1>14, NextPartOK

(***************************************************************************)
(* The invariant, part by part.                                            *)
(***************************************************************************)
\* Pages and frames.
LEMMA JobStep ==
  ASSUME IInv, [Next]_vars
  PROVE  JobOK(job)' /\ job' \in Jobs' /\ CurrentReached'
<1>1. /\ Typed /\ FramesTrue /\ JobOK(job) /\ job \in Jobs /\ CurrentReached
      /\ scene' = scene /\ MaxSeq' = MaxSeq /\ Jobs' = Jobs
  BY SceneStays, TypedParts DEF IInv, Parts
<1>2. last \in Nat /\ MaxSeq \in Nat /\ last <= MaxSeq
  BY <1>1, Bounds
<1>3. CASE StartJob \/ Fetch
  BY <1>1, <1>3, StartJobOK, FetchOK DEF CurrentReached
<1>4. CASE Apply \/ Advance
  BY <1>1, <1>4, ApplyOK, AdvanceOK
<1>5. CASE Save
  BY <1>1, <1>5, SaveOK DEF CurrentReached
<1>6. CASE UNCHANGED <<last, log, local, job>>
  <2>1. Current' = Current
    BY <1>6 DEF Current
  <2>2. JobOK(job)'
    BY <1>1, <1>6 DEF JobOK, Continues, NoGaps, Held, Reached, Complete, Truthful
  <2>3. CurrentReached'
    BY <1>1, <1>6, <2>1 DEF CurrentReached, Complete
  <2> QED BY <1>1, <1>6, <2>2, <2>3
<1>7. CASE HttpFail \/ Restart
  <2>1. (job' = Free \/ UNCHANGED <<log, local, job>>) /\ last' = last
    BY <1>7 DEF HttpFail, Restart, serverVars
  <2>2. CASE job' = Free
    BY <1>1, <1>2, <2>1, <2>2, FreeOK DEF CurrentReached
  <2> QED BY <1>6, <2>1, <2>2
<1>8. CASE Commit
  <2>1. job' = job /\ Current' = Current
    BY <1>8 DEF Commit, clientVars, Current
  <2>2. \A f \in job.page \cup job.frame : Truthful(f) /\ f.seq \in 1..last
    BY <1>1 DEF JobOK, Continues, Truthful
  <2>3. job.after \in Int /\ job.base \in Int /\ job.after <= last /\ last' = last + 1
    BY <1>1, <1>2, <1>8, CommitEffect DEF Jobs, JobOK, Continues
  <2>4. Continues(job)'
    BY <1>1, <1>2, <1>8, <2>1, <2>2, <2>3, LogGrows DEF JobOK, Continues
  <2>5. NoGaps(job) => NoGaps(job)'
    <3>1. \A f \in job.page \cup job.frame : Held(job, f.seq) => (f.seq \in Int /\ f.seq <= last)
      BY <1>2, <2>2
    <3>2. \A n \in Int : n <= last /\ Held(job, n) => Held(job, n)'
      BY <1>1, <1>8, <2>1, LogGrows DEF Held
    <3> QED BY <2>1, <3>1, <3>2 DEF NoGaps
  <2>6. CurrentReached'
    <3> SUFFICES ASSUME job.at \in {"advance", "save"} PROVE Complete(Current.seq)'
      BY <2>1 DEF CurrentReached
    <3>1. Current \in job.page
      BY <1>1, <1>2, CurrentIsFirst DEF JobOK, Applying, Jobs
    <3>2. Reached(Current.seq) /\ Current.seq \in Int
      BY <1>1, <1>2, <2>2, <3>1 DEF CurrentReached, Reached
    <3>3. Reached(Current.seq)'
      BY <1>1, <1>8, <2>1, <3>2, LogGrows DEF Reached, Complete
    <3> QED BY <3>3 DEF Reached
  <2> QED BY <1>1, <2>1, <2>4, <2>5, <2>6 DEF JobOK
<1> QED BY <1>3, <1>4, <1>5, <1>6, <1>7, <1>8, WireWrites
        DEF Next, Progress, vars, serverVars, wireVars, clientVars

\* The positions: an old copy was reached, and so was what the database holds.
LEMMA PositionsStep ==
  ASSUME IInv, [Next]_vars
  PROVE  PositionsReached'
<1>1. /\ Typed /\ FramesTrue /\ PositionsReached /\ synced \in Int /\ saved \in Int /\ snapshot \in Int
      /\ last \in Nat
  <2>1. Typed /\ Parts
    BY TypedParts DEF IInv
  <2> QED BY <2>1, Bounds DEF IInv, Parts, PositionsTyped
<1>2. CASE UNCHANGED <<last, log, local>> /\ {synced', saved', snapshot'} \subseteq {synced, saved, snapshot, -1}
  <2>1. \A n \in Int : Reached(n) => Reached(n)'
    BY <1>2 DEF Reached, Complete
  <2>2. Reached(-1)
    BY <1>1 DEF Reached, Complete
  <2>3. \A n \in {synced, saved, snapshot, -1} : n \in Int /\ Reached(n)
    BY <1>1, <2>2 DEF PositionsReached
  <2> QED BY <1>2, <2>1, <2>3 DEF PositionsReached, Reached, Complete
<1>3. CASE Apply \/ Advance \/ Save
  BY <1>3, ApplyOK, AdvanceOK, SaveOK
<1>4. CASE Commit
  <2>1. UNCHANGED <<synced, saved, snapshot>>
    BY <1>4 DEF Commit, clientVars
  <2> QED BY <1>1, <1>4, <2>1, LogGrows DEF PositionsReached, Reached, Complete
<1>5. CASE Restart
  <2>1. CASE UNCHANGED <<last, log, local, saved>> /\ synced' = saved /\ snapshot' = -1
    BY <1>2, <2>1
  <2>2. CASE synced' = 0 /\ saved' = 0 /\ snapshot' = -1 /\ last' = last
    BY <1>1, <2>2 DEF PositionsReached, Reached, Complete
  <2> QED BY <1>5, <2>1, <2>2 DEF Restart, serverVars
<1>6. CASE StartJob \/ Fetch
  BY <1>2, <1>6 DEF StartJob, Fetch, serverVars
<1>7. CASE PurgeRead \/ PurgeWrite
  BY <1>2, <1>7, WireWrites DEF PurgeRead, PurgeWrite, serverVars
<1> QED BY <1>2, <1>3, <1>4, <1>5, <1>6, <1>7, WireWrites
        DEF Next, Progress, vars, serverVars, wireVars, clientVars

\* Frames, wherever they are.
LEMMA FramesStep ==
  ASSUME IInv, [Next]_vars
  PROVE  FramesTrue'
<1>1. Typed /\ FramesTrue /\ channel \in Seq(Views) /\ queue \in Seq(Tasks)
  BY TypedParts DEF IInv, Parts, WireTyped
<1> DEFINE ChannelTrue == \A k \in DOMAIN channel : channel[k] = Hello \/ Truthful(channel[k])
           TaskTrue(w) == (\A f \in w.frame : Truthful(f)) /\ (w.of = "frame" => w.frame # {})
           QueueTrue == \A k \in DOMAIN queue : TaskTrue(queue[k])
           LogTrue == \A i \in 1..last : Truthful(View(i, log[i]))
           OutTrue == \A f \in outgoing : Truthful(f)
<1>2. LogTrue /\ OutTrue /\ ChannelTrue /\ QueueTrue
  BY <1>1 DEF FramesTrue
<1>3. LogTrue' /\ OutTrue' /\ ChannelTrue' /\ QueueTrue' => FramesTrue'
  BY DEF FramesTrue
<1>4. CASE Commit
  <2>1. UNCHANGED <<channel, queue>> /\ outgoing' = outgoing \cup {View(last', log'[last'])} /\ Hello' = Hello
    BY <1>4 DEF Commit, wireVars, clientVars, Hello, View, Log!Nothing
  <2>2. LogTrue' /\ \A f : Truthful(f) => Truthful(f)'
    BY <1>1, <1>4, LogGrows
  <2>3. last' \in 1..last'
    BY <1>1, <1>4, CommitEffect, Bounds
  <2>4. OutTrue'
    BY <1>2, <2>1, <2>2, <2>3
  <2>5. ChannelTrue' /\ QueueTrue'
    BY <1>2, <2>1, <2>2
  <2> QED BY <1>3, <2>2, <2>4, <2>5
<1>5. ASSUME UNCHANGED <<last, log>>, outgoing' \subseteq outgoing
      PROVE  LogTrue' /\ OutTrue' /\ Hello' = Hello /\ \A f : Truthful(f)' <=> Truthful(f)
  BY <1>2, <1>5 DEF Truthful, Hello, View, Log!Nothing
<1>6. ASSUME UNCHANGED <<last, log>>, outgoing' \subseteq outgoing,
             \/ channel' \in {channel, <<>>}
             \/ channel # <<>> /\ channel' = Tail(channel)
             \/ \E f \in outgoing \cup {Hello} : f \in Views /\ channel' = Append(channel, f)
      PROVE  ChannelTrue'
  <2>1. CASE channel' \in {channel, <<>>}
    BY <1>2, <1>5, <1>6, <2>1
  <2>2. CASE channel # <<>> /\ channel' = Tail(channel)
    <3>1. \A k \in DOMAIN Tail(channel) : k + 1 \in DOMAIN channel /\ Tail(channel)[k] = channel[k + 1]
      BY <1>1, <2>2
    <3> QED BY <1>2, <1>5, <1>6, <2>2, <3>1
  <2>3. CASE \E f \in outgoing \cup {Hello} : f \in Views /\ channel' = Append(channel, f)
    <3>1. PICK f \in outgoing \cup {Hello} : f \in Views /\ channel' = Append(channel, f)
      BY <2>3
    <3>2. f = Hello \/ Truthful(f)
      BY <1>2, <3>1
    <3>3. \A k \in DOMAIN Append(channel, f) :
             \/ k \in DOMAIN channel /\ Append(channel, f)[k] = channel[k]
             \/ Append(channel, f)[k] = f
      BY <1>1, <3>1
    <3> QED BY <1>2, <1>5, <1>6, <3>1, <3>2, <3>3
  <2> QED BY <1>6, <2>1, <2>2, <2>3
<1>7. ASSUME UNCHANGED <<last, log>>, outgoing' \subseteq outgoing,
             \/ queue' \in {queue, <<>>}
             \/ queue # <<>> /\ queue' = Tail(queue)
             \/ \E w \in Tasks : TaskTrue(w) /\ queue' = Append(queue, w)
      PROVE  QueueTrue'
  <2>1. CASE queue' \in {queue, <<>>}
    BY <1>2, <1>5, <1>7, <2>1
  <2>2. CASE queue # <<>> /\ queue' = Tail(queue)
    <3>1. \A k \in DOMAIN Tail(queue) : k + 1 \in DOMAIN queue /\ Tail(queue)[k] = queue[k + 1]
      BY <1>1, <2>2
    <3> QED BY <1>2, <1>5, <1>7, <2>2, <3>1
  <2>3. CASE \E w \in Tasks : TaskTrue(w) /\ queue' = Append(queue, w)
    <3>1. PICK w \in Tasks : TaskTrue(w) /\ queue' = Append(queue, w)
      BY <2>3
    <3>2. \A k \in DOMAIN Append(queue, w) :
             \/ k \in DOMAIN queue /\ Append(queue, w)[k] = queue[k]
             \/ Append(queue, w)[k] = w
      BY <1>1, <3>1
    <3> QED BY <1>2, <1>5, <1>7, <3>1, <3>2
  <2> QED BY <1>7, <2>1, <2>2, <2>3
<1>8. CASE FanOut
  <2>1. PICK f \in outgoing : /\ outgoing' = outgoing \ {f}
                              /\ channel' \in {channel, Append(channel, f)}
                              /\ UNCHANGED <<last, log, queue>>
    BY <1>8 DEF FanOut, clientVars
  <2>2. f \in Views
    BY <1>1 DEF Typed, TypeOK
  <2> QED BY <1>3, <1>5, <1>6, <1>7, <2>1, <2>2
<1>9. CASE Greet
  <2>1. Hello \in Views
    BY <1>1, Bounds DEF Hello, View, Views, Entry, Log!Nothing
  <2> QED BY <1>3, <1>5, <1>6, <1>7, <1>9, <2>1 DEF Greet, serverVars, clientVars
<1>10. CASE ReceiveFrame
  <2> DEFINE w == [of |-> "frame", frame |-> {Head(channel)}]
  <2>1. /\ channel # <<>> /\ Head(channel) # Hello /\ channel' = Tail(channel) /\ queue' = Append(queue, w)
        /\ UNCHANGED <<last, log, outgoing>>
    BY <1>10 DEF ReceiveFrame, serverVars
  <2>2. Head(channel) = channel[1] /\ 1 \in DOMAIN channel /\ Head(channel) \in Views
    BY <1>1, <2>1
  <2>3. Truthful(Head(channel))
    BY <1>2, <2>1, <2>2
  <2>4. w \in Tasks /\ TaskTrue(w)
    BY <2>2, <2>3 DEF Tasks
  <2> QED BY <1>3, <1>5, <1>6, <1>7, <2>1, <2>4
<1>11. CASE ListConversations \/ AskHistory
  <2> DEFINE w(o) == [of |-> o, frame |-> {}]
  <2>1. /\ \E o \in {"sync", "history"} : queue' = Append(queue, w(o))
        /\ UNCHANGED <<last, log, outgoing, channel>>
    BY <1>11 DEF ListConversations, AskHistory, serverVars, wireVars
  <2>2. \A o \in {"sync", "history"} : w(o) \in Tasks /\ TaskTrue(w(o))
    BY DEF Tasks
  <2> QED BY <1>3, <1>5, <1>6, <1>7, <2>1, <2>2
<1>12. CASE /\ UNCHANGED <<last, log, outgoing>>
            /\ \/ channel' \in {channel, <<>>}
               \/ channel # <<>> /\ channel' = Tail(channel)
            /\ \/ queue' \in {queue, <<>>}
               \/ queue # <<>> /\ queue' = Tail(queue)
  BY <1>3, <1>5, <1>6, <1>7, <1>12
<1>13. CASE \/ ReceiveHello \/ Disconnect \/ Restart \/ StartJob \/ Connect \/ FinishSync \/ Fetch \/ Apply
            \/ Advance \/ Save \/ HttpFail \/ PurgeRead \/ PurgeWrite \/ UNCHANGED vars
  BY <1>12, <1>13 DEF ReceiveHello, Disconnect, Restart, StartJob, Connect, FinishSync, Fetch, Apply,
                      Advance, Save, HttpFail, PurgeRead, PurgeWrite, vars, serverVars, wireVars, clientVars
<1> QED BY <1>4, <1>8, <1>9, <1>10, <1>11, <1>13 DEF Next, Progress

\* What becomes of a sequence.
LEMMA SequenceTypes ==
  ASSUME NEW S
  PROVE  /\ <<>> \in Seq(S)
         /\ \A s \in Seq(S) : s # <<>> => Tail(s) \in Seq(S)
         /\ \A s \in Seq(S), e \in S : Append(s, e) \in Seq(S)
<1>1. <<>> \in Seq(S)
  OBVIOUS
<1>2. \A s \in Seq(S) : s # <<>> => Tail(s) \in Seq(S)
  OBVIOUS
<1>3. \A s \in Seq(S), e \in S : Append(s, e) \in Seq(S)
  OBVIOUS
<1> QED BY <1>1, <1>2, <1>3

\* Every variable keeps its type.
LEMMA TypedStep ==
  ASSUME IInv, [Next]_vars
  PROVE  Typed'
<1>1. /\ scene \in Scenes /\ ServerTyped /\ WireTyped /\ PositionsTyped /\ LocalTyped /\ SyncTyped
      /\ queue \in Seq(Tasks) /\ Typed /\ FramesTrue
  BY TypedParts DEF IInv, Parts
<1>2. /\ last \in Nat /\ MaxSeq \in Nat /\ last <= MaxSeq
  BY <1>1, Bounds
<1>3. /\ scene' = scene /\ MaxSeq' = MaxSeq /\ Seqs' = Seqs /\ Entry' = Entry /\ Views' = Views /\ Tasks' = Tasks
      /\ job' \in Jobs'
  BY SceneStays, JobStep
<1>4. Hello \in Views
  BY <1>2 DEF Hello, View, Views, Entry, Log!Nothing
<1> HIDE DEF Views, Tasks, Jobs, MaxSeq, Hello
<1>5. ServerTyped'
  <2>1. CASE Commit
    <3>1. last' = last + 1 /\ last' <= MaxSeq /\ log' \in [1..last' -> Entry]
      BY <1>1, <2>1, CommitEffect
    <3>2. View(last', log'[last']) \in Views
      BY <1>2, <3>1 DEF View, Views
    <3> QED BY <1>1, <1>2, <1>3, <2>1, <3>1, <3>2 DEF ServerTyped, Commit
  <2>2. CASE UNCHANGED <<last, log>> /\ outgoing' \subseteq outgoing
    BY <1>1, <1>3, <2>2 DEF ServerTyped
  <2>3. CASE FanOut
    BY <2>2, <2>3 DEF FanOut
  <2> QED BY <2>1, <2>2, <2>3, WireWrites
          DEF Next, Progress, vars, serverVars, StartJob, Fetch, Apply, Advance, Save, Restart
<1>6. WireTyped'
  <2>1. CASE UNCHANGED <<socket, channel>>
    BY <1>1, <1>3, <2>1 DEF WireTyped
  <2>2. CASE FanOut
    BY <1>1, <1>3, <2>2 DEF WireTyped, ServerTyped, FanOut
  <2>3. CASE Greet
    BY <1>1, <1>3, <1>4, <2>3 DEF WireTyped, Greet
  <2>4. CASE Connect \/ Disconnect \/ Restart
    <3>1. channel' \in {channel, <<>>} /\ socket' \in {"down", "added"}
      BY <2>4 DEF Connect, Disconnect, Restart
    <3> QED BY <1>1, <1>3, <3>1, SequenceTypes DEF WireTyped
  <2>5. CASE ReceiveHello \/ ReceiveFrame
    <3>1. channel # <<>> /\ channel' = Tail(channel) /\ socket' = socket
      BY <2>5 DEF ReceiveHello, ReceiveFrame
    <3> QED BY <1>1, <1>3, <3>1, SequenceTypes DEF WireTyped
  <2> QED BY <2>1, <2>2, <2>3, <2>4, <2>5, WireWrites
          DEF Next, Progress, vars, wireVars, Commit, StartJob, Fetch, Apply, Advance, Save
<1>7. queue' \in Seq(Tasks)
  <2>1. CASE UNCHANGED queue
    BY <1>1, <2>1
  <2>2. CASE StartJob \/ Restart
    <3>1. queue' = <<>> \/ (queue # <<>> /\ queue' = Tail(queue))
      BY <2>2 DEF StartJob, Restart
    <3> QED BY <1>1, <3>1, SequenceTypes
  <2>3. CASE ReceiveFrame
    <3>1. Head(channel) \in Views
      BY <1>1, <2>3 DEF WireTyped, ReceiveFrame
    <3>2. [of |-> "frame", frame |-> {Head(channel)}] \in Tasks
      BY <3>1 DEF Tasks
    <3> QED BY <1>1, <2>3, <3>2 DEF ReceiveFrame
  <2>4. CASE ListConversations \/ AskHistory
    <3>1. \A o \in {"sync", "history"} : [of |-> o, frame |-> {}] \in Tasks
      BY DEF Tasks
    <3> QED BY <1>1, <2>4, <3>1 DEF ListConversations, AskHistory
  <2> QED BY <2>1, <2>2, <2>3, <2>4, WireWrites
          DEF Next, Progress, vars, clientVars, Commit, Fetch, Apply, Advance, Save
<1>8. PositionsTyped'
  <2>1. CASE UNCHANGED <<synced, saved, snapshot>>
    BY <1>1, <1>3, <2>1 DEF PositionsTyped
  <2>2. CASE Advance
    <3>1. synced' \in 0..MaxSeq
      BY <2>2, AdvanceOK
    <3> QED BY <1>1, <1>3, <2>2, <3>1 DEF PositionsTyped, Advance
  <2>3. CASE Save \/ PurgeRead \/ PurgeWrite \/ Restart
    <3>1. 0 \in 0..MaxSeq /\ -1 \in -1..MaxSeq /\ synced \in -1..MaxSeq
      BY <1>1, <1>2 DEF PositionsTyped
    <3>2. snapshot >= 0 => snapshot \in 0..MaxSeq
      BY <1>1, <1>2 DEF PositionsTyped
    <3>3. CASE Save
      BY <1>1, <1>3, <3>3 DEF PositionsTyped, Save
    <3>4. CASE PurgeRead
      BY <1>1, <1>3, <3>1, <3>4 DEF PositionsTyped, PurgeRead
    <3>5. CASE PurgeWrite
      BY <1>1, <1>3, <3>1, <3>2, <3>5 DEF PositionsTyped, PurgeWrite
    <3>6. CASE Restart
      <4>1. synced' \in {saved, 0} /\ saved' \in {saved, 0} /\ snapshot' = -1
        BY <3>6 DEF Restart
      <4> QED BY <1>1, <1>3, <3>1, <4>1 DEF PositionsTyped
    <3> QED BY <2>3, <3>3, <3>4, <3>5, <3>6
  <2> QED BY <2>1, <2>2, <2>3, WireWrites
          DEF Next, Progress, vars, clientVars, Commit, StartJob, Fetch, Apply
<1>9. LocalTyped'
  <2>1. CASE UNCHANGED local
    BY <1>1, <1>3, <2>1 DEF LocalTyped
  <2>2. CASE Apply
    BY <1>3, <2>2, ApplyKeepsTexts DEF LocalTyped
  <2>3. CASE Restart
    <3>1. 0 \in 0..MaxSeq
      BY <1>2
    <3>2. [i \in Seqs |-> 0] \in [Seqs -> 0..MaxSeq]
      BY <3>1
    <3> QED BY <1>1, <1>3, <2>3, <3>2 DEF LocalTyped, Restart
  <2> QED BY <2>1, <2>2, <2>3, WireWrites
          DEF Next, Progress, vars, clientVars, Commit, StartJob, Fetch, Advance, Save
<1>10. SyncTyped'
  <2>1. CASE UNCHANGED sync
    BY <1>1, <2>1 DEF SyncTyped
  <2>2. CASE Fetch \/ Save
    BY <1>1, <2>2 DEF SyncTyped, Fetch, Save, NextPart, Release
  <2>3. CASE ReceiveHello \/ ListConversations \/ FinishSync \/ HttpFail \/ Restart
    BY <1>1, <2>3 DEF SyncTyped, ReceiveHello, ListConversations, FinishSync, HttpFail, Restart
  <2> QED BY <2>1, <2>2, <2>3, WireWrites
          DEF Next, Progress, vars, clientVars, Commit, StartJob, Apply, Advance, AskHistory, PurgeRead, PurgeWrite
<1>11. Parts'
  BY <1>1, <1>3, <1>5, <1>6, <1>7, <1>8, <1>9, <1>10 DEF Parts
<1> QED BY <1>11, TypedParts

\* The invariant holds before anything has happened.
LEMMA InitIInv == Init => IInv
<1> SUFFICES ASSUME Init PROVE IInv
  OBVIOUS
<1>1. /\ scene \in Scenes /\ MaxSeq \in Nat
  BY SyncAssumption DEF Init, MaxSeq
<1>2. last = 0 /\ log = [i \in 1..0 |-> Log!Nothing]
  BY DEF Init, Log!Init
<1>3. job = Free /\ queue = <<>> /\ channel = <<>> /\ outgoing = {}
  BY DEF Init
<1>4. TypeOK
  <2>1. 0 \in 0..MaxSeq /\ -1 \in -1..MaxSeq
    BY <1>1
  <2>2. Free \in Jobs
    BY <2>1 DEF Free, Jobs
  <2>3. local \in [Seqs -> 0..MaxSeq]
    BY <2>1 DEF Init
  <2>4. channel \in Seq(Views)
    BY <1>3
  <2>5. log \in [1..last -> Entry]
    BY <1>2
  <2> HIDE DEF Free
  <2> QED BY <1>2, <1>3, <2>1, <2>2, <2>3, <2>4, <2>5 DEF TypeOK, Init, Jobs
<1>5. Typed
  BY <1>1, <1>3, <1>4 DEF Typed
<1>6. FramesTrue
  BY <1>2, <1>3 DEF FramesTrue
<1>7. Reached(0) /\ Reached(-1) /\ Held(Free, 0)
  BY <1>2 DEF Reached, Complete, Held
<1>8. PositionsReached
  BY <1>7 DEF PositionsReached, Init
<1>9. JobOK(job) /\ CurrentReached
  <2>1. Free.at = "free" /\ Free.page = {} /\ Free.frame = {} /\ Free.base = 0 /\ Free.after = 0
    BY DEF Free
  <2> HIDE DEF Free
  <2> QED BY <1>2, <1>3, <1>7, <2>1 DEF JobOK, Continues, Applying, CurrentReached
<1> QED BY <1>5, <1>6, <1>8, <1>9 DEF IInv

(***************************************************************************)
(* The theorems.                                                           *)
(***************************************************************************)
\* Always: positions, pages and frames follow what the device has, whatever frames
\* were lost or overtook each other (onLiveMessage, backfill, applyStored, purgeExpired).
THEOREM Invariant == Spec => []IInv
<1>1. IInv /\ [Next]_vars => IInv'
  BY TypedStep, FramesStep, PositionsStep, JobStep DEF IInv
<1> QED BY <1>1, InitIInv, PTL DEF Spec

\* Every variable keeps its type: no page, frame or position beyond the log's bound.
THEOREM SyncTypeCorrect == Spec => []TypeOK
<1>1. IInv => TypeOK
  BY DEF IInv, Typed
<1> QED BY <1>1, Invariant, PTL

\* A message the server still stores at or below the position, in memory or in the
\* database, is on the device, whatever was lost, repeated, restarted or written back
\* from an old copy (onLiveMessage's gap check, backfill, purgeExpired).
THEOREM SyncSkipsNothing == Spec => []NothingSkipped
<1>1. IInv => NothingSkipped
  <2> SUFFICES ASSUME IInv, NEW i \in 1..last, IsText(log[i]), i <= synced \/ i <= saved
               PROVE  local[i] # 0
    BY DEF NothingSkipped
  <2>1. Complete(synced) /\ Complete(saved)
    BY DEF IInv, PositionsReached, Reached
  <2>2. synced \in Nat /\ saved \in Nat /\ last \in Nat
    BY Bounds DEF IInv, Typed, TypeOK
  <2>3. i \in 1..synced \/ i \in 1..saved
    BY <2>2
  <2> QED BY <2>1, <2>3 DEF Complete
<1> QED BY <1>1, Invariant, PTL

(***************************************************************************)
(* Pages alone: a device that gets no frames.                              *)
(***************************************************************************)
\* Nothing but hello comes over the socket, so no frame waits or is applied.
PagesOnly ==
    /\ \A k \in DOMAIN channel : channel[k] = Hello
    /\ \A k \in DOMAIN queue : queue[k].of # "frame" /\ queue[k].frame = {}
    /\ job.frame = {}

RecordOf(r, i) == log[r].kind = "record" /\ log[r].of = i

\* Edits follow their text.
EditsFollow ==
    \A j \in 1..last : log[j].kind = "message" /\ log[j].body # 0 => log[j].body < j

\* What the device shows of a message is its text or one of its edits.
Values ==
    \A i \in Seqs : local[i] # 0 =>
        /\ i <= last
        /\ local[i] = i \/ (local[i] \in 1..last /\ IsEdit(log[local[i]], i))

\* The entries up to this number are applied, in order, since the position last fell
\* back; later ones may have been applied before.
Done == CASE job.at = "free"  -> synced
          [] job.at = "fetch" -> job.after
          [] job.at = "apply" -> Current.seq - 1
          [] OTHER            -> Current.seq

\* Texts up to p show an edit at least as late as the last one up to p.
Shows(p) ==
    \A i \in 1..p : IsText(log[i]) =>
        local[i] # 0 /\ \A j \in 1..p : IsEdit(log[j], i) => j <= local[i]

\* A message shown although it is gone is yet to meet its record.
Erased(p) ==
    \A i \in Seqs : local[i] # 0 /\ ~IsText(log[i]) => \E r \in (p + 1)..last : RecordOf(r, i)

\* No position runs ahead of what is applied in order.
Behind ==
    /\ saved <= synced /\ snapshot <= synced /\ synced <= Done
    /\ job.at = "advance" => job.base <= Current.seq

\* The page is what the log holds up to its last entry; a text that has gone since was
\* deleted by a record behind the page.
PageTrue ==
    job.at \in Applying =>
        /\ \E f \in job.page : f.seq = job.after
        /\ \A f \in job.page :
              /\ f.seq <= job.after /\ f.entry.kind # "gone"
              /\ \/ f.entry = log[f.seq]
                 \/ /\ IsText(f.entry) /\ log[f.seq].kind = "gone"
                    /\ \E r \in (job.after + 1)..last : RecordOf(r, f.seq)
        /\ \A k \in 1..last :
              k <= job.after /\ Current.seq < k /\ log[k].kind # "gone" =>
                  \E g \in job.page : g.seq = k

InOrder == EditsFollow /\ Values /\ Behind /\ PageTrue /\ Shows(Done) /\ Erased(Done)

PInv == ~scene.live => PagesOnly /\ InOrder

\* The variables of a device that reads pages, and its entry in hand.
LEMMA Reading ==
  ASSUME IInv
  PROVE  /\ last \in Nat /\ MaxSeq \in Nat /\ last <= MaxSeq /\ Seqs = 1..MaxSeq
         /\ job \in Jobs /\ job.after \in 0..last /\ job.base \in 0..last
         /\ synced \in 0..last /\ saved \in 0..last /\ snapshot \in -1..last
         /\ Done \in Int /\ Done <= last
         /\ job.at \in Applying =>
              /\ Current \in job.page /\ Current.seq \in 1..last
              /\ \A g \in job.page : Current.seq <= g.seq /\ g.seq \in 1..last
<1>1. Typed /\ job \in Jobs /\ PositionsTyped /\ PositionsReached /\ JobOK(job)
  BY TypedParts DEF IInv, Parts
<1>2. last \in Nat /\ MaxSeq \in Nat /\ last <= MaxSeq /\ Seqs = 1..MaxSeq
  BY <1>1, Bounds DEF Seqs
<1>3. job.after \in 0..last /\ job.base \in 0..last
  BY <1>1, <1>2 DEF JobOK, Continues, Reached, Jobs
<1>4. synced \in 0..last /\ saved \in 0..last /\ snapshot \in -1..last
  BY <1>1, <1>2 DEF PositionsTyped, PositionsReached, Reached
<1>5. ASSUME job.at \in Applying
      PROVE  /\ Current \in job.page /\ Current.seq \in 1..last
             /\ \A g \in job.page : Current.seq <= g.seq /\ g.seq \in 1..last
  <2>1. job.page \subseteq Views /\ job.page # {} /\ \A g \in job.page : g.seq \in 1..last
    BY <1>1, <1>5 DEF Jobs, JobOK, Continues, Truthful
  <2> QED BY <1>2, <2>1, CurrentIsFirst
<1>6. Done \in Int /\ Done <= last
  <2>1. job.at \in {"free", "fetch"} \cup Applying
    BY <1>1 DEF Jobs, Applying
  <2> QED BY <1>2, <1>3, <1>4, <1>5, <2>1 DEF Done, Applying
<1> QED BY <1>1, <1>2, <1>3, <1>4, <1>5, <1>6

\* What is shown up to some number is shown up to every smaller one.
LEMMA Downward ==
  ASSUME NEW p \in Int, NEW q \in Int, p <= q, last \in Nat
  PROVE  (Shows(q) => Shows(p)) /\ (Erased(q) => Erased(p))
<1>1. Shows(q) => Shows(p)
  BY DEF Shows
<1>2. Erased(q) => Erased(p)
  <2>1. \A r \in (q + 1)..last : r \in (p + 1)..last
    OBVIOUS
  <2> QED BY <2>1 DEF Erased
<1> QED BY <1>1, <1>2

\* And up to every larger one, if the log holds nothing between.
LEMMA Upward ==
  ASSUME NEW p \in Int, NEW q \in Int, q <= last, last \in Nat, 0 <= p,
         \A k \in 1..last : p < k /\ k <= q => log[k].kind = "gone",
         Shows(p), Erased(p)
  PROVE  Shows(q) /\ Erased(q)
<1>1. \A k \in 1..q : k \in 1..p \/ log[k].kind = "gone"
  OBVIOUS
<1>2. Shows(q)
  <2>1. \A k \in 1..q : IsText(log[k]) => k \in 1..p
    BY <1>1 DEF IsText
  <2>2. \A k \in 1..q, i \in 1..q : IsEdit(log[k], i) => k \in 1..p
    BY <1>1 DEF IsEdit
  <2> QED BY <2>1, <2>2 DEF Shows
<1>3. Erased(q)
  <2> SUFFICES ASSUME NEW i \in Seqs, local[i] # 0, ~IsText(log[i])
               PROVE  \E r \in (q + 1)..last : RecordOf(r, i)
    BY DEF Erased
  <2>1. PICK r \in (p + 1)..last : RecordOf(r, i)
    BY DEF Erased
  <2>2. r \in 1..last /\ p < r
    OBVIOUS
  <2>3. ~(r <= q)
    BY <2>1, <2>2 DEF RecordOf
  <2> QED BY <2>1, <2>2, <2>3
<1> QED BY <1>2, <1>3

\* Where all positions are free to go on from.
LEMMA FallBack ==
  ASSUME IInv, InOrder
  PROVE  /\ Shows(synced) /\ Erased(synced)
         /\ Shows(saved) /\ Erased(saved)
         /\ Shows(snapshot) /\ Erased(snapshot)
<1>1. /\ synced \in Int /\ saved \in Int /\ snapshot \in Int /\ Done \in Int /\ last \in Nat
      /\ saved <= synced /\ snapshot <= synced /\ synced <= Done /\ Shows(Done) /\ Erased(Done)
  BY Reading DEF InOrder, Behind
<1>2. saved <= Done /\ snapshot <= Done
  BY <1>1
<1> QED BY <1>1, <1>2, Downward

\* Only hello, and no frames in the queue.
LEMMA PagesOnlyStep ==
  ASSUME IInv, PagesOnly, ~scene.live, [Next]_vars
  PROVE  PagesOnly'
<1>1. /\ channel \in Seq(Views) /\ queue \in Seq(Tasks) /\ job \in Jobs
      /\ \A k \in DOMAIN channel : channel[k] = Hello
      /\ \A k \in DOMAIN queue : queue[k].of # "frame" /\ queue[k].frame = {}
      /\ job.frame = {} /\ Hello' = Hello
  BY TypedParts DEF IInv, Parts, WireTyped, PagesOnly, Hello, View, Log!Nothing
<1>2. \A k \in DOMAIN channel' : channel'[k] = Hello
  <2>1. CASE channel' \in {channel, <<>>}
    BY <1>1, <2>1
  <2>2. CASE channel # <<>> /\ channel' = Tail(channel)
    <3>1. \A k \in DOMAIN Tail(channel) : k + 1 \in DOMAIN channel /\ Tail(channel)[k] = channel[k + 1]
      BY <1>1, <2>2
    <3> QED BY <1>1, <2>2, <3>1
  <2>3. CASE Greet
    <3>1. channel' = Append(channel, Hello)
      BY <2>3 DEF Greet
    <3>2. Hello \in Views
      BY Bounds DEF IInv, Hello, View, Views, Entry, Log!Nothing
    <3>3. \A k \in DOMAIN Append(channel, Hello) :
             \/ k \in DOMAIN channel /\ Append(channel, Hello)[k] = channel[k]
             \/ Append(channel, Hello)[k] = Hello
      BY <1>1, <3>2
    <3> QED BY <1>1, <3>1, <3>3
  <2>4. CASE FanOut
    BY <2>1, <2>4 DEF FanOut
  <2> QED BY <2>1, <2>2, <2>3, <2>4, WireWrites
          DEF Next, Progress, vars, wireVars, Commit, StartJob, Fetch, Apply, Advance, Save, Connect, Disconnect,
              ReceiveHello, ReceiveFrame, Restart
<1>3. \A k \in DOMAIN queue' : queue'[k].of # "frame" /\ queue'[k].frame = {}
  <2>1. CASE queue' \in {queue, <<>>}
    BY <1>1, <2>1
  <2>2. CASE StartJob
    <3>1. queue # <<>> /\ queue' = Tail(queue)
      BY <2>2 DEF StartJob
    <3>2. \A k \in DOMAIN Tail(queue) : k + 1 \in DOMAIN queue /\ Tail(queue)[k] = queue[k + 1]
      BY <1>1, <3>1
    <3> QED BY <1>1, <3>1, <3>2
  <2>3. CASE ListConversations \/ AskHistory
    <3>1. PICK o \in {"sync", "history"} : queue' = Append(queue, [of |-> o, frame |-> {}])
      BY <2>3 DEF ListConversations, AskHistory
    <3> DEFINE w == [of |-> o, frame |-> {}]
    <3>2. w \in Tasks /\ w.of # "frame" /\ w.frame = {}
      BY DEF Tasks
    <3> HIDE DEF w
    <3>3. \A k \in DOMAIN Append(queue, w) :
             \/ k \in DOMAIN queue /\ Append(queue, w)[k] = queue[k]
             \/ Append(queue, w)[k] = w
      BY <1>1, <3>2
    <3> QED BY <1>1, <3>1, <3>2, <3>3 DEF w
  <2>4. CASE ReceiveFrame
    <3>1. channel # <<>> /\ Head(channel) # Hello
      BY <2>4 DEF ReceiveFrame
    <3>2. Head(channel) = channel[1] /\ 1 \in DOMAIN channel
      BY <1>1, <3>1
    <3> QED BY <1>1, <3>1, <3>2
  <2> QED BY <2>1, <2>2, <2>3, <2>4, WireWrites
          DEF Next, Progress, vars, clientVars, Commit, Fetch, Apply, Advance, Save, Restart
<1>4. job'.frame = {}
  <2>1. CASE job' \in {job, Free}
    BY <1>1, <2>1 DEF Free
  <2>2. CASE StartJob
    <3>1. Head(queue) = queue[1] /\ 1 \in DOMAIN queue
      BY <1>1, <2>2 DEF StartJob
    <3>2. Head(queue).frame = {} /\ Head(queue).of # "frame"
      BY <1>1, <3>1
    <3>3. job' = [Free EXCEPT !.at = "fetch", !.of = Head(queue).of, !.after = synced, !.frame = Head(queue).frame]
      BY <2>2, <3>2 DEF StartJob
    <3> QED BY <3>2, <3>3 DEF Free
  <2>3. CASE Apply \/ Advance
    BY <1>1, <2>3 DEF Apply, Advance, Jobs
  <2>4. ASSUME NEW j, j.frame = {}, j \in Jobs, NextPart(j) PROVE job'.frame = {}
    BY <2>4 DEF NextPart, Release, Free, Jobs
  <2>5. CASE Fetch
    <3> DEFINE V == {View(i, log[i]) : i \in Page(job.after)}
               m == Page(job.after) # Stored(job.after)
               a == IF Page(job.after) = {} THEN job.after
                    ELSE CHOOSE i \in Page(job.after) : \A k \in Page(job.after) : k <= i
               j == [job EXCEPT !.page = V, !.more = m, !.after = a]
               x == [j EXCEPT !.at = "apply"]
               y == [j EXCEPT !.at = "fetch"]
    <3>1. NextPart(j)
      BY <2>5 DEF Fetch
    <3> HIDE DEF V, m, a
    <3>2. j.frame = {} /\ x.frame = {} /\ y.frame = {} /\ Free.frame = {}
      BY <1>1 DEF Jobs, Free
    <3> HIDE DEF j
    <3>3. job' = x \/ job' = y \/ job' = Free
      BY <3>1, <3>2 DEF NextPart, Release
    <3> HIDE DEF x, y
    <3> QED BY <3>2, <3>3
  <2>6. CASE Save
    <3> DEFINE j == [job EXCEPT !.page = @ \ {Current}]
    <3>1. NextPart(j)
      BY <2>6 DEF Save
    <3>2. j \in Jobs /\ j.frame = {}
      BY <1>1 DEF Jobs
    <3> QED BY <2>4, <3>1, <3>2
  <2> QED BY <2>1, <2>2, <2>3, <2>5, <2>6, WireWrites
          DEF Next, Progress, vars, clientVars, Commit, HttpFail, Restart
<1> QED BY <1>2, <1>3, <1>4 DEF PagesOnly

\* A step that leaves the log, what is shown, the positions and the task.
LEMMA OrderStays ==
  ASSUME InOrder, UNCHANGED <<scene, last, log, local, synced, saved, snapshot, job>>
  PROVE  InOrder'
<1>1. Current' = Current /\ Done' = Done /\ Seqs' = Seqs
  BY DEF Current, Done, Seqs, MaxSeq
<1>2. EditsFollow' /\ Values'
  BY <1>1 DEF InOrder, EditsFollow, Values
<1>3. Behind' /\ PageTrue'
  BY <1>1 DEF InOrder, Behind, PageTrue, RecordOf
<1>4. Shows(Done)' /\ Erased(Done)'
  BY <1>1 DEF InOrder, Shows, Erased, RecordOf
<1> QED BY <1>2, <1>3, <1>4 DEF InOrder

\* A commit empties at most the text its record names, and an edit follows its text.
LEMMA CommitNames ==
  ASSUME Typed, Commit
  PROVE  /\ \A i \in 1..last : \/ log'[i] = log[i]
                              \/ /\ log'[i].kind = "gone" /\ IsText(log[i])
                                 /\ log'[last'].kind = "record" /\ log'[last'].of = i
         /\ log'[last'].kind = "message" /\ log'[last'].body # 0 => log'[last'].body \in 1..last
         /\ last' = last + 1 /\ log'[last'].kind \in {"message", "record"}
<1>1. last \in Nat
  BY Bounds
<1>2. CASE Log!Append /\ (LET b == log'[last'].body IN b # 0 => b \in 1..last /\ IsText(log[b]))
  <2>1. PICK m \in 0..TopSeq : last' = last + 1 /\ log' = Log!Extended(log, last, Log!Message(m))
    BY <1>2 DEF Log!Append
  <2>2. log' = [i \in 1..(last + 1) |-> IF i = last + 1 THEN Log!Message(m) ELSE log[i]]
    BY <2>1 DEF Log!Extended
  <2>3. log'[last'] = Log!Message(m) /\ \A i \in 1..last : log'[i] = log[i]
    BY <1>1, <2>1, <2>2
  <2>4. Log!Message(m).kind = "message"
    BY DEF Log!Message
  <2> QED BY <1>2, <2>1, <2>3, <2>4
<1>3. CASE Log!Delete /\ IsText(log[log'[last'].of])
  <2>1. PICK of \in 1..last :
           /\ last' = last + 1
           /\ log' = Log!Extended(Log!Without(log, last, {of}), last, Log!Record("someone", of))
    BY <1>3 DEF Log!Delete
  <2> DEFINE l == Log!Without(log, last, {of})
             r == Log!Record("someone", of)
  <2>2. l = [i \in 1..last |-> IF i = of THEN Log!Nothing ELSE log[i]]
    BY DEF Log!Without
  <2>3. log' = [i \in 1..(last + 1) |-> IF i = last + 1 THEN r ELSE l[i]]
    BY <2>1 DEF Log!Extended
  <2>4. r.kind = "record" /\ r.of = of /\ Log!Nothing.kind = "gone"
    BY DEF Log!Record, Log!Nothing
  <2> HIDE DEF l, r
  <2>5. last + 1 \in 1..(last + 1) /\ \A i \in 1..last : i \in 1..(last + 1) /\ i # last + 1
    BY <1>1
  <2>6. log'[last'] = r
    BY <2>1, <2>3, <2>5
  <2>7. \A i \in 1..last : log'[i] = IF i = of THEN Log!Nothing ELSE log[i]
    BY <2>2, <2>3, <2>5
  <2>8. \A i \in 1..last : i # of => log'[i] = log[i]
    BY <2>7
  <2>9. log'[of] = Log!Nothing
    BY <2>7
  <2> HIDE DEF Log!Nothing
  <2>10. IsText(log[of])
    BY <1>3, <2>4, <2>6
  <2> QED BY <2>1, <2>4, <2>6, <2>8, <2>9, <2>10
<1> QED BY <1>2, <1>3 DEF Commit

\* What is shown and what is under way stay in order as the log grows.
LEMMA CommitInOrder ==
  ASSUME IInv, InOrder, Commit
  PROVE  InOrder'
<1>1. /\ last \in Nat /\ MaxSeq \in Nat /\ last <= MaxSeq /\ Seqs = 1..MaxSeq /\ job.after \in 0..last
      /\ Done \in Int /\ Done <= last
      /\ job.at \in Applying => /\ Current \in job.page
                               /\ \A g \in job.page : Current.seq <= g.seq /\ g.seq \in 1..last
  BY Reading
<1>2. UNCHANGED <<scene, local, synced, saved, snapshot, job>>
  BY DEF Commit, clientVars
<1>3. Current' = Current /\ Done' = Done /\ Seqs' = Seqs
  BY <1>2 DEF Current, Done, Seqs, MaxSeq
<1>4. /\ last' = last + 1
      /\ \A i \in 1..last : \/ log'[i] = log[i]
                            \/ log'[i].kind = "gone" /\ IsText(log[i]) /\ RecordOf(last, i)'
      /\ log'[last'].kind = "message" /\ log'[last'].body # 0 => log'[last'].body \in 1..last
      /\ log'[last'].kind \in {"message", "record"}
  BY CommitNames DEF RecordOf, IInv
<1>5. \A i \in 1..last : IsText(log'[i]) => IsText(log[i])
  BY <1>4 DEF IsText
<1>6. \A j \in 1..last : \A i \in 1..last : IsEdit(log'[j], i) <=> IsEdit(log[j], i)
  BY <1>4 DEF IsText, IsEdit
<1>7. \A r \in 1..last : \A i : RecordOf(r, i) => log'[r] = log[r]
  BY <1>4 DEF IsText, RecordOf
<1>8. \A n \in Int : \A i : (\E r \in (n + 1)..last : RecordOf(r, i)) /\ n >= 0
                        => \E r \in (n + 1)..last' : log'[r].kind = "record" /\ log'[r].of = i
  BY <1>1, <1>4, <1>7 DEF RecordOf
<1>9. EditsFollow'
  <2>1. \A j \in 1..last : log'[j].kind = "message" /\ log'[j].body # 0 => log'[j].body < j
    BY <1>4 DEF InOrder, EditsFollow
  <2>2. log'[last'].kind = "message" /\ log'[last'].body # 0 => log'[last'].body < last'
    BY <1>1, <1>4
  <2> QED BY <1>1, <1>4, <2>1, <2>2 DEF EditsFollow
<1>10. Values'
  <2> SUFFICES ASSUME NEW i \in Seqs, local[i] # 0
               PROVE  /\ i <= last'
                      /\ local[i] = i \/ (local[i] \in 1..last' /\ IsEdit(log'[local[i]], i))
    BY <1>2, <1>3 DEF Values
  <2>1. i <= last /\ (local[i] = i \/ (local[i] \in 1..last /\ IsEdit(log[local[i]], i)))
    BY DEF InOrder, Values
  <2>2. i \in 1..last
    BY <1>1, <2>1
  <2> QED BY <1>1, <1>4, <1>6, <2>1, <2>2
<1>11. Behind'
  BY <1>2, <1>3 DEF InOrder, Behind
<1>12. Shows(Done)'
  <2> SUFFICES ASSUME NEW i \in 1..Done, IsText(log'[i])
               PROVE  local[i] # 0 /\ \A j \in 1..Done : IsEdit(log'[j], i) => j <= local[i]
    BY <1>2, <1>3 DEF Shows
  <2>1. i \in 1..last /\ \A j \in 1..Done : j \in 1..last
    BY <1>1
  <2> QED BY <1>5, <1>6, <2>1 DEF InOrder, Shows
<1>13. Erased(Done)'
  <2> SUFFICES ASSUME NEW i \in Seqs, local[i] # 0, ~IsText(log'[i])
               PROVE  \E r \in (Done + 1)..last' : log'[r].kind = "record" /\ log'[r].of = i
    BY <1>2, <1>3 DEF Erased, RecordOf
  <2>1. i \in 1..last
    BY <1>1 DEF InOrder, Values
  <2>2. CASE IsText(log[i])
    <3>1. log'[last'].kind = "record" /\ log'[last'].of = i
      BY <1>4, <2>1, <2>2 DEF RecordOf
    <3>2. last' \in (Done + 1)..last'
      BY <1>1, <1>4
    <3> QED BY <3>1, <3>2
  <2>3. CASE ~IsText(log[i])
    <3>1. PICK r \in (Done + 1)..last : RecordOf(r, i)
      BY <2>3 DEF InOrder, Erased
    <3>2. Done >= 0
      <4>1. synced <= Done /\ synced \in 0..last
        BY Reading DEF InOrder, Behind
      <4> QED BY <1>1, <4>1
    <3> QED BY <1>1, <1>8, <3>1, <3>2
  <2> QED BY <2>2, <2>3
<1>14. PageTrue'
  <2> SUFFICES ASSUME job.at \in Applying PROVE PageTrue'
    BY <1>2 DEF PageTrue
  <2>1. \A f \in job.page : f.seq \in 1..last /\ Current.seq <= f.seq /\ Current \in job.page
    BY <1>1
  <2>2. ASSUME NEW f \in job.page
        PROVE  \/ f.entry = log'[f.seq]
               \/ /\ IsText(f.entry) /\ log'[f.seq].kind = "gone"
                  /\ \E r \in (job.after + 1)..last' : log'[r].kind = "record" /\ log'[r].of = f.seq
    <3>1. CASE f.entry = log[f.seq] /\ log'[f.seq] = log[f.seq]
      BY <3>1
    <3>2. CASE f.entry = log[f.seq] /\ log'[f.seq] # log[f.seq]
      <4>1. log'[f.seq].kind = "gone" /\ IsText(log[f.seq]) /\ RecordOf(last, f.seq)'
        BY <1>4, <2>1, <3>2
      <4>2. last' \in (job.after + 1)..last'
        BY <1>1, <1>4
      <4> QED BY <3>2, <4>1, <4>2 DEF RecordOf
    <3>3. CASE f.entry # log[f.seq]
      <4>1. /\ IsText(f.entry) /\ log[f.seq].kind = "gone"
            /\ \E r \in (job.after + 1)..last : RecordOf(r, f.seq)
        BY <2>2, <3>3 DEF InOrder, PageTrue
      <4>2. log'[f.seq] = log[f.seq]
        BY <1>4, <2>1, <4>1 DEF IsText
      <4>3. \E r \in (job.after + 1)..last' : log'[r].kind = "record" /\ log'[r].of = f.seq
        <5>1. PICK r \in (job.after + 1)..last : RecordOf(r, f.seq)
          BY <4>1
        <5>2. r \in 1..last /\ r \in (job.after + 1)..last'
          BY <1>1, <1>4
        <5>3. log'[r] = log[r]
          BY <1>7, <5>1, <5>2
        <5> QED BY <5>1, <5>2, <5>3 DEF RecordOf
      <4>4. log'[f.seq].kind = "gone"
        BY <4>1, <4>2
      <4> QED BY <4>1, <4>3, <4>4
    <3> QED BY <3>1, <3>2, <3>3
  <2>3. ASSUME NEW k \in 1..last', k <= job.after, Current.seq < k, log'[k].kind # "gone"
        PROVE  \E g \in job.page : g.seq = k
    <3>1. k \in 1..last
      BY <1>1, <1>4, <2>3
    <3>2. log[k].kind # "gone"
      BY <1>4, <2>3, <3>1 DEF IsText
    <3> QED BY <2>3, <3>1, <3>2 DEF InOrder, PageTrue
  <2> QED BY <1>2, <1>3, <2>2, <2>3 DEF InOrder, PageTrue, RecordOf
<1> QED BY <1>9, <1>10, <1>11, <1>12, <1>13, <1>14 DEF InOrder

\* Applying the entry in hand: what is shown up to the one before it becomes what is
\* shown up to it.
LEMMA ApplyShows ==
  ASSUME IInv, InOrder, Apply
  PROVE  /\ \A i \in Seqs : local'[i] # 0 =>
              /\ i <= last
              /\ local'[i] = i \/ (local'[i] \in 1..last /\ IsEdit(log[local'[i]], i))
         /\ \A i \in 1..Current.seq : IsText(log[i]) =>
              local'[i] # 0 /\ \A j \in 1..Current.seq : IsEdit(log[j], i) => j <= local'[i]
         /\ \A i \in Seqs : local'[i] # 0 /\ ~IsText(log[i]) =>
              \E r \in (Current.seq + 1)..last : RecordOf(r, i)
<1> DEFINE e == Current.entry
           n == Current.seq
<1>1. /\ last \in Nat /\ MaxSeq \in Nat /\ last <= MaxSeq /\ Seqs = 1..MaxSeq /\ job.after \in 0..last
      /\ Current \in job.page /\ n \in 1..last /\ job.at = "apply"
  BY Reading DEF Apply, Applying
<1>2. local \in [Seqs -> 0..MaxSeq] /\ Truthful(Current) /\ FramesTrue
  BY <1>1, TypedParts DEF IInv, Parts, LocalTyped, JobOK, Continues
<1>3. Done = n - 1
  BY <1>1 DEF Done
<1>4. /\ n <= job.after /\ e.kind # "gone"
      /\ \/ e = log[n]
         \/ /\ IsText(e) /\ log[n].kind = "gone"
            /\ \E r \in (job.after + 1)..last : RecordOf(r, n)
  BY <1>1 DEF InOrder, PageTrue, Applying
<1>5. local' = CASE e.kind = "record" -> [local EXCEPT ![e.of] = 0]
                 [] IsText(e)         -> [local EXCEPT ![n] = n]
                 [] OTHER             -> [local EXCEPT ![e.body] = IF @ # 0 THEN n ELSE 0]
  BY DEF Apply
<1> HIDE DEF e, n
<1>6. \A i \in Seqs : local[i] # 0 =>
        i <= last /\ (local[i] = i \/ (local[i] \in 1..last /\ IsEdit(log[local[i]], i)))
  BY DEF InOrder, Values
<1>7. \A i \in 1..(n - 1) : IsText(log[i]) =>
        local[i] # 0 /\ \A j \in 1..(n - 1) : IsEdit(log[j], i) => j <= local[i]
  BY <1>3 DEF InOrder, Shows
<1>8. \A i \in Seqs : local[i] # 0 /\ ~IsText(log[i]) => \E r \in n..last : RecordOf(r, i)
  <2>1. \A i \in Seqs : local[i] # 0 /\ ~IsText(log[i]) => \E r \in (n - 1 + 1)..last : RecordOf(r, i)
    BY <1>3 DEF InOrder, Erased
  <2>2. n - 1 + 1 = n
    BY <1>1
  <2> QED BY <2>1, <2>2
<1>9. \A j \in 1..last : \A i \in 1..last : IsEdit(log[j], i) => i < j
  <2> SUFFICES ASSUME NEW j \in 1..last, NEW i \in 1..last, IsEdit(log[j], i) PROVE i < j
    OBVIOUS
  <2>1. log[j].kind = "message" /\ log[j].body = i /\ i # 0
    BY DEF IsEdit
  <2> QED BY <2>1 DEF InOrder, EditsFollow
<1>10. \A r \in n..last : r = n \/ r \in (n + 1)..last
  BY <1>1
<1>11. \A i \in 1..n : i = n \/ i \in 1..(n - 1)
  BY <1>1
<1>12. CASE e.kind = "record"
  <2> DEFINE o == e.of
  <2>1. ~IsText(e) /\ e = log[n] /\ ~IsText(log[n]) /\ \A i \in 1..last : ~IsEdit(log[n], i)
    BY <1>4, <1>12 DEF IsText, IsEdit
  <2>2. local' = [local EXCEPT ![o] = 0]
    BY <1>5, <1>12, <2>1
  <2>3. o \in 1..last /\ ~IsText(log[o])
    BY <1>2, <1>12 DEF Truthful, e
  <2>4. \A i : RecordOf(n, i) => i = o
    BY <2>1 DEF RecordOf
  <2> HIDE DEF o
  <2>5. \A i \in Seqs : local'[i] = IF i = o THEN 0 ELSE local[i]
    BY <1>2, <2>2
  <2>6. \A i \in Seqs : local'[i] # 0 /\ ~IsText(log[i]) => \E r \in (n + 1)..last : RecordOf(r, i)
    BY <1>8, <1>10, <2>4, <2>5
  <2>7. \A i \in 1..n : IsText(log[i]) =>
          local'[i] # 0 /\ \A j \in 1..n : IsEdit(log[j], i) => j <= local'[i]
    <3> SUFFICES ASSUME NEW i \in 1..n, IsText(log[i])
                 PROVE  local'[i] # 0 /\ \A j \in 1..n : IsEdit(log[j], i) => j <= local'[i]
      OBVIOUS
    <3>1. i \in 1..(n - 1) /\ i \in Seqs /\ i \in 1..last /\ i # o
      BY <1>1, <1>11, <2>1, <2>3
    <3>2. local'[i] = local[i]
      BY <2>5, <3>1
    <3>3. \A j \in 1..n : IsEdit(log[j], i) => j \in 1..(n - 1)
      BY <1>11, <2>1, <3>1
    <3> QED BY <1>7, <3>1, <3>2, <3>3
  <2>8. \A i \in Seqs : local'[i] # 0 =>
          i <= last /\ (local'[i] = i \/ (local'[i] \in 1..last /\ IsEdit(log[local'[i]], i)))
    BY <1>6, <2>5
  <2> QED BY <2>6, <2>7, <2>8 DEF n
<1>13. CASE IsText(e)
  <2>1. e.kind # "record"
    BY <1>13 DEF IsText
  <2>2. local' = [local EXCEPT ![n] = n]
    BY <1>5, <1>13, <2>1
  <2>3. \A i \in Seqs : local'[i] = IF i = n THEN n ELSE local[i]
    BY <1>1, <1>2, <2>2
  <2>4. log[n].kind # "record" /\ \A i \in 1..last : ~IsEdit(log[n], i)
    BY <1>4, <1>13 DEF IsText, IsEdit
  <2>5. ~IsText(log[n]) => \E r \in (n + 1)..last : RecordOf(r, n)
    <3> SUFFICES ASSUME ~IsText(log[n]) PROVE \E r \in (n + 1)..last : RecordOf(r, n)
      OBVIOUS
    <3>1. PICK r \in (job.after + 1)..last : RecordOf(r, n)
      BY <1>4, <1>13
    <3>2. r \in (n + 1)..last
      BY <1>1, <1>4
    <3> QED BY <3>1, <3>2
  <2>6. \A i \in Seqs : local'[i] # 0 /\ ~IsText(log[i]) => \E r \in (n + 1)..last : RecordOf(r, i)
    <3> SUFFICES ASSUME NEW i \in Seqs, local'[i] # 0, ~IsText(log[i])
                 PROVE  \E r \in (n + 1)..last : RecordOf(r, i)
      OBVIOUS
    <3>1. CASE i = n
      BY <2>5, <3>1
    <3>2. CASE i # n
      <4>1. PICK r \in n..last : RecordOf(r, i)
        BY <1>8, <2>3, <3>2
      <4>2. r # n
        BY <2>4, <4>1 DEF RecordOf
      <4> QED BY <1>10, <4>1, <4>2
    <3> QED BY <3>1, <3>2
  <2>7. \A i \in 1..n : IsText(log[i]) =>
          local'[i] # 0 /\ \A j \in 1..n : IsEdit(log[j], i) => j <= local'[i]
    <3> SUFFICES ASSUME NEW i \in 1..n, IsText(log[i])
                 PROVE  local'[i] # 0 /\ \A j \in 1..n : IsEdit(log[j], i) => j <= local'[i]
      OBVIOUS
    <3>1. i \in Seqs /\ i \in 1..last /\ n # 0
      BY <1>1
    <3>2. \A j \in 1..n : j \in 1..last /\ (IsEdit(log[j], i) => j \in 1..(n - 1) /\ i < j)
      BY <1>1, <1>9, <1>11, <2>4, <3>1
    <3>3. CASE i = n
      <4>1. local'[i] = n
        BY <2>3, <3>1, <3>3
      <4>2. \A j \in 1..n : ~IsEdit(log[j], i)
        BY <1>1, <3>2, <3>3
      <4> QED BY <3>1, <4>1, <4>2
    <3>4. CASE i # n
      BY <1>7, <1>11, <2>3, <3>1, <3>2, <3>4
    <3> QED BY <3>3, <3>4
  <2>8. \A i \in Seqs : local'[i] # 0 =>
          i <= last /\ (local'[i] = i \/ (local'[i] \in 1..last /\ IsEdit(log[local'[i]], i)))
    BY <1>1, <1>6, <2>3
  <2> QED BY <2>6, <2>7, <2>8 DEF n
<1>14. CASE e.kind # "record" /\ ~IsText(e)
  <2> DEFINE b == e.body
             v == IF local[b] # 0 THEN n ELSE 0
  <2>1. local' = [local EXCEPT ![b] = IF @ # 0 THEN n ELSE 0]
    BY <1>5, <1>14
  <2>2. local' = [local EXCEPT ![b] = v]
    BY <2>1
  <2>3. e = log[n] /\ log[n].kind # "record" /\ ~IsText(log[n]) /\ log[n].kind # "gone"
    BY <1>4, <1>14
  <2>4. /\ log[n] \in Entry
    BY <1>1 DEF IInv, Typed, TypeOK
  <2>5. log[n].kind = "message" /\ log[n].body = b /\ b \in 0..MaxSeq /\ b # 0
    BY <2>3, <2>4 DEF Entry, IsText
  <2>6. b < n
    BY <1>1, <2>5 DEF InOrder, EditsFollow
  <2>7. IsEdit(log[n], b) /\ \A i : IsEdit(log[n], i) => i = b
    BY <2>5 DEF IsEdit
  <2> HIDE DEF b
  <2>8. \A i \in Seqs : local'[i] = IF i = b THEN v ELSE local[i]
    BY <1>2, <2>2
  <2>9. b \in Seqs /\ b \in 1..(n - 1) /\ b \in 1..last
    BY <1>1, <2>5, <2>6
  <2>10. (local[b] # 0 => v = n) /\ (local[b] = 0 => v = 0) /\ n # 0
    BY <1>1
  <2> HIDE DEF v
  <2>11. \A i \in Seqs : local'[i] # 0 /\ ~IsText(log[i]) => \E r \in (n + 1)..last : RecordOf(r, i)
    <3> SUFFICES ASSUME NEW i \in Seqs, local'[i] # 0, ~IsText(log[i])
                 PROVE  \E r \in (n + 1)..last : RecordOf(r, i)
      OBVIOUS
    <3>1. local[i] # 0
      BY <2>8, <2>10
    <3>2. PICK r \in n..last : RecordOf(r, i)
      BY <1>8, <3>1
    <3>3. r # n
      BY <2>3, <3>2 DEF RecordOf
    <3> QED BY <1>10, <3>2, <3>3
  <2>12. \A i \in 1..n : IsText(log[i]) =>
          local'[i] # 0 /\ \A j \in 1..n : IsEdit(log[j], i) => j <= local'[i]
    <3> SUFFICES ASSUME NEW i \in 1..n, IsText(log[i])
                 PROVE  local'[i] # 0 /\ \A j \in 1..n : IsEdit(log[j], i) => j <= local'[i]
      OBVIOUS
    <3>1. i \in 1..(n - 1) /\ i \in Seqs
      BY <1>1, <1>11, <2>3
    <3>2. local[i] # 0 /\ \A j \in 1..(n - 1) : IsEdit(log[j], i) => j <= local[i]
      BY <1>7, <3>1
    <3>3. CASE i = b
      <4>1. local'[i] = n
        BY <2>8, <2>10, <3>1, <3>2, <3>3
      <4>2. \A j \in 1..n : j <= n
        BY <1>1
      <4> QED BY <2>10, <4>1, <4>2
    <3>4. CASE i # b
      <4>1. local'[i] = local[i]
        BY <2>8, <3>1, <3>4
      <4>2. \A j \in 1..n : IsEdit(log[j], i) => j \in 1..(n - 1)
        BY <1>11, <2>7, <3>4
      <4> QED BY <3>2, <4>1, <4>2
    <3> QED BY <3>3, <3>4
  <2>13. \A i \in Seqs : local'[i] # 0 =>
          i <= last /\ (local'[i] = i \/ (local'[i] \in 1..last /\ IsEdit(log[local'[i]], i)))
    BY <1>1, <1>6, <2>7, <2>8, <2>9, <2>10
  <2> QED BY <2>11, <2>12, <2>13 DEF n
<1> QED BY <1>12, <1>13, <1>14

\* Applying keeps the order.
LEMMA ApplyInOrder ==
  ASSUME IInv, InOrder, Apply
  PROVE  InOrder'
<1>1. /\ last \in Nat /\ job \in Jobs /\ job.at = "apply" /\ synced \in 0..last /\ Done = Current.seq - 1
      /\ Current \in job.page /\ Current.seq \in 1..last
  BY Reading DEF Apply, Applying, Done
<1>2. /\ UNCHANGED <<scene, last, log, synced, saved, snapshot>>
      /\ job' = [job EXCEPT !.at = "advance", !.base = synced]
  BY DEF Apply, serverVars
<1>3. job'.at = "advance" /\ job'.page = job.page /\ job'.after = job.after /\ job'.base = synced
  BY <1>1, <1>2 DEF Jobs
<1>4. Current' = Current /\ Done' = Current.seq /\ Seqs' = Seqs
  BY <1>2, <1>3 DEF Current, Done, Seqs, MaxSeq
<1>5. EditsFollow'
  BY <1>2 DEF InOrder, EditsFollow
<1>6. Values' /\ Shows(Done)' /\ Erased(Done)'
  BY <1>2, <1>4, ApplyShows DEF Values, Shows, Erased, RecordOf
<1>7. Behind'
  BY <1>1, <1>2, <1>3, <1>4 DEF InOrder, Behind
<1>8. PageTrue'
  BY <1>1, <1>2, <1>3, <1>4 DEF InOrder, PageTrue, RecordOf, Applying
<1> QED BY <1>5, <1>6, <1>7, <1>8 DEF InOrder

\* The position follows.
LEMMA AdvanceInOrder ==
  ASSUME IInv, InOrder, Advance
  PROVE  InOrder'
<1>1. /\ last \in Nat /\ job \in Jobs /\ job.at = "advance" /\ synced \in 0..last /\ Done = Current.seq
      /\ Current \in job.page /\ Current.seq \in 1..last /\ job.base \in 0..last
      /\ saved \in 0..last /\ snapshot \in -1..last
  BY Reading DEF Advance, Applying, Done
<1>2. /\ UNCHANGED <<scene, last, log, local, saved, snapshot>>
      /\ job' = [job EXCEPT !.at = "save"]
      /\ synced' = Larger(IF IsText(Current.entry) THEN job.base ELSE synced, Current.seq)
  BY DEF Advance, serverVars
<1>3. job'.at = "save" /\ job'.page = job.page /\ job'.after = job.after
  BY <1>1, <1>2 DEF Jobs
<1>4. Current' = Current /\ Done' = Done /\ Seqs' = Seqs
  BY <1>1, <1>2, <1>3 DEF Current, Done, Seqs, MaxSeq
<1>5. EditsFollow' /\ Values'
  BY <1>2, <1>4 DEF InOrder, EditsFollow, Values
<1>6. Shows(Done)' /\ Erased(Done)'
  BY <1>2, <1>4 DEF InOrder, Shows, Erased, RecordOf
<1>7. Behind'
  <2>1. job.base <= Current.seq /\ synced <= Current.seq /\ saved <= synced /\ snapshot <= synced
    BY <1>1 DEF InOrder, Behind
  <2>2. synced' = Current.seq
    BY <1>1, <1>2, <2>1 DEF Larger
  <2>3. saved <= Current.seq /\ snapshot <= Current.seq
    BY <1>1, <2>1
  <2> QED BY <1>1, <1>2, <1>3, <1>4, <2>2, <2>3 DEF Behind
<1>8. PageTrue'
  BY <1>1, <1>2, <1>3, <1>4 DEF InOrder, PageTrue, RecordOf, Applying
<1> QED BY <1>5, <1>6, <1>7, <1>8 DEF InOrder

\* Where the task goes on: a page whose entries are next, or nothing left before after.
LEMMA NextPartInOrder ==
  ASSUME Typed, NEW j \in Jobs, j.frame = {}, NextPart(j), JobOK(job)', job' \in Jobs,
         UNCHANGED <<scene, last, log, local, synced, snapshot>>,
         EditsFollow, Values, synced \in 0..last, saved' <= synced, snapshot <= synced,
         synced <= j.after, j.after \in 0..last,
         j.page = {} => Shows(j.after) /\ Erased(j.after),
         NEW n \in 0..last, synced <= n,
         j.page # {} =>
            /\ Shows(n) /\ Erased(n)
            /\ \A g \in j.page : g.seq \in (n + 1)..j.after
            /\ \E f \in j.page : f.seq = j.after
            /\ \A f \in j.page :
                 /\ f.entry.kind # "gone"
                 /\ \/ f.entry = log[f.seq]
                    \/ /\ IsText(f.entry) /\ log[f.seq].kind = "gone"
                       /\ \E r \in (j.after + 1)..last : RecordOf(r, f.seq)
            /\ \A k \in 1..last : k <= j.after /\ n < k /\ log[k].kind # "gone" => \E g \in j.page : g.seq = k
  PROVE  InOrder'
<1>1. last \in Nat /\ MaxSeq \in Nat
  BY Bounds
<1>2. Seqs' = Seqs /\ MaxSeq' = MaxSeq
  BY DEF Seqs, MaxSeq
<1>3. EditsFollow' /\ Values'
  BY <1>2 DEF EditsFollow, Values
<1>4. CASE j.page # {}
  <2>1. job' = [j EXCEPT !.at = "apply"]
    BY <1>4 DEF NextPart
  <2>2. job'.at = "apply" /\ job'.page = j.page /\ job'.after = j.after
    BY <2>1 DEF Jobs
  <2> DEFINE c == Current'
  <2>3. c \in j.page /\ \A g \in j.page : c.seq <= g.seq
    <3> DEFINE S == {f.seq : f \in j.page}
    <3>1. S \in SUBSET Nat /\ S # {}
      BY <1>1, <1>4 DEF Jobs, Views
    <3>2. PICK m \in S : \A k \in S : m <= k
      BY <3>1, Least
    <3>3. PICK f \in j.page : f.seq = m
      BY <3>2
    <3>4. \A g \in j.page : f.seq <= g.seq
      BY <3>2, <3>3
    <3> QED BY <2>2, <3>4 DEF Current
  <2> HIDE DEF c
  <2>4. c.seq \in (n + 1)..j.after /\ c.seq - 1 \in n..last
    BY <1>1, <1>4, <2>3
  <2>5. \A k \in 1..last : n < k /\ k <= c.seq - 1 => log[k].kind = "gone"
    <3> SUFFICES ASSUME NEW k \in 1..last, n < k, k <= c.seq - 1, log[k].kind # "gone" PROVE FALSE
      OBVIOUS
    <3>1. k <= j.after
      BY <1>1, <2>4
    <3>2. PICK g \in j.page : g.seq = k
      BY <1>4, <3>1
    <3>3. c.seq <= k
      BY <2>3, <3>2
    <3> QED BY <2>4, <3>3
  <2>6. Shows(c.seq - 1) /\ Erased(c.seq - 1)
    BY <1>1, <1>4, <2>4, <2>5, Upward
  <2>7. Done' = c.seq - 1
    BY <2>2 DEF Done, c
  <2>8. Shows(Done)' /\ Erased(Done)'
    BY <1>2, <2>6, <2>7 DEF Shows, Erased, RecordOf
  <2>9. Behind'
    <3>1. synced <= c.seq - 1
      BY <1>1, <2>4
    <3> QED BY <2>2, <2>7, <3>1 DEF Behind
  <2>10. PageTrue'
    <3>1. \A f \in j.page : f.seq <= j.after
      BY <1>1, <1>4
    <3>2. \A k \in 1..last : k <= j.after /\ c.seq < k => n < k
      BY <1>1, <2>4
    <3>3. \A f \in j.page :
                 /\ f.entry.kind # "gone"
                 /\ \/ f.entry = log[f.seq]
                    \/ /\ IsText(f.entry) /\ log[f.seq].kind = "gone"
                       /\ \E r \in (j.after + 1)..last : RecordOf(r, f.seq)
      BY <1>4
    <3>4. \A k \in 1..last : k <= j.after /\ c.seq < k /\ log[k].kind # "gone" => \E g \in j.page : g.seq = k
      BY <1>4, <3>2
    <3>5. \E f \in j.page : f.seq = j.after
      BY <1>4
    <3> QED BY <2>2, <3>1, <3>3, <3>4, <3>5 DEF PageTrue, RecordOf, c
  <2> QED BY <1>3, <2>8, <2>9, <2>10 DEF InOrder
<1>5. CASE j.page = {}
  <2>1. job' = [j EXCEPT !.at = "fetch"] \/ job' = Free
    BY <1>5 DEF NextPart, Release
  <2>2. (job'.at = "fetch" /\ job'.after = j.after) \/ job'.at = "free"
    BY <2>1 DEF Jobs, Free
  <2>3. Done' = j.after \/ Done' = synced
    BY <2>2 DEF Done
  <2>4. Shows(synced) /\ Erased(synced)
    BY <1>1, <1>5, Downward
  <2>5. Shows(Done)' /\ Erased(Done)'
    BY <1>2, <1>5, <2>3, <2>4 DEF Shows, Erased, RecordOf
  <2>6. Behind'
    BY <1>1, <2>2, <2>3 DEF Behind
  <2>7. PageTrue'
    BY <2>2 DEF PageTrue, Applying
  <2> QED BY <1>3, <2>5, <2>6, <2>7 DEF InOrder
<1> QED BY <1>4, <1>5

\* The next entry of the page, or the next page.
LEMMA SaveInOrder ==
  ASSUME IInv, IInv', PagesOnly, InOrder, Save
  PROVE  InOrder'
<1> DEFINE n == Current.seq
           rest == job.page \ {Current}
           j == [job EXCEPT !.page = rest]
<1>1. /\ last \in Nat /\ job \in Jobs /\ job.at = "save" /\ synced \in 0..last /\ Done = n
      /\ Current \in job.page /\ n \in 1..last /\ job.after \in 0..last /\ Typed /\ MaxSeq \in Nat
      /\ \A g \in job.page : n <= g.seq /\ g.seq \in 1..last
  BY Reading DEF Save, Applying, Done, IInv
<1>2. /\ UNCHANGED <<scene, last, log, local, synced, snapshot>> /\ saved' = synced /\ NextPart(j)
  BY DEF Save, serverVars
<1>3. job.page \subseteq Views
  BY <1>1 DEF Jobs
<1>4. /\ j \in Jobs /\ j.frame = {} /\ j.page = rest /\ j.after = job.after
  BY <1>1, <1>3 DEF Jobs, PagesOnly
<1>5. JobOK(job)' /\ job' \in Jobs
  BY SaveOK
<1>6. /\ EditsFollow /\ Values /\ synced <= n /\ snapshot <= synced /\ Shows(n) /\ Erased(n)
  BY <1>1 DEF InOrder, Behind
<1>7. /\ \E f \in job.page : f.seq = job.after
      /\ \A f \in job.page :
            /\ f.seq <= job.after /\ f.entry.kind # "gone"
            /\ \/ f.entry = log[f.seq]
               \/ /\ IsText(f.entry) /\ log[f.seq].kind = "gone"
                  /\ \E r \in (job.after + 1)..last : RecordOf(r, f.seq)
      /\ \A k \in 1..last : k <= job.after /\ n < k /\ log[k].kind # "gone" => \E g \in job.page : g.seq = k
  BY <1>1 DEF InOrder, PageTrue, Applying
<1>8. \A f \in rest : f \in job.page /\ f.seq # n
  <2> SUFFICES ASSUME NEW f \in job.page, f.seq = n PROVE f = Current
    OBVIOUS
  <2>1. f \in Views /\ Current \in Views
    BY <1>1, <1>3
  <2>2. \A e \in Entry : IsText(e) => e = [kind |-> "message", body |-> 0]
    BY DEF Entry, IsText
  <2>3. f.entry \in Entry /\ Current.entry \in Entry
    BY <2>1 DEF Views
  <2>4. f.entry = Current.entry
    BY <1>1, <1>7, <2>2, <2>3
  <2> QED BY <2>1, <2>4 DEF Views
<1> HIDE DEF rest, j
<1>9. \A g \in rest : g.seq \in (n + 1)..job.after
  BY <1>1, <1>7, <1>8
<1>10. rest # {} => \E f \in rest : f.seq = job.after
  <2> SUFFICES ASSUME rest # {} PROVE \E f \in rest : f.seq = job.after
    OBVIOUS
  <2>1. PICK f \in job.page : f.seq = job.after
    BY <1>7
  <2>2. PICK g \in rest : TRUE
    OBVIOUS
  <2>3. n < job.after
    BY <1>1, <1>9, <2>2
  <2>4. f # Current
    BY <1>1, <2>1, <2>3
  <2> QED BY <2>1, <2>4 DEF rest
<1>11. rest = {} => Shows(job.after) /\ Erased(job.after)
  <2> SUFFICES ASSUME rest = {} PROVE job.after = n
    BY <1>6
  <2>1. PICK f \in job.page : f.seq = job.after
    BY <1>7
  <2> QED BY <2>1 DEF rest
<1>12. \A k \in 1..last : k <= job.after /\ n < k /\ log[k].kind # "gone" => \E g \in rest : g.seq = k
  <2> SUFFICES ASSUME NEW k \in 1..last, k <= job.after, n < k, log[k].kind # "gone"
               PROVE  \E g \in rest : g.seq = k
    OBVIOUS
  <2>1. PICK g \in job.page : g.seq = k
    BY <1>7
  <2>2. g # Current
    BY <1>1, <2>1
  <2> QED BY <2>1, <2>2 DEF rest
<1>13. synced <= job.after /\ n \in 0..last
  <2>1. n <= job.after
    BY <1>1, <1>7
  <2> QED BY <1>1, <1>6, <2>1
<1>14. saved' <= synced
  BY <1>1, <1>2
<1> QED BY <1>1, <1>2, <1>4, <1>5, <1>6, <1>7, <1>8, <1>9, <1>10, <1>11, <1>12, <1>13, <1>14, NextPartInOrder

\* A page holds what the log holds behind after, up to its own end.
LEMMA FetchInOrder ==
  ASSUME IInv, IInv', PagesOnly, InOrder, Fetch
  PROVE  InOrder'
<1> DEFINE n == job.after
           page == Page(n)
           V == {View(i, log[i]) : i \in page}
           m == page # Stored(n)
           a == IF page = {} THEN n ELSE CHOOSE i \in page : \A k \in page : k <= i
           j == [job EXCEPT !.page = V, !.more = m, !.after = a]
<1>1. /\ last \in Nat /\ MaxSeq \in Nat /\ last <= MaxSeq /\ job \in Jobs /\ job.at = "fetch"
      /\ synced \in 0..last /\ n \in 0..last /\ Typed /\ Done = n /\ log \in [1..last -> Entry]
      /\ scene.pageSize \in Nat /\ saved \in 0..last /\ snapshot \in -1..last
  BY Reading, Bounds, TypedParts DEF Fetch, Done, IInv, Parts, ServerTyped
<1>2. NextPart(j) /\ UNCHANGED <<scene, last, log, local, synced, saved, snapshot>>
  BY DEF Fetch, serverVars
<1>3. /\ Stored(n) \subseteq (n + 1)..last /\ page \subseteq Stored(n)
      /\ \A i \in Stored(n) : log[i].kind # "gone"
      /\ \A i \in (n + 1)..last : log[i].kind # "gone" => i \in Stored(n)
  BY DEF Stored, Page
<1>4. \A i \in Stored(n) : \A k \in page : i <= k => i \in page
  BY <1>1, PageIsFirst
<1> HIDE DEF page
<1>5. a \in n..last /\ (page # {} => a \in page) /\ \A k \in page : k <= a
  <2>1. CASE page = {}
    BY <1>1, <2>1
  <2>2. CASE page # {}
    <3>1. page \in SUBSET (0..last)
      BY <1>1, <1>3
    <3>2. PICK g \in page : \A k \in page : k <= g
      BY <1>1, <2>2, <3>1, Greatest
    <3>3. a \in page /\ \A k \in page : k <= a
      BY <2>2, <3>2
    <3>4. \A k \in page : k \in n..last
      BY <1>1, <1>3
    <3> QED BY <3>3, <3>4
  <2> QED BY <2>1, <2>2
<1>6. page = {} => a = n
  OBVIOUS
<1> HIDE DEF a
<1>7. /\ \A f \in V : f.seq \in page /\ f.entry = log[f.seq] /\ f \in Views
      /\ \A i \in page : \E f \in V : f.seq = i
  <2>1. \A i \in page : View(i, log[i]).seq = i /\ View(i, log[i]).entry = log[i]
    BY DEF View
  <2>2. \A i \in page : View(i, log[i]) \in Views
    BY <1>1, <1>3 DEF View, Views
  <2> QED BY <2>1, <2>2
<1>8. V = {} => page = {}
  OBVIOUS
<1> HIDE DEF V, m
<1>9. m \in BOOLEAN /\ V \subseteq Views /\ a \in 0..MaxSeq
  BY <1>1, <1>5, <1>7 DEF m
<1>10. j \in Jobs /\ j.page = V /\ j.after = a /\ j.frame = {}
  BY <1>1, <1>9 DEF Jobs, PagesOnly
<1> HIDE DEF j
<1>11. JobOK(job)' /\ job' \in Jobs
  BY FetchOK
<1>12. /\ EditsFollow /\ Values /\ synced <= n /\ snapshot <= synced /\ saved' <= synced /\ Shows(n) /\ Erased(n)
  BY <1>1, <1>2 DEF InOrder, Behind
<1>13. \A f \in V : f.seq \in (n + 1)..a /\ f.entry.kind # "gone"
  BY <1>1, <1>3, <1>5, <1>7
<1>14. V # {} => \E f \in V : f.seq = a
  BY <1>5, <1>7
<1>15. \A k \in 1..last : k <= a /\ n < k /\ log[k].kind # "gone" => \E g \in V : g.seq = k
  <2> SUFFICES ASSUME NEW k \in 1..last, k <= a, n < k, log[k].kind # "gone" PROVE k \in page
    BY <1>7
  <2>1. k \in Stored(n)
    BY <1>1, <1>3
  <2>2. a \in page
    BY <1>1, <1>5, <1>6
  <2> QED BY <1>4, <2>1, <2>2
<1>16. synced <= a /\ a \in 0..last
  BY <1>1, <1>5, <1>12
<1>17. V = {} => Shows(a) /\ Erased(a)
  BY <1>6, <1>8, <1>12
<1> HIDE DEF n
<1> QED BY <1>1, <1>2, <1>7, <1>10, <1>11, <1>12, <1>13, <1>14, <1>15, <1>16, <1>17, NextPartInOrder

\* A step that only lets a task start or end, or a position fall back.
LEMMA Resettled ==
  ASSUME InOrder, UNCHANGED <<scene, last, log, local>>, job'.at \notin Applying, Behind',
         NEW p, Done' = p, Shows(p), Erased(p)
  PROVE  InOrder'
<1>1. Seqs' = Seqs
  BY DEF Seqs, MaxSeq
<1>2. EditsFollow' /\ Values'
  BY <1>1 DEF InOrder, EditsFollow, Values
<1>3. PageTrue'
  BY DEF PageTrue
<1>4. Shows(Done)' /\ Erased(Done)'
  BY <1>1 DEF Shows, Erased, RecordOf
<1> QED BY <1>2, <1>3, <1>4 DEF InOrder

\* A task starts at the position, a failed one leaves it.
LEMMA TurnInOrder ==
  ASSUME IInv, PagesOnly, InOrder, StartJob \/ HttpFail
  PROVE  InOrder'
<1>1. /\ synced \in Int /\ saved \in Int /\ snapshot \in Int /\ last \in Nat
      /\ Shows(synced) /\ Erased(synced) /\ saved <= synced /\ snapshot <= synced
  BY Reading, FallBack DEF InOrder, Behind
<1>2. CASE StartJob
  <2>1. UNCHANGED <<scene, last, log, local, synced, saved, snapshot>>
    BY <1>2 DEF StartJob, serverVars
  <2>2. queue \in Seq(Tasks) /\ queue # <<>>
    BY <1>2, TypedParts DEF IInv, Parts, StartJob
  <2>3. Head(queue) = queue[1] /\ 1 \in DOMAIN queue
    BY <2>2
  <2>4. Head(queue).of # "frame"
    BY <2>3 DEF PagesOnly
  <2>5. job' = [Free EXCEPT !.at = "fetch", !.of = Head(queue).of, !.after = synced, !.frame = Head(queue).frame]
    BY <1>2, <2>4 DEF StartJob
  <2>6. job'.at = "fetch" /\ job'.after = synced
    BY <2>5 DEF Free
  <2>7. Done' = synced /\ job'.at \notin Applying
    BY <2>6 DEF Done, Applying
  <2>8. Behind'
    BY <1>1, <2>1, <2>6, <2>7 DEF Behind
  <2> QED BY <1>1, <2>1, <2>7, <2>8, Resettled
<1>3. CASE HttpFail
  <2>1. UNCHANGED <<scene, last, log, local, synced, saved, snapshot>>
    BY <1>3 DEF HttpFail, serverVars
  <2>2. CASE job' = Free
    <3>1. job'.at = "free"
      BY <2>2 DEF Free
    <3>2. Done' = synced /\ job'.at \notin Applying
      BY <2>1, <3>1 DEF Done, Applying
    <3>3. Behind'
      BY <1>1, <2>1, <3>1, <3>2 DEF Behind
    <3> QED BY <1>1, <2>1, <3>2, <3>3, Resettled
  <2>3. CASE job' = job
    BY <2>1, <2>3, OrderStays
  <2> QED BY <1>3, <2>2, <2>3 DEF HttpFail
<1> QED BY <1>2, <1>3

\* purgeExpired writes an old position back, the next task reads the log again from there.
LEMMA PurgeInOrder ==
  ASSUME IInv, InOrder, PurgeRead \/ PurgeWrite
  PROVE  InOrder'
<1>1. /\ synced \in 0..last /\ saved \in 0..last /\ snapshot \in -1..last /\ last \in Nat
      /\ Shows(snapshot) /\ Erased(snapshot) /\ saved <= synced /\ snapshot <= synced /\ synced <= Done
      /\ Done \in Int /\ (job.at = "advance" => job.base <= Current.seq)
  BY Reading, FallBack DEF InOrder, Behind
<1>2. UNCHANGED <<scene, last, log, local, job>>
  BY WireWrites DEF serverVars
<1>3. Current' = Current /\ Seqs' = Seqs
  BY <1>2 DEF Current, Seqs, MaxSeq
<1>4. EditsFollow' /\ Values' /\ PageTrue'
  BY <1>2, <1>3 DEF InOrder, EditsFollow, Values, PageTrue, RecordOf
<1>5. Behind' /\ (Done' = Done \/ Done' = snapshot)
  <2>1. CASE PurgeRead
    <3>1. snapshot' = synced /\ synced' = synced /\ saved' = saved
      BY <2>1 DEF PurgeRead
    <3>2. Done' = Done
      BY <1>2, <1>3, <3>1 DEF Done
    <3> QED BY <1>1, <1>2, <1>3, <3>1, <3>2 DEF Behind
  <2>2. CASE PurgeWrite
    <3>1. snapshot >= 0 /\ synced' = snapshot /\ saved' = snapshot /\ snapshot' = -1
      BY <2>2 DEF PurgeWrite
    <3>2. CASE job.at = "free"
      <4>1. Done' = snapshot
        BY <1>2, <3>1, <3>2 DEF Done
      <4> QED BY <1>1, <1>2, <3>1, <3>2, <4>1 DEF Behind
    <3>3. CASE job.at # "free"
      <4>1. Done' = Done
        BY <1>2, <1>3, <3>3 DEF Done
      <4> QED BY <1>1, <1>2, <1>3, <3>1, <4>1 DEF Behind
    <3> QED BY <3>2, <3>3
  <2> QED BY <2>1, <2>2
<1>6. Shows(Done)' /\ Erased(Done)'
  BY <1>1, <1>2, <1>3, <1>5 DEF InOrder, Shows, Erased, RecordOf
<1> QED BY <1>4, <1>5, <1>6 DEF InOrder

\* A restart goes back to the saved position, or to nothing at all.
LEMMA RestartInOrder ==
  ASSUME IInv, InOrder, Restart
  PROVE  InOrder'
<1>1. saved \in 0..last /\ last \in Nat /\ Shows(saved) /\ Erased(saved) /\ EditsFollow
  BY Reading, FallBack DEF InOrder
<1>2. UNCHANGED <<scene, last, log>> /\ job' = Free /\ snapshot' = -1
  BY DEF Restart, serverVars
<1>3. job'.at = "free"
  BY <1>2 DEF Free
<1>4. Done' = synced' /\ job'.at \notin Applying
  BY <1>3 DEF Done, Applying
<1>5. CASE synced' = saved /\ saved' = saved /\ local' = local
  <2>1. Behind'
    BY <1>1, <1>2, <1>3, <1>4, <1>5 DEF Behind
  <2> QED BY <1>1, <1>2, <1>4, <1>5, <2>1, Resettled
<1>6. CASE synced' = 0 /\ saved' = 0 /\ local' = [i \in Seqs |-> 0]
  <2>1. Seqs' = Seqs /\ \A i \in Seqs : local'[i] = 0
    BY <1>2, <1>6 DEF Seqs, MaxSeq
  <2>2. EditsFollow' /\ Values' /\ PageTrue'
    BY <1>1, <1>2, <1>4, <2>1 DEF EditsFollow, Values, PageTrue
  <2>3. Behind'
    BY <1>2, <1>3, <1>4, <1>6 DEF Behind
  <2>4. Shows(Done)' /\ Erased(Done)'
    BY <1>4, <1>6, <2>1 DEF Shows, Erased
  <2> QED BY <2>2, <2>3, <2>4 DEF InOrder
<1> QED BY <1>5, <1>6 DEF Restart

\* The device that reads pages reads them in order, from the start.
LEMMA InitPInv == Init => PInv
<1> SUFFICES ASSUME Init PROVE PagesOnly /\ InOrder
  BY DEF PInv
<1>1. /\ job = Free /\ queue = <<>> /\ channel = <<>> /\ last = 0 /\ synced = 0 /\ saved = 0 /\ snapshot = -1
      /\ \A i \in Seqs : local[i] = 0
  BY DEF Init, Log!Init
<1>2. job.at = "free" /\ job.frame = {}
  BY <1>1 DEF Free
<1>3. PagesOnly
  BY <1>1, <1>2 DEF PagesOnly
<1>4. Done = 0
  BY <1>1, <1>2 DEF Done
<1>5. EditsFollow /\ Values /\ Behind /\ PageTrue /\ Shows(Done) /\ Erased(Done)
  BY <1>1, <1>2, <1>4 DEF EditsFollow, Values, Behind, PageTrue, Applying, Shows, Erased
<1> QED BY <1>3, <1>5 DEF InOrder

\* And every step goes on so.
LEMMA PInvStep == IInv /\ IInv' /\ PInv /\ [Next]_vars => PInv'
<1> SUFFICES ASSUME IInv, IInv', PagesOnly, InOrder, ~scene.live, [Next]_vars PROVE PagesOnly' /\ InOrder'
  BY SceneStays DEF PInv
<1>1. PagesOnly'
  BY PagesOnlyStep
<1>2. InOrder'
  <2>1. CASE Commit
    BY <2>1, CommitInOrder
  <2>2. CASE StartJob \/ HttpFail
    BY <2>2, TurnInOrder
  <2>3. CASE Fetch
    BY <2>3, FetchInOrder
  <2>4. CASE Apply
    BY <2>4, ApplyInOrder
  <2>5. CASE Advance
    BY <2>5, AdvanceInOrder
  <2>6. CASE Save
    BY <2>6, SaveInOrder
  <2>7. CASE PurgeRead \/ PurgeWrite
    BY <2>7, PurgeInOrder
  <2>8. CASE Restart
    BY <2>8, RestartInOrder
  <2>9. CASE \/ FanOut \/ Greet \/ ReceiveHello \/ ReceiveFrame \/ ListConversations \/ FinishSync
             \/ Connect \/ Disconnect \/ AskHistory \/ UNCHANGED vars
    <3>1. UNCHANGED <<scene, last, log, local, synced, saved, snapshot, job>>
      BY <2>9, WireWrites DEF vars, serverVars, clientVars
    <3> QED BY <3>1, OrderStays
  <2> QED BY <2>1, <2>2, <2>3, <2>4, <2>5, <2>6, <2>7, <2>8, <2>9 DEF Next, Progress
<1> QED BY <1>1, <1>2

\* Where everything up to the end of the log is applied in order, the device shows it.
LEMMA InOrderShows ==
  ASSUME IInv, InOrder, job = Free, synced = last, NEW i \in Seqs
  PROVE  local[i] = Shown(i)
<1>1. last \in Nat /\ Done = last /\ MaxSeq \in Nat /\ Seqs = 1..MaxSeq
  BY Reading DEF Done, Free
<1>2. Shows(last) /\ Erased(last) /\ Values
  BY <1>1 DEF InOrder
<1>3. CASE i \notin 1..last
  <2>1. ~(i <= last)
    BY <1>1, <1>3
  <2> QED BY <1>2, <1>3, <2>1 DEF Values, Shown
<1>4. CASE i \in 1..last /\ ~IsText(log[i])
  <2>1. (last + 1)..last = {}
    BY <1>1
  <2> QED BY <1>2, <1>4, <2>1 DEF Erased, Shown
<1>5. CASE i \in 1..last /\ IsText(log[i])
  <2> DEFINE S == {i} \cup {j \in 1..last : IsEdit(log[j], i)}
             Latest(n) == \A j \in 1..last : IsEdit(log[j], i) => j <= n
  <2>1. local[i] \in S /\ Latest(local[i])
    BY <1>2, <1>5 DEF Shows, Values
  <2>2. \A n \in S : Latest(n) => n = local[i]
    <3> SUFFICES ASSUME NEW n \in S, Latest(n) PROVE n = local[i]
      OBVIOUS
    <3>1. n \in 1..last /\ local[i] \in 1..last
      BY <1>5, <2>1
    <3>2. CASE n # i /\ local[i] # i
      <4>1. n <= local[i] /\ local[i] <= n
        BY <2>1, <3>2
      <4> QED BY <3>1, <4>1
    <3>3. CASE n = i /\ local[i] # i
      <4>1. IsEdit(log[local[i]], i) /\ local[i] <= i
        BY <2>1, <3>3
      <4>2. i < local[i]
        BY <1>5, <3>1, <4>1 DEF InOrder, EditsFollow, IsEdit
      <4> QED BY <3>1, <4>1, <4>2
    <3>4. CASE n # i /\ local[i] = i
      <4>1. IsEdit(log[n], i) /\ n <= i
        BY <2>1, <3>4
      <4>2. i < n
        BY <1>5, <3>1, <4>1 DEF InOrder, EditsFollow, IsEdit
      <4> QED BY <3>1, <4>1, <4>2
    <3> QED BY <3>2, <3>3, <3>4
  <2>3. Shown(i) = CHOOSE n \in S : Latest(n)
    BY <1>5 DEF Shown
  <2> HIDE DEF S, Latest
  <2> QED BY <2>1, <2>2, <2>3
<1> QED BY <1>3, <1>4, <1>5

\* A device that reads the log through pages alone ends up with what the log says,
\* deletions and edits included, through restarts, failed requests and a position
\* written back from an old copy (backfill, applyStored, handleIncoming, purgeExpired).
THEOREM SyncPagesConverge == Spec => []PagesConverge
<1>1. IInv /\ PInv => PagesConverge
  BY InOrderShows DEF PInv, PagesConverge, Quiet
<1>2. Init => IInv /\ PInv
  BY InitIInv, InitPInv
<1>3. Spec => []PInv
  BY <1>2, Invariant, InitPInv, PInvStep, PTL DEF Spec
<1> QED BY <1>1, <1>3, Invariant, PTL
=============================================================================
