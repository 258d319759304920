-------------------------------- MODULE Sync --------------------------------
(***************************************************************************)
(* One device following one conversation: web/src/state/sync.ts (and its   *)
(* twin app/lib/state/app_state.dart) over the log of MessageLog.          *)
(*                                                                         *)
(* The server commits an entry in one step and hands its frame to the hub  *)
(* in a later one, so frames of concurrent requests may overtake each      *)
(* other; a frame for a device that is not connected is lost, and so are   *)
(* the frames still in a socket that drops.  The device catches up by      *)
(* reading pages of history (backfill) under a lock per conversation,      *)
(* after a hello (fullSync), on request, or when a frame leaves a gap.     *)
(***************************************************************************)
EXTENDS Integers, Sequences, FiniteSets

CONSTANTS
    Scenes,      \* the circumstances a run looks at, one for each behaviour
    TopSeq       \* bound: no scene goes beyond this sequence number

\* pageSize: entries in one page of GET .../messages; live: whether the socket
\* carries message frames, or only hello; httpFails: whether a request of the
\* device may fail; restarts: whether the app may be killed and started again;
\* keeps: whether it then finds its database (the web client) or only the
\* server (the app, which has nothing but its memory); staleWrites: whether
\* purgeExpired finds expired messages to forget; maxSeq: bound, the last
\* sequence number the server assigns.
ASSUME SyncAssumption ==
    /\ TopSeq \in Nat
    /\ \A s \in Scenes :
        /\ s.pageSize \in Nat \ {0} /\ s.maxSeq \in 0..TopSeq
        /\ {s.live, s.httpFails, s.restarts, s.staleWrites} \subseteq BOOLEAN
        /\ s.keeps \subseteq BOOLEAN

VARIABLES
    scene,       \* the circumstances of this behaviour
    last, log,   \* the conversation on the server (MessageLog)
    outgoing,    \* frames committed and not yet handed to the hub
    socket,      \* the connection of this device: down, in the hub, greeted
    channel,     \* what that connection has not delivered yet
    queue,       \* the work waiting for the conversation's lock
    job,         \* the work holding the lock
    sync,        \* where fullSync stands; "idle" when syncing is false
    synced,      \* syncedSeq of the conversation in memory
    saved,       \* the same in the local database
    local,       \* local database: what message i shows, 0 if it is not there
    snapshot     \* syncedSeq in the copy purgeExpired is about to write, -1 for none

serverVars == <<scene, last, log, outgoing>>
wireVars == <<socket, channel>>
clientVars == <<queue, job, sync, synced, saved, local, snapshot>>
vars == <<serverVars, wireVars, clientVars>>

MaxSeq == scene.maxSeq
Seqs   == 1..MaxSeq

\* A message's body is 0 for a text and i for an edit of text i.
Log == INSTANCE MessageLog WITH Bodies <- 0..TopSeq, Actors <- {"someone"}

IsText(e)    == e.kind = "message" /\ e.body = 0
IsEdit(e, i) == e.kind = "message" /\ e.body = i

\* Mutant: the view is numbered from one behind the row.
ViewNumberedOff(i, e) == [seq |-> i + 1, entry |-> e]

\* An entry as clients get it, in a page or as a frame of the socket.
View(i, e) == [seq |-> i, entry |-> e]
Hello      == View(0, Log!Nothing)

Larger(m, n) == IF m >= n THEN m ELSE n

Free == [at |-> "free", of |-> "none", page |-> {}, more |-> FALSE,
         frame |-> {}, after |-> 0, base |-> 0]

Init ==
    /\ scene \in Scenes
    /\ Log!Init
    /\ outgoing = {}
    /\ socket = "down" /\ channel = <<>>
    /\ queue = <<>> /\ job = Free /\ sync = "idle"
    /\ synced = 0 /\ saved = 0
    /\ local = [i \in Seqs |-> 0]
    /\ snapshot = -1

(***************************************************************************)
(* The server: entries are committed, then fanned out.                     *)
(***************************************************************************)
\* Clients edit and delete texts; an edit stays in the log when its text goes.
Commit ==
    /\ last < MaxSeq
    /\ \/ /\ Log!Append
          /\ LET b == log'[last'].body IN b # 0 => b \in 1..last /\ IsText(log[b])
       \/ /\ Log!Delete
          /\ IsText(log[log'[last'].of])
    /\ outgoing' = outgoing \cup {View(last', log'[last'])}
    /\ UNCHANGED <<scene, wireVars, clientVars>>

\* Hub.SendToAccounts; the order of concurrent handlers is open.
FanOut == \E f \in outgoing :
    /\ outgoing' = outgoing \ {f}
    /\ channel' = IF socket # "down" /\ scene.live THEN Append(channel, f) ELSE channel
    /\ UNCHANGED <<scene, last, log, socket, clientVars>>

(***************************************************************************)
(* The socket.                                                             *)
(***************************************************************************)
\* handleWS adds the connection to the hub before it says hello.
Connect ==
    /\ socket = "down"
    /\ socket' = "added"
    /\ UNCHANGED <<serverVars, channel, clientVars>>

Greet ==
    /\ socket = "added"
    /\ socket' = "up"
    /\ channel' = Append(channel, Hello)
    /\ UNCHANGED <<serverVars, clientVars>>

\* The connection drops, whatever it still held is lost.
Disconnect ==
    /\ socket # "down"
    /\ socket' = "down"
    /\ channel' = <<>>
    /\ UNCHANGED <<serverVars, clientVars>>

\* Mutant: a hello during a sync starts over and forgets the work in hand.
ReceiveHelloAgain ==
    /\ channel # <<>> /\ Head(channel) = Hello
    /\ channel' = Tail(channel)
    /\ sync' = "list"
    /\ queue' = <<>>
    /\ UNCHANGED <<serverVars, socket, job, synced, saved, local, snapshot>>

\* A hello starts fullSync, unless one is running.
ReceiveHello ==
    /\ channel # <<>> /\ Head(channel) = Hello
    /\ channel' = Tail(channel)
    /\ sync' = IF sync = "idle" THEN "list" ELSE sync
    /\ UNCHANGED <<serverVars, socket, queue, job, synced, saved, local, snapshot>>

\* onLiveMessage queues for the lock.
ReceiveFrame ==
    /\ channel # <<>> /\ Head(channel) # Hello
    /\ channel' = Tail(channel)
    /\ queue' = Append(queue, [of |-> "frame", frame |-> {Head(channel)}])
    /\ UNCHANGED <<serverVars, socket, job, sync, synced, saved, local, snapshot>>

(***************************************************************************)
(* fullSync and the other calls of backfill.                               *)
(***************************************************************************)
\* The list of conversations has arrived, this one's backfill may queue up.
ListConversations ==
    /\ sync = "list"
    /\ sync' = "backfill"
    /\ queue' = Append(queue, [of |-> "sync", frame |-> {}])
    /\ UNCHANGED <<serverVars, wireVars, job, synced, saved, local, snapshot>>

\* The remaining conversations and the purge are done.
FinishSync ==
    /\ sync = "rest"
    /\ sync' = "idle"
    /\ UNCHANGED <<serverVars, wireVars, queue, job, synced, saved, local, snapshot>>

\* loadAllHistory or refreshConversation asks for a backfill.
AskHistory ==
    /\ job.of # "history"
    /\ \A i \in DOMAIN queue : queue[i].of # "history"
    /\ queue' = Append(queue, [of |-> "history", frame |-> {}])
    /\ UNCHANGED <<serverVars, wireVars, job, sync, synced, saved, local, snapshot>>

(***************************************************************************)
(* The work under the lock.                                                *)
(***************************************************************************)
\* Mutant: a frame is applied without looking for the gap before it.
StartJobNoGap ==
    /\ job = Free /\ queue # <<>>
    /\ LET task == Head(queue) IN
         job' = [Free EXCEPT !.of = task.of, !.after = synced,
                   !.at = IF task.of = "frame" THEN "apply" ELSE "fetch",
                   !.page = task.frame]
    /\ queue' = Tail(queue)
    /\ UNCHANGED <<serverVars, wireVars, sync, synced, saved, local, snapshot>>

\* Whether a frame comes with entries missing before it.
Gap(task) == \E f \in task.frame : f.seq > synced + 1

\* The lock passes to the next task: a frame that follows what is known is
\* applied at once, anything else reads pages first.
StartJob ==
    /\ job = Free /\ queue # <<>>
    /\ LET task == Head(queue) IN
         job' = IF task.of = "frame" /\ ~Gap(task)
                THEN [Free EXCEPT !.at = "apply", !.of = "frame", !.page = task.frame]
                ELSE [Free EXCEPT !.at = "fetch", !.of = task.of, !.after = synced,
                                  !.frame = task.frame]
    /\ queue' = Tail(queue)
    /\ UNCHANGED <<serverVars, wireVars, sync, synced, saved, local, snapshot>>

\* What GET .../messages?after=n can return.
Stored(n) == {i \in (n + 1)..last : log[i].kind # "gone"}

\* Mutant: the page is the newest entries, not the next ones.
PageNewest(n) == {i \in Stored(n) : Cardinality({k \in Stored(n) : k > i}) < scene.pageSize}

\* The first scene.pageSize of them.
Page(n) == {i \in Stored(n) : Cardinality({k \in Stored(n) : k < i}) < scene.pageSize}

\* The task is through: its lock is released, fullSync goes on.
Release ==
    /\ job' = Free
    /\ sync' = IF job.of = "sync" THEN "rest" ELSE sync

\* The entries of the page are done: the next page, the frame, or the end.
NextPart(j) ==
    IF j.page # {} THEN job' = [j EXCEPT !.at = "apply"] /\ UNCHANGED sync
    ELSE IF j.more THEN job' = [j EXCEPT !.at = "fetch"] /\ UNCHANGED sync
    ELSE IF j.frame # {}
         THEN job' = [j EXCEPT !.at = "apply", !.page = j.frame, !.frame = {}] /\ UNCHANGED sync
         ELSE Release

Fetch ==
    /\ job.at = "fetch"
    /\ LET page == Page(job.after)
       IN  NextPart([job EXCEPT
               !.page = {View(i, log[i]) : i \in page},
               !.more = (page # Stored(job.after)),
               !.after = IF page = {} THEN @ ELSE CHOOSE i \in page : \A k \in page : k <= i])
    /\ UNCHANGED <<serverVars, wireVars, queue, synced, saved, local, snapshot>>

\* The entry to apply: pages are read in order.
Current == CHOOSE f \in job.page : \A g \in job.page : f.seq <= g.seq

\* handleIncoming changes the local database: a record removes its message, a
\* text is put (again, if it was there), an edit rewrites the text it names.
Apply ==
    /\ job.at = "apply"
    /\ LET e == Current.entry
           i == Current.seq
       IN  local' = CASE e.kind = "record" -> [local EXCEPT ![e.of] = 0]
                      [] IsText(e)         -> [local EXCEPT ![i] = i]
                      [] OTHER             -> [local EXCEPT ![e.body] = IF @ # 0 THEN i ELSE 0]
    /\ job' = [job EXCEPT !.at = "advance", !.base = synced]
    /\ UNCHANGED <<serverVars, wireVars, queue, sync, synced, saved, snapshot>>

\* The conversation's position moves up.  A text builds on the copy taken
\* before the message was stored, advanceSilently on a fresh one.
Advance ==
    /\ job.at = "advance"
    /\ synced' = Larger(IF IsText(Current.entry) THEN job.base ELSE synced, Current.seq)
    /\ job' = [job EXCEPT !.at = "save"]
    /\ UNCHANGED <<serverVars, wireVars, queue, sync, saved, local, snapshot>>

Save ==
    /\ job.at = "save"
    /\ saved' = synced
    /\ NextPart([job EXCEPT !.page = @ \ {Current}])
    /\ UNCHANGED <<serverVars, wireVars, queue, synced, local, snapshot>>

(***************************************************************************)
(* What disturbs it.                                                       *)
(***************************************************************************)
\* A request fails: the exception ends the task, or fullSync.
HttpFail ==
    /\ scene.httpFails
    /\ \/ job.at = "fetch" /\ job' = Free
          /\ sync' = IF job.of = "sync" THEN "idle" ELSE sync
       \/ sync = "list" /\ sync' = "idle" /\ UNCHANGED job
    /\ UNCHANGED <<serverVars, wireVars, queue, synced, saved, local, snapshot>>

\* purgeExpired copies the conversation, forgets messages and writes the copy
\* back; it does not take the lock.
PurgeRead ==
    /\ scene.staleWrites /\ snapshot = -1
    /\ snapshot' = synced
    /\ UNCHANGED <<serverVars, wireVars, queue, job, sync, synced, saved, local>>

PurgeWrite ==
    /\ snapshot >= 0
    /\ synced' = snapshot /\ saved' = snapshot
    /\ snapshot' = -1
    /\ UNCHANGED <<serverVars, wireVars, queue, job, sync, local>>

\* The client is killed; the local database stays, if there is one.
Restart ==
    /\ scene.restarts
    /\ socket' = "down" /\ channel' = <<>>
    /\ queue' = <<>> /\ job' = Free /\ sync' = "idle"
    /\ \/ TRUE \in scene.keeps /\ synced' = saved /\ UNCHANGED <<saved, local>>
       \/ FALSE \in scene.keeps /\ synced' = 0 /\ saved' = 0 /\ local' = [i \in Seqs |-> 0]
    /\ snapshot' = -1
    /\ UNCHANGED serverVars

(***************************************************************************)
(* The specification.                                                      *)
(***************************************************************************)
\* What the device and the server do of their own accord.
Progress ==
    \/ FanOut \/ Greet
    \/ ReceiveHello \/ ReceiveFrame
    \/ ListConversations \/ FinishSync
    \/ StartJob \/ Fetch \/ Apply \/ Advance \/ Save

Next ==
    \/ Progress
    \/ Commit
    \/ Connect \/ Disconnect
    \/ AskHistory
    \/ HttpFail
    \/ PurgeRead \/ PurgeWrite
    \/ Restart

Spec == Init /\ [][Next]_vars

\* Handlers run to their end, the event loop delivers what has arrived, requests
\* are answered.  Nobody has to send, to connect or to ask for history.
Fairness ==
    /\ WF_vars(FanOut) /\ WF_vars(Greet)
    /\ WF_vars(ReceiveHello) /\ WF_vars(ReceiveFrame)
    /\ WF_vars(ListConversations) /\ WF_vars(FinishSync)
    /\ WF_vars(StartJob) /\ WF_vars(Fetch)
    /\ WF_vars(Apply) /\ WF_vars(Advance) /\ WF_vars(Save)

FairSpec == Spec /\ Fairness

(***************************************************************************)
(* Type invariant.                                                         *)
(***************************************************************************)
Entry == [kind : {"message"}, body : 0..MaxSeq]
           \cup [kind : {"record"}, by : {"someone"}, of : Seqs]
           \cup [kind : {"gone"}]

Views == [seq : 0..MaxSeq, entry : Entry]

TypeOK ==
    /\ last \in 0..MaxSeq /\ log \in [1..last -> Entry]
    /\ outgoing \subseteq Views
    /\ socket \in {"down", "added", "up"}
    /\ channel \in Seq(Views)
    /\ \A i \in DOMAIN queue : /\ queue[i].of \in {"sync", "history", "frame"}
                               /\ queue[i].frame \subseteq Views
    /\ job \in [at : {"free", "fetch", "apply", "advance", "save"},
               of : {"none", "sync", "history", "frame"},
               page : SUBSET Views, more : BOOLEAN, frame : SUBSET Views,
               after : 0..MaxSeq, base : 0..MaxSeq]
    /\ sync \in {"idle", "list", "backfill", "rest"}
    /\ synced \in 0..MaxSeq /\ saved \in 0..MaxSeq
    /\ local \in [Seqs -> 0..MaxSeq]
    /\ snapshot \in -1..MaxSeq

(***************************************************************************)
(* Safety.                                                                 *)
(***************************************************************************)
\* The position never runs ahead of what the device has: a message the server
\* still stores at or below it, in memory or in the local database, is there,
\* whatever was lost, repeated, restarted or written back from an old copy
\* (onLiveMessage's gap check, backfill, purgeExpired).
NothingSkipped ==
    \A i \in 1..last :
        IsText(log[i]) /\ (i <= synced \/ i <= saved) => local[i] # 0

\* What a device that applied the log once, in order, shows of message i.
Shown(i) ==
    IF i \notin 1..last \/ ~IsText(log[i]) THEN 0
    ELSE CHOOSE n \in {i} \cup {j \in 1..last : IsEdit(log[j], i)} :
           \A j \in 1..last : IsEdit(log[j], i) => j <= n

\* Nothing is under way and the device believes to be up to date.
Quiet ==
    /\ outgoing = {} /\ channel = <<>> /\ queue = <<>> /\ job = Free
    /\ sync = "idle" /\ snapshot = -1
    /\ synced = last

\* A device that reads the log through pages only ends up with what the log
\* says, deletions and edits included, through restarts, failed requests and
\* a position written back from an old copy.  (With live frames
\* it fails, as DeletedIsRemoved of Chat shows: it is the frames' path that
\* breaks it.)
PagesConverge == ~scene.live /\ Quiet => \A i \in Seqs : local[i] = Shown(i)

(***************************************************************************)
(* Liveness.                                                               *)
(***************************************************************************)
\* Number s is on its way into the device.
Coming(s) ==
    \/ \E i \in DOMAIN queue : \E f \in queue[i].frame : f.seq = s
    \/ sync = "list" /\ last >= s

\* A frame that reached the device, and a sync that started, bring it up to
\* that number, whatever happens to the socket meanwhile: as long as requests
\* are answered and the app runs on, no interleaving of withLock's queue,
\* backfill and fullSync loses the work (sync.ts).
CatchesUp ==
    \A s \in 1..TopSeq :
        ~scene.httpFails /\ ~scene.restarts /\ Coming(s) ~> synced >= s
=============================================================================
