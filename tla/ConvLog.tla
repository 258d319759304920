------------------------------ MODULE ConvLog ------------------------------
(***************************************************************************)
(* One conversation as the server stores it: its members, its numbered     *)
(* messages and deletion records, and the HTTP handlers and the janitor    *)
(* that work on it (internal/api/handlers_messages.go,                     *)
(* handlers_conversations.go, janitor.go over internal/store).             *)
(*                                                                         *)
(* SQLite runs over a single connection, so every statement outside a      *)
(* transaction and every transaction is one atomic step.  A handler that   *)
(* reads in one step and writes in another is a request with a program     *)
(* counter; the requests in Requests interleave freely, and with Faults a  *)
(* request may be abandoned between two steps (its client hangs up, a      *)
(* query fails) and the whole server may restart.                          *)
(***************************************************************************)
EXTENDS Integers, FiniteSets

CONSTANTS
    Accounts,        \* every account of the server
    Creator,         \* the account that created the conversation
    Admins,          \* the administrators, members or not
    ClientIds,       \* the client_msg_ids clients put on envelopes
    Requests,        \* slots for requests being served at the same time
    None,            \* no account, no client id
    MaxGroupMembers, \* the server setting max_group_members
    Timers,          \* retention_seconds values, 0 (off) among them
    GlobalTimer,     \* the administrator's cap in the same unit, 0 for none
    Faults,          \* whether requests may be abandoned and the server restart
    MaxSeq,          \* bound: the last sequence number the model assigns
    MaxClock,        \* bound: the last tick of the clock
    MaxRead          \* bound: the highest number a client reports as read

ASSUME ConvLogAssumption ==
    /\ Creator \in Accounts
    /\ Admins \subseteq Accounts
    /\ None \notin Accounts /\ None \notin ClientIds
    /\ MaxGroupMembers \in Nat
    /\ Timers \subseteq Nat /\ 0 \in Timers
    /\ GlobalTimer \in Nat
    /\ Faults \in BOOLEAN
    /\ MaxSeq \in Nat /\ MaxClock \in Nat /\ MaxRead \in Nat

VARIABLES
    kind,        \* conversations.kind, "direct" or "group"
    lastSeq,     \* conversations.last_seq
    retention,   \* conversations.retention_seconds
    rows,        \* the rows of table messages, deletion records included
    members,     \* accounts with a row in table members
    owners,      \* those of them whose role is "owner"
    joined,      \* members.joined_seq
    readSeq,     \* members.read_seq
    deleted,     \* accounts with accounts.deleted_at set
    clock,       \* the server's clock
    req,         \* the requests being served
    cutoff,      \* the cut-off the janitor has computed and not yet applied, -1 for none
    acks         \* history: the answers given to senders

convVars == <<kind, lastSeq, retention, rows>>
memberVars == <<members, owners, joined, readSeq, deleted>>
vars == <<convVars, memberVars, clock, req, cutoff, acks>>

(***************************************************************************)
(* Rows, requests and answers.                                             *)
(***************************************************************************)
\* A stored envelope.  `of' and `ofSender' are deleted_seq and deleted_sender,
\* 0 and None on a message.
Row == [seq : Nat, sender : Accounts, cid : ClientIds \cup {None}, ts : Nat,
        of : Nat, ofSender : Accounts \cup {None}]

IsDeletion(r) == r.of # 0

MessageRow(s, a, c, t) ==
    [seq |-> s, sender |-> a, cid |-> c, ts |-> t, of |-> 0, ofSender |-> None]

\* A record's client id is a fresh UUID and so never equals a client's: None.
RecordRow(s, a, t, m) ==
    [seq |-> s, sender |-> a, cid |-> None, ts |-> t, of |-> m.seq, ofSender |-> m.sender]

\* Mutant: the lookup forgets "deleted_seq IS NULL".
MessagesAtAnyRow(s) == {r \in rows : r.seq = s}

\* store.Message: the message with this number, if it is stored.
MessagesAt(s) == {r \in rows : r.seq = s /\ ~IsDeletion(r)}

\* The lookup of AppendMessage: rows with this sender and client id.
Stored(a, c) == {r \in rows : r.sender = a /\ r.cid = c}

Steps == {"idle", "send", "fanout", "delete", "deleted", "add", "remove", "retain"}

Request == [pc : Steps, by : Accounts \cup {None}, cid : ClientIds \cup {None},
            ts : Nat, seq : Nat, acct : Accounts \cup {None},
            targets : SUBSET Accounts]

Idle == [pc |-> "idle", by |-> None, cid |-> None, ts |-> 0, seq |-> 0,
         acct |-> None, targets |-> {}]

Ack == [sender : Accounts, cid : ClientIds, seq : Nat]

Become(h, r) == req' = [req EXCEPT ![h] = r]
Finish(h)    == Become(h, Idle)

\* Request q at its next step, about number s, with a fan-out list.
At(q, step, s, targets) == [q EXCEPT !.pc = step, !.seq = s, !.targets = targets]

(***************************************************************************)
(* The state right after createConversation.                               *)
(***************************************************************************)
Init ==
    /\ \/ /\ kind = "group"
          /\ members \in {M \in SUBSET Accounts :
                            Creator \in M /\ Cardinality(M) <= MaxGroupMembers}
          /\ owners = {Creator}
       \/ /\ kind = "direct"
          /\ members \in {{Creator, a} : a \in Accounts \ {Creator}}
          /\ owners = {}
    /\ lastSeq = 0
    /\ retention = 0
    /\ rows = {}
    /\ joined = [a \in Accounts |-> 0]
    /\ readSeq = [a \in Accounts |-> 0]
    /\ deleted = {}
    /\ clock = 0
    /\ req = [h \in Requests |-> Idle]
    /\ cutoff = -1
    /\ acks = {}

(***************************************************************************)
(* POST /conversations/{id}/messages and the socket's "send" frame.        *)
(***************************************************************************)
\* The envelope is checked and the clock read; membership comes later.
SendStart(h, a, c) ==
    /\ req[h].pc = "idle"
    /\ a \notin deleted
    /\ Become(h, [Idle EXCEPT !.pc = "send", !.by = a, !.cid = c, !.ts = clock])
    /\ UNCHANGED <<convVars, memberVars, clock, cutoff, acks>>

\* Mutant: the sender is left out of the fan-out.
SendStoreOthers(h) ==
    LET q == req[h] IN
    /\ q.pc = "send"
    /\ q.by \in members
    /\ Stored(q.by, q.cid) = {}
    /\ lastSeq < MaxSeq
    /\ rows' = rows \cup {MessageRow(lastSeq + 1, q.by, q.cid, q.ts)}
    /\ lastSeq' = lastSeq + 1
    /\ Become(h, At(q, "fanout", lastSeq + 1, members \ {q.by}))
    /\ UNCHANGED <<kind, retention, memberVars, clock, cutoff, acks>>

\* AppendMessage stores the envelope under the next number ...
SendStore(h) ==
    LET q == req[h] IN
    /\ q.pc = "send"
    /\ q.by \in members
    /\ Stored(q.by, q.cid) = {}
    /\ lastSeq < MaxSeq
    /\ rows' = rows \cup {MessageRow(lastSeq + 1, q.by, q.cid, q.ts)}
    /\ lastSeq' = lastSeq + 1
    /\ Become(h, At(q, "fanout", lastSeq + 1, members))
    /\ UNCHANGED <<kind, retention, memberVars, clock, cutoff, acks>>

\* Mutant: a duplicate is answered with the last number of the conversation.
SendDuplicateLast(h) ==
    LET q == req[h] IN
    /\ q.pc = "send"
    /\ q.by \in members
    /\ Stored(q.by, q.cid) # {}
    /\ acks' = acks \cup {[sender |-> q.by, cid |-> q.cid, seq |-> lastSeq]}
    /\ Finish(h)
    /\ UNCHANGED <<convVars, memberVars, clock, cutoff>>

\* ... or finds it stored already and answers with its number ...
SendDuplicate(h) ==
    LET q == req[h] IN
    /\ q.pc = "send"
    /\ q.by \in members
    /\ \E r \in Stored(q.by, q.cid) :
         acks' = acks \cup {[sender |-> q.by, cid |-> q.cid, seq |-> r.seq]}
    /\ Finish(h)
    /\ UNCHANGED <<convVars, memberVars, clock, cutoff>>

\* ... or refuses it: the sender, or a recipient, is not a member.  Which
\* recipients an envelope names is the sender's business, so a refusal for
\* their sake is possible whenever somebody is not a member.
SendRefuse(h) ==
    /\ req[h].pc = "send"
    /\ req[h].by \notin members \/ members # Accounts
    /\ Finish(h)
    /\ UNCHANGED <<convVars, memberVars, clock, cutoff, acks>>

\* Mutant: the answer reads last_seq again instead of keeping the row's number.
FanoutAcksLast(h) ==
    LET q == req[h] IN
    /\ q.pc = "fanout"
    /\ acks' = IF q.cid = None THEN acks
               ELSE acks \cup {[sender |-> q.by, cid |-> q.cid, seq |-> lastSeq]}
    /\ Finish(h)
    /\ UNCHANGED <<convVars, memberVars, clock, cutoff>>

\* The frame is handed to the hub and the request answered.
Fanout(h) ==
    LET q == req[h] IN
    /\ q.pc = "fanout"
    /\ acks' = IF q.cid = None THEN acks
               ELSE acks \cup {[sender |-> q.by, cid |-> q.cid, seq |-> q.seq]}
    /\ Finish(h)
    /\ UNCHANGED <<convVars, memberVars, clock, cutoff>>

(***************************************************************************)
(* DELETE /conversations/{id}/messages/{seq}.                              *)
(***************************************************************************)
\* The message is looked up and the right to delete it checked.
DeleteStart(h, a, s) ==
    /\ req[h].pc = "idle"
    /\ a \notin deleted
    /\ a \in members \cup Admins
    /\ \E m \in MessagesAt(s) : a = m.sender \/ a \in Admins
    /\ Become(h, [Idle EXCEPT !.pc = "delete", !.by = a, !.seq = s, !.ts = clock])
    /\ UNCHANGED <<convVars, memberVars, clock, cutoff, acks>>

\* Mutant: the transaction forgets to advance last_seq.
DeleteStoreKeepsLast(h) ==
    LET q == req[h] IN
    /\ q.pc = "delete"
    /\ lastSeq < MaxSeq
    /\ \E m \in MessagesAt(q.seq), t \in q.ts..clock :
         rows' = {r \in rows : r.seq # q.seq} \cup {RecordRow(lastSeq + 1, q.by, t, m)}
    /\ Become(h, At(q, "deleted", lastSeq + 1, {}))
    /\ UNCHANGED <<kind, lastSeq, retention, memberVars, clock, cutoff, acks>>

\* store.DeleteMessage swaps the row for a record at the end of the log.
DeleteStore(h) ==
    LET q == req[h] IN
    /\ q.pc = "delete"
    /\ lastSeq < MaxSeq
    /\ \E m \in MessagesAt(q.seq), t \in q.ts..clock :
         rows' = {r \in rows : r.seq # q.seq} \cup {RecordRow(lastSeq + 1, q.by, t, m)}
    /\ lastSeq' = lastSeq + 1
    /\ Become(h, At(q, "deleted", lastSeq + 1, {}))
    /\ UNCHANGED <<kind, retention, memberVars, clock, cutoff, acks>>

\* Somebody else, or the janitor, was faster.
DeleteMissing(h) ==
    /\ req[h].pc = "delete"
    /\ MessagesAt(req[h].seq) = {}
    /\ Finish(h)
    /\ UNCHANGED <<convVars, memberVars, clock, cutoff, acks>>

\* The members the record goes to are listed after the transaction.
DeleteList(h) ==
    /\ req[h].pc = "deleted"
    /\ Become(h, At(req[h], "fanout", req[h].seq, members))
    /\ UNCHANGED <<convVars, memberVars, clock, cutoff, acks>>

(***************************************************************************)
(* POST and DELETE /conversations/{id}/members.                            *)
(***************************************************************************)
\* Mutant: the size of the group is not looked at.
AddStartUnlimited(h, a, b) ==
    /\ req[h].pc = "idle"
    /\ kind = "group"
    /\ a \in owners
    /\ b \notin deleted
    /\ Become(h, [Idle EXCEPT !.pc = "add", !.by = a, !.acct = b])
    /\ UNCHANGED <<convVars, memberVars, clock, cutoff, acks>>

\* Ownership, the account and the size of the group are checked ...
AddStart(h, a, b) ==
    /\ req[h].pc = "idle"
    /\ kind = "group"
    /\ a \in owners
    /\ b \notin deleted
    /\ Cardinality(members) + 1 <= MaxGroupMembers
    /\ Become(h, [Idle EXCEPT !.pc = "add", !.by = a, !.acct = b])
    /\ UNCHANGED <<convVars, memberVars, clock, cutoff, acks>>

\* ... and then store.AddMember inserts the row.
AddStore(h) ==
    LET b == req[h].acct IN
    /\ req[h].pc = "add"
    /\ b \notin members
    /\ members' = members \cup {b}
    /\ joined' = [joined EXCEPT ![b] = lastSeq]
    /\ readSeq' = [readSeq EXCEPT ![b] = lastSeq]
    /\ Finish(h)
    /\ UNCHANGED <<convVars, owners, deleted, clock, cutoff, acks>>

AddConflict(h) ==
    /\ req[h].pc = "add"
    /\ req[h].acct \in members
    /\ Finish(h)
    /\ UNCHANGED <<convVars, memberVars, clock, cutoff, acks>>

\* An owner removes anybody, anybody removes himself; owners are not replaced.
RemoveStart(h, a, b) ==
    /\ req[h].pc = "idle"
    /\ kind = "group"
    /\ a \in members
    /\ a = b \/ a \in owners
    /\ Become(h, [Idle EXCEPT !.pc = "remove", !.by = a, !.acct = b])
    /\ UNCHANGED <<convVars, memberVars, clock, cutoff, acks>>

\* What deleting b's row in table members leaves behind.
DropMember(b) ==
    /\ members' = members \ {b}
    /\ owners' = owners \ {b}
    /\ joined' = [joined EXCEPT ![b] = 0]
    /\ readSeq' = [readSeq EXCEPT ![b] = 0]

RemoveStore(h) ==
    /\ req[h].pc = "remove"
    /\ req[h].acct \in members
    /\ DropMember(req[h].acct)
    /\ Finish(h)
    /\ UNCHANGED <<convVars, deleted, clock, cutoff, acks>>

RemoveMissing(h) ==
    /\ req[h].pc = "remove"
    /\ req[h].acct \notin members
    /\ Finish(h)
    /\ UNCHANGED <<convVars, memberVars, clock, cutoff, acks>>

\* DELETE /admin/users/{id}: the account's memberships go, its messages stay.
DeleteAccount(b) ==
    /\ b \notin deleted
    /\ \E a \in Admins \ {b} : a \notin deleted
    /\ deleted' = deleted \cup {b}
    /\ DropMember(b)
    /\ UNCHANGED <<convVars, clock, req, cutoff, acks>>

(***************************************************************************)
(* PUT /conversations/{id}/read and /retention.                            *)
(***************************************************************************)
\* The read position moves forward only, and never past the last message.
MarkRead(a, s) ==
    /\ a \in members
    /\ readSeq' = [readSeq EXCEPT ![a] =
                     LET new == IF s <= lastSeq THEN s ELSE lastSeq
                     IN  IF new >= @ THEN new ELSE @]
    /\ UNCHANGED <<convVars, members, owners, joined, deleted, clock, req, cutoff, acks>>

RetentionStart(h, a, t) ==
    /\ req[h].pc = "idle"
    /\ a \in members
    /\ kind = "direct" \/ a \in owners
    /\ Become(h, [Idle EXCEPT !.pc = "retain", !.by = a, !.ts = t])
    /\ UNCHANGED <<convVars, memberVars, clock, cutoff, acks>>

RetentionStore(h) ==
    /\ req[h].pc = "retain"
    /\ retention' = req[h].ts
    /\ Finish(h)
    /\ UNCHANGED <<kind, lastSeq, rows, memberVars, clock, cutoff, acks>>

(***************************************************************************)
(* The janitor.                                                            *)
(***************************************************************************)
\* The timer in force: the conversation's, capped by the administrator's.
Effective(timer) ==
    IF GlobalTimer > 0 /\ (timer = 0 \/ timer > GlobalTimer) THEN GlobalTimer ELSE timer

\* PurgeExpired first computes the cut-offs of all conversations ...
JanitorStart ==
    /\ cutoff = -1
    /\ Effective(retention) > 0
    /\ clock >= Effective(retention)     \* an earlier cut-off finds nothing
    /\ cutoff' = clock - Effective(retention)
    /\ UNCHANGED <<convVars, memberVars, clock, req, acks>>

\* Mutant: the comparison with the cut-off is not strict.
JanitorPurgeInclusive ==
    /\ cutoff >= 0
    /\ rows' = {r \in rows : r.ts > cutoff}
    /\ cutoff' = -1
    /\ UNCHANGED <<kind, lastSeq, retention, memberVars, clock, req, acks>>

\* ... and then deletes what is older, messages and records alike.
JanitorPurge ==
    /\ cutoff >= 0
    /\ rows' = {r \in rows : r.ts >= cutoff}
    /\ cutoff' = -1
    /\ UNCHANGED <<kind, lastSeq, retention, memberVars, clock, req, acks>>

(***************************************************************************)
(* The surroundings.                                                       *)
(***************************************************************************)
Tick ==
    /\ clock < MaxClock
    /\ clock' = clock + 1
    /\ UNCHANGED <<convVars, memberVars, req, cutoff, acks>>

\* A request ends between two steps: its context is cancelled or a query fails;
\* at "fanout" it is the answer that is lost.
Abandon(h) ==
    /\ Faults
    /\ req[h].pc # "idle"
    /\ Finish(h)
    /\ UNCHANGED <<convVars, memberVars, clock, cutoff, acks>>

\* The process restarts; the database is what it was.
Restart ==
    /\ Faults
    /\ req' = [h \in Requests |-> Idle]
    /\ cutoff' = -1
    /\ UNCHANGED <<convVars, memberVars, clock, acks>>

(***************************************************************************)
(* The specification.                                                      *)
(***************************************************************************)
RequestStep(h) ==
    \/ \E a \in Accounts, c \in ClientIds : SendStart(h, a, c)
    \/ SendStore(h) \/ SendDuplicate(h) \/ SendRefuse(h) \/ Fanout(h)
    \/ \E a \in Accounts, s \in 1..MaxSeq : DeleteStart(h, a, s)
    \/ DeleteStore(h) \/ DeleteMissing(h) \/ DeleteList(h)
    \/ \E a, b \in Accounts : AddStart(h, a, b)
    \/ AddStore(h) \/ AddConflict(h)
    \/ \E a, b \in Accounts : RemoveStart(h, a, b)
    \/ RemoveStore(h) \/ RemoveMissing(h)
    \/ \E a \in Accounts, t \in Timers : RetentionStart(h, a, t)
    \/ RetentionStore(h)
    \/ Abandon(h)

Next ==
    \/ \E h \in Requests : RequestStep(h)
    \/ \E b \in Accounts : DeleteAccount(b)
    \/ \E a \in Accounts, s \in 1..MaxRead : MarkRead(a, s)
    \/ JanitorStart \/ JanitorPurge
    \/ Tick
    \/ Restart

Spec == Init /\ [][Next]_vars

(***************************************************************************)
(* Type invariant.                                                         *)
(***************************************************************************)
TypeOK ==
    /\ kind \in {"direct", "group"}
    /\ lastSeq \in Nat
    /\ retention \in Nat
    /\ rows \subseteq Row
    /\ members \subseteq Accounts
    /\ owners \subseteq Accounts
    /\ joined \in [Accounts -> Nat]
    /\ readSeq \in [Accounts -> Nat]
    /\ deleted \subseteq Accounts
    /\ clock \in Nat
    /\ req \in [Requests -> Request]
    /\ cutoff \in Nat \cup {-1}
    /\ acks \subseteq Ack

(***************************************************************************)
(* Safety.                                                                 *)
(***************************************************************************)
\* Every row has a number of its own among those assigned, and no sender has
\* two stored messages under one client id: messages.go keeps last_seq ahead
\* of the rows and looks for the client id inside the transaction.
RowsNumbered ==
    /\ \A r \in rows : r.seq \in 1..lastSeq
    /\ \A r1, r2 \in rows :
         \/ r1 = r2
         \/ /\ r1.seq # r2.seq
            /\ r1.cid = None \/ r1.sender # r2.sender \/ r1.cid # r2.cid

\* A deletion record speaks of an earlier number that is not stored any more,
\* no message has two records, and whoever signed it was entitled to: the
\* author of the message or an administrator.  The handler checks the author
\* in one query and deletes in another (handlers_messages.go:207-216).
RecordsTrue ==
    \A r \in rows : IsDeletion(r) =>
        /\ r.of < r.seq
        /\ \A r2 \in rows : r2.seq # r.of
        /\ \A r2 \in rows : IsDeletion(r2) /\ r2.of = r.of => r2 = r
        /\ r.sender = r.ofSender \/ r.sender \in Admins

\* The number a sender was told stays that message's number: whatever is
\* stored there later, after any retries, deletions and purges, is the
\* message he sent (the "ack" frame and the 201 of sendMessage).
AcksNameTheirMessage ==
    \A k \in acks, r \in rows :
        r.seq = k.seq => r.sender = k.sender /\ r.cid = k.cid

\* A retry gets the number of the first attempt for as long as that message
\* is stored: of two answers to one client id the lower names a row that is
\* gone (AppendMessage's lookup of the client id).
RetriesAgreeWhileStored ==
    \A k1, k2 \in acks :
        k1.sender = k2.sender /\ k1.cid = k2.cid /\ k1.seq < k2.seq =>
            \A r \in rows : r.seq # k1.seq

\* When a frame is about to be fanned out, its targets include every member
\* who may read that number, however members came and went since the row was
\* committed; the others see it with their first page of history
\* (sendEnvelope uses the transaction's list, deleteMessage a later one).
FanoutCovers ==
    \A h \in Requests : req[h].pc = "fanout" =>
        \A a \in members : joined[a] < req[h].seq => a \in req[h].targets

\* A member starts where he joined and reads up to what there is
\* (AddMember and MarkRead).
ReadWithinLog ==
    \A a \in members : joined[a] <= readSeq[a] /\ readSeq[a] <= lastSeq

\* The size of a group is checked before, and outside of, the transaction that
\* inserts the member, so the limit may be passed, but only by requests that
\* overlapped: by one for each besides the first, and never by adding one after
\* the other (addMember, handlers_conversations.go:277).
OvershootBounded ==
    kind = "group" => Cardinality(members) < MaxGroupMembers + Cardinality(Requests)

\* Nothing but a deletion removes a message that has not outlived a timer the
\* conversation can have been under, although the janitor applies a cut-off it
\* computed before the timer changed (PurgeExpired).
NothingExpiresEarly ==
    [][\A r \in rows \ rows' :
         \/ \E d \in rows' : d.of = r.seq
         \/ \E t \in Timers : Effective(t) > 0 /\ r.ts + Effective(t) < clock]_vars

(***************************************************************************)
(* The inductive invariant the proofs of ConvLogProofs rest on.            *)
(***************************************************************************)
\* A request carries what its next step needs.
RequestsFilled ==
    \A h \in Requests :
        /\ req[h].pc = "send" => req[h].by \in Accounts /\ req[h].cid \in ClientIds
        /\ req[h].pc \in {"fanout", "delete", "deleted"} => req[h].by \in Accounts
        /\ req[h].pc \in {"delete", "deleted"} => req[h].cid = None
        /\ req[h].pc \in {"add", "remove"} => req[h].acct \in Accounts

\* The number a request works on has been assigned.
RequestsNumbered ==
    \A h \in Requests :
        req[h].pc \in {"fanout", "delete", "deleted"} => req[h].seq \in 1..lastSeq

\* A deletion that was allowed stays allowed until it is carried out.
DeletionsEntitled ==
    \A h \in Requests : req[h].pc = "delete" =>
        \/ req[h].by \in Admins
        \/ \A m \in MessagesAt(req[h].seq) : m.sender = req[h].by

\* The answers given and the ones about to be given.
Claims ==
    acks \cup {[sender |-> req[h].by, cid |-> req[h].cid, seq |-> req[h].seq] :
                 h \in {g \in Requests : req[g].pc = "fanout" /\ req[g].cid # None}}

\* A claim's number was assigned; what is stored there is the claimed message;
\* and no older copy of the claimed message is stored.
ClaimsTrue ==
    \A k \in Claims :
        /\ k.seq \in 1..lastSeq
        /\ \A r \in rows :
             /\ r.seq = k.seq => r.sender = k.sender /\ r.cid = k.cid
             /\ r.sender = k.sender /\ r.cid = k.cid => k.seq <= r.seq

Typed == TypeOK /\ RequestsFilled

\* The inductive invariant.
IInv ==
    /\ Typed
    /\ RowsNumbered
    /\ RecordsTrue
    /\ RequestsNumbered
    /\ DeletionsEntitled
    /\ ClaimsTrue
    /\ FanoutCovers
    /\ ReadWithinLog

\* The timers and cut-offs in use stem from timers somebody could set.
TimersKnown ==
    /\ retention \in Timers
    /\ \A h \in Requests : req[h].pc = "retain" => req[h].ts \in Timers
    /\ cutoff >= 0 =>
         \E t \in Timers : Effective(t) > 0 /\ cutoff + Effective(t) <= clock

\* The requests that found room in the group and have not used it.
Adding == {h \in Requests : req[h].pc = "add"}

\* Together with the members there are they never exceed the limit by more.
RoomCounted ==
    /\ kind # "group" => Adding = {}
    /\ kind = "group" =>
         Cardinality(members) + Cardinality(Adding) < MaxGroupMembers + Cardinality(Requests)

(***************************************************************************)
(* ConvLog implements the log MessageLog promises.                         *)
(***************************************************************************)
EntryOf(r) ==
    IF IsDeletion(r)
    THEN [kind |-> "record", by |-> r.sender, of |-> r.of]
    ELSE [kind |-> "message", body |-> <<r.sender, r.cid>>]

\* What a position with these rows holds.
Slot(R) == IF R = {} THEN [kind |-> "gone"] ELSE EntryOf(CHOOSE r \in R : TRUE)

LogView == [i \in 1..lastSeq |-> Slot({r \in rows : r.seq = i})]

Log == INSTANCE MessageLog WITH
          Bodies <- Accounts \X ClientIds, Actors <- Accounts,
          last <- lastSeq, log <- LogView

\* The conversation's rows behave as the append-only log of MessageLog: no
\* number is ever given out twice, and what a number has lost it never gets
\* back, through every interleaving of senders, deleters and the janitor.
ImplementsLog == Log!Spec
=============================================================================
