------------------------------- MODULE Roster -------------------------------
(***************************************************************************)
(* Who a group's messages are sealed to: the membership events, the        *)
(* server's member list and the pinned keys on each device                 *)
(* (web/src/state/messaging.ts and sync.ts, shown in ui/MemberPanel.tsx).  *)
(*                                                                         *)
(* The server keeps the members and numbers what is sent.  A device keeps  *)
(* one record of the conversation.  Entries are applied one after the      *)
(* other, under a lock, but the record is also written by answers of       *)
(* requests, by events and by the member panel, which take no lock; some   *)
(* writers put back a copy they took before an await.                      *)
(***************************************************************************)
EXTENDS Integers, Sequences, FiniteSets

CONSTANTS
    Accounts,       \* every account that may be in the group
    Creator,        \* the account that created it and owns it
    First,          \* the accounts it was created with
    Devices,        \* the devices looked at
    AccountOf,      \* whose device each of them is
    Suspect,        \* the account for which the server may present other keys
    Keys,           \* the keys it may present, 1 being the account's own
    Worlds          \* bound: what a behaviour may look at, one of these for each:
                    \*   active     the devices on which something happens
                    \*   deceived   those to which the server may present other keys,
                    \*              and whose user compares them
                    \*   forgetful  those on which purgeExpired finds messages to forget
                    \*   leaving    those whose user may leave the group
                    \*   last       the last number the server assigns
                    \*   busy       answers under way, entries being applied and operations that
                    \*              have begun, at a time and on all devices together

None == "nobody"

\* The creator's device that sent the first event is among those looked at.
ASSUME RosterAssumption ==
    /\ Creator \in First /\ First \subseteq Accounts
    /\ AccountOf \in [Devices -> Accounts] /\ None \notin Accounts
    /\ \E d \in Devices : AccountOf[d] = Creator
    /\ Suspect \in Accounts /\ Keys \subseteq Nat /\ 1 \in Keys /\ 0 \notin Keys
    /\ \A w \in Worlds : /\ w.active \subseteq Devices /\ w.deceived \subseteq Devices
                         /\ w.forgetful \subseteq Devices /\ w.leaving \subseteq Devices
                         /\ w.last \in Nat \ {0} /\ w.busy \in Nat

VARIABLES
    members,   \* the server's member list
    log,       \* the entries it stores
    joined,    \* joined_seq of each member
    conv,      \* the conversation record of each device
    contact,   \* each device's contact record of the suspect account
    gets,      \* answers under way
    told,      \* whether a conv.removed event is under way
    job,       \* the entry being applied under the lock
    op,        \* the member panel's operation, or a purge
    orderly,   \* history: see Disorder
    rewound,   \* history: devices that wrote back a copy older than the record
    world      \* what this behaviour looks at

serverVars == <<members, log, joined>>
panelVars == <<op, orderly, rewound, world>>
vars == <<serverVars, conv, contact, gets, told, job, panelVars>>

\* An event's roster, or {None} for what is no membership event.
NoEvent == {None}

Unknown == [roster |-> NoEvent, rosterSeq |-> 0, synced |-> 0, members |-> {}, removed |-> TRUE]
Idle    == [k |-> "none", who |-> None, list |-> {}, copy |-> Unknown]
NoJob   == [seq |-> 0, copy |-> Unknown]

\* History of the suspect's keys on a device: trusted are those met first or
\* accepted, compared is the one whose code was shown when it was verified.
NewContact == [pin |-> 0, pending |-> 0, verified |-> FALSE, trusted |-> {}, compared |-> 0]

Known == [roster |-> First, rosterSeq |-> 1, synced |-> 1, members |-> First, removed |-> FALSE]

\* The group has been created and every device of a member has heard of it.
Init ==
    /\ members = First
    /\ log = <<[by |-> CHOOSE d \in Devices : AccountOf[d] = Creator,
                roster |-> First, for |-> First, key |-> 0]>>
    /\ joined = [a \in Accounts |-> 0]
    /\ conv = [d \in Devices |-> IF AccountOf[d] \in First THEN Known ELSE Unknown]
    /\ contact = [d \in Devices |->
                     IF Suspect \in First /\ AccountOf[d] \in First
                     THEN [NewContact EXCEPT !.pin = 1, !.trusted = {1}] ELSE NewContact]
    /\ gets = [d \in Devices |-> {}]
    /\ told = [d \in Devices |-> FALSE]
    /\ job = [d \in Devices |-> NoJob]
    /\ op = [d \in Devices |-> Idle]
    /\ orderly = TRUE /\ rewound = {}
    /\ world \in Worlds

Me(d)       == AccountOf[d]
Set(f, d, x) == f' = [f EXCEPT ![d] = x]

MayBegin(d) ==
    /\ d \in world.active
    /\ Cardinality(UNION {{<<e, view>> : view \in gets[e]} : e \in Devices})
         + Cardinality({e \in Devices : job[e].seq # 0}) + Cardinality({e \in Devices : op[e].k # "none"})
           < world.busy

(***************************************************************************)
(* The rules.                                                              *)
(***************************************************************************)
\* Mutant: the server's list alone decides.
SealingServerList(d) == conv[d].members \cup {Me(d)}

\* sealingMembers (no bots in this group).
SealingMembers(d) ==
    LET base == IF conv[d].roster = NoEvent THEN conv[d].members ELSE conv[d].roster
    IN  (base \cap conv[d].members) \cup {Me(d)}

\* recipientsFor: every member's keys are known and none of them has changed.
CanSeal(d) == Suspect \in SealingMembers(d) \ {Me(d)} =>
                  contact[d].pin # 0 /\ contact[d].pending = 0

\* Mutant: the latest keys are taken.
ObserveKeysLatest(c, key) == [c EXCEPT !.pin = key, !.trusted = IF @ = {} THEN {key} ELSE @]

\* observeKeys: the first are trusted, others wait for the user.
ObserveKeys(c, key) ==
    IF key = 0 THEN c
    ELSE IF c.pin = 0 THEN [c EXCEPT !.pin = key, !.trusted = {key}]
    ELSE IF c.pin # key THEN [c EXCEPT !.pending = key]
    ELSE c

\* What the server says the suspect's keys are.
Presented(d) == IF d \in world.deceived THEN Keys ELSE {1}

\* Keys of the suspect that come with a list of members.
KeysWith(list, key) == IF Suspect \in list THEN key ELSE 0

\* upsertFromServer: the answer's list replaces what the record said.
Upserted(d, view) == [conv[d] EXCEPT !.members = view, !.removed = FALSE]

(***************************************************************************)
(* The server: what it tells everybody about (a member.added or a           *)
(* member.removed event) makes devices ask, as a hello does.               *)
(***************************************************************************)
Get(d) ==
    /\ MayBegin(d)
    /\ Me(d) \in members
    /\ Set(gets, d, gets[d] \cup {members})
    /\ UNCHANGED <<serverVars, conv, contact, told, job, panelVars>>

\* The answers need not arrive in the order of the requests.
Upsert(d) == \E view \in gets[d], key \in Presented(d) :
    /\ Set(gets, d, gets[d] \ {view})
    /\ Set(conv, d, Upserted(d, view))
    /\ Set(contact, d, ObserveKeys(contact[d], KeysWith(view, key)))
    /\ UNCHANGED <<serverVars, told, job, panelVars>>

\* onEvent, conv.removed.
Removed(d) ==
    /\ d \in world.active /\ told[d]
    /\ Set(told, d, FALSE)
    /\ Set(conv, d, [conv[d] EXCEPT !.removed = TRUE])
    /\ UNCHANGED <<serverVars, contact, gets, job, panelVars>>

\* http.send: the server accepts entries of members.
Send(d, roster) ==
    log' = Append(log, [by |-> d, roster |-> roster, for |-> SealingMembers(d),
                        key |-> KeysWith(SealingMembers(d) \ {Me(d)}, contact[d].pin)])

MaySend(d) == d \in world.active /\ Me(d) \in members /\ Len(log) < world.last /\ ~conv[d].removed

\* A text or an edit.
SendText(d) ==
    /\ MaySend(d) /\ CanSeal(d)
    /\ Send(d, NoEvent)
    /\ UNCHANGED <<members, joined, conv, contact, gets, told, job, panelVars>>

(***************************************************************************)
(* What the member panel offers.                                           *)
(***************************************************************************)
\* Whom it lets the user take out: the owner anybody in the list, everybody oneself.
Removable(d) ==
    IF conv[d].removed THEN {}
    ELSE {Me(d)} \cup IF Me(d) = Creator THEN conv[d].members \ {Me(d)} ELSE {}

\* The owner has a form to add somebody.
MayAdd(d) == Me(d) = Creator /\ ~conv[d].removed

\* The code next to the suspect's name is that of the new keys, if there are any.
CodeShown(d) == IF contact[d].pending # 0 THEN contact[d].pending ELSE contact[d].pin

(***************************************************************************)
(* addMember.                                                              *)
(***************************************************************************)
\* The last membership event the server has.
LastEvent == CHOOSE i \in DOMAIN log : /\ log[i].roster # NoEvent
                                       /\ \A k \in DOMAIN log : k > i => log[k].roster = NoEvent

\* The device has applied everything, holds the server's list, and its roster, if it
\* has one, is that of the last event.  It is an older one on the devices of a member
\* who has come back: they keep the roster from before and could not open the event
\* that added them again.
UpToDate(d) ==
    /\ conv[d].synced = Len(log) /\ conv[d].members = members /\ job[d] = NoJob
    /\ conv[d].rosterSeq \in {0, LastEvent}

\* History: an operation that did not start from the latest state, that ran
\* beside another one, or that failed half way.
Disorder(d) == ~UpToDate(d) \/ \E e \in Devices : op[e] # Idle

\* lookupUser and http.addMember.
AddOnServer(d) == \E a \in Accounts \ members, key \in Presented(d) :
    /\ MayBegin(d) /\ op[d] = Idle /\ MayAdd(d) /\ Me(d) \in members
    /\ Len(log) < world.last
    /\ members' = members \cup {a}
    /\ joined' = [joined EXCEPT ![a] = Len(log)]
    /\ Set(op, d, [Idle EXCEPT !.k = "add", !.who = a, !.list = members'])
    /\ Set(contact, d, ObserveKeys(contact[d], KeysWith({a}, key)))
    /\ orderly' = (orderly /\ ~Disorder(d))
    /\ UNCHANGED <<log, conv, gets, told, job, rewound, world>>

\* The answer is put into the record, the new roster is computed from it.
AddUpsert(d) == \E key \in Presented(d) :
    /\ op[d].k = "add"
    /\ Set(conv, d, Upserted(d, op[d].list))
    /\ Set(contact, d, ObserveKeys(contact[d], KeysWith(op[d].list, key)))
    /\ LET before == IF conv[d].roster = NoEvent THEN op[d].list \ {op[d].who}
                     ELSE conv[d].roster
       IN  Set(op, d, [op[d] EXCEPT !.k = "announce",
                                    !.list = before \cup {Me(d), op[d].who}])
    /\ UNCHANGED <<serverVars, gets, told, job, orderly, rewound, world>>

\* Mutant: the roster before the change.
AddAnnounceOld(d) ==
    /\ op[d].k = "announce"
    /\ MaySend(d) /\ CanSeal(d)
    /\ Send(d, op[d].list \ {op[d].who})
    /\ UNCHANGED orderly
    /\ Set(op, d, Idle)
    /\ UNCHANGED <<members, joined, conv, contact, gets, told, job, rewound, world>>

\* The member.add event; changed keys or a failed request leave it unsent.
AddAnnounce(d) ==
    /\ op[d].k = "announce"
    /\ \/ MaySend(d) /\ CanSeal(d) /\ Send(d, op[d].list) /\ UNCHANGED orderly
       \/ orderly' = FALSE /\ UNCHANGED log
    /\ Set(op, d, Idle)
    /\ UNCHANGED <<members, joined, conv, contact, gets, told, job, rewound, world>>

(***************************************************************************)
(* removeMember: the owner removes somebody, anybody leaves.               *)
(***************************************************************************)
RemoveAnnounce(d) == \E a \in Removable(d) :
    /\ MayBegin(d) /\ op[d] = Idle /\ Me(d) \in members
    /\ a = Me(d) => d \in world.leaving
    /\ \/ MaySend(d) /\ CanSeal(d) /\ Send(d, SealingMembers(d) \ {a})
          /\ orderly' = (orderly /\ ~Disorder(d))
       \/ orderly' = FALSE /\ UNCHANGED log
    /\ Set(op, d, [Idle EXCEPT !.k = "remove", !.who = a, !.copy = conv[d]])
    /\ UNCHANGED <<members, joined, conv, contact, gets, told, job, rewound, world>>

\* A copy taken earlier is written over the record.
WriteBack(d, copy) ==
    /\ Set(conv, d, copy)
    /\ rewound' = IF copy.synced < conv[d].synced THEN rewound \cup {d} ELSE rewound

\* http.removeMember; whoever left writes back the record it began with.
RemoveOnServer(d) ==
    LET x == op[d] IN
    /\ x.k = "remove"
    /\ \/ /\ Me(d) \in members
          /\ members' = members \ {x.who}
          /\ told' = [e \in Devices |-> told[e] \/ (Me(e) = x.who /\ x.who \in members)]
          /\ IF x.who = Me(d) THEN WriteBack(d, [x.copy EXCEPT !.removed = TRUE])
             ELSE UNCHANGED <<conv, rewound>>
          /\ UNCHANGED orderly
       \/ orderly' = FALSE /\ UNCHANGED <<members, told, conv, rewound>>
    /\ Set(op, d, Idle)
    /\ UNCHANGED <<log, joined, contact, gets, job, world>>

(***************************************************************************)
(* Entries.                                                                *)
(***************************************************************************)
\* What the device's account can open of entry i.
Opens(d, i) == Me(d) \in log[i].for

\* The lock is taken for the next entry, or for one that comes a second time.
Take(d) == \E i \in 1..Len(log) :
    /\ MayBegin(d) /\ job[d] = NoJob /\ ~conv[d].removed
    /\ Me(d) \in members /\ i > joined[Me(d)]
    /\ i <= 1 + (IF conv[d].synced >= joined[Me(d)] THEN conv[d].synced ELSE joined[Me(d)])
    /\ Set(job, d, [seq |-> i, copy |-> conv[d]])
    /\ UNCHANGED <<serverVars, conv, contact, gets, told, panelVars>>

Later(m, n) == IF m >= n THEN m ELSE n

\* Mutant: an event that comes again counts as the latest.
AppliedAgain(copy, i, e) ==
    [copy EXCEPT !.synced = Later(@, i),
                 !.roster = IF e = NoEvent THEN @ ELSE e,
                 !.rosterSeq = IF e = NoEvent THEN @ ELSE i]

\* applyStored: everything is written into the copy.
Applied(copy, i, e) ==
    LET news == e # NoEvent /\ i > copy.rosterSeq
    IN  [copy EXCEPT !.synced = Later(@, i),
                     !.roster = IF news THEN e ELSE @,
                     !.rosterSeq = IF news THEN i ELSE @]

\* The copy is written; an edit or a deletion record (advanceSilently) moves the
\* position of the record as it is now.
Persist(d) ==
    LET i == job[d].seq
        e == IF Opens(d, i) THEN log[i].roster ELSE NoEvent
    IN  /\ job[d] # NoJob
        /\ \/ Set(conv, d, Applied(job[d].copy, i, e))
           \/ log[i].roster = NoEvent /\ Set(conv, d, Applied(conv[d], i, NoEvent))
        /\ Set(contact, d, ObserveKeys(contact[d], KeysWith(e, log[i].key)))
        /\ Set(job, d, NoJob)
        /\ UNCHANGED <<serverVars, gets, told, panelVars>>

\* purgeExpired copies the record, deletes messages, writes the copy back.
PurgeCopy(d) ==
    /\ MayBegin(d) /\ d \in world.forgetful /\ op[d] = Idle
    /\ Set(op, d, [Idle EXCEPT !.k = "purge", !.copy = conv[d]])
    /\ UNCHANGED <<serverVars, conv, contact, gets, told, job, orderly, rewound, world>>

PurgeWrite(d) ==
    /\ op[d].k = "purge"
    /\ WriteBack(d, op[d].copy)
    /\ Set(op, d, Idle)
    /\ UNCHANGED <<serverVars, contact, gets, told, job, orderly, world>>

(***************************************************************************)
(* The member panel's checks of keys.                                      *)
(***************************************************************************)
\* The panel shows the code of the new keys if there are any.
SetVerified(d) ==
    /\ d \in world.deceived /\ contact[d].pin # 0 /\ ~contact[d].verified
    /\ Set(contact, d, [contact[d] EXCEPT !.verified = TRUE, !.compared = CodeShown(d)])
    /\ UNCHANGED <<serverVars, conv, gets, told, job, panelVars>>

AcceptNewKeys(d) ==
    LET c == contact[d] IN
    /\ c.pending # 0
    /\ Set(contact, d, [c EXCEPT !.pin = c.pending, !.pending = 0, !.verified = FALSE,
                                 !.trusted = @ \cup {c.pending}])
    /\ UNCHANGED <<serverVars, conv, gets, told, job, panelVars>>

(***************************************************************************)
(* The specification.                                                      *)
(***************************************************************************)
Next == \E d \in Devices :
    \/ Get(d) \/ Upsert(d) \/ Removed(d) \/ SendText(d)
    \/ AddOnServer(d) \/ AddUpsert(d) \/ AddAnnounce(d)
    \/ RemoveAnnounce(d) \/ RemoveOnServer(d)
    \/ Take(d) \/ Persist(d) \/ PurgeCopy(d) \/ PurgeWrite(d)
    \/ SetVerified(d) \/ AcceptNewKeys(d)

Spec == Init /\ [][Next]_vars

(***************************************************************************)
(* Type invariant.                                                         *)
(***************************************************************************)
Lists  == SUBSET Accounts
Record == [roster : Lists \cup {NoEvent}, rosterSeq : 0..world.last, synced : 0..world.last,
           members : Lists, removed : BOOLEAN]

\* Every variable has its type; a record never names a roster from beyond its
\* position.
TypeOK ==
    /\ members \in Lists /\ joined \in [Accounts -> 0..world.last]
    /\ Len(log) <= world.last
    /\ \A i \in DOMAIN log : log[i] \in [by : Devices, roster : Lists \cup {NoEvent},
                                         for : Lists, key : Keys \cup {0}]
    /\ conv \in [Devices -> Record]
    /\ \A d \in Devices : conv[d].rosterSeq <= conv[d].synced
    /\ contact \in [Devices -> [pin : Keys \cup {0}, pending : Keys \cup {0}, verified : BOOLEAN,
                                trusted : SUBSET Keys, compared : Keys \cup {0}]]
    /\ \A d \in Devices : gets[d] \subseteq Lists
    /\ told \in [Devices -> BOOLEAN]
    /\ job \in [Devices -> [seq : 0..world.last, copy : Record]]
    /\ op \in [Devices -> [k : {"none", "add", "announce", "remove", "purge"},
                           who : Accounts \cup {None}, list : Lists, copy : Record]]
    /\ orderly \in BOOLEAN /\ rewound \subseteq Devices

(***************************************************************************)
(* Safety.                                                                 *)
(***************************************************************************)
\* The roster a device seals to is that of the last membership event it could
\* open up to its position, whatever entries came twice and whatever answers,
\* events and texts were written in between; only a copy written back over a
\* newer record may break it (applyStored, advanceSilently, upsertFromServer).
RosterFollowsLog == \A d \in Devices \ rewound :
    LET events == {i \in (joined[Me(d)] + 1)..conv[d].synced :
                      log[i].roster # NoEvent /\ Opens(d, i)}
    IN  Me(d) \in members /\ events # {} =>
            conv[d].roster = log[CHOOSE i \in events : \A k \in events : k <= i].roster

\* Nothing is sealed to somebody no membership event had named, though the
\* server lists the new member before its event is sent (sealingMembers).
NobodyUnvouched == \A i \in 2..Len(log) : \A a \in log[i].for :
    Me(log[i].by) \in First => a = Me(log[i].by) \/ \E j \in 1..(i - 1) : a \in log[j].roster

\* The records are well typed, and every entry was sealed to somebody named.
Consistent == TypeOK /\ NobodyUnvouched

\* Operations that each begin on an up to date device, do not overlap and do not
\* fail leave the last event's roster equal to the server's list (addMember,
\* removeMember).
SignedRosterIsServers ==
    orderly /\ (\A d \in Devices : op[d].k \in {"none", "purge"}) =>
        log[LastEvent].roster = members

\* Nothing is sealed under keys the sending device's user had not met first or
\* accepted, whatever the server presents meanwhile (observeKeys, recipientsFor;
\* PROTOCOL.md 7).
SealedToTrusted == \A i \in DOMAIN log :
    log[i].key # 0 => log[i].key \in contact[log[i].by].trusted

\* A contact marked verified, with no new keys waiting, has the keys whose code
\* the user compared; while new keys wait the panel shows theirs (setVerified,
\* acceptNewKeys, MemberPanel.tsx:98).
VerifiedWereCompared == \A d \in Devices :
    contact[d].verified /\ contact[d].pending = 0 => contact[d].pin = contact[d].compared

\* The keys in use were trusted by the user, and the verified ones compared.
KeysWereChecked == SealedToTrusted /\ VerifiedWereCompared

(***************************************************************************)
(* What a document says and the code does not do.                          *)
(***************************************************************************)
\* PROTOCOL.md 6: a member.add event is sealed to the new member too, and so a
\* device that joins later reconstructs membership from the latest event.
RosterCanOpen == \A i \in DOMAIN log :
    log[i].roster # NoEvent => log[i].roster \subseteq log[i].for
=============================================================================
