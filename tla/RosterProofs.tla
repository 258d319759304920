---------------------------- MODULE RosterProofs ----------------------------
(***************************************************************************)
(* Theorems about Roster, for any accounts, devices and keys, any number   *)
(* of entries, whatever overlaps.                                          *)
(***************************************************************************)
EXTENDS Roster, TLAPS

(***************************************************************************)
(* The inductive invariant.                                                *)
(***************************************************************************)
Rosters  == Lists \cup {NoEvent}
KeyOrNot == Keys \cup {0}
Entries  == [by : Devices, roster : Rosters, for : Lists, key : KeyOrNot]
Records  == [roster : Rosters, rosterSeq : Nat, synced : Nat, members : Lists, removed : BOOLEAN]
Contacts == [pin : KeyOrNot, pending : KeyOrNot, verified : BOOLEAN, trusted : SUBSET Keys,
             compared : KeyOrNot]
Jobs     == [seq : Nat, copy : Records]
Ops      == [k : {"none", "add", "announce", "remove", "purge"}, who : Accounts \cup {None},
             list : Lists, copy : Records]

\* The types, apart from the bounds that the log sets.
ServerTyped  == /\ members \in Lists /\ joined \in [Accounts -> Nat]
                /\ log \in Seq(Entries) /\ Len(log) \in 1..world.last
ConvTyped    == conv \in [Devices -> Records]
ContactTyped == contact \in [Devices -> Contacts]
NetTyped     == gets \in [Devices -> SUBSET Lists] /\ told \in [Devices -> BOOLEAN]
JobTyped     == job \in [Devices -> Jobs]
OpTyped      == op \in [Devices -> Ops] /\ \A d \in Devices : op[d].k = "add" => op[d].who \in Accounts
HistoryTyped == orderly \in BOOLEAN /\ rewound \subseteq Devices /\ world \in Worlds

Typed == /\ ServerTyped /\ ConvTyped /\ ContactTyped /\ NetTyped /\ JobTyped /\ OpTyped
         /\ HistoryTyped

\* A record's roster is that of the event it names in log l, one that the device
\* could open and that is not beyond its position.
RecordTrue(l, d, r) ==
    /\ r.rosterSeq <= r.synced /\ r.synced <= Len(l)
    /\ r.rosterSeq = 0 => r.roster = NoEvent
    /\ r.rosterSeq # 0 => /\ Me(d) \in l[r.rosterSeq].for /\ l[r.rosterSeq].roster # NoEvent
                          /\ r.roster = l[r.rosterSeq].roster

\* Devices of those the group was created with have heard of its creation.
Heard(d, r) == Me(d) \in First => r.rosterSeq # 0

\* Of the events after number j, no one that the device could open, up to the
\* record's position, is later than the one the record names.
CaughtUp(l, j, d, r) == \A i \in (j + 1)..r.synced :
                            l[i].roster # NoEvent /\ Me(d) \in l[i].for => i <= r.rosterSeq

\* The record, and every copy of it that may be written back.
RecordsTrue == \A d \in Devices :
    /\ RecordTrue(log, d, conv[d]) /\ Heard(d, conv[d])
    /\ RecordTrue(log, d, job[d].copy) /\ (job[d].seq # 0 => Heard(d, job[d].copy))
    /\ RecordTrue(log, d, op[d].copy) /\ (op[d].k \in {"remove", "purge"} => Heard(d, op[d].copy))

\* The entry being applied is stored, and the next after the position at most.
JobsInOrder ==
    /\ \A a \in Accounts : joined[a] <= Len(log)
    /\ \A d \in Devices :
          /\ job[d].seq # 0 \/ job[d] = NoJob
          /\ job[d].seq <= Len(log)
          /\ job[d].seq <= 1 + job[d].copy.synced \/ job[d].seq <= 1 + joined[Me(d)]

\* Where nothing older was written back, the record and its copies have missed no event.
NothingMissed == \A d \in Devices \ rewound :
    /\ CaughtUp(log, joined[Me(d)], d, conv[d])
    /\ CaughtUp(log, joined[Me(d)], d, job[d].copy)
    /\ CaughtUp(log, joined[Me(d)], d, op[d].copy)
    /\ job[d].copy.synced <= conv[d].synced

\* Keys in use are trusted ones, and only keys in use have been verified.
PinsTrusted == \A d \in Devices :
    /\ IF contact[d].pin = 0 THEN contact[d].trusted = {} ELSE contact[d].pin \in contact[d].trusted
    /\ contact[d].verified => contact[d].pin # 0

IsLast(i) == /\ i \in DOMAIN log /\ log[i].roster # NoEvent
             /\ \A k \in DOMAIN log : k > i => log[k].roster = NoEvent

\* There is a last event.
LastExists == \E i \in DOMAIN log : IsLast(i)

Changing(d) == op[d].k \in {"add", "announce", "remove"}

\* What an operation has changed already: the server's list before the event is
\* sent, or the event before the server's list.
HalfDone(d) ==
    /\ op[d].k = "add" => /\ op[d].list = members /\ op[d].who \in members
                          /\ Me(d) \in members \ {op[d].who}
                          /\ log[LastEvent].roster = members \ {op[d].who}
                          /\ conv[d].rosterSeq = LastEvent
                          /\ (job[d].seq # 0 => job[d].copy.rosterSeq = LastEvent)
    /\ op[d].k = "announce" => op[d].list = members
    /\ op[d].k = "remove" => log[LastEvent].roster = members \ {op[d].who}

\* In order, one operation runs at a time, and between them roster and list agree.
InOrder == orderly =>
    /\ \A d, e \in Devices : Changing(d) /\ Changing(e) => d = e
    /\ (\A d \in Devices : ~Changing(d)) => log[LastEvent].roster = members
    /\ \A d \in Devices : HalfDone(d)

IInv ==
    /\ Typed /\ RecordsTrue /\ JobsInOrder /\ NothingMissed
    /\ NobodyUnvouched /\ SealedToTrusted /\ VerifiedWereCompared /\ PinsTrusted
    /\ LastExists /\ InOrder
(***************************************************************************)
(* What the operators return.                                              *)
(***************************************************************************)
\* What is sealed to is a list of accounts.
LEMMA SealedToAccounts ==
  ASSUME Typed, NEW d \in Devices
  PROVE  Me(d) \in Accounts /\ SealingMembers(d) \in Lists
<1>1. conv[d] \in Records /\ Me(d) \in Accounts
  BY RosterAssumption DEF Typed, ConvTyped, Me
<1>2. conv[d].members \in Lists /\ conv[d].roster \in Rosters
  BY <1>1 DEF Records
<1> QED BY <1>1, <1>2 DEF SealingMembers, Rosters, Lists

\* An observed key leaves a contact record, and nothing that was trusted is forgotten.
LEMMA ObserveKeysKeeps ==
  ASSUME NEW c \in Contacts, NEW key \in KeyOrNot
  PROVE  /\ ObserveKeys(c, key) \in Contacts
         /\ ObserveKeys(c, key).verified = c.verified
         /\ ObserveKeys(c, key).compared = c.compared
         /\ c.pin # 0 => ObserveKeys(c, key).pin = c.pin
         /\ ObserveKeys(c, key).pending = 0 => c.pending = 0
         /\ c.pin = 0 => IF ObserveKeys(c, key).pin = 0 THEN ObserveKeys(c, key).trusted = c.trusted
                         ELSE ObserveKeys(c, key).pin \in ObserveKeys(c, key).trusted
         /\ c.pin # 0 => ObserveKeys(c, key).trusted = c.trusted
BY RosterAssumption DEF ObserveKeys, Contacts, KeyOrNot

\* Keys that come with a list, and those that the server presents, are keys.
LEMMA KeysAreKeys ==
  ASSUME NEW d \in Devices, NEW list, NEW key \in KeyOrNot
  PROVE  KeysWith(list, key) \in KeyOrNot /\ Presented(d) \subseteq Keys
BY RosterAssumption DEF KeysWith, Presented, KeyOrNot

\* Applying an entry moves a record forward.
LEMMA AppliedMovesOn ==
  ASSUME NEW r \in Records, NEW i \in Nat, NEW e \in Rosters
  PROVE  /\ Applied(r, i, e) \in Records
         /\ Applied(r, i, e).synced = Later(r.synced, i)
         /\ e # NoEvent /\ i > r.rosterSeq =>
               Applied(r, i, e).roster = e /\ Applied(r, i, e).rosterSeq = i
         /\ ~(e # NoEvent /\ i > r.rosterSeq) =>
               Applied(r, i, e).roster = r.roster /\ Applied(r, i, e).rosterSeq = r.rosterSeq
BY DEF Applied, Records, Later

\* What is sent is an entry.
LEMMA SendAppends ==
  ASSUME Typed, NEW d \in Devices, NEW r \in Rosters, Send(d, r)
  PROVE  LET e == [by |-> d, roster |-> r, for |-> SealingMembers(d),
                   key |-> KeysWith(SealingMembers(d) \ {Me(d)}, contact[d].pin)]
         IN  e \in Entries /\ log' = Append(log, e)
<1>1. contact[d].pin \in KeyOrNot
  BY DEF Typed, ContactTyped, Contacts
<1>2. KeysWith(SealingMembers(d) \ {Me(d)}, contact[d].pin) \in KeyOrNot
  BY <1>1, KeysAreKeys
<1> QED BY <1>2, SealedToAccounts DEF Send, Entries

\* An appended entry comes last and changes nothing before it.
LEMMA AppendKeeps ==
  ASSUME NEW s \in Seq(Entries), NEW e \in Entries
  PROVE  /\ Append(s, e) \in Seq(Entries)
         /\ Len(Append(s, e)) = Len(s) + 1
         /\ \A i \in 1..Len(s) : Append(s, e)[i] = s[i]
         /\ Append(s, e)[Len(s) + 1] = e
OBVIOUS

(***************************************************************************)
(* Types.                                                                  *)
(***************************************************************************)
\* The initial state is well typed.
LEMMA InitTyped ==
  ASSUME Init
  PROVE  Typed /\ log[1].roster = First /\ First \in Lists /\ Len(log) = 1 /\ log[1].key = 0
<1>1. PICK w \in Worlds : world = w
  BY DEF Init
<1>2. world.last \in Nat \ {0}
  BY <1>1, RosterAssumption
<1>3. First \in Lists /\ {} \in Lists
  BY RosterAssumption DEF Lists
<1> DEFINE s == CHOOSE d \in Devices : AccountOf[d] = Creator
<1>4. s \in Devices
  BY RosterAssumption
<1> HIDE DEF s
<1> DEFINE e == [by |-> s, roster |-> First, for |-> First, key |-> 0]
<1>5. e \in Entries
  BY <1>3, <1>4 DEF Entries, Rosters, KeyOrNot
<1> HIDE DEF e
<1>6. log = <<e>> /\ e.roster = First /\ e.key = 0
  BY DEF Init, e, s
<1>7. log \in Seq(Entries) /\ Len(log) = 1 /\ log[1] = e
  BY <1>5, <1>6
<1>8. ServerTyped
  BY <1>2, <1>3, <1>7 DEF Init, ServerTyped
<1>9. Known \in Records /\ Unknown \in Records
  BY <1>3 DEF Known, Unknown, Records, Rosters
<1>10. ConvTyped /\ JobTyped /\ OpTyped
  BY <1>3, <1>9 DEF Init, ConvTyped, JobTyped, OpTyped, Jobs, Ops, NoJob, Idle
<1>11. NewContact \in Contacts /\ [NewContact EXCEPT !.pin = 1, !.trusted = {1}] \in Contacts
  BY RosterAssumption DEF NewContact, Contacts, KeyOrNot
<1>12. ContactTyped /\ NetTyped /\ HistoryTyped
  BY <1>11 DEF Init, ContactTyped, NetTyped, HistoryTyped
<1> QED BY <1>3, <1>6, <1>7, <1>8, <1>10, <1>12 DEF Typed
\* Whatever is sent while there is room leaves the server's variables well typed.
LEMMA SendTyped ==
  ASSUME Typed, NEW d \in Devices, NEW r \in Rosters, MaySend(d), Send(d, r),
         UNCHANGED <<members, joined, world>>
  PROVE  ServerTyped'
<1> DEFINE e == [by |-> d, roster |-> r, for |-> SealingMembers(d),
                 key |-> KeysWith(SealingMembers(d) \ {Me(d)}, contact[d].pin)]
<1>1. e \in Entries /\ log' = Append(log, e)
  BY SendAppends
<1> HIDE DEF e
<1>2. log \in Seq(Entries) /\ Len(log) \in Nat /\ 1 <= Len(log) /\ Len(log) < world.last /\ world.last \in Nat
  BY RosterAssumption DEF Typed, ServerTyped, HistoryTyped, MaySend
<1>3. log' \in Seq(Entries) /\ Len(log') = Len(log) + 1
  BY <1>1, <1>2, AppendKeeps
<1> QED BY <1>2, <1>3 DEF Typed, ServerTyped

\* Every step keeps the types.
LEMMA StepTyped ==
  ASSUME Typed, JobsInOrder, [Next]_vars
  PROVE  Typed'
<1> SUFFICES ASSUME Next PROVE Typed'
  BY DEF vars, serverVars, panelVars, Typed, ServerTyped, ConvTyped, ContactTyped, NetTyped, JobTyped, OpTyped,
         HistoryTyped
<1> PICK d \in Devices :
       \/ Get(d) \/ Upsert(d) \/ Removed(d) \/ SendText(d)
       \/ AddOnServer(d) \/ AddUpsert(d) \/ AddAnnounce(d)
       \/ RemoveAnnounce(d) \/ RemoveOnServer(d)
       \/ Take(d) \/ Persist(d) \/ PurgeCopy(d) \/ PurgeWrite(d)
       \/ SetVerified(d) \/ AcceptNewKeys(d)
  BY DEF Next
<1>a. members \in Lists /\ joined \in [Accounts -> Nat] /\ log \in Seq(Entries)
  BY DEF Typed, ServerTyped
<1>b. conv[d] \in Records /\ contact[d] \in Contacts /\ gets[d] \subseteq Lists /\ job[d] \in Jobs /\ op[d] \in Ops
  BY DEF Typed, ConvTyped, ContactTyped, NetTyped, JobTyped, OpTyped
<1>c. Me(d) \in Accounts /\ SealingMembers(d) \in Lists
  BY SealedToAccounts
<1>d. NoEvent \in Rosters /\ Unknown \in Records /\ Idle \in Ops /\ NoJob \in Jobs
  BY DEF Rosters, Unknown, Records, Idle, Ops, NoJob, Jobs, Lists
<1>e. job[d].copy \in Records /\ op[d].copy \in Records /\ job[d].seq \in Nat
  BY <1>b DEF Jobs, Ops
<1>1. CASE Get(d)
  BY <1>1, <1>a, <1>b DEF Get, Set, serverVars, panelVars, Typed, ServerTyped, ConvTyped, ContactTyped, NetTyped,
     JobTyped, OpTyped, HistoryTyped
<1>2. CASE Upsert(d)
  <2> PICK view \in gets[d], key \in Presented(d) :
         /\ Set(gets, d, gets[d] \ {view})
         /\ Set(conv, d, Upserted(d, view))
         /\ Set(contact, d, ObserveKeys(contact[d], KeysWith(view, key)))
         /\ UNCHANGED <<serverVars, told, job, panelVars>>
    BY <1>2 DEF Upsert
  <2>1. Upserted(d, view) \in Records
    BY <1>b DEF Upserted, Records
  <2>2. key \in KeyOrNot
    BY KeysAreKeys DEF KeyOrNot, Presented
  <2>3. KeysWith(view, key) \in KeyOrNot
    BY <2>2, KeysAreKeys
  <2>4. ObserveKeys(contact[d], KeysWith(view, key)) \in Contacts
    BY <1>b, <2>3, ObserveKeysKeeps
  <2> QED BY <1>b, <2>1, <2>4 DEF Set, serverVars, panelVars, Typed, ServerTyped, ConvTyped, ContactTyped,
          NetTyped, JobTyped, OpTyped, HistoryTyped
<1>3. CASE Removed(d)
  <2>1. [conv[d] EXCEPT !.removed = TRUE] \in Records
    BY <1>b DEF Records
  <2> QED BY <1>3, <2>1 DEF Removed, Set, serverVars, panelVars, Typed, ServerTyped, ConvTyped, ContactTyped,
          NetTyped, JobTyped, OpTyped, HistoryTyped
<1>4. CASE SendText(d)
  <2>1. ServerTyped'
    BY <1>4, <1>d, SendTyped DEF SendText, panelVars
  <2> QED BY <1>4, <2>1 DEF SendText, panelVars, Typed, ConvTyped, ContactTyped, NetTyped, JobTyped, OpTyped,
          HistoryTyped
<1>5. CASE AddOnServer(d)
  <2> PICK a \in Accounts \ members, key \in Presented(d) :
         /\ members' = members \cup {a}
         /\ joined' = [joined EXCEPT ![a] = Len(log)]
         /\ Set(op, d, [Idle EXCEPT !.k = "add", !.who = a, !.list = members'])
         /\ Set(contact, d, ObserveKeys(contact[d], KeysWith({a}, key)))
         /\ orderly' = (orderly /\ ~Disorder(d))
         /\ UNCHANGED <<log, conv, gets, told, job, rewound, world>>
    BY <1>5 DEF AddOnServer
  <2>1. members' \in Lists /\ joined' \in [Accounts -> Nat]
    BY <1>a DEF Lists
  <2>2. key \in KeyOrNot
    BY KeysAreKeys DEF KeyOrNot, Presented
  <2>3. KeysWith({a}, key) \in KeyOrNot
    BY <2>2, KeysAreKeys
  <2>4. ObserveKeys(contact[d], KeysWith({a}, key)) \in Contacts
    BY <1>b, <2>3, ObserveKeysKeeps
  <2> DEFINE x == [Idle EXCEPT !.k = "add", !.who = a, !.list = members']
  <2>5. x \in Ops /\ x.who \in Accounts
    BY <1>d, <2>1 DEF Ops, Idle
  <2>7. op' = [op EXCEPT ![d] = x]
    BY DEF Set
  <2> HIDE DEF x
  <2>6. orderly' \in BOOLEAN
    OBVIOUS
  <2> QED BY <2>1, <2>4, <2>5, <2>6, <2>7 DEF Set, Typed, ServerTyped, ConvTyped, ContactTyped, NetTyped, JobTyped, OpTyped,
          HistoryTyped
<1>6. CASE AddUpsert(d)
  <2> DEFINE before == IF conv[d].roster = NoEvent THEN op[d].list \ {op[d].who} ELSE conv[d].roster
  <2>1. PICK key \in Presented(d) :
         /\ Set(conv, d, Upserted(d, op[d].list))
         /\ Set(contact, d, ObserveKeys(contact[d], KeysWith(op[d].list, key)))
         /\ op[d].k = "add"
         /\ Set(op, d, [op[d] EXCEPT !.k = "announce", !.list = before \cup {Me(d), op[d].who}])
         /\ UNCHANGED <<serverVars, gets, told, job, orderly, rewound, world>>
    BY <1>6 DEF AddUpsert
  <2>2. op[d].list \in Lists /\ op[d].who \in Accounts /\ conv[d].roster \in Rosters
    BY <1>b, <2>1 DEF Ops, Records, Typed, OpTyped
  <2>3. Upserted(d, op[d].list) \in Records
    BY <1>b, <2>2 DEF Upserted, Records
  <2>4. key \in KeyOrNot
    BY KeysAreKeys DEF KeyOrNot, Presented
  <2>5. KeysWith(op[d].list, key) \in KeyOrNot
    BY <2>4, KeysAreKeys
  <2>6. ObserveKeys(contact[d], KeysWith(op[d].list, key)) \in Contacts
    BY <1>b, <2>5, ObserveKeysKeeps
  <2>7. before \cup {Me(d), op[d].who} \in Lists
    BY <1>c, <2>2 DEF Lists, Rosters
  <2> DEFINE x == [op[d] EXCEPT !.k = "announce", !.list = before \cup {Me(d), op[d].who}]
  <2>8. x \in Ops /\ x.k = "announce" /\ op' = [op EXCEPT ![d] = x]
    BY <1>b, <2>1, <2>7 DEF Ops, Set
  <2> HIDE DEF before, x
  <2> QED BY <2>1, <2>3, <2>6, <2>8 DEF Set, serverVars, Typed, ServerTyped, ConvTyped, ContactTyped, NetTyped,
          JobTyped, OpTyped, HistoryTyped
<1>7. CASE AddAnnounce(d)
  <2>1. op' = [op EXCEPT ![d] = Idle] /\ Idle.k = "none" /\ orderly' \in BOOLEAN
    BY <1>7 DEF AddAnnounce, Set, Idle, Typed, HistoryTyped
  <2>2. op[d].list \in Rosters
    BY <1>b DEF Ops, Rosters
  <2>3. ServerTyped'
    <3>1. CASE MaySend(d) /\ Send(d, op[d].list)
      BY <1>7, <2>2, <3>1, SendTyped DEF AddAnnounce
    <3>2. CASE UNCHANGED log
      BY <1>7, <3>2 DEF AddAnnounce, Typed, ServerTyped
    <3> QED BY <1>7, <3>1, <3>2 DEF AddAnnounce
  <2> QED BY <1>7, <1>d, <2>1, <2>3 DEF AddAnnounce, Typed, ConvTyped, ContactTyped, NetTyped, JobTyped, OpTyped,
          HistoryTyped
<1>8. CASE RemoveAnnounce(d)
  <2> PICK a \in Removable(d) :
        /\ \/ MaySend(d) /\ CanSeal(d) /\ Send(d, SealingMembers(d) \ {a})
              /\ orderly' = (orderly /\ ~Disorder(d))
           \/ orderly' = FALSE /\ UNCHANGED log
        /\ Set(op, d, [Idle EXCEPT !.k = "remove", !.who = a, !.copy = conv[d]])
        /\ UNCHANGED <<members, joined, conv, contact, gets, told, job, rewound, world>>
    BY <1>8 DEF RemoveAnnounce
  <2> DEFINE x == [Idle EXCEPT !.k = "remove", !.who = a, !.copy = conv[d]]
  <2>1. a \in Accounts
    BY <1>b, <1>c DEF Removable, Records, Lists
  <2>2. x \in Ops /\ x.k = "remove" /\ op' = [op EXCEPT ![d] = x]
    BY <1>b, <1>d, <2>1 DEF Ops, Idle, Set
  <2>3. SealingMembers(d) \ {a} \in Rosters
    BY <1>c DEF Rosters, Lists
  <2>4. ServerTyped'
    <3>1. CASE MaySend(d) /\ Send(d, SealingMembers(d) \ {a})
      BY <2>3, <3>1, SendTyped
    <3>2. CASE UNCHANGED log
      BY <3>2 DEF Typed, ServerTyped
    <3> QED BY <3>1, <3>2
  <2>5. orderly' \in BOOLEAN
    OBVIOUS
  <2> HIDE DEF x
  <2> QED BY <2>2, <2>4, <2>5 DEF Typed, ConvTyped, ContactTyped, NetTyped, JobTyped, OpTyped, HistoryTyped
<1>9. CASE RemoveOnServer(d)
  <2>1. op' = [op EXCEPT ![d] = Idle] /\ Idle.k = "none"
        /\ UNCHANGED <<log, joined, contact, gets, job, world>>
    BY <1>9 DEF RemoveOnServer, Set, Idle
  <2>2. [op[d].copy EXCEPT !.removed = TRUE] \in Records
    BY <1>e DEF Records
  <2>3. ConvTyped' /\ rewound' \subseteq Devices
    BY <1>9, <2>2 DEF RemoveOnServer, WriteBack, Set, Typed, ConvTyped, HistoryTyped
  <2>4. members' \in Lists /\ told' \in [Devices -> BOOLEAN] /\ orderly' \in BOOLEAN
    BY <1>9 DEF RemoveOnServer, Typed, ServerTyped, NetTyped, HistoryTyped, Lists
  <2> QED BY <1>d, <2>1, <2>3, <2>4 DEF Typed, ServerTyped, ContactTyped, NetTyped, JobTyped, OpTyped, HistoryTyped
<1>10. CASE Take(d)
  <2> PICK i \in 1..Len(log) : Set(job, d, [seq |-> i, copy |-> conv[d]])
    BY <1>10 DEF Take
  <2>1. [seq |-> i, copy |-> conv[d]] \in Jobs
    BY <1>a, <1>b DEF Jobs
  <2> QED BY <1>10, <2>1 DEF Take, Set, serverVars, panelVars, Typed, ServerTyped, ConvTyped, ContactTyped, NetTyped,
          JobTyped, OpTyped, HistoryTyped
<1>11. CASE Persist(d)
  <2> DEFINE i == job[d].seq
             e == IF Opens(d, i) THEN log[i].roster ELSE NoEvent
  <2>1. /\ \/ Set(conv, d, Applied(job[d].copy, i, e))
           \/ Set(conv, d, Applied(conv[d], i, NoEvent))
        /\ Set(contact, d, ObserveKeys(contact[d], KeysWith(e, log[i].key)))
        /\ Set(job, d, NoJob)
        /\ UNCHANGED <<serverVars, gets, told, panelVars>>
    BY <1>11 DEF Persist
  <2>2. log[i] \in Entries
    <3>1. i \in 1..Len(log)
      BY <1>11, <1>e DEF Persist, JobsInOrder
    <3> QED BY <1>a, <3>1
  <2>3. e \in Rosters /\ log[i].key \in KeyOrNot
    BY <1>d, <2>2 DEF Entries
  <2>4. KeysWith(e, log[i].key) \in KeyOrNot
    BY <2>3, KeysAreKeys
  <2>5. ObserveKeys(contact[d], KeysWith(e, log[i].key)) \in Contacts
    BY <1>b, <2>4, ObserveKeysKeeps
  <2>6. Applied(job[d].copy, i, e) \in Records /\ Applied(conv[d], i, NoEvent) \in Records
    BY <1>b, <1>d, <1>e, <2>3, AppliedMovesOn
  <2> HIDE DEF e, i
  <2> QED BY <1>d, <2>1, <2>5, <2>6 DEF Set, serverVars, panelVars, Typed, ServerTyped, ConvTyped, ContactTyped,
          NetTyped, JobTyped, OpTyped, HistoryTyped
<1>12. CASE PurgeCopy(d)
  <2> DEFINE x == [Idle EXCEPT !.k = "purge", !.copy = conv[d]]
  <2>1. x \in Ops /\ x.k = "purge" /\ op' = [op EXCEPT ![d] = x]
    BY <1>12, <1>b, <1>d DEF PurgeCopy, Ops, Idle, Set
  <2> HIDE DEF x
  <2> QED BY <1>12, <2>1 DEF PurgeCopy, serverVars, Typed, ServerTyped, ConvTyped, ContactTyped, NetTyped, JobTyped,
          OpTyped, HistoryTyped
<1>13. CASE PurgeWrite(d)
  <2>1. op' = [op EXCEPT ![d] = Idle] /\ Idle.k = "none"
    BY <1>13 DEF PurgeWrite, Set, Idle
  <2>2. ConvTyped' /\ rewound' \subseteq Devices
    BY <1>13, <1>e DEF PurgeWrite, WriteBack, Set, Typed, ConvTyped, HistoryTyped
  <2> QED BY <1>13, <1>d, <2>1, <2>2 DEF PurgeWrite, serverVars, Typed, ServerTyped, ContactTyped, NetTyped, JobTyped,
          OpTyped, HistoryTyped
<1>14. CASE SetVerified(d)
  <2>1. CodeShown(d) \in KeyOrNot
    BY <1>b DEF CodeShown, Contacts
  <2>2. [contact[d] EXCEPT !.verified = TRUE, !.compared = CodeShown(d)] \in Contacts
    BY <1>b, <2>1 DEF Contacts
  <2> QED BY <1>14, <2>2 DEF SetVerified, Set, serverVars, panelVars, Typed, ServerTyped, ConvTyped, ContactTyped,
          NetTyped, JobTyped, OpTyped, HistoryTyped
<1>15. CASE AcceptNewKeys(d)
  <2> DEFINE c == contact[d]
             x == [c EXCEPT !.pin = c.pending, !.pending = 0, !.verified = FALSE, !.trusted = @ \cup {c.pending}]
  <2>1. x \in Contacts
    BY <1>15, <1>b, RosterAssumption DEF AcceptNewKeys, Contacts, KeyOrNot
  <2>2. contact' = [contact EXCEPT ![d] = x] /\ UNCHANGED <<serverVars, conv, gets, told, job, panelVars>>
    BY <1>15 DEF AcceptNewKeys, Set
  <2> HIDE DEF x
  <2> QED BY <2>1, <2>2 DEF serverVars, panelVars, Typed, ServerTyped, ConvTyped, ContactTyped, NetTyped, JobTyped,
          OpTyped, HistoryTyped
<1> QED BY <1>1, <1>2, <1>3, <1>4, <1>5, <1>6, <1>7, <1>8, <1>9, <1>10, <1>11, <1>12, <1>13, <1>14, <1>15
(***************************************************************************)
(* What a step can do to the log, to the records and to their copies.      *)
(***************************************************************************)
\* A device sends an entry; nothing that it was made from changes.
Sent(d, r) == /\ MaySend(d) /\ CanSeal(d) /\ Send(d, r)
              /\ UNCHANGED <<members, joined, conv, contact, job, rewound, world>>

\* The log stays or an entry is sent.
LEMMA LogEffect ==
  ASSUME Typed, Next
  PROVE  \/ UNCHANGED log
         \/ \E d \in Devices, r \in Rosters : Sent(d, r)
<1> PICK d \in Devices :
       \/ Get(d) \/ Upsert(d) \/ Removed(d) \/ SendText(d)
       \/ AddOnServer(d) \/ AddUpsert(d) \/ AddAnnounce(d)
       \/ RemoveAnnounce(d) \/ RemoveOnServer(d)
       \/ Take(d) \/ Persist(d) \/ PurgeCopy(d) \/ PurgeWrite(d)
       \/ SetVerified(d) \/ AcceptNewKeys(d)
  BY DEF Next
<1>1. CASE SendText(d)
  BY <1>1 DEF SendText, Sent, panelVars, Rosters
<1>2. CASE AddAnnounce(d)
  <2>1. op[d].list \in Rosters
    BY DEF Typed, OpTyped, Ops, Rosters
  <2> QED BY <1>2, <2>1 DEF AddAnnounce, Sent
<1>3. CASE RemoveAnnounce(d)
  <2>1. \A a : SealingMembers(d) \ {a} \in Rosters
    BY SealedToAccounts DEF Rosters, Lists
  <2> QED BY <1>3, <2>1 DEF RemoveAnnounce, Sent
<1>4. CASE \/ Get(d) \/ Upsert(d) \/ Removed(d) \/ AddOnServer(d) \/ AddUpsert(d) \/ RemoveOnServer(d)
           \/ Take(d) \/ Persist(d) \/ PurgeCopy(d) \/ PurgeWrite(d) \/ SetVerified(d) \/ AcceptNewKeys(d)
  BY <1>4 DEF Get, Upsert, Removed, AddOnServer, AddUpsert, RemoveOnServer, Take, Persist, PurgeCopy, PurgeWrite,
     SetVerified, AcceptNewKeys, serverVars
<1> QED BY <1>1, <1>2, <1>3, <1>4

\* What is in the log stays as it is.
LEMMA LogGrows ==
  ASSUME Typed, Next
  PROVE  /\ log \in Seq(Entries) /\ log' \in Seq(Entries) /\ Len(log) <= Len(log')
         /\ \A i \in 1..Len(log) : log'[i] = log[i]
<1>1. log \in Seq(Entries)
  BY DEF Typed, ServerTyped
<1>2. CASE UNCHANGED log
  BY <1>1, <1>2
<1>3. CASE \E d \in Devices, r \in Rosters : Sent(d, r)
  <2> PICK d \in Devices, r \in Rosters : Sent(d, r)
    BY <1>3
  <2>1. PICK e \in Entries : log' = Append(log, e)
    BY SendAppends DEF Sent
  <2> QED BY <1>1, <2>1, AppendKeeps
<1> QED BY <1>2, <1>3, LogEffect

\* A member's joined_seq stays, or he joins after everything that is stored.
LEMMA JoinedEffect ==
  ASSUME Typed, Next, NEW a \in Accounts
  PROVE  \/ joined'[a] = joined[a]
         \/ joined'[a] = Len(log) /\ UNCHANGED <<log, conv, job, rewound>>
<1> PICK d \in Devices :
       \/ Get(d) \/ Upsert(d) \/ Removed(d) \/ SendText(d)
       \/ AddOnServer(d) \/ AddUpsert(d) \/ AddAnnounce(d)
       \/ RemoveAnnounce(d) \/ RemoveOnServer(d)
       \/ Take(d) \/ Persist(d) \/ PurgeCopy(d) \/ PurgeWrite(d)
       \/ SetVerified(d) \/ AcceptNewKeys(d)
  BY DEF Next
<1>1. CASE AddOnServer(d)
  BY <1>1 DEF AddOnServer, Typed, ServerTyped
<1>2. CASE \/ Get(d) \/ Upsert(d) \/ Removed(d) \/ SendText(d) \/ AddUpsert(d) \/ AddAnnounce(d)
           \/ RemoveAnnounce(d) \/ RemoveOnServer(d) \/ Take(d) \/ Persist(d) \/ PurgeCopy(d) \/ PurgeWrite(d)
           \/ SetVerified(d) \/ AcceptNewKeys(d)
  BY <1>2 DEF Get, Upsert, Removed, SendText, AddUpsert, AddAnnounce, RemoveAnnounce, RemoveOnServer, Take, Persist,
     PurgeCopy, PurgeWrite, SetVerified, AcceptNewKeys, serverVars
<1> QED BY <1>1, <1>2

\* Records that differ in the server's part only.
SameEvents(r, s) == r.roster = s.roster /\ r.rosterSeq = s.rosterSeq /\ r.synced = s.synced

\* What is known of events stays, is written back or moves on.
ConvEffect(e) ==
    \/ SameEvents(conv'[e], conv[e])
    \/ /\ op[e].k \in {"remove", "purge"} /\ SameEvents(conv'[e], op[e].copy) /\ job' = job
       /\ op[e].copy.synced < conv[e].synced => e \in rewound'
    \/ Persist(e)

\* A job stays, ends or takes a copy.
JobEffect(e) ==
    \/ job'[e] = job[e]
    \/ job'[e] = NoJob
    \/ \E i \in 1..Len(log) : /\ job'[e] = [seq |-> i, copy |-> conv[e]]
                              /\ i <= 1 + conv[e].synced \/ i <= 1 + joined[Me(e)]
                              /\ UNCHANGED <<log, conv, joined>>

\* An operation's copy stays, is dropped or is taken.
OpEffect(e) ==
    \/ op'[e].copy = op[e].copy /\ (op'[e].k \in {"remove", "purge"} => op[e].k \in {"remove", "purge"})
    \/ op'[e].copy = Unknown /\ op'[e].k \notin {"remove", "purge"}
    \/ op'[e].copy = conv[e] /\ UNCHANGED conv

\* These are all the effects.
LEMMA RecordEffect ==
  ASSUME Typed, Next, NEW e \in Devices
  PROVE  ConvEffect(e) /\ JobEffect(e) /\ OpEffect(e) /\ rewound \subseteq rewound'
<1> PICK d \in Devices :
       \/ Get(d) \/ Upsert(d) \/ Removed(d) \/ SendText(d)
       \/ AddOnServer(d) \/ AddUpsert(d) \/ AddAnnounce(d)
       \/ RemoveAnnounce(d) \/ RemoveOnServer(d)
       \/ Take(d) \/ Persist(d) \/ PurgeCopy(d) \/ PurgeWrite(d)
       \/ SetVerified(d) \/ AcceptNewKeys(d)
  BY DEF Next
<1>a. conv \in [Devices -> Records] /\ job \in [Devices -> Jobs] /\ op \in [Devices -> Ops]
  BY DEF Typed, ConvTyped, JobTyped, OpTyped
<1>b. conv[d] \in Records /\ op[d] \in Ops /\ op[d].copy \in Records
  BY <1>a DEF Ops
<1>c. /\ conv'[e] = conv[e] => ConvEffect(e)
      /\ UNCHANGED job => JobEffect(e)
      /\ op'[e] = op[e] => OpEffect(e)
  BY DEF SameEvents, ConvEffect, JobEffect, OpEffect
<1>1. CASE Get(d) \/ SendText(d) \/ SetVerified(d) \/ AcceptNewKeys(d)
  BY <1>1, <1>a, <1>c DEF Get, SendText, SetVerified, AcceptNewKeys, serverVars, panelVars
<1>2. CASE Upsert(d) \/ Removed(d)
  <2>1. SameEvents(conv'[e], conv[e])
    <3>1. CASE Upsert(d)
      <4>1. PICK view : conv' = [conv EXCEPT ![d] = Upserted(d, view)]
        BY <3>1 DEF Upsert, Set
      <4> QED BY <1>a, <1>b, <4>1 DEF Upserted, SameEvents, Records
    <3>2. CASE Removed(d)
      BY <3>2, <1>a, <1>b DEF Removed, Set, SameEvents, Records
    <3> QED BY <1>2, <3>1, <3>2
  <2> QED BY <1>2, <1>c, <2>1 DEF Upsert, Removed, panelVars, ConvEffect
<1>3. CASE AddOnServer(d)
  <2>1. op'[e] = op[e] \/ (op'[e].copy = Unknown /\ op'[e].k = "add")
    BY <1>3, <1>a DEF AddOnServer, Set, Idle
  <2> QED BY <1>3, <1>c, <2>1 DEF AddOnServer, OpEffect
<1>4. CASE AddUpsert(d)
  <2>1. SameEvents(conv'[e], conv[e])
    BY <1>4, <1>a, <1>b DEF AddUpsert, Set, Upserted, SameEvents, Records
  <2>2. op'[e].copy = op[e].copy /\ (op'[e].k = op[e].k \/ op'[e].k = "announce")
    BY <1>4, <1>a, <1>b DEF AddUpsert, Set, Ops
  <2> QED BY <1>4, <1>c, <2>1, <2>2 DEF AddUpsert, ConvEffect, OpEffect
<1>5. CASE AddAnnounce(d)
  <2>1. op'[e] = op[e] \/ (op'[e].copy = Unknown /\ op'[e].k = "none")
    BY <1>5, <1>a DEF AddAnnounce, Set, Idle
  <2> QED BY <1>5, <1>c, <2>1 DEF AddAnnounce, OpEffect
<1>6. CASE RemoveAnnounce(d) \/ PurgeCopy(d)
  <2>1. op'[e] = op[e] \/ op'[e].copy = conv[e]
    <3>1. CASE RemoveAnnounce(d)
      <4>1. PICK a : op' = [op EXCEPT ![d] = [Idle EXCEPT !.k = "remove", !.who = a, !.copy = conv[d]]]
        BY <3>1 DEF RemoveAnnounce, Set
      <4> QED BY <1>a, <4>1 DEF Idle
    <3>2. CASE PurgeCopy(d)
      BY <3>2, <1>a DEF PurgeCopy, Set, Idle
    <3> QED BY <1>6, <3>1, <3>2
  <2> QED BY <1>6, <1>a, <1>c, <2>1 DEF RemoveAnnounce, PurgeCopy, serverVars, OpEffect
<1>7. CASE RemoveOnServer(d)
  <2>1. op'[e] = op[e] \/ (op'[e].copy = Unknown /\ op'[e].k = "none")
    BY <1>7, <1>a DEF RemoveOnServer, Set, Idle
  <2>2. UNCHANGED job /\ op[d].k = "remove"
    BY <1>7 DEF RemoveOnServer
  <2>3. CASE UNCHANGED <<conv, rewound>>
    BY <1>c, <2>1, <2>2, <2>3 DEF OpEffect
  <2>4. CASE WriteBack(d, [op[d].copy EXCEPT !.removed = TRUE])
    <3> DEFINE r == [op[d].copy EXCEPT !.removed = TRUE]
    <3>1. r.synced = op[d].copy.synced /\ SameEvents(r, op[d].copy)
      BY <1>b DEF Records, SameEvents
    <3>2. WriteBack(d, r)
      BY <2>4
    <3> HIDE DEF r
    <3>3. rewound \subseteq rewound' /\ conv' = [conv EXCEPT ![d] = r]
          /\ (op[d].copy.synced < conv[d].synced => d \in rewound')
      BY <3>1, <3>2 DEF WriteBack, Set
    <3>4. CASE e = d
      <4>1. conv'[e] = r
        BY <1>a, <3>3, <3>4
      <4> QED BY <1>c, <2>1, <2>2, <3>1, <3>3, <3>4, <4>1 DEF ConvEffect, OpEffect
    <3>5. CASE e # d
      <4>1. conv'[e] = conv[e]
        BY <1>a, <3>3, <3>5
      <4> QED BY <1>c, <2>1, <2>2, <3>3, <4>1 DEF OpEffect
    <3> QED BY <3>4, <3>5
  <2> QED BY <1>7, <2>3, <2>4 DEF RemoveOnServer
<1>8. CASE Take(d)
  <2>1. op' = op /\ conv' = conv /\ rewound' = rewound /\ log' = log /\ joined' = joined
    BY <1>8 DEF Take, serverVars, panelVars
  <2>2. JobEffect(e)
    <3>1. CASE e = d
      BY <1>8, <1>a, <2>1, <3>1 DEF Take, Set, JobEffect
    <3>2. CASE e # d
      BY <1>8, <1>a, <3>2 DEF Take, Set, JobEffect
    <3> QED BY <3>1, <3>2
  <2> QED BY <1>c, <2>1, <2>2
<1>9. CASE Persist(d)
  <2>1. op' = op /\ rewound' = rewound
    BY <1>9 DEF Persist, panelVars
  <2>2. JobEffect(e)
    BY <1>9, <1>a DEF Persist, Set, JobEffect
  <2>3. e # d => conv'[e] = conv[e]
    BY <1>9, <1>a DEF Persist, Set
  <2> QED BY <1>9, <1>c, <2>1, <2>2, <2>3 DEF ConvEffect
<1>10. CASE PurgeWrite(d)
  <2>1. op'[e] = op[e] \/ (op'[e].copy = Unknown /\ op'[e].k = "none")
    BY <1>10, <1>a DEF PurgeWrite, Set, Idle
  <2>2. UNCHANGED job /\ op[d].k = "purge" /\ rewound \subseteq rewound' /\ conv' = [conv EXCEPT ![d] = op[d].copy]
        /\ (op[d].copy.synced < conv[d].synced => d \in rewound')
    BY <1>10 DEF PurgeWrite, WriteBack, Set
  <2>3. conv'[e] = IF e = d THEN op[e].copy ELSE conv[e]
    BY <1>a, <2>2
  <2>4. ConvEffect(e)
    <3>1. CASE e = d
      BY <2>2, <2>3, <3>1 DEF ConvEffect, SameEvents
    <3>2. CASE e # d
      BY <1>c, <2>3, <3>2
    <3> QED BY <3>1, <3>2
  <2> QED BY <1>c, <2>1, <2>2, <2>4 DEF OpEffect
<1> QED BY <1>1, <1>2, <1>3, <1>4, <1>5, <1>6, <1>7, <1>8, <1>9, <1>10
\* What applying the entry of a job writes.
LEMMA PersistEffect ==
  ASSUME Typed, JobsInOrder, NEW d \in Devices, Persist(d)
  PROVE  LET i == job[d].seq
             e == IF Opens(d, i) THEN log[i].roster ELSE NoEvent
         IN  /\ i \in 1..Len(log) /\ e \in Rosters
             /\ \/ conv'[d] = Applied(job[d].copy, i, e)
                \/ log[i].roster = NoEvent /\ conv'[d] = Applied(conv[d], i, NoEvent)
             /\ job'[d] = NoJob
             /\ UNCHANGED <<log, joined, rewound, op>>
<1> DEFINE i == job[d].seq
           e == IF Opens(d, i) THEN log[i].roster ELSE NoEvent
<1>1. conv \in [Devices -> Records] /\ job \in [Devices -> Jobs] /\ log \in Seq(Entries)
  BY DEF Typed, ConvTyped, JobTyped, ServerTyped
<1>2. i \in 1..Len(log)
  BY <1>1 DEF Persist, JobsInOrder, Jobs
<1>3. log[i] \in Entries
  BY <1>1, <1>2
<1>4. e \in Rosters
  BY <1>3 DEF Entries, Rosters
<1>5. /\ \/ Set(conv, d, Applied(job[d].copy, i, e))
         \/ log[i].roster = NoEvent /\ Set(conv, d, Applied(conv[d], i, NoEvent))
      /\ Set(job, d, NoJob)
      /\ UNCHANGED <<log, joined, rewound, op>>
  BY DEF Persist, serverVars, panelVars
<1> HIDE DEF i, e
<1>6. \/ conv'[d] = Applied(job[d].copy, i, e)
      \/ log[i].roster = NoEvent /\ conv'[d] = Applied(conv[d], i, NoEvent)
  BY <1>1, <1>5 DEF Set
<1>7. job'[d] = NoJob
  BY <1>1, <1>5 DEF Set
<1> QED BY <1>2, <1>4, <1>5, <1>6, <1>7 DEF i, e

\* What a record says of events stays true.
LEMMA RecordTrueKept ==
  ASSUME Typed, Next, NEW d, NEW r \in Records, NEW s \in Records,
         SameEvents(s, r), RecordTrue(log, d, r)
  PROVE  RecordTrue(log', d, s)
<1>1. r.rosterSeq \in Nat /\ r.synced \in Nat /\ Len(log) \in Nat /\ Len(log') \in Nat /\ Len(log) <= Len(log')
  BY LogGrows DEF Records
<1>2. r.rosterSeq # 0 => r.rosterSeq \in 1..Len(log) /\ log'[r.rosterSeq] = log[r.rosterSeq]
  BY <1>1, LogGrows DEF RecordTrue
<1> QED BY <1>1, <1>2 DEF RecordTrue, SameEvents

\* An entry applied leaves a true record.
LEMMA AppliedTrue ==
  ASSUME Typed, NEW d, NEW r \in Records, RecordTrue(log, d, r), NEW i \in 1..Len(log), NEW e \in Rosters,
         e # NoEvent => e = log[i].roster /\ Me(d) \in log[i].for
  PROVE  RecordTrue(log, d, Applied(r, i, e)) /\ (Heard(d, r) => Heard(d, Applied(r, i, e)))
<1>1. r.rosterSeq \in Nat /\ r.synced \in Nat /\ Len(log) \in Nat /\ i \in Nat /\ 1 <= i /\ i <= Len(log)
  BY DEF Records, Typed, ServerTyped
<1> DEFINE s == Applied(r, i, e)
<1>2. s.synced = Later(r.synced, i)
  BY <1>1, AppliedMovesOn
<1>3. s.synced <= Len(log) /\ r.synced <= s.synced /\ i <= s.synced
  BY <1>1, <1>2 DEF RecordTrue, Later
<1>4. CASE e # NoEvent /\ i > r.rosterSeq
  <2>1. s.roster = e /\ s.rosterSeq = i
    BY <1>1, <1>4, AppliedMovesOn
  <2> HIDE DEF s
  <2>2. RecordTrue(log, d, s) /\ Heard(d, s)
    BY <1>1, <1>3, <1>4, <2>1 DEF RecordTrue, Heard
  <2> QED BY <2>2 DEF s
<1>5. CASE ~(e # NoEvent /\ i > r.rosterSeq)
  <2>1. s.roster = r.roster /\ s.rosterSeq = r.rosterSeq
    BY <1>1, <1>5, AppliedMovesOn
  <2>2. s \in Records
    BY <1>1, AppliedMovesOn
  <2>3. s.synced \in Nat
    BY <2>2 DEF Records
  <2> HIDE DEF s
  <2>4. RecordTrue(log, d, s) /\ (Heard(d, r) => Heard(d, s))
    BY <1>1, <1>3, <2>1, <2>3 DEF RecordTrue, Heard
  <2> QED BY <2>4 DEF s
<1> QED BY <1>4, <1>5

\* Every step keeps records and copies true.
LEMMA StepRecordsTrue ==
  ASSUME Typed, Typed', JobsInOrder, RecordsTrue, Next
  PROVE  RecordsTrue'
<1> SUFFICES ASSUME NEW d \in Devices
             PROVE  /\ RecordTrue(log', d, conv'[d]) /\ Heard(d, conv'[d])
                    /\ RecordTrue(log', d, job'[d].copy) /\ (job'[d].seq # 0 => Heard(d, job'[d].copy))
                    /\ RecordTrue(log', d, op'[d].copy)
                    /\ (op'[d].k \in {"remove", "purge"} => Heard(d, op'[d].copy))
  BY DEF RecordsTrue, RecordTrue, Heard, Me
<1>1. /\ conv[d] \in Records /\ job[d] \in Jobs /\ op[d] \in Ops /\ job[d].copy \in Records /\ op[d].copy \in Records
      /\ conv'[d] \in Records /\ job'[d] \in Jobs /\ op'[d] \in Ops /\ job'[d].copy \in Records
      /\ op'[d].copy \in Records
  BY DEF Typed, ConvTyped, JobTyped, OpTyped, Jobs, Ops
<1>2. /\ RecordTrue(log, d, conv[d]) /\ Heard(d, conv[d])
      /\ RecordTrue(log, d, job[d].copy) /\ (job[d].seq # 0 => Heard(d, job[d].copy))
      /\ RecordTrue(log, d, op[d].copy) /\ (op[d].k \in {"remove", "purge"} => Heard(d, op[d].copy))
  BY DEF RecordsTrue
<1>3. ConvEffect(d) /\ JobEffect(d) /\ OpEffect(d)
  BY RecordEffect
<1>4. Unknown \in Records /\ RecordTrue(log', d, Unknown)
  <2>1. Len(log') \in Nat
    BY LogGrows
  <2> QED BY <2>1 DEF Unknown, Records, Rosters, RecordTrue, Lists
<1>5. /\ RecordTrue(log', d, conv[d])
      /\ RecordTrue(log', d, job[d].copy)
      /\ RecordTrue(log', d, op[d].copy)
  <2>1. \A r \in Records : SameEvents(r, r)
    BY DEF SameEvents
  <2> QED BY <1>1, <1>2, <2>1, RecordTrueKept
<1>6. RecordTrue(log', d, conv'[d]) /\ Heard(d, conv'[d])
  <2>1. CASE SameEvents(conv'[d], conv[d])
    BY <1>1, <1>2, <2>1, RecordTrueKept DEF Heard, SameEvents
  <2>2. CASE op[d].k \in {"remove", "purge"} /\ SameEvents(conv'[d], op[d].copy)
    BY <1>1, <1>2, <2>2, RecordTrueKept DEF Heard, SameEvents
  <2>3. CASE Persist(d)
    <3> DEFINE i == job[d].seq
               e == IF Opens(d, i) THEN log[i].roster ELSE NoEvent
    <3>1. /\ i \in 1..Len(log) /\ e \in Rosters /\ log' = log
          /\ \/ conv'[d] = Applied(job[d].copy, i, e)
             \/ log[i].roster = NoEvent /\ conv'[d] = Applied(conv[d], i, NoEvent)
      BY <2>3, PersistEffect
    <3>2. e # NoEvent => e = log[i].roster /\ Me(d) \in log[i].for
      BY DEF Opens
    <3>3. job[d].seq # 0 /\ NoEvent \in Rosters
      BY <3>1 DEF Rosters
    <3> HIDE DEF i, e
    <3>4. RecordTrue(log, d, Applied(job[d].copy, i, e)) /\ Heard(d, Applied(job[d].copy, i, e))
      BY <1>1, <1>2, <3>1, <3>2, <3>3, AppliedTrue
    <3>5. RecordTrue(log, d, Applied(conv[d], i, NoEvent)) /\ Heard(d, Applied(conv[d], i, NoEvent))
      BY <1>1, <1>2, <3>1, <3>3, AppliedTrue
    <3> QED BY <3>1, <3>4, <3>5
  <2> QED BY <1>3, <2>1, <2>2, <2>3 DEF ConvEffect
<1>7. RecordTrue(log', d, job'[d].copy) /\ (job'[d].seq # 0 => Heard(d, job'[d].copy))
  <2>1. CASE job'[d] = job[d]
    BY <1>2, <1>5, <2>1
  <2>2. CASE job'[d] = NoJob
    BY <1>4, <2>2 DEF NoJob
  <2>3. CASE \E i \in 1..Len(log) : job'[d] = [seq |-> i, copy |-> conv[d]]
    BY <1>2, <1>5, <2>3
  <2> QED BY <1>3, <2>1, <2>2, <2>3 DEF JobEffect
<1>8. RecordTrue(log', d, op'[d].copy) /\ (op'[d].k \in {"remove", "purge"} => Heard(d, op'[d].copy))
  BY <1>2, <1>3, <1>4, <1>5 DEF OpEffect
<1> QED BY <1>6, <1>7, <1>8

\* Every step keeps jobs in order.
LEMMA StepJobsInOrder ==
  ASSUME Typed, Typed', JobsInOrder, Next
  PROVE  JobsInOrder'
<1>1. Len(log) \in Nat /\ Len(log') \in Nat /\ Len(log) <= Len(log')
  BY LogGrows
<1>2. joined \in [Accounts -> Nat] /\ joined' \in [Accounts -> Nat]
  BY DEF Typed, ServerTyped
<1>3. \A a \in Accounts : joined[a] <= joined'[a] /\ joined'[a] <= Len(log')
  <2> TAKE a \in Accounts
  <2>1. joined[a] \in Nat /\ joined'[a] \in Nat /\ joined[a] <= Len(log)
    BY <1>2 DEF JobsInOrder
  <2> QED BY <1>1, <2>1, JoinedEffect
<1>4. ASSUME NEW d \in Devices
      PROVE  /\ job'[d].seq # 0 \/ job'[d] = NoJob
             /\ job'[d].seq <= Len(log')
             /\ job'[d].seq <= 1 + job'[d].copy.synced \/ job'[d].seq <= 1 + joined'[Me(d)]
  <2>1. /\ job[d].seq \in Nat /\ job[d].copy.synced \in Nat /\ conv[d].synced \in Nat
        /\ job[d].seq # 0 \/ job[d] = NoJob
        /\ job[d].seq <= Len(log)
        /\ job[d].seq <= 1 + job[d].copy.synced \/ job[d].seq <= 1 + joined[Me(d)]
    BY DEF Typed, JobTyped, Jobs, ConvTyped, Records, JobsInOrder
  <2>2. Me(d) \in Accounts
    BY RosterAssumption DEF Me
  <2>3. joined[Me(d)] \in Nat /\ joined'[Me(d)] \in Nat /\ joined[Me(d)] <= joined'[Me(d)]
    BY <1>2, <1>3, <2>2
  <2>4. JobEffect(d)
    BY RecordEffect
  <2>5. CASE job'[d] = job[d]
    BY <1>1, <2>1, <2>3, <2>5
  <2>6. CASE job'[d] = NoJob
    BY <1>1, <2>3, <2>6 DEF NoJob, Unknown
  <2>7. CASE \E i \in 1..Len(log) : /\ job'[d] = [seq |-> i, copy |-> conv[d]]
                                    /\ i <= 1 + conv[d].synced \/ i <= 1 + joined[Me(d)]
    BY <1>1, <2>1, <2>3, <2>7
  <2> QED BY <2>4, <2>5, <2>6, <2>7 DEF JobEffect
<1> QED BY <1>3, <1>4 DEF JobsInOrder, Me
\* A record that has missed nothing misses nothing by what happens elsewhere.
LEMMA CaughtUpKept ==
  ASSUME Typed, Typed', JobsInOrder, Next, NEW d \in Devices, NEW r \in Records, NEW s \in Records,
         SameEvents(s, r), r.synced <= Len(log), CaughtUp(log, joined[Me(d)], d, r)
  PROVE  CaughtUp(log', joined'[Me(d)], d, s)
<1>1. Me(d) \in Accounts
  BY RosterAssumption DEF Me
<1>2. joined[Me(d)] \in Nat /\ joined'[Me(d)] \in Nat /\ joined[Me(d)] <= Len(log)
  BY <1>1 DEF Typed, ServerTyped, JobsInOrder
<1>3. r.synced \in Nat /\ Len(log) \in Nat /\ s.synced = r.synced /\ s.rosterSeq = r.rosterSeq
  BY DEF Records, Typed, ServerTyped, SameEvents
<1>4. joined[Me(d)] <= joined'[Me(d)]
  BY <1>1, <1>2, JoinedEffect
<1> SUFFICES ASSUME NEW i \in (joined'[Me(d)] + 1)..r.synced, log'[i].roster # NoEvent, Me(d) \in log'[i].for
             PROVE  i <= r.rosterSeq
  BY <1>3 DEF CaughtUp
<1>5. i \in (joined[Me(d)] + 1)..r.synced /\ i \in 1..Len(log)
  BY <1>2, <1>3, <1>4
<1>6. log'[i] = log[i]
  BY <1>5, LogGrows
<1> QED BY <1>5, <1>6 DEF CaughtUp

\* An entry that is applied in its turn is not missed.
LEMMA CaughtUpApplied ==
  ASSUME Typed, NEW d, NEW j \in Nat, NEW r \in Records, NEW i \in 1..Len(log), NEW e \in Rosters,
         CaughtUp(log, j, d, r), i <= 1 + r.synced \/ i <= 1 + j,
         log[i].roster # NoEvent /\ Me(d) \in log[i].for => e = log[i].roster
  PROVE  CaughtUp(log, j, d, Applied(r, i, e))
<1>1. r.rosterSeq \in Nat /\ r.synced \in Nat /\ Len(log) \in Nat /\ i \in Nat /\ 1 <= i
  BY DEF Records, Typed, ServerTyped
<1> DEFINE s == Applied(r, i, e)
<1>2. s.synced = Later(r.synced, i) /\ s \in Records
  BY <1>1, AppliedMovesOn
<1>3. s.rosterSeq \in Nat
  BY <1>2 DEF Records
<1>4. r.rosterSeq <= s.rosterSeq /\ (e # NoEvent => i <= s.rosterSeq)
  <2>1. CASE e # NoEvent /\ i > r.rosterSeq
    <3>1. s.rosterSeq = i
      BY <1>1, <2>1, AppliedMovesOn
    <3> QED BY <1>1, <2>1, <3>1
  <2>2. CASE ~(e # NoEvent /\ i > r.rosterSeq)
    <3>1. s.rosterSeq = r.rosterSeq
      BY <1>1, <2>2, AppliedMovesOn
    <3> QED BY <1>1, <2>2, <3>1
  <2> QED BY <2>1, <2>2
<1> HIDE DEF s
<1>5. ASSUME NEW k \in (j + 1)..s.synced, log[k].roster # NoEvent, Me(d) \in log[k].for
      PROVE  k <= s.rosterSeq
  <2>1. CASE k <= r.synced
    <3>1. k \in (j + 1)..r.synced
      BY <1>1, <1>5, <2>1
    <3>2. k <= r.rosterSeq
      BY <1>5, <3>1 DEF CaughtUp
    <3> QED BY <1>1, <1>3, <1>4, <3>1, <3>2
  <2>2. CASE ~(k <= r.synced)
    <3>1. k = i
      BY <1>1, <1>2, <1>5, <2>2 DEF Later
    <3> QED BY <1>4, <1>5, <3>1
  <2> QED BY <2>1, <2>2
<1>6. CaughtUp(log, j, d, s)
  BY <1>5 DEF CaughtUp
<1> QED BY <1>6 DEF s

\* Every step leaves records that have missed nothing, or writes back an old one.
LEMMA StepNothingMissed ==
  ASSUME Typed, Typed', JobsInOrder, RecordsTrue, NothingMissed, Next
  PROVE  NothingMissed'
<1> SUFFICES ASSUME NEW d \in Devices, d \notin rewound'
             PROVE  /\ CaughtUp(log', joined'[Me(d)], d, conv'[d])
                    /\ CaughtUp(log', joined'[Me(d)], d, job'[d].copy)
                    /\ CaughtUp(log', joined'[Me(d)], d, op'[d].copy)
                    /\ job'[d].copy.synced <= conv'[d].synced
  BY DEF NothingMissed, CaughtUp, Me
<1> DEFINE j == joined[Me(d)]
           jj == joined'[Me(d)]
<1>1. /\ conv[d] \in Records /\ job[d] \in Jobs /\ op[d] \in Ops /\ job[d].copy \in Records /\ op[d].copy \in Records
      /\ conv'[d] \in Records /\ job'[d] \in Jobs /\ op'[d] \in Ops /\ job'[d].copy \in Records
      /\ op'[d].copy \in Records
  BY DEF Typed, ConvTyped, JobTyped, OpTyped, Jobs, Ops
<1>2. ConvEffect(d) /\ JobEffect(d) /\ OpEffect(d) /\ d \notin rewound
  BY RecordEffect
<1>3. /\ CaughtUp(log, j, d, conv[d]) /\ CaughtUp(log, j, d, job[d].copy) /\ CaughtUp(log, j, d, op[d].copy)
      /\ job[d].copy.synced <= conv[d].synced
  BY <1>2 DEF NothingMissed
<1>4. conv[d].synced <= Len(log) /\ job[d].copy.synced <= Len(log) /\ op[d].copy.synced <= Len(log)
  BY DEF RecordsTrue, RecordTrue
<1>5. Me(d) \in Accounts
  BY RosterAssumption DEF Me
<1>6. j \in Nat /\ jj \in Nat
  BY <1>5 DEF Typed, ServerTyped
<1>7. /\ CaughtUp(log', jj, d, conv[d]) /\ CaughtUp(log', jj, d, job[d].copy) /\ CaughtUp(log', jj, d, op[d].copy)
  <2>1. \A r \in Records : SameEvents(r, r)
    BY DEF SameEvents
  <2> QED BY <1>1, <1>3, <1>4, <2>1, CaughtUpKept
<1>8. Unknown \in Records /\ CaughtUp(log', jj, d, Unknown) /\ Unknown.synced = 0
  BY <1>6 DEF Unknown, Records, Rosters, CaughtUp, Lists
<1>9. CaughtUp(log', jj, d, conv'[d])
  <2>1. CASE SameEvents(conv'[d], conv[d])
    BY <1>1, <1>3, <1>4, <2>1, CaughtUpKept
  <2>2. CASE SameEvents(conv'[d], op[d].copy)
    BY <1>1, <1>3, <1>4, <2>2, CaughtUpKept
  <2>3. CASE Persist(d)
    <3> DEFINE i == job[d].seq
               e == IF Opens(d, i) THEN log[i].roster ELSE NoEvent
    <3>1. /\ i \in 1..Len(log) /\ e \in Rosters
          /\ \/ conv'[d] = Applied(job[d].copy, i, e)
             \/ log[i].roster = NoEvent /\ conv'[d] = Applied(conv[d], i, NoEvent)
          /\ UNCHANGED <<log, joined>>
      BY <2>3, PersistEffect
    <3>2. log[i].roster # NoEvent /\ Me(d) \in log[i].for => e = log[i].roster
      BY DEF Opens
    <3>3. i <= 1 + job[d].copy.synced \/ i <= 1 + j
      BY DEF JobsInOrder
    <3>4. i <= 1 + conv[d].synced \/ i <= 1 + j
      <4>1. job[d].copy.synced \in Nat /\ conv[d].synced \in Nat /\ i \in Nat
        BY <1>1, <3>1 DEF Records, Jobs
      <4> QED BY <1>3, <1>6, <3>3, <4>1
    <3>5. NoEvent \in Rosters
      BY DEF Rosters
    <3> HIDE DEF i, e, j, jj
    <3>6. CaughtUp(log, j, d, Applied(job[d].copy, i, e))
      BY <1>1, <1>3, <1>6, <3>1, <3>2, <3>3, CaughtUpApplied
    <3>7. log[i].roster = NoEvent => CaughtUp(log, j, d, Applied(conv[d], i, NoEvent))
      BY <1>1, <1>3, <1>6, <3>1, <3>4, <3>5, CaughtUpApplied
    <3>8. jj = j
      BY <3>1 DEF j, jj
    <3> QED BY <3>1, <3>6, <3>7, <3>8
  <2> QED BY <1>2, <2>1, <2>2, <2>3 DEF ConvEffect
<1>10. CaughtUp(log', jj, d, job'[d].copy)
  <2>1. CASE job'[d] = job[d]
    BY <1>7, <2>1
  <2>2. CASE job'[d] = NoJob
    BY <1>8, <2>2 DEF NoJob
  <2>3. CASE \E i \in 1..Len(log) : job'[d] = [seq |-> i, copy |-> conv[d]]
    BY <1>7, <2>3
  <2> QED BY <1>2, <2>1, <2>2, <2>3 DEF JobEffect
<1>11. CaughtUp(log', jj, d, op'[d].copy)
  BY <1>2, <1>7, <1>8 DEF OpEffect
<1>12. job'[d].copy.synced <= conv'[d].synced
  <2>1. /\ conv[d].synced \in Nat /\ conv'[d].synced \in Nat /\ job[d].copy.synced \in Nat
        /\ op[d].copy.synced \in Nat
    BY <1>1 DEF Records
  <2>2. CASE job'[d] = NoJob
    BY <2>1, <2>2 DEF NoJob, Unknown
  <2>3. CASE \E i \in 1..Len(log) : job'[d] = [seq |-> i, copy |-> conv[d]] /\ UNCHANGED conv
    BY <2>1, <2>3
  <2>4. CASE job'[d] = job[d]
    <3>1. CASE SameEvents(conv'[d], conv[d])
      BY <1>3, <2>1, <2>4, <3>1 DEF SameEvents
    <3>2. CASE SameEvents(conv'[d], op[d].copy) /\ (op[d].copy.synced < conv[d].synced => d \in rewound')
      BY <1>3, <2>1, <2>4, <3>2 DEF SameEvents
    <3>3. CASE Persist(d)
      <4>1. job'[d] = NoJob
        BY <3>3, PersistEffect
      <4> QED BY <2>2, <4>1
    <3> QED BY <1>2, <3>1, <3>2, <3>3 DEF ConvEffect
  <2> QED BY <1>2, <2>2, <2>3, <2>4 DEF JobEffect
<1> QED BY <1>9, <1>10, <1>11, <1>12
(***************************************************************************)
(* Whom messages are sealed to, and under which keys.                      *)
(***************************************************************************)
\* What is sent is sealed to the sender and to those an event has named.
LEMMA StepNobodyUnvouched ==
  ASSUME Typed, RecordsTrue, NobodyUnvouched, Next
  PROVE  NobodyUnvouched'
<1> SUFFICES ASSUME NEW i \in 2..Len(log'), NEW a \in log'[i].for, Me(log'[i].by) \in First
             PROVE  a = Me(log'[i].by) \/ \E j \in 1..(i - 1) : a \in log'[j].roster
  BY DEF NobodyUnvouched, Me
<1>1. /\ Len(log) \in Nat /\ Len(log') \in Nat /\ \A j \in 1..Len(log) : log'[j] = log[j]
      /\ log \in Seq(Entries)
  BY LogGrows
<1>2. CASE i <= Len(log)
  <2>1. i \in 2..Len(log) /\ log'[i] = log[i]
    BY <1>1, <1>2
  <2>2. a = Me(log[i].by) \/ \E j \in 1..(i - 1) : a \in log[j].roster
    BY <2>1 DEF NobodyUnvouched
  <2>3. \A j \in 1..(i - 1) : log'[j] = log[j]
    BY <1>1, <1>2
  <2> QED BY <2>1, <2>2, <2>3
<1>3. CASE i > Len(log)
  <2>1. PICK d \in Devices, r \in Rosters : Sent(d, r)
    BY <1>1, <1>3, LogEffect
  <2> DEFINE e == [by |-> d, roster |-> r, for |-> SealingMembers(d),
                   key |-> KeysWith(SealingMembers(d) \ {Me(d)}, contact[d].pin)]
  <2>2. e \in Entries /\ log' = Append(log, e)
    BY <2>1, SendAppends DEF Sent
  <2>3. e.by = d /\ e.for = SealingMembers(d)
    OBVIOUS
  <2> HIDE DEF e
  <2>4. i = Len(log) + 1 /\ log'[i] = e
    <3>1. Len(log') = Len(log) + 1 /\ log'[Len(log) + 1] = e
      BY <1>1, <2>2, AppendKeeps
    <3> QED BY <1>1, <1>3, <3>1
  <2>5. conv[d].rosterSeq \in Nat /\ conv[d].rosterSeq <= Len(log) /\ conv[d].rosterSeq # 0
        /\ conv[d].roster = log[conv[d].rosterSeq].roster /\ conv[d].roster # NoEvent
    <3>1. conv[d].rosterSeq \in Nat /\ conv[d].synced \in Nat
      BY DEF Typed, ConvTyped, Records
    <3>2. RecordTrue(log, d, conv[d]) /\ conv[d].rosterSeq # 0
      BY <2>3, <2>4 DEF RecordsTrue, Heard
    <3> QED BY <1>1, <3>1, <3>2 DEF RecordTrue
  <2>6. a = Me(d) \/ a \in conv[d].roster
    BY <2>3, <2>4, <2>5 DEF SealingMembers
  <2>7. conv[d].rosterSeq \in 1..(i - 1) /\ log'[conv[d].rosterSeq] = log[conv[d].rosterSeq]
    BY <1>1, <2>4, <2>5
  <2> QED BY <2>3, <2>4, <2>5, <2>6, <2>7
<1> QED BY <1>1, <1>2, <1>3

\* What can happen to a contact record.
ContactEffect(e) ==
    \/ contact'[e] = contact[e]
    \/ \E key \in KeyOrNot : contact'[e] = ObserveKeys(contact[e], key)
    \/ contact[e].pin # 0 /\ contact'[e] = [contact[e] EXCEPT !.verified = TRUE, !.compared = CodeShown(e)]
    \/ contact[e].pending # 0
       /\ contact'[e] = [contact[e] EXCEPT !.pin = contact[e].pending, !.pending = 0, !.verified = FALSE,
                                           !.trusted = @ \cup {contact[e].pending}]

\* These are all the effects.
LEMMA ContactSteps ==
  ASSUME Typed, JobsInOrder, Next, NEW e \in Devices
  PROVE  ContactEffect(e)
<1> PICK d \in Devices :
       \/ Get(d) \/ Upsert(d) \/ Removed(d) \/ SendText(d)
       \/ AddOnServer(d) \/ AddUpsert(d) \/ AddAnnounce(d)
       \/ RemoveAnnounce(d) \/ RemoveOnServer(d)
       \/ Take(d) \/ Persist(d) \/ PurgeCopy(d) \/ PurgeWrite(d)
       \/ SetVerified(d) \/ AcceptNewKeys(d)
  BY DEF Next
<1>a. contact \in [Devices -> Contacts]
  BY DEF Typed, ContactTyped
<1>b. \A list : \A key \in Presented(d) : KeysWith(list, key) \in KeyOrNot
  <2> TAKE list
  <2> TAKE key \in Presented(d)
  <2>1. key \in KeyOrNot
    BY KeysAreKeys DEF KeyOrNot, Presented
  <2> QED BY <2>1, KeysAreKeys
<1>c. \A key \in KeyOrNot : Set(contact, d, ObserveKeys(contact[d], key)) => ContactEffect(e)
  BY <1>a DEF Set, ContactEffect
<1>1. CASE \/ Get(d) \/ Removed(d) \/ SendText(d) \/ AddAnnounce(d) \/ RemoveAnnounce(d) \/ RemoveOnServer(d)
           \/ Take(d) \/ PurgeCopy(d) \/ PurgeWrite(d)
  BY <1>1 DEF Get, Removed, SendText, AddAnnounce, RemoveAnnounce, RemoveOnServer, Take, PurgeCopy, PurgeWrite,
     ContactEffect
<1>2. CASE Upsert(d)
  BY <1>2, <1>b, <1>c DEF Upsert
<1>3. CASE AddOnServer(d)
  BY <1>3, <1>b, <1>c DEF AddOnServer
<1>4. CASE AddUpsert(d)
  BY <1>4, <1>b, <1>c DEF AddUpsert
<1>5. CASE Persist(d)
  <2> DEFINE i == job[d].seq
             e1 == IF Opens(d, i) THEN log[i].roster ELSE NoEvent
  <2>1. i \in 1..Len(log)
    BY <1>5, PersistEffect
  <2>2. log[i].key \in KeyOrNot
    <3>1. log[i] \in Entries
      BY <2>1 DEF Typed, ServerTyped
    <3> QED BY <3>1 DEF Entries
  <2>3. KeysWith(e1, log[i].key) \in KeyOrNot
    BY <2>2, KeysAreKeys
  <2>4. Set(contact, d, ObserveKeys(contact[d], KeysWith(e1, log[i].key)))
    BY <1>5 DEF Persist
  <2> HIDE DEF e1, i
  <2> QED BY <1>c, <2>3, <2>4
<1>6. CASE SetVerified(d)
  BY <1>6, <1>a DEF SetVerified, Set, ContactEffect
<1>7. CASE AcceptNewKeys(d)
  BY <1>7, <1>a DEF AcceptNewKeys, Set, ContactEffect
<1> QED BY <1>1, <1>2, <1>3, <1>4, <1>5, <1>6, <1>7

\* Keys in use stay trusted, verified ones compared, and trust is not forgotten.
LEMMA ContactKept ==
  ASSUME Typed, JobsInOrder, PinsTrusted, VerifiedWereCompared, Next, NEW d \in Devices
  PROVE  /\ IF contact'[d].pin = 0 THEN contact'[d].trusted = {}
            ELSE contact'[d].pin \in contact'[d].trusted
         /\ contact'[d].verified => contact'[d].pin # 0
         /\ contact'[d].verified /\ contact'[d].pending = 0 => contact'[d].pin = contact'[d].compared
         /\ contact[d].trusted \subseteq contact'[d].trusted
<1> DEFINE c == contact[d]
<1>1. c \in Contacts
  BY DEF Typed, ContactTyped
<1>2. /\ IF c.pin = 0 THEN c.trusted = {} ELSE c.pin \in c.trusted
      /\ c.verified => c.pin # 0
      /\ c.verified /\ c.pending = 0 => c.pin = c.compared
  BY DEF PinsTrusted, VerifiedWereCompared
<1>3. ContactEffect(d)
  BY ContactSteps
<1>4. CASE contact'[d] = c
  BY <1>2, <1>4
<1>5. CASE \E key \in KeyOrNot : contact'[d] = ObserveKeys(c, key)
  BY <1>1, <1>2, <1>5, ObserveKeysKeeps
<1>6. CASE c.pin # 0 /\ contact'[d] = [c EXCEPT !.verified = TRUE, !.compared = CodeShown(d)]
  BY <1>1, <1>2, <1>6 DEF Contacts, CodeShown
<1>7. CASE c.pending # 0 /\ contact'[d] = [c EXCEPT !.pin = c.pending, !.pending = 0, !.verified = FALSE,
                                                    !.trusted = @ \cup {c.pending}]
  BY <1>1, <1>7 DEF Contacts
<1> QED BY <1>3, <1>4, <1>5, <1>6, <1>7 DEF ContactEffect
\* Nothing is sealed under keys that are not trusted, and no verified keys replaced.
LEMMA StepKeysWereChecked ==
  ASSUME Typed, JobsInOrder, PinsTrusted, SealedToTrusted, VerifiedWereCompared, Next
  PROVE  PinsTrusted' /\ VerifiedWereCompared' /\ SealedToTrusted'
<1>1. PinsTrusted' /\ VerifiedWereCompared'
  BY ContactKept DEF PinsTrusted, VerifiedWereCompared
<1>2. SealedToTrusted'
  <2> SUFFICES ASSUME NEW i \in 1..Len(log'), log'[i].key # 0
               PROVE  log'[i].key \in contact'[log'[i].by].trusted
    <3>1. log' \in Seq(Entries)
      BY LogGrows
    <3>2. DOMAIN log' = 1..Len(log')
      BY <3>1
    <3> QED BY <3>2 DEF SealedToTrusted
  <2>1. /\ Len(log) \in Nat /\ Len(log') \in Nat /\ \A j \in 1..Len(log) : log'[j] = log[j]
        /\ log \in Seq(Entries) /\ DOMAIN log = 1..Len(log)
    BY LogGrows
  <2>2. CASE i <= Len(log)
    <3>1. i \in DOMAIN log /\ log'[i] = log[i] /\ log[i] \in Entries
      BY <2>1, <2>2
    <3>2. log[i].key \in contact[log[i].by].trusted /\ log[i].by \in Devices
      BY <3>1 DEF SealedToTrusted, Entries
    <3> QED BY <3>1, <3>2, ContactKept
  <2>3. CASE i > Len(log)
    <3>1. PICK d \in Devices, r \in Rosters : Sent(d, r)
      BY <2>1, <2>3, LogEffect
    <3> DEFINE e == [by |-> d, roster |-> r, for |-> SealingMembers(d),
                     key |-> KeysWith(SealingMembers(d) \ {Me(d)}, contact[d].pin)]
    <3>2. e \in Entries /\ log' = Append(log, e)
      BY <3>1, SendAppends DEF Sent
    <3>3. e.by = d /\ (e.key # 0 => e.key = contact[d].pin)
      BY DEF KeysWith
    <3> HIDE DEF e
    <3>4. log'[i] = e
      <4>1. Len(log') = Len(log) + 1 /\ log'[Len(log) + 1] = e
        BY <2>1, <3>2, AppendKeeps
      <4> QED BY <2>1, <2>3, <4>1
    <3>5. contact[d].pin # 0 => contact[d].pin \in contact[d].trusted
      BY DEF PinsTrusted
    <3>6. contact[d].trusted \subseteq contact'[d].trusted
      BY ContactKept
    <3> QED BY <3>3, <3>4, <3>5, <3>6
  <2> QED BY <2>1, <2>2, <2>3
<1> QED BY <1>1, <1>2

(***************************************************************************)
(* Operations in order.                                                    *)
(***************************************************************************)
\* The last event is an event, and the only one that is last.
LEMMA LastEventIsLast ==
  ASSUME Typed, LastExists
  PROVE  /\ LastEvent \in 1..Len(log) /\ IsLast(LastEvent)
         /\ \A i \in 1..Len(log) : IsLast(i) => i = LastEvent
<1>1. LastEvent = CHOOSE i \in DOMAIN log : IsLast(i)
  BY DEF LastEvent, IsLast
<1>2. IsLast(LastEvent)
  BY <1>1 DEF LastExists
<1>3. log \in Seq(Entries)
  BY DEF Typed, ServerTyped
<1>4. DOMAIN log = 1..Len(log) /\ Len(log) \in Nat
  BY <1>3
<1>5. \A i \in 1..Len(log) : IsLast(i) => i = LastEvent
  <2> SUFFICES ASSUME NEW i \in 1..Len(log), IsLast(i)
               PROVE  ~(i > LastEvent) /\ ~(LastEvent > i)
    BY <1>2, <1>4 DEF IsLast
  <2> QED BY <1>2 DEF IsLast
<1> QED BY <1>2, <1>4, <1>5 DEF IsLast

\* Sending makes an event the last one, and leaves the last one when it is no event.
LEMMA LastAfterSend ==
  ASSUME Typed, Typed', LastExists, NEW d \in Devices, NEW r \in Rosters, Send(d, r)
  PROVE  /\ LastExists' /\ log'[LastEvent'].roster = IF r = NoEvent THEN log[LastEvent].roster ELSE r
         /\ r = NoEvent => LastEvent' = LastEvent
<1> DEFINE e == [by |-> d, roster |-> r, for |-> SealingMembers(d),
                 key |-> KeysWith(SealingMembers(d) \ {Me(d)}, contact[d].pin)]
<1>1. e \in Entries /\ log' = Append(log, e)
  BY SendAppends
<1>2. e.roster = r
  OBVIOUS
<1> HIDE DEF e
<1>3. log \in Seq(Entries) /\ log' \in Seq(Entries) /\ Len(log) \in Nat
  BY DEF Typed, ServerTyped
<1>4. /\ DOMAIN log = 1..Len(log) /\ DOMAIN log' = 1..Len(log') /\ Len(log') = Len(log) + 1
      /\ \A i \in 1..Len(log) : log'[i] = log[i]
      /\ log'[Len(log) + 1] = e
  BY <1>1, <1>3, AppendKeeps
<1>5. LastEvent \in 1..Len(log) /\ IsLast(LastEvent)
  BY LastEventIsLast
<1> DEFINE n == IF r = NoEvent THEN LastEvent ELSE Len(log) + 1
<1>6. n \in DOMAIN log' /\ log'[n].roster # NoEvent /\ \A k \in DOMAIN log' : k > n => log'[k].roster = NoEvent
  <2>1. CASE r = NoEvent
    <3>1. n = LastEvent
      BY <2>1
    <3>2. ASSUME NEW k \in DOMAIN log', k > n PROVE log'[k].roster = NoEvent
      <4>1. CASE k = Len(log) + 1
        BY <1>2, <1>4, <2>1, <4>1
      <4>2. CASE k # Len(log) + 1
        <5>1. k \in 1..Len(log) /\ k \in DOMAIN log
          BY <1>3, <1>4, <4>2
        <5>2. log[k].roster = NoEvent
          BY <1>5, <3>1, <3>2, <5>1 DEF IsLast
        <5> QED BY <1>4, <5>1, <5>2
      <4> QED BY <4>1, <4>2
    <3>3. n \in DOMAIN log' /\ log'[n].roster # NoEvent
      BY <1>3, <1>4, <1>5, <3>1 DEF IsLast
    <3> QED BY <3>2, <3>3
  <2>2. CASE r # NoEvent
    <3>1. n = Len(log) + 1
      BY <2>2
    <3> QED BY <1>2, <1>3, <1>4, <2>2, <3>1
  <2> QED BY <2>1, <2>2
<1> HIDE DEF n
<1>7. PICK m : m = n
  OBVIOUS
<1>8. IsLast(m)'
  BY <1>6, <1>7 DEF IsLast
<1>9. LastExists'
  BY <1>6, <1>7, <1>8 DEF LastExists
<1>10. LastEvent' = m
  <2> DEFINE L(i) == /\ i \in DOMAIN log' /\ log'[i].roster # NoEvent
                     /\ \A k \in DOMAIN log' : k > i => log'[k].roster = NoEvent
  <2>1. LastEvent' = CHOOSE i \in DOMAIN log' : L(i)
    BY DEF LastEvent
  <2>2. m \in DOMAIN log' /\ L(m)
    BY <1>6, <1>7
  <2>3. \A i \in DOMAIN log' : L(i) => i = m
    <3> SUFFICES ASSUME NEW i \in DOMAIN log', L(i)
                 PROVE  ~(i > m) /\ ~(m > i)
      BY <1>3, <1>4, <2>2
    <3> QED BY <2>2
  <2> HIDE DEF L
  <2> QED BY <2>1, <2>2, <2>3
<1>11. log'[m].roster = IF r = NoEvent THEN log[LastEvent].roster ELSE r
  BY <1>2, <1>4, <1>5, <1>7 DEF n
<1> QED BY <1>7, <1>9, <1>10, <1>11 DEF n
\* While an addition goes on in order, its device keeps the last event's roster.
LEMMA AdderKeepsRoster ==
  ASSUME Typed, JobsInOrder, LastExists, Next, NEW e \in Devices, op[e].k = "add",
         conv[e].rosterSeq = LastEvent, job[e].seq # 0 => job[e].copy.rosterSeq = LastEvent
  PROVE  /\ conv'[e].rosterSeq = LastEvent
         /\ job'[e].seq # 0 => job'[e].copy.rosterSeq = LastEvent
<1>1. ConvEffect(e) /\ JobEffect(e)
  BY RecordEffect
<1>2. LastEvent \in 1..Len(log) /\ IsLast(LastEvent) /\ Len(log) \in Nat /\ DOMAIN log = 1..Len(log)
  <2>1. log \in Seq(Entries)
    BY DEF Typed, ServerTyped
  <2> QED BY <2>1, LastEventIsLast
<1>3. conv[e] \in Records /\ job[e].copy \in Records
  BY DEF Typed, ConvTyped, JobTyped, Jobs
<1>4. conv'[e].rosterSeq = LastEvent
  <2>1. CASE Persist(e)
    <3> DEFINE i == job[e].seq
               x == IF Opens(e, i) THEN log[i].roster ELSE NoEvent
    <3>1. /\ i \in 1..Len(log) /\ x \in Rosters
          /\ \/ conv'[e] = Applied(job[e].copy, i, x)
             \/ log[i].roster = NoEvent /\ conv'[e] = Applied(conv[e], i, NoEvent)
      BY <2>1, PersistEffect
    <3>2. job[e].copy.rosterSeq = LastEvent /\ NoEvent \in Rosters
      BY <3>1 DEF Rosters
    <3>3. ~(x # NoEvent /\ i > LastEvent)
      BY <1>2, <3>1 DEF IsLast
    <3>4. i \in Nat
      BY <1>2, <3>1
    <3> HIDE DEF i, x
    <3>5. Applied(job[e].copy, i, x).rosterSeq = LastEvent
      <4>1. ~(x # NoEvent /\ i > job[e].copy.rosterSeq)
        BY <3>2, <3>3
      <4>2. Applied(job[e].copy, i, x).rosterSeq = job[e].copy.rosterSeq
        BY <1>3, <3>1, <3>4, <4>1, AppliedMovesOn
      <4> QED BY <3>2, <4>2
    <3>6. Applied(conv[e], i, NoEvent).rosterSeq = conv[e].rosterSeq
      BY <1>3, <3>2, <3>4, AppliedMovesOn
    <3> QED BY <3>1, <3>5, <3>6
  <2> QED BY <1>1, <2>1 DEF ConvEffect, SameEvents
<1>5. job'[e].seq # 0 => job'[e].copy.rosterSeq = LastEvent
  <2>1. CASE job'[e] = job[e]
    BY <2>1
  <2>2. CASE job'[e] = NoJob
    BY <2>2 DEF NoJob
  <2>3. CASE \E i \in 1..Len(log) : job'[e] = [seq |-> i, copy |-> conv[e]]
    BY <2>3
  <2> QED BY <1>1, <2>1, <2>2, <2>3 DEF JobEffect
<1> QED BY <1>4, <1>5

\* Order is kept where nothing but copies and the record change.
LEMMA QuietKeepsOrder ==
  ASSUME Typed, JobsInOrder, LastExists, Next, InOrder, orderly,
         members' = members, LastEvent' = LastEvent, log'[LastEvent].roster = log[LastEvent].roster,
         \A e \in Devices : op'[e] = op[e]
                            \/ (op[e].k \in {"none", "purge"} /\ op'[e].k \in {"none", "purge"})
  PROVE  InOrder'
<1>1. \A e \in Devices : Changing(e) <=> (Changing(e))'
  BY DEF Changing
<1>2. /\ \A d, e \in Devices : (Changing(d))' /\ (Changing(e))' => d = e
      /\ (\A d \in Devices : ~(Changing(d))') => log'[LastEvent'].roster = members'
  BY <1>1 DEF InOrder
<1>3. ASSUME NEW e \in Devices PROVE (HalfDone(e))'
  <2>1. CASE op[e].k \in {"none", "purge"} /\ op'[e].k \in {"none", "purge"}
    BY <2>1 DEF HalfDone
  <2>2. CASE op'[e] = op[e]
    <3>1. HalfDone(e)
      BY DEF InOrder
    <3>2. op[e].k = "add" => /\ conv'[e].rosterSeq = LastEvent
                             /\ job'[e].seq # 0 => job'[e].copy.rosterSeq = LastEvent
      BY <3>1, AdderKeepsRoster DEF HalfDone
    <3> QED BY <2>2, <3>1, <3>2 DEF HalfDone, Me
  <2> QED BY <2>1, <2>2
<1> QED BY <1>2, <1>3 DEF InOrder
\* A device that is up to date, of a member, seals to the members.
LEMMA UpToDateSealsToMembers ==
  ASSUME Typed, RecordsTrue, LastExists, NEW d \in Devices, UpToDate(d), Me(d) \in members,
         log[LastEvent].roster = members
  PROVE  SealingMembers(d) = members /\ (Me(d) \in First => conv[d].rosterSeq = LastEvent)
<1>1. RecordTrue(log, d, conv[d]) /\ Heard(d, conv[d])
  BY DEF RecordsTrue
<1>2. conv[d].members = members /\ conv[d].rosterSeq \in {0, LastEvent}
  BY DEF UpToDate
<1>3. LastEvent # 0
  BY LastEventIsLast
<1>4. conv[d].roster = NoEvent \/ conv[d].roster = members
  BY <1>1, <1>2 DEF RecordTrue
<1> QED BY <1>1, <1>2, <1>3, <1>4 DEF SealingMembers, Heard

\* Every step that is in order keeps the order.
LEMMA StepInOrder ==
  ASSUME Typed, Typed', RecordsTrue, JobsInOrder, LastExists, InOrder, Next
  PROVE  LastExists' /\ InOrder'
<1> PICK d \in Devices :
       \/ Get(d) \/ Upsert(d) \/ Removed(d) \/ SendText(d)
       \/ AddOnServer(d) \/ AddUpsert(d) \/ AddAnnounce(d)
       \/ RemoveAnnounce(d) \/ RemoveOnServer(d)
       \/ Take(d) \/ Persist(d) \/ PurgeCopy(d) \/ PurgeWrite(d)
       \/ SetVerified(d) \/ AcceptNewKeys(d)
  BY DEF Next
<1>a. log' = log => LastExists' /\ LastEvent' = LastEvent
  BY DEF LastExists, IsLast, LastEvent
<1>b. \A r \in Rosters : Send(d, r) =>
          /\ LastExists' /\ log'[LastEvent'].roster = IF r = NoEvent THEN log[LastEvent].roster ELSE r
          /\ r = NoEvent => LastEvent' = LastEvent
  BY LastAfterSend
<1>c. op \in [Devices -> Ops] /\ members \in Lists /\ NoEvent \in Rosters /\ conv[d] \in Records
  BY DEF Typed, OpTyped, ServerTyped, ConvTyped, Rosters
<1>d. \A e \in Devices : op[e].k \in {"none", "add", "announce", "remove", "purge"}
  BY <1>c DEF Ops
<1>e. Me(d) \in Accounts /\ SealingMembers(d) \in Lists /\ NoEvent \notin Lists
  BY SealedToAccounts, RosterAssumption DEF NoEvent, Lists
<1>f. Idle.k = "none"
  BY DEF Idle
<1>1. CASE \/ Get(d) \/ Upsert(d) \/ Removed(d) \/ Take(d) \/ Persist(d) \/ SetVerified(d) \/ AcceptNewKeys(d)
  <2>1. UNCHANGED <<members, log, op, orderly>>
    BY <1>1 DEF Get, Upsert, Removed, Take, Persist, SetVerified, AcceptNewKeys, serverVars, panelVars
  <2>2. CASE orderly
    BY <1>a, <2>1, <2>2, QuietKeepsOrder
  <2>3. CASE ~orderly
    BY <1>a, <2>1, <2>3 DEF InOrder
  <2> QED BY <2>2, <2>3
<1>2. CASE SendText(d)
  <2>1. UNCHANGED <<members, op, orderly>> /\ Send(d, NoEvent)
    BY <1>2 DEF SendText, panelVars
  <2>2. LastExists' /\ log'[LastEvent].roster = log[LastEvent].roster /\ LastEvent' = LastEvent
    BY <1>b, <1>c, <2>1
  <2>3. CASE orderly
    BY <2>1, <2>2, <2>3, QuietKeepsOrder
  <2>4. CASE ~orderly
    BY <2>1, <2>2, <2>4 DEF InOrder
  <2> QED BY <2>3, <2>4
<1>3. CASE PurgeCopy(d) \/ PurgeWrite(d)
  <2>1. UNCHANGED <<members, log, orderly>>
    BY <1>3 DEF PurgeCopy, PurgeWrite, serverVars
  <2>2. \A e \in Devices : op'[e] = op[e] \/ (op[e].k \in {"none", "purge"} /\ op'[e].k \in {"none", "purge"})
    <3>1. CASE PurgeCopy(d)
      BY <3>1, <1>c DEF PurgeCopy, Set, Idle
    <3>2. CASE PurgeWrite(d)
      BY <3>2, <1>c, <1>f DEF PurgeWrite, Set
    <3> QED BY <1>3, <3>1, <3>2
  <2>3. CASE orderly
    BY <1>a, <2>1, <2>2, <2>3, QuietKeepsOrder
  <2>4. CASE ~orderly
    BY <1>a, <2>1, <2>4 DEF InOrder
  <2> QED BY <2>3, <2>4
<1>4. CASE AddOnServer(d)
  <2> PICK a \in Accounts \ members :
         /\ MayAdd(d) /\ Me(d) \in members
         /\ members' = members \cup {a}
         /\ op' = [op EXCEPT ![d] = [Idle EXCEPT !.k = "add", !.who = a, !.list = members']]
         /\ orderly' = (orderly /\ ~Disorder(d))
         /\ UNCHANGED <<log, conv, job>>
    BY <1>4 DEF AddOnServer, Set
  <2>1. LastExists' /\ LastEvent' = LastEvent
    BY <1>a
  <2>2. SUFFICES ASSUME orderly' PROVE InOrder'
    BY <2>1 DEF InOrder
  <2>3. orderly /\ UpToDate(d) /\ \A e \in Devices : op[e] = Idle
    BY <2>2 DEF Disorder
  <2>4. log[LastEvent].roster = members
    BY <1>f, <2>3 DEF InOrder, Changing
  <2>5. conv[d].rosterSeq = LastEvent
    <3>1. Me(d) \in First
      BY RosterAssumption DEF MayAdd
    <3> QED BY <2>3, <2>4, <3>1, UpToDateSealsToMembers
  <2>6. job[d].seq = 0
    BY <2>3 DEF UpToDate, NoJob
  <2>7. op'[d].k = "add" /\ op'[d].who = a /\ op'[d].list = members'
    BY <1>c DEF Idle
  <2>8. \A e \in Devices : e # d => op'[e].k = "none"
    BY <1>c, <1>f, <2>3
  <2>9. \A e \in Devices : (Changing(e))' => e = d
    BY <2>8 DEF Changing
  <2>10. (HalfDone(d))'
    <3>1. members = members' \ {a} /\ Me(d) \in members' \ {a} /\ a \in members'
      OBVIOUS
    <3> QED BY <2>1, <2>4, <2>5, <2>6, <2>7, <3>1 DEF HalfDone, Me
  <2>11. \A e \in Devices : (HalfDone(e))'
    BY <2>8, <2>10 DEF HalfDone
  <2>12. (Changing(d))'
    BY <2>7 DEF Changing
  <2> QED BY <2>9, <2>11, <2>12 DEF InOrder
<1>5. CASE AddUpsert(d)
  <2> DEFINE before == IF conv[d].roster = NoEvent THEN op[d].list \ {op[d].who} ELSE conv[d].roster
  <2>1. /\ op[d].k = "add"
        /\ op' = [op EXCEPT ![d] = [op[d] EXCEPT !.k = "announce", !.list = before \cup {Me(d), op[d].who}]]
        /\ UNCHANGED <<log, members, orderly>>
    BY <1>5 DEF AddUpsert, Set, serverVars
  <2>2. LastExists' /\ LastEvent' = LastEvent
    BY <1>a, <2>1
  <2>3. SUFFICES ASSUME orderly PROVE InOrder'
    BY <2>1, <2>2 DEF InOrder
  <2>4. /\ op[d].list = members /\ op[d].who \in members /\ Me(d) \in members \ {op[d].who}
        /\ log[LastEvent].roster = members \ {op[d].who} /\ conv[d].rosterSeq = LastEvent
    BY <2>1, <2>3 DEF InOrder, HalfDone
  <2>5. before = members \ {op[d].who}
    <3>1. LastEvent # 0
      BY LastEventIsLast
    <3>2. RecordTrue(log, d, conv[d])
      BY DEF RecordsTrue
    <3> QED BY <2>4, <3>1, <3>2 DEF RecordTrue
  <2>6. before \cup {Me(d), op[d].who} = members
    BY <2>4, <2>5
  <2> HIDE DEF before
  <2>7. op'[d].k = "announce" /\ op'[d].list = members' /\ \A e \in Devices : e # d => op'[e] = op[e]
    BY <1>c, <2>1, <2>6 DEF Ops
  <2>8. \A e \in Devices : Changing(e) => e = d
    BY <2>1, <2>3 DEF InOrder, Changing
  <2>9. \A e \in Devices : (Changing(e))' => e = d
    BY <2>7, <2>8 DEF Changing
  <2>10. (Changing(d))' /\ (HalfDone(d))'
    BY <2>7 DEF Changing, HalfDone
  <2>11. \A e \in Devices : (HalfDone(e))'
    BY <2>9, <2>10 DEF Changing, HalfDone
  <2> QED BY <2>9, <2>10, <2>11 DEF InOrder
<1>6. CASE AddAnnounce(d)
  <2>1. /\ op[d].k = "announce" /\ op' = [op EXCEPT ![d] = Idle] /\ members' = members
        /\ (Send(d, op[d].list) /\ orderly' = orderly) \/ (orderly' = FALSE /\ log' = log)
    BY <1>6 DEF AddAnnounce, Set
  <2>2. CASE orderly' = FALSE /\ log' = log
    BY <1>a, <2>2 DEF InOrder
  <2>3. CASE Send(d, op[d].list) /\ orderly' = orderly
    <3>1. op[d].list \in Lists
      BY <1>c DEF Ops
    <3>2. LastExists' /\ log'[LastEvent'].roster = op[d].list
      BY <1>b, <1>e, <2>3, <3>1 DEF Rosters
    <3>3. SUFFICES ASSUME orderly PROVE InOrder'
      BY <2>3, <3>2 DEF InOrder
    <3>4. op[d].list = members
      BY <2>1, <3>3 DEF InOrder, HalfDone
    <3>5. \A e \in Devices : Changing(e) => e = d
      BY <2>1, <3>3 DEF InOrder, Changing
    <3>6. \A e \in Devices : ~(Changing(e))'
      BY <1>c, <1>f, <2>1, <3>5 DEF Changing
    <3>7. \A e \in Devices : (HalfDone(e))'
      BY <3>6 DEF Changing, HalfDone
    <3> QED BY <2>1, <3>2, <3>4, <3>6, <3>7 DEF InOrder
  <2> QED BY <2>1, <2>2, <2>3
<1>7. CASE RemoveAnnounce(d)
  <2> PICK a \in Removable(d) :
        /\ Me(d) \in members
        /\ \/ Send(d, SealingMembers(d) \ {a}) /\ orderly' = (orderly /\ ~Disorder(d))
           \/ orderly' = FALSE /\ UNCHANGED log
        /\ op' = [op EXCEPT ![d] = [Idle EXCEPT !.k = "remove", !.who = a, !.copy = conv[d]]]
        /\ members' = members
    BY <1>7 DEF RemoveAnnounce, Set
  <2>1. CASE orderly' = FALSE /\ UNCHANGED log
    BY <1>a, <2>1 DEF InOrder
  <2>2. CASE Send(d, SealingMembers(d) \ {a}) /\ orderly' = (orderly /\ ~Disorder(d))
    <3>1. SealingMembers(d) \ {a} \in Lists
      BY <1>e DEF Lists
    <3>2. LastExists' /\ log'[LastEvent'].roster = SealingMembers(d) \ {a}
      BY <1>b, <1>e, <2>2, <3>1 DEF Rosters
    <3>3. SUFFICES ASSUME orderly' PROVE InOrder'
      BY <3>2 DEF InOrder
    <3>4. orderly /\ UpToDate(d) /\ \A e \in Devices : op[e] = Idle
      BY <2>2, <3>3 DEF Disorder
    <3>5. log[LastEvent].roster = members
      BY <1>f, <3>4 DEF InOrder, Changing
    <3>6. SealingMembers(d) = members
      BY <3>4, <3>5, UpToDateSealsToMembers
    <3>7. op'[d].k = "remove" /\ op'[d].who = a
      BY <1>c DEF Idle
    <3>8. \A e \in Devices : e # d => op'[e].k = "none"
      BY <1>c, <1>f, <3>4
    <3>9. \A e \in Devices : (HalfDone(e))'
      BY <3>2, <3>6, <3>7, <3>8 DEF HalfDone
    <3>10. (Changing(d))' /\ \A e \in Devices : (Changing(e))' => e = d
      BY <3>7, <3>8 DEF Changing
    <3> QED BY <3>9, <3>10 DEF InOrder
  <2> QED BY <2>1, <2>2
<1>8. CASE RemoveOnServer(d)
  <2>1. /\ op[d].k = "remove" /\ op' = [op EXCEPT ![d] = Idle] /\ log' = log
        /\ (members' = members \ {op[d].who} /\ orderly' = orderly) \/ orderly' = FALSE
    BY <1>8 DEF RemoveOnServer, Set
  <2>2. LastExists' /\ LastEvent' = LastEvent
    BY <1>a, <2>1
  <2>3. SUFFICES ASSUME orderly' PROVE InOrder'
    BY <2>2 DEF InOrder
  <2>4. members' = members \ {op[d].who} /\ orderly
    BY <2>1, <2>3
  <2>5. log[LastEvent].roster = members \ {op[d].who}
    BY <2>1, <2>4 DEF InOrder, HalfDone
  <2>6. \A e \in Devices : Changing(e) => e = d
    BY <2>1, <2>4 DEF InOrder, Changing
  <2>7. \A e \in Devices : ~(Changing(e))'
    BY <1>c, <1>f, <2>1, <2>6 DEF Changing
  <2>8. \A e \in Devices : (HalfDone(e))'
    BY <2>7 DEF Changing, HalfDone
  <2> QED BY <2>1, <2>2, <2>4, <2>5, <2>7, <2>8 DEF InOrder
<1> QED BY <1>1, <1>2, <1>3, <1>4, <1>5, <1>6, <1>7, <1>8
(***************************************************************************)
(* The theorems.                                                           *)
(***************************************************************************)
\* The initial states satisfy the invariant.
LEMMA InitInvariant ==
  ASSUME Init
  PROVE  IInv
<1>1. Typed /\ log[1].roster = First /\ First \in Lists /\ Len(log) = 1 /\ log[1].key = 0
  BY InitTyped
<1>2. log \in Seq(Entries) /\ DOMAIN log = {1}
  BY <1>1 DEF Typed, ServerTyped
<1>3. log[1].for = First
  BY DEF Init
<1>4. First # NoEvent
  BY <1>1, RosterAssumption DEF NoEvent, Lists
<1>5. \A d \in Devices : RecordTrue(log, d, Unknown) /\ (Me(d) \in First => RecordTrue(log, d, Known) /\ Heard(d, Known))
  BY <1>1, <1>3, <1>4 DEF RecordTrue, Unknown, Known, Heard
<1>6. \A d \in Devices : conv[d] = IF Me(d) \in First THEN Known ELSE Unknown
  BY DEF Init, Me
<1>7. \A d \in Devices : job[d] = NoJob /\ op[d] = Idle /\ joined[Me(d)] = 0
  BY RosterAssumption DEF Init, Me
<1>8. RecordsTrue
  BY <1>5, <1>6, <1>7 DEF RecordsTrue, Heard, NoJob, Idle
<1>9. JobsInOrder
  BY <1>1, <1>7 DEF Init, JobsInOrder, NoJob, Unknown
<1>10. NothingMissed
  <2> SUFFICES ASSUME NEW d \in Devices
               PROVE  /\ CaughtUp(log, joined[Me(d)], d, conv[d])
                      /\ CaughtUp(log, joined[Me(d)], d, job[d].copy)
                      /\ CaughtUp(log, joined[Me(d)], d, op[d].copy)
                      /\ job[d].copy.synced <= conv[d].synced
    BY DEF NothingMissed
  <2>1. CaughtUp(log, 0, d, Unknown) /\ CaughtUp(log, 0, d, Known)
    BY DEF CaughtUp, Unknown, Known
  <2>2. job[d].copy = Unknown /\ op[d].copy = Unknown /\ joined[Me(d)] = 0
    BY <1>7 DEF NoJob, Idle
  <2>3. Unknown.synced = 0 /\ Known.synced = 1
    BY DEF Unknown, Known
  <2>4. conv[d] = Known \/ conv[d] = Unknown
    BY <1>6
  <2>5. CaughtUp(log, 0, d, conv[d]) /\ 0 <= conv[d].synced
    BY <2>1, <2>3, <2>4
  <2> QED BY <2>1, <2>2, <2>3, <2>5
<1>11. NobodyUnvouched
  BY <1>1 DEF NobodyUnvouched
<1>12. SealedToTrusted
  BY <1>1, <1>2 DEF SealedToTrusted
<1>13. \A d \in Devices : contact[d] \in {NewContact, [NewContact EXCEPT !.pin = 1, !.trusted = {1}]}
  BY DEF Init
<1>14. VerifiedWereCompared /\ PinsTrusted
  <2> DEFINE m == [NewContact EXCEPT !.pin = 1, !.trusted = {1}]
  <2>a. NewContact.verified = FALSE /\ NewContact.pin = 0 /\ NewContact.trusted = {}
    BY DEF NewContact
  <2>b. m.verified = FALSE /\ m.pin = 1 /\ m.trusted = {1}
    BY DEF NewContact
  <2> HIDE DEF m
  <2>1. \A c \in {NewContact, m} :
           c.verified = FALSE /\ IF c.pin = 0 THEN c.trusted = {} ELSE c.pin \in c.trusted
    BY <2>a, <2>b
  <2>2. \A d \in Devices : contact[d] \in {NewContact, m}
    BY <1>13 DEF m
  <2> QED BY <2>1, <2>2 DEF VerifiedWereCompared, PinsTrusted
<1>15. LastExists
  BY <1>1, <1>2, <1>4 DEF LastExists, IsLast
<1>16. log[LastEvent].roster = members
  <2>1. LastEvent \in {1}
    BY <1>1, <1>15, LastEventIsLast
  <2> QED BY <1>1, <2>1 DEF Init
<1>17. InOrder
  BY <1>7, <1>16 DEF InOrder, Changing, HalfDone, Idle
<1> QED BY <1>1, <1>8, <1>9, <1>10, <1>11, <1>12, <1>14, <1>15, <1>17 DEF IInv

\* Every step keeps the invariant.
LEMMA StepInvariant ==
  ASSUME IInv, [Next]_vars
  PROVE  IInv'
<1>1. CASE Next
  <2>1. Typed'
    BY <1>1, StepTyped DEF IInv
  <2>2. RecordsTrue' /\ JobsInOrder' /\ NothingMissed'
    BY <1>1, <2>1, StepRecordsTrue, StepJobsInOrder, StepNothingMissed DEF IInv
  <2>3. NobodyUnvouched' /\ PinsTrusted' /\ VerifiedWereCompared' /\ SealedToTrusted'
    BY <1>1, StepNobodyUnvouched, StepKeysWereChecked DEF IInv
  <2>4. LastExists' /\ InOrder'
    BY <1>1, <2>1, StepInOrder DEF IInv
  <2> QED BY <2>1, <2>2, <2>3, <2>4 DEF IInv
<1>2. CASE UNCHANGED vars
  <2>1. UNCHANGED <<members, log, joined, conv, contact, gets, told, job, op, orderly, rewound, world>>
    BY <1>2 DEF vars, serverVars, panelVars
  <2>2. Typed'
    BY <2>1 DEF IInv, Typed, ServerTyped, ConvTyped, ContactTyped, NetTyped, JobTyped, OpTyped, HistoryTyped
  <2>3. RecordsTrue' /\ JobsInOrder' /\ NothingMissed'
    BY <2>1 DEF IInv, RecordsTrue, RecordTrue, Heard, JobsInOrder, NothingMissed, CaughtUp, Me
  <2>4. NobodyUnvouched' /\ PinsTrusted' /\ VerifiedWereCompared' /\ SealedToTrusted'
    BY <2>1 DEF IInv, NobodyUnvouched, PinsTrusted, VerifiedWereCompared, SealedToTrusted, Me
  <2>5. LastExists' /\ LastEvent' = LastEvent
    BY <2>1 DEF IInv, LastExists, IsLast, LastEvent
  <2>6. InOrder'
    BY <2>1, <2>5 DEF IInv, InOrder, Changing, HalfDone, Me
  <2> QED BY <2>2, <2>3, <2>4, <2>5, <2>6 DEF IInv
<1> QED BY <1>1, <1>2

\* The invariant holds in every state: records and copies are true to the log and,
\* where none was written back, complete; keys in use are trusted; operations in order
\* keep signed roster and list together (everything that writes a record in
\* web/src/state/sync.ts and messaging.ts).
THEOREM Invariant == Spec => []IInv
<1>1. Init => IInv
  BY InitInvariant
<1>2. IInv /\ [Next]_vars => IInv'
  BY StepInvariant
<1> QED BY <1>1, <1>2, PTL DEF Spec

\* The parts give the type invariant.
LEMMA InvariantGivesTypes ==
  ASSUME IInv
  PROVE  TypeOK
<1>1. Typed /\ RecordsTrue /\ JobsInOrder
  BY DEF IInv
<1>2. /\ members \in Lists /\ joined \in [Accounts -> Nat] /\ log \in Seq(Entries)
      /\ Len(log) \in Nat /\ Len(log) <= world.last /\ world.last \in Nat
  BY <1>1, RosterAssumption DEF Typed, ServerTyped, HistoryTyped
<1>3. joined \in [Accounts -> 0..world.last]
  <2>1. \A a \in Accounts : joined[a] \in 0..world.last
    BY <1>1, <1>2 DEF JobsInOrder
  <2> QED BY <1>2, <2>1
<1>4. \A i \in DOMAIN log : log[i] \in Entries
  BY <1>2
<1>5. \A d \in Devices, r \in Records : RecordTrue(log, d, r) => r \in Record /\ r.rosterSeq <= r.synced
  <2> SUFFICES ASSUME NEW d \in Devices, NEW r \in Records, RecordTrue(log, d, r)
               PROVE  r \in Record /\ r.rosterSeq <= r.synced
    OBVIOUS
  <2>1. r.rosterSeq \in 0..world.last /\ r.synced \in 0..world.last /\ r.rosterSeq <= r.synced
    BY <1>2 DEF RecordTrue, Records
  <2> QED BY <2>1 DEF Records, Record, Rosters
<1>6. ASSUME NEW d \in Devices
      PROVE  /\ conv[d] \in Record /\ conv[d].rosterSeq <= conv[d].synced
             /\ job[d] \in [seq : 0..world.last, copy : Record]
             /\ op[d] \in [k : {"none", "add", "announce", "remove", "purge"},
                           who : Accounts \cup {None}, list : Lists, copy : Record]
  <2>1. conv[d] \in Records /\ job[d] \in Jobs /\ op[d] \in Ops
    BY <1>1 DEF Typed, ConvTyped, JobTyped, OpTyped
  <2>2. job[d].copy \in Records /\ op[d].copy \in Records /\ job[d].seq \in Nat
    BY <2>1 DEF Jobs, Ops
  <2>3. conv[d] \in Record /\ conv[d].rosterSeq <= conv[d].synced /\ job[d].copy \in Record /\ op[d].copy \in Record
    BY <1>1, <1>5, <2>1, <2>2 DEF RecordsTrue
  <2>4. job[d].seq \in 0..world.last
    BY <1>1, <1>2, <2>2 DEF JobsInOrder
  <2> QED BY <2>1, <2>3, <2>4 DEF Jobs, Ops
<1>7. /\ conv \in [Devices -> Record]
      /\ job \in [Devices -> [seq : 0..world.last, copy : Record]]
      /\ op \in [Devices -> [k : {"none", "add", "announce", "remove", "purge"},
                             who : Accounts \cup {None}, list : Lists, copy : Record]]
  BY <1>1, <1>6 DEF Typed, ConvTyped, JobTyped, OpTyped
<1>8. contact \in [Devices -> Contacts] /\ gets \in [Devices -> SUBSET Lists] /\ told \in [Devices -> BOOLEAN]
      /\ orderly \in BOOLEAN /\ rewound \subseteq Devices
  BY <1>1 DEF Typed, ContactTyped, NetTyped, HistoryTyped
<1> QED BY <1>2, <1>3, <1>4, <1>6, <1>7, <1>8 DEF TypeOK, Contacts, KeyOrNot, Entries, Rosters

\* Records are well typed, and nothing is sealed to somebody no event had named
\* (sealingMembers).
THEOREM RosterConsistent == Spec => []Consistent
<1>1. IInv => Consistent
  BY InvariantGivesTypes DEF IInv, Consistent
<1> QED BY <1>1, Invariant, PTL

\* A device that wrote nothing old back has the roster of the last event it could open
\* (applyStored, advanceSilently, upsertFromServer).
THEOREM RosterIsTheLogs == Spec => []RosterFollowsLog
<1>1. IInv => RosterFollowsLog
  <2> SUFFICES ASSUME IInv, NEW d \in Devices \ rewound,
                      {i \in (joined[Me(d)] + 1)..conv[d].synced : log[i].roster # NoEvent /\ Opens(d, i)} # {}
               PROVE  LET events == {i \in (joined[Me(d)] + 1)..conv[d].synced :
                                       log[i].roster # NoEvent /\ Opens(d, i)}
                      IN  conv[d].roster = log[CHOOSE i \in events : \A k \in events : k <= i].roster
    BY DEF RosterFollowsLog
  <2> DEFINE events == {i \in (joined[Me(d)] + 1)..conv[d].synced : log[i].roster # NoEvent /\ Opens(d, i)}
             n == conv[d].rosterSeq
  <2>1. Me(d) \in Accounts /\ conv[d] \in Records
    BY RosterAssumption DEF Me, IInv, Typed, ConvTyped
  <2>2. joined[Me(d)] \in Nat /\ n \in Nat /\ conv[d].synced \in Nat
    BY <2>1 DEF IInv, Typed, ServerTyped, Records
  <2>3. \A i \in events : i <= n
    BY DEF IInv, NothingMissed, CaughtUp, Opens
  <2>4. RecordTrue(log, d, conv[d])
    BY DEF IInv, RecordsTrue
  <2>5. PICK i \in events : TRUE
    OBVIOUS
  <2>6. n \in events /\ conv[d].roster = log[n].roster
    <3>1. i \in Nat /\ joined[Me(d)] + 1 <= i /\ i <= n
      BY <2>2, <2>3, <2>5
    <3>2. n # 0 /\ n \in (joined[Me(d)] + 1)..conv[d].synced
      BY <2>2, <2>4, <3>1 DEF RecordTrue
    <3> QED BY <2>4, <3>2 DEF RecordTrue, Opens
  <2>7. events \subseteq Nat
    BY <2>2
  <2> HIDE DEF events
  <2>8. (CHOOSE k \in events : \A m \in events : m <= k) = n
    <3>1. \A k \in events : (\A m \in events : m <= k) => k = n
      BY <2>2, <2>3, <2>6, <2>7
    <3> QED BY <2>3, <2>6, <3>1
  <2> QED BY <2>6, <2>8 DEF events
<1> QED BY <1>1, Invariant, PTL

\* Operations in order leave the last event's roster equal to the server's list
\* (addMember, removeMember).
THEOREM RosterIsTheServers == Spec => []SignedRosterIsServers
<1>1. IInv => SignedRosterIsServers
  BY DEF IInv, InOrder, Changing, SignedRosterIsServers
<1> QED BY <1>1, Invariant, PTL

\* Nothing is sealed under keys the user had not met first or accepted, and verified
\* keys were compared (observeKeys, recipientsFor, setVerified, acceptNewKeys).
THEOREM RosterKeysWereChecked == Spec => []KeysWereChecked
<1>1. IInv => KeysWereChecked
  BY DEF IInv, KeysWereChecked
<1> QED BY <1>1, Invariant, PTL
=============================================================================
