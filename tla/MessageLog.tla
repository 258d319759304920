----------------------------- MODULE MessageLog -----------------------------
(***************************************************************************)
(* What the server promises about the stored messages of one conversation: *)
(* a log that only grows at its end.  A position holds a message, a        *)
(* deletion record naming an earlier position, or nothing any more         *)
(* (deleted, or expired under the retention timer).  A position never      *)
(* comes back to life and never changes hands, which is what lets every    *)
(* client follow the log with one cursor (PROTOCOL.md 5.2 and 6.3).        *)
(***************************************************************************)
EXTENDS Integers

CONSTANTS
    Bodies,      \* what identifies a message: its sender and its client id
    Actors       \* the accounts that sign deletion records

VARIABLES
    last,        \* the last sequence number assigned
    log          \* log[i] for i in 1..last is what position i holds

logVars == <<last, log>>

Message(m)     == [kind |-> "message", body |-> m]
Record(by, of) == [kind |-> "record", by |-> by, of |-> of]
Nothing        == [kind |-> "gone"]

\* The log followed by e.
Extended(l, n, e) == [i \in 1..(n + 1) |-> IF i = n + 1 THEN e ELSE l[i]]

\* The log without what the positions in S hold.
Without(l, n, S) == [i \in 1..n |-> IF i \in S THEN Nothing ELSE l[i]]

Init ==
    /\ last = 0
    /\ log = [i \in 1..0 |-> Nothing]

\* A new message takes the next position.
Append == \E m \in Bodies :
    /\ last' = last + 1
    /\ log' = Extended(log, last, Message(m))

\* A message is removed and the record that says so takes the next position.
Delete == \E by \in Actors, of \in 1..last :
    /\ log[of].kind = "message"
    /\ last' = last + 1
    /\ log' = Extended(Without(log, last, {of}), last, Record(by, of))

\* The retention timer empties any positions, records included.
Expire == \E S \in SUBSET (1..last) :
    /\ log' = Without(log, last, S)
    /\ last' = last

Next == Append \/ Delete \/ Expire

Spec == Init /\ [][Next]_logVars
=============================================================================
